--------------------------- MODULE RaiseContract ---------------------------
(***************************************************************************)
(* What the comments of class conditional (include/grace/lock.h) promise:  *)
(* wait() sleeps until the condition is raised; a raise releases a sleeper *)
(* (signal) or all of them (broadcast), and one that finds nobody asleep   *)
(* is remembered for one later wait().                                     *)
(***************************************************************************)
EXTENDS Integers

CONSTANT Waiters

VARIABLES
    credit,      \* remembered raises
    blocked,     \* threads asleep in wait()
    released     \* threads let go that have not yet left wait()

cvars == <<credit, blocked, released>>

Init == credit = 0 /\ blocked = {} /\ released = {}

Remember == blocked = {} /\ credit' = credit + 1 /\ UNCHANGED <<blocked, released>>

Release(S) ==
    /\ blocked' = blocked \ S
    /\ released' = released \union S
    /\ UNCHANGED credit

Raise == Remember \/ \E t \in blocked : Release({t})
RaiseAll == Remember \/ (blocked # {} /\ Release(blocked))

WaitAtOnce ==
    credit > 0 /\ credit' = credit - 1 /\ UNCHANGED <<blocked, released>>

Block(t) ==
    /\ credit = 0
    /\ t \notin blocked \union released
    /\ blocked' = blocked \union {t}
    /\ UNCHANGED <<credit, released>>

Leave(t) ==
    t \in released /\ released' = released \ {t} /\ UNCHANGED <<credit, blocked>>

GiveUp(t) ==
    t \in blocked /\ blocked' = blocked \ {t} /\ UNCHANGED <<credit, released>>

Next ==
    \/ Raise \/ RaiseAll \/ WaitAtOnce
    \/ \E t \in Waiters : Block(t) \/ Leave(t) \/ GiveUp(t)

Spec == Init /\ [][Next]_cvars
=============================================================================
