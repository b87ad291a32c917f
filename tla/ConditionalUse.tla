--------------------------- MODULE ConditionalUse ---------------------------
(***************************************************************************)
(* A conditional by itself: any thread outside wait() may call wait() or   *)
(* wait(timeout), and the condition is raised at most MaxRaises times.     *)
(***************************************************************************)
EXTENDS Conditional, FiniteSets

CONSTANTS
    Waiters,     \* the threads that call wait()
    MaxRaises,   \* bound on the calls of signal() and broadcast()
    MaxDebt      \* bound on how far below zero the counter may run

ASSUME WaitersAssumption == IsFiniteSet(Waiters)
ASSUME BoundsAssumption == MaxRaises \in Nat /\ MaxDebt \in Nat

VARIABLE raises  \* how often the condition was raised: the bound's counter

vars == <<queue, sleeping, woken, raises>>

Awake(t) == t \in Waiters \ (sleeping \union woken)

CanRaise == raises < MaxRaises /\ raises' = raises + 1

Init == CondInit /\ raises = 0

signal      == CanRaise /\ CondSignal
broadcast   == CanRaise /\ CondBroadcast
take(t)     == Awake(t) /\ queue > -MaxDebt /\ CondTake(t) /\ UNCHANGED raises
sleep(t)    == Awake(t) /\ CondSleep(t) /\ UNCHANGED raises
wake(t)     == CondWake(t) /\ UNCHANGED raises
timeout(t)  == CondTimeout(t) /\ UNCHANGED raises
spurious(t) == CondSpurious(t) /\ UNCHANGED raises

Next ==
    \/ signal
    \/ broadcast
    \/ \E t \in Waiters : take(t) \/ sleep(t) \/ wake(t) \/ timeout(t) \/ spurious(t)

Spec == Init /\ [][Next]_vars

-----------------------------------------------------------------------------
TypeOK ==
    /\ queue \in Int
    /\ sleeping \subseteq Waiters
    /\ woken \subseteq Waiters
    /\ sleeping \intersect woken = {}
    /\ raises \in Nat

\* No raise goes to waste: while a thread sleeps, every raise the counter
\* still holds is already meant for a thread that has been woken and is on
\* its way to take it. It holds for any number of waiters and raisers, with
\* broadcasts, timeouts and spurious wakeups.
NoRaiseWasted == sleeping # {} => queue <= Cardinality(woken)

\* The counter never promises less than nothing: it covers every woken
\* thread, so that the decrement after pthread_cond_wait takes a raise that
\* is really there. Only true when a single thread waits.
CounterCoversWoken == queue >= Cardinality(woken)

\* "Sleep until the condition is raised": a wait that returns at once takes a
\* raise that is there, so the counter it decrements was positive.
SleepUntilRaised == [][ \A t \in Waiters : take(t) => queue > 0 ]_vars

\* With a single waiter the class keeps the contract of a remembered raise.
Contract == INSTANCE RaiseContract
              WITH credit <- queue - Cardinality(woken),
                   blocked <- sleeping, released <- woken
ContractSpec == Contract!Spec
=============================================================================
