----------------------------- MODULE WorkerPool -----------------------------
(***************************************************************************)
(* What the httpd and the smtpd have in common: a threadgroup of workers   *)
(* that take turns, under tcplock, at accepting a connection, and a count  *)
(* "load" of the connections being served. Constructor, main thread and    *)
(* shutdown are in Httpd.                                                  *)
(*                                                                         *)
(* A worker looks at its events only when it fails to get tcplock in time  *)
(* or when no connection comes while it holds it.                          *)
(***************************************************************************)
EXTENDS Integers, Sequences, FiniteSets, Functions

CONSTANTS
    Workers,          \* the workers that may ever be made
    MinThr, MaxThr,   \* minthr and maxthr
    MaxConns,         \* bound on the connections made to the listener
    None

ASSUME WorkersAssumption == IsFiniteSet(Workers) /\ None \notin Workers
ASSUME ThreadsAssumption ==
    MinThr \in Nat \ {0} /\ MaxThr \in Nat /\ MinThr <= MaxThr
ASSUME ConnsAssumption == MaxConns \in Nat

VARIABLES
    members,     \* the array of the group "workers", finished ones included
    wpc,         \* where a worker is
    die,         \* workers with a "die" event they have not looked at
    tcplock,     \* the worker that holds it
    load,        \* load.o
    nload,       \* the value a worker has read of it
    conns        \* connections made so far

pool == <<members, wpc, die, tcplock, load, nload, conns>>

PoolInit ==
    /\ members = <<>>
    /\ wpc = [w \in Workers |-> "none"]
    /\ die = {}
    /\ tcplock = None
    /\ load = 0
    /\ nload = [w \in Workers |-> 0]
    /\ conns = 0

Reach(w, from, to) == wpc[w] = from /\ wpc' = [wpc EXCEPT ![w] = to]

\* "new httpdworker (this)", which links itself to the group and spawns.
NewWorker ==
    \E w \in Workers : Reach(w, "none", "wait") /\ members' = Append(members, w)

(***************************************************************************)
(* tcplock and the listener                                                *)
(***************************************************************************)
trylockw(w) ==
    /\ Reach(w, "wait", "accept")
    /\ tcplock = None /\ tcplock' = w
    /\ UNCHANGED <<members, die, load, nload, conns>>

\* nextevent gives "die": run returns.
Leave(w, from) == w \in die /\ die' = die \ {w} /\ Reach(w, from, "gone")

\* trylockw has timed out; tcplock may have been given back since.
leaveWaiting(w) ==
    /\ Leave(w, "wait")
    /\ UNCHANGED <<members, tcplock, load, nload, conns>>

accept(w) ==
    /\ conns < MaxConns /\ conns' = conns + 1
    /\ Reach(w, "accept", "count")
    /\ tcplock' = None
    /\ UNCHANGED <<members, die, load, nload>>

\* MUTANT: the way out does not give tcplock back.
leaveLocked(w) ==
    Leave(w, "accept") /\ UNCHANGED <<members, tcplock, load, nload, conns>>

\* tryaccept has timed out.
leaveAccepting(w) ==
    /\ Leave(w, "accept")
    /\ tcplock' = None
    /\ UNCHANGED <<members, load, nload, conns>>

(***************************************************************************)
(* load.o++ and load.o-- run inside exclusiveaccess, which takes a SHARED  *)
(* lock: another worker may write between the read and the write.          *)
(***************************************************************************)
ReadLoad(w, from, to) ==
    /\ Reach(w, from, to)
    /\ nload' = [nload EXCEPT ![w] = load]
    /\ UNCHANGED <<members, die, tcplock, load, conns>>

WriteLoad(w, from, to, change) ==
    /\ Reach(w, from, to)
    /\ load' = nload[w] + change
    /\ nload' = [nload EXCEPT ![w] = 0]
    /\ UNCHANGED <<members, die, tcplock, conns>>

\* The session, whatever happens in it, ends with the socket closed.
serve(w) ==
    Reach(w, "serve", "uncount") /\ UNCHANGED <<members, die, tcplock, load, nload, conns>>

Work(w) ==
    \/ trylockw(w) \/ leaveWaiting(w) \/ leaveAccepting(w)
    \/ ReadLoad(w, "count", "counting") \/ WriteLoad(w, "counting", "serve", 1)
    \/ serve(w)
    \/ ReadLoad(w, "uncount", "uncounting") \/ WriteLoad(w, "uncounting", "wait", -1)

-----------------------------------------------------------------------------
Gone == {w \in Workers : wpc[w] = "gone"}
Alive == {w \in Workers : wpc[w] \notin {"none", "gone"}}

PoolTypeOK ==
    /\ members \in Seq(Workers)
    /\ wpc \in [Workers -> {"none", "wait", "accept", "count", "counting", "serve",
                            "uncount", "uncounting", "gone"}]
    /\ Alive \subseteq Range(members)
    /\ die \subseteq Range(members)
    /\ \A w \in Workers : tcplock = w <=> wpc[w] = "accept"
    /\ tcplock \in Workers \union {None}
    /\ load \in Int
    /\ nload \in [Workers -> Int]
    /\ conns \in 0 .. MaxConns
=============================================================================
