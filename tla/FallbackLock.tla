---------------------------- MODULE FallbackLock ----------------------------
(***************************************************************************)
(* The class lockbase as it is built where the pthread library has no      *)
(* rwlocks (lock.h, lock.cpp, the branch without PTHREAD_HAVE_RWLOCK): a   *)
(* readers/writer lock made of a mutex, a condition variable, a status and *)
(* the list of the threads that called it.                                 *)
(*                                                                         *)
(* What runs under the mutex is one action. A thread in pthread_cond_wait  *)
(* is in asleep until a broadcast; then it tests the status again.         *)
(***************************************************************************)
EXTENDS Integers, FiniteSets

CONSTANTS
    Threads,
    Readers, Writers,         \* the threads that call lockr, lockw
    TryReaders, TryWriters,   \* ... trylockr, trylockw
    Upgraders,                \* ... lockw inside a read lock
    Nesters,                  \* the threads that lock again what they have locked
    MaxNest,                  \* bound on the locks one thread has taken
    NoThread,
    Garbage,                  \* what the uninitialised writer may hold
    MaxDrift                  \* bound on how far off numlocks may run

ASSUME ThreadsAssumption ==
    /\ IsFiniteSet(Threads)
    /\ Readers \union Writers \union TryReaders \union TryWriters \union Upgraders
         \union Nesters \subseteq Threads
    /\ NoThread \notin Threads
    /\ Garbage \subseteq Threads \union {NoThread}
ASSUME DriftAssumption == MaxDrift \in Nat /\ MaxNest \in Nat

VARIABLES
    status,      \* LOCK_NONE, LOCK_READ, LOCK_PREWRITE, ...
    numlocks,    \* an int, not kept at the number of holders by all methods
    writer,      \* the thread lockw or trylockw last let in
    upgraded,    \* writerupgraded
    locks,       \* the threads in the locks array
    asleep,      \* threads inside pthread_cond_wait
    pc,          \* "out" of any method, "lockr", "lockw" or "upgrade" in its loop
    holds,       \* what the thread was let into and has not unlocked since
    owed        \* the unlocks it has still to make, one for each lock it took

lockVars == <<status, numlocks, writer, upgraded, locks, asleep, pc, holds, owed>>

\* The constructor sets status and numlocks; writer and writerupgraded start
\* with whatever the memory held.
LockInit ==
    /\ status = "none"
    /\ numlocks = 0
    /\ writer \in Garbage
    /\ upgraded \in BOOLEAN
    /\ locks = {}
    /\ asleep = {}
    /\ pc = [t \in Threads |-> "out"]
    /\ holds = [t \in Threads |-> "none"]
    /\ owed = [t \in Threads |-> 0]

Drift == numlocks \in (-MaxDrift) .. MaxDrift

\* The caller has no lock, or takes one inside of those it has.
Calls(t) ==
    /\ pc[t] = "out"
    /\ \/ owed[t] = 0
       \/ t \in Nesters /\ owed[t] < MaxNest

Owes(t, mode) ==
    /\ holds' = [holds EXCEPT ![t] = mode]
    /\ owed' = [owed EXCEPT ![t] = @ + 1]

\* MUTANT: goahead is not set, the loop goes round again.
LetInButWaits(t, mode) == Owes(t, mode) /\ UNCHANGED pc

\* goahead: the loop of lockr or lockw ends and the caller goes on.
LetIn(t, mode) == pc' = [pc EXCEPT ![t] = "out"] /\ Owes(t, mode)

\* addme() found the thread in the list and the method returns at once: the
\* lock keeps no count of it.
PassedBy(t, mode) ==
    /\ t \in locks
    /\ LetIn(t, mode)
    /\ UNCHANGED <<status, numlocks, writer, upgraded, locks, asleep>>

(***************************************************************************)
(* lockr: one turn of its loop                                             *)
(***************************************************************************)
\* MUTANT: a pending writer is passed by.
MayReadPastWriter == status \in {"none", "read", "prewrite"}
MayRead == status \in {"none", "read"}

ReadTurn(t) ==
    \/ /\ MayRead
       /\ status' = "read"
       /\ numlocks' = numlocks + 1
       /\ LetIn(t, "read")
       /\ UNCHANGED <<writer, upgraded, asleep>>
    \/ /\ ~ MayRead
       /\ pc' = [pc EXCEPT ![t] = "lockr"]
       /\ asleep' = asleep \union {t}
       /\ UNCHANGED <<status, numlocks, writer, upgraded, holds, owed>>

lockr(t) ==
    /\ Calls(t)
    /\ \/ t \notin locks /\ locks' = locks \union {t} /\ ReadTurn(t)
       \/ PassedBy(t, holds[t])

lockrAgain(t) ==
    pc[t] = "lockr" /\ t \notin asleep /\ ReadTurn(t) /\ UNCHANGED locks

(***************************************************************************)
(* lockw: one turn of its loop. An upgrade that finds a writer pending     *)
(* goes on at once: "numlocks = 1" in its test is an assignment.           *)
(***************************************************************************)
Hurry(upgrading) == upgrading /\ status = "prewrite"
MayWrite(upgrading) == Hurry(upgrading) \/ status \in {"none", "readywrite"}

WriteTurn(t, upgrading) ==
    \/ /\ MayWrite(upgrading)
       /\ status' = "write"
       /\ numlocks' = (IF Hurry(upgrading) THEN 1 ELSE numlocks) + 1
       /\ writer' = t
       /\ upgraded' = upgrading
       /\ LetIn(t, "write")
       /\ UNCHANGED asleep
    \/ /\ ~ MayWrite(upgrading)
       /\ status' = IF status = "read" THEN "prewrite" ELSE status
       /\ pc' = [pc EXCEPT ![t] = IF upgrading THEN "upgrade" ELSE "lockw"]
       /\ asleep' = asleep \union {t}
       /\ UNCHANGED <<numlocks, writer, upgraded, holds, owed>>

\* By a thread in the list: the one that writer names goes on at once, any
\* other is upgrading.
LockwInList(t) ==
    \/ writer = t /\ PassedBy(t, "write")
    \/ writer # t /\ WriteTurn(t, TRUE) /\ UNCHANGED locks

\* A reader that calls lockw is upgrade.
lockw(t) ==
    /\ Calls(t)
    /\ \/ t \notin locks /\ locks' = locks \union {t} /\ WriteTurn(t, FALSE)
       \/ holds[t] = "write" /\ LockwInList(t)

lockwAgain(t) ==
    /\ pc[t] \in {"lockw", "upgrade"}
    /\ t \notin asleep
    /\ WriteTurn(t, pc[t] = "upgrade")
    /\ UNCHANGED locks

\* lockw by a thread that holds a read lock: it is upgrading -- unless writer,
\* perhaps never set, happens to name it.
upgrade(t) ==
    /\ pc[t] = "out" /\ holds[t] = "read" /\ owed[t] < MaxNest /\ Drift
    /\ LockwInList(t)

(***************************************************************************)
(* trylockr and trylockw: a turn that succeeds. One that fails takes its   *)
(* place in the list back and changes nothing; so does a trylockr by a     *)
(* thread that is in the list, which finds addme() false ten times.        *)
(***************************************************************************)
trylockr(t) ==
    /\ Calls(t)
    /\ t \notin locks
    /\ MayRead
    /\ locks' = locks \union {t}
    /\ ReadTurn(t)

\* numlocks is not incremented here.
trylockw(t) ==
    /\ Calls(t) /\ Drift
    /\ \/ writer = t /\ PassedBy(t, "write")
       \/ /\ ~ (t \in locks /\ writer = t)
          /\ MayWrite(FALSE)
          /\ locks' = locks \union {t}
          /\ status' = "write"
          /\ writer' = t
          /\ upgraded' = (t \in locks)
          /\ LetIn(t, "write")
          /\ UNCHANGED <<numlocks, asleep>>

(***************************************************************************)
(* unlock: release, then wake everybody                                    *)
(***************************************************************************)
\* MUTANT: numlocks is not looked at.
AfterAnyReader(left) == IF status = "prewrite" THEN "readywrite" ELSE "none"

\* The status a reader leaves behind, with "left" others still counted.
AfterReader(left) == IF left # 0 THEN status
                     ELSE IF status = "prewrite" THEN "readywrite" ELSE "none"

EndRead ==
    /\ status \in {"read", "prewrite"}
    /\ status' = AfterReader(numlocks - 1)
    /\ UNCHANGED <<writer, upgraded>>

EndWrite ==
    /\ status \notin {"read", "prewrite"}
    /\ status' = IF upgraded THEN "read" ELSE "none"
    /\ writer' = NoThread
    /\ upgraded' = FALSE

\* MUTANT: unlock wakes nobody when it leaves the lock to a writer.
WakeUnlessReady == asleep' = IF status' = "readywrite" THEN asleep ELSE {}

WakeAll == asleep' = {}

\* An upgraded writer keeps its place in the list: it is a reader again.
Downgrades(t) == status = "write" /\ writer = t /\ upgraded

\* delme() takes the thread out of the list on its first unlock, however many
\* unlocks it owes. The others find it gone and only wake.
unlock(t) ==
    /\ pc[t] = "out" /\ owed[t] > 0
    /\ \/ /\ Downgrades(t) \/ t \in locks
          /\ locks' = IF Downgrades(t) THEN locks ELSE locks \ {t}
          /\ numlocks' = numlocks - 1
          /\ EndRead \/ EndWrite
       \/ /\ ~ (Downgrades(t) \/ t \in locks)
          /\ UNCHANGED <<status, numlocks, writer, upgraded, locks>>
    /\ holds' = [holds EXCEPT ![t] = IF Downgrades(t) THEN "read" ELSE "none"]
    /\ owed' = [owed EXCEPT ![t] = @ - 1]
    /\ WakeAll
    /\ UNCHANGED pc

Again(t) == lockrAgain(t) \/ lockwAgain(t)

LockNext ==
    \/ \E t \in Threads : Again(t) \/ unlock(t)
    \/ \E t \in Readers : lockr(t)
    \/ \E t \in Writers : lockw(t)
    \/ \E t \in TryReaders : trylockr(t)
    \/ \E t \in TryWriters : trylockw(t)
    \/ \E t \in Upgraders : upgrade(t)

LockSpec == LockInit /\ [][LockNext]_lockVars

\* Sections end, and a thread that is awake inside a method goes on.
LockFairness == \A t \in Threads : WF_lockVars(unlock(t)) /\ WF_lockVars(Again(t))

LockFairSpec == LockSpec /\ LockFairness

-----------------------------------------------------------------------------
Holders == {t \in Threads : holds[t] # "none"}
Waiting == {t \in Threads : pc[t] # "out"}

LockTypeOK ==
    /\ status \in {"none", "read", "write", "prewrite", "readywrite"}
    /\ numlocks \in Int
    /\ writer \in Threads \union {NoThread}
    /\ upgraded \in BOOLEAN
    /\ locks \subseteq Threads
    /\ asleep \subseteq Waiting
    /\ pc \in [Threads -> {"out", "lockr", "lockw", "upgrade"}]
    /\ holds \in [Threads -> {"none", "read", "write"}]
    /\ owed \in [Threads -> Nat]
    /\ \A t \in Threads : pc[t] \in {"lockr", "lockw"} => holds[t] = "none"

\* "Will block if there are current read-locks": while a thread is inside a
\* write lock nobody else is inside any lock. A thread that takes a lock inside
\* of its own is inside up to its first unlock, which gives up the outer lock
\* too (delme): from there to its last one it only thinks that it is, and
\* others come in beside it. A thread that never nests has no lock at all then.
\* It holds for threads that use lockr, lockw and trylockr, and fails once
\* trylockw or an upgrade is used.
MutualExclusion ==
    \A t, u \in Threads :
        holds[t] = "write" /\ u # t =>
            holds[u] = "none" /\ (u \notin Nesters => owed[u] = 0)

\* A thread sleeps only while what it wants is not to be had: no unlock and
\* no change of the status leaves a thread asleep that could go on.
NoSleeperForgotten ==
    \A t \in asleep :
        /\ pc[t] = "lockr" => status \notin {"none", "read"}
        /\ pc[t] = "lockw" => status \in {"write", "prewrite"}

\* While a thread waits in lockw, a write lock is had sooner or later, however
\* the readers come and go. (Which waiter gets it, nothing decides.)
WritersProgress ==
    \A t \in Writers : pc[t] = "lockw" ~> \E u \in Threads : holds[u] = "write"
=============================================================================
