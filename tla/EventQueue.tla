----------------------------- MODULE EventQueue -----------------------------
(***************************************************************************)
(* The class eventq (libgrace/eventq.cpp): a lock<value> holding the       *)
(* pending events and a conditional that is raised for each of them.       *)
(*                                                                         *)
(* A body between exclusivesection and its end is one action, since every  *)
(* access to ipc is inside one; what the code does outside the lock -- the *)
(* signal() after it in send, the wait() inside breaksection -- are steps  *)
(* of their own, and other threads run between them.                       *)
(***************************************************************************)
EXTENDS Conditional, Sequences, FiniteSets, Functions

CONSTANTS
    Senders,     \* threads that call send()
    Receivers,   \* threads that call waitevent() and nextevent()
    Events,      \* the events, each sent at most once
    QueueDebt    \* bound on how far below zero the conditional may run

ASSUME QueueThreadsAssumption == IsFiniteSet(Senders) /\ IsFiniteSet(Receivers)
ASSUME QueueDebtAssumption == QueueDebt \in Nat

VARIABLES
    ipc,         \* the pending events
    spc,         \* sender: "idle", or "raise" between the unlock and signal()
    rpc,         \* receiver: "idle", "check" before the section, "wait" in breaksection
    timed,       \* receivers whose waitevent has a timeout
    sent,        \* events sent so far
    got          \* every <<receiver, event>> handed out, in order

queueVars == <<cond, ipc, spc, rpc, timed, sent, got>>

QueueInit ==
    /\ CondInit
    /\ ipc = <<>>
    /\ spc = [s \in Senders |-> "idle"]
    /\ rpc = [r \in Receivers |-> "idle"]
    /\ timed = {}
    /\ sent = {}
    /\ got = <<>>

(***************************************************************************)
(* send                                                                    *)
(***************************************************************************)
Store(s, e, box) ==
    /\ spc[s] = "idle"
    /\ e \notin sent
    /\ ipc' = box
    /\ sent' = sent \union {e}
    /\ spc' = [spc EXCEPT ![s] = "raise"]
    /\ UNCHANGED <<cond, rpc, timed, got>>

sendNormal(s, e) == Store(s, e, Append(ipc, e))
sendUrgent(s, e) == Store(s, e, <<e>> \o ipc)

\* MUTANT of send: the event is stored and nobody told.
raiseForgotten(s) ==
    /\ spc[s] = "raise"
    /\ spc' = [spc EXCEPT ![s] = "idle"]
    /\ UNCHANGED <<cond, ipc, rpc, timed, sent, got>>

raise(s) ==
    /\ spc[s] = "raise"
    /\ CondSignal
    /\ spc' = [spc EXCEPT ![s] = "idle"]
    /\ UNCHANGED <<ipc, rpc, timed, sent, got>>

(***************************************************************************)
(* waitevent (), waitevent (timeout) and nextevent ()                      *)
(***************************************************************************)
waitevent(r, t) ==
    /\ rpc[r] = "idle"
    /\ rpc' = [rpc EXCEPT ![r] = "check"]
    /\ timed' = IF t THEN timed \union {r} ELSE timed \ {r}
    /\ UNCHANGED <<cond, ipc, spc, sent, got>>

\* MUTANTS of taking ipc[0]: rmindex forgotten, or the last one taken.
TakeAndKeep(r) ==
    ipc # <<>> /\ got' = Append(got, <<r, Head(ipc)>>) /\ UNCHANGED ipc
TakeLast(r) ==
    /\ ipc # <<>>
    /\ got' = Append(got, <<r, ipc[Len(ipc)]>>)
    /\ ipc' = SubSeq(ipc, 1, Len(ipc) - 1)

TakeFirst(r) ==
    /\ ipc # <<>>
    /\ got' = Append(got, <<r, Head(ipc)>>)
    /\ ipc' = Tail(ipc)

\* The loop's test under the lock, with an event there: the section's end.
takeEvent(r) ==
    /\ rpc[r] = "check"
    /\ TakeFirst(r)
    /\ rpc' = [rpc EXCEPT ![r] = "idle"]
    /\ UNCHANGED <<cond, spc, timed, sent>>

\* The test with none: breaksection gives the lock back.
breakSection(r) ==
    /\ rpc[r] = "check"
    /\ ipc = <<>>
    /\ rpc' = [rpc EXCEPT ![r] = "wait"]
    /\ UNCHANGED <<cond, ipc, spc, timed, sent, got>>

InWait(r) == rpc[r] = "wait" /\ r \notin sleeping \union woken

\* event.wait() found a counted signal, or ...
waitTake(r) ==
    /\ InWait(r) /\ queue > -QueueDebt /\ CondTake(r)
    /\ rpc' = [rpc EXCEPT ![r] = "check"]
    /\ UNCHANGED <<ipc, spc, timed, sent, got>>

\* ... goes to sleep ...
waitSleep(r) ==
    /\ InWait(r) /\ CondSleep(r)
    /\ UNCHANGED <<ipc, spc, rpc, timed, sent, got>>

\* ... and is woken: back to the loop's test.
waitWake(r) ==
    /\ CondWake(r)
    /\ rpc' = [rpc EXCEPT ![r] = "check"]
    /\ UNCHANGED <<ipc, spc, timed, sent, got>>

\* event.wait (timeout) returned false: an empty value, with no second look
\* at the queue.
waitTimeout(r) ==
    /\ r \in timed /\ CondTimeout(r)
    /\ rpc' = [rpc EXCEPT ![r] = "idle"]
    /\ UNCHANGED <<ipc, spc, timed, sent, got>>

waitSpurious(r) ==
    CondSpurious(r) /\ UNCHANGED <<ipc, spc, rpc, timed, sent, got>>

nextevent(r) ==
    /\ rpc[r] = "idle"
    /\ TakeFirst(r)
    /\ UNCHANGED <<cond, spc, rpc, timed, sent>>

Send(s) == \/ \E e \in Events : sendNormal(s, e) \/ sendUrgent(s, e)
           \/ raise(s)

\* What a receiver inside waitevent does by itself.
Step(r) == \/ takeEvent(r) \/ breakSection(r)
           \/ waitTake(r) \/ waitSleep(r) \/ waitWake(r)

Receive(r) == \/ \E t \in BOOLEAN : waitevent(r, t)
              \/ nextevent(r)
              \/ Step(r) \/ waitTimeout(r)

Startled == IF Spurious THEN Receivers ELSE {}

QueueNext ==
    \/ \E s \in Senders : Send(s)
    \/ \E r \in Receivers : Receive(r)
    \/ \E r \in Startled : waitSpurious(r)

QueueSpec == QueueInit /\ [][QueueNext]_queueVars

\* A thread inside a method is scheduled: it finishes what it can do alone.
\* Nothing obliges anybody to call send, waitevent or nextevent.
QueueFairness == /\ \A s \in Senders : WF_queueVars(raise(s))
                 /\ \A r \in Receivers : WF_queueVars(Step(r))

QueueFairSpec == QueueSpec /\ QueueFairness

-----------------------------------------------------------------------------
Raising == {s \in Senders : spc[s] = "raise"}
Checking == {r \in Receivers : rpc[r] = "check"}
Handed == {got[i][2] : i \in DOMAIN got}

QueueTypeOK ==
    /\ queue \in Int
    /\ ipc \in Seq(Events)
    /\ spc \in [Senders -> {"idle", "raise"}]
    /\ rpc \in [Receivers -> {"idle", "check", "wait"}]
    /\ timed \subseteq Receivers
    /\ sent \subseteq Events
    /\ got \in Seq(Receivers \X Events)
    /\ sleeping \intersect woken = {}
    /\ \A r \in sleeping \union woken : r \in Receivers /\ rpc[r] = "wait"

\* An event sent is pending or was handed out, and that once: however the
\* sections of senders, waiters and pollers interleave, none is lost and
\* none comes twice.
ExactlyOnce ==
    /\ sent = Range(ipc) \union Handed
    /\ Range(ipc) \intersect Handed = {}
    /\ \A i, j \in DOMAIN ipc : ipc[i] = ipc[j] => i = j
    /\ \A i, j \in DOMAIN got : got[i][2] = got[j][2] => i = j

\* "Will trigger if a new event is added": with one receiver, it is never
\* asleep beside an event unless the sender of one is still about to raise
\* the conditional. This is what the counter in conditional is for; the
\* section alone does not give it, since the signal is sent outside of it.
NoSleepOverEvents ==
    \A r \in sleeping : Len(ipc) <= Cardinality(Raising)

\* The bookkeeping behind it, with one receiver: the signals counted, those
\* to come and the one a receiver has just used cover every pending event.
SignalsCoverEvents ==
    Len(ipc) <= queue + Cardinality(Raising) + Cardinality(Checking)

\* The events a receiver gets come in the order and under the conditions
\* the mailbox states.
Box == INSTANCE Mailbox WITH box <- ipc, waiting <- {r \in Receivers : rpc[r] # "idle"}
BoxSpec == Box!Spec
BoxLiveSpec == Box!LiveSpec
=============================================================================
