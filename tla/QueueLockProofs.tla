-------------------------- MODULE QueueLockProofs --------------------------
(***************************************************************************)
(* The event queue, for all senders, receivers and events, and the two     *)
(* forms of lockbase, for any number of threads. Without native rwlocks    *)
(* lockbase is a readers/writer lock for users of lockr, lockw, trylockr   *)
(* and unlock; trylockw and the upgrade break it: see the runs. On native  *)
(* rwlocks it is one for all of its methods, where timed locks exist and   *)
(* no thread asks for a lock while it holds one, but a read lock again.    *)
(***************************************************************************)
EXTENDS EventQueue, FallbackLock, NativeLock, FiniteSetTheorems, SequenceTheorems, TLAPS

(***************************************************************************)
(* Putting an event at either end of a queue, and taking its first.        *)
(***************************************************************************)
LEMMA SingletonRange == \A e : Range(<<e>>) = {e}
<1> SUFFICES ASSUME NEW e PROVE Range(<<e>>) = {e}
  OBVIOUS
<1>1. <<e>> \in Seq({e}) /\ Len(<<e>>) = 1 /\ <<e>>[1] = e
  OBVIOUS
<1>2. Range(<<e>>) = {<<e>>[i] : i \in 1 .. 1}
  BY <1>1, RangeEquality
<1>3. 1 .. 1 = {1}
  OBVIOUS
<1> QED
  BY <1>1, <1>2, <1>3

LEMMA PutProperties ==
    ASSUME NEW q \in Seq(Events), NEW e \in Events,
           NEW p, p = Append(q, e) \/ p = <<e>> \o q
    PROVE  /\ p \in Seq(Events)
           /\ Len(p) = Len(q) + 1
           /\ Range(p) = Range(q) \union {e}
           /\ (\A i, j \in DOMAIN q : q[i] = q[j] => i = j) /\ e \notin Range(q)
                 => \A i, j \in DOMAIN p : p[i] = p[j] => i = j
<1>1. <<e>> \in Seq(Events) /\ Len(<<e>>) = 1 /\ <<e>>[1] = e
  OBVIOUS
<1>2. Len(q) \in Nat /\ DOMAIN q = 1 .. Len(q)
  BY LenProperties
<1>3. ASSUME NEW k \in 1 .. Len(q) PROVE q[k] \in Range(q)
  BY <1>2, <1>3 DEF Range
<1>4. CASE p = Append(q, e)
  <2>1. p = q \o <<e>>
    BY <1>4, AppendIsConcat
  <2>2. Range(p) = Range(q) \union {e}
    <3>1. Range(q \o <<e>>) = Range(q) \cup Range(<<e>>)
      BY ONLY <1>1, q \in Seq(Events), RangeConcatenation
    <3> QED
      BY <2>1, <3>1, SingletonRange
  <2>3. /\ p \in Seq(Events) /\ Len(p) = Len(q) + 1
        /\ \A i \in 1 .. Len(q) : p[i] = q[i]
        /\ p[Len(q) + 1] = e
    BY <1>4, AppendProperties
  <2>4. DOMAIN p = 1 .. Len(q) + 1
    BY <2>3, LenProperties
  <2>5. \A i \in DOMAIN p : i \in 1 .. Len(q) \/ i = Len(q) + 1
    BY <1>2, <2>4
  <2> QED
    BY <1>2, <1>3, <2>2, <2>3, <2>5
<1>5. CASE p = <<e>> \o q
  <2>1. Range(p) = Range(q) \union {e}
    <3>1. Range(<<e>> \o q) = Range(<<e>>) \cup Range(q)
      BY ONLY <1>1, q \in Seq(Events), RangeConcatenation
    <3> QED
      BY <1>5, <3>1, SingletonRange
  <2>2. p \in Seq(Events) /\ Len(p) = 1 + Len(q)
    BY <1>1, <1>5, ConcatProperties
  <2>3. \A i \in 1 .. 1 + Len(q) : p[i] = IF i <= 1 THEN <<e>>[i] ELSE q[i - 1]
    BY <1>1, <1>5, ConcatProperties
  <2>4. DOMAIN p = 1 .. 1 + Len(q)
    BY <2>2, LenProperties
  <2>5. \A i \in DOMAIN p : \/ i = 1 /\ p[i] = e
                            \/ i - 1 \in 1 .. Len(q) /\ p[i] = q[i - 1]
    BY <1>1, <1>2, <2>3, <2>4
  <2> QED
    BY <1>2, <1>3, <2>1, <2>2, <2>4, <2>5
<1> QED
  BY <1>4, <1>5

LEMMA TakeProperties ==
    ASSUME NEW q \in Seq(Events), q # <<>>
    PROVE  /\ Head(q) \in Events /\ Tail(q) \in Seq(Events)
           /\ Len(Tail(q)) = Len(q) - 1
           /\ Range(q) = {Head(q)} \union Range(Tail(q))
           /\ (\A i, j \in DOMAIN q : q[i] = q[j] => i = j)
                 => /\ Head(q) \notin Range(Tail(q))
                    /\ \A i, j \in DOMAIN Tail(q) : Tail(q)[i] = Tail(q)[j] => i = j
<1>1. /\ Head(q) \in Events /\ Tail(q) \in Seq(Events)
      /\ Len(Tail(q)) = Len(q) - 1
      /\ \A i \in 1 .. Len(q) - 1 : Tail(q)[i] = q[i + 1]
  BY HeadTailProperties
<1>2. /\ Len(q) \in Nat \ {0} /\ DOMAIN q = 1 .. Len(q)
      /\ DOMAIN Tail(q) = 1 .. Len(q) - 1 /\ Head(q) = q[1]
  BY <1>1, LenProperties, EmptySeq
<1>3. Range(q) = {Head(q)} \union Range(Tail(q))
  <2>1. <<Head(q)>> \in Seq(Events) /\ Len(<<Head(q)>>) = 1 /\ <<Head(q)>>[1] = Head(q)
    BY <1>1
  <2>2. <<Head(q)>> \o Tail(q) = q
    <3>1. /\ <<Head(q)>> \o Tail(q) \in Seq(Events)
          /\ Len(<<Head(q)>> \o Tail(q)) = Len(q)
          /\ \A i \in 1 .. Len(q) : (<<Head(q)>> \o Tail(q))[i]
                = IF i <= 1 THEN <<Head(q)>>[i] ELSE Tail(q)[i - 1]
      BY <1>1, <1>2, <2>1, ConcatProperties
    <3>2. \A i \in 1 .. Len(q) : (<<Head(q)>> \o Tail(q))[i] = q[i]
      BY <1>1, <1>2, <2>1, <3>1
    <3> QED
      BY <3>1, <3>2, SeqEqual
  <2>3. Range(<<Head(q)>> \o Tail(q)) = Range(<<Head(q)>>) \cup Range(Tail(q))
    BY ONLY <1>1, <2>1, RangeConcatenation
  <2> QED
    BY <2>2, <2>3, SingletonRange
<1>4. ASSUME \A i, j \in DOMAIN q : q[i] = q[j] => i = j
      PROVE  /\ Head(q) \notin Range(Tail(q))
             /\ \A i, j \in DOMAIN Tail(q) : Tail(q)[i] = Tail(q)[j] => i = j
  <2>1. \A i \in 1 .. Len(q) - 1 : i + 1 \in 1 .. Len(q) /\ i + 1 # 1 /\ 1 \in 1 .. Len(q)
    BY <1>2
  <2>2. \A i \in 1 .. Len(q) - 1 : Tail(q)[i] # q[1]
    BY <1>1, <1>2, <1>4, <2>1
  <2>3. \A i, j \in 1 .. Len(q) - 1 : Tail(q)[i] = Tail(q)[j] => i + 1 = j + 1
    BY <1>1, <1>2, <1>4, <2>1
  <2>4. Head(q) \notin Range(Tail(q))
    BY <1>2, <2>2 DEF Range
  <2> QED
    BY <1>2, <2>3, <2>4
<1> QED
  BY <1>1, <1>3, <1>4

(***************************************************************************)
(* Type correctness: a thread in wait() has given the lock back.           *)
(***************************************************************************)
LEMMA QueueTypeInit == QueueInit => QueueTypeOK
BY EmptySeq DEF QueueInit, CondInit, QueueTypeOK

LEMMA QueueTypeStep ==
    ASSUME QueueTypeOK, [QueueNext]_queueVars
    PROVE  QueueTypeOK'
<1> USE DEF QueueTypeOK
<1>1. ASSUME NEW s \in Senders, NEW e \in Events,
             sendNormal(s, e) \/ sendUrgent(s, e)
      PROVE  QueueTypeOK'
  <2>1. ipc' \in Seq(Events)
    BY <1>1, PutProperties DEF sendNormal, sendUrgent, Store
  <2> QED
    BY <1>1, <2>1 DEF sendNormal, sendUrgent, Store, cond
<1>2. ASSUME NEW s \in Senders, raise(s) PROVE QueueTypeOK'
  BY <1>2 DEF raise, CondSignal
<1>3. ASSUME NEW r \in Receivers, NEW t \in BOOLEAN, waitevent(r, t) PROVE QueueTypeOK'
  BY <1>3 DEF waitevent, cond
<1>4. ASSUME NEW r \in Receivers, takeEvent(r) \/ nextevent(r) PROVE QueueTypeOK'
  <2>1. TakeFirst(r)
    BY <1>4 DEF takeEvent, nextevent
  <2>2. ipc' \in Seq(Events) /\ got' \in Seq(Receivers \X Events)
    BY <2>1, TakeProperties, AppendProperties DEF TakeFirst
  <2> QED
    BY <1>4, <2>2 DEF takeEvent, nextevent, cond
<1>5. ASSUME NEW r \in Receivers,
             breakSection(r) \/ waitTake(r) \/ waitSleep(r) \/ waitWake(r)
               \/ waitTimeout(r) \/ waitSpurious(r)
      PROVE  QueueTypeOK'
  BY <1>5 DEF breakSection, waitTake, waitSleep, waitWake, waitTimeout,
              waitSpurious, InWait, cond, CondTake, CondSleep, CondWake,
              CondTimeout, CondSpurious
<1>6. CASE UNCHANGED queueVars
  BY <1>6 DEF queueVars, cond
<1> QED
  BY <1>1, <1>2, <1>3, <1>4, <1>5, <1>6 DEF QueueNext, Startled, Send, Receive, Step

\* The event queue keeps its types.
THEOREM QueueTypeCorrect == QueueSpec => []QueueTypeOK
<1>1. QueueTypeOK /\ [QueueNext]_queueVars => QueueTypeOK'
  BY QueueTypeStep
<1> QED
  BY <1>1, QueueTypeInit, PTL DEF QueueSpec

(***************************************************************************)
(* No event is lost and none is handed out twice, for any number of        *)
(* senders and receivers and whatever the conditional does.                *)
(***************************************************************************)
THEOREM NoLossNoDuplicate == QueueSpec => []ExactlyOnce
<1>1. QueueInit => ExactlyOnce
  BY EmptySeq DEF QueueInit, ExactlyOnce, Range, Handed
<1>2. QueueTypeOK /\ ExactlyOnce /\ [QueueNext]_queueVars => ExactlyOnce'
  <2> SUFFICES ASSUME QueueTypeOK, ExactlyOnce, [QueueNext]_queueVars PROVE ExactlyOnce'
    OBVIOUS
  <2> USE DEF ExactlyOnce
  <2>1. ASSUME NEW s \in Senders, NEW e \in Events,
               sendNormal(s, e) \/ sendUrgent(s, e)
        PROVE  ExactlyOnce'
    <3>1. /\ ipc' = Append(ipc, e) \/ ipc' = <<e>> \o ipc
          /\ e \notin sent /\ sent' = sent \union {e}
          /\ got' = got
      BY <2>1 DEF sendNormal, sendUrgent, Store
    <3>2. /\ Range(ipc') = Range(ipc) \union {e}
          /\ \A i, j \in DOMAIN ipc' : ipc'[i] = ipc'[j] => i = j
      BY <3>1, PutProperties DEF QueueTypeOK
    <3> QED
      BY <3>1, <3>2 DEF Handed
  <2>2. ASSUME NEW r \in Receivers, takeEvent(r) \/ nextevent(r) PROVE ExactlyOnce'
    <3>1. /\ ipc # <<>> /\ ipc' = Tail(ipc) /\ sent' = sent
          /\ got' = Append(got, <<r, Head(ipc)>>)
      BY <2>2 DEF takeEvent, nextevent, TakeFirst
    <3>2. /\ Head(ipc) \notin Range(ipc')
          /\ Range(ipc) = {Head(ipc)} \union Range(ipc')
          /\ \A i, j \in DOMAIN ipc' : ipc'[i] = ipc'[j] => i = j
          /\ Head(ipc) \in Events
      BY <3>1, TakeProperties DEF QueueTypeOK
    <3>3. /\ Len(got) \in Nat
          /\ DOMAIN got = 1 .. Len(got) /\ DOMAIN got' = 1 .. Len(got) + 1
          /\ \A i \in 1 .. Len(got) : got'[i] = got[i]
          /\ got'[Len(got) + 1] = <<r, Head(ipc)>>
      BY <3>1, <3>2, AppendProperties, LenProperties DEF QueueTypeOK
    <3>4. Handed' = Handed \union {Head(ipc)}
      BY <3>3 DEF Handed
    <3>5. \A i \in DOMAIN got : got[i][2] # Head(ipc)
      BY <3>2 DEF Handed
    <3>6. \A i, j \in DOMAIN got' : got'[i][2] = got'[j][2] => i = j
      BY <3>3, <3>5
    <3> QED
      BY <3>1, <3>2, <3>4, <3>6
  <2>3. CASE UNCHANGED <<ipc, sent, got>>
    BY <2>3 DEF Handed
  <2> QED
    BY <2>1, <2>2, <2>3
       DEF QueueNext, Startled, Send, Receive, Step, raise, waitevent, breakSection, waitTake,
           waitSleep, waitWake, waitTimeout, waitSpurious, queueVars
<1> QED
  BY <1>1, <1>2, QueueTypeCorrect, PTL DEF QueueSpec

(***************************************************************************)
(* The queue implements the mailbox: a send posts or jumps the queue, the  *)
(* two ways to take an event hand out the first, and all the rest leaves   *)
(* the mailbox alone.                                                      *)
(***************************************************************************)
THEOREM ImplementsMailbox == QueueSpec => BoxSpec
<1>1. QueueInit => Box!Init
  BY DEF QueueInit, Box!Init
<1>2. QueueTypeOK /\ [QueueNext]_queueVars => [Box!Next]_(Box!mvars)
  <2> SUFFICES ASSUME QueueTypeOK, [QueueNext]_queueVars
               PROVE  Box!Next \/ UNCHANGED Box!mvars
    OBVIOUS
  <2> DEFINE W == {r \in Receivers : rpc[r] # "idle"}
  <2> USE DEF QueueTypeOK
  <2>1. ASSUME NEW s \in Senders, NEW e \in Events, sendNormal(s, e)
        PROVE  Box!Next
    BY <2>1 DEF sendNormal, Store, Box!Next, Box!Post
  <2>2. ASSUME NEW s \in Senders, NEW e \in Events, sendUrgent(s, e)
        PROVE  Box!Next
    BY <2>2 DEF sendUrgent, Store, Box!Next, Box!Jump
  <2>3. ASSUME NEW r \in Receivers, NEW t \in BOOLEAN, waitevent(r, t) PROVE Box!Next
    <3>1. r \notin W /\ W' = W \union {r} /\ UNCHANGED <<ipc, got>>
      BY <2>3 DEF waitevent
    <3>2. Box!Ask(r)
      BY <3>1 DEF Box!Ask
    <3> QED
      BY <3>2 DEF Box!Next
  <2>4. ASSUME NEW r \in Receivers, takeEvent(r) PROVE Box!Next
    <3>1. r \in W /\ W' = W \ {r} /\ TakeFirst(r)
      BY <2>4 DEF takeEvent
    <3>2. Box!Deliver(r)
      BY <3>1 DEF Box!Deliver, Box!HandOut, TakeFirst
    <3> QED
      BY <3>2 DEF Box!Next
  <2>5. ASSUME NEW r \in Receivers, nextevent(r) PROVE Box!Next
    <3>1. r \notin W /\ W' = W /\ TakeFirst(r)
      BY <2>5 DEF nextevent
    <3>2. Box!Poll(r)
      BY <3>1 DEF Box!Poll, Box!HandOut, TakeFirst
    <3> QED
      BY <3>2 DEF Box!Next
  <2>6. ASSUME NEW r \in Receivers, waitTimeout(r) PROVE Box!Next
    <3>1. r \in W /\ W' = W \ {r} /\ UNCHANGED <<ipc, got>>
      BY <2>6 DEF waitTimeout, CondTimeout
    <3>2. Box!GiveUp(r)
      BY <3>1 DEF Box!GiveUp
    <3> QED
      BY <3>2 DEF Box!Next
  <2>7. ASSUME NEW r \in Receivers,
               breakSection(r) \/ waitTake(r) \/ waitSleep(r) \/ waitWake(r)
                 \/ waitSpurious(r)
        PROVE  UNCHANGED Box!mvars
    <3>1. W' = W /\ UNCHANGED <<ipc, got>>
      BY <2>7 DEF breakSection, waitTake, waitSleep, waitWake, waitSpurious,
                  InWait, CondWake
    <3> QED
      BY <3>1 DEF Box!mvars
  <2>8. ASSUME NEW s \in Senders, raise(s) PROVE UNCHANGED Box!mvars
    BY <2>8 DEF raise, Box!mvars
  <2>9. CASE UNCHANGED queueVars
    BY <2>9 DEF queueVars, Box!mvars
  <2> QED
    BY <2>1, <2>2, <2>3, <2>4, <2>5, <2>6, <2>7, <2>8, <2>9
       DEF QueueNext, Startled, Send, Receive, Step
<1> QED
  BY <1>1, <1>2, QueueTypeCorrect, PTL DEF QueueSpec, BoxSpec, Box!Spec

(***************************************************************************)
(* One receiver, no spurious wakeups. The inductive invariant says what    *)
(* the counter is worth: it covers the woken receiver, it is spent when    *)
(* the receiver falls asleep, and with the raises to come it covers every  *)
(* pending event.                                                          *)
(***************************************************************************)
Accounted ==
    /\ queue >= Cardinality(woken)
    /\ sleeping # {} => queue = 0
    /\ SignalsCoverEvents

LEMMA RaisingSize ==
    ASSUME QueueTypeOK
    PROVE  /\ Cardinality(Raising) \in Nat
           /\ \A s \in Senders \ Raising :
                 Cardinality(Raising \union {s}) = Cardinality(Raising) + 1
           /\ \A s \in Raising : Cardinality(Raising \ {s}) = Cardinality(Raising) - 1
<1>1. IsFiniteSet(Raising)
  BY QueueThreadsAssumption, FS_Subset DEF Raising
<1> QED
  BY <1>1, FS_CardinalityType, FS_AddElement, FS_RemoveElement

LEMMA AccountedAlways ==
    ASSUME NEW w, Receivers = {w}, Spurious = FALSE
    PROVE  QueueSpec => [](QueueTypeOK /\ Accounted)
<1>1. QueueInit => Accounted
  <2> SUFFICES ASSUME QueueInit PROVE Accounted
    OBVIOUS
  <2>1. Raising = {} /\ Checking = {}
    BY DEF QueueInit, Raising, Checking
  <2> QED
    BY <2>1, FS_EmptySet DEF QueueInit, CondInit, Accounted, SignalsCoverEvents
<1>2. QueueTypeOK /\ QueueTypeOK' /\ Accounted /\ [QueueNext]_queueVars => Accounted'
  <2> SUFFICES ASSUME QueueTypeOK, QueueTypeOK', Accounted, [QueueNext]_queueVars PROVE Accounted'
    OBVIOUS
  <2> USE DEF QueueTypeOK, Accounted, SignalsCoverEvents
  <2>1. Cardinality({}) = 0 /\ Cardinality({w}) = 1
    BY FS_EmptySet, FS_Singleton
  <2>2. /\ \/ woken = {} /\ Cardinality(woken) = 0
           \/ /\ woken = {w} /\ Cardinality(woken) = 1
              /\ sleeping = {} /\ rpc[w] = "wait"
        /\ Checking = IF rpc[w] = "check" THEN {w} ELSE {}
        /\ Checking' = IF rpc'[w] = "check" THEN {w} ELSE {}
    <3>1. woken = {} \/ (woken = {w} /\ sleeping = {} /\ rpc[w] = "wait")
      OBVIOUS
    <3>2. woken = {} => Cardinality(woken) = 0
      BY ONLY <2>1
    <3>3. woken = {w} => Cardinality(woken) = 1
      BY ONLY <2>1
    <3> QED
      BY <3>1, <3>2, <3>3 DEF Checking
  <2>3. /\ Cardinality(Raising) \in Nat /\ Cardinality(Raising') \in Nat
        /\ Len(ipc) \in Nat /\ Len(ipc') \in Nat
    <3>1. Cardinality(Raising') \in Nat
      BY QueueThreadsAssumption, FS_Subset, FS_CardinalityType DEF Raising
    <3> QED
      BY <3>1, RaisingSize, LenProperties
  <2>4. ASSUME NEW s \in Senders, NEW e \in Events,
               sendNormal(s, e) \/ sendUrgent(s, e)
        PROVE  Accounted'
    <3>1. Raising' = Raising \union {s} /\ s \notin Raising
      BY <2>4 DEF sendNormal, sendUrgent, Store, Raising
    <3>2. Cardinality(Raising') = Cardinality(Raising) + 1
      BY <3>1, RaisingSize
    <3>3. Len(ipc') = Len(ipc) + 1
      BY <2>4, PutProperties DEF sendNormal, sendUrgent, Store
    <3>4. UNCHANGED <<queue, sleeping, woken, rpc>>
      BY <2>4 DEF sendNormal, sendUrgent, Store, cond
    <3> QED
      BY <2>1, <2>2, <2>3, <3>2, <3>3, <3>4
  <2>5. ASSUME NEW s \in Senders, raise(s) PROVE Accounted'
    <3>1. Raising' = Raising \ {s} /\ s \in Raising
      BY <2>5 DEF raise, Raising
    <3>2. Cardinality(Raising') = Cardinality(Raising) - 1
      BY <3>1, RaisingSize
    <3>3. UNCHANGED <<ipc, rpc>> /\ queue' = queue + 1
      BY <2>5 DEF raise, CondSignal
    <3>4. CASE sleeping = {}
      <4>1. UNCHANGED <<sleeping, woken>>
        BY <2>5, <3>4 DEF raise, CondSignal
      <4> QED
        BY <2>1, <2>2, <2>3, <3>2, <3>3, <3>4, <4>1
    <3>5. CASE sleeping # {}
      <4>1. sleeping = {w} /\ woken = {} /\ sleeping' = {} /\ woken' = {w}
        BY <2>2, <2>5, <3>5 DEF raise, CondSignal
      <4> QED
        BY <2>1, <2>2, <2>3, <3>2, <3>3, <4>1
    <3> QED
      BY <3>4, <3>5
  <2>6. ASSUME NEW r \in Receivers, NEW t \in BOOLEAN, waitevent(r, t) PROVE Accounted'
    <3>1. UNCHANGED <<ipc, queue, sleeping, woken, spc>> /\ rpc'[w] = "check" /\ rpc[w] = "idle"
      BY <2>6 DEF waitevent, cond
    <3> QED
      BY <2>1, <2>2, <2>3, <3>1 DEF Raising
  <2>7. ASSUME NEW r \in Receivers, takeEvent(r) \/ nextevent(r) PROVE Accounted'
    <3>1. Len(ipc') = Len(ipc) - 1
      BY <2>7, TakeProperties DEF takeEvent, nextevent, TakeFirst
    <3>2. UNCHANGED <<queue, sleeping, woken, spc>>
      BY <2>7 DEF takeEvent, nextevent, cond
    <3>3. rpc' = rpc \/ (rpc[w] = "check" /\ rpc'[w] = "idle")
      BY <2>7 DEF takeEvent, nextevent
    <3> QED
      BY <2>1, <2>2, <2>3, <3>1, <3>2, <3>3 DEF Raising
  <2>8. ASSUME NEW r \in Receivers, breakSection(r) PROVE Accounted'
    <3>1. ipc = <<>> /\ UNCHANGED <<ipc, queue, sleeping, woken, spc>> /\ rpc'[w] = "wait"
      BY <2>8 DEF breakSection, cond
    <3>2. Len(ipc) = 0
      <4>1. Len(<<>>) = 0
        BY EmptySeq
      <4> QED
        BY <3>1, <4>1
    <3>3. Cardinality(woken) \in Nat
      BY <2>1, <2>2
    <3> QED
      BY <2>1, <2>2, <2>3, <3>1, <3>2, <3>3 DEF Raising
  <2>9. ASSUME NEW r \in Receivers, waitTake(r) PROVE Accounted'
    <3>1. /\ queue # 0 /\ queue' = queue - 1 /\ woken = {} /\ rpc[w] = "wait"
          /\ rpc'[w] = "check" /\ UNCHANGED <<ipc, sleeping, woken, spc>>
      BY <2>2, <2>9 DEF waitTake, InWait, CondTake
    <3> QED
      BY <2>1, <2>2, <2>3, <3>1 DEF Raising
  <2>10. ASSUME NEW r \in Receivers, waitSleep(r) PROVE Accounted'
    BY <2>1, <2>2, <2>3, <2>10 DEF waitSleep, InWait, CondSleep, Raising
  <2>11. ASSUME NEW r \in Receivers, waitWake(r) PROVE Accounted'
    <3>1. /\ woken = {w} /\ woken' = {} /\ queue' = queue - 1 /\ rpc[w] = "wait"
          /\ rpc'[w] = "check" /\ UNCHANGED <<ipc, sleeping, spc>>
      BY <2>2, <2>11 DEF waitWake, CondWake
    <3> QED
      BY <2>1, <2>2, <2>3, <3>1 DEF Raising
  <2>12. ASSUME NEW r \in Receivers, waitTimeout(r) PROVE Accounted'
    <3>1. /\ rpc[w] = "wait" /\ rpc'[w] = "idle" /\ sleeping' = {}
          /\ UNCHANGED <<ipc, queue, woken, spc>>
      BY <2>12 DEF waitTimeout, CondTimeout
    <3> QED
      BY <2>1, <2>2, <2>3, <3>1 DEF Raising
  <2>13. ASSUME NEW r \in Receivers, waitSpurious(r) PROVE FALSE
    BY <2>13 DEF waitSpurious, CondSpurious
  <2>14. CASE UNCHANGED queueVars
    BY <2>1, <2>2, <2>3, <2>14 DEF queueVars, cond, Raising, Checking
  <2> QED
    BY <2>4, <2>5, <2>6, <2>7, <2>8, <2>9, <2>10, <2>11, <2>12, <2>13, <2>14
       DEF QueueNext, Startled, Send, Receive, Step
<1> QED
  BY <1>1, <1>2, QueueTypeCorrect, PTL DEF QueueSpec

(***************************************************************************)
(* A single receiver is never asleep beside an event nobody is about to    *)
(* announce: the wakeup between its test of the queue and its sleep is not *)
(* lost, although the two are not under one lock.                          *)
(***************************************************************************)
THEOREM NoLostWakeup ==
    ASSUME NEW w, Receivers = {w}, Spurious = FALSE
    PROVE  QueueSpec => [](NoSleepOverEvents /\ SignalsCoverEvents)
<1>1. QueueTypeOK /\ Accounted => NoSleepOverEvents /\ SignalsCoverEvents
  <2> SUFFICES ASSUME QueueTypeOK, Accounted, NEW r \in sleeping
               PROVE  Len(ipc) <= Cardinality(Raising)
    BY DEF Accounted, NoSleepOverEvents
  <2>1. r = w /\ rpc[w] = "wait" /\ queue = 0
    BY DEF QueueTypeOK, Accounted
  <2>2. Checking = {}
    BY <2>1 DEF Checking
  <2>3. Len(ipc) \in Nat /\ Cardinality(Raising) \in Nat
    BY RaisingSize, LenProperties DEF QueueTypeOK
  <2> QED
    BY <2>1, <2>2, <2>3, FS_EmptySet DEF Accounted, SignalsCoverEvents
<1> QED
  BY <1>1, AccountedAlways, PTL

(***************************************************************************)
(* Without native rwlocks                                                  *)
(***************************************************************************)
\* Who was let in or waits stands in the list, and the last writer let in while
\* the status is write is still there: an unlock of its own would name no writer.
Placed ==
    /\ \A t \in Threads : holds[t] # "none" \/ pc[t] # "out" => t \in locks
    /\ status = "write" => writer \in Threads /\ holds[writer] = "write"

TypedLock == LockTypeOK /\ Placed

\* Whatever the methods: the lock keeps its types with upgrades and trylockw,
\* and with locks inside of locks.
LEMMA LockTypeStep ==
    ASSUME TypedLock, [LockNext]_lockVars
    PROVE  TypedLock'
<1> USE DEF TypedLock, LockTypeOK, Placed, Waiting
<1>0. ASSUME NEW t \in Threads, NEW mode \in {"none", "read", "write"}, Owes(t, mode)
      PROVE  /\ holds' \in [Threads -> {"none", "read", "write"}] /\ owed' \in [Threads -> Nat]
             /\ holds'[t] = mode /\ \A u \in Threads : u # t => holds'[u] = holds[u]
  BY <1>0 DEF Owes
<1>1. ASSUME NEW t \in Threads, t \notin asleep, holds[t] = "none", ReadTurn(t), locks' = locks \union {t}
      PROVE  TypedLock'
  <2>1. CASE MayRead
    <3>1. /\ status' = "read" /\ numlocks' = numlocks + 1 /\ pc' = [pc EXCEPT ![t] = "out"]
          /\ Owes(t, "read") /\ UNCHANGED <<writer, upgraded, asleep>>
      BY <1>1, <2>1 DEF ReadTurn, LetIn
    <3> QED
      BY <1>0, <1>1, <3>1
  <2>2. CASE ~ MayRead
    BY <1>1, <2>2 DEF ReadTurn
  <2> QED
    BY <2>1, <2>2
<1>2. ASSUME NEW t \in Threads, NEW upgrading \in BOOLEAN, t \notin asleep, WriteTurn(t, upgrading),
             ~ upgrading => holds[t] = "none", locks' = locks \union {t}
      PROVE  TypedLock'
  <2>1. CASE MayWrite(upgrading)
    <3>1. /\ status' = "write" /\ numlocks' \in Int /\ pc' = [pc EXCEPT ![t] = "out"]
          /\ writer' = t /\ upgraded' = upgrading /\ asleep' = asleep
          /\ Owes(t, "write")
      BY <1>2, <2>1 DEF WriteTurn, LetIn
    <3> QED
      BY <1>0, <1>2, <3>1
  <2>2. CASE ~ MayWrite(upgrading)
    BY <1>2, <2>2 DEF WriteTurn
  <2> QED
    BY <2>1, <2>2
<1>3. ASSUME NEW t \in Threads, pc[t] = "out", NEW mode \in {"none", "read", "write"}, PassedBy(t, mode),
             mode = holds[t] \/ mode = "write"
      PROVE  TypedLock'
  <2>1. /\ pc' = pc /\ Owes(t, mode) /\ t \in locks
        /\ UNCHANGED <<status, numlocks, writer, upgraded, locks, asleep>>
    BY <1>3 DEF PassedBy, LetIn
  <2> QED
    BY <1>0, <1>3, <2>1
<1>4. ASSUME NEW t \in Threads, pc[t] = "out", t \in locks, LockwInList(t)
      PROVE  TypedLock'
  <2>1. CASE PassedBy(t, "write")
    BY <1>3, <1>4, <2>1
  <2>2. CASE WriteTurn(t, TRUE) /\ UNCHANGED locks
    BY <1>2, <1>4, <2>2
  <2> QED
    BY <1>4, <2>1, <2>2 DEF LockwInList
<1>5. ASSUME NEW t \in Threads, lockr(t) \/ trylockr(t) PROVE TypedLock'
  <2>1. CASE t \notin locks /\ locks' = locks \union {t} /\ ReadTurn(t)
    BY <1>1, <1>5, <2>1 DEF lockr, trylockr, Calls
  <2>2. CASE PassedBy(t, holds[t])
    BY <1>3, <1>5, <2>2 DEF lockr, trylockr, Calls
  <2> QED
    BY <1>5, <2>1, <2>2 DEF lockr, trylockr
<1>6. ASSUME NEW t \in Threads, lockw(t) PROVE TypedLock'
  <2>1. CASE t \notin locks /\ locks' = locks \union {t} /\ WriteTurn(t, FALSE)
    BY <1>2, <1>6, <2>1 DEF lockw, Calls
  <2>2. CASE holds[t] = "write" /\ LockwInList(t)
    BY <1>4, <1>6, <2>2 DEF lockw, Calls
  <2> QED
    BY <1>6, <2>1, <2>2 DEF lockw
<1>7. ASSUME NEW t \in Threads, Again(t) PROVE TypedLock'
  <2>1. CASE lockrAgain(t)
    BY <1>1, <2>1 DEF lockrAgain
  <2>2. CASE lockwAgain(t)
    BY <1>2, <2>2 DEF lockwAgain
  <2> QED
    BY <1>7, <2>1, <2>2 DEF Again
<1>8. ASSUME NEW t \in Threads, trylockw(t) PROVE TypedLock'
  <2>1. CASE PassedBy(t, "write")
    BY <1>3, <1>8, <2>1 DEF trylockw, Calls
  <2>2. CASE ~ PassedBy(t, "write")
    <3>0. /\ pc[t] = "out" /\ locks' = locks \union {t} /\ status' = "write" /\ writer' = t
          /\ upgraded' = (t \in locks) /\ LetIn(t, "write")
          /\ UNCHANGED <<numlocks, asleep>>
      BY ONLY <1>8, <2>2 DEF trylockw, Calls
    <3>1. upgraded' \in BOOLEAN /\ pc' = pc /\ Owes(t, "write")
      BY <3>0 DEF LetIn
    <3> QED
      BY <1>0, <3>0, <3>1
  <2> QED
    BY <2>1, <2>2
<1>9. ASSUME NEW t \in Threads, upgrade(t) PROVE TypedLock'
  BY <1>4, <1>9 DEF upgrade
<1>10. ASSUME NEW t \in Threads, unlock(t) PROVE TypedLock'
  <2>1. /\ holds' = [holds EXCEPT ![t] = IF Downgrades(t) THEN "read" ELSE "none"]
        /\ owed' = [owed EXCEPT ![t] = @ - 1] /\ owed[t] > 0
        /\ pc[t] = "out" /\ pc' = pc /\ asleep' = {}
    BY <1>10 DEF unlock, WakeAll
  <2>2. /\ holds' \in [Threads -> {"none", "read", "write"}] /\ owed' \in [Threads -> Nat]
        /\ holds'[t] \in {"none", "read"} /\ (~ Downgrades(t) => holds'[t] = "none")
        /\ \A u \in Threads : u # t => holds'[u] = holds[u]
    BY <2>1
  <2>3. Downgrades(t) => t \in locks
    BY DEF Downgrades
  <2>4. CASE t \notin locks /\ UNCHANGED <<status, numlocks, writer, upgraded, locks>>
    BY <2>1, <2>2, <2>3, <2>4
  <2>5. CASE /\ locks' = (IF Downgrades(t) THEN locks ELSE locks \ {t})
             /\ numlocks' = numlocks - 1
             /\ EndRead \/ EndWrite
    <3>1. locks' \subseteq Threads /\ numlocks' \in Int
      BY <2>5
    <3>2. \A u \in Threads : holds'[u] # "none" \/ pc'[u] # "out" => u \in locks'
      BY <2>1, <2>2, <2>3, <2>5
    <3>3. /\ status' \in {"none", "read", "prewrite", "readywrite"}
          /\ writer' \in Threads \union {NoThread} /\ upgraded' \in BOOLEAN
      <4>1. CASE EndRead
        BY <4>1 DEF EndRead, AfterReader
      <4>2. CASE EndWrite
        BY <4>2 DEF EndWrite
      <4> QED
        BY <2>5, <4>1, <4>2
    <3> QED
      BY <2>1, <2>2, <3>1, <3>2, <3>3
  <2> QED
    BY <1>10, <2>3, <2>4, <2>5 DEF unlock
<1>11. CASE UNCHANGED lockVars
  BY <1>11 DEF lockVars
<1> QED
  BY <1>5, <1>6, <1>7, <1>8, <1>9, <1>10, <1>11, ThreadsAssumption DEF LockNext

LEMMA LockInitTyped == LockInit => TypedLock
BY ThreadsAssumption DEF LockInit, TypedLock, LockTypeOK, Placed

\* The fallback lock keeps its types: with upgrades, with trylockw and with
\* locks that a thread takes inside of its own.
THEOREM LockTypeCorrect == LockSpec => []LockTypeOK
<1>1. LockSpec => []TypedLock
  BY LockInitTyped, LockTypeStep, PTL DEF LockSpec
<1>2. TypedLock => LockTypeOK
  BY DEF TypedLock
<1> QED
  BY <1>1, <1>2, PTL

\* In the list are the threads inside a section and those that wait for one,
\* nobody else and nobody twice over. A thread that does not nest owes an unlock
\* while it is inside, and only then.
Owned ==
    \A t \in Threads :
        /\ t \in locks <=> holds[t] # "none" \/ pc[t] # "out"
        /\ holds[t] # "none" => pc[t] = "out" /\ owed[t] > 0
        /\ t \notin Nesters => owed[t] = IF holds[t] = "none" THEN 0 ELSE 1

\* numlocks is what unlock takes it for, the number of threads inside: locks
\* inside of locks are counted nowhere.
Counted == numlocks = Cardinality(Holders)

\* The status says who is inside.
StatusFits ==
    /\ status \in {"none", "readywrite"} => Holders = {}
    /\ status \in {"read", "prewrite"} =>
         Holders # {} /\ \A t \in Holders : holds[t] = "read"
    /\ status = "write" =>
         ~ upgraded /\ \E t \in Threads : Holders = {t} /\ holds[t] = "write" /\ writer = t

LockInv ==
    /\ LockTypeOK
    /\ \A t \in Threads : pc[t] # "upgrade"
    /\ Owned
    /\ Counted
    /\ StatusFits
    /\ NoSleeperForgotten

LEMMA HolderCount ==
    ASSUME NEW S \in SUBSET Threads
    PROVE  /\ Cardinality(S) \in Nat
           /\ Cardinality(S) = 0 <=> S = {}
           /\ \A t \in Threads \ S : Cardinality(S \union {t}) = Cardinality(S) + 1
           /\ \A t \in S : Cardinality(S \ {t}) = Cardinality(S) - 1
<1>1. IsFiniteSet(S)
  BY ThreadsAssumption, FS_Subset
<1> QED
  BY <1>1, FS_CardinalityType, FS_EmptySet, FS_AddElement, FS_RemoveElement

\* LetIn adds the thread to the holders, its first unlock takes it away.
LEMMA HoldersGrow ==
    ASSUME LockTypeOK, NEW t \in Threads, holds[t] = "none",
           NEW mode \in {"read", "write"}, LetIn(t, mode)
    PROVE  /\ Holders' = Holders \union {t}
           /\ t \notin Holders
           /\ Cardinality(Holders') = Cardinality(Holders) + 1
<1>1. Holders' = Holders \union {t} /\ t \notin Holders /\ Holders \in SUBSET Threads
  BY DEF LockTypeOK, LetIn, Owes, Holders
<1> QED
  BY <1>1, HolderCount

LEMMA HoldersShrink ==
    ASSUME LockTypeOK, NEW t \in Threads, holds[t] # "none",
           holds' = [holds EXCEPT ![t] = "none"]
    PROVE  /\ Holders' = Holders \ {t}
           /\ t \in Holders
           /\ Cardinality(Holders') = Cardinality(Holders) - 1
<1>1. Holders' = Holders \ {t} /\ t \in Holders /\ Holders \in SUBSET Threads
  BY DEF LockTypeOK, Holders
<1> QED
  BY <1>1, HolderCount

\* Where a thread that has no lock may ask for one.
Asks(t) == holds[t] = "none" /\ (t \in Nesters \/ owed[t] = 0)

(***************************************************************************)
(* A turn of lockr by a thread that holds nothing and stands in the list.  *)
(***************************************************************************)
LEMMA ReadTurnKeeps ==
    ASSUME LockInv, NEW t \in Threads, Asks(t),
           locks' = locks \union {t}, ReadTurn(t)
    PROVE  LockInv'
<1> USE DEF LockInv
<1>1. CASE ~ MayRead
  <2>1. /\ holds' = holds /\ owed' = owed /\ numlocks' = numlocks /\ status' = status
        /\ upgraded' = upgraded /\ writer' = writer
        /\ pc' = [pc EXCEPT ![t] = "lockr"] /\ asleep' = asleep \union {t}
    BY <1>1 DEF ReadTurn
  <2>2. Holders' = Holders
    BY <2>1 DEF Holders
  <2>3. Counted' /\ StatusFits'
    BY <2>1, <2>2 DEF Counted, StatusFits
  <2>4. LockTypeOK' /\ (\A u \in Threads : pc'[u] # "upgrade")
    BY <2>1 DEF LockTypeOK, Waiting, Asks
  <2>5. Owned'
    BY <2>1 DEF LockTypeOK, Owned, Asks
  <2>6. NoSleeperForgotten'
    BY <1>1, <2>1 DEF MayRead, LockTypeOK, NoSleeperForgotten, Waiting
  <2> QED
    BY <2>3, <2>4, <2>5, <2>6
<1>2. CASE MayRead
  <2>1. /\ status' = "read" /\ numlocks' = numlocks + 1 /\ LetIn(t, "read")
        /\ UNCHANGED <<writer, upgraded, asleep>>
    BY <1>2 DEF ReadTurn
  <2>2. /\ Holders' = Holders \union {t}
        /\ Cardinality(Holders') = Cardinality(Holders) + 1
    BY <2>1, HoldersGrow DEF Asks
  <2>3. Counted'
    BY <2>1, <2>2 DEF Counted
  <2>4. \A u \in Holders' : holds'[u] = "read"
    BY <1>2, <2>1 DEF MayRead, StatusFits, Holders, LetIn, Owes, LockTypeOK
  <2>5. StatusFits'
    BY <2>1, <2>2, <2>4 DEF StatusFits
  <2>6. Owned' /\ (\A u \in Threads : pc'[u] # "upgrade")
    BY <2>1 DEF LetIn, Owes, LockTypeOK, Owned, Asks
  <2>7. asleep = {}
    BY <1>2 DEF MayRead, NoSleeperForgotten, LockTypeOK, Waiting
  <2>8. LockTypeOK' /\ NoSleeperForgotten'
    BY <2>1, <2>7 DEF LetIn, Owes, LockTypeOK, NoSleeperForgotten, Waiting
  <2> QED
    BY <2>3, <2>5, <2>6, <2>8
<1> QED
  BY <1>1, <1>2

(***************************************************************************)
(* A turn of lockw by such a thread.                                       *)
(***************************************************************************)
LEMMA WriteTurnKeeps ==
    ASSUME LockInv, NEW t \in Threads, Asks(t), t \notin asleep,
           locks' = locks \union {t}, WriteTurn(t, FALSE)
    PROVE  LockInv'
<1> USE DEF LockInv
<1>0. MayWrite(FALSE) <=> status \in {"none", "readywrite"}
  BY DEF MayWrite, Hurry
<1>1. CASE ~ MayWrite(FALSE)
  <2>1. /\ holds' = holds /\ owed' = owed /\ numlocks' = numlocks /\ upgraded' = upgraded
        /\ writer' = writer
        /\ pc' = [pc EXCEPT ![t] = "lockw"] /\ asleep' = asleep \union {t}
        /\ status' = IF status = "read" THEN "prewrite" ELSE status
    BY <1>1 DEF WriteTurn
  <2>2. Holders' = Holders
    BY <2>1 DEF Holders
  <2>3. Counted' /\ StatusFits'
    BY <2>1, <2>2 DEF Counted, StatusFits
  <2>4. LockTypeOK' /\ (\A u \in Threads : pc'[u] # "upgrade")
    BY <2>1 DEF LockTypeOK, Waiting, Asks
  <2>5. Owned'
    BY <2>1 DEF LockTypeOK, Owned, Asks
  <2>6. NoSleeperForgotten'
    BY <1>0, <1>1, <2>1 DEF LockTypeOK, NoSleeperForgotten, Waiting
  <2> QED
    BY <2>3, <2>4, <2>5, <2>6
<1>2. CASE MayWrite(FALSE)
  <2>1. /\ status' = "write" /\ numlocks' = numlocks + 1 /\ LetIn(t, "write")
        /\ writer' = t /\ upgraded' = FALSE /\ asleep' = asleep
    BY <1>2 DEF WriteTurn, Hurry
  <2>2. /\ Holders' = Holders \union {t}
        /\ Cardinality(Holders') = Cardinality(Holders) + 1
    BY <2>1, HoldersGrow DEF Asks
  <2>3. Counted'
    BY <2>1, <2>2 DEF Counted
  <2>4. Holders = {} /\ holds'[t] = "write"
    BY <1>0, <1>2, <2>1 DEF StatusFits, LetIn, Owes, LockTypeOK
  <2>5. StatusFits'
    BY <2>1, <2>2, <2>4 DEF StatusFits
  <2>6. Owned' /\ (\A u \in Threads : pc'[u] # "upgrade")
    BY <2>1 DEF LetIn, Owes, LockTypeOK, Owned, Asks
  <2>7. t \notin asleep'
    BY <2>1
  <2>8. NoSleeperForgotten'
    BY <1>0, <1>2, <2>1 DEF LetIn, LockTypeOK, NoSleeperForgotten, Waiting
  <2>9. LockTypeOK'
    <3>1. upgraded' \in BOOLEAN
      BY <2>1
    <3>2. asleep' \subseteq Waiting'
      BY <2>1, <2>7 DEF LetIn, LockTypeOK, Waiting
    <3> QED
      BY <2>1, <3>1, <3>2 DEF LetIn, Owes, LockTypeOK
  <2> QED
    BY <2>3, <2>5, <2>6, <2>8, <2>9
<1> QED
  BY <1>1, <1>2

(***************************************************************************)
(* lockr inside of a lock, lockw inside of a write lock: nothing happens.  *)
(***************************************************************************)
LEMMA PassedByKeeps ==
    ASSUME LockInv, NEW t \in Threads, Calls(t), PassedBy(t, holds[t])
    PROVE  LockInv'
<1> USE DEF LockInv
<1>1. /\ pc' = [pc EXCEPT ![t] = "out"] /\ holds' = [holds EXCEPT ![t] = holds[t]]
      /\ owed' = [owed EXCEPT ![t] = @ + 1]
      /\ UNCHANGED <<status, numlocks, writer, upgraded, locks, asleep>>
      /\ t \in locks /\ pc[t] = "out" /\ (owed[t] = 0 \/ t \in Nesters)
  BY DEF PassedBy, LetIn, Owes, Calls
<1>2. pc' = pc /\ holds' = holds
  BY <1>1 DEF LockTypeOK
<1>3. owed' \in [Threads -> Nat] /\ owed'[t] = owed[t] + 1 /\ \A u \in Threads : u # t => owed'[u] = owed[u]
  BY <1>1 DEF LockTypeOK
<1>4. t \in Nesters /\ holds[t] # "none"
  BY <1>1 DEF Owned, LockTypeOK
<1>5. Owned'
  BY <1>1, <1>2, <1>3, <1>4 DEF Owned, LockTypeOK
<1>6. LockTypeOK' /\ (\A u \in Threads : pc'[u] # "upgrade")
  BY <1>1, <1>2, <1>3 DEF LockTypeOK, Waiting
<1>7. Counted' /\ StatusFits' /\ NoSleeperForgotten'
  BY <1>1, <1>2 DEF Counted, StatusFits, NoSleeperForgotten, Holders
<1> QED
  BY <1>5, <1>6, <1>7

(***************************************************************************)
(* unlock: nobody is upgraded here. A thread that is not in the list is    *)
(* one that nested: its first unlock was the one that counted.             *)
(***************************************************************************)
LEMMA UnlockKeeps ==
    ASSUME LockInv, NEW t \in Threads, unlock(t)
    PROVE  LockInv'
<1> USE DEF LockInv
<1>1. ~ Downgrades(t)
  BY DEF Downgrades, StatusFits
<1>2. /\ pc[t] = "out" /\ owed[t] > 0
      /\ holds' = [holds EXCEPT ![t] = "none"]
      /\ owed' = [owed EXCEPT ![t] = @ - 1]
      /\ asleep' = {} /\ pc' = pc
  BY <1>1 DEF unlock, WakeAll
<1>3. /\ \A u \in Threads : u # t => owed'[u] = owed[u] /\ holds'[u] = holds[u]
      /\ owed'[t] = owed[t] - 1 /\ holds'[t] = "none" /\ owed[t] \in Nat
      /\ owed' \in [Threads -> Nat] /\ holds' \in [Threads -> {"none", "read", "write"}]
  BY <1>2 DEF LockTypeOK
<1>4. (\A u \in Threads : pc'[u] # "upgrade") /\ NoSleeperForgotten'
  BY <1>2 DEF NoSleeperForgotten
<1>5. CASE t \notin locks /\ UNCHANGED <<status, numlocks, writer, upgraded, locks>>
  <2>1. holds[t] = "none" /\ t \in Nesters
    BY <1>2, <1>5 DEF Owned, LockTypeOK
  <2>2. holds' = holds
    BY <1>2, <2>1 DEF LockTypeOK
  <2>3. LockTypeOK'
    BY <1>2, <1>3, <1>5 DEF LockTypeOK
  <2>4. Owned'
    BY <1>2, <1>3, <1>5, <2>1, <2>2 DEF Owned
  <2>5. Counted' /\ StatusFits'
    BY <1>5, <2>2 DEF Counted, StatusFits, Holders
  <2> QED
    BY <1>4, <2>3, <2>4, <2>5
<1>6. CASE t \in locks /\ locks' = locks \ {t} /\ numlocks' = numlocks - 1 /\ (EndRead \/ EndWrite)
  <2>1. holds[t] # "none"
    BY <1>2, <1>6 DEF Owned
  <2>2. /\ Holders' = Holders \ {t}
        /\ t \in Holders
        /\ Cardinality(Holders') = Cardinality(Holders) - 1
    BY <1>2, <2>1, HoldersShrink
  <2>3. numlocks \in Nat /\ (numlocks - 1 = 0 <=> Holders' = {})
    BY <2>2, HolderCount DEF Counted, Holders
  <2>4. Counted'
    BY <1>6, <2>2 DEF Counted
  <2>5. Owned'
    BY <1>2, <1>3, <1>6, <2>1 DEF Owned
  <2>6. CASE EndRead
    <3>1. \A u \in Holders' : holds'[u] = "read"
      BY <1>3, <2>2, <2>6 DEF EndRead, StatusFits, LockTypeOK, Holders
    <3>2. ASSUME Holders' = {} PROVE StatusFits'
      BY <1>6, <2>3, <2>6, <3>2 DEF EndRead, AfterReader, StatusFits
    <3>3. ASSUME Holders' # {} PROVE StatusFits'
      <4>1. status' = status /\ upgraded' = upgraded
        BY <1>6, <2>3, <2>6, <3>3 DEF EndRead, AfterReader
      <4> QED
        BY <2>6, <3>1, <3>3, <4>1 DEF EndRead, StatusFits
    <3>4. StatusFits'
      BY <3>2, <3>3
    <3>5. LockTypeOK'
      BY <1>2, <1>3, <1>6, <2>6 DEF EndRead, AfterReader, LockTypeOK
    <3> QED
      BY <1>4, <2>4, <2>5, <3>4, <3>5
  <2>7. CASE EndWrite
    <3>1. status = "write" /\ Holders = {t}
      BY <2>2, <2>7 DEF EndWrite, StatusFits, LockTypeOK
    <3>2. Holders' = {} /\ status' = "none"
      BY <2>2, <2>7, <3>1 DEF EndWrite, StatusFits
    <3>3. StatusFits'
      BY <3>2 DEF StatusFits
    <3>4. upgraded' \in BOOLEAN /\ writer' = NoThread
      BY <2>7 DEF EndWrite
    <3>5. LockTypeOK'
      BY <1>2, <1>3, <1>6, <3>2, <3>4 DEF LockTypeOK
    <3> QED
      BY <1>4, <2>4, <2>5, <3>3, <3>5
  <2> QED
    BY <1>6, <2>6, <2>7
<1> QED
  BY <1>1, <1>5, <1>6 DEF unlock

(***************************************************************************)
(* The three results.                                                      *)
(***************************************************************************)
LEMMA LockInvariance ==
    ASSUME TryWriters = {}, Upgraders = {}
    PROVE  LockSpec => []LockInv
<1>1. LockInit => LockInv
  <2> SUFFICES ASSUME LockInit PROVE LockInv
    OBVIOUS
  <2>1. Holders = {}
    BY DEF LockInit, Holders
  <2>2. Counted
    BY <2>1, FS_EmptySet DEF LockInit, Counted
  <2>3. writer \in Threads \union {NoThread}
    BY ThreadsAssumption DEF LockInit
  <2> QED
    BY <2>1, <2>2, <2>3 DEF LockInit, LockInv, LockTypeOK, Owned, StatusFits, NoSleeperForgotten
<1>2. LockInv /\ [LockNext]_lockVars => LockInv'
  <2> SUFFICES ASSUME LockInv, [LockNext]_lockVars PROVE LockInv'
    OBVIOUS
  <2>1. ASSUME NEW t \in Threads, Calls(t), t \notin locks PROVE Asks(t) /\ t \notin asleep
    BY <2>1 DEF Calls, Asks, LockInv, Owned, LockTypeOK, Waiting
  <2>2. ASSUME NEW t \in Threads, lockr(t) \/ trylockr(t) PROVE LockInv'
    BY <2>1, <2>2, ReadTurnKeeps, PassedByKeeps DEF lockr, trylockr
  <2>3. ASSUME NEW t \in Threads, lockw(t) PROVE LockInv'
    <3>1. CASE t \notin locks /\ locks' = locks \union {t} /\ WriteTurn(t, FALSE)
      BY <2>1, <2>3, <3>1, WriteTurnKeeps DEF lockw
    <3>2. CASE holds[t] = "write" /\ LockwInList(t)
      <4>1. writer = t
        BY <3>2 DEF LockInv, LockTypeOK, StatusFits, Holders
      <4>2. PassedBy(t, holds[t])
        BY <3>2, <4>1 DEF LockwInList
      <4> QED
        BY <2>3, <4>2, PassedByKeeps DEF lockw
    <3> QED
      BY <2>3, <3>1, <3>2 DEF lockw
  <2>4. ASSUME NEW t \in Threads, Again(t) PROVE LockInv'
    <3>1. pc[t] # "out" => Asks(t) /\ locks = locks \union {t}
      BY DEF LockInv, Owned, LockTypeOK, Asks
    <3>2. CASE lockrAgain(t)
      BY <3>1, <3>2, ReadTurnKeeps DEF lockrAgain
    <3>3. CASE lockwAgain(t)
      <4>1. pc[t] = "lockw"
        BY <3>3 DEF lockwAgain, LockInv
      <4> QED
        BY <3>1, <3>3, <4>1, WriteTurnKeeps DEF lockwAgain
    <3> QED
      BY <2>4, <3>2, <3>3 DEF Again
  <2>5. Readers \subseteq Threads /\ Writers \subseteq Threads /\ TryReaders \subseteq Threads
    BY ThreadsAssumption
  <2>6. ASSUME NEW t \in Threads, unlock(t) PROVE LockInv'
    BY <2>6, UnlockKeeps
  <2>7. CASE UNCHANGED lockVars
    BY <2>7 DEF lockVars, LockInv, LockTypeOK, Owned, Counted, StatusFits, NoSleeperForgotten,
                Holders, Waiting
  <2> QED
    BY <2>2, <2>3, <2>4, <2>5, <2>6, <2>7 DEF LockNext
<1> QED
  BY <1>1, <1>2, PTL DEF LockSpec

\* A thread inside a write lock is alone, threads that take locks inside of
\* their own included: these are inside until their first unlock.
THEOREM WritersAreAlone ==
    ASSUME TryWriters = {}, Upgraders = {}
    PROVE  LockSpec => []MutualExclusion
<1>1. LockInv => MutualExclusion
  <2> SUFFICES ASSUME LockInv, NEW t \in Threads, NEW u \in Threads, holds[t] = "write", u # t
               PROVE  holds[u] = "none" /\ (u \notin Nesters => owed[u] = 0)
    BY DEF MutualExclusion
  <2>1. holds[u] = "none"
    BY DEF LockInv, LockTypeOK, StatusFits, Holders
  <2> QED
    BY <2>1 DEF LockInv, Owned
<1> QED
  BY <1>1, LockInvariance, PTL

\* Nobody is left asleep before a lock it could have.
THEOREM NobodyForgotten ==
    ASSUME TryWriters = {}, Upgraders = {}
    PROVE  LockSpec => []NoSleeperForgotten
<1>1. LockInv => NoSleeperForgotten
  BY DEF LockInv
<1> QED
  BY <1>1, LockInvariance, PTL

(***************************************************************************)
(* On native rwlocks. What the threads think they have and what the rwlock *)
(* counts agree, because no call fails while the caller believes it worked *)
(* and no unlock gives back what its thread does not have.                 *)
(***************************************************************************)
\* The read locks that the threads think they have.
ReadLocks ==
    {l \in Users \X (1 .. MaxDepth) :
        l[2] <= Len(believes[l[1]]) /\ believes[l[1]] # <<"write">>}

\* A thread thinks it has one write lock or some read locks, nothing else.
OneKind ==
    \A t \in Users : \/ believes[t] = <<"write">>
                     \/ \A i \in DOMAIN believes[t] : believes[t][i] = "read"

\* Who is inside of a method may be let on by it.
Admissible ==
    \A t \in Users :
        /\ called[t] \in {"out", "lockr", "lockw", "trylockw"}
        /\ called[t] # "out" => Len(believes[t]) < MaxDepth
        /\ called[t] = "lockr" => believes[t] # <<"write">>
        /\ called[t] \in {"lockw", "trylockw"} => believes[t] = <<>>

\* What the rwlock counts is what the threads think.
Agreed ==
    /\ \A t \in Users : rwWriter = t <=> believes[t] = <<"write">>
    /\ Written => rwReaders = 0
    /\ rwReaders = Cardinality(ReadLocks)

NativeInv ==
    /\ NativeTypeOK
    /\ \A t \in Users : Len(believes[t]) <= MaxDepth
    /\ OneKind /\ Admissible /\ Agreed

\* A system whose locks can time out; what nests is a read lock in a read lock.
NativeUse == Timedlock /\ Nesting \subseteq {<<"read", "read">>}

LEMMA ReadLocksFinite == IsFiniteSet(ReadLocks)
<1>1. IsFiniteSet(1 .. MaxDepth)
  BY DepthAssumption, FS_Interval
<1>2. IsFiniteSet(Users \X (1 .. MaxDepth))
  BY <1>1, UsersAssumption, FS_Product
<1> QED
  BY <1>2, FS_Subset DEF ReadLocks

\* A lock more is the first of the sequence.
LEMMA Pushed ==
    ASSUME NEW s \in Seq({"read", "write"}), NEW k \in {"read", "write"}
    PROVE  /\ <<k>> \o s \in Seq({"read", "write"})
           /\ Len(<<k>> \o s) = Len(s) + 1
           /\ (<<k>> \o s)[1] = k
           /\ \A i \in 2 .. Len(s) + 1 : (<<k>> \o s)[i] = s[i - 1]
<1>1. <<k>> \in Seq({"read", "write"}) /\ Len(<<k>>) = 1 /\ <<k>>[1] = k
  OBVIOUS
<1>2. /\ <<k>> \o s \in Seq({"read", "write"})
      /\ Len(<<k>> \o s) = Len(<<k>>) + Len(s)
      /\ \A i \in 1 .. Len(<<k>>) + Len(s) :
           (<<k>> \o s)[i] = IF i <= Len(<<k>>) THEN <<k>>[i] ELSE s[i - Len(<<k>>)]
  BY ONLY <1>1, s \in Seq({"read", "write"}), ConcatProperties
<1>3. Len(s) \in Nat
  BY LenProperties
<1> HIDE <1>2
<1>4. Len(<<k>>) + Len(s) = Len(s) + 1 /\ 1 \in 1 .. Len(s) + 1
  BY <1>1, <1>3
<1>5. (<<k>> \o s)[1] = k
  BY <1>1, <1>2, <1>4
<1>6. ASSUME NEW i \in 2 .. Len(s) + 1
      PROVE  (<<k>> \o s)[i] = s[i - 1]
  <2>1. i \in 1 .. Len(s) + 1 /\ ~ (i <= 1)
    BY <1>3
  <2> QED
    BY <2>1, <1>1, <1>2, <1>4
<1> QED
  BY <1>2, <1>4, <1>5, <1>6

\* The locks of a thread that had no read lock and has none.
LEMMA NoneOfIts ==
    ASSUME NEW t \in Users, believes' = [believes EXCEPT ![t] = believes'[t]],
           NativeTypeOK, Len(believes[t]) = 0 \/ believes[t] = <<"write">>,
           Len(believes'[t]) = 0 \/ believes'[t] = <<"write">>
    PROVE  ReadLocks' = ReadLocks
<1> SUFFICES ASSUME NEW l \in Users \X (1 .. MaxDepth)
             PROVE  l[2] <= Len(believes'[l[1]]) /\ believes'[l[1]] # <<"write">>
                    <=> l[2] <= Len(believes[l[1]]) /\ believes[l[1]] # <<"write">>
  BY DEF ReadLocks
<1>1. CASE l[1] # t
  BY <1>1 DEF NativeTypeOK
<1>2. CASE l[1] = t
  <2>1. ~ (l[2] <= 0)
    OBVIOUS
  <2> QED
    BY <1>2, <2>1
<1> QED
  BY <1>1, <1>2

\* A thread that is granted a read lock.
LEMMA ReadGranted ==
    ASSUME NativeInv, NEW t \in Users, Len(believes[t]) < MaxDepth, believes[t] # <<"write">>,
           RdLock(t), LetOn(t, "read")
    PROVE  NativeInv'
<1> USE DEF NativeInv, NativeTypeOK
<1> DEFINE s == believes[t]
           r == <<"read">> \o s
<1>1. /\ s \in Seq({"read", "write"}) /\ Len(s) \in Nat /\ DOMAIN s = 1 .. Len(s)
      /\ \A i \in DOMAIN s : s[i] = "read"
  BY LenProperties DEF OneKind
<1>2. /\ r \in Seq({"read", "write"}) /\ Len(r) = Len(s) + 1 /\ DOMAIN r = 1 .. Len(s) + 1
      /\ \A i \in DOMAIN r : r[i] = "read"
  <2>1. /\ r \in Seq({"read", "write"}) /\ Len(r) = Len(s) + 1
        /\ r[1] = "read" /\ \A i \in 2 .. Len(s) + 1 : r[i] = s[i - 1]
    BY <1>1, Pushed
  <2> HIDE DEF r
  <2>2. DOMAIN r = 1 .. Len(s) + 1
    BY <2>1, LenProperties
  <2>3. ASSUME NEW i \in 1 .. Len(s) + 1 PROVE r[i] = "read"
    <3>1. i = 1 \/ (i \in 2 .. Len(s) + 1 /\ i - 1 \in 1 .. Len(s))
      BY <1>1
    <3> QED
      BY <3>1, <2>1, <1>1
  <2> QED
    BY <2>1, <2>2, <2>3
<1>3. r # <<"write">>
  <2>1. r[1] = "read"
    BY <1>1, <1>2
  <2>2. <<"write">>[1] = "write"
    OBVIOUS
  <2> HIDE DEF r
  <2> QED
    BY <2>1, <2>2
<1>4. /\ believes' = [believes EXCEPT ![t] = r] /\ called' = [called EXCEPT ![t] = "out"]
      /\ ~ Written /\ rwReaders' = rwReaders + 1 /\ rwWriter' = rwWriter
  BY DEF RdLock, LetOn
<1> HIDE DEF r
<1>5. NativeTypeOK' /\ \A u \in Users : Len(believes'[u]) <= MaxDepth
  <2>1. \A u \in Users : Len(believes'[u]) <= MaxDepth
    <3> SUFFICES ASSUME NEW u \in Users PROVE Len(believes'[u]) <= MaxDepth
      OBVIOUS
    <3>1. CASE u = t
      BY <3>1, <1>1, <1>2, <1>4, DepthAssumption
    <3>2. CASE u # t
      BY <3>2, <1>4
    <3> QED BY <3>1, <3>2
  <2> QED
    BY <2>1, <1>2, <1>4
<1>6. OneKind' /\ Admissible'
  BY <1>2, <1>4 DEF OneKind, Admissible
<1>7. \A u \in Users : rwWriter' = u <=> believes'[u] = <<"write">>
  BY <1>3, <1>4, UsersAssumption DEF Agreed, Written
<1>8. ReadLocks' = ReadLocks \union {<<t, Len(s) + 1>>} /\ <<t, Len(s) + 1>> \notin ReadLocks
  <2>1. Len(s) + 1 \in 1 .. MaxDepth
    BY <1>1, DepthAssumption
  <2>2. ASSUME NEW u \in Users, NEW i \in 1 .. MaxDepth
        PROVE  <<u, i>> \in ReadLocks' <=> <<u, i>> \in ReadLocks \/ <<u, i>> = <<t, Len(s) + 1>>
    <3>1. CASE u # t
      BY <3>1, <1>4 DEF ReadLocks
    <3>2. CASE u = t
      <4>1. <<u, i>> \in ReadLocks' <=> i <= Len(s) + 1
        BY <3>2, <1>2, <1>3, <1>4 DEF ReadLocks
      <4>2. <<u, i>> \in ReadLocks <=> i <= Len(s)
        BY <3>2 DEF ReadLocks
      <4>3. i <= Len(s) + 1 <=> i <= Len(s) \/ i = Len(s) + 1
        BY <1>1
      <4> QED
        BY <4>1, <4>2, <4>3, <3>2
    <3> QED BY <3>1, <3>2
  <2>3. <<t, Len(s) + 1>> \notin ReadLocks
    BY <1>1 DEF ReadLocks
  <2>4. ReadLocks \subseteq Users \X (1 .. MaxDepth) /\ ReadLocks' \subseteq Users \X (1 .. MaxDepth)
    BY DEF ReadLocks
  <2> QED
    BY <2>1, <2>2, <2>3, <2>4
<1>9. rwReaders' = Cardinality(ReadLocks')
  BY <1>4, <1>8, ReadLocksFinite, FS_AddElement DEF Agreed
<1>10. Agreed'
  BY <1>4, <1>7, <1>9 DEF Agreed, Written
<1> QED
  BY <1>5, <1>6, <1>10

\* A thread that is granted the write lock.
LEMMA WriteGranted ==
    ASSUME NativeInv, NEW t \in Users, Len(believes[t]) < MaxDepth, believes[t] = <<>>,
           WrLock(t), LetOn(t, "write")
    PROVE  NativeInv'
<1> USE DEF NativeInv, NativeTypeOK
<1>1. <<"write">> \o <<>> = <<"write">>
  OBVIOUS
<1>2. /\ believes' = [believes EXCEPT ![t] = <<"write">>] /\ called' = [called EXCEPT ![t] = "out"]
      /\ ~ Written /\ rwReaders = 0 /\ rwReaders' = 0 /\ rwWriter' = t
  BY <1>1 DEF WrLock, LetOn
<1>3. <<"write">> \in Seq({"read", "write"}) /\ Len(<<"write">>) = 1 /\ 1 <= MaxDepth
  BY DepthAssumption
<1>4. \A u \in Users : u # t => believes'[u] = believes[u] /\ believes[u] # <<"write">>
  BY <1>2, UsersAssumption DEF Agreed, Written
<1>5. NativeTypeOK' /\ \A u \in Users : Len(believes'[u]) <= MaxDepth
  BY <1>2, <1>3
<1>6. OneKind' /\ Admissible'
  BY <1>2, <1>3 DEF OneKind, Admissible
<1>7. ReadLocks' = ReadLocks
  <2>1. Len(believes[t]) = 0 /\ believes'[t] = <<"write">>
    BY <1>2
  <2> QED
    BY <1>2, <2>1, NoneOfIts
<1>8. Agreed'
  BY <1>2, <1>4, <1>7 DEF Agreed, Written
<1> QED
  BY <1>5, <1>6, <1>8

\* Whatever the thread gives up is the lock it thinks it had last.
LEMMA NativeUnlockKeeps ==
    ASSUME NativeInv, NEW t \in Users, unlockNative(t)
    PROVE  NativeInv'
<1> USE DEF NativeInv, NativeTypeOK
<1> DEFINE s == believes[t]
<1>1. /\ s \in Seq({"read", "write"}) /\ s # <<>> /\ Len(s) \in Nat \ {0} /\ Len(s) <= MaxDepth
      /\ DOMAIN s = 1 .. Len(s)
      /\ believes' = [believes EXCEPT ![t] = Tail(s)] /\ called' = called /\ called[t] = "out"
  BY LenProperties, EmptySeq DEF unlockNative
<1>2. /\ Tail(s) \in Seq({"read", "write"}) /\ Len(Tail(s)) = Len(s) - 1
      /\ \A i \in 1 .. Len(Tail(s)) : Tail(s)[i] = s[i + 1]
  BY <1>1, HeadTailProperties
<1>3. DOMAIN Tail(s) = 1 .. Len(Tail(s))
  BY <1>2, LenProperties
<1>4. /\ Tail(s) # <<"write">>
      /\ \A i \in DOMAIN Tail(s) : Tail(s)[i] = "read"
  <2>1. ASSUME NEW i \in DOMAIN Tail(s) PROVE Tail(s)[i] = "read"
    <3>1. i + 1 \in 1 .. Len(s) /\ i + 1 # 1 /\ Len(s) # 1 /\ Tail(s)[i] = s[i + 1]
      BY <1>1, <1>2, <1>3
    <3>2. s # <<"write">>
      <4>1. Len(<<"write">>) = 1
        OBVIOUS
      <4> QED
        BY <3>1, <4>1
    <3> QED
      BY <3>1, <3>2, <1>1 DEF OneKind
  <2>2. 1 \in DOMAIN <<"write">> /\ <<"write">>[1] = "write"
    OBVIOUS
  <2> QED
    BY ONLY <2>1, <2>2
<1> HIDE DEF s
<1>5. NativeTypeOK' /\ \A u \in Users : Len(believes'[u]) <= MaxDepth
  <2>1. \A u \in Users : Len(believes'[u]) <= MaxDepth
    BY <1>1, <1>2, DepthAssumption
  <2>2. rwWriter' \in Users \union {NoUser} /\ rwReaders' \in Nat
    BY DEF unlockNative, RwUnlock
  <2> QED
    BY <2>1, <2>2, <1>1, <1>2
<1>6. OneKind'
  BY <1>1, <1>4 DEF OneKind
<1>7. Admissible'
  BY <1>1 DEF Admissible
<1>8. CASE rwWriter = t
  <2>1. s = <<"write">>
    BY <1>8 DEF Agreed, s
  <2>2. Len(s) = 1 /\ Tail(s) = <<>>
    BY <2>1
  <2>3. rwWriter' = NoUser /\ rwReaders' = rwReaders /\ rwReaders = 0
    BY <1>8, UsersAssumption DEF unlockNative, RwUnlock, Deadlk, Agreed, Written
  <2>4. \A u \in Users : u # t => believes'[u] = believes[u] /\ believes[u] # <<"write">>
    BY <1>8, <1>1 DEF Agreed
  <2>5. ReadLocks' = ReadLocks
    <3>1. believes[t] = <<"write">> /\ Len(believes'[t]) = 0
      BY <1>1, <2>1, <2>2 DEF s
    <3> QED
      BY <1>1, <3>1, NoneOfIts
  <2>6. believes'[t] = <<>> /\ <<>> # <<"write">>
    BY <1>1, <2>2
  <2>7. Agreed'
    BY <2>3, <2>4, <2>5, <2>6, UsersAssumption DEF Agreed, Written
  <2> QED
    BY <1>5, <1>6, <1>7, <2>7
<1>9. CASE rwWriter # t
  <2>1. s # <<"write">>
    BY <1>9 DEF Agreed, s
  <2>2. rwWriter' = rwWriter /\ rwReaders > 0 /\ rwReaders' = rwReaders - 1 /\ ~ Written
    BY <1>9 DEF unlockNative, RwUnlock, Deadlk, Agreed
  <2>3. ReadLocks' = ReadLocks \ {<<t, Len(s)>>} /\ <<t, Len(s)>> \in ReadLocks
    <3>1. ASSUME NEW u \in Users, NEW i \in 1 .. MaxDepth
          PROVE  <<u, i>> \in ReadLocks' <=> <<u, i>> \in ReadLocks /\ <<u, i>> # <<t, Len(s)>>
      <4>1. CASE u # t
        BY <4>1, <1>1 DEF ReadLocks
      <4>2. CASE u = t
        <5>1. <<u, i>> \in ReadLocks' <=> i <= Len(s) - 1
          BY <4>2, <1>1, <1>2, <1>4 DEF ReadLocks
        <5>2. <<u, i>> \in ReadLocks <=> i <= Len(s)
          BY <4>2, <2>1 DEF ReadLocks, s
        <5>3. i <= Len(s) - 1 <=> i <= Len(s) /\ i # Len(s)
          <6>1. i \in Int /\ Len(s) \in Int
            BY <1>1
          <6> QED
            BY ONLY <6>1
        <5> QED
          BY <5>1, <5>2, <5>3, <4>2
      <4> QED BY <4>1, <4>2
    <3>2. ReadLocks \subseteq Users \X (1 .. MaxDepth)
          /\ ReadLocks' \subseteq Users \X (1 .. MaxDepth)
      BY DEF ReadLocks
    <3>3. <<t, Len(s)>> \in ReadLocks
      BY <1>1, <2>1, DepthAssumption DEF ReadLocks, s
    <3> QED
      BY <3>1, <3>2, <3>3
  <2>4. rwReaders' = Cardinality(ReadLocks')
    BY <2>2, <2>3, ReadLocksFinite, FS_RemoveElement DEF Agreed
  <2>5. \A u \in Users : rwWriter' = u <=> believes'[u] = <<"write">>
    BY <1>1, <1>4, <1>9, <2>2 DEF Agreed
  <2> QED
    BY <1>5, <1>6, <1>7, <2>2, <2>4, <2>5 DEF Agreed, Written
<1> QED
  BY <1>8, <1>9

\* A thread that goes in, or comes out with nothing.
LEMMA CallKeeps ==
    ASSUME NativeInv, NEW t \in Users, NEW m \in {"out", "lockr", "lockw", "trylockw"},
           Enter(t, m), UNCHANGED <<rwWriter, rwReaders, believes>>,
           m # "out" => Len(believes[t]) < MaxDepth,
           m = "lockr" => believes[t] # <<"write">>,
           m \in {"lockw", "trylockw"} => believes[t] = <<>>
    PROVE  NativeInv'
BY DEF NativeInv, NativeTypeOK, OneKind, Admissible, Agreed, Written, Enter, ReadLocks

\* With the nesting that is allowed, who may ask for the write lock has none.
LEMMA MayCallMeans ==
    ASSUME NativeUse, NativeInv, NEW t \in Users
    PROVE  /\ MayCall(t, "write") => believes[t] = <<>> /\ Len(believes[t]) < MaxDepth
           /\ MayCall(t, "read") => believes[t] # <<"write">> /\ Len(believes[t]) < MaxDepth
<1>1. <<Head(believes[t]), "write">> \notin Nesting
  BY DEF NativeUse
<1>2. believes[t] = <<"write">> => <<Head(believes[t]), "read">> \notin Nesting
  BY DEF NativeUse
<1>3. <<"write">> # <<>>
  OBVIOUS
<1> QED
  BY <1>1, <1>2, <1>3 DEF MayCall

LEMMA NativeInitInv == NativeInit => NativeInv
<1> SUFFICES ASSUME NativeInit PROVE NativeInv
  OBVIOUS
<1>1. \A t \in Users : believes[t] = <<>> /\ Len(believes[t]) = 0 /\ believes[t] # <<"write">>
                       /\ DOMAIN believes[t] = {}
  BY DEF NativeInit
<1>2. ReadLocks = {}
  BY <1>1 DEF ReadLocks
<1>3. NativeTypeOK
  BY DEF NativeInit, NativeTypeOK
<1>4. OneKind /\ Admissible
  BY <1>1 DEF OneKind, Admissible, NativeInit
<1>5. Agreed
  BY <1>1, <1>2, UsersAssumption, FS_EmptySet DEF Agreed, Written, NativeInit
<1> QED
  BY <1>1, <1>3, <1>4, <1>5, DepthAssumption DEF NativeInv

LEMMA NativeStepInv ==
    ASSUME NativeUse, NativeInv, [NativeNext]_nativeVars
    PROVE  NativeInv'
<1>1. ASSUME NEW t \in Users,
             lockNative(t, "lockr", "read") \/ lockNative(t, "lockw", "write") \/ trylockwWait(t)
      PROVE  NativeInv'
  BY <1>1, MayCallMeans, CallKeeps DEF lockNative, trylockwWait
<1>2. ASSUME NEW t \in Users, lockrNative(t) \/ trylockrNative(t)
      PROVE  NativeInv'
  <2>1. Len(believes[t]) < MaxDepth /\ believes[t] # <<"write">>
    BY <1>2, MayCallMeans DEF lockrNative, trylockrNative, NativeInv, Admissible
  <2>2. ~ Deadlk(t)
    BY <2>1 DEF Deadlk, NativeInv, Agreed
  <2>3. RdLock(t) /\ LetOn(t, "read")
    BY <1>2, <2>2 DEF lockrNative, trylockrNative, Granted
  <2> QED
    BY <2>1, <2>3, ReadGranted
<1>3. ASSUME NEW t \in Users, lockwNative(t) \/ trylockwNow(t) \/ trylockwTimed(t)
      PROVE  NativeInv'
  <2>1. Len(believes[t]) < MaxDepth /\ believes[t] = <<>>
    BY <1>3, MayCallMeans DEF lockwNative, trylockwNow, trylockwTimed, NativeInv, Admissible
  <2>2. ~ Deadlk(t)
    BY <2>1 DEF Deadlk, NativeInv, Agreed
  <2>3. CASE WrLock(t) /\ LetOn(t, "write")
    BY <2>1, <2>3, WriteGranted
  <2>4. CASE Fail(t)
    BY <2>4, CallKeeps DEF Fail
  <2> QED
    BY <1>3, <2>2, <2>3, <2>4 DEF lockwNative, trylockwNow, trylockwTimed, TryWrite, Granted
<1>4. ASSUME NEW t \in Users, trylockwPoll(t) \/ trylockwLast(t)
      PROVE  NativeInv'
  BY <1>4 DEF trylockwPoll, trylockwLast, NativeUse, NativeInv, Admissible
<1>5. ASSUME NEW t \in Users, unlockNative(t)
      PROVE  NativeInv'
  BY <1>5, NativeUnlockKeeps
<1>6. CASE UNCHANGED nativeVars
  BY <1>6 DEF nativeVars, NativeInv, NativeTypeOK, OneKind, Admissible, Agreed, Written, ReadLocks
<1> QED
  BY <1>1, <1>2, <1>3, <1>4, <1>5, <1>6 DEF NativeNext

LEMMA NativeExclusionFollows == NativeInv => NativeExclusion
<1> SUFFICES ASSUME NativeInv, NEW t \in Users, NEW u \in Users, t # u, Has(t, "write")
             PROVE  believes[u] = <<>>
  BY DEF NativeExclusion
<1>1. rwWriter = t /\ Written /\ rwReaders = 0
  BY UsersAssumption DEF Has, NativeInv, OneKind, Agreed, Written
<1>2. ReadLocks = {}
  BY <1>1, ReadLocksFinite, FS_EmptySet DEF NativeInv, Agreed
<1>3. believes[u] # <<"write">> /\ believes[u] \in Seq({"read", "write"})
  BY <1>1 DEF NativeInv, Agreed, NativeTypeOK
<1>4. Len(believes[u]) \in Nat /\ Len(believes[u]) <= MaxDepth
  BY <1>3, LenProperties DEF NativeInv
<1>5. ~ (1 <= Len(believes[u]))
  <2> SUFFICES ASSUME 1 <= Len(believes[u]) PROVE FALSE
    OBVIOUS
  <2>1. 1 \in 1 .. MaxDepth
    BY <1>4, DepthAssumption
  <2>2. <<u, 1>> \in ReadLocks
    BY <1>3, <2>1 DEF ReadLocks
  <2> QED
    BY <1>2, <2>2
<1> QED
  BY <1>3, <1>4, <1>5, EmptySeq

\* A thread that has the write lock of a native lockbase has it alone, and readers
\* share it, whichever of the methods they called and whichever timed out.
THEOREM NativeWritersAreAlone ==
    ASSUME NativeUse
    PROVE  NativeSpec => []NativeExclusion
<1>1. NativeInv /\ [NativeNext]_nativeVars => NativeInv'
  BY NativeStepInv
<1> QED
  BY <1>1, NativeInitInv, NativeExclusionFollows, PTL DEF NativeSpec
=============================================================================
