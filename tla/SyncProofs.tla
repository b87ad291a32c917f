----------------------------- MODULE SyncProofs -----------------------------
(***************************************************************************)
(* For every number of threads, pools, blocks, messages and files: no      *)
(* raise of a conditional is wasted and with one waiter it is what its     *)
(* comments promise, no block of the retain pool has two objects, and the  *)
(* log of a daemon loses nothing, repeats nothing and keeps the latest in  *)
(* its files.                                                              *)
(*                                                                         *)
(* The log needs two inductive invariants. One ties the logger that        *)
(* empties the backlog to the fact that no other thread runs yet, and      *)
(* counts for each logger how much of what it numbered is on its way. The  *)
(* other says what came before that which the files still hold.            *)
(***************************************************************************)
EXTENDS MCSync, QueueLockProofs, Induction, SequenceTheorems, TLAPS

\* Sequences that are joined, and one that is appended to.
LEMMA Grouped ==
    ASSUME NEW S, NEW s \in Seq(S), NEW t \in Seq(S), NEW u \in Seq(S)
    PROVE  (s \o t) \o u = s \o (t \o u) /\ s \o t \in Seq(S)
<1>1. s \o t \in Seq(S)
  BY ONLY s \in Seq(S), t \in Seq(S), ConcatProperties
<1>2. (s \o t) \o u = s \o (t \o u)
  BY ONLY s \in Seq(S), t \in Seq(S), u \in Seq(S), ConcatAssociative
<1> QED
  BY ONLY <1>1, <1>2

LEMMA AppendJoined ==
    ASSUME NEW S, NEW s \in Seq(S), NEW t \in Seq(S), NEW m \in S
    PROVE  s \o Append(t, m) = Append(s \o t, m)
<1>1. <<m>> \in Seq(S)
  OBVIOUS
<1>2. (s \o t) \o <<m>> = s \o (t \o <<m>>) /\ s \o t \in Seq(S)
  BY ONLY <1>1, s \in Seq(S), t \in Seq(S), Grouped
<1>3. Append(t, m) = t \o <<m>>
  BY ONLY t \in Seq(S), m \in S, AppendIsConcat
<1>4. Append(s \o t, m) = (s \o t) \o <<m>>
  BY ONLY <1>2, m \in S, AppendIsConcat
<1> QED
  BY ONLY <1>2, <1>3, <1>4

LEMMA ConditionalTypeStep == ASSUME TypeOK, [Next]_vars PROVE TypeOK'
<1>1. CASE signal
  BY <1>1 DEF TypeOK, signal, CanRaise, CondSignal
<1>2. CASE broadcast
  BY <1>2 DEF TypeOK, broadcast, CanRaise, CondBroadcast
<1>3. ASSUME NEW t \in Waiters,
             take(t) \/ sleep(t) \/ wake(t) \/ timeout(t) \/ spurious(t)
      PROVE  TypeOK'
  BY <1>3 DEF TypeOK, take, sleep, wake, timeout, spurious, Awake, CondTake,
              CondSleep, CondWake, CondTimeout, CondSpurious
<1>4. CASE UNCHANGED vars
  BY <1>4 DEF TypeOK, vars
<1> QED
  BY <1>1, <1>2, <1>3, <1>4 DEF Next

LEMMA ConditionalTypeInit == Init => TypeOK
BY DEF Init, CondInit, TypeOK

(***************************************************************************)
(* Type correctness: a thread is never both asleep and woken.              *)
(***************************************************************************)
THEOREM ConditionalTypeCorrect == Spec => []TypeOK
<1>1. TypeOK /\ [Next]_vars => TypeOK'
  BY ConditionalTypeStep
<1> QED
  BY <1>1, ConditionalTypeInit, PTL DEF Spec

(***************************************************************************)
(* Any subset of the waiters has a size, and it grows or shrinks by one    *)
(* with the thread put in or taken out.                                    *)
(***************************************************************************)
LEMMA WaiterSizes ==
    ASSUME NEW S \in SUBSET Waiters
    PROVE  /\ Cardinality(S) \in Nat
           /\ \A t \in Waiters \ S : Cardinality(S \union {t}) = Cardinality(S) + 1
           /\ \A t \in S : Cardinality(S \ {t}) = Cardinality(S) - 1
<1>1. IsFiniteSet(S)
  BY WaitersAssumption, FS_Subset
<1> QED
  BY <1>1, FS_CardinalityType, FS_AddElement, FS_RemoveElement

(***************************************************************************)
(* No raise is wasted, whatever the number of waiters: the invariant is    *)
(* inductive once the type is known.                                       *)
(***************************************************************************)
THEOREM RaisesUsed == Spec => []NoRaiseWasted
<1>1. Init => NoRaiseWasted
  BY DEF Init, CondInit, NoRaiseWasted
<1>2. TypeOK /\ NoRaiseWasted /\ [Next]_vars => NoRaiseWasted'
  <2> SUFFICES ASSUME TypeOK, NoRaiseWasted, [Next]_vars PROVE NoRaiseWasted'
    OBVIOUS
  <2> USE DEF TypeOK, NoRaiseWasted
  <2>0. Cardinality(woken) \in Nat /\ Cardinality(woken') \in Nat
    <3>1. TypeOK'
      BY DEF Next, signal, broadcast, take, sleep, wake, timeout, spurious,
             vars, CanRaise, Awake, CondSignal, CondBroadcast, CondTake,
             CondSleep, CondWake, CondTimeout, CondSpurious
    <3> QED
      BY <3>1, WaiterSizes
  <2>1. CASE signal
    <3>1. CASE sleeping = {}
      BY <2>1, <3>1 DEF signal, CondSignal
    <3>2. CASE sleeping # {}
      <4>1. PICK t \in sleeping : woken' = woken \union {t}
        BY <2>1, <3>2 DEF signal, CondSignal
      <4>2. Cardinality(woken') = Cardinality(woken) + 1
        BY <4>1, WaiterSizes
      <4> QED
        BY <2>0, <2>1, <3>2, <4>2 DEF signal, CondSignal
    <3> QED
      BY <3>1, <3>2
  <2>2. CASE broadcast
    BY <2>2 DEF broadcast, CondBroadcast
  <2>3. ASSUME NEW t \in Waiters, take(t) PROVE NoRaiseWasted'
    BY <2>0, <2>3 DEF take, CondTake
  <2>4. ASSUME NEW t \in Waiters, sleep(t) PROVE NoRaiseWasted'
    BY <2>0, <2>4 DEF sleep, CondSleep
  <2>5. ASSUME NEW t \in Waiters, wake(t) PROVE NoRaiseWasted'
    <3>1. Cardinality(woken') = Cardinality(woken) - 1
      BY <2>5, WaiterSizes DEF wake, CondWake
    <3> QED
      BY <2>0, <2>5, <3>1 DEF wake, CondWake
  <2>6. ASSUME NEW t \in Waiters, timeout(t) PROVE NoRaiseWasted'
    BY <2>6 DEF timeout, CondTimeout
  <2>7. ASSUME NEW t \in Waiters, spurious(t) PROVE NoRaiseWasted'
    <3>1. Cardinality(woken') = Cardinality(woken) + 1
      BY <2>7, WaiterSizes DEF spurious, CondSpurious
    <3> QED
      BY <2>0, <2>7, <3>1 DEF spurious, CondSpurious
  <2>8. CASE UNCHANGED vars
    BY <2>8 DEF vars
  <2> QED
    BY <2>1, <2>2, <2>3, <2>4, <2>5, <2>6, <2>7, <2>8 DEF Next
<1> QED
  BY <1>1, <1>2, ConditionalTypeCorrect, PTL DEF Spec

(***************************************************************************)
(* With one waiter and no spurious wakeup the counter never runs below the *)
(* threads woken. A second waiter breaks it: it can take the raise meant   *)
(* for the woken one, and a second sleeper makes broadcast release more    *)
(* threads than it counts raises.                                          *)
(***************************************************************************)
THEOREM OneWaiterCovered ==
    ASSUME NEW w, Waiters = {w}, Spurious = FALSE
    PROVE  Spec => []CounterCoversWoken
<1>1. Init => CounterCoversWoken
  BY FS_EmptySet DEF Init, CondInit, CounterCoversWoken
<1>2. TypeOK /\ CounterCoversWoken /\ [Next]_vars => CounterCoversWoken'
  <2> SUFFICES ASSUME TypeOK, CounterCoversWoken, [Next]_vars
               PROVE  CounterCoversWoken'
    OBVIOUS
  <2> USE DEF TypeOK, CounterCoversWoken
  <2>1. Cardinality({}) = 0 /\ Cardinality({w}) = 1
    BY FS_EmptySet, FS_Singleton
  <2>2. woken = {} \/ (woken = {w} /\ sleeping = {})
    OBVIOUS
  <2>3. CASE signal
    BY <2>1, <2>2, <2>3 DEF signal, CondSignal
  <2>4. CASE broadcast
    BY <2>1, <2>2, <2>4 DEF broadcast, CondBroadcast
  <2>5. ASSUME NEW t \in Waiters, take(t) PROVE CounterCoversWoken'
    BY <2>1, <2>2, <2>5 DEF take, CondTake, Awake
  <2>6. ASSUME NEW t \in Waiters, sleep(t) PROVE CounterCoversWoken'
    BY <2>6 DEF sleep, CondSleep
  <2>7. ASSUME NEW t \in Waiters, wake(t) PROVE CounterCoversWoken'
    BY <2>1, <2>2, <2>7 DEF wake, CondWake
  <2>8. ASSUME NEW t \in Waiters, timeout(t) \/ spurious(t) PROVE CounterCoversWoken'
    BY <2>8 DEF timeout, CondTimeout, spurious, CondSpurious
  <2>9. CASE UNCHANGED vars
    BY <2>9 DEF vars
  <2> QED
    BY <2>3, <2>4, <2>5, <2>6, <2>7, <2>8, <2>9 DEF Next
<1> QED
  BY <1>1, <1>2, ConditionalTypeCorrect, PTL DEF Spec

(***************************************************************************)
(* With one waiter and no spurious wakeup the class implements the         *)
(* contract its comments state: the remembered raises are the counter less *)
(* the threads woken.                                                      *)
(***************************************************************************)
THEOREM OneWaiterContract ==
    ASSUME NEW w, Waiters = {w}, Spurious = FALSE
    PROVE  Spec => ContractSpec
<1>1. Init => Contract!Init
  BY FS_EmptySet DEF Init, CondInit, Contract!Init
<1>2. TypeOK /\ CounterCoversWoken /\ [Next]_vars => [Contract!Next]_(Contract!cvars)
  <2> SUFFICES ASSUME TypeOK, CounterCoversWoken, [Next]_vars
               PROVE  Contract!Next \/ UNCHANGED Contract!cvars
    OBVIOUS
  <2> USE DEF TypeOK, CounterCoversWoken
  <2>1. Cardinality({}) = 0 /\ Cardinality({w}) = 1
    BY FS_EmptySet, FS_Singleton
  <2>2. woken = {} \/ (woken = {w} /\ sleeping = {})
    OBVIOUS
  <2>3. CASE signal
    <3>1. CASE sleeping = {}
      BY <2>1, <2>2, <2>3, <3>1
         DEF signal, CondSignal, Contract!Next, Contract!Raise, Contract!Remember
    <3>2. CASE sleeping # {}
      <4>1. w \in sleeping /\ woken = {} /\ woken' = {w} /\ sleeping' = {}
        BY <2>2, <2>3, <3>2 DEF signal, CondSignal
      <4>2. Contract!Release({w})
        BY <2>1, <2>3, <4>1 DEF signal, CondSignal, Contract!Release
      <4> QED
        BY <4>1, <4>2 DEF Contract!Next, Contract!Raise
    <3> QED
      BY <3>1, <3>2
  <2>4. CASE broadcast
    <3>1. CASE sleeping = {}
      BY <2>1, <2>2, <2>4, <3>1 DEF broadcast, CondBroadcast,
             Contract!Next, Contract!RaiseAll, Contract!Remember
    <3>2. CASE sleeping # {}
      BY <2>1, <2>2, <2>4, <3>2 DEF broadcast, CondBroadcast,
             Contract!Next, Contract!RaiseAll, Contract!Release
    <3> QED
      BY <3>1, <3>2
  <2>5. ASSUME NEW t \in Waiters, take(t) PROVE Contract!Next
    BY <2>1, <2>2, <2>5
       DEF take, CondTake, Awake, Contract!Next, Contract!WaitAtOnce
  <2>6. ASSUME NEW t \in Waiters, sleep(t) PROVE Contract!Next
    BY <2>1, <2>2, <2>6
       DEF sleep, CondSleep, Awake, Contract!Next, Contract!Block
  <2>7. ASSUME NEW t \in Waiters, wake(t) PROVE Contract!Next
    BY <2>1, <2>2, <2>7 DEF wake, CondWake, Contract!Next, Contract!Leave
  <2>8. ASSUME NEW t \in Waiters, timeout(t) PROVE Contract!Next
    BY <2>8 DEF timeout, CondTimeout, Contract!Next, Contract!GiveUp
  <2>9. ASSUME NEW t \in Waiters, spurious(t) PROVE FALSE
    BY <2>9 DEF spurious, CondSpurious
  <2>10. CASE UNCHANGED vars
    BY <2>10 DEF vars, Contract!cvars
  <2> QED
    BY <2>3, <2>4, <2>5, <2>6, <2>7, <2>8, <2>9, <2>10 DEF Next
<1> QED
  BY <1>1, <1>2, ConditionalTypeCorrect, OneWaiterCovered, PTL
     DEF Spec, ContractSpec, Contract!Spec

(***************************************************************************)
(* The pool of blocks                                                      *)
(***************************************************************************)
Made == SizePools \ Fresh
MadeOrNil == Made \union {Nil}

\* Whoever works in a size pool works in one that was made, as whatever leads
\* there does.
Standing ==
    /\ doing \in [Allocators ->
                    [at : {"out", "hunt", "make", "lock", "scan", "scan-extension", "full"},
                     sz : Nat, c : MadeOrNil, last : MadeOrNil, i : Nat]]
    /\ \A t \in Allocators :
          /\ doing[t].at # "out" => doing[t].sz # 0 /\ doing[t].i # 0
          /\ doing[t].at \in {"lock", "scan", "scan-extension", "full"} => doing[t].c # Nil

Heap ==
    /\ pools \in MadeOrNil
    /\ szpool \in [SizePools -> [next : MadeOrNil, extend : MadeOrNil, sz : Nat,
                                 lck : Allocators \union {Nil}]]

\* What is handed out is wired, and what is wired was made.
HandedOnce ==
    /\ owners \in [Blocks -> Nat]
    /\ wired \subseteq Made \X (1 .. BlockCount)
    /\ OneObjectPerBlock

RetainInv == Standing /\ Heap /\ HandedOnce

\* A block that is not wired gets an object.
LEMMA HandedOut ==
    ASSUME RetainInv, NEW t \in Allocators, NEW b \in Blocks, b \notin wired,
           HandOut(t, b), wired' = wired \union {b}, b[1] \in Made', Made \subseteq Made'
    PROVE  HandedOnce' /\ Standing'
<1> USE DEF RetainInv
<1>1. owners[b] = 0 /\ owners' = [owners EXCEPT ![b] = @ + 1]
      /\ doing' = [doing EXCEPT ![t] = Out]
  BY DEF HandedOnce, OneObjectPerBlock, HandOut
<1>2. owners' \in [Blocks -> Nat] /\ owners'[b] = 1 /\ \A x \in Blocks : x # b => owners'[x] = owners[x]
  BY <1>1 DEF HandedOnce
<1>3. OneObjectPerBlock'
  BY <1>2 DEF HandedOnce, OneObjectPerBlock
<1>4. wired' \subseteq Made' \X (1 .. BlockCount)
  BY DEF HandedOnce, Blocks
<1>5. Standing'
  <2>1. MadeOrNil \subseteq MadeOrNil' /\ Nil \in MadeOrNil'
    BY DEF MadeOrNil
  <2> HIDE DEF MadeOrNil, Made
  <2> QED
    BY <1>1, <2>1 DEF Standing, Out
<1> QED
  BY <1>2, <1>3, <1>4, <1>5 DEF HandedOnce

\* The size pools, with links into S.
Pools(S) == [SizePools -> [next : S, extend : S, sz : Nat, lck : Allocators \union {Nil}]]

\* To take or leave the lock of a size pool is no more than that.
LEMMA LockChanges ==
    ASSUME NEW S, NEW f \in Pools(S), NEW c \in SizePools,
           NEW x \in Allocators \union {Nil}
    PROVE  /\ [f EXCEPT ![c].lck = x] \in Pools(S)
           /\ \A q \in SizePools : [f EXCEPT ![c].lck = x][q].sz = f[q].sz
BY DEF Pools

\* The pools that were made stay so, if no size is set back.
LEMMA MadeStays ==
    ASSUME Heap, \A p \in SizePools : szpool'[p].sz = szpool[p].sz
    PROVE  Made' = Made /\ MadeOrNil' = MadeOrNil
BY DEF Made, MadeOrNil, Fresh

\* A size pool is made.
LEMMA MadeGrows ==
    ASSUME Heap, Fresh # {}, NEW sz \in Nat \ {0},
           \A p \in SizePools : szpool'[p].sz = IF p = NewPool THEN sz ELSE szpool[p].sz
    PROVE  /\ NewPool \in Fresh /\ NewPool \in SizePools
           /\ Made' = Made \union {NewPool} /\ MadeOrNil' = MadeOrNil \union {NewPool}
<1>1. NewPool \in Fresh /\ NewPool \in SizePools
  BY DEF NewPool, Fresh
<1> QED
  BY <1>1 DEF Made, MadeOrNil, Fresh

LEMMA RetainStepInv ==
    ASSUME RetainInv, [RetainNext]_retainVars
    PROVE  RetainInv'
<1> USE DEF RetainInv
<1>m. Made \subseteq SizePools /\ Nil \in MadeOrNil /\ Made \subseteq MadeOrNil
      /\ \A x \in MadeOrNil : x = Nil \/ x \in Made
  BY DEF Made, MadeOrNil
<1>1. CASE UNCHANGED retainVars
  BY <1>1 DEF retainVars, heap, Standing, Heap, HandedOnce, Made, MadeOrNil, Fresh, OneObjectPerBlock
<1>2. ASSUME NEW t \in Allocators, NEW sz \in Sizes, alloc(t, sz)
      PROVE  RetainInv'
  <2>1. /\ UNCHANGED heap
        /\ doing' = [doing EXCEPT ![t] = [at |-> "hunt", sz |-> sz, c |-> pools, last |-> Nil, i |-> 1]]
    BY <1>2 DEF alloc
  <2>2. Made' = Made /\ MadeOrNil' = MadeOrNil /\ Heap' /\ HandedOnce'
    BY <2>1 DEF heap, Made, MadeOrNil, Fresh, Heap, HandedOnce, OneObjectPerBlock
  <2>3. Standing'
    BY <1>m, <2>1, <2>2, SizesRounded DEF Standing, Heap
  <2> QED
    BY <2>2, <2>3
<1>3. ASSUME NEW t \in Allocators, hunt(t)
      PROVE  RetainInv'
  <2>1. UNCHANGED heap
    BY <1>3 DEF hunt
  <2>2. Made' = Made /\ MadeOrNil' = MadeOrNil /\ Heap' /\ HandedOnce'
    BY <2>1 DEF heap, Made, MadeOrNil, Fresh, Heap, HandedOnce, OneObjectPerBlock
  <2>3. doing[t].c # Nil => szpool[doing[t].c].next \in MadeOrNil
    BY <1>m DEF Standing, Heap
  <2>4. Standing'
    BY <1>3, <1>m, <2>2, <2>3 DEF Standing, hunt, Go
  <2> QED
    BY <2>2, <2>4
<1>4. ASSUME NEW t \in Allocators, make(t)
      PROVE  RetainInv'
  <2> DEFINE p == NewPool
             b == <<p, 1>>
  <2>1. /\ doing[t].at = "make" /\ Fresh # {} /\ ClaimFirst(p) /\ HandOut(t, b)
        /\ IF doing[t].last = Nil
           THEN pools' = p /\ szpool' = [szpool EXCEPT ![p].sz = doing[t].sz]
           ELSE /\ szpool' = [szpool EXCEPT ![p].sz = doing[t].sz, ![doing[t].last].next = p]
                /\ UNCHANGED pools
    BY <1>4 DEF make
  <2>2. doing[t].sz \in Nat \ {0} /\ doing[t].last \in MadeOrNil
    BY <2>1 DEF Standing
  <2>3. p \in Fresh /\ p \in SizePools /\ p \notin Made
    BY <2>1 DEF NewPool, Fresh, Made
  <2>4. \A q \in SizePools : szpool'[q].sz = IF q = p THEN doing[t].sz ELSE szpool[q].sz
    BY <1>m, <2>1, <2>2, <2>3 DEF Heap
  <2>5. Made' = Made \union {p} /\ MadeOrNil' = MadeOrNil \union {p}
    BY <2>1, <2>2, <2>4, MadeGrows
  <2>6. Heap'
    <3>1. pools' \in MadeOrNil'
      BY <2>1, <2>5 DEF Heap
    <3>2. szpool' \in [SizePools -> [next : MadeOrNil', extend : MadeOrNil', sz : Nat,
                                     lck : Allocators \union {Nil}]]
      BY <1>m, <2>1, <2>2, <2>3, <2>5 DEF Heap
    <3> QED
      BY <3>1, <3>2 DEF Heap
  <2>7. b \in Blocks /\ b \notin wired /\ b[1] = p
    BY <2>3, BlocksAssumption DEF Blocks, HandedOnce
  <2> HIDE DEF p
  <2>8. HandedOnce' /\ Standing'
    BY <2>1, <2>5, <2>7, HandedOut DEF ClaimFirst
  <2> QED
    BY <2>6, <2>8
<1>5. ASSUME NEW t \in Allocators, lockPool(t) \/ goExtension(t) \/ leak(t)
      PROVE  RetainInv'
  <2> DEFINE c == doing[t].c
             e == szpool[c].extend
  <2>1. UNCHANGED <<pools, wired, owners>> /\ c \in Made
    BY <1>5, <1>m DEF lockPool, goExtension, leak, Standing
  <2>2. c \in SizePools /\ e \in MadeOrNil
    BY <1>m, <2>1 DEF Heap
  <2>3. /\ szpool' \in Pools(MadeOrNil)
        /\ \A q \in SizePools : szpool'[q].sz = szpool[q].sz
    <3> DEFINE g == [szpool EXCEPT ![c].lck = Nil]
    <3>1. szpool \in Pools(MadeOrNil)
      BY DEF Heap, Pools
    <3>2. g \in Pools(MadeOrNil) /\ \A q \in SizePools : g[q].sz = szpool[q].sz
      BY <2>2, <3>1, LockChanges
    <3>3. CASE lockPool(t)
      <4> HIDE DEF g
      <4>1. szpool' = [szpool EXCEPT ![c].lck = t]
        BY <3>3 DEF lockPool
      <4> HIDE DEF c, e
      <4>2. \A q \in SizePools : szpool'[q].sz = szpool[q].sz
        BY <2>2, <3>1, <4>1, LockChanges
      <4>3. szpool' \in Pools(MadeOrNil)
        BY <2>2, <3>1, <4>1, LockChanges
      <4> QED
        BY <4>2, <4>3
    <3>4. CASE goExtension(t)
      <4>1. szpool' = [g EXCEPT ![e].lck = t] /\ e # Nil
        BY <3>4 DEF goExtension
      <4>2. e \in SizePools
        BY <1>m, <2>2, <4>1
      <4> HIDE DEF g, e, c
      <4>3. \A q \in SizePools : szpool'[q].sz = g[q].sz
        BY <3>2, <4>1, <4>2, LockChanges
      <4>4. szpool' \in Pools(MadeOrNil)
        BY <3>2, <4>1, <4>2, LockChanges
      <4> QED
        BY <3>2, <4>3, <4>4
    <3>5. CASE leak(t)
      BY <3>2, <3>5 DEF leak
    <3> QED
      BY <1>5, <3>3, <3>4, <3>5
  <2>4. Made' = Made /\ MadeOrNil' = MadeOrNil
    BY <2>3, MadeStays
  <2>5. Heap'
    <3>1. pools' \in MadeOrNil'
      BY <2>1, <2>4 DEF Heap
    <3> QED
      BY <2>3, <2>4, <3>1 DEF Heap, Pools
  <2>6. Standing'
    <3> HIDE DEF c, e
    <3>1. CASE lockPool(t)
      <4>1. doing[t].at = "lock" /\ doing' = [doing EXCEPT ![t].at = "scan"]
        BY <3>1 DEF lockPool, Go
      <4> QED
        BY <2>4, <4>1 DEF Standing
    <3>2. CASE goExtension(t)
      <4>1. /\ doing[t].at = "full" /\ e # Nil
            /\ doing' = [doing EXCEPT ![t].at = "scan-extension", ![t].c = e, ![t].i = 1]
        BY <3>2 DEF goExtension, c, e
      <4>2. doing' \in [Allocators ->
               [at : {"out", "hunt", "make", "lock", "scan", "scan-extension", "full"},
                sz : Nat, c : MadeOrNil, last : MadeOrNil, i : Nat]]
        <5> DEFINE Record == [at : {"out", "hunt", "make", "lock", "scan", "scan-extension", "full"},
                              sz : Nat, c : MadeOrNil, last : MadeOrNil, i : Nat]
                   n == [doing[t] EXCEPT !.at = "scan-extension", !.c = e, !.i = 1]
        <5>1. doing \in [Allocators -> Record] /\ e \in MadeOrNil
          BY <2>2 DEF Standing
        <5>2. n \in Record
          BY ONLY <5>1, t \in Allocators
        <5>3. doing' = [doing EXCEPT ![t] = n]
          BY <4>1
        <5> HIDE DEF Record, n
        <5>4. doing' \in [Allocators -> Record]
          BY ONLY <5>1, <5>2, <5>3, t \in Allocators
        <5> QED
          BY ONLY <5>4 DEF Record
      <4>3. /\ doing'[t].sz = doing[t].sz /\ doing'[t].i = 1 /\ doing'[t].c = e
            /\ \A u \in Allocators : u # t => doing'[u] = doing[u]
        BY <4>1 DEF Standing
      <4>4. doing[t].sz # 0
        BY <4>1 DEF Standing
      <4> QED
        BY <2>4, <4>1, <4>2, <4>3, <4>4 DEF Standing
    <3>3. CASE leak(t)
      BY <2>4, <3>3 DEF leak, Standing
    <3> QED
      BY <1>5, <3>1, <3>2, <3>3
  <2>7. HandedOnce'
    BY <2>1, <2>4 DEF HandedOnce, OneObjectPerBlock
  <2> QED
    BY <2>5, <2>6, <2>7
<1>6. ASSUME NEW t \in Allocators, scan(t)
      PROVE  RetainInv'
  <2> DEFINE c == doing[t].c
             b == <<c, doing[t].i>>
  <2>1. /\ Scanning(t) /\ doing[t].i <= BlockCount /\ pools' = pools
        /\ \/ /\ b \notin wired /\ wired' = wired \union {b} /\ HandOut(t, b)
              /\ szpool' = [szpool EXCEPT ![c].lck = Nil]
           \/ doing' = [doing EXCEPT ![t].i = @ + 1] /\ UNCHANGED <<szpool, wired, owners>>
    BY <1>6 DEF scan
  <2>2. c \in Made /\ c \in SizePools /\ b \in Blocks /\ b[1] = c
    BY <1>m, <2>1, BlocksAssumption DEF Scanning, Standing, Blocks
  <2>3. \A q \in SizePools : szpool'[q].sz = szpool[q].sz
    BY <2>1, <2>2 DEF Heap
  <2>4. Made' = Made /\ MadeOrNil' = MadeOrNil
    BY <2>3, MadeStays
  <2>5. Heap'
    BY <2>1, <2>2, <2>4 DEF Heap
  <2>6. HandedOnce' /\ Standing'
    <3>1. CASE b \notin wired /\ wired' = wired \union {b} /\ HandOut(t, b)
      <4> HIDE DEF b, c
      <4> QED
        BY <2>2, <2>4, <3>1, HandedOut
    <3>2. CASE doing' = [doing EXCEPT ![t].i = @ + 1] /\ UNCHANGED <<szpool, wired, owners>>
      <4>1. HandedOnce'
        BY <2>4, <3>2 DEF HandedOnce, OneObjectPerBlock
      <4>2. Standing'
        BY <2>4, <3>2 DEF Standing
      <4> QED
        BY <4>1, <4>2
    <3> QED
      BY <2>1, <3>1, <3>2
  <2> QED
    BY <2>5, <2>6
<1>7. ASSUME NEW t \in Allocators, full(t)
      PROVE  RetainInv'
  <2>1. UNCHANGED heap /\ Scanning(t) /\ Go(t, "full")
    BY <1>7 DEF full
  <2>2. Made' = Made /\ MadeOrNil' = MadeOrNil /\ Heap' /\ HandedOnce'
    BY <2>1 DEF heap, Made, MadeOrNil, Fresh, Heap, HandedOnce, OneObjectPerBlock
  <2>3. Standing'
    BY <2>1, <2>2 DEF Standing, Go, Scanning
  <2> QED
    BY <2>2, <2>3
<1>8. ASSUME NEW t \in Allocators, extendPool(t)
      PROVE  RetainInv'
  <2> DEFINE p == NewPool
             c == doing[t].c
  <2>1. /\ doing[t].at = "full" /\ Fresh # {}
        /\ szpool' = [szpool EXCEPT ![c].extend = p, ![p].sz = doing[t].sz]
        /\ UNCHANGED <<pools, wired, owners, doing>>
    BY <1>8 DEF extendPool
  <2>2. doing[t].sz \in Nat \ {0} /\ c \in Made
    BY <1>m, <2>1 DEF Standing
  <2>3. p \in Fresh /\ p \in SizePools /\ p \notin Made
    BY <2>1 DEF NewPool, Fresh, Made
  <2>4. \A q \in SizePools : szpool'[q].sz = IF q = p THEN doing[t].sz ELSE szpool[q].sz
    BY <1>m, <2>1, <2>2, <2>3 DEF Heap
  <2>5. Made' = Made \union {p} /\ MadeOrNil' = MadeOrNil \union {p}
    BY <2>1, <2>2, <2>4, MadeGrows
  <2> HIDE DEF p
  <2>6. Heap'
    BY <1>m, <2>1, <2>2, <2>3, <2>5 DEF Heap
  <2>7. Standing' /\ HandedOnce'
    BY <2>1, <2>5 DEF Standing, HandedOnce, OneObjectPerBlock
  <2> QED
    BY <2>6, <2>7
<1>9. ASSUME NEW t \in Allocators, NEW b \in Blocks, free(t, b)
      PROVE  RetainInv'
  <2>1. /\ UNCHANGED <<pools, szpool, doing>> /\ owners[b] = 1
        /\ owners' = [owners EXCEPT ![b] = @ - 1] /\ wired' = wired \ {b}
    BY <1>9 DEF free, HandedOnce, OneObjectPerBlock
  <2>2. Made' = Made /\ MadeOrNil' = MadeOrNil /\ Heap' /\ Standing'
    BY <2>1 DEF Made, MadeOrNil, Fresh, Heap, Standing
  <2>3. HandedOnce'
    BY <2>1, <2>2 DEF HandedOnce, OneObjectPerBlock
  <2> QED
    BY <2>2, <2>3
<1> QED
  BY <1>1, <1>2, <1>3, <1>4, <1>5, <1>6, <1>7, <1>8, <1>9 DEF RetainNext, Alloc

LEMMA RetainInitInv == RetainInit => RetainInv
<1> SUFFICES ASSUME RetainInit PROVE RetainInv
  OBVIOUS
<1>1. Made = {} /\ MadeOrNil = {Nil}
  BY DEF RetainInit, Made, MadeOrNil, Fresh
<1> QED
  BY <1>1, PoolsAssumption
     DEF RetainInit, RetainInv, Standing, Heap, HandedOnce, OneObjectPerBlock, Out

LEMMA RetainInvariance == RetainSpec => []RetainInv
<1>1. RetainInv /\ [RetainNext]_retainVars => RetainInv'
  BY RetainStepInv
<1> QED
  BY <1>1, RetainInitInv, PTL DEF RetainSpec

\* memory::alloc gives no block to two objects, however many threads look for,
\* make, lose and extend size pools at a time, and however large the pools are.
THEOREM BlocksAreNotShared == RetainSpec => []OneObjectPerBlock
<1>1. RetainInv => OneObjectPerBlock
  BY DEF RetainInv, HandedOnce
<1> QED
  BY <1>1, RetainInvariance, PTL

\* The list of size pools keeps its types, and nobody ever follows a link to a
\* size pool that is not made yet: the pool an allocator works in or hunts on
\* from was made (Standing), and so was every one the list leads to (Heap).
THEOREM RetainTypeCorrect == RetainSpec => [](RetainTypeOK /\ Standing /\ Heap)
<1>1. RetainInv => RetainTypeOK /\ Standing /\ Heap
  BY DEF RetainInv, RetainTypeOK, Standing, Heap, HandedOnce, Made, MadeOrNil, Blocks
<1> QED
  BY <1>1, RetainInvariance, PTL

(***************************************************************************)
(* The order of what was logged                                            *)
(***************************************************************************)

\* Where a logger has taken a number for its message and not yet sent it.
Mid == {"locked", "starting", "unlocked", "flush", "flushed", "send"}
Busy(l) == IF lpc[l] \in Mid THEN 1 ELSE 0

\* How many messages of l the log thread was sent.
SentBy(l) == IF lpc[l] = "flush" THEN lidx[l] - 1
             ELSE IF backlog # <<>> THEN 0 ELSE count[l] - Busy(l)

\* s has the messages 1 to n[l] of each logger, each once and after the one before it.
InOrder(s) ==
    \A i \in DOMAIN s :
        /\ \A j \in 1 .. i - 1 : s[j] # s[i]
        /\ s[i][2] > 1 => \E j \in 1 .. i - 1 : s[j] = <<s[i][1], s[i][2] - 1>>
IsIn(s, m) == \E i \in DOMAIN s : s[i] = m

Logged == handled \o logq

LogTypes ==
    /\ backlog \in Seq(Messages) /\ handled \in Seq(Messages)
    /\ logq \in Seq(Messages \union {Die})
    /\ logthread \in {"none", "starting", "up", "dead"} /\ dq \in BOOLEAN
    /\ lpc \in [Loggers -> Mid \union {"idle", "stopping", "stopped"}]
    /\ lidx \in [Loggers -> Nat] /\ count \in [Loggers -> 0 .. MaxLogs]
    /\ due \in [Loggers -> Nat]

\* The main thread is the first to log, and by itself until the kept messages are out.
First ==
    /\ \A l \in Others : lpc[l] \notin {"flush", "flushed", "stopping", "stopped"}
    /\ alone => \A l \in Others : lpc[l] = "idle" /\ count[l] = 0
    /\ ~ alone => daemonized /\ dq = FALSE /\ backlog = <<>> /\ lpc[Main] \notin {"flush", "flushed"}
    /\ ~ daemonized => lpc[Main] \in {"idle", "stopped"}
    /\ alone /\ lpc[Main] \in {"idle", "locked", "stopping", "stopped"} => logthread = "none"
    /\ \A l \in Loggers : lpc[l] \in Mid => count[l] > 0

\* What was kept is what the main thread logged before.
KeptInOrder ==
    /\ backlog # <<>> => alone /\ dq = TRUE /\ lpc[Main] \notin {"flushed", "send"}
    /\ alone /\ lpc[Main] \notin {"flushed", "send"} => Len(backlog) = count[Main] - Busy(Main)
    /\ \A i \in 1 .. Len(backlog) : backlog[i] = <<Main, i>>
    /\ dq = TRUE => backlog # <<>> \/ lpc[Main] = "flushed"
    /\ lpc[Main] = "flush" => backlog # <<>> /\ lidx[Main] \in 1 .. Len(backlog) + 1

SentInOrder ==
    /\ InOrder(Logged)
    /\ \A l \in Loggers : \A n \in Nat \ {0} : IsIn(Logged, <<l, n>>) <=> n <= SentBy(l)

\* "die" comes once, after all that was due when it was sent.
NotStopping == lpc[Main] \notin {"stopping", "stopped"} \/ (lpc[Main] = "stopped" /\ logthread # "dead")
Dies ==
    /\ NotStopping =>
          /\ \A l \in Loggers : due[l] = 0
          /\ ~ IsIn(logq, Die) /\ logthread # "dead"
    /\ logthread = "dead" => \A l \in Loggers : \A n \in 1 .. due[l] : IsIn(handled, <<l, n>>)
    /\ lpc[Main] = "stopping" /\ logthread # "dead" =>
          \E d \in DOMAIN logq :
             /\ logq[d] = Die
             /\ \A l \in Loggers : \A n \in 1 .. due[l] :
                   IsIn(handled, <<l, n>>) \/ \E i \in 1 .. d - 1 : logq[i] = <<l, n>>

LogInv == LogTypes /\ First /\ KeptInOrder /\ SentInOrder /\ Dies

\* "die" is no message.
LEMMA DieIsNone == \A m \in Messages : m # Die /\ m[1] \in Loggers /\ m[2] \in 1 .. MaxLogs
  BY LoggersAssumption DEF Messages, Die, Loggers

\* Something new at the end.
LEMMA OrderAppends ==
    ASSUME NEW M, NEW s \in Seq(M), NEW m \in M, InOrder(s), ~ IsIn(s, m),
           m[2] > 1 => IsIn(s, <<m[1], m[2] - 1>>)
    PROVE  InOrder(Append(s, m)) /\ \A x : IsIn(Append(s, m), x) <=> IsIn(s, x) \/ x = m
<1> DEFINE t == Append(s, m)
<1>1. /\ Len(s) \in Nat /\ DOMAIN s = 1 .. Len(s) /\ DOMAIN t = 1 .. Len(s) + 1
      /\ t[Len(s) + 1] = m /\ \A i \in 1 .. Len(s) : t[i] = s[i]
  BY AppendProperties, LenProperties
<1> HIDE DEF t
<1>2. ASSUME NEW i \in DOMAIN t
      PROVE  /\ \A j \in 1 .. i - 1 : t[j] # t[i]
             /\ t[i][2] > 1 => \E j \in 1 .. i - 1 : t[j] = <<t[i][1], t[i][2] - 1>>
  <2>1. CASE i = Len(s) + 1
    <3>1. i - 1 = Len(s)
      BY <1>1, <2>1
    <3> QED
      BY <1>1, <2>1, <3>1 DEF IsIn
  <2>2. CASE i \in 1 .. Len(s)
    <3>1. \A j \in 1 .. i - 1 : j \in 1 .. Len(s)
      BY <1>1, <2>2
    <3> QED
      BY <1>1, <2>2, <3>1 DEF InOrder
  <2> QED
    BY <1>1, <2>1, <2>2
<1>3. ASSUME NEW x PROVE IsIn(t, x) <=> IsIn(s, x) \/ x = m
  <2>1. \A i \in DOMAIN t : i \in DOMAIN s \/ i = Len(s) + 1
    BY <1>1
  <2>2. DOMAIN s \subseteq DOMAIN t /\ Len(s) + 1 \in DOMAIN t
    BY <1>1
  <2> QED
    BY <1>1, <2>1, <2>2 DEF IsIn
<1> QED
  BY <1>2, <1>3 DEF InOrder, t

\* The queue with one more at its end, with its first one handled, and without it.
LEMMA LoggedMoves ==
    ASSUME NEW M, NEW h \in Seq(M), NEW q \in Seq(M)
    PROVE  /\ h \o q \in Seq(M)
           /\ \A m \in M : h \o Append(q, m) = Append(h \o q, m)
           /\ q # <<>> => Append(h, Head(q)) \o Tail(q) = h \o q
<1>1. h \o q \in Seq(M)
  BY ConcatProperties
<1>2. ASSUME NEW m \in M PROVE h \o Append(q, m) = Append(h \o q, m)
  <2>1. <<m>> \in Seq(M)
    OBVIOUS
  <2>2. Append(q, m) = q \o <<m>> /\ Append(h \o q, m) = (h \o q) \o <<m>>
    BY <1>1, AppendIsConcat
  <2>3. (h \o q) \o <<m>> = h \o (q \o <<m>>)
    BY <2>1, ConcatAssociative
  <2> QED
    BY <2>2, <2>3
<1>3. ASSUME q # <<>> PROVE Append(h, Head(q)) \o Tail(q) = h \o q
  <2> DEFINE e == Head(q)
             t == Tail(q)
  <2>1. e \in M /\ t \in Seq(M) /\ e = q[1] /\ Len(q) \in Nat \ {0}
    BY <1>3, HeadTailProperties, EmptySeq
  <2>2. q = <<e>> \o t
    <3>1. SubSeq(q, 1, Len(q)) = <<q[1]>> \o SubSeq(q, 2, Len(q))
      <4>1. 1 \in 1 .. Len(q) /\ Len(q) \in 1 .. Len(q) /\ 1 + 1 = 2
        BY <2>1
      <4> QED
        BY <4>1, SubSeqRecursiveFirst
    <3>2. SubSeq(q, 1, Len(q)) = q /\ t = SubSeq(q, 2, Len(q))
      BY <1>3, SubSeqFull, TailIsSubSeq
    <3> QED
      BY <2>1, <3>1, <3>2
  <2> HIDE DEF e, t
  <2>3. <<e>> \in Seq(M) /\ Append(h, e) = h \o <<e>>
    BY <2>1, AppendIsConcat
  <2>4. (h \o <<e>>) \o t = h \o (<<e>> \o t)
    BY <2>1, <2>3, ConcatAssociative
  <2> QED
    BY <2>2, <2>3, <2>4 DEF e, t
<1> QED
  BY <1>1, <1>2, <1>3

\* What is in either part is in both together.
LEMMA HasEither ==
    ASSUME NEW M, NEW h \in Seq(M), NEW q \in Seq(M), NEW x
    PROVE  IsIn(h \o q, x) <=> IsIn(h, x) \/ IsIn(q, x)
<1> DEFINE t == h \o q
<1>1. /\ Len(h) \in Nat /\ DOMAIN h = 1 .. Len(h) /\ Len(q) \in Nat /\ DOMAIN q = 1 .. Len(q)
      /\ DOMAIN t = 1 .. Len(h) + Len(q)
      /\ \A i \in 1 .. Len(h) + Len(q) : t[i] = IF i <= Len(h) THEN h[i] ELSE q[i - Len(h)]
  BY ConcatProperties, LenProperties
<1> HIDE DEF t
<1>2. \A i \in DOMAIN h : i \in DOMAIN t /\ t[i] = h[i]
  BY <1>1
<1>3. \A i \in DOMAIN q : i + Len(h) \in DOMAIN t /\ t[i + Len(h)] = q[i]
  BY <1>1
<1>4. \A i \in DOMAIN t : (i \in DOMAIN h /\ t[i] = h[i])
                          \/ (i - Len(h) \in DOMAIN q /\ t[i] = q[i - Len(h)])
  BY <1>1
<1>5. IsIn(t, x) <=> IsIn(h, x) \/ IsIn(q, x)
  BY <1>2, <1>3, <1>4 DEF IsIn
<1> QED
  BY <1>5 DEF t

\* The order stands when the first of the queue is taken away that nobody follows.
LEMMA OrderWithout ==
    ASSUME NEW M, NEW h \in Seq(M), NEW q \in Seq(M), q # <<>>, InOrder(h \o q),
           \A m \in M : <<m[1], m[2] - 1>> = Head(q) => ~ (m[2] > 1)
    PROVE  InOrder(h \o Tail(q)) /\ ~ IsIn(Tail(q), Head(q))
<1> DEFINE s == h \o q
           t == h \o Tail(q)
           k == Len(h) + 1
<1>1. /\ Len(h) \in Nat /\ Len(q) \in Nat \ {0} /\ Tail(q) \in Seq(M) /\ Len(Tail(q)) = Len(q) - 1
      /\ Head(q) = q[1] /\ \A i \in 1 .. Len(q) - 1 : Tail(q)[i] = q[i + 1]
  BY LenProperties, EmptySeq, HeadTailProperties
<1>2. /\ s \in Seq(M) /\ DOMAIN s = 1 .. Len(h) + Len(q)
      /\ \A i \in 1 .. Len(h) + Len(q) : s[i] = IF i <= Len(h) THEN h[i] ELSE q[i - Len(h)]
  BY ConcatProperties, LenProperties
<1>3. /\ t \in Seq(M) /\ DOMAIN t = 1 .. Len(h) + (Len(q) - 1)
      /\ \A i \in 1 .. Len(h) + (Len(q) - 1) : t[i] = IF i <= Len(h) THEN h[i] ELSE Tail(q)[i - Len(h)]
  BY <1>1, ConcatProperties, LenProperties
<1>a. InOrder(s)
  OBVIOUS
<1> HIDE DEF s, t
<1>4. k \in DOMAIN s /\ s[k] = Head(q)
  BY <1>1, <1>2
<1> DEFINE at(i) == IF i < k THEN i ELSE i + 1
<1>5. ASSUME NEW i \in DOMAIN t PROVE at(i) \in DOMAIN s /\ t[i] = s[at(i)] /\ at(i) # k /\ i \in Nat
  <2>1. CASE i < k
    <3>1. i \in 1 .. Len(h) /\ i \in 1 .. Len(h) + (Len(q) - 1) /\ i \in 1 .. Len(h) + Len(q)
      BY <1>1, <1>3, <2>1
    <3>2. t[i] = h[i] /\ s[i] = h[i]
      BY ONLY <1>2, <1>3, <3>1, <1>1
    <3> QED
      BY <1>2, <2>1, <3>1, <3>2
  <2>2. CASE ~ (i < k)
    <3>1. i - Len(h) \in 1 .. Len(q) - 1 /\ (i + 1) - Len(h) = (i - Len(h)) + 1
          /\ ~ (i <= Len(h)) /\ ~ (i + 1 <= Len(h)) /\ i + 1 \in 1 .. Len(h) + Len(q)
      BY <1>1, <1>3, <2>2
    <3>2. t[i] = q[(i - Len(h)) + 1] /\ s[i + 1] = q[(i + 1) - Len(h)]
      BY <1>1, <1>2, <1>3, <3>1
    <3>3. at(i) = i + 1 /\ i + 1 # k /\ i \in Nat
      BY <1>1, <1>3, <2>2
    <3>4. i + 1 \in DOMAIN s
      BY <1>2, <3>1
    <3> HIDE DEF at, k
    <3> QED
      BY <3>1, <3>2, <3>3, <3>4
  <2> QED
    BY <2>1, <2>2
<1>6. \A i, j \in DOMAIN t : j < i <=> at(j) < at(i)
  BY <1>1, <1>3
<1>7. ASSUME NEW n \in DOMAIN s, n # k PROVE \E i \in DOMAIN t : at(i) = n
  <2>1. CASE n < k
    BY <1>1, <1>2, <1>3, <2>1
  <2>2. CASE n > k
    <3>1. n - 1 \in DOMAIN t /\ at(n - 1) = n
      BY <1>1, <1>2, <1>3, <2>2
    <3> QED
      BY <3>1
  <2> QED
    BY <1>1, <1>2, <1>7, <2>1, <2>2
<1>0. \A i \in DOMAIN s : \A j \in DOMAIN s : j \in 1 .. i - 1 <=> j < i
  BY <1>1, <1>2
<1>00. \A i \in DOMAIN t : \A j : j \in 1 .. i - 1 <=> j \in DOMAIN t /\ j < i
  BY <1>1, <1>3
<1> HIDE DEF at, k
<1>8. ASSUME NEW i \in DOMAIN t
      PROVE  /\ \A j \in 1 .. i - 1 : t[j] # t[i]
             /\ t[i][2] > 1 => \E j \in 1 .. i - 1 : t[j] = <<t[i][1], t[i][2] - 1>>
  <2>1. \A j \in 1 .. i - 1 : t[j] # t[i]
    BY <1>a, <1>0, <1>00, <1>2, <1>5, <1>6 DEF InOrder
  <2>2. ASSUME t[i][2] > 1 PROVE \E j \in 1 .. i - 1 : t[j] = <<t[i][1], t[i][2] - 1>>
    <3>1. PICK n \in 1 .. at(i) - 1 : s[n] = <<t[i][1], t[i][2] - 1>>
      <4> DEFINE p == at(i)
      <4>1. p \in DOMAIN s /\ s[p] = t[i]
        BY <1>5
      <4> HIDE DEF p
      <4>2. s[p][2] > 1 => \E j \in 1 .. p - 1 : s[j] = <<s[p][1], s[p][2] - 1>>
        BY <1>a, <4>1 DEF InOrder
      <4> QED
        BY <2>2, <4>1, <4>2 DEF p
    <3>2. n \in DOMAIN s /\ n < at(i)
      BY <1>2, <1>5, <3>1
    <3>3. t[i] \in M
      BY <1>3, ElementOfSeq, LenProperties
    <3>4. n # k
      BY <1>4, <2>2, <3>1, <3>3
    <3>5. PICK j \in DOMAIN t : at(j) = n
      BY <1>7, <3>2, <3>4
    <3> QED
      BY <1>00, <1>5, <1>6, <3>1, <3>2, <3>5
  <2> QED
    BY <2>1, <2>2
<1>9. ~ IsIn(Tail(q), Head(q))
  <2> SUFFICES ASSUME NEW i \in DOMAIN Tail(q), Tail(q)[i] = Head(q) PROVE FALSE
    BY DEF IsIn
  <2>1. i \in 1 .. Len(q) - 1
    BY <1>1, LenProperties
  <2>2. Len(h) + (i + 1) \in DOMAIN s /\ s[Len(h) + (i + 1)] = s[k] /\ k \in 1 .. (Len(h) + (i + 1)) - 1
    BY <1>1, <1>2, <1>4, <2>1 DEF k
  <2> QED
    BY <2>2 DEF InOrder, s
<1> QED
  BY <1>8, <1>9 DEF InOrder, t

-----------------------------------------------------------------------------
(* The steps.                                                              *)

\* A message or "die" is sent to the log thread.
LEMMA Sends ==
    ASSUME LogTypes, SentInOrder, NEW m \in Messages \union {Die},
           handled' = handled, logq' = Append(logq, m),
           ~ IsIn(Logged, m), m[2] > 1 => IsIn(Logged, <<m[1], m[2] - 1>>)
    PROVE  InOrder(Logged') /\ \A x : IsIn(Logged', x) <=> IsIn(Logged, x) \/ x = m
<1> DEFINE M == Messages \union {Die}
           h == handled
           q == logq
<1>1. h \in Seq(M) /\ q \in Seq(M) /\ m \in M
  BY SeqMonotonic DEF LogTypes
<1> HIDE DEF M
<1>2. Logged' = Append(h \o q, m) /\ h \o q \in Seq(M)
  BY <1>1, LoggedMoves DEF Logged
<1>3. InOrder(h \o q) /\ ~ IsIn(h \o q, m) /\ (m[2] > 1 => IsIn(h \o q, <<m[1], m[2] - 1>>))
  BY DEF Logged, SentInOrder
<1> DEFINE s == h \o q
<1> HIDE DEF s
<1>4. InOrder(Append(s, m)) /\ \A x : IsIn(Append(s, m), x) <=> IsIn(s, x) \/ x = m
  BY <1>1, <1>2, <1>3, OrderAppends DEF s
<1> QED
  BY <1>2, <1>4 DEF s, Logged

\* ... and it is the next of its logger.
LEMMA SendsNext ==
    ASSUME LogInv, NEW k \in Loggers, NEW n \in 1 .. MaxLogs, SentBy(k) = n - 1,
           handled' = handled, logq' = Append(logq, <<k, n>>),
           \A l \in Loggers : SentBy(l)' = IF l = k THEN n ELSE SentBy(l),
           UNCHANGED <<logthread, due>>, lpc'[Main] = lpc[Main] \/ (NotStopping /\ NotStopping')
    PROVE  SentInOrder' /\ Dies' /\ logq' \in Seq(Messages \union {Die})
<1> DEFINE m == <<k, n>>
<1>0. SentBy(k) = n - 1 /\ n \in Nat \ {0}
  BY SizesAssumption
<1>1. m \in Messages /\ m # Die /\ m[1] = k /\ m[2] = n
  BY <1>0, DieIsNone DEF Messages
<1>2. ~ IsIn(Logged, m) /\ (n > 1 => IsIn(Logged, <<k, n - 1>>))
  BY <1>0 DEF LogInv, SentInOrder
<1>3. InOrder(Logged') /\ \A x : IsIn(Logged', x) <=> IsIn(Logged, x) \/ x = m
  <2>1. m \in Messages \union {Die} /\ logq' = Append(logq, m)
        /\ (m[2] > 1 => IsIn(Logged, <<m[1], m[2] - 1>>))
    BY <1>1, <1>2
  <2> HIDE DEF m
  <2> QED
    BY <1>2, <2>1, Sends DEF LogInv
<1>4. SentInOrder'
  <2>1. ASSUME NEW l \in Loggers, NEW j \in Nat \ {0}
        PROVE  IsIn(Logged', <<l, j>>) <=> j <= SentBy(l)'
    <3>1. IsIn(Logged, <<l, j>>) <=> j <= SentBy(l)
      BY DEF LogInv, SentInOrder
    <3>2. <<l, j>> = m <=> l = k /\ j = n
      OBVIOUS
    <3> HIDE DEF m
    <3> QED
      BY <1>0, <1>3, <3>1, <3>2
  <2> QED
    BY <1>3, <2>1 DEF SentInOrder
<1>5. /\ logq' \in Seq(Messages \union {Die}) /\ DOMAIN logq = 1 .. Len(logq) /\ Len(logq) \in Nat
      /\ DOMAIN logq' = 1 .. Len(logq) + 1 /\ \A i \in 1 .. Len(logq) : logq'[i] = logq[i]
      /\ logq'[Len(logq) + 1] = m
  <2>1. logq \in Seq(Messages \union {Die}) /\ m \in Messages \union {Die} /\ logq' = Append(logq, m)
    BY <1>1 DEF LogInv, LogTypes
  <2> HIDE DEF m
  <2>2. /\ logq' \in Seq(Messages \union {Die}) /\ Len(logq') = Len(logq) + 1
        /\ \A i \in 1 .. Len(logq) : logq'[i] = logq[i]
        /\ logq'[Len(logq) + 1] = m
    <3> DEFINE M == Messages \union {Die}
               q == logq
               r == logq'
    <3>1. q \in Seq(M) /\ m \in M /\ r = Append(q, m)
      BY <2>1
    <3> HIDE DEF M, q, r
    <3>2. r \in Seq(M) /\ Len(r) = Len(q) + 1 /\ (\A i \in 1 .. Len(q) : r[i] = q[i])
          /\ r[Len(q) + 1] = m
      BY <3>1, AppendProperties
    <3> QED
      BY <3>2 DEF M, q, r
  <2>3. Len(logq) \in Nat /\ DOMAIN logq = 1 .. Len(logq) /\ DOMAIN logq' = 1 .. Len(logq')
    BY <2>1, <2>2, LenProperties
  <2> QED
    BY <2>2, <2>3
<1> HIDE DEF m
<1>6. IsIn(logq', Die) => IsIn(logq, Die)
  BY <1>1, <1>5 DEF IsIn
<1>7. \A d \in DOMAIN logq : d \in DOMAIN logq' /\ logq'[d] = logq[d]
                             /\ \A i \in 1 .. d - 1 : logq'[i] = logq[i]
  BY <1>5
<1>8. Dies'
  <2>1. Dies
    BY DEF LogInv
  <2>2. CASE lpc'[Main] = lpc[Main]
    <3>1. (NotStopping' <=> NotStopping) /\ (lpc'[Main] = "stopping" <=> lpc[Main] = "stopping")
      BY <2>2 DEF NotStopping
    <3>2. ASSUME NEW d \in DOMAIN logq, logq[d] = Die,
                 \A l \in Loggers : \A j \in 1 .. due[l] :
                   IsIn(handled, <<l, j>>) \/ \E i \in 1 .. d - 1 : logq[i] = <<l, j>>
          PROVE  \E e \in DOMAIN logq' :
                   /\ logq'[e] = Die
                   /\ \A l \in Loggers : \A j \in 1 .. due'[l] :
                        IsIn(handled', <<l, j>>) \/ \E i \in 1 .. e - 1 : logq'[i] = <<l, j>>
      <4>1. d \in DOMAIN logq' /\ logq'[d] = Die /\ \A i \in 1 .. d - 1 : logq'[i] = logq[i]
        BY ONLY <1>7, d \in DOMAIN logq, logq[d] = Die
      <4>2. handled' = handled /\ due' = due
        OBVIOUS
      <4>3. \A l \in Loggers : \A j \in 1 .. due'[l] :
              IsIn(handled', <<l, j>>) \/ \E i \in 1 .. d - 1 : logq'[i] = <<l, j>>
        BY ONLY <3>2, <4>1, <4>2
      <4> QED
        BY ONLY <4>1, <4>3
    <3> QED
      BY <1>6, <2>1, <3>1, <3>2 DEF Dies
  <2>3. CASE NotStopping /\ NotStopping'
    BY <1>6, <2>1, <2>3 DEF Dies, NotStopping
  <2> QED
    BY <2>2, <2>3
<1> QED
  BY <1>4, <1>5, <1>8

\* Nothing is sent or written.
LEMMA NothingSent ==
    ASSUME LogInv, UNCHANGED <<logq, handled, due>>, logthread' = "dead" <=> logthread = "dead",
           lpc'[Main] = lpc[Main] \/ (NotStopping /\ NotStopping'),
           \A l \in Loggers : SentBy(l)' = SentBy(l)
    PROVE  SentInOrder' /\ Dies'
  BY DEF LogInv, SentInOrder, Logged, Dies, NotStopping

LEMMA LogStepInv ==
    ASSUME Early = {}, LogInv, [LogNext]_logVars
    PROVE  LogInv'
<1>t. LogTypes /\ First /\ KeptInOrder /\ SentInOrder /\ Dies
  BY DEF LogInv
<1>m. Main \in Loggers /\ Main \notin Others /\ \A l \in Loggers : l # Main => l \in Others
  BY LoggersAssumption DEF Loggers
<1>b. backlog \in Seq(Messages) /\ Len(backlog) \in Nat /\ (backlog = <<>> <=> Len(backlog) = 0)
  BY <1>t, LenProperties, EmptySeq DEF LogTypes
<1>c. \A l \in Loggers : count[l] \in Nat /\ count[l] <= MaxLogs /\ lidx[l] \in Nat
                         /\ (lpc[l] \in Mid => count[l] > 0)
  BY <1>t, SizesAssumption DEF LogTypes, First
<1>1. CASE UNCHANGED logVars
  <2>1. \A l \in Loggers : SentBy(l)' = SentBy(l)
    BY <1>1 DEF SentBy, Busy, logVars, kept, callers, writing
  <2>2. SentInOrder' /\ Dies'
    BY <1>1, <2>1, NothingSent DEF logVars, kept, callers, writing
  <2>3. LogTypes' /\ First' /\ KeptInOrder'
    BY <1>t, <1>1 DEF logVars, kept, callers, writing, LogTypes, First, KeptInOrder, Busy
  <2> QED
    BY <2>2, <2>3 DEF LogInv
<1>2. CASE logEarly
  <2>1. /\ ~ daemonized /\ lpc[Main] = "idle" /\ count[Main] < MaxLogs
        /\ backlog' = Append(backlog, <<Main, count[Main] + 1>>) /\ dq' = TRUE
        /\ count' = [count EXCEPT ![Main] = @ + 1]
        /\ UNCHANGED <<daemonized, alone, logq, handled, logthread, lpc, lidx, due>>
    BY <1>2 DEF logEarly, Keep, writing
  <2>2. alone /\ \A l \in Others : lpc[l] = "idle" /\ count[l] = 0
    BY <1>t, <2>1 DEF First
  <2>3. Len(backlog) = count[Main]
    BY <1>t, <1>c, <1>m, <2>1, <2>2 DEF KeptInOrder, Busy, Mid
  <2>4. /\ backlog' \in Seq(Messages) /\ backlog' # <<>> /\ Len(backlog') = Len(backlog) + 1
        /\ \A i \in 1 .. Len(backlog) : backlog'[i] = backlog[i]
        /\ backlog'[Len(backlog) + 1] = <<Main, count[Main] + 1>>
    <3> DEFINE m == <<Main, count[Main] + 1>>
    <3>1. m \in Messages
      BY <1>c, <1>m, <2>1, SizesAssumption DEF Messages
    <3> HIDE DEF m
    <3>2. backlog' = Append(backlog, m)
      BY <2>1 DEF m
    <3>3. /\ Append(backlog, m) \in Seq(Messages) /\ Append(backlog, m) # <<>>
          /\ Len(Append(backlog, m)) = Len(backlog) + 1
          /\ \A i \in 1 .. Len(backlog) : Append(backlog, m)[i] = backlog[i]
          /\ Append(backlog, m)[Len(backlog) + 1] = m
      BY <1>b, <3>1, AppendProperties
    <3> QED
      BY <3>2, <3>3 DEF m
  <2>5. /\ count' \in [Loggers -> 0 .. MaxLogs] /\ count'[Main] = count[Main] + 1
        /\ \A l \in Others : count'[l] = count[l]
    BY <1>t, <1>c, <1>m, <2>1, SizesAssumption DEF LogTypes, Loggers
  <2>6. \A l \in Loggers : SentBy(l)' = SentBy(l)
    BY <1>b, <1>c, <1>m, <2>1, <2>2, <2>3, <2>4, <2>5 DEF SentBy, Busy, Mid
  <2>7. SentInOrder' /\ Dies'
    BY <2>1, <2>6, NothingSent
  <2>8. LogTypes'
    BY <1>t, <2>1, <2>4, <2>5 DEF LogTypes
  <2>9. First'
    BY <1>t, <1>m, <2>1, <2>2, <2>5 DEF First, Mid
  <2>10. KeptInOrder'
    <3>1. \A i \in 1 .. Len(backlog') : i \in 1 .. Len(backlog) \/ i = Len(backlog) + 1
      BY <1>b, <2>4
    <3> QED
      BY <1>t, <1>b, <2>1, <2>2, <2>3, <2>4, <2>5, <3>1 DEF KeptInOrder, Busy, Mid
  <2> QED
    BY <2>7, <2>8, <2>9, <2>10 DEF LogInv
<1>3. CASE daemonize
  <2>1. daemonized' = TRUE /\ lpc[Main] = "idle"
        /\ UNCHANGED <<alone, backlog, dq, logq, handled, logthread, lpc, lidx, count, due>>
    BY <1>3 DEF daemonize, kept, callers, writing
  <2>2. \A l \in Loggers : SentBy(l)' = SentBy(l)
    BY <2>1 DEF SentBy, Busy
  <2>3. SentInOrder' /\ Dies'
    BY <2>1, <2>2, NothingSent
  <2>4. LogTypes' /\ First' /\ KeptInOrder'
    BY <1>t, <2>1 DEF LogTypes, First, KeptInOrder, Busy
  <2> QED
    BY <2>3, <2>4 DEF LogInv
<1>4. ASSUME NEW l \in Loggers, logLock(l) PROVE LogInv'
  <2>1. /\ daemonized /\ count[l] < MaxLogs /\ lpc[l] = "idle"
        /\ lpc' = [lpc EXCEPT ![l] = "locked"] /\ count' = [count EXCEPT ![l] = @ + 1]
        /\ UNCHANGED <<daemonized, alone, backlog, dq, logq, handled, logthread, lidx, due>>
        /\ l \in Others => ~ alone
    BY <1>4 DEF logLock, At, kept, writing
  <2>2. /\ lpc'[l] = "locked" /\ count'[l] = count[l] + 1
        /\ \A k \in Loggers : k # l => lpc'[k] = lpc[k] /\ count'[k] = count[k]
    BY <1>t, <2>1 DEF LogTypes
  <2>3. \A k \in Loggers : SentBy(k)' = SentBy(k)
    BY <1>c, <2>1, <2>2 DEF SentBy, Busy, Mid
  <2>4. lpc'[Main] = lpc[Main] \/ (NotStopping /\ NotStopping')
    BY <1>m, <2>1, <2>2 DEF NotStopping
  <2>5. SentInOrder' /\ Dies'
    BY <2>1, <2>3, <2>4, NothingSent
  <2>6. LogTypes'
    BY <1>t, <1>c, <2>1, SizesAssumption DEF LogTypes, Mid
  <2>7. First'
    BY <1>t, <1>c, <1>m, <2>1, <2>2 DEF First, Mid
  <2>8. KeptInOrder'
    BY <1>t, <1>b, <1>c, <1>m, <2>1, <2>2 DEF KeptInOrder, First, Busy, Mid
  <2> QED
    BY <2>5, <2>6, <2>7, <2>8 DEF LogInv

\* A logger goes on, or is done.
<1>g. ASSUME NEW l \in Loggers, NEW place \in Mid \union {"idle"}, lpc[l] \in Mid,
             lpc' = [lpc EXCEPT ![l] = place], logthread' = "dead" <=> logthread = "dead"
      PROVE  /\ lpc' \in [Loggers -> Mid \union {"idle", "stopping", "stopped"}] /\ lpc'[l] = place
             /\ \A k \in Loggers : k # l => lpc'[k] = lpc[k]
             /\ lpc'[Main] = lpc[Main] \/ (NotStopping /\ NotStopping')
  BY <1>t, <1>m, <1>g DEF LogTypes, NotStopping, Mid
<1>5. ASSUME NEW l \in Loggers, logStart(l) \/ logUnlock(l) PROVE LogInv'
  <2>1. /\ lpc[l] \in {"locked", "starting"}
        /\ \/ lpc' = [lpc EXCEPT ![l] = "starting"] /\ logthread' = "starting" /\ logthread = "none"
           \/ lpc' = [lpc EXCEPT ![l] = "unlocked"] /\ logthread' = logthread
        /\ UNCHANGED <<daemonized, alone, backlog, dq, logq, handled, lidx, count, due>>
    BY <1>5 DEF logStart, logUnlock, At, kept, writing
  <2>2. PICK place \in {"starting", "unlocked"} :
          lpc' = [lpc EXCEPT ![l] = place] /\ lpc[l] \in Mid /\ place \in Mid
    BY <2>1 DEF Mid
  <2>3. /\ lpc' \in [Loggers -> Mid \union {"idle", "stopping", "stopped"}] /\ lpc'[l] = place
        /\ \A k \in Loggers : k # l => lpc'[k] = lpc[k]
        /\ lpc'[Main] = lpc[Main] \/ (NotStopping /\ NotStopping')
    BY <1>g, <2>1, <2>2
  <2>4. \A k \in Loggers : SentBy(k)' = SentBy(k)
    BY <2>1, <2>2, <2>3 DEF SentBy, Busy, Mid
  <2>5. SentInOrder' /\ Dies'
    BY <2>1, <2>3, <2>4, NothingSent
  <2>6. LogTypes'
    BY <1>t, <2>1, <2>3 DEF LogTypes
  <2>7. First'
    BY <1>t, <1>c, <1>m, <2>1, <2>2, <2>3 DEF First, Mid
  <2>8. KeptInOrder'
    BY <1>t, <1>b, <1>m, <2>1, <2>2, <2>3 DEF KeptInOrder, Busy, Mid
  <2> QED
    BY <2>5, <2>6, <2>7, <2>8 DEF LogInv
<1>6. ASSUME NEW l \in Loggers, logLook(l) PROVE LogInv'
  <2> DEFINE place == IF dq THEN "flush" ELSE "send"
  <2>1. /\ lpc[l] = "unlocked" /\ lpc' = [lpc EXCEPT ![l] = place] /\ place \in {"flush", "send"}
        /\ lidx' = [lidx EXCEPT ![l] = 1]
        /\ UNCHANGED <<daemonized, alone, backlog, dq, logq, handled, logthread, count, due>>
    BY <1>6 DEF logLook, At, kept, writing
  <2>2. place = "flush" <=> dq = TRUE
    BY <1>t, <2>1 DEF First, KeptInOrder
  <2> HIDE DEF place
  <2>3. /\ lpc' \in [Loggers -> Mid \union {"idle", "stopping", "stopped"}] /\ lpc'[l] = place
        /\ \A k \in Loggers : k # l => lpc'[k] = lpc[k]
        /\ lpc'[Main] = lpc[Main] \/ (NotStopping /\ NotStopping')
    BY <1>g, <2>1 DEF Mid
  <2>4. /\ lidx' \in [Loggers -> Nat] /\ lidx'[l] = 1
        /\ \A k \in Loggers : k # l => lidx'[k] = lidx[k]
    BY <1>t, <2>1 DEF LogTypes
  <2>5. /\ place = "flush" => l = Main /\ alone /\ backlog # <<>>
        /\ place # "flush" => backlog = <<>>
    <3>1. l \in Others => ~ alone
      BY <1>t, <2>1 DEF First
    <3>2. ~ alone => dq = FALSE /\ backlog = <<>>
      BY <1>t DEF First
    <3>3. dq = TRUE /\ l = Main => backlog # <<>>
      BY <1>t, <2>1 DEF KeptInOrder
    <3>4. backlog # <<>> => dq = TRUE
      BY <1>t DEF KeptInOrder
    <3> QED
      BY <1>m, <2>2, <3>1, <3>2, <3>3, <3>4
  <2>6. \A k \in Loggers : SentBy(k)' = SentBy(k)
    BY <1>c, <2>1, <2>3, <2>4, <2>5 DEF SentBy, Busy, Mid
  <2>7. SentInOrder' /\ Dies'
    BY <2>1, <2>3, <2>6, NothingSent
  <2>8. LogTypes'
    BY <1>t, <2>1, <2>3, <2>4 DEF LogTypes
  <2>9. First'
    BY <1>t, <1>c, <1>m, <2>1, <2>3, <2>5 DEF First, Mid
  <2>10. KeptInOrder'
    BY <1>t, <1>b, <1>m, <2>1, <2>2, <2>3, <2>4, <2>5 DEF KeptInOrder, Busy, Mid
  <2> QED
    BY <2>7, <2>8, <2>9, <2>10 DEF LogInv
<1>7. ASSUME NEW l \in Loggers, logFlush(l) PROVE LogInv'
  <2>1. /\ lpc[l] = "flush" /\ lidx[l] <= Len(backlog)
        /\ logq' = Append(logq, backlog[lidx[l]]) /\ lidx' = [lidx EXCEPT ![l] = @ + 1]
        /\ UNCHANGED <<daemonized, alone, backlog, dq, logthread, handled, lpc, count, due>>
    BY <1>7 DEF logFlush, kept
  <2>2. l = Main /\ backlog # <<>> /\ lidx[Main] \in 1 .. Len(backlog) + 1 /\ alone
        /\ Len(backlog) = count[Main] - 1
    BY <1>t, <1>m, <2>1 DEF First, KeptInOrder, Busy, Mid
  <2>3. /\ lidx' \in [Loggers -> Nat] /\ lidx'[l] = lidx[l] + 1
        /\ \A k \in Loggers : k # l => lidx'[k] = lidx[k]
    BY <1>t, <1>c, <2>1 DEF LogTypes
  <2>4. lidx[l] \in 1 .. MaxLogs /\ SentBy(l) = lidx[l] - 1 /\ backlog[lidx[l]] = <<l, lidx[l]>>
    BY <1>t, <1>b, <1>c, <2>1, <2>2, SizesAssumption DEF KeptInOrder, SentBy
  <2>5. \A k \in Loggers : SentBy(k)' = IF k = l THEN lidx[l] ELSE SentBy(k)
    BY <1>c, <2>1, <2>3 DEF SentBy, Busy
  <2>6. SentInOrder' /\ Dies' /\ logq' \in Seq(Messages \union {Die})
    <3> DEFINE n == lidx[l]
    <3>1. n \in 1 .. MaxLogs /\ SentBy(l) = n - 1 /\ logq' = Append(logq, <<l, n>>)
          /\ \A k \in Loggers : SentBy(k)' = IF k = l THEN n ELSE SentBy(k)
      BY <2>1, <2>4, <2>5
    <3>2. lpc'[Main] = lpc[Main] /\ UNCHANGED <<handled, logthread, due>>
      BY <2>1
    <3> HIDE DEF n
    <3> QED
      BY <3>1, <3>2, SendsNext
  <2>7. LogTypes'
    BY <1>t, <2>1, <2>3, <2>6 DEF LogTypes
  <2>8. First'
    BY <1>t, <2>1 DEF First
  <2>9. KeptInOrder'
    BY <1>t, <1>b, <2>1, <2>2, <2>3 DEF KeptInOrder, Busy
  <2> QED
    BY <2>6, <2>7, <2>8, <2>9 DEF LogInv
<1>8. ASSUME NEW l \in Loggers, logFlushed(l) PROVE LogInv'
  <2>1. /\ lpc[l] = "flush" /\ lidx[l] > Len(backlog) /\ lpc' = [lpc EXCEPT ![l] = "flushed"]
        /\ backlog' = <<>>
        /\ UNCHANGED <<daemonized, alone, dq, logq, handled, logthread, lidx, count, due>>
    BY <1>8 DEF logFlushed, At, writing
  <2>2. l = Main /\ backlog # <<>> /\ lidx[Main] = Len(backlog) + 1 /\ alone /\ dq = TRUE
        /\ Len(backlog) = count[Main] - 1
    BY <1>t, <1>b, <1>c, <1>m, <2>1 DEF First, KeptInOrder, Busy, Mid
  <2>3. /\ lpc' \in [Loggers -> Mid \union {"idle", "stopping", "stopped"}] /\ lpc'[l] = "flushed"
        /\ \A k \in Loggers : k # l => lpc'[k] = lpc[k]
        /\ lpc'[Main] = lpc[Main] \/ (NotStopping /\ NotStopping')
    BY <1>g, <2>1 DEF Mid
  <2>4. \A k \in Loggers : SentBy(k)' = SentBy(k)
    BY <1>t, <1>b, <1>c, <1>m, <2>1, <2>2, <2>3 DEF SentBy, Busy, Mid, First
  <2>5. SentInOrder' /\ Dies'
    BY <2>1, <2>3, <2>4, NothingSent
  <2>6. LogTypes'
    BY <1>t, <2>1, <2>3 DEF LogTypes
  <2>7. First'
    BY <1>t, <1>m, <2>1, <2>2, <2>3 DEF First, Mid
  <2>8. KeptInOrder'
    BY <1>t, <2>1, <2>2, <2>3 DEF KeptInOrder, Busy, Mid
  <2> QED
    BY <2>5, <2>6, <2>7, <2>8 DEF LogInv
<1>9. ASSUME NEW l \in Loggers, logForget(l) PROVE LogInv'
  <2>1. /\ lpc[l] = "flushed" /\ lpc' = [lpc EXCEPT ![l] = "send"] /\ dq' = FALSE
        /\ UNCHANGED <<daemonized, alone, backlog, logq, handled, logthread, lidx, count, due>>
    BY <1>9 DEF logForget, At, writing
  <2>2. l = Main /\ alone /\ backlog = <<>>
    BY <1>t, <1>m, <2>1 DEF First, KeptInOrder
  <2>3. /\ lpc' \in [Loggers -> Mid \union {"idle", "stopping", "stopped"}] /\ lpc'[l] = "send"
        /\ \A k \in Loggers : k # l => lpc'[k] = lpc[k]
        /\ lpc'[Main] = lpc[Main] \/ (NotStopping /\ NotStopping')
    BY <1>g, <2>1 DEF Mid
  <2>4. \A k \in Loggers : SentBy(k)' = SentBy(k)
    BY <2>1, <2>3 DEF SentBy, Busy, Mid
  <2>5. SentInOrder' /\ Dies'
    BY <2>1, <2>3, <2>4, NothingSent
  <2>6. LogTypes'
    BY <1>t, <2>1, <2>3 DEF LogTypes
  <2>7. First'
    BY <1>t, <1>c, <1>m, <2>1, <2>2, <2>3 DEF First, Mid
  <2>8. KeptInOrder'
    BY <1>t, <2>1, <2>2, <2>3 DEF KeptInOrder
  <2> QED
    BY <2>5, <2>6, <2>7, <2>8 DEF LogInv
<1>10. ASSUME NEW l \in Loggers, logSend(l) PROVE LogInv'
  <2>1. /\ lpc[l] = "send" /\ lpc' = [lpc EXCEPT ![l] = "idle"]
        /\ logq' = Append(logq, <<l, count[l]>>) /\ alone' = (alone /\ l # Main)
        /\ UNCHANGED <<daemonized, backlog, dq, logthread, handled, lidx, count, due>>
    BY <1>10 DEF logSend, At, kept
  <2>2. /\ l # Main => ~ alone
        /\ l = Main => daemonized /\ dq = FALSE
        /\ backlog = <<>>
    <3>1. l # Main => ~ alone
      BY <1>t, <1>m, <2>1 DEF First
    <3>2. backlog = <<>>
      BY <1>t, <2>1, <3>1 DEF First, KeptInOrder
    <3>3. l = Main => daemonized
      BY <1>t, <2>1 DEF First
    <3>4. l = Main => dq # TRUE
      BY <1>t, <2>1, <3>2 DEF KeptInOrder
    <3>5. dq \in BOOLEAN
      BY <1>t DEF LogTypes
    <3> QED
      BY <3>1, <3>2, <3>3, <3>4, <3>5
  <2>3. /\ lpc' \in [Loggers -> Mid \union {"idle", "stopping", "stopped"}] /\ lpc'[l] = "idle"
        /\ \A k \in Loggers : k # l => lpc'[k] = lpc[k]
        /\ lpc'[Main] = lpc[Main] \/ (NotStopping /\ NotStopping')
    BY <1>g, <2>1 DEF Mid
  <2>4. count[l] \in 1 .. MaxLogs /\ SentBy(l) = count[l] - 1
    BY <1>c, <2>1, <2>2, SizesAssumption DEF SentBy, Busy, Mid
  <2>5. \A k \in Loggers : SentBy(k)' = IF k = l THEN count[l] ELSE SentBy(k)
    BY <1>c, <2>1, <2>2, <2>3 DEF SentBy, Busy, Mid
  <2>6. SentInOrder' /\ Dies' /\ logq' \in Seq(Messages \union {Die})
    <3> DEFINE n == count[l]
    <3>1. n \in 1 .. MaxLogs /\ SentBy(l) = n - 1 /\ logq' = Append(logq, <<l, n>>)
          /\ \A k \in Loggers : SentBy(k)' = IF k = l THEN n ELSE SentBy(k)
      BY <2>1, <2>4, <2>5
    <3>2. UNCHANGED <<handled, logthread, due>>
      BY <2>1
    <3> HIDE DEF n
    <3> QED
      BY <2>3, <3>1, <3>2, SendsNext
  <2>7. LogTypes'
    BY <1>t, <2>1, <2>3, <2>6 DEF LogTypes
  <2>8. First'
    <3>1. ~ alone' /\ daemonized' /\ dq' = FALSE /\ backlog' = <<>>
      BY <1>t, <2>1, <2>2 DEF First
    <3>2. lpc'[Main] \notin {"flush", "flushed"}
      BY <1>t, <1>m, <2>1, <2>2, <2>3 DEF First
    <3>3. \A k \in Others : lpc'[k] \notin {"flush", "flushed", "stopping", "stopped"}
      BY <1>t, <1>m, <2>3 DEF First, Loggers
    <3>4. \A k \in Loggers : lpc'[k] \in Mid => count'[k] > 0
      BY <1>t, <2>1, <2>3 DEF First, Mid
    <3> QED
      BY <3>1, <3>2, <3>3, <3>4 DEF First
  <2>9. KeptInOrder'
    BY <1>t, <1>b, <1>m, <2>1, <2>2, <2>3 DEF KeptInOrder
  <2> QED
    BY <2>6, <2>7, <2>8, <2>9 DEF LogInv
<1>11. CASE logthreadUp
  <2>1. /\ logthread = "starting" /\ logthread' = "up"
        /\ UNCHANGED <<daemonized, alone, backlog, dq, logq, handled, lpc, lidx, count, due>>
    BY <1>11 DEF logthreadUp, kept, callers
  <2>2. \A k \in Loggers : SentBy(k)' = SentBy(k)
    BY <2>1 DEF SentBy, Busy
  <2>3. SentInOrder' /\ Dies'
    BY <2>1, <2>2, NothingSent
  <2>4. LogTypes' /\ First' /\ KeptInOrder'
    BY <1>t, <2>1 DEF LogTypes, First, KeptInOrder, Busy
  <2> QED
    BY <2>3, <2>4 DEF LogInv
\* The first of the queue.
<1>h. ASSUME logq # <<>>
      PROVE  /\ Head(logq) = logq[1] /\ logq[1] \in Messages \union {Die} /\ 1 \in DOMAIN logq
             /\ Tail(logq) \in Seq(Messages \union {Die})
             /\ \A i \in DOMAIN logq : i # 1 => i - 1 \in DOMAIN Tail(logq) /\ Tail(logq)[i - 1] = logq[i]
             /\ \A i \in DOMAIN Tail(logq) : i + 1 \in DOMAIN logq /\ Tail(logq)[i] = logq[i + 1]
             /\ DOMAIN logq \subseteq Nat \ {0}
  <2> DEFINE M == Messages \union {Die}
  <2>1. logq \in Seq(M)
    BY <1>t DEF LogTypes
  <2> HIDE DEF M
  <2>2. /\ Head(logq) = logq[1] /\ Tail(logq) \in Seq(M) /\ Len(Tail(logq)) = Len(logq) - 1
        /\ \A i \in 1 .. Len(Tail(logq)) : Tail(logq)[i] = logq[i + 1]
        /\ Len(logq) \in Nat \ {0} /\ logq \in [1 .. Len(logq) -> M] /\ DOMAIN logq = 1 .. Len(logq)
    BY <1>h, <2>1, HeadTailProperties, LenProperties, EmptySeq
  <2>3. DOMAIN Tail(logq) = 1 .. Len(Tail(logq))
    BY <2>2, LenProperties
  <2>4. \A i \in DOMAIN logq : i # 1 => i - 1 \in 1 .. Len(Tail(logq)) /\ (i - 1) + 1 = i
    BY <2>2
  <2> QED
    BY <2>2, <2>3, <2>4 DEF M
<1>12. CASE logthreadWrites
  <2>1. /\ logthread = "up" /\ logq # <<>> /\ Head(logq) # Die
        /\ handled' = Append(handled, Head(logq)) /\ logq' = Tail(logq)
        /\ UNCHANGED <<daemonized, alone, backlog, dq, logthread, lpc, lidx, count, due>>
    BY <1>12 DEF logthreadWrites, kept, callers
  <2> DEFINE m == Head(logq)
  <2>2. m \in Messages /\ m # Die /\ m = logq[1]
    BY <1>h, <2>1
  <2>3. \A k \in Loggers : SentBy(k)' = SentBy(k)
    BY <2>1 DEF SentBy, Busy
  <2>4. Logged' = Logged
    <3> DEFINE M == Messages \union {Die}
    <3>1. handled \in Seq(M) /\ logq \in Seq(M)
      BY <1>t, SeqMonotonic DEF LogTypes
    <3> HIDE DEF M
    <3> QED
      BY <2>1, <3>1, LoggedMoves DEF Logged
  <2>5. SentInOrder'
    BY <1>t, <2>3, <2>4 DEF SentInOrder
  <2>6. handled' \in Seq(Messages) /\ \A x : IsIn(handled', x) <=> IsIn(handled, x) \/ x = m
    <3>1. handled \in Seq(Messages) /\ handled' = Append(handled, m) /\ m \in Messages
      BY <1>t, <2>1, <2>2 DEF LogTypes
    <3> HIDE DEF m
    <3>2. /\ handled' \in Seq(Messages) /\ Len(handled') = Len(handled) + 1
          /\ \A i \in 1 .. Len(handled) : handled'[i] = handled[i]
          /\ handled'[Len(handled) + 1] = m
      BY <3>1, AppendProperties
    <3>3. Len(handled) \in Nat /\ DOMAIN handled = 1 .. Len(handled) /\ DOMAIN handled' = 1 .. Len(handled')
      BY <3>1, <3>2, LenProperties
    <3>4. ASSUME NEW x PROVE IsIn(handled', x) <=> IsIn(handled, x) \/ x = m
      <4>1. \A i \in DOMAIN handled' : i \in DOMAIN handled \/ i = Len(handled) + 1
        BY <3>2, <3>3
      <4>2. DOMAIN handled \subseteq DOMAIN handled' /\ Len(handled) + 1 \in DOMAIN handled'
        BY <3>2, <3>3
      <4> QED
        BY <3>2, <3>3, <4>1, <4>2 DEF IsIn
    <3> QED
      BY <3>2, <3>4
  <2>7. LogTypes'
    BY <1>t, <1>h, <2>1, <2>6 DEF LogTypes
  <2>8. First' /\ KeptInOrder'
    BY <1>t, <2>1 DEF First, KeptInOrder, Busy
  <2>9. IsIn(logq', Die) => IsIn(logq, Die)
    BY <1>h, <2>1 DEF IsIn
  <2>10. ASSUME NEW d \in DOMAIN logq, logq[d] = Die,
                \A l \in Loggers : \A n \in 1 .. due[l] :
                   IsIn(handled, <<l, n>>) \/ \E i \in 1 .. d - 1 : logq[i] = <<l, n>>
         PROVE  \E e \in DOMAIN logq' :
                   /\ logq'[e] = Die
                   /\ \A l \in Loggers : \A n \in 1 .. due'[l] :
                        IsIn(handled', <<l, n>>) \/ \E i \in 1 .. e - 1 : logq'[i] = <<l, n>>
    <3>1. d # 1 /\ d \in Nat
      BY <1>h, <2>1, <2>2, <2>10
    <3>2. d - 1 \in DOMAIN logq' /\ logq'[d - 1] = Die
      BY <1>h, <2>1, <2>10, <3>1
    <3>3. ASSUME NEW l \in Loggers, NEW n \in 1 .. due'[l]
          PROVE  IsIn(handled', <<l, n>>) \/ \E i \in 1 .. (d - 1) - 1 : logq'[i] = <<l, n>>
      <4>1. CASE IsIn(handled, <<l, n>>)
        BY <2>6, <4>1
      <4>2. ASSUME NEW i \in 1 .. d - 1, logq[i] = <<l, n>>
            PROVE  IsIn(handled', <<l, n>>) \/ \E j \in 1 .. (d - 1) - 1 : logq'[j] = <<l, n>>
        <5>1. CASE i = 1
          BY <2>2, <2>6, <4>2, <5>1
        <5>2. CASE i # 1
          <6>1. i - 1 \in 1 .. (d - 1) - 1
            BY <3>1, <5>2
          <6>2. i \in DOMAIN logq
            <7>1. DOMAIN logq = 1 .. Len(logq) /\ Len(logq) \in Nat
              BY <1>t, LenProperties DEF LogTypes
            <7> QED
              BY <3>1, <7>1
          <6> QED
            BY <1>h, <2>1, <4>2, <5>2, <6>1, <6>2
        <5> QED
          BY <5>1, <5>2
      <4> QED
        BY <2>1, <2>10, <4>1, <4>2
    <3> QED
      BY <3>2, <3>3
  <2>11. Dies'
    BY <1>t, <2>1, <2>9, <2>10 DEF Dies, NotStopping
  <2> QED
    BY <2>5, <2>7, <2>8, <2>11 DEF LogInv
<1>13. CASE logthreadDies
  <2>1. /\ logthread = "up" /\ logq # <<>> /\ Head(logq) = Die
        /\ logthread' = "dead" /\ logq' = Tail(logq)
        /\ UNCHANGED <<daemonized, alone, backlog, dq, handled, lpc, lidx, count, due>>
    BY <1>13 DEF logthreadDies, kept, callers
  <2>2. \A k \in Loggers : SentBy(k)' = SentBy(k)
    BY <2>1 DEF SentBy, Busy
  <2> DEFINE M == Messages \union {Die}
  <2>3. handled \in Seq(M) /\ logq \in Seq(M) /\ logq' \in Seq(M)
    BY <1>t, <1>h, <2>1, SeqMonotonic DEF LogTypes
  <2>4. \A x \in M : <<x[1], x[2] - 1>> = Die => ~ (x[2] > 1)
    BY DieIsNone DEF Die
  <2>5. InOrder(Logged') /\ ~ IsIn(logq', Die)
    <3> HIDE DEF M
    <3>1. InOrder(handled \o logq)
      BY <1>t DEF SentInOrder, Logged
    <3>2. InOrder(handled \o Tail(logq)) /\ ~ IsIn(Tail(logq), Head(logq))
      BY <2>1, <2>3, <2>4, <3>1, OrderWithout
    <3> QED
      BY <2>1, <3>2 DEF Logged
  <2>6. ASSUME NEW l \in Loggers, NEW n \in Nat \ {0}
        PROVE  IsIn(Logged', <<l, n>>) <=> IsIn(Logged, <<l, n>>)
    <3>1. <<l, n>> # Die
      BY DEF Die
    <3>2. IsIn(logq', <<l, n>>) <=> IsIn(logq, <<l, n>>)
      BY <1>h, <2>1, <3>1 DEF IsIn
    <3> HIDE DEF M
    <3>3. \A x : IsIn(handled \o logq, x) <=> IsIn(handled, x) \/ IsIn(logq, x)
      BY <2>3, HasEither
    <3>4. \A x : IsIn(handled \o logq', x) <=> IsIn(handled, x) \/ IsIn(logq', x)
      BY <2>3, HasEither
    <3> QED
      BY <2>1, <3>2, <3>3, <3>4 DEF Logged
  <2>7. SentInOrder'
    BY <1>t, <2>2, <2>5, <2>6 DEF SentInOrder
  <2>8. LogTypes' /\ KeptInOrder'
    BY <1>t, <2>1, <2>3 DEF LogTypes, KeptInOrder, Busy
  <2>9. First'
    BY <1>t, <2>1 DEF First
  <2>10. ~ NotStopping /\ lpc[Main] = "stopping"
    <3>1. IsIn(logq, Die)
      BY <1>h, <2>1 DEF IsIn
    <3> QED
      BY <1>t, <2>1, <3>1 DEF Dies, NotStopping
  <2>11. Dies'
    <3>1. PICK d \in DOMAIN logq :
             /\ logq[d] = Die
             /\ \A l \in Loggers : \A n \in 1 .. due[l] :
                   IsIn(handled, <<l, n>>) \/ \E i \in 1 .. d - 1 : logq[i] = <<l, n>>
      BY <1>t, <2>1, <2>10 DEF Dies
    <3>2. d = 1
      <4>1. SUFFICES ASSUME d # 1 PROVE IsIn(logq', Die)
        BY <2>5
      <4> QED
        BY <1>h, <2>1, <3>1, <4>1 DEF IsIn
    <3>3. \A l \in Loggers : \A n \in 1 .. due[l] : IsIn(handled, <<l, n>>)
      <4>1. \A i : ~ (i \in 1 .. d - 1)
        BY <3>2
      <4> QED
        BY <3>1, <4>1
    <3> QED
      BY <2>1, <2>10, <3>3 DEF Dies, NotStopping
  <2> QED
    BY <2>7, <2>8, <2>9, <2>11 DEF LogInv
<1>14. CASE stoplog
  <2>1. /\ logthread # "none" /\ lpc[Main] = "idle" /\ lpc' = [lpc EXCEPT ![Main] = "stopping"]
        /\ logq' = Append(logq, Die)
        /\ due' = [l \in Loggers |-> IF lpc[l] = "idle" THEN count[l] ELSE count[l] - 1]
        /\ UNCHANGED <<daemonized, alone, backlog, dq, logthread, handled, lidx, count>>
    BY <1>14 DEF stoplog, At, DieLast, kept
  <2>2. ~ alone /\ backlog = <<>> /\ \A l \in Loggers : lpc[l] \notin {"flush", "flushed", "stopping", "stopped"}
    BY <1>t, <1>m, <2>1 DEF First
  <2>3. lpc' \in [Loggers -> Mid \union {"idle", "stopping", "stopped"}] /\ lpc'[Main] = "stopping"
        /\ \A k \in Loggers : k # Main => lpc'[k] = lpc[k]
    BY <1>t, <1>m, <2>1 DEF LogTypes
  <2>4. \A k \in Loggers : SentBy(k)' = SentBy(k) /\ due'[k] = SentBy(k) /\ due'[k] \in Nat
    BY <1>t, <1>c, <2>1, <2>2, <2>3 DEF SentBy, Busy, Mid, LogTypes
  <2>5. NotStopping /\ ~ IsIn(logq, Die) /\ logthread # "dead"
    BY <1>t, <2>1 DEF Dies, NotStopping
  <2>6. ~ IsIn(handled, Die)
    <3>1. \A i \in DOMAIN handled : handled[i] \in Messages
      BY <1>t, LenProperties, ElementOfSeq DEF LogTypes
    <3> QED
      BY <3>1, DieIsNone DEF IsIn
  <2> DEFINE M == Messages \union {Die}
  <2>7. handled \in Seq(M) /\ logq \in Seq(M) /\ Die \in M
    BY <1>t, SeqMonotonic DEF LogTypes
  <2>8. \A x : IsIn(Logged, x) <=> IsIn(handled, x) \/ IsIn(logq, x)
    <3> HIDE DEF M
    <3> QED
      BY <2>7, HasEither DEF Logged
  <2>9. InOrder(Logged') /\ \A x : IsIn(Logged', x) <=> IsIn(Logged, x) \/ x = Die
    <3>1. ~ (Die[2] > 1)
      BY DEF Die
    <3> QED
      BY <1>t, <2>1, <2>5, <2>6, <2>8, <3>1, Sends
  <2>10. SentInOrder'
    <3>1. \A l \in Loggers : \A n \in Nat \ {0} : <<l, n>> # Die
      BY DEF Die
    <3> QED
      BY <1>t, <2>4, <2>9, <3>1 DEF SentInOrder
  <2>11. /\ logq' \in Seq(M) /\ DOMAIN logq' = 1 .. Len(logq) + 1 /\ DOMAIN logq = 1 .. Len(logq)
         /\ Len(logq) \in Nat /\ logq'[Len(logq) + 1] = Die
         /\ \A i \in 1 .. Len(logq) : logq'[i] = logq[i]
    <3> DEFINE q == logq
               r == logq'
    <3>1. q \in Seq(M) /\ Die \in M /\ r = Append(q, Die)
      BY <2>1, <2>7
    <3> HIDE DEF M, q, r
    <3>2. r \in Seq(M) /\ Len(r) = Len(q) + 1 /\ (\A i \in 1 .. Len(q) : r[i] = q[i])
          /\ r[Len(q) + 1] = Die
      BY <3>1, AppendProperties
    <3>3. DOMAIN r = 1 .. Len(r) /\ DOMAIN q = 1 .. Len(q) /\ Len(q) \in Nat
      BY <3>1, <3>2, LenProperties
    <3> QED
      BY <3>2, <3>3 DEF q, r
  <2>12. LogTypes' /\ First' /\ KeptInOrder'
    <3>1. LogTypes'
      BY <1>t, <2>1, <2>3, <2>4, <2>11 DEF LogTypes
    <3>2. First'
      BY <1>t, <1>m, <2>1, <2>2, <2>3 DEF First, Mid
    <3>3. KeptInOrder'
      BY <1>t, <1>b, <2>1, <2>2, <2>3 DEF KeptInOrder, First
    <3> QED
      BY <3>1, <3>2, <3>3
  <2>13. Dies'
    <3>1. ASSUME NEW l \in Loggers, NEW n \in 1 .. due'[l]
          PROVE  IsIn(handled', <<l, n>>) \/ \E i \in 1 .. (Len(logq) + 1) - 1 : logq'[i] = <<l, n>>
      <4>1. n \in Nat \ {0} /\ n <= SentBy(l)
        BY <2>4
      <4>2. IsIn(handled, <<l, n>>) \/ IsIn(logq, <<l, n>>)
        BY <1>t, <2>8, <4>1 DEF SentInOrder
      <4> QED
        BY <2>1, <2>11, <4>2 DEF IsIn
    <3>2. Len(logq) + 1 \in DOMAIN logq'
      BY <2>11
    <3> QED
      BY <2>1, <2>3, <2>5, <2>11, <3>1, <3>2 DEF Dies, NotStopping
  <2> QED
    BY <2>10, <2>12, <2>13 DEF LogInv
<1>15. CASE stoplogNone \/ stopped
  <2>1. /\ lpc' = [lpc EXCEPT ![Main] = "stopped"]
        /\ \/ logthread = "none" /\ lpc[Main] = "idle"
           \/ logthread = "dead" /\ lpc[Main] = "stopping"
        /\ UNCHANGED <<daemonized, alone, backlog, dq, logq, handled, logthread, lidx, count, due>>
    BY <1>15 DEF stoplogNone, stopped, At, kept, writing
  <2>2. lpc' \in [Loggers -> Mid \union {"idle", "stopping", "stopped"}] /\ lpc'[Main] = "stopped"
        /\ \A k \in Loggers : k # Main => lpc'[k] = lpc[k]
    BY <1>t, <1>m, <2>1 DEF LogTypes
  <2>3. \A k \in Loggers : SentBy(k)' = SentBy(k)
    BY <2>1, <2>2 DEF SentBy, Busy, Mid
  <2>4. SentInOrder'
    BY <1>t, <2>1, <2>3 DEF SentInOrder, Logged
  <2>5. Dies'
    BY <1>t, <2>1, <2>2 DEF Dies, NotStopping
  <2>6. LogTypes'
    BY <1>t, <2>1, <2>2 DEF LogTypes
  <2>7. First'
    BY <1>t, <1>m, <2>1, <2>2 DEF First, Mid
  <2>8. KeptInOrder'
    BY <1>t, <1>m, <2>1, <2>2 DEF KeptInOrder, Busy, Mid
  <2> QED
    BY <2>4, <2>5, <2>6, <2>7, <2>8 DEF LogInv
<1> QED
  BY <1>1, <1>2, <1>3, <1>4, <1>5, <1>6, <1>7, <1>8, <1>9, <1>10, <1>11, <1>12, <1>13, <1>14, <1>15
     DEF LogNext, Log

LEMMA LogInitInv == LogInit => LogInv
<1> SUFFICES ASSUME LogInit PROVE LogInv
  OBVIOUS
<1>1. /\ daemonized = FALSE /\ alone = TRUE /\ backlog = <<>> /\ dq = FALSE
      /\ logthread = "none" /\ logq = <<>> /\ handled = <<>>
      /\ lpc = [l \in Loggers |-> "idle"] /\ lidx = [l \in Loggers |-> 0]
      /\ count = [l \in Loggers |-> 0] /\ due = [l \in Loggers |-> 0]
  BY DEF LogInit
<1>2. Main \in Loggers /\ Others \subseteq Loggers
  BY DEF Loggers
<1>3. Logged = <<>> /\ DOMAIN Logged = {} /\ DOMAIN logq = {}
  <2>1. <<>> \in Seq(Messages)
    OBVIOUS
  <2>2. Logged = <<>>
    BY <1>1, <2>1, ConcatEmptySeq DEF Logged
  <2> QED
    BY <1>1, <2>2
<1>4. LogTypes
  <2>1. backlog \in Seq(Messages) /\ handled \in Seq(Messages) /\ logq \in Seq(Messages \union {Die})
    BY <1>1
  <2>2. 0 \in 0 .. MaxLogs
    BY SizesAssumption
  <2> QED
    BY <1>1, <2>1, <2>2 DEF LogTypes
<1>5. First /\ KeptInOrder
  BY <1>1, <1>2 DEF First, KeptInOrder, Busy, Mid
<1>6. SentInOrder
  BY <1>1, <1>3 DEF SentInOrder, InOrder, IsIn, SentBy, Busy, Mid
<1>7. Dies
  BY <1>1, <1>2, <1>3 DEF Dies, NotStopping, IsIn
<1> QED
  BY <1>4, <1>5, <1>6, <1>7 DEF LogInv

LEMMA LogInvMeans == LogInv => LoggedInOrder /\ StoplogComplete
<1> SUFFICES ASSUME LogInv PROVE LoggedInOrder /\ StoplogComplete
  OBVIOUS
<1>1. LoggedInOrder
  BY DEF LogInv, SentInOrder, InOrder, Logged, LoggedInOrder
<1>2. StoplogComplete
  <2> SUFFICES ASSUME lpc[Main] = "stopped", NEW l \in Loggers, NEW i \in 1 .. due[l]
               PROVE  Contains(handled, <<l, i>>)
    BY DEF StoplogComplete
  <2>1. logthread = "dead"
    BY DEF LogInv, Dies, NotStopping
  <2>2. IsIn(handled, <<l, i>>)
    BY <2>1 DEF LogInv, Dies
  <2>3. DOMAIN handled = 1 .. Len(handled)
    BY LenProperties DEF LogInv, LogTypes
  <2> QED
    BY <2>2, <2>3 DEF IsIn, Contains
<1> QED
  BY <1>1, <1>2

(***************************************************************************)
(* The files: the loops of Taken and Oldest, as steps of an induction      *)
(***************************************************************************)
Texts == Seq(Messages)
TakeSteps(t, s) ==
    [i \in Nat |-> [q \in Texts |->
        IF i \in 1 .. Len(s) /\ s[i][2] \in Takes[t] THEN Append(q, s[i]) ELSE q]]
HoldSteps(f) ==
    [i \in Nat |-> [q \in Texts |-> IF i \in 1 .. Len(f) THEN f[i] \o q ELSE q]]

\* The loops take these steps.
LEMMA TakenComputed ==
    ASSUME NEW t, NEW s \in Texts
    PROVE  \E f : Computes(f, Texts, <<>>, TakeSteps(t, s), Len(s)) /\ Taken(t, s) = f[Len(s)]
<1> DEFINE E(r) == [i \in 0 .. Len(s) |->
                      IF i = 0 THEN <<>>
                      ELSE IF s[i][2] \in Takes[t] THEN Append(r[i - 1], s[i]) ELSE r[i - 1]]
           g == CHOOSE r : r = E(r)
<1>1. Taken(t, s) = g[Len(s)]
  BY Zenon DEF Taken
<1>2. <<>> \in Texts /\ Len(s) \in Nat /\ \A i \in 1 .. Len(s) : s[i] \in Messages
  BY LenProperties, ElementOfSeq DEF Texts
<1>3. TakeSteps(t, s) \in [Nat -> [Texts -> Texts]]
  <2>1. ASSUME NEW i \in Nat, NEW q \in Texts
        PROVE  (IF i \in 1 .. Len(s) /\ s[i][2] \in Takes[t] THEN Append(q, s[i]) ELSE q) \in Texts
    BY <1>2, AppendProperties DEF Texts
  <2> QED
    BY <2>1 DEF TakeSteps
<1>4. ASSUME NEW i \in 1 .. Len(s), NEW q \in Texts
      PROVE  TakeSteps(t, s)[i][q] = IF s[i][2] \in Takes[t] THEN Append(q, s[i]) ELSE q
  BY <1>2 DEF TakeSteps
<1>5. PICK f : Computes(f, Texts, <<>>, TakeSteps(t, s), Len(s))
  BY <1>2, <1>3, StepsExist, Zenon
<1>6. f = E(f)
  <2>1. f \in [0 .. Len(s) -> Texts] /\ f[0] = <<>>
    BY <1>5 DEF Computes
  <2>2. ASSUME NEW i \in 0 .. Len(s), i # 0
        PROVE  f[i] = IF s[i][2] \in Takes[t] THEN Append(f[i - 1], s[i]) ELSE f[i - 1]
    <3>1. i \in 1 .. Len(s) /\ f[i - 1] \in Texts
      BY <1>2, <2>1, <2>2
    <3>2. f[i] = TakeSteps(t, s)[i][f[i - 1]]
      BY <1>5, <3>1 DEF Computes
    <3> QED
      BY <1>4, <3>1, <3>2
  <2> QED
    BY <2>1, <2>2
<1>7. g = E(g)
  <2> HIDE DEF E
  <2> QED
    BY <1>6, Zenon
<1>8. g = [i \in 0 .. Len(s) |-> g[i]] /\ \A i \in 0 .. Len(s) : g[i] = E(g)[i]
  <2>1. DOMAIN g = 0 .. Len(s)
    BY <1>7
  <2> QED
    BY <1>7, <2>1
<1> HIDE DEF g
<1>9. g[0] = <<>> /\ \A i \in 1 .. Len(s) : g[i - 1] \in Texts => g[i] = TakeSteps(t, s)[i][g[i - 1]]
  <2>1. 0 \in 0 .. Len(s) /\ \A i \in 1 .. Len(s) : i \in 0 .. Len(s) /\ i # 0
    BY <1>2
  <2> QED
    BY <1>4, <1>8, <2>1
<1>10. Computes(g, Texts, <<>>, TakeSteps(t, s), Len(s))
  BY <1>2, <1>3, <1>8, <1>9, StepsComputed, Zenon
<1> QED
  BY <1>1, <1>10, Zenon

LEMMA OldestComputed ==
    ASSUME NEW f \in Seq(Texts)
    PROVE  \E h : Computes(h, Texts, <<>>, HoldSteps(f), Len(f)) /\ Oldest(f) = h[Len(f)]
<1> DEFINE E(r) == [i \in 0 .. Len(f) |-> IF i = 0 THEN <<>> ELSE f[i] \o r[i - 1]]
           g == CHOOSE r : r = E(r)
<1>1. Oldest(f) = g[Len(f)]
  BY Zenon DEF Oldest
<1>2. <<>> \in Texts /\ Len(f) \in Nat /\ \A i \in 1 .. Len(f) : f[i] \in Texts
  BY LenProperties, ElementOfSeq DEF Texts
<1>3. HoldSteps(f) \in [Nat -> [Texts -> Texts]]
  <2>1. ASSUME NEW i \in Nat, NEW q \in Texts
        PROVE  (IF i \in 1 .. Len(f) THEN f[i] \o q ELSE q) \in Texts
    <3>1. CASE i \in 1 .. Len(f)
      <4>1. f[i] \in Texts
        BY <1>2, <3>1
      <4>2. f[i] \o q \in Texts
        BY ONLY <4>1, q \in Texts, ConcatProperties DEF Texts
      <4> QED
        BY <3>1, <4>2
    <3>2. CASE ~ (i \in 1 .. Len(f))
      BY <3>2
    <3> QED
      BY <3>1, <3>2
  <2> QED
    BY <2>1 DEF HoldSteps
<1>4. ASSUME NEW i \in 1 .. Len(f), NEW q \in Texts
      PROVE  HoldSteps(f)[i][q] = f[i] \o q
  <2>1. i \in Nat
    BY <1>2
  <2> QED
    BY ONLY <2>1, i \in 1 .. Len(f), q \in Texts DEF HoldSteps
<1>5. PICK h : Computes(h, Texts, <<>>, HoldSteps(f), Len(f))
  BY <1>2, <1>3, StepsExist, Zenon
<1>6. h = E(h)
  <2>1. h \in [0 .. Len(f) -> Texts] /\ h[0] = <<>>
    BY <1>5 DEF Computes
  <2>2. ASSUME NEW i \in 0 .. Len(f), i # 0
        PROVE  h[i] = f[i] \o h[i - 1]
    <3>1. i \in 1 .. Len(f) /\ h[i - 1] \in Texts
      BY <1>2, <2>1, <2>2
    <3>2. h[i] = HoldSteps(f)[i][h[i - 1]]
      BY <1>5, <3>1 DEF Computes
    <3> QED
      BY <1>4, <3>1, <3>2
  <2> QED
    BY <2>1, <2>2
<1>7. g = E(g)
  <2> HIDE DEF E
  <2> QED
    BY <1>6, Zenon
<1>8. g = [i \in 0 .. Len(f) |-> g[i]] /\ \A i \in 0 .. Len(f) : g[i] = E(g)[i]
  <2>1. DOMAIN g = 0 .. Len(f)
    BY <1>7
  <2> QED
    BY <1>7, <2>1
<1> HIDE DEF g
<1>9. g[0] = <<>> /\ \A i \in 1 .. Len(f) : g[i - 1] \in Texts => g[i] = HoldSteps(f)[i][g[i - 1]]
  <2>1. 0 \in 0 .. Len(f) /\ \A i \in 1 .. Len(f) : i \in 0 .. Len(f) /\ i # 0
    BY <1>2
  <2> QED
    BY <1>4, <1>8, <2>1
<1>10. Computes(g, Texts, <<>>, HoldSteps(f), Len(f))
  BY <1>2, <1>3, <1>8, <1>9, StepsComputed, Zenon
<1> QED
  BY <1>1, <1>10, Zenon

\* One more message is taken, or not.
LEMMA TakenAppends ==
    ASSUME NEW t, NEW s \in Texts, NEW m \in Messages
    PROVE  /\ Taken(t, s) \in Texts
           /\ Taken(t, Append(s, m)) = IF m[2] \in Takes[t] THEN Append(Taken(t, s), m) ELSE Taken(t, s)
<1> DEFINE r == Append(s, m)
           N == Len(s)
<1>1. /\ r \in Texts /\ N \in Nat /\ Len(r) = N + 1 /\ r[N + 1] = m
      /\ \A i \in 1 .. N : r[i] = s[i]
  BY AppendProperties, LenProperties DEF Texts
<1>2. PICK f : Computes(f, Texts, <<>>, TakeSteps(t, s), N) /\ Taken(t, s) = f[N]
  BY TakenComputed
<1> HIDE DEF r, N
<1>3. PICK g : Computes(g, Texts, <<>>, TakeSteps(t, r), N + 1) /\ Taken(t, r) = g[N + 1]
  BY <1>1, TakenComputed
<1>4. \A i \in 1 .. N : TakeSteps(t, s)[i] = TakeSteps(t, r)[i]
  <2> SUFFICES ASSUME NEW i \in 1 .. N PROVE TakeSteps(t, s)[i] = TakeSteps(t, r)[i]
    OBVIOUS
  <2>1. i \in Nat /\ i \in 1 .. Len(s) /\ i \in 1 .. Len(r) /\ r[i] = s[i]
    BY <1>1 DEF N
  <2> QED
    BY <2>1 DEF TakeSteps
<1>5. f[N] = g[N]
  <2> DEFINE one == TakeSteps(t, s)
             two == TakeSteps(t, r)
             M == N + 1
             E == <<>>
             S == Texts
  <2>1. N \in Nat /\ M \in Nat /\ N <= M
    BY <1>1
  <2>2. Agree(one, two, N)
    BY <1>4 DEF Agree
  <2>3. Computes(f, S, E, one, N) /\ Computes(g, S, E, two, M)
    BY <1>2, <1>3
  <2> HIDE DEF one, two, M, E, S
  <2> QED
    BY <2>1, <2>2, <2>3, SameSteps
<1>6. f[N] \in Texts
  BY <1>1, <1>2 DEF Computes
<1>7. g[N + 1] = TakeSteps(t, r)[N + 1][g[N]]
  <2>1. N + 1 \in 1 .. N + 1 /\ (N + 1) - 1 = N
    BY <1>1
  <2> QED
    BY <1>3, <2>1 DEF Computes
<1>8. g[N + 1] = IF m[2] \in Takes[t] THEN Append(g[N], m) ELSE g[N]
  <2>1. N + 1 \in Nat /\ N + 1 \in 1 .. Len(r)
    BY <1>1
  <2> QED
    BY <1>1, <1>5, <1>6, <1>7, <2>1 DEF TakeSteps
<1> QED
  BY <1>2, <1>3, <1>5, <1>6, <1>8 DEF r

\* What the steps through the files are.
LEMMA HeldBefore ==
    ASSUME NEW f \in Seq(Texts), NEW h, Computes(h, Texts, <<>>, HoldSteps(f), Len(f))
    PROVE  /\ h[0] = <<>> /\ \A i \in 0 .. Len(f) : h[i] \in Texts
           /\ \A i \in 1 .. Len(f) : h[i] = f[i] \o h[i - 1] /\ f[i] \in Texts
<1>1. Len(f) \in Nat /\ \A i \in 1 .. Len(f) : f[i] \in Texts
  BY LenProperties, ElementOfSeq
<1>2. h \in [0 .. Len(f) -> Texts] /\ h[0] = <<>>
  BY DEF Computes
<1>3. ASSUME NEW i \in 1 .. Len(f) PROVE h[i] = f[i] \o h[i - 1]
  <2>1. i \in Nat /\ h[i - 1] \in Texts
    BY <1>1, <1>2
  <2>2. h[i] = HoldSteps(f)[i][h[i - 1]]
    BY DEF Computes
  <2> QED
    BY <2>1, <2>2 DEF HoldSteps
<1> QED
  BY <1>1, <1>2, <1>3

\* A message is written at the end of the newest file.
LEMMA OldestAppends ==
    ASSUME NEW f \in Seq(Texts), f # <<>>, NEW m \in Messages, NEW w,
           w = [f EXCEPT ![1] = Append(@, m)]
    PROVE  /\ w \in Seq(Texts) /\ Len(w) = Len(f) /\ w[1] = Append(f[1], m)
           /\ Oldest(f) \in Texts /\ Oldest(w) = Append(Oldest(f), m)
<1> DEFINE N == Len(f)
<1>1. N \in Nat \ {0} /\ 1 \in 1 .. N /\ f[1] \in Texts
  BY EmptySeq, ElementOfSeq
<1>2. Append(f[1], m) \in Texts
  BY <1>1, AppendProperties DEF Texts
<1>3. /\ w \in Seq(Texts) /\ Len(w) = N
      /\ \A j \in 1 .. N : w[j] = IF j = 1 THEN Append(f[1], m) ELSE f[j]
  BY <1>1, <1>2, ExceptSeq
<1>4. PICK h : Computes(h, Texts, <<>>, HoldSteps(f), N) /\ Oldest(f) = h[N]
  BY OldestComputed
<1>5. PICK k : Computes(k, Texts, <<>>, HoldSteps(w), N) /\ Oldest(w) = k[N]
  BY <1>3, OldestComputed
<1>6. /\ h[0] = <<>> /\ \A i \in 0 .. N : h[i] \in Texts
      /\ \A i \in 1 .. N : h[i] = f[i] \o h[i - 1] /\ f[i] \in Texts
  BY <1>4, HeldBefore
<1>7. /\ k[0] = <<>>
      /\ \A i \in 1 .. N : k[i] = w[i] \o k[i - 1]
  <2>1. Computes(k, Texts, <<>>, HoldSteps(w), Len(w))
    BY <1>3, <1>5
  <2>2. w \in Seq(Texts) /\ Len(w) = N
    BY <1>3
  <2> QED
    BY <2>1, <2>2, HeldBefore
<1> HIDE DEF N
<1> DEFINE T == {i \in Nat : i + 1 <= N => k[i + 1] = Append(h[i + 1], m)}
<1>8. 0 \in T
  <2>1. h[1] = f[1] \o <<>> /\ k[1] = Append(f[1], m) \o <<>>
    <3>1. 1 \in 1 .. N /\ 1 - 1 = 0
      BY <1>1
    <3>2. h[1] = f[1] \o h[0] /\ k[1] = w[1] \o k[0]
      BY <1>6, <1>7, <3>1
    <3>3. w[1] = Append(f[1], m)
      BY <1>3, <3>1
    <3> QED
      BY <1>6, <1>7, <3>2, <3>3
  <2>2. f[1] \o <<>> = f[1] /\ Append(f[1], m) \o <<>> = Append(f[1], m)
    BY <1>1, <1>2, ConcatEmptySeq DEF Texts
  <2> QED
    BY <2>1, <2>2
<1>9. ASSUME NEW i \in Nat, i \in T PROVE i + 1 \in T
  <2> SUFFICES ASSUME (i + 1) + 1 <= N PROVE k[(i + 1) + 1] = Append(h[(i + 1) + 1], m)
    OBVIOUS
  <2> DEFINE j == (i + 1) + 1
  <2>1. j \in 1 .. N /\ j - 1 = i + 1 /\ j # 1 /\ i + 1 <= N /\ i + 1 \in 0 .. N
    BY <1>1
  <2>2. k[i + 1] = Append(h[i + 1], m) /\ h[i + 1] \in Texts
    BY <1>6, <1>9, <2>1
  <2> HIDE DEF j
  <2>3. k[j] = f[j] \o Append(h[i + 1], m) /\ h[j] = f[j] \o h[i + 1] /\ f[j] \in Texts
    BY <1>3, <1>6, <1>7, <2>1, <2>2
  <2>4. f[j] \o Append(h[i + 1], m) = Append(f[j] \o h[i + 1], m)
    <3> DEFINE p == f[j]
               q == h[i + 1]
    <3>1. p \in Seq(Messages) /\ q \in Seq(Messages) /\ <<m>> \in Seq(Messages)
      BY <2>2, <2>3 DEF Texts
    <3> HIDE DEF p, q
    <3>2. p \o Append(q, m) = Append(p \o q, m)
      BY ONLY <3>1, m \in Messages, AppendJoined
    <3> QED
      BY <3>2 DEF p, q
  <2> QED
    BY <2>3, <2>4 DEF j
<1>10. Nat \subseteq T
  <2> HIDE DEF T
  <2> QED
    BY <1>8, <1>9, NatSetInduction
<1>11. N - 1 \in Nat /\ (N - 1) + 1 = N /\ N \in 0 .. N
  BY <1>1
<1>12. k[N] = Append(h[N], m) /\ h[N] \in Texts
  BY <1>6, <1>10, <1>11
<1> QED
  BY <1>1, <1>3, <1>4, <1>5, <1>12 DEF N

\* An empty file comes in front.
LEMMA OldestShifts ==
    ASSUME NEW f \in Seq(Texts), NEW w, w = << <<>> >> \o f
    PROVE  /\ w \in Seq(Texts) /\ Len(w) = Len(f) + 1
           /\ Oldest(w) = Oldest(f)
<1> DEFINE N == Len(f)
<1>1. N \in Nat /\ <<>> \in Texts
  BY LenProperties DEF Texts
<1>2. /\ w \in Seq(Texts) /\ Len(w) = N + 1 /\ w[1] = <<>>
      /\ \A i \in 1 .. N : w[i + 1] = f[i]
  <2> DEFINE e == << <<>> >>
  <2>1. e \in Seq(Texts) /\ Len(e) = 1 /\ e[1] = <<>>
    BY <1>1
  <2> HIDE DEF e
  <2>2. w = e \o f
    BY DEF e
  <2>3. /\ w \in Seq(Texts) /\ Len(w) = 1 + N
        /\ \A i \in 1 .. 1 + N : w[i] = IF i <= 1 THEN e[i] ELSE f[i - 1]
    BY <2>1, <2>2, ConcatProperties
  <2>4. \A i \in 1 .. N : i + 1 \in 1 .. 1 + N /\ ~ (i + 1 <= 1) /\ (i + 1) - 1 = i
    BY <1>1
  <2>5. 1 \in 1 .. 1 + N
    BY <1>1
  <2> QED
    BY <1>1, <2>1, <2>3, <2>4, <2>5
<1>3. PICK h : Computes(h, Texts, <<>>, HoldSteps(f), N) /\ Oldest(f) = h[N]
  BY OldestComputed
<1>4. PICK k : Computes(k, Texts, <<>>, HoldSteps(w), N + 1) /\ Oldest(w) = k[N + 1]
  BY <1>2, OldestComputed
<1>5. h[0] = <<>> /\ \A i \in 1 .. N : h[i] = f[i] \o h[i - 1]
  BY <1>3, HeldBefore
<1>6. k[0] = <<>> /\ \A i \in 1 .. N + 1 : k[i] = w[i] \o k[i - 1]
  <2>1. Computes(k, Texts, <<>>, HoldSteps(w), Len(w))
    BY <1>2, <1>4
  <2>2. w \in Seq(Texts) /\ Len(w) = N + 1
    BY <1>2
  <2> QED
    BY <2>1, <2>2, HeldBefore
<1> HIDE DEF N
<1> DEFINE T == {i \in Nat : i <= N => k[i + 1] = h[i]}
<1>7. 0 \in T
  <2>1. k[1] = <<>> \o <<>>
    <3>1. 1 \in 1 .. N + 1 /\ 1 - 1 = 0
      BY <1>1
    <3>2. k[1] = w[1] \o k[0]
      BY <1>6, <3>1
    <3> QED
      BY <1>2, <1>6, <3>2
  <2>2. <<>> \o <<>> = <<>>
    BY <1>1, ConcatEmptySeq DEF Texts
  <2> QED
    BY <1>5, <2>1, <2>2
<1>8. ASSUME NEW i \in Nat, i \in T PROVE i + 1 \in T
  <2> SUFFICES ASSUME i + 1 <= N PROVE k[(i + 1) + 1] = h[i + 1]
    OBVIOUS
  <2>1. i + 1 \in 1 .. N /\ (i + 1) + 1 \in 1 .. N + 1 /\ ((i + 1) + 1) - 1 = i + 1 /\ (i + 1) - 1 = i
        /\ i <= N
    BY <1>1
  <2>2. k[i + 1] = h[i]
    BY <1>8, <2>1
  <2>3. k[(i + 1) + 1] = f[i + 1] \o k[i + 1]
    BY <1>2, <1>6, <2>1
  <2>4. h[i + 1] = f[i + 1] \o h[i]
    BY <1>5, <2>1
  <2> QED
    BY <2>2, <2>3, <2>4
<1>9. Nat \subseteq T
  <2> HIDE DEF T
  <2> QED
    BY <1>7, <1>8, NatSetInduction
<1> QED
  BY <1>1, <1>2, <1>3, <1>4, <1>9 DEF N

\* The oldest file goes.
LEMMA OldestDrops ==
    ASSUME NEW f \in Seq(Texts), NEW n \in Nat, Len(f) = n + 1, NEW u, u = SubSeq(f, 1, n)
    PROVE  /\ u \in Seq(Texts) /\ Len(u) = n
           /\ f[n + 1] \in Texts /\ Oldest(u) \in Texts /\ Oldest(f) = f[n + 1] \o Oldest(u)
<1>1. \A i \in 1 .. n : f[i] \in Texts
  BY ElementOfSeq
<1>2. u \in Seq(Texts) /\ Len(u) = n /\ \A i \in 1 .. n : u[i] = f[i]
  <2>1. /\ SubSeq(f, 1, n) \in Seq(Texts) /\ Len(SubSeq(f, 1, n)) = IF 1 <= n THEN n - 1 + 1 ELSE 0
        /\ \A i \in 1 .. n - 1 + 1 : SubSeq(f, 1, n)[i] = f[1 + i - 1]
    BY <1>1, SubSeqProperties
  <2> QED
    BY <2>1
<1>3. PICK h : Computes(h, Texts, <<>>, HoldSteps(f), n + 1) /\ Oldest(f) = h[n + 1]
  BY OldestComputed
<1>4. PICK k : Computes(k, Texts, <<>>, HoldSteps(u), n) /\ Oldest(u) = k[n]
  BY <1>2, OldestComputed
<1>5. \A i \in 1 .. n : HoldSteps(u)[i] = HoldSteps(f)[i]
  <2> SUFFICES ASSUME NEW i \in 1 .. n PROVE HoldSteps(u)[i] = HoldSteps(f)[i]
    OBVIOUS
  <2>1. i \in Nat /\ i \in 1 .. Len(u) /\ i \in 1 .. Len(f) /\ u[i] = f[i]
    BY <1>2
  <2> QED
    BY <2>1 DEF HoldSteps
<1>6. k[n] = h[n]
  <2> DEFINE one == HoldSteps(u)
             two == HoldSteps(f)
  <2>1. n + 1 \in Nat /\ n <= n + 1
    OBVIOUS
  <2>2. Agree(one, two, n)
    BY <1>5 DEF Agree
  <2>3. Computes(k, Texts, <<>>, one, n) /\ Computes(h, Texts, <<>>, two, n + 1)
    BY <1>3, <1>4
  <2> HIDE DEF one, two
  <2> QED
    BY <2>1, <2>2, <2>3, SameSteps
<1>7. /\ \A i \in 0 .. n + 1 : h[i] \in Texts
      /\ \A i \in 1 .. n + 1 : h[i] = f[i] \o h[i - 1] /\ f[i] \in Texts
  BY <1>3, HeldBefore
<1>8. n + 1 \in 1 .. n + 1 /\ (n + 1) - 1 = n /\ n \in 0 .. n + 1
  OBVIOUS
<1> QED
  BY <1>2, <1>3, <1>4, <1>6, <1>7, <1>8

-----------------------------------------------------------------------------
\* The files of a target hold the end of what it took; what is not there any
\* more was in files that came before all those there can be.
FilesKept(f, taken) ==
    /\ f \in Seq(Texts) /\ Len(f) \in 1 .. Rotated + 1
    /\ \E pre \in Texts : taken = pre \o Oldest(f) /\ (pre = <<>> \/ Len(f) = Rotated + 1)

\* Rotating loses nothing but what the oldest file held.
LEMMA RotateKeeps ==
    ASSUME NEW f, NEW taken, FilesKept(f, taken)
    PROVE  FilesKept(Rotate(f), taken)
<1> DEFINE N == Len(f)
           n == IF N < Rotated THEN N ELSE Rotated
           u == SubSeq(f, 1, n)
           w == << <<>> >> \o u
<1>1. PICK pre \in Texts : taken = pre \o Oldest(f) /\ (pre = <<>> \/ N = Rotated + 1)
  BY DEF FilesKept
<1>2. f \in Seq(Texts) /\ N \in 1 .. Rotated + 1 /\ Rotated \in Nat /\ Rotated >= 1
  BY SizesAssumption DEF FilesKept
<1>3. Rotate(f) = w
  BY DEF Rotate
<1>4. CASE N <= Rotated
  <2>1. n = N
    BY <1>2, <1>4
  <2>2. u = f
    BY <1>2, <2>1, SubSeqFull
  <2> HIDE DEF w
  <2>3. w = << <<>> >> \o f
    BY <2>2 DEF w
  <2>4. w \in Seq(Texts) /\ Len(w) = N + 1 /\ Oldest(w) = Oldest(f)
    BY <1>2, <2>3, OldestShifts
  <2>5. pre = <<>> /\ Len(w) \in 1 .. Rotated + 1
    BY <1>1, <1>2, <1>4, <2>4
  <2> QED
    BY <1>1, <1>3, <2>4, <2>5 DEF FilesKept
<1>5. CASE N = Rotated + 1
  <2>1. n = Rotated
    BY <1>2, <1>5
  <2> HIDE DEF w, u, n
  <2>2. u = SubSeq(f, 1, Rotated)
    BY <2>1 DEF u
  <2>3. /\ u \in Seq(Texts) /\ Len(u) = Rotated
        /\ f[Rotated + 1] \in Texts /\ Oldest(u) \in Texts
        /\ Oldest(f) = f[Rotated + 1] \o Oldest(u)
    BY <1>2, <1>5, <2>2, OldestDrops
  <2>4. w \in Seq(Texts) /\ Len(w) = Rotated + 1 /\ Oldest(w) = Oldest(u)
    BY <2>3, OldestShifts DEF w
  <2> DEFINE x == f[Rotated + 1]
             y == Oldest(u)
  <2>5. x \in Seq(Messages) /\ y \in Seq(Messages) /\ pre \in Seq(Messages)
    BY <2>3 DEF Texts
  <2> HIDE DEF x, y
  <2>6. (pre \o x) \o y = pre \o (x \o y) /\ pre \o x \in Seq(Messages)
    BY ONLY <2>5, Grouped
  <2>7. taken = (pre \o x) \o Oldest(w) /\ pre \o x \in Texts
    BY <1>1, <2>3, <2>4, <2>6 DEF x, y, Texts
  <2>8. Len(w) \in 1 .. Rotated + 1
    BY <1>2, <2>4
  <2> QED
    BY <1>3, <2>4, <2>7, <2>8 DEF FilesKept
<1> QED
  BY <1>2, <1>4, <1>5

\* A write, with the rotation that may follow it.
LEMMA WriteKeeps ==
    ASSUME NEW f, NEW taken, NEW m \in Messages, FilesKept(f, taken)
    PROVE  FilesKept(WriteTo(f, m), Append(taken, m))
<1> DEFINE w == [f EXCEPT ![1] = Append(@, m)]
<1>1. PICK pre \in Texts : taken = pre \o Oldest(f) /\ (pre = <<>> \/ Len(f) = Rotated + 1)
  BY DEF FilesKept
<1>2. f \in Seq(Texts) /\ Len(f) \in 1 .. Rotated + 1 /\ f # <<>>
  <2>1. f \in Seq(Texts) /\ Len(f) \in 1 .. Rotated + 1 /\ Rotated \in Nat
    BY SizesAssumption DEF FilesKept
  <2> QED
    BY <2>1, EmptySeq
<1>3. WriteTo(f, m) = IF Len(w[1]) > MaxSize THEN Rotate(w) ELSE w
  BY DEF WriteTo
<1> HIDE DEF w
<1>4. /\ w \in Seq(Texts) /\ Len(w) = Len(f)
      /\ Oldest(f) \in Texts /\ Oldest(w) = Append(Oldest(f), m)
  BY <1>2, OldestAppends DEF w
<1> DEFINE y == Oldest(f)
<1>5. y \in Seq(Messages) /\ pre \in Seq(Messages) /\ <<m>> \in Seq(Messages)
  BY <1>1, <1>4 DEF Texts
<1> HIDE DEF y
<1>6. Append(pre \o y, m) = pre \o Append(y, m)
  <2>1. ASSUME NEW p \in Seq(Messages), NEW q \in Seq(Messages)
        PROVE  p \o Append(q, m) = Append(p \o q, m)
    BY ONLY p \in Seq(Messages), q \in Seq(Messages), m \in Messages, AppendJoined
  <2> QED
    BY ONLY <1>5, <2>1
<1>7. Append(taken, m) = pre \o Oldest(w)
  BY <1>1, <1>4, <1>6 DEF y
<1>8. FilesKept(w, Append(taken, m))
  BY <1>1, <1>2, <1>4, <1>7 DEF FilesKept
<1> QED
  BY <1>3, <1>8, RotateKeeps

\* What FilesHoldTheLatest says of one target.
LEMMA KeptIsSuffix ==
    ASSUME NEW f, NEW taken, Oldest(f) \in Texts, FilesKept(f, taken)
    PROVE  IsSuffix(Oldest(f), taken) /\ (Oldest(f) = taken \/ Len(f) = Rotated + 1)
<1> DEFINE s == Oldest(f)
<1>1. PICK pre \in Texts : taken = pre \o s /\ (pre = <<>> \/ Len(f) = Rotated + 1)
  BY DEF FilesKept
<1>2. s \in Seq(Messages) /\ pre \in Seq(Messages)
  BY <1>1 DEF Texts
<1> HIDE DEF s
<1> DEFINE n == Len(s)
           K == Len(pre)
           p == Reverse(s)
           q == Reverse(taken)
<1>3. n \in Nat /\ K \in Nat
  BY <1>2, LenProperties
<1>4. /\ taken \in Seq(Messages) /\ Len(taken) = K + n
      /\ \A i \in 1 .. K + n : taken[i] = IF i <= K THEN pre[i] ELSE s[i - K]
  BY <1>1, <1>2, ConcatProperties
<1>5. p = [i \in 1 .. n |-> s[(n - i) + 1]] /\ Len(p) = n
  <2>1. p = [i \in 1 .. n |-> s[(n - i) + 1]]
    BY DEF Reverse
  <2>2. Len([i \in 1 .. n |-> s[(n - i) + 1]]) = n
    BY <1>3
  <2> QED
    BY <2>1, <2>2
<1>6. q = [i \in 1 .. K + n |-> taken[((K + n) - i) + 1]] /\ Len(q) = K + n
  <2>1. q = [i \in 1 .. K + n |-> taken[((K + n) - i) + 1]]
    BY <1>4 DEF Reverse
  <2>2. Len([i \in 1 .. K + n |-> taken[((K + n) - i) + 1]]) = K + n
    BY <1>3
  <2> QED
    BY <2>1, <2>2
<1>7. ASSUME NEW i \in 1 .. n PROVE p[i] = q[i]
  <2>1. i \in 1 .. K + n /\ ((K + n) - i) + 1 \in 1 .. K + n
        /\ ~ (((K + n) - i) + 1 <= K) /\ (((K + n) - i) + 1) - K = (n - i) + 1
    BY <1>3
  <2>2. q[i] = taken[((K + n) - i) + 1]
    BY <1>6, <2>1
  <2>3. p[i] = s[(n - i) + 1]
    BY <1>5
  <2> HIDE DEF p, q, n, K
  <2> QED
    BY <1>4, <2>1, <2>2, <2>3
<1> HIDE DEF n, K, p, q
<1>8. SubSeq(p, 1, n) = SubSeq(q, 1, n)
  <2>1. SubSeq(p, 1, n) = [i \in 1 .. n |-> p[i]]
    BY <1>3, <1>5
  <2>2. SubSeq(q, 1, n) = [i \in 1 .. n |-> q[i]]
    BY <1>3, <1>6
  <2> QED
    BY <1>7, <2>1, <2>2
<1>9. IsPrefix(p, q)
  <2>1. n <= K + n
    BY <1>3
  <2> QED
    BY <1>5, <1>6, <1>8, <2>1 DEF IsPrefix
<1>10. pre = <<>> => s = taken
  BY <1>1, <1>2, ConcatEmptySeq
<1> QED
  BY <1>1, <1>9, <1>10 DEF IsSuffix, p, q, s

-----------------------------------------------------------------------------
LEMMA OldestIsText == ASSUME NEW f \in Seq(Texts) PROVE Oldest(f) \in Texts
<1>1. PICK h : Computes(h, Texts, <<>>, HoldSteps(f), Len(f)) /\ Oldest(f) = h[Len(f)]
  BY OldestComputed
<1>2. Len(f) \in Nat
  BY LenProperties
<1> QED
  BY <1>1, <1>2 DEF Computes

AllFilesKept ==
    /\ files = [t \in Targets |-> files[t]]
    /\ \A t \in Targets : FilesKept(files[t], Taken(t, handled))

LEMMA FilesInitInv == LogInit => AllFilesKept
<1> SUFFICES ASSUME LogInit PROVE AllFilesKept
  OBVIOUS
<1>1. files = [t \in Targets |-> << <<>> >>] /\ handled = <<>>
  BY DEF LogInit
<1>2. ASSUME NEW t \in Targets PROVE FilesKept(<< <<>> >>, Taken(t, <<>>))
  <2>1. <<>> \in Texts /\ <<>> \in Seq(Texts) /\ Len(<<>>) = 0
    BY DEF Texts
  <2>2. PICK g : Computes(g, Texts, <<>>, TakeSteps(t, <<>>), 0) /\ Taken(t, <<>>) = g[0]
    BY <2>1, TakenComputed
  <2>3. Taken(t, <<>>) = <<>>
    BY <2>2 DEF Computes
  <2>4. PICK h : Computes(h, Texts, <<>>, HoldSteps(<<>>), 0) /\ Oldest(<<>>) = h[0]
    BY <2>1, OldestComputed
  <2>5. Oldest(<<>>) = <<>>
    BY <2>4 DEF Computes
  <2> DEFINE e == <<>>
             w == << <<>> >> \o e
             v == << <<>> >>
  <2>6. w \in Seq(Texts) /\ Len(w) = 1 /\ Oldest(w) = <<>>
    <3>1. e \in Seq(Texts) /\ Len(e) = 0 /\ Oldest(e) = <<>>
      BY <2>1, <2>5
    <3> HIDE DEF e
    <3>2. w = << <<>> >> \o e
      OBVIOUS
    <3> HIDE DEF w
    <3>3. w \in Seq(Texts) /\ Len(w) = Len(e) + 1 /\ Oldest(w) = Oldest(e)
      BY <3>1, <3>2, OldestShifts
    <3> QED
      BY <3>1, <3>3
  <2>7. v \in Seq(Texts)
    BY <2>1
  <2> HIDE DEF v
  <2>8. w = v
    BY <2>7, ConcatEmptySeq DEF v
  <2> HIDE DEF w, e
  <2>9. <<>> \o <<>> = <<>>
    BY <2>1, ConcatEmptySeq DEF Texts
  <2>10. FilesKept(v, <<>>)
    <3>1. v \in Seq(Texts) /\ Len(v) \in 1 .. Rotated + 1
      <4>1. Len(v) = 1 /\ v \in Seq(Texts) /\ Rotated \in Nat
        BY <2>6, <2>8, SizesAssumption
      <4> QED
        BY <4>1
    <3>2. <<>> = <<>> \o Oldest(v)
      BY <2>6, <2>8, <2>9
    <3> QED
      BY <2>1, <3>1, <3>2 DEF FilesKept
  <2> QED
    BY <2>3, <2>10 DEF v
<1> QED
  BY <1>1, <1>2 DEF AllFilesKept

LEMMA FilesStepInv ==
    ASSUME handled \in Texts, logq \in Seq(Messages \union {Die}), AllFilesKept, [LogNext]_logVars
    PROVE  AllFilesKept'
<1>1. CASE logthreadWrites
  <2> DEFINE m == Head(logq)
  <2>1. /\ m \in Messages /\ handled' = Append(handled, m)
        /\ files' = [t \in Targets |-> IF m[2] \in Takes[t] THEN WriteTo(files[t], m) ELSE files[t]]
    <3>1. m \in Messages \union {Die}
      BY <1>1, HeadTailProperties DEF logthreadWrites
    <3> QED
      BY <1>1, <3>1 DEF logthreadWrites
  <2> HIDE DEF m
  <2>2. ASSUME NEW t \in Targets PROVE FilesKept(files'[t], Taken(t, handled'))
    <3>1. Taken(t, handled') = IF m[2] \in Takes[t] THEN Append(Taken(t, handled), m) ELSE Taken(t, handled)
      BY <2>1, TakenAppends
    <3>2. files'[t] = IF m[2] \in Takes[t] THEN WriteTo(files[t], m) ELSE files[t]
      BY <2>1
    <3>3. FilesKept(files[t], Taken(t, handled))
      BY DEF AllFilesKept
    <3>4. CASE m[2] \in Takes[t]
      <4>1. FilesKept(WriteTo(files[t], m), Append(Taken(t, handled), m))
        BY <2>1, <3>3, WriteKeeps
      <4> QED
        BY <3>1, <3>2, <3>4, <4>1
    <3>5. CASE ~ (m[2] \in Takes[t])
      BY <3>1, <3>2, <3>3, <3>5
    <3> QED
      BY <3>4, <3>5
  <2> QED
    BY <2>1, <2>2 DEF AllFilesKept
<1>2. CASE UNCHANGED <<handled, files>>
  BY <1>2 DEF AllFilesKept
<1>3. [LogNext]_logVars => logthreadWrites \/ UNCHANGED <<handled, files>>
  BY DEF LogNext, logEarly, daemonize, stoplog, stoplogNone, stopped, logthreadUp, logthreadDies, Log,
         logLock, logStart, logUnlock, logLook, logFlush, logFlushed, logForget, logSend,
         logVars, writing
<1> QED
  BY <1>1, <1>2, <1>3

LEMMA FilesInvMeans == AllFilesKept => FilesHoldTheLatest
<1> SUFFICES ASSUME AllFilesKept, NEW t \in Targets
             PROVE  /\ IsSuffix(Oldest(files[t]), Taken(t, handled))
                    /\ Oldest(files[t]) = Taken(t, handled) \/ Len(files[t]) = Rotated + 1
  BY DEF FilesHoldTheLatest
<1>1. FilesKept(files[t], Taken(t, handled))
  BY DEF AllFilesKept
<1>2. Oldest(files[t]) \in Texts
  BY <1>1, OldestIsText DEF FilesKept
<1> QED
  BY <1>1, <1>2, KeptIsSuffix

LEMMA LogInvariance ==
    ASSUME Early = {} PROVE LogSpec => [](LogInv /\ AllFilesKept)
<1>1. LogInit => LogInv /\ AllFilesKept
  BY LogInitInv, FilesInitInv
<1>2. LogInv /\ AllFilesKept /\ [LogNext]_logVars => (LogInv /\ AllFilesKept)'
  <2>1. LogInv => handled \in Texts /\ logq \in Seq(Messages \union {Die})
    BY DEF LogInv, LogTypes, Texts
  <2> QED
    BY <2>1, LogStepInv, FilesStepInv
<1> QED
  BY <1>1, <1>2, PTL DEF LogSpec

\* Of all threads that log in a daemon, each message is written once and in the
\* order of its thread, the ones kept before it detached included; stoplog
\* returns after the last of what was logged before it; and the files of each
\* target hold the latest it took, short of nothing but what rotation drops. No
\* thread may log beside the first one before that has sent what was kept.
THEOREM LogIsKept ==
    ASSUME Early = {} PROVE LogSpec => []LogKept
<1>1. LogInv /\ AllFilesKept => LogKept
  BY LogInvMeans, FilesInvMeans DEF LogKept
<1> QED
  BY <1>1, LogInvariance, PTL

(***************************************************************************)
(* The types of all classes                                                *)
(***************************************************************************)
LogRest ==
    /\ daemonized \in BOOLEAN /\ alone \in BOOLEAN
    /\ logmutex \in Loggers \union {Nobody}
    /\ due \in [Loggers -> 0 .. MaxLogs]

LEMMA LogRestStep ==
    ASSUME LogInv, LogRest, [LogNext]_logVars
    PROVE  LogRest'
<1> USE DEF LogRest
<1>1. CASE stoplog
  <2>1. UNCHANGED <<daemonized, alone, logmutex>> /\ due' = [l \in Loggers |-> IF lpc[l] = "idle" THEN count[l] ELSE count[l] - 1]
        /\ lpc[Main] = "idle"
    BY <1>1 DEF stoplog, At, kept
  <2>2. ASSUME NEW l \in Loggers
        PROVE  (IF lpc[l] = "idle" THEN count[l] ELSE count[l] - 1) \in 0 .. MaxLogs
    <3>1. count[l] \in 0 .. MaxLogs /\ lpc[l] \in Mid \union {"idle", "stopping", "stopped"} /\ MaxLogs \in Nat
      BY SizesAssumption DEF LogInv, LogTypes
    <3>2. lpc[l] \notin {"stopping", "stopped"}
      BY <2>1 DEF LogInv, First, Loggers
    <3>3. lpc[l] # "idle" => count[l] > 0
      BY <3>1, <3>2 DEF LogInv, First
    <3> QED
      BY <3>1, <3>3
  <2> QED
    BY <2>1, <2>2
<1>2. CASE daemonize
  BY <1>2 DEF daemonize, callers
<1>3. ASSUME NEW l \in Loggers, Log(l) PROVE LogRest'
  <2>1. UNCHANGED <<daemonized, due>>
    BY <1>3 DEF Log, logLock, logStart, logUnlock, logLook, logFlush, logFlushed, logForget, logSend
  <2>2. logmutex' \in {logmutex, l, Nobody}
    BY <1>3 DEF Log, logLock, logStart, logUnlock, logLook, logFlush, logFlushed, logForget, logSend
  <2>3. alone' \in BOOLEAN
    <3>1. CASE logSend(l)
      BY <3>1 DEF logSend
    <3>2. CASE ~ logSend(l)
      BY <1>3, <3>2 DEF Log, logLock, logStart, logUnlock, logLook, logFlush, logFlushed, logForget
    <3> QED
      BY <3>1, <3>2
  <2> QED
    BY <2>1, <2>2, <2>3
<1>4. CASE logEarly \/ stoplogNone \/ stopped \/ logthreadUp \/ logthreadWrites \/ logthreadDies \/ UNCHANGED logVars
  BY <1>4 DEF logEarly, stoplogNone, stopped, logthreadUp, logthreadWrites, logthreadDies, logVars, callers
<1> QED
  BY <1>1, <1>2, <1>3, <1>4 DEF LogNext

LEMMA LogTypesFollow ==
    ASSUME LogInv, AllFilesKept, LogRest
    PROVE  LogTypeOK
<1>1. files \in [Targets -> Seq(Seq(Messages))]
  BY DEF AllFilesKept, FilesKept, Texts
<1>2. /\ lpc \in [Loggers -> {"idle", "locked", "starting", "unlocked", "flush", "flushed",
                            "send", "stopping", "stopped"}]
      /\ lidx \in [Loggers -> Nat] /\ count \in [Loggers -> 0 .. MaxLogs]
  BY DEF LogInv, LogTypes, Mid
<1>3. backlog \in Seq(Messages) /\ handled \in Seq(Messages)
  BY DEF LogInv, LogTypes
<1>4. logq \in Seq(Messages \union {Die}) /\ logthread \in {"none", "starting", "up", "dead"} /\ dq \in BOOLEAN
  BY DEF LogInv, LogTypes
<1>5. {daemonized, alone, dq} \subseteq BOOLEAN
  BY <1>4 DEF LogRest
<1> QED
  BY <1>1, <1>2, <1>3, <1>4, <1>5 DEF LogTypeOK, LogRest

\* The variables of every class keep their types side by side, where timed locks exist, no lock is
\* asked for inside another but a read lock, and one thread logs until what was kept is sent.
THEOREM SyncTypes ==
    ASSUME NativeUse, Early = {}
    PROVE  SyncSpec => []SyncTypeOK
<1> DEFINE Inv == /\ part = "conditional" => TypeOK
                  /\ part # "conditional" => QueueTypeOK
                  /\ TypedLock /\ NativeInv /\ RetainInv
                  /\ LogInv /\ AllFilesKept /\ LogRest
<1>1. SyncInit => Inv
  <2>1. LogInit => LogRest
    <3> SUFFICES ASSUME LogInit PROVE LogRest
      OBVIOUS
    <3>1. 0 \in 0 .. MaxLogs
      BY SizesAssumption
    <3>2. due \in [Loggers -> 0 .. MaxLogs]
      BY <3>1 DEF LogInit
    <3>3. daemonized \in BOOLEAN /\ alone \in BOOLEAN
      BY DEF LogInit
    <3>4. logmutex = Nobody
      BY DEF LogInit
    <3> QED
      BY <3>2, <3>3, <3>4 DEF LogRest
  <2> QED
    BY <2>1, LockInitTyped, ConditionalTypeInit, QueueTypeInit, NativeInitInv, RetainInitInv, LogInitInv, FilesInitInv DEF SyncInit
<1>2. Inv /\ [SyncNext]_<<part, vars, boxVars, lockVars, nativeVars, retainVars, logVars>> => Inv'
  <2> SUFFICES ASSUME Inv, [SyncNext]_<<part, vars, boxVars, lockVars, nativeVars, retainVars, logVars>> PROVE Inv'
    OBVIOUS
  <2>1. part' = part
    BY DEF SyncNext
  <2>2. [LockNext]_lockVars /\ [NativeNext]_nativeVars
    BY DEF SyncNext
  <2>3. [RetainNext]_retainVars /\ [LogNext]_logVars
    BY DEF SyncNext
  <2>4. part = "conditional" => [Next]_vars
    BY DEF SyncNext
  <2>5. part # "conditional" => [QueueNext]_queueVars
    BY DEF SyncNext, vars, boxVars, queueVars, cond
  <2>6. TypedLock' /\ NativeInv' /\ RetainInv'
    BY <2>2, <2>3, LockTypeStep, NativeStepInv, RetainStepInv
  <2>7. LogInv' /\ LogRest' /\ AllFilesKept'
    <3>1. handled \in Texts /\ logq \in Seq(Messages \union {Die})
      BY DEF LogInv, LogTypes, Texts
    <3> QED
      BY <2>3, <3>1, LogStepInv, LogRestStep, FilesStepInv
  <2> QED
    BY <2>1, <2>4, <2>5, <2>6, <2>7, ConditionalTypeStep, QueueTypeStep
<1>3. Inv => SyncTypeOK
  <2>1. NativeInv => NativeTypeOK
    BY DEF NativeInv
  <2>2. RetainInv => RetainTypeOK
    BY DEF RetainInv, RetainTypeOK, Standing, Heap, HandedOnce, Made, MadeOrNil, Blocks
  <2> QED
    BY <2>1, <2>2, LogTypesFollow DEF SyncTypeOK, TypedLock
<1> QED
  BY <1>1, <1>2, <1>3, PTL DEF SyncSpec
=============================================================================
