---------------------------- MODULE PoolsProofs -----------------------------
(***************************************************************************)
(* For every number of workers, connections and rounds, of the httpd and   *)
(* of the smtpd: until shutdown the pool never has fewer than minthr       *)
(* workers alive, and when shutdown returns it has none. For every number  *)
(* of clients and of requests: sessions go and come back as they should.   *)
(* And the system that MCPools puts together from these keeps its types.   *)
(*                                                                         *)
(* The first claim is not inductive. What makes it so is a fact about the  *)
(* array: while the main loop runs nobody calls gc, so member 1 stays the  *)
(* same worker, and it is the only one the skim ever asks to die.          *)
(***************************************************************************)
EXTENDS MCPools, Induction, FiniteSetTheorems, SequenceTheorems, TLAPS

(***************************************************************************)
(* The pool                                                                *)
(***************************************************************************)
\* Nobody was ever put in the array twice, or without being started.
Distinct ==
    /\ \A i, j \in DOMAIN members : members[i] = members[j] => i = j
    /\ \A i \in DOMAIN members : wpc[members[i]] # "none"

\* Only the first worker was sent away, and only from a pool above minthr.
OnlyTheFirst ==
    \A w \in Gone \union die : Len(members) > MinThr /\ w = members[1]

\* What "<<...>> appended" does to the array.
LEMMA Appended ==
    ASSUME NEW s \in Seq(Workers), NEW w \in Workers
    PROVE  /\ Append(s, w) \in Seq(Workers)
           /\ Len(Append(s, w)) = Len(s) + 1
           /\ \A i \in DOMAIN s : i \in DOMAIN Append(s, w) /\ Append(s, w)[i] = s[i]
           /\ Len(s) + 1 \in DOMAIN Append(s, w) /\ Append(s, w)[Len(s) + 1] = w
           /\ \A i \in DOMAIN Append(s, w) : i \in DOMAIN s \/ i = Len(s) + 1
  OBVIOUS

\* What removing one of a list leaves.
LEMMA Removed ==
    ASSUME NEW S, NEW s \in Seq(S), NEW k \in DOMAIN s
    PROVE  /\ RemoveAt(s, k) \in Seq(S)
           /\ Len(RemoveAt(s, k)) = Len(s) - 1
           /\ \A i \in 1 .. Len(s) - 1 : RemoveAt(s, k)[i] = IF i < k THEN s[i] ELSE s[i + 1]
<1> DEFINE n == Len(s)
           a == SubSeq(s, 1, k - 1)
           b == SubSeq(s, k + 1, n)
<1>1. n \in Nat /\ DOMAIN s = 1 .. n /\ k \in 1 .. n /\ \A i \in 1 .. n : s[i] \in S
  BY LenProperties
<1>2. /\ a \in Seq(S) /\ Len(a) = k - 1
      /\ \A i \in 1 .. k - 1 : a[i] = s[i]
  <2>1. 1 \in Int /\ k - 1 \in Int /\ \A i \in 1 .. k - 1 : s[i] \in S
    BY <1>1
  <2>2. /\ a \in Seq(S)
        /\ Len(a) = IF 1 <= k - 1 THEN (k - 1) - 1 + 1 ELSE 0
        /\ \A i \in 1 .. (k - 1) - 1 + 1 : a[i] = s[1 + i - 1]
    BY <2>1, SubSeqProperties
  <2> HIDE DEF a, n
  <2> QED
    BY <1>1, <2>2
<1>3. /\ b \in Seq(S) /\ Len(b) = n - k
      /\ \A i \in 1 .. n - k : b[i] = s[k + i]
  <2>1. k + 1 \in Int /\ n \in Int /\ \A i \in k + 1 .. n : s[i] \in S
    BY <1>1
  <2>2. /\ b \in Seq(S)
        /\ Len(b) = IF k + 1 <= n THEN n - (k + 1) + 1 ELSE 0
        /\ \A i \in 1 .. n - (k + 1) + 1 : b[i] = s[(k + 1) + i - 1]
    BY <2>1, SubSeqProperties
  <2> HIDE DEF b, n
  <2>3. /\ (IF k + 1 <= n THEN n - (k + 1) + 1 ELSE 0) = n - k
        /\ n - (k + 1) + 1 = n - k
        /\ \A i \in 1 .. n - k : (k + 1) + i - 1 = k + i
    BY <1>1
  <2> QED
    BY <2>2, <2>3
<1>4. RemoveAt(s, k) = a \o b
  BY DEF RemoveAt
<1> HIDE DEF a, b, n
<1>5. /\ a \o b \in Seq(S) /\ Len(a \o b) = Len(a) + Len(b)
      /\ \A i \in 1 .. Len(a) + Len(b) : (a \o b)[i] = IF i <= Len(a) THEN a[i] ELSE b[i - Len(a)]
  BY ONLY <1>2, <1>3, ConcatProperties
<1>6. Len(a) = k - 1 /\ Len(a) + Len(b) = n - 1
  BY <1>1, <1>2, <1>3
<1>7. ASSUME NEW i \in 1 .. n - 1
      PROVE  (a \o b)[i] = IF i < k THEN s[i] ELSE s[i + 1]
  <2>1. CASE i < k
    <3>1. i <= k - 1 /\ i \in 1 .. k - 1
      BY <1>1, <2>1
    <3> QED
      BY <1>2, <1>5, <1>6, <2>1, <3>1
  <2>2. CASE ~ (i < k)
    <3>1. ~ (i <= k - 1) /\ i - (k - 1) \in 1 .. n - k /\ k + (i - (k - 1)) = i + 1
      BY <1>1, <2>2
    <3> QED
      BY <1>3, <1>5, <1>6, <2>2, <3>1
  <2> QED
    BY <2>1, <2>2
<1> QED
  BY <1>4, <1>5, <1>6, <1>7 DEF n

\* What gc does to it.
LEMMA Deleted ==
    ASSUME NEW s \in Seq(Workers), NEW k \in DOMAIN s, NEW t,
           t = SubSeq(s, 1, k - 1) \o SubSeq(s, k + 1, Len(s))
    PROVE  /\ t \in Seq(Workers)
           /\ Len(t) = Len(s) - 1
           /\ Range(s) \ {s[k]} \subseteq Range(t)
<1> DEFINE n == Len(s)
<1>1. n \in Nat /\ DOMAIN s = 1 .. n
  BY LenProperties
<1>2. t = RemoveAt(s, k)
  BY DEF RemoveAt
<1>3. /\ t \in Seq(Workers) /\ Len(t) = n - 1
      /\ \A i \in 1 .. n - 1 : t[i] = IF i < k THEN s[i] ELSE s[i + 1]
  BY <1>2, Removed
<1>4. DOMAIN t = 1 .. n - 1
  BY <1>3, LenProperties
<1> HIDE DEF n
<1>5. ASSUME NEW i \in DOMAIN s, i # k
      PROVE  \E j \in DOMAIN t : t[j] = s[i]
  <2>0. i \in 1 .. n /\ k \in 1 .. n
    BY <1>1
  <2>1. CASE i < k
    <3>1. i \in 1 .. n - 1
      BY <1>1, <2>0, <2>1
    <3> QED
      BY <1>3, <1>4, <2>1, <3>1
  <2>2. CASE i > k
    <3>1. i - 1 \in DOMAIN t /\ ~ (i - 1 < k) /\ (i - 1) + 1 = i
      BY <1>1, <1>4, <2>0, <2>2
    <3> QED
      BY <1>3, <1>4, <3>1
  <2>3. i < k \/ i > k
    BY <1>1, <1>5, <2>0
  <2> QED
    BY ONLY <2>1, <2>2, <2>3
<1>6. Range(s) \ {s[k]} \subseteq Range(t)
  <2> SUFFICES ASSUME NEW x \in Range(s), x # s[k]  PROVE x \in Range(t)
    OBVIOUS
  <2>1. PICK i \in DOMAIN s : s[i] = x
    BY ONLY x \in Range(s) DEF Range
  <2>2. PICK j \in DOMAIN t : t[j] = x
    BY <1>5, <2>1
  <2> QED
    BY ONLY <2>2 DEF Range
<1> QED
  BY <1>3, <1>6 DEF n

\* One more worker, whoever asks for it.
LEMMA NewWorkerKeeps ==
    ASSUME PoolTypeOK, Distinct, OnlyTheFirst, NewWorker, UNCHANGED <<die, tcplock, load, nload, conns>>
    PROVE  /\ PoolTypeOK'
           /\ Len(members') = Len(members) + 1
           /\ Distinct' /\ OnlyTheFirst'
<1> USE DEF PoolTypeOK
<1>1. PICK w \in Workers : Reach(w, "none", "wait") /\ members' = Append(members, w)
  BY DEF NewWorker
<1>2. /\ members' \in Seq(Workers)
      /\ Len(members') = Len(members) + 1
      /\ \A i \in DOMAIN members : i \in DOMAIN members' /\ members'[i] = members[i]
      /\ Len(members) + 1 \in DOMAIN members' /\ members'[Len(members) + 1] = w
      /\ \A i \in DOMAIN members' : i \in DOMAIN members \/ i = Len(members) + 1
  BY <1>1, Appended
<1>3. \A i \in DOMAIN members : members[i] # w
  BY <1>1 DEF Distinct, Reach
<1>4. Range(members') = Range(members) \union {w}
  BY <1>2 DEF Range
<1>5. wpc' = [wpc EXCEPT ![w] = "wait"] /\ wpc[w] = "none"
  BY <1>1 DEF Reach
<1>6. Alive' \subseteq Alive \union {w} /\ Gone' = Gone
  BY <1>5 DEF Alive, Gone
<1>7. PoolTypeOK'
  BY <1>2, <1>4, <1>5, <1>6
<1>8. Distinct'
  <2>1. \A i, j \in DOMAIN members' : members'[i] = members'[j] => i = j
    BY <1>2, <1>3 DEF Distinct
  <2>2. members \in [1 .. Len(members) -> Workers] /\ DOMAIN members = 1 .. Len(members)
    BY LenProperties
  <2>3. \A i \in DOMAIN members : wpc'[members'[i]] # "none"
    BY <1>2, <1>5, <2>2 DEF Distinct
  <2>4. wpc'[members'[Len(members) + 1]] # "none"
    BY <1>2, <1>5
  <2>5. \A i \in DOMAIN members' : wpc'[members'[i]] # "none"
    BY <1>2, <2>3, <2>4
  <2> QED
    BY <2>1, <2>5 DEF Distinct
<1>9. OnlyTheFirst'
  <2> SUFFICES ASSUME NEW x \in Gone \union die
               PROVE  Len(members') > MinThr /\ x = members'[1]
    BY <1>6 DEF OnlyTheFirst
  <2>1. Len(members) > MinThr /\ x = members[1]
    BY DEF OnlyTheFirst
  <2>2. 1 \in DOMAIN members
    BY <2>1, ThreadsAssumption
  <2> QED
    BY <1>2, <2>1, <2>2, ThreadsAssumption
<1> QED
  BY <1>2, <1>7, <1>8, <1>9

\* A worker's step adds nobody to those who left or were told to.
LEMMA WorkerKeeps ==
    ASSUME PoolTypeOK, NEW w \in Workers, Work(w) \/ accept(w)
    PROVE  /\ PoolTypeOK' /\ members' = members
           /\ Distinct => Distinct'
           /\ OnlyTheFirst => OnlyTheFirst'
<1> USE DEF PoolTypeOK
<1>1. members' = members
  BY DEF Work, accept, trylockw, leaveWaiting, leaveAccepting, ReadLoad, WriteLoad, serve
<1>2. /\ wpc[w] \notin {"none", "gone"}
      /\ \E to \in {"wait", "accept", "count", "counting", "serve", "uncount",
                    "uncounting", "gone"} :
           /\ wpc' = [wpc EXCEPT ![w] = to]
           /\ IF to = "gone" THEN w \in die /\ die' = die \ {w} ELSE die' = die
  BY DEF Work, accept, trylockw, leaveWaiting, leaveAccepting, ReadLoad, WriteLoad,
         serve, Leave, Reach
<1>3. \A x \in Workers : tcplock' = x <=> wpc'[x] = "accept"
  BY WorkersAssumption
     DEF Work, accept, trylockw, leaveWaiting, leaveAccepting, ReadLoad, WriteLoad,
         serve, Leave, Reach
<1>4. /\ tcplock' \in Workers \union {None}
      /\ load' \in Int /\ nload' \in [Workers -> Int] /\ conns' \in 0 .. MaxConns
  BY ConnsAssumption
     DEF Work, accept, trylockw, leaveWaiting, leaveAccepting, ReadLoad, WriteLoad,
         serve, Leave, Reach
<1>5. (Gone \union die)' \subseteq Gone \union die /\ Alive' \subseteq Alive
  BY <1>2 DEF Gone, Alive
<1>6. PoolTypeOK'
  BY <1>1, <1>2, <1>3, <1>4, <1>5
<1>7. Distinct => Distinct'
  BY <1>1, <1>2 DEF Distinct
<1>8. OnlyTheFirst => OnlyTheFirst'
  BY <1>1, <1>5 DEF OnlyTheFirst
<1> QED
  BY <1>1, <1>6, <1>7, <1>8

\* The first worker is asked to die, of a pool above minthr.
LEMMA SkimKeeps ==
    ASSUME PoolTypeOK, Distinct, OnlyTheFirst, Len(members) > MinThr,
           die' = die \union {members[1]},
           UNCHANGED <<members, wpc, tcplock, load, nload, conns>>
    PROVE  PoolTypeOK' /\ Distinct' /\ OnlyTheFirst'
<1> USE DEF PoolTypeOK
<1>1. 1 \in DOMAIN members /\ members[1] \in Range(members)
  BY ThreadsAssumption DEF Range
<1>2. PoolTypeOK'
  BY <1>1 DEF Alive
<1>3. Distinct' /\ OnlyTheFirst'
  BY DEF Distinct, OnlyTheFirst, Gone
<1> QED
  BY <1>2, <1>3

\* gc takes away a worker that has left.
LEMMA CollectKeeps ==
    ASSUME PoolTypeOK, NEW i \in DOMAIN members, members[i] \in Gone,
           members' = SubSeq(members, 1, i - 1) \o SubSeq(members, i + 1, Len(members)),
           die' = die \ {members[i]},
           UNCHANGED <<wpc, tcplock, load, nload, conns>>
    PROVE  PoolTypeOK' /\ Len(members') = Len(members) - 1
<1> USE DEF PoolTypeOK
<1>1. /\ members' \in Seq(Workers) /\ Len(members') = Len(members) - 1
      /\ Range(members) \ {members[i]} \subseteq Range(members')
  BY Deleted
<1>2. Alive' = Alive /\ members[i] \notin Alive
  BY DEF Gone, Alive
<1> QED
  BY <1>1, <1>2

LEMMA TellAllKeeps ==
    ASSUME PoolTypeOK, die' = die \union Range(members),
           UNCHANGED <<members, wpc, tcplock, load, nload, conns>>
    PROVE  PoolTypeOK'
BY DEF PoolTypeOK, Alive

LEMMA PoolStands ==
    ASSUME UNCHANGED pool
    PROVE  /\ PoolTypeOK => PoolTypeOK'
           /\ Distinct => Distinct'
           /\ OnlyTheFirst => OnlyTheFirst'
BY DEF pool, PoolTypeOK, Distinct, OnlyTheFirst, Gone, Alive

LEMMA PoolInitKeeps ==
    ASSUME PoolInit
    PROVE  PoolTypeOK /\ Distinct /\ OnlyTheFirst /\ Len(members) = 0
<1>1. members = <<>> /\ Len(members) = 0 /\ members \in Seq(Workers) /\ DOMAIN members = {}
  BY DEF PoolInit
<1>2. Alive = {} /\ Gone = {} /\ die = {}
  BY DEF PoolInit, Alive, Gone
<1>3. PoolTypeOK
  BY <1>1, <1>2, WorkersAssumption, ConnsAssumption DEF PoolInit, PoolTypeOK
<1> QED
  BY <1>1, <1>2, <1>3 DEF Distinct, OnlyTheFirst

\* At most the first member is not alive, and then the pool had one to spare.
LEMMA MinimumAlive ==
    ASSUME PoolTypeOK, Distinct, OnlyTheFirst, Len(members) >= MinThr
    PROVE  Cardinality(Alive) >= MinThr
<1> DEFINE n == Len(members)
<1>1. /\ members \in Seq(Workers) /\ n \in Nat /\ DOMAIN members = 1 .. n
      /\ MinThr \in Nat \ {0} /\ n >= MinThr
  BY ThreadsAssumption DEF PoolTypeOK
<1>2. IsFiniteSet(Alive)
  BY WorkersAssumption, FS_Subset DEF Alive
<1>3. \A i \in 1 .. n : members[i] \in Workers /\ wpc[members[i]] # "none"
  BY <1>1 DEF Distinct
<1> HIDE DEF n
<1>4. CASE Gone = {}
  <2> DEFINE f == [i \in 1 .. n |-> members[i]]
  <2>1. \A i \in 1 .. n : members[i] \in Alive
    BY <1>3, <1>4 DEF Alive, Gone
  <2>2. f \in Injection(1 .. n, Alive)
    BY <1>1, <2>1 DEF Injection, IsInjective, Distinct
  <2>3. Cardinality(1 .. n) <= Cardinality(Alive)
    BY <1>2, <2>2, FS_Injection
  <2>4. Cardinality(1 .. n) = n /\ Cardinality(Alive) \in Nat
    BY <1>1, <1>2, FS_Interval, FS_CardinalityType
  <2> QED
    BY <1>1, <2>3, <2>4
<1>5. CASE Gone # {}
  <2> DEFINE f == [i \in 2 .. n |-> members[i]]
  <2>1. n > MinThr /\ Gone \subseteq {members[1]}
    BY <1>1, <1>5 DEF OnlyTheFirst, n
  <2>2. \A i \in 2 .. n : members[i] # members[1] /\ i \in 1 .. n
    BY <1>1 DEF Distinct
  <2>3. \A i \in 2 .. n : members[i] \in Alive
    BY <1>3, <2>1, <2>2 DEF Alive, Gone
  <2>4. f \in Injection(2 .. n, Alive)
    BY <1>1, <2>2, <2>3 DEF Injection, IsInjective, Distinct
  <2>5. Cardinality(2 .. n) <= Cardinality(Alive)
    BY <1>2, <2>4, FS_Injection
  <2>6. Cardinality(2 .. n) = n - 1 /\ Cardinality(Alive) \in Nat
    BY <1>1, <1>2, <2>1, FS_Interval, FS_CardinalityType
  <2> QED
    BY <1>1, <2>1, <2>5, <2>6
<1> QED
  BY <1>4, <1>5

LEMMA NobodyAlive ==
    ASSUME PoolTypeOK, members = <<>>
    PROVE  Alive = {}
<1>1. Range(members) = {}
  BY DEF Range
<1> QED
  BY <1>1 DEF PoolTypeOK

(***************************************************************************)
(* The httpd                                                               *)
(***************************************************************************)
Working == mpc \in {"start", "loop", "decide"}

HttpdInv ==
    /\ TypeOK
    /\ Working => Distinct /\ OnlyTheFirst
    /\ mpc = "start" => Count <= MinThr
    /\ mpc \in {"loop", "decide"} => Count >= MinThr
    /\ mpc = "over" => members = <<>>
    /\ raised \/ spc = "done" => mpc = "over"

LEMMA HttpdInitInv == Init => HttpdInv
<1> SUFFICES ASSUME Init PROVE HttpdInv
  OBVIOUS
<1>1. PoolTypeOK /\ Distinct /\ OnlyTheFirst /\ Len(members) = 0
  BY PoolInitKeeps DEF Init
<1>2. 0 \in 0 .. MinRounds /\ 0 \in 0 .. MaxThr /\ 0 \in Int /\ Count <= MaxThr /\ Count <= MinThr
  BY <1>1, ThreadsAssumption, RoundsAssumption DEF Count
<1>3. TypeOK
  BY <1>1, <1>2 DEF Init, TypeOK
<1> QED
  BY <1>1, <1>2, <1>3 DEF Init, HttpdInv

LEMMA HttpdStepInv ==
    ASSUME HttpdInv, Next \/ UNCHANGED vars
    PROVE  HttpdInv'
<1> USE DEF HttpdInv, TypeOK
<1>0. members \in Seq(Workers) /\ Count \in Nat
  BY LenProperties DEF PoolTypeOK, Count
<1>1. CASE startWorker
  <2>1. PoolTypeOK' /\ Len(members') = Len(members) + 1 /\ Distinct' /\ OnlyTheFirst'
    BY <1>1, NewWorkerKeeps DEF startWorker, Working
  <2> QED
    BY <1>0, <1>1, <2>1, ThreadsAssumption DEF startWorker, main, Count
<1>2. CASE started \/ idle \/ leaveBe
  <2>1. UNCHANGED <<pool, skimcount, asked, raised, spc>> /\ Working /\ Working'
    BY <1>2 DEF started, idle, leaveBe, main, Working
  <2>2. PoolTypeOK' /\ Distinct' /\ OnlyTheFirst'
    BY <2>1, PoolStands
  <2>3. tdelay' \in 0 .. MinRounds /\ tload' \in Int
    BY <1>2, RoundsAssumption DEF started, idle, leaveBe, Less, main, PoolTypeOK
  <2>4. Count' = Count
    BY <2>1 DEF pool, Count
  <2>5. mpc' \in {"loop", "decide"} /\ Count >= MinThr
    BY <1>0, <1>2, ThreadsAssumption DEF started, idle, leaveBe, Count
  <2>6. TypeOK'
    BY <2>1, <2>2, <2>3, <2>4, <2>5
  <2>7. raised \/ spc = "done" => mpc' = "over"
    BY <2>1 DEF Working
  <2> QED
    BY <2>1, <2>2, <2>4, <2>5, <2>6, <2>7
<1>3. CASE grow
  <2>1. PoolTypeOK' /\ Len(members') = Len(members) + 1 /\ Distinct' /\ OnlyTheFirst'
    BY <1>3, NewWorkerKeeps DEF grow, Working
  <2>2. tdelay' \in 0 .. MinRounds
    BY <1>3, RoundsAssumption DEF grow, Less
  <2>3. Count' <= MaxThr /\ Count' >= MinThr
    BY <1>0, <1>3, <2>1, ThreadsAssumption DEF grow, Count
  <2> QED
    BY <1>3, <2>1, <2>2, <2>3 DEF grow
<1>4. CASE skim
  <2>1. PoolTypeOK' /\ Distinct' /\ OnlyTheFirst' /\ Count > MinThr
    BY <1>4, SkimKeeps DEF skim, ToSkim, Working, Count
  <2>2. tdelay' \in 0 .. MinRounds
    BY <1>4, RoundsAssumption DEF skim, Less
  <2> QED
    BY <1>0, <1>4, <2>1, <2>2, ThreadsAssumption DEF skim, Count
<1>5. CASE tellAll
  <2>1. PoolTypeOK'
    BY <1>5, TellAllKeeps DEF tellAll, TellAll
  <2> QED
    BY <1>5, <2>1 DEF tellAll, main, Count, Working
<1>6. CASE collect
  <2>1. PoolTypeOK' /\ Len(members') = Len(members) - 1
    BY <1>6, CollectKeeps DEF collect, Collectable, Count
  <2>2. Count' <= MaxThr
    BY <1>0, <2>1, ThreadsAssumption DEF Count
  <2> QED
    BY <1>6, <2>1, <2>2 DEF collect, main, Working
<1>7. CASE finish \/ shutdown \/ shutdownDone \/ UNCHANGED vars
  <2>1. UNCHANGED <<pool, main>> /\ PoolTypeOK'
    BY <1>7, PoolStands DEF finish, shutdown, shutdownDone, vars
  <2>2. Count' = Count
    BY <2>1 DEF pool, Count
  <2>3. /\ {asked', raised'} \subseteq BOOLEAN /\ spc' \in {"out", "waiting", "done"}
        /\ mpc' \in {"start", "loop", "decide", "collect", "over"}
    BY <1>7 DEF finish, shutdown, shutdownDone, vars
  <2>4. TypeOK'
    BY <2>1, <2>2, <2>3 DEF main
  <2>5. Working' => UNCHANGED mpc /\ Distinct' /\ OnlyTheFirst'
    BY <1>7, <2>1, PoolStands DEF finish, shutdown, shutdownDone, vars, Working
  <2>6. (mpc' = "over" => members' = <<>>) /\ (raised' \/ spc' = "done" => mpc' = "over")
    BY <1>7, <2>1 DEF finish, shutdown, shutdownDone, vars, pool
  <2> QED
    BY <2>2, <2>4, <2>5, <2>6 DEF Working
<1>8. ASSUME NEW w \in Workers, Worker(Work(w) \/ accept(w))
      PROVE  HttpdInv'
  <2>1. /\ PoolTypeOK' /\ members' = members
        /\ Distinct => Distinct'
        /\ OnlyTheFirst => OnlyTheFirst'
    BY <1>8, WorkerKeeps DEF Worker
  <2>2. UNCHANGED <<mpc, main, asked, raised, spc>>
    BY <1>8 DEF Worker
  <2> QED
    BY <2>1, <2>2 DEF main, Count, Working
<1> QED
  BY <1>1, <1>2, <1>3, <1>4, <1>5, <1>6, <1>7, <1>8 DEF Next, Main

LEMMA HttpdInvMeans ==
    ASSUME HttpdInv
    PROVE  TypeOK /\ KeepsMinimum /\ ShutdownComplete
<1>1. TypeOK
  BY DEF HttpdInv
<1>2. KeepsMinimum
  BY <1>1, MinimumAlive DEF HttpdInv, TypeOK, KeepsMinimum, Working, Count
<1>3. ShutdownComplete
  BY <1>1, NobodyAlive DEF HttpdInv, TypeOK, ShutdownComplete
<1> QED
  BY <1>1, <1>2, <1>3

LEMMA HttpdInvariance == Spec => []HttpdInv
<1>1. HttpdInv /\ [Next]_vars => HttpdInv'
  BY HttpdStepInv
<1> QED
  BY <1>1, HttpdInitInv, PTL DEF Spec

\* The variables of the httpd keep their types, whatever the sizes.
THEOREM HttpdTypeCorrect == Spec => []TypeOK
BY HttpdInvariance, HttpdInvMeans, PTL

\* Until shutdown, minthr workers are alive (the skim of httpd::run never
\* goes below it, and never dismisses a second worker).
THEOREM HttpdMinimumKept == Spec => []KeepsMinimum
BY HttpdInvariance, HttpdInvMeans, PTL

\* httpd::shutdown returns to a caller only when every worker has left.
THEOREM HttpdShutdownIsComplete == Spec => []ShutdownComplete
BY HttpdInvariance, HttpdInvMeans, PTL

(***************************************************************************)
(* The smtpd                                                               *)
(***************************************************************************)
SmtpdWorking == smtpdAt \in {"start", "loop", "decide"}

\* A shutdown that found a worker has set the flag, and while the main loop
\* runs the pool does not become empty again.
SmtpdInv ==
    /\ SmtpdTypeOK
    /\ SmtpdWorking => Distinct /\ OnlyTheFirst
    /\ smtpdAt = "start" => Len(members) <= MinThr
    /\ smtpdAt \in {"loop", "decide"} => Len(members) >= MinThr
    /\ caller = "out" => ~ _shutdown
    /\ SmtpdWorking /\ _shutdown => members # <<>>
    /\ caller = "returned" /\ _shutdown => members = <<>>

LEMMA SmtpdInitInv == SmtpdInit => SmtpdInv
<1> SUFFICES ASSUME SmtpdInit PROVE SmtpdInv
  OBVIOUS
<1>1. PoolTypeOK /\ Distinct /\ OnlyTheFirst /\ Len(members) = 0
  BY PoolInitKeeps DEF SmtpdInit
<1>2. 0 \in 0 .. GrowRounds + SkimRounds /\ 0 \in 0 .. MaxThr /\ 0 \in Int
      /\ Len(members) <= MaxThr /\ Len(members) <= MinThr
  BY <1>1, ThreadsAssumption, SmtpdRounds
<1>3. SmtpdTypeOK
  BY <1>1, <1>2 DEF SmtpdInit, SmtpdTypeOK
<1> QED
  BY <1>1, <1>2, <1>3 DEF SmtpdInit, SmtpdInv, SmtpdWorking

LEMMA SmtpdStepInv ==
    ASSUME SmtpdInv, SmtpdNext \/ UNCHANGED smtpdVars
    PROVE  SmtpdInv'
<1> USE DEF SmtpdInv, SmtpdTypeOK
<1>0. /\ members \in Seq(Workers) /\ Len(members) \in Nat
      /\ Len(members) # 0 => members # <<>>
  BY LenProperties, EmptySeq DEF PoolTypeOK
<1>a. ASSUME PoolTypeOK', Len(members') = Len(members) + 1
      PROVE  members' # <<>>
  BY <1>a, <1>0, EmptySeq DEF PoolTypeOK
<1>b. ASSUME NEW d \in {GrowRounds, SkimRounds, smtpdDelay}
      PROVE  Wait(d) \in 0 .. GrowRounds + SkimRounds
  BY SmtpdRounds DEF Wait
<1>1. CASE startSmtpWorker
  <2>1. PoolTypeOK' /\ Len(members') = Len(members) + 1 /\ Distinct' /\ OnlyTheFirst'
    BY <1>1, NewWorkerKeeps DEF startSmtpWorker, SmtpdWorking
  <2>2. members' # <<>> /\ (caller = "returned" => ~ _shutdown)
    BY <1>1, <1>a, <2>1 DEF startSmtpWorker, SmtpdWorking
  <2> QED
    BY <1>0, <1>1, <2>1, <2>2, ThreadsAssumption DEF startSmtpWorker, smtpdMain
<1>2. CASE smtpdStarted \/ smtpdIdle \/ leaveSmtp
  <2>1. UNCHANGED <<pool, smtpdSkim, _shutdown, caller>> /\ SmtpdWorking /\ SmtpdWorking'
    BY <1>2 DEF smtpdStarted, smtpdIdle, leaveSmtp, Decide, smtpdMain, SmtpdWorking, pool
  <2>2. PoolTypeOK' /\ Distinct' /\ OnlyTheFirst' /\ members' = members
    BY <2>1, PoolStands DEF pool
  <2>3. smtpdDelay' \in 0 .. GrowRounds + SkimRounds /\ smtpdLoad' \in Int
    BY <1>2, <1>b DEF smtpdStarted, smtpdIdle, leaveSmtp, Decide, smtpdMain, PoolTypeOK
  <2>4. smtpdAt' \in {"loop", "decide"} /\ Len(members) >= MinThr
    BY <1>0, <1>2, ThreadsAssumption DEF smtpdStarted, smtpdIdle, leaveSmtp, Decide
  <2> QED
    BY <2>1, <2>2, <2>3, <2>4
<1>3. CASE growSmtp
  <2>1. PoolTypeOK' /\ Len(members') = Len(members) + 1 /\ Distinct' /\ OnlyTheFirst'
    BY <1>3, NewWorkerKeeps DEF growSmtp, Decide, SmtpdWorking
  <2>2. members' # <<>> /\ (caller = "returned" => ~ _shutdown)
    BY <1>3, <1>a, <2>1 DEF growSmtp, Decide, SmtpdWorking
  <2>3. smtpdDelay' \in 0 .. GrowRounds + SkimRounds
    BY <1>3, <1>b DEF growSmtp, Decide
  <2>4. Len(members') <= MaxThr /\ Len(members') >= MinThr
    BY <1>0, <1>3, <2>1, ThreadsAssumption DEF growSmtp, Decide
  <2> QED
    BY <1>3, <2>1, <2>2, <2>3, <2>4 DEF growSmtp, Decide
<1>4. CASE skimSmtp
  <2>1. PoolTypeOK' /\ Distinct' /\ OnlyTheFirst' /\ Len(members) > MinThr
    BY <1>4, SkimKeeps DEF skimSmtp, TooMany, Decide, SmtpdWorking
  <2>2. smtpdDelay' \in 0 .. GrowRounds + SkimRounds
    BY <1>4, <1>b DEF skimSmtp, Decide
  <2>3. smtpdSkim' \in 0 .. MaxThr
    BY <1>0, <1>4, ThreadsAssumption DEF skimSmtp
  <2> QED
    BY <1>0, <1>4, <2>1, <2>2, <2>3, ThreadsAssumption DEF skimSmtp, Decide, SmtpdWorking
<1>5. CASE smtpdTellAll
  <2>1. PoolTypeOK'
    BY <1>5, TellAllKeeps DEF smtpdTellAll
  <2> QED
    BY <1>5, <2>1 DEF smtpdTellAll, smtpdMain, SmtpdWorking
<1>6. CASE smtpdCollect
  <2>1. PoolTypeOK' /\ Len(members') = Len(members) - 1
    BY <1>6, CollectKeeps DEF smtpdCollect, Finished
  <2>2. Len(members') <= MaxThr
    BY <1>0, <2>1, ThreadsAssumption
  <2>3. members # <<>>
    BY <1>6 DEF smtpdCollect
  <2> QED
    BY <1>6, <2>1, <2>2, <2>3 DEF smtpdCollect, smtpdMain, SmtpdWorking
<1>7. CASE smtpdOver \/ smtpdShutdown \/ smtpdShutdownNone \/ smtpdShutdownDone \/ UNCHANGED smtpdVars
  <2>1. UNCHANGED <<pool, smtpdMain>> /\ PoolTypeOK' /\ members' = members
    BY <1>7, PoolStands
       DEF smtpdOver, smtpdShutdown, smtpdShutdownNone, smtpdShutdownDone, smtpdVars, pool
  <2>2. /\ caller' \in {"out", "waiting", "returned"}
        /\ smtpdAt' \in {"start", "loop", "decide", "collect", "over"}
        /\ _shutdown' \in BOOLEAN
    BY <1>7 DEF smtpdOver, smtpdShutdown, smtpdShutdownNone, smtpdShutdownDone, smtpdVars
  <2>3. SmtpdTypeOK'
    BY <2>1, <2>2 DEF smtpdMain
  <2>4. SmtpdWorking' => UNCHANGED smtpdAt /\ Distinct' /\ OnlyTheFirst'
    BY <1>7, <2>1, PoolStands
       DEF smtpdOver, smtpdShutdown, smtpdShutdownNone, smtpdShutdownDone, smtpdVars, SmtpdWorking
  <2>5. /\ caller' = "out" => ~ _shutdown'
        /\ SmtpdWorking' /\ _shutdown' => members' # <<>>
        /\ caller' = "returned" /\ _shutdown' => members' = <<>>
    BY <1>7, <2>1
       DEF smtpdOver, smtpdShutdown, smtpdShutdownNone, smtpdShutdownDone, smtpdVars, SmtpdWorking
  <2> QED
    BY <2>1, <2>3, <2>4, <2>5 DEF SmtpdWorking
<1>8. ASSUME NEW w \in Workers, SmtpWorker(Work(w) \/ accept(w))
      PROVE  SmtpdInv'
  <2>1. /\ PoolTypeOK' /\ members' = members
        /\ Distinct => Distinct'
        /\ OnlyTheFirst => OnlyTheFirst'
    BY <1>8, WorkerKeeps DEF SmtpWorker
  <2>2. UNCHANGED <<smtpdAt, smtpdMain, _shutdown, caller>>
    BY <1>8 DEF SmtpWorker
  <2> QED
    BY <2>1, <2>2 DEF smtpdMain, SmtpdWorking
<1> QED
  BY <1>1, <1>2, <1>3, <1>4, <1>5, <1>6, <1>7, <1>8 DEF SmtpdNext, SmtpdMain

LEMMA SmtpdInvMeans ==
    ASSUME SmtpdInv
    PROVE  SmtpdTypeOK /\ SmtpdPoolKept
<1>1. SmtpdTypeOK
  BY DEF SmtpdInv
<1>2. SmtpdKeepsMinimum
  BY <1>1, MinimumAlive DEF SmtpdInv, SmtpdTypeOK, SmtpdKeepsMinimum, SmtpdWorking
<1>3. SmtpdShutdownComplete
  BY <1>1, NobodyAlive DEF SmtpdInv, SmtpdTypeOK, SmtpdShutdownComplete
<1> QED
  BY <1>1, <1>2, <1>3 DEF SmtpdPoolKept

LEMMA SmtpdInvariance == SmtpdSpec => []SmtpdInv
<1>1. SmtpdInv /\ [SmtpdNext]_smtpdVars => SmtpdInv'
  BY SmtpdStepInv
<1> QED
  BY <1>1, SmtpdInitInv, PTL DEF SmtpdSpec

\* The variables of the smtpd keep their types, whatever the sizes.
THEOREM SmtpdTypeCorrect == SmtpdSpec => []SmtpdTypeOK
BY SmtpdInvariance, SmtpdInvMeans, PTL

\* Until it is told to stop smtpd::run keeps minthr workers alive, and a
\* shutdown that found a worker returns only when every worker has left.
THEOREM SmtpdPoolIsKept == SmtpdSpec => []SmtpdPoolKept
BY SmtpdInvariance, SmtpdInvMeans, PTL

(***************************************************************************)
(* The sessions                                                            *)
(***************************************************************************)
Session == [id : Uuids, data : Nat, time : Nat]

\* No two of a list have one id.
Unique(db) == \A i, j \in DOMAIN db : db[i].id = db[j].id => i = j

SessionDb(db) == db \in Seq(Session) /\ Unique(db)

LEMMA RemovedSession ==
    ASSUME NEW db, SessionDb(db), NEW k \in DOMAIN db
    PROVE  /\ SessionDb(RemoveAt(db, k)) /\ Len(RemoveAt(db, k)) = Len(db) - 1
           /\ \A i \in DOMAIN RemoveAt(db, k) :
                \E j \in DOMAIN db : j # k /\ RemoveAt(db, k)[i] = db[j]
           /\ \A j \in DOMAIN db : j # k => \E i \in DOMAIN RemoveAt(db, k) : RemoveAt(db, k)[i] = db[j]
           /\ \A i \in DOMAIN RemoveAt(db, k) : i < k => RemoveAt(db, k)[i] = db[i]
           /\ Ids(RemoveAt(db, k)) = Ids(db) \ {db[k].id}
<1> DEFINE e == RemoveAt(db, k)
           n == Len(db)
<1>1. /\ db \in Seq(Session) /\ n \in Nat /\ DOMAIN db = 1 .. n /\ k \in 1 .. n
      /\ e \in Seq(Session) /\ Len(e) = n - 1 /\ DOMAIN e = 1 .. n - 1
      /\ \A i \in 1 .. n - 1 : e[i] = IF i < k THEN db[i] ELSE db[i + 1]
  <2>1. db \in Seq(Session)
    BY DEF SessionDb
  <2>2. n \in Nat /\ DOMAIN db = 1 .. n
    BY <2>1, LenProperties
  <2>3. e \in Seq(Session) /\ Len(e) = n - 1 /\ \A i \in 1 .. n - 1 : e[i] = IF i < k THEN db[i] ELSE db[i + 1]
    BY <2>1, Removed
  <2>4. DOMAIN e = 1 .. n - 1
    BY <2>3, LenProperties
  <2> QED
    BY <2>1, <2>2, <2>3, <2>4
<1> HIDE DEF e, n
<1>2. \A i \in DOMAIN e : \E j \in DOMAIN db : j # k /\ e[i] = db[j] /\ j = IF i < k THEN i ELSE i + 1
  BY <1>1
<1>3. ASSUME NEW j \in DOMAIN db, j # k
      PROVE  \E i \in DOMAIN e : e[i] = db[j]
  <2>1. CASE j < k
    BY <1>1, <2>1
  <2>2. CASE j > k
    <3>1. j - 1 \in DOMAIN e /\ ~ (j - 1 < k) /\ (j - 1) + 1 = j
      BY <1>1, <2>2
    <3> QED
      BY <1>1, <3>1
  <2> QED
    BY <1>1, <1>3, <2>1, <2>2
<1>4. Unique(e)
  <2> SUFFICES ASSUME NEW i \in DOMAIN e, NEW j \in DOMAIN e, e[i].id = e[j].id
               PROVE  i = j
    BY DEF Unique
  <2> DEFINE p == IF i < k THEN i ELSE i + 1
             q == IF j < k THEN j ELSE j + 1
  <2>1. p \in DOMAIN db /\ q \in DOMAIN db /\ e[i] = db[p] /\ e[j] = db[q]
    BY <1>1
  <2>2. p = q
    BY <2>1 DEF SessionDb, Unique
  <2> QED
    BY <1>1, <2>2
<1>5. Ids(e) = Ids(db) \ {db[k].id}
  BY <1>2, <1>3 DEF Ids, SessionDb, Unique
<1> QED
  BY <1>1, <1>2, <1>3, <1>4, <1>5 DEF SessionDb, e, n

LEMMA SlotOf ==
    ASSUME NEW db, NEW id \in Ids(db)
    PROVE  Slot(db, id) \in DOMAIN db /\ db[Slot(db, id)].id = id
BY DEF Ids, Slot

\* db[id] = data.
LEMMA PutMeans ==
    ASSUME NEW db, SessionDb(db), NEW id \in Uuids, NEW data \in Nat, clock \in Nat
    PROVE  /\ SessionDb(Put(db, id, data))
           /\ Ids(Put(db, id, data)) = Ids(db) \union {id}
           /\ \A i \in DOMAIN Put(db, id, data) :
                \/ Put(db, id, data)[i] = [id |-> id, data |-> data, time |-> clock]
                \/ \E j \in DOMAIN db : Put(db, id, data)[i] = db[j] /\ db[j].id # id
<1> DEFINE s == [id |-> id, data |-> data, time |-> clock]
           n == Len(db)
<1>1. /\ db \in Seq(Session) /\ n \in Nat /\ DOMAIN db = 1 .. n
      /\ \A i \in 1 .. n : db[i] \in Session
  BY LenProperties DEF SessionDb
<1>2. s \in Session /\ s.id = id
  BY DEF Session
<1> HIDE DEF s
<1>3. CASE id \in Ids(db)
  <2> DEFINE k == Slot(db, id)
             e == [db EXCEPT ![k] = s]
  <2>1. k \in DOMAIN db /\ db[k].id = id
    BY <1>3, SlotOf
  <2> HIDE DEF k
  <2>2. Put(db, id, data) = e
    BY <1>3 DEF Put, s, k
  <2>3. e \in Seq(Session) /\ DOMAIN e = DOMAIN db /\ e[k] = s
        /\ \A i \in DOMAIN db : i # k => e[i] = db[i]
    BY <1>1, <1>2, <2>1
  <2> HIDE DEF e
  <2>4. Unique(e)
    <3> SUFFICES ASSUME NEW i \in DOMAIN db, NEW j \in DOMAIN db, e[i].id = e[j].id PROVE i = j
      BY <2>3 DEF Unique
    <3>1. db[i].id = db[j].id
      BY <1>2, <2>1, <2>3
    <3> QED
      BY <3>1 DEF SessionDb, Unique
  <2>5. Ids(e) = Ids(db)
    <3>1. \A i \in DOMAIN db : e[i].id = db[i].id
      BY <1>2, <2>1, <2>3
    <3> QED
      BY <2>3, <3>1 DEF Ids
  <2>6. \A i \in DOMAIN e : e[i] = s \/ \E j \in DOMAIN db : e[i] = db[j] /\ db[j].id # id
    BY <2>1, <2>3 DEF SessionDb, Unique
  <2> QED
    BY <1>3, <2>2, <2>3, <2>4, <2>5, <2>6 DEF SessionDb, s
<1>4. CASE id \notin Ids(db)
  <2> DEFINE e == Append(db, s)
  <2>1. Put(db, id, data) = e
    BY <1>4 DEF Put, s
  <2>2. /\ e \in Seq(Session) /\ DOMAIN e = 1 .. n + 1
        /\ \A i \in 1 .. n : e[i] = db[i]
        /\ e[n + 1] = s
    <3>1. e \in Seq(Session) /\ Len(e) = n + 1 /\ e[n + 1] = s /\ \A i \in 1 .. n : e[i] = db[i]
      BY <1>1, <1>2, AppendProperties
    <3> HIDE DEF e, n
    <3> QED
      BY <3>1, LenProperties
  <2> HIDE DEF e
  <2>3. \A i \in DOMAIN db : db[i].id # id
    BY <1>4 DEF Ids
  <2>4. \A i \in 1 .. n + 1 : i \in 1 .. n \/ i = n + 1
    BY <1>1
  <2>5. Unique(e)
    <3> SUFFICES ASSUME NEW i \in 1 .. n + 1, NEW j \in 1 .. n + 1, e[i].id = e[j].id PROVE i = j
      BY <2>2 DEF Unique
    <3> QED
      BY <1>1, <1>2, <2>2, <2>3, <2>4 DEF SessionDb, Unique
  <2>6. Ids(e) = Ids(db) \union {id}
    <3>1. n + 1 \in DOMAIN e /\ \A i \in DOMAIN db : i \in DOMAIN e
      BY <1>1, <2>2
    <3> QED
      BY <1>1, <1>2, <2>2, <2>4, <3>1 DEF Ids
  <2>7. \A i \in DOMAIN e : e[i] = s \/ \E j \in DOMAIN db : e[i] = db[j] /\ db[j].id # id
    BY <1>1, <2>2, <2>3, <2>4
  <2> QED
    BY <2>1, <2>2, <2>5, <2>6, <2>7 DEF SessionDb, s
<1> QED
  BY <1>3, <1>4

(***************************************************************************)
(* The loop of expire                                                      *)
(***************************************************************************)
Old(s, now) == now - s.time > Timeout

Reaping == [db : Seq(Session), i : Nat \ {0}]

\* A round of the loop.
Reap(now) ==
    [r \in Reaping |->
        IF r.i > Len(r.db) THEN r
        ELSE IF now - r.db[r.i].time > Timeout THEN [r EXCEPT !.db = RemoveAt(@, r.i)]
        ELSE [r EXCEPT !.i = @ + 1]]

\* What holds of the loop after n rounds: what it has passed is young, what it
\* has taken away was old, and it has not far to go.
Reaped(db, now, n, r) ==
    /\ r \in Reaping /\ SessionDb(r.db)
    /\ \A j \in DOMAIN r.db : \E k \in DOMAIN db : r.db[j] = db[k]
    /\ \A k \in DOMAIN db : (\E j \in DOMAIN r.db : r.db[j] = db[k]) \/ Old(db[k], now)
    /\ \A j \in DOMAIN r.db : j < r.i => ~ Old(r.db[j], now)
    /\ r.i > Len(r.db) \/ Len(r.db) + 1 - r.i <= Len(db) - n

LEMMA ReapRound ==
    ASSUME NEW db, SessionDb(db), NEW now \in Nat, NEW n \in Nat, NEW r, Reaped(db, now, n, r)
    PROVE  Reap(now)[r] \in Reaping /\ Reaped(db, now, n + 1, Reap(now)[r])
<1> DEFINE q == Reap(now)[r]
<1>1. /\ r.db \in Seq(Session) /\ r.i \in Nat \ {0} /\ Len(r.db) \in Nat /\ Len(db) \in Nat
      /\ DOMAIN r.db = 1 .. Len(r.db) /\ r = [db |-> r.db, i |-> r.i]
  BY LenProperties DEF Reaped, Reaping, SessionDb
<1>2. q = IF r.i > Len(r.db) THEN r
          ELSE IF now - r.db[r.i].time > Timeout THEN [r EXCEPT !.db = RemoveAt(@, r.i)]
          ELSE [r EXCEPT !.i = @ + 1]
  BY DEF Reap, Reaped
<1> HIDE DEF q
<1>3. CASE r.i > Len(r.db)
  BY <1>2, <1>3 DEF Reaped, q
<1>4. CASE ~ (r.i > Len(r.db)) /\ Old(r.db[r.i], now)
  <2> DEFINE e == RemoveAt(r.db, r.i)
  <2>1. r.i \in DOMAIN r.db
    BY <1>1, <1>4
  <2>2. q = [db |-> e, i |-> r.i]
    BY <1>1, <1>2, <1>4 DEF Old
  <2>3. /\ SessionDb(e) /\ Len(e) = Len(r.db) - 1
        /\ \A i \in DOMAIN e : \E j \in DOMAIN r.db : j # r.i /\ e[i] = r.db[j]
        /\ \A j \in DOMAIN r.db : j # r.i => \E i \in DOMAIN e : e[i] = r.db[j]
        /\ \A i \in DOMAIN e : i < r.i => e[i] = r.db[i]
    BY <2>1, RemovedSession DEF Reaped
  <2> HIDE DEF e
  <2>4. e \in Seq(Session) /\ DOMAIN e = 1 .. Len(e)
    BY <2>3, LenProperties DEF SessionDb
  <2>5. q.db = e /\ q.i = r.i /\ q \in Reaping
    BY <1>1, <2>2, <2>4 DEF Reaping
  <2>6. \A j \in DOMAIN e : \E k \in DOMAIN db : e[j] = db[k]
    BY <2>3 DEF Reaped
  <2>7. \A k \in DOMAIN db : (\E j \in DOMAIN e : e[j] = db[k]) \/ Old(db[k], now)
    <3> SUFFICES ASSUME NEW k \in DOMAIN db, ~ Old(db[k], now)
                 PROVE  \E j \in DOMAIN e : e[j] = db[k]
      OBVIOUS
    <3>1. PICK j \in DOMAIN r.db : r.db[j] = db[k]
      BY DEF Reaped
    <3>2. j # r.i
      BY <1>4, <3>1
    <3> QED
      BY <2>3, <3>1, <3>2
  <2>8. \A j \in DOMAIN e : j < r.i => ~ Old(e[j], now)
    <3>1. \A j \in DOMAIN e : j \in DOMAIN r.db
      BY <1>1, <2>3, <2>4
    <3> QED
      BY <2>3, <3>1 DEF Reaped
  <2>9. Len(e) + 1 - r.i <= Len(db) - (n + 1)
    BY <1>1, <1>4, <2>3 DEF Reaped
  <2>10. Reaped(db, now, n + 1, q)
    BY ONLY <2>3, <2>5, <2>6, <2>7, <2>8, <2>9, SMTT(30) DEF Reaped
  <2> QED
    BY ONLY <2>5, <2>10 DEF q
<1>5. CASE ~ (r.i > Len(r.db)) /\ ~ Old(r.db[r.i], now)
  <2>1. q = [db |-> r.db, i |-> r.i + 1]
    BY <1>1, <1>2, <1>5 DEF Old
  <2>2. q.db = r.db /\ q.i = r.i + 1 /\ q \in Reaping
    BY <1>1, <2>1 DEF Reaping
  <2>3. \A j \in DOMAIN r.db : j < r.i + 1 => ~ Old(r.db[j], now)
    <3>1. \A j \in DOMAIN r.db : j < r.i + 1 => j < r.i \/ j = r.i
      BY <1>1
    <3> QED
      BY <1>5, <3>1 DEF Reaped
  <2>4. Len(r.db) + 1 - (r.i + 1) <= Len(db) - (n + 1)
    BY <1>1, <1>5 DEF Reaped
  <2> QED
    BY <2>2, <2>3, <2>4 DEF Reaped, q
<1> QED
  BY <1>3, <1>4, <1>5

\* The loop as a function of the number of rounds.
LEMMA ReapExists ==
    ASSUME NEW db, SessionDb(db), NEW now \in Nat
    PROVE  \E f \in [0 .. Len(db) -> Reaping] :
              /\ f[0] = [db |-> db, i |-> 1]
              /\ \A n \in 0 .. Len(db) : n # 0 => f[n] = Reap(now)[f[n - 1]]
              /\ ExpireLoop(db, 1, now) = f[Len(db)].db
<1> DEFINE N == Len(db)
           a == [db |-> db, i |-> 1]
           F(r) == [n \in 0 .. N |->
                      IF n = 0 THEN a
                      ELSE LET q == r[n - 1] IN
                           IF q.i > Len(q.db) THEN q
                           ELSE IF now - q.db[q.i].time > Timeout
                                THEN [q EXCEPT !.db = RemoveAt(@, q.i)]
                           ELSE [q EXCEPT !.i = @ + 1]]
           f == CHOOSE r : r = F(r)
<1>1. ExpireLoop(db, 1, now) = f[N].db
  BY Zenon DEF ExpireLoop
<1>2. a \in Reaping /\ N \in Nat /\ Reap(now) \in [Reaping -> Reaping]
  <2>1. a \in Reaping /\ N \in Nat
    BY LenProperties DEF SessionDb, Reaping
  <2>2. ASSUME NEW r \in Reaping
        PROVE  Reap(now)[r] \in Reaping
    <3>1. r.db \in Seq(Session) /\ r.i \in Nat \ {0} /\ Len(r.db) \in Nat /\ DOMAIN r.db = 1 .. Len(r.db)
      BY LenProperties DEF Reaping
    <3>2. r.i \in DOMAIN r.db => RemoveAt(r.db, r.i) \in Seq(Session)
      BY <3>1, Removed
    <3>3. r.i > Len(r.db) \/ r.i \in DOMAIN r.db
      BY <3>1
    <3> QED
      BY <3>1, <3>2, <3>3 DEF Reap, Reaping
  <2>3. Reap(now) = [r \in Reaping |-> Reap(now)[r]]
    BY DEF Reap
  <2> QED
    BY <2>1, <2>2, <2>3
<1>3. PICK g \in [0 .. N -> Reaping] : \A n \in 0 .. N : g[n] = IF n = 0 THEN a ELSE Reap(now)[g[n - 1]]
  <2> DEFINE step == Reap(now)
  <2>1. a \in Reaping /\ N \in Nat /\ step \in [Reaping -> Reaping]
    BY <1>2
  <2> HIDE DEF a, N, step
  <2>2. \E g \in [0 .. N -> Reaping] : \A n \in 0 .. N : g[n] = IF n = 0 THEN a ELSE step[g[n - 1]]
    BY <2>1, RecursionExists, SMTT(30)
  <2> QED
    BY <2>2 DEF step
<1>4. g = F(g)
  <2>1. ASSUME NEW n \in 0 .. N, n # 0
        PROVE  g[n] = LET q == g[n - 1] IN
                      IF q.i > Len(q.db) THEN q
                      ELSE IF now - q.db[q.i].time > Timeout
                           THEN [q EXCEPT !.db = RemoveAt(@, q.i)]
                      ELSE [q EXCEPT !.i = @ + 1]
    <3>1. n - 1 \in 0 .. N
      BY <1>2, <2>1
    <3>2. g[n - 1] \in Reaping
      BY <3>1
    <3> QED
      BY <1>3, <2>1, <3>2 DEF Reap
  <2> QED
    BY <1>3, <2>1
<1>5. f = F(f)
  <2> HIDE DEF F
  <2> QED
    BY <1>4, Zenon
<1>6. \A n \in 0 .. N : f[n] = IF n = 0 THEN a
                               ELSE LET q == f[n - 1] IN
                                    IF q.i > Len(q.db) THEN q
                                    ELSE IF now - q.db[q.i].time > Timeout
                                         THEN [q EXCEPT !.db = RemoveAt(@, q.i)]
                                    ELSE [q EXCEPT !.i = @ + 1]
  <2>1. DOMAIN f = 0 .. N
    BY <1>5
  <2> HIDE DEF f
  <2> QED
    BY <1>5
<1>9. f[0] = a /\ 0 \in 0 .. N
  <2>1. 0 \in 0 .. N
    BY <1>2
  <2> HIDE DEF f, a, N
  <2> QED
    BY <1>6, <2>1
<1> HIDE DEF f
<1>7. ASSUME NEW n \in 0 .. N
      PROVE  f[n] \in Reaping /\ (n # 0 => f[n] = Reap(now)[f[n - 1]])
  <2> DEFINE T == {m \in Nat : m <= N => f[m] \in Reaping /\ (m # 0 => f[m] = Reap(now)[f[m - 1]])}
  <2>1. 0 \in T
    BY <1>2, <1>9
  <2>2. ASSUME NEW m \in Nat, m \in T PROVE m + 1 \in T
    <3> SUFFICES ASSUME m + 1 <= N
                 PROVE  f[m + 1] \in Reaping /\ f[m + 1] = Reap(now)[f[m]]
      BY <2>2
    <3>1. m \in 0 .. N /\ m + 1 \in 0 .. N /\ m + 1 # 0 /\ (m + 1) - 1 = m
      BY <1>2, <2>2
    <3>2. f[m] \in Reaping
      BY <2>2, <3>1
    <3>3. f[m + 1] = Reap(now)[f[m]]
      BY <1>6, <3>1, <3>2 DEF Reap
    <3> QED
      BY <1>2, <3>2, <3>3
  <2> HIDE DEF T
  <2>3. Nat \subseteq T
    BY <2>1, <2>2, NatSetInduction
  <2> USE DEF T
  <2> QED
    BY <1>2, <2>3
<1>8. f \in [0 .. N -> Reaping]
  <2>1. f = [n \in 0 .. N |-> f[n]]
    BY <1>5
  <2> QED
    BY <1>7, <2>1
<1> QED
  BY <1>1, <1>7, <1>8, <1>9

\* What expire leaves: those that are not too old, as they were.
LEMMA ExpireLoopMeans ==
    ASSUME NEW db, SessionDb(db), NEW now \in Nat
    PROVE  /\ SessionDb(ExpireLoop(db, 1, now))
           /\ \A j \in DOMAIN ExpireLoop(db, 1, now) :
                 \E k \in DOMAIN db : ExpireLoop(db, 1, now)[j] = db[k] /\ ~ Old(db[k], now)
           /\ \A k \in DOMAIN db : Old(db[k], now) \/
                 \E j \in DOMAIN ExpireLoop(db, 1, now) : ExpireLoop(db, 1, now)[j] = db[k]
<1> DEFINE N == Len(db)
           e == ExpireLoop(db, 1, now)
<1>1. N \in Nat /\ db \in Seq(Session)
  BY LenProperties DEF SessionDb
<1>2. PICK f \in [0 .. N -> Reaping] :
         /\ f[0] = [db |-> db, i |-> 1]
         /\ \A n \in 0 .. N : n # 0 => f[n] = Reap(now)[f[n - 1]]
         /\ e = f[N].db
  BY ReapExists
<1> HIDE DEF N, e
<1> DEFINE T == {n \in Nat : n <= N => Reaped(db, now, n, f[n])}
<1>3. 0 \in T
  <2>1. f[0].db = db /\ f[0].i = 1 /\ f[0] \in Reaping /\ DOMAIN db = 1 .. N
    BY <1>1, <1>2, LenProperties DEF N
  <2> QED
    BY <1>1, <2>1 DEF Reaped, N
<1>4. ASSUME NEW n \in Nat, n \in T PROVE n + 1 \in T
  <2> SUFFICES ASSUME n + 1 <= N PROVE Reaped(db, now, n + 1, f[n + 1])
    BY <1>4
  <2>1. n + 1 \in 0 .. N /\ n + 1 # 0 /\ (n + 1) - 1 = n /\ n <= N
    BY <1>1, <1>4
  <2>2. Reaped(db, now, n, f[n])
    BY <1>4, <2>1
  <2>3. Reaped(db, now, n + 1, Reap(now)[f[n]])
    BY <2>2, ReapRound
  <2> QED
    BY <1>2, <2>1, <2>3
<1>5. Nat \subseteq T
  <2> HIDE DEF T
  <2> QED
    BY <1>3, <1>4, NatSetInduction
<1>6. Reaped(db, now, N, f[N])
  BY <1>1, <1>5
<1>7. \A j \in DOMAIN e : j < f[N].i
  <2>1. e \in Seq(Session) /\ f[N].i \in Nat \ {0}
    BY <1>2, <1>6 DEF Reaped, SessionDb, Reaping
  <2>2. DOMAIN e = 1 .. Len(e) /\ Len(e) \in Nat
    BY <2>1, LenProperties
  <2>3. f[N].i > Len(e) \/ Len(e) + 1 - f[N].i <= N - N
    BY <1>2, <1>6 DEF Reaped, N
  <2> QED
    BY <1>1, <2>1, <2>2, <2>3
<1>8. \A j \in DOMAIN e : ~ Old(e[j], now)
  BY <1>2, <1>6, <1>7 DEF Reaped
<1>9. SessionDb(e) /\ (\A j \in DOMAIN e : \E k \in DOMAIN db : e[j] = db[k])
      /\ \A k \in DOMAIN db : (\E j \in DOMAIN e : e[j] = db[k]) \/ Old(db[k], now)
  BY <1>2, <1>6 DEF Reaped
<1>10. \A j \in DOMAIN e : \E k \in DOMAIN db : e[j] = db[k] /\ ~ Old(db[k], now)
  BY <1>8, <1>9
<1> QED
  BY <1>9, <1>10 DEF e

(***************************************************************************)
(* The steps                                                               *)
(***************************************************************************)
\* The time of a session is that of its last use.
TimesAgree == \A i \in DOMAIN sessions : touched[sessions[i].id] = sessions[i].time

\* A client has the uuid of a session that was made once, or none.
VisitorsHaveIssued ==
    /\ visitor \in [Clients -> [at : {"away", "apart", "exists", "works"},
                                id : issued \union {NoUuid}, data : Nat]]
    /\ \A c \in Clients : visitor[c].at # "away" => visitor[c].id \in issued

SessionInv ==
    /\ SessionDb(sessions) /\ Ids(sessions) \subseteq issued /\ issued \subseteq Uuids
    /\ clock \in 0 .. MaxTime
    /\ reaper \in [at : {"idle", "asks"}, now : 0 .. clock]
    /\ touched \in [Uuids -> 0 .. clock]
    /\ TimesAgree /\ VisitorsHaveIssued

\* A use of a session.
LEMMA UseKeeps ==
    ASSUME SessionInv, NEW id \in Uuids, NEW data \in Nat,
           sessions' = Put(sessions, id, data), Used(id), clock' = clock
    PROVE  /\ SessionDb(sessions') /\ Ids(sessions') = Ids(sessions) \union {id}
           /\ touched' \in [Uuids -> 0 .. clock] /\ TimesAgree'
           /\ \A i \in DOMAIN sessions' :
                 sessions'[i].id \in Ids(sessions) \/ sessions'[i] = [id |-> id, data |-> data, time |-> clock]
<1>1. clock \in Nat /\ clock \in 0 .. clock /\ SessionDb(sessions)
  BY SessionBounds DEF SessionInv
<1>2. /\ SessionDb(sessions') /\ Ids(sessions') = Ids(sessions) \union {id}
      /\ \A i \in DOMAIN sessions' :
            \/ sessions'[i] = [id |-> id, data |-> data, time |-> clock]
            \/ \E j \in DOMAIN sessions : sessions'[i] = sessions[j] /\ sessions[j].id # id
  BY <1>1, PutMeans
<1>3. touched' = [touched EXCEPT ![id] = clock] /\ touched \in [Uuids -> 0 .. clock]
  BY DEF Used, SessionInv
<1>4. touched' \in [Uuids -> 0 .. clock] /\ touched'[id] = clock
      /\ \A x \in Uuids : x # id => touched'[x] = touched[x]
  BY <1>1, <1>3
<1>5. TimesAgree'
  <2> SUFFICES ASSUME NEW i \in DOMAIN sessions'
               PROVE  touched'[sessions'[i].id] = sessions'[i].time
    BY DEF TimesAgree
  <2>1. CASE sessions'[i] = [id |-> id, data |-> data, time |-> clock]
    BY <1>4, <2>1
  <2>2. CASE \E j \in DOMAIN sessions : sessions'[i] = sessions[j] /\ sessions[j].id # id
    <3>1. PICK j \in DOMAIN sessions : sessions'[i] = sessions[j] /\ sessions[j].id # id
      BY <2>2
    <3>2. sessions[j].id \in Uuids
      BY DEF SessionInv, Ids
    <3> QED
      BY <1>4, <3>1, <3>2 DEF SessionInv, TimesAgree
  <2> QED
    BY <1>2, <2>1, <2>2
<1>6. \A i \in DOMAIN sessions' :
         sessions'[i].id \in Ids(sessions) \/ sessions'[i] = [id |-> id, data |-> data, time |-> clock]
  BY <1>2 DEF Ids
<1> QED
  BY <1>2, <1>4, <1>5, <1>6

\* A client goes on only with a session that is there or that is under way.
OnlySeen ==
    \A d \in Clients :
        visitor'[d].at \in {"exists", "works"} =>
            visitor'[d].id \in Ids(sessions) \/ UnderWay(visitor'[d].id)

\* Where a client goes.
LEMMA MovesKeeps ==
    ASSUME VisitorsHaveIssued, issued \subseteq issued',
           NEW c \in Clients, NEW at \in {"away", "apart", "exists", "works"},
           NEW id \in issued' \union {NoUuid}, NEW data \in Nat,
           at # "away" => id \in issued', Moves(c, at, id, data)
    PROVE  /\ VisitorsHaveIssued' /\ visitor'[c].at = at
           /\ at \in {"away", "apart"} \/ id \in Ids(sessions) \/ UnderWay(id) => OnlySeen
<1>1. /\ visitor' = [visitor EXCEPT ![c] = [at |-> at, id |-> id, data |-> data]]
      /\ visitor \in [Clients -> [at : {"away", "apart", "exists", "works"},
                                  id : issued' \union {NoUuid}, data : Nat]]
  BY DEF Moves, VisitorsHaveIssued
<1>2. visitor' \in [Clients -> [at : {"away", "apart", "exists", "works"},
                                id : issued' \union {NoUuid}, data : Nat]]
  BY <1>1
<1>3. visitor'[c] = [at |-> at, id |-> id, data |-> data]
      /\ \A d \in Clients : d # c => visitor'[d] = visitor[d]
  BY <1>1
<1>4. \A d \in Clients : visitor'[d].at # "away" => visitor'[d].id \in issued'
  BY <1>3 DEF VisitorsHaveIssued
<1>5. ASSUME at \in {"away", "apart"} \/ id \in Ids(sessions) \/ UnderWay(id)
      PROVE  OnlySeen
  <2> SUFFICES ASSUME NEW d \in Clients, visitor'[d].at \in {"exists", "works"}
               PROVE  visitor'[d].id \in Ids(sessions) \/ UnderWay(visitor'[d].id)
    BY DEF OnlySeen
  <2>1. CASE d = c
    BY <1>3, <1>5, <2>1
  <2>2. CASE d # c
    BY <1>3, <2>2 DEF UnderWay
  <2> QED
    BY <2>1, <2>2
<1> QED
  BY <1>2, <1>3, <1>4, <1>5 DEF VisitorsHaveIssued

\* What a step keeps: the invariant, and what SessionsKept says of it.
SessionStep == SessionInv' /\ ExpiredOnly /\ NoneForgotten /\ ComesBack /\ OnlySeen

\* A step of a client that is not destroy: no session goes, and expire stands.
LEMMA ClientStep ==
    ASSUME SessionInv, SessionInv', Ids(sessions) \subseteq Ids(sessions'), reaper' = reaper,
           ComesBack, OnlySeen
    PROVE  SessionStep
<1>1. ExpiredOnly
  BY DEF ExpiredOnly
<1>2. NoneForgotten
  BY DEF NoneForgotten
<1> QED
  BY <1>1, <1>2 DEF SessionStep

\* A step that leaves the sessions.
LEMMA QuietStep ==
    ASSUME SessionInv, SessionInv', sessions' = sessions, ~ (reaper.at = "asks" /\ reaper'.at = "idle"),
           OnlySeen
    PROVE  SessionStep
<1>1. ExpiredOnly /\ NoneForgotten
  BY DEF ExpiredOnly, NoneForgotten
<1>2. ComesBack
  BY DEF ComesBack, Ids
<1> QED
  BY <1>1, <1>2 DEF SessionStep

LEMMA SessionStepInv ==
    ASSUME SessionInv, [SessionNext]_sessionVars
    PROVE  SessionStep
<1> USE DEF SessionInv
<1>1. CASE UNCHANGED sessionVars
  <2>1. SessionInv' /\ sessions' = sessions /\ reaper' = reaper
    BY <1>1 DEF sessionVars, TimesAgree, VisitorsHaveIssued
  <2>2. OnlySeen
    BY <1>1 DEF sessionVars, OnlySeen, UnderWay
  <2> QED
    BY <2>1, <2>2, QuietStep
<1>2. CASE expire
  <2>1. /\ UNCHANGED <<sessions, clock, visitor, issued, touched>> /\ reaper.at = "idle"
        /\ reaper' = [at |-> "asks", now |-> clock]
    BY <1>2 DEF expire
  <2>2. reaper' \in [at : {"idle", "asks"}, now : 0 .. clock]
    BY <2>1, SessionBounds
  <2>3. SessionInv'
    BY <2>1, <2>2 DEF TimesAgree, VisitorsHaveIssued
  <2>4. OnlySeen
    BY <2>1 DEF OnlySeen, UnderWay
  <2> QED
    BY <2>1, <2>3, <2>4, QuietStep
<1>3. CASE expireLocked
  <2> DEFINE e == ExpireLoop(sessions, 1, reaper.now)
  <2>1. /\ UNCHANGED <<clock, visitor, issued, touched>> /\ reaper.at = "asks" /\ sessions' = e
        /\ reaper' = [reaper EXCEPT !.at = "idle"] /\ reaper.now \in Nat /\ clock \in Nat
        /\ reaper.now <= clock
    BY <1>3, SessionBounds DEF expireLocked
  <2>2. /\ SessionDb(e)
        /\ \A j \in DOMAIN e : \E k \in DOMAIN sessions : e[j] = sessions[k] /\ ~ Old(sessions[k], reaper.now)
        /\ \A k \in DOMAIN sessions : Old(sessions[k], reaper.now) \/ \E j \in DOMAIN e : e[j] = sessions[k]
    BY <2>1, ExpireLoopMeans
  <2> HIDE DEF e
  <2>3. Ids(e) \subseteq Ids(sessions)
    BY <2>2 DEF Ids
  <2>4. SessionInv'
    <3>1. TimesAgree'
      BY <2>1, <2>2 DEF TimesAgree
    <3>2. reaper' \in [at : {"idle", "asks"}, now : 0 .. clock]
      BY <2>1
    <3>3. VisitorsHaveIssued'
      BY <2>1 DEF VisitorsHaveIssued
    <3> QED
      BY <2>1, <2>2, <2>3, <3>1, <3>2, <3>3
  <2>5. \A i \in DOMAIN sessions : sessions[i] \in Session
    BY DEF SessionDb
  <2>6. ExpiredOnly
    <3> SUFFICES ASSUME NEW id \in Ids(sessions) \ Ids(sessions')
                 PROVE  clock - touched[id] > Timeout
      BY DEF ExpiredOnly
    <3>1. PICK k \in DOMAIN sessions : sessions[k].id = id
      BY DEF Ids
    <3>2. Old(sessions[k], reaper.now)
      BY <2>1, <2>2, <3>1 DEF Ids
    <3> QED
      BY <2>1, <2>5, <3>1, <3>2, SessionBounds DEF Old, TimesAgree, Session
  <2>7. NoneForgotten
    <3> SUFFICES ASSUME NEW id \in Ids(sessions')
                 PROVE  reaper.now - touched[id] <= Timeout
      BY DEF NoneForgotten
    <3>1. PICK j \in DOMAIN e : e[j].id = id
      BY <2>1 DEF Ids
    <3>2. PICK k \in DOMAIN sessions : e[j] = sessions[k] /\ ~ Old(sessions[k], reaper.now)
      BY <2>2
    <3> QED
      BY <2>1, <2>5, <3>1, <3>2, SessionBounds DEF Old, TimesAgree, Session
  <2>8. ComesBack
    BY <2>1, <2>3 DEF ComesBack, Ids
  <2>9. OnlySeen
    BY <2>1 DEF OnlySeen, UnderWay
  <2> QED
    BY <2>4, <2>6, <2>7, <2>8, <2>9 DEF SessionStep
<1>4. CASE tick
  <2>1. UNCHANGED <<sessions, visitor, reaper, issued, touched>> /\ clock < MaxTime /\ clock' = clock + 1
    BY <1>4 DEF tick
  <2>2. clock' \in 0 .. MaxTime /\ \A t \in 0 .. clock : t \in 0 .. clock'
    BY <2>1, SessionBounds
  <2>3. touched' \in [Uuids -> 0 .. clock'] /\ reaper' \in [at : {"idle", "asks"}, now : 0 .. clock']
    BY <2>1, <2>2
  <2>4. SessionInv'
    BY <2>1, <2>2, <2>3 DEF TimesAgree, VisitorsHaveIssued
  <2>5. OnlySeen
    BY <2>1 DEF OnlySeen, UnderWay
  <2> QED
    BY <2>1, <2>4, <2>5, QuietStep
<1>5. ASSUME NEW c \in Clients, create(c)
      PROVE  SessionStep
  <2>1. PICK id \in Uuids \ issued :
           /\ issued' = issued \union {id} /\ sessions' = Put(sessions, id, 1)
           /\ Moves(c, "apart", id, NoDataYet) /\ Used(id) /\ UNCHANGED <<clock, reaper>>
    BY <1>5 DEF create
  <2>2. /\ SessionDb(sessions') /\ Ids(sessions') = Ids(sessions) \union {id}
        /\ touched' \in [Uuids -> 0 .. clock] /\ TimesAgree'
        /\ \A i \in DOMAIN sessions' :
              sessions'[i].id \in Ids(sessions) \/ sessions'[i] = [id |-> id, data |-> 1, time |-> clock]
    BY <2>1, UseKeeps
  <2>3. VisitorsHaveIssued' /\ OnlySeen
    BY <2>1, MovesKeeps DEF NoDataYet
  <2>4. SessionInv'
    BY <2>1, <2>2, <2>3
  <2>5. ComesBack
    BY <2>1, <2>2 DEF ComesBack
  <2> QED
    BY <2>1, <2>2, <2>3, <2>4, <2>5, ClientStep
<1>6. ASSUME NEW c \in Clients, exists(c)
      PROVE  SessionStep
  <2>1. /\ visitor[c].at = "apart" /\ UNCHANGED <<sessions, clock, reaper, issued, touched>>
        /\ \/ visitor[c].id \in Ids(sessions) /\ Moves(c, "exists", visitor[c].id, NoDataYet)
           \/ Moves(c, "away", NoUuid, NoDataYet)
    BY <1>6 DEF exists, Apart
  <2>2. visitor[c].id \in issued
    BY <2>1 DEF VisitorsHaveIssued
  <2>3. VisitorsHaveIssued' /\ OnlySeen
    BY <2>1, <2>2, MovesKeeps DEF NoDataYet
  <2>4. SessionInv'
    BY <2>1, <2>3 DEF TimesAgree
  <2> QED
    BY <2>1, <2>3, <2>4, QuietStep
<1>7. ASSUME NEW c \in Clients, get(c)
      PROVE  SessionStep
  <2> DEFINE id == visitor[c].id
             data == IF id \in Ids(sessions) THEN sessions[Slot(sessions, id)].data ELSE NoDataYet
  <2>1. /\ visitor[c].at = "exists" /\ sessions' = Put(sessions, id, data)
        /\ Moves(c, "works", id, sessions'[Slot(sessions', id)].data)
        /\ Used(id) /\ UNCHANGED <<clock, reaper, issued>>
    BY <1>7 DEF get, Apart, DataOf
  <2>2. id \in issued /\ id \in Uuids
    BY <2>1 DEF VisitorsHaveIssued
  <2>3. data \in Nat
    <3>1. CASE id \in Ids(sessions)
      <4>1. sessions[Slot(sessions, id)] \in Session
        BY <3>1, SlotOf DEF SessionDb
      <4> QED
        BY <3>1, <4>1 DEF Session
    <3> QED
      BY <3>1 DEF NoDataYet
  <2>4. id \notin Ids(sessions) => data = NoDataYet
    OBVIOUS
  <2> HIDE DEF data, id
  <2>5. /\ SessionDb(sessions') /\ Ids(sessions') = Ids(sessions) \union {id}
        /\ touched' \in [Uuids -> 0 .. clock] /\ TimesAgree'
        /\ \A i \in DOMAIN sessions' :
              sessions'[i].id \in Ids(sessions) \/ sessions'[i] = [id |-> id, data |-> data, time |-> clock]
    BY <2>1, <2>2, <2>3, UseKeeps
  <2>6. sessions'[Slot(sessions', id)].data \in Nat
    <3>1. sessions'[Slot(sessions', id)] \in Session
      BY <2>5, SlotOf DEF SessionDb
    <3> QED
      BY <3>1 DEF Session
  <2>7. VisitorsHaveIssued' /\ OnlySeen
    <3>1. UnderWay(id)
      BY <2>1 DEF UnderWay, id
    <3> QED
      BY <2>1, <2>2, <2>6, <3>1, MovesKeeps
  <2>8. SessionInv'
    BY <2>1, <2>2, <2>5, <2>7
  <2>9. ComesBack
    BY <2>1, <2>4, <2>5 DEF ComesBack, id
  <2> QED
    BY <2>1, <2>5, <2>7, <2>8, <2>9, ClientStep
<1>8. ASSUME NEW c \in Clients, set(c)
      PROVE  SessionStep
  <2> DEFINE id == visitor[c].id
             data == visitor[c].data + 1
  <2>1. /\ visitor[c].at = "works" /\ sessions' = Put(sessions, id, data)
        /\ Moves(c, "apart", id, NoDataYet) /\ Used(id) /\ UNCHANGED <<clock, reaper, issued>>
    BY <1>8 DEF set, Apart
  <2>2. id \in issued /\ id \in Uuids /\ data \in Nat
    BY <2>1 DEF VisitorsHaveIssued
  <2>3. /\ SessionDb(sessions') /\ Ids(sessions') = Ids(sessions) \union {id}
        /\ touched' \in [Uuids -> 0 .. clock] /\ TimesAgree'
        /\ \A i \in DOMAIN sessions' :
              sessions'[i].id \in Ids(sessions) \/ sessions'[i] = [id |-> id, data |-> data, time |-> clock]
    <3> HIDE DEF id, data
    <3> QED
      BY <2>1, <2>2, UseKeeps
  <2>4. VisitorsHaveIssued' /\ OnlySeen
    BY <2>1, <2>2, MovesKeeps DEF NoDataYet
  <2>5. SessionInv'
    BY <2>1, <2>2, <2>3, <2>4
  <2>6. ComesBack
    BY <2>1, <2>3 DEF ComesBack
  <2> QED
    BY <2>1, <2>3, <2>4, <2>5, <2>6, ClientStep
<1>9. ASSUME NEW c \in Clients, ends(c)
      PROVE  SessionStep
  <2>1. /\ visitor[c].at = "works" /\ Moves(c, "apart", visitor[c].id, NoDataYet)
        /\ UNCHANGED <<sessions, clock, reaper, issued, touched>>
    BY <1>9 DEF ends, Apart
  <2>2. visitor[c].id \in issued
    BY <2>1 DEF VisitorsHaveIssued
  <2>3. VisitorsHaveIssued' /\ OnlySeen
    BY <2>1, <2>2, MovesKeeps DEF NoDataYet
  <2>4. SessionInv'
    BY <2>1, <2>3 DEF TimesAgree
  <2> QED
    BY <2>1, <2>3, <2>4, QuietStep
<1>10. ASSUME NEW c \in Clients, destroy(c)
       PROVE  SessionStep
  <2> DEFINE id == visitor[c].id
  <2>1. /\ visitor[c].at = "works" /\ Moves(c, "away", NoUuid, NoDataYet)
        /\ UNCHANGED <<clock, reaper, issued, touched>>
        /\ sessions' = IF id \in Ids(sessions) THEN RemoveAt(sessions, Slot(sessions, id)) ELSE sessions
    BY <1>10 DEF destroy, Apart
  <2>2. VisitorsHaveIssued' /\ visitor'[c].at = "away" /\ OnlySeen
    BY <2>1, MovesKeeps DEF NoDataYet
  <2> HIDE DEF id
  <2>3. /\ SessionDb(sessions') /\ Ids(sessions') \subseteq Ids(sessions)
        /\ \A i \in DOMAIN sessions' : \E j \in DOMAIN sessions : sessions'[i] = sessions[j]
    <3>1. CASE id \in Ids(sessions)
      BY <2>1, <3>1, SlotOf, RemovedSession
    <3>2. CASE id \notin Ids(sessions)
      BY <2>1, <3>2
    <3> QED
      BY <3>1, <3>2
  <2>4. SessionInv'
    <3>1. TimesAgree'
      BY <2>1, <2>3 DEF TimesAgree
    <3> QED
      BY <2>1, <2>2, <2>3, <3>1
  <2>5. ExpiredOnly
    BY <2>1, <2>2 DEF ExpiredOnly
  <2>6. NoneForgotten
    BY <2>1 DEF NoneForgotten
  <2>7. ComesBack
    BY <2>3 DEF ComesBack, Ids
  <2> QED
    BY <2>2, <2>4, <2>5, <2>6, <2>7 DEF SessionStep
<1>11. ASSUME NEW c \in Clients, NEW d \in Clients, join(c, d)
       PROVE  SessionStep
  <2>1. /\ visitor[d].id # NoUuid /\ Moves(c, "apart", visitor[d].id, NoDataYet)
        /\ UNCHANGED <<sessions, clock, reaper, issued, touched>>
    BY <1>11 DEF join
  <2>2. visitor[d].id \in issued
    BY <2>1 DEF VisitorsHaveIssued
  <2>3. VisitorsHaveIssued' /\ OnlySeen
    BY <2>1, <2>2, MovesKeeps DEF NoDataYet
  <2>4. SessionInv'
    BY <2>1, <2>3 DEF TimesAgree
  <2> QED
    BY <2>1, <2>3, <2>4, QuietStep
<1> QED
  BY <1>1, <1>2, <1>3, <1>4, <1>5, <1>6, <1>7, <1>8, <1>9, <1>10, <1>11 DEF SessionNext

LEMMA SessionInitInv == SessionInit => SessionInv
<1> SUFFICES ASSUME SessionInit PROVE SessionInv
  OBVIOUS
<1>1. sessions = <<>> /\ SessionDb(sessions) /\ DOMAIN sessions = {}
  BY DEF SessionInit, SessionDb, Unique
<1>2. Ids(sessions) = {} /\ TimesAgree
  BY <1>1 DEF Ids, TimesAgree
<1>3. VisitorsHaveIssued
  BY DEF SessionInit, VisitorsHaveIssued, NoDataYet
<1>4. 0 \in 0 .. 0 /\ 0 \in 0 .. MaxTime
  BY SessionBounds
<1> QED
  BY <1>1, <1>2, <1>3, <1>4 DEF SessionInit, SessionInv

\* As many ids as sessions.
LEMMA OneIdEach ==
    ASSUME NEW db, SessionDb(db)
    PROVE  Cardinality(Ids(db)) = Len(db)
<1> DEFINE n == Len(db)
           f == [i \in 1 .. n |-> db[i].id]
<1>1. n \in Nat /\ DOMAIN db = 1 .. n
  BY LenProperties DEF SessionDb
<1> HIDE DEF n
<1>2. f \in Bijection(1 .. n, Ids(db))
  <2>1. f \in Injection(1 .. n, Ids(db))
    BY <1>1 DEF Injection, IsInjective, SessionDb, Unique, Ids
  <2>2. f \in Surjection(1 .. n, Ids(db))
    BY <1>1 DEF Surjection, Ids
  <2> QED
    BY <2>1, <2>2 DEF Bijection
<1>3. IsFiniteSet(1 .. n) /\ Cardinality(1 .. n) = n
  BY <1>1, FS_Interval
<1>4. ExistsBijection(1 .. n, Ids(db))
  BY <1>2 DEF ExistsBijection
<1>5. Cardinality(Ids(db)) = Cardinality(1 .. n)
  BY <1>3, <1>4, FS_Bijection
<1> QED
  BY <1>3, <1>5 DEF n

LEMMA SessionInvTypes == SessionInv => SessionTypeOK
BY OneIdEach, SessionBounds DEF SessionInv, SessionTypeOK

LEMMA SessionInvariance == SessionSpec => []SessionInv /\ [][SessionStep]_sessionVars
<1>1. SessionInv /\ [SessionNext]_sessionVars => SessionInv' /\ [SessionStep]_sessionVars
  BY SessionStepInv DEF SessionStep
<1> QED
  BY <1>1, SessionInitInv, PTL DEF SessionSpec

\* The sessions keep their types: no two have one id, and each id was made by
\* create. The list is as long as the set of its ids.
THEOREM SessionTypeCorrect == SessionSpec => []SessionTypeOK
BY SessionInvariance, SessionInvTypes, PTL

\* Whatever the clients and expire do, and in which order: a session that goes
\* without destroy is too old, none that expire leaves is, and one that went
\* comes back only by a client that was under way with it, empty by get or with
\* the data that client had got and its change by set; once no client is, it is
\* gone for good.
THEOREM SessionsAreKept == SessionSpec => SessionsKept
<1>1. SessionStep => ExpiredOnly /\ NoneForgotten /\ ComesBack /\ GoneForGood
  <2> SUFFICES ASSUME ComesBack, OnlySeen,
                      NEW id \in issued \ Ids(sessions), ~ UnderWay(id)
               PROVE  id \notin Ids(sessions') /\ ~ UnderWay(id)'
    BY DEF SessionStep, GoneForGood
  <2>1. id \notin Ids(sessions')
    BY DEF ComesBack, UnderWay, Ids
  <2>2. ~ UnderWay(id)'
    BY DEF OnlySeen, UnderWay
  <2> QED
    BY <2>1, <2>2
<1> QED
  BY <1>1, SessionInvariance, PTL DEF SessionsKept

(***************************************************************************)
(* The system of MCPools                                                   *)
(***************************************************************************)
HttpdRests == mpc = "start" /\ main = <<0, 0, 0>> /\ asked = FALSE /\ raised = FALSE /\ spc = "out"
SmtpdRests == smtpdAt = "start" /\ smtpdMain = <<0, 0, 0>> /\ _shutdown = FALSE /\ caller = "out"

\* The server that takes no part rests, before a pool that is the other's.
PoolsInv ==
    /\ part \in {"httpd", "smtpd", "session"} /\ SessionInv
    /\ part = "smtpd" => HttpdRests
    /\ part # "smtpd" => HttpdInv
    /\ part = "httpd" => SmtpdRests
    /\ part # "httpd" => SmtpdInv

LEMMA PoolsInvMeans == PoolsInv => PoolsTypeOK
<1> SUFFICES ASSUME PoolsInv PROVE PoolsTypeOK
  OBVIOUS
<1>1. SessionTypeOK
  BY SessionInvTypes DEF PoolsInv
<1>2. 0 \in 0 .. MinRounds /\ 0 \in 0 .. MaxThr /\ 0 \in Int /\ 0 \in 0 .. GrowRounds + SkimRounds
  BY ThreadsAssumption, RoundsAssumption, SmtpdRounds
<1>3. TypeOK
  <2>1. CASE part = "smtpd"
    <3>1. PoolTypeOK /\ Len(members) <= MaxThr
      BY <2>1 DEF PoolsInv, SmtpdInv, SmtpdTypeOK
    <3>2. tload = 0 /\ tdelay = 0 /\ skimcount = 0
      BY <2>1 DEF PoolsInv, HttpdRests, main
    <3> QED
      BY <1>2, <2>1, <3>1, <3>2 DEF PoolsInv, HttpdRests, TypeOK, Count
  <2> QED
    BY <2>1 DEF PoolsInv, HttpdInv
<1>4. SmtpdTypeOK
  <2>1. CASE part = "httpd"
    <3>1. PoolTypeOK /\ Len(members) <= MaxThr
      BY <2>1 DEF PoolsInv, HttpdInv, TypeOK, Count
    <3>2. smtpdLoad = 0 /\ smtpdDelay = 0 /\ smtpdSkim = 0
      BY <2>1 DEF PoolsInv, SmtpdRests, smtpdMain
    <3> QED
      BY <1>2, <2>1, <3>1, <3>2 DEF PoolsInv, SmtpdRests, SmtpdTypeOK
  <2> QED
    BY <2>1 DEF PoolsInv, SmtpdInv
<1> QED
  BY <1>1, <1>3, <1>4 DEF PoolsTypeOK

\* The variables of both servers and of the sessions keep their types, whichever
\* part takes steps.
THEOREM PoolsTypeCorrect == PoolsSpec => []PoolsTypeOK
<1>1. PoolsInit => PoolsInv
  <2> SUFFICES ASSUME PoolsInit PROVE PoolsInv
    OBVIOUS
  <2>1. HttpdInv /\ SmtpdInv /\ SessionInv
    BY HttpdInitInv, SmtpdInitInv, SessionInitInv DEF PoolsInit
  <2>2. HttpdRests /\ SmtpdRests
    BY DEF PoolsInit, Init, SmtpdInit, HttpdRests, SmtpdRests, main, smtpdMain
  <2> QED
    BY <2>1, <2>2 DEF PoolsInit, PoolsInv
<1>2. ASSUME PoolsInv, [PoolsNext]_<<part, vars, smtpdOnly, sessionVars>>
      PROVE  PoolsInv'
  <2> USE DEF PoolsInv
  <2>1. CASE part = "httpd" /\ Next /\ UNCHANGED <<part, smtpdOnly, sessionVars>>
    <3>1. HttpdInv' /\ SessionInv'
      BY <1>2, <2>1, HttpdStepInv, SessionStepInv DEF SessionStep
    <3>2. SmtpdRests'
      BY <1>2, <2>1 DEF SmtpdRests, smtpdOnly, smtpdMain
    <3> QED
      BY <1>2, <2>1, <3>1, <3>2
  <2>2. CASE part = "smtpd" /\ SmtpdNext /\ UNCHANGED <<part, httpdOnly, sessionVars>>
    <3>1. SmtpdInv' /\ SessionInv'
      BY <1>2, <2>2, SmtpdStepInv, SessionStepInv DEF SessionStep
    <3>2. HttpdRests'
      BY <1>2, <2>2 DEF HttpdRests, httpdOnly, main
    <3> QED
      BY <1>2, <2>2, <3>1, <3>2
  <2>3. CASE part # "httpd" /\ part # "smtpd" /\ SessionNext /\ UNCHANGED <<part, vars, smtpdOnly>>
    <3>1. UNCHANGED smtpdVars
      BY <1>2, <2>3 DEF smtpdVars, smtpdOnly, vars
    <3>2. HttpdInv' /\ SmtpdInv' /\ SessionInv'
      BY <1>2, <2>3, <3>1, HttpdStepInv, SmtpdStepInv, SessionStepInv DEF SessionStep
    <3> QED
      BY <1>2, <2>3, <3>2
  <2>4. CASE UNCHANGED <<part, vars, smtpdOnly, sessionVars>>
    <3>1. UNCHANGED smtpdVars
      BY <1>2, <2>4 DEF smtpdVars, smtpdOnly, vars
    <3>2. SessionInv' /\ (HttpdInv => HttpdInv') /\ (SmtpdInv => SmtpdInv')
      BY <1>2, <2>4, <3>1, HttpdStepInv, SmtpdStepInv, SessionStepInv DEF SessionStep
    <3>3. (HttpdRests => HttpdRests') /\ (SmtpdRests => SmtpdRests')
      BY <1>2, <2>4 DEF HttpdRests, SmtpdRests, smtpdOnly, smtpdMain, vars, main
    <3> QED
      BY <1>2, <2>4, <3>2, <3>3
  <2> QED
    BY <1>2, <2>1, <2>2, <2>3, <2>4 DEF PoolsNext
<1> QED
  BY <1>1, <1>2, PoolsInvMeans, PTL DEF PoolsSpec
=============================================================================
