--------------------------- MODULE ProgressProofs ---------------------------
(***************************************************************************)
(* Proofs about the life of a thread, for all callers and pthreads.        *)
(***************************************************************************)
EXTENDS MCProgress, QueueLockProofs, SequenceTheorems, FiniteSetTheorems, TLAPS

(***************************************************************************)
(* The life of a thread, for any number of callers, pthreads and calls     *)
(*                                                                         *)
(* What the flags say is inductive only together with how many pthreads    *)
(* were made and where the spawner is between its test and its mark.       *)
(***************************************************************************)
\* One thread calls spawn.
OneSpawner == \A c, d \in Spawners : c = d

Places == {"free", "start", "list", "run", "stop", "finish", "raise", "unlist", "done", "killed"}

CallPlaces == {"idle", "create", "created", "not created", "wait", "poll", "killed"}

\* Who is in the conditional waits for it.
WaitFits ==
    /\ queue \in Int
    /\ \A c \in sleeping : c \in Callers /\ cpc[c] = "wait" /\ c \notin woken
    /\ \A c \in woken : c \in Callers /\ cpc[c] = "wait"

FlagTypes ==
    /\ spawned \in BOOLEAN /\ isrunning \in BOOLEAN /\ finished \in BOOLEAN
    /\ listed \in BOOLEAN
    /\ mail \in 0 .. MaxMail /\ shutdowns \in 0 .. MaxShutdowns

PlaceTypes == native \in [Natives -> Places] /\ cpc \in [Callers -> CallPlaces]

\* A pthread is made once, by the spawner that found none, and is marked by it.
MadeOnce ==
    /\ \A n, m \in Started : n = m
    /\ \A c \in Callers : cpc[c] # "not created"
                          /\ (cpc[c] \in {"create", "created"} => c \in Spawners)
                          /\ (cpc[c] = "create" => Started = {})
    /\ Started # {} => \/ spawned \/ \A c \in Callers : cpc[c] = "killed"
                       \/ \E c \in Callers : cpc[c] = "created"

\* What the flags and the list say of a pthread at a place.
FlagsSay(place) ==
    /\ place \in {"run", "stop", "finish", "raise"} => listed
    /\ place \in {"finish", "raise", "unlist", "done"} => ~ isrunning
    /\ place \in {"raise", "unlist", "done"} => finished

FlagsFit ==
    /\ isrunning \/ listed => Started # {}
    /\ \A n \in Natives : FlagsSay(native[n])

\* hasfinished was raised when the pthread had left its run.
RaisedLate ==
    queue # 0 \/ woken # {} =>
        finished /\ ~ isrunning /\ \E n \in Natives : native[n] \in {"unlist", "done", "killed"}

LifeInv == WaitFits /\ FlagTypes /\ PlaceTypes /\ MadeOnce /\ FlagsFit /\ RaisedLate

\* The pthread n goes on to a place.
GoesOn(n, place) ==
    /\ place \in Places \ {"free"}
    /\ native[n] # "free"
    /\ native' = [native EXCEPT ![n] = place]
    /\ UNCHANGED <<cpc, spawned>>

\* There is no other.
Alone(n, place) ==
    /\ Started' = Started /\ n \in Started
    /\ native' \in [Natives -> Places]
    /\ native'[n] = place
    /\ \A m \in Natives : m # n => native[m] = "free" /\ native'[m] = "free"

LEMMA OneGoesOn ==
    ASSUME LifeInv, NEW n \in Natives, NEW place, GoesOn(n, place)
    PROVE  Alone(n, place) /\ MadeOnce' /\ PlaceTypes'
<1>1. PlaceTypes /\ MadeOnce
  BY DEF LifeInv
<1>2. native' \in [Natives -> Places] /\ native'[n] = place
      /\ \A m \in Natives : m # n => native'[m] = native[m]
  BY <1>1 DEF PlaceTypes, GoesOn
<1>3. Started' = Started /\ n \in Started
  BY <1>2 DEF Started, GoesOn
<1>4. MadeOnce'
  BY <1>1, <1>3 DEF MadeOnce, GoesOn
<1>5. \A m \in Natives : m # n => native[m] = "free"
  BY <1>1, <1>3 DEF MadeOnce, Started
<1> QED
  BY <1>1, <1>2, <1>3, <1>4, <1>5 DEF Alone, PlaceTypes, GoesOn

\* A place the flags allow keeps them fitting.
LEMMA FlagsFollow ==
    ASSUME LifeInv, NEW n \in Natives, NEW place, GoesOn(n, place), FlagsSay(place)'
    PROVE  FlagsFit'
<1>1. Alone(n, place)
  BY OneGoesOn
<1>2. ASSUME NEW m \in Natives PROVE FlagsSay(native[m])'
  <2>1. CASE m = n
    BY <1>1, <2>1 DEF Alone
  <2>2. CASE m # n
    BY <1>1, <2>2 DEF Alone, FlagsSay
  <2> QED
    BY <2>1, <2>2
<1> QED
  BY <1>1, <1>2 DEF Alone, FlagsFit

LEMMA ThreadStep ==
    ASSUME LifeInv, NEW n \in Natives, NEW place, GoesOn(n, place), FlagsSay(place)',
           WaitFits', FlagTypes', RaisedLate'
    PROVE  LifeInv'
BY OneGoesOn, FlagsFollow DEF LifeInv

\* A pthread that has yet to leave its run means that nothing was raised.
LEMMA NotRaised ==
    ASSUME LifeInv, NEW n \in Natives,
           native[n] \in {"start", "list", "run", "stop", "finish", "raise"}
    PROVE  queue = 0 /\ woken = {}
<1>1. \A m \in Natives : m # n => native[m] = "free"
  BY DEF LifeInv, MadeOnce, Started
<1> QED
  BY <1>1 DEF LifeInv, RaisedLate

\* Every step of dorun.
LEMMA DorunStep ==
    ASSUME LifeInv, NEW n \in Natives, Dorun(n) \/ runReturns(n)
    PROVE  LifeInv'
<1>t. WaitFits /\ FlagTypes /\ PlaceTypes /\ MadeOnce /\ FlagsFit /\ RaisedLate
  BY DEF LifeInv
<1>b. MaxMail \in Nat /\ MaxShutdowns \in Nat
  BY BoundsAssumption
<1>1. CASE enter(n)
  <2>1. native[n] = "start" /\ GoesOn(n, "list")
    BY <1>1 DEF enter, Reach, GoesOn, Places, flags
  <2>2. isrunning' = TRUE /\ UNCHANGED <<cond, finished, listed, mail, shutdowns>>
    BY <1>1 DEF enter, flags
  <2>3. FlagsSay("list")' /\ FlagTypes'
    BY <1>t, <1>b, <2>1, <2>2 DEF FlagsFit, FlagsSay, FlagTypes, GoesOn
  <2>4. WaitFits'
    BY <1>t, <2>1, <2>2 DEF WaitFits, GoesOn, cond
  <2>5. RaisedLate'
    BY <2>1, <2>2, NotRaised DEF RaisedLate, cond
  <2> QED
    BY <2>1, <2>3, <2>4, <2>5, ThreadStep
<1>2. CASE list(n)
  <2>1. native[n] = "list" /\ GoesOn(n, "run")
    BY <1>2 DEF list, Reach, GoesOn, Places, flags
  <2>2. listed' = TRUE /\ UNCHANGED <<cond, finished, isrunning, mail, shutdowns>>
    BY <1>2 DEF list, flags
  <2>3. FlagsSay("run")' /\ FlagTypes'
    BY <1>t, <1>b, <2>1, <2>2 DEF FlagsFit, FlagsSay, FlagTypes, GoesOn
  <2>4. WaitFits'
    BY <1>t, <2>1, <2>2 DEF WaitFits, GoesOn, cond
  <2>5. RaisedLate'
    BY <2>1, <2>2, NotRaised DEF RaisedLate, cond
  <2> QED
    BY <2>1, <2>3, <2>4, <2>5, ThreadStep
<1>3. CASE runGetsShutdown(n)
  <2>1. native[n] = "run" /\ GoesOn(n, "stop")
    BY <1>3 DEF runGetsShutdown, Reach, GoesOn, Places, flags
  <2>2. mail > 0 /\ mail' = mail - 1 /\ UNCHANGED <<cond, finished, isrunning, listed, shutdowns>>
    BY <1>3 DEF runGetsShutdown, flags
  <2>3. FlagsSay("stop")' /\ FlagTypes'
    BY <1>t, <1>b, <2>1, <2>2 DEF FlagsFit, FlagsSay, FlagTypes, GoesOn
  <2>4. WaitFits'
    BY <1>t, <2>1, <2>2 DEF WaitFits, GoesOn, cond
  <2>5. RaisedLate'
    BY <2>1, <2>2, NotRaised DEF RaisedLate, cond
  <2> QED
    BY <2>1, <2>3, <2>4, <2>5, ThreadStep
<1>4. CASE runReturns(n)
  <2>1. native[n] = "run" /\ GoesOn(n, "stop")
    BY <1>4 DEF runReturns, Reach, GoesOn, Places, flags
  <2>2. UNCHANGED <<cond, finished, isrunning, listed, mail, shutdowns>>
    BY <1>4 DEF runReturns, flags
  <2>3. FlagsSay("stop")' /\ FlagTypes'
    BY <1>t, <1>b, <2>1, <2>2 DEF FlagsFit, FlagsSay, FlagTypes, GoesOn
  <2>4. WaitFits'
    BY <1>t, <2>1, <2>2 DEF WaitFits, GoesOn, cond
  <2>5. RaisedLate'
    BY <2>1, <2>2, NotRaised DEF RaisedLate, cond
  <2> QED
    BY <2>1, <2>3, <2>4, <2>5, ThreadStep
<1>5. CASE stop(n)
  <2>1. native[n] = "stop" /\ GoesOn(n, "finish")
    BY <1>5 DEF stop, Reach, GoesOn, Places, flags
  <2>2. isrunning' = FALSE /\ UNCHANGED <<cond, finished, listed, mail, shutdowns>>
    BY <1>5 DEF stop, flags
  <2>3. FlagsSay("finish")' /\ FlagTypes'
    BY <1>t, <1>b, <2>1, <2>2 DEF FlagsFit, FlagsSay, FlagTypes, GoesOn
  <2>4. WaitFits'
    BY <1>t, <2>1, <2>2 DEF WaitFits, GoesOn, cond
  <2>5. RaisedLate'
    BY <2>1, <2>2, NotRaised DEF RaisedLate, cond
  <2> QED
    BY <2>1, <2>3, <2>4, <2>5, ThreadStep
<1>6. CASE finish(n)
  <2>1. native[n] = "finish" /\ GoesOn(n, "raise")
    BY <1>6 DEF finish, Reach, GoesOn, Places, flags
  <2>2. finished' = TRUE /\ UNCHANGED <<cond, isrunning, listed, mail, shutdowns>>
    BY <1>6 DEF finish, flags
  <2>3. FlagsSay("raise")' /\ FlagTypes'
    BY <1>t, <1>b, <2>1, <2>2 DEF FlagsFit, FlagsSay, FlagTypes, GoesOn
  <2>4. WaitFits'
    BY <1>t, <2>1, <2>2 DEF WaitFits, GoesOn, cond
  <2>5. RaisedLate'
    BY <2>1, <2>2, NotRaised DEF RaisedLate, cond
  <2> QED
    BY <2>1, <2>3, <2>4, <2>5, ThreadStep
<1>7. CASE unlist(n)
  <2>1. native[n] = "unlist" /\ GoesOn(n, "done")
    BY <1>7 DEF unlist, Reach, GoesOn, Places, flags
  <2>2. listed' = FALSE /\ UNCHANGED <<cond, finished, isrunning, mail, shutdowns>>
    BY <1>7 DEF unlist, flags
  <2>3. FlagsSay("done")' /\ FlagTypes'
    BY <1>t, <1>b, <2>1, <2>2 DEF FlagsFit, FlagsSay, FlagTypes, GoesOn
  <2>4. WaitFits'
    BY <1>t, <2>1, <2>2 DEF WaitFits, GoesOn, cond
  <2>5. RaisedLate'
    <3>1. finished /\ ~ isrunning
      BY <1>t, <2>1 DEF FlagsFit, FlagsSay
    <3>2. native'[n] = "done"
      BY <1>t, <2>1 DEF PlaceTypes, GoesOn
    <3> QED
      BY <2>2, <3>1, <3>2 DEF RaisedLate
  <2> QED
    BY <2>1, <2>3, <2>4, <2>5, ThreadStep
<1>8. CASE raiseFinished(n)
  <2>1. native[n] = "raise" /\ GoesOn(n, "unlist")
    BY <1>8 DEF raiseFinished, Reach, GoesOn, Places, flags
  <2>2. CondBroadcast /\ UNCHANGED <<finished, isrunning, listed, mail, shutdowns>>
    BY <1>8 DEF raiseFinished, flags
  <2>3. FlagsSay("unlist")' /\ FlagTypes'
    BY <1>t, <2>1, <2>2 DEF FlagsFit, FlagsSay, FlagTypes, GoesOn
  <2>4. WaitFits'
    BY <1>t, <2>1, <2>2 DEF WaitFits, GoesOn, CondBroadcast
  <2>5. RaisedLate'
    <3>1. finished /\ ~ isrunning
      BY <1>t, <2>1 DEF FlagsFit, FlagsSay
    <3>2. native'[n] = "unlist"
      BY <1>t, <2>1 DEF PlaceTypes, GoesOn
    <3> QED
      BY <2>2, <3>1, <3>2 DEF RaisedLate
  <2> QED
    BY <2>1, <2>3, <2>4, <2>5, ThreadStep
<1> QED
  BY <1>1, <1>2, <1>3, <1>4, <1>5, <1>6, <1>7, <1>8 DEF Dorun

\* The caller c goes from one place to another.
CallerGoes(c, from, to) ==
    /\ cpc[c] = from /\ cpc' = [cpc EXCEPT ![c] = to]
    /\ to \in CallPlaces

LEMMA OneCallerGoes ==
    ASSUME LifeInv, NEW c \in Callers, NEW from, NEW to, CallerGoes(c, from, to)
    PROVE  /\ cpc' \in [Callers -> CallPlaces] /\ cpc'[c] = to
           /\ \A d \in Callers : d # c => cpc'[d] = cpc[d]
BY DEF LifeInv, PlaceTypes, CallerGoes

\* A call that starts nothing and does not touch the flags runs() is about.
LEMMA PlainCall ==
    ASSUME LifeInv, NEW c \in Callers, NEW from \in {"idle", "wait", "poll"},
           NEW to \in {"idle", "wait", "poll"}, CallerGoes(c, from, to),
           UNCHANGED <<native, spawned, isrunning, finished, listed>>,
           mail' \in 0 .. MaxMail, shutdowns' \in 0 .. MaxShutdowns, WaitFits', RaisedLate'
    PROVE  LifeInv'
<1>1. PlaceTypes /\ FlagTypes /\ MadeOnce /\ FlagsFit /\ Started' = Started
  BY DEF LifeInv, Started
<1>2. cpc' \in [Callers -> CallPlaces] /\ cpc'[c] = to /\ cpc[c] = from
      /\ \A d \in Callers : d # c => cpc'[d] = cpc[d]
  BY OneCallerGoes DEF CallerGoes
<1>3. MadeOnce'
  BY <1>1, <1>2 DEF MadeOnce
<1>4. PlaceTypes' /\ FlagTypes'
  BY <1>1, <1>2 DEF PlaceTypes, FlagTypes
<1>5. FlagsFit'
  BY <1>1 DEF FlagsFit, FlagsSay
<1> QED
  BY <1>3, <1>4, <1>5 DEF LifeInv

\* shutdown, shutdownall and hasfinished.wait ().
LEMMA ShutdownStep ==
    ASSUME LifeInv, NEW c \in Callers,
           \/ shutdown(c) \/ shutdownall(c) \/ pollEmpty(c)
           \/ finishedTake(c) \/ finishedSleep(c) \/ finishedWake(c)
    PROVE  LifeInv'
<1>t. WaitFits /\ FlagTypes /\ PlaceTypes /\ MadeOnce /\ FlagsFit /\ RaisedLate
  BY DEF LifeInv
<1>b. MaxMail \in Nat /\ MaxShutdowns \in Nat
  BY BoundsAssumption
<1>1. CASE shutdown(c)
  <2>1. CallerGoes(c, "idle", "wait") /\ UNCHANGED <<native, spawned, isrunning, finished, listed>>
    BY <1>1 DEF shutdown, Goto, CallerGoes, CallPlaces
  <2>2. mail' \in 0 .. MaxMail /\ shutdowns' \in 0 .. MaxShutdowns
    BY <1>1, <1>b, <1>t DEF shutdown, FlagTypes
  <2>3. WaitFits'
    BY <1>1, <1>t, <2>1, OneCallerGoes DEF WaitFits, shutdown, CallerGoes, cond
  <2>4. RaisedLate'
    BY <1>1, <1>t DEF RaisedLate, shutdown, cond
  <2> QED
    BY <2>1, <2>2, <2>3, <2>4, PlainCall
<1>2. CASE shutdownall(c)
  <2>1. CallerGoes(c, "idle", "poll") /\ UNCHANGED <<native, spawned, isrunning, finished, listed>>
    BY <1>2 DEF shutdownall, Goto, CallerGoes, CallPlaces
  <2>2. mail' \in 0 .. MaxMail /\ shutdowns' \in 0 .. MaxShutdowns
    BY <1>2, <1>b, <1>t DEF shutdownall, FlagTypes
  <2>3. WaitFits'
    BY <1>2, <1>t, <2>1, OneCallerGoes DEF WaitFits, shutdownall, CallerGoes, cond
  <2>4. RaisedLate'
    BY <1>2, <1>t DEF RaisedLate, shutdownall, cond
  <2> QED
    BY <2>1, <2>2, <2>3, <2>4, PlainCall
<1>3. CASE pollEmpty(c)
  <2>1. CallerGoes(c, "poll", "idle") /\ UNCHANGED <<native, spawned, isrunning, finished, listed>>
    BY <1>3 DEF pollEmpty, Goto, CallerGoes, CallPlaces, flags
  <2>2. mail' \in 0 .. MaxMail /\ shutdowns' \in 0 .. MaxShutdowns
    BY <1>3, <1>t DEF pollEmpty, FlagTypes, flags
  <2>3. WaitFits'
    BY <1>3, <1>t, <2>1, OneCallerGoes DEF WaitFits, pollEmpty, CallerGoes, cond
  <2>4. RaisedLate'
    BY <1>3, <1>t DEF RaisedLate, pollEmpty, cond, flags
  <2> QED
    BY <2>1, <2>2, <2>3, <2>4, PlainCall
<1>4. CASE finishedTake(c)
  <2>1. CallerGoes(c, "wait", "idle") /\ UNCHANGED <<native, spawned, isrunning, finished, listed>>
    BY <1>4 DEF finishedTake, WaitsFinished, Goto, CallerGoes, CallPlaces, flags
  <2>2. mail' \in 0 .. MaxMail /\ shutdowns' \in 0 .. MaxShutdowns
    BY <1>4, <1>t DEF finishedTake, FlagTypes, flags
  <2>3. WaitFits'
    BY <1>4, <1>t, <2>1, OneCallerGoes DEF WaitFits, finishedTake, WaitsFinished, CondTake
  <2>4. RaisedLate'
    BY <1>4, <1>t DEF RaisedLate, finishedTake, CondTake, flags
  <2> QED
    BY <2>1, <2>2, <2>3, <2>4, PlainCall
<1>5. CASE finishedSleep(c)
  <2>1. /\ WaitsFinished(c) /\ sleeping' = sleeping \union {c}
        /\ UNCHANGED <<queue, woken, flags, native, cpc>>
    BY <1>5 DEF finishedSleep, CondSleep
  <2>2. WaitFits'
    BY <1>t, <2>1 DEF WaitFits, WaitsFinished
  <2>3. FlagTypes' /\ PlaceTypes' /\ MadeOnce' /\ FlagsFit' /\ RaisedLate'
    BY <1>t, <2>1 DEF FlagTypes, PlaceTypes, MadeOnce, Started, FlagsFit, FlagsSay, RaisedLate, flags
  <2> QED
    BY <2>2, <2>3 DEF LifeInv
<1>6. CASE finishedWake(c)
  <2>0. c \in woken /\ cpc[c] = "wait"
    BY <1>6, <1>t DEF finishedWake, CondWake, WaitFits
  <2>1. CallerGoes(c, "wait", "idle") /\ UNCHANGED <<native, spawned, isrunning, finished, listed>>
    BY <1>6, <2>0 DEF finishedWake, Goto, CallerGoes, CallPlaces, flags
  <2>2. mail' \in 0 .. MaxMail /\ shutdowns' \in 0 .. MaxShutdowns
    BY <1>6, <1>t DEF finishedWake, FlagTypes, flags
  <2>3. WaitFits'
    BY <1>6, <1>t, <2>1, OneCallerGoes DEF WaitFits, finishedWake, CondWake
  <2>4. RaisedLate'
    BY <1>6, <1>t, <2>0 DEF RaisedLate, finishedWake, CondWake, flags
  <2> QED
    BY <2>1, <2>2, <2>3, <2>4, PlainCall
<1> QED
  BY <1>1, <1>2, <1>3, <1>4, <1>5, <1>6

\* spawn, by the one thread that calls it: a step of another spawner between
\* the test and the mark would make a second pthread.
LEMMA SpawnStep ==
    ASSUME OneSpawner, LifeInv, NEW c \in Callers,
           spawnTest(c) \/ spawnCreate(c) \/ spawnMark(c)
    PROVE  LifeInv'
<1>t. WaitFits /\ FlagTypes /\ PlaceTypes /\ MadeOnce /\ FlagsFit /\ RaisedLate
  BY DEF LifeInv
<1>1. CASE spawnTest(c)
  <2>1. CallerGoes(c, "idle", "create") /\ c \in Spawners /\ UNCHANGED <<cond, flags, native>>
        /\ ~ spawned
    BY <1>1 DEF spawnTest, Goto, CallerGoes, CallPlaces
  <2>2. cpc' \in [Callers -> CallPlaces] /\ cpc'[c] = "create" /\ cpc[c] = "idle"
        /\ \A d \in Callers : d # c => cpc'[d] = cpc[d]
    BY <2>1, OneCallerGoes DEF CallerGoes
  <2>3. Started = {} /\ Started' = {}
    BY <1>t, <2>1, <2>2 DEF MadeOnce, OneSpawner, Started
  <2>4. MadeOnce'
    BY <1>t, <2>1, <2>2, <2>3 DEF MadeOnce
  <2>5. WaitFits' /\ FlagTypes' /\ PlaceTypes' /\ FlagsFit' /\ RaisedLate'
    BY <1>t, <2>1, <2>2, <2>3 DEF WaitFits, FlagTypes, PlaceTypes, FlagsFit, FlagsSay, RaisedLate, cond, flags
  <2> QED
    BY <2>4, <2>5 DEF LifeInv
<1>2. CASE spawnCreate(c)
  <2>1. cpc[c] = "create" /\ Started = {} /\ ~ isrunning /\ ~ listed
    BY <1>2, <1>t DEF spawnCreate, MadeOnce, FlagsFit
  <2>2. queue = 0 /\ woken = {}
    BY <1>t, <2>1 DEF RaisedLate, Started
  <2>3. PICK n \in Natives : native[n] = "free" /\ native' = [native EXCEPT ![n] = "start"]
    BY <1>2, <2>1 DEF spawnCreate, Reach
  <2>4. CallerGoes(c, "create", "created") /\ UNCHANGED <<cond, flags>>
    BY <1>2, <2>1 DEF spawnCreate, Goto, CallerGoes, CallPlaces
  <2>5. cpc' \in [Callers -> CallPlaces] /\ cpc'[c] = "created"
        /\ \A d \in Callers : d # c => cpc'[d] = cpc[d]
    BY <2>4, OneCallerGoes
  <2>6. native' \in [Natives -> Places] /\ native'[n] = "start"
        /\ \A m \in Natives : m # n => native'[m] = native[m] /\ native[m] = "free"
    BY <1>t, <2>1, <2>3 DEF PlaceTypes, Started, Places
  <2>7. Started' = {n}
    BY <2>6 DEF Started
  <2>8. c \in Spawners /\ \A d \in Callers : d # c => cpc[d] # "create"
    BY <1>t, <2>1 DEF MadeOnce, OneSpawner
  <2>9. MadeOnce'
    BY <1>t, <2>5, <2>7, <2>8 DEF MadeOnce
  <2>10. FlagsFit'
    BY <2>4, <2>6, <2>7 DEF FlagsFit, FlagsSay, flags
  <2>11. WaitFits'
    BY <1>t, <2>1, <2>4, <2>5 DEF WaitFits, cond
  <2>12. FlagTypes' /\ PlaceTypes' /\ RaisedLate'
    BY <1>t, <2>2, <2>4, <2>5, <2>6 DEF FlagTypes, PlaceTypes, RaisedLate, cond, flags
  <2> QED
    BY <2>9, <2>10, <2>11, <2>12 DEF LifeInv
<1>3. CASE spawnMark(c)
  <2>1. cpc[c] = "created" /\ spawned' = TRUE
        /\ UNCHANGED <<cond, shutdowns, isrunning, finished, listed, mail, native>>
    BY <1>3, <1>t DEF spawnMark, MadeOnce
  <2>2. CallerGoes(c, "created", "idle")
    BY <1>3, <2>1 DEF spawnMark, Goto, CallerGoes, CallPlaces
  <2>3. cpc' \in [Callers -> CallPlaces] /\ cpc'[c] = "idle"
        /\ \A d \in Callers : d # c => cpc'[d] = cpc[d]
    BY <2>2, OneCallerGoes
  <2>4. Started' = Started
    BY <2>1 DEF Started
  <2>5. MadeOnce'
    BY <1>t, <2>1, <2>3, <2>4 DEF MadeOnce
  <2>6. FlagsFit' /\ RaisedLate'
    BY <1>t, <2>1, <2>4 DEF FlagsFit, FlagsSay, RaisedLate, cond
  <2>7. WaitFits'
    BY <1>t, <2>1, <2>3 DEF WaitFits, cond
  <2>8. FlagTypes' /\ PlaceTypes'
    BY <1>t, <2>1, <2>3 DEF FlagTypes, PlaceTypes
  <2> QED
    BY <2>5, <2>6, <2>7, <2>8 DEF LifeInv
<1> QED
  BY <1>1, <1>2, <1>3

LEMMA KillStep ==
    ASSUME LifeInv, NEW c \in Callers, kill(c)
    PROVE  LifeInv'
<1>t. WaitFits /\ FlagTypes /\ PlaceTypes /\ MadeOnce /\ FlagsFit /\ RaisedLate
  BY DEF LifeInv
<1>1. /\ native' = [n \in Natives |-> IF native[n] = "free" THEN "free" ELSE "killed"]
      /\ cpc' = [d \in Callers |-> "killed"] /\ sleeping' = {} /\ woken' = {}
      /\ UNCHANGED <<queue, flags>>
  BY DEF kill
<1>2. Started' = Started
      /\ \A n \in Natives : native'[n] = IF native[n] = "free" THEN "free" ELSE "killed"
  BY <1>1 DEF Started
<1>3. \A d \in Callers : cpc'[d] = "killed"
  BY <1>1
<1>4. MadeOnce'
  BY <1>t, <1>2, <1>3 DEF MadeOnce
<1>5. FlagsFit'
  BY <1>t, <1>1, <1>2 DEF FlagsFit, FlagsSay, flags
<1>6. RaisedLate'
  BY <1>t, <1>1, <1>2 DEF RaisedLate, flags
<1>7. WaitFits' /\ FlagTypes' /\ PlaceTypes'
  BY <1>t, <1>1 DEF WaitFits, FlagTypes, PlaceTypes, Places, CallPlaces, flags
<1> QED
  BY <1>4, <1>5, <1>6, <1>7 DEF LifeInv

LEMMA LifeStep ==
    ASSUME OneSpawner, LifeInv, [Next]_vars
    PROVE  LifeInv'
<1>1. ASSUME NEW n \in Natives, Dorun(n) \/ runReturns(n) PROVE LifeInv'
  BY <1>1, DorunStep
<1>2. ASSUME NEW c \in Callers,
             Call(c) \/ spawnTest(c) \/ shutdown(c) \/ shutdownall(c) \/ kill(c)
      PROVE  LifeInv'
  BY <1>2, SpawnStep, ShutdownStep, KillStep DEF Call
<1>3. CASE UNCHANGED vars
  BY <1>3 DEF vars, flags, cond, LifeInv, WaitFits, FlagTypes, PlaceTypes, MadeOnce, Started, FlagsFit, FlagsSay,
              RaisedLate
<1> QED
  BY <1>1, <1>2, <1>3 DEF Next

LEMMA LifeInit ==
    ASSUME Init
    PROVE  LifeInv
<1>1. Started = {}
  BY DEF Init, Started
<1>2. MadeOnce /\ FlagsFit /\ RaisedLate
  BY <1>1 DEF Init, CondInit, MadeOnce, FlagsFit, FlagsSay, RaisedLate
<1>3. WaitFits
  BY DEF Init, CondInit, WaitFits
<1>4. FlagTypes
  <2>1. spawned = FALSE /\ isrunning = FALSE /\ finished = FALSE /\ listed = FALSE
    BY DEF Init
  <2>2. mail \in 0 .. MaxMail /\ shutdowns \in 0 .. MaxShutdowns
    BY BoundsAssumption DEF Init
  <2> QED
    BY <2>1, <2>2 DEF FlagTypes
<1>5. PlaceTypes
  BY DEF Init, PlaceTypes, Places, CallPlaces
<1> QED
  BY <1>2, <1>3, <1>4, <1>5 DEF LifeInv

\* A call that comes back from hasfinished.wait () or from the poll of the
\* list does so by a step of its own.
LEMMA ComesBack ==
    ASSUME LifeInv, Next, NEW c \in Callers, cpc[c] \in {"wait", "poll"}, cpc'[c] = "idle"
    PROVE  \/ cpc[c] = "wait" /\ (finishedTake(c) \/ finishedWake(c))
           \/ cpc[c] = "poll" /\ pollEmpty(c)
<1>t. cpc \in [Callers -> CallPlaces] /\ WaitFits
  BY DEF LifeInv, PlaceTypes
<1>1. ASSUME NEW n \in Natives, Dorun(n) \/ runReturns(n) PROVE FALSE
  BY <1>1 DEF Dorun, runReturns, enter, list, runGetsShutdown, stop, finish, raiseFinished, unlist
<1>2. ASSUME NEW d \in Callers, d # c, Call(d) \/ spawnTest(d) \/ shutdown(d) \/ shutdownall(d)
      PROVE  FALSE
  <2>1. cpc' = cpc \/ \E to : cpc' = [cpc EXCEPT ![d] = to]
    BY <1>2 DEF Call, spawnTest, spawnCreate, spawnMark, shutdown, shutdownall, pollEmpty, Goto,
                finishedTake, finishedSleep, finishedWake
  <2> QED
    BY <1>t, <1>2, <2>1
<1>3. ASSUME NEW d \in Callers, kill(d) PROVE FALSE
  BY <1>3 DEF kill
<1>4. ASSUME Call(c) \/ spawnTest(c) \/ shutdown(c) \/ shutdownall(c)
      PROVE  finishedTake(c) \/ finishedWake(c) \/ pollEmpty(c)
  BY <1>4 DEF Call, spawnTest, spawnCreate, spawnMark, shutdown, shutdownall, finishedSleep
<1>5. finishedTake(c) \/ finishedWake(c) \/ pollEmpty(c)
  BY <1>1, <1>2, <1>3, <1>4 DEF Next
<1> QED
  BY <1>t, <1>5 DEF WaitFits, finishedTake, finishedWake, pollEmpty, WaitsFinished, CondWake

\* The object one thread spawns gets one pthread, shutdown returns when its run
\* is over, and shutdownall when no thread is inside of one.
THEOREM LivesOnce ==
    ASSUME OneSpawner
    PROVE  Spec => ThreadsLiveOnce
<1>1. Init => LifeInv
  BY LifeInit
<1>2. LifeInv /\ [Next]_vars => LifeInv'
  BY LifeStep
<1>3. LifeInv => SpawnedOnce
  <2> SUFFICES ASSUME LifeInv PROVE SpawnedOnce
    OBVIOUS
  <2>1. CASE Started = {}
    BY <2>1, FS_EmptySet DEF SpawnedOnce
  <2>2. ASSUME NEW n \in Started PROVE Started = {n}
    BY <2>2 DEF LifeInv, MadeOnce
  <2>3. ASSUME NEW n \in Started PROVE SpawnedOnce
    <3>1. Started = {n} /\ Cardinality({n}) = 1
      BY <2>2, <2>3, FS_Singleton
    <3> QED
      BY <3>1 DEF SpawnedOnce
  <2> QED
    BY <2>1, <2>3
<1>4. LifeInv /\ [Next]_vars =>
        [\A c \in Callers : cpc[c] = "wait" /\ cpc'[c] = "idle" => finished /\ ~ isrunning]_vars
  <2> SUFFICES ASSUME LifeInv, Next, NEW c \in Callers, cpc[c] = "wait", cpc'[c] = "idle"
               PROVE  finished /\ ~ isrunning
    OBVIOUS
  <2>1. RaisedLate
    BY DEF LifeInv
  <2>2. finishedTake(c) \/ finishedWake(c)
    BY ComesBack
  <2> QED
    BY <2>1, <2>2 DEF RaisedLate, finishedTake, finishedWake, CondTake, CondWake
<1>5. LifeInv /\ [Next]_vars =>
        [\A c \in Callers : cpc[c] = "poll" /\ cpc'[c] = "idle" => InRun = {}]_vars
  <2> SUFFICES ASSUME LifeInv, Next, NEW c \in Callers, cpc[c] = "poll", cpc'[c] = "idle"
               PROVE  InRun = {}
    OBVIOUS
  <2>1. FlagsFit
    BY DEF LifeInv
  <2>2. pollEmpty(c)
    BY ComesBack
  <2> QED
    BY <2>1, <2>2 DEF FlagsFit, FlagsSay, InRun, pollEmpty
<1> QED
  BY <1>1, <1>2, <1>3, <1>4, <1>5, PTL DEF Spec, ThreadsLiveOnce, ShutdownMeansFinished, ShutdownallMeansStopped


(***************************************************************************)
(* The classes side by side                                                *)
(***************************************************************************)
LEMMA LifeInvTypes == LifeInv => TypeOK
<1> SUFFICES ASSUME LifeInv PROVE TypeOK
  OBVIOUS
<1>1. WaitFits /\ FlagTypes /\ PlaceTypes
  BY DEF LifeInv
<1>2. sleeping \intersect woken = {} /\ \A c \in sleeping \union woken : c \in Callers /\ cpc[c] = "wait"
  BY <1>1 DEF WaitFits
<1>3. {spawned, isrunning, finished, listed} \subseteq BOOLEAN
  BY <1>1 DEF FlagTypes
<1> QED
  BY <1>1, <1>2, <1>3 DEF TypeOK, WaitFits, FlagTypes, PlaceTypes, Places, CallPlaces

\* The variables of the classes keep their types, used as the library does.
THEOREM ProgressTypes ==
    ASSUME OneSpawner
    PROVE  ProgressSpec => []ProgressTypeOK
<1> DEFINE Inv == /\ part = "thread" => LifeInv
                  /\ part # "thread" => QueueTypeOK
                  /\ TypedLock
<1>1. ProgressInit => Inv
  BY LockInitTyped, QueueTypeInit, LifeInit DEF ProgressInit
<1>2. Inv /\ [ProgressNext]_<<part, queueVars, lockVars, lifeVars>> => Inv'
  <2> SUFFICES ASSUME Inv, [ProgressNext]_<<part, queueVars, lockVars, lifeVars>> PROVE Inv'
    OBVIOUS
  <2>1. part' = part
    BY DEF ProgressNext
  <2>2. [LockNext]_lockVars
    BY DEF ProgressNext
  <2>3. part # "thread" => [QueueNext]_queueVars
    BY DEF ProgressNext, boxVars, queueVars
  <2>4. part = "thread" => [Next]_vars
    BY DEF ProgressNext, vars, lifeVars, flags, queueVars
  <2> QED
    BY <2>1, <2>2, <2>3, <2>4, LockTypeStep, QueueTypeStep, LifeStep
<1>3. Inv => ProgressTypeOK
  BY LifeInvTypes DEF ProgressTypeOK, TypedLock
<1> QED
  BY <1>1, <1>2, <1>3, PTL DEF ProgressSpec
=============================================================================
