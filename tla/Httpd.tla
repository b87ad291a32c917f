------------------------------- MODULE Httpd -------------------------------
(***************************************************************************)
(* The main thread of a httpd (httpd.cpp) and its shutdown: it starts      *)
(* MinThr workers, looks at the load every idle interval, starts another   *)
(* worker when the load nears their number, asks one to die when there are *)
(* too many, and on "die" sends every worker away and collects them.       *)
(***************************************************************************)
EXTENDS WorkerPool

CONSTANT MinRounds   \* rounds without a skim after a change: minrounds, and 5

ASSUME RoundsAssumption == MinRounds \in Nat \ {0}

VARIABLES
    mpc,         \* where the main thread is
    tload,       \* the load it has read
    tdelay, skimcount,
    asked,       \* it has a "die" event
    raised,      \* shutdowndone was broadcast
    spc          \* the thread that calls shutdown

main == <<tload, tdelay, skimcount>>
vars == <<pool, mpc, main, asked, raised, spc>>

Init ==
    /\ PoolInit
    /\ mpc = "start"
    /\ tload = 0 /\ tdelay = 0 /\ skimcount = 0
    /\ asked = FALSE /\ raised = FALSE
    /\ spc = "out"

(***************************************************************************)
(* run                                                                     *)
(***************************************************************************)
startWorker ==
    /\ mpc = "start" /\ Len(members) < MinThr
    /\ NewWorker
    /\ UNCHANGED <<die, tcplock, load, nload, conns, mpc, main, asked, raised, spc>>

started ==
    /\ mpc = "start" /\ Len(members) = MinThr
    /\ mpc' = "loop"
    /\ UNCHANGED <<pool, main, asked, raised, spc>>

\* waitevent times out. (One that misses a "die" by a hair finds it in the
\* next round, before it sleeps.)
idle ==
    /\ mpc = "loop" /\ ~ asked
    /\ mpc' = "decide"
    /\ tload' = load
    /\ UNCHANGED <<pool, tdelay, skimcount, asked, raised, spc>>

Count == Len(members)
Crowded == tload + 1 >= Count
Less(delay) == IF delay = 0 THEN 0 ELSE delay - 1

grow ==
    /\ mpc = "decide" /\ Crowded /\ Count < MaxThr
    /\ NewWorker
    /\ tdelay' = Less(MinRounds)
    /\ mpc' = "loop"
    /\ UNCHANGED <<die, tcplock, load, nload, conns, tload, skimcount, asked, raised, spc>>

\* MUTANT: minthr is not looked at.
ToSkimAnyway == ~ Crowded /\ tdelay = 0 /\ Count # skimcount

\* The test of minoverhead ends in a semicolon and decides nothing.
ToSkim == ~ Crowded /\ tdelay = 0 /\ Count > MinThr /\ Count # skimcount

skim ==
    /\ mpc = "decide" /\ ToSkim
    /\ skimcount' = Count
    /\ die' = die \union {members[1]}
    /\ tdelay' = Less(MinRounds)
    /\ mpc' = "loop"
    /\ UNCHANGED <<members, wpc, tcplock, load, nload, conns, tload, asked, raised, spc>>

leaveBe ==
    /\ mpc = "decide"
    /\ IF Crowded THEN Count >= MaxThr ELSE ~ ToSkim
    /\ tdelay' = Less(tdelay)
    /\ mpc' = "loop"
    /\ UNCHANGED <<pool, tload, skimcount, asked, raised, spc>>

\* MUTANT: the loop over the workers stops one short.
TellAllButOne == die \union {members[i] : i \in 2 .. Count}

TellAll == die \union Range(members)

tellAll ==
    /\ mpc = "loop" /\ asked
    /\ asked' = FALSE
    /\ die' = TellAll
    /\ mpc' = "collect"
    /\ UNCHANGED <<members, wpc, tcplock, load, nload, conns, main, raised, spc>>

\* MUTANT: gc does not look at the flag finished.
CollectableAlways(w) == TRUE

Collectable(w) == w \in Gone

\* "while (workers.count()) workers.gc ()", one deletion at a time.
collect ==
    /\ mpc = "collect"
    /\ \E i \in DOMAIN members :
         /\ Collectable(members[i])
         /\ members' = SubSeq(members, 1, i - 1) \o SubSeq(members, i + 1, Count)
         /\ die' = die \ {members[i]}
    /\ UNCHANGED <<wpc, tcplock, load, nload, conns, mpc, main, asked, raised, spc>>

finish ==
    /\ mpc = "collect" /\ members = <<>>
    /\ raised' = TRUE
    /\ mpc' = "over"
    /\ UNCHANGED <<pool, main, asked, spc>>

(***************************************************************************)
(* shutdown, called once, from another thread                              *)
(***************************************************************************)
shutdown ==
    /\ spc = "out"
    /\ spc' = "waiting"
    /\ asked' = TRUE
    /\ UNCHANGED <<pool, mpc, main, raised>>

shutdownDone ==
    /\ spc = "waiting" /\ raised
    /\ raised' = FALSE
    /\ spc' = "done"
    /\ UNCHANGED <<pool, mpc, main, asked>>

Main == \/ startWorker \/ started \/ grow \/ skim \/ leaveBe
        \/ tellAll \/ collect \/ finish

Worker(step) == step /\ UNCHANGED <<mpc, main, asked, raised, spc>>

Next == \/ Main \/ idle
        \/ \E w \in Workers : Worker(Work(w) \/ accept(w))
        \/ shutdown \/ shutdownDone

Spec == Init /\ [][Next]_vars

\* The threads are scheduled, the timed calls time out and sessions end.
\* Nothing obliges anybody to connect, or to call shutdown.
Fairness ==
    /\ WF_vars(Main) /\ WF_vars(shutdownDone)
    /\ \A w \in Workers : WF_vars(Worker(Work(w)))

FairSpec == Spec /\ Fairness

-----------------------------------------------------------------------------
TypeOK ==
    /\ PoolTypeOK
    /\ mpc \in {"start", "loop", "decide", "collect", "over"}
    /\ tload \in Int /\ tdelay \in 0 .. MinRounds /\ skimcount \in 0 .. MaxThr
    /\ {asked, raised} \subseteq BOOLEAN
    /\ spc \in {"out", "waiting", "done"}
    /\ Count <= MaxThr

\* Until shutdown the pool keeps at least minthr workers, although those the
\* skim has sent away stay in the array and are counted, and whatever the
\* load, which the workers' races make wrong.
KeepsMinimum == mpc \in {"loop", "decide"} => Cardinality(Alive) >= MinThr

\* "Shut down all threads": when shutdown returns, no worker is left.
ShutdownComplete == spc = "done" => Alive = {} /\ members = <<>>

\* Once the connections stop coming, shutdown returns.
ShutdownReturns == spc = "waiting" ~> spc = "done"
=============================================================================
