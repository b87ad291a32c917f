------------------------------- MODULE Smtpd -------------------------------
(***************************************************************************)
(* The main thread of an smtpd (smtpd.cpp) and its shutdown, on the pool   *)
(* of WorkerPool. It differs from the httpd: it heeds minoverhead, it is   *)
(* told to stop by a flag that it looks at after its idle interval, and    *)
(* shutdown waits for the group to be empty instead of a conditional.      *)
(***************************************************************************)
EXTENDS WorkerPool

CONSTANTS
    MinOverhead,   \* minoverhead
    GrowRounds, SkimRounds  \* rounds without a skim after a change: minrounds, and 5

ASSUME OverheadAssumption == MinOverhead \in Nat
ASSUME SmtpdRounds == {GrowRounds, SkimRounds} \subseteq Nat \ {0}

VARIABLES
    smtpdAt,              \* where the main thread is
    smtpdLoad, smtpdDelay, smtpdSkim,   \* its tload, tdelay, skimcount
    _shutdown,
    caller                \* the thread that calls shutdown

smtpdMain == <<smtpdLoad, smtpdDelay, smtpdSkim>>
smtpdVars == <<pool, smtpdAt, smtpdMain, _shutdown, caller>>

SmtpdInit ==
    /\ PoolInit
    /\ smtpdAt = "start"
    /\ smtpdLoad = 0 /\ smtpdDelay = 0 /\ smtpdSkim = 0
    /\ _shutdown = FALSE
    /\ caller = "out"

(***************************************************************************)
(* run                                                                     *)
(***************************************************************************)
startSmtpWorker ==
    /\ smtpdAt = "start" /\ Len(members) < MinThr
    /\ NewWorker
    /\ UNCHANGED <<die, tcplock, load, nload, conns, smtpdAt, smtpdMain, _shutdown, caller>>

smtpdStarted ==
    /\ smtpdAt = "start" /\ Len(members) = MinThr
    /\ smtpdAt' = "loop"
    /\ UNCHANGED <<pool, smtpdMain, _shutdown, caller>>

\* The flag is looked at before the main thread sleeps and reads the load.
smtpdIdle ==
    /\ smtpdAt = "loop" /\ ~ _shutdown
    /\ smtpdAt' = "decide"
    /\ smtpdLoad' = load
    /\ UNCHANGED <<pool, smtpdDelay, smtpdSkim, _shutdown, caller>>

Full == smtpdLoad + 1 >= Len(members)
Wait(rounds) == IF rounds = 0 THEN 0 ELSE rounds - 1

Decide(delay) ==
    /\ smtpdAt = "decide" /\ smtpdAt' = "loop"
    /\ smtpdDelay' = Wait(delay)
    /\ UNCHANGED <<tcplock, load, nload, conns, smtpdLoad, _shutdown, caller>>

growSmtp ==
    /\ Decide(GrowRounds)
    /\ Full /\ Len(members) < MaxThr
    /\ NewWorker
    /\ UNCHANGED <<die, smtpdSkim>>

\* MUTANT: minthr is not looked at.
TooManyIdle == /\ ~ Full /\ smtpdDelay = 0
               /\ Len(members) - smtpdLoad > MinOverhead
               /\ Len(members) # smtpdSkim

TooMany == /\ ~ Full /\ smtpdDelay = 0 /\ Len(members) > MinThr
           /\ Len(members) - smtpdLoad > MinOverhead
           /\ Len(members) # smtpdSkim

skimSmtp ==
    /\ Decide(SkimRounds)
    /\ TooMany
    /\ smtpdSkim' = Len(members)
    /\ die' = die \union {members[1]}
    /\ UNCHANGED <<members, wpc>>

leaveSmtp ==
    /\ Decide(smtpdDelay)
    /\ IF Full THEN Len(members) >= MaxThr ELSE ~ TooMany
    /\ UNCHANGED <<members, wpc, die, smtpdSkim>>

smtpdTellAll ==
    /\ smtpdAt = "loop" /\ _shutdown
    /\ die' = die \union Range(members)
    /\ smtpdAt' = "collect"
    /\ UNCHANGED <<members, wpc, tcplock, load, nload, conns, smtpdMain, _shutdown, caller>>

\* MUTANT: gc does not look at the flag finished.
FinishedOrNot(w) == TRUE

Finished(w) == w \in Gone

smtpdCollect ==
    /\ smtpdAt = "collect"
    /\ \E i \in DOMAIN members :
         /\ Finished(members[i])
         /\ members' = SubSeq(members, 1, i - 1) \o SubSeq(members, i + 1, Len(members))
         /\ die' = die \ {members[i]}
    /\ UNCHANGED <<wpc, tcplock, load, nload, conns, smtpdAt, smtpdMain, _shutdown, caller>>

smtpdOver ==
    /\ smtpdAt = "collect" /\ members = <<>>
    /\ smtpdAt' = "over"
    /\ UNCHANGED <<pool, smtpdMain, _shutdown, caller>>

(***************************************************************************)
(* shutdown, called once. Without a worker in the group it returns at      *)
(* once, and the flag is not set.                                          *)
(***************************************************************************)
smtpdShutdown ==
    /\ caller = "out" /\ members # <<>>
    /\ _shutdown' = TRUE
    /\ caller' = "waiting"
    /\ UNCHANGED <<pool, smtpdAt, smtpdMain>>

smtpdShutdownNone ==
    /\ caller = "out" /\ members = <<>>
    /\ caller' = "returned"
    /\ UNCHANGED <<pool, smtpdAt, smtpdMain, _shutdown>>

smtpdShutdownDone ==
    /\ caller = "waiting" /\ members = <<>>
    /\ caller' = "returned"
    /\ UNCHANGED <<pool, smtpdAt, smtpdMain, _shutdown>>

SmtpdMain == \/ startSmtpWorker \/ smtpdStarted \/ growSmtp \/ skimSmtp \/ leaveSmtp
             \/ smtpdTellAll \/ smtpdCollect \/ smtpdOver

SmtpWorker(step) == step /\ UNCHANGED <<smtpdAt, smtpdMain, _shutdown, caller>>

SmtpdNext == \/ SmtpdMain \/ smtpdIdle
             \/ \E w \in Workers : SmtpWorker(Work(w) \/ accept(w))
             \/ smtpdShutdown \/ smtpdShutdownNone \/ smtpdShutdownDone

\* As of the httpd, and the main thread wakes from its sleep.
SmtpdFairness ==
    /\ WF_smtpdVars(SmtpdMain) /\ WF_smtpdVars(smtpdIdle) /\ WF_smtpdVars(smtpdShutdownDone)
    /\ \A w \in Workers : WF_smtpdVars(SmtpWorker(Work(w)))

SmtpdSpec == SmtpdInit /\ [][SmtpdNext]_smtpdVars /\ SmtpdFairness

-----------------------------------------------------------------------------
SmtpdTypeOK ==
    /\ PoolTypeOK
    /\ smtpdAt \in {"start", "loop", "decide", "collect", "over"}
    /\ smtpdLoad \in Int /\ smtpdDelay \in 0 .. GrowRounds + SkimRounds
    /\ smtpdSkim \in 0 .. MaxThr /\ _shutdown \in BOOLEAN
    /\ caller \in {"out", "waiting", "returned"}
    /\ Len(members) <= MaxThr

\* Until it is told to stop the smtpd keeps at least minthr workers, although
\* those the skim has sent away are counted as long as it runs.
SmtpdKeepsMinimum ==
    smtpdAt \in {"loop", "decide"} => Cardinality(Alive) >= MinThr

\* "Terminate all threads": when a shutdown that found a worker returns, none
\* is left. One that comes before the first worker returns and changes nothing.
SmtpdShutdownComplete ==
    caller = "returned" /\ _shutdown => Alive = {} /\ members = <<>>

\* Once the connections stop coming, shutdown returns.
SmtpdShutdownReturns == caller = "waiting" ~> caller = "returned"
=============================================================================
