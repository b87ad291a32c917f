----------------------------- MODULE ThreadLife -----------------------------
(***************************************************************************)
(* One object of the class thread (thread.h, thread.cpp) and the threads   *)
(* that call it: spawn, shutdown, the static shutdownall, and dorun, which *)
(* every pthread it creates goes through. The conditional hasfinished is   *)
(* the one of the module Conditional. run() is the derived class's: it     *)
(* returns when it takes a "shutdown" event, or of its own accord.         *)
(***************************************************************************)
EXTENDS Conditional, FiniteSets

CONSTANTS
    Callers,     \* threads that use the object
    Spawners,    \* those that call spawn
    Natives,     \* the pthreads pthread_create may make; bounds how many
    MaxShutdowns, \* bound on calls of shutdown
    MaxMail      \* bound on pending "shutdown" events

ASSUME CallersAssumption == IsFiniteSet(Callers) /\ Spawners \subseteq Callers
ASSUME NativesAssumption == IsFiniteSet(Natives)
ASSUME BoundsAssumption == MaxShutdowns \in Nat /\ MaxMail \in Nat

VARIABLES
    spawned, isrunning, finished,   \* the flags of the object
    listed,      \* THREADLIST has the object
    mail,        \* pending "shutdown" events
    shutdowns,   \* calls of shutdown so far
    native,      \* where each pthread is in dorun
    cpc          \* where each caller is

vars == <<cond, spawned, isrunning, finished, listed, mail, shutdowns, native,
          cpc>>
flags == <<spawned, isrunning, finished, listed, mail, shutdowns>>

Init ==
    /\ CondInit
    /\ spawned = FALSE /\ isrunning = FALSE /\ finished = FALSE
    /\ listed = FALSE
    /\ mail = 0 /\ shutdowns = 0
    /\ native = [n \in Natives |-> "free"]
    /\ cpc = [c \in Callers |-> "idle"]

Goto(c, place) == cpc' = [cpc EXCEPT ![c] = place]
Reach(n, from, to) == native[n] = from /\ native' = [native EXCEPT ![n] = to]

(***************************************************************************)
(* spawn: the test of spawned, pthread_create inside sharedsection         *)
(* (isrunning), and the assignment of spawned are three steps.             *)
(***************************************************************************)
\* MUTANT: the early return of an object spawned before is left out.
spawnTestDropped(c) ==
    /\ c \in Spawners /\ cpc[c] = "idle"
    /\ Goto(c, "create")
    /\ UNCHANGED <<cond, flags, native>>

spawnTest(c) ==
    /\ c \in Spawners /\ cpc[c] = "idle"
    /\ ~ spawned
    /\ Goto(c, "create")
    /\ UNCHANGED <<cond, flags, native>>

spawnCreate(c) ==
    /\ cpc[c] = "create"
    /\ \/ ~ isrunning /\ (\E n \in Natives : Reach(n, "free", "start"))
                      /\ Goto(c, "created")
       \/ isrunning /\ Goto(c, "not created") /\ UNCHANGED native
    /\ UNCHANGED <<cond, flags>>

spawnMark(c) ==
    /\ cpc[c] \in {"created", "not created"}
    /\ spawned' = (cpc[c] = "created")
    /\ Goto(c, "idle")
    /\ UNCHANGED <<cond, shutdowns, isrunning, finished, listed, mail, native>>

(***************************************************************************)
(* dorun                                                                   *)
(***************************************************************************)
enter(n) ==
    /\ Reach(n, "start", "list")
    /\ isrunning' = TRUE
    /\ UNCHANGED <<cond, shutdowns, spawned, finished, listed, mail, cpc>>

list(n) ==
    /\ Reach(n, "list", "run")
    /\ listed' = TRUE
    /\ UNCHANGED <<cond, shutdowns, spawned, isrunning, finished, mail, cpc>>

runGetsShutdown(n) ==
    /\ mail > 0
    /\ Reach(n, "run", "stop")
    /\ mail' = mail - 1
    /\ UNCHANGED <<cond, shutdowns, spawned, isrunning, finished, listed, cpc>>

runReturns(n) == Reach(n, "run", "stop") /\ UNCHANGED <<cond, flags, cpc>>

stop(n) ==
    /\ Reach(n, "stop", "finish")
    /\ isrunning' = FALSE
    /\ UNCHANGED <<cond, shutdowns, spawned, finished, listed, mail, cpc>>

\* MUTANT: the flag stays as it is.
finishForgotten(n) == Reach(n, "finish", "raise") /\ UNCHANGED <<cond, flags, cpc>>

finish(n) ==
    /\ Reach(n, "finish", "raise")
    /\ finished' = TRUE
    /\ UNCHANGED <<cond, shutdowns, spawned, isrunning, listed, mail, cpc>>

\* MUTANT: hasfinished is not raised.
raiseFinishedForgotten(n) == Reach(n, "raise", "unlist") /\ UNCHANGED <<cond, flags, cpc>>

\* MUTANT: signal in place of broadcast.
raiseFinishedToOne(n) == Reach(n, "raise", "unlist") /\ CondSignal /\ UNCHANGED <<flags, cpc>>

raiseFinished(n) ==
    /\ Reach(n, "raise", "unlist")
    /\ CondBroadcast
    /\ UNCHANGED <<flags, cpc>>

unlist(n) ==
    /\ Reach(n, "unlist", "done")
    /\ listed' = FALSE
    /\ UNCHANGED <<cond, shutdowns, spawned, isrunning, finished, mail, cpc>>

(***************************************************************************)
(* shutdown: send the event, then hasfinished.wait (). Callers know that   *)
(* the object was spawned: shutdown of one that never ran does not return. *)
(***************************************************************************)
shutdown(c) ==
    /\ cpc[c] = "idle" /\ spawned /\ mail < MaxMail /\ shutdowns < MaxShutdowns
    /\ mail' = mail + 1
    /\ shutdowns' = shutdowns + 1
    /\ Goto(c, "wait")
    /\ UNCHANGED <<cond, spawned, isrunning, finished, listed, native>>

WaitsFinished(c) == cpc[c] = "wait" /\ c \notin sleeping \union woken

finishedTake(c) ==
    WaitsFinished(c) /\ CondTake(c) /\ Goto(c, "idle") /\ UNCHANGED <<flags, native>>
finishedSleep(c) == WaitsFinished(c) /\ CondSleep(c) /\ UNCHANGED <<flags, native, cpc>>
finishedWake(c) == CondWake(c) /\ Goto(c, "idle") /\ UNCHANGED <<flags, native>>

(***************************************************************************)
(* shutdownall: send the event to every listed thread, then look once a    *)
(* second whether the list is empty. After the timeout, pthread_kill with  *)
(* SIGKILL, which ends the process and not one thread.                     *)
(***************************************************************************)
shutdownall(c) ==
    /\ cpc[c] = "idle" /\ mail < MaxMail
    /\ mail' = IF listed THEN mail + 1 ELSE mail
    /\ Goto(c, "poll")
    /\ UNCHANGED <<cond, shutdowns, spawned, isrunning, finished, listed, native>>

\* MUTANT: the list is not looked at.
pollBlindly(c) == cpc[c] = "poll" /\ Goto(c, "idle") /\ UNCHANGED <<cond, flags, native>>

pollEmpty(c) ==
    /\ cpc[c] = "poll" /\ ~ listed
    /\ Goto(c, "idle")
    /\ UNCHANGED <<cond, flags, native>>

kill(c) ==
    /\ cpc[c] = "poll" /\ listed
    /\ native' = [n \in Natives |-> IF native[n] = "free" THEN "free" ELSE "killed"]
    /\ cpc' = [d \in Callers |-> "killed"]
    /\ sleeping' = {} /\ woken' = {}
    /\ UNCHANGED <<queue, flags>>

Dorun(n) == \/ enter(n) \/ list(n) \/ runGetsShutdown(n)
            \/ stop(n) \/ finish(n) \/ raiseFinished(n) \/ unlist(n)

Call(c) == \/ spawnCreate(c) \/ spawnMark(c)
           \/ finishedTake(c) \/ finishedSleep(c) \/ finishedWake(c)
           \/ pollEmpty(c)

Next == \/ \E n \in Natives : Dorun(n) \/ runReturns(n)
        \/ \E c \in Callers : \/ Call(c) \/ spawnTest(c)
                              \/ shutdown(c) \/ shutdownall(c) \/ kill(c)

Spec == Init /\ [][Next]_vars

\* What is scheduled goes on, and run() takes the event it is sent.
LifeFairness == /\ \A n \in Natives : WF_vars(Dorun(n))
                /\ \A c \in Callers : WF_vars(Call(c))

-----------------------------------------------------------------------------
Started == {n \in Natives : native[n] # "free"}
InRun == {n \in Natives : native[n] \in {"run", "stop", "finish", "raise"}}
Alive == {n \in Natives : native[n] \notin {"free", "unlist", "done", "killed"}}

TypeOK ==
    /\ queue \in Int
    /\ sleeping \intersect woken = {}
    /\ {spawned, isrunning, finished, listed} \subseteq BOOLEAN
    /\ mail \in 0 .. MaxMail /\ shutdowns \in 0 .. MaxShutdowns
    /\ native \in [Natives -> {"free", "start", "list", "run", "stop", "finish",
                               "raise", "unlist", "done", "killed"}]
    /\ cpc \in [Callers -> {"idle", "create", "created", "not created",
                            "wait", "poll", "killed"}]
    /\ \A c \in sleeping \union woken : c \in Callers /\ cpc[c] = "wait"

\* spawn starts the thread "if it hasn't already been done": there is never
\* a second pthread inside dorun of the object. True of a single spawner,
\* however its calls fall between the steps of dorun.
SpawnedOnce == Cardinality(Started) <= 1

\* shutdown returns only when run() has returned and runs() says so.
ShutdownMeansFinished ==
    [][ \A c \in Callers : cpc[c] = "wait" /\ cpc'[c] = "idle"
                             => finished /\ ~ isrunning ]_vars

\* shutdownall returns only when no thread is inside its run method.
ShutdownallMeansStopped ==
    [][ \A c \in Callers : cpc[c] = "poll" /\ cpc'[c] = "idle" => InRun = {} ]_vars

\* ... and, as "Shutdown all threads" says, no thread is about to enter it.
ShutdownallMeansAll ==
    [][ \A c \in Callers : cpc[c] = "poll" /\ cpc'[c] = "idle" => Alive = {} ]_vars

\* hasfinished "will trigger if thread exits", once. Everybody who sleeps in
\* shutdown while the pthread is alive is woken by that one raise and returns.
AsleepReturn ==
    \A c \in Callers : c \in sleeping /\ Alive # {} ~> cpc[c] \in {"idle", "killed"}

Killed == \E c \in Callers : cpc[c] = "killed"

\* Who has not yet slept when it is raised may find the raise taken by another
\* call, or by the sleepers it woke, and wait forever. Of all calls of shutdown,
\* however many and whenever they come, at least one returns.
OneReturns ==
    shutdowns > 0 ~> shutdowns > Cardinality({c \in Callers : cpc[c] = "wait"}) \/ Killed

\* What shutdown promises its callers, unless the process is killed: the raise
\* reaches all who sleep, and is lost on nobody when nobody sleeps yet.
ShutdownReturns == AsleepReturn /\ OneReturns

\* A thread is started once; shutdown returns only when run() has returned and
\* runs() says so; shutdownall only when no thread is inside its run method:
\* SpawnedOnce, ShutdownMeansFinished and ShutdownallMeansStopped.
ThreadsLiveOnce == []SpawnedOnce /\ ShutdownMeansFinished /\ ShutdownallMeansStopped
=============================================================================
