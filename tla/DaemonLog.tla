----------------------------- MODULE DaemonLog -----------------------------
(***************************************************************************)
(* Logging in a daemon (daemon.cpp): daemon::log, which keeps messages     *)
(* until the process is detached and then hands them to the log thread,    *)
(* the log thread, which writes and rotates the files, and stoplog.        *)
(*                                                                         *)
(* The queue of the log thread is a Mailbox, which EventQueue implements;  *)
(* its two conditionals have one waiter and keep RaiseContract. A message  *)
(* is its logger and a number; its number stands for its priority too.     *)
(***************************************************************************)
EXTENDS Naturals, Sequences, SequencesExt

CONSTANTS
    Main, Others,  \* the main thread, and those it starts
    Early,         \* threads that may log while messages are still kept
    Nobody,
    MaxLogs,       \* bound on the messages of each logger
    Targets,       \* the files of LOGTARGETS
    Takes,         \* [Targets -> SUBSET Nat]: the mask of each
    MaxSize,       \* messages a file may hold without being rotated
    Rotated        \* how many rotated files are kept: logrotate

ASSUME LoggersAssumption ==
    /\ Main \notin Others /\ Early \subseteq Others
    /\ Nobody \notin Others \union {Main}
ASSUME SizesAssumption == MaxLogs \in Nat /\ MaxSize \in Nat /\ Rotated \in Nat \ {0}

Loggers == {Main} \union Others

Die == <<Nobody, 0>>   \* the event "die"

VARIABLES
    daemonized,
    alone,         \* the main thread has started no other yet
    backlog, dq,   \* static variables of log: the kept messages, and whether
    logmutex,      \* the logger that has it
    logthread,     \* LOGTHREAD: "none", "starting", "up", "dead"
    logq,          \* its events, messages and "die"
    handled,       \* the messages it has dealt with
    files,         \* of each target: the current file, .0, .1, ...
    lpc, lidx,     \* where a logger is in log or stoplog, and in the backlog
    count,         \* the messages of each logger so far
    due            \* what the counts were when stoplog was called

kept == <<backlog, dq>>
callers == <<lpc, lidx, count, due>>
writing == <<logthread, logq, handled, files>>
logVars == <<daemonized, alone, kept, logmutex, writing, callers>>

LogInit ==
    /\ daemonized = FALSE /\ alone = TRUE
    /\ backlog = <<>> /\ dq = FALSE
    /\ logmutex = Nobody
    /\ logthread = "none" /\ logq = <<>> /\ handled = <<>>
    /\ files = [t \in Targets |-> << <<>> >>]
    /\ lpc = [l \in Loggers |-> "idle"]
    /\ lidx = [l \in Loggers |-> 0]
    /\ count = [l \in Loggers |-> 0]
    /\ due = [l \in Loggers |-> 0]

At(l, from, to) == lpc[l] = from /\ lpc' = [lpc EXCEPT ![l] = to]

(***************************************************************************)
(* log                                                                     *)
(***************************************************************************)
\* MUTANT: the last message kept comes first.
KeepInFront(m) == <<m>> \o backlog
Keep(m) == Append(backlog, m)

\* Before the process is detached it has one thread.
logEarly ==
    /\ ~ daemonized /\ lpc[Main] = "idle" /\ count[Main] < MaxLogs
    /\ backlog' = Keep(<<Main, count[Main] + 1>>)
    /\ dq' = TRUE
    /\ count' = [count EXCEPT ![Main] = @ + 1]
    /\ UNCHANGED <<daemonized, alone, logmutex, writing, lpc, lidx, due>>

daemonize ==
    /\ ~ daemonized /\ lpc[Main] = "idle"
    /\ daemonized' = TRUE
    /\ UNCHANGED <<alone, kept, logmutex, writing, callers>>

logLock(l) ==
    /\ daemonized /\ count[l] < MaxLogs
    /\ l \in Others \ Early => ~ alone
    /\ At(l, "idle", "locked")
    /\ logmutex = Nobody /\ logmutex' = l
    /\ count' = [count EXCEPT ![l] = @ + 1]
    /\ UNCHANGED <<daemonized, alone, kept, writing, lidx, due>>

\* The log thread is started under the lock, which waits for it to be up.
logStart(l) ==
    /\ At(l, "locked", "starting")
    /\ logthread = "none" /\ logthread' = "starting"
    /\ UNCHANGED <<daemonized, alone, kept, logmutex, logq, handled, files, lidx, count, due>>

logUnlock(l) ==
    /\ \/ lpc[l] = "locked" /\ logthread # "none"
       \/ lpc[l] = "starting" /\ logthread # "starting"
    /\ lpc' = [lpc EXCEPT ![l] = "unlocked"]
    /\ logmutex' = Nobody
    /\ UNCHANGED <<daemonized, alone, kept, writing, lidx, count, due>>

\* From here on nothing is locked.
logLook(l) ==
    /\ At(l, "unlocked", IF dq THEN "flush" ELSE "send")
    /\ lidx' = [lidx EXCEPT ![l] = 1]
    /\ UNCHANGED <<daemonized, alone, kept, logmutex, writing, count, due>>

logFlush(l) ==
    /\ lpc[l] = "flush" /\ lidx[l] <= Len(backlog)
    /\ logq' = Append(logq, backlog[lidx[l]])
    /\ lidx' = [lidx EXCEPT ![l] = @ + 1]
    /\ UNCHANGED <<daemonized, alone, kept, logmutex, logthread, handled, files, lpc, count, due>>

logFlushed(l) ==
    /\ lidx[l] > Len(backlog)
    /\ At(l, "flush", "flushed")
    /\ backlog' = <<>>
    /\ UNCHANGED <<daemonized, alone, dq, logmutex, writing, lidx, count, due>>

logForget(l) ==
    /\ At(l, "flushed", "send")
    /\ dq' = FALSE
    /\ UNCHANGED <<daemonized, alone, backlog, logmutex, writing, lidx, count, due>>

logSend(l) ==
    /\ At(l, "send", "idle")
    /\ logq' = Append(logq, <<l, count[l]>>)
    /\ alone' = (alone /\ l # Main)
    /\ UNCHANGED <<daemonized, kept, logmutex, logthread, handled, files, lidx, count, due>>

Log(l) ==
    \/ logLock(l) \/ logStart(l) \/ logUnlock(l)
    \/ logLook(l) \/ logFlush(l) \/ logFlushed(l) \/ logForget(l) \/ logSend(l)

(***************************************************************************)
(* The log thread                                                          *)
(***************************************************************************)
\* startupCondition.broadcast
logthreadUp ==
    /\ logthread = "starting" /\ logthread' = "up"
    /\ UNCHANGED <<daemonized, alone, kept, logmutex, logq, handled, files, callers>>

\* MUTANT: the files are moved in the order of their numbers, each over the
\* one that was to be moved next.
RotateUpwards(f) == << <<>> >> \o [i \in 1 .. Rotated |-> f[1]]

\* The names .2 to .3, .1 to .2, .0 to .1, the file to .0: the oldest is lost.
Rotate(f) == << <<>> >> \o SubSeq(f, 1, IF Len(f) < Rotated THEN Len(f) ELSE Rotated)

WriteTo(f, m) ==
    LET written == [f EXCEPT ![1] = Append(@, m)]
    IN  IF Len(written[1]) > MaxSize THEN Rotate(written) ELSE written

logthreadWrites ==
    /\ logthread = "up" /\ logq # <<>> /\ Head(logq) # Die
    /\ LET m == Head(logq) IN
       /\ files' = [t \in Targets |->
                      IF m[2] \in Takes[t] THEN WriteTo(files[t], m) ELSE files[t]]
       /\ handled' = Append(handled, m)
    /\ logq' = Tail(logq)
    /\ UNCHANGED <<daemonized, alone, kept, logmutex, logthread, callers>>

\* It closes its files and raises shutdownCondition.
logthreadDies ==
    /\ logthread = "up" /\ logq # <<>> /\ Head(logq) = Die
    /\ logthread' = "dead"
    /\ logq' = Tail(logq)
    /\ UNCHANGED <<daemonized, alone, kept, logmutex, handled, files, callers>>

(***************************************************************************)
(* stoplog, called once: nothing sets LOGTHREAD back and the condition is  *)
(* raised once, so a second call would not return.                         *)
(***************************************************************************)
\* MUTANT: the event is sent ahead of all others.
DieFirst == <<Die>> \o logq
DieLast == Append(logq, Die)

stoplog ==
    /\ logthread # "none" /\ At(Main, "idle", "stopping")
    /\ logq' = DieLast
    /\ due' = [l \in Loggers |-> IF lpc[l] = "idle" THEN count[l] ELSE count[l] - 1]
    /\ UNCHANGED <<daemonized, alone, kept, logmutex, logthread, handled, files, lidx, count>>

\* There is no log thread: stoplog does nothing, and what was kept stays so.
stoplogNone ==
    /\ logthread = "none" /\ At(Main, "idle", "stopped")
    /\ UNCHANGED <<daemonized, alone, kept, logmutex, writing, lidx, count, due>>

stopped ==
    /\ logthread = "dead" /\ At(Main, "stopping", "stopped")
    /\ UNCHANGED <<daemonized, alone, kept, logmutex, writing, lidx, count, due>>

LogNext ==
    \/ logEarly \/ daemonize \/ stoplog \/ stoplogNone \/ stopped
    \/ logthreadUp \/ logthreadWrites \/ logthreadDies
    \/ \E l \in Loggers : Log(l)

LogSpec == LogInit /\ [][LogNext]_logVars

-----------------------------------------------------------------------------
Messages == Loggers \X (1 .. MaxLogs)

LogTypeOK ==
    /\ {daemonized, alone, dq} \subseteq BOOLEAN
    /\ backlog \in Seq(Messages) /\ handled \in Seq(Messages)
    /\ logq \in Seq(Messages \union {Die})
    /\ logmutex \in Loggers \union {Nobody}
    /\ logthread \in {"none", "starting", "up", "dead"}
    /\ files \in [Targets -> Seq(Seq(Messages))]
    /\ lpc \in [Loggers -> {"idle", "locked", "starting", "unlocked", "flush", "flushed",
                            "send", "stopping", "stopped"}]
    /\ lidx \in [Loggers -> Nat] /\ count \in [Loggers -> 0 .. MaxLogs]
    /\ due \in [Loggers -> 0 .. MaxLogs]

\* What a thread logs is logged once, in its order and without a gap, those of
\* its messages included that were kept while the process was not detached.
\* True when one thread alone logs until the kept messages are out.
LoggedInOrder ==
    LET logged == handled \o logq IN
    \A i \in DOMAIN logged :
        /\ \A j \in 1 .. i - 1 : logged[j] # logged[i]
        /\ logged[i][2] > 1 => \E j \in 1 .. i - 1 : logged[j] = <<logged[i][1], logged[i][2] - 1>>

\* When stoplog returns from a log thread, whatever was logged before it was
\* called has been dealt with, whoever logged it: "die" overtakes nothing.
StoplogComplete ==
    lpc[Main] = "stopped" => \A l \in Loggers : \A i \in 1 .. due[l] : Contains(handled, <<l, i>>)

\* The files of a target, from the oldest to the one in use, hold the latest
\* of the messages it takes, in order and without a gap; only when all of the
\* rotated files are there has an older one been dropped.
Taken(t, s) ==
    LET F[i \in 0 .. Len(s)] == IF i = 0 THEN <<>>
                                ELSE IF s[i][2] \in Takes[t] THEN Append(F[i - 1], s[i]) ELSE F[i - 1]
    IN  F[Len(s)]
Oldest(f) ==
    LET F[i \in 0 .. Len(f)] == IF i = 0 THEN <<>> ELSE f[i] \o F[i - 1] IN F[Len(f)]
FilesHoldTheLatest ==
    \A t \in Targets :
        LET taken == Taken(t, handled)
            held == Oldest(files[t])
        IN  /\ IsSuffix(held, taken)
            /\ held = taken \/ Len(files[t]) = Rotated + 1

\* Of the threads that log, each message is in the file once, in the order it was
\* logged in by its thread; once stoplog has returned, nothing that was logged
\* before is missing; and the files kept are the latest ones.
LogKept == LoggedInOrder /\ StoplogComplete /\ FilesHoldTheLatest
=============================================================================
