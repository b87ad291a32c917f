---------------------------- MODULE Conditional ----------------------------
(***************************************************************************)
(* The class conditional of include/grace/lock.h and libgrace/lock.cpp: a  *)
(* pthread condition variable, its mutex, and the counter "queue" that     *)
(* remembers a raise nobody was waiting for.                               *)
(*                                                                         *)
(* Every method body runs under the mutex, so a method is one action; only *)
(* pthread_cond_wait splits one in two, releasing the mutex while the      *)
(* thread is asleep and taking it again before the code after it runs.     *)
(***************************************************************************)
EXTENDS Integers

CONSTANT Spurious \* may pthread_cond_wait return without a signal?

ASSUME SpuriousAssumption == Spurious \in BOOLEAN

VARIABLES
    queue,       \* conditional::queue, a plain int: nothing keeps it positive
    sleeping,    \* threads inside pthread_cond_wait, not woken
    woken        \* threads woken inside it that have yet to retake the mutex

cond == <<queue, sleeping, woken>>

CondInit == queue = 0 /\ sleeping = {} /\ woken = {}

\* MUTANTS of signal: the wakeup forgotten, or given to a thread left asleep.
CondSignalNoWake == queue' = queue + 1 /\ UNCHANGED <<sleeping, woken>>
CondSignalStillAsleep ==
    /\ queue' = queue + 1
    /\ woken' = woken \union sleeping
    /\ UNCHANGED sleeping

\* signal: count the raise, wake one sleeper if there is one.
CondSignal ==
    /\ queue' = queue + 1
    /\ IF sleeping = {}
         THEN UNCHANGED <<sleeping, woken>>
         ELSE \E t \in sleeping : /\ sleeping' = sleeping \ {t}
                                  /\ woken' = woken \union {t}

\* MUTANT of broadcast: the raise given to threads left asleep.
CondBroadcastStillAsleep ==
    queue' = queue + 1 /\ woken' = woken \union sleeping /\ UNCHANGED sleeping

\* broadcast: count ONE raise, wake every sleeper.
CondBroadcast ==
    /\ queue' = queue + 1
    /\ woken' = woken \union sleeping
    /\ sleeping' = {}

\* wait when the counter is not zero: take one and return true at once.
CondTake(t) ==
    /\ queue # 0
    /\ queue' = queue - 1
    /\ UNCHANGED <<sleeping, woken>>

\* MUTANT of wait: the counter is not looked at.
CondSleepBlindly(t) == sleeping' = sleeping \union {t} /\ UNCHANGED <<queue, woken>>

\* wait when the counter is zero: sleep.
CondSleep(t) ==
    /\ queue = 0
    /\ sleeping' = sleeping \union {t}
    /\ UNCHANGED <<queue, woken>>

\* The rest of wait once pthread_cond_wait has the mutex again. The code
\* looks at nothing: it decrements and returns true.
CondWake(t) ==
    /\ t \in woken
    /\ queue' = queue - 1
    /\ woken' = woken \ {t}
    /\ UNCHANGED sleeping

\* wait (timeout): pthread_cond_timedwait gives up and wait returns false.
CondTimeout(t) ==
    /\ t \in sleeping
    /\ sleeping' = sleeping \ {t}
    /\ UNCHANGED <<queue, woken>>

\* POSIX lets pthread_cond_wait return 0 without any signal.
CondSpurious(t) ==
    /\ Spurious
    /\ t \in sleeping
    /\ sleeping' = sleeping \ {t}
    /\ woken' = woken \union {t}
    /\ UNCHANGED queue
=============================================================================
