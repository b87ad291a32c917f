----------------------------- MODULE MCProgress -----------------------------
(***************************************************************************)
(* The event queue, the fallback lock and the life of a thread as the      *)
(* library uses them, with their fairness, for TLC: one receiver; lockr,   *)
(* lockw and trylockr; one spawner. A behaviour is one of part; the others *)
(* stand still in an initial state, where nothing that is to happen is     *)
(* enabled. The conditional of the queue and hasfinished share variables.  *)
(***************************************************************************)
EXTENDS EventQueue, FallbackLock, ThreadLife

VARIABLE part

boxVars == <<ipc, spc, rpc, timed, sent, got>>
lifeVars == <<flags, native, cpc>>

ProgressInit ==
    /\ part \in {"eventq", "lock", "thread"}
    /\ QueueInit /\ LockInit /\ Init
    /\ part # "lock" => writer = NoThread /\ ~ upgraded

ProgressNext ==
    /\ UNCHANGED part
    /\ \/ part = "eventq" /\ QueueNext /\ UNCHANGED <<lockVars, lifeVars>>
       \/ part = "lock" /\ LockNext /\ UNCHANGED <<queueVars, lifeVars>>
       \/ part = "thread" /\ Next /\ UNCHANGED <<boxVars, lockVars>>

ProgressSpec ==
    /\ ProgressInit /\ [][ProgressNext]_<<part, queueVars, lockVars, lifeVars>>
    /\ QueueFairness /\ LockFairness /\ LifeFairness

-----------------------------------------------------------------------------
\* The variables of the classes keep their types, used as the library does.
ProgressTypeOK ==
    /\ IF part = "thread" THEN TypeOK ELSE QueueTypeOK
    /\ LockTypeOK
=============================================================================
