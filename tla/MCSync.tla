------------------------------- MODULE MCSync -------------------------------
(***************************************************************************)
(* The synchronisation classes side by side for TLC, each with all of its  *)
(* methods and more threads than it was made for: a conditional with       *)
(* several waiters, an event queue with several receivers, a lock with     *)
(* upgrades and trylockw, the lock on native rwlocks, the pool of blocks,   *)
(* and the log of a daemon. A behaviour is one of part; the others stand   *)
(* still in their initial states. The conditional by itself and the one in *)
(* the queue share their variables.                                        *)
(***************************************************************************)
EXTENDS ConditionalUse, EventQueue, FallbackLock, NativeLock, RetainPool, DaemonLog, TLC

VARIABLE part

(* One target takes every message, one the second and fourth of each logger. *)
MCTakes == [t \in Targets |-> IF t = "all" THEN 1 .. MaxLogs ELSE {2, 4}]

(* A reader may come back for the same lock; no other nesting. *)
MCNesting == {<<"read", "read">>}

boxVars == <<ipc, spc, rpc, timed, sent, got>>

SyncInit ==
    /\ part \in {"conditional", "eventq", "lock", "native", "retain", "log"}
    /\ Init /\ QueueInit /\ LockInit /\ NativeInit /\ RetainInit /\ LogInit
    /\ part # "lock" => writer = NoThread /\ ~ upgraded
    /\ part # "retain" => ~ leakprotection

SyncNext ==
    /\ UNCHANGED part
    /\ \/ /\ part \in {"conditional", "eventq"}
          /\ IF part = "conditional" THEN Next /\ UNCHANGED boxVars
             ELSE QueueNext /\ UNCHANGED raises
          /\ UNCHANGED <<lockVars, nativeVars, retainVars, logVars>>
       \/ /\ part \in {"lock", "native", "retain", "log"}
          /\ CASE part = "lock" -> LockNext /\ UNCHANGED <<nativeVars, retainVars, logVars>>
               [] part = "native" -> NativeNext /\ UNCHANGED <<lockVars, retainVars, logVars>>
               [] part = "retain" -> RetainNext /\ UNCHANGED <<lockVars, nativeVars, logVars>>
               [] part = "log" -> LogNext /\ UNCHANGED <<lockVars, nativeVars, retainVars>>
          /\ UNCHANGED <<vars, boxVars>>

SyncSpec ==
    SyncInit /\ [][SyncNext]_<<part, vars, boxVars, lockVars, nativeVars, retainVars, logVars>>

Symmetry == Permutations(Waiters) \union Permutations(Receivers) \union Permutations(Events)

-----------------------------------------------------------------------------
\* The variables of the classes keep their types, whatever the methods.
SyncTypeOK ==
    /\ IF part = "conditional" THEN TypeOK ELSE QueueTypeOK
    /\ LockTypeOK /\ NativeTypeOK /\ RetainTypeOK /\ LogTypeOK
=============================================================================
