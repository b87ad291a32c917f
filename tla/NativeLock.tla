----------------------------- MODULE NativeLock -----------------------------
(***************************************************************************)
(* The class lockbase as it is built on pthread_rwlock (lock.h, lock.cpp,  *)
(* the branch with PTHREAD_HAVE_RWLOCK). The rwlock is external: glibc's,  *)
(* which prefers readers, reports EDEADLK to a thread that has written it  *)
(* already, and counts readers without knowing them.                       *)
(***************************************************************************)
EXTENDS Naturals, Sequences, FiniteSets

CONSTANTS
    Users,      \* the threads
    NoUser,
    Timedlock,  \* PTHREAD_HAVE_TIMEDLOCK
    Nesting,    \* <<"read", "write">>: lockw may be called inside a read lock, ...
    MaxDepth    \* bound on the locks a thread has at a time

ASSUME UsersAssumption == IsFiniteSet(Users) /\ NoUser \notin Users
ASSUME DepthAssumption == MaxDepth \in Nat /\ Timedlock \in BOOLEAN

VARIABLES
    rwWriter, rwReaders,  \* the rwlock
    called,               \* what a thread is inside of: "out", "lockr", ...
    believes              \* the locks a thread thinks it has, the last one first

nativeVars == <<rwWriter, rwReaders, called, believes>>

NativeInit ==
    /\ rwWriter = NoUser /\ rwReaders = 0
    /\ called = [t \in Users |-> "out"]
    /\ believes = [t \in Users |-> <<>>]

(***************************************************************************)
(* pthread_rwlock                                                          *)
(***************************************************************************)
Written == rwWriter # NoUser
Deadlk(t) == rwWriter = t

RdLock(t) == ~ Written /\ rwReaders' = rwReaders + 1 /\ UNCHANGED rwWriter
WrLock(t) == ~ Written /\ rwReaders = 0 /\ rwWriter' = t /\ UNCHANGED rwReaders

\* What unlock gives up is decided by who wrote the lock last.
RwUnlock(t) ==
    IF Deadlk(t) THEN rwWriter' = NoUser /\ UNCHANGED rwReaders
    ELSE rwReaders > 0 /\ rwReaders' = rwReaders - 1 /\ UNCHANGED rwWriter

(***************************************************************************)
(* The methods                                                             *)
(***************************************************************************)
MayCall(t, kind) ==
    /\ called[t] = "out"
    /\ Len(believes[t]) < MaxDepth
    /\ believes[t] # <<>> => <<Head(believes[t]), kind>> \in Nesting

Enter(t, method) == called' = [called EXCEPT ![t] = method]
LetOn(t, kind) ==
    /\ called' = [called EXCEPT ![t] = "out"]
    /\ believes' = [believes EXCEPT ![t] = <<kind>> \o @]
Fail(t) == Enter(t, "out") /\ UNCHANGED <<rwWriter, rwReaders, believes>>

\* EDEADLK is no error to lockr and lockw.
Granted(t, Lock(_), kind) ==
    /\ \/ Lock(t)
       \/ Deadlk(t) /\ UNCHANGED <<rwWriter, rwReaders>>
    /\ LetOn(t, kind)

lockNative(t, method, kind) ==
    /\ MayCall(t, kind)
    /\ Enter(t, method)
    /\ UNCHANGED <<rwWriter, rwReaders, believes>>

lockrNative(t) == called[t] = "lockr" /\ Granted(t, RdLock, "read")
lockwNative(t) == called[t] = "lockw" /\ Granted(t, WrLock, "write")

\* trylockr, with and without a timeout: EDEADLK is a failure like another.
trylockrNative(t) ==
    /\ MayCall(t, "read")
    /\ RdLock(t) /\ LetOn(t, "read")

\* MUTANT: the lock that is tried is the read lock.
TryWriteAsReader(t) == RdLock(t)
TryWrite(t) == WrLock(t)

\* trylockw without a timeout, or the first attempt of the loop.
trylockwNow(t) ==
    /\ MayCall(t, "write")
    /\ TryWrite(t) /\ LetOn(t, "write")

\* The wait for the lock, or the loop after the first attempt has failed.
trylockwWait(t) ==
    /\ Timedlock \/ Written \/ rwReaders > 0
    /\ lockNative(t, "trylockw", "write")

\* With timedlock: what is no timeout is a success, EDEADLK too.
trylockwTimed(t) ==
    /\ Timedlock /\ called[t] = "trylockw"
    /\ \/ Granted(t, WrLock, "write")
       \/ ~ Deadlk(t) /\ Fail(t)

\* Without it: ten attempts at the read lock, and one at the write lock.
trylockwPoll(t) ==
    /\ ~ Timedlock /\ called[t] = "trylockw"
    /\ \/ RdLock(t) /\ LetOn(t, "write")
       \/ /\ Written /\ Enter(t, "trylockw-last")
          /\ UNCHANGED <<rwWriter, rwReaders, believes>>

trylockwLast(t) ==
    /\ called[t] = "trylockw-last"
    /\ \/ WrLock(t) /\ LetOn(t, "write")
       \/ (Written \/ rwReaders > 0) /\ Fail(t)

unlockNative(t) ==
    /\ called[t] = "out" /\ believes[t] # <<>>
    /\ RwUnlock(t)
    /\ believes' = [believes EXCEPT ![t] = Tail(@)]
    /\ UNCHANGED called

NativeNext ==
    \E t \in Users :
        \/ lockNative(t, "lockr", "read") \/ lockNative(t, "lockw", "write")
        \/ trylockwWait(t)
        \/ lockrNative(t) \/ lockwNative(t) \/ trylockrNative(t)
        \/ trylockwNow(t) \/ trylockwTimed(t) \/ trylockwPoll(t) \/ trylockwLast(t)
        \/ unlockNative(t)

NativeSpec == NativeInit /\ [][NativeNext]_nativeVars

-----------------------------------------------------------------------------
NativeTypeOK ==
    /\ rwWriter \in Users \union {NoUser} /\ rwReaders \in Nat
    /\ called \in [Users -> {"out", "lockr", "lockw", "trylockw", "trylockw-last"}]
    /\ believes \in [Users -> Seq({"read", "write"})]

Has(t, kind) == \E i \in DOMAIN believes[t] : believes[t][i] = kind

\* A thread that was told it has the write lock is alone, however often others
\* lock and unlock inside of their own locks: what the threads believe and what
\* the rwlock counts agree.
NativeExclusion ==
    \A t, u \in Users : t # u /\ Has(t, "write") => believes[u] = <<>>
=============================================================================
