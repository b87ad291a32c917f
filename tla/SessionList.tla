---------------------------- MODULE SessionList -----------------------------
(***************************************************************************)
(* sessionlist (session.h, session.cpp): values by uuid behind one lock,   *)
(* each with the time of its last use. A request asks whether its session  *)
(* exists, gets the data, works on them and sets them, or destroys the     *)
(* session, in sections of the lock of which each is a step; another       *)
(* thread calls expire. Two clients can come with one uuid, as two windows *)
(* of one browser do.                                                      *)
(***************************************************************************)
EXTENDS Integers, Sequences, FiniteSets, SequencesExt

CONSTANTS
    Clients,
    Uuids,         \* what strutil::uuid makes; a new one each time, bounded
    Timeout,       \* the argument of expire
    MaxTime,       \* bound on core.time.now ()
    MaxData,       \* bound on the changes to the data of a session
    NoUuid

ASSUME SessionBounds == {Timeout, MaxTime, MaxData} \subseteq Nat

VARIABLES
    sessions,      \* db: [id, data, time] of each, in order
    clock,
    visitor,        \* [at, id, data] of each
    reaper,        \* expire: [at, now]
    issued,        \* the uuids that were made
    touched        \* when each was last created, got or set

sessionVars == <<sessions, clock, visitor, reaper, issued, touched>>

NoDataYet == 0         \* a value that has only a time
Ids(db) == {db[i].id : i \in DOMAIN db}
Slot(db, id) == CHOOSE i \in DOMAIN db : db[i].id = id
\* db[id] = data, with the time.
Put(db, id, data) ==
    LET s == [id |-> id, data |-> data, time |-> clock] IN
    IF id \in Ids(db) THEN [db EXCEPT ![Slot(db, id)] = s] ELSE Append(db, s)

\* MUTANT: the time stays.
DataOfIdle(db, id) == IF id \in Ids(db) THEN db ELSE Put(db, id, NoDataYet)
\* get: the session with a new time, made if there is none.
DataOf(db, id) == Put(db, id, IF id \in Ids(db) THEN db[Slot(db, id)].data ELSE NoDataYet)

\* MUTANT: the next one moves to i and is skipped.
ExpireLoopSkips(db, i, now) ==
    LET reap[n \in 0 .. Len(db)] ==
            IF n = 0 THEN [db |-> db, i |-> i]
            ELSE LET r == reap[n - 1] IN
                 IF r.i > Len(r.db) THEN r
                 ELSE IF now - r.db[r.i].time > Timeout THEN [db |-> RemoveAt(r.db, r.i), i |-> r.i + 1]
                 ELSE [r EXCEPT !.i = @ + 1]
    IN  reap[Len(db)].db
\* The loop of expire, from i on: rmindex (i--).
ExpireLoop(db, i, now) ==
    LET reap[n \in 0 .. Len(db)] ==
            IF n = 0 THEN [db |-> db, i |-> i]
            ELSE LET r == reap[n - 1] IN
                 IF r.i > Len(r.db) THEN r
                 ELSE IF now - r.db[r.i].time > Timeout THEN [r EXCEPT !.db = RemoveAt(@, r.i)]
                 ELSE [r EXCEPT !.i = @ + 1]
    IN  reap[Len(db)].db

SessionInit ==
    /\ sessions = <<>> /\ clock = 0 /\ issued = {}
    /\ visitor = [c \in Clients |-> [at |-> "away", id |-> NoUuid, data |-> NoDataYet]]
    /\ reaper = [at |-> "idle", now |-> 0]
    /\ touched = [id \in Uuids |-> 0]

Moves(c, at, id, data) == visitor' = [visitor EXCEPT ![c] = [at |-> at, id |-> id, data |-> data]]
Used(id) == touched' = [touched EXCEPT ![id] = clock]
Apart(c) == visitor[c].at

create(c) == \E id \in Uuids \ issued :
    /\ Apart(c) = "away"
    /\ issued' = issued \union {id}
    /\ sessions' = Put(sessions, id, 1)
    /\ Moves(c, "apart", id, NoDataYet) /\ Used(id)
    /\ UNCHANGED <<clock, reaper>>

\* A visitor with the uuid of another.
join(c, d) ==
    /\ Apart(c) = "away" /\ visitor[d].id # NoUuid
    /\ Moves(c, "apart", visitor[d].id, NoDataYet)
    /\ UNCHANGED <<sessions, clock, reaper, issued, touched>>

\* MUTANT: the answer is not looked at.
existsUnasked(c) ==
    /\ Apart(c) = "apart" /\ Moves(c, "exists", visitor[c].id, NoDataYet)
    /\ UNCHANGED <<sessions, clock, reaper, issued, touched>>

exists(c) ==
    /\ Apart(c) = "apart"
    /\ IF visitor[c].id \in Ids(sessions) THEN Moves(c, "exists", visitor[c].id, NoDataYet)
       ELSE Moves(c, "away", NoUuid, NoDataYet)
    /\ UNCHANGED <<sessions, clock, reaper, issued, touched>>

get(c) ==
    LET id == visitor[c].id  db == DataOf(sessions, id) IN
    /\ Apart(c) = "exists"
    /\ sessions' = db
    /\ Moves(c, "works", id, db[Slot(db, id)].data) /\ Used(id)
    /\ UNCHANGED <<clock, reaper, issued>>

set(c) ==
    LET id == visitor[c].id IN
    /\ Apart(c) = "works" /\ visitor[c].data < MaxData
    /\ sessions' = Put(sessions, id, visitor[c].data + 1)
    /\ Moves(c, "apart", id, NoDataYet) /\ Used(id)
    /\ UNCHANGED <<clock, reaper, issued>>

\* A request that changes nothing, and one that ends the session.
ends(c) ==
    /\ Apart(c) = "works" /\ Moves(c, "apart", visitor[c].id, NoDataYet)
    /\ UNCHANGED <<sessions, clock, reaper, issued, touched>>
destroy(c) ==
    /\ Apart(c) = "works"
    /\ sessions' = IF visitor[c].id \in Ids(sessions)
                   THEN RemoveAt(sessions, Slot(sessions, visitor[c].id)) ELSE sessions
    /\ Moves(c, "away", NoUuid, NoDataYet)
    /\ UNCHANGED <<clock, reaper, issued, touched>>

\* expire reads the time and then asks for the lock.
expire ==
    /\ reaper.at = "idle" /\ reaper' = [at |-> "asks", now |-> clock]
    /\ UNCHANGED <<sessions, clock, visitor, issued, touched>>
expireLocked ==
    /\ reaper.at = "asks" /\ reaper' = [reaper EXCEPT !.at = "idle"]
    /\ sessions' = ExpireLoop(sessions, 1, reaper.now)
    /\ UNCHANGED <<clock, visitor, issued, touched>>

tick ==
    /\ clock < MaxTime /\ clock' = clock + 1
    /\ UNCHANGED <<sessions, visitor, reaper, issued, touched>>

SessionNext ==
    \/ expire \/ expireLocked \/ tick
    \/ \E c \in Clients : create(c) \/ exists(c) \/ get(c) \/ set(c) \/ ends(c) \/ destroy(c)
    \/ \E c, d \in Clients : join(c, d)

SessionSpec == SessionInit /\ [][SessionNext]_sessionVars

-----------------------------------------------------------------------------
SessionTypeOK ==
    /\ Ids(sessions) \subseteq issued /\ issued \subseteq Uuids
    /\ Cardinality(Ids(sessions)) = Len(sessions)
    /\ clock \in 0 .. MaxTime /\ reaper.now \in 0 .. clock

\* What leaves the list without being destroyed has not been used for too long.
ExpiredOnly ==
    \A id \in Ids(sessions) \ Ids(sessions') :
        (\A c \in Clients : visitor'[c] = visitor[c]) => clock - touched[id] > Timeout

\* What expire leaves had been used within the timeout when it was called.
NoneForgotten ==
    reaper.at = "asks" /\ reaper'.at = "idle" =>
        \A id \in Ids(sessions') : reaper.now - touched[id] <= Timeout

\* Clients that saw the session exist and are not done with it.
UnderWay(id) == \E c \in Clients : visitor[c].id = id /\ visitor[c].at \in {"exists", "works"}

\* What comes back is an empty one that get makes, or the copy that a client got
\* before the session went, changed by that client, as set puts it back.
ComesBack ==
    \A i \in DOMAIN sessions' :
        LET s == sessions'[i] IN
        s.id \notin Ids(sessions) /\ s.id \in issued =>
            \E c \in Clients :
                /\ visitor[c].id = s.id
                /\ \/ visitor[c].at = "exists" /\ s.data = NoDataYet
                   \/ visitor[c].at = "works" /\ s.data = visitor[c].data + 1

\* Once a session has gone and nobody is under way with it, it is gone for good.
GoneForGood ==
    \A id \in issued \ Ids(sessions) :
        ~ UnderWay(id) => id \notin Ids(sessions') /\ ~ UnderWay(id)'

\* The time by which a session is judged is that of its last use, however requests
\* and expire overlap: one that leaves the list without being destroyed has not
\* been used for longer than the timeout; and what expire leaves had been used,
\* when the call began, within it. A session that expired or was destroyed while
\* a client was under way with it does come back: get makes an empty one, set
\* puts back the data that the client got before, with its change. It can come
\* back by these clients alone, with no other data, and not once they are done.
SessionsKept == [][ExpiredOnly /\ NoneForgotten /\ ComesBack /\ GoneForGood]_sessionVars
=============================================================================
