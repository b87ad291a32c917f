---------------------------- MODULE ThreadGroup ----------------------------
(***************************************************************************)
(* A threadgroup and its groupthreads (thread.h, thread.cpp): the array of *)
(* members under the lock lck, the constructor and destructor that add to  *)
(* it and remove from it, gc, broadcastevent and operator[]; and of the    *)
(* class thread what goes on after run(): the flag finished that gc looks  *)
(* at, the broadcast of hasfinished and the removal from THREADLIST.       *)
(*                                                                         *)
(* Objects live at addresses, which the allocator uses again. An access to *)
(* an object that is no longer there is noted in stray, by who makes it.   *)
(***************************************************************************)
EXTENDS Naturals, FiniteSets

CONSTANTS
    Owners,      \* threads that use the group
    Workers,     \* the pthreads of its members, each started once
    Addresses,   \* where objects can be
    None

ASSUME OwnersAssumption == IsFiniteSet(Owners)
ASSUME WorkersAssumption == IsFiniteSet(Workers) /\ IsFiniteSet(Addresses)
ASSUME NoneAssumption == None \notin Workers \union Addresses

VARIABLES
    object,      \* whose object is at an address, or None
    finished,    \* addresses of objects whose flag finished is set
    array, cnt,  \* the group; slots from cnt on keep what was there
    listed,      \* the keys of THREADLIST, which are addresses
    wpc, self,   \* worker: where in dorun it is, and its object's address
    opc, idx,    \* owner: the method it is in, and the method's index
    victim,      \* ... the object its delete has begun to destroy
    sending,     \* owners whose gc is the one broadcastevent begins with
    stray

owner == <<opc, idx, victim, sending>>
group == <<array, cnt>>
heap == <<object, finished>>
workers == <<listed, wpc, self>>
groupVars == <<heap, group, workers, owner, stray>>

Slots == 0 .. Cardinality(Workers)
Members == {array[i] : i \in {j \in Slots : j < cnt}}

GroupInit ==
    /\ object = [a \in Addresses |-> None]
    /\ finished = {}
    /\ array = [i \in Slots |-> None] /\ cnt = 0
    /\ listed = {}
    /\ wpc = [w \in Workers |-> "none"]
    /\ self = [w \in Workers |-> None]
    /\ opc = [o \in Owners |-> "idle"] /\ idx = [o \in Owners |-> 0]
    /\ victim = [o \in Owners |-> None]
    /\ sending = {}
    /\ stray = {}

\* lck is held shared by a gc that scans; add and remove wait for it.
Exclusive == \A o \in Owners : opc[o] # "scan"

Goto(o, place, i) ==
    opc' = [opc EXCEPT ![o] = place] /\ idx' = [idx EXCEPT ![o] = i]

Touch(who, a, valid) == stray' = IF valid THEN stray ELSE stray \union {who}

(***************************************************************************)
(* The constructor: add the object to the group, and spawn it.             *)
(***************************************************************************)
add(a) == array' = [array EXCEPT ![cnt] = a] /\ cnt' = cnt + 1

\* MUTANT: a constructor that forgets to spawn.
spawnForgotten(w, a) == self' = [self EXCEPT ![w] = a] /\ UNCHANGED wpc

spawn(w, a) ==
    wpc' = [wpc EXCEPT ![w] = "start"] /\ self' = [self EXCEPT ![w] = a]

new(o) ==
    /\ opc[o] = "idle" /\ Exclusive
    /\ \E w \in Workers, a \in Addresses :
         /\ wpc[w] = "none" /\ object[a] = None
         /\ object' = [object EXCEPT ![a] = w]
         /\ finished' = finished \ {a}
         /\ add(a)
         /\ spawn(w, a)
    /\ UNCHANGED <<listed, owner, stray>>

(***************************************************************************)
(* dorun. The worker's own accesses go through "me", its address.          *)
(***************************************************************************)
Reach(w, from, to) == wpc[w] = from /\ wpc' = [wpc EXCEPT ![w] = to]
MeIsThere(w) == object[self[w]] = w

\* MUTANT: finished is set before run() is called.
listFinished(w) ==
    /\ Reach(w, "start", "run")
    /\ listed' = listed \union {self[w]}
    /\ finished' = finished \union {self[w]}
    /\ UNCHANGED <<object, group, self, owner, stray>>

list(w) ==
    /\ Reach(w, "start", "run")
    /\ listed' = listed \union {self[w]}
    /\ UNCHANGED <<heap, group, self, owner, stray>>

runReturns(w) ==
    /\ Reach(w, "run", "finish")
    /\ UNCHANGED <<heap, group, listed, self, owner, stray>>

finish(w) ==
    /\ Reach(w, "finish", "raise")
    /\ finished' = finished \union {self[w]}
    /\ Touch("worker", self[w], MeIsThere(w))
    /\ UNCHANGED <<object, group, listed, self, owner>>

raise(w) ==
    /\ Reach(w, "raise", "unlist")
    /\ Touch("worker", self[w], MeIsThere(w))
    /\ UNCHANGED <<heap, group, listed, self, owner>>

unlist(w) ==
    /\ Reach(w, "unlist", "done")
    /\ listed' = listed \ {self[w]}
    /\ UNCHANGED <<heap, group, self, owner, stray>>

(***************************************************************************)
(* gc: scan under the shared lock; breaksection gives the lock back for    *)
(* "delete array[idx]", which reads the slot again.                        *)
(***************************************************************************)
Scan(o) ==
    /\ opc[o] = "idle"
    /\ Goto(o, "scan", 0)
    /\ UNCHANGED <<heap, group, workers, victim, stray>>

gc(o) == Scan(o) /\ UNCHANGED sending

scanPast(o) ==
    /\ opc[o] = "scan" /\ idx[o] < cnt
    /\ array[idx[o]] \notin finished
    /\ Goto(o, "scan", idx[o] + 1)
    /\ UNCHANGED <<heap, group, workers, victim, sending, stray>>

scanFound(o) ==
    /\ opc[o] = "scan" /\ idx[o] < cnt
    /\ array[idx[o]] \in finished
    /\ Goto(o, "delete", idx[o])
    /\ UNCHANGED <<heap, group, workers, victim, sending, stray>>

\* MUTANT: broadcastevent starts one slot too far.
sendFromCount == cnt

sendFrom == cnt - 1

scanEnd(o) ==
    /\ opc[o] = "scan" /\ idx[o] >= cnt
    /\ IF o \in sending /\ cnt > 0 THEN Goto(o, "send", sendFrom)
                                   ELSE Goto(o, "idle", 0)
    /\ sending' = sending \ {o}
    /\ UNCHANGED <<heap, group, workers, victim, stray>>

Alive(a) == a \in Addresses /\ object[a] # None

deleteBegins(o) ==
    /\ opc[o] = "delete" /\ victim[o] = None
    /\ LET a == array[idx[o]] IN
         /\ victim' = [victim EXCEPT ![o] = a]
         /\ Touch("owner", a, Alive(a))
    /\ UNCHANGED <<heap, group, workers, opc, idx, sending>>

Member(a, i) == i < cnt /\ array[i] = a

\* MUTANT of remove: the members behind are not moved up.
removeLast(a) ==
    /\ cnt' = IF \E i \in Slots : Member(a, i) THEN cnt - 1 ELSE cnt
    /\ UNCHANGED array

remove(a) ==
    \/ /\ \E i \in Slots :
            /\ Member(a, i)
            /\ array' = [j \in Slots |->
                 IF i <= j /\ j < cnt - 1 THEN array[j + 1] ELSE array[j]]
       /\ cnt' = cnt - 1
    \/ /\ ~ \E i \in Slots : Member(a, i)
       /\ UNCHANGED group

deleteEnds(o) ==
    /\ opc[o] = "delete" /\ victim[o] # None /\ Exclusive
    /\ remove(victim[o])
    /\ object' = [object EXCEPT ![victim[o]] = None]
    /\ victim' = [victim EXCEPT ![o] = None]
    /\ Goto(o, "scan", idx[o] + 1)
    /\ UNCHANGED <<finished, workers, sending, stray>>

(***************************************************************************)
(* broadcastevent: gc, then from the last member to the first, with no     *)
(* lock. operator[]: refuses what is beyond cnt, not cnt itself.           *)
(***************************************************************************)
broadcastevent(o) == Scan(o) /\ sending' = sending \union {o}

sendevent(o) ==
    /\ opc[o] = "send"
    /\ Touch("owner", array[idx[o]], Alive(array[idx[o]]))
    /\ IF idx[o] = 0 THEN Goto(o, "idle", 0) ELSE Goto(o, "send", idx[o] - 1)
    /\ UNCHANGED <<heap, group, workers, victim, sending>>

InBounds(i) == i <= cnt

at(o) ==
    /\ opc[o] = "idle"
    /\ \E i \in Slots : InBounds(i) /\ Touch("index", array[i], Alive(array[i]))
    /\ UNCHANGED <<heap, group, workers, owner>>

Dorun(w) == list(w) \/ finish(w) \/ raise(w) \/ unlist(w)
Gc(o) == \/ scanPast(o) \/ scanFound(o) \/ scanEnd(o)
         \/ deleteBegins(o) \/ deleteEnds(o)

GroupNext == \/ \E w \in Workers : Dorun(w) \/ runReturns(w)
        \/ \E o \in Owners : \/ new(o) \/ gc(o) \/ Gc(o)
                             \/ broadcastevent(o) \/ sendevent(o) \/ at(o)

GroupSpec == GroupInit /\ [][GroupNext]_groupVars

-----------------------------------------------------------------------------
GroupTypeOK ==
    /\ object \in [Addresses -> Workers \union {None}]
    /\ finished \subseteq Addresses /\ listed \subseteq Addresses
    /\ array \in [Slots -> Addresses \union {None}]
    /\ cnt \in Slots
    /\ wpc \in [Workers ->
                   {"none", "start", "run", "finish", "raise", "unlist", "done"}]
    /\ self \in [Workers -> Addresses \union {None}]
    /\ opc \in [Owners -> {"idle", "scan", "delete", "send"}]
    /\ idx \in [Owners -> Slots \union {Cardinality(Workers) + 1}]
    /\ victim \in [Owners -> Addresses \union {None}]
    /\ sending \subseteq Owners
    /\ \A w \in Workers : self[w] = None <=> wpc[w] = "none"
    /\ stray \subseteq {"owner", "worker", "index"}

\* The array has every living object once and nothing else: deletions in the
\* middle of a scan and additions between two of them do not upset it. True
\* of a group used by one thread, while any number of workers end.
ArrayExact ==
    /\ Members = {a \in Addresses : object[a] # None}
    /\ \A i, j \in Slots : i < cnt /\ j < cnt /\ array[i] = array[j] => i = j

\* gc deletes no object whose run method has not returned. The same.
WorkingNotDeleted ==
    \A w \in Workers : wpc[w] \in {"start", "run", "finish"} => MeIsThere(w)

\* No owner uses an object it or another has deleted. The same.
OwnersTouchTheLiving == "owner" \notin stray

\* The array of a group has exactly the objects that live, each once, none that
\* still works is deleted, and its owners touch no object that is.
GroupExact == ArrayExact /\ WorkingNotDeleted /\ OwnersTouchTheLiving

\* ... and no worker does, between its run method and its end.
WorkersTouchTheLiving == "worker" \notin stray
=============================================================================
