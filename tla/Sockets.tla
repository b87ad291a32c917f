------------------------------ MODULE Sockets ------------------------------
(***************************************************************************)
(* Who holds which descriptor: the tcpsocket objects of a process, its     *)
(* tcplistener and the descriptor table of the kernel (tcpsocket.cpp, and  *)
(* close and the destructor of file.cpp). Descriptors are numbers that the *)
(* kernel gives out again, the lowest first, so an object that closes one  *)
(* it no longer has closes what another object has opened since.           *)
(*                                                                         *)
(* Every opening in the table has a stamp of its own; hold is the stamp an *)
(* object believes it has. tryaccept is two steps, the select outside the  *)
(* listener's lock and the accept inside it. Assigning a socket to itself, *)
(* and destroying a listener that is being used, are left out.             *)
(***************************************************************************)
EXTENDS Integers, FiniteSets

CONSTANTS
    Objects,     \* the places for a tcpsocket
    Accepters,   \* those whose threads accept connections
    Codecs,      \* the codecs that are made for them
    MaxFd,       \* the largest descriptor
    MaxOpened,   \* bound on what is opened in a behaviour
    MaxTwins,    \* bound on the numbers that get into two hands
    Free, NoCodec

ASSUME SocketsBounds == MaxFd \in Nat /\ MaxOpened \in Nat /\ MaxTwins \in Nat
ASSUME ObjectsAssumption == IsFiniteSet(Objects) /\ Accepters \subseteq Objects
ASSUME NothingAssumption == Free \notin 0 .. MaxOpened /\ NoCodec \notin Codecs

Fds == 0 .. MaxFd
Stdin == 0

VARIABLES
    table,      \* the stamp of each open descriptor, or Free
    opened,     \* how many stamps were given; 0 is what the process starts with at 0
    sockets,    \* the tcpsocket in each place
    codecRefs,     \* of each codec; 0 before it is made and after it is deleted
    listener,   \* the tcplistener
    waiting,    \* whether a connection waits to be accepted
    selected,   \* the places whose threads have come out of the first select
    twins,      \* the numbers that a second close may hit
    leaked      \* the stamps that no object holds any more

socketVars == <<table, opened, sockets, codecRefs, listener, waiting, selected, twins, leaked>>

NoSocket == [exists |-> FALSE, filno |-> -1, hold |-> Stdin, codec |-> NoCodec]
NoListener == [exists |-> FALSE, sock |-> 0, hold |-> Stdin, listening |-> FALSE]

SocketsInit ==
    /\ table = [n \in Fds |-> IF n = 0 THEN Stdin ELSE Free] /\ opened = 0
    /\ sockets = [o \in Objects |-> NoSocket] /\ codecRefs = [c \in Codecs |-> 0]
    /\ listener = NoListener /\ waiting = FALSE /\ selected = {}
    /\ twins = {} /\ leaked = {}

-----------------------------------------------------------------------------
(* The kernel.                                                             *)
Unused == {n \in Fds : table[n] = Free}
CanOpen == Unused # {} /\ opened < MaxOpened
NextFd == CHOOSE n \in Unused : \A m \in Unused : n <= m
Closed(t, n) == IF n \in Fds THEN [t EXCEPT ![n] = Free] ELSE t
Opens(n, t) == table' = [t EXCEPT ![n] = opened + 1] /\ opened' = opened + 1

(* The objects.                                                            *)
\* These numbers are now in two hands, or in one that should not have them.
Twin(ns) == twins' = twins \union ns /\ Cardinality(twins \union ns) <= MaxTwins
IsOpen(o) == sockets[o].filno >= 0
\* What an object loses that takes another descriptor without closing its own.
Overwritten(o) == IF IsOpen(o) THEN {sockets[o].hold} ELSE {}
\* An object lets go of its codec.
Unref(r, o) == IF sockets[o].codec = NoCodec THEN r ELSE [r EXCEPT ![sockets[o].codec] = @ - 1]

\* A tcpsocket is made, without or (sslsocket) with a codec.
tcpsocket(o) ==
    /\ ~ sockets[o].exists
    /\ \E c \in {NoCodec} \union {d \in Codecs : codecRefs[d] = 0} :
        /\ sockets' = [sockets EXCEPT ![o] = [NoSocket EXCEPT !.exists = TRUE, !.codec = c]]
        /\ codecRefs' = IF c = NoCodec THEN codecRefs ELSE [codecRefs EXCEPT ![c] = 1]
    /\ UNCHANGED <<table, opened, listener, waiting, selected, twins, leaked>>

\* The destructor closes what there is to close.
destroy(o) ==
    /\ sockets[o].exists /\ o \notin selected
    /\ table' = Closed(table, sockets[o].filno)
    /\ sockets' = [sockets EXCEPT ![o] = NoSocket]
    /\ codecRefs' = Unref(codecRefs, o)
    /\ UNCHANGED <<opened, listener, waiting, selected, twins, leaked>>

\* MUTANT: the number stays in the object.
closeKeeps(o) ==
    /\ sockets[o].exists /\ o \notin selected
    /\ table' = Closed(table, sockets[o].filno)
    /\ UNCHANGED <<opened, sockets, codecRefs, listener, waiting, selected, twins, leaked>>
close(o) ==
    /\ sockets[o].exists /\ o \notin selected
    /\ table' = Closed(table, sockets[o].filno)
    /\ sockets' = [sockets EXCEPT ![o].filno = -1, ![o].hold = Stdin]
    /\ UNCHANGED <<opened, codecRefs, listener, waiting, selected, twins, leaked>>

-----------------------------------------------------------------------------
\* connect and uconnect with a new descriptor; uconnect does not ask for the old one.
\* A codec that throws in the handshake makes connect fail, but leaves this as it is.
Connected(o) ==
    /\ Opens(NextFd, table) /\ twins' = twins
    /\ sockets' = [sockets EXCEPT ![o].filno = NextFd, ![o].hold = opened + 1]
\* No peer, or a codec that does not set up or shake hands: it is closed again.
Refused(o) ==
    /\ sockets' = [sockets EXCEPT ![o].filno = -1, ![o].hold = Stdin]
    /\ UNCHANGED <<table, opened, twins>>
\* The local address cannot be bound: it is closed, and the number stays.
Unbound(o) ==
    /\ sockets' = [sockets EXCEPT ![o].filno = NextFd]
    /\ Twin({NextFd})
    /\ UNCHANGED <<table, opened>>

tcpconnect(o) ==
    /\ sockets[o].exists /\ o \notin selected /\ ~ IsOpen(o)
    /\ CanOpen /\ (Connected(o) \/ Refused(o) \/ Unbound(o))
    /\ UNCHANGED <<codecRefs, listener, waiting, selected, leaked>>
uconnect(o) ==
    /\ sockets[o].exists /\ o \notin selected
    /\ CanOpen /\ (Connected(o) \/ Refused(o))
    /\ leaked' = leaked \union Overwritten(o)
    /\ UNCHANGED <<codecRefs, listener, waiting, selected>>
\* The kernel has no descriptor left: socketCreateException.
noDescriptor(o) ==
    /\ sockets[o].exists /\ o \notin selected /\ Unused = {}
    /\ sockets' = [sockets EXCEPT ![o].filno = -1, ![o].hold = Stdin]
    /\ leaked' = leaked \union Overwritten(o)
    /\ UNCHANGED <<table, opened, codecRefs, listener, waiting, selected, twins>>

-----------------------------------------------------------------------------
\* MUTANT: the source keeps its number, and its destructor closes it.
GivenAndKept(o, p) ==
    /\ table' = Closed(table, sockets[p].filno)
    /\ sockets' = [sockets EXCEPT ![o] = sockets[p], ![p] = NoSocket]
\* derive(tcpsocket *): the source gives its descriptor and its codec, and is deleted.
Given(o, p) ==
    /\ table' = table
    /\ sockets' = [sockets EXCEPT ![o] = sockets[p], ![p] = NoSocket]
derivePointer(o, p) ==
    /\ o # p /\ sockets[o].exists /\ sockets[p].exists /\ {o, p} \intersect selected = {}
    /\ Given(o, p)
    /\ codecRefs' = Unref(codecRefs, o)
    /\ leaked' = leaked \union Overwritten(o)
    /\ UNCHANGED <<opened, listener, waiting, selected, twins>>
\* derive(tcpsocket &): the source gives its codec but keeps the descriptor as well.
deriveReference(o, p) ==
    /\ o # p /\ sockets[o].exists /\ sockets[p].exists /\ {o, p} \intersect selected = {}
    /\ sockets' = [sockets EXCEPT ![o] = sockets[p], ![p].codec = NoCodec]
    /\ codecRefs' = Unref(codecRefs, o)
    /\ leaked' = leaked \union Overwritten(o)
    /\ Twin({sockets[p].filno} \intersect Fds)
    /\ UNCHANGED <<table, opened, listener, waiting, selected>>

-----------------------------------------------------------------------------
tcplistener ==
    /\ ~ listener.exists
    /\ listener' = [NoListener EXCEPT !.exists = TRUE]
    /\ UNCHANGED <<table, opened, sockets, codecRefs, waiting, selected, twins, leaked>>
\* listento closes the socket it listens on, if it does, and opens another.
listento ==
    LET old == IF listener.listening THEN Closed(table, listener.sock) ELSE table
        unused == {n \in Fds : old[n] = Free}
        n == CHOOSE k \in unused : \A m \in unused : k <= m IN
    /\ listener.exists /\ opened < MaxOpened
    /\ IF unused = {}
       THEN table' = old /\ opened' = opened /\ listener' = [listener EXCEPT !.listening = FALSE, !.sock = -1, !.hold = Stdin]
       ELSE \/ Opens(n, old) /\ listener' = [listener EXCEPT !.listening = TRUE, !.sock = n, !.hold = opened + 1]
            \/ table' = old /\ opened' = opened /\ listener' = [listener EXCEPT !.listening = FALSE, !.sock = n, !.hold = Stdin]
    /\ waiting' = FALSE
    /\ UNCHANGED <<sockets, codecRefs, selected, twins, leaked>>
\* The destructor closes sock, also the 0 it was made with or one that is closed.
destroyListener ==
    /\ listener.exists /\ selected = {}
    /\ table' = Closed(table, listener.sock)
    /\ Twin(IF listener.listening THEN {} ELSE {listener.sock} \intersect Fds)
    /\ listener' = NoListener /\ waiting' = FALSE
    /\ UNCHANGED <<opened, sockets, codecRefs, selected, leaked>>

\* A peer connects; it may give up before it is accepted.
peerConnects ==
    /\ listener.listening /\ table[listener.sock] = listener.hold /\ opened < MaxOpened
    /\ waiting' = ~ waiting
    /\ UNCHANGED <<table, opened, sockets, codecRefs, listener, selected, twins, leaked>>

\* o = listener.tryaccept (): the first select, without the lock.
trySelect(o) ==
    /\ o \in Accepters \ selected /\ sockets[o].exists /\ waiting
    /\ selected' = selected \union {o}
    /\ UNCHANGED <<table, opened, sockets, codecRefs, listener, waiting, twins, leaked>>
\* The second select and the accept; the new tcpsocket is derived from and deleted.
tryAccept(o) ==
    /\ o \in selected /\ selected' = selected \ {o}
    /\ IF waiting /\ Unused # {}
       THEN /\ opened < MaxOpened /\ Opens(NextFd, table)
            /\ sockets' = [sockets EXCEPT ![o].filno = NextFd, ![o].hold = opened + 1, ![o].codec = NoCodec]
            /\ codecRefs' = Unref(codecRefs, o) /\ leaked' = leaked \union Overwritten(o)
            /\ waiting' = FALSE
       ELSE UNCHANGED <<table, opened, sockets, codecRefs, leaked, waiting>>
    /\ UNCHANGED <<listener, twins>>

SocketsNext ==
    \/ \E o \in Objects :
        \/ tcpsocket(o) \/ destroy(o) \/ close(o)
        \/ tcpconnect(o) \/ uconnect(o) \/ noDescriptor(o)
        \/ trySelect(o) \/ tryAccept(o)
        \/ \E p \in Objects : derivePointer(o, p) \/ deriveReference(o, p)
    \/ tcplistener \/ listento \/ destroyListener \/ peerConnects
SocketsSpec == SocketsInit /\ [][SocketsNext]_socketVars

-----------------------------------------------------------------------------
SocketsTypeOK ==
    /\ table \in [Fds -> 0 .. MaxOpened \union {Free}] /\ opened \in 0 .. MaxOpened
    /\ sockets \in [Objects -> [exists : BOOLEAN, filno : Fds \union {-1}, hold : 0 .. MaxOpened,
                                codec : Codecs \union {NoCodec}]]
    /\ listener \in [exists : BOOLEAN, sock : Fds \union {-1}, hold : 0 .. MaxOpened, listening : BOOLEAN]
    /\ waiting \in BOOLEAN /\ selected \subseteq Objects
    /\ twins \subseteq Fds /\ leaked \subseteq 0 .. MaxOpened

HeldBy(n) ==
    {sockets[o].hold : o \in {p \in Objects : sockets[p].exists /\ sockets[p].filno = n}}
    \union (IF listener.listening /\ listener.sock = n THEN {listener.hold} ELSE {})

\* An object that has a descriptor has the one that it opened or was given, and no
\* other object has it too; what is open is held by an object, or was leaked when
\* its object took another; no codec goes before its last object, or outlives it.
\* All this whatever objects come, go and are assigned, except for the numbers in
\* twins: those assigned by reference, left behind by a failed bind, or in a
\* listener that did not listen when it was destroyed.
DescriptorsHeldOnce ==
    /\ \A n \in Fds \ twins :
        /\ \A s \in HeldBy(n) : table[n] = s
        /\ \A o, p \in Objects :
              sockets[o].filno = n /\ sockets[p].filno = n => o = p
        /\ \A o \in Objects : sockets[o].filno = n => ~ (listener.listening /\ listener.sock = n)
        /\ table[n] \notin {Free, Stdin} \union leaked => HeldBy(n) # {}
    /\ \A c \in Codecs :
        codecRefs[c] = Cardinality({o \in Objects : sockets[o].codec = c})
=============================================================================
