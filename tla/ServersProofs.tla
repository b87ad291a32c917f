---------------------------- MODULE ServersProofs ---------------------------
(***************************************************************************)
(* For every number of descriptors, sockets, codecs, workers and           *)
(* addresses: what objects hold of the kernel's table is theirs, what a    *)
(* threadgroup has of its members is what lives, and what a connection     *)
(* sends is handled as it was meant.                                       *)
(*                                                                         *)
(* What assignment by reference or a failed bind leaves in two hands may   *)
(* be closed twice; the invariant is stated number by number for all       *)
(* others, down to which opening of the number an object holds. The        *)
(* group's says which object and which thread know each other, and what a  *)
(* scan that is under way may count on. That of a connection says where in *)
(* the stream the worker is, and what it has of the request that is there. *)
(***************************************************************************)
EXTENDS Sockets, ThreadGroup, HttpSession, Induction, FiniteSetTheorems, SequenceTheorems, TLAPS

(***************************************************************************)
(* Sockets                                                                 *)
(***************************************************************************)
Socket == [exists : BOOLEAN, filno : Fds \union {-1}, hold : 0 .. MaxOpened, codec : Codecs \union {NoCodec}]
Listener == [exists : BOOLEAN, sock : Fds \union {-1}, hold : 0 .. MaxOpened, listening : BOOLEAN]

\* What is true of a number that is in no two hands.
Sound(n) ==
    /\ \A o \in Objects : sockets[o].filno = n => table[n] = sockets[o].hold
    /\ \A o, p \in Objects : sockets[o].filno = n /\ sockets[p].filno = n => o = p
    /\ listener.listening /\ listener.sock = n =>
          table[n] = listener.hold /\ \A o \in Objects : sockets[o].filno # n
    /\ table[n] \notin {Free, Stdin} \union leaked =>
          (\E o \in Objects : sockets[o].filno = n) \/ (listener.listening /\ listener.sock = n)

HasCodec(c) == {o \in Objects : sockets[o].codec = c}

Counted == \A c \in Codecs : codecRefs[c] = Cardinality(HasCodec(c))

SocketsTypes ==
    /\ table \in [Fds -> 0 .. MaxOpened \union {Free}] /\ opened \in 0 .. MaxOpened
    /\ sockets \in [Objects -> Socket] /\ listener \in Listener
    /\ waiting \in BOOLEAN /\ selected \subseteq Objects
    /\ twins \subseteq Fds /\ leaked \subseteq 0 .. MaxOpened
    /\ codecRefs \in [Codecs -> Int]
    /\ \A o \in Objects : ~ sockets[o].exists => sockets[o] = NoSocket /\ o \notin selected
    /\ ~ listener.exists => ~ listener.listening

SocketsInv == SocketsTypes /\ (\A n \in Fds \ twins : Sound(n)) /\ Counted

\* What socket () gives.
LEMMA NextIsFree ==
    ASSUME NEW S \in SUBSET Fds, S # {}, NEW n, n = CHOOSE k \in S : \A m \in S : k <= m
    PROVE  n \in S
<1>1. S \in SUBSET Nat
  BY SocketsBounds DEF Fds
<1>2. \E k \in S : \A m \in S : k <= m
  BY <1>1, LeastNumber
<1> QED
  BY <1>2

\* Those who have a codec are finitely many.
LEMMA CodecSets ==
    ASSUME NEW S \in SUBSET Objects
    PROVE  /\ Cardinality(S) \in Nat
           /\ Cardinality(S) = 0 <=> S = {}
           /\ \A o \in Objects \ S : Cardinality(S \union {o}) = Cardinality(S) + 1
           /\ \A o \in S : Cardinality(S \ {o}) = Cardinality(S) - 1
<1>1. IsFiniteSet(S)
  BY ObjectsAssumption, FS_Subset
<1> QED
  BY <1>1, FS_CardinalityType, FS_EmptySet, FS_AddElement, FS_RemoveElement

\* No object takes or leaves a codec.
LEMMA CodecsStay ==
    ASSUME SocketsInv, codecRefs' = codecRefs,
           \A o \in Objects : sockets'[o].codec = sockets[o].codec
    PROVE  Counted' /\ codecRefs' \in [Codecs -> Int]
<1>1. \A c \in Codecs : HasCodec(c)' = HasCodec(c)
  BY DEF HasCodec
<1> QED
  BY <1>1 DEF SocketsInv, SocketsTypes, Counted

\* An object leaves its codec.
LEMMA CodecLeft ==
    ASSUME SocketsInv, NEW o \in Objects, codecRefs' = Unref(codecRefs, o),
           sockets'[o].codec = NoCodec,
           \A p \in Objects : p # o => sockets'[p].codec = sockets[p].codec
    PROVE  Counted' /\ codecRefs' \in [Codecs -> Int]
<1>1. ASSUME NEW c \in Codecs
      PROVE  /\ HasCodec(c)' = HasCodec(c) \ {o} /\ HasCodec(c) \in SUBSET Objects
             /\ o \in HasCodec(c) <=> sockets[o].codec = c
  BY NothingAssumption DEF HasCodec
<1>2. sockets[o].codec \in Codecs \union {NoCodec} /\ codecRefs \in [Codecs -> Int]
  BY DEF SocketsInv, SocketsTypes, Socket
<1>3. \A c \in Codecs : codecRefs'[c] = IF sockets[o].codec = c THEN codecRefs[c] - 1 ELSE codecRefs[c]
  BY <1>2, NothingAssumption DEF Unref
<1>4. codecRefs' \in [Codecs -> Int]
  BY <1>2 DEF Unref
<1>5. ASSUME NEW c \in Codecs PROVE codecRefs'[c] = Cardinality(HasCodec(c)')
  <2>1. CASE o \in HasCodec(c)
    BY <1>1, <1>3, <2>1, CodecSets DEF SocketsInv, Counted
  <2>2. CASE o \notin HasCodec(c)
    <3>1. HasCodec(c)' = HasCodec(c)
      BY <1>1, <2>2
    <3> QED
      BY <1>1, <1>3, <2>2, <3>1 DEF SocketsInv, Counted
  <2> QED
    BY <2>1, <2>2
<1> QED
  BY <1>4, <1>5 DEF Counted

\* An object leaves its codec and takes that of another.
LEMMA CodecGiven ==
    ASSUME SocketsInv, NEW o \in Objects, NEW p \in Objects, o # p,
           codecRefs' = Unref(codecRefs, o),
           sockets'[o].codec = sockets[p].codec, sockets'[p].codec = NoCodec,
           \A q \in Objects : q # o /\ q # p => sockets'[q].codec = sockets[q].codec
    PROVE  Counted' /\ codecRefs' \in [Codecs -> Int]
<1> DEFINE d == sockets[p].codec
<1>1. sockets[o].codec \in Codecs \union {NoCodec} /\ codecRefs \in [Codecs -> Int]
  BY DEF SocketsInv, SocketsTypes, Socket
<1>2. \A c \in Codecs : codecRefs'[c] = IF sockets[o].codec = c THEN codecRefs[c] - 1 ELSE codecRefs[c]
  BY <1>1, NothingAssumption DEF Unref
<1>3. codecRefs' \in [Codecs -> Int]
  BY <1>1 DEF Unref
<1>4. ASSUME NEW c \in Codecs PROVE codecRefs'[c] = Cardinality(HasCodec(c)')
  <2>1. /\ HasCodec(c) \in SUBSET Objects /\ codecRefs[c] = Cardinality(HasCodec(c))
        /\ o \in HasCodec(c) <=> sockets[o].codec = c
        /\ p \in HasCodec(c) <=> d = c
    BY DEF HasCodec, SocketsInv, Counted
  <2>2. CASE d # c
    <3>1. HasCodec(c)' = HasCodec(c) \ {o}
      BY <2>1, <2>2, NothingAssumption DEF HasCodec
    <3>2. CASE o \in HasCodec(c)
      BY <1>2, <2>1, <3>1, <3>2, CodecSets
    <3>3. CASE o \notin HasCodec(c)
      <4>1. HasCodec(c)' = HasCodec(c)
        BY <3>1, <3>3
      <4> QED
        BY <1>2, <2>1, <3>3, <4>1
    <3> QED
      BY <3>2, <3>3
  <2>3. CASE d = c
    <3> DEFINE S == HasCodec(c) \ {p}
    <3>1. HasCodec(c)' = S \union {o} /\ S \in SUBSET Objects /\ p \in HasCodec(c)
      BY <2>1, <2>3, NothingAssumption DEF HasCodec
    <3>2. Cardinality(S) = Cardinality(HasCodec(c)) - 1 /\ Cardinality(HasCodec(c)) \in Nat
      BY <2>1, <3>1, CodecSets
    <3>3. CASE o \in HasCodec(c)
      <4>1. S \union {o} = S
        BY <3>3
      <4> QED
        BY <1>2, <2>1, <3>1, <3>2, <3>3, <4>1
    <3>4. CASE o \notin HasCodec(c)
      <4>1. Cardinality(S \union {o}) = Cardinality(S) + 1
        <5> HIDE DEF S
        <5>1. o \in Objects \ S
          BY <3>4 DEF S
        <5> QED
          BY <3>1, <5>1, CodecSets
      <4> QED
        BY <1>2, <2>1, <3>1, <3>2, <3>4, <4>1
    <3> QED
      BY <3>3, <3>4
  <2> QED
    BY <2>2, <2>3
<1> QED
  BY <1>3, <1>4 DEF Counted

\* An object lets go of its descriptor, which is closed.
LEMMA Closes ==
    ASSUME SocketsInv, NEW o \in Objects, table' = Closed(table, sockets[o].filno),
           sockets'[o].filno = -1, \A p \in Objects : p # o => sockets'[p] = sockets[p],
           UNCHANGED <<listener, leaked, twins>>
    PROVE  \A n \in Fds \ twins' : Sound(n)'
<1> SUFFICES ASSUME NEW n \in Fds \ twins
             PROVE  Sound(n)'
  OBVIOUS
<1>1. Sound(n) /\ n # -1 /\ n \in Fds
  BY SocketsBounds DEF SocketsInv, Fds
<1>2. table \in [Fds -> 0 .. MaxOpened \union {Free}]
  BY DEF SocketsInv, SocketsTypes
<1>3. CASE sockets[o].filno = n
  <2>1. table'[n] = Free
    BY <1>1, <1>2, <1>3 DEF Closed
  <2>2. \A p \in Objects : sockets'[p].filno # n
    BY <1>1, <1>3 DEF Sound
  <2>3. ~ (listener.listening /\ listener.sock = n)
    BY <1>1, <1>3 DEF Sound
  <2> QED
    BY <2>1, <2>2, <2>3 DEF Sound
<1>4. CASE sockets[o].filno # n
  <2>1. table'[n] = table[n]
    BY <1>2, <1>4 DEF Closed
  <2>2. \A p \in Objects : sockets'[p].filno = n <=> sockets[p].filno = n
    BY <1>1, <1>4
  <2>3. \A p \in Objects : sockets'[p].filno = n => sockets'[p].hold = sockets[p].hold
    BY <1>1
  <2> QED
    BY <1>1, <2>1, <2>2, <2>3 DEF Sound
<1> QED
  BY <1>3, <1>4

\* An object loses its descriptor, or takes another that was opened for it.
LEMMA Takes ==
    ASSUME SocketsInv, NEW o \in Objects, leaked' = leaked \union Overwritten(o),
           \A p \in Objects : p # o => sockets'[p] = sockets[p],
           \/ sockets'[o].filno = -1 /\ table' = table
           \/ /\ Unused # {} /\ Opens(NextFd, table)
              /\ sockets'[o].filno = NextFd /\ sockets'[o].hold = opened + 1,
           UNCHANGED <<listener, twins>>
    PROVE  \A n \in Fds \ twins' : Sound(n)'
<1> SUFFICES ASSUME NEW n \in Fds \ twins
             PROVE  Sound(n)'
  OBVIOUS
<1>1. Sound(n) /\ n # -1 /\ n \in Fds /\ n >= 0
  BY SocketsBounds DEF SocketsInv, Fds
<1>2. table \in [Fds -> 0 .. MaxOpened \union {Free}] /\ opened \in Nat
      /\ \A p \in Objects : sockets[p].hold \in 0 .. MaxOpened
      /\ listener.hold \in 0 .. MaxOpened
  BY DEF SocketsInv, SocketsTypes, Socket, Listener
<1>3. ASSUME Unused # {} PROVE NextFd \in Fds /\ table[NextFd] = Free
  <2>1. Unused \in SUBSET Fds /\ \A k \in Unused : table[k] = Free
    BY DEF Unused
  <2>2. NextFd \in Unused
    BY <1>3, <2>1, NextIsFree DEF NextFd
  <2> QED
    BY <2>1, <2>2
<1>4. sockets[o].filno = n => table[n] \in leaked'
  BY <1>1 DEF Overwritten, IsOpen, Sound
<1>5. CASE Unused # {} /\ NextFd = n /\ sockets'[o].filno = n /\ Opens(n, table)
           /\ sockets'[o].hold = opened + 1
  <2>1. table[n] = Free
    BY <1>3, <1>5
  <2>2. /\ \A p \in Objects : sockets[p].filno # n
        /\ ~ (listener.listening /\ listener.sock = n)
    BY <1>1, <1>2, <2>1, NothingAssumption DEF Sound
  <2>3. table'[n] = opened + 1
    BY <1>1, <1>2, <1>5 DEF Opens
  <2> QED
    BY <1>5, <2>2, <2>3 DEF Sound
<1>6. CASE sockets'[o].filno # n
  <2>1. table'[n] = table[n]
    BY <1>2, <1>6 DEF Opens
  <2> QED
    BY <1>1, <1>4, <1>6, <2>1 DEF Sound
<1> QED
  BY <1>1, <1>5, <1>6

\* The kernel and the objects stand, or only what is in two hands changes.
LEMMA Stands ==
    ASSUME SocketsInv, UNCHANGED <<table, listener, leaked>>, twins \subseteq twins',
           \A n \in Fds \ twins' : \A o \in Objects :
              /\ sockets'[o].filno = n <=> sockets[o].filno = n
              /\ sockets'[o].filno = n => sockets'[o].hold = sockets[o].hold
    PROVE  \A n \in Fds \ twins' : Sound(n)'
<1> SUFFICES ASSUME NEW n \in Fds \ twins'
             PROVE  Sound(n)'
  OBVIOUS
<1>1. Sound(n)
  BY DEF SocketsInv
<1> QED
  BY <1>1 DEF Sound

LEMMA SocketsStepInv ==
    ASSUME SocketsInv, [SocketsNext]_socketVars
    PROVE  SocketsInv'
<1>t. SocketsTypes
  BY DEF SocketsInv
<1>n. NoSocket \in Socket /\ NoListener \in Listener /\ Stdin \in 0 .. MaxOpened /\ -1 \notin Fds
  BY SocketsBounds DEF NoSocket, NoListener, Socket, Listener, Stdin, Fds
<1>o. Unused # {} => NextFd \in Fds /\ table[NextFd] = Free
  <2>1. Unused \in SUBSET Fds /\ \A k \in Unused : table[k] = Free
    BY DEF Unused
  <2> QED
    BY <2>1, NextIsFree DEF NextFd
<1>p. \A m \in Fds : Opens(m, table) /\ opened < MaxOpened =>
         table' \in [Fds -> 0 .. MaxOpened \union {Free}] /\ opened' \in 0 .. MaxOpened
         /\ opened + 1 \in 0 .. MaxOpened
  BY <1>t, SocketsBounds DEF Opens, SocketsTypes
<1>c. \A m \in Fds \union {-1} : Closed(table, m) \in [Fds -> 0 .. MaxOpened \union {Free}]
  BY <1>t DEF Closed, SocketsTypes
<1>l. \A o \in Objects : Overwritten(o) \subseteq 0 .. MaxOpened
  BY <1>t DEF SocketsTypes, Socket, Overwritten
<1>1. CASE UNCHANGED socketVars
  <2>1. SocketsTypes'
    BY <1>t, <1>1 DEF socketVars, SocketsTypes
  <2>2. (\A n \in Fds \ twins' : Sound(n)') /\ Counted'
    BY <1>1, Stands, CodecsStay DEF socketVars
  <2> QED
    BY <2>1, <2>2 DEF SocketsInv
<1>2. ASSUME NEW o \in Objects, tcpsocket(o)
      PROVE  SocketsInv'
  <2>1. PICK c \in {NoCodec} \union {d \in Codecs : codecRefs[d] = 0} :
          /\ sockets' = [sockets EXCEPT ![o] = [NoSocket EXCEPT !.exists = TRUE, !.codec = c]]
          /\ codecRefs' = IF c = NoCodec THEN codecRefs ELSE [codecRefs EXCEPT ![c] = 1]
    BY <1>2 DEF tcpsocket
  <2>2. UNCHANGED <<table, opened, listener, waiting, selected, twins, leaked>> /\ sockets[o] = NoSocket
    BY <1>t, <1>2 DEF tcpsocket, SocketsTypes
  <2> DEFINE made == [NoSocket EXCEPT !.exists = TRUE, !.codec = c]
  <2>3. /\ sockets' \in [Objects -> Socket] /\ sockets'[o] = made
        /\ made.exists /\ made.codec = c /\ made.filno = NoSocket.filno /\ made.hold = NoSocket.hold
        /\ \A p \in Objects : p # o => sockets'[p] = sockets[p]
    <3>1. /\ made \in Socket /\ made.exists /\ made.codec = c
          /\ made.filno = NoSocket.filno /\ made.hold = NoSocket.hold
      BY <1>n, <2>1 DEF Socket
    <3> HIDE DEF made
    <3>2. sockets' = [sockets EXCEPT ![o] = made]
      BY <2>1 DEF made
    <3> QED
      BY <1>t, <3>1, <3>2 DEF SocketsTypes
  <2> HIDE DEF made
  <2>4. Counted' /\ codecRefs' \in [Codecs -> Int]
    <3>1. ASSUME NEW d \in Codecs
          PROVE  /\ HasCodec(d)' = IF d = c THEN HasCodec(d) \union {o} ELSE HasCodec(d)
                 /\ o \notin HasCodec(d) /\ HasCodec(d) \in SUBSET Objects
                 /\ codecRefs[d] = Cardinality(HasCodec(d))
      BY <1>t, <2>1, <2>2, <2>3, NothingAssumption
         DEF HasCodec, NoSocket, SocketsTypes, SocketsInv, Counted
    <3>2. codecRefs \in [Codecs -> Int]
      BY <1>t DEF SocketsTypes
    <3>3. codecRefs' \in [Codecs -> Int]
      BY <2>1, <3>2
    <3>4. ASSUME NEW d \in Codecs PROVE codecRefs'[d] = Cardinality(HasCodec(d)')
      <4>1. CASE d = c
        <5>1. codecRefs[d] = 0 /\ codecRefs'[d] = 1
          BY <2>1, <3>2, <4>1, NothingAssumption
        <5>2. HasCodec(d)' = HasCodec(d) \union {o} /\ o \in Objects \ HasCodec(d)
          BY <3>1, <4>1
        <5>3. Cardinality(HasCodec(d) \union {o}) = Cardinality(HasCodec(d)) + 1
          BY <3>1, <5>2, CodecSets
        <5> QED
          BY <3>1, <5>1, <5>2, <5>3
      <4>2. CASE d # c
        <5>1. codecRefs'[d] = codecRefs[d] /\ HasCodec(d)' = HasCodec(d)
          BY <2>1, <3>1, <3>2, <4>2
        <5> QED
          BY <3>1, <5>1
      <4> QED
        BY <4>1, <4>2
    <3> QED
      BY <3>3, <3>4 DEF Counted
  <2>5. \A n \in Fds \ twins' : Sound(n)'
    <3>1. \A p \in Objects : sockets'[p].filno = sockets[p].filno /\ sockets'[p].hold = sockets[p].hold
      BY <1>t, <2>1, <2>2, <2>3 DEF NoSocket, SocketsTypes
    <3> QED
      BY <2>2, <3>1, Stands
  <2>6. SocketsTypes'
    BY <1>t, <2>1, <2>2, <2>3, <2>4 DEF SocketsTypes
  <2> QED
    BY <2>4, <2>5, <2>6 DEF SocketsInv
<1>3. ASSUME NEW o \in Objects, destroy(o)
      PROVE  SocketsInv'
  <2>1. /\ o \notin selected /\ table' = Closed(table, sockets[o].filno)
        /\ sockets' = [sockets EXCEPT ![o] = NoSocket] /\ codecRefs' = Unref(codecRefs, o)
        /\ UNCHANGED <<opened, listener, waiting, selected, twins, leaked>>
    BY <1>3 DEF destroy
  <2>2. /\ sockets' \in [Objects -> Socket] /\ sockets'[o] = NoSocket
        /\ \A p \in Objects : p # o => sockets'[p] = sockets[p]
    BY <1>t, <1>n, <2>1 DEF SocketsTypes
  <2>3. Counted' /\ codecRefs' \in [Codecs -> Int]
    BY <2>1, <2>2, CodecLeft DEF NoSocket
  <2>4. \A n \in Fds \ twins' : Sound(n)'
    BY <2>1, <2>2, Closes DEF NoSocket
  <2>5. SocketsTypes'
    BY <1>t, <1>c, <2>1, <2>2, <2>3 DEF SocketsTypes, Socket
  <2> QED
    BY <2>3, <2>4, <2>5 DEF SocketsInv
<1>4. ASSUME NEW o \in Objects, close(o)
      PROVE  SocketsInv'
  <2>1. /\ sockets[o].exists /\ table' = Closed(table, sockets[o].filno)
        /\ sockets' = [sockets EXCEPT ![o].filno = -1, ![o].hold = Stdin]
        /\ UNCHANGED <<opened, codecRefs, listener, waiting, selected, twins, leaked>>
    BY <1>4 DEF close
  <2>2. /\ sockets' \in [Objects -> Socket] /\ sockets'[o].filno = -1 /\ sockets'[o].exists
        /\ sockets'[o].codec = sockets[o].codec
        /\ \A p \in Objects : p # o => sockets'[p] = sockets[p]
    BY <1>t, <1>n, <2>1 DEF SocketsTypes, Socket
  <2>3. Counted' /\ codecRefs' \in [Codecs -> Int]
    BY <2>1, <2>2, CodecsStay
  <2>4. \A n \in Fds \ twins' : Sound(n)'
    BY <2>1, <2>2, Closes
  <2>5. SocketsTypes'
    BY <1>t, <1>c, <2>1, <2>2, <2>3 DEF SocketsTypes, Socket
  <2> QED
    BY <2>3, <2>4, <2>5 DEF SocketsInv
\* What takes a new descriptor, or loses its own, and keeps its codec.
<1>5. ASSUME NEW o \in Objects, sockets[o].exists, leaked' = leaked \union Overwritten(o),
             \/ Unused # {} /\ opened < MaxOpened /\ Connected(o)
             \/ /\ sockets' = [sockets EXCEPT ![o].filno = -1, ![o].hold = Stdin]
                /\ UNCHANGED <<table, opened, twins>>,
             UNCHANGED <<codecRefs, listener, waiting, selected>>
      PROVE  SocketsInv'
  <2>1. /\ sockets' \in [Objects -> Socket] /\ sockets'[o].exists
        /\ sockets'[o].codec = sockets[o].codec
        /\ \A p \in Objects : p # o => sockets'[p] = sockets[p]
    BY <1>t, <1>n, <1>o, <1>p, <1>5 DEF SocketsTypes, Socket, Connected
  <2>2. \/ sockets'[o].filno = -1 /\ table' = table
        \/ /\ Unused # {} /\ Opens(NextFd, table)
           /\ sockets'[o].filno = NextFd /\ sockets'[o].hold = opened + 1
    BY <1>t, <1>5 DEF SocketsTypes, Socket, Connected
  <2>3. twins' = twins
    BY <1>5 DEF Connected
  <2>4. \A n \in Fds \ twins' : Sound(n)'
    BY <1>5, <2>1, <2>2, <2>3, Takes
  <2>5. Counted' /\ codecRefs' \in [Codecs -> Int]
    BY <1>5, <2>1, CodecsStay
  <2>6. table' \in [Fds -> 0 .. MaxOpened \union {Free}] /\ opened' \in 0 .. MaxOpened
    BY <1>t, <1>o, <1>p, <1>5 DEF SocketsTypes, Connected
  <2>7. SocketsTypes'
    BY <1>t, <1>l, <1>5, <2>1, <2>3, <2>5, <2>6 DEF SocketsTypes
  <2> QED
    BY <2>4, <2>5, <2>7 DEF SocketsInv
<1>6. ASSUME NEW o \in Objects, uconnect(o) \/ noDescriptor(o)
      PROVE  SocketsInv'
  BY <1>5, <1>6 DEF uconnect, noDescriptor, Refused, CanOpen
<1>7. ASSUME NEW o \in Objects, tcpconnect(o)
      PROVE  SocketsInv'
  <2>1. CASE Connected(o) \/ Refused(o)
    <3>1. leaked' = leaked \union Overwritten(o)
      BY <1>7 DEF tcpconnect, Overwritten
    <3> QED
      BY <1>5, <1>7, <2>1, <3>1 DEF tcpconnect, Refused, CanOpen
  <2>2. CASE Unbound(o)
    <3>1. /\ sockets' = [sockets EXCEPT ![o].filno = NextFd] /\ twins' = twins \union {NextFd}
          /\ UNCHANGED <<table, opened, codecRefs, listener, waiting, selected, leaked>>
          /\ sockets[o].exists /\ sockets[o].filno \notin Fds /\ NextFd \in Fds
      BY <1>t, <1>n, <1>o, <1>7, <2>2 DEF tcpconnect, Unbound, Twin, CanOpen, IsOpen, Fds, SocketsTypes, Socket
    <3>2. /\ sockets' \in [Objects -> Socket] /\ sockets'[o].exists /\ sockets'[o].filno = NextFd
          /\ sockets'[o].codec = sockets[o].codec
          /\ \A p \in Objects : p # o => sockets'[p] = sockets[p]
      BY <1>t, <3>1 DEF SocketsTypes, Socket
    <3>3. Counted' /\ codecRefs' \in [Codecs -> Int]
      BY <3>1, <3>2, CodecsStay
    <3>4. \A n \in Fds \ twins' : Sound(n)'
      BY <3>1, <3>2, Stands
    <3>5. SocketsTypes'
      BY <1>t, <3>1, <3>2, <3>3 DEF SocketsTypes
    <3> QED
      BY <3>3, <3>4, <3>5 DEF SocketsInv
  <2> QED
    BY <1>7, <2>1, <2>2 DEF tcpconnect
<1>8. ASSUME NEW o \in Objects, NEW p \in Objects, derivePointer(o, p) \/ deriveReference(o, p)
      PROVE  SocketsInv'
  <2>1. /\ o # p /\ sockets[o].exists /\ sockets[p].exists /\ o \notin selected /\ p \notin selected
        /\ codecRefs' = Unref(codecRefs, o) /\ leaked' = leaked \union Overwritten(o)
        /\ UNCHANGED <<table, opened, listener, waiting, selected>>
    BY <1>8 DEF derivePointer, deriveReference, Given
  <2>2. /\ sockets' \in [Objects -> Socket] /\ sockets'[o] = sockets[p]
        /\ sockets'[p].codec = NoCodec
        /\ \A q \in Objects : q # o /\ q # p => sockets'[q] = sockets[q]
        /\ \/ sockets'[p] = NoSocket /\ twins' = twins
           \/ /\ sockets'[p].exists /\ sockets'[p].filno = sockets[p].filno
              /\ sockets'[p].hold = sockets[p].hold
              /\ twins' = twins \union ({sockets[p].filno} \intersect Fds)
    <3>1. CASE derivePointer(o, p)
      <4>1. sockets' = [sockets EXCEPT ![o] = sockets[p], ![p] = NoSocket] /\ twins' = twins
        BY <3>1 DEF derivePointer, Given
      <4> QED
        BY <1>t, <1>n, <2>1, <4>1 DEF SocketsTypes, NoSocket
    <3>2. CASE deriveReference(o, p)
      <4>1. sockets' = [sockets EXCEPT ![o] = sockets[p], ![p].codec = NoCodec]
            /\ twins' = twins \union ({sockets[p].filno} \intersect Fds)
        BY <3>2 DEF deriveReference, Twin
      <4> QED
        BY <1>t, <2>1, <4>1 DEF SocketsTypes, Socket
    <3> QED
      BY <1>8, <3>1, <3>2
  <2>3. Counted' /\ codecRefs' \in [Codecs -> Int]
    BY <2>1, <2>2, CodecGiven
  <2>4. ASSUME NEW n \in Fds \ twins' PROVE Sound(n)'
    <3>1. n \in Fds \ twins /\ Sound(n)
      BY <2>2 DEF SocketsInv
    <3>2. sockets[o].filno = n => table[n] \in leaked'
      BY <2>1, <3>1, SocketsBounds DEF Overwritten, IsOpen, Sound, Fds
    <3>3. sockets'[p].filno # n
      BY <1>n, <2>2, <3>1 DEF NoSocket
    <3>4. CASE sockets[p].filno = n
      BY <2>1, <2>2, <3>1, <3>3, <3>4 DEF Sound
    <3>5. CASE sockets[p].filno # n
      BY <2>1, <2>2, <3>1, <3>2, <3>3, <3>5 DEF Sound
    <3> QED
      BY <3>4, <3>5
  <2>5. twins' \subseteq Fds /\ leaked' \subseteq 0 .. MaxOpened
    BY <1>t, <1>l, <2>1, <2>2 DEF SocketsTypes
  <2>6. \A q \in Objects : ~ sockets'[q].exists => sockets'[q] = NoSocket /\ q \notin selected'
    BY <1>t, <2>1, <2>2 DEF SocketsTypes
  <2>7. SocketsTypes'
    BY <1>t, <2>1, <2>2, <2>3, <2>5, <2>6 DEF SocketsTypes
  <2> QED
    BY <2>3, <2>4, <2>7 DEF SocketsInv
\* The objects stand.
<1>s. ASSUME UNCHANGED <<sockets, codecRefs>> PROVE Counted' /\ codecRefs' \in [Codecs -> Int]
  BY <1>s, CodecsStay
<1>9. CASE tcplistener \/ peerConnects
  <2>1. /\ (listener'.listening <=> listener.listening)
        /\ listener.listening => listener' = listener
        /\ listener' \in Listener /\ waiting' \in BOOLEAN
        /\ ~ listener'.exists => ~ listener'.listening
        /\ UNCHANGED <<table, opened, sockets, codecRefs, selected, twins, leaked>>
    <3>1. CASE peerConnects
      BY <1>t, <3>1 DEF peerConnects, SocketsTypes
    <3>2. CASE tcplistener
      <4>1. listener' = [NoListener EXCEPT !.exists = TRUE] /\ ~ listener.listening
            /\ UNCHANGED <<table, opened, sockets, codecRefs, waiting, selected, twins, leaked>>
        BY <1>t, <3>2 DEF tcplistener, SocketsTypes
      <4>2. listener' \in Listener /\ listener'.exists /\ listener'.listening = NoListener.listening
        BY <1>n, <4>1 DEF Listener
      <4> QED
        BY <1>t, <4>1, <4>2 DEF NoListener, SocketsTypes
    <3> QED
      BY <1>9, <3>1, <3>2
  <2>2. \A n \in Fds \ twins' : Sound(n)'
    BY <2>1 DEF SocketsInv, Sound
  <2>3. SocketsTypes'
    BY <1>t, <2>1 DEF SocketsTypes
  <2> QED
    BY <1>s, <2>1, <2>2, <2>3 DEF SocketsInv
<1>10. CASE listento
  <2> DEFINE old == IF listener.listening THEN Closed(table, listener.sock) ELSE table
             unused == {n \in Fds : old[n] = Free}
             k == CHOOSE k \in unused : \A m \in unused : k <= m
  <2>1. /\ listener.exists /\ opened < MaxOpened /\ waiting' = FALSE
        /\ UNCHANGED <<sockets, codecRefs, selected, twins, leaked>>
        /\ \/ /\ table' = old /\ opened' = opened
              /\ \/ listener' = [listener EXCEPT !.listening = FALSE, !.sock = -1, !.hold = Stdin]
                 \/ unused # {} /\ listener' = [listener EXCEPT !.listening = FALSE, !.sock = k, !.hold = Stdin]
           \/ /\ unused # {} /\ Opens(k, old)
              /\ listener' = [listener EXCEPT !.listening = TRUE, !.sock = k, !.hold = opened + 1]
    BY <1>10, Zenon DEF listento
  <2>2. unused # {} => k \in Fds /\ old[k] = Free
    <3>1. unused \in SUBSET Fds /\ \A m \in unused : old[m] = Free
      OBVIOUS
    <3> HIDE DEF unused
    <3>2. unused # {} => k \in unused
      BY <3>1, NextIsFree
    <3> QED
      BY <3>1, <3>2
  <2>3. old \in [Fds -> 0 .. MaxOpened \union {Free}]
    BY <1>t, <1>c DEF SocketsTypes, Listener
  \* Of a number in no two hands the old table says what it said, without the listener.
  <2>4. ASSUME NEW n \in Fds \ twins
        PROVE  /\ \A o \in Objects : sockets[o].filno = n => old[n] = sockets[o].hold
               /\ \A o, p \in Objects : sockets[o].filno = n /\ sockets[p].filno = n => o = p
               /\ old[n] \notin {Free, Stdin} \union leaked => \E o \in Objects : sockets[o].filno = n
               /\ old[n] = Free => \A o \in Objects : sockets[o].filno # n
    <3>1. Sound(n)
      BY DEF SocketsInv
    <3>2. \A o \in Objects : sockets[o].hold \in 0 .. MaxOpened
      BY <1>t DEF SocketsTypes, Socket
    <3>3. CASE listener.listening /\ listener.sock = n
      <4>1. old[n] = Free
        BY <1>t, <3>3 DEF Closed, SocketsTypes
      <4> QED
        BY <3>1, <3>3, <4>1 DEF Sound
    <3>4. CASE ~ (listener.listening /\ listener.sock = n)
      <4>1. old[n] = table[n]
        BY <1>t, <3>4 DEF Closed, SocketsTypes
      <4> QED
        BY <3>1, <3>2, <3>4, <4>1, NothingAssumption DEF Sound
    <3> QED
      BY <3>3, <3>4
  <2> HIDE DEF old, unused, k
  <2>5. /\ table' \in [Fds -> 0 .. MaxOpened \union {Free}] /\ opened' \in 0 .. MaxOpened
        /\ listener' \in Listener /\ listener'.exists
    <3>1. opened \in 0 .. MaxOpened /\ listener \in Listener /\ opened + 1 \in 0 .. MaxOpened
      BY <1>t, <2>1, SocketsBounds DEF SocketsTypes
    <3>2. table' \in [Fds -> 0 .. MaxOpened \union {Free}] /\ opened' \in 0 .. MaxOpened
      BY <2>1, <2>2, <2>3, <3>1 DEF Opens
    <3>3. ASSUME NEW m \in Fds \union {-1}, NEW h \in 0 .. MaxOpened, NEW b \in BOOLEAN,
                 listener' = [listener EXCEPT !.listening = b, !.sock = m, !.hold = h]
          PROVE  listener' \in Listener /\ listener'.exists
      BY <2>1, <3>1, <3>3 DEF Listener
    <3> QED
      BY <1>n, <2>1, <2>2, <3>1, <3>2, <3>3
  <2>6. ASSUME NEW n \in Fds \ twins' PROVE Sound(n)'
    <3>1. n \in Fds \ twins
      BY <2>1
    <3>2. CASE table' = old /\ ~ listener'.listening
      BY <2>1, <2>4, <3>1, <3>2 DEF Sound
    <3>3. CASE unused # {} /\ Opens(k, old)
               /\ listener' = [listener EXCEPT !.listening = TRUE, !.sock = k, !.hold = opened + 1]
      <4>1. listener'.listening /\ listener'.sock = k /\ listener'.hold = opened + 1
        BY <1>t, <3>3 DEF SocketsTypes, Listener
      <4>2. table'[n] = IF n = k THEN opened + 1 ELSE old[n]
        BY <2>2, <2>3, <3>1, <3>3 DEF Opens
      <4> QED
        BY <2>1, <2>2, <2>4, <3>1, <3>3, <4>1, <4>2 DEF Sound
    <3>4. listener' = [listener EXCEPT !.listening = FALSE, !.sock = -1, !.hold = Stdin]
          \/ listener' = [listener EXCEPT !.listening = FALSE, !.sock = k, !.hold = Stdin]
          => ~ listener'.listening
      BY <1>t DEF SocketsTypes, Listener
    <3> QED
      BY <2>1, <3>2, <3>3, <3>4
  <2>7. SocketsTypes'
    BY <1>t, <2>1, <2>5, <1>s DEF SocketsTypes
  <2> QED
    BY <1>s, <2>1, <2>6, <2>7 DEF SocketsInv
<1>11. CASE destroyListener
  <2>1. /\ table' = Closed(table, listener.sock) /\ listener' = NoListener /\ waiting' = FALSE
        /\ twins' = twins \union (IF listener.listening THEN {} ELSE {listener.sock} \intersect Fds)
        /\ UNCHANGED <<opened, sockets, codecRefs, selected, leaked>>
    BY <1>11 DEF destroyListener, Twin
  <2>2. table' \in [Fds -> 0 .. MaxOpened \union {Free}] /\ twins' \subseteq Fds /\ twins \subseteq twins'
    BY <1>t, <1>c, <2>1 DEF SocketsTypes, Listener
  <2>3. ASSUME NEW n \in Fds \ twins' PROVE Sound(n)'
    <3>1. n \in Fds \ twins /\ Sound(n)
      BY <2>2 DEF SocketsInv
    <3>2. ~ listener'.listening
      BY <2>1 DEF NoListener
    <3>3. CASE listener.sock = n
      <4>1. listener.listening /\ table'[n] = Free
        BY <1>t, <2>1, <3>1, <3>3 DEF Closed, SocketsTypes
      <4> QED
        BY <2>1, <3>1, <3>2, <3>3, <4>1 DEF Sound
    <3>4. CASE listener.sock # n
      <4>1. table'[n] = table[n]
        BY <1>t, <2>1, <3>4 DEF Closed, SocketsTypes
      <4> QED
        BY <2>1, <3>1, <3>2, <3>4, <4>1 DEF Sound
    <3> QED
      BY <3>3, <3>4
  <2>4. SocketsTypes'
    BY <1>t, <1>n, <1>s, <2>1, <2>2 DEF SocketsTypes, NoListener
  <2> QED
    BY <1>s, <2>1, <2>3, <2>4 DEF SocketsInv
<1>12. ASSUME NEW o \in Objects, trySelect(o)
       PROVE  SocketsInv'
  <2>1. /\ sockets[o].exists /\ selected' = selected \union {o}
        /\ UNCHANGED <<table, opened, sockets, codecRefs, listener, waiting, twins, leaked>>
    BY <1>12 DEF trySelect
  <2>2. \A n \in Fds \ twins' : Sound(n)'
    BY <2>1, Stands
  <2>3. SocketsTypes'
    BY <1>t, <2>1 DEF SocketsTypes
  <2> QED
    BY <1>s, <2>1, <2>2, <2>3 DEF SocketsInv
<1>13. ASSUME NEW o \in Objects, tryAccept(o)
       PROVE  SocketsInv'
  <2>1. /\ o \in selected /\ sockets[o].exists /\ selected' = selected \ {o}
        /\ UNCHANGED <<listener, twins>>
    BY <1>t, <1>13 DEF tryAccept, SocketsTypes
  <2>2. CASE UNCHANGED <<table, opened, sockets, codecRefs, leaked, waiting>>
    <3>1. \A n \in Fds \ twins' : Sound(n)'
      BY <2>1, <2>2, Stands
    <3>2. SocketsTypes'
      BY <1>t, <2>1, <2>2 DEF SocketsTypes
    <3> QED
      BY <1>s, <2>2, <3>1, <3>2 DEF SocketsInv
  <2>3. CASE waiting /\ Unused # {}
    <3>1. /\ opened < MaxOpened /\ Opens(NextFd, table) /\ waiting' = FALSE
          /\ sockets' = [sockets EXCEPT ![o].filno = NextFd, ![o].hold = opened + 1, ![o].codec = NoCodec]
          /\ codecRefs' = Unref(codecRefs, o) /\ leaked' = leaked \union Overwritten(o)
      BY <1>13, <2>3 DEF tryAccept
    <3>2. /\ sockets' \in [Objects -> Socket] /\ sockets'[o].exists
          /\ sockets'[o].codec = NoCodec /\ sockets'[o].filno = NextFd /\ sockets'[o].hold = opened + 1
          /\ \A p \in Objects : p # o => sockets'[p] = sockets[p]
      BY <1>t, <1>o, <1>p, <2>1, <2>3, <3>1 DEF SocketsTypes, Socket
    <3>3. \A n \in Fds \ twins' : Sound(n)'
      BY <2>1, <2>3, <3>1, <3>2, Takes
    <3>4. Counted' /\ codecRefs' \in [Codecs -> Int]
      BY <3>1, <3>2, CodecLeft
    <3>5. SocketsTypes'
      BY <1>t, <1>l, <1>o, <1>p, <2>1, <2>3, <3>1, <3>2, <3>4 DEF SocketsTypes
    <3> QED
      BY <3>3, <3>4, <3>5 DEF SocketsInv
  <2> QED
    BY <1>13, <2>2, <2>3 DEF tryAccept
<1> QED
  BY <1>1, <1>2, <1>3, <1>4, <1>6, <1>7, <1>8, <1>9, <1>10, <1>11, <1>12, <1>13 DEF SocketsNext

LEMMA SocketsInitInv == SocketsInit => SocketsInv
<1> SUFFICES ASSUME SocketsInit PROVE SocketsInv
  OBVIOUS
<1>1. \A o \in Objects : sockets[o] = NoSocket
  BY DEF SocketsInit
<1>2. SocketsTypes
  <2>1. NoSocket \in Socket /\ NoListener \in Listener /\ Stdin \in 0 .. MaxOpened
    BY SocketsBounds DEF NoSocket, NoListener, Socket, Listener, Stdin, Fds
  <2>2. ~ NoListener.listening /\ 0 \in 0 .. MaxOpened
    BY SocketsBounds DEF NoListener
  <2>3. sockets \in [Objects -> Socket] /\ listener \in Listener
    BY <2>1 DEF SocketsInit
  <2>4. table \in [Fds -> 0 .. MaxOpened \union {Free}] /\ codecRefs \in [Codecs -> Int]
    BY <2>1 DEF SocketsInit
  <2> QED
    BY <1>1, <2>2, <2>3, <2>4 DEF SocketsInit, SocketsTypes
<1>3. \A n \in Fds : Sound(n)
  BY <1>1, SocketsBounds DEF SocketsInit, Sound, NoSocket, NoListener, Stdin, Fds
<1>4. Counted
  <2>1. \A c \in Codecs : HasCodec(c) = {}
    BY <1>1, NothingAssumption DEF HasCodec, NoSocket
  <2> QED
    BY <2>1, FS_EmptySet DEF SocketsInit, Counted
<1> QED
  BY <1>2, <1>3, <1>4 DEF SocketsInv

LEMMA SocketsInvMeans == SocketsInv => SocketsTypeOK /\ DescriptorsHeldOnce
<1> SUFFICES ASSUME SocketsInv PROVE SocketsTypeOK /\ DescriptorsHeldOnce
  OBVIOUS
<1>1. SocketsTypes
  BY DEF SocketsInv
<1>2. SocketsTypeOK
  BY <1>1 DEF SocketsTypes, SocketsTypeOK, Socket, Listener
<1>3. ASSUME NEW n \in Fds \ twins
      PROVE  /\ \A s \in HeldBy(n) : table[n] = s
             /\ \A o, p \in Objects : sockets[o].filno = n /\ sockets[p].filno = n => o = p
             /\ \A o \in Objects : sockets[o].filno = n => ~ (listener.listening /\ listener.sock = n)
             /\ table[n] \notin {Free, Stdin} \union leaked => HeldBy(n) # {}
  <2>1. Sound(n)
    BY DEF SocketsInv
  <2>2. \A o \in Objects : sockets[o].filno = n => sockets[o].exists
    BY <1>1, SocketsBounds DEF SocketsTypes, NoSocket, Fds
  <2> QED
    BY <2>1, <2>2 DEF Sound, HeldBy
<1>4. \A c \in Codecs : codecRefs[c] = Cardinality({o \in Objects : sockets[o].codec = c})
  BY DEF SocketsInv, Counted, HasCodec
<1> QED
  BY <1>2, <1>3, <1>4 DEF DescriptorsHeldOnce

LEMMA SocketsInvariance == SocketsSpec => []SocketsInv
<1>1. SocketsInv /\ [SocketsNext]_socketVars => SocketsInv'
  BY SocketsStepInv
<1> QED
  BY <1>1, SocketsInitInv, PTL DEF SocketsSpec

\* The objects, their descriptors and the table they are in keep their types.
THEOREM SocketsTypeCorrect == SocketsSpec => []SocketsTypeOK
BY SocketsInvariance, SocketsInvMeans, PTL

\* A number gets into two hands in three ways and no other: a connect whose local
\* address cannot be bound leaves it in the object, a derive by reference leaves it in
\* the source, and a listener that does not listen closes what it has all the same.
TwinsAreFaults ==
    /\ twins \subseteq twins'
    /\ \A n \in twins' \ twins :
          \/ \E o \in Objects : Unbound(o) /\ n = NextFd
          \/ \E o, p \in Objects : deriveReference(o, p) /\ n = sockets[p].filno
          \/ destroyListener /\ ~ listener.listening /\ n = listener.sock

LEMMA TwinsStep == [SocketsNext]_socketVars => TwinsAreFaults
<1> SUFFICES ASSUME [SocketsNext]_socketVars PROVE TwinsAreFaults
  OBVIOUS
<1>1. CASE twins' = twins
  BY <1>1 DEF TwinsAreFaults
<1>2. ASSUME NEW o \in Objects, tcpconnect(o), twins' # twins PROVE TwinsAreFaults
  <2>1. Unbound(o)
    BY <1>2 DEF tcpconnect, Connected, Refused
  <2>2. twins' = twins \union {NextFd}
    BY <2>1 DEF Unbound, Twin
  <2> QED
    BY <2>1, <2>2 DEF TwinsAreFaults
<1>3. ASSUME NEW o \in Objects, NEW p \in Objects, deriveReference(o, p) PROVE TwinsAreFaults
  <2>1. twins' = twins \union ({sockets[p].filno} \intersect Fds)
    BY <1>3 DEF deriveReference, Twin
  <2> QED
    BY <1>3, <2>1 DEF TwinsAreFaults
<1>4. ASSUME destroyListener PROVE TwinsAreFaults
  <2>1. twins' = twins \union (IF listener.listening THEN {} ELSE {listener.sock} \intersect Fds)
    BY <1>4 DEF destroyListener, Twin
  <2> QED
    BY <1>4, <2>1 DEF TwinsAreFaults
<1> QED
  BY <1>1, <1>2, <1>3, <1>4
     DEF SocketsNext, socketVars, tcpsocket, destroy, close, uconnect, Connected, Refused, noDescriptor,
         derivePointer, tcplistener, listento, peerConnects, trySelect, tryAccept

\* However many objects a process has for its sockets, and however it opens, closes,
\* assigns, derives and destroys them: of the numbers that are not in two hands, no two
\* objects have one, none has one that is not open or was opened since for another,
\* and no codec outlives its last object; and a number gets into two hands only by a
\* failed bind, a derive by reference or the end of a listener that does not listen.
\* Nothing is said of a number that is in two hands.
THEOREM DescriptorsAreHeldOnce == SocketsSpec => []DescriptorsHeldOnce /\ [][TwinsAreFaults]_socketVars
<1>1. SocketsSpec => []DescriptorsHeldOnce
  BY SocketsInvariance, SocketsInvMeans, PTL
<1>2. SocketsSpec => [][TwinsAreFaults]_socketVars
  BY TwinsStep, PTL DEF SocketsSpec
<1> QED
  BY <1>1, <1>2

(***************************************************************************)
(* Groups of threads                                                       *)
(***************************************************************************)
Size == Cardinality(Workers)
Working == {"start", "run", "finish"}
Living == {a \in Addresses : object[a] # None}

GroupTypes ==
    /\ object \in [Addresses -> Workers \union {None}]
    /\ finished \subseteq Addresses
    /\ array \in [Slots -> Addresses \union {None}] /\ cnt \in Slots
    /\ wpc \in [Workers -> Working \union {"none", "raise", "unlist", "done"}]
    /\ self \in [Workers -> Addresses \union {None}]
    /\ opc \in [Owners -> {"idle", "scan", "delete", "send"}]
    /\ idx \in [Owners -> Nat]
    /\ victim \in [Owners -> Addresses \union {None}]

\* An object and the worker it was made for know each other for as long as both are there.
Linked ==
    /\ \A a \in Addresses : object[a] # None =>
          self[object[a]] = a /\ wpc[object[a]] # "none"
          /\ (a \in finished => wpc[object[a]] \notin Working)
    /\ \A w \in Workers : wpc[w] \in Working => self[w] \in Addresses /\ object[self[w]] = w

\* The array up to cnt.
Exact ==
    /\ \A i \in Slots : i < cnt => array[i] \in Living
    /\ \A a \in Living : \E i \in Slots : i < cnt /\ array[i] = a
    /\ \A i, j \in Slots : i < cnt /\ j < cnt /\ array[i] = array[j] => i = j

\* Where a method of the one owner is.
Steady == \A o \in Owners :
    /\ opc[o] \in {"delete", "send"} => idx[o] < cnt
    /\ opc[o] = "delete" => array[idx[o]] \in finished /\ victim[o] \in {None, array[idx[o]]}
    /\ opc[o] # "delete" => victim[o] = None

GroupInv == GroupTypes /\ Linked /\ Exact /\ Steady /\ "owner" \notin stray

LEMMA SlotsAre == Size \in Nat /\ Slots = 0 .. Size
  BY WorkersAssumption, FS_CardinalityType DEF Size, Slots

\* A worker that was not started leaves a slot free.
LEMMA RoomFor ==
    ASSUME GroupInv, NEW w \in Workers, wpc[w] = "none"
    PROVE  cnt < Size
<1> DEFINE T == Workers \ {w}
           S == 1 .. cnt
           f == [i \in S |-> object[array[i - 1]]]
<1>1. IsFiniteSet(T) /\ Cardinality(T) = Size - 1
  BY WorkersAssumption, FS_RemoveElement DEF Size
<1>2. cnt \in Nat /\ cnt <= Size
  BY SlotsAre DEF GroupInv, GroupTypes
<1>3. \A i \in S : i - 1 \in Slots /\ i - 1 < cnt
  BY <1>2, SlotsAre
<1>4. \A i \in S : f[i] \in T
  BY <1>3 DEF GroupInv, GroupTypes, Exact, Linked, Living
<1>5. ASSUME NEW i \in S, NEW j \in S, f[i] = f[j] PROVE i = j
  <2>1. array[i - 1] = array[j - 1]
    BY <1>3, <1>5 DEF GroupInv, GroupTypes, Exact, Linked, Living
  <2> QED
    BY <1>2, <1>3, <2>1 DEF GroupInv, Exact
<1>6. f \in Injection(S, T)
  BY <1>4, <1>5 DEF Injection, IsInjective
<1>7. Cardinality(S) <= Cardinality(T)
  <2> HIDE DEF f, T, S
  <2> QED
    BY <1>1, <1>6, FS_Injection
<1>8. Cardinality(S) = cnt
  BY <1>2, FS_Interval
<1> QED
  BY <1>1, <1>2, <1>7, <1>8, SlotsAre

LEMMA GroupStepInv ==
    ASSUME \A o, p \in Owners : o = p, GroupInv, [GroupNext]_groupVars
    PROVE  GroupInv'
<1>t. GroupTypes
  BY DEF GroupInv
<1>1. CASE UNCHANGED groupVars
  BY <1>1 DEF groupVars, heap, group, workers, owner, GroupInv, GroupTypes, Linked, Exact, Living, Steady
<1>2. ASSUME NEW o \in Owners, new(o) PROVE GroupInv'
  <2>1. PICK w \in Workers, a \in Addresses :
          /\ wpc[w] = "none" /\ object[a] = None
          /\ object' = [object EXCEPT ![a] = w]
          /\ finished' = finished \ {a}
          /\ array' = [array EXCEPT ![cnt] = a] /\ cnt' = cnt + 1
          /\ wpc' = [wpc EXCEPT ![w] = "start"] /\ self' = [self EXCEPT ![w] = a]
    BY <1>2 DEF new, add, spawn
  <2>2. /\ UNCHANGED <<listed, opc, idx, victim, sending, stray>> /\ opc[o] = "idle"
    BY <1>2 DEF new, owner
  <2>3. cnt < Size /\ cnt \in Nat /\ cnt + 1 \in Slots
    BY <1>t, <2>1, RoomFor, SlotsAre DEF GroupTypes
  <2>4. /\ object'[a] = w /\ \A b \in Addresses : b # a => object'[b] = object[b]
        /\ array'[cnt] = a /\ \A i \in Slots : i # cnt => array'[i] = array[i]
        /\ wpc'[w] = "start" /\ self'[w] = a
        /\ \A v \in Workers : v # w => wpc'[v] = wpc[v] /\ self'[v] = self[v]
    BY <1>t, <2>1, <2>3 DEF GroupTypes
  <2>5. GroupTypes'
    BY <1>t, <2>1, <2>2, <2>3 DEF GroupTypes, Working
  <2>6. Linked'
    <3>1. ASSUME NEW b \in Addresses, b # a, object[b] # None PROVE object[b] # w /\ object[b] \in Workers
      BY <1>t, <2>1, <3>1 DEF GroupInv, GroupTypes, Linked
    <3>2. ASSUME NEW v \in Workers, v # w, wpc[v] \in Working PROVE self[v] # a
      BY <2>1, <3>2, NoneAssumption DEF GroupInv, Linked
    <3> QED
      BY <1>t, <2>1, <2>4, <3>1, <3>2, NoneAssumption DEF GroupInv, Linked
  <2>7. Living' = Living \union {a} /\ a \notin Living
    BY <2>1, <2>4, NoneAssumption DEF Living
  <2>8. Exact'
    <3>1. ASSUME NEW i \in Slots PROVE i < cnt' <=> i < cnt \/ i = cnt
      BY <2>1, <2>3, SlotsAre
    <3>2. cnt \in Slots
      BY <1>t DEF GroupTypes
    <3> QED
      BY <2>3, <2>4, <2>7, <3>1, <3>2 DEF GroupInv, Exact
  <2>9. Steady'
    BY <1>t, <2>2 DEF GroupInv, Steady, GroupTypes
  <2> QED
    BY <2>2, <2>5, <2>6, <2>8, <2>9 DEF GroupInv
<1>3. ASSUME NEW w \in Workers, Dorun(w) \/ runReturns(w) PROVE GroupInv'
  <2>1. /\ wpc[w] # "none" /\ UNCHANGED <<object, array, cnt, self, opc, idx, victim, sending>>
        /\ \/ wpc' = [wpc EXCEPT ![w] = "run"] /\ wpc[w] \in Working /\ finished' = finished
           \/ wpc' = [wpc EXCEPT ![w] = "finish"] /\ wpc[w] \in Working /\ finished' = finished
           \/ /\ wpc' = [wpc EXCEPT ![w] = "raise"] /\ wpc[w] = "finish"
              /\ finished' = finished \union {self[w]}
           \/ wpc' = [wpc EXCEPT ![w] = "unlist"] /\ finished' = finished
           \/ wpc' = [wpc EXCEPT ![w] = "done"] /\ finished' = finished
        /\ "owner" \notin stray'
    BY <1>3 DEF Dorun, list, finish, raise, unlist, runReturns, Reach, Touch, heap, group, owner,
                Working, GroupInv
  <2>2. wpc[w] \in Working => self[w] \in Addresses /\ object[self[w]] = w
    BY DEF GroupInv, Linked
  <2>3. GroupTypes'
    BY <1>t, <2>1, <2>2 DEF GroupTypes, Working
  <2>4. finished \subseteq finished'
    BY <2>1
  <2>5. Exact' /\ Steady'
    BY <2>1, <2>4 DEF GroupInv, Exact, Living, Steady
  <2>6. Linked'
    BY <1>t, <2>1, <2>2, NoneAssumption DEF GroupInv, GroupTypes, Linked, Working
  <2> QED
    BY <2>1, <2>3, <2>5, <2>6 DEF GroupInv
\* What leaves the objects, the array and the workers as they are.
<1>4. ASSUME NEW o \in Owners, UNCHANGED <<heap, group, workers>>, GroupTypes', Steady',
             "owner" \notin stray'
      PROVE  GroupInv'
  BY <1>4 DEF heap, group, workers, GroupInv, Linked, Exact, Living
<1>5. ASSUME NEW o \in Owners, gc(o) \/ broadcastevent(o) \/ scanPast(o) \/ scanFound(o) \/ scanEnd(o)
      PROVE  GroupInv'
  <2>1. /\ UNCHANGED <<heap, group, workers, victim, stray>>
        /\ opc[o] \in {"idle", "scan"}
        /\ \/ Goto(o, "scan", 0) \/ Goto(o, "scan", idx[o] + 1) \/ Goto(o, "idle", 0)
           \/ Goto(o, "delete", idx[o]) /\ idx[o] < cnt /\ array[idx[o]] \in finished
           \/ Goto(o, "send", cnt - 1) /\ cnt > 0
    BY <1>5 DEF gc, broadcastevent, Scan, scanPast, scanFound, scanEnd, sendFrom
  <2>2. cnt \in Nat /\ (cnt > 0 => cnt - 1 \in Nat /\ cnt - 1 < cnt) /\ idx[o] \in Nat
    BY <1>t, SlotsAre DEF GroupTypes
  <2>3. GroupTypes'
    BY <1>t, <2>1, <2>2 DEF GroupTypes, Goto, heap, group, workers
  <2>4. Steady'
    BY <1>t, <2>1, <2>2 DEF GroupInv, GroupTypes, Steady, Goto, heap, group, workers
  <2> QED
    BY <1>4, <2>1, <2>3, <2>4 DEF GroupInv
<1>6. ASSUME NEW o \in Owners, deleteBegins(o) \/ sendevent(o) PROVE GroupInv'
  <2>1. idx[o] < cnt /\ idx[o] \in Slots /\ array[idx[o]] \in Living
    BY <1>t, <1>6, SlotsAre DEF deleteBegins, sendevent, GroupInv, GroupTypes, Steady, Exact
  <2>2. "owner" \notin stray'
    BY <1>6, <2>1 DEF deleteBegins, sendevent, Touch, Alive, Living, GroupInv
  <2>3. CASE deleteBegins(o)
    BY <1>4, <1>t, <2>1, <2>2, <2>3
       DEF deleteBegins, GroupInv, GroupTypes, Steady, Living, heap, group, workers
  <2>4. CASE sendevent(o)
    <3>1. /\ UNCHANGED <<heap, group, workers, victim>> /\ opc[o] = "send"
          /\ Goto(o, "idle", 0) \/ (Goto(o, "send", idx[o] - 1) /\ idx[o] # 0)
      BY <2>4 DEF sendevent
    <3>2. idx[o] # 0 => idx[o] - 1 \in Nat /\ idx[o] - 1 < cnt
      BY <1>t, <2>1, SlotsAre DEF GroupTypes
    <3>3. GroupTypes' /\ Steady'
      BY <1>t, <3>1, <3>2 DEF GroupInv, GroupTypes, Steady, Goto, heap, group, workers
    <3> QED
      BY <1>4, <2>2, <3>1, <3>3
  <2> QED
    BY <1>6, <2>3, <2>4
<1>7. ASSUME NEW o \in Owners, at(o) PROVE GroupInv'
  <2>1. UNCHANGED <<heap, group, workers, owner>> /\ "owner" \notin stray'
    BY <1>7 DEF at, Touch, GroupInv
  <2>2. GroupTypes' /\ Steady'
    BY <1>t, <2>1 DEF GroupInv, GroupTypes, Steady, heap, group, workers, owner
  <2> QED
    BY <1>4, <2>1, <2>2
<1>8. ASSUME NEW o \in Owners, deleteEnds(o) PROVE GroupInv'
  <2> DEFINE k == idx[o]
             a == array[k]
  <2>1. /\ opc[o] = "delete" /\ victim[o] = a /\ remove(a)
        /\ object' = [object EXCEPT ![a] = None]
        /\ victim' = [victim EXCEPT ![o] = None]
        /\ Goto(o, "scan", k + 1)
        /\ UNCHANGED <<finished, listed, wpc, self, sending, stray>>
        /\ k < cnt /\ a \in finished
    BY <1>8 DEF deleteEnds, workers, GroupInv, Steady
  <2>2. k \in Slots /\ cnt \in Slots /\ a \in Living /\ a \in Addresses
    BY <1>t, <2>1, SlotsAre DEF GroupInv, GroupTypes, Exact, Living
  <2>3. /\ array' = [j \in Slots |-> IF k <= j /\ j < cnt - 1 THEN array[j + 1] ELSE array[j]]
        /\ cnt' = cnt - 1
    <3>1. \A i \in Slots : Member(a, i) <=> i = k
      BY <2>1, <2>2 DEF Member, GroupInv, Exact
    <3> QED
      BY <2>1, <2>2, <3>1 DEF remove
  <2>4. cnt' \in Slots /\ \A j \in Slots : j < cnt - 1 => j + 1 \in Slots
    BY <2>1, <2>2, <2>3, SlotsAre
  <2>5. \A j \in Slots : array'[j] \in Addresses \union {None}
    BY <1>t, <2>3, <2>4 DEF GroupTypes
  <2>6. GroupTypes'
    BY <1>t, <2>1, <2>2, <2>3, <2>4, <2>5 DEF GroupTypes, Goto
  <2>7. \A b \in Addresses : object'[b] = IF b = a THEN None ELSE object[b]
    BY <1>t, <2>1, <2>2 DEF GroupTypes
  <2>8. Linked'
    BY <1>t, <2>1, <2>2, <2>7 DEF GroupInv, GroupTypes, Linked, Living
  <2>9. Living' = Living \ {a}
    BY <2>2, <2>7 DEF Living
  <2>10. Exact'
    <3> DEFINE was(j) == IF j < k THEN j ELSE j + 1
    <3>1. ASSUME NEW j \in Slots, j < cnt'
          PROVE  was(j) \in Slots /\ was(j) < cnt /\ was(j) # k /\ array'[j] = array[was(j)]
      BY <2>1, <2>2, <2>3, <2>4, <3>1, SlotsAre
    <3>2. ASSUME NEW i \in Slots, NEW j \in Slots, was(i) = was(j) PROVE i = j
      BY <2>2, <3>2, SlotsAre
    <3>3. ASSUME NEW i \in Slots, i < cnt, i # k
          PROVE  \E j \in Slots : j < cnt' /\ was(j) = i
      <4>1. CASE i < k
        BY <2>1, <2>2, <2>3, <3>3, <4>1, SlotsAre
      <4>2. CASE i > k
        <5>1. i - 1 \in Slots /\ i - 1 < cnt' /\ was(i - 1) = i
          BY <2>1, <2>2, <2>3, <3>3, <4>2, SlotsAre
        <5> QED
          BY <5>1
      <4> QED
        BY <2>2, <3>3, <4>1, <4>2, SlotsAre
    <3> HIDE DEF was
    <3>4. \A i \in Slots : i < cnt' => array'[i] \in Living'
      BY <2>1, <2>2, <2>9, <3>1 DEF GroupInv, Exact
    <3>5. ASSUME NEW b \in Living' PROVE \E i \in Slots : i < cnt' /\ array'[i] = b
      <4>1. PICK i \in Slots : i < cnt /\ array[i] = b
        BY <2>9 DEF GroupInv, Exact
      <4>2. PICK j \in Slots : j < cnt' /\ was(j) = i
        BY <2>9, <3>3, <4>1
      <4> QED
        BY <3>1, <4>1, <4>2
    <3>6. ASSUME NEW i \in Slots, NEW j \in Slots, i < cnt', j < cnt', array'[i] = array'[j]
          PROVE  i = j
      BY <3>1, <3>2, <3>6 DEF GroupInv, Exact
    <3> QED
      BY <3>4, <3>5, <3>6 DEF Exact
  <2>11. Steady'
    BY <1>t, <2>1 DEF GroupInv, GroupTypes, Steady, Goto
  <2> QED
    BY <2>1, <2>6, <2>8, <2>10, <2>11 DEF GroupInv
<1> QED
  BY <1>1, <1>2, <1>3, <1>5, <1>6, <1>7, <1>8 DEF GroupNext, Gc

LEMMA GroupInitInv == GroupInit => GroupInv
  BY SlotsAre DEF GroupInit, GroupInv, GroupTypes, Linked, Exact, Living, Steady, Working

LEMMA GroupInvMeans == GroupInv => GroupExact
<1> SUFFICES ASSUME GroupInv PROVE GroupExact
  OBVIOUS
<1>1. ArrayExact
  BY DEF GroupInv, GroupTypes, Exact, Living, ArrayExact, Members
<1>2. WorkingNotDeleted
  BY DEF GroupInv, Linked, Working, WorkingNotDeleted, MeIsThere
<1> QED
  BY <1>1, <1>2 DEF GroupInv, GroupExact, OwnersTouchTheLiving

\* However many members a group is given and however they end while it is collected,
\* sent events and extended: as long as one thread uses it, its array has the objects
\* that live, each once, none is deleted while it works and none used when it is gone.
THEOREM GroupIsExact ==
    ASSUME \A o, p \in Owners : o = p
    PROVE  GroupSpec => []GroupExact
<1>1. GroupInv /\ [GroupNext]_groupVars => GroupInv'
  BY GroupStepInv
<1> QED
  BY <1>1, GroupInitInv, GroupInvMeans, PTL DEF GroupSpec

(***************************************************************************)
(* The requests of a connection                                            *)
(***************************************************************************)
HeaderSet(r) == {Header(n, r.headers[n]) : n \in DOMAIN r.headers}
HeaderLines(r) == SetToSeq(HeaderSet(r))

\* What Asking says of a request.
Asked(r) ==
    /\ r.headers = [n \in DOMAIN r.headers |-> r.headers[n]]
    /\ IsFiniteSet(DOMAIN r.headers) /\ Cardinality(DOMAIN r.headers) <= MaxHeaders
    /\ r.body \in Seq(Range(r.body))
    /\ Len(r.body) = IF "Content-length" \in DOMAIN r.headers
                     THEN r.headers["Content-length"] ELSE 0
    /\ r.method = "DELETE" => r.body = <<>>

LEMMA AllAsked ==
    ASSUME NEW c \in Conversations
    PROVE  /\ c \in Seq(Range(c)) /\ Len(c) \in Nat
           /\ \A i \in 1 .. Len(c) : Asked(c[i])
<1>1. c \in Seq(Range(c))
  BY Asking
<1>2. \A i \in 1 .. Len(c) : c[i] \in Range(c)
  BY <1>1
<1>3. \A i \in 1 .. Len(c) : Asked(c[i])
  BY <1>2, Asking, Zenon DEF Asked
<1> QED
  BY <1>1, <1>3

\* Each header has one line of its own.
\* e is s and then t.
JoinsTo(e, s, t) ==
    /\ Len(e) = Len(s) + Len(t)
    /\ \A i \in 1 .. Len(s) : e[i] = s[i]
    /\ \A i \in 1 .. Len(t) : e[Len(s) + i] = t[i]

LEMMA Joined ==
    ASSUME NEW S, NEW s \in Seq(S), NEW t \in Seq(S)
    PROVE  s \o t \in Seq(S) /\ JoinsTo(s \o t, s, t)
<1>1. Len(s) \in Nat /\ Len(t) \in Nat
  BY LenProperties
<1>2. \A i \in 1 .. Len(s) + Len(t) : (s \o t)[i] = IF i <= Len(s) THEN s[i] ELSE t[i - Len(s)]
  BY ConcatProperties
<1>3. ASSUME NEW i \in 1 .. Len(s) PROVE (s \o t)[i] = s[i]
  BY <1>1, <1>2
<1>4. ASSUME NEW i \in 1 .. Len(t) PROVE (s \o t)[Len(s) + i] = t[i]
  <2>1. Len(s) + i \in 1 .. Len(s) + Len(t) /\ ~ (Len(s) + i <= Len(s)) /\ (Len(s) + i) - Len(s) = i
    BY <1>1
  <2> QED
    BY <1>2, <2>1
<1>5. s \o t \in Seq(S) /\ Len(s \o t) = Len(s) + Len(t)
  BY ConcatProperties
<1> QED
  BY <1>3, <1>4, <1>5 DEF JoinsTo

LEMMA HeadersOnce ==
    ASSUME NEW r, Asked(r)
    PROVE  /\ HeaderLines(r) \in Seq(HeaderSet(r))
           /\ IsInjective(HeaderLines(r))
           /\ \A x \in HeaderSet(r) : \E i \in 1 .. Len(HeaderLines(r)) : HeaderLines(r)[i] = x
<1> DEFINE D == DOMAIN r.headers
           S == HeaderSet(r)
           g == [n \in D |-> Header(n, r.headers[n])]
           N == Cardinality(S)
<1>1. g \in Surjection(D, S)
  BY DEF Surjection, HeaderSet
<1>2. IsFiniteSet(S)
  BY <1>1, FS_Surjection DEF Asked
<1>3. N \in Nat /\ ExistsBijection(1 .. N, S)
  BY <1>2, FS_CardinalityType
<1>4. \E f \in [1 .. N -> S] : IsInjective(f)
  BY <1>3 DEF ExistsBijection, Bijection, Injection
<1> DEFINE h == HeaderLines(r)
<1>5. h \in [1 .. N -> S] /\ IsInjective(h)
  BY <1>4 DEF HeaderLines, SetToSeq
<1>6. h \in Injection(1 .. N, S)
  BY <1>5 DEF Injection
<1>7. Cardinality(1 .. N) = N
  BY <1>3, FS_Interval
<1>8. h \in Surjection(1 .. N, S)
  BY <1>2, <1>3, <1>6, <1>7, FS_Injection
<1>9. h \in Seq(S) /\ Len(h) = N
  BY <1>3, <1>5
<1>10. \A x \in S : \E i \in 1 .. N : h[i] = x
  BY <1>8 DEF Surjection
<1> QED
  BY <1>5, <1>9, <1>10

\* What a request is on the line: its command, its headers, an empty line, its body.
LEMMA Encoded ==
    ASSUME NEW r, Asked(r)
    PROVE  /\ Encode(r) \in Seq(Range(Encode(r)))
           /\ Len(HeaderLines(r)) \in Nat /\ Len(r.body) \in Nat
           /\ Len(Encode(r)) = Len(HeaderLines(r)) + 2 + Len(r.body)
           /\ Encode(r)[1] = CommandLine(r)
           /\ \A i \in 1 .. Len(HeaderLines(r)) : Encode(r)[i + 1] = HeaderLines(r)[i]
           /\ Encode(r)[Len(HeaderLines(r)) + 2] = Empty
           /\ \A i \in 1 .. Len(r.body) : Encode(r)[Len(HeaderLines(r)) + 2 + i] = r.body[i]
<1> DEFINE h == HeaderLines(r)
           b == r.body
           S == {CommandLine(r), Empty} \union HeaderSet(r) \union Range(b)
           C == <<CommandLine(r)>>
           E == <<Empty>>
<1>1. h \in Seq(S) /\ b \in Seq(S) /\ C \in Seq(S) /\ E \in Seq(S)
  <2>1. h \in Seq(S)
    BY HeadersOnce, SeqMonotonic
  <2>2. b \in Seq(S)
    BY SeqMonotonic DEF Asked
  <2> QED
    BY <2>1, <2>2
<1>2. Encode(r) = ((C \o h) \o E) \o b
  BY DEF Encode, Lines1, HeaderLines, HeaderSet
<1>3. Len(C) = 1 /\ C[1] = CommandLine(r) /\ Len(E) = 1 /\ E[1] = Empty
  OBVIOUS
<1> HIDE DEF C, E, S, h, b
<1> DEFINE A == C \o h
           B == A \o E
           e == B \o b
<1>4. Len(h) \in Nat /\ Len(b) \in Nat
  BY <1>1
<1>5. A \in Seq(S) /\ Len(A) = Len(h) + 1 /\ A[1] = C[1] /\ \A i \in 1 .. Len(h) : A[i + 1] = h[i]
  <2>1. A \in Seq(S) /\ JoinsTo(A, C, h)
    BY <1>1, Joined
  <2> HIDE DEF A
  <2> QED
    BY <1>3, <1>4, <2>1 DEF JoinsTo
<1>6. B \in Seq(S) /\ Len(B) = Len(h) + 2 /\ B[Len(h) + 2] = E[1]
      /\ \A i \in 1 .. Len(h) + 1 : B[i] = A[i]
  <2>1. A \in Seq(S) /\ Len(A) = Len(h) + 1
    BY <1>5
  <2> HIDE DEF A
  <2>2. B \in Seq(S) /\ JoinsTo(B, A, E)
    BY <1>1, <2>1, Joined
  <2> HIDE DEF B
  <2>3. (Len(h) + 1) + 1 = Len(h) + 2 /\ 1 \in 1 .. 1
    BY <1>4
  <2> QED
    BY <1>3, <2>1, <2>2, <2>3 DEF JoinsTo
<1>7. e \in Seq(S) /\ Len(e) = Len(h) + 2 + Len(b)
      /\ (\A i \in 1 .. Len(b) : e[Len(h) + 2 + i] = b[i])
      /\ \A i \in 1 .. Len(h) + 2 : e[i] = B[i]
  <2>1. B \in Seq(S) /\ Len(B) = Len(h) + 2
    BY <1>6
  <2> HIDE DEF B
  <2>2. e \in Seq(S) /\ JoinsTo(e, B, b)
    BY <1>1, <2>1, Joined
  <2> HIDE DEF e
  <2> QED
    BY <2>1, <2>2 DEF JoinsTo
<1> HIDE DEF A, B, e
<1>8. Encode(r) = e
  BY <1>2 DEF e, B, A
<1>9. e \in Seq(Range(e))
  <2>1. e = [i \in 1 .. Len(e) |-> e[i]] /\ Len(e) \in Nat /\ DOMAIN e = 1 .. Len(e)
    BY <1>7
  <2>2. \A i \in 1 .. Len(e) : e[i] \in Range(e)
    BY <2>1 DEF Range
  <2> QED
    BY <2>1, <2>2
<1>10. e[1] = CommandLine(r)
  <2>1. 1 \in 1 .. Len(h) + 1 /\ 1 \in 1 .. Len(h) + 2
    BY <1>4
  <2>2. e[1] = B[1] /\ B[1] = A[1] /\ A[1] = C[1]
    BY <1>5, <1>6, <1>7, <2>1
  <2> QED
    BY <1>3, <2>2
<1>11. ASSUME NEW i \in 1 .. Len(h) PROVE e[i + 1] = h[i]
  <2>1. i + 1 \in 1 .. Len(h) + 1 /\ i + 1 \in 1 .. Len(h) + 2
    BY <1>4
  <2>2. e[i + 1] = B[i + 1]
    BY <1>7, <2>1
  <2>3. B[i + 1] = A[i + 1]
    BY <1>6, <2>1
  <2>4. A[i + 1] = h[i]
    BY <1>5
  <2> QED
    BY <2>2, <2>3, <2>4
<1>12. e[Len(h) + 2] = Empty
  <2>1. Len(h) + 2 \in 1 .. Len(h) + 2
    BY <1>4
  <2> QED
    BY <1>3, <1>6, <1>7, <2>1
<1> QED
  BY <1>4, <1>7, <1>8, <1>9, <1>10, <1>11, <1>12 DEF h, b

JoinSteps(f, S) == [i \in Nat |-> [q \in Seq(S) |-> IF i \in 1 .. Len(f) THEN q \o f[i] ELSE q]]

\* FlattenSeq takes these steps.
LEMMA Flattened ==
    ASSUME NEW S, NEW f \in Seq(Seq(S))
    PROVE  \E g : Computes(g, Seq(S), <<>>, JoinSteps(f, S), Len(f)) /\ FlattenSeq(f) = g[Len(f)]
<1> DEFINE N == Len(f)
           E(h) == [i \in 1 .. N |-> IF i = 1 THEN f[i] ELSE h[i - 1] \o f[i]]
           flatten == CHOOSE h : h = E(h)
           k == [i \in 0 .. N |-> IF i = 0 THEN <<>> ELSE flatten[i]]
<1>1. FlattenSeq(f) = IF N = 0 THEN f ELSE flatten[N]
  BY Zenon DEF FlattenSeq
<1>2. N \in Nat /\ (\A i \in 1 .. N : f[i] \in Seq(S)) /\ <<>> \in Seq(S)
  BY LenProperties, ElementOfSeq, EmptySeq
<1>3. JoinSteps(f, S) \in [Nat -> [Seq(S) -> Seq(S)]]
  <2>1. ASSUME NEW i \in Nat, NEW q \in Seq(S)
        PROVE  (IF i \in 1 .. N THEN q \o f[i] ELSE q) \in Seq(S)
    BY <1>2, Joined
  <2> QED
    BY <2>1 DEF JoinSteps
<1>4. ASSUME NEW i \in 1 .. N, NEW q \in Seq(S)
      PROVE  JoinSteps(f, S)[i][q] = q \o f[i]
  <2>1. i \in Nat /\ i \in 1 .. Len(f)
    BY <1>2
  <2> HIDE DEF N
  <2>2. JoinSteps(f, S)[i] = [x \in Seq(S) |-> IF i \in 1 .. Len(f) THEN x \o f[i] ELSE x]
    BY <2>1 DEF JoinSteps
  <2> QED
    BY <2>1, <2>2
<1>5. PICK g : Computes(g, Seq(S), <<>>, JoinSteps(f, S), N)
  BY <1>2, <1>3, StepsExist, Zenon
<1>6. \E h : h = E(h)
  <2> DEFINE h == [i \in 1 .. N |-> g[i]]
  <2>1. g \in [0 .. N -> Seq(S)] /\ g[0] = <<>>
    BY <1>5 DEF Computes
  <2>2. ASSUME NEW i \in 1 .. N PROVE h[i] = E(h)[i]
    <3>1. g[i - 1] \in Seq(S) /\ g[i] = JoinSteps(f, S)[i][g[i - 1]]
      <4>1. i - 1 \in 0 .. N
        BY <1>2
      <4> QED
        BY <1>5, <2>1, <4>1 DEF Computes
    <3>2. g[i] = g[i - 1] \o f[i]
      BY <1>4, <3>1
    <3>3. CASE i = 1
      <4>1. g[i - 1] = <<>>
        BY <2>1, <3>3
      <4>2. <<>> \o f[i] = f[i]
        BY <1>2, ConcatEmptySeq
      <4> QED
        BY <3>2, <3>3, <4>1, <4>2
    <3>4. CASE i # 1
      <4>1. i - 1 \in 1 .. N
        BY <1>2, <3>4
      <4> QED
        BY <3>2, <3>4, <4>1
    <3> QED
      BY <3>3, <3>4
  <2>3. h = E(h)
    BY <2>2
  <2> QED
    BY <2>3
<1>7. flatten = E(flatten)
  <2> HIDE DEF E
  <2> QED
    BY <1>6, Zenon
<1>8. \A i \in 1 .. N : flatten[i] = IF i = 1 THEN f[i] ELSE flatten[i - 1] \o f[i]
  <2> DEFINE F == E(flatten)
  <2>1. \A i \in 1 .. N : F[i] = IF i = 1 THEN f[i] ELSE flatten[i - 1] \o f[i]
    OBVIOUS
  <2>2. flatten = F
    BY <1>7
  <2> HIDE DEF flatten, F
  <2> QED
    BY <2>1, <2>2
<1> HIDE DEF flatten
<1>9. k[0] = <<>> /\ \A i \in 1 .. N : k[i - 1] \in Seq(S) => k[i] = JoinSteps(f, S)[i][k[i - 1]]
  <2>1. k[0] = <<>>
    BY <1>2
  <2>2. ASSUME NEW i \in 1 .. N, k[i - 1] \in Seq(S)
        PROVE  k[i] = JoinSteps(f, S)[i][k[i - 1]]
    <3>1. k[i] = flatten[i] /\ i - 1 \in 0 .. N
      BY <1>2
    <3>2. JoinSteps(f, S)[i][k[i - 1]] = k[i - 1] \o f[i]
      BY <1>4, <2>2
    <3>3. CASE i = 1
      <4>1. k[i - 1] = <<>> /\ flatten[i] = f[i]
        BY <1>8, <2>1, <3>3
      <4>2. <<>> \o f[i] = f[i]
        BY <1>2, ConcatEmptySeq
      <4> QED
        BY <3>1, <3>2, <4>1, <4>2
    <3>4. CASE i # 1
      <4>1. i - 1 # 0 /\ k[i - 1] = flatten[i - 1]
        BY <3>1, <3>4
      <4>2. flatten[i] = flatten[i - 1] \o f[i]
        BY <1>8, <3>4
      <4> QED
        BY <3>1, <3>2, <4>1, <4>2
    <3> QED
      BY <3>3, <3>4
  <2> QED
    BY <2>1, <2>2
<1>10. k = [i \in 0 .. N |-> k[i]]
  OBVIOUS
<1>11. FlattenSeq(f) = k[N]
  <2>1. CASE N = 0
    <3>1. f = <<>>
      BY <2>1, EmptySeq
    <3> QED
      BY <1>1, <1>9, <2>1, <3>1
  <2>2. CASE N # 0
    <3>1. k[N] = flatten[N]
      BY <1>2, <2>2
    <3> QED
      BY <1>1, <2>2, <3>1
  <2> QED
    BY <2>1, <2>2
<1>12. Computes(k, Seq(S), <<>>, JoinSteps(f, S), N)
  <2> DEFINE a == <<>>
             Q == Seq(S)
             step == JoinSteps(f, S)
  <2>1. a \in Q /\ step \in [Nat -> [Q -> Q]] /\ N \in Nat /\ k[0] = a
        /\ \A i \in 1 .. N : k[i - 1] \in Q => k[i] = step[i][k[i - 1]]
    BY <1>2, <1>3, <1>9
  <2> HIDE DEF a, Q, step, N, k
  <2>2. Computes(k, Q, a, step, N)
    BY <1>10, <2>1, StepsComputed
  <2> QED
    BY <2>2 DEF a, Q, step, N
<1> HIDE DEF k
<1> QED
  BY <1>11, <1>12

\* A sequence that begins like another begins with what the other flattens to.
LEMMA FlattenedPrefix ==
    ASSUME NEW S, NEW f \in Seq(Seq(S)), NEW e \in Seq(Seq(S)), Len(e) <= Len(f),
           \A i \in 1 .. Len(e) : e[i] = f[i],
           NEW g, Computes(g, Seq(S), <<>>, JoinSteps(f, S), Len(f))
    PROVE  FlattenSeq(e) = g[Len(e)]
<1> DEFINE n == Len(e)
           N == Len(f)
<1>1. n \in Nat /\ N \in Nat /\ n <= N
  OBVIOUS
<1>2. PICK h : Computes(h, Seq(S), <<>>, JoinSteps(e, S), n) /\ FlattenSeq(e) = h[n]
  BY Flattened
<1>3. \A i \in 1 .. n : JoinSteps(e, S)[i] = JoinSteps(f, S)[i]
  <2> SUFFICES ASSUME NEW i \in 1 .. n PROVE JoinSteps(e, S)[i] = JoinSteps(f, S)[i]
    OBVIOUS
  <2>1. i \in Nat /\ i \in 1 .. Len(e) /\ i \in 1 .. Len(f) /\ e[i] = f[i]
    BY <1>1
  <2> HIDE DEF n, N
  <2> QED
    BY <2>1 DEF JoinSteps
<1>4. h[n] = g[n]
  <2> DEFINE one == JoinSteps(e, S)
             two == JoinSteps(f, S)
             a == <<>>
             Q == Seq(S)
  <2>1. Agree(one, two, n)
    BY <1>3 DEF Agree
  <2>2. Computes(h, Q, a, one, n) /\ Computes(g, Q, a, two, N)
    BY <1>2
  <2> HIDE DEF one, two, a, Q, n, N
  <2> QED
    BY <1>1, <2>1, <2>2, SameSteps
<1> QED
  BY <1>2, <1>4

\* What the first n requests of a conversation take of its stream.
Sent(c, n) == Len(Stream(SubSeq(c, 1, n)))

Pieces(c) == UNION {Range(Encode(c[i])) : i \in 1 .. Len(c)}

\* g has the streams of the first requests.
Streams(g, c) ==
    /\ \A n \in 0 .. Len(c) : g[n] \in Seq(Pieces(c)) /\ Stream(SubSeq(c, 1, n)) = g[n]
    /\ g[0] = <<>>
    /\ \A n \in 1 .. Len(c) : g[n] = g[n - 1] \o Encode(c[n])
    /\ Stream(c) = g[Len(c)]

LEMMA StreamJoined ==
    ASSUME NEW c \in Conversations
    PROVE  \E g : Streams(g, c)
<1> DEFINE S == Pieces(c)
           N == Len(c)
           f == [i \in DOMAIN c |-> Encode(c[i])]
<1>1. N \in Nat /\ DOMAIN c = 1 .. N /\ c \in Seq(Range(c)) /\ \A i \in 1 .. N : Asked(c[i])
  BY AllAsked
<1>2. ASSUME NEW i \in 1 .. N PROVE Encode(c[i]) \in Seq(S)
  <2>1. Asked(c[i]) /\ Range(Encode(c[i])) \subseteq S
    BY <1>1 DEF Pieces
  <2>2. Encode(c[i]) \in Seq(Range(Encode(c[i])))
    BY <2>1, Encoded
  <2> HIDE DEF S
  <2> QED
    BY <2>1, <2>2, SeqMonotonic
<1>3. f \in Seq(Seq(S)) /\ Len(f) = N /\ \A i \in 1 .. N : f[i] = Encode(c[i])
  BY <1>1, <1>2
<1>4. PICK g : Computes(g, Seq(S), <<>>, JoinSteps(f, S), N) /\ FlattenSeq(f) = g[N]
  BY <1>3, Flattened
<1>5. g \in [0 .. N -> Seq(S)] /\ g[0] = <<>> /\ \A n \in 1 .. N : g[n] = JoinSteps(f, S)[n][g[n - 1]]
  BY <1>4 DEF Computes
<1>6. ASSUME NEW n \in 1 .. N PROVE g[n] = g[n - 1] \o Encode(c[n])
  <2>1. n - 1 \in 0 .. N /\ n \in Nat /\ n \in 1 .. Len(f) /\ f[n] = Encode(c[n])
    BY <1>1, <1>3
  <2>2. g[n - 1] \in Seq(S)
    BY <1>5, <2>1
  <2> HIDE DEF f
  <2>3. JoinSteps(f, S)[n][g[n - 1]] = g[n - 1] \o f[n]
    BY <2>1, <2>2 DEF JoinSteps
  <2> QED
    BY <1>5, <2>1, <2>3
<1>7. ASSUME NEW n \in 0 .. N PROVE Stream(SubSeq(c, 1, n)) = g[n]
  <2> DEFINE s == SubSeq(c, 1, n)
             e == [i \in DOMAIN s |-> Encode(s[i])]
  <2>1. n \in Nat /\ n <= N
    BY <1>1
  <2>2. s \in Seq(Range(c)) /\ Len(s) = n /\ \A i \in 1 .. n : s[i] = c[i]
    BY <1>1, <2>1
  <2>3. DOMAIN s = 1 .. n /\ \A i \in 1 .. n : i \in 1 .. N
    BY <1>1, <2>1, <2>2
  <2> HIDE DEF s
  <2>4. e \in Seq(Seq(S)) /\ Len(e) = n /\ \A i \in 1 .. n : e[i] = f[i]
    BY <1>2, <1>3, <2>1, <2>2, <2>3
  <2>5. Stream(s) = FlattenSeq(e)
    BY DEF Stream
  <2> HIDE DEF e, f, N, S
  <2>6. FlattenSeq(e) = g[Len(e)]
    BY <1>3, <1>4, <2>1, <2>4, FlattenedPrefix
  <2> QED
    BY <2>4, <2>5, <2>6 DEF s
<1>8. Stream(c) = g[N]
  BY <1>4 DEF Stream
<1> QED
  BY <1>5, <1>6, <1>7, <1>8 DEF Streams

\* e is in h after p.
PlacedIn(h, p, e) == \A j \in 1 .. Len(e) : h[p + j] = e[j]

LEMMA StaysPlaced ==
    ASSUME NEW h, NEW k, NEW d, NEW e, NEW p \in Nat, PlacedIn(h, p, e), JoinsTo(k, h, d),
           Len(h) \in Nat, Len(e) \in Nat, p + Len(e) <= Len(h)
    PROVE  PlacedIn(k, p, e)
<1> SUFFICES ASSUME NEW j \in 1 .. Len(e) PROVE k[p + j] = e[j]
  BY DEF PlacedIn
<1>1. p + j \in 1 .. Len(h)
  OBVIOUS
<1> QED
  BY <1>1 DEF PlacedIn, JoinsTo

\* Where the requests are in the stream.
LEMMA Positions ==
    ASSUME NEW c \in Conversations
    PROVE  /\ Stream(c) \in Seq(Pieces(c))
           /\ Sent(c, 0) = 0 /\ Sent(c, Len(c)) = Len(Stream(c))
           /\ \A n \in 0 .. Len(c) : Sent(c, n) \in Nat
           /\ \A n \in 1 .. Len(c) : Sent(c, n) = Sent(c, n - 1) + Len(Encode(c[n]))
           /\ \A n \in 1 .. Len(c) : PlacedIn(Stream(c), Sent(c, n - 1), Encode(c[n]))
<1> DEFINE S == Pieces(c)
           N == Len(c)
<1>1. N \in Nat /\ \A i \in 1 .. N : Asked(c[i])
  BY AllAsked
<1>2. PICK g : Streams(g, c)
  BY StreamJoined
<1>3. \A n \in 0 .. N : g[n] \in Seq(S) /\ Sent(c, n) = Len(g[n])
  BY <1>2 DEF Streams, Sent
<1>4. 0 \in 0 .. N /\ N \in 0 .. N /\ \A n \in 1 .. N : n \in 0 .. N /\ n - 1 \in 0 .. N
  BY <1>1
<1>5. ASSUME NEW n \in 1 .. N
      PROVE  Encode(c[n]) \in Seq(S) /\ Len(Encode(c[n])) \in Nat /\ JoinsTo(g[n], g[n - 1], Encode(c[n]))
  <2>1. Range(Encode(c[n])) \subseteq S
    BY DEF Pieces
  <2>2. Encode(c[n]) \in Seq(Range(Encode(c[n]))) /\ Asked(c[n])
    BY <1>1, Encoded
  <2> HIDE DEF S
  <2>3. Encode(c[n]) \in Seq(S)
    BY <2>1, <2>2, SeqMonotonic
  <2>4. g[n] = g[n - 1] \o Encode(c[n])
    BY <1>2 DEF Streams
  <2>5. g[n - 1] \in Seq(S) /\ Encode(c[n]) \in Seq(S)
    BY <1>3, <1>4, <2>3
  <2>6. JoinsTo(g[n], g[n - 1], Encode(c[n]))
    BY <2>4, <2>5, Joined
  <2> QED
    BY <2>5, <2>6, LenProperties
<1>6. \A n \in 0 .. N : Len(g[n]) \in Nat
  BY <1>3, LenProperties
<1> DEFINE Fits(m, n) == Len(g[n]) <= Len(g[m]) /\ PlacedIn(g[m], Len(g[n - 1]), Encode(c[n]))
           T == {m \in Nat : m <= N => \A n \in 1 .. m : Fits(m, n)}
<1>7. 0 \in T
  OBVIOUS
<1>8. ASSUME NEW m \in Nat, m \in T PROVE m + 1 \in T
  <2> SUFFICES ASSUME m + 1 <= N, NEW n \in 1 .. m + 1
               PROVE  Fits(m + 1, n)
    OBVIOUS
  <2>1. m + 1 \in 1 .. N /\ m \in 0 .. N /\ m <= N /\ n \in 1 .. N /\ (m + 1) - 1 = m
    BY <1>1
  <2>2. JoinsTo(g[m + 1], g[m], Encode(c[m + 1])) /\ Len(Encode(c[m + 1])) \in Nat
    BY <1>5, <2>1
  <2>3. Len(g[m]) \in Nat /\ Len(g[m + 1]) \in Nat /\ Len(g[n]) \in Nat /\ Len(g[n - 1]) \in Nat
    BY <1>4, <1>6, <2>1
  <2>4. CASE n = m + 1
    <3>1. PlacedIn(g[m + 1], Len(g[m]), Encode(c[m + 1]))
      BY <2>2 DEF JoinsTo, PlacedIn
    <3> QED
      BY <2>1, <2>3, <2>4, <3>1
  <2>5. CASE n # m + 1
    <3>1. n \in 1 .. m
      BY <2>5
    <3>2. Fits(m, n)
      BY <1>8, <2>1, <3>1
    <3>3. JoinsTo(g[n], g[n - 1], Encode(c[n])) /\ Len(Encode(c[n])) \in Nat
      BY <1>5, <2>1
    <3>4. Len(g[n - 1]) + Len(Encode(c[n])) <= Len(g[m])
      BY <2>3, <3>2, <3>3 DEF JoinsTo
    <3>5. PlacedIn(g[m + 1], Len(g[n - 1]), Encode(c[n]))
      BY <2>2, <2>3, <3>2, <3>3, <3>4, StaysPlaced
    <3>6. Len(g[m + 1]) = Len(g[m]) + Len(Encode(c[m + 1]))
      BY <2>2 DEF JoinsTo
    <3>7. Len(g[n]) <= Len(g[m]) /\ Len(Encode(c[m + 1])) \in Nat
      BY <2>2, <3>2
    <3>8. Len(g[n]) <= Len(g[m + 1])
      <4> DEFINE x == Len(g[n])
                 y == Len(g[m])
                 z == Len(g[m + 1])
                 d == Len(Encode(c[m + 1]))
      <4>1. x \in Nat /\ y \in Nat /\ z \in Nat /\ d \in Nat /\ z = y + d /\ x <= y
        BY <2>3, <3>6, <3>7
      <4> HIDE DEF x, y, z, d
      <4>2. x <= z
        BY <4>1
      <4> QED
        BY <4>2 DEF x, z
    <3> QED
      BY <3>5, <3>8
  <2> QED
    BY <2>4, <2>5
<1>15. N \in T
  <2> HIDE DEF T
  <2> QED
    BY <1>1, <1>7, <1>8, NatSetInduction
<1>9. Stream(c) = g[N] /\ g[0] = <<>>
  BY <1>2 DEF Streams
<1>10. \A n \in 1 .. N : PlacedIn(Stream(c), Sent(c, n - 1), Encode(c[n]))
  BY <1>1, <1>3, <1>4, <1>9, <1>15
<1>11. \A n \in 1 .. N : Sent(c, n) = Sent(c, n - 1) + Len(Encode(c[n]))
  BY <1>3, <1>4, <1>5 DEF JoinsTo
<1>12. \A n \in 0 .. N : Sent(c, n) \in Nat
  BY <1>3
<1>13. Sent(c, 0) = 0
  BY <1>3, <1>4, <1>9
<1> QED
  BY <1>3, <1>4, <1>9, <1>10, <1>11, <1>12, <1>13

\* The later request begins later.
LEMMA SentGrows ==
    ASSUME NEW c \in Conversations, NEW m \in 0 .. Len(c), NEW n \in 0 .. Len(c), m <= n
    PROVE  Sent(c, m) <= Sent(c, n)
<1>1. Len(c) \in Nat /\ \A i \in 0 .. Len(c) : Sent(c, i) \in Nat
  BY AllAsked, Positions
<1> DEFINE T == {i \in Nat : m <= i /\ i <= Len(c) => Sent(c, m) <= Sent(c, i)}
<1>2. 0 \in T
  <2>1. m <= 0 => m = 0
    BY <1>1
  <2> QED
    BY <1>1, <2>1
<1>3. ASSUME NEW i \in Nat, i \in T PROVE i + 1 \in T
  <2> SUFFICES ASSUME m <= i + 1, i + 1 <= Len(c) PROVE Sent(c, m) <= Sent(c, i + 1)
    OBVIOUS
  <2>1. CASE m = i + 1
    BY <1>1, <2>1
  <2>2. CASE m # i + 1
    <3>1. i + 1 \in 1 .. Len(c) /\ (i + 1) - 1 = i /\ i \in 0 .. Len(c) /\ m <= i
      BY <1>1, <2>2
    <3>2. Sent(c, i + 1) = Sent(c, i) + Len(Encode(c[i + 1]))
      BY <3>1, Positions
    <3>3. Len(Encode(c[i + 1])) \in Nat
      <4>1. Asked(c[i + 1])
        BY <3>1, AllAsked
      <4> QED
        BY <4>1, Encoded
    <3> QED
      BY <1>1, <1>3, <3>1, <3>2, <3>3
  <2> QED
    BY <2>1, <2>2
<1>4. n \in T
  <2>1. n \in Nat
    BY <1>1
  <2> HIDE DEF T
  <2> QED
    BY <1>2, <1>3, <2>1, NatSetInduction
<1> QED
  BY <1>1, <1>4

\* What arrives of the stream, and what is left of it.
taken == received - Len(rest)

Arriving ==
    /\ conversation \in Conversations
    /\ received \in Nat /\ received <= Len(Stream(conversation))
    /\ rest \in Seq(Pieces(conversation)) /\ Len(rest) <= received
    /\ PlacedIn(Stream(conversation), taken, rest)
    /\ backlog \in Nat /\ backlog <= Len(rest) /\ (backlog = 0 \/ backlog < HttpReadbuf)

\* The first n headers of a request.
Gathered(r, n) == [name \in {HeaderLines(r)[i][2] : i \in 1 .. n} |-> r.headers[name]]

\* What the worker has of a request, and where in the stream it is.
HasRead(c, k, n) ==
    /\ taken = Sent(c, k) + n + 1
    /\ httpCommand = CommandLine(c[k + 1])

InRequest(c, k) ==
    /\ k <= Len(c)
    /\ hpc \in {"lines", "request", "closed"} /\ eof \in BOOLEAN /\ (eof => hpc = "closed")
    /\ hpc = "lines" /\ httpCommand = NoCommand => taken = Sent(c, k) /\ httpHeaders = <<>>
    /\ hpc = "lines" /\ httpCommand # NoCommand =>
          k < Len(c) /\ \E n \in 0 .. Len(HeaderLines(c[k + 1])) :
                           HasRead(c, k, n) /\ httpHeaders = Gathered(c[k + 1], n)
    /\ hpc = "request" =>
          k < Len(c) /\ HasRead(c, k, Len(HeaderLines(c[k + 1])) + 1) /\ httpHeaders = c[k + 1].headers

Said == [by : 0 .. Len(Chain), status : {0, 200, 401, 404},
         tells : {"nothing", "keep-alive", "close"}, keep : BOOLEAN]
Dealt(c) == [command : {CommandLine(c[i]) : i \in 1 .. Len(c)},
             headers : {c[i].headers : i \in 1 .. Len(c)}, body : Seq(Pieces(c)), answer : Said]

\* A request was handled as it was sent, and answered by whom it may be.
AsSent(h, r) == h.command = CommandLine(r) /\ h.headers = r.headers
BodyWhole(h, r) == h.body = r.body
BodyCut(h, r) == IsPrefix(h.body, r.body)
Tells(a) == (a.keep => a.tells # "close") /\ (a.tells = "keep-alive" => a.keep)
Guarded(a, r) ==
    \A o \in DOMAIN Chain :
        Chain[o].kind = "auth" /\ r.uri \in Chain[o].matches /\ a.by \notin 1 .. o
        => Header("Authorization", "good") \in HeaderSet(r)

Handled(c, k) ==
    /\ handled \in Seq(Dealt(c))
    /\ \A i \in 1 .. k :
          /\ AsSent(handled[i], c[i])
          /\ BodyWhole(handled[i], c[i]) \/ (eof /\ i = k /\ BodyCut(handled[i], c[i]))
          /\ Tells(handled[i].answer) /\ Guarded(handled[i].answer, c[i])
          /\ handled[i].answer.keep \/ (i = k /\ hpc = "closed")
    /\ hpc = "closed" /\ refused = 0 /\ k > 0 /\ k < Len(c) =>
          ~ handled[k].answer.keep \/ received < Sent(c, k + 1)

HttpInv ==
    /\ Arriving
    /\ InRequest(conversation, Len(handled))
    /\ Handled(conversation, Len(handled))

LEMMA Lengths ==
    ASSUME Arriving
    PROVE  /\ Len(rest) \in Nat /\ received \in Nat /\ Len(rest) <= received
           /\ taken \in Nat /\ taken + Len(rest) = received
<1>1. Len(rest) \in Nat /\ received \in Nat /\ Len(rest) <= received
  BY LenProperties DEF Arriving
<1> QED
  BY <1>1 DEF taken

\* What is read in one go is as much as is wanted, or all that is left.
LEMMA Consumed ==
    ASSUME Arriving, NEW wanted \in Nat, NEW filled \in Filled(wanted),
           NEW n \in Nat, n = Smaller(wanted, filled), Consume(n, filled), UNCHANGED input
    PROVE  /\ Arriving' /\ taken' = taken + n /\ n <= Len(rest)
           /\ Len(rest') = Len(rest) - n
           /\ n < wanted => n = Len(rest)
<1> DEFINE L == Len(rest)
<1>1. L \in Nat /\ received \in Nat /\ L <= received /\ taken \in Nat /\ taken + L = received
  BY Lengths
<1>2. backlog \in Nat /\ backlog <= L /\ (backlog = 0 \/ backlog < HttpReadbuf) /\ HttpReadbuf \in Nat
      /\ RingRoom \in Nat
  BY HttpBounds DEF Arriving
<1>3. filled \in Nat /\ filled <= L /\ (filled < wanted => filled = L)
      /\ (filled <= wanted \/ filled - wanted <= backlog \/ filled - wanted < HttpReadbuf)
  <2>1. CASE backlog >= wanted
    <3>1. filled = backlog
      BY <2>1 DEF Filled
    <3> QED
      BY <1>1, <1>2, <2>1, <3>1
  <2>2. CASE ~ (backlog >= wanted) /\ L <= wanted
    <3>1. filled = L
      BY <2>2 DEF Filled
    <3> QED
      BY <1>1, <1>2, <2>2, <3>1
  <2>3. CASE ~ (backlog >= wanted) /\ ~ (L <= wanted)
    <3>1. filled \in wanted .. Smaller(Smaller(wanted - 1 + HttpReadbuf, RingRoom), L)
      BY <2>3 DEF Filled
    <3>2. Smaller(Smaller(wanted - 1 + HttpReadbuf, RingRoom), L) <= L
          /\ Smaller(Smaller(wanted - 1 + HttpReadbuf, RingRoom), L) <= wanted - 1 + HttpReadbuf
          /\ Smaller(Smaller(wanted - 1 + HttpReadbuf, RingRoom), L) \in Int
      BY <1>1, <1>2 DEF Smaller
    <3> HIDE DEF L
    <3> QED
      BY <1>1, <1>2, <3>1, <3>2
  <2> QED
    BY <2>1, <2>2, <2>3
<1>4. n <= L /\ (n < wanted => n = L) /\ n <= filled /\ n = IF wanted < filled THEN wanted ELSE filled
  BY <1>1, <1>3 DEF Smaller
<1>5. rest \in Seq(Pieces(conversation)) /\ rest' = SubSeq(rest, n + 1, L)
  BY DEF Arriving, Consume
<1>6. /\ rest' \in Seq(Pieces(conversation)) /\ Len(rest') = L - n
      /\ \A i \in 1 .. L - n : rest'[i] = rest[n + i]
  <2>1. \A i \in n + 1 .. L : rest[i] \in Pieces(conversation)
    BY <1>1, <1>5, ElementOfSeq
  <2>2. n + 1 \in Int /\ L \in Int /\ (IF n + 1 <= L THEN L - (n + 1) + 1 ELSE 0) = L - n
        /\ L - (n + 1) + 1 = L - n /\ \A i \in 1 .. L - n : (n + 1) + i - 1 = n + i
    <3>1. L \in Nat /\ n \in Nat /\ n <= L
      BY <1>1, <1>4
    <3> HIDE DEF L
    <3> QED
      BY ONLY <3>1
  <2> DEFINE a == n + 1
             P == Pieces(conversation)
  <2>3. a \in Int /\ L \in Int /\ \A i \in a .. L : rest[i] \in P
    BY <2>1, <2>2
  <2> HIDE DEF a, L, P
  <2>4. SubSeq(rest, a, L) \in Seq(P) /\ Len(SubSeq(rest, a, L)) = IF a <= L THEN L - a + 1 ELSE 0
    BY <2>3, SubSeqProperties
  <2>5. \A i \in 1 .. L - a + 1 : SubSeq(rest, a, L)[i] = rest[a + i - 1]
    BY <2>3, SubSeqProperties
  <2>6. rest' = SubSeq(rest, a, L)
    BY <1>5 DEF a
  <2>7. Len(rest') = L - n
    BY <2>2, <2>4, <2>6 DEF a
  <2>8. \A i \in 1 .. L - n : rest'[i] = rest[n + i]
    <3> SUFFICES ASSUME NEW i \in 1 .. L - n PROVE rest'[i] = rest[n + i]
      OBVIOUS
    <3>1. i \in 1 .. L - a + 1 /\ a + i - 1 = n + i
      BY <2>2 DEF a
    <3> QED
      BY <2>5, <2>6, <3>1
  <2> QED
    BY <2>4, <2>6, <2>7, <2>8 DEF P
<1>7. conversation' = conversation /\ received' = received
  BY DEF input
<1>8. taken' = taken + n /\ Len(rest') \in Nat /\ Len(rest') <= received'
  BY <1>1, <1>4, <1>6, <1>7 DEF taken
<1>9. PlacedIn(Stream(conversation)', taken', rest')
  <2>1. PlacedIn(Stream(conversation), taken, rest)
    BY DEF Arriving
  <2>2. SUFFICES ASSUME NEW i \in 1 .. Len(rest')
                 PROVE  Stream(conversation)[(taken + n) + i] = rest'[i]
    BY <1>7, <1>8 DEF PlacedIn
  <2>3. n + i \in 1 .. L /\ i \in 1 .. L - n /\ taken + (n + i) = (taken + n) + i
    BY <1>1, <1>4, <1>6
  <2> QED
    BY <1>6, <2>1, <2>3 DEF PlacedIn
<1>10. backlog' = filled - n
  BY DEF Consume
<1>11. backlog' \in Nat /\ backlog' <= Len(rest') /\ (backlog' = 0 \/ backlog' < HttpReadbuf)
  <2> HIDE DEF L
  <2> QED
    BY <1>1, <1>2, <1>3, <1>4, <1>6, <1>10
<1>12. Stream(conversation)' = Stream(conversation) /\ Pieces(conversation)' = Pieces(conversation)
  BY <1>7
<1>13. Arriving'
  BY <1>6, <1>7, <1>8, <1>9, <1>11, <1>12 DEF Arriving
<1> QED
  BY <1>4, <1>6, <1>8, <1>13

\* What comes next on the connection is the next of the request.
LEMMA Upcoming ==
    ASSUME Arriving, NEW k \in Nat, k < Len(conversation), NEW m \in Nat, NEW n \in 1 .. Len(rest),
           taken = Sent(conversation, k) + m, m + n <= Len(Encode(conversation[k + 1]))
    PROVE  rest[n] = Encode(conversation[k + 1])[m + n]
<1> DEFINE c == conversation
           S == Stream(c)
           E == Encode(c[k + 1])
<1>1. c \in Conversations /\ PlacedIn(S, taken, rest)
  BY DEF Arriving
<1>2. k + 1 \in 1 .. Len(c) /\ (k + 1) - 1 = k /\ k \in 0 .. Len(c) /\ Asked(c[k + 1])
  BY <1>1, AllAsked
<1>3. PlacedIn(S, Sent(c, k), E) /\ Sent(c, k) \in Nat
  BY <1>1, <1>2, Positions
<1>4. Len(E) \in Nat
  BY <1>2, Encoded
<1>5. m + n \in 1 .. Len(E) /\ taken + n = Sent(c, k) + (m + n)
  BY <1>3, <1>4
<1> HIDE DEF S, E, c
<1>6. S[taken + n] = rest[n] /\ S[Sent(c, k) + (m + n)] = E[m + n]
  BY <1>1, <1>3, <1>5 DEF PlacedIn
<1> QED
  BY <1>5, <1>6 DEF E, c

\* There is another request if anything is left.
LEMMA AnotherRequest ==
    ASSUME Arriving, NEW k \in Nat, k <= Len(conversation), taken = Sent(conversation, k), rest # <<>>
    PROVE  k < Len(conversation)
<1>1. conversation \in Conversations /\ received <= Len(Stream(conversation)) /\ Len(conversation) \in Nat
      /\ rest \in Seq(Pieces(conversation))
  BY AllAsked DEF Arriving
<1>2. Len(rest) > 0
  BY <1>1, EmptySeq
<1>3. taken + Len(rest) = received /\ taken \in Nat /\ Len(rest) \in Nat /\ received \in Nat
  BY Lengths
<1>4. Sent(conversation, Len(conversation)) = Len(Stream(conversation))
  BY <1>1, Positions
<1> SUFFICES ASSUME k = Len(conversation) PROVE FALSE
  BY <1>1
<1>5. taken = Len(Stream(conversation))
  BY <1>4
<1> QED
  BY <1>1, <1>2, <1>3, <1>5

\* A line of a header has its name and its value.
LEMMA HeaderLineIs ==
    ASSUME NEW r, Asked(r), NEW i \in 1 .. Len(HeaderLines(r))
    PROVE  /\ HeaderLines(r)[i][2] \in DOMAIN r.headers
           /\ HeaderLines(r)[i] = Header(HeaderLines(r)[i][2], r.headers[HeaderLines(r)[i][2]])
<1>1. HeaderLines(r)[i] \in HeaderSet(r)
  BY HeadersOnce, ElementOfSeq
<1>2. PICK name \in DOMAIN r.headers : HeaderLines(r)[i] = Header(name, r.headers[name])
  BY <1>1 DEF HeaderSet
<1>3. HeaderLines(r)[i][2] = name
  BY <1>2 DEF Header
<1> QED
  BY <1>2, <1>3

LEMMA GatheredNone ==
    ASSUME NEW r
    PROVE  Gathered(r, 0) = <<>>
<1>1. Gathered(r, 0) = [name \in {} |-> r.headers[name]]
  <2>1. {HeaderLines(r)[i][2] : i \in 1 .. 0} = {}
    OBVIOUS
  <2> QED
    BY <2>1 DEF Gathered
<1>2. [name \in {} |-> r.headers[name]] = <<>>
  OBVIOUS
<1> QED
  BY <1>1, <1>2

LEMMA GatheredAll ==
    ASSUME NEW r, Asked(r)
    PROVE  Gathered(r, Len(HeaderLines(r))) = r.headers
<1> DEFINE H == HeaderLines(r)
           D == {H[i][2] : i \in 1 .. Len(H)}
<1>1. ASSUME NEW name \in DOMAIN r.headers PROVE name \in D
  <2>1. Header(name, r.headers[name]) \in HeaderSet(r)
    BY DEF HeaderSet
  <2>2. PICK i \in 1 .. Len(H) : H[i] = Header(name, r.headers[name])
    BY <2>1, HeadersOnce
  <2>3. H[i][2] = name
    BY <2>2 DEF Header
  <2> QED
    BY <2>3
<1>2. D \subseteq DOMAIN r.headers
  BY HeaderLineIs
<1>3. D = DOMAIN r.headers
  BY <1>1, <1>2
<1>4. Gathered(r, Len(H)) = [name \in D |-> r.headers[name]]
  BY DEF Gathered
<1> HIDE DEF D
<1> QED
  BY <1>3, <1>4 DEF Asked

WithHeader(G, line) ==
    [name \in DOMAIN G \union {line[2]} |-> IF name = line[2] THEN line[3] ELSE G[name]]

\* One more header line gives one more header.
LEMMA GathersNext ==
    ASSUME NEW r, Asked(r), NEW n \in Nat, n < Len(HeaderLines(r)),
           NEW line, line = HeaderLines(r)[n + 1], NEW G, G = Gathered(r, n)
    PROVE  /\ line[1] = "header" /\ Cardinality(DOMAIN G) < MaxHeaders
           /\ WithHeader(G, line) = Gathered(r, n + 1)
<1> DEFINE H == HeaderLines(r)
           D == DOMAIN r.headers
           E == {H[i][2] : i \in 1 .. n}
           F == {H[i][2] : i \in 1 .. n + 1}
<1>1. Len(H) \in Nat
  BY Encoded
<1>2. n + 1 \in 1 .. Len(H) /\ \A i \in 1 .. n : i \in 1 .. Len(H) /\ i # n + 1
  BY <1>1
<1>3. \A i \in 1 .. Len(H) : H[i][2] \in D /\ H[i] = Header(H[i][2], r.headers[H[i][2]])
  BY HeaderLineIs
<1>4. line[2] \in D /\ line = Header(line[2], r.headers[line[2]])
  BY <1>2, <1>3
<1>5. line[1] = "header" /\ line[3] = r.headers[line[2]]
  BY <1>4 DEF Header
<1>6. line[2] \notin E
  <2> SUFFICES ASSUME NEW i \in 1 .. n, H[i][2] = line[2] PROVE FALSE
    OBVIOUS
  <2>1. H[i] = H[n + 1]
    BY <1>2, <1>3, <1>4
  <2>2. DOMAIN H = 1 .. Len(H)
    BY HeadersOnce
  <2>3. IsInjective(H)
    BY HeadersOnce
  <2> HIDE DEF H
  <2> QED
    BY <1>2, <2>1, <2>2, <2>3 DEF IsInjective
<1>7. E \subseteq D /\ F = E \union {line[2]}
  <2>1. E \subseteq D
    BY <1>2, <1>3
  <2>2. \A i \in 1 .. n + 1 : i \in 1 .. n \/ i = n + 1
    OBVIOUS
  <2>3. \A i \in 1 .. n : i \in 1 .. n + 1
    OBVIOUS
  <2>4. n + 1 \in 1 .. n + 1
    OBVIOUS
  <2>5. F = E \union {line[2]}
    BY <2>2, <2>3, <2>4
  <2> QED
    BY <2>1, <2>5
<1>8. G = [name \in E |-> r.headers[name]] /\ DOMAIN G = E
  BY DEF Gathered
<1>9. Gathered(r, n + 1) = [name \in F |-> r.headers[name]]
  BY DEF Gathered
<1> HIDE DEF E, F, H
<1>10. Cardinality(E) < MaxHeaders
  <2>1. IsFiniteSet(D) /\ Cardinality(D) <= MaxHeaders
    BY DEF Asked
  <2>2. E # D
    BY <1>4, <1>6
  <2> HIDE DEF D
  <2>3. IsFiniteSet(E) /\ Cardinality(E) <= Cardinality(D) /\ Cardinality(E) # Cardinality(D)
    BY <1>7, <2>1, <2>2, FS_Subset
  <2>4. Cardinality(E) \in Nat /\ Cardinality(D) \in Nat /\ MaxHeaders \in Nat
    BY <2>1, <2>3, FS_CardinalityType, HttpBounds
  <2> QED
    BY <2>1, <2>3, <2>4
<1>11. WithHeader(G, line) = [name \in F |-> r.headers[name]]
  <2>1. DOMAIN G \union {line[2]} = F
    BY <1>7, <1>8
  <2>2. \A name \in F : (IF name = line[2] THEN line[3] ELSE G[name]) = r.headers[name]
    BY <1>5, <1>7, <1>8
  <2> QED
    BY <2>1, <2>2 DEF WithHeader
<1> QED
  BY <1>5, <1>8, <1>9, <1>10, <1>11

\* What was handled stays so; what the worker closes of itself was at its end.
LEMMA HandledStays ==
    ASSUME HttpInv, hpc # "closed", UNCHANGED <<input, handled>>,
           hpc' = "closed" /\ refused' = 0 /\ Len(handled) < Len(conversation) =>
               received < Sent(conversation, Len(handled) + 1)
    PROVE  Handled(conversation, Len(handled))'
<1> DEFINE k == Len(handled)
           c == conversation
<1>1. Handled(c, k) /\ eof = FALSE
  BY DEF HttpInv, InRequest
<1>2. conversation' = conversation /\ received' = received /\ handled' = handled
  BY DEF input
<1>3. handled \in Seq(Dealt(c)) /\ \A i \in 1 .. k :
          /\ AsSent(handled[i], c[i]) /\ BodyWhole(handled[i], c[i])
          /\ Tells(handled[i].answer) /\ Guarded(handled[i].answer, c[i])
          /\ handled[i].answer.keep
  BY <1>1 DEF Handled
<1> HIDE DEF k, c
<1>4. Handled(c, k)'
  <2>1. c' = c /\ k' = k /\ handled' = handled /\ received' = received
    BY <1>2 DEF c, k
  <2>2. hpc' = "closed" /\ refused' = 0 /\ k < Len(c) => received < Sent(c, k + 1)
    BY DEF c, k
  <2> QED
    BY <1>3, <2>1, <2>2 DEF Handled
<1> QED
  BY <1>4 DEF c, k

LEMMA GetsInv == ASSUME HttpInv, gets PROVE HttpInv'
<1> DEFINE k == Len(handled)
           c == conversation
           r == c[k + 1]
           H == HeaderLines(r)
           line == Head(rest)
<1>1. Arriving /\ InRequest(c, k) /\ handled \in Seq(Dealt(c)) /\ c \in Conversations
  BY DEF HttpInv, Handled, Arriving
<1>2. k \in Nat /\ Len(c) \in Nat /\ k <= Len(c)
  BY <1>1, AllAsked, LenProperties DEF InRequest
<1>3. hpc = "lines" /\ rest # <<>> /\ UNCHANGED input /\ eof' = eof /\ handled' = handled /\ refused' = refused
  BY DEF gets
<1>4. eof = FALSE /\ c' = c /\ k' = k
  BY <1>1, <1>3 DEF InRequest, input
<1>5. PICK filled \in Filled(1) : Consume(1, filled)
  BY DEF gets
<1>6. Len(rest) \in Nat /\ Len(rest) >= 1 /\ line = rest[1]
  BY <1>1, <1>3 DEF Arriving
<1>7. 1 = Smaller(1, filled)
  <2>1. backlog \in Nat
    BY <1>1 DEF Arriving
  <2>2. filled \in Nat /\ filled >= 1
    BY <1>6, <2>1 DEF Filled
  <2> QED
    BY <2>2 DEF Smaller
<1>8. Arriving' /\ taken' = taken + 1
  BY <1>1, <1>3, <1>5, <1>7, Consumed
<1>9. ASSUME k < Len(c)
      PROVE  /\ Asked(r) /\ Len(H) \in Nat /\ Len(Encode(r)) \in Nat /\ Len(Encode(r)) >= Len(H) + 2
             /\ Encode(r)[1] = CommandLine(r) /\ Encode(r)[Len(H) + 2] = Empty
             /\ \A i \in 1 .. Len(H) : Encode(r)[i + 1] = H[i]
  <2>1. Asked(r)
    BY <1>1, <1>2, <1>9, AllAsked
  <2>2. Len(r.body) \in Nat /\ Len(Encode(r)) = Len(H) + 2 + Len(r.body) /\ Len(H) \in Nat
    BY <2>1, Encoded
  <2>3. Len(Encode(r)) \in Nat /\ Len(Encode(r)) >= Len(H) + 2
    <3> DEFINE b == Len(r.body)
               h == Len(H)
               e == Len(Encode(r))
    <3>1. b \in Nat /\ h \in Nat /\ e = h + 2 + b
      BY <2>2
    <3> HIDE DEF b, h, e
    <3>2. e \in Nat /\ e >= h + 2
      BY <3>1
    <3> QED
      BY <3>2 DEF e, h
  <2>4. Encode(r)[1] = CommandLine(r) /\ Encode(r)[Len(H) + 2] = Empty
        /\ \A i \in 1 .. Len(H) : Encode(r)[i + 1] = H[i]
    BY <2>1, Encoded, Zenon
  <2> QED
    BY <2>1, <2>2, <2>3, <2>4
<1> HIDE DEF k, c, r, H
<1>10. hpc' \in {"lines", "request"} /\ InRequest(c, k)'
  <2> DEFINE where(n) == HasRead(c, k, n) /\ httpHeaders = Gathered(r, n)
  <2>1. CASE httpCommand = NoCommand
    <3>1. taken = Sent(c, k) /\ httpHeaders = <<>>
      BY <1>1, <1>3, <2>1 DEF InRequest
    <3>2. k < Len(c)
      BY <1>1, <1>2, <1>3, <3>1, AnotherRequest DEF c
    <3>3. line = Encode(r)[0 + 1]
      <4>1. Sent(c, k) \in Nat
        BY <1>1, <1>2, Positions
      <4>2. taken = Sent(c, k) + 0 /\ 0 + 1 <= Len(Encode(r)) /\ 0 \in Nat /\ 1 \in 1 .. Len(rest)
        BY <1>6, <1>9, <3>1, <3>2, <4>1
      <4>3. rest[1] = Encode(r)[0 + 1]
        BY <1>1, <1>2, <3>2, <4>2, Upcoming DEF c, r
      <4> QED
        BY <1>6, <4>3
    <3>4. line = CommandLine(r) /\ line # Empty /\ line # NoCommand
      BY <1>9, <3>2, <3>3 DEF CommandLine, Empty, NoCommand
    <3>5. httpCommand' = line /\ hpc' = hpc /\ httpHeaders' = httpHeaders
      BY <2>1, <3>4 DEF gets, FirstLine, HeaderLine, EmptyLine
    <3>6. httpHeaders' = Gathered(r, 0)
      BY <3>1, <3>5, GatheredNone
    <3>7. taken' = Sent(c, k) + 0 + 1 /\ 0 \in 0 .. Len(H)
      <4>1. Sent(c, k) \in Nat
        BY <1>1, <1>2, Positions
      <4> QED
        BY <1>8, <1>9, <3>1, <3>2, <4>1
    <3> QED
      BY <1>2, <1>3, <1>4, <3>2, <3>4, <3>5, <3>6, <3>7 DEF InRequest, HasRead, r, H
  <2>2. CASE httpCommand # NoCommand
    <3>1. k < Len(c)
      BY <1>1, <1>3, <2>2 DEF InRequest
    <3>2. PICK n \in 0 .. Len(H) : taken = Sent(c, k) + n + 1 /\ httpCommand = CommandLine(r)
                                   /\ httpHeaders = Gathered(r, n)
      BY <1>1, <1>3, <2>2 DEF InRequest, HasRead, r, H
    <3>3. n \in Nat /\ n <= Len(H) /\ Sent(c, k) \in Nat
      BY <1>1, <1>2, <1>9, <3>1, <3>2, Positions
    <3>4. line = Encode(r)[(n + 1) + 1]
      <4>1. taken = Sent(c, k) + (n + 1) /\ (n + 1) + 1 <= Len(Encode(r)) /\ n + 1 \in Nat /\ 1 \in 1 .. Len(rest)
        BY <1>6, <1>9, <3>1, <3>2, <3>3
      <4>2. rest[1] = Encode(r)[(n + 1) + 1]
        BY <1>1, <1>2, <3>1, <4>1, Upcoming DEF c, r
      <4> QED
        BY <1>6, <4>2
    <3>5. CASE n < Len(H)
      <4>1. line = H[n + 1] /\ n + 1 \in 0 .. Len(H)
        BY <1>9, <3>1, <3>3, <3>4, <3>5
      <4>2. line[1] = "header" /\ Cardinality(DOMAIN httpHeaders) < MaxHeaders
            /\ WithHeader(httpHeaders, line) = Gathered(r, n + 1)
        <5>1. Asked(r) /\ n < Len(HeaderLines(r)) /\ line = HeaderLines(r)[n + 1]
          BY <1>9, <3>1, <3>5, <4>1 DEF H
        <5> HIDE DEF line
        <5> QED
          BY <3>2, <3>3, <5>1, GathersNext
      <4>3. line # Empty
        BY <4>2 DEF Empty
      <4>4. HeaderLine(line)
        BY <2>2, <4>3 DEF gets, FirstLine, HeaderLine, EmptyLine
      <4>5. httpHeaders' = Gathered(r, n + 1) /\ hpc' = hpc /\ httpCommand' = httpCommand
        BY <4>2, <4>4 DEF HeaderLine, WithHeader
      <4>6. taken' = Sent(c, k) + (n + 1) + 1
        BY <1>8, <3>2, <3>3
      <4> QED
        BY <1>2, <1>3, <1>4, <2>2, <3>1, <3>2, <4>1, <4>5, <4>6 DEF InRequest, HasRead, r, H
    <3>6. CASE n = Len(H)
      <4>1. line = Empty
        BY <1>9, <3>1, <3>3, <3>4, <3>6
      <4>2. hpc' = "request" /\ UNCHANGED request
        BY <2>2, <4>1 DEF gets, FirstLine, HeaderLine, EmptyLine
      <4>3. httpHeaders' = r.headers /\ httpCommand' = CommandLine(r)
        BY <1>9, <3>1, <3>2, <3>6, <4>2, GatheredAll DEF H, request
      <4>4. taken' = Sent(c, k) + (Len(H) + 1) + 1
        BY <1>8, <3>2, <3>3, <3>6
      <4> QED
        BY <1>2, <1>3, <1>4, <3>1, <4>2, <4>3, <4>4 DEF InRequest, HasRead, r, H
    <3> QED
      BY <3>3, <3>5, <3>6, <1>9, <3>1
  <2> QED
    BY <2>1, <2>2
<1>11. Handled(conversation, Len(handled))'
  BY <1>3, <1>10, HandledStays
<1> QED
  BY <1>8, <1>10, <1>11 DEF HttpInv, c, k

\* Before the empty line a request is not whole.
LEMMA NotWhole ==
    ASSUME Arriving, NEW k \in Nat, k < Len(conversation), NEW n \in Nat,
           n < Len(Encode(conversation[k + 1])), taken = Sent(conversation, k) + n, rest = <<>>
    PROVE  received < Sent(conversation, k + 1)
<1> DEFINE c == conversation
<1>1. c \in Conversations
  BY DEF Arriving
<1>2. k + 1 \in 1 .. Len(c) /\ (k + 1) - 1 = k /\ k \in 0 .. Len(c) /\ Asked(c[k + 1])
  BY <1>1, AllAsked
<1>3. Sent(c, k + 1) = Sent(c, k) + Len(Encode(c[k + 1])) /\ Sent(c, k) \in Nat
  BY <1>1, <1>2, Positions
<1>4. taken = received /\ Len(Encode(c[k + 1])) \in Nat
  BY <1>2, Lengths, Encoded
<1> HIDE DEF c
<1>5. received < Sent(c, k + 1)
  <2>1. received = Sent(c, k) + n /\ n < Len(Encode(c[k + 1]))
    BY <1>4 DEF c
  <2> QED
    BY <1>3, <1>4, <2>1
<1> QED
  BY <1>5 DEF c

LEMMA EncodeLength ==
    ASSUME NEW r, Asked(r)
    PROVE  /\ Len(Encode(r)) \in Nat /\ Len(HeaderLines(r)) \in Nat
           /\ Len(HeaderLines(r)) + 2 <= Len(Encode(r))
<1> DEFINE b == Len(r.body)
           h == Len(HeaderLines(r))
           e == Len(Encode(r))
<1>1. b \in Nat /\ h \in Nat /\ e = h + 2 + b
  BY Encoded
<1> HIDE DEF b, h, e
<1>2. e \in Nat /\ h + 2 <= e
  BY <1>1
<1> QED
  BY <1>1, <1>2 DEF e, h

LEMMA GetsEndInv == ASSUME HttpInv, getsEnd PROVE HttpInv'
<1> DEFINE k == Len(handled)
           c == conversation
           r == c[k + 1]
<1>1. Arriving /\ InRequest(c, k) /\ handled \in Seq(Dealt(c)) /\ c \in Conversations
  BY DEF HttpInv, Handled, Arriving
<1>2. k \in Nat /\ Len(c) \in Nat /\ k <= Len(c)
  BY <1>1, AllAsked, LenProperties DEF InRequest
<1>3. hpc = "lines" /\ rest = <<>> /\ UNCHANGED <<input, rest, backlog, handled>> /\ eof' = TRUE /\ hpc' = "closed"
  BY DEF getsEnd
<1>4. c' = c /\ k' = k /\ received' = received
  BY <1>3 DEF input
<1>5. Arriving'
  BY <1>1, <1>3, <1>4 DEF Arriving, taken
<1>6. InRequest(c, k)'
  BY <1>2, <1>3, <1>4 DEF InRequest
<1>7. ASSUME k < Len(c) PROVE received < Sent(c, k + 1)
  <2>1. Asked(r)
    BY <1>1, <1>2, <1>7, AllAsked
  <2>2. Sent(c, k) \in Nat
    BY <1>1, <1>2, Positions
  <2>3. \E n \in Nat : n < Len(Encode(r)) /\ taken = Sent(c, k) + n
    <3> HIDE DEF k, c, r
    <3>1. CASE httpCommand = NoCommand
      <4>1. taken = Sent(c, k) + 0 /\ 0 < Len(Encode(r))
        BY <1>1, <1>3, <2>1, <2>2, <3>1, EncodeLength DEF InRequest
      <4> QED
        BY <4>1
    <3>2. CASE httpCommand # NoCommand
      <4>1. PICK n \in 0 .. Len(HeaderLines(r)) : taken = Sent(c, k) + n + 1
        BY <1>1, <1>3, <3>2 DEF InRequest, HasRead, r
      <4>2. n + 1 \in Nat /\ n + 1 < Len(Encode(r)) /\ taken = Sent(c, k) + (n + 1)
        BY <2>1, <2>2, <4>1, EncodeLength
      <4> QED
        BY <4>2
    <3> QED
      BY <3>1, <3>2
  <2>4. PICK n \in Nat : n < Len(Encode(r)) /\ taken = Sent(c, k) + n
    BY <2>3
  <2> QED
    BY <1>1, <1>2, <1>3, <1>7, <2>4, NotWhole
<1>8. Handled(conversation, Len(handled))'
  BY <1>3, <1>7, HandledStays
<1> QED
  BY <1>5, <1>6, <1>8 DEF HttpInv

LEMMA RefuseInv == ASSUME HttpInv, refuse PROVE HttpInv'
<1> DEFINE k == Len(handled)
           c == conversation
<1>1. Arriving /\ InRequest(c, k) /\ handled \in Seq(Dealt(c)) /\ c \in Conversations
  BY DEF HttpInv, Handled, Arriving
<1>2. k \in Nat /\ Len(c) \in Nat /\ k <= Len(c)
  BY <1>1, AllAsked, LenProperties DEF InRequest
<1>3. hpc = "request" /\ UNCHANGED <<input, socket, handled>> /\ hpc' = "closed" /\ refused' # 0
  BY DEF refuse
<1>4. c' = c /\ k' = k /\ received' = received /\ rest' = rest /\ backlog' = backlog /\ eof' = eof
  BY <1>3 DEF input, socket
<1>5. Arriving'
  BY <1>1, <1>4 DEF Arriving, taken
<1>6. InRequest(c, k)'
  BY <1>1, <1>2, <1>3, <1>4 DEF InRequest
<1>7. Handled(conversation, Len(handled))'
  BY <1>3, HandledStays
<1> QED
  BY <1>5, <1>6, <1>7 DEF HttpInv

\* The request that is dealt with has the body that was sent with it.
LEMMA BodyIs ==
    ASSUME NEW r, Asked(r), httpCommand = CommandLine(r), httpHeaders = r.headers, Refusal = 0,
           backlog \in Nat, backlog = 0 \/ backlog < HttpReadbuf,
           r.method \in {"POST", "PUT"} =>
               Len(r.body) > MaxPost \/ Len(r.body) + HttpReadbuf <= RingRoom + 1
    PROVE  BodySize = Len(r.body)
<1>1. method = r.method
  BY DEF method, CommandLine
<1>2. length = Len(r.body) /\ Len(r.body) \in Nat
  BY Encoded DEF length, Asked
<1>3. CASE Posting
  <2>1. r.method \in {"POST", "PUT"}
    BY <1>1, <1>3 DEF Posting
  <2>2. ~ (length > MaxPost)
    <3>1. (CASE Posting /\ length > MaxPost -> 413
             [] method = "GET" /\ length > 0 -> 400
             [] method \notin {"POST", "PUT", "GET", "DELETE"} -> 501
             [] OTHER -> 0) = 0
      BY DEF Refusal
    <3>2. method # "GET" /\ method \in {"POST", "PUT", "GET", "DELETE"}
      BY <1>1, <2>1
    <3> HIDE DEF length
    <3> QED
      BY <1>3, <3>1, <3>2
  <2>3. Len(r.body) + HttpReadbuf <= RingRoom + 1
    BY <1>2, <2>1, <2>2
  <2>4. Smaller(length, room) = length
    <3>1. HttpReadbuf \in Nat /\ HttpReadbuf # 0 /\ RingRoom \in Nat
      BY HttpBounds
    <3>2. length <= RingRoom - backlog
      BY <1>2, <2>3, <3>1
    <3> QED
      BY <1>2, <3>1, <3>2 DEF Smaller, room
  <2> QED
    BY <1>2, <1>3, <2>4 DEF BodySize
<1>4. CASE ~ Posting
  <2>1. Len(r.body) = 0
    <3>1. (CASE Posting /\ length > MaxPost -> 413
             [] method = "GET" /\ length > 0 -> 400
             [] method \notin {"POST", "PUT", "GET", "DELETE"} -> 501
             [] OTHER -> 0) = 0
      BY DEF Refusal
    <3>2. method = "GET" \/ method = "DELETE"
      BY <1>4, <3>1 DEF Posting
    <3>3. CASE method = "GET"
      <4>1. ~ (length > 0)
        BY <1>4, <3>1, <3>3
      <4> QED
        BY <1>2, <4>1
    <3>4. CASE method = "DELETE"
      <4>1. r.body = <<>>
        BY <1>1, <3>4 DEF Asked
      <4> QED
        BY <4>1
    <3> QED
      BY <3>2, <3>3, <3>4
  <2> QED
    BY <1>4, <2>1 DEF BodySize
<1> QED
  BY <1>3, <1>4

\* What an answer says, and who gives it.
LEMMA AnswerIs ==
    ASSUME NEW r, Asked(r), httpCommand = CommandLine(r), httpHeaders = r.headers,
           NEW wish \in {Wish, FALSE}, NEW a \in Answers(wish)
    PROVE  a \in Said /\ Tells(a) /\ Guarded(a, r)
<1>1. uri = r.uri
  BY DEF uri, CommandLine
<1>2. Chain \in Seq(Range(Chain)) /\ Len(Chain) \in Nat /\ DOMAIN Chain = 1 .. Len(Chain)
      /\ \A i \in DOMAIN Chain : Chain[i].kind \in {"auth", "rewrite", "page", "direct"}
  <2>1. Chain \in Seq(Range(Chain))
    BY HttpBounds
  <2>2. Len(Chain) \in Nat /\ DOMAIN Chain = 1 .. Len(Chain)
    BY <2>1
  <2>3. \A i \in DOMAIN Chain : Chain[i] \in Range(Chain)
    BY DEF Range
  <2> QED
    BY <2>1, <2>2, <2>3, HttpBounds
<1>3. ASSUME NEW o \in DOMAIN Chain, Chain[o].kind = "auth", r.uri \in Chain[o].matches, o \notin Willing
      PROVE  Header("Authorization", "good") \in HeaderSet(r)
  <2>1. run(Chain[o]) = 0
    BY <1>1, <1>3 DEF Willing
  <2>2. Says("Authorization") = "good"
    BY <1>3, <2>1 DEF run
  <2>3. "Authorization" \in DOMAIN r.headers /\ r.headers["Authorization"] = "good"
    BY <2>2 DEF Says
  <2> QED
    BY <2>3 DEF HeaderSet
<1>4. ASSUME NEW i \in DOMAIN Chain PROVE run(Chain[i]) \in {0, 200, 401}
  <2>1. Chain[i].kind \in {"auth", "rewrite", "page", "direct"}
    BY <1>2
  <2> QED
    BY <2>1 DEF run
<1>5. CASE Willing = {}
  <2>1. a = NotFound
    BY <1>5 DEF Answers
  <2>2. a.by = 0 /\ a.tells = "nothing" /\ a.keep = FALSE /\ a \in Said
    BY <1>2, <2>1 DEF NotFound, Said
  <2>3. Guarded(a, r)
    BY <1>3, <1>5 DEF Guarded
  <2> QED
    BY <2>2, <2>3 DEF Tells
<1>6. CASE Willing # {}
  <2>1. PICK i \in {j \in Willing : FirstToAnswer(j)}, keep \in {wish, FALSE} : a = Answer(i, wish, keep)
    <3> DEFINE S == {j \in Willing : FirstToAnswer(j)}
               W == {wish, FALSE}
               Q == {Answer(i, wish, keep) : i \in S, keep \in W}
    <3>1. Answers(wish) = IF Willing = {} THEN {NotFound} ELSE Q
      BY DEF Answers
    <3> HIDE DEF Q
    <3>2. a \in Q
      BY <1>6, <3>1, Zenon
    <3> HIDE DEF S, W
    <3>3. \E i \in S, keep \in W : a = Answer(i, wish, keep)
      BY <3>2, SMT DEF Q
    <3> QED
      BY <3>3, Zenon DEF S, W
  <2>2. keep \in BOOLEAN
    <3>1. Wish \in BOOLEAN
      <4>1. CASE Says("Connection") = "close"
        <5>1. Wish = FALSE
          BY <4>1 DEF Wish
        <5> QED
          BY <5>1
      <4>2. CASE Says("Connection") = "keep-alive"
        <5>1. Wish = TRUE
          BY <4>2 DEF Wish
        <5> QED
          BY <5>1
      <4>3. CASE Says("Connection") # "close" /\ Says("Connection") # "keep-alive"
        <5>1. Wish = (httpCommand[4] = "1.1")
          BY <4>3 DEF Wish
        <5> QED
          BY <5>1
      <4> QED
        BY <4>1, <4>2, <4>3
    <3> QED
      BY <3>1, Zenon
  <2>3. i \in DOMAIN Chain /\ i \in Willing /\ FirstToAnswer(i)
    BY <2>1 DEF Willing
  <2>4. a.by = i /\ a.status = run(Chain[i]) /\ a.keep = keep
    BY <2>1 DEF Answer
  <2>5. a.tells = IF Chain[i].kind = "direct" THEN "nothing" ELSE IF keep THEN "keep-alive" ELSE "close"
    BY <2>1 DEF Answer, TellOutcome
  <2>6. Tells(a)
    BY <2>4, <2>5 DEF Tells
  <2>7. a \in Said
    <3>1. a = [by |-> i, status |-> run(Chain[i]), keep |-> keep, tells |-> a.tells]
      BY <2>1 DEF Answer
    <3>2. a.tells \in {"nothing", "keep-alive", "close"} /\ i \in 0 .. Len(Chain)
          /\ run(Chain[i]) \in {0, 200, 401, 404}
      BY <1>2, <1>4, <2>3, <2>5
    <3> QED
      BY <2>2, <3>1, <3>2 DEF Said
  <2>8. Guarded(a, r)
    <3> SUFFICES ASSUME NEW o \in DOMAIN Chain, Chain[o].kind = "auth", r.uri \in Chain[o].matches,
                        a.by \notin 1 .. o
                 PROVE  Header("Authorization", "good") \in HeaderSet(r)
      BY DEF Guarded
    <3>1. ~ (i <= o)
      BY <1>2, <2>3, <2>4
    <3>2. o \notin Willing
      BY <2>3, <3>1 DEF FirstToAnswer
    <3> QED
      BY <1>3, <3>2
  <2> QED
    BY <2>6, <2>7, <2>8
<1> QED
  BY <1>5, <1>6

LEMMA HandleInv == ASSUME BodiesFit, HttpInv, handle PROVE HttpInv'
<1> DEFINE k == Len(handled)
           c == conversation
           r == c[k + 1]
           H == HeaderLines(r)
           E == Encode(r)
<1>1. Arriving /\ InRequest(c, k) /\ Handled(c, k) /\ handled \in Seq(Dealt(c)) /\ c \in Conversations
  BY DEF HttpInv, Handled, Arriving
<1>2. k \in Nat /\ Len(c) \in Nat /\ k <= Len(c)
  BY <1>1, AllAsked, LenProperties DEF InRequest
<1>3. hpc = "request" /\ Refusal = 0 /\ UNCHANGED input /\ refused' = refused /\ eof = FALSE
      /\ httpCommand' = NoCommand /\ httpHeaders' = <<>>
  BY <1>1 DEF handle, InRequest
<1>4. k < Len(c) /\ taken = Sent(c, k) + (Len(H) + 1) + 1 /\ httpCommand = CommandLine(r)
      /\ httpHeaders = r.headers
  BY <1>1, <1>3 DEF InRequest, HasRead
<1>5. k + 1 \in 1 .. Len(c) /\ (k + 1) - 1 = k /\ k \in 0 .. Len(c) /\ k + 1 \in 0 .. Len(c) /\ Asked(r)
      /\ r \in Range(c)
  <2>1. k + 1 \in 1 .. Len(c) /\ (k + 1) - 1 = k /\ k \in 0 .. Len(c) /\ k + 1 \in 0 .. Len(c)
    BY <1>2, <1>4
  <2>2. c \in Seq(Range(c))
    BY <1>1, AllAsked
  <2> QED
    BY <1>1, <2>1, <2>2, AllAsked, ElementOfSeq
<1>6. PICK filled \in Filled(BodySize), wish \in {Wish, FALSE} : \E answer \in Answers(wish) :
         /\ Consume(Smaller(BodySize, filled), filled)
         /\ eof' = (Smaller(BodySize, filled) < BodySize)
         /\ handled' = Append(handled,
              [command |-> httpCommand, headers |-> httpHeaders,
               body |-> SubSeq(rest, 1, Smaller(BodySize, filled)), answer |-> answer])
         /\ hpc' = IF answer.keep /\ ~ eof' THEN "lines" ELSE "closed"
  BY DEF handle
<1> DEFINE n == Smaller(BodySize, filled)
           b == SubSeq(rest, 1, n)
<1>7. PICK answer \in Answers(wish) :
         /\ Consume(n, filled) /\ eof' = (n < BodySize)
         /\ handled' = Append(handled, [command |-> httpCommand, headers |-> httpHeaders,
                                        body |-> b, answer |-> answer])
         /\ hpc' = IF answer.keep /\ ~ eof' THEN "lines" ELSE "closed"
  BY <1>6
<1>8. answer \in Said /\ Tells(answer) /\ Guarded(answer, r)
  BY <1>4, <1>5, AnswerIs
<1>9. BodySize = Len(r.body) /\ Len(r.body) \in Nat /\ Len(H) \in Nat /\ Len(E) \in Nat
      /\ Len(E) = Len(H) + 2 + Len(r.body) /\ \A i \in 1 .. Len(r.body) : E[Len(H) + 2 + i] = r.body[i]
  <2>1. r.method \in {"POST", "PUT"} =>
            Len(r.body) > MaxPost \/ Len(r.body) + HttpReadbuf <= RingRoom + 1
    BY <1>1, <1>5 DEF BodiesFit
  <2>2. backlog \in Nat /\ (backlog = 0 \/ backlog < HttpReadbuf)
    BY <1>1 DEF Arriving
  <2>3. BodySize = Len(r.body)
    BY <1>3, <1>4, <1>5, <2>1, <2>2, BodyIs
  <2> QED
    BY <1>5, <2>3, Encoded, EncodeLength
<1>10. n \in Nat /\ n <= Len(r.body)
  <2>1. filled \in Nat
    <3>1. Len(rest) \in Nat /\ backlog \in Nat
      BY <1>1, Lengths DEF Arriving
    <3> QED
      BY <1>9, <3>1 DEF Filled
  <2> QED
    BY <1>9, <2>1 DEF Smaller
<1>11. Arriving' /\ taken' = taken + n /\ n <= Len(rest) /\ (n < BodySize => n = Len(rest))
  BY <1>1, <1>3, <1>7, <1>9, <1>10, Consumed
<1>12. Len(rest) \in Nat /\ taken \in Nat /\ taken + Len(rest) = received /\ Sent(c, k) \in Nat
       /\ Sent(c, k + 1) = Sent(c, k) + Len(E) /\ Sent(c, k + 1) \in Nat
  BY <1>1, <1>5, Lengths, Positions
<1> HIDE DEF n, E, H
<1>13. b \in Seq(Pieces(c)) /\ Len(b) = n /\ \A i \in 1 .. n : b[i] = r.body[i]
  <2>1. rest \in Seq(Pieces(c)) /\ 1 \in Int /\ n \in Int
    BY <1>1, <1>10 DEF Arriving
  <2>2. \A i \in 1 .. n : i \in 1 .. Len(rest) /\ rest[i] \in Pieces(c)
    BY <1>10, <1>11, <1>12, <2>1, ElementOfSeq
  <2> DEFINE P == Pieces(c)
  <2> HIDE DEF P
  <2>3. b \in Seq(P) /\ Len(b) = (IF 1 <= n THEN n - 1 + 1 ELSE 0)
        /\ \A i \in 1 .. n - 1 + 1 : b[i] = rest[1 + i - 1]
    BY <2>1, <2>2, SubSeqProperties DEF P
  <2>4. Len(b) = n /\ n - 1 + 1 = n /\ \A i \in 1 .. n : 1 + i - 1 = i
    BY <1>10, <2>3
  <2>5. ASSUME NEW i \in 1 .. n PROVE b[i] = r.body[i]
    <3>1. b[i] = rest[i]
      BY <2>3, <2>4
    <3>2. i \in 1 .. Len(r.body) /\ i \in 1 .. Len(rest)
      BY <1>9, <1>10, <2>2
    <3>3. taken = Sent(c, k) + (Len(H) + 2) /\ Len(H) + 2 \in Nat /\ (Len(H) + 2) + i <= Len(E)
      <4>1. taken = Sent(c, k) + (Len(H) + 1) + 1
        BY <1>4
      <4>2. Sent(c, k) \in Nat /\ Len(H) \in Nat /\ Len(E) = Len(H) + 2 + Len(r.body) /\ Len(r.body) \in Nat
        BY <1>9, <1>12
      <4>3. i \in Nat /\ i <= Len(r.body)
        BY <3>2, <4>2
      <4> QED
        BY ONLY <4>1, <4>2, <4>3
    <3>4. rest[i] = E[(Len(H) + 2) + i]
      BY <1>1, <1>2, <1>4, <3>2, <3>3, Upcoming DEF E
    <3> QED
      BY <1>9, <3>1, <3>2, <3>4
  <2> QED
    BY <2>3, <2>4, <2>5 DEF P
<1>14. n = Len(r.body) => b = r.body
  <2>1. r.body = [i \in 1 .. Len(r.body) |-> r.body[i]]
    BY <1>5 DEF Asked
  <2>2. b = [i \in 1 .. Len(b) |-> b[i]]
    BY <1>13
  <2> HIDE DEF b
  <2> QED
    BY <1>13, <2>1, <2>2
<1>15. IsPrefix(b, r.body)
  <2>1. r.body \in Seq(Range(r.body))
    BY <1>5 DEF Asked
  <2>2. SubSeq(b, 1, n) = [i \in 1 .. n |-> b[i]]
    BY <1>10
  <2>3. SubSeq(r.body, 1, n) = [i \in 1 .. n |-> r.body[i]]
    BY <1>10
  <2> HIDE DEF b
  <2> QED
    BY <1>10, <1>13, <2>2, <2>3 DEF IsPrefix
<1>16. /\ n = Len(r.body) => taken' = Sent(c, k + 1)
       /\ n < Len(r.body) => received < Sent(c, k + 1)
  <2>1. taken = Sent(c, k) + Len(H) + 2 /\ taken' = taken + n /\ taken + Len(rest) = received
        /\ Sent(c, k + 1) = Sent(c, k) + (Len(H) + 2 + Len(r.body))
    <3>1. taken = Sent(c, k) + Len(H) + 2
      BY <1>4, <1>9, <1>12
    <3>2. Len(E) = Len(H) + 2 + Len(r.body) /\ Sent(c, k + 1) = Sent(c, k) + Len(E)
      BY <1>9, <1>12
    <3> QED
      BY <1>11, <1>12, <3>1, <3>2
  <2>2. n < Len(r.body) => n = Len(rest)
    BY <1>9, <1>11
  <2> DEFINE sent == Sent(c, k)
             next == Sent(c, k + 1)
             h == Len(H)
             d == Len(r.body)
             t == taken
             u == taken'
             l == Len(rest)
  <2>3. sent \in Nat /\ next \in Nat /\ h \in Nat /\ d \in Nat /\ t \in Nat /\ l \in Nat /\ n \in Nat
        /\ t = sent + h + 2 /\ u = t + n /\ t + l = received /\ next = sent + (h + 2 + d)
        /\ (n < d => n = l)
    BY <1>9, <1>10, <1>12, <2>1, <2>2
  <2> HIDE DEF sent, next, h, d, t, u, l
  <2>4. (n = d => u = next) /\ (n < d => received < next)
    BY <2>3
  <2> QED
    BY <2>4 DEF u, next, d
<1> DEFINE item == [command |-> httpCommand, headers |-> httpHeaders, body |-> b, answer |-> answer]
<1>17. /\ handled' \in Seq(Dealt(c)) /\ Len(handled') = k + 1 /\ handled'[k + 1] = item
       /\ \A i \in 1 .. k : handled'[i] = handled[i]
  <2>1. item \in Dealt(c)
    <3>1. CommandLine(r) \in {CommandLine(c[i]) : i \in 1 .. Len(c)} /\ r.headers \in {c[i].headers : i \in 1 .. Len(c)}
      BY <1>5
    <3> HIDE DEF b
    <3> QED
      BY <1>4, <1>8, <1>13, <3>1 DEF Dealt
  <2> HIDE DEF item
  <2>2. handled' = Append(handled, item)
    BY <1>7 DEF item
  <2> QED
    BY <1>1, <2>1, <2>2, AppendProperties
<1>18. item.command = CommandLine(r) /\ item.headers = r.headers /\ item.body = b /\ item.answer = answer
  BY <1>4
<1> HIDE DEF item, b
<1>19. c' = c /\ received' = received /\ k' = k + 1
  BY <1>3, <1>17 DEF input
<1>20. eof' \in BOOLEAN /\ (eof' <=> n < Len(r.body)) /\ (~ eof' <=> n = Len(r.body))
  <2>1. eof' = (n < Len(r.body))
    BY <1>7, <1>9
  <2>2. ~ (n < Len(r.body)) <=> n = Len(r.body)
    BY <1>9, <1>10
  <2>3. (n < Len(r.body)) \in BOOLEAN
    OBVIOUS
  <2> DEFINE less == n < Len(r.body)
             same == n = Len(r.body)
  <2>4. eof' = less /\ less \in BOOLEAN /\ (~ less <=> same)
    BY <2>1, <2>2, <2>3
  <2> HIDE DEF less, same
  <2>5. eof' \in BOOLEAN /\ (eof' <=> less) /\ (~ eof' <=> same)
    BY <2>4, Zenon
  <2> QED
    BY <2>5 DEF less, same
<1>21. hpc' \in {"lines", "closed"} /\ (hpc' = "lines" <=> answer.keep /\ ~ eof')
  <2>1. answer.keep \in BOOLEAN
    BY <1>8 DEF Said
  <2> QED
    BY <1>7, <2>1, <1>20
<1> HIDE DEF k, c, r
<1>22. InRequest(c, k)'
  <2>1. hpc' = "lines" => taken' = Sent(c, k + 1)
    BY <1>16, <1>20, <1>21
  <2>2. k + 1 <= Len(c)
    BY <1>2, <1>4
  <2> QED
    BY <1>3, <1>19, <1>20, <1>21, <2>1, <2>2 DEF InRequest
<1>23. \A i \in 1 .. k :
          /\ AsSent(handled[i], c[i]) /\ BodyWhole(handled[i], c[i])
          /\ Tells(handled[i].answer) /\ Guarded(handled[i].answer, c[i])
          /\ handled[i].answer.keep
  BY <1>1, <1>3 DEF Handled
<1>24. AsSent(item, r) /\ Tells(item.answer) /\ Guarded(item.answer, r)
       /\ (BodyWhole(item, r) \/ (eof' /\ BodyCut(item, r)))
       /\ (item.answer.keep \/ hpc' = "closed")
  <2>1. BodyWhole(item, r) \/ (eof' /\ BodyCut(item, r))
    BY <1>14, <1>15, <1>18, <1>20 DEF BodyWhole, BodyCut
  <2>2. item.answer.keep \/ hpc' = "closed"
    BY <1>18, <1>21
  <2> QED
    BY <1>8, <1>18, <2>1, <2>2 DEF AsSent
<1>25. ASSUME hpc' = "closed", k + 1 < Len(c), item.answer.keep
       PROVE  received < Sent(c, k + 1 + 1)
  <2>1. received < Sent(c, k + 1)
    BY <1>16, <1>18, <1>20, <1>21, <1>25
  <2>2. k + 1 + 1 \in 0 .. Len(c) /\ k + 1 <= k + 1 + 1
    BY <1>2, <1>25
  <2>3. Sent(c, k + 1) <= Sent(c, k + 1 + 1) /\ Sent(c, k + 1 + 1) \in Nat
    BY <1>1, <1>5, <2>2, SentGrows, Positions
  <2>4. received \in Nat
    BY <1>1 DEF Arriving
  <2> QED
    BY <1>12, <2>1, <2>3, <2>4
<1>26. Handled(c, k)'
  <2>1. \A i \in 1 .. k + 1 : i \in 1 .. k \/ i = k + 1
    BY <1>2
  <2>2. c[k + 1] = r
    BY DEF r
  <2>3. ASSUME NEW i \in 1 .. k + 1
        PROVE  /\ AsSent(handled'[i], c[i])
               /\ BodyWhole(handled'[i], c[i]) \/ (eof' /\ i = k + 1 /\ BodyCut(handled'[i], c[i]))
               /\ Tells(handled'[i].answer) /\ Guarded(handled'[i].answer, c[i])
               /\ handled'[i].answer.keep \/ (i = k + 1 /\ hpc' = "closed")
    <3>1. CASE i \in 1 .. k
      BY <1>17, <1>23, <3>1
    <3>2. CASE i = k + 1
      BY <1>17, <1>24, <2>2, <3>2
    <3> QED
      BY <2>1, <3>1, <3>2
  <2>4. hpc' = "closed" /\ refused' = 0 /\ k + 1 > 0 /\ k + 1 < Len(c) =>
            ~ handled'[k + 1].answer.keep \/ received < Sent(c, k + 1 + 1)
    BY <1>17, <1>25
  <2> QED
    BY <1>17, <1>19, <2>3, <2>4 DEF Handled
<1> QED
  BY <1>11, <1>22, <1>26 DEF HttpInv, c, k

LEMMA HttpInitInv == HttpInit => HttpInv
<1> SUFFICES ASSUME HttpInit PROVE HttpInv
  OBVIOUS
<1> DEFINE c == conversation
           S == Stream(c)
<1>1. c \in Conversations /\ received \in 0 .. Len(S) /\ rest = SubSeq(S, 1, received) /\ backlog = 0
      /\ eof = FALSE /\ hpc = "lines" /\ httpCommand = NoCommand /\ httpHeaders = <<>> /\ handled = <<>>
  BY DEF HttpInit
<1>2. S \in Seq(Pieces(c)) /\ Len(S) \in Nat /\ Sent(c, 0) = 0 /\ Len(c) \in Nat
  BY <1>1, Positions, AllAsked, LenProperties
<1> HIDE DEF S, c
<1>3. rest \in Seq(Pieces(c)) /\ Len(rest) = received /\ \A i \in 1 .. received : rest[i] = S[i]
  <2>1. received \in Nat /\ received <= Len(S)
    BY <1>1, <1>2
  <2>2. \A i \in 1 .. received : S[i] \in Pieces(c)
    BY <1>2, <2>1, ElementOfSeq
  <2> DEFINE P == Pieces(c)
  <2> HIDE DEF P
  <2>3. rest \in Seq(P) /\ Len(rest) = (IF 1 <= received THEN received - 1 + 1 ELSE 0)
        /\ \A i \in 1 .. received - 1 + 1 : rest[i] = S[1 + i - 1]
    BY <1>1, <2>1, <2>2, SubSeqProperties DEF P
  <2>4. received - 1 + 1 = received /\ \A i \in 1 .. received : 1 + i - 1 = i
    BY <2>1
  <2> QED
    BY <2>1, <2>3, <2>4 DEF P
<1>4. taken = 0
  BY <1>1, <1>2, <1>3 DEF taken
<1>5. Arriving
  <2>1. PlacedIn(S, 0, rest)
    BY <1>1, <1>2, <1>3 DEF PlacedIn
  <2>2. received \in Nat /\ received <= Len(S)
    BY <1>1, <1>2
  <2> QED
    BY <1>1, <1>3, <1>4, <2>1, <2>2 DEF Arriving, S, c
<1>6. Len(handled) = 0 /\ handled \in Seq(Dealt(c))
  BY <1>1, EmptySeq
<1>7. InRequest(c, 0)
  <2>1. 0 <= Len(c)
    BY <1>2
  <2> QED
    BY <1>1, <1>2, <1>4, <2>1 DEF InRequest
<1>8. Handled(c, 0)
  BY <1>1, <1>6 DEF Handled
<1> QED
  BY <1>5, <1>6, <1>7, <1>8 DEF HttpInv, c

LEMMA HttpStepInv == ASSUME BodiesFit PROVE HttpInv /\ [HttpNext]_httpVars => HttpInv'
<1> SUFFICES ASSUME HttpInv, [HttpNext]_httpVars PROVE HttpInv'
  OBVIOUS
<1>1. CASE gets
  BY <1>1, GetsInv
<1>2. CASE getsEnd
  BY <1>2, GetsEndInv
<1>3. CASE refuse
  BY <1>3, RefuseInv
<1>4. CASE handle
  BY <1>4, HandleInv
<1>5. CASE UNCHANGED httpVars
  BY <1>5 DEF httpVars, input, socket, request, HttpInv, Arriving, InRequest, HasRead, Handled, taken
<1> QED
  BY <1>1, <1>2, <1>3, <1>4, <1>5 DEF HttpNext

LEMMA HttpInvMeans == HttpInv => RequestsHandled
<1> SUFFICES ASSUME HttpInv PROVE RequestsHandled
  OBVIOUS
<1> DEFINE k == Len(handled)
           c == conversation
<1>1. Arriving /\ InRequest(c, k) /\ Handled(c, k) /\ c \in Conversations
  BY DEF HttpInv, Arriving
<1>2. k \in Nat /\ Len(c) \in Nat /\ k <= Len(c) /\ DOMAIN handled = 1 .. k /\ DOMAIN c = 1 .. Len(c)
  <2>1. handled \in Seq(Dealt(c)) /\ c \in Seq(Range(c))
    BY <1>1, AllAsked DEF Handled
  <2> QED
    BY <1>1, <2>1, LenProperties DEF InRequest
<1>3. RequestsAsSent
  BY <1>1, <1>2 DEF Handled, RequestsAsSent, AsSent, BodyWhole, BodyCut
<1>4. BehindAuth
  BY <1>1, <1>2 DEF Handled, BehindAuth, Guarded, HeaderSet
<1>5. \A i \in 1 .. Len(handled) - 1 : handled[i].answer.tells # "close"
  <2> SUFFICES ASSUME NEW i \in 1 .. k - 1 PROVE handled[i].answer.tells # "close"
    OBVIOUS
  <2>1. i \in 1 .. k /\ i # k
    <3> HIDE DEF k
    <3> QED
      BY <1>2
  <2> QED
    BY <1>1, <2>1 DEF Handled, Tells
<1>6. ASSUME hpc = "closed", refused = 0, handled # <<>>, Last(handled).answer.tells = "keep-alive"
      PROVE  Len(handled) >= WholeRequests
  <2>1. k > 0 /\ k \in 1 .. k
    <3>1. handled \in Seq(Dealt(c))
      BY <1>1 DEF Handled
    <3> QED
      BY <1>2, <1>6, <3>1, EmptySeq
  <2>2. handled[k].answer.keep
    BY <1>1, <1>6, <2>1 DEF Handled, Tells, Last
  <2> DEFINE T == {i \in DOMAIN c : Len(Stream(SubSeq(c, 1, i))) <= received}
  <2>3. T \subseteq 1 .. k
    <3> SUFFICES ASSUME NEW i \in 1 .. Len(c), Sent(c, i) <= received, k < i PROVE FALSE
      BY <1>2 DEF Sent
    <3>1. k < Len(c) /\ k + 1 \in 0 .. Len(c) /\ i \in 0 .. Len(c) /\ k + 1 <= i
      BY <1>2
    <3>2. received < Sent(c, k + 1)
      BY <1>1, <1>6, <2>1, <2>2, <3>1 DEF Handled
    <3>3. Sent(c, k + 1) <= Sent(c, i) /\ Sent(c, k + 1) \in Nat /\ Sent(c, i) \in Nat
      BY <1>1, <3>1, SentGrows, Positions
    <3>4. received \in Nat
      BY <1>1 DEF Arriving
    <3> QED
      BY <3>2, <3>3, <3>4
  <2>4. IsFiniteSet(1 .. k) /\ Cardinality(1 .. k) = k
    BY <1>2, <2>1, FS_Interval
  <2> HIDE DEF T
  <2>5. Cardinality(T) <= k
    BY <2>3, <2>4, FS_Subset
  <2>6. WholeRequests = Cardinality(T)
    BY DEF WholeRequests, T
  <2>7. Cardinality(T) \in Nat
    BY <2>3, <2>4, FS_Subset, FS_CardinalityType
  <2> QED
    BY <1>2, <2>5, <2>6, <2>7
<1>7. KeepsItsWord
  BY <1>5, <1>6 DEF KeepsItsWord
<1> QED
  BY <1>3, <1>4, <1>7 DEF RequestsHandled, RequestsKept

\* Where every body either is refused or fits the ring, each request is handled
\* as it was sent and cut, as many of them as the Connection header promised, and
\* behind an httpdbasicauth only with the credentials it has itself (httpd.cpp,
\* httpdworker::run and httpd::handle).
THEOREM RequestsAreHandled == ASSUME BodiesFit PROVE HttpSpec => []RequestsHandled
<1>1. HttpInit => HttpInv
  BY HttpInitInv
<1>2. HttpInv /\ [HttpNext]_httpVars => HttpInv'
  BY HttpStepInv
<1>3. HttpInv => RequestsHandled
  BY HttpInvMeans
<1> QED
  BY <1>1, <1>2, <1>3, PTL DEF HttpSpec
=============================================================================
