------------------------------ MODULE SslCodec ------------------------------
(***************************************************************************)
(* Grace's sockets over SSL: the iocodec between the SSL library and a     *)
(* tcpsocket (sslsocket.cpp), the loop that connects a client              *)
(* (tcpsocket::connect), the one that accepts at the server                *)
(* (ssllistener::tryaccept) and what reading and writing do with a codec   *)
(* (file.cpp), for several connections to one server process, which share  *)
(* the library's table of sessions.                                        *)
(*                                                                         *)
(* A record takes two reads at least: wire holds what the peer has written *)
(* and is not wholly read, half says that the first part of its head is.   *)
(* A client is Grace's own, another one that is made with the same library *)
(* but resumes sessions and waits for the end of the handshake, or one     *)
(* that talks plain text (words of at least a record's header), which a    *)
(* listener may let through. The socket buffers are never too small: a     *)
(* read asks for less than they have room for.                             *)
(***************************************************************************)
EXTENDS MatrixSsl, FiniteSets

CONSTANTS
    MaxConnections, MaxSaid, MaxRounds,
    Inbuf, MaxInbuf,   \* the room of a codec's buffer at first, and what it grows to
    Sites,             \* the keys and certificates of servers
    Kinds,             \* of clients: "grace", "other" and "plain"
    Brief,             \* the connections whose clients are other ones, whose reads take all there is
                       \* and who say nothing
    TableSizes,        \* SSL_SESSION_TABLE_SIZE
    Crowded            \* whether a client may come when the table has no entry for its session

Connections == 1 .. MaxConnections
Sides == {"client", "server"}
Peer(side) == IF side = "client" THEN "server" ELSE "client"
\* The words an end may say, in plain text twice as many.
Bound(kind) == IF kind = "plain" THEN 2 * MaxSaid ELSE MaxSaid

VARIABLES
    conn,      \* per connection its kind, its two ends and the counters of their loops
    sessions,  \* the library's table
    now        \* the clock

sslVars == <<conn, sessions, now>>

\* A connected socket with a new codec.
NewEnd(ssl) ==
    [ssl |-> ssl, codec |-> TRUE, phase |-> "handshake", wire |-> <<>>, half |-> 0, eof |-> FALSE,
     insock |-> <<>>, inroom |-> Inbuf, outsock |-> <<>>, handshakedone |-> FALSE,
     allowpassthrough |-> TRUE, passthrough |-> FALSE, said |-> 0, heard |-> <<>>, alarm |-> FALSE]
NoConnection == [kind |-> "none", rounds |-> 0, mayskip |-> FALSE]
Ends == {<<c, side>> \in Connections \X Sides : conn[c].kind # "none"}
End(c, side) == conn[c][side]

SslInit ==
    /\ conn = [c \in Connections |-> NoConnection] /\ now = 0
    /\ \E size \in TableSizes : sessions = EmptyTable(size)

-----------------------------------------------------------------------------
(* The codec.                                                              *)

\* A call of the library with an end's context and buffer.
Step(e, table, t) == [ssl |-> e.ssl, table |-> table, now |-> t, out |-> <<>>, room |-> e.inroom,
                      rc |-> "success", data |-> <<>>, alert |-> "none", taken |-> FALSE]
\* The client says hello at once; a server waits for it.
Setup(e) ==
    IF e.ssl.server THEN e
    ELSE LET hello == WriteClientHello(Step(e, sessions, now), SupportedCiphers)
         IN  [e EXCEPT !.ssl = hello.ssl, !.outsock = hello.out, !.handshakedone = TRUE]

\* The buffer grows until the library is content with it or it is at its limit.
DecodeWithRoom(st, r) ==
    FoldLeft(LAMBDA s, grown : IF s.rc = "full" /\ s.room * grown <= MaxInbuf
                               THEN Decode([s EXCEPT !.room = @ * grown, !.rc = "success"], r) ELSE s,
             [st EXCEPT !.rc = "full"], <<1>> \o [i \in 1 .. MaxInbuf |-> 2])
SeenDone(e) == IF e.ssl.server /\ HandshakeIsComplete(e.ssl) THEN [e EXCEPT !.handshakedone = TRUE] ELSE e
Words(records) == FlattenSeq([i \in DOMAIN records |-> records[i].body])

\* The response goes in front of what waits to be written.
ResponseFirst(e, out) == [SeenDone(e) EXCEPT !.allowpassthrough = FALSE, !.outsock = out \o @]

\* MUTANT: what is let through stays in the codec's buffer.
LetThroughAgain(e) == [e EXCEPT !.heard = @ \o Words(e.insock), !.passthrough = TRUE]
\* What a client says in plain text is handed on as it came.
LetThrough(e) == [e EXCEPT !.heard = @ \o Words(e.insock), !.insock = <<>>, !.passthrough = TRUE]

\* What fetchinput does with what the library says of the record at the head of insock.
Fetched(f, d) ==
    LET e == [f.e EXCEPT !.ssl = d.ssl, !.inroom = d.room, !.insock = IF d.taken THEN Tail(@) ELSE @]
        next == [f EXCEPT !.table = d.table, !.now = d.now]
    IN  CASE d.rc = "success" -> [next EXCEPT !.e = e]
          [] d.rc = "process" ->
               [next EXCEPT !.e = [SeenDone(e) EXCEPT !.heard = @ \o d.data, !.allowpassthrough = FALSE]]
          [] d.rc = "send" -> [next EXCEPT !.e = ResponseFirst(e, d.out), !.result = "more"]
          [] d.rc = "alert" -> [next EXCEPT !.e = e,
                                            !.result = IF d.alert = "close_notify" THEN "done" ELSE "throw"]
          [] d.rc = "full" -> [next EXCEPT !.e = e, !.result = "throw"]
          [] d.rc = "error" ->
               IF e.allowpassthrough /\ ~e.handshakedone
               THEN [next EXCEPT !.e = LetThrough(e), !.result = "done"]
               ELSE [next EXCEPT !.e = e, !.result = "throw"]
FetchOne(f, r) ==
    IF f.result # "again" THEN f ELSE Fetched(f, DecodeWithRoom(Step(f.e, f.table, f.now), r))

\* All that insock holds, unless something has to be said first; with a part of a record left over
\* and nothing to hand on the answer is to come back.
Drained(fetched) ==
    IF fetched.result # "again" THEN fetched
    ELSE IF fetched.e.half = 0 THEN [fetched EXCEPT !.result = "done"]
    ELSE [fetched EXCEPT !.e = SeenDone(@), !.result = IF fetched.e.heard = <<>> THEN "more" ELSE "done"]
Fetch(e, table, t) ==
    IF e.passthrough
    THEN [e |-> LetThrough(e), table |-> table, now |-> t, result |-> "done"]
    ELSE Drained(FoldLeft(FetchOne, [e |-> e, table |-> table, now |-> t, result |-> "again"], e.insock))

\* The socket gives n parts of records, which go to insock.
Parts(e) == 2 * Len(e.wire) - e.half
\* MUTANT: a record begun is read again.
AddInputTwice(e, n) ==
    LET whole == (e.half + n) \div 2 IN
    [e EXCEPT !.insock = @ \o SubSeq(e.wire, 1, whole), !.wire = SubSeq(@, whole + 1, Len(@)), !.half = e.half + n]
AddInput(e, n) ==
    LET whole == (e.half + n) \div 2 IN
    [e EXCEPT !.insock = @ \o SubSeq(e.wire, 1, whole), !.wire = SubSeq(@, whole + 1, Len(@)),
              !.half = (e.half + n) % 2]
\* Plain words come whole.
Reads(c, e) == {n \in 1 .. Parts(e) : /\ conn[c].kind = "plain" => n % 2 = 0
                                      /\ c \in Brief => n = Parts(e)}

\* The table forgets that an end uses its session; a client's context is just dropped.
Dropped(e, table, t) == IF e.codec THEN DeleteSession(Step(e, table, t)).table ELSE table

-----------------------------------------------------------------------------
(* What happens to a connection; both is its record with this side's end   *)
(* and, where it writes, the wire to the peer.                             *)
Flushed(both, side) ==
    [both EXCEPT ![side].outsock = <<>>,
                 ![Peer(side)].wire = IF both[Peer(side)].phase = "closed" THEN <<>> ELSE @ \o both[side].outsock]
Closed(both, side) ==
    [both EXCEPT ![side].phase = "closed", ![side].wire = <<>>, ![side].half = 0, ![side].insock = <<>>,
                 ![side].outsock = <<>>, ![side].codec = FALSE, ![Peer(side)].eof = TRUE]

\* The sessions that another client has of its connections.
Kept == {GetSessionId(conn[c].client.ssl) : c \in {d \in Connections : /\ conn[d].kind = "other"
                                                                       /\ HandshakeIsComplete(conn[d].client.ssl)}}

\* The table has an empty entry, or an unused one that the search finds, for every open connection
\* that has none yet and for another one.
HasEntries ==
    LET unnamed == {c \in Connections : conn[c].kind # "none" /\ End(c, "server").codec
                                        /\ End(c, "server").ssl.sid = NoSid}
        empty == {i \in DOMAIN sessions : sessions[i].cipher = NoCipher}
    IN  \/ Cardinality(unnamed) < Cardinality(empty)
        \/ unnamed = {} /\ OldestUnused(sessions) \in DOMAIN sessions

\* A client connects, with its hello or its first words, and the server accepts the connection.
Connect(c) ==
    /\ conn[c].kind = "none" /\ \A d \in 1 .. c - 1 : conn[d].kind # "none"
    /\ ~Crowded => HasEntries
    /\ \E kind \in Kinds, site \in Sites, nocertcheck \in BOOLEAN, allow \in BOOLEAN,
          session \in {NoSession} \union Kept :
          /\ site \in Trusted => ~nocertcheck
          /\ c \in Brief => kind = "other"
          /\ kind # "other" => session = NoSession
          /\ kind # "grace" => site \in Trusted
          /\ kind # "plain" => ~allow
          /\ LET client == Setup(NewEnd(NewSession(FALSE, c, session, NoCert, nocertcheck)))
                 server == Setup([NewEnd(NewSession(TRUE, c, NoSession, site, FALSE))
                                  EXCEPT !.allowpassthrough = allow])
                 made == NoConnection @@ [client |-> client, server |-> server]
                 plain == [made EXCEPT !.client.codec = FALSE, !.client.outsock = <<>>,
                                       !.client.phase = "open"]
             IN  conn' = [conn EXCEPT ![c] = Flushed([(IF kind = "plain" THEN plain ELSE made)
                                                      EXCEPT !.kind = kind], "client")]
    /\ UNCHANGED <<sessions, now>>

\* The head of connect's loop: it is over when there is nothing to write and no answer to wait for.
ConnectIsOver(both) == both.client.outsock = <<>> /\ ~both.mayskip

\* connect reads, decodes and writes what the codec has to say, or is over.
ConnectRead(c) ==
    LET e == End(c, "client") IN
    /\ conn[c].kind = "grace" /\ e.phase = "handshake"
    /\ \/ \E n \in Reads(c, e) :
          \E f \in {Fetch(AddInput(e, n), sessions, now)} :
            LET both == [conn[c] EXCEPT !.client = f.e, !.mayskip = (f.result = "more")]
            IN  conn' = [conn EXCEPT ![c] =
                    IF f.result = "throw" THEN [both EXCEPT !.client.phase = "failed", !.client.alarm = TRUE]
                    ELSE IF ConnectIsOver(both) THEN [both EXCEPT !.client.phase = "open"]
                    ELSE Flushed(both, "client")]
       \* at the end of the file too there is nothing to write
       \/ Parts(e) = 0 /\ e.eof /\ conn' = [conn EXCEPT ![c].client.phase = "open"]
    /\ UNCHANGED <<sessions, now>>

\* The other client reads and writes until the handshake is over.
OtherHandshake(c) ==
    LET e == End(c, "client") IN
    /\ conn[c].kind = "other" /\ e.phase = "handshake"
    /\ \E n \in Reads(c, e) :
       \E f \in {Fetch(AddInput(e, n), sessions, now)} :
         LET both == Flushed([conn[c] EXCEPT !.client = f.e], "client")
         IN  conn' = [conn EXCEPT ![c] =
                 IF f.result = "throw" THEN [both EXCEPT !.client.phase = "failed", !.client.alarm = TRUE]
                 ELSE IF HandshakeIsComplete(f.e.ssl) THEN [both EXCEPT !.client.phase = "open"]
                 ELSE both]
    /\ UNCHANGED <<sessions, now>>

\* One round of tryaccept: a read, which may time out, and a flush. The loop gives up after MaxRounds,
\* at the end of the input and when something is thrown; a codec that lets plain text through is deleted.
AcceptRound(c) ==
    LET e == End(c, "server") IN
    /\ conn[c].kind # "none" /\ e.phase = "handshake" /\ conn[c].rounds < MaxRounds
    /\ \E n \in (IF c \in Brief /\ ~e.eof THEN {} ELSE {0}) \union Reads(c, e) :
       \E f \in {IF n = 0 THEN [e |-> e, table |-> sessions, now |-> now, result |-> "done"]
                 ELSE Fetch(AddInput(e, n), sessions, now)} :
         LET both == Flushed([conn[c] EXCEPT !.server = f.e, !.rounds = @ + 1], "server")
         IN  IF f.result = "throw" \/ (n = 0 /\ Parts(e) = 0 /\ e.eof)
             THEN /\ conn' = [conn EXCEPT ![c] = [Closed(both, "server") EXCEPT !.server.alarm = f.result = "throw"]]
                  /\ sessions' = Dropped(f.e, f.table, f.now) /\ now' = f.now
             ELSE IF f.e.passthrough \/ f.e.handshakedone
             THEN /\ conn' = [conn EXCEPT ![c] = [both EXCEPT !.server.phase = "open",
                                                              !.server.codec = ~f.e.passthrough]]
                  /\ sessions' = f.table /\ now' = f.now
             ELSE conn' = [conn EXCEPT ![c] = both] /\ sessions' = f.table /\ now' = f.now

\* MUTANT: the codec of a connection that is given up is not destroyed.
GiveUpOnly(c) ==
    /\ conn[c].kind # "none" /\ End(c, "server").phase = "handshake" /\ conn[c].rounds = MaxRounds
    /\ conn' = [conn EXCEPT ![c] = Closed(conn[c], "server")]
    /\ UNCHANGED <<sessions, now>>
GiveUp(c) ==
    /\ conn[c].kind # "none" /\ End(c, "server").phase = "handshake" /\ conn[c].rounds = MaxRounds
    /\ conn' = [conn EXCEPT ![c] = Closed(conn[c], "server")]
    /\ sessions' = Dropped(End(c, "server"), sessions, now)
    /\ UNCHANGED now

\* A word is written, in a record where there is a codec; none before the handshake is over.
Puts(c, side) ==
    LET e == End(c, side)
        word == e.said + 1
        written == Encode(Step(e, sessions, now), <<word>>)
        plain == [type |-> "plain", mac |-> Mac(NoKeys, 0), body |-> <<word>>]
        both == [conn[c] EXCEPT ![side].said = word]
    IN  /\ conn[c].kind # "none" /\ e.phase = "open" /\ e.said < Bound(conn[c].kind) /\ c \notin Brief
        /\ e.codec => CanEncode(e.ssl)
        /\ conn' = [conn EXCEPT ![c] =
               Flushed(IF e.codec THEN [both EXCEPT ![side].ssl = written.ssl, ![side].outsock = @ \o written.out]
                       ELSE [both EXCEPT ![side].outsock = Append(@, plain)], side)]
        /\ UNCHANGED <<sessions, now>>

\* readbuffer: a read, the codec, and what it has to say is written.
Readbuffer(c, side) ==
    LET e == End(c, side) IN
    /\ conn[c].kind # "none" /\ e.phase = "open"
    /\ \E n \in Reads(c, e) : \E got \in {AddInput(e, n)} :
       \E f \in {IF e.codec THEN Fetch(got, sessions, now)
                 ELSE [e |-> [got EXCEPT !.heard = @ \o Words(got.insock), !.insock = <<>>],
                       table |-> sessions, now |-> now, result |-> "done"]} :
         LET both == [conn[c] EXCEPT ![side] = f.e]
         IN  /\ conn' = [conn EXCEPT ![c] = IF f.result = "throw"
                                            THEN [both EXCEPT ![side].phase = "failed", ![side].alarm = TRUE]
                                            ELSE IF f.result = "more" THEN Flushed(both, side) ELSE both]
             /\ sessions' = f.table /\ now' = f.now

\* The socket is closed and destroyed, and with it the session of its codec.
Close(c, side) ==
    LET e == End(c, side) IN
    /\ conn[c].kind # "none" /\ e.phase \in {"open", "failed"}
    /\ conn' = [conn EXCEPT ![c] = Closed(conn[c], side)]
    /\ sessions' = Dropped(e, sessions, now)
    /\ UNCHANGED now

DayPasses == now <= Day /\ now' = now + Day + 1 /\ UNCHANGED <<conn, sessions>>

SslNext ==
    \/ \E c \in {d \in Connections : TRUE} : Connect(c) \/ ConnectRead(c) \/ OtherHandshake(c) \/ AcceptRound(c) \/ GiveUp(c)
    \/ \E c \in {d \in Connections : TRUE}, side \in Sides : Puts(c, side) \/ Readbuffer(c, side) \/ Close(c, side)
    \/ DayPasses

SslSpec == SslInit /\ [][SslNext]_sslVars

-----------------------------------------------------------------------------
SslTypeOK ==
    /\ \E size \in TableSizes : DOMAIN sessions = 0 .. size - 1 /\ now \in Nat
    /\ \A x \in Ends : LET e == End(x[1], x[2]) IN
         /\ e.phase \in {"handshake", "open", "failed", "closed"} /\ e.half \in {0, 1}
         /\ e.inroom \in Inbuf .. MaxInbuf /\ e.said \in 0 .. Bound("plain")

\* What an end hears is what its peer said, in order and once, however the records are cut up,
\* through every handshake and where plain text is let through (sslsocket.cpp).
StreamsAsSaid ==
    \A x \in Ends : LET heard == End(x[1], x[2]).heard IN
        heard = [i \in 1 .. Len(heard) |-> i] /\ Len(heard) <= End(x[1], Peer(x[2])).said

\* Ends whose handshake is over agree on the secret and read with the keys the other writes with,
\* records and numbers; nobody raises an alarm over the other, the client's over a certificate apart
\* (sslDecode.c, sslEncode.c).
EndsAgree ==
    \A c \in {d \in Connections : conn[d].kind # "none"} :
        LET client == End(c, "client")
            server == End(c, "server")
            Settled(e) == e.codec /\ HandshakeIsComplete(e.ssl)
        IN  /\ Settled(client) /\ Settled(server)
               => /\ client.ssl.master = server.ssl.master /\ client.ssl.master # NoSecret
                  /\ client.ssl.rkeys = server.ssl.wkeys /\ client.ssl.wkeys = server.ssl.rkeys
                  /\ client.ssl.rkeys # client.ssl.wkeys
                  /\ client.ssl.seq >= server.ssl.remSeq /\ server.ssl.seq >= client.ssl.remSeq
            /\ Settled(client) => server.ssl.key \in Trusted \/ client.ssl.nocertcheck
            /\ server.alarm => conn[c].kind = "plain"
            /\ client.alarm => server.ssl.key \notin Trusted /\ ~client.ssl.nocertcheck

\* An entry of the table keeps the secret of the session whose id it has, and is in use exactly while
\* one connection uses it (matrixSsl.c).
SessionsKeptApart ==
    \A i \in DOMAIN sessions : LET entry == sessions[i] IN
        entry.cipher # NoCipher =>
            /\ entry.master # NoSecret => entry.master.sr = entry.id.random
            /\ LET users == {c \in Connections : /\ conn[c].kind # "none" /\ End(c, "server").codec
                                                 /\ End(c, "server").ssl.sid = entry.id}
               IN  IF entry.inUse THEN \E c \in users : users = {c} ELSE users = {}
=============================================================================
