----------------------------- MODULE MatrixSsl ------------------------------
(***************************************************************************)
(* The SSL 3 library that Grace's sslsocket stands on: the handshake of    *)
(* one connection as its end takes and writes records (sslDecode.c,        *)
(* sslEncode.c, sslv3.c, cipherSuite.c) and the table of sessions that all *)
(* connections of a server share (matrixSsl.c). Every operator takes a     *)
(* step record [ssl, table, now, out, ...] and returns the next one.       *)
(*                                                                         *)
(* Cryptography is symbolic: a secret is what it was derived from, a hash  *)
(* the sequence of the hashed messages, and a record can be read with the  *)
(* keys and the sequence number it was written with and with no others.    *)
(* The random numbers of a connection are its number. The lengths inside   *)
(* messages, the versions and the SSL 2 hello are left out.                *)
(***************************************************************************)
EXTENDS Integers, FiniteSets, SequencesExt

CONSTANTS
    Day,      \* the age beyond which a session is not resumed
    Trusted   \* the certificates that end at a known authority

ASSUME DayAssumption == Day \in Nat

\* The suites that are built in, the strongest first, and the null cipher after them.
SupportedCiphers == <<"3des_sha", "rc4_sha", "rc4_md5">>
NullCipher == "null"
NoCipher == "none"     \* the NULL pointer of an entry that is not filled
NoSecret == [pre |-> 0, cr |-> 0, sr |-> 0]
NoKeys == [cipher |-> NullCipher, master |-> NoSecret, cr |-> 0, sr |-> 0, from |-> "nobody"]
NoSid == [index |-> 0, random |-> 0]
NoSession == [sid |-> NoSid, cipher |-> NullCipher, master |-> NoSecret]
NoCert == "nocert"

EmptyEntry == [cipher |-> NoCipher, master |-> NoSecret, id |-> NoSid, inUse |-> FALSE,
               access |-> 0, start |-> 0]
EmptyTable(size) == [i \in 0 .. size - 1 |-> EmptyEntry]

\* A new context; a client may be given a session to resume.
NewSession(server, number, session, key, nocertcheck) ==
    [server |-> server, number |-> number, hs |-> IF server THEN "client_hello" ELSE "server_hello",
     flags |-> {}, err |-> "none", cipher |-> session.cipher, sid |-> session.sid,
     cr |-> 0, sr |-> 0, premaster |-> 0, master |-> session.master, block |-> NoKeys,
     rkeys |-> NoKeys, wkeys |-> NoKeys, seq |-> 0, remSeq |-> 0, hash |-> <<>>,
     key |-> key, cert |-> NoCert, nocertcheck |-> nocertcheck]

HandshakeIsComplete(ssl) == ssl.hs = "done"
Flagged(st, f) == [st EXCEPT !.ssl.flags = @ \union {f}]
Unflagged(st, f) == [st EXCEPT !.ssl.flags = @ \ {f}]

\* The keys of one direction, cut from the key block for the side that writes with them.
KeysFrom(ssl, from) == [ssl.block EXCEPT !.cipher = ssl.cipher, !.from = from]
KeyBlock(ssl, master) == [cipher |-> ssl.cipher, master |-> master, cr |-> ssl.cr, sr |-> ssl.sr,
                          from |-> "nobody"]

ActivateReadCipher(st) ==
    Flagged([st EXCEPT !.ssl.remSeq = 0,
                       !.ssl.rkeys = KeysFrom(st.ssl, IF st.ssl.server THEN "client" ELSE "server")],
            "read_secure")
ActivateWriteCipher(st) ==
    Flagged([st EXCEPT !.ssl.seq = 0,
                       !.ssl.wkeys = KeysFrom(st.ssl, IF st.ssl.server THEN "server" ELSE "client")],
            "write_secure")

\* The master secret is made of the premaster secret unless the session is resumed.
DeriveKeys(st) ==
    LET ssl == st.ssl
        master == IF "resumed" \in ssl.flags THEN ssl.master
                  ELSE [pre |-> ssl.premaster, cr |-> ssl.cr, sr |-> ssl.sr]
    IN  [st EXCEPT !.ssl.master = master, !.ssl.premaster = IF "resumed" \in ssl.flags THEN @ ELSE 0,
                   !.ssl.block = KeyBlock(ssl, master)]

InitHSHash(st) == [st EXCEPT !.ssl.hash = <<>>]
UpdateHSHash(st, m) == [st EXCEPT !.ssl.hash = Append(@, m)]
\* The hash that ends a handshake: of the messages so far, the secret and who sends it.
FinishedHash(ssl, sender) == [msgs |-> ssl.hash, master |-> ssl.master, sender |-> sender]

GetCipherSpec(id) == IF id \in Range(SupportedCiphers) THEN id ELSE NoCipher

-----------------------------------------------------------------------------
(* The table of sessions.                                                  *)

\* The oldest entry not in use, searched for from the time of the first entry on.
OldestUnused(table) ==
    LET size == Cardinality(DOMAIN table) IN
    FoldLeft(LAMBDA a, i : IF table[i].access <= a.t /\ ~table[i].inUse
                           THEN [t |-> table[i].access, j |-> i] ELSE a,
             [t |-> table[0].access, j |-> size], [i \in 1 .. size |-> i - 1]).j

Register(st) ==
    LET empty == {i \in DOMAIN st.table : st.table[i].cipher = NoCipher}
        i == IF empty # {} THEN Min(empty) ELSE OldestUnused(st.table)
        id == [index |-> i, random |-> st.ssl.sr]
    IN  IF i \notin DOMAIN st.table THEN st
        ELSE [st EXCEPT !.table[i] = [cipher |-> st.ssl.cipher, master |-> st.ssl.master, id |-> id,
                                      inUse |-> TRUE, access |-> st.now, start |-> st.now],
                        !.ssl.sid = id, !.now = @ + 1]

\* Whether the session the client names can go on; the look alone renews the entry's time.
CanResume(st, sid) ==
    /\ sid.index \in DOMAIN st.table
    /\ LET entry == st.table[sid.index] IN
       /\ entry.cipher # NoCipher
       /\ entry.id = sid
       /\ st.now - entry.start <= Day
       /\ ~entry.inUse
Looked(st, sid) ==
    IF sid.index \in DOMAIN st.table /\ st.table[sid.index].cipher # NoCipher
    THEN [st EXCEPT !.table[sid.index].access = st.now, !.now = @ + 1] ELSE st
ResumeSession(st, sid) ==
    LET entry == st.table[sid.index] IN
    IF CanResume(st, sid)
    THEN Flagged([Looked(st, sid) EXCEPT !.ssl.sid = sid, !.ssl.master = entry.master,
                                         !.ssl.cipher = entry.cipher, !.table[sid.index].inUse = TRUE],
                 "resumed")
    ELSE [Looked(st, sid) EXCEPT !.ssl.sid = NoSid]

\* The entry that the session id leads to, which for a session without an id is the first one.
UpdateSession(st) ==
    LET i == st.ssl.sid.index
        used == [st EXCEPT !.table[i].inUse = "closed" \notin st.ssl.flags]
    IN  IF i \notin DOMAIN st.table THEN st
        ELSE IF "error" \in st.ssl.flags
        THEN [used EXCEPT !.table[i].master = NoSecret, !.table[i].cipher = NoCipher]
        ELSE [used EXCEPT !.table[i].master = st.ssl.master, !.table[i].cipher = st.ssl.cipher]

DeleteSession(st) ==
    LET closed == Flagged(st, "closed") IN
    IF st.ssl.server /\ st.ssl.sid # NoSid THEN UpdateSession(closed) ELSE closed

\* What a client keeps of a connection in order to resume its session later.
GetSessionId(ssl) ==
    IF ssl.cipher # NullCipher /\ ssl.sid # NoSid
    THEN [sid |-> ssl.sid, cipher |-> ssl.cipher, master |-> ssl.master] ELSE NoSession

-----------------------------------------------------------------------------
(* Writing. A step record's out is the buffer, and room what it has room   *)
(* for; a record takes the room of RecordRoom.                             *)
RecordRoom == 2

\* A record under the keys that are active; only a real cipher's records are counted.
Mac(keys, seq) == [keys |-> keys, seq |-> IF keys.cipher = NullCipher THEN 0 ELSE seq]
Counted(keys, seq) == IF keys.cipher = NullCipher THEN seq ELSE seq + 1
EncryptRecord(st, type, body) ==
    [st EXCEPT !.out = Append(@, [type |-> type, mac |-> Mac(st.ssl.wkeys, st.ssl.seq), body |-> body]),
               !.ssl.seq = Counted(st.ssl.wkeys, @)]
WriteHandshake(st, m) == EncryptRecord(UpdateHSHash(st, m), "handshake", <<m>>)

WriteClientHello(st, suites) ==
    LET hello == IF st.ssl.sid = NoSid THEN Unflagged(st, "resumed") ELSE st
        own == [InitHSHash(hello) EXCEPT !.ssl.cr = st.ssl.number]
    IN  IF st.ssl.flags \intersect {"error", "closed"} # {} \/ st.ssl.server
        \/ st.ssl.hs \notin {"server_hello", "done", "hello_request"} THEN [st EXCEPT !.rc = "error"]
        ELSE Unflagged([WriteHandshake(own, [t |-> "client_hello", cr |-> own.ssl.cr, sid |-> own.ssl.sid,
                                             suites |-> IF own.ssl.sid = NoSid THEN suites
                                                        ELSE <<own.ssl.cipher>>])
                        EXCEPT !.ssl.hs = "server_hello", !.rc = "success"], "client_auth")

\* The server's random number, and an entry in the table unless the session goes on.
WriteServerHello(st) ==
    LET named == [st EXCEPT !.ssl.sr = st.ssl.number]
        known == IF "resumed" \in st.ssl.flags THEN named ELSE Register(named)
        written == WriteHandshake(known, [t |-> "server_hello", sr |-> known.ssl.sr, sid |-> known.ssl.sid,
                                          cipher |-> known.ssl.cipher])
    IN  IF "resumed" \in st.ssl.flags THEN DeriveKeys(written) ELSE written
WriteCertificate(st) == WriteHandshake(st, [t |-> "certificate", chain |-> st.ssl.key])
WriteServerHelloDone(st) == WriteHandshake(st, [t |-> "server_hello_done"])

\* A premaster secret for the key of the server's certificate.
WriteClientKeyExchange(st) ==
    DeriveKeys(WriteHandshake([st EXCEPT !.ssl.premaster = st.ssl.number],
                              [t |-> "client_key_exchange", for |-> st.ssl.cert, pre |-> st.ssl.number]))

WriteChangeCipherSpec(st) == ActivateWriteCipher(EncryptRecord(st, "ccs", <<1>>))
WriteFinished(st) ==
    [WriteHandshake(st, [t |-> "finished",
                         hash |-> FinishedHash(st.ssl, IF st.ssl.server THEN "server" ELSE "client")])
     EXCEPT !.ssl.cert = NoCert]
WriteAlert(st, level, description) == EncryptRecord(st, "alert", <<level, description>>)

\* The messages a side owes when the handshake has come to its state.
Flight(st) ==
    LET hs == st.ssl.hs IN
    IF hs = "client_key_exchange" THEN <<"server_hello", "certificate", "server_hello_done">>
    ELSE IF hs = "done" THEN <<"ccs", "finished">>
    ELSE IF hs = "finished" /\ st.ssl.server THEN <<"server_hello", "ccs", "finished">>
    ELSE IF hs = "finished"
    THEN (IF "client_auth" \in st.ssl.flags THEN <<"no_certificate">> ELSE <<>>)
         \o <<"client_key_exchange", "ccs", "finished">>
    ELSE <<>>
WriteMessage(st, m) ==
    CASE m = "server_hello" -> WriteServerHello(st)
      [] m = "certificate" -> WriteCertificate(st)
      [] m = "server_hello_done" -> WriteServerHelloDone(st)
      [] m = "client_key_exchange" -> WriteClientKeyExchange(st)
      [] m = "no_certificate" -> WriteAlert(st, "warning", "no_certificate")
      [] m = "ccs" -> WriteChangeCipherSpec(st)
      [] m = "finished" -> WriteFinished(st)

\* Nothing is written before there is room for all of it.
EncodeResponse(st) ==
    LET flight == Flight(st) IN
    IF st.ssl.err # "none" THEN [WriteAlert(st, "fatal", st.ssl.err) EXCEPT !.rc = "success"]
    ELSE IF st.ssl.hs = "finished" /\ ~st.ssl.server /\ st.ssl.cert = NoCert
    THEN Flagged([st EXCEPT !.rc = "error"], "error")
    ELSE IF flight = <<>> THEN Flagged([st EXCEPT !.rc = "error"], "error")
    ELSE IF st.room < RecordRoom * Len(flight) THEN [st EXCEPT !.rc = "full"]
    ELSE [FoldLeft(WriteMessage, st, flight) EXCEPT !.rc = "success"]

\* Data can be written once the handshake is over and until something went wrong.
CanEncode(ssl) == ssl.hs = "done" /\ ssl.flags \intersect {"error", "closed"} = {}
Encode(st, bytes) == EncryptRecord(st, "data", bytes)

-----------------------------------------------------------------------------
(* Reading.                                                                *)
Fail(st, alert) == [st EXCEPT !.ssl.err = alert, !.rc = "error"]

HandleClientHello(st, m) ==
    LET looked == IF m.sid = NoSid THEN Unflagged(st, "resumed") ELSE ResumeSession(st, m.sid)
        resumed == "resumed" \in looked.ssl.flags
        \* a resumed session needs its own suite, another takes the first one it knows
        suites == SelectSeq(m.suites, LAMBDA s : IF resumed THEN s = looked.ssl.cipher
                                                 ELSE GetCipherSpec(s) # NoCipher)
    IN  IF suites = <<>> THEN Fail([looked EXCEPT !.ssl.cipher = NullCipher], "handshake_failure")
        ELSE [looked EXCEPT !.ssl.cr = m.cr, !.ssl.cipher = Head(suites), !.rc = "process",
                            !.ssl.hs = IF resumed THEN "finished" ELSE "client_key_exchange"]

HandleClientKeyExchange(st, m) ==
    IF m.for # st.ssl.key THEN Fail(st, "illegal_parameter")
    ELSE [UpdateSession(DeriveKeys([st EXCEPT !.ssl.premaster = m.pre])) EXCEPT !.ssl.hs = "finished"]

\* The hash of the other side is compared with that of the messages before it, which expected is.
HandleFinished(st, m, expected) ==
    IF "read_secure" \notin st.ssl.flags THEN Fail(st, "unexpected_message")
    ELSE IF m.hash # expected THEN Fail(st, "illegal_parameter")
    ELSE [st EXCEPT !.ssl.hs = "done", !.ssl.cert = NoCert,
                    !.rc = IF st.ssl.server # ("resumed" \in st.ssl.flags) THEN "process" ELSE @]

\* MUTANT: a client that is given another session keeps the secret of the one it asked for.
SessionKeptAnyway(st, m) == Flagged([st EXCEPT !.ssl.sid = m.sid], "resumed")
\* Whether the session goes on is for the client to see from the id in the answer.
SessionAnswered(st, m) ==
    IF st.ssl.sid = NoSid THEN [st EXCEPT !.ssl.sid = m.sid]
    ELSE IF m.sid = st.ssl.sid THEN Flagged(st, "resumed")
    ELSE Unflagged([st EXCEPT !.ssl.sid = m.sid, !.ssl.cipher = NullCipher, !.ssl.master = NoSecret],
                   "resumed")
HandleServerHello(st, m) ==
    LET answered == SessionAnswered([st EXCEPT !.ssl.sr = m.sr], m) IN
    IF "resumed" \in answered.ssl.flags
    THEN IF m.cipher # answered.ssl.cipher THEN Fail(answered, "handshake_failure")
         ELSE [DeriveKeys(answered) EXCEPT !.ssl.hs = "finished"]
    ELSE IF GetCipherSpec(m.cipher) = NoCipher THEN Fail(answered, "handshake_failure")
    ELSE [answered EXCEPT !.ssl.cipher = m.cipher, !.ssl.hs = "certificate"]

HandleCertificate(st, m) ==
    IF m.chain \notin Trusted /\ ~st.ssl.nocertcheck THEN Fail(st, "bad_certificate")
    ELSE [st EXCEPT !.ssl.cert = m.chain, !.ssl.hs = "server_hello_done"]

ToHandshake(st, m, expected) ==
    CASE m.t = "client_hello" -> HandleClientHello(st, m)
      [] m.t = "client_key_exchange" -> HandleClientKeyExchange(st, m)
      [] m.t = "finished" -> HandleFinished(st, m, expected)
      [] m.t = "hello_request" -> [st EXCEPT !.rc = "process"]
      [] m.t = "server_hello" -> HandleServerHello(st, m)
      [] m.t = "certificate" -> HandleCertificate(st, m)
      [] m.t = "server_hello_done" -> [st EXCEPT !.ssl.hs = "finished", !.rc = "process"]
      [] m.t = "certificate_request" -> [st EXCEPT !.ssl.hs = "server_hello_done"]

\* The messages that may come in another state than the one that waits for them.
OutOfTurn(ssl, t) ==
    \/ t = "certificate_request" /\ ssl.hs = "server_hello_done"
    \/ t = "hello_request" /\ ssl.hs = "done" /\ ~ssl.server
ParseMessage(st, m) ==
    LET auth == IF m.t = "certificate_request" THEN Flagged(st, "client_auth") ELSE st
        begun == IF m.t = "client_hello" THEN InitHSHash(auth) ELSE auth
        expected == FinishedHash(st.ssl, IF st.ssl.server THEN "client" ELSE "server")
    IN  IF st.rc = "error" THEN st
        ELSE IF m.t = "client_hello" /\ st.ssl.hs = "done" THEN Fail(st, "unexpected_message")
        ELSE IF m.t # st.ssl.hs /\ ~OutOfTurn(st.ssl, m.t) THEN Fail(st, "illegal_parameter")
        ELSE ToHandshake(UpdateHSHash([begun EXCEPT !.ssl.hs = m.t], m), m, expected)
ParseHandshake(st, msgs) == FoldLeft(ParseMessage, [st EXCEPT !.rc = "success"], msgs)

\* An answer, the client's hello where it was asked for one; after an alert of its own the end is dead.
Said(said) ==
    CASE said.rc = "success" -> IF said.ssl.err = "none" THEN [said EXCEPT !.rc = "send"]
                                ELSE Flagged([said EXCEPT !.rc = "error"], "error")
      [] said.rc = "full" -> Flagged(said, "need_encode")
      [] OTHER -> said
Respond(st) ==
    Said(IF st.ssl.hs = "hello_request" THEN WriteClientHello(st, <<st.ssl.cipher>>)
         ELSE EncodeResponse(st))
\* A record that was taken, or not, may have left an answer to be given.
Owed(st) == [st EXCEPT !.rc = "owed"]
Answered(st) == IF st.rc = "owed" THEN Respond(st) ELSE st

TakeChangeCipherSpec(st) ==
    IF st.ssl.hs = "finished" THEN [ActivateReadCipher([st EXCEPT !.taken = TRUE]) EXCEPT !.rc = "success"]
    ELSE Owed(Fail(st, "unexpected_message"))

\* An alert is not taken from the input.
TakeAlert(st, level, description) ==
    LET fatal == IF level = "fatal" THEN Flagged(st, "error") ELSE st
    IN  [(IF description = "close_notify" THEN Flagged(fatal, "closed") ELSE fatal)
         EXCEPT !.rc = "alert", !.alert = description]

TakenParsed(parsed) ==
    CASE parsed.rc = "success" -> [parsed EXCEPT !.taken = TRUE]
      [] parsed.rc = "process" -> Owed([parsed EXCEPT !.taken = TRUE])
      [] parsed.rc = "error" -> Owed(parsed)
TakeHandshake(st, msgs) == TakenParsed(ParseHandshake(st, msgs))

\* Data is for those who are done, or asked again for a handshake; an empty record is passed over.
TakeData(st, bytes) ==
    IF st.ssl.hs \notin {"done", "server_hello"} \/ "read_secure" \notin st.ssl.flags
    THEN Owed(Fail(st, "unexpected_message"))
    ELSE [st EXCEPT !.taken = TRUE, !.data = bytes, !.rc = IF bytes = <<>> THEN "success" ELSE "process"]

\* The code of a record under the keys and the number that are expected; without keys the record of
\* one who has them makes no sense.
VerifyMac(ssl, r) == r.mac = Mac(ssl.rkeys, ssl.remSeq)

\* One record, unless an answer is still owed: plain bytes, an answer, an alert, or nothing to hand on.
Take(st, r) ==
    LET read == [st EXCEPT !.ssl.remSeq = Counted(st.ssl.rkeys, @)] IN
    IF st.ssl.flags \intersect {"error", "closed"} # {} THEN [st EXCEPT !.rc = "error"]
    ELSE IF "need_encode" \in st.ssl.flags THEN Owed(Unflagged(st, "need_encode"))
    ELSE IF r.type \notin {"ccs", "alert", "handshake", "data"} THEN Owed(Fail(st, "unexpected_message"))
    ELSE IF st.room < RecordRoom THEN [st EXCEPT !.rc = "full"]
    ELSE IF ~VerifyMac(st.ssl, r)
    THEN Owed(Fail(read, IF "read_secure" \in st.ssl.flags THEN "bad_record_mac" ELSE "illegal_parameter"))
    ELSE CASE r.type = "ccs" -> TakeChangeCipherSpec(read)
           [] r.type = "alert" -> TakeAlert(read, r.body[1], r.body[2])
           [] r.type = "handshake" -> TakeHandshake(read, r.body)
           [] r.type = "data" -> TakeData(read, r.body)
Decode(st, r) == Answered(Take(st, r))
=============================================================================
