---------------------------- MODULE HttpSession ----------------------------
(***************************************************************************)
(* What an httpdworker does with one connection (httpd.cpp): it reads      *)
(* requests, one after another, and passes each through the chain of       *)
(* httpdobjects; and httpd::handle, which decides what is answered and     *)
(* whether the connection stays open. Accepting and counting connections   *)
(* is in WorkerPool.                                                       *)
(*                                                                         *)
(* What the client sends is a sequence of lines and pieces of bodies; for  *)
(* gets a piece is a line like any other, for read a line is a piece. The  *)
(* ring of the socket holds RingRoom of them at most, and a call of read takes *)
(* HttpReadbuf at most from the connection. After what was sent it ends.       *)
(***************************************************************************)
EXTENDS Naturals, FiniteSets, Sequences, SequencesExt

CONSTANTS
    Conversations,  \* sequences of requests, as clients may send them
    Chain,          \* the objects: what each matches, and its kind
    MaxPost,        \* maxpostsize
    MaxHeaders,
    RingRoom, HttpReadbuf

ASSUME HttpBounds ==
    /\ {MaxPost, MaxHeaders, RingRoom} \subseteq Nat /\ HttpReadbuf \in Nat \ {0}
    /\ Chain \in Seq(Range(Chain))
    /\ \A o \in Range(Chain) : o.kind \in {"auth", "rewrite", "page", "direct"}

\* A client names each header once, no more of them than are kept, and says
\* how long the body is; with a DELETE it sends none.
ASSUME Asking ==
    \A conv \in Conversations :
        /\ conv \in Seq(Range(conv))
        /\ \A r \in Range(conv) :
              /\ r.headers = [n \in DOMAIN r.headers |-> r.headers[n]]
              /\ IsFiniteSet(DOMAIN r.headers) /\ Cardinality(DOMAIN r.headers) <= MaxHeaders
              /\ r.body \in Seq(Range(r.body))
              /\ Len(r.body) = IF "Content-length" \in DOMAIN r.headers
                               THEN r.headers["Content-length"] ELSE 0
              /\ r.method = "DELETE" => r.body = <<>>

Empty == <<"empty">>
NoCommand == <<"none">>
Header(name, val) == <<"header", name, val>>
CommandLine(r) == <<"command", r.method, r.uri, r.version>>

Lines1(r) == <<CommandLine(r)>> \o SetToSeq({Header(n, r.headers[n]) : n \in DOMAIN r.headers})
Encode(r) == Lines1(r) \o <<Empty>> \o r.body
Stream(conv) == FlattenSeq([i \in DOMAIN conv |-> Encode(conv[i])])

\* Bodies that are not refused fit the ring, whatever a read left in it.
BodiesFit ==
    \A conv \in Conversations : \A r \in Range(conv) :
        r.method \in {"POST", "PUT"} =>
            Len(r.body) > MaxPost \/ Len(r.body) + HttpReadbuf <= RingRoom + 1

VARIABLES
    conversation, received,  \* what is sent, and how much of it arrives
    rest, backlog,           \* what was not read yet; how much of that is in the ring
    eof,                     \* s.eof()
    hpc,                     \* "lines", "request", "closed"
    httpCommand, httpHeaders,
    handled,                 \* what handle was called with and what it did
    refused                  \* the status of a reply of the worker itself, or 0

input == <<conversation, received>>
socket == <<rest, backlog, eof>>
request == <<httpCommand, httpHeaders>>
httpVars == <<input, socket, hpc, request, handled, refused>>

HttpInit ==
    /\ conversation \in Conversations
    /\ received \in 0 .. Len(Stream(conversation))
    /\ rest = SubSeq(Stream(conversation), 1, received)
    /\ backlog = 0 /\ eof = FALSE
    /\ hpc = "lines"
    /\ httpCommand = NoCommand /\ httpHeaders = <<>>
    /\ handled = <<>> /\ refused = 0

Smaller(a, b) == IF a < b THEN a ELSE b
room == RingRoom - backlog

\* What the ring may hold after reads that end when there is "wanted" in it.
Filled(wanted) ==
    LET last == Smaller(Smaller(wanted - 1 + HttpReadbuf, RingRoom), Len(rest))
    IN  IF backlog >= wanted THEN {backlog}
        ELSE IF Len(rest) <= wanted THEN {Len(rest)} ELSE wanted .. last

Consume(n, filled) ==
    /\ rest' = SubSeq(rest, n + 1, Len(rest))
    /\ backlog' = filled - n

(***************************************************************************)
(* The lines of a request                                                  *)
(***************************************************************************)
FirstLine(line) ==
    /\ httpCommand = NoCommand
    /\ httpCommand' = IF line = Empty THEN NoCommand ELSE line
    /\ UNCHANGED <<hpc, httpHeaders>>

HeaderLine(line) ==
    /\ httpCommand # NoCommand /\ line # Empty
    /\ httpHeaders' =
         IF line[1] = "header" /\ Cardinality(DOMAIN httpHeaders) < MaxHeaders
         THEN [n \in DOMAIN httpHeaders \union {line[2]} |->
                 IF n = line[2] THEN line[3] ELSE httpHeaders[n]]
         ELSE httpHeaders
    /\ UNCHANGED <<hpc, httpCommand>>

EmptyLine(line) ==
    /\ httpCommand # NoCommand /\ line = Empty
    /\ hpc' = "request"
    /\ UNCHANGED request

gets ==
    /\ hpc = "lines" /\ rest # <<>>
    /\ \E filled \in Filled(1) : Consume(1, filled)
    /\ LET line == Head(rest) IN FirstLine(line) \/ HeaderLine(line) \/ EmptyLine(line)
    /\ UNCHANGED <<input, eof, handled, refused>>

\* The end of the stream: with or without a command, the worker throws.
getsEnd ==
    /\ hpc = "lines" /\ rest = <<>>
    /\ eof' = TRUE
    /\ hpc' = "closed"
    /\ UNCHANGED <<input, rest, backlog, request, handled, refused>>

(***************************************************************************)
(* The request                                                             *)
(***************************************************************************)
method == IF httpCommand[1] = "command" THEN httpCommand[2] ELSE "garbage"
uri == httpCommand[3]
Says(name) == IF name \in DOMAIN httpHeaders THEN httpHeaders[name] ELSE "no"
length == IF "Content-length" \in DOMAIN httpHeaders THEN httpHeaders["Content-length"] ELSE 0

Posting == method \in {"POST", "PUT"}
Refusal ==
    CASE Posting /\ length > MaxPost -> 413
      [] method = "GET" /\ length > 0 -> 400
      [] method \notin {"POST", "PUT", "GET", "DELETE"} -> 501
      [] OTHER -> 0

refuse ==
    /\ hpc = "request" /\ Refusal # 0
    /\ refused' = Refusal
    /\ hpc' = "closed"
    /\ UNCHANGED <<input, socket, request, handled>>

\* MUTANT: the first line of the next request goes with the body.
BodySizeAndOne == IF Posting /\ length > 0 THEN Smaller(length + 1, room) ELSE 0

\* s.read reads no more than there is room for when it is called.
BodySize == IF Posting THEN Smaller(length, room) ELSE 0

\* The client's wish, by the version of the protocol and its header.
Wish == CASE Says("Connection") = "close" -> FALSE
          [] Says("Connection") = "keep-alive" -> TRUE
          [] OTHER -> httpCommand[4] = "1.1"

(***************************************************************************)
(* handle: the first object that matches and does not return 0.            *)
(***************************************************************************)
\* An object is an httpdbasicauth, one that leaves the request to those
\* behind it, one that makes a page, or one that answers by itself.
run(o) ==
    CASE o.kind = "auth" -> IF Says("Authorization") = "good" THEN 0 ELSE 401
      [] o.kind = "rewrite" -> 0
      [] o.kind \in {"page", "direct"} -> 200

Willing == {i \in DOMAIN Chain : uri \in Chain[i].matches /\ run(Chain[i]) # 0}

\* MUTANT: the search goes on to the last object.
LastToAnswer(i) == \A j \in Willing : j <= i

FirstToAnswer(i) == \A j \in Willing : i <= j

\* MUTANT: the header is made before the object has had its say.
TellWish(wish, keep) == wish
TellOutcome(wish, keep) == keep

NotFound == [by |-> 0, status |-> 404, tells |-> "nothing", keep |-> FALSE]

Answer(i, wish, keep) ==
    [by |-> i, status |-> run(Chain[i]), keep |-> keep,
     tells |-> IF Chain[i].kind = "direct" THEN "nothing"
               ELSE IF TellOutcome(wish, keep) THEN "keep-alive" ELSE "close"]

\* The object may turn the wish down.
Answers(wish) ==
    IF Willing = {} THEN {NotFound}
    ELSE {Answer(i, wish, keep) : i \in {j \in Willing : FirstToAnswer(j)}, keep \in {wish, FALSE}}

\* A pool that is busy does not grant the wish.
handle ==
    /\ hpc = "request" /\ Refusal = 0
    /\ \E filled \in Filled(BodySize), wish \in {Wish, FALSE} : \E answer \in Answers(wish) :
         LET size == Smaller(BodySize, filled) IN
         /\ Consume(size, filled)
         /\ eof' = (size < BodySize)
         /\ handled' = Append(handled,
              [command |-> httpCommand, headers |-> httpHeaders,
               body |-> SubSeq(rest, 1, size), answer |-> answer])
         /\ hpc' = IF answer.keep /\ ~ eof' THEN "lines" ELSE "closed"
    /\ httpCommand' = NoCommand /\ httpHeaders' = <<>>
    /\ UNCHANGED <<input, refused>>

HttpNext == gets \/ getsEnd \/ refuse \/ handle

HttpSpec == HttpInit /\ [][HttpNext]_httpVars

-----------------------------------------------------------------------------
HttpTypeOK ==
    /\ conversation \in Conversations
    /\ backlog \in 0 .. RingRoom /\ backlog <= Len(rest)
    /\ eof \in BOOLEAN
    /\ hpc \in {"lines", "request", "closed"}
    /\ refused \in {0, 400, 413, 501}

\* Each request that is handled is one that was sent, in its order, with its
\* own headers and body: nothing of a body is taken for a command or lost.
\* Only the last body may be short, if the connection ended in it.
RequestsAsSent ==
    \A i \in DOMAIN handled :
        LET r == conversation[i] IN
        /\ handled[i].command = CommandLine(r)
        /\ handled[i].headers = r.headers
        /\ \/ handled[i].body = r.body
           \/ eof /\ i = Len(handled) /\ IsPrefix(handled[i].body, r.body)

\* Behind an httpdbasicauth that matches it, a request is answered only if it
\* has the right credentials itself, whatever came before on the connection.
BehindAuth ==
    \A i \in DOMAIN handled, a \in DOMAIN Chain :
        Chain[a].kind = "auth" /\ conversation[i].uri \in Chain[a].matches
          /\ handled[i].answer.by \notin 1 .. a
        => Header("Authorization", "good") \in
             {Header(n, conversation[i].headers[n]) : n \in DOMAIN conversation[i].headers}

\* What the Connection header promised is kept: after "close" no request is
\* handled; after "keep-alive" every request that arrives whole is, unless it
\* is refused.
WholeRequests == Cardinality({i \in DOMAIN conversation :
            Len(Stream(SubSeq(conversation, 1, i))) <= received})
KeepsItsWord ==
    /\ \A i \in 1 .. Len(handled) - 1 : handled[i].answer.tells # "close"
    /\ hpc = "closed" /\ refused = 0 /\ handled # <<>>
         /\ Last(handled).answer.tells = "keep-alive" => Len(handled) >= WholeRequests

\* Requests are handled as they were sent and cut, and as many of them as the
\* Connection header promised: RequestsAsSent and KeepsItsWord.
RequestsKept == RequestsAsSent /\ KeepsItsWord

\* What was asked is answered once and in order, and nothing protected is answered
\* without its password: RequestsKept and BehindAuth.
RequestsHandled == RequestsKept /\ BehindAuth
=============================================================================
