---------------------------- MODULE ChunkedBody ----------------------------
(***************************************************************************)
(* httpsocket::getChunked (http.cpp): the client of the library takes a    *)
(* chunked body off a connection, a size line, the chunk and its line end  *)
(* at a time. Without a timeout it goes through gets and read(sz), with    *)
(* one through waitforline and read(sz, timeout).                          *)
(*                                                                         *)
(* Content is what follows the headers of the response. A size is one      *)
(* digit; the chunk limit of defaults.h is MaxChunk.                       *)
(***************************************************************************)
EXTENDS FileInput

CONSTANTS
    Responses,   \* the Contents that are chunked bodies
    BodyOf,      \* what their chunks hold; nothing for other Contents
    ChunksOf,    \* where their chunks begin, and how much of the body is before each
    SizeOf,      \* the value of each byte that is a digit
    MaxChunk,    \* defaults::lim::httpd::chunksize
    SizeLine     \* maxlinesize of the size lines, beyond any line here

\* Behind p bytes of c a chunk begins, with b bytes of the body before it: the last one is
\* empty or too large, or it is not there, as with servers that hang up in its place.
ChunkAt(c, p, b) ==
    LET size == SizeOf[c[p + 1]] IN
    \/ p = Len(c) /\ b = Len(BodyOf[c])
    \/ /\ p + 3 <= Len(c) /\ c[p + 1] \in DOMAIN SizeOf /\ c[p + 2] = "cr" /\ c[p + 3] = "lf"
       /\ size = 0 => b = Len(BodyOf[c])
       /\ size \in 1 .. MaxChunk =>
            /\ p + 5 + size <= Len(c) /\ c[p + 4 + size] = "cr" /\ c[p + 5 + size] = "lf"
            /\ b + size <= Len(BodyOf[c])
            /\ \A i \in 1 .. size : BodyOf[c][b + i] = c[p + 3 + i]
            /\ p + 5 + size \in DOMAIN ChunksOf[c] /\ ChunksOf[c][p + 5 + size] = b + size

ASSUME ResponsesAssumption ==
    /\ Responses \subseteq Contents /\ MaxChunk \in Nat /\ SizeLine \in Nat \ {0, 1}
    /\ Count - Margin >= 4
    /\ {"cr", "lf"} \cap DOMAIN SizeOf = {} /\ \A d \in DOMAIN SizeOf : SizeOf[d] \in Nat
    /\ \A c \in Responses :
         /\ BodyOf[c] \in Seq(Bytes)
         /\ 0 \in DOMAIN ChunksOf[c] /\ ChunksOf[c][0] = 0
         /\ \A p \in DOMAIN ChunksOf[c] :
              p \in Nat /\ ChunksOf[c][p] \in Nat /\ ChunkAt(c, p, ChunksOf[c][p])

VARIABLES
    timed,       \* whether _timeout is set
    pc,          \* the step of getChunked to come
    chunksz, todo,
    into,        \* the body so far
    done         \* what getChunked returned, or "running"

chunkVars == <<timed, pc, chunksz, todo, into, done>>
allVars == <<fileVars, chunkVars>>

ChunkInit ==
    /\ FileInit
    /\ content \in Responses
    /\ timed \in BOOLEAN
    /\ pc = "ask"
    /\ chunksz = 0 /\ todo = 0 /\ into = <<>> /\ done = "running"

\* string::toint(16): no digit, no value.
ValueOf(text) ==
    IF text # <<>> /\ text[1] \in DOMAIN SizeOf THEN SizeOf[text[1]] ELSE 0

LineCall == IF timed THEN Call("waitforline", SizeLine, TRUE) ELSE Call("gets", SizeLine, FALSE)

\* MUTANT: a whole chunk is asked for again after a part of it came.
AskWhole == Call(IF timed THEN "timedread" ELSE "read", chunksz, timed)
DataCall == IF timed THEN Call("timedread", chunksz, TRUE) ELSE Call("read", todo, FALSE)

AfterData(left) == IF left > 0 THEN "askdata" ELSE "asktail"

Ask(c, next) ==
    /\ Begin(c)
    /\ pc' = next
    /\ UNCHANGED <<timed, chunksz, todo, into, done>>

AskLine == pc \in {"ask", "asktail"} /\ Ask(LineCall, IF pc = "ask" THEN "size" ELSE "tail")
AskData == pc = "askdata" /\ Ask(DataCall, "data")

Answered(step) == pc = step /\ call.op = "none" /\ ret.kind # "eof"

Finish(result) ==
    /\ done' = result
    /\ pc' = "out"

\* endOfFileException: taken for the end of the body by a server that hangs up
\* in the place of a last chunk.
HungUp ==
    /\ pc \in {"size", "data", "tail"} /\ call.op = "none" /\ ret.kind = "eof"
    /\ Finish("true")
    /\ UNCHANGED <<timed, chunksz, todo, into, fileVars>>

TimedOut ==
    /\ pc \in {"size", "tail"}
    /\ Answered(pc) /\ ret.kind = "timeout"
    /\ Finish("false")
    /\ UNCHANGED <<timed, chunksz, todo, into, fileVars>>

TakeSize ==
    /\ Answered("size") /\ ret.kind # "timeout"
    /\ chunksz' = ValueOf(ret.text)
    /\ todo' = chunksz'
    /\ \/ chunksz' > MaxChunk /\ Finish("false")
       \/ chunksz' = 0 /\ Finish("true")
       \/ chunksz' \in 1 .. MaxChunk /\ pc' = "askdata" /\ UNCHANGED done
    /\ UNCHANGED <<timed, into, fileVars>>

TakeData ==
    /\ Answered("data")
    /\ IF ret.text = <<>>
       THEN Finish("false") /\ UNCHANGED <<into, todo>>
       ELSE /\ into' = into \o ret.text
            /\ todo' = todo - Len(ret.text)
            /\ pc' = AfterData(todo')
            /\ UNCHANGED done
    /\ UNCHANGED <<timed, chunksz, fileVars>>

\* What the line after the chunk holds is not looked at.
TakeTail ==
    /\ Answered("tail") /\ ret.kind # "timeout"
    /\ pc' = "ask"
    /\ UNCHANGED <<timed, chunksz, todo, into, done, fileVars>>

ChunkNext ==
    \/ (Send \/ Leave \/ Step) /\ UNCHANGED chunkVars
    \/ AskLine \/ AskData
    \/ HungUp \/ TimedOut \/ TakeSize \/ TakeData \/ TakeTail

ChunkSpec == ChunkInit /\ [][ChunkNext]_allVars

(***************************************************************************)
(* Properties                                                              *)
(***************************************************************************)
ChunkTypeOK ==
    /\ timed \in BOOLEAN /\ todo \in Int /\ chunksz \in Nat
    /\ pc \in {"ask", "size", "askdata", "data", "asktail", "tail", "out"}
    /\ done \in {"running", "true", "false"} /\ (done # "running" <=> pc = "out")

Whole == into = BodyOf[content]

\* getChunked answers true only with the full object, whatever bits the bytes
\* came in, unless the server broke the connection on the way.
ChunkedComplete ==
    done = "true" /\ (peer = "open" \/ sent = Len(content)) => Whole

\* The same where no timeout is set; and there what was read so far never holds
\* anything but the body: no size line and no line end slips in between chunks.
BlockingExact ==
    ~ timed => ChunkedComplete /\ into = SubSeq(BodyOf[content], 1, Len(into))

\* The reading methods of file and the bodies of getChunked, without a timeout, give
\* what was sent: StreamExact and BlockingExact.
ReadAsSent == StreamExact /\ BlockingExact
=============================================================================
