------------------------------ MODULE FileInput ------------------------------
(***************************************************************************)
(* Reading through the class file (file.h, file.cpp), which tcpsocket and  *)
(* the process class inherit: a descriptor, the ring of bytes read from it *)
(* but not taken yet, and the methods that take lines and blocks. No codec *)
(* is set. The other end of the descriptor sends Content bit by bit and    *)
(* may hang up or break the connection.                                    *)
(*                                                                         *)
(* A method is a sequence of steps with one read(2) or select(2) in each;  *)
(* the method under way is in call. What it returns is in ret, and the     *)
(* bytes it took in out.                                                   *)
(***************************************************************************)
EXTENDS Integers, Sequences

-----------------------------------------------------------------------------
(***************************************************************************)
(* The class ringbuffer (ringbuffer.h, ringbuffer.cpp): the bytes read     *)
(* from a descriptor and not yet taken, in a cyclic array between two      *)
(* cursors. Equal cursors mean an empty buffer, so the array must never be *)
(* filled: room() keeps Margin bytes free, and add() trusts its caller to  *)
(* have asked room().                                                      *)
(*                                                                         *)
(* Operators on a ring; FileInput owns one. Count divides 2^32 in every    *)
(* use in the library, so (pcursor-1)%count is the cell before.            *)
(***************************************************************************)
CONSTANTS
    Count,      \* cells in the array
    Margin      \* 256 in the code

ASSUME RingAssumption == Count \in Nat /\ Margin \in 1 .. (Count - 1)

Cells == 0 .. (Count - 1)

EmptyRing == [buffer |-> [c \in Cells |-> "x"], readcursor |-> 0, writecursor |-> 0]

Backlog(r) == (r.writecursor + Count - r.readcursor) % Count

\* MUTANT: no margin: the last byte that fits makes the buffer look empty.
RoomToTheBrim(r) == Count - Backlog(r)
Room(r) ==
    LET free == Count - Backlog(r)
    IN  IF free < Margin THEN 0 ELSE free - Margin

\* add: it does not look at readcursor.
Add(r, data) ==
    LET at(c) == (c + Count - r.writecursor) % Count
    IN  [r EXCEPT !.buffer = [c \in Cells |-> IF at(c) < Len(data) THEN data[at(c) + 1]
                                              ELSE r.buffer[c]],
                  !.writecursor = (@ + Len(data)) % Count]

Byte(r, i) == r.buffer[(r.readcursor + i) % Count]
Peek(r, sz) ==
    [i \in 1 .. (IF sz > Backlog(r) THEN Backlog(r) ELSE sz) |-> Byte(r, i - 1)]
Held(r) == Peek(r, Backlog(r))

\* advance, and read, which returns Peek(r, sz) as well.
Advance(r, sz) ==
    [r EXCEPT !.readcursor = (@ + Len(Peek(r, sz))) % Count]

HasLine(r) == \E i \in 0 .. (Backlog(r) - 1) : Byte(r, i) = "lf"

NewlineAt(r) == CHOOSE i \in 0 .. (Backlog(r) - 1) :
                    Byte(r, i) = "lf" /\ \A j \in 0 .. (i - 1) : Byte(r, j) # "lf"

\* MUTANT: the carriage return stays with the line.
LineEndKeepsCR(r) == NewlineAt(r)

\* hasline(atposition), and the count readline makes: the length of the line
\* without the newline and a carriage return just before it.
LineEnd(r) ==
    LET i == NewlineAt(r) IN IF i > 0 /\ Byte(r, i - 1) = "cr" THEN i - 1 ELSE i

\* What readline leaves: a carriage return and then a newline are passed by.
PastNewline(r) ==
    LET skip(b, q) == IF Backlog(q) > 0 /\ Byte(q, 0) = b THEN Advance(q, 1) ELSE q
    IN  skip("lf", skip("cr", r))

ReadlineLeaves(r) == PastNewline(Advance(r, LineEnd(r)))

\* findforward: the first position of a sequence, or -1.
FindForward(r, what) ==
    LET hits == {i \in 0 .. (Backlog(r) - Len(what)) :
                    \A j \in 1 .. Len(what) : Byte(r, i + j - 1) = what[j]}
    IN  IF hits = {} \/ Backlog(r) = 0 THEN -1
        ELSE CHOOSE i \in hits : \A j \in hits : i <= j

CONSTANTS
    Contents,   \* what the other end may have to send, sequences of bytes
    Readbuf,    \* defaults::sz::file::readbuf
    MinRoom,    \* readbuffer reads nothing with less room: 8 in the code
    Watch,      \* what readuntil looks for
    Calls       \* the calls the owner of the file makes

Methods == {"gets", "waitforline", "read", "timedread", "readbuffer", "readuntil"}

Bytes == {"x", "cr", "lf"} \union UNION {{c[i] : i \in DOMAIN c} : c \in Contents}

ASSUME FileAssumption ==
    /\ Contents \subseteq Seq(Bytes) /\ Watch \in Seq(Bytes)
    /\ Readbuf \in Nat \ {0, 1} /\ MinRoom \in Nat \ {0}
    /\ \A c \in Calls : /\ c.op \in Methods /\ c.n \in Nat \ {0} /\ c.timeout \in BOOLEAN
                       /\ c = [op |-> c.op, n |-> c.n, timeout |-> c.timeout, stage |-> "read", room |-> 0]

VARIABLES
    content, sent,   \* what is sent in the end, and how much was sent
    peer,            \* "open", "closed" in order, or "reset"
    got,             \* how much of it the process has read
    errno,           \* as the last failed call left it: "none", "again", "other"
    buffer, feof,
    call,            \* the method under way: op is "none" between calls
    ret,             \* what the last method returned
    out              \* the bytes methods have taken from the stream

fileVars == <<content, sent, peer, got, errno, buffer, feof, call, ret, out>>
methodVars == <<got, errno, buffer, feof, ret, out>>

Least(a, b) == IF a < b THEN a ELSE b

\* A call: n is maxlinesize or sz; room is room() when the call began.
Call(op, n, timeout) ==
    [op |-> op, n |-> n, timeout |-> timeout, stage |-> "read", room |-> 0]

NoCall == Call("none", 0, FALSE)

NoRet == [by |-> "none", kind |-> "none", text |-> <<>>, from |-> 0]

FileInit ==
    /\ content \in Contents
    /\ sent = 0 /\ got = 0 /\ peer = "open" /\ errno = "none"
    /\ buffer = EmptyRing /\ feof = FALSE
    /\ call = NoCall /\ ret = NoRet /\ out = <<>>

(***************************************************************************)
(* The descriptor                                                          *)
(***************************************************************************)
Send ==
    /\ peer = "open" /\ sent < Len(content)
    /\ sent' \in (sent + 1) .. Len(content)
    /\ UNCHANGED <<content, peer, call, methodVars>>

Leave ==
    /\ peer = "open"
    /\ peer' \in {"closed", "reset"}
    /\ UNCHANGED <<content, sent, call, methodVars>>

Ready == sent > got \/ peer # "open"

\* read(2) with space for n bytes: more than zero, 0 at the end or when there
\* is no space, -1. A blocking descriptor is Ready when this is looked at.
Result(n) ==
    CASE n = 0 -> 0
      [] n > 0 /\ sent > got -> Least(n, sent - got)
      [] n > 0 /\ sent = got /\ peer = "closed" -> 0
      [] OTHER -> -1

Taken(n) == SubSeq(content, got + 1, got + Result(n))

\* What a read leaves in errno: nothing, unless it failed.
ErrnoAfter(n) ==
    IF Result(n) >= 0 THEN errno ELSE IF peer = "reset" THEN "other" ELSE "again"

(***************************************************************************)
(* Steps of the methods                                                    *)
(***************************************************************************)
ReadIn(n) ==
    /\ buffer' = Add(buffer, Taken(n))
    /\ got' = got + Result(n)
    /\ UNCHANGED errno

ReadNothing(n) == errno' = ErrnoAfter(n) /\ UNCHANGED <<buffer, got>>

\* The method ends. The bytes it takes from ring r, the others stay in left.
Return(kind, text, taken, left) ==
    /\ call' = NoCall
    /\ ret' = [by |-> call.op, kind |-> kind, text |-> text, from |-> Len(out)]
    /\ out' = out \o taken
    /\ buffer' = left

ReturnBlock(r, n) == Return("block", Peek(r, n), Peek(r, n), Advance(r, n))
ReturnNull == Return("null", <<>>, <<>>, buffer)
ReturnTimeout == Return("timeout", <<>>, <<>>, buffer)

\* gets and waitforline, with a line in the buffer: a part of it if it is too
\* long, or all of it.
ReturnLine ==
    LET n == Backlog(buffer) - Backlog(ReadlineLeaves(buffer)) IN
    IF LineEnd(buffer) >= call.n THEN ReturnBlock(buffer, call.n)
    ELSE Return("line", Peek(buffer, LineEnd(buffer)), Peek(buffer, n),
                ReadlineLeaves(buffer))

\* With feof set a call throws endOfFileException, unless it is one that looks
\* into the buffer first and is content with that.
Throws(c) ==
    /\ feof
    /\ c.op \in {"read", "timedread"} => Backlog(buffer) = 0
    /\ c.op = "readuntil" => FindForward(buffer, Watch) = -1

Begin(c) ==
    /\ call.op = "none"
    /\ IF Throws(c)
       THEN /\ ret' = [by |-> c.op, kind |-> "eof", text |-> <<>>, from |-> Len(out)]
            /\ UNCHANGED call
       ELSE /\ call' = [c EXCEPT !.room = Room(buffer)]
            /\ UNCHANGED ret
    /\ UNCHANGED <<content, sent, peer, got, errno, buffer, feof, out>>

Quiet == UNCHANGED <<content, sent, peer>>

(***************************************************************************)
(* gets: reads until the buffer has a line or no room. A read is asked for *)
(* one byte less than there is room.                                       *)
(***************************************************************************)
GetsWanted == Least(Readbuf, Room(buffer)) - 1

GetsRead ==
    /\ call.op = "gets"
    /\ Room(buffer) > 0 /\ ~ HasLine(buffer)
    /\ Ready \/ GetsWanted = 0
    /\ \/ /\ Result(GetsWanted) > 0
          /\ ReadIn(GetsWanted)
          /\ UNCHANGED <<feof, call, ret, out>>
       \/ /\ Result(GetsWanted) <= 0
          /\ feof' = TRUE
          /\ errno' = ErrnoAfter(GetsWanted)
          /\ UNCHANGED got
          /\ IF Result(GetsWanted) = 0 /\ Backlog(buffer) > 0
             THEN ReturnBlock(buffer, call.n) ELSE ReturnNull
    /\ Quiet

GetsReturn ==
    /\ call.op = "gets"
    /\ Room(buffer) = 0 \/ HasLine(buffer)
    /\ IF HasLine(buffer) THEN ReturnLine ELSE ReturnBlock(buffer, call.n)
    /\ UNCHANGED <<got, errno, feof>>
    /\ Quiet

(***************************************************************************)
(* waitforline: one read that does not block, and if that gave nothing a   *)
(* select with the timeout and one more read. An empty line is reported    *)
(* and left where it is; feof is not set at the end of the file.           *)
(***************************************************************************)
WaitRead ==
    /\ call.op = "waitforline" /\ call.stage = "read"
    /\ Room(buffer) > 0 /\ ~ HasLine(buffer)
    /\ \/ /\ Result(Room(buffer)) > 0
          /\ ReadIn(Room(buffer))
          /\ call' = [call EXCEPT !.stage = "line"]
       \/ /\ Result(Room(buffer)) <= 0
          /\ ReadNothing(Room(buffer))
          /\ call' = [call EXCEPT !.stage = "select"]
    /\ UNCHANGED <<feof, ret, out>>
    /\ Quiet

WaitSelect ==
    /\ call.op = "waitforline" /\ call.stage = "select"
    /\ \/ /\ ~ Ready
          /\ ReturnTimeout
          /\ UNCHANGED <<got, errno>>
       \/ /\ Ready
          /\ call' = [call EXCEPT !.stage = "line"]
          /\ IF Result(Room(buffer)) > 0 THEN ReadIn(Room(buffer)) ELSE ReadNothing(Room(buffer))
          /\ UNCHANGED <<ret, out>>
    /\ UNCHANGED feof
    /\ Quiet

WaitReturn ==
    /\ call.op = "waitforline"
    /\ call.stage = "line" \/ HasLine(buffer) \/ Room(buffer) = 0
    /\ IF ~ HasLine(buffer) THEN ReturnTimeout
       ELSE IF LineEnd(buffer) = 0 THEN Return("blank", <<>>, <<>>, buffer)
       ELSE ReturnLine
    /\ UNCHANGED <<got, errno, feof>>
    /\ Quiet

(***************************************************************************)
(* read(sz), which blocks until it has sz bytes                            *)
(***************************************************************************)
BlockSize == Least(call.n, call.room)

BlockRead ==
    /\ call.op = "read"
    /\ ~ feof /\ Backlog(buffer) < BlockSize
    /\ Ready
    /\ LET am == Least(Readbuf, Room(buffer)) IN
       \/ Result(am) > 0 /\ ReadIn(am) /\ UNCHANGED feof
       \/ Result(am) <= 0 /\ ReadNothing(am) /\ feof' = TRUE
    /\ UNCHANGED <<call, ret, out>>
    /\ Quiet

BlockReturn ==
    /\ call.op = "read"
    /\ feof \/ Backlog(buffer) >= BlockSize
    /\ ReturnBlock(buffer, BlockSize)
    /\ UNCHANGED <<got, errno, feof>>
    /\ Quiet

(***************************************************************************)
(* read(sz, timeout_ms): what is there within the time                     *)
(***************************************************************************)
TimedAmount == Least(Readbuf, Room(buffer))

TimedEnough ==
    /\ call.op = "timedread" /\ call.stage = "read"
    /\ Backlog(buffer) >= call.n
    /\ ReturnBlock(buffer, call.n)
    /\ UNCHANGED <<got, errno, feof>>
    /\ Quiet

\* The test of errno after a read that did not fail sees an older error.
TimedRead ==
    /\ call.op = "timedread" /\ call.stage = "read"
    /\ Backlog(buffer) < call.n
    /\ \/ /\ Result(TimedAmount) <= 0 /\ ErrnoAfter(TimedAmount) = "again"
          /\ call' = [call EXCEPT !.stage = "select"]
          /\ ReadNothing(TimedAmount)
       \/ /\ Result(TimedAmount) <= 0 /\ ErrnoAfter(TimedAmount) # "again"
          /\ call' = [call EXCEPT !.stage = "take"]
          /\ ReadNothing(TimedAmount)
       \/ /\ Result(TimedAmount) > 0
          /\ call' = [call EXCEPT !.stage = "take"]
          /\ ReadIn(TimedAmount)
    /\ UNCHANGED <<feof, ret, out>>
    /\ Quiet

TimedSelect ==
    /\ call.op = "timedread" /\ call.stage = "select"
    /\ \/ ~ Ready /\ ReturnTimeout /\ UNCHANGED <<got, errno>>
       \/ /\ Ready
          /\ call' = [call EXCEPT !.stage = "take"]
          /\ IF Result(TimedAmount) > 0 THEN ReadIn(TimedAmount) ELSE ReadNothing(TimedAmount)
          /\ UNCHANGED <<ret, out>>
    /\ UNCHANGED feof
    /\ Quiet

TimedReturn ==
    /\ call.op = "timedread" /\ call.stage = "take"
    /\ ReturnBlock(buffer, call.n)
    /\ UNCHANGED <<got, errno, feof>>
    /\ Quiet

(***************************************************************************)
(* readbuffer, and readuntil, which calls it between two looks at the      *)
(* buffer. readuntil takes what cannot be part of what it watches for.     *)
(***************************************************************************)
BufferAmount == Least(call.n, Room(buffer))

\* MUTANT: a read that would block is taken for the end of the file.
AnyFailureEnds(e) == TRUE
EndsFile(e) == e # "again"

BufferRead ==
    /\ call.op \in {"readbuffer", "readuntil"} /\ call.stage = "read"
    /\ Room(buffer) >= MinRoom
    /\ call.op = "readuntil" => FindForward(buffer, Watch) = -1
    /\ \/ /\ Result(BufferAmount) > 0
          /\ ReadIn(BufferAmount)
          /\ call' = [call EXCEPT !.stage = "done"]
          /\ UNCHANGED feof
       \/ /\ Result(BufferAmount) <= 0 /\ call.timeout /\ ErrnoAfter(BufferAmount) = "again"
          /\ ReadNothing(BufferAmount)
          /\ call' = [call EXCEPT !.stage = "select"]
          /\ UNCHANGED feof
       \/ /\ Result(BufferAmount) <= 0 /\ ~ (call.timeout /\ ErrnoAfter(BufferAmount) = "again")
          /\ ReadNothing(BufferAmount)
          /\ call' = [call EXCEPT !.stage = "done"]
          /\ feof' = EndsFile(ErrnoAfter(BufferAmount))
    /\ UNCHANGED <<ret, out>>
    /\ Quiet

BufferSelect ==
    /\ call.op \in {"readbuffer", "readuntil"} /\ call.stage = "select"
    /\ call' = [call EXCEPT !.stage = "done"]
    /\ \/ ~ Ready /\ feof' = EndsFile(errno) /\ UNCHANGED <<buffer, got, errno>>
       \/ Ready /\ Result(BufferAmount) > 0 /\ ReadIn(BufferAmount) /\ UNCHANGED feof
       \/ /\ Ready /\ Result(BufferAmount) <= 0
          /\ ReadNothing(BufferAmount)
          /\ feof' = EndsFile(ErrnoAfter(BufferAmount))
    /\ UNCHANGED <<ret, out>>
    /\ Quiet

BufferReturn ==
    /\ call.op = "readbuffer"
    /\ call.stage = "done" \/ Room(buffer) < MinRoom
    /\ Return("count", <<>>, <<>>, buffer)
    /\ UNCHANGED <<got, errno, feof>>
    /\ Quiet
UntilReturn ==
    LET at == FindForward(buffer, Watch)
        safe == Backlog(buffer) - (Len(Watch) + 3)
    IN
    /\ call.op = "readuntil"
    /\ at # -1 \/ call.stage = "done" \/ Room(buffer) < MinRoom
    /\ IF at # -1 THEN Return("found", Peek(buffer, at), Peek(buffer, at), Advance(buffer, at))
       ELSE IF safe >= 0 THEN ReturnBlock(buffer, safe)
       ELSE ReturnTimeout
    /\ UNCHANGED <<got, errno, feof>>
    /\ Quiet

Step ==
    \/ GetsRead \/ GetsReturn
    \/ WaitRead \/ WaitSelect \/ WaitReturn
    \/ BlockRead \/ BlockReturn
    \/ TimedEnough \/ TimedRead \/ TimedSelect \/ TimedReturn
    \/ BufferRead \/ BufferSelect \/ BufferReturn \/ UntilReturn

FileNext == Send \/ Leave \/ Step \/ \E c \in Calls : Begin(c)

FileSpec == FileInit /\ [][FileNext]_fileVars

(***************************************************************************)
(* Properties                                                              *)
(***************************************************************************)
FileTypeOK ==
    /\ content \in Contents /\ sent \in 0 .. Len(content) /\ got \in 0 .. sent
    /\ peer \in {"open", "closed", "reset"} /\ errno \in {"none", "again", "other"}
    /\ buffer.readcursor \in Cells /\ buffer.writecursor \in Cells
    /\ DOMAIN buffer.buffer = Cells
    /\ feof \in BOOLEAN
    /\ call.op = "none" \/ \E c \in Calls : call.op = c.op
    /\ Len(ret.text) <= Len(out)

\* Whatever mixture of calls takes the bytes, and however they come in, none is
\* lost, doubled or overtaken in the ring: what was taken, and then what the
\* ring holds, is what was read.
StreamKept == out \o Held(buffer) = SubSeq(content, 1, got)

\* What comes back as a line is the next line of the stream without its line
\* end, at most one carriage return of it, and the line end is taken with it.
LinesWhole ==
    ret.kind = "line" =>
        /\ "lf" \notin {ret.text[i] : i \in DOMAIN ret.text}
        /\ \E eol \in {<<"lf">>, <<"cr", "lf">>} :
               /\ SubSeq(content, ret.from + 1, Len(out)) = ret.text \o eol
               /\ eol = <<"lf">> /\ ret.text # <<>> => ret.text[Len(ret.text)] # "cr"

\* feof is set only when the stream has ended: no call on an open stream makes
\* the owner give up what is still to come. It holds for streams whose lines fit
\* the buffer. gets never fills it: with room for one byte it asks for none, and takes
\* the answer for the end of the file.
LinesFit ==
    LET most == Count - Margin - 1 IN
    \A i \in 0 .. (Len(content) - most) : \E j \in (i + 1) .. (i + most) : content[j] = "lf"
EofIsEnd == feof /\ LinesFit => peer # "open" /\ got = sent

\* However the stream is cut, each byte is handed out once and in order, lines are
\* cut at their ends, and feof means the end: StreamKept, LinesWhole, EofIsEnd.
StreamExact == StreamKept /\ LinesWhole /\ EofIsEnd
=============================================================================
