---------------------------- MODULE StreamProofs ----------------------------
(***************************************************************************)
(* For every stream, every way it is cut, and every size of the ring: the  *)
(* reading methods of file hand out each byte once and in order, cut lines *)
(* at their ends and set feof at the end; and the body that getChunked     *)
(* takes off a response without a timeout is the body that was sent.       *)
(*                                                                         *)
(* First what add, peek and readline do to the bytes of the ring; then     *)
(* what each step of a method does to the stream (Effect), which keeps     *)
(* StreamInv; then where getChunked stands in the response (Place), for    *)
(* which a call of gets or read is known by its GetsOutcome, ReadOutcome.  *)
(***************************************************************************)
EXTENDS ChunkedBody, Induction, SequenceTheorems, TLAPS

(***************************************************************************)
(* The ring                                                                *)
(***************************************************************************)
Wrap(x) == IF x < Count THEN x ELSE x - Count

LEMMA Around ==
    ASSUME NEW x \in Nat, x < 2 * Count
    PROVE  x % Count = Wrap(x)
<1>1. Count \in Nat \ {0}
  BY RingAssumption
<1>2. CASE x < Count
  BY <1>1, <1>2 DEF Wrap
<1>3. CASE x >= Count
  BY <1>1, <1>3 DEF Wrap
<1> QED
  BY <1>1, <1>2, <1>3

Ring == [buffer : [Cells -> Bytes], readcursor : Cells, writecursor : Cells]

\* The cell of byte i of a ring.
CellOf(r, i) == Wrap(r.readcursor + i)
Ahead(from, to) == IF from <= to THEN to - from ELSE to + Count - from

LEMMA AheadIs ==
    ASSUME NEW from \in Cells, NEW to \in Cells
    PROVE  (to + Count - from) % Count = Ahead(from, to) /\ Ahead(from, to) \in Cells
<1>1. Count \in Nat \ {0} /\ from \in 0 .. Count - 1 /\ to \in 0 .. Count - 1
  BY RingAssumption DEF Cells
<1>2. to + Count - from \in Nat /\ to + Count - from < 2 * Count
  BY <1>1
<1>3. (to + Count - from) % Count = Wrap(to + Count - from)
  BY <1>2, Around
<1>4. Wrap(to + Count - from) = Ahead(from, to) /\ Ahead(from, to) \in Cells
  BY <1>1 DEF Wrap, Ahead, Cells
<1> QED
  BY <1>3, <1>4

LEMMA BacklogIs ==
    ASSUME NEW r \in Ring
    PROVE  Backlog(r) = Ahead(r.readcursor, r.writecursor) /\ Backlog(r) \in 0 .. Count - 1
BY AheadIs DEF Backlog, Ring, Cells

LEMMA ByteIs ==
    ASSUME NEW r \in Ring, NEW i \in 0 .. Count - 1
    PROVE  Byte(r, i) = r.buffer[CellOf(r, i)] /\ CellOf(r, i) \in Cells /\ Byte(r, i) \in Bytes
<1>1. Count \in Nat \ {0} /\ r.readcursor \in 0 .. Count - 1
  BY RingAssumption DEF Ring, Cells
<1>2. r.readcursor + i \in Nat /\ r.readcursor + i < 2 * Count
  BY <1>1
<1>3. (r.readcursor + i) % Count = CellOf(r, i)
  BY <1>2, Around DEF CellOf
<1>4. CellOf(r, i) \in Cells
  BY <1>1 DEF CellOf, Wrap, Cells
<1> QED
  BY <1>3, <1>4 DEF Byte, Ring

\* The arithmetic of the cursors.
LEMMA CursorMoves ==
    ASSUME NEW rc \in Cells, NEW wc \in Cells, NEW n \in Nat
    PROVE  /\ Ahead(rc, wc) + n < Count =>
                 /\ (wc + n) % Count = Wrap(wc + n) /\ Wrap(wc + n) \in Cells
                 /\ Ahead(rc, Wrap(wc + n)) = Ahead(rc, wc) + n
           /\ n <= Ahead(rc, wc) =>
                 /\ (rc + n) % Count = Wrap(rc + n) /\ Wrap(rc + n) \in Cells
                 /\ Ahead(Wrap(rc + n), wc) = Ahead(rc, wc) - n
           /\ \A i \in Nat : i < Ahead(rc, wc) => /\ Wrap(rc + i) \in Cells
                                                /\ Ahead(wc, Wrap(rc + i)) >= Count - Ahead(rc, wc)
           /\ \A i \in Nat : Ahead(rc, wc) + i < Count =>
                 Wrap(rc + Ahead(rc, wc) + i) \in Cells /\ Ahead(wc, Wrap(rc + Ahead(rc, wc) + i)) = i
           /\ \A i \in Nat : n + i < Ahead(rc, wc) => Wrap(Wrap(rc + n) + i) = Wrap(rc + (n + i))
<1>1. Count \in Nat \ {0} /\ rc \in 0 .. Count - 1 /\ wc \in 0 .. Count - 1
  BY RingAssumption DEF Cells
<1>2. ASSUME Ahead(rc, wc) + n < Count
      PROVE  /\ (wc + n) % Count = Wrap(wc + n) /\ Wrap(wc + n) \in Cells
             /\ Ahead(rc, Wrap(wc + n)) = Ahead(rc, wc) + n
  <2>1. wc + n \in Nat /\ wc + n < 2 * Count
    BY <1>1, <1>2 DEF Ahead
  <2>2. Wrap(wc + n) \in Cells /\ Ahead(rc, Wrap(wc + n)) = Ahead(rc, wc) + n
    BY <1>1, <1>2 DEF Ahead, Wrap, Cells
  <2> QED
    BY <2>1, <2>2, Around
<1>3. ASSUME n <= Ahead(rc, wc)
      PROVE  /\ (rc + n) % Count = Wrap(rc + n) /\ Wrap(rc + n) \in Cells
             /\ Ahead(Wrap(rc + n), wc) = Ahead(rc, wc) - n
  <2>1. rc + n \in Nat /\ rc + n < 2 * Count
    BY <1>1, <1>3 DEF Ahead
  <2>2. Wrap(rc + n) \in Cells /\ Ahead(Wrap(rc + n), wc) = Ahead(rc, wc) - n
    BY <1>1, <1>3 DEF Ahead, Wrap, Cells
  <2> QED
    BY <2>1, <2>2, Around
<1>4. ASSUME NEW i \in Nat, i < Ahead(rc, wc)
      PROVE  Wrap(rc + i) \in Cells /\ Ahead(wc, Wrap(rc + i)) >= Count - Ahead(rc, wc)
  BY <1>1, <1>4 DEF Ahead, Wrap, Cells
<1>5. ASSUME NEW i \in Nat, Ahead(rc, wc) + i < Count
      PROVE  Wrap(rc + Ahead(rc, wc) + i) \in Cells /\ Ahead(wc, Wrap(rc + Ahead(rc, wc) + i)) = i
  BY <1>1, <1>5 DEF Ahead, Wrap, Cells
<1>6. ASSUME NEW i \in Nat, n + i < Ahead(rc, wc)
      PROVE  Wrap(Wrap(rc + n) + i) = Wrap(rc + (n + i))
  BY <1>1, <1>6 DEF Ahead, Wrap, Cells
<1> QED
  BY <1>2, <1>3, <1>4, <1>5, <1>6

LEMMA AddIs ==
    ASSUME NEW r \in Ring, NEW data \in Seq(Bytes), Backlog(r) + Len(data) < Count
    PROVE  /\ Add(r, data) \in Ring
           /\ Backlog(Add(r, data)) = Backlog(r) + Len(data)
           /\ \A i \in 0 .. Backlog(r) - 1 : Byte(Add(r, data), i) = Byte(r, i)
           /\ \A i \in 1 .. Len(data) : Byte(Add(r, data), Backlog(r) + i - 1) = data[i]
<1>1. Count \in Nat \ {0} /\ r.readcursor \in Cells /\ r.writecursor \in Cells /\ Len(data) \in Nat
  BY RingAssumption DEF Ring
<1>2. PICK rc \in Cells, wc \in Cells, n \in Nat, b \in Nat :
         /\ r.readcursor = rc /\ r.writecursor = wc /\ Len(data) = n
         /\ Backlog(r) = b /\ b = Ahead(rc, wc) /\ b + n < Count
  BY <1>1, BacklogIs
<1>3. (wc + n) % Count = Wrap(wc + n) /\ Wrap(wc + n) \in Cells /\ Ahead(rc, Wrap(wc + n)) = b + n
  BY <1>2, CursorMoves
<1>4. PICK q : q = Add(r, data)
  OBVIOUS
<1>5. /\ q.readcursor = rc /\ q.writecursor = Wrap(wc + n)
      /\ q = [buffer |-> q.buffer, readcursor |-> q.readcursor, writecursor |-> q.writecursor]
  BY <1>2, <1>3, <1>4 DEF Add, Ring
<1>6. q.buffer = [c \in Cells |-> IF Ahead(wc, c) < n THEN data[Ahead(wc, c) + 1] ELSE r.buffer[c]]
  <2>1. q.buffer = [c \in Cells |-> IF (c + Count - wc) % Count < n THEN data[((c + Count - wc) % Count) + 1] ELSE r.buffer[c]]
    BY <1>2, <1>4 DEF Add, Ring
  <2>2. \A c \in Cells : (c + Count - wc) % Count = Ahead(wc, c)
    BY AheadIs
  <2> QED
    BY <2>1, <2>2
<1>7. q \in Ring
  <2>1. \A c \in Cells : Ahead(wc, c) \in Nat
    BY AheadIs DEF Cells
  <2>2. \A c \in Cells : (IF Ahead(wc, c) < n THEN data[Ahead(wc, c) + 1] ELSE r.buffer[c]) \in Bytes
    BY <1>2, <2>1 DEF Ring
  <2>3. q.buffer \in [Cells -> Bytes]
    BY <1>6, <2>2
  <2> QED
    BY <1>3, <1>5, <2>3 DEF Ring
<1>8. Backlog(q) = b + n
  BY <1>3, <1>5, <1>7, BacklogIs
<1>9. ASSUME NEW i \in 0 .. b - 1 PROVE Byte(q, i) = Byte(r, i)
  <2>1. i \in 0 .. Count - 1 /\ i < b /\ i \in Nat
    BY <1>1, <1>2
  <2>2. Wrap(rc + i) \in Cells /\ Ahead(wc, Wrap(rc + i)) >= Count - b
    BY <1>2, <2>1, CursorMoves
  <2>3. ~ (Ahead(wc, Wrap(rc + i)) < n)
    <3>1. Ahead(wc, Wrap(rc + i)) \in 0 .. Count - 1
      BY <2>2, AheadIs DEF Cells
    <3> QED
      BY <1>1, <1>2, <2>2, <3>1
  <2>4. q.buffer[Wrap(rc + i)] = r.buffer[Wrap(rc + i)]
    BY <1>6, <2>2, <2>3
  <2>5. Byte(q, i) = q.buffer[Wrap(rc + i)] /\ Byte(r, i) = r.buffer[Wrap(rc + i)]
    BY <1>2, <1>5, <1>7, <2>1, ByteIs DEF CellOf
  <2> QED
    BY <2>4, <2>5
<1>10. ASSUME NEW i \in 1 .. n PROVE Byte(q, b + i - 1) = data[i]
  <2>1. i - 1 \in Nat /\ b + (i - 1) < Count /\ b + i - 1 \in 0 .. Count - 1 /\ b + i - 1 = b + (i - 1)
        /\ i - 1 < n /\ (i - 1) + 1 = i
    BY <1>1, <1>2
  <2>2. Wrap(rc + b + (i - 1)) \in Cells /\ Ahead(wc, Wrap(rc + b + (i - 1))) = i - 1
    BY <1>2, <2>1, CursorMoves
  <2>3. rc + b + (i - 1) = rc + (b + i - 1)
    BY <1>2 DEF Cells
  <2>4. q.buffer[Wrap(rc + b + (i - 1))] = data[i]
    BY <1>6, <2>1, <2>2
  <2>5. Byte(q, b + i - 1) = q.buffer[Wrap(rc + (b + i - 1))]
    BY <1>5, <1>7, <2>1, ByteIs DEF CellOf
  <2> QED
    BY <2>3, <2>4, <2>5
<1> QED
  BY <1>2, <1>4, <1>7, <1>8, <1>9, <1>10

Lower(a, b) == IF a > b THEN b ELSE a

LEMMA PeekIs ==
    ASSUME NEW r \in Ring, NEW n \in Nat
    PROVE  /\ Peek(r, n) \in Seq(Bytes)
           /\ Len(Peek(r, n)) = Lower(n, Backlog(r)) /\ Lower(n, Backlog(r)) \in 0 .. Backlog(r)
           /\ \A i \in 1 .. Lower(n, Backlog(r)) : Peek(r, n)[i] = Byte(r, i - 1)
<1>1. Backlog(r) \in 0 .. Count - 1 /\ Count \in Nat
  BY BacklogIs, RingAssumption
<1>2. Lower(n, Backlog(r)) \in Nat /\ Lower(n, Backlog(r)) <= Backlog(r)
  BY <1>1 DEF Lower
<1>3. Peek(r, n) = [i \in 1 .. Lower(n, Backlog(r)) |-> Byte(r, i - 1)]
  BY DEF Peek, Lower
<1>4. \A i \in 1 .. Lower(n, Backlog(r)) : Byte(r, i - 1) \in Bytes
  BY <1>1, <1>2, ByteIs
<1> QED
  BY <1>1, <1>2, <1>3, <1>4

LEMMA AdvanceIs ==
    ASSUME NEW r \in Ring, NEW n \in Nat
    PROVE  /\ Advance(r, n) \in Ring
           /\ Backlog(Advance(r, n)) = Backlog(r) - Lower(n, Backlog(r))
           /\ \A i \in 0 .. Backlog(r) - Lower(n, Backlog(r)) - 1 :
                 Byte(Advance(r, n), i) = Byte(r, Lower(n, Backlog(r)) + i)
<1>1. Count \in Nat \ {0} /\ r.readcursor \in Cells /\ r.writecursor \in Cells
  BY RingAssumption DEF Ring
<1>2. PICK rc \in Cells, wc \in Cells, b \in Nat, k \in Nat :
         /\ r.readcursor = rc /\ r.writecursor = wc /\ Backlog(r) = b /\ b = Ahead(rc, wc)
         /\ k = Lower(n, b) /\ k <= b /\ b < Count /\ Len(Peek(r, n)) = k
  <2>1. Backlog(r) \in 0 .. Count - 1 /\ Backlog(r) = Ahead(r.readcursor, r.writecursor)
    BY BacklogIs
  <2>2. Len(Peek(r, n)) = Lower(n, Backlog(r)) /\ Lower(n, Backlog(r)) \in 0 .. Backlog(r)
    BY PeekIs
  <2>3. Backlog(r) \in Nat /\ Lower(n, Backlog(r)) \in Nat /\ Lower(n, Backlog(r)) <= Backlog(r) /\ Backlog(r) < Count
    BY <1>1, <2>1, <2>2
  <2> QED
    BY ONLY <1>1, <2>1, <2>2, <2>3
<1>3. (rc + k) % Count = Wrap(rc + k) /\ Wrap(rc + k) \in Cells /\ Ahead(Wrap(rc + k), wc) = b - k
  BY <1>2, CursorMoves
<1>4. PICK q : q = Advance(r, n)
  OBVIOUS
<1>5. /\ q.readcursor = Wrap(rc + k) /\ q.writecursor = wc /\ q.buffer = r.buffer
      /\ q = [buffer |-> q.buffer, readcursor |-> q.readcursor, writecursor |-> q.writecursor]
  BY <1>2, <1>3, <1>4 DEF Advance, Ring
<1>6. q \in Ring
  BY <1>3, <1>5 DEF Ring
<1>7. Backlog(q) = b - k
  BY <1>3, <1>5, <1>6, BacklogIs
<1>8. ASSUME NEW i \in 0 .. b - k - 1 PROVE Byte(q, i) = Byte(r, k + i)
  <2>1. i \in 0 .. Count - 1 /\ k + i \in 0 .. Count - 1 /\ i \in Nat /\ k + i < b
    BY <1>1, <1>2
  <2>2. Wrap(Wrap(rc + k) + i) = Wrap(rc + (k + i))
    BY <1>2, <2>1, CursorMoves
  <2> QED
    BY <1>2, <1>5, <1>6, <2>1, <2>2, ByteIs DEF CellOf
<1> QED
  BY <1>2, <1>4, <1>6, <1>7, <1>8

\* q is ring r without its first n bytes.
Without(r, n, q) ==
    /\ q \in Ring /\ n \in 0 .. Backlog(r) /\ Backlog(q) = Backlog(r) - n
    /\ \A i \in 0 .. Backlog(r) - n - 1 : Byte(q, i) = Byte(r, n + i)

LEMMA AdvanceTakes ==
    ASSUME NEW r \in Ring, NEW n \in Nat
    PROVE  Without(r, Lower(n, Backlog(r)), Advance(r, n))
BY AdvanceIs, PeekIs DEF Without

LEMMA WithoutNone == ASSUME NEW r \in Ring PROVE Without(r, 0, r)
<1>1. Backlog(r) \in Nat /\ \A i \in 0 .. Backlog(r) - 0 - 1 : 0 + i = i
  BY BacklogIs, RingAssumption
<1> QED
  BY <1>1 DEF Without

LEMMA WithoutBoth ==
    ASSUME NEW r \in Ring, NEW n, NEW q, NEW m, NEW p, Without(r, n, q), Without(q, m, p)
    PROVE  Without(r, n + m, p)
<1>1. Backlog(r) \in Nat /\ n \in Nat /\ m \in Nat /\ n <= Backlog(r) /\ m <= Backlog(r) - n
  BY BacklogIs, RingAssumption DEF Without
<1>2. ASSUME NEW i \in 0 .. Backlog(r) - (n + m) - 1
      PROVE  Byte(p, i) = Byte(r, n + m + i)
  <2>1. i \in 0 .. Backlog(q) - m - 1 /\ m + i \in 0 .. Backlog(r) - n - 1 /\ n + (m + i) = n + m + i
    BY <1>1 DEF Without
  <2>2. Byte(p, i) = Byte(q, m + i)
    BY <2>1 DEF Without
  <2>3. Byte(q, m + i) = Byte(r, n + (m + i))
    BY <2>1 DEF Without
  <2> QED
    BY <2>1, <2>2, <2>3
<1>3. Backlog(p) = Backlog(r) - (n + m)
  BY <1>1 DEF Without
<1> QED
  BY <1>1, <1>2, <1>3 DEF Without

\* Where the line ends, and what of its end is passed by.
LEMMA NewlineIs ==
    ASSUME NEW r \in Ring, HasLine(r)
    PROVE  /\ NewlineAt(r) \in 0 .. Backlog(r) - 1 /\ Byte(r, NewlineAt(r)) = "lf"
           /\ \A j \in 0 .. NewlineAt(r) - 1 : Byte(r, j) # "lf"
<1>1. Backlog(r) \in Nat
  BY BacklogIs, RingAssumption
<1> DEFINE S == {i \in 0 .. Backlog(r) - 1 : Byte(r, i) = "lf"}
<1>2. S # {} /\ S \in SUBSET Nat
  BY <1>1 DEF HasLine
<1>3. PICK i \in S : \A j \in S : i <= j
  BY <1>2, LeastNumber
<1>4. \A j \in 0 .. i - 1 : Byte(r, j) # "lf"
  BY <1>1, <1>3
<1>5. \E k \in 0 .. Backlog(r) - 1 : Byte(r, k) = "lf" /\ \A j \in 0 .. k - 1 : Byte(r, j) # "lf"
  BY <1>3, <1>4
<1> QED
  BY <1>5 DEF NewlineAt

\* The line is i bytes long, and n are taken with its end.
LineIn(r, i, n) ==
    /\ i \in 0 .. Backlog(r) - 1 /\ n \in 1 .. Backlog(r)
    /\ \A j \in 0 .. i - 1 : Byte(r, j) # "lf"
    /\ \/ n = i + 1 /\ Byte(r, i) = "lf" /\ (i > 0 => Byte(r, i - 1) # "cr")
       \/ n = i + 2 /\ Byte(r, i) = "cr" /\ Byte(r, i + 1) = "lf"

LEMMA LineTaken ==
    ASSUME NEW r \in Ring, HasLine(r)
    PROVE  LET n == Backlog(r) - Backlog(ReadlineLeaves(r)) IN
           Without(r, n, ReadlineLeaves(r)) /\ LineIn(r, LineEnd(r), n)
<1>1. PICK b \in Nat, e \in Nat : b = Backlog(r) /\ b > e /\ e = NewlineAt(r) /\ Byte(r, e) = "lf"
                                  /\ \A j \in 0 .. e - 1 : Byte(r, j) # "lf"
  BY NewlineIs, BacklogIs, RingAssumption
<1>2. PICK i \in Nat : i = LineEnd(r)
  BY <1>1 DEF LineEnd
<1>3. PICK q : q = Advance(r, i) /\ Without(r, i, q) /\ q \in Ring
  <2>1. Lower(i, b) = i
    BY <1>1, <1>2 DEF LineEnd, Lower
  <2> QED
    BY <1>1, <1>2, <2>1, AdvanceTakes DEF Without
<1>4. ASSUME NEW p \in Ring, Backlog(p) > 0
      PROVE  Without(p, 1, Advance(p, 1))
  <2>1. Lower(1, Backlog(p)) = 1
    BY <1>4, BacklogIs, RingAssumption DEF Lower
  <2> QED
    BY <2>1, AdvanceTakes
<1>5. ReadlineLeaves(r) = PastNewline(q)
  BY <1>2, <1>3 DEF ReadlineLeaves
<1>6. CASE e > 0 /\ Byte(r, e - 1) = "cr"
  <2>1. i = e - 1 /\ i \in 0 .. b - 1
    BY <1>1, <1>2, <1>6 DEF LineEnd
  <2>2. Backlog(q) = b - i /\ Backlog(q) > 0 /\ Byte(q, 0) = "cr" /\ Byte(q, 1) = "lf"
    <3>1. 0 \in 0 .. b - i - 1 /\ 1 \in 0 .. b - i - 1 /\ i + 0 = e - 1 /\ i + 1 = e
      BY <1>1, <2>1
    <3> QED
      BY <1>1, <1>3, <1>6, <3>1 DEF Without
  <2>3. PICK p : p = Advance(q, 1) /\ Without(q, 1, p) /\ p \in Ring
    BY <1>3, <1>4, <2>2 DEF Without
  <2>4. Backlog(p) = b - i - 1 /\ Backlog(p) > 0 /\ Byte(p, 0) = "lf"
    <3>1. 0 \in 0 .. Backlog(q) - 1 - 1 /\ 1 + 0 = 1
      BY <1>1, <2>1, <2>2
    <3> QED
      BY <1>1, <2>1, <2>2, <2>3, <3>1 DEF Without
  <2>5. ReadlineLeaves(r) = Advance(p, 1)
    BY <1>5, <2>2, <2>3, <2>4 DEF PastNewline
  <2>6. Without(p, 1, Advance(p, 1))
    BY <1>4, <2>3, <2>4
  <2>7. Without(r, i + 1, p)
    BY <1>3, <2>3, WithoutBoth
  <2>8. Without(r, i + 1 + 1, ReadlineLeaves(r))
    BY <2>5, <2>6, <2>7, WithoutBoth
  <2>9. Backlog(r) - Backlog(ReadlineLeaves(r)) = i + 2 /\ i + 1 + 1 = i + 2 /\ i + 2 \in 1 .. b
    BY <1>1, <2>1, <2>8 DEF Without
  <2>10. LineIn(r, i, i + 2)
    BY <1>1, <1>6, <2>1, <2>9 DEF LineIn
  <2> QED
    BY <1>2, <2>8, <2>9, <2>10
<1>7. CASE ~ (e > 0 /\ Byte(r, e - 1) = "cr")
  <2>1. i = e
    BY <1>1, <1>2, <1>7 DEF LineEnd
  <2>2. Backlog(q) = b - i /\ Backlog(q) > 0 /\ Byte(q, 0) = "lf"
    <3>1. 0 \in 0 .. b - i - 1 /\ i + 0 = e
      BY <1>1, <2>1
    <3> QED
      BY <1>1, <1>3, <3>1 DEF Without
  <2>3. ReadlineLeaves(r) = Advance(q, 1)
    BY <1>5, <2>2 DEF PastNewline
  <2>4. Without(q, 1, Advance(q, 1))
    BY <1>3, <1>4, <2>2
  <2>5. Without(r, i + 1, ReadlineLeaves(r))
    BY <1>3, <2>3, <2>4, WithoutBoth
  <2>6. Backlog(r) - Backlog(ReadlineLeaves(r)) = i + 1 /\ i + 1 \in 1 .. b /\ i \in 0 .. b - 1
    BY <1>1, <2>1, <2>5 DEF Without
  <2>7. LineIn(r, i, i + 1)
    BY <1>1, <1>7, <2>1, <2>6 DEF LineIn
  <2> QED
    BY <1>2, <2>5, <2>6, <2>7
<1> QED
  BY <1>6, <1>7

(***************************************************************************)
(* The stream                                                              *)
(***************************************************************************)
Most == Count - Margin
AnyCall == [op : Methods, n : Nat \ {0}, timeout : BOOLEAN,
            stage : {"read", "line", "select", "take", "done"}, room : 0 .. Most]

StreamTypes ==
    /\ content \in Seq(Bytes) /\ sent \in 0 .. Len(content) /\ got \in 0 .. sent
    /\ peer \in {"open", "closed", "reset"} /\ errno \in {"none", "again", "other"}
    /\ buffer \in Ring /\ Backlog(buffer) \in 0 .. Most
    /\ feof \in BOOLEAN /\ out \in Seq(Bytes)
    /\ call = NoCall \/ call \in AnyCall

\* What was taken, and then what the ring holds, is what was read.
Kept ==
    /\ got = Len(out) + Backlog(buffer)
    /\ \A i \in 1 .. Len(out) : out[i] = content[i]
    /\ \A i \in 0 .. Backlog(buffer) - 1 : Byte(buffer, i) = content[Len(out) + i + 1]

LEMMA Piece ==
    ASSUME NEW S, NEW s \in Seq(S), NEW m \in Nat, NEW k \in Nat, m + k <= Len(s)
    PROVE  /\ SubSeq(s, m + 1, m + k) \in Seq(S) /\ Len(SubSeq(s, m + 1, m + k)) = k
           /\ \A i \in 1 .. k : SubSeq(s, m + 1, m + k)[i] = s[m + i]
<1>1. m + 1 \in Int /\ m + k \in Int /\ \A i \in m + 1 .. m + k : s[i] \in S
  OBVIOUS
<1>2. (m + k) - (m + 1) + 1 = k /\ (IF m + 1 <= m + k THEN (m + k) - (m + 1) + 1 ELSE 0) = k
  OBVIOUS
<1>3. /\ SubSeq(s, m + 1, m + k) \in Seq(S)
      /\ Len(SubSeq(s, m + 1, m + k)) = IF m + 1 <= m + k THEN (m + k) - (m + 1) + 1 ELSE 0
      /\ \A i \in 1 .. (m + k) - (m + 1) + 1 : SubSeq(s, m + 1, m + k)[i] = s[(m + 1) + i - 1]
  BY ONLY <1>1, SubSeqProperties
<1>4. \A i \in 1 .. k : (m + 1) + i - 1 = m + i
  OBVIOUS
<1> QED
  BY ONLY <1>2, <1>3, <1>4

LEMMA Joined ==
    ASSUME NEW S, NEW s \in Seq(S), NEW t \in Seq(S)
    PROVE  /\ s \o t \in Seq(S) /\ Len(s \o t) = Len(s) + Len(t)
           /\ \A i \in 1 .. Len(s) : (s \o t)[i] = s[i]
           /\ \A i \in 1 .. Len(t) : (s \o t)[Len(s) + i] = t[i]
  OBVIOUS

LEMMA RoomIs ==
    ASSUME StreamTypes
    PROVE  Room(buffer) = Most - Backlog(buffer) /\ Room(buffer) \in 0 .. Most /\ Most \in Nat \ {0} /\ Most < Count
<1>1. Count \in Nat /\ Margin \in Nat /\ Margin < Count /\ Margin >= 1
  BY RingAssumption
<1> QED
  BY <1>1 DEF StreamTypes, Room, Most

LEMMA ResultIs ==
    ASSUME StreamTypes, NEW n \in Nat
    PROVE  /\ Result(n) > 0 => /\ n > 0 /\ Result(n) \in 1 .. n /\ Result(n) <= sent - got
                               /\ Taken(n) \in Seq(Bytes) /\ Len(Taken(n)) = Result(n)
                               /\ \A i \in 1 .. Result(n) : Taken(n)[i] = content[got + i]
           /\ ~ (Result(n) > 0) /\ n > 0 => sent = got
           /\ Result(n) = 0 /\ n > 0 => peer = "closed"
           /\ Result(n) \in Int /\ ErrnoAfter(n) \in {"none", "again", "other"}
<1>1. sent \in Nat /\ got \in Nat /\ got <= sent /\ sent <= Len(content) /\ Len(content) \in Nat /\ content \in Seq(Bytes)
  BY DEF StreamTypes
<1>2. CASE n > 0 /\ sent > got
  <2>1. Result(n) = Least(n, sent - got) /\ Result(n) \in 1 .. n /\ Result(n) <= sent - got
    BY <1>1, <1>2 DEF Result, Least
  <2>2. PICK k \in Nat : k = Result(n) /\ k > 0 /\ got + k <= Len(content)
    BY <1>1, <2>1
  <2>4. Taken(n) = SubSeq(content, got + 1, got + k)
    BY <2>2 DEF Taken
  <2>5. Taken(n) \in Seq(Bytes) /\ Len(Taken(n)) = k
        /\ \A i \in 1 .. k : Taken(n)[i] = content[got + i]
    <3>1. got \in Nat /\ content \in Seq(Bytes) /\ got + k <= Len(content)
      BY <1>1, <2>2
    <3>2. /\ SubSeq(content, got + 1, got + k) \in Seq(Bytes) /\ Len(SubSeq(content, got + 1, got + k)) = k
          /\ \A i \in 1 .. k : SubSeq(content, got + 1, got + k)[i] = content[got + i]
      BY ONLY <3>1, k \in Nat, Piece
    <3> QED
      BY <2>4, <3>2
  <2>6. ErrnoAfter(n) = errno
    BY <2>1 DEF ErrnoAfter
  <2> QED
    BY <1>1, <1>2, <2>1, <2>2, <2>5, <2>6 DEF StreamTypes
<1>3. CASE ~ (n > 0 /\ sent > got)
  <2>1. Result(n) \in {0, -1} /\ (n > 0 => sent = got) /\ (Result(n) = 0 /\ n > 0 => peer = "closed")
    BY <1>1, <1>3 DEF Result
  <2> QED
    BY <2>1 DEF ErrnoAfter, StreamTypes
<1> QED
  BY <1>2, <1>3

\* A read into the ring, of as much as there is room for, or less.
Reads(n) == n \in 1 .. Room(buffer) /\ Result(n) > 0 /\ ReadIn(n)

LEMMA ReadsKeep ==
    ASSUME StreamTypes, Kept, NEW n, Reads(n), UNCHANGED <<content, sent, out>>
    PROVE  /\ Kept' /\ buffer' \in Ring /\ Backlog(buffer)' \in 0 .. Most
           /\ got' \in 0 .. sent /\ got' > got /\ sent > got
<1>1. Room(buffer) = Most - Backlog(buffer) /\ Most \in Nat /\ Most < Count /\ Count \in Nat
  BY RoomIs, RingAssumption
<1>2. n \in Nat /\ n <= Most - Backlog(buffer)
  BY <1>1 DEF Reads, StreamTypes
<1>3. PICK d \in Seq(Bytes), k \in Nat, b \in Nat, o \in Nat :
         /\ d = Taken(n) /\ k = Len(d) /\ k = Result(n) /\ k > 0 /\ k <= n /\ k <= sent - got
         /\ b = Backlog(buffer) /\ o = Len(out) /\ \A i \in 1 .. k : d[i] = content[got + i]
  <2>1. Len(out) \in Nat /\ Backlog(buffer) \in Nat
    BY <1>1 DEF StreamTypes
  <2> QED
    BY <1>2, <2>1, ResultIs DEF Reads
<1>4. buffer' = Add(buffer, d) /\ got' = got + k
  BY <1>3 DEF Reads, ReadIn
<1>5. /\ buffer' \in Ring /\ Backlog(buffer') = b + k
      /\ \A i \in 0 .. b - 1 : Byte(buffer', i) = Byte(buffer, i)
      /\ \A i \in 1 .. k : Byte(buffer', b + i - 1) = d[i]
  <2>1. b + k < Count /\ buffer \in Ring
    BY <1>1, <1>2, <1>3 DEF StreamTypes
  <2>2. Backlog(buffer) + Len(d) < Count
    BY <1>3, <2>1
  <2>3. \A i \in 1 .. Len(d) : Byte(Add(buffer, d), Backlog(buffer) + i - 1) = d[i]
    BY <2>1, <2>2, AddIs
  <2>4. /\ Add(buffer, d) \in Ring /\ Backlog(Add(buffer, d)) = Backlog(buffer) + Len(d)
        /\ \A i \in 0 .. Backlog(buffer) - 1 : Byte(Add(buffer, d), i) = Byte(buffer, i)
    BY <2>1, <2>2, AddIs
  <2> QED
    BY <1>3, <1>4, <2>3, <2>4
<1>6. got = o + b /\ got \in Nat /\ sent \in Nat
  <2>1. got = o + b
    BY <1>3 DEF Kept
  <2> QED
    BY <2>1 DEF StreamTypes
<1>7. ASSUME NEW i \in 0 .. b + k - 1
      PROVE  Byte(buffer', i) = content[o + i + 1]
  <2>1. CASE i < b
    <3>1. i \in 0 .. b - 1
      BY <2>1
    <3> QED
      BY <1>3, <1>5, <3>1 DEF Kept
  <2>2. CASE i >= b
    <3>1. i - b + 1 \in 1 .. k /\ b + (i - b + 1) - 1 = i /\ (o + b) + (i - b + 1) = o + i + 1
      BY ONLY <2>2, b \in Nat, k \in Nat, o \in Nat, i \in 0 .. b + k - 1
    <3>2. Byte(buffer', b + (i - b + 1) - 1) = d[i - b + 1] /\ d[i - b + 1] = content[(o + b) + (i - b + 1)]
      BY <1>3, <1>5, <1>6, <3>1
    <3> QED
      BY <3>1, <3>2
  <2> QED
    BY <1>3, <2>1, <2>2
<1>8. got' = o + (b + k) /\ got' \in 0 .. sent /\ got' > got /\ sent > got /\ b + k \in 0 .. Most
  <2>1. k <= Most - b /\ k <= sent - got /\ k > 0
    BY <1>1, <1>2, <1>3
  <2> QED
    BY <1>1, <1>4, <1>6, <2>1
<1>9. Kept'
  BY <1>3, <1>5, <1>7, <1>8 DEF Kept
<1> QED
  BY <1>5, <1>8, <1>9

\* n bytes are taken from the ring.
Takes(n) == Without(buffer, n, buffer') /\ out' = out \o Peek(buffer, n) /\ UNCHANGED <<content, got>>

LEMMA TakesKeep ==
    ASSUME StreamTypes, Kept, NEW n, Takes(n)
    PROVE  /\ Kept' /\ buffer' \in Ring /\ Backlog(buffer)' \in 0 .. Most
           /\ out' \in Seq(Bytes) /\ Len(out') = Len(out) + n /\ Len(out) \in Nat /\ n \in Nat
           /\ \A i \in 1 .. n : /\ Peek(buffer, n)[i] = content[Len(out) + i]
                                /\ Byte(buffer, i - 1) = content[Len(out) + i]
           /\ Len(Peek(buffer, n)) = n
<1>1. PICK b \in Nat, o \in Nat, k \in Nat : b = Backlog(buffer) /\ o = Len(out) /\ k = n /\ k <= b /\ b <= Most
  <2>1. Most \in Nat
    BY RoomIs
  <2> QED
    BY <2>1 DEF StreamTypes, Takes, Without
<1>2. buffer \in Ring /\ out \in Seq(Bytes) /\ Most \in Nat
  BY RoomIs DEF StreamTypes
<1>3. Lower(k, b) = k
  BY <1>1 DEF Lower
<1>4. PICK p \in Seq(Bytes) : /\ p = Peek(buffer, k) /\ Len(p) = k
                               /\ \A i \in 1 .. k : p[i] = Byte(buffer, i - 1)
  <2>1. /\ Peek(buffer, k) \in Seq(Bytes) /\ Len(Peek(buffer, k)) = Lower(k, Backlog(buffer))
        /\ \A i \in 1 .. Lower(k, Backlog(buffer)) : Peek(buffer, k)[i] = Byte(buffer, i - 1)
    BY ONLY <1>2, k \in Nat, PeekIs
  <2> QED
    BY ONLY <1>1, <1>3, <2>1
<1>5. out' = out \o p
  BY <1>1, <1>4 DEF Takes
<1>6. out' \in Seq(Bytes) /\ Len(out') = o + k
      /\ (\A i \in 1 .. o : out'[i] = out[i]) /\ \A i \in 1 .. k : out'[o + i] = p[i]
  <2>1. Len(out) = o /\ Len(p) = k
    BY <1>1, <1>4
  <2>2. /\ out \o p \in Seq(Bytes) /\ Len(out \o p) = Len(out) + Len(p)
        /\ \A i \in 1 .. Len(out) : (out \o p)[i] = out[i]
        /\ \A i \in 1 .. Len(p) : (out \o p)[Len(out) + i] = p[i]
    BY ONLY <1>2, p \in Seq(Bytes), Joined
  <2> QED
    BY ONLY <1>5, <2>1, <2>2
<1>7. ASSUME NEW i \in 1 .. k
      PROVE  Byte(buffer, i - 1) = content[o + i] /\ p[i] = content[o + i]
  <2>1. i - 1 \in 0 .. b - 1 /\ o + (i - 1) + 1 = o + i
    BY <1>1
  <2> QED
    BY <1>1, <1>4, <2>1 DEF Kept
<1>8. ASSUME NEW i \in 1 .. o + k
      PROVE  out'[i] = content[i]
  <2>1. CASE i <= o
    BY <1>1, <1>6, <2>1 DEF Kept
  <2>2. CASE i > o
    <3>1. i - o \in 1 .. k /\ o + (i - o) = i
      BY <1>1, <2>2
    <3> QED
      BY <1>6, <1>7, <3>1
  <2> QED
    BY <1>1, <2>1, <2>2
<1>9. Backlog(buffer') = b - k /\ buffer' \in Ring
  BY <1>1 DEF Takes, Without
<1>10. ASSUME NEW i \in 0 .. b - k - 1
       PROVE  Byte(buffer', i) = content[o + k + i + 1]
  <2>1. k + i \in 0 .. b - 1 /\ o + (k + i) + 1 = o + k + i + 1
    BY <1>1
  <2>2. Byte(buffer', i) = Byte(buffer, k + i)
    BY <1>1 DEF Takes, Without
  <2> QED
    BY <1>1, <2>1, <2>2 DEF Kept
<1>11. got' = (o + k) + (b - k) /\ content' = content
  BY <1>1 DEF Kept, Takes
<1>12. Kept'
  BY <1>6, <1>8, <1>9, <1>10, <1>11 DEF Kept
<1>13. b - k \in 0 .. Most
  BY <1>1, <1>2
<1>14. \A i \in 1 .. n : Peek(buffer, n)[i] = content[Len(out) + i] /\ Byte(buffer, i - 1) = content[Len(out) + i]
  BY <1>1, <1>4, <1>7
<1> QED
  BY <1>1, <1>4, <1>6, <1>9, <1>12, <1>13, <1>14

(***************************************************************************)
(* What a step of a method does to the stream                              *)
(***************************************************************************)
Stages == {"read", "line", "select", "take", "done"}

LEMMA CallIs ==
    ASSUME StreamTypes, call.op # "none"
    PROVE  /\ call \in AnyCall /\ call.n \in Nat \ {0} /\ call.room \in 0 .. Most
           /\ \A s \in Stages : LET c == [call EXCEPT !.stage = s] IN
                 c \in AnyCall /\ c.op = call.op /\ c.n = call.n /\ c.room = call.room /\ c.stage = s
<1>1. call \in AnyCall
  BY DEF StreamTypes, NoCall, Call
<1> QED
  BY <1>1 DEF AnyCall, Stages

Ended == sent = got /\ peer # "open"

\* gets, with room for one byte: it asks for none.
Full == call.op = "gets" /\ Room(buffer) = 1 /\ ~ HasLine(buffer)

Line(i, n) == LineIn(buffer, i, n) /\ ret'.text = Peek(buffer, i) /\ ret'.from = Len(out)

Waits == UNCHANGED <<got, buffer, out, ret>>
ReadsOn == (\E n : Reads(n)) /\ UNCHANGED <<out, ret>>
Answers == /\ call' = NoCall
           /\ \E n : Takes(n) /\ (ret'.kind = "line" => \E i : Line(i, n))

CallGoesOn ==
    \/ call' = NoCall
    \/ /\ call' \in AnyCall
       /\ call'.stage = "select" /\ call'.op \in {"readbuffer", "readuntil"} => errno' = "again"

Effect ==
    /\ Quiet /\ errno' \in {"none", "again", "other"} /\ feof' \in BOOLEAN
    /\ CallGoesOn
    /\ feof' => feof \/ Ended \/ Full
    /\ Waits \/ ReadsOn \/ Answers

SelectAgain == call.stage = "select" /\ call.op \in {"readbuffer", "readuntil"} => errno = "again"

LEMMA Amounts ==
    ASSUME StreamTypes
    PROVE  /\ \A a \in Nat : /\ Least(a, Room(buffer)) \in 0 .. Room(buffer) /\ Least(a, Room(buffer)) \in Nat
                             /\ a > 0 /\ Room(buffer) > 0 => Least(a, Room(buffer)) > 0
           /\ Readbuf \in Nat
           /\ Room(buffer) > 0 =>
                /\ GetsWanted \in Nat /\ GetsWanted \in 0 .. Room(buffer)
                /\ GetsWanted = 0 => Room(buffer) = 1
<1>1. Room(buffer) \in Nat
  BY RoomIs
<1> QED
  BY <1>1, FileAssumption DEF Least, GetsWanted

\* A read that gives something, and one that does not.
LEMMA ReadGives ==
    ASSUME StreamTypes, NEW n \in Nat, n <= Room(buffer), Result(n) > 0, ReadIn(n)
    PROVE  Reads(n) /\ errno' = errno
<1>1. n > 0 /\ Room(buffer) \in Nat
  BY ResultIs, RoomIs
<1> QED
  BY <1>1 DEF Reads, ReadIn

LEMMA ReadFails ==
    ASSUME StreamTypes, NEW n \in Nat, n > 0, ~ (Result(n) > 0)
    PROVE  /\ sent = got
           /\ Ready => Ended
           /\ Result(n) = 0 => Ended
           /\ ErrnoAfter(n) # "again" => Ended \/ Result(n) = 0
<1>1. sent = got /\ (Result(n) = 0 => peer = "closed") /\ Result(n) \in Int
  BY ResultIs
<1>2. Ready => peer # "open"
  BY <1>1 DEF Ready, StreamTypes
<1>3. ErrnoAfter(n) # "again" => Ended \/ Result(n) = 0
  BY <1>1 DEF ErrnoAfter, Ended
<1> QED
  BY <1>1, <1>2, <1>3 DEF Ended

\* The ways methods end.
LEMMA BlockTakes ==
    ASSUME StreamTypes, NEW n \in Nat, ReturnBlock(buffer, n), UNCHANGED <<content, got>>
    PROVE  /\ Answers /\ Takes(Lower(n, Backlog(buffer))) /\ ret'.kind = "block"
           /\ ret'.text = Peek(buffer, Lower(n, Backlog(buffer)))
<1>1. /\ call' = NoCall /\ out' = out \o Peek(buffer, n) /\ buffer' = Advance(buffer, n)
      /\ ret'.kind = "block" /\ ret'.text = Peek(buffer, n)
  BY DEF ReturnBlock, Return
<1>2. buffer \in Ring /\ Backlog(buffer) \in Nat
  BY RoomIs DEF StreamTypes
<1>3. Without(buffer, Lower(n, Backlog(buffer)), buffer')
  BY <1>1, <1>2, AdvanceTakes
<1>4. Peek(buffer, n) = Peek(buffer, Lower(n, Backlog(buffer)))
  BY <1>2 DEF Peek, Lower
<1>5. Takes(Lower(n, Backlog(buffer)))
  BY <1>1, <1>3, <1>4 DEF Takes
<1> QED
  BY <1>1, <1>4, <1>5 DEF Answers

LEMMA NothingTaken ==
    ASSUME StreamTypes, NEW kind, kind # "line", Return(kind, <<>>, <<>>, buffer), UNCHANGED <<content, got>>
    PROVE  /\ Answers /\ Takes(0) /\ ret'.kind = kind /\ ret'.text = <<>> /\ UNCHANGED <<buffer, out>>
<1>1. /\ call' = NoCall /\ out' = out \o <<>> /\ buffer' = buffer
      /\ ret'.kind = kind /\ ret'.text = <<>>
  BY DEF Return
<1>2. buffer \in Ring /\ out \in Seq(Bytes)
  BY DEF StreamTypes
<1>3. Without(buffer, 0, buffer')
  BY <1>1, <1>2, WithoutNone
<1>4. Peek(buffer, 0) = <<>>
  <2>1. Peek(buffer, 0) \in Seq(Bytes) /\ Len(Peek(buffer, 0)) = 0
    BY <1>2, PeekIs DEF Lower, StreamTypes
  <2> QED
    BY <2>1, EmptySeq
<1>5. out \o <<>> = out
  BY <1>2
<1> QED
  BY <1>1, <1>3, <1>4, <1>5 DEF Answers, Takes

LEMMA LineGiven ==
    ASSUME StreamTypes, HasLine(buffer), ReturnLine, call.n \in Nat, UNCHANGED <<content, got>>
    PROVE  /\ Answers
           /\ LineEnd(buffer) < call.n =>
                \E n : Takes(n) /\ ret'.kind = "line" /\ Line(LineEnd(buffer), n)
<1> DEFINE n == Backlog(buffer) - Backlog(ReadlineLeaves(buffer))
<1>1. buffer \in Ring /\ Without(buffer, n, ReadlineLeaves(buffer)) /\ LineIn(buffer, LineEnd(buffer), n)
  BY LineTaken DEF StreamTypes
<1>2. LineEnd(buffer) \in Nat
  BY <1>1, RoomIs DEF LineIn, StreamTypes
<1>3. CASE LineEnd(buffer) >= call.n
  <2>1. ReturnBlock(buffer, call.n)
    BY <1>3 DEF ReturnLine
  <2> QED
    BY <1>2, <1>3, <2>1, BlockTakes
<1>4. CASE LineEnd(buffer) < call.n
  <2>1. Return("line", Peek(buffer, LineEnd(buffer)), Peek(buffer, n), ReadlineLeaves(buffer))
    BY <1>2, <1>4 DEF ReturnLine
  <2>2. /\ call' = NoCall /\ out' = out \o Peek(buffer, n) /\ buffer' = ReadlineLeaves(buffer)
        /\ ret'.kind = "line" /\ ret'.text = Peek(buffer, LineEnd(buffer)) /\ ret'.from = Len(out)
    BY <2>1 DEF Return
  <2>3. Takes(n) /\ Line(LineEnd(buffer), n)
    BY <1>1, <2>2 DEF Takes, Line
  <2> QED
    BY <2>2, <2>3 DEF Answers
<1> QED
  BY <1>2, <1>3, <1>4

LEMMA GetsEffect ==
    ASSUME StreamTypes, GetsRead \/ GetsReturn
    PROVE  Effect
<1>1. call.n \in Nat \ {0} /\ call # NoCall /\ Quiet
  BY CallIs DEF GetsRead, GetsReturn, NoCall, Call
<1>2. CASE GetsRead
  <2>1. /\ GetsWanted \in Nat /\ GetsWanted <= Room(buffer) /\ (GetsWanted = 0 => Full)
        /\ Ready \/ GetsWanted = 0
    <3>1. call.op = "gets" /\ Room(buffer) > 0 /\ ~ HasLine(buffer) /\ (Ready \/ GetsWanted = 0)
      BY <1>2 DEF GetsRead
    <3>2. Room(buffer) \in Nat
      BY RoomIs
    <3> QED
      BY <3>1, <3>2, Amounts DEF Full
  <2>2. CASE Result(GetsWanted) > 0
    <3>1. ReadIn(GetsWanted) /\ UNCHANGED <<feof, call, ret, out>>
      BY <1>2, <2>1, <2>2, ResultIs DEF GetsRead
    <3>2. Reads(GetsWanted) /\ errno' = errno
      BY <2>1, <2>2, <3>1, ReadGives
    <3>3. call \in AnyCall /\ call.op = "gets"
      BY <1>2, CallIs DEF GetsRead
    <3> QED
      BY <1>1, <3>1, <3>2, <3>3 DEF Effect, ReadsOn, CallGoesOn, StreamTypes
  <2>3. CASE ~ (Result(GetsWanted) > 0)
    <3>1. /\ feof' = TRUE /\ errno' = ErrnoAfter(GetsWanted) /\ UNCHANGED got
          /\ ReturnBlock(buffer, call.n) \/ ReturnNull
      BY <1>2, <2>3 DEF GetsRead
    <3>2. Answers
      BY <1>1, <3>1, BlockTakes, NothingTaken DEF ReturnNull, Quiet
    <3>3. errno' \in {"none", "again", "other"}
      BY <2>1, <3>1, ResultIs
    <3>4. Ended \/ Full
      BY <2>1, <2>3, ReadFails
    <3> QED
      BY <1>1, <3>1, <3>2, <3>3, <3>4 DEF Effect, Answers, CallGoesOn
  <2> QED
    BY <2>2, <2>3
<1>3. CASE GetsReturn
  <2>1. UNCHANGED <<got, errno, feof>> /\ (IF HasLine(buffer) THEN ReturnLine ELSE ReturnBlock(buffer, call.n))
    BY <1>3 DEF GetsReturn
  <2>2. Answers
    BY <1>1, <2>1, BlockTakes, LineGiven DEF Quiet
  <2> QED
    BY <1>1, <2>1, <2>2 DEF Effect, Answers, CallGoesOn, StreamTypes
<1> QED
  BY <1>2, <1>3

\* A step that asks for n bytes and leaves a method under way.
LEMMA AskEffect ==
    ASSUME StreamTypes, NEW n \in Nat, n <= Room(buffer), Quiet, UNCHANGED <<ret, out>>,
           IF Result(n) > 0 THEN ReadIn(n) ELSE ReadNothing(n), CallGoesOn,
           feof' \in BOOLEAN, feof' => feof \/ Ended
    PROVE  Effect
<1>1. CASE Result(n) > 0
  BY <1>1, ReadGives DEF Effect, ReadsOn, StreamTypes
<1>2. CASE ~ (Result(n) > 0)
  BY <1>2, ResultIs DEF Effect, Waits, ReadNothing
<1> QED
  BY <1>1, <1>2

LEMMA WaitEffect ==
    ASSUME StreamTypes, WaitRead \/ WaitSelect \/ WaitReturn
    PROVE  Effect
<1>1. /\ call.op = "waitforline" /\ Quiet /\ feof' = feof /\ feof' \in BOOLEAN /\ call.n \in Nat
      /\ Room(buffer) \in Nat /\ Room(buffer) <= Room(buffer)
  BY CallIs, RoomIs DEF WaitRead, WaitSelect, WaitReturn, StreamTypes
<1>2. ASSUME NEW s \in Stages, call' = [call EXCEPT !.stage = s] PROVE CallGoesOn
  BY <1>1, <1>2, CallIs DEF CallGoesOn
<1>3. CASE WaitRead
  <2>1. CallGoesOn
    BY <1>2, <1>3 DEF WaitRead, Stages
  <2>2. UNCHANGED <<ret, out>> /\ IF Result(Room(buffer)) > 0 THEN ReadIn(Room(buffer)) ELSE ReadNothing(Room(buffer))
    BY <1>1, <1>3, ResultIs DEF WaitRead
  <2> QED
    BY <1>1, <2>1, <2>2, AskEffect
<1>4. CASE WaitSelect
  <2>1. CASE ReturnTimeout /\ UNCHANGED <<got, errno>>
    <3>1. Answers
      BY <1>1, <2>1, NothingTaken DEF ReturnTimeout, Quiet
    <3> QED
      BY <1>1, <2>1, <3>1 DEF Effect, Answers, CallGoesOn, StreamTypes
  <2>2. CASE ~ (ReturnTimeout /\ UNCHANGED <<got, errno>>)
    <3>1. CallGoesOn
      BY <1>2, <1>4, <2>2 DEF WaitSelect, Stages
    <3>2. UNCHANGED <<ret, out>> /\ IF Result(Room(buffer)) > 0 THEN ReadIn(Room(buffer)) ELSE ReadNothing(Room(buffer))
      BY <1>4, <2>2 DEF WaitSelect
    <3> QED
      BY <1>1, <3>1, <3>2, AskEffect
  <2> QED
    BY <2>1, <2>2
<1>5. CASE WaitReturn
  <2>1. UNCHANGED <<got, errno, feof, content>>
    BY <1>5 DEF WaitReturn, Quiet
  <2>2. Answers
    BY <1>1, <1>5, <2>1, NothingTaken, LineGiven DEF WaitReturn, ReturnTimeout
  <2> QED
    BY <1>1, <2>1, <2>2 DEF Effect, Answers, CallGoesOn, StreamTypes
<1> QED
  BY <1>3, <1>4, <1>5

LEMMA BlockAmount ==
    ASSUME StreamTypes, call.op = "read", Backlog(buffer) < BlockSize
    PROVE  Least(Readbuf, Room(buffer)) \in 1 .. Room(buffer)
<1>1. BlockSize <= Most /\ BlockSize \in Nat
  BY CallIs, RoomIs DEF BlockSize, Least
<1>2. Room(buffer) > 0 /\ Room(buffer) \in Nat
  BY <1>1, RoomIs DEF StreamTypes
<1> QED
  BY <1>2, FileAssumption DEF Least

LEMMA BlockEffect ==
    ASSUME StreamTypes, BlockRead \/ BlockReturn
    PROVE  Effect
<1>1. call.op = "read" /\ Quiet /\ call.n \in Nat /\ BlockSize \in Nat /\ call \in AnyCall
  BY CallIs, RoomIs DEF BlockRead, BlockReturn, BlockSize, Least
<1>2. CASE BlockRead
  <2>1. PICK n \in Nat : n = Least(Readbuf, Room(buffer)) /\ n > 0 /\ n <= Room(buffer)
    BY <1>1, <1>2, BlockAmount, RoomIs DEF BlockRead
  <2>2. /\ UNCHANGED <<call, ret, out>> /\ Ready
        /\ IF Result(n) > 0 THEN ReadIn(n) /\ feof' = feof ELSE ReadNothing(n) /\ feof' = TRUE
    BY <1>2, <2>1, ResultIs DEF BlockRead
  <2>3. CallGoesOn
    BY <1>1, <2>2 DEF CallGoesOn
  <2>4. feof' \in BOOLEAN /\ (feof' => feof \/ Ended)
    BY <2>1, <2>2, ReadFails DEF StreamTypes
  <2>5. IF Result(n) > 0 THEN ReadIn(n) ELSE ReadNothing(n)
    BY <2>2
  <2> QED
    BY <1>1, <2>1, <2>2, <2>3, <2>4, <2>5, AskEffect
<1>3. CASE BlockReturn
  <2>1. UNCHANGED <<got, errno, feof, content>> /\ ReturnBlock(buffer, BlockSize)
    BY <1>3 DEF BlockReturn, Quiet
  <2>2. Answers
    BY <1>1, <2>1, BlockTakes
  <2> QED
    BY <1>1, <2>1, <2>2 DEF Effect, Answers, CallGoesOn, StreamTypes
<1> QED
  BY <1>2, <1>3

LEMMA TimedEffect ==
    ASSUME StreamTypes, TimedEnough \/ TimedRead \/ TimedSelect \/ TimedReturn
    PROVE  Effect
<1>1. /\ call.op = "timedread" /\ Quiet /\ feof' = feof /\ feof' \in BOOLEAN /\ call.n \in Nat
      /\ TimedAmount \in Nat /\ TimedAmount <= Room(buffer)
  <2>1. Room(buffer) \in Nat
    BY RoomIs
  <2> QED
    BY <2>1, CallIs, Amounts DEF TimedEnough, TimedRead, TimedSelect, TimedReturn, TimedAmount, StreamTypes
<1>2. ASSUME NEW s \in Stages, call' = [call EXCEPT !.stage = s] PROVE CallGoesOn
  BY <1>1, <1>2, CallIs DEF CallGoesOn
<1>3. CASE TimedEnough \/ TimedReturn
  <2>1. UNCHANGED <<got, errno, content>> /\ ReturnBlock(buffer, call.n)
    BY <1>3 DEF TimedEnough, TimedReturn, Quiet
  <2>2. Answers
    BY <1>1, <2>1, BlockTakes
  <2> QED
    BY <1>1, <2>1, <2>2 DEF Effect, Answers, CallGoesOn, StreamTypes
<1>4. CASE TimedRead
  <2>1. CallGoesOn
    BY <1>2, <1>4 DEF TimedRead, Stages
  <2>2. UNCHANGED <<ret, out>> /\ IF Result(TimedAmount) > 0 THEN ReadIn(TimedAmount) ELSE ReadNothing(TimedAmount)
    BY <1>1, <1>4, ResultIs DEF TimedRead
  <2> QED
    BY <1>1, <2>1, <2>2, AskEffect
<1>5. CASE TimedSelect
  <2>1. CASE ReturnTimeout /\ UNCHANGED <<got, errno>>
    <3>1. Answers
      BY <1>1, <2>1, NothingTaken DEF ReturnTimeout, Quiet
    <3> QED
      BY <1>1, <2>1, <3>1 DEF Effect, Answers, CallGoesOn, StreamTypes
  <2>2. CASE ~ (ReturnTimeout /\ UNCHANGED <<got, errno>>)
    <3>1. CallGoesOn
      BY <1>2, <1>5, <2>2 DEF TimedSelect, Stages
    <3>2. UNCHANGED <<ret, out>> /\ IF Result(TimedAmount) > 0 THEN ReadIn(TimedAmount) ELSE ReadNothing(TimedAmount)
      BY <1>5, <2>2 DEF TimedSelect
    <3> QED
      BY <1>1, <3>1, <3>2, AskEffect
  <2> QED
    BY <2>1, <2>2
<1> QED
  BY <1>3, <1>4, <1>5

LEMMA FoundIs == ASSUME StreamTypes, FindForward(buffer, Watch) # -1 PROVE FindForward(buffer, Watch) \in Nat
<1>1. Backlog(buffer) \in Nat /\ Len(Watch) \in Nat
  BY RoomIs, FileAssumption DEF StreamTypes
<1> DEFINE hits == {i \in 0 .. (Backlog(buffer) - Len(Watch)) :
                       \A j \in 1 .. Len(Watch) : Byte(buffer, i + j - 1) = Watch[j]}
<1>2. hits \in SUBSET Nat /\ FindForward(buffer, Watch) = IF hits = {} \/ Backlog(buffer) = 0 THEN -1
                                                           ELSE CHOOSE i \in hits : \A j \in hits : i <= j
  BY <1>1 DEF FindForward
<1> HIDE DEF hits
<1>3. \E i \in hits : \A j \in hits : i <= j
  BY <1>2, LeastNumber
<1>4. FindForward(buffer, Watch) \in hits
  BY <1>2, <1>3
<1> QED
  BY <1>2, <1>4

LEMMA FoundTakes ==
    ASSUME StreamTypes, NEW n \in Nat, Return("found", Peek(buffer, n), Peek(buffer, n), Advance(buffer, n)),
           UNCHANGED <<content, got>>
    PROVE  Answers
<1>1. /\ call' = NoCall /\ out' = out \o Peek(buffer, n) /\ buffer' = Advance(buffer, n)
      /\ ret'.kind = "found"
  BY DEF Return
<1>2. buffer \in Ring /\ Backlog(buffer) \in Nat
  BY RoomIs DEF StreamTypes
<1>3. Without(buffer, Lower(n, Backlog(buffer)), buffer')
  BY <1>1, <1>2, AdvanceTakes
<1>4. Peek(buffer, n) = Peek(buffer, Lower(n, Backlog(buffer)))
  BY <1>2 DEF Peek, Lower
<1> QED
  BY <1>1, <1>3, <1>4 DEF Answers, Takes

LEMMA BufferEffect ==
    ASSUME StreamTypes, SelectAgain, BufferRead \/ BufferSelect \/ BufferReturn \/ UntilReturn
    PROVE  Effect
<1>1. /\ call.op \in {"readbuffer", "readuntil"} /\ Quiet /\ call.n \in Nat \ {0}
      /\ BufferAmount \in Nat /\ BufferAmount <= Room(buffer)
  <2>1. Room(buffer) \in Nat
    BY RoomIs
  <2>2. call.op \in {"readbuffer", "readuntil"} /\ Quiet
    BY DEF BufferRead, BufferSelect, BufferReturn, UntilReturn
  <2> QED
    BY <2>1, <2>2, CallIs, Amounts DEF BufferAmount
<1>2. ASSUME NEW s \in Stages, call' = [call EXCEPT !.stage = s], s = "select" => errno' = "again" PROVE CallGoesOn
  BY <1>1, <1>2, CallIs DEF CallGoesOn
<1>3. CASE BufferRead
  <2>1. /\ UNCHANGED <<ret, out>> /\ Room(buffer) > 0
        /\ IF Result(BufferAmount) > 0 THEN ReadIn(BufferAmount) ELSE ReadNothing(BufferAmount)
        /\ feof' = feof \/ (~ (Result(BufferAmount) > 0) /\ feof' = EndsFile(ErrnoAfter(BufferAmount)))
    BY <1>1, <1>3, ResultIs, RoomIs, FileAssumption DEF BufferRead
  <2>2. CallGoesOn
    BY <1>2, <1>3 DEF BufferRead, Stages, ReadNothing
  <2>3. BufferAmount > 0
    BY <1>1, <2>1, Amounts DEF BufferAmount
  <2>4. feof' \in BOOLEAN /\ (feof' => feof \/ Ended)
    <3>1. CASE feof' = feof
      BY <3>1 DEF StreamTypes
    <3>2. CASE ~ (Result(BufferAmount) > 0) /\ feof' = (ErrnoAfter(BufferAmount) # "again")
      <4>1. ErrnoAfter(BufferAmount) # "again" => Ended
        BY <1>1, <2>3, <3>2, ReadFails
      <4> QED
        BY <3>2, <4>1
    <3> QED
      BY <2>1, <3>1, <3>2 DEF EndsFile
  <2> QED
    BY <1>1, <2>1, <2>2, <2>4, AskEffect
<1>4. CASE BufferSelect
  <2>1. call' = [call EXCEPT !.stage = "done"] /\ UNCHANGED <<ret, out>> /\ errno = "again"
    BY <1>4 DEF BufferSelect, SelectAgain
  <2>2. CallGoesOn
    BY <1>2, <2>1 DEF Stages
  <2>3. CASE ~ Ready /\ feof' = EndsFile(errno) /\ UNCHANGED <<buffer, got, errno>>
    BY <1>1, <2>1, <2>2, <2>3 DEF Effect, Waits, EndsFile, StreamTypes
  <2>4. CASE ~ (~ Ready /\ feof' = EndsFile(errno) /\ UNCHANGED <<buffer, got, errno>>)
    <3>1. /\ Ready /\ IF Result(BufferAmount) > 0 THEN ReadIn(BufferAmount) ELSE ReadNothing(BufferAmount)
          /\ feof' = feof \/ (~ (Result(BufferAmount) > 0) /\ feof' = EndsFile(ErrnoAfter(BufferAmount)))
      BY <1>1, <1>4, <2>4, ResultIs DEF BufferSelect
    <3>2. BufferAmount = 0 => ErrnoAfter(BufferAmount) = "again"
      BY <2>1 DEF ErrnoAfter, Result
    <3>3. feof' \in BOOLEAN /\ (feof' => feof \/ Ended)
      <4>1. CASE feof' = feof
        BY <4>1 DEF StreamTypes
      <4>2. CASE ~ (Result(BufferAmount) > 0) /\ feof' = (ErrnoAfter(BufferAmount) # "again")
        <5>1. ErrnoAfter(BufferAmount) # "again" => Ended
          BY <1>1, <3>1, <3>2, <4>2, ReadFails
        <5> QED
          BY <4>2, <5>1
      <4> QED
        BY <3>1, <4>1, <4>2 DEF EndsFile
    <3> QED
      BY <1>1, <2>1, <2>2, <3>1, <3>3, AskEffect
  <2> QED
    BY <2>3, <2>4
<1>5. CASE BufferReturn \/ UntilReturn
  <2>1. UNCHANGED <<got, errno, feof, content>>
    BY <1>5 DEF BufferReturn, UntilReturn, Quiet
  <2>2. Answers
    <3>1. CASE BufferReturn
      BY <2>1, <3>1, NothingTaken DEF BufferReturn
    <3>2. CASE UntilReturn /\ FindForward(buffer, Watch) # -1
      <4>1. PICK at \in Nat : Return("found", Peek(buffer, at), Peek(buffer, at), Advance(buffer, at))
        BY <3>2, FoundIs DEF UntilReturn
      <4> QED
        BY <2>1, <4>1, FoundTakes
    <3>3. CASE UntilReturn /\ FindForward(buffer, Watch) = -1
      <4>1. Backlog(buffer) - (Len(Watch) + 3) \in Int
        BY RoomIs, FileAssumption DEF StreamTypes
      <4>2. ReturnTimeout \/ \E n \in Nat : ReturnBlock(buffer, n)
        BY <3>3, <4>1 DEF UntilReturn
      <4> QED
        BY <2>1, <4>2, BlockTakes, NothingTaken DEF ReturnTimeout
    <3> QED
      BY <1>5, <3>1, <3>2, <3>3
  <2> QED
    BY <1>1, <2>1, <2>2 DEF Effect, Answers, CallGoesOn, StreamTypes
<1> QED
  BY <1>3, <1>4, <1>5

(***************************************************************************)
(* The stream is given as it was sent                                      *)
(***************************************************************************)
LEMMA SomeBytes == "x" \in Bytes /\ "cr" \in Bytes /\ "lf" \in Bytes
BY DEF Bytes

LEMMA Ends ==
    /\ <<"lf">> \in Seq(Bytes) /\ Len(<<"lf">>) = 1 /\ <<"lf">>[1] = "lf"
    /\ <<"cr", "lf">> \in Seq(Bytes) /\ Len(<<"cr", "lf">>) = 2
    /\ <<"cr", "lf">>[1] = "cr" /\ <<"cr", "lf">>[2] = "lf"
BY SomeBytes

LEMMA WholeLine ==
    ASSUME StreamTypes, Kept, NEW i, NEW n, Takes(n), Line(i, n)
    PROVE  LinesWhole'
<1>1. /\ out' \in Seq(Bytes) /\ Len(out') = Len(out) + n /\ n \in Nat
      /\ Len(out) \in Nat /\ content' = content
      /\ \A j \in 1 .. n : Byte(buffer, j - 1) = content[Len(out) + j]
  BY TakesKeep DEF Takes
<1>2. PICK o \in Nat, m \in Nat, k \in Nat, b \in Nat :
         /\ o = Len(out) /\ m = n /\ k = i /\ b = Backlog(buffer) /\ k < b /\ m <= b /\ m \in {k + 1, k + 2}
         /\ o + b <= Len(content) /\ Len(content) \in Nat /\ content \in Seq(Bytes)
  <2>1. i \in 0 .. Backlog(buffer) - 1 /\ n \in {i + 1, i + 2} /\ n <= Backlog(buffer) /\ Backlog(buffer) \in Nat
    BY RoomIs DEF Line, LineIn, StreamTypes
  <2>2. Len(out) + Backlog(buffer) <= Len(content) /\ Len(content) \in Nat /\ content \in Seq(Bytes)
    BY <2>1, <1>1 DEF Kept, StreamTypes
  <2>3. i \in Nat /\ i < Backlog(buffer) /\ n \in Nat /\ n <= Backlog(buffer) /\ n \in {i + 1, i + 2}
    BY <2>1
  <2>4. Len(out) \in Nat /\ Backlog(buffer) \in Nat
    BY <1>1, <2>1
  <2> QED
    BY ONLY <2>2, <2>3, <2>4
<1>3. PICK t \in Seq(Bytes) : /\ t = ret'.text /\ Len(t) = k
                               /\ \A j \in 1 .. k : t[j] = Byte(buffer, j - 1) /\ t[j] = content[o + j] /\ t[j] # "lf"
  <2>1. ret'.text = Peek(buffer, k) /\ Lower(k, Backlog(buffer)) = k /\ buffer \in Ring
    BY <1>2 DEF Line, Lower, StreamTypes
  <2>2. ret'.text \in Seq(Bytes) /\ Len(ret'.text) = k /\ \A j \in 1 .. k : ret'.text[j] = Byte(buffer, j - 1)
    BY <2>1, PeekIs
  <2>3. ASSUME NEW j \in 1 .. k
        PROVE  Byte(buffer, j - 1) # "lf" /\ Byte(buffer, j - 1) = content[o + j]
    <3>1. j \in 1 .. m /\ j - 1 \in 0 .. k - 1
      BY <1>2
    <3> QED
      BY <1>1, <1>2, <3>1 DEF Line, LineIn
  <2> QED
    BY <2>2, <2>3
<1>4. /\ \A j \in 1 .. m : Byte(buffer, j - 1) = content[o + j]
      /\ ret'.from = o /\ Len(out') = o + m
  BY <1>1, <1>2 DEF Line
<1>5. "lf" \notin {t[j] : j \in DOMAIN t}
  BY <1>3
<1>6. PICK piece \in Seq(Bytes) : /\ piece = SubSeq(content', ret'.from + 1, Len(out')) /\ Len(piece) = m
                                   /\ \A j \in 1 .. m : piece[j] = content[o + j]
  <2>1. o + m <= Len(content)
    BY <1>2
  <2>2. /\ SubSeq(content, o + 1, o + m) \in Seq(Bytes) /\ Len(SubSeq(content, o + 1, o + m)) = m
        /\ \A j \in 1 .. m : SubSeq(content, o + 1, o + m)[j] = content[o + j]
    BY <1>2, <2>1, Piece
  <2> QED
    BY <1>1, <1>4, <2>2
<1>7. ASSUME NEW eol \in Seq(Bytes), Len(eol) = m - k, \A j \in 1 .. m - k : eol[j] = Byte(buffer, k + j - 1)
      PROVE  piece = t \o eol
  <2>1. /\ t \o eol \in Seq(Bytes) /\ Len(t \o eol) = m
        /\ \A j \in 1 .. k : (t \o eol)[j] = t[j]
        /\ \A j \in 1 .. m - k : (t \o eol)[k + j] = eol[j]
    <3>1. /\ t \o eol \in Seq(Bytes) /\ Len(t \o eol) = Len(t) + Len(eol)
          /\ \A j \in 1 .. Len(t) : (t \o eol)[j] = t[j]
          /\ \A j \in 1 .. Len(eol) : (t \o eol)[Len(t) + j] = eol[j]
      BY ONLY t \in Seq(Bytes), eol \in Seq(Bytes), Joined
    <3>2. Len(t) = k /\ Len(eol) = m - k /\ k + (m - k) = m
      BY <1>2, <1>3, <1>7
    <3> QED
      BY <3>1, <3>2
  <2>2. ASSUME NEW j \in 1 .. m PROVE piece[j] = (t \o eol)[j]
    <3>1. j \in 1 .. k \/ (j - k \in 1 .. m - k /\ k + (j - k) = j /\ k + (j - k) - 1 = j - 1)
      BY ONLY m \in Nat, k \in Nat, j \in 1 .. m
    <3>2. CASE j \in 1 .. k
      <4>1. t[j] = content[o + j] /\ (t \o eol)[j] = t[j]
        BY ONLY <1>3, <2>1, <3>2
      <4> QED
        BY <1>6, <4>1
    <3>3. CASE j - k \in 1 .. m - k /\ k + (j - k) = j /\ k + (j - k) - 1 = j - 1
      <4>1. (t \o eol)[j] = eol[j - k] /\ eol[j - k] = Byte(buffer, j - 1)
        BY <1>7, <2>1, <3>3
      <4> QED
        BY <1>4, <1>6, <4>1
    <3> QED
      BY <3>1, <3>2, <3>3
  <2> QED
    BY ONLY <1>6, <2>1, <2>2, SeqEqual
<1>8. \E eol \in {<<"lf">>, <<"cr", "lf">>} :
         piece = t \o eol /\ (eol = <<"lf">> /\ t # <<>> => t[Len(t)] # "cr")
  <2>1. CASE m = k + 1 /\ Byte(buffer, k) = "lf" /\ (k > 0 => Byte(buffer, k - 1) # "cr")
    <3>1. <<"lf">> \in Seq(Bytes) /\ Len(<<"lf">>) = m - k /\ \A j \in 1 .. m - k : <<"lf">>[j] = Byte(buffer, k + j - 1)
      <4>1. m - k = 1 /\ \A j \in 1 .. 1 : k + j - 1 = k /\ j = 1
        BY ONLY k \in Nat, <2>1
      <4>2. <<"lf">> \in Seq(Bytes) /\ Len(<<"lf">>) = 1 /\ <<"lf">>[1] = "lf"
        BY Ends
      <4> QED
        BY ONLY <2>1, <4>1, <4>2
    <3>2. t # <<>> => t[Len(t)] # "cr"
      <4>1. t # <<>> => k > 0 /\ k \in 1 .. k
        BY <1>2, <1>3, EmptySeq
      <4> QED
        BY <1>3, <2>1, <4>1
    <3> QED
      BY <1>7, <3>1, <3>2
  <2>2. CASE m = k + 2 /\ Byte(buffer, k) = "cr" /\ Byte(buffer, k + 1) = "lf"
    <3>1. /\ <<"cr", "lf">> \in Seq(Bytes) /\ Len(<<"cr", "lf">>) = m - k
          /\ \A j \in 1 .. m - k : <<"cr", "lf">>[j] = Byte(buffer, k + j - 1)
      <4>1. m - k = 2 /\ k + 1 - 1 = k /\ k + 2 - 1 = k + 1 /\ \A j \in 1 .. 2 : j = 1 \/ j = 2
        BY ONLY k \in Nat, <2>2
      <4>2. <<"cr", "lf">> \in Seq(Bytes) /\ Len(<<"cr", "lf">>) = 2 /\ <<"cr", "lf">>[1] = "cr" /\ <<"cr", "lf">>[2] = "lf"
        BY Ends
      <4> QED
        BY ONLY <2>2, <4>1, <4>2
    <3>2. <<"cr", "lf">> # <<"lf">>
      OBVIOUS
    <3> QED
      BY <1>7, <3>1, <3>2
  <2> QED
    BY <1>2, <2>1, <2>2 DEF Line, LineIn
<1> QED
  BY <1>3, <1>5, <1>6, <1>8 DEF LinesWhole

LEMMA FitsNotFull == ASSUME StreamTypes, Kept, Full PROVE ~ LinesFit
<1> SUFFICES ASSUME LinesFit PROVE FALSE
  OBVIOUS
<1>1. PICK o \in Nat, b \in Nat, l \in Nat :
         /\ o = Len(out) /\ b = Backlog(buffer) /\ l = Len(content) /\ o + b <= l /\ b = Count - Margin - 1
  <2>1. Count - Margin \in Nat /\ Room(buffer) = Count - Margin - Backlog(buffer)
    BY RoomIs DEF Most
  <2> QED
    BY <2>1 DEF Full, Kept, StreamTypes
<1>2. o \in 0 .. l - b
  BY <1>1
<1>3. PICK j \in o + 1 .. o + b : content[j] = "lf"
  BY <1>1, <1>2 DEF LinesFit
<1>4. j - o - 1 \in 0 .. b - 1 /\ o + (j - o - 1) + 1 = j
  BY <1>1
<1>5. Byte(buffer, j - o - 1) = "lf"
  BY <1>1, <1>3, <1>4 DEF Kept
<1> QED
  BY <1>1, <1>4, <1>5 DEF Full, HasLine

StreamInv == StreamTypes /\ Kept /\ SelectAgain /\ LinesWhole /\ EofIsEnd

LEMMA EffectKeeps == ASSUME StreamInv, Effect PROVE StreamInv'
<1> USE DEF StreamInv
<1>1. SelectAgain' /\ (call = NoCall \/ call \in AnyCall)'
  BY DEF Effect, CallGoesOn, SelectAgain, NoCall, Call
<1>2. content' = content /\ sent' = sent /\ peer' = peer /\ errno' \in {"none", "again", "other"} /\ feof' \in BOOLEAN
      /\ (feof' => feof \/ Ended \/ Full)
  BY DEF Effect, Quiet
<1>3. feof' /\ LinesFit' => Ended
  BY <1>2, FitsNotFull DEF LinesFit, EofIsEnd, Ended
<1>4. CASE Waits
  <2>1. StreamTypes'
    BY <1>1, <1>2, <1>4 DEF StreamTypes, Waits
  <2>2. Kept' /\ LinesWhole'
    BY <1>2, <1>4 DEF Kept, LinesWhole, Waits
  <2>3. EofIsEnd'
    BY <1>2, <1>3, <1>4 DEF EofIsEnd, Ended, Waits
  <2> QED
    BY <1>1, <2>1, <2>2, <2>3
<1>5. CASE ReadsOn
  <2>1. UNCHANGED <<content, sent, out, ret>>
    BY <1>2, <1>5 DEF ReadsOn
  <2>2. Kept' /\ buffer' \in Ring /\ Backlog(buffer)' \in 0 .. Most /\ got' \in 0 .. sent /\ sent > got
    BY <1>5, <2>1, ReadsKeep DEF ReadsOn
  <2>3. StreamTypes'
    BY <1>1, <1>2, <2>1, <2>2 DEF StreamTypes
  <2>4. LinesWhole'
    BY <2>1 DEF LinesWhole
  <2>5. ~ Ended
    BY <2>2 DEF Ended, StreamTypes
  <2>6. EofIsEnd'
    BY <1>3, <2>5 DEF EofIsEnd
  <2> QED
    BY <1>1, <2>2, <2>3, <2>4, <2>6
<1>6. CASE Answers
  <2>1. PICK n : Takes(n) /\ (ret'.kind = "line" => \E i : Line(i, n))
    BY <1>6 DEF Answers
  <2>2. Kept' /\ buffer' \in Ring /\ Backlog(buffer)' \in 0 .. Most /\ out' \in Seq(Bytes) /\ got' = got
    BY <2>1, TakesKeep DEF Takes
  <2>3. StreamTypes'
    BY <1>1, <1>2, <2>2 DEF StreamTypes
  <2>4. LinesWhole'
    BY <2>1, WholeLine DEF LinesWhole
  <2>5. EofIsEnd'
    BY <1>2, <1>3, <2>2 DEF EofIsEnd, Ended
  <2> QED
    BY <1>1, <2>2, <2>3, <2>4, <2>5
<1> QED
  BY <1>4, <1>5, <1>6 DEF Effect

LEMMA StepEffect == ASSUME StreamInv, Step PROVE Effect
BY GetsEffect, WaitEffect, BlockEffect, TimedEffect, BufferEffect DEF Step, StreamInv

\* The other end, and a call that begins.
LEMMA PeerKeeps == ASSUME StreamInv, Send \/ Leave PROVE StreamInv'
<1> USE DEF StreamInv
<1>1. /\ UNCHANGED <<content, call, got, errno, buffer, feof, ret, out>> /\ peer = "open"
      /\ sent' \in sent .. Len(content) /\ peer' \in {"open", "closed", "reset"}
  BY DEF Send, Leave, methodVars, StreamTypes
<1>2. StreamTypes'
  BY <1>1 DEF StreamTypes
<1>3. Kept' /\ SelectAgain' /\ LinesWhole'
  BY <1>1 DEF Kept, SelectAgain, LinesWhole
<1>4. EofIsEnd'
  BY <1>1 DEF EofIsEnd, LinesFit
<1> QED
  BY <1>2, <1>3, <1>4

WellMade(c) ==
    /\ c.op \in Methods /\ c.n \in Nat \ {0} /\ c.timeout \in BOOLEAN
    /\ c = [op |-> c.op, n |-> c.n, timeout |-> c.timeout, stage |-> "read", room |-> 0]

LEMMA BeginKeeps == ASSUME StreamInv, NEW c, Throws(c) \/ WellMade(c), Begin(c) PROVE StreamInv'
<1> USE DEF StreamInv
<1>1. UNCHANGED <<content, sent, peer, got, errno, buffer, feof, out>>
  BY DEF Begin
<1>2. /\ (call = NoCall \/ call \in AnyCall)'
      /\ SelectAgain'
      /\ UNCHANGED ret \/ ret'.kind # "line"
  <2>1. CASE Throws(c)
    BY <1>1, <2>1 DEF Begin, StreamTypes, SelectAgain
  <2>2. CASE ~ Throws(c)
    <3>1. call' = [c EXCEPT !.room = Room(buffer)] /\ UNCHANGED ret /\ WellMade(c)
      BY <2>2 DEF Begin
    <3>2. Room(buffer) \in 0 .. Most
      BY RoomIs
    <3>3. call' \in AnyCall /\ call'.stage = "read"
      BY <3>1, <3>2 DEF AnyCall, WellMade
    <3> QED
      BY <3>1, <3>3 DEF SelectAgain
  <2> QED
    BY <2>1, <2>2
<1>3. StreamTypes' /\ Kept'
  BY <1>1, <1>2 DEF StreamTypes, Kept
<1>4. LinesWhole'
  BY <1>1, <1>2 DEF LinesWhole
<1>5. EofIsEnd'
  BY <1>1 DEF EofIsEnd, LinesFit
<1> QED
  BY <1>2, <1>3, <1>4, <1>5

LEMMA StreamStarts == ASSUME FileInit PROVE StreamInv
<1>1. Count \in Nat /\ Margin \in 1 .. Count - 1 /\ content \in Seq(Bytes)
  BY RingAssumption, FileAssumption DEF FileInit
<1>2. EmptyRing \in Ring /\ EmptyRing.readcursor = 0 /\ EmptyRing.writecursor = 0
  <2>1. 0 \in Cells
    BY <1>1 DEF Cells
  <2>2. [c \in Cells |-> "x"] \in [Cells -> Bytes]
    BY SomeBytes
  <2> QED
    BY <2>1, <2>2 DEF EmptyRing, Ring
<1>3. Backlog(EmptyRing) = 0
  BY <1>2, BacklogIs DEF Ahead
<1>4. StreamTypes
  <2>1. <<>> \in Seq(Bytes)
    OBVIOUS
  <2>2. 0 \in 0 .. Most /\ 0 \in 0 .. Len(content) /\ 0 \in 0 .. 0
    BY <1>1 DEF Most
  <2>3. Backlog(buffer) = 0 /\ buffer \in Ring
    BY <1>2, <1>3 DEF FileInit
  <2> QED
    BY <1>1, <2>1, <2>2, <2>3 DEF FileInit, StreamTypes
<1>5. Kept /\ SelectAgain /\ LinesWhole /\ EofIsEnd
  BY <1>3 DEF FileInit, Kept, SelectAgain, LinesWhole, EofIsEnd, NoCall, Call, NoRet
<1> QED
  BY <1>4, <1>5 DEF StreamInv

LEMMA HeldIs == ASSUME StreamTypes, Kept PROVE StreamKept
<1>1. PICK o \in Nat, b \in Nat : /\ o = Len(out) /\ b = Backlog(buffer) /\ got = o + b
                                  /\ o + b <= Len(content) /\ content \in Seq(Bytes) /\ out \in Seq(Bytes) /\ buffer \in Ring
  <2>1. Backlog(buffer) \in Nat
    BY RoomIs DEF StreamTypes
  <2> QED
    BY <2>1 DEF StreamTypes, Kept
<1>2. PICK h \in Seq(Bytes) : h = Held(buffer) /\ Len(h) = b /\ \A i \in 1 .. b : h[i] = Byte(buffer, i - 1)
  <2>1. Lower(b, Backlog(buffer)) = b
    BY <1>1 DEF Lower
  <2> QED
    BY <1>1, <2>1, PeekIs DEF Held
<1>3. PICK s \in Seq(Bytes) : s = SubSeq(content, 1, got) /\ Len(s) = o + b /\ \A i \in 1 .. o + b : s[i] = content[i]
  <2>1. 0 + (o + b) = o + b /\ 0 + 1 = 1 /\ 0 \in Nat /\ o + b \in Nat
    OBVIOUS
  <2>2. /\ SubSeq(content, 0 + 1, 0 + (o + b)) \in Seq(Bytes) /\ Len(SubSeq(content, 0 + 1, 0 + (o + b))) = o + b
        /\ \A i \in 1 .. o + b : SubSeq(content, 0 + 1, 0 + (o + b))[i] = content[0 + i]
    BY <1>1, <2>1, Piece
  <2>3. \A i \in 1 .. o + b : SubSeq(content, 0 + 1, 0 + (o + b))[i] = content[i]
    BY <2>2
  <2> QED
    BY <1>1, <2>1, <2>2, <2>3
<1>4. /\ out \o h \in Seq(Bytes) /\ Len(out \o h) = o + b
      /\ \A i \in 1 .. o : (out \o h)[i] = out[i]
      /\ \A j \in 1 .. b : (out \o h)[o + j] = h[j]
  <2>1. /\ out \o h \in Seq(Bytes) /\ Len(out \o h) = Len(out) + Len(h)
        /\ \A i \in 1 .. Len(out) : (out \o h)[i] = out[i]
        /\ \A i \in 1 .. Len(h) : (out \o h)[Len(out) + i] = h[i]
    BY <1>1, Joined
  <2> QED
    BY <1>1, <1>2, <2>1
<1>5. ASSUME NEW i \in 1 .. o + b PROVE (out \o h)[i] = s[i]
  <2>1. CASE i <= o
    BY <1>1, <1>3, <1>4, <2>1 DEF Kept
  <2>2. CASE i > o
    <3>1. PICK j \in 1 .. b : i = o + j /\ j - 1 \in 0 .. b - 1 /\ o + (j - 1) + 1 = i
      <4>1. i - o \in 1 .. b /\ i = o + (i - o) /\ i - o - 1 \in 0 .. b - 1 /\ o + (i - o - 1) + 1 = i
        BY <2>2
      <4> QED
        BY <4>1
    <3>2. (out \o h)[i] = h[j]
      BY <1>4, <3>1
    <3> QED
      BY <1>1, <1>2, <1>3, <3>1, <3>2 DEF Kept
  <2>3. i <= o \/ i > o
    OBVIOUS
  <2> QED
    BY ONLY <2>1, <2>2, <2>3
<1>6. out \o h = s
  BY ONLY <1>3, <1>4, <1>5, SeqEqual
<1> QED
  BY <1>2, <1>3, <1>6 DEF StreamKept

\* What the methods of file give is what was sent: each byte once and in order, in lines
\* that are whole, and feof after the last.
THEOREM StreamIsExact == FileSpec => []StreamExact
<1>1. FileInit => StreamInv
  BY StreamStarts
<1>2. StreamInv /\ [FileNext]_fileVars => StreamInv'
  <2> SUFFICES ASSUME StreamInv, [FileNext]_fileVars PROVE StreamInv'
    OBVIOUS
  <2>1. CASE Step
    BY <2>1, StepEffect, EffectKeeps
  <2>2. CASE Send \/ Leave
    BY <2>2, PeerKeeps
  <2>3. ASSUME NEW c \in Calls, Begin(c) PROVE StreamInv'
    BY <2>3, BeginKeeps, FileAssumption DEF WellMade
  <2>4. CASE UNCHANGED fileVars
    BY <2>4 DEF fileVars, StreamInv, StreamTypes, Kept, SelectAgain, LinesWhole, EofIsEnd, LinesFit
  <2> QED
    BY <2>1, <2>2, <2>3, <2>4 DEF FileNext
<1>3. StreamInv => StreamExact
  BY HeldIs DEF StreamInv, StreamExact
<1> QED
  BY <1>1, <1>2, <1>3, PTL DEF FileSpec

(***************************************************************************)
(* The chunked body, without a timeout                                     *)
(***************************************************************************)

\* The line at hand is k bytes long with its end, a carriage return and a newline.
LineAhead(k) ==
    /\ Len(out) + k <= Len(content)
    /\ content[Len(out) + k] = "lf" /\ content[Len(out) + (k - 1)] = "cr"
    /\ \A j \in 1 .. k - 1 : content[Len(out) + j] # "lf"

Gone == peer # "open" /\ sent < Len(content)

LEMMA LineAheadIs ==
    ASSUME StreamTypes, Kept, NEW k \in {2, 3}, LineAhead(k)
    PROVE  /\ ~ HasLine(buffer) => Backlog(buffer) < k
           /\ HasLine(buffer) => LineEnd(buffer) = k - 2
           /\ \A i, n : LineIn(buffer, i, n) => i = k - 2 /\ n = k
<1>1. PICK o \in Nat, b \in Nat : o = Len(out) /\ b = Backlog(buffer) /\ \A j \in 0 .. b - 1 : Byte(buffer, j) = content[o + (j + 1)]
  <2>1. Len(out) \in Nat /\ Backlog(buffer) \in Nat
    BY RoomIs DEF StreamTypes
  <2>2. \A j \in 0 .. Backlog(buffer) - 1 : Len(out) + j + 1 = Len(out) + (j + 1)
    BY <2>1
  <2> QED
    BY <2>1, <2>2 DEF Kept
<1>2. /\ content[o + k] = "lf" /\ content[o + (k - 1)] = "cr" /\ \A j \in 1 .. k - 1 : content[o + j] # "lf"
      /\ k \in Nat /\ k - 1 \in Nat /\ k - 2 \in Nat
  BY <1>1 DEF LineAhead
<1>3. ASSUME b >= k
      PROVE  /\ Byte(buffer, k - 1) = "lf" /\ Byte(buffer, k - 2) = "cr" /\ k - 1 \in 0 .. b - 1
             /\ \A j \in 0 .. k - 2 : Byte(buffer, j) # "lf"
  <2>1. k - 1 \in 0 .. b - 1 /\ k - 2 \in 0 .. b - 1 /\ (k - 1) + 1 = k /\ (k - 2) + 1 = k - 1
    BY <1>2, <1>3
  <2>2. ASSUME NEW j \in 0 .. k - 2 PROVE Byte(buffer, j) # "lf"
    <3>1. j \in 0 .. b - 1 /\ j + 1 \in 1 .. k - 1
      BY <1>2, <1>3
    <3> QED
      BY <1>1, <1>2, <3>1
  <2> QED
    BY <1>1, <1>2, <2>1, <2>2
<1>4. ASSUME b < k, NEW j \in 0 .. b - 1 PROVE Byte(buffer, j) # "lf"
  <2>1. j + 1 \in 1 .. k - 1
    BY <1>2, <1>4
  <2> QED
    BY <1>1, <1>2, <2>1
<1>5. ~ HasLine(buffer) => b < k
  BY <1>1, <1>2, <1>3 DEF HasLine
<1>6. ASSUME NEW i, NEW n, LineIn(buffer, i, n) PROVE i = k - 2 /\ n = k
  <2>1. i \in 0 .. b - 1 /\ n \in 1 .. b /\ i \in Nat /\ n \in Nat
    BY <1>1, <1>6 DEF LineIn
  <2>2. \A j \in 0 .. i - 1 : Byte(buffer, j) # "lf"
    BY <1>6 DEF LineIn
  <2>3. b >= k
    <3>1. i \in 0 .. b - 1 /\ (i + 1 \in 0 .. b - 1 \/ n = i + 1)
      BY <1>6, <2>1 DEF LineIn
    <3> QED
      BY <1>2, <1>4, <1>6, <3>1 DEF LineIn
  <2>4. CASE n = i + 1 /\ Byte(buffer, i) = "lf" /\ (i > 0 => Byte(buffer, i - 1) # "cr")
    <3>1. i = k - 1
      <4>1. ~ (i <= k - 2)
        BY <1>3, <2>1, <2>3, <2>4
      <4>2. ~ (i > k - 1)
        BY <1>2, <1>3, <2>2, <2>3, <2>1
      <4> QED
        BY <1>2, <2>1, <4>1, <4>2
    <3>2. i > 0 /\ i - 1 = k - 2
      BY <1>2, <3>1
    <3> QED
      BY <1>3, <2>3, <2>4, <3>2
  <2>5. CASE n = i + 2 /\ Byte(buffer, i) = "cr" /\ Byte(buffer, i + 1) = "lf"
    <3>1. ~ (i + 1 <= k - 2)
      BY <1>3, <2>1, <2>3, <2>5
    <3>2. ~ (i > k - 1)
      BY <1>2, <1>3, <2>1, <2>2, <2>3
    <3>3. i # k - 1
      BY <1>3, <2>3, <2>5
    <3> QED
      BY <1>2, <2>1, <2>5, <3>1, <3>2, <3>3
  <2> QED
    BY <1>6, <2>4, <2>5 DEF LineIn
<1>7. HasLine(buffer) => LineEnd(buffer) = k - 2
  BY <1>6, LineTaken DEF StreamTypes
<1> QED
  BY <1>1, <1>5, <1>6, <1>7

\* What a step of gets does where such a line is at hand, and what read does with data at hand.
GetsOutcome(k) ==
    \/ UNCHANGED <<call, out, ret, feof>>
    \/ /\ call' = NoCall /\ UNCHANGED feof /\ Len(out') = Len(out) + k /\ ret'.kind = "line"
       /\ ret'.text \in Seq(Bytes) /\ Len(ret'.text) = k - 2
       /\ \A i \in 1 .. k - 2 : ret'.text[i] = content[Len(out) + i]
    \/ /\ call' = NoCall /\ feof' /\ Gone /\ ret'.kind \in {"null", "block"}
       /\ ret'.text = <<>> \/ Backlog(buffer)' = 0

LEMMA Wanted ==
    ASSUME StreamTypes, Room(buffer) > 1
    PROVE  GetsWanted \in Nat /\ GetsWanted > 0
<1>1. Room(buffer) \in Nat
  BY RoomIs
<1> QED
  BY <1>1, FileAssumption DEF GetsWanted, Least

LEMMA GetsLine ==
    ASSUME StreamInv, NEW k \in {2, 3}, LineAhead(k), call.n = SizeLine, Count - Margin >= 4,
           SizeLine \in Nat \ {0, 1}, GetsRead \/ GetsReturn
    PROVE  GetsOutcome(k)
<1> USE DEF StreamInv
<1>1. PICK o \in Nat, b \in Nat : /\ o = Len(out) /\ b = Backlog(buffer) /\ got = o + b /\ Len(content) \in Nat
                                  /\ sent \in Nat /\ o + k <= Len(content)
                                  /\ Room(buffer) = Most - b /\ Most \in Nat /\ Most >= 4 /\ b <= Most
  BY RoomIs DEF StreamTypes, Kept, LineAhead, Most
<1>2. CASE HasLine(buffer)
  <2>1. ReturnLine /\ UNCHANGED <<feof, content, got>>
    BY <1>2 DEF GetsRead, GetsReturn, Quiet
  <2>2. LineEnd(buffer) = k - 2 /\ k - 2 < call.n /\ call.n \in Nat /\ k - 2 \in Nat
    BY <1>2, LineAheadIs
  <2>3. PICK n : Takes(n) /\ ret'.kind = "line" /\ Line(k - 2, n)
    BY <1>2, <2>1, <2>2, LineGiven
  <2>4. n = k /\ k - 2 \in 0 .. b - 1
    BY <1>1, <2>3, LineAheadIs DEF Line, LineIn
  <2>5. Len(out') = Len(out) + k /\ \A i \in 1 .. k : Byte(buffer, i - 1) = content[Len(out) + i]
    BY <2>3, <2>4, TakesKeep
  <2>6. ret'.text = Peek(buffer, k - 2) /\ Lower(k - 2, b) = k - 2
    BY <2>3, <2>4, <1>1 DEF Line, Lower
  <2>7. ret'.text \in Seq(Bytes) /\ Len(ret'.text) = k - 2 /\ \A i \in 1 .. k - 2 : ret'.text[i] = Byte(buffer, i - 1)
    <3>1. PICK l \in Nat : l = k - 2
      BY <2>2
    <3>2. /\ Peek(buffer, l) \in Seq(Bytes) /\ Len(Peek(buffer, l)) = Lower(l, Backlog(buffer))
          /\ \A i \in 1 .. Lower(l, Backlog(buffer)) : Peek(buffer, l)[i] = Byte(buffer, i - 1)
      BY PeekIs DEF StreamTypes
    <3> QED
      BY ONLY <1>1, <2>6, <3>1, <3>2
  <2>8. \A i \in 1 .. k - 2 : ret'.text[i] = content[Len(out) + i]
    BY <2>5, <2>7
  <2>9. call' = NoCall
    BY <2>1, <2>2 DEF ReturnLine, ReturnBlock, Return
  <2> QED
    BY <2>1, <2>3, <2>5, <2>7, <2>8, <2>9 DEF GetsOutcome
<1>3. CASE ~ HasLine(buffer)
  <2>1. b < k /\ Room(buffer) > 1
    <3>1. StreamTypes /\ Kept
      OBVIOUS
    <3>2. ~ HasLine(buffer) => Backlog(buffer) < k
      BY ONLY <3>1, LineAhead(k), k \in {2, 3}, LineAheadIs
    <3>3. Room(buffer) = Most - Backlog(buffer) /\ Most \in Nat
      BY ONLY <3>1, RoomIs
    <3>4. Most >= 4
      BY DEF Most
    <3> QED
      BY ONLY <1>1, <1>3, <3>2, <3>3, <3>4, k \in {2, 3}
  <2>2. GetsRead
    BY <1>3, <2>1 DEF GetsReturn
  <2>3. GetsWanted \in Nat /\ GetsWanted > 0
    BY <2>1, Wanted
  <2>4. CASE Result(GetsWanted) > 0
    BY <2>2, <2>3, <2>4, ResultIs DEF GetsRead, GetsOutcome
  <2>5. CASE ~ (Result(GetsWanted) > 0)
    <3>1. /\ feof' = TRUE /\ UNCHANGED <<got, content>>
          /\ ReturnBlock(buffer, call.n) \/ ReturnNull
      BY <2>2, <2>5 DEF GetsRead, Quiet
    <3>2. Gone
      <4>1. Ready
        BY <2>2, <2>3 DEF GetsRead
      <4>2. Ended
        BY <2>3, <2>5, <4>1, ReadFails
      <4> QED
        BY <1>1, <2>1, <4>2 DEF Ended, Gone
    <3>3. CASE ReturnBlock(buffer, call.n)
      <4>1. call' = NoCall /\ ret'.kind = "block"
        BY <3>3 DEF ReturnBlock, Return
      <4>2. Takes(Lower(call.n, b))
        BY <1>1, <3>1, <3>3, BlockTakes
      <4>3. Lower(call.n, b) = b
        BY <1>1, <2>1 DEF Lower
      <4>4. Backlog(buffer') = 0
        BY <1>1, <4>2, <4>3 DEF Takes, Without
      <4> QED
        BY <3>1, <3>2, <4>1, <4>4 DEF GetsOutcome
    <3>4. CASE ReturnNull
      BY <3>1, <3>2, <3>4 DEF ReturnNull, Return, GetsOutcome
    <3> QED
      BY <3>1, <3>3, <3>4
  <2> QED
    BY <2>4, <2>5
<1> QED
  BY <1>2, <1>3

\* At the end of the response, gets finds the end.
LEMMA GetsEnd ==
    ASSUME StreamInv, Len(out) = Len(content), Count - Margin >= 4, GetsRead \/ GetsReturn
    PROVE  call' = NoCall /\ feof' /\ ret'.kind = "null" /\ ret'.text = <<>> /\ UNCHANGED out
<1> USE DEF StreamInv
<1>1. Backlog(buffer) = 0 /\ sent = got /\ Room(buffer) > 1
  BY RoomIs DEF StreamTypes, Kept, Most
<1>2. ~ HasLine(buffer)
  BY <1>1 DEF HasLine
<1>3. GetsRead
  BY <1>1, <1>2 DEF GetsReturn
<1>4. GetsWanted \in Nat /\ ~ (Result(GetsWanted) > 0)
  <2>1. GetsWanted \in Nat
    BY <1>1, Wanted
  <2>2. got \in Nat /\ sent \in Nat
    BY DEF StreamTypes
  <2>3. Result(GetsWanted) > 0 => Result(GetsWanted) <= sent - got /\ Result(GetsWanted) \in Nat
    BY <2>1, ResultIs
  <2> QED
    BY <1>1, <2>1, <2>2, <2>3
<1>5. feof' = TRUE /\ ReturnNull /\ UNCHANGED <<content, got>>
  BY <1>1, <1>3, <1>4 DEF GetsRead, Quiet
<1> QED
  BY <1>5, NothingTaken DEF ReturnNull, Return

ReadOutcome ==
    \/ UNCHANGED <<call, out, ret>> /\ (feof' => feof \/ Gone)
    \/ /\ call' = NoCall /\ UNCHANGED feof /\ ret'.kind = "block"
       /\ ret'.text \in Seq(Bytes) /\ Len(ret'.text) <= call.n /\ Len(out') = Len(out) + Len(ret'.text)
       /\ \A i \in 1 .. Len(ret'.text) : ret'.text[i] = content[Len(out) + i]

LEMMA ReadData ==
    ASSUME StreamInv, Len(out) + call.n <= Len(content), BlockRead \/ BlockReturn
    PROVE  ReadOutcome
<1> USE DEF StreamInv
<1>1. PICK o \in Nat, b \in Nat, n \in Nat :
         /\ o = Len(out) /\ b = Backlog(buffer) /\ n = call.n /\ got = o + b /\ Len(content) \in Nat
         /\ o + n <= Len(content) /\ BlockSize \in 0 .. n /\ call.op = "read"
  <2>1. call.op = "read" /\ call.n \in Nat /\ call.room \in Nat /\ Backlog(buffer) \in Nat
    BY CallIs, RoomIs DEF BlockRead, BlockReturn, StreamTypes
  <2>2. BlockSize \in 0 .. call.n
    BY <2>1 DEF BlockSize, Least
  <2>3. Len(out) \in Nat /\ Len(content) \in Nat /\ got = Len(out) + Backlog(buffer)
    BY DEF StreamTypes, Kept
  <2>4. Len(out) + call.n <= Len(content)
    OBVIOUS
  <2> QED
    BY ONLY <2>1, <2>2, <2>3, <2>4
<1>2. CASE BlockRead
  <2>1. PICK m \in Nat : m = Least(Readbuf, Room(buffer)) /\ m > 0 /\ b < BlockSize /\ Ready
    BY <1>1, <1>2, BlockAmount, RoomIs DEF BlockRead
  <2>2. UNCHANGED <<call, out, ret>> /\ (Result(m) > 0 => UNCHANGED feof)
    BY <1>2, <2>1, ResultIs DEF BlockRead
  <2>3. ~ (Result(m) > 0) => Gone
    <3> SUFFICES ASSUME ~ (Result(m) > 0) PROVE Gone
      OBVIOUS
    <3>1. Ended
      BY <2>1, ReadFails
    <3>2. sent < Len(content)
      BY <1>1, <2>1, <3>1 DEF Ended
    <3> QED
      BY <3>1, <3>2 DEF Ended, Gone
  <2> QED
    BY <2>2, <2>3 DEF ReadOutcome
<1>3. CASE BlockReturn
  <2>1. ReturnBlock(buffer, BlockSize) /\ UNCHANGED <<feof, content, got>>
    BY <1>3 DEF BlockReturn, Quiet
  <2>2. PICK l \in Nat : l = Lower(BlockSize, b) /\ l <= n
    BY <1>1 DEF Lower
  <2>3. Takes(l) /\ ret'.kind = "block" /\ ret'.text = Peek(buffer, l) /\ call' = NoCall
    BY <1>1, <2>1, <2>2, BlockTakes DEF Answers
  <2>4. Len(out') = Len(out) + l /\ Len(Peek(buffer, l)) = l /\ \A i \in 1 .. l : Peek(buffer, l)[i] = content[Len(out) + i]
    BY <2>3, TakesKeep
  <2>5. Peek(buffer, l) \in Seq(Bytes)
    BY PeekIs DEF StreamTypes
  <2> QED
    BY <1>1, <2>1, <2>2, <2>3, <2>4, <2>5 DEF ReadOutcome
<1> QED
  BY <1>2, <1>3

Body == BodyOf[content]
Starts == ChunksOf[content]

AtChunk == Len(out) \in DOMAIN Starts /\ Starts[Len(out)] = Len(into)
AtEnd == AtChunk /\ Len(out) = Len(content)

\* Behind q bytes of the response k bytes of a chunk are still to come.
Left(q, k) ==
    /\ q \in Nat /\ k \in Nat /\ q + k + 2 <= Len(content)
    /\ content[q + k + 1] = "cr" /\ content[q + k + 2] = "lf"
    /\ Len(into) + k <= Len(Body) /\ \A i \in 1 .. k : Body[Len(into) + i] = content[q + i]
    /\ q + k + 2 \in DOMAIN Starts /\ Starts[q + k + 2] = Len(into) + k

\* A size line that was read.
SizeRead ==
    \E p \in DOMAIN Starts :
       /\ Starts[p] = Len(into) /\ Len(out) = p + 3 /\ p # Len(content)
       /\ ret.kind = "line" /\ ret.text # <<>> /\ ret.text[1] = content[p + 1]

\* A part of a size line that was read, and the server has gone.
Lost == feof /\ Gone /\ Backlog(buffer) = 0

DataRead ==
    /\ ret.text \in Seq(Bytes) /\ Len(ret.text) <= todo
    /\ \E q \in Nat : /\ Len(out) = q + Len(ret.text) /\ Left(q, todo)
                      /\ \A i \in 1 .. Len(ret.text) : ret.text[i] = content[q + i]

Idle == call = NoCall
AtLine(step) == pc = step /\ call.op = "gets" /\ call.n = SizeLine /\ ~ feof
NoLine(step) == pc = step /\ Idle /\ ret.kind = "eof" /\ feof

Place ==
    \/ pc = "ask" /\ Idle /\ (AtChunk \/ (feof /\ Gone))
    \/ AtLine("size") /\ AtChunk
    \/ pc = "size" /\ Idle /\ SizeRead
    \/ pc = "size" /\ Idle /\ ret.kind # "eof" /\ feof /\ (ret.text = <<>> \/ Lost)
    \/ pc \in {"size", "data", "tail"} /\ Idle /\ ret.kind = "eof" /\ feof
    \/ pc = "askdata" /\ Idle /\ todo > 0 /\ (Lost \/ Left(Len(out), todo))
    \/ pc = "data" /\ call.op = "read" /\ call.n = todo /\ todo > 0 /\ Left(Len(out), todo)
    \/ pc = "data" /\ Idle /\ ret.kind # "eof" /\ DataRead
    \/ pc = "asktail" /\ Idle /\ Left(Len(out), 0)
    \/ AtLine("tail") /\ Left(Len(out), 0)
    \/ pc = "tail" /\ Idle /\ ret.kind # "eof" /\ (AtChunk \/ (feof /\ Gone))
    \/ pc = "out" /\ Idle /\ (done = "true" => Gone \/ Len(into) = Len(Body))

ChunkInv ==
    /\ content \in Responses /\ todo \in Nat
    /\ into \in Seq(Bytes) /\ Len(into) <= Len(Body) /\ \A i \in 1 .. Len(into) : into[i] = Body[i]
    /\ pc # "out" => done = "running"
    /\ feof => Gone \/ AtEnd
    /\ Place

LEMMA ResponseIs ==
    ASSUME content \in Responses
    PROVE  /\ content \in Seq(Bytes) /\ Body \in Seq(Bytes) /\ Len(content) \in Nat /\ Len(Body) \in Nat
           /\ 0 \in DOMAIN Starts /\ Starts[0] = 0
           /\ \A p \in DOMAIN Starts : p \in Nat /\ Starts[p] \in Nat /\ ChunkAt(content, p, Starts[p])
BY ResponsesAssumption, FileAssumption DEF Body, Starts

LEMMA SizeLineAhead ==
    ASSUME StreamTypes, content \in Responses, AtChunk, Len(out) # Len(content)
    PROVE  LineAhead(3)
<1>1. PICK o \in Nat : o = Len(out) /\ o \in DOMAIN Starts /\ o # Len(content)
  BY DEF StreamTypes, AtChunk
<1>2. /\ o + 3 <= Len(content) /\ content[o + 1] \in DOMAIN SizeOf
      /\ content[o + 2] = "cr" /\ content[o + 3] = "lf"
  BY <1>1, ResponseIs DEF ChunkAt
<1>3. content[o + 1] # "lf"
  BY <1>2, ResponsesAssumption
<1>4. \A j \in 1 .. 3 - 1 : j = 1 \/ j = 2
  OBVIOUS
<1> QED
  BY <1>1, <1>2, <1>3, <1>4 DEF LineAhead

LEMMA TailLineAhead ==
    ASSUME Left(Len(out), 0)
    PROVE  LineAhead(2) /\ ~ AtEnd
<1>1. PICK o \in Nat : /\ o = Len(out) /\ o + 0 + 2 <= Len(content)
                       /\ content[o + 0 + 1] = "cr" /\ content[o + 0 + 2] = "lf"
  BY DEF Left
<1>2. o + 2 <= Len(content) /\ content[o + 1] = "cr" /\ content[o + 2] = "lf" /\ o # Len(content)
  BY <1>1
<1>3. \A j \in 1 .. 2 - 1 : j = 1
  OBVIOUS
<1> QED
  BY <1>1, <1>2, <1>3 DEF LineAhead, AtEnd

\* A step of gets for a size line, and for the line after a chunk.
LEMMA SizeStep ==
    ASSUME StreamInv, ChunkInv, AtLine("size") /\ AtChunk, GetsRead \/ GetsReturn, UNCHANGED <<chunkVars, content, sent, peer>>
    PROVE  ChunkInv'
<1>1. /\ StreamTypes /\ content \in Responses /\ call.n = SizeLine /\ Count - Margin >= 4 /\ SizeLine \in Nat \ {0, 1}
      /\ UNCHANGED <<pc, into, todo, done, content, sent, peer>> /\ ~ feof /\ pc = "size"
  BY ResponsesAssumption DEF StreamInv, ChunkInv, AtLine, chunkVars
<1>2. /\ content' \in Responses /\ todo' \in Nat /\ into' \in Seq(Bytes) /\ Len(into') <= Len(Body')
      /\ \A i \in 1 .. Len(into') : into'[i] = Body'[i]
      /\ pc' # "out" => done' = "running"
  BY <1>1 DEF ChunkInv, Body
<1>3. CASE Len(out) = Len(content)
  <2>1. call' = NoCall /\ feof' /\ ret'.kind = "null" /\ ret'.text = <<>> /\ UNCHANGED out
    BY <1>1, <1>3, GetsEnd
  <2>2. AtEnd'
    BY <1>1, <1>3, <2>1 DEF AtEnd, AtChunk, Starts
  <2>3. Place'
    BY <1>1, <2>1 DEF Place, Idle
  <2> QED
    BY <1>2, <2>2, <2>3 DEF ChunkInv
<1>4. CASE Len(out) # Len(content)
  <2>1. GetsOutcome(3)
    BY <1>1, <1>4, SizeLineAhead, GetsLine
  <2>2. CASE UNCHANGED <<call, out, ret, feof>>
    <3>1. Place'
      BY <1>1, <2>2 DEF Place, AtLine, AtChunk, Starts
    <3> QED
      BY <1>1, <1>2, <2>2, <3>1 DEF ChunkInv
  <2>3. CASE call' = NoCall /\ UNCHANGED feof /\ Len(out') = Len(out) + 3 /\ ret'.kind = "line"
             /\ ret'.text \in Seq(Bytes) /\ Len(ret'.text) = 3 - 2
             /\ \A i \in 1 .. 3 - 2 : ret'.text[i] = content[Len(out) + i]
    <3>1. ret'.text # <<>> /\ ret'.text[1] = content[Len(out) + 1]
      <4>1. Len(ret'.text) # 0 /\ 1 \in 1 .. 3 - 2
        BY <2>3
      <4> QED
        BY <2>3, <4>1, EmptySeq
    <3>2. SizeRead'
      BY <1>1, <1>4, <2>3, <3>1 DEF SizeRead, AtChunk, Starts
    <3>3. Place'
      BY <1>1, <2>3, <3>2 DEF Place, Idle
    <3> QED
      BY <1>1, <1>2, <2>3, <3>3 DEF ChunkInv
  <2>4. CASE /\ call' = NoCall /\ feof' /\ Gone /\ ret'.kind \in {"null", "block"}
             /\ ret'.text = <<>> \/ Backlog(buffer)' = 0
    <3>1. Gone'
      BY <1>1, <2>4 DEF Gone
    <3>2. Place'
      BY <1>1, <2>4, <3>1 DEF Place, Idle, Lost
    <3> QED
      BY <1>2, <3>1, <3>2 DEF ChunkInv
  <2> QED
    BY <2>1, <2>2, <2>3, <2>4 DEF GetsOutcome
<1> QED
  BY <1>3, <1>4

LEMMA TailStep ==
    ASSUME StreamInv, ChunkInv, AtLine("tail") /\ Left(Len(out), 0), GetsRead \/ GetsReturn,
           UNCHANGED <<chunkVars, content, sent, peer>>
    PROVE  ChunkInv'
<1>1. /\ call.n = SizeLine /\ Count - Margin >= 4 /\ SizeLine \in Nat \ {0, 1}
      /\ UNCHANGED <<pc, into, todo, done, content, sent, peer>> /\ ~ feof /\ pc = "tail"
  BY ResponsesAssumption DEF StreamInv, ChunkInv, AtLine, chunkVars
<1>2. /\ content' \in Responses /\ todo' \in Nat /\ into' \in Seq(Bytes) /\ Len(into') <= Len(Body')
      /\ \A i \in 1 .. Len(into') : into'[i] = Body'[i]
      /\ pc' # "out" => done' = "running"
  BY <1>1 DEF ChunkInv, Body
<1>3. GetsOutcome(2)
  BY <1>1, TailLineAhead, GetsLine
<1>4. CASE UNCHANGED <<call, out, ret, feof>>
  <2>1. Left(Len(out), 0)'
    BY <1>1, <1>4 DEF Left, Starts, Body
  <2>2. Place'
    BY <1>1, <1>4, <2>1 DEF Place, AtLine
  <2> QED
    BY <1>1, <1>2, <1>4, <2>2 DEF ChunkInv
<1>5. CASE call' = NoCall /\ UNCHANGED feof /\ Len(out') = Len(out) + 2 /\ ret'.kind = "line"
  <2>1. Len(out) + 0 + 2 = Len(out) + 2 /\ Len(into) + 0 = Len(into)
    BY DEF StreamInv, StreamTypes, ChunkInv
  <2>2. AtChunk'
    BY <1>1, <1>5, <2>1 DEF AtChunk, Left, Starts
  <2>3. Place'
    BY <1>1, <1>5, <2>2 DEF Place, Idle
  <2> QED
    BY <1>1, <1>2, <1>5, <2>3 DEF ChunkInv
<1>6. CASE call' = NoCall /\ feof' /\ Gone /\ ret'.kind \in {"null", "block"}
  <2>1. Gone'
    BY <1>1, <1>6 DEF Gone
  <2>2. Place'
    BY <1>1, <1>6, <2>1 DEF Place, Idle
  <2> QED
    BY <1>2, <2>1, <2>2 DEF ChunkInv
<1> QED
  BY <1>3, <1>4, <1>5, <1>6 DEF GetsOutcome

LEMMA DataStep ==
    ASSUME StreamInv, ChunkInv, pc = "data", call.op = "read", call.n = todo, todo > 0, Left(Len(out), todo),
           BlockRead \/ BlockReturn, UNCHANGED <<chunkVars, content, sent, peer>>
    PROVE  ChunkInv'
<1>1. UNCHANGED <<pc, into, todo, done, content, sent, peer>>
  BY DEF chunkVars
<1>2. /\ content' \in Responses /\ todo' \in Nat /\ into' \in Seq(Bytes) /\ Len(into') <= Len(Body')
      /\ \A i \in 1 .. Len(into') : into'[i] = Body'[i]
      /\ pc' # "out" => done' = "running"
  BY <1>1 DEF ChunkInv, Body
<1>3. PICK o \in Nat, k \in Nat : o = Len(out) /\ k = todo /\ o + k + 2 <= Len(content) /\ Len(content) \in Nat
  BY ResponseIs DEF Left, ChunkInv
<1>4. o + k <= Len(content) /\ o # Len(content)
  BY <1>3
<1>5. feof => Gone
  BY <1>3, <1>4 DEF ChunkInv, AtEnd
<1>6. ReadOutcome
  BY <1>3, <1>4, ReadData
<1>7. (feof => Gone)'
  BY <1>1, <1>5, <1>6 DEF ReadOutcome, Gone
<1>8. CASE UNCHANGED <<call, out, ret>>
  <2>1. Left(Len(out), todo)'
    BY <1>1, <1>8 DEF Left, Starts, Body
  <2>2. Place'
    BY <1>1, <1>8, <2>1 DEF Place
  <2> QED
    BY <1>2, <1>7, <2>2 DEF ChunkInv
<1>9. CASE /\ call' = NoCall /\ ret'.kind = "block"
           /\ ret'.text \in Seq(Bytes) /\ Len(ret'.text) <= call.n /\ Len(out') = Len(out) + Len(ret'.text)
           /\ \A i \in 1 .. Len(ret'.text) : ret'.text[i] = content[Len(out) + i]
  <2>1. Left(o, todo)'
    BY <1>1, <1>3 DEF Left, Starts, Body
  <2>2. DataRead'
    BY <1>1, <1>3, <1>9, <2>1 DEF DataRead
  <2>3. Place'
    BY <1>1, <1>9, <2>2 DEF Place, Idle
  <2> QED
    BY <1>2, <1>7, <2>3 DEF ChunkInv
<1> QED
  BY <1>6, <1>8, <1>9 DEF ReadOutcome

LEMMA MethodStep ==
    ASSUME StreamInv, ChunkInv, Step, UNCHANGED chunkVars
    PROVE  ChunkInv'
<1>1. UNCHANGED <<content, sent, peer>>
  BY StepEffect DEF Effect, Quiet
<1>2. call.op # "none"
  BY DEF Step, GetsRead, GetsReturn, WaitRead, WaitSelect, WaitReturn, BlockRead, BlockReturn, TimedEnough,
         TimedRead, TimedSelect, TimedReturn, BufferRead, BufferSelect, BufferReturn, UntilReturn
<1>3. ~ Idle
  BY <1>2 DEF Idle, NoCall, Call
<1>4. CASE AtLine("size") /\ AtChunk
  <2>1. GetsRead \/ GetsReturn
    BY <1>4 DEF AtLine, Step, WaitRead, WaitSelect, WaitReturn, BlockRead, BlockReturn, TimedEnough,
         TimedRead, TimedSelect, TimedReturn, BufferRead, BufferSelect, BufferReturn, UntilReturn
  <2> QED
    BY <1>1, <1>4, <2>1, SizeStep
<1>5. CASE AtLine("tail") /\ Left(Len(out), 0)
  <2>1. GetsRead \/ GetsReturn
    BY <1>5 DEF AtLine, Step, WaitRead, WaitSelect, WaitReturn, BlockRead, BlockReturn, TimedEnough,
         TimedRead, TimedSelect, TimedReturn, BufferRead, BufferSelect, BufferReturn, UntilReturn
  <2> QED
    BY <1>1, <1>5, <2>1, TailStep
<1>6. CASE pc = "data" /\ call.op = "read" /\ call.n = todo /\ todo > 0 /\ Left(Len(out), todo)
  <2>1. BlockRead \/ BlockReturn
    BY <1>6 DEF Step, GetsRead, GetsReturn, WaitRead, WaitSelect, WaitReturn, TimedEnough,
         TimedRead, TimedSelect, TimedReturn, BufferRead, BufferSelect, BufferReturn, UntilReturn
  <2> QED
    BY <1>1, <1>6, <2>1, DataStep
<1> QED
  BY <1>3, <1>4, <1>5, <1>6 DEF ChunkInv, Place

LEMMA PeerStep ==
    ASSUME StreamInv, ChunkInv, Send \/ Leave, UNCHANGED chunkVars
    PROVE  ChunkInv'
<1>1. /\ UNCHANGED <<content, call, got, errno, buffer, feof, ret, out>> /\ ~ Gone
      /\ UNCHANGED <<pc, into, todo, done>>
  BY DEF Send, Leave, methodVars, Gone, chunkVars
<1>2. Body' = Body /\ Starts' = Starts
  BY <1>1 DEF Body, Starts
<1>3. /\ (AtChunk => AtChunk') /\ (AtEnd => AtEnd') /\ (SizeRead => SizeRead') /\ (DataRead => DataRead')
      /\ (Left(Len(out), todo) => Left(Len(out), todo)') /\ (Left(Len(out), 0) => Left(Len(out), 0)')
  BY <1>1, <1>2 DEF AtChunk, AtEnd, SizeRead, DataRead, Left
<1>4. Place'
  BY <1>1, <1>2, <1>3 DEF ChunkInv, Place, Idle, AtLine, Lost
<1> QED
  BY <1>1, <1>2, <1>3, <1>4 DEF ChunkInv

\* Calls that begin.
LEMMA LineBegins ==
    ASSUME StreamInv, ChunkInv, ~ timed, AskLine
    PROVE  ChunkInv'
<1>1. /\ Begin(Call("gets", SizeLine, FALSE)) /\ UNCHANGED <<todo, into, done>>
      /\ (pc = "ask" /\ pc' = "size") \/ (pc = "asktail" /\ pc' = "tail")
  BY DEF AskLine, Ask, LineCall
<1>2. UNCHANGED <<content, sent, peer, got, buffer, feof, out>> /\ call.op = "none"
  BY <1>1 DEF Begin
<1>3. Throws(Call("gets", SizeLine, FALSE)) <=> feof
  BY DEF Throws, Call
<1>4. /\ (AtChunk => AtChunk') /\ (AtEnd => AtEnd') /\ (Gone => Gone')
      /\ (Left(Len(out), 0) => Left(Len(out), 0)')
  BY <1>1, <1>2 DEF AtChunk, AtEnd, Starts, Gone, Left, Body
<1>5. Idle
  BY <1>1 DEF ChunkInv, Place, AtLine
<1>6. Place'
  <2>1. CASE feof
    <3>1. ret'.kind = "eof" /\ UNCHANGED call
      BY <1>1, <1>3, <2>1 DEF Begin
    <3> QED
      BY <1>1, <1>2, <1>5, <2>1, <3>1 DEF Place, Idle
  <2>2. CASE ~ feof
    <3>1. call'.op = "gets" /\ call'.n = SizeLine
      BY <1>1, <1>3, <2>2 DEF Begin, Call
    <3>2. AtLine(pc)'
      BY <1>2, <2>2, <3>1 DEF AtLine
    <3>3. CASE pc = "ask" /\ pc' = "size"
      <4>1. AtChunk
        BY <2>2, <3>3 DEF ChunkInv, Place, AtLine
      <4> QED
        BY <1>4, <3>2, <3>3, <4>1 DEF Place, AtLine
    <3>4. CASE pc = "asktail" /\ pc' = "tail"
      <4>1. Left(Len(out), 0)
        BY <3>4 DEF ChunkInv, Place, AtLine
      <4> QED
        BY <1>4, <3>2, <3>4, <4>1 DEF Place, AtLine
    <3> QED
      BY <1>1, <3>3, <3>4
  <2> QED
    BY <2>1, <2>2
<1> QED
  BY <1>1, <1>2, <1>4, <1>6 DEF ChunkInv, Body

LEMMA DataBegins ==
    ASSUME StreamInv, ChunkInv, ~ timed, AskData
    PROVE  ChunkInv' /\ (Throws(DataCall) \/ WellMade(DataCall))
<1>1. /\ Begin(Call("read", todo, FALSE)) /\ UNCHANGED <<todo, into, done>> /\ DataCall = Call("read", todo, FALSE)
      /\ pc = "askdata" /\ pc' = "data"
  BY DEF AskData, Ask, DataCall
<1>2. UNCHANGED <<content, sent, peer, got, buffer, feof, out>>
  BY <1>1 DEF Begin
<1>3. Idle /\ todo > 0 /\ (Lost \/ Left(Len(out), todo))
  BY <1>1 DEF ChunkInv, Place, AtLine
<1>4. /\ (AtEnd => AtEnd') /\ (Gone => Gone') /\ (Left(Len(out), todo) => Left(Len(out), todo)')
  BY <1>1, <1>2 DEF AtChunk, AtEnd, Starts, Gone, Left, Body
<1>5. (Throws(DataCall) => feof) /\ (Lost => Throws(DataCall))
  BY <1>1 DEF Throws, Call, Lost
<1>6. Place'
  <2>1. CASE Throws(DataCall)
    <3>1. ret'.kind = "eof" /\ UNCHANGED call
      BY <1>1, <2>1 DEF Begin
    <3> QED
      BY <1>1, <1>2, <1>3, <1>5, <2>1, <3>1 DEF Place, Idle
  <2>2. CASE ~ Throws(DataCall)
    <3>1. call'.op = "read" /\ call'.n = todo
      BY <1>1, <2>2 DEF Begin, Call
    <3> QED
      BY <1>1, <1>3, <1>4, <1>5, <2>2, <3>1 DEF Place
  <2> QED
    BY <2>1, <2>2
<1>7. WellMade(DataCall)
  BY <1>1, <1>3 DEF WellMade, Call, Methods, ChunkInv
<1> QED
  BY <1>1, <1>2, <1>4, <1>6, <1>7 DEF ChunkInv, Body

\* What getChunked makes of the answers.
LEMMA AtEndWhole == ASSUME content \in Responses, AtEnd PROVE Len(into) = Len(Body)
<1>1. PICK p \in DOMAIN Starts : p = Len(content) /\ Starts[p] = Len(into)
  BY DEF AtEnd, AtChunk
<1>2. p \in Nat /\ ChunkAt(content, p, Starts[p])
  BY ResponseIs
<1>3. ~ (p + 3 <= Len(content))
  BY <1>1, <1>2
<1> QED
  BY <1>1, <1>2, <1>3 DEF ChunkAt, Body

\* Where the body ends, or is given up.
LEMMA BodyEnds ==
    ASSUME ChunkInv, UNCHANGED <<fileVars, into>>, todo' \in Nat, pc' = "out", Idle,
           done' = "true" => feof \/ Len(into) = Len(Body)
    PROVE  ChunkInv'
<1>1. Body' = Body /\ (Gone => Gone') /\ (AtEnd => AtEnd') /\ feof' = feof /\ content' = content /\ into' = into /\ Idle'
  BY DEF fileVars, Body, Gone, AtEnd, AtChunk, Starts, Idle
<1>2. done' = "true" => Gone \/ Len(into) = Len(Body)
  BY AtEndWhole DEF ChunkInv
<1>3. Place'
  BY <1>1, <1>2 DEF Place
<1> QED
  BY <1>1, <1>3 DEF ChunkInv

LEMMA AnswerEnds == ASSUME ChunkInv, HungUp \/ TimedOut PROVE ChunkInv'
<1>1. /\ UNCHANGED <<fileVars, into>> /\ todo' = todo /\ pc' = "out" /\ call.op = "none" /\ pc \in {"size", "data", "tail"}
      /\ done' = "true" => ret.kind = "eof"
  BY DEF HungUp, TimedOut, Finish, Answered
<1>2. Idle /\ (ret.kind = "eof" => feof)
  BY <1>1 DEF ChunkInv, Place, AtLine, SizeRead
<1> QED
  BY <1>1, <1>2, BodyEnds DEF ChunkInv

LEMMA TailTaken == ASSUME ChunkInv, TakeTail PROVE ChunkInv'
<1>1. UNCHANGED <<fileVars, into, todo, done>> /\ pc = "tail" /\ pc' = "ask" /\ call.op = "none" /\ ret.kind # "eof"
  BY DEF TakeTail, Answered
<1>2. /\ Body' = Body /\ (Gone => Gone') /\ (AtEnd => AtEnd') /\ (AtChunk => AtChunk')
      /\ feof' = feof /\ content' = content /\ (Idle => Idle')
  BY <1>1 DEF fileVars, Body, Gone, AtEnd, AtChunk, Starts, Idle
<1>3. Idle /\ (AtChunk \/ (feof /\ Gone))
  BY <1>1 DEF ChunkInv, Place, AtLine
<1>4. Place'
  BY <1>1, <1>2, <1>3 DEF Place
<1> QED
  BY <1>1, <1>2, <1>4 DEF ChunkInv

LEMMA SizeTaken == ASSUME ChunkInv, StreamInv, TakeSize PROVE ChunkInv'
<1>1. /\ UNCHANGED <<fileVars, into>> /\ pc = "size" /\ call.op = "none" /\ ret.kind # "eof"
      /\ todo' = ValueOf(ret.text) /\ content \in Responses /\ MaxChunk \in Nat
  BY ResponsesAssumption DEF TakeSize, Answered, ChunkInv
<1>2. Idle /\ (SizeRead \/ (feof /\ (ret.text = <<>> \/ Lost)))
  BY <1>1 DEF ChunkInv, Place, AtLine
<1>3. \/ todo' > MaxChunk /\ done' = "false" /\ pc' = "out"
      \/ todo' = 0 /\ done' = "true" /\ pc' = "out"
      \/ todo' \in 1 .. MaxChunk /\ pc' = "askdata" /\ UNCHANGED done
  BY <1>1 DEF TakeSize, Finish
<1>4. todo' \in Nat
  BY <1>1, ResponsesAssumption DEF ValueOf
<1>5. /\ Body' = Body /\ Starts' = Starts /\ (Gone => Gone') /\ (AtEnd => AtEnd') /\ (Lost => Lost')
      /\ feof' = feof /\ content' = content /\ into' = into /\ out' = out /\ Idle'
  BY <1>1, <1>2 DEF fileVars, Body, Gone, AtEnd, AtChunk, Starts, Idle, Lost
<1>6. CASE SizeRead
  <2>1. PICK p \in DOMAIN Starts : /\ Starts[p] = Len(into) /\ Len(out) = p + 3 /\ p # Len(content)
                                   /\ ret.text # <<>> /\ ret.text[1] = content[p + 1]
    BY <1>6 DEF SizeRead
  <2>2. PICK z : z = SizeOf[content[p + 1]]
    OBVIOUS
  <2>3. p \in Nat /\ ChunkAt(content, p, Starts[p]) /\ Len(content) \in Nat
    BY <1>1, ResponseIs
  <2>4. /\ p + 3 <= Len(content) /\ content[p + 1] \in DOMAIN SizeOf /\ z \in Nat
        /\ z = 0 => Starts[p] = Len(Body)
        /\ z \in 1 .. MaxChunk =>
             /\ p + 5 + z <= Len(content) /\ content[p + 4 + z] = "cr" /\ content[p + 5 + z] = "lf"
             /\ Starts[p] + z <= Len(Body)
             /\ \A i \in 1 .. z : Body[Starts[p] + i] = content[p + 3 + i]
             /\ p + 5 + z \in DOMAIN Starts /\ Starts[p + 5 + z] = Starts[p] + z
    BY <2>1, <2>2, <2>3, ResponsesAssumption DEF ChunkAt, Body, Starts
  <2>5. todo' = z
    BY <1>1, <2>1, <2>2, <2>4 DEF ValueOf
  <2>6. CASE pc' = "out"
    <3>1. done' = "true" => Len(into) = Len(Body)
      BY <1>3, <2>1, <2>4, <2>5, <2>6
    <3> QED
      BY <1>1, <1>2, <1>4, <2>6, <3>1, BodyEnds
  <2>7. CASE todo' \in 1 .. MaxChunk /\ pc' = "askdata" /\ UNCHANGED done
    <3>1. Left(Len(out), todo)'
      <4>1. p + 3 \in Nat /\ p + 3 + z + 2 = p + 5 + z /\ p + 3 + z + 1 = p + 4 + z /\ z \in 1 .. MaxChunk
        <5>1. p \in Nat /\ z \in Nat /\ z \in 1 .. MaxChunk
          BY <2>3, <2>4, <2>5, <2>7
        <5> QED
          BY ONLY <5>1
      <4>2. Left(p + 3, z)
        BY <2>1, <2>4, <4>1 DEF Left
      <4> QED
        BY <1>5, <2>1, <2>5, <4>2 DEF Left
    <3>2. todo' > 0
      BY <1>1, <1>4, <2>7
    <3>3. Place'
      BY <1>5, <2>7, <3>1, <3>2 DEF Place
    <3> QED
      BY <1>1, <1>4, <1>5, <2>7, <3>3 DEF ChunkInv
  <2> QED
    BY <1>3, <2>6, <2>7
<1>7. CASE feof /\ (ret.text = <<>> \/ Lost)
  <2>1. CASE pc' = "out"
    BY <1>1, <1>2, <1>4, <1>7, <2>1, BodyEnds
  <2>2. CASE todo' \in 1 .. MaxChunk /\ pc' = "askdata" /\ UNCHANGED done
    <3>1. ret.text # <<>>
      BY <1>1, <2>2 DEF ValueOf
    <3>2. todo' > 0
      BY <1>1, <1>4, <2>2
    <3>3. Place'
      BY <1>5, <1>7, <2>2, <3>1, <3>2 DEF Place
    <3> QED
      BY <1>1, <1>4, <1>5, <2>2, <3>3 DEF ChunkInv
  <2> QED
    BY <1>3, <2>1, <2>2
<1> QED
  BY <1>2, <1>6, <1>7

LEMMA DataTaken == ASSUME ChunkInv, StreamInv, TakeData PROVE ChunkInv'
<1>1. UNCHANGED fileVars /\ pc = "data" /\ call.op = "none" /\ ret.kind # "eof" /\ content \in Responses
  BY DEF TakeData, Answered, ChunkInv
<1>2. Idle /\ DataRead
  BY <1>1 DEF ChunkInv, Place, AtLine
<1>3. CASE ret.text = <<>>
  <2>1. pc' = "out" /\ done' = "false" /\ UNCHANGED <<into, todo>>
    BY <1>3 DEF TakeData, Finish
  <2> QED
    BY <1>1, <1>2, <2>1, BodyEnds DEF ChunkInv
<1>4. CASE ret.text # <<>>
  <2>1. into' = into \o ret.text /\ todo' = todo - Len(ret.text) /\ pc' = AfterData(todo') /\ UNCHANGED done
    BY <1>4 DEF TakeData
  <2>0. ret.text \in Seq(Bytes) /\ Len(ret.text) \in Nat /\ todo \in Nat /\ Len(into) \in Nat /\ Len(ret.text) <= todo
    BY <1>2 DEF DataRead, ChunkInv
  <2>12. PICK t \in Seq(Bytes), n \in Nat, k \in Nat, b \in Nat :
            t = ret.text /\ n = Len(t) /\ k = todo /\ b = Len(into) /\ n <= k
    BY ONLY <2>0
  <2>13. PICK q \in Nat : Len(out) = q + n /\ Left(q, k) /\ \A i \in 1 .. n : t[i] = content[q + i]
    BY <1>2, <2>12 DEF DataRead
  <2>2. /\ t = ret.text /\ n = Len(t) /\ k = todo /\ b = Len(into) /\ n <= k /\ Len(out) = q + n /\ Left(q, k)
        /\ \A i \in 1 .. n : t[i] = content[q + i]
    BY ONLY <2>12, <2>13
  <2>3. /\ q + k + 2 <= Len(content) /\ content[q + k + 1] = "cr" /\ content[q + k + 2] = "lf"
        /\ b + k <= Len(Body) /\ \A i \in 1 .. k : Body[b + i] = content[q + i]
        /\ q + k + 2 \in DOMAIN Starts /\ Starts[q + k + 2] = b + k
        /\ Len(content) \in Nat /\ Len(Body) \in Nat
    BY <1>1, <2>2, ResponseIs DEF Left
  <2>4. /\ Body' = Body /\ Starts' = Starts /\ (Gone => Gone') /\ feof' = feof /\ content' = content /\ out' = out /\ Idle'
    BY <1>1, <1>2 DEF fileVars, Body, Starts, Gone, Idle
  <2>5. feof => Gone
    <3>1. q + n # Len(content)
      BY <2>2, <2>3
    <3> QED
      BY <2>2, <3>1 DEF ChunkInv, AtEnd
  <2>6. /\ into' \in Seq(Bytes) /\ Len(into') = b + n
        /\ \A i \in 1 .. b : into'[i] = into[i]
        /\ \A i \in 1 .. n : into'[b + i] = t[i]
    <3>1. into \in Seq(Bytes) /\ into' = into \o t /\ Len(into) = b /\ Len(t) = n
      BY <2>1, <2>2 DEF ChunkInv
    <3>2. /\ into \o t \in Seq(Bytes) /\ Len(into \o t) = Len(into) + Len(t)
          /\ \A i \in 1 .. Len(into) : (into \o t)[i] = into[i]
          /\ \A i \in 1 .. Len(t) : (into \o t)[Len(into) + i] = t[i]
      <4>1. into \in Seq(Bytes) /\ t \in Seq(Bytes)
        BY <3>1
      <4> QED
        BY ONLY <4>1, Joined
    <3> QED
      BY ONLY <3>1, <3>2
  <2>7. ASSUME NEW i \in 1 .. b + n PROVE into'[i] = Body[i]
    <3>1. i \in 1 .. b \/ (i - b \in 1 .. n /\ i - b \in 1 .. k /\ b + (i - b) = i)
      BY <2>2
    <3>2. CASE i \in 1 .. b
      BY <2>2, <2>6, <3>2 DEF ChunkInv
    <3>3. CASE i - b \in 1 .. n /\ i - b \in 1 .. k /\ b + (i - b) = i
      <4>1. into'[b + (i - b)] = content[q + (i - b)] /\ Body[b + (i - b)] = content[q + (i - b)]
        BY <2>2, <2>3, <2>6, <3>3
      <4> QED
        BY <3>3, <4>1
    <3> QED
      BY <3>1, <3>2, <3>3
  <2>8. Left(q + n, k - n)'
    <3>1. /\ q + n \in Nat /\ k - n \in Nat /\ (q + n) + (k - n) + 2 = q + k + 2 /\ (q + n) + (k - n) + 1 = q + k + 1
          /\ (b + n) + (k - n) = b + k
      <4>1. n <= k
        BY <2>2
      <4> QED
        BY ONLY <4>1, q \in Nat, n \in Nat, k \in Nat, b \in Nat
    <3>2. ASSUME NEW i \in 1 .. k - n PROVE Body[(b + n) + i] = content[(q + n) + i]
      <4>1. n + i \in 1 .. k /\ (b + n) + i = b + (n + i) /\ (q + n) + i = q + (n + i)
        BY <2>2
      <4> QED
        BY <2>3, <4>1
    <3> QED
      BY <2>3, <2>4, <2>6, <3>1, <3>2 DEF Left
  <2>9. todo' = k - n /\ todo' \in Nat /\ Len(out') = q + n
    BY <2>1, <2>2, <2>4
  <2>10. Place'
    <3>1. CASE k - n > 0
      BY <2>1, <2>4, <2>8, <2>9, <3>1 DEF Place, AfterData
    <3>2. CASE k - n = 0
      BY <2>1, <2>4, <2>8, <2>9, <3>2 DEF Place, AfterData
    <3> QED
      BY <2>9, <3>1, <3>2
  <2>11. b + n <= Len(Body) /\ pc' # "out" /\ done' = "running"
    BY <1>1, <2>1, <2>2, <2>3 DEF AfterData, ChunkInv
  <2> QED
    BY <1>1, <2>4, <2>5, <2>6, <2>7, <2>9, <2>10, <2>11 DEF ChunkInv
<1> QED
  BY <1>3, <1>4

\* With a timeout the calls are well made as well.
Sized == pc \in {"askdata", "data"} => chunksz \in Nat \ {0}

AllInv == StreamInv /\ Sized /\ timed \in BOOLEAN /\ (~ timed => ChunkInv)

LEMMA ChunkStarts == ASSUME ChunkInit PROVE AllInv
<1>1. StreamInv /\ pc = "ask" /\ timed \in BOOLEAN /\ content \in Responses /\ Idle /\ feof = FALSE
  BY StreamStarts DEF ChunkInit, FileInit, Idle
<1>2. out = <<>> /\ into = <<>> /\ todo = 0 /\ done = "running"
  BY DEF ChunkInit, FileInit
<1>3. AtChunk
  BY <1>1, <1>2, ResponseIs DEF AtChunk
<1>4. into \in Seq(Bytes) /\ Len(into) = 0 /\ Len(into) <= Len(Body)
  <2>1. <<>> \in Seq(Bytes)
    OBVIOUS
  <2> QED
    BY <1>1, <1>2, <2>1, ResponseIs
<1>5. ChunkInv
  BY <1>1, <1>2, <1>3, <1>4 DEF ChunkInv, Place
<1> QED
  BY <1>1, <1>5 DEF AllInv, Sized

LEMMA SizedKept == ASSUME Sized, [ChunkNext]_allVars PROVE Sized'
<1>1. MaxChunk \in Nat
  BY ResponsesAssumption
<1>2. CASE TakeSize
  BY <1>1, <1>2 DEF TakeSize, Finish, Sized
<1>3. CASE TakeData
  BY <1>3 DEF TakeData, Finish, Sized, Answered
<1>4. CASE ~ TakeSize /\ ~ TakeData
  BY <1>4 DEF ChunkNext, allVars, chunkVars, AskLine, AskData, Ask, HungUp, TimedOut, TakeTail, Finish, Sized
<1> QED
  BY <1>2, <1>3, <1>4

LEMMA StreamInvStays == ASSUME StreamInv, UNCHANGED fileVars PROVE StreamInv'
BY DEF fileVars, StreamInv, StreamTypes, Kept, SelectAgain, LinesWhole, EofIsEnd, LinesFit

LEMMA ChunkKeeps == ASSUME AllInv, [ChunkNext]_allVars PROVE AllInv'
<1> USE DEF AllInv
<1>1. Sized' /\ timed' = timed
  BY SizedKept DEF ChunkNext, allVars, chunkVars, AskLine, AskData, Ask, HungUp, TimedOut, TakeSize, TakeData, TakeTail
<1>2. CASE (Send \/ Leave \/ Step) /\ UNCHANGED chunkVars
  BY <1>1, <1>2, PeerKeeps, StepEffect, EffectKeeps, PeerStep, MethodStep
<1>3. CASE AskLine
  <2>1. WellMade(LineCall) /\ Begin(LineCall)
    BY <1>3, ResponsesAssumption DEF WellMade, LineCall, Call, Methods, AskLine, Ask
  <2> QED
    BY <1>1, <1>3, <2>1, BeginKeeps, LineBegins
<1>4. CASE AskData
  <2>1. Begin(DataCall)
    BY <1>4 DEF AskData, Ask
  <2>2. CASE timed
    <3>1. WellMade(DataCall)
      BY <1>4, <2>2 DEF WellMade, DataCall, Call, Methods, AskData, Sized
    <3> QED
      BY <1>1, <2>1, <2>2, <3>1, BeginKeeps
  <2>3. CASE ~ timed
    BY <1>1, <1>4, <2>1, <2>3, BeginKeeps, DataBegins
  <2> QED
    BY <2>2, <2>3
<1>5. CASE HungUp \/ TimedOut \/ TakeSize \/ TakeData \/ TakeTail
  <2>1. StreamInv'
    BY <1>5, StreamInvStays DEF HungUp, TimedOut, TakeSize, TakeData, TakeTail
  <2> QED
    BY <1>1, <1>5, <2>1, AnswerEnds, SizeTaken, DataTaken, TailTaken
<1>6. CASE UNCHANGED allVars
  <2>1. StreamInv'
    BY <1>6, StreamInvStays DEF allVars
  <2>2. ChunkInv => ChunkInv'
    BY <1>6 DEF allVars, fileVars, chunkVars, ChunkInv, Place, Idle, AtLine, AtChunk, AtEnd, Left, SizeRead, DataRead,
                Lost, Gone, Body, Starts
  <2> QED
    BY <1>1, <2>1, <2>2
<1> QED
  BY <1>2, <1>3, <1>4, <1>5, <1>6 DEF ChunkNext

LEMMA BodyExact == ASSUME AllInv PROVE BlockingExact
<1> SUFFICES ASSUME ~ timed PROVE ChunkedComplete /\ into = SubSeq(BodyOf[content], 1, Len(into))
  BY DEF BlockingExact
<1>1. /\ into \in Seq(Bytes) /\ Body \in Seq(Bytes) /\ Len(into) \in Nat /\ Len(into) <= Len(Body)
      /\ \A i \in 1 .. Len(into) : into[i] = Body[i]
  BY ResponseIs DEF AllInv, ChunkInv
<1>2. into = SubSeq(Body, 1, Len(into))
  <2>1. PICK k \in Nat : k = Len(into) /\ 0 + k <= Len(Body)
    BY <1>1, ResponseIs DEF AllInv, ChunkInv
  <2>2. /\ SubSeq(Body, 0 + 1, 0 + k) \in Seq(Bytes) /\ Len(SubSeq(Body, 0 + 1, 0 + k)) = k
        /\ \A i \in 1 .. k : SubSeq(Body, 0 + 1, 0 + k)[i] = Body[0 + i]
    BY <1>1, <2>1, Piece
  <2>3. 0 + 1 = 1 /\ 0 + k = k /\ \A i \in 1 .. k : 0 + i = i
    OBVIOUS
  <2>4. PICK s \in Seq(Bytes) : s = SubSeq(Body, 1, k) /\ Len(s) = k /\ \A i \in 1 .. k : s[i] = Body[i]
    BY <2>2, <2>3
  <2>5. into = s
    BY <1>1, <2>1, <2>4, SeqEqual
  <2> QED
    BY <2>1, <2>4, <2>5
<1>3. Len(into) = Len(Body) => into = Body
  BY <1>1, SeqEqual
<1>4. done = "true" => Gone \/ Len(into) = Len(Body)
  BY DEF AllInv, ChunkInv, Place, AtLine
<1>5. ChunkedComplete
  BY <1>3, <1>4 DEF ChunkedComplete, Whole, Gone, Body
<1> QED
  BY <1>2, <1>5 DEF Body

\* A client of the library that sets no timeout gets the whole body of a chunked response, and never
\* anything else; with a timeout the lines and blocks it is built from are still exact.
THEOREM BodyIsExact == ChunkSpec => []ReadAsSent
<1>1. ChunkInit => AllInv
  BY ChunkStarts
<1>2. AllInv /\ [ChunkNext]_allVars => AllInv'
  BY ChunkKeeps
<1>3. AllInv => ReadAsSent
  BY HeldIs, BodyExact DEF AllInv, StreamInv, StreamExact, ReadAsSent
<1> QED
  BY <1>1, <1>2, <1>3, PTL DEF ChunkSpec
=============================================================================
