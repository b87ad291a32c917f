----------------------------- MODULE StrBlocks ------------------------------
(***************************************************************************)
(* The class string (str.h, str.cpp): a string is a window, offs and size, *)
(* on a block that counts how many others have it. A copy made on the      *)
(* thread that made the block shares it, any other copies the text; who    *)
(* writes to a shared block takes a copy first. A method is one step: the  *)
(* counts have no lock, and the threads here use the strings in turn. The  *)
(* strings are shorter than the smallest block.                            *)
(***************************************************************************)
EXTENDS Integers, Sequences, FiniteSets

CONSTANTS
    Strings,       \* string objects
    Planets,       \* threads
    Letters,       \* " " is white space, the others are not
    Texts,         \* what the first string is made of
    MaxText,       \* bound on the length of a string
    MaxCalls,      \* bound on the calls of methods
    CropCopyLimit, \* tune::str::cropcopylimit
    Fronts,        \* bound on offs where crop copies: see crop
    Lengths,       \* arguments of crop and pad
    Pieces         \* arguments of mid, <<pos, sz>>

ASSUME TextAssumption == MaxText \in Nat /\ MaxCalls \in Nat /\ CropCopyLimit \in Nat

VARIABLES
    blocks,        \* the refblocks by address
    strings,       \* [data, offs, size] of each string
    means,         \* what the text of each should be
    calls          \* so far

strVars == <<blocks, strings, means, calls>>

Nobody == "nobody"
Freed == [refcount |-> 0, threadref |-> Nobody, v |-> <<>>]
Where == 1 .. Cardinality(Strings) + 2
NoBlock == 0
Temp == "temp"       \* the object a method returns, until it is assigned
EmptyString == [data |-> NoBlock, offs |-> 0, size |-> 0]

(***************************************************************************)
(* The heap of one step: [b |-> blocks, s |-> strings and Temp].           *)
(***************************************************************************)
Block(h, x) == h.b[h.s[x].data]
Shared(h, x) == h.s[x].data # NoBlock /\ Block(h, x).refcount > 0

\* What the window shows, and it with the character behind it.
Shown(h, x) ==
    IF h.s[x].data = NoBlock THEN <<>>
    ELSE SubSeq(Block(h, x).v, h.s[x].offs + 1, h.s[x].offs + h.s[x].size)
TextAndNext(h, x) ==
    SubSeq(Block(h, x).v, h.s[x].offs + 1, h.s[x].offs + h.s[x].size + 1)

Window(h, x, offs, size) == [h EXCEPT !.s[x].offs = offs, !.s[x].size = size]

\* crop (), and the destructor.
Release(h, x) ==
    IF h.s[x].data = NoBlock THEN h
    ELSE [h EXCEPT !.s[x] = EmptyString,
                   !.b[h.s[x].data] = IF Shared(h, x) THEN [@ EXCEPT !.refcount = @ - 1]
                                      ELSE Freed]

\* A block of its own.
Fresh(h) == CHOOSE a \in Where : h.b[a] = Freed
Allocate(h, x, t, v, size) ==
    [h EXCEPT !.b[Fresh(h)] = [refcount |-> 0, threadref |-> t, v |-> v],
              !.s[x] = [data |-> Fresh(h), offs |-> 0, size |-> size]]

\* MUTANT: the count of the old block stays.
OwnUncounted(h, x, t) ==
    IF Shared(h, x) THEN Allocate(h, x, t, Shown(h, x) \o <<"nul">>, h.s[x].size) ELSE h
\* docopyonwrite.
Own(h, x, t) ==
    IF Shared(h, x)
    THEN Allocate(Release(h, x), x, t, Shown(h, x) \o <<"nul">>, h.s[x].size)
    ELSE h

\* memmove to data->v + offs + at, in a block that is not shared.
Over(v, at, text) ==
    [i \in 1 .. (IF at + Len(text) > Len(v) THEN at + Len(text) ELSE Len(v)) |->
        IF i \in at + 1 .. at + Len(text) THEN text[i - at] ELSE v[i]]
Put(h, x, at, text) ==
    [h EXCEPT !.b[h.s[x].data].v = Over(@, h.s[x].offs + at, text)]

\* What the window is to show, and the 0 behind it.
Rewrite(h, x, text) == Window(Put(h, x, 0, text \o <<"nul">>), x, h.s[x].offs, Len(text))

\* str (): the text is to end with a 0.
Terminated(h, x, t) ==
    IF h.s[x].data = NoBlock \/ TextAndNext(h, x)[h.s[x].size + 1] = "nul" THEN h
    ELSE LET o == Own(h, x, t) IN Put(o, x, h.s[x].size, <<"nul">>)

(***************************************************************************)
(* Copies                                                                  *)
(***************************************************************************)
Share(h, x, y) == [h EXCEPT !.s[x] = h.s[y], !.b[h.s[y].data].refcount = @ + 1]

\* strclone
Clone(h, x, y, t) ==
    IF h.s[y].data = NoBlock THEN Release(h, x)
    ELSE Allocate(Release(h, x), x, t, TextAndNext(h, y), h.s[y].size)

\* string (const string &)
CopyOf(h, x, y, t) ==
    IF h.s[y].size = 0 THEN h
    ELSE IF Block(h, y).threadref # t THEN Clone(h, x, y, t) ELSE Share(h, x, y)

\* strcpy (const string &): the thread of a string that has a block is the one
\* that made the block.
Assign(h, x, y, t) ==
    LET mine == h.s[x].data
        me == IF mine # NoBlock THEN h.b[mine].threadref ELSE t
    IN  IF mine # NoBlock /\ mine = h.s[y].data
        THEN Window(h, x, h.s[y].offs, h.s[y].size)
        ELSE IF h.s[y].data = NoBlock THEN Release(h, x)
        ELSE IF Block(h, y).threadref # me THEN Clone(h, x, y, t)
        ELSE Share(Release(h, x), x, y)

\* operator= (string *), of what a method returned.
Take(h, y, t) == Release(Assign(h, y, Temp, t), Temp)

\* strcpy (const char *)
Literal(h, x, t, text) ==
    IF text = <<>> THEN Release(h, x)
    ELSE IF h.s[x].data = NoBlock \/ Shared(h, x)
    THEN Allocate(Release(h, x), x, t, text \o <<"nul">>, Len(text))
    ELSE Rewrite(Window(h, x, 0, 0), x, text)

(***************************************************************************)
(* Text                                                                    *)
(***************************************************************************)
\* strcat and insert, of a character and of the text of another string.
Cat(h, x, t, text) ==
    IF h.s[x].data = NoBlock THEN Literal(h, x, t, text)
    ELSE Rewrite(Own(h, x, t), x, Shown(h, x) \o text)
CatString(h, x, y, t) ==
    IF h.s[x].data = NoBlock THEN Assign(h, x, y, t)
    ELSE Cat(Terminated(Own(h, x, t), y, t), x, t, Shown(h, y))
Insert(h, x, y, t) ==
    IF h.s[x].data = NoBlock THEN Assign(h, x, y, t)
    ELSE Rewrite(Terminated(Own(h, x, t), y, t), x, Shown(h, y) \o Shown(h, x))

\* crop (n): by moving the window, or if much goes by a copy of the whole block,
\* whose text is then moved as if the window were at its start.
Crop(h, x, n, t) ==
    LET s == h.s[x]
        keep == IF n < 0 THEN -n ELSE n
        front == IF n < 0 THEN s.size - keep ELSE 0
        v == Block(h, x).v
        o == IF Shared(h, x) THEN Window(Allocate(Release(h, x), x, t, v, s.size), x, s.offs, s.size)
             ELSE h
    IN  IF n = 0 THEN Release(h, x)
        ELSE IF s.data = NoBlock \/ s.size <= keep THEN h
        ELSE IF s.size - keep < CropCopyLimit THEN Window(h, x, s.offs + front, keep)
        ELSE LET m == [o EXCEPT !.b[o.s[x].data].v = Over(@, 0, SubSeq(v, front + 1, front + keep))]
             IN  Put(Window(IF n < 0 THEN m ELSE o, x, s.offs, keep), x, keep, <<"nul">>)

Filler(n, c) == [i \in 1 .. n |-> c]
Pad(h, x, n, c, t) ==
    LET g == IF h.s[x].data = NoBlock THEN Literal(h, x, t, <<c>>) ELSE h
        size == g.s[x].size
        length == IF n < 0 THEN -n ELSE n
    IN  IF length < size THEN Crop(g, x, n, t)
        ELSE Rewrite(Own(g, x, t), x, IF n < 0 THEN Filler(length - size, c) \o Shown(g, x)
                                      ELSE Shown(g, x) \o Filler(length - size, c))

\* mid, into Temp.
Mid(h, x, pos, psz, t) ==
    LET s == h.s[x]
        sz == IF psz = 0 \/ pos + psz > s.size THEN s.size - pos ELSE psz
    IN  IF s.data = NoBlock \/ pos > s.size THEN h
        ELSE IF Block(h, x).threadref # t
        THEN Allocate(h, Temp, t, SubSeq(Shown(h, x), pos + 1, pos + sz) \o <<"nul">>, sz)
        ELSE Window(Share(h, Temp, x), Temp, s.offs + pos, sz)
Left(h, x, sz, t) == IF sz = 0 THEN h ELSE Mid(h, x, 0, sz, t)

\* strchr
Positions(text, c) == {i \in DOMAIN text : text[i] = c}
First(text, c) == CHOOSE i \in Positions(text, c) : \A j \in Positions(text, c) : i <= j

\* cutat: Temp is what was before the character; the window moves behind it.
CutAt(h, x, c, t) ==
    LET at == First(Shown(h, x), c)  cut == Left(h, x, at - 1, t) IN
    IF Positions(Shown(h, x), c) = {} THEN h
    ELSE IF at >= h.s[x].size THEN Release(cut, x)
    ELSE Window(cut, x, h.s[x].offs + at, h.s[x].size - at)

\* cutafter: Temp is what was behind the character; the window ends before it.
CutAfter(h, x, c, t) ==
    LET at == First(Shown(h, x), c) IN
    IF Positions(Shown(h, x), c) = {} THEN h
    ELSE Window(Mid(h, x, at, 0, t), x, h.s[x].offs, at - 1)

\* chomp (): white space at either end.
Black(text) == {i \in DOMAIN text : text[i] # " "}
Bare(text) == IF Black(text) = {} THEN <<>>
              ELSE LET S == Black(text)
                       l == CHOOSE i \in S : \A j \in S : i <= j
                       r == CHOOSE i \in S : \A j \in S : i >= j
                   IN  SubSeq(text, l, r)
Chomp(h, x) ==
    LET S == Black(Shown(h, x)) IN
    IF h.s[x].size = 0 THEN h
    ELSE IF S = {} THEN Release(h, x)
    ELSE LET l == CHOOSE i \in S : \A j \in S : i <= j
         IN  Window(h, x, h.s[x].offs + l - 1, Len(Bare(Shown(h, x))))

\* replace (set, with), ctolower, ctoupper: in place.
Each(text, c, d) == [i \in DOMAIN text |-> IF text[i] = c THEN d ELSE text[i]]
Replace(h, x, c, d, t) ==
    IF h.s[x].data = NoBlock THEN h
    ELSE Put(Own(h, x, t), x, 0, Each(Shown(h, x), c, d))

\* flush: a block of its own is kept.
Flush(h, x) ==
    IF h.s[x].data = NoBlock \/ Shared(h, x) THEN Release(h, x)
    ELSE [Window(h, x, h.s[x].offs, 0) EXCEPT !.b[h.s[x].data].v = Over(@, 0, <<"nul">>)]

(***************************************************************************)
(* The steps, of a thread t.                                               *)
(***************************************************************************)
Here == [b |-> blocks, s |-> [x \in Strings \union {Temp} |->
                                IF x = Temp THEN EmptyString ELSE strings[x]]]

Users(a) == {x \in Strings : strings[x].data = a}

\* MaxText, and the smallest block.
Fits(h, m) == \A x \in Strings : /\ Len(m[x]) <= MaxText
                                 /\ h.s[x].offs + h.s[x].size <= MaxText + 1

Becomes(t, h, m) ==
    /\ calls < MaxCalls /\ Fits(h, m)
    /\ calls' = calls + 1
    /\ blocks' = h.b
    /\ strings' = [x \in Strings |-> h.s[x]]
    /\ means' = m

To(x, text) == [means EXCEPT ![x] = text]

\* One of the strings was made by its thread, or by any.
StrInit ==
    /\ calls = 0
    /\ \E x \in Strings, t \in Planets, text \in Texts :
         LET empty == [b |-> [a \in Where |-> Freed], s |-> [y \in Strings |-> EmptyString]]
             made == Literal(empty, x, t, text)
         IN  /\ blocks = made.b /\ strings = made.s
             /\ means = [y \in Strings |-> IF y = x THEN text ELSE <<>>]

literal(t, x) == \E text \in {<<>>} \union {<<c>> : c \in Letters} :
    Becomes(t, Literal(Here, x, t, text), To(x, text))
copy(t, x, y) == /\ strings[x] = EmptyString
                 /\ Becomes(t, CopyOf(Here, x, y, t), To(x, means[y]))
assign(t, x, y) == Becomes(t, Assign(Here, x, y, t), To(x, means[y]))
strcat(t, x) == \E c \in Letters : Becomes(t, Cat(Here, x, t, <<c>>), To(x, Append(means[x], c)))
strcatString(t, x, y) == Becomes(t, CatString(Here, x, y, t), To(x, means[x] \o means[y]))
insert(t, x, y) == Becomes(t, Insert(Here, x, y, t), To(x, means[y] \o means[x]))

\* "If the string's length exceeds ABS(sz), it is chopped off at the beginning
\* (sz<0) or at the end (sz>0)."
Cropped(text, n) ==
    IF Len(text) <= IF n < 0 THEN -n ELSE n THEN text
    ELSE IF n < 0 THEN SubSeq(text, Len(text) + n + 1, Len(text)) ELSE SubSeq(text, 1, n)
crop(t, x) == \E n \in Lengths :
    /\ n < 0 /\ strings[x].size + n >= CropCopyLimit => strings[x].offs \in Fronts
    /\ Becomes(t, Crop(Here, x, n, t), To(x, Cropped(means[x], n)))

\* "If it is shorter, it is padded", on the left or on the right.
Padded(text, n, c) ==
    LET length == IF n < 0 THEN -n ELSE n IN
    IF length <= Len(text) THEN Cropped(text, n)
    ELSE IF n < 0 THEN Filler(length - Len(text), c) \o text
    ELSE text \o Filler(length - Len(text), c)
pad(t, x) == \E n \in Lengths, c \in Letters :
    /\ n < 0 /\ strings[x].size + n >= CropCopyLimit => strings[x].offs \in Fronts
    /\ Becomes(t, Pad(Here, x, n, c, t), To(x, Padded(means[x], n, c)))

\* y = x.mid (pos, sz), 0 for all, and what is not there is left out.
mid(t, x, y) == \E piece \in Pieces :
    LET pos == piece[1]  sz == piece[2]  size == Len(means[x])
        end == IF sz = 0 \/ pos + sz > size THEN size ELSE pos + sz
    IN  Becomes(t, Take(Mid(Here, x, pos, sz, t), y, t), To(y, SubSeq(means[x], pos + 1, end)))

\* y = x.cutat (c): y gets the left half, x keeps the right half.
cutat(t, x, y) == \E c \in Letters :
    LET text == means[x]  at == First(text, c)
        found == Positions(text, c) # {}
    IN  Becomes(t, Take(CutAt(Here, x, c, t), y, t),
                [means EXCEPT ![y] = IF found THEN SubSeq(text, 1, at - 1) ELSE <<>>,
                              ![x] = IF found THEN SubSeq(text, at + 1, Len(text)) ELSE text])

\* y = x.cutafter (c): y gets the right half, x keeps the left half.
cutafter(t, x, y) == \E c \in Letters :
    LET text == means[x]  at == First(text, c)
        found == Positions(text, c) # {}
    IN  Becomes(t, Take(CutAfter(Here, x, c, t), y, t),
                [means EXCEPT ![y] = IF found THEN SubSeq(text, at + 1, Len(text)) ELSE <<>>,
                              ![x] = IF found THEN SubSeq(text, 1, at - 1) ELSE text])

chomp(t, x) == Becomes(t, Chomp(Here, x), To(x, Bare(means[x])))
replace(t, x) == \E c \in Letters :
    Becomes(t, Replace(Here, x, c, " ", t), To(x, Each(means[x], c, " ")))
flush(t, x) == Becomes(t, Flush(Here, x), To(x, <<>>))
str(t, x) == Becomes(t, Terminated(Here, x, t), means)

One(t, x) == \/ literal(t, x) \/ strcat(t, x) \/ crop(t, x) \/ pad(t, x) \/ chomp(t, x)
             \/ replace(t, x) \/ flush(t, x) \/ str(t, x)
Two(t, x, y) == \/ copy(t, x, y) \/ assign(t, x, y) \/ strcatString(t, x, y) \/ insert(t, x, y)
                \/ cutat(t, x, y) \/ cutafter(t, x, y)

StrNext ==
    \E t \in Planets, x \in Strings :
        One(t, x) \/ \E y \in Strings : mid(t, x, y) \/ (x # y /\ Two(t, x, y))

StrSpec == StrInit /\ [][StrNext]_strVars

-----------------------------------------------------------------------------
StrTypeOK ==
    /\ \A a \in Where : blocks[a].refcount \in Nat /\ blocks[a].threadref \in Planets \union {Nobody}
    /\ \A x \in Strings : strings[x].data \in Where \union {NoBlock}
                          /\ strings[x].offs \in Nat /\ strings[x].size \in Nat

\* However blocks are shared, windowed and rewritten, each string shows the text
\* it would have if every copy had been a real one; a block counts exactly the
\* others that have it, so that it is freed with the last of them; and the window
\* never leaves what was written in the block.
StringsAreValues ==
    /\ \A x \in Strings : Shown(Here, x) = means[x]
    /\ \A a \in Where : IF Users(a) = {} THEN blocks[a] = Freed
                        ELSE blocks[a].refcount + 1 = Cardinality(Users(a))
    /\ \A x \in Strings : strings[x].data # NoBlock =>
           strings[x].offs + strings[x].size < Len(Block(Here, x).v)
=============================================================================
