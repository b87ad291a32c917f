------------------------------- MODULE Serial --------------------------------
(***************************************************************************)
(* The two binary formats of a value, and a text between the one who       *)
(* writes it and the one who reads it.                                     *)
(*                                                                         *)
(* A value is written in one of its formats, the text may lose its end or, *)
(* if it is JSON, get spaces from whoever passes it on, and is read again. *)
(* A JSON text is not cut: of a string without an end the reader looks at  *)
(* what is in memory behind the text, and so do the reader of msgpack at a *)
(* count of two bytes of which one is missing and that of XML when the     *)
(* last character begins a tag. Rows that are missing nobody notices.      *)
(***************************************************************************)
EXTENDS TextFormats

-----------------------------------------------------------------------------
(***************************************************************************)
(* The two binary formats of a value, msgpack (value_msgpack.cpp) and SHoX *)
(* (value_shox.cpp), and the numbers they consist of (binput and binget,   *)
(* str.cpp). A text is a sequence of bytes. The eight bytes of a double    *)
(* are its whole part and seven others.                                    *)
(***************************************************************************)
CONSTANTS
    Code,          \* the byte of each letter
    Builtin        \* what the inner types are numbered

ASSUME CodeAssumption == \A a, b \in DOMAIN Code : Code[a] = Code[b] => a = b

Bytes(s) == EachKid(s, LAMBDA c : Code[c])
LettersOf(bytes) ==
    EachKid(bytes, LAMBDA b : IF \E c \in DOMAIN Code : Code[c] = b
                              THEN CHOOSE c \in DOMAIN Code : Code[c] = b ELSE "?")

\* binput16u, binput32 and binputieee; numbers of less than two bytes.
Put16(n) == <<n \div 256, n % 256>>
Put32(n) == LET high == IF n < 0 THEN 255 ELSE 0 IN <<high, high>> \o Put16(n % 65536)
PutDouble(n) == <<64, 8, 0, 0, 0, 0, 0>> \o <<n>>

\* binget: the place behind the number, 0 when the text ends before.
Reaches(text, i, n) == i # 0 /\ i + n - 1 <= Len(text)
Behind(text, i, n) == IF Reaches(text, i, n) THEN i + n ELSE 0
Byte(text, i) == IF Reaches(text, i, 1) THEN text[i] ELSE 0
Get16(text, i) == IF Reaches(text, i, 2) THEN 256 * text[i] + text[i + 1] ELSE 0
Get32(text, i) ==
    IF Reaches(text, i, 4)
    THEN 16777216 * (IF text[i] > 127 THEN text[i] - 256 ELSE text[i]) + 65536 * text[i + 1] + Get16(text, i + 2)
    ELSE 0
\* mid: no more than there is, and all that there is when the size is 0.
MidOf(text, i, n) == SubSeq(text, i, IF n # 0 /\ i + n - 1 <= Len(text) THEN i + n - 1 ELSE Len(text))

-----------------------------------------------------------------------------
(* msgpack *)

\* MUTANT: the size that does not fit the opcode any more.
PackSizeLast(n, fix, most, wide) == IF n <= most THEN <<fix + n>> ELSE <<wide>> \o Put16(n)
PackSize(n, fix, most, wide) == IF n < most THEN <<fix + n>> ELSE <<wide>> \o Put16(n)
PackString(s) == PackSize(Len(s), 160, 32, 218) \o Bytes(s)
PackData(data) ==
    CASE data.type = "int" -> IF data.num \in 0 .. 127 THEN <<data.num>>
                              ELSE IF data.num \in -32 .. -1 THEN <<(224 - data.num) % 256>>
                              ELSE Put32(data.num)
      [] data.type = "unsigned" -> IF data.num < 128 THEN <<data.num>>
                                   ELSE IF data.num < 256 THEN <<204, data.num>>
                                   ELSE <<205>> \o Put16(data.num)
      [] data.type = "double" -> <<203>> \o PutDouble(data.num)
      [] data.type = "bool" -> <<IF data.num = 1 THEN 195 ELSE 194>>
      [] data.type \in {"string", "ip", "currency"} -> PackString(sval(data))
      [] OTHER -> <<192>>

RECURSIVE ToMsgpack(_)
ToMsgpack(node) ==
    LET n == Len(node.kids) IN
    IF n = 0 THEN PackData(node.data)
    ELSE IF HasNames(node.kids)
         THEN PackSize(n, 128, 16, 222)
              \o Joined(EachKid(node.kids, LAMBDA k : PackString(k.name) \o ToMsgpack(k)))
         ELSE PackSize(n, 144, 16, 220) \o Joined(EachKid(node.kids, ToMsgpack))

\* The data behind an opcode that is no array and no map.
Unpacked(text, i) ==
    LET op == Byte(text, i)
        letters(k, n) == [at |-> k + n, data |-> StringData(LettersOf(MidOf(text, k, n)))]
        number(k, data) == [at |-> k, data |-> data] IN
    CASE op < 128 -> number(i + 1, IntData(op))
      [] op >= 224 -> number(i + 1, IntData(op - 256))
      [] op \in 160 .. 191 -> letters(i + 1, op - 160)
      [] op \in {194, 195} -> number(i + 1, BoolData(op - 194))
      [] op = 203 -> number(Behind(text, i + 1, 8), DoubleData(Byte(text, i + 8)))
      [] op = 204 -> number(Behind(text, i + 1, 1), IntData(Byte(text, i + 1)))
      [] op = 205 -> number(Behind(text, i + 1, 2), IntData(Get16(text, i + 1)))
      [] op = 218 -> letters(Behind(text, i + 1, 2), Get16(text, i + 1))
      [] OTHER -> number(i + 1, Unset)

RECURSIVE FromMsgpack(_, _, _)
RECURSIVE UnpackKids(_, _, _, _, _)
\* The loop over the elements of an array or a map: it stops at the first that
\* does not succeed. The name of an element is a value of its own.
UnpackKids(node, text, i, n, named) ==
    LET key == FromMsgpack(NoText, text, i)
        name == IF named THEN key.node.data.str ELSE NoText
        kid == FromMsgpack(name, text, IF named THEN key.at ELSE i) IN
    IF n = 0 THEN Got(i, node)
    ELSE IF named /\ key.at = 0 THEN Got(0, node)
    ELSE IF kid.at = 0 THEN Got(0, WithKid(node, kid.node))
    ELSE UnpackKids(WithKid(node, kid.node), text, kid.at, n - 1, named)

\* MUTANT: the end of the text is not looked at.
WithinAny(got, text) == got
\* Nothing was taken from behind the end of the text.
Within(got, text) == IF got.at > Len(text) + 1 THEN Got(0, got.node) ELSE got

FromMsgpack(name, text, i) ==
    LET op == Byte(text, i)
        d == Unpacked(text, i)
        array(k, n) == UnpackKids(Blank(name), text, k, n, FALSE)
        map(k, n) == UnpackKids(Blank(name), text, k, n, TRUE)
        got == CASE op \in 144 .. 159 -> array(i + 1, op - 144)
                 [] op \in 128 .. 143 -> map(i + 1, op - 128)
                 [] op = 220 -> array(Behind(text, i + 1, 2), Get16(text, i + 1))
                 [] op = 222 -> map(Behind(text, i + 1, 2), Get16(text, i + 1))
                 [] OTHER -> Got(d.at, Node(name, d.data, <<>>)) IN
    IF Reaches(text, i, 1) THEN Within(got, text) ELSE Got(0, Blank(name))

-----------------------------------------------------------------------------
(* SHoX *)

\* binputvint of less than a quarter of a byte, and binputvstr.
PutString(s) == <<Len(s)>> \o Bytes(s)
\* bingetvint takes the zero behind the text for a number.
Vint(text, i) == [at |-> IF i # 0 /\ i <= Len(text) + 1 THEN i + 1 ELSE 0, num |-> Byte(text, i)]
Vstr(text, i) ==
    LET n == Vint(text, i) IN
    IF n.at # 0 /\ n.at + n.num - 1 <= Len(text)
    THEN [at |-> n.at + n.num, str |-> LettersOf(SubSeq(text, n.at, n.at + n.num - 1))] ELSE [at |-> 0, str |-> NoText]

TypeCode(type) == CHOOSE n \in DOMAIN Builtin : Builtin[n] = type
PutData(data) ==
    CASE data.type \in {"int", "unsigned"} -> Put32(data.num)
      [] data.type = "double" -> PutDouble(data.num)
      [] data.type = "bool" -> <<IF data.num = 1 THEN 255 ELSE 0>>
      [] data.type = "string" -> PutString(data.str)
      [] data.type = "ip" -> <<127, 0, 0, data.num>>
      [] OTHER -> <<>>

\* The strings of the dictionary, in the order in which they are first printed:
\* name, class, attributes, children.
RECURSIVE ShoxNames(_)
ShoxNames(node) ==
    SelectSeq(<<node.name, node.class>>, LAMBDA s : s # NoText)
    \o Joined(EachKid(node.attr \o node.kids, ShoxNames))
ShoxDict(node) == FoldLeft(LAMBDA d, s : IF s \in ToSet(d) THEN d ELSE Append(d, s), <<>>, ShoxNames(node))
DictKey(dict, name) == IF name = NoText THEN 0 ELSE CHOOSE i \in DOMAIN dict : dict[i] = name

ShoxType(node) ==
    (IF node.class # NoText THEN 128 ELSE 0) + (IF node.attr # <<>> THEN 64 ELSE 0)
    + (IF node.kids # <<>> THEN 32 ELSE 0) + TypeCode(node.data.type)

RECURSIVE PrintShox(_, _)
PrintShox(node, dict) ==
    LET all(kids) == IF kids = <<>> THEN <<>>
                     ELSE <<Len(kids)>> \o Joined(EachKid(kids, LAMBDA k : PrintShox(k, dict))) IN
    <<DictKey(dict, node.name), ShoxType(node)>>
    \o (IF node.class # NoText THEN <<DictKey(dict, node.class)>> ELSE <<>>)
    \o all(node.attr)
    \o (IF node.kids # <<>> THEN all(node.kids) ELSE PutData(node.data))

Magic == <<83, 72, 111, 88>>
ToShox(node) ==
    LET dict == ShoxDict(node) IN
    Magic \o <<1, 1, 1, 1>> \o <<Len(dict)>> \o Joined(EachKid(dict, PutString)) \o PrintShox(node, dict)

\* The data of a value without children: [at, data, ok]. An address that does not
\* fit is refused without the cursor showing it.
ShoxData(text, i, type) ==
    LET got(n, data) == [at |-> Behind(text, i, n), data |-> IF Reaches(text, i, n) THEN data ELSE Unset,
                         ok |-> Reaches(text, i, n)]
        s == Vstr(text, i) IN
    CASE type \in {"int", "unsigned"} -> got(4, Data(type, Get32(text, i), NoText))
      [] type = "double" -> got(8, DoubleData(Byte(text, i + 7)))
      [] type = "bool" -> got(1, BoolData(IF Byte(text, i) = 0 THEN 0 ELSE 1))
      [] type = "string" -> [at |-> s.at, data |-> IF s.at = 0 THEN Unset ELSE StringData(s.str), ok |-> s.at # 0]
      [] type = "ip" -> [got(4, Data(type, Byte(text, i + 3), NoText)) EXCEPT !.at = IF @ = 0 THEN i ELSE @]
      [] OTHER -> [at |-> i, data |-> Data(type, 0, NoText), ok |-> TRUE]

DictName(dict, key) == IF key \in DOMAIN dict THEN dict[key] ELSE NoText

RECURSIVE ReadShox(_, _, _, _)
RECURSIVE ReadShoxKids(_, _, _, _, _)
\* The children or attributes: whether the reading of one succeeds is not looked
\* at, only the cursor.
ReadShoxKids(dict, text, i, n, kids) ==
    LET key == Vint(text, i)
        kid == ReadShox(dict, text, key.at, Blank(DictName(dict, key.num))) IN
    IF n = 0 THEN [at |-> i, kids |-> kids]
    ELSE IF key.at = 0 THEN [at |-> 0, kids |-> kids]
    ELSE IF kid.at = 0 THEN [at |-> 0, kids |-> WithOne(kids, kid.node)]
    ELSE ReadShoxKids(dict, text, kid.at, n - 1, WithOne(kids, kid.node))

ReadShox(dict, text, i, node) ==
    LET dtype == Byte(text, i)
        class == Vint(text, i + 1)
        attrs == IF dtype > 127 THEN class.at ELSE i + 1
        hasattr == (dtype \div 64) % 2 = 1
        attr == ReadShoxKids(dict, text, Vint(text, attrs).at, Vint(text, attrs).num, <<>>)
        counts == IF hasattr THEN attr.at ELSE attrs
        kids == ReadShoxKids(dict, text, Vint(text, counts).at, Vint(text, counts).num, <<>>)
        data == ShoxData(text, counts, Builtin[dtype % 32])
        classed == IF dtype > 127 THEN [node EXCEPT !.class = DictName(dict, class.num)] ELSE node
        known == IF hasattr THEN [classed EXCEPT !.attr = attr.kids] ELSE classed
        got(at, ok, new) == [at |-> at, ok |-> ok, node |-> new] IN
    IF ~ Reaches(text, i, 1) THEN got(0, FALSE, node)
    ELSE IF hasattr /\ attr.at = 0 THEN got(0, FALSE, known)
    ELSE IF (dtype \div 32) % 2 = 1
         THEN got(kids.at, kids.at # 0, [known EXCEPT !.kids = kids.kids])
         ELSE got(data.at, data.ok, [known EXCEPT !.data = data.data])

\* The strings of the dictionary.
ShoxStrings(text, i, n) ==
    FoldLeft(LAMBDA got, k : LET s == Vstr(text, got.at) IN [at |-> s.at, dict |-> Append(got.dict, s.str)],
             [at |-> i, dict |-> <<>>], [k \in 1 .. n |-> k])

FromShox(text) ==
    LET n == Vint(text, 9)
        strings == ShoxStrings(text, n.at, n.num)
        root == Vint(text, strings.at)
        none == [at |-> 0, ok |-> FALSE, node |-> Blank(NoText)] IN
    IF Len(text) < 8 \/ SubSeq(text, 1, 4) # Magic \/ n.at = 0 \/ strings.at = 0 \/ root.at = 0 THEN none
    ELSE ReadShox(strings.dict, text, root.at, Blank(NoText))

CONSTANTS
    Trees,         \* the values that are written
    Tables,        \* those that are written as rows
    Formats,
    MaxSpaces,     \* bound on the spaces that are added to a text
    MaxCut         \* bound on the length of a text that is cut

VARIABLES tree, format, text, stage, spaces, whole, got

serialVars == <<tree, format, text, stage, spaces, whole, got>>

(* msgpack writes no opcode before an int that needs more than a byte. *)
RECURSIVE SmallInts(_)
SmallInts(node) == /\ node.data.type = "int" => node.data.num \in -32 .. 127
                   /\ \A i \in DOMAIN node.kids : SmallInts(node.kids[i])

TableFormats == {"csv", "csvfile", "csvbare"}
XmlFormats == {"xml", "xmlcompact"}
Written(f, node) ==
    CASE f = "json" -> EncodeJson(node)
      [] f = "php" -> PrintPhp(node, FALSE)
      [] f = "phpattr" -> PrintPhp(node, TRUE)
      [] f = "msgpack" -> ToMsgpack(node)
      [] f = "shox" -> ToShox(node)
      [] f \in TableFormats -> ToCsv(f = "csvfile", node, f # "csvbare")
      [] f \in XmlFormats -> ToXml(node, f = "xmlcompact")

\* The readers say whether they succeed, but for PHP; SHoX knows where it stopped.
Read(f, t) ==
    LET json == FromJson(t)  pack == FromMsgpack(NoText, t, 1)  shox == FromShox(t)  xml == FromXml(t)
        csv == FromCsv(f = "csvfile", t, f # "csvbare", IF f = "csvbare" THEN NoText ELSE IndexName)
        result(ok, at, node) == [ok |-> ok, at |-> at, node |-> node] IN
    CASE f = "json" -> result(json.at # 0, 0, json.node)
      [] f \in {"php", "phpattr"} -> result(TRUE, 0, FromPhp(t))
      [] f = "msgpack" -> result(pack.at # 0, 0, pack.node)
      [] f = "shox" -> result(shox.ok, shox.at, shox.node)
      [] f \in TableFormats -> result(csv.at # 0, 0, csv.node)
      [] f \in XmlFormats -> result(xml.at # 0, 0, xml.node)

SerialInit ==
    /\ format \in Formats
    /\ tree \in IF format \in TableFormats THEN Tables ELSE Trees
    /\ format = "msgpack" => SmallInts(tree)
    /\ format = "php" => tree.kids # <<>>
    /\ text = <<>> /\ stage = "value" /\ spaces = 0 /\ whole = TRUE
    /\ got = [ok |-> FALSE, at |-> 0, node |-> Blank(NoText)]

Write ==
    /\ stage = "value" /\ stage' = "text" /\ text' = Written(format, tree)
    /\ UNCHANGED <<tree, format, spaces, whole, got>>

\* A space beside a character that structures the text.
Spaced == \E i \in 1 .. Len(text) :
    /\ stage = "text" /\ format = "json" /\ spaces < MaxSpaces
    /\ text[i] \in {"{", "[", ",", ":", "]", "}"}
    /\ \E k \in {i - 1, i} : text' = SubSeq(text, 1, k) \o <<" ">> \o SubSeq(text, k + 1, Len(text))
    /\ spaces' = spaces + 1
    /\ UNCHANGED <<tree, format, stage, whole, got>>

\* The last byte is an opcode with a count of two bytes behind it, or the first of
\* the count.
WithinCount(t) == \E i \in {Len(t) - 1, Len(t)} \ {0} : t[i] \in {218, 220, 222}

LosesEnd == \E n \in 1 .. Len(text) - 1 :
    /\ stage = "text" /\ format \notin TableFormats \union {"json"} /\ whole /\ Len(text) <= MaxCut
    /\ format = "msgpack" => ~ WithinCount(SubSeq(text, 1, n))
    /\ format \in XmlFormats => text[n] # "<"
    /\ text' = SubSeq(text, 1, n) /\ whole' = FALSE
    /\ UNCHANGED <<tree, format, stage, spaces, got>>

ReadBack ==
    /\ stage = "text" /\ stage' = "read" /\ got' = Read(format, text)
    /\ UNCHANGED <<tree, format, text, spaces, whole>>

SerialNext == Write \/ Spaced \/ LosesEnd \/ ReadBack
SerialSpec == SerialInit /\ [][SerialNext]_serialVars

-----------------------------------------------------------------------------
(* What a format has place for. *)

KeptData(f, d) ==
    CASE f = "json" -> IF d.type = "unsigned" THEN IntData(d.num)
                       ELSE IF d.type \in {"int", "double", "bool"} THEN d ELSE StringData(sval(d))
      [] f \in XmlFormats -> IF sval(d) = NoText THEN Unset ELSE d
      [] f \in {"php", "phpattr"} -> IF d.type = "unsigned" THEN IntData(d.num)
                                     ELSE IF d.type \in {"int", "bool"} THEN d ELSE StringData(sval(d))
      [] f = "msgpack" -> IF d.type = "int" /\ d.num < 0
                          THEN IntData(IF d.num = -32 THEN 0 ELSE -32 - d.num)
                          ELSE IF d.type = "unsigned" THEN IntData(d.num)
                          ELSE IF d.type \in {"ip", "currency"} THEN StringData(sval(d)) ELSE d
      [] f = "shox" -> IF d.type = "currency" THEN Data("currency", 0, NoText) ELSE d

\* The rows have a name, if only their number; fromcsv makes the index a column
\* of its own, strings of numbers, and finds every quote twice.
KeptCell(f, d) ==
    IF f = "csvfile" /\ d.type \in {"int", "double"} THEN d
    ELSE StringData(IF f = "csv" /\ WrittenAsText(d) THEN encodecsv(sval(d)) ELSE sval(d))
KeptRow(f, node, r) ==
    LET name == IF node.kids[r].name # NoText THEN node.kids[r].name ELSE <<ToString(r - 1)>>
        columns == [i \in DOMAIN node.kids[r].kids |->
                        Node(ColumnName(node, i), KeptCell(f, node.kids[r].kids[i].data), <<>>)] IN
    [Node(IF f = "csvbare" THEN NoText ELSE name, Unset,
          CASE f = "csv" -> <<Node(IndexName, StringData(name), <<>>)>> \o columns
            [] f = "csvfile" -> columns
            [] OTHER -> <<>>) EXCEPT !.class = RowClass]
KeptTable(f, node) == Node(NoText, Unset, [r \in DOMAIN node.kids |-> KeptRow(f, node, r)])
\* A line end in a column that savecsv writes ends the row for loadcsv, and what
\* savecsv escapes in the name of a row loadcsv takes as it is.
TornRow(row) ==
    \/ EscapeS(row.name) # row.name
    \/ \E i \in DOMAIN row.kids : "\n" \in ToSet(sval(row.kids[i].data))

\* XML has no place for the class of an inner value, for the values of an attribute
\* of the outermost but the first, and for empty ones of an attribute with several.
KeptFirst(attr) == EachKid(attr, LAMBDA a : Node(a.name, StringData(FirstText(a)), <<>>))
KeptAttribute(a) ==
    LET filled == EachKid(FilledKids(a), LAMBDA k : Node(NoText, StringData(sval(k.data)), <<>>)) IN
    IF Len(filled) > 1 THEN Node(a.name, Unset, filled) ELSE Node(a.name, StringData(FirstText(a)), <<>>)
RECURSIVE KeptInner(_)
KeptInner(node) ==
    [node EXCEPT !.class = NoText, !.data = IF node.kids = <<>> THEN KeptData("xml", @) ELSE Unset,
                 !.kids = EachKid(@, KeptInner), !.attr = EachKid(@, KeptAttribute)]

RECURSIVE KeptOf(_, _)
KeptOf(f, node) ==
    IF f \in TableFormats THEN KeptTable(f, node)
    ELSE IF f \in XmlFormats THEN [KeptInner(node) EXCEPT !.class = node.class, !.attr = KeptFirst(node.attr)] ELSE
    [name |-> node.name,
     class |-> IF f = "shox" THEN node.class ELSE NoText,
     data |-> IF node.kids = <<>> THEN KeptData(f, node.data) ELSE Unset,
     kids |-> EachKid(node.kids, LAMBDA k : KeptOf(f, k)),
     attr |-> IF f \in {"shox", "phpattr"} THEN EachKid(node.attr, LAMBDA k : KeptOf(f, k)) ELSE <<>>]

\* Of JSON an array that ends in a fraction is refused, one with a space before
\* its bracket, and what is no array or object at all.
RECURSIVE FractionLast(_)
FractionLast(node) ==
    \/ /\ node.kids # <<>> /\ ~ HasNames(node.kids)
       /\ Last(node.kids).kids = <<>> /\ Last(node.kids).data.type = "double"
    \/ \E i \in DOMAIN node.kids : FractionLast(node.kids[i])
JsonRefuses ==
    \/ tree.kids = <<>> \/ FractionLast(tree)
    \/ \E i \in 1 .. Len(text) - 1 : text[i] = " " /\ text[i + 1] = "]"

SerialTypeOK ==
    /\ stage \in {"value", "text", "read"} /\ whole \in BOOLEAN
    /\ spaces \in 0 .. MaxSpaces /\ got.ok \in BOOLEAN

\* msgpack reads an empty string as all the text behind it.
RECURSIVE LeavesOf(_)
LeavesOf(node) == IF node.kids = <<>> THEN <<node.data>> ELSE Joined(EachKid(node.kids, LeavesOf))
Misread == \/ format = "msgpack" /\ StringData(NoText) \in ToSet(Front(LeavesOf(tree)))
           \/ format = "csvfile" /\ \E r \in DOMAIN tree.kids : TornRow(tree.kids[r])

\* A value that is written and read again is the value that was written, up to
\* what its format has no place for, whatever its strings consist of and however
\* its children nest, also when spaces were put into its JSON; but for what JSON
\* refuses, the empty strings of msgpack and the rows that loadcsv tears apart.
RoundTrips ==
    stage = "read" /\ whole =>
        IF \/ format = "json" /\ JsonRefuses
           \/ format \in XmlFormats /\ tree.kids = <<>>
        THEN ~ got.ok
        ELSE /\ got.ok
             /\ (got.node = KeptOf(format, tree)) = ~ Misread

\* The text was cut before or within the four bytes of an address.
EndsAtAddress ==
    LET full == ToShox(tree) IN
    \E i \in Len(text) - 2 .. Len(text) + 1 : SubSeq(full, i, i + 2) = <<127, 0, 0>>

\* A text that has lost its end is refused, and what was read of serialized PHP,
\* whose reader does not say, or of msgpack until then is part of what was written.
\* Two ends of SHoX are not noticed: at an address, of which the reader leaves the
\* bytes to what comes next, and right before a number of children or attributes
\* or of the dictionary, for which it takes the zero behind the text.
CutTextsRefused ==
    stage = "read" /\ ~ whole =>
        /\ format # "shox" /\ ~ Misread => PartOf(got.node, KeptOf(format, tree))
        /\ format = "msgpack" => ~ got.ok
        /\ format \in XmlFormats /\ got.ok => got.node \in {KeptOf(format, tree), Blank(NoText)}
        /\ format = "shox" /\ got.ok =>
             \/ EndsAtAddress
             \/ got.at = Len(text) + 2 /\ PartOf(got.node, KeptOf(format, tree))
=============================================================================
