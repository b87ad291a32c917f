----------------------------- MODULE TextFormats -----------------------------
(***************************************************************************)
(* The text formats of a value: JSON (value_json.cpp), serialized PHP      *)
(* (value_php.cpp), CSV (value_csv.cpp) and XML (value_xml.cpp).           *)
(*                                                                         *)
(* A value as the serializers see it (value_json.cpp, value_php.cpp,       *)
(* value_msgpack.cpp, value_shox.cpp): its name, the class that is not a   *)
(* built-in one, the data with their inner type, its children and its      *)
(* attributes. Names and strings are sequences of letters. The children of *)
(* one value all have different names, or none; a value that has children  *)
(* has no data that any format would write.                                *)
(***************************************************************************)
EXTENDS Integers, Sequences, FiniteSets, SequencesExt, TLC

CONSTANT Numbers   \* the numbers that are written with digits

NoText == <<>>
Data(type, num, str) == [type |-> type, num |-> num, str |-> str]
Unset == Data("unset", 0, NoText)
IntData(n) == Data("int", n, NoText)
BoolData(n) == Data("bool", n, NoText)
StringData(s) == Data("string", 0, s)
DoubleData(n) == Data("double", n, NoText)      \* n and a half
\* sval: the text of the data, here the last digits of an address or an amount.
sval(data) ==
    CASE data.type = "double" -> <<ToString(data.num) \o ".5">>
      [] data.type = "bool" -> <<IF data.num = 1 THEN "true" ELSE "false">>
      [] data.type \in {"int", "unsigned", "ip", "currency"} -> <<ToString(data.num)>>
      [] OTHER -> data.str

Node(name, data, kids) ==
    [name |-> name, class |-> NoText, data |-> data, kids |-> kids, attr |-> <<>>]
Blank(name) == Node(name, Unset, <<>>)
\* operator=: the data, for the children there were.
Assigned(node, data) == [node EXCEPT !.data = data, !.kids = <<>>]
\* (*this)[name], which adds a child behind the others, and newval, which adds one
\* before those that have a name.
WithOne(kids, kid) ==
    IF kid.name # NoText THEN Append(kids, kid)
    ELSE SelectSeq(kids, LAMBDA k : k.name = NoText) \o <<kid>> \o SelectSeq(kids, LAMBDA k : k.name # NoText)
WithKid(node, kid) == [node EXCEPT !.kids = WithOne(@, kid)]

HasNames(kids) == kids # <<>> /\ kids[1].name # NoText
Joined(texts) == FlattenSeq(texts)
EachKid(kids, Op(_)) == FoldLeft(LAMBDA all, k : Append(all, Op(k)), <<>>, kids)

\* What a reader has got: where it goes on, 0 when it refused, and the value.
Got(at, node) == [at |-> at, node |-> node]
\* A number is one character of a text.
IsNumber(c) == \E n \in Numbers : ToString(n) = c
NumberOf(c) == CHOOSE n \in Numbers : ToString(n) = c
CharAt(text, i) == IF i \in DOMAIN text THEN text[i] ELSE "end"

\* got is what there was of node when the reading stopped.
RECURSIVE PartOf(_, _)
PartOf(got, node) ==
    /\ got.name = node.name
    /\ got.data \in {Unset, node.data} \/ got.data.type = node.data.type
    /\ IsPrefix(got.data.str, node.data.str)
    /\ Len(got.kids) <= Len(node.kids)
    /\ \A i \in DOMAIN got.kids :
         IF i < Len(got.kids) THEN got.kids[i] = node.kids[i]
         ELSE PartOf(got.kids[i], node.kids[i])
-----------------------------------------------------------------------------
(***************************************************************************)
(* What the formats of text need of strutil.cpp and of str.cpp: escaping   *)
(* and splitting. The number of a character and the name of an entity are  *)
(* one character of a text.                                                *)
(***************************************************************************)

QuoteChar == "\""
EscapeChar == "\\"

\* %S of printf.
EscapeS(s) ==
    Joined(EachKid(s, LAMBDA c : IF c \in {"%", EscapeChar, QuoteChar} THEN <<EscapeChar, c>>
                                 ELSE IF c = "\n" THEN <<"%", "0", "A">> ELSE <<c>>))
\* MUTANT: a quote is left as it is.
encodecsvPlain(s) == s
encodecsv(s) == Joined(EachKid(s, LAMBDA c : IF c = QuoteChar THEN <<c, c>> ELSE <<c>>))
Quoted(s) == <<QuoteChar>> \o s \o <<QuoteChar>>

-----------------------------------------------------------------------------
splitlines(text) ==
    LET all == FoldLeft(LAMBDA ls, c : IF c = "\n" THEN Append(ls, <<>>) ELSE Front(ls) \o <<Append(Last(ls), c)>>,
                        <<NoText>>, text)
    IN  IF Last(all) = NoText THEN Front(all) ELSE all

RECURSIVE unescape(_)
unescape(s) ==
    IF s = <<>> THEN <<>>
    ELSE IF Head(s) = EscapeChar THEN SubSeq(s, 2, 2) \o unescape(SubSeq(s, 3, Len(s)))
    ELSE IF Head(s) # "%" THEN <<Head(s)>> \o unescape(Tail(s))
    ELSE IF SubSeq(s, 2, 2) = <<"%">> THEN <<"%">> \o unescape(SubSeq(s, 3, Len(s)))
    ELSE IF Len(s) > 2 THEN <<IF SubSeq(s, 2, 3) = <<"0", "A">> THEN "\n" ELSE "?">> \o unescape(SubSeq(s, 4, Len(s)))
    ELSE unescape(Tail(s))

\* splitcsv: a column without quotes is a number.
UnquotedData(s) ==
    IF \E n \in Numbers : s = <<ToString(n) \o ".5">> THEN DoubleData(CHOOSE n \in Numbers : s = <<ToString(n) \o ".5">>)
    ELSE IntData(IF Len(s) = 1 /\ IsNumber(s[1]) THEN NumberOf(s[1]) ELSE 0)
RECURSIVE SplitCsv(_, _, _, _, _, _)
SplitCsv(line, i, quoted, wasquoted, nval, cells) ==
    LET c == CharAt(line, i)
        ended == Append(cells, IF wasquoted THEN StringData(nval) ELSE UnquotedData(nval)) IN
    CASE c = "end" -> IF nval # <<>> \/ wasquoted THEN ended ELSE cells
      [] c = QuoteChar /\ quoted /\ CharAt(line, i + 1) = QuoteChar ->
           SplitCsv(line, i + 2, quoted, wasquoted, Append(nval, c), cells)
      [] c = QuoteChar /\ ~ (quoted /\ CharAt(line, i + 1) = QuoteChar) ->
           SplitCsv(line, i + 1, ~ quoted, TRUE, nval, cells)
      [] c = "," /\ ~ quoted -> SplitCsv(line, i + 1, FALSE, FALSE, <<>>, ended)
      [] OTHER -> SplitCsv(line, i + 1, quoted, wasquoted, Append(nval, c), cells)

\* splitquoted: what stands between two separators, from its first to its last
\* character that is no space, without the quotes around it. A separator of " " is
\* any white space; of XML the backslashes are left alone.
Blanks == {" ", "\t", "\n"}
WordText(line, left, last, forxml) ==
    LET start == {i \in left .. last : line[i] \notin Blanks}
        l == IF start = {} THEN left ELSE CHOOSE i \in start : \A k \in start : i <= k
        word == IF CharAt(line, l) = QuoteChar /\ l < last /\ line[last] = QuoteChar
                THEN SubSeq(line, l + 1, last - 1) ELSE SubSeq(line, l, last)
    IN  IF forxml THEN word ELSE unescape(word)
RECURSIVE SplitFrom(_, _, _, _, _, _, _, _)
SplitFrom(line, s, forxml, left, right, last, quoted, words) ==
    LET slash == ~ forxml /\ CharAt(line, right) = EscapeChar
        r == IF slash /\ right < Len(line) THEN right + 1 ELSE right
        c == CharAt(line, r)
        nospace == IF slash THEN r ELSE last
        on(l, q) == SplitFrom(line, s, forxml, left, r + 1, l, q, words) IN
    CASE right > Len(line) + 1 -> words
      [] right <= Len(line) + 1 /\ slash /\ c # EscapeChar -> on(r, quoted)
      [] OTHER ->
           IF quoted /\ c # "end" THEN on(r, c # QuoteChar)
           ELSE IF c = QuoteChar THEN on(nospace, TRUE)
           ELSE IF c \in {s, "end"} \/ (s = " " /\ c \in Blanks)
                THEN SplitFrom(line, s, forxml, r + 1, r + 1, nospace, quoted,
                               Append(words, WordText(line, left, nospace, forxml)))
           ELSE on(IF c \in Blanks THEN nospace ELSE r, quoted)
splitquoted(line, s, forxml) == IF line = <<>> THEN <<>> ELSE SplitFrom(line, s, forxml, 1, 1, 1, FALSE, <<>>)

-----------------------------------------------------------------------------
\* %Z of printf, and %A with the quote: what a character is written as in XML.
Entity == [c \in {"&", "<", ">", "\n", "\t", QuoteChar} |->
    CASE c = "&" -> "amp" [] c = "<" -> "lt" [] c = ">" -> "gt" [] c = "\n" -> "#10" [] c = "\t" -> "#9"
      [] OTHER -> "quot"]
\* MUTANT: the sign that begins an entity is left as it is.
EscapedPlain(s, these) ==
    Joined(EachKid(s, LAMBDA c : IF c \in these \ {"&"} THEN <<"&", Entity[c], ";">> ELSE <<c>>))
Escaped(s, these) == Joined(EachKid(s, LAMBDA c : IF c \in these THEN <<"&", Entity[c], ";">> ELSE <<c>>))
EscapeZ(s) == Escaped(s, DOMAIN Entity \ {QuoteChar})
EscapeA(s) == Escaped(s, DOMAIN Entity)

RECURSIVE unescapexml(_)
unescapexml(s) ==
    LET meant == {c \in DOMAIN Entity : SubSeq(s, 2, 3) = <<Entity[c], ";">>} IN
    IF s = <<>> THEN <<>>
    ELSE IF Head(s) # "&" THEN <<Head(s)>> \o unescapexml(Tail(s))
    ELSE SetToSeq(meant) \o unescapexml(SubSeq(s, IF meant = {} THEN 2 ELSE 4, Len(s)))

-----------------------------------------------------------------------------
(***************************************************************************)
(* encodejson and decodejson (value_json.cpp). A text is a sequence of     *)
(* characters, except that the digits of a number, and true and false, are *)
(* one each. The exponent of a number and null, which encodejson does not  *)
(* write, are left out.                                                    *)
(***************************************************************************)

Quote == "\""
Backslash == "\\"

\* What a letter is written as: a line end, a tab, a quote and a backslash.
Escape == [c \in {"\n", "\t", Quote, Backslash} |->
              CASE c = "\n" -> "n" [] c = "\t" -> "t" [] OTHER -> c]
\* MUTANT: the backslash is left as it is.
JsonStringPlain(s) ==
    <<Quote>> \o Joined(EachKid(s, LAMBDA c :
        IF c \in DOMAIN Escape \ {Backslash} THEN <<Backslash, Escape[c]>> ELSE <<c>>)) \o <<Quote>>
JsonString(s) ==
    <<Quote>> \o Joined(EachKid(s, LAMBDA c :
        IF c \in DOMAIN Escape THEN <<Backslash, Escape[c]>> ELSE <<c>>)) \o <<Quote>>

JsonDigits(n) == IF n < 0 THEN <<"-", ToString(-n)>> ELSE <<ToString(n)>>
JsonData(data) ==
    CASE data.type \in {"int", "unsigned"} -> JsonDigits(data.num)
      [] data.type = "double" -> JsonDigits(data.num) \o <<".", "5">>
      [] data.type = "bool" -> <<IF data.num = 1 THEN "true" ELSE "false">>
      [] OTHER -> JsonString(sval(data))

RECURSIVE EncodeJson(_)
EncodeJson(node) ==
    LET Items(Op(_)) == FoldLeft(LAMBDA text, k : text \o (IF text = <<>> THEN <<>> ELSE <<",">>) \o Op(k),
                                 <<>>, node.kids)
    IN  IF node.kids = <<>> THEN JsonData(node.data)
        ELSE IF HasNames(node.kids)
             THEN <<"{">> \o Items(LAMBDA k : JsonString(k.name) \o <<":">> \o EncodeJson(k)) \o <<"}">>
             ELSE <<"[">> \o Items(EncodeJson) \o <<"]">>

-----------------------------------------------------------------------------
RECURSIVE SkipSpaces(_, _)
SkipSpaces(text, i) == IF CharAt(text, i) = " " THEN SkipSpaces(text, i + 1) ELSE i
PastComma(text, i) ==
    LET k == SkipSpaces(text, i) IN IF CharAt(text, k) = "," THEN SkipSpaces(text, k + 1) ELSE k

\* readjsonstring, from the character behind the quote on: an escape nobody knows
\* is dropped, and a string that ends the text is refused.
RECURSIVE ReadJsonString(_, _, _)
ReadJsonString(text, i, into) ==
    LET c == CharAt(text, i)
        letter == {l \in DOMAIN Escape : Escape[l] = CharAt(text, i + 1)} IN
    CASE c = "end" -> [at |-> 0, str |-> into]
      [] c = Quote -> [at |-> IF i < Len(text) THEN i + 1 ELSE 0, str |-> into]
      [] c = Backslash -> ReadJsonString(text, i + 2, into \o SetToSeq(letter))
      [] OTHER -> ReadJsonString(text, i + 1, Append(into, c))

\* readjsonnumber: a number must be followed by something that can end it, and a
\* bracket can not end a fraction.
ReadJsonNumber(text, i) ==
    LET sign == CharAt(text, i) = "-"
        d == IF sign THEN i + 1 ELSE i
        has == IsNumber(CharAt(text, d))
        n == IF has THEN NumberOf(text[d]) ELSE 0
        k == IF has THEN d + 1 ELSE d
        f == IF CharAt(text, k + 1) = "5" THEN k + 2 ELSE k + 1
        num == IF sign THEN -n ELSE n IN
    CASE CharAt(text, k) \in {",", "}", "]", " "} -> [at |-> k, data |-> IntData(num)]
      [] CharAt(text, k) = "." /\ CharAt(text, f) \in {",", "}", " "} -> [at |-> f, data |-> DoubleData(num)]
      [] OTHER -> [at |-> 0, data |-> Unset]

RECURSIVE DecodeJson(_, _, _)
\* What comes behind a name or in an array, as the child name.
ReadJsonItem(name, text, i) ==
    LET c == CharAt(text, i)  s == ReadJsonString(text, i + 1, NoText)  n == ReadJsonNumber(text, i) IN
    CASE c = Quote -> Got(s.at, Node(name, StringData(s.str), <<>>))
      [] c \in {"+", "-"} \/ IsNumber(c) -> Got(n.at, Node(name, n.data, <<>>))
      [] c \in {"{", "["} -> DecodeJson(Blank(name), text, i)
      [] c \in {"true", "false"} -> Got(i + 1, Node(name, BoolData(IF c = "true" THEN 1 ELSE 0), <<>>))
      [] OTHER -> Got(0, Blank(name))

\* The loop over the members of an object: each begins at the brace or the comma
\* before it.
RECURSIVE ReadJsonMembers(_, _, _)
ReadJsonMembers(node, text, i) ==
    LET k == PastComma(text, i + 1)
        name == ReadJsonString(text, k + 1, NoText)
        colon == SkipSpaces(text, name.at)
        kid == ReadJsonItem(name.str, text, SkipSpaces(text, colon + 1)) IN
    CASE CharAt(text, i) = "}" -> Got(i + 1, node)
      [] CharAt(text, i) # "}" /\ CharAt(text, k) = "}" -> Got(k + 1, node)
      [] OTHER ->
           IF CharAt(text, k) # Quote \/ name.at = 0 \/ CharAt(text, colon) # ":" \/ kid.at = 0
           THEN Got(0, node)
           ELSE ReadJsonMembers(WithKid(node, kid.node), text, kid.at)

\* The loop over an array looks for the bracket before it skips spaces.
RECURSIVE ReadJsonElements(_, _, _)
ReadJsonElements(node, text, i) ==
    LET kid == ReadJsonItem(NoText, text, PastComma(text, i)) IN
    IF CharAt(text, i) = "]" THEN Got(i + 1, node)
    ELSE IF kid.at = 0 THEN Got(0, node) ELSE ReadJsonElements(WithKid(node, kid.node), text, kid.at)

DecodeJson(node, text, i) ==
    CASE CharAt(text, i) = "{" -> ReadJsonMembers(node, text, i)
      [] CharAt(text, i) = "[" -> ReadJsonElements(node, text, i + 1)
      [] OTHER -> Got(0, node)

FromJson(text) == DecodeJson(Blank(NoText), text, SkipSpaces(text, 1))
-----------------------------------------------------------------------------
(***************************************************************************)
(* phpserialize and phpdeserialize (value_php.cpp), with attributes or     *)
(* without. Numbers are one character of the text. What only PHP itself    *)
(* writes, NULL, objects and floating point numbers, is left out.          *)
(***************************************************************************)

AttrKey == <<".", "a", "t", "t", "r">>
DataKey == <<".", "d", "a", "t", "a">>

PhpString(s) == <<"s", ":", ToString(Len(s)), ":", "\"">> \o s \o <<"\"", ";">>
PhpData(data) ==
    CASE data.type \in {"int", "unsigned"} -> <<"i", ":", ToString(data.num), ";">>
      [] data.type = "bool" -> <<"b", ":", ToString(data.num), ";">>
      [] OTHER -> PhpString(sval(data))

\* printphp: with attributes, every value is an array, of its children and its
\* attributes, or of its attributes and its data.
RECURSIVE PrintPhp(_, _)
PrintPhp(node, withattr) ==
    LET n == Len(node.kids)
        size == n + (IF withattr THEN Len(node.attr) + (IF n = 0 THEN 1 ELSE 0) ELSE 0)
        key(i) == IF node.kids[i].name # NoText THEN PhpString(node.kids[i].name)
                  ELSE <<"i", ":", ToString(i - 1), ";">>
        kids == Joined([i \in 1 .. n |-> key(i) \o PrintPhp(node.kids[i], withattr)])
        attr == IF withattr /\ node.attr # <<>>
                THEN PhpString(AttrKey) \o PrintPhp(Node(NoText, Unset, node.attr), withattr) ELSE <<>> IN
    IF size = 0 THEN PhpData(node.data)
    ELSE <<"a", ":", ToString(size), ":", "{">> \o kids \o attr
         \o (IF n > 0 THEN <<>> ELSE PhpString(DataKey) \o PhpData(node.data)) \o <<"}">>

-----------------------------------------------------------------------------
\* The cases of the switch that have data: a number, a bool or a string with the
\* place behind it, 0 where the text is not what was expected.
ReadNumberOf(text, i) ==
    [at |-> IF CharAt(text, i + 1) = ":" /\ IsNumber(CharAt(text, i + 2)) /\ CharAt(text, i + 3) = ";"
            THEN i + 4 ELSE 0,
     num |-> IF IsNumber(CharAt(text, i + 2)) THEN NumberOf(text[i + 2]) ELSE 0]
ReadPhpString(text, i) ==
    LET n == IF IsNumber(CharAt(text, i + 2)) THEN NumberOf(text[i + 2]) ELSE 0
        last == i + 4 + n IN
    IF /\ CharAt(text, i + 1) = ":" /\ CharAt(text, i + 3) = ":" /\ CharAt(text, i + 4) = "\""
       /\ n >= 0 /\ last <= Len(text)
       /\ CharAt(text, last + 1) = "\"" /\ CharAt(text, last + 2) = ";"
    THEN [at |-> last + 3, str |-> SubSeq(text, i + 5, last)] ELSE [at |-> 0, str |-> NoText]

NoKey == [text |-> NoText, number |-> FALSE]
\* Where data go: into the value itself for .data, into a new child without a
\* name behind a number, else into the child of that name.
PlacePhp(node, key, data) ==
    IF key.text = DataKey THEN Assigned(node, data)
    ELSE WithKid(node, Node(IF key.number THEN NoText ELSE key.text, data, <<>>))

\* MUTANT: the key of a number is not told from a name.
NumberKeyNamed(n) == [text |-> <<ToString(n)>>, number |-> FALSE]
NumberKey(n) == [text |-> <<ToString(n)>>, number |-> TRUE]

\* phpdeserialize: the loop, which expects a value when wants and a key otherwise.
\* The value keeps what was read before the text turned out to be wrong.
RECURSIVE ReadPhp(_, _, _, _, _)
ReadPhp(node, text, i, wants, key) ==
    LET c == CharAt(text, i)  n == ReadNumberOf(text, i)  s == ReadPhpString(text, i)
        onward(at, new) == IF at = 0 THEN Got(0, node) ELSE ReadPhp(new, text, at, FALSE, key)
        inner == ReadPhp(Blank(IF key.number \/ key.text \in {NoText, AttrKey} THEN NoText ELSE key.text),
                         text, i + 5, FALSE, NoKey) IN
    CASE c = "}" -> Got(IF wants THEN 0 ELSE i + 1, node)
      [] c = "i" -> IF wants THEN onward(n.at, PlacePhp(node, key, IntData(n.num)))
                    ELSE IF n.at = 0 THEN Got(0, node)
                    ELSE ReadPhp(node, text, n.at, TRUE, NumberKey(n.num))
      [] c = "s" -> IF wants THEN onward(s.at, PlacePhp(node, key, StringData(s.str)))
                    ELSE IF s.at = 0 THEN Got(0, node)
                    ELSE ReadPhp(node, text, s.at, TRUE, [text |-> s.str, number |-> FALSE])
      [] c = "b" -> IF wants THEN onward(n.at, PlacePhp(node, key, BoolData(n.num))) ELSE Got(0, node)
      [] c = "a" ->
           IF ~ wants \/ CharAt(text, i + 1) # ":" \/ CharAt(text, i + 3) # ":" \/ CharAt(text, i + 4) # "{"
           THEN Got(0, node)
           ELSE LET into == CASE key.text = NoText -> inner.node
                              [] key.text = AttrKey /\ ~ key.number -> [node EXCEPT !.attr = inner.node.kids]
                              [] OTHER -> WithKid(node, inner.node)
                IN  IF inner.at = 0 THEN Got(0, into) ELSE ReadPhp(into, text, inner.at, FALSE, key)
      [] OTHER -> Got(0, node)

FromPhp(text) == ReadPhp(Blank(NoText), text, 1, TRUE, NoKey).node
-----------------------------------------------------------------------------
(***************************************************************************)
(* tocsv and fromcsv, savecsv and loadcsv (value_csv.cpp): rows of columns *)
(* and before them a column for the name of the row. A number, true and    *)
(* false are one character of the text. Every row has the same columns,    *)
(* none of them with a name to escape, the name of the index or data of a  *)
(* type that is not written: those are mixed up with others.               *)
(***************************************************************************)

IndexName == <<"i", "d">>

WrittenAsText(data) == data.type \in {"string", "ip", "bool"}
CsvCell(file, data) ==
    IF ~ WrittenAsText(data) THEN sval(data)
    ELSE Quoted(IF file THEN encodecsv(sval(data)) ELSE EscapeS(encodecsv(sval(data))))
ColumnName(node, i) ==
    IF node.kids[1].kids[i].name # NoText THEN node.kids[1].kids[i].name ELSE <<"Value" \o ToString(i - 1)>>

\* tocsv, and savecsv with file.
ToCsv(file, node, headers) ==
    LET columns == DOMAIN node.kids[1].kids
        head == Quoted(IndexName) \o Joined([i \in columns |-> <<",">> \o Quoted(EscapeS(ColumnName(node, i)))])
        label(r) == IF node.kids[r].name # NoText THEN Quoted(EscapeS(node.kids[r].name)) ELSE <<ToString(r - 1)>>
        cells(r) == Joined([i \in columns |-> <<",">> \o CsvCell(file, node.kids[r].kids[i].data)])
    IN  IF node.kids = <<>> THEN <<>>
        ELSE (IF headers THEN head \o <<"\n">> ELSE <<>>)
             \o Joined([r \in DOMAIN node.kids |-> label(r) \o cells(r) \o <<"\n">>])

-----------------------------------------------------------------------------
RowClass == <<"r", "o", "w">>
\* fromcsv, and loadcsv with file: the columns of a row are those of the headers,
\* all of them or all but the key; without headers there are none.
FromCsv(file, text, headers, key) ==
    LET lines == splitlines(text)
        split(line) == IF file THEN SplitCsv(line, 1, FALSE, FALSE, <<>>, <<>>)
                       ELSE EachKid(splitquoted(line, ",", FALSE), StringData)
        names == IF headers THEN EachKid(SplitCsv(lines[1], 1, FALSE, FALSE, <<>>, <<>>), sval) ELSE <<>>
        keys == {i \in DOMAIN names : names[i] = key /\ key # NoText}
        keypos == IF keys = {} THEN 1 ELSE CHOOSE i \in keys : \A k \in keys : k <= i
        columns == SelectSeq([i \in DOMAIN names |-> i], LAMBDA i : ~ file \/ i # keypos)
        cell(cells, i) == IF i \in DOMAIN cells THEN cells[i] ELSE Unset
        row(cells) ==
            [Node(IF key # NoText THEN sval(cell(cells, keypos)) ELSE NoText, Unset,
                  EachKid(columns, LAMBDA i : Node(names[i], cell(cells, i), <<>>)))
             EXCEPT !.class = RowClass] IN
    IF lines = <<>> THEN Got(0, Blank(NoText))
    ELSE Got(1, FoldLeft(LAMBDA node, line : IF line = <<>> THEN node ELSE WithKid(node, row(split(line))),
                         Blank(NoText), IF headers THEN Tail(lines) ELSE lines))
-----------------------------------------------------------------------------
(***************************************************************************)
(* toxml and fromxml without a schema (value_xml.cpp) and xmlreadtag       *)
(* (strutil.cpp). The name of a type is one character of a text, and so    *)
(* are a number, true and false. What toxml never writes is left out:      *)
(* comments, CDATA, and text beside tags.                                  *)
(***************************************************************************)

XmlHeader == <<"<", "?", "xml", "?", ">", "\n">>
IdName == <<"i", "d">>
OwnTags == {"int", "unsigned", "double", "bool", "ip", "currency"}
BuiltinTags == {<<t>> : t \in OwnTags \union {"dict", "array", "string", "void"}}

-----------------------------------------------------------------------------
(* A class of its own is only written of the outermost value. *)
ResolvedType(node, root) ==
    CASE node.data.type \in OwnTags -> <<node.data.type>>
      [] node.data.type \notin OwnTags /\ root /\ node.class # NoText -> node.class
      [] OTHER -> IF node.kids # <<>> THEN <<IF HasNames(node.kids) THEN "dict" ELSE "array">>
                  ELSE <<IF root /\ node.data = Unset THEN "void" ELSE "string">>

Attribute(name, s) == <<" ">> \o name \o <<"=">> \o Quoted(EscapeA(s))
\* sval of an attribute: of one with several values the first.
FirstText(attr) == sval(IF attr.kids = <<>> THEN attr.data ELSE attr.kids[1].data)
FilledKids(attr) == SelectSeq(attr.kids, LAMBDA k : sval(k.data) # NoText)
WrittenAttributes(node) ==
    Joined(EachKid(node.attr, LAMBDA a :
        IF node.name # NoText /\ a.name = IdName THEN <<>>
        ELSE IF Len(a.kids) > 1
        THEN Joined(EachKid(FilledKids(a), LAMBDA k : Attribute(a.name, sval(k.data))))
        ELSE Attribute(a.name, FirstText(a))))

RECURSIVE PrintXml(_, _, _)
PrintXml(node, indent, compact) ==
    LET depth == IF indent > 14 THEN 15 ELSE indent + 1
        tabs == IF compact THEN <<>> ELSE [i \in 1 .. depth |-> "\t"]
        eol == IF compact THEN <<>> ELSE <<"\n">>
        type == ResolvedType(node, indent < 0)
        opened == tabs \o <<"<">> \o type
                  \o (IF node.name = NoText THEN <<>> ELSE Attribute(IdName, node.name)) \o WrittenAttributes(node)
        closing == <<"<", "/">> \o type \o <<">">> \o eol
    IN  IF node.kids # <<>>
        THEN opened \o <<">">> \o eol \o Joined(EachKid(node.kids, LAMBDA k : PrintXml(k, depth, compact))) \o tabs \o closing
        ELSE IF sval(node.data) = NoText THEN opened \o <<"/", ">">> \o eol
        ELSE opened \o <<">">> \o EscapeZ(sval(node.data)) \o closing

ToXml(node, compact) == (IF compact THEN <<>> ELSE XmlHeader) \o PrintXml(node, -1, compact)

-----------------------------------------------------------------------------
FindFrom(text, c, from) ==
    LET all == {i \in from .. Len(text) : text[i] = c} IN
    IF all = {} THEN 0 ELSE CHOOSE i \in all : \A k \in all : i <= k
\* The end of the tag that begins at left: a sign that is not between quotes.
TagEnd(text, left) ==
    LET quotes(i) == Cardinality({k \in left + 1 .. i : text[k] = QuoteChar})
        all == {i \in left + 1 .. Len(text) : text[i] = ">" /\ quotes(i) % 2 = 0} IN
    IF all = {} THEN 0 ELSE CHOOSE i \in all : \A k \in all : i <= k

\* A property that was there before becomes one with several values.
WithProperty(props, word) ==
    LET pair == splitquoted(word, "=", TRUE)
        name == pair[1]
        new == Node(NoText, StringData(unescapexml(IF Len(pair) > 1 THEN pair[2] ELSE <<>>)), <<>>)
        old == SelectSeq(props, LAMBDA p : p.name = name)
        values == IF old[1].kids = <<>> THEN <<Node(NoText, old[1].data, <<>>)>> ELSE old[1].kids IN
    IF old = <<>> THEN Append(props, [new EXCEPT !.name = name])
    ELSE SelectSeq(props, LAMBDA p : p.name # name) \o <<Node(name, Unset, values \o <<new>>)>>

\* A tag, and of one that is closed by the next tag the text between them.
Tag(at, type, props) ==
    [at |-> at, type |-> type, props |-> props, closed |-> TRUE, data |-> NoText, eof |-> FALSE, error |-> FALSE]
xmlreadtag(text, at) ==
    LET left == FindFrom(text, "<", at)
        right == TagEnd(text, left)
        buffer == SubSeq(text, left + 1, right - 1)
        single == Last(buffer) = "/"
        words == splitquoted(IF single THEN Front(buffer) ELSE buffer, " ", TRUE)
        name == words[1]
        tag == Tag(right + 1, name, FoldLeft(WithProperty, <<>>, Tail(words)))
        next == FindFrom(text, "<", right)
        end == FindFrom(text, ">", next)
        none == [Tag(0, NoText, <<>>) EXCEPT !.eof = TRUE]
        bad == [none EXCEPT !.error = TRUE] IN
    CASE left = 0 -> none
      [] left # 0 /\ right = 0 -> bad
      [] left # 0 /\ right = left + 1 -> none
      [] left # 0 /\ right > left + 1 ->
           IF buffer[1] = "?" THEN Tag(right + 1, <<"?">>, <<>>)
           ELSE IF single THEN tag
           ELSE IF name[1] = "/" THEN [tag EXCEPT !.closed = FALSE]
           ELSE IF next = 0 THEN none
           ELSE IF CharAt(text, next + 1) # "/" THEN [tag EXCEPT !.closed = FALSE]
           ELSE IF ~ IsPrefix(name, SubSeq(text, next + 2, Len(text))) THEN bad
           ELSE [tag EXCEPT !.data = unescapexml(SubSeq(text, right + 1, next - 1)),
                            !.at = IF end = 0 THEN next ELSE end + 1]

-----------------------------------------------------------------------------
DataOfTag(type, s) ==
    CASE s = NoText -> Unset
      [] s # NoText /\ type = <<"double">> -> DoubleData(CHOOSE n \in Numbers : s = <<ToString(n) \o ".5">>)
      [] s # NoText /\ type = <<"bool">> -> BoolData(IF s = <<"true">> THEN 1 ELSE 0)
      [] s # NoText /\ type \in {<<t>> : t \in OwnTags \ {"double", "bool"}} -> Data(type[1], NumberOf(s[1]), NoText)
      [] OTHER -> StringData(s)
ClassOfTag(type) == IF type \in BuiltinTags THEN NoText ELSE type

\* The outermost value gets the first value of every attribute.
RootOf(tag) ==
    [Blank(NoText) EXCEPT !.class = ClassOfTag(tag.type),
                          !.attr = EachKid(tag.props, LAMBDA p : Node(p.name, StringData(FirstText(p)), <<>>))]
KidOf(tag) ==
    LET id == SelectSeq(tag.props, LAMBDA p : p.name = IdName) IN
    [Node(IF id = <<>> THEN NoText ELSE FirstText(id[1]), DataOfTag(tag.type, tag.data), <<>>)
     EXCEPT !.class = ClassOfTag(tag.type), !.attr = SelectSeq(tag.props, LAMBDA p : p.name # IdName)]

\* The innermost of the values that are open is put into the one around it.
PutAway(open) ==
    IF Len(open) <= 1 THEN open
    ELSE Append(Front(Front(open)), WithKid(Last(Front(open)), Last(open)))
RECURSIVE WholeOf(_)
WholeOf(open) ==
    CASE open = <<>> -> Blank(NoText) [] Len(open) = 1 -> open[1] [] OTHER -> WholeOf(PutAway(open))

\* What is open behind a tag: a record of the values and the names of their tags.
Opened(values, names) == [values |-> values, names |-> names]
BehindTag(tag, open) ==
    CASE tag.type[1] = "?" -> open
      [] tag.type[1] = "/" -> Opened(PutAway(open.values), Front(open.names))
      [] tag.type[1] \notin {"?", "/"} /\ open.values = <<>> -> Opened(<<RootOf(tag)>>, <<tag.type>>)
      [] OTHER -> IF tag.closed THEN Opened(PutAway(Append(open.values, KidOf(tag))), open.names)
                  ELSE Opened(Append(open.values, KidOf(tag)), Append(open.names, tag.type))
Unmatched(tag, open) ==
    tag.type[1] = "/" /\ (open.names = <<>> \/ Tail(tag.type) \notin {NoText, Last(open.names)})

\* fromxml: open are the values whose tag is not closed.
RECURSIVE XmlFrom(_, _, _)
XmlFrom(text, tag, open) ==
    IF tag.error \/ tag.eof \/ Unmatched(tag, open)
    THEN Got(IF ~ tag.error /\ tag.eof /\ open.names = <<>> THEN 1 ELSE 0, WholeOf(open.values))
    ELSE XmlFrom(text, xmlreadtag(text, tag.at), BehindTag(tag, open))
FromXml(text) == XmlFrom(text, xmlreadtag(text, 1), Opened(<<>>, <<>>))
=============================================================================
