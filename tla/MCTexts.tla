------------------------------ MODULE MCTexts -------------------------------
(***************************************************************************)
(* The formats of values, the masks of names and the data of values for    *)
(* TLC. A behaviour is one of part; what does not take part stands still   *)
(* in an initial state.                                                    *)
(***************************************************************************)
EXTENDS Serial, Wildcard, Scalars, TLC

VARIABLE part

(* Letters that have to be escaped, a string for which msgpack needs more than an *)
(* opcode, and every type of data. *)
MCNumbers == {-1, -32} \union 0 .. 40 \union {200, 300}
MCCode == "a" :> 97 @@ "b" :> 98 @@ "\"" :> 34 @@ "\\" :> 92 @@ "\n" :> 10 @@ "n" :> 110 @@ "1" :> 49 @@ "2" :> 50 @@ "3" :> 51
          @@ "&" :> 38 @@ "<" :> 60 @@ ">" :> 62
MCBuiltin == [n \in 0 .. 31 |->
    IF n <= 10 THEN <<"unset", "int", "unsigned", "double", "long", "ulong", "bool", "string",
                      "ip", "date", "currency">>[n + 1]
    ELSE ToString(n)]
Odd == <<"\"", "\\", "n", "\n", "&", "<", ">">>
LongText == [i \in 1 .. 33 |-> "a"]
MCData == {Unset, IntData(5), IntData(-1), IntData(-32), Data("unsigned", 200, NoText),
           Data("unsigned", 300, NoText), DoubleData(2), BoolData(1), StringData(NoText),
           StringData(Odd), StringData(LongText), Data("ip", 1, NoText), Data("currency", 3, NoText)}
Leaf(d) == Node(NoText, d, <<>>)
Holds(kids) == Node(NoText, Unset, kids)
Pair(d, e) == {Holds(<<Node(<<"a">>, d, <<>>), Node(Odd, e, <<>>)>>), Holds(<<Leaf(d), Leaf(e)>>)}

(* Pairs by name and without, pairs within pairs, attributes and classes, sixteen. *)
Flat == UNION {Pair(d, e) : d, e \in MCData}
Nested == UNION {{Holds(<<Node(<<"b">>, Unset, p.kids), Node(<<"a">>, d, <<>>)>>),
                  Holds(<<Leaf(d), Holds(p.kids)>>)} :
                    p \in UNION {Pair(e, BoolData(1)) : e \in MCData},
                    d \in {StringData(Odd), Data("ip", 2, NoText)}}
Several == Node(<<"n">>, Unset, <<Leaf(StringData(Odd)), Leaf(StringData(NoText)), Leaf(IntData(1))>>)
WithAttributes(n, class) ==
    [n EXCEPT !.attr = <<Node(<<"b">>, BoolData(0), <<>>)>>, !.class = class,
              !.kids = IF @ = <<>> THEN @
                       ELSE [@ EXCEPT ![1] = [@ EXCEPT !.attr = <<Node(<<"a">>, IntData(7), <<>>), Several>>,
                                                       !.class = <<"b">>]]]
MCTrees == {Leaf(d) : d \in MCData} \union Flat \union Nested
           \union {WithAttributes(n, c) : n \in {Leaf(d) : d \in MCData} \union Pair(IntData(5), StringData(Odd)),
                                         c \in {NoText, <<"b">>}}
           \union {Holds(FoldLeft(LAMBDA s, i : Append(s, Leaf(IntData(i))), <<>>, [i \in 1 .. 16 |-> i]))}

(* Two rows of two columns. *)
Cells == {IntData(5), DoubleData(2), BoolData(1), StringData(NoText), StringData(<<" ", ",", "a", " ">>),
          StringData(<<"\"", "n">>), StringData(<<"%", "\\">>), StringData(<<"a", "\n", "b">>)}
Row(name, d, e) == Node(name, Unset, <<Node(<<"a">>, d, <<>>), Node(<<"b">>, e, <<>>)>>)
MCTables ==
    {Holds(<<Row(NoText, d, e), Row(NoText, e, IntData(5))>>) : d \in Cells, e \in Cells}
    \union {Holds(<<Row(<<"a">>, d, e), Row(<<"%", "\n", "\"">>, e, BoolData(1))>>) : d \in Cells, e \in Cells}
    \union {Holds(<<Row(<<"a">>, d, e), Row(<<"n">>, e, StringData(NoText))>>) : d \in Cells, e \in Cells}
    \union {Holds(<<Node(NoText, Unset, <<Leaf(d), Leaf(e)>>)>>) : d \in Cells, e \in Cells}

(* Wildcards of every kind, an escape and a letter in the other case. *)
MCMaskCharacters == {"A", "*", "?", "%", "\\"}
MCMatched == UNION {[1 .. n -> {"a", "*", " "}] : n \in 0 .. 4}
MCLower == [c \in {"a", " "} \union MCMaskCharacters |-> IF c = "A" THEN "a" ELSE c]


(* Ints of four bits and longs of sixteen: the first and the last number of each. *)
Given(itype, ns) == {[itype |-> itype, n |-> n] : n \in ns}
MCNumbered ==
    Given("int", {-8000, -1000, 7000}) \union Given("unsigned", {0, 15000}) \union Given("bool", {1000})
    \union Given("date", {9000}) \union Given("double", {-2500, 7500, 12000})
    \union Given("long", {-32768000, -9000, 7000}) \union Given("ulong", {12000, 65535000})
    \union Given("currency", {-1500, 2994, 7995})
MCWordings == {<<>>, True, <<Minus, 55>>, <<49, 50, Point, 53>>}

TextsInit ==
    /\ part \in {"serial", "glob", "scalar"}
    /\ GlobInit /\ ScalarInit
    /\ SerialInit
    /\ part # "serial" => tree = Leaf(Unset) /\ format = "json"

TextsNext ==
    /\ UNCHANGED part
    /\ \/ part = "serial" /\ SerialNext /\ UNCHANGED <<mask, scalarVars>>
       \/ part = "glob" /\ another /\ UNCHANGED <<serialVars, scalarVars>>
       \/ part = "scalar" /\ ScalarNext /\ UNCHANGED <<serialVars, mask>>

TextsSpec == TextsInit /\ [][TextsNext]_<<part, serialVars, mask, scalarVars>>

\* The variables of the parts keep their types.
TextsTypeOK == SerialTypeOK /\ ScalarTypeOK

\* What is written is read again as what it was, and a text that has lost its end
\* is refused: RoundTrips and CutTextsRefused.
TextsKept == RoundTrips /\ CutTextsRefused

\* Data is read as what it was given as, in each type, and the comparisons of it
\* agree with one another: ReadAsGiven and OrdersAgree.
NumbersKept == ReadAsGiven /\ OrdersAgree
=============================================================================
