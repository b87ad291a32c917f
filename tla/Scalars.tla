------------------------------ MODULE Scalars -------------------------------
(***************************************************************************)
(* The data of a value (value.cpp), amounts of money (currency.cpp) among  *)
(* them: a type, a union that all numbers share, and a string. Assignments write   *)
(* the part of the union that their type has; the rest keeps what was      *)
(* there. Ints have IntBits and longs LongBits; a double is a number of    *)
(* thousandths and lies in the union as its magnitude behind its sign.     *)
(* Texts are sequences of character codes. Addresses and the text of a     *)
(* date are left out.                                                      *)
(***************************************************************************)
EXTENDS Integers, Sequences, FiniteSets, SequencesExt

CONSTANTS
    IntBits, LongBits,
    Numbered,      \* numbers that are assigned: [itype, n], n in thousandths
    Wordings,      \* texts that are assigned
    MaxChanges     \* bound on the calls

ASSUME WidthAssumption == IntBits \in Nat \ {0} /\ LongBits \in Nat /\ LongBits >= 2 * IntBits

VARIABLES
    scalar,        \* two values: itype, type, t, s
    meant,         \* what each was given: itype, n, s, and the class to keep
    changes        \* calls so far

scalarVars == <<scalar, meant, changes>>
Sides == {"left", "right"}
Other(side) == IF side = "left" THEN "right" ELSE "left"

-----------------------------------------------------------------------------
(* Numbers as C has them. *)

Abs(n) == IF n < 0 THEN -n ELSE n
Signed(n, bits) == IF n >= 2 ^ (bits - 1) THEN n - 2 ^ bits ELSE n
Low(t) == t % 2 ^ IntBits
IntOf(n) == Signed(n % 2 ^ IntBits, IntBits)
\* a / b, towards zero.
Quot(a, b) == IF (a < 0) = (b < 0) THEN Abs(a) \div Abs(b) ELSE -(Abs(a) \div Abs(b))

\* Between a double and its bits.
DoubleBits(n) == Abs(n) + (IF n < 0 THEN 2 ^ (LongBits - 1) ELSE 0)
DoubleOf(t) == IF t >= 2 ^ (LongBits - 1) THEN 2 ^ (LongBits - 1) - t ELSE t

Minus == 45
Point == 46
Digit(n) == 48 + n
IsDigit(c) == c \in 48 .. 57
\* The digits of n, at least width of them.
Digits(n, width) ==
    LET k == CHOOSE k \in width .. 9 : n < 10 ^ k /\ (k = width \/ n >= 10 ^ (k - 1))
    IN  [i \in 1 .. k |-> Digit((n \div 10 ^ (k - i)) % 10)]
Sign(n) == IF n < 0 THEN <<Minus>> ELSE <<>>
Shown(n) == Sign(n) \o Digits(Abs(n), 1)
\* "%f", which prints six decimals.
ShownDouble(n) == Sign(n) \o Digits(Abs(n) \div 1000, 1) \o <<Point>> \o Digits(Abs(n) % 1000, 3) \o Digits(0, 3)

\* atoi, strtoll, atof: the digits that a text begins with, after a sign.
Unsignified(s) == IF s # <<>> /\ Head(s) = Minus THEN Tail(s) ELSE s
Leading(s) == SubSeq(s, 1, CHOOSE k \in 0 .. Len(s) :
                  /\ \A i \in 1 .. k : IsDigit(s[i])
                  /\ k = Len(s) \/ ~ IsDigit(s[k + 1]))
NumberIs(s) == FoldLeft(LAMBDA n, c : 10 * n + c - 48, 0, s)
Integral(s) == LET n == NumberIs(Leading(Unsignified(s))) IN IF Unsignified(s) = s THEN n ELSE -n
Decimal(s) ==
    LET whole == Leading(Unsignified(s))
        behind == SubSeq(Unsignified(s), Len(whole) + 2, Len(Unsignified(s)))
        decimals == IF Len(Unsignified(s)) > Len(whole) /\ Unsignified(s)[Len(whole) + 1] = Point
                    THEN SubSeq(Leading(behind) \o Digits(0, 3), 1, 3) ELSE Digits(0, 3)
        n == 1000 * NumberIs(whole) + NumberIs(decimals)
    IN  IF Unsignified(s) = s THEN n ELSE -n

\* strcmp.
Before(s, r) ==
    \E i \in 1 .. Len(r) :
        /\ i <= Len(s) + 1 /\ \A j \in 1 .. i - 1 : s[j] = r[j]
        /\ i = Len(s) + 1 \/ s[i] < r[i]

-----------------------------------------------------------------------------
(* Amounts of money: thousandths, printed with two decimals. *)

PrintCurrency(n) ==
    LET up == Abs(n) + 5
        whole == up \div 1000
    IN  Shown(IF n < 0 THEN -whole ELSE whole) \o <<Point>> \o Digits((up % 1000) \div 10, 2)

ParseCurrency(s) ==
    LET point == CHOOSE i \in 1 .. Len(s) + 1 :
            /\ \A j \in 1 .. i - 1 : s[j] # Point
            /\ i = Len(s) + 1 \/ s[i] = Point
        behind == SubSeq(s, point + 1, Len(s)) \o Digits(0, 2)
    IN  IF \E i \in 1 .. point - 1 : ~ IsDigit(s[i]) THEN 0
        ELSE 1000 * Integral(s) + 10 * NumberIs(Leading(SubSeq(behind, 1, 2)))

-----------------------------------------------------------------------------
(* The number and the text of a value, of whatever type it is. *)

Int32 == {"int", "bool", "date", "unsigned"}
Long64 == {"long", "ulong"}

ival(v) ==
    CASE v.itype \in Int32 -> IntOf(v.t)
      [] v.itype = "string" -> IntOf(Integral(v.s))
      [] v.itype = "double" -> Quot(DoubleOf(v.t), 1000)
      [] v.itype = "currency" -> IntOf(Quot(Signed(v.t, LongBits), 1000))
      [] v.itype \in Long64 -> IntOf(v.t)
      [] OTHER -> 0
uval(v) ==
    CASE v.itype \in Int32 \union Long64 -> Low(v.t)
      [] v.itype = "string" -> Low(Integral(v.s))
      [] v.itype = "double" -> Quot(DoubleOf(v.t), 1000)
      [] v.itype = "currency" -> Low(v.t \div 1000)
      [] OTHER -> 0
\* In thousandths.
dval(v) ==
    CASE v.itype = "double" -> DoubleOf(v.t)
      [] v.itype = "string" -> Decimal(v.s)
      [] v.itype = "int" -> 1000 * IntOf(v.t)
      [] v.itype = "unsigned" -> 1000 * Low(v.t)
      [] v.itype = "bool" -> IF IntOf(v.t) # 0 THEN 1000 ELSE 0
      [] v.itype = "long" -> 1000 * Signed(v.t, LongBits)
      [] v.itype = "ulong" -> 1000 * v.t
      [] v.itype = "currency" -> Signed(v.t, LongBits)
      [] OTHER -> 0
lval(v) ==
    CASE v.itype \in Long64 -> Signed(v.t, LongBits)
      [] v.itype = "double" -> Quot(DoubleOf(v.t), 1000)
      [] v.itype = "int" -> IntOf(v.t)
      [] v.itype \in Int32 \ {"int"} -> Low(v.t)
      [] v.itype = "string" -> Integral(v.s)
      [] v.itype = "currency" -> Quot(Signed(v.t, LongBits), 1000)
      [] OTHER -> 0
ulval(v) ==
    CASE v.itype = "currency" -> IF Signed(v.t, LongBits) < 0 THEN -Signed(v.t, LongBits) ELSE v.t
      [] OTHER -> lval(v) % 2 ^ LongBits

True == <<116, 114, 117, 101>>
False == <<102, 97, 108, 115, 101>>
bval(v) ==
    CASE v.itype \in {"bool", "int", "unsigned"} -> Low(v.t) # 0
      [] v.itype \in {"double"} -> DoubleOf(v.t) # 0
      [] v.itype = "string" -> v.s = True
      [] v.itype \in Long64 \union {"currency"} -> v.t # 0
      [] OTHER -> FALSE
\* sval(), which keeps its text in the string of the value, which a later type does not read.
svalue(v) ==
    CASE v.itype = "string" -> v.s
      [] v.itype = "bool" -> IF IntOf(v.t) # 0 THEN True ELSE False
      [] v.itype = "int" -> Shown(IntOf(v.t))
      [] v.itype = "unsigned" -> Shown(Low(v.t))
      [] v.itype = "double" -> ShownDouble(DoubleOf(v.t))
      [] v.itype = "currency" -> PrintCurrency(Signed(v.t, LongBits))
      [] v.itype = "long" -> Shown(Signed(v.t, LongBits))
      [] v.itype = "ulong" -> Shown(v.t)
      [] OTHER -> <<>>
getcurrency(v) ==
    LET Thousands(n) == Signed((1000 * n) % 2 ^ LongBits, LongBits) IN
    CASE v.itype = "currency" -> Signed(v.t, LongBits)
      [] v.itype = "double" -> DoubleOf(v.t)
      [] v.itype = "string" -> ParseCurrency(v.s)
      [] v.itype = "int" -> Thousands(IntOf(v.t))
      [] v.itype = "unsigned" -> Thousands(Low(v.t))
      [] v.itype \in Long64 -> Thousands(Signed(v.t, LongBits))
      [] OTHER -> 0

\* The operators compare in the type of the right side. What the long ones do without
\* lval() reads a long out of whatever the union of the left side holds.
LessThan(v, w) ==
    CASE w.itype = "string" -> Before(svalue(v), svalue(w))
      [] w.itype = "int" -> ival(v) < ival(w)
      [] w.itype \in {"unsigned", "date"} -> uval(v) < uval(w)
      [] w.itype \in {"currency", "long"} -> lval(v) < lval(w)
      [] w.itype = "ulong" -> ulval(v) < ulval(w)
      [] OTHER -> dval(v) < dval(w)
\* MUTANT: an unsigned is compared as an int.
MoreThanSigned(v, w) ==
    CASE w.itype = "string" -> Before(svalue(w), svalue(v))
      [] w.itype \in {"int", "unsigned", "date"} -> ival(v) > ival(w)
      [] w.itype \in {"currency", "long"} -> lval(v) > lval(w)
      [] w.itype = "ulong" -> ulval(v) > ulval(w)
      [] OTHER -> dval(v) > dval(w)
MoreThan(v, w) ==
    CASE w.itype = "string" -> Before(svalue(w), svalue(v))
      [] w.itype = "int" -> ival(v) > ival(w)
      [] w.itype \in {"unsigned", "date"} -> uval(v) > uval(w)
      [] w.itype \in {"currency", "long"} -> lval(v) > lval(w)
      [] w.itype = "ulong" -> ulval(v) > ulval(w)
      [] OTHER -> dval(v) > dval(w)
AtMost(v, w) ==
    CASE w.itype = "string" -> ~ Before(svalue(w), svalue(v))
      [] w.itype = "int" -> ival(v) <= ival(w)
      [] w.itype \in {"unsigned", "date"} -> uval(v) <= uval(w)
      [] w.itype \in {"currency", "long"} -> Signed(v.t, LongBits) <= Signed(w.t, LongBits)
      [] w.itype = "ulong" -> ulval(v) <= ulval(w)
      [] OTHER -> dval(v) <= dval(w)
AtLeast(v, w) ==
    CASE w.itype = "string" -> ~ Before(svalue(v), svalue(w))
      [] w.itype = "int" -> ival(v) >= ival(w)
      [] w.itype \in {"unsigned", "date"} -> uval(v) >= uval(w)
      [] w.itype \in {"currency", "long"} -> Signed(v.t, LongBits) >= Signed(w.t, LongBits)
      [] w.itype = "ulong" -> ulval(v) >= ulval(w)
      [] OTHER -> dval(v) >= dval(w)
Equals(v, w) ==
    CASE w.itype = "unset" -> v.itype = "unset" \/ (v.itype = "string" /\ v.s = <<>>)
      [] w.itype = "string" -> svalue(v) = svalue(w)
      [] w.itype = "int" -> ival(v) = ival(w)
      [] w.itype \in {"unsigned", "date"} -> uval(v) = uval(w)
      [] w.itype \in {"currency", "long"} -> v.t = w.t
      [] w.itype = "ulong" -> ulval(v) = ulval(w)
      [] OTHER -> dval(v) = dval(w)

-----------------------------------------------------------------------------
(* Assignments. The class is the name of the type, unless it is one of its own. *)

Fresh == [itype |-> "unset", type |-> "void", t |-> 0, s |-> <<>>]
isbuiltin(type) == type # "own"
\* MUTANT: the name of the type replaces a class of its own.
ClassAlways(v, itype) == itype
Class(v, itype) == IF isbuiltin(v.type) THEN itype ELSE v.type

\* MUTANT: a long is not cut to its width.
OverwrittenWide(t, itype, n) ==
    CASE itype \in Int32 -> t - Low(t) + Low(n)
      [] itype = "double" -> DoubleBits(n)
      [] OTHER -> n
\* The union after a number is written into it.
Overwritten(t, itype, n) ==
    CASE itype \in Int32 -> t - Low(t) + Low(n)
      [] itype = "double" -> DoubleBits(n)
      [] OTHER -> n % 2 ^ LongBits
NumberIn(itype, n) == IF itype \in {"double", "currency"} THEN n ELSE n \div 1000

Gets(side, v, m) ==
    /\ changes < MaxChanges /\ changes' = changes + 1
    /\ scalar' = [scalar EXCEPT ![side] = v]
    /\ meant' = [meant EXCEPT ![side] = m]

\* operator= of a number; of a timestamp, which takes its class with it.
assign(side) ==
    \E x \in Numbered :
        LET v == scalar[side]
            class == IF x.itype = "date" THEN "date" ELSE Class(v, x.itype) IN
        Gets(side, [v EXCEPT !.itype = x.itype, !.type = class, !.t = Overwritten(@, x.itype, NumberIn(x.itype, x.n))],
             [itype |-> x.itype, n |-> x.n, s |-> <<>>,
              class |-> IF x.itype = "date" THEN "" ELSE meant[side].class])
assignText(side) ==
    \E s \in Wordings :
        Gets(side, [scalar[side] EXCEPT !.itype = "string", !.type = Class(scalar[side], "string"), !.s = s],
             [itype |-> "string", n |-> 0, s |-> s, class |-> meant[side].class])
\* type(...), by which an application names the class.
setType(side) ==
    Gets(side, [scalar[side] EXCEPT !.type = "own"], [meant[side] EXCEPT !.class = "own"])

\* The constructor of a copy, and operator= of a value: cleared, then of the other
\* what its type has.
construct(side) ==
    LET o == scalar[Other(side)] IN
    Gets(side, IF o.itype = "string" THEN [Fresh EXCEPT !.itype = "string", !.type = o.type, !.s = o.s]
               ELSE [Fresh EXCEPT !.itype = o.itype, !.type = o.type, !.t = IF o.itype = "unset" THEN 0 ELSE o.t],
         meant[Other(side)])
copy(side) ==
    LET o == scalar[Other(side)]
        v == [scalar[side] EXCEPT !.itype = o.itype, !.type = o.type, !.s = IF o.itype = "string" THEN o.s ELSE <<>>]
    IN  Gets(side, IF o.itype \in {"unset", "string"} THEN v ELSE [v EXCEPT !.t = o.t], meant[Other(side)])
\* operator= of a value that was returned, which is deleted: an amount is not copied.
take(side) ==
    LET o == scalar[Other(side)]
        v == [scalar[side] EXCEPT !.itype = o.itype, !.type = o.type, !.s = IF o.itype = "string" THEN o.s ELSE <<>>]
        lost == o.itype = "currency"
    IN  Gets(side, IF o.itype \in {"unset", "string"} \/ lost THEN v ELSE [v EXCEPT !.t = o.t],
             [meant[Other(side)] EXCEPT !.itype = IF lost THEN "lost" ELSE @])

ScalarInit ==
    /\ scalar = [side \in Sides |-> Fresh]
    /\ meant = [side \in Sides |-> [itype |-> "unset", n |-> 0, s |-> <<>>, class |-> ""]]
    /\ changes = 0
ScalarNext ==
    \E side \in Sides :
        \/ assign(side) \/ assignText(side) \/ setType(side)
        \/ construct(side) \/ copy(side) \/ take(side)
ScalarSpec == ScalarInit /\ [][ScalarNext]_scalarVars

-----------------------------------------------------------------------------
\* The union fits its long, and types are types.
ScalarTypeOK ==
    /\ changes \in 0 .. MaxChanges
    /\ \A side \in Sides :
         /\ scalar[side].t \in 0 .. 2 ^ LongBits - 1
         /\ scalar[side].itype \in {"unset", "string", "double", "currency"} \union Int32 \union Long64

Fits(n, itype) ==
    CASE itype = "int" -> n \in -(2 ^ (IntBits - 1)) .. 2 ^ (IntBits - 1) - 1
      [] itype = "unsigned" -> n \in 0 .. 2 ^ IntBits - 1
      [] itype = "long" -> n \in -(2 ^ (LongBits - 1)) .. 2 ^ (LongBits - 1) - 1
      [] itype = "ulong" -> n \in 0 .. 2 ^ LongBits - 1
      [] OTHER -> TRUE
Numeric(m) == m.itype \in {"double", "currency"} \union Int32 \union Long64
\* The number that was meant, and a whole part of it.
Whole(m) == Quot(m.n, 1000)

\* Whatever was in the union before, and through copies, a value is the number or the
\* text it was given in every type that has room for it, its text reads as the same
\* number, and it keeps a class of its own (value::operator=, ival, uval, lval, ulval,
\* dval, bval, sval, getcurrency). Left out is what the code does not do: ulval of an
\* amount counts thousandths, dval knows no date, an amount below zero is large to uval
\* and has no text that can be read, and a date takes the class.
ReadAsGiven ==
    \A side \in Sides :
        LET v == scalar[side]
            m == meant[side]
            whole == Whole(m) IN
        /\ m.itype = "string" => svalue(v) = m.s
        /\ m.class = "own" => v.type = "own"
        /\ Numeric(m) =>
             /\ Fits(whole, "int") => ival(v) = whole
             /\ Fits(whole, "unsigned") /\ (m.itype = "currency" => m.n >= 0) => uval(v) = whole
             /\ Fits(whole, "long") => lval(v) = whole
             /\ Fits(whole, "ulong") /\ m.itype # "currency" => ulval(v) = whole
             /\ m.itype # "date" =>
                  /\ dval(v) = m.n /\ (bval(v) <=> m.n # 0)
                  /\ m.itype \notin {"bool", "currency"} => Decimal(svalue(v)) = m.n
             /\ m.itype \notin {"bool", "date"} /\ Fits(m.n, "long") => getcurrency(v) = m.n
             /\ m.itype = "currency" /\ m.n >= 0 => Abs(ParseCurrency(svalue(v)) - m.n) <= 5

\* Two numbers stand in the order in which they were given, by every operator, if the
\* type of the right side has room for both (value::operator<, >, <=, >=, ==). An
\* amount on the right is left out, and for what is not a long itself <=, >= and ==
\* with a long, which read a long out of the union.
OrdersAgree ==
    LET v == scalar["left"]    w == scalar["right"]
        m == meant["left"]     o == meant["right"]
        byDouble == o.itype \in {"double", "bool"}
        n == IF byDouble THEN m.n ELSE Whole(m)
        k == IF byDouble THEN o.n ELSE Whole(o) IN
    /\ Numeric(m) /\ Numeric(o) /\ o.itype # "currency"
    /\ Fits(n, IF o.itype = "date" THEN "unsigned" ELSE o.itype)
    /\ m.itype = "currency" => o.itype # "ulong"
    /\ m.itype = "date" => ~ byDouble
    => /\ LessThan(v, w) <=> n < k
       /\ MoreThan(v, w) <=> n > k
       /\ o.itype # "long" \/ m.itype \in Long64 =>
            /\ AtMost(v, w) <=> n <= k
            /\ AtLeast(v, w) <=> n >= k
            /\ Equals(v, w) <=> n = k
=============================================================================
