------------------------------ MODULE Wildcard ------------------------------
(***************************************************************************)
(* string::globcmp (reg.cpp): does a text match a mask, in which a star    *)
(* stands for anything, a percent sign for anything without a blank and a  *)
(* question mark for one character? httpd asks it which of its objects,    *)
(* those that ask for a password among them, see a request.                *)
(*                                                                         *)
(* A pointer is the index of a character, NULL is 0 and the character      *)
(* behind the last one is "". What lies behind a mask is none of those     *)
(* that mean something.                                                    *)
(***************************************************************************)
EXTENDS Naturals, Sequences

CONSTANTS
    MaskCharacters, MaxMask,
    Matched,          \* the texts
    Lower             \* what tolower makes of the characters

VARIABLE mask         \* one after another


Char(s, i) == IF i \in DOMAIN s THEN s[i] ELSE ""
Same(a, b) == (a = "" /\ b = "") \/ (a # "" /\ b # "" /\ Lower[a] = Lower[b])

\* Where the character to compare is: an escaped star, and whatever stands before a
\* question mark.
Escapes(ms, m) ==
    IF (Char(ms, m) = "\\" /\ Char(ms, m + 1) = "*") \/ Char(ms, m + 1) = "?" THEN m + 1 ELSE m

\* What does not fit is tried again behind the last percent sign, unless there is a
\* blank to pass, or else behind the last star, one character further on.
PassBlank(t, w) == IF Char(t, w.n) = " " THEN [w EXCEPT !.pm = 0] ELSE w
\* MUTANT: the text goes on behind the character that did not fit.
AgainFromHere(t, w) ==
    IF w.pm # 0 THEN PassBlank(t, [w EXCEPT !.m = w.pm, !.n = w.pn + 1, !.pn = @ + 1])
    ELSE [w EXCEPT !.m = w.ma, !.n = @ + 1]
Again(t, w) ==
    IF w.pm # 0 THEN PassBlank(t, [w EXCEPT !.m = w.pm, !.n = w.pn + 1, !.pn = @ + 1])
    ELSE [w EXCEPT !.m = w.ma, !.n = w.na + 1, !.na = @ + 1]

\* The loop once a star or percent sign was met.
RECURSIVE Backtracking(_, _, _)
Backtracking(ms, t, w) ==
    LET c == Char(ms, w.m)
        next == Char(t, w.n)
        at == IF c \in {"", "\\"} THEN Escapes(ms, w.m) ELSE w.m IN
    CASE c = "*" -> Backtracking(ms, t, [w EXCEPT !.m = @ + 1, !.ma = w.m + 1, !.na = w.n, !.just = TRUE])
      [] c = "%" -> Backtracking(ms, t, PassBlank(t, [w EXCEPT !.m = @ + 1, !.pm = w.m + 1, !.pn = w.n]))
      [] c = "?" -> next # "" /\ Backtracking(ms, t, [w EXCEPT !.m = @ + 1, !.n = @ + 1])
      [] c = "" /\ (next = "" \/ w.just) -> TRUE
      [] OTHER ->
           LET v == [w EXCEPT !.just = FALSE] IN
           IF Same(Char(ms, at), next) THEN Backtracking(ms, t, [v EXCEPT !.m = at + 1, !.n = @ + 1])
           ELSE /\ next # ""
                /\ v.pm # 0 \/ (v.ma # 0 /\ Char(t, Again(t, v).n) # "")
                /\ Backtracking(ms, t, Again(t, v))

\* The loop before that. Behind a question mark the next character is compared as it
\* stands, and a text that ends there matches whatever follows.
RECURSIVE Straight(_, _, _, _)
Straight(ms, t, m, n) ==
    LET Compared(i, k) == Same(Char(ms, i), Char(t, k)) /\ Straight(ms, t, i + 1, k + 1)
        c == Char(ms, m) IN
    CASE c \in {"*", "%"} ->
           Backtracking(ms, t, [m |-> m, n |-> n, ma |-> 0, na |-> 0, pm |-> 0, pn |-> 0, just |-> FALSE])
      [] c = "?" -> /\ Char(t, n) # ""
                    /\ Char(t, n + 1) = "" \/ Compared(Escapes(ms, m + 1), n + 1)
      [] c = "" -> Char(t, n) = "" \/ Compared(Escapes(ms, m), n)
      [] c = "\\" -> Compared(Escapes(ms, m), n)
      [] OTHER -> Compared(m, n)

wild_match(ms, t) == Straight(ms, t, 1, 1)

-----------------------------------------------------------------------------
\* What a mask means.
RECURSIVE Means(_, _)
Means(ms, t) ==
    LET rest == Tail(ms)
        From(i) == SubSeq(t, i + 1, Len(t)) IN
    IF ms = <<>> THEN t = <<>>
    ELSE CASE Head(ms) = "*" -> \E i \in 0 .. Len(t) : Means(rest, From(i))
           [] Head(ms) = "%" -> \E i \in 0 .. Len(t) : Means(rest, From(i)) /\ \A k \in 1 .. i : t[k] # " "
           [] Head(ms) = "?" -> t # <<>> /\ Means(rest, From(1))
           [] Head(ms) = "\\" /\ Char(ms, 2) = "*" -> Char(t, 1) = "*" /\ Means(Tail(rest), From(1))
           [] OTHER -> t # <<>> /\ Same(Head(ms), Head(t)) /\ Means(rest, From(1))

GlobInit == mask = <<>>
another == \E c \in MaskCharacters : Len(mask) < MaxMask /\ mask' = Append(mask, c)
GlobSpec == GlobInit /\ [][another]_mask

\* A mask that matches means it, and of those with only one kind of wildcard, or with
\* stars and question marks, each that means it matches. No question mark may stand
\* before the first star or percent sign, or be escaped.
GlobAsMeant ==
    LET wild(i) == mask[i] \in {"*", "%"} /\ (i = 1 \/ mask[i] = "%" \/ mask[i - 1] # "\\")
        has(c) == \E i \in DOMAIN mask : mask[i] = c /\ (c = "?" \/ wild(i))
        InOrder == \A i \in DOMAIN mask :
            mask[i] = "?" => (\E k \in 1 .. i - 1 : wild(k)) /\ mask[i - 1] # "\\" IN
    InOrder => \A t \in Matched :
        /\ wild_match(mask, t) => Means(mask, t)
        /\ Means(mask, t) /\ ~ (has("%") /\ (has("*") \/ has("?"))) => wild_match(mask, t)
=============================================================================
