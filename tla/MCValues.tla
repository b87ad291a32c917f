------------------------------ MODULE MCValues ------------------------------
(***************************************************************************)
(* Strings, the children of values, and dictionaries for TLC. A behaviour  *)
(* is one of part; what does not take part stands still in an initial      *)
(* state.                                                                  *)
(***************************************************************************)
EXTENDS StrBlocks, ValueTree, TLC

VARIABLE part

(* Two names of four have one checksum. *)
MCChecksum == [n \in Names |-> CASE n = "c" -> 1 [] n \in {"a", "b"} -> 2 [] n = "d" -> 3]
MCMost == "v" :> 4 @@ "w" :> 2

(* A text that begins with white space. *)
MCBlanks == {<<" ", "x", "x">>}
MCLengths == {-1, 2}
MCPieces == {<<1, 0>>, <<0, 1>>}

ValuesInit ==
    /\ part \in {"str", "value", "dict"}
    /\ ValueInit /\ DictInit
    /\ IF part = "str" THEN StrInit
       ELSE /\ blocks = [a \in Where |-> Freed] /\ strings = [x \in Strings |-> EmptyString]
            /\ means = [x \in Strings |-> <<>>] /\ calls = 0

ValuesNext ==
    /\ UNCHANGED part
    /\ \/ part = "str" /\ StrNext /\ UNCHANGED <<valueVars, dictVars>>
       \/ part = "value" /\ ValueNext /\ UNCHANGED <<strVars, dictVars>>
       \/ part = "dict" /\ DictNext /\ UNCHANGED <<strVars, valueVars>>

ValuesSpec == ValuesInit /\ [][ValuesNext]_<<part, strVars, valueVars, dictVars>>

Symmetry == Permutations(Strings) \union Permutations(Planets)

\* The variables of the parts keep their types.
ValuesTypeOK == StrTypeOK /\ ValueTypeOK /\ DictTypeOK

\* What was put into a value or a dictionary is found in it, and nothing else:
\* ChildrenFound and EntriesFound.
MembersFound == ChildrenFound /\ EntriesFound

\* A string shows what a real copy would, a value and a dictionary what was put
\* there: StringsAreValues and MembersFound.
ValuesKept == StringsAreValues /\ MembersFound
=============================================================================
