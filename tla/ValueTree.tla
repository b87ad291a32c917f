------------------------------ MODULE ValueTree ------------------------------
(***************************************************************************)
(* The children of a value (value.cpp, value_sort.cpp): an array of which  *)
(* the first ucount have no name; those behind them do, in the order in    *)
(* which they were made, and are linked in a binary tree by the checksum   *)
(* of the name, of which the first is the root. A child is shown by its    *)
(* position and found by its name, and a valueindex finds the children by  *)
(* what is in them. The children here have no children of their own.       *)
(***************************************************************************)
EXTENDS Integers, FiniteSets, Sequences, SequencesExt

(* Names as the trees of this library see them: by the checksum, which two can *)
(* share, and then by the text.                                                *)
CONSTANTS
    Names,         \* of children, entries and strings
    Checksum,      \* of each
    NoName         \* what has none, and no link

ASSUME NameAssumption == NoName \notin Names /\ Checksum \in [Names -> Nat \ {0}]

CONSTANTS
    Values,        \* value objects
    Contents,      \* names that are put in children
    Most           \* bound on the children of each

ASSUME MostAssumption == Most \in [Values -> Nat] /\ Contents \subseteq Names

VARIABLES
    children,      \* of each value, [array, ucount]
    shown          \* what positions should show: <<name, data>> of each

valueVars == <<children, shown>>

Void == [array |-> <<>>, ucount |-> 0]
Child(name, data) == [name |-> name, data |-> data, lower |-> NoName, higher |-> NoName]
NoData == NoName

Size(v) == Len(v.array)
At(v, name) == CHOOSE i \in 1 .. Size(v) : v.array[i].name = name

(***************************************************************************)
(* The tree. A search is the sequence of nodes it comes by; it ends at the *)
(* node that matches or at the last one, to which a new one is linked.     *)
(***************************************************************************)
Anything == "any"    \* no name given, the checksum decides
Matches(node, k, name) == node.name # NoName /\ Checksum[node.name] = k
                          /\ name \in {Anything, node.name}
KeyOf(node) == IF node.name = NoName THEN 0 ELSE Checksum[node.name]
Onwards(node, k) == IF k < KeyOf(node) THEN node.lower ELSE node.higher

Search(v, k, name) ==
    LET crsr[n \in 1 .. Size(v)] ==
            IF n = 1 THEN v.array[v.ucount + 1]
            ELSE LET node == crsr[n - 1] IN
                 IF Matches(node, k, name) \/ Onwards(node, k) = NoName THEN node
                 ELSE v.array[At(v, Onwards(node, k))]
    IN  crsr[Size(v)]

\* havechild, and the const findchild.
Have(v, k, name) == Size(v) > v.ucount /\ Matches(Search(v, k, name), k, name)

\* MUTANT: what has the same checksum goes lower.
LinkedLower(v, parent, name) ==
    [v EXCEPT !.array[At(v, parent.name)] =
        IF Checksum[name] <= KeyOf(parent) THEN [@ EXCEPT !.lower = name]
        ELSE [@ EXCEPT !.higher = name]]
Linked(v, parent, name) ==
    [v EXCEPT !.array[At(v, parent.name)] =
        IF Checksum[name] < KeyOf(parent) THEN [@ EXCEPT !.lower = name]
        ELSE [@ EXCEPT !.higher = name]]

\* findchild: [v, at], where the child is, made if it is not there.
FindChild(v, name) ==
    LET k == Checksum[name]
        end == Search(v, k, name)
        grown == [v EXCEPT !.array = Append(@, Child(name, NoData))]
    IN  IF Have(v, k, name) THEN [v |-> v, at |-> At(v, end.name)]
        ELSE [at |-> Size(v) + 1,
              v |-> IF Size(v) > v.ucount THEN Linked(grown, end, name) ELSE grown]

\* relinktree
Relink(v) ==
    LET Unlinked(array, node) == Append(array, Child(node.name, node.data))
        bare == [v EXCEPT !.array = FoldLeft(Unlinked, <<>>, @)]
        Link(w, i) == Linked(w, Search(w, Checksum[w.array[i].name], NoName), w.array[i].name)
    IN  FoldLeft(Link, bare, [i \in 1 .. Size(v) - v.ucount - 1 |-> v.ucount + 1 + i])

(***************************************************************************)
(* The array                                                               *)
(***************************************************************************)
SetAt(v, i, data) == [v EXCEPT !.array[i].data = data]
\* operator[] (name) = data
SetChild(v, name, data) == LET f == FindChild(v, name) IN SetAt(f.v, f.at, data)

\* newval and insertval: before the i-th.
Placed(v, i, data) == [array |-> InsertAt(v.array, i, Child(NoName, data)), ucount |-> v.ucount + 1]
NewVal(v, data) == Placed(v, v.ucount + 1, data)

\* getposition: unnamed children up to it, i from 0. Where there are named ones
\* the guards leave it alone: see Grows.
Position(v, i) ==
    IF i < Size(v) THEN v
    ELSE [array |-> v.array \o [j \in 1 .. i + 1 - Size(v) |-> Child(NoName, NoData)],
          ucount |-> IF Size(v) = v.ucount THEN i + 1 ELSE v.ucount]

\* MUTANT: ucount stays.
WithoutUncounted(v, i) == Relink([v EXCEPT !.array = RemoveAt(@, i)])
\* rmval, once it has found the child.
Without(v, i) ==
    Relink([array |-> RemoveAt(v.array, i), ucount |-> IF i <= v.ucount THEN v.ucount - 1 ELSE v.ucount])
\* rmval of a name, the first that matches from the start of the array.
RmVal(v, k, name) ==
    LET S == {i \in 1 .. Size(v) : Matches(v.array[i], k, name)} IN
    IF S = {} THEN v ELSE Without(v, CHOOSE i \in S : \A j \in S : i <= j)
\* rmindex; a negative one counts from the end.
RmIndex(v, index) ==
    LET i == IF index < 0 THEN index + Size(v) ELSE index IN
    IF i < 0 \/ i >= Size(v) THEN v ELSE Without(v, i + 1)

\* What operator=, operator<< and the cuts make of a child of another value.
Taken(v, child) == IF child.name # NoName THEN SetChild(v, child.name, child.data)
                   ELSE NewVal(v, child.data)
Collect(v, list) == FoldLeft(Taken, v, list)

\* cutleft, copyleft and cutright, copyright: the last is the first of those.
Cut(v, cnt) == LET n == IF cnt < 0 THEN cnt + Size(v) ELSE cnt IN
               IF n < 0 THEN 0 ELSE IF n > Size(v) THEN Size(v) ELSE n
LeftOf(v, n) == SubSeq(v.array, 1, n)
RightOf(v, n) == Reverse(SubSeq(v.array, Size(v) - n + 1, Size(v)))
RmMany(v, index, n) == FoldLeft(LAMBDA w, i : RmIndex(w, index), v, [i \in 1 .. n |-> i])

\* splice
Spliced(v, p, c) ==
    LET q == IF p < 0 THEN p + Size(v) ELSE p
        pos == IF q < 0 \/ q > Size(v) THEN Size(v) ELSE q
        count == IF c < 0 THEN Size(v) - pos ELSE c
        end == IF pos + count > Size(v) THEN Size(v) ELSE pos + count
    IN  SubSeq(v.array, pos + 1, end)

\* sort: each is put by a binary search into those sorted so far. min, max and
\* crsr are indices from 0.
Place(narray, x, Greater(_, _)) ==
    LET I == 0 .. Len(narray)
        place[min \in I, max \in I, crsr \in I] ==
            IF Greater(x, narray[crsr + 1])
            THEN IF max - crsr < 2 THEN max
                 ELSE place[crsr, max, crsr + (max - crsr) \div 2]
            ELSE IF crsr - min < 1 THEN min
                 ELSE place[min, crsr, crsr - (1 + crsr - min) \div 2]
    IN  place[0, Len(narray), Len(narray) \div 2]
Sorted(v, Greater(_, _)) ==
    LET Put(narray, x) == InsertAt(narray, Place(narray, x, Greater) + 1, x) IN
    IF (v.ucount > 0 /\ Size(v) # v.ucount) \/ Size(v) < 2 THEN v
    ELSE Relink([v EXCEPT !.array = FoldLeft(Put, <<Head(@)>>, Tail(@))])

\* labelSort and valueSort. Nothing is before any name.
Rank == [n \in Names \union {NoName} |->
            IF n = NoName THEN 0 ELSE 1 + Cardinality({m \in Names : Checksum[m] < Checksum[n]})]
LabelSort(l, r) == Rank[l.name] > Rank[r.name]
ValueSort(l, r) == Rank[l.data] > Rank[r.data]

(***************************************************************************)
(* valueindex: [id, refs, lower, higher] of each indexreference.           *)
(***************************************************************************)
Ref(id) == [id |-> id, refs |-> <<>>, lower |-> NoName, higher |-> NoName]
RefAt(index, id) == CHOOSE i \in DOMAIN index : index[i].id = id
RefSearch(index, id) ==
    LET On(r) == IF Checksum[id] < Checksum[r.id] THEN r.lower ELSE r.higher
        crsr[n \in DOMAIN index] ==
            IF n = 1 THEN index[1]
            ELSE LET r == crsr[n - 1] IN
                 IF r.id = id \/ On(r) = NoName THEN r ELSE index[RefAt(index, On(r))]
    IN  crsr[Len(index)]
RefFound(index, id) == index # <<>> /\ RefSearch(index, id).id = id

\* addreference, to a new indexreference if none was found.
AddReference(index, id, i) ==
    LET end == RefSearch(index, id)
        grown == IF index = <<>> THEN <<Ref(id)>>
                 ELSE Append([index EXCEPT ![RefAt(index, end.id)] =
                                IF Checksum[id] < Checksum[end.id] THEN [@ EXCEPT !.lower = id]
                                ELSE [@ EXCEPT !.higher = id]], Ref(id))
        all == IF RefFound(index, id) THEN index ELSE grown
    IN  [all EXCEPT ![RefAt(all, id)].refs = Append(@, i)]

\* indexvalues
IndexValues(v) ==
    LET Add(index, i) == IF v.array[i].data = NoData THEN index
                         ELSE AddReference(index, v.array[i].data, i)
    IN  FoldLeft(Add, <<>>, [i \in 1 .. Size(v) |-> i])

(***************************************************************************)
(* The steps, of a value v and what another gets of it.                    *)
(***************************************************************************)
Shows(v) == [i \in 1 .. Size(v) |-> <<v.array[i].name, v.array[i].data>>]

Become(new, should) ==
    /\ \A v \in Values : Size(new[v]) <= Most[v]
    /\ children' = new /\ shown' = should
Only(v, new, should) == Become([children EXCEPT ![v] = new], [shown EXCEPT ![v] = should])

\* What they should show: a list of the unnamed and a map of the named, in order.
Unnamed(list) == SelectSeq(list, LAMBDA p : p[1] = NoName)
Named(list) == SelectSeq(list, LAMBDA p : p[1] # NoName)
Has(list, name) == \E i \in DOMAIN list : list[i][1] = name
With(list, name, data) ==
    IF Has(list, name) THEN [i \in DOMAIN list |-> IF list[i][1] = name THEN <<name, data>> ELSE list[i]]
    ELSE Append(list, <<name, data>>)
More(list, data) == Unnamed(list) \o <<<<NoName, data>>>> \o Named(list)
AddedTo(list, p) == IF p[1] = NoName THEN More(list, p[2]) ELSE With(list, p[1], p[2])
Merged(list, others) == FoldLeft(AddedTo, list, others)

ValueInit == children = [v \in Values |-> Void] /\ shown = [v \in Values |-> <<>>]

setChild(v) == \E n \in Names, d \in Contents :
    Only(v, SetChild(children[v], n, d), With(shown[v], n, d))
newval(v) == \E d \in Contents : Only(v, NewVal(children[v], d), More(shown[v], d))
\* insertval, and where there is no unnamed child there: operator[] (int).
insertval(v) == \E i \in 0 .. children[v].ucount - 1, d \in Contents :
    Only(v, Placed(children[v], i + 1, d), InsertAt(shown[v], i + 1, <<NoName, d>>))

\* operator[] (int) = data; a negative one counts from the end.
Grows(v, i) == i < Size(children[v]) \/ Named(shown[v]) = <<>>
setPosition(v) == \E i \in -Size(children[v]) .. Most[v] - 1, d \in Contents :
    LET at == IF i < 0 THEN i + Size(children[v]) ELSE i
        size == Len(shown[v])
    IN  /\ Grows(v, at)
        /\ Only(v, SetAt(Position(children[v], at), at + 1, d),
                [j \in 1 .. (IF at < size THEN size ELSE at + 1) |->
                    CASE j = at + 1 -> <<IF j <= size THEN shown[v][j][1] ELSE NoName, d>>
                      [] j <= size /\ j # at + 1 -> shown[v][j]
                      [] OTHER -> <<NoName, NoData>>])

rmval(v) == \E n \in Names : Only(v, RmVal(children[v], Checksum[n], n),
                                  SelectSeq(shown[v], LAMBDA p : p[1] # n))
\* By the checksum: the oldest that has it.
rmkey(v) == \E n \in Names :
    LET S == {i \in DOMAIN shown[v] : shown[v][i][1] \in {m \in Names : Checksum[m] = Checksum[n]}} IN
    Only(v, RmVal(children[v], Checksum[n], Anything),
         IF S = {} THEN shown[v] ELSE RemoveAt(shown[v], CHOOSE i \in S : \A j \in S : i <= j))
rmindex(v) == \E i \in -Most[v] .. Most[v] :
    LET at == IF i < 0 THEN i + Len(shown[v]) ELSE i IN
    Only(v, RmIndex(children[v], i),
         IF at \in 0 .. Len(shown[v]) - 1 THEN RemoveAt(shown[v], at + 1) ELSE shown[v])
clear(v) == Only(v, Void, <<>>)

\* operator= (const value &), after clear, and operator<<.
copyFrom(v, w) == Only(v, Collect(Void, children[w].array), shown[w])
addAll(v, w) == Only(v, Collect(children[v], children[w].array), Merged(shown[v], shown[w]))

\* w = v.cutleft (n) and the others: operator= (value *) gives w what was made.
Gets(v, w, rest, made, restShown, madeShown) ==
    Become([children EXCEPT ![v] = rest, ![w] = made], [shown EXCEPT ![v] = restShown, ![w] = madeShown])
Counts(v) == -Most[v] .. Most[v] \ {0}
FirstOf(list, n) == SubSeq(list, 1, n)
LastOf(list, n) == Reverse(SubSeq(list, Len(list) - n + 1, Len(list)))

cutleft(v, w) == \E c \in Counts(v) : LET n == Cut(children[v], c) IN
    Gets(v, w, RmMany(children[v], 0, n), Collect(Void, LeftOf(children[v], n)),
         SubSeq(shown[v], n + 1, Len(shown[v])), Merged(<<>>, FirstOf(shown[v], n)))
cutright(v, w) == \E c \in Counts(v) : LET n == Cut(children[v], c) IN
    Gets(v, w, RmMany(children[v], -1, n), Collect(Void, RightOf(children[v], n)),
         SubSeq(shown[v], 1, Len(shown[v]) - n), Merged(<<>>, LastOf(shown[v], n)))
copyleft(v, w) == \E c \in Counts(v) : LET n == Cut(children[v], c) IN
    Only(w, Collect(Void, LeftOf(children[v], n)), Merged(<<>>, FirstOf(shown[v], n)))
copyright(v, w) == \E c \in Counts(v) : LET n == Cut(children[v], c) IN
    Only(w, Collect(Void, RightOf(children[v], n)), Merged(<<>>, LastOf(shown[v], n)))
splice(v, w) == \E p \in Counts(v) \union {0}, c \in -1 .. Most[v] :
    LET at == IF p < 0 THEN p + Len(shown[v]) ELSE p
        end == IF c < 0 \/ at + c > Len(shown[v]) THEN Len(shown[v]) ELSE at + c
    IN  Only(w, Collect(Void, Spliced(children[v], p, c)),
             IF at < 0 THEN <<>> ELSE SubSeq(shown[v], at + 1, end))

\* byvalue, of a value in which nothing is void.
byvalue(v, w) ==
    LET Switch(u, child) == SetChild(u, child.data, child.name)
        Switched(list, p) == With(list, p[2], p[1])
    IN  /\ \A i \in DOMAIN shown[v] : shown[v][i][2] # NoData
        /\ Only(w, FoldLeft(Switch, Void, children[v].array), FoldLeft(Switched, <<>>, shown[v]))

\* sort: the same children in an order of theirs; which, among equals, is not said.
InOrder(list, Greater(_, _)) ==
    \A i, j \in DOMAIN list : i < j => ~ Greater(list[i], list[j])
Rearranged(list, other) ==
    /\ Len(list) = Len(other)
    /\ \A p \in ToSet(list) \union ToSet(other) :
         Cardinality({i \in DOMAIN list : list[i] = p}) = Cardinality({i \in DOMAIN other : other[i] = p})
Sorts(v, Greater(_, _)) ==
    LET new == Sorted(children[v], Greater) IN
    Only(v, new, IF /\ Rearranged(Shows(new), shown[v])
                    /\ InOrder(new.array, Greater) \/ (Unnamed(shown[v]) # <<>> /\ Named(shown[v]) # <<>>)
                 THEN Shows(new) ELSE shown[v])
sort(v) == Sorts(v, LabelSort) \/ Sorts(v, ValueSort)

ValueNext ==
    \/ \E v \in Values : \/ setChild(v) \/ newval(v) \/ insertval(v) \/ setPosition(v)
                         \/ rmval(v) \/ rmkey(v) \/ rmindex(v) \/ clear(v) \/ sort(v)
    \/ \E v, w \in Values :
         v # w /\ \/ copyFrom(v, w) \/ addAll(v, w) \/ cutleft(v, w) \/ cutright(v, w)
                  \/ copyleft(v, w) \/ copyright(v, w) \/ splice(v, w) \/ byvalue(v, w)

ValueSpec == ValueInit /\ [][ValueNext]_valueVars

-----------------------------------------------------------------------------
ValueTypeOK ==
    \A v \in Values : LET x == children[v] IN
        /\ x.ucount \in 0 .. Size(x)
        /\ \A i \in 1 .. Size(x) : /\ {x.array[i].lower, x.array[i].higher} \subseteq Names \union {NoName}
                                   /\ (i <= x.ucount) = (x.array[i].name = NoName)

\* After any calls the positions show the children that were put there, in their
\* order; each name finds the child at its position and no other name finds one;
\* a checksum finds the oldest child that has it; and an index made of the values
\* has for each of them the children it is in, in their order.
ChildrenFound ==
    \A v \in Values : LET x == children[v]  index == IndexValues(x) IN
        /\ Shows(x) = shown[v]
        /\ \A n \in Names : LET k == Checksum[n] IN
             /\ Have(x, k, n) = Has(shown[v], n)
             /\ Have(x, k, n) => <<n, Search(x, k, n).data>> \in ToSet(shown[v])
             /\ Have(x, k, Anything) = \E m \in Names : Checksum[m] = k /\ Has(shown[v], m)
             /\ Have(x, k, Anything) =>
                  LET o == Search(x, k, Anything) IN
                  \A i \in 1 .. At(x, o.name) - 1 : ~ Matches(x.array[i], k, Anything)
             /\ LET S == {i \in DOMAIN shown[v] : shown[v][i][2] = n} IN
                /\ RefFound(index, n) = (S # {})
                /\ S # {} => RefSearch(index, n).refs = SetToSortSeq(S, <)

(***************************************************************************)
(* dictionary <kind> (dictionary.h) and stringdict, which is made of one:  *)
(* entries in the order in which they were made, in a tree by the checksum *)
(* of which the first is the root. Which objects the dictionary deletes is *)
(* left out.                                                               *)
(***************************************************************************)
CONSTANTS
    Objects,       \* of the kind
    MaxEntries     \* bound on the entries

ASSUME EntriesAssumption == MaxEntries \in Nat /\ NoName \notin Objects

VARIABLES
    entries,       \* [id, ent, lower, higher] of each
    mapped,        \* what each name should find: an object, or NoName
    numbered,      \* the entries of the stringdict: the object is a number
    byid,          \* its strings by number
    given          \* the number that each string was given, -1 for none

dictVars == <<entries, mapped, numbered, byid, given>>

Entry(id, ent) == [id |-> id, ent |-> ent, lower |-> NoName, higher |-> NoName]
Index(d, id) == CHOOSE i \in DOMAIN d : d[i].id = id

\* The last entry that a look comes by, for a checksum and an id or none.
On(e, k) == IF Checksum[e.id] < k THEN e.higher ELSE e.lower
Look(d, k, id) ==
    LET crsr[n \in DOMAIN d] ==
            IF n = 1 THEN d[1]
            ELSE LET e == crsr[n - 1] IN
                 IF e.id = id \/ On(e, k) = NoName THEN e ELSE d[Index(d, On(e, k))]
    IN  crsr[Len(d)]
Found(d, id) == Look(d, Checksum[id], id)
Exists(d, id) == d # <<>> /\ Found(d, id).id = id

\* MUTANT: equal checksums go to the other side of where they are looked for.
HangHigher(d, parent, id) ==
    [d EXCEPT ![Index(d, parent.id)] =
        IF Checksum[parent.id] <= Checksum[id] THEN [@ EXCEPT !.higher = id]
        ELSE [@ EXCEPT !.lower = id]]
Hang(d, parent, id) ==
    [d EXCEPT ![Index(d, parent.id)] =
        IF Checksum[parent.id] < Checksum[id] THEN [@ EXCEPT !.higher = id]
        ELSE [@ EXCEPT !.lower = id]]

\* demand: newentry, with what is given, if it is not there.
Demand(d, id, ent) ==
    IF Exists(d, id) THEN d
    ELSE Append(IF d = <<>> THEN d ELSE Hang(d, Found(d, id), id), Entry(id, ent))

\* remove, which builds the tree anew of the others.
RemoveEntry(d, id) ==
    LET Bare(some, e) == IF e.id = id THEN some ELSE Append(some, Entry(e.id, e.ent))
        rest == FoldLeft(Bare, <<>>, d)
        Again(some, i) == Hang(some, Look(some, Checksum[some[i].id], NoName), some[i].id)
    IN  FoldLeft(Again, rest, [i \in 1 .. Len(rest) - 1 |-> i + 1])

DictInit ==
    /\ entries = <<>> /\ mapped = [n \in Names |-> NoName]
    /\ numbered = <<>> /\ byid = <<>> /\ given = [n \in Names |-> -1]

Now(d, id, object) ==
    /\ Len(d) <= MaxEntries
    /\ entries' = d /\ mapped' = [mapped EXCEPT ![id] = object]
    /\ UNCHANGED <<numbered, byid, given>>

\* operator[] (name), where a new entry is given a new object.
demand(id) == \E o \in Objects :
    Now(Demand(entries, id, o), id, IF mapped[id] = NoName THEN o ELSE mapped[id])

\* set
set(id) == \E o \in Objects :
    LET d == Demand(entries, id, o) IN Now([d EXCEPT ![Index(d, id)].ent = o], id, o)

\* rmval and clear
remove(id) == Now(RemoveEntry(entries, id), id, NoName)
clearAll ==
    /\ entries' = <<>> /\ mapped' = [n \in Names |-> NoName]
    /\ UNCHANGED <<numbered, byid, given>>

\* stringdict::get: the number of a string, a new one for a new string.
get(id) ==
    LET old == Exists(numbered, id)
        number == IF old THEN Found(numbered, id).ent ELSE Len(byid)
    IN  /\ byid' = IF old THEN byid ELSE Append(byid, id)
        /\ numbered' = Demand(numbered, id, number)
        /\ given' = [given EXCEPT ![id] = IF @ = -1 THEN number ELSE @]
        /\ UNCHANGED <<entries, mapped>>

DictNext == clearAll \/ \E id \in Names : demand(id) \/ set(id) \/ remove(id) \/ get(id)

DictSpec == DictInit /\ [][DictNext]_dictVars

-----------------------------------------------------------------------------
DictTypeOK ==
    /\ \A i \in DOMAIN entries : /\ entries[i].id \in Names /\ entries[i].ent \in Objects
                                 /\ {entries[i].lower, entries[i].higher} \subseteq Names \union {NoName}
    /\ ToSet(byid) \subseteq Names

\* A name finds the object it was given last and a removed name finds none,
\* whichever names share a checksum and however often the tree was built anew. A
\* string keeps the number it was given, and the number leads back to the string.
EntriesFound ==
    /\ \A n \in Names : /\ Exists(entries, n) = (mapped[n] # NoName)
                        /\ mapped[n] # NoName => Found(entries, n).ent = mapped[n]
    /\ \A n \in Names : /\ Exists(numbered, n) = (given[n] # -1)
                        /\ given[n] # -1 => /\ Found(numbered, n).ent = given[n]
                                            /\ byid[given[n] + 1] = n
=============================================================================
