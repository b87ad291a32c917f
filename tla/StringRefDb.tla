---------------------------- MODULE StringRefDb ----------------------------
(***************************************************************************)
(* The process-wide database of strings behind the class statstring        *)
(* (statstring.h, statstring.cpp): a search tree of reference counted      *)
(* nodes, ordered by a checksum that ignores case, so that two strings may *)
(* well have one key. A node that nobody refers to stays in the tree until *)
(* the text of such nodes passes MaxDirty; reap then takes them all out    *)
(* and puts them on the nuke chain, which the next reap deletes.           *)
(*                                                                         *)
(* Every method runs under treelock: each is one action. An assignment to  *)
(* a statstring is two calls, unref and then getref or cpref, and other    *)
(* threads come in between: Drop and then Get or Copy. A stringref is its  *)
(* address; addresses that were deleted are handed out again.              *)
(***************************************************************************)
EXTENDS Integers, FiniteSets, Functions

CONSTANTS
    Handles,    \* the statstring objects
    Refs,       \* addresses of stringrefs, the root's among them
    Root, NoRef,
    Names,      \* what statstrings hold: a text and its key
    RootName,   \* the empty text with key 0x80000000
    Key,        \* [Names -> Int], equal for names that differ in case
    TextLen,    \* [Names -> Nat], str.strlen()
    MaxDirty    \* 65536 in the code

ASSUME NamesAssumption ==
    /\ Root \in Refs /\ NoRef \notin Refs /\ RootName \in Names
    /\ Key \in [Names -> Int] /\ TextLen \in [Names -> Nat]
    /\ TextLen[RootName] = 0
    \* a second name with the root's key meets the root's id, see README
    /\ \A n \in Names : Key[n] = Key[RootName] => n = RootName

VARIABLES
    db,       \* the nodes: parent, lower, higher, name; and nukeroot
    refcnt,   \* stringref::refcnt
    dirty,    \* dirtycount
    held    \* statstring::ref

dbVars == <<db, refcnt, dirty, held>>

Links == Refs \union {NoRef}

\* Addresses that are in use: the others can be handed out by new.
Allocated == {r \in Refs : db.name[r] # "free"}

DbInit ==
    /\ db = [parent |-> [r \in Refs |-> NoRef],
             lower  |-> [r \in Refs |-> NoRef],
             higher |-> [r \in Refs |-> NoRef],
             name   |-> [r \in Refs |-> IF r = Root THEN RootName ELSE "free"],
             nukeroot |-> NoRef]
    /\ refcnt = [r \in Refs |-> 0]
    /\ dirty = 0
    /\ held = [h \in Handles |-> NoRef]

KeyOf(d, r) == Key[d.name[r]]

(***************************************************************************)
(* The tree                                                                *)
(***************************************************************************)
\* Where the loops of getref and linkref go from r for a key: an equal key
\* goes lower.
Side(d, r, key) == IF KeyOf(d, r) < key THEN d.higher[r] ELSE d.lower[r]

\* The last node on the way down from r for a name: the node with the name, or
\* the one a new node goes under.
RECURSIVE Descend(_, _, _)
Descend(d, r, n) ==
    IF d.name[r] = n \/ Side(d, r, Key[n]) = NoRef THEN r
    ELSE Descend(d, Side(d, r, Key[n]), n)

Find(d, n) == LET r == Descend(d, Root, n) IN IF d.name[r] = n THEN r ELSE NoRef

Under(d, p, r) ==
    IF KeyOf(d, p) < KeyOf(d, r)
    THEN [d EXCEPT !.parent[r] = p, !.higher[p] = r]
    ELSE [d EXCEPT !.parent[r] = p, !.lower[p] = r]

\* linkref: hang the subtree of r back into the tree.
LinkRef(d, r) == IF r = NoRef THEN d ELSE Under(d, Descend(d, Root, d.name[r]), r)

\* MUTANT: reap loses what hung higher than a node it takes out.
LinkLowerOnly(d, higher, lower) == LinkRef(d, lower)
LinkBoth(d, higher, lower) == LinkRef(LinkRef(d, higher), lower)

RECURSIVE ChainEnd(_, _)
ChainEnd(d, r) == IF d.lower[r] = NoRef THEN r ELSE ChainEnd(d, d.lower[r])

\* MUTANT: the chain is started anew by each node.
NukeOnly(d, r) == [d EXCEPT !.nukeroot = r]
Nuke(d, r) ==
    IF d.nukeroot = NoRef THEN [d EXCEPT !.nukeroot = r]
    ELSE [d EXCEPT !.lower[ChainEnd(d, d.nukeroot)] = r]

\* What reap does with a node nobody refers to.
TakeOut(d, r) ==
    LET p == d.parent[r]
        off == IF d.lower[p] = r THEN [d EXCEPT !.lower[p] = NoRef]
                                 ELSE [d EXCEPT !.higher[p] = NoRef]
        linked == LinkBoth(off, d.higher[r], d.lower[r])
    IN  Nuke([linked EXCEPT !.lower[r] = NoRef, !.higher[r] = NoRef], r)

\* The two links are read before anything is moved.
RECURSIVE Reap(_, _, _)
Reap(d, r, cnt) ==
    IF r = NoRef THEN d
    ELSE LET here == IF d.parent[r] # NoRef /\ cnt[r] = 0 THEN TakeOut(d, r) ELSE d
         IN  Reap(Reap(here, d.lower[r], cnt), d.higher[r], cnt)

RECURSIVE NukeChain(_, _)
NukeChain(d, r) == IF r = NoRef THEN {} ELSE {r} \union NukeChain(d, d.lower[r])

\* The nodes of the nuke chain are deleted.
DeleteNuked(d) ==
    LET gone == NukeChain(d, d.nukeroot)
        wipe(f, v) == [r \in Refs |-> IF r \in gone THEN v ELSE f[r]]
    IN  [parent |-> wipe(d.parent, NoRef), lower |-> wipe(d.lower, NoRef),
         higher |-> wipe(d.higher, NoRef), name |-> wipe(d.name, "free"),
         nukeroot |-> NoRef]

(***************************************************************************)
(* The calls                                                               *)
(***************************************************************************)
CleanAgain(r) == IF refcnt[r] = 0 THEN dirty - TextLen[db.name[r]] ELSE dirty

\* getref finds the name.
GetKnown(h, n) ==
    LET r == Find(db, n) IN
    /\ held[h] = NoRef
    /\ r # NoRef
    /\ held' = [held EXCEPT ![h] = r]
    /\ refcnt' = [refcnt EXCEPT ![r] = @ + 1]
    /\ dirty' = CleanAgain(r)
    /\ UNCHANGED db

\* getref adds the name. Which free address new returns makes no difference.
GetNew(h, n) ==
    LET r == CHOOSE a \in Refs : a \notin Allocated IN
    /\ held[h] = NoRef
    /\ Find(db, n) = NoRef
    /\ Allocated # Refs
    /\ held' = [held EXCEPT ![h] = r]
    /\ refcnt' = [refcnt EXCEPT ![r] = 1]
    /\ db' = LinkRef([db EXCEPT !.name[r] = n], r)
    /\ UNCHANGED dirty

\* MUTANT: a copy does not count.
CopyUncounted(r) == refcnt
Counted(r) == [refcnt EXCEPT ![r] = @ + 1]

\* cpref: h becomes a copy of g.
Copy(h, g) ==
    /\ held[h] = NoRef
    /\ held[g] # NoRef
    /\ held' = [held EXCEPT ![h] = held[g]]
    /\ refcnt' = Counted(held[g])
    /\ UNCHANGED <<db, dirty>>

\* assign(statstring *): the reference moves, no count changes.
Move(h, g) ==
    /\ held[h] = NoRef
    /\ held[g] # NoRef
    /\ held' = [held EXCEPT ![h] = held[g], ![g] = NoRef]
    /\ UNCHANGED <<db, refcnt, dirty>>

\* MUTANT: the limit is tested before the node is counted and the count kept.
CleanUpLate(total) == dirty > MaxDirty
CleanUp(total) == total > MaxDirty

\* unref, and the cleanup it may set off.
Drop(h) ==
    LET r == held[h]
        left == refcnt[r] - 1
        idle == db.parent[r] # NoRef /\ left = 0
        total == dirty + TextLen[db.name[r]]
    IN
    /\ r # NoRef
    /\ held' = [held EXCEPT ![h] = NoRef]
    /\ refcnt' = [refcnt EXCEPT ![r] = left]
    /\ IF idle /\ CleanUp(total)
       THEN /\ dirty' = 0
            /\ db' = Reap(DeleteNuked(db), Root, refcnt')
       ELSE /\ dirty' = IF idle THEN total ELSE dirty
            /\ UNCHANGED db

DbNext ==
    \E h \in Handles :
        \/ Drop(h)
        \/ \E n \in Names : GetKnown(h, n) \/ GetNew(h, n)
        \/ \E g \in Handles : Copy(h, g) \/ Move(h, g)

DbSpec == DbInit /\ [][DbNext]_dbVars

(***************************************************************************)
(* Properties                                                              *)
(***************************************************************************)
RECURSIVE Tree(_)
Tree(r) ==
    IF r = NoRef THEN {} ELSE {r} \union Tree(db.lower[r]) \union Tree(db.higher[r])

InTree == Tree(Root)

DbTypeOK ==
    /\ DOMAIN db = {"parent", "lower", "higher", "name", "nukeroot"}
    /\ db.parent \in [Refs -> Links] /\ db.lower \in [Refs -> Links]
    /\ db.higher \in [Refs -> Links] /\ db.nukeroot \in Links
    /\ db.name \in [Refs -> Names \union {"free"}]
    /\ refcnt \in [Refs -> 0 .. Cardinality(Handles)]
    /\ dirty \in 0 .. MaxDirty
    /\ held \in [Handles -> Links]

\* Whatever was reaped and hung elsewhere since, the search of getref ends at
\* the very node a statstring holds. That is what the comparison of statstrings
\* by pointer rests on: two that hold one name always have one node.
FoundWhileHeld == \A h \in Handles : held[h] # NoRef => Find(db, db.name[held[h]]) = held[h]

RECURSIVE TextOf(_)
TextOf(S) == IF S = {} THEN 0
             ELSE LET r == CHOOSE r \in S : TRUE IN TextLen[db.name[r]] + TextOf(S \ {r})

\* Through every reuse and every cleanup the count of a node is the number of
\* statstrings that have it, so that none is deleted under one of them or
\* outlives the last for ever; and dirtycount, which decides when the next
\* cleanup comes, is the text of the nodes of the tree that nobody has.
CountsExact ==
    /\ \A r \in Allocated : refcnt[r] = Cardinality({h \in Handles : held[h] = r})
    /\ dirty = TextOf({r \in InTree \ {Root} : refcnt[r] = 0})

\* Every node that was not deleted is in the tree or on the nuke chain, never
\* on both: reap neither leaks a node nor deletes one that can be found.
NothingLeaks ==
    /\ InTree \union NukeChain(db, db.nukeroot) = Allocated
    /\ InTree \intersect NukeChain(db, db.nukeroot) = {}
=============================================================================
