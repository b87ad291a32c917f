------------------------------ MODULE ConfigDb ------------------------------
(***************************************************************************)
(* The configuration of an application (configdb.h, configdb.cpp): a tree  *)
(* that is loaded and loaded again, watchers of paths in it that may       *)
(* refuse it and are told what has changed, and a copy of it for every     *)
(* thread, renewed when the second of the last load is another one.        *)
(*                                                                         *)
(* One thread loads. A cursor is the way from the root, each step with its *)
(* index and whether it was taken by position; next goes on only from one  *)
(* that was. The keys of a tree come in the same order whenever it is      *)
(* loaded.                                                                 *)
(***************************************************************************)
EXTENDS Integers, Sequences, SequencesExt, FiniteSets

CONSTANTS
    Readers,      \* the threads that ask for the configuration
    Configs,      \* the trees a file for load may have
    IniTexts,     \* the lines a file for loadini may have
    Watchers,     \* the watchers in the order they were added: path and refused data
    MaxLoads, MaxClock

VARIABLES
    cdb, ndb,     \* the current configuration (db) and the candidate
    lastloaded,   \* the second of the last load
    localdb,      \* the copy of each thread, its second, whether the last one it got was current
    clock,
    loader,       \* what the loading thread does next
    told,         \* what the watchers were told of the candidate
    loads         \* the seconds of all loads, the first of them before any load

configVars == <<cdb, ndb, lastloaded, localdb, clock, loader, told, loads>>

-----------------------------------------------------------------------------
(* Trees and visitors.                                                     *)
Item(name, data, kids) == [name |-> name, data |-> data, kids |-> kids]
EmptyTree == Item("", "", <<>>)
At(root, way) == FoldLeft(LAMBDA node, step : node.kids[step.i], root, way)
IndexOf(node, key) == SelectInSeq(node.kids, LAMBDA k : k.name = key)

enter(root, way, key) ==
    LET i == IndexOf(At(root, way), key)
    IN  IF i = 0 THEN way ELSE Append(way, [i |-> i, counted |-> FALSE])
first(root, way) ==
    IF At(root, way).kids = <<>> THEN way ELSE Append(way, [i |-> 1, counted |-> TRUE])
MayNext(root, way) ==
    way # <<>> /\ Last(way).counted /\ Last(way).i < Len(At(root, Front(way)).kids)
up(way) == IF way = <<>> THEN way ELSE Front(way)

Follow(root, way, keys) ==
    FoldLeft(LAMBDA w, key : IF key = "*" THEN first(root, w) ELSE enter(root, w, key), way, keys)

\* keypath::begin and next: the objects that a loop over a path comes by. A part of
\* the path that is not there is passed over. In every round the last star is
\* tried again from its first child, once more each time; the stars before it stay.
RECURSIVE Rounds(_, _, _, _)
Rounds(path, root, way, index) ==
    LET stars == {i \in DOMAIN path : path[i] = "*"}
        star == CHOOSE i \in stars : \A k \in stars : k <= i
        above == FoldLeft(LAMBDA w, k : up(w), way, SubSeq(path, star, Len(path)))
        steps == FoldLeft(LAMBDA s, k : IF s.ok /\ MayNext(root, s.way)
                                        THEN [ok |-> TRUE, way |-> [s.way EXCEPT ![Len(s.way)].i = @ + 1]]
                                        ELSE [s EXCEPT !.ok = FALSE],
                          [ok |-> TRUE, way |-> first(root, above)], [k \in 1 .. index + 1 |-> k]) IN
    <<At(root, way)>> \o
    IF stars = {} THEN <<>>
    ELSE IF ~ steps.ok THEN <<>>
    ELSE Rounds(path, root, Follow(root, steps.way, SubSeq(path, star + 1, Len(path))), index + 1)
Matches(path, root) == Rounds(path, root, Follow(root, <<>>, path), 0)

\* Every part of the path is found, a star as the first child.
existsin(path, root) == Len(Follow(root, <<>>, path)) = Len(path)

\* What has no children is compared by its data alone.
RECURSIVE treecmp(_, _)
treecmp(a, b) ==
    IF a.kids = <<>> THEN a.data = b.data
    ELSE /\ Len(a.kids) = Len(b.kids)
         /\ \A i \in DOMAIN a.kids :
              LET k == IndexOf(b, a.kids[i].name) IN k # 0 /\ treecmp(a.kids[i], b.kids[k])

-----------------------------------------------------------------------------
(* handleactions: every watcher validates before the first is told.        *)
Told(w, action, new, old) == [w |-> w, action |-> action, new |-> new, old |-> old]
EachWatcher(Op(_)) == FlattenSeq([w \in DOMAIN Watchers |-> Op(w)])

\* Up to the first that is refused.
Validated(w) == LET all == Matches(Watchers[w].path, ndb) IN
    [i \in DOMAIN all |-> Told(w, "isvalid", all[i], all[i])]
Refuses(call) == call.new.data \in Watchers[call.w].refuses
AskedOf(calls) ==
    LET bad == {i \in DOMAIN calls : Refuses(calls[i])}
    IN  IF bad = {} THEN calls ELSE SubSeq(calls, 1, CHOOSE i \in bad : \A k \in bad : i <= k)

\* MUTANT: what was there before is not compared.
ToldOfAny(w) ==
    LET path == Watchers[w].path IN
    FlattenSeq([i \in DOMAIN Matches(path, ndb) |->
        <<Told(w, IF existsin(path, cdb) THEN "change" ELSE "create", Matches(path, ndb)[i], Matches(path, ndb)[i])>>])
\* p is the path of the watcher itself, stars and all: each new object is compared
\* with the first old one.
ToldOf(w) ==
    LET path == Watchers[w].path
        new == Matches(path, ndb)
        old == Matches(path, cdb)
        oldest == At(cdb, Follow(cdb, <<>>, path)) IN
    FlattenSeq([i \in DOMAIN new |->
        IF ~ existsin(path, cdb) THEN <<Told(w, "create", new[i], new[i])>>
        ELSE IF treecmp(oldest, new[i]) THEN <<>>
        ELSE <<Told(w, "change", new[i], oldest)>>])
    \o IF existsin(path, ndb) THEN <<>>
       ELSE [i \in DOMAIN old |-> Told(w, "remove", old[i], old[i])]

-----------------------------------------------------------------------------
ConfigInit ==
    /\ cdb = EmptyTree /\ ndb = EmptyTree /\ loader = "idle" /\ told = <<>>
    /\ clock = 1 /\ lastloaded \in 0 .. MaxClock /\ loads = <<lastloaded>>
    /\ localdb = [t \in Readers |-> [dat |-> EmptyTree, lastupdate |-> -1, fresh |-> TRUE]]

\* load: schema, file and validator are in order, or the candidate goes no further.
load == \E c \in Configs :
    /\ loader = "idle" /\ Len(loads) <= MaxLoads
    /\ ndb' = c /\ loader' \in {"idle", "check"} /\ told' = <<>>
    /\ UNCHANGED <<cdb, lastloaded, localdb, clock, loads>>
\* loadini adds to the candidate that is there, also to one that was refused.
WithLine(tree, line) ==
    LET s == IndexOf(tree, line.section)
        i == IF s = 0 THEN 0 ELSE IndexOf(tree.kids[s], line.name)
        entry == Item(line.name, line.data, <<>>) IN
    IF s = 0 THEN [tree EXCEPT !.kids = Append(@, Item(line.section, "", <<entry>>))]
    ELSE IF i = 0 THEN [tree EXCEPT !.kids[s].kids = Append(@, entry)]
    ELSE [tree EXCEPT !.kids[s].kids[i] = entry]
loadini == \E lines \in IniTexts :
    /\ loader = "idle" /\ Len(loads) <= MaxLoads
    /\ ndb' = FoldLeft(WithLine, ndb, lines) /\ loader' = "check" /\ told' = <<>>
    /\ UNCHANGED <<cdb, lastloaded, localdb, clock, loads>>

handleactions ==
    LET asked == AskedOf(EachWatcher(Validated)) IN
    /\ loader = "check"
    /\ IF \E i \in DOMAIN asked : Refuses(asked[i])
       THEN told' = asked /\ loader' = "idle"
       ELSE told' = asked \o EachWatcher(ToldOf) /\ loader' = "publish"
    /\ UNCHANGED <<cdb, ndb, lastloaded, localdb, clock, loads>>
publish ==
    /\ loader = "publish" /\ loader' = "idle" /\ told' = <<>>
    /\ cdb' = ndb /\ lastloaded' = clock /\ loads' = Append(loads, clock)
    /\ UNCHANGED <<ndb, localdb, clock>>

\* MUTANT: the copy is renewed only for a later load.
OutdatedIfLater(entry) == entry.lastupdate < lastloaded
Outdated(entry) == entry.lastupdate # lastloaded
\* operator[]: tsdb::get under both locks.
get(t) ==
    /\ localdb' = [localdb EXCEPT ![t] =
           IF Outdated(@) THEN [dat |-> cdb, lastupdate |-> lastloaded, fresh |-> TRUE]
           ELSE [@ EXCEPT !.fresh = (localdb[t].dat = cdb)]]
    /\ UNCHANGED <<cdb, ndb, lastloaded, clock, loader, told, loads>>

tick ==
    /\ clock < MaxClock /\ clock' = clock + 1
    /\ UNCHANGED <<cdb, ndb, lastloaded, localdb, loader, told, loads>>

ConfigNext == load \/ loadini \/ handleactions \/ publish \/ tick \/ \E t \in Readers : get(t)
ConfigSpec == ConfigInit /\ [][ConfigNext]_configVars

-----------------------------------------------------------------------------
ConfigTypeOK ==
    /\ loader \in {"idle", "check", "publish"} /\ clock \in 1 .. MaxClock
    /\ lastloaded = Last(loads) /\ Len(loads) <= MaxLoads + 1
    /\ \A t \in Readers : localdb[t].lastupdate \in -1 .. MaxClock

Plain(w) == "*" \notin ToSet(Watchers[w].path)
ToldAs(w, action) == SelectSeq(told, LAMBDA c : c.w = w /\ c.action = action)
RECURSIVE Settings(_, _)
Settings(tree, inner) ==
    (IF tree.kids = <<>> \/ inner THEN {<<tree.data>>} ELSE {}) \union
    UNION {{<<tree.kids[i].name>> \o s : s \in Settings(tree.kids[i], inner)} : i \in DOMAIN tree.kids}

\* A candidate is published only after all that matches a path was validated, and of
\* one that is refused nobody is told more. A watcher of a plain path is told of it
\* once: create when it is new, change when it was there and a setting below it has
\* gone or is another now, nothing when all is as it was, and remove when it has
\* gone, perhaps after a change to what is around it.
ToldExactly ==
    /\ loader = "publish" => \A i \in DOMAIN told : ~ Refuses(told[i])
    /\ \A i \in DOMAIN told : Refuses(told[i]) => i = Len(told) /\ told[i].action = "isvalid"
    /\ loader = "publish" => \A w \in {w \in DOMAIN Watchers : Plain(w)} :
        LET path == Watchers[w].path
            isnew == existsin(path, ndb)  was == existsin(path, cdb)
            new == At(ndb, Follow(ndb, <<>>, path))  old == At(cdb, Follow(cdb, <<>>, path)) IN
        /\ was /\ isnew =>
             /\ ToldAs(w, "create") = <<>> /\ ToldAs(w, "remove") = <<>>
             /\ ToldAs(w, "change") \in {<<>>, <<Told(w, "change", new, old)>>}
             /\ new = old => ToldAs(w, "change") = <<>>
             /\ ~ Settings(old, FALSE) \subseteq Settings(new, TRUE) => ToldAs(w, "change") # <<>>
        /\ ~ was /\ isnew =>
             ToldAs(w, "create") = <<Told(w, "create", new, new)>> /\ ToldAs(w, "remove") = <<>>
        /\ was /\ ~ isnew =>
             ToldAs(w, "remove") = <<Told(w, "remove", old, old)>> /\ ToldAs(w, "create") = <<>>

\* A thread that asks gets the configuration that is current, unless two loads fell
\* into one second, or the first into the one that was in memory before it.
SeenFresh ==
    \A t \in Readers : ~ localdb[t].fresh =>
        \E i, k \in DOMAIN loads : i < k /\ loads[i] = loads[k] /\ loads[i] = localdb[t].lastupdate
=============================================================================
