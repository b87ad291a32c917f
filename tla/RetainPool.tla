----------------------------- MODULE RetainPool -----------------------------
(***************************************************************************)
(* The pool of memory blocks for objects that are returned by pointer      *)
(* (retain.h, retain.cpp): a list of size pools, found and extended        *)
(* without a lock; in each a lock, an array of blocks, and further arrays  *)
(* behind extend; and free, which takes no lock.                           *)
(***************************************************************************)
EXTENDS Naturals, FiniteSets

CONSTANTS
    Allocators,   \* threads
    SizePools,    \* addresses of size pools
    Nil,
    Sizes,        \* the rounded sizes that are asked for
    BlockCount,   \* the blocks of a size pool
    MaxLive       \* bound on the objects alive

ASSUME PoolsAssumption == Nil \notin SizePools \union Allocators
ASSUME BlocksAssumption == BlockCount \in Nat \ {0} /\ MaxLive \in Nat
ASSUME SizesRounded == Sizes \subseteq Nat \ {0}   \* the header is part of a size

VARIABLES
    pools,        \* the first size pool
    szpool,       \* [next, extend, sz, lck] of each; sz 0: never made
    wired,        \* the blocks whose status says wired
    owners,       \* how many objects each block was handed out for and lives
    doing,        \* [at, sz, c, last, i] of each thread: where alloc stands
    leakprotection, aborted

heap == <<pools, szpool, wired, owners>>
retainVars == <<heap, doing, leakprotection, aborted>>

Blocks == SizePools \X (1 .. BlockCount)
Outside(t) == doing[t].at = "out"
Out == [at |-> "out", sz |-> 0, c |-> Nil, last |-> Nil, i |-> 0]

RetainInit ==
    /\ pools = Nil
    /\ szpool = [p \in SizePools |-> [next |-> Nil, extend |-> Nil, sz |-> 0, lck |-> Nil]]
    /\ wired = {}
    /\ owners = [b \in Blocks |-> 0]
    /\ doing = [t \in Allocators |-> Out]
    /\ leakprotection \in BOOLEAN /\ aborted = FALSE

Live == {b \in Blocks : owners[b] > 0}
Fresh == {p \in SizePools : szpool[p].sz = 0}
NewPool == CHOOSE p \in Fresh : TRUE   \* which address it gets tells nothing
Go(t, where) == doing' = [doing EXCEPT ![t].at = where]

\* The block is returned to the caller of alloc.
HandOut(t, b) ==
    /\ owners' = [owners EXCEPT ![b] = @ + 1]
    /\ doing' = [doing EXCEPT ![t] = Out]

(***************************************************************************)
(* alloc: the search for the primary pool, a node at a time                *)
(***************************************************************************)
alloc(t, sz) ==
    /\ Outside(t) /\ Cardinality(Live) < MaxLive
    /\ doing' = [doing EXCEPT ![t] = [at |-> "hunt", sz |-> sz, c |-> pools, last |-> Nil, i |-> 1]]
    /\ UNCHANGED heap

hunt(t) ==
    LET c == doing[t].c IN
    /\ doing[t].at = "hunt"
    /\ IF c = Nil THEN Go(t, "make")
       ELSE IF szpool[c].sz = doing[t].sz THEN Go(t, "lock")
       ELSE doing' = [doing EXCEPT ![t].c = szpool[c].next, ![t].last = c]
    /\ UNCHANGED heap

\* MUTANT: the first block of a new pool is handed out and not claimed.
ClaimFirstNot(p) == wired' = wired
ClaimFirst(p) == wired' = wired \union {<<p, 1>>}

\* No pool was seen: one is made, its first block claimed, and it is hung
\* where the list ended when it was searched.
make(t) ==
    /\ doing[t].at = "make"
    /\ Fresh # {}
    /\ LET p == NewPool IN
         /\ ClaimFirst(p)
         /\ HandOut(t, <<p, 1>>)
         /\ IF doing[t].last = Nil
            THEN /\ pools' = p
                 /\ szpool' = [szpool EXCEPT ![p].sz = doing[t].sz]
            ELSE /\ szpool' = [szpool EXCEPT ![p].sz = doing[t].sz, ![doing[t].last].next = p]
                 /\ UNCHANGED pools

(***************************************************************************)
(* alloc: the search for a block, under the lock                           *)
(***************************************************************************)
lockPool(t) ==
    LET c == doing[t].c IN
    /\ doing[t].at = "lock" /\ szpool[c].lck = Nil
    /\ szpool' = [szpool EXCEPT ![c].lck = t]
    /\ Go(t, "scan")
    /\ UNCHANGED <<pools, wired, owners>>

\* Whether the leak protection is still to come or has passed.
Scanning(t) == doing[t].at \in {"scan", "scan-extension"}

scan(t) ==
    LET c == doing[t].c  b == <<c, doing[t].i>> IN
    /\ Scanning(t) /\ doing[t].i <= BlockCount
    /\ IF b \notin wired
       THEN /\ wired' = wired \union {b}
            /\ szpool' = [szpool EXCEPT ![c].lck = Nil]
            /\ HandOut(t, b)
       ELSE /\ doing' = [doing EXCEPT ![t].i = @ + 1]
            /\ UNCHANGED <<szpool, wired, owners>>
    /\ UNCHANGED pools

full(t) ==
    /\ Scanning(t) /\ doing[t].i > BlockCount
    /\ ~ (leakprotection /\ doing[t].at = "scan")
    /\ Go(t, "full")
    /\ UNCHANGED heap

leak(t) ==
    /\ doing[t].at = "scan" /\ doing[t].i > BlockCount /\ leakprotection
    /\ aborted' = TRUE
    /\ szpool' = [szpool EXCEPT ![doing[t].c].lck = Nil]
    /\ UNCHANGED <<pools, wired, owners, doing, leakprotection>>

\* The next pool, made if there is none, before the lock of this one goes.
extendPool(t) ==
    LET c == doing[t].c IN
    /\ doing[t].at = "full" /\ szpool[c].extend = Nil
    /\ Fresh # {}
    /\ szpool' = [szpool EXCEPT ![c].extend = NewPool, ![NewPool].sz = doing[t].sz]
    /\ UNCHANGED <<pools, wired, owners, doing>>

goExtension(t) ==
    LET c == doing[t].c  e == szpool[c].extend IN
    /\ doing[t].at = "full" /\ e # Nil /\ szpool[e].lck = Nil
    /\ szpool' = [szpool EXCEPT ![c].lck = Nil, ![e].lck = t]
    /\ doing' = [doing EXCEPT ![t].at = "scan-extension", ![t].c = e, ![t].i = 1]
    /\ UNCHANGED <<pools, wired, owners>>

(***************************************************************************)
(* free, by whichever thread has the object: without a lock, last of all.  *)
(***************************************************************************)
free(t, b) ==
    /\ Outside(t) /\ owners[b] > 0
    /\ owners' = [owners EXCEPT ![b] = @ - 1]
    /\ wired' = wired \ {b}
    /\ UNCHANGED <<pools, szpool, doing>>

Alloc(t) == \/ hunt(t) \/ make(t) \/ lockPool(t) \/ scan(t) \/ full(t)
            \/ extendPool(t) \/ goExtension(t)

RetainNext ==
    /\ ~ aborted
    /\ \E t \in Allocators :
         \/ /\ UNCHANGED <<leakprotection, aborted>>
            /\ \/ \E sz \in Sizes : alloc(t, sz)
               \/ Alloc(t)
               \/ \E b \in Blocks : free(t, b)
         \/ leak(t)

RetainSpec == RetainInit /\ [][RetainNext]_retainVars

-----------------------------------------------------------------------------
RetainTypeOK ==
    /\ pools \in SizePools \union {Nil}
    /\ wired \subseteq Blocks /\ owners \in [Blocks -> Nat]
    /\ \A p \in SizePools : szpool[p].next \in SizePools \union {Nil}
                            /\ szpool[p].lck \in Allocators \union {Nil}

\* However the size pools are found, lost and extended by threads that do not
\* lock the list, a block is never handed out while an object lives in it, and
\* while one does the block is not free.
OneObjectPerBlock == \A b \in Blocks : owners[b] <= 1 /\ (owners[b] = 1 => b \in wired)

\* pool::exit, "Free all memory", reaches what lies behind pools.
Successors(S) == ({szpool[p].next : p \in S} \union {szpool[p].extend : p \in S}) \ {Nil}
Reached == LET grow[n \in 0 .. Cardinality(SizePools)] ==
                 IF n = 0 THEN {pools} \ {Nil}
                 ELSE grow[n - 1] \union Successors(grow[n - 1])
           IN  grow[Cardinality(SizePools)]
ExitFreesAll == Reached = SizePools \ Fresh
=============================================================================
