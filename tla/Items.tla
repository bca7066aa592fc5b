-------------------------------- MODULE Items --------------------------------
(***************************************************************************)
(* The items of the default engine (engines/default/item_base.c, items.c): *)
(* reference counts, the LRU lists with their reclaim marks, lazy          *)
(* expiration and flush, reclaim and eviction when memory is short, and    *)
(* the threads that keep items beyond one hold of the cache lock: workers  *)
(* between two calls, scans, the scrubber, and the thread that frees the   *)
(* elements of deleted collections.                                        *)
(*                                                                         *)
(* Every action is one hold of the cache lock.  The functions of           *)
(* item_base.c are operators that keep their names and map the state h     *)
(* that the lock protects to the state they leave.  All items are in the   *)
(* LRU class of small items (LRU_CLSID_FOR_SMALL), which is the only one   *)
(* collections are in.  Collections are their number of elements.          *)
(***************************************************************************)
EXTENDS Integers, Sequences, SequencesExt, FiniteSets, FiniteSetsExt

CONSTANTS
    Clients,      \* worker threads, with one command each
    Scanners,     \* threads that scan (dump, scan command)
    ItemIds,      \* the item blocks
    None,         \* the null pointer
    KvKeys,       \* keys that clients store values under
    CollKeys,     \* keys that clients create collections under
    PrefixNames,  \* the prefixes
    PrefixOf,     \* the prefixes of a key: its own and the parents of that
    NullPrefix,   \* the prefix of keys that have none: it always exists
    Deltas,       \* the expiration times clients give: 0, Sticky or seconds
    Delays,       \* the delays of flush commands: 0 or seconds
    Space,        \* the memory, in items or elements
    Levels,       \* what slabs_space_shortage_level() returns
    BgLevel,      \* the level at which the delete thread evicts
    LowTries, CurTries, EvictTries,   \* the limits of the search loops
    FgCount,      \* FG_ELEM_DELETE_COUNT
    BgCount,      \* BG_ELEM_DELETE_COUNT
    UpdateInterval,                   \* ITEM_UPDATE_INTERVAL
    RefFull, RefMove,                 \* ITEM_REFCOUNT_FULL and _MOVE
    MaxElems,     \* the maximum size of a collection
    MaxScan,      \* the length of a scan's array
    MaxLost,      \* bound: references lost on an item
    MaxTime       \* bound: the clock

Keys   == KvKeys \cup CollKeys
Sticky == -1
All    == "all"   \* flush_all, as opposed to a prefix

ASSUME ConstantAssumption ==
    /\ None \notin ItemIds
    /\ PrefixOf \in [Keys -> SUBSET PrefixNames] /\ All \notin PrefixNames
    /\ Deltas \subseteq {Sticky} \cup Nat
    /\ Delays \subseteq Nat /\ Levels \subseteq Nat
    /\ {Space, LowTries, CurTries, EvictTries, FgCount, BgCount, BgLevel,
        RefFull, RefMove} \subseteq Nat \ {0}
    /\ RefMove < RefFull
    /\ {UpdateInterval, MaxElems, MaxScan, MaxLost, MaxTime} \subseteq Nat

VARIABLES
    cache,     \* the items, the LRU lists and marks, the delete queue, the
               \* flush times
    client,    \* what each client keeps between two calls
    scan,      \* the items each scanner keeps between two calls
    reaper,    \* the item collection_delete_thread works on, or None
    clock      \* get_current_time()

vars == <<cache, client, scan, reaper, clock>>

-----------------------------------------------------------------------------
(***************************************************************************)
(* Item blocks, memory, reference counts.                                  *)
(***************************************************************************)

\* lost and flushed are history: references nobody holds any more and nobody
\* released, and what the flush commands that hit the item have flushed (All
\* or a prefix).
FreeItem == [used |-> FALSE, key |-> None, coll |-> FALSE, linked |-> FALSE,
             refcount |-> 0, refchunk |-> 0, exptime |-> 0, time |-> 0,
             ccnt |-> 0, lost |-> 0, flushed |-> {}]

LinkedItems(h) == {i \in ItemIds : h.item[i].linked}

assoc_find(h, k) ==
    LET found == {i \in LinkedItems(h) : h.item[i].key = k}
    IN  IF found = {} THEN None ELSE CHOOSE i \in found : TRUE

\* Memory is there, and a chunk of the right class if it is for an item.
slabs_alloc(h, item) ==
    h.mem < Space /\ (item => \E i \in ItemIds : ~h.item[i].used)

ITEM_REFCOUNT_INCR(h, i) ==
    LET it == h.item[i]
    IN  [h EXCEPT !.item[i] =
           IF it.refcount + 1 = RefFull
           THEN [it EXCEPT !.refchunk = @ + 1, !.refcount = @ + 1 - RefMove]
           ELSE [it EXCEPT !.refcount = @ + 1]]

RefDecr_Mutant(it) == [it EXCEPT !.refcount = @ - 1]

RefDecr(it) ==
    IF it.refcount = 1 /\ it.refchunk > 0
    THEN [it EXCEPT !.refchunk = @ - 1, !.refcount = RefMove]
    ELSE [it EXCEPT !.refcount = @ - 1]

-----------------------------------------------------------------------------
(***************************************************************************)
(* The LRU lists, head first.  lowMK and curMK are where reclaim looks for *)
(* expired items, sticky_curMK where it looks for flushed sticky ones.     *)
(***************************************************************************)

IsSticky(it) == it.exptime = Sticky

InQ(h, i) == Contains(h.lru, i) \/ Contains(h.sticky, i)

\* it->prev: the neighbour towards the head.
Prev(list, i) ==
    LET behind == {n \in 2 .. Len(list) : list[n] = i}
    IN  IF behind = {} THEN None ELSE list[Min(behind) - 1]

TailOf(list) == IF list = <<>> THEN None ELSE Last(list)

item_link_q(h, i) ==
    IF IsSticky(h.item[i])
    THEN [h EXCEPT !.sticky = <<i>> \o @]
    ELSE LET first == h.item[i].exptime > 0 /\ h.lowMK = None
         IN  [h EXCEPT !.lru = <<i>> \o @,
                       !.lowMK = IF first THEN i ELSE @,
                       !.curMK = IF first THEN i ELSE @]

LowAfter(h, i) == IF h.lowMK = i THEN Prev(h.lru, i) ELSE h.lowMK

CurAfter(h, i) ==
    IF h.curMK # i THEN h.curMK
    ELSE IF Prev(h.lru, i) # None THEN Prev(h.lru, i) ELSE LowAfter(h, i)

\* Nothing to do for an item that is in no list.
item_unlink_q(h, i) ==
    IF ~InQ(h, i) THEN h
    ELSE IF IsSticky(h.item[i])
    THEN [h EXCEPT !.sticky = Remove(@, i),
                   !.sticky_curMK = IF @ = i THEN Prev(h.sticky, i) ELSE @]
    ELSE [h EXCEPT !.lru = Remove(@, i), !.lowMK = LowAfter(h, i),
                   !.curMK = CurAfter(h, i)]

-----------------------------------------------------------------------------
(***************************************************************************)
(* Validity, prefixes, link, unlink, replace, get, release.                *)
(***************************************************************************)

\* oldest_live of the server (All) or of a prefix.
Outlived(h, i, p, t) ==
    /\ h.oldest_live[p] # 0 /\ h.oldest_live[p] <= t
    /\ h.item[i].time <= h.oldest_live[p]

do_item_isvalid(h, i, t) ==
    /\ h.item[i].exptime > 0 => h.item[i].exptime > t
    /\ ~Outlived(h, i, All, t)
    /\ \A p \in PrefixOf[h.item[i].key] : ~Outlived(h, i, p, t)

PrefixExists(h, p) ==
    p = NullPrefix \/ \E i \in LinkedItems(h) : p \in PrefixOf[h.item[i].key]

\* Prefixes that have become empty are dropped, with their oldest_live.
prefix_unlink(h, k) ==
    [h EXCEPT !.oldest_live = [p \in DOMAIN @ |->
        IF p \in PrefixOf[k] /\ ~PrefixExists(h, p) THEN 0 ELSE @[p]]]

\* A collection that still has elements is left to the delete thread.
do_item_free(h, i) ==
    IF h.item[i].coll /\ h.item[i].ccnt > 0
    THEN [h EXCEPT !.delq = Append(@, i)]
    ELSE [h EXCEPT !.item[i] = FreeItem, !.mem = @ - 1]

do_item_link(h, i, t) ==
    item_link_q([h EXCEPT !.item[i].linked = TRUE, !.item[i].time = t], i)

FreeIfUnused(h, i) ==
    IF h.item[i].refcount = 0 THEN do_item_free(h, i) ELSE h

do_item_unlink(h, i) ==
    IF ~h.item[i].linked THEN h
    ELSE LET q == item_unlink_q(h, i)
         IN  FreeIfUnused(prefix_unlink([q EXCEPT !.item[i].linked = FALSE],
                                        h.item[i].key), i)

\* The prefix is passed on to the new item.
do_item_replace(h, old, new, t) ==
    LET q == item_unlink_q(h, old)
        r == [q EXCEPT !.item[new].linked = TRUE, !.item[new].time = t,
                       !.item[old].linked = FALSE]
    IN  item_link_q(FreeIfUnused(r, old), new)

do_item_update(h, i, force, t) ==
    IF h.item[i].linked /\ (force \/ h.item[i].time < t - UpdateInterval)
    THEN LET q == item_unlink_q(h, i)
         IN  item_link_q([q EXCEPT !.item[i].time = t], i)
    ELSE h

\* The item that do_item_get() returns, and the state it leaves.
Found(h, k, t) ==
    LET i == assoc_find(h, k)
    IN  IF i # None /\ do_item_isvalid(h, i, t) THEN i ELSE None

GetFrom_Mutant(h, i, update, t) ==
    IF i = None THEN h
    ELSE IF update THEN do_item_update(ITEM_REFCOUNT_INCR(h, i), i, FALSE, t)
    ELSE ITEM_REFCOUNT_INCR(h, i)

GetFrom(h, i, update, t) ==
    IF i = None THEN h
    ELSE IF ~do_item_isvalid(h, i, t) THEN do_item_unlink(h, i)
    ELSE IF update THEN do_item_update(ITEM_REFCOUNT_INCR(h, i), i, FALSE, t)
    ELSE ITEM_REFCOUNT_INCR(h, i)

do_item_get(h, k, update, t) == GetFrom(h, assoc_find(h, k), update, t)

\* A linked item that is in no list goes back to one, if it is still valid.
Relink(h, i, t) ==
    IF do_item_isvalid(h, i, t)
    THEN item_link_q([h EXCEPT !.item[i].time = t], i)
    ELSE do_item_unlink(h, i)

IfLast_Mutant(h, i, t) ==
    IF h.item[i].refcount = 0 /\ ~h.item[i].linked THEN do_item_free(h, i) ELSE h

IfLast(h, i, t) ==
    IF h.item[i].refcount # 0 THEN h
    ELSE IF ~h.item[i].linked THEN do_item_free(h, i)
    ELSE IF ~InQ(h, i) THEN Relink(h, i, t)
    ELSE h

do_item_release(h, i, t) ==
    IfLast(IF h.item[i].refcount = 0 THEN h
           ELSE [h EXCEPT !.item[i] = RefDecr(@)], i, t)

-----------------------------------------------------------------------------
(***************************************************************************)
(* do_item_mem_alloc.  A search loop is a state stepped at most as often   *)
(* as its limit allows: h, whether memory was allocated (ok), which ends   *)
(* the loop, whether it is for an item, and the loop's variables.          *)
(***************************************************************************)

Repeat(Step(_), s, n) ==
    LET after[j \in 0 .. n] == IF j = 0 THEN s ELSE Step(after[j - 1])
    IN  after[n]

\* Op applied to h and the members of a sequence in turn.
InTurn(Op(_, _), h, list) ==
    LET after[j \in 0 .. Len(list)] ==
          IF j = 0 THEN h ELSE Op(after[j - 1], list[j])
    IN  after[Len(list)]

do_coll_elem_delete_with_count(h, i, count) ==
    LET n == IF h.item[i].ccnt > count THEN count ELSE h.item[i].ccnt
    IN  [h EXCEPT !.item[i].ccnt = @ - n, !.mem = @ - n]

\* do_item_evict, do_item_reclaim and the immediate do_item_invalidate: they
\* differ in the statistics.
Discard(h, i) ==
    do_item_unlink(do_coll_elem_delete_with_count(h, i, FgCount), i)

\* Referenced items only leave the list.
EvictOrSkip(h, i) ==
    IF h.item[i].refcount = 0 THEN Discard(h, i) ELSE item_unlink_q(h, i)

\* The last n items of the list, the tail first.
FromTail(list, n) ==
    SubSeq(Reverse(list), 1, IF n < Len(list) THEN n ELSE Len(list))

do_item_regain(h, count) == InTurn(EvictOrSkip, h, FromTail(h.lru, count))

Reclaimable(h, i, t) ==
    i # None /\ h.item[i].refcount = 0 /\ ~do_item_isvalid(h, i, t)

\* "try one more invalidation"
InvalidateOne(h, i, t) ==
    IF Reclaimable(h, i, t) THEN do_item_unlink(h, i) ELSE h

Started(h, item) ==
    [h |-> h, ok |-> FALSE, item |-> item, search |-> None, tries |-> 0]

\* slabs_alloc() after a reclaim that left h.
Retry(s, h) == [s EXCEPT !.h = h, !.ok = slabs_alloc(h, s.item)]

\* Reclaims from sticky_curMK.
StickyFrom(s, i, t) ==
    IF s.ok \/ i = None THEN s
    ELSE IF Reclaimable(s.h, i, t)
    THEN Retry(s, Discard([s.h EXCEPT !.sticky_curMK = Prev(s.h.sticky, i)], i))
    ELSE [s EXCEPT !.h.sticky_curMK = Prev(s.h.sticky, i)]

StickyStep(s, t) == StickyFrom(s, s.h.sticky_curMK, t)

\* After a success one more item, i, is invalidated.
OneMore(s, i, t) == IF s.ok THEN [s EXCEPT !.h = InvalidateOne(s.h, i, t)] ELSE s

AfterSticky(s, t) == OneMore(s, s.h.sticky_curMK, t)

ReclaimSticky(s, t) ==
    AfterSticky(Repeat(LAMBDA r : StickyStep(r, t), s, LowTries), t)

\* Step 1, from lowMK up to curMK; lowMK moves up past items that do not
\* expire.
Advance(s) == [s EXCEPT !.search = Prev(s.h.lru, s.search), !.tries = @ - 1]

LowStep(s, t) ==
    IF s.ok \/ s.tries = 0 \/ s.search \in {None, s.h.curMK} THEN s
    ELSE IF Reclaimable(s.h, s.search, t)
    THEN Retry(Advance(s), Discard(s.h, s.search))
    ELSE IF s.h.item[s.search].exptime = 0 /\ s.search = s.h.lowMK
    THEN [Advance(s) EXCEPT !.h.lowMK = Prev(s.h.lru, s.search)]
    ELSE Advance(s)

\* Step 2, from curMK up; the tries that step 1 left count.
CurFrom(s, i, t) ==
    IF s.ok \/ s.tries = 0 \/ i = None THEN s
    ELSE IF Reclaimable(s.h, i, t)
    THEN Retry([s EXCEPT !.tries = @ - 1],
               Discard([s.h EXCEPT !.curMK = Prev(s.h.lru, i)], i))
    ELSE [s EXCEPT !.tries = @ - 1, !.h.curMK = Prev(s.h.lru, i)]

CurStep(s, t) == CurFrom(s, s.h.curMK, t)

CurReset(s) == [s EXCEPT !.h.curMK = IF @ = None THEN s.h.lowMK ELSE @]

AfterCur(s, t) == OneMore(s, s.h.curMK, t)

AfterLow(s, t) ==
    IF s.ok THEN OneMore(s, s.search, t)
    ELSE AfterCur(CurReset(Repeat(LAMBDA r : CurStep(r, t),
                                  [s EXCEPT !.tries = @ + CurTries],
                                  LowTries + CurTries)), t)

ReclaimExpired(s, t) ==
    IF s.ok \/ s.h.curMK = None THEN s
    ELSE AfterLow(Repeat(LAMBDA r : LowStep(r, t),
                         [s EXCEPT !.search = s.h.lowMK, !.tries = LowTries],
                         LowTries), t)

EvictStep(s, i) ==
    IF s.ok THEN s
    ELSE IF s.h.item[i].refcount = 0 THEN Retry(s, Discard(s.h, i))
    ELSE [s EXCEPT !.h = item_unlink_q(s.h, i)]

Evict(s) ==
    IF s.ok \/ slabs_alloc(s.h, s.item) THEN [s EXCEPT !.ok = TRUE]
    ELSE InTurn(EvictStep, s, FromTail(s.h.lru, EvictTries))

\* The state it leaves is in h; memory is free there if ok.
do_item_mem_alloc(h, item, level, t) ==
    Evict(ReclaimExpired(ReclaimSticky(Started(do_item_regain(h, level), item),
                                       t), t))

\* [h, it]: with the block it returns.
WithBlock(m, i, item) ==
    IF m.ok THEN [h |-> [m.h EXCEPT !.item[i] = item, !.mem = @ + 1], it |-> i]
            ELSE [h |-> m.h, it |-> None]

NewItem(m, item) ==
    WithBlock(m, CHOOSE i \in ItemIds : m.ok => ~m.h.item[i].used, item)

\* m is what do_item_mem_alloc() gives.
do_item_alloc(m, k, coll, exptime) ==
    NewItem(m, [FreeItem EXCEPT !.used = TRUE, !.key = k, !.coll = coll,
                                !.refcount = 1, !.exptime = exptime])

-----------------------------------------------------------------------------
(***************************************************************************)
(* The commands of the clients.                                            *)
(***************************************************************************)

Idle == [kind |-> "idle", it |-> None]

\* realtime()
Exptime(delta) == IF delta > 0 THEN clock + delta ELSE delta

\* Commands that begin and end in one call.
Command(c, h) ==
    /\ client[c] = Idle
    /\ cache' = h
    /\ UNCHANGED <<client, scan, reaper, clock>>

\* Calls after which the client keeps something, or no longer does.
Call(c, h, kind, i) ==
    /\ cache' = h
    /\ client' = [client EXCEPT ![c] = [kind |-> kind, it |-> i]]
    /\ UNCHANGED <<scan, reaper, clock>>

item_get(c, k) ==
    /\ client[c] = Idle
    /\ LET i == Found(cache, k, clock)
       IN  Call(c, do_item_get(cache, k, TRUE, clock),
                IF i = None THEN "idle" ELSE "got", i)

\* The client then reads the value from its connection.
Keep(c, a) == Call(c, a.h, IF a.it = None THEN "idle" ELSE "new", a.it)

item_alloc(c, k, level) ==
    /\ client[c] = Idle
    /\ \E m \in {do_item_mem_alloc(cache, TRUE, level, clock)}, d \in Deltas :
         Keep(c, do_item_alloc(m, k, FALSE, Exptime(d)))

item_release(c) ==
    /\ client[c].kind \in {"got", "new"}
    /\ Call(c, do_item_release(cache, client[c].it, clock), "idle", None)

\* prefix_link() may fail, and nothing is linked then.
Link(h, i, linkable) == IF linkable THEN do_item_link(h, i, clock) ELSE h

do_item_store_set(h, i, old, linkable) ==
    IF old = None THEN Link(h, i, linkable)
    ELSE IF h.item[old].coll THEN do_item_release(h, old, clock)
    ELSE do_item_release(do_item_replace(h, old, i, clock), old, clock)

do_item_store_add(h, i, old, linkable) ==
    IF old = None THEN Link(h, i, linkable)
    ELSE IF h.item[old].coll THEN do_item_release(h, old, clock)
    ELSE do_item_release(do_item_update(h, old, FALSE, clock), old, clock)

\* do_item_store_replace, and do_item_store_cas where the cas value matches.
do_item_store_replace(h, i, old) ==
    IF old = None THEN h ELSE do_item_store_set(h, i, old, FALSE)

\* do_item_store_attach and do_add_delta: a new item takes the old one's place.
PutNew(a, old) ==
    IF a.it = None THEN a.h
    ELSE do_item_release(do_item_replace(a.h, old, a.it, clock), a.it, clock)

Rewrite(h, old, level) ==
    do_item_release(PutNew(do_item_alloc(do_item_mem_alloc(h, TRUE, level, clock),
                                         h.item[old].key, FALSE,
                                         h.item[old].exptime),
                           old), old, clock)

do_item_store_attach(h, old, level) ==
    IF old = None THEN h
    ELSE IF h.item[old].coll THEN do_item_release(h, old, clock)
    ELSE Rewrite(h, old, level)

\* Which cas value the client has is not modelled: "mismatch" is any of the
\* conditional operations with the wrong one.
Store(h, i, old, op, linkable, level) ==
    CASE op = "set"      -> do_item_store_set(h, i, old, linkable)
      [] op = "add"      -> do_item_store_add(h, i, old, linkable)
      [] op = "replace"  -> do_item_store_replace(h, i, old)
      [] op = "attach"   -> do_item_store_attach(h, old, level)
      [] op = "mismatch" -> IF old = None THEN h
                            ELSE do_item_release(h, old, clock)

item_store(c, op, linkable, level) ==
    /\ client[c].kind = "new"
    /\ LET i == client[c].it
           k == cache.item[i].key
       IN  Call(c, Store(do_item_get(cache, k, FALSE, clock), i,
                         Found(cache, k, clock), op, linkable, level), "got", i)

\* On a collection the reference is not released.
ArithmeticBadType(h, old) == [h EXCEPT !.item[old].lost = @ + 1]

AddNew(a, linkable) ==
    IF a.it = None THEN a.h
    ELSE do_item_release(do_item_store_add(a.h, a.it, None, linkable), a.it, clock)

\* A command that makes an item of its own and links it.
MakeItem(c, k, coll, level) ==
    \E m \in {do_item_mem_alloc(do_item_get(cache, k, FALSE, clock), TRUE, level,
                                clock)}, d \in Deltas, linkable \in BOOLEAN :
        Command(c, AddNew(do_item_alloc(m, k, coll, Exptime(d)), linkable))

ArithmeticNew(c, k, create, level) ==
    IF create THEN MakeItem(c, k, FALSE, level)
    ELSE level = 0 /\ Command(c, do_item_get(cache, k, FALSE, clock))

ArithmeticOn(c, h, old, level) ==
    IF h.item[old].coll
    THEN /\ h.item[old].lost < MaxLost /\ level = 0
         /\ Command(c, ArithmeticBadType(h, old))
    ELSE Command(c, Rewrite(h, old, level))

item_arithmetic(c, k, create, level) ==
    LET old == Found(cache, k, clock)
    IN  IF old = None THEN ArithmeticNew(c, k, create, level)
        ELSE /\ ~create
             /\ ArithmeticOn(c, do_item_get(cache, k, FALSE, clock), old, level)

\* A command that finds an item, does something to it and releases it.
WithItem(c, k, update, Op(_, _)) ==
    LET i == Found(cache, k, clock)
    IN  IF i = None THEN Command(c, do_item_get(cache, k, update, clock))
        ELSE Command(c, do_item_release(Op(do_item_get(cache, k, update, clock), i),
                                        i, clock))

item_delete(c, k) == WithItem(c, k, FALSE, do_item_unlink)

item_getattr(c, k) == WithItem(c, k, TRUE, LAMBDA h, i : h)

\* An item that did not expire may be below lowMK.
MoveUp(h, i) == do_item_update(h, i, TRUE, clock)

do_item_setattr(h, i, exptime) ==
    IF IsSticky(h.item[i]) # (exptime = Sticky) THEN h
    ELSE IF h.item[i].exptime = 0 /\ exptime # 0
    THEN MoveUp([h EXCEPT !.item[i].exptime = exptime], i)
    ELSE [h EXCEPT !.item[i].exptime = exptime]

item_setattr(c, k, delta) ==
    WithItem(c, k, FALSE, LAMBDA h, i : do_item_setattr(h, i, Exptime(delta)))

-----------------------------------------------------------------------------
(***************************************************************************)
(* Flush.                                                                  *)
(***************************************************************************)

\* prefix_isincluded()
Included(h, i, p) == p = All \/ p \in PrefixOf[h.item[i].key]

\* The items of a list before the first one older than oldest_live.
Newer(h, list, oldest_live) ==
    LET old == SelectInSeq(list, LAMBDA i : h.item[i].time < oldest_live)
    IN  IF old = 0 THEN list ELSE SubSeq(list, 1, old - 1)

UnlinkNewer(h, list, p, oldest_live) ==
    InTurn(LAMBDA g, i : IF Included(g, i, p) THEN do_item_unlink(g, i) ELSE g,
             h, Newer(h, list, oldest_live))

\* oldest_live: one less than now, or than the time to flush at.
FlushTime(delay) == clock - 1 + delay

\* Where the walk of a list meets an old item, the marks go back to the tail;
\* the oldest_live test makes that item and those below it invalid.
MetOld(h, list, old) == Newer(h, list, old) # list

ResetLru(h, reset) ==
    IF reset THEN [h EXCEPT !.lowMK = TailOf(h.lru), !.curMK = TailOf(h.lru)]
             ELSE h

ResetSticky(h, reset) ==
    IF reset THEN [h EXCEPT !.sticky_curMK = TailOf(h.sticky)] ELSE h

FlushLru(h, p, old) ==
    ResetLru(UnlinkNewer(h, h.lru, p, old), MetOld(h, h.lru, old))

FlushSticky(h, p, old) ==
    ResetSticky(UnlinkNewer(h, h.sticky, p, old), MetOld(h, h.sticky, old))

do_item_flush_expired(h, p, delay) ==
    LET old == FlushTime(delay)
    IN  FlushSticky(FlushLru([h EXCEPT !.oldest_live[p] = old], p, old), p, old)

\* History: the listed items a flush has left for the oldest_live test.
MarkFlushed(h, p) ==
    [h EXCEPT !.item = [i \in ItemIds |->
        IF InQ(h, i) /\ Included(h, i, p)
        THEN [@[i] EXCEPT !.flushed = @ \cup {p}] ELSE @[i]]]

item_flush_expired(c, p, delay) ==
    /\ p = All \/ PrefixExists(cache, p)
    /\ Command(c, MarkFlushed(do_item_flush_expired(cache, p, delay), p))

-----------------------------------------------------------------------------
(***************************************************************************)
(* Collections, by the list commands.                                      *)
(***************************************************************************)

list_struct_create(c, k, level) ==
    IF Found(cache, k, clock) = None THEN MakeItem(c, k, TRUE, level)
    ELSE level = 0 /\ WithItem(c, k, FALSE, LAMBDA h, i : h)

KeepElem(c, m) ==
    IF m.ok THEN Call(c, [m.h EXCEPT !.mem = @ + 1], "elem", None)
            ELSE Call(c, m.h, "idle", None)

list_elem_alloc(c, level) ==
    /\ client[c] = Idle
    /\ KeepElem(c, do_item_mem_alloc(cache, FALSE, level, clock))

\* Frees the element.
list_elem_free(c) ==
    /\ client[c].kind = "elem"
    /\ Call(c, [cache EXCEPT !.mem = @ - 1], "idle", None)

Insert_Mutant(h, i, outcome) ==
    IF outcome = "trimmed" THEN h ELSE [h EXCEPT !.item[i].ccnt = @ + 1]

\* What do_list_elem_insert() makes of an element: it is linked; the list is
\* full, and another element is deleted for it; or it is refused because of
\* its index, the overflow action or the sticky memory.  The maximum count
\* is an attribute of the list: any list with elements may be full.
Insert(h, i, outcome) ==
    IF outcome = "trimmed" THEN [h EXCEPT !.mem = @ - 1]
                           ELSE [h EXCEPT !.item[i].ccnt = @ + 1]

Outcomes(ccnt) == {"refused"} \cup (IF ccnt > 0 THEN {"trimmed"} ELSE {})
                              \cup (IF ccnt < MaxElems THEN {"linked"} ELSE {})

\* An item made for an element that is refused is unlinked again.
InsertNew(a, linkable, outcome) ==
    IF ~linkable THEN a.h
    ELSE IF outcome = "refused"
    THEN do_item_unlink(do_item_link(a.h, a.it, clock), a.it)
    ELSE Insert(do_item_link(a.h, a.it, clock), a.it, outcome)

InsertMade(c, a, linkable, outcome) ==
    IF a.it = None THEN Call(c, a.h, "elem", None)
    ELSE Call(c, do_item_release(InsertNew(a, linkable, outcome), a.it, clock),
              IF linkable /\ outcome # "refused" THEN "idle" ELSE "elem", None)

InsertMaking(c, k, level) ==
    \E m \in {do_item_mem_alloc(do_item_get(cache, k, FALSE, clock), TRUE, level,
                                clock)},
       d \in Deltas, linkable \in BOOLEAN, outcome \in Outcomes(0) :
        InsertMade(c, do_item_alloc(m, k, TRUE, Exptime(d)), linkable, outcome)

InsertInto(c, h, i) ==
    \E outcome \in IF h.item[i].coll THEN Outcomes(h.item[i].ccnt) ELSE {"refused"} :
        IF outcome = "refused"
        THEN Call(c, do_item_release(h, i, clock), "elem", None)
        ELSE Call(c, do_item_release(Insert(h, i, outcome), i, clock), "idle", None)

\* The client frees an element that was not inserted.
list_elem_insert(c, k, create, level) ==
    LET i == Found(cache, k, clock)
    IN  /\ client[c].kind = "elem"
        /\ create \/ level = 0
        /\ IF i # None
           THEN ~create /\ InsertInto(c, do_item_get(cache, k, FALSE, clock), i)
           ELSE IF create THEN InsertMaking(c, k, level)
           ELSE Call(c, do_item_get(cache, k, FALSE, clock), "elem", None)

DropEmpty(h, i, drop) ==
    IF h.item[i].ccnt = 0 /\ drop THEN do_item_unlink(h, i) ELSE h

DeleteElems(h, i, count, drop) ==
    IF ~h.item[i].coll \/ h.item[i].ccnt = 0 THEN h
    ELSE DropEmpty(do_coll_elem_delete_with_count(h, i, count), i, drop)

list_elem_delete(c, k, count, drop) ==
    WithItem(c, k, FALSE, LAMBDA h, i : DeleteElems(h, i, count, drop))

-----------------------------------------------------------------------------
(***************************************************************************)
(* Scans, the scrubber, the delete thread.                                 *)
(***************************************************************************)

\* item_scan_getnext and item_scan_direct, for what assoc returns.
item_scan_getnext(s, items) ==
    /\ scan[s] = {} /\ items \subseteq LinkedItems(cache)
    /\ Cardinality(items) \in 1 .. MaxScan
    /\ LET valid == {i \in items : do_item_isvalid(cache, i, clock)}
       IN  /\ cache' = FoldSet(LAMBDA i, h : ITEM_REFCOUNT_INCR(h, i), cache, valid)
           /\ scan' = [scan EXCEPT ![s] = valid]
    /\ UNCHANGED <<client, reaper, clock>>

item_scan_release(s) ==
    /\ scan[s] # {}
    /\ \E order \in SetToSeqs(scan[s]) :
         cache' = InTurn(LAMBDA h, i : do_item_release(h, i, clock), cache, order)
    /\ scan' = [scan EXCEPT ![s] = {}]
    /\ UNCHANGED <<client, reaper, clock>>

\* item_scrubber_main at one item of the array that assoc returned.  It reads
\* the clock once, when it starts: begun is that time.  stale: in mode "stale",
\* the item belongs to another server.
ScrubItem(i, begun, stale) ==
    /\ cache.item[i].linked /\ begun <= clock
    /\ IF stale THEN begun = clock ELSE ~do_item_isvalid(cache, i, begun)
    /\ cache' = do_item_unlink(cache, i)
    /\ UNCHANGED <<client, scan, reaper, clock>>

pop_coll_del_queue ==
    /\ reaper = None /\ cache.delq # <<>>
    /\ reaper' = Head(cache.delq)
    /\ cache' = [cache EXCEPT !.delq = Tail(@)]
    /\ UNCHANGED <<client, scan, clock>>

ReapDone_Mutant(i) == cache.item[i].ccnt \in 1 .. BgCount - 1

\* Fewer elements deleted than asked for: the collection is empty.
ReapDone(i) == cache.item[i].ccnt < BgCount

ReapElems ==
    /\ reaper # None
    /\ LET h == do_coll_elem_delete_with_count(cache, reaper, BgCount)
       IN  IF ReapDone(reaper)
           THEN cache' = do_item_free(h, reaper) /\ reaper' = None
           ELSE cache' = h /\ UNCHANGED reaper
    /\ UNCHANGED <<client, scan, clock>>

ReapEvict(level) ==
    /\ reaper = None /\ cache.delq = <<>> /\ level >= BgLevel
    /\ cache' = do_item_regain(cache, level)
    /\ UNCHANGED <<client, scan, reaper, clock>>

Tick ==
    /\ clock < MaxTime
    /\ clock' = clock + 1
    /\ UNCHANGED <<cache, client, scan, reaper>>

-----------------------------------------------------------------------------
Init ==
    /\ cache = [item |-> [i \in ItemIds |-> FreeItem], lru |-> <<>>,
                sticky |-> <<>>, lowMK |-> None, curMK |-> None,
                sticky_curMK |-> None, delq |-> <<>>, mem |-> 0,
                oldest_live |-> [p \in PrefixNames \cup {All} |-> 0]]
    /\ client = [c \in Clients |-> Idle]
    /\ scan = [s \in Scanners |-> {}]
    /\ reaper = None
    /\ clock = 2   \* process_started is two seconds before the start

KvCommand(c) ==
    \/ \E k \in Keys : item_get(c, k)
    \/ \E k \in KvKeys, l \in Levels : item_alloc(c, k, l)
    \/ item_release(c)
    \/ \E op \in {"set", "add"}, linkable \in BOOLEAN :
         item_store(c, op, linkable, 0)
    \/ \E op \in {"replace", "mismatch"} : item_store(c, op, TRUE, 0)
    \/ \E l \in Levels : item_store(c, "attach", TRUE, l)
    \/ \E k \in Keys, create \in BOOLEAN, l \in Levels :
         item_arithmetic(c, k, create, l)
    \/ \E k \in Keys : item_delete(c, k)
    \/ \E k \in Keys : item_getattr(c, k)
    \/ \E k \in Keys, d \in Deltas : item_setattr(c, k, d)
    \/ \E p \in PrefixNames \cup {All}, d \in Delays : item_flush_expired(c, p, d)

CollCommand(c) ==
    \/ \E k \in CollKeys, l \in Levels : list_struct_create(c, k, l)
    \/ \E l \in Levels : list_elem_alloc(c, l)
    \/ list_elem_free(c)
    \/ \E k \in CollKeys, create \in BOOLEAN, l \in Levels :
         list_elem_insert(c, k, create, l)
    \/ \E k \in CollKeys, n \in 1 .. MaxElems, drop \in BOOLEAN :
         list_elem_delete(c, k, n, drop)

Next ==
    \/ \E c \in Clients : KvCommand(c) \/ CollCommand(c)
    \/ \E s \in Scanners, items \in SUBSET ItemIds : item_scan_getnext(s, items)
    \/ \E s \in Scanners : item_scan_release(s)
    \/ \E i \in ItemIds, begun \in 2 .. MaxTime, stale \in BOOLEAN :
         ScrubItem(i, begun, stale)
    \/ pop_coll_del_queue
    \/ ReapElems
    \/ \E l \in Levels : ReapEvict(l)
    \/ Tick

\* The delete thread is woken when something is queued, and sleeps 50 ms at
\* most.
Fairness == WF_vars(pop_coll_del_queue) /\ WF_vars(ReapElems)

Spec == Init /\ [][Next]_vars /\ Fairness

-----------------------------------------------------------------------------
(***************************************************************************)
(* Properties.                                                             *)
(***************************************************************************)

Ids == ItemIds \cup {None}

\* Every variable stays in its type.
TypeOK ==
    /\ cache.item \in [ItemIds ->
         [used : BOOLEAN, key : Keys \cup {None}, coll : BOOLEAN,
          linked : BOOLEAN, refcount : 0 .. RefFull - 1, refchunk : Nat,
          exptime : Int, time : 0 .. MaxTime,
          ccnt : 0 .. MaxElems, lost : 0 .. MaxLost,
          flushed : SUBSET (PrefixNames \cup {All})]]
    /\ {cache.lowMK, cache.curMK, cache.sticky_curMK} \subseteq Ids
    /\ {cache.lru, cache.sticky, cache.delq} \subseteq Seq(ItemIds)
    /\ cache.mem \in 0 .. Space
    /\ cache.oldest_live \in [PrefixNames \cup {All} -> Nat]
    /\ client \in [Clients -> [kind : {"idle", "got", "new", "elem"}, it : Ids]]
    /\ scan \in [Scanners -> SUBSET ItemIds]
    /\ reaper \in Ids /\ clock \in 2 .. MaxTime

Holders(i) ==
    Cardinality({c \in Clients : client[c].it = i})
      + Cardinality({s \in Scanners : i \in scan[s]})

Reaped == Range(cache.delq) \cup {reaper}

\* The reference count of an item, over refcount and refchunk, is the number
\* of threads that keep it, plus the references item_arithmetic() lost.  A
\* block is in use exactly while it is linked, referenced or waiting for the
\* delete thread, and in that queue at most once: no thread keeps an item
\* that was freed, and none is forgotten.
RefsAccounted ==
    /\ TypeOK
    /\ \A i \in ItemIds :
         LET it   == cache.item[i]
             refs == it.refcount + RefMove * it.refchunk
         IN  /\ refs = Holders(i) + it.lost
             /\ it.used <=> it.linked \/ refs > 0 \/ i \in Reaped
             /\ i \in Reaped => ~it.linked /\ refs = 0 /\ it.coll
    /\ IsInjective(cache.delq) /\ reaper \notin Range(cache.delq)

\* The memory in use is that of the blocks in use, their elements and the
\* elements clients have allocated and not yet inserted: no path of insert,
\* trim, delete, reclaim and reaping frees an element twice or loses one.
MemoryExact ==
    cache.mem = Cardinality({c \in Clients : client[c].kind = "elem"})
                  + FoldSet(LAMBDA i, sum : sum + cache.item[i].ccnt,
                            Cardinality({i \in ItemIds : cache.item[i].used}),
                            ItemIds)

Place(i) == SelectInSeq(cache.lru, LAMBDA j : j = i)

\* assert(itemsp->lowMK[lruid] != NULL) where curMK is set, and what makes
\* reclaim find every expired item: no item that can expire is below lowMK,
\* and curMK is between lowMK and the head.
MarksSound ==
    /\ cache.curMK = None <=> cache.lowMK = None
    /\ cache.lowMK # None => /\ Place(cache.lowMK) > 0
                             /\ Place(cache.curMK) \in 1 .. Place(cache.lowMK)
    /\ \A n \in DOMAIN cache.lru : cache.item[cache.lru[n]].exptime > 0
         => cache.lowMK # None /\ n <= Place(cache.lowMK)
    /\ cache.sticky_curMK # None => Contains(cache.sticky, cache.sticky_curMK)

\* "The LRU is sorted in decreasing time order", on which the walk of
\* do_item_flush_expired() rests.  The lists hold linked items, each once and
\* in the list of its kind; a linked item is in none only while someone
\* refers to it.  The marks are sound.
LruExact ==
    /\ MarksSound
    /\ IsInjective(cache.lru \o cache.sticky)
    /\ \A list \in {cache.lru, cache.sticky} : \A m, n \in DOMAIN list :
         m < n => cache.item[list[m]].time >= cache.item[list[n]].time
    /\ \A i \in ItemIds :
         LET it == cache.item[i]
         IN  /\ InQ(cache, i) => it.linked
             /\ Contains(cache.sticky, i) => IsSticky(it)
             /\ Contains(cache.lru, i) => ~IsSticky(it)
             /\ it.linked /\ it.refcount = 0 => InQ(cache, i)

\* "After invalidation none of the items will be returned in response to a
\* retrieval command": an item in the LRU lists that a flush command, with a
\* delay or without, has hit is not valid from the moment on at which it was to
\* be flushed, however it is read, moved, evicted or released before and after.
\* The exception: oldest_live has one value, so a later flush with a delay puts
\* the moment off, and what had been flushed is valid again until then.
FlushedGone ==
    \A i \in LinkedItems(cache) : \A p \in cache.item[i].flushed :
        cache.oldest_live[p] <= clock => ~do_item_isvalid(cache, i, clock)

\* collection_delete_thread frees every collection that nobody refers to any
\* more, whatever its number of elements.
CollFreed ==
    \A i \in ItemIds :
        (i \in Reaped) ~> ~cache.item[i].used

=============================================================================
