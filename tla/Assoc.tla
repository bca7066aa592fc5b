-------------------------------- MODULE Assoc --------------------------------
(***************************************************************************)
(* The hash table of the default engine (engines/default/assoc.c): chains  *)
(* that a backward, incremental expansion splits while items come and go,  *)
(* the scans that walk the table in pieces (checkpoint snapshot, scrubber, *)
(* dumps) and the cursor of the scan command.                              *)
(*                                                                         *)
(* An item is its key: assoc_replace() puts the new item where the old one *)
(* was and changes nothing here.  Every function of assoc.c runs with the  *)
(* cache lock held; the loops of assoc_scan_next() and assoc_scan_direct() *)
(* are cut into steps, and call says which of them holds the lock.         *)
(***************************************************************************)
EXTENDS Integers, Sequences, SequencesExt, FiniteSets, FiniteSetsExt

CONSTANTS
    Keys, Hash,     \* the keys and their hash values
    Colls,          \* the keys of collections that reach the element limit
    HashSize,       \* buckets of one table (2^16 in the code)
    MaxRootPower,   \* the root power at which expansion ends (15)
    LoadNum,        \* the load factor that starts an expansion is
    LoadDen,        \* LoadNum / LoadDen (3/2)
    MoveTables,     \* chains redistributed by one insert (4)
    Scans,          \* the scans that may be open at a time
    ArraySize,      \* array_size of assoc_scan_next()
    Cursors,        \* the clients of the scan command
    ReqCount        \* req_count of assoc_scan_direct()

ASSUME ConstantAssumption ==
    /\ Hash \in [Keys -> Nat]
    /\ Colls \subseteq Keys
    /\ {HashSize, LoadNum, LoadDen, MoveTables, ArraySize, ReqCount}
           \subseteq Nat \ {0}
    /\ MaxRootPower \in Nat
    /\ Keys \cap Scans = {} /\ Scans \cap Cursors = {}

VARIABLES
    rootpower, expanding, exp_bucket, exp_tabidx,
    table,      \* roottable[tabidx].hashtable[bucket]: a chain
    refcount,   \* infotable[bucket].refcount
    scan,       \* struct assoc_scan
    cursor,     \* the cursor each client of the scan command holds
    call,       \* the scan function that holds the cache lock
    mark        \* history: what became of each key in each scan

hash == <<rootpower, expanding, exp_bucket, exp_tabidx>>
vars == <<hash, table, refcount, scan, cursor, call, mark>>

Buckets == 0 .. HashSize - 1
Tables  == 0 .. 2^MaxRootPower - 1
\* A scan that is not open; the code leaves the other fields as they were
\* and does not read them again.
NoScan  == [initialized |-> FALSE, bucket |-> 0, tabcnt |-> 0, tabidx |-> 0,
            ph_linked |-> FALSE]
NoCall  == [by |-> "none", count |-> 0, cost |-> 0]

RootSize  == 2^rootpower
PrevSize  == 2^(rootpower - 1)
Bucket(k) == Hash[k] % HashSize
TabBits(k) == Hash[k] \div HashSize

hash_expansion_limit ==
    IF rootpower < MaxRootPower
    THEN (HashSize * RootSize * LoadNum) \div LoadDen
    ELSE 0

-----------------------------------------------------------------------------
NotYetExpanded_Mutant(k) ==
    Bucket(k) <= exp_bucket

\* Buckets are expanded in backward order, the tables of one forward.
NotYetExpanded(k) ==
    \/ Bucket(k) < exp_bucket
    \/ Bucket(k) = exp_bucket /\ TabBits(k) % PrevSize >= exp_tabidx

\* The table that holds a key.
CUR_HASH_TABIDX(k) ==
    TabBits(k) % (IF expanding /\ NotYetExpanded(k) THEN PrevSize ELSE RootSize)

assoc_find(k) == Contains(table[CUR_HASH_TABIDX(k)][Bucket(k)], k)

Linked == {k \in Keys : assoc_find(k)}

IndexOf(chain, e) == CHOOSE i \in 1 .. Len(chain) : chain[i] = e

BeforePlaceholder_Mutant(s, k) == FALSE

BeforePlaceholder(s, k) ==
    LET chain == table[scan[s].tabidx][scan[s].bucket]
    IN  IndexOf(chain, k) < IndexOf(chain, s)

\* Has scan s passed the place of the linked key k?
assoc_scan_in_visited_area(s, k) ==
    \/ Bucket(k) < scan[s].bucket
    \/ /\ Bucket(k) = scan[s].bucket
       /\ \/ CUR_HASH_TABIDX(k) < scan[s].tabidx
          \/ /\ CUR_HASH_TABIDX(k) = scan[s].tabidx
             /\ scan[s].ph_linked
             /\ BeforePlaceholder(s, k)

Init ==
    /\ rootpower = 0
    /\ expanding = FALSE /\ exp_bucket = 0 /\ exp_tabidx = 0
    /\ table = [t \in Tables |-> [b \in Buckets |-> <<>>]]
    /\ refcount = [b \in Buckets |-> 0]
    /\ scan = [s \in Scans |-> NoScan]
    /\ cursor = [c \in Cursors |-> [on |-> FALSE, tabidx |-> 0, bucket |-> 0]]
    /\ call = NoCall
    /\ mark = [a \in Scans \cup Cursors |-> [k \in Keys |-> "none"]]

-----------------------------------------------------------------------------
(***************************************************************************)
(* Items.                                                                  *)
(***************************************************************************)

\* Split the next chains of the bucket being expanded; an item whose new
\* root bit is set goes to the head of the chain PrevSize tables further.
redistribute(tab) ==
    LET last == IF exp_tabidx + MoveTables > PrevSize
                THEN PrevSize ELSE exp_tabidx + MoveTables
        moves(e) == e \in Keys /\ TabBits(e) % RootSize >= PrevSize
        stays(e) == ~moves(e)
        chain(t) == tab[t][exp_bucket]
        split(t) ==
            IF t \in exp_tabidx .. last - 1
            THEN SelectSeq(chain(t), stays)
            ELSE IF t - PrevSize \in exp_tabidx .. last - 1
            THEN Reverse(SelectSeq(chain(t - PrevSize), moves)) \o chain(t)
            ELSE chain(t)
    IN  /\ table' = [t \in DOMAIN tab |->
                         [tab[t] EXCEPT ![exp_bucket] = split(t)]]
        /\ exp_tabidx' = IF last = PrevSize THEN 0 ELSE last
        /\ exp_bucket' = IF last = PrevSize /\ exp_bucket > 0
                         THEN exp_bucket - 1 ELSE exp_bucket
        /\ expanding' = ~(last = PrevSize /\ exp_bucket = 0)
        /\ UNCHANGED rootpower

\* assoc_expand(): the new tables are empty, no chain has moved yet.
assoc_expand ==
    /\ rootpower' = rootpower + 1
    /\ expanding' = TRUE
    /\ exp_bucket' = HashSize - 1
    /\ exp_tabidx' = 0

Started(s) == scan[s].bucket + scan[s].tabcnt > 0

\* Where the new key stands with respect to an actor's scan.
MarkNew(a, k) ==
    IF a \in Cursors
    THEN IF cursor[a].on THEN "new" ELSE "none"
    ELSE IF ~scan[a].initialized THEN "none"
    ELSE IF Started(a) /\ assoc_scan_in_visited_area(a, k)'
    THEN "behind" ELSE "new"

MayMove_Mutant == expanding

\* The expansion waits while a scan is in the bucket it has come to.
MayMove == expanding /\ refcount[exp_bucket] = 0

\* A new key goes to the head of its chain; then the expansion makes its
\* next move, unless a scan is in that bucket, or a new expansion starts
\* (or cannot, for want of memory).
assoc_insert(k) ==
    LET full == Cardinality(Linked) + 1 > hash_expansion_limit
        tab  == [table EXCEPT ![CUR_HASH_TABIDX(k)][Bucket(k)] = <<k>> \o @]
    IN  /\ call = NoCall /\ k \notin Linked
        /\ \/ /\ MayMove
              /\ redistribute(tab)
           \/ /\ ~expanding /\ hash_expansion_limit # 0 /\ full
              /\ assoc_expand
              /\ table' = tab
           \/ /\ ~MayMove
              /\ table' = tab
              /\ UNCHANGED hash
        /\ UNCHANGED <<refcount, scan, cursor, call>>
        /\ mark' = [a \in DOMAIN mark |->
                       [mark[a] EXCEPT ![k] = MarkNew(a, k)]]

assoc_delete(k) ==
    /\ call = NoCall /\ k \in Linked
    /\ LET other(e) == e # k
       IN  table' = [table EXCEPT ![CUR_HASH_TABIDX(k)][Bucket(k)] =
                                      SelectSeq(@, other)]
    /\ mark' = [a \in DOMAIN mark |-> [mark[a] EXCEPT ![k] = "none"]]
    /\ UNCHANGED <<hash, refcount, scan, cursor, call>>

-----------------------------------------------------------------------------
(***************************************************************************)
(* Scans.  Between two calls of assoc_scan_next() the cache lock is free   *)
(* and the scan's place is kept by a placeholder in the chain, or by       *)
(* tabidx alone when the chain ended with the last item returned.          *)
(***************************************************************************)

Returned(a, ks) ==
    [mark EXCEPT ![a] = [k \in Keys |->
        IF k \notin ks THEN @[k]
        ELSE IF @[k] \in {"got", "behind"} THEN "twice" ELSE "got"]]

MarkOpen(a) ==
    [mark EXCEPT ![a] = [k \in Keys |-> IF k \in Linked THEN "due" ELSE "none"]]

\* tabidx is not initialized: it holds what was on the caller's stack, for
\* the comparison with a table index something small or something large.
assoc_scan_init(s) ==
    /\ call = NoCall /\ ~scan[s].initialized
    /\ \E garbage \in {0, 2^MaxRootPower} :
           scan' = [scan EXCEPT ![s] =
                       [initialized |-> TRUE, bucket |-> 0, tabcnt |-> 0,
                        tabidx |-> garbage, ph_linked |-> FALSE]]
    /\ mark' = MarkOpen(s)
    /\ UNCHANGED <<hash, table, refcount, cursor, call>>

assoc_scan_next(s) ==
    /\ call = NoCall /\ scan[s].initialized /\ scan[s].bucket < HashSize
    /\ call' = [by |-> s, count |-> 0, cost |-> 0]
    /\ UNCHANGED <<hash, table, refcount, scan, cursor, mark>>

InsideBucket(s) == scan[s].bucket < HashSize /\ scan[s].tabcnt > 0

ScanStartBucket(s) ==
    /\ call.by = s /\ scan[s].bucket < HashSize /\ scan[s].tabcnt = 0
    /\ scan' = [scan EXCEPT ![s].tabcnt = RootSize, ![s].tabidx = 0]
    /\ refcount' = [refcount EXCEPT ![scan[s].bucket] = @ + 1]
    /\ UNCHANGED <<hash, table, cursor, call, mark>>

TooCostly == call.cost > 2 * ArraySize /\ call.count > 0

ScanCostStop(s) ==
    /\ call.by = s /\ InsideBucket(s)
    /\ scan[s].tabidx < scan[s].tabcnt /\ TooCostly
    /\ call' = NoCall
    /\ UNCHANGED <<hash, table, refcount, scan, cursor, mark>>

StopPlace_Mutant(s, chain, n) ==
    [table |-> [table EXCEPT ![scan[s].tabidx][scan[s].bucket] =
                    <<s>> \o chain],
     scan  |-> [scan EXCEPT ![s].ph_linked = TRUE]]

\* Stop behind the n-th element of the chain: put the placeholder there, or
\* pass on to the next table if nothing follows.
StopPlace(s, chain, n) ==
    IF n < Len(chain)
    THEN [table |-> [table EXCEPT ![scan[s].tabidx][scan[s].bucket] =
                         SubSeq(chain, 1, n) \o <<s>> \o
                         SubSeq(chain, n + 1, Len(chain))],
          scan  |-> [scan EXCEPT ![s].ph_linked = TRUE]]
    ELSE [table |-> [table EXCEPT ![scan[s].tabidx][scan[s].bucket] = chain],
          scan  |-> [scan EXCEPT ![s].tabidx = @ + 1, ![s].ph_linked = FALSE]]

\* One chain, from the placeholder if it is linked: to the end, or up to the
\* item that fills the array or reaches the element limit.
ScanChain(s) ==
    LET full  == table[scan[s].tabidx][scan[s].bucket]
        from  == IF scan[s].ph_linked THEN IndexOf(full, s) ELSE 1
        chain == SelectSeq(full, LAMBDA e : e # s)
        items(n) == {chain[i] : i \in from .. n} \cap Keys
        count(n) == call.count + Cardinality(items(n))
    IN  /\ call.by = s /\ InsideBucket(s)
        /\ scan[s].tabidx < scan[s].tabcnt /\ ~TooCostly
        /\ \/ /\ count(Len(chain)) < ArraySize
              /\ table' = [table EXCEPT ![scan[s].tabidx][scan[s].bucket] =
                                            chain]
              /\ scan' = [scan EXCEPT ![s].tabidx = @ + 1,
                                      ![s].ph_linked = FALSE]
              /\ mark' = Returned(s, items(Len(chain)))
              /\ call' = [call EXCEPT !.count = count(Len(chain)),
                                      !.cost = @ + 2 + Len(chain) - from]
           \/ \E n \in from .. Len(chain) :
              /\ chain[n] \in Keys
              /\ count(n) = ArraySize \/ chain[n] \in Colls
              /\ count(n - 1) < ArraySize
              /\ table' = StopPlace(s, chain, n).table
              /\ scan' = StopPlace(s, chain, n).scan
              /\ mark' = Returned(s, items(n))
              /\ call' = NoCall
        /\ UNCHANGED <<hash, refcount, cursor>>

\* The bucket is finished; after the last one the call returns.
ScanFinishBucket(s) ==
    /\ call.by = s /\ InsideBucket(s) /\ scan[s].tabidx = scan[s].tabcnt
    /\ refcount' = [refcount EXCEPT ![scan[s].bucket] = @ - 1]
    /\ scan' = [scan EXCEPT ![s].bucket = @ + 1, ![s].tabcnt = 0]
    /\ call' = IF scan[s].bucket + 1 = HashSize THEN NoCall ELSE call
    /\ UNCHANGED <<hash, table, cursor, mark>>

\* A caller closes the scan at the end, or earlier when it has to give up.
assoc_scan_final(s) ==
    /\ call = NoCall /\ scan[s].initialized
    /\ scan' = [scan EXCEPT ![s] = NoScan]
    /\ table' = IF scan[s].ph_linked
                THEN [table EXCEPT ![scan[s].tabidx][scan[s].bucket] =
                                       SelectSeq(@, LAMBDA e : e # s)]
                ELSE table
    /\ refcount' = IF InsideBucket(s)
                   THEN [refcount EXCEPT ![scan[s].bucket] = @ - 1]
                   ELSE refcount
    /\ mark' = [mark EXCEPT ![s] = [k \in Keys |-> "none"]]
    /\ UNCHANGED <<hash, cursor, call>>

-----------------------------------------------------------------------------
(***************************************************************************)
(* The scan command: the client keeps the cursor, the server keeps nothing *)
(* between two calls.  The table index is counted in reverse bit order.    *)
(***************************************************************************)

reverse_bits(t) ==
    MapThenSumSet(LAMBDA i : ((t \div 2^i) % 2) * 2^(rootpower - 1 - i),
                  0 .. rootpower - 1)

NextTabidx_Mutant(t) == (t + 1) % RootSize

NextTabidx(t) == reverse_bits((reverse_bits(t) + 1) % RootSize)

\* A client sends the cursor "0" first, then the cursor it was given.
assoc_scan_direct(c) ==
    /\ call = NoCall
    /\ call' = [by |-> c, count |-> 0, cost |-> 0]
    /\ cursor' = [cursor EXCEPT ![c].on = TRUE]
    /\ mark' = IF cursor[c].on THEN mark ELSE MarkOpen(c)
    /\ UNCHANGED <<hash, table, refcount, scan>>

\* The loop does not stop between a chain and those split from it.
MoreChains(c) ==
    \/ call.count < ReqCount /\ call.cost < 4 * ReqCount
    \/ expanding /\ cursor[c].tabidx >= PrevSize

CursorChain(c) ==
    LET t   == NextTabidx(cursor[c].tabidx)
        b   == cursor[c].bucket + (IF t = 0 THEN 1 ELSE 0)
        items == ToSet(table[cursor[c].tabidx][cursor[c].bucket]) \cap Keys
    IN  /\ call.by = c /\ MoreChains(c)
        /\ mark' = Returned(c, items)
        /\ \/ /\ b < HashSize
              /\ cursor' = [cursor EXCEPT ![c].tabidx = t, ![c].bucket = b]
              /\ call' = [call EXCEPT !.count = @ + Cardinality(items),
                                      !.cost = @ + 1]
           \/ /\ b = HashSize
              /\ cursor' = [cursor EXCEPT ![c] = [on |-> FALSE, tabidx |-> 0,
                                                  bucket |-> 0]]
              /\ call' = NoCall
        /\ UNCHANGED <<hash, table, refcount, scan>>

CursorReturn(c) ==
    /\ call.by = c /\ ~MoreChains(c)
    /\ call' = NoCall
    /\ UNCHANGED <<hash, table, refcount, scan, cursor, mark>>

-----------------------------------------------------------------------------
ScanStep(s) ==
    \/ ScanStartBucket(s)
    \/ ScanCostStop(s)
    \/ ScanChain(s)
    \/ ScanFinishBucket(s)

CursorStep(c) ==
    \/ CursorChain(c)
    \/ CursorReturn(c)

Next ==
    \/ \E k \in Keys :
          \/ assoc_insert(k)
          \/ assoc_delete(k)
    \/ \E s \in Scans :
          \/ assoc_scan_init(s)
          \/ assoc_scan_next(s)
          \/ ScanStep(s)
          \/ assoc_scan_final(s)
    \/ \E c \in Cursors :
          \/ assoc_scan_direct(c)
          \/ CursorStep(c)

Spec == Init /\ [][Next]_vars

(***************************************************************************)
(* A thread that scans calls assoc_scan_next() until it reports the end    *)
(* and then closes the scan.  Whoever holds the cache lock goes on; for    *)
(* taking it, a thread that keeps asking for the lock while others take it *)
(* in turns gets it in the end.                                            *)
(***************************************************************************)
HolderStep ==
    \/ \E s \in Scans : ScanStep(s)
    \/ \E c \in Cursors : CursorStep(c)

Fairness ==
    /\ WF_vars(HolderStep)
    /\ \A s \in Scans : SF_vars(assoc_scan_next(s))

FairSpec == Spec /\ Fairness

-----------------------------------------------------------------------------
(***************************************************************************)
(* Properties.                                                             *)
(***************************************************************************)

\* Bucket and table numbers stay inside the tables in use, and a reference
\* count between zero and the number of scans.
TypeOK ==
    /\ rootpower \in 0 .. MaxRootPower
    /\ expanding \in BOOLEAN
    /\ exp_bucket \in Buckets
    /\ exp_tabidx \in Tables
    /\ table \in [Tables -> [Buckets -> Seq(Keys \cup Scans)]]
    /\ refcount \in [Buckets -> 0 .. Cardinality(Scans)]
    /\ scan \in [Scans -> [initialized : BOOLEAN, bucket : 0 .. HashSize,
                           tabcnt : 0 .. 2^MaxRootPower,
                           tabidx : 0 .. 2^MaxRootPower,
                           ph_linked : BOOLEAN]]
    /\ cursor \in [Cursors -> [on : BOOLEAN, tabidx : 0 .. RootSize - 1,
                               bucket : Buckets]]
    /\ mark \in [Scans \cup Cursors ->
                   [Keys -> {"none", "due", "new", "behind", "got", "twice"}]]

\* Wherever the expansion stands, a key is in one chain only, once, and it is
\* the chain that assoc_find(), assoc_insert() and assoc_delete() look into
\* (CUR_HASH_TABIDX).
FindsEveryItem ==
    /\ TypeOK
    /\ \A t \in Tables, b \in Buckets : \A i \in DOMAIN table[t][b] :
          LET k == table[t][b][i]
          IN  k \in Keys => /\ b = Bucket(k) /\ t = CUR_HASH_TABIDX(k)
                            /\ IndexOf(table[t][b], k) = i

\* A bucket's reference count is the number of scans inside it, a placeholder
\* is linked exactly once where its scan stands, and so redistribute() never
\* meets one.
PlaceholderPinned ==
    /\ \A b \in Buckets :
          refcount[b] = Cardinality({s \in Scans : /\ scan[s].initialized
                                                    /\ scan[s].bucket = b
                                                    /\ scan[s].tabcnt > 0})
    /\ \A t \in Tables, b \in Buckets : \A i \in DOMAIN table[t][b] :
          LET s == table[t][b][i]
          IN  s \in Scans => /\ scan[s].ph_linked
                             /\ scan[s].bucket = b /\ scan[s].tabidx = t
                             /\ IndexOf(table[t][b], s) = i
    /\ \A s \in Scans : scan[s].ph_linked =>
          Contains(table[scan[s].tabidx][scan[s].bucket], s)

\* A scan returns no item twice, and when it has come to the end it has
\* returned every item except those linked behind its back: inserts, deletes
\* and expansions between its calls notwithstanding.  All the while its
\* placeholder is pinned.
ScanExact ==
    /\ PlaceholderPinned
    /\ \A s \in Scans, k \in Keys :
          /\ mark[s][k] # "twice"
          /\ scan[s].initialized /\ scan[s].bucket = HashSize
                 => mark[s][k] \notin {"due", "new"}

\* While a scan is under way, assoc_scan_in_visited_area() tells exactly which
\* items it will not return any more; the checkpoint logs an update twice if
\* and only if this holds (NEED_DUAL_WRITE).  Before the first step of a scan
\* nothing is said: the test then reads a tabidx that is not yet set.
VisitedExact ==
    \A s \in Scans, k \in Linked :
        call = NoCall /\ scan[s].initialized /\ Started(s) =>
            (assoc_scan_in_visited_area(s, k)
                 <=> mark[s][k] \in {"got", "behind"})

\* A full iteration of the scan command returns every item that was there all
\* the time, and no item twice, whatever expansion does between its calls.
CursorExact ==
    \A c \in Cursors, k \in Keys :
        /\ mark[c][k] # "twice"
        /\ ~cursor[c].on => mark[c][k] # "due"

\* A scan comes to its end although other threads keep inserting: new items
\* go to the head of a chain, which is behind the placeholder.
ScanEnds ==
    \A s \in Scans :
        scan[s].initialized ~> ~scan[s].initialized \/ scan[s].bucket = HashSize

=============================================================================
