----------------------------- MODULE BTreeKeys -----------------------------
(***************************************************************************)
(* What the operations on a b+tree collection do with its bkeys            *)
(* (coll_btree.c): the overflow actions on insertion, with the maxcount    *)
(* and the maxbkeyrange of the collection, and scans that tell the client  *)
(* when they run into the space that overflow has trimmed.                 *)
(*                                                                         *)
(* The b+tree is the set of its bkeys, as module BTree shows it may be     *)
(* taken to be.  A position is an index into the bkeys in order: 0 stands  *)
(* for "no node and index BTREE_ITEM_COUNT", one more than their number    *)
(* for "no node and index 0".  The bkeys of the two types are disjoint     *)
(* sets of numbers: those above BinaryBase are binary.                     *)
(***************************************************************************)
EXTENDS Integers, Sequences, FiniteSetsExt

CONSTANTS
  BinaryBase,    \* bkeys up to this one are of type uint64
  MaxSize,       \* config->max_btree_size
  DefaultSize    \* DEFAULT_BTREE_SIZE

ASSUME KeysAssumption == BinaryBase \in Nat /\ DefaultSize \in 1 .. MaxSize

NoRange == 0 - 1   \* BKEY_NULL

Type(bkey) == IF bkey > BinaryBase THEN "binary" ELSE "uint64"

\* The bkeys in order.
Sorted(S) ==
  IF S = {} THEN <<>> ELSE SelectSeq([k \in 1 .. Max(S) |-> k], LAMBDA k : k \in S)

Smallest(ovflact) == ovflact \in {"smallest_trim", "smallest_silent_trim"}

Largest(ovflact) == ovflact \in {"largest_trim", "largest_silent_trim"}

Tells(ovflact) == ovflact \in {"smallest_trim", "largest_trim"}

do_btree_real_maxcount(maxcount) ==
  CASE maxcount < 0 -> 0 - 1
    [] maxcount = 0 -> DefaultSize
    [] OTHER        -> Min({maxcount, MaxSize})

\* The number of elements the collection may have.
Limit(c) == IF c.mcnt > 0 THEN c.mcnt ELSE MaxSize

\* do_btree_item_alloc
do_btree_item_alloc(attr) ==
  [mcnt |-> do_btree_real_maxcount(attr.maxcount), ovflact |-> attr.ovflact,
   readable |-> attr.readable, trimmed |-> FALSE, bktype |-> "unknown",
   maxrange |-> NoRange, keys |-> {}]

\* The bkey is of the other type than those of the collection.
BadBkey(c, bkey) == c.bktype # "unknown" /\ c.bktype # Type(bkey)

-----------------------------------------------------------------------------
(***************************************************************************)
(* Overflow.                                                               *)
(***************************************************************************)

\* The new bkey would stretch the bkeys beyond the maxbkeyrange.
OutOfRange(c, bkey) ==
  /\ c.maxrange # NoRange
  /\ \/ bkey < Min(c.keys) /\ Max(c.keys) - bkey > c.maxrange
     \/ bkey > Max(c.keys) /\ bkey - Min(c.keys) > c.maxrange

\* The overflow action makes room on the other side of the new bkey.
TrimsOtherSide(c, bkey) ==
  IF bkey < Min(c.keys) THEN Largest(c.ovflact) ELSE Smallest(c.ovflact)

\* do_btree_overflow_check: the outcome and the kind of overflow.  "hidden":
\* the bkey is refused because it would be trimmed at once.
do_btree_overflow_check(c, bkey) ==
  LET full == Cardinality(c.keys) >= Limit(c)
      hidden == \/ Smallest(c.ovflact) /\ bkey < Min(c.keys)
                \/ Largest(c.ovflact) /\ bkey > Max(c.keys)
  IN  CASE OutOfRange(c, bkey) /\ TrimsOtherSide(c, bkey) -> "range"
        [] OutOfRange(c, bkey) /\ ~TrimsOtherSide(c, bkey) -> "EBKEYOOR"
        [] ~OutOfRange(c, bkey) /\ ~full -> "none"
        [] ~OutOfRange(c, bkey) /\ full /\ c.ovflact = "error" -> "EOVERFLOW"
        [] ~OutOfRange(c, bkey) /\ full /\ hidden -> "hidden"
        [] OTHER -> "count"

\* do_btree_overflow_trim: the bkeys that go.  The new bkey is in c.
do_btree_overflow_trim(c, bkey, overflow) ==
  IF overflow = "range"
  THEN IF Smallest(c.ovflact)
       THEN {k \in c.keys : k <= bkey - c.maxrange - 1}
       ELSE {k \in c.keys : k >= bkey + c.maxrange + 1}
  ELSE IF Smallest(c.ovflact) THEN {Min(c.keys)} ELSE {Max(c.keys)}

\* The TRIMMED flag afterwards: silent actions leave it alone.
TrimFlag(c, overflow) ==
  IF overflow \in {"count", "hidden", "range"} /\ Tells(c.ovflact)
  THEN overflow # "range" ELSE c.trimmed

\* do_btree_elem_link of a bkey that is not in the collection: the outcome,
\* the collection and the bkeys that were trimmed.
LinkKey(c, bkey) ==
  LET linked == [c EXCEPT !.keys = @ \union {bkey}, !.bktype = Type(bkey)]
      Linked(overflow, gone) ==
        [ret |-> "SUCCESS", overflow |-> overflow, gone |-> gone,
         c |-> [linked EXCEPT !.keys = @ \ gone, !.trimmed = TrimFlag(c, overflow)]]
      Link(overflow) ==
        CASE overflow \in {"EBKEYOOR", "EOVERFLOW"} ->
               [ret |-> overflow, c |-> c, gone |-> {}, overflow |-> overflow]
          [] overflow = "hidden" ->
               [ret |-> "EBKEYOOR", c |-> [c EXCEPT !.trimmed = TrimFlag(c, overflow)],
                gone |-> {}, overflow |-> overflow]
          [] OTHER ->
               Linked(overflow, IF overflow = "none" THEN {}
                                ELSE do_btree_overflow_trim(linked, bkey, overflow))
  IN  Link(IF c.keys = {} THEN "none" ELSE do_btree_overflow_check(c, bkey))

-----------------------------------------------------------------------------
(***************************************************************************)
(* Scans.                                                                  *)
(***************************************************************************)

RangeType(r) ==
  CASE r.from = r.to -> "sin" [] r.from < r.to -> "asc" [] OTHER -> "dsc"

InRange(k, r) == \/ r.from <= k /\ k <= r.to
                 \/ r.to <= k /\ k <= r.from

\* do_btree_find_first: where the scan starts, and whether there is an element
\* of the range and it is the bkey asked for.
do_btree_find_first(c, r) ==
  LET bkeq == r.from \in c.keys
      At(s, posi) ==
        [posi |-> posi, bkeq |-> bkeq,
         found |-> /\ posi \in 1 .. Len(s)
                   /\ IF RangeType(r) = "sin" THEN bkeq ELSE InRange(s[posi], r)]
      Posi(left) == CASE bkeq -> left + 1
                      [] ~bkeq /\ RangeType(r) = "dsc" -> left
                      [] ~bkeq /\ RangeType(r) = "sin" /\ left = 0 -> 0
                      [] OTHER -> left + 1
  IN  At(Sorted(c.keys), Posi(Cardinality({k \in c.keys : k < r.from})))

do_btree_overlapped_with_trimmed_space_Mutant(c, posi, type) ==
  LET last == Cardinality(c.keys) IN
  \/ c.ovflact = "smallest_trim" /\ (posi = 0 \/ (posi = 1 /\ type = "dsc"))
  \/ c.ovflact = "largest_trim" /\ (posi = last + 1 \/ (posi = last /\ type = "asc"))

\* The position is behind the trimmed end, or it is the first element from
\* there and the range starts before it.
do_btree_overlapped_with_trimmed_space(c, posi, type) ==
  LET last == Cardinality(c.keys) IN
  \/ c.ovflact = "smallest_trim" /\ (posi = 0 \/ (posi = 1 /\ type = "asc"))
  \/ c.ovflact = "largest_trim" /\ (posi = last + 1 \/ (posi = last /\ type = "dsc"))

Overlapped(c, posi, r) ==
  c.trimmed /\ do_btree_overlapped_with_trimmed_space(c, posi, RangeType(r))

\* do_btree_scan_next: the next position; it is outside of the range, or
\* outside of the collection, at the end of the scan.
do_btree_scan_next(posi, r) == IF RangeType(r) = "dsc" THEN posi - 1 ELSE posi + 1

\* The scan from a position: the positions of the range's bkeys that match, and
\* the position at which the scan ends.  bkeq: this is the bkey at the end of
\* the range, and the scan does not step on from it; that is not noticed of
\* the bkey the scan starts with.
RECURSIVE Scan(_, _, _, _, _)
Scan(s, posi, bkeq, r, match) ==
  LET here == IF s[posi] \in match THEN <<posi>> ELSE <<>>
      Then(rest) == [hits |-> here \o rest.hits, end |-> rest.end]
      Go(next) == IF next \notin 1 .. Len(s) \/ ~InRange(s[next], r)
                  THEN [hits |-> here, end |-> next]
                  ELSE Then(Scan(s, next, s[next] = r.to, r, match))
  IN  IF bkeq THEN [hits |-> here, end |-> posi] ELSE Go(do_btree_scan_next(posi, r))

\* do_btree_elem_get: the bkeys found, and whether the answer may lack trimmed
\* elements.  A count of 0 stands for all; a scan that has its count stops.
do_btree_elem_get(c, r, match, offset, count) ==
  LET Found(s, first, scan, stops) ==
        LET hits == SubSeq(scan.hits, offset + 1,
                           IF stops THEN offset + count ELSE Len(scan.hits))
        IN  [keys |-> [i \in 1 .. Len(hits) |-> s[hits[i]]],
             trimmed |-> \/ ~first.bkeq /\ Overlapped(c, first.posi, r)
                         \/ /\ ~stops /\ scan.end \notin 1 .. Len(s)
                            /\ Overlapped(c, scan.end, r)]
      Scanned(s, first, scan) ==
        Found(s, first, scan, count > 0 /\ Len(scan.hits) >= offset + count)
      From(s, first) ==
        CASE ~first.found ->
               [keys |-> <<>>, trimmed |-> Overlapped(c, first.posi, r)]
          [] first.found /\ RangeType(r) = "sin" ->
               [keys |-> IF offset = 0 /\ r.from \in match THEN <<r.from>> ELSE <<>>,
                trimmed |-> FALSE]
          [] OTHER -> Scanned(s, first, Scan(s, first.posi, FALSE, r, match))
  IN  From(Sorted(c.keys), do_btree_find_first(c, r))

=============================================================================
