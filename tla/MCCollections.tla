--------------------------- MODULE MCCollections ---------------------------
(***************************************************************************)
(* The collections of the default engine: b+trees seen by their clients    *)
(* (BTreeColl), sort-merge get over several b+trees (BTreeSmget), and the  *)
(* hash trees of sets and maps (SetColl, MapColl).  A behaviour is in one  *)
(* of the parts; the others keep their initial state.                      *)
(***************************************************************************)
EXTENDS BTreeColl

CONSTANTS
  Keys, Written,                                               \* of BTreeSmget
  SetElems, SetHash, SetSize, SetChain, SetDefault, GetCounts, DeleteCounts,
  SetMaxCounts, MaxSetSize, SetAttrs, MaxRand,                 \* of SetColl
  Fields, MapAddrs, MapHash, MapSize, MapChain, MapDefault, MapMaxCounts,
  MaxMapSize, MapAttrs, FieldLists                             \* of MapColl

VARIABLES
  part,
  colls,                                     \* of BTreeSmget
  sphase, sinfo, sdead, smem, sheld,         \* of SetColl
  mphase, minfo, mdead, mmem, mheld, torn    \* of MapColl

-----------------------------------------------------------------------------
(***************************************************************************)
(* The instances.                                                          *)
(***************************************************************************)

MCBkeyRanges == {NoRange, 1}

MCFilters == {Bkeys, {2}}

MCAttrs ==
  [maxcount : {5}, ovflact : {"smallest_trim", "largest_trim"}, readable : {TRUE}]
    \union [maxcount : {0}, ovflact : {"error"}, readable : {FALSE}]

\* Sort-merge get: the collections at keys 1 and 2 are written; the one at key
\* 3 has trimmed its largest bkey and key 4 is of another type.
SmgetBkeys == 1 .. 3

SmgetAttrs ==
  [maxcount : {5}, ovflact : {"smallest_trim", "largest_trim"}, readable : {TRUE}]

Trimmed ==
  [do_btree_item_alloc([maxcount |-> 5, ovflact |-> "largest_trim", readable |-> TRUE])
     EXCEPT !.keys = {1, 2}, !.trimmed = TRUE, !.bktype = "uint64"]

Unreadable ==
  do_btree_item_alloc([maxcount |-> 5, ovflact |-> "largest_trim", readable |-> FALSE])

SmgetStarts ==
  {[k \in Keys |-> CASE k = 1 -> first
                     [] k = 3 -> Trimmed
                     [] k = 4 -> [type |-> "other"]
                     [] OTHER -> [type |-> "none"]] :
   first \in {[type |-> "none"], Unreadable}}

BkeyRange(from, to) == [from |-> from, to |-> to]

RequestsFor(lists, uniques) ==
  {[list |-> l, range |-> r, match |-> m, offset |-> w[1], count |-> w[2], unique |-> u] :
   l \in lists, r \in {BkeyRange(1, 3), BkeyRange(3, 1), BkeyRange(2, 2)},
   m \in {SmgetBkeys, {1, 3}}, w \in {<<1, 1>>, <<0, 9>>}, u \in uniques}

SmgetRequests ==
  RequestsFor({<<2, 1>>, <<1, 2, 3>>}, BOOLEAN) \union
  {q \in RequestsFor({<<1, 2, 1>>, <<1, 4>>}, {FALSE}) :
     q.range = BkeyRange(1, 3) /\ q.match = SmgetBkeys}

SmgetOldRequests ==
  {q \in RequestsFor({<<1, 2, 3>>, <<2, 1>>}, {FALSE}) : q.match = SmgetBkeys \/ q.count = 9}

G == INSTANCE BTreeSmget WITH
       Bkeys <- SmgetBkeys, Attrs <- SmgetAttrs, Starts <- SmgetStarts,
       Requests <- SmgetRequests, OldRequests <- SmgetOldRequests

HashAttrs == {[maxcount |-> 0 - 1, readable |-> TRUE], [maxcount |-> 2, readable |-> FALSE]}

\* Chains that split twice before the values part.
MCSetHash == [v \in SetElems |-> <<0, 0, v % 2>>]

S == INSTANCE SetColl

MCMapHash == [f \in Fields |-> <<0, f % 2, 0>>]

\* Two addresses for one of the fields.
MCMapAddrs == [f \in Fields |-> IF f = 1 THEN {1, 2} ELSE {1}]

MCFieldLists == {<<>>, <<3, 1>>}

M == INSTANCE MapColl

-----------------------------------------------------------------------------
svars == <<sphase, sinfo, sdead, smem, sheld>>
mvars == <<mphase, minfo, mdead, mmem, mheld, torn>>

MCInit ==
  /\ CollInit /\ G!SmgetInit /\ S!SetInit /\ M!MapInit
  /\ part \in {"coll", "smget", "set", "map"}
  /\ part # "smget" => colls[1] = G!Absent

MCNext ==
  /\ UNCHANGED part
  /\ \/ part = "coll" /\ CollNext /\ UNCHANGED <<colls, svars, mvars>>
     \/ part = "smget" /\ G!SmgetNext /\ UNCHANGED <<vars, svars, mvars>>
     \/ part = "set" /\ S!SetNext /\ UNCHANGED <<vars, colls, mvars>>
     \/ part = "map" /\ M!MapNext /\ UNCHANGED <<vars, colls, svars>>

MCSpec == MCInit /\ [][MCNext]_<<part, vars, colls, svars, mvars>>

\* See BTreeSmget: btree_elem_smget() answers with the elements of the window
\* in order, and tells what is missed and trimmed.
SmgetExact == part = "smget" => G!SmgetExact

\* See SetColl and MapColl: the trees of hash tables hold what they should
\* where it is looked for, their counts and the memory agree, drawing random
\* elements ends, and no element of a map is changed while a client holds it.
HashTreesExact ==
  /\ part = "set" => S!SetExact /\ S!DrawEnds
  /\ part = "map" => M!MapExact

=============================================================================
