---------------------------- MODULE MCStructures -----------------------------
(***************************************************************************)
(* The two index structures of the default engine: the hash table of all   *)
(* items and the nodes of a b+tree.  A behaviour is in one of three parts, *)
(* the others keep their initial state.                                    *)
(*                                                                         *)
(* Assoc is in two of them: two scans and one expansion, and a scan or a   *)
(* scan command and two expansions.                                        *)
(* Two buckets; the hash of a key is its bucket plus twice its table bits: *)
(* k1, k2 and k3 share a bucket, k2 leaves the chain at the first          *)
(* expansion and k3 only at the second.                                    *)
(***************************************************************************)
EXTENDS Assoc

CONSTANTS
  k1, k2, k3, s2, c1,
  ItemCount, MaxCount    \* of BTree

ASSUME TreeAssumption == ItemCount \in 4 .. 32 /\ MaxCount \in Nat \ {0}

VARIABLES
  part,
  tree                   \* of BTree

mcvars == <<vars, part, tree>>

MCHash == [k \in {k1, k2, k3} |->
             CASE k = k1 -> 0
               [] k = k2 -> 2
               [] k = k3 -> 4]

OneExpansion == INSTANCE Assoc WITH MaxRootPower <- 1

T == INSTANCE BTree

MCInit == Init /\ T!BTreeInit /\ part \in {"scans", "cursor", "tree"}

\* k3 and the scan command belong to the second part only, s2 to the first;
\* in the second, one of the scan and the scan command is under way.
\* The second of two scans to be opened is s2.
InPart ==
    \/ /\ part = "scans"
       /\ k3 \notin Linked /\ ~cursor[c1].on
    \/ /\ part = "cursor"
       /\ ~scan[s2].initialized
       /\ ~(cursor[c1].on /\ \E s \in Scans : scan[s].initialized)

MCNext ==
    /\ UNCHANGED part
    /\ \/ /\ \/ part = "scans" /\ OneExpansion!Next
             \/ part = "cursor" /\ Next
          /\ UNCHANGED tree
          /\ InPart'
          /\ scan'[s2].initialized => (\E s \in Scans : scan[s].initialized)
       \/ part = "tree" /\ T!BTreeNext /\ UNCHANGED vars

MCSpec == MCInit /\ [][MCNext]_mcvars /\ Fairness

\* See BTree: do_btree_consistency_check() holds, and more.
TreeConsistent == part = "tree" => T!TreeConsistent

\* See BTree: inserting, deleting, reading, counting and positions do to the
\* nodes what they do to a sorted sequence of bkeys (do_btree_elem_*()).
TreeExact == part = "tree" => T!TreeExact

=============================================================================
