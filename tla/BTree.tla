------------------------------- MODULE BTree -------------------------------
(***************************************************************************)
(* The b+tree of a b+tree collection (coll_btree.c): nodes with sibling    *)
(* links on every level, element counts in the upper nodes, splitting and  *)
(* balancing on insertion, merging after single and range deletion.        *)
(*                                                                         *)
(* Every operation runs under the cache lock, so one operation is one      *)
(* step.  A tree is the record of its root, its nodes by address, its      *)
(* element count and the space charged for it.  A node has a depth (0: a   *)
(* leaf), its used items (bkeys in a leaf, addresses above), an element    *)
(* count per item in the upper nodes, and the links to its neighbours on   *)
(* the same level; used_count is the number of items.  Indexes start at 0, *)
(* as in the code.  The operations compare bkeys and do nothing else with  *)
(* them, and never look at an address: between two steps the bkeys are     *)
(* renamed to 2, 4, 6, ... and the addresses to 1, 2, 3, ..., so that a    *)
(* state is the shape of a tree.                                           *)
(***************************************************************************)
EXTENDS Integers, Sequences, SequencesExt, TLC

CONSTANTS
  ItemCount,   \* BTREE_ITEM_COUNT
  MaxCount     \* the maxcount of the collection

VARIABLE tree

Nil == 0

Half == ItemCount \div 2

Posi(node, indx) == [node |-> node, indx |-> indx, bkeq |-> FALSE]

EmptyTree ==
  [root |-> Nil, node |-> <<>>, ccnt |-> 0,
   space |-> [leaf |-> 0, indx |-> 0, elem |-> 0]]

Used(t, n) == Len(t.node[n].item)

ItemAt(t, p) == t.node[p.node].item[p.indx + 1]

EcntAt(t, p) == t.node[p.node].ecnt[p.indx + 1]

Depth(t) == t.node[t.root].depth

\* The collection's space: the nodes and elements it is charged for.
SpaceOf(t, n) == IF t.node[n].depth > 0 THEN "indx" ELSE "leaf"

-----------------------------------------------------------------------------
(***************************************************************************)
(* Positions and paths.  A path has a position per depth.                  *)
(***************************************************************************)

\* After the last element of the level: no node and index 0.
do_btree_incr_posi(t, p) ==
  IF p.indx < Used(t, p.node) - 1
  THEN [p EXCEPT !.indx = @ + 1]
  ELSE [p EXCEPT !.node = t.node[p.node].next, !.indx = 0]

\* Before the first one: no node and index BTREE_ITEM_COUNT.
do_btree_decr_posi(t, p) ==
  LET prev == t.node[p.node].prev IN
  CASE p.indx > 0               -> [p EXCEPT !.indx = @ - 1]
    [] p.indx = 0 /\ prev # Nil -> [p EXCEPT !.node = prev,
                                             !.indx = Used(t, prev) - 1]
    [] OTHER                    -> [p EXCEPT !.node = Nil, !.indx = ItemCount]

StepPosi(t, p, forward) ==
  IF forward THEN do_btree_incr_posi(t, p) ELSE do_btree_decr_posi(t, p)

\* do_btree_incr_path and do_btree_decr_path: the path moves up as long as the
\* position leaves its node.
RECURSIVE StepPath(_, _, _, _)
StepPath(t, path, d, forward) ==
  LET Up(p, moved) == IF p.node = path[d].node THEN moved
                      ELSE StepPath(t, moved, d + 1, forward)
      To(p) == Up(p, [path EXCEPT ![d] = p])
  IN  To(StepPosi(t, path[d], forward))

RECURSIVE do_btree_get_first_elem(_, _)
do_btree_get_first_elem(t, n) ==
  IF t.node[n].depth = 0 THEN Head(t.node[n].item)
                         ELSE do_btree_get_first_elem(t, Head(t.node[n].item))

RECURSIVE do_btree_get_last_elem(_, _)
do_btree_get_last_elem(t, n) ==
  IF t.node[n].depth = 0 THEN Last(t.node[n].item)
                         ELSE do_btree_get_last_elem(t, Last(t.node[n].item))

\* The path from n to the first, or the last, element below it.
RECURSIVE EdgePath(_, _, _)
EdgePath(t, n, first) ==
  LET p == Posi(n, IF first THEN 0 ELSE Used(t, n) - 1)
      d == t.node[n].depth
  IN  IF d = 0 THEN 0 :> p ELSE d :> p @@ EdgePath(t, ItemAt(t, p), first)

\* The number of items that come before the bkey: in an upper node the
\* separator of an item is the first element below it, and item 0 has none.
Before(t, n, bkey) ==
  LET node == t.node[n]
      First(i) == IF node.depth = 0 THEN node.item[i]
                  ELSE do_btree_get_first_elem(t, node.item[i])
  IN  Cardinality({i \in 1 .. Len(node.item) : First(i) < bkey})

\* do_btree_find_leaf: the path to the leaf where the bkey is, or would be.
\* The binary search ends at the last separator that is not behind the bkey.
RECURSIVE do_btree_find_leaf(_, _, _)
do_btree_find_leaf(t, n, bkey) ==
  LET node == t.node[n]
      seps == {i \in 1 .. Len(node.item) - 1 :
                 do_btree_get_first_elem(t, node.item[i + 1]) <= bkey}
      p == Posi(n, Cardinality(seps))
  IN  IF node.depth = 0 THEN 0 :> Posi(n, 0)
      ELSE node.depth :> p @@ do_btree_find_leaf(t, ItemAt(t, p), bkey)

\* The bkey is at index i of leaf n.
IsAt(t, n, i, bkey) == i < Used(t, n) /\ t.node[n].item[i + 1] = bkey

\* The place of the bkey in the leaf at the end of the path.
InLeaf(t, path, left, bkey) ==
  [path |-> [path EXCEPT ![0].indx = left],
   exists |-> IsAt(t, path[0].node, left, bkey)]

do_btree_find_insposi(t, bkey) ==
  LET Search(path) == InLeaf(t, path, Before(t, path[0].node, bkey), bkey)
  IN  Search(do_btree_find_leaf(t, t.root, bkey))

\* do_btree_bkey_range_type
RangeType(r) ==
  CASE r.from = r.to -> "sin" [] r.from < r.to -> "asc" [] OTHER -> "dsc"

\* The element at the position, unless it is behind the end of the range.
InRange(t, p, r) ==
  IF p.node = Nil THEN Nil
  ELSE LET e == ItemAt(t, p) IN
       IF (RangeType(r) = "asc" /\ e > r.to) \/ (RangeType(r) = "dsc" /\ e < r.to)
       THEN Nil ELSE e

\* The path moved to the neighbour of its leaf: the upper path follows only
\* when there is such a leaf.
ToNeighbour(t, path, forward) ==
  LET Follow(p) == IF p.node = Nil THEN [path EXCEPT ![0] = p]
                   ELSE StepPath(t, [path EXCEPT ![0] = p], 1, forward)
  IN  Follow(StepPosi(t, [path[0] EXCEPT !.indx = IF forward THEN ItemCount ELSE 0],
                      forward))

\* Where a scan starts when the bkey it starts from is not there.
StartPath(t, path, type) ==
  LET left == path[0].indx
      used == Used(t, path[0].node)
  IN  CASE \/ type = "sin" /\ left > 0 /\ left < used
           \/ type = "asc" /\ left < used            -> path
        [] type = "dsc" /\ left > 0                  -> [path EXCEPT ![0].indx = @ - 1]
        [] OTHER -> ToNeighbour(t, path, type # "dsc" /\ left = used)

\* The first element of a range: its path, and Nil when there is none.
do_btree_find_first(t, r) ==
  LET type == RangeType(r)
      At(path) == [path |-> path,
                   elem |-> IF type = "sin" THEN Nil ELSE InRange(t, path[0], r)]
      From(found) == IF found.exists
                     THEN [path |-> [found.path EXCEPT ![0].bkeq = TRUE], elem |-> r.from]
                     ELSE At(StartPath(t, found.path, type))
  IN  From(do_btree_find_insposi(t, r.from))

\* do_btree_find_next and do_btree_find_prev
FindNext(t, p, r) ==
  LET At(q, e) == [posi |-> [q EXCEPT !.bkeq = e # Nil /\ e = r.to], elem |-> e]
      To(q) == At(q, InRange(t, q, r))
  IN  To(StepPosi(t, p, RangeType(r) = "asc"))

-----------------------------------------------------------------------------
(***************************************************************************)
(* Balancing and splitting.                                                *)
(***************************************************************************)

Part(s, from, to) == IF s = <<>> THEN <<>> ELSE SubSeq(s, from, to)

\* Moves the last items of c to the front of n, or the first ones to the end
\* of n, with their element counts.
do_btree_node_item_move(t, c, n, forward, count) ==
  LET Give(s) == IF forward THEN Part(s, Len(s) - count + 1, Len(s))
                            ELSE Part(s, 1, count)
      Keep(s) == IF forward THEN Part(s, 1, Len(s) - count)
                            ELSE Part(s, count + 1, Len(s))
      Take(s, given) == IF forward THEN given \o s ELSE s \o given
      cn == t.node[c]
      nn == t.node[n]
  IN  [t EXCEPT !.node = [@ EXCEPT
        ![c].item = Keep(cn.item), ![c].ecnt = Keep(cn.ecnt),
        ![n].item = Take(nn.item, Give(cn.item)),
        ![n].ecnt = Take(nn.ecnt, Give(cn.ecnt))]]

AddEcnt(t, p, count) == [t EXCEPT !.node[p.node].ecnt[p.indx + 1] = @ + count]

\* The element count moves to the neighbouring item, on every level where that
\* is in another node.
RECURSIVE do_btree_ecnt_move_split(_, _, _, _, _)
do_btree_ecnt_move_split(t, path, d, forward, count) ==
  LET p == path[d]
      Up(q, moved) == IF q.node = p.node THEN moved
                      ELSE do_btree_ecnt_move_split(moved, path, d + 1, forward, count)
      To(q) == Up(q, AddEcnt(AddEcnt(t, p, 0 - count), q, count))
  IN  To(StepPosi(t, p, forward))

\* The next item that has elements.  Going back into a node whose items have
\* all been removed sets the 16-bit index to 65535, and the loop counts it
\* down before it leaves the node: that comes to passing the node over.
RECURSIVE NextCounted(_, _, _)
NextCounted(t, p, forward) ==
  LET Skip(q) ==
        CASE Used(t, q.node) = 0 -> NextCounted(t, [q EXCEPT !.indx = 0], forward)
          [] Used(t, q.node) > 0 /\ EcntAt(t, q) = 0 -> NextCounted(t, q, forward)
          [] OTHER -> q
  IN  Skip(StepPosi(t, p, forward))

RECURSIVE do_btree_ecnt_move_merge(_, _, _, _, _)
do_btree_ecnt_move_merge(t, path, d, forward, count) ==
  LET p == path[d]
      Up(q, moved) == IF q.node = p.node THEN moved
                      ELSE do_btree_ecnt_move_merge(moved, path, d + 1, forward, count)
      To(taken, q) == Up(q, AddEcnt(taken, q, count))
      From(taken) == To(taken, NextCounted(taken, p, forward))
  IN  From(AddEcnt(t, p, 0 - count))

\* The direction of balancing: to the emptier neighbour, or to the only one.
GoNext(t, n) ==
  LET next == t.node[n].next
      prev == t.node[n].prev
  IN  next # Nil /\ (prev # Nil => Used(t, next) < Used(t, prev))

\* How many items move: half the difference, or, into a new node, a tenth when
\* it is at the end of its level and half of them when it is not.
MoveCount(t, n, forward) ==
  LET to  == IF forward THEN t.node[n].next ELSE t.node[n].prev
      far == IF forward THEN t.node[to].next ELSE t.node[to].prev
      count == CASE Used(t, to) > 0 -> (Used(t, n) - Used(t, to)) \div 2
                 [] Used(t, to) = 0 /\ far = Nil -> Used(t, n) \div 10
                 [] OTHER           -> Used(t, n) \div 2
  IN  IF count = 0 THEN 1 ELSE count

MovedElems_Mutant(node, forward, count) == count

\* The number of elements below the items that move.
MovedElems(node, forward, count) ==
  IF node.depth = 0 THEN count
  ELSE LET s == node.ecnt IN
       FoldSeq(LAMBDA x, y : x + y, 0,
               IF forward THEN SubSeq(s, Len(s) - count + 1, Len(s))
                          ELSE SubSeq(s, 1, count))

\* The path after "count" items of n, at depth d, have moved to its neighbour.
BalancedPath(t, path, n, d, to, forward, count) ==
  LET indx == path[d].indx
      left == IF forward THEN indx >= Used(t, n) ELSE indx < count
      there == IF forward THEN indx - Used(t, n) ELSE indx + Used(t, to) - count
  IN  CASE left -> StepPath(t, [path EXCEPT ![d] = Posi(to, there)], d + 1, forward)
        [] ~left /\ ~forward -> [path EXCEPT ![d].indx = @ - count]
        [] OTHER -> path

do_btree_node_sbalance(s, n, d) ==
  LET node == s.t.node[n]
      Counted(t, to, forward, count) ==
        [t |-> t, path |-> BalancedPath(t, s.path, n, d, to, forward, count)]
      Moved(to, forward, count) ==
        Counted(do_btree_ecnt_move_split(
                  do_btree_node_item_move(s.t, n, to, forward, count),
                  s.path, d + 1, forward, MovedElems(node, forward, count)),
                to, forward, count)
      Go(forward) == Moved(IF forward THEN node.next ELSE node.prev, forward,
                           MoveCount(s.t, n, forward))
  IN  Go(GoNext(s.t, n))

NewNode(d) ==
  [depth |-> d, item |-> <<>>, ecnt |-> <<>>, prev |-> Nil, next |-> Nil]

NewAddr(t) == Max(DOMAIN t.node \union {0}) + 1

\* A new root above the old one; its address is NewAddr(t).
LinkRoot(t, d) ==
  LET n == NewAddr(t)
      node == IF t.root = Nil THEN NewNode(d)
              ELSE [NewNode(d) EXCEPT !.item = <<t.root>>, !.ecnt = <<t.ccnt>>]
      linked == [t EXCEPT !.node = n :> node @@ @, !.root = n]
  IN  [linked EXCEPT !.space[SpaceOf(linked, n)] = @ + 1]

\* A new node at the position p of its parent.
do_btree_node_link(t, d, p) ==
  LET n == NewAddr(t)
      par == t.node[p.node]
      prev == CASE p.indx > 0 -> par.item[p.indx]
                [] p.indx = 0 /\ par.prev # Nil -> Last(t.node[par.prev].item)
                [] OTHER -> Nil
      next == CASE p.indx < Len(par.item) -> par.item[p.indx + 1]
                [] p.indx = Len(par.item) /\ par.next # Nil ->
                     Head(t.node[par.next].item)
                [] OTHER -> Nil
      node == [NewNode(d) EXCEPT !.prev = prev, !.next = next]
      Beside(m) == [t.node[m] EXCEPT
        !.next = IF m = prev THEN n ELSE @,
        !.prev = IF m = next THEN n ELSE @,
        !.item = IF m = p.node THEN InsertAt(@, p.indx + 1, n) ELSE @,
        !.ecnt = IF m = p.node THEN InsertAt(@, p.indx + 1, 0) ELSE @]
  IN  [t EXCEPT !.node = n :> node @@ [m \in DOMAIN @ |-> Beside(m)],
                !.space[IF d > 0 THEN "indx" ELSE "leaf"] = @ + 1]

\* A neighbour on the same level is less than half full.
HasRoom(t, n) ==
  LET next == t.node[n].next
      prev == t.node[n].prev
  IN  \/ next # Nil /\ Used(t, next) < Half
      \/ prev # Nil /\ Used(t, prev) < Half

\* The number of levels on which a node is split.
SplitLevels(t, path) ==
  Min({d \in 0 .. Depth(t) + 1 :
         \/ d = Depth(t) + 1
         \/ d > 0 /\ Used(t, path[d].node) < ItemCount
         \/ HasRoom(t, path[d].node)})

\* From level d down: link a new node beside the full one and balance the two.
RECURSIVE SplitDown(_, _)
SplitDown(s, d) ==
  IF d < 0 THEN s
  ELSE LET n    == s.path[d].node
           node == s.t.node[n]
           toPrev == node.prev = Nil /\ (node.next = Nil => s.path[d].indx < Half)
           p    == s.path[d + 1]
           both == [t |-> do_btree_node_link(s.t, d, IF toPrev THEN p
                                                     ELSE [p EXCEPT !.indx = @ + 1]),
                    path |-> IF toPrev THEN [s.path EXCEPT ![d + 1].indx = @ + 1]
                                       ELSE s.path]
       IN  SplitDown(do_btree_node_sbalance(both, n, d), d - 1)

\* All nodes are allocated before the tree is touched; without memory for one
\* of them nothing happens.
do_btree_node_split(t, path, memory) ==
  LET s == [ok |-> TRUE, t |-> t, path |-> path]
      Top(levels) ==
        CASE levels > Depth(t) ->
               [t |-> LinkRoot(t, levels), path |-> levels :> Posi(NewAddr(t), 0) @@ path]
          [] levels <= Depth(t) /\ Used(t, path[levels].node) >= ItemCount ->
               do_btree_node_sbalance(s, path[levels].node, levels)
          [] OTHER -> s
      Done(r) == [s EXCEPT !.t = r.t, !.path = r.path]
      Split(levels) == IF levels > 0 /\ ~memory THEN [s EXCEPT !.ok = FALSE]
                       ELSE Done(SplitDown(Top(levels), levels - 1))
  IN  Split(SplitLevels(t, path))

-----------------------------------------------------------------------------
(***************************************************************************)
(* Merging.                                                                *)
(***************************************************************************)

\* The emptier neighbour takes all the items of node n, at depth d.
do_btree_node_mbalance(t, n, path, d) ==
  LET Move(forward) ==
        do_btree_ecnt_move_merge(
          do_btree_node_item_move(t, n, IF forward THEN t.node[n].next ELSE t.node[n].prev,
                                  forward, Used(t, n)),
          path, d + 1, forward, EcntAt(t, path[d + 1]))
  IN  Move(GoNext(t, n))

Uncharge(t, kind, count) == [t EXCEPT !.space[kind] = @ - count]

\* Out of the chain of its level, and freed.
do_btree_node_detach(t, n) ==
  LET prev == t.node[n].prev
      next == t.node[n].next
      back == IF prev = Nil THEN t ELSE [t EXCEPT !.node[prev].next = next]
      both == IF next = Nil THEN back ELSE [back EXCEPT !.node[next].prev = prev]
  IN  [both EXCEPT !.node = [m \in DOMAIN @ \ {n} |-> @[m]]]

UnlinkRoot(t) ==
  [Uncharge(t, SpaceOf(t, t.root), 1) EXCEPT
     !.node = [m \in DOMAIN @ \ {t.root} |-> @[m]], !.root = Nil]

do_btree_node_unlink(t, n, p) ==
  [do_btree_node_detach(Uncharge(t, SpaceOf(t, n), 1), n) EXCEPT
     !.node[p.node].item = RemoveAt(@, p.indx + 1),
     !.node[p.node].ecnt = RemoveAt(@, p.indx + 1)]

\* The items that were removed are NULL until the node is left.
do_btree_node_remove_null_items(t, n) ==
  LET node == t.node[n]
      kept == SelectSeq([i \in 1 .. Len(node.item) |-> i],
                        LAMBDA i : node.item[i] # Nil)
      Keep(s) == IF s = <<>> THEN s
                 ELSE SubSeq([i \in 1 .. Len(kept) |-> s[kept[i]]], 1, Len(kept))
  IN  [t EXCEPT !.node[n].item = Keep(@), !.node[n].ecnt = Keep(@)]

\* Less than half full, and so is a neighbour.
Mergeable(t, n) == Used(t, n) < Half /\ HasRoom(t, n)

\* A root with one item gives way to it.
RECURSIVE LowerRoot(_)
LowerRoot(t) ==
  IF Used(t, t.root) = 1 /\ Depth(t) > 0
  THEN LowerRoot([UnlinkRoot(t) EXCEPT !.root = Head(t.node[t.root].item)])
  ELSE t

\* One node of depth d.  par: how many parents may have to be merged then.
MergeOne(t, path, d) ==
  LET n == path[d].node IN
  CASE n = t.root /\ Used(t, n) = 0 -> [t |-> UnlinkRoot(t), par |-> 0]
    [] n = t.root /\ Used(t, n) > 0 -> [t |-> LowerRoot(t), par |-> 0]
    [] n # t.root /\ Used(t, n) = 0 ->
         [t |-> do_btree_node_unlink(t, n, path[d + 1]), par |-> 1]
    [] n # t.root /\ Used(t, n) > 0 /\ Mergeable(t, n) ->
         [t |-> do_btree_node_unlink(do_btree_node_mbalance(t, n, path, d), n,
                                     path[d + 1]), par |-> 1]
    [] OTHER -> [t |-> t, par |-> 0]

\* The item of the parent is NULL when its node is gone.
DropChild(t, n, p) ==
  [do_btree_node_detach(t, n) EXCEPT !.node[p.node].item[p.indx + 1] = Nil]

\* The emptied ones among the next "count" nodes are detached first.
RECURSIVE DetachEmpty(_, _, _, _)
DetachEmpty(t, p, forward, count) ==
  LET n == ItemAt(t, p)
      Walk(u) == IF count = 1 THEN u
                 ELSE DetachEmpty(u, StepPosi(u, p, forward), forward, count - 1)
  IN  Walk(IF Used(t, n) = 0 THEN DropChild(t, n, p) ELSE t)

\* Then each of the others is merged into a neighbour if it is to be.  A
\* parent is cleared of its NULL items when the walk leaves it.
RECURSIVE MergeWalk(_, _, _, _)
MergeWalk(m, forward, d, count) ==
  LET p == m.upth[d + 1]
      n == ItemAt(m.t, p)
      Next(t, upth, cur, left) ==
        [t |-> IF left /\ cur > 0 THEN do_btree_node_remove_null_items(t, p.node) ELSE t,
         upth |-> upth,
         cur |-> IF left THEN 0 ELSE cur,
         tot |-> IF left THEN m.tot + cur ELSE m.tot,
         par |-> IF left /\ (count > 1 \/ cur > 0) THEN m.par + 1 ELSE m.par]
      Counted(t, upth) == Next(t, upth, IF ItemAt(t, p) = Nil THEN m.cur + 1 ELSE m.cur,
                               count = 1 \/ upth[d + 1].node # p.node)
      Merged(t) == Counted(t, IF count = 1 THEN m.upth ELSE StepPath(t, m.upth, d + 1, forward))
      Walk(next) == IF count = 1 THEN next ELSE MergeWalk(next, forward, d, count - 1)
  IN  Walk(Merged(IF n # Nil /\ Mergeable(m.t, n)
                  THEN DropChild(do_btree_node_mbalance(m.t, n, m.upth, d), n, p)
                  ELSE m.t))

MergeMany(t, path, forward, d, count) ==
  LET Done(m) == [t |-> Uncharge(m.t, IF d > 0 THEN "indx" ELSE "leaf", m.tot),
                  par |-> m.par]
  IN  Done(MergeWalk([t |-> DetachEmpty(t, path[d + 1], forward, count),
                      upth |-> path, cur |-> 0, tot |-> 0, par |-> 0],
                     forward, d, count))

\* do_btree_node_merge, from depth d up.
RECURSIVE do_btree_node_merge(_, _, _, _, _)
do_btree_node_merge(t, path, forward, d, count) ==
  LET Up(r) == do_btree_node_merge(r.t, path, forward, d + 1, r.par)
  IN  IF count = 0 THEN t
      ELSE Up(IF count = 1 THEN MergeOne(t, path, d)
                           ELSE MergeMany(t, path, forward, d, count))

-----------------------------------------------------------------------------
(***************************************************************************)
(* The operations.                                                         *)
(***************************************************************************)

\* The element counts along the path.
CountPath(t, path, count) ==
  FoldSet(LAMBDA d, u : AddEcnt(u, path[d], count), t, 1 .. Depth(t))

do_btree_elem_unlink(t, path) ==
  LET n == path[0].node
      Merged(u) == IF Used(u, n) < Half THEN do_btree_node_merge(u, path, TRUE, 0, 1) ELSE u
  IN  Merged(CountPath([Uncharge(t, "elem", 1) EXCEPT
                          !.node[n].item = RemoveAt(@, path[0].indx + 1),
                          !.ccnt = @ - 1], path, 0 - 1))

Refused_Mutant(t, bkey, ovflact) ==
  /\ t.ccnt >= MaxCount
  /\ \/ ovflact = "error"
     \/ ovflact = "smallest" /\ bkey > do_btree_get_last_elem(t, t.root)
     \/ ovflact = "largest" /\ bkey < do_btree_get_first_elem(t, t.root)

\* do_btree_overflow_check: a full collection refuses the element, or makes
\* room for it unless it would itself be the one trimmed.
Refused(t, bkey, ovflact) ==
  /\ t.ccnt >= MaxCount
  /\ \/ ovflact = "error"
     \/ ovflact = "smallest" /\ bkey < do_btree_get_first_elem(t, t.root)
     \/ ovflact = "largest" /\ bkey > do_btree_get_last_elem(t, t.root)

\* The element at its place, and the one trimmed for it gone.
PutElem(t, path, bkey, ovflact) ==
  LET p == path[0]
      Trim(in) == IF t.ccnt < MaxCount THEN in
                  ELSE do_btree_elem_unlink(in, EdgePath(in, in.root, ovflact = "smallest"))
  IN  Trim(CountPath([t EXCEPT !.node[p.node].item = InsertAt(@, p.indx + 1, bkey),
                               !.ccnt = @ + 1, !.space.elem = @ + 1],
                     path, 1))

\* do_btree_elem_link: a full leaf is split ahead of the overflow check, so a
\* refused element can leave a split tree behind.
do_btree_elem_link(t, bkey, ovflact, memory) ==
  LET Put(s) ==
        CASE ~s.ok -> [ret |-> "nomem", t |-> t]
          [] s.ok /\ Refused(s.t, bkey, ovflact) -> [ret |-> "refused", t |-> s.t]
          [] OTHER -> [ret |-> "ok", t |-> PutElem(s.t, s.path, bkey, ovflact)]
      At(at) ==
        IF at.exists THEN [ret |-> "exists", t |-> t]
        ELSE Put(IF Used(t, at.path[0].node) >= ItemCount
                 THEN do_btree_node_split(t, at.path, memory)
                 ELSE [ok |-> TRUE, t |-> t, path |-> at.path])
  IN  At(do_btree_find_insposi(t, bkey))

\* The root of an empty collection is created for the insertion, and goes with
\* a failed one.
do_btree_elem_insert(t, bkey, ovflact, memory) ==
  IF t.root = Nil /\ ~memory THEN [ret |-> "nomem", t |-> t]
  ELSE do_btree_elem_link(IF t.root = Nil THEN LinkRoot(t, 0) ELSE t, bkey, ovflact, memory)

\* The scan of do_btree_elem_delete, and of do_btree_elem_get that deletes: the
\* elements that match are set to NULL; a leaf is cleared of them, and the
\* counts above it are decremented, when the scan leaves it.
LeaveLeaf(w) ==
  IF w.cur = 0 THEN w.t
  ELSE CountPath(do_btree_node_remove_null_items(w.t, w.upth[0].node), w.upth,
                 0 - w.cur)

\* The element e at position p, when it is one to delete.
MarkElem(w, p, e, hit, skip) ==
  [w EXCEPT !.skip = IF skip THEN @ + 1 ELSE @,
            !.got = IF hit THEN Append(@, e) ELSE @,
            !.cur = IF hit THEN @ + 1 ELSE @,
            !.t = IF hit THEN [@ EXCEPT !.node[p.node].item[p.indx + 1] = Nil] ELSE @]

\* To the next position, and maybe the next leaf.
NextElem(w, p, q, forward) ==
  LET Next(t) == [w EXCEPT !.t = t, !.cur = 0, !.nodes = @ + 1,
                           !.upth = StepPath(t, [@ EXCEPT ![0] = q], 1, forward)]
  IN  IF q.node = p.node THEN [w EXCEPT !.upth[0] = q] ELSE Next(LeaveLeaf(w))

RECURSIVE DeleteScan(_, _, _, _, _)
DeleteScan(w, r, match, offset, count) ==
  LET p == w.upth[0]
      e == ItemAt(w.t, p)
      hit == e \in match /\ w.skip >= offset
      Go(w1, next) ==
        IF (hit /\ count > 0 /\ Len(w1.got) >= count) \/ p.bkeq \/ next.elem = Nil
        THEN [w1 EXCEPT !.t = LeaveLeaf(w1)]
        ELSE DeleteScan(NextElem(w1, p, next.posi, RangeType(r) = "asc"),
                        r, match, offset, count)
      Marked(w1) == Go(w1, FindNext(w1.t, p, r))
  IN  Marked(MarkElem(w, p, e, hit, e \in match /\ ~hit))

\* The deleted elements are counted, and the leaves the scan was in merged.
DeleteRange(t, path, r, match, offset, count) ==
  LET Merged(w, n) ==
        [got |-> w.got,
         t |-> IF n = 0 THEN w.t
               ELSE do_btree_node_merge([Uncharge(w.t, "elem", n) EXCEPT !.ccnt = @ - n],
                                        path, RangeType(r) = "asc", 0, w.nodes)]
      Scanned(w) == Merged(w, Len(w.got))
  IN  Scanned(DeleteScan([t |-> t, upth |-> path, cur |-> 0, nodes |-> 1, skip |-> 0,
                          got |-> <<>>], r, match, offset, count))

do_btree_elem_delete(t, r, match, offset, count) ==
  LET none == [got |-> <<>>, t |-> t]
      From(first) ==
        CASE first.elem = Nil -> none
          [] first.elem # Nil /\ RangeType(r) = "sin" ->
               IF offset = 0 /\ r.from \in match
               THEN [got |-> <<r.from>>, t |-> do_btree_elem_unlink(t, first.path)]
               ELSE none
          [] OTHER -> DeleteRange(t, [first.path EXCEPT ![0].bkeq = FALSE],
                                  r, match, offset, count)
  IN  IF t.root = Nil THEN none ELSE From(do_btree_find_first(t, r))

-----------------------------------------------------------------------------
(***************************************************************************)
(* Reading.                                                                *)
(***************************************************************************)

\* The elements that match from position p to the end of the range.
RECURSIVE ReadScan(_, _, _, _)
ReadScan(t, p, r, match) ==
  LET e == ItemAt(t, p)
      Rest(next) == IF p.bkeq \/ next.elem = Nil THEN <<>>
                    ELSE ReadScan(t, next.posi, r, match)
  IN  (IF e \in match THEN <<e>> ELSE <<>>) \o Rest(FindNext(t, p, r))

\* do_btree_elem_get without delete; a count of 0 stands for all.
do_btree_elem_get(t, r, match, offset, count) ==
  LET All(first) ==
        CASE first.elem = Nil -> <<>>
          [] first.elem # Nil /\ RangeType(r) = "sin" ->
               IF first.elem \in match THEN <<first.elem>> ELSE <<>>
          [] OTHER -> ReadScan(t, [first.path[0] EXCEPT !.bkeq = FALSE], r, match)
      Cut(all) == SubSeq(all, offset + 1,
                         IF count = 0 THEN Len(all) ELSE Min({Len(all), offset + count}))
  IN  Cut(All(do_btree_find_first(t, r)))

\* Without a filter, a range that has all the elements is not scanned.
do_btree_elem_count(t, r, match, filter) ==
  LET lo == Min({r.from, r.to})
      hi == Max({r.from, r.to})
  IN  CASE t.root = Nil -> 0
        [] /\ t.root # Nil /\ RangeType(r) # "sin" /\ ~filter
           /\ lo <= do_btree_get_first_elem(t, t.root)
           /\ hi >= do_btree_get_last_elem(t, t.root) -> t.ccnt
        [] OTHER -> Len(do_btree_elem_get(t, r, match, 0, 0))

do_btree_posi_from_path(t, path, order) ==
  LET Sum(d) == FoldSeq(LAMBDA x, y : x + y, 0,
                        SubSeq(t.node[path[d].node].ecnt, 1, path[d].indx))
      bpos == FoldSet(LAMBDA d, n : n + Sum(d), path[0].indx, 1 .. Depth(t))
  IN  IF order = "dsc" THEN t.ccnt - bpos - 1 ELSE bpos

do_btree_posi_find(t, bkey, order) ==
  LET At(first) == IF first.elem = Nil THEN 0 - 1
                   ELSE do_btree_posi_from_path(t, first.path, order)
  IN  IF t.root = Nil THEN 0 - 1
      ELSE At(do_btree_find_first(t, [from |-> bkey, to |-> bkey]))

\* Up to "count" elements next to position p, in the order they are met.
RECURSIVE do_btree_elem_batch_get(_, _, _, _)
do_btree_elem_batch_get(t, p, count, forward) ==
  LET q == StepPosi(t, p, forward)
  IN  IF count = 0 \/ q.node = Nil THEN <<>>
      ELSE <<ItemAt(t, q)>> \o do_btree_elem_batch_get(t, q, count - 1, forward)

\* The element with up to "count" others on both sides; its index among them.
do_btree_posi_find_with_get(t, bkey, order, count) ==
  LET asc == order = "asc"
      Around(p, bpos, eidx) ==
        [posi |-> bpos, indx |-> eidx,
         got |-> Reverse(do_btree_elem_batch_get(t, p, eidx, ~asc)) \o <<bkey>> \o
                 do_btree_elem_batch_get(t, p, count, asc)]
      At(p, bpos) == Around(p, bpos, Min({bpos, count}))
      From(first) == At(first.path[0], do_btree_posi_from_path(t, first.path, order))
  IN  From(do_btree_find_first(t, [from |-> bkey, to |-> bkey]))

\* The position of the element with the given index, by the element counts.
RECURSIVE ByIndex(_, _, _)
ByIndex(t, n, index) ==
  LET ecnt == t.node[n].ecnt
      Upto(i) == FoldSeq(LAMBDA x, y : x + y, 0, SubSeq(ecnt, 1, i))
      i == Min({j \in 1 .. Len(ecnt) : Upto(j) > index})
  IN  IF t.node[n].depth = 0 THEN Posi(n, index)
      ELSE ByIndex(t, t.node[n].item[i], index - Upto(i - 1))

do_btree_elem_get_by_posi(t, index, count, forward) ==
  LET p == ByIndex(t, t.root, index)
  IN  <<ItemAt(t, p)>> \o do_btree_elem_batch_get(t, p, count - 1, forward)

\* btree_elem_get_by_posi: positions behind the end are cut, and counted from
\* the other end in descending order.
btree_elem_get_by_posi(t, order, from, to) ==
  LET Cut(i) == LET j == Min({i, t.ccnt - 1})
                IN  IF order = "dsc" THEN t.ccnt - j - 1 ELSE j
      f == Cut(from)
      g == Cut(to)
  IN  IF t.ccnt = 0 \/ (from >= t.ccnt /\ to >= t.ccnt) THEN <<>>
      ELSE do_btree_elem_get_by_posi(t, f, (IF f <= g THEN g - f ELSE f - g) + 1,
                                     f <= g)

-----------------------------------------------------------------------------
(***************************************************************************)
(* The specification.                                                      *)
(***************************************************************************)

\* The elements below node n, from left to right.
RECURSIVE ElemsBelow(_, _)
ElemsBelow(t, n) ==
  IF t.node[n].depth = 0 THEN t.node[n].item
  ELSE FlattenSeq([i \in 1 .. Used(t, n) |-> ElemsBelow(t, t.node[n].item[i])])

Contents(t) == IF t.root = Nil THEN <<>> ELSE ElemsBelow(t, t.root)

\* The nodes of a level, and of all levels below it, from left to right.
Children(t, level) == FlattenSeq([i \in 1 .. Len(level) |-> t.node[level[i]].item])

RECURSIVE Levels(_, _)
Levels(t, level) ==
  IF t.node[level[1]].depth = 0 THEN <<level>>
  ELSE <<level>> \o Levels(t, Children(t, level))

NodeLevels(t) == IF t.root = Nil THEN <<>> ELSE Levels(t, <<t.root>>)

Addresses(t) ==
  LET linked == FlattenSeq(NodeLevels(t))
  IN  linked \o SetToSeq(DOMAIN t.node \ ToSet(linked))

\* bkeys and addresses are renamed in order.
Renamed(t) ==
  LET addr == Addresses(t)
      keys == ToSet(Contents(t))
      Addr(n) == IF n = Nil THEN Nil ELSE CHOOSE i \in 1 .. Len(addr) : addr[i] = n
      Key(k) == 2 * Cardinality({j \in keys : j <= k})
      Node(node) ==
        [node EXCEPT !.prev = Addr(@), !.next = Addr(@),
           !.item = [i \in 1 .. Len(@) |->
                       IF node.depth = 0 THEN Key(@[i]) ELSE Addr(@[i])]]
  IN  [t EXCEPT !.root = Addr(@), !.node = [i \in 1 .. Len(addr) |-> Node(@[addr[i]])]]

BTreeInit == tree = EmptyTree

ElemKeys(t) == {2 * i : i \in 1 .. t.ccnt}

\* A bkey between any two elements, and on both sides of all.
Bkeys(t) == 1 .. 2 * t.ccnt + 1

Ovflacts(t) == IF t.ccnt < MaxCount THEN {"error"} ELSE {"error", "smallest", "largest"}

InsertElem ==
  \E bkey \in Bkeys(tree), ovflact \in Ovflacts(tree), memory \in BOOLEAN :
    tree' = Renamed(do_btree_elem_insert(tree, bkey, ovflact, memory).t)

\* What a range deletion may ask for: any range without a filter, or all of the
\* elements with a filter, an offset or a count.
Deletions(t) ==
  [from : ElemKeys(t), to : ElemKeys(t), filter : {FALSE}, offset : {0}, count : {0}]
    \union
  [from : {1}, to : {2 * t.ccnt + 1}, filter : BOOLEAN, offset : 0 .. 1, count : {0, 3}]
    \union
  [from : {2 * t.ccnt + 1}, to : {1}, filter : BOOLEAN, offset : 0 .. 1, count : {0, 3}]

\* The eflags of the elements are not part of the model: the filter lets every
\* second element pass.
Matching(t, q) == IF q.filter THEN {4 * i : i \in 1 .. t.ccnt} ELSE ElemKeys(t)

RunDelete(t, q) ==
  do_btree_elem_delete(t, [from |-> q.from, to |-> q.to], Matching(t, q), q.offset, q.count)

DeleteElems == \E q \in Deletions(tree) : tree' = Renamed(RunDelete(tree, q).t)

BTreeNext == InsertElem \/ DeleteElems

BTreeSpec == BTreeInit /\ [][BTreeNext]_tree

-----------------------------------------------------------------------------
(***************************************************************************)
(* Properties.                                                             *)
(***************************************************************************)

\* do_btree_consistency_check, which the code asserts in its debugging mode:
\* on every level the links join the nodes in the order of their parents'
\* items, and every element count is the number of elements below.  Beyond it:
\* every node of the tree is reachable from the root, none is empty or
\* overfull, and the collection is charged for exactly its nodes and elements.
TreeConsistent ==
  LET levels == NodeLevels(tree)
      linked == ToSet(FlattenSeq(levels))
      Nodes(S) == Cardinality({n \in DOMAIN tree.node : tree.node[n].depth \in S})
  IN  /\ linked = DOMAIN tree.node
      /\ \A k \in 1 .. Len(levels) : \A i \in 1 .. Len(levels[k]) :
           LET node == tree.node[levels[k][i]] IN
           /\ node.depth = Len(levels) - k
           /\ Len(node.item) \in 1 .. ItemCount
           /\ node.prev = (IF i = 1 THEN Nil ELSE levels[k][i - 1])
           /\ node.next = (IF i = Len(levels[k]) THEN Nil ELSE levels[k][i + 1])
           /\ node.depth > 0 =>
                node.ecnt = [j \in 1 .. Len(node.item) |->
                               Len(ElemsBelow(tree, node.item[j]))]
      /\ tree.ccnt = Len(Contents(tree)) /\ tree.ccnt <= MaxCount
      /\ tree.space = [leaf |-> Nodes({0}), indx |-> Nodes(1 .. 7), elem |-> tree.ccnt]

\* The sorted sequence of bkeys a b+tree stands for.
Sorted(S) == SelectSeq([k \in 1 .. 2 * MaxCount + 1 |-> k], LAMBDA k : k \in S)

InsertSpec(S, bkey, ovflact) ==
  LET T == S \union {bkey} IN
  CASE Cardinality(T) <= MaxCount -> T
    [] Cardinality(T) > MaxCount /\ ovflact = "smallest" -> T \ {Min(T)}
    [] Cardinality(T) > MaxCount /\ ovflact = "largest" -> T \ {Max(T)}
    [] OTHER -> S

RangeSpec(S, from, to, match) ==
  LET in == Sorted({k \in S \intersect match : from <= k /\ k <= to})
  IN  IF from <= to THEN in
      ELSE Reverse(Sorted({k \in S \intersect match : to <= k /\ k <= from}))

CutSpec(s, offset, count) ==
  SubSeq(s, offset + 1, IF count = 0 THEN Len(s) ELSE Min({Len(s), offset + count}))

InsertsExactly ==
  \A bkey \in Bkeys(tree), ovflact \in Ovflacts(tree), memory \in BOOLEAN :
    \A r \in {do_btree_elem_insert(tree, bkey, ovflact, memory)} :
      LET S == ElemKeys(tree)
          T == InsertSpec(S, bkey, ovflact)
      IN  /\ Contents(r.t) = Sorted(IF r.ret = "ok" THEN T ELSE S)
          /\ memory => (r.ret = "ok" <=> bkey \notin S /\ bkey \in T)

DeletesExactly ==
  \A q \in Deletions(tree) : \A r \in {RunDelete(tree, q)} :
    /\ r.got = CutSpec(RangeSpec(ElemKeys(tree), q.from, q.to, Matching(tree, q)),
                       q.offset, q.count)
    /\ Contents(r.t) = Sorted(ElemKeys(tree) \ ToSet(r.got))

\* Where ranges end: at both ends, in the middle and where they start.
Ends(t, from) == {1, t.ccnt, 2 * t.ccnt + 1, from}

ReadsExactly ==
  /\ tree.root # Nil =>
       \A from \in Bkeys(tree) : \A to \in Ends(tree, from) :
         LET r == [from |-> from, to |-> to]
             all == RangeSpec(ElemKeys(tree), from, to, ElemKeys(tree))
         IN  /\ do_btree_elem_get(tree, r, ElemKeys(tree), 0, 0) = all
             /\ do_btree_elem_count(tree, r, ElemKeys(tree), FALSE) = Len(all)
  /\ \A i \in 1 .. tree.ccnt :
       /\ do_btree_posi_find(tree, 2 * i, "asc") = i - 1
       /\ do_btree_posi_find(tree, 2 * i, "dsc") = tree.ccnt - i
       /\ do_btree_posi_find(tree, 2 * i - 1, "asc") = 0 - 1
       /\ \A w \in {do_btree_posi_find_with_get(tree, 2 * i, "dsc", 2)} :
          /\ w.got = Reverse(SubSeq(Contents(tree), Max({1, i - 2}), Min({tree.ccnt, i + 2})))
          /\ w.got[w.indx + 1] = 2 * i
       /\ \A j \in {1, i, tree.ccnt} :
            btree_elem_get_by_posi(tree, "asc", i - 1, j - 1) =
              RangeSpec(ElemKeys(tree), 2 * i, 2 * j, ElemKeys(tree))

\* A b+tree stands for the sorted sequence of its bkeys, whatever its shape:
\* an insertion adds the bkey, with the overflow action at the maxcount, and
\* does nothing when memory is short; a deletion returns and removes the
\* matching elements of the range between offset and count; get, count,
\* position, position with get and get by position answer from that sequence.
TreeExact == InsertsExactly /\ DeletesExactly /\ ReadsExactly

=============================================================================
