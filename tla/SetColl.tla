------------------------------ MODULE SetColl ------------------------------
(***************************************************************************)
(* A set collection: the tree of hash tables its elements are kept in, and *)
(* the operations of clients, of the delete thread and of the redo of the  *)
(* command log (coll_set.c).                                               *)
(*                                                                         *)
(* A node has a slot for each value of the four bits of the hash that its  *)
(* depth selects: a chain of elements, or a node below (hcnt is then -1).  *)
(* A chain that is too long becomes a node; a node with few elements and   *)
(* no nodes below becomes a chain again.  Bounds: an element is named by   *)
(* its value and there is memory for one element of each value; a new      *)
(* collection is created when the delete thread is done with the last one, *)
(* with which it shares nothing.                                           *)
(***************************************************************************)
EXTENDS Integers, Sequences, FiniteSetsExt, SequencesExt

CONSTANTS
  SetElems,     \* the values of elements
  SetHash,      \* the four-bit pieces of the hash of each, lowest first
  SetSize,      \* SET_HASHTAB_SIZE
  SetChain,     \* SET_MAX_HASHCHAIN_SIZE
  SetDefault,   \* DEFAULT_SET_SIZE
  GetCounts,    \* how many elements clients get, 0 for all
  DeleteCounts, \* how many they get and delete, 0 for all
  SetMaxCounts, \* the maxcounts clients ask for
  MaxSetSize,   \* config->max_set_size
  SetAttrs,     \* the attributes sets are created with
  MaxRand       \* bound: the largest set the random offsets are checked for

VARIABLES
  sphase,   \* "serve", or "redo" after a restart
  sinfo,    \* the collection, or NoSet
  sdead,    \* the root of the unlinked collection, or NoNode
  smem,     \* the elements in memory
  sheld     \* the elements the client holds references to

svars == <<sphase, sinfo, sdead, smem, sheld>>

NoSet == [ccnt |-> 0 - 1]

NoNode == [tot |-> 0 - 1]

Slots == 0 .. SetSize - 1

SET_GET_HASHIDX(v, depth) == SetHash[v][depth + 1]

do_set_real_maxcount(maxcount) ==
  CASE maxcount < 0 -> 0 - 1
    [] maxcount = 0 -> SetDefault
    [] OTHER        -> Min({maxcount, MaxSetSize})

do_set_item_alloc(attr) ==
  [mcnt |-> do_set_real_maxcount(attr.maxcount), ccnt |-> 0,
   readable |-> attr.readable, root |-> NoNode]

do_set_node_alloc(depth) ==
  [depth |-> depth, tot |-> 0,
   hcnt |-> [h \in Slots |-> 0], htab |-> [h \in Slots |-> <<>>]]

is_leaf_node(node) == \A h \in Slots : node.hcnt[h] # 0 - 1

\* The chains of a node, one after the other.
RECURSIVE Chains(_, _)
Chains(node, h) == IF h = SetSize THEN <<>> ELSE node.htab[h] \o Chains(node, h + 1)

\* do_set_node_link: the elements of the chain are moved to the node, each to
\* the head of its new chain, and the node takes the place of the chain.
do_set_node_link(par, hidx, node) ==
  LET chain == par.htab[hidx]
      In(h) == SelectSeq(chain, LAMBDA v : SET_GET_HASHIDX(v, node.depth) = h)
      filled == [node EXCEPT !.tot = Len(chain),
                             !.hcnt = [h \in Slots |-> Len(In(h))],
                             !.htab = [h \in Slots |-> Reverse(In(h))]]
  IN  [par EXCEPT !.hcnt[hidx] = 0 - 1, !.htab[hidx] = filled]

\* do_set_node_unlink of a node below par: its elements form a chain again.
do_set_node_unlink(par, hidx) ==
  LET chain == Reverse(Chains(par.htab[hidx], 0))
  IN  [par EXCEPT !.hcnt[hidx] = Len(chain), !.htab[hidx] = chain]

PutElem(node, hidx, v) ==
  [node EXCEPT !.hcnt[hidx] = @ + 1, !.tot = @ + 1, !.htab[hidx] = <<v>> \o @]

\* do_set_elem_link below a node: the outcome and the node.  "room": there is
\* memory for a node.
RECURSIVE do_set_elem_link(_, _, _)
do_set_elem_link(node, v, room) ==
  LET hidx == SET_GET_HASHIDX(v, node.depth)
      below == do_set_elem_link(node.htab[hidx], v, room)
      split == do_set_node_link(node, hidx, do_set_node_alloc(node.depth + 1))
      child == split.htab[hidx]
      Same(ret) == [ret |-> ret, node |-> node]
  IN  IF node.hcnt[hidx] = 0 - 1
      THEN IF below.ret # "SUCCESS" THEN Same(below.ret)
           ELSE [below EXCEPT !.node = [node EXCEPT !.tot = @ + 1,
                                                    !.htab[hidx] = below.node]]
      ELSE IF \E i \in 1 .. Len(node.htab[hidx]) : node.htab[hidx][i] = v
           THEN Same("ELEM_EEXISTS")
      ELSE IF node.hcnt[hidx] < SetChain
           THEN [ret |-> "SUCCESS", node |-> PutElem(node, hidx, v)]
      ELSE IF ~room THEN Same("ENOMEM")
      ELSE [ret |-> "SUCCESS",
            node |-> [split EXCEPT !.tot = @ + 1,
                        !.htab[hidx] = PutElem(child, SET_GET_HASHIDX(v, child.depth), v)]]

\* do_set_elem_unlink of the i-th element of a chain.
do_set_elem_unlink(node, hidx, i) ==
  [node EXCEPT !.hcnt[hidx] = @ - 1, !.tot = @ - 1, !.htab[hidx] = RemoveAt(@, i)]

RECURSIVE do_set_elem_find(_, _)
do_set_elem_find(node, v) ==
  LET hidx == SET_GET_HASHIDX(v, node.depth) IN
  IF node.hcnt[hidx] = 0 - 1 THEN do_set_elem_find(node.htab[hidx], v)
  ELSE \E i \in 1 .. Len(node.htab[hidx]) : node.htab[hidx][i] = v

\* The node below has too few elements to be a node.
Sparse(child) == child.tot < SetChain \div 2 /\ is_leaf_node(child)

Shrink_Mutant(node, hidx, child, n) ==
  LET with == [node EXCEPT !.htab[hidx] = child]
  IN  IF Sparse(child) THEN do_set_node_unlink(with, hidx) ELSE [with EXCEPT !.tot = @ - n]

\* After a deletion of n elements in the node below.
Shrink(node, hidx, child, n) ==
  LET with == [node EXCEPT !.htab[hidx] = child]
  IN  [(IF Sparse(child) THEN do_set_node_unlink(with, hidx) ELSE with)
         EXCEPT !.tot = @ - n]

\* The node after the deletion of a value that is below it.
RECURSIVE do_set_elem_traverse_delete(_, _)
do_set_elem_traverse_delete(node, v) ==
  LET hidx == SET_GET_HASHIDX(v, node.depth)
  IN  IF node.hcnt[hidx] = 0 - 1
      THEN Shrink(node, hidx, do_set_elem_traverse_delete(node.htab[hidx], v), 1)
      ELSE do_set_elem_unlink(node, hidx,
             CHOOSE i \in 1 .. Len(node.htab[hidx]) : node.htab[hidx][i] = v)

\* do_set_elem_traverse_dfs from a slot on: the node, and the values found.  A
\* count of 0 stands for all.
RECURSIVE do_set_elem_traverse_dfs(_, _, _, _)
do_set_elem_traverse_dfs(node, h, count, delete) ==
  LET sub == do_set_elem_traverse_dfs(node.htab[h], 0, count, delete)
      n == IF count = 0 THEN node.hcnt[h] ELSE Min({count, node.hcnt[h]})
      cut == [node EXCEPT !.hcnt[h] = @ - n, !.tot = @ - n,
                          !.htab[h] = SubSeq(@, n + 1, Len(@))]
      here == IF node.hcnt[h] = 0 - 1
              THEN [found |-> sub.found,
                    node |-> IF delete THEN Shrink(node, h, sub.node, Len(sub.found))
                                       ELSE node]
              ELSE [found |-> SubSeq(node.htab[h], 1, n),
                    node |-> IF delete THEN cut ELSE node]
      left == count - Len(here.found)
      rest == do_set_elem_traverse_dfs(here.node, h + 1, IF count = 0 THEN 0 ELSE left, delete)
  IN  IF h = SetSize THEN [node |-> node, found |-> <<>>]
      ELSE IF count > 0 /\ left <= 0 THEN here
      ELSE [node |-> rest.node, found |-> here.found \o rest.found]

\* do_set_elem_at_offset: the element at a place in the order of the traversal.
RECURSIVE do_set_elem_at_offset(_, _, _, _)
do_set_elem_at_offset(node, h, offset, delete) ==
  LET down == node.hcnt[h] = 0 - 1
      n == IF down THEN node.htab[h].tot ELSE node.hcnt[h]
      sub == do_set_elem_at_offset(node.htab[h], 0, offset, delete)
  IN  IF offset >= n THEN do_set_elem_at_offset(node, h + 1, offset - n, delete)
      ELSE IF down
      THEN [found |-> sub.found,
            node |-> IF delete THEN Shrink(node, h, sub.node, 1) ELSE node]
      ELSE [found |-> node.htab[h][offset + 1],
            node |-> IF delete THEN do_set_elem_unlink(node, h, offset + 1) ELSE node]

-----------------------------------------------------------------------------
(***************************************************************************)
(* Some elements at random: the offsets are drawn with rand(); those that  *)
(* have been drawn are kept in buckets of three.                           *)
(***************************************************************************)

\* hash_init
Capacity(count) == (13 * count) \div 10

\* hash_insert succeeds for another offset.
hash_insert(drawn, offset, count) ==
  /\ offset \notin drawn
  /\ Cardinality({o \in drawn : o % Capacity(count) = offset % Capacity(count)}) < 3

RECURSIVE DrawnSets(_, _, _)
DrawnSets(ccnt, count, n) ==
  IF n = 0 THEN {{}}
  ELSE UNION {{S \union {o} : o \in {x \in 0 .. ccnt - 1 : hash_insert(S, x, count)}} :
              S \in DrawnSets(ccnt, count, n - 1)}

\* The outcomes of do_set_elem_traverse_rand: the root and the values found.
RECURSIVE RandDelete(_, _)
RandDelete(root, count) ==
  IF count = 0 THEN {[node |-> root, found |-> {}]}
  ELSE UNION {{[node |-> r.node, found |-> r.found \union {o.found}] :
                 r \in RandDelete(o.node, count - 1)} :
              o \in {do_set_elem_at_offset(root, 0, x, TRUE) : x \in 0 .. root.tot - 1}}

do_set_elem_traverse_rand(root, count, delete) ==
  IF delete THEN RandDelete(root, count)
  ELSE {[node |-> root,
         found |-> {do_set_elem_at_offset(root, 0, x, FALSE).found : x \in S}] :
        S \in DrawnSets(root.tot, count, count)}

\* The collection after n elements have left it: an empty root goes as well.
After(info, root, n) ==
  [info EXCEPT !.root = IF root.tot = 0 THEN NoNode ELSE root, !.ccnt = @ - n]

\* The outcomes of do_set_elem_get.
do_set_elem_get(info, count, delete) ==
  LET all == do_set_elem_traverse_dfs(info.root, 0, count, delete)
      outcomes == IF count >= info.ccnt \/ count = 0
                  THEN {[node |-> all.node, found |-> ToSet(all.found)]}
                  ELSE do_set_elem_traverse_rand(info.root, count, delete)
  IN  {[found |-> o.found,
        info |-> IF delete THEN After(info, o.node, Cardinality(o.found)) ELSE info] :
       o \in outcomes}

\* do_set_elem_insert
do_set_elem_insert(info, v, room) ==
  LET limit == IF info.mcnt > 0 THEN info.mcnt ELSE MaxSetSize
      new == info.root = NoNode
      r == do_set_elem_link(IF new THEN do_set_node_alloc(0) ELSE info.root, v, room)
  IN  IF info.ccnt >= limit THEN [ret |-> "EOVERFLOW", info |-> info]
      ELSE IF r.ret # "SUCCESS" THEN [ret |-> r.ret, info |-> info]
      ELSE [ret |-> "SUCCESS",
            info |-> [info EXCEPT !.root = r.node, !.ccnt = @ + 1]]


-----------------------------------------------------------------------------
(***************************************************************************)
(* Operations.                                                             *)
(***************************************************************************)

SetExists == sinfo # NoSet

RECURSIVE Contents(_)
Contents(node) ==
  IF node = NoNode THEN {}
  ELSE UNION {IF node.hcnt[h] = 0 - 1 THEN Contents(node.htab[h]) ELSE ToSet(node.htab[h]) :
              h \in Slots}

\* Elements that leave a tree stay in memory while they are held.
FreeElems(S, kept) == smem' = smem \ (S \ kept)

set_struct_create(attr) ==
  /\ sphase = "serve" /\ ~SetExists /\ sdead = NoNode
  /\ sinfo' = do_set_item_alloc(attr)
  /\ UNCHANGED <<sphase, sdead, smem, sheld>>

\* set_elem_insert with an element the client has allocated; "attr" creates the
\* collection if there is none.  On failure the client frees the element, and
\* a collection that was created is unlinked.
set_elem_insert(v, attr, room) ==
  /\ sphase = "serve" /\ sdead = NoNode
  /\ v \notin smem \/ (SetExists /\ v \in Contents(sinfo.root))
  /\ \E r \in {do_set_elem_insert(IF SetExists THEN sinfo ELSE do_set_item_alloc(attr),
                                  v, room)} :
       /\ sinfo' = IF r.ret = "SUCCESS" THEN r.info ELSE sinfo
       /\ smem' = IF r.ret = "SUCCESS" THEN smem \union {v} ELSE smem
  /\ UNCHANGED <<sphase, sdead, sheld>>

\* do_set_elem_delete_with_value
Deleted(info, v) ==
  IF info.root # NoNode /\ do_set_elem_find(info.root, v)
  THEN After(info, do_set_elem_traverse_delete(info.root, v), 1) ELSE info

\* A collection without elements is dropped when the client asks for that.
Drop(info, drop) == IF drop /\ info.ccnt = 0 THEN NoSet ELSE info

set_elem_delete(v, drop) ==
  /\ sphase = "serve" /\ SetExists
  /\ \E info \in {Deleted(sinfo, v)} : info # sinfo /\ sinfo' = Drop(info, drop)
  /\ FreeElems({v}, sheld)
  /\ UNCHANGED <<sphase, sdead, sheld>>

set_elem_get(count, delete, drop) ==
  /\ sphase = "serve" /\ sheld = {}
  /\ SetExists /\ sinfo.readable /\ sinfo.ccnt > 0
  /\ \E o \in do_set_elem_get(sinfo, count, delete) :
       /\ sinfo' = Drop(o.info, drop)
       /\ sheld' = o.found
  /\ UNCHANGED <<sphase, sdead, smem>>

\* do_set_elem_release of all that the client holds.
set_elem_release ==
  /\ sheld # {} /\ sheld' = {}
  /\ smem' = smem \ (sheld \ (Contents(sdead) \union
                               IF SetExists THEN Contents(sinfo.root) ELSE {}))
  /\ UNCHANGED <<sphase, sinfo, sdead>>

set_coll_setattr(maxcount) ==
  LET mcnt == do_set_real_maxcount(maxcount) IN
  /\ sphase = "serve" /\ SetExists
  /\ mcnt > 0 => mcnt >= sinfo.ccnt
  /\ sinfo' = [sinfo EXCEPT !.mcnt = mcnt, !.readable = TRUE]
  /\ UNCHANGED <<sphase, sdead, smem, sheld>>

\* The item is unlinked: its elements are left to the delete thread.
UnlinkSet ==
  /\ SetExists /\ sdead = NoNode
  /\ sinfo' = NoSet /\ sdead' = sinfo.root
  /\ UNCHANGED <<sphase, smem, sheld>>

\* do_set_elem_delete, by the delete thread.
set_elem_delete_with_count(count) ==
  LET r == do_set_elem_traverse_dfs(sdead, 0, count, TRUE) IN
  /\ sdead # NoNode
  /\ sdead' = IF r.node.tot = 0 THEN NoNode ELSE r.node
  /\ FreeElems(ToSet(r.found), sheld)
  /\ UNCHANGED <<sphase, sinfo, sheld>>

\* set_elem_get_all: the elements in the order of the nodes and chains, each
\* node with a stack of the nodes above.
RECURSIVE set_elem_get_all(_, _)
set_elem_get_all(node, h) ==
  IF h = SetSize THEN <<>>
  ELSE (IF node.hcnt[h] >= 0 THEN node.htab[h] ELSE set_elem_get_all(node.htab[h], 0))
         \o set_elem_get_all(node, h + 1)

AllElems(root) == IF root = NoNode THEN <<>> ELSE set_elem_get_all(root, 0)

\* set_apply_item_link
set_apply_item_link(info) ==
  do_set_item_alloc([maxcount |-> info.mcnt, readable |-> info.readable])

\* The server starts again with the snapshot of the collection.
SetRestart ==
  /\ sphase = "serve" /\ SetExists
  /\ sphase' = "redo"
  /\ sinfo' = FoldLeft(LAMBDA info, v : do_set_elem_insert(info, v, TRUE).info,
                       set_apply_item_link(sinfo), AllElems(sinfo.root))
  /\ sdead' = NoNode /\ sheld' = {}
  /\ smem' = Contents(sinfo.root)

\* A record that cannot be redone takes the item with it.
set_apply_elem_insert(v, room) ==
  /\ sphase = "redo" /\ SetExists /\ sdead = NoNode
  /\ \E r \in {do_set_elem_insert(sinfo, v, room)} :
       IF r.ret = "SUCCESS"
       THEN sinfo' = r.info /\ smem' = smem \union {v} /\ UNCHANGED sdead
       ELSE sinfo' = NoSet /\ sdead' = sinfo.root /\ UNCHANGED smem
  /\ UNCHANGED <<sphase, sheld>>

set_apply_elem_delete(v, drop) ==
  /\ sphase = "redo" /\ SetExists
  /\ \E info \in {Deleted(sinfo, v)} :
       /\ sinfo' = Drop(info, drop)
       /\ IF info = sinfo THEN UNCHANGED smem ELSE FreeElems({v}, sheld)
  /\ UNCHANGED <<sphase, sdead, sheld>>

SetServe == sphase = "redo" /\ sphase' = "serve" /\ UNCHANGED <<sinfo, sdead, smem, sheld>>

-----------------------------------------------------------------------------
SetInit ==
  sphase = "serve" /\ sinfo = NoSet /\ sdead = NoNode /\ smem = {} /\ sheld = {}

SetNext ==
  \/ \E a \in SetAttrs : set_struct_create(a)
  \/ \E v \in SetElems, a \in SetAttrs, room \in BOOLEAN : set_elem_insert(v, a, room)
  \/ \E v \in SetElems, drop \in BOOLEAN : set_elem_delete(v, drop)
  \/ \E n \in GetCounts : set_elem_get(n, FALSE, FALSE)
  \/ \E n \in DeleteCounts, drop \in BOOLEAN : set_elem_get(n, TRUE, drop)
  \/ set_elem_release
  \/ \E n \in SetMaxCounts : set_coll_setattr(n)
  \/ UnlinkSet
  \/ set_elem_delete_with_count(2)
  \/ SetRestart
  \/ \E v \in SetElems, room \in BOOLEAN : set_apply_elem_insert(v, room)
  \/ \E v \in SetElems, drop \in BOOLEAN : set_apply_elem_delete(v, drop)
  \/ SetServe

SetSpec == SetInit /\ [][SetNext]_svars

-----------------------------------------------------------------------------
(***************************************************************************)
(* Properties.                                                             *)
(***************************************************************************)

\* The counts of a node agree with what is below it, every element is where
\* its hash says, and a node below another has enough elements to be one.
RECURSIVE NodeExact(_, _)
NodeExact(node, path) ==
  /\ node.depth = Len(path)
  /\ node.tot = Cardinality(Contents(node)) /\ Len(set_elem_get_all(node, 0)) = node.tot
  /\ path # <<>> => node.tot >= SetChain \div 2
  /\ \A h \in Slots :
       IF node.hcnt[h] = 0 - 1 THEN NodeExact(node.htab[h], Append(path, h))
       ELSE /\ node.hcnt[h] = Len(node.htab[h])
            /\ \A v \in ToSet(node.htab[h]) :
                 SubSeq(SetHash[v], 1, Len(path) + 1) = Append(path, h)

\* However the random offsets fall, one can be drawn until there are enough.
DrawEnds ==
  \A ccnt \in 2 .. MaxRand : \A count \in 1 .. ccnt - 1 : \A n \in 0 .. count - 1 :
    \A S \in DrawnSets(ccnt, count, n) : \E x \in 0 .. ccnt - 1 : hash_insert(S, x, count)

\* Every element, and no other, is found by its value and has an offset.
Located(root) ==
  LET elems == Contents(root) IN
  /\ \A v \in SetElems : do_set_elem_find(root, v) = (v \in elems)
  /\ {do_set_elem_at_offset(root, 0, x, FALSE).found : x \in 0 .. root.tot - 1} = elems

\* The tree of hash tables holds the elements of the set, each once and where
\* find, offset and traversal look for it, through every split of a chain and
\* every collapse of a node; a collection without elements has no root; memory
\* has the elements of the trees and those a client holds, and no others.
SetExact ==
  /\ SetExists => /\ (sinfo.ccnt = 0) = (sinfo.root = NoNode)
                  /\ sinfo.root # NoNode => /\ NodeExact(sinfo.root, <<>>)
                                            /\ sinfo.root.tot = sinfo.ccnt
                                            /\ Located(sinfo.root)
  /\ sdead # NoNode => NodeExact(sdead, <<>>)
  /\ smem = Contents(sdead) \union sheld \union
            (IF SetExists THEN Contents(sinfo.root) ELSE {})

=============================================================================
