------------------------------ MODULE MapColl ------------------------------
(***************************************************************************)
(* A map collection: the tree of hash tables its elements are kept in, and *)
(* the operations of clients, of the delete thread and of the redo of the  *)
(* command log (coll_map.c).                                               *)
(*                                                                         *)
(* The tree is that of a set, except that a node counts the elements in    *)
(* its own chains and the nodes right below it, not all that is below, and *)
(* that elements are replaced and changed in place.  An element is its     *)
(* field and its address; "torn" remembers that an element was changed in  *)
(* place while the client was holding it.  Bounds: as for module SetColl,  *)
(* and MapAddrs; a field with two addresses can be replaced while its      *)
(* element is held.                                                        *)
(***************************************************************************)
EXTENDS Integers, Sequences, FiniteSetsExt, SequencesExt

CONSTANTS
  Fields,       \* the fields of elements
  MapAddrs,     \* the addresses elements with each field can have
  MapHash,      \* the four-bit pieces of the hash of each, lowest first
  MapSize,      \* MAP_HASHTAB_SIZE
  MapChain,     \* MAP_MAX_HASHCHAIN_SIZE
  MapDefault,   \* DEFAULT_MAP_SIZE
  MapMaxCounts, \* the maxcounts clients ask for
  MaxMapSize,   \* config->max_map_size
  MapAttrs,     \* the attributes maps are created with
  FieldLists    \* the lists of fields clients name, the empty one for all

VARIABLES
  mphase,   \* "serve", or "redo" after a restart
  minfo,    \* the collection, or NoMap
  mdead,    \* the root of the unlinked collection, or NoNode
  mmem,     \* the elements in memory
  mheld,    \* the elements the client holds references to
  torn      \* history: a held element was changed in place

mvars == <<mphase, minfo, mdead, mmem, mheld, torn>>

NoMap == [ccnt |-> 0 - 1]

NoNode == [elems |-> 0 - 1]

Slots == 0 .. MapSize - 1

Elem(f, addr) == [f |-> f, addr |-> addr]

FreeAddrs(f) == {a \in MapAddrs[f] : Elem(f, a) \notin mmem}

MAP_GET_HASHIDX(f, depth) == MapHash[f][depth + 1]

do_map_real_maxcount(maxcount) ==
  CASE maxcount < 0 -> 0 - 1
    [] maxcount = 0 -> MapDefault
    [] OTHER        -> Min({maxcount, MaxMapSize})

do_map_item_alloc(attr) ==
  [mcnt |-> do_map_real_maxcount(attr.maxcount), ccnt |-> 0,
   readable |-> attr.readable, root |-> NoNode]

do_map_node_alloc(depth) ==
  [depth |-> depth, hashes |-> 0, elems |-> 0,
   hcnt |-> [h \in Slots |-> 0], htab |-> [h \in Slots |-> <<>>]]

RECURSIVE Chains(_, _)
Chains(node, h) == IF h = MapSize THEN <<>> ELSE node.htab[h] \o Chains(node, h + 1)

\* do_map_node_link: the elements of the chain are moved to the node, and the
\* node takes the place of the chain.
do_map_node_link(par, hidx, node) ==
  LET chain == par.htab[hidx]
      In(h) == SelectSeq(chain, LAMBDA e : MAP_GET_HASHIDX(e.f, node.depth) = h)
      filled == [node EXCEPT !.elems = Len(chain),
                             !.hcnt = [h \in Slots |-> Len(In(h))],
                             !.htab = [h \in Slots |-> Reverse(In(h))]]
  IN  [par EXCEPT !.hcnt[hidx] = 0 - 1, !.htab[hidx] = filled,
                  !.elems = @ - Len(chain), !.hashes = @ + 1]

\* do_map_node_unlink of a node below par: its elements form a chain again.
do_map_node_unlink(par, hidx) ==
  LET chain == Reverse(Chains(par.htab[hidx], 0))
  IN  [par EXCEPT !.hcnt[hidx] = Len(chain), !.htab[hidx] = chain,
                  !.elems = @ + Len(chain), !.hashes = @ - 1]

PutElem(node, hidx, e) ==
  [node EXCEPT !.hcnt[hidx] = @ + 1, !.elems = @ + 1, !.htab[hidx] = <<e>> \o @]

\* The place of a field in a chain, or 0.
PlaceIn(chain, f) ==
  LET S == {i \in 1 .. Len(chain) : chain[i].f = f} IN IF S = {} THEN 0 ELSE Min(S)

\* do_map_elem_find: the elements with this field, at most one.
RECURSIVE do_map_elem_find(_, _)
do_map_elem_find(node, f) ==
  LET hidx == MAP_GET_HASHIDX(f, node.depth) IN
  IF node.hcnt[hidx] = 0 - 1 THEN do_map_elem_find(node.htab[hidx], f)
  ELSE LET i == PlaceIn(node.htab[hidx], f) IN IF i = 0 THEN {} ELSE {node.htab[hidx][i]}

\* do_map_elem_replace of the element with the same field.
RECURSIVE do_map_elem_replace(_, _)
do_map_elem_replace(node, e) ==
  LET hidx == MAP_GET_HASHIDX(e.f, node.depth) IN
  IF node.hcnt[hidx] = 0 - 1
  THEN [node EXCEPT !.htab[hidx] = do_map_elem_replace(@, e)]
  ELSE [node EXCEPT !.htab[hidx][PlaceIn(node.htab[hidx], e.f)] = e]

\* do_map_elem_link below a node, of a field that is not there: the outcome and
\* the node.  "room": there is memory for a node.
RECURSIVE LinkBelow(_, _, _)
LinkBelow(node, e, room) ==
  LET hidx == MAP_GET_HASHIDX(e.f, node.depth)
      Below(r) == [ret |-> r.ret, node |-> [node EXCEPT !.htab[hidx] = r.node]]
      Split(par) == [par EXCEPT !.htab[hidx] =
                       PutElem(@, MAP_GET_HASHIDX(e.f, node.depth + 1), e)]
  IN  IF node.hcnt[hidx] = 0 - 1 THEN Below(LinkBelow(node.htab[hidx], e, room))
      ELSE IF node.hcnt[hidx] < MapChain
           THEN [ret |-> "SUCCESS", node |-> PutElem(node, hidx, e)]
      ELSE IF ~room THEN [ret |-> "ENOMEM", node |-> node]
      ELSE [ret |-> "SUCCESS",
            node |-> Split(do_map_node_link(node, hidx, do_map_node_alloc(node.depth + 1)))]

\* do_map_elem_link: the outcome, the collection and the elements replaced.
do_map_elem_link(info, e, replace, room) ==
  LET limit == IF info.mcnt > 0 THEN info.mcnt ELSE MaxMapSize
      Same(ret) == [ret |-> ret, info |-> info, old |-> {}]
      Linked(r) == IF r.ret # "SUCCESS" THEN Same(r.ret)
                   ELSE [ret |-> "SUCCESS", old |-> {},
                         info |-> [info EXCEPT !.root = r.node, !.ccnt = @ + 1]]
      Link(old) ==
        IF old # {} /\ replace
        THEN [ret |-> "SUCCESS", old |-> old,
              info |-> [info EXCEPT !.root = do_map_elem_replace(@, e)]]
        ELSE IF old # {} THEN Same("ELEM_EEXISTS")
        ELSE IF info.ccnt >= limit THEN Same("EOVERFLOW")
        ELSE Linked(LinkBelow(info.root, e, room))
  IN  Link(do_map_elem_find(info.root, e.f))

\* do_map_elem_insert: a root that was made for a failed insertion goes again.
do_map_elem_insert(info, e, replace, room) ==
  LET r == do_map_elem_link(IF info.root = NoNode
                            THEN [info EXCEPT !.root = do_map_node_alloc(0)] ELSE info,
                            e, replace, room)
  IN  IF r.ret = "SUCCESS" THEN r ELSE [r EXCEPT !.info = info]

do_map_elem_unlink(node, hidx, i) ==
  [node EXCEPT !.hcnt[hidx] = @ - 1, !.elems = @ - 1, !.htab[hidx] = RemoveAt(@, i)]

\* The node below has no nodes below it and too few elements to be a node.
Sparse(child) == child.hashes = 0 /\ child.elems < MapChain \div 2

Shrink(node, hidx, child) ==
  LET with == [node EXCEPT !.htab[hidx] = child]
  IN  IF Sparse(child) THEN do_map_node_unlink(with, hidx) ELSE with

\* The node after the deletion of a field that is below it.
RECURSIVE do_map_elem_traverse_dfs_byfield(_, _)
do_map_elem_traverse_dfs_byfield(node, f) ==
  LET hidx == MAP_GET_HASHIDX(f, node.depth) IN
  IF node.hcnt[hidx] = 0 - 1
  THEN Shrink(node, hidx, do_map_elem_traverse_dfs_byfield(node.htab[hidx], f))
  ELSE do_map_elem_unlink(node, hidx, PlaceIn(node.htab[hidx], f))

\* do_map_elem_traverse_dfs_bycnt from a slot on: the node and the elements
\* found.  A count of 0 stands for all.
RECURSIVE do_map_elem_traverse_dfs_bycnt(_, _, _, _)
do_map_elem_traverse_dfs_bycnt(node, h, count, delete) ==
  LET Below(sub) == [found |-> sub.found,
                     node |-> IF delete THEN Shrink(node, h, sub.node) ELSE node]
      Chain(n) == [found |-> SubSeq(node.htab[h], 1, n),
                   node |-> IF delete
                            THEN [node EXCEPT !.hcnt[h] = @ - n, !.elems = @ - n,
                                              !.htab[h] = SubSeq(@, n + 1, Len(@))]
                            ELSE node]
      Both(found, rest) == [node |-> rest.node, found |-> found \o rest.found]
      GoOn(here, left) ==
        IF count > 0 /\ left = 0 THEN here
        ELSE Both(here.found, do_map_elem_traverse_dfs_bycnt(here.node, h + 1, left, delete))
      Then(here) == GoOn(here, IF count = 0 THEN 0 ELSE count - Len(here.found))
  IN  IF h = MapSize THEN [node |-> node, found |-> <<>>]
      ELSE Then(IF node.hcnt[h] = 0 - 1
                THEN Below(do_map_elem_traverse_dfs_bycnt(node.htab[h], 0, count, delete))
                ELSE Chain(IF count = 0 THEN node.hcnt[h] ELSE Min({count, node.hcnt[h]})))

\* The collection after n elements have left it: an empty root goes as well.
After(info, root, n) ==
  [info EXCEPT !.root = IF root.hashes = 0 /\ root.elems = 0 THEN NoNode ELSE root,
               !.ccnt = @ - n]

\* The fields of the list one after the other: those that are found are
\* deleted.
RECURSIVE ByFields(_, _, _)
ByFields(root, flist, delete) ==
  IF flist = <<>> THEN [node |-> root, found |-> <<>>]
  ELSE LET f == Head(flist)
           e == do_map_elem_find(root, f)
           gone == IF e # {} /\ delete THEN do_map_elem_traverse_dfs_byfield(root, f) ELSE root
           rest == ByFields(gone, Tail(flist), delete)
       IN  [node |-> rest.node, found |-> SetToSeq(e) \o rest.found]

\* do_map_elem_get and do_map_elem_delete_with_field.
do_map_elem_get(info, flist, delete) ==
  LET r == IF flist = <<>> THEN do_map_elem_traverse_dfs_bycnt(info.root, 0, 0, delete)
                           ELSE ByFields(info.root, flist, delete)
  IN  [found |-> r.found,
       info |-> IF delete THEN After(info, r.node, Len(r.found)) ELSE info]

-----------------------------------------------------------------------------
(***************************************************************************)
(* Operations.                                                             *)
(***************************************************************************)

MapExists == minfo # NoMap

RECURSIVE Contents(_)
Contents(node) ==
  IF node = NoNode THEN {}
  ELSE UNION {IF node.hcnt[h] = 0 - 1 THEN Contents(node.htab[h]) ELSE ToSet(node.htab[h]) :
              h \in Slots}

\* Elements that leave a tree stay in memory while they are held.
Freed(S) == S \ mheld

map_struct_create(attr) ==
  /\ mphase = "serve" /\ ~MapExists /\ mdead = NoNode
  /\ minfo' = do_map_item_alloc(attr)
  /\ UNCHANGED <<mphase, mdead, mmem, mheld, torn>>

\* map_elem_insert with an element the client has allocated and frees on
\* failure; "attr" creates the collection if there is none.
map_elem_insert(f, attr, replace, room) ==
  /\ mphase = "serve" /\ mdead = NoNode /\ FreeAddrs(f) # {}
  /\ \E e \in {Elem(f, Min(FreeAddrs(f)))} :
     \E r \in {do_map_elem_insert(IF MapExists THEN minfo ELSE do_map_item_alloc(attr),
                                  e, replace, room)} :
       /\ minfo' = IF r.ret = "SUCCESS" THEN r.info ELSE minfo
       /\ mmem' = IF r.ret = "SUCCESS" THEN (mmem \union {e}) \ Freed(r.old) ELSE mmem
  /\ UNCHANGED <<mphase, mdead, mheld, torn>>

InPlace(e, same) == e \notin mheld /\ same

\* do_map_elem_update; "same": the new value is as long as the old one.
map_elem_update(f, same) ==
  /\ mphase = "serve" /\ MapExists /\ minfo.root # NoNode
  /\ \E e \in do_map_elem_find(minfo.root, f) :
       IF InPlace(e, same)
       THEN torn' = (torn \/ e \in mheld) /\ UNCHANGED <<minfo, mmem>>
       ELSE /\ FreeAddrs(f) # {}
            /\ LET new == Elem(f, Min(FreeAddrs(f))) IN
               /\ minfo' = [minfo EXCEPT !.root = do_map_elem_replace(@, new)]
               /\ mmem' = (mmem \union {new}) \ Freed({e})
            /\ UNCHANGED torn
  /\ UNCHANGED <<mphase, mdead, mheld>>

\* A collection without elements is dropped when the client asks for that.
Drop(info, drop) == IF drop /\ info.ccnt = 0 THEN NoMap ELSE info

map_elem_delete(flist, drop) ==
  /\ mphase = "serve" /\ MapExists /\ minfo.root # NoNode
  /\ \E r \in {do_map_elem_get(minfo, flist, TRUE)} :
       /\ r.found # <<>>
       /\ minfo' = Drop(r.info, drop)
       /\ mmem' = mmem \ Freed(ToSet(r.found))
  /\ UNCHANGED <<mphase, mdead, mheld, torn>>

map_elem_get(flist, delete, drop) ==
  /\ mphase = "serve" /\ mheld = {}
  /\ MapExists /\ minfo.readable /\ minfo.ccnt > 0
  /\ \E r \in {do_map_elem_get(minfo, flist, delete)} :
       /\ r.found # <<>>
       /\ minfo' = Drop(r.info, drop)
       /\ mheld' = ToSet(r.found)
  /\ UNCHANGED <<mphase, mdead, mmem, torn>>

\* do_map_elem_release of all that the client holds.
map_elem_release ==
  /\ mheld # {} /\ mheld' = {}
  /\ mmem' = mmem \ (mheld \ (Contents(mdead) \union
                              IF MapExists THEN Contents(minfo.root) ELSE {}))
  /\ UNCHANGED <<mphase, minfo, mdead, torn>>

map_coll_setattr(maxcount) ==
  LET mcnt == do_map_real_maxcount(maxcount) IN
  /\ mphase = "serve" /\ MapExists
  /\ mcnt > 0 => mcnt >= minfo.ccnt
  /\ minfo' = [minfo EXCEPT !.mcnt = mcnt, !.readable = TRUE]
  /\ UNCHANGED <<mphase, mdead, mmem, mheld, torn>>

\* The item is unlinked: its elements are left to the delete thread.
UnlinkMap ==
  /\ MapExists /\ mdead = NoNode
  /\ minfo' = NoMap /\ mdead' = minfo.root
  /\ UNCHANGED <<mphase, mmem, mheld, torn>>

\* do_map_elem_delete, by the delete thread.
map_elem_delete_with_count(count) ==
  /\ mdead # NoNode
  /\ \E r \in {do_map_elem_traverse_dfs_bycnt(mdead, 0, count, TRUE)} :
       /\ mdead' = IF r.node.hashes = 0 /\ r.node.elems = 0 THEN NoNode ELSE r.node
       /\ mmem' = mmem \ Freed(ToSet(r.found))
  /\ UNCHANGED <<mphase, minfo, mheld, torn>>

\* map_elem_get_all: the elements in the order of the nodes and chains.
RECURSIVE map_elem_get_all(_, _)
map_elem_get_all(node, h) ==
  IF h = MapSize THEN <<>>
  ELSE (IF node.hcnt[h] >= 0 THEN node.htab[h] ELSE map_elem_get_all(node.htab[h], 0))
         \o map_elem_get_all(node, h + 1)

AllElems(root) == IF root = NoNode THEN <<>> ELSE map_elem_get_all(root, 0)

map_apply_item_link(info) ==
  do_map_item_alloc([maxcount |-> info.mcnt, readable |-> info.readable])

\* The server starts again with the snapshot of the collection.
MapRestart ==
  /\ mphase = "serve" /\ MapExists
  /\ mphase' = "redo"
  /\ minfo' = FoldLeft(LAMBDA info, e :
                         do_map_elem_insert(info, Elem(e.f, 1), TRUE, TRUE).info,
                       map_apply_item_link(minfo), AllElems(minfo.root))
  /\ mdead' = NoNode /\ mheld' = {}
  /\ mmem' = {Elem(e.f, 1) : e \in Contents(minfo.root)}
  /\ UNCHANGED torn

\* A record that cannot be redone takes the item with it.
map_apply_elem_insert(f, room) ==
  /\ mphase = "redo" /\ MapExists /\ mdead = NoNode /\ FreeAddrs(f) # {}
  /\ \E e \in {Elem(f, Min(FreeAddrs(f)))} :
     \E r \in {do_map_elem_insert(minfo, e, TRUE, room)} :
       IF r.ret = "SUCCESS"
       THEN minfo' = r.info /\ mmem' = (mmem \union {e}) \ r.old /\ UNCHANGED mdead
       ELSE minfo' = NoMap /\ mdead' = minfo.root /\ UNCHANGED mmem
  /\ UNCHANGED <<mphase, mheld, torn>>

map_apply_elem_delete(f, drop) ==
  /\ mphase = "redo" /\ MapExists
  /\ \E r \in {IF minfo.ccnt > 0 THEN do_map_elem_get(minfo, <<f>>, TRUE)
                                  ELSE [info |-> minfo, found |-> <<>>]} :
       /\ minfo' = Drop(r.info, drop)
       /\ mmem' = mmem \ ToSet(r.found)
  /\ UNCHANGED <<mphase, mdead, mheld, torn>>

MapServe == mphase = "redo" /\ mphase' = "serve" /\ UNCHANGED <<minfo, mdead, mmem, mheld, torn>>

-----------------------------------------------------------------------------
MapInit ==
  /\ mphase = "serve" /\ minfo = NoMap /\ mdead = NoNode
  /\ mmem = {} /\ mheld = {} /\ torn = FALSE

MapNext ==
  \/ \E a \in MapAttrs : map_struct_create(a)
  \/ \E f \in Fields, a \in MapAttrs, replace, room \in BOOLEAN :
       map_elem_insert(f, a, replace, room)
  \/ \E f \in Fields, same \in BOOLEAN : map_elem_update(f, same)
  \/ \E l \in FieldLists, drop \in BOOLEAN : map_elem_delete(l, drop)
  \/ \E l \in FieldLists : map_elem_get(l, FALSE, FALSE)
  \/ \E l \in FieldLists, drop \in BOOLEAN : map_elem_get(l, TRUE, drop)
  \/ map_elem_release
  \/ \E n \in MapMaxCounts : map_coll_setattr(n)
  \/ UnlinkMap
  \/ map_elem_delete_with_count(2)
  \/ MapRestart
  \/ \E f \in Fields, room \in BOOLEAN : map_apply_elem_insert(f, room)
  \/ \E f \in Fields, drop \in BOOLEAN : map_apply_elem_delete(f, drop)
  \/ MapServe

MapSpec == MapInit /\ [][MapNext]_mvars

-----------------------------------------------------------------------------
(***************************************************************************)
(* Properties.                                                             *)
(***************************************************************************)

\* The counts of a node agree with its chains and the nodes right below it,
\* every element is where its hash says, and a node below another has nodes
\* below it or enough elements to be one.
RECURSIVE NodeExact(_, _)
NodeExact(node, path) ==
  LET below == {h \in Slots : node.hcnt[h] = 0 - 1} IN
  /\ node.depth = Len(path)
  /\ node.hashes = Cardinality(below)
  /\ node.elems = FoldSet(LAMBDA h, n : n + Len(node.htab[h]), 0, Slots \ below)
  /\ path # <<>> => node.hashes > 0 \/ node.elems >= MapChain \div 2
  /\ \A h \in below : NodeExact(node.htab[h], Append(path, h))
  /\ \A h \in Slots \ below :
       /\ node.hcnt[h] = Len(node.htab[h])
       /\ \A e \in ToSet(node.htab[h]) :
            SubSeq(MapHash[e.f], 1, Len(path) + 1) = Append(path, h)

\* The tree of hash tables holds an element for each field of the map, where
\* find and traversal look for it, through every split of a chain, collapse of
\* a node and replacement of an element; memory has the elements of the trees
\* and those the client holds, and no others; and what the client holds is
\* never changed in place.
MapExact ==
  /\ MapExists =>
       /\ (minfo.ccnt = 0) = (minfo.root = NoNode)
       /\ minfo.ccnt = Cardinality({e.f : e \in Contents(minfo.root)})
       /\ minfo.ccnt = Len(AllElems(minfo.root))
       /\ minfo.root # NoNode =>
            /\ NodeExact(minfo.root, <<>>)
            /\ UNION {do_map_elem_find(minfo.root, f) : f \in Fields} = Contents(minfo.root)
  /\ mdead # NoNode => NodeExact(mdead, <<>>)
  /\ mmem = Contents(mdead) \union mheld \union
            (IF MapExists THEN Contents(minfo.root) ELSE {})
  /\ ~torn

=============================================================================
