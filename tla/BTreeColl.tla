----------------------------- MODULE BTreeColl -----------------------------
(***************************************************************************)
(* One b+tree collection and the clients that use it (coll_btree.c).       *)
(*                                                                         *)
(* Every operation runs under the cache lock and is one step.  Between the *)
(* steps clients hold references to elements they have been given and are  *)
(* still sending: an element that leaves the tree then stays in memory,    *)
(* unlinked, until its last reference is released.  A restart loads the    *)
(* collection from its snapshot and redoes log records.                    *)
(***************************************************************************)
EXTENDS BTreeKeys

CONSTANTS
  Readers,      \* clients that may hold elements
  Elems,        \* addresses of elements, numbers
  Bkeys,        \* the bkeys clients use
  Values,       \* 0 .. 2^w - 1: the counters elements hold, w bits wide
  MaxCounts,    \* the maxcounts clients ask for
  Ovflacts,     \* the overflow actions clients ask for
  Attrs,        \* the attributes collections are created with
  BkeyRanges,   \* the maxbkeyranges clients ask for
  Filters,      \* the sets of bkeys an element flag filter may let pass
  Forced        \* forced_btree_ovflact, or "none"

VARIABLES
  phase,   \* "redo": records of the log are redone; "serve": clients are served
  coll,    \* the collection, or NoColl
  at,      \* the element with each bkey of the collection
  elem,    \* the elements
  dead,    \* the elements of an unlinked collection
  held,    \* the elements each client holds, with the values it was given
  lost,    \* history: the bkeys that are missing because of overflow
  unlogged \* history: the TRIMMED flag is up and no log record has raised it

history == <<lost, unlogged>>

vars == <<phase, coll, at, elem, dead, held, history>>

NoColl == [keys |-> {}]

Exists == coll # NoColl

NoElem == [status |-> "free", ref |-> 0, val |-> 0]

FreeElems(e) == {i \in DOMAIN e : e[i].status = "free"}

\* do_btree_elem_alloc; there is memory for it.
do_btree_elem_alloc(e) == Min(FreeElems(e))

NewElem(val) == [status |-> "used", ref |-> 0, val |-> val]

\* An element leaves the tree: it is freed, or waits for its last reference.
Unlink(e, i) ==
  IF e[i].ref > 0 THEN [e EXCEPT ![i].status = "unlink"] ELSE [e EXCEPT ![i] = NoElem]

UnlinkAll(e, S) ==
  [i \in DOMAIN e |-> IF i \in S THEN Unlink(e, i)[i] ELSE e[i]]

Retain(e, S) == [i \in DOMAIN e |-> IF i \in S THEN [e[i] EXCEPT !.ref = @ + 1] ELSE e[i]]

\* do_btree_elem_release
do_btree_elem_release(el) ==
  LET ref == IF el.ref # 0 THEN el.ref - 1 ELSE 0
  IN  IF ref = 0 /\ el.status = "unlink" THEN NoElem ELSE [el EXCEPT !.ref = ref]

\* A client is handed elements: it holds them with the values they have.
Hand(reader, e, S) ==
  held' = [held EXCEPT ![reader] = [i \in S |-> e[i].val]]

Idle(reader) == held[reader] = <<>>

OnlyAt(keys) == [k \in keys |-> at[k]]

\* The history of the collection: bkeys that were trimmed, or refused because
\* they would have been, while they lie outside of the bkeys of the collection
\* on the trimmed side.  A trim by range puts them out of the bkey range.
StillLost(S, c) ==
  {k \in S : \/ c.ovflact = "smallest_trim" /\ \A j \in c.keys : k < j
             \/ c.ovflact = "largest_trim" /\ \A j \in c.keys : k > j}

LostBy(bkey, r) ==
  CASE r.overflow = "range" -> {}
    [] r.overflow = "hidden" -> StillLost(lost \union {bkey}, r.c)
    [] OTHER -> StillLost((lost \ {bkey}) \union r.gone, r.c)

\* The flag that a refused insertion raises is in no log record: the insertion
\* is logged after the check for overflow.  A trim is redone with its record.
UnloggedBy(r) ==
  r.c.trimmed /\ CASE r.overflow = "hidden" -> unlogged \/ ~coll.trimmed
                   [] r.overflow = "count" -> FALSE
                   [] OTHER -> unlogged

Remember(bkey, r) ==
  LET keys == [c |-> r.c, overflow |-> r.overflow, gone |-> coll.keys \ r.c.keys]
  IN  lost' = LostBy(bkey, keys) /\ unlogged' = UnloggedBy(r)

Forget == lost' = {} /\ unlogged' = FALSE

-----------------------------------------------------------------------------
(***************************************************************************)
(* Operations of clients.                                                  *)
(***************************************************************************)

\* An unlinked collection leaves its elements to the delete thread.
do_item_unlink ==
  /\ coll' = NoColl /\ at' = <<>> /\ Forget
  /\ dead' = dead \union {at[k] : k \in coll.keys}

\* _setif_forced_btree_overflow_action
ForcedAct(c) == IF Forced = "none" THEN c ELSE [c EXCEPT !.ovflact = Forced]

btree_struct_create(attr) ==
  /\ phase = "serve" /\ ~Exists
  /\ coll' = ForcedAct(do_btree_item_alloc(attr)) /\ at' = <<>> /\ Forget
  /\ UNCHANGED <<phase, elem, dead, held>>

\* do_btree_elem_insert of element i, which is not in the tree yet.  The bkey
\* type is checked unless the collection is empty and has no maxbkeyrange.
InsertNew(e, i, bkey) ==
  LET bad == (coll.keys # {} \/ coll.maxrange # NoRange) /\ BadBkey(coll, bkey)
      Linked(r) ==
        [ret |-> r.ret, c |-> r.c, gone |-> {at[k] : k \in r.gone},
         overflow |-> r.overflow,
         at |-> [k \in r.c.keys |-> IF k = bkey THEN i ELSE at[k]],
         elem |-> IF r.ret = "SUCCESS" THEN e ELSE [e EXCEPT ![i] = NoElem]]
  IN  IF bad
      THEN [ret |-> "EBADBKEY", c |-> coll, at |-> at, gone |-> {},
            overflow |-> "none", elem |-> [e EXCEPT ![i] = NoElem]]
      ELSE Linked(LinkKey(coll, bkey))

\* btree_elem_insert with the element the client has allocated.  Of a single
\* trimmed element the client may want to be told; the element is then its to
\* release.  The element of a failed insertion is freed by the client.
InsertElem(reader, bkey, val, tell) ==
  /\ phase = "serve" /\ Exists /\ bkey \notin coll.keys
  /\ FreeElems(elem) # {}
  /\ tell => Idle(reader)
  /\ \E i \in {do_btree_elem_alloc(elem)} :
       \E r \in {InsertNew([elem EXCEPT ![i] = NewElem(val)], i, bkey)} :
         LET handed == IF tell /\ r.overflow = "count" THEN r.gone ELSE {} IN
         /\ coll' = r.c /\ at' = r.at
         /\ elem' = UnlinkAll(Retain(r.elem, handed), r.gone)
         /\ IF r.ret = "EBADBKEY" THEN UNCHANGED history ELSE Remember(bkey, r)
         /\ IF tell THEN Hand(reader, elem, handed) ELSE UNCHANGED held
  /\ UNCHANGED <<phase, dead>>

btree_elem_insert(reader, bkey, tell) == InsertElem(reader, bkey, 0, tell)

\* btree_elem_insert of the first element of a collection that is created for
\* it.
btree_elem_insert_create(attr, bkey) ==
  LET i == do_btree_elem_alloc(elem)
      r == LinkKey(ForcedAct(do_btree_item_alloc(attr)), bkey)
  IN  /\ phase = "serve" /\ ~Exists /\ FreeElems(elem) # {}
      /\ coll' = r.c /\ at' = [k \in {bkey} |-> i]
      /\ elem' = [elem EXCEPT ![i] = NewElem(0)]
      /\ UNCHANGED <<phase, dead, held, history>>

\* do_btree_elem_replace: a new element takes the place of the old one.
do_btree_elem_replace(bkey, val) ==
  LET i == do_btree_elem_alloc(elem) IN
  /\ FreeElems(elem) # {}
  /\ elem' = Unlink([elem EXCEPT ![i] = NewElem(val)], at[bkey])
  /\ at' = [at EXCEPT ![bkey] = i]

\* btree_elem_insert that replaces the element (bop upsert).
btree_elem_upsert(bkey, val) ==
  /\ phase = "serve" /\ bkey \in coll.keys
  /\ do_btree_elem_replace(bkey, val)
  /\ UNCHANGED <<phase, coll, dead, held, history>>

InPlace_Mutant(bkey, same) == same

\* An element is changed in place when nobody holds it and its size stays.
InPlace(bkey, same) == elem[at[bkey]].ref = 0 /\ same

Write(bkey, val, same) ==
  IF InPlace(bkey, same)
  THEN elem' = [elem EXCEPT ![at[bkey]].val = val] /\ UNCHANGED at
  ELSE do_btree_elem_replace(bkey, val)

\* do_btree_elem_update
btree_elem_update(bkey, val, same) ==
  /\ phase = "serve" /\ bkey \in coll.keys
  /\ Write(bkey, val, same)
  /\ UNCHANGED <<phase, coll, dead, held, history>>

\* An increment wraps, a decrement stops at 0.
Arithmetic(val, increment, delta) ==
  IF increment THEN (val + delta) % Cardinality(Values)
  ELSE IF delta >= val THEN 0 ELSE val - delta

\* btree_elem_arithmetic of an element that is there, or of one that is created
\* with the initial value.
btree_elem_arithmetic(bkey, increment, delta, same) ==
  /\ phase = "serve" /\ bkey \in coll.keys
  /\ Write(bkey, Arithmetic(elem[at[bkey]].val, increment, delta), same)
  /\ UNCHANGED <<phase, coll, dead, held, history>>

btree_elem_arithmetic_create(bkey, initial) ==
  \E x \in Readers : InsertElem(x, bkey, initial, FALSE)

\* Elements leave the collection by deletion.
Remove(S) ==
  /\ coll' = [coll EXCEPT !.keys = @ \ S]
  /\ at' = OnlyAt(coll.keys \ S)

\* The collection goes with its last element when the client asks for that.
RemoveOrDrop(S, drop) ==
  IF S # {} /\ S = coll.keys /\ drop
  THEN coll' = NoColl /\ at' = <<>> /\ Forget
  ELSE Remove(S) /\ UNCHANGED history

\* The bkeys of an answer.
KeysOf(answer) == {answer.keys[i] : i \in 1 .. Len(answer.keys)}

\* do_btree_elem_delete
Deleted(r, match, count) == KeysOf(do_btree_elem_get(coll, r, match, 0, count))

Ranges == {[from |-> f, to |-> t] : f \in Bkeys, t \in Bkeys}

SameType(r) == Type(r.from) = Type(r.to)

btree_elem_delete(r, match, count, drop) ==
  /\ phase = "serve" /\ coll.keys # {} /\ ~BadBkey(coll, r.from)
  /\ \E S \in {Deleted(r, match, count)} :
       /\ RemoveOrDrop(S, drop)
       /\ elem' = UnlinkAll(elem, {at[k] : k \in S})
  /\ UNCHANGED <<phase, dead, held>>

\* btree_elem_get: the client holds what it is given; with "delete" the
\* elements leave the tree as well.
btree_elem_get(reader, r, match, offset, count, delete, drop) ==
  /\ phase = "serve" /\ Idle(reader)
  /\ Exists /\ coll.readable
  /\ offset < Cardinality(coll.keys) /\ ~BadBkey(coll, r.from)
  /\ \E S \in {KeysOf(do_btree_elem_get(coll, r, match, offset, count))} :
       LET ids == {at[k] : k \in S} IN
       /\ Hand(reader, elem, ids)
       /\ IF delete
          THEN RemoveOrDrop(S, drop) /\ elem' = UnlinkAll(Retain(elem, ids), ids)
          ELSE elem' = Retain(elem, ids) /\ UNCHANGED <<coll, at, history>>
  /\ UNCHANGED <<phase, dead>>

btree_elem_release(reader) ==
  /\ ~Idle(reader)
  /\ elem' = [i \in DOMAIN elem |-> IF i \in DOMAIN held[reader]
                                    THEN do_btree_elem_release(elem[i]) ELSE elem[i]]
  /\ held' = [held EXCEPT ![reader] = <<>>]
  /\ UNCHANGED <<phase, coll, at, dead, history>>

\* Clients that ask for the neighbours of an element, or for elements by their
\* positions, are given a run of consecutive elements (btree_posi_find_with_get
\* and btree_elem_get_by_posi).
GetRun(reader, from, to) ==
  LET s == Sorted(coll.keys)
      ids == {at[s[i]] : i \in from .. to}
  IN  /\ phase = "serve" /\ Idle(reader) /\ Exists /\ coll.readable
      /\ Hand(reader, elem, ids) /\ elem' = Retain(elem, ids)
      /\ UNCHANGED <<phase, coll, at, dead, history>>

btree_posi_find_with_get(reader, bkey, count) ==
  LET i == Cardinality({k \in coll.keys : k <= bkey}) IN
  /\ bkey \in coll.keys
  /\ GetRun(reader, Max({1, i - count}), Min({Cardinality(coll.keys), i + count}))

btree_elem_get_by_posi(reader, from, to) ==
  LET Cut(i) == Min({i, Cardinality(coll.keys) - 1}) + 1 IN
  /\ Min({from, to}) < Cardinality(coll.keys)
  /\ GetRun(reader, Cut(Min({from, to})), Cut(Max({from, to})))

-----------------------------------------------------------------------------
(***************************************************************************)
(* Attributes.                                                             *)
(***************************************************************************)

\* All of the attributes are checked before any is set.
BadRange(c, maxrange, type) ==
  /\ maxrange # NoRange /\ c.keys # {}
  /\ \/ c.bktype # type
     \/ /\ Cardinality(c.keys) >= 2 /\ maxrange # c.maxrange
        /\ Max(c.keys) - Min(c.keys) > maxrange

\* The bkey type of an empty collection is that of its maxbkeyrange.
SetRange(c, maxrange, type) ==
  CASE c.keys # {} \/ (maxrange = NoRange /\ c.maxrange = NoRange) ->
         [c EXCEPT !.maxrange = maxrange]
    [] c.keys = {} /\ maxrange = NoRange /\ c.maxrange # NoRange ->
         [c EXCEPT !.maxrange = maxrange, !.bktype = "unknown"]
    [] OTHER -> [c EXCEPT !.maxrange = maxrange, !.bktype = type]

\* btree_coll_setattr of all attributes: another overflow action clears the
\* TRIMMED flag.  A collection is made readable and never unreadable.
btree_coll_setattr(maxcount, ovflact, maxrange, type) ==
  LET mcnt == do_btree_real_maxcount(maxcount)
      c == [coll EXCEPT !.mcnt = mcnt, !.ovflact = ovflact, !.readable = TRUE,
                        !.trimmed = @ /\ coll.ovflact = ovflact]
  IN  /\ phase = "serve" /\ Exists
      /\ mcnt > 0 => mcnt >= Cardinality(coll.keys)
      /\ ~BadRange(coll, maxrange, type)
      /\ coll' = SetRange(ForcedAct(c), maxrange, type)
      /\ IF coll.ovflact = ovflact THEN UNCHANGED history ELSE Forget
      /\ UNCHANGED <<phase, at, elem, dead, held>>

-----------------------------------------------------------------------------
(***************************************************************************)
(* Unlinking, and recovery.                                                *)
(***************************************************************************)

\* The item is deleted, evicted or has expired.
UnlinkColl ==
  /\ phase = "serve" /\ Exists
  /\ do_item_unlink
  /\ UNCHANGED <<phase, elem, held>>

\* btree_elem_delete_with_count, by the delete thread.
btree_elem_delete_with_count(count) ==
  LET first == CHOOSE S \in SUBSET dead :
                 /\ Cardinality(S) = Min({count, Cardinality(dead)})
                 /\ \A i \in S, j \in dead \ S : i < j
  IN  /\ dead # {}
      /\ dead' = dead \ first
      /\ elem' = UnlinkAll(elem, first)
      /\ UNCHANGED <<phase, coll, at, held, history>>

\* btree_apply_item_link with what the log keeps of the collection's
\* attributes: the bkey type is not among them.
btree_apply_item_link(c) ==
  [ForcedAct(do_btree_item_alloc([maxcount |-> c.mcnt, ovflact |-> c.ovflact,
                                  readable |-> c.readable]))
     EXCEPT !.trimmed = c.trimmed, !.maxrange = c.maxrange]

\* The elements of a snapshot are inserted in the order of their bkeys.
RECURSIVE Load(_, _)
Load(c, s) == IF s = <<>> THEN c ELSE Load(LinkKey(c, Head(s)).c, Tail(s))

\* The TRIMMED flag that the snapshot and the log bring back.  One that is in no
\* log record is in the snapshot only if the snapshot has been taken since.
Recovered == {coll.trimmed} \union (IF unlogged THEN {FALSE} ELSE {})

\* The server stops and starts again: memory has what the snapshot of the
\* collection and the log had.
Restart ==
  /\ phase = "serve" /\ Exists
  /\ phase' = "redo"
  /\ \E up \in Recovered : \E c \in {Load(btree_apply_item_link(
                                      [coll EXCEPT !.trimmed = up]), Sorted(coll.keys))} :
       LET s == Sorted(c.keys) IN
       /\ coll' = c
       /\ at' = [k \in c.keys |-> CHOOSE i \in 1 .. Len(s) : s[i] = k]
       /\ elem' = [i \in DOMAIN elem |->
                      IF i <= Len(s) THEN NewElem(elem[at[s[i]]].val) ELSE NoElem]
       /\ lost' = IF up = coll.trimmed THEN lost ELSE {}
  /\ unlogged' = FALSE
  /\ dead' = {} /\ held' = [r \in Readers |-> <<>>]

\* A record that cannot be redone takes the item with it.
btree_apply_elem_insert(bkey, val) ==
  /\ phase = "redo" /\ Exists /\ FreeElems(elem) # {}
  /\ \E i \in {do_btree_elem_alloc(elem)} :
       \E r \in {InsertNew([elem EXCEPT ![i] = NewElem(val)], i, bkey)} :
         CASE bkey \in coll.keys ->
                /\ do_btree_elem_replace(bkey, val)
                /\ UNCHANGED <<coll, dead, history>>
           [] bkey \notin coll.keys /\ r.ret = "SUCCESS" ->
                /\ coll' = r.c /\ at' = r.at /\ elem' = UnlinkAll(r.elem, r.gone)
                /\ Remember(bkey, r) /\ UNCHANGED dead
           [] OTHER -> do_item_unlink /\ UNCHANGED elem
  /\ UNCHANGED <<phase, held>>

\* btree_apply_elem_delete and btree_apply_elem_delete_logical: a record of a
\* bkey, or of a range.  It may find nothing to delete.
ApplyDelete(r, match, count, drop) ==
  /\ phase = "redo" /\ Exists
  /\ IF coll.keys # {} /\ BadBkey(coll, r.from)
     THEN do_item_unlink /\ UNCHANGED elem
     ELSE \E S \in {IF coll.keys = {} THEN {} ELSE Deleted(r, match, count)} :
            /\ elem' = UnlinkAll(elem, {at[k] : k \in S})
            /\ IF drop /\ S = coll.keys
               THEN coll' = NoColl /\ at' = <<>> /\ Forget
               ELSE Remove(S) /\ UNCHANGED history
            /\ UNCHANGED dead
  /\ UNCHANGED <<phase, held>>

btree_apply_elem_delete(bkey, drop) ==
  ApplyDelete([from |-> bkey, to |-> bkey], Bkeys, 0, drop)

btree_apply_elem_delete_logical(r, match, count, drop) ==
  RangeType(r) # "sin" /\ ApplyDelete(r, match, count, drop)

Serve ==
  /\ phase = "redo" /\ phase' = "serve"
  /\ UNCHANGED <<coll, at, elem, dead, held, history>>

-----------------------------------------------------------------------------
CollInit ==
  /\ phase = "serve" /\ coll = NoColl /\ at = <<>> /\ dead = {}
  /\ lost = {} /\ unlogged = FALSE
  /\ elem = [i \in Elems |-> NoElem]
  /\ held = [r \in Readers |-> <<>>]

SomeRanges == {r \in Ranges : SameType(r)}

CollNext ==
  \/ \E a \in Attrs : btree_struct_create(a)
  \/ \E a \in Attrs, b \in Bkeys : btree_elem_insert_create(a, b)
  \/ \E x \in Readers, b \in Bkeys, t \in BOOLEAN : btree_elem_insert(x, b, t)
  \/ \E b \in Bkeys, v \in Values : btree_elem_upsert(b, v)
  \/ \E b \in Bkeys, v \in Values, same \in BOOLEAN : btree_elem_update(b, v, same)
  \/ \E b \in Bkeys, up, same \in BOOLEAN : btree_elem_arithmetic(b, up, 1, same)
  \/ \E b \in Bkeys, v \in Values : btree_elem_arithmetic_create(b, v)
  \/ \E r \in SomeRanges, m \in Filters, n \in 0 .. 1, drop \in BOOLEAN :
       btree_elem_delete(r, m, n, drop)
  \/ \E x \in Readers, r \in SomeRanges, m \in Filters, n \in 0 .. 1 :
       \/ btree_elem_get(x, r, m, n, n, FALSE, FALSE)
       \/ \E drop \in BOOLEAN : btree_elem_get(x, r, m, n, n, TRUE, drop)
  \/ \E x \in Readers, b \in Bkeys : btree_posi_find_with_get(x, b, 1)
  \/ \E x \in Readers, f, t \in 0 .. 1 : btree_elem_get_by_posi(x, f, t)
  \/ \E x \in Readers : btree_elem_release(x)
  \/ \E n \in MaxCounts, o \in Ovflacts, g \in BkeyRanges, t \in {"uint64", "binary"} :
       btree_coll_setattr(n, o, g, t)
  \/ UnlinkColl
  \/ btree_elem_delete_with_count(1)
  \/ Restart
  \/ \E b \in Bkeys, v \in Values : btree_apply_elem_insert(b, v)
  \/ \E b \in Bkeys, drop \in BOOLEAN : btree_apply_elem_delete(b, drop)
  \/ \E r \in SomeRanges, m \in Filters, n \in 0 .. 1, drop \in BOOLEAN :
       btree_apply_elem_delete_logical(r, m, n, drop)
  \/ Serve

CollSpec == CollInit /\ [][CollNext]_vars

-----------------------------------------------------------------------------
(***************************************************************************)
(* Properties.                                                             *)
(***************************************************************************)

\* Clients send elements without holding the cache lock.  What a client holds
\* is in memory and has the value it was given, whatever is updated, deleted,
\* trimmed or dropped meanwhile; an element has one reference for each client
\* that holds it, and memory has no others than those held or in a tree.
HeldUntouched ==
  /\ \A r \in Readers : \A i \in DOMAIN held[r] :
       elem[i].status # "free" /\ elem[i].val = held[r][i]
  /\ \A i \in Elems :
       LET n == Cardinality({r \in Readers : i \in DOMAIN held[r]})
           linked == i \in dead \union {at[k] : k \in coll.keys}
       IN  /\ elem[i].ref = n
           /\ elem[i].status = IF linked THEN "used"
                               ELSE IF n > 0 THEN "unlink" ELSE "free"

\* "TRIMMED": a get whose range has a bkey that overflow has trimmed, or
\* refused, says so: the flag is kept for as long as it must be, and the scan
\* notices on whichever side, and in whichever direction, it runs into the
\* trimmed space.  A restart keeps this for what was trimmed; what was only
\* refused, it may forget (Recovered).  Of an emptied tree clients are told
\* ELEM_ENOENT whatever was trimmed: btree_elem_get() asks ccnt, not the flag.
GetTells ==
  coll.keys # {} =>
    \A r \in SomeRanges :
      (\E k \in lost : InRange(k, r) /\ ~BadBkey(coll, r.from)) =>
        do_btree_elem_get(coll, r, Bkeys, 0, 0).trimmed

=============================================================================
