---------------------------- MODULE BTreeSmget -----------------------------
(***************************************************************************)
(* Sort-merge get over several b+tree collections (coll_btree.c: smget and *)
(* the old smget).                                                         *)
(*                                                                         *)
(* The first phase sorts scans, one for each collection, by the element    *)
(* each is at, and keeps no more of them than elements are asked for.  The *)
(* second phase merges them.  A collection that lacks trimmed elements is  *)
(* reported as missed when its scan would start among them, and as trimmed *)
(* when its scan runs into them.                                           *)
(***************************************************************************)
EXTENDS BTreeKeys

CONSTANTS
  Keys,         \* the keys of items, numbers in the order of the keys
  Written,      \* those that clients write to
  Bkeys,        \* the bkeys clients use
  Starts,       \* the collections there are at first
  Attrs,        \* the attributes collections are created with
  Requests,     \* the smget requests: [list, range, match, offset, count, unique]
  OldRequests   \* the requests to the old smget

VARIABLE colls  \* the collection at each key, or Absent or OtherType

Absent == [type |-> "none"]

OtherType == [type |-> "other"]

IsColl(c) == c # Absent /\ c # OtherType

Ascending(q) == RangeType(q.range) # "dsc"

\* The elements of all collections in order, for the request being served.
InOrder == [k \in Keys |-> IF IsColl(colls[k]) THEN Sorted(colls[k].keys) ELSE <<>>]

-----------------------------------------------------------------------------
(***************************************************************************)
(* Scans.  A scan is at an element: its key, the place of the key in the   *)
(* request, its position, and whether it is at the end of the range.       *)
(***************************************************************************)

Ahead(q, a, b) == IF Ascending(q) THEN a < b ELSE a > b

Bkey(s, x) == s[x.key][x.posi]

\* BKEY_COMP, then do_btree_comp_hkey.
Precedes(s, q, x, y) ==
  IF Bkey(s, x) = Bkey(s, y) THEN Ahead(q, x.key, y.key)
                             ELSE Ahead(q, Bkey(s, x), Bkey(s, y))

\* The binary search for the place of a scan, and the shift of those behind.
InsertScan(s, q, scans, x) ==
  LET n == Cardinality({i \in 1 .. Len(scans) : Precedes(s, q, scans[i], x)})
  IN  SubSeq(scans, 1, n) \o <<x>> \o SubSeq(scans, n + 1, Len(scans))

\* do_btree_scan_next to the next element that matches.  At the end: the last
\* element passed, and whether the scan ran into trimmed space.
RECURSIVE NextMatch(_, _, _)
NextMatch(s, q, x) ==
  LET bs == s[x.key]
      next == do_btree_scan_next(x.posi, q.range)
      off == next \notin 1 .. Len(bs)
      y == [x EXCEPT !.posi = next, !.bkeq = bs[next] = q.range.to]
  IN  IF x.bkeq \/ off \/ ~InRange(bs[next], q.range)
      THEN [found |-> FALSE, last |-> bs[x.posi],
            trimmed |-> ~x.bkeq /\ off /\ Overlapped(colls[x.key], next, q.range)]
      ELSE IF bs[next] \in q.match THEN [found |-> TRUE, x |-> y]
      ELSE NextMatch(s, q, y)

-----------------------------------------------------------------------------
(***************************************************************************)
(* The first phase.                                                        *)
(***************************************************************************)

\* refs: the references to items that have been taken and not released;
\* slot: the item that the scan buffer being filled names, or 0.
NoScans == [ret |-> "SUCCESS", scans |-> <<>>, miss |-> <<>>, trims |-> <<>>,
            refs |-> [k \in Keys |-> 0], slot |-> 0]

do_item_release(st, key) == [st EXCEPT !.refs[key] = @ - 1]

do_btree_smget_add_miss(st, kidx, code) ==
  [st EXCEPT !.miss = Append(@, [kidx |-> kidx, code |-> code])]

do_btree_smget_add_trim(st, kidx, bkey) ==
  [st EXCEPT !.trims = Append(@, [kidx |-> kidx, bkey |-> bkey])]

DropLast(st) ==
  [do_item_release(st, st.scans[Len(st.scans)].key)
     EXCEPT !.scans = SubSeq(@, 1, Len(@) - 1)]

Twice(s, scans, x) ==
  \E i \in 1 .. Len(scans) : Bkey(s, scans[i]) = Bkey(s, x) /\ scans[i].key = x.key

\* The scan x has found an element.  It takes its place among the others,
\* unless it is behind as many as are needed.  In a unique smget the later of
\* two scans at the same bkey goes on to its next element.
RECURSIVE PlaceScan(_, _, _, _)
PlaceScan(s, q, st, x) ==
  LET full == Len(st.scans) >= q.offset + q.count
      same == {i \in 1 .. Len(st.scans) : Bkey(s, st.scans[i]) = Bkey(s, x)}
      To(st1, y, n) ==
        CASE n.found -> PlaceScan(s, q, st1, n.x)
          [] ~n.found /\ n.trimmed ->
               do_item_release(do_btree_smget_add_trim(st1, y.kidx, n.last), y.key)
          [] OTHER -> do_item_release(st1, y.key)
      GoOn(st1, y) == To(st1, y, NextMatch(s, q, y))
  IN  CASE Twice(s, st.scans, x) ->
             [do_item_release(st, x.key) EXCEPT !.ret = "EBADVALUE", !.slot = 0]
        [] ~Twice(s, st.scans, x) /\ full
             /\ Precedes(s, q, st.scans[Len(st.scans)], x) ->
             [do_item_release(st, x.key) EXCEPT !.slot = 0]
        [] ~Twice(s, st.scans, x) /\ q.unique /\ same # {}
             /\ ~(full /\ Precedes(s, q, st.scans[Len(st.scans)], x)) ->
             LET i == CHOOSE j \in same : TRUE
             IN  IF Precedes(s, q, x, st.scans[i])
                 THEN GoOn([st EXCEPT !.scans[i] = x, !.slot = 0], st.scans[i])
                 ELSE GoOn([st EXCEPT !.slot = x.key], x)
        [] OTHER ->
             [(IF full THEN DropLast(st) ELSE st)
                EXCEPT !.scans = InsertScan(s, q, @, x), !.slot = 0]

\* The first element of the range in the collection, if it matches or not.
FirstScan(key, kidx, first) ==
  [key |-> key, kidx |-> kidx, posi |-> first.posi, bkeq |-> FALSE]

\* The first element from x on that matches.
FirstMatch(s, q, x) ==
  IF Bkey(s, x) \in q.match THEN [found |-> TRUE, x |-> x] ELSE NextMatch(s, q, x)

\* The collection of the kidx-th key of the request cannot be scanned.
Unserved(c) == ~IsColl(c) \/ ~c.readable \/ c.keys = {}

CannotScan(q, st, kidx, c) ==
  CASE c = Absent -> do_btree_smget_add_miss(st, kidx, "KEY_ENOENT")
    [] c = OtherType -> [st EXCEPT !.ret = "EBADTYPE"]
    [] IsColl(c) -> IF ~c.readable THEN do_btree_smget_add_miss(st, kidx, "UNREADABLE")
                                   ELSE st

\* The scan starts in trimmed space.
StartsTrimmed(c, q, first) ==
  ~(first.found /\ first.bkeq) /\ Overlapped(c, first.posi, q.range)

\* The scan of the kidx-th key of the request.
StartScan(s, q, st, kidx) ==
  LET key == q.list[kidx]
      c == colls[key]
      At(n) == IF n.found THEN PlaceScan(s, q, [st EXCEPT !.refs[key] = @ + 1], n.x)
               ELSE IF n.trimmed THEN do_btree_smget_add_trim(st, kidx, n.last)
               ELSE st
      From(first) ==
        IF StartsTrimmed(c, q, first) THEN do_btree_smget_add_miss(st, kidx, "EBKEYOOR")
        ELSE IF ~first.found THEN st
        ELSE At(FirstMatch(s, q, FirstScan(key, kidx, first)))
  IN  IF Unserved(c) THEN CannotScan(q, st, kidx, c)
      ELSE IF BadBkey(c, q.range.from) THEN [st EXCEPT !.ret = "EBADBKEY"]
      ELSE From(do_btree_find_first(c, q.range))

RECURSIVE ReleaseAll(_, _)
ReleaseAll(st, scans) ==
  IF scans = <<>> THEN st
  ELSE ReleaseAll(do_item_release(st, Head(scans).key), Tail(scans))

RECURSIVE do_btree_smget_scan_sort(_, _, _, _)
do_btree_smget_scan_sort(s, q, st, kidx) ==
  IF st.ret # "SUCCESS" THEN ReleaseAll(st, st.scans)
  ELSE IF kidx > Len(q.list) THEN st
  ELSE do_btree_smget_scan_sort(s, q, StartScan(s, q, st, kidx), kidx + 1)

\* The old smget: trimmed space at either end of a scan is an error.
PlaceScanOld(s, q, st, x) ==
  LET full == Len(st.scans) >= q.offset + q.count IN
  CASE Twice(s, st.scans, x) -> [do_item_release(st, x.key) EXCEPT !.ret = "EBADVALUE"]
    [] ~Twice(s, st.scans, x) /\ full
         /\ Precedes(s, q, st.scans[Len(st.scans)], x) -> do_item_release(st, x.key)
    [] OTHER -> [(IF full THEN DropLast(st) ELSE st)
                   EXCEPT !.scans = InsertScan(s, q, @, x)]

StartScanOld(s, q, st, kidx) ==
  LET key == q.list[kidx]
      c == colls[key]
      At(n) == IF n.found THEN PlaceScanOld(s, q, [st EXCEPT !.refs[key] = @ + 1], n.x)
               ELSE IF n.trimmed THEN [st EXCEPT !.ret = "EBKEYOOR"]
               ELSE st
      From(first) ==
        IF StartsTrimmed(c, q, first) THEN [st EXCEPT !.ret = "EBKEYOOR"]
        ELSE IF ~first.found THEN st
        ELSE At(FirstMatch(s, q, FirstScan(key, kidx, first)))
  IN  IF Unserved(c) THEN CannotScan(q, st, kidx, c)
      ELSE IF BadBkey(c, q.range.from) THEN [st EXCEPT !.ret = "EBADBKEY"]
      ELSE From(do_btree_find_first(c, q.range))

RECURSIVE do_btree_smget_scan_sort_old(_, _, _, _)
do_btree_smget_scan_sort_old(s, q, st, kidx) ==
  IF st.ret # "SUCCESS" THEN ReleaseAll(st, st.scans)
  ELSE IF kidx > Len(q.list) THEN st
  ELSE do_btree_smget_scan_sort_old(s, q, StartScanOld(s, q, st, kidx), kidx + 1)

-----------------------------------------------------------------------------
(***************************************************************************)
(* The second phase.                                                       *)
(***************************************************************************)

NoElems(st) == [scans |-> st.scans, prev |-> NoRange, skipped |-> 0, elems |-> <<>>,
                dup |-> FALSE, trims |-> st.trims, trimmed |-> FALSE]

Taken(m, q) == Len(m.elems) >= q.count

\* An element is skipped, as part of the offset, or added to the result.
TakeElem(s, q, m) ==
  LET x == m.scans[1]
      same == Bkey(s, x) = m.prev
  IN  IF m.skipped < q.offset
      THEN [m EXCEPT !.prev = Bkey(s, x), !.skipped = @ + 1]
      ELSE [m EXCEPT !.prev = Bkey(s, x), !.dup = @ \/ (m.elems # <<>> /\ same),
                     !.elems = Append(@, [kidx |-> x.kidx, bkey |-> Bkey(s, x)])]

RECURSIVE MergeElems(_, _, _)
MergeElems(s, q, m) ==
  LET x == m.scans[1]
      rest == Tail(m.scans)
      Step(m1, n) ==
        IF n.found THEN [m1 EXCEPT !.scans = InsertScan(s, q, rest, n.x)]
        ELSE IF n.trimmed
        THEN do_btree_smget_add_trim([m1 EXCEPT !.scans = rest], x.kidx, n.last)
        ELSE [m1 EXCEPT !.scans = rest]
      Go(m1) == IF Taken(m1, q) THEN m1
                ELSE MergeElems(s, q, Step(m1, NextMatch(s, q, x)))
  IN  IF m.scans = <<>> THEN m
      ELSE Go(IF q.unique /\ Bkey(s, x) = m.prev THEN m ELSE TakeElem(s, q, m))

\* The trims in the order of their bkeys, the last one found first among equals.
RECURSIVE SortTrims(_, _)
SortTrims(q, trims) ==
  IF trims = <<>> THEN <<>>
  ELSE LET done == SortTrims(q, Tail(trims))
           t == Head(trims)
           n == Cardinality({i \in 1 .. Len(done) : ~Ahead(q, t.bkey, done[i].bkey)})
       IN  SubSeq(done, 1, n) \o <<t>> \o SubSeq(done, n + 1, Len(done))

do_btree_smget_adjust_trim_Mutant(q, m) == SortTrims(q, m.trims)

\* A trim matters only when the scan ended before the last element returned.
do_btree_smget_adjust_trim(q, m) ==
  LET Valid(t) == Taken(m, q) => Ahead(q, t.bkey, m.elems[Len(m.elems)].bkey)
  IN  SortTrims(q, SelectSeq(m.trims, Valid))

do_btree_smget_elem_sort(s, q, st) ==
  LET Adjusted(m) == [m EXCEPT !.trims = do_btree_smget_adjust_trim(q, m)]
  IN  Adjusted(MergeElems(s, q, NoElems(st)))

\* The old smget ends with the bkey at which a first scan ran into trimmed space.
RECURSIVE MergeElemsOld(_, _, _)
MergeElemsOld(s, q, m) ==
  LET x == m.scans[1]
      rest == Tail(m.scans)
      Step(m1, n) ==
        IF n.found THEN [m1 EXCEPT !.scans = InsertScan(s, q, rest, n.x)]
                   ELSE [m1 EXCEPT !.scans = rest, !.trimmed = @ \/ n.trimmed]
      Go(m1) == IF Taken(m1, q) THEN m1
                ELSE MergeElemsOld(s, q, Step(m1, NextMatch(s, q, x)))
  IN  IF m.scans = <<>> \/ (m.trimmed /\ Bkey(s, x) # m.prev) THEN m
      ELSE Go(TakeElem(s, q, m))

do_btree_smget_elem_sort_old(s, q, st) ==
  LET Cut(m) == [m EXCEPT !.trimmed = @ /\ ~Taken(m, q)]
  IN  Cut(MergeElemsOld(s, q, NoElems(st)))

Failed(st) ==
  [ret |-> st.ret, elems |-> <<>>, dup |-> FALSE, miss |-> st.miss, trims |-> <<>>,
   trimmed |-> FALSE, refs |-> st.refs]

Answer(st, m, refs) ==
  [ret |-> st.ret, elems |-> m.elems, dup |-> m.dup, miss |-> st.miss,
   trims |-> m.trims, trimmed |-> m.trimmed, refs |-> refs]

\* btree_elem_smget: at the end every item a scan buffer names is released.
btree_elem_smget(s, q) ==
  LET Slot(st, after) == IF st.slot = 0 THEN after ELSE do_item_release(after, st.slot)
      Merge(st) ==
        IF st.ret = "SUCCESS"
        THEN Answer(st, do_btree_smget_elem_sort(s, q, st),
                    Slot(st, ReleaseAll(st, st.scans)).refs)
        ELSE Failed(st)
  IN  Merge(do_btree_smget_scan_sort(s, q, NoScans, 1))

btree_elem_smget_old(s, q) ==
  LET Merge(st) ==
        IF st.ret = "SUCCESS"
        THEN Answer(st, do_btree_smget_elem_sort_old(s, q, st),
                    ReleaseAll(st, st.scans).refs)
        ELSE Failed(st)
  IN  Merge(do_btree_smget_scan_sort_old(s, q, NoScans, 1))

-----------------------------------------------------------------------------
(***************************************************************************)
(* The collections as clients change them.                                 *)
(***************************************************************************)

Create(k, attr) ==
  /\ colls[k] = Absent
  /\ colls' = [colls EXCEPT ![k] = do_btree_item_alloc(attr)]

Insert(k, bkey) ==
  /\ IsColl(colls[k]) /\ bkey \notin colls[k].keys
  /\ ~(colls[k].keys # {} /\ BadBkey(colls[k], bkey))
  /\ colls' = [colls EXCEPT ![k] = LinkKey(@, bkey).c]

Delete(k, bkey, drop) ==
  /\ IsColl(colls[k]) /\ bkey \in colls[k].keys
  /\ colls' = [colls EXCEPT ![k] = IF drop /\ @.keys = {bkey} THEN Absent
                                   ELSE [@ EXCEPT !.keys = @ \ {bkey}]]

SmgetInit == colls \in Starts

SmgetNext ==
  \E k \in Written :
    \/ \E a \in Attrs : Create(k, a)
    \/ \E b \in Bkeys : Insert(k, b)
    \/ \E b \in Bkeys, drop \in BOOLEAN : Delete(k, b, drop)

SmgetSpec == SmgetInit /\ [][SmgetNext]_colls

-----------------------------------------------------------------------------
(***************************************************************************)
(* What smget promises.                                                    *)
(***************************************************************************)

InKeys(c, r) == {b \in c.keys : InRange(b, r)}

\* Bkeys between the bkeys of the collection and infinity have been trimmed on
\* this side of the range.
TrimmedBelow(c, bkey) == c.trimmed /\ c.ovflact = "smallest_trim" /\ bkey < Min(c.keys)

TrimmedAbove(c, bkey) == c.trimmed /\ c.ovflact = "largest_trim" /\ bkey > Max(c.keys)

TrimmedAt(c, bkey) == TrimmedBelow(c, bkey) \/ TrimmedAbove(c, bkey)

Served(i, q) ==
  LET c == colls[q.list[i]] IN IsColl(c) /\ c.readable /\ c.keys # {}

\* Where smget cannot tell the elements: the range starts in trimmed space, or
\* all of it is there.
Unknown(i, q) == Served(i, q) /\ LET c == colls[q.list[i]] IN
                 \/ TrimmedAt(c, q.range.from)
                 \/ InKeys(c, q.range) = {} /\ TrimmedAt(c, q.range.to)

LastKey(c, q) ==
  IF Ascending(q) THEN Max(InKeys(c, q.range)) ELSE Min(InKeys(c, q.range))

\* The range ends in trimmed space.
EndsTrimmed(i, q) == Served(i, q) /\ ~Unknown(i, q) /\
  LET c == colls[q.list[i]]
  IN  InKeys(c, q.range) # {} /\ TrimmedAt(c, q.range.to)

\* The only element in the range is its end.  The scan does not notice that:
\* bkeq is reset when it starts.  It steps on, out of the range, and a trim it
\* runs into there is reported although the range has no trimmed bkey.
StepsBeyond(i, q) == Served(i, q) /\ ~Unknown(i, q) /\
  LET c == colls[q.list[i]]
  IN  /\ InKeys(c, q.range) = {q.range.to}
      /\ TrimmedAt(c, IF Ascending(q) THEN q.range.to + 1 ELSE q.range.to - 1)

SaysTrimmed(i, q) == EndsTrimmed(i, q) \/ StepsBeyond(i, q)

\* The elements of all collections that match, in order of bkeys and keys.
AllElems(q) ==
  UNION {{[kidx |-> i, bkey |-> b] :
            b \in InKeys(colls[q.list[i]], q.range) \intersect q.match} :
         i \in {j \in 1 .. Len(q.list) : Served(j, q) /\ ~Unknown(j, q)}}

Earlier(q, x, y) ==
  IF x.bkey = y.bkey THEN Ahead(q, q.list[x.kidx], q.list[y.kidx])
                     ELSE Ahead(q, x.bkey, y.bkey)

Candidates(q) ==
  {x \in AllElems(q) :
     q.unique => \A y \in AllElems(q) : y.bkey = x.bkey => ~Earlier(q, y, x)}

InSequence(q, S) ==
  [n \in 1 .. Cardinality(S) |->
     CHOOSE x \in S : Cardinality({y \in S : Earlier(q, y, x)}) = n - 1]

Window(q, seq) == SubSeq(seq, q.offset + 1, Min({Len(seq), q.offset + q.count}))

Errors(q) ==
  {i \in 1 .. Len(q.list) :
     \/ colls[q.list[i]] = OtherType
     \/ Served(i, q) /\ BadBkey(colls[q.list[i]], q.range.from)}

Missing(i, q) ==
  LET c == colls[q.list[i]]
  IN  c = Absent \/ (IsColl(c) /\ ~c.readable) \/ Unknown(i, q)

Image(seq) == {seq[i] : i \in 1 .. Len(seq)}

NoKeyTwice(q) == Cardinality(Image(q.list)) = Len(q.list)

\* What smget returns for a request that has no errors.
RightAnswer(q, a) ==
  \E want \in {Window(q, InSequence(q, Candidates(q)))} :
    LET told == {i \in 1 .. Len(q.list) :
                   /\ SaysTrimmed(i, q)
                   /\ Len(want) = q.count =>
                        Ahead(q, LastKey(colls[q.list[i]], q), want[Len(want)].bkey)}
    IN  /\ a.ret = "SUCCESS" /\ a.elems = want
        /\ a.dup = \E i \in 2 .. Len(want) : want[i].bkey = want[i - 1].bkey
        /\ {x.kidx : x \in Image(a.miss)} = {i \in 1 .. Len(q.list) : Missing(i, q)}
        /\ {x.kidx : x \in Image(a.trims)} = told /\ Len(a.trims) = Cardinality(told)
        /\ \A i \in 1 .. Len(a.trims) :
             /\ a.trims[i].bkey = LastKey(colls[q.list[a.trims[i].kidx]], q)
             /\ i > 1 => ~Ahead(q, a.trims[i].bkey, a.trims[i - 1].bkey)

\* What the old smget returns: elements up to the first bkey after which some
\* collection lacks trimmed ones.
RightOld(q, a) ==
  LET ends == {i \in 1 .. Len(q.list) : SaysTrimmed(i, q)}
      last == {b \in Bkeys : \E i \in ends :
                 LET S == InKeys(colls[q.list[i]], q.range) \intersect q.match
                 IN  b = IF Ascending(q) THEN Max(S) ELSE Min(S)}
      want == Window(q, InSequence(q, {x \in Candidates(q) :
                                         \A b \in last : ~Ahead(q, b, x.bkey)}))
  IN  IF \E i \in 1 .. Len(q.list) :
           \/ Unknown(i, q)
           \/ SaysTrimmed(i, q) /\ InKeys(colls[q.list[i]], q.range) \intersect q.match = {}
      THEN a.ret = "EBKEYOOR"
      ELSE /\ a.ret = "SUCCESS" /\ a.elems = want
           /\ a.trimmed = (ends # {} /\ Len(want) < q.count)

\* The references to items at the end of a request.  None is kept.  A scan of a
\* unique smget that finds nothing but duplicates releases its item when it
\* ends, and its scan buffer still names the item: unless another scan takes
\* the buffer the item is released again.  This happens to at most one item,
\* once, and to none that has an element of its own among the candidates.
RefsBalanced(q, a) ==
  LET again == {k \in Keys : a.refs[k] # 0} IN
  /\ again # {} => q.unique /\ a.ret = "SUCCESS" /\ Cardinality(again) = 1
  /\ \A k \in again : /\ a.refs[k] = 0 - 1
                      /\ \E x \in AllElems(q) : q.list[x.kidx] = k
                      /\ \A x \in Candidates(q) : q.list[x.kidx] # k

\* btree_elem_smget and btree_elem_smget_old return the elements that sorting
\* all elements of all collections would put into the window of offset and
\* count, although the first phase drops scans and the second stops early.
\* The missed and the trimmed keys are exactly those whose trimmed elements
\* could have changed the answer, and those of StepsBeyond, whose trims lie
\* outside of the range.  No element is returned twice, and the references to
\* items are released once each but for the second release of RefsBalanced.
SmgetExact ==
  /\ \A s \in {InOrder}, q \in Requests : \E a \in {btree_elem_smget(s, q)} :
       /\ NoKeyTwice(q) /\ Errors(q) = {} => RightAnswer(q, a)
       /\ NoKeyTwice(q) /\ Errors(q) # {} => a.ret \in {"EBADTYPE", "EBADBKEY"}
       /\ \A i, j \in 1 .. Len(a.elems) :
            q.list[a.elems[i].kidx] = q.list[a.elems[j].kidx]
              /\ a.elems[i].bkey = a.elems[j].bkey => i = j
       /\ RefsBalanced(q, a)
  /\ \A s \in {InOrder}, q \in OldRequests : \E a \in {btree_elem_smget_old(s, q)} :
       /\ NoKeyTwice(q) /\ Errors(q) = {} => RightOld(q, a)
       /\ \A k \in Keys : a.refs[k] = 0

=============================================================================
