------------------------ MODULE CmdLogReplayProofs ------------------------
(***************************************************************************)
(* The replay of a log file: the proofs of CmdLogReplay's ReplayStable and *)
(* ReplayExact, for any number of commands and crashes, any record lengths *)
(* and whatever bodies look like when they are read as headers.            *)
(*                                                                         *)
(* Both rest on Walk, one iteration of cmdlog_file_apply()'s loop as a     *)
(* relation between two places of a replay.  An iteration depends on the   *)
(* cells it reads and on nothing behind them, and is unique.               *)
(*                                                                         *)
(* ReplayStable: the places the last replay came through are a trail from  *)
(* the start of the file (StableInv).  The server writes behind its end,   *)
(* so the trail stays one, and the next replay has to follow it.           *)
(*                                                                         *)
(* ReplayExact: before the first crash the file and the buffer together    *)
(* are whole commands (Commands).  A replay of the beginning of whole      *)
(* commands is between two records at every iteration, has redone what is  *)
(* logged up to there and has kept the records of the open operation       *)
(* (Boundary); it can only stop where no further command is complete.      *)
(***************************************************************************)
EXTENDS CmdLogReplay, TLAPS

Pairs == Nat \X Nat

Recs ==
  {r \in [type : {"data", "begin", "end"}, op : Nat, i : Nat, body : Nat,
          looks : {"incomplete", "complete", "corrupt", "-"}] :
     r.type # "data" => r.body = 0}

CellSet ==
  {x \in [rec : Recs, part : Nat, last : BOOLEAN] : x.part # 0 => x.rec.looks # "-"}

Places == [pos : Nat, pending : BOOLEAN, kept : Seq(Pairs), redone : Seq(Pairs)]

Types ==
  /\ ops \in Nat
  /\ stream \in Seq(CellSet) /\ file \in Seq(CellSet)
  /\ pos \in 0 .. Len(file)
  /\ apply \in [state : {"loop", "done", "failed"}, pending : BOOLEAN, kept : Seq(Pairs)]
  /\ redone \in Seq(Pairs) /\ base \in Seq(Pairs)

Here == [pos |-> pos, pending |-> apply.pending, kept |-> apply.kept, redone |-> redone]

Start == [pos |-> 0, pending |-> FALSE, kept |-> <<>>, redone |-> <<>>]

\* What a data record at a.pos is redone as, in f.
RedoIn(f, a) ==
  IF \A j \in 1 .. f[a.pos + 1].rec.body :
       /\ f[a.pos + 1 + j].rec = f[a.pos + 1].rec
       /\ f[a.pos + 1 + j].part = j
  THEN << <<f[a.pos + 1].rec.op, f[a.pos + 1].rec.i>> >>
  ELSE Nonsense

Redone(a, b, r) ==
  /\ b.pending = a.pending
  /\ b.redone = IF ~a.pending THEN a.redone \o r ELSE a.redone
  /\ b.kept = IF ~a.pending THEN a.kept ELSE a.kept \o r

\* One iteration of cmdlog_file_apply()'s loop, from a to b, in the file f.
Walk(f, a, b) ==
  /\ b.pos \in Nat /\ a.pos < b.pos /\ b.pos <= Len(f)
  /\ \/ /\ f[a.pos + 1].part = 0 /\ f[a.pos + 1].rec.type = "begin"
        /\ ~a.pending
        /\ b.pos = a.pos + 1 /\ b.pending /\ b.kept = <<>> /\ b.redone = a.redone
     \/ /\ f[a.pos + 1].part = 0 /\ f[a.pos + 1].rec.type = "end"
        /\ a.pending
        /\ b.pos = a.pos + 1 /\ ~b.pending /\ b.kept = <<>> /\ b.redone = a.redone \o a.kept
     \/ /\ f[a.pos + 1].part = 0 /\ f[a.pos + 1].rec.type = "data"
        /\ b.pos = a.pos + 1 + f[a.pos + 1].rec.body
        /\ Redone(a, b, RedoIn(f, a))
     \/ /\ f[a.pos + 1].part # 0 /\ f[a.pos + 1].rec.looks = "complete"
        /\ b.pos = a.pos + 1
        /\ Redone(a, b, Nonsense)

\* The cells of a record are cells.
LEMMA CellsType ==
  ASSUME NEW rec \in Recs, NEW last \in BOOLEAN, rec.body # 0 => rec.looks # "-"
  PROVE Cells(rec, last) \in Seq(CellSet)
<1>1. rec.body \in Nat
  BY Zenon DEF Recs
<1>2. ASSUME NEW j \in 1 .. rec.body + 1
      PROVE [rec |-> rec, part |-> j - 1, last |-> last /\ j = rec.body + 1] \in CellSet
  <2>1. j - 1 \in Nat /\ (j - 1 # 0 => rec.body # 0)
    BY <1>1, <1>2
  <2>2. (last /\ j = rec.body + 1) \in BOOLEAN
    OBVIOUS
  <2> QED BY <2>1, <2>2, Zenon DEF CellSet
<1> QED BY <1>1, <1>2 DEF Cells

\* The records the server generates are records; BEGIN and END have no body.
LEMMA RecTypes ==
  ASSUME NEW op \in Nat, NEW i \in Nat, NEW size \in Nat,
         NEW looks \in {"incomplete", "complete", "corrupt"}
  PROVE /\ Data(op, i, size, looks) \in Recs /\ Data(op, i, size, looks).looks # "-"
        /\ Begin(op) \in Recs /\ Begin(op).body = 0
        /\ End(op) \in Recs /\ End(op).body = 0
BY Zenon DEF Data, Begin, End, Recs

\* The cells of a range deletion are cells.
LEMMA RangeType ==
  ASSUME NEW op \in Nat, NEW size \in Nat,
         NEW looks \in {"incomplete", "complete", "corrupt"}
  PROVE RangeRecs(op, size, looks) \in Seq(CellSet)
<1>1. /\ Cells(Begin(op), FALSE) \in Seq(CellSet)
      /\ Cells(Data(op, 1, size, looks), FALSE) \in Seq(CellSet)
      /\ Cells(Data(op, 2, size, looks), FALSE) \in Seq(CellSet)
      /\ Cells(End(op), TRUE) \in Seq(CellSet)
  BY RecTypes, CellsType, Zenon
<1>2. ASSUME NEW a \in Seq(CellSet), NEW b \in Seq(CellSet), NEW d \in Seq(CellSet),
             NEW e \in Seq(CellSet)
      PROVE a \o b \o d \o e \in Seq(CellSet)
  OBVIOUS
<1> QED BY <1>1, <1>2, Zenon DEF RangeRecs

\* What the body of a new record looks like is one of the three.
LEMMA LooksType ==
  ASSUME NEW looks \in SomeLooks
  PROVE looks \in {"incomplete", "complete", "corrupt"}
BY LogConstants, Zenon DEF LogConstants, SomeLooks

\* The cell at the file position of a replay is one of the file, with a
\* record.
LEMMA FileCell ==
  ASSUME Types, pos < Len(file)
  PROVE /\ file[pos + 1] \in CellSet /\ Hdr \in Recs
        /\ Hdr.body \in Nat /\ pos + 1 \in 1 .. Len(file)
<1>1. pos + 1 \in 1 .. Len(file)
  BY DEF Types
<1>2. file[pos + 1] \in CellSet
  BY <1>1 DEF Types
<1> QED BY <1>1, <1>2, Zenon DEF Hdr, CellSet, Recs

\* What redoing a record does is a sequence of data records.
LEMMA RedoType ==
  ASSUME Types, pos < Len(file)
  PROVE Redo \in Seq(Pairs) /\ Nonsense \in Seq(Pairs)
<1>1. <<Hdr.op, Hdr.i>> \in Pairs /\ <<0, 0>> \in Pairs
  BY FileCell, Zenon DEF Recs, Pairs
<1>2. << <<Hdr.op, Hdr.i>> >> \in Seq(Pairs) /\ << <<0, 0>> >> \in Seq(Pairs)
  BY <1>1
<1> QED BY <1>2, Zenon DEF Redo, Nonsense

\* Generating a record, or those of a range, keeps the types.
LEMMA WritesTyped ==
  ASSUME Types, NEW size \in BodySizes, NEW looks \in SomeLooks,
         WriteData(size, looks) \/ WriteRange(size, looks)
  PROVE Types'
<1>1. /\ ops + 1 \in Nat /\ 1 \in Nat /\ size \in Nat
      /\ looks \in {"incomplete", "complete", "corrupt"}
  BY LogConstants, LooksType DEF Types, LogConstants
<1>2. /\ Cells(Data(ops + 1, 1, size, looks), TRUE) \in Seq(CellSet)
      /\ RangeRecs(ops + 1, size, looks) \in Seq(CellSet)
  BY <1>1, RecTypes, CellsType, RangeType, Zenon
<1>3. stream' \in Seq(CellSet) /\ ops' \in Nat
  <2>1. ASSUME NEW x \in Seq(CellSet), stream' = stream \o x PROVE stream' \in Seq(CellSet)
    BY <2>1 DEF Types
  <2> QED BY <1>1, <1>2, <2>1, Zenon DEF WriteData, WriteRange
<1> QED BY <1>3, Zenon DEF Types, WriteData, WriteRange

\* cmdlog_file_write() moves the file position on, leaves what is before it
\* alone and, at the end of the file, appends.
LEMMA WriteCellTyped ==
  ASSUME Types, WriteCell
  PROVE /\ Types'
        /\ \A k \in 1 .. pos : file'[k] = file[k]
        /\ pos' = pos + 1 /\ Len(file') >= Len(file)
        /\ pos = Len(file) => file' = Append(file, Head(stream))
<1>1. Head(stream) \in CellSet /\ Tail(stream) \in Seq(CellSet)
  BY DEF Types, WriteCell
<1>2. CASE pos < Len(file)
  <2>1. file' = [file EXCEPT ![pos + 1] = Head(stream)]
    BY <1>2, Zenon DEF WriteCell
  <2>2. file' \in Seq(CellSet) /\ Len(file') = Len(file)
    BY <1>1, <1>2, <2>1 DEF Types
  <2>3. \A k \in 1 .. pos : file'[k] = file[k]
    BY <1>2, <2>1 DEF Types
  <2>4. pos' \in 0 .. Len(file')
    BY <1>2, <2>2 DEF Types, WriteCell
  <2>5. Types'
    BY <1>1, <2>2, <2>4, Zenon DEF Types, WriteCell
  <2>6. pos # Len(file) /\ Len(file') >= Len(file)
    BY <1>2, <2>2 DEF Types
  <2> QED BY <2>3, <2>5, <2>6, Zenon DEF WriteCell
<1>3. CASE ~(pos < Len(file))
  <2>1. file' = Append(file, Head(stream)) /\ pos = Len(file)
    BY <1>3 DEF WriteCell, Types
  <2>2. file' \in Seq(CellSet) /\ Len(file') = Len(file) + 1
    BY <1>1, <2>1 DEF Types
  <2> QED BY <1>1, <2>1, <2>2 DEF Types, WriteCell
<1> QED BY <1>2, <1>3, Zenon

Applies == [state : {"loop", "done", "failed"}, pending : BOOLEAN, kept : Seq(Pairs)]

\* Assignments to the local variables of cmdlog_file_apply().
LEMMA ApplyFields ==
  ASSUME NEW a \in Applies, NEW x, NEW y
  PROVE /\ [a EXCEPT !.state = x].state = x
        /\ [a EXCEPT !.state = x].pending = a.pending
        /\ [a EXCEPT !.state = x].kept = a.kept
        /\ [a EXCEPT !.kept = x].state = a.state
        /\ [a EXCEPT !.kept = x].pending = a.pending
        /\ [a EXCEPT !.kept = x].kept = x
        /\ [a EXCEPT !.pending = x, !.kept = y].state = a.state
        /\ [a EXCEPT !.pending = x, !.kept = y].pending = x
        /\ [a EXCEPT !.pending = x, !.kept = y].kept = y
        /\ x \in {"loop", "done", "failed"} => [a EXCEPT !.state = x] \in Applies
        /\ x \in Seq(Pairs) => [a EXCEPT !.kept = x] \in Applies
        /\ x \in BOOLEAN /\ y \in Seq(Pairs) => [a EXCEPT !.pending = x, !.kept = y] \in Applies
BY Zenon DEF Applies

\* An iteration of cmdlog_file_apply() keeps the types.  It is a step of
\* Walk, or the replay ends where no Walk is possible; it fails only at what
\* is no data record.
LEMMA ApplyTyped ==
  ASSUME Types, ApplyEnds \/ ApplyBegin \/ ApplyEnd \/ ApplyRecord \/ ApplyGarbage
  PROVE /\ Types'
        /\ UNCHANGED <<ops, stream, file, base, logged, crashes>>
        /\ apply.state = "loop"
        /\ \/ apply'.state = "loop" /\ Walk(file, Here, Here')
           \/ /\ apply'.state = "failed" /\ ~\E b : Walk(file, Here, b)
              /\ pos < Len(file) /\ (file[pos + 1].part # 0 \/ file[pos + 1].rec.type # "data")
           \/ /\ apply'.state = "done" /\ UNCHANGED <<pos, redone>>
              /\ ~\E b : Walk(file, Here, b)
<1>0. /\ apply \in Applies /\ <<>> \in Seq(Pairs)
      /\ Here.pos = pos /\ Here.pending = apply.pending /\ Here.kept = apply.kept
      /\ Here.redone = redone
      /\ Here'.pos = pos' /\ Here'.pending = apply'.pending /\ Here'.kept = apply'.kept
      /\ Here'.redone = redone'
  BY DEF Types, Applies, Here
<1>1. CASE ApplyEnds
  <2>1. ASSUME NEW b, Walk(file, Here, b) PROVE FALSE
    <3>1. pos < Len(file)
      BY <1>0, <2>1 DEF Walk, Types
    <3>2. Hdr.body \in Nat /\ pos \in Nat /\ Len(file) \in Nat
      BY <3>1, FileCell DEF Types
    <3>3. file[pos + 1].part = 0 /\ ~(pos + 1 + Hdr.body <= Len(file))
      BY <1>1, <3>1, <3>2 DEF ApplyEnds, AtHeader, BodyThere
    <3>4. Hdr.type # "data" => Hdr.body = 0
      BY <3>1, FileCell, Zenon DEF Recs
    <3>5. Hdr.type = "data"
      BY <3>1, <3>2, <3>3, <3>4
    <3>6. b.pos = pos + 1 + Hdr.body /\ b.pos <= Len(file)
      BY <1>0, <2>1, <3>3, <3>5, Zenon DEF Walk, Hdr
    <3> QED BY <3>3, <3>6, Zenon
  <2>2. apply' \in Applies /\ apply'.state = "done"
    BY <1>0, <1>1, ApplyFields, Zenon DEF ApplyEnds
  <2> QED BY <1>1, <2>1, <2>2, Zenon DEF ApplyEnds, StopPos, Types, Applies
<1>2. CASE ApplyBegin
  <2>0. pos < Len(file) /\ file[pos + 1].part = 0 /\ file[pos + 1].rec.type = "begin"
        /\ apply.state = "loop" /\ pos' = pos + 1 /\ redone' = redone
    BY <1>2, Zenon DEF ApplyBegin, AtHeader, Hdr
  <2>1. CASE apply.pending
    <3>0. apply' = [apply EXCEPT !.state = "failed"]
      BY <1>2, <2>1, Zenon DEF ApplyBegin
    <3>1. apply' \in Applies /\ apply'.state = "failed"
      BY <1>0, <3>0, ApplyFields, Zenon
    <3>2. \A b : ~Walk(file, Here, b)
      BY <1>0, <2>0, <2>1, Zenon DEF Walk
    <3> QED BY <1>2, <2>0, <3>1, <3>2 DEF ApplyBegin, Types, Applies
  <2>2. CASE ~apply.pending
    <3>0. apply' = [apply EXCEPT !.pending = TRUE, !.kept = <<>>]
      BY <1>2, <2>2, Zenon DEF ApplyBegin
    <3>1. /\ apply' \in Applies /\ apply'.state = "loop" /\ apply'.pending
          /\ apply'.kept = <<>>
      <4>0. TRUE \in BOOLEAN /\ FALSE \in BOOLEAN
        OBVIOUS
      <4>1. /\ apply' \in Applies /\ apply'.state = "loop" /\ apply'.pending = TRUE
            /\ apply'.kept = <<>>
        BY <1>0, <2>0, <3>0, <4>0, Zenon DEF Applies
      <4> QED BY <4>1, Zenon
    <3>2. Walk(file, Here, Here')
      BY <1>0, <2>0, <2>2, <3>1 DEF Walk, Types
    <3> QED BY <1>2, <2>0, <3>1, <3>2 DEF ApplyBegin, Types, Applies
  <2> QED BY <2>1, <2>2, Zenon
<1>3. CASE ApplyEnd
  <2>0. pos < Len(file) /\ file[pos + 1].part = 0 /\ file[pos + 1].rec.type = "end"
        /\ apply.state = "loop" /\ pos' = pos + 1
    BY <1>3, Zenon DEF ApplyEnd, AtHeader, Hdr
  <2>1. CASE apply.pending
    <3>0. /\ apply' = [apply EXCEPT !.pending = FALSE, !.kept = <<>>]
          /\ redone' = redone \o apply.kept
      BY <1>3, <2>1, Zenon DEF ApplyEnd, AfterEnd
    <3>1. /\ apply' \in Applies /\ apply'.state = "loop" /\ ~apply'.pending
          /\ apply'.kept = <<>>
      <4>0. TRUE \in BOOLEAN /\ FALSE \in BOOLEAN
        OBVIOUS
      <4>1. /\ apply' \in Applies /\ apply'.state = "loop" /\ apply'.pending = FALSE
            /\ apply'.kept = <<>>
        BY <1>0, <2>0, <3>0, <4>0, Zenon DEF Applies
      <4> QED BY <4>1, Zenon
    <3>2. redone' = redone \o apply.kept /\ redone' \in Seq(Pairs)
      <4>1. apply.kept \in Seq(Pairs) /\ redone \in Seq(Pairs)
        BY <1>0, Zenon DEF Types, Applies
      <4> QED BY <3>0, <4>1
    <3>3. Walk(file, Here, Here')
      BY <1>0, <2>0, <2>1, <3>1, <3>2 DEF Walk, Types
    <3> QED BY <1>3, <2>0, <3>1, <3>2, <3>3 DEF ApplyEnd, Types, Applies
  <2>2. CASE ~apply.pending
    <3>0. apply' = [apply EXCEPT !.state = "failed"] /\ redone' = redone
      BY <1>3, <2>2, Zenon DEF ApplyEnd
    <3>1. apply' \in Applies /\ apply'.state = "failed" /\ redone' = redone
      BY <1>0, <3>0, ApplyFields, Zenon
    <3>2. \A b : ~Walk(file, Here, b)
      BY <1>0, <2>0, <2>2, Zenon DEF Walk
    <3> QED BY <1>3, <2>0, <3>1, <3>2 DEF ApplyEnd, Types, Applies
  <2> QED BY <2>1, <2>2, Zenon
<1>4. ASSUME NEW r \in Seq(Pairs),
             redone' = IF RedoNow THEN redone \o r ELSE redone,
             apply' = IF RedoNow THEN apply ELSE [apply EXCEPT !.kept = @ \o r]
      PROVE /\ apply' \in Applies /\ apply'.state = apply.state
            /\ redone' \in Seq(Pairs)
            /\ Redone(Here, Here', r)
  <2>1. redone \o r \in Seq(Pairs) /\ apply.kept \o r \in Seq(Pairs)
    BY <1>0 DEF Types, Applies
  <2>2. CASE apply.pending
    <3>1. apply' = [apply EXCEPT !.kept = @ \o r] /\ redone' = redone
      BY <1>4, <2>2, Zenon DEF RedoNow
    <3>2. /\ apply' \in Applies /\ apply'.state = apply.state
          /\ apply'.pending = apply.pending /\ apply'.kept = apply.kept \o r
      BY <1>0, <2>1, <3>1, ApplyFields, ZenonT(60)
    <3> QED BY <1>0, <2>2, <3>1, <3>2, Zenon DEF Redone, Types
  <2>3. CASE ~apply.pending
    BY <1>0, <1>4, <2>1, <2>3, Zenon DEF Redone, RedoNow
  <2> QED BY <2>2, <2>3, Zenon
<1>5. CASE ApplyRecord
  <2>1. Redo = RedoIn(file, Here)
    BY <1>0, Zenon DEF Redo, RedoIn, BodyIntact, Hdr
  <2>2. pos < Len(file) /\ file[pos + 1].part = 0 /\ file[pos + 1].rec.type = "data"
        /\ apply.state = "loop" /\ pos' = pos + 1 + Hdr.body
        /\ pos + 1 + Hdr.body <= Len(file)
    BY <1>5, Zenon DEF ApplyRecord, AtHeader, Hdr, NextPos, BodyThere
  <2>3. Redo \in Seq(Pairs) /\ Hdr.body \in Nat
    BY <2>2, RedoType, FileCell, Zenon
  <2>4. /\ apply' \in Applies /\ apply'.state = apply.state
        /\ redone' \in Seq(Pairs) /\ Redone(Here, Here', Redo)
    BY <1>4, <1>5, <2>3, Zenon DEF ApplyRecord
  <2>5. Walk(file, Here, Here')
    <3>1. /\ Here'.pos = Here.pos + 1 + file[Here.pos + 1].rec.body
          /\ Here'.pos \in Nat /\ Here.pos < Here'.pos /\ Here'.pos <= Len(file)
      <4>1. Here.pos = pos /\ Here'.pos = pos' /\ pos \in Nat
        BY <1>0 DEF Types
      <4>2. Here'.pos = Here.pos + 1 + Hdr.body
        BY <2>2, <4>1, Zenon
      <4>3. /\ Here'.pos \in Nat /\ Here.pos < Here'.pos /\ Here'.pos <= Len(file)
        BY <2>2, <2>3, <4>1
      <4> QED BY <4>1, <4>2, <4>3, Zenon DEF Hdr
    <3> QED BY <1>0, <2>1, <2>2, <2>4, <3>1, Zenon DEF Walk
  <2>6. pos' \in 0 .. Len(file)
    BY <2>2, <2>3, SMTT(60) DEF Types
  <2> QED BY <1>5, <2>2, <2>4, <2>5, <2>6, Zenon DEF ApplyRecord, Types, Applies
<1>6. CASE ApplyGarbage
  <2>0. pos < Len(file) /\ file[pos + 1].part # 0 /\ apply.state = "loop"
    BY <1>6, Zenon DEF ApplyGarbage
  <2>1. Hdr.looks \in {"incomplete", "complete", "corrupt"}
    BY <2>0, FileCell, Zenon DEF CellSet, Recs, Hdr
  <2>2. Nonsense \in Seq(Pairs)
    BY <2>0, RedoType, Zenon
  <2>3. CASE Hdr.looks # "complete"
    <3>1. /\ apply' \in Applies /\ apply'.state \in {"done", "failed"}
          /\ UNCHANGED <<pos, redone>>
      <4>1. CASE Hdr.looks = "incomplete"
        <5>1. apply' = [apply EXCEPT !.state = "done"] /\ UNCHANGED <<pos, redone>>
          BY <1>6, <4>1, Zenon DEF ApplyGarbage
        <5> QED BY <1>0, <5>1, ApplyFields, Zenon
      <4>2. CASE Hdr.looks = "corrupt"
        <5>1. apply' = [apply EXCEPT !.state = "failed"] /\ UNCHANGED <<pos, redone>>
          BY <1>6, <4>2, Zenon DEF ApplyGarbage
        <5> QED BY <1>0, <5>1, ApplyFields, Zenon
      <4> QED BY <2>1, <2>3, <4>1, <4>2, Zenon
    <3>2. \A b : ~Walk(file, Here, b)
      BY <1>0, <2>0, <2>3, Zenon DEF Walk, Hdr
    <3> QED BY <1>6, <2>0, <3>1, <3>2, Zenon DEF ApplyGarbage, Types, Applies
  <2>4. CASE Hdr.looks = "complete"
    <3>1. /\ pos' = pos + 1
          /\ redone' = IF RedoNow THEN redone \o Nonsense ELSE redone
          /\ apply' = IF RedoNow THEN apply ELSE [apply EXCEPT !.kept = @ \o Nonsense]
      BY <1>6, <2>4, Zenon DEF ApplyGarbage
    <3>2. /\ apply' \in Applies /\ apply'.state = apply.state
          /\ redone' \in Seq(Pairs) /\ Redone(Here, Here', Nonsense)
      BY <1>4, <2>2, <3>1, Zenon
    <3>3. Walk(file, Here, Here')
      BY <1>0, <2>0, <2>4, <3>1, <3>2 DEF Walk, Types, Hdr
    <3> QED BY <1>6, <2>0, <3>1, <3>2, <3>3, SMTT(60) DEF ApplyGarbage, Types, Applies
  <2> QED BY <2>3, <2>4, Zenon
<1> QED BY <1>1, <1>2, <1>3, <1>5, <1>6, Zenon

\* A sequence is a prefix of another if it agrees with it as far as it goes.
LEMMA PrefixPoints ==
  ASSUME NEW S, NEW s \in Seq(S), NEW t \in Seq(S)
  PROVE Begins(s, t) <=> Len(s) <= Len(t) /\ \A k \in 1 .. Len(s) : s[k] = t[k]
<1>1. SubSeq(s, 1, Len(s)) = s
  OBVIOUS
<1>2. ASSUME Len(s) <= Len(t)
      PROVE /\ SubSeq(t, 1, Len(s)) \in Seq(S) /\ Len(SubSeq(t, 1, Len(s))) = Len(s)
            /\ \A k \in 1 .. Len(s) : SubSeq(t, 1, Len(s))[k] = t[k]
  BY <1>2
<1>3. ASSUME Len(s) <= Len(t), \A k \in 1 .. Len(s) : s[k] = t[k]
      PROVE s = SubSeq(t, 1, Len(s))
  <2>1. PICK u : u = SubSeq(t, 1, Len(s))
    BY Zenon
  <2>2. u \in Seq(S) /\ Len(u) = Len(s) /\ \A k \in 1 .. Len(s) : u[k] = s[k]
    BY <1>2, <1>3, <2>1, Zenon
  <2>3. s = u
    BY <2>2
  <2> QED BY <2>1, <2>3, Zenon
<1> QED BY <1>1, <1>2, <1>3, Zenon DEF Begins

\* What is a prefix stays one when the sequence gets longer.
LEMMA PrefixGrows ==
  ASSUME NEW S, NEW s \in Seq(S), NEW t \in Seq(S), NEW r \in Seq(S)
  PROVE /\ Begins(s, s)
        /\ Begins(s, t) => Begins(s, t \o r)
<1>1. Begins(s, s)
  BY PrefixPoints
<1>2. t \o r \in Seq(S) /\ Len(t \o r) = Len(t) + Len(r)
      /\ \A k \in 1 .. Len(t) : (t \o r)[k] = t[k]
  OBVIOUS
<1>3. ASSUME Begins(s, t) PROVE Begins(s, t \o r)
  <2>1. Len(s) <= Len(t) /\ \A k \in 1 .. Len(s) : s[k] = t[k]
    BY <1>3, PrefixPoints
  <2>2. Len(s) \in Nat /\ Len(t) \in Nat /\ Len(r) \in Nat
    OBVIOUS
  <2>3. PICK u \in Seq(S) : u = t \o r
    BY <1>2, Zenon
  <2>4. Len(s) <= Len(u) /\ \A k \in 1 .. Len(s) : s[k] = u[k]
    BY <1>2, <2>1, <2>2, <2>3
  <2>5. Begins(s, u)
    BY <2>4, PrefixPoints, Zenon
  <2> QED BY <2>3, <2>5, Zenon
<1> QED BY <1>1, <1>3, Zenon

\* cmdlog_file_apply() is deterministic: the file and the place decide the
\* next place.
LEMMA WalkUnique ==
  ASSUME NEW f, NEW a \in Places, NEW b \in Places, NEW e \in Places,
         Walk(f, a, b), Walk(f, a, e)
  PROVE b = e
<1>1. b.pos = e.pos /\ b.pending = e.pending /\ b.kept = e.kept /\ b.redone = e.redone
  BY Zenon DEF Walk, Redone, Places
<1> QED BY <1>1 DEF Places

\* An iteration reads no cell behind the place where it ends.
LEMMA WalkLocal ==
  ASSUME NEW f \in Seq(CellSet), NEW g \in Seq(CellSet), NEW a \in Places, NEW b \in Places,
         Walk(f, a, b), b.pos <= Len(g), \A k \in 1 .. b.pos : g[k] = f[k]
  PROVE Walk(g, a, b)
<1>1. a.pos \in Nat /\ b.pos \in Nat /\ a.pos < b.pos /\ b.pos <= Len(f)
  BY Zenon DEF Walk, Places
<1>2. a.pos + 1 \in 1 .. b.pos
  BY <1>1
<1>3. g[a.pos + 1] = f[a.pos + 1]
  BY <1>2, Zenon
<1>4. f[a.pos + 1] \in CellSet
  BY <1>1, <1>2
<1>5. f[a.pos + 1].rec.body \in Nat
  BY <1>4, Zenon DEF CellSet, Recs
<1>6. ASSUME b.pos = a.pos + 1 + f[a.pos + 1].rec.body
      PROVE RedoIn(g, a) = RedoIn(f, a)
  <2>1. ASSUME NEW j \in 1 .. f[a.pos + 1].rec.body
        PROVE g[a.pos + 1 + j] = f[a.pos + 1 + j]
    <3>1. a.pos + 1 + j \in 1 .. b.pos
      <4>1. PICK m \in Nat : m = f[a.pos + 1].rec.body
        BY <1>5, Zenon
      <4>2. b.pos = a.pos + 1 + m /\ j \in 1 .. m
        BY <1>6, <2>1, <4>1, Zenon
      <4> QED BY <1>1, <4>2, SMTT(30)
    <3> QED BY <3>1, Zenon
  <2> QED BY <1>3, <2>1, Zenon DEF RedoIn
<1> QED BY <1>1, <1>3, <1>6, Zenon DEF Walk

\* An iteration takes nothing back of what is redone.
LEMMA WalkGrows ==
  ASSUME NEW a \in Places, NEW b \in Places, NEW f \in Seq(CellSet), Walk(f, a, b),
         NEW s \in Seq(Pairs), Begins(s, a.redone)
  PROVE Begins(s, b.redone)
<1>1. a.redone \in Seq(Pairs) /\ a.kept \in Seq(Pairs) /\ b.redone \in Seq(Pairs)
  BY Zenon DEF Places
<1>2. \/ b.redone = a.redone \/ b.redone = a.redone \o a.kept
      \/ b.redone = a.redone \o RedoIn(f, a) \/ b.redone = a.redone \o Nonsense
  BY Zenon DEF Walk, Redone
<1>3. RedoIn(f, a) \in Seq(Pairs) /\ Nonsense \in Seq(Pairs)
  <2>1. a.pos + 1 \in 1 .. Len(f)
    BY DEF Walk, Places
  <2>2. f[a.pos + 1].rec.op \in Nat /\ f[a.pos + 1].rec.i \in Nat
    <3>1. f[a.pos + 1] \in CellSet
      BY <2>1
    <3> QED BY <3>1, Zenon DEF CellSet, Recs
  <2>3. <<f[a.pos + 1].rec.op, f[a.pos + 1].rec.i>> \in Pairs /\ <<0, 0>> \in Pairs
    BY <2>2, Zenon DEF Pairs
  <2>4. << <<f[a.pos + 1].rec.op, f[a.pos + 1].rec.i>> >> \in Seq(Pairs) /\ << <<0, 0>> >> \in Seq(Pairs)
    BY <2>3
  <2> QED BY <2>4, Zenon DEF RedoIn, Nonsense
<1> QED BY <1>1, <1>2, <1>3, PrefixGrows, Zenon

\* The places a replay has come through, from the start of the file f on.
Trail(f, n, t) ==
  /\ n \in Nat \ {0} /\ t \in [1 .. n -> Places]
  /\ t[1] = Start
  /\ \A k \in 1 .. n - 1 : Walk(f, t[k], t[k + 1])
  /\ \A k \in 1 .. n : t[k].pos <= t[n].pos
  /\ t[n].pos <= Len(f)

OnTrail(n, t) ==
  /\ Trail(file, n, t)
  /\ apply.state = "loop" =>
       \E k \in 1 .. n : /\ Here = t[k]
                         /\ \/ base = t[n].redone
                            \/ k = n /\ Begins(base, redone)
  /\ apply.state = "done" => t[n].pos <= pos /\ redone = t[n].redone

StableInv == Types /\ \E n, t : OnTrail(n, t)

\* The place of the replay is a place.
LEMMA HereType == Types => Here \in Places
BY DEF Types, Here, Places

\* An iteration at the end of a trail makes it longer.
LEMMA TrailExtends ==
  ASSUME NEW f \in Seq(CellSet), NEW n, NEW t, Trail(f, n, t), NEW b \in Places, Walk(f, t[n], b)
  PROVE \E u : Trail(f, n + 1, u) /\ u[n + 1] = b
<1> DEFINE u == [i \in 1 .. n + 1 |-> IF i = n + 1 THEN b ELSE t[i]]
<1>1. n \in Nat /\ n > 0 /\ n + 1 \in Nat \ {0}
  BY DEF Trail
<1>2. u \in [1 .. n + 1 -> Places] /\ u[n + 1] = b /\ u[1] = Start
      /\ \A i \in 1 .. n : u[i] = t[i]
  BY <1>1 DEF Trail
<1>3. ASSUME NEW k \in 1 .. (n + 1) - 1 PROVE Walk(f, u[k], u[k + 1])
  <2>1. CASE k = n
    BY <1>1, <1>2, <2>1
  <2>2. CASE k # n
    <3>1. k \in 1 .. n - 1 /\ k \in 1 .. n /\ k + 1 \in 1 .. n
      BY <1>1, <1>3, <2>2
    <3> QED BY <1>2, <3>1, Zenon DEF Trail
  <2> QED BY <2>1, <2>2, Zenon
<1>4. t[n].pos < b.pos /\ b.pos <= Len(f) /\ b.pos \in Nat /\ t[n].pos \in Nat
  <2>1. n \in 1 .. n
    BY <1>1
  <2>2. t[n] \in Places
    BY <2>1, Zenon DEF Trail
  <2> QED BY <2>2, Zenon DEF Walk, Places
<1>5. ASSUME NEW k \in 1 .. n + 1 PROVE u[k].pos <= u[n + 1].pos
  <2>1. CASE k \in 1 .. n
    <3>1. t[k].pos <= t[n].pos /\ t[k].pos \in Nat
      BY <2>1, Zenon DEF Trail, Places
    <3> QED BY <1>2, <1>4, <2>1, <3>1
  <2>2. CASE k = n + 1
    BY <1>2, <1>4, <2>2
  <2> QED BY <1>1, <1>5, <2>1, <2>2
<1> HIDE DEF u
<1>6. Trail(f, n + 1, u)
  BY <1>1, <1>2, <1>3, <1>4, <1>5, Zenon DEF Trail
<1> QED BY <1>2, <1>6, Zenon

\* A trail stays one if the file changes behind its end.
LEMMA TrailKept ==
  ASSUME NEW f \in Seq(CellSet), NEW g \in Seq(CellSet), NEW n, NEW t, Trail(f, n, t),
         t[n].pos <= Len(g), \A k \in 1 .. t[n].pos : g[k] = f[k]
  PROVE Trail(g, n, t)
<1>1. ASSUME NEW k \in 1 .. n - 1 PROVE Walk(g, t[k], t[k + 1])
  <2>1. k \in 1 .. n /\ k + 1 \in 1 .. n /\ n \in 1 .. n
    BY <1>1 DEF Trail
  <2>2. t[k] \in Places /\ t[k + 1] \in Places /\ Walk(f, t[k], t[k + 1])
        /\ t[k + 1].pos <= t[n].pos /\ t[k + 1].pos \in Nat /\ t[n].pos \in Nat
    BY <1>1, <2>1, Zenon DEF Trail, Places
  <2>3. t[k + 1].pos <= Len(g) /\ \A j \in 1 .. t[k + 1].pos : g[j] = f[j]
    BY <2>2, SMTT(60)
  <2> QED BY <2>2, <2>3, WalkLocal, Zenon
<1> QED BY <1>1, Zenon DEF Trail

\* The first replay starts at the start of its trail.
LEMMA StableInit == Init => StableInv
<1> SUFFICES ASSUME Init PROVE StableInv
  OBVIOUS
<1>1. Types
  BY DEF Init, Types, ApplyStart
<1> DEFINE t == [i \in 1 .. 1 |-> Start]
<1>2. Start \in Places /\ t[1] = Start /\ t \in [1 .. 1 -> Places] /\ Here = t[1] /\ Start.pos = 0
      /\ Start.redone = <<>>
  BY DEF Start, Places, Here, Init, ApplyStart
<1> HIDE DEF t
<1>3. Trail(file, 1, t)
  BY <1>2 DEF Trail, Init
<1>4. OnTrail(1, t)
  BY <1>2, <1>3 DEF OnTrail, Init, ApplyStart
<1> QED BY <1>1, <1>4, Zenon DEF StableInv

\* Every step keeps StableInv, and a replay that ends has redone what the
\* one before it had, first and in the same order.
LEMMA StableStep ==
  ASSUME StableInv, [Next]_vars
  PROVE StableInv' /\ RedoesAgain
<1>1. Types
  BY Zenon DEF StableInv
<1>2. PICK n, t : OnTrail(n, t)
  BY Zenon DEF StableInv
<1>3. /\ n \in Nat \ {0} /\ t \in [1 .. n -> Places] /\ Trail(file, n, t)
      /\ 1 \in 1 .. n /\ n \in 1 .. n
  BY <1>2 DEF OnTrail, Trail
<1>4. t[n] \in Places /\ t[n].pos \in Nat /\ t[n].redone \in Seq(Pairs)
  BY <1>3, Zenon DEF Places
<1>5. ASSUME Types', UNCHANGED <<file, pos, apply, redone, base>>
      PROVE StableInv' /\ RedoesAgain
  BY <1>2, <1>5, Zenon DEF StableInv, OnTrail, Here, RedoesAgain, ReplayEnds
<1>6. CASE UNCHANGED vars
  BY <1>1, <1>5, <1>6, Zenon DEF vars, Types
<1>7. ASSUME NEW size \in BodySizes, NEW looks \in SomeLooks,
             WriteData(size, looks) \/ WriteRange(size, looks)
      PROVE StableInv' /\ RedoesAgain
  <2>1. Types'
    BY <1>1, <1>7, WritesTyped, Zenon
  <2> QED BY <1>5, <1>7, <2>1, Zenon DEF WriteData, WriteRange
<1>8. CASE WriteCell
  <2>1. /\ Types' /\ \A k \in 1 .. pos : file'[k] = file[k]
        /\ pos' = pos + 1 /\ Len(file') >= Len(file)
    BY <1>1, <1>8, WriteCellTyped, Zenon
  <2>2. /\ apply.state = "done" /\ apply' = apply /\ redone' = redone /\ base' = base
    BY <1>8, Zenon DEF WriteCell, Running
  <2>3. /\ pos \in Nat /\ pos <= Len(file) /\ Len(file) \in Nat /\ Len(file') \in Nat
        /\ file \in Seq(CellSet) /\ file' \in Seq(CellSet)
        /\ t[n].pos <= pos /\ redone = t[n].redone
    BY <1>1, <1>2, <2>1, <2>2 DEF Types, OnTrail
  <2>4. t[n].pos <= Len(file') /\ \A k \in 1 .. t[n].pos : file'[k] = file[k]
    BY <1>4, <2>1, <2>3
  <2>5. Trail(file', n, t)
    BY <1>3, <2>3, <2>4, TrailKept, Zenon
  <2>6. OnTrail(n, t)'
    BY <1>4, <2>1, <2>2, <2>3, <2>5 DEF OnTrail
  <2> QED BY <2>1, <2>2, <2>6, Zenon DEF StableInv, RedoesAgain, ReplayEnds
<1>9. CASE Crash
  <2>1. Types'
    BY <1>1, <1>9 DEF Types, Crash, ApplyStart
  <2>2. Here' = Start /\ apply'.state = "loop" /\ base' = redone /\ file' = file
    BY <1>9, Zenon DEF Crash, ApplyStart, Here, Start
  <2>3. redone = t[n].redone /\ apply.state = "done"
    BY <1>2, <1>9, Zenon DEF Crash, Running, OnTrail
  <2>4. t[1] = Start
    BY <1>3, Zenon DEF Trail
  <2>5. OnTrail(n, t)'
    BY <1>3, <2>2, <2>3, <2>4, Zenon DEF OnTrail
  <2> QED BY <2>1, <2>3, <2>5, Zenon DEF StableInv, RedoesAgain, ReplayEnds
<1>10. CASE ApplyEnds \/ ApplyBegin \/ ApplyEnd \/ ApplyRecord \/ ApplyGarbage
  <2>1. /\ Types' /\ UNCHANGED <<file, base>> /\ apply.state = "loop"
        /\ \/ apply'.state = "loop" /\ Walk(file, Here, Here')
           \/ apply'.state = "failed" /\ ~\E b : Walk(file, Here, b)
           \/ /\ apply'.state = "done" /\ UNCHANGED <<pos, redone>>
              /\ ~\E b : Walk(file, Here, b)
    BY <1>1, <1>10, ApplyTyped, Zenon
  <2>2. PICK k \in 1 .. n : /\ Here = t[k]
                            /\ base = t[n].redone \/ (k = n /\ Begins(base, redone))
    BY <1>2, <2>1, Zenon DEF OnTrail
  <2>3. /\ Here \in Places /\ Here' \in Places /\ base \in Seq(Pairs)
        /\ Here.redone = redone /\ Here'.redone = redone' /\ Here.pos = pos /\ Here'.pos = pos'
        /\ redone \in Seq(Pairs) /\ file \in Seq(CellSet)
    BY <1>1, <2>1, HereType DEF Types, Here, Places
  <2>4. k = n => Begins(base, redone)
    BY <2>2, <2>3, PrefixGrows, Zenon
  <2>5. k # n => Walk(file, t[k], t[k + 1]) /\ k + 1 \in 1 .. n
    BY <1>3, <2>2 DEF Trail
  <2>6. CASE apply'.state = "loop" /\ Walk(file, Here, Here')
    <3>1. ~ReplayEnds
      BY <2>6, Zenon DEF ReplayEnds
    <3>2. CASE k # n
      <4>1. Here' = t[k + 1] /\ base = t[n].redone
        BY <1>3, <2>2, <2>3, <2>5, <2>6, <3>2, WalkUnique, Zenon
      <4>2. OnTrail(n, t)'
        BY <1>3, <2>1, <2>5, <2>6, <3>2, <4>1, Zenon DEF OnTrail
      <4> QED BY <2>1, <3>1, <4>2, Zenon DEF StableInv, RedoesAgain
    <3>3. CASE k = n
      <4>1. PICK u : Trail(file, n + 1, u) /\ u[n + 1] = Here'
        BY <1>3, <2>2, <2>3, <2>6, <3>3, TrailExtends, ZenonT(60)
      <4>2. Begins(base, redone')
        BY <2>2, <2>3, <2>4, <2>6, <3>3, WalkGrows, Zenon
      <4>3. n + 1 \in 1 .. n + 1
        BY <1>3
      <4>4. \E j \in 1 .. n + 1 : /\ Here' = u[j]
                                  /\ base' = u[n + 1].redone \/ (j = n + 1 /\ Begins(base', redone'))
        <5>1. base' = base
          BY <2>1, Zenon
        <5> QED BY <4>1, <4>2, <4>3, <5>1, Zenon
      <4>5. OnTrail(n + 1, u)'
        BY <2>1, <2>6, <4>1, <4>4, Zenon DEF OnTrail
      <4> QED BY <2>1, <3>1, <4>5, Zenon DEF StableInv, RedoesAgain
    <3> QED BY <3>2, <3>3, Zenon
  <2>7. CASE /\ apply'.state \in {"done", "failed"} /\ ~\E b : Walk(file, Here, b)
             /\ apply'.state = "done" => UNCHANGED <<pos, redone>>
    <3>1. k = n /\ Begins(base, redone)
      BY <2>2, <2>4, <2>5, <2>7, Zenon
    <3>2. t[n].pos = pos /\ t[n].redone = redone
      BY <2>2, <2>3, <3>1, Zenon
    <3>3. OnTrail(n, t)'
      BY <1>3, <1>4, <2>1, <2>7, <3>2 DEF OnTrail
    <3> QED BY <2>1, <3>1, <3>3, Zenon DEF StableInv, RedoesAgain
  <2> QED BY <2>1, <2>6, <2>7, Zenon
<1> QED BY <1>6, <1>7, <1>8, <1>9, <1>10, Zenon DEF Next

\* The replays after all crashes follow one trail: at every time the places
\* a replay came through lead from the start of the file to where it is, or
\* to where the last one stopped.
THEOREM StableInvariant == Spec => []StableInv
<1>1. ASSUME StableInv, [Next]_vars PROVE StableInv'
  BY <1>1, StableStep, Zenon
<1> QED BY <1>1, StableInit, PTL DEF Spec

\* ReplayStable for any number of crashes and any record lengths: what one
\* restart has redone, cmdlog_file_apply() redoes again at every later
\* restart, first and in the same order.
THEOREM ReplaysAgree == Spec => ReplayStable
<1>1. ASSUME StableInv, [Next]_vars PROVE [RedoesAgain]_vars
  BY <1>1, StableStep, Zenon
<1> QED BY <1>1, StableInvariant, PTL DEF Spec, ReplayStable

-----------------------------------------------------------------------------
(***************************************************************************)
(* What the server writes.                                                 *)
(***************************************************************************)

\* The record at place k of w comes where it may: a command is one data record
\* or a BEGIN, the deletions of two elements and an END, and the last cell of a
\* command, and no other, is marked so.
InTurn(w, k) ==
  LET r == w[k].rec
      ends == w[k + r.body].last
  IN IF k = 1 \/ w[k - 1].last
     THEN \/ r.type = "begin" /\ ~ends
          \/ r.type = "data" /\ r.i = 1 /\ ends
     ELSE /\ r.op = w[k - 1].rec.op
          /\ \/ w[k - 1].rec.type = "begin" /\ r.type = "data" /\ r.i = 1 /\ ~ends
             \/ w[k - 1].rec.type = "data" /\ w[k - 1].rec.i = 1
                /\ r.type = "data" /\ r.i = 2 /\ ~ends
             \/ w[k - 1].rec.type = "data" /\ w[k - 1].rec.i = 2
                /\ r.type = "end" /\ ends

RecordAt(w, k) ==
  LET r == w[k].rec IN
  /\ k + r.body <= Len(w)
  /\ \A j \in 0 .. r.body : w[k + j].rec = r /\ w[k + j].part = j
  /\ \A j \in 0 .. r.body - 1 : ~w[k + j].last
  /\ k + r.body < Len(w) => w[k + r.body + 1].part = 0
  /\ InTurn(w, k)

\* Whole commands, one after the other.
Commands(w) ==
  /\ w \in Seq(CellSet)
  /\ w # <<>> => w[1].part = 0 /\ w[Len(w)].last
  /\ \A k \in 1 .. Len(w) : w[k].part = 0 => RecordAt(w, k)

\* A cell of the file has a record, and the record a length.
LEMMA CellBody ==
  ASSUME NEW w \in Seq(CellSet), NEW k \in 1 .. Len(w)
  PROVE w[k] \in CellSet /\ w[k].rec \in Recs /\ w[k].rec.body \in Nat
<1>1. w[k] \in CellSet
  OBVIOUS
<1> QED BY <1>1, Zenon DEF CellSet, Recs

\* A record has a header cell and as many others as its body is long.
LEMMA CellsLen ==
  ASSUME NEW rec, rec.body \in Nat, NEW last, Cells(rec, last) \in Seq(CellSet)
  PROVE Len(Cells(rec, last)) = rec.body + 1
<1>1. DOMAIN Cells(rec, last) = 1 .. rec.body + 1
  BY Zenon DEF Cells
<1>2. PICK w \in Seq(CellSet) : w = Cells(rec, last)
  OBVIOUS
<1>3. DOMAIN w = 1 .. Len(w) /\ Len(w) \in Nat
  OBVIOUS
<1>4. ASSUME NEW m \in Nat, NEW n \in Nat, 1 .. m = 1 .. n PROVE m = n
  <2>1. m \in 1 .. m \/ m = 0
    OBVIOUS
  <2>2. n \in 1 .. n \/ n = 0
    OBVIOUS
  <2>3. (m \in 1 .. n \/ m = 0) /\ (n \in 1 .. m \/ n = 0)
    BY <1>4, <2>1, <2>2, Zenon
  <2>4. m = 0 => n = 0
    BY <2>3
  <2>5. n = 0 => m = 0
    BY <2>3
  <2> QED BY <2>3, <2>4, <2>5
<1>5. Len(w) = rec.body + 1
  BY <1>1, <1>2, <1>3, <1>4
<1> QED BY <1>2, <1>5, Zenon

\* The cells of a record are numbered, and only the last one of the last
\* record of a command is marked.
LEMMA CellAt ==
  ASSUME NEW rec, NEW k \in 1 .. rec.body + 1
  PROVE /\ Cells(rec, TRUE)[k].rec = rec /\ Cells(rec, TRUE)[k].part = k - 1
        /\ Cells(rec, TRUE)[k].last <=> k = rec.body + 1
        /\ Cells(rec, FALSE)[k].rec = rec /\ Cells(rec, FALSE)[k].part = k - 1
        /\ ~Cells(rec, FALSE)[k].last
<1>1. Cells(rec, TRUE)[k].rec = rec /\ Cells(rec, TRUE)[k].part = k - 1
  BY Zenon DEF Cells
<1>2. Cells(rec, TRUE)[k].last <=> k = rec.body + 1
  BY Zenon DEF Cells
<1>3. Cells(rec, FALSE)[k].rec = rec /\ Cells(rec, FALSE)[k].part = k - 1
  BY Zenon DEF Cells
<1>4. ~Cells(rec, FALSE)[k].last
  BY Zenon DEF Cells
<1> QED BY <1>1, <1>2, <1>3, <1>4, Zenon

\* The cells of a record, with their number.
LEMMA CellsAre ==
  ASSUME NEW rec \in Recs, rec.body # 0 => rec.looks # "-"
  PROVE /\ Len(Cells(rec, TRUE)) = rec.body + 1 /\ Len(Cells(rec, FALSE)) = rec.body + 1
        /\ Cells(rec, TRUE) \in Seq(CellSet) /\ Cells(rec, FALSE) \in Seq(CellSet)
<1>1. rec.body \in Nat
  BY Zenon DEF Recs
<1>2. ASSUME NEW last \in BOOLEAN
      PROVE Len(Cells(rec, last)) = rec.body + 1 /\ Cells(rec, last) \in Seq(CellSet)
  BY <1>1, CellsType, CellsLen, Zenon
<1> QED BY <1>2, Zenon

\* The cells of two sequences written one after the other.
LEMMA JoinAt ==
  ASSUME NEW v \in Seq(CellSet), NEW w \in Seq(CellSet)
  PROVE /\ v \o w \in Seq(CellSet) /\ Len(v \o w) = Len(v) + Len(w)
        /\ \A k \in 1 .. Len(v) : (v \o w)[k] = v[k]
        /\ \A k \in 1 .. Len(w) : (v \o w)[Len(v) + k] = w[k]
OBVIOUS

\* Whole commands after whole commands are whole commands.
LEMMA CommandsJoin ==
  ASSUME NEW v, NEW w, Commands(v), Commands(w)
  PROVE Commands(v \o w)
<1> DEFINE n == Len(v)
           x == v \o w
<1>1. /\ v \in Seq(CellSet) /\ w \in Seq(CellSet) /\ n \in Nat /\ Len(w) \in Nat
      /\ x \in Seq(CellSet) /\ Len(x) = n + Len(w)
      /\ \A k \in 1 .. n : x[k] = v[k]
      /\ \A k \in 1 .. Len(w) : x[n + k] = w[k]
  BY DEF Commands
<1>2. (v = <<>> <=> n = 0) /\ (w = <<>> <=> Len(w) = 0)
  BY <1>1
<1> HIDE DEF x, n
<1>3. ASSUME x # <<>> PROVE x[1].part = 0 /\ x[Len(x)].last
  <2>1. Len(x) > 0
    BY <1>1, <1>3
  <2>2. n > 0 => v[1].part = 0 /\ v[n].last
    BY <1>1, <1>2 DEF Commands, n
  <2>3. Len(w) > 0 => w[1].part = 0 /\ w[Len(w)].last
    BY <1>1, <1>2 DEF Commands
  <2>4. n > 0 => x[1] = v[1] /\ x[n] = v[n]
    BY <1>1
  <2>5. Len(w) > 0 => x[n + 1] = w[1] /\ x[n + Len(w)] = w[Len(w)]
    BY <1>1, SMTT(60)
  <2>6. CASE n > 0 /\ Len(w) > 0
    BY <1>1, <2>2, <2>3, <2>4, <2>5, <2>6, Zenon
  <2>7. CASE n = 0
    BY <1>1, <2>1, <2>3, <2>5, <2>7
  <2>8. CASE Len(w) = 0
    BY <1>1, <2>1, <2>2, <2>4, <2>8
  <2> QED BY <1>1, <2>6, <2>7, <2>8
<1>4. ASSUME NEW k \in 1 .. Len(x), x[k].part = 0 PROVE RecordAt(x, k)
  <2>1. CASE k <= n
    <3>1. k \in 1 .. n /\ x[k] = v[k]
      BY <1>1, <2>1
    <3>2. RecordAt(v, k)
      BY <1>4, <3>1, Zenon DEF Commands, n
    <3>3. v[k].rec.body \in Nat
      BY <1>1, <3>1, CellBody, Zenon DEF n
    <3>4. PICK r : r = v[k].rec
      OBVIOUS
    <3>5. /\ r.body \in Nat /\ k + r.body <= n /\ k \in Nat /\ x[k].rec = r
      BY <1>1, <3>1, <3>2, <3>3, <3>4 DEF RecordAt, n
    <3>6. \A j \in 0 .. r.body : x[k + j] = v[k + j]
      <4>1. ASSUME NEW j \in 0 .. r.body PROVE x[k + j] = v[k + j]
        <5>1. k + j \in 1 .. n
          BY <1>1, <3>1, <3>5, <4>1
        <5> QED BY <1>1, <5>1, Zenon
      <4> QED BY <4>1, Zenon
    <3>7. x[k + r.body] = v[k + r.body] /\ (k > 1 => x[k - 1] = v[k - 1])
      BY <1>1, <3>1, <3>5, <3>6, SMTT(30)
    <3>8. InTurn(x, k)
      <4>1. InTurn(v, k)
        BY <3>2, Zenon DEF RecordAt
      <4>2. k = 1 \/ k > 1
        BY <3>5, <3>1
      <4> QED BY <3>4, <3>5, <3>7, <4>1, <4>2, Zenon DEF InTurn
    <3>9. k + r.body < Len(x) => x[k + r.body + 1].part = 0
      <4>1. CASE k + r.body < n
        <5>1. k + r.body + 1 \in 1 .. n
          BY <1>1, <3>5, <4>1
        <5>2. x[k + r.body + 1] = v[k + r.body + 1]
          BY <1>1, <5>1, Zenon
        <5>3. v[k + r.body + 1].part = 0
          BY <3>2, <3>4, <4>1, Zenon DEF RecordAt, n
        <5> QED BY <5>2, <5>3, Zenon
      <4>2. CASE k + r.body = n /\ Len(w) > 0
        <5>1. x[n + 1] = w[1] /\ w[1].part = 0
          BY <1>1, <1>2, <4>2 DEF Commands
        <5> QED BY <4>2, <5>1, Zenon
      <4>3. k + r.body < Len(x) => k + r.body < n \/ (k + r.body = n /\ Len(w) > 0)
        <5>1. PICK b \in Nat : b = r.body
          BY <3>5, Zenon
        <5>2. k + b <= n /\ k \in Nat /\ n \in Nat /\ Len(w) \in Nat /\ Len(x) = n + Len(w)
          BY <1>1, <3>5, <5>1, Zenon
        <5>3. k + b < Len(x) => k + b < n \/ (k + b = n /\ Len(w) > 0)
          BY <5>2
        <5> QED BY <5>1, <5>3, Zenon
      <4> QED BY <4>1, <4>2, <4>3, Zenon
    <3>10. k + r.body <= Len(x)
      BY <1>1, <3>5
    <3>11. /\ \A j \in 0 .. r.body : x[k + j].rec = r /\ x[k + j].part = j
           /\ \A j \in 0 .. r.body - 1 : ~x[k + j].last
      <4>1. /\ \A j \in 0 .. r.body : v[k + j].rec = r /\ v[k + j].part = j
            /\ \A j \in 0 .. r.body - 1 : ~v[k + j].last
        BY <3>2, <3>4, Zenon DEF RecordAt
      <4>2. \A j \in 0 .. r.body - 1 : j \in 0 .. r.body
        BY <3>5
      <4> QED BY <3>6, <4>1, <4>2, Zenon
    <3> QED BY <3>5, <3>8, <3>9, <3>10, <3>11, Zenon DEF RecordAt
  <2>2. CASE k > n
    <3>1. PICK m \in 1 .. Len(w) : k = n + m /\ x[k] = w[m]
      <4>1. k - n \in 1 .. Len(w) /\ k = n + (k - n)
        BY <1>1, <2>2
      <4> QED BY <1>1, <4>1, Zenon
    <3>2. RecordAt(w, m)
      BY <1>4, <3>1, Zenon DEF Commands
    <3>3. w[m].rec.body \in Nat
      BY <1>1, CellBody, Zenon
    <3>4. PICK r : r = w[m].rec
      OBVIOUS
    <3>5. /\ r.body \in Nat /\ m + r.body <= Len(w) /\ m \in Nat /\ x[k].rec = r
      BY <1>1, <3>1, <3>2, <3>3, <3>4 DEF RecordAt
    <3>6. \A j \in 0 .. r.body : x[k + j] = w[m + j]
      <4>1. ASSUME NEW j \in 0 .. r.body PROVE x[k + j] = w[m + j]
        <5>1. m + j \in 1 .. Len(w) /\ k + j = n + (m + j)
          BY <1>1, <3>1, <3>5, <4>1
        <5> QED BY <1>1, <5>1, Zenon
      <4> QED BY <4>1, Zenon
    <3>7. x[k + r.body] = w[m + r.body]
      <4>1. r.body \in 0 .. r.body
        BY <3>5
      <4> QED BY <3>6, <4>1, Zenon
    <3>8. InTurn(x, k)
      <4>1. CASE m > 1
        <5>1. m - 1 \in 1 .. Len(w) /\ k - 1 = n + (m - 1) /\ k # 1 /\ m # 1
          BY <1>1, <3>1, <4>1
        <5>2. x[k - 1] = w[m - 1]
          BY <1>1, <5>1, Zenon
        <5>9. InTurn(w, m)
          BY <3>2, Zenon DEF RecordAt
        <5> QED BY <3>1, <3>4, <3>7, <5>1, <5>2, <5>9, Zenon DEF InTurn
      <4>2. CASE m = 1
        <5>1. k = 1 \/ x[k - 1].last
          <6>1. CASE n = 0
            BY <1>1, <3>1, <4>2, <6>1
          <6>2. CASE n > 0
            <7>1. k - 1 = n /\ n \in 1 .. n
              BY <1>1, <3>1, <4>2, <6>2
            <7>2. x[n] = v[n] /\ v[n].last
              BY <1>1, <1>2, <6>2, <7>1 DEF Commands, n
            <7> QED BY <7>1, <7>2, Zenon
          <6> QED BY <1>1, <6>1, <6>2
        <5>9. InTurn(w, m)
          BY <3>2, Zenon DEF RecordAt
        <5> QED BY <3>1, <3>4, <3>7, <4>2, <5>1, <5>9, ZenonT(60) DEF InTurn
      <4> QED BY <1>1, <4>1, <4>2
    <3>9. k + r.body < Len(x) => x[k + r.body + 1].part = 0
      <4>1. CASE m + r.body < Len(w)
        <5>1. m + r.body + 1 \in 1 .. Len(w) /\ k + r.body + 1 = n + (m + r.body + 1)
          <6>1. PICK b \in Nat : b = r.body
            BY <3>5, Zenon
          <6>2. m + b + 1 \in 1 .. Len(w) /\ k + b + 1 = n + (m + b + 1)
            <7>1. m + b < Len(w)
              BY <4>1, <6>1, Zenon
            <7>2. k = n + m /\ n \in Nat /\ m \in Nat /\ Len(w) \in Nat
              BY <1>1, <3>1, <3>5
            <7> QED BY <7>1, <7>2
          <6> QED BY <6>1, <6>2, Zenon
        <5>2. x[k + r.body + 1] = w[m + r.body + 1]
          BY <1>1, <5>1
        <5> QED BY <3>2, <3>4, <4>1, <5>2, Zenon DEF RecordAt
      <4> QED BY <1>1, <3>1, <3>5, <4>1
    <3>10. k + r.body <= Len(x)
      BY <1>1, <3>1, <3>5
    <3>11. /\ \A j \in 0 .. r.body : x[k + j].rec = r /\ x[k + j].part = j
           /\ \A j \in 0 .. r.body - 1 : ~x[k + j].last
      <4>1. /\ \A j \in 0 .. r.body : w[m + j].rec = r /\ w[m + j].part = j
            /\ \A j \in 0 .. r.body - 1 : ~w[m + j].last
        BY <3>2, <3>4, Zenon DEF RecordAt
      <4>2. \A j \in 0 .. r.body - 1 : j \in 0 .. r.body
        BY <3>5
      <4> QED BY <3>6, <4>1, <4>2, Zenon
    <3> QED BY <3>5, <3>8, <3>9, <3>10, <3>11, Zenon DEF RecordAt
  <2> QED BY <1>1, <2>1, <2>2
<1>5. Commands(x)
  BY <1>1, <1>3, <1>4, Zenon DEF Commands
<1> QED BY <1>5, Zenon DEF x

\* The cells of a command with one record are a whole command.
LEMMA DataCommand ==
  ASSUME NEW op \in Nat, NEW size \in Nat,
         NEW looks \in {"incomplete", "complete", "corrupt"}
  PROVE Commands(Cells(Data(op, 1, size, looks), TRUE))
<1> DEFINE r == Data(op, 1, size, looks)
           w == Cells(r, TRUE)
<1>1. /\ r \in Recs /\ r.body = size /\ r.type = "data" /\ r.i = 1 /\ r.looks # "-"
  BY Zenon DEF Data, Recs
<1>2. w \in Seq(CellSet)
  BY <1>1, CellsType, Zenon
<1>3. /\ Len(w) = size + 1
      /\ \A k \in 1 .. size + 1 : w[k].rec = r /\ w[k].part = k - 1 /\ (w[k].last <=> k = size + 1)
  <2>1. Len(Cells(r, TRUE)) = r.body + 1
    BY <1>1, CellsAre, Zenon
  <2> HIDE DEF r
  <2>2. ASSUME NEW k \in 1 .. r.body + 1
        PROVE w[k].rec = r /\ w[k].part = k - 1 /\ (w[k].last <=> k = r.body + 1)
    BY CellAt, ZenonT(60)
  <2> HIDE DEF w
  <2> QED BY <1>1, <2>1, <2>2, Zenon DEF w
<1> HIDE DEF r, w
<1>4. w[1].part = 0 /\ w[Len(w)].last
  BY <1>3
<1>5. ASSUME NEW k \in 1 .. Len(w), w[k].part = 0 PROVE RecordAt(w, k)
  <2>1. k = 1 /\ w[1].rec = r
    BY <1>3, <1>5
  <2>2. \A j \in 0 .. size : w[1 + j].rec = r /\ w[1 + j].part = j
    BY <1>3
  <2>3. \A j \in 0 .. size - 1 : ~w[1 + j].last
    BY <1>3
  <2>4. w[1 + size].last /\ 1 + size = Len(w) /\ Len(w) \in Nat
    BY <1>3
  <2>5. InTurn(w, 1)
    BY <1>1, <2>1, <2>4, Zenon DEF InTurn
  <2> QED BY <1>1, <2>1, <2>2, <2>3, <2>4, <2>5 DEF RecordAt
<1>6. Commands(w)
  BY <1>2, <1>4, <1>5, Zenon DEF Commands
<1> QED BY <1>6, Zenon DEF r, w

\* w is the cells of a range deletion.
RangeAre(w, op, size, looks) ==
  /\ w \in Seq(CellSet) /\ Len(w) = 2 * size + 4
  /\ w[1].rec = Begin(op) /\ w[1].part = 0 /\ ~w[1].last
  /\ \A k \in 2 .. size + 2 :
       w[k].rec = Data(op, 1, size, looks) /\ w[k].part = k - 2 /\ ~w[k].last
  /\ \A k \in size + 3 .. 2 * size + 3 :
       w[k].rec = Data(op, 2, size, looks) /\ w[k].part = k - size - 3 /\ ~w[k].last
  /\ w[2 * size + 4].rec = End(op) /\ w[2 * size + 4].part = 0 /\ w[2 * size + 4].last

\* The cells of a range deletion, one by one: BEGIN, two deletions, END.
LEMMA RangeCells ==
  ASSUME NEW op \in Nat, NEW size \in Nat,
         NEW looks \in {"incomplete", "complete", "corrupt"}
  PROVE RangeAre(RangeRecs(op, size, looks), op, size, looks)
<1> DEFINE A == Cells(Begin(op), FALSE)
           B == Cells(Data(op, 1, size, looks), FALSE)
           D == Cells(Data(op, 2, size, looks), FALSE)
           E == Cells(End(op), TRUE)
<1>1. A \in Seq(CellSet) /\ B \in Seq(CellSet) /\ D \in Seq(CellSet) /\ E \in Seq(CellSet)
  BY RecTypes, CellsType, Zenon
<1>2. Len(A) = 1 /\ A[1].rec = Begin(op) /\ A[1].part = 0 /\ ~A[1].last
  <2>1. Begin(op) \in Recs /\ Begin(op).body = 0
    BY RecTypes, Zenon
  <2>2. Len(A) = Begin(op).body + 1
    BY <2>1, CellsAre, Zenon
  <2>3. ASSUME NEW k \in 1 .. Begin(op).body + 1
        PROVE A[k].rec = Begin(op) /\ A[k].part = k - 1 /\ ~A[k].last
    BY CellAt, ZenonT(60)
  <2> HIDE DEF A
  <2> QED BY <2>1, <2>2, <2>3
<1>3. Len(E) = 1 /\ E[1].rec = End(op) /\ E[1].part = 0 /\ E[1].last
  <2>1. End(op) \in Recs /\ End(op).body = 0
    BY RecTypes, Zenon
  <2>2. Len(E) = End(op).body + 1
    BY <2>1, CellsAre, Zenon
  <2>3. ASSUME NEW k \in 1 .. End(op).body + 1
        PROVE E[k].rec = End(op) /\ E[k].part = k - 1 /\ (E[k].last <=> k = End(op).body + 1)
    BY CellAt, ZenonT(60)
  <2> HIDE DEF E
  <2> QED BY <2>1, <2>2, <2>3
<1>4. Data(op, 1, size, looks).body = size /\ Data(op, 2, size, looks).body = size
  BY Zenon DEF Data
<1>5. Len(B) = size + 1 /\ \A k \in 1 .. size + 1 :
        B[k].rec = Data(op, 1, size, looks) /\ B[k].part = k - 1 /\ ~B[k].last
  <2>1. Data(op, 1, size, looks) \in Recs /\ Data(op, 1, size, looks).looks # "-"
    BY RecTypes, Zenon
  <2>2. Len(B) = Data(op, 1, size, looks).body + 1
    BY <2>1, CellsAre, Zenon
  <2>3. ASSUME NEW k \in 1 .. Data(op, 1, size, looks).body + 1
        PROVE B[k].rec = Data(op, 1, size, looks) /\ B[k].part = k - 1 /\ ~B[k].last
    BY CellAt, ZenonT(60)
  <2> HIDE DEF B
  <2> QED BY <1>4, <2>2, <2>3, Zenon
<1>6. Len(D) = size + 1 /\ \A k \in 1 .. size + 1 :
        D[k].rec = Data(op, 2, size, looks) /\ D[k].part = k - 1 /\ ~D[k].last
  <2>1. Data(op, 2, size, looks) \in Recs /\ Data(op, 2, size, looks).looks # "-"
    BY RecTypes, Zenon
  <2>2. Len(D) = Data(op, 2, size, looks).body + 1
    BY <2>1, CellsAre, Zenon
  <2>3. ASSUME NEW k \in 1 .. Data(op, 2, size, looks).body + 1
        PROVE D[k].rec = Data(op, 2, size, looks) /\ D[k].part = k - 1 /\ ~D[k].last
    BY CellAt, ZenonT(60)
  <2> HIDE DEF D
  <2> QED BY <1>4, <2>2, <2>3, Zenon
<1>7. RangeRecs(op, size, looks) = A \o B \o D \o E
  BY Zenon DEF RangeRecs
<1> HIDE DEF A, B, D, E
<1>8. PICK ab : ab = A \o B
  BY Zenon
<1>9. /\ ab \in Seq(CellSet) /\ Len(ab) = size + 2 /\ ab[1] = A[1]
      /\ \A k \in 1 .. size + 1 : ab[k + 1] = B[k]
  <2>1. /\ ab \in Seq(CellSet) /\ Len(ab) = 1 + (size + 1)
        /\ \A k \in 1 .. 1 : ab[k] = A[k]
        /\ \A k \in 1 .. size + 1 : ab[1 + k] = B[k]
    <3>1. /\ ab \in Seq(CellSet) /\ Len(ab) = Len(A) + Len(B)
          /\ \A k \in 1 .. Len(A) : ab[k] = A[k]
          /\ \A k \in 1 .. Len(B) : ab[Len(A) + k] = B[k]
      <4>1. A \in Seq(CellSet) /\ B \in Seq(CellSet)
        BY <1>1, Zenon
      <4> QED BY <1>8, <4>1, JoinAt, Zenon
    <3> QED BY <1>2, <1>5, <3>1, Zenon
  <2> QED BY <2>1
<1>10. PICK abd : abd = ab \o D
  BY Zenon
<1>11. /\ abd \in Seq(CellSet) /\ Len(abd) = 2 * size + 3
       /\ \A k \in 1 .. size + 2 : abd[k] = ab[k]
       /\ \A k \in 1 .. size + 1 : abd[k + size + 2] = D[k]
  <2>1. /\ abd \in Seq(CellSet) /\ Len(abd) = (size + 2) + (size + 1)
        /\ \A k \in 1 .. size + 2 : abd[k] = ab[k]
        /\ \A k \in 1 .. size + 1 : abd[(size + 2) + k] = D[k]
    <3>1. /\ abd \in Seq(CellSet) /\ Len(abd) = Len(ab) + Len(D)
          /\ \A k \in 1 .. Len(ab) : abd[k] = ab[k]
          /\ \A k \in 1 .. Len(D) : abd[Len(ab) + k] = D[k]
      <4>1. ab \in Seq(CellSet) /\ D \in Seq(CellSet)
        BY <1>1, <1>9, Zenon
      <4> QED BY <1>10, <4>1, JoinAt, Zenon
    <3> QED BY <1>6, <1>9, <3>1, Zenon
  <2>2. \A k \in 1 .. size + 1 : (size + 2) + k = k + size + 2
    OBVIOUS
  <2> QED BY <2>1, <2>2
<1>12. PICK x : x = abd \o E
  BY Zenon
<1>13. /\ x \in Seq(CellSet) /\ Len(x) = 2 * size + 4
       /\ \A k \in 1 .. 2 * size + 3 : x[k] = abd[k]
       /\ x[2 * size + 4] = E[1]
  <2>1. /\ x \in Seq(CellSet) /\ Len(x) = (2 * size + 3) + 1
        /\ \A k \in 1 .. 2 * size + 3 : x[k] = abd[k]
        /\ \A k \in 1 .. 1 : x[(2 * size + 3) + k] = E[k]
    <3>1. /\ x \in Seq(CellSet) /\ Len(x) = Len(abd) + Len(E)
          /\ \A k \in 1 .. Len(abd) : x[k] = abd[k]
          /\ \A k \in 1 .. Len(E) : x[Len(abd) + k] = E[k]
      <4>1. abd \in Seq(CellSet) /\ E \in Seq(CellSet)
        BY <1>1, <1>11, Zenon
      <4> QED BY <1>12, <4>1, JoinAt, Zenon
    <3> QED BY <1>3, <1>11, <3>1, Zenon
  <2> QED BY <2>1
<1>14. x = RangeRecs(op, size, looks)
  BY <1>7, <1>8, <1>10, <1>12, Zenon
<1>15. x[1] = A[1]
  BY <1>9, <1>11, <1>13
<1>16. ASSUME NEW k \in 2 .. size + 2 PROVE x[k] = B[k - 1] /\ k - 1 \in 1 .. size + 1
  <2>1. k - 1 \in 1 .. size + 1 /\ (k - 1) + 1 = k /\ k \in 1 .. size + 2 /\ k \in 1 .. 2 * size + 3
    BY <1>16
  <2> QED BY <1>9, <1>11, <1>13, <2>1, SMTT(60)
<1>17. ASSUME NEW k \in size + 3 .. 2 * size + 3
       PROVE x[k] = D[k - size - 2] /\ k - size - 2 \in 1 .. size + 1
  <2>1. /\ k - size - 2 \in 1 .. size + 1 /\ (k - size - 2) + size + 2 = k
        /\ k \in 1 .. 2 * size + 3
    BY <1>17
  <2> QED BY <1>11, <1>13, <2>1, Zenon
<1>18. \A k \in 2 .. size + 2 :
         x[k].rec = Data(op, 1, size, looks) /\ x[k].part = k - 2 /\ ~x[k].last
  BY <1>5, <1>16
<1>19. \A k \in size + 3 .. 2 * size + 3 :
         x[k].rec = Data(op, 2, size, looks) /\ x[k].part = k - size - 3 /\ ~x[k].last
  BY <1>6, <1>17
<1>20. /\ x[1].rec = Begin(op) /\ x[1].part = 0 /\ ~x[1].last
       /\ x[2 * size + 4].rec = End(op) /\ x[2 * size + 4].part = 0 /\ x[2 * size + 4].last
  BY <1>2, <1>3, <1>13, <1>15, Zenon
<1>21. RangeAre(x, op, size, looks)
  BY <1>13, <1>18, <1>19, <1>20, Zenon DEF RangeAre
<1> QED BY <1>14, <1>21, Zenon

\* The cells of a range deletion are a whole command.
LEMMA RangeCommand ==
  ASSUME NEW op \in Nat, NEW size \in Nat,
         NEW looks \in {"incomplete", "complete", "corrupt"}
  PROVE Commands(RangeRecs(op, size, looks))
<1>1. PICK w : w = RangeRecs(op, size, looks)
  OBVIOUS
<1>2. PICK r1, r2 : r1 = Data(op, 1, size, looks) /\ r2 = Data(op, 2, size, looks)
  OBVIOUS
<1>3. /\ r1.type = "data" /\ r1.op = op /\ r1.i = 1 /\ r1.body = size
      /\ r2.type = "data" /\ r2.op = op /\ r2.i = 2 /\ r2.body = size
      /\ Begin(op).type = "begin" /\ Begin(op).op = op /\ Begin(op).body = 0
      /\ End(op).type = "end" /\ End(op).op = op /\ End(op).body = 0
  BY <1>2, Zenon DEF Data, Begin, End
<1>4. /\ w \in Seq(CellSet) /\ Len(w) = 2 * size + 4
      /\ w[1].rec = Begin(op) /\ w[1].part = 0 /\ ~w[1].last
      /\ \A k \in 2 .. size + 2 : w[k].rec = r1 /\ w[k].part = k - 2 /\ ~w[k].last
      /\ \A k \in size + 3 .. 2 * size + 3 :
           w[k].rec = r2 /\ w[k].part = k - size - 3 /\ ~w[k].last
      /\ w[2 * size + 4].rec = End(op) /\ w[2 * size + 4].part = 0 /\ w[2 * size + 4].last
  <2>1. RangeAre(w, op, size, looks)
    BY <1>1, RangeCells, Zenon
  <2> QED BY <1>2, <2>1, Zenon DEF RangeAre
<1>5. w[1].part = 0 /\ w[Len(w)].last
  BY <1>4, Zenon
<1>6. RecordAt(w, 1)
  <2>1. w[2].part = 0
    BY <1>4
  <2>2. InTurn(w, 1)
    BY <1>3, <1>4 DEF InTurn
  <2>3. /\ \A j \in 0 .. 0 : w[1 + j].rec = Begin(op) /\ w[1 + j].part = j
        /\ \A j \in 0 .. 0 - 1 : ~w[1 + j].last
        /\ 1 + 0 <= Len(w) /\ w[1 + 0 + 1].part = 0
    BY <1>4, <2>1
  <2> QED BY <1>3, <1>4, <2>2, <2>3 DEF RecordAt
<1>7. RecordAt(w, 2)
  <2>1. w[2].rec = r1 /\ w[2 + size].rec = r1 /\ ~w[2 + size].last /\ w[size + 3].part = 0
    BY <1>4
  <2>2. InTurn(w, 2)
    BY <1>3, <1>4, <2>1 DEF InTurn
  <2>3. ASSUME NEW j \in 0 .. size PROVE w[2 + j].rec = r1 /\ w[2 + j].part = j /\ ~w[2 + j].last
    <3>1. 2 + j \in 2 .. size + 2 /\ (2 + j) - 2 = j
      OBVIOUS
    <3> QED BY <1>4, <3>1, Zenon
  <2>4. 2 + size <= Len(w) /\ w[2 + size + 1].part = 0 /\ \A j \in 0 .. size - 1 : j \in 0 .. size
    BY <1>4, <2>1
  <2> QED BY <1>3, <2>1, <2>2, <2>3, <2>4, Zenon DEF RecordAt
<1>8. RecordAt(w, size + 3)
  <2> DEFINE h == size + 3
  <2>1. /\ w[h].rec = r2 /\ w[h + size].rec = r2 /\ ~w[h + size].last
        /\ w[h - 1].rec = r1 /\ ~w[h - 1].last /\ h # 1
        /\ w[h + size + 1].part = 0 /\ h + size <= Len(w)
    BY <1>4
  <2>3. ASSUME NEW j \in 0 .. size PROVE w[h + j].rec = r2 /\ w[h + j].part = j /\ ~w[h + j].last
    <3>1. h + j \in size + 3 .. 2 * size + 3 /\ (h + j) - size - 3 = j
      OBVIOUS
    <3> QED BY <1>4, <3>1, Zenon
  <2>4. \A j \in 0 .. size - 1 : j \in 0 .. size
    OBVIOUS
  <2> HIDE DEF h
  <2>2. InTurn(w, h)
    BY <1>3, <2>1, Zenon DEF InTurn
  <2>5. RecordAt(w, h)
    BY <1>3, <2>1, <2>2, <2>3, <2>4, Zenon DEF RecordAt
  <2> QED BY <2>5, Zenon DEF h
<1>9. RecordAt(w, 2 * size + 4)
  <2> DEFINE h == 2 * size + 4
  <2>0. h - 1 = 2 * size + 3 /\ h \in Nat /\ h # 1 /\ 2 * size + 3 \in size + 3 .. 2 * size + 3
    OBVIOUS
  <2>1. /\ w[h].rec = End(op) /\ w[h].part = 0 /\ w[h].last /\ h \in Nat
        /\ w[h - 1].rec = r2 /\ ~w[h - 1].last /\ h # 1 /\ h = Len(w)
    BY <1>4, <2>0, Zenon
  <2> HIDE DEF h
  <2>2. InTurn(w, h)
    <3>1. h + 0 = h
      BY <2>1
    <3> QED BY <1>3, <2>1, <3>1, Zenon DEF InTurn
  <2>3. /\ \A j \in 0 .. 0 : w[h + j].rec = End(op) /\ w[h + j].part = j
        /\ \A j \in 0 .. 0 - 1 : ~w[h + j].last
        /\ h + 0 <= Len(w) /\ ~(h + 0 < Len(w))
    BY <2>1
  <2>4. RecordAt(w, h)
    <3>1. End(op).body = 0
      BY <1>3, Zenon
    <3> QED BY <2>1, <2>2, <2>3, <3>1, Zenon DEF RecordAt
  <2> QED BY <2>4, Zenon DEF h
<1>10. ASSUME NEW k \in 1 .. Len(w), w[k].part = 0 PROVE RecordAt(w, k)
  <2>1. k \in 2 .. size + 2 => k = 2
    BY <1>4, <1>10
  <2>2. k \in size + 3 .. 2 * size + 3 => k = size + 3
    BY <1>4, <1>10
  <2>3. k = 1 \/ k = 2 \/ k = size + 3 \/ k = 2 * size + 4
    BY <1>4, <1>10, <2>1, <2>2
  <2> QED BY <1>6, <1>7, <1>8, <1>9, <2>3, Zenon
<1>11. Commands(w)
  BY <1>4, <1>5, <1>10, Zenon DEF Commands
<1> QED BY <1>1, <1>11, Zenon

(***************************************************************************)
(* The replay of whole commands.                                           *)
(***************************************************************************)

\* L[k] is what the first k cells of f log.
LogFn(f, L) ==
  /\ L \in [0 .. Len(f) -> Seq(Pairs)] /\ L[0] = <<>>
  /\ \A k \in 1 .. Len(f) :
       L[k] = IF f[k].last THEN L[k - 1] \o DataOf(f[k]) ELSE L[k - 1]
  /\ \A p, q \in 0 .. Len(f) :
       p <= q /\ (\A k \in p + 1 .. q : ~f[k].last) => L[p] = L[q]

\* The data records of a command are data records.
LEMMA DataOfType == ASSUME NEW x \in CellSet PROVE DataOf(x) \in Seq(Pairs)
<1>1. x.rec.op \in Nat /\ x.rec.i \in Nat
  BY Zenon DEF CellSet, Recs
<1>2. <<x.rec.op, 1>> \in Pairs /\ <<x.rec.op, 2>> \in Pairs /\ <<x.rec.op, x.rec.i>> \in Pairs
  BY <1>1, Zenon DEF Pairs
<1>3. /\ << <<x.rec.op, 1>>, <<x.rec.op, 2>> >> \in Seq(Pairs)
      /\ << <<x.rec.op, x.rec.i>> >> \in Seq(Pairs)
  BY <1>2
<1> QED BY <1>3, Zenon DEF DataOf

\* A cell more in the file: it logs a command if it is the last cell of one.
LEMMA LogExtends ==
  ASSUME NEW f \in Seq(CellSet), NEW L, LogFn(f, L), NEW x \in CellSet
  PROVE \E M : /\ LogFn(Append(f, x), M)
               /\ M[Len(f) + 1] = IF x.last THEN L[Len(f)] \o DataOf(x) ELSE L[Len(f)]
<1>1. PICK n \in Nat : n = Len(f)
  OBVIOUS
<1>2. PICK g : g = Append(f, x)
  BY Zenon
<1>3. Len(g) = n + 1 /\ g[n + 1] = x /\ \A k \in 1 .. n : g[k] = f[k]
  BY <1>1, <1>2
<1>4. /\ L \in [0 .. n -> Seq(Pairs)] /\ L[0] = <<>>
      /\ \A k \in 1 .. n : L[k] = IF f[k].last THEN L[k - 1] \o DataOf(f[k]) ELSE L[k - 1]
      /\ \A p, q \in 0 .. n :
           p <= q /\ (\A k \in p + 1 .. q : ~f[k].last) => L[p] = L[q]
  BY <1>1, Zenon DEF LogFn
<1>5. PICK y : y = IF x.last THEN L[n] \o DataOf(x) ELSE L[n]
  BY Zenon
<1>6. y \in Seq(Pairs) /\ (~x.last => y = L[n])
  <2>1. L[n] \in Seq(Pairs) /\ DataOf(x) \in Seq(Pairs)
    BY <1>4, DataOfType
  <2>2. L[n] \o DataOf(x) \in Seq(Pairs)
    BY <2>1
  <2> QED BY <1>5, <2>1, <2>2, Zenon
<1> DEFINE M == [k \in 0 .. n + 1 |-> IF k = n + 1 THEN y ELSE L[k]]
<1>7. /\ M \in [0 .. n + 1 -> Seq(Pairs)] /\ M[n + 1] = y /\ \A k \in 0 .. n : M[k] = L[k]
  BY <1>4, <1>6
<1> HIDE DEF M
<1>8. ASSUME NEW k \in 1 .. n + 1
      PROVE M[k] = IF g[k].last THEN M[k - 1] \o DataOf(g[k]) ELSE M[k - 1]
  <2>1. CASE k = n + 1
    <3>1. k - 1 = n /\ n \in 0 .. n
      BY <2>1
    <3>2. M[k - 1] = L[n] /\ M[k] = y /\ g[k] = x
      BY <1>3, <1>7, <2>1, <3>1, Zenon
    <3> QED BY <1>5, <3>2, Zenon
  <2>2. CASE k # n + 1
    <3>1. k \in 1 .. n /\ k \in 0 .. n /\ k - 1 \in 0 .. n
      BY <2>2
    <3>2. M[k - 1] = L[k - 1] /\ M[k] = L[k] /\ g[k] = f[k]
      BY <1>3, <1>7, <3>1, Zenon
    <3> QED BY <1>4, <3>1, <3>2, Zenon
  <2> QED BY <2>1, <2>2, Zenon
<1>9. ASSUME NEW p \in 0 .. n + 1, NEW q \in 0 .. n + 1, p <= q,
             \A k \in p + 1 .. q : ~g[k].last
      PROVE M[p] = M[q]
  <2>1. CASE q = n + 1 /\ p # n + 1
    <3>1. p \in 0 .. n /\ n \in 0 .. n /\ p <= n /\ n + 1 \in p + 1 .. q
      BY <2>1
    <3>2. M[q] = L[n]
      BY <1>3, <1>6, <1>7, <1>9, <2>1, <3>1, Zenon
    <3>3. \A k \in p + 1 .. n : ~f[k].last
      BY <1>3, <1>9, <2>1, <3>1
    <3>4. L[p] = L[n]
      BY <1>4, <3>1, <3>3, Zenon
    <3> QED BY <1>7, <3>1, <3>2, <3>4, Zenon
  <2>2. CASE q # n + 1
    <3>1. p \in 0 .. n /\ q \in 0 .. n
      BY <1>9, <2>2
    <3>2. \A k \in p + 1 .. q : ~f[k].last
      BY <1>3, <1>9, <3>1
    <3>3. L[p] = L[q]
      BY <1>4, <1>9, <3>1, <3>2, Zenon
    <3> QED BY <1>7, <3>1, <3>3, Zenon
  <2>3. CASE p = n + 1
    BY <1>9, <2>3
  <2> QED BY <2>1, <2>2, <2>3, Zenon
<1>10. M[0] = <<>>
  BY <1>4, <1>7
<1>11. LogFn(g, M)
  BY <1>3, <1>7, <1>8, <1>9, <1>10, Zenon DEF LogFn
<1>12. M[Len(f) + 1] = IF x.last THEN L[Len(f)] \o DataOf(x) ELSE L[Len(f)]
  BY <1>1, <1>5, <1>7, Zenon
<1> QED BY <1>2, <1>11, <1>12, Zenon

\* The records kept when the last one is r.
KeptOf(r) ==
  IF r.type = "begin" THEN <<>>
  ELSE IF r.i = 1 THEN << <<r.op, 1>> >>
  ELSE << <<r.op, 1>>, <<r.op, 2>> >>

\* The replay is between two records, and has redone what was logged so far.
Boundary(w, L, a) ==
  /\ a.redone = L[a.pos]
  /\ a.pos < Len(w) => w[a.pos + 1].part = 0
  /\ a.pos = 0 \/ w[a.pos].last => ~a.pending
  /\ a.pos > 0 /\ ~w[a.pos].last => a.pending /\ a.kept = KeptOf(w[a.pos].rec)

\* Short sequences, joined.
LEMMA Joined ==
  ASSUME NEW x \in Pairs, NEW y \in Pairs
  PROVE <<>> \o << x >> = << x >> /\ << x >> \o << y >> = << x, y >>
<1>1. <<>> \in Seq(Pairs) /\ << x >> \in Seq(Pairs) /\ << y >> \in Seq(Pairs) /\ << x, y >> \in Seq(Pairs)
  OBVIOUS
<1>2. ASSUME NEW u \in Seq(Pairs), NEW v \in Seq(Pairs), Len(u) = Len(v),
             \A k \in 1 .. Len(u) : u[k] = v[k]
      PROVE u = v
  BY <1>2
<1>3. <<>> \o << x >> = << x >>
  <2>1. PICK u : u = <<>> \o << x >>
    BY Zenon
  <2>2. u \in Seq(Pairs) /\ Len(u) = 1 /\ u[1] = x
    BY <1>1, <2>1
  <2>3. PICK v : v = << x >>
    BY Zenon
  <2>4. v \in Seq(Pairs) /\ Len(v) = 1 /\ v[1] = x
    BY <1>1, <2>3, Zenon
  <2>5. u = v
    BY <1>2, <2>2, <2>4
  <2> QED BY <2>1, <2>3, <2>5, Zenon
<1>4. << x >> \o << y >> = << x, y >>
  <2>1. PICK u : u = << x >> \o << y >>
    BY Zenon
  <2>2. u \in Seq(Pairs) /\ Len(u) = 2 /\ u[1] = x /\ u[2] = y
    BY <1>1, <2>1
  <2>3. PICK v : v = << x, y >>
    BY Zenon
  <2>4. v \in Seq(Pairs) /\ Len(v) = 2 /\ v[1] = x /\ v[2] = y
    BY <1>1, <2>3, Zenon
  <2>5. u = v
    BY <1>2, <2>2, <2>4
  <2> QED BY <2>1, <2>3, <2>5, Zenon
<1> QED BY <1>3, <1>4, Zenon

\* cmdlog_file_apply() between two records of whole commands: it comes to
\* the end of the next record, having redone what is logged up to there, or
\* the rest of the file is part of one data record and logs nothing.
LEMMA BoundaryWalks ==
  ASSUME NEW w, NEW L, NEW f \in Seq(CellSet), NEW a \in Places, Commands(w),
         Len(f) <= Len(w), \A k \in 1 .. Len(f) : f[k] = w[k],
         LogFn(f, L), a.pos < Len(f), Boundary(w, L, a)
  PROVE \/ \E b \in Places : Walk(f, a, b) /\ Boundary(w, L, b)
        \/ /\ L[a.pos] = L[Len(f)] /\ f[a.pos + 1].part = 0
           /\ f[a.pos + 1].rec.type = "data"
           /\ ~(a.pos + 1 + f[a.pos + 1].rec.body <= Len(f))
<1>1. PICK k : k = a.pos + 1
  OBVIOUS
<1>2. PICK n \in Nat : n = Len(f)
  OBVIOUS
<1>3. /\ w \in Seq(CellSet) /\ Len(w) \in Nat /\ n <= Len(w) /\ a.pos \in Nat /\ a.pos < n
      /\ k \in Nat /\ k \in 1 .. n /\ k \in 1 .. Len(w) /\ k - 1 = a.pos
      /\ a.redone \in Seq(Pairs) /\ a.kept \in Seq(Pairs) /\ a.pending \in BOOLEAN
  <2>1. /\ a.pos \in Nat /\ a.redone \in Seq(Pairs) /\ a.kept \in Seq(Pairs)
        /\ a.pending \in BOOLEAN
    BY Zenon DEF Places
  <2>2. w \in Seq(CellSet) /\ Len(w) \in Nat /\ n <= Len(w) /\ a.pos < n
    BY <1>2 DEF Commands
  <2>3. k \in Nat /\ k \in 1 .. n /\ k \in 1 .. Len(w) /\ k - 1 = a.pos
    BY <1>1, <2>1, <2>2
  <2> QED BY <2>1, <2>2, <2>3, Zenon
<1>4. \A j \in 1 .. n : f[j] = w[j]
  BY <1>2, Zenon
<1>5. w[k].part = 0 /\ f[k] = w[k] /\ f[k].part = 0
  BY <1>1, <1>3, <1>4 DEF Boundary
<1>6. RecordAt(w, k)
  BY <1>3, <1>5, Zenon DEF Commands
<1>7. PICK r : r = w[k].rec
  OBVIOUS
<1>8. r \in Recs /\ r.body \in Nat /\ r.op \in Nat /\ r.i \in Nat /\ (r.type # "data" => r.body = 0)
  BY <1>3, <1>7, CellBody, Zenon DEF Recs
<1>9. /\ k + r.body <= Len(w)
      /\ \A j \in 0 .. r.body : w[k + j].rec = r /\ w[k + j].part = j
      /\ \A j \in 0 .. r.body - 1 : ~w[k + j].last
      /\ k + r.body < Len(w) => w[k + r.body + 1].part = 0
  BY <1>6, <1>7, Zenon DEF RecordAt
<1>10. PICK e : e = k + r.body
  OBVIOUS
<1>11. e \in Nat /\ k <= e /\ e > 0
  <2>1. PICK b \in Nat : b = r.body
    BY <1>8, Zenon
  <2>2. e = k + b /\ k \in Nat /\ k \in 1 .. n
    BY <1>3, <1>10, <2>1, Zenon
  <2> QED BY <2>2
<1>12. /\ L \in [0 .. n -> Seq(Pairs)]
       /\ \A i \in 1 .. n : L[i] = IF f[i].last THEN L[i - 1] \o DataOf(f[i]) ELSE L[i - 1]
       /\ \A p, q \in 0 .. n :
            p <= q /\ (\A i \in p + 1 .. q : ~f[i].last) => L[p] = L[q]
  BY <1>2, Zenon DEF LogFn
<1>13. ASSUME NEW i \in k .. e - 1, i <= n PROVE ~f[i].last
  <2>1. i - k \in 0 .. r.body - 1 /\ k + (i - k) = i /\ i \in 1 .. n
    <3>1. PICK b \in Nat : b = r.body
      BY <1>8, Zenon
    <3>2. PICK j \in Nat : j = i /\ k <= j /\ j < k + b /\ j <= n
      BY <1>3, <1>10, <1>11, <1>13, <3>1
    <3>3. k \in Nat /\ k >= 1
      BY <1>3
    <3>4. j - k \in 0 .. b - 1 /\ k + (j - k) = j /\ j \in 1 .. n
      BY <3>2, <3>3
    <3> QED BY <3>1, <3>2, <3>4, Zenon
  <2> QED BY <1>4, <1>9, <2>1, Zenon
<1>14. CASE ~(e <= n)
  <2>1. a.pos \in 0 .. n /\ n \in 0 .. n /\ a.pos <= n
    BY <1>3
  <2>2. ASSUME NEW i \in a.pos + 1 .. n PROVE ~f[i].last
    <3>1. i \in k .. e - 1 /\ i <= n
      BY <1>1, <1>3, <1>11, <1>14
    <3> QED BY <1>13, <3>1, Zenon
  <2>3. L[a.pos] = L[n]
    BY <1>12, <2>1, <2>2, Zenon
  <2>4. r.type = "data"
    BY <1>3, <1>8, <1>10, <1>14
  <2> QED BY <1>1, <1>2, <1>5, <1>7, <1>10, <1>14, <2>3, <2>4, Zenon
<1>15. CASE e <= n
  <2>1. /\ e \in 1 .. n /\ e - 1 \in 0 .. n /\ a.pos \in 0 .. n /\ a.pos <= e - 1
        /\ e \in 0 .. n
    BY <1>3, <1>11, <1>15
  <2>2. ASSUME NEW i \in a.pos + 1 .. e - 1 PROVE ~f[i].last
    <3>1. i \in k .. e - 1 /\ i <= n
      BY <1>1, <1>3, <1>11, <1>15
    <3> QED BY <1>13, <3>1, Zenon
  <2>3. L[a.pos] = L[e - 1]
    BY <1>12, <2>1, <2>2, Zenon
  <2>4. f[e] = w[e] /\ w[e].rec = r /\ w[k + r.body] = w[e]
    <3>1. r.body \in 0 .. r.body
      BY <1>8
    <3> QED BY <1>4, <1>9, <1>10, <2>1, <3>1, Zenon
  <2>5. L[e] = IF w[e].last THEN a.redone \o DataOf(w[e]) ELSE a.redone
    <3>1. a.redone = L[a.pos]
      BY Zenon DEF Boundary
    <3>2. L[e] = IF f[e].last THEN L[e - 1] \o DataOf(f[e]) ELSE L[e - 1]
      BY <1>12, <2>1, Zenon
    <3>3. L[e - 1] = a.redone /\ f[e] = w[e]
      BY <2>3, <2>4, <3>1, Zenon
    <3> QED BY <3>2, <3>3, Zenon
  <2>6. e < Len(w) => w[e + 1].part = 0
    BY <1>9, <1>10, Zenon
  <2>7. RedoIn(f, a) = << <<r.op, r.i>> >>
    <3>1. ASSUME NEW j \in 1 .. r.body PROVE f[k + j].rec = r /\ f[k + j].part = j
      <4>1. k + j \in 1 .. n /\ j \in 0 .. r.body
        BY <1>3, <1>8, <1>10, <1>15, <3>1
      <4> QED BY <1>4, <1>9, <4>1, Zenon
    <3> QED BY <1>1, <1>5, <1>7, <3>1, Zenon DEF RedoIn
  <2>8. InTurn(w, k)
    BY <1>6, Zenon DEF RecordAt
  <2>9. e \in Nat /\ a.pos < e /\ e <= Len(f) /\ e > 0
    BY <1>1, <1>2, <1>3, <1>11, <1>15
  <2>10. ASSUME NEW b \in Places, b.pos = e, b.redone = L[e],
                w[e].last => ~b.pending,
                ~w[e].last => b.pending /\ b.kept = KeptOf(r)
         PROVE Boundary(w, L, b)
    BY <2>4, <2>6, <2>9, <2>10 DEF Boundary
  <2>11. <<r.op, r.i>> \in Pairs /\ <<r.op, 1>> \in Pairs /\ <<r.op, 2>> \in Pairs
    BY <1>8, Zenon DEF Pairs
  <2>12. /\ << <<r.op, r.i>> >> \in Seq(Pairs)
         /\ a.redone \o << <<r.op, r.i>> >> \in Seq(Pairs)
         /\ a.kept \o << <<r.op, r.i>> >> \in Seq(Pairs)
         /\ a.redone \o a.kept \in Seq(Pairs)
    BY <1>3, <2>11
  <2>13. CASE k = 1 \/ w[k - 1].last
    <3>1. ~a.pending
      BY <1>1, <1>3, <2>13 DEF Boundary
    <3>2. \/ r.type = "begin" /\ ~w[e].last
          \/ r.type = "data" /\ r.i = 1 /\ w[e].last
      BY <1>7, <2>4, <2>8, <2>13, Zenon DEF InTurn
    <3>3. CASE r.type = "begin" /\ ~w[e].last
      <4>1. e = k
        BY <1>3, <1>8, <1>10, <3>3
      <4>2. PICK b : b = [pos |-> e, pending |-> TRUE, kept |-> <<>>, redone |-> a.redone]
        BY Zenon
      <4>3. b \in Places /\ b.pos = e /\ b.pending /\ b.kept = <<>> /\ b.redone = a.redone
        BY <1>3, <1>11, <4>2 DEF Places
      <4>4. Walk(f, a, b)
        BY <1>1, <1>5, <1>7, <2>9, <3>1, <3>3, <4>1, <4>3, Zenon DEF Walk
      <4>5. L[e] = a.redone /\ KeptOf(r) = <<>>
        BY <2>5, <3>3, Zenon DEF KeptOf
      <4>6. Boundary(w, L, b)
        BY <2>10, <3>3, <4>3, <4>5, Zenon
      <4> QED BY <4>3, <4>4, <4>6, Zenon
    <3>4. CASE r.type = "data" /\ r.i = 1 /\ w[e].last
      <4>1. PICK b : b = [pos |-> e, pending |-> FALSE, kept |-> a.kept,
                          redone |-> a.redone \o << <<r.op, r.i>> >>]
        BY Zenon
      <4>2. /\ b \in Places /\ b.pos = e /\ ~b.pending /\ b.kept = a.kept
            /\ b.redone = a.redone \o << <<r.op, r.i>> >>
        BY <1>3, <1>11, <2>12, <4>1, Zenon DEF Places
      <4>3. Walk(f, a, b)
        <5>1. b.pending = a.pending
          BY <1>3, <3>1, <4>2, Zenon DEF Places
        <5>2. Redone(a, b, << <<r.op, r.i>> >>)
          BY <3>1, <4>2, <5>1, Zenon DEF Redone
        <5>3. f[a.pos + 1].part = 0 /\ f[a.pos + 1].rec = r
          BY <1>1, <1>5, <1>7, Zenon
        <5>4. b.pos = a.pos + 1 + f[a.pos + 1].rec.body
          BY <1>1, <1>10, <4>2, <5>3, Zenon
        <5> QED BY <2>7, <2>9, <3>4, <4>2, <5>2, <5>3, <5>4, Zenon DEF Walk
      <4>4. L[e] = a.redone \o << <<r.op, r.i>> >>
        BY <2>4, <2>5, <3>4, Zenon DEF DataOf
      <4>5. Boundary(w, L, b)
        BY <2>10, <3>4, <4>2, <4>4, Zenon
      <4> QED BY <4>2, <4>3, <4>5, Zenon
    <3> QED BY <3>2, <3>3, <3>4, Zenon
  <2>14. CASE ~(k = 1 \/ w[k - 1].last)
    <3>1. PICK r0 : r0 = w[k - 1].rec
      OBVIOUS
    <3>2. a.pos > 0 /\ ~w[a.pos].last /\ w[a.pos].rec = r0
      BY <1>1, <1>3, <2>14, <3>1
    <3>3. a.pending /\ a.kept = KeptOf(r0)
      BY <3>2, Zenon DEF Boundary
    <3>4. /\ r.op = r0.op
          /\ \/ r0.type = "begin" /\ r.type = "data" /\ r.i = 1 /\ ~w[e].last
             \/ r0.type = "data" /\ r0.i = 1 /\ r.type = "data" /\ r.i = 2 /\ ~w[e].last
             \/ r0.type = "data" /\ r0.i = 2 /\ r.type = "end" /\ w[e].last
      BY <1>7, <2>4, <2>8, <2>14, <3>1, Zenon DEF InTurn
    <3>5. CASE r.type = "data"
      <4>1. PICK b : b = [pos |-> e, pending |-> TRUE, kept |-> a.kept \o << <<r.op, r.i>> >>,
                          redone |-> a.redone]
        BY Zenon
      <4>2. /\ b \in Places /\ b.pos = e /\ b.pending /\ b.redone = a.redone
            /\ b.kept = a.kept \o << <<r.op, r.i>> >>
        BY <1>3, <1>11, <2>12, <4>1, Zenon DEF Places
      <4>3. Walk(f, a, b)
        BY <1>1, <1>3, <1>5, <1>7, <1>10, <2>7, <2>9, <3>3, <3>5, <4>2, Zenon DEF Walk, Redone
      <4>4. ~w[e].last /\ L[e] = a.redone
        BY <2>5, <3>4, <3>5, Zenon
      <4>5. a.kept \o << <<r.op, r.i>> >> = KeptOf(r)
        <5>1. CASE r0.type = "begin" /\ r.i = 1
          <6>1. a.kept = <<>> /\ KeptOf(r) = << <<r.op, r.i>> >>
            BY <3>3, <3>5, <5>1, Zenon DEF KeptOf
          <6> QED BY <2>11, <6>1, Joined, Zenon
        <5>2. CASE r0.type = "data" /\ r0.i = 1 /\ r.i = 2
          <6>1. a.kept = << <<r.op, 1>> >> /\ KeptOf(r) = << <<r.op, 1>>, <<r.op, r.i>> >>
            BY <3>3, <3>4, <3>5, <5>2 DEF KeptOf
          <6> QED BY <2>11, <6>1, Joined, Zenon
        <5> QED BY <3>4, <3>5, <5>1, <5>2, Zenon
      <4>6. Boundary(w, L, b)
        BY <2>10, <4>2, <4>4, <4>5, Zenon
      <4> QED BY <4>2, <4>3, <4>6, Zenon
    <3>6. CASE r.type = "end"
      <4>1. e = k /\ r0.type = "data" /\ r0.i = 2 /\ w[e].last
        BY <1>3, <1>8, <1>10, <3>4, <3>6
      <4>2. PICK b : b = [pos |-> e, pending |-> FALSE, kept |-> <<>>, redone |-> a.redone \o a.kept]
        BY Zenon
      <4>3. /\ b \in Places /\ b.pos = e /\ ~b.pending /\ b.kept = <<>>
            /\ b.redone = a.redone \o a.kept
        BY <1>3, <1>11, <2>12, <4>2, SMTT(30) DEF Places
      <4>4. Walk(f, a, b)
        BY <1>1, <1>5, <1>7, <2>9, <3>3, <3>6, <4>1, <4>3, Zenon DEF Walk
      <4>5. DataOf(w[e]) = a.kept
        BY <2>4, <3>3, <3>4, <3>6, <4>1, SMTT(30) DEF DataOf, KeptOf
      <4>6. L[e] = a.redone \o a.kept
        BY <2>5, <4>1, <4>5, Zenon
      <4>7. Boundary(w, L, b)
        BY <2>10, <4>1, <4>3, <4>6, Zenon
      <4> QED BY <4>3, <4>4, <4>7, Zenon
    <3> QED BY <3>4, <3>5, <3>6, Zenon
  <2> QED BY <2>13, <2>14, Zenon
<1> QED BY <1>3, <1>11, <1>14, <1>15, Zenon

\* The file is the beginning of whole commands w, and logs what the server has
\* counted as logged; L is the log of each of its prefixes.
Exact(w, L) ==
  /\ Commands(w) /\ Len(file) <= Len(w) /\ \A k \in 1 .. Len(file) : file[k] = w[k]
  /\ LogFn(file, L) /\ L[Len(file)] = logged
  /\ apply.state # "failed"
  /\ apply.state = "done" => w = file \o stream /\ pos = Len(file)
  /\ apply.state = "loop" => Boundary(w, L, Here)

\* Up to the end of the replay after the first crash.
First == crashes = 0 \/ (crashes = 1 /\ apply.state = "loop")

ExactInv ==
  /\ Types /\ crashes \in Nat
  /\ crashes = 0 /\ apply.state = "loop" => file = <<>> /\ stream = <<>>
  /\ First => \E w, L : Exact(w, L)

\* The empty log is whole commands.
LEMMA NoCommands == Commands(<<>>)
<1>1. <<>> \in Seq(CellSet) /\ Len(<<>>) = 0
  OBVIOUS
<1> QED BY <1>1 DEF Commands

\* The empty file of a new server.
LEMMA ExactInit == Init => ExactInv
<1> SUFFICES ASSUME Init PROVE ExactInv
  OBVIOUS
<1>1. Types
  BY DEF Init, Types, ApplyStart
<1> DEFINE L == [k \in 0 .. 0 |-> <<>>]
<1>2. file = <<>> /\ Len(file) = 0 /\ logged = <<>>
  BY Zenon DEF Init
<1>3. L \in [0 .. 0 -> Seq(Pairs)] /\ L[0] = <<>>
  OBVIOUS
<1> HIDE DEF L
<1>4. LogFn(file, L)
  BY <1>2, <1>3 DEF LogFn
<1>5. /\ Here.pos = 0 /\ Here.redone = <<>> /\ ~Here.pending /\ apply.state = "loop"
      /\ stream = <<>> /\ crashes = 0
  BY Zenon DEF Init, Here, ApplyStart
<1>6. Boundary(<<>>, L, Here)
  BY <1>3, <1>5 DEF Boundary
<1>7. Exact(<<>>, L)
  BY <1>2, <1>3, <1>4, <1>5, <1>6, NoCommands DEF Exact
<1> QED BY <1>1, <1>2, <1>5, <1>7, Zenon DEF ExactInv

\* Writing the buffer and then a record is writing the buffer with the
\* record behind it.
LEMMA Rejoined ==
  ASSUME NEW a \in Seq(CellSet), NEW b \in Seq(CellSet), NEW d \in Seq(CellSet)
  PROVE (a \o b) \o d = a \o (b \o d)
OBVIOUS

\* Moving a cell from the buffer to the file leaves the two together the
\* same.
LEMMA MovedOver ==
  ASSUME NEW a \in Seq(CellSet), NEW b \in Seq(CellSet), b # <<>>
  PROVE Append(a, Head(b)) \o Tail(b) = a \o b
OBVIOUS

\* A command adds its cells to the buffer: file and buffer stay whole
\* commands.
LEMMA ExactWrites ==
  ASSUME ExactInv, NEW size \in BodySizes, NEW looks \in SomeLooks,
         WriteData(size, looks) \/ WriteRange(size, looks)
  PROVE ExactInv'
<1>1. Types /\ Types' /\ crashes \in Nat
  BY WritesTyped, Zenon DEF ExactInv
<1>2. /\ apply.state = "done" /\ apply'.state = "done"
      /\ UNCHANGED <<file, pos, apply, redone, base, logged, crashes>>
  BY Zenon DEF WriteData, WriteRange, Running
<1>3. /\ ops + 1 \in Nat /\ size \in Nat /\ looks \in {"incomplete", "complete", "corrupt"}
  BY <1>1, LogConstants, LooksType DEF Types, LogConstants
<1>4. PICK x : Commands(x) /\ stream' = stream \o x
  BY <1>3, DataCommand, RangeCommand, Zenon DEF WriteData, WriteRange
<1>5. ASSUME First PROVE \E w, L : Exact(w, L)'
  <2>1. PICK w, L : Exact(w, L)
    BY <1>5, Zenon DEF ExactInv
  <2>2. Commands(w) /\ w = file \o stream /\ pos = Len(file) /\ LogFn(file, L) /\ L[Len(file)] = logged
    BY <1>2, <2>1, Zenon DEF Exact
  <2>3. Commands(w \o x)
    BY <1>4, <2>2, CommandsJoin, Zenon
  <2>4. file \in Seq(CellSet) /\ stream \in Seq(CellSet) /\ x \in Seq(CellSet) /\ w \in Seq(CellSet)
    BY <1>1, <1>4, <2>2, Zenon DEF Types, Commands
  <2>5. w \o x = file \o stream'
    BY <1>4, <2>2, <2>4, Rejoined, ZenonT(60)
  <2>6. stream' \in Seq(CellSet)
    BY <1>1, Zenon DEF Types
  <2>7. Len(file) <= Len(w \o x) /\ \A k \in 1 .. Len(file) : file[k] = (w \o x)[k]
    <3>1. /\ Len(file \o stream') = Len(file) + Len(stream')
          /\ \A k \in 1 .. Len(file) : (file \o stream')[k] = file[k]
      BY <2>4, <2>6, JoinAt, Zenon
    <3>2. Len(file) \in Nat /\ Len(stream') \in Nat
      BY <2>4, <2>6
    <3> QED BY <2>5, <3>1, <3>2
  <2>8. PICK v : v = w \o x
    BY Zenon
  <2>9. Exact(v, L)'
    BY <1>2, <2>2, <2>3, <2>5, <2>7, <2>8, Zenon DEF Exact
  <2> QED BY <2>9, Zenon
<1> QED BY <1>1, <1>2, <1>5, Zenon DEF ExactInv, First

\* cmdlog_file_write() of a cell: the file stays a beginning of the same
\* commands, and logs one more if the cell is the last of its command.
LEMMA ExactWriteCell ==
  ASSUME ExactInv, WriteCell
  PROVE ExactInv'
<1>1. /\ Types /\ Types' /\ pos' = pos + 1 /\ crashes \in Nat
      /\ pos = Len(file) => file' = Append(file, Head(stream))
  BY WriteCellTyped, Zenon DEF ExactInv
<1>2. /\ apply.state = "done" /\ apply'.state = "done" /\ stream # <<>> /\ stream' = Tail(stream)
      /\ logged' = IF Head(stream).last THEN logged \o DataOf(Head(stream)) ELSE logged
      /\ UNCHANGED <<apply, redone, crashes>>
  BY Zenon DEF WriteCell, Running
<1>3. ASSUME First PROVE \E w, L : Exact(w, L)'
  <2>1. PICK w, L : Exact(w, L)
    BY <1>3, Zenon DEF ExactInv
  <2>2. Commands(w) /\ w = file \o stream /\ pos = Len(file) /\ LogFn(file, L) /\ L[Len(file)] = logged
    BY <1>2, <2>1, Zenon DEF Exact
  <2>3. /\ file \in Seq(CellSet) /\ stream \in Seq(CellSet) /\ Head(stream) \in CellSet
        /\ file' \in Seq(CellSet) /\ stream' \in Seq(CellSet)
    BY <1>1, <1>2 DEF Types
  <2>4. file' = Append(file, Head(stream))
    BY <1>1, <2>2, Zenon
  <2>5. w = file' \o stream'
    BY <1>2, <2>2, <2>3, <2>4, MovedOver, Zenon
  <2>6. Len(file') <= Len(w) /\ \A k \in 1 .. Len(file') : file'[k] = w[k]
    <3>1. /\ Len(file' \o stream') = Len(file') + Len(stream')
          /\ \A k \in 1 .. Len(file') : (file' \o stream')[k] = file'[k]
      BY <2>3, JoinAt, Zenon
    <3>2. Len(file') \in Nat /\ Len(stream') \in Nat
      BY <2>3
    <3> QED BY <2>5, <3>1, <3>2
  <2>7. PICK M : /\ LogFn(Append(file, Head(stream)), M)
                 /\ M[Len(file) + 1] = IF Head(stream).last THEN L[Len(file)] \o DataOf(Head(stream))
                                                            ELSE L[Len(file)]
    BY <2>2, <2>3, LogExtends, Zenon
  <2>8. Len(file') = Len(file) + 1
    BY <2>3, <2>4
  <2>9. LogFn(file', M) /\ M[Len(file')] = logged'
    BY <1>2, <2>2, <2>4, <2>7, <2>8, Zenon
  <2>10. pos' = Len(file')
    BY <1>1, <2>2, <2>8, Zenon
  <2>11. Exact(w, M)'
    BY <1>2, <2>2, <2>5, <2>6, <2>9, <2>10, Zenon DEF Exact
  <2> QED BY <2>11, Zenon
<1> QED BY <1>1, <1>2, <1>3, Zenon DEF ExactInv, First

\* The first crash loses the buffer; the replay starts before the first
\* record.
LEMMA ExactCrash ==
  ASSUME ExactInv, Crash
  PROVE ExactInv'
<1>1. Types' /\ crashes \in Nat /\ crashes' = crashes + 1 /\ crashes' \in Nat /\ crashes' # 0
  BY DEF ExactInv, Types, Crash, ApplyStart
<1>2. /\ apply.state = "done" /\ apply'.state = "loop" /\ file' = file /\ logged' = logged
      /\ Here'.pos = 0 /\ ~Here'.pending /\ Here'.redone = <<>>
  BY Zenon DEF Crash, Running, ApplyStart, Here
<1>3. ASSUME First' PROVE \E w, L : Exact(w, L)'
  <2>1. First
    BY <1>1, <1>3 DEF First
  <2>2. PICK w, L : Exact(w, L)
    BY <2>1, Zenon DEF ExactInv
  <2>3. L[0] = <<>> /\ (w # <<>> => w[1].part = 0) /\ w \in Seq(CellSet)
    BY <2>2, Zenon DEF Exact, LogFn, Commands
  <2>4. Boundary(w, L, Here')
    <3>1. Here'.pos < Len(w) => w[Here'.pos + 1].part = 0
      BY <1>2, <2>3
    <3> QED BY <1>2, <2>3, <3>1 DEF Boundary
  <2>5. Exact(w, L)'
    BY <1>2, <2>2, <2>4, Zenon DEF Exact
  <2> QED BY <2>5, Zenon
<1> QED BY <1>1, <1>3, Zenon DEF ExactInv

\* An iteration of cmdlog_file_apply() up to the first crash's replay: it
\* goes on between two records, or ends and has redone what was logged; it
\* does not fail.
LEMMA ExactApply ==
  ASSUME ExactInv, ApplyEnds \/ ApplyBegin \/ ApplyEnd \/ ApplyRecord \/ ApplyGarbage
  PROVE ExactInv' /\ RedoesExactly
<1>1. /\ Types /\ Types' /\ crashes \in Nat
      /\ UNCHANGED <<ops, stream, file, base, logged, crashes>>
      /\ apply.state = "loop"
      /\ \/ apply'.state = "loop" /\ Walk(file, Here, Here')
         \/ /\ apply'.state = "failed" /\ ~\E b : Walk(file, Here, b)
            /\ pos < Len(file) /\ (file[pos + 1].part # 0 \/ file[pos + 1].rec.type # "data")
         \/ /\ apply'.state = "done" /\ UNCHANGED <<pos, redone>>
            /\ ~\E b : Walk(file, Here, b)
  BY ApplyTyped, Zenon DEF ExactInv
<1>2. CASE ~(crashes <= 1)
  <2>1. ~First' /\ crashes # 0
    BY <1>1, <1>2 DEF First
  <2> QED BY <1>1, <1>2, <2>1, Zenon DEF ExactInv, RedoesExactly
<1>3. CASE crashes <= 1
  <2>1. First
    BY <1>1, <1>3 DEF First
  <2>2. PICK w, L : Exact(w, L)
    BY <2>1, Zenon DEF ExactInv
  <2>3. /\ Commands(w) /\ Len(file) <= Len(w) /\ \A k \in 1 .. Len(file) : file[k] = w[k]
        /\ LogFn(file, L) /\ L[Len(file)] = logged /\ Boundary(w, L, Here)
    BY <1>1, <2>2, Zenon DEF Exact
  <2>4. /\ Here \in Places /\ Here' \in Places /\ Here.pos = pos /\ Here.redone = redone
        /\ file \in Seq(CellSet) /\ pos \in 0 .. Len(file)
    BY <1>1 DEF Types, Here, Places
  <2>5. redone = L[pos]
    BY <2>3, <2>4, Zenon DEF Boundary
  <2>6. pos < Len(file) =>
          \/ \E b \in Places : Walk(file, Here, b) /\ Boundary(w, L, b)
          \/ /\ L[pos] = L[Len(file)] /\ file[pos + 1].part = 0
             /\ file[pos + 1].rec.type = "data"
             /\ ~(pos + 1 + file[pos + 1].rec.body <= Len(file))
    BY <2>3, <2>4, BoundaryWalks, SMTT(30)
  <2>7. CASE apply'.state = "loop" /\ Walk(file, Here, Here')
    <3>1. ~ReplayStops
      BY <2>7, Zenon DEF ReplayStops
    <3>2. pos < Len(file)
      BY <2>4, <2>7 DEF Walk
    <3>3. CASE \E b \in Places : Walk(file, Here, b) /\ Boundary(w, L, b)
      <4>1. Boundary(w, L, Here')
        BY <2>4, <2>7, <3>3, WalkUnique, Zenon
      <4>2. Exact(w, L)'
        BY <1>1, <2>3, <2>7, <4>1, Zenon DEF Exact
      <4> QED BY <1>1, <3>1, <4>2, Zenon DEF ExactInv, RedoesExactly
    <3>4. CASE /\ file[pos + 1].part = 0 /\ file[pos + 1].rec.type = "data"
               /\ ~(pos + 1 + file[pos + 1].rec.body <= Len(file))
      <4>1. Here'.pos = pos + 1 + file[pos + 1].rec.body /\ Here'.pos <= Len(file)
        BY <2>4, <2>7, <3>4, Zenon DEF Walk
      <4> QED BY <3>4, <4>1, Zenon
    <3> QED BY <2>6, <3>2, <3>3, <3>4, Zenon
  <2>8. CASE apply'.state = "failed"
    BY <1>1, <2>6, <2>8, Zenon
  <2>9. CASE apply'.state = "done"
    <3>1. UNCHANGED <<pos, redone>> /\ ~\E b : Walk(file, Here, b)
      BY <1>1, <2>9, Zenon
    <3>2. L[pos] = L[Len(file)]
      BY <2>4, <2>6, <3>1
    <3>3. RedoesExactly
      BY <2>3, <2>5, <2>9, <3>2, Zenon DEF RedoesExactly
    <3>4. ASSUME First' PROVE Exact(<<>>, L)'
      <4>1. crashes = 0 /\ file = <<>> /\ stream = <<>> /\ Len(file) = 0 /\ pos = 0
        BY <1>1, <2>4, <2>9, <3>4 DEF First, ExactInv
      <4>2. <<>> = file \o stream
        BY <4>1
      <4> QED BY <1>1, <2>3, <2>9, <3>1, <4>1, <4>2, NoCommands DEF Exact
    <3> QED BY <1>1, <2>9, <3>3, <3>4, Zenon DEF ExactInv
  <2> QED BY <1>1, <2>7, <2>8, <2>9, Zenon
<1> QED BY <1>2, <1>3, Zenon

\* Every step keeps ExactInv and satisfies RedoesExactly.
LEMMA ExactStep ==
  ASSUME ExactInv, [Next]_vars
  PROVE ExactInv' /\ [RedoesExactly]_vars
<1>1. CASE UNCHANGED vars
  BY <1>1, Zenon DEF vars, ExactInv, Types, First, Exact, Here
<1>2. ASSUME apply.state = "done" PROVE RedoesExactly
  BY <1>2, Zenon DEF RedoesExactly, ReplayStops
<1>3. ASSUME NEW size \in BodySizes, NEW looks \in SomeLooks,
             WriteData(size, looks) \/ WriteRange(size, looks)
      PROVE ExactInv' /\ RedoesExactly
  BY <1>2, <1>3, ExactWrites, Zenon DEF WriteData, WriteRange, Running
<1>4. CASE WriteCell
  BY <1>2, <1>4, ExactWriteCell, Zenon DEF WriteCell, Running
<1>5. CASE Crash
  BY <1>2, <1>5, ExactCrash, Zenon DEF Crash, Running
<1>6. CASE ApplyEnds \/ ApplyBegin \/ ApplyEnd \/ ApplyRecord \/ ApplyGarbage
  BY <1>6, ExactApply, Zenon
<1> QED BY <1>1, <1>3, <1>4, <1>5, <1>6, Zenon DEF Next

\* ReplayExact for any record lengths: the replay after the first crash, at
\* any byte, ends without an error and has redone the data records of
\* exactly the commands that were completely written, in order and each
\* once.
THEOREM ReplayRedoesLogged == Spec => ReplayExact
<1>1. ASSUME ExactInv, [Next]_vars PROVE ExactInv' /\ [RedoesExactly]_vars
  BY <1>1, ExactStep, Zenon
<1> QED BY <1>1, ExactInit, PTL DEF Spec, ReplayExact

=============================================================================
