---------------------------- MODULE CmdLogReplay ----------------------------
(***************************************************************************)
(* One command log file across crashes and restarts, byte by byte          *)
(* (cmdlogfile.c: cmdlog_file_write, cmdlog_file_open, cmdlog_file_apply   *)
(* and do_redo_pending_lrec).                                              *)
(*                                                                         *)
(* A record is a header cell and body cells; OPERATION_BEGIN and _END have *)
(* no body.  The flush thread writes the stream of cells in pieces that    *)
(* need not end at a record, so a crash can leave half a record, or a      *)
(* BEGIN without its END, at the end of the file.  The restarted server    *)
(* replays the file from its start, and goes on writing where the replay   *)
(* stopped: the file is opened without O_APPEND and O_TRUNC and is never   *)
(* cut.                                                                    *)
(***************************************************************************)
EXTENDS Integers, Sequences

CONSTANTS
  BodySizes,   \* the body lengths of data records, in cells
  Looks,       \* what body cells look like when read as a header
  Ranges,      \* TRUE: clients delete several elements with one command
  MaxOps,      \* bound: commands
  MaxCrashes   \* bound: crashes

\* A body is some number of cells, and bytes read as a header are a record
\* that does not end in the file, a record that does, or no record.
ASSUME LogConstants ==
  /\ BodySizes \subseteq Nat
  /\ Looks \subseteq {"incomplete", "complete", "corrupt"}

VARIABLES
  ops,       \* number of commands so far
  stream,    \* the cells in the log buffer
  file,      \* the cells of the file
  pos,       \* the file position: the next write goes here
  apply,     \* the state of cmdlog_file_apply
  redone,    \* the records redone since the restart, in order
  base,      \* history: the records the last restart redid
  logged,    \* history: the data records of all completely flushed commands
  crashes    \* number of crashes so far

vars == <<ops, stream, file, pos, apply, redone, base, logged, crashes>>

-----------------------------------------------------------------------------
(***************************************************************************)
(* Records.  A cell names its record and its place in it, so that a cell   *)
(* found at the wrong place can be told.  "looks" is what the bytes of the *)
(* body look like to who reads them as a header: they are the client's.    *)
(***************************************************************************)

Data(op, i, size, looks) ==
  [type |-> "data", op |-> op, i |-> i, body |-> size, looks |-> looks]

Begin(op) == [type |-> "begin", op |-> op, i |-> 0, body |-> 0, looks |-> "-"]

End(op) == [type |-> "end", op |-> op, i |-> 0, body |-> 0, looks |-> "-"]

\* The cells of a record, the header first; "last" marks the last cell of the
\* command.
Cells(rec, last) ==
  [j \in 1 .. rec.body + 1 |->
     [rec |-> rec, part |-> j - 1, last |-> last /\ j = rec.body + 1]]

\* CLOG_GE_ELEM_DELETE_BEGIN, the deletions, CLOG_GE_ELEM_DELETE_END: all
\* under one hold of the cache lock.
RangeRecs(op, size, looks) ==
  Cells(Begin(op), FALSE) \o Cells(Data(op, 1, size, looks), FALSE)
    \o Cells(Data(op, 2, size, looks), FALSE) \o Cells(End(op), TRUE)

Running == apply.state = "done"

\* A command with one record.
WriteData(size, looks) ==
  /\ Running /\ ops < MaxOps
  /\ ops' = ops + 1
  /\ stream' = stream \o Cells(Data(ops + 1, 1, size, looks), TRUE)
  /\ UNCHANGED <<file, pos, apply, redone, base, logged, crashes>>

\* A command that deletes two elements of a collection.
WriteRange(size, looks) ==
  /\ Running /\ ops < MaxOps /\ Ranges
  /\ ops' = ops + 1
  /\ stream' = stream \o RangeRecs(ops + 1, size, looks)
  /\ UNCHANGED <<file, pos, apply, redone, base, logged, crashes>>

\* The data records of a command whose last cell is c.
DataOf(c) ==
  IF c.rec.type = "end"
  THEN << <<c.rec.op, 1>>, <<c.rec.op, 2>> >>
  ELSE << <<c.rec.op, c.rec.i>> >>

\* cmdlog_file_write of the next cell, at the file position: over what is
\* there, or at the end.
WriteCell ==
  /\ Running /\ stream # <<>>
  /\ file' = IF pos < Len(file) THEN [file EXCEPT ![pos + 1] = Head(stream)]
                                ELSE Append(file, Head(stream))
  /\ pos' = pos + 1
  /\ stream' = Tail(stream)
  /\ logged' = IF Head(stream).last THEN logged \o DataOf(Head(stream))
                                    ELSE logged
  /\ UNCHANGED <<ops, apply, redone, base, crashes>>

-----------------------------------------------------------------------------
(***************************************************************************)
(* The crash, and cmdlog_file_apply.                                       *)
(***************************************************************************)

\* The local variables of cmdlog_file_apply when it starts.
ApplyStart == [state |-> "loop", pending |-> FALSE, kept |-> <<>>]

Crash ==
  /\ Running /\ crashes < MaxCrashes
  /\ crashes' = crashes + 1
  /\ stream' = <<>> /\ redone' = <<>>
  /\ pos' = 0
  /\ apply' = ApplyStart
  /\ base' = redone
  /\ UNCHANGED <<ops, file, logged>>

\* The header being read.
Hdr == file[pos + 1].rec

AtHeader == apply.state = "loop" /\ pos < Len(file) /\ file[pos + 1].part = 0

\* The file position after the record.
NextPos == pos + 1 + Hdr.body

\* The record at the file position is there as far as its length goes.
BodyThere == pos + 1 + Hdr.body <= Len(file)

\* Its body is its own, and not partly what an older record left there.
BodyIntact ==
  \A j \in 1 .. Hdr.body : /\ file[pos + 1 + j].rec = Hdr
                           /\ file[pos + 1 + j].part = j

\* What redoing the record at the file position does.
Nonsense == << <<0, 0>> >>

Redo == IF BodyIntact THEN << <<Hdr.op, Hdr.i>> >> ELSE Nonsense

StopPos_Mutant == IF pos > 0 THEN pos - 1 ELSE 0

\* Where the server goes on writing: after a partly read record the file
\* position is moved back to its header.
StopPos == pos

\* The end of the file, or a record that "was not completely written": the
\* replay ends, the file position is the start of that record.
ApplyEnds ==
  /\ apply.state = "loop"
  /\ \/ pos >= Len(file)
     \/ AtHeader /\ ~BodyThere
  /\ apply' = [apply EXCEPT !.state = "done"]
  /\ pos' = StopPos
  /\ UNCHANGED <<ops, stream, file, redone, base, logged, crashes>>

\* LOG_OPERATION_BEGIN: the records that follow are kept; inside another
\* operation it is an error.
ApplyBegin ==
  /\ AtHeader /\ Hdr.type = "begin"
  /\ IF apply.pending
     THEN apply' = [apply EXCEPT !.state = "failed"]
     ELSE apply' = [apply EXCEPT !.pending = TRUE, !.kept = <<>>]
  /\ pos' = pos + 1
  /\ UNCHANGED <<ops, stream, file, redone, base, logged, crashes>>

\* The pending information is cleaned up.
AfterEnd == [apply EXCEPT !.pending = FALSE, !.kept = <<>>]

\* LOG_OPERATION_END: redo the kept records (do_redo_pending_lrec); without a
\* BEGIN it is an error.
ApplyEnd ==
  /\ AtHeader /\ Hdr.type = "end"
  /\ IF apply.pending
     THEN /\ redone' = redone \o apply.kept
          /\ apply' = AfterEnd
     ELSE /\ apply' = [apply EXCEPT !.state = "failed"]
          /\ UNCHANGED redone
  /\ pos' = pos + 1
  /\ UNCHANGED <<ops, stream, file, base, logged, crashes>>

RedoNow_Mutant == TRUE

RedoNow == ~apply.pending

\* A complete data record is redone, or kept.
ApplyRecord ==
  /\ AtHeader /\ Hdr.type = "data" /\ BodyThere
  /\ redone' = IF RedoNow THEN redone \o Redo ELSE redone
  /\ apply' = IF RedoNow THEN apply ELSE [apply EXCEPT !.kept = @ \o Redo]
  /\ pos' = NextPos
  /\ UNCHANGED <<ops, stream, file, base, logged, crashes>>

\* What is read as a header is a body cell an older record left behind.
ApplyGarbage ==
  /\ apply.state = "loop" /\ pos < Len(file) /\ file[pos + 1].part # 0
  /\ CASE Hdr.looks = "incomplete" ->
            /\ apply' = [apply EXCEPT !.state = "done"]
            /\ UNCHANGED <<pos, redone>>
       [] Hdr.looks = "corrupt" ->
            /\ apply' = [apply EXCEPT !.state = "failed"]
            /\ UNCHANGED <<pos, redone>>
       [] Hdr.looks = "complete" ->
            /\ pos' = pos + 1
            /\ redone' = IF RedoNow THEN redone \o Nonsense ELSE redone
            /\ apply' = IF RedoNow THEN apply
                                   ELSE [apply EXCEPT !.kept = @ \o Nonsense]
  /\ UNCHANGED <<ops, stream, file, base, logged, crashes>>

-----------------------------------------------------------------------------
Init ==
  /\ ops = 0 /\ crashes = 0 /\ pos = 0
  /\ stream = <<>> /\ file = <<>> /\ redone = <<>> /\ base = <<>>
  /\ logged = <<>>
  /\ apply = ApplyStart

\* Nothing is written over the last command: its looks do not matter.
SomeLooks == IF ops + 1 < MaxOps THEN Looks ELSE {"incomplete"}

Next ==
  \/ \E size \in BodySizes, looks \in SomeLooks : WriteData(size, looks)
  \/ \E size \in BodySizes, looks \in SomeLooks : WriteRange(size, looks)
  \/ WriteCell
  \/ Crash
  \/ ApplyEnds
  \/ ApplyBegin
  \/ ApplyEnd
  \/ ApplyRecord
  \/ ApplyGarbage

Spec == Init /\ [][Next]_vars

-----------------------------------------------------------------------------
(***************************************************************************)
(* Properties.                                                             *)
(***************************************************************************)

ReplayEnds == apply.state = "loop" /\ apply'.state = "done"

ReplayStops == apply.state = "loop" /\ apply'.state # "loop"

\* cmdlog_file_apply redoes the data records of exactly the commands whose
\* records were completely written before the crash, in the order of the log
\* and each once; a command cut off by the crash is redone in no part.  This
\* is said of the first crash; what a torn record or an unterminated range
\* does to a later replay is a matter of ReplayStable and ReplaySucceeds.
RedoesExactly ==
  ReplayStops /\ crashes <= 1 => apply'.state = "done" /\ redone = logged

ReplayExact == [][RedoesExactly]_vars

\* The sequence t begins with s.
Begins(s, t) == Len(s) <= Len(t) /\ SubSeq(t, 1, Len(s)) = s

\* What one restart has redone, every later restart redoes again, first and
\* in the same order: going on at the place where the replay stopped never
\* damages the records before it.
RedoesAgain == ReplayEnds => Begins(base, redone)

ReplayStable == [][RedoesAgain]_vars

\* "LOG_OPERATION_BEGIN recorded before previous kept log record is
\* processed": cmdlog_file_apply takes such a log for a corrupt one and
\* fails.  The server itself never writes one.
ReplaySucceeds == apply.state # "failed"

=============================================================================
