------------------------------ MODULE LogStream ------------------------------
(***************************************************************************)
(* What the command log promises the rest of the engine, with no buffer,   *)
(* no flush request queue and no locks: a FIFO of bytes that reach the      *)
(* current log file in the order they were written.  While a checkpoint    *)
(* has its next log file open, the bytes marked "dual" are appended to      *)
(* that file too; when the checkpoint succeeds, the next file replaces the *)
(* current one exactly between the bytes written before and after that      *)
(* moment.                                                                  *)
(*                                                                         *)
(* Bytes are numbered by their place in the stream of all written bytes.   *)
(* CmdLogBuf (cmdlogbuf.c, cmdlogfile.c) is checked to implement this.     *)
(***************************************************************************)
EXTENDS Integers, Sequences, SequencesExt

CONSTANT RecSizes       \* the lengths a log record can have

VARIABLES
    written,            \* number of bytes written so far
    pending,            \* bytes not yet in a file: sequence of [byte, dual]
    mark,               \* pending bytes before the file switch, or NoMark
    cur,                \* the bytes of the current log file
    next                \* the bytes of the next log file, or Closed

svars == <<written, pending, mark, cur, next>>

NoMark == -1
Closed == <<-1>>        \* no file holds this sequence: bytes are naturals

Record(len, dual) ==
    [i \in 1..len |-> [byte |-> written + i - 1, dual |-> dual]]

BytesOf(s) == [i \in 1..Len(s) |-> s[i].byte]

Init ==
    /\ written = 0
    /\ pending = <<>>
    /\ mark = NoMark
    /\ cur = <<>>
    /\ next = Closed

Write(len, dual) ==
    /\ written' = written + len
    /\ dual => next # Closed /\ mark = NoMark
    /\ pending' = pending \o Record(len, dual)
    /\ UNCHANGED <<mark, cur, next>>

\* A chunk reaches the file(s).  It never spans the place of the switch.
\* (That the file grows by n follows; said first, it spares TLC other n.)
Flush(n) ==
    LET chunk == SubSeq(pending, 1, n) IN
    /\ UNCHANGED written
    /\ Len(cur') = Len(cur) + n
    /\ mark # NoMark => n <= mark
    /\ \A i, j \in 1..n : chunk[i].dual = chunk[j].dual
    /\ cur' = cur \o BytesOf(chunk)
    /\ next' = IF next # Closed /\ chunk[1].dual THEN next \o BytesOf(chunk)
                                                 ELSE next
    /\ pending' = SubSeq(pending, n + 1, Len(pending))
    /\ mark' = IF mark = NoMark THEN NoMark ELSE mark - n

OpenNext ==
    /\ next = Closed
    /\ next' = <<>>
    /\ UNCHANGED <<written, pending, mark, cur>>

CheckpointDone ==
    /\ next # Closed
    /\ mark = NoMark
    /\ UNCHANGED <<written, cur, next>>
    /\ mark' = Len(pending)
    /\ UNCHANGED pending

CheckpointFailed ==
    /\ next # Closed
    /\ mark = NoMark
    /\ next' = Closed
    /\ pending' = [i \in 1..Len(pending) |-> [pending[i] EXCEPT !.dual = FALSE]]
    /\ UNCHANGED <<written, mark, cur>>

Switch ==
    /\ mark = 0
    /\ cur' = next
    /\ next' = Closed
    /\ mark' = NoMark
    /\ UNCHANGED <<written, pending>>

Next ==
    \/ \E len \in RecSizes, dual \in BOOLEAN : Write(len, dual)
    \/ \E n \in 1..Len(pending) : Flush(n)
    \/ OpenNext
    \/ CheckpointDone
    \/ CheckpointFailed
    \/ Switch

Spec == Init /\ [][Next]_svars
==============================================================================
