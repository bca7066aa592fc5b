------------------------------ MODULE CmdLogBuf ------------------------------
(***************************************************************************)
(* The command log buffer of the default engine: the ring of log bytes,    *)
(* the ring of flush requests, the dual write of a running checkpoint and  *)
(* the switch to the next log file (engines/default/cmdlogbuf.c, and the   *)
(* parts of cmdlogfile.c it calls).                                        *)
(*                                                                         *)
(* An action is one critical section.  Writers hold the cache lock, so at   *)
(* most one record is being written at a time; a flush holds               *)
(* log_flush_lock, so at most one flush is in progress, started by the     *)
(* flush thread, by a writer short of space or by cmdlog_buf_final().      *)
(* A byte is represented by its place in the stream of written bytes.      *)
(***************************************************************************)
EXTENDS Integers, Sequences, SequencesExt, FiniteSets

CONSTANTS
    Size,           \* CMDLOG_BUFFER_SIZE
    AutoSize,       \* CMDLOG_FLUSH_AUTO_SIZE
    RecMinSize,     \* CMDLOG_RECORD_MIN_SIZE
    RecSizes,       \* the lengths a log record can have
    RangeSize,      \* the length of an OPERATION_BEGIN or _END record
    ChkptMayFail,   \* can a checkpoint fail?
    MaxBytes,       \* bound on the bytes written
    MaxChkpt        \* bound on the checkpoints tried

\* total_length < logbuff->size is asserted at cmdlogbuf.c:188.
BufConstants ==
    /\ {Size, AutoSize, RecMinSize, RangeSize} \subseteq Nat \ {0}
    /\ RecSizes \subseteq 1..(Size - 1)
    /\ ChkptMayFail \in BOOLEAN
    /\ {MaxBytes, MaxChkpt} \subseteq Nat

VARIABLES
    head, tail, last,               \* the ring of bytes
    data,                           \* its content
    fque, fbgn, fend,               \* the ring of flush requests
    dw_end, dw_size,                \* where the dual write ends, its bytes
    nxt_write_lsn, nxt_flush_lsn,
    file,                           \* cmdlogfile.c: log_FILE
    writer,                         \* the writer holding the cache lock
    flush,                          \* the flush holding log_flush_lock
    chkpt,                          \* the checkpoint thread
    stop,                           \* cmdlog_mgr_final()
    lsnOf                           \* history: the LSN given to each byte

ring   == <<head, tail, last, data>>
reqs   == <<fque, fbgn, fend>>
dual   == <<dw_end, dw_size>>
lsns   == <<nxt_write_lsn, nxt_flush_lsn>>
vars   == <<ring, reqs, dual, lsns, file, writer, flush, chkpt, stop, lsnOf>>

None   == -1

Fqsz == Size \div RecMinSize

Slots == 0..(Fqsz - 1)

Inc(i) == IF i + 1 = Fqsz THEN 0 ELSE i + 1

NoReq  == [nflush |-> 0, dual_write |-> FALSE]
Idle   == [pc |-> "idle", len |-> 0, dual |-> FALSE, range |-> FALSE]
NoFlush == [pc |-> "idle", by |-> "thread", n |-> 0, dual |-> FALSE,
            dw |-> 0]

written == Len(lsnOf)

Init ==
    /\ head = 0 /\ tail = 0 /\ last = None
    /\ data = [p \in 0..(Size - 1) |-> None]
    /\ fque = [i \in Slots |-> NoReq] /\ fbgn = 0 /\ fend = 0
    /\ dw_end = None /\ dw_size = 0
    /\ nxt_write_lsn = [filenum |-> 1, roffset |-> 0]
    /\ nxt_flush_lsn = [filenum |-> 1, roffset |-> 0]
    /\ file = [cur |-> <<>>, next |-> <<>>, open |-> FALSE, prev |-> FALSE,
               size |-> 0, next_size |-> 0]
    /\ writer = Idle
    /\ flush = NoFlush
    /\ chkpt = [pc |-> "none", prevtime |-> FALSE, tries |-> 0]
    /\ stop = "run"
    /\ lsnOf = <<>>

------------------------------------------------------------------------------
(* do_log_buff_write()                                                     *)

\* A worker thread inside the cache lock has a record to log.  Its dual flag
\* is NEED_DUAL_WRITE(): never set unless a checkpoint scan is running, and
\* always set then for a record that is about no item.  The lock is held from
\* an OPERATION_BEGIN record (range is set) to its OPERATION_END.
WriteBegin(len, dw) ==
    /\ writer.pc = "idle"
    /\ stop = "run"
    /\ written + len <= MaxBytes
    /\ dw => chkpt.pc = "scan"
    /\ len = RangeSize => dw = (chkpt.pc = "scan")
    /\ writer' = [pc |-> "space", len |-> len, dual |-> dw,
                  range |-> (len = RangeSize) # writer.range]
    /\ UNCHANGED <<ring, reqs, dual, lsns, file, flush, chkpt, stop, lsnOf>>

CloseReq_Mutant == fend

\* Close the open request, if it holds anything.
CloseReq == IF fque[fend].nflush > 0 THEN Inc(fend) ELSE fend

\* The requests that n bytes fill up and close.
FullReqs(n) == n \div AutoSize

DwSize == IF writer.dual THEN dw_size + writer.len ELSE dw_size

\* The record goes to position t of the ring and to the requests from fe on:
\* each request is filled up to AutoSize and closed before the next is used.
Put(t, fe) ==
    LET len   == writer.len
        dw    == writer.dual
        f     == IF fque[fe].nflush > 0 /\ fque[fe].dual_write # dw
                 THEN Inc(fe) ELSE fe
        total == fque[f].nflush + len
        full  == FullReqs(total)
        rest  == total - full * AutoSize
        Place(i) == (i - f + Fqsz) % Fqsz
    IN
    /\ data' = [p \in DOMAIN data |->
                    IF p \in t..(t + len - 1) THEN written + p - t ELSE data[p]]
    /\ tail' = t + len
    /\ dw_size' = DwSize
    /\ nxt_write_lsn' = [nxt_write_lsn EXCEPT !.roffset = @ + len]
    /\ lsnOf' = lsnOf \o [i \in 1..len |->
                    [nxt_write_lsn EXCEPT !.roffset = @ + i - 1]]
    /\ fque' = [i \in Slots |->
                    IF Place(i) < full
                    THEN [nflush |-> AutoSize, dual_write |-> dw]
                    ELSE IF Place(i) = full /\ rest > 0
                         THEN [nflush |-> rest, dual_write |-> dw]
                         ELSE fque[i]]
    /\ fend' = (f + full) % Fqsz
    /\ writer' = [Idle EXCEPT !.range = writer.range]

\* One iteration of the loop that looks for room.
WriteTry ==
    /\ writer.pc = "space"
    /\ \/ /\ head <= tail
          /\ writer.len < Size - tail
          /\ Put(tail, fend)
          /\ UNCHANGED last
       \/ /\ head <= tail
          /\ ~ (writer.len < Size - tail)
          /\ head > 0
          /\ last' = tail
          /\ IF writer.len < head
             THEN Put(0, CloseReq)
             ELSE /\ tail' = 0
                  /\ fend' = CloseReq
                  /\ writer' = [writer EXCEPT !.pc = "force"]
                  /\ UNCHANGED <<data, fque, dw_size, nxt_write_lsn, lsnOf>>
       \/ /\ head > tail
          /\ writer.len < head - tail
          /\ Put(tail, fend)
          /\ UNCHANGED last
       \/ /\ \/ head <= tail /\ ~ (writer.len < Size - tail) /\ head = 0
             \/ head > tail /\ ~ (writer.len < head - tail)
          /\ writer' = [writer EXCEPT !.pc = "force"]
          /\ UNCHANGED <<ring, fque, fend, dw_size, nxt_write_lsn, lsnOf>>
    /\ UNCHANGED <<head, fbgn, dw_end, nxt_flush_lsn, file, flush, chkpt, stop>>

------------------------------------------------------------------------------
(* do_log_buff_flush()                                                     *)

DualWriteEnds_Mutant == fbgn = dw_end /\ fque[fbgn].nflush > 0

DualWriteEnds == fbgn = dw_end

Unwrap_Mutant(h) ==
    /\ head' = IF h = last THEN 0 ELSE h
    /\ UNCHANGED last

\* The head moves to h, and from the end of the ring to its beginning.
Unwrap(h) ==
    IF h = last THEN head' = 0 /\ last' = None
                ELSE head' = h /\ UNCHANGED last

\* Phase 1, under log_write_lock: choose the request.  A closed request is
\* always taken; the open one only when it is asked for (requested: some
\* waiter's LSN is not flushed yet) or when everything is flushed (all).
FlushBegin(by, all, requested) ==
    LET complete == DualWriteEnds
        open     == fbgn = fend
        n        == IF open /\ ~all /\ ~requested THEN 0 ELSE fque[fbgn].nflush
    IN
    /\ flush.pc = "idle"
    /\ dw_end' = IF complete THEN None ELSE dw_end
    /\ dw_size' = IF complete THEN 0 ELSE dw_size
    /\ fend' = IF open /\ n > 0 THEN Inc(fend) ELSE fend
    /\ IF n > 0 THEN Unwrap(head) ELSE UNCHANGED <<head, last>>
    /\ flush' = IF ~complete /\ n = 0 THEN NoFlush
                ELSE [pc   |-> IF complete THEN "switch" ELSE "write",
                      by   |-> by,
                      n    |-> n,
                      dual |-> n > 0 /\ fque[fbgn].dual_write,
                      dw   |-> IF complete THEN dw_size ELSE 0]
    /\ UNCHANGED <<tail, data, fque, fbgn, lsns, file, chkpt, lsnOf>>

Resume_Mutant == writer

\* Whoever flushed goes on when its flush is over.
Resume == IF flush.by = "writer" THEN [writer EXCEPT !.pc = "space"] ELSE writer

\* The flush thread's loop.  An iteration that finds nothing is its 10 ms nap.
FlushThread(requested) ==
    /\ stop \in {"run", "req"}
    /\ FlushBegin("thread", FALSE, requested)
    /\ flush'.pc # "idle"
    /\ UNCHANGED <<writer, stop>>

\* A writer short of space flushes one request itself, then looks again.
FlushForced(requested) ==
    /\ writer.pc = "force"
    /\ FlushBegin("writer", FALSE, requested)
    /\ writer' = [writer EXCEPT !.pc =
                     IF flush'.pc = "idle" THEN "space" ELSE "flushing"]
    /\ UNCHANGED stop

SwitchedLsn_Mutant ==
    [filenum |-> nxt_flush_lsn.filenum + 1, roffset |-> 0]

SwitchedLsn == [filenum |-> nxt_flush_lsn.filenum + 1, roffset |-> flush.dw]

\* cmdlog_file_complete_dual_write().  Under async logging the old file is
\* closed at once, otherwise by the next cmdlog_file_sync().
FlushSwitch ==
    /\ flush.pc = "switch"
    /\ \E async \in BOOLEAN :
         file' = IF file.open
                 THEN [cur |-> file.next, next |-> <<>>, open |-> FALSE,
                       prev |-> ~async, size |-> file.next_size,
                       next_size |-> 0]
                 ELSE file
    /\ nxt_flush_lsn' = SwitchedLsn
    /\ IF flush.n > 0
       THEN flush' = [flush EXCEPT !.pc = "write"] /\ UNCHANGED writer
       ELSE flush' = NoFlush /\ writer' = Resume
    /\ UNCHANGED <<ring, reqs, dual, nxt_write_lsn, chkpt, stop, lsnOf>>

ToBoth == flush.dual /\ file.open

\* cmdlog_file_write(), then nxt_flush_lsn.
FlushWrite ==
    LET chunk == [i \in 1..flush.n |-> data[head + i - 1]] IN
    /\ flush.pc = "write"
    /\ file' = [file EXCEPT
                  !.cur  = @ \o chunk,
                  !.size = @ + flush.n,
                  !.next = IF ToBoth THEN @ \o chunk ELSE @,
                  !.next_size = IF ToBoth THEN @ + flush.n ELSE @]
    /\ nxt_flush_lsn' = [nxt_flush_lsn EXCEPT !.roffset = @ + flush.n]
    /\ flush' = [flush EXCEPT !.pc = "end"]
    /\ UNCHANGED <<ring, reqs, dual, nxt_write_lsn, writer, chkpt, stop, lsnOf>>

\* The last phase, under log_write_lock: release the bytes and the request.
FlushEnd ==
    /\ flush.pc = "end"
    /\ Unwrap(head + flush.n)
    /\ fque' = [fque EXCEPT ![fbgn] = NoReq]
    /\ fbgn' = Inc(fbgn)
    /\ flush' = NoFlush
    /\ writer' = Resume
    /\ UNCHANGED <<tail, data, fend, dual, lsns, file, chkpt, stop, lsnOf>>

------------------------------------------------------------------------------
(* The checkpoint thread, as far as the log sees it                        *)

\* cmdlog_file_open() in do_checkpoint().  A checkpoint that follows a
\* successful one waits for cmdlog_file_dual_write_finished().  A flush begun
\* before the previous checkpoint failed is over: CHKPT_CHECK_INTERVAL seconds
\* lie between them.
ChkptOpen ==
    /\ chkpt.pc = "none"
    /\ stop = "run"
    /\ chkpt.tries < MaxChkpt
    /\ chkpt.prevtime => ~file.open /\ ~file.prev
    /\ ~flush.dual
    /\ chkpt' = [pc |-> "open", prevtime |-> FALSE, tries |-> chkpt.tries + 1]
    /\ file' = [file EXCEPT !.open = TRUE, !.next = <<>>]
    /\ UNCHANGED <<ring, reqs, dual, lsns, writer, flush, stop, lsnOf>>

\* cmdlog_set_chkpt_scan(), under the cache lock.
ChkptScan ==
    /\ chkpt.pc = "open"
    /\ writer = Idle
    /\ chkpt' = [chkpt EXCEPT !.pc = "scan"]
    /\ UNCHANGED <<ring, reqs, dual, lsns, file, writer, flush, stop, lsnOf>>

\* cmdlog_reset_chkpt_scan(true): the dual write ends behind the last request.
ChkptDone ==
    /\ chkpt.pc = "scan"
    /\ writer = Idle
    /\ fend' = CloseReq
    /\ dw_end' = fend'
    /\ nxt_write_lsn' = [filenum |-> nxt_write_lsn.filenum + 1,
                         roffset |-> dw_size]
    /\ chkpt' = [chkpt EXCEPT !.pc = "none", !.prevtime = TRUE]
    /\ UNCHANGED <<ring, fque, fbgn, dw_size, nxt_flush_lsn, file, writer,
                   flush, stop, lsnOf>>

\* cmdlog_reset_chkpt_scan(false): the queued requests lose their dual flag.
\* A checkpoint that fails before its scan has nothing to reset.
ChkptFail ==
    /\ ChkptMayFail
    /\ \/ /\ chkpt.pc = "scan"
          /\ writer = Idle
          /\ dw_size' = 0
          /\ fque' = [i \in Slots |-> [fque[i] EXCEPT !.dual_write = FALSE]]
       \/ /\ chkpt.pc = "open"
          /\ UNCHANGED <<dw_size, fque>>
    /\ chkpt' = [chkpt EXCEPT !.pc = "fail"]
    /\ UNCHANGED <<ring, fbgn, fend, dw_end, lsns, file, writer, flush, stop,
                   lsnOf>>

\* cmdlog_file_close(): next_fd is forgotten, next_size is not reset.
ChkptClose ==
    /\ chkpt.pc = "fail"
    /\ chkpt' = [chkpt EXCEPT !.pc = "none"]
    /\ file' = [file EXCEPT !.open = FALSE, !.next = <<>>]
    /\ UNCHANGED <<ring, reqs, dual, lsns, writer, flush, stop, lsnOf>>

\* cmdlog_file_sync() closes the file that the last switch left behind.
SyncPrev ==
    /\ file.prev
    /\ file' = [file EXCEPT !.prev = FALSE]
    /\ UNCHANGED <<ring, reqs, dual, lsns, writer, flush, chkpt, stop, lsnOf>>

------------------------------------------------------------------------------
(* cmdlog_mgr_final(): the worker threads and the checkpoint thread are     *)
(* gone, then the flush thread is stopped, then cmdlog_buf_final().         *)

StopRequest ==
    /\ stop = "run"
    /\ writer = Idle
    /\ chkpt.pc = "none"
    /\ stop' = "req"
    /\ UNCHANGED <<ring, reqs, dual, lsns, file, writer, flush, chkpt, lsnOf>>

\* The flush thread looks at reqstop between two flushes.
ThreadStop ==
    /\ stop = "req"
    /\ flush.pc = "idle"
    /\ stop' = "stopped"
    /\ UNCHANGED <<ring, reqs, dual, lsns, file, writer, flush, chkpt, lsnOf>>

BufFinal ==
    /\ stop = "stopped"
    /\ stop' = "final"
    /\ FlushBegin("final", TRUE, FALSE)
    /\ UNCHANGED writer

Next ==
    \/ \E len \in RecSizes, dw \in BOOLEAN : WriteBegin(len, dw)
    \/ WriteTry
    \/ \E r \in BOOLEAN : FlushThread(r)
    \/ \E r \in BOOLEAN : FlushForced(r)
    \/ FlushSwitch
    \/ FlushWrite
    \/ FlushEnd
    \/ ChkptOpen
    \/ ChkptScan
    \/ ChkptDone
    \/ ChkptFail
    \/ ChkptClose
    \/ SyncPrev
    \/ StopRequest
    \/ ThreadStop
    \/ BufFinal

Spec == Init /\ [][Next]_vars

\* The flush thread never sleeps longer than 10 ms, a flush in progress ends,
\* and a writer keeps looking for room.
Fairness ==
    /\ WF_vars(WriteTry)
    /\ WF_vars(\E r \in BOOLEAN : FlushForced(r))
    /\ WF_vars(FlushThread(FALSE))
    /\ WF_vars(FlushSwitch \/ FlushWrite \/ FlushEnd)

FairSpec == Spec /\ Fairness

------------------------------------------------------------------------------
(* Properties                                                              *)

Files == [cur : Seq(Nat), next : Seq(Nat), open : BOOLEAN, prev : BOOLEAN,
          size : Nat, next_size : Nat]
LSN   == [filenum : Nat, roffset : Nat]

\* Positions stay inside the rings, no request outgrows AutoSize, and every
\* index that is advanced wraps at the end of its ring.
TypeOK ==
    /\ head \in 0..(Size - 1) /\ tail \in 0..(Size - 1)
    /\ last \in -1..(Size - 1)
    /\ data \in [0..(Size - 1) -> Nat \cup {None}]
    /\ fque \in [Slots -> [nflush : 0..AutoSize, dual_write : BOOLEAN]]
    /\ fbgn \in Slots /\ fend \in Slots
    /\ dw_end \in Slots \cup {None} /\ dw_size \in Nat
    /\ nxt_write_lsn \in LSN /\ nxt_flush_lsn \in LSN
    /\ file \in Files
    /\ writer \in [pc : {"idle", "space", "force", "flushing"},
                   len : RecSizes \cup {0}, dual : BOOLEAN, range : BOOLEAN]
    /\ flush \in [pc : {"idle", "switch", "write", "end"},
                  by : {"thread", "writer", "final"},
                  n : 0..AutoSize, dual : BOOLEAN, dw : Nat]
    /\ chkpt \in [pc : {"none", "open", "scan", "fail"}, prevtime : BOOLEAN,
                  tries : 0..MaxChkpt]
    /\ stop \in {"run", "req", "stopped", "final"}
    /\ lsnOf \in Seq(LSN)

\* The requests from fbgn on, in the order they will be flushed.
Queue == [k \in 1..Fqsz |-> fque[(fbgn + k - 1) % Fqsz]]

\* The queue holds Size / CMDLOG_RECORD_MIN_SIZE requests (cmdlogbuf.c:442)
\* and nothing tests whether it is full: fend must never run into fbgn, or a
\* request waiting to be flushed is taken for the open one and overwritten.
QueueNeverFull ==
    LET closed == (fend - fbgn + Fqsz) % Fqsz IN
    \A k \in 1..Fqsz : /\ k <= closed => Queue[k].nflush > 0
                       /\ k > closed + 1 => Queue[k].nflush = 0

\* The assertions of do_log_buff_write() and do_log_buff_flush()
\* (cmdlogbuf.c:131, 195, 214, 277): the ring is unwrapped exactly when its
\* head is not beyond its tail, a closed request is never empty, and a dual
\* write ends before the next one does.  Nothing asserts the types and that
\* the request queue has room, but it has.
RingAsserts ==
    /\ TypeOK
    /\ QueueNeverFull
    /\ writer.pc = "space" => (head <= tail <=> last = None)
    /\ fbgn # fend => fque[fbgn].nflush > 0
    /\ chkpt.pc = "scan" => dw_end = None

\* assert(dual_write_size == cmdlog_file_getsize()) at cmdlogbuf.c:150: the
\* bytes counted by the writers are the bytes the next log file received.
SwitchAssert == flush.pc = "switch" => file.next_size = flush.dw

\* nxt_flush_lsn is the end of the log file, and the LSN given to a record
\* names the place of its bytes: file number and offset, also for a record
\* written after a checkpoint completed while the flush thread was still in
\* the old file (cmdlogbuf.c:235, 281, 153).
LsnIsFileOffset ==
    /\ nxt_flush_lsn.roffset = Len(file.cur)
    /\ \A i \in 1..Len(file.cur) :
          LET l == lsnOf[file.cur[i] + 1] IN
          \/ l.filenum < nxt_flush_lsn.filenum
          \/ l = [filenum |-> nxt_flush_lsn.filenum, roffset |-> i - 1]

\* The bytes waiting in the ring, oldest first, and what the log promises.
InRing ==
    IF last = None
    THEN [k \in 1..(tail - head) |-> data[head + k - 1]]
    ELSE [k \in 1..(last - head) |-> data[head + k - 1]]
         \o [k \in 1..tail |-> data[k - 1]]
Flags(q) ==
    FoldLeft(LAMBDA s, r : s \o [j \in 1..r.nflush |-> r.dual_write], <<>>, q)
Done == IF flush.pc = "end" THEN flush.n ELSE 0
Pending ==
    LET dws   == Flags(Queue)
        bytes == InRing
    IN  [k \in 1..(Len(bytes) - Done) |->
            [byte |-> bytes[k + Done], dual |-> dws[k + Done]]]
Mark ==
    IF flush.pc = "switch" THEN 0
    ELSE IF dw_end = None THEN -1
    ELSE Len(Flags(SubSeq(Queue, 1, (dw_end - fbgn + Fqsz) % Fqsz))) - Done

Stream == INSTANCE LogStream WITH
    pending <- Pending,
    mark <- Mark,
    cur <- file.cur,
    next <- IF file.open /\ chkpt.pc # "fail" THEN file.next ELSE <<-1>>

\* The buffer, its request queue and the file switch together are a FIFO:
\* every byte reaches the log file once and in order, the next log file gets
\* exactly the bytes marked dual, and the switch falls between the records
\* logged before and after the checkpoint completed.
StreamSpec == Stream!Spec

\* A writer short of buffer space gets it (the loop at cmdlogbuf.c:193-225
\* holds the cache lock all the while).  The loop flushes closed requests only,
\* so this takes two records and an open request to fit in the ring together.
WriterGetsRoom == writer.pc # "idle" ~> writer.pc = "idle"

\* A completed checkpoint gets its new log file: the flush thread reaches the
\* end of the dual write.
SwitchHappens == dw_end # None /\ stop = "run" ~> dw_end = None \/ stop # "run"
==============================================================================
