----------------------------- MODULE GroupCommit -----------------------------
(***************************************************************************)
(* Synchronous logging: a client whose update is logged waits until the    *)
(* group commit thread has fsynced the log (engines/default/cmdlogmgr.c,   *)
(* the sync part of cmdlogfile.c and the log sequence numbers of           *)
(* cmdlogbuf.c).                                                           *)
(*                                                                         *)
(* CmdLogBuf shows that the log buffer is a FIFO of bytes cut into flush   *)
(* requests.  Here the buffer is reduced to that: positions in the stream  *)
(* of all bytes, and the positions where a flush request ends.  A log      *)
(* sequence number (LSN) is a file number and an offset, as in the code.   *)
(* Each action is one critical section of one thread.                      *)
(***************************************************************************)
EXTENDS Integers, Sequences

CONSTANTS
    Clients,        \* connections that update items
    AutoSize,       \* CMDLOG_FLUSH_AUTO_SIZE
    RecSizes,       \* the lengths a log record can have
    MaxBytes,       \* bound on the bytes logged
    MaxFiles        \* bound on the log files used

ASSUME ConstantAssumption ==
    /\ AutoSize \in Nat \ {0}
    /\ RecSizes \subseteq Nat \ {0}
    /\ MaxBytes \in Nat /\ MaxFiles \in Nat \ {0}

VARIABLES
    nxt_write_lsn, nxt_flush_lsn, upt_flush_lsn, nxt_fsync_lsn,
    wpos, fpos,     \* the stream positions of nxt_write_lsn, nxt_flush_lsn
    bounds, open,   \* ends of the closed requests; start of the open one
    mark, dw_size,  \* position where the dual write ends; its bytes
    flush,          \* the flush thread
    file,           \* cmdlogfile.c: log_FILE
    durable,        \* per log file: the position up to which it is fsynced
    chkpt,          \* the checkpoint thread
    client,         \* the update each client is in
    wait,           \* the commit list: clients waiting for the fsync
    sync,           \* the group commit thread
    acked,          \* history: the log records of acknowledged updates
    stop            \* cmdlog_mgr_final()

buf  == <<nxt_write_lsn, wpos, open, dw_size>>
fl   == <<nxt_flush_lsn, fpos, flush>>
vars == <<buf, fl, upt_flush_lsn, nxt_fsync_lsn, bounds, mark, file, durable,
          chkpt, client, wait, sync, acked, stop>>

LSN == [filenum : Nat, roffset : Nat]

LOGSN_IS_LE(a, b) ==
    \/ a.filenum < b.filenum
    \/ a.filenum = b.filenum /\ a.roffset <= b.roffset
LOGSN_IS_GT(a, b) ==
    \/ a.filenum > b.filenum
    \/ a.filenum = b.filenum /\ a.roffset > b.roffset

None  == -1
NoLsn == [filenum |-> 0, roffset |-> 0]
First == [filenum |-> 1, roffset |-> 0]
NoRec == [lsn |-> NoLsn, pos |-> 0, len |-> 0, dual |-> FALSE]

Init ==
    /\ nxt_write_lsn = First /\ nxt_flush_lsn = First
    /\ upt_flush_lsn = NoLsn /\ nxt_fsync_lsn = First
    /\ wpos = 0 /\ fpos = 0
    /\ bounds = {} /\ open = [start |-> 0, dual |-> FALSE]
    /\ mark = None /\ dw_size = 0
    /\ flush = [pc |-> "idle", upto |-> 0, dw |-> 0]
    /\ file = [num |-> 1, pos |-> 0, next |-> FALSE, prev |-> FALSE]
    /\ durable = [f \in 1..MaxFiles |-> 0]
    /\ chkpt = [pc |-> "none", prevtime |-> FALSE, snap |-> 1]
    /\ client = [c \in Clients |-> [pc |-> "idle", rec |-> NoRec]]
    /\ wait = <<>>
    /\ sync = [pc |-> "idle", lsn |-> First, pos |-> 0, cur |-> 1, next |-> 0]
    /\ acked = {}
    /\ stop = "run"

------------------------------------------------------------------------------
(* The clients                                                             *)

\* NEED_DUAL_WRITE(): items behind the checkpoint scan are written twice;
\* once the scan has passed the last item, all of them are.
DualFlags ==
    CASE chkpt.pc = "scan"  -> BOOLEAN
      [] chkpt.pc = "valid" -> {TRUE}
      [] OTHER              -> {FALSE}

\* do_log_buff_write() on behalf of client c, which keeps the LSN of the
\* record's first byte.  The open request is closed when the dual flag changes
\* or the ring wraps; then it is filled up to AutoSize, again and again.
\* Only an update with a reply waits for the commit (cmdlogmgr.c:366).
Log(c, len, dual, reply, wraps) ==
    LET closed == open.start < wpos /\ (open.dual # dual \/ wraps)
        start  == IF closed THEN wpos ELSE open.start
        full   == (wpos + len - start) \div AutoSize
    IN
    /\ client[c].pc = "idle"
    /\ stop = "run"
    /\ wpos + len <= MaxBytes
    /\ dual \in DualFlags
    /\ bounds' = bounds \cup (IF closed THEN {wpos} ELSE {})
                        \cup {start + i * AutoSize : i \in 1..full}
    /\ open' = [start |-> start + full * AutoSize, dual |-> dual]
    /\ dw_size' = IF dual THEN dw_size + len ELSE dw_size
    /\ wpos' = wpos + len
    /\ nxt_write_lsn' = [nxt_write_lsn EXCEPT !.roffset = @ + len]
    /\ client' = IF reply
                 THEN [client EXCEPT ![c] =
                        [pc  |-> "logged",
                         rec |-> [lsn |-> nxt_write_lsn, pos |-> wpos,
                                  len |-> len, dual |-> dual]]]
                 ELSE client
    /\ UNCHANGED <<fl, upt_flush_lsn, nxt_fsync_lsn, mark, file, durable,
                   chkpt, wait, sync, acked, stop>>

\* cmdlog_waiter_end(), first cmdlog_buff_flush_request().
Request(c) ==
    LET lsn == client[c].rec.lsn IN
    /\ client[c].pc = "logged"
    /\ upt_flush_lsn' = IF /\ LOGSN_IS_LE(nxt_flush_lsn, lsn)
                           /\ LOGSN_IS_LE(upt_flush_lsn, lsn)
                        THEN lsn ELSE upt_flush_lsn
    /\ client' = [client EXCEPT ![c].pc = "requested"]
    /\ UNCHANGED <<buf, fl, nxt_fsync_lsn, bounds, mark, file, durable, chkpt,
                   wait, sync, acked, stop>>

\* Already fsynced: the client is answered at once.
AckNow(c) ==
    /\ client[c].pc = "requested"
    /\ ~LOGSN_IS_LE(nxt_fsync_lsn, client[c].rec.lsn)
    /\ acked' = acked \cup {client[c].rec}
    /\ client' = [client EXCEPT ![c] = [pc |-> "idle", rec |-> NoRec]]
    /\ UNCHANGED <<buf, fl, upt_flush_lsn, nxt_fsync_lsn, bounds, mark, file,
                   durable, chkpt, wait, sync, stop>>

MustWait(c) ==
    /\ client[c].pc = "requested"
    /\ LOGSN_IS_LE(nxt_fsync_lsn, client[c].rec.lsn)
    /\ client' = [client EXCEPT ![c].pc = "adding"]
    /\ UNCHANGED <<buf, fl, upt_flush_lsn, nxt_fsync_lsn, bounds, mark, file,
                   durable, chkpt, wait, sync, acked, stop>>

\* do_cmdlog_add_commit_waiter(), after the fsync LSN was looked at.
AddWaiter(c) ==
    /\ client[c].pc = "adding"
    /\ wait' = Append(wait, c)
    /\ client' = [client EXCEPT ![c].pc = "waiting"]
    /\ UNCHANGED <<buf, fl, upt_flush_lsn, nxt_fsync_lsn, bounds, mark, file,
                   durable, chkpt, sync, acked, stop>>

------------------------------------------------------------------------------
(* The flush thread: do_log_buff_flush()                                   *)

Requested_Mutant == LOGSN_IS_GT(upt_flush_lsn, nxt_flush_lsn)

Requested == LOGSN_IS_LE(nxt_flush_lsn, upt_flush_lsn)

\* The end of the request to flush: the first closed one, or the open one when
\* a waiter asks for it.  fpos when there is nothing to flush.
FlushTargets ==
    IF bounds # {}
    THEN {b \in bounds : \A x \in bounds : b <= x}
    ELSE {IF fpos < wpos /\ Requested THEN wpos ELSE fpos}

FlushBegin ==
    /\ flush.pc = "idle"
    /\ stop \in {"run", "workers"}
    /\ \E upto \in FlushTargets :
         /\ mark = fpos \/ upto > fpos
         /\ flush' = [pc   |-> IF mark = fpos THEN "switch" ELSE "write",
                      upto |-> upto,
                      dw   |-> IF mark = fpos THEN dw_size ELSE 0]
         /\ open' = IF bounds = {} /\ upto > fpos
                    THEN [open EXCEPT !.start = wpos] ELSE open
    /\ mark' = IF mark = fpos THEN None ELSE mark
    /\ dw_size' = IF mark = fpos THEN 0 ELSE dw_size
    /\ UNCHANGED <<nxt_write_lsn, wpos, nxt_flush_lsn, fpos, upt_flush_lsn,
                   nxt_fsync_lsn, bounds, file, durable, chkpt, client, wait,
                   sync, acked, stop>>

\* cmdlog_file_complete_dual_write(), then nxt_flush_lsn.
FlushSwitch ==
    /\ flush.pc = "switch"
    /\ \E async \in BOOLEAN :
         file' = [file EXCEPT !.num = @ + 1, !.next = FALSE, !.prev = ~async]
    /\ flush' = [flush EXCEPT !.pc = "switched"]
    /\ UNCHANGED <<buf, nxt_flush_lsn, fpos, upt_flush_lsn, nxt_fsync_lsn,
                   bounds, mark, durable, chkpt, client, wait, sync, acked,
                   stop>>

SwitchedLsn_Mutant == [nxt_flush_lsn EXCEPT !.filenum = @ + 1]

SwitchedLsn == [filenum |-> nxt_flush_lsn.filenum + 1, roffset |-> flush.dw]

FlushSwitched ==
    /\ flush.pc = "switched"
    /\ nxt_flush_lsn' = SwitchedLsn
    /\ flush' = [flush EXCEPT !.pc =
                    IF flush.upto > fpos THEN "write" ELSE "idle"]
    /\ UNCHANGED <<buf, fpos, upt_flush_lsn, nxt_fsync_lsn, bounds, mark, file,
                   durable, chkpt, client, wait, sync, acked, stop>>

\* cmdlog_file_write(), then nxt_flush_lsn and the request itself.
FlushWrite ==
    /\ flush.pc = "write"
    /\ file' = [file EXCEPT !.pos = flush.upto]
    /\ flush' = [flush EXCEPT !.pc = "written"]
    /\ UNCHANGED <<buf, nxt_flush_lsn, fpos, upt_flush_lsn, nxt_fsync_lsn,
                   bounds, mark, durable, chkpt, client, wait, sync, acked,
                   stop>>

FlushedLsn == [nxt_flush_lsn EXCEPT !.roffset = @ + (flush.upto - fpos)]

FlushWritten ==
    /\ flush.pc = "written"
    /\ nxt_flush_lsn' = FlushedLsn
    /\ fpos' = flush.upto
    /\ bounds' = bounds \ {flush.upto}
    /\ flush' = [flush EXCEPT !.pc = "idle"]
    /\ UNCHANGED <<buf, upt_flush_lsn, nxt_fsync_lsn, mark, file, durable,
                   chkpt, client, wait, sync, acked, stop>>

------------------------------------------------------------------------------
(* The group commit thread: cmdlog_file_sync(), then the waiters           *)

SyncBegin ==
    /\ sync.pc = "idle"
    /\ stop # "gcommit"
    /\ wait # <<>>
    /\ sync' = [sync EXCEPT !.pc = "fds", !.lsn = nxt_flush_lsn, !.pos = fpos]
    /\ UNCHANGED <<buf, fl, upt_flush_lsn, nxt_fsync_lsn, bounds, mark, file,
                   durable, chkpt, client, wait, acked, stop>>

NextFd == IF file.next THEN file.num + 1 ELSE 0

\* The descriptors are taken under file_access_lock; prev_fd is closed.
SyncFds ==
    /\ sync.pc = "fds"
    /\ file' = [file EXCEPT !.prev = FALSE]
    /\ sync' = [sync EXCEPT
                  !.pc = IF LOGSN_IS_GT(sync.lsn, nxt_fsync_lsn)
                         THEN "cur" ELSE "collect",
                  !.cur = file.num,
                  !.next = NextFd]
    /\ UNCHANGED <<buf, fl, upt_flush_lsn, nxt_fsync_lsn, bounds, mark,
                   durable, chkpt, client, wait, acked, stop>>

\* fsync(f) makes everything written to log file f so far durable: all bytes
\* before file.pos for the current file, the dual ones for the next file.  A
\* file that was switched away from gets no more bytes.
Fsync(f) ==
    durable' = [durable EXCEPT ![f] =
                  IF f >= file.num /\ file.pos > @ THEN file.pos ELSE @]

SyncCur ==
    /\ sync.pc = "cur"
    /\ Fsync(sync.cur)
    /\ sync' = [sync EXCEPT !.pc = IF sync.next # 0 THEN "next" ELSE "set"]
    /\ UNCHANGED <<buf, fl, upt_flush_lsn, nxt_fsync_lsn, bounds, mark, file,
                   chkpt, client, wait, acked, stop>>

SyncNext ==
    /\ sync.pc = "next"
    /\ Fsync(sync.next)
    /\ sync' = [sync EXCEPT !.pc = "set"]
    /\ UNCHANGED <<buf, fl, upt_flush_lsn, nxt_fsync_lsn, bounds, mark, file,
                   chkpt, client, wait, acked, stop>>

FsyncedLsn_Mutant == nxt_flush_lsn

\* The LSN taken before the fsync: a flush may have gone on since.
FsyncedLsn == sync.lsn

SyncSet ==
    /\ sync.pc = "set"
    /\ nxt_fsync_lsn' = FsyncedLsn
    /\ sync' = [sync EXCEPT !.pc = "collect"]
    /\ UNCHANGED <<buf, fl, upt_flush_lsn, bounds, mark, file, durable, chkpt,
                   client, wait, acked, stop>>

\* do_cmdlog_get_commit_waiter(): the waiters at the head of the list whose
\* LSN is fsynced, up to the first that is not, are notified and freed.
Fsynced(c) == ~LOGSN_IS_LE(nxt_fsync_lsn, client[c].rec.lsn)

Remaining(n) == SubSeq(wait, n + 1, Len(wait))

SyncCollect ==
    /\ sync.pc = "collect"
    /\ \E n \in 0..Len(wait) :
         /\ \A i \in 1..n : Fsynced(wait[i])
         /\ n < Len(wait) => ~Fsynced(wait[n + 1])
         /\ LET done == {wait[i] : i \in 1..n} IN
            /\ acked' = acked \cup {client[c].rec : c \in done}
            /\ client' = [c \in Clients |->
                            IF c \in done THEN [pc |-> "idle", rec |-> NoRec]
                                          ELSE client[c]]
         /\ wait' = Remaining(n)
    /\ sync' = [sync EXCEPT !.pc = "idle"]
    /\ UNCHANGED <<buf, fl, upt_flush_lsn, nxt_fsync_lsn, bounds, mark, file,
                   durable, chkpt, stop>>

------------------------------------------------------------------------------
(* The checkpoint thread, as far as the log sees it                        *)

\* Bytes logged before the next file is opened never belong to it.
ChkptOpen ==
    /\ chkpt.pc = "none"
    /\ stop = "run"
    /\ chkpt.prevtime => ~file.next /\ ~file.prev
    /\ nxt_write_lsn.filenum < MaxFiles
    /\ chkpt' = [chkpt EXCEPT !.pc = "open", !.prevtime = FALSE]
    /\ file' = [file EXCEPT !.next = TRUE]
    /\ durable' = [durable EXCEPT ![file.num + 1] = wpos]
    /\ UNCHANGED <<buf, fl, upt_flush_lsn, nxt_fsync_lsn, bounds, mark, client,
                   wait, sync, acked, stop>>

ChkptScan ==
    /\ chkpt.pc = "open"
    /\ chkpt' = [chkpt EXCEPT !.pc = "scan"]
    /\ UNCHANGED <<buf, fl, upt_flush_lsn, nxt_fsync_lsn, bounds, mark, file,
                   durable, client, wait, sync, acked, stop>>

\* The scan is over and the snapshot, with its DONE record, is on disk: from
\* now on a recovery starts from this snapshot and its log file.
ChkptValid ==
    /\ chkpt.pc = "scan"
    /\ chkpt' = [chkpt EXCEPT !.pc = "valid", !.snap = file.num + 1]
    /\ UNCHANGED <<buf, fl, upt_flush_lsn, nxt_fsync_lsn, bounds, mark, file,
                   durable, client, wait, sync, acked, stop>>

\* do_log_buff_complete_dual_write(true)
ChkptDone ==
    /\ chkpt.pc = "valid"
    /\ bounds' = bounds \cup (IF open.start < wpos THEN {wpos} ELSE {})
    /\ open' = [open EXCEPT !.start = wpos]
    /\ mark' = wpos
    /\ nxt_write_lsn' = [filenum |-> nxt_write_lsn.filenum + 1,
                         roffset |-> dw_size]
    /\ chkpt' = [chkpt EXCEPT !.pc = "none", !.prevtime = TRUE]
    /\ UNCHANGED <<wpos, dw_size, fl, upt_flush_lsn, nxt_fsync_lsn, file,
                   durable, client, wait, sync, acked, stop>>

\* do_log_buff_complete_dual_write(false), then cmdlog_file_close(), which
\* takes log_fsync_lock.
ChkptFail ==
    /\ chkpt.pc \in {"open", "scan"}
    /\ chkpt' = [chkpt EXCEPT !.pc = "fail"]
    /\ open' = [open EXCEPT !.dual = FALSE]
    /\ dw_size' = 0
    /\ UNCHANGED <<nxt_write_lsn, wpos, fl, upt_flush_lsn, nxt_fsync_lsn,
                   bounds, mark, file, durable, client, wait, sync, acked,
                   stop>>

ChkptClose ==
    /\ chkpt.pc = "fail"
    /\ sync.pc \in {"idle", "collect"}
    /\ chkpt' = [chkpt EXCEPT !.pc = "none"]
    /\ file' = [file EXCEPT !.next = FALSE]
    /\ UNCHANGED <<buf, fl, upt_flush_lsn, nxt_fsync_lsn, bounds, mark,
                   durable, client, wait, sync, acked, stop>>

------------------------------------------------------------------------------
(* Shutdown: the worker threads are joined (no client is inside an update), *)
(* then cmdlog_mgr_final() stops the flush thread, then group commit.       *)

StopWorkers ==
    /\ stop = "run"
    /\ chkpt.pc = "none"
    /\ \A c \in Clients : client[c].pc \in {"idle", "waiting"}
    /\ stop' = "workers"
    /\ UNCHANGED <<buf, fl, upt_flush_lsn, nxt_fsync_lsn, bounds, mark, file,
                   durable, chkpt, client, wait, sync, acked>>

StopFlush ==
    /\ stop = "workers"
    /\ flush.pc = "idle"
    /\ stop' = "flush"
    /\ UNCHANGED <<buf, fl, upt_flush_lsn, nxt_fsync_lsn, bounds, mark, file,
                   durable, chkpt, client, wait, sync, acked>>

StopGcommit ==
    /\ stop = "flush"
    /\ sync.pc = "idle"
    /\ stop' = "gcommit"
    /\ UNCHANGED <<buf, fl, upt_flush_lsn, nxt_fsync_lsn, bounds, mark, file,
                   durable, chkpt, client, wait, sync, acked>>

ClientNext(c) ==
    \/ \E len \in RecSizes, dual, reply, wraps \in BOOLEAN :
         Log(c, len, dual, reply, wraps)
    \/ Request(c)
    \/ AckNow(c)
    \/ MustWait(c)
    \/ AddWaiter(c)

FlushNext ==
    \/ FlushBegin
    \/ FlushSwitch
    \/ FlushSwitched
    \/ FlushWrite
    \/ FlushWritten

SyncNextStep ==
    \/ SyncBegin
    \/ SyncFds
    \/ SyncCur
    \/ SyncNext
    \/ SyncSet
    \/ SyncCollect

ChkptNext ==
    \/ ChkptOpen
    \/ ChkptScan
    \/ ChkptValid
    \/ ChkptDone
    \/ ChkptFail
    \/ ChkptClose

StopNext ==
    \/ StopWorkers
    \/ StopFlush
    \/ StopGcommit

Next ==
    \/ \E c \in Clients : ClientNext(c)
    \/ FlushNext
    \/ SyncNextStep
    \/ ChkptNext
    \/ StopNext

Spec == Init /\ [][Next]_vars

\* The flush thread naps 10 ms, the group commit thread 1 s at most, and a
\* worker thread inside an update goes on; nothing obliges a client to send
\* another update or the checkpoint thread to run.
Fairness ==
    /\ \A c \in Clients : WF_vars(Request(c) \/ AckNow(c) \/ MustWait(c)
                                  \/ AddWaiter(c))
    /\ WF_vars(FlushNext)
    /\ WF_vars(SyncNextStep)

FairSpec == Spec /\ Fairness

------------------------------------------------------------------------------
(* Properties                                                              *)

Rec == [lsn : LSN, pos : Nat, len : Nat, dual : BOOLEAN]

FlushState  == [pc : {"idle", "switch", "switched", "write", "written"},
                upto : Nat, dw : Nat]
FileState   == [num : Nat, pos : Nat, next : BOOLEAN, prev : BOOLEAN]
ChkptState  == [pc : {"none", "open", "scan", "valid", "fail"},
                prevtime : BOOLEAN, snap : Nat]
ClientState == [pc : {"idle", "logged", "requested", "adding", "waiting"},
                rec : Rec]
SyncState   == [pc : {"idle", "fds", "cur", "next", "set", "collect"},
                lsn : LSN, pos : Nat, cur : Nat, next : Nat]

\* Offsets, positions and sizes stay naturals through the subtractions of
\* do_log_buff_flush(), and the log files stay within their number.
TypeOK ==
    /\ nxt_write_lsn \in LSN /\ nxt_flush_lsn \in LSN
    /\ upt_flush_lsn \in LSN /\ nxt_fsync_lsn \in LSN
    /\ wpos \in Nat /\ fpos \in Nat
    /\ bounds \subseteq Nat /\ open \in [start : Nat, dual : BOOLEAN]
    /\ mark \in Nat \cup {None} /\ dw_size \in Nat
    /\ flush \in FlushState
    /\ file \in FileState
    /\ durable \in [1..MaxFiles -> Nat]
    /\ chkpt \in ChkptState
    /\ client \in [Clients -> ClientState]
    /\ wait \in Seq(Clients)
    /\ sync \in SyncState
    /\ acked \subseteq Rec
    /\ stop \in {"run", "workers", "flush", "gcommit"}

\* Log records are fsynced only after they are flushed and flushed only after
\* they are written, in the order of (filenum, roffset) pairs, also across the
\* switch to the next log file, whose offsets start lower.
LsnOrder ==
    /\ LOGSN_IS_LE(nxt_fsync_lsn, nxt_flush_lsn)
    /\ LOGSN_IS_LE(nxt_flush_lsn, nxt_write_lsn)

\* Byte p of record r survives a power failure: it is in the snapshot that a
\* recovery starts from, or fsynced in the log file of that snapshot.
Survives(r, p) ==
    \/ r.lsn.filenum < chkpt.snap /\ ~r.dual
    \/ p < durable[chkpt.snap]

\* What the comparison of the waiter's LSN with nxt_fsync_lsn guarantees
\* (cmdlogmgr.c:196, 375): when a client is answered, everything logged
\* before the record and the record's first byte would survive a crash, at
\* any later moment and whatever a checkpoint does meanwhile.
AckedStartDurable == \A r \in acked : Survives(r, r.pos)

\* What the comparison is there for ("NOT yet fsynced", cmdlogmgr.c:197): an
\* answered client's record would survive a crash, all of it.
AckedDurable == \A r \in acked : Survives(r, r.pos + r.len - 1)

\* A client in the commit list is in it once, and is released in list order:
\* nobody is lost between the check of the fsync LSN and the list.
WaitListExact ==
    /\ \A c \in Clients : client[c].pc = "waiting"
                             <=> \E i \in 1..Len(wait) : wait[i] = c
    /\ \A i, j \in 1..Len(wait) : wait[i] = wait[j] => i = j

\* Every waiting client is answered: its flush request is not lost to a racing
\* request or file switch, and group commit does not fall asleep on it.
WaiterReleased ==
    \A c \in Clients :
        client[c].pc # "idle" /\ stop = "run"
            ~> client[c].pc = "idle" \/ stop # "run"
==============================================================================
