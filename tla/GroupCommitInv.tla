--------------------------- MODULE GroupCommitInv ----------------------------
(***************************************************************************)
(* The inductive invariant of GroupCommit, for any number of clients, any  *)
(* record and flush sizes and any number of checkpoints, and the first     *)
(* half of its proof: types, control, positions and log sequence numbers.  *)
(* GroupCommitProofs has the second half and the theorems.                 *)
(***************************************************************************)
EXTENDS GroupCommit, TLAPS

\* The records of updates under way and of acknowledged ones.
Live ==
    acked \cup {client[c].rec : c \in {x \in Clients : client[x].pc # "idle"}}

Switching == flush.pc \in {"switch", "switched"}

Active == flush.pc # "idle"

\* The LSN of stream position fpos in the file that byte goes to: nxt_flush_lsn
\* lags behind while a flush switches files.
FlushLsn ==
    IF Switching
    THEN [filenum |-> nxt_flush_lsn.filenum + 1, roffset |-> flush.dw]
    ELSE nxt_flush_lsn

\* The next log file is waiting for the flush thread to switch to it.
SwitchPending == mark # None \/ flush.pc = "switch"

\* The checkpoint thread, the flush thread and the log files agree on which
\* file is which.
Control ==
    /\ SwitchPending => chkpt.pc = "none" /\ chkpt.prevtime /\ file.next
    /\ flush.pc = "switch" => mark = None
    /\ chkpt.pc # "none" => file.next
    /\ chkpt.snap = file.num + (IF chkpt.pc = "valid" \/ SwitchPending
                                THEN 1 ELSE 0)
    /\ nxt_write_lsn.filenum = file.num + (IF SwitchPending THEN 1 ELSE 0)
    /\ nxt_flush_lsn.filenum = file.num - (IF flush.pc = "switched"
                                           THEN 1 ELSE 0)
    /\ file.num \in 1..MaxFiles
    /\ file.next => file.num + 1 \in 1..MaxFiles

\* Flush requests end where the stream has bytes, and the end of the dual
\* write is the end of a request.
Positions ==
    LET ends == bounds \cup {fpos} \cup (IF Active THEN {flush.upto} ELSE {})
    IN
    /\ fpos <= open.start /\ open.start <= wpos
    /\ \A b \in bounds : fpos < b /\ b <= open.start
    /\ Active => /\ fpos <= flush.upto /\ flush.upto <= open.start
                 /\ \A b \in bounds : flush.upto <= b
    /\ open.start \in ends
    /\ mark # None => /\ mark \in ends
                      /\ fpos <= mark /\ mark <= open.start
                      /\ Active => flush.upto <= mark

\* The LSNs advance with the positions.
Lsns ==
    /\ mark = None => nxt_write_lsn.roffset - FlushLsn.roffset = wpos - fpos
    /\ mark # None => nxt_write_lsn.roffset - dw_size = wpos - mark
    /\ LOGSN_IS_LE(nxt_fsync_lsn, nxt_flush_lsn)
    /\ LOGSN_IS_LE(sync.lsn, nxt_flush_lsn)
    /\ sync.pc \in {"cur", "next", "set"} =>
         LOGSN_IS_GT(sync.lsn, nxt_fsync_lsn)
    /\ sync.pos <= fpos /\ fpos <= file.pos
    /\ flush.pc = "written" => flush.upto <= file.pos

\* The LSN of a record tells where in the stream it is.
RecordAt(r) ==
    /\ r.lsn.filenum <= nxt_write_lsn.filenum /\ r.pos < wpos
    /\ r.lsn.filenum = nxt_write_lsn.filenum
         => wpos - r.pos = nxt_write_lsn.roffset - r.lsn.roffset
    /\ mark # None /\ r.lsn.filenum < nxt_write_lsn.filenum => r.pos < mark
    /\ r.lsn.filenum = FlushLsn.filenum
         => r.pos - fpos = r.lsn.roffset - FlushLsn.roffset
    /\ r.lsn.filenum < FlushLsn.filenum => r.pos < fpos
    /\ LOGSN_IS_GT(sync.lsn, r.lsn) => r.pos < sync.pos

Records == \A r \in Live : RecordAt(r)

\* The log files that a recovery may have to read.
InUse(f) == f = file.num \/ (file.next /\ f = file.num + 1)

\* An fsync round reaches every file in use that does not yet hold all bytes
\* the round is about.
SyncCovers ==
    \A f \in 1..MaxFiles : InUse(f) =>
        /\ sync.pc = "cur"  => \/ durable[f] >= sync.pos
                               \/ f = sync.cur \/ f = sync.next
        /\ sync.pc = "next" => durable[f] >= sync.pos \/ f = sync.next
        /\ sync.pc = "set"  => durable[f] >= sync.pos

\* A fsynced record survives a crash now, and after the snapshot that is being
\* written has become valid.
FsyncedSurvive ==
    \A r \in Live : LOGSN_IS_GT(nxt_fsync_lsn, r.lsn) =>
        /\ Survives(r, r.pos)
        /\ chkpt.pc \in {"open", "scan"} /\ r.dual
             => r.pos < durable[file.num + 1]

AckedFsynced == \A r \in acked : LOGSN_IS_GT(nxt_fsync_lsn, r.lsn)

\* The bookkeeping of the log as a whole: what cmdlogbuf.c, cmdlogfile.c and
\* cmdlogmgr.c keep under five different locks fits together after each step.
IInv ==
    /\ TypeOK /\ Control /\ Positions /\ Lsns /\ Records
    /\ SyncCovers /\ FsyncedSurvive /\ AckedFsynced /\ WaitListExact

------------------------------------------------------------------------------
(* Types                                                                   *)

\* The numbers that the positions and the LSNs are made of.
Numbers ==
    /\ nxt_write_lsn.filenum \in Nat /\ nxt_write_lsn.roffset \in Nat
    /\ nxt_flush_lsn.filenum \in Nat /\ nxt_flush_lsn.roffset \in Nat
    /\ nxt_fsync_lsn.filenum \in Nat /\ nxt_fsync_lsn.roffset \in Nat
    /\ sync.lsn.filenum \in Nat /\ sync.lsn.roffset \in Nat
    /\ sync.pos \in Nat /\ sync.cur \in Nat /\ sync.next \in Nat
    /\ wpos \in Nat /\ fpos \in Nat /\ dw_size \in Nat
    /\ bounds \subseteq Nat /\ open.start \in Nat
    /\ mark # None => mark \in Nat
    /\ flush.upto \in Nat /\ flush.dw \in Nat
    /\ file.num \in Nat /\ file.pos \in Nat
    /\ chkpt.snap \in Nat

\* A pair of naturals is an LSN, and the other way round.
LEMMA LsnFields ==
    /\ \A l \in LSN : l.filenum \in Nat /\ l.roffset \in Nat
    /\ \A n, o \in Nat : [filenum |-> n, roffset |-> o] \in LSN
    /\ \A l \in LSN, o \in Nat : [l EXCEPT !.roffset = o] \in LSN
    BY DEF LSN

\* The type invariant gives the numbers their type.
LEMMA TypeNumbers == TypeOK => Numbers
<1> SUFFICES ASSUME TypeOK PROVE Numbers
    OBVIOUS
<1>1. sync.lsn \in LSN
    BY DEF TypeOK, SyncState
<1> QED
    BY <1>1, LsnFields
    DEF TypeOK, Numbers, FlushState, FileState, ChkptState, SyncState

\* The fields of a log record have their types.
LEMMA RecFields ==
    /\ NoRec \in Rec
    /\ \A r \in Rec : /\ r.lsn \in LSN /\ r.pos \in Nat /\ r.len \in Nat
                      /\ r.lsn.filenum \in Nat /\ r.lsn.roffset \in Nat
                      /\ r.dual \in BOOLEAN
<1>1. NoLsn \in LSN
    BY LsnFields DEF NoLsn
<1> QED
    BY <1>1, LsnFields DEF Rec, NoRec

\* The counter of full requests in do_log_buff_write().
LEMMA DivBounds ==
    ASSUME NEW n \in Nat, NEW d \in Nat \ {0}
    PROVE  /\ n \div d \in Nat
           /\ (n \div d) * d \in Nat
           /\ (n \div d) * d <= n
           /\ n - (n \div d) * d < d
    OBVIOUS

\* More full requests take more room.
LEMMA MulMono ==
    ASSUME NEW i \in Nat, NEW j \in Nat, NEW d \in Nat \ {0}, i <= j
    PROVE  i * d \in Nat /\ i * d <= j * d
    OBVIOUS

\* A full request takes room.
LEMMA MulPos ==
    ASSUME NEW i \in Nat \ {0}, NEW d \in Nat \ {0}
    PROVE  i * d \in Nat /\ 0 < i * d
    OBVIOUS

------------------------------------------------------------------------------
(* What the actions do to the fields of the records                        *)

\* Log advances the write LSN within its file.
LEMMA LogFields ==
    ASSUME TypeOK, NEW c \in Clients, NEW len \in RecSizes,
           NEW dual \in BOOLEAN, NEW reply \in BOOLEAN, NEW wraps \in BOOLEAN,
           Log(c, len, dual, reply, wraps)
    PROVE  /\ nxt_write_lsn'.filenum = nxt_write_lsn.filenum
           /\ nxt_write_lsn'.roffset = nxt_write_lsn.roffset + len
           /\ nxt_write_lsn' \in LSN
           /\ open'.dual = dual
<1>1. nxt_write_lsn.roffset + len \in Nat
    BY TypeNumbers, ConstantAssumption DEF Numbers
<1>2. nxt_write_lsn' \in LSN
    BY <1>1, LsnFields DEF TypeOK, Log
<1> QED
    BY <1>2 DEF TypeOK, LSN, Log

\* FlushBegin picks a target and, at the mark, the switch.
LEMMA FlushBeginFields ==
    ASSUME TypeOK, FlushBegin
    PROVE  /\ flush'.upto \in FlushTargets
           /\ flush'.upto \in Nat /\ flush'.dw \in Nat
           /\ mark = fpos \/ flush'.upto > fpos
           /\ open'.start = IF bounds = {} /\ flush'.upto > fpos
                            THEN wpos ELSE open.start
           /\ open'.dual = open.dual
           /\ IF mark = fpos
              THEN /\ mark # None /\ mark' = None
                   /\ flush'.pc = "switch" /\ flush'.dw = dw_size
              ELSE mark' = mark /\ flush'.pc = "write"
<1>1. FlushTargets \subseteq Nat
    BY Zenon DEF FlushTargets, TypeOK
<1> QED
    BY <1>1 DEF TypeOK, FlushState, FlushBegin, None

\* FlushSwitch makes the next file the current one.
LEMMA FlushSwitchFields ==
    ASSUME TypeOK, FlushSwitch
    PROVE  /\ file'.num = file.num + 1 /\ file'.next = FALSE
           /\ file'.pos = file.pos
           /\ flush'.pc = "switched" /\ flush'.upto = flush.upto
           /\ flush'.dw = flush.dw
    BY DEF TypeOK, FileState, FlushState, FlushSwitch

\* FlushSwitched moves the flush LSN to the new file.
LEMMA FlushSwitchedFields ==
    ASSUME TypeOK, FlushSwitched
    PROVE  /\ nxt_flush_lsn'.filenum = nxt_flush_lsn.filenum + 1
           /\ nxt_flush_lsn'.roffset = flush.dw
           /\ flush'.pc = (IF flush.upto > fpos THEN "write" ELSE "idle")
           /\ flush'.upto = flush.upto
    BY DEF TypeOK, FlushState, FlushSwitched, SwitchedLsn

\* FlushWrite extends the file up to the target.
LEMMA FlushWriteFields ==
    ASSUME TypeOK, FlushWrite
    PROVE  /\ file'.num = file.num /\ file'.next = file.next
           /\ file'.pos = flush.upto
           /\ flush'.pc = "written" /\ flush'.upto = flush.upto
           /\ flush'.dw = flush.dw
    BY DEF TypeOK, FileState, FlushState, FlushWrite

\* FlushWritten advances the flush LSN within its file.
LEMMA FlushWrittenFields ==
    ASSUME TypeOK, FlushWritten
    PROVE  /\ nxt_flush_lsn'.filenum = nxt_flush_lsn.filenum
           /\ nxt_flush_lsn'.roffset
                = nxt_flush_lsn.roffset + (flush.upto - fpos)
           /\ flush'.pc = "idle" /\ flush'.upto = flush.upto
    BY DEF TypeOK, FlushState, LSN, FlushWritten, FlushedLsn

\* SyncBegin remembers the flush LSN and its position.
LEMMA SyncBeginFields ==
    ASSUME TypeOK, SyncBegin
    PROVE  sync'.pc = "fds" /\ sync'.lsn = nxt_flush_lsn /\ sync'.pos = fpos
    BY DEF TypeOK, SyncState, SyncBegin

\* SyncFds remembers the files to be fsynced.
LEMMA SyncFdsFields ==
    ASSUME TypeOK, SyncFds
    PROVE  /\ file'.num = file.num /\ file'.next = file.next
           /\ file'.pos = file.pos
           /\ sync'.pc = (IF LOGSN_IS_GT(sync.lsn, nxt_fsync_lsn)
                          THEN "cur" ELSE "collect")
           /\ sync'.lsn = sync.lsn /\ sync'.pos = sync.pos
           /\ sync'.cur = file.num
           /\ sync'.next = IF file.next THEN file.num + 1 ELSE 0
    BY DEF TypeOK, FileState, SyncState, SyncFds, NextFd

\* SyncCur goes on to the next file, if there is one.
LEMMA SyncCurFields ==
    ASSUME TypeOK, SyncCur
    PROVE  /\ sync'.pc = (IF sync.next # 0 THEN "next" ELSE "set")
           /\ sync'.lsn = sync.lsn /\ sync'.pos = sync.pos
           /\ sync'.cur = sync.cur /\ sync'.next = sync.next
    BY DEF TypeOK, SyncState, SyncCur

\* SyncNext ends the fsyncs of the round.
LEMMA SyncNextFields ==
    ASSUME TypeOK, SyncNext
    PROVE  /\ sync'.pc = "set"
           /\ sync'.lsn = sync.lsn /\ sync'.pos = sync.pos
    BY DEF TypeOK, SyncState, SyncNext

\* SyncSet publishes the LSN remembered by SyncBegin.
LEMMA SyncSetFields ==
    ASSUME TypeOK, SyncSet
    PROVE  /\ sync'.pc = "collect" /\ nxt_fsync_lsn' = sync.lsn
           /\ sync'.lsn = sync.lsn /\ sync'.pos = sync.pos
    BY DEF TypeOK, SyncState, SyncSet, FsyncedLsn

\* SyncCollect ends the round.
LEMMA SyncCollectFields ==
    ASSUME TypeOK, SyncCollect
    PROVE  sync'.pc = "idle" /\ sync'.lsn = sync.lsn /\ sync'.pos = sync.pos
    BY DEF TypeOK, SyncState, SyncCollect

\* ChkptOpen opens the next file.
LEMMA ChkptOpenFields ==
    ASSUME TypeOK, ChkptOpen
    PROVE  /\ file'.num = file.num /\ file'.next = TRUE /\ file'.pos = file.pos
           /\ chkpt'.pc = "open" /\ chkpt'.prevtime = FALSE
           /\ chkpt'.snap = chkpt.snap
    BY DEF TypeOK, FileState, ChkptState, ChkptOpen

\* ChkptScan starts the scan and nothing else.
LEMMA ChkptScanFields ==
    ASSUME TypeOK, ChkptScan
    PROVE  /\ chkpt'.pc = "scan" /\ chkpt'.prevtime = chkpt.prevtime
           /\ chkpt'.snap = chkpt.snap
    BY DEF TypeOK, ChkptState, ChkptScan

\* ChkptValid moves recovery to the next file.
LEMMA ChkptValidFields ==
    ASSUME TypeOK, ChkptValid
    PROVE  /\ chkpt'.pc = "valid" /\ chkpt'.prevtime = chkpt.prevtime
           /\ chkpt'.snap = file.num + 1
    BY DEF TypeOK, ChkptState, ChkptValid

\* ChkptDone moves the write LSN to the next file and sets the mark.
LEMMA ChkptDoneFields ==
    ASSUME TypeOK, ChkptDone
    PROVE  /\ nxt_write_lsn'.filenum = nxt_write_lsn.filenum + 1
           /\ nxt_write_lsn'.roffset = dw_size
           /\ chkpt'.pc = "none" /\ chkpt'.prevtime = TRUE
           /\ chkpt'.snap = chkpt.snap
           /\ open'.start = wpos /\ open'.dual = open.dual
           /\ mark' = wpos /\ mark' # None
    BY DEF TypeOK, ChkptState, ChkptDone, None

\* ChkptFail ends the dual write.
LEMMA ChkptFailFields ==
    ASSUME TypeOK, ChkptFail
    PROVE  /\ chkpt'.pc = "fail" /\ chkpt'.prevtime = chkpt.prevtime
           /\ chkpt'.snap = chkpt.snap
           /\ open'.start = open.start /\ open'.dual = FALSE
    BY DEF TypeOK, ChkptState, ChkptFail

\* ChkptClose drops the next file.
LEMMA ChkptCloseFields ==
    ASSUME TypeOK, ChkptClose
    PROVE  /\ chkpt'.pc = "none" /\ chkpt'.prevtime = chkpt.prevtime
           /\ chkpt'.snap = chkpt.snap
           /\ file'.num = file.num /\ file'.next = FALSE /\ file'.pos = file.pos
    BY DEF TypeOK, FileState, ChkptState, ChkptClose

------------------------------------------------------------------------------
(* The steps of the induction                                              *)

\* Every step keeps the types.  The flush LSN needs Positions: a request never
\* ends before the flush position.
LEMMA TypeStep == TypeOK /\ Positions /\ [Next]_vars => TypeOK'
<1> SUFFICES ASSUME TypeOK, Positions, [Next]_vars PROVE TypeOK'
    OBVIOUS
<1>0. Numbers
    BY TypeNumbers
<1>1. ASSUME NEW c \in Clients, NEW len \in RecSizes, NEW dual \in BOOLEAN,
             NEW reply \in BOOLEAN, NEW wraps \in BOOLEAN,
             Log(c, len, dual, reply, wraps)
      PROVE  TypeOK'
  <2> DEFINE closed == open.start < wpos /\ (open.dual # dual \/ wraps)
             start  == IF closed THEN wpos ELSE open.start
             full   == (wpos + len - start) \div AutoSize
  <2>1. len \in Nat /\ start \in Nat /\ wpos + len - start \in Nat
    BY <1>0, ConstantAssumption DEF Numbers, Positions
  <2>2. full \in Nat /\ full * AutoSize \in Nat
    BY <2>1, DivBounds, ConstantAssumption
  <2>3. \A i \in 1..full : start + i * AutoSize \in Nat
    BY <2>1, <2>2, MulMono, ConstantAssumption
  <2> HIDE DEF full
  <2>4. start + full * AutoSize \in Nat
    BY <2>1, <2>2
  <2>5. bounds' \subseteq Nat /\ open' \in [start : Nat, dual : BOOLEAN]
    <3> HIDE DEF start, closed
    <3>1. /\ bounds' = bounds \cup (IF closed THEN {wpos} ELSE {})
                              \cup {start + i * AutoSize : i \in 1..full}
          /\ open' = [start |-> start + full * AutoSize, dual |-> dual]
        BY <1>1 DEF Log, full, start, closed
    <3> QED
        BY <3>1, <2>3, <2>4, Zenon DEF TypeOK
  <2>6. client' \in [Clients -> ClientState]
    <3>1. [lsn |-> nxt_write_lsn, pos |-> wpos, len |-> len, dual |-> dual]
            \in Rec
        BY <2>1 DEF TypeOK, Rec
    <3> QED
        BY <1>1, <3>1 DEF TypeOK, ClientState, Log
  <2>7. nxt_write_lsn' \in LSN /\ wpos' \in Nat /\ dw_size' \in Nat
    <3>1. dw_size + len \in Nat /\ wpos + len \in Nat
        BY <1>0, <2>1 DEF Numbers
    <3> QED
        BY <1>0, <1>1, <3>1, LogFields, Zenon DEF Log, Numbers
  <2> QED
    BY <1>1, <2>5, <2>6, <2>7 DEF TypeOK, Log, fl
<1>2. ASSUME NEW c \in Clients, Request(c) PROVE TypeOK'
  <2>1. client[c].rec.lsn \in LSN
    BY RecFields DEF TypeOK, ClientState
  <2>2. client' \in [Clients -> ClientState] /\ upt_flush_lsn' \in LSN
    BY <1>2, <2>1 DEF TypeOK, ClientState, Request
  <2> QED
    BY <1>2, <2>2 DEF TypeOK, Request, buf, fl
<1>3. ASSUME NEW c \in Clients, AckNow(c) PROVE TypeOK'
  <2>1. client' \in [Clients -> ClientState] /\ acked' \subseteq Rec
    BY <1>3, RecFields DEF TypeOK, ClientState, AckNow
  <2> QED
    BY <1>3, <2>1 DEF TypeOK, AckNow, buf, fl
<1>4. ASSUME NEW c \in Clients, MustWait(c) PROVE TypeOK'
  <2>1. client' \in [Clients -> ClientState]
    BY <1>4 DEF TypeOK, ClientState, MustWait
  <2> QED
    BY <1>4, <2>1 DEF TypeOK, MustWait, buf, fl
<1>5. ASSUME NEW c \in Clients, AddWaiter(c) PROVE TypeOK'
  <2>1. wait' \in Seq(Clients)
    BY <1>5 DEF TypeOK, AddWaiter
  <2>2. client' \in [Clients -> ClientState]
    BY <1>5, Zenon DEF TypeOK, ClientState, AddWaiter
  <2> QED
    BY <1>5, <2>1, <2>2 DEF TypeOK, AddWaiter, buf, fl
<1>6. CASE FlushBegin
  <2>1. flush' \in FlushState
    BY <1>6, FlushBeginFields DEF FlushBegin, FlushState
  <2>2. open' \in [start : Nat, dual : BOOLEAN] /\ dw_size' \in Nat
    BY <1>6 DEF FlushBegin, TypeOK
  <2>3. mark' \in Nat \cup {None}
    BY <1>6 DEF FlushBegin, TypeOK
  <2> QED
    BY <1>6, <2>1, <2>2, <2>3 DEF TypeOK, FlushBegin
<1>7. CASE FlushSwitch
  <2>1. PICK async \in BOOLEAN :
          file' = [file EXCEPT !.num = @ + 1, !.next = FALSE, !.prev = ~async]
    BY <1>7, Zenon DEF FlushSwitch
  <2>2. file.num + 1 \in Nat /\ (~async) \in BOOLEAN
    BY <1>0 DEF Numbers
  <2>3. file' \in FileState
    BY <2>1, <2>2, Zenon DEF TypeOK, FileState
  <2>4. flush' \in FlushState
    BY <1>7 DEF FlushSwitch, TypeOK, FlushState
  <2> QED
    BY <1>7, <2>3, <2>4 DEF TypeOK, FlushSwitch, buf
<1>8. CASE FlushSwitched
  <2>1. nxt_flush_lsn' \in LSN
    BY <1>0, <1>8, LsnFields DEF FlushSwitched, SwitchedLsn, Numbers
  <2>2. flush' \in FlushState
    BY <1>8, Zenon DEF FlushSwitched, TypeOK, FlushState
  <2> QED
    BY <1>8, <2>1, <2>2 DEF TypeOK, FlushSwitched, buf
<1>9. CASE FlushWrite
  <2>1. flush' \in FlushState /\ file' \in FileState
    BY <1>9, Zenon DEF TypeOK, FlushState, FileState, FlushWrite
  <2> QED
    BY <1>9, <2>1 DEF TypeOK, FlushWrite, buf
<1>10. CASE FlushWritten
  <2>1. nxt_flush_lsn.roffset + (flush.upto - fpos) \in Nat
    BY <1>0, <1>10 DEF Positions, Active, FlushWritten, Numbers
  <2>2. nxt_flush_lsn' \in LSN
    BY <2>1, <1>10, LsnFields DEF FlushWritten, FlushedLsn, TypeOK
  <2>3. flush' \in FlushState
    BY <1>10 DEF FlushWritten, TypeOK, FlushState
  <2>4. fpos' \in Nat /\ bounds' \subseteq Nat
    BY <1>0, <1>10 DEF FlushWritten, Numbers
  <2> QED
    BY <1>10, <2>2, <2>3, <2>4 DEF TypeOK, FlushWritten, buf
<1>11. CASE SyncBegin
  <2>1. sync' \in SyncState
    BY <1>11, Zenon DEF SyncBegin, TypeOK, SyncState
  <2> QED
    BY <1>11, <2>1 DEF TypeOK, SyncBegin, buf, fl
<1>12. CASE SyncFds
  <2>1. NextFd \in Nat /\ file.num \in Nat
    BY <1>0 DEF NextFd, Numbers
  <2>2. sync' \in SyncState
    BY <1>12, <2>1, Zenon DEF SyncFds, TypeOK, SyncState
  <2>3. file' \in FileState
    BY <1>12, Zenon DEF SyncFds, TypeOK, FileState
  <2> QED
    BY <1>12, <2>2, <2>3 DEF TypeOK, SyncFds, buf, fl
<1>13. CASE SyncCur
  <2>1. durable' \in [1..MaxFiles -> Nat]
    BY <1>0, <1>13, Zenon DEF SyncCur, Fsync, TypeOK, Numbers
  <2>2. sync' \in SyncState
    BY <1>13, Zenon DEF SyncCur, TypeOK, SyncState
  <2> QED
    BY <1>13, <2>1, <2>2 DEF TypeOK, SyncCur, buf, fl
<1>14. CASE SyncNext
  <2>1. durable' \in [1..MaxFiles -> Nat]
    BY <1>0, <1>14, Zenon DEF SyncNext, Fsync, TypeOK, Numbers
  <2>2. sync' \in SyncState
    BY <1>14 DEF SyncNext, TypeOK, SyncState
  <2> QED
    BY <1>14, <2>1, <2>2 DEF TypeOK, SyncNext, buf, fl
<1>15. CASE SyncSet
  <2>1. sync' \in SyncState
    BY <1>15 DEF SyncSet, TypeOK, SyncState
  <2>2. nxt_fsync_lsn' \in LSN
    BY <1>15 DEF SyncSet, FsyncedLsn, TypeOK, SyncState
  <2> QED
    BY <1>15, <2>1, <2>2 DEF TypeOK, SyncSet, buf, fl
<1>16. CASE SyncCollect
  <2>1. sync' \in SyncState
    BY <1>16, Zenon DEF SyncCollect, TypeOK, SyncState
  <2>2. PICK n \in 0..Len(wait) :
          /\ acked' = acked \cup {client[c].rec : c \in {wait[i] : i \in 1..n}}
          /\ client' = [c \in Clients |->
                          IF c \in {wait[i] : i \in 1..n}
                          THEN [pc |-> "idle", rec |-> NoRec] ELSE client[c]]
          /\ wait' = Remaining(n)
    BY <1>16 DEF SyncCollect
  <2>3. {wait[i] : i \in 1..n} \subseteq Clients
    BY <2>2 DEF TypeOK
  <2>4. acked' \subseteq Rec
    BY <2>2, <2>3 DEF TypeOK, ClientState
  <2>5. client' \in [Clients -> ClientState]
    BY <2>2, RecFields DEF TypeOK, ClientState
  <2>6. wait' \in Seq(Clients)
    BY <2>2 DEF Remaining, TypeOK
  <2> QED
    BY <1>16, <2>1, <2>4, <2>5, <2>6, Zenon DEF TypeOK, SyncCollect, buf, fl
<1>17. CASE ChkptOpen
  <2>1. durable' \in [1..MaxFiles -> Nat]
    BY <1>17, Zenon DEF ChkptOpen, TypeOK
  <2>2. file' \in FileState
    BY <1>17, Zenon DEF ChkptOpen, TypeOK, FileState
  <2>3. chkpt' \in ChkptState
    BY <1>17, Zenon DEF ChkptOpen, TypeOK, ChkptState
  <2> QED
    BY <1>17, <2>1, <2>2, <2>3 DEF TypeOK, ChkptOpen, buf, fl
<1>18. CASE ChkptScan
  <2>1. chkpt' \in ChkptState
    BY <1>18 DEF ChkptScan, TypeOK, ChkptState
  <2> QED
    BY <1>18, <2>1 DEF TypeOK, ChkptScan, buf, fl
<1>19. CASE ChkptValid
  <2>1. file.num + 1 \in Nat
    BY <1>0 DEF Numbers
  <2>2. chkpt' \in ChkptState
    BY <1>19, <2>1, Zenon DEF ChkptValid, TypeOK, ChkptState
  <2> QED
    BY <1>19, <2>2 DEF TypeOK, ChkptValid, buf, fl
<1>20. CASE ChkptDone
  <2>1. nxt_write_lsn' \in LSN
    BY <1>0, <1>20, LsnFields DEF ChkptDone, Numbers
  <2>2. bounds' \subseteq Nat /\ open' \in [start : Nat, dual : BOOLEAN]
    BY <1>20 DEF ChkptDone, TypeOK
  <2>3. chkpt' \in ChkptState
    BY <1>20, Zenon DEF ChkptDone, TypeOK, ChkptState
  <2> QED
    BY <1>20, <2>1, <2>2, <2>3 DEF TypeOK, ChkptDone, fl
<1>21. CASE ChkptFail
  <2>1. chkpt' \in ChkptState
    BY <1>21, Zenon DEF ChkptFail, TypeOK, ChkptState
  <2>2. open' \in [start : Nat, dual : BOOLEAN] /\ dw_size' \in Nat
    BY <1>21, Zenon DEF ChkptFail, TypeOK
  <2> QED
    BY <1>21, <2>1, <2>2 DEF TypeOK, ChkptFail, fl
<1>22. CASE ChkptClose
  <2>1. chkpt' \in ChkptState /\ file' \in FileState
    BY <1>22, Zenon DEF ChkptClose, TypeOK, ChkptState, FileState
  <2> QED
    BY <1>22, <2>1 DEF TypeOK, ChkptClose, buf, fl
<1>23. CASE StopNext
    BY <1>23, Zenon DEF TypeOK, StopNext, StopWorkers, StopFlush, StopGcommit, buf, fl
<1>24. CASE UNCHANGED vars
    BY <1>24 DEF TypeOK, vars, buf, fl
<1> QED
    BY <1>1, <1>2, <1>3, <1>4, <1>5, <1>6, <1>7, <1>8, <1>9, <1>10, <1>11,
       <1>12, <1>13, <1>14, <1>15, <1>16, <1>17, <1>18, <1>19, <1>20, <1>21,
       <1>22, <1>23, <1>24
    DEF Next, ClientNext, FlushNext, SyncNextStep, ChkptNext

\* Every step keeps the checkpoint, the flush and the files in agreement: a
\* checkpoint cannot start before the switch of the one before it is done.
LEMMA ControlStep == TypeOK /\ Control /\ [Next]_vars => Control'
<1> SUFFICES ASSUME TypeOK, Control, [Next]_vars PROVE Control'
    OBVIOUS
<1> USE TypeNumbers, ConstantAssumption DEF Numbers, Control, SwitchPending
<1>1. ASSUME NEW c \in Clients, NEW len \in RecSizes, NEW dual \in BOOLEAN,
             NEW reply \in BOOLEAN, NEW wraps \in BOOLEAN,
             Log(c, len, dual, reply, wraps)
      PROVE  Control'
  <2>1. UNCHANGED <<mark, flush, chkpt, file, nxt_flush_lsn>>
    BY <1>1 DEF Log, fl
  <2> QED
    BY <1>1, <2>1, LogFields
<1>2. ASSUME NEW c \in Clients,
             Request(c) \/ AckNow(c) \/ MustWait(c) \/ AddWaiter(c)
      PROVE  Control'
    BY <1>2, Zenon DEF Request, AckNow, MustWait, AddWaiter, buf, fl
<1>3. CASE FlushBegin
    BY <1>3, FlushBeginFields DEF FlushBegin
<1>4. CASE FlushSwitch
    BY <1>4, FlushSwitchFields DEF FlushSwitch, buf
<1>5. CASE FlushSwitched
    BY <1>5, FlushSwitchedFields DEF FlushSwitched, buf
<1>6. CASE FlushWrite
    BY <1>6, FlushWriteFields DEF FlushWrite, buf
<1>7. CASE FlushWritten
    BY <1>7, FlushWrittenFields DEF FlushWritten, buf
<1>8. CASE SyncFds
    BY <1>8, SyncFdsFields DEF SyncFds, buf, fl
<1>9. CASE SyncBegin \/ SyncCur \/ SyncNext \/ SyncSet \/ SyncCollect
    BY <1>9, Zenon DEF SyncBegin, SyncCur, SyncNext, SyncSet, SyncCollect, buf, fl
<1>10. CASE ChkptOpen
    BY <1>10, ChkptOpenFields DEF ChkptOpen, buf, fl
<1>11. CASE ChkptScan
    BY <1>11, ChkptScanFields DEF ChkptScan, buf, fl
<1>12. CASE ChkptValid
    BY <1>12, ChkptValidFields DEF ChkptValid, buf, fl
<1>13. CASE ChkptDone
    BY <1>13, ChkptDoneFields DEF ChkptDone, fl
<1>14. CASE ChkptFail
    BY <1>14, ChkptFailFields DEF ChkptFail, fl
<1>15. CASE ChkptClose
    BY <1>15, ChkptCloseFields DEF ChkptClose, buf, fl
<1>16. CASE StopNext
    BY <1>16 DEF StopNext, StopWorkers, StopFlush, StopGcommit, buf, fl
<1>17. CASE UNCHANGED vars
    BY <1>17 DEF vars, buf, fl
<1> QED
    BY <1>1, <1>2, <1>3, <1>4, <1>5, <1>6, <1>7, <1>8, <1>9, <1>10, <1>11,
       <1>12, <1>13, <1>14, <1>15, <1>16, <1>17, Zenon
    DEF Next, ClientNext, FlushNext, SyncNextStep, ChkptNext

\* What a log record does to the requests: those it closes end after the start
\* of the open one, and the new open request starts where the last one ends.
LEMMA LogBounds ==
    ASSUME TypeOK, Positions, NEW c \in Clients, NEW len \in RecSizes,
           NEW dual \in BOOLEAN, NEW reply \in BOOLEAN, NEW wraps \in BOOLEAN,
           Log(c, len, dual, reply, wraps)
    PROVE  /\ bounds \subseteq bounds' /\ bounds' \subseteq Nat
           /\ \A b \in bounds' \ bounds : open.start < b /\ b <= open'.start
           /\ open'.start \in Nat
           /\ open.start <= open'.start /\ open'.start <= wpos + len
           /\ open'.start = open.start \/ open'.start \in bounds'
<1> DEFINE closed == open.start < wpos /\ (open.dual # dual \/ wraps)
           start  == IF closed THEN wpos ELSE open.start
           full   == (wpos + len - start) \div AutoSize
           news   == {start + i * AutoSize : i \in 1..full}
<1>1. /\ len \in Nat \ {0} /\ start \in Nat /\ wpos + len - start \in Nat
      /\ wpos \in Nat /\ open.start \in Nat /\ open.start <= start
      /\ start <= wpos /\ bounds \subseteq Nat
    BY TypeNumbers, ConstantAssumption DEF Numbers, Positions
<1>2. /\ full \in Nat /\ full * AutoSize \in Nat
      /\ full * AutoSize <= wpos + len - start
    BY <1>1, DivBounds, ConstantAssumption, Zenon
<1>3. /\ bounds' = bounds \cup (IF closed THEN {wpos} ELSE {}) \cup news
      /\ open' = [start |-> start + full * AutoSize, dual |-> dual]
    BY DEF Log
<1>4. closed => open.start < wpos /\ start = wpos
    OBVIOUS
<1>5. ~closed => start = open.start
    OBVIOUS
<1> HIDE DEF full, start, closed
<1>6. ASSUME NEW b \in news
      PROVE  b \in Nat /\ start < b /\ b <= start + full * AutoSize
  <2>1. PICK i \in 1..full : b = start + i * AutoSize
    OBVIOUS
  <2>2. i \in Nat \ {0} /\ i <= full
    BY <1>2
  <2>3. i * AutoSize \in Nat /\ i * AutoSize <= full * AutoSize
    BY <1>2, <2>2, MulMono, ConstantAssumption
  <2>4. 0 < i * AutoSize
    BY <2>2, MulPos, ConstantAssumption
  <2> QED
    BY <1>1, <1>2, <2>1, <2>3, <2>4
<1>7. full # 0 => start + full * AutoSize \in news
    BY <1>2
<1>8. full = 0 => start + full * AutoSize = start
    BY <1>1, ConstantAssumption
<1> HIDE DEF news
<1>9. open'.start = start + full * AutoSize
    BY <1>3
<1>10. bounds \subseteq bounds' /\ bounds' \subseteq Nat
    BY <1>1, <1>3, <1>6, Zenon
<1>11. open'.start \in Nat
    BY <1>1, <1>2, <1>9
<1>12. open.start <= open'.start /\ open'.start <= wpos + len
    BY <1>1, <1>2, <1>9
<1>13. ASSUME NEW b \in bounds' \ bounds
       PROVE  open.start < b /\ b <= open'.start
  <2>1. CASE b \in news
    BY <2>1, <1>1, <1>2, <1>6, <1>9
  <2>2. CASE closed /\ b = wpos
    BY <2>2, <1>1, <1>2, <1>4, <1>9
  <2> QED
    BY <2>1, <2>2, <1>3
<1>14. open'.start = open.start \/ open'.start \in bounds'
    BY <1>3, <1>4, <1>5, <1>7, <1>8, <1>9
<1> QED
    BY <1>10, <1>11, <1>12, <1>13, <1>14

\* Every step keeps the request boundaries in order.
LEMMA PositionsStep ==
    TypeOK /\ Control /\ Positions /\ [Next]_vars => Positions'
<1> SUFFICES ASSUME TypeOK, Control, Positions, [Next]_vars PROVE Positions'
    OBVIOUS
<1> USE TypeNumbers DEF Numbers, Positions, Active
<1>1. ASSUME NEW c \in Clients, NEW len \in RecSizes, NEW dual \in BOOLEAN,
             NEW reply \in BOOLEAN, NEW wraps \in BOOLEAN,
             Log(c, len, dual, reply, wraps)
      PROVE  Positions'
  <2>1. /\ fpos' = fpos /\ flush' = flush /\ mark' = mark
        /\ wpos' = wpos + len /\ len \in Nat
    BY <1>1, ConstantAssumption DEF Log, fl
  <2>2. /\ bounds \subseteq bounds' /\ bounds' \subseteq Nat
        /\ \A b \in bounds' \ bounds : open.start < b /\ b <= open'.start
        /\ open'.start \in Nat
        /\ open.start <= open'.start /\ open'.start <= wpos + len
        /\ open'.start = open.start \/ open'.start \in bounds'
    BY <1>1, LogBounds
  <2>3. \A b \in bounds' : fpos' < b /\ b <= open'.start
    BY <2>1, <2>2
  <2>4. Active => \A b \in bounds' : flush.upto <= b
    BY <2>1, <2>2
  <2> QED
    BY <2>1, <2>2, <2>3, <2>4
<1>2. ASSUME NEW c \in Clients,
             Request(c) \/ AckNow(c) \/ MustWait(c) \/ AddWaiter(c)
      PROVE  Positions'
    BY <1>2, Zenon DEF Request, AckNow, MustWait, AddWaiter, buf, fl
<1>3. CASE FlushBegin
  <2>1. /\ fpos' = fpos /\ wpos' = wpos /\ bounds' = bounds
        /\ flush.pc = "idle" /\ flush'.pc # "idle"
    BY <1>3, FlushBeginFields DEF FlushBegin
  <2>2. CASE bounds = {}
    BY <1>3, <2>1, <2>2, FlushBeginFields DEF FlushTargets
  <2>3. CASE bounds # {}
    BY <1>3, <2>1, <2>3, FlushBeginFields DEF FlushTargets
  <2> QED
    BY <2>2, <2>3
<1>4. CASE FlushSwitch
    BY <1>4, FlushSwitchFields DEF FlushSwitch, buf
<1>5. CASE FlushSwitched
    BY <1>5, FlushSwitchedFields DEF FlushSwitched, buf
<1>6. CASE FlushWrite
    BY <1>6, FlushWriteFields DEF FlushWrite, buf
<1>7. CASE FlushWritten
    BY <1>7, FlushWrittenFields DEF FlushWritten, buf
<1>8. CASE SyncNextStep
    BY <1>8, ZenonT(60) DEF SyncNextStep, SyncBegin, SyncFds, SyncCur, SyncNext, SyncSet,
                SyncCollect, buf, fl
<1>9. CASE ChkptDone
    BY <1>9, ChkptDoneFields DEF ChkptDone, Control, SwitchPending, fl
<1>10. CASE ChkptFail
    BY <1>10, ChkptFailFields DEF ChkptFail, fl
<1>11. CASE ChkptOpen \/ ChkptScan \/ ChkptValid \/ ChkptClose
    BY <1>11 DEF ChkptOpen, ChkptScan, ChkptValid, ChkptClose, buf, fl
<1>12. CASE StopNext
    BY <1>12 DEF StopNext, StopWorkers, StopFlush, StopGcommit, buf, fl
<1>13. CASE UNCHANGED vars
    BY <1>13 DEF vars, buf, fl
<1> QED
    BY <1>1, <1>2, <1>3, <1>4, <1>5, <1>6, <1>7, <1>8, <1>9, <1>10, <1>11,
       <1>12, <1>13, Zenon
    DEF Next, ClientNext, FlushNext, ChkptNext

\* Every step moves the LSNs and the positions together.
LEMMA LsnsStep ==
    TypeOK /\ Control /\ Positions /\ Lsns /\ [Next]_vars => Lsns'
<1> SUFFICES ASSUME TypeOK, Control, Positions, Lsns, [Next]_vars PROVE Lsns'
    OBVIOUS
<1> USE TypeNumbers DEF Numbers, Lsns, FlushLsn, Switching, LOGSN_IS_LE,
                        LOGSN_IS_GT
<1>1. ASSUME NEW c \in Clients, NEW len \in RecSizes, NEW dual \in BOOLEAN,
             NEW reply \in BOOLEAN, NEW wraps \in BOOLEAN,
             Log(c, len, dual, reply, wraps)
      PROVE  Lsns'
  <2>1. wpos' = wpos + len /\ len \in Nat
    BY <1>1, ConstantAssumption DEF Log
  <2>2. mark # None => dw_size' = dw_size
    BY <1>1, Zenon DEF Log, DualFlags, Control, SwitchPending
  <2>3. UNCHANGED <<mark, fl, nxt_fsync_lsn, sync, file>>
    BY <1>1 DEF Log
  <2> QED
    BY <1>1, <2>1, <2>2, <2>3, LogFields DEF fl
<1>2. ASSUME NEW c \in Clients,
             Request(c) \/ AckNow(c) \/ MustWait(c) \/ AddWaiter(c)
      PROVE  Lsns'
  <2>1. UNCHANGED <<buf, fl, nxt_fsync_lsn, mark, file, sync>>
    BY <1>2, Zenon DEF Request, AckNow, MustWait, AddWaiter
  <2> QED
    BY <2>1 DEF buf, fl
<1>3. CASE FlushBegin
  <2>1. UNCHANGED <<nxt_write_lsn, wpos, nxt_flush_lsn, fpos, nxt_fsync_lsn,
                    sync, file>>
    BY <1>3 DEF FlushBegin
  <2>2. mark # fpos => dw_size' = dw_size
    BY <1>3 DEF FlushBegin
  <2> QED
    BY <1>3, <2>1, <2>2, FlushBeginFields DEF FlushBegin
<1>4. CASE FlushSwitch
    BY <1>4, FlushSwitchFields DEF FlushSwitch, Control, buf
<1>5. CASE FlushSwitched
    BY <1>5, FlushSwitchedFields DEF FlushSwitched, buf
<1>6. CASE FlushWrite
    BY <1>6, FlushWriteFields DEF FlushWrite, Positions, Active, buf
<1>7. CASE FlushWritten
    BY <1>7, FlushWrittenFields DEF FlushWritten, Positions, Active, buf
<1>8. CASE SyncBegin
  <2>1. UNCHANGED <<buf, fl, nxt_fsync_lsn, mark, file>>
    BY <1>8 DEF SyncBegin
  <2>2. /\ sync'.pc = "fds" /\ sync'.pos = fpos
        /\ sync'.lsn.filenum = nxt_flush_lsn.filenum
        /\ sync'.lsn.roffset = nxt_flush_lsn.roffset
    BY <1>8, SyncBeginFields
  <2> QED
    BY <2>1, <2>2 DEF buf, fl
<1>9. CASE SyncFds
    BY <1>9, SyncFdsFields DEF SyncFds, buf, fl
<1>10. CASE SyncCur
    BY <1>10, SyncCurFields DEF SyncCur, buf, fl
<1>11. CASE SyncNext
    BY <1>11, SyncNextFields DEF SyncNext, buf, fl
<1>12. CASE SyncSet
    BY <1>12, SyncSetFields DEF SyncSet, buf, fl
<1>13. CASE SyncCollect
    BY <1>13, SyncCollectFields DEF SyncCollect, buf, fl
<1>14. CASE ChkptDone
    BY <1>14, ChkptDoneFields DEF ChkptDone, fl
<1>15. CASE ChkptFail
    BY <1>15, ChkptFailFields DEF ChkptFail, Control, SwitchPending, fl
<1>16. CASE ChkptOpen
    BY <1>16, ChkptOpenFields DEF ChkptOpen, buf, fl
<1>17. CASE ChkptClose
    BY <1>17, ChkptCloseFields DEF ChkptClose, buf, fl
<1>18. CASE ChkptScan \/ ChkptValid
    BY <1>18 DEF ChkptScan, ChkptValid, buf, fl
<1>19. CASE StopNext
    BY <1>19 DEF StopNext, StopWorkers, StopFlush, StopGcommit, buf, fl
<1>20. CASE UNCHANGED vars
    BY <1>20, Zenon DEF vars, buf, fl
<1> QED
    BY <1>1, <1>2, <1>3, <1>4, <1>5, <1>6, <1>7, <1>8, <1>9, <1>10, <1>11,
       <1>12, <1>13, <1>14, <1>15, <1>16, <1>17, <1>18, <1>19, <1>20, Zenon
    DEF Next, ClientNext, FlushNext, SyncNextStep, ChkptNext

\* The order of the LSNs follows from the bookkeeping of files and positions.
LEMMA OrderFromIInv == TypeOK /\ Control /\ Positions /\ Lsns => LsnOrder
<1> SUFFICES ASSUME TypeOK, Control, Positions, Lsns PROVE LsnOrder
    OBVIOUS
<1>1. LOGSN_IS_LE(nxt_flush_lsn, nxt_write_lsn)
    BY TypeNumbers DEF Numbers, Control, SwitchPending, Positions, Lsns,
                       FlushLsn, Switching, LOGSN_IS_LE
<1> QED
    BY <1>1 DEF LsnOrder, Lsns
==============================================================================
