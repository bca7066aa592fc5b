----------------------------- MODULE Checkpoint -----------------------------
(***************************************************************************)
(* Checkpoint, snapshot and crash recovery of the default engine           *)
(* (checkpoint.c, chkpt_snapshot.c and the redo half of cmdlogrec.c).      *)
(*                                                                         *)
(* Updates run under the cache lock and append one record to the log       *)
(* buffer.  While a checkpoint scans the table, a record about a key the   *)
(* scan has already passed is written to the next log file as well.  A     *)
(* process crash loses the memory and the buffer and keeps the files; the  *)
(* restarted server loads the newest complete snapshot and replays its log.*)
(*                                                                         *)
(* The module sits on two others: CmdLogBuf shows that the buffer and the  *)
(* flush thread are a FIFO that switches files at the record where the     *)
(* scan ended, and Assoc that "visited" is exactly the set of items the    *)
(* scan has returned, once it has begun.  Here the buffer is a sequence of *)
(* records and the scan a growing set of keys.                             *)
(*                                                                         *)
(* An item is the sequence of the update numbers that made it: <<>> is no  *)
(* item, <<v>> the item linked by update v, <<v, e1, ..., en>> a list with *)
(* n elements.                                                             *)
(***************************************************************************)
EXTENDS Integers, FiniteSets, Sequences, FiniteSetsExt

CONSTANTS
  Keys,         \* the keys clients use
  Lists,        \* the keys that hold list collections
  Exps,         \* the exptimes in use: FALSE is "never expires"
  Commands,     \* the commands the clients issue
  MaxTime,      \* bound: checkpoint times after FirstTime
  MaxUpdates,   \* bound: updates
  MaxBuf,       \* bound: records waiting in the log buffer
  MaxCrashes,   \* bound: crashes
  IntMod,       \* the number of values of a C int, scaled
  FirstTime,    \* the first YYYYMMDDHHMMSS number, scaled: beyond an int
  UnlinkFails   \* TRUE: unlink() may fail

ASSUME ConstantAssumption ==
  /\ Lists \subseteq Keys
  /\ Exps \subseteq BOOLEAN
  /\ Commands \subseteq {"set", "delete", "insert", "pop", "flush"}
  /\ MaxTime \in Nat /\ MaxUpdates \in Nat /\ MaxBuf \in Nat
  /\ MaxCrashes \in Nat
  /\ IntMod \in Nat \ {0}
  /\ FirstTime \in Nat /\ FirstTime >= IntMod
  /\ UnlinkFails \in BOOLEAN

VARIABLES
  mem,       \* the hash table: the item of each key
  update,    \* number of updates so far; update v writes value v
  expires,   \* the linked items that have an expiration time
  expired,   \* those whose expiration time has passed
  buf,       \* the log buffer: records and the switch mark, oldest first
  snap,      \* snapshot_<time> files
  log,       \* cmdlog_<time> files
  fd,        \* log_FILE: the current, next and previous log file
  cs,        \* chkpt_st and the position of the checkpoint thread
  scan,      \* the checkpoint scan: is it chkpt_scanp, the visited keys, and
             \* those that its tabidx puts behind it before it is set
  up,        \* is the server running
  crashes    \* number of crashes so far

vars == <<mem, update, expires, expired, buf, snap, log, fd, cs, scan, up,
          crashes>>

Times == FirstTime .. FirstTime + MaxTime

NoTime == -1

NoItem == <<>>

NoScan == [on |-> FALSE, visited |-> {}, unset |-> {}]

Empty == [k \in Keys |-> NoItem]

-----------------------------------------------------------------------------
(***************************************************************************)
(* Items and log records.  Two fields are history that properties use:     *)
(* "old", the table before the update, and "early", the checkpoint for     *)
(* which the record is written to two logs before its scan has begun.      *)
(***************************************************************************)

\* do_item_isvalid: an expired item is as good as absent.
Valid(item) == item # NoItem /\ Head(item) \notin expired

View(m) == [k \in Keys |-> IF Valid(m[k]) THEN m[k] ELSE NoItem]

Early(type, k) ==
  IF scan.on /\ type # "flush" /\ k \in scan.unset THEN cs.newtime ELSE NoTime

Rec(type, k, v, n) ==
  [type |-> type, key |-> k, v |-> v, n |-> n, early |-> Early(type, k)]

NEED_DUAL_WRITE_Mutant(r) == scan.on

\* A record goes to the next log too when the scan is past its key, or seems
\* to be, or when it is about no key in particular.
NEED_DUAL_WRITE(r) ==
  scan.on /\ (r.type = "flush" \/ r.key \in scan.visited \union scan.unset)

\* info->ccnt of a list item.
ElemCount(item) == Len(item) - 1

CountMatches(item, n) == ElemCount(item) = n

LinkRedone(v) == v \notin expired

\* Redoing one record.  An element record whose element count differs from
\* the list's removes the "inconsistent" item.
lrec_redo(m, r) ==
  CASE r.type = "link"   -> IF LinkRedone(r.v)
                            THEN [m EXCEPT ![r.key] = <<r.v>>] ELSE m
    [] r.type = "unlink" -> [m EXCEPT ![r.key] = NoItem]
    [] r.type = "flush"  -> Empty
    [] r.type \in {"insert", "pop"} /\ ~Valid(m[r.key]) -> m
    [] r.type \in {"insert", "pop"} /\ Valid(m[r.key]) ->
         [m EXCEPT ![r.key] =
            IF ~CountMatches(@, r.n) THEN NoItem
            ELSE IF r.type = "insert" THEN Append(@, r.v)
            ELSE IF r.n = 0 THEN @
            ELSE <<Head(@)>> \o Tail(Tail(@))]

\* cmdlog_file_apply: the records of a log file over a table.
cmdlog_file_apply(m, recs) ==
  LET redo[n \in 0 .. Len(recs)] ==
        IF n = 0 THEN m ELSE lrec_redo(redo[n - 1], recs[n])
  IN  redo[Len(recs)]

\* chkpt_snapshot_file_apply: one link record and one element record for each
\* element; items that have expired since are skipped.
chkpt_snapshot_file_apply(data) == View(data)

-----------------------------------------------------------------------------
(***************************************************************************)
(* Client updates, under the cache lock.                                   *)
(***************************************************************************)

\* An update: the new table m, and its record r in the buffer.
Update(m, r) ==
  /\ up /\ Len(buf) < MaxBuf /\ update < MaxUpdates
  /\ mem' = m
  /\ update' = update + 1
  /\ buf' = Append(buf, [rec |-> r, dual |-> NEED_DUAL_WRITE(r),
                         old |-> View(mem)])
  /\ UNCHANGED <<expired, snap, log, fd, cs, scan, up, crashes>>

\* set, lop create and the like: link a new item in place of the old one.
do_item_link(k, exp) ==
  /\ "set" \in Commands
  /\ (k \in Lists => ~Valid(mem[k]))
  /\ expires' = IF exp THEN expires \union {update + 1} ELSE expires
  /\ Update([mem EXCEPT ![k] = <<update + 1>>],
            Rec("link", k, update + 1, 0))

\* delete, and eviction for want of memory.
do_item_unlink(k) ==
  /\ "delete" \in Commands
  /\ Valid(mem[k])
  /\ Update([mem EXCEPT ![k] = NoItem], Rec("unlink", k, update + 1, 0))
  /\ UNCHANGED expires

\* lop insert at the tail: the record holds the count before the insertion.
do_list_elem_insert(k) ==
  /\ "insert" \in Commands
  /\ k \in Lists /\ Valid(mem[k])
  /\ Update([mem EXCEPT ![k] = Append(@, update + 1)],
            Rec("insert", k, update + 1, ElemCount(mem[k])))
  /\ UNCHANGED expires

\* lop delete of the first element, without drop.
do_list_elem_delete(k) ==
  /\ "pop" \in Commands
  /\ k \in Lists /\ Valid(mem[k]) /\ ElemCount(mem[k]) > 0
  /\ Update([mem EXCEPT ![k] = <<Head(@)>> \o Tail(Tail(@))],
            Rec("pop", k, update + 1, ElemCount(mem[k])))
  /\ UNCHANGED expires

\* flush_all without a delay: every item is invalid from now on.
do_item_flush_expired ==
  /\ "flush" \in Commands
  /\ Update(Empty, Rec("flush", CHOOSE k \in Keys : TRUE, update + 1, 0))
  /\ UNCHANGED expires

\* Time passes, also while the server is down: an item expires.
Expire(v) ==
  /\ expired' = expired \union {v}
  /\ UNCHANGED <<mem, update, expires, buf, snap, log, fd, cs, scan, up,
                 crashes>>

-----------------------------------------------------------------------------
(***************************************************************************)
(* The log flush thread and the log files.  A file that was unlinked while *)
(* open takes the writes and loses them.                                   *)
(***************************************************************************)

SwitchMark == [switch |-> TRUE]

IsSwitch(e) == "switch" \in DOMAIN e

\* The files a record is written to.
Targets(e) == {fd.cur} \union (IF e.dual THEN {fd.next} ELSE {})

\* do_log_buff_flush of the oldest record: cmdlog_file_write to the current
\* file and, if the record is marked dual, to the next one.
FlushRecord ==
  /\ up /\ buf # <<>> /\ ~IsSwitch(Head(buf))
  /\ log' = [t \in Times |->
               IF t \in Targets(Head(buf)) /\ log[t].exists
               THEN [log[t] EXCEPT !.recs = Append(@, Head(buf).rec)]
               ELSE log[t]]
  /\ buf' = Tail(buf)
  /\ UNCHANGED <<mem, update, expires, expired, snap, fd, cs, scan, up,
                 crashes>>

\* cmdlog_file_complete_dual_write: all records up to the end of the scan are
\* flushed, the next file becomes the current one.
cmdlog_file_complete_dual_write ==
  /\ up /\ buf # <<>> /\ IsSwitch(Head(buf))
  /\ buf' = Tail(buf)
  /\ fd' = [cur |-> fd.next, next |-> NoTime, prev |-> fd.cur]
  /\ UNCHANGED <<mem, update, expires, expired, snap, log, cs, scan, up,
                 crashes>>

\* cmdlog_file_sync closes the previous file after its last fsync.
cmdlog_file_sync ==
  /\ up /\ fd.prev # NoTime
  /\ fd' = [fd EXCEPT !.prev = NoTime]
  /\ UNCHANGED <<mem, update, expires, expired, buf, snap, log, cs, scan, up,
                 crashes>>

cmdlog_file_dual_write_finished_Mutant == fd.prev = NoTime

cmdlog_file_dual_write_finished == fd.next = NoTime /\ fd.prev = NoTime

-----------------------------------------------------------------------------
(***************************************************************************)
(* Checkpoint files.                                                       *)
(***************************************************************************)

NoSnap == [state |-> "none", data |-> Empty]

NoLog == [exists |-> FALSE, recs |-> <<>>]

\* The outcomes of unlink() on one file: removed or, on an error, kept.
Unlinked == IF UnlinkFails THEN BOOLEAN ELSE {TRUE}

\* do_chkpt_remove_files(t): the log file is not tried when the snapshot file
\* cannot be removed.  s and l say which unlink succeeds.
RemovedSnap(t, s) == IF s THEN [snap EXCEPT ![t] = NoSnap] ELSE snap

RemovedLog(t, s, l) == IF s /\ l THEN [log EXCEPT ![t] = NoLog] ELSE log

NeedRemove_Mutant(ok) == ~ok

\* need_remove after a removal: a failed one is remembered until a sweep.
NeedRemove(ok) == cs.need_remove \/ ~ok

\* The times of the files on disk.
OnDisk == {t \in Times : snap[t].state # "none" \/ log[t].exists}

\* atoi() of the digits of a file name: a YYYYMMDDHHMMSS number needs 45 bits,
\* and atoi keeps those of an int.
atoi(t) == t % IntMod

Spared(t) == cs.lasttime = atoi(t)

\* do_chkpt_sweep_files.  Each directory is swept until an unlink fails: ks
\* and kl are the snapshot and log files that are left then.
do_chkpt_sweep_files(ks, kl) ==
  /\ up /\ cs.pc = "idle" /\ cs.need_remove
  /\ \A t \in ks : snap[t].state # "none" /\ ~Spared(t)
  /\ \A t \in kl : log[t].exists /\ ~Spared(t)
  /\ snap' = [t \in Times |-> IF Spared(t) \/ t \in ks THEN snap[t] ELSE NoSnap]
  /\ log' = [t \in Times |-> IF Spared(t) \/ t \in kl THEN log[t] ELSE NoLog]
  /\ cs' = [cs EXCEPT !.need_remove = (ks # {} \/ kl # {})]
  /\ UNCHANGED <<mem, update, expires, expired, buf, fd, scan, up, crashes>>

\* chkpt_thread_main, first half: the previous checkpoint's files go once the
\* dual write has ended; prevtime is reset even if they cannot be removed.
RemovePrevious(s, l) ==
  /\ up /\ cs.pc = "idle" /\ cs.prevtime # NoTime
  /\ cmdlog_file_dual_write_finished
  /\ snap' = RemovedSnap(cs.prevtime, s)
  /\ log' = RemovedLog(cs.prevtime, s, l)
  /\ cs' = [cs EXCEPT !.prevtime = NoTime,
                      !.need_remove = NeedRemove(s /\ l)]
  /\ UNCHANGED <<mem, update, expires, expired, buf, fd, scan, up, crashes>>

\* getnowdatetime_int: a local time, later than all earlier ones (the next, as
\* only the order matters).  The clock is assumed never to be set back.
Now(t) == t = cs.clock + 1

-----------------------------------------------------------------------------
(***************************************************************************)
(* do_checkpoint, from the checkpoint thread.                              *)
(***************************************************************************)

\* do_chkpt_create_files succeeds, cmdlog_file_open opens the next log file.
CreateFiles(t) ==
  /\ up /\ cs.pc = "idle" /\ cs.prevtime = NoTime /\ Now(t)
  /\ cs' = [cs EXCEPT !.pc = "open", !.newtime = t, !.clock = t]
  /\ snap' = [snap EXCEPT ![t] = IF @.state = "none"
                                 THEN [NoSnap EXCEPT !.state = "part"] ELSE @]
  /\ log' = [log EXCEPT ![t].exists = TRUE]
  /\ fd' = [fd EXCEPT !.next = t]
  /\ UNCHANGED <<mem, update, expires, expired, buf, scan, up, crashes>>

\* do_chkpt_create_files fails on the log file; the new snapshot file is
\* removed again, or not (CHKPT_ERROR_FILE_REMOVE).
CreateFails(t, s) ==
  /\ UnlinkFails
  /\ up /\ cs.pc = "idle" /\ cs.prevtime = NoTime /\ Now(t)
  /\ snap[t].state = "none" /\ ~log[t].exists
  /\ snap' = IF s THEN snap
             ELSE [snap EXCEPT ![t] = [NoSnap EXCEPT !.state = "part"]]
  /\ cs' = [cs EXCEPT !.need_remove = NeedRemove(s), !.clock = t]
  /\ UNCHANGED <<mem, update, expires, expired, buf, log, fd, scan, up,
                 crashes>>

\* do_snapshot_action opens its file with O_TRUNC, item_scan_open sets
\* chkpt_scanp under the cache lock.  assoc_scan_init does not set tabidx, and
\* the scan is a variable on the stack: until the first item_scan_getnext it is
\* in bucket 0 behind whatever items of that bucket the old bytes say.
item_scan_open ==
  /\ up /\ cs.pc = "open"
  /\ cs' = [cs EXCEPT !.pc = "scan"]
  /\ snap' = [snap EXCEPT ![cs.newtime] = [NoSnap EXCEPT !.state = "part"]]
  /\ \E unset \in SUBSET Keys :
       scan' = [on |-> TRUE, visited |-> {}, unset |-> unset]
  /\ UNCHANGED <<mem, update, expires, expired, buf, log, fd, up, crashes>>

\* item_scan_getnext takes the items at the scan position under the cache
\* lock; the snapshot file gets those that are valid.
item_scan_getnext(k) ==
  /\ up /\ cs.pc = "scan" /\ k \notin scan.visited
  /\ scan' = [scan EXCEPT !.visited = @ \union {k}, !.unset = {}]
  /\ snap' = [snap EXCEPT ![cs.newtime].data[k] = View(mem)[k]]
  /\ UNCHANGED <<mem, update, expires, expired, buf, log, fd, cs, up, crashes>>

ScanAtEnd_Mutant == scan.visited # Keys

\* item_scan_getnext has no more items.
ScanAtEnd == scan.visited = Keys

\* do_snapshot_data_done: the scan has reached the end, the snapshot gets its
\* final record and is on disk.  chkpt_scanp is still set.
do_snapshot_data_done ==
  /\ up /\ cs.pc = "scan" /\ ScanAtEnd
  /\ snap' = [snap EXCEPT ![cs.newtime].state = "done"]
  /\ cs' = [cs EXCEPT !.pc = "done"]
  /\ UNCHANGED <<mem, update, expires, expired, buf, log, fd, scan, up,
                 crashes>>

\* cmdlog_buff_complete_dual_write(true).
Marked(b) == Append(b, SwitchMark)

\* item_scan_close(success): cmdlog_reset_chkpt_scan marks the place in the
\* buffer where the log files are switched.
item_scan_close ==
  /\ up /\ cs.pc = "done"
  /\ scan' = NoScan
  /\ buf' = Marked(buf)
  /\ cs' = [cs EXCEPT !.pc = "closed"]
  /\ UNCHANGED <<mem, update, expires, expired, snap, log, fd, up, crashes>>

\* do_checkpoint returns CHKPT_SUCCESS.
CheckpointDone ==
  /\ up /\ cs.pc = "closed"
  /\ cs' = [cs EXCEPT !.pc = "idle", !.newtime = NoTime,
                      !.prevtime = cs.lasttime, !.lasttime = cs.newtime]
  /\ UNCHANGED <<mem, update, expires, expired, buf, snap, log, fd, scan, up,
                 crashes>>

Single(e) == IF IsSwitch(e) THEN e ELSE [e EXCEPT !.dual = FALSE]

\* The snapshot fails: a write error, no memory, a user's snapshot already
\* running, a stop request.  item_scan_close(failure) clears the dual marks of
\* the buffered records.
SnapshotFails ==
  /\ up /\ cs.pc \in {"open", "scan"}
  /\ scan' = NoScan
  /\ buf' = [i \in DOMAIN buf |-> Single(buf[i])]
  /\ cs' = [cs EXCEPT !.pc = "failed"]
  /\ UNCHANGED <<mem, update, expires, expired, snap, log, fd, up, crashes>>

\* cmdlog_file_close closes the next log file, do_chkpt_remove_files removes
\* the files of the failed checkpoint.
RemoveFailed(s, l) ==
  /\ up /\ cs.pc = "failed"
  /\ fd' = [fd EXCEPT !.next = NoTime]
  /\ snap' = RemovedSnap(cs.newtime, s)
  /\ log' = RemovedLog(cs.newtime, s, l)
  /\ cs' = [cs EXCEPT !.pc = "idle", !.newtime = NoTime,
                      !.need_remove = NeedRemove(s /\ l)]
  /\ UNCHANGED <<mem, update, expires, expired, buf, scan, up, crashes>>

-----------------------------------------------------------------------------
(***************************************************************************)
(* Crash and restart.                                                      *)
(***************************************************************************)

\* The snapshots that end with the SNAPSHOT_DONE record.
Complete == {t \in Times : snap[t].state = "done"}

\* chkpt_recovery_analysis: the last complete snapshot by name, 14 digits.
chkpt_recovery_analysis == IF Complete = {} THEN NoTime ELSE Max(Complete)

\* chkpt_recovery_redo: the table the server starts with.
Recovered ==
  LET t == chkpt_recovery_analysis IN
  IF t = NoTime THEN Empty
  ELSE cmdlog_file_apply(chkpt_snapshot_file_apply(snap[t].data), log[t].recs)

\* A checkpoint thread that has just started: lasttime t.  "left" is history:
\* the other checkpoints whose files the server finds on disk.
StartedAt(t, clock) ==
  [pc |-> "idle", lasttime |-> t, prevtime |-> NoTime, newtime |-> NoTime,
   need_remove |-> FALSE, clock |-> clock, left |-> OnDisk \ {t}]

\* The process dies; the files keep what was written.
Crash ==
  /\ up /\ crashes < MaxCrashes
  /\ up' = FALSE
  /\ crashes' = crashes + 1
  /\ mem' = Empty /\ buf' = <<>> /\ scan' = NoScan
  /\ fd' = [cur |-> NoTime, next |-> NoTime, prev |-> NoTime]
  /\ cs' = StartedAt(NoTime, cs.clock)
  /\ UNCHANGED <<update, expires, expired, snap, log>>

\* Restart on a complete snapshot.  cmdlog_file_open creates the log file if
\* there is none.
Recover ==
  /\ ~up /\ Complete # {}
  /\ up' = TRUE
  /\ mem' = Recovered
  /\ log' = [log EXCEPT ![chkpt_recovery_analysis].exists = TRUE]
  /\ fd' = [cur |-> chkpt_recovery_analysis, next |-> NoTime, prev |-> NoTime]
  /\ cs' = StartedAt(chkpt_recovery_analysis, cs.clock)
  /\ UNCHANGED <<update, expires, expired, buf, snap, scan, crashes>>

\* Restart without one: the first checkpoint, of an empty table.  There is no
\* chkpt_scanp and no client yet.
FirstCheckpoint(t) ==
  /\ ~up /\ Complete = {} /\ Now(t)
  /\ up' = TRUE
  /\ snap' = [snap EXCEPT ![t] = [NoSnap EXCEPT !.state = "done"]]
  /\ log' = [log EXCEPT ![t].exists = TRUE]
  /\ fd' = [cur |-> t, next |-> NoTime, prev |-> NoTime]
  /\ cs' = StartedAt(t, t)
  /\ UNCHANGED <<mem, update, expires, expired, buf, scan, crashes>>

-----------------------------------------------------------------------------
Init ==
  /\ mem = Empty /\ update = 0
  /\ expires = {} /\ expired = {}
  /\ buf = <<>>
  /\ snap = [t \in Times |-> NoSnap]
  /\ log = [t \in Times |-> NoLog]
  /\ fd = [cur |-> NoTime, next |-> NoTime, prev |-> NoTime]
  /\ cs = StartedAt(NoTime, FirstTime - 1)
  /\ scan = NoScan
  /\ up = FALSE /\ crashes = 0

Client ==
  \/ \E k \in Keys, exp \in Exps : do_item_link(k, exp)
  \/ \E k \in Keys : do_item_unlink(k)
  \/ \E k \in Keys : do_list_elem_insert(k)
  \/ \E k \in Keys : do_list_elem_delete(k)
  \/ do_item_flush_expired
  \/ \E v \in expires \ expired : Expire(v)

FlushThread ==
  \/ FlushRecord
  \/ cmdlog_file_complete_dual_write
  \/ cmdlog_file_sync

CheckpointThread ==
  \/ \E ks, kl \in SUBSET Times : do_chkpt_sweep_files(ks, kl)
  \/ \E s, l \in Unlinked : RemovePrevious(s, l)
  \/ \E t \in Times : CreateFiles(t)
  \/ \E t \in Times, s \in Unlinked : CreateFails(t, s)
  \/ item_scan_open
  \/ \E k \in Keys : item_scan_getnext(k)
  \/ do_snapshot_data_done
  \/ item_scan_close
  \/ CheckpointDone
  \/ SnapshotFails
  \/ \E s, l \in Unlinked : RemoveFailed(s, l)

Restart ==
  \/ Crash
  \/ Recover
  \/ \E t \in Times : FirstCheckpoint(t)

Next == Client \/ FlushThread \/ CheckpointThread \/ Restart

Spec == Init /\ [][Next]_vars

\* The threads run in endless loops with timed sleeps.  The group commit
\* thread calls cmdlog_file_sync only for clients that wait for a commit, and
\* nothing makes a client wait.
Fairness ==
  /\ WF_vars(FlushRecord) /\ WF_vars(cmdlog_file_complete_dual_write)
  /\ WF_vars(\E s, l \in Unlinked : RemovePrevious(s, l))
  /\ WF_vars(item_scan_open) /\ WF_vars(\E k \in Keys : item_scan_getnext(k))
  /\ WF_vars(do_snapshot_data_done) /\ WF_vars(item_scan_close)
  /\ WF_vars(CheckpointDone)
  /\ WF_vars(\E s, l \in Unlinked : RemoveFailed(s, l))

FairSpec == Spec /\ Fairness

-----------------------------------------------------------------------------
(***************************************************************************)
(* Properties.                                                             *)
(***************************************************************************)

Items == Seq(1 .. MaxUpdates)

TimeOrNone == Times \union {NoTime}

RecType ==
  [type : {"link", "unlink", "insert", "pop", "flush"}, key : Keys,
   v : 1 .. MaxUpdates, n : 0 .. MaxUpdates, early : TimeOrNone]

\* Every variable stays in its type; the checkpoint times held by the
\* checkpoint thread are times of files, an expired item had an exptime.
TypeOK ==
  /\ mem \in [Keys -> Items]
  /\ update \in 0 .. MaxUpdates
  /\ expires \subseteq 1 .. update /\ expired \subseteq expires
  /\ \A i \in DOMAIN buf :
       \/ buf[i] = SwitchMark
       \/ /\ buf[i].rec \in RecType /\ buf[i].dual \in BOOLEAN
          /\ buf[i].old \in [Keys -> Items]
  /\ snap \in [Times -> [state : {"none", "part", "done"},
                         data : [Keys -> Items]]]
  /\ \A t \in Times : /\ log[t].exists \in BOOLEAN
                       /\ log[t].recs \in Seq(RecType)
  /\ fd \in [cur : TimeOrNone, next : TimeOrNone, prev : TimeOrNone]
  /\ cs \in [pc : {"idle", "open", "scan", "done", "closed", "failed"},
             lasttime : TimeOrNone, prevtime : TimeOrNone,
             newtime : TimeOrNone, need_remove : BOOLEAN,
             left : SUBSET Times, clock : FirstTime - 1 .. FirstTime + MaxTime]
  /\ scan \in [on : BOOLEAN, visited : SUBSET Keys, unset : SUBSET Keys]
  /\ up \in BOOLEAN /\ crashes \in 0 .. MaxCrashes

Updates(recs, type) == {i \in DOMAIN recs : recs[i].type = type}

\* The values key k has had since its last flushed update.
Current(k) ==
  {View(mem)[k]} \union
  {View(buf[i].old)[k] : i \in {j \in DOMAIN buf : ~IsSwitch(buf[j])}}

\* The log that recovery would replay has a link record of k that is skipped
\* because the item has expired: an older item of k is not replaced.
LinkSkipped(k) ==
  \E i \in Updates(log[chkpt_recovery_analysis].recs, "link") :
    LET r == log[chkpt_recovery_analysis].recs[i] IN
    r.key = k /\ r.v \in expired

\* The log that recovery would replay has a flush record older than the item
\* of k in the snapshot.
FlushReplayed(k) ==
  LET t == chkpt_recovery_analysis
      item == snap[t].data[k] IN
  \E i \in Updates(log[t].recs, "flush") :
    item # NoItem /\ Head(item) > log[t].recs[i].v

\* The log that recovery would replay has a record of k that the scan of its
\* checkpoint had not begun for: the snapshot may hold the update already.
EarlyRecord(k) ==
  \E i \in DOMAIN log[chkpt_recovery_analysis].recs :
    LET r == log[chkpt_recovery_analysis].recs[i] IN
    r.key = k /\ r.early = chkpt_recovery_analysis

\* Whenever the process dies, recovery (chkpt_recovery_redo) gives every key
\* a value it had at or after its last update that reached a log file: no
\* flushed update is lost or undone, none is applied twice, and no list is
\* dropped as inconsistent.  This is what the dual write, the visited test,
\* the switch of the log files and the order of snapshot and log are for.
\* The three exceptions are a link record skipped because it has expired, a
\* flush record replayed over the snapshot of a newer item, and a record dual
\* written before the scan has set its tabidx: the snapshot holds its update,
\* so that it is redone on top of itself or of a newer one.
RecoveredCurrent ==
  /\ TypeOK
  /\ up => \A k \in Keys :
             \/ Recovered[k] \in Current(k)
             \/ LinkSkipped(k)
             \/ FlushReplayed(k)
             \/ EarlyRecord(k)

\* The checkpoint thread's idea of the files (lasttime, prevtime) and the log
\* module's (fd, next_fd, prev_fd) agree although they change under different
\* locks, at different times: the log being written is the last checkpoint's,
\* or the switch to it is still to come; and no file is in the way of the
\* next log file when a checkpoint starts.
FilesAgree ==
  up => /\ \/ fd.cur = cs.lasttime
           \/ fd.next = cs.lasttime /\ fd.cur = cs.prevtime
           \/ /\ cs.pc = "closed"
              /\ fd.cur = cs.newtime /\ fd.prev \in {cs.lasttime, NoTime}
        /\ cs.pc = "idle" /\ cs.prevtime = NoTime
             => fd.next = NoTime /\ fd.prev = NoTime

\* "Delete all backup files except last checkpoint file" (the comment on
\* do_chkpt_sweep_files): the files of the last checkpoint are never removed.
LastCheckpointKept ==
  up => snap[cs.lasttime].state = "done" /\ log[cs.lasttime].exists

\* No file is forgotten: one that is neither of the last checkpoint, nor of the
\* one before it, nor of one being taken, is left over from a removal that
\* failed, and need_remove says so until a sweep has removed it.  A restart
\* forgets: files it finds and does not recover from stay until then.
FilesRemembered ==
  up => \A t \in OnDisk \ cs.left :
          t \in {cs.lasttime, cs.prevtime, cs.newtime} \/ cs.need_remove

\* A checkpoint ends, in success or failure, or the server goes down.
CheckpointEnds == cs.pc # "idle" ~> cs.pc = "idle"

=============================================================================
