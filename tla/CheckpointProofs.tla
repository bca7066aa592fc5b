-------------------------- MODULE CheckpointProofs --------------------------
(***************************************************************************)
(* The checkpoint thread and the log module agree on the log files         *)
(* (Checkpoint's FilesAgree), and no checkpoint file is forgotten          *)
(* (FilesRemembered), for any number of keys, times, updates, buffered     *)
(* records and crashes.                                                    *)
(*                                                                         *)
(* What links the two is the switch mark in the log buffer: a checkpoint   *)
(* leaves exactly one (item_scan_close), no other starts before the flush  *)
(* thread has come to it (the test of prev_fd and next_fd before prevtime  *)
(* is reset), and until then the files are those of before the checkpoint. *)
(***************************************************************************)
EXTENDS Checkpoint, SequenceTheorems, WellFoundedInduction, TLAPS

IsLog(b) == b \in Seq({b[i] : i \in DOMAIN b})

NoMark(b) == \A i \in DOMAIN b : ~IsSwitch(b[i])

OneMark(b) ==
  \E i \in DOMAIN b : IsSwitch(b[i]) /\ \A j \in DOMAIN b \ {i} : ~IsSwitch(b[j])

Files(cur, next, prev) == fd.cur = cur /\ fd.next = next /\ fd.prev = prev

\* The dual write goes on: log_FILE has the files of both checkpoints.
Waiting ==
  cs.pc \in {"open", "scan", "done", "failed"} =>
    /\ NoMark(buf) /\ cs.prevtime = NoTime /\ cs.newtime # NoTime
    /\ Files(cs.lasttime, cs.newtime, NoTime)

\* The scan is closed, do_checkpoint has not returned: the flush thread may
\* have come to the mark or not.
Closed ==
  cs.pc = "closed" =>
    /\ cs.newtime # NoTime /\ cs.prevtime = NoTime
    /\ \/ OneMark(buf) /\ Files(cs.lasttime, cs.newtime, NoTime)
       \/ /\ NoMark(buf) /\ fd.cur = cs.newtime /\ fd.next = NoTime
          /\ fd.prev \in {cs.lasttime, NoTime}

\* No checkpoint is running, the switch of the last one may be to come.
Idle ==
  cs.pc = "idle" =>
    \/ cs.prevtime = NoTime /\ NoMark(buf) /\ Files(cs.lasttime, NoTime, NoTime)
    \/ /\ cs.prevtime # NoTime /\ OneMark(buf)
       /\ Files(cs.prevtime, cs.lasttime, NoTime)
    \/ /\ cs.prevtime # NoTime /\ NoMark(buf)
       /\ fd.cur = cs.lasttime /\ fd.next = NoTime

FilesRecord == DOMAIN fd = {"cur", "next", "prev"}

ThreadRecord ==
  /\ DOMAIN cs = {"pc", "lasttime", "prevtime", "newtime", "need_remove",
                  "clock", "left"}
  /\ cs.pc \in {"idle", "open", "scan", "done", "closed", "failed"}

\* The inductive invariant.
FilesInv ==
  /\ IsLog(buf) /\ (~up => buf = <<>>)
  /\ FilesRecord /\ ThreadRecord
  /\ up => cs.lasttime # NoTime /\ Waiting /\ Closed /\ Idle

-----------------------------------------------------------------------------
(***************************************************************************)
(* The mark in the log buffer.                                             *)
(***************************************************************************)

\* A buffer is a function on 1 .. Len.
LEMMA LogDomain ==
  ASSUME NEW b, IsLog(b)
  PROVE Len(b) \in Nat /\ DOMAIN b = 1 .. Len(b)
BY LenProperties, Zenon DEF IsLog

\* Appending a record or a mark leaves the older entries alone.
LEMMA Appended ==
  ASSUME NEW b, IsLog(b), NEW e
  PROVE /\ IsLog(Append(b, e))
        /\ DOMAIN Append(b, e) = DOMAIN b \union {Len(b) + 1}
        /\ \A i \in DOMAIN b : Append(b, e)[i] = b[i]
        /\ Append(b, e)[Len(b) + 1] = e
        /\ Len(b) + 1 \notin DOMAIN b
<1> DEFINE S == {b[i] : i \in DOMAIN b}
           T == S \union {e}
           a == Append(b, e)
<1>1. b \in Seq(S) /\ S \subseteq T
  BY Zenon DEF IsLog
<1>2. b \in Seq(T)
  BY <1>1, SeqMonotonic, Zenon
<1>3. /\ a \in Seq(T) /\ Len(a) = Len(b) + 1
      /\ \A i \in 1 .. Len(b) : a[i] = b[i]
      /\ a[Len(b) + 1] = e
  <2> e \in T OBVIOUS
  <2> HIDE DEF T
  <2> QED BY <1>2, AppendProperties
<1>4. Len(b) \in Nat /\ DOMAIN b = 1 .. Len(b)
  BY LogDomain, Zenon
<1>5. Len(a) \in Nat /\ DOMAIN a = 1 .. Len(a)
  BY <1>3, LenProperties, Zenon
<1>6. 1 .. Len(b) + 1 = 1 .. Len(b) \union {Len(b) + 1} /\ Len(b) + 1 \notin 1 .. Len(b)
  BY <1>4
<1>7. DOMAIN a = DOMAIN b \union {Len(b) + 1}
  BY <1>3, <1>4, <1>5, <1>6, Zenon
<1>8. T = {a[i] : i \in DOMAIN a}
  <2> HIDE DEF a
  <2> QED BY <1>3, <1>4, <1>7
<1> QED BY <1>3, <1>4, <1>6, <1>7, <1>8, Zenon DEF IsLog

\* Taking the oldest entry shifts the others.
LEMMA Taken ==
  ASSUME NEW b, IsLog(b), b # <<>>
  PROVE /\ IsLog(Tail(b))
        /\ 1 \in DOMAIN b /\ Head(b) = b[1]
        /\ \A i \in DOMAIN Tail(b) : /\ i + 1 \in DOMAIN b \ {1}
                                     /\ Tail(b)[i] = b[i + 1]
        /\ \A i \in DOMAIN b \ {1} : /\ i \in Nat /\ i - 1 \in DOMAIN Tail(b)
                                     /\ Tail(b)[i - 1] = b[i]
<1> DEFINE S == {b[i] : i \in DOMAIN b}
           a == Tail(b)
<1>1. b \in Seq(S)
  BY Zenon DEF IsLog
<1>2. Len(b) \in Nat /\ DOMAIN b = 1 .. Len(b)
  BY LogDomain, Zenon
<1>3. /\ a \in Seq(S) /\ Len(a) = Len(b) - 1
      /\ \A i \in 1 .. Len(a) : a[i] = b[i + 1]
      /\ Len(b) \in Nat \ {0}
  <2> HIDE DEF S
  <2> QED BY <1>1, HeadTailProperties, EmptySeq, Zenon
<1>4. Len(a) \in Nat /\ DOMAIN a = 1 .. Len(a) /\ a \in [1 .. Len(a) -> S]
  BY <1>3, LenProperties, Zenon
<1>5. \A i \in DOMAIN a : i + 1 \in DOMAIN b \ {1} /\ a[i] = b[i + 1]
  <2> HIDE DEF a
  <2> QED BY <1>2, <1>3, <1>4
<1>6. \A i \in DOMAIN b \ {1} :
        i \in Nat /\ i - 1 \in DOMAIN a /\ a[i - 1] = b[i]
  <2> HIDE DEF a
  <2> QED BY <1>2, <1>3, <1>4
<1>7. IsLog(a)
  <2>1. Len(a) \in Nat /\ a \in [1 .. Len(a) -> {a[i] : i \in DOMAIN a}]
    <3> HIDE DEF a
    <3> QED BY <1>4, Zenon
  <2>2. a \in UNION {[1 .. n -> {a[i] : i \in DOMAIN a}] : n \in Nat}
    BY <2>1, Zenon
  <2> QED BY <2>2, SeqDef, Zenon DEF IsLog
<1>8. 1 \in DOMAIN b /\ Head(b) = b[1]
  BY <1>1, <1>2, <1>3
<1> QED BY <1>5, <1>6, <1>7, <1>8, Zenon

\* An update's record is no mark: the marks stay what they are.
LEMMA RecordAppended ==
  ASSUME NEW b, IsLog(b), NEW e, ~IsSwitch(e)
  PROVE /\ IsLog(Append(b, e))
        /\ NoMark(b) => NoMark(Append(b, e))
        /\ OneMark(b) => OneMark(Append(b, e))
<1> DEFINE a == Append(b, e)
           n == Len(b) + 1
<1>1. /\ IsLog(a) /\ DOMAIN a = DOMAIN b \union {n}
      /\ \A i \in DOMAIN b : a[i] = b[i]
      /\ a[n] = e /\ n \notin DOMAIN b
  BY Appended, Zenon
<1> HIDE DEF a, n
<1>2. ASSUME NoMark(b) PROVE NoMark(a)
  BY <1>1, <1>2, Zenon DEF NoMark
<1>3. ASSUME OneMark(b) PROVE OneMark(a)
  <2>1. PICK i \in DOMAIN b : IsSwitch(b[i]) /\ \A j \in DOMAIN b \ {i} : ~IsSwitch(b[j])
    BY <1>3, Zenon DEF OneMark
  <2>2. i \in DOMAIN a /\ IsSwitch(a[i])
    BY <1>1, <2>1, Zenon
  <2>3. ASSUME NEW j \in DOMAIN a \ {i} PROVE ~IsSwitch(a[j])
    BY <1>1, <2>1, Zenon
  <2> QED BY <2>2, <2>3, Zenon DEF OneMark
<1> QED BY <1>1, <1>2, <1>3, Zenon DEF a

\* cmdlog_buff_complete_dual_write(true) leaves one mark where there was none.
LEMMA MarkAppended ==
  ASSUME NEW b, IsLog(b), NoMark(b)
  PROVE IsLog(Marked(b)) /\ OneMark(Marked(b))
<1> DEFINE a == Append(b, SwitchMark)
           n == Len(b) + 1
<1>1. /\ IsLog(a) /\ DOMAIN a = DOMAIN b \union {n}
      /\ \A i \in DOMAIN b : a[i] = b[i]
      /\ a[n] = SwitchMark /\ n \notin DOMAIN b
  BY Appended, Zenon
<1>2. a = Marked(b)
  BY Zenon DEF Marked
<1>3. IsSwitch(SwitchMark)
  BY Zenon DEF IsSwitch, SwitchMark
<1> HIDE DEF a, n
<1>4. n \in DOMAIN a /\ IsSwitch(a[n])
  BY <1>1, <1>3, Zenon
<1>5. ASSUME NEW j \in DOMAIN a \ {n} PROVE ~IsSwitch(a[j])
  BY <1>1, Zenon DEF NoMark
<1> QED BY <1>1, <1>2, <1>4, <1>5, Zenon DEF OneMark

\* do_log_buff_flush of a record leaves the marks.
LEMMA RecordTaken ==
  ASSUME NEW b, IsLog(b), b # <<>>, ~IsSwitch(Head(b))
  PROVE /\ IsLog(Tail(b))
        /\ NoMark(b) => NoMark(Tail(b))
        /\ OneMark(b) => OneMark(Tail(b))
<1> DEFINE a == Tail(b)
<1>1. /\ IsLog(a)
      /\ 1 \in DOMAIN b /\ Head(b) = b[1]
      /\ \A i \in DOMAIN a : i + 1 \in DOMAIN b \ {1} /\ a[i] = b[i + 1]
      /\ \A i \in DOMAIN b \ {1} : i \in Nat /\ i - 1 \in DOMAIN a /\ a[i - 1] = b[i]
  BY Taken, Zenon
<1> HIDE DEF a
<1>2. ASSUME NoMark(b) PROVE NoMark(a)
  BY <1>1, <1>2, Zenon DEF NoMark
<1>3. ASSUME OneMark(b) PROVE OneMark(a)
  <2>1. PICK i \in DOMAIN b : IsSwitch(b[i]) /\ \A j \in DOMAIN b \ {i} : ~IsSwitch(b[j])
    BY <1>3, Zenon DEF OneMark
  <2>2. i \in DOMAIN b \ {1}
    BY <1>1, <2>1, Zenon
  <2>3. i \in Nat /\ i - 1 \in DOMAIN a /\ IsSwitch(a[i - 1])
    BY <1>1, <2>1, <2>2, Zenon
  <2>4. ASSUME NEW j \in DOMAIN a \ {i - 1} PROVE ~IsSwitch(a[j])
    <3>1. j \in 1 .. Len(a) /\ Len(a) \in Nat
      BY <1>1, LogDomain, Zenon
    <3>2. j + 1 \in DOMAIN b \ {i} /\ a[j] = b[j + 1]
      BY <1>1, <2>3, <3>1
    <3> QED BY <2>1, <3>2, Zenon
  <2> QED BY <2>3, <2>4, Zenon DEF OneMark
<1> QED BY <1>1, <1>2, <1>3, Zenon DEF a

\* Taking the only mark leaves none.
LEMMA MarkTaken ==
  ASSUME NEW b, IsLog(b), b # <<>>, IsSwitch(Head(b))
  PROVE IsLog(Tail(b)) /\ ~NoMark(b) /\ (OneMark(b) => NoMark(Tail(b)))
<1> DEFINE a == Tail(b)
<1>1. /\ IsLog(a)
      /\ 1 \in DOMAIN b /\ Head(b) = b[1]
      /\ \A i \in DOMAIN a : i + 1 \in DOMAIN b \ {1} /\ a[i] = b[i + 1]
  BY Taken, Zenon
<1> HIDE DEF a
<1>2. ~NoMark(b)
  BY <1>1, Zenon DEF NoMark
<1>3. ASSUME OneMark(b) PROVE NoMark(a)
  <2>1. PICK i \in DOMAIN b : IsSwitch(b[i]) /\ \A j \in DOMAIN b \ {i} : ~IsSwitch(b[j])
    BY <1>3, Zenon DEF OneMark
  <2>2. i = 1
    BY <1>1, <2>1, Zenon
  <2> QED BY <1>1, <2>1, <2>2, Zenon DEF NoMark
<1> QED BY <1>1, <1>2, <1>3, Zenon DEF a

\* cmdlog_buff_complete_dual_write(false) clears dual flags, never a mark.
LEMMA FlagsCleared ==
  ASSUME NEW b, IsLog(b), NoMark(b)
  PROVE /\ IsLog([i \in DOMAIN b |-> Single(b[i])])
        /\ NoMark([i \in DOMAIN b |-> Single(b[i])])
<1> DEFINE a == [i \in DOMAIN b |-> Single(b[i])]
<1>1. Len(b) \in Nat /\ DOMAIN b = 1 .. Len(b)
  BY LogDomain, Zenon
<1>2. a \in [1 .. Len(b) -> {a[i] : i \in DOMAIN a}]
  BY <1>1, Zenon
<1>3. IsLog(a)
  BY <1>1, <1>2, SeqDef DEF IsLog
<1>4. ASSUME NEW i \in DOMAIN a PROVE ~IsSwitch(a[i])
  <2>1. i \in DOMAIN b /\ a[i] = Single(b[i])
    OBVIOUS
  <2>2. ~IsSwitch(b[i])
    BY <2>1, Zenon DEF NoMark
  <2>3. Single(b[i]) = [b[i] EXCEPT !.dual = FALSE]
    BY <2>2, Zenon DEF Single
  <2>4. DOMAIN Single(b[i]) = DOMAIN b[i]
    BY <2>3, Zenon
  <2> QED BY <2>1, <2>2, <2>4, Zenon DEF IsSwitch
<1> QED BY <1>3, <1>4, Zenon DEF NoMark

-----------------------------------------------------------------------------
(***************************************************************************)
(* The newest complete snapshot.                                           *)
(***************************************************************************)

\* A nonempty set of natural numbers has a least element.
LEMMA Least ==
  ASSUME NEW S \in SUBSET Nat, S # {}
  PROVE \E x \in S : \A y \in S : x <= y
<1>1. PICK x \in S : \A y \in S : ~ (<<y, x>> \in OpToRel(<, Nat))
  BY NatLessThanWellFounded, WFMin, Zenon
<1>2. ASSUME NEW y \in S PROVE x <= y
  <2>1. ~(<<y, x>> \in {ss \in Nat \X Nat : ss[1] < ss[2]})
    BY <1>1, Zenon DEF OpToRel
  <2> QED BY <2>1
<1> QED BY <1>2, Zenon

\* chkpt_recovery_analysis picks one of the complete snapshots.
LEMMA NewestComplete ==
  ASSUME Complete # {}
  PROVE chkpt_recovery_analysis \in Times
<1> DEFINE b == FirstTime + MaxTime
           T == {b - x : x \in Complete}
<1>1. b \in Int /\ \A x \in Complete : x \in Int /\ b - x \in Nat /\ x \in Times
  BY ConstantAssumption DEF Complete, Times
<1>2. T \in SUBSET Nat /\ T # {}
  BY <1>1, Zenon
<1>3. PICK m \in T : \A y \in T : m <= y
  BY <1>2, Least, Zenon
<1>4. PICK x \in Complete : m = b - x
  BY <1>3, Zenon
<1>5. ASSUME NEW y \in Complete PROVE x >= y
  <2>1. b - y \in T /\ y \in Int
    BY <1>1, Zenon
  <2>2. m <= b - y
    BY <2>1, <1>3, Zenon
  <2> QED BY <2>1, <2>2, <1>1, <1>4
<1>6. Max(Complete) \in Complete
  BY <1>5, Zenon DEF Max
<1> QED BY <1>1, <1>6, Zenon DEF chkpt_recovery_analysis

\* The time of a file is never NoTime.
LEMMA TimeIsSome == \A t \in Times : t # NoTime
BY ConstantAssumption DEF Times, NoTime

-----------------------------------------------------------------------------
(***************************************************************************)
(* One lemma for each kind of step.                                        *)
(***************************************************************************)

\* A step that changes neither the times nor the files.
LEMMA TimesKept ==
  ASSUME FilesInv, up' = up, fd' = fd,
         DOMAIN cs' = DOMAIN cs,
         cs'.pc = cs.pc, cs'.lasttime = cs.lasttime,
         cs'.prevtime = cs.prevtime, cs'.newtime = cs.newtime,
         IsLog(buf'), ~up => buf' = <<>>,
         NoMark(buf) => NoMark(buf'), OneMark(buf) => OneMark(buf')
  PROVE FilesInv'
<1>1. FilesRecord' /\ ThreadRecord'
  BY Zenon DEF FilesInv, FilesRecord, ThreadRecord
<1>2. ASSUME up PROVE (cs.lasttime # NoTime /\ Waiting /\ Closed /\ Idle)'
  <2> cs.lasttime # NoTime /\ Waiting /\ Closed /\ Idle
    BY <1>2, Zenon DEF FilesInv
  <2>1. cs'.lasttime # NoTime
    OBVIOUS
  <2>2. Waiting'
    BY Zenon DEF Waiting, Files
  <2>3. Closed'
    BY Zenon DEF Closed, Files
  <2>4. Idle'
    BY Zenon DEF Idle, Files
  <2> QED BY <2>1, <2>2, <2>3, <2>4, Zenon
<1> QED BY <1>1, <1>2, Zenon DEF FilesInv

\* Updates append a record; an item expires.
LEMMA ClientKeeps == FilesInv /\ Client => FilesInv'
<1> SUFFICES ASSUME FilesInv, Client PROVE FilesInv'
  OBVIOUS
<1> IsLog(buf)
  BY Zenon DEF FilesInv
<1>1. ASSUME NEW m, NEW r, Update(m, r) PROVE FilesInv'
  <2>1. /\ up /\ up' = up /\ fd' = fd /\ cs' = cs
        /\ buf' = Append(buf, [rec |-> r, dual |-> NEED_DUAL_WRITE(r),
                               old |-> View(mem)])
    BY <1>1, Zenon DEF Update
  <2>2. ~IsSwitch([rec |-> r, dual |-> NEED_DUAL_WRITE(r), old |-> View(mem)])
    BY Zenon DEF IsSwitch
  <2> HIDE <1>1
  <2>3. /\ IsLog(buf')
        /\ NoMark(buf) => NoMark(buf')
        /\ OneMark(buf) => OneMark(buf')
    BY <2>1, <2>2, RecordAppended, Zenon
  <2> QED BY <2>1, <2>3, TimesKept, Zenon
<1>2. ASSUME NEW v, Expire(v) PROVE FilesInv'
  <2>1. up' = up /\ fd' = fd /\ cs' = cs /\ buf' = buf
    BY <1>2, Zenon DEF Expire
  <2>2. ~up => buf' = <<>>
    BY <2>1, Zenon DEF FilesInv
  <2>3. IsLog(buf')
    BY <2>1, Zenon
  <2> QED BY <2>1, <2>2, <2>3, TimesKept, Zenon
<1>3. CASE \E k \in Keys, exp \in Exps : do_item_link(k, exp)
  BY <1>1, <1>3, Zenon DEF do_item_link
<1>4. CASE \E k \in Keys : do_item_unlink(k)
  BY <1>1, <1>4, Zenon DEF do_item_unlink
<1>5. CASE \E k \in Keys : do_list_elem_insert(k)
  BY <1>1, <1>5, Zenon DEF do_list_elem_insert
<1>6. CASE \E k \in Keys : do_list_elem_delete(k)
  BY <1>1, <1>6, Zenon DEF do_list_elem_delete
<1>7. CASE do_item_flush_expired
  BY <1>1, <1>7, Zenon DEF do_item_flush_expired
<1> QED BY <1>2, <1>3, <1>4, <1>5, <1>6, <1>7, Zenon DEF Client

\* The flush thread: FlushRecord leaves files and marks; the switch takes the
\* mark; closing prev_fd never touches the other two.
LEMMA FlushThreadKeeps == FilesInv /\ FlushThread => FilesInv'
<1> SUFFICES ASSUME FilesInv, FlushThread PROVE FilesInv'
  OBVIOUS
<1> IsLog(buf)
  BY Zenon DEF FilesInv
<1>1. CASE FlushRecord
  <2>1. /\ up /\ up' = up /\ fd' = fd /\ cs' = cs /\ buf' = Tail(buf)
        /\ buf # <<>> /\ ~IsSwitch(Head(buf))
    BY <1>1, Zenon DEF FlushRecord
  <2> HIDE <1>1
  <2>2. /\ IsLog(buf')
        /\ NoMark(buf) => NoMark(buf')
        /\ OneMark(buf) => OneMark(buf')
    BY <2>1, RecordTaken, Zenon
  <2> QED BY <2>1, <2>2, TimesKept, Zenon
<1>2. CASE cmdlog_file_complete_dual_write
  <2>1. /\ up /\ up' = up /\ cs' = cs /\ buf' = Tail(buf)
        /\ buf # <<>> /\ IsSwitch(Head(buf))
        /\ DOMAIN fd' = {"cur", "next", "prev"}
        /\ fd'.cur = fd.next /\ fd'.next = NoTime /\ fd'.prev = fd.cur
    BY <1>2, Zenon DEF cmdlog_file_complete_dual_write
  <2> HIDE <1>2
  <2>2. IsLog(buf') /\ ~NoMark(buf) /\ (OneMark(buf) => NoMark(buf'))
    BY <2>1, MarkTaken, Zenon
  <2>3. cs.lasttime # NoTime /\ Waiting /\ Closed /\ Idle
    BY <2>1, Zenon DEF FilesInv
  <2>4. Waiting'
    BY <2>1, <2>2, <2>3, Zenon DEF Waiting
  <2>5. Closed'
    BY <2>1, <2>2, <2>3, Zenon DEF Closed, Files
  <2>6. Idle'
    BY <2>1, <2>2, <2>3, Zenon DEF Idle, Files
  <2>7. FilesRecord' /\ ThreadRecord'
    BY <2>1, Zenon DEF FilesInv, FilesRecord, ThreadRecord
  <2> QED BY <2>1, <2>2, <2>3, <2>4, <2>5, <2>6, <2>7, Zenon DEF FilesInv
<1>3. CASE cmdlog_file_sync
  <2>0. FilesRecord
    BY Zenon DEF FilesInv
  <2>1. /\ up /\ up' = up /\ cs' = cs /\ buf' = buf /\ fd.prev # NoTime
        /\ fd' = [fd EXCEPT !.prev = NoTime]
    BY <1>3, Zenon DEF cmdlog_file_sync
  <2> HIDE <1>3
  <2>2. /\ DOMAIN fd' = {"cur", "next", "prev"}
        /\ fd'.cur = fd.cur /\ fd'.next = fd.next /\ fd'.prev = NoTime
    BY <2>0, <2>1, Zenon DEF FilesRecord
  <2>3. cs.lasttime # NoTime /\ Waiting /\ Closed /\ Idle
    BY <2>1, Zenon DEF FilesInv
  <2>4. Waiting'
    BY <2>1, <2>2, <2>3, Zenon DEF Waiting, Files
  <2>5. Closed'
    BY <2>1, <2>2, <2>3, Zenon DEF Closed, Files
  <2>6. Idle'
    BY <2>1, <2>2, <2>3, Zenon DEF Idle, Files
  <2>7. FilesRecord' /\ ThreadRecord' /\ IsLog(buf')
    BY <2>1, <2>2, Zenon DEF FilesInv, FilesRecord, ThreadRecord
  <2> QED BY <2>1, <2>3, <2>4, <2>5, <2>6, <2>7, Zenon DEF FilesInv
<1> QED BY <1>1, <1>2, <1>3, Zenon DEF FlushThread


\* The checkpoint thread.  RemovePrevious waits for the end of the dual write
\* and only then forgets prevtime, which is what lets CreateFiles start.
LEMMA CheckpointThreadKeeps == FilesInv /\ CheckpointThread => FilesInv'
<1> SUFFICES ASSUME FilesInv, CheckpointThread PROVE FilesInv'
  OBVIOUS
<1>0. IsLog(buf) /\ FilesRecord /\ ThreadRecord
  BY Zenon DEF FilesInv
<1>1. CASE \E ks, kl \in SUBSET Times : do_chkpt_sweep_files(ks, kl)
  <2> PICK ks, kl \in SUBSET Times : do_chkpt_sweep_files(ks, kl)
    BY <1>1, Zenon
  <2>1. /\ up /\ up' = up /\ fd' = fd /\ buf' = buf
        /\ cs' = [cs EXCEPT !.need_remove = (ks # {} \/ kl # {})]
    BY Zenon DEF do_chkpt_sweep_files
  <2>2. /\ DOMAIN cs' = DOMAIN cs
        /\ cs'.pc = cs.pc /\ cs'.lasttime = cs.lasttime
        /\ cs'.prevtime = cs.prevtime /\ cs'.newtime = cs.newtime
    BY <1>0, <2>1, Zenon DEF ThreadRecord
  <2> QED BY <1>0, <2>1, <2>2, TimesKept, Zenon
<1>2. CASE \E s, l \in Unlinked : RemovePrevious(s, l)
  <2> PICK s, l \in Unlinked : RemovePrevious(s, l)
    BY <1>2, Zenon
  <2>1. /\ up /\ up' = up /\ fd' = fd /\ buf' = buf /\ cs.pc = "idle"
        /\ cs.prevtime # NoTime /\ fd.next = NoTime /\ fd.prev = NoTime
        /\ cs' = [cs EXCEPT !.prevtime = NoTime,
                            !.need_remove = NeedRemove(s /\ l)]
    BY Zenon DEF RemovePrevious, cmdlog_file_dual_write_finished
  <2>2. /\ DOMAIN cs' = DOMAIN cs
        /\ cs'.pc = cs.pc /\ cs'.lasttime = cs.lasttime
        /\ cs'.prevtime = NoTime /\ cs'.newtime = cs.newtime
    BY <1>0, <2>1, Zenon DEF ThreadRecord
  <2>3. cs.lasttime # NoTime /\ Waiting /\ Closed /\ Idle
    BY <2>1, Zenon DEF FilesInv
  <2>4. Waiting'
    BY <2>1, <2>2, <2>3, Zenon DEF Waiting, Closed, Idle, Files
  <2>5. Closed'
    BY <2>1, <2>2, <2>3, Zenon DEF Waiting, Closed, Idle, Files
  <2>6. Idle'
    BY <2>1, <2>2, <2>3, Zenon DEF Waiting, Closed, Idle, Files
  <2>7. FilesRecord' /\ ThreadRecord' /\ IsLog(buf')
    BY <1>0, <2>1, <2>2, Zenon DEF FilesRecord, ThreadRecord
  <2>8. cs'.lasttime # NoTime
    BY <2>2, <2>3, Zenon
  <2> QED BY <2>1, <2>4, <2>5, <2>6, <2>7, <2>8, Zenon DEF FilesInv
<1>3. CASE \E t \in Times : CreateFiles(t)
  <2> PICK t \in Times : CreateFiles(t)
    BY <1>3, Zenon
  <2>1. /\ up /\ up' = up /\ buf' = buf /\ cs.pc = "idle" /\ cs.prevtime = NoTime
        /\ cs' = [cs EXCEPT !.pc = "open", !.newtime = t, !.clock = t]
        /\ fd' = [fd EXCEPT !.next = t] /\ t # NoTime
    BY TimeIsSome, Zenon DEF CreateFiles
  <2>2. /\ DOMAIN cs' = DOMAIN cs
        /\ cs'.pc = "open" /\ cs'.lasttime = cs.lasttime
        /\ cs'.prevtime = cs.prevtime /\ cs'.newtime = t
    BY <1>0, <2>1, Zenon DEF ThreadRecord
  <2>3. cs.lasttime # NoTime /\ Waiting /\ Closed /\ Idle
    BY <2>1, Zenon DEF FilesInv
  <2>9. /\ DOMAIN fd' = DOMAIN fd
        /\ fd'.cur = fd.cur /\ fd'.next = t /\ fd'.prev = fd.prev
    BY <1>0, <2>1, Zenon DEF FilesRecord
  <2>4. Waiting'
    BY <2>1, <2>2, <2>3, <2>9, Zenon DEF Waiting, Closed, Idle, Files
  <2>5. Closed'
    BY <2>1, <2>2, <2>3, <2>9, Zenon DEF Waiting, Closed, Idle, Files
  <2>6. Idle'
    BY <2>1, <2>2, <2>3, <2>9, Zenon DEF Waiting, Closed, Idle, Files
  <2>7. FilesRecord' /\ ThreadRecord' /\ IsLog(buf')
    BY <1>0, <2>1, <2>2, <2>9, Zenon DEF FilesRecord, ThreadRecord
  <2>8. cs'.lasttime # NoTime
    BY <2>2, <2>3, Zenon
  <2> QED BY <2>1, <2>4, <2>5, <2>6, <2>7, <2>8, Zenon DEF FilesInv
<1>4. CASE \E t \in Times, s \in Unlinked : CreateFails(t, s)
  <2> PICK t \in Times, s \in Unlinked : CreateFails(t, s)
    BY <1>4, Zenon
  <2>1. /\ up /\ up' = up /\ fd' = fd /\ buf' = buf
        /\ cs' = [cs EXCEPT !.need_remove = NeedRemove(s), !.clock = t]
    BY Zenon DEF CreateFails
  <2>2. /\ DOMAIN cs' = DOMAIN cs
        /\ cs'.pc = cs.pc /\ cs'.lasttime = cs.lasttime
        /\ cs'.prevtime = cs.prevtime /\ cs'.newtime = cs.newtime
    BY <1>0, <2>1, Zenon DEF ThreadRecord
  <2> QED BY <1>0, <2>1, <2>2, TimesKept, Zenon
<1>5. CASE item_scan_open
  <2>1. /\ up /\ up' = up /\ fd' = fd /\ buf' = buf /\ cs.pc = "open"
        /\ cs' = [cs EXCEPT !.pc = "scan"]
    BY <1>5, Zenon DEF item_scan_open
  <2>2. /\ DOMAIN cs' = DOMAIN cs
        /\ cs'.pc = "scan" /\ cs'.lasttime = cs.lasttime
        /\ cs'.prevtime = cs.prevtime /\ cs'.newtime = cs.newtime
    BY <1>0, <2>1, Zenon DEF ThreadRecord
  <2>3. cs.lasttime # NoTime /\ Waiting /\ Closed /\ Idle
    BY <2>1, Zenon DEF FilesInv
  <2>4. Waiting'
    BY <2>1, <2>2, <2>3, Zenon DEF Waiting, Closed, Idle, Files
  <2>5. Closed'
    BY <2>1, <2>2, <2>3, Zenon DEF Waiting, Closed, Idle, Files
  <2>6. Idle'
    BY <2>1, <2>2, <2>3, Zenon DEF Waiting, Closed, Idle, Files
  <2>7. FilesRecord' /\ ThreadRecord' /\ IsLog(buf')
    BY <1>0, <2>1, <2>2, Zenon DEF FilesRecord, ThreadRecord
  <2>8. cs'.lasttime # NoTime
    BY <2>2, <2>3, Zenon
  <2> QED BY <2>1, <2>4, <2>5, <2>6, <2>7, <2>8, Zenon DEF FilesInv
<1>6. CASE \E k \in Keys : item_scan_getnext(k)
  <2>1. up /\ up' = up /\ fd' = fd /\ buf' = buf /\ cs' = cs
    BY <1>6, Zenon DEF item_scan_getnext
  <2> QED BY <1>0, <2>1, TimesKept, Zenon
<1>7. CASE do_snapshot_data_done
  <2>1. /\ up /\ up' = up /\ fd' = fd /\ buf' = buf /\ cs.pc = "scan"
        /\ cs' = [cs EXCEPT !.pc = "done"]
    BY <1>7, Zenon DEF do_snapshot_data_done
  <2>2. /\ DOMAIN cs' = DOMAIN cs
        /\ cs'.pc = "done" /\ cs'.lasttime = cs.lasttime
        /\ cs'.prevtime = cs.prevtime /\ cs'.newtime = cs.newtime
    BY <1>0, <2>1, Zenon DEF ThreadRecord
  <2>3. cs.lasttime # NoTime /\ Waiting /\ Closed /\ Idle
    BY <2>1, Zenon DEF FilesInv
  <2>4. Waiting'
    BY <2>1, <2>2, <2>3, Zenon DEF Waiting, Closed, Idle, Files
  <2>5. Closed'
    BY <2>1, <2>2, <2>3, Zenon DEF Waiting, Closed, Idle, Files
  <2>6. Idle'
    BY <2>1, <2>2, <2>3, Zenon DEF Waiting, Closed, Idle, Files
  <2>7. FilesRecord' /\ ThreadRecord' /\ IsLog(buf')
    BY <1>0, <2>1, <2>2, Zenon DEF FilesRecord, ThreadRecord
  <2>8. cs'.lasttime # NoTime
    BY <2>2, <2>3, Zenon
  <2> QED BY <2>1, <2>4, <2>5, <2>6, <2>7, <2>8, Zenon DEF FilesInv
<1>8. CASE item_scan_close
  <2>1. /\ up /\ up' = up /\ fd' = fd /\ buf' = Marked(buf) /\ cs.pc = "done"
        /\ cs' = [cs EXCEPT !.pc = "closed"]
    BY <1>8, Zenon DEF item_scan_close
  <2>2. /\ DOMAIN cs' = DOMAIN cs
        /\ cs'.pc = "closed" /\ cs'.lasttime = cs.lasttime
        /\ cs'.prevtime = cs.prevtime /\ cs'.newtime = cs.newtime
    BY <1>0, <2>1, Zenon DEF ThreadRecord
  <2>3. cs.lasttime # NoTime /\ Waiting /\ Closed /\ Idle
    BY <2>1, Zenon DEF FilesInv
  <2>9. IsLog(buf') /\ OneMark(buf')
    BY <1>0, <2>1, <2>3, MarkAppended, Zenon DEF Waiting
  <2>4. Waiting'
    BY <2>1, <2>2, <2>3, <2>9, Zenon DEF Waiting, Closed, Idle, Files
  <2>5. Closed'
    BY <2>1, <2>2, <2>3, <2>9, Zenon DEF Waiting, Closed, Idle, Files
  <2>6. Idle'
    BY <2>1, <2>2, <2>3, <2>9, Zenon DEF Waiting, Closed, Idle, Files
  <2>7. FilesRecord' /\ ThreadRecord' /\ IsLog(buf')
    BY <1>0, <2>1, <2>2, <2>9, Zenon DEF FilesRecord, ThreadRecord
  <2>8. cs'.lasttime # NoTime
    BY <2>2, <2>3, Zenon
  <2> QED BY <2>1, <2>4, <2>5, <2>6, <2>7, <2>8, Zenon DEF FilesInv
<1>9. CASE CheckpointDone
  <2>1. /\ up /\ up' = up /\ fd' = fd /\ buf' = buf /\ cs.pc = "closed"
        /\ cs' = [cs EXCEPT !.pc = "idle", !.newtime = NoTime,
                            !.prevtime = cs.lasttime, !.lasttime = cs.newtime]
    BY <1>9, Zenon DEF CheckpointDone
  <2>2. /\ DOMAIN cs' = DOMAIN cs
        /\ cs'.pc = "idle" /\ cs'.lasttime = cs.newtime
        /\ cs'.prevtime = cs.lasttime /\ cs'.newtime = NoTime
    BY <1>0, <2>1, Zenon DEF ThreadRecord
  <2>3. cs.lasttime # NoTime /\ Waiting /\ Closed /\ Idle
    BY <2>1, Zenon DEF FilesInv
  <2>4. Waiting'
    BY <2>1, <2>2, <2>3, Zenon DEF Waiting, Closed, Idle, Files
  <2>5. Closed'
    BY <2>1, <2>2, <2>3, Zenon DEF Waiting, Closed, Idle, Files
  <2>6. Idle'
    BY <2>1, <2>2, <2>3, Zenon DEF Waiting, Closed, Idle, Files
  <2>7. FilesRecord' /\ ThreadRecord' /\ IsLog(buf')
    BY <1>0, <2>1, <2>2, Zenon DEF FilesRecord, ThreadRecord
  <2>8. cs'.lasttime # NoTime
    BY <2>1, <2>2, <2>3, Zenon DEF Closed
  <2> QED BY <2>1, <2>4, <2>5, <2>6, <2>7, <2>8, Zenon DEF FilesInv
<1>10. CASE SnapshotFails
  <2>1. /\ up /\ up' = up /\ fd' = fd /\ cs.pc \in {"open", "scan"}
        /\ buf' = [i \in DOMAIN buf |-> Single(buf[i])]
        /\ cs' = [cs EXCEPT !.pc = "failed"]
    BY <1>10, Zenon DEF SnapshotFails
  <2>2. /\ DOMAIN cs' = DOMAIN cs
        /\ cs'.pc = "failed" /\ cs'.lasttime = cs.lasttime
        /\ cs'.prevtime = cs.prevtime /\ cs'.newtime = cs.newtime
    BY <1>0, <2>1, Zenon DEF ThreadRecord
  <2>3. cs.lasttime # NoTime /\ Waiting /\ Closed /\ Idle
    BY <2>1, Zenon DEF FilesInv
  <2>9. IsLog(buf') /\ NoMark(buf')
    BY <1>0, <2>1, <2>3, FlagsCleared, Zenon DEF Waiting
  <2>4. Waiting'
    BY <2>1, <2>2, <2>3, <2>9, Zenon DEF Waiting, Closed, Idle, Files
  <2>5. Closed'
    BY <2>1, <2>2, <2>3, <2>9, Zenon DEF Waiting, Closed, Idle, Files
  <2>6. Idle'
    BY <2>1, <2>2, <2>3, <2>9, Zenon DEF Waiting, Closed, Idle, Files
  <2>7. FilesRecord' /\ ThreadRecord' /\ IsLog(buf')
    BY <1>0, <2>1, <2>2, <2>9, Zenon DEF FilesRecord, ThreadRecord
  <2>8. cs'.lasttime # NoTime
    BY <2>2, <2>3, Zenon
  <2> QED BY <2>1, <2>4, <2>5, <2>6, <2>7, <2>8, Zenon DEF FilesInv
<1>11. CASE \E s, l \in Unlinked : RemoveFailed(s, l)
  <2> PICK s, l \in Unlinked : RemoveFailed(s, l)
    BY <1>11, Zenon
  <2>1. /\ up /\ up' = up /\ buf' = buf /\ cs.pc = "failed"
        /\ fd' = [fd EXCEPT !.next = NoTime]
        /\ cs' = [cs EXCEPT !.pc = "idle", !.newtime = NoTime,
                            !.need_remove = NeedRemove(s /\ l)]
    BY Zenon DEF RemoveFailed
  <2>2. /\ DOMAIN cs' = DOMAIN cs
        /\ cs'.pc = "idle" /\ cs'.lasttime = cs.lasttime
        /\ cs'.prevtime = cs.prevtime /\ cs'.newtime = NoTime
    BY <1>0, <2>1, Zenon DEF ThreadRecord
  <2>3. cs.lasttime # NoTime /\ Waiting /\ Closed /\ Idle
    BY <2>1, Zenon DEF FilesInv
  <2>9. /\ DOMAIN fd' = DOMAIN fd
        /\ fd'.cur = fd.cur /\ fd'.next = NoTime /\ fd'.prev = fd.prev
    BY <1>0, <2>1, Zenon DEF FilesRecord
  <2>4. Waiting'
    BY <2>1, <2>2, <2>3, <2>9, Zenon DEF Waiting, Closed, Idle, Files
  <2>5. Closed'
    BY <2>1, <2>2, <2>3, <2>9, Zenon DEF Waiting, Closed, Idle, Files
  <2>6. Idle'
    BY <2>1, <2>2, <2>3, <2>9, Zenon DEF Waiting, Closed, Idle, Files
  <2>7. FilesRecord' /\ ThreadRecord' /\ IsLog(buf')
    BY <1>0, <2>1, <2>2, <2>9, Zenon DEF FilesRecord, ThreadRecord
  <2>8. cs'.lasttime # NoTime
    BY <2>2, <2>3, Zenon
  <2> QED BY <2>1, <2>4, <2>5, <2>6, <2>7, <2>8, Zenon DEF FilesInv
<1> QED BY <1>1, <1>2, <1>3, <1>4, <1>5, <1>6, <1>7, <1>8, <1>9, <1>10, <1>11, Zenon
     DEF CheckpointThread

\* A restarted server: one file, no mark.
LEMMA Restarted ==
  ASSUME NEW t, t # NoTime, NEW c,
         fd' = [cur |-> t, next |-> NoTime, prev |-> NoTime],
         cs' = StartedAt(t, c), buf' = <<>>, up'
  PROVE FilesInv'
<1>1. /\ DOMAIN fd' = {"cur", "next", "prev"}
      /\ fd'.cur = t /\ fd'.next = NoTime /\ fd'.prev = NoTime
  BY Zenon
<1>2. /\ DOMAIN cs' = {"pc", "lasttime", "prevtime", "newtime", "need_remove",
                       "clock", "left"}
      /\ cs'.pc = "idle" /\ cs'.lasttime = t /\ cs'.prevtime = NoTime
  BY Zenon DEF StartedAt
<1>3. IsLog(buf') /\ NoMark(buf')
  BY DEF IsLog, NoMark
<1>4. Waiting' /\ Closed' /\ Idle'
  BY <1>1, <1>2, <1>3, Zenon DEF Waiting, Closed, Idle, Files
<1> QED BY <1>1, <1>2, <1>3, <1>4, Zenon DEF FilesInv, FilesRecord, ThreadRecord

\* A server that is down has no buffer and no open file.
LEMMA Down ==
  ASSUME NEW c, fd' = [cur |-> NoTime, next |-> NoTime, prev |-> NoTime],
         cs' = StartedAt(NoTime, c), buf' = <<>>, ~up'
  PROVE FilesInv'
<1>1. DOMAIN fd' = {"cur", "next", "prev"}
  BY Zenon
<1>2. /\ DOMAIN cs' = {"pc", "lasttime", "prevtime", "newtime", "need_remove",
                       "clock", "left"}
      /\ cs'.pc = "idle"
  BY Zenon DEF StartedAt
<1>3. IsLog(buf')
  BY DEF IsLog
<1> QED BY <1>1, <1>2, <1>3, Zenon DEF FilesInv, FilesRecord, ThreadRecord

\* The crash, and the two ways to start again.
LEMMA RestartKeeps == FilesInv /\ Restart => FilesInv'
<1> SUFFICES ASSUME FilesInv, Restart PROVE FilesInv'
  OBVIOUS
<1>1. CASE Crash
  BY <1>1, Down, Zenon DEF Crash
<1>2. CASE Recover
  <2>1. chkpt_recovery_analysis # NoTime
    BY <1>2, NewestComplete, TimeIsSome, Zenon DEF Recover
  <2>2. buf' = <<>>
    BY <1>2, Zenon DEF Recover, FilesInv
  <2> QED BY <1>2, <2>1, <2>2, Restarted, Zenon DEF Recover
<1>3. CASE \E t \in Times : FirstCheckpoint(t)
  <2> PICK t \in Times : FirstCheckpoint(t)
    BY <1>3, Zenon
  <2>1. buf' = <<>>
    BY Zenon DEF FirstCheckpoint, FilesInv
  <2> QED BY <2>1, TimeIsSome, Restarted, Zenon DEF FirstCheckpoint
<1> QED BY <1>1, <1>2, <1>3, Zenon DEF Restart

-----------------------------------------------------------------------------
\* The invariant gives what the two modules agree on.
LEMMA FilesInvAgree == FilesInv => FilesAgree
<1> SUFFICES ASSUME FilesInv, up PROVE FilesAgree
  BY Zenon DEF FilesAgree
<1>1. /\ cs.lasttime # NoTime /\ Waiting /\ Closed /\ Idle
      /\ cs.pc \in {"idle", "open", "scan", "done", "closed", "failed"}
  BY Zenon DEF FilesInv, ThreadRecord
<1>2. \/ fd.cur = cs.lasttime
      \/ fd.next = cs.lasttime /\ fd.cur = cs.prevtime
      \/ /\ cs.pc = "closed"
         /\ fd.cur = cs.newtime /\ fd.prev \in {cs.lasttime, NoTime}
  <2>1. CASE cs.pc = "idle"
    BY <1>1, <2>1, Zenon DEF Idle, Files
  <2>2. CASE cs.pc = "closed"
    BY <1>1, <2>2, Zenon DEF Closed, Files
  <2>3. CASE cs.pc \in {"open", "scan", "done", "failed"}
    BY <1>1, <2>3, Zenon DEF Waiting, Files
  <2> QED BY <1>1, <2>1, <2>2, <2>3, Zenon
<1>3. ASSUME cs.pc = "idle", cs.prevtime = NoTime
      PROVE fd.next = NoTime /\ fd.prev = NoTime
  BY <1>1, <1>3, Zenon DEF Idle, Files
<1> QED BY <1>2, <1>3, Zenon DEF FilesAgree

\* No file is open before the first start.
LEMMA FilesInvInit == Init => FilesInv
<1> SUFFICES ASSUME Init PROVE FilesInv
  OBVIOUS
<1>1. DOMAIN fd = {"cur", "next", "prev"}
  BY Zenon DEF Init
<1>2. /\ DOMAIN cs = {"pc", "lasttime", "prevtime", "newtime", "need_remove",
                      "clock", "left"}
      /\ cs.pc = "idle"
  BY Zenon DEF Init, StartedAt
<1>3. IsLog(buf) /\ buf = <<>> /\ ~up
  BY DEF Init, IsLog
<1> QED BY <1>1, <1>2, <1>3, Zenon DEF FilesInv, FilesRecord, ThreadRecord

\* Every step of the specification keeps the invariant.
LEMMA FilesInvStep == FilesInv /\ [Next]_vars => FilesInv'
<1> SUFFICES ASSUME FilesInv, [Next]_vars PROVE FilesInv'
  OBVIOUS
<1>1. CASE Next
  BY <1>1, ClientKeeps, FlushThreadKeeps, CheckpointThreadKeeps, RestartKeeps,
     Zenon DEF Next
<1>2. CASE UNCHANGED vars
  <2>1. up' = up /\ fd' = fd /\ cs' = cs /\ buf' = buf
    BY <1>2, Zenon DEF vars
  <2> QED BY <2>1, TimesKept, Zenon DEF FilesInv
<1> QED BY <1>1, <1>2, Zenon

\* The checkpoint thread's lasttime and prevtime and the log module's fd,
\* next_fd and prev_fd agree in every reachable state, for every number of
\* keys, times, updates, buffered records and crashes: the log being written is
\* the last checkpoint's or the switch to it is still in the buffer, and no
\* file is in the way when a checkpoint opens the next log file.
THEOREM CheckpointFilesAgree == Spec => []FilesAgree
BY FilesInvInit, FilesInvStep, FilesInvAgree, PTL DEF Spec

-----------------------------------------------------------------------------
(***************************************************************************)
(* No file is forgotten (Checkpoint's FilesRemembered).                    *)
(***************************************************************************)

Named == {cs.lasttime, cs.prevtime, cs.newtime}

\* The files by time, and the times the checkpoint thread holds: newtime is one
\* exactly while a checkpoint is taken.
FilesTyped ==
  /\ DOMAIN snap = Times /\ DOMAIN log = Times
  /\ \A t \in Times : "exists" \in DOMAIN log[t]
  /\ up => cs.lasttime \in Times /\ (cs.pc # "idle" <=> cs.newtime \in Times)

\* The inductive invariant.
RememberedInv == FilesInv /\ FilesTyped /\ FilesRemembered

\* A step that leaves the times alone and adds no file.
LEMMA NoFileAdded ==
  ASSUME FilesRemembered, up' => up, cs'.left = cs.left,
         cs'.lasttime = cs.lasttime, cs'.prevtime = cs.prevtime,
         cs'.newtime = cs.newtime, cs.need_remove => cs'.need_remove,
         \A t \in Times : t \in OnDisk' => t \in OnDisk
  PROVE FilesRemembered'
<1>1. SUFFICES ASSUME up', NEW t \in OnDisk' \ cs'.left
               PROVE t \in Named' \/ cs'.need_remove
  BY Zenon DEF FilesRemembered, Named
<1>2. t \in Times /\ t \in OnDisk'
  BY <1>1, Zenon DEF OnDisk
<1>3. t \in OnDisk \ cs.left
  BY <1>1, <1>2, Zenon
<1> QED BY <1>1, <1>3, Zenon DEF FilesRemembered, Named

\* A step that leaves files and times alone.
LEMMA FilesLeft ==
  ASSUME FilesTyped, FilesRemembered, snap' = snap, log' = log, up' = up, cs' = cs
  PROVE FilesTyped' /\ FilesRemembered'
<1>1. FilesTyped'
  BY Zenon DEF FilesTyped
<1>2. OnDisk' = OnDisk
  BY Zenon DEF OnDisk
<1> QED BY <1>1, <1>2, NoFileAdded, Zenon

\* The flush thread appends to files that exist.
LEMMA FlushRecordRemembers ==
  ASSUME RememberedInv, FlushRecord
  PROVE FilesTyped' /\ FilesRemembered'
<1>1. /\ FilesTyped /\ FilesRemembered /\ up' = up /\ cs' = cs /\ snap' = snap
      /\ log' = [t \in Times |->
                   IF t \in Targets(Head(buf)) /\ log[t].exists
                   THEN [log[t] EXCEPT !.recs = Append(@, Head(buf).rec)]
                   ELSE log[t]]
  BY Zenon DEF RememberedInv, FlushRecord
<1>2. ASSUME NEW t \in Times
      PROVE "exists" \in DOMAIN log'[t] /\ log'[t].exists = log[t].exists
  <2>1. "exists" \in DOMAIN log[t]
    BY <1>1, Zenon DEF FilesTyped
  <2>2. CASE t \in Targets(Head(buf)) /\ log[t].exists
    <3>1. log'[t] = [log[t] EXCEPT !.recs = Append(@, Head(buf).rec)]
      BY <1>1, <2>2, Zenon
    <3> QED BY <2>1, <3>1
  <2>3. CASE ~(t \in Targets(Head(buf)) /\ log[t].exists)
    <3>1. log'[t] = log[t]
      BY <1>1, <2>3, Zenon
    <3> QED BY <2>1, <3>1, Zenon
  <2> QED BY <2>2, <2>3, Zenon
<1>3. FilesTyped'
  <2>1. DOMAIN log' = Times
    BY <1>1, Zenon
  <2> QED BY <1>1, <1>2, <2>1, Zenon DEF FilesTyped
<1>4. \A t \in Times : t \in OnDisk' => t \in OnDisk
  BY <1>1, <1>2, Zenon DEF OnDisk
<1> QED BY <1>1, <1>3, <1>4, NoFileAdded, Zenon

\* Clients and the flush thread neither create nor remove a file.
LEMMA ClientFlushRemember ==
  ASSUME RememberedInv, Client \/ FlushThread
  PROVE FilesTyped' /\ FilesRemembered'
<1>1. CASE Client
  <2>1. snap' = snap /\ log' = log /\ up' = up /\ cs' = cs
    BY <1>1, Zenon DEF Client, do_item_link, do_item_unlink, do_list_elem_insert,
       do_list_elem_delete, do_item_flush_expired, Expire, Update
  <2> QED BY <2>1, FilesLeft, Zenon DEF RememberedInv
<1>2. CASE FlushRecord
  BY <1>2, FlushRecordRemembers, Zenon
<1>3. CASE cmdlog_file_complete_dual_write \/ cmdlog_file_sync
  <2>1. snap' = snap /\ log' = log /\ up' = up /\ cs' = cs
    BY <1>3, Zenon DEF cmdlog_file_complete_dual_write, cmdlog_file_sync
  <2> QED BY <2>1, FilesLeft, Zenon DEF RememberedInv
<1> QED BY <1>1, <1>2, <1>3, Zenon DEF FlushThread

\* What unlink() leaves of a checkpoint's files.
LEMMA RemovalRemembers ==
  ASSUME FilesTyped, NEW t, NEW s, NEW l,
         snap' = RemovedSnap(t, s), log' = RemovedLog(t, s, l)
  PROVE /\ DOMAIN snap' = Times /\ DOMAIN log' = Times
        /\ \A u \in Times : "exists" \in DOMAIN log'[u]
        /\ \A u \in Times : u \in OnDisk' => u \in OnDisk
        /\ s /\ l => t \notin OnDisk'
<1>0. /\ DOMAIN snap = Times /\ DOMAIN log = Times
      /\ \A u \in Times : "exists" \in DOMAIN log[u]
  BY Zenon DEF FilesTyped
<1>1. DOMAIN snap' = Times /\ DOMAIN log' = Times
  BY <1>0 DEF RemovedSnap, RemovedLog
<1>2. ASSUME NEW u \in Times, u # t PROVE snap'[u] = snap[u] /\ log'[u] = log[u]
  BY <1>0, <1>2 DEF RemovedSnap, RemovedLog
<1>3. ASSUME t \in Times
      PROVE /\ snap'[t] = IF s THEN NoSnap ELSE snap[t]
            /\ log'[t] = IF s /\ l THEN NoLog ELSE log[t]
  BY <1>0, <1>3 DEF RemovedSnap, RemovedLog
<1>4. NoSnap.state = "none" /\ ~NoLog.exists /\ "exists" \in DOMAIN NoLog
  BY DEF NoSnap, NoLog
<1>5. \A u \in Times : "exists" \in DOMAIN log'[u]
  BY <1>0, <1>2, <1>3, <1>4, Zenon
<1>6. \A u \in Times : u \in OnDisk' => u \in OnDisk
  BY <1>2, <1>3, <1>4, Zenon DEF OnDisk
<1>7. s /\ l => t \notin OnDisk'
  BY <1>3, <1>4, Zenon DEF OnDisk
<1> QED BY <1>1, <1>5, <1>6, <1>7, Zenon

\* The removals of the checkpoint thread: RemovePrevious and RemoveFailed drop
\* the time of the files, and set need_remove if one of them is still there.
LEMMA RemoveRemembers ==
  ASSUME RememberedInv, NEW s, NEW l, RemovePrevious(s, l) \/ RemoveFailed(s, l)
  PROVE FilesTyped' /\ FilesRemembered'
<1>0. FilesTyped /\ FilesRemembered /\ ThreadRecord /\ up /\ up' = up
  BY Zenon DEF RememberedInv, FilesInv, RemovePrevious, RemoveFailed
<1>1. PICK t \in {cs.prevtime, cs.newtime} :
        /\ snap' = RemovedSnap(t, s) /\ log' = RemovedLog(t, s, l)
        /\ cs'.left = cs.left /\ cs'.lasttime = cs.lasttime
        /\ cs'.need_remove = (cs.need_remove \/ ~(s /\ l))
        /\ \A u \in Named : u = t \/ u \in Named'
        /\ cs'.pc = "idle" /\ cs'.newtime \notin Times
  <2>1. CASE RemovePrevious(s, l)
    <3>1. /\ cs' = [cs EXCEPT !.prevtime = NoTime,
                              !.need_remove = NeedRemove(s /\ l)]
          /\ snap' = RemovedSnap(cs.prevtime, s) /\ log' = RemovedLog(cs.prevtime, s, l)
          /\ cs.pc = "idle"
      BY <2>1, Zenon DEF RemovePrevious
    <3>2. /\ cs'.left = cs.left /\ cs'.lasttime = cs.lasttime
          /\ cs'.newtime = cs.newtime /\ cs'.pc = cs.pc
          /\ cs'.need_remove = (cs.need_remove \/ ~(s /\ l))
      BY <1>0, <3>1, Zenon DEF ThreadRecord, NeedRemove
    <3>3. cs.newtime \notin Times
      BY <1>0, <3>1, Zenon DEF FilesTyped
    <3> QED BY <3>1, <3>2, <3>3, Zenon DEF Named
  <2>2. CASE RemoveFailed(s, l)
    <3>1. /\ cs' = [cs EXCEPT !.pc = "idle", !.newtime = NoTime,
                              !.need_remove = NeedRemove(s /\ l)]
          /\ snap' = RemovedSnap(cs.newtime, s) /\ log' = RemovedLog(cs.newtime, s, l)
      BY <2>2, Zenon DEF RemoveFailed
    <3>2. /\ cs'.left = cs.left /\ cs'.lasttime = cs.lasttime
          /\ cs'.prevtime = cs.prevtime /\ cs'.pc = "idle" /\ cs'.newtime = NoTime
          /\ cs'.need_remove = (cs.need_remove \/ ~(s /\ l))
      BY <1>0, <3>1, Zenon DEF ThreadRecord, NeedRemove
    <3> QED BY <3>1, <3>2, TimeIsSome, Zenon DEF Named
  <2> QED BY <2>1, <2>2, Zenon
<1>2. /\ DOMAIN snap' = Times /\ DOMAIN log' = Times
      /\ \A u \in Times : "exists" \in DOMAIN log'[u]
      /\ \A u \in Times : u \in OnDisk' => u \in OnDisk
      /\ s /\ l => t \notin OnDisk'
  BY <1>0, <1>1, RemovalRemembers, Zenon
<1>3. FilesTyped'
  BY <1>0, <1>1, <1>2, Zenon DEF FilesTyped
<1>4. ASSUME NEW u \in OnDisk' \ cs'.left PROVE u \in Named' \/ cs'.need_remove
  <2>1. u \in OnDisk \ cs.left
    <3>1. u \in Times /\ u \in OnDisk'
      BY Zenon DEF OnDisk
    <3> QED BY <1>1, <1>2, <3>1, Zenon
  <2>2. u \in Named \/ cs.need_remove
    BY <1>0, <2>1, Zenon DEF FilesRemembered, Named
  <2> QED BY <1>1, <1>2, <2>2, Zenon
<1> QED BY <1>3, <1>4, Zenon DEF FilesRemembered, Named

\* do_chkpt_sweep_files: a file is spared only if its name survives atoi, which
\* no 14-digit name does; need_remove stays as long as one is left.
LEMMA SweepRemembers ==
  ASSUME RememberedInv, NEW ks \in SUBSET Times, NEW kl \in SUBSET Times,
         do_chkpt_sweep_files(ks, kl)
  PROVE FilesTyped' /\ FilesRemembered'
<1>0. /\ FilesTyped /\ FilesRemembered /\ ThreadRecord /\ up /\ up' = up
      /\ snap' = [t \in Times |-> IF Spared(t) \/ t \in ks THEN snap[t] ELSE NoSnap]
      /\ log' = [t \in Times |-> IF Spared(t) \/ t \in kl THEN log[t] ELSE NoLog]
      /\ cs' = [cs EXCEPT !.need_remove = (ks # {} \/ kl # {})]
  BY Zenon DEF RememberedInv, FilesInv, do_chkpt_sweep_files
<1>1. /\ cs'.pc = cs.pc /\ cs'.left = cs.left /\ cs'.lasttime = cs.lasttime
      /\ cs'.prevtime = cs.prevtime /\ cs'.newtime = cs.newtime
      /\ cs'.need_remove = (ks # {} \/ kl # {})
  BY <1>0, Zenon DEF ThreadRecord
<1>2. ASSUME NEW t \in Times PROVE ~Spared(t)
  <2>1. cs.lasttime \in Times
    BY <1>0, Zenon DEF FilesTyped
  <2>2. t % IntMod < IntMod /\ IntMod <= cs.lasttime /\ t % IntMod \in Int
    BY <2>1, ConstantAssumption DEF Times
  <2>3. cs.lasttime \in Int /\ IntMod \in Int
    BY <2>1, ConstantAssumption DEF Times
  <2> QED BY <2>2, <2>3 DEF Spared, atoi
<1>3. NoSnap.state = "none" /\ ~NoLog.exists /\ "exists" \in DOMAIN NoLog
  BY DEF NoSnap, NoLog
<1>4. FilesTyped'
  <2>1. DOMAIN snap' = Times /\ DOMAIN log' = Times
    BY <1>0, Zenon
  <2>2. \A t \in Times : log'[t] = log[t] \/ log'[t] = NoLog
    BY <1>0, Zenon
  <2> QED BY <1>0, <1>1, <1>3, <2>1, <2>2, Zenon DEF FilesTyped
<1>5. ASSUME NEW t \in OnDisk' PROVE cs'.need_remove
  <2>1. t \in Times /\ (snap'[t].state # "none" \/ log'[t].exists)
    BY Zenon DEF OnDisk
  <2>2. t \in ks \/ t \in kl
    BY <1>0, <1>2, <1>3, <2>1, Zenon
  <2> QED BY <1>1, <2>2, Zenon
<1> QED BY <1>4, <1>5, Zenon DEF FilesRemembered

\* CreateFiles makes newtime's files; a file that CreateFails leaves behind sets
\* need_remove.
LEMMA CreateRemembers ==
  ASSUME RememberedInv, NEW t \in Times, NEW s, CreateFiles(t) \/ CreateFails(t, s)
  PROVE FilesTyped' /\ FilesRemembered'
<1>0. FilesTyped /\ FilesRemembered /\ ThreadRecord /\ Idle /\ up
  BY Zenon DEF RememberedInv, FilesInv, CreateFiles, CreateFails
<1>1. /\ DOMAIN snap = Times /\ DOMAIN log = Times /\ cs.lasttime \in Times
      /\ \A u \in Times : "exists" \in DOMAIN log[u]
  BY <1>0, Zenon DEF FilesTyped
<1>2. CASE CreateFiles(t)
  <2>1. /\ up' = up /\ cs.pc = "idle"
        /\ cs' = [cs EXCEPT !.pc = "open", !.newtime = t, !.clock = t]
        /\ snap' = [snap EXCEPT ![t] = IF @.state = "none"
                                       THEN [NoSnap EXCEPT !.state = "part"] ELSE @]
        /\ log' = [log EXCEPT ![t].exists = TRUE]
    BY <1>2, Zenon DEF CreateFiles
  <2>2. /\ cs'.pc = "open" /\ cs'.left = cs.left /\ cs'.lasttime = cs.lasttime
        /\ cs'.prevtime = cs.prevtime /\ cs'.newtime = t
        /\ cs'.need_remove = cs.need_remove
    BY <1>0, <2>1, Zenon DEF ThreadRecord
  <2>3. /\ DOMAIN snap' = Times /\ DOMAIN log' = Times
        /\ DOMAIN log'[t] = DOMAIN log[t]
    BY <1>1, <2>1
  <2>4. ASSUME NEW u \in Times, u # t PROVE snap'[u] = snap[u] /\ log'[u] = log[u]
    BY <1>1, <2>1, <2>4
  <2>5. FilesTyped'
    BY <1>0, <1>1, <2>1, <2>2, <2>3, <2>4, Zenon DEF FilesTyped
  <2>6. ASSUME NEW u \in OnDisk' \ cs'.left, u # t
        PROVE u \in Named' \/ cs'.need_remove
    <3>1. u \in Times /\ u \in OnDisk \ cs.left
      BY <2>2, <2>4, <2>6, Zenon DEF OnDisk
    <3>2. u \in {cs.lasttime, cs.prevtime, cs.newtime} \/ cs.need_remove
      BY <1>0, <3>1, Zenon DEF FilesRemembered
    <3>3. cs.newtime \notin Times
      BY <1>0, <2>1, Zenon DEF FilesTyped
    <3> QED BY <2>2, <3>1, <3>2, <3>3, Zenon DEF Named
  <2> QED BY <2>2, <2>5, <2>6, Zenon DEF FilesRemembered, Named
<1>3. CASE CreateFails(t, s)
  <2>1. /\ up' = up /\ cs.pc = "idle" /\ log' = log
        /\ cs' = [cs EXCEPT !.need_remove = NeedRemove(s), !.clock = t]
        /\ snap' = IF s THEN snap
                   ELSE [snap EXCEPT ![t] = [NoSnap EXCEPT !.state = "part"]]
    BY <1>3, Zenon DEF CreateFails
  <2>2. /\ cs'.pc = cs.pc /\ cs'.left = cs.left /\ cs'.lasttime = cs.lasttime
        /\ cs'.prevtime = cs.prevtime /\ cs'.newtime = cs.newtime
        /\ cs'.need_remove = (cs.need_remove \/ ~s)
    BY <1>0, <2>1, Zenon DEF ThreadRecord, NeedRemove
  <2>3. DOMAIN snap' = Times
    BY <1>1, <2>1
  <2>4. FilesTyped'
    BY <1>0, <1>1, <2>1, <2>2, <2>3, Zenon DEF FilesTyped
  <2>5. s => FilesRemembered'
    <3>1. s => OnDisk' = OnDisk
      BY <2>1, Zenon DEF OnDisk
    <3> QED BY <1>0, <2>1, <2>2, <3>1, NoFileAdded, Zenon
  <2>6. ~s => FilesRemembered'
    BY <2>2, Zenon DEF FilesRemembered
  <2> QED BY <2>4, <2>5, <2>6, Zenon
<1> QED BY <1>2, <1>3, Zenon

\* The scan changes the snapshot file of newtime alone.
LEMMA SnapshotRemembers ==
  ASSUME RememberedInv, up, up' = up, log' = log, cs.pc # "idle",
         cs' = cs \/ \E p : p # "idle" /\ cs' = [cs EXCEPT !.pc = p],
         DOMAIN snap' = DOMAIN snap,
         \A u \in Times : u # cs.newtime => snap'[u] = snap[u]
  PROVE FilesTyped' /\ FilesRemembered'
<1>0. FilesTyped /\ FilesRemembered /\ ThreadRecord
  BY Zenon DEF RememberedInv, FilesInv
<1>1. /\ cs'.left = cs.left /\ cs'.lasttime = cs.lasttime
      /\ cs'.prevtime = cs.prevtime /\ cs'.newtime = cs.newtime
      /\ cs'.need_remove = cs.need_remove /\ cs'.pc # "idle"
  BY <1>0, Zenon DEF ThreadRecord
<1>2. FilesTyped'
  BY <1>0, <1>1, Zenon DEF FilesTyped
<1>3. ASSUME NEW u \in OnDisk' \ cs'.left, u # cs.newtime
      PROVE u \in Named' \/ cs'.need_remove
  <2>1. u \in OnDisk \ cs.left
    BY <1>1, <1>3, Zenon DEF OnDisk
  <2> QED BY <1>0, <1>1, <2>1, Zenon DEF FilesRemembered, Named
<1> QED BY <1>1, <1>2, <1>3, Zenon DEF FilesRemembered, Named

\* The checkpoint thread.  CheckpointDone renames the times: it would forget the
\* files of prevtime, which FilesInv says is NoTime then.
LEMMA CheckpointThreadRemembers ==
  ASSUME RememberedInv, CheckpointThread
  PROVE FilesTyped' /\ FilesRemembered'
<1>0. FilesInv /\ FilesTyped /\ FilesRemembered /\ ThreadRecord
  BY Zenon DEF RememberedInv, FilesInv
<1>1. CASE \E ks, kl \in SUBSET Times : do_chkpt_sweep_files(ks, kl)
  BY <1>1, SweepRemembers, Zenon
<1>2. CASE \E s, l \in Unlinked : RemovePrevious(s, l) \/ RemoveFailed(s, l)
  BY <1>2, RemoveRemembers, Zenon
<1>3. CASE \E t \in Times : CreateFiles(t)
  BY <1>3, CreateRemembers, Zenon
<1>4. CASE \E t \in Times, s \in Unlinked : CreateFails(t, s)
  BY <1>4, CreateRemembers, Zenon
<1>5. CASE item_scan_open
  <2>1. /\ up /\ up' = up /\ log' = log /\ cs.pc = "open"
        /\ cs' = [cs EXCEPT !.pc = "scan"]
        /\ snap' = [snap EXCEPT ![cs.newtime] = [NoSnap EXCEPT !.state = "part"]]
    BY <1>5, Zenon DEF item_scan_open
  <2>2. /\ DOMAIN snap' = DOMAIN snap
        /\ \A u \in Times : u # cs.newtime => snap'[u] = snap[u]
    BY <1>0, <2>1 DEF FilesTyped
  <2> QED BY <2>1, <2>2, SnapshotRemembers
<1>6. CASE \E k \in Keys : item_scan_getnext(k)
  <2> PICK k \in Keys : item_scan_getnext(k)
    BY <1>6, Zenon
  <2>1. /\ up /\ up' = up /\ log' = log /\ cs.pc = "scan" /\ cs' = cs
        /\ snap' = [snap EXCEPT ![cs.newtime].data[k] = View(mem)[k]]
    BY Zenon DEF item_scan_getnext
  <2>2. /\ DOMAIN snap' = DOMAIN snap
        /\ \A u \in Times : u # cs.newtime => snap'[u] = snap[u]
    BY <1>0, <2>1 DEF FilesTyped
  <2> QED BY <2>1, <2>2, SnapshotRemembers
<1>7. CASE do_snapshot_data_done
  <2>1. /\ up /\ up' = up /\ log' = log /\ cs.pc = "scan"
        /\ cs' = [cs EXCEPT !.pc = "done"]
        /\ snap' = [snap EXCEPT ![cs.newtime].state = "done"]
    BY <1>7, Zenon DEF do_snapshot_data_done
  <2>2. /\ DOMAIN snap' = DOMAIN snap
        /\ \A u \in Times : u # cs.newtime => snap'[u] = snap[u]
    BY <1>0, <2>1 DEF FilesTyped
  <2> QED BY <2>1, <2>2, SnapshotRemembers
<1>8. CASE item_scan_close
  <2>1. /\ up /\ up' = up /\ log' = log /\ snap' = snap /\ cs.pc = "done"
        /\ cs' = [cs EXCEPT !.pc = "closed"]
    BY <1>8, Zenon DEF item_scan_close
  <2> QED BY <2>1, SnapshotRemembers
<1>9. CASE SnapshotFails
  <2>1. /\ up /\ up' = up /\ log' = log /\ snap' = snap /\ cs.pc # "idle"
        /\ cs' = [cs EXCEPT !.pc = "failed"]
    BY <1>9 DEF SnapshotFails
  <2> QED BY <2>1, SnapshotRemembers
<1>10. CASE CheckpointDone
  <2>1. /\ up /\ up' = up /\ log' = log /\ snap' = snap /\ cs.pc = "closed"
        /\ cs' = [cs EXCEPT !.pc = "idle", !.newtime = NoTime,
                            !.prevtime = cs.lasttime, !.lasttime = cs.newtime]
    BY <1>10, Zenon DEF CheckpointDone
  <2>2. /\ cs'.pc = "idle" /\ cs'.left = cs.left /\ cs'.lasttime = cs.newtime
        /\ cs'.prevtime = cs.lasttime /\ cs'.newtime = NoTime
        /\ cs'.need_remove = cs.need_remove
    BY <1>0, <2>1, Zenon DEF ThreadRecord
  <2>3. cs.prevtime = NoTime /\ cs.newtime \in Times
    BY <1>0, <2>1, Zenon DEF FilesInv, Closed, FilesTyped
  <2>4. FilesTyped'
    BY <1>0, <2>1, <2>2, <2>3, TimeIsSome, Zenon DEF FilesTyped
  <2>5. OnDisk' = OnDisk /\ NoTime \notin OnDisk
    BY <2>1, TimeIsSome, Zenon DEF OnDisk
  <2> QED BY <1>0, <2>1, <2>2, <2>3, <2>4, <2>5, Zenon DEF FilesRemembered
<1> QED BY <1>1, <1>2, <1>3, <1>4, <1>5, <1>6, <1>7, <1>8, <1>9, <1>10, Zenon
     DEF CheckpointThread

\* A restart takes what it finds and does not recover from for left over.
LEMMA RestartRemembers ==
  ASSUME RememberedInv, Restart
  PROVE FilesTyped' /\ FilesRemembered'
<1>0. /\ DOMAIN snap = Times /\ DOMAIN log = Times
      /\ \A u \in Times : "exists" \in DOMAIN log[u]
  BY Zenon DEF RememberedInv, FilesTyped
<1>1. CASE Crash
  <2>1. ~up' /\ snap' = snap /\ log' = log
    BY <1>1, Zenon DEF Crash
  <2> QED BY <1>0, <2>1, Zenon DEF FilesTyped, FilesRemembered
<1>2. ASSUME NEW t \in Times, NEW c, cs' = StartedAt(t, c),
             DOMAIN snap' = Times, log' = [log EXCEPT ![t].exists = TRUE],
             \A u \in Times : u # t => snap'[u] = snap[u]
      PROVE FilesTyped' /\ FilesRemembered'
  <2>1. /\ cs'.pc = "idle" /\ cs'.lasttime = t /\ cs'.newtime = NoTime
        /\ cs'.left = OnDisk \ {t}
    BY <1>2, Zenon DEF StartedAt
  <2>2. /\ DOMAIN log' = Times /\ DOMAIN log'[t] = DOMAIN log[t]
        /\ \A u \in Times : u # t => log'[u] = log[u]
    BY <1>0, <1>2
  <2>3. FilesTyped'
    BY <1>0, <1>2, <2>1, <2>2, TimeIsSome, Zenon DEF FilesTyped
  <2>4. ASSUME NEW u \in OnDisk' \ cs'.left PROVE u = t
    <3>1. u \in Times /\ u \in OnDisk' /\ u \notin cs'.left
      BY Zenon DEF OnDisk
    <3>2. u # t => u \in OnDisk
      BY <1>2, <2>2, <3>1, Zenon DEF OnDisk
    <3> QED BY <2>1, <3>1, <3>2, Zenon
  <2> QED BY <2>1, <2>3, <2>4, Zenon DEF FilesRemembered
<1>3. CASE Recover
  <2>1. /\ cs' = StartedAt(chkpt_recovery_analysis, cs.clock) /\ snap' = snap
        /\ log' = [log EXCEPT ![chkpt_recovery_analysis].exists = TRUE]
        /\ chkpt_recovery_analysis \in Times
    BY <1>3, NewestComplete, Zenon DEF Recover
  <2> QED BY <1>0, <1>2, <2>1, Zenon
<1>4. CASE \E t \in Times : FirstCheckpoint(t)
  <2> PICK t \in Times : FirstCheckpoint(t)
    BY <1>4, Zenon
  <2>1. /\ cs' = StartedAt(t, t) /\ log' = [log EXCEPT ![t].exists = TRUE]
        /\ snap' = [snap EXCEPT ![t] = [NoSnap EXCEPT !.state = "done"]]
    BY Zenon DEF FirstCheckpoint
  <2>2. DOMAIN snap' = Times /\ \A u \in Times : u # t => snap'[u] = snap[u]
    BY <1>0, <2>1
  <2> QED BY <1>2, <2>1, <2>2, Zenon
<1> QED BY <1>1, <1>3, <1>4, Zenon DEF Restart

\* Every file on disk is of the last checkpoint, of the one before it or of the
\* one being taken, or was found by the restart, or need_remove asks for a
\* sweep: for every number of times and crashes, whichever unlinks fail.
THEOREM CheckpointFilesRemembered == Spec => []FilesRemembered
<1>1. Init => RememberedInv
  <2> SUFFICES ASSUME Init PROVE RememberedInv
    OBVIOUS
  <2>1. FilesInv
    BY FilesInvInit, Zenon
  <2>2. /\ ~up /\ DOMAIN snap = Times /\ DOMAIN log = Times
        /\ \A t \in Times : log[t] = NoLog
    BY Zenon DEF Init
  <2>3. "exists" \in DOMAIN NoLog
    BY DEF NoLog
  <2> QED BY <2>1, <2>2, <2>3, Zenon DEF RememberedInv, FilesTyped, FilesRemembered
<1>2. RememberedInv /\ [Next]_vars => RememberedInv'
  <2> SUFFICES ASSUME RememberedInv, [Next]_vars PROVE RememberedInv'
    OBVIOUS
  <2>1. FilesInv'
    BY FilesInvStep, Zenon DEF RememberedInv
  <2>2. CASE Next
    BY <2>1, <2>2, ClientFlushRemember, CheckpointThreadRemembers,
       RestartRemembers, Zenon DEF Next, RememberedInv
  <2>3. CASE UNCHANGED vars
    <3>1. snap' = snap /\ log' = log /\ up' = up /\ cs' = cs
      BY <2>3, Zenon DEF vars
    <3> QED BY <2>1, <3>1, FilesLeft, Zenon DEF RememberedInv
  <2> QED BY <2>2, <2>3, Zenon
<1>3. RememberedInv => FilesRemembered
  BY Zenon DEF RememberedInv
<1> QED BY <1>1, <1>2, <1>3, PTL DEF Spec

=============================================================================
