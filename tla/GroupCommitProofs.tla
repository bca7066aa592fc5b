-------------------------- MODULE GroupCommitProofs --------------------------
(***************************************************************************)
(* Proofs about GroupCommit, for any number of clients, any record and     *)
(* flush sizes and any number of checkpoints: the log sequence numbers are *)
(* ordered, the commit list is exact, and the first byte of every          *)
(* acknowledged record survives a crash.  GroupCommitInv has the inductive *)
(* invariant and its part about files, positions and LSNs.                 *)
(***************************************************************************)
EXTENDS GroupCommitInv

\* Records of updates are log records.
LEMMA LiveInRec == TypeOK => Live \subseteq Rec
    BY DEF TypeOK, ClientState, Live

\* Log adds one record, at the write LSN.
LEMMA LogLive ==
    ASSUME TypeOK, NEW c \in Clients, NEW len \in RecSizes,
           NEW dual \in BOOLEAN, NEW reply \in BOOLEAN, NEW wraps \in BOOLEAN,
           Log(c, len, dual, reply, wraps)
    PROVE  Live' \subseteq Live \cup {[lsn |-> nxt_write_lsn, pos |-> wpos,
                                       len |-> len, dual |-> dual]}
    BY DEF TypeOK, ClientState, Live, Log

\* The other steps of a client add no record.
LEMMA ClientLive ==
    ASSUME TypeOK, NEW c \in Clients,
           Request(c) \/ AckNow(c) \/ MustWait(c) \/ AddWaiter(c)
    PROVE  Live' \subseteq Live
<1>1. ASSUME Request(c) \/ MustWait(c) \/ AddWaiter(c)
      PROVE  Live' \subseteq Live
  <2>1. /\ client[c].pc # "idle" /\ acked' = acked
        /\ \A x \in Clients : client'[x].rec = client[x].rec
        /\ \A x \in Clients \ {c} : client'[x].pc = client[x].pc
    BY <1>1 DEF TypeOK, ClientState, Request, MustWait, AddWaiter
  <2> QED
    BY <2>1 DEF Live
<1>2. ASSUME AckNow(c) PROVE Live' \subseteq Live
  <2>1. /\ client[c].pc # "idle" /\ acked' = acked \cup {client[c].rec}
        /\ client'[c].pc = "idle"
        /\ \A x \in Clients \ {c} : client'[x] = client[x]
    BY <1>2 DEF TypeOK, ClientState, AckNow
  <2> QED
    BY <2>1 DEF Live
<1> QED
    BY <1>1, <1>2

\* Steps that leave clients alone leave the records alone.
LEMMA OtherLive ==
    ASSUME UNCHANGED <<client, acked>>
    PROVE  Live' = Live
    BY DEF Live

\* Every step keeps the commit list exact.
LEMMA WaitListStep == TypeOK /\ WaitListExact /\ [Next]_vars => WaitListExact'
<1> SUFFICES ASSUME TypeOK, WaitListExact, [Next]_vars PROVE WaitListExact'
    OBVIOUS
<1>1. ASSUME NEW c \in Clients, NEW len \in RecSizes, NEW dual \in BOOLEAN,
             NEW reply \in BOOLEAN, NEW wraps \in BOOLEAN,
             Log(c, len, dual, reply, wraps)
      PROVE  WaitListExact'
  <2>1. \A x \in Clients :
          client'[x].pc = "waiting" <=> client[x].pc = "waiting"
    BY <1>1 DEF TypeOK, ClientState, Log
  <2> QED
    BY <1>1, <2>1 DEF WaitListExact, Log
<1>2. ASSUME NEW c \in Clients, Request(c) \/ AckNow(c) \/ MustWait(c)
      PROVE  WaitListExact'
  <2>1. \A x \in Clients :
          client'[x].pc = "waiting" <=> client[x].pc = "waiting"
    BY <1>2 DEF TypeOK, ClientState, Request, AckNow, MustWait
  <2> QED
    BY <1>2, <2>1 DEF WaitListExact, Request, AckNow, MustWait
<1>3. ASSUME NEW c \in Clients, AddWaiter(c) PROVE WaitListExact'
  <2>1. /\ client[c].pc # "waiting" /\ client'[c].pc = "waiting"
        /\ \A x \in Clients \ {c} : client'[x].pc = client[x].pc
    BY <1>3 DEF TypeOK, ClientState, AddWaiter
  <2>2. /\ Len(wait) \in Nat /\ Len(wait') = Len(wait) + 1
        /\ \A i \in 1..Len(wait) : wait'[i] = wait[i]
        /\ wait'[Len(wait) + 1] = c
    BY <1>3 DEF TypeOK, AddWaiter
  <2>3. \A i \in 1..Len(wait) : wait[i] # c
    BY <2>1 DEF WaitListExact
  <2>4. \A i \in 1..Len(wait') : i \in 1..Len(wait) \/ i = Len(wait) + 1
    BY <2>2
  <2>5. ASSUME NEW x \in Clients
        PROVE  client'[x].pc = "waiting"
                 <=> \E i \in 1..Len(wait') : wait'[i] = x
    BY <2>1, <2>2, <2>3, <2>4 DEF WaitListExact
  <2>6. ASSUME NEW i \in 1..Len(wait'), NEW j \in 1..Len(wait'),
               wait'[i] = wait'[j]
        PROVE  i = j
    BY <2>2, <2>3, <2>4, <2>6 DEF WaitListExact
  <2> QED
    BY <2>5, <2>6 DEF WaitListExact
<1>4. CASE SyncCollect
  <2>1. PICK n \in 0..Len(wait) :
          /\ client' = [c \in Clients |->
                          IF c \in {wait[i] : i \in 1..n}
                          THEN [pc |-> "idle", rec |-> NoRec] ELSE client[c]]
          /\ wait' = Remaining(n)
    BY <1>4 DEF SyncCollect
  <2>2. /\ Len(wait) \in Nat /\ Len(wait') = Len(wait) - n
        /\ \A i \in 1..Len(wait') : /\ i + n \in 1..Len(wait)
                                    /\ wait'[i] = wait[i + n]
    BY <2>1 DEF Remaining, TypeOK
  <2>3. ASSUME NEW x \in Clients
        PROVE  client'[x].pc = "waiting"
                 <=> \E i \in 1..Len(wait') : wait'[i] = x
    <3>1. CASE x \in {wait[i] : i \in 1..n}
      <4>1. PICK i \in 1..n : wait[i] = x
        BY <3>1
      <4>2. ASSUME NEW j \in 1..Len(wait') PROVE wait'[j] # x
        <5>1. i \in 1..Len(wait) /\ j + n \in 1..Len(wait) /\ i # j + n
          BY <2>1, <2>2
        <5> QED
          BY <2>2, <4>1, <5>1 DEF WaitListExact
      <4>3. client'[x].pc = "idle"
        BY <2>1, <3>1
      <4> QED
        BY <4>2, <4>3
    <3>2. CASE x \notin {wait[i] : i \in 1..n}
      <4>1. client'[x] = client[x]
        BY <2>1, <3>2
      <4>2. ASSUME NEW i \in 1..Len(wait), wait[i] = x
            PROVE  \E j \in 1..Len(wait') : wait'[j] = x
        <5>1. i \notin 1..n
          BY <3>2, <4>2
        <5>2. i - n \in 1..Len(wait') /\ (i - n) + n = i
          BY <2>2, <5>1
        <5> QED
          BY <2>2, <4>2, <5>2, Zenon
      <4>3. client[x].pc = "waiting" <=> \E i \in 1..Len(wait) : wait[i] = x
        BY DEF WaitListExact
      <4>4. (\E i \in 1..Len(wait) : wait[i] = x)
              <=> \E j \in 1..Len(wait') : wait'[j] = x
        BY <2>2, <4>2, Zenon
      <4> QED
        BY <4>1, <4>3, <4>4
    <3> QED
      BY <3>1, <3>2
  <2>4. ASSUME NEW i \in 1..Len(wait'), NEW j \in 1..Len(wait'),
               wait'[i] = wait'[j]
        PROVE  i = j
    BY <2>2, <2>4 DEF WaitListExact
  <2> QED
    BY <2>3, <2>4 DEF WaitListExact
<1>5. CASE FlushNext
  <2>1. UNCHANGED <<client, wait>>
    BY <1>5, Zenon DEF FlushNext, FlushBegin, FlushSwitch, FlushSwitched, FlushWrite,
                FlushWritten
  <2> QED
    BY <2>1 DEF WaitListExact
<1>6. CASE SyncBegin \/ SyncFds \/ SyncCur \/ SyncNext \/ SyncSet
    BY <1>6 DEF SyncBegin, SyncFds, SyncCur, SyncNext, SyncSet, WaitListExact
<1>7. CASE ChkptNext
    BY <1>7 DEF ChkptNext, ChkptOpen, ChkptScan, ChkptValid, ChkptDone,
                ChkptFail, ChkptClose, WaitListExact
<1>8. CASE StopNext
    BY <1>8 DEF StopNext, StopWorkers, StopFlush, StopGcommit, WaitListExact
<1>9. CASE UNCHANGED vars
    BY <1>9 DEF vars, WaitListExact
<1> QED
    BY <1>1, <1>2, <1>3, <1>4, <1>5, <1>6, <1>7, <1>8, <1>9
    DEF Next, ClientNext, SyncNextStep

\* Only clients with a record wait, so an answer invents no record.
LEMMA SyncCollectLive ==
    ASSUME TypeOK, WaitListExact, SyncCollect
    PROVE  /\ Live' \subseteq Live
           /\ \A r \in acked' \ acked : /\ r \in Live
                                        /\ ~LOGSN_IS_LE(nxt_fsync_lsn, r.lsn)
<1>1. PICK n \in 0..Len(wait) :
        /\ \A i \in 1..n : Fsynced(wait[i])
        /\ acked' = acked \cup {client[c].rec : c \in {wait[i] : i \in 1..n}}
        /\ client' = [c \in Clients |->
                        IF c \in {wait[i] : i \in 1..n}
                        THEN [pc |-> "idle", rec |-> NoRec] ELSE client[c]]
    BY DEF SyncCollect
<1>2. \A i \in 1..n : wait[i] \in Clients /\ i \in 1..Len(wait)
    BY <1>1 DEF TypeOK
<1>3. \A i \in 1..n : client[wait[i]].pc = "waiting"
    BY <1>2 DEF WaitListExact
<1>4. \A i \in 1..n : /\ client[wait[i]].rec \in Live
                      /\ ~LOGSN_IS_LE(nxt_fsync_lsn, client[wait[i]].rec.lsn)
    BY <1>1, <1>2, <1>3 DEF Live, Fsynced
<1>5. \A r \in acked' \ acked : \E i \in 1..n : r = client[wait[i]].rec
    BY <1>1
<1>6. \A c \in Clients : client'[c].pc # "idle" => client'[c] = client[c]
    BY <1>1
<1>7. Live' \subseteq Live
    BY <1>4, <1>5, <1>6 DEF Live
<1> QED
    BY <1>4, <1>5, <1>7

\* Every step keeps the LSNs of the records in step with their positions.
LEMMA RecordsStep ==
    /\ TypeOK /\ Control /\ Positions /\ Lsns /\ Records /\ WaitListExact
    /\ [Next]_vars
    => Records'
<1> SUFFICES ASSUME TypeOK, Control, Positions, Lsns, Records, WaitListExact,
                    [Next]_vars, NEW r \in Live'
             PROVE  RecordAt(r)'
    BY DEF Records
<1>a. ASSUME r \in Live
      PROVE  /\ RecordAt(r) /\ r.pos \in Nat
             /\ r.lsn.filenum \in Nat /\ r.lsn.roffset \in Nat
    BY <1>a, LiveInRec, RecFields DEF Records
<1> USE TypeNumbers DEF Numbers, FlushLsn, Switching, LOGSN_IS_GT
<1>1. ASSUME NEW c \in Clients, NEW len \in RecSizes, NEW dual \in BOOLEAN,
             NEW reply \in BOOLEAN, NEW wraps \in BOOLEAN,
             Log(c, len, dual, reply, wraps)
      PROVE  RecordAt(r)'
  <2>1. wpos' = wpos + len /\ len \in Nat \ {0}
    BY <1>1, ConstantAssumption DEF Log
  <2>2. UNCHANGED <<mark, fl, sync>>
    BY <1>1 DEF Log
  <2>3. CASE r \in Live
    BY <1>1, <1>a, <2>1, <2>2, <2>3, LogFields DEF RecordAt, fl
  <2>4. CASE r.lsn = nxt_write_lsn /\ r.pos = wpos
    <3>1. ~LOGSN_IS_GT(sync.lsn, nxt_write_lsn)
      BY OrderFromIInv DEF Lsns, LsnOrder, LOGSN_IS_LE
    <3>2. mark # None => nxt_write_lsn.filenum > FlushLsn.filenum
      BY DEF Control, SwitchPending
    <3>3. mark = None => nxt_write_lsn.filenum = FlushLsn.filenum
      BY DEF Control, SwitchPending
    <3> QED
      BY <1>1, <2>1, <2>2, <2>4, <3>1, <3>2, <3>3, LogFields
      DEF RecordAt, Lsns, Positions, fl
  <2> QED
    BY <1>1, <2>3, <2>4, LogLive
<1>2. ASSUME NEW c \in Clients,
             Request(c) \/ AckNow(c) \/ MustWait(c) \/ AddWaiter(c)
      PROVE  RecordAt(r)'
    BY <1>2, <1>a, ClientLive, Zenon
    DEF RecordAt, Request, AckNow, MustWait, AddWaiter, buf, fl
<1>3. CASE FlushBegin
  <2>1. /\ UNCHANGED <<nxt_write_lsn, wpos, nxt_flush_lsn, fpos, sync>>
        /\ r \in Live
    BY <1>3, OtherLive DEF FlushBegin
  <2>2. CASE mark = fpos
    BY <1>3, <1>a, <2>1, <2>2, FlushBeginFields
    DEF FlushBegin, RecordAt, Control, SwitchPending, Lsns
  <2>3. CASE mark # fpos
    BY <1>3, <1>a, <2>1, <2>3, FlushBeginFields DEF FlushBegin, RecordAt
  <2> QED
    BY <2>2, <2>3
<1>4. CASE FlushSwitch
    BY <1>4, <1>a, FlushSwitchFields, OtherLive DEF FlushSwitch, RecordAt, buf
<1>5. CASE FlushSwitched
    BY <1>5, <1>a, FlushSwitchedFields, OtherLive
    DEF FlushSwitched, RecordAt, buf
<1>6. CASE FlushWrite
    BY <1>6, <1>a, FlushWriteFields, OtherLive DEF FlushWrite, RecordAt, buf
<1>7. CASE FlushWritten
    BY <1>7, <1>a, FlushWrittenFields, OtherLive
    DEF FlushWritten, RecordAt, Positions, Active, buf
<1>8. CASE SyncBegin
  <2>1. UNCHANGED <<buf, fl, mark>> /\ r \in Live
    BY <1>8, OtherLive DEF SyncBegin
  <2>2. /\ sync'.pos = fpos
        /\ sync'.lsn.filenum = nxt_flush_lsn.filenum
        /\ sync'.lsn.roffset = nxt_flush_lsn.roffset
    BY <1>8, SyncBeginFields
  <2> QED
    BY <1>a, <2>1, <2>2 DEF RecordAt, buf, fl
<1>9. CASE SyncFds
    BY <1>9, <1>a, SyncFdsFields, OtherLive DEF SyncFds, RecordAt, buf, fl
<1>10. CASE SyncCur
    BY <1>10, <1>a, SyncCurFields, OtherLive DEF SyncCur, RecordAt, buf, fl
<1>11. CASE SyncNext
    BY <1>11, <1>a, SyncNextFields, OtherLive DEF SyncNext, RecordAt, buf, fl
<1>12. CASE SyncSet
    BY <1>12, <1>a, SyncSetFields, OtherLive DEF SyncSet, RecordAt, buf, fl
<1>13. CASE SyncCollect
    BY <1>13, <1>a, SyncCollectFields, SyncCollectLive, Zenon
    DEF SyncCollect, RecordAt, buf, fl
<1>14. CASE ChkptDone
    BY <1>14, <1>a, ChkptDoneFields, OtherLive DEF ChkptDone, RecordAt, fl
<1>15. CASE ChkptFail
    BY <1>15, <1>a, OtherLive DEF ChkptFail, RecordAt, fl
<1>16. CASE ChkptOpen \/ ChkptScan \/ ChkptValid \/ ChkptClose
    BY <1>16, <1>a, OtherLive
    DEF ChkptOpen, ChkptScan, ChkptValid, ChkptClose, RecordAt, buf, fl
<1>17. CASE StopNext
    BY <1>17, <1>a, OtherLive
    DEF StopNext, StopWorkers, StopFlush, StopGcommit, RecordAt, buf, fl
<1>18. CASE UNCHANGED vars
    BY <1>18, <1>a, OtherLive DEF vars, RecordAt, buf, fl
<1> QED
    BY <1>1, <1>2, <1>3, <1>4, <1>5, <1>6, <1>7, <1>8, <1>9, <1>10, <1>11,
       <1>12, <1>13, <1>14, <1>15, <1>16, <1>17, <1>18
    DEF Next, ClientNext, FlushNext, SyncNextStep, ChkptNext

\* An fsync never takes anything back, and a file that still grows then holds
\* all bytes flushed so far.
LEMMA FsyncGrows ==
    ASSUME TypeOK, NEW g \in Nat, Fsync(g)
    PROVE  /\ \A f \in 1..MaxFiles : /\ durable[f] \in Nat
                                     /\ durable'[f] \in Nat
                                     /\ durable[f] <= durable'[f]
           /\ g \in 1..MaxFiles /\ g >= file.num => file.pos <= durable'[g]
<1>1. file.pos \in Nat /\ file.num \in Nat
    BY TypeNumbers DEF Numbers
<1> QED
    BY <1>1, ConstantAssumption DEF Fsync, TypeOK

\* Every step keeps the fsync round complete: a file that comes into use in the
\* middle of it has nothing the round is about.
LEMMA SyncCoversStep ==
    TypeOK /\ Control /\ Positions /\ Lsns /\ SyncCovers /\ [Next]_vars
    => SyncCovers'
<1> SUFFICES ASSUME TypeOK, Control, Positions, Lsns, SyncCovers, [Next]_vars
             PROVE  SyncCovers'
    OBVIOUS
<1>0. \A f \in 1..MaxFiles : f \in Nat \ {0} /\ durable[f] \in Nat
    BY ConstantAssumption DEF TypeOK
<1> USE TypeNumbers DEF Numbers, InUse, SyncCovers
<1>1. ASSUME NEW c \in Clients, NEW len \in RecSizes, NEW dual \in BOOLEAN,
             NEW reply \in BOOLEAN, NEW wraps \in BOOLEAN,
             Log(c, len, dual, reply, wraps)
      PROVE  SyncCovers'
    BY <1>1 DEF Log
<1>2. ASSUME NEW c \in Clients,
             Request(c) \/ AckNow(c) \/ MustWait(c) \/ AddWaiter(c)
      PROVE  SyncCovers'
    BY <1>2, Zenon DEF Request, AckNow, MustWait, AddWaiter
<1>3. CASE FlushBegin \/ FlushSwitched \/ FlushWritten
    BY <1>3 DEF FlushBegin, FlushSwitched, FlushWritten
<1>4. CASE FlushSwitch
  <2>1. file.next
    BY <1>4 DEF FlushSwitch, Control, SwitchPending
  <2> QED
    BY <1>4, <2>1, FlushSwitchFields DEF FlushSwitch
<1>5. CASE FlushWrite
    BY <1>5, FlushWriteFields DEF FlushWrite
<1>6. CASE SyncBegin
    BY <1>6, SyncBeginFields DEF SyncBegin
<1>7. CASE SyncFds
    BY <1>0, <1>7, SyncFdsFields DEF SyncFds
<1>8. CASE SyncCur
    BY <1>0, <1>8, SyncCurFields, FsyncGrows DEF SyncCur, Lsns
<1>9. CASE SyncNext
    BY <1>0, <1>9, SyncNextFields, FsyncGrows DEF SyncNext, Lsns
<1>10. CASE SyncSet
    BY <1>10, SyncSetFields DEF SyncSet
<1>11. CASE SyncCollect
    BY <1>11, SyncCollectFields DEF SyncCollect
<1>12. CASE ChkptOpen
  <2>1. /\ UNCHANGED sync /\ sync.pos <= wpos
        /\ \A f \in 1..MaxFiles :
             durable'[f] = IF f = file.num + 1 THEN wpos ELSE durable[f]
    BY <1>12 DEF ChkptOpen, Lsns, Positions, TypeOK
  <2> QED
    BY <1>12, <2>1, ChkptOpenFields
<1>13. CASE ChkptClose
    BY <1>13, ChkptCloseFields DEF ChkptClose
<1>14. CASE ChkptScan \/ ChkptValid \/ ChkptDone \/ ChkptFail
    BY <1>14 DEF ChkptScan, ChkptValid, ChkptDone, ChkptFail
<1>15. CASE StopNext
    BY <1>15 DEF StopNext, StopWorkers, StopFlush, StopGcommit
<1>16. CASE UNCHANGED vars
    BY <1>16 DEF vars
<1> QED
    BY <1>1, <1>2, <1>3, <1>4, <1>5, <1>6, <1>7, <1>8, <1>9, <1>10, <1>11,
       <1>12, <1>13, <1>14, <1>15, <1>16, Zenon
    DEF Next, ClientNext, FlushNext, SyncNextStep, ChkptNext

\* A client is answered only when its LSN is below nxt_fsync_lsn, which never
\* goes back.
LEMMA AckedFsyncedStep ==
    TypeOK /\ Lsns /\ WaitListExact /\ AckedFsynced /\ [Next]_vars
    => AckedFsynced'
<1> SUFFICES ASSUME TypeOK, Lsns, WaitListExact, AckedFsynced, [Next]_vars,
                    NEW r \in acked'
             PROVE  LOGSN_IS_GT(nxt_fsync_lsn, r.lsn)'
    BY DEF AckedFsynced
<1>a. \A x \in Rec : x.lsn.filenum \in Nat /\ x.lsn.roffset \in Nat
    BY RecFields
<1>b. acked \subseteq Rec /\ \A c \in Clients : client[c].rec \in Rec
    BY DEF TypeOK, ClientState
<1>c. ASSUME NEW x \in Rec, ~LOGSN_IS_LE(nxt_fsync_lsn, x.lsn)
      PROVE  LOGSN_IS_GT(nxt_fsync_lsn, x.lsn)
    BY <1>a, <1>c, TypeNumbers DEF Numbers, LOGSN_IS_LE, LOGSN_IS_GT
<1>1. CASE UNCHANGED <<acked, nxt_fsync_lsn>>
    BY <1>1 DEF AckedFsynced, LOGSN_IS_GT
<1>2. ASSUME NEW c \in Clients, AckNow(c)
      PROVE  LOGSN_IS_GT(nxt_fsync_lsn, r.lsn)'
  <2>1. nxt_fsync_lsn' = nxt_fsync_lsn /\ acked' = acked \cup {client[c].rec}
    BY <1>2 DEF AckNow
  <2>2. LOGSN_IS_GT(nxt_fsync_lsn, r.lsn)
    BY <1>2, <1>b, <1>c, <2>1 DEF AckNow, AckedFsynced
  <2> QED
    BY <2>1, <2>2 DEF LOGSN_IS_GT
<1>3. CASE SyncSet
  <2>1. LOGSN_IS_GT(sync.lsn, nxt_fsync_lsn)
    BY <1>3 DEF SyncSet, Lsns
  <2>2. LOGSN_IS_GT(nxt_fsync_lsn, r.lsn) /\ r \in Rec
    BY <1>3, <1>b DEF SyncSet, AckedFsynced
  <2> QED
    BY <1>3, <1>a, <2>1, <2>2, SyncSetFields, TypeNumbers
    DEF Numbers, LOGSN_IS_GT
<1>4. CASE SyncCollect
  <2>1. nxt_fsync_lsn' = nxt_fsync_lsn
    BY <1>4 DEF SyncCollect
  <2>2. LOGSN_IS_GT(nxt_fsync_lsn, r.lsn)
    BY <1>4, <1>c, SyncCollectLive, LiveInRec DEF AckedFsynced
  <2> QED
    BY <2>1, <2>2 DEF LOGSN_IS_GT
<1>5. ASSUME NEW c \in Clients, NEW len \in RecSizes, NEW dual \in BOOLEAN,
             NEW reply \in BOOLEAN, NEW wraps \in BOOLEAN,
             Log(c, len, dual, reply, wraps)
      PROVE  UNCHANGED <<acked, nxt_fsync_lsn>>
    BY <1>5 DEF Log
<1>6. ASSUME NEW c \in Clients, Request(c) \/ MustWait(c) \/ AddWaiter(c)
      PROVE  UNCHANGED <<acked, nxt_fsync_lsn>>
    BY <1>6 DEF Request, MustWait, AddWaiter
<1>7. CASE FlushNext
    BY <1>1, <1>7, Zenon DEF FlushNext, FlushBegin, FlushSwitch, FlushSwitched,
                      FlushWrite, FlushWritten
<1>8. CASE SyncBegin \/ SyncFds \/ SyncCur \/ SyncNext
    BY <1>1, <1>8 DEF SyncBegin, SyncFds, SyncCur, SyncNext
<1>9. CASE ChkptNext
    BY <1>1, <1>9 DEF ChkptNext, ChkptOpen, ChkptScan, ChkptValid, ChkptDone,
                      ChkptFail, ChkptClose
<1>10. CASE StopNext
    BY <1>1, <1>10 DEF StopNext, StopWorkers, StopFlush, StopGcommit
<1>11. CASE UNCHANGED vars
    BY <1>1, <1>11 DEF vars
<1> QED
    BY <1>1, <1>2, <1>3, <1>4, <1>5, <1>6, <1>7, <1>8, <1>9, <1>10, <1>11
    DEF Next, ClientNext, SyncNextStep

\* Every step keeps fsynced records safe: publishing the fsync LSN makes more of
\* them safe, a new snapshot contains the ones it does not find in its log.
LEMMA FsyncedSurviveStep ==
    /\ TypeOK /\ Control /\ Positions /\ Lsns /\ Records /\ WaitListExact
    /\ SyncCovers /\ FsyncedSurvive /\ [Next]_vars
    => FsyncedSurvive'
<1> DEFINE Safe(r) == /\ Survives(r, r.pos)
                      /\ chkpt.pc \in {"open", "scan"} /\ r.dual
                           => r.pos < durable[file.num + 1]
<1> SUFFICES ASSUME TypeOK, Control, Positions, Lsns, Records, WaitListExact,
                    SyncCovers, FsyncedSurvive, [Next]_vars, NEW r \in Live',
                    LOGSN_IS_GT(nxt_fsync_lsn, r.lsn)'
             PROVE  Safe(r)'
    BY DEF FsyncedSurvive
<1>a. ASSUME r \in Live
      PROVE  /\ RecordAt(r) /\ r.pos \in Nat
             /\ r.lsn.filenum \in Nat /\ r.lsn.roffset \in Nat
             /\ r.dual \in BOOLEAN
             /\ LOGSN_IS_GT(nxt_fsync_lsn, r.lsn) => Safe(r)
    BY <1>a, LiveInRec, RecFields DEF Records, FsyncedSurvive
<1>b. /\ InUse(chkpt.snap)
      /\ chkpt.pc \in {"open", "scan"} => InUse(file.num + 1)
      /\ \A f \in Nat : InUse(f) => f \in 1..MaxFiles /\ durable[f] \in Nat
      /\ chkpt.snap \in Nat /\ file.num \in Nat /\ file.num + 1 \in Nat
  <2>1. chkpt.snap \in Nat /\ file.num \in Nat /\ file.num + 1 \in Nat
    BY TypeNumbers DEF Numbers
  <2>2. InUse(chkpt.snap)
    BY <2>1 DEF Control, SwitchPending, InUse
  <2>3. chkpt.pc \in {"open", "scan"} => InUse(file.num + 1)
    BY DEF Control, InUse
  <2>4. \A f \in Nat : InUse(f) => f \in 1..MaxFiles
    BY DEF Control, InUse
  <2>5. \A f \in 1..MaxFiles : durable[f] \in Nat
    BY DEF TypeOK
  <2> QED
    BY <2>1, <2>2, <2>3, <2>4, <2>5
<1>1. CASE /\ r \in Live
           /\ UNCHANGED <<nxt_fsync_lsn, chkpt, durable>>
           /\ file'.num = file.num
    BY <1>1, <1>a DEF Survives, LOGSN_IS_GT
<1>2. ASSUME NEW c \in Clients, NEW len \in RecSizes, NEW dual \in BOOLEAN,
             NEW reply \in BOOLEAN, NEW wraps \in BOOLEAN,
             Log(c, len, dual, reply, wraps)
      PROVE  Safe(r)'
  <2>1. UNCHANGED <<nxt_fsync_lsn, chkpt, durable, file>>
    BY <1>2 DEF Log
  <2>2. r.lsn # nxt_write_lsn
    BY <2>1, OrderFromIInv, TypeNumbers
    DEF LsnOrder, Numbers, LOGSN_IS_LE, LOGSN_IS_GT
  <2>3. r \in Live
    BY <1>2, <2>2, LogLive
  <2> QED
    BY <1>1, <2>1, <2>3
<1>3. ASSUME NEW c \in Clients,
             Request(c) \/ AckNow(c) \/ MustWait(c) \/ AddWaiter(c)
      PROVE  Safe(r)'
  <2>1. UNCHANGED <<nxt_fsync_lsn, chkpt, durable, file>> /\ r \in Live
    BY <1>3, ClientLive DEF Request, AckNow, MustWait, AddWaiter
  <2> QED
    BY <1>1, <2>1
<1>4. CASE FlushSwitch
  <2>1. UNCHANGED <<nxt_fsync_lsn, chkpt, durable>> /\ r \in Live
    BY <1>4, OtherLive DEF FlushSwitch
  <2>2. chkpt.pc = "none"
    BY <1>4 DEF FlushSwitch, Control, SwitchPending
  <2> QED
    BY <1>a, <2>1, <2>2 DEF Survives, LOGSN_IS_GT
<1>5. CASE FlushBegin \/ FlushSwitched \/ FlushWrite \/ FlushWritten
  <2>1. UNCHANGED <<nxt_fsync_lsn, chkpt, durable>> /\ r \in Live
    BY <1>5, OtherLive DEF FlushBegin, FlushSwitched, FlushWrite, FlushWritten
  <2>2. file'.num = file.num
    BY <1>5, FlushWriteFields DEF FlushBegin, FlushSwitched, FlushWritten
  <2> QED
    BY <1>1, <2>1, <2>2
<1>6. CASE SyncCur \/ SyncNext
  <2>1. UNCHANGED <<nxt_fsync_lsn, chkpt, file>> /\ r \in Live
    BY <1>6, OtherLive DEF SyncCur, SyncNext
  <2>2. \A f \in 1..MaxFiles : /\ durable'[f] \in Nat
                               /\ durable[f] <= durable'[f]
    BY <1>6, FsyncGrows, TypeNumbers DEF SyncCur, SyncNext, Numbers
  <2> QED
    BY <1>a, <1>b, <2>1, <2>2 DEF Survives, LOGSN_IS_GT
<1>7. CASE SyncSet
  <2>1. UNCHANGED <<chkpt, durable, file>> /\ r \in Live /\ sync.pc = "set"
    BY <1>7, OtherLive DEF SyncSet
  <2>2. r.pos < sync.pos
    BY <1>7, <1>a, <2>1, SyncSetFields DEF RecordAt, LOGSN_IS_GT
  <2>3. \A f \in Nat : InUse(f) => r.pos < durable[f]
    BY <1>a, <1>b, <2>1, <2>2, TypeNumbers DEF SyncCovers, Numbers
  <2> QED
    BY <1>b, <2>1, <2>3 DEF Survives
<1>8. CASE SyncBegin \/ SyncFds \/ SyncCollect
  <2>1. UNCHANGED <<nxt_fsync_lsn, chkpt, durable>> /\ r \in Live
    BY <1>8, OtherLive, SyncCollectLive, Zenon DEF SyncBegin, SyncFds, SyncCollect
  <2>2. file'.num = file.num
    BY <1>8, SyncFdsFields DEF SyncBegin, SyncCollect
  <2> QED
    BY <1>1, <2>1, <2>2
<1>9. CASE ChkptOpen
  <2>1. UNCHANGED <<nxt_fsync_lsn, wpos>> /\ r \in Live
    BY <1>9, OtherLive DEF ChkptOpen, buf
  <2>2. chkpt.snap = file.num
    BY <1>9 DEF ChkptOpen, Control, SwitchPending
  <2>3. file.num \in 1..MaxFiles /\ file.num + 1 \in 1..MaxFiles
    BY <1>9, <1>b, ConstantAssumption DEF ChkptOpen, Control, SwitchPending
  <2>4. durable'[file.num] = durable[file.num] /\ durable'[file.num + 1] = wpos
    BY <1>9, <1>b, <2>3 DEF ChkptOpen, TypeOK
  <2> QED
    BY <1>9, <1>a, <2>1, <2>2, <2>4, ChkptOpenFields
    DEF Survives, RecordAt, LOGSN_IS_GT
<1>10. CASE ChkptScan
  <2>1. UNCHANGED <<nxt_fsync_lsn, durable, file>> /\ r \in Live
    BY <1>10, OtherLive DEF ChkptScan
  <2> QED
    BY <1>10, <1>a, <2>1, ChkptScanFields DEF Survives, LOGSN_IS_GT, ChkptScan
<1>11. CASE ChkptValid
  <2>1. /\ UNCHANGED <<nxt_fsync_lsn, durable, file>> /\ r \in Live
        /\ chkpt.pc = "scan"
    BY <1>11, OtherLive DEF ChkptValid
  <2>2. r.lsn.filenum < file.num + 1
    BY <1>a, <1>b, <2>1, TypeNumbers
    DEF RecordAt, Control, SwitchPending, Numbers
  <2> QED
    BY <1>11, <1>a, <2>1, <2>2, ChkptValidFields DEF Survives, LOGSN_IS_GT
<1>12. CASE ChkptDone \/ ChkptFail \/ ChkptClose
  <2>1. UNCHANGED <<nxt_fsync_lsn, durable>> /\ r \in Live
    BY <1>12, OtherLive DEF ChkptDone, ChkptFail, ChkptClose
  <2>2. chkpt'.snap = chkpt.snap /\ chkpt'.pc \notin {"open", "scan"}
    BY <1>12, ChkptDoneFields, ChkptFailFields, ChkptCloseFields, Zenon
  <2> QED
    BY <1>a, <2>1, <2>2, Zenon DEF Survives, LOGSN_IS_GT
<1>13. CASE StopNext
  <2>1. UNCHANGED <<nxt_fsync_lsn, chkpt, durable, file>> /\ r \in Live
    BY <1>13, OtherLive, Zenon DEF StopNext, StopWorkers, StopFlush, StopGcommit
  <2> QED
    BY <1>1, <2>1
<1>14. CASE UNCHANGED vars
  <2>1. UNCHANGED <<nxt_fsync_lsn, chkpt, durable, file>> /\ r \in Live
    BY <1>14, OtherLive DEF vars
  <2> QED
    BY <1>1, <2>1
<1> QED
    BY <1>2, <1>3, <1>4, <1>5, <1>6, <1>7, <1>8, <1>9, <1>10, <1>11, <1>12,
       <1>13, <1>14
    DEF Next, ClientNext, FlushNext, SyncNextStep, ChkptNext

------------------------------------------------------------------------------
(* The theorems                                                            *)

\* The inductive invariant holds initially.
LEMMA InitIInv == Init => IInv
<1> SUFFICES ASSUME Init PROVE IInv
    OBVIOUS
<1>1. Live = {} /\ acked = {}
    BY DEF Init, Live
<1>2. TypeOK
  <2>1. First \in LSN /\ NoLsn \in LSN
    BY LsnFields DEF First, NoLsn
  <2>2. flush \in FlushState /\ file \in FileState /\ chkpt \in ChkptState
    BY Zenon DEF Init, FlushState, FileState, ChkptState
  <2>3. sync \in SyncState /\ client \in [Clients -> ClientState]
    BY <2>1, RecFields, Zenon DEF Init, SyncState, ClientState
  <2>4. durable \in [1..MaxFiles -> Nat] /\ wait \in Seq(Clients)
    BY DEF Init
  <2>5. /\ nxt_write_lsn \in LSN /\ nxt_flush_lsn \in LSN
        /\ upt_flush_lsn \in LSN /\ nxt_fsync_lsn \in LSN
    BY <2>1 DEF Init
  <2>6. /\ wpos \in Nat /\ fpos \in Nat /\ bounds \subseteq Nat
        /\ open \in [start : Nat, dual : BOOLEAN]
        /\ mark \in Nat \cup {None} /\ dw_size \in Nat
        /\ acked \subseteq Rec /\ stop \in {"run", "workers", "flush", "gcommit"}
    BY Zenon DEF Init
  <2> QED
    BY <2>2, <2>3, <2>4, <2>5, <2>6 DEF TypeOK
<1>3. /\ nxt_write_lsn.filenum = 1 /\ nxt_write_lsn.roffset = 0
      /\ nxt_flush_lsn.filenum = 1 /\ nxt_flush_lsn.roffset = 0
      /\ nxt_fsync_lsn.filenum = 1 /\ nxt_fsync_lsn.roffset = 0
      /\ sync.lsn.filenum = 1 /\ sync.lsn.roffset = 0
    BY DEF Init, First
<1>4. /\ wpos = 0 /\ fpos = 0 /\ bounds = {} /\ open.start = 0 /\ mark = None
      /\ flush.pc = "idle" /\ file.num = 1 /\ file.pos = 0 /\ ~file.next
      /\ chkpt.pc = "none" /\ chkpt.snap = 1
      /\ sync.pc = "idle" /\ sync.pos = 0
    BY DEF Init
<1>5. Control
    BY <1>3, <1>4, ConstantAssumption DEF Control, SwitchPending
<1>6. Positions
    BY <1>4 DEF Positions, Active
<1>7. Lsns
    BY <1>3, <1>4 DEF Lsns, FlushLsn, Switching, LOGSN_IS_LE
<1>8. SyncCovers
    BY <1>4 DEF SyncCovers
<1>9. WaitListExact
  <2>1. Len(wait) = 0 /\ \A c \in Clients : client[c].pc = "idle"
    BY DEF Init
  <2> QED
    BY <2>1 DEF WaitListExact
<1> QED
    BY <1>1, <1>2, <1>5, <1>6, <1>7, <1>8, <1>9
    DEF IInv, Records, FsyncedSurvive, AckedFsynced

\* Every step preserves the inductive invariant.
LEMMA NextIInv == IInv /\ [Next]_vars => IInv'
    BY TypeStep, ControlStep, PositionsStep, LsnsStep, RecordsStep,
       WaitListStep, SyncCoversStep, FsyncedSurviveStep, AckedFsyncedStep
    DEF IInv

\* The bookkeeping of files, positions, LSNs, records and fsyncs holds in
\* every reachable state.
THEOREM Inductive == Spec => []IInv
    BY InitIInv, NextIInv, PTL DEF Spec

\* Type correctness: no offset, position or size of the log buffer or of the
\* sync round ever becomes negative, and all threads stay within their states.
THEOREM TypeCorrect == Spec => []TypeOK
<1>1. IInv => TypeOK
    BY DEF IInv
<1> QED
    BY <1>1, Inductive, PTL

\* nxt_fsync_lsn <= nxt_flush_lsn <= nxt_write_lsn, across every file switch.
THEOREM LsnsOrdered == Spec => []LsnOrder
<1>1. IInv => LsnOrder
    BY OrderFromIInv DEF IInv
<1> QED
    BY <1>1, Inductive, PTL

\* The first byte of an acknowledged record, and with it everything logged
\* before the record, survives a crash at any moment: during group commit,
\* while a checkpoint runs, between its success and the switch of log files.
THEOREM AcknowledgedSurvive == Spec => []AckedStartDurable
<1>1. IInv => AckedStartDurable
    BY DEF IInv, AckedFsynced, FsyncedSurvive, Live, AckedStartDurable
<1> QED
    BY <1>1, Inductive, PTL
==============================================================================
