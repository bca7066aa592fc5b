--------------------------- MODULE ThreadsProofs ---------------------------
(***************************************************************************)
(* No wakeup of a worker is lost, for any number of threads, connections   *)
(* and notifiers.  With the types, WakeupsKept is inductive: a byte that   *)
(* is read turns into the step "pop", which takes one connection from the  *)
(* queue, and "take", which empties the list.                              *)
(***************************************************************************)
EXTENDS Threads, FiniteSetTheorems, TLAPS

Woken == TypeOK /\ WakeupsKept

\* The dispatcher goes round the workers (dispatch_conn_new()).
LEMMA NextThreadIsWorker ==
  ASSUME last_thread \in Workers
  PROVE  NextThread \in Workers
BY ThreadsAssumption DEF NextThread, Workers

\* Initially all is empty.
LEMMA InitWoken == Init => Woken
<1> SUFFICES ASSUME Init PROVE Woken
  OBVIOUS
<1>1. 0 \in Workers /\ NumThreads - 1 \in Workers
  BY ThreadsAssumption DEF Workers
<1>2. TypeOK
  BY <1>1, ThreadsAssumption DEF Init, TypeOK
<1>3. WakeupsKept
  BY <1>1 DEF Init, WakeupsKept, QueueWoken, PendingWoken, At
<1> QED
  BY <1>2, <1>3 DEF Woken

-----------------------------------------------------------------------------
(***************************************************************************)
(* The steps of the main thread.                                           *)
(***************************************************************************)

\* A step that leaves the queues, the lists, the pipes and the positions of
\* the workers alone loses no wakeup.
LEMMA OthersKeep ==
  ASSUME WakeupsKept, (main' = "write") <=> (main = "write"),
         UNCHANGED <<queue, pending_io, bytes, notifier, worker, last_thread>>
  PROVE  WakeupsKept'
BY DEF WakeupsKept, QueueWoken, PendingWoken, At

\* conn_listening() adds to a queue the connection the byte will be for.
LEMMA ListeningWoken ==
  ASSUME Woken, NEW c \in Conns, conn_listening(c)
  PROVE  Woken'
<1> USE DEF Woken
<1>0. NextThread \in Workers
  BY NextThreadIsWorker DEF TypeOK
<1>1. CASE RejectConn \/ DropConn(c)
  <2>1. TypeOK'
    BY <1>1 DEF conn_listening, RejectConn, DropConn, TypeOK, stop, run, term
  <2>2. WakeupsKept'
    BY <1>1, OthersKeep DEF conn_listening, RejectConn, DropConn, run
  <2> QED BY <2>1, <2>2
<1>2. CASE dispatch_conn_new(c)
  <2>1. TypeOK'
    BY <1>0, <1>2 DEF conn_listening, dispatch_conn_new, TypeOK, stop, run, term
  <2>2. ASSUME NEW w \in Workers, ~At(w, "ended")'
        PROVE  QueueWoken(w)' /\ PendingWoken(w)'
    <3>1. QueueWoken(w) /\ PendingWoken(w) /\ main = "loop"
      BY <2>2 DEF conn_listening, WakeupsKept, At, run
    <3>2. CASE w = NextThread
      <4>1. Len(queue'[w]) = Len(queue[w]) + 1
        BY <1>0, <1>2, <3>2 DEF dispatch_conn_new, TypeOK
      <4>2. main' = "write" /\ last_thread' = w /\ UNCHANGED <<bytes, worker, pending_io, notifier>>
        BY <1>2, <3>2 DEF conn_listening, dispatch_conn_new, run
      <4> QED BY <3>1, <4>1, <4>2 DEF TypeOK, QueueWoken, PendingWoken, At
    <3>3. CASE w # NextThread
      <4>1. queue'[w] = queue[w]
        BY <1>0, <1>2, <3>3 DEF dispatch_conn_new, TypeOK
      <4>2. last_thread' # w /\ UNCHANGED <<bytes, worker, pending_io, notifier>>
        BY <1>2, <3>3 DEF conn_listening, dispatch_conn_new, run
      <4> QED BY <3>1, <4>1, <4>2 DEF TypeOK, QueueWoken, PendingWoken, At
    <3> QED BY <3>2, <3>3
  <2> QED BY <2>1, <2>2 DEF WakeupsKept
<1> QED
  BY <1>1, <1>2 DEF conn_listening

\* A byte may be added to a pipe at any time.
LEMMA MoreBytes ==
  ASSUME Woken, NEW t \in Workers, bytes' = [bytes EXCEPT ![t] = @ + 1],
         main' = "write" \/ main # "write" \/ last_thread = t,
         UNCHANGED <<queue, pending_io, notifier, worker, last_thread>>
  PROVE  WakeupsKept'
<1> USE DEF Woken
<1> SUFFICES ASSUME NEW w \in Workers, ~At(w, "ended")
             PROVE  QueueWoken(w)' /\ PendingWoken(w)'
  BY DEF WakeupsKept, At
<1>1. QueueWoken(w) /\ PendingWoken(w)
  BY DEF WakeupsKept
<1>2. bytes[w] \in Nat /\ bytes'[w] = (IF w = t THEN bytes[w] + 1 ELSE bytes[w])
  BY DEF TypeOK
<1>3. QueueWoken(w)'
  <2>1. Len(queue[w]) \in Nat
    BY DEF TypeOK
  <2> QED BY <1>1, <1>2, <2>1 DEF QueueWoken, At
<1>4. PendingWoken(w)'
  BY <1>1, <1>2 DEF PendingWoken
<1> QED
  BY <1>3, <1>4

\* The steps of the main thread add bytes, or leave the workers alone.
LEMMA MainWoken ==
  ASSUME Woken, MainStep
  PROVE  Woken'
<1> USE DEF Woken
<1>c. Cardinality(Conns) \in Nat
  BY ThreadsAssumption, FS_CardinalityType
<1>1. CASE DispatchWrite
  <2>1. TypeOK'
    BY <1>1 DEF DispatchWrite, TypeOK, stop, run, term
  <2>2. last_thread \in Workers
    BY DEF TypeOK
  <2>3. WakeupsKept'
    BY <1>1, <2>2, MoreBytes, Zenon DEF DispatchWrite, run
  <2> QED BY <2>1, <2>3
<1>2. CASE StopThread
  <2>1. ii \in Workers
    BY <1>2, ThreadsAssumption DEF StopThread, TypeOK, Workers
  <2>2. TypeOK'
    <3>1. bytes' \in [Workers -> Nat]
      BY <1>2, <2>1 DEF StopThread, TypeOK
    <3> QED
      BY <1>2, <3>1 DEF StopThread, unchangedByMain, TypeOK, run, term
  <2>3. WakeupsKept'
    BY <1>2, <2>1, MoreBytes, Zenon DEF StopThread, unchangedByMain, run
  <2> QED BY <2>2, <2>3
<1>3. CASE BreakMainLoop
  <2>1. TypeOK'
    BY <1>3, <1>c DEF BreakMainLoop, unchangedByMain, run, term, TypeOK
  <2>2. WakeupsKept'
    BY <1>3, OthersKeep DEF BreakMainLoop, unchangedByMain, run, term
  <2> QED BY <2>1, <2>2
<1>4. CASE WaitForClients
  <2>1. TypeOK'
    BY <1>4 DEF WaitForClients, unchangedByMain, run, term, TypeOK
  <2>2. WakeupsKept'
    BY <1>4, OthersKeep DEF WaitForClients, unchangedByMain, run, term
  <2> QED BY <2>1, <2>2
<1>5. CASE SubtractDelay
  <2>1. TypeOK'
    BY <1>5 DEF SubtractDelay, unchangedByMain, run, term, TypeOK
  <2>2. WakeupsKept'
    BY <1>5, OthersKeep DEF SubtractDelay, unchangedByMain, run, term
  <2> QED BY <2>1, <2>2
<1>6. CASE StopThreads
  <2>1. TypeOK'
    BY <1>6, ThreadsAssumption DEF StopThreads, unchangedByMain, run, term, TypeOK
  <2>2. WakeupsKept'
    BY <1>6, OthersKeep DEF StopThreads, unchangedByMain, run, term
  <2> QED BY <2>1, <2>2
<1>7. CASE JoinThread
  <2>1. TypeOK'
    <3>1. ii' \in 0 .. NumThreads
      BY <1>7, ThreadsAssumption DEF JoinThread, TypeOK
    <3> QED
      BY <1>7, <3>1 DEF JoinThread, unchangedByMain, run, term, TypeOK
  <2>2. WakeupsKept'
    BY <1>7, OthersKeep DEF JoinThread, unchangedByMain, run, term
  <2> QED BY <2>1, <2>2
<1>8. CASE DestroyEngine
  <2>1. TypeOK'
    BY <1>8, ThreadsAssumption DEF DestroyEngine, unchangedByMain, run, term, TypeOK
  <2>2. WakeupsKept'
    BY <1>8, OthersKeep DEF DestroyEngine, unchangedByMain, run, term
  <2> QED BY <2>1, <2>2
<1> QED
  BY <1>1, <1>2, <1>3, <1>4, <1>5, <1>6, <1>7, <1>8 DEF MainStep

-----------------------------------------------------------------------------
(***************************************************************************)
(* The steps of a worker.                                                  *)
(***************************************************************************)

\* What a worker does to itself is no matter to the others.
LEMMA OneWorker ==
  ASSUME WakeupsKept, NEW w \in Workers,
         ~At(w, "ended")' => QueueWoken(w)' /\ PendingWoken(w)',
         \A v \in Workers \ {w} : /\ worker'[v] = worker[v] /\ queue'[v] = queue[v]
                                  /\ bytes'[v] = bytes[v] /\ pending_io'[v] = pending_io[v],
         UNCHANGED <<notifier, main, last_thread>>
  PROVE  WakeupsKept'
<1> SUFFICES ASSUME NEW v \in Workers, ~At(v, "ended")'
             PROVE  QueueWoken(v)' /\ PendingWoken(v)'
  BY DEF WakeupsKept
<1>1. CASE v = w
  BY <1>1
<1>2. CASE v # w
  BY <1>2 DEF WakeupsKept, QueueWoken, PendingWoken, At
<1> QED
  BY <1>1, <1>2

\* A worker that ends needs no more bytes.
LEMMA EndWoken ==
  ASSUME Woken, NEW w \in Workers, worker_libevent_end(w),
         UNCHANGED <<owner, io_wait, io_blocked, pending_io, bytes, notifier,
                     main, term, last_thread, stop, curr_conns>>
  PROVE  Woken'
<1> USE DEF Woken
<1>1. TypeOK'
  BY DEF worker_libevent_end, TypeOK, term, stop
<1>2. At(w, "ended")'
  BY DEF worker_libevent_end, TypeOK, At
<1>3. \A v \in Workers \ {w} : worker'[v] = worker[v] /\ queue'[v] = queue[v]
  BY DEF worker_libevent_end, TypeOK
<1>4. WakeupsKept'
  BY <1>2, <1>3, OneWorker
<1> QED
  BY <1>1, <1>4

\* A byte that is read becomes the step "pop".
LEMMA ThreadEventWoken ==
  ASSUME Woken, NEW w \in Workers, ThreadEvent(w)
  PROVE  Woken'
<1> USE DEF Woken
<1>1. CASE memcached_shutdown > 1 /\ worker_libevent_end(w) /\ UNCHANGED bytes
  BY <1>1, EndWoken DEF ThreadEvent
<1>2. CASE /\ bytes' = [bytes EXCEPT ![w] = @ - 1]
           /\ worker' = [worker EXCEPT ![w] = "pop"]
           /\ UNCHANGED <<conn, queue, taken, cur>>
  <2>1. bytes[w] \in Nat /\ bytes[w] > 0 /\ At(w, "loop")
    BY DEF ThreadEvent, TypeOK
  <2>2. TypeOK'
    BY <1>2, <2>1 DEF ThreadEvent, TypeOK, stop, term
  <2>3. bytes'[w] = bytes[w] - 1 /\ worker'[w] = "pop"
    BY <1>2 DEF TypeOK
  <2>4. \A v \in Workers \ {w} : worker'[v] = worker[v] /\ bytes'[v] = bytes[v]
    BY <1>2 DEF TypeOK
  <2>5. QueueWoken(w)' /\ PendingWoken(w)'
    <3>1. QueueWoken(w) /\ Len(queue[w]) \in Nat
      BY <2>1 DEF WakeupsKept, At, TypeOK
    <3> QED BY <1>2, <2>1, <2>3, <3>1 DEF ThreadEvent, QueueWoken, PendingWoken, At
  <2>6. WakeupsKept'
    BY <1>2, <2>4, <2>5, OneWorker DEF ThreadEvent
  <2> QED BY <2>2, <2>6
<1> QED
  BY <1>1, <1>2 DEF ThreadEvent

\* The step "pop" takes one connection from the queue, if there is one.
LEMMA PopNewWoken ==
  ASSUME Woken, NEW w \in Workers, PopNew(w)
  PROVE  Woken'
<1> USE DEF Woken
<1>2. worker'[w] = "take" /\ \A v \in Workers \ {w} : worker'[v] = worker[v]
  BY DEF PopNew, TypeOK
<1>3. queue[w] \in Seq(Conns) /\ bytes[w] \in Nat /\ QueueWoken(w)
  BY DEF PopNew, TypeOK, WakeupsKept, At
<1>4. /\ queue' \in [Workers -> Seq(Conns)]
      /\ Len(queue'[w]) = (IF queue[w] = <<>> THEN 0 ELSE Len(queue[w]) - 1)
      /\ \A v \in Workers \ {w} : queue'[v] = queue[v]
  <2>1. CASE queue[w] = <<>>
    BY <2>1 DEF PopNew, TypeOK
  <2>2. CASE queue[w] # <<>>
    <3>1. Tail(queue[w]) \in Seq(Conns) /\ Len(Tail(queue[w])) = Len(queue[w]) - 1
      BY <1>3, <2>2
    <3>2. queue' = [queue EXCEPT ![w] = Tail(queue[w])]
      BY <2>2 DEF PopNew
    <3> QED BY <2>2, <3>1, <3>2 DEF TypeOK
  <2> QED BY <2>1, <2>2
<1>1. TypeOK'
  <2>1. conn' \in [Conns -> {"closed", "queued", "open", "off"}]
    BY Zenon DEF PopNew, TypeOK
  <2> QED BY <1>4, <2>1, Zenon DEF PopNew, TypeOK, stop, term
<1>5. QueueWoken(w)' /\ PendingWoken(w)'
  BY <1>2, <1>3, <1>4 DEF PopNew, QueueWoken, PendingWoken, At
<1>6. WakeupsKept'
  BY <1>2, <1>4, <1>5, OneWorker DEF PopNew
<1> QED
  BY <1>1, <1>6

\* A worker outside the steps "pop" and "take" goes on with anything but "pop":
\* its queue still has its bytes; its list is not longer than it was, or empty.
LEMMA RunKeeps ==
  ASSUME Woken, NEW w \in Workers, worker[w] # "pop", worker[w] # "ended",
         worker'[w] # "pop", UNCHANGED <<queue, bytes, notifier, main, last_thread>>,
         \A v \in Workers \ {w} : worker'[v] = worker[v] /\ pending_io'[v] = pending_io[v],
         \/ pending_io'[w] = {}
         \/ pending_io'[w] \subseteq pending_io[w] /\ worker[w] # "take"
  PROVE  WakeupsKept'
<1> USE DEF Woken
<1>1. QueueWoken(w) /\ PendingWoken(w)
  BY DEF WakeupsKept, At
<1>2. QueueWoken(w)' /\ PendingWoken(w)'
  BY <1>1 DEF QueueWoken, PendingWoken, At
<1> QED
  BY <1>2, OneWorker

\* The list is empty when it has been taken.
LEMMA TakePendingWoken ==
  ASSUME Woken, NEW w \in Workers, TakePending(w)
  PROVE  Woken'
<1> USE DEF Woken
<1>1. TypeOK'
  BY DEF TakePending, Resume, TypeOK, stop, term
<1>2. /\ worker[w] = "take" /\ worker'[w] \in {"loop", "run"} /\ pending_io'[w] = {}
      /\ \A v \in Workers \ {w} : worker'[v] = worker[v] /\ pending_io'[v] = pending_io[v]
  BY DEF TakePending, Resume, TypeOK, At
<1>3. WakeupsKept'
  BY <1>2, RunKeeps DEF TakePending
<1> QED
  BY <1>1, <1>3

\* A worker that runs a connection takes at most that connection from the list.
LEMMA RunConnWoken ==
  ASSUME Woken, NEW w \in Workers, NEW c \in Conns, NEW rest \in SUBSET Conns,
         worker[w] \in {"loop", "run"}, RunConn(w, c, rest)
  PROVE  Woken'
<1> USE DEF Woken
<1>1. /\ TypeOK' /\ worker'[w] # "pop" /\ pending_io'[w] \subseteq pending_io[w]
      /\ \A v \in Workers \ {w} : worker'[v] = worker[v] /\ pending_io'[v] = pending_io[v]
  <2>1. CASE ServeConn(w, c, rest)
    BY <2>1 DEF RunConn, ServeConn, Resume, TypeOK, stop, term
  <2>2. CASE WaitConn(w, c, rest)
    BY <2>2 DEF RunConn, WaitConn, TypeOK, stop, term
  <2>3. CASE CloseConn(w, c, rest)
    BY <2>3 DEF RunConn, CloseConn, Resume, remove_io_pending, TypeOK, stop, term
  <2>4. CASE process_shutdown_command(w, c, rest)
    <3>1. shutdown_delay' \in Int
      <4>1. shutdown_delay' = shutdown_delay \/ shutdown_delay' \in Delays
        BY <2>4 DEF process_shutdown_command
      <4>2. Delays \subseteq Int
        BY ThreadsAssumption DEF ThreadsAssumption
      <4>3. shutdown_delay \in Int
        BY DEF TypeOK
      <4> QED BY <4>1, <4>2, <4>3, Zenon
    <3> QED BY <2>4, <3>1 DEF RunConn, process_shutdown_command, Resume, TypeOK, term
  <2> QED BY <2>1, <2>2, <2>3, <2>4 DEF RunConn
<1>2. WakeupsKept'
  BY <1>1, RunKeeps DEF RunConn
<1> QED
  BY <1>1, <1>2

\* A connection that is suspended is in no list yet.
LEMMA BlockedWoken ==
  ASSUME Woken, NEW w \in Workers, should_io_blocked(w)
  PROVE  Woken'
<1> USE DEF Woken
<1>1. TypeOK'
  BY ZenonT(60) DEF should_io_blocked, Resume, TypeOK, stop, term
<1>2. /\ worker[w] = "check" /\ worker'[w] \in {"loop", "run"}
      /\ \A v \in Workers \ {w} : worker'[v] = worker[v]
  BY DEF should_io_blocked, Resume, TypeOK, At
<1>3. WakeupsKept'
  BY <1>2, RunKeeps DEF should_io_blocked
<1> QED
  BY <1>1, <1>3

\* The event of a connection is like any other run, or the end of the worker.
LEMMA EventWoken ==
  ASSUME Woken, NEW w \in Workers, NEW c \in Conns, event_handler(w, c)
  PROVE  Woken'
<1>1. CASE memcached_shutdown <= 1 /\ RunConn(w, c, {})
  BY <1>1, RunConnWoken, Zenon DEF event_handler, At
<1>2. CASE ~(memcached_shutdown <= 1 /\ RunConn(w, c, {}))
  BY <1>2, EndWoken, Zenon DEF event_handler
<1> QED
  BY <1>1, <1>2

-----------------------------------------------------------------------------
(***************************************************************************)
(* The engine's threads, and the theorem.                                  *)
(***************************************************************************)

\* Who puts the first connection into a list is about to write the byte.
LEMMA NotifyWoken ==
  ASSUME Woken, NEW e \in Notifiers, NEW c \in Conns, notify_io_complete(e, c)
  PROVE  Woken'
<1> USE DEF Woken
<1>1. CASE io_blocked[c]
  <2>1. TypeOK'
    <3>1. /\ pending_io' = [pending_io EXCEPT ![owner[c]] = @ \cup {c}]
          /\ notifier' = [notifier EXCEPT ![e] = ThreadToKick(owner[c])]
          /\ io_blocked' = [io_blocked EXCEPT ![c] = FALSE]
          /\ io_wait' = [io_wait EXCEPT ![c] = FALSE]
      BY <1>1 DEF notify_io_complete
    <3>2. pending_io' \in [Workers -> SUBSET Conns]
      BY <3>1, ZenonT(60) DEF TypeOK
    <3>3. notifier' \in [Notifiers -> Workers \cup {None}]
      BY <3>1 DEF TypeOK, ThreadToKick
    <3>4. io_blocked' \in [Conns -> BOOLEAN] /\ io_wait' \in [Conns -> BOOLEAN]
      BY <3>1 DEF TypeOK
    <3> QED BY <3>2, <3>3, <3>4 DEF notify_io_complete, TypeOK, stop, run, term
  <2>2. ASSUME NEW w \in Workers, ~At(w, "ended")'
        PROVE  QueueWoken(w)' /\ PendingWoken(w)'
    <3>1. QueueWoken(w) /\ PendingWoken(w)
      BY <2>2 DEF notify_io_complete, WakeupsKept, At, run
    <3>2. CASE w = owner[c]
      <4>1. CASE pending_io[w] = {}
        BY <1>1, <3>1, <3>2, <4>1 DEF notify_io_complete, ThreadToKick, TypeOK,
              QueueWoken, PendingWoken, At, stop, run, term
      <4>2. CASE pending_io[w] # {}
        BY <1>1, <3>1, <3>2, <4>2 DEF notify_io_complete, ThreadToKick, TypeOK,
              QueueWoken, PendingWoken, At, stop, run, term
      <4> QED BY <4>1, <4>2
    <3>3. CASE w # owner[c]
      BY <1>1, <3>1, <3>3, ThreadsAssumption
         DEF notify_io_complete, ThreadToKick, TypeOK, QueueWoken,
             PendingWoken, At, stop, run, term
    <3> QED BY <3>2, <3>3
  <2> QED BY <2>1, <2>2 DEF WakeupsKept
<1>2. CASE ~io_blocked[c]
  BY <1>2, Zenon DEF notify_io_complete, TypeOK, WakeupsKept, QueueWoken, PendingWoken, At,
              stop, run, term
<1> QED
  BY <1>1, <1>2

\* The byte arrives.
LEMMA NotifyWriteWoken ==
  ASSUME Woken, NEW e \in Notifiers, NotifyWrite(e)
  PROVE  Woken'
<1> USE DEF Woken
<1>0. notifier[e] \in Workers
  BY DEF NotifyWrite, TypeOK
<1>1. TypeOK'
  BY <1>0 DEF NotifyWrite, TypeOK, stop, run, term
<1>2. ASSUME NEW w \in Workers, ~At(w, "ended")'
      PROVE  QueueWoken(w)' /\ PendingWoken(w)'
  <2>1. QueueWoken(w) /\ PendingWoken(w)
    BY <1>2 DEF NotifyWrite, WakeupsKept, At, run
  <2>2. CASE w = notifier[e]
    BY <1>0, <2>1, <2>2 DEF NotifyWrite, TypeOK, QueueWoken, PendingWoken, At,
                            stop, run, term
  <2>3. CASE w # notifier[e]
    BY <1>0, <2>1, <2>3 DEF NotifyWrite, TypeOK, QueueWoken, PendingWoken, At,
                            stop, run, term
  <2> QED BY <2>2, <2>3
<1> QED
  BY <1>1, <1>2 DEF WakeupsKept

\* Every step keeps the invariant.
LEMMA NextWoken == Woken /\ [Next]_vars => Woken'
<1> SUFFICES ASSUME Woken, [Next]_vars PROVE Woken'
  OBVIOUS
<1>1. CASE MainStep
  BY <1>1, MainWoken
<1>2. ASSUME NEW c \in Conns, conn_listening(c) PROVE Woken'
  BY <1>2, ListeningWoken
<1>3. CASE shutdown_server
  <2>1. TypeOK'
    BY <1>3 DEF Woken, shutdown_server, TypeOK, pool, run, term
  <2>2. WakeupsKept'
    BY <1>3, OthersKeep DEF Woken, shutdown_server, pool, run
  <2> QED BY <2>1, <2>2 DEF Woken
<1>4. ASSUME NEW w \in Workers, ThreadEvent(w) PROVE Woken'
  BY <1>4, ThreadEventWoken
<1>5. ASSUME NEW w \in Workers, WorkerStep(w) PROVE Woken'
  <2>1. ASSUME NEW c \in Conns, RunPending(w, c) PROVE Woken'
    <3>1. taken[w] \ {c} \in SUBSET Conns
      BY DEF Woken, TypeOK
    <3> QED BY <2>1, <3>1, RunConnWoken DEF RunPending, At
  <2> QED
    BY <1>5, <2>1, PopNewWoken, TakePendingWoken, BlockedWoken DEF WorkerStep
<1>6. ASSUME NEW w \in Workers, NEW c \in Conns, event_handler(w, c) PROVE Woken'
  BY <1>6, EventWoken
<1>7. ASSUME NEW e \in Notifiers, NotifyWrite(e) PROVE Woken'
  BY <1>7, NotifyWriteWoken
<1>8. ASSUME NEW e \in Notifiers, NEW c \in Conns, notify_io_complete(e, c) PROVE Woken'
  BY <1>8, NotifyWoken
<1>9. CASE UNCHANGED vars
  BY <1>9, Zenon DEF Woken, vars, TypeOK, WakeupsKept, QueueWoken, PendingWoken, At, pool, stop,
              run, term
<1> QED
  BY <1>1, <1>2, <1>3, <1>4, <1>5, <1>6, <1>7, <1>8, <1>9 DEF Next

\* No wakeup is lost between the main thread, the engine's threads and the
\* workers, however many there are: a worker has a byte for every connection
\* in its queue and for a list that is not empty.
THEOREM NoLostWakeup == Spec => []WakeupsKept
<1>1. Woken => WakeupsKept
  BY DEF Woken
<1> QED
  BY InitWoken, NextWoken, <1>1, PTL DEF Spec

=============================================================================
