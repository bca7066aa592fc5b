------------------------- MODULE ThreadsConnsProofs -------------------------
(***************************************************************************)
(* Every connection is counted, is in one place, and is closed in the end  *)
(* (ConnsAccounted), for any number of threads and connections.            *)
(*                                                                         *)
(* What makes it inductive is where a connection may be.  A worker runs a  *)
(* connection that is in no list and waits for nothing; a connection in    *)
(* the queue of a worker, in its pending_io list or taken from it is the   *)
(* worker's own; a worker takes its list only when it has run all of the   *)
(* last one.  When a worker has ended its connections are lost: a commit   *)
(* may still be notified for one of them.                                  *)
(***************************************************************************)
EXTENDS ThreadsProofs

\* The worker of the connection has not ended, or it never had one.
NotLost(c) == owner[c] \in Workers => ~At(owner[c], "ended")

\* A connection with an event, or none at all: it is in no list.  It may wait
\* for a commit only while its worker is about to suspend it.
Idle(c) ==
    /\ ~io_blocked[c]
    /\ \A w \in Workers : c \notin pending_io[w] /\ c \notin taken[w]
    /\ io_wait[c] => conn[c] = "open" /\ cur[owner[c]] = c

\* A connection without an event: Suspended(), without counting.
OnePlace(c) ==
    /\ io_wait[c] <=> io_blocked[c]
    /\ \/ io_wait[c]  /\ c \notin pending_io[owner[c]] /\ c \notin taken[owner[c]]
       \/ ~io_wait[c] /\ c \in pending_io[owner[c]]    /\ c \notin taken[owner[c]]
       \/ ~io_wait[c] /\ c \notin pending_io[owner[c]] /\ c \in taken[owner[c]]

ConnPlaced(c) ==
    /\ conn[c] # "closed" => owner[c] \in Workers /\ ~At(owner[c], "ended")
    /\ conn[c] = "off" => OnePlace(c)
    /\ conn[c] # "off" /\ NotLost(c) => Idle(c)

\* What a worker has is its own.
WorkerHolds(w) ==
    /\ \A c \in pending_io[w] : owner[c] = w
    /\ \A c \in taken[w] : owner[c] = w /\ conn[c] = "off"
    /\ taken[w] # {} => worker[w] \in {"run", "check"}
    /\ At(w, "check") <=> cur[w] # None
    /\ At(w, "check") => owner[cur[w]] = w /\ conn[cur[w]] = "open"

\* A connection is in the queue of its worker, once.
QueueHolds(w) ==
    /\ \A i \in 1 .. Len(queue[w]) : conn[queue[w][i]] = "queued" /\ owner[queue[w][i]] = w
    /\ \A i, j \in 1 .. Len(queue[w]) : queue[w][i] = queue[w][j] => i = j

Placed ==
    /\ \A c \in Conns : ConnPlaced(c)
    /\ \A w \in Workers : WorkerHolds(w) /\ QueueHolds(w)

\* How far the shutdown is.
Stopping ==
    /\ memcached_shutdown \in 0 .. 2
    /\ memcached_shutdown = 2 <=> main \in {"stop", "join", "done"}
    /\ \A w \in Workers : At(w, "ended") => memcached_shutdown = 2
    /\ main \in {"stop", "join"} => \A w \in Workers : w < ii => At(w, "ended")
    /\ main = "done" => \A w \in Workers : At(w, "ended")

Counted ==
    /\ uncounted \in Nat
    /\ curr_conns <= MaxConns + AdminConns
    /\ (\A w \in Workers : ~At(w, "ended")) => curr_conns = Cardinality(Served) + uncounted

\* The inductive invariant.
Accounted == TypeOK /\ Counted /\ Stopping /\ Placed

-----------------------------------------------------------------------------
\* A worker that runs a connection goes on.
LEMMA RunGoesOn ==
  ASSUME TypeOK, NEW w \in Workers, NEW c \in Conns, NEW rest \in SUBSET Conns,
         RunConn(w, c, rest)
  PROVE  worker'[w] # "ended" /\ \A v \in Workers \ {w} : worker'[v] = worker[v]
<1>1. PICK s \in {"loop", "run", "check"} : worker' = [worker EXCEPT ![w] = s]
  BY Zenon DEF RunConn, ServeConn, WaitConn, CloseConn, process_shutdown_command, Resume
<1> QED
  BY <1>1, Zenon DEF TypeOK

\* A worker that goes to another place in its loop does nothing else to the
\* places of the workers.
LEMMA WorkerGoesTo ==
  ASSUME TypeOK, NEW w \in Workers, NEW s, worker' = [worker EXCEPT ![w] = s]
  PROVE  worker'[w] = s /\ \A v \in Workers \ {w} : worker'[v] = worker[v]
<1>1. PICK S : worker \in [Workers -> S]
  BY Zenon DEF TypeOK
<1> QED
  BY <1>1, Zenon

\* memcached_shutdown and the main thread agree on how far the shutdown is.
LEMMA StoppingStep ==
  ASSUME TypeOK, TypeOK', Stopping, [Next]_vars PROVE Stopping'
<1>1. CASE MainStep
  <2>0. worker' = worker
    BY <1>1, Zenon DEF MainStep, DispatchWrite, BreakMainLoop, WaitForClients, SubtractDelay, StopThreads,
                StopThread, JoinThread, DestroyEngine, unchangedByMain, run
  <2>1. CASE DispatchWrite \/ BreakMainLoop
    BY <2>0, <2>1, Zenon DEF DispatchWrite, BreakMainLoop, Stopping, At, stop
  <2>2. CASE WaitForClients \/ SubtractDelay
    BY <2>0, <2>2, Zenon DEF WaitForClients, SubtractDelay, Stopping, At
  <2>3. CASE StopThreads
    BY <2>0, <2>3 DEF StopThreads, Stopping, At, Workers
  <2>4. CASE StopThread
    BY <2>0, <2>4, Zenon DEF StopThread, Stopping, At, term
  <2>5. CASE JoinThread
    BY <2>0, <2>5 DEF JoinThread, Stopping, At, TypeOK, Workers
  <2>6. CASE DestroyEngine
    BY <2>0, <2>6, ThreadsAssumption DEF DestroyEngine, Stopping, At, Workers
  <2> QED BY <1>1, <2>1, <2>2, <2>3, <2>4, <2>5, <2>6, Zenon DEF MainStep
<1>2. ASSUME NEW c \in Conns, conn_listening(c) PROVE Stopping'
  BY <1>2, Zenon DEF conn_listening, RejectConn, DropConn, dispatch_conn_new, Stopping, At, run, stop, term
<1>3. CASE shutdown_server
  BY <1>3 DEF shutdown_server, Stopping, At, pool, run, term
<1>4. ASSUME NEW w \in Workers, worker_libevent_end(w), memcached_shutdown > 1,
             UNCHANGED <<main, term, stop>>
      PROVE  Stopping'
  <2>1. worker'[w] = "ended" /\ \A v \in Workers \ {w} : worker'[v] = worker[v]
    BY <1>4, WorkerGoesTo, Zenon DEF worker_libevent_end
  <2>2. \A v \in Workers : At(v, "ended") => At(v, "ended")'
    BY <2>1, Zenon DEF At
  <2>3. UNCHANGED <<main, memcached_shutdown, ii>>
    BY <1>4, Zenon DEF stop, term
  <2> QED BY <1>4, <2>2, <2>3 DEF Stopping
<1>5. ASSUME NEW w \in Workers, worker[w] # "ended", worker'[w] # "ended",
             \A v \in Workers \ {w} : worker'[v] = worker[v],
             memcached_shutdown' = memcached_shutdown \/ (memcached_shutdown = 0 /\ memcached_shutdown' = 1),
             UNCHANGED <<main, term>>
      PROVE  Stopping'
  BY <1>5 DEF Stopping, At, term
<1>6. ASSUME NEW w \in Workers, NEW c \in Conns, NEW rest \in SUBSET Conns,
             worker[w] \in {"loop", "run"}, RunConn(w, c, rest)
      PROVE  Stopping'
  <2>1. worker'[w] # "ended" /\ \A v \in Workers \ {w} : worker'[v] = worker[v]
    BY <1>6, RunGoesOn, Zenon
  <2>2. /\ memcached_shutdown' = memcached_shutdown \/ (memcached_shutdown = 0 /\ memcached_shutdown' = 1)
        /\ UNCHANGED <<main, term>>
    BY <1>6, Zenon DEF RunConn, ServeConn, WaitConn, CloseConn, process_shutdown_command, stop
  <2> QED BY <1>5, <1>6, <2>1, <2>2, Zenon
<1>7. ASSUME NEW w \in Workers, ThreadEvent(w) PROVE Stopping'
  <2>1. CASE memcached_shutdown > 1 /\ worker_libevent_end(w)
    BY <1>4, <1>7, <2>1, Zenon DEF ThreadEvent
  <2>2. CASE worker' = [worker EXCEPT ![w] = "pop"]
    <3>1. worker[w] # "ended" /\ worker'[w] # "ended" /\ \A v \in Workers \ {w} : worker'[v] = worker[v]
      <4>1. worker[w] = "loop"
        BY <1>7, Zenon DEF ThreadEvent, At
      <4> QED BY <2>2, <4>1, WorkerGoesTo, Zenon
    <3> QED BY <1>5, <1>7, <3>1, Zenon DEF ThreadEvent, stop
  <2> QED BY <1>7, <2>1, <2>2, Zenon DEF ThreadEvent
<1>8. ASSUME NEW w \in Workers, WorkerStep(w) PROVE Stopping'
  <2>1. CASE PopNew(w)
    <3>1. worker[w] # "ended" /\ worker'[w] # "ended" /\ \A v \in Workers \ {w} : worker'[v] = worker[v]
      <4>1. worker[w] = "pop" /\ worker' = [worker EXCEPT ![w] = "take"]
        BY <2>1, Zenon DEF PopNew, At
      <4> QED BY <4>1, WorkerGoesTo, Zenon
    <3> QED BY <1>5, <2>1, <3>1, Zenon DEF PopNew, stop, term
  <2>2. CASE TakePending(w)
    <3>1. worker[w] # "ended" /\ worker'[w] # "ended" /\ \A v \in Workers \ {w} : worker'[v] = worker[v]
      <4>1. worker[w] = "take" /\ \E s \in {"loop", "run"} : worker' = [worker EXCEPT ![w] = s]
        BY <2>2, Zenon DEF TakePending, Resume, At
      <4> QED BY <4>1, WorkerGoesTo, Zenon
    <3> QED BY <1>5, <2>2, <3>1, Zenon DEF TakePending, stop, term
  <2>3. CASE should_io_blocked(w)
    <3>1. worker[w] # "ended" /\ worker'[w] # "ended" /\ \A v \in Workers \ {w} : worker'[v] = worker[v]
      <4>1. worker[w] = "check" /\ \E s \in {"loop", "run"} : worker' = [worker EXCEPT ![w] = s]
        BY <2>3, Zenon DEF should_io_blocked, Resume, At
      <4> QED BY <4>1, WorkerGoesTo, Zenon
    <3> QED BY <1>5, <2>3, <3>1, Zenon DEF should_io_blocked, stop, term
  <2>4. ASSUME NEW c \in Conns, RunPending(w, c) PROVE Stopping'
    BY <1>6, <2>4, Zenon DEF RunPending, TypeOK, At
  <2> QED BY <1>8, <2>1, <2>2, <2>3, <2>4, Zenon DEF WorkerStep
<1>9. ASSUME NEW w \in Workers, NEW c \in Conns, event_handler(w, c) PROVE Stopping'
  <2>1. CASE RunConn(w, c, {})
    BY <1>6, <1>9, <2>1, Zenon DEF event_handler, At
  <2>2. CASE memcached_shutdown > 1 /\ worker_libevent_end(w) /\ UNCHANGED <<main, term, stop>>
    BY <1>4, <2>2, Zenon
  <2> QED BY <1>9, <2>1, <2>2, Zenon DEF event_handler
<1>10. ASSUME NEW e \in Notifiers, NotifyWrite(e) \/ \E c \in Conns : notify_io_complete(e, c)
       PROVE  Stopping'
  BY <1>10, Zenon DEF NotifyWrite, notify_io_complete, Stopping, At, stop, run, term
<1>11. CASE UNCHANGED vars
  BY <1>11, Zenon DEF vars, Stopping, At, pool, stop, run, term
<1> QED
  BY <1>1, <1>2, <1>3, <1>7, <1>8, <1>9, <1>10, <1>11, Zenon DEF Next

\* A connection that a step does not touch stays where it is.
LEMMA ConnKept ==
  ASSUME TypeOK, NEW d \in Conns, ConnPlaced(d),
         conn'[d] = conn[d], owner'[d] = owner[d],
         io_wait'[d] = io_wait[d], io_blocked'[d] = io_blocked[d],
         \A v \in Workers : /\ d \in pending_io'[v] <=> d \in pending_io[v]
                            /\ d \in taken'[v] <=> d \in taken[v]
                            /\ cur[v] = d => cur'[v] = d
                            /\ worker'[v] = "ended" <=> worker[v] = "ended"
  PROVE  ConnPlaced(d)'
<1>1. conn[d] = "off" => OnePlace(d)'
  BY Zenon DEF ConnPlaced, OnePlace
<1>2. conn[d] # "off" /\ NotLost(d)' => Idle(d)'
  <2> SUFFICES ASSUME conn[d] # "off", NotLost(d)' PROVE Idle(d)'
    BY Zenon
  <2>1. NotLost(d)
    BY Zenon DEF NotLost, At
  <2>2. Idle(d)
    BY <2>1, Zenon DEF ConnPlaced
  <2>3. io_wait[d] => owner[d] \in Workers
    BY <2>2, Zenon DEF ConnPlaced, Idle
  <2> QED BY <2>2, <2>3, Zenon DEF Idle
<1> QED
  BY <1>1, <1>2, Zenon DEF ConnPlaced, At

\* So does what a worker has.
LEMMA WorkerKept ==
  ASSUME TypeOK, NEW v \in Workers, WorkerHolds(v),
         \A d \in pending_io'[v] : owner'[d] = v,
         \A d \in Conns : d \in taken[v] \/ d = cur[v] =>
                             owner'[d] = owner[d] /\ conn'[d] = conn[d],
         taken'[v] = taken[v], cur'[v] = cur[v],
         \/ worker'[v] = worker[v]
         \/ {worker[v], worker'[v]} \cap {"run", "check"} = {}
  PROVE  WorkerHolds(v)'
<1>1. ASSUME NEW d \in taken[v] PROVE owner'[d] = v /\ conn'[d] = "off"
  <2>1. d \in Conns /\ owner[d] = v /\ conn[d] = "off"
    BY Zenon DEF TypeOK, WorkerHolds
  <2> QED BY <2>1, Zenon
<1>2. ASSUME At(v, "check") PROVE owner'[cur[v]] = v /\ conn'[cur[v]] = "open"
  <2>1. cur[v] \in Conns /\ owner[cur[v]] = v /\ conn[cur[v]] = "open"
    BY <1>2, ThreadsAssumption, Zenon DEF TypeOK, WorkerHolds
  <2> QED BY <2>1, Zenon
<1>3. At(v, "check")' <=> At(v, "check")
  BY Zenon DEF At
<1>4. taken[v] # {} => worker'[v] \in {"run", "check"}
  BY Zenon DEF WorkerHolds
<1>5. At(v, "check") <=> cur[v] # None
  BY Zenon DEF WorkerHolds
<1> QED
  BY <1>1, <1>2, <1>3, <1>4, <1>5, Zenon DEF WorkerHolds

\* The same when no connection changes hands.
LEMMA WorkerSame ==
  ASSUME TypeOK, NEW v \in Workers, WorkerHolds(v), owner' = owner,
         pending_io'[v] \subseteq pending_io[v], taken'[v] = taken[v], cur'[v] = cur[v],
         worker'[v] = worker[v],
         \A d \in Conns : owner[d] = v => conn'[d] = conn[d]
  PROVE  WorkerHolds(v)'
<1>1. \A d \in pending_io'[v] : owner'[d] = v
  BY Zenon DEF WorkerHolds
<1>2. \A d \in taken[v] : owner[d] = v
  BY Zenon DEF WorkerHolds
<1>3. \A d \in Conns : d = cur[v] => owner[d] = v
  BY ThreadsAssumption, Zenon DEF WorkerHolds
<1> QED
  BY <1>1, <1>2, <1>3, WorkerKept, Zenon

\* So does what is in the queue of a worker.
LEMMA QueueKept ==
  ASSUME TypeOK, NEW v \in Workers, QueueHolds(v), queue'[v] = queue[v],
         \A d \in Conns : conn[d] = "queued" /\ owner[d] = v =>
                             conn'[d] = "queued" /\ owner'[d] = v
  PROVE  QueueHolds(v)'
<1>1. queue[v] \in Seq(Conns)
  BY Zenon DEF TypeOK
<1> QED
  BY <1>1 DEF QueueHolds

-----------------------------------------------------------------------------
\* A connection that its worker is about to run: its event has come, or it was
\* taken from the list.
Runs(w, c, rest) ==
    /\ worker[w] \in {"loop", "run"}
    /\ conn[c] \in {"open", "off"} /\ owner[c] = w
    /\ c \notin rest /\ rest \subseteq taken[w] /\ taken[w] \subseteq rest \cup {c}
    /\ conn[c] = "off" => c \in taken[w]

\* A connection that was taken from the list is such.
LEMMA PendingRuns ==
  ASSUME TypeOK, Placed, NEW w \in Workers, NEW c \in Conns, RunPending(w, c)
  PROVE  taken[w] \ {c} \in SUBSET Conns /\ Runs(w, c, taken[w] \ {c}) /\ RunConn(w, c, taken[w] \ {c})
BY ZenonT(60) DEF RunPending, Runs, Placed, WorkerHolds, TypeOK, At

\* A connection whose event has come is such.
LEMMA EventRuns ==
  ASSUME TypeOK, Placed, NEW w \in Workers, NEW c \in Conns, event_handler(w, c)
  PROVE  {} \in SUBSET Conns /\ Runs(w, c, {})
<1>1. worker[w] = "loop" /\ conn[c] = "open" /\ owner[c] = w
  BY Zenon DEF event_handler, At
<1>2. taken[w] = {}
  BY <1>1, Zenon DEF Placed, WorkerHolds
<1> QED
  BY <1>1, <1>2, Zenon DEF Runs

\* It is in no other place, and nothing is waited for.
LEMMA RunsAlone ==
  ASSUME TypeOK, Placed, NEW w \in Workers, NEW c \in Conns, NEW rest \in SUBSET Conns,
         Runs(w, c, rest)
  PROVE  /\ ~io_wait[c] /\ ~io_blocked[c] /\ ~At(w, "ended") /\ cur[w] = None
         /\ \A v \in Workers : c \notin pending_io[v] /\ (v # w => c \notin taken[v])
         /\ \A v \in Workers : cur[v] # c
<1>1. ConnPlaced(c) /\ \A v \in Workers : WorkerHolds(v)
  BY Zenon DEF Placed
<1>2. cur[w] = None /\ ~At(w, "ended")
  BY <1>1, Zenon DEF Runs, WorkerHolds, At
<1>3. \A v \in Workers : cur[v] # c
  BY <1>1, <1>2, ThreadsAssumption DEF Runs, WorkerHolds, At
<1>4. \A v \in Workers : v # w => c \notin pending_io[v] /\ c \notin taken[v]
  BY <1>1 DEF Runs, WorkerHolds
<1>5. ~io_wait[c] /\ ~io_blocked[c] /\ c \notin pending_io[w]
  <2>1. CASE conn[c] = "off"
    BY <1>1, <2>1, Zenon DEF Runs, ConnPlaced, OnePlace
  <2>2. CASE conn[c] = "open"
    BY <1>1, <1>2, <1>3, <2>2, Zenon DEF Runs, ConnPlaced, Idle, NotLost
  <2> QED BY <2>1, <2>2, Zenon DEF Runs
<1> QED
  BY <1>2, <1>3, <1>4, <1>5, Zenon

\* What every way to run a connection leaves alone.
RunFrame(w, c, rest, s) ==
    /\ conn' = [conn EXCEPT ![c] = s]
    /\ worker'[w] # "ended" /\ taken' = [taken EXCEPT ![w] = rest]
    /\ \A v \in Workers \ {w} : worker'[v] = worker[v] /\ cur'[v] = cur[v]
    /\ \A v \in Workers : pending_io'[v] = pending_io[v]
    /\ \A d \in Conns \ {c} : io_wait'[d] = io_wait[d]
    /\ UNCHANGED <<owner, io_blocked, queue>>

\* The other connections and workers are not touched.
LEMMA RunOthers ==
  ASSUME TypeOK, Placed, NEW w \in Workers, NEW c \in Conns, NEW rest \in SUBSET Conns,
         Runs(w, c, rest), NEW s, RunFrame(w, c, rest, s)
  PROVE  /\ \A d \in Conns \ {c} : ConnPlaced(d)'
         /\ \A v \in Workers \ {w} : WorkerHolds(v)'
         /\ \A v \in Workers : QueueHolds(v)'
<1>0. /\ \A v \in Workers : taken'[v] = IF v = w THEN rest ELSE taken[v]
      /\ \A d \in Conns : conn'[d] = IF d = c THEN s ELSE conn[d]
  BY Zenon DEF RunFrame, TypeOK
<1>1. ASSUME NEW d \in Conns \ {c} PROVE ConnPlaced(d)'
  <2>1. ConnPlaced(d)
    BY Zenon DEF Placed
  <2>2. cur[w] # d /\ worker[w] # "ended"
    BY RunsAlone, ThreadsAssumption, Zenon DEF At
  <2>3. \A v \in Workers : /\ d \in taken'[v] <=> d \in taken[v]
                           /\ cur[v] = d => cur'[v] = d
                           /\ worker'[v] = "ended" <=> worker[v] = "ended"
    BY <1>0, <2>2 DEF Runs, RunFrame
  <2>4. /\ conn'[d] = conn[d] /\ owner'[d] = owner[d] /\ io_wait'[d] = io_wait[d]
        /\ io_blocked'[d] = io_blocked[d]
        /\ \A v \in Workers : d \in pending_io'[v] <=> d \in pending_io[v]
    BY <1>0, Zenon DEF RunFrame
  <2> QED BY <2>1, <2>3, <2>4, ConnKept, Zenon
<1>2. ASSUME NEW v \in Workers \ {w} PROVE WorkerHolds(v)'
  <2>1. WorkerHolds(v) /\ \A d \in Conns : owner[d] = v => conn'[d] = conn[d]
    BY <1>0, Zenon DEF Placed, Runs
  <2> QED BY <1>0, <2>1, WorkerSame, ZenonT(60) DEF RunFrame
<1>3. ASSUME NEW v \in Workers PROVE QueueHolds(v)'
  <2>1. QueueHolds(v) /\ \A d \in Conns : conn[d] = "queued" => conn'[d] = "queued"
    BY <1>0, Zenon DEF Placed, Runs
  <2> QED BY <2>1, QueueKept, Zenon DEF RunFrame
<1> QED
  BY <1>1, <1>2, <1>3, Zenon

\* The connection is served, and may be run again, or it is closed.
LEMMA ServePlaced ==
  ASSUME TypeOK, Placed, NEW w \in Workers, NEW c \in Conns, NEW rest \in SUBSET Conns,
         Runs(w, c, rest), NEW s \in {"open", "closed"}, Resume(w, rest),
         conn' = [conn EXCEPT ![c] = s], \A v \in Workers : pending_io'[v] = pending_io[v],
         UNCHANGED <<owner, io_wait, io_blocked, queue>>
  PROVE  Placed'
<1>0. /\ taken' = [taken EXCEPT ![w] = rest] /\ taken'[w] = rest /\ cur'[w] = None
      /\ worker'[w] = (IF rest = {} THEN "loop" ELSE "run")
      /\ \A v \in Workers \ {w} : worker'[v] = worker[v] /\ cur'[v] = cur[v] /\ taken'[v] = taken[v]
      /\ \A d \in Conns : conn'[d] = IF d = c THEN s ELSE conn[d]
  BY Zenon DEF Resume, TypeOK
<1>1. /\ \A d \in Conns \ {c} : ConnPlaced(d)'
      /\ \A v \in Workers \ {w} : WorkerHolds(v)'
      /\ \A v \in Workers : QueueHolds(v)'
  <2>1. RunFrame(w, c, rest, s)
    BY <1>0, Zenon DEF RunFrame
  <2> QED BY <2>1, RunOthers, Zenon
<1>2. ConnPlaced(c)'
  <2>1. \A v \in Workers : c \notin pending_io'[v] /\ c \notin taken'[v]
    <3>1. \A v \in Workers : c \notin pending_io[v] /\ (v # w => c \notin taken[v])
      BY RunsAlone, Zenon
    <3>2. c \notin rest
      BY Zenon DEF Runs
    <3> QED BY <1>0, <3>1, <3>2, ZenonT(60)
  <2>2. Idle(c)'
    BY <2>1, RunsAlone, Zenon DEF Idle
  <2> QED BY <1>0, <2>2, Zenon DEF ConnPlaced, Runs, At
<1>3. WorkerHolds(w)'
  <2>1. WorkerHolds(w)
    BY Zenon DEF Placed
  <2> QED BY <1>0, <2>1, Zenon DEF WorkerHolds, Runs, At, TypeOK
<1> QED
  BY <1>1, <1>2, <1>3, Zenon DEF Placed

\* The connection waits for a commit: its worker is about to suspend it.
LEMMA WaitPlaced ==
  ASSUME TypeOK, Placed, NEW w \in Workers, NEW c \in Conns, NEW rest \in SUBSET Conns,
         Runs(w, c, rest), WaitConn(w, c, rest), UNCHANGED <<owner, io_blocked, queue>>
  PROVE  Placed'
<1>0. /\ taken' = [taken EXCEPT ![w] = rest] /\ taken'[w] = rest /\ cur'[w] = c
      /\ worker'[w] = "check" /\ conn' = [conn EXCEPT ![c] = "open"]
      /\ \A v \in Workers \ {w} : worker'[v] = worker[v] /\ cur'[v] = cur[v] /\ taken'[v] = taken[v]
      /\ \A d \in Conns : conn'[d] = IF d = c THEN "open" ELSE conn[d]
      /\ \A d \in Conns \ {c} : io_wait'[d] = io_wait[d]
      /\ pending_io' = pending_io
  BY Zenon DEF WaitConn, TypeOK
<1>1. /\ \A d \in Conns \ {c} : ConnPlaced(d)'
      /\ \A v \in Workers \ {w} : WorkerHolds(v)'
      /\ \A v \in Workers : QueueHolds(v)'
  <2>1. RunFrame(w, c, rest, "open")
    BY <1>0, Zenon DEF RunFrame
  <2> QED BY <2>1, RunOthers, Zenon
<1>2. ConnPlaced(c)'
  <2>1. \A v \in Workers : c \notin pending_io'[v] /\ c \notin taken'[v]
    <3>1. \A v \in Workers : c \notin pending_io[v] /\ (v # w => c \notin taken[v])
      BY RunsAlone, Zenon
    <3>2. c \notin rest
      BY Zenon DEF Runs
    <3> QED BY <1>0, <3>1, <3>2, Zenon
  <2>2. Idle(c)'
    BY <1>0, <2>1, RunsAlone DEF Idle, Runs
  <2> QED BY <1>0, <2>2 DEF ConnPlaced, Runs, At
<1>3. WorkerHolds(w)'
  <2>1. WorkerHolds(w)
    BY Zenon DEF Placed
  <2> QED BY <1>0, <2>1, ThreadsAssumption DEF WorkerHolds, Runs, At, TypeOK
<1> QED
  BY <1>1, <1>2, <1>3, Zenon DEF Placed
\* The connection is suspended, or goes on when the commit is complete already.
LEMMA BlockedPlaced ==
  ASSUME TypeOK, Placed, NEW w \in Workers, should_io_blocked(w)
  PROVE  Placed'
<1> DEFINE c == cur[w]
<1>0. /\ taken' = taken /\ cur'[w] = None /\ worker[w] = "check"
      /\ worker'[w] = (IF taken[w] = {} THEN "loop" ELSE "run")
      /\ \A v \in Workers \ {w} : worker'[v] = worker[v] /\ cur'[v] = cur[v]
      /\ UNCHANGED <<pending_io, owner, queue, io_wait>>
  BY Zenon DEF should_io_blocked, Resume, TypeOK, At
<1>1. c \in Conns /\ c # None
  BY <1>0, ThreadsAssumption DEF Placed, WorkerHolds, TypeOK, At
<1>2. /\ \A d \in Conns \ {c} : conn'[d] = conn[d] /\ io_blocked'[d] = io_blocked[d]
      /\ conn'[c] = (IF io_wait[c] THEN "off" ELSE "open")
      /\ io_blocked'[c] = (IF io_wait[c] THEN TRUE ELSE io_blocked[c])
  <2>1. conn[c] = "open"
    BY <1>0, Zenon DEF Placed, WorkerHolds, At
  <2>2. CASE io_wait[c]
    <3>1. conn' = [conn EXCEPT ![c] = "off"] /\ io_blocked' = [io_blocked EXCEPT ![c] = TRUE]
      BY <2>2, Zenon DEF should_io_blocked
    <3> QED BY <1>1, <2>2, <3>1, Zenon DEF TypeOK
  <2>3. CASE ~io_wait[c]
    BY <2>1, <2>3, Zenon DEF should_io_blocked
  <2> QED BY <2>2, <2>3, Zenon
<1>3. owner[c] = w /\ conn[c] = "open"
  BY <1>0, Zenon DEF Placed, WorkerHolds, At
<1>4. Idle(c)
  BY <1>0, <1>1, <1>3, Zenon DEF Placed, ConnPlaced, NotLost, At
<1> HIDE DEF c
<1>5. ASSUME NEW d \in Conns PROVE ConnPlaced(d)'
  <2>1. ConnPlaced(d)
    BY Zenon DEF Placed
  <2>2. CASE d = c
    <3>1. CASE io_wait[c]
      BY <1>0, <1>1, <1>2, <1>3, <1>4, <2>2, <3>1, Zenon DEF ConnPlaced, OnePlace, Idle, At
    <3>2. CASE ~io_wait[c]
      BY <1>0, <1>1, <1>2, <1>3, <1>4, <2>2, <3>2, Zenon DEF ConnPlaced, Idle, At
    <3> QED BY <3>1, <3>2, Zenon
  <2>3. CASE d # c
    <3>1. \A v \in Workers : /\ cur[v] = d => cur'[v] = d
                             /\ worker'[v] = "ended" <=> worker[v] = "ended"
      BY <1>0, <2>3, Zenon DEF c
    <3> QED BY <1>0, <1>2, <2>1, <2>3, <3>1, ConnKept, Zenon
  <2> QED BY <2>2, <2>3, Zenon
<1>6. ASSUME NEW v \in Workers PROVE WorkerHolds(v)'
  <2>1. WorkerHolds(v)
    BY Zenon DEF Placed
  <2>2. CASE v = w
    <3>1. ASSUME NEW d \in taken[w] PROVE owner[d] = w /\ conn'[d] = "off"
      <4>1. d \in Conns /\ owner[d] = w /\ conn[d] = "off"
        BY <2>1, <2>2, Zenon DEF WorkerHolds, TypeOK
      <4> QED BY <1>2, <1>3, <4>1, Zenon
    <3>2. \A d \in pending_io[w] : owner[d] = w
      BY <2>1, <2>2, Zenon DEF WorkerHolds
    <3> QED BY <1>0, <2>2, <3>1, <3>2, Zenon DEF WorkerHolds, At
  <2>3. CASE v # w
    <3>1. \A d \in Conns : owner[d] = v => conn'[d] = conn[d]
      BY <1>2, <1>3, <2>3, Zenon
    <3> QED BY <1>0, <2>1, <2>3, <3>1, WorkerSame, Zenon
  <2> QED BY <2>2, <2>3, Zenon
<1>7. ASSUME NEW v \in Workers PROVE QueueHolds(v)'
  <2>1. QueueHolds(v) /\ \A d \in Conns : conn[d] = "queued" => conn'[d] = "queued"
    BY <1>2, <1>3, Zenon DEF Placed
  <2> QED BY <1>0, <2>1, QueueKept, Zenon
<1> QED
  BY <1>5, <1>6, <1>7, Zenon DEF Placed

\* The connections of the list become those that were taken.
LEMMA TakePlaced ==
  ASSUME TypeOK, Placed, NEW w \in Workers, TakePending(w)
  PROVE  Placed'
<1>0. /\ taken'[w] = pending_io[w] /\ pending_io'[w] = {} /\ cur'[w] = None
      /\ worker[w] = "take" /\ worker'[w] = (IF pending_io[w] = {} THEN "loop" ELSE "run")
      /\ \A v \in Workers \ {w} : /\ worker'[v] = worker[v] /\ cur'[v] = cur[v]
                                  /\ taken'[v] = taken[v] /\ pending_io'[v] = pending_io[v]
      /\ UNCHANGED <<conn, owner, queue, io_wait, io_blocked>>
  BY Zenon DEF TakePending, Resume, TypeOK, At
<1>1. taken[w] = {} /\ cur[w] = None
  BY <1>0, Zenon DEF Placed, WorkerHolds, At
<1>2. \A c \in pending_io[w] : c \in Conns /\ owner[c] = w /\ conn[c] = "off"
  <2> SUFFICES ASSUME NEW c \in pending_io[w] PROVE c \in Conns /\ owner[c] = w /\ conn[c] = "off"
    OBVIOUS
  <2>1. c \in Conns /\ owner[c] = w
    BY Zenon DEF TypeOK, Placed, WorkerHolds
  <2> QED BY <1>0, <2>1, Zenon DEF Placed, ConnPlaced, Idle, NotLost, At
<1>3. ASSUME NEW d \in Conns PROVE ConnPlaced(d)'
  <2>1. ConnPlaced(d)
    BY Zenon DEF Placed
  <2>2. CASE d \in pending_io[w]
    BY <1>0, <1>1, <1>2, <2>1, <2>2, Zenon DEF ConnPlaced, OnePlace, At
  <2>3. CASE d \notin pending_io[w]
    <3>1. \A v \in Workers : /\ d \in pending_io'[v] <=> d \in pending_io[v]
                             /\ d \in taken'[v] <=> d \in taken[v]
                             /\ cur[v] = d => cur'[v] = d
                             /\ worker'[v] = "ended" <=> worker[v] = "ended"
      BY <1>0, <1>1, <2>3, Zenon
    <3> QED BY <1>0, <2>1, <3>1, ConnKept, Zenon
  <2> QED BY <2>2, <2>3, Zenon
<1>4. ASSUME NEW v \in Workers PROVE WorkerHolds(v)'
  <2>1. WorkerHolds(v)
    BY Zenon DEF Placed
  <2>2. CASE v = w
    BY <1>0, <1>1, <1>2, <2>2, Zenon DEF WorkerHolds, At
  <2>3. CASE v # w
    BY <1>0, <2>1, <2>3, WorkerSame, Zenon
  <2> QED BY <2>2, <2>3, Zenon
<1>5. ASSUME NEW v \in Workers PROVE QueueHolds(v)'
  BY <1>0, QueueKept, Zenon DEF Placed
<1> QED
  BY <1>3, <1>4, <1>5, Zenon DEF Placed

\* A connection leaves the queue, to be served, or to be closed.
LEMMA PopPlaced ==
  ASSUME TypeOK, Placed, NEW w \in Workers, PopNew(w)
  PROVE  Placed'
<1>0. /\ worker[w] = "pop" /\ worker'[w] = "take" /\ UNCHANGED <<taken, cur>>
      /\ \A v \in Workers \ {w} : worker'[v] = worker[v]
      /\ UNCHANGED <<owner, io_wait, io_blocked, pending_io>>
  BY Zenon DEF PopNew, TypeOK, At
<1>1. ASSUME NEW v \in Workers, conn' = conn, queue' = queue
      PROVE  WorkerHolds(v)' /\ QueueHolds(v)'
  <2>1. WorkerHolds(v) /\ QueueHolds(v)
    BY Zenon DEF Placed
  <2>2. \A d \in pending_io'[v] : owner'[d] = v
    BY <1>0, <2>1, Zenon DEF WorkerHolds
  <2>3. worker'[v] = worker[v] \/ {worker[v], worker'[v]} \cap {"run", "check"} = {}
    BY <1>0, Zenon
  <2>4. WorkerHolds(v)'
    BY <1>0, <1>1, <2>1, <2>2, <2>3, WorkerKept, Zenon
  <2> QED BY <1>0, <1>1, <2>1, <2>4, QueueKept, Zenon
<1>2. CASE queue[w] = <<>>
  <2>1. conn' = conn /\ queue' = queue
    BY <1>2, Zenon DEF PopNew
  <2>2. ASSUME NEW d \in Conns PROVE ConnPlaced(d)'
    <3>1. \A v \in Workers : worker'[v] = "ended" <=> worker[v] = "ended"
      BY <1>0, Zenon
    <3> QED BY <1>0, <2>1, <3>1, ConnKept, Zenon DEF Placed
  <2> QED BY <1>1, <2>1, <2>2, Zenon DEF Placed
<1>3. CASE queue[w] # <<>>
  <2> DEFINE h == Head(queue[w])
  <2>0. queue[w] \in Seq(Conns) /\ 1 \in 1 .. Len(queue[w]) /\ h = queue[w][1] /\ h \in Conns
    BY <1>3 DEF TypeOK
  <2>1. conn[h] = "queued" /\ owner[h] = w
    <3>1. QueueHolds(w)
      BY Zenon DEF Placed
    <3> QED BY <2>0, <3>1, Zenon DEF QueueHolds
  <2>2. Idle(h)
    BY <1>0, <2>0, <2>1, Zenon DEF Placed, ConnPlaced, NotLost, At
  <2>3. /\ \A d \in Conns \ {h} : conn'[d] = conn[d]
        /\ conn'[h] \in {"open", "closed"}
        /\ queue'[w] = Tail(queue[w]) /\ \A v \in Workers \ {w} : queue'[v] = queue[v]
    BY <1>3, <2>0, ZenonT(60) DEF PopNew, TypeOK
  <2> HIDE DEF h
  <2>4. ASSUME NEW d \in Conns PROVE ConnPlaced(d)'
    <3>1. CASE d = h
      BY <1>0, <2>0, <2>1, <2>2, <2>3, <3>1, Zenon DEF ConnPlaced, Idle, At
    <3>2. CASE d # h
      <4>1. \A v \in Workers : worker'[v] = "ended" <=> worker[v] = "ended"
        BY <1>0, Zenon
      <4> QED BY <1>0, <2>3, <3>2, <4>1, ConnKept, Zenon DEF Placed
    <3> QED BY <3>1, <3>2, Zenon
  <2>5. ASSUME NEW v \in Workers PROVE WorkerHolds(v)'
    <3>1. WorkerHolds(v)
      BY Zenon DEF Placed
    <3>2. h \notin taken[v] /\ cur[v] # h
      BY <2>0, <2>1, <3>1, ThreadsAssumption, Zenon DEF WorkerHolds
    <3>3. \A d \in pending_io'[v] : owner'[d] = v
      BY <1>0, <3>1, Zenon DEF WorkerHolds
    <3>4. worker'[v] = worker[v] \/ {worker[v], worker'[v]} \cap {"run", "check"} = {}
      BY <1>0, Zenon
    <3> QED BY <1>0, <2>3, <3>1, <3>2, <3>3, <3>4, WorkerKept, Zenon
  <2>6. ASSUME NEW v \in Workers PROVE QueueHolds(v)'
    <3>1. QueueHolds(v) /\ queue[v] \in Seq(Conns)
      BY Zenon DEF Placed, TypeOK
    <3>2. CASE v = w
      <4>1. /\ Len(queue'[w]) = Len(queue[w]) - 1
            /\ \A i \in 1 .. Len(queue'[w]) : queue'[w][i] = queue[w][i + 1]
        BY <1>3, <2>0, <2>3
      <4>2. ASSUME NEW i \in 1 .. Len(queue'[w])
            PROVE  conn'[queue'[w][i]] = "queued" /\ owner'[queue'[w][i]] = w
        <5>1. i + 1 \in 1 .. Len(queue[w]) /\ i + 1 # 1 /\ queue[w][i + 1] \in Conns
          BY <2>0, <4>1
        <5>2. queue[w][i + 1] # h
          BY <2>0, <3>1, <3>2, <5>1, Zenon DEF QueueHolds
        <5> QED BY <1>0, <2>3, <3>1, <3>2, <4>1, <5>1, <5>2 DEF QueueHolds
      <4>3. ASSUME NEW i \in 1 .. Len(queue'[w]), NEW j \in 1 .. Len(queue'[w]),
                   queue'[w][i] = queue'[w][j]
            PROVE  i = j
        <5>1. i + 1 \in 1 .. Len(queue[w]) /\ j + 1 \in 1 .. Len(queue[w])
          BY <2>0, <4>1
        <5> QED BY <3>1, <3>2, <4>1, <4>3, <5>1 DEF QueueHolds
      <4> QED BY <3>2, <4>2, <4>3, Zenon DEF QueueHolds
    <3>3. CASE v # w
      <4>1. \A d \in Conns : conn[d] = "queued" /\ owner[d] = v => conn'[d] = "queued" /\ owner'[d] = v
        BY <1>0, <2>1, <2>3, <3>3, Zenon
      <4> QED BY <2>3, <3>1, <3>3, <4>1, QueueKept, Zenon
    <3> QED BY <3>2, <3>3, Zenon
  <2> QED BY <2>4, <2>5, <2>6, Zenon DEF Placed
<1> QED
  BY <1>2, <1>3, Zenon
\* A worker that ends closes what it has; a commit may still be completed for
\* one of its connections, to nobody.
LEMMA EndPlaced ==
  ASSUME TypeOK, Placed, NEW w \in Workers, worker_libevent_end(w),
         UNCHANGED <<owner, io_wait, io_blocked, pending_io>>
  PROVE  Placed'
<1>0. /\ worker'[w] = "ended" /\ taken'[w] = {} /\ cur'[w] = None /\ queue'[w] = <<>>
      /\ \A v \in Workers \ {w} : /\ worker'[v] = worker[v] /\ cur'[v] = cur[v]
                                  /\ taken'[v] = taken[v] /\ queue'[v] = queue[v]
      /\ \A d \in Conns : conn'[d] = IF owner[d] = w THEN "closed" ELSE conn[d]
  BY Zenon DEF worker_libevent_end, Served, TypeOK
<1>1. ASSUME NEW d \in Conns PROVE ConnPlaced(d)'
  <2>1. CASE owner[d] = w
    BY <1>0, <2>1, Zenon DEF ConnPlaced, NotLost, At
  <2>2. CASE owner[d] # w
    <3>0. ConnPlaced(d) /\ \A v \in Workers : WorkerHolds(v)
      BY Zenon DEF Placed
    <3>1. d \notin taken[w] /\ cur[w] # d
      <4>1. WorkerHolds(w)
        BY <3>0, Zenon
      <4> QED BY <2>2, <4>1, ThreadsAssumption, Zenon DEF WorkerHolds
    <3>2. conn[d] = "off" => OnePlace(d)'
      BY <1>0, <2>2, <3>0, Zenon DEF ConnPlaced, OnePlace, At
    <3>3. conn[d] # "off" /\ NotLost(d)' => Idle(d)'
      BY <1>0, <2>2, <3>0, <3>1, Zenon DEF ConnPlaced, Idle, NotLost, At
    <3> QED BY <1>0, <2>2, <3>0, <3>2, <3>3, Zenon DEF ConnPlaced, At
  <2> QED BY <2>1, <2>2, Zenon
<1>2. ASSUME NEW v \in Workers PROVE WorkerHolds(v)'
  <2>1. WorkerHolds(v)
    BY Zenon DEF Placed
  <2>2. CASE v = w
    BY <1>0, <2>1, <2>2, Zenon DEF WorkerHolds, At
  <2>3. CASE v # w
    <3>1. \A d \in Conns : owner[d] = v => conn'[d] = conn[d]
      BY <1>0, <2>3, Zenon
    <3> QED BY <1>0, <2>1, <2>3, <3>1, WorkerSame, Zenon
  <2> QED BY <2>2, <2>3, Zenon
<1>3. ASSUME NEW v \in Workers PROVE QueueHolds(v)'
  <2>1. CASE v = w
    BY <1>0, <2>1 DEF QueueHolds
  <2>2. CASE v # w
    <3>1. \A d \in Conns : owner[d] = v => conn'[d] = conn[d]
      BY <1>0, <2>2, Zenon
    <3> QED BY <1>0, <2>2, <3>1, QueueKept, Zenon DEF Placed
  <2> QED BY <2>1, <2>2, Zenon
<1> QED
  BY <1>1, <1>2, <1>3, Zenon DEF Placed

\* A connection that is dispatched was in nobody's hands.
LEMMA DispatchPlaced ==
  ASSUME TypeOK, Placed, Stopping, NEW c \in Conns, memcached_shutdown = 0,
         conn[c] = "closed", dispatch_conn_new(c),
         UNCHANGED <<io_wait, io_blocked, pending_io, run>>
  PROVE  Placed'
<1> DEFINE w == NextThread
<1>0. w \in Workers
  BY NextThreadIsWorker, Zenon DEF TypeOK
<1>1. /\ conn'[c] = "queued" /\ \A d \in Conns \ {c} : conn'[d] = conn[d]
      /\ owner'[c] = w /\ \A d \in Conns \ {c} : owner'[d] = owner[d]
      /\ queue'[w] = Append(queue[w], c) /\ \A v \in Workers \ {w} : queue'[v] = queue[v]
      /\ UNCHANGED <<worker, taken, cur>>
  BY <1>0, Zenon DEF dispatch_conn_new, TypeOK, run
<1>2. \A v \in Workers : worker[v] # "ended"
  BY DEF Stopping, At
<1>3. Idle(c)
  BY <1>2, Zenon DEF Placed, ConnPlaced, NotLost, At
<1> HIDE DEF w
<1>4. ASSUME NEW d \in Conns PROVE ConnPlaced(d)'
  <2>1. CASE d = c
    BY <1>0, <1>1, <1>2, <1>3, <2>1, Zenon DEF ConnPlaced, Idle, At
  <2>2. CASE d # c
    BY <1>1, <2>2, ConnKept, Zenon DEF Placed
  <2> QED BY <2>1, <2>2, Zenon
<1>5. ASSUME NEW v \in Workers PROVE WorkerHolds(v)'
  <2>1. WorkerHolds(v) /\ c \notin pending_io[v] /\ c \notin taken[v]
    BY <1>3, Zenon DEF Placed, Idle
  <2>2. cur[v] # c
    BY <2>1, ThreadsAssumption, Zenon DEF WorkerHolds
  <2>3. \A d \in pending_io'[v] : owner'[d] = v
    BY <1>1, <2>1, ZenonT(60) DEF WorkerHolds, TypeOK
  <2> QED BY <1>1, <2>1, <2>2, <2>3, WorkerKept, Zenon
<1>6. ASSUME NEW v \in Workers PROVE QueueHolds(v)'
  <2>0. QueueHolds(v) /\ queue[v] \in Seq(Conns)
    BY Zenon DEF Placed, TypeOK
  <2>1. CASE v = w
    <3>1. /\ Len(queue'[v]) = Len(queue[v]) + 1 /\ queue'[v][Len(queue[v]) + 1] = c
          /\ \A i \in 1 .. Len(queue[v]) : queue'[v][i] = queue[v][i] /\ queue[v][i] \in Conns
      <4>1. queue'[v] = Append(queue[v], c)
        BY <1>1, <2>1, Zenon
      <4> QED BY <2>0, <4>1
    <3>2. \A i \in 1 .. Len(queue[v]) : queue[v][i] # c
      BY <2>0, Zenon DEF QueueHolds
    <3>3. ASSUME NEW i \in 1 .. Len(queue'[v])
          PROVE  conn'[queue'[v][i]] = "queued" /\ owner'[queue'[v][i]] = v
      <4>1. CASE i = Len(queue[v]) + 1
        BY <1>1, <2>1, <3>1, <4>1, Zenon
      <4>2. CASE i # Len(queue[v]) + 1
        <5>1. i \in 1 .. Len(queue[v])
          BY <2>0, <3>1, <4>2
        <5> QED BY <1>1, <2>0, <3>1, <3>2, <5>1 DEF QueueHolds
      <4> QED BY <4>1, <4>2, Zenon
    <3>4. ASSUME NEW i \in 1 .. Len(queue'[v]), NEW j \in 1 .. Len(queue'[v]),
                 queue'[v][i] = queue'[v][j]
          PROVE  i = j
      <4> DEFINE n == Len(queue[v])
      <4>1. n \in Nat /\ i \in 1 .. n + 1 /\ j \in 1 .. n + 1
        BY <2>0, <3>1
      <4>2. i = n + 1 <=> j = n + 1
        <5>1. queue'[v][n + 1] = c /\ \A k \in 1 .. n : queue'[v][k] # c
          BY <3>1, <3>2, Zenon
        <5>2. (i \in 1 .. n \/ i = n + 1) /\ (j \in 1 .. n \/ j = n + 1)
          BY <4>1
        <5> QED BY <3>4, <5>1, <5>2, Zenon
      <4>3. CASE i \in 1 .. n /\ j \in 1 .. n
        BY <2>0, <3>1, <3>4, <4>3, Zenon DEF QueueHolds
      <4> QED BY <4>1, <4>2, <4>3
    <3> QED BY <3>3, <3>4, Zenon DEF QueueHolds
  <2>2. CASE v # w
    <3>1. \A d \in Conns : conn[d] = "queued" /\ owner[d] = v => conn'[d] = "queued" /\ owner'[d] = v
      BY <1>1, Zenon
    <3> QED BY <1>1, <2>0, <2>2, <3>1, QueueKept, Zenon
  <2> QED BY <2>1, <2>2, Zenon
<1> QED
  BY <1>4, <1>5, <1>6, Zenon DEF Placed

\* A connection that waited is in the list of its worker.
LEMMA NotifyPlaced ==
  ASSUME TypeOK, Placed, NEW e \in Notifiers, NEW c \in Conns, notify_io_complete(e, c)
  PROVE  Placed'
<1>0. /\ io_wait[c] /\ ~io_wait'[c] /\ \A d \in Conns \ {c} : io_wait'[d] = io_wait[d]
      /\ UNCHANGED <<conn, owner, queue, worker, taken, cur>>
  BY Zenon DEF notify_io_complete, TypeOK, run
<1>q. \A v \in Workers : QueueHolds(v)'
  BY <1>0, Zenon DEF Placed, QueueHolds
<1>1. CASE ~io_blocked[c]
  <2>1. UNCHANGED <<io_blocked, pending_io>>
    BY <1>1, Zenon DEF notify_io_complete
  <2>2. \A v \in Workers : WorkerHolds(v)'
    BY <1>0, <2>1, WorkerSame, Zenon DEF Placed
  <2>3. ASSUME NEW d \in Conns PROVE ConnPlaced(d)'
    <3>1. ConnPlaced(d)
      BY Zenon DEF Placed
    <3>2. CASE d = c
      BY <1>0, <1>1, <2>1, <3>1, <3>2, Zenon DEF ConnPlaced, OnePlace, Idle, NotLost, At
    <3>3. CASE d # c
      BY <1>0, <2>1, <3>1, <3>3, ConnKept, Zenon
    <3> QED BY <3>2, <3>3, Zenon
  <2> QED BY <1>q, <2>2, <2>3, Zenon DEF Placed
<1>2. CASE io_blocked[c]
  <2>0. /\ io_blocked' = [io_blocked EXCEPT ![c] = FALSE]
        /\ pending_io' = [pending_io EXCEPT ![owner[c]] = @ \cup {c}]
    BY <1>2, Zenon DEF notify_io_complete
  <2>1. ConnPlaced(c)
    BY Zenon DEF Placed
  <2>2. owner[c] \in Workers
    BY <1>2, <2>1, Zenon DEF ConnPlaced, Idle, NotLost
  <2>3. /\ ~io_blocked'[c] /\ \A d \in Conns \ {c} : io_blocked'[d] = io_blocked[d]
        /\ pending_io'[owner[c]] = pending_io[owner[c]] \cup {c}
        /\ \A v \in Workers : v # owner[c] => pending_io'[v] = pending_io[v]
    BY <2>0, <2>2, Zenon DEF TypeOK
  <2>4. ASSUME NEW v \in Workers PROVE WorkerHolds(v)'
    <3>1. WorkerHolds(v)
      BY Zenon DEF Placed
    <3>2. \A d \in pending_io'[v] : owner'[d] = v
      BY <1>0, <2>3, <3>1 DEF WorkerHolds
    <3> QED BY <1>0, <3>1, <3>2, WorkerKept, Zenon
  <2>5. ASSUME NEW d \in Conns PROVE ConnPlaced(d)'
    <3>1. ConnPlaced(d)
      BY Zenon DEF Placed
    <3>2. CASE d = c
      <4>1. conn[c] = "off" => OnePlace(c)'
        BY <1>0, <2>1, <2>3, Zenon DEF ConnPlaced, OnePlace
      <4>2. conn[c] # "off" => ~NotLost(c)
        BY <1>2, <2>1, Zenon DEF ConnPlaced, Idle
      <4> QED BY <1>0, <2>1, <3>2, <4>1, <4>2, Zenon DEF ConnPlaced, NotLost, At
    <3>3. CASE d # c
      <4>1. \A v \in Workers : d \in pending_io'[v] <=> d \in pending_io[v]
        BY <2>3, <3>3, Zenon
      <4> QED BY <1>0, <2>3, <3>1, <3>3, <4>1, ConnKept, Zenon
    <3> QED BY <3>2, <3>3, Zenon
  <2> QED BY <1>q, <2>4, <2>5, Zenon DEF Placed
<1> QED
  BY <1>1, <1>2, Zenon
\* Nothing else moves a connection.
LEMMA PlacedStep ==
  ASSUME TypeOK, Placed, Stopping, [Next]_vars PROVE Placed'
<1> USE DEF Placed
<1>1. ASSUME UNCHANGED <<conn, owner, io_wait, io_blocked, queue, pending_io, worker, taken, cur>>
      PROVE  Placed'
  BY <1>1, ConnKept, WorkerSame, QueueKept, Zenon
<1>2. CASE MainStep
  BY <1>1, <1>2, Zenon DEF MainStep, DispatchWrite, BreakMainLoop, WaitForClients, SubtractDelay, StopThreads,
    StopThread, JoinThread, DestroyEngine, unchangedByMain, run
<1>3. ASSUME NEW c \in Conns, conn_listening(c) PROVE Placed'
  <2>1. CASE dispatch_conn_new(c)
    BY <1>3, <2>1, DispatchPlaced, Zenon DEF conn_listening
  <2>2. CASE RejectConn \/ DropConn(c)
    BY <1>1, <1>3, <2>2, Zenon DEF conn_listening, RejectConn, DropConn, run
  <2> QED BY <1>3, <2>1, <2>2, Zenon DEF conn_listening
<1>4. CASE shutdown_server
  BY <1>1, <1>4, Zenon DEF shutdown_server, pool, run
<1>5. ASSUME NEW w \in Workers, ThreadEvent(w) PROVE Placed'
  <2>1. CASE worker_libevent_end(w)
    BY <1>5, <2>1, EndPlaced, Zenon DEF ThreadEvent
  <2>2. CASE worker' = [worker EXCEPT ![w] = "pop"] /\ UNCHANGED <<conn, queue, taken, cur>>
    <3>1. /\ worker[w] = "loop" /\ worker'[w] = "pop"
          /\ \A v \in Workers \ {w} : worker'[v] = worker[v]
          /\ UNCHANGED <<conn, queue, taken, cur, owner, io_wait, io_blocked, pending_io>>
      BY <1>5, <2>2, Zenon DEF ThreadEvent, At, TypeOK
    <3>2. \A v \in Workers : worker'[v] = "ended" <=> worker[v] = "ended"
      BY <3>1, Zenon
    <3>3. \A c \in Conns : ConnPlaced(c)'
      BY <3>1, <3>2, ConnKept, Zenon
    <3>4. ASSUME NEW v \in Workers PROVE WorkerHolds(v)' /\ QueueHolds(v)'
      <4>0. WorkerHolds(v) /\ QueueHolds(v)
        OBVIOUS
      <4>1. \A d \in pending_io'[v] : owner'[d] = v
        BY <3>1, <4>0, Zenon DEF WorkerHolds
      <4>2. worker'[v] = worker[v] \/ {worker[v], worker'[v]} \cap {"run", "check"} = {}
        BY <3>1, Zenon
      <4> QED BY <3>1, <4>0, <4>1, <4>2, WorkerKept, QueueKept, Zenon
    <3> QED BY <3>3, <3>4, Zenon
  <2> QED BY <1>5, <2>1, <2>2, Zenon DEF ThreadEvent
<1>6. ASSUME NEW w \in Workers, NEW c \in Conns, NEW rest \in SUBSET Conns,
             Runs(w, c, rest), RunConn(w, c, rest)
      PROVE  Placed'
  <2>1. CASE ServeConn(w, c, rest)
    BY <1>6, <2>1, ServePlaced, Zenon DEF RunConn, ServeConn
  <2>2. CASE WaitConn(w, c, rest)
    BY <1>6, <2>2, WaitPlaced, Zenon DEF RunConn
  <2>3. CASE CloseConn(w, c, rest)
    <3>1. \A v \in Workers : c \notin pending_io[v]
      BY <1>6, RunsAlone, Zenon
    <3>2. \A v \in Workers : pending_io'[v] = pending_io[v]
      BY <2>3, <3>1, Zenon DEF CloseConn, remove_io_pending, TypeOK
    <3> QED BY <1>6, <2>3, <3>2, ServePlaced, Zenon DEF RunConn, CloseConn
  <2>4. CASE process_shutdown_command(w, c, rest)
    BY <1>6, <2>4, ServePlaced, Zenon DEF RunConn, process_shutdown_command
  <2> QED BY <1>6, <2>1, <2>2, <2>3, <2>4, Zenon DEF RunConn
<1>7. ASSUME NEW w \in Workers, WorkerStep(w) PROVE Placed'
  <2>1. ASSUME NEW c \in Conns, RunPending(w, c) PROVE Placed'
    <3> DEFINE rest == taken[w] \ {c}
    <3>1. rest \in SUBSET Conns /\ Runs(w, c, rest) /\ RunConn(w, c, rest)
      BY <2>1, PendingRuns, Zenon
    <3> HIDE DEF rest
    <3> QED BY <1>6, <3>1, Zenon
  <2> QED BY <1>7, <2>1, PopPlaced, TakePlaced, BlockedPlaced, Zenon DEF WorkerStep
<1>8. ASSUME NEW w \in Workers, NEW c \in Conns, event_handler(w, c) PROVE Placed'
  <2>1. CASE RunConn(w, c, {})
    BY <1>6, <1>8, <2>1, EventRuns, Zenon
  <2>2. CASE worker_libevent_end(w) /\ UNCHANGED <<owner, io_wait, io_blocked, pending_io>>
    BY <2>2, EndPlaced, Zenon
  <2> QED BY <1>8, <2>1, <2>2, Zenon DEF event_handler
<1>9. ASSUME NEW e \in Notifiers, NotifyWrite(e) PROVE Placed'
  BY <1>1, <1>9, Zenon DEF NotifyWrite, run
<1>10. ASSUME NEW e \in Notifiers, NEW c \in Conns, notify_io_complete(e, c) PROVE Placed'
  BY <1>10, NotifyPlaced, Zenon
<1>11. CASE UNCHANGED vars
  BY <1>1, <1>11, Zenon DEF vars, pool, run
<1> QED
  BY <1>2, <1>3, <1>4, <1>5, <1>7, <1>8, <1>9, <1>10, <1>11, Zenon DEF Next

-----------------------------------------------------------------------------
\* The connections that are served are finitely many.
LEMMA ServedFinite == IsFiniteSet(Served) /\ Cardinality(Served) \in Nat
<1>1. Served \subseteq Conns
  BY Zenon DEF Served
<1> QED
  BY <1>1, ThreadsAssumption, FS_Subset, FS_CardinalityType, Zenon

\* One more, one less, or the same, by what becomes of one connection.
LEMMA ServedStep ==
  ASSUME TypeOK, NEW c \in Conns, NEW s \in {"closed", "queued", "open", "off"},
         conn' = [conn EXCEPT ![c] = s]
  PROVE  Cardinality(Served') = Cardinality(Served) - (IF conn[c] = "closed" THEN 0 ELSE 1)
                                                    + (IF s = "closed" THEN 0 ELSE 1)
<1>1. Served' = (IF s = "closed" THEN Served \ {c} ELSE Served \cup {c})
  BY Zenon DEF Served, TypeOK
<1>2. c \in Served <=> conn[c] # "closed"
  BY Zenon DEF Served, TypeOK
<1>3. Cardinality(Served \ {c}) = (IF c \in Served THEN Cardinality(Served) - 1 ELSE Cardinality(Served))
  BY ServedFinite, FS_RemoveElement, Zenon
<1>4. Cardinality(Served \cup {c}) = (IF c \in Served THEN Cardinality(Served) ELSE Cardinality(Served) + 1)
  BY ServedFinite, FS_AddElement, Zenon
<1> QED
  BY <1>1, <1>2, <1>3, <1>4, ServedFinite
\* The connections are counted.
LEMMA CountedStep ==
  ASSUME TypeOK, TypeOK', Placed, Stopping, Counted, [Next]_vars PROVE Counted'
<1> USE DEF Counted
<1>m. MaxConns \in Nat /\ AdminConns \in Nat /\ curr_conns \in Int /\ curr_conns' \in Int
  BY ThreadsAssumption, Zenon DEF TypeOK
<1>k. ASSUME UNCHANGED <<conn, curr_conns, uncounted>>,
             \A v \in Workers : worker[v] = "ended" => worker'[v] = "ended"
      PROVE  Counted'
  <2>1. Served' = Served
    BY <1>k, Zenon DEF Served
  <2> QED BY <1>k, <2>1, Zenon DEF At
<1>s. ASSUME NEW c \in Conns, NEW s \in {"closed", "queued", "open", "off"},
             conn' = [conn EXCEPT ![c] = s], conn[c] # "closed",
             \A v \in Workers : worker[v] = "ended" => worker'[v] = "ended",
             \/ s # "closed" /\ UNCHANGED <<curr_conns, uncounted>>
             \/ s = "closed" /\ curr_conns' = curr_conns - 1 /\ uncounted' = uncounted
             \/ s = "closed" /\ curr_conns' = curr_conns /\ uncounted' = uncounted + 1
      PROVE  Counted'
  <2>1. Cardinality(Served') = Cardinality(Served) - 1 + (IF s = "closed" THEN 0 ELSE 1)
    BY <1>s, ServedStep, Zenon
  <2>2. (\A w \in Workers : ~At(w, "ended"))' => (\A w \in Workers : ~At(w, "ended"))
    BY <1>s, Zenon DEF At
  <2> QED BY <1>s, <1>m, <2>1, <2>2, ServedFinite
<1>2. CASE MainStep
  BY <1>k, <1>2, Zenon DEF MainStep, DispatchWrite, BreakMainLoop, WaitForClients, SubtractDelay, StopThreads,
    StopThread, JoinThread, DestroyEngine, unchangedByMain, run
<1>3. ASSUME NEW c \in Conns, conn_listening(c) PROVE Counted'
  <2>0. worker' = worker /\ conn[c] = "closed"
    BY <1>3, Zenon DEF conn_listening, run
  <2>1. CASE dispatch_conn_new(c)
    <3>1. /\ conn' = [conn EXCEPT ![c] = "queued"] /\ curr_conns' = curr_conns + 1
          /\ uncounted' = uncounted /\ Admitted(c)
      BY <2>1, Zenon DEF dispatch_conn_new
    <3>2. Cardinality(Served') = Cardinality(Served) + 1
      <4>1. Cardinality(Served') = Cardinality(Served) - (IF conn[c] = "closed" THEN 0 ELSE 1)
                                                       + (IF "queued" = "closed" THEN 0 ELSE 1)
        BY <3>1, ServedStep, Zenon
      <4> QED BY <2>0, <4>1, ServedFinite
    <3>3. curr_conns' <= MaxConns + AdminConns
      BY <1>m, <3>1 DEF Admitted
    <3> QED BY <1>m, <2>0, <3>1, <3>2, <3>3, ServedFinite DEF At
  <2>2. CASE RejectConn
    BY <1>k, <2>0, <2>2, Zenon DEF RejectConn
  <2>3. CASE DropConn(c)
    <3>1. Served' = Served
      BY <2>3, Zenon DEF DropConn, Served
    <3>2. curr_conns' = curr_conns + 1 /\ uncounted' = uncounted + 1 /\ Admitted(c)
      BY <2>3, Zenon DEF DropConn
    <3>3. curr_conns' <= MaxConns + AdminConns
      BY <1>m, <3>2 DEF Admitted
    <3> QED BY <1>m, <2>0, <3>1, <3>2, <3>3, ServedFinite DEF At
  <2> QED BY <1>3, <2>1, <2>2, <2>3, Zenon DEF conn_listening
<1>4. CASE shutdown_server
  BY <1>k, <1>4, Zenon DEF shutdown_server, pool, run
<1>e. ASSUME NEW w \in Workers, worker_libevent_end(w), UNCHANGED <<curr_conns, uncounted>>
      PROVE  Counted'
  <2>1. At(w, "ended")'
    BY <1>e, Zenon DEF worker_libevent_end, TypeOK, At
  <2> QED BY <1>e, <2>1, Zenon
<1>5. ASSUME NEW w \in Workers, ThreadEvent(w) PROVE Counted'
  <2>1. CASE worker_libevent_end(w)
    BY <1>5, <1>e, <2>1, Zenon DEF ThreadEvent
  <2>2. CASE worker' = [worker EXCEPT ![w] = "pop"] /\ UNCHANGED conn
    <3>1. \A v \in Workers : worker[v] = "ended" => worker'[v] = "ended"
      BY <1>5, <2>2, Zenon DEF ThreadEvent, At, TypeOK
    <3> QED BY <1>5, <1>k, <2>2, <3>1, Zenon DEF ThreadEvent
  <2> QED BY <1>5, <2>1, <2>2, Zenon DEF ThreadEvent
<1>6. ASSUME NEW w \in Workers, NEW c \in Conns, NEW rest \in SUBSET Conns,
             Runs(w, c, rest), RunConn(w, c, rest)
      PROVE  Counted'
  <2>0. conn[c] # "closed" /\ worker[w] # "ended" /\ uncounted' = uncounted
    BY <1>6, Zenon DEF Runs, RunConn
  <2>1. \A v \in Workers : worker[v] = "ended" => worker'[v] = "ended"
    BY <1>6, <2>0, RunGoesOn, Zenon
  <2>2. CASE CloseConn(w, c, rest)
    <3>1. conn' = [conn EXCEPT ![c] = "closed"] /\ curr_conns' = curr_conns - 1
      BY <1>m, <2>2, Zenon DEF CloseConn
    <3> QED BY <1>s, <2>0, <2>1, <3>1, Zenon
  <2>3. CASE ~CloseConn(w, c, rest)
    <3>1. conn' = [conn EXCEPT ![c] = "open"] /\ curr_conns' = curr_conns
      BY <1>6, <1>m, <2>3, Zenon DEF RunConn, ServeConn, WaitConn, process_shutdown_command
    <3> QED BY <1>s, <2>0, <2>1, <3>1, Zenon
  <2> QED BY <2>2, <2>3, Zenon
<1>7. ASSUME NEW w \in Workers, WorkerStep(w) PROVE Counted'
  <2>1. CASE PopNew(w)
    <3>1. /\ \A v \in Workers : worker[v] = "ended" => worker'[v] = "ended"
          /\ curr_conns' = curr_conns
      <4>1. worker[w] = "pop" /\ worker' = [worker EXCEPT ![w] = "take"] /\ curr_conns' = curr_conns
        BY <2>1, Zenon DEF PopNew, At
      <4> QED BY <4>1, Zenon DEF TypeOK
    <3>2. CASE queue[w] = <<>>
      BY <1>k, <2>1, <3>1, <3>2, Zenon DEF PopNew
    <3>3. CASE queue[w] # <<>>
      <4>1. PICK h \in Conns : h = Head(queue[w]) /\ conn[h] = "queued"
        <5>1. queue[w] \in Seq(Conns)
          BY Zenon DEF TypeOK
        <5>2. 1 \in 1 .. Len(queue[w]) /\ Head(queue[w]) = queue[w][1] /\ queue[w][1] \in Conns
          BY <3>3, <5>1
        <5>3. QueueHolds(w)
          BY Zenon DEF Placed
        <5>4. conn[queue[w][1]] = "queued"
          BY <5>2, <5>3, Zenon DEF QueueHolds
        <5> QED BY <5>2, <5>4, Zenon
      <4>2. CASE conn' = [conn EXCEPT ![h] = "open"] /\ uncounted' = uncounted
        BY <1>s, <3>1, <4>1, <4>2, Zenon
      <4>3. CASE conn' = [conn EXCEPT ![h] = "closed"] /\ uncounted' = uncounted + 1
        BY <1>s, <3>1, <4>1, <4>3, Zenon
      <4> QED BY <2>1, <3>3, <4>1, <4>2, <4>3, Zenon DEF PopNew
    <3> QED BY <3>2, <3>3, Zenon
  <2>2. CASE TakePending(w)
    <3>1. \A v \in Workers : worker[v] = "ended" => worker'[v] = "ended"
      BY <2>2, Zenon DEF TakePending, Resume, At, TypeOK
    <3> QED BY <1>k, <2>2, <3>1, Zenon DEF TakePending
  <2>3. CASE should_io_blocked(w)
    <3>1. \A v \in Workers : worker[v] = "ended" => worker'[v] = "ended"
      BY <2>3, Zenon DEF should_io_blocked, Resume, At, TypeOK
    <3>2. CASE ~io_wait[cur[w]]
      BY <1>k, <2>3, <3>1, <3>2, Zenon DEF should_io_blocked
    <3>3. CASE io_wait[cur[w]]
      <4>1. PICK c \in Conns : c = cur[w] /\ conn[c] = "open"
        <5>1. At(w, "check") /\ WorkerHolds(w)
          BY <2>3, Zenon DEF should_io_blocked, Placed
        <5>2. cur[w] \in Conns \cup {None} /\ cur[w] # None /\ conn[cur[w]] = "open"
          BY <5>1, Zenon DEF WorkerHolds, TypeOK
        <5> QED BY <5>2, Zenon
      <4>2. conn' = [conn EXCEPT ![c] = "off"] /\ curr_conns' = curr_conns /\ uncounted' = uncounted
        BY <1>m, <2>3, <3>3, <4>1, Zenon DEF should_io_blocked
      <4> QED BY <1>s, <3>1, <4>1, <4>2, Zenon
    <3> QED BY <3>2, <3>3, Zenon
  <2>4. ASSUME NEW c \in Conns, RunPending(w, c) PROVE Counted'
    <3> DEFINE rest == taken[w] \ {c}
    <3>1. rest \in SUBSET Conns /\ Runs(w, c, rest) /\ RunConn(w, c, rest)
      BY <2>4, PendingRuns, Zenon
    <3> HIDE DEF rest
    <3> QED BY <1>6, <3>1, Zenon
  <2> QED BY <1>7, <2>1, <2>2, <2>3, <2>4, Zenon DEF WorkerStep
<1>8. ASSUME NEW w \in Workers, NEW c \in Conns, event_handler(w, c) PROVE Counted'
  <2>1. CASE RunConn(w, c, {})
    BY <1>6, <1>8, <2>1, EventRuns, Zenon
  <2>2. CASE worker_libevent_end(w) /\ UNCHANGED <<curr_conns, uncounted>>
    BY <1>e, <2>2, Zenon
  <2> QED BY <1>8, <2>1, <2>2, Zenon DEF event_handler
<1>9. ASSUME NEW e \in Notifiers, NotifyWrite(e) \/ \E c \in Conns : notify_io_complete(e, c)
      PROVE  Counted'
  BY <1>9, <1>k, Zenon DEF NotifyWrite, notify_io_complete, run
<1>10. CASE UNCHANGED vars
  BY <1>k, <1>10, Zenon DEF vars, pool, run
<1> QED
  BY <1>2, <1>3, <1>4, <1>5, <1>7, <1>8, <1>9, <1>10, Zenon DEF Next

-----------------------------------------------------------------------------
\* A connection in one place is in exactly one.
LEMMA OnePlaceIsOne ==
  ASSUME NEW c \in Conns, OnePlace(c)
  PROVE  Suspended(c)
<1> DEFINE places == {p \in {"wait", "list", "taken"} :
                        \/ p = "wait"  /\ io_wait[c] /\ io_blocked[c]
                        \/ p = "list"  /\ c \in pending_io[owner[c]]
                        \/ p = "taken" /\ c \in taken[owner[c]]}
<1>1. places = {"wait"} \/ places = {"list"} \/ places = {"taken"}
  BY Zenon DEF OnePlace
<1>2. Cardinality(places) = 1
  BY <1>1, FS_Singleton, Zenon
<1> QED
  BY <1>2, Zenon DEF Suspended

\* The inductive invariant implies the property.
LEMMA AccountedGives ==
  ASSUME Accounted PROVE ConnsAccounted
<1>1. \A c \in Conns : conn[c] = "off" => Suspended(c)
  BY OnePlaceIsOne, Zenon DEF Accounted, Placed, ConnPlaced
<1>2. main = "done" => Served = {}
  BY Zenon DEF Accounted, Placed, ConnPlaced, Stopping, Served
<1> QED
  BY <1>1, <1>2, Zenon DEF Accounted, Counted, ConnsAccounted

\* Nothing is there at the start.
LEMMA InitAccounted == Init => Accounted
<1> SUFFICES ASSUME Init PROVE Accounted
  OBVIOUS
<1>1. TypeOK
  BY InitWoken, Zenon DEF Woken
<1>2. Served = {}
  BY Zenon DEF Init, Served
<1>3. Counted
  BY <1>2, FS_EmptySet, ThreadsAssumption DEF Init, Counted
<1>4. Stopping
  BY DEF Init, Stopping, At
<1>5. Placed
  <2>1. ASSUME NEW c \in Conns PROVE ConnPlaced(c)
    BY Zenon DEF Init, ConnPlaced, Idle
  <2>2. ASSUME NEW w \in Workers PROVE WorkerHolds(w) /\ QueueHolds(w)
    BY DEF Init, WorkerHolds, QueueHolds, At
  <2> QED BY <2>1, <2>2, Zenon DEF Placed
<1> QED
  BY <1>1, <1>3, <1>4, <1>5, Zenon DEF Accounted

\* curr_conns, by which conn_listening() limits the number of connections, is
\* the number of open sockets and of those closed without being counted off; it
\* never exceeds the limit; a suspended connection is held by exactly one of
\* those who can bring it back; and all are closed when the server has ended.
THEOREM ConnectionsAccounted == Spec => []ConnsAccounted
<1>1. Woken /\ Accounted /\ [Next]_vars => Accounted'
  BY NextWoken, StoppingStep, PlacedStep, CountedStep, Zenon DEF Accounted, Woken
<1> QED
  BY InitWoken, InitAccounted, NextWoken, <1>1, AccountedGives, PTL DEF Spec

=============================================================================
