------------------------------ MODULE Threads ------------------------------
(***************************************************************************)
(* The worker threads and how connections get to them (thread.c, and       *)
(* conn_listening(), event_handler() and the end of main() in              *)
(* memcached.c).                                                           *)
(*                                                                         *)
(* The main thread accepts a connection, puts it into the queue of a       *)
(* worker and writes a byte to the worker's pipe.  An engine thread that   *)
(* completes the commit a connection waits for puts the connection into    *)
(* the worker's pending_io list and writes a byte only when the list was   *)
(* empty.  For each byte the worker takes one connection from the queue    *)
(* and the whole list.  What a request does is in ConnServer; here a       *)
(* worker runs a connection in one step, up to the point where the         *)
(* connection may have to wait.                                            *)
(*                                                                         *)
(* A write to a pipe does not fail: the pipe has room for more bytes than  *)
(* there are connections.                                                  *)
(***************************************************************************)
EXTENDS Integers, Sequences, FiniteSets

CONSTANTS
  NumThreads,    \* settings.num_threads
  Conns,         \* the clients' connections
  Admins,        \* those that come from ADMIN_CLIENT_IP
  Notifiers,     \* the engine threads that call notify_io_complete()
  MaxConns,      \* settings.maxconns
  AdminConns,    \* ADMIN_MAX_CONNECTIONS
  Second,        \* sleeps of 200 ms in a second
  Delays,        \* the delays of shutdown commands, in sleeps
  MaxCommands,   \* bound: shutdown commands
  MaxAccepts,    \* bound: connections accepted
  None

Workers == 0 .. NumThreads - 1

ASSUME ThreadsAssumption ==
  /\ NumThreads \in Nat \ {0}
  /\ None \notin Conns \cup Workers
  /\ IsFiniteSet(Conns)
  /\ Delays \subseteq Nat
  /\ MaxConns \in Nat /\ AdminConns \in Nat

VARIABLES
  conn,          \* a connection: closed, queued, open, off (its event deleted)
  owner,         \* c->thread, or the worker in whose queue it is
  io_wait,       \* c->current_io_wait is not 0
  io_blocked,    \* c->io_blocked
  queue,         \* thread->new_conn_queue
  pending_io,    \* thread->pending_io
  bytes,         \* the number of bytes in the thread's pipe
  worker,        \* what a worker is doing
  taken,         \* the connections it took from pending_io and has not yet run
  cur,           \* the connection it is about to suspend
  notifier,      \* the worker whose pipe a notifier is about to write to
  main,          \* what the main thread is doing
  prev_conns, ii, \* its local variables
  was,           \* shutdown_delay as it read it
  last_thread,   \* the worker that got the last connection
  memcached_shutdown, shutdown_delay, dynamic_shutdown,
  curr_conns,    \* mc_stats.curr_conns
  uncounted,     \* history: sockets closed without counting them off
  commands,      \* number of shutdown commands so far
  accepts        \* number of connections accepted so far

run  == <<worker, taken, cur>>
pool == <<queue, pending_io, bytes, run, notifier>>
term == <<prev_conns, ii, was>>
stop == <<memcached_shutdown, shutdown_delay, dynamic_shutdown, commands>>
vars == <<conn, owner, io_wait, io_blocked, pool, main, term, last_thread, stop,
          curr_conns, uncounted, accepts>>

-----------------------------------------------------------------------------
(***************************************************************************)
(* The main thread: accepting and dispatching.                             *)
(***************************************************************************)

Served == {c \in Conns : conn[c] \in {"queued", "open", "off"}}

NextThread == IF last_thread = NumThreads - 1 THEN 0 ELSE last_thread + 1

\* settings.maxconns, and a few more for the administrator.
Admitted(c) ==
    \/ curr_conns < MaxConns
    \/ c \in Admins /\ curr_conns < MaxConns + AdminConns

\* The socket is closed at once, and counted off: too many connections, or
\* fcntl() fails.  Counting on and off are both the main thread's: one step.
RejectConn ==
    UNCHANGED <<conn, owner, queue, main, last_thread, curr_conns, uncounted, accepts>>

\* dispatch_conn_new() without memory for a queue item.
DropConn(c) ==
    /\ Admitted(c)
    /\ curr_conns' = curr_conns + 1 /\ uncounted' = uncounted + 1
    /\ accepts' = accepts + 1
    /\ UNCHANGED <<conn, owner, queue, main, last_thread>>

\* dispatch_conn_new(), up to cq_push().
dispatch_conn_new(c) ==
    /\ Admitted(c)
    /\ conn' = [conn EXCEPT ![c] = "queued"]
    /\ owner' = [owner EXCEPT ![c] = NextThread]
    /\ queue' = [queue EXCEPT ![NextThread] = Append(@, c)]
    /\ last_thread' = NextThread
    /\ main' = "write"
    /\ curr_conns' = curr_conns + 1 /\ accepts' = accepts + 1
    /\ UNCHANGED uncounted

\* event_handler() breaks the main loop instead when the server shuts down.
conn_listening(c) ==
    /\ main = "loop" /\ memcached_shutdown = 0
    /\ conn[c] = "closed" /\ accepts < MaxAccepts
    /\ RejectConn \/ DropConn(c) \/ dispatch_conn_new(c)
    /\ UNCHANGED <<io_wait, io_blocked, pending_io, bytes, run, notifier, term, stop>>

\* The byte that follows cq_push().
DispatchWrite ==
    /\ main = "write"
    /\ main' = "loop"
    /\ bytes' = [bytes EXCEPT ![last_thread] = @ + 1]
    /\ UNCHANGED <<conn, owner, io_wait, io_blocked, queue, pending_io, run,
                   notifier, term, last_thread, stop, curr_conns, uncounted, accepts>>

-----------------------------------------------------------------------------
(***************************************************************************)
(* A worker.  pc: "loop" in event_base_loop(); "pop" after a byte was      *)
(* read; "take" before it takes the list; "run" while it runs the          *)
(* connections it took; "check" when it is about to suspend one; "ended".  *)
(***************************************************************************)

At(w, pc) == worker[w] = pc

\* Back to the list that was taken, or to the event loop.
Resume(w, rest) ==
    /\ worker' = [worker EXCEPT ![w] = IF rest = {} THEN "loop" ELSE "run"]
    /\ taken' = [taken EXCEPT ![w] = rest]
    /\ cur' = [cur EXCEPT ![w] = None]

worker_libevent_end_Mutant(w) ==
    /\ worker' = [worker EXCEPT ![w] = "ended"]
    /\ taken' = [taken EXCEPT ![w] = {}]
    /\ cur' = [cur EXCEPT ![w] = None]
    /\ conn' = [c \in Conns |-> IF owner[c] = w /\ conn[c] = "open" THEN "closed" ELSE conn[c]]
    /\ queue' = [queue EXCEPT ![w] = <<>>]

\* The end of worker_libevent(): the sockets of the connections and of the
\* queue are closed.
worker_libevent_end(w) ==
    /\ worker' = [worker EXCEPT ![w] = "ended"]
    /\ taken' = [taken EXCEPT ![w] = {}]
    /\ cur' = [cur EXCEPT ![w] = None]
    /\ conn' = [c \in Conns |-> IF owner[c] = w /\ c \in Served THEN "closed" ELSE conn[c]]
    /\ queue' = [queue EXCEPT ![w] = <<>>]

\* thread_libevent_process(), from the start to read().
ThreadEvent(w) ==
    /\ At(w, "loop") /\ bytes[w] > 0
    /\ \/ /\ memcached_shutdown > 1
          /\ worker_libevent_end(w)
          /\ UNCHANGED bytes
       \/ /\ memcached_shutdown <= 1
          /\ bytes' = [bytes EXCEPT ![w] = @ - 1]
          /\ worker' = [worker EXCEPT ![w] = "pop"]
          /\ UNCHANGED <<conn, queue, taken, cur>>
    /\ UNCHANGED <<owner, io_wait, io_blocked, pending_io, notifier, main,
                   term, last_thread, stop, curr_conns, uncounted, accepts>>

\* thread_libevent_process(): cq_pop() and conn_new(), which may fail; then
\* the socket is closed, but not counted off.
PopNew(w) ==
    /\ At(w, "pop")
    /\ worker' = [worker EXCEPT ![w] = "take"] /\ UNCHANGED <<taken, cur>>
    /\ \/ queue[w] = <<>> /\ UNCHANGED <<conn, queue, uncounted>>
       \/ /\ queue[w] # <<>>
          /\ queue' = [queue EXCEPT ![w] = Tail(@)]
          /\ \/ /\ conn' = [conn EXCEPT ![Head(queue[w])] = "open"]
                /\ UNCHANGED uncounted
             \/ /\ conn' = [conn EXCEPT ![Head(queue[w])] = "closed"]
                /\ uncounted' = uncounted + 1
    /\ UNCHANGED <<owner, io_wait, io_blocked, pending_io, bytes, notifier, main,
                   term, last_thread, stop, curr_conns, accepts>>

\* thread_libevent_process(): the list is taken under LOCK_THREAD.
TakePending(w) ==
    /\ At(w, "take")
    /\ Resume(w, pending_io[w])
    /\ pending_io' = [pending_io EXCEPT ![w] = {}]
    /\ UNCHANGED <<conn, owner, io_wait, io_blocked, queue, bytes, notifier, main,
                   term, last_thread, stop, curr_conns, uncounted, accepts>>

remove_io_pending(w, c) == [pending_io EXCEPT ![w] = @ \ {c}]

\* A request is served, or none is there.
ServeConn(w, c, rest) ==
    /\ Resume(w, rest)
    /\ conn' = [conn EXCEPT ![c] = "open"]
    /\ UNCHANGED <<io_wait, pending_io, stop, curr_conns>>

\* A request has to wait for its commit (waitfor_io_complete()).
WaitConn(w, c, rest) ==
    /\ worker' = [worker EXCEPT ![w] = "check"]
    /\ taken' = [taken EXCEPT ![w] = rest]
    /\ cur' = [cur EXCEPT ![w] = c]
    /\ conn' = [conn EXCEPT ![c] = "open"]
    /\ io_wait' = [io_wait EXCEPT ![c] = TRUE]
    /\ UNCHANGED <<pending_io, stop, curr_conns>>

\* conn_close(), by safe_close() and remove_io_pending().
CloseConn(w, c, rest) ==
    /\ Resume(w, rest)
    /\ conn' = [conn EXCEPT ![c] = "closed"]
    /\ pending_io' = remove_io_pending(w, c)
    /\ curr_conns' = curr_conns - 1
    /\ UNCHANGED <<io_wait, stop>>

\* process_shutdown_command(): a second command may change the delay, but not
\* during the last second.
process_shutdown_command(w, c, rest) ==
    /\ commands < MaxCommands /\ commands' = commands + 1
    /\ Resume(w, rest)
    /\ conn' = [conn EXCEPT ![c] = "open"]
    /\ \/ /\ memcached_shutdown > 0 /\ shutdown_delay < Second
          /\ UNCHANGED <<memcached_shutdown, shutdown_delay, dynamic_shutdown>>
       \/ /\ memcached_shutdown = 0 \/ shutdown_delay >= Second
          /\ shutdown_delay' \in Delays
          /\ dynamic_shutdown' \in BOOLEAN
          /\ memcached_shutdown' = IF memcached_shutdown = 0 THEN 1 ELSE memcached_shutdown
    /\ UNCHANGED <<io_wait, pending_io, curr_conns>>

\* The state functions run until the connection has nothing more to do.
RunConn(w, c, rest) ==
    /\ \/ ServeConn(w, c, rest)
       \/ WaitConn(w, c, rest)
       \/ CloseConn(w, c, rest)
       \/ process_shutdown_command(w, c, rest)
    /\ UNCHANGED <<owner, io_blocked, queue, bytes, notifier, main, term,
                   last_thread, uncounted, accepts>>

\* thread_libevent_process(): the event of a connection of the list is added
\* again, and the connection is run.
RunPending(w, c) ==
    /\ At(w, "run") /\ c \in taken[w]
    /\ RunConn(w, c, taken[w] \ {c})

\* event_handler() of a connection, for the client's data or its hanging up.
event_handler(w, c) ==
    /\ At(w, "loop")
    /\ conn[c] = "open" /\ owner[c] = w
    /\ \/ memcached_shutdown <= 1 /\ RunConn(w, c, {})
       \/ /\ memcached_shutdown > 1
          /\ worker_libevent_end(w)
          /\ UNCHANGED <<owner, io_wait, io_blocked, pending_io, bytes, notifier,
                         main, term, last_thread, stop, curr_conns, uncounted, accepts>>

\* The commit may have been completed between waitfor_io_complete() and here.
should_io_blocked(w) ==
    /\ At(w, "check")
    /\ LET c == cur[w] IN
       IF io_wait[c]
       THEN /\ conn' = [conn EXCEPT ![c] = "off"]
            /\ io_blocked' = [io_blocked EXCEPT ![c] = TRUE]
       ELSE UNCHANGED <<conn, io_blocked>>
    /\ Resume(w, taken[w])
    /\ UNCHANGED <<owner, io_wait, queue, pending_io, bytes, notifier, main,
                   term, last_thread, stop, curr_conns, uncounted, accepts>>

-----------------------------------------------------------------------------
(***************************************************************************)
(* The engine's threads.                                                   *)
(***************************************************************************)

ThreadToKick_Mutant(w) == IF pending_io[w] # {} THEN w ELSE None

\* "kick the thread in the butt": only when its list was empty.
ThreadToKick(w) == IF pending_io[w] = {} THEN w ELSE None

\* notify_io_complete() under LOCK_THREAD.  A connection that its worker
\* closed when it ended is still notified, to nobody.
notify_io_complete(e, c) ==
    /\ notifier[e] = None /\ io_wait[c] /\ main # "done"
    /\ io_wait' = [io_wait EXCEPT ![c] = FALSE]
    /\ IF io_blocked[c]
       THEN /\ io_blocked' = [io_blocked EXCEPT ![c] = FALSE]
            /\ pending_io' = [pending_io EXCEPT ![owner[c]] = @ \cup {c}]
            /\ notifier' = [notifier EXCEPT ![e] = ThreadToKick(owner[c])]
       ELSE UNCHANGED <<io_blocked, pending_io, notifier>>
    /\ UNCHANGED <<conn, owner, queue, bytes, run, main, term, last_thread, stop,
                   curr_conns, uncounted, accepts>>

NotifyWrite(e) ==
    /\ notifier[e] # None
    /\ bytes' = [bytes EXCEPT ![notifier[e]] = @ + 1]
    /\ notifier' = [notifier EXCEPT ![e] = None]
    /\ UNCHANGED <<conn, owner, io_wait, io_blocked, queue, pending_io, run,
                   main, term, last_thread, stop, curr_conns, uncounted, accepts>>

-----------------------------------------------------------------------------
(***************************************************************************)
(* Shutdown.                                                               *)
(***************************************************************************)

\* sigterm_handler(), in any thread.
shutdown_server ==
    /\ main \in {"loop", "write", "delay", "subtract"}
    /\ shutdown_delay' = 0 /\ dynamic_shutdown' = FALSE
    /\ memcached_shutdown' = IF memcached_shutdown = 0 THEN 1 ELSE memcached_shutdown
    /\ UNCHANGED <<conn, owner, io_wait, io_blocked, pool, main, term, last_thread,
                   commands, curr_conns, uncounted, accepts>>

unchangedByMain == <<conn, owner, io_wait, io_blocked, queue, pending_io, run,
                     notifier, last_thread, commands, curr_conns, uncounted, accepts>>

\* clock_handler(), every second, or event_handler() of the listening socket;
\* then arcus_zk_final() and close_listen_sockets().
BreakMainLoop ==
    /\ main = "loop" /\ memcached_shutdown > 0
    /\ main' = "delay" /\ prev_conns' = Cardinality(Conns) + 1
    /\ UNCHANGED <<unchangedByMain, ii, was, bytes, memcached_shutdown, shutdown_delay,
                   dynamic_shutdown>>

FewerConns == curr_conns > 0 /\ curr_conns < prev_conns

\* One turn of the waiting loop, to the end of its sleep.  Nothing protects
\* shutdown_delay: what a command or a signal stores between the read and the
\* write of shutdown_delay -= 200 is lost.
WaitForClients ==
    /\ main = "delay" /\ shutdown_delay > 0
    /\ \/ /\ dynamic_shutdown /\ ~FewerConns
          /\ shutdown_delay' = 0
          /\ UNCHANGED <<main, was, prev_conns>>
       \/ /\ dynamic_shutdown /\ FewerConns
          /\ main' = "subtract" /\ was' = shutdown_delay /\ prev_conns' = curr_conns
          /\ UNCHANGED shutdown_delay
       \/ /\ ~dynamic_shutdown
          /\ main' = "subtract" /\ was' = shutdown_delay
          /\ UNCHANGED <<shutdown_delay, prev_conns>>
    /\ UNCHANGED <<unchangedByMain, ii, bytes, memcached_shutdown, dynamic_shutdown>>

SubtractDelay ==
    /\ main = "subtract"
    /\ shutdown_delay' = was - 1
    /\ main' = "delay" /\ was' = 0
    /\ UNCHANGED <<unchangedByMain, ii, prev_conns, bytes, memcached_shutdown, dynamic_shutdown>>

\* memcached_shutdown = 2, and threads_shutdown() begins.
StopThreads ==
    /\ main = "delay" /\ shutdown_delay <= 0
    /\ memcached_shutdown' = 2
    /\ main' = "stop" /\ ii' = 0 /\ prev_conns' = 0
    /\ UNCHANGED <<unchangedByMain, was, bytes, shutdown_delay, dynamic_shutdown>>

StopThread_Mutant ==
    /\ main = "stop" /\ ii < NumThreads
    /\ main' = "join"
    /\ UNCHANGED <<unchangedByMain, bytes, term, memcached_shutdown, shutdown_delay,
                   dynamic_shutdown>>

\* threads_shutdown(): a byte for the next worker, then pthread_join().
StopThread ==
    /\ main = "stop" /\ ii < NumThreads
    /\ bytes' = [bytes EXCEPT ![ii] = @ + 1]
    /\ main' = "join"
    /\ UNCHANGED <<unchangedByMain, term, memcached_shutdown, shutdown_delay, dynamic_shutdown>>

JoinThread ==
    /\ main = "join" /\ At(ii, "ended")
    /\ main' = "stop" /\ ii' = ii + 1
    /\ UNCHANGED <<unchangedByMain, prev_conns, was, bytes, memcached_shutdown, shutdown_delay,
                   dynamic_shutdown>>

\* The engine is destroyed after the last worker has ended; that waits for
\* its own threads.
DestroyEngine ==
    /\ main = "stop" /\ ii = NumThreads
    /\ \A e \in Notifiers : notifier[e] = None
    /\ main' = "done" /\ ii' = 0
    /\ UNCHANGED <<unchangedByMain, prev_conns, was, bytes, memcached_shutdown, shutdown_delay,
                   dynamic_shutdown>>

-----------------------------------------------------------------------------
Init ==
    /\ conn = [c \in Conns |-> "closed"]
    /\ owner = [c \in Conns |-> None]
    /\ io_wait = [c \in Conns |-> FALSE]
    /\ io_blocked = [c \in Conns |-> FALSE]
    /\ queue = [w \in Workers |-> <<>>]
    /\ pending_io = [w \in Workers |-> {}]
    /\ bytes = [w \in Workers |-> 0]
    /\ worker = [w \in Workers |-> "loop"]
    /\ taken = [w \in Workers |-> {}]
    /\ cur = [w \in Workers |-> None]
    /\ notifier = [e \in Notifiers |-> None]
    /\ main = "loop" /\ was = 0 /\ prev_conns = 0 /\ ii = 0
    /\ last_thread = NumThreads - 1
    /\ memcached_shutdown = 0 /\ shutdown_delay = 0 /\ dynamic_shutdown = FALSE
    /\ curr_conns = 0 /\ uncounted = 0 /\ commands = 0 /\ accepts = 0

\* What the main thread does without being asked to.
MainStep ==
    \/ DispatchWrite \/ BreakMainLoop \/ WaitForClients \/ SubtractDelay
    \/ StopThreads \/ StopThread \/ JoinThread \/ DestroyEngine

\* What a worker does between two turns of its event loop.
WorkerStep(w) ==
    \/ PopNew(w) \/ TakePending(w) \/ should_io_blocked(w)
    \/ \E c \in Conns : RunPending(w, c)

Next ==
    \/ MainStep
    \/ \E c \in Conns : conn_listening(c)
    \/ shutdown_server
    \/ \E w \in Workers :
          \/ ThreadEvent(w) \/ WorkerStep(w)
          \/ \E c \in Conns : event_handler(w, c)
    \/ \E e \in Notifiers : NotifyWrite(e) \/ \E c \in Conns : notify_io_complete(e, c)

Spec == Init /\ [][Next]_vars

\* Threads are scheduled; libevent serves its active events in turn, so that
\* the pipe is served however busy the connections are; commits complete
\* in the order of the log (WaiterReleased of GroupCommit).
Fairness ==
    /\ WF_vars(MainStep)
    /\ \A w \in Workers : WF_vars(WorkerStep(w)) /\ SF_vars(ThreadEvent(w))
    /\ \A e \in Notifiers : WF_vars(NotifyWrite(e))
    /\ \A c \in Conns : SF_vars(\E e \in Notifiers : notify_io_complete(e, c))

FairSpec == Spec /\ Fairness

-----------------------------------------------------------------------------
(***************************************************************************)
(* Properties.                                                             *)
(***************************************************************************)

\* Every variable stays in its type.
TypeOK ==
    /\ conn \in [Conns -> {"closed", "queued", "open", "off"}]
    /\ owner \in [Conns -> Workers \cup {None}]
    /\ io_wait \in [Conns -> BOOLEAN] /\ io_blocked \in [Conns -> BOOLEAN]
    /\ queue \in [Workers -> Seq(Conns)]
    /\ pending_io \in [Workers -> SUBSET Conns]
    /\ bytes \in [Workers -> Nat]
    /\ worker \in [Workers -> {"loop", "pop", "take", "run", "check", "ended"}]
    /\ taken \in [Workers -> SUBSET Conns] /\ cur \in [Workers -> Conns \cup {None}]
    /\ notifier \in [Notifiers -> Workers \cup {None}]
    /\ main \in {"loop", "write", "delay", "subtract", "stop", "join", "done"}
    /\ prev_conns \in Int /\ ii \in 0 .. NumThreads /\ was \in Int
    /\ main = "join" => ii < NumThreads
    /\ last_thread \in Workers
    /\ shutdown_delay \in Int /\ curr_conns \in Int

\* The queue of a worker is never longer than the number of bytes that are in
\* its pipe, on their way to it, or just read: one connection is taken for
\* each byte, so one byte less would leave a client without service
\* (dispatch_conn_new(), thread_libevent_process()).
QueueWoken(w) ==
    Len(queue[w]) <= bytes[w] + (IF main = "write" /\ last_thread = w THEN 1 ELSE 0)
                              + (IF At(w, "pop") THEN 1 ELSE 0)

\* A worker with connections in its pending_io list has a byte in its pipe or
\* on its way to it, or is about to take the list, although only the first
\* one to be put in the list sends a byte (notify_io_complete()).
PendingWoken(w) ==
    pending_io[w] # {} => \/ bytes[w] > 0
                          \/ \E e \in Notifiers : notifier[e] = w
                          \/ worker[w] \in {"pop", "take"}

\* No wakeup is lost, for any number of threads and connections.
WakeupsKept == \A w \in Workers : ~At(w, "ended") => QueueWoken(w) /\ PendingWoken(w)

\* Where a connection without an event is, exactly once: it waits for a
\* commit, or is in the list of its worker, or was taken from it.
Suspended(c) ==
    LET places == {p \in {"wait", "list", "taken"} :
                     \/ p = "wait"  /\ io_wait[c] /\ io_blocked[c]
                     \/ p = "list"  /\ c \in pending_io[owner[c]]
                     \/ p = "taken" /\ c \in taken[owner[c]]}
    IN Cardinality(places) = 1

\* curr_conns, by which conn_listening() limits the number of connections,
\* counts the sockets that are open and those that were closed by a plain
\* close() after a failed allocation; a worker that ends does not count any
\* more.  A connection whose event is deleted is held by exactly one of those
\* who can bring it back; and when the server has ended, every socket is
\* closed, wherever it was.
ConnsAccounted ==
    /\ TypeOK
    /\ (\A w \in Workers : ~At(w, "ended")) =>
          curr_conns = Cardinality(Served) + uncounted
    /\ curr_conns <= MaxConns + AdminConns
    /\ \A c \in Conns : conn[c] = "off" => Suspended(c)
    /\ main = "done" => Served = {}

\* A connection that was accepted gets its worker, one whose commit completes
\* goes on, and a server told to shut down ends, with clients that send and
\* wait, hang up, or do nothing.
ThreadsProgress ==
    /\ \A c \in Conns : /\ conn[c] = "queued" ~> conn[c] # "queued"
                        /\ conn[c] = "off" ~> conn[c] # "off"
    /\ memcached_shutdown > 0 ~> main = "done"

=============================================================================
