----------------------------- MODULE ConnServer -----------------------------
(***************************************************************************)
(* A connection served by its worker thread (memcached.c, thread.c): the   *)
(* state functions conn_waiting() ... conn_closing() that the event        *)
(* handler calls one after the other, the client at the other end of the   *)
(* socket, and the thread that flushes the command log and tells the       *)
(* connection that its commit is done.                                     *)
(*                                                                         *)
(* c is the conn structure.  loop is where the worker is with it: "idle"   *)
(* (not running it), "run" (about to call c->state), "check" (a handler    *)
(* has returned ewouldblock and should_io_blocked() is next).  pending     *)
(* says that it is in the pending_io list of the thread.                   *)
(***************************************************************************)
EXTENDS ConnBinary

CONSTANTS
    AsciiRequests,   \* the requests a client may send in the ASCII protocol
    BinaryRequests,  \* and in the binary protocol
    Habits,          \* what else the client does, see ClientSends
    ReqsPerEvent,    \* settings.reqs_per_event
    BufMax           \* bound on the units in the input buffer

ASSUME ServerAssumption == {ReqsPerEvent, BufMax} \subseteq Nat \ {0}

VARIABLES c, loop, pending

vars == <<c, loop, pending>>

\* One structure, taken from the cache for a connection and given back.
Init ==
    /\ c = NewConn
    /\ loop = "idle"
    /\ pending = FALSE

-----------------------------------------------------------------------------
(***************************************************************************)
(* The client.                                                             *)
(***************************************************************************)

PipeCommands ==
    {"lop_insert", "lop_delete", "sop_insert", "sop_delete", "sop_exist",
     "mop_insert", "mop_update", "mop_delete", "mop_delete_all", "bop_insert",
     "bop_update", "bop_update_eflag", "bop_delete", "bop_incr"}

\* "pipe" is the last token of the lines of these commands alone: the handlers
\* of the others do not look for it, and no binary request has tokens.
ASSUME PipeAssumption ==
    /\ \A r \in AsciiRequests : r.opt = "pipe" => r.cmd \in PipeCommands
    /\ \A r \in BinaryRequests : r.opt # "pipe"

\* The commands of a pipeline are those the protocol allows there.  Two habits
\* are up to the client: a scan after a get that failed, and another get then,
\* which makes the lists of what the first one found longer.
ClientSends(r) ==
    /\ c.pipe_state # "OFF" => r.cmd \in PipeCommands
    /\ c.ileft > 0 /\ "scan after get" \notin Habits => r.cmd \notin {"scan_key", "scan_prefix"}
    /\ c.ileft + c.suffixleft > 0 /\ "get after get" \notin Habits =>
         r.cmd \notin {"get", "gets", "mget", "mgets"}

\* What a read of at most n units from the socket brings.
SocketReads(n) == 1 .. n

-----------------------------------------------------------------------------
(***************************************************************************)
(* The state functions.  A function that returns true is followed by the   *)
(* next one, else the worker returns to its event loop.                    *)
(***************************************************************************)

Go(d) ==
    /\ c' = d
    /\ loop' = "run"
    /\ UNCHANGED pending

Stop(d) ==
    /\ c' = d
    /\ loop' = "idle"
    /\ UNCHANGED pending

In(s) == loop = "run" /\ c.state = s

Closing == conn_set_state(c, "conn_closing")

\* libevent may refuse: then the connection is closed.  Else the worker waits
\* for the event, in the given state.
update_event(d, flags, state) ==
    \/ Stop(conn_set_state([d EXCEPT !.ev_flags = flags], state))
    \/ d.ev_flags # flags /\ Go(conn_set_state(d, "conn_closing"))

conn_waiting ==
    /\ In("conn_waiting")
    /\ update_event(c, "read", "conn_read")

\* There may be no memory for a larger input buffer.
try_read_network_failure ==
    LET d == [c EXCEPT !.rbytes = 0]
    IN {[e EXCEPT !.write_and_go = "conn_closing"] :
            e \in IF c.protocol = "binary" THEN write_bin_packet(d, 0)
                                           ELSE out_string(d, "severe")}

conn_read ==
    /\ In("conn_read")
    /\ \/ Go(conn_set_state(c, "conn_waiting"))
       \/ \E n \in SocketReads(BufMax - c.rbytes) :
              Go([c EXCEPT !.rbytes = @ + n, !.state = "conn_parse_cmd"])
       \/ Go(Closing)
       \/ \E d \in try_read_network_failure : Go(d)

\* The first byte of a connection tells the protocol.
try_read_command(d, r) ==
    IF d.protocol = "binary" THEN try_read_command_binary(d, r)
                             ELSE try_read_command_ascii(d, r)

Requests ==
    ({"ascii"} \X AsciiRequests) \cup ({"binary"} \X BinaryRequests)

\* The end of conn_parse_cmd() and of conn_nread().
CheckBlocked_Mutant(d) ==
    /\ c' = [d EXCEPT !.ewouldblock = FALSE]
    /\ loop' = "run"
    /\ UNCHANGED pending

CheckBlocked(d) ==
    /\ c' = [d EXCEPT !.ewouldblock = FALSE]
    /\ loop' = IF d.ewouldblock THEN "check" ELSE "run"
    /\ UNCHANGED pending

conn_parse_cmd ==
    /\ In("conn_parse_cmd")
    /\ \E q \in Requests :
        /\ c.protocol \in {"negotiating", q[1]}
        /\ ClientSends(q[2])
        /\ \E t \in try_read_command([c EXCEPT !.protocol = q[1]], q[2]) :
               CheckBlocked(IF t.ret = 0 THEN conn_set_state(t.c, "conn_waiting") ELSE t.c)

reset_cmd_handler(d) ==
    [ReleaseKeys(ReleaseEitem(ReleaseItem(d)))
        EXCEPT !.ascii_cmd = FALSE, !.cmd = "none", !.substate = "none",
               !.wants = FALSE, !.replied = 0,
               !.state = IF d.rbytes > 0 THEN "conn_parse_cmd" ELSE "conn_waiting"]

\* Yield when the connection has had its share of requests.  What is in the
\* input buffer makes no read event; a write event comes in its place.
conn_new_cmd ==
    /\ In("conn_new_cmd")
    /\ LET d == [c EXCEPT !.nevents = @ - 1]
       IN IF d.nevents >= 0 THEN Go(reset_cmd_handler(d))
          ELSE IF d.rbytes > 0 THEN update_event(d, "write", d.state)
          ELSE Stop(d)

Least(m, n) == IF m < n THEN m ELSE n

conn_swallow ==
    /\ In("conn_swallow")
    /\ IF c.sbytes = 0 THEN Go(conn_set_state(c, "conn_new_cmd"))
       ELSE IF c.rbytes > 0
         THEN LET n == Least(c.rbytes, c.sbytes)
              IN Go([c EXCEPT !.sbytes = @ - n, !.rbytes = @ - n, !.left = @ - n])
       ELSE \/ \E n \in SocketReads(c.sbytes) :
                   Go([c EXCEPT !.sbytes = @ - n, !.left = @ - n])
            \/ Go(Closing)
            \/ update_event(c, "read", c.state)

complete_nread(d) ==
    IF d.protocol = "ascii" THEN complete_nread_ascii(d) ELSE complete_nread_binary(d)

conn_nread ==
    /\ In("conn_nread")
    /\ IF c.rlbytes = 0 THEN \E d \in complete_nread(c) : CheckBlocked(d)
       ELSE IF c.rbytes > 0
         THEN LET n == Least(c.rbytes, c.rlbytes)
              IN Go([c EXCEPT !.rlbytes = @ - n, !.rbytes = @ - n, !.left = @ - n])
       ELSE \/ \E n \in SocketReads(c.rlbytes) :
                   Go([c EXCEPT !.rlbytes = @ - n, !.left = @ - n])
            \/ Go(Closing)
            \/ update_event(c, "read", c.state)

\* The reply of conn_mwrite is sent: what it was made of is given back.
SentAll(d) ==
    LET e == ReleaseBuffer(ReleaseKeys(ReleaseEitem(ReleaseSuffixes(
                 ReleasePrefixList(ReleaseItemList(d))))))
    IN conn_set_state(e, IF e.protocol = "binary" THEN e.write_and_go ELSE "conn_new_cmd")

SentString(d) == conn_set_state(ReleaseBuffer(d), d.write_and_go)

\* Sent, which leaves the connection as given, only in part, not now, or never.
transmit(d, sent) ==
    \/ Go([sent EXCEPT !.replied = @ + 1])
    \/ update_event(d, "write", d.state)
    \/ Go(conn_set_state(d, "conn_closing"))

conn_mwrite == In("conn_mwrite") /\ transmit(c, SentAll(c))

conn_write == In("conn_write") /\ transmit(c, SentString(c))

conn_closing == In("conn_closing") /\ Stop(conn_close(c))

-----------------------------------------------------------------------------
(***************************************************************************)
(* The event loop of the worker, and the commits.                          *)
(***************************************************************************)

\* thread_libevent_process() takes a new connection from its queue.
NewConnection ==
    /\ c.state = "closed"
    /\ loop = "idle"
    /\ c' = [conn_new(c) EXCEPT !.left = 0, !.short = 0, !.legal = TRUE, !.wants = FALSE]
    /\ UNCHANGED <<loop, pending>>

event_handler(flags) ==
    /\ loop = "idle"
    /\ c.registered
    /\ c.ev_flags = flags
    /\ c' = [c EXCEPT !.nevents = ReqsPerEvent]
    /\ loop' = "run"
    /\ UNCHANGED pending

ReadEvent == event_handler("read")
WriteEvent == event_handler("write")

should_io_blocked_Mutant ==
    /\ loop = "check"
    /\ c' = [c EXCEPT !.io_blocked = TRUE]
    /\ loop' = "idle"
    /\ UNCHANGED pending

should_io_blocked ==
    /\ loop = "check"
    /\ IF c.current_io_wait > 0
         THEN /\ c' = [c EXCEPT !.io_blocked = TRUE, !.registered = FALSE]
              /\ loop' = "idle"
         ELSE /\ UNCHANGED c
              /\ loop' = "run"
    /\ UNCHANGED pending

\* The thread that flushes the log.
notify_io_complete ==
    /\ c.waiters > 0
    /\ LET d == [c EXCEPT !.waiters = @ - 1]
           e == [d EXCEPT !.current_io_wait = @ - 1]
           wake == e.current_io_wait = 0 /\ c.io_blocked
       IN IF c.state \in {"closed", "conn_closing"}
            THEN c' = d /\ UNCHANGED pending
          ELSE IF c.current_io_wait > 0
            THEN /\ c' = [e EXCEPT !.io_blocked = @ /\ ~wake]
                 /\ pending' = (pending \/ wake)
          ELSE c' = [d EXCEPT !.premature_io_complete = @ + 1] /\ UNCHANGED pending
    /\ UNCHANGED loop

\* thread_libevent_process() runs the connections of pending_io.
ResumeIo ==
    /\ pending
    /\ loop = "idle"
    /\ c' = [c EXCEPT !.registered = TRUE, !.nevents = ReqsPerEvent]
    /\ loop' = "run"
    /\ pending' = FALSE

Worker ==
    \/ conn_waiting \/ conn_read \/ conn_parse_cmd \/ conn_new_cmd
    \/ conn_swallow \/ conn_nread \/ conn_write \/ conn_mwrite \/ conn_closing
    \/ should_io_blocked

Next ==
    \/ Worker
    \/ NewConnection
    \/ ReadEvent
    \/ WriteEvent
    \/ notify_io_complete
    \/ ResumeIo

Spec == Init /\ [][Next]_vars

-----------------------------------------------------------------------------
(***************************************************************************)
(* Properties.                                                             *)
(***************************************************************************)

States ==
    {"closed", "conn_waiting", "conn_read", "conn_parse_cmd", "conn_new_cmd",
     "conn_swallow", "conn_nread", "conn_write", "conn_mwrite", "conn_closing"}

\* Types: the states are those with a function, counts and lengths are never
\* negative, no more is in the input buffer than fits, and no more responses
\* are kept for a pipeline than its limit, also when its last request adds its
\* own.
TypeOK ==
    /\ DOMAIN c = DOMAIN NewConn
    /\ c.state \in States
    /\ c.write_and_go \in States \ {"closed"}
    /\ c.pipe_state \in {"OFF", "ON"} \cup PipeErrors
    /\ c.rbytes \in 0 .. BufMax
    /\ {c.sbytes, c.rlbytes, c.ileft, c.pleft, c.suffixleft, c.coll_ecount,
        c.current_io_wait, c.waiters} \subseteq Nat
    /\ c.pipe_count \in 0 .. PipeMax
    /\ loop \in {"idle", "run", "check"}
    /\ pending \in BOOLEAN

\* At every moment conn_cleanup() would give back exactly what the connection
\* holds: a client that hangs up, with a reply half sent or a data block half
\* read, leaks no item, element or buffer and frees none twice.  (The client
\* sends no scan after a get that failed, see Habits: process_scan_command()
\* would overwrite the list of the items the get has found.)  No assertion of
\* conn_coll_eitem_free() fails and "[FATAL] Unexpected ewouldblock" is never
\* logged.
HeldExact ==
    /\ TypeOK
    /\ conn_cleanup(c).held = [r \in Resources |-> 0]
    /\ ~c.fatal

\* When the server goes on to the next request, it has consumed all of the
\* last one that was well formed and nothing beyond: a data block is read or
\* swallowed whole on every path, errors and pipelines included.  Of the two
\* requests that KnownShort() names it has left exactly one unit, which it goes
\* on to read as the next request.
InSync == c.state = "conn_new_cmd" /\ c.legal => c.left = c.short

\* A request that wants a reply has had exactly one when the next request
\* begins, and no request has two.  No request leaves noreply behind for the
\* next one, which would lose its reply and its wait for the commit.
AnsweredOnce ==
    /\ c.replied <= 1
    /\ c.state = "conn_new_cmd" /\ c.wants => c.replied = 1
    /\ c.state = "conn_new_cmd" /\ c.protocol = "ascii" => ~c.noreply

\* The error that stops a pipeline lasts until the request that ends the
\* pipeline.  The one reply that a request within a pipeline may have is that
\* error: it leaves pipe_state in error, and no request that follows in the
\* pipeline clears it.  (A line that is refused does: pipe_response_save()
\* takes it for the sign of a client that does not know of the error.)
PipeErrorHolds ==
    [][c.state \in {"conn_parse_cmd", "conn_nread"} /\ c'.more /\ c'.legal =>
          /\ c'.state = "conn_write" => c'.pipe_state \in PipeErrors
          /\ c.pipe_state \in PipeErrors => c'.pipe_state \in PipeErrors]_vars

\* A connection that waits for a commit is neither closed nor given to another
\* client before the commit is notified, and no notification finds that nobody
\* waits: the comment of waitfor_io_complete() says that premature_io_complete
\* is always 0.
NotifiedInTime ==
    /\ c.premature_io_complete = 0
    /\ c.waiters = c.current_io_wait
    /\ c.state = "closed" => c.waiters = 0

\* The event that the worker waits for in a state.  A connection that yields
\* with requests in its buffer must not wait for the socket.
Watched ==
    CASE c.state \in {"conn_write", "conn_mwrite"} -> c.ev_flags = "write"
      [] c.state = "conn_new_cmd" -> c.rbytes > 0 => c.ev_flags = "write"
      [] OTHER -> c.ev_flags = "read"

\* No connection is forgotten: when the worker has left it, it is watched for
\* the event that its state needs, or its commit is still to be notified, or
\* it is in the pending list.  A notification that comes between the end of
\* the handler and should_io_blocked() is not lost.
NeverForgotten ==
    loop = "idle" /\ c.state # "closed" =>
        \/ c.registered /\ Watched
        \/ c.io_blocked /\ c.waiters > 0
        \/ pending

=============================================================================
