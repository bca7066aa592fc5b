-------------------------------- MODULE Conn --------------------------------
(***************************************************************************)
(* A client connection of the server (memcached.c): the conn structure,    *)
(* command pipelining, replies, and what a connection holds on behalf of   *)
(* its requests and gives back.                                            *)
(*                                                                         *)
(* The functions of memcached.c are operators that keep their names.  They *)
(* map a connection to the connection they leave, or to the set of those   *)
(* they may leave when an allocation, a buffer or the engine decides.      *)
(*                                                                         *)
(* Data is counted in units: a command line, a value and the "\r\n" after  *)
(* a value are one unit each; so are the header of a binary request, its   *)
(* extras with its key, and its value.                                     *)
(***************************************************************************)
EXTENDS Integers, FiniteSets, Functions

CONSTANTS
    MaxElems,    \* the most items or elements one request returns
    PipeMax      \* PIPE_CMD_MAX_COUNT

ASSUME ConnAssumption == {MaxElems, PipeMax} \subseteq Nat \ {0}

\* What a connection may hold: references to items, elements, prefixes;
\* malloc'd blocks (element arrays, value buffers, response strings), the
\* memory blocks with key strings, suffix buffers, and write_and_free.
Resources == {"item", "elem", "prefix", "block", "resp", "keys", "suffix", "wfree"}

PipeErrors == {"ERR_CFULL", "ERR_MFULL", "ERR_BAD"}

ElemInserts == {"LOP_INSERT", "SOP_INSERT", "MOP_INSERT", "MOP_UPSERT"}
ValueOps    == {"SOP_DELETE", "SOP_EXIST", "MOP_UPDATE", "BOP_UPDATE"}
ElemGets    == {"LOP_GET", "SOP_GET", "MOP_GET", "BOP_GET", "BOP_PWG", "BOP_GBP"}
BopInserts  == {"BOP_INSERT", "BOP_UPSERT"}

\* Pointers are TRUE when they are not NULL.  The rest is history: held is
\* what the connection really holds, waiters the commits it waits for, left
\* the units of the last request that the server has not consumed, short how
\* many it is known to leave of such a request, legal whether that request is
\* one the protocol describes, wants whether it wants a reply, more whether it says that the pipeline goes on, replied its
\* replies, fatal that an assertion failed or "[FATAL]" was logged.
NewConn ==
    [state |-> "closed", write_and_go |-> "conn_new_cmd", substate |-> "none",
     protocol |-> "negotiating", cmd |-> "none", noreply |-> FALSE,
     pipe_state |-> "OFF", pipe_count |-> 0,
     item |-> FALSE, coll_op |-> "none", coll_eitem |-> FALSE, coll_ecount |-> 0,
     coll_resps |-> FALSE, coll_strkeys |-> FALSE, coll_getrim |-> FALSE,
     coll_smgmode |-> 0, ascii_cmd |-> FALSE,
     ileft |-> 0, pleft |-> 0, suffixleft |-> 0, write_and_free |-> FALSE,
     rbytes |-> 0, sbytes |-> 0, rlbytes |-> 0,
     nevents |-> 0, ev_flags |-> "read", registered |-> FALSE,
     ewouldblock |-> FALSE, io_blocked |-> FALSE,
     current_io_wait |-> 0, premature_io_complete |-> 0,
     held |-> [r \in Resources |-> 0], waiters |-> 0,
     left |-> 0, short |-> 0, legal |-> TRUE, wants |-> FALSE, more |-> FALSE,
     replied |-> 0, fatal |-> FALSE]

Take(c, r, n) == [c EXCEPT !.held[r] = @ + n]

Give(c, r, n) == Take(c, r, -n)

conn_set_state(c, s) == [c EXCEPT !.state = s]

-----------------------------------------------------------------------------
(***************************************************************************)
(* The life of a conn structure.                                           *)
(***************************************************************************)

\* The structure comes from a cache: what is not set here is as the last
\* connection left it.
conn_new(c) ==
    [c EXCEPT !.state = "conn_new_cmd", !.write_and_go = "conn_new_cmd",
              !.protocol = "negotiating", !.cmd = "none", !.noreply = FALSE,
              !.pipe_state = "OFF", !.pipe_count = 0,
              !.item = FALSE, !.coll_eitem = FALSE, !.coll_resps = FALSE,
              !.coll_strkeys = FALSE, !.ileft = 0, !.pleft = 0, !.suffixleft = 0,
              !.write_and_free = FALSE, !.rbytes = 0, !.rlbytes = 0,
              !.ascii_cmd = FALSE, !.ev_flags = "read", !.registered = TRUE,
              !.ewouldblock = FALSE, !.io_blocked = FALSE,
              !.current_io_wait = 0, !.premature_io_complete = 0]

FreeResps(c) ==
    IF c.coll_resps THEN [Give(c, "resp", 1) EXCEPT !.coll_resps = FALSE] ELSE c

\* Frees what coll_eitem points to, which coll_op tells.  The keys of a bop
\* mget have one element each at most, and an array for it.
conn_coll_eitem_free_Mutant(c) ==
    LET op == c.coll_op IN
    CASE op \in ElemInserts -> Give(c, "elem", 1)
      [] op \in ValueOps    -> Give(c, "block", 1)
      [] op \in ElemGets    ->
             FreeResps(Give(Give(c, "elem", c.coll_ecount), "block", 1))
      [] op \in BopInserts  -> Give(c, "elem", 1)
      [] op = "BOP_MGET"    ->
             Give(Give(c, "elem", c.coll_ecount), "block", 1 + c.coll_ecount)
      [] op = "BOP_SMGET"   ->
             Give(Give(c, "elem", c.coll_ecount), "block", 1)
      [] OTHER -> [c EXCEPT !.fatal = TRUE]

conn_coll_eitem_free(c) ==
    LET op == c.coll_op IN
    CASE op \in ElemInserts -> Give(c, "elem", 1)
      [] op \in ValueOps    -> Give(c, "block", 1)
      [] op \in ElemGets    ->
             FreeResps(Give(Give(c, "elem", c.coll_ecount), "block", 1))
      [] op \in BopInserts  -> FreeResps(Give(c, "elem", 1))
      [] op = "BOP_MGET"    ->
             Give(Give(c, "elem", c.coll_ecount), "block", 1 + c.coll_ecount)
      [] op = "BOP_SMGET"   ->
             Give(Give(c, "elem", c.coll_ecount), "block", 1)
      [] OTHER -> [c EXCEPT !.fatal = TRUE]   \* assert(0)

ReleaseItem(c) ==
    IF c.item THEN [Give(c, "item", 1) EXCEPT !.item = FALSE] ELSE c

ReleaseEitem(c) ==
    IF c.coll_eitem THEN [conn_coll_eitem_free(c) EXCEPT !.coll_eitem = FALSE] ELSE c

ReleaseKeys(c) ==
    IF c.coll_strkeys THEN [Give(c, "keys", 1) EXCEPT !.coll_strkeys = FALSE] ELSE c

ReleaseItemList(c) == [Give(c, "item", c.ileft) EXCEPT !.ileft = 0]

ReleasePrefixList(c) == [Give(c, "prefix", c.pleft) EXCEPT !.pleft = 0]

ReleaseSuffixes(c) == [Give(c, "suffix", c.suffixleft) EXCEPT !.suffixleft = 0]

ReleaseBuffer(c) ==
    IF c.write_and_free THEN [Give(c, "wfree", 1) EXCEPT !.write_and_free = FALSE] ELSE c

conn_cleanup(c) ==
    LET lists == IF c.ileft # 0 THEN ReleaseItemList(c) ELSE ReleasePrefixList(c)
    IN [ReleaseBuffer(ReleaseSuffixes(ReleaseKeys(ReleaseEitem(ReleaseItem(lists)))))
            EXCEPT !.ewouldblock = FALSE, !.io_blocked = FALSE,
                   !.current_io_wait = 0, !.premature_io_complete = 0]

conn_close(c) ==
    [conn_cleanup(c) EXCEPT !.state = "closed", !.registered = FALSE]

-----------------------------------------------------------------------------
(***************************************************************************)
(* Waiting for a commit of the command log: a write returns                *)
(* ENGINE_EWOULDBLOCK when the log record is in the buffer only, and       *)
(* notify_io_complete() is called when it is in the file.                  *)
(***************************************************************************)

waitfor_io_complete(c) ==
    IF c.premature_io_complete = 0
      THEN [c EXCEPT !.current_io_wait = @ + 1]
      ELSE [c EXCEPT !.premature_io_complete = @ - 1]

\* What an engine call returns: an expected result, or one of the errors the
\* handlers tell apart.  A write of a request that wants a reply may return
\* ENGINE_EWOULDBLOCK, which CONN_CHECK_AND_SET_EWOULDBLOCK turns into a
\* success that must wait; get_noreply() keeps the others from waiting.
EngineErrors == {"ENOMEM", "ENOTSUP", "DISCONNECT"}

Blocked(c) ==
    [waitfor_io_complete([c EXCEPT !.waiters = @ + 1]) EXCEPT !.ewouldblock = TRUE]

EngineRead(c) == [ret : {"SUCCESS", "MISS"} \cup EngineErrors, c : {c}]

EngineWrite(c) ==
    EngineRead(c) \cup
    IF c.noreply THEN {} ELSE [ret : {"SUCCESS"}, c : {Blocked(c)}]

-----------------------------------------------------------------------------
(***************************************************************************)
(* Pipelining and the replies of the ASCII protocol.  A reply is "ok" or   *)
(* "severe" (it starts with ERROR, CLIENT_ERROR or SERVER_ERROR).          *)
(***************************************************************************)

pipe_state_clear(c) == [c EXCEPT !.pipe_state = "OFF", !.pipe_count = 0]

pipe_response_save(c, r) ==
    IF c.pipe_state # "ON" THEN {pipe_state_clear(c)}
    ELSE LET s == [c EXCEPT !.pipe_count = @ + 1] IN
         {IF r = "severe" THEN [s EXCEPT !.pipe_state = "ERR_BAD"]
          ELSE IF s.pipe_count >= PipeMax /\ c.noreply
               THEN [s EXCEPT !.pipe_state = "ERR_CFULL"]
          ELSE s}
         \cup {[c EXCEPT !.pipe_state = "ERR_MFULL"] : x \in 1 .. c.pipe_count}

Reply(c) == [c EXCEPT !.state = "conn_write", !.write_and_go = "conn_new_cmd"]

\* end is end_of_pipelining: the request did not ask for more of the pipe.
pipe_response_done_Mutant(c, end) == Reply(pipe_state_clear(c))

pipe_response_done(c, end) ==
    Reply(IF c.pipe_state = "ON" \/ end THEN pipe_state_clear(c) ELSE c)

OutString(c, noreply) ==
    LET d == IF c.pipe_state \in PipeErrors THEN [c EXCEPT !.noreply = FALSE] ELSE c
    IN IF d.noreply
         THEN [d EXCEPT !.noreply = FALSE, !.state = "conn_new_cmd",
                        !.fatal = @ \/ d.ewouldblock, !.ewouldblock = FALSE]
         ELSE IF d.pipe_state # "OFF"
         THEN pipe_response_done(d, ~noreply)
         ELSE Reply(d)

out_string(c, r) ==
    {OutString(d, c.noreply) :
        d \in IF c.pipe_state # "OFF" THEN pipe_response_save(c, r) ELSE {c}}

handle_unexpected_errorcode_ascii(c, ret) ==
    CASE ret = "DISCONNECT" -> {conn_set_state(c, "conn_closing")}
      [] ret = "ENOTSUP"    -> out_string(c, "ok")
      [] OTHER              -> out_string(c, "severe")

\* The switch on the result of the engine that ends the ASCII handlers.
ReplyResult(e) ==
    IF e.ret \in {"SUCCESS", "MISS"} THEN out_string(e.c, "ok")
                                     ELSE handle_unexpected_errorcode_ascii(e.c, e.ret)

Replies(E) == UNION {ReplyResult(e) : e \in E}

\* Swallow the data block of a request that was refused: after the reply,
\* or at once if there is none.
SwallowAfter_Mutant(c, n) ==
    IF c.state = "conn_write"
      THEN [c EXCEPT !.sbytes = n, !.write_and_go = "conn_swallow"]
      ELSE c

SwallowAfter(c, n) ==
    IF c.state = "conn_closing" THEN c
    ELSE IF c.state = "conn_write"
      THEN [c EXCEPT !.sbytes = n, !.write_and_go = "conn_swallow"]
      ELSE [c EXCEPT !.sbytes = n, !.state = "conn_swallow"]

-----------------------------------------------------------------------------
(***************************************************************************)
(* The replies of the binary protocol.                                     *)
(***************************************************************************)

\* An error packet, or an empty one: it is always sent.
write_bin_packet(c, swallow) ==
    {IF swallow > 0
       THEN [c EXCEPT !.state = "conn_mwrite",
                      !.sbytes = swallow, !.write_and_go = "conn_swallow"]
       ELSE [c EXCEPT !.state = "conn_mwrite",
                      !.write_and_go = "conn_new_cmd"]}

\* The quiet commands are those with noreply set.
write_bin_response(c) ==
    {IF ~c.noreply \/ c.cmd = "get"
       THEN [c EXCEPT !.state = "conn_mwrite",
                      !.write_and_go = "conn_new_cmd"]
       ELSE [c EXCEPT !.state = "conn_new_cmd"]}

handle_unexpected_errorcode_bin(c, ret, swallow) ==
    CASE ret = "DISCONNECT" -> {conn_set_state(c, "conn_closing")}
      [] ret = "ENOTSUP"    -> write_bin_packet(c, 0)
      [] OTHER              -> write_bin_packet(c, swallow)

handle_binary_protocol_error(c) ==
    {[d EXCEPT !.write_and_go = "conn_closing"] : d \in write_bin_packet(c, 0)}

BinReplyResult(e) ==
    CASE e.ret = "SUCCESS" -> write_bin_response(e.c)
      [] e.ret = "MISS"    -> write_bin_packet(e.c, 0)
      [] OTHER             -> handle_unexpected_errorcode_bin(e.c, e.ret, 0)

BinReplies(E) == UNION {BinReplyResult(e) : e \in E}

=============================================================================
