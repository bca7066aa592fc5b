-------------------------- MODULE ConnReplyProofs --------------------------
(***************************************************************************)
(* Requests and their replies: the proofs of ConnServer's AnsweredOnce and *)
(* PipeErrorHolds, for every set of requests, every client and every       *)
(* limit.                                                                  *)
(*                                                                         *)
(* The argument is about the handlers.  Each starts from a request that is *)
(* not answered (Live) and ends in one of three ways (Handled): it has     *)
(* made the one reply, or none to a request that wants none (Told); it     *)
(* closes the connection (Dropped); or it waits for a data block           *)
(* (Reading).  In the ASCII protocol noreply is reset when a reply is made *)
(* or left out, so that none is lost later.  There is a lemma for each     *)
(* group of handlers of the two protocols, down to out_string() and        *)
(* write_bin_packet().  ReplyInv then follows the request through the      *)
(* state functions.                                                        *)
(***************************************************************************)
EXTENDS ConnServer, TLAPS

-----------------------------------------------------------------------------
(***************************************************************************)
(* The connection between two requests and inside a handler.               *)
(***************************************************************************)

\* The fields that replies are about.
ReplyFields ==
  {"state", "write_and_go", "protocol", "noreply", "pipe_state", "wants", "more",
   "legal", "replied", "coll_op", "coll_eitem", "coll_strkeys", "coll_getrim",
   "ascii_cmd"}

PipeStates == {"OFF", "ON"} \cup PipeErrors

\* What every place of a request has in common.
Base(d) ==
  /\ ReplyFields \subseteq DOMAIN d
  /\ d.write_and_go \in {"conn_new_cmd", "conn_swallow", "conn_closing"}
  /\ d.pipe_state \in PipeStates
  /\ d.protocol # "ascii" => d.pipe_state = "OFF"

\* A well-formed request that says that the pipeline goes on.
Silent(d) == d.more /\ d.legal

\* A request that is not answered: one that wants a reply has not lost it to
\* noreply, and one of a pipeline has noreply set and the pipeline started.
Live(d) ==
  /\ Base(d) /\ d.replied = 0
  /\ d.wants => ~d.noreply
  /\ Silent(d) => d.protocol # "binary" /\ d.noreply /\ d.pipe_state = "ON"

\* Its pipeline has not failed.
Fit(d) == Live(d) /\ d.pipe_state \notin PipeErrors

Line(d) == Fit(d) /\ d.protocol = "ascii"

Packet(d) == Fit(d) /\ d.protocol = "binary"

\* A line without noreply.
Asked(d) == Line(d) /\ ~d.noreply

\* The handler has made a reply, or the request wants none.  Only the error of
\* a pipeline is sent within the pipeline.
Told(d) ==
  /\ Base(d) /\ d.replied = 0
  /\ d.protocol # "binary" => ~d.noreply
  /\ \/ d.state \in {"conn_write", "conn_mwrite"}
     \/ d.state \in {"conn_new_cmd", "conn_swallow"} /\ ~d.wants
  /\ Silent(d) /\ d.state = "conn_write" => d.pipe_state \in PipeErrors

\* The handler closes the connection.
Dropped(d) == Base(d) /\ d.replied = 0 /\ d.state = "conn_closing"

Done(d) == Told(d) \/ Dropped(d)

\* What out_string() leaves, and SwallowAfter() starts from.
Short(d) == Done(d) /\ d.state # "conn_mwrite"

\* The handlers that reply with conn_mwrite, where noreply would be left set.
LoudOps == {"MOP_GET", "BOP_MGET", "BOP_SMGET", "MGET", "MGETS"}

\* The data block of the request is being read.
Reading(d) ==
  /\ Fit(d) /\ d.state = "conn_nread" /\ d.protocol \in {"ascii", "binary"}
  /\ d.protocol # "binary" =>
       /\ d.ascii_cmd => ~d.wants /\ ~d.noreply
       /\ d.noreply /\ (d.coll_eitem \/ d.coll_strkeys) =>
            /\ d.coll_op \notin LoudOps
            /\ d.coll_op \in BopInserts => ~d.coll_getrim

Handled(d) == Done(d) \/ Reading(d)

AllDone(S) == \A d \in S : Done(d)

AllShort(S) == \A d \in S : Short(d)

AllHandled(S) == \A d \in S : Handled(d)

\* The fields that Told and Fit look at are the same.
Same(d, e) ==
  ReplyFields \subseteq DOMAIN d =>
    /\ DOMAIN e = DOMAIN d
    /\ e.state = d.state /\ e.write_and_go = d.write_and_go /\ e.protocol = d.protocol
    /\ e.noreply = d.noreply /\ e.pipe_state = d.pipe_state /\ e.wants = d.wants
    /\ e.more = d.more /\ e.legal = d.legal /\ e.replied = d.replied

\* What the engine returns leaves the request as it was.
AllResults(E, d) == \A e \in E : Same(d, e.c)

-----------------------------------------------------------------------------
(***************************************************************************)
(* What is no part of replies.                                             *)
(***************************************************************************)

\* What leaves these fields alone leaves the request where it is.
LEMMA SameKeeps ==
  ASSUME NEW d, NEW e, Same(d, e)
  PROVE /\ Live(d) => Live(e)
        /\ Fit(d) => Fit(e)
        /\ Line(d) => Line(e)
        /\ Packet(d) => Packet(e)
        /\ Asked(d) => Asked(e)
        /\ Done(d) => Done(e)
        /\ Short(d) => Short(e)
<1>1. Base(d) => Base(e)
  BY Zenon DEF Same, Base
<1>2. Base(d) /\ Silent(e) => Silent(d)
  BY Zenon DEF Same, Silent, Base
<1>3. (Live(d) => Live(e)) /\ (Told(d) => Told(e)) /\ (Dropped(d) => Dropped(e))
  BY <1>1, <1>2, Zenon DEF Same, Live, Told, Dropped, Base
<1> QED BY <1>3, ZenonT(60) DEF Same, Fit, Line, Packet, Asked, Done, Short, Live, Told, Dropped,
           Base

\* So do two steps, one after the other.
LEMMA SameChain ==
  ASSUME NEW d, NEW e, NEW f, Same(d, e), Same(e, f)
  PROVE Same(d, f)
BY Zenon DEF Same

\* And so does no step.
LEMMA SameSelf == \A d : Same(d, d)
BY Zenon DEF Same

\* Assignments to the fields that say what the connection holds or waits for
\* are no part of replies.
LEMMA SamePlain ==
  ASSUME NEW d, NEW x, NEW y, NEW z
  PROVE /\ Same(d, Take(d, x, y)) /\ Same(d, Give(d, x, y))
        /\ Same(d, [d EXCEPT !.coll_resps = x])
        /\ Same(d, [d EXCEPT !.fatal = x])
        /\ Same(d, [d EXCEPT !.item = x])
        /\ Same(d, [d EXCEPT !.coll_eitem = x])
        /\ Same(d, [d EXCEPT !.coll_strkeys = x])
        /\ Same(d, [d EXCEPT !.coll_op = x])
        /\ Same(d, [d EXCEPT !.coll_getrim = x])
        /\ Same(d, [d EXCEPT !.coll_smgmode = x])
        /\ Same(d, [d EXCEPT !.ileft = x])
        /\ Same(d, [d EXCEPT !.pleft = x])
        /\ Same(d, [d EXCEPT !.suffixleft = x])
        /\ Same(d, [d EXCEPT !.write_and_free = x])
        /\ Same(d, [d EXCEPT !.rbytes = x])
        /\ Same(d, [d EXCEPT !.ascii_cmd = x])
        /\ Same(d, [d EXCEPT !.ewouldblock = x])
        /\ Same(d, [d EXCEPT !.waiters = x])
        /\ Same(d, [d EXCEPT !.current_io_wait = x])
        /\ Same(d, [d EXCEPT !.premature_io_complete = x])
<1>1. ASSUME NEW m PROVE Same(d, Take(d, x, m))
  BY Zenon DEF Take, Same, ReplyFields
<1>2. Same(d, Take(d, x, y)) /\ Same(d, Give(d, x, y))
  BY <1>1, Zenon DEF Give
<1> QED BY <1>2, Zenon DEF Same, ReplyFields

\* conn_coll_eitem_free() is no part of replies.
LEMMA SameFree ==
  ASSUME NEW d
  PROVE Same(d, FreeResps(d)) /\ Same(d, conn_coll_eitem_free(d))
<1>1. ASSUME NEW e PROVE Same(e, FreeResps(e))
  <2>1. Same(e, [Give(e, "resp", 1) EXCEPT !.coll_resps = FALSE])
    BY SamePlain, SameChain, Zenon
  <2> QED BY <2>1, SameSelf, Zenon DEF FreeResps
<1>2. /\ Same(d, [d EXCEPT !.fatal = TRUE])
      /\ Same(d, Give(d, "elem", 1)) /\ Same(d, Give(d, "block", 1))
  BY SamePlain, Zenon
<1>3. ASSUME NEW m, NEW n PROVE Same(d, Give(Give(d, "elem", m), "block", n))
  BY SamePlain, SameChain, Zenon
<1>4. /\ Same(d, FreeResps(Give(Give(d, "elem", d.coll_ecount), "block", 1)))
      /\ Same(d, FreeResps(Give(d, "elem", 1)))
  BY <1>1, <1>2, <1>3, SameChain, Zenon
<1>5. Same(d, conn_coll_eitem_free(d))
  BY <1>2, <1>3, <1>4, Zenon DEF conn_coll_eitem_free
<1> QED BY <1>1, <1>5, Zenon

\* Nor are the releases of reset_cmd_handler(), conn_cleanup() and the end
\* of conn_mwrite().
LEMMA SameRelease ==
  ASSUME NEW d
  PROVE /\ Same(d, ReleaseItem(d)) /\ Same(d, ReleaseEitem(d)) /\ Same(d, ReleaseKeys(d))
        /\ Same(d, ReleaseItemList(d)) /\ Same(d, ReleasePrefixList(d))
        /\ Same(d, ReleaseSuffixes(d)) /\ Same(d, ReleaseBuffer(d))
<1>1. /\ Same(d, [Give(d, "item", 1) EXCEPT !.item = FALSE])
      /\ Same(d, [Give(d, "keys", 1) EXCEPT !.coll_strkeys = FALSE])
      /\ Same(d, [Give(d, "item", d.ileft) EXCEPT !.ileft = 0])
      /\ Same(d, [Give(d, "prefix", d.pleft) EXCEPT !.pleft = 0])
      /\ Same(d, [Give(d, "suffix", d.suffixleft) EXCEPT !.suffixleft = 0])
      /\ Same(d, [Give(d, "wfree", 1) EXCEPT !.write_and_free = FALSE])
  BY SamePlain, SameChain, ZenonT(60)
<1>2. Same(d, [conn_coll_eitem_free(d) EXCEPT !.coll_eitem = FALSE])
  BY SamePlain, SameFree, SameChain, Zenon
<1> QED BY <1>1, <1>2, SameSelf, Zenon DEF ReleaseItem, ReleaseEitem, ReleaseKeys,
           ReleaseItemList, ReleasePrefixList, ReleaseSuffixes, ReleaseBuffer

\* The engine's calls, waitfor_io_complete() included, leave the request as
\* it was.
LEMMA SameEngine ==
  ASSUME NEW d
  PROVE AllResults(EngineRead(d), d) /\ AllResults(EngineWrite(d), d)
<1>1. AllResults(EngineRead(d), d)
  BY SameSelf, Zenon DEF EngineRead, AllResults
<1>2. Same(d, Blocked(d))
  <2>1. ASSUME NEW e PROVE Same(e, waitfor_io_complete(e))
    BY SamePlain, Zenon DEF waitfor_io_complete
  <2>2. Same(d, waitfor_io_complete([d EXCEPT !.waiters = @ + 1]))
    BY <2>1, SamePlain, SameChain, Zenon
  <2> QED BY <2>2, SamePlain, SameChain, Zenon DEF Blocked
<1>3. \A e \in [ret : {"SUCCESS"}, c : {Blocked(d)}] : Same(d, e.c)
  BY <1>2, Zenon
<1> QED BY <1>1, <1>3, Zenon DEF EngineWrite, AllResults

-----------------------------------------------------------------------------
(***************************************************************************)
(* Replies of the ASCII protocol.                                          *)
(***************************************************************************)

\* pipe_response_save() keeps the response of a request in a pipeline, or
\* makes the pipeline fail; the request stays unanswered, and keeps noreply.
LEMMA SavedLive ==
  ASSUME NEW d, Live(d), d.protocol = "ascii", NEW s, NEW e \in pipe_response_save(d, s)
  PROVE /\ Base(e) /\ e.replied = 0 /\ e.protocol = "ascii"
        /\ e.noreply = d.noreply /\ e.wants = d.wants
        /\ Silent(e) => d.noreply /\ e.pipe_state # "OFF"
<1> DEFINE Saved(f) == /\ Base(f) /\ f.replied = 0 /\ f.protocol = "ascii"
                       /\ f.noreply = d.noreply /\ f.wants = d.wants
                       /\ Silent(f) => d.noreply /\ f.pipe_state # "OFF"
<1>1. /\ Base(d) /\ d.replied = 0
      /\ Silent(d) => d.noreply /\ d.pipe_state = "ON"
  BY Zenon DEF Live
<1>2. ASSUME d.pipe_state # "ON" PROVE Saved(pipe_state_clear(d))
  BY <1>1, <1>2, Zenon DEF pipe_state_clear, Base, ReplyFields, PipeStates, Silent
<1>3. ASSUME d.pipe_state = "ON" PROVE Saved([d EXCEPT !.pipe_count = @ + 1])
  BY <1>1, <1>3, Zenon DEF Base, ReplyFields, PipeStates, Silent
<1>4. ASSUME NEW f, Saved(f), NEW x \in PipeErrors
      PROVE Saved([f EXCEPT !.pipe_state = x])
  BY <1>4, Zenon DEF Base, ReplyFields, PipeStates, Silent, PipeErrors
<1>5. ASSUME d.pipe_state = "ON" PROVE Saved(d)
  BY <1>1, <1>5, Zenon
<1>6. {"ERR_BAD", "ERR_CFULL", "ERR_MFULL"} \subseteq PipeErrors
  BY Zenon DEF PipeErrors
<1> HIDE DEF Saved
<1>7. ASSUME d.pipe_state # "ON" PROVE Saved(e)
  BY <1>2, <1>7, Zenon DEF pipe_response_save
<1>8. ASSUME d.pipe_state = "ON" PROVE Saved(e)
  <2> DEFINE t == [d EXCEPT !.pipe_count = @ + 1]
  <2>1. Saved(t) /\ Saved([t EXCEPT !.pipe_state = "ERR_BAD"])
        /\ Saved([t EXCEPT !.pipe_state = "ERR_CFULL"])
        /\ Saved([d EXCEPT !.pipe_state = "ERR_MFULL"])
    BY <1>3, <1>4, <1>5, <1>6, <1>8, Zenon
  <2> QED BY <1>8, <2>1, Zenon DEF pipe_response_save
<1>9. Saved(e)
  BY <1>7, <1>8, Zenon
<1> QED BY <1>9, Zenon DEF Saved

\* out_string() makes the reply, keeps it for the end of the pipeline or,
\* with noreply, leaves it out; noreply is reset in all cases.  Within a
\* pipeline it sends the error that stops the pipeline and nothing else.
LEMMA OutStringShort ==
  ASSUME NEW d, Live(d), d.protocol = "ascii", NEW s
  PROVE AllShort(out_string(d, s))
<1>1. ASSUME NEW e, Base(e), e.replied = 0, e.protocol = "ascii",
             e.noreply = d.noreply, e.wants = d.wants,
             Silent(e) => d.noreply /\ e.pipe_state # "OFF"
      PROVE Short(OutString(e, d.noreply))
  <2>0. d.wants => ~d.noreply
    BY Zenon DEF Live
  <2>1. CASE e.pipe_state \in PipeErrors
    <3> DEFINE f == [e EXCEPT !.noreply = FALSE]
    <3>1. /\ Base(f) /\ f.replied = 0 /\ f.protocol = "ascii" /\ ~f.noreply
          /\ f.pipe_state \in PipeErrors /\ f.pipe_state # "OFF" /\ f.pipe_state # "ON"
          /\ Silent(f) => d.noreply
      BY <1>1, <2>1, Zenon DEF Base, ReplyFields, Silent, PipeErrors
    <3>2. OutString(e, d.noreply) = pipe_response_done(f, ~d.noreply)
      BY <2>1, <3>1, Zenon DEF OutString
    <3> HIDE DEF f
    <3>3. CASE d.noreply
      <4>1. pipe_response_done(f, ~d.noreply) = Reply(f)
        BY <3>1, <3>3, Zenon DEF pipe_response_done
      <4>2. Short(Reply(f))
        BY <3>1, Zenon DEF Reply, Short, Done, Told, Base, ReplyFields, Silent
      <4> QED BY <3>2, <4>1, <4>2, Zenon
    <3>4. CASE ~d.noreply
      <4>1. pipe_response_done(f, ~d.noreply) = Reply(pipe_state_clear(f))
        BY <3>1, <3>4, Zenon DEF pipe_response_done
      <4>2. Short(Reply(pipe_state_clear(f)))
        BY <3>1, <3>4, Zenon DEF Reply, pipe_state_clear, Short, Done, Told, Base,
           ReplyFields, Silent, PipeStates
      <4> QED BY <3>2, <4>1, <4>2, Zenon
    <3> QED BY <3>3, <3>4, Zenon
  <2>2. CASE e.pipe_state \notin PipeErrors /\ e.noreply
    <3> DEFINE f == [e EXCEPT !.noreply = FALSE, !.state = "conn_new_cmd",
                              !.fatal = @ \/ e.ewouldblock, !.ewouldblock = FALSE]
    <3>1. OutString(e, d.noreply) = f
      BY <2>2, Zenon DEF OutString
    <3>2. Short(f)
      BY <1>1, <2>0, <2>2, Zenon DEF Short, Done, Told, Base, ReplyFields
    <3> QED BY <3>1, <3>2, Zenon
  <2>3. CASE e.pipe_state \notin PipeErrors /\ ~e.noreply
    <3>1. ~Silent(e)
      BY <1>1, <2>3, Zenon
    <3>2. \/ OutString(e, d.noreply) = Reply(pipe_state_clear(e))
          \/ OutString(e, d.noreply) = Reply(e)
      BY <1>1, <2>3, Zenon DEF OutString, pipe_response_done
    <3>3. /\ Short(Reply(pipe_state_clear(e)))
          /\ Short(Reply(e))
      BY <1>1, <2>3, <3>1, Zenon DEF Reply, pipe_state_clear, Short, Done, Told, Base,
         ReplyFields, Silent, PipeStates
    <3> QED BY <3>2, <3>3, Zenon
  <2> QED BY <2>1, <2>2, <2>3, Zenon
<1>2. CASE d.pipe_state # "OFF"
  <2>1. \A e \in pipe_response_save(d, s) : Short(OutString(e, d.noreply))
    BY <1>1, SavedLive, Zenon
  <2> QED BY <1>2, <2>1, Zenon DEF out_string, AllShort
<1>3. CASE d.pipe_state = "OFF"
  <2>1. Short(OutString(d, d.noreply))
    BY <1>1, <1>3, Zenon DEF Live
  <2> QED BY <1>3, <2>1, Zenon DEF out_string, AllShort
<1> QED BY <1>2, <1>3, Zenon

\* A handler may close the connection.
LEMMA ClosingDropped ==
  ASSUME NEW d, Live(d)
  PROVE Short(conn_set_state(d, "conn_closing"))
BY Zenon DEF conn_set_state, Short, Done, Dropped, Live, Base, ReplyFields

\* The reply to an error of the engine, DISCONNECT included.
LEMMA ErrorShort ==
  ASSUME NEW d, Live(d), d.protocol = "ascii", NEW ret
  PROVE AllShort(handle_unexpected_errorcode_ascii(d, ret))
<1>1. /\ AllShort(out_string(d, "ok")) /\ AllShort(out_string(d, "severe"))
      /\ AllShort({conn_set_state(d, "conn_closing")})
  BY OutStringShort, ClosingDropped, Zenon DEF AllShort
<1> QED BY <1>1, Zenon DEF handle_unexpected_errorcode_ascii

\* A short reply is a reply.
LEMMA ShortDone ==
  ASSUME NEW S
  PROVE AllShort(S) => AllDone(S) /\ AllHandled(S)
BY Zenon DEF AllShort, AllDone, AllHandled, Short, Handled

\* A request that is answered is handled.
LEMMA DoneHandled ==
  ASSUME NEW S
  PROVE AllDone(S) => AllHandled(S)
BY Zenon DEF AllDone, AllHandled, Handled

\* Handlers that branch on a result of the engine.
LEMMA UnionDone ==
  ASSUME NEW C, NEW D
  PROVE /\ AllShort(C) /\ AllShort(D) => AllShort(C \cup D)
        /\ AllDone(C) /\ AllDone(D) => AllDone(C \cup D)
        /\ AllHandled(C) /\ AllHandled(D) => AllHandled(C \cup D)
BY Zenon DEF AllShort, AllDone, AllHandled

\* The switch on the result of the engine that ends the ASCII handlers.
LEMMA RepliesShort ==
  ASSUME NEW d, Line(d), NEW E, AllResults(E, d)
  PROVE /\ \A e \in E : AllShort(ReplyResult(e))
        /\ AllShort(Replies(E))
<1>1. ASSUME NEW e \in E PROVE AllShort(ReplyResult(e))
  <2>1. Line(e.c)
    BY SameKeeps, Zenon DEF AllResults
  <2>2. Live(e.c) /\ e.c.protocol = "ascii"
    BY <2>1, Zenon DEF Line, Fit
  <2> QED BY <2>2, OutStringShort, ErrorShort, Zenon DEF ReplyResult
<1> QED BY <1>1, Zenon DEF Replies, AllShort

\* Swallowing a data block after the reply: conn_swallow comes in the place
\* of conn_new_cmd.
LEMMA SwallowShort ==
  ASSUME NEW d, Short(d), NEW n
  PROVE Short(SwallowAfter(d, n))
<1>1. CASE d.state = "conn_closing"
  BY <1>1, Zenon DEF SwallowAfter
<1>2. CASE d.state = "conn_write"
  <2>1. SwallowAfter(d, n) = [d EXCEPT !.sbytes = n, !.write_and_go = "conn_swallow"]
    BY <1>2, Zenon DEF SwallowAfter
  <2>2. Told(d)
    BY <1>2, Zenon DEF Short, Done, Dropped
  <2>3. Short([d EXCEPT !.sbytes = n, !.write_and_go = "conn_swallow"])
    BY <1>2, <2>2, Zenon DEF Short, Done, Told, Base, ReplyFields, Silent
  <2> QED BY <2>1, <2>3, Zenon
<1>3. CASE d.state # "conn_closing" /\ d.state # "conn_write"
  <2>1. SwallowAfter(d, n) = [d EXCEPT !.sbytes = n, !.state = "conn_swallow"]
    BY <1>3, Zenon DEF SwallowAfter
  <2>2. Told(d) /\ ~d.wants
    BY <1>3, Zenon DEF Short, Done, Dropped, Told
  <2>3. Short([d EXCEPT !.sbytes = n, !.state = "conn_swallow"])
    BY <2>2, Zenon DEF Short, Done, Told, Base, ReplyFields, Silent
  <2> QED BY <2>1, <2>3, Zenon
<1> QED BY <1>1, <1>2, <1>3, Zenon

\* The handlers that call the engine and reply with out_string().
LEMMA EngineShort ==
  ASSUME NEW d, Line(d)
  PROVE /\ AllShort(Write(d)) /\ AllShort(Read(d)) /\ AllShort(Answer(d))
        /\ AllShort(out_string(d, "ok")) /\ AllShort(out_string(d, "severe"))
        /\ AllShort(BadChunk(d))
        /\ \A ret : AllShort(handle_unexpected_errorcode_ascii(d, ret))
        /\ \A n, errors : AllShort(Refused(d, n, errors))
<1>1. AllShort(Write(d)) /\ AllShort(Read(d))
  BY SameEngine, RepliesShort, Zenon DEF Write, Read
<1>2. Live(d) /\ d.protocol = "ascii"
  BY Zenon DEF Line, Fit
<1>3. /\ AllShort(out_string(d, "ok")) /\ AllShort(out_string(d, "severe"))
      /\ \A ret : AllShort(handle_unexpected_errorcode_ascii(d, ret))
  BY <1>2, OutStringShort, ErrorShort, Zenon
<1>4. ASSUME NEW n, NEW errors PROVE AllShort(Refused(d, n, errors))
  BY <1>3, SwallowShort, Zenon DEF Refused, AllShort
<1> QED BY <1>1, <1>3, <1>4, UnionDone, Zenon DEF Answer, BadChunk

-----------------------------------------------------------------------------
(***************************************************************************)
(* Receiving a data block, and replies with elements.                      *)
(***************************************************************************)

\* The handlers that allocate for a data block: it is read, or the refusal
\* is answered.
LEMMA NreadHandled ==
  ASSUME NEW d, Line(d), ~d.ascii_cmd, NEW op,
         d.noreply => op \notin LoudOps /\ (op \in BopInserts => ~d.coll_getrim)
  PROVE /\ AllHandled(NreadElem(d, op)) /\ AllHandled(NreadValue(d, op))
        /\ AllHandled(process_mop_prepare_nread_fields(d, op))
        /\ AllHandled(process_prepare_nread_keys(d, op))
        /\ AllHandled(process_bop_prepare_nread_keys(d, op))
<1> DEFINE Ok(e) == /\ Line(e) /\ ~e.ascii_cmd
                    /\ e.noreply => op \notin LoudOps /\ (op \in BopInserts => ~e.coll_getrim)
<1>1. ASSUME NEW e, Ok(e), NEW r, NEW n PROVE Ok(Take(e, r, n))
  <2>1. Line(Take(e, r, n))
    BY <1>1, SamePlain, SameKeeps, Zenon
  <2>2. ReplyFields \subseteq DOMAIN e
    BY <1>1, Zenon DEF Line, Fit, Live, Base
  <2> QED BY <1>1, <2>1, <2>2, Zenon DEF Take, ReplyFields
<1>2. ASSUME NEW e, Ok(e)
      PROVE /\ Reading(Nread([e EXCEPT !.coll_eitem = TRUE, !.coll_ecount = 1, !.coll_op = op]))
            /\ Reading(Nread([e EXCEPT !.coll_strkeys = TRUE, !.coll_ecount = 1, !.coll_op = op]))
            /\ Reading(Nread([e EXCEPT !.coll_strkeys = TRUE, !.coll_op = op]))
            /\ Reading(Nread([e EXCEPT !.coll_strkeys = TRUE, !.coll_eitem = TRUE,
                                       !.coll_ecount = 0, !.coll_op = op]))
  BY <1>2, ZenonT(60) DEF Nread, Reading, Line, Fit, Live, Base, ReplyFields, Silent
<1>3. Ok(d) /\ \A n, errors : AllHandled(Refused(d, n, errors))
  BY EngineShort, ShortDone, Zenon
<1> HIDE DEF Ok
<1>4. ASSUME NEW e, Reading(e), NEW n, NEW errors
      PROVE AllHandled({e} \cup Refused(d, n, errors))
  BY <1>3, <1>4, Zenon DEF AllHandled, Handled
<1>5. AllHandled(NreadElem(d, op)) /\ AllHandled(NreadValue(d, op))
  BY <1>1, <1>2, <1>3, <1>4, Zenon DEF NreadElem, NreadValue
<1>6. /\ AllHandled(process_mop_prepare_nread_fields(d, op))
      /\ AllHandled(process_prepare_nread_keys(d, op))
      /\ AllHandled(process_bop_prepare_nread_keys(d, op))
  BY <1>1, <1>2, <1>3, <1>4, Zenon DEF process_mop_prepare_nread_fields,
     process_prepare_nread_keys, process_bop_prepare_nread_keys
<1> QED BY <1>5, <1>6, Zenon

\* The handlers that begin the reading of an element or a value.
LEMMA PrepareHandled ==
  ASSUME NEW d, Line(d), ~d.ascii_cmd
  PROVE /\ AllHandled(process_lop_prepare_nread(d))
        /\ \A op \in {"SOP_INSERT", "SOP_DELETE", "SOP_EXIST"} :
             AllHandled(process_sop_prepare_nread(d, op))
        /\ \A op \in {"MOP_INSERT", "MOP_UPDATE"} :
             AllHandled(process_mop_prepare_nread(d, op))
        /\ AllHandled(process_mop_prepare_nread_fields(d, "MOP_DELETE"))
        /\ AllHandled(process_bop_update_prepare_nread(d))
        /\ (d.noreply => ~d.coll_getrim) => AllHandled(process_bop_prepare_nread(d, "BOP_INSERT"))
<1>1. \A op \in {"LOP_INSERT", "SOP_INSERT", "SOP_DELETE", "SOP_EXIST", "MOP_INSERT",
                 "MOP_UPDATE", "MOP_DELETE", "BOP_UPDATE"} :
         op \notin LoudOps /\ op \notin BopInserts
  BY Zenon DEF LoudOps, BopInserts
<1>2. \A op \in {"LOP_INSERT", "SOP_INSERT", "SOP_DELETE", "SOP_EXIST", "MOP_INSERT",
                 "MOP_UPDATE", "MOP_DELETE", "BOP_UPDATE"} :
         /\ AllHandled(NreadElem(d, op)) /\ AllHandled(NreadValue(d, op))
         /\ AllHandled(process_mop_prepare_nread_fields(d, op))
  BY <1>1, NreadHandled, Zenon
<1>3. "BOP_INSERT" \notin LoudOps
  BY Zenon DEF LoudOps
<1>4. (d.noreply => ~d.coll_getrim) => AllHandled(NreadElem(d, "BOP_INSERT"))
  BY <1>3, NreadHandled, Zenon
<1> QED BY <1>2, <1>4, Zenon DEF process_lop_prepare_nread, process_sop_prepare_nread,
           process_mop_prepare_nread, process_bop_prepare_nread,
           process_bop_update_prepare_nread

\* A response of several parts is sent for a line without noreply only.
LEMMA MwriteDone ==
  ASSUME NEW d, Asked(d), NEW n, NEW op
  PROVE /\ Done(conn_set_state(d, "conn_mwrite"))
        /\ Done([d EXCEPT !.coll_eitem = TRUE, !.coll_ecount = n, !.coll_resps = TRUE,
                          !.coll_op = op, !.state = "conn_mwrite"])
        /\ Done([d EXCEPT !.coll_eitem = TRUE, !.coll_ecount = 1, !.coll_resps = TRUE,
                          !.state = "conn_mwrite"])
        /\ Done([d EXCEPT !.coll_ecount = n, !.state = "conn_mwrite"])
        /\ Done([d EXCEPT !.ileft = n, !.write_and_free = TRUE, !.state = "conn_mwrite"])
        /\ Done([d EXCEPT !.pleft = n, !.write_and_free = TRUE, !.state = "conn_mwrite"])
        /\ Done([Reply(d) EXCEPT !.write_and_free = TRUE])
<1>1. ~Silent(d) /\ Base(d) /\ d.replied = 0 /\ ~d.noreply
  BY Zenon DEF Asked, Line, Fit, Live
<1> QED BY <1>1, Zenon DEF conn_set_state, Reply, Done, Told, Base, ReplyFields, Silent

\* Responses with elements.
LEMMA ElemsDone ==
  ASSUME NEW d, Asked(d), NEW op, NEW n
  PROVE AllDone(ElemsResponse(d, op, n)) /\ AllDone(out_bop_trim_response(d))
<1>1. \A r, m : Asked(Take(d, r, m)) /\ Asked(Give(d, r, m))
  BY SamePlain, SameKeeps, Zenon
<1>2. /\ AllDone({KeepElems(d, op, n)})
      /\ AllDone({[Take(d, "resp", 1) EXCEPT !.coll_eitem = TRUE, !.coll_ecount = 1,
                                !.coll_resps = TRUE, !.state = "conn_mwrite"]})
  <2>1. Asked(Take(d, "resp", 1))
    BY <1>1, Zenon
  <2>2. /\ Done([Take(d, "resp", 1) EXCEPT !.coll_eitem = TRUE, !.coll_ecount = n,
                    !.coll_resps = TRUE, !.coll_op = op, !.state = "conn_mwrite"])
        /\ Done([Take(d, "resp", 1) EXCEPT !.coll_eitem = TRUE, !.coll_ecount = 1,
                    !.coll_resps = TRUE, !.state = "conn_mwrite"])
    BY <2>1, MwriteDone, Zenon
  <2> QED BY <2>2, Zenon DEF KeepElems, AllDone
<1>3. Asked(GiveElems(d, n))
  <2>1. Same(d, GiveElems(d, n))
    BY SamePlain, SameChain, Zenon DEF GiveElems
  <2> QED BY <2>1, SameKeeps, Zenon
<1>4. AllDone(out_string(GiveElems(d, n), "severe"))
      /\ AllDone(out_string(Give(d, "elem", 1), "severe"))
  BY <1>1, <1>3, EngineShort, ShortDone, Zenon DEF Asked
<1> QED BY <1>2, <1>4, UnionDone, Zenon DEF ElemsResponse, out_bop_trim_response

\* The handlers that reply with elements, or with an error.
LEMMA GetElemsDone ==
  ASSUME NEW d, Asked(d)
  PROVE /\ AllDone(process_lop_get(d)) /\ AllDone(process_sop_get(d))
        /\ AllDone(process_bop_get(d)) /\ AllDone(process_bop_pwg(d))
        /\ AllDone(process_bop_gbp(d))
        /\ AllDone(WithElems(EngineWrite(d), out_mop_get_response))
<1>1. AllResults(EngineRead(d), d) /\ AllResults(EngineWrite(d), d)
  BY SameEngine, Zenon
<1>2. ASSUME NEW E, AllResults(E, d), NEW e \in E
      PROVE /\ AllDone(ReplyResult(e))
            /\ \A op, n : AllDone(ElemsResponse(TakeElems(e.c, n), op, n))
  <2>1. AllDone(ReplyResult(e))
    BY <1>2, RepliesShort, ShortDone, Zenon DEF Asked
  <2>2. ASSUME NEW op, NEW n PROVE AllDone(ElemsResponse(TakeElems(e.c, n), op, n))
    <3>1. Asked(e.c)
      BY <1>2, SameKeeps, Zenon DEF AllResults
    <3>2. Same(e.c, TakeElems(e.c, n))
      BY SamePlain, SameChain, Zenon DEF TakeElems
    <3>3. Asked(TakeElems(e.c, n))
      BY <3>1, <3>2, SameKeeps, Zenon
    <3> QED BY <3>3, ElemsDone, Zenon
  <2> QED BY <2>1, <2>2, Zenon
<1>3. ASSUME NEW E, AllResults(E, d)
      PROVE /\ AllDone(WithElems(E, out_lop_get_response))
            /\ AllDone(WithElems(E, out_sop_get_response))
            /\ AllDone(WithElems(E, out_mop_get_response))
            /\ AllDone(WithElems(E, out_bop_get_response))
            /\ AllDone(WithElems(E, out_bop_pwg_response))
            /\ AllDone(WithElems(E, out_bop_gbp_response))
  <2>1. \A e \in E : /\ AllDone(ReplyResult(e))
                     /\ \A op, n : AllDone(ElemsResponse(TakeElems(e.c, n), op, n))
    BY <1>2, <1>3, Zenon
  <2>2. AllDone(WithElems(E, out_lop_get_response))
    BY <2>1 DEF WithElems, AllDone, out_lop_get_response
  <2>3. AllDone(WithElems(E, out_sop_get_response))
    BY <2>1 DEF WithElems, AllDone, out_sop_get_response
  <2>4. AllDone(WithElems(E, out_mop_get_response))
    BY <2>1 DEF WithElems, AllDone, out_mop_get_response
  <2>5. AllDone(WithElems(E, out_bop_get_response))
    BY <2>1 DEF WithElems, AllDone, out_bop_get_response
  <2>6. AllDone(WithElems(E, out_bop_pwg_response))
    BY <2>1 DEF WithElems, AllDone, out_bop_pwg_response
  <2>7. AllDone(WithElems(E, out_bop_gbp_response))
    BY <2>1 DEF WithElems, AllDone, out_bop_gbp_response
  <2> QED BY <2>2, <2>3, <2>4, <2>5, <2>6, <2>7, Zenon
<1> QED BY <1>1, <1>3, Zenon DEF process_lop_get, process_sop_get, process_bop_get,
           process_bop_pwg, process_bop_gbp

-----------------------------------------------------------------------------
(***************************************************************************)
(* A data block has been received.                                         *)
(***************************************************************************)

\* The end of the handlers that drop their element, value or keys.
LEMMA DropDone ==
  ASSUME NEW C, AllDone(C), NEW r
  PROVE /\ AllDone(DropEitem(r, C)) /\ AllDone(FreeKeys(C))
        /\ AllDone(FreeKeysAndResult(C))
<1>1. ASSUME NEW D, AllDone(D), NEW x PROVE AllDone(DropEitem(x, D))
  <2>1. ASSUME NEW e \in D PROVE Done([Give(e, x, 1) EXCEPT !.coll_eitem = FALSE])
    <3>1. Same(e, [Give(e, x, 1) EXCEPT !.coll_eitem = FALSE])
      BY SamePlain, SameChain, Zenon
    <3>2. Done(e)
      BY <1>1, Zenon DEF AllDone
    <3> QED BY <3>1, <3>2, SameKeeps, Zenon
  <2> QED BY <2>1, Zenon DEF DropEitem, AllDone
<1>2. ASSUME NEW D, AllDone(D) PROVE AllDone(FreeKeys(D))
  BY <1>2, SameRelease, SameKeeps, Zenon DEF FreeKeys, AllDone
<1> QED BY <1>1, <1>2, Zenon DEF FreeKeysAndResult

\* The end of an insert, an update or an upsert whose element has been read.
LEMMA ElemCompleteDone ==
  ASSUME NEW d, Line(d)
  PROVE /\ AllDone(ElemInsertComplete(d)) /\ AllDone(process_sop_delete_complete(d))
        /\ AllDone(process_sop_exist_complete(d))
        /\ AllDone(process_mop_update_complete(d))
        /\ AllDone(process_bop_update_complete(d))
        /\ AllDone(process_mop_delete_complete(d))
        /\ AllDone(complete_update(d))
        /\ ~d.noreply => AllDone(process_mop_get_complete(d))
<1>1. /\ AllDone(Write(d)) /\ AllDone(Read(d)) /\ AllDone(BadChunk(d))
      /\ AllDone(out_string(d, "severe"))
  BY EngineShort, ShortDone, Zenon
<1>2. AllDone(BadChunk(d) \cup Write(d)) /\ AllDone(BadChunk(d) \cup Read(d))
  BY <1>1, UnionDone, Zenon
<1>3. /\ AllDone(ElemInsertComplete(d)) /\ AllDone(process_sop_delete_complete(d))
      /\ AllDone(process_sop_exist_complete(d))
      /\ AllDone(process_mop_update_complete(d))
      /\ AllDone(process_bop_update_complete(d))
  BY <1>1, <1>2, DropDone, Zenon DEF ElemInsertComplete, process_sop_delete_complete,
     process_sop_exist_complete, process_mop_update_complete, process_bop_update_complete
<1>4. AllDone(IF d.coll_strkeys THEN out_string(d, "severe") ELSE {})
  BY <1>1, Zenon DEF AllDone
<1>5. AllDone(process_mop_delete_complete(d))
  BY <1>1, <1>4, UnionDone, DropDone, Zenon DEF process_mop_delete_complete
<1>6. ASSUME ~d.noreply PROVE AllDone(process_mop_get_complete(d))
  <2>1. Asked(d)
    BY <1>6, Zenon DEF Asked
  <2> QED BY <1>4, <2>1, GetElemsDone, UnionDone, DropDone, Zenon DEF process_mop_get_complete
<1>7. AllDone(complete_update(d))
  BY <1>1, SameRelease, SameKeeps, Zenon DEF complete_update, AllDone
<1> QED BY <1>3, <1>5, <1>6, <1>7, Zenon

\* process_bop_insert_complete(): the element that the insert trimmed is in
\* the reply only when getrim was asked for, which goes with no noreply.
LEMMA BopInsertDone ==
  ASSUME NEW c0, Line(c0), c0.noreply => ~c0.coll_getrim
  PROVE AllDone(process_bop_insert_complete(c0))
<1> DEFINE d == [Give(c0, "elem", 1) EXCEPT !.coll_eitem = FALSE]
<1>1. Same(c0, d)
  BY SamePlain, SameChain, Zenon
<1>2. Line(d)
  BY <1>1, SameKeeps, Zenon
<1>3. ~c0.noreply => Asked(d)
  BY <1>1, SameKeeps, Zenon DEF Asked
<1> HIDE DEF d
<1>4. AllDone(BadChunk(d)) /\ AllDone(Write(d)) /\ AllResults(EngineWrite(d), d)
  BY <1>2, EngineShort, ShortDone, SameEngine, Zenon
<1>5. ASSUME NEW e \in EngineWrite(d), c0.coll_getrim
      PROVE AllDone(out_bop_trim_response(Take(e.c, "elem", 1)))
  <2>1. Asked(d)
    BY <1>3, <1>5, Zenon
  <2>2. Same(d, e.c)
    BY <1>4, Zenon DEF AllResults
  <2>3. Same(d, Take(e.c, "elem", 1))
    BY <2>2, SamePlain, SameChain, Zenon
  <2> QED BY <2>1, <2>3, SameKeeps, ElemsDone, Zenon
<1>6. AllDone(UNION {out_bop_trim_response(Take(e.c, "elem", 1)) :
                 e \in {x \in EngineWrite(d) : c0.coll_getrim /\ x.ret = "SUCCESS"}})
  BY <1>5, Zenon DEF AllDone
<1> QED BY <1>4, <1>6, UnionDone, Zenon DEF process_bop_insert_complete, d

\* process_bop_mget_complete() and process_bop_smget_complete() answer with
\* conn_mwrite: their lines have no noreply.
LEMMA BopKeysDone ==
  ASSUME NEW d, Asked(d)
  PROVE /\ AllDone(process_bop_mget_complete(d))
        /\ AllDone(process_bop_smget_complete(d))
<1>1. AllDone(UNION {handle_unexpected_errorcode_ascii(d, e) : e \in EngineErrors})
  BY EngineShort, ShortDone, Zenon DEF AllDone, Asked
<1>2. AllDone(out_string(d, "ok")) /\ AllDone(out_string(d, "severe"))
  BY EngineShort, ShortDone, Zenon DEF Asked
<1>3. ASSUME NEW n
      PROVE Asked(process_bop_mget_single(d, n)) /\ Asked(Take(d, "elem", n))
  <2>1. Same(d, process_bop_mget_single(d, n)) /\ Same(d, Take(d, "elem", n))
    BY SamePlain, SameChain, Zenon DEF process_bop_mget_single
  <2> QED BY <2>1, SameKeeps, Zenon
<1>4. ASSUME NEW n
      PROVE /\ Done([process_bop_mget_single(d, n) EXCEPT !.coll_ecount = n,
                                                          !.state = "conn_mwrite"])
            /\ Done([Take(d, "elem", n) EXCEPT !.coll_ecount = n, !.state = "conn_mwrite"])
  BY <1>3, MwriteDone, Zenon
<1>5. AllDone(process_bop_mget_complete(d))
  <2>1. AllDone({[process_bop_mget_single(d, n) EXCEPT !.coll_ecount = n,
                    !.state = "conn_mwrite"] : n \in 0 .. MaxElems})
    BY <1>4, Zenon DEF AllDone
  <2> QED BY <1>1, <2>1, UnionDone, DropDone, Zenon DEF process_bop_mget_complete
<1>6. ASSUME NEW n PROVE AllDone(SmgetResponse(d, n))
  <2>1. AllDone({[Take(d, "elem", n) EXCEPT !.coll_ecount = n, !.state = "conn_mwrite"]})
    BY <1>4, Zenon DEF AllDone
  <2> QED BY <1>2, <2>1, UnionDone, Zenon DEF SmgetResponse
<1>7. /\ AllDone(UNION {out_bop_smget_response(d, n) : n \in 0 .. MaxElems})
      /\ AllDone(UNION {out_bop_smget_old_response(d, n) : n \in 0 .. MaxElems})
  BY <1>6, Zenon DEF AllDone, out_bop_smget_response, out_bop_smget_old_response
<1>8. AllDone(FreeKeysAndResult(out_string(d, "ok") \cup
             UNION {handle_unexpected_errorcode_ascii(d, e) : e \in EngineErrors}))
  BY <1>1, <1>2, UnionDone, DropDone, Zenon
<1>9. AllDone(process_bop_smget_complete(d))
  <2>1. /\ AllDone(SmgetComplete(d, out_bop_smget_response))
        /\ AllDone(SmgetComplete(d, out_bop_smget_old_response))
    BY <1>7, <1>8, Zenon DEF SmgetComplete, AllDone
  <2> QED BY <2>1, Zenon DEF process_bop_smget_complete, process_bop_smget_complete_old
<1> QED BY <1>5, <1>9, Zenon

\* The gets answer with the items found.
LEMMA GetDone ==
  ASSUME NEW d, Asked(d), NEW cas
  PROVE AllDone(process_get_command(d, cas)) /\ AllDone(process_mget_complete(d, cas))
<1>1. ASSUME NEW e, NEW n PROVE Same(e, get_suffix_buffer(e, n))
  BY SamePlain, SameChain, Zenon DEF get_suffix_buffer
<1>2. ASSUME NEW n PROVE Asked(process_get_single(d, cas, n))
  <2>1. Same(d, get_suffix_buffer(Take(d, "item", n), n * Suffixes(cas)))
    BY <1>1, SamePlain, SameChain, Zenon
  <2>2. Same(d, process_get_single(d, cas, n))
    BY <2>1, SamePlain, SameChain, Zenon DEF process_get_single
  <2> QED BY <2>2, SameKeeps, Zenon
<1>3. ASSUME NEW e, Asked(e)
      PROVE AllDone(GetFailure(e, cas)) /\ Done(conn_set_state(e, "conn_mwrite"))
  <2>1. \A n : Line(get_suffix_buffer(e, n))
    BY <1>1, <1>3, SameKeeps, Zenon DEF Asked
  <2>2. \A n : AllDone(out_string(get_suffix_buffer(e, n), "severe"))
    BY <2>1, EngineShort, ShortDone, Zenon
  <2> QED BY <1>3, <2>2, MwriteDone, Zenon DEF GetFailure, AllDone
<1>4. AllDone(FreeKeys(BadChunk(d)))
  BY EngineShort, ShortDone, DropDone, Zenon DEF Asked
<1>5. ASSUME NEW n
      PROVE LET e == process_get_single(d, cas, n)
            IN /\ AllDone({conn_set_state(e, "conn_mwrite")} \cup GetFailure(e, cas))
               /\ AllDone({conn_set_state(e, "conn_mwrite")} \cup FreeKeys(GetFailure(e, cas)))
  BY <1>2, <1>3, DropDone, Zenon DEF AllDone
<1>6. AllDone(process_get_command(d, cas))
  BY <1>5, Zenon DEF process_get_command, AllDone
<1>7. AllDone(process_mget_complete(d, cas))
  <2>1. AllDone(UNION {LET e == process_get_single(d, cas, n)
           IN {conn_set_state(e, "conn_mwrite")} \cup FreeKeys(GetFailure(e, cas))
           : n \in 0 .. MaxElems})
    BY <1>5, Zenon DEF AllDone
  <2> QED BY <1>4, <2>1, Zenon DEF process_mget_complete, AllDone
<1> QED BY <1>6, <1>7, Zenon

\* The answers that go out of a buffer, and those of extensions, whose
\* requests the model does not count as wanting a reply.
LEMMA BufferDone ==
  ASSUME NEW d, Asked(d)
  PROVE /\ Done(write_and_free(d))
        /\ ~d.wants => AllDone(RunExtension(d))
<1>1. Asked(Take(d, "wfree", 1))
  BY SamePlain, SameKeeps, Zenon
<1>2. Done(write_and_free(d))
  BY <1>1, MwriteDone, Zenon DEF write_and_free
<1>3. ASSUME ~d.wants PROVE Done(conn_set_state(d, "conn_new_cmd"))
  BY <1>3, Zenon DEF conn_set_state, Done, Told, Asked, Line, Fit, Live, Base, ReplyFields, Silent
<1>4. Done(conn_set_state(d, "conn_closing"))
  BY ClosingDropped, Zenon DEF Asked, Line, Fit, Short
<1> QED BY <1>2, <1>3, <1>4, Zenon DEF RunExtension, AllDone

\* complete_nread_ascii(): what is done with a data block answers its line.
LEMMA NreadAsciiHandled ==
  ASSUME NEW d, Reading(d), d.protocol = "ascii"
  PROVE AllHandled(complete_nread_ascii(d))
<1>1. /\ Line(d) /\ (d.ascii_cmd => ~d.wants /\ ~d.noreply)
      /\ d.noreply /\ (d.coll_eitem \/ d.coll_strkeys) =>
            /\ d.coll_op \notin LoudOps
            /\ d.coll_op \in BopInserts => ~d.coll_getrim
      /\ "ascii" # "binary"
  BY Zenon DEF Reading, Line
<1>2. AllHandled({d})
  BY Zenon DEF AllHandled, Handled
<1>3. CASE d.ascii_cmd
  <2>1. Asked(d) /\ ~d.wants
    BY <1>1, <1>3, Zenon DEF Asked
  <2> QED BY <1>3, <2>1, BufferDone, DoneHandled, Zenon DEF complete_nread_ascii
<1>4. CASE ~d.ascii_cmd /\ ~d.coll_eitem /\ ~d.coll_strkeys
  <2>1. complete_nread_ascii(d) = complete_update(d)
    BY <1>4, Zenon DEF complete_nread_ascii, complete_update_ascii
  <2> QED BY <1>1, <2>1, ElemCompleteDone, DoneHandled, Zenon
<1>5. CASE ~d.ascii_cmd /\ (d.coll_eitem \/ d.coll_strkeys)
  <2>1. ASSUME d.coll_op \in LoudOps
        PROVE /\ AllHandled(process_mop_get_complete(d))
              /\ AllHandled(process_bop_mget_complete(d))
              /\ AllHandled(process_bop_smget_complete(d))
              /\ AllHandled(process_mget_complete(d, FALSE))
              /\ AllHandled(process_mget_complete(d, TRUE))
    <3>1. Asked(d)
      BY <1>1, <1>5, <2>1, Zenon DEF Asked
    <3> QED BY <1>1, <3>1, ElemCompleteDone, BopKeysDone, GetDone, DoneHandled, Zenon DEF Asked
  <2>2. d.coll_op \in BopInserts => AllHandled(process_bop_insert_complete(d))
    BY <1>1, <1>5, BopInsertDone, DoneHandled, Zenon
  <2>3. /\ AllHandled(process_lop_insert_complete(d)) /\ AllHandled(process_sop_insert_complete(d))
        /\ AllHandled(process_mop_insert_complete(d)) /\ AllHandled(process_sop_delete_complete(d))
        /\ AllHandled(process_sop_exist_complete(d)) /\ AllHandled(process_mop_update_complete(d))
        /\ AllHandled(process_bop_update_complete(d)) /\ AllHandled(process_mop_delete_complete(d))
    BY <1>1, ElemCompleteDone, DoneHandled, Zenon DEF process_lop_insert_complete,
       process_sop_insert_complete, process_mop_insert_complete
  <2>4. {"MOP_GET", "BOP_MGET", "BOP_SMGET", "MGET", "MGETS"} \subseteq LoudOps
    BY Zenon DEF LoudOps
  <2>5. AllHandled(complete_update_ascii(d))
    BY <1>2, <1>5, <2>1, <2>2, <2>3, <2>4, Zenon DEF complete_update_ascii
  <2> QED BY <1>5, <2>5, Zenon DEF complete_nread_ascii
<1> QED BY <1>3, <1>4, <1>5, Zenon

-----------------------------------------------------------------------------
(***************************************************************************)
(* The commands of the ASCII protocol.                                     *)
(***************************************************************************)

\* A line r has been heard, and its last token is not read yet.
Begun(d, r) ==
  /\ Base(d) /\ d.protocol = "ascii" /\ d.replied = 0
  /\ ~d.noreply /\ ~d.coll_eitem /\ ~d.coll_strkeys /\ ~d.ascii_cmd
  /\ d.more => r.opt = "pipe"
  /\ d.legal => r.valid
  /\ d.wants => /\ r.opt \notin {"noreply", "pipe", "quiet"}
                /\ d.pipe_state \notin PipeErrors
                /\ r.cmd \notin {"extension", "extension_data"}
  /\ r.opt = "pipe" => r.cmd \in PipeCommands
  /\ d.pipe_state # "OFF" => r.cmd \in PipeCommands \/ (r.cmd = "unknown" /\ ~r.valid)

\* A line that may be in a pipeline, and its last token is read.
Piping(g, r) ==
  /\ ~r.valid => AllHandled(out_string(g, "severe"))
  /\ r.valid /\ g.pipe_state \notin PipeErrors =>
       Line(g) /\ ~g.ascii_cmd
  /\ r.valid /\ g.pipe_state \in PipeErrors =>
       \A n : AllHandled({SkipData(check_and_handle_pipe_state(g), n)})

\* A line of the other commands is not in a pipeline: it starts without
\* noreply, and set_noreply_maybe() alone may set it.
LEMMA BegunAsked ==
  ASSUME NEW d, NEW r, Begun(d, r), r.cmd \notin PipeCommands
  PROVE /\ AllHandled(out_string(d, "severe"))
        /\ r.cmd # "unknown" =>
             /\ Asked(d) /\ Line(set_noreply_maybe(d, r))
             /\ ~d.coll_eitem /\ ~d.coll_strkeys /\ ~d.ascii_cmd
             /\ ~set_noreply_maybe(d, r).coll_eitem
             /\ ~set_noreply_maybe(d, r).coll_strkeys
             /\ ~set_noreply_maybe(d, r).ascii_cmd
<1>1. ~Silent(d) /\ Base(d) /\ d.protocol = "ascii" /\ d.replied = 0 /\ ~d.noreply
  BY Zenon DEF Begun, Silent
<1>2. Live(d)
  BY <1>1, Zenon DEF Live
<1>3. AllHandled(out_string(d, "severe"))
  BY <1>1, <1>2, OutStringShort, ShortDone, Zenon
<1>4. ASSUME r.cmd # "unknown"
      PROVE d.pipe_state \notin PipeErrors
  BY <1>4, Zenon DEF Begun, PipeErrors
<1>5. ASSUME r.cmd # "unknown"
      PROVE Line(set_noreply_maybe(d, r))
  <2>1. d.pipe_state \notin PipeErrors /\ (d.wants => r.opt # "noreply")
    BY <1>4, <1>5, Zenon DEF Begun
  <2> QED BY <1>1, <2>1, Zenon DEF set_noreply_maybe, Line, Fit, Live, Base, ReplyFields, Silent
<1>6. /\ ~set_noreply_maybe(d, r).coll_eitem /\ ~set_noreply_maybe(d, r).coll_strkeys
      /\ ~set_noreply_maybe(d, r).ascii_cmd
  BY Zenon DEF Begun, set_noreply_maybe, Base, ReplyFields
<1> QED BY <1>1, <1>2, <1>3, <1>4, <1>5, <1>6, Zenon DEF Begun, Asked, Line, Fit

\* What a line that may be in a pipeline needs, once its last token is read:
\* it is answered without being carried out when the pipeline has failed,
\* and otherwise is a line like the others.
LEMMA PipingAny ==
  ASSUME NEW g, NEW r, Base(g), g.protocol = "ascii", g.replied = 0, ~g.ascii_cmd,
         g.wants => ~g.noreply /\ g.pipe_state \notin PipeErrors,
         g.legal => r.valid,
         Silent(g) => g.noreply /\ g.pipe_state # "OFF"
  PROVE Piping(g, r)
<1>1. ASSUME g.pipe_state \notin PipeErrors PROVE Line(g)
  <2>1. g.pipe_state # "OFF" => g.pipe_state = "ON"
    BY <1>1, Zenon DEF Base, PipeStates
  <2> QED BY <1>1, <2>1, Zenon DEF Line, Fit, Live
<1>2. ASSUME ~r.valid PROVE AllHandled(out_string(g, "severe"))
  <2>1. Live(g)
    BY <1>2, Zenon DEF Live, Silent
  <2> QED BY <2>1, OutStringShort, ShortDone, Zenon
<1>3. ASSUME g.pipe_state \in PipeErrors, NEW n
      PROVE Handled(SkipData(check_and_handle_pipe_state(g), n))
  <2> DEFINE e == check_and_handle_pipe_state(g)
  <2>1. Base(e) /\ e.protocol = "ascii" /\ e.replied = 0 /\ ~e.noreply /\ ~e.wants
    <3>1. CASE g.noreply
      BY <1>3, <3>1, Zenon DEF check_and_handle_pipe_state, Base, ReplyFields
    <3>2. CASE ~g.noreply
      BY <1>3, <3>2, Zenon DEF check_and_handle_pipe_state, pipe_state_clear, Base,
         ReplyFields, PipeStates
    <3> QED BY <3>1, <3>2, Zenon
  <2> HIDE DEF e
  <2>2. /\ Told([e EXCEPT !.sbytes = n, !.state = "conn_swallow"])
        /\ Told(conn_set_state(e, "conn_new_cmd"))
    BY <2>1, Zenon DEF conn_set_state, Told, Base, ReplyFields
  <2>3. Told(SkipData(e, n))
    BY <2>2, Zenon DEF SkipData
  <2> QED BY <2>3, Zenon DEF e, Handled, Done
<1> QED BY <1>1, <1>2, <1>3, Zenon DEF Piping, AllHandled

\* Reading the last token of a line that may be in a pipeline: "pipe" sets
\* noreply and starts the pipeline, "noreply" sets noreply only.
LEMMA BegunPiping ==
  ASSUME NEW d, NEW r, Begun(d, r)
  PROVE LET g == set_pipe_noreply_maybe(d, r)
            i == [g EXCEPT !.coll_getrim = (r.opt = "getrim")]
        IN /\ Piping(g, r) /\ Piping(set_pipe_maybe(d, r), r)
           /\ Piping(i, r) /\ (i.noreply => ~i.coll_getrim)
<1> DEFINE F(e) == /\ Base(e) /\ e.protocol = "ascii" /\ e.replied = 0 /\ ~e.ascii_cmd
                   /\ e.wants => ~e.noreply /\ e.pipe_state \notin PipeErrors
                   /\ e.legal => r.valid
                   /\ Silent(e) => e.noreply /\ e.pipe_state # "OFF"
           g == set_pipe_noreply_maybe(d, r)
           h == set_pipe_maybe(d, r)
           i == [g EXCEPT !.coll_getrim = (r.opt = "getrim")]
<1>0. d.wants => r.opt # "noreply" /\ r.opt # "pipe"
  BY Zenon DEF Begun
<1>1. F(g) /\ ReplyFields \subseteq DOMAIN g /\ (g.noreply => r.opt \in {"noreply", "pipe"})
  <2>1. CASE r.opt = "pipe" /\ d.pipe_state = "OFF"
    BY <1>0, <2>1, Zenon DEF Begun, set_pipe_noreply_maybe, Base, ReplyFields, PipeStates, Silent,
       PipeErrors
  <2>2. CASE ~(r.opt = "pipe" /\ d.pipe_state = "OFF")
    BY <1>0, <2>2, Zenon DEF Begun, set_pipe_noreply_maybe, Base, ReplyFields, PipeStates, Silent
  <2> QED BY <2>1, <2>2, Zenon
<1>2. F(h)
  <2>1. CASE r.opt = "pipe" /\ d.pipe_state = "OFF"
    BY <1>0, <2>1, Zenon DEF Begun, set_pipe_maybe, Base, ReplyFields, PipeStates, Silent,
       PipeErrors
  <2>2. CASE ~(r.opt = "pipe" /\ d.pipe_state = "OFF")
    BY <1>0, <2>2, Zenon DEF Begun, set_pipe_maybe, Base, ReplyFields, PipeStates, Silent
  <2> QED BY <2>1, <2>2, Zenon
<1> HIDE DEF g, h
<1>3. F(i) /\ (i.noreply => ~i.coll_getrim)
  BY <1>1, Zenon DEF Base, ReplyFields, Silent
<1> HIDE DEF i
<1>4. \A e : F(e) => Piping(e, r)
  BY PipingAny, Zenon
<1> HIDE DEF F
<1> QED BY <1>1, <1>2, <1>3, <1>4, Zenon DEF g, h, i

\* The commands on items.
LEMMA ValueCommandsHandled ==
  ASSUME NEW d, NEW r, Begun(d, r), r.cmd \notin PipeCommands, r.cmd # "unknown"
  PROVE /\ \A cas \in BOOLEAN : AllHandled(process_mget_command(d, r, cas))
        /\ AllHandled(process_update_command(d, r))
        /\ AllHandled(process_arithmetic_command(d, r))
        /\ AllHandled(process_delete_command(d, r))
        /\ AllHandled(process_flush_command(d, r))
<1> DEFINE f == set_noreply_maybe(d, r)
<1>1. /\ Asked(d) /\ Line(d) /\ ~d.noreply /\ ~d.ascii_cmd
      /\ Line(f) /\ ~f.coll_eitem /\ ~f.coll_strkeys /\ ~f.ascii_cmd
      /\ AllHandled(out_string(d, "severe"))
  BY BegunAsked, Zenon DEF Asked
<1> HIDE DEF f
<1>2. \A cas : AllHandled(process_mget_command(d, r, cas))
  <2>1. AllHandled(Refused(d, VLen, {"ENOMEM"}))
    BY <1>1, EngineShort, ShortDone, Zenon
  <2>2. \A op : AllHandled(process_prepare_nread_keys(d, op))
    BY <1>1, NreadHandled, Zenon
  <2>3. \A op : AllHandled(Refused(d, VLen, {"ENOMEM"})
                           \cup process_prepare_nread_keys(d, op))
    BY <2>1, <2>2, UnionDone, Zenon
  <2> QED BY <1>1, <2>3, Zenon DEF process_mget_command
<1>4. AllHandled(Write(f)) /\ AllHandled(out_string(f, "severe"))
  BY <1>1, EngineShort, ShortDone, Zenon
<1>5. AllHandled(process_update_command(d, r))
  <2>1. AllDone(Refused(f, VLen, EngineErrors))
    BY <1>1, EngineShort, ShortDone, Zenon
  <2>2. ASSUME NEW e, Done(e)
        PROVE Done([e EXCEPT !.noreply = IF r.cmd = "set" THEN FALSE ELSE @])
    <3>1. CASE r.cmd = "set"
      BY <2>2, <3>1, Zenon DEF Done, Told, Dropped, Base, ReplyFields, Silent
    <3>2. CASE r.cmd # "set"
      BY <2>2, <3>2, Zenon DEF Done, Told, Dropped, Base, ReplyFields, Silent
    <3> QED BY <3>1, <3>2, Zenon
  <2>3. AllHandled({[e EXCEPT !.noreply = IF r.cmd = "set" THEN FALSE ELSE @] :
                      e \in Refused(f, VLen, EngineErrors)})
    BY <2>1, <2>2, Zenon DEF AllHandled, Handled, AllDone
  <2>4. AllHandled({Nread([Take(f, "item", 1) EXCEPT !.item = TRUE])})
    <3> DEFINE e == Take(f, "item", 1)
    <3>1. Line(e)
      BY <1>1, SamePlain, SameKeeps, Zenon
    <3>2. ~e.coll_eitem /\ ~e.coll_strkeys /\ ~e.ascii_cmd
      BY <1>1, Zenon DEF Take, Line, Fit, Live, Base, ReplyFields
    <3> HIDE DEF e
    <3>3. Reading(Nread([e EXCEPT !.item = TRUE]))
      BY <3>1, <3>2, Zenon DEF Nread, Reading, Line, Fit, Live, Base, ReplyFields, Silent
    <3> QED BY <3>3, Zenon DEF e, AllHandled, Handled
  <2> QED BY <1>4, <2>3, <2>4, UnionDone, Zenon DEF f, process_update_command
<1>6. AllHandled(Plain(f, r, Write))
  BY <1>4, Zenon DEF Plain
<1> QED BY <1>2, <1>5, <1>6, Zenon DEF f, process_arithmetic_command,
           process_delete_command, process_flush_command

\* The commands on collections that are never in a pipeline.
LEMMA PlainCommandsHandled ==
  ASSUME NEW d, NEW r, Begun(d, r), r.cmd \notin PipeCommands, r.cmd # "unknown"
  PROVE /\ AllHandled(process_lop_create_cmd(d, r)) /\ AllHandled(process_lop_get_cmd(d, r))
        /\ AllHandled(process_sop_create_cmd(d, r)) /\ AllHandled(process_sop_get_cmd(d, r))
        /\ AllHandled(process_mop_create_cmd(d, r)) /\ AllHandled(process_mop_get_cmd(d, r))
        /\ AllHandled(process_bop_create_cmd(d, r)) /\ AllHandled(process_bop_get_cmd(d, r))
        /\ AllHandled(process_bop_count_cmd(d, r)) /\ AllHandled(process_bop_position_cmd(d, r))
        /\ AllHandled(process_bop_pwg_cmd(d, r)) /\ AllHandled(process_bop_gbp_cmd(d, r))
        /\ AllHandled(process_bop_mget_cmd(d, r))
<1> DEFINE f == set_noreply_maybe(d, r)
<1>1. /\ Asked(d) /\ Line(d) /\ ~d.noreply /\ ~d.ascii_cmd /\ Line(f)
      /\ AllHandled(out_string(d, "severe"))
  BY BegunAsked, Zenon DEF Asked
<1> HIDE DEF f
<1>2. /\ AllHandled(Write(f)) /\ AllHandled(out_string(f, "severe"))
      /\ AllHandled(Read(d))
  BY <1>1, EngineShort, ShortDone, Zenon
<1>3. /\ AllHandled(process_lop_get(d)) /\ AllHandled(process_sop_get(d))
      /\ AllHandled(process_bop_get(d)) /\ AllHandled(process_bop_pwg(d))
      /\ AllHandled(process_bop_gbp(d))
  BY <1>1, GetElemsDone, DoneHandled, Zenon
<1>4. AllHandled(process_mop_prepare_nread_fields(d, "MOP_GET"))
  BY <1>1, NreadHandled, Zenon
<1>5. AllHandled(process_mop_get_complete([d EXCEPT !.coll_op = "MOP_GET"]))
  <2> DEFINE e == [d EXCEPT !.coll_op = "MOP_GET"]
  <2>1. Asked(e)
    BY <1>1, SamePlain, SameKeeps, Zenon
  <2>2. Line(e) /\ ~e.noreply
    BY <2>1, Zenon DEF Asked
  <2> QED BY <2>2, ElemCompleteDone, DoneHandled, Zenon
<1>6. /\ AllHandled(process_lop_create_cmd(d, r)) /\ AllHandled(process_sop_create_cmd(d, r))
      /\ AllHandled(process_mop_create_cmd(d, r)) /\ AllHandled(process_bop_create_cmd(d, r))
  BY <1>2, Zenon DEF f, Plain, process_lop_create_cmd, process_lop_create,
     process_sop_create_cmd, process_sop_create, process_mop_create_cmd, process_mop_create,
     process_bop_create_cmd, process_bop_create
<1>7. /\ AllHandled(process_lop_get_cmd(d, r)) /\ AllHandled(process_sop_get_cmd(d, r))
      /\ AllHandled(process_mop_get_cmd(d, r)) /\ AllHandled(process_bop_get_cmd(d, r))
      /\ AllHandled(process_bop_count_cmd(d, r)) /\ AllHandled(process_bop_position_cmd(d, r))
      /\ AllHandled(process_bop_pwg_cmd(d, r)) /\ AllHandled(process_bop_gbp_cmd(d, r))
  BY <1>1, <1>2, <1>3, <1>4, <1>5, Zenon DEF Plain, process_lop_get_cmd, process_sop_get_cmd,
     process_mop_get_cmd, process_bop_get_cmd, process_bop_count_cmd, process_bop_count,
     process_bop_position_cmd, process_bop_position, process_bop_pwg_cmd, process_bop_gbp_cmd
<1>8. AllHandled(process_bop_mget_cmd(d, r))
  <2> DEFINE e == set_smget_mode_maybe(d, r)
  <2>1. Same(d, e)
    BY SamePlain, SameSelf, Zenon DEF set_smget_mode_maybe
  <2>2. Line(e) /\ ~e.noreply
    BY <1>1, <2>1, SameKeeps, Zenon DEF Asked
  <2>3. ~e.ascii_cmd
    BY <1>1, Zenon DEF set_smget_mode_maybe, Line, Fit, Live, Base, ReplyFields
  <2> HIDE DEF e
  <2>4. \A op : AllHandled(process_bop_prepare_nread_keys(e, op))
    BY <2>2, <2>3, NreadHandled, Zenon
  <2>5. AllHandled(TooMany(d))
    <3>1. AllShort(out_string(d, "severe"))
      BY <1>1, EngineShort, Zenon
    <3>2. AllShort(TooMany(d))
      BY <3>1, SwallowShort, Zenon DEF TooMany, AllShort
    <3> QED BY <3>2, ShortDone, Zenon
  <2>6. \A op : AllHandled(TooMany(d) \cup process_bop_prepare_nread_keys(e, op))
    BY <2>4, <2>5, UnionDone, Zenon
  <2> QED BY <1>1, <2>6, Zenon DEF e, process_bop_mget_cmd
<1> QED BY <1>6, <1>7, <1>8, Zenon

\* The commands on collections that may be in a pipeline.
LEMMA PipeCommandsHandled ==
  ASSUME NEW d, NEW r, Begun(d, r)
  PROVE /\ AllHandled(process_lop_insert_cmd(d, r)) /\ AllHandled(process_lop_delete_cmd(d, r))
        /\ AllHandled(process_sop_insert_cmd(d, r)) /\ AllHandled(process_sop_delete_cmd(d, r))
        /\ AllHandled(process_sop_exist_cmd(d, r))
        /\ AllHandled(process_mop_insert_cmd(d, r)) /\ AllHandled(process_mop_update_cmd(d, r))
        /\ AllHandled(process_mop_delete_cmd(d, r))
        /\ AllHandled(process_bop_insert_cmd(d, r)) /\ AllHandled(process_bop_update_cmd(d, r))
        /\ AllHandled(process_bop_delete_cmd(d, r))
        /\ AllHandled(process_bop_arithmetic_cmd(d, r))
<1> DEFINE g == set_pipe_noreply_maybe(d, r)
           h == set_pipe_maybe(d, r)
           i == [g EXCEPT !.coll_getrim = (r.opt = "getrim")]
<1>1. Piping(g, r) /\ Piping(h, r) /\ Piping(i, r) /\ (i.noreply => ~i.coll_getrim)
  BY BegunPiping, Zenon
<1> HIDE DEF g, h, i
<1>2. ASSUME NEW e, Line(e), ~e.ascii_cmd
      PROVE /\ AllHandled(Write(e))
            /\ AllHandled(process_lop_prepare_nread(e))
            /\ AllHandled(process_sop_prepare_nread(e, "SOP_INSERT"))
            /\ AllHandled(process_sop_prepare_nread(e, "SOP_DELETE"))
            /\ AllHandled(process_sop_prepare_nread(e, "SOP_EXIST"))
            /\ AllHandled(process_mop_prepare_nread(e, "MOP_INSERT"))
            /\ AllHandled(process_mop_prepare_nread(e, "MOP_UPDATE"))
            /\ AllHandled(process_mop_prepare_nread_fields(e, "MOP_DELETE"))
            /\ AllHandled(process_mop_delete_complete([e EXCEPT !.coll_op = "MOP_DELETE"]))
            /\ (e.noreply => ~e.coll_getrim) =>
                  AllHandled(process_bop_prepare_nread(e, "BOP_INSERT"))
            /\ AllHandled(process_bop_update_prepare_nread(e))
            /\ AllHandled(out_string(e, "ok") \cup
                  process_bop_update_complete([e EXCEPT !.coll_op = "BOP_UPDATE"]))
  <2>1. \A op : Line([e EXCEPT !.coll_op = op])
    BY <1>2, SamePlain, SameKeeps, Zenon
  <2>2. /\ AllHandled(process_mop_delete_complete([e EXCEPT !.coll_op = "MOP_DELETE"]))
        /\ AllHandled(process_bop_update_complete([e EXCEPT !.coll_op = "BOP_UPDATE"]))
    BY <2>1, ElemCompleteDone, DoneHandled, Zenon
  <2>3. AllHandled(Write(e)) /\ AllHandled(out_string(e, "ok"))
    BY <1>2, EngineShort, ShortDone, Zenon
  <2>4. AllHandled(out_string(e, "ok") \cup
                  process_bop_update_complete([e EXCEPT !.coll_op = "BOP_UPDATE"]))
    BY <2>2, <2>3, UnionDone, Zenon
  <2> QED BY <1>2, <2>2, <2>3, <2>4, PrepareHandled, Zenon
<1>3. /\ AllHandled(process_lop_insert_cmd(d, r)) /\ AllHandled(process_lop_delete_cmd(d, r))
      /\ AllHandled(process_sop_insert_cmd(d, r)) /\ AllHandled(process_sop_delete_cmd(d, r))
      /\ AllHandled(process_mop_insert_cmd(d, r)) /\ AllHandled(process_mop_update_cmd(d, r))
      /\ AllHandled(process_mop_delete_cmd(d, r))
  BY <1>1, <1>2, Zenon DEF g, Piping, Piped, process_lop_insert_cmd, process_lop_delete_cmd,
     process_sop_insert_cmd, process_sop_delete_cmd, process_lop_delete,
     process_mop_insert_cmd, process_mop_update_cmd, process_mop_delete_cmd
<1>4. AllHandled(process_sop_exist_cmd(d, r))
  BY <1>1, <1>2, Zenon DEF h, Piping, Piped, process_sop_exist_cmd
<1>5. AllHandled(process_bop_insert_cmd(d, r))
  BY <1>1, <1>2, Zenon DEF g, i, Piping, Piped, process_bop_insert_cmd
<1>6. /\ AllHandled(process_bop_update_cmd(d, r)) /\ AllHandled(process_bop_delete_cmd(d, r))
      /\ AllHandled(process_bop_arithmetic_cmd(d, r))
  BY <1>1, <1>2, Zenon DEF g, Piping, Piped, process_bop_update_cmd, process_bop_delete_cmd,
     process_bop_delete, process_bop_arithmetic_cmd, process_bop_arithmetic
<1> QED BY <1>3, <1>4, <1>5, <1>6, Zenon

\* The commands on the server, and those of extensions.
LEMMA AdminCommandsHandled ==
  ASSUME NEW d, NEW r, Begun(d, r), r.cmd \notin PipeCommands, r.cmd # "unknown"
  PROVE /\ AllHandled(process_getattr_command(d, r)) /\ AllHandled(process_setattr_command(d, r))
        /\ AllHandled(process_stats_command(d, r)) /\ AllHandled(process_scan_command(d, r))
        /\ AllHandled(process_config_command(d)) /\ AllHandled(process_zkensemble_command(d))
        /\ AllHandled(process_dump_command(d)) /\ AllHandled(process_help_command(d))
        /\ AllHandled(process_shutdown_command(d)) /\ AllHandled(process_cmdlog_command(d))
        /\ AllHandled(process_lqdetect_command(d)) /\ AllHandled(out_string(d, "ok"))
        /\ AllHandled({conn_set_state(d, "conn_closing")})
        /\ \A cas : AllHandled(process_get_command(d, cas))
        /\ r.cmd \in {"extension", "extension_data"} =>
              AllHandled(process_extension_command(d, r))
<1>0. Asked(d) /\ Line(d) /\ ~d.noreply /\ Live(d) /\ ~d.coll_eitem /\ ~d.coll_strkeys
  BY BegunAsked, Zenon DEF Asked, Line, Fit
<1>1. /\ AllHandled(out_string(d, "ok")) /\ AllHandled(out_string(d, "severe"))
      /\ AllHandled(Write(d)) /\ AllHandled(Read(d)) /\ AllHandled(Answer(d))
  BY <1>0, EngineShort, ShortDone, Zenon
<1>2. AllHandled({write_and_free(d)})
  BY <1>0, BufferDone, Zenon DEF AllHandled, Handled
<1>3. /\ AllHandled({write_and_free(d)} \cup Answer(d))
      /\ AllHandled({write_and_free(d)} \cup out_string(d, "severe"))
      /\ AllHandled({write_and_free(d)} \cup out_string(d, "ok"))
  BY <1>1, <1>2, UnionDone, Zenon
<1>4. AllHandled(process_keyscan_command(d)) /\ AllHandled(process_prefixscan_command(d))
  <2>1. ASSUME NEW n
        PROVE /\ Handled([Take(Take(d, "item", n), "wfree", 1)
                   EXCEPT !.ileft = n, !.write_and_free = TRUE, !.state = "conn_mwrite"])
              /\ Handled([Take(Take(d, "prefix", n), "wfree", 1)
                   EXCEPT !.pleft = n, !.write_and_free = TRUE, !.state = "conn_mwrite"])
    <3>1. ASSUME NEW e, Asked(e), NEW x, NEW y PROVE Asked(Take(e, x, y))
      BY <3>1, SamePlain, SameKeeps, Zenon
    <3>2. /\ Asked(Take(Take(d, "item", n), "wfree", 1))
          /\ Asked(Take(Take(d, "prefix", n), "wfree", 1))
      BY <1>0, <3>1, Zenon
    <3> QED BY <3>2, MwriteDone, Zenon DEF Handled
  <2>2. /\ AllHandled({[Take(Take(d, "item", n), "wfree", 1)
              EXCEPT !.ileft = n, !.write_and_free = TRUE, !.state = "conn_mwrite"]
              : n \in 0 .. MaxElems})
        /\ AllHandled({[Take(Take(d, "prefix", n), "wfree", 1)
              EXCEPT !.pleft = n, !.write_and_free = TRUE, !.state = "conn_mwrite"]
              : n \in 0 .. MaxElems})
    BY <2>1, Zenon DEF AllHandled
  <2>3. Line([d EXCEPT !.ileft = 0])
    BY <1>0, SamePlain, SameKeeps, Zenon
  <2>4. AllHandled(out_string([d EXCEPT !.ileft = 0], "severe"))
    BY <2>3, EngineShort, ShortDone, Zenon
  <2> QED BY <1>1, <2>2, <2>4, UnionDone, Zenon DEF process_keyscan_command,
             process_prefixscan_command
<1>5. ASSUME r.cmd \in {"extension", "extension_data"}
      PROVE AllHandled(process_extension_command(d, r))
  <2>1. ~d.wants
    BY <1>5, Zenon DEF Begun
  <2>2. Reading(Nread([d EXCEPT !.ascii_cmd = TRUE]))
    BY <1>0, <2>1, Zenon DEF Nread, Reading, Line, Fit, Live, Base, ReplyFields, Silent
  <2>3. AllHandled({Nread([d EXCEPT !.ascii_cmd = TRUE])})
    BY <2>2, Zenon DEF AllHandled, Handled
  <2>4. AllHandled(RunExtension(d))
    BY <1>0, <2>1, BufferDone, DoneHandled, Zenon
  <2> QED BY <1>1, <2>3, <2>4, Zenon DEF process_extension_command
<1>6. /\ AllHandled(process_getattr_command(d, r)) /\ AllHandled(process_setattr_command(d, r))
  BY <1>1, Zenon DEF Plain, process_getattr_command, process_setattr_command
<1>7. AllHandled(process_stats_command(d, r))
  BY <1>3, Zenon DEF process_stats_command, process_stats_detail, process_stats_cachedump
<1>8. AllHandled(process_scan_command(d, r))
  BY <1>1, <1>4, Zenon DEF process_scan_command
<1>9. AllHandled({conn_set_state(d, "conn_closing")})
  BY <1>0, ClosingDropped, Zenon DEF AllHandled, Handled, Short
<1>10. \A cas : AllHandled(process_get_command(d, cas))
  BY <1>0, GetDone, DoneHandled, Zenon
<1>11. /\ AllHandled(process_config_command(d)) /\ AllHandled(process_zkensemble_command(d))
       /\ AllHandled(process_dump_command(d)) /\ AllHandled(process_help_command(d))
       /\ AllHandled(process_shutdown_command(d)) /\ AllHandled(process_cmdlog_command(d))
       /\ AllHandled(process_lqdetect_command(d))
  BY <1>1, <1>3, Zenon DEF process_config_command, process_zkensemble_command,
     process_dump_command, process_help_command, process_shutdown_command,
     process_cmdlog_command, process_lqdetect_command
<1> QED BY <1>1, <1>5, <1>6, <1>7, <1>8, <1>9, <1>10, <1>11, Zenon

\* process_command_ascii(): every line is answered once, or not at all if it
\* wants no reply.
LEMMA AsciiHandled ==
  ASSUME NEW d, NEW r, Begun(d, r)
  PROVE AllHandled(process_command_ascii(d, r))
<1>1. CASE r.cmd \in PipeCommands
  BY <1>1, PipeCommandsHandled, Zenon DEF process_command_ascii, PipeCommands
<1>2. CASE r.cmd \notin PipeCommands /\ r.cmd # "unknown"
  <2>1. AllHandled(out_string(d, "severe"))
    BY <1>2, BegunAsked, Zenon
  <2>2. TRUE \in BOOLEAN /\ FALSE \in BOOLEAN
    OBVIOUS
  <2> QED BY <1>2, <2>1, <2>2, ValueCommandsHandled, PlainCommandsHandled, PipeCommandsHandled,
             AdminCommandsHandled, Zenon DEF process_command_ascii
<1>3. CASE r.cmd = "unknown"
  <2>1. process_command_ascii(d, r) = out_string(d, "severe") /\ "unknown" \notin PipeCommands
    BY <1>3, Zenon DEF process_command_ascii, PipeCommands
  <2> QED BY <1>3, <2>1, BegunAsked, Zenon
<1> QED BY <1>1, <1>2, <1>3, Zenon

\* out_string() does not change whether the line was well formed.
LEMMA OutStringLegal ==
  ASSUME NEW d, ReplyFields \subseteq DOMAIN d, NEW s, NEW e \in out_string(d, s)
  PROVE e.legal = d.legal
<1> DEFINE K(f) == ReplyFields \subseteq DOMAIN f /\ f.legal = d.legal
<1>1. ASSUME NEW f, K(f), NEW x, NEW y
      PROVE /\ K([f EXCEPT !.pipe_state = x]) /\ K([f EXCEPT !.pipe_count = x])
            /\ K([f EXCEPT !.noreply = x])
            /\ K(pipe_state_clear(f)) /\ K(Reply(f))
            /\ K([f EXCEPT !.noreply = FALSE, !.state = "conn_new_cmd",
                           !.fatal = x, !.ewouldblock = FALSE])
  BY <1>1, Zenon DEF pipe_state_clear, Reply, ReplyFields
<1>2. K(d)
  OBVIOUS
<1> HIDE DEF K
<1>3. ASSUME NEW f \in pipe_response_save(d, s) PROVE K(f)
  <2> DEFINE t == [d EXCEPT !.pipe_count = @ + 1]
  <2>1. /\ K(t) /\ K([t EXCEPT !.pipe_state = "ERR_BAD"])
        /\ K([t EXCEPT !.pipe_state = "ERR_CFULL"])
        /\ K([d EXCEPT !.pipe_state = "ERR_MFULL"]) /\ K(pipe_state_clear(d))
    BY <1>1, <1>2, Zenon
  <2> QED BY <2>1, Zenon DEF pipe_response_save
<1>4. ASSUME NEW f, K(f), NEW q PROVE K(OutString(f, q))
  <2> DEFINE g == IF f.pipe_state \in PipeErrors THEN [f EXCEPT !.noreply = FALSE] ELSE f
  <2>1. K(g)
    BY <1>1, <1>4, Zenon
  <2> HIDE DEF g
  <2>2. K(pipe_response_done(g, ~q)) /\ K(Reply(g))
    BY <1>1, <2>1, Zenon DEF pipe_response_done
  <2>3. K([g EXCEPT !.noreply = FALSE, !.state = "conn_new_cmd",
                    !.fatal = @ \/ g.ewouldblock, !.ewouldblock = FALSE])
    BY <1>1, <2>1, Zenon
  <2> QED BY <2>2, <2>3, Zenon DEF OutString, g
<1>5. K(e)
  BY <1>2, <1>3, <1>4, Zenon DEF out_string
<1> QED BY <1>5, Zenon DEF K

\* A well-formed line of a pipeline that has failed leaves it failed: its
\* handler looks at pipe_state before it does anything else.
LEMMA PipeStays ==
  ASSUME NEW d, NEW r, Begun(d, r), d.pipe_state \in PipeErrors,
         NEW e \in process_command_ascii(d, r), e.more, e.legal
  PROVE e.pipe_state \in PipeErrors
<1> DEFINE S(C) == \A f \in C : f.more /\ f.legal => f.pipe_state \in PipeErrors
           K(f) == /\ ReplyFields \subseteq DOMAIN f
                   /\ f.more = d.more /\ f.legal = d.legal /\ f.pipe_state = d.pipe_state
           g == set_pipe_noreply_maybe(d, r)
           h == set_pipe_maybe(d, r)
           i == [g EXCEPT !.coll_getrim = (r.opt = "getrim")]
<1>1. d.pipe_state # "OFF" /\ (d.more => r.opt = "pipe") /\ (d.legal => r.valid)
  BY Zenon DEF PipeErrors, Begun
<1>2. /\ K(d) /\ K(g) /\ (r.opt = "pipe" => g.noreply)
      /\ K(h) /\ (r.opt = "pipe" => h.noreply)
  BY <1>1, Zenon DEF set_pipe_noreply_maybe, set_pipe_maybe, Begun, Base, ReplyFields
<1>3. K(i) /\ (r.opt = "pipe" => i.noreply)
  <2> HIDE DEF g
  <2> QED BY <1>2, Zenon DEF ReplyFields
<1> HIDE DEF g, h, i
<1>4. ASSUME NEW f, K(f), r.opt = "pipe" => f.noreply, NEW n
      PROVE S({SkipData(check_and_handle_pipe_state(f), n)})
  <2>1. CASE r.opt = "pipe"
    <3>1. check_and_handle_pipe_state(f) = [f EXCEPT !.noreply = FALSE]
      BY <1>4, <2>1, Zenon DEF check_and_handle_pipe_state
    <3>2. /\ [[f EXCEPT !.noreply = FALSE] EXCEPT !.sbytes = n, !.state = "conn_swallow"].pipe_state
                = d.pipe_state
          /\ [[f EXCEPT !.noreply = FALSE] EXCEPT !.state = "conn_new_cmd"].pipe_state = d.pipe_state
      BY <1>4, Zenon DEF ReplyFields
    <3> QED BY <3>1, <3>2, Zenon DEF SkipData, conn_set_state
  <2>2. CASE r.opt # "pipe"
    <3> DEFINE x == check_and_handle_pipe_state(f)
    <3>1. ~d.more
      BY <1>1, <2>2, Zenon
    <3>2. ReplyFields \subseteq DOMAIN x /\ ~x.more
      BY <1>4, <3>1, Zenon DEF check_and_handle_pipe_state, pipe_state_clear, ReplyFields
    <3> HIDE DEF x
    <3>3. /\ ~[x EXCEPT !.sbytes = n, !.state = "conn_swallow"].more
          /\ ~[x EXCEPT !.state = "conn_new_cmd"].more
      BY <3>2, Zenon DEF ReplyFields
    <3> QED BY <3>3, Zenon DEF x, SkipData, conn_set_state
  <2> QED BY <2>1, <2>2, Zenon
<1>5. \A n : /\ S({SkipData(check_and_handle_pipe_state(g), n)})
             /\ S({SkipData(check_and_handle_pipe_state(h), n)})
             /\ S({SkipData(check_and_handle_pipe_state(i), n)})
  BY <1>2, <1>3, <1>4, Zenon
<1>6. ASSUME ~r.valid
      PROVE /\ S(out_string(g, "severe")) /\ S(out_string(h, "severe"))
            /\ S(out_string(i, "severe")) /\ S(out_string(d, "severe"))
  BY <1>1, <1>2, <1>3, <1>6, OutStringLegal, Zenon
<1>7. g.pipe_state \in PipeErrors /\ h.pipe_state \in PipeErrors /\ i.pipe_state \in PipeErrors
  BY <1>2, <1>3, Zenon
<1> HIDE DEF S
<1>8. /\ S(process_lop_insert_cmd(d, r)) /\ S(process_lop_delete_cmd(d, r))
      /\ S(process_sop_insert_cmd(d, r)) /\ S(process_sop_delete_cmd(d, r))
      /\ S(process_mop_insert_cmd(d, r)) /\ S(process_mop_update_cmd(d, r))
      /\ S(process_mop_delete_cmd(d, r))
  BY <1>5, <1>6, <1>7, Zenon DEF g, Piped, process_lop_insert_cmd, process_lop_delete_cmd,
     process_sop_insert_cmd, process_sop_delete_cmd, process_mop_insert_cmd,
     process_mop_update_cmd, process_mop_delete_cmd
<1>9. S(process_sop_exist_cmd(d, r))
  BY <1>5, <1>6, <1>7, Zenon DEF h, Piped, process_sop_exist_cmd
<1>10. S(process_bop_insert_cmd(d, r))
  BY <1>5, <1>6, <1>7, Zenon DEF g, i, Piped, process_bop_insert_cmd
<1>11. /\ S(process_bop_update_cmd(d, r)) /\ S(process_bop_delete_cmd(d, r))
       /\ S(process_bop_arithmetic_cmd(d, r))
  BY <1>5, <1>6, <1>7, Zenon DEF g, Piped, process_bop_update_cmd, process_bop_delete_cmd,
     process_bop_arithmetic_cmd
<1>12. CASE r.cmd \in PipeCommands
  <2>1. S(process_command_ascii(d, r))
    BY <1>8, <1>9, <1>10, <1>11, <1>12, Zenon DEF process_command_ascii, PipeCommands
  <2> QED BY <2>1, Zenon DEF S
<1>13. CASE r.cmd = "unknown" /\ ~r.valid
  <2>1. process_command_ascii(d, r) = out_string(d, "severe")
    BY <1>13, Zenon DEF process_command_ascii
  <2> QED BY <1>6, <1>13, <2>1, Zenon DEF S
<1> QED BY <1>1, <1>12, <1>13, Zenon DEF Begun

-----------------------------------------------------------------------------
(***************************************************************************)
(* The commands of the binary protocol.                                    *)
(***************************************************************************)

\* What a packet is, for the handlers of the binary protocol.
LEMMA PacketFacts ==
  ASSUME NEW d, Packet(d)
  PROVE /\ Base(d) /\ d.replied = 0 /\ d.protocol = "binary" /\ ~Silent(d)
        /\ Live(d) /\ (d.wants => ~d.noreply)
BY Zenon DEF Packet, Fit, Live

\* write_bin_packet() answers, and so does write_bin_response(), except to a
\* quiet request, which wants no reply.
LEMMA BinPacketDone ==
  ASSUME NEW d, Packet(d), NEW n
  PROVE /\ AllDone(write_bin_packet(d, n)) /\ AllDone(write_bin_response(d))
        /\ Done(conn_set_state(d, "conn_closing"))
        /\ Done([d EXCEPT !.state = "conn_mwrite"])
        /\ d.noreply => Done(conn_set_state(d, "conn_new_cmd"))
<1>1. /\ Done([d EXCEPT !.state = "conn_mwrite", !.sbytes = n, !.write_and_go = "conn_swallow"])
      /\ Done([d EXCEPT !.state = "conn_mwrite", !.write_and_go = "conn_new_cmd"])
      /\ Done([d EXCEPT !.state = "conn_mwrite"])
      /\ d.noreply => Done([d EXCEPT !.state = "conn_new_cmd"])
  BY PacketFacts, Zenon DEF Done, Told, Base, ReplyFields
<1>2. Done(conn_set_state(d, "conn_closing"))
  BY PacketFacts, ClosingDropped, Zenon DEF Short
<1> QED BY <1>1, <1>2, Zenon DEF write_bin_packet, write_bin_response, conn_set_state, AllDone

\* The errors of the binary protocol, quiet requests included.
LEMMA BinErrorDone ==
  ASSUME NEW d, Packet(d)
  PROVE /\ \A ret, n : AllDone(handle_unexpected_errorcode_bin(d, ret, n))
        /\ \A n, errors : AllDone(BinRefused(d, n, errors))
<1>1. /\ \A n : AllDone(write_bin_packet(d, n))
      /\ AllDone({conn_set_state(d, "conn_closing")})
  BY BinPacketDone, Zenon DEF AllDone
<1>2. \A ret, n : AllDone(handle_unexpected_errorcode_bin(d, ret, n))
  BY <1>1, Zenon DEF handle_unexpected_errorcode_bin
<1> QED BY <1>2, Zenon DEF BinRefused, AllDone

\* The switch on the result of the engine that ends the binary handlers.
LEMMA BinRepliesDone ==
  ASSUME NEW d, Packet(d), NEW E, AllResults(E, d)
  PROVE /\ \A e \in E : AllDone(BinReplyResult(e))
        /\ AllDone(BinReplies(E))
<1>1. ASSUME NEW e \in E PROVE AllDone(BinReplyResult(e))
  <2>1. Packet(e.c)
    BY SameKeeps, Zenon DEF AllResults
  <2> QED BY <2>1, BinPacketDone, BinErrorDone, Zenon DEF BinReplyResult
<1> QED BY <1>1, Zenon DEF BinReplies, AllDone

\* The binary handlers that call the engine and reply.
LEMMA BinEngineDone ==
  ASSUME NEW d, Packet(d)
  PROVE /\ AllDone(BinWrite(d)) /\ AllDone(BinRead(d))
        /\ AllDone(complete_incr_bin(d)) /\ AllDone(process_bin_delete(d))
        /\ AllDone(write_bin_packet(d, 0)) /\ AllDone(complete_update_bin(d))
        /\ \A n, errors : AllDone(BinRefused(d, n, errors))
<1>1. AllResults(EngineRead(d), d) /\ AllResults(EngineWrite(d), d)
  BY SameEngine, Zenon
<1>2. /\ AllResults({e \in EngineWrite(d) : e.ret # "ENOTSUP"}, d)
      /\ AllResults({e \in EngineWrite(d) : e.ret \in {"SUCCESS", "MISS"}}, d)
  BY <1>1, Zenon DEF AllResults
<1>3. /\ AllDone(BinWrite(d)) /\ AllDone(BinRead(d))
      /\ AllDone(complete_incr_bin(d)) /\ AllDone(process_bin_delete(d))
  BY <1>1, <1>2, BinRepliesDone, Zenon DEF BinWrite, BinRead, complete_incr_bin,
     process_bin_delete
<1>4. AllDone(complete_update_bin(d))
  BY <1>3, SameRelease, SameKeeps, Zenon DEF complete_update_bin, AllDone
<1> QED BY <1>3, <1>4, BinPacketDone, BinErrorDone, Zenon

\* The binary handlers that allocate for a body.
LEMMA BinNreadHandled ==
  ASSUME NEW d, Packet(d), NEW op, NEW sub
  PROVE /\ AllHandled(BinNreadElem(d, op, sub)) /\ AllHandled(BinNreadValue(d, op, sub))
        /\ AllHandled(AllocItem(d)) /\ AllHandled(process_bin_bop_prepare_nread_keys(d))
        /\ AllHandled(bin_read_key(d, sub))
<1>1. ASSUME NEW e, Packet(e), NEW o, NEW st
      PROVE /\ Handled(BinNread([e EXCEPT !.coll_eitem = TRUE, !.coll_ecount = 1,
                                        !.coll_op = op], 1, st))
            /\ Handled(BinNread([e EXCEPT !.coll_strkeys = TRUE, !.coll_eitem = TRUE,
                                        !.coll_ecount = 0, !.coll_op = o], 1, st))
            /\ Handled(BinNread([e EXCEPT !.item = TRUE], 1, st))
            /\ Handled(BinNread(e, 1, st))
  BY <1>1, Zenon DEF BinNread, Handled, Reading, Packet, Fit, Live, Base, ReplyFields, Silent
<1>2. \A e : Packet(e) => \A r, n : Packet(Take(e, r, n))
  BY SamePlain, SameKeeps, Zenon
<1>3. \A n, errors : AllHandled(BinRefused(d, n, errors))
  BY BinEngineDone, DoneHandled, Zenon
<1>4. AllHandled(BinNreadElem(d, op, sub)) /\ AllHandled(BinNreadValue(d, op, sub))
  BY <1>1, <1>2, <1>3, Zenon DEF BinNreadElem, BinNreadValue, AllHandled
<1>5. AllHandled(AllocItem(d))
  BY <1>1, <1>2, <1>3, Zenon DEF AllocItem, AllHandled
<1>6. AllHandled(process_bin_bop_prepare_nread_keys(d))
  <2>1. Packet(Take(Take(d, "keys", 1), "block", 1))
    BY <1>2, Zenon
  <2>2. Handled(BinNread([Take(Take(d, "keys", 1), "block", 1)
                 EXCEPT !.coll_strkeys = TRUE, !.coll_eitem = TRUE, !.coll_ecount = 0,
                        !.coll_op = IF d.cmd = "bop_mget" THEN "BOP_MGET" ELSE "BOP_SMGET"],
              1, "bin_reading_bop_nread_keys_complete"))
    BY <1>1, <2>1, Zenon
  <2>3. AllHandled(BinRefused(d, 1, {"ENOMEM"}))
    BY <1>3, Zenon
  <2> QED BY <2>2, <2>3, Zenon DEF process_bin_bop_prepare_nread_keys, AllHandled
<1>7. AllHandled(bin_read_key(d, sub))
  <2>1. Handled(conn_set_state([d EXCEPT !.substate = sub], "conn_closing"))
    BY PacketFacts, Zenon DEF conn_set_state, Handled, Done, Dropped, Base, ReplyFields
  <2> QED BY <1>1, <2>1, Zenon DEF bin_read_key, bin_read_chunk, AllHandled
<1> QED BY <1>4, <1>5, <1>6, <1>7, Zenon

\* The binary responses with elements.
LEMMA BinElemsDone ==
  ASSUME NEW d, Packet(d)
  PROVE /\ AllDone(process_bin_lop_get(d)) /\ AllDone(process_bin_sop_get(d))
        /\ AllDone(process_bin_bop_get(d))
<1>1. AllResults(EngineWrite(d), d)
  BY SameEngine, Zenon
<1>2. ASSUME NEW e \in EngineWrite(d)
      PROVE /\ AllDone(BinReplyResult(e))
            /\ \A op, n : AllDone(BinElemsResponse(TakeElems(e.c, n), op, n))
  <2>1. AllDone(BinReplyResult(e))
    BY <1>1, BinRepliesDone, Zenon
  <2>2. ASSUME NEW op, NEW n
        PROVE AllDone(BinElemsResponse(TakeElems(e.c, n), op, n))
    <3> DEFINE f == TakeElems(e.c, n)
    <3>0. ASSUME NEW x, Packet(x), NEW y, NEW m PROVE Packet(Take(x, y, m)) /\ Packet(Give(x, y, m))
      BY <3>0, SamePlain, SameKeeps, Zenon
    <3>1. Packet(e.c)
      BY <1>1, SameKeeps, Zenon DEF AllResults
    <3>2. Packet(f)
      BY <3>0, <3>1, Zenon DEF TakeElems
    <3> HIDE DEF f
    <3>3. Packet(Take(f, "resp", 1)) /\ Packet(GiveElems(f, n))
      BY <3>0, <3>2, Zenon DEF GiveElems
    <3>4. Done([Take(f, "resp", 1) EXCEPT !.coll_eitem = TRUE, !.coll_ecount = n,
                      !.coll_resps = TRUE, !.coll_op = op, !.state = "conn_mwrite"])
      BY <3>3, PacketFacts, Zenon DEF Done, Told, Base, ReplyFields
    <3>5. AllDone({KeepElems(f, op, n)})
      BY <3>4, Zenon DEF KeepElems, AllDone
    <3>6. AllDone(write_bin_packet(GiveElems(f, n), 0))
      BY <3>3, BinPacketDone, Zenon
    <3> QED BY <3>5, <3>6, UnionDone, Zenon DEF f, BinElemsResponse
  <2> QED BY <2>1, <2>2, Zenon
<1>3. AllDone(process_bin_lop_get(d))
  BY <1>2 DEF process_bin_lop_get, BinWithElems, AllDone, out_bin_lop_get_response
<1>4. AllDone(process_bin_sop_get(d))
  BY <1>2 DEF process_bin_sop_get, BinWithElems, AllDone, out_bin_sop_get_response
<1>5. AllDone(process_bin_bop_get(d))
  BY <1>2 DEF process_bin_bop_get, BinWithElems, AllDone, out_bin_bop_get_response
<1> QED BY <1>3, <1>4, <1>5, Zenon

\* The binary handlers that get an item, that send statistics and that
\* refuse a packet.
LEMMA BinItemsDone ==
  ASSUME NEW d, Packet(d)
  PROVE /\ AllDone(process_bin_get(d)) /\ AllDone(process_bin_stat(d))
        /\ AllDone(process_bin_unknown_packet(d))
<1>1. ASSUME NEW e, Packet(e)
      PROVE /\ Done([e EXCEPT !.item = TRUE, !.state = "conn_mwrite"])
            /\ Done([Reply(e) EXCEPT !.write_and_free = TRUE])
  BY <1>1, PacketFacts, Zenon DEF Reply, Done, Told, Base, ReplyFields, Silent
<1>2. Packet(Take(d, "item", 1)) /\ Packet(Take(d, "wfree", 1))
  BY SamePlain, SameKeeps, Zenon
<1>3. /\ Done([Take(d, "item", 1) EXCEPT !.item = TRUE, !.state = "conn_mwrite"])
      /\ Done(write_and_free(d))
  BY <1>1, <1>2, Zenon DEF write_and_free
<1>4. /\ AllDone({write_and_free(d)}) /\ Done(conn_set_state(d, "conn_closing"))
      /\ AllDone(write_bin_packet(d, 0)) /\ AllDone(BinRefused(d, 0, EngineErrors))
      /\ d.noreply => Done(conn_set_state(d, "conn_new_cmd"))
  BY <1>3, BinPacketDone, BinErrorDone, Zenon DEF AllDone
<1>5. AllDone(process_bin_get(d))
  BY <1>3, <1>4, Zenon DEF process_bin_get, AllDone
<1> QED BY <1>3, <1>4, <1>5, Zenon DEF process_bin_stat, process_bin_unknown_packet, AllDone

\* The binary handlers of collections.
LEMMA BinCollsHandled ==
  ASSUME NEW d, Packet(d)
  PROVE /\ AllHandled(process_bin_lop_prepare_nread(d)) /\ AllHandled(process_bin_lop_nread_complete(d))
        /\ AllHandled(process_bin_sop_prepare_nread(d)) /\ AllHandled(process_bin_sop_nread_complete(d))
        /\ AllHandled(process_bin_bop_prepare_nread(d)) /\ AllHandled(process_bin_bop_nread_complete(d))
        /\ AllHandled(process_bin_bop_update_prepare_nread(d))
        /\ AllHandled(process_bin_bop_update_complete(d))
        /\ AllHandled(process_bin_bop_nread_keys_complete(d))
<1>1. \A r : AllHandled(DropEitem(r, BinWrite(d))) /\ AllHandled(DropEitem(r, BinRead(d)))
  BY BinEngineDone, DropDone, DoneHandled, Zenon
<1>2. \A op, sub : AllHandled(BinNreadElem(d, op, sub)) /\ AllHandled(BinNreadValue(d, op, sub))
  BY BinNreadHandled, Zenon
<1>3. /\ AllHandled(process_bin_lop_prepare_nread(d)) /\ AllHandled(process_bin_lop_nread_complete(d))
      /\ AllHandled(process_bin_sop_prepare_nread(d)) /\ AllHandled(process_bin_sop_nread_complete(d))
      /\ AllHandled(process_bin_bop_prepare_nread(d)) /\ AllHandled(process_bin_bop_nread_complete(d))
  BY <1>1, <1>2, Zenon DEF process_bin_lop_prepare_nread, process_bin_lop_nread_complete,
     process_bin_lop_insert_complete, process_bin_sop_prepare_nread,
     process_bin_sop_nread_complete, process_bin_sop_insert_complete,
     process_bin_sop_delete_complete, process_bin_sop_exist_complete,
     process_bin_bop_prepare_nread, process_bin_bop_nread_complete,
     process_bin_bop_insert_complete
<1>4. ASSUME NEW e, Packet(e) PROVE AllHandled(process_bin_bop_update_complete(e))
  <2>1. AllHandled(BinWrite(e)) /\ AllHandled(DropEitem("block", BinWrite(e)))
    BY <1>4, BinEngineDone, DropDone, DoneHandled, Zenon
  <2> QED BY <2>1, Zenon DEF process_bin_bop_update_complete
<1>5. AllHandled(process_bin_bop_update_prepare_nread(d))
  <2>1. Packet([d EXCEPT !.coll_eitem = FALSE, !.coll_ecount = 0, !.coll_op = "BOP_UPDATE"])
    BY Zenon DEF Packet, Fit, Live, Base, ReplyFields, Silent
  <2> QED BY <1>2, <1>4, <2>1, Zenon DEF process_bin_bop_update_prepare_nread
<1>6. AllHandled(process_bin_bop_mget_complete(d))
  BY BinEngineDone, DropDone, DoneHandled, Zenon DEF process_bin_bop_mget_complete
<1>7. AllHandled(BinSmget(d))
  <2>1. ASSUME NEW n
        PROVE Done([Take(d, "elem", n) EXCEPT !.coll_ecount = n, !.coll_op = "BOP_SMGET",
                                              !.state = "conn_mwrite"])
    <3>1. Packet(Take(d, "elem", n))
      BY SamePlain, SameKeeps, Zenon
    <3> QED BY <3>1, PacketFacts, Zenon DEF Done, Told, Base, ReplyFields
  <2>2. AllDone({[Take(d, "elem", n) EXCEPT !.coll_ecount = n, !.coll_op = "BOP_SMGET",
                                !.state = "conn_mwrite"] : n \in 0 .. MaxElems})
    BY <2>1, Zenon DEF AllDone
  <2>3. AllDone(write_bin_packet(d, 0) \cup BinRefused(d, 0, EngineErrors))
    BY BinEngineDone, UnionDone, Zenon
  <2>4. AllDone(BinSmget(d))
    BY <2>2, <2>3, DropDone, UnionDone, Zenon DEF BinSmget
  <2> QED BY <2>4, DoneHandled, Zenon
<1>8. AllHandled(process_bin_bop_nread_keys_complete(d))
  BY <1>6, <1>7, Zenon DEF process_bin_bop_nread_keys_complete,
     process_bin_bop_smget_complete, process_bin_bop_smget_complete_old
<1> QED BY <1>3, <1>4, <1>5, <1>8, Zenon

\* complete_nread_binary(): what is done with a body answers its packet.
LEMMA NreadBinaryHandled ==
  ASSUME NEW d, Reading(d), d.protocol = "binary"
  PROVE AllHandled(complete_nread_binary(d))
<1>0. Packet(d)
  BY Zenon DEF Reading, Packet
<1>1. AllHandled({[d EXCEPT !.fatal = TRUE]})
  <2>1. Reading([d EXCEPT !.fatal = TRUE])
    BY Zenon DEF Reading, Fit, Live, Base, ReplyFields, Silent
  <2> QED BY <2>1, Zenon DEF AllHandled, Handled
<1>2. /\ AllHandled(process_bin_append_prepend(d)) /\ AllHandled(process_bin_update(d))
      /\ AllHandled(process_bin_bop_prepare_nread_keys(d))
  BY <1>0, BinNreadHandled, Zenon DEF process_bin_append_prepend, process_bin_update
<1>3. /\ AllHandled(BinWrite(d)) /\ AllHandled(BinRead(d))
      /\ AllHandled(complete_incr_bin(d)) /\ AllHandled(process_bin_delete(d))
      /\ AllHandled(complete_update_bin(d))
      /\ AllHandled(process_bin_get(d)) /\ AllHandled(process_bin_stat(d))
      /\ AllHandled(process_bin_unknown_packet(d))
      /\ AllHandled(process_bin_lop_get(d)) /\ AllHandled(process_bin_sop_get(d))
      /\ AllHandled(process_bin_bop_get(d))
  BY <1>0, BinEngineDone, BinItemsDone, BinElemsDone, DoneHandled, Zenon
<1>4. /\ AllHandled(process_bin_flush(d)) /\ AllHandled(process_bin_flush_prefix(d))
      /\ AllHandled(process_bin_getattr(d)) /\ AllHandled(process_bin_setattr(d))
      /\ AllHandled(process_bin_lop_create(d)) /\ AllHandled(process_bin_lop_delete(d))
      /\ AllHandled(process_bin_sop_create(d)) /\ AllHandled(process_bin_bop_create(d))
      /\ AllHandled(process_bin_bop_delete(d)) /\ AllHandled(process_bin_bop_count(d))
  BY <1>3, Zenon DEF process_bin_flush, process_bin_flush_prefix,
     process_bin_getattr, process_bin_setattr, process_bin_lop_create,
     process_bin_lop_delete, process_bin_sop_create, process_bin_bop_create,
     process_bin_bop_delete, process_bin_bop_count
<1> QED BY <1>0, <1>1, <1>2, <1>3, <1>4, BinCollsHandled, Zenon
        DEF complete_nread_binary

\* dispatch_bin_command(): every packet is answered once, or not at all if
\* it is quiet.
LEMMA DispatchHandled ==
  ASSUME NEW d, NEW r, Base(d), d.replied = 0, d.protocol = "binary", ~Silent(d),
         d.wants => r.opt # "quiet"
  PROVE AllHandled(dispatch_bin_command(d, r))
<1> DEFINE e == [d EXCEPT !.noreply = (r.opt = "quiet"), !.cmd = r.cmd]
<1>1. Packet(e)
  <2>1. d.pipe_state = "OFF" /\ "OFF" \notin PipeErrors
    BY Zenon DEF Base, PipeErrors
  <2> QED BY <2>1, Zenon DEF Packet, Fit, Live, Base, ReplyFields, Silent
<1> HIDE DEF e
<1>2. \A sub : AllHandled(bin_read_key(e, sub))
  BY <1>1, BinNreadHandled, Zenon
<1>3. ASSUME NEW x, Done(x)
      PROVE Done([x EXCEPT !.write_and_go = "conn_closing"])
  BY <1>3, Zenon DEF Done, Told, Dropped, Base, ReplyFields, Silent
<1>4. AllHandled(handle_binary_protocol_error(e))
  <2>1. \A x \in write_bin_packet(e, 0) : Done(x)
    BY <1>1, BinPacketDone, Zenon DEF AllDone
  <2> QED BY <1>3, <2>1, Zenon DEF handle_binary_protocol_error, AllHandled, Handled
<1>5. ASSUME NEW x, Done(x)
      PROVE Done([x EXCEPT !.write_and_go = "conn_closing",
                           !.state = IF e.noreply THEN "conn_closing" ELSE @])
  <2>1. CASE e.noreply
    BY <1>5, <2>1, Zenon DEF Done, Told, Dropped, Base, ReplyFields, Silent
  <2>2. CASE ~e.noreply
    BY <1>5, <2>2, Zenon DEF Done, Told, Dropped, Base, ReplyFields, Silent
  <2> QED BY <2>1, <2>2, Zenon
<1>6. \A x \in write_bin_response(e) : Done(x)
  BY <1>1, BinPacketDone, Zenon DEF AllDone
<1>7. /\ AllHandled(write_bin_response(e))
      /\ AllHandled({[x EXCEPT !.write_and_go = "conn_closing",
                             !.state = IF e.noreply THEN "conn_closing" ELSE @] :
                     x \in write_bin_response(e)})
  BY <1>5, <1>6, Zenon DEF AllHandled, Handled
<1> QED BY <1>2, <1>4, <1>7, Zenon DEF dispatch_bin_command, e

-----------------------------------------------------------------------------
(***************************************************************************)
(* The invariant: where a request is.                                      *)
(***************************************************************************)

\* No request is being processed, and the last one has left nothing behind.
Between(d) ==
  /\ Base(d) /\ d.replied = 0
  /\ d.state \in {"conn_waiting", "conn_read", "conn_parse_cmd"}
  /\ ~d.wants /\ ~d.coll_eitem /\ ~d.coll_strkeys /\ ~d.ascii_cmd
  /\ d.protocol # "binary" => ~d.noreply

\* A reply is being sent.
Sending(d) ==
  /\ Base(d) /\ d.replied = 0
  /\ d.state \in {"conn_write", "conn_mwrite"}
  /\ d.protocol # "binary" => ~d.noreply

\* The request has had its reply, or wants none.
Answered(d) ==
  /\ Base(d) /\ d.replied \in {0, 1}
  /\ d.state \in {"conn_new_cmd", "conn_swallow"}
  /\ d.wants => d.replied = 1
  /\ d.protocol # "binary" => ~d.noreply

\* The connection is being closed, or is closed.
Over(d) == Base(d) /\ d.replied \in {0, 1} /\ d.state \in {"conn_closing", "closed"}

Placed(d) == Between(d) \/ Reading(d) \/ Sending(d) \/ Answered(d) \/ Over(d)

\* The invariant: the request is in one of these places, and the connection's
\* state tells in which.  AnsweredOnce alone is not inductive: it does not say
\* what a handler may start from, nor that noreply is reset by the time a reply
\* is sent.
ReplyInv == Placed(c)

\* What a step from conn_parse_cmd or conn_nread to d keeps of the error of a
\* pipeline.
ErrorHolds(b, d) ==
  d.more /\ d.legal =>
    /\ d.state = "conn_write" => d.pipe_state \in PipeErrors
    /\ b.pipe_state \in PipeErrors => d.pipe_state \in PipeErrors

\* All fields that replies are about are the same.
Alike(d, e) ==
  ReplyFields \subseteq DOMAIN d =>
    /\ DOMAIN e = DOMAIN d
    /\ \A f \in ReplyFields : e[f] = d[f]

-----------------------------------------------------------------------------
(***************************************************************************)
(* The state functions.                                                    *)
(***************************************************************************)

\* What leaves these fields alone leaves the request in its place.
LEMMA AlikeKeeps ==
  ASSUME NEW d, NEW e, Alike(d, e)
  PROVE Placed(d) => Placed(e)
<1>1. ASSUME ReplyFields \subseteq DOMAIN d
      PROVE /\ ReplyFields \subseteq DOMAIN e
            /\ e.state = d.state /\ e.write_and_go = d.write_and_go /\ e.protocol = d.protocol
            /\ e.noreply = d.noreply /\ e.pipe_state = d.pipe_state /\ e.wants = d.wants
            /\ e.more = d.more /\ e.legal = d.legal /\ e.replied = d.replied
            /\ e.coll_op = d.coll_op /\ e.coll_eitem = d.coll_eitem
            /\ e.coll_strkeys = d.coll_strkeys /\ e.coll_getrim = d.coll_getrim
            /\ e.ascii_cmd = d.ascii_cmd
  BY <1>1, Zenon DEF Alike, ReplyFields
<1>2. Base(d) => Base(e)
  BY <1>1, Zenon DEF Base
<1>3. Base(d) /\ Silent(e) => Silent(d)
  BY <1>1, Zenon DEF Silent, Base
<1>4. Reading(d) => Reading(e)
  <2> SUFFICES ASSUME Reading(d) PROVE Reading(e)
    OBVIOUS
  <2>1. Base(d)
    BY Zenon DEF Reading, Fit, Live
  <2>2. Fit(e)
    BY <1>1, <1>2, <1>3, <2>1, Zenon DEF Reading, Fit, Live, Base
  <2> QED BY <1>1, <2>1, <2>2, Zenon DEF Reading, Base
<1>5. (Between(d) => Between(e)) /\ (Sending(d) => Sending(e))
  BY <1>1, <1>2, Zenon DEF Between, Sending, Base
<1>6. (Answered(d) => Answered(e)) /\ (Over(d) => Over(e))
  BY <1>1, <1>2, Zenon DEF Answered, Over, Base
<1> QED BY <1>4, <1>5, <1>6, Zenon DEF Placed

\* The event loop, the notification of commits and the reading of input set
\* other fields.
LEMMA AlikePlain ==
  ASSUME NEW d, NEW x, NEW y, NEW z
  PROVE /\ Alike(d, [d EXCEPT !.rbytes = x]) /\ Alike(d, [d EXCEPT !.ewouldblock = x])
        /\ Alike(d, [d EXCEPT !.nevents = x]) /\ Alike(d, [d EXCEPT !.ev_flags = x])
        /\ Alike(d, [d EXCEPT !.waiters = x])
        /\ Alike(d, [d EXCEPT !.premature_io_complete = x])
        /\ Alike(d, [d EXCEPT !.current_io_wait = x]) /\ Alike(d, [d EXCEPT !.io_blocked = x])
        /\ Alike(d, [d EXCEPT !.registered = TRUE, !.nevents = x])
        /\ Alike(d, [d EXCEPT !.io_blocked = TRUE, !.registered = FALSE])
        /\ Alike(d, [d EXCEPT !.sbytes = x, !.rbytes = y, !.left = z])
        /\ Alike(d, [d EXCEPT !.rlbytes = x, !.rbytes = y, !.left = z])
        /\ Alike(d, [d EXCEPT !.sbytes = x, !.left = y])
        /\ Alike(d, [d EXCEPT !.rlbytes = x, !.left = y])
BY Zenon DEF Alike, ReplyFields

\* So do two such steps.
LEMMA AlikeChain ==
  ASSUME NEW d, NEW e, NEW f, Alike(d, e), Alike(e, f)
  PROVE Alike(d, f)
BY Zenon DEF Alike

\* What holds in all places.
LEMMA PlacedBase ==
  ASSUME NEW d, Placed(d)
  PROVE Base(d) /\ d.replied \in {0, 1}
BY Zenon DEF Placed, Between, Reading, Fit, Live, Sending, Answered, Over

\* A connection may be closed in any place.
LEMMA ClosingPlaced ==
  ASSUME NEW d, Placed(d)
  PROVE Placed(conn_set_state(d, "conn_closing"))
<1>1. Base(d) /\ d.replied \in {0, 1}
  BY PlacedBase, Zenon
<1>2. Over(conn_set_state(d, "conn_closing"))
  BY <1>1, Zenon DEF conn_set_state, Over, Base, ReplyFields
<1> QED BY <1>2, Zenon DEF Placed

\* The end of a handler is one of the places.
LEMMA HandledPlaced ==
  ASSUME NEW d, Handled(d)
  PROVE Placed(d)
BY Zenon DEF Handled, Done, Told, Dropped, Placed, Sending, Answered, Over

\* The places are told apart by the state.
LEMMA PlaceOf ==
  ASSUME NEW d, Placed(d)
  PROVE /\ d.state \in {"conn_waiting", "conn_read", "conn_parse_cmd"} => Between(d)
        /\ d.state = "conn_nread" => Reading(d)
        /\ d.state \in {"conn_write", "conn_mwrite"} => Sending(d)
        /\ d.state \in {"conn_new_cmd", "conn_swallow"} => Answered(d)
        /\ d.state \in {"conn_closing", "closed"} => Over(d)
<1>1. /\ Between(d) => d.state \in {"conn_waiting", "conn_read", "conn_parse_cmd"}
      /\ Reading(d) => d.state = "conn_nread"
      /\ Sending(d) => d.state \in {"conn_write", "conn_mwrite"}
      /\ Answered(d) => d.state \in {"conn_new_cmd", "conn_swallow"}
      /\ Over(d) => d.state \in {"conn_closing", "closed"}
  BY Zenon DEF Between, Reading, Sending, Answered, Over
<1> QED BY <1>1, Zenon DEF Placed

\* try_read_command() has read no whole request, or handles the one it read;
\* the error of a pipeline holds.
LEMMA CommandHandled ==
  ASSUME NEW d, Base(d), d.replied = 0, d.protocol \in {"ascii", "binary"},
         ~d.coll_eitem, ~d.coll_strkeys, ~d.ascii_cmd,
         d.protocol = "ascii" => ~d.noreply,
         NEW r, d.protocol = "ascii" => r \in AsciiRequests,
         d.protocol = "binary" => r \in BinaryRequests,
         d.pipe_state # "OFF" => r.cmd \in PipeCommands,
         NEW t \in try_read_command(d, r)
  PROVE \/ t.ret = 0 /\ t.c = d
        \/ t.ret # 0 /\ Handled(t.c) /\ ErrorHolds(d, t.c)
<1> DEFINE Kept(e) == [e EXCEPT !.rbytes = @ - 1]
           Good(e) == Handled(e) /\ ErrorHolds(d, e)
<1>1. ASSUME NEW e, Good(e) PROVE Good(Kept(e))
  <2>1. Alike(e, Kept(e)) /\ Same(e, Kept(e))
    BY AlikePlain, SamePlain, Zenon
  <2>2. Base(e)
    BY <1>1, Zenon DEF Handled, Done, Told, Dropped, Reading, Fit, Live
  <2>3. ErrorHolds(d, Kept(e))
    BY <1>1, <2>1, <2>2, Zenon DEF Same, Base, ErrorHolds
  <2>4. Handled(Kept(e))
    <3>1. CASE Done(e)
      BY <2>1, <3>1, SameKeeps, Zenon DEF Handled
    <3>2. CASE Reading(e)
      BY <3>2, Zenon DEF Handled, Reading, Fit, Live, Base, ReplyFields, Silent
    <3> QED BY <1>1, <3>1, <3>2, Zenon DEF Handled
  <2> QED BY <2>3, <2>4, Zenon
<1>2. Good(conn_set_state(d, "conn_closing"))
  BY Zenon DEF conn_set_state, Handled, Done, Dropped, Base, ReplyFields, ErrorHolds
<1>3. ASSUME NEW e, Handled(e), e.more, e.legal, e.state = "conn_write"
      PROVE e.pipe_state \in PipeErrors
  BY <1>3, Zenon DEF Handled, Done, Told, Dropped, Reading, Silent
<1>4. 0 # 1
  OBVIOUS
<1>5. CASE d.protocol = "binary"
  <2> DEFINE read == [Heard(d, r) EXCEPT !.left = BodyUnits(r.cmd)]
  <2>1. /\ Base(read) /\ read.replied = 0 /\ read.protocol = "binary" /\ ~Silent(read)
        /\ read.wants => r.opt # "quiet"
    <3>1. r.opt # "pipe"
      BY <1>5, PipeAssumption, Zenon
    <3> QED BY <1>5, <3>1, Zenon DEF Heard, Base, ReplyFields, Silent
  <2>2. d.pipe_state \notin PipeErrors
    BY <1>5, Zenon DEF Base, PipeErrors
  <2> HIDE DEF read
  <2>3. \A e \in dispatch_bin_command(read, r) : Handled(e)
    BY <2>1, DispatchHandled, Zenon DEF AllHandled
  <2>4. ASSUME NEW e \in dispatch_bin_command(read, r) PROVE Good(e)
    BY <1>3, <2>2, <2>3, Zenon DEF ErrorHolds
  <2>5. \/ t = [ret |-> 0, c |-> d]
        \/ t = [ret |-> 1, c |-> conn_set_state(d, "conn_closing")]
        \/ \E e \in dispatch_bin_command(read, r) : t = [ret |-> 1, c |-> Kept(e)]
    BY <1>5, Zenon DEF try_read_command, try_read_command_binary, read
  <2> HIDE DEF Good, Kept
  <2>6. CASE t = [ret |-> 0, c |-> d]
    BY <2>6, Zenon
  <2>7. CASE t = [ret |-> 1, c |-> conn_set_state(d, "conn_closing")]
    BY <1>2, <1>4, <2>7, Zenon DEF Good
  <2>8. ASSUME NEW e \in dispatch_bin_command(read, r), t = [ret |-> 1, c |-> Kept(e)]
        PROVE t.ret # 0 /\ Good(t.c)
    <3>1. Good(Kept(e))
      BY <1>1, <2>4, Zenon
    <3> QED BY <1>4, <2>8, <3>1, Zenon
  <2> QED BY <2>5, <2>6, <2>7, <2>8, Zenon DEF Good
<1>6. CASE d.protocol = "ascii"
  <2> DEFINE line == LineOf(d, r)
             read == [Heard(d, line) EXCEPT !.left = IF line.cmd \in BlockCommands THEN VLen ELSE 0]
  <2>1. line = r \/ line = NoCommand
    BY Zenon DEF LineOf
  <2>2. /\ line.opt = "pipe" => line.cmd \in PipeCommands
        /\ d.pipe_state # "OFF" => line.cmd \in PipeCommands \/ (line.cmd = "unknown" /\ ~line.valid)
    <3>1. CASE line = r
      <4> HIDE DEF line
      <4> QED BY <1>6, <3>1, PipeAssumption, Zenon
    <3>2. CASE line = NoCommand
      <4> HIDE DEF line
      <4> QED BY <3>2, Zenon DEF NoCommand
    <3> QED BY <2>1, <3>1, <3>2, Zenon
  <2> HIDE DEF line
  <2>3. Begun(read, line) /\ read.pipe_state = d.pipe_state
    BY <1>6, <2>2, Zenon DEF Heard, Begun, Base, ReplyFields
  <2> HIDE DEF read
  <2>4. \A e \in process_command_ascii(read, line) : Handled(e)
    BY <2>3, AsciiHandled, Zenon DEF AllHandled
  <2>5. ASSUME NEW e \in process_command_ascii(read, line) PROVE Good(e)
    BY <1>3, <2>3, <2>4, PipeStays, Zenon DEF ErrorHolds
  <2>6. \/ t = [ret |-> 0, c |-> d]
        \/ t = [ret |-> 1, c |-> conn_set_state(d, "conn_closing")]
        \/ \E e \in process_command_ascii(read, line) : t = [ret |-> 1, c |-> Kept(e)]
    BY <1>6, Zenon DEF try_read_command, try_read_command_ascii, read, line
  <2> HIDE DEF Good, Kept
  <2>7. CASE t = [ret |-> 0, c |-> d]
    BY <2>7, Zenon
  <2>8. CASE t = [ret |-> 1, c |-> conn_set_state(d, "conn_closing")]
    BY <1>2, <1>4, <2>8, Zenon DEF Good
  <2>9. ASSUME NEW e \in process_command_ascii(read, line), t = [ret |-> 1, c |-> Kept(e)]
        PROVE t.ret # 0 /\ Good(t.c)
    <3>1. Good(Kept(e))
      BY <1>1, <2>5, Zenon
    <3> QED BY <1>4, <2>9, <3>1, Zenon
  <2> QED BY <2>6, <2>7, <2>8, <2>9, Zenon DEF Good
<1> QED BY <1>5, <1>6, Zenon

\* complete_nread(): a request whose data block is read is handled.
LEMMA NreadCompleteHandled ==
  ASSUME NEW d, Reading(d)
  PROVE AllHandled(complete_nread(d))
<1>1. d.protocol \in {"ascii", "binary"}
  BY Zenon DEF Reading
<1>2. CASE d.protocol = "ascii"
  BY <1>2, NreadAsciiHandled, Zenon DEF complete_nread
<1>3. CASE d.protocol = "binary"
  BY <1>3, NreadBinaryHandled, Zenon DEF complete_nread
<1> QED BY <1>1, <1>2, <1>3, Zenon

\* The end of conn_parse_cmd() and of conn_nread().
LEMMA CheckPlaced ==
  ASSUME NEW d, Placed(d), CheckBlocked(d)
  PROVE ReplyInv' /\ \A b : ErrorHolds(b, d) => ErrorHolds(b, c')
<1> DEFINE e == [d EXCEPT !.ewouldblock = FALSE]
<1>1. Alike(d, e) /\ Same(d, e)
  BY AlikePlain, SamePlain, Zenon
<1>2. Placed(e)
  BY <1>1, AlikeKeeps, Zenon
<1>3. Base(d)
  BY PlacedBase, Zenon
<1>4. ASSUME NEW b, ErrorHolds(b, d) PROVE ErrorHolds(b, e)
  BY <1>1, <1>3, <1>4, Zenon DEF Same, Base, ErrorHolds
<1>5. c' = e
  BY Zenon DEF CheckBlocked
<1> HIDE DEF e
<1> QED BY <1>2, <1>4, <1>5, Zenon DEF ReplyInv

\* update_event() waits for the socket, or closes the connection.
LEMMA EventPlaced ==
  ASSUME NEW d, Placed(d), NEW flags, update_event(d, flags, d.state)
  PROVE ReplyInv'
<1>1. Placed([d EXCEPT !.ev_flags = flags])
  BY AlikePlain, AlikeKeeps, Zenon
<1>2. Base(d)
  BY PlacedBase, Zenon
<1>3. Alike(d, conn_set_state([d EXCEPT !.ev_flags = flags], d.state))
  BY <1>2, Zenon DEF Alike, conn_set_state, ReplyFields, Base
<1>4. /\ Placed(conn_set_state([d EXCEPT !.ev_flags = flags], d.state))
      /\ Placed(conn_set_state(d, "conn_closing"))
  BY <1>3, AlikeKeeps, ClosingPlaced, Zenon
<1> QED BY <1>4, Zenon DEF update_event, Stop, Go, ReplyInv

\* The answer to a network read that found no memory is a reply, after which
\* the connection is closed.
LEMMA NetworkFailurePlaced ==
  ASSUME Between(c)
  PROVE \A d \in try_read_network_failure : Placed(d)
<1> DEFINE x == [c EXCEPT !.rbytes = 0]
<1>1. Alike(c, x)
  BY AlikePlain, Zenon
<1>2. Base(x) /\ x.replied = 0 /\ x.protocol = c.protocol /\ (x.protocol # "binary" => ~x.noreply)
  BY Zenon DEF Between, Base, ReplyFields
<1>3. PICK d : d = x
  BY ZenonT(60)
<1> HIDE DEF x
<1>4. ASSUME NEW e, Sending(e) PROVE Placed([e EXCEPT !.write_and_go = "conn_closing"])
  <2>1. Sending([e EXCEPT !.write_and_go = "conn_closing"])
    BY <1>4, Zenon DEF Sending, Base, ReplyFields
  <2> QED BY <2>1, Zenon DEF Placed
<1>5. ASSUME d.protocol = "binary", NEW e \in write_bin_packet(d, 0) PROVE Sending(e)
  BY <1>2, <1>3, <1>5, ZenonT(60) DEF write_bin_packet, Sending, Base, ReplyFields
<1>6. ASSUME d.protocol # "binary", NEW e \in out_string(d, "severe") PROVE Sending(e)
  <2> DEFINE Mute(f) == /\ Base(f) /\ f.replied = 0 /\ f.protocol = d.protocol /\ ~f.noreply
  <2>1. Mute(d)
    BY <1>2, <1>3, <1>6, Zenon
  <2>2. ASSUME NEW f, Mute(f) PROVE Sending(Reply(f)) /\ Mute(pipe_state_clear(f))
    BY <1>6, <2>2, Zenon DEF Reply, pipe_state_clear, Sending, Base, ReplyFields, PipeStates
  <2>3. ASSUME NEW f, Mute(f), NEW y \in PipeErrors, d.pipe_state # "OFF"
        PROVE Mute([f EXCEPT !.pipe_state = y]) /\ Mute([f EXCEPT !.pipe_count = @ + 1])
    <3>1. d.protocol = "ascii"
      BY <2>1, <2>3, Zenon DEF Base
    <3> QED BY <2>3, <3>1, Zenon DEF Base, ReplyFields, PipeStates
  <2>4. {"ERR_BAD", "ERR_CFULL", "ERR_MFULL"} \subseteq PipeErrors
    BY Zenon DEF PipeErrors
  <2>5. ASSUME NEW f, Mute(f), NEW q PROVE Sending(OutString(f, q))
    <3> DEFINE g == IF f.pipe_state \in PipeErrors THEN [f EXCEPT !.noreply = FALSE] ELSE f
    <3>1. Mute(g)
      BY <2>5, Zenon DEF Base, ReplyFields
    <3>2. ~g.noreply
      BY <3>1, Zenon
    <3> HIDE DEF g, Mute
    <3>3. Sending(Reply(g)) /\ Sending(pipe_response_done(g, ~q))
      BY <2>2, <3>1, Zenon DEF pipe_response_done
    <3> QED BY <3>2, <3>3, Zenon DEF OutString, g
  <2> HIDE DEF Mute
  <2>6. ASSUME NEW f \in pipe_response_save(d, "severe"), d.pipe_state # "OFF" PROVE Mute(f)
    <3> DEFINE u == [d EXCEPT !.pipe_count = @ + 1]
    <3>1. /\ Mute(u) /\ Mute([u EXCEPT !.pipe_state = "ERR_BAD"])
          /\ Mute([u EXCEPT !.pipe_state = "ERR_CFULL"])
          /\ Mute([d EXCEPT !.pipe_state = "ERR_MFULL"]) /\ Mute(pipe_state_clear(d))
      BY <2>1, <2>2, <2>3, <2>4, <2>6, Zenon
    <3> QED BY <2>6, <3>1, Zenon DEF pipe_response_save
  <2> QED BY <1>6, <2>1, <2>5, <2>6, Zenon DEF out_string
<1>7. c.protocol = d.protocol
  BY <1>2, <1>3, Zenon
<1> QED BY <1>3, <1>4, <1>5, <1>6, <1>7, Zenon DEF try_read_network_failure, x

\* conn_waiting() and conn_read().
LEMMA ReadPlaced ==
  ASSUME ReplyInv, conn_waiting \/ conn_read
  PROVE ReplyInv'
<1>1. Between(c)
  BY PlaceOf, Zenon DEF ReplyInv, conn_waiting, conn_read, In
<1>2. ASSUME NEW x \in {"conn_waiting", "conn_read", "conn_parse_cmd"}, NEW y
      PROVE /\ Placed(conn_set_state(c, x))
            /\ Placed(conn_set_state([c EXCEPT !.ev_flags = y], x))
            /\ Placed([c EXCEPT !.rbytes = y, !.state = x])
  <2>1. /\ Between(conn_set_state(c, x))
        /\ Between(conn_set_state([c EXCEPT !.ev_flags = y], x))
        /\ Between([c EXCEPT !.rbytes = y, !.state = x])
    BY <1>1, Zenon DEF conn_set_state, Between, Base, ReplyFields
  <2> QED BY <2>1, Zenon DEF Placed
<1>3. Placed(conn_set_state(c, "conn_closing"))
  BY ClosingPlaced, Zenon DEF ReplyInv
<1>4. CASE conn_waiting
  BY <1>2, <1>3, <1>4, Zenon DEF conn_waiting, update_event, Stop, Go, ReplyInv
<1>5. CASE conn_read
  <2>1. \A d \in try_read_network_failure : Placed(d)
    BY <1>1, NetworkFailurePlaced, Zenon
  <2>2. ASSUME NEW d, Placed(d), Go(d) PROVE ReplyInv'
    BY <2>2, Zenon DEF Go, ReplyInv
  <2> QED BY <1>2, <1>3, <1>5, <2>1, <2>2, Zenon DEF conn_read, Closing
<1> QED BY <1>4, <1>5, Zenon

\* conn_parse_cmd() brings the request to its place, and the error of a
\* pipeline holds.
LEMMA ParsePlaced ==
  ASSUME ReplyInv, conn_parse_cmd
  PROVE ReplyInv' /\ ErrorHolds(c, c')
<1>1. Between(c)
  BY PlaceOf, Zenon DEF ReplyInv, conn_parse_cmd, In
<1>2. PICK q \in Requests :
        /\ c.protocol \in {"negotiating", q[1]} /\ ClientSends(q[2])
        /\ \E t \in try_read_command([c EXCEPT !.protocol = q[1]], q[2]) :
             CheckBlocked(IF t.ret = 0 THEN conn_set_state(t.c, "conn_waiting") ELSE t.c)
  BY Zenon DEF conn_parse_cmd
<1> DEFINE d == [c EXCEPT !.protocol = q[1]]
<1>3. PICK t \in try_read_command(d, q[2]) :
          CheckBlocked(IF t.ret = 0 THEN conn_set_state(t.c, "conn_waiting") ELSE t.c)
  BY <1>2, Zenon
<1>4. /\ \/ q[1] = "ascii" /\ q[2] \in AsciiRequests
         \/ q[1] = "binary" /\ q[2] \in BinaryRequests
      /\ "ascii" # "binary" /\ "negotiating" # "ascii" /\ "negotiating" # "binary"
  <2>1. q \in {"ascii"} \X AsciiRequests \/ q \in {"binary"} \X BinaryRequests
    BY Zenon DEF Requests
  <2>2. q \in {"ascii"} \X AsciiRequests => q[1] = "ascii" /\ q[2] \in AsciiRequests
    OBVIOUS
  <2>3. q \in {"binary"} \X BinaryRequests => q[1] = "binary" /\ q[2] \in BinaryRequests
    OBVIOUS
  <2>4. "ascii" # "binary" /\ "negotiating" # "ascii" /\ "negotiating" # "binary"
    OBVIOUS
  <2> QED BY <2>1, <2>2, <2>3, <2>4, Zenon
<1>5. /\ Base(d) /\ d.replied = 0 /\ d.protocol = q[1] /\ d.pipe_state = c.pipe_state
      /\ ~d.coll_eitem /\ ~d.coll_strkeys /\ ~d.ascii_cmd
      /\ d.protocol = "ascii" => ~d.noreply
      /\ Between(conn_set_state(d, "conn_waiting"))
      /\ ErrorHolds(d, conn_set_state(d, "conn_waiting"))
  <2>1. CASE q[1] = "ascii"
    BY <1>1, <1>2, <1>4, <2>1, Zenon DEF Between, Base, ReplyFields, conn_set_state, ErrorHolds
  <2>2. CASE q[1] = "binary"
    BY <1>1, <1>2, <1>4, <2>2, Zenon DEF Between, Base, ReplyFields, conn_set_state, ErrorHolds
  <2> QED BY <1>4, <2>1, <2>2, Zenon
<1>6. d.pipe_state # "OFF" => q[2].cmd \in PipeCommands
  BY <1>2, <1>5, Zenon DEF ClientSends
<1> HIDE DEF d
<1>7. d.protocol \in {"ascii", "binary"} /\ (d.protocol = "ascii" => q[2] \in AsciiRequests)
      /\ (d.protocol = "binary" => q[2] \in BinaryRequests)
  BY <1>4, <1>5, Zenon
<1>8. \/ t.ret = 0 /\ t.c = d
      \/ t.ret # 0 /\ Handled(t.c) /\ ErrorHolds(d, t.c)
  BY <1>3, <1>5, <1>6, <1>7, CommandHandled, Zenon
<1>9. PICK e : e = IF t.ret = 0 THEN conn_set_state(t.c, "conn_waiting") ELSE t.c
  OBVIOUS
<1>10. Placed(e) /\ ErrorHolds(d, e)
  <2>1. CASE t.ret = 0 /\ t.c = d
    BY <1>5, <1>9, <2>1, Zenon DEF Placed
  <2>2. CASE t.ret # 0 /\ Handled(t.c) /\ ErrorHolds(d, t.c)
    BY <1>9, <2>2, HandledPlaced, Zenon
  <2> QED BY <1>8, <2>1, <2>2, Zenon
<1>11. ReplyInv' /\ ErrorHolds(d, c')
  BY <1>3, <1>9, <1>10, CheckPlaced, Zenon
<1> QED BY <1>5, <1>11, Zenon DEF ErrorHolds

\* So does conn_nread(): no data block is read in a pipeline that has
\* failed.
LEMMA NreadPlaced ==
  ASSUME ReplyInv, conn_nread
  PROVE ReplyInv' /\ ErrorHolds(c, c')
<1>1. Reading(c) /\ c.state = "conn_nread" /\ Placed(c)
  BY PlaceOf, Zenon DEF ReplyInv, conn_nread, In
<1>2. c.pipe_state \notin PipeErrors /\ ReplyFields \subseteq DOMAIN c
  BY <1>1, Zenon DEF Reading, Fit, Live, Base
<1>3. CASE \E d \in complete_nread(c) : CheckBlocked(d)
  <2>1. PICK d \in complete_nread(c) : CheckBlocked(d)
    BY <1>3, Zenon
  <2>2. Handled(d)
    BY <1>1, NreadCompleteHandled, Zenon DEF AllHandled
  <2>3. ErrorHolds(c, d)
    <3>1. ASSUME d.more, d.legal, d.state = "conn_write"
          PROVE d.pipe_state \in PipeErrors
      BY <2>2, <3>1, Zenon DEF Handled, Done, Told, Dropped, Reading, Silent
    <3> QED BY <1>2, <3>1, Zenon DEF ErrorHolds
  <2> QED BY <2>1, <2>2, <2>3, HandledPlaced, CheckPlaced, Zenon
<1>4. ASSUME NEW d, Placed(d), d.state # "conn_write", Go(d)
      PROVE ReplyInv' /\ ErrorHolds(c, c')
  BY <1>2, <1>4, Zenon DEF Go, ReplyInv, ErrorHolds
<1>5. ASSUME NEW m
      PROVE LET u == [c EXCEPT !.rlbytes = @ - m, !.rbytes = @ - m, !.left = @ - m]
                v == [c EXCEPT !.rlbytes = @ - m, !.left = @ - m]
            IN Placed(u) /\ u.state # "conn_write" /\ Placed(v) /\ v.state # "conn_write"
  <2> DEFINE u == [c EXCEPT !.rlbytes = @ - m, !.rbytes = @ - m, !.left = @ - m]
             v == [c EXCEPT !.rlbytes = @ - m, !.left = @ - m]
  <2>1. Alike(c, u) /\ Alike(c, v)
    BY AlikePlain, Zenon
  <2>2. u.state = c.state /\ v.state = c.state
    BY <1>2, Zenon DEF ReplyFields
  <2> QED BY <1>1, <2>1, <2>2, AlikeKeeps, Zenon
<1>6. Placed(Closing) /\ Closing.state # "conn_write"
  BY <1>1, <1>2, ClosingPlaced, Zenon DEF Closing, conn_set_state, ReplyFields
<1>7. CASE update_event(c, "read", c.state)
  <2>1. ReplyInv'
    BY <1>1, <1>7, EventPlaced, Zenon
  <2>2. c'.state # "conn_write"
    BY <1>1, <1>2, <1>7, Zenon DEF update_event, Stop, Go, conn_set_state, ReplyFields
  <2> QED BY <1>2, <2>1, <2>2, Zenon DEF ErrorHolds
<1> QED BY <1>3, <1>4, <1>5, <1>6, <1>7, Zenon DEF conn_nread

\* reset_cmd_handler() leaves nothing of the request.
LEMMA ResetPlaced ==
  ASSUME NEW d, Answered(d)
  PROVE Placed(reset_cmd_handler(d))
<1> DEFINE e1 == ReleaseItem(d)
           e2 == ReleaseEitem(e1)
           e3 == ReleaseKeys(e2)
<1>1. Same(d, e1) /\ Same(e1, e2) /\ Same(e2, e3)
  BY SameRelease, Zenon
<1>2. ReplyFields \subseteq DOMAIN d
  BY Zenon DEF Answered, Base
<1>3. ReplyFields \subseteq DOMAIN e1 /\ ReplyFields \subseteq DOMAIN e2
      /\ ReplyFields \subseteq DOMAIN e3
  <2> HIDE DEF e1, e2, e3
  <2> QED BY <1>1, <1>2, Zenon DEF Same
<1>4. ~e2.coll_eitem
  <2> HIDE DEF e1
  <2>1. ReplyFields \subseteq DOMAIN conn_coll_eitem_free(e1)
    BY <1>3, SameFree, Zenon DEF Same
  <2> QED BY <1>3, <2>1, Zenon DEF ReleaseEitem, ReplyFields
<1>5. ~e3.coll_eitem /\ ~e3.coll_strkeys
  <2> HIDE DEF e2
  <2> QED BY <1>3, <1>4, Zenon DEF ReleaseKeys, Give, Take, ReplyFields
<1>6. /\ Base(e3) /\ (e3.protocol # "binary" => ~e3.noreply)
  <2> HIDE DEF e1, e2, e3
  <2>1. /\ e1.write_and_go = d.write_and_go /\ e1.pipe_state = d.pipe_state
        /\ e1.protocol = d.protocol /\ e1.noreply = d.noreply
    BY <1>1, <1>2, Zenon DEF Same
  <2>2. /\ e2.write_and_go = e1.write_and_go /\ e2.pipe_state = e1.pipe_state
        /\ e2.protocol = e1.protocol /\ e2.noreply = e1.noreply
    BY <1>1, <1>3, Zenon DEF Same
  <2>3. /\ e3.write_and_go = e2.write_and_go /\ e3.pipe_state = e2.pipe_state
        /\ e3.protocol = e2.protocol /\ e3.noreply = e2.noreply
    BY <1>1, <1>3, Zenon DEF Same
  <2>4. /\ e3.write_and_go = d.write_and_go /\ e3.pipe_state = d.pipe_state
        /\ e3.protocol = d.protocol /\ e3.noreply = d.noreply
    BY <2>1, <2>2, <2>3, Zenon
  <2> QED BY <1>3, <2>4, Zenon DEF Answered, Base
<1> HIDE DEF e1, e2, e3
<1>7. ASSUME NEW x \in {"conn_parse_cmd", "conn_waiting"}
      PROVE Between([e3 EXCEPT !.ascii_cmd = FALSE, !.cmd = "none", !.substate = "none",
                               !.wants = FALSE, !.replied = 0, !.state = x])
  BY <1>5, <1>6, <1>7, Zenon DEF Between, Base, ReplyFields
<1>8. Between(reset_cmd_handler(d))
  BY <1>7, Zenon DEF reset_cmd_handler, e1, e2, e3
<1> QED BY <1>8, Zenon DEF Placed

\* conn_new_cmd() and conn_swallow().
LEMMA NewCmdPlaced ==
  ASSUME ReplyInv, conn_new_cmd \/ conn_swallow
  PROVE ReplyInv'
<1>1. Answered(c) /\ Placed(c)
  BY PlaceOf, Zenon DEF ReplyInv, conn_new_cmd, conn_swallow, In
<1>2. ASSUME NEW d, Placed(d), Go(d) \/ Stop(d) PROVE ReplyInv'
  BY <1>2, Zenon DEF Go, Stop, ReplyInv
<1>3. CASE conn_new_cmd
  <2> DEFINE d == [c EXCEPT !.nevents = @ - 1]
  <2>1. Answered(d)
    BY <1>1, Zenon DEF Answered, Base, ReplyFields
  <2>2. \/ Go(reset_cmd_handler(d))
        \/ update_event(d, "write", d.state)
        \/ Stop(d)
    BY <1>3, Zenon DEF conn_new_cmd
  <2> HIDE DEF d
  <2>3. Placed(d)
    BY <2>1, Zenon DEF Placed
  <2> QED BY <1>2, <2>1, <2>2, <2>3, ResetPlaced, EventPlaced, Zenon
<1>4. CASE conn_swallow
  <2>1. Placed(Closing)
    BY <1>1, ClosingPlaced, Zenon DEF Closing
  <2>2. Placed(conn_set_state(c, "conn_new_cmd"))
    <3>1. Answered(conn_set_state(c, "conn_new_cmd"))
      BY <1>1, Zenon DEF Answered, Base, ReplyFields, conn_set_state
    <3> QED BY <3>1, Zenon DEF Placed
  <2>3. ASSUME NEW m
        PROVE /\ Placed([c EXCEPT !.sbytes = @ - m, !.rbytes = @ - m, !.left = @ - m])
              /\ Placed([c EXCEPT !.sbytes = @ - m, !.left = @ - m])
    <3>1. /\ Alike(c, [c EXCEPT !.sbytes = @ - m, !.rbytes = @ - m, !.left = @ - m])
          /\ Alike(c, [c EXCEPT !.sbytes = @ - m, !.left = @ - m])
      BY AlikePlain, Zenon
    <3> QED BY <1>1, <3>1, AlikeKeeps, Zenon
  <2>4. CASE update_event(c, "read", c.state)
    BY <1>1, <2>4, EventPlaced, Zenon
  <2> QED BY <1>2, <1>4, <2>1, <2>2, <2>3, <2>4, Zenon DEF conn_swallow
<1> QED BY <1>3, <1>4, Zenon

\* conn_write() and conn_mwrite(): a reply that has been sent is the first
\* one, and write_and_go says what follows.
LEMMA SendPlaced ==
  ASSUME ReplyInv, conn_write \/ conn_mwrite
  PROVE ReplyInv'
<1>1. Sending(c) /\ Placed(c)
  BY PlaceOf, Zenon DEF ReplyInv, conn_write, conn_mwrite, In
<1>2. 0 + 1 = 1
  OBVIOUS
<1>3. ASSUME NEW e, Same(c, e), NEW x \in {"conn_new_cmd", "conn_swallow", "conn_closing"}
      PROVE Placed([conn_set_state(e, x) EXCEPT !.replied = @ + 1])
  <2>1. /\ Base(e) /\ e.replied = 0 /\ (e.protocol # "binary" => ~e.noreply)
    BY <1>1, <1>3, Zenon DEF Sending, Base, Same
  <2>2. CASE x = "conn_closing"
    <3>1. Over([conn_set_state(e, x) EXCEPT !.replied = @ + 1])
      BY <1>2, <2>1, <2>2, Zenon DEF conn_set_state, Over, Base, ReplyFields
    <3> QED BY <3>1, Zenon DEF Placed
  <2>3. CASE x # "conn_closing"
    <3>1. Answered([conn_set_state(e, x) EXCEPT !.replied = @ + 1])
      BY <1>2, <1>3, <2>1, <2>3, Zenon DEF conn_set_state, Answered, Base, ReplyFields
    <3> QED BY <3>1, Zenon DEF Placed
  <2> QED BY <2>2, <2>3, Zenon
<1>4. Placed([SentString(c) EXCEPT !.replied = @ + 1])
  <2>1. c.write_and_go \in {"conn_new_cmd", "conn_swallow", "conn_closing"}
    BY <1>1, Zenon DEF Sending, Base
  <2> QED BY <1>3, <2>1, SameRelease, Zenon DEF SentString
<1>5. Placed([SentAll(c) EXCEPT !.replied = @ + 1])
  <2> DEFINE e == ReleaseBuffer(ReleaseKeys(ReleaseEitem(ReleaseSuffixes(
                      ReleasePrefixList(ReleaseItemList(c))))))
  <2>1. Same(c, ReleaseSuffixes(ReleasePrefixList(ReleaseItemList(c))))
    BY SameRelease, SameChain, Zenon
  <2>2. Same(c, e)
    <3> DEFINE l == ReleaseSuffixes(ReleasePrefixList(ReleaseItemList(c)))
    <3> HIDE DEF l
    <3>1. Same(l, ReleaseEitem(l)) /\ Same(ReleaseEitem(l), ReleaseKeys(ReleaseEitem(l)))
          /\ Same(ReleaseKeys(ReleaseEitem(l)), ReleaseBuffer(ReleaseKeys(ReleaseEitem(l))))
      BY SameRelease, Zenon
    <3>2. Same(l, ReleaseBuffer(ReleaseKeys(ReleaseEitem(l))))
      BY <3>1, SameChain, Zenon
    <3> QED BY <2>1, <3>2, SameChain, Zenon DEF l
  <2> HIDE DEF e
  <2>3. e.write_and_go \in {"conn_new_cmd", "conn_swallow", "conn_closing"}
    BY <1>1, <2>2, Zenon DEF Sending, Base, Same
  <2> QED BY <1>3, <2>2, <2>3, Zenon DEF SentAll, e
<1>6. ASSUME NEW sent, Placed([sent EXCEPT !.replied = @ + 1]), transmit(c, sent)
      PROVE ReplyInv'
  <2>1. CASE Go([sent EXCEPT !.replied = @ + 1])
    BY <1>6, <2>1, Zenon DEF Go, ReplyInv
  <2>2. CASE update_event(c, "write", c.state)
    BY <1>1, <2>2, EventPlaced, Zenon
  <2>3. CASE Go(conn_set_state(c, "conn_closing"))
    BY <1>1, <2>3, ClosingPlaced, Zenon DEF Go, ReplyInv
  <2> QED BY <1>6, <2>1, <2>2, <2>3, Zenon DEF transmit
<1> QED BY <1>4, <1>5, <1>6, Zenon DEF conn_write, conn_mwrite

\* conn_closing(), and the connection that takes the structure next.
LEMMA ClosePlaced ==
  ASSUME ReplyInv, conn_closing \/ NewConnection
  PROVE ReplyInv'
<1>1. Over(c)
  BY PlaceOf, Zenon DEF ReplyInv, conn_closing, NewConnection, In
<1>2. CASE conn_closing
  <2> DEFINE lists == IF c.ileft # 0 THEN ReleaseItemList(c) ELSE ReleasePrefixList(c)
             e == ReleaseBuffer(ReleaseSuffixes(ReleaseKeys(ReleaseEitem(ReleaseItem(lists)))))
  <2>1. Same(c, lists)
    BY SameRelease, Zenon
  <2>2. Same(c, e)
    <3> HIDE DEF lists
    <3> DEFINE k == ReleaseKeys(ReleaseEitem(ReleaseItem(lists)))
    <3>1. Same(lists, k)
      BY SameRelease, SameChain, Zenon
    <3> HIDE DEF k
    <3>2. Same(k, ReleaseBuffer(ReleaseSuffixes(k)))
      BY SameRelease, SameChain, Zenon
    <3>3. Same(c, ReleaseBuffer(ReleaseSuffixes(k)))
      BY <2>1, <3>1, <3>2, SameChain, Zenon
    <3> QED BY <3>3, Zenon DEF k
  <2> HIDE DEF e
  <2>3. Base(e) /\ e.replied \in {0, 1}
    BY <1>1, <2>2, Zenon DEF Over, Base, Same
  <2>4. Over([[e EXCEPT !.ewouldblock = FALSE, !.io_blocked = FALSE,
                        !.current_io_wait = 0, !.premature_io_complete = 0]
                 EXCEPT !.state = "closed", !.registered = FALSE])
    BY <2>3, Zenon DEF Over, Base, ReplyFields
  <2>5. Over(conn_close(c))
    BY <2>4, Zenon DEF conn_close, conn_cleanup, e
  <2> QED BY <1>2, <2>5, Zenon DEF conn_closing, Stop, ReplyInv, Placed
<1>3. CASE NewConnection
  <2>1. Answered([conn_new(c) EXCEPT !.left = 0, !.short = 0, !.legal = TRUE, !.wants = FALSE])
    BY <1>1, ZenonT(60) DEF conn_new, Over, Answered, Base, ReplyFields, PipeStates
  <2> QED BY <1>3, <2>1, Zenon DEF NewConnection, ReplyInv, Placed
<1> QED BY <1>2, <1>3, Zenon

\* What the event loop and the notifying thread do between state functions.
LEMMA LoopAlike ==
  ASSUME should_io_blocked \/ ReadEvent \/ WriteEvent \/ ResumeIo \/ notify_io_complete
  PROVE Alike(c, c')
<1>1. Alike(c, c)
  BY Zenon DEF Alike
<1>2. CASE should_io_blocked
  BY <1>1, <1>2, AlikePlain, Zenon DEF should_io_blocked
<1>3. CASE ReadEvent \/ WriteEvent
  <2>1. c' = [c EXCEPT !.nevents = ReqsPerEvent]
    BY <1>3, Zenon DEF ReadEvent, WriteEvent, event_handler
  <2> QED BY <2>1, AlikePlain, Zenon
<1>4. CASE ResumeIo
  BY <1>4, AlikePlain, Zenon DEF ResumeIo
<1>5. CASE notify_io_complete
  <2> DEFINE d == [c EXCEPT !.waiters = @ - 1]
             e == [d EXCEPT !.current_io_wait = @ - 1]
  <2>1. Alike(c, d) /\ Alike(d, e)
    BY AlikePlain, Zenon
  <2>2. \/ c' = d
        \/ \E x : c' = [e EXCEPT !.io_blocked = x]
        \/ \E x : c' = [d EXCEPT !.premature_io_complete = x]
    BY <1>5, Zenon DEF notify_io_complete
  <2> HIDE DEF d, e
  <2> QED BY <2>1, <2>2, AlikePlain, AlikeChain, Zenon
<1> QED BY <1>2, <1>3, <1>4, <1>5, Zenon

\* A connection structure starts closed.
LEMMA InitPlaced == Init => ReplyInv
<1>1. ReplyFields \subseteq DOMAIN NewConn
  BY DEF NewConn, ReplyFields
<1>2. Over(NewConn)
  BY <1>1, Zenon DEF NewConn, Over, Base, PipeStates
<1> QED BY <1>2, Zenon DEF Init, ReplyInv, Placed

\* Every step keeps the invariant, and the error of a pipeline holds in the
\* steps of conn_parse_cmd() and conn_nread().
LEMMA StepPlaced ==
  ASSUME ReplyInv, [Next]_vars
  PROVE ReplyInv' /\ (c.state \in {"conn_parse_cmd", "conn_nread"} => ErrorHolds(c, c'))
<1>1. ASSUME Alike(c, c')
      PROVE ReplyInv' /\ (c.state \in {"conn_parse_cmd", "conn_nread"} => ErrorHolds(c, c'))
  <2>1. ReplyInv'
    BY <1>1, AlikeKeeps, Zenon DEF ReplyInv
  <2>2. Base(c)
    BY PlacedBase, Zenon DEF ReplyInv
  <2>3. c'.state = c.state /\ c'.pipe_state = c.pipe_state
    BY <1>1, <2>2, Zenon DEF Alike, ReplyFields, Base
  <2> QED BY <2>1, <2>3, Zenon DEF ErrorHolds
<1>2. CASE conn_parse_cmd \/ conn_nread
  BY <1>2, ParsePlaced, NreadPlaced, Zenon
<1>3. CASE should_io_blocked \/ ReadEvent \/ WriteEvent \/ ResumeIo \/ notify_io_complete
  BY <1>1, <1>3, LoopAlike, Zenon
<1>4. CASE UNCHANGED vars
  BY <1>1, <1>4, Zenon DEF vars, Alike
<1>5. ASSUME \/ conn_waiting \/ conn_read \/ conn_new_cmd \/ conn_swallow \/ conn_write
             \/ conn_mwrite \/ conn_closing \/ NewConnection
      PROVE ReplyInv' /\ c.state \notin {"conn_parse_cmd", "conn_nread"}
  <2>1. ReplyInv'
    BY <1>5, ReadPlaced, NewCmdPlaced, SendPlaced, ClosePlaced, Zenon
  <2>2. c.state \notin {"conn_parse_cmd", "conn_nread"}
    BY <1>5, Zenon DEF conn_waiting, conn_read, conn_new_cmd, conn_swallow, conn_write,
       conn_mwrite, conn_closing, NewConnection, In
  <2> QED BY <2>1, <2>2, Zenon
<1> QED BY <1>2, <1>3, <1>4, <1>5, Zenon DEF Next, Worker

\* Where a request is, the state functions' states tell, and with it whether
\* it has been answered (Placed).
THEOREM ReplyInvariant == Spec => []ReplyInv
<1>1. ASSUME ReplyInv, [Next]_vars PROVE ReplyInv'
  BY <1>1, StepPlaced, Zenon
<1> QED BY <1>1, InitPlaced, PTL DEF Spec

\* No request is answered twice; one that wants a reply has had it when
\* conn_new_cmd() comes to the next request; and noreply of a line is not
\* left for the next one.
THEOREM RequestsAnsweredOnce == Spec => []AnsweredOnce
<1>1. ReplyInv => AnsweredOnce
  <2> SUFFICES ASSUME ReplyInv PROVE AnsweredOnce
    OBVIOUS
  <2>1. c.replied \in {0, 1}
    BY PlacedBase, Zenon DEF ReplyInv
  <2>2. c.replied <= 1
    BY <2>1
  <2>3. c.state = "conn_new_cmd" => Answered(c)
    BY PlaceOf, Zenon DEF ReplyInv
  <2>4. "ascii" # "binary"
    OBVIOUS
  <2> QED BY <2>2, <2>3, <2>4, Zenon DEF AnsweredOnce, Answered
<1> QED BY <1>1, ReplyInvariant, PTL

\* A well-formed request within a pipeline is not answered, unless by the
\* error that stops the pipeline, and after that error pipe_state stays in
\* error until the pipeline's last request.
THEOREM PipelineErrorLasts == Spec => PipeErrorHolds
<1> DEFINE Held == c.state \in {"conn_parse_cmd", "conn_nread"} /\ c'.more /\ c'.legal =>
                     /\ c'.state = "conn_write" => c'.pipe_state \in PipeErrors
                     /\ c.pipe_state \in PipeErrors => c'.pipe_state \in PipeErrors
<1>1. ASSUME ReplyInv, [Next]_vars PROVE [Held]_vars
  BY <1>1, StepPlaced, Zenon DEF ErrorHolds
<1> QED BY <1>1, ReplyInvariant, PTL DEF Spec, PipeErrorHolds

=============================================================================
