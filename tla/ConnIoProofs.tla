---------------------------- MODULE ConnIoProofs ----------------------------
(***************************************************************************)
(* A connection and the commits it waits for: the proofs of ConnServer's   *)
(* NotifiedInTime and NeverForgotten, for every set of requests, every     *)
(* client and every limit.                                                 *)
(*                                                                         *)
(* The argument is about the handlers.  Each starts from a connection that *)
(* waits for nothing (Open) and leaves one that waits for nothing (Ready)  *)
(* or for the one commit its engine call started (Waits); in the second    *)
(* case it has kept ewouldblock, has not closed the connection and has not *)
(* taken the request for one without a reply, which would reset            *)
(* ewouldblock.  There is a lemma for each group of handlers of the two    *)
(* protocols, down to the functions that free, reply and swallow.  IoInv   *)
(* then follows the connection between the worker's event loop, the        *)
(* handlers and the thread that notifies.                                  *)
(***************************************************************************)
EXTENDS ConnServer, TLAPS

-----------------------------------------------------------------------------
(***************************************************************************)
(* The connection inside a handler.                                        *)
(***************************************************************************)

\* The fields that waiting for a commit and for events is about.
IoFields ==
  {"state", "write_and_go", "noreply", "ewouldblock", "io_blocked",
   "registered", "current_io_wait", "premature_io_complete", "waiters",
   "rbytes", "ev_flags"}

\* The worker runs the connection: it is watched, and not waiting.
Core(d) ==
  /\ IoFields \subseteq DOMAIN d
  /\ d.premature_io_complete = 0 /\ d.waiters = d.current_io_wait
  /\ ~d.io_blocked /\ d.registered
  /\ d.state # "closed" /\ d.write_and_go # "closed"

\* No commit to wait for.
Ready(d) == Core(d) /\ d.waiters = 0 /\ ~d.ewouldblock

\* One commit to wait for: the handler must not forget it (ewouldblock), close
\* the connection, or take the request for one without a reply.
Waits(d) ==
  /\ Core(d) /\ d.waiters = 1 /\ d.ewouldblock
  /\ ~d.noreply /\ d.state # "conn_closing"

Sound(d) == Ready(d) \/ Waits(d)

\* Before a request, or with its data block still to come.
Open(d) == Ready(d) /\ d.state # "conn_closing"

AllSound(S) == \A d \in S : Sound(d)

\* What an engine call may return: only a success waits for a commit.
Result(e) == IF e.ret = "SUCCESS" THEN Open(e.c) \/ Waits(e.c) ELSE Open(e.c)

AllResults(E) == \A e \in E : Result(e)

\* A connection before its request waits for nothing.
LEMMA OpenSound == \A d : Open(d) => Sound(d) /\ Ready(d)
BY Zenon DEF Open, Sound

\* What a connection holds is no part of waiting.
LEMMA TakeSound ==
  ASSUME NEW d, NEW r, NEW n
  PROVE /\ Sound(d) => Sound(Take(d, r, n)) /\ Sound(Give(d, r, n))
        /\ Ready(d) => Ready(Take(d, r, n)) /\ Ready(Give(d, r, n))
        /\ Open(d) => Open(Take(d, r, n)) /\ Open(Give(d, r, n))
<1>1. ASSUME NEW m PROVE /\ Sound(d) => Sound(Take(d, r, m))
                         /\ Ready(d) => Ready(Take(d, r, m))
                         /\ Open(d) => Open(Take(d, r, m))
  BY Zenon DEF Take, Sound, Open, Ready, Waits, Core, IoFields
<1> QED BY <1>1, Zenon DEF Give

\* conn_set_state() keeps a commit waited for, unless it closes the
\* connection, and may close one that waits for nothing.
LEMMA SetStateSound ==
  ASSUME NEW d, NEW s, s # "closed"
  PROVE /\ Ready(d) => Ready(conn_set_state(d, s)) /\ Sound(conn_set_state(d, s))
        /\ Sound(d) /\ s # "conn_closing" => Sound(conn_set_state(d, s))
BY Zenon DEF conn_set_state, Sound, Ready, Waits, Core, IoFields

\* conn_coll_eitem_free() is no part of waiting, its assert(0) included.
LEMMA FreeSound ==
  ASSUME NEW d, Sound(d)
  PROVE Sound(FreeResps(d)) /\ Sound(conn_coll_eitem_free(d))
<1>1. ASSUME NEW e, Sound(e) PROVE Sound(FreeResps(e))
  <2>1. Sound(Give(e, "resp", 1))
    BY <1>1, TakeSound, Zenon
  <2>2. Sound([Give(e, "resp", 1) EXCEPT !.coll_resps = FALSE])
    BY <2>1, Zenon DEF Sound, Ready, Waits, Core, IoFields
  <2> QED BY <1>1, <2>2, Zenon DEF FreeResps
<1>2. Sound([d EXCEPT !.fatal = TRUE])
  BY Zenon DEF Sound, Ready, Waits, Core, IoFields
<1>3. ASSUME NEW m, NEW n PROVE Sound(Give(Give(d, "elem", m), "block", n))
  BY TakeSound, Zenon
<1>4. Sound(Give(d, "elem", 1)) /\ Sound(Give(d, "block", 1))
  BY TakeSound, Zenon
<1>5. /\ Sound(FreeResps(Give(Give(d, "elem", d.coll_ecount), "block", 1)))
      /\ Sound(FreeResps(Give(d, "elem", 1)))
  BY <1>1, <1>3, <1>4, Zenon
<1>6. Sound(conn_coll_eitem_free(d))
  BY <1>2, <1>3, <1>4, <1>5, Zenon DEF conn_coll_eitem_free
<1> QED BY <1>1, <1>6, Zenon

\* Nor are the releases of reset_cmd_handler(), conn_cleanup() and the end
\* of conn_mwrite().
LEMMA ReleaseSound ==
  ASSUME NEW d, Sound(d)
  PROVE /\ Sound(ReleaseItem(d)) /\ Sound(ReleaseEitem(d)) /\ Sound(ReleaseKeys(d))
        /\ Sound(ReleaseItemList(d)) /\ Sound(ReleasePrefixList(d))
        /\ Sound(ReleaseSuffixes(d)) /\ Sound(ReleaseBuffer(d))
<1>1. /\ Sound(Give(d, "item", 1)) /\ Sound(Give(d, "keys", 1))
      /\ Sound(Give(d, "item", d.ileft)) /\ Sound(Give(d, "prefix", d.pleft))
      /\ Sound(Give(d, "suffix", d.suffixleft)) /\ Sound(Give(d, "wfree", 1))
      /\ Sound(conn_coll_eitem_free(d))
  BY TakeSound, FreeSound, Zenon
<1>2. ASSUME NEW e, Sound(e)
      PROVE /\ Sound([e EXCEPT !.item = FALSE])
            /\ Sound([e EXCEPT !.coll_eitem = FALSE])
            /\ Sound([e EXCEPT !.coll_strkeys = FALSE])
            /\ Sound([e EXCEPT !.ileft = 0])
            /\ Sound([e EXCEPT !.pleft = 0])
            /\ Sound([e EXCEPT !.suffixleft = 0])
            /\ Sound([e EXCEPT !.write_and_free = FALSE])
  BY <1>2, Zenon DEF Sound, Ready, Waits, Core, IoFields
<1> QED BY <1>1, <1>2, Zenon DEF ReleaseItem, ReleaseEitem, ReleaseKeys,
           ReleaseItemList, ReleasePrefixList, ReleaseSuffixes, ReleaseBuffer

\* As FreeSound, for a connection that waits for nothing.
LEMMA FreeReady ==
  ASSUME NEW d, Ready(d)
  PROVE Ready(FreeResps(d)) /\ Ready(conn_coll_eitem_free(d))
<1>1. ASSUME NEW e, Ready(e) PROVE Ready(FreeResps(e))
  <2>1. Ready(Give(e, "resp", 1))
    BY <1>1, TakeSound, Zenon
  <2>2. Ready([Give(e, "resp", 1) EXCEPT !.coll_resps = FALSE])
    BY <2>1, Zenon DEF Ready, Core, IoFields
  <2> QED BY <1>1, <2>2, Zenon DEF FreeResps
<1>2. Ready([d EXCEPT !.fatal = TRUE])
  BY Zenon DEF Ready, Core, IoFields
<1>3. ASSUME NEW m, NEW n PROVE Ready(Give(Give(d, "elem", m), "block", n))
  BY TakeSound, Zenon
<1>4. Ready(Give(d, "elem", 1)) /\ Ready(Give(d, "block", 1))
  BY TakeSound, Zenon
<1>5. /\ Ready(FreeResps(Give(Give(d, "elem", d.coll_ecount), "block", 1)))
      /\ Ready(FreeResps(Give(d, "elem", 1)))
  BY <1>1, <1>3, <1>4, Zenon
<1>6. Ready(conn_coll_eitem_free(d))
  BY <1>2, <1>3, <1>4, <1>5, Zenon DEF conn_coll_eitem_free
<1> QED BY <1>1, <1>6, Zenon

\* As ReleaseSound, for a connection that waits for nothing.
LEMMA ReleaseReady ==
  ASSUME NEW d, Ready(d)
  PROVE /\ Ready(ReleaseItem(d)) /\ Ready(ReleaseEitem(d)) /\ Ready(ReleaseKeys(d))
        /\ Ready(ReleaseItemList(d)) /\ Ready(ReleasePrefixList(d))
        /\ Ready(ReleaseSuffixes(d)) /\ Ready(ReleaseBuffer(d))
<1>1. /\ Ready(Give(d, "item", 1)) /\ Ready(Give(d, "keys", 1))
      /\ Ready(Give(d, "item", d.ileft)) /\ Ready(Give(d, "prefix", d.pleft))
      /\ Ready(Give(d, "suffix", d.suffixleft)) /\ Ready(Give(d, "wfree", 1))
      /\ Ready(conn_coll_eitem_free(d))
  BY TakeSound, FreeReady, Zenon
<1>2. ASSUME NEW e, Ready(e)
      PROVE /\ Ready([e EXCEPT !.item = FALSE])
            /\ Ready([e EXCEPT !.coll_eitem = FALSE])
            /\ Ready([e EXCEPT !.coll_strkeys = FALSE])
            /\ Ready([e EXCEPT !.ileft = 0])
            /\ Ready([e EXCEPT !.pleft = 0])
            /\ Ready([e EXCEPT !.suffixleft = 0])
            /\ Ready([e EXCEPT !.write_and_free = FALSE])
  BY <1>2, Zenon DEF Ready, Core, IoFields
<1> QED BY <1>1, <1>2, Zenon DEF ReleaseItem, ReleaseEitem, ReleaseKeys,
           ReleaseItemList, ReleasePrefixList, ReleaseSuffixes, ReleaseBuffer

\* What an engine call leaves: a write waits for its commit only when it
\* succeeds for a request that wants a reply; waitfor_io_complete() then
\* counts it once.
LEMMA EngineResults ==
  ASSUME NEW d, Open(d)
  PROVE AllResults(EngineRead(d)) /\ AllResults(EngineWrite(d))
<1>1. AllResults(EngineRead(d))
  BY Zenon DEF EngineRead, AllResults, Result
<1>2. ASSUME ~d.noreply PROVE Waits(Blocked(d))
  <2>1. d.waiters + 1 = 1 /\ d.current_io_wait + 1 = 1
    BY DEF Open, Ready, Core
  <2>2. Blocked(d) =
          [[[d EXCEPT !.waiters = @ + 1] EXCEPT !.current_io_wait = @ + 1]
             EXCEPT !.ewouldblock = TRUE]
    BY Zenon DEF Blocked, waitfor_io_complete, Open, Ready, Core, IoFields
  <2>3. Waits([[[d EXCEPT !.waiters = @ + 1] EXCEPT !.current_io_wait = @ + 1]
             EXCEPT !.ewouldblock = TRUE])
    BY <1>2, <2>1, Zenon DEF Open, Ready, Waits, Core, IoFields
  <2> QED BY <2>2, <2>3, Zenon
<1>3. AllResults(EngineWrite(d))
  <2>1. ASSUME NEW e \in [ret : {"SUCCESS"}, c : {Blocked(d)}], ~d.noreply
        PROVE Result(e)
    BY <1>2, <2>1, Zenon DEF Result
  <2> QED BY <1>1, <2>1, Zenon DEF EngineWrite, AllResults
<1> QED BY <1>1, <1>3, Zenon

\* out_string() keeps a commit waited for: the branch that resets
\* ewouldblock is taken with noreply set, when the engine does not let a
\* request wait.
LEMMA OutStringSound ==
  ASSUME NEW d, NEW s
  PROVE /\ Sound(d) => AllSound(out_string(d, s))
<1>1. ASSUME NEW e, NEW b, Sound(e) PROVE Sound(OutString(e, b))
  BY <1>1, Zenon DEF OutString, pipe_response_done, pipe_state_clear, Reply,
     Sound, Ready, Waits, Core, IoFields
<1>2. ASSUME Sound(d), NEW e \in pipe_response_save(d, s) PROVE Sound(e)
  <2>1. Sound(pipe_state_clear(d))
    BY <1>2, Zenon DEF pipe_state_clear, Sound, Ready, Waits, Core, IoFields
  <2>2. Sound([d EXCEPT !.pipe_state = "ERR_MFULL"])
    BY <1>2, Zenon DEF Sound, Ready, Waits, Core, IoFields
  <2>3. Sound([d EXCEPT !.pipe_count = @ + 1])
    BY <1>2, Zenon DEF Sound, Ready, Waits, Core, IoFields
  <2>4. ASSUME NEW x, Sound(x)
        PROVE /\ Sound([x EXCEPT !.pipe_state = "ERR_BAD"])
              /\ Sound([x EXCEPT !.pipe_state = "ERR_CFULL"])
    BY <2>4, Zenon DEF Sound, Ready, Waits, Core, IoFields
  <2> QED BY <1>2, <2>1, <2>2, <2>3, <2>4, Zenon DEF pipe_response_save
<1> QED BY <1>1, <1>2, Zenon DEF out_string, AllSound

\* out_string() starts no wait.
LEMMA OutStringReady ==
  ASSUME NEW d, NEW s
  PROVE Ready(d) => (\A e \in out_string(d, s) : Ready(e))
<1>1. ASSUME NEW e, NEW b, Ready(e) PROVE Ready(OutString(e, b))
  BY <1>1, Zenon DEF OutString, pipe_response_done, pipe_state_clear, Reply,
     Ready, Core, IoFields
<1>2. ASSUME Ready(d), NEW e \in pipe_response_save(d, s) PROVE Ready(e)
  <2>1. Ready(pipe_state_clear(d))
    BY <1>2, Zenon DEF pipe_state_clear, Ready, Core, IoFields
  <2>2. Ready([d EXCEPT !.pipe_state = "ERR_MFULL"])
    BY <1>2, Zenon DEF Ready, Core, IoFields
  <2>3. Ready([d EXCEPT !.pipe_count = @ + 1])
    BY <1>2, Zenon DEF Ready, Core, IoFields
  <2>4. ASSUME NEW x, Ready(x)
        PROVE /\ Ready([x EXCEPT !.pipe_state = "ERR_BAD"])
              /\ Ready([x EXCEPT !.pipe_state = "ERR_CFULL"])
    BY <2>4, Zenon DEF Ready, Core, IoFields
  <2> QED BY <1>2, <2>1, <2>2, <2>3, <2>4, Zenon DEF pipe_response_save
<1> QED BY <1>1, <1>2, Zenon DEF out_string

\* The reply to an error of the engine, DISCONNECT included, comes when
\* nothing is waited for.
LEMMA ErrorSound ==
  ASSUME NEW d, NEW ret, Ready(d)
  PROVE AllSound(handle_unexpected_errorcode_ascii(d, ret))
<1>1. /\ AllSound(out_string(d, "ok")) /\ AllSound(out_string(d, "severe"))
      /\ Sound(conn_set_state(d, "conn_closing"))
  BY OutStringSound, SetStateSound, Zenon DEF Sound
<1> QED BY <1>1, Zenon DEF handle_unexpected_errorcode_ascii, AllSound

\* The switch on the result of the engine that ends the ASCII handlers.
LEMMA RepliesSound ==
  ASSUME NEW E, AllResults(E)
  PROVE /\ \A e \in E : AllSound(ReplyResult(e))
        /\ AllSound(Replies(E))
<1>1. ASSUME NEW e \in E PROVE AllSound(ReplyResult(e))
  <2>1. Result(e)
    BY Zenon DEF AllResults
  <2>2. Sound(e.c) /\ (e.ret # "SUCCESS" => Ready(e.c))
    BY <2>1, Zenon DEF Result, Open, Sound
  <2> QED BY <2>2, OutStringSound, ErrorSound, Zenon DEF ReplyResult
<1> QED BY <1>1, Zenon DEF Replies, AllSound

\* Swallowing a data block keeps a commit waited for.
LEMMA SwallowSound ==
  ASSUME NEW d, Sound(d), NEW n
  PROVE Sound(SwallowAfter(d, n))
BY Zenon DEF SwallowAfter, Sound, Ready, Waits, Core, IoFields

\* Fields that have nothing to do with waiting.
LEMMA PlainFields ==
  ASSUME NEW d, NEW x
  PROVE /\ Sound(d) => /\ Sound([d EXCEPT !.coll_eitem = x])
                       /\ Sound([d EXCEPT !.coll_op = x])
                       /\ Sound([d EXCEPT !.rbytes = @ - x])
                       /\ Sound([d EXCEPT !.ileft = x])
        /\ Open(d) => /\ Open([d EXCEPT !.coll_eitem = x])
                      /\ Open([d EXCEPT !.coll_op = x])
                      /\ Open([d EXCEPT !.ileft = x])
BY Zenon DEF Sound, Open, Ready, Waits, Core, IoFields

\* Parsing noreply and pipe starts no wait.
LEMMA NoreplyOpen ==
  ASSUME NEW d, Open(d), NEW r
  PROVE /\ Open(set_noreply_maybe(d, r)) /\ Open(set_pipe_noreply_maybe(d, r))
        /\ Open(set_pipe_maybe(d, r))
BY Zenon DEF set_noreply_maybe, set_pipe_noreply_maybe, set_pipe_maybe, Open, Ready,
   Core, IoFields

\* A request in a pipeline that has failed waits for nothing.
LEMMA SkipSound ==
  ASSUME NEW d, Open(d), NEW n
  PROVE Sound(SkipData(check_and_handle_pipe_state(d), n))
BY Zenon DEF SkipData, check_and_handle_pipe_state, pipe_state_clear,
   conn_set_state, Sound, Open, Ready, Core, IoFields

\* The handlers that call the engine and reply.
LEMMA EngineSound ==
  ASSUME NEW d, Open(d)
  PROVE /\ AllSound(Write(d)) /\ AllSound(Read(d)) /\ AllSound(Answer(d))
        /\ AllSound(out_string(d, "ok")) /\ AllSound(out_string(d, "severe"))
<1>1. AllSound(Write(d)) /\ AllSound(Read(d))
  BY EngineResults, RepliesSound, Zenon DEF Write, Read
<1>2. AllSound(out_string(d, "ok")) /\ AllSound(out_string(d, "severe"))
  BY OpenSound, OutStringSound, Zenon
<1> QED BY <1>1, <1>2, Zenon DEF Answer, AllSound

\* An allocation that is refused: an error, and the block is swallowed.
LEMMA RefusedSound ==
  ASSUME NEW d, Open(d), NEW n, NEW errors
  PROVE AllSound(Refused(d, n, errors))
<1>1. \A e : AllSound(handle_unexpected_errorcode_ascii(d, e))
  BY OpenSound, ErrorSound, Zenon
<1> QED BY <1>1, SwallowSound, Zenon DEF Refused, AllSound

\* The handlers that allocate for a data block and go to conn_nread.
LEMMA NreadSound ==
  ASSUME NEW d, Open(d), NEW op
  PROVE /\ AllSound(NreadElem(d, op)) /\ AllSound(NreadValue(d, op))
        /\ AllSound(process_mop_prepare_nread_fields(d, op))
        /\ AllSound(process_prepare_nread_keys(d, op))
        /\ AllSound(process_bop_prepare_nread_keys(d, op))
        /\ Sound(Nread([Take(d, "item", 1) EXCEPT !.item = TRUE]))
        /\ Sound(Nread([d EXCEPT !.ascii_cmd = TRUE]))
<1>1. ASSUME NEW e, Open(e)
      PROVE /\ Sound(Nread([e EXCEPT !.coll_eitem = TRUE, !.coll_ecount = 1, !.coll_op = op]))
            /\ Sound(Nread([e EXCEPT !.coll_strkeys = TRUE, !.coll_ecount = 1, !.coll_op = op]))
            /\ Sound(Nread([e EXCEPT !.coll_strkeys = TRUE, !.coll_op = op]))
            /\ Sound(Nread([e EXCEPT !.coll_strkeys = TRUE, !.coll_eitem = TRUE,
                                     !.coll_ecount = 0, !.coll_op = op]))
            /\ Sound(Nread([e EXCEPT !.item = TRUE]))
            /\ Sound(Nread([e EXCEPT !.ascii_cmd = TRUE]))
  BY <1>1, Zenon DEF Nread, Sound, Open, Ready, Core, IoFields
<1>2. \A e : Open(e) => \A r, n : Open(Take(e, r, n))
  BY TakeSound, Zenon
<1>3. \A n, errors : AllSound(Refused(d, n, errors))
  BY RefusedSound, Zenon
<1> QED BY <1>1, <1>2, <1>3, Zenon DEF NreadElem, NreadValue, AllSound,
           process_mop_prepare_nread_fields, process_prepare_nread_keys,
           process_bop_prepare_nread_keys

\* The handlers that begin the reading of an element or a value.
LEMMA PrepareSound ==
  ASSUME NEW d, Open(d), NEW op
  PROVE /\ AllSound(process_lop_prepare_nread(d))
        /\ AllSound(process_sop_prepare_nread(d, op))
        /\ AllSound(process_mop_prepare_nread(d, op))
        /\ AllSound(process_bop_prepare_nread(d, op))
        /\ AllSound(process_bop_update_prepare_nread(d))
<1>1. \A o : AllSound(NreadElem(d, o)) /\ AllSound(NreadValue(d, o))
  BY NreadSound, Zenon
<1> QED BY <1>1, Zenon DEF process_lop_prepare_nread, process_sop_prepare_nread,
           process_mop_prepare_nread, process_bop_prepare_nread,
           process_bop_update_prepare_nread

\* Responses with elements, and with the element that an insert trimmed.
LEMMA ElemsSound ==
  ASSUME NEW d, Sound(d), NEW op, NEW n
  PROVE AllSound(ElemsResponse(d, op, n)) /\ AllSound(out_bop_trim_response(d))
<1>1. ASSUME NEW e, Sound(e)
      PROVE /\ Sound([e EXCEPT !.coll_eitem = TRUE, !.coll_ecount = n,
                               !.coll_resps = TRUE, !.coll_op = op,
                               !.state = "conn_mwrite"])
            /\ Sound([e EXCEPT !.coll_eitem = TRUE, !.coll_ecount = 1,
                               !.coll_resps = TRUE, !.state = "conn_mwrite"])
  BY <1>1, Zenon DEF Sound, Ready, Waits, Core, IoFields
<1>2. Sound(KeepElems(d, op, n))
  BY <1>1, TakeSound, Zenon DEF KeepElems
<1>3. AllSound(out_string(GiveElems(d, n), "severe"))
      /\ AllSound(out_string(Give(d, "elem", 1), "severe"))
  BY TakeSound, OutStringSound, Zenon DEF GiveElems
<1>4. Sound([Take(d, "resp", 1) EXCEPT !.coll_eitem = TRUE, !.coll_ecount = 1,
                               !.coll_resps = TRUE, !.state = "conn_mwrite"])
  BY <1>1, TakeSound, Zenon
<1> QED BY <1>2, <1>3, <1>4, Zenon DEF ElemsResponse, out_bop_trim_response, AllSound

\* The handlers of the commands that return elements.
LEMMA GetElemsSound ==
  ASSUME NEW d, Open(d)
  PROVE /\ AllSound(process_lop_get(d)) /\ AllSound(process_sop_get(d))
        /\ AllSound(process_bop_get(d)) /\ AllSound(process_bop_pwg(d))
        /\ AllSound(process_bop_gbp(d))
        /\ AllSound(WithElems(EngineWrite(d), out_mop_get_response))
<1>1. AllResults(EngineRead(d)) /\ AllResults(EngineWrite(d))
  BY EngineResults, Zenon
<1>2. ASSUME NEW E, AllResults(E), NEW e \in E
      PROVE /\ AllSound(ReplyResult(e))
            /\ e.ret = "SUCCESS" =>
                 \A op, n : AllSound(ElemsResponse(TakeElems(e.c, n), op, n))
  <2>1. AllSound(ReplyResult(e))
    BY <1>2, RepliesSound, Zenon
  <2>2. ASSUME e.ret = "SUCCESS", NEW op, NEW n
        PROVE AllSound(ElemsResponse(TakeElems(e.c, n), op, n))
    <3>1. Sound(e.c)
      BY <1>2, <2>2, Zenon DEF AllResults, Result, Sound, Open
    <3>2. Sound(TakeElems(e.c, n))
      BY <3>1, TakeSound, Zenon DEF TakeElems
    <3> QED BY <3>2, ElemsSound, Zenon
  <2> QED BY <2>1, <2>2, Zenon
<1>3. ASSUME NEW E, AllResults(E)
      PROVE /\ AllSound(WithElems(E, out_lop_get_response))
            /\ AllSound(WithElems(E, out_sop_get_response))
            /\ AllSound(WithElems(E, out_mop_get_response))
            /\ AllSound(WithElems(E, out_bop_get_response))
            /\ AllSound(WithElems(E, out_bop_pwg_response))
            /\ AllSound(WithElems(E, out_bop_gbp_response))
  <2>1. \A e \in E : /\ AllSound(ReplyResult(e))
                     /\ e.ret = "SUCCESS" =>
                          \A op, n : AllSound(ElemsResponse(TakeElems(e.c, n), op, n))
    BY <1>2, <1>3, Zenon
  <2>2. AllSound(WithElems(E, out_lop_get_response))
    BY <2>1 DEF WithElems, AllSound, out_lop_get_response
  <2>3. AllSound(WithElems(E, out_sop_get_response))
    BY <2>1 DEF WithElems, AllSound, out_sop_get_response
  <2>4. AllSound(WithElems(E, out_mop_get_response))
    BY <2>1 DEF WithElems, AllSound, out_mop_get_response
  <2>5. AllSound(WithElems(E, out_bop_get_response))
    BY <2>1 DEF WithElems, AllSound, out_bop_get_response
  <2>6. AllSound(WithElems(E, out_bop_pwg_response))
    BY <2>1 DEF WithElems, AllSound, out_bop_pwg_response
  <2>7. AllSound(WithElems(E, out_bop_gbp_response))
    BY <2>1 DEF WithElems, AllSound, out_bop_gbp_response
  <2> QED BY <2>2, <2>3, <2>4, <2>5, <2>6, <2>7, Zenon
<1> QED BY <1>1, <1>3, Zenon DEF process_lop_get, process_sop_get, process_bop_get,
           process_bop_pwg, process_bop_gbp

-----------------------------------------------------------------------------
(***************************************************************************)
(* A data block has been received.                                         *)
(***************************************************************************)

\* The end of the handlers that drop their element, value or keys.
LEMMA DropSound ==
  ASSUME NEW C, AllSound(C), NEW r
  PROVE /\ AllSound(DropEitem(r, C)) /\ AllSound(FreeKeys(C))
        /\ AllSound(FreeKeysAndResult(C))
<1>1. ASSUME NEW D, AllSound(D), NEW x PROVE AllSound(DropEitem(x, D))
  <2>1. ASSUME NEW e \in D PROVE Sound([Give(e, x, 1) EXCEPT !.coll_eitem = FALSE])
    <3>1. Sound(e)
      BY <1>1, Zenon DEF AllSound
    <3>2. Sound(Give(e, x, 1))
      BY <3>1, TakeSound, Zenon
    <3> QED BY <3>2, PlainFields, Zenon
  <2> QED BY <2>1, Zenon DEF DropEitem, AllSound
<1>2. ASSUME NEW D, AllSound(D) PROVE AllSound(FreeKeys(D))
  BY <1>2, ReleaseSound, Zenon DEF FreeKeys, AllSound
<1> QED BY <1>1, <1>2, Zenon DEF FreeKeysAndResult

\* Handlers with several outcomes.
LEMMA UnionSound ==
  ASSUME NEW C, NEW D, AllSound(C), AllSound(D)
  PROVE AllSound(C \cup D)
BY Zenon DEF AllSound

\* The handlers that run when the data block of a list, set, map or update
\* request is read.
LEMMA ElemCompleteSound ==
  ASSUME NEW d, Open(d)
  PROVE /\ AllSound(ElemInsertComplete(d)) /\ AllSound(process_sop_delete_complete(d))
        /\ AllSound(process_sop_exist_complete(d))
        /\ AllSound(process_mop_update_complete(d))
        /\ AllSound(process_bop_update_complete(d))
        /\ AllSound(process_mop_delete_complete(d))
        /\ AllSound(process_mop_get_complete(d))
        /\ AllSound(complete_update(d))
<1>1. AllSound(Write(d)) /\ AllSound(Read(d)) /\ AllSound(BadChunk(d))
  BY EngineSound, Zenon DEF BadChunk
<1>2. AllSound(BadChunk(d) \cup Write(d)) /\ AllSound(BadChunk(d) \cup Read(d))
  BY <1>1, UnionSound, Zenon
<1>3. /\ AllSound(ElemInsertComplete(d)) /\ AllSound(process_sop_delete_complete(d))
      /\ AllSound(process_sop_exist_complete(d))
      /\ AllSound(process_mop_update_complete(d))
      /\ AllSound(process_bop_update_complete(d))
  BY <1>1, <1>2, DropSound, Zenon DEF ElemInsertComplete, process_sop_delete_complete,
     process_sop_exist_complete, process_mop_update_complete, process_bop_update_complete
<1>4. AllSound(IF d.coll_strkeys THEN out_string(d, "severe") ELSE {})
  BY EngineSound, Zenon DEF AllSound
<1>5. AllSound(process_mop_delete_complete(d))
  BY <1>1, <1>4, UnionSound, DropSound, Zenon DEF process_mop_delete_complete
<1>6. AllSound(process_mop_get_complete(d))
  BY <1>4, GetElemsSound, UnionSound, DropSound, Zenon DEF process_mop_get_complete
<1>7. AllSound(complete_update(d))
  BY <1>1, EngineSound, ReleaseSound, Zenon DEF complete_update, AllSound
<1> QED BY <1>3, <1>5, <1>6, <1>7, Zenon

\* The end of a b+tree insert, with the trimmed element or without.
LEMMA BopInsertSound ==
  ASSUME NEW c0, Open(c0)
  PROVE AllSound(process_bop_insert_complete(c0))
<1> DEFINE d == [Give(c0, "elem", 1) EXCEPT !.coll_eitem = FALSE]
<1>1. Open(d)
  BY TakeSound, PlainFields, Zenon
<1> HIDE DEF d
<1>2. AllSound(BadChunk(d)) /\ AllSound(Write(d)) /\ AllResults(EngineWrite(d))
  BY <1>1, EngineSound, EngineResults, Zenon DEF BadChunk
<1>3. ASSUME NEW e \in EngineWrite(d), e.ret = "SUCCESS"
      PROVE AllSound(out_bop_trim_response(Take(e.c, "elem", 1)))
  <2>1. Sound(e.c)
    BY <1>2, <1>3, Zenon DEF AllResults, Result, Sound, Open
  <2> QED BY <2>1, TakeSound, ElemsSound, Zenon
<1>4. AllSound(UNION {out_bop_trim_response(Take(e.c, "elem", 1)) :
                 e \in {x \in EngineWrite(d) : c0.coll_getrim /\ x.ret = "SUCCESS"}})
  BY <1>3, Zenon DEF AllSound
<1> QED BY <1>2, <1>4, UnionSound, Zenon DEF process_bop_insert_complete, d

\* The ends of bop mget and of both forms of bop smget.
LEMMA BopKeysSound ==
  ASSUME NEW d, Open(d)
  PROVE /\ AllSound(process_bop_mget_complete(d))
        /\ AllSound(process_bop_smget_complete(d))
<1>1. AllSound(UNION {handle_unexpected_errorcode_ascii(d, e) : e \in EngineErrors})
  BY OpenSound, ErrorSound, Zenon DEF AllSound
<1>2. AllSound(out_string(d, "ok")) /\ AllSound(out_string(d, "severe"))
  BY EngineSound, Zenon
<1>3. \A n : /\ Sound(process_bop_mget_single(d, n))
             /\ Sound(Take(d, "elem", n))
  BY OpenSound, TakeSound, Zenon DEF process_bop_mget_single
<1>4. ASSUME NEW n
      PROVE /\ Sound([process_bop_mget_single(d, n) EXCEPT !.coll_ecount = n,
                                                          !.state = "conn_mwrite"])
            /\ Sound([Take(d, "elem", n) EXCEPT !.coll_ecount = n, !.state = "conn_mwrite"])
  BY <1>3, ZenonT(60) DEF Sound, Ready, Waits, Core, IoFields
<1>5. AllSound(process_bop_mget_complete(d))
  <2>1. AllSound({[process_bop_mget_single(d, n) EXCEPT !.coll_ecount = n,
                    !.state = "conn_mwrite"] : n \in 0 .. MaxElems})
    BY <1>4, Zenon DEF AllSound
  <2> QED BY <1>1, <2>1, UnionSound, DropSound, Zenon DEF process_bop_mget_complete
<1>6. \A n : AllSound(SmgetResponse(d, n))
  <2>1. ASSUME NEW n
        PROVE AllSound({[Take(d, "elem", n) EXCEPT !.coll_ecount = n, !.state = "conn_mwrite"]})
    BY <1>4, Zenon DEF AllSound
  <2> QED BY <1>2, <2>1, UnionSound, Zenon DEF SmgetResponse
<1>7. /\ AllSound(UNION {out_bop_smget_response(d, n) : n \in 0 .. MaxElems})
      /\ AllSound(UNION {out_bop_smget_old_response(d, n) : n \in 0 .. MaxElems})
  BY <1>6, Zenon DEF AllSound, out_bop_smget_response, out_bop_smget_old_response
<1>8. AllSound(FreeKeysAndResult(out_string(d, "ok") \cup
             UNION {handle_unexpected_errorcode_ascii(d, e) : e \in EngineErrors}))
  BY <1>1, <1>2, UnionSound, DropSound, Zenon
<1>9. AllSound(process_bop_smget_complete(d))
  <2>1. /\ AllSound(SmgetComplete(d, out_bop_smget_response))
        /\ AllSound(SmgetComplete(d, out_bop_smget_old_response))
    BY <1>7, <1>8, Zenon DEF SmgetComplete, AllSound
  <2> QED BY <2>1, Zenon DEF process_bop_smget_complete, process_bop_smget_complete_old
<1> QED BY <1>5, <1>9, Zenon

\* get, mget and the cleanup after a get that failed.
LEMMA GetSound ==
  ASSUME NEW d, Open(d), NEW cas
  PROVE AllSound(process_get_command(d, cas)) /\ AllSound(process_mget_complete(d, cas))
<1>1. ASSUME NEW e, NEW n, Sound(e) PROVE Sound(get_suffix_buffer(e, n))
  <2>1. Sound(Take(e, "suffix", n))
    BY <1>1, TakeSound, Zenon
  <2> QED BY <2>1, Zenon DEF get_suffix_buffer, Sound, Ready, Waits, Core, IoFields
<1>2. ASSUME NEW n PROVE Sound(process_get_single(d, cas, n))
  <2>1. Sound(get_suffix_buffer(Take(d, "item", n), n * Suffixes(cas)))
    BY <1>1, OpenSound, TakeSound, Zenon
  <2> QED BY <2>1, Zenon DEF process_get_single, Sound, Ready, Waits, Core, IoFields
<1>3. ASSUME NEW e, Sound(e)
      PROVE AllSound(GetFailure(e, cas)) /\ Sound(conn_set_state(e, "conn_mwrite"))
  <2>1. AllSound(GetFailure(e, cas))
    BY <1>1, <1>3, OutStringSound, Zenon DEF GetFailure, AllSound
  <2> QED BY <1>3, <2>1, SetStateSound, Zenon
<1>4. AllSound(FreeKeys(BadChunk(d)))
  BY EngineSound, DropSound, Zenon DEF BadChunk
<1>5. ASSUME NEW n
      PROVE LET e == process_get_single(d, cas, n)
            IN /\ AllSound({conn_set_state(e, "conn_mwrite")} \cup GetFailure(e, cas))
               /\ AllSound({conn_set_state(e, "conn_mwrite")} \cup FreeKeys(GetFailure(e, cas)))
  BY <1>2, <1>3, DropSound, Zenon DEF AllSound
<1>6. AllSound(process_get_command(d, cas))
  BY <1>5, Zenon DEF process_get_command, AllSound
<1>7. AllSound(process_mget_complete(d, cas))
  <2>1. AllSound(UNION {LET e == process_get_single(d, cas, n)
           IN {conn_set_state(e, "conn_mwrite")} \cup FreeKeys(GetFailure(e, cas))
           : n \in 0 .. MaxElems})
    BY <1>5, Zenon DEF AllSound
  <2> QED BY <1>4, <2>1, Zenon DEF process_mget_complete, AllSound
<1> QED BY <1>6, <1>7, Zenon

\* The commands of an extension, which reply from a buffer of their own.
LEMMA ExtensionSound ==
  ASSUME NEW d, Open(d)
  PROVE AllSound(RunExtension(d)) /\ Sound(write_and_free(d))
<1>1. Sound(write_and_free(d))
  <2>1. Sound(Take(d, "wfree", 1))
    BY OpenSound, TakeSound, Zenon
  <2> QED BY <2>1, Zenon DEF write_and_free, Reply, Sound, Ready, Waits, Core, IoFields
<1> QED BY <1>1, OpenSound, SetStateSound, Zenon DEF RunExtension, AllSound

\* complete_nread_ascii(): the end of every request with a data block.
LEMMA NreadAsciiSound ==
  ASSUME NEW d, Open(d)
  PROVE AllSound(complete_nread_ascii(d))
<1>1. AllSound({d})
  BY OpenSound, Zenon DEF AllSound
<1>2. /\ AllSound(process_lop_insert_complete(d)) /\ AllSound(process_sop_insert_complete(d))
      /\ AllSound(process_mop_insert_complete(d)) /\ AllSound(process_sop_delete_complete(d))
      /\ AllSound(process_sop_exist_complete(d)) /\ AllSound(process_mop_update_complete(d))
      /\ AllSound(process_bop_update_complete(d)) /\ AllSound(process_mop_delete_complete(d))
      /\ AllSound(process_mop_get_complete(d)) /\ AllSound(complete_update(d))
  BY ElemCompleteSound, Zenon DEF process_lop_insert_complete,
     process_sop_insert_complete, process_mop_insert_complete
<1>3. /\ AllSound(process_bop_insert_complete(d)) /\ AllSound(process_bop_mget_complete(d))
      /\ AllSound(process_bop_smget_complete(d)) /\ AllSound(process_mget_complete(d, FALSE))
      /\ AllSound(process_mget_complete(d, TRUE)) /\ AllSound(RunExtension(d))
  BY BopInsertSound, BopKeysSound, GetSound, ExtensionSound, Zenon
<1>4. AllSound(complete_update_ascii(d))
  BY <1>1, <1>2, <1>3, Zenon DEF complete_update_ascii
<1> QED BY <1>3, <1>4, Zenon DEF complete_nread_ascii

-----------------------------------------------------------------------------
(***************************************************************************)
(* The commands of the ASCII protocol.                                     *)
(***************************************************************************)

\* The commands on items of the ASCII protocol.
LEMMA ValueCommandsSound ==
  ASSUME NEW d, Open(d), NEW r
  PROVE /\ \A cas : AllSound(process_mget_command(d, r, cas))
        /\ AllSound(process_update_command(d, r))
        /\ AllSound(process_arithmetic_command(d, r))
        /\ AllSound(process_delete_command(d, r))
        /\ AllSound(process_flush_command(d, r))
<1>1. AllSound(out_string(d, "severe"))
  BY EngineSound, Zenon
<1>2. \A cas : AllSound(process_mget_command(d, r, cas))
  <2>1. /\ AllSound(Refused(d, VLen, {"ENOMEM"}))
        /\ \A op : AllSound(process_prepare_nread_keys(d, op))
    BY RefusedSound, NreadSound, Zenon
  <2>2. \A op : AllSound(Refused(d, VLen, {"ENOMEM"})
                           \cup process_prepare_nread_keys(d, op))
    BY <2>1, UnionSound, Zenon
  <2> QED BY <1>1, <2>2, Zenon DEF process_mget_command
<1> DEFINE f == set_noreply_maybe(d, r)
<1>3. Open(f)
  BY NoreplyOpen, Zenon
<1>4. AllSound(Write(f)) /\ AllSound(out_string(f, "severe"))
  BY <1>3, EngineSound, Zenon
<1>5. AllSound(process_update_command(d, r))
  <2>1. /\ AllSound(Refused(f, VLen, EngineErrors))
        /\ Sound(Nread([Take(f, "item", 1) EXCEPT !.item = TRUE]))
    BY <1>3, RefusedSound, NreadSound, Zenon
  <2>2. ASSUME NEW e, Sound(e)
        PROVE Sound([e EXCEPT !.noreply = IF r.cmd = "set" THEN FALSE ELSE @])
    <3>1. CASE r.cmd = "set"
      BY <2>2, <3>1, Zenon DEF Sound, Ready, Waits, Core, IoFields
    <3>2. CASE r.cmd # "set"
      BY <2>2, <3>2, Zenon DEF Sound, Ready, Waits, Core, IoFields
    <3> QED BY <3>1, <3>2, Zenon
  <2>3. AllSound({[e EXCEPT !.noreply = IF r.cmd = "set" THEN FALSE ELSE @] :
                      e \in Refused(f, VLen, EngineErrors)})
    BY <2>1, <2>2, Zenon DEF AllSound
  <2>4. AllSound({Nread([Take(f, "item", 1) EXCEPT !.item = TRUE])})
    BY <2>1, Zenon DEF AllSound
  <2> QED BY <1>4, <2>3, <2>4, UnionSound, Zenon DEF process_update_command
<1> HIDE DEF f
<1>6. AllSound(Plain(f, r, Write))
  BY <1>4, Zenon DEF Plain
<1> QED BY <1>2, <1>5, <1>6, Zenon DEF f, process_arithmetic_command,
           process_delete_command, process_flush_command

\* lop and sop commands.
LEMMA ListCommandsSound ==
  ASSUME NEW d, Open(d), NEW r
  PROVE /\ AllSound(process_lop_insert_cmd(d, r)) /\ AllSound(process_lop_create_cmd(d, r))
        /\ AllSound(process_lop_delete_cmd(d, r)) /\ AllSound(process_lop_get_cmd(d, r))
        /\ AllSound(process_sop_insert_cmd(d, r)) /\ AllSound(process_sop_create_cmd(d, r))
        /\ AllSound(process_sop_delete_cmd(d, r)) /\ AllSound(process_sop_exist_cmd(d, r))
        /\ AllSound(process_sop_get_cmd(d, r))
<1> DEFINE f == set_noreply_maybe(d, r)
           g == set_pipe_noreply_maybe(d, r)
           h == set_pipe_maybe(d, r)
<1>1. Open(f) /\ Open(g) /\ Open(h)
  BY NoreplyOpen, Zenon
<1> HIDE DEF f, g, h
<1>2. ASSUME NEW e, Open(e)
      PROVE /\ AllSound(out_string(e, "severe")) /\ AllSound(Write(e))
            /\ \A n : AllSound({SkipData(check_and_handle_pipe_state(e), n)})
            /\ AllSound(process_lop_prepare_nread(e))
            /\ \A op : AllSound(process_sop_prepare_nread(e, op))
            /\ AllSound(process_lop_get(e)) /\ AllSound(process_sop_get(e))
  BY <1>2, EngineSound, SkipSound, PrepareSound, GetElemsSound, Zenon DEF AllSound
<1>3. /\ AllSound(process_lop_insert_cmd(d, r)) /\ AllSound(process_lop_delete_cmd(d, r))
      /\ AllSound(process_sop_insert_cmd(d, r)) /\ AllSound(process_sop_delete_cmd(d, r))
  BY <1>1, <1>2, Zenon DEF g, Piped, process_lop_insert_cmd, process_lop_delete_cmd,
     process_sop_insert_cmd, process_sop_delete_cmd, process_lop_delete
<1>4. AllSound(process_sop_exist_cmd(d, r))
  BY <1>1, <1>2, Zenon DEF h, Piped, process_sop_exist_cmd
<1>5. /\ AllSound(process_lop_create_cmd(d, r)) /\ AllSound(process_lop_get_cmd(d, r))
      /\ AllSound(process_sop_create_cmd(d, r)) /\ AllSound(process_sop_get_cmd(d, r))
  BY <1>1, <1>2, Zenon DEF f, Plain, process_lop_create_cmd, process_lop_get_cmd,
     process_sop_create_cmd, process_sop_get_cmd, process_lop_create, process_sop_create
<1> QED BY <1>3, <1>4, <1>5, Zenon

\* mop commands.
LEMMA MapCommandsSound ==
  ASSUME NEW d, Open(d), NEW r
  PROVE /\ AllSound(process_mop_insert_cmd(d, r)) /\ AllSound(process_mop_create_cmd(d, r))
        /\ AllSound(process_mop_update_cmd(d, r)) /\ AllSound(process_mop_delete_cmd(d, r))
        /\ AllSound(process_mop_get_cmd(d, r))
<1> DEFINE f == set_noreply_maybe(d, r)
           g == set_pipe_noreply_maybe(d, r)
<1>1. Open(f) /\ Open(g)
  BY NoreplyOpen, Zenon
<1> HIDE DEF f, g
<1>2. ASSUME NEW e, Open(e)
      PROVE /\ AllSound(out_string(e, "severe")) /\ AllSound(Write(e))
            /\ \A n : AllSound({SkipData(check_and_handle_pipe_state(e), n)})
            /\ \A op : /\ AllSound(process_mop_prepare_nread(e, op))
                       /\ AllSound(process_mop_prepare_nread_fields(e, op))
                       /\ AllSound(process_mop_delete_complete([e EXCEPT !.coll_op = op]))
                       /\ AllSound(process_mop_get_complete([e EXCEPT !.coll_op = op]))
  <2>1. \A op : Open([e EXCEPT !.coll_op = op])
    BY <1>2, PlainFields, Zenon
  <2> QED BY <1>2, <2>1, EngineSound, SkipSound, PrepareSound, NreadSound,
             ElemCompleteSound, Zenon DEF AllSound
<1>3. /\ AllSound(process_mop_insert_cmd(d, r)) /\ AllSound(process_mop_update_cmd(d, r))
      /\ AllSound(process_mop_delete_cmd(d, r))
  BY <1>1, <1>2, Zenon DEF g, Piped, process_mop_insert_cmd, process_mop_update_cmd,
     process_mop_delete_cmd
<1>4. /\ AllSound(process_mop_create_cmd(d, r)) /\ AllSound(process_mop_get_cmd(d, r))
  BY <1>1, <1>2, Zenon DEF f, Plain, process_mop_create_cmd, process_mop_create,
     process_mop_get_cmd
<1> QED BY <1>3, <1>4, Zenon

\* bop commands.
LEMMA TreeCommandsSound ==
  ASSUME NEW d, Open(d), NEW r
  PROVE /\ AllSound(process_bop_insert_cmd(d, r)) /\ AllSound(process_bop_create_cmd(d, r))
        /\ AllSound(process_bop_update_cmd(d, r)) /\ AllSound(process_bop_delete_cmd(d, r))
        /\ AllSound(process_bop_arithmetic_cmd(d, r)) /\ AllSound(process_bop_get_cmd(d, r))
        /\ AllSound(process_bop_count_cmd(d, r)) /\ AllSound(process_bop_position_cmd(d, r))
        /\ AllSound(process_bop_pwg_cmd(d, r)) /\ AllSound(process_bop_gbp_cmd(d, r))
        /\ AllSound(process_bop_mget_cmd(d, r))
<1> DEFINE f == set_noreply_maybe(d, r)
           g == set_pipe_noreply_maybe(d, r)
           h == [g EXCEPT !.coll_getrim = (r.opt = "getrim")]
<1>1. Open(f) /\ Open(g)
  BY NoreplyOpen, Zenon
<1>2. Open(h)
  <2> HIDE DEF g
  <2> QED BY <1>1, Zenon DEF Open, Ready, Core, IoFields
<1> HIDE DEF f, g, h
<1>3. ASSUME NEW e, Open(e)
      PROVE /\ AllSound(out_string(e, "severe")) /\ AllSound(Write(e)) /\ AllSound(Read(e))
            /\ \A n : AllSound({SkipData(check_and_handle_pipe_state(e), n)})
            /\ \A op : AllSound(process_bop_prepare_nread(e, op))
            /\ AllSound(process_bop_update_prepare_nread(e))
            /\ \A op : AllSound(out_string(e, "ok") \cup
                         process_bop_update_complete([e EXCEPT !.coll_op = op]))
            /\ AllSound(process_bop_get(e)) /\ AllSound(process_bop_pwg(e))
            /\ AllSound(process_bop_gbp(e))
  <2>1. \A op : Open([e EXCEPT !.coll_op = op])
    BY <1>3, PlainFields, Zenon
  <2>2. \A op : AllSound(process_bop_update_complete([e EXCEPT !.coll_op = op]))
    BY <2>1, ElemCompleteSound, Zenon
  <2>3. AllSound(out_string(e, "ok"))
    BY <1>3, EngineSound, Zenon
  <2>4. \A op : AllSound(out_string(e, "ok") \cup
                         process_bop_update_complete([e EXCEPT !.coll_op = op]))
    BY <2>2, <2>3, UnionSound, Zenon
  <2> QED BY <1>3, <2>4, EngineSound, SkipSound, PrepareSound, GetElemsSound, Zenon DEF AllSound
<1>4. AllSound(process_bop_insert_cmd(d, r))
  BY <1>2, <1>3, Zenon DEF h, g, Piped, process_bop_insert_cmd
<1>5. AllSound(process_bop_update_cmd(d, r))
  BY <1>1, <1>3, Zenon DEF g, Piped, process_bop_update_cmd
<1>6. AllSound(process_bop_delete_cmd(d, r)) /\ AllSound(process_bop_arithmetic_cmd(d, r))
  BY <1>1, <1>3, Zenon DEF g, Piped, process_bop_delete_cmd, process_bop_delete,
     process_bop_arithmetic_cmd, process_bop_arithmetic
<1>7. /\ AllSound(process_bop_create_cmd(d, r)) /\ AllSound(process_bop_get_cmd(d, r))
      /\ AllSound(process_bop_count_cmd(d, r)) /\ AllSound(process_bop_position_cmd(d, r))
      /\ AllSound(process_bop_pwg_cmd(d, r)) /\ AllSound(process_bop_gbp_cmd(d, r))
  BY <1>1, <1>3, Zenon DEF f, Plain, process_bop_create_cmd, process_bop_create,
     process_bop_get_cmd, process_bop_count_cmd, process_bop_count,
     process_bop_position_cmd, process_bop_position, process_bop_pwg_cmd,
     process_bop_gbp_cmd
<1>8. AllSound(process_bop_mget_cmd(d, r))
  <2>1. Open(set_smget_mode_maybe(d, r))
    BY Zenon DEF set_smget_mode_maybe, Open, Ready, Core, IoFields
  <2>2. \A op : AllSound(process_bop_prepare_nread_keys(set_smget_mode_maybe(d, r), op))
    BY <2>1, NreadSound, Zenon
  <2>3. AllSound(TooMany(d))
    BY EngineSound, SwallowSound, Zenon DEF TooMany, AllSound
  <2>4. \A op : AllSound(TooMany(d) \cup
                         process_bop_prepare_nread_keys(set_smget_mode_maybe(d, r), op))
    BY <2>2, <2>3, UnionSound, Zenon
  <2> QED BY <1>3, <2>4, Zenon DEF process_bop_mget_cmd
<1> QED BY <1>4, <1>5, <1>6, <1>7, <1>8, Zenon

\* scan, stats, config and the other commands without a key.
LEMMA AdminCommandsSound ==
  ASSUME NEW d, Open(d), NEW r
  PROVE /\ AllSound(process_getattr_command(d, r)) /\ AllSound(process_setattr_command(d, r))
        /\ AllSound(process_stats_command(d, r)) /\ AllSound(process_scan_command(d, r))
        /\ AllSound(process_config_command(d)) /\ AllSound(process_zkensemble_command(d))
        /\ AllSound(process_dump_command(d)) /\ AllSound(process_help_command(d))
        /\ AllSound(process_shutdown_command(d)) /\ AllSound(process_cmdlog_command(d))
        /\ AllSound(process_lqdetect_command(d))
        /\ AllSound(process_extension_command(d, r))
<1>1. /\ AllSound(out_string(d, "ok")) /\ AllSound(out_string(d, "severe"))
      /\ AllSound(Write(d)) /\ AllSound(Read(d)) /\ AllSound(Answer(d))
  BY EngineSound, Zenon
<1>2. AllSound({write_and_free(d)}) /\ AllSound(RunExtension(d))
  BY ExtensionSound, Zenon DEF AllSound
<1>3. /\ AllSound({write_and_free(d)} \cup Answer(d))
      /\ AllSound({write_and_free(d)} \cup out_string(d, "severe"))
      /\ AllSound({write_and_free(d)} \cup out_string(d, "ok"))
  BY <1>1, <1>2, UnionSound, Zenon
<1>4. AllSound(process_keyscan_command(d)) /\ AllSound(process_prefixscan_command(d))
  <2>1. ASSUME NEW n
        PROVE /\ Sound([Take(Take(d, "item", n), "wfree", 1)
                   EXCEPT !.ileft = n, !.write_and_free = TRUE, !.state = "conn_mwrite"])
              /\ Sound([Take(Take(d, "prefix", n), "wfree", 1)
                   EXCEPT !.pleft = n, !.write_and_free = TRUE, !.state = "conn_mwrite"])
    <3>1. /\ Sound(Take(Take(d, "item", n), "wfree", 1))
          /\ Sound(Take(Take(d, "prefix", n), "wfree", 1))
      BY OpenSound, TakeSound, Zenon
    <3> QED BY <3>1, Zenon DEF Sound, Ready, Waits, Core, IoFields
  <2>2. /\ AllSound({[Take(Take(d, "item", n), "wfree", 1)
              EXCEPT !.ileft = n, !.write_and_free = TRUE, !.state = "conn_mwrite"]
              : n \in 0 .. MaxElems})
        /\ AllSound({[Take(Take(d, "prefix", n), "wfree", 1)
              EXCEPT !.pleft = n, !.write_and_free = TRUE, !.state = "conn_mwrite"]
              : n \in 0 .. MaxElems})
    BY <2>1, Zenon DEF AllSound
  <2>3. AllSound(out_string([d EXCEPT !.ileft = 0], "severe"))
    BY OpenSound, PlainFields, OutStringSound, Zenon
  <2> QED BY <1>1, <2>2, <2>3, UnionSound, Zenon DEF process_keyscan_command,
             process_prefixscan_command
<1>5. AllSound(process_extension_command(d, r))
  <2>1. AllSound({Nread([d EXCEPT !.ascii_cmd = TRUE])})
    BY NreadSound, Zenon DEF AllSound
  <2> QED BY <1>1, <1>2, <2>1, Zenon DEF process_extension_command
<1>6. /\ AllSound(process_getattr_command(d, r)) /\ AllSound(process_setattr_command(d, r))
  BY <1>1, Zenon DEF Plain, process_getattr_command, process_setattr_command
<1>7. AllSound(process_stats_command(d, r))
  BY <1>3, Zenon DEF process_stats_command, process_stats_detail, process_stats_cachedump
<1>8. AllSound(process_scan_command(d, r))
  BY <1>1, <1>4, Zenon DEF process_scan_command
<1> QED BY <1>1, <1>3, <1>5, <1>6, <1>7, <1>8, Zenon DEF process_config_command,
           process_zkensemble_command, process_dump_command, process_help_command,
           process_shutdown_command, process_cmdlog_command, process_lqdetect_command

\* process_command_ascii(): every line of the ASCII protocol, known or not.
LEMMA AsciiSound ==
  ASSUME NEW d, Open(d), NEW r
  PROVE AllSound(process_command_ascii(d, r))
<1>1. AllSound(out_string(d, "ok")) /\ AllSound(out_string(d, "severe"))
  BY EngineSound, Zenon
<1>2. AllSound({conn_set_state(d, "conn_closing")})
  BY OpenSound, SetStateSound, Zenon DEF AllSound
<1>3. \A cas : AllSound(process_get_command(d, cas))
  BY GetSound, Zenon
<1> QED BY <1>1, <1>2, <1>3, ValueCommandsSound, ListCommandsSound, MapCommandsSound,
           TreeCommandsSound, AdminCommandsSound, Zenon DEF process_command_ascii

-----------------------------------------------------------------------------
(***************************************************************************)
(* The commands of the binary protocol.                                    *)
(***************************************************************************)

\* The packets and responses of the binary protocol.
LEMMA PacketSound ==
  ASSUME NEW d, NEW n
  PROVE Sound(d) => AllSound(write_bin_packet(d, n)) /\ AllSound(write_bin_response(d))
<1>1. ASSUME Sound(d)
      PROVE /\ Sound([d EXCEPT !.state = "conn_mwrite", !.sbytes = n, !.write_and_go = "conn_swallow"])
            /\ Sound([d EXCEPT !.state = "conn_mwrite", !.write_and_go = "conn_new_cmd"])
            /\ Sound([d EXCEPT !.state = "conn_new_cmd"])
  BY <1>1, Zenon DEF Sound, Ready, Waits, Core, IoFields
<1> QED BY <1>1, Zenon DEF write_bin_packet, write_bin_response, AllSound

\* Errors of the engine in the binary protocol.
LEMMA BinErrorSound ==
  ASSUME NEW d, Ready(d)
  PROVE /\ \A ret, n : AllSound(handle_unexpected_errorcode_bin(d, ret, n))
        /\ \A n, errors : AllSound(BinRefused(d, n, errors))
<1>1. /\ \A n : AllSound(write_bin_packet(d, n))
      /\ AllSound({conn_set_state(d, "conn_closing")})
  BY PacketSound, SetStateSound, Zenon DEF Sound, AllSound
<1>2. \A ret, n : AllSound(handle_unexpected_errorcode_bin(d, ret, n))
  BY <1>1, Zenon DEF handle_unexpected_errorcode_bin
<1> QED BY <1>2, Zenon DEF BinRefused, AllSound

\* The switch on the result of the engine that ends the binary handlers.
LEMMA BinRepliesSound ==
  ASSUME NEW E, AllResults(E)
  PROVE /\ \A e \in E : AllSound(BinReplyResult(e))
        /\ AllSound(BinReplies(E))
<1>1. ASSUME NEW e \in E PROVE AllSound(BinReplyResult(e))
  <2>1. Result(e)
    BY Zenon DEF AllResults
  <2>2. Sound(e.c) /\ (e.ret # "SUCCESS" => Ready(e.c))
    BY <2>1, Zenon DEF Result, Open, Sound
  <2>3. /\ AllSound(write_bin_response(e.c)) /\ AllSound(write_bin_packet(e.c, 0))
        /\ e.ret # "SUCCESS" => AllSound(handle_unexpected_errorcode_bin(e.c, e.ret, 0))
    BY <2>2, PacketSound, BinErrorSound, Zenon
  <2> QED BY <2>3, Zenon DEF BinReplyResult
<1> QED BY <1>1, Zenon DEF BinReplies, AllSound

\* The binary handlers that call the engine and reply.
LEMMA BinEngineSound ==
  ASSUME NEW d, Open(d)
  PROVE /\ AllSound(BinWrite(d)) /\ AllSound(BinRead(d))
        /\ AllSound(complete_incr_bin(d)) /\ AllSound(process_bin_delete(d))
        /\ AllSound(write_bin_packet(d, 0)) /\ AllSound(complete_update_bin(d))
        /\ \A n, errors : AllSound(BinRefused(d, n, errors))
<1>1. AllResults(EngineRead(d)) /\ AllResults(EngineWrite(d))
  BY EngineResults, Zenon
<1>2. /\ AllResults({e \in EngineWrite(d) : e.ret # "ENOTSUP"})
      /\ AllResults({e \in EngineWrite(d) : e.ret \in {"SUCCESS", "MISS"}})
  BY <1>1, Zenon DEF AllResults
<1>3. /\ AllSound(BinWrite(d)) /\ AllSound(BinRead(d))
      /\ AllSound(complete_incr_bin(d)) /\ AllSound(process_bin_delete(d))
  BY <1>1, <1>2, BinRepliesSound, Zenon DEF BinWrite, BinRead, complete_incr_bin,
     process_bin_delete
<1>4. AllSound(complete_update_bin(d))
  BY <1>3, ReleaseSound, Zenon DEF complete_update_bin, AllSound
<1> QED BY <1>3, <1>4, OpenSound, PacketSound, BinErrorSound, Zenon

\* The binary handlers that go on to read a key or a value.
LEMMA BinNreadSound ==
  ASSUME NEW d, Open(d), NEW op, NEW sub
  PROVE /\ AllSound(BinNreadElem(d, op, sub)) /\ AllSound(BinNreadValue(d, op, sub))
        /\ AllSound(AllocItem(d)) /\ AllSound(process_bin_bop_prepare_nread_keys(d))
        /\ AllSound(bin_read_key(d, sub))
<1>1. ASSUME NEW e, Open(e), NEW o, NEW st
      PROVE /\ Sound(BinNread([e EXCEPT !.coll_eitem = TRUE, !.coll_ecount = 1,
                                        !.coll_op = op], 1, st))
            /\ Sound(BinNread([e EXCEPT !.coll_strkeys = TRUE, !.coll_eitem = TRUE,
                                        !.coll_ecount = 0, !.coll_op = o], 1, st))
            /\ Sound(BinNread([e EXCEPT !.item = TRUE], 1, st))
            /\ Sound(BinNread(e, 1, st))
            /\ Sound(conn_set_state([e EXCEPT !.substate = st], "conn_closing"))
  BY <1>1, Zenon DEF BinNread, conn_set_state, Sound, Open, Ready, Core, IoFields
<1>2. \A e : Open(e) => \A r, n : Open(Take(e, r, n))
  BY TakeSound, Zenon
<1>3. \A n, errors : AllSound(BinRefused(d, n, errors))
  BY BinEngineSound, Zenon
<1>4. AllSound(BinNreadElem(d, op, sub)) /\ AllSound(BinNreadValue(d, op, sub))
  BY <1>1, <1>2, <1>3, Zenon DEF BinNreadElem, BinNreadValue, AllSound
<1>5. AllSound(AllocItem(d))
  BY <1>1, <1>2, <1>3, Zenon DEF AllocItem, AllSound
<1>6. AllSound(process_bin_bop_prepare_nread_keys(d))
  <2>1. Open(Take(Take(d, "keys", 1), "block", 1))
    BY <1>2, Zenon
  <2>2. Sound(BinNread([Take(Take(d, "keys", 1), "block", 1)
                 EXCEPT !.coll_strkeys = TRUE, !.coll_eitem = TRUE, !.coll_ecount = 0,
                        !.coll_op = IF d.cmd = "bop_mget" THEN "BOP_MGET" ELSE "BOP_SMGET"],
              1, "bin_reading_bop_nread_keys_complete"))
    BY <1>1, <2>1, Zenon
  <2>3. AllSound(BinRefused(d, 1, {"ENOMEM"}))
    BY <1>3, Zenon
  <2> QED BY <2>2, <2>3, Zenon DEF process_bin_bop_prepare_nread_keys, AllSound
<1>7. AllSound(bin_read_key(d, sub))
  BY <1>1, Zenon DEF bin_read_key, bin_read_chunk, AllSound
<1> QED BY <1>4, <1>5, <1>6, <1>7, Zenon

\* The binary responses with elements.
LEMMA BinElemsSound ==
  ASSUME NEW d, Open(d)
  PROVE /\ AllSound(process_bin_lop_get(d)) /\ AllSound(process_bin_sop_get(d))
        /\ AllSound(process_bin_bop_get(d))
<1>1. AllResults(EngineWrite(d))
  BY EngineResults, Zenon
<1>2. ASSUME NEW e \in EngineWrite(d)
      PROVE /\ AllSound(BinReplyResult(e))
            /\ e.ret = "SUCCESS" =>
                 \A op, n : AllSound(BinElemsResponse(TakeElems(e.c, n), op, n))
  <2>1. AllSound(BinReplyResult(e))
    BY <1>1, BinRepliesSound, Zenon
  <2>2. ASSUME e.ret = "SUCCESS", NEW op, NEW n
        PROVE AllSound(BinElemsResponse(TakeElems(e.c, n), op, n))
    <3>1. Sound(e.c)
      BY <1>1, <2>2, Zenon DEF AllResults, Result, Sound, Open
    <3>2. Sound(TakeElems(e.c, n))
      BY <3>1, TakeSound, Zenon DEF TakeElems
    <3>3. AllSound({KeepElems(TakeElems(e.c, n), op, n)})
      BY <3>2, ElemsSound, Zenon DEF ElemsResponse, AllSound
    <3>4. AllSound(write_bin_packet(GiveElems(TakeElems(e.c, n), n), 0))
      BY <3>2, TakeSound, PacketSound, Zenon DEF GiveElems
    <3> QED BY <3>3, <3>4, UnionSound, Zenon DEF BinElemsResponse
  <2> QED BY <2>1, <2>2, Zenon
<1>3. AllSound(process_bin_lop_get(d))
  BY <1>2 DEF process_bin_lop_get, BinWithElems, AllSound, out_bin_lop_get_response
<1>4. AllSound(process_bin_sop_get(d))
  BY <1>2 DEF process_bin_sop_get, BinWithElems, AllSound, out_bin_sop_get_response
<1>5. AllSound(process_bin_bop_get(d))
  BY <1>2 DEF process_bin_bop_get, BinWithElems, AllSound, out_bin_bop_get_response
<1> QED BY <1>3, <1>4, <1>5, Zenon

\* get, stat and unknown packets.
LEMMA BinItemsSound ==
  ASSUME NEW d, Open(d)
  PROVE /\ AllSound(process_bin_get(d)) /\ AllSound(process_bin_stat(d))
        /\ AllSound(process_bin_unknown_packet(d))
<1>1. /\ Sound(conn_set_state(d, "conn_new_cmd")) /\ Sound(conn_set_state(d, "conn_closing"))
      /\ Sound(write_and_free(d)) /\ AllSound(write_bin_packet(d, 0))
      /\ AllSound(BinRefused(d, 0, EngineErrors))
  BY OpenSound, SetStateSound, ExtensionSound, BinEngineSound, Zenon
<1>2. Sound([Take(d, "item", 1) EXCEPT !.item = TRUE, !.state = "conn_mwrite"])
  <2>1. Sound(Take(d, "item", 1))
    BY OpenSound, TakeSound, Zenon
  <2> QED BY <2>1, Zenon DEF Sound, Ready, Waits, Core, IoFields
<1>3. AllSound(process_bin_get(d))
  BY <1>1, <1>2, Zenon DEF process_bin_get, AllSound
<1> QED BY <1>1, <1>3, Zenon DEF process_bin_stat, process_bin_unknown_packet, AllSound

\* The binary commands on collections.
LEMMA BinCollsSound ==
  ASSUME NEW d, Open(d)
  PROVE /\ AllSound(process_bin_lop_prepare_nread(d)) /\ AllSound(process_bin_lop_nread_complete(d))
        /\ AllSound(process_bin_sop_prepare_nread(d)) /\ AllSound(process_bin_sop_nread_complete(d))
        /\ AllSound(process_bin_bop_prepare_nread(d)) /\ AllSound(process_bin_bop_nread_complete(d))
        /\ AllSound(process_bin_bop_update_prepare_nread(d))
        /\ AllSound(process_bin_bop_update_complete(d))
        /\ AllSound(process_bin_bop_nread_keys_complete(d))
<1>1. /\ AllSound(BinWrite(d)) /\ AllSound(BinRead(d))
      /\ \A r : AllSound(DropEitem(r, BinWrite(d))) /\ AllSound(DropEitem(r, BinRead(d)))
  BY BinEngineSound, DropSound, Zenon
<1>2. \A op, sub : AllSound(BinNreadElem(d, op, sub)) /\ AllSound(BinNreadValue(d, op, sub))
  BY BinNreadSound, Zenon
<1>3. /\ AllSound(process_bin_lop_prepare_nread(d)) /\ AllSound(process_bin_lop_nread_complete(d))
      /\ AllSound(process_bin_sop_prepare_nread(d)) /\ AllSound(process_bin_sop_nread_complete(d))
      /\ AllSound(process_bin_bop_prepare_nread(d)) /\ AllSound(process_bin_bop_nread_complete(d))
  BY <1>1, <1>2, Zenon DEF process_bin_lop_prepare_nread, process_bin_lop_nread_complete,
     process_bin_lop_insert_complete, process_bin_sop_prepare_nread,
     process_bin_sop_nread_complete, process_bin_sop_insert_complete,
     process_bin_sop_delete_complete, process_bin_sop_exist_complete,
     process_bin_bop_prepare_nread, process_bin_bop_nread_complete,
     process_bin_bop_insert_complete
<1>4. ASSUME NEW e, Open(e) PROVE AllSound(process_bin_bop_update_complete(e))
  <2>1. AllSound(BinWrite(e)) /\ AllSound(DropEitem("block", BinWrite(e)))
    BY <1>4, BinEngineSound, DropSound, Zenon
  <2> QED BY <2>1, Zenon DEF process_bin_bop_update_complete
<1>5. AllSound(process_bin_bop_update_prepare_nread(d))
  <2>1. Open([d EXCEPT !.coll_eitem = FALSE, !.coll_ecount = 0, !.coll_op = "BOP_UPDATE"])
    BY Zenon DEF Open, Ready, Core, IoFields
  <2> QED BY <1>2, <1>4, <2>1, Zenon DEF process_bin_bop_update_prepare_nread
<1>6. AllSound(process_bin_bop_mget_complete(d))
  BY BinEngineSound, DropSound, Zenon DEF process_bin_bop_mget_complete
<1>7. AllSound(BinSmget(d))
  <2>1. ASSUME NEW n
        PROVE Sound([Take(d, "elem", n) EXCEPT !.coll_ecount = n, !.coll_op = "BOP_SMGET",
                                               !.state = "conn_mwrite"])
    <3>1. Sound(Take(d, "elem", n))
      BY OpenSound, TakeSound, Zenon
    <3> QED BY <3>1, Zenon DEF Sound, Ready, Waits, Core, IoFields
  <2>2. AllSound({[Take(d, "elem", n) EXCEPT !.coll_ecount = n, !.coll_op = "BOP_SMGET",
                                !.state = "conn_mwrite"] : n \in 0 .. MaxElems})
    BY <2>1, Zenon DEF AllSound
  <2>3. AllSound(write_bin_packet(d, 0) \cup BinRefused(d, 0, EngineErrors))
    BY BinEngineSound, UnionSound, Zenon
  <2> QED BY <2>2, <2>3, DropSound, UnionSound, Zenon DEF BinSmget
<1>8. AllSound(process_bin_bop_nread_keys_complete(d))
  BY <1>6, <1>7, Zenon DEF process_bin_bop_nread_keys_complete,
     process_bin_bop_smget_complete, process_bin_bop_smget_complete_old
<1> QED BY <1>3, <1>4, <1>5, <1>8, Zenon

\* complete_nread_binary(): every substate, and the abort() of an unknown
\* one.
LEMMA NreadBinarySound ==
  ASSUME NEW d, Open(d)
  PROVE AllSound(complete_nread_binary(d))
<1>1. AllSound({[d EXCEPT !.fatal = TRUE]})
  BY Zenon DEF AllSound, Sound, Open, Ready, Core, IoFields
<1>2. /\ AllSound(process_bin_append_prepend(d)) /\ AllSound(process_bin_update(d))
      /\ AllSound(process_bin_bop_prepare_nread_keys(d))
  BY BinNreadSound, Zenon DEF process_bin_append_prepend, process_bin_update
<1>3. /\ AllSound(process_bin_flush(d)) /\ AllSound(process_bin_flush_prefix(d))
      /\ AllSound(process_bin_getattr(d)) /\ AllSound(process_bin_setattr(d))
      /\ AllSound(process_bin_lop_create(d)) /\ AllSound(process_bin_lop_delete(d))
      /\ AllSound(process_bin_sop_create(d)) /\ AllSound(process_bin_bop_create(d))
      /\ AllSound(process_bin_bop_delete(d)) /\ AllSound(process_bin_bop_count(d))
  BY BinEngineSound, Zenon DEF process_bin_flush, process_bin_flush_prefix,
     process_bin_getattr, process_bin_setattr, process_bin_lop_create,
     process_bin_lop_delete, process_bin_sop_create, process_bin_bop_create,
     process_bin_bop_delete, process_bin_bop_count
<1> QED BY <1>1, <1>2, <1>3, BinEngineSound, BinItemsSound, BinCollsSound, BinElemsSound, Zenon
        DEF complete_nread_binary

\* dispatch_bin_command(): every header of the binary protocol.
LEMMA DispatchSound ==
  ASSUME NEW d, Open(d), NEW r
  PROVE AllSound(dispatch_bin_command(d, r))
<1> DEFINE e == [d EXCEPT !.noreply = (r.opt = "quiet"), !.cmd = r.cmd]
<1>1. Open(e)
  BY Zenon DEF Open, Ready, Core, IoFields
<1> HIDE DEF e
<1>2. /\ Ready(e) /\ \A sub : AllSound(bin_read_key(e, sub))
  BY <1>1, OpenSound, BinNreadSound, Zenon
<1>3. AllSound(handle_binary_protocol_error(e))
  <2>1. \A x \in write_bin_packet(e, 0) : Sound(x)
    BY <1>2, PacketSound, Zenon DEF Sound, AllSound
  <2>2. ASSUME NEW x, Sound(x) PROVE Sound([x EXCEPT !.write_and_go = "conn_closing"])
    BY <2>2, Zenon DEF Sound, Ready, Waits, Core, IoFields
  <2> QED BY <2>1, <2>2, Zenon DEF handle_binary_protocol_error, AllSound
<1>4. ASSUME NEW x \in write_bin_response(e)
      PROVE Ready(x)
  BY <1>2, <1>4, Zenon DEF write_bin_response, Ready, Core, IoFields
<1>5. ASSUME NEW x, Ready(x)
      PROVE Sound([x EXCEPT !.write_and_go = "conn_closing",
                            !.state = IF e.noreply THEN "conn_closing" ELSE @])
  <2>1. CASE e.noreply
    BY <1>5, <2>1, Zenon DEF Sound, Ready, Core, IoFields
  <2>2. CASE ~e.noreply
    BY <1>5, <2>2, Zenon DEF Sound, Ready, Core, IoFields
  <2> QED BY <2>1, <2>2, Zenon
<1>6. /\ AllSound(write_bin_response(e))
      /\ AllSound({[x EXCEPT !.write_and_go = "conn_closing",
                             !.state = IF e.noreply THEN "conn_closing" ELSE @] :
                     x \in write_bin_response(e)})
  BY <1>4, <1>5, Zenon DEF AllSound, Sound
<1> QED BY <1>2, <1>3, <1>6, Zenon DEF dispatch_bin_command, e

-----------------------------------------------------------------------------
(***************************************************************************)
(* The state functions.                                                    *)
(***************************************************************************)

\* try_read_command(): a line or a header is processed, or the connection is
\* left as it was, or it is closed.
LEMMA CommandSound ==
  ASSUME NEW d, Open(d), NEW r, NEW t \in try_read_command(d, r)
  PROVE Sound(t.c) /\ (t.ret = 0 => t.c = d)
<1> DEFINE Kept(e) == [e EXCEPT !.rbytes = @ - 1]
<1>1. ASSUME NEW e, Sound(e) PROVE Sound(Kept(e))
  BY <1>1, Zenon DEF Sound, Ready, Waits, Core, IoFields
<1>2. Sound(d) /\ Sound(conn_set_state(d, "conn_closing"))
  BY OpenSound, SetStateSound, Zenon
<1>3. ASSUME NEW line, NEW n PROVE Open([Heard(d, line) EXCEPT !.left = n])
  BY Zenon DEF Heard, Open, Ready, Core, IoFields
<1>4. 0 # 1
  OBVIOUS
<1>5. CASE d.protocol = "binary"
  <2>1. \A e \in dispatch_bin_command([Heard(d, r) EXCEPT !.left = BodyUnits(r.cmd)], r) :
           Sound(e)
    BY <1>3, DispatchSound, Zenon DEF AllSound
  <2>2. \/ t = [ret |-> 0, c |-> d]
        \/ t = [ret |-> 1, c |-> conn_set_state(d, "conn_closing")]
        \/ \E e \in dispatch_bin_command([Heard(d, r) EXCEPT !.left = BodyUnits(r.cmd)], r) :
              t = [ret |-> 1, c |-> Kept(e)]
    BY <1>5, Zenon DEF try_read_command, try_read_command_binary
  <2>3. CASE t = [ret |-> 0, c |-> d]
    BY <1>2, <2>3, Zenon
  <2>4. CASE t = [ret |-> 1, c |-> conn_set_state(d, "conn_closing")]
    BY <1>2, <1>4, <2>4, Zenon
  <2>5. ASSUME NEW e \in dispatch_bin_command([Heard(d, r) EXCEPT !.left = BodyUnits(r.cmd)], r),
               t = [ret |-> 1, c |-> Kept(e)]
        PROVE Sound(t.c) /\ t.ret # 0
    <3>1. Sound(Kept(e))
      BY <1>1, <2>1, Zenon
    <3> HIDE DEF Kept
    <3> QED BY <1>4, <2>5, <3>1, Zenon
  <2> QED BY <2>2, <2>3, <2>4, <2>5, Zenon
<1>6. CASE d.protocol # "binary"
  <2> DEFINE line == LineOf(d, r)
             read == [Heard(d, line) EXCEPT !.left = IF line.cmd \in BlockCommands THEN VLen ELSE 0]
  <2>1. \A e \in process_command_ascii(read, line) : Sound(e)
    BY <1>3, AsciiSound, Zenon DEF AllSound
  <2>2. \/ t = [ret |-> 0, c |-> d]
        \/ t = [ret |-> 1, c |-> conn_set_state(d, "conn_closing")]
        \/ \E e \in process_command_ascii(read, line) : t = [ret |-> 1, c |-> Kept(e)]
    BY <1>6, Zenon DEF try_read_command, try_read_command_ascii
  <2>3. CASE t = [ret |-> 0, c |-> d]
    BY <1>2, <2>3, Zenon
  <2>4. CASE t = [ret |-> 1, c |-> conn_set_state(d, "conn_closing")]
    BY <1>2, <1>4, <2>4, Zenon
  <2>5. ASSUME NEW e \in process_command_ascii(read, line),
               t = [ret |-> 1, c |-> Kept(e)]
        PROVE Sound(t.c) /\ t.ret # 0
    <3>1. Sound(Kept(e))
      BY <1>1, <2>1, Zenon
    <3> HIDE DEF Kept
    <3> QED BY <1>4, <2>5, <3>1, Zenon
  <2> QED BY <2>2, <2>3, <2>4, <2>5, Zenon
<1> QED BY <1>5, <1>6, Zenon

\* complete_nread(), for both protocols.
LEMMA NreadCompleteSound ==
  ASSUME NEW d, Open(d)
  PROVE AllSound(complete_nread(d))
BY NreadAsciiSound, NreadBinarySound, Zenon DEF complete_nread

\* A connection that waits for nothing goes to its next request, or to the
\* state it was to have after its reply, waiting for nothing.
LEMMA ResetReady ==
  ASSUME NEW d, Ready(d)
  PROVE Ready(reset_cmd_handler(d)) /\ Ready(SentAll(d)) /\ Ready(SentString(d))
<1>1. Ready(reset_cmd_handler(d))
  <2>1. Ready(ReleaseKeys(ReleaseEitem(ReleaseItem(d))))
    BY ReleaseReady, Zenon
  <2>2. ASSUME NEW e, Ready(e), NEW s, s # "closed"
        PROVE Ready([e EXCEPT !.ascii_cmd = FALSE, !.cmd = "none", !.substate = "none",
                              !.wants = FALSE, !.replied = 0, !.state = s])
    BY <2>2, Zenon DEF Ready, Core, IoFields
  <2>3. (IF d.rbytes > 0 THEN "conn_parse_cmd" ELSE "conn_waiting") # "closed"
    OBVIOUS
  <2> QED BY <2>1, <2>2, <2>3, Zenon DEF reset_cmd_handler
<1>2. Ready(SentString(d))
  <2>1. Ready(ReleaseBuffer(d)) /\ d.write_and_go # "closed"
    BY ReleaseReady, Zenon DEF Ready, Core
  <2> QED BY <2>1, SetStateSound, Zenon DEF SentString
<1>3. Ready(SentAll(d))
  <2> DEFINE e == ReleaseBuffer(ReleaseKeys(ReleaseEitem(ReleaseSuffixes(
                      ReleasePrefixList(ReleaseItemList(d))))))
  <2>1. Ready(ReleaseSuffixes(ReleasePrefixList(ReleaseItemList(d))))
    BY ReleaseReady, Zenon
  <2>2. Ready(e)
    BY <2>1, ReleaseReady, Zenon
  <2> HIDE DEF e
  <2>3. (IF e.protocol = "binary" THEN e.write_and_go ELSE "conn_new_cmd") # "closed"
    BY <2>2, Zenon DEF Ready, Core
  <2>4. Ready(conn_set_state(e, IF e.protocol = "binary" THEN e.write_and_go ELSE "conn_new_cmd"))
    BY <2>2, <2>3, SetStateSound, Zenon
  <2> QED BY <2>4, Zenon DEF SentAll, e
<1> QED BY <1>1, <1>2, <1>3, Zenon

\* The structure between two clients.
Shut(d) ==
  /\ IoFields \subseteq DOMAIN d
  /\ d.state = "closed" /\ d.write_and_go # "closed"
  /\ d.premature_io_complete = 0 /\ d.waiters = 0 /\ d.current_io_wait = 0
  /\ ~d.io_blocked /\ ~d.registered /\ ~d.ewouldblock

\* The handler has returned ewouldblock: the commit is waited for, or has been
\* notified since.
Returned(d) ==
  /\ Core(d) /\ ~d.ewouldblock /\ d.waiters \in {0, 1}
  /\ d.state # "conn_closing"

\* The worker has left the connection until the commit is notified, or it was
\* notified and the worker has not resumed it yet.
Suspended(d) ==
  /\ IoFields \subseteq DOMAIN d
  /\ d.premature_io_complete = 0 /\ d.waiters = d.current_io_wait
  /\ ~d.registered /\ ~d.ewouldblock
  /\ d.state \notin {"closed", "conn_closing"} /\ d.write_and_go # "closed"
  /\ IF d.io_blocked THEN d.waiters = 1 ELSE d.waiters = 0

\* Where a connection may be: run by the worker, about to be checked by
\* should_io_blocked(), between two clients, watched for an event, or suspended.
IoInv ==
  \/ loop = "run" /\ Ready(c) /\ pending = FALSE
  \/ loop = "check" /\ Returned(c) /\ pending = FALSE
  \/ loop = "idle" /\ Shut(c) /\ pending = FALSE
  \/ loop = "idle" /\ Ready(c) /\ Watched /\ pending = FALSE
  \/ loop = "idle" /\ Suspended(c) /\ pending = ~c.io_blocked

\* conn_close() of a connection that waits for nothing leaves nobody
\* waiting.
LEMMA CloseShut ==
  ASSUME NEW d, Ready(d)
  PROVE Shut(conn_close(d))
<1> DEFINE lists == IF d.ileft # 0 THEN ReleaseItemList(d) ELSE ReleasePrefixList(d)
           e == ReleaseBuffer(ReleaseSuffixes(ReleaseKeys(ReleaseEitem(ReleaseItem(lists)))))
<1>1. Ready(lists)
  BY ReleaseReady, Zenon
<1>2. Ready(e)
  <2> HIDE DEF lists
  <2>1. Ready(ReleaseKeys(ReleaseEitem(ReleaseItem(lists))))
    BY <1>1, ReleaseReady, Zenon
  <2> QED BY <2>1, ReleaseReady, Zenon
<1> HIDE DEF e
<1>3. Shut([[e EXCEPT !.ewouldblock = FALSE, !.io_blocked = FALSE,
                      !.current_io_wait = 0, !.premature_io_complete = 0]
               EXCEPT !.state = "closed", !.registered = FALSE])
  BY <1>2, Zenon DEF Shut, Ready, Core, IoFields
<1> QED BY <1>3, Zenon DEF conn_close, conn_cleanup, e

\* A state function that returns true with nothing waited for.
LEMMA GoKeeps ==
  ASSUME NEW d, Ready(d), Go(d), pending = FALSE
  PROVE IoInv'
BY Zenon DEF Go, IoInv

\* The end of conn_parse_cmd() and of conn_nread(): a commit waited for
\* takes the worker to should_io_blocked(), which is not called without one.
LEMMA CheckKeeps ==
  ASSUME NEW d, Sound(d), CheckBlocked(d), pending = FALSE
  PROVE IoInv'
<1>1. CASE Ready(d)
  <2>1. Ready([d EXCEPT !.ewouldblock = FALSE])
    BY <1>1, Zenon DEF Ready, Core, IoFields
  <2> QED BY <1>1, <2>1, Zenon DEF CheckBlocked, IoInv, Ready
<1>2. CASE Waits(d)
  <2>1. Returned([d EXCEPT !.ewouldblock = FALSE])
    BY <1>2, Zenon DEF Waits, Returned, Core, IoFields
  <2> QED BY <1>2, <2>1, Zenon DEF CheckBlocked, IoInv, Waits
<1> QED BY <1>1, <1>2, Zenon DEF Sound

\* update_event() leaves the connection watched for what its state needs, or
\* closes it.
LEMMA EventKeeps ==
  ASSUME NEW d, Ready(d), NEW flags, NEW s, update_event(d, flags, s), pending = FALSE,
         \/ flags = "read" /\ s \in {"conn_read", "conn_swallow", "conn_nread"}
         \/ flags = "write" /\ s \in {"conn_write", "conn_mwrite", "conn_new_cmd"}
  PROVE IoInv'
<1>1. CASE Stop(conn_set_state([d EXCEPT !.ev_flags = flags], s))
  <2> DEFINE e == conn_set_state([d EXCEPT !.ev_flags = flags], s)
  <2>1. s # "closed"
    OBVIOUS
  <2>2. Ready(e) /\ e.ev_flags = flags /\ e.state = s
    BY <2>1, Zenon DEF conn_set_state, Ready, Core, IoFields
  <2> HIDE DEF e
  <2>3. c' = e /\ loop' = "idle" /\ pending' = FALSE
    BY <1>1, Zenon DEF Stop, e
  <2>4. Watched'
    BY <2>2, <2>3, Zenon DEF Watched
  <2> QED BY <2>2, <2>3, <2>4, Zenon DEF IoInv
<1>2. CASE Go(conn_set_state(d, "conn_closing"))
  BY <1>2, SetStateSound, GoKeeps, Zenon
<1> QED BY <1>1, <1>2, Zenon DEF update_event

\* A state function begins with nothing waited for.
LEMMA RunReady ==
  ASSUME IoInv, NEW s, In(s)
  PROVE Ready(c) /\ pending = FALSE /\ c.state = s
BY Zenon DEF IoInv, In

\* The out-of-memory reply of try_read_network() waits for nothing.
LEMMA NetworkFailureReady ==
  ASSUME Ready(c), c.state = "conn_read"
  PROVE \A d \in try_read_network_failure : Ready(d)
<1> DEFINE d == [c EXCEPT !.rbytes = 0]
<1>1. Ready(d)
  BY Zenon DEF Ready, Core, IoFields
<1>2. PICK x : x = d
  BY ZenonT(60)
<1>3. ASSUME NEW e \in write_bin_packet(x, 0) PROVE Ready(e)
  BY <1>1, <1>2, <1>3, ZenonT(60) DEF write_bin_packet, Ready, Core, IoFields
<1>4. ASSUME NEW e \in out_string(x, "severe") PROVE Ready(e)
  BY <1>1, <1>2, <1>4, OutStringReady, Zenon
<1>5. ASSUME NEW e, Ready(e) PROVE Ready([e EXCEPT !.write_and_go = "conn_closing"])
  BY <1>5, Zenon DEF Ready, Core, IoFields
<1> QED BY <1>2, <1>3, <1>4, <1>5, Zenon DEF try_read_network_failure

\* conn_waiting() and conn_read().
LEMMA ReadKeeps ==
  ASSUME IoInv, conn_waiting \/ conn_read
  PROVE IoInv'
<1>1. CASE conn_waiting
  BY <1>1, RunReady, EventKeeps, Zenon DEF conn_waiting
<1>2. CASE conn_read
  <2>1. Ready(c) /\ pending = FALSE /\ c.state = "conn_read"
    BY <1>2, RunReady, Zenon DEF conn_read
  <2>2. Ready(conn_set_state(c, "conn_waiting")) /\ Ready(Closing)
    BY <2>1, SetStateSound, Zenon DEF Closing
  <2>3. ASSUME NEW n PROVE Ready([c EXCEPT !.rbytes = @ + n, !.state = "conn_parse_cmd"])
    BY <2>1, Zenon DEF Ready, Core, IoFields
  <2> QED BY <1>2, <2>1, <2>2, <2>3, NetworkFailureReady, GoKeeps, Zenon DEF conn_read
<1> QED BY <1>1, <1>2, Zenon

\* conn_parse_cmd().
LEMMA ParseKeeps ==
  ASSUME IoInv, conn_parse_cmd
  PROVE IoInv'
<1>1. Ready(c) /\ pending = FALSE /\ c.state = "conn_parse_cmd"
  BY RunReady, Zenon DEF conn_parse_cmd
<1>2. PICK q \in Requests :
        \E t \in try_read_command([c EXCEPT !.protocol = q[1]], q[2]) :
          CheckBlocked(IF t.ret = 0 THEN conn_set_state(t.c, "conn_waiting") ELSE t.c)
  BY Zenon DEF conn_parse_cmd
<1> DEFINE d == [c EXCEPT !.protocol = q[1]]
<1>3. Open(d)
  BY <1>1, Zenon DEF Open, Ready, Core, IoFields
<1> HIDE DEF d
<1>4. PICK t \in try_read_command(d, q[2]) :
          CheckBlocked(IF t.ret = 0 THEN conn_set_state(t.c, "conn_waiting") ELSE t.c)
  BY <1>2, Zenon DEF d
<1>5. Sound(t.c)
  BY <1>3, CommandSound, Zenon
<1>6. Sound(IF t.ret = 0 THEN conn_set_state(t.c, "conn_waiting") ELSE t.c)
  BY <1>5, SetStateSound, Zenon
<1> QED BY <1>1, <1>4, <1>6, CheckKeeps, Zenon

\* conn_new_cmd(): a connection that yields with requests in its buffer is
\* watched for a write event.
LEMMA NewCmdKeeps ==
  ASSUME IoInv, conn_new_cmd
  PROVE IoInv'
<1>1. Ready(c) /\ pending = FALSE /\ c.state = "conn_new_cmd"
  BY RunReady, Zenon DEF conn_new_cmd
<1> DEFINE d == [c EXCEPT !.nevents = @ - 1]
<1>2. Ready(d) /\ d.state = "conn_new_cmd"
  BY <1>1, Zenon DEF Ready, Core, IoFields
<1>3. \/ Go(reset_cmd_handler(d))
      \/ update_event(d, "write", d.state)
      \/ ~(d.rbytes > 0) /\ Stop(d)
  BY Zenon DEF conn_new_cmd
<1> HIDE DEF d
<1>4. CASE Go(reset_cmd_handler(d))
  BY <1>1, <1>2, <1>4, ResetReady, GoKeeps, Zenon
<1>5. CASE update_event(d, "write", d.state)
  BY <1>1, <1>2, <1>5, EventKeeps, Zenon
<1>6. CASE ~(d.rbytes > 0) /\ Stop(d)
  <2>1. c' = d /\ loop' = "idle" /\ pending' = FALSE
    BY <1>1, <1>6, Zenon DEF Stop
  <2>2. Watched'
    BY <1>2, <1>6, <2>1, Zenon DEF Watched
  <2> QED BY <1>2, <2>1, <2>2, Zenon DEF IoInv
<1> QED BY <1>3, <1>4, <1>5, <1>6, Zenon

\* conn_swallow() and conn_nread().
LEMMA DataKeeps ==
  ASSUME IoInv, conn_swallow \/ conn_nread
  PROVE IoInv'
<1>1. ASSUME Ready(c)
      PROVE /\ Ready(conn_set_state(c, "conn_new_cmd")) /\ Ready(Closing)
            /\ \A m : /\ Ready([c EXCEPT !.sbytes = @ - m, !.rbytes = @ - m, !.left = @ - m])
                      /\ Ready([c EXCEPT !.rlbytes = @ - m, !.rbytes = @ - m, !.left = @ - m])
                      /\ Ready([c EXCEPT !.sbytes = @ - m, !.left = @ - m])
                      /\ Ready([c EXCEPT !.rlbytes = @ - m, !.left = @ - m])
  <2>1. Ready(conn_set_state(c, "conn_new_cmd")) /\ Ready(Closing)
    BY <1>1, SetStateSound, Zenon DEF Closing
  <2>2. ASSUME NEW m
        PROVE /\ Ready([c EXCEPT !.sbytes = @ - m, !.rbytes = @ - m, !.left = @ - m])
              /\ Ready([c EXCEPT !.rlbytes = @ - m, !.rbytes = @ - m, !.left = @ - m])
              /\ Ready([c EXCEPT !.sbytes = @ - m, !.left = @ - m])
              /\ Ready([c EXCEPT !.rlbytes = @ - m, !.left = @ - m])
    BY <1>1, Zenon DEF Ready, Core, IoFields
  <2> QED BY <2>1, <2>2, Zenon
<1>2. CASE conn_swallow
  <2>1. Ready(c) /\ pending = FALSE /\ c.state = "conn_swallow"
    BY <1>2, RunReady, Zenon DEF conn_swallow
  <2>2. CASE update_event(c, "read", c.state)
    BY <2>1, <2>2, EventKeeps, Zenon
  <2> QED BY <1>1, <1>2, <2>1, <2>2, GoKeeps, Zenon DEF conn_swallow
<1>3. CASE conn_nread
  <2>1. Ready(c) /\ pending = FALSE /\ c.state = "conn_nread"
    BY <1>3, RunReady, Zenon DEF conn_nread
  <2>2. CASE update_event(c, "read", c.state)
    BY <2>1, <2>2, EventKeeps, Zenon
  <2>3. Open(c)
    BY <2>1, Zenon DEF Open
  <2>4. CASE \E d \in complete_nread(c) : CheckBlocked(d)
    BY <2>1, <2>3, <2>4, NreadCompleteSound, CheckKeeps, Zenon DEF AllSound
  <2> QED BY <1>1, <1>3, <2>1, <2>2, <2>4, GoKeeps, Zenon DEF conn_nread
<1> QED BY <1>2, <1>3, Zenon

\* conn_write() and conn_mwrite().
LEMMA SendKeeps ==
  ASSUME IoInv, conn_write \/ conn_mwrite
  PROVE IoInv'
<1>1. ASSUME NEW s \in {"conn_write", "conn_mwrite"}, In(s), NEW sent, Ready(sent),
             transmit(c, sent)
      PROVE IoInv'
  <2>1. Ready(c) /\ pending = FALSE /\ c.state = s
    BY <1>1, RunReady, Zenon
  <2>2. Ready([sent EXCEPT !.replied = @ + 1]) /\ Ready(conn_set_state(c, "conn_closing"))
    <3>1. Ready([sent EXCEPT !.replied = @ + 1])
      BY <1>1, Zenon DEF Ready, Core, IoFields
    <3> QED BY <2>1, <3>1, SetStateSound, Zenon
  <2>3. CASE update_event(c, "write", c.state)
    BY <1>1, <2>1, <2>3, EventKeeps, Zenon
  <2> QED BY <1>1, <2>1, <2>2, <2>3, GoKeeps, Zenon DEF transmit
<1>2. Ready(c)
  BY RunReady, Zenon DEF conn_write, conn_mwrite
<1> QED BY <1>1, <1>2, ResetReady, Zenon DEF conn_write, conn_mwrite

\* conn_closing(), should_io_blocked() and the events of the worker.
LEMMA LoopKeeps ==
  ASSUME IoInv, conn_closing \/ should_io_blocked \/ NewConnection \/ ReadEvent \/ WriteEvent
                \/ ResumeIo
  PROVE IoInv'
<1>1. CASE conn_closing
  <2>1. Ready(c) /\ pending = FALSE
    BY <1>1, RunReady, Zenon DEF conn_closing
  <2>2. Shut(conn_close(c))
    BY <2>1, CloseShut, Zenon
  <2> QED BY <1>1, <2>1, <2>2, Zenon DEF conn_closing, Stop, IoInv
<1>2. CASE should_io_blocked
  <2>1. Returned(c) /\ pending = FALSE
    BY <1>2, Zenon DEF should_io_blocked, IoInv
  <2>2. CASE c.waiters = 0
    <3>1. c.current_io_wait = 0 /\ ~(0 > 0)
      BY <2>1, <2>2 DEF Returned, Core
    <3>2. c' = c /\ loop' = "run" /\ pending' = FALSE
      BY <1>2, <2>1, <3>1, Zenon DEF should_io_blocked
    <3>3. Ready(c)
      BY <2>1, <2>2, Zenon DEF Returned, Ready
    <3> QED BY <3>2, <3>3, Zenon DEF IoInv
  <2>3. CASE c.waiters = 1
    <3>1. c.current_io_wait = 1 /\ (1 > 0)
      BY <2>1, <2>3 DEF Returned, Core
    <3>2. /\ c' = [c EXCEPT !.io_blocked = TRUE, !.registered = FALSE]
          /\ loop' = "idle" /\ pending' = FALSE
      BY <1>2, <2>1, <3>1, Zenon DEF should_io_blocked
    <3> DEFINE d == [c EXCEPT !.io_blocked = TRUE, !.registered = FALSE]
    <3>3. Suspended(d) /\ d.io_blocked = TRUE
      BY <2>1, <2>3, Zenon DEF Returned, Suspended, Core, IoFields
    <3> HIDE DEF d
    <3>4. c' = d /\ loop' = "idle" /\ pending' = FALSE
      BY <3>2, Zenon DEF d
    <3> QED BY <3>3, <3>4, Zenon DEF IoInv
  <2> QED BY <2>1, <2>2, <2>3, Zenon DEF Returned
<1>3. CASE NewConnection
  <2>1. Shut(c) /\ pending = FALSE /\ loop = "idle"
    BY <1>3, Zenon DEF NewConnection, IoInv, Ready, Core, Suspended
  <2> DEFINE d == [conn_new(c) EXCEPT !.left = 0, !.short = 0, !.legal = TRUE, !.wants = FALSE]
  <2>2. Ready(d) /\ d.state = "conn_new_cmd" /\ d.rbytes = 0
    BY <2>1, ZenonT(60) DEF conn_new, Ready, Core, Shut, IoFields
  <2> HIDE DEF d
  <2>3. c' = d /\ loop' = "idle" /\ pending' = FALSE
    BY <1>3, <2>1, Zenon DEF NewConnection, d
  <2>4. Watched'
    BY <2>2, <2>3 DEF Watched
  <2> QED BY <2>2, <2>3, <2>4, Zenon DEF IoInv
<1>4. ASSUME NEW flags, event_handler(flags) PROVE IoInv'
  <2>1. Ready(c) /\ pending = FALSE
    BY <1>4, Zenon DEF event_handler, IoInv, Shut, Suspended
  <2>2. Ready([c EXCEPT !.nevents = ReqsPerEvent])
    BY <2>1, Zenon DEF Ready, Core, IoFields
  <2> QED BY <1>4, <2>1, <2>2, Zenon DEF event_handler, IoInv
<1>5. CASE ResumeIo
  <2>1. Suspended(c) /\ ~c.io_blocked
    BY <1>5, Zenon DEF ResumeIo, IoInv
  <2>2. Ready([c EXCEPT !.registered = TRUE, !.nevents = ReqsPerEvent])
    BY <2>1, Zenon DEF Suspended, Ready, Core, IoFields
  <2> QED BY <1>5, <2>2, Zenon DEF ResumeIo, IoInv
<1> QED BY <1>1, <1>2, <1>3, <1>4, <1>5, Zenon DEF ReadEvent, WriteEvent

\* A notification: the wait it ends is there and counted, between the end of
\* the handler and should_io_blocked() as well as after.
LEMMA NotifyKeeps ==
  ASSUME IoInv, notify_io_complete
  PROVE IoInv'
<1>1. c.waiters > 0
  BY Zenon DEF notify_io_complete
<1>2. /\ c.waiters = 1 /\ c.current_io_wait = 1
      /\ \/ loop = "check" /\ Returned(c) /\ pending = FALSE
         \/ loop = "idle" /\ Suspended(c) /\ c.io_blocked /\ pending = FALSE
  <2>1. ~(c.waiters = 0)
    BY <1>1
  <2>2. CASE loop = "check" /\ Returned(c) /\ pending = FALSE
    BY <2>1, <2>2, Zenon DEF Returned, Core
  <2>3. CASE loop = "idle" /\ Suspended(c) /\ pending = ~c.io_blocked
    BY <2>1, <2>3, Zenon DEF Suspended
  <2> QED BY <2>1, <2>2, <2>3, Zenon DEF IoInv, Ready, Shut
<1>3. c.state \notin {"closed", "conn_closing"} /\ c.current_io_wait > 0
  BY <1>2 DEF Returned, Suspended, Core
<1>4. c.waiters - 1 = 0 /\ c.current_io_wait - 1 = 0 /\ IoFields \subseteq DOMAIN c
  BY <1>2 DEF Returned, Suspended, Core
<1> DEFINE d == [[c EXCEPT !.waiters = @ - 1] EXCEPT !.current_io_wait = @ - 1]
<1>5. d.current_io_wait = 0
  BY <1>4, Zenon DEF IoFields
<1>6. /\ c' = [d EXCEPT !.io_blocked = @ /\ ~(d.current_io_wait = 0 /\ c.io_blocked)]
      /\ pending' = (pending \/ (d.current_io_wait = 0 /\ c.io_blocked))
      /\ loop' = loop
  BY <1>3, Zenon DEF notify_io_complete
<1>7. CASE loop = "check" /\ Returned(c) /\ pending = FALSE
  <2>1. Returned([d EXCEPT !.io_blocked = @ /\ ~(d.current_io_wait = 0 /\ c.io_blocked)])
    BY <1>4, <1>7, Zenon DEF Returned, Core, IoFields
  <2>2. ~c.io_blocked
    BY <1>7, Zenon DEF Returned, Core
  <2>3. pending' = FALSE
    BY <1>6, <1>7, <2>2, Zenon
  <2> HIDE DEF d
  <2> QED BY <1>6, <1>7, <2>1, <2>3, Zenon DEF IoInv
<1>8. CASE loop = "idle" /\ Suspended(c) /\ c.io_blocked /\ pending = FALSE
  <2> DEFINE e == [d EXCEPT !.io_blocked = @ /\ ~(d.current_io_wait = 0 /\ c.io_blocked)]
  <2>1. Suspended(e) /\ ~e.io_blocked
    BY <1>4, <1>5, <1>8, Zenon DEF Suspended, IoFields
  <2>2. pending' = TRUE
    BY <1>5, <1>6, <1>8, Zenon
  <2>3. c' = e
    BY <1>6, Zenon
  <2> HIDE DEF e
  <2>4. pending' = ~c'.io_blocked
    BY <2>1, <2>2, <2>3, Zenon
  <2> QED BY <1>6, <1>8, <2>1, <2>3, <2>4, Zenon DEF IoInv
<1> QED BY <1>2, <1>7, <1>8, Zenon

\* A fresh structure waits for nothing.
LEMMA InitIo == Init => IoInv
<1>1. IoFields \subseteq DOMAIN NewConn
  BY DEF NewConn, IoFields
<1>2. Shut(NewConn)
  BY <1>1, Zenon DEF NewConn, Shut
<1> QED BY <1>2, Zenon DEF Init, IoInv

\* A connection waits for a commit only from the end of its handler to the
\* notification; it is not closed meanwhile, and the worker has left it only
\* if it is watched, suspended or pending.
THEOREM IoInvariant == Spec => []IoInv
<1>1. ASSUME IoInv, [Next]_vars PROVE IoInv'
  <2>1. CASE Next
    BY <1>1, <2>1, ReadKeeps, ParseKeeps, NewCmdKeeps, DataKeeps, SendKeeps, LoopKeeps,
       NotifyKeeps, Zenon DEF Next, Worker
  <2>2. CASE UNCHANGED vars
    BY <1>1, <2>2, Zenon DEF vars, IoInv, Watched
  <2> QED BY <1>1, <2>1, <2>2, Zenon
<1> QED BY <1>1, InitIo, PTL DEF Spec

\* No connection is closed or reused while its commit is outstanding, the
\* count of waits is exact and no notification is premature, for all
\* requests in all orders: what the comment of waitfor_io_complete() relies
\* on.
THEOREM CommitsNotifiedInTime == Spec => []NotifiedInTime
<1>1. IoInv => NotifiedInTime
  BY Zenon DEF IoInv, NotifiedInTime, Ready, Returned, Shut, Suspended, Core
<1> QED BY <1>1, IoInvariant, PTL

\* No connection is forgotten by its worker, for all requests and any
\* interleaving with the notifications.
THEOREM ConnectionsNeverForgotten == Spec => []NeverForgotten
<1>1. IoInv => NeverForgotten
  <2>1. ASSUME c.waiters = 1 PROVE c.waiters > 0
    BY <2>1
  <2> QED BY <2>1, Zenon DEF IoInv, NeverForgotten, Ready, Shut, Suspended, Core
<1> QED BY <1>1, IoInvariant, PTL

=============================================================================
