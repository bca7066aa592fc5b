------------------------------ MODULE ConnBinary ------------------------------
(***************************************************************************)
(* The commands of the binary protocol (memcached.c), one operator per     *)
(* function.                                                               *)
(*                                                                         *)
(* A request is [cmd, opt, valid]: opt is "quiet" for the Q variant of a   *)
(* command; valid is FALSE when the lengths in the header are not those    *)
(* the command wants.  The server reads the header, then the extras and    *)
(* the key, then the value; what it has to do next is in substate.         *)
(***************************************************************************)
EXTENDS ConnAscii

\* The commands with a value after the key.
ValueCommands ==
    {"set", "append", "lop_insert", "sop_insert", "sop_delete", "sop_exist",
     "bop_insert", "bop_upsert", "bop_update", "bop_update_novalue", "bop_mget", "bop_smget"}

BinWrite(c) == BinReplies(EngineWrite(c))
BinRead(c)  == BinReplies(EngineRead(c))

\* The engine that owns the items and elements knows all these commands: an
\* allocation never returns ENGINE_ENOTSUP.
AllocErrors == EngineErrors \ {"ENOTSUP"}

BinRefused(c, n, errors) ==
    UNION {handle_unexpected_errorcode_bin(c, e, n) : e \in errors}

BinNread(c, n, substate) ==
    [c EXCEPT !.rlbytes = n, !.substate = substate, !.state = "conn_nread"]

-----------------------------------------------------------------------------
(***************************************************************************)
(* Items.                                                                  *)
(***************************************************************************)

\* The room for the chunk in the input buffer may not be found.
bin_read_chunk(c, substate, n) ==
    {BinNread(c, n, substate), conn_set_state([c EXCEPT !.substate = substate], "conn_closing")}

bin_read_key(c, substate) == bin_read_chunk(c, substate, 1)

AllocItem(c) ==
    {BinNread([Take(c, "item", 1) EXCEPT !.item = TRUE], 1, "bin_read_set_value")}
    \cup BinRefused(c, 1, AllocErrors)

\* The old value of a set that failed is removed, and nobody waits for that.
process_bin_update(c)         == AllocItem(c)
process_bin_append_prepend(c) == AllocItem(c)

complete_update_bin(c) == {ReleaseItem(d) : d \in BinWrite(c)}

\* The reply leaves write_and_go alone; a quiet miss has no reply.
process_bin_get_Mutant(c) ==
    {[Take(c, "item", 1) EXCEPT !.item = TRUE, !.state = "conn_mwrite"],
     conn_set_state(c, "conn_new_cmd")}

process_bin_get(c) ==
    {[Take(c, "item", 1) EXCEPT !.item = TRUE, !.state = "conn_mwrite"],
     conn_set_state(c, "conn_closing")}
    \cup IF c.noreply THEN {conn_set_state(c, "conn_new_cmd")} ELSE write_bin_packet(c, 0)

\* ENGINE_ENOTSUP would abort(), and the engine does not return it here.
complete_incr_bin(c) == BinReplies({e \in EngineWrite(c) : e.ret # "ENOTSUP"})

process_bin_stat(c) ==
    {write_and_free(c)} \cup write_bin_packet(c, 0) \cup BinRefused(c, 0, EngineErrors)

process_bin_delete(c)       == BinReplies({e \in EngineWrite(c) : e.ret \in {"SUCCESS", "MISS"}})
process_bin_flush(c)        == BinWrite(c)
process_bin_flush_prefix(c) == BinWrite(c)
process_bin_getattr(c)      == BinRead(c)
process_bin_setattr(c)      == BinWrite(c)

process_bin_unknown_packet(c) ==
    {write_and_free(c), conn_set_state(c, "conn_closing")} \cup write_bin_packet(c, 0)

-----------------------------------------------------------------------------
(***************************************************************************)
(* Collections.                                                            *)
(***************************************************************************)

BinNreadElem(c, op, substate) ==
    {BinNread([Take(c, "elem", 1) EXCEPT !.coll_eitem = TRUE, !.coll_ecount = 1,
                                         !.coll_op = op], 1, substate)}
    \cup BinRefused(c, 1, AllocErrors)

BinNreadValue(c, op, substate) ==
    {BinNread([Take(c, "block", 1) EXCEPT !.coll_eitem = TRUE, !.coll_ecount = 1,
                                          !.coll_op = op], 1, substate)}
    \cup BinRefused(c, 1, {"ENOMEM"})

\* Elements, array and response string are kept until the reply is sent.
BinElemsResponse(c, op, n) ==
    {KeepElems(c, op, n)} \cup write_bin_packet(GiveElems(c, n), 0)

BinWithElems(E, Response(_, _)) ==
    UNION {IF e.ret = "SUCCESS"
             THEN UNION {Response(TakeElems(e.c, n), n) : n \in 1 .. MaxElems}
             ELSE BinReplyResult(e) : e \in E}

process_bin_lop_create(c)          == BinWrite(c)
process_bin_lop_prepare_nread(c)   ==
    BinNreadElem(c, "LOP_INSERT", "bin_reading_lop_nread_complete")
process_bin_lop_insert_complete(c) == DropEitem("elem", BinWrite(c))
process_bin_lop_nread_complete(c)  == process_bin_lop_insert_complete(c)
process_bin_lop_delete(c)          == BinWrite(c)
out_bin_lop_get_response(c, n)     == BinElemsResponse(c, "LOP_GET", n)
process_bin_lop_get(c)             == BinWithElems(EngineWrite(c), out_bin_lop_get_response)

process_bin_sop_create(c)        == BinWrite(c)
process_bin_sop_prepare_nread(c) ==
    LET next == "bin_reading_sop_nread_complete"
    IN CASE c.cmd = "sop_insert" -> BinNreadElem(c, "SOP_INSERT", next)
         [] c.cmd = "sop_delete" -> BinNreadValue(c, "SOP_DELETE", next)
         [] OTHER                -> BinNreadValue(c, "SOP_EXIST", next)
process_bin_sop_insert_complete(c) == DropEitem("elem", BinWrite(c))
process_bin_sop_delete_complete(c) == DropEitem("block", BinWrite(c))
process_bin_sop_exist_complete(c)  == DropEitem("block", BinRead(c))
process_bin_sop_nread_complete(c)  ==
    CASE c.cmd = "sop_insert" -> process_bin_sop_insert_complete(c)
      [] c.cmd = "sop_delete" -> process_bin_sop_delete_complete(c)
      [] OTHER                -> process_bin_sop_exist_complete(c)
out_bin_sop_get_response(c, n) == BinElemsResponse(c, "SOP_GET", n)
process_bin_sop_get(c)         == BinWithElems(EngineWrite(c), out_bin_sop_get_response)

process_bin_bop_create(c)          == BinWrite(c)
process_bin_bop_prepare_nread(c)   ==
    BinNreadElem(c, IF c.cmd = "bop_insert" THEN "BOP_INSERT" ELSE "BOP_UPSERT",
                 "bin_reading_bop_nread_complete")
process_bin_bop_insert_complete(c) == DropEitem("elem", BinWrite(c))
process_bin_bop_nread_complete(c)  == process_bin_bop_insert_complete(c)
process_bin_bop_update_complete(c) ==
    IF c.coll_eitem THEN DropEitem("block", BinWrite(c)) ELSE BinWrite(c)

\* Without a value the update is done at once, and what is left of the body
\* stays in the input.
process_bin_bop_update_prepare_nread(c) ==
    IF c.cmd = "bop_update_novalue"
      THEN process_bin_bop_update_complete(
               [c EXCEPT !.coll_eitem = FALSE, !.coll_ecount = 0, !.coll_op = "BOP_UPDATE"])
      ELSE BinNreadValue(c, "BOP_UPDATE", "bin_reading_bop_update_nread_complete")

process_bin_bop_delete(c)      == BinWrite(c)
out_bin_bop_get_response(c, n) == BinElemsResponse(c, "BOP_GET", n)
process_bin_bop_get(c)         == BinWithElems(EngineWrite(c), out_bin_bop_get_response)
process_bin_bop_count(c)       == BinRead(c)

process_bin_bop_prepare_nread_keys(c) ==
    {BinNread([Take(Take(c, "keys", 1), "block", 1)
                  EXCEPT !.coll_strkeys = TRUE, !.coll_eitem = TRUE, !.coll_ecount = 0,
                         !.coll_op = IF c.cmd = "bop_mget" THEN "BOP_MGET" ELSE "BOP_SMGET"],
              1, "bin_reading_bop_nread_keys_complete")}
    \cup BinRefused(c, 1, {"ENOMEM"})

process_bin_bop_mget_complete(c) == FreeKeysAndResult(write_bin_packet(c, 0))

\* The elements found are kept for the reply, or released when it cannot be
\* made or the engine fails.
BinSmget(c) ==
    {[Take(c, "elem", n) EXCEPT !.coll_ecount = n, !.coll_op = "BOP_SMGET",
                                !.state = "conn_mwrite"] : n \in 0 .. MaxElems}
    \cup FreeKeysAndResult(write_bin_packet(c, 0) \cup BinRefused(c, 0, EngineErrors))

process_bin_bop_smget_complete_old(c) == BinSmget(c)
process_bin_bop_smget_complete(c) ==
    IF c.coll_smgmode = 0 THEN process_bin_bop_smget_complete_old(c) ELSE BinSmget(c)

process_bin_bop_nread_keys_complete(c) ==
    IF c.coll_op = "BOP_MGET" THEN process_bin_bop_mget_complete(c)
                              ELSE process_bin_bop_smget_complete(c)

-----------------------------------------------------------------------------
(***************************************************************************)
(* From the input buffer to the handler of a packet.                       *)
(***************************************************************************)

\* The extras and the key have been read, or the value.
complete_nread_binary(c) ==
    LET s == c.substate
    IN CASE s = "bin_reading_set_header" ->
              IF c.cmd = "append" THEN process_bin_append_prepend(c) ELSE process_bin_update(c)
         [] s = "bin_read_set_value"             -> complete_update_bin(c)
         [] s = "bin_reading_get_key"            -> process_bin_get(c)
         [] s = "bin_reading_stat"               -> process_bin_stat(c)
         [] s = "bin_reading_del_header"         -> process_bin_delete(c)
         [] s = "bin_reading_incr_header"        -> complete_incr_bin(c)
         [] s = "bin_read_flush_exptime"         -> process_bin_flush(c)
         [] s = "bin_read_flush_prefix_exptime"  -> process_bin_flush_prefix(c)
         [] s = "bin_reading_getattr"            -> process_bin_getattr(c)
         [] s = "bin_reading_setattr"            -> process_bin_setattr(c)
         [] s = "bin_reading_lop_create"         -> process_bin_lop_create(c)
         [] s = "bin_reading_lop_prepare_nread"  -> process_bin_lop_prepare_nread(c)
         [] s = "bin_reading_lop_nread_complete" -> process_bin_lop_nread_complete(c)
         [] s = "bin_reading_lop_delete"         -> process_bin_lop_delete(c)
         [] s = "bin_reading_lop_get"            -> process_bin_lop_get(c)
         [] s = "bin_reading_sop_create"         -> process_bin_sop_create(c)
         [] s = "bin_reading_sop_prepare_nread"  -> process_bin_sop_prepare_nread(c)
         [] s = "bin_reading_sop_nread_complete" -> process_bin_sop_nread_complete(c)
         [] s = "bin_reading_sop_get"            -> process_bin_sop_get(c)
         [] s = "bin_reading_bop_create"         -> process_bin_bop_create(c)
         [] s = "bin_reading_bop_prepare_nread"  -> process_bin_bop_prepare_nread(c)
         [] s = "bin_reading_bop_nread_complete" -> process_bin_bop_nread_complete(c)
         [] s = "bin_reading_bop_update_prepare_nread"  -> process_bin_bop_update_prepare_nread(c)
         [] s = "bin_reading_bop_update_nread_complete" -> process_bin_bop_update_complete(c)
         [] s = "bin_reading_bop_delete"         -> process_bin_bop_delete(c)
         [] s = "bin_reading_bop_get"            -> process_bin_bop_get(c)
         [] s = "bin_reading_bop_count"          -> process_bin_bop_count(c)
         [] s = "bin_reading_bop_prepare_nread_keys"  -> process_bin_bop_prepare_nread_keys(c)
         [] s = "bin_reading_bop_nread_keys_complete" -> process_bin_bop_nread_keys_complete(c)
         [] s = "bin_reading_packet"             -> process_bin_unknown_packet(c)
         [] OTHER                                -> {[c EXCEPT !.fatal = TRUE]}   \* abort()

\* What is read first of the commands on items, and of those on collections.
ItemSubstate(cmd) ==
    CASE cmd \in {"set", "append"}  -> "bin_reading_set_header"
      [] cmd = "get"                -> "bin_reading_get_key"
      [] cmd = "stat"               -> "bin_reading_stat"
      [] cmd = "delete"             -> "bin_reading_del_header"
      [] cmd = "incr"               -> "bin_reading_incr_header"
      [] cmd = "flush"              -> "bin_read_flush_exptime"
      [] cmd = "flush_prefix"       -> "bin_read_flush_prefix_exptime"
      [] cmd = "getattr"            -> "bin_reading_getattr"
      [] cmd = "setattr"            -> "bin_reading_setattr"
      [] OTHER                      -> "bin_reading_packet"

CollSubstate(cmd) ==
    CASE cmd = "lop_create"         -> "bin_reading_lop_create"
      [] cmd = "lop_insert"         -> "bin_reading_lop_prepare_nread"
      [] cmd = "lop_delete"         -> "bin_reading_lop_delete"
      [] cmd = "lop_get"            -> "bin_reading_lop_get"
      [] cmd = "sop_create"         -> "bin_reading_sop_create"
      [] cmd \in {"sop_insert", "sop_delete", "sop_exist"} -> "bin_reading_sop_prepare_nread"
      [] cmd = "sop_get"            -> "bin_reading_sop_get"
      [] cmd = "bop_create"         -> "bin_reading_bop_create"
      [] cmd \in {"bop_insert", "bop_upsert"} -> "bin_reading_bop_prepare_nread"
      [] cmd \in {"bop_update", "bop_update_novalue"} -> "bin_reading_bop_update_prepare_nread"
      [] cmd = "bop_delete"         -> "bin_reading_bop_delete"
      [] cmd = "bop_get"            -> "bin_reading_bop_get"
      [] cmd = "bop_count"          -> "bin_reading_bop_count"
      [] cmd \in {"bop_mget", "bop_smget"} -> "bin_reading_bop_prepare_nread_keys"
      [] OTHER                      -> "none"

\* The header of a flush_prefix passes when its body length does not count
\* the key that is read after it.
dispatch_bin_command(c, r) ==
    LET d == [c EXCEPT !.noreply = (r.opt = "quiet"), !.cmd = r.cmd]
    IN CASE ~r.valid -> handle_binary_protocol_error(d)
         [] r.valid /\ r.cmd \in {"version", "noop"} -> write_bin_response(d)
         [] r.valid /\ r.cmd = "quit" ->
              {[e EXCEPT !.write_and_go = "conn_closing",
                         !.state = IF d.noreply THEN "conn_closing" ELSE @] :
                   e \in write_bin_response(d)}
         [] OTHER -> bin_read_key(d, IF CollSubstate(r.cmd) # "none" THEN CollSubstate(r.cmd)
                                                                     ELSE ItemSubstate(r.cmd))

BodyUnits(cmd) ==
    CASE cmd \in {"version", "noop", "quit"} -> 0
      [] cmd \in ValueCommands               -> 2
      [] OTHER                               -> 1

\* Less than a header, a header without the magic byte (as what is left of a
\* body has not), or a header.
try_read_command_binary(c, r) ==
    LET d == [Heard(c, r) EXCEPT !.left = BodyUnits(r.cmd)]
        closing == [ret |-> 1, c |-> conn_set_state(c, "conn_closing")]
    IN {[ret |-> 0, c |-> c], closing}
       \cup IF c.left > 0 THEN {}
            ELSE {[ret |-> 1, c |-> [e EXCEPT !.rbytes = @ - 1]] : e \in dispatch_bin_command(d, r)}

=============================================================================
