------------------------------ MODULE ConnAscii ------------------------------
(***************************************************************************)
(* The commands of the ASCII protocol (memcached.c), one operator per      *)
(* function, with the function's name, or per subcommand of the functions  *)
(* that parse a family of subcommands, named process_<family>_<subcommand>.*)
(*                                                                         *)
(* A request is [cmd, opt, valid]: opt is the last token of the line,      *)
(* "noreply", "pipe" or "none"; valid is FALSE when a number or a name of  *)
(* the line is refused.  What is checked of a line's text is not modelled  *)
(* beyond that.                                                            *)
(***************************************************************************)
EXTENDS Conn

VLen == 2    \* the units of a data block: the value, or the keys, and "\r\n"

-----------------------------------------------------------------------------
(***************************************************************************)
(* The last token of the line, and the pipeline in error.                  *)
(***************************************************************************)

set_noreply_maybe(c, r) == [c EXCEPT !.noreply = (r.opt = "noreply")]

set_pipe_noreply_maybe(c, r) ==
    [c EXCEPT !.noreply = (r.opt \in {"noreply", "pipe"}),
              !.pipe_state = IF r.opt = "pipe" /\ @ = "OFF" THEN "ON" ELSE @]

set_pipe_maybe(c, r) ==
    [c EXCEPT !.noreply = (r.opt = "pipe"),
              !.pipe_state = IF r.opt = "pipe" /\ @ = "OFF" THEN "ON" ELSE @]

check_and_handle_pipe_state(c) ==
    IF c.noreply THEN [c EXCEPT !.noreply = FALSE] ELSE pipe_state_clear(c)

SkipData(c, n) ==
    IF n > 0 THEN [c EXCEPT !.sbytes = n, !.state = "conn_swallow"]
             ELSE conn_set_state(c, "conn_new_cmd")

\* The shape of the handlers of a line.  d is the connection once the last
\* token is read, n what a pipeline in error has to swallow.
Piped(d, r, n, Handler(_)) ==
    IF ~r.valid THEN out_string(d, "severe")
    ELSE IF d.pipe_state \notin PipeErrors THEN Handler(d)
    ELSE {SkipData(check_and_handle_pipe_state(d), n)}

Plain(d, r, Handler(_)) ==
    IF r.valid THEN Handler(d) ELSE out_string(d, "severe")

Write(c) == Replies(EngineWrite(c))
Read(c)  == Replies(EngineRead(c))

\* A command that changes or shows something of the server and says so.
Answer(c) == out_string(c, "ok") \cup out_string(c, "severe")

-----------------------------------------------------------------------------
(***************************************************************************)
(* Receiving a data block: memory first, then conn_nread.                  *)
(***************************************************************************)

Nread(c) == [c EXCEPT !.rlbytes = VLen, !.state = "conn_nread"]

Refused(c, n, errors) ==
    {SwallowAfter(d, n) :
        d \in UNION {handle_unexpected_errorcode_ascii(c, e) : e \in errors}}

NreadElem(c, op) ==
    {Nread([Take(c, "elem", 1) EXCEPT !.coll_eitem = TRUE, !.coll_ecount = 1,
                                      !.coll_op = op])}
    \cup Refused(c, VLen, EngineErrors)

NreadValue(c, op) ==
    {Nread([Take(c, "block", 1) EXCEPT !.coll_eitem = TRUE, !.coll_ecount = 1,
                                       !.coll_op = op])}
    \cup Refused(c, VLen, {"ENOMEM"})

process_lop_prepare_nread(c) == NreadElem(c, "LOP_INSERT")

process_sop_prepare_nread(c, op) ==
    IF op = "SOP_INSERT" THEN NreadElem(c, op) ELSE NreadValue(c, op)

process_mop_prepare_nread(c, op) ==
    IF op \in {"MOP_INSERT", "MOP_UPSERT"} THEN NreadElem(c, op) ELSE NreadValue(c, op)

process_bop_prepare_nread(c, op) == NreadElem(c, op)

process_bop_update_prepare_nread(c) == NreadValue(c, "BOP_UPDATE")

process_mop_prepare_nread_fields(c, op) ==
    {Nread([Take(c, "keys", 1) EXCEPT !.coll_strkeys = TRUE, !.coll_ecount = 1,
                                      !.coll_op = op])}
    \cup Refused(c, VLen, {"ENOMEM"})

process_prepare_nread_keys(c, op) ==
    {Nread([Take(c, "keys", 1) EXCEPT !.coll_strkeys = TRUE, !.coll_op = op])}
    \cup Refused(c, VLen, {"ENOMEM"})

process_bop_prepare_nread_keys(c, op) ==
    {Nread([Take(Take(c, "keys", 1), "block", 1)
                EXCEPT !.coll_strkeys = TRUE, !.coll_eitem = TRUE,
                       !.coll_ecount = 0, !.coll_op = op])}
    \cup Refused(c, VLen, {"ENOMEM"})

-----------------------------------------------------------------------------
(***************************************************************************)
(* Replies with elements.  The engine hands out n referenced elements in   *)
(* an array; the response string is allocated next.  The connection keeps  *)
(* all three until the reply is sent, or gives them back if it cannot be   *)
(* made.                                                                   *)
(***************************************************************************)

TakeElems(c, n) == Take(Take(c, "elem", n), "block", 1)

KeepElems(c, op, n) ==
    [Take(c, "resp", 1) EXCEPT !.coll_eitem = TRUE, !.coll_ecount = n,
                               !.coll_resps = TRUE, !.coll_op = op,
                               !.state = "conn_mwrite"]

GiveElems(c, n) == Give(Give(c, "elem", n), "block", 1)

ElemsResponse(c, op, n) ==
    {KeepElems(c, op, n)} \cup out_string(GiveElems(c, n), "severe")

out_lop_get_response(c, n) == ElemsResponse(c, "LOP_GET", n)
out_sop_get_response(c, n) == ElemsResponse(c, "SOP_GET", n)
out_mop_get_response(c, n) == ElemsResponse(c, "MOP_GET", n)
out_bop_get_response(c, n) == ElemsResponse(c, "BOP_GET", n)
out_bop_pwg_response(c, n) == ElemsResponse(c, "BOP_PWG", n)
out_bop_gbp_response(c, n) == ElemsResponse(c, "BOP_GBP", n)

\* E is what the engine may return: with SUCCESS come n elements.
WithElems(E, Response(_, _)) ==
    UNION {IF e.ret = "SUCCESS"
             THEN UNION {Response(TakeElems(e.c, n), n) : n \in 1 .. MaxElems}
             ELSE ReplyResult(e) : e \in E}

\* The array is inside the response string, and holds the trimmed element.
out_bop_trim_response(c) ==
    {[Take(c, "resp", 1) EXCEPT !.coll_eitem = TRUE, !.coll_ecount = 1,
                                !.coll_resps = TRUE, !.state = "conn_mwrite"]}
    \cup out_string(Give(c, "elem", 1), "severe")

-----------------------------------------------------------------------------
(***************************************************************************)
(* A data block has been received.                                         *)
(***************************************************************************)

BadChunk(c) == out_string(c, "severe")

DropEitem(r, C) == {[Give(d, r, 1) EXCEPT !.coll_eitem = FALSE] : d \in C}

\* The engine owns the element when it has inserted it.
ElemInsertComplete(c) ==
    DropEitem("elem", BadChunk(c) \cup Write(c))

process_lop_insert_complete(c) == ElemInsertComplete(c)
process_sop_insert_complete(c) == ElemInsertComplete(c)
process_mop_insert_complete(c) == ElemInsertComplete(c)

process_sop_delete_complete(c) == DropEitem("block", BadChunk(c) \cup Write(c))
process_sop_exist_complete(c)  == DropEitem("block", BadChunk(c) \cup Read(c))
process_mop_update_complete(c) == DropEitem("block", BadChunk(c) \cup Write(c))

\* With getrim the client asked for the element that the insertion trims.
process_bop_insert_complete(c) ==
    LET d == [Give(c, "elem", 1) EXCEPT !.coll_eitem = FALSE]
        trimmed == {e \in EngineWrite(d) : c.coll_getrim /\ e.ret = "SUCCESS"}
    IN BadChunk(d) \cup Write(d)
       \cup UNION {out_bop_trim_response(Take(e.c, "elem", 1)) : e \in trimmed}

process_bop_update_complete(c) ==
    IF c.coll_eitem THEN DropEitem("block", BadChunk(c) \cup Write(c)) ELSE Write(c)

FreeKeys(C) == {ReleaseKeys(d) : d \in C}

\* The strings are tokenized first if there are any; that may fail.
process_mop_delete_complete(c) ==
    FreeKeys(Write(c) \cup IF c.coll_strkeys THEN out_string(c, "severe") ELSE {})

process_mop_get_complete(c) ==
    FreeKeys(WithElems(EngineWrite(c), out_mop_get_response)
             \cup IF c.coll_strkeys THEN out_string(c, "severe") ELSE {})

\* The engine is asked for one key after the other; n of them have an
\* element, in an array of its own.  They go back when a later key fails, or
\* when memory does.
process_bop_mget_single(c, n) == Take(Take(c, "elem", n), "block", n)

FreeKeysAndResult(C) == FreeKeys(DropEitem("block", C))

process_bop_mget_complete(c) ==
    {[process_bop_mget_single(c, n) EXCEPT !.coll_ecount = n,
                                           !.state = "conn_mwrite"] : n \in 0 .. MaxElems}
    \cup FreeKeysAndResult(UNION {handle_unexpected_errorcode_ascii(c, e) : e \in EngineErrors})

\* A reply that cannot be made is a success to the caller: the keys and the
\* array are freed with the next request, when coll_ecount is still 0.
SmgetResponse(c, n) ==
    {[Take(c, "elem", n) EXCEPT !.coll_ecount = n, !.state = "conn_mwrite"]}
    \cup out_string(c, "severe")

out_bop_smget_response(c, n)     == SmgetResponse(c, n)
out_bop_smget_old_response(c, n) == SmgetResponse(c, n)

SmgetComplete(c, Response(_, _)) ==
    (UNION {Response(c, n) : n \in 0 .. MaxElems})
    \cup FreeKeysAndResult(out_string(c, "ok") \cup
             UNION {handle_unexpected_errorcode_ascii(c, e) : e \in EngineErrors})

process_bop_smget_complete_old(c) == SmgetComplete(c, out_bop_smget_old_response)
process_bop_smget_complete(c)     ==
    IF c.coll_smgmode = 0 THEN process_bop_smget_complete_old(c)
                          ELSE SmgetComplete(c, out_bop_smget_response)

-----------------------------------------------------------------------------
(***************************************************************************)
(* Values: get, mget and the updates.                                      *)
(***************************************************************************)

get_suffix_buffer(c, n) == [Take(c, "suffix", n) EXCEPT !.suffixleft = @ + n]

Suffixes(cas) == IF cas THEN 2 ELSE 1

\* n keys that hit.
process_get_single(c, cas, n) ==
    [get_suffix_buffer(Take(c, "item", n), n * Suffixes(cas)) EXCEPT !.ileft = @ + n]

\* A key that fails leaves the suffix buffers it has got so far.
GetFailure(c, cas) ==
    UNION {out_string(get_suffix_buffer(c, n), "severe") : n \in 0 .. Suffixes(cas)}

\* A reply with an error is sent by conn_write(): what the keys before the
\* error have put on the lists stays there.
process_get_command(c, cas) ==
    UNION {LET d == process_get_single(c, cas, n)
           IN {conn_set_state(d, "conn_mwrite")} \cup GetFailure(d, cas)
           : n \in 0 .. MaxElems}

process_mget_complete(c, cas) ==
    (UNION {LET d == process_get_single(c, cas, n)
            IN {conn_set_state(d, "conn_mwrite")} \cup FreeKeys(GetFailure(d, cas))
            : n \in 0 .. MaxElems})
    \cup FreeKeys(BadChunk(c))

\* Too many keys: the block with the keys is swallowed.
process_mget_command(c, r, cas) ==
    IF ~r.valid THEN out_string(c, "severe")
    ELSE Refused(c, VLen, {"ENOMEM"})
         \cup process_prepare_nread_keys(c, IF cas THEN "MGETS" ELSE "MGET")

\* When there is no item for a set, the old value is removed, and nobody
\* waits for that.
process_update_command(c, r) ==
    LET d == set_noreply_maybe(c, r)
    IN IF ~r.valid THEN out_string(d, "severe")
       ELSE {Nread([Take(d, "item", 1) EXCEPT !.item = TRUE])}
            \cup {[e EXCEPT !.noreply = IF r.cmd = "set" THEN FALSE ELSE @] :
                      e \in Refused(d, VLen, EngineErrors)}

complete_update(c) ==
    {ReleaseItem(d) : d \in out_string(c, "severe") \cup Write(c)}

\* coll_op tells what the block is for.
complete_update_ascii(c) ==
    LET op == c.coll_op
    IN IF ~c.coll_eitem /\ ~c.coll_strkeys THEN complete_update(c)
       ELSE CASE op = "LOP_INSERT" -> process_lop_insert_complete(c)
              [] op = "SOP_INSERT" -> process_sop_insert_complete(c)
              [] op = "SOP_DELETE" -> process_sop_delete_complete(c)
              [] op = "SOP_EXIST"  -> process_sop_exist_complete(c)
              [] op \in {"MOP_INSERT", "MOP_UPSERT"} -> process_mop_insert_complete(c)
              [] op = "MOP_UPDATE" -> process_mop_update_complete(c)
              [] op = "MOP_DELETE" -> process_mop_delete_complete(c)
              [] op = "MOP_GET"    -> process_mop_get_complete(c)
              [] op \in BopInserts -> process_bop_insert_complete(c)
              [] op = "BOP_UPDATE" -> process_bop_update_complete(c)
              [] op = "BOP_MGET"   -> process_bop_mget_complete(c)
              [] op = "BOP_SMGET"  -> process_bop_smget_complete(c)
              [] op = "MGET"       -> process_mget_complete(c, FALSE)
              [] op = "MGETS"      -> process_mget_complete(c, TRUE)
              [] OTHER             -> {c}

process_arithmetic_command(c, r) == Plain(set_noreply_maybe(c, r), r, Write)
process_delete_command(c, r)     == Plain(set_noreply_maybe(c, r), r, Write)
process_flush_command(c, r)      == Plain(set_noreply_maybe(c, r), r, Write)

-----------------------------------------------------------------------------
(***************************************************************************)
(* Lists, sets, maps.                                                      *)
(***************************************************************************)

process_lop_create(c) == Write(c)
process_lop_delete(c) == Write(c)
process_lop_get(c)    == WithElems(EngineWrite(c), out_lop_get_response)

process_lop_insert_cmd(c, r) ==
    Piped(set_pipe_noreply_maybe(c, r), r, VLen, process_lop_prepare_nread)
process_lop_create_cmd(c, r) == Plain(set_noreply_maybe(c, r), r, process_lop_create)
process_lop_delete_cmd(c, r) ==
    Piped(set_pipe_noreply_maybe(c, r), r, 0, process_lop_delete)
process_lop_get_cmd(c, r)    == Plain(c, r, process_lop_get)

process_sop_create(c) == Write(c)
process_sop_get(c)    == WithElems(EngineWrite(c), out_sop_get_response)

process_sop_insert_cmd(c, r) ==
    Piped(set_pipe_noreply_maybe(c, r), r, VLen,
          LAMBDA d : process_sop_prepare_nread(d, "SOP_INSERT"))
process_sop_create_cmd(c, r) == Plain(set_noreply_maybe(c, r), r, process_sop_create)
process_sop_delete_cmd(c, r) ==
    Piped(set_pipe_noreply_maybe(c, r), r, VLen,
          LAMBDA d : process_sop_prepare_nread(d, "SOP_DELETE"))
process_sop_exist_cmd(c, r)  ==
    Piped(set_pipe_maybe(c, r), r, VLen,
          LAMBDA d : process_sop_prepare_nread(d, "SOP_EXIST"))
process_sop_get_cmd(c, r)    == Plain(c, r, process_sop_get)

process_mop_create(c) == Write(c)

process_mop_insert_cmd(c, r) ==
    Piped(set_pipe_noreply_maybe(c, r), r, VLen,
          LAMBDA d : process_mop_prepare_nread(d, "MOP_INSERT"))
process_mop_create_cmd(c, r) == Plain(set_noreply_maybe(c, r), r, process_mop_create)
process_mop_update_cmd(c, r) ==
    Piped(set_pipe_noreply_maybe(c, r), r, VLen,
          LAMBDA d : process_mop_prepare_nread(d, "MOP_UPDATE"))

\* A line that names fields has a block with the fields.  A pipeline in error
\* swallows lenfields, which does not count the "\r\n" yet.
process_mop_delete_cmd(c, r) ==
    LET d == set_pipe_noreply_maybe(c, r)
    IN IF r.cmd = "mop_delete_all"
         THEN Piped(d, r, 0, LAMBDA e : process_mop_delete_complete(
                                            [e EXCEPT !.coll_op = "MOP_DELETE"]))
         ELSE Piped(d, r, VLen - 1,
                    LAMBDA e : process_mop_prepare_nread_fields(e, "MOP_DELETE"))

process_mop_get_cmd(c, r) ==
    IF r.cmd = "mop_get_all"
      THEN Plain(c, r, LAMBDA e : process_mop_get_complete([e EXCEPT !.coll_op = "MOP_GET"]))
      ELSE Plain(c, r, LAMBDA e : process_mop_prepare_nread_fields(e, "MOP_GET"))

-----------------------------------------------------------------------------
(***************************************************************************)
(* B+trees.                                                                *)
(***************************************************************************)

process_bop_create(c)     == Write(c)
process_bop_delete(c)     == Write(c)
process_bop_arithmetic(c) == Write(c)
process_bop_get(c)        == WithElems(EngineWrite(c), out_bop_get_response)
process_bop_count(c)      == Read(c)
process_bop_position(c)   == Read(c)
process_bop_pwg(c)        == WithElems(EngineRead(c), out_bop_pwg_response)
process_bop_gbp(c)        == WithElems(EngineRead(c), out_bop_gbp_response)

\* getrim stands where noreply and pipe would.
process_bop_insert_cmd(c, r) ==
    LET d == [set_pipe_noreply_maybe(c, r) EXCEPT !.coll_getrim = (r.opt = "getrim")]
    IN Piped(d, r, VLen, LAMBDA e : process_bop_prepare_nread(e, "BOP_INSERT"))

process_bop_create_cmd(c, r) == Plain(set_noreply_maybe(c, r), r, process_bop_create)

\* A value of length -1 is no value: the flags are updated, or nothing is.
process_bop_update_cmd(c, r) ==
    LET d == set_pipe_noreply_maybe(c, r)
        FlagsOnly(e) == out_string(e, "ok") \cup
                        process_bop_update_complete([e EXCEPT !.coll_op = "BOP_UPDATE"])
    IN IF r.cmd = "bop_update_eflag" THEN Piped(d, r, 0, FlagsOnly)
       ELSE Piped(d, r, VLen, process_bop_update_prepare_nread)

process_bop_delete_cmd(c, r) ==
    Piped(set_pipe_noreply_maybe(c, r), r, 0, process_bop_delete)
process_bop_arithmetic_cmd(c, r) ==
    Piped(set_pipe_noreply_maybe(c, r), r, 0, process_bop_arithmetic)
process_bop_get_cmd(c, r)      == Plain(c, r, process_bop_get)
process_bop_count_cmd(c, r)    == Plain(c, r, process_bop_count)
process_bop_position_cmd(c, r) == Plain(c, r, process_bop_position)
process_bop_pwg_cmd(c, r)      == Plain(c, r, process_bop_pwg)
process_bop_gbp_cmd(c, r)      == Plain(c, r, process_bop_gbp)

\* Counts over a limit: the block with the keys is swallowed after the reply.
TooMany(c) == {SwallowAfter(d, VLen) : d \in out_string(c, "severe")}

set_smget_mode_maybe(c, r) ==
    IF r.cmd = "bop_mget" THEN c
    ELSE [c EXCEPT !.coll_smgmode = IF r.opt = "unique" THEN 2 ELSE 0]

process_bop_mget_cmd(c, r) ==
    LET op == IF r.cmd = "bop_mget" THEN "BOP_MGET" ELSE "BOP_SMGET"
    IN IF ~r.valid THEN out_string(c, "severe")
       ELSE TooMany(c) \cup process_bop_prepare_nread_keys(set_smget_mode_maybe(c, r), op)

-----------------------------------------------------------------------------
(***************************************************************************)
(* Attributes, statistics, scans and the administration of the server.     *)
(***************************************************************************)

process_getattr_command(c, r) == Plain(c, r, Read)
process_setattr_command(c, r) == Plain(c, r, Write)

\* A reply in a buffer of its own, which is freed when it is sent.
write_and_free(c) ==
    [Reply(Take(c, "wfree", 1)) EXCEPT !.write_and_free = TRUE]

process_stats_detail(c)    == {write_and_free(c)} \cup Answer(c)
process_stats_cachedump(c) == {write_and_free(c)} \cup out_string(c, "severe")

process_stats_command(c, r) ==
    CASE r.opt = "detail"    -> process_stats_detail(c)
      [] r.opt = "cachedump" -> process_stats_cachedump(c)
      [] OTHER               -> {write_and_free(c)} \cup Answer(c)

\* The references are put on the item list by the engine; a list that is
\* still in use is overwritten.
process_keyscan_command(c) ==
    {[Take(Take(c, "item", n), "wfree", 1)
         EXCEPT !.ileft = n, !.write_and_free = TRUE, !.state = "conn_mwrite"]
         : n \in 0 .. MaxElems}
    \cup out_string([c EXCEPT !.ileft = 0], "severe")
    \cup Answer(c)

process_prefixscan_command(c) ==
    {[Take(Take(c, "prefix", n), "wfree", 1)
         EXCEPT !.pleft = n, !.write_and_free = TRUE, !.state = "conn_mwrite"]
         : n \in 0 .. MaxElems}
    \cup Answer(c)

process_scan_command(c, r) ==
    IF ~r.valid THEN out_string(c, "severe")
    ELSE IF r.cmd = "scan_key" THEN process_keyscan_command(c)
                               ELSE process_prefixscan_command(c)

process_config_command(c)     == Answer(c)
process_zkensemble_command(c) == Answer(c)
process_dump_command(c)       == Answer(c)
process_help_command(c)       == out_string(c, "ok")
process_shutdown_command(c)   == Answer(c)
process_cmdlog_command(c)     == {write_and_free(c)} \cup out_string(c, "ok")
process_lqdetect_command(c)   == {write_and_free(c)} \cup Answer(c)

\* An extension takes a command it accepts, with or without a data block.
RunExtension(c) ==
    {conn_set_state(c, "conn_closing"), conn_set_state(c, "conn_new_cmd"), write_and_free(c)}

process_extension_command(c, r) ==
    CASE ~r.valid                 -> out_string(c, "severe")
      [] r.cmd = "extension_data" -> {Nread([c EXCEPT !.ascii_cmd = TRUE])}
      [] OTHER                    -> RunExtension(c)

complete_nread_ascii(c) ==
    IF c.ascii_cmd THEN RunExtension(c) ELSE complete_update_ascii(c)

-----------------------------------------------------------------------------
(***************************************************************************)
(* From the input buffer to the handler of a line.                         *)
(***************************************************************************)

\* The lines that a data block follows.
BlockCommands ==
    {"mget", "mgets", "set", "add", "lop_insert", "sop_insert", "sop_delete",
     "sop_exist", "mop_insert", "mop_update", "mop_delete", "mop_get",
     "bop_insert", "bop_update", "bop_mget", "bop_smget", "extension_data"}

process_command_ascii(c, r) ==
    LET cmd == r.cmd
    IN CASE cmd = "get"            -> process_get_command(c, FALSE)
         [] cmd = "gets"           -> process_get_command(c, TRUE)
         [] cmd = "mget"           -> process_mget_command(c, r, FALSE)
         [] cmd = "mgets"          -> process_mget_command(c, r, TRUE)
         [] cmd \in {"set", "add"} -> process_update_command(c, r)
         [] cmd = "incr"           -> process_arithmetic_command(c, r)
         [] cmd = "delete"         -> process_delete_command(c, r)
         [] cmd = "flush_all"      -> process_flush_command(c, r)
         [] cmd = "lop_insert"     -> process_lop_insert_cmd(c, r)
         [] cmd = "lop_create"     -> process_lop_create_cmd(c, r)
         [] cmd = "lop_delete"     -> process_lop_delete_cmd(c, r)
         [] cmd = "lop_get"        -> process_lop_get_cmd(c, r)
         [] cmd = "sop_insert"     -> process_sop_insert_cmd(c, r)
         [] cmd = "sop_create"     -> process_sop_create_cmd(c, r)
         [] cmd = "sop_delete"     -> process_sop_delete_cmd(c, r)
         [] cmd = "sop_exist"      -> process_sop_exist_cmd(c, r)
         [] cmd = "sop_get"        -> process_sop_get_cmd(c, r)
         [] cmd = "mop_insert"     -> process_mop_insert_cmd(c, r)
         [] cmd = "mop_create"     -> process_mop_create_cmd(c, r)
         [] cmd = "mop_update"     -> process_mop_update_cmd(c, r)
         [] cmd \in {"mop_delete", "mop_delete_all"} -> process_mop_delete_cmd(c, r)
         [] cmd \in {"mop_get", "mop_get_all"}       -> process_mop_get_cmd(c, r)
         [] cmd = "bop_insert"     -> process_bop_insert_cmd(c, r)
         [] cmd = "bop_create"     -> process_bop_create_cmd(c, r)
         [] cmd \in {"bop_update", "bop_update_eflag"} -> process_bop_update_cmd(c, r)
         [] cmd = "bop_delete"     -> process_bop_delete_cmd(c, r)
         [] cmd = "bop_incr"       -> process_bop_arithmetic_cmd(c, r)
         [] cmd = "bop_get"        -> process_bop_get_cmd(c, r)
         [] cmd = "bop_count"      -> process_bop_count_cmd(c, r)
         [] cmd = "bop_position"   -> process_bop_position_cmd(c, r)
         [] cmd = "bop_pwg"        -> process_bop_pwg_cmd(c, r)
         [] cmd = "bop_gbp"        -> process_bop_gbp_cmd(c, r)
         [] cmd \in {"bop_mget", "bop_smget"} -> process_bop_mget_cmd(c, r)
         [] cmd = "getattr"        -> process_getattr_command(c, r)
         [] cmd = "setattr"        -> process_setattr_command(c, r)
         [] cmd = "stats"          -> process_stats_command(c, r)
         [] cmd = "config"         -> process_config_command(c)
         [] cmd = "zkensemble"     -> process_zkensemble_command(c)
         [] cmd = "dump"           -> process_dump_command(c)
         [] cmd = "help"           -> process_help_command(c)
         [] cmd \in {"scan_key", "scan_prefix"} -> process_scan_command(c, r)
         [] cmd = "cmdlog"         -> process_cmdlog_command(c)
         [] cmd = "lqdetect"       -> process_lqdetect_command(c)
         [] cmd \in {"version", "ready"} -> out_string(c, "ok")
         [] cmd = "shutdown"       -> process_shutdown_command(c)
         [] cmd = "quit"           -> {conn_set_state(c, "conn_closing")}
         [] cmd \in {"extension", "extension_data"} -> process_extension_command(c, r)
         [] OTHER                  -> out_string(c, "severe")

\* What a handler took for the end of the request may not be the end of it:
\* then the rest of the block is read as a line, which names no command.
NoCommand == [cmd |-> "unknown", opt |-> "none", valid |-> FALSE]

LineOf(c, r) == IF c.left > 0 THEN NoCommand ELSE r

\* Two requests are not consumed to their end: a "mop delete" with fields in a
\* pipeline that has failed leaves the line end of its block, and a binary
\* bop update without a value leaves the body that its header must announce.
KnownShort(c, r) ==
    IF \/ r.cmd = "mop_delete" /\ c.pipe_state \in PipeErrors
       \/ r.cmd = "bop_update_novalue"
    THEN 1 ELSE 0

\* What history keeps of a request.  The error that stopped a pipeline is the
\* reply to all that follows in the pipeline; an extension replies if it likes.
Heard(c, r) ==
    [c EXCEPT !.legal = r.valid, !.more = (r.opt = "pipe"), !.replied = 0,
              !.short = KnownShort(c, r),
              !.wants = r.opt \notin {"noreply", "pipe", "quiet"}
                        /\ c.pipe_state \notin PipeErrors
                        /\ r.cmd \notin {"extension", "extension_data"}]

\* Less than a line in the buffer, too much of it without a newline, or a
\* line.
try_read_command_ascii(c, r) ==
    LET line  == LineOf(c, r)
        block == IF line.cmd \in BlockCommands THEN VLen ELSE 0
        d     == [Heard(c, line) EXCEPT !.left = block]
    IN {[ret |-> 0, c |-> c], [ret |-> 1, c |-> conn_set_state(c, "conn_closing")]}
       \cup {[ret |-> 1, c |-> [e EXCEPT !.rbytes = @ - 1]] : e \in process_command_ascii(d, line)}

=============================================================================
