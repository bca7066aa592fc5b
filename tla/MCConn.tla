------------------------------- MODULE MCConn -------------------------------
(***************************************************************************)
(* Connections for model checking.  A client keeps to a family of          *)
(* requests; part says which, so that the run explores the families one    *)
(* after the other.  The client of the part "mixed" has requests of all    *)
(* kinds, and follows clients that may have spoken the other protocol.     *)
(***************************************************************************)
EXTENDS ConnServer

Reqs(cmds, opts) == [cmd : cmds, opt : opts, valid : {TRUE}]
Bad(cmds, opts)  == [cmd : cmds, opt : opts, valid : {FALSE}]

PipeOpts == {"none", "noreply", "pipe"}

ValueAscii ==
    Reqs({"get", "gets", "mget", "set", "scan_key", "scan_prefix", "stats", "config", "quit",
          "getattr", "extension", "extension_data"}, {"none"})
    \cup Reqs({"set", "add", "incr"}, {"noreply"})
    \cup Bad({"mget", "set", "scan_key", "extension"}, {"none"})

ListAscii ==
    Reqs({"lop_insert", "lop_delete", "sop_delete", "sop_exist"}, PipeOpts)
    \cup Reqs({"lop_create", "lop_get", "sop_get"}, {"none"})
    \cup Bad({"lop_insert", "lop_delete"}, PipeOpts)

MapAscii ==
    Reqs({"mop_insert", "mop_update", "mop_delete", "mop_delete_all"}, PipeOpts)
    \cup Reqs({"mop_get", "mop_get_all"}, {"none"})
    \cup Bad({"mop_delete"}, PipeOpts)

TreeAscii ==
    Reqs({"bop_insert", "bop_update", "bop_update_eflag", "bop_incr"}, PipeOpts)
    \cup Reqs({"bop_insert"}, {"getrim"})
    \cup Reqs({"bop_get", "bop_count", "bop_mget"}, {"none"})
    \cup Reqs({"bop_smget"}, {"none", "unique"})
    \cup Bad({"bop_smget"}, {"none"})

ValueBinary ==
    Reqs({"set", "append", "get", "incr", "quit"}, {"none", "quiet"})
    \cup Reqs({"noop", "stat", "getattr", "flush_prefix", "unknown"}, {"none"})
    \cup Bad({"set"}, {"none"})

CollBinary ==
    Reqs({"lop_insert", "sop_insert", "sop_delete", "bop_update",
          "bop_update_novalue"}, {"none", "quiet"})
    \cup Reqs({"lop_create", "lop_get", "sop_exist", "bop_upsert", "bop_count",
               "bop_mget", "bop_smget"}, {"none"})

MixedAscii  ==
    Reqs({"get", "set", "lop_insert", "bop_smget"}, {"none"}) \cup Reqs({"lop_insert"}, {"pipe"})
MixedBinary == Reqs({"get", "set", "lop_insert", "bop_smget"}, {"none", "quiet"})

Values   == INSTANCE ConnServer WITH AsciiRequests <- ValueAscii, BinaryRequests <- {}
Lists    == INSTANCE ConnServer WITH AsciiRequests <- ListAscii, BinaryRequests <- {}
Maps     == INSTANCE ConnServer WITH AsciiRequests <- MapAscii, BinaryRequests <- {}
Trees    == INSTANCE ConnServer WITH AsciiRequests <- TreeAscii, BinaryRequests <- {}
BinItems == INSTANCE ConnServer WITH AsciiRequests <- {}, BinaryRequests <- ValueBinary
BinColls == INSTANCE ConnServer WITH AsciiRequests <- {}, BinaryRequests <- CollBinary

VARIABLE part

MCInit ==
    /\ Init
    /\ part \in {"mixed", "values", "lists", "maps", "trees", "binary items", "binary colls"}

MCWorker ==
    /\ \/ part = "mixed" /\ Worker
       \/ part = "values" /\ Values!Worker
       \/ part = "lists" /\ Lists!Worker
       \/ part = "maps" /\ Maps!Worker
       \/ part = "trees" /\ Trees!Worker
       \/ part = "binary items" /\ BinItems!Worker
       \/ part = "binary colls" /\ BinColls!Worker
    /\ UNCHANGED part

MCNext ==
    \/ MCWorker
    \/ /\ NewConnection \/ ReadEvent \/ WriteEvent \/ notify_io_complete \/ ResumeIo
       /\ UNCHANGED part

MCvars == <<vars, part>>

MCSpec == MCInit /\ [][MCNext]_MCvars

=============================================================================
