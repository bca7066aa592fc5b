---------------------------- MODULE MCCommandLog ----------------------------
(***************************************************************************)
(* The command log, in two parts: how records get through the buffer into  *)
(* the log files (CmdLogBuf), and how a restart replays a log file         *)
(* (CmdLogReplay).  A behaviour is in one of the two; the other keeps its  *)
(* initial state, in which nothing is enabled that fairness would ask for. *)
(***************************************************************************)
EXTENDS CmdLogReplay

CONSTANTS
  Size, AutoSize, RecMinSize, RecSizes, RangeSize, ChkptMayFail, MaxBytes,
  MaxChkpt     \* of CmdLogBuf

VARIABLES
  part, head, tail, last, data, fque, fbgn, fend, dw_end, dw_size,
  nxt_write_lsn, nxt_flush_lsn, logfile, writer, flush, chkpt, stop, lsnOf

Buf == INSTANCE CmdLogBuf WITH file <- logfile

ASSUME BufAssumption == Buf!BufConstants

bvars == <<head, tail, last, data, fque, fbgn, fend, dw_end, dw_size,
           nxt_write_lsn, nxt_flush_lsn, logfile, writer, flush, chkpt, stop,
           lsnOf>>

MCInit == Init /\ Buf!Init /\ part \in {"buffer", "replay"}

MCNext ==
  \/ part = "buffer" /\ Buf!Next /\ UNCHANGED <<part, vars>>
  \/ part = "replay" /\ Next /\ UNCHANGED <<part, bvars>>

MCSpec == MCInit /\ [][MCNext]_<<vars, bvars, part>> /\ Buf!Fairness

\* See CmdLogBuf: the assertions of do_log_buff_write() and
\* do_log_buff_flush(), and that the request queue has room.
RingAsserts == Buf!RingAsserts

\* See CmdLogBuf: the LSN of a record is the place of its bytes in the log
\* files (do_log_buff_write(), do_log_buff_flush()).
LsnIsFileOffset == Buf!LsnIsFileOffset

\* See CmdLogBuf: the buffer, its request queue and the file switch are a
\* FIFO (LogStream).
StreamSpec == Buf!StreamSpec

\* See CmdLogBuf: a writer short of buffer space gets it
\* (do_log_buff_write()).
WriterGetsRoom == Buf!WriterGetsRoom

\* See CmdLogBuf: the flush thread comes to the end of the dual write of a
\* completed checkpoint (do_log_buff_flush()).
SwitchHappens == Buf!SwitchHappens
=============================================================================
