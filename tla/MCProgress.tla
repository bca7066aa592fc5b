----------------------------- MODULE MCProgress -----------------------------
(***************************************************************************)
(* The threads of the server and their duties, each under the fairness its *)
(* scheduling gives: the worker threads (Threads), and the checkpoint and  *)
(* flush threads with the files they leave behind (Checkpoint).  A         *)
(* behaviour is in one of the parts; the other keeps its initial state, in *)
(* which nothing is enabled that fairness would ask for.                   *)
(***************************************************************************)
EXTENDS Threads

CONSTANTS
  Keys, Lists, Exps, Commands, MaxTime, MaxUpdates, MaxBuf, MaxCrashes,
  IntMod, FirstTime, UnlinkFails     \* of Checkpoint

VARIABLES part, mem, update, expires, expired, buf, snap, log, fd, cs, scan, up, crashes

C == INSTANCE Checkpoint

cvars == <<mem, update, expires, expired, buf, snap, log, fd, cs, scan, up, crashes>>

MCInit == Init /\ C!Init /\ part \in {"threads", "files"}

MCNext ==
    \/ part = "threads" /\ Next /\ UNCHANGED <<part, cvars>>
    \/ part = "files" /\ C!Next /\ UNCHANGED <<part, vars>>

MCSpec == MCInit /\ [][MCNext]_<<vars, cvars, part>> /\ Fairness /\ C!Fairness

\* See Checkpoint: no checkpoint file is forgotten (chkpt_thread_main(),
\* do_chkpt_remove_files()).
FilesRemembered == C!FilesRemembered

\* See Checkpoint: a checkpoint ends, in success or failure, or the server
\* goes down (do_checkpoint()).
CheckpointEnds == C!CheckpointEnds
=============================================================================
