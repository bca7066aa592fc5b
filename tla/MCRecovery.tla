----------------------------- MODULE MCRecovery -----------------------------
(***************************************************************************)
(* Checkpoints and recovery, with at most one item that expires, and the   *)
(* lists as the only items in the bucket where a scan begins.              *)
(***************************************************************************)
EXTENDS Checkpoint

MCNext == Next /\ Cardinality(expired') <= 1 /\ scan'.unset \subseteq Lists

MCSpec == Init /\ [][MCNext]_vars
=============================================================================
