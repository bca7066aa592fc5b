--------------------------- MODULE MCGroupCommit ---------------------------
(***************************************************************************)
(* GroupCommit, in two parts: two clients of a server that is not stopped  *)
(* and whose checkpoints succeed, and one client of a server that may be   *)
(* stopped and whose checkpoints may fail.  A behaviour is in one of them. *)
(***************************************************************************)
EXTENDS GroupCommitInv

CONSTANT c1   \* the client of the server that is stopped

VARIABLE part

mcvars == <<vars, part>>

InPart ==
    \/ part = "running"  /\ stop = "run" /\ chkpt.pc # "fail"
    \/ part = "stopping" /\ \A c \in Clients \ {c1} : client[c].pc = "idle"

MCInit == Init /\ part \in {"running", "stopping"}

MCNext == Next /\ UNCHANGED part /\ InPart'

MCSpec == MCInit /\ [][MCNext]_mcvars /\ Fairness

=============================================================================
