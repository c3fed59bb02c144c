---------------------------- MODULE MCOrchestrator ----------------------------
(***************************************************************************)
(* Two clients on a case whose provider steps still to come are the        *)
(* reproducibility review and the Chair's explanation, with the code-owned *)
(* verdict between them.                                                   *)
(***************************************************************************)
EXTENDS Orchestrator, TLC

CONSTANTS p1, p2

FollowUpCase == { [k \in 1..OPTIONAL_FOLLOW_UP |-> p1] }

Symmetry == Permutations(Clients)
===============================================================================
