--------------------------- MODULE MCReconstruction ---------------------------
(***************************************************************************)
(* A reader of a case whose reviews are done: what follows are appends,    *)
(* provider votes, graphs and the case's finalization.                     *)
(***************************************************************************)
EXTENDS Reconstruction

CONSTANTS p1, p2

NearlyFinalCase == { [k \in 1..ADVERSARIAL_REVIEWED |-> p1] }
===============================================================================
