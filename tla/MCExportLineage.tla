--------------------------- MODULE MCExportLineage ---------------------------
(***************************************************************************)
(* Two exporters of a case that is about to be given evidence, or of one   *)
(* that has two more events to come.  Either may be given a claim graph.   *)
(***************************************************************************)
EXTENDS ExportLineage, TLC

CONSTANT p1

VerifiedCase == { [k \in 1..REPRODUCIBILITY_VERIFIED |-> p1] }

LockedCase == { [k \in 1..CONSTITUTION_LOCKED |-> p1] }

Cases == VerifiedCase \cup LockedCase

\* Bound: the case that starts early is left when it has its evidence.
EarlyOrLate == Len(events) \notin EXPERIMENT_EXECUTED + 1 .. REPRODUCIBILITY_VERIFIED - 1

Symmetry == Permutations(Exporters)
=============================================================================
