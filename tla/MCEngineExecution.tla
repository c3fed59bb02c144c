-------------------------- MODULE MCEngineExecution --------------------------
(***************************************************************************)
(* Two executions for one case whose constitution is locked, one crash,    *)
(* and three alterations while there is one execution, one when there are  *)
(* two.                                                                    *)
(***************************************************************************)
EXTENDS EngineExecution

CONSTANTS p1

Alterations == [n \in 0..3 |-> IF n < 2 THEN 3 ELSE 1]

LockedCase == { [k \in 1..CONSTITUTION_LOCKED |-> p1] }
=============================================================================
