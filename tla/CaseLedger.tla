------------------------------ MODULE CaseLedger ------------------------------
(***************************************************************************)
(* What the durable store promises of one case, without its tables, its    *)
(* revisions and its clients (docs/STORAGE_MODEL.md, "Write and recovery   *)
(* semantics"): an append-only log with an end, and votes.  A vote says    *)
(* that a provider's output became the event after a revision; it is cast  *)
(* in the very step that appends that event, or never.                     *)
(***************************************************************************)
EXTENDS WorkflowRules, Sequences

CONSTANT Values            \* what an event may carry

VARIABLES log, votes

Init ==
    /\ log \in Seq(Values)
    /\ Len(log) < CHAIR_EXPLANATION
    /\ votes = {}

Vote(output) == [revision |-> Len(log), output |-> output]

Record(value) ==
    /\ Len(log) < CHAIR_EXPLANATION
    /\ log' = Append(log, value)
    /\ votes' \in {votes, votes \cup {Vote(value)}}

Next == \E value \in Values : Record(value)

Spec == Init /\ [][Next]_<<log, votes>>
=============================================================================
