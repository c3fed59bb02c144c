---------------------------- MODULE MCClaimGraph ----------------------------
(***************************************************************************)
(* Graphs of a final claim, two nodes that are claims or amendments, and a *)
(* node that is evidence, with the identity that the ledger knows or       *)
(* another one.  Three edges make a cycle, or a claim that is derived from *)
(* one that is derived from one that evidence contradicts.                 *)
(***************************************************************************)
EXTENDS ClaimGraph

Item(status) == [sha256 |-> "h1", status |-> status, relationship |-> "contradicts"]

OneItem == { [id \in {4} |-> Item(status)] : status \in Statuses }

Claims == { node \in Nodes : node.type = "claim" }

Amendments == { node \in Nodes : node.type = "amendment" }

Evidence == { node \in Nodes : node.type = "evidence" }

Candidates ==
    [ id \in NodeIds |->
        CASE id = 1 -> { claim \in Claims : claim.final }
          [] id = 2 -> Claims \cup Amendments
          [] id = 3 -> { claim \in Claims : ~claim.final } \cup Amendments
          [] id = 4 -> { e \in Evidence : "h1" = e.identity.sha256 \/ "validated" = e.identity.status } ]
=============================================================================
