------------------------------ MODULE ClaimGraph ------------------------------
(***************************************************************************)
(* The claim graph of a case (evidence/graph.py): a caller builds it node  *)
(* by node and edge by edge; saving it validates it as a snapshot, against *)
(* the evidence ledger and for the traceability of final claims            *)
(* (SQLiteCaseStore.save_claim_graph); loading it (_load_graph) builds it  *)
(* again, edge by edge in the order of the snapshot, with the same checks. *)
(*                                                                         *)
(* Abstractions.  Identifiers are ordered by their number.  An evidence    *)
(* object is the hash of its content, its status and its relationship.     *)
(* Which edge a caller stores under which identifier is its choice, so the *)
(* order of the snapshot has nothing to do with the order of insertion.    *)
(***************************************************************************)
EXTENDS Integers, FiniteSets

CONSTANTS
    NodeIds,
    EdgeIds,      \* numbers
    Hashes,       \* contents of evidence
    Offers,       \* the nodes that a caller may add, by their identifier
    Ledgers       \* the evidence ledgers a case may have, by evidence identifier

Statuses == {"pending", "validated"}

Relationships == {"supports", "contradicts", "qualifies"}

ASSUME LedgersAreLedgers ==
    /\ EdgeIds \subseteq Int
    /\ \A ledger \in Ledgers :
        /\ DOMAIN ledger \subseteq NodeIds
        /\ \A id \in DOMAIN ledger :
             ledger[id] \in [sha256 : Hashes, status : Statuses, relationship : Relationships]

VARIABLES
    ledger,    \* the evidence ledger of the case
    nodes,     \* ClaimGraph._nodes, of the caller and then of the reader
    edges,     \* ClaimGraph._edges
    stored,    \* the snapshot in the store
    phase      \* what happens to the graph

graphVars == <<ledger, nodes, edges, stored, phase>>

(***************************************************************************)
(* Nodes and edges.                                                        *)
(***************************************************************************)
NoEvidence == [sha256 |-> "none", status |-> "none"]

\* GraphNode, with its validator: evidence has an identity and nothing else
\* has, and only claims may be final.
Nodes ==
    { node \in [ type : {"claim", "evidence", "amendment"}, final : BOOLEAN,
                 identity : [sha256 : Hashes, status : Statuses] \cup {NoEvidence} ] :
        /\ node.type = "evidence" <=> node.identity # NoEvidence
        /\ node.final => node.type = "claim" }

ASSUME OffersAreNodes == Offers \in [NodeIds -> SUBSET Nodes]

EdgeTypes == Relationships \cup {"derived_from", "amends"}

Edges == [source : NodeIds, target : NodeIds, type : EdgeTypes]

EdgeSet == { edges[id] : id \in DOMAIN edges }

\* _validate_edge_types for one edge.
EdgeTypeValid(edge) ==
    LET source == nodes[edge.source].type
        target == nodes[edge.target].type
    IN  /\ edge.source # edge.target
        /\ \/ edge.type \in Relationships /\ source = "evidence" /\ target = "claim"
           \/ edge.type = "derived_from" /\ source = "claim" /\ target = "claim"
           \/ edge.type = "amends" /\ source = "amendment" /\ target \in {"amendment", "claim"}

\* The nodes that are never ready when ready nodes are taken out one by one.
Unvisited(among) ==
    LET Ready(remaining) ==
          { n \in remaining :
              \A edge \in among : edge.target = n => edge.source \notin remaining }
        after[remaining \in SUBSET DOMAIN nodes] ==
          IF Ready(remaining) = {} THEN remaining
          ELSE after[remaining \ {CHOOSE n \in Ready(remaining) : TRUE}]
    IN  after[DOMAIN nodes]

\* _assert_acyclic.
Acyclic(among) == Unvisited(among) = {}

\* Mutant: only the edges that are there already are checked for cycles.
EdgeAddable_CyclesTooLate(id, edge) ==
    /\ id \notin DOMAIN edges
    /\ {edge.source, edge.target} \subseteq DOMAIN nodes
    /\ edge \notin EdgeSet
    /\ EdgeTypeValid(edge)
    /\ Acyclic(EdgeSet)

\* add_edge up to its write.
EdgeAddable(id, edge) ==
    /\ id \notin DOMAIN edges
    /\ {edge.source, edge.target} \subseteq DOMAIN nodes
    /\ edge \notin EdgeSet
    /\ EdgeTypeValid(edge)
    /\ Acyclic(EdgeSet \cup {edge})

(***************************************************************************)
(* Validation.                                                             *)
(***************************************************************************)
\* Mutant: a claim is traced to what is derived from it.
Origins_Descendants(id) ==
    { edge.source : edge \in { e \in EdgeSet : e.target = id /\ e.type # "amends" } }

\* The `reverse` map of validate_final_claim_traceability.
Origins(id) ==
    { edge.source : edge \in { e \in EdgeSet : e.target = id /\ e.type \in Relationships } }
    \cup
    { edge.target : edge \in { e \in EdgeSet : e.source = id /\ e.type = "derived_from" } }

\* Everything the frontier comes to from one claim.
Traced(claim) ==
    LET upTo[k \in 0..Cardinality(DOMAIN nodes)] ==
          IF k = 0 THEN {claim}
          ELSE upTo[k - 1] \cup UNION { Origins(id) : id \in upTo[k - 1] }
    IN  upTo[Cardinality(DOMAIN nodes)]

ValidatedEvidence ==
    { id \in DOMAIN nodes : nodes[id].type = "evidence" /\ nodes[id].identity.status = "validated" }

\* validate_final_claim_traceability.
FinalClaimsTraced ==
    \A id \in DOMAIN nodes : nodes[id].final => Traced(id) \cap ValidatedEvidence # {}

\* validate_against_ledger.
MatchesLedger ==
    /\ { id \in DOMAIN nodes : nodes[id].type = "evidence" } = DOMAIN ledger
    /\ \A id \in DOMAIN ledger :
         nodes[id].identity = [sha256 |-> ledger[id].sha256, status |-> ledger[id].status]
    /\ \A edge \in EdgeSet :
         edge.source \in DOMAIN ledger => edge.type = ledger[edge.source].relationship

\* ClaimGraphSnapshot.valid_graph.
SnapshotValid ==
    /\ \A one, other \in DOMAIN edges : edges[one] = edges[other] => one = other
    /\ \A edge \in EdgeSet :
         {edge.source, edge.target} \subseteq DOMAIN nodes /\ EdgeTypeValid(edge)
    /\ Acyclic(EdgeSet)

(***************************************************************************)
(* The caller and the reader.                                              *)
(***************************************************************************)
Nothing == [x \in {} |-> {}]

With(function, key, value) ==
    [x \in DOMAIN function \cup {key} |-> IF x = key THEN value ELSE function[x]]

add_node(id, node) ==
    /\ phase = "building"
    /\ id \notin DOMAIN nodes
    /\ nodes' = With(nodes, id, node)
    /\ UNCHANGED <<ledger, edges, stored, phase>>

add_edge(id, edge) ==
    /\ phase = "building"
    /\ EdgeAddable(id, edge)
    /\ edges' = With(edges, id, edge)
    /\ UNCHANGED <<ledger, nodes, stored, phase>>

\* Mutant: the traceability of final claims is left to the reader.
Savable_Untraced == SnapshotValid /\ MatchesLedger

\* What save_claim_graph demands of a graph.
Savable == SnapshotValid /\ MatchesLedger /\ FinalClaimsTraced

save_claim_graph ==
    /\ phase = "building"
    /\ Savable
    /\ stored' = [nodes |-> nodes, edges |-> edges]
    /\ phase' = "stored"
    /\ UNCHANGED <<ledger, nodes, edges>>

\* _load_graph: from_snapshot begins with an empty graph and adds the nodes.
Load ==
    /\ phase = "stored"
    /\ nodes' = stored.nodes
    /\ edges' = Nothing
    /\ phase' = "reading"
    /\ UNCHANGED <<ledger, stored>>

Remaining == DOMAIN stored.edges \ DOMAIN edges

\* from_snapshot: the next edge in the order of the snapshot.
LoadEdge ==
    /\ phase = "reading"
    /\ \E id \in Remaining :
         /\ \A other \in Remaining : id <= other
         /\ IF EdgeAddable(id, stored.edges[id])
            THEN edges' = With(edges, id, stored.edges[id]) /\ UNCHANGED phase
            ELSE phase' = "raised" /\ UNCHANGED edges
    /\ UNCHANGED <<ledger, nodes, stored>>

\* _load_graph: the checks after from_snapshot.
Return ==
    /\ phase = "reading" /\ Remaining = {}
    /\ phase' = IF MatchesLedger /\ FinalClaimsTraced THEN "returned" ELSE "raised"
    /\ UNCHANGED <<ledger, nodes, edges, stored>>

GraphInit ==
    /\ ledger \in Ledgers
    /\ nodes = Nothing
    /\ edges = Nothing
    /\ stored = [nodes |-> Nothing, edges |-> Nothing]
    /\ phase = "building"

GraphNext ==
    \/ \E id \in NodeIds : \E node \in Offers[id] : add_node(id, node)
    \/ \E id \in EdgeIds, edge \in Edges : add_edge(id, edge)
    \/ save_claim_graph
    \/ Load
    \/ LoadEdge
    \/ Return

GraphSpec == GraphInit /\ [][GraphNext]_graphVars

(***************************************************************************)
(* Properties.                                                             *)
(***************************************************************************)
\* Some path of edges, of some length or none, leads from one node to another:
\* the other is in every set that holds the one and what its members lead to.
Leads(among, from, to) ==
    \A set \in SUBSET DOMAIN nodes :
        /\ from \in set
        /\ \A edge \in among : edge.source \in set => edge.target \in set
        => to \in set

\* Whatever the order of insertion, no node of the graph is on a path of edges
\* that leads back to it: checking each edge when it comes is enough.
NeverCyclic == \A edge \in EdgeSet : ~Leads(EdgeSet, edge.target, edge.source)

\* A stored final claim rests on evidence that the case's own ledger holds as
\* validated: a chain of derivations leads from it to a claim about which that
\* evidence says something.
Derivations == { edge \in EdgeSet : edge.type = "derived_from" }

StoredClaimsRestOnEvidence ==
    phase = "stored" =>
        \A id \in DOMAIN nodes : nodes[id].final =>
            \E edge \in EdgeSet :
                /\ edge.source \in DOMAIN ledger
                /\ ledger[edge.source].status = "validated"
                /\ ledger[edge.source].relationship = edge.type
                /\ Leads(Derivations, id, edge.target)

\* A graph that was stored can be read, and is the same: the reader, who adds
\* the edges in another order than the caller did, meets no refusal.
StoredGraphIsReadable ==
    /\ phase # "raised"
    /\ phase = "returned" => nodes = stored.nodes /\ edges = stored.edges
===============================================================================
