------------------------------ MODULE CaseStore ------------------------------
(***************************************************************************)
(* The durable store of one tribunal case (storage/sqlite.py): the rows of *)
(* the case in each table, and one action per CaseStore operation that     *)
(* writes. A write runs in one BEGIN IMMEDIATE transaction, so it is one   *)
(* step; a refused call raises and rolls back, so it is a stuttering step. *)
(* record_provider_invocation (for the Chair) and save_claim_graph read    *)
(* the case before their transaction; what that read established can only  *)
(* be undone by a new revision or a new graph row, and the transaction     *)
(* checks for both, so the read is put into the same step.                 *)
(*                                                                         *)
(* Several clients hold the store open at once and each call is made with  *)
(* what its caller knew when it prepared it: an expected revision and an   *)
(* event that was hash-chained to a history.  Both may be stale, or belong *)
(* to a history the store never had (persist_audited_case writes a log     *)
(* that was built elsewhere).  Next lets every caller err in these ways.   *)
(*                                                                         *)
(* Abstractions.  The workflow is one chain (WorkflowRules), so a case at  *)
(* revision r is in the r-th workflow state and an event is its payload.   *)
(* Whether a payload is admissible is GovernedCase's subject: here all     *)
(* are.  The previous_event_hash of an event is the history it was chained *)
(* to; hashes are injective.  A request is eligible at exactly one state   *)
(* (RoleRequestBuilder.build), so the revision of an invocation tells its  *)
(* role and action.  The materialized tables of constitutions, evidence,   *)
(* reviews and verdicts hold one row per event of their state, written in  *)
(* the event's own transaction, and are not kept apart from it.            *)
(***************************************************************************)
EXTENDS WorkflowRules, Integers, Sequences

CONSTANTS
    Payloads,          \* event payloads without engine evidence
    Receipts,          \* trusted executions; also: evidence derived from one
    Requests,          \* semantic identities of requests at one revision
    Observations,      \* what the attempts of a failed invocation observed
    MaxInvocations,    \* bound on the number at the end of an invocation id
    Foreign,           \* a payload that only logs kept outside the store hold
    InitialHistories   \* histories persisted before the model starts

ASSUME StoreConstants ==
    /\ Payloads \cap Receipts = {}
    /\ Foreign \notin Payloads \cup Receipts
    /\ MaxInvocations \in Nat
    /\ \A history \in InitialHistories :
         history \in Seq(Payloads) /\ Len(history) <= VERDICT_ELIGIBILITY_COMPUTED

\* The states in which a role provider may be asked (_EXPECTED_STATE).
ProviderStates ==
    { CLAIM_RECEIVED, RESEARCHER_PROTOCOL_PROPOSED, EXPERIMENT_EXECUTED,
      STATISTICS_REVIEWED, OPTIONAL_FOLLOW_UP, VERDICT_ELIGIBILITY_COMPUTED }

VARIABLES
    row,           \* cases: revision (0: no such row), finalized, graph_revision (0: NULL)
    events,        \* audit_events, by sequence
    graphs,        \* claim_graphs: the revisions that have a row
    invocations,   \* provider_invocations
    bundles,       \* evidence_bundles, by bundle_sequence
    consumed       \* receipts whose one-shot capability has been used

vars == <<row, events, graphs, invocations, bundles, consumed>>

(***************************************************************************)
(* Records.                                                                *)
(***************************************************************************)

\* _next_invocation_id: the request and a running number.
InvocationIds ==
    [revision : ProviderStates, request : Requests, number : 1..MaxInvocations]

AcceptedRecord(id, output) == [id |-> id, status |-> "accepted", result |-> output]

FailedRecord(id, observation) == [id |-> id, status |-> "failed", result |-> observation]

AcceptedRecords == { AcceptedRecord(id, output) : id \in InvocationIds, output \in Payloads }

FailedRecords == { FailedRecord(id, observation) :
                     id \in InvocationIds, observation \in Observations }

Accepted == { record \in invocations : record.status = "accepted" }

(***************************************************************************)
(* Reading.                                                                *)
(***************************************************************************)
CaseExists == row.revision > 0

HasLedger == Len(events) >= EXPERIMENT_EXECUTED

\* The reads of _reconstruct up to the graph: the case row against the log.
RowMatchesLog ==
    /\ CaseExists
    /\ row.revision = Len(events)
    /\ row.finalized <=> Len(events) = CHAIR_EXPLANATION
    /\ row.graph_revision <= Len(events)

\* _load_graph: no row and no anchor, or exactly the anchored row.
GraphMatchesAnchor ==
    /\ graphs = IF row.graph_revision = 0 THEN {} ELSE {row.graph_revision}
    /\ graphs # {} => HasLedger

\* _verify_materializations and _verify_bundle_chain.
EvidenceMatchesBundles ==
    /\ Len(bundles) <= 1
    /\ (HasLedger /\ events[EXPERIMENT_EXECUTED] \in Receipts) =>
         \E k \in DOMAIN bundles : bundles[k] = events[EXPERIMENT_EXECUTED]

\* _verify_provider_invocations.
VotesMatchEvents ==
    \A record \in Accepted :
        /\ record.id.revision < Len(events)
        /\ events[record.id.revision + 1] = record.result

\* _reconstruct returns without raising.
Reconstructs(allowPendingFinalGraph) ==
    /\ RowMatchesLog
    /\ (row.finalized /\ ~allowPendingFinalGraph) => row.graph_revision = Len(events)
    /\ GraphMatchesAnchor
    /\ EvidenceMatchesBundles
    /\ VotesMatchEvents

(***************************************************************************)
(* Writing.                                                                *)
(***************************************************************************)

\* Mutant: the expected revision is not compared with the row.
AppendAccepted_Stale(after, payload, expected) == CaseExists /\ ~row.finalized

\* _append_event_transaction up to its writes.
AppendAccepted(after, payload, expected) ==
    /\ CaseExists
    /\ row.revision = expected
    /\ ~row.finalized
    /\ Len(after) = row.revision
    /\ after = events

\* Mutant: evidence records have no foreign key to bundles.
EvidenceHasBundle_NoForeignKey(payload, durable) == TRUE

\* The foreign key from evidence_records to evidence_bundles.
EvidenceHasBundle(payload, durable) ==
    payload \in Receipts => \E k \in DOMAIN durable : durable[k] = payload

\* The conditional update of cases.
AppendRow ==
    row' = [row EXCEPT !.revision = @ + 1,
                       !.finalized = (row.revision + 1 = CHAIR_EXPLANATION)]

AppendEvent(payload) ==
    /\ events' = Append(events, payload)
    /\ AppendRow

\* Mutant: the unique index is not restricted to accepted invocations.
InvocationInsertable_OnePerRevision(record) ==
    \/ record \in invocations
    \/ \A other \in invocations :
         other.id # record.id /\ other.id.revision # record.id.revision

\* _insert_provider_invocation: an identical record is already there, or the
\* identifier is new and no other vote was accepted at this revision.
InvocationInsertable(record) ==
    \/ record \in invocations
    \/ /\ \A other \in invocations : other.id # record.id
       /\ record.status = "accepted" =>
            \A other \in Accepted : other.id.revision # record.id.revision

create_case(payload) ==
    /\ ~CaseExists
    /\ events' = <<payload>>
    /\ row' = [revision |-> 1, finalized |-> FALSE, graph_revision |-> 0]
    /\ UNCHANGED <<graphs, invocations, bundles, consumed>>

append_event(after, payload, expected) ==
    /\ AppendAccepted(after, payload, expected)
    /\ EvidenceHasBundle(payload, bundles)
    /\ AppendEvent(payload)
    /\ UNCHANGED <<graphs, invocations, bundles, consumed>>

\* record_provider_invocation without an event.
FailureStorable(record, expected) ==
    /\ record.id.revision = expected
    /\ CaseExists
    /\ row.revision = expected
    /\ InvocationInsertable(record)

record_failed_invocation(record, expected) ==
    /\ FailureStorable(record, expected)
    /\ invocations' = invocations \cup {record}
    /\ UNCHANGED <<row, events, graphs, bundles, consumed>>

\* Mutant: an earlier anchor does not stand in the way.
FinalGraphAnchorable_Always == TRUE

\* _anchor_final_graph_transaction: no graph was anchored before.
FinalGraphAnchorable == graphs = {} /\ row.graph_revision = 0

\* record_provider_invocation with the event built from the accepted output.
\* The Chair's event brings the final claim graph, which requires a case that
\* reconstructs and a graph that fits: validate_against_ledger and
\* validate_final_claim_traceability (ClaimGraph) accept it.
VoteStorable(record, after, expected, graphFits) ==
    /\ record.id.revision = expected
    /\ Len(after) = expected
    /\ AppendAccepted(after, record.result, expected)
    /\ InvocationInsertable(record)
    /\ Len(after) + 1 = CHAIR_EXPLANATION =>
         /\ Reconstructs(TRUE)
         /\ HasLedger
         /\ graphFits
         /\ FinalGraphAnchorable

\* Mutant: the invocation is stored in a transaction before the event's.
record_accepted_invocation_WithoutEvent(record, after, expected, graphFits) ==
    /\ VoteStorable(record, after, expected, graphFits)
    /\ invocations' = invocations \cup {record}
    /\ UNCHANGED <<row, events, graphs, bundles, consumed>>

record_accepted_invocation(record, after, expected, graphFits) ==
    /\ VoteStorable(record, after, expected, graphFits)
    /\ invocations' = invocations \cup {record}
    /\ events' = Append(events, record.result)
    /\ IF Len(after) + 1 = CHAIR_EXPLANATION
       THEN /\ graphs' = graphs \cup {CHAIR_EXPLANATION}
            /\ row' = [revision |-> row.revision + 1, finalized |-> TRUE,
                       graph_revision |-> row.revision + 1]
       ELSE /\ AppendRow
            /\ UNCHANGED graphs
    /\ UNCHANGED <<bundles, consumed>>

\* The transaction of admit_evidence_bundle.  Every bundle that
\* execute_and_admit_engine_evidence builds names the genesis hash as its
\* predecessor.
BundleAccepted(receipt, after) ==
    /\ AppendAccepted(after, receipt, CONSTITUTION_LOCKED)
    /\ bundles = <<>>

\* Mutant: the bundle stays when the event is refused.
admit_evidence_bundle_NotRolledBack(receipt, after) ==
    /\ Len(after) + 1 = EXPERIMENT_EXECUTED
    /\ receipt \notin consumed
    /\ consumed' = consumed \cup {receipt}
    /\ bundles = <<>>
    /\ bundles' = <<receipt>>
    /\ IF BundleAccepted(receipt, after)
       THEN AppendEvent(receipt)
       ELSE UNCHANGED <<events, row>>
    /\ UNCHANGED <<graphs, invocations>>

\* admit_evidence_bundle: the capability is used up before the transaction
\* begins, and stays used when the transaction is refused.
admit_evidence_bundle(receipt, after) ==
    /\ Len(after) + 1 = EXPERIMENT_EXECUTED
    /\ receipt \notin consumed
    /\ consumed' = consumed \cup {receipt}
    /\ IF BundleAccepted(receipt, after)
       THEN /\ bundles' = Append(bundles, receipt)
            /\ EvidenceHasBundle(receipt, bundles')
            /\ AppendEvent(receipt)
       ELSE UNCHANGED <<bundles, events, row>>
    /\ UNCHANGED <<graphs, invocations>>

\* Mutant: the row of the earlier graph is replaced.
save_claim_graph_Replacing(expected) ==
    /\ Reconstructs(TRUE)
    /\ row.revision = expected
    /\ HasLedger
    /\ expected \notin graphs
    /\ graphs' = {expected}
    /\ row' = [row EXCEPT !.graph_revision = expected]
    /\ UNCHANGED <<events, invocations, bundles, consumed>>

save_claim_graph(expected) ==
    /\ Reconstructs(TRUE)
    /\ row.revision = expected
    /\ HasLedger
    /\ expected \notin graphs
    /\ graphs' = graphs \cup {expected}
    /\ row' = [row EXCEPT !.graph_revision = expected]
    /\ UNCHANGED <<events, invocations, bundles, consumed>>

(***************************************************************************)
(* Callers.                                                                *)
(***************************************************************************)

\* Histories a caller may have chained its event to: what it read from the
\* store at some time, or a log of its own that parts from the store's.
Histories ==
    { SubSeq(events, 1, k) : k \in 1..Len(events) }
    \cup { [events EXCEPT ![k] = Foreign] : k \in DOMAIN events }

\* Revisions a caller may expect: the one its event extends, or the latest.
Expectations(after) == {Len(after), row.revision}

CallCreate == \E payload \in Payloads : create_case(payload)

CallAppend ==
    \E after \in Histories :
    \E payload \in IF Len(after) + 1 = EXPERIMENT_EXECUTED
                   THEN Payloads \cup Receipts ELSE Payloads :
    \E expected \in Expectations(after) :
        append_event(after, payload, expected)

CallRecordFailed ==
    \E record \in FailedRecords :
        record_failed_invocation(record, record.id.revision)

CallRecordAccepted ==
    \E record \in AcceptedRecords :
    \E after \in Histories, graphFits \in BOOLEAN :
        record_accepted_invocation(record, after, record.id.revision, graphFits)

CallAdmit ==
    \E receipt \in Receipts, after \in Histories :
        admit_evidence_bundle(receipt, after)

CallSaveGraph == \E expected \in 1..row.revision : save_claim_graph(expected)

\* No case yet, or a history that persist_audited_case has written: without
\* provider, bundle or graph.
Init ==
    /\ events \in InitialHistories
    /\ row = [revision |-> Len(events), finalized |-> FALSE, graph_revision |-> 0]
    /\ graphs = {}
    /\ invocations = {}
    /\ bundles = <<>>
    /\ consumed = {}

Next ==
    \/ CallCreate
    \/ CallAppend
    \/ CallRecordFailed
    \/ CallRecordAccepted
    \/ CallAdmit
    \/ CallSaveGraph

Spec == Init /\ [][Next]_vars

(***************************************************************************)
(* Properties.                                                             *)
(***************************************************************************)
IsPrefix(s, t) == Len(s) <= Len(t) /\ s = SubSeq(t, 1, Len(s))

\* The rows have their types, and a case never outgrows its workflow.
TypeOK ==
    /\ row \in [ revision : 0..CHAIR_EXPLANATION, finalized : BOOLEAN,
                 graph_revision : 0..CHAIR_EXPLANATION ]
    /\ events \in Seq(Payloads \cup Receipts)
    /\ Len(events) <= CHAIR_EXPLANATION
    /\ graphs \subseteq EXPERIMENT_EXECUTED..CHAIR_EXPLANATION
    /\ invocations \subseteq AcceptedRecords \cup FailedRecords
    /\ bundles \in Seq(Receipts)
    /\ consumed \subseteq Receipts

\* What the readers check holds after every transaction whatever the callers
\* do, with one exception: a case can be unreadable only because of its claim
\* graph, superseded or (when finalized) not yet anchored.
GraphSettled ==
    /\ graphs \subseteq {row.graph_revision}
    /\ row.finalized => row.graph_revision = CHAIR_EXPLANATION

UnreadableOnlyByGraph ==
    CaseExists => (Reconstructs(FALSE) <=> GraphSettled)

\* Provider retries and races never become votes: at most one invocation is
\* accepted at a revision, and the event after that revision is its output.
AcceptedVoteIsItsEvent ==
    /\ VotesMatchEvents
    /\ \A one, other \in Accepted : one.id.revision = other.id.revision => one = other

\* Engine evidence is on record exactly when its bundle is, and never without
\* a receipt that was used up for it; a refused admission leaves neither.
EvidenceHasOneOrigin ==
    /\ \A receipt \in Receipts :
         (HasLedger /\ events[EXPERIMENT_EXECUTED] = receipt) <=> bundles = <<receipt>>
    /\ \A k \in DOMAIN bundles : bundles[k] \in consumed

\* A case that a provider's Chair explanation finalized is complete: its only
\* graph is the one anchored with the explanation, and it reconstructs.
ChairVoteCompletesCase ==
    (\E record \in Accepted : record.id.revision = VERDICT_ELIGIBILITY_COMPUTED) =>
        /\ graphs = {CHAIR_EXPLANATION}
        /\ Reconstructs(FALSE)

\* Rows are immutable: every table only grows, the graph anchor only moves
\* forward, and a finalized case gets no further event.
NothingIsRewritten ==
    [][ /\ IsPrefix(events, events')
        /\ IsPrefix(bundles, bundles')
        /\ graphs \subseteq graphs'
        /\ invocations \subseteq invocations'
        /\ row.graph_revision <= row'.graph_revision
        /\ row.finalized => events' = events ]_vars

\* docs/STORAGE_MODEL.md: "A finalized case requires exactly one current,
\* append-only graph materialization anchored at its final case revision."
\* save_claim_graph also anchors graphs of earlier revisions, and their rows
\* stay.
FinalGraphIsTheOnlyOne ==
    (row.finalized /\ row.graph_revision = Len(events)) => graphs = {Len(events)}

(***************************************************************************)
(* The abstract ledger of the case: what was appended, and which of it was *)
(* a provider's vote.                                                      *)
(***************************************************************************)
Votes == { [revision |-> record.id.revision, output |-> record.result] : record \in Accepted }

Ledger == INSTANCE CaseLedger
            WITH log <- events, votes <- Votes, Values <- Payloads \cup Receipts

ImplementsLedger == Ledger!Spec
=============================================================================
