---------------------------- MODULE RoleValidation ----------------------------
(***************************************************************************)
(* What QuantForge asks a role provider and what it accepts from it: the   *)
(* contract of each role action (roles/governance.py), the request that is *)
(* built from the durable case and the caller's evidence summaries         *)
(* (roles/requests.py), the semantic validation of an output               *)
(* (roles/validation.py) and the workflow event an accepted output becomes *)
(* (TribunalOrchestrator._workflow_event).                                 *)
(*                                                                         *)
(* Abstractions.  An output keeps what validation compares.  Its own       *)
(* identity, the identities it refers to and its timestamp are one Boolean *)
(* (all are the code-owned ones, or some is not), and so is a prohibited   *)
(* phrase anywhere in its text.  A finding is the set of its references; a *)
(* summary is "bound" when its case, revision, constitution and amendment  *)
(* chain are the case's.  Prompts, schemas, hashes, the character budget   *)
(* and the ordering of context items are left out; the number of context   *)
(* items is kept.                                                          *)
(***************************************************************************)
EXTENDS WorkflowRules, Sequences, FiniteSets, FiniteSetsExt

CONSTANTS
    EvidenceIds, FactIds,
    Verdicts,
    MaximumContextItems     \* MAX_CONTEXT_ITEMS

EvidenceReference == [evidence_id : EvidenceIds, numeric_fact_ids : SUBSET FactIds]

EvidenceSummary ==
    [evidence_id : EvidenceIds, numeric_fact_ids : SUBSET FactIds, bound : BOOLEAN]

Findings == SUBSET (SUBSET EvidenceReference)

\* The fields of every output type that validation compares.
OutputType ==
    [ bound : BOOLEAN,              \* identities and timestamp are code-owned
      claimsAuthority : BOOLEAN,
      findings : Findings,
      challenges : SUBSET [failed : BOOLEAN, references : SUBSET EvidenceReference],
      verified : BOOLEAN,           \* status VERIFIED, or some check is true
      computed_verdict : Verdicts,
      decisive_evidence : SUBSET EvidenceReference,
      contradictory_evidence : SUBSET EvidenceReference ]

\* What the durable case gives to a request.
CaseType ==
    [ state : WorkflowStates, evidence_ids : SUBSET EvidenceIds,
      verdict : Verdicts, decisive_evidence : (SUBSET EvidenceReference) \ {{}},
      contradictory_evidence : SUBSET EvidenceReference, last_event_at : Nat ]

\* The arguments of invoke_and_advance with the case that it reads.
CallType ==
    [ case : CaseType, action : STRING, evidence_summaries : Seq(EvidenceSummary),
      code_owned_reproducibility_verified : BOOLEAN, effective_at : Nat ]

(***************************************************************************)
(* Contracts.                                                              *)
(***************************************************************************)
Contract(role, state, audited, required) ==
    [ role |-> role,
      expected_state |-> state,            \* _EXPECTED_STATE
      audited_action |-> audited,          \* the action of the workflow event
      evidence_references_required |-> required ]

\* Mutant: the statistical reviewer may be asked without evidence.
RoleContracts_StatisticsWithoutEvidence ==
    [ propose_protocol       |-> Contract("researcher", CLAIM_RECEIVED,
                                          "propose_protocol", FALSE),
      review_methodology     |-> Contract("methodology_auditor", RESEARCHER_PROTOCOL_PROPOSED,
                                          "review_methodology", FALSE),
      review_statistics      |-> Contract("statistical_reviewer", EXPERIMENT_EXECUTED,
                                          "review_statistics", FALSE),
      request_challenge      |-> Contract("adversarial_reviewer", STATISTICS_REVIEWED,
                                          "review_adversarially", TRUE),
      review_reproducibility |-> Contract("reproducibility_reviewer", OPTIONAL_FOLLOW_UP,
                                          "skip_follow_up", TRUE),
      explain_verdict        |-> Contract("tribunal_chair", VERDICT_ELIGIBILITY_COMPUTED,
                                          "explain_verdict", TRUE) ]

\* ROLE_CONTRACTS.
RoleContracts ==
    [ propose_protocol       |-> Contract("researcher", CLAIM_RECEIVED,
                                          "propose_protocol", FALSE),
      review_methodology     |-> Contract("methodology_auditor", RESEARCHER_PROTOCOL_PROPOSED,
                                          "review_methodology", FALSE),
      review_statistics      |-> Contract("statistical_reviewer", EXPERIMENT_EXECUTED,
                                          "review_statistics", TRUE),
      request_challenge      |-> Contract("adversarial_reviewer", STATISTICS_REVIEWED,
                                          "review_adversarially", TRUE),
      review_reproducibility |-> Contract("reproducibility_reviewer", OPTIONAL_FOLLOW_UP,
                                          "skip_follow_up", TRUE),
      explain_verdict        |-> Contract("tribunal_chair", VERDICT_ELIGIBILITY_COMPUTED,
                                          "explain_verdict", TRUE) ]

RoleActions == DOMAIN RoleContracts

(***************************************************************************)
(* The request.                                                            *)
(***************************************************************************)
Summaries(call) == call.evidence_summaries

\* The allow-lists: all evidence, and all facts whatever evidence they are of.
EvidenceReferences(call)    == { Summaries(call)[k].evidence_id : k \in DOMAIN Summaries(call) }
NumericFactReferences(call) ==
    UNION { Summaries(call)[k].numeric_fact_ids : k \in DOMAIN Summaries(call) }

\* The documents of _context_for: fields that the case has in the expected
\* state of the action, by the state that introduced them.
ContextDocuments(action) ==
    CASE action = "propose_protocol" -> {"claim"}
      [] action \in {"review_methodology", "review_statistics"} -> {"claim", "proposal"}
      [] action = "request_challenge" -> {"claim", "proposal", "statistical_review"}
      [] action = "review_reproducibility" ->
           {"claim", "proposal", "statistical_review", "adversarial_review", "observation"}
      [] action = "explain_verdict" ->
           {"claim", "proposal", "statistical_review", "adversarial_review", "observation",
            "methodology_review", "reproducibility_review", "verdict_eligibility"}

\* _validate_evidence_summaries.
SummariesValid(call) ==
    /\ Cardinality(EvidenceReferences(call)) = Len(Summaries(call))
    /\ \A k \in DOMAIN Summaries(call) :
         /\ Summaries(call)[k].bound
         /\ Summaries(call)[k].evidence_id \in call.case.evidence_ids

\* The list of fact identifiers must have no duplicates, over all summaries.
FactsUnique(call) ==
    \A j, k \in DOMAIN Summaries(call) :
        j # k => Summaries(call)[j].numeric_fact_ids \cap Summaries(call)[k].numeric_fact_ids = {}

\* RoleRequestBuilder.build returns without raising
\* (GovernedRoleRequest.identity_and_budget_are_exact included).
RequestBuilds(call) ==
    LET contract == RoleContracts[call.action]
    IN  /\ call.case.state = contract.expected_state
        /\ SummariesValid(call)
        /\ contract.evidence_references_required => EvidenceReferences(call) # {}
        /\ Cardinality(ContextDocuments(call.action)) + Len(Summaries(call))
             <= MaximumContextItems
        /\ FactsUnique(call)

(***************************************************************************)
(* The output.                                                             *)
(***************************************************************************)
\* The output type of an action's contract: the fields that it does not have
\* are empty or FALSE.
OfContractType(action, output) ==
    /\ output.findings # {} =>
         action \in {"review_methodology", "review_statistics", "request_challenge",
                    "review_reproducibility"}
    /\ output.challenges # {} => action = "request_challenge"
    /\ output.verified => action = "review_reproducibility"
    /\ output.decisive_evidence # {} \/ output.contradictory_evidence # {} =>
         action = "explain_verdict"

\* Mutant: facts are not looked up.
ReferencesValid_AnyFact(call, references, required) ==
    /\ \A reference \in references : reference.evidence_id \in EvidenceReferences(call)
    /\ required => references # {}

\* _validate_references.
ReferencesValid(call, references, required) ==
    /\ \A reference \in references :
         /\ reference.evidence_id \in EvidenceReferences(call)
         /\ reference.numeric_fact_ids \subseteq NumericFactReferences(call)
    /\ required => references # {}

StatisticsValid(call, output) ==
    /\ output.findings # {}
    /\ \A finding \in output.findings : ReferencesValid(call, finding, TRUE)

ChallengeValid(call, output) ==
    /\ \A challenge \in output.challenges :
         ReferencesValid(call, challenge.references, challenge.failed)
    /\ ReferencesValid(call, UNION output.findings, FALSE)

ReproducibilityValid(call, output) ==
    /\ output.verified => call.code_owned_reproducibility_verified
    /\ ReferencesValid(call, UNION output.findings, FALSE)

ChairValid(call, output) ==
    /\ output.computed_verdict = call.case.verdict
    /\ output.decisive_evidence = call.case.decisive_evidence
    /\ output.contradictory_evidence = call.case.contradictory_evidence
    /\ ReferencesValid(call, output.decisive_evidence, TRUE)
    /\ ReferencesValid(call, output.contradictory_evidence, FALSE)

\* validate_role_output returns without raising.
OutputValid(call, output) ==
    /\ ~output.claimsAuthority
    /\ output.bound
    /\ CASE call.action = "propose_protocol" -> TRUE
         [] call.action = "review_methodology" ->
              ReferencesValid(call, UNION output.findings, FALSE)
         [] call.action = "review_statistics" -> StatisticsValid(call, output)
         [] call.action = "request_challenge" -> ChallengeValid(call, output)
         [] call.action = "review_reproducibility" -> ReproducibilityValid(call, output)
         [] call.action = "explain_verdict" -> ChairValid(call, output)

\* _workflow_event: the machine and its audit log take the event at the time
\* effective_at.
EventAdvances(call) ==
    LET contract == RoleContracts[call.action]
    IN  /\ TransitionAuthorized(call.case.state, NextState(call.case.state),
                                contract.role, contract.audited_action)
        /\ call.case.last_event_at < call.effective_at
================================================================================
