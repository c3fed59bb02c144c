---------------------------- MODULE GovernedCase ----------------------------
(***************************************************************************)
(* One tribunal case in memory: a StateMachine (workflow/machine.py) that  *)
(* advances a TribunalCase (domain/models.py) and records every step in    *)
(* the AuditLog (audit/log.py) it owns.                                    *)
(*                                                                         *)
(* The caller of advance() hands over, separately, the payload to audit    *)
(* and the field updates of the case.  The log accepts the event only when *)
(* replaying the whole log yields exactly the case that the updates give;  *)
(* otherwise the event is popped again and nothing has changed.  A refused *)
(* call raises and changes nothing, so it is a stuttering step here.       *)
(*                                                                         *)
(* Abstractions.  A document keeps the fields that a check or the policy   *)
(* reads: a set of findings is "an unresolved critical / noncritical one   *)
(* exists", a review's check list is folded into the decision its          *)
(* validator admits.  Hashes are injective, so a hash of a document is the *)
(* document; the per-event hash chain then carries no information of its   *)
(* own.  Identifiers of the claim and of evidence facts, and amendments    *)
(* (no event can record one), are left out.                                *)
(***************************************************************************)
EXTENDS WorkflowRules, VerdictPolicy, Integers, Sequences

CONSTANTS
    Experiments,             \* experiment identifiers
    Protocols,               \* bodies of proposals a researcher may submit
    MethodologyReviews,      \* bodies of methodology reviews
    EvidenceTables,          \* evidence rows an execution may yield
    StatisticalReviews,
    AdversarialReviews,
    ReproducibilityReviews,
    TimeSteps,               \* time of an event minus time of the event before
    ClockOffsets             \* document time minus time of the recording event

(***************************************************************************)
(* Documents.  Each constant above is a subset of one of these types.      *)
(***************************************************************************)
ProtocolType ==
    [ experiment : Experiments, own_claim : BOOLEAN,
      expected_direction : ExpectedDirections ]

\* approved_review_is_complete: an approved review has no open critical finding.
MethodologyType ==
    { review \in [ experiment : Experiments, decision : ReviewDecisions,
                   critical : BOOLEAN, noncritical : BOOLEAN ] :
        review.decision = "approved" => ~review.critical }

EvidenceItem ==
    [ validation_status : ValidationStatuses,
      relationship : {"supports", "contradicts", "qualifies"} ]

EvidenceTableType == UNION { [ids -> EvidenceItem] : ids \in SUBSET EvidenceIds }

StatisticalType ==
    [ effect_direction : EffectDirections,
      corrected_inference : CorrectedInferences,
      practical_significance : BOOLEAN,
      critical : BOOLEAN, noncritical : BOOLEAN ]

\* challenge_summary_is_consistent: high cost sensitivity stands for a failed
\* cost challenge, and any failed challenge fails robustness.
AdversarialType ==
    { review \in [ robustness_status : GateStatuses,
                   cost_sensitivity : Sensitivities,
                   parameter_stability : Stabilities,
                   regime_stability : Stabilities,
                   concentration_risk : Sensitivities,
                   critical : BOOLEAN, noncritical : BOOLEAN ] :
        review.cost_sensitivity = "high" => review.robustness_status = "fail" }

ReproducibilityType ==
    [ status : ReproducibilityStatuses, critical : BOOLEAN, noncritical : BOOLEAN ]

ASSUME DocumentTypes ==
    /\ Protocols \subseteq ProtocolType
    /\ MethodologyReviews \subseteq MethodologyType
    /\ EvidenceTables \subseteq EvidenceTableType
    /\ StatisticalReviews \subseteq StatisticalType
    /\ AdversarialReviews \subseteq AdversarialType
    /\ ReproducibilityReviews \subseteq ReproducibilityType
    /\ TimeSteps \subseteq Nat
    /\ ClockOffsets \subseteq Int

VARIABLES
    events,     \* AuditLog._events
    case        \* StateMachine.case: its state and the documents it holds

vars == <<events, case>>

Dated(body, at) == [body |-> body, at |-> at]

(***************************************************************************)
(* TribunalCase.  doc[s] is the field that workflow state s introduces; an *)
(* absent field is outside DOMAIN doc.  OPTIONAL_FOLLOW_UP has no field.   *)
(***************************************************************************)
Staged(state) == (CLAIM_RECEIVED..state) \ {OPTIONAL_FOLLOW_UP}

\* The fields governed_visibility compares times over (evidence has its own).
Timed(state) == Staged(state) \ {EXPERIMENT_EXECUTED}

FieldsMatchState(c) ==
    /\ DOMAIN c.doc = Staged(c.state)
    /\ c.state >= EXPERIMENT_EXECUTED => c.doc[EXPERIMENT_EXECUTED] # {}

ProtocolGoverned(c) ==
    /\ c.state >= RESEARCHER_PROTOCOL_PROPOSED =>
         c.doc[RESEARCHER_PROTOCOL_PROPOSED].body.own_claim
    /\ c.state >= METHODOLOGY_REVIEWED =>
         c.doc[METHODOLOGY_REVIEWED].body.experiment
           = c.doc[RESEARCHER_PROTOCOL_PROPOSED].body.experiment
    /\ c.state >= HUMAN_APPROVAL =>
         /\ c.doc[METHODOLOGY_REVIEWED].body.decision = "approved"
         /\ c.doc[HUMAN_APPROVAL].body.experiment
              = c.doc[RESEARCHER_PROTOCOL_PROPOSED].body.experiment
         /\ c.doc[HUMAN_APPROVAL].body.approved
    /\ c.state >= CONSTITUTION_LOCKED =>
         /\ c.doc[CONSTITUTION_LOCKED].body.proposal
              = c.doc[RESEARCHER_PROTOCOL_PROPOSED]
         /\ c.doc[CONSTITUTION_LOCKED].body.human_approval = c.doc[HUMAN_APPROVAL]

ChairBound(c) ==
    c.state >= CHAIR_EXPLANATION =>
        c.doc[CHAIR_EXPLANATION].body = c.doc[VERDICT_ELIGIBILITY_COMPUTED].body

\* Mutant: only documents from the constitution on are compared.
DocumentTimesMonotonic_AfterLock(c) ==
    \A s, t \in Timed(c.state) :
        CONSTITUTION_LOCKED <= s /\ s <= t => c.doc[s].at <= c.doc[t].at

DocumentTimesMonotonic(c) ==
    \A s, t \in Timed(c.state) : s <= t => c.doc[s].at <= c.doc[t].at

\* TribunalCase.governed_visibility returns without raising.
Governed(c) ==
    /\ FieldsMatchState(c)
    /\ ProtocolGoverned(c)
    /\ ChairBound(c)
    /\ DocumentTimesMonotonic(c)

\* validated_model_update before its validation.
Updated(c, state, changes) ==
    [ state |-> state,
      doc   |-> [ s \in DOMAIN c.doc \cup DOMAIN changes |->
                    IF s \in DOMAIN changes THEN changes[s] ELSE c.doc[s] ] ]

\* Mutant: the approval binds the experiment, not the exact proposal.
ConstitutionIntegral_AnyProposal(body) ==
    /\ body.human_approval.body.approved
    /\ body.human_approval.body.experiment = body.proposal.body.experiment

\* ExperimentConstitution.integrity: the approval is positive and binds the
\* exact proposal.
ConstitutionIntegral(body) ==
    /\ body.human_approval.body.approved
    /\ body.human_approval.body.experiment = body.proposal.body.experiment
    /\ body.human_approval.body.proposal = body.proposal

(***************************************************************************)
(* AuditLog: replay and verification.                                      *)
(***************************************************************************)
Event(state, actor, action, timestamp, payload) ==
    [ workflow_state |-> state, actor |-> actor, action |-> action,
      timestamp |-> timestamp, payload |-> payload ]

\* What replay_cases puts in the case for an event.
RecordedField(event) ==
    CASE event.workflow_state = EXPERIMENT_EXECUTED ->
           DOMAIN event.payload.body.evidence
      [] event.workflow_state = VERDICT_ELIGIBILITY_COMPUTED ->
           Dated(event.payload.body.eligibility, event.payload.at)
      [] OTHER -> event.payload

\* The case after the first k events.  The rule table is one chain, so the
\* event that introduced state s is the s-th.
ReplayedCase(log, k) ==
    [ state |-> log[k].workflow_state,
      doc   |-> [ s \in Staged(k) |-> RecordedField(log[s]) ] ]

ReplayCase(log) == ReplayedCase(log, Len(log))

UnresolvedFinding(c, severity) ==
    \E s \in {METHODOLOGY_REVIEWED, STATISTICS_REVIEWED,
              ADVERSARIAL_REVIEWED, REPRODUCIBILITY_VERIFIED} :
        c.doc[s].body[severity]

\* The inputs _validate_policy_inputs derives from the case and its ledger.
GovernedInputs(c, evidence) ==
    LET statistics  == c.doc[STATISTICS_REVIEWED].body
        adversarial == c.doc[ADVERSARIAL_REVIEWED].body
    IN  [ methodology_status           |-> c.doc[METHODOLOGY_REVIEWED].body.decision,
          primary_experiment_complete  |-> TRUE,
          evidence_validation_statuses |->
              {evidence[id].validation_status : id \in DOMAIN evidence},
          corrected_inference          |-> statistics.corrected_inference,
          expected_direction           |->
              c.doc[RESEARCHER_PROTOCOL_PROPOSED].body.expected_direction,
          effect_direction             |-> statistics.effect_direction,
          practical_significance       |-> statistics.practical_significance,
          robustness_status            |-> adversarial.robustness_status,
          cost_sensitivity             |-> adversarial.cost_sensitivity,
          parameter_stability          |-> adversarial.parameter_stability,
          regime_stability             |-> adversarial.regime_stability,
          concentration_risk           |-> adversarial.concentration_risk,
          reproducibility_status       |-> c.doc[REPRODUCIBILITY_VERIFIED].body.status,
          unresolved_critical_findings |-> UnresolvedFinding(c, "critical"),
          decisive_evidence            |-> DOMAIN evidence,
          contradictory_evidence       |->
              {id \in DOMAIN evidence : evidence[id].relationship = "contradicts"},
          unresolved_noncritical_limitations |-> UnresolvedFinding(c, "noncritical") ]

\* ledger.validate_reference accepts every decisive reference.
EveryReferenceValidated(evidence) ==
    \A id \in DOMAIN evidence : evidence[id].validation_status = "validated"

\* Mutant: decisive references are not looked up in the ledger.
PolicyInputsGoverned_ReferencesUnchecked(c, evidence, inputs) ==
    inputs = GovernedInputs(c, evidence)

\* Mutant: the submitted inputs are not compared with the derived ones.
PolicyInputsGoverned_InputsTrusted(c, evidence, inputs) ==
    EveryReferenceValidated(evidence)

PolicyInputsGoverned(c, evidence, inputs) ==
    /\ inputs = GovernedInputs(c, evidence)
    /\ EveryReferenceValidated(evidence)

\* One pass of the loops of verify and replay_cases over the k-th event.
ReplayStep(log, k) ==
    LET event  == log[k]
        source == IF k = 1 THEN NoState ELSE log[k - 1].workflow_state
    IN  /\ TransitionAuthorized(source, event.workflow_state, event.actor, event.action)
        /\ k > 1 => log[k - 1].timestamp < event.timestamp
        /\ event.payload.at <= event.timestamp
        /\ event.workflow_state = CONSTITUTION_LOCKED =>
             ConstitutionIntegral(event.payload.body)
        /\ event.workflow_state = EXPERIMENT_EXECUTED =>
             event.payload.body.constitution = log[CONSTITUTION_LOCKED].payload
        /\ event.workflow_state = OPTIONAL_FOLLOW_UP =>
             ~event.payload.body.follow_up_required
        /\ event.workflow_state = REPRODUCIBILITY_VERIFIED =>
             event.payload.body.disposition =
               IF event.action = "skip_follow_up" THEN "skipped" ELSE "completed"
        /\ event.workflow_state = VERDICT_ELIGIBILITY_COMPUTED =>
             /\ PolicyInputsGoverned(ReplayedCase(log, k - 1),
                                     log[EXPERIMENT_EXECUTED].payload.body.evidence,
                                     event.payload.body.inputs)
             /\ event.payload.body.eligibility = Eligibility(event.payload.body.inputs)
        /\ Governed(ReplayedCase(log, k))

\* verify(replay=True) returns without raising.
LogVerifies(log) == \A k \in 1..Len(log) : ReplayStep(log, k)

LastEvent == events[Len(events)]

\* Mutant: the replayed case is not compared with the updated one.
LogAccepts_ReplayUncompared(event, expected) ==
    /\ TransitionAuthorized(LastEvent.workflow_state, event.workflow_state,
                            event.actor, event.action)
    /\ LastEvent.timestamp < event.timestamp
    /\ LogVerifies(Append(events, event))

\* AuditLog.append: the checks before the event is added, and the ones after
\* it that would pop it again.
LogAccepts(event, expected) ==
    /\ TransitionAuthorized(LastEvent.workflow_state, event.workflow_state,
                            event.actor, event.action)
    /\ LastEvent.timestamp < event.timestamp
    /\ ReplayCase(Append(events, event)) = expected
    /\ LogVerifies(Append(events, event))

AuditAppend(event, expected) ==
    /\ LogAccepts(event, expected)
    /\ events' = Append(events, event)

(***************************************************************************)
(* StateMachine.                                                           *)
(***************************************************************************)

\* Mutant: the follow-up state, too, must come with a field of its own.
PrerequisitesHold_FollowUpField(target, changes) ==
    /\ target = HUMAN_APPROVAL =>
         /\ case.doc[METHODOLOGY_REVIEWED].body.decision = "approved"
         /\ target \in DOMAIN changes
         /\ changes[target].body.approved
    /\ target = CONSTITUTION_LOCKED =>
         /\ target \in DOMAIN changes
         /\ changes[target].body.human_approval = case.doc[HUMAN_APPROVAL]
    /\ target # EXPERIMENT_EXECUTED => target \in DOMAIN changes

\* _validate_prerequisites, over the updates handed to advance.
PrerequisitesHold(target, changes) ==
    /\ target = HUMAN_APPROVAL =>
         /\ case.doc[METHODOLOGY_REVIEWED].body.decision = "approved"
         /\ target \in DOMAIN changes
         /\ changes[target].body.approved
    /\ target = CONSTITUTION_LOCKED =>
         /\ target \in DOMAIN changes
         /\ changes[target].body.human_approval = case.doc[HUMAN_APPROVAL]
    /\ target \notin {EXPERIMENT_EXECUTED, OPTIONAL_FOLLOW_UP} =>
         target \in DOMAIN changes

Advance(target, actor, action, timestamp, payload, changes) ==
    /\ HasNextState(case.state)
    /\ NextState(case.state) = target
    /\ target # REPRODUCIBILITY_VERIFIED
    /\ TransitionAuthorized(case.state, target, actor, action)
    /\ PrerequisitesHold(target, changes)
    /\ Governed(Updated(case, target, changes))
    /\ AuditAppend(Event(target, actor, action, timestamp, payload),
                   Updated(case, target, changes))
    /\ case' = Updated(case, target, changes)

RecordFollowUp(disposition, actor, action, reasonGiven, timestamp, review) ==
    LET changes == [ s \in {REPRODUCIBILITY_VERIFIED} |-> review ]
        new     == Updated(case, REPRODUCIBILITY_VERIFIED, changes)
    IN  /\ case.state = OPTIONAL_FOLLOW_UP
        /\ reasonGiven
        /\ review.body.disposition = disposition
        /\ TransitionAuthorized(case.state, REPRODUCIBILITY_VERIFIED, actor, action)
        /\ Governed(new)
        /\ AuditAppend(Event(REPRODUCIBILITY_VERIFIED, actor, action, timestamp, review),
                       new)
        /\ case' = new

(***************************************************************************)
(* The callers.  What they hand over is chosen freely from the documents   *)
(* of the constants: the audited payload and the updated field may differ, *)
(* and the updates may also touch a field recorded earlier.                *)
(***************************************************************************)
EventTimes == { LastEvent.timestamp + step : step \in TimeSteps }

DocumentTimes(timestamp) == { timestamp + offset : offset \in ClockOffsets }

\* Updates for target: the field that belongs to the payload, the field of
\* another document, or the right field together with a different review of
\* the methodology than the one on record.
Changes(target, field, others) ==
    { [ s \in {target} |-> other ] : other \in others \cup {field} }
    \cup { [ s \in {target, METHODOLOGY_REVIEWED} |->
                IF s = target THEN field
                ELSE Dated(body, case.doc[METHODOLOGY_REVIEWED].at) ] :
            body \in IF METHODOLOGY_REVIEWED \in DOMAIN case.doc
                      THEN MethodologyReviews ELSE {} }

\* The actor of the target's rule makes the call; the table refuses any other.
CallAdvance(target, timestamp, payload, others) ==
    LET rule == RuleByTarget(target)
    IN  \E action \in rule.actions :
        \E changes \in
            Changes(target, RecordedField(Event(target, rule.actor, action, timestamp, payload)),
                    others) :
            Advance(target, rule.actor, action, timestamp, payload, changes)

AdvanceWithDocument(target, bodies) ==
    \E timestamp \in EventTimes :
    \E at \in DocumentTimes(timestamp) :
    \E body \in bodies :
        CallAdvance(target, timestamp, Dated(body, at),
                    { Dated(other, at) : other \in bodies })

ProposeProtocol ==
    /\ case.state = CLAIM_RECEIVED
    /\ AdvanceWithDocument(RESEARCHER_PROTOCOL_PROPOSED, Protocols)

ReviewMethodology ==
    /\ case.state = RESEARCHER_PROTOCOL_PROPOSED
    /\ AdvanceWithDocument(METHODOLOGY_REVIEWED, MethodologyReviews)

\* The approver may name the hash of a proposal that is not the recorded one.
Approvals ==
    LET recorded == case.doc[RESEARCHER_PROTOCOL_PROPOSED]
    IN  { [ experiment |-> recorded.body.experiment, approved |-> approved,
            proposal |-> Dated(protocol, recorded.at) ] :
          approved \in BOOLEAN, protocol \in Protocols }

RecordApproval ==
    /\ case.state = METHODOLOGY_REVIEWED
    /\ AdvanceWithDocument(HUMAN_APPROVAL, Approvals)

\* lock_constitution: only an integral constitution object can be built.
Constitutions ==
    LET recorded == case.doc[RESEARCHER_PROTOCOL_PROPOSED]
    IN  { body \in
            { [ proposal |-> Dated(protocol, recorded.at), human_approval |-> approval ] :
              protocol \in Protocols,
              approval \in {case.doc[HUMAN_APPROVAL]} \cup
                           { Dated(other, case.doc[HUMAN_APPROVAL].at) : other \in Approvals } } :
          ConstitutionIntegral(body) }

LockConstitution ==
    /\ case.state = HUMAN_APPROVAL
    /\ AdvanceWithDocument(CONSTITUTION_LOCKED, Constitutions)

\* The snapshot may be bound to a constitution that was never locked here.
LoadEvidence ==
    /\ case.state = CONSTITUTION_LOCKED
    /\ \E timestamp \in EventTimes :
       \E at \in DocumentTimes(timestamp) :
       \E evidence \in EvidenceTables :
       \E constitution \in {case.doc[CONSTITUTION_LOCKED],
                            Dated(case.doc[CONSTITUTION_LOCKED].body, 0)} :
           CallAdvance(EXPERIMENT_EXECUTED, timestamp,
                       Dated([constitution |-> constitution, evidence |-> evidence], at),
                       { DOMAIN table : table \in EvidenceTables })

ReviewStatistics ==
    /\ case.state = EXPERIMENT_EXECUTED
    /\ AdvanceWithDocument(STATISTICS_REVIEWED, StatisticalReviews)

ReviewAdversarially ==
    /\ case.state = STATISTICS_REVIEWED
    /\ AdvanceWithDocument(ADVERSARIAL_REVIEWED, AdversarialReviews)

\* Entering the follow-up state updates no field of the case.
EnterFollowUp ==
    /\ case.state = ADVERSARIAL_REVIEWED
    /\ \E timestamp \in EventTimes, required \in BOOLEAN :
           Advance(OPTIONAL_FOLLOW_UP, "system", "enter_follow_up", timestamp,
                   Dated([follow_up_required |-> required], 0), <<>>)

ResolveFollowUp(disposition, action) ==
    /\ case.state = OPTIONAL_FOLLOW_UP
    /\ \E timestamp \in EventTimes, reasonGiven \in BOOLEAN :
       \E at \in DocumentTimes(timestamp) :
       \E review \in ReproducibilityReviews :
           RecordFollowUp(disposition, "reproducibility_reviewer", action, reasonGiven, timestamp,
               Dated([ disposition |-> disposition, status |-> review.status,
                       critical |-> review.critical,
                       noncritical |-> review.noncritical ], at))

SkipFollowUp     == ResolveFollowUp("skipped", "skip_follow_up")
CompleteFollowUp == ResolveFollowUp("completed", "complete_follow_up")

RecordedEvidence == events[EXPERIMENT_EXECUTED].payload.body.evidence

\* The inputs a caller submits: the governed ones, or with a gate misstated.
SubmittedInputs ==
    LET governed == GovernedInputs(case, RecordedEvidence)
    IN  { inputs \in
          { governed,
            [governed EXCEPT !.unresolved_critical_findings = FALSE],
            [governed EXCEPT !.unresolved_noncritical_limitations = FALSE],
            [governed EXCEPT !.evidence_validation_statuses = {"validated"}],
            [governed EXCEPT !.contradictory_evidence = {}],
            [governed EXCEPT !.robustness_status = "pass"],
            [governed EXCEPT !.reproducibility_status = "verified"] }
          \cup { [governed EXCEPT !.decisive_evidence = ids,
                                  !.contradictory_evidence = @ \cap ids] :
                 ids \in (SUBSET DOMAIN RecordedEvidence) \ {{}} } :
          inputs \in VerdictInputs }

ComputeVerdict ==
    /\ case.state = REPRODUCIBILITY_VERIFIED
    /\ \E timestamp \in EventTimes :
       \E at \in DocumentTimes(timestamp) :
       \E inputs \in SubmittedInputs :
       \E verdict \in {Compute(inputs), "SUPPORTED"} :
         LET eligibility == [Eligibility(inputs) EXCEPT !.verdict = verdict]
         IN  CallAdvance(VERDICT_ELIGIBILITY_COMPUTED, timestamp,
                 Dated([inputs |-> inputs, eligibility |-> eligibility], at),
                 { Dated([eligibility EXCEPT !.verdict = other], at) :
                   other \in {verdict, "SUPPORTED"} })

VerdictComputed == case.state >= VERDICT_ELIGIBILITY_COMPUTED

RecordedVerdict == case.doc[VERDICT_ELIGIBILITY_COMPUTED].body.verdict

ExplainVerdict ==
    /\ case.state = VERDICT_ELIGIBILITY_COMPUTED
    /\ AdvanceWithDocument(CHAIR_EXPLANATION,
           { [case.doc[VERDICT_ELIGIBILITY_COMPUTED].body EXCEPT !.verdict = verdict] :
             verdict \in {RecordedVerdict, "SUPPORTED"} })

\* AuditLog() has recorded the claim at its submission time, and the machine
\* was built over that history.
Init ==
    /\ events = << Event(CLAIM_RECEIVED, "system", "receive_claim", 1,
                         Dated([claim |-> TRUE], 1)) >>
    /\ case = ReplayCase(events)

Next ==
    \/ ProposeProtocol
    \/ ReviewMethodology
    \/ RecordApproval
    \/ LockConstitution
    \/ LoadEvidence
    \/ ReviewStatistics
    \/ ReviewAdversarially
    \/ EnterFollowUp
    \/ SkipFollowUp
    \/ CompleteFollowUp
    \/ ComputeVerdict
    \/ ExplainVerdict

Spec == Init /\ [][Next]_vars

\* A caller that keeps working on the case (the demo and the orchestrator do).
FairSpec == Spec /\ WF_vars(Next)

(***************************************************************************)
(* Properties.                                                             *)
(***************************************************************************)

\* The log and the case have their types: at most one event per workflow
\* state, and documents only for the stages passed.
TypeOK ==
    /\ Len(events) \in WorkflowStates
    /\ \A k \in 1..Len(events) :
         /\ events[k].workflow_state \in WorkflowStates
         /\ events[k].actor \in RoleNames
         /\ events[k].action \in Actions
         /\ events[k].timestamp \in Nat
    /\ case.state \in WorkflowStates
    /\ DOMAIN case.doc = Staged(case.state)

\* The machine's case is at all times the one its own log replays to, and the
\* log verifies: whatever payload and updates a caller hands to advance(),
\* StateMachine(case, log) could be rebuilt from the log.
CaseIsReplayOfLog ==
    /\ LogVerifies(events)
    /\ case = ReplayCase(events)

\* A recorded verdict is the policy's value on the documents the case holds
\* now, over the evidence recorded under it, even after later steps.
VerdictFollowsRecord ==
    VerdictComputed =>
        case.doc[VERDICT_ELIGIBILITY_COMPUTED].body
          = Eligibility(GovernedInputs(case, RecordedEvidence))

\* docs/VERDICT_POLICY.md:5-7 gives a case REJECTED when its methodology was
\* rejected, and INCONCLUSIVE when its methodology is to be revised or evidence
\* is invalid.  So does Compute, and it is never asked: such a case gets no
\* verdict at all (AuditLog._validate_policy_inputs, TribunalCase).  A recorded
\* REJECTED or INCONCLUSIVE has one of the other reasons of the policy, and it
\* is still on record.
UnsoundCaseGetsNoVerdict ==
    VerdictComputed =>
        /\ EveryReferenceValidated(RecordedEvidence)
        /\ case.doc[METHODOLOGY_REVIEWED].body.decision = "approved"
        /\ RecordedVerdict = "REJECTED" =>
             \/ UnresolvedFinding(case, "critical")
             \/ DirectionContradicted(GovernedInputs(case, RecordedEvidence))
        /\ RecordedVerdict = "INCONCLUSIVE" =>
             \/ case.doc[ADVERSARIAL_REVIEWED].body.robustness_status = "unresolved"
             \/ case.doc[REPRODUCIBILITY_VERIFIED].body.status # "verified"
             \/ EffectUnresolved(GovernedInputs(case, RecordedEvidence))

\* SUPPORTED means that nobody left anything open: no unresolved finding of
\* either severity in any of the four reviews, no contradicting evidence, and
\* a reproducibility review that verified the reconstruction.
SupportedLeavesNothingOpen ==
    (VerdictComputed /\ RecordedVerdict = "SUPPORTED") =>
        /\ ~UnresolvedFinding(case, "critical")
        /\ ~UnresolvedFinding(case, "noncritical")
        /\ \A id \in DOMAIN RecordedEvidence :
             RecordedEvidence[id].relationship # "contradicts"
        /\ case.doc[REPRODUCIBILITY_VERIFIED].body.status = "verified"

\* Evidence is recorded only under a constitution that embeds the recorded
\* proposal and a positive approval of exactly that proposal.
EvidenceUnderApprovedProtocol ==
    Len(events) >= EXPERIMENT_EXECUTED =>
        LET ledger   == events[EXPERIMENT_EXECUTED].payload.body
            approval == case.doc[HUMAN_APPROVAL].body
        IN  /\ ledger.constitution = case.doc[CONSTITUTION_LOCKED]
            /\ approval.approved
            /\ approval.proposal = case.doc[RESEARCHER_PROTOCOL_PROPOSED]
            /\ ledger.constitution.body.proposal = approval.proposal

\* The Chair's explanation repeats the verdict and both evidence sets that
\* the policy yields for the record.
ChairRepeatsPolicy ==
    case.state = CHAIR_EXPLANATION =>
        case.doc[CHAIR_EXPLANATION].body
          = Eligibility(GovernedInputs(case, RecordedEvidence))

\* No document postdates the event that recorded it or predates a document
\* of an earlier stage, so the record can be put on one time line.
RecordIsOnOneTimeLine ==
    \A s, t \in Timed(case.state) :
        /\ case.doc[s].at <= events[s].timestamp
        /\ s < t => /\ events[s].timestamp < events[t].timestamp
                    /\ case.doc[s].at <= case.doc[t].at

\* The inductive invariant of the proofs: the log is a sequence, its k-th
\* event leads to the k-th state, it verifies, and the case is its replay.
ChainInvariant ==
    /\ events \in Seq({events[k] : k \in DOMAIN events})
    /\ Len(events) >= 1
    /\ \A k \in 1..Len(events) : events[k].workflow_state = k
    /\ CaseIsReplayOfLog

\* A case can only get stuck for a reason that is on its record: a review
\* that did not approve the methodology, an approval that names another
\* proposal, or evidence that is not validated.
Finalized == case.state = CHAIR_EXPLANATION

Wedged ==
    \/ /\ case.state = METHODOLOGY_REVIEWED
       /\ case.doc[METHODOLOGY_REVIEWED].body.decision # "approved"
    \/ /\ case.state = HUMAN_APPROVAL
       /\ case.doc[HUMAN_APPROVAL].body.proposal # case.doc[RESEARCHER_PROTOCOL_PROPOSED]
    \/ /\ case.state = REPRODUCIBILITY_VERIFIED
       /\ ~EveryReferenceValidated(RecordedEvidence)

\* Under a caller that keeps working, every case is finalized or stops in one
\* of those three situations.
FinalizedOrWedged == <>(Finalized \/ Wedged)

=============================================================================
