---------------------------- MODULE WorkflowRules ----------------------------
(***************************************************************************)
(* The single table of workflow order, actors and audited actions          *)
(* (workflow/rules.py).  Live transitions (StateMachine), audit replay     *)
(* (AuditLog) and the durable store all read this table.                   *)
(*                                                                         *)
(* A workflow state is represented by its position in the WorkflowState    *)
(* enumeration, counted from 1.  The code itself compares those positions  *)
(* (TribunalCase.governed_visibility), and because the table is one chain  *)
(* the position of a state is also the number of audit events that lead to *)
(* it.                                                                     *)
(***************************************************************************)
EXTENDS Naturals

CLAIM_RECEIVED               == 1
RESEARCHER_PROTOCOL_PROPOSED == 2
METHODOLOGY_REVIEWED         == 3
HUMAN_APPROVAL               == 4
CONSTITUTION_LOCKED          == 5
EXPERIMENT_EXECUTED          == 6
STATISTICS_REVIEWED          == 7
ADVERSARIAL_REVIEWED         == 8
OPTIONAL_FOLLOW_UP           == 9
REPRODUCIBILITY_VERIFIED     == 10
VERDICT_ELIGIBILITY_COMPUTED == 11
CHAIR_EXPLANATION            == 12

WorkflowStates == CLAIM_RECEIVED..CHAIR_EXPLANATION

\* The source of the rule that receives the claim (None in the code).
NoState == 0

RoleNames == {"system", "researcher", "methodology_auditor", "human_approver",
              "statistical_reviewer", "adversarial_reviewer",
              "reproducibility_reviewer", "tribunal_chair"}

TransitionRule(source, target, actor, actions) ==
    [source |-> source, target |-> target, actor |-> actor, actions |-> actions]

RULES ==
  { TransitionRule(NoState, CLAIM_RECEIVED, "system", {"receive_claim"}),
    TransitionRule(CLAIM_RECEIVED, RESEARCHER_PROTOCOL_PROPOSED,
                   "researcher", {"propose_protocol"}),
    TransitionRule(RESEARCHER_PROTOCOL_PROPOSED, METHODOLOGY_REVIEWED,
                   "methodology_auditor", {"review_methodology"}),
    TransitionRule(METHODOLOGY_REVIEWED, HUMAN_APPROVAL,
                   "human_approver", {"record_approval"}),
    TransitionRule(HUMAN_APPROVAL, CONSTITUTION_LOCKED,
                   "system", {"lock_constitution"}),
    TransitionRule(CONSTITUTION_LOCKED, EXPERIMENT_EXECUTED,
                   "system", {"admit_engine_evidence", "load_mock_evidence"}),
    TransitionRule(EXPERIMENT_EXECUTED, STATISTICS_REVIEWED,
                   "statistical_reviewer", {"review_statistics"}),
    TransitionRule(STATISTICS_REVIEWED, ADVERSARIAL_REVIEWED,
                   "adversarial_reviewer", {"review_adversarially"}),
    TransitionRule(ADVERSARIAL_REVIEWED, OPTIONAL_FOLLOW_UP,
                   "system", {"enter_follow_up"}),
    TransitionRule(OPTIONAL_FOLLOW_UP, REPRODUCIBILITY_VERIFIED,
                   "reproducibility_reviewer", {"skip_follow_up", "complete_follow_up"}),
    TransitionRule(REPRODUCIBILITY_VERIFIED, VERDICT_ELIGIBILITY_COMPUTED,
                   "system", {"compute_verdict"}),
    TransitionRule(VERDICT_ELIGIBILITY_COMPUTED, CHAIR_EXPLANATION,
                   "tribunal_chair", {"explain_verdict"}) }

Actions == UNION {rule.actions : rule \in RULES}

\* RULE_BY_TARGET: every state is the target of exactly one rule.
RuleByTarget(target) == CHOOSE rule \in RULES : rule.target = target

\* NEXT_STATE: the successor of a state; the last state has none.
HasNextState(state) == \E rule \in RULES : rule.source = state
NextState(state)    == (CHOOSE rule \in RULES : rule.source = state).target

\* require_transition_authority returns without raising.
TransitionAuthorized(source, target, actor, action) ==
    \E rule \in RULES :
        /\ rule.source = source
        /\ rule.target = target
        /\ rule.actor  = actor
        /\ action \in rule.actions
=============================================================================
