----------------------------- MODULE PolicyGates -----------------------------
(***************************************************************************)
(* The verdict policy explored gate by gate: start from inputs on which    *)
(* every gate is at its best and let gates fail, one at a time and in any  *)
(* order and combination.  The order of the branches in compute() decides  *)
(* what a combination of failures yields; this module states what must     *)
(* hold whichever order is chosen.                                         *)
(***************************************************************************)
EXTENDS VerdictPolicy, Naturals

CONSTANT MaxFailures       \* bound of the exploration: gates failed at most

ASSUME MaxFailuresAssumption == MaxFailures \in Nat

VARIABLES inputs,          \* the VerdictInputs under consideration
          failures         \* how many gates have been made to fail

gatesVars == <<inputs, failures>>

\* The effect that agrees with the locked hypothesis.
EffectAgrees(expected, effect) ==
    \/ expected = "two_sided" /\ effect \in {"positive", "negative"}
    \/ expected = effect

\* Every gate of every kind at its best (docs/VERDICT_POLICY.md: "all strict
\* gates, with no contradictions or unresolved limitations").
Strict(i) ==
    /\ i.methodology_status = "approved"
    /\ i.primary_experiment_complete
    /\ i.evidence_validation_statuses = {"validated"}
    /\ i.corrected_inference = "pass"
    /\ EffectAgrees(i.expected_direction, i.effect_direction)
    /\ i.practical_significance
    /\ i.robustness_status = "pass"
    /\ i.cost_sensitivity = "low"
    /\ i.parameter_stability = "stable"
    /\ i.regime_stability = "stable"
    /\ i.concentration_risk = "low"
    /\ i.reproducibility_status = "verified"
    /\ ~i.unresolved_critical_findings
    /\ i.contradictory_evidence = {}
    /\ ~i.unresolved_noncritical_limitations

\* Every gate at its best, for an expected and an observed direction.
AtBest(expected, effect) ==
    [ methodology_status           |-> "approved",
      primary_experiment_complete  |-> TRUE,
      evidence_validation_statuses |-> {"validated"},
      corrected_inference          |-> "pass",
      expected_direction           |-> expected,
      effect_direction             |-> effect,
      practical_significance       |-> TRUE,
      robustness_status            |-> "pass",
      cost_sensitivity             |-> "low",
      parameter_stability          |-> "stable",
      regime_stability             |-> "stable",
      concentration_risk           |-> "low",
      reproducibility_status       |-> "verified",
      unresolved_critical_findings |-> FALSE,
      decisive_evidence            |-> EvidenceIds,
      contradictory_evidence       |-> {},
      unresolved_noncritical_limitations |-> FALSE ]

StrictInputs ==
    { AtBest(expected, effect) :
        expected \in ExpectedDirections, effect \in {"positive", "negative"} }

GatesInit ==
    /\ inputs \in { i \in StrictInputs :
                      EffectAgrees(i.expected_direction, i.effect_direction) }
    /\ failures = 0

MethodologyFails ==
    /\ inputs.methodology_status = "approved"
    /\ \E decision \in {"revision_requested", "rejected"} :
         inputs' = [inputs EXCEPT !.methodology_status = decision]

ExperimentIncomplete ==
    /\ inputs.primary_experiment_complete
    /\ inputs' = [inputs EXCEPT !.primary_experiment_complete = FALSE]

EvidenceInvalid ==
    /\ inputs.evidence_validation_statuses = {"validated"}
    /\ \E statuses \in (SUBSET ValidationStatuses) \ {{}, {"validated"}} :
         inputs' = [inputs EXCEPT !.evidence_validation_statuses = statuses]

InferenceFails ==
    /\ inputs.corrected_inference = "pass"
    /\ \E inference \in {"fail", "unresolved"} :
         inputs' = [inputs EXCEPT !.corrected_inference = inference]

EffectDisagrees ==
    /\ EffectAgrees(inputs.expected_direction, inputs.effect_direction)
    /\ \E effect \in EffectDirections :
         /\ ~EffectAgrees(inputs.expected_direction, effect)
         /\ inputs' = [inputs EXCEPT !.effect_direction = effect]

SignificanceMissing ==
    /\ inputs.practical_significance
    /\ inputs' = [inputs EXCEPT !.practical_significance = FALSE]

RobustnessFails ==
    /\ inputs.robustness_status = "pass"
    /\ \E status \in {"fail", "unresolved"} :
         inputs' = [inputs EXCEPT !.robustness_status = status]

CostSensitive ==
    \E rise \in {<<"low", "moderate">>, <<"low", "high">>, <<"moderate", "high">>} :
        /\ inputs.cost_sensitivity = rise[1]
        /\ inputs' = [inputs EXCEPT !.cost_sensitivity = rise[2]]

ParametersUnstable ==
    \E drop \in {<<"stable", "mixed">>, <<"stable", "unstable">>, <<"mixed", "unstable">>} :
        /\ inputs.parameter_stability = drop[1]
        /\ inputs' = [inputs EXCEPT !.parameter_stability = drop[2]]

RegimesUnstable ==
    \E drop \in {<<"stable", "mixed">>, <<"stable", "unstable">>, <<"mixed", "unstable">>} :
        /\ inputs.regime_stability = drop[1]
        /\ inputs' = [inputs EXCEPT !.regime_stability = drop[2]]

Concentrated ==
    \E rise \in {<<"low", "moderate">>, <<"low", "high">>, <<"moderate", "high">>} :
        /\ inputs.concentration_risk = rise[1]
        /\ inputs' = [inputs EXCEPT !.concentration_risk = rise[2]]

ReproductionFails ==
    /\ inputs.reproducibility_status = "verified"
    /\ \E status \in {"partial", "failed"} :
         inputs' = [inputs EXCEPT !.reproducibility_status = status]

CriticalFinding ==
    /\ ~inputs.unresolved_critical_findings
    /\ inputs' = [inputs EXCEPT !.unresolved_critical_findings = TRUE]

ContradictionFound ==
    \E id \in inputs.decisive_evidence \ inputs.contradictory_evidence :
        inputs' = [inputs EXCEPT !.contradictory_evidence = @ \cup {id}]

LimitationFound ==
    /\ ~inputs.unresolved_noncritical_limitations
    /\ inputs' = [inputs EXCEPT !.unresolved_noncritical_limitations = TRUE]

GateFails ==
    \/ MethodologyFails \/ ExperimentIncomplete \/ EvidenceInvalid
    \/ InferenceFails \/ EffectDisagrees \/ SignificanceMissing
    \/ RobustnessFails \/ CostSensitive \/ ParametersUnstable
    \/ RegimesUnstable \/ Concentrated \/ ReproductionFails
    \/ CriticalFinding \/ ContradictionFound \/ LimitationFound

GatesNext ==
    /\ failures < MaxFailures
    /\ GateFails
    /\ failures' = failures + 1

GatesSpec == GatesInit /\ [][GatesNext]_gatesVars

-----------------------------------------------------------------------------

\* How far a verdict supports the claim.  INCONCLUSIVE and REJECTED do not;
\* which of the two a claim gets depends on the order of the branches.
Support(verdict) ==
    CASE verdict = "SUPPORTED"               -> 3
      [] verdict = "PROVISIONALLY_SUPPORTED" -> 2
      [] verdict = "FRAGILE"                 -> 1
      [] OTHER                               -> 0

GatesTypeOK == inputs \in VerdictInputs /\ failures \in 0..MaxFailures

\* The branches of compute leave SUPPORTED to exactly the strict inputs: the
\* last branch tests only some of the gates, the earlier ones must have
\* caught the rest.
SupportedExactlyWhenStrict ==
    Compute(inputs) = "SUPPORTED" <=> Strict(inputs)

\* A gate that fails can never make the verdict more supportive, whatever has
\* failed before: no failure masks another one.
FailingGateNeverSupports ==
    [][Support(Compute(inputs')) <= Support(Compute(inputs))]_gatesVars

\* Contradicting evidence, once found, caps the verdict at FRAGILE for good.
ContradictionCaps ==
    inputs.contradictory_evidence # {} => Support(Compute(inputs)) <= 1
=============================================================================
