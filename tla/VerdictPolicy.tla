---------------------------- MODULE VerdictPolicy ----------------------------
(***************************************************************************)
(* The verdict policy, version 1.0 (verdict/policy.py): a pure function    *)
(* from typed gate values to one of five verdicts.  Evidence is referred   *)
(* to by identifier; reasons, timestamps and provider hashes do not        *)
(* influence the verdict and are left out.                                 *)
(***************************************************************************)
CONSTANT EvidenceIds       \* identifiers of evidence objects

ASSUME SomeEvidence == EvidenceIds # {}

ReviewDecisions         == {"approved", "revision_requested", "rejected"}
ValidationStatuses      == {"validated", "failed", "pending"}
CorrectedInferences     == {"pass", "fail", "unresolved"}
ExpectedDirections      == {"positive", "negative", "two_sided"}
EffectDirections        == {"positive", "negative", "null", "mixed"}
GateStatuses            == {"pass", "fail", "unresolved"}
Sensitivities           == {"low", "moderate", "high"}
Stabilities             == {"stable", "mixed", "unstable"}
ReproducibilityStatuses == {"verified", "partial", "failed"}

Verdicts == {"SUPPORTED", "PROVISIONALLY_SUPPORTED", "INCONCLUSIVE",
             "FRAGILE", "REJECTED"}

\* The fields of VerdictInputs; evidence_validation_statuses is kept as the set
\* of the statuses that occur in the ledger (the policy asks only whether one
\* of them is not "validated").
VerdictInputFields ==
  [ methodology_status              : ReviewDecisions,
    primary_experiment_complete     : BOOLEAN,
    evidence_validation_statuses    : (SUBSET ValidationStatuses) \ {{}},
    corrected_inference             : CorrectedInferences,
    expected_direction              : ExpectedDirections,
    effect_direction                : EffectDirections,
    practical_significance          : BOOLEAN,
    robustness_status               : GateStatuses,
    cost_sensitivity                : Sensitivities,
    parameter_stability             : Stabilities,
    regime_stability                : Stabilities,
    concentration_risk              : Sensitivities,
    reproducibility_status          : ReproducibilityStatuses,
    unresolved_critical_findings    : BOOLEAN,
    decisive_evidence               : (SUBSET EvidenceIds) \ {{}},
    contradictory_evidence          : SUBSET EvidenceIds,
    unresolved_noncritical_limitations : BOOLEAN ]

\* VerdictInputs as its validators admit it.
VerdictInputs ==
    { inputs \in VerdictInputFields :
        inputs.contradictory_evidence \subseteq inputs.decisive_evidence }

MethodologyRejected(inputs) ==
    \/ inputs.methodology_status = "rejected"
    \/ inputs.unresolved_critical_findings

IntegrityIncomplete(inputs) ==
    \/ inputs.methodology_status = "revision_requested"
    \/ ~inputs.primary_experiment_complete
    \/ inputs.evidence_validation_statuses # {"validated"}
    \/ inputs.robustness_status = "unresolved"
    \/ inputs.reproducibility_status # "verified"

EffectUnresolved(inputs) ==
    \/ inputs.corrected_inference # "pass"
    \/ ~inputs.practical_significance
    \/ inputs.effect_direction \in {"null", "mixed"}

DirectionContradicted(inputs) ==
    \/ inputs.expected_direction = "positive" /\ inputs.effect_direction = "negative"
    \/ inputs.expected_direction = "negative" /\ inputs.effect_direction = "positive"

MaterialGateFailed(inputs) ==
    \/ inputs.robustness_status = "fail"
    \/ inputs.cost_sensitivity = "high"
    \/ inputs.parameter_stability = "unstable"
    \/ inputs.regime_stability = "unstable"
    \/ inputs.concentration_risk = "high"
    \/ inputs.contradictory_evidence # {}

\* Mutant: open noncritical limitations do not stand in the way.
EveryStrictGatePasses_LimitationsIgnored(inputs) ==
    /\ inputs.methodology_status = "approved"
    /\ inputs.robustness_status = "pass"
    /\ inputs.cost_sensitivity = "low"
    /\ inputs.parameter_stability = "stable"
    /\ inputs.regime_stability = "stable"
    /\ inputs.concentration_risk = "low"
    /\ inputs.contradictory_evidence = {}

EveryStrictGatePasses(inputs) ==
    /\ inputs.methodology_status = "approved"
    /\ inputs.robustness_status = "pass"
    /\ inputs.cost_sensitivity = "low"
    /\ inputs.parameter_stability = "stable"
    /\ inputs.regime_stability = "stable"
    /\ inputs.concentration_risk = "low"
    /\ inputs.contradictory_evidence = {}
    /\ ~inputs.unresolved_noncritical_limitations

\* Mutant: the branch for fragile claims comes before the one for an
\* unresolved effect.
Compute_FragileFirst(inputs) ==
    IF      MethodologyRejected(inputs)   THEN "REJECTED"
    ELSE IF IntegrityIncomplete(inputs)   THEN "INCONCLUSIVE"
    ELSE IF MaterialGateFailed(inputs)    THEN "FRAGILE"
    ELSE IF EffectUnresolved(inputs)      THEN "INCONCLUSIVE"
    ELSE IF DirectionContradicted(inputs) THEN "REJECTED"
    ELSE IF EveryStrictGatePasses(inputs) THEN "SUPPORTED"
    ELSE "PROVISIONALLY_SUPPORTED"

\* VerdictPolicy.compute: the first condition that holds decides.
Compute(inputs) ==
    IF      MethodologyRejected(inputs)   THEN "REJECTED"
    ELSE IF IntegrityIncomplete(inputs)   THEN "INCONCLUSIVE"
    ELSE IF EffectUnresolved(inputs)      THEN "INCONCLUSIVE"
    ELSE IF DirectionContradicted(inputs) THEN "REJECTED"
    ELSE IF MaterialGateFailed(inputs)    THEN "FRAGILE"
    ELSE IF EveryStrictGatePasses(inputs) THEN "SUPPORTED"
    ELSE "PROVISIONALLY_SUPPORTED"

\* The VerdictEligibility that compute returns for these inputs.
Eligibility(inputs) ==
    [ verdict                |-> Compute(inputs),
      decisive_evidence      |-> inputs.decisive_evidence,
      contradictory_evidence |-> inputs.contradictory_evidence ]
=============================================================================
