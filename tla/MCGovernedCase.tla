--------------------------- MODULE MCGovernedCase ---------------------------
(***************************************************************************)
(* Small document sets for TLC.  The MC sets have a document for every     *)
(* branch of the policy and every binding check; the Clock sets have the   *)
(* plain document of each kind, over which the clocks of documents and     *)
(* events drift apart.                                                     *)
(***************************************************************************)
EXTENDS GovernedCase

CONSTANTS x1, x2, e1, e2

Protocol(experiment, own, direction) ==
    [experiment |-> experiment, own_claim |-> own, expected_direction |-> direction]

Methodology(experiment, decision, critical, noncritical) ==
    [experiment |-> experiment, decision |-> decision,
     critical |-> critical, noncritical |-> noncritical]

Item(status, relationship) ==
    [validation_status |-> status, relationship |-> relationship]

Statistics(direction, inference, critical, noncritical) ==
    [effect_direction |-> direction, corrected_inference |-> inference,
     practical_significance |-> TRUE, critical |-> critical, noncritical |-> noncritical]

Adversarial(robustness, cost, parameter, noncritical) ==
    [robustness_status |-> robustness, cost_sensitivity |-> cost,
     parameter_stability |-> parameter, regime_stability |-> "stable",
     concentration_risk |-> "low", critical |-> FALSE, noncritical |-> noncritical]

Reproducibility(status, critical) ==
    [status |-> status, critical |-> critical, noncritical |-> FALSE]

MCProtocols ==
    { Protocol(x1, TRUE, "positive"), Protocol(x1, TRUE, "two_sided"),
      Protocol(x2, FALSE, "positive") }

MCMethodologyReviews ==
    { Methodology(x1, "approved", FALSE, FALSE), Methodology(x1, "approved", FALSE, TRUE),
      Methodology(x1, "rejected", TRUE, FALSE), Methodology(x1, "revision_requested", FALSE, FALSE),
      Methodology(x2, "approved", FALSE, FALSE) }

MCEvidenceTables ==
    { [id \in {} |-> Item("validated", "supports")],
      [id \in {e1} |-> Item("validated", "supports")],
      [id \in {e1, e2} |-> Item("validated", IF id = e1 THEN "supports" ELSE "contradicts")],
      [id \in {e1, e2} |-> Item(IF id = e1 THEN "validated" ELSE "failed", "qualifies")] }

MCStatisticalReviews ==
    { Statistics("positive", "pass", FALSE, FALSE), Statistics("negative", "pass", FALSE, TRUE) }

MCAdversarialReviews ==
    { Adversarial("pass", "low", "stable", FALSE), Adversarial("fail", "high", "stable", FALSE),
      Adversarial("unresolved", "moderate", "mixed", TRUE) }

MCReproducibilityReviews ==
    { Reproducibility("verified", FALSE), Reproducibility("partial", FALSE),
      Reproducibility("verified", TRUE) }

ClockProtocols == { Protocol(x1, TRUE, "positive") }
ClockMethodologyReviews == { Methodology(x1, "approved", FALSE, FALSE) }
ClockEvidenceTables == { [id \in {e1} |-> Item("validated", "supports")] }
ClockStatisticalReviews == { Statistics("positive", "pass", FALSE, FALSE) }
ClockAdversarialReviews == { Adversarial("pass", "low", "stable", FALSE) }
MCClockOffsets == {0}
DriftingOffsets == {-2, 0, 1}

\* Bound: clocks drift in cases whose documents are the plain ones, all else
\* varies in cases whose clocks agree; the checks of times and of contents do
\* not read each other's fields.
ClocksAgree == \A s \in Timed(case.state) : case.doc[s].at = events[s].timestamp

HasOnly(state, bodies) == state \in DOMAIN case.doc => case.doc[state].body \in bodies

PlainDocuments ==
    /\ HasOnly(RESEARCHER_PROTOCOL_PROPOSED, ClockProtocols)
    /\ HasOnly(METHODOLOGY_REVIEWED, ClockMethodologyReviews)
    /\ case.state >= EXPERIMENT_EXECUTED =>
         events[EXPERIMENT_EXECUTED].payload.body.evidence \in ClockEvidenceTables
    /\ HasOnly(STATISTICS_REVIEWED, ClockStatisticalReviews)
    /\ HasOnly(ADVERSARIAL_REVIEWED, ClockAdversarialReviews)

DriftOnlyWhenPlain == ClocksAgree \/ PlainDocuments
=============================================================================
