------------------------- MODULE MCProviderTransport -------------------------
(***************************************************************************)
(* A small instance: every exception, and responses with at most two       *)
(* defects, which is enough for every pair of checks to meet; every        *)
(* argument of a call and every kind of output on a clean response.        *)
(* Whole groups of attempts, with a clock that may be set back, are        *)
(* explored for one call; the other calls get one attempt.                 *)
(***************************************************************************)
EXTENDS ProviderTransport

e1 == "e1"
e2 == "e2"
f1 == "f1"
f2 == "f2"

Evidence == {e1, e2}
Facts == {f1, f2}

Ref(id, facts) == [evidence_id |-> id, numeric_fact_ids |-> facts]
Summary(id, facts) == [evidence_id |-> id, numeric_fact_ids |-> facts, bound |-> TRUE]

(***************************************************************************)
(* Outputs.                                                                *)
(***************************************************************************)
PlainOutput ==
    [ bound |-> TRUE, claimsAuthority |-> FALSE, findings |-> {}, challenges |-> {},
      verified |-> FALSE, computed_verdict |-> "rejected",
      decisive_evidence |-> {}, contradictory_evidence |-> {} ]

Refs == { Ref(e1, {f1}), Ref(e1, {f2}), Ref(e2, {}), Ref(e2, {f2}) }

FindingsOutputs ==
    { [PlainOutput EXCEPT !.findings = findings] :
        findings \in { {}, {{}}, {Refs} } \cup { {{r}} : r \in Refs } \cup { {{}, {r}} : r \in Refs } }

ChallengeOutputs ==
    { [PlainOutput EXCEPT !.findings = findings,
         !.challenges = {[failed |-> failed, references |-> refs]}] :
        findings \in { {}, {{Ref(e2, {f2})}} }, failed \in BOOLEAN,
        refs \in { {}, {Ref(e1, {f1})}, {Ref(e2, {f2})} } }

VerifiedOutput == [PlainOutput EXCEPT !.verified = TRUE]

DecisiveSets == { {Ref(e1, {})}, {Ref(e1, {}), Ref(e2, {f2})} }

ChairOutputs ==
    { [PlainOutput EXCEPT !.computed_verdict = verdict, !.decisive_evidence = decisive,
                          !.contradictory_evidence = contradictory] :
        verdict \in Verdicts, decisive \in DecisiveSets,
        contradictory \in { {}, {Ref(e1, {f1})} } }

\* What the provider of each action may say.
OutputsOf(action) ==
    { [PlainOutput EXCEPT !.bound = FALSE], [PlainOutput EXCEPT !.claimsAuthority = TRUE] } \cup
    CASE action = "propose_protocol" -> {PlainOutput}
      [] action \in {"review_methodology", "review_statistics"} -> FindingsOutputs
      [] action = "request_challenge" -> ChallengeOutputs
      [] action = "review_reproducibility" -> {VerifiedOutput} \cup FindingsOutputs
      [] action = "explain_verdict" -> ChairOutputs

(***************************************************************************)
(* Replies.                                                                *)
(***************************************************************************)
CleanReply ==
    [ error |-> Returned, incomplete |-> FALSE, refusal |-> FALSE, stopped |-> FALSE,
      sideEffect |-> FALSE, text |-> "valid", sdkAgrees |-> TRUE,
      requestedModel |-> TRUE, provenance |-> "complete", output |-> PlainOutput ]

Exceptions == { [CleanReply EXCEPT !.error = class] : class \in DOMAIN ErrorAncestors }

Defects == [ incomplete : BOOLEAN, refusal : BOOLEAN, stopped : BOOLEAN,
             sideEffect : BOOLEAN, text : {"valid", "malformed", "foreign schema"},
             sdkAgrees : BOOLEAN, requestedModel : BOOLEAN,
             provenance : {"complete", "attempt", "none"} ]

DefectiveReplies ==
    { reply \in { [ field \in DOMAIN CleanReply |->
                      IF field \in DOMAIN defects THEN defects[field] ELSE CleanReply[field] ] :
                    defects \in Defects } :
        Cardinality({ field \in DOMAIN reply : reply[field] # CleanReply[field] }) <= 2 }

CleanReplies ==
    { [CleanReply EXCEPT !.output = output] :
        output \in UNION { OutputsOf(action) : action \in RoleActions } }

SomeReplies == Exceptions \cup DefectiveReplies \cup CleanReplies

\* The clock is set back or goes on.
BackAndForth == {-1, 1}

(***************************************************************************)
(* Calls.                                                                  *)
(***************************************************************************)
\* The verdict rests on all evidence of the case, as the audit log demands; what
\* contradicts it may cite a fact that it does not rest on.
CaseAt(state, contradictory) ==
    [ state |-> state,
      evidence_ids |-> IF state >= EXPERIMENT_EXECUTED THEN Evidence ELSE {},
      verdict |-> "rejected",
      decisive_evidence |-> {Ref(e1, {}), Ref(e2, {f2})},
      contradictory_evidence |-> contradictory, last_event_at |-> 1 ]

SummaryLists ==
    { <<>>, <<Summary(e1, {f1})>>, <<Summary(e1, {f1}), Summary(e2, {f2})>>,
      <<Summary(e1, {}), Summary(e2, {f2})>>,
      <<Summary(e1, {f1}), Summary(e2, {f1})>>, <<Summary(e1, {f1}), Summary(e1, {f2})>>,
      <<[Summary(e2, {f2}) EXCEPT !.bound = FALSE]>> }

Call(action, state, summaries, verified, effective_at) ==
    [ case |-> CaseAt(state, IF verified THEN {} ELSE {Ref(e1, {f1})}), action |-> action,
      evidence_summaries |-> summaries,
      code_owned_reproducibility_verified |-> verified, effective_at |-> effective_at ]

OwnState(action) == RoleContracts[action].expected_state

\* A call that carries all there is, and the rest.
FullCall(action) ==
    Call(action, OwnState(action),
         IF OwnState(action) >= EXPERIMENT_EXECUTED
         THEN <<Summary(e1, {f1}), Summary(e2, {f2})>> ELSE <<>>, TRUE, 2)

SomeCalls ==
    { FullCall(action) : action \in RoleActions } \cup
    { Call(action, state, summaries, verified, at) :
        action \in RoleActions,
        state \in { CLAIM_RECEIVED, EXPERIMENT_EXECUTED, VERDICT_ELIGIBILITY_COMPUTED }
                    \cup { OwnState(a) : a \in RoleActions },
        summaries \in SummaryLists, verified \in BOOLEAN, at \in {1, 2} }

\* Only one call of the Chair is followed through every group of attempts, the
\* others through the first attempt.
GroupsExplored ==
    call # FullCall("explain_verdict") =>
        Len(replies) <= 1 /\ \A k \in 1..Len(readings) - 1 : readings[k] < readings[k + 1]
=============================================================================
