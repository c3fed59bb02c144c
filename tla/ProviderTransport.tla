-------------------------- MODULE ProviderTransport --------------------------
(***************************************************************************)
(* One provider group: OpenAIStructuredRoleProvider.invoke                 *)
(* (providers/openai.py), which asks, classifies and retries, and what     *)
(* TribunalOrchestrator.invoke_and_advance (roles/orchestrator.py) makes   *)
(* of its outcome: one record to store, or nothing.  The request that is   *)
(* asked and what counts as an acceptable output are RoleValidation's.     *)
(* Orchestrator models what happens to the record; there this whole module *)
(* is one step, ProviderAnswers or ProviderFails.                          *)
(*                                                                         *)
(* The observations of a group carry readings of the wall clock, and the   *)
(* validators of the documents compare them.  The wall clock may be set    *)
(* back while a request is under way.                                      *)
(*                                                                         *)
(* Abstractions.  A reply is the defects it has and its output.  Of its    *)
(* identifier and model name it is kept which documents they fit; usage,   *)
(* rate-limit headers and request ids are cut to their limits by the code  *)
(* and left out, and so are latency and the delay between attempts.        *)
(***************************************************************************)
EXTENDS RoleValidation, Integers, SequencesExt

CONSTANTS
    Calls,            \* arguments of a call, with the case as it is read
    MaximumRetries,   \* OpenAIProviderConfig.maximum_retries
    Replies,          \* what a request may be answered with
    ClockSteps        \* how the wall clock may move between two readings

\* The exceptions of the openai package, each with its ancestors.
ErrorAncestors ==
    [ AuthenticationError        |-> {"AuthenticationError", "APIStatusError"},
      PermissionDeniedError      |-> {"PermissionDeniedError", "APIStatusError"},
      RateLimitError             |-> {"RateLimitError", "APIStatusError"},
      BadRequestError            |-> {"BadRequestError", "APIStatusError"},
      UnprocessableEntityError   |-> {"UnprocessableEntityError", "APIStatusError"},
      InternalServerError        |-> {"InternalServerError", "APIStatusError"},
      NotFoundError              |-> {"NotFoundError", "APIStatusError"},
      APIConnectionError         |-> {"APIConnectionError"},
      APITimeoutError            |-> {"APITimeoutError", "APIConnectionError"},
      APIResponseValidationError |-> {"APIResponseValidationError"},
      LengthFinishReasonError    |-> {"LengthFinishReasonError"},
      ContentFilterFinishReasonError |-> {"ContentFilterFinishReasonError"},
      Exception                  |-> {"Exception"} ]

\* No exception was raised.
Returned == "returned"

\* A reply is an exception, or a response with its defects.
ReplyType ==
    [ error : DOMAIN ErrorAncestors \cup {Returned},
      incomplete : BOOLEAN,              \* status incomplete, or incomplete_details
      refusal : BOOLEAN,                 \* some content item is a refusal
      stopped : BOOLEAN,                 \* status is neither None nor completed
      sideEffect : BOOLEAN,              \* an output item that is no message or reasoning
      text : {"valid", "malformed", "foreign schema"},
      sdkAgrees : BOOLEAN,               \* the SDK parsed the same object
      requestedModel : BOOLEAN,          \* response.model is the configured model
      provenance : {"complete", "attempt", "none"},   \* see FieldsFit
      output : OutputType ]

\* The delays between attempts are a table of two entries.
ASSUME TransportConstants ==
    /\ MaximumRetries \in 0..2
    /\ Calls \subseteq CallType
    /\ \A c \in Calls : c.action \in RoleActions
    /\ Replies \subseteq ReplyType
    /\ ClockSteps \subseteq Int

Outcomes ==
    { "accepted", "transport_failure", "authentication_failure", "rate_limited",
      "timeout", "provider_refusal", "safety_refusal", "truncated",
      "malformed_structured_output", "schema_validation_failure",
      "semantic_policy_failure", "unsupported_model_capability" }

VARIABLES
    call,       \* the arguments of this call of invoke_and_advance
    pc,         \* where the call stands
    readings,   \* the wall clock as it was read, first to last
    replies,    \* every reply so far, whatever became of its observation
    attempts,   \* invoke: the observations of this group
    outcome,    \* how invoke ended
    record      \* the ProviderInvocationRecord that was built

vars == <<call, pc, readings, replies, attempts, outcome, record>>

(***************************************************************************)
(* Classification.                                                         *)
(***************************************************************************)
Branch(classes, result, retryable) ==
    [classes |-> classes, result |-> result, retryable |-> retryable]

\* _classify, branch by branch.  APIStatusError is retryable when the server
\* is at fault.
Branches ==
    << Branch({"AuthenticationError", "PermissionDeniedError"}, "authentication_failure", FALSE),
       Branch({"RateLimitError"}, "rate_limited", TRUE),
       Branch({"APITimeoutError"}, "timeout", TRUE),
       Branch({"LengthFinishReasonError", "_TruncatedResponse"}, "truncated", FALSE),
       Branch({"ContentFilterFinishReasonError", "_SafetyRefusal"}, "safety_refusal", FALSE),
       Branch({"_ProviderRefusal"}, "provider_refusal", FALSE),
       Branch({"_MalformedStructuredOutput"}, "malformed_structured_output", FALSE),
       Branch({"APIResponseValidationError", "_SchemaValidationFailure"},
              "schema_validation_failure", FALSE),
       Branch({"_SemanticPolicyFailure"}, "semantic_policy_failure", FALSE),
       Branch({"BadRequestError", "UnprocessableEntityError"},
              "unsupported_model_capability", FALSE),
       Branch({"APIConnectionError"}, "transport_failure", TRUE),
       Branch({"InternalServerError"}, "transport_failure", TRUE),
       Branch({"APIStatusError"}, "transport_failure", FALSE) >>

\* The checks of a response, in their order, and what each raises.
ResponseChecks(reply) ==
    << <<reply.incomplete, "_TruncatedResponse">>,
       <<reply.refusal, "_SafetyRefusal">>,
       <<reply.stopped, "_ProviderRefusal">>,
       <<reply.sideEffect, "_SemanticPolicyFailure">>,
       <<reply.text = "malformed", "_MalformedStructuredOutput">>,
       <<reply.text = "foreign schema" \/ ~reply.sdkAgrees, "_SchemaValidationFailure">> >>

\* The classes of the exception that a reply raises, none for a valid one.
RaisedClasses(reply) ==
    IF reply.error # Returned
    THEN ErrorAncestors[reply.error]
    ELSE LET failed == SelectInSeq(ResponseChecks(reply), LAMBDA check : check[1])
         IN  IF failed = 0 THEN {} ELSE {ResponseChecks(reply)[failed][2]}

Classify(classes) ==
    LET matching == SelectInSeq(Branches, LAMBDA branch : branch.classes \cap classes # {})
    IN  IF classes = {} THEN Branch({}, "accepted", FALSE)
        ELSE IF matching = 0 THEN Branch({}, "transport_failure", FALSE)
        ELSE Branches[matching]

Outcome(reply) == Classify(RaisedClasses(reply)).result

\* Mutant: every transport failure is asked again.
Retryable_ByOutcome(reply) == Outcome(reply) \in {"transport_failure", "timeout", "rate_limited"}

Retryable(reply) == Classify(RaisedClasses(reply)).retryable

(***************************************************************************)
(* The group.                                                              *)
(***************************************************************************)
Observation(index, requestedAt, respondedAt, result) ==
    [ attempt_index |-> index, requested_at |-> requestedAt,
      responded_at |-> respondedAt, outcome |-> result ]

\* ProviderAttemptObservation.observation_is_bounded.
ObservationBounded(observation) == observation.requested_at <= observation.responded_at

\* How invoke ends: with a result, with a ProviderFailure, or with an
\* exception of a document it could not build.
Ended(how, result) == [how |-> how, result |-> result]

NotEnded == Ended("not ended", "accepted")

RequestBuilt ==
    /\ pc = "building"
    /\ RequestBuilds(call)
    /\ pc' = "requesting"
    /\ UNCHANGED <<call, readings, replies, attempts, outcome, record>>

\* The builder raises before any provider is asked.
RequestRefused ==
    /\ pc = "building"
    /\ ~RequestBuilds(call)
    /\ pc' = "done"
    /\ UNCHANGED <<call, readings, replies, attempts, outcome, record>>

Requests ==
    /\ pc = "requesting"
    /\ \E step \in ClockSteps : readings' = Append(readings, Last(readings) + step)
    /\ pc' = "waiting"
    /\ UNCHANGED <<call, replies, attempts, outcome, record>>

\* Mutant: a retry replaces the observation of the attempt before it.
Observed_Latest(reply, now) == <<Observation(0, Last(readings), now, Outcome(reply))>>

Observed(reply, now) ==
    Append(attempts, Observation(Len(attempts), Last(readings), now, Outcome(reply)))

\* The identifier of a response may be of any length and missing, and so may its
\* model name, which is up to 200 characters when it is the configured one.  An
\* attempt is observed with no identifier or one of at most 200 characters; an
\* accepted result must have one, and a model name of 1 to 128 characters.
FieldsFit(reply) ==
    \/ reply.error # Returned
    \/ reply.provenance = "complete"
    \/ reply.provenance = "attempt" /\ Outcome(reply) # "accepted"

\* The observation of a reply cannot be built, or the accepted result cannot: a
\* field does not fit, or a time of the wall clock is before an earlier one
\* (ProviderObservationalProvenance.timestamps_are_monotonic).
ObservationRaises(reply, now) ==
    \/ ~FieldsFit(reply)
    \/ ~ObservationBounded(Last(Observed(reply, now)))
    \/ Outcome(reply) = "accepted" /\ now < Observed(reply, now)[1].requested_at

\* What this request may be answered with: an output of another type than the
\* contract's is a schema failure of the reply.
Answers == { reply \in Replies : OfContractType(call.action, reply.output) }

MayRetry(reply) == Retryable(reply) /\ Len(attempts) < MaximumRetries

\* A reply arrives, with or without a usable observation; a retryable failure
\* delays the next request.
Receives ==
    /\ pc = "waiting"
    /\ \E reply \in Answers, step \in ClockSteps :
         LET now == Last(readings) + step IN
           /\ readings' = Append(readings, now)
           /\ replies' = Append(replies, reply)
           /\ \/ /\ ObservationRaises(reply, now)
                 /\ outcome' = Ended("exception", "transport_failure")
                 /\ pc' = "ended"
                 /\ UNCHANGED attempts
              \/ /\ ~ObservationRaises(reply, now)
                 /\ attempts' = Observed(reply, now)
                 /\ IF MayRetry(reply)
                    THEN pc' = "delaying" /\ UNCHANGED outcome
                    ELSE /\ pc' = "ended"
                         /\ outcome' = Ended(IF Outcome(reply) = "accepted"
                                             THEN "result" ELSE "failure",
                                             Outcome(reply))
    /\ UNCHANGED <<call, record>>

Delays ==
    /\ pc = "delaying"
    /\ pc' = "requesting"
    /\ UNCHANGED <<call, readings, replies, attempts, outcome, record>>

(***************************************************************************)
(* The record.                                                             *)
(***************************************************************************)
NoRecord == [status |-> "none", attempts |-> <<>>, failure_outcome |-> "accepted"]

Record(status, observations, failure) ==
    [status |-> status, attempts |-> observations, failure_outcome |-> failure]

\* ProviderInvocationRecord.accepted_or_failed_is_exclusive.
RecordValid(built) ==
    /\ Len(built.attempts) \in 1..3
    /\ \A k \in DOMAIN built.attempts : built.attempts[k].attempt_index = k - 1
    /\ built.status = "accepted" => Last(built.attempts).outcome = "accepted"
    /\ built.status = "failed" =>
         /\ built.failure_outcome # "accepted"
         /\ Last(built.attempts).outcome = built.failure_outcome

\* A record that cannot be built raises, and there is none.
Builds(built) ==
    /\ record' = IF RecordValid(built) THEN built ELSE NoRecord
    /\ pc' = "done"
    /\ UNCHANGED <<call, readings, replies, attempts, outcome>>

RecordFailure ==
    /\ pc = "ended" /\ outcome.how = "failure"
    /\ Builds(Record("failed", attempts, outcome.result))

\* The attempt that stands for a provider that raised anything else, stamped
\* with the caller's effective_at.  It takes the place of the whole group.
UnclassifiedAttempt == Observation(0, 0, 0, "transport_failure")

RecordUnclassified ==
    /\ pc = "ended" /\ outcome.how = "exception"
    /\ Builds(Record("failed", <<UnclassifiedAttempt>>, "transport_failure"))

\* _accept_governed.
AcceptGoverned(reply) == reply.requestedModel /\ OutputValid(call, reply.output)

\* _semantic_failure_attempts: the terminal attempt takes the new outcome.
SemanticFailureAttempts ==
    [attempts EXCEPT ![Len(attempts)].outcome = "semantic_policy_failure"]

RecordRefusal ==
    /\ pc = "ended" /\ outcome.how = "result"
    /\ ~AcceptGoverned(Last(replies))
    /\ Builds(Record("failed", SemanticFailureAttempts, "semantic_policy_failure"))

\* The event is built before the record: when the machine refuses it, the
\* exception leaves invoke_and_advance and nothing is recorded.
EventRefused ==
    /\ pc = "ended" /\ outcome.how = "result"
    /\ AcceptGoverned(Last(replies)) /\ ~EventAdvances(call)
    /\ pc' = "done"
    /\ UNCHANGED <<call, readings, replies, attempts, outcome, record>>

RecordAccepted ==
    /\ pc = "ended" /\ outcome.how = "result"
    /\ AcceptGoverned(Last(replies)) /\ EventAdvances(call)
    /\ Builds(Record("accepted", attempts, "accepted"))

\* The first reading stands for the clock before the group.
Init ==
    /\ call \in Calls
    /\ pc = "building"
    /\ readings = <<0>>
    /\ replies = <<>>
    /\ attempts = <<>>
    /\ outcome = NotEnded
    /\ record = NoRecord

Next ==
    \/ RequestBuilt
    \/ RequestRefused
    \/ Requests
    \/ Receives
    \/ Delays
    \/ RecordFailure
    \/ RecordUnclassified
    \/ RecordRefusal
    \/ EventRefused
    \/ RecordAccepted

Spec == Init /\ [][Next]_vars

(***************************************************************************)
(* Properties.                                                             *)
(***************************************************************************)
ObservationType ==
    [attempt_index : 0..MaximumRetries, requested_at : Int, responded_at : Int, outcome : Outcomes]

\* docs/PHASE_2B_PROVIDER_CONTRACT.md, "Failure and retry policy": only a
\* server or a network at fault, a timeout or a rate limit is asked again, at
\* most MaximumRetries times.
Transient ==
    {"APIConnectionError", "APITimeoutError", "RateLimitError", "InternalServerError"}

RetriesAreLicensed ==
    /\ Len(replies) <= MaximumRetries + 1
    /\ \A k \in DOMAIN replies :
         k < Len(replies) \/ pc \in {"delaying", "requesting", "waiting"} =>
           replies[k].error \in Transient

\* A reply without any defect.
Clean(reply) ==
    /\ reply.error = Returned
    /\ ~reply.incomplete /\ ~reply.refusal /\ ~reply.stopped /\ ~reply.sideEffect
    /\ reply.text = "valid" /\ reply.sdkAgrees

ClockRanForward == \A k \in 1..Len(readings) - 1 : readings[k] <= readings[k + 1]

\* Nothing kept a document of the group from being built: the clock was not set
\* back, and identifier and model of every response fit.
Undisturbed == ClockRanForward /\ \A k \in 1..Len(replies) : FieldsFit(replies[k])

\* The references of an output, wherever they stand.
Cited(output) ==
    (UNION output.findings) \cup (UNION { challenge.references : challenge \in output.challenges })
      \cup output.decisive_evidence \cup output.contradictory_evidence

\* What docs/ROLE_CONTRACTS.md promises of an output: code-owned identities, no
\* claim of authority, citations of supplied evidence only, statistical
\* conclusions and failed challenges that rest on some, no verification that
\* code did not do, and for the Chair the computed verdict and its evidence.
Grounded(output) ==
    /\ output.bound /\ ~output.claimsAuthority
    /\ \A reference \in Cited(output) :
         /\ \E k \in DOMAIN Summaries(call) :
              Summaries(call)[k].evidence_id = reference.evidence_id
         /\ \A fact \in reference.numeric_fact_ids :
              \E k \in DOMAIN Summaries(call) : fact \in Summaries(call)[k].numeric_fact_ids
    /\ call.action = "review_statistics" => output.findings # {} /\ {} \notin output.findings
    /\ \A challenge \in output.challenges : challenge.failed => challenge.references # {}
    /\ output.verified => call.code_owned_reproducibility_verified
    /\ call.action = "explain_verdict" =>
         /\ output.computed_verdict = call.case.verdict
         /\ output.decisive_evidence = call.case.decisive_evidence
         /\ output.contradictory_evidence = call.case.contradictory_evidence

Good(reply) == Clean(reply) /\ reply.requestedModel /\ Grounded(reply.output)

\* A call that asked the provider leaves a record, unless the answer was good
\* and the caller's effective_at was not later than the case's last event: then
\* the machine refuses it and the answer is lost.  An accepted record stands
\* for a good last reply, and such a reply is turned into a failure only when
\* the clock was set back or the response's identifier or model name does not
\* fit the document of an accepted result.
RecordIsGenuine ==
    pc = "done" /\ replies # <<>> =>
      LET good == Good(Last(replies))
      IN  /\ record = NoRecord => good /\ call.effective_at <= call.case.last_event_at
          /\ record.status = "accepted" => good
          /\ record.status = "failed" => ~good \/ ~Undisturbed

\* Does the request name all the evidence and the facts that the verdict rests on
\* or has against it?
CoversVerdict ==
    \A reference \in call.case.decisive_evidence \cup call.case.contradictory_evidence :
        /\ reference.evidence_id \in EvidenceReferences(call)
        /\ reference.numeric_fact_ids \subseteq NumericFactReferences(call)

\* A provider is never asked what it cannot answer: some reply to every request
\* that is built would be accepted and can be recorded, except that the Chair
\* cannot answer when the caller's summaries leave out evidence or facts of the
\* computed verdict.  (The replies must have one that names the configured model
\* and fits: a configured name of more than 128 characters has none.)
RequestIsAnswerable ==
    pc = "requesting" =>
        ( (\E reply \in Answers : Clean(reply) /\ FieldsFit(reply) /\ AcceptGoverned(reply))
          <=> (call.action = "explain_verdict" => CoversVerdict) )

\* What docs/PHASE_2B_PROVIDER_CONTRACT.md says of failed invocations ("together
\* with every bounded attempt observation") is true of every group that was not
\* disturbed: the record has one observation per request, in order, each with the
\* outcome of its own reply.  Otherwise one reading of the clock or one field of
\* the last response loses the observations of all.
OnlyDisturbedGroupsLoseObservations ==
    (pc = "done" /\ record # NoRecord /\ Undisturbed) =>
        /\ Len(record.attempts) = Len(replies)
        /\ \A k \in 1..Len(replies) :
             /\ k < Len(replies) \/ ~Clean(replies[k]) =>
                  record.attempts[k].outcome = Outcome(replies[k])
             /\ Clean(replies[k]) => record.attempts[k].outcome \in
                                       {"accepted", "semantic_policy_failure"}
=============================================================================
