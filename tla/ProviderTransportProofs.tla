----------------------- MODULE ProviderTransportProofs -----------------------
(***************************************************************************)
(* A provider group for every call, every set of replies and every way the *)
(* wall clock may move.                                                    *)
(*                                                                         *)
(* The argument: the tables of the transport are read once, as facts about *)
(* one reply (AcceptedWhenClean, RetriedIsTransient), one output           *)
(* (ValidIsGrounded, SomeOutputIsValid) and one event                      *)
(* (OnlyTimeRefusesEvent).  GroupInvariant pairs replies and observations, *)
(* and says that as long as the clock runs forward the group began before  *)
(* now, so no observation fails but that of a response whose identifier or *)
(* model name does not fit.  What is recorded when a group has ended is    *)
(* then true of its last reply.                                            *)
(***************************************************************************)
EXTENDS ProviderTransport, WellFoundedInduction, TLAPS

\* A set of numbers that has a member has a smallest one.
LEMMA SmallestIsMember ==
    ASSUME NEW S, S \subseteq Nat, S # {}
    PROVE  Min(S) \in S
<1>1. PICK x \in S : \A y \in S : ~(<<y, x>> \in OpToRel(<, Nat))
  BY NatLessThanWellFounded, WFMin
<1>2. \A y \in S : x <= y
  <2> SUFFICES ASSUME NEW y \in S PROVE x <= y
    OBVIOUS
  <2>1. ~(y < x)
    BY <1>1 DEF OpToRel
  <2>2. QED
    BY <2>1
<1>3. QED
  BY <1>2 DEF Min

\* What _classify makes of an exception is what one of its branches says that
\* the exception belongs to, or a transport failure that is not asked again.
LEMMA ClassifiedByBranch ==
    ASSUME NEW classes, classes # {}
    PROVE  \/ Classify(classes) = Branch({}, "transport_failure", FALSE)
           \/ \E k \in 1..13 : /\ Classify(classes) = Branches[k]
                               /\ Branches[k].classes \cap classes # {}
<1> DEFINE I == { k \in 1..Len(Branches) : Branches[k].classes \cap classes # {} }
           matching == SelectInSeq(Branches, LAMBDA branch : branch.classes \cap classes # {})
<1>1. matching = IF I # {} THEN Min(I) ELSE 0
  BY DEF SelectInSeq
<1>2. Len(Branches) = 13
  BY DEF Branches
<1>3. Classify(classes) = IF matching = 0 THEN Branch({}, "transport_failure", FALSE)
                          ELSE Branches[matching]
  BY DEF Classify
<1>4. /\ I \subseteq 1..13
      /\ \A k \in I : Branches[k].classes \cap classes # {}
  BY <1>2
<1> HIDE DEF I, matching
<1>5. I # {} => Min(I) \in I
  <2>1. I \subseteq Nat
    BY <1>4
  <2>2. QED
    BY <2>1, SmallestIsMember
<1>6. QED
  BY <1>1, <1>3, <1>4, <1>5

\* The classes that a response can raise are the transport's own.
OwnClasses ==
    { "_TruncatedResponse", "_SafetyRefusal", "_ProviderRefusal", "_SemanticPolicyFailure",
      "_MalformedStructuredOutput", "_SchemaValidationFailure" }

\* Six checks, each a condition and the class that it raises.
LEMMA SixChecks ==
    ASSUME NEW reply
    PROVE  /\ ResponseChecks(reply)[1][1] = reply.incomplete
           /\ ResponseChecks(reply)[2][1] = reply.refusal
           /\ ResponseChecks(reply)[3][1] = reply.stopped
           /\ ResponseChecks(reply)[4][1] = reply.sideEffect
           /\ ResponseChecks(reply)[5][1] = (reply.text = "malformed")
           /\ ResponseChecks(reply)[6][1] = (reply.text = "foreign schema" \/ ~reply.sdkAgrees)
           /\ \A k \in 1..6 : ResponseChecks(reply)[k][2] \in OwnClasses
<1> DEFINE foreign == reply.text = "foreign schema" \/ ~reply.sdkAgrees
<1>1. ResponseChecks(reply)[6] = <<foreign, "_SchemaValidationFailure">>
  BY DEF ResponseChecks
<1>2. ResponseChecks(reply)[6][1] = foreign
  <2> HIDE DEF foreign
  <2>1. QED
    BY <1>1
<1>3. /\ ResponseChecks(reply)[1][1] = reply.incomplete
      /\ ResponseChecks(reply)[2][1] = reply.refusal
      /\ ResponseChecks(reply)[3][1] = reply.stopped
      /\ ResponseChecks(reply)[4][1] = reply.sideEffect
      /\ ResponseChecks(reply)[5][1] = (reply.text = "malformed")
  BY DEF ResponseChecks
<1>4. /\ ResponseChecks(reply)[1][2] = "_TruncatedResponse"
      /\ ResponseChecks(reply)[2][2] = "_SafetyRefusal"
      /\ ResponseChecks(reply)[3][2] = "_ProviderRefusal"
      /\ ResponseChecks(reply)[4][2] = "_SemanticPolicyFailure"
      /\ ResponseChecks(reply)[5][2] = "_MalformedStructuredOutput"
      /\ ResponseChecks(reply)[6][2] = "_SchemaValidationFailure"
  BY DEF ResponseChecks
<1>5. \A k \in 1..6 : k = 1 \/ k = 2 \/ k = 3 \/ k = 4 \/ k = 5 \/ k = 6
  OBVIOUS
<1>6. \A k \in 1..6 : ResponseChecks(reply)[k][2] \in OwnClasses
  BY <1>4, <1>5 DEF OwnClasses
<1>7. QED
  BY <1>2, <1>3, <1>6

\* A response raises the class of its first failing check, or nothing.
LEMMA RaisedByResponse ==
    ASSUME NEW reply, reply.error = Returned
    PROVE  /\ RaisedClasses(reply) \subseteq OwnClasses
           /\ RaisedClasses(reply) = {} <=> \A k \in 1..6 : ~ResponseChecks(reply)[k][1]
<1> DEFINE I == { k \in 1..Len(ResponseChecks(reply)) : ResponseChecks(reply)[k][1] }
           failed == SelectInSeq(ResponseChecks(reply), LAMBDA check : check[1])
<1>1. failed = IF I # {} THEN Min(I) ELSE 0
  BY DEF SelectInSeq
<1>2. Len(ResponseChecks(reply)) = 6
  BY DEF ResponseChecks
<1>3. RaisedClasses(reply) = IF failed = 0 THEN {} ELSE {ResponseChecks(reply)[failed][2]}
  BY DEF RaisedClasses
<1>4. /\ I \subseteq 1..6
      /\ \A k \in 1..6 : k \in I <=> ResponseChecks(reply)[k][1]
  BY <1>2
<1> HIDE DEF I, failed
<1>5. I # {} => Min(I) \in I
  <2>1. I \subseteq Nat
    BY <1>4
  <2>2. QED
    BY <2>1, SmallestIsMember
<1>6. \A k \in 1..6 : ResponseChecks(reply)[k][2] \in OwnClasses
  BY SixChecks
<1>7. RaisedClasses(reply) \subseteq OwnClasses
  BY <1>1, <1>3, <1>4, <1>5, <1>6
<1>8. RaisedClasses(reply) = {} <=> I = {}
  <2>1. I # {} => failed \in 1..6
    BY <1>1, <1>4, <1>5
  <2>2. \A k \in 1..6 : k # 0
    OBVIOUS
  <2>3. QED
    BY <1>1, <1>3, <2>1, <2>2
<1>9. QED
  BY <1>4, <1>7, <1>8

\* Every exception of the package belongs to its own class at least, and only
\* four of them to a class that is asked again.
LEMMA RaisedByException ==
    ASSUME NEW reply, reply.error \in DOMAIN ErrorAncestors
    PROVE  /\ RaisedClasses(reply) # {}
           /\ RaisedClasses(reply) \cap { "RateLimitError", "APITimeoutError",
                "APIConnectionError", "InternalServerError" } # {} => reply.error \in Transient
<1>1. RaisedClasses(reply) = ErrorAncestors[reply.error]
  BY DEF RaisedClasses, ErrorAncestors, Returned
<1>2. \A error \in DOMAIN ErrorAncestors :
        /\ ErrorAncestors[error] # {}
        /\ ErrorAncestors[error] \cap { "RateLimitError", "APITimeoutError",
             "APIConnectionError", "InternalServerError" } # {} => error \in Transient
  BY DEF ErrorAncestors, Transient
<1>3. QED
  BY <1>1, <1>2

\* A reply raises nothing exactly when it has no defect.
LEMMA CleanRaisesNothing ==
    ASSUME NEW reply \in ReplyType
    PROVE  RaisedClasses(reply) = {} <=> Clean(reply)
<1>1. CASE reply.error = Returned
  <2>1. (\A k \in 1..6 : ~ResponseChecks(reply)[k][1])
          <=> /\ ~ResponseChecks(reply)[1][1] /\ ~ResponseChecks(reply)[2][1]
              /\ ~ResponseChecks(reply)[3][1] /\ ~ResponseChecks(reply)[4][1]
              /\ ~ResponseChecks(reply)[5][1] /\ ~ResponseChecks(reply)[6][1]
    OBVIOUS
  <2>2. reply.text \in {"valid", "malformed", "foreign schema"}
    BY DEF ReplyType
  <2>3. (\A k \in 1..6 : ~ResponseChecks(reply)[k][1]) <=> Clean(reply)
    BY <1>1, <2>1, <2>2, SixChecks DEF Clean
  <2>4. QED
    BY <1>1, <2>3, RaisedByResponse
<1>2. CASE reply.error # Returned
  <2>1. reply.error \in DOMAIN ErrorAncestors
    BY <1>2 DEF ReplyType
  <2>2. QED
    BY <1>2, <2>1, RaisedByException DEF Clean
<1>3. QED
  BY <1>1, <1>2

\* The outcome of a reply is "accepted" exactly when it has no defect.
LEMMA AcceptedWhenClean ==
    ASSUME NEW reply \in ReplyType
    PROVE  /\ Outcome(reply) \in Outcomes
           /\ Outcome(reply) = "accepted" <=> Clean(reply)
<1>1. \A k \in 1..13 : Branches[k].result \in Outcomes \ {"accepted"}
  BY DEF Branches, Branch, Outcomes
<1>2. RaisedClasses(reply) = {} => Outcome(reply) = "accepted"
  BY DEF Outcome, Classify, Branch
<1>3. RaisedClasses(reply) # {} => Outcome(reply) \in Outcomes \ {"accepted"}
  BY <1>1, ClassifiedByBranch DEF Outcome, Branch, Outcomes
<1>4. QED
  BY <1>2, <1>3, CleanRaisesNothing DEF Outcomes

\* What is asked again is an error of a server, a network, a time limit or a rate
\* limit.
LEMMA RetriedIsTransient ==
    ASSUME NEW reply \in ReplyType, Retryable(reply)
    PROVE  reply.error \in Transient
<1> DEFINE retried == { "RateLimitError", "APITimeoutError", "APIConnectionError",
                        "InternalServerError" }
<1>1. \A k \in 1..13 : Branches[k].retryable => Branches[k].classes \subseteq retried
  BY DEF Branches, Branch
<1>2. RaisedClasses(reply) # {}
  BY DEF Retryable, Classify, Branch
<1>3. PICK k \in 1..13 : /\ Classify(RaisedClasses(reply)) = Branches[k]
                         /\ Branches[k].classes \cap RaisedClasses(reply) # {}
  BY <1>2, ClassifiedByBranch DEF Retryable, Branch
<1>4. RaisedClasses(reply) \cap retried # {}
  BY <1>1, <1>3 DEF Retryable
<1>5. reply.error # Returned
  BY <1>4, RaisedByResponse DEF OwnClasses
<1>6. reply.error \in DOMAIN ErrorAncestors
  BY <1>5 DEF ReplyType
<1>7. QED
  BY <1>4, <1>6, RaisedByException
(***************************************************************************)
(* What an accepted output is.                                             *)
(***************************************************************************)
\* A reference to supplied evidence and to supplied facts.
Supplied(reference) ==
    /\ reference.evidence_id \in EvidenceReferences(call)
    /\ reference.numeric_fact_ids \subseteq NumericFactReferences(call)

\* The allow-lists read summary by summary.
LEMMA SuppliedBySummaries ==
    ASSUME NEW reference
    PROVE  Supplied(reference)
             <=> /\ \E k \in DOMAIN Summaries(call) :
                      Summaries(call)[k].evidence_id = reference.evidence_id
                 /\ \A fact \in reference.numeric_fact_ids :
                      \E k \in DOMAIN Summaries(call) :
                        fact \in Summaries(call)[k].numeric_fact_ids
<1>1. reference.evidence_id \in EvidenceReferences(call)
        <=> \E k \in DOMAIN Summaries(call) :
              Summaries(call)[k].evidence_id = reference.evidence_id
  BY DEF EvidenceReferences
<1>2. \A fact : fact \in NumericFactReferences(call)
        <=> \E k \in DOMAIN Summaries(call) : fact \in Summaries(call)[k].numeric_fact_ids
  BY DEF NumericFactReferences
<1>3. QED
  BY <1>1, <1>2 DEF Supplied

\* The validator of references asks for supplied ones.
LEMMA ValidWhenSupplied ==
    ASSUME NEW references, NEW required \in BOOLEAN
    PROVE  ReferencesValid(call, references, required)
             <=> /\ \A reference \in references : Supplied(reference)
                 /\ required => references # {}
BY DEF ReferencesValid, Supplied

\* Every reference of an output is supplied, part by part.
LEMMA CitedByPart ==
    ASSUME NEW output
    PROVE  (\A reference \in Cited(output) : Supplied(reference))
             <=> /\ \A finding \in output.findings :
                      \A reference \in finding : Supplied(reference)
                 /\ \A challenge \in output.challenges :
                      \A reference \in challenge.references : Supplied(reference)
                 /\ \A reference \in output.decisive_evidence : Supplied(reference)
                 /\ \A reference \in output.contradictory_evidence : Supplied(reference)
<1>1. \A reference : reference \in Cited(output)
        <=> \/ \E finding \in output.findings : reference \in finding
            \/ \E challenge \in output.challenges : reference \in challenge.references
            \/ reference \in output.decisive_evidence
            \/ reference \in output.contradictory_evidence
  BY DEF Cited
<1>2. QED
  BY <1>1

\* What validation accepts is what the contract promises: each of the six
\* validators leaves out only parts that its output type does not have.
LEMMA ValidIsGrounded ==
    ASSUME call \in Calls, NEW output, OfContractType(call.action, output),
           output.verified \in BOOLEAN,
           \A challenge \in output.challenges : challenge.failed \in BOOLEAN
    PROVE  OutputValid(call, output) <=> Grounded(output)
<1> DEFINE cited == \A reference \in Cited(output) : Supplied(reference)
           findings == \A finding \in output.findings :
                          \A reference \in finding : Supplied(reference)
<1>1. Grounded(output) <=>
        /\ output.bound /\ ~output.claimsAuthority
        /\ cited
        /\ call.action = "review_statistics" => output.findings # {} /\ {} \notin output.findings
        /\ \A challenge \in output.challenges : challenge.failed => challenge.references # {}
        /\ output.verified => call.code_owned_reproducibility_verified
        /\ call.action = "explain_verdict" =>
             /\ output.computed_verdict = call.case.verdict
             /\ output.decisive_evidence = call.case.decisive_evidence
             /\ output.contradictory_evidence = call.case.contradictory_evidence
  BY SuppliedBySummaries DEF Grounded
<1>2. /\ call \in CallType
      /\ call.action \in RoleActions
  BY TransportConstants
<1>3. call.action \in { "propose_protocol", "review_methodology", "review_statistics",
        "request_challenge", "review_reproducibility", "explain_verdict" }
  BY <1>2 DEF RoleActions, RoleContracts
<1>4. ReferencesValid(call, UNION output.findings, FALSE) <=> findings
  <2>1. \A reference : reference \in UNION output.findings
          <=> \E finding \in output.findings : reference \in finding
    OBVIOUS
  <2>2. QED
    BY <2>1, ValidWhenSupplied
<1>5. cited <=>
        /\ findings
        /\ \A challenge \in output.challenges :
             \A reference \in challenge.references : Supplied(reference)
        /\ \A reference \in output.decisive_evidence : Supplied(reference)
        /\ \A reference \in output.contradictory_evidence : Supplied(reference)
  BY CitedByPart
<1> HIDE DEF cited, findings
<1>6. CASE call.action = "propose_protocol"
  BY <1>1, <1>5, <1>6, CitedByPart DEF OutputValid, OfContractType, findings
<1>7. CASE call.action = "review_methodology"
  BY <1>1, <1>4, <1>5, <1>7 DEF OutputValid, OfContractType
<1>8. CASE call.action = "review_statistics"
  <2>1. StatisticsValid(call, output)
          <=> findings /\ output.findings # {} /\ {} \notin output.findings
    BY ValidWhenSupplied DEF StatisticsValid, findings
  <2>2. QED
    BY <1>1, <1>5, <1>8, <2>1 DEF OutputValid, OfContractType
<1>9. CASE call.action = "request_challenge"
  <2>1. ChallengeValid(call, output)
          <=> /\ findings
              /\ \A challenge \in output.challenges :
                   \A reference \in challenge.references : Supplied(reference)
              /\ \A challenge \in output.challenges :
                   challenge.failed => challenge.references # {}
    <3>1. ASSUME NEW challenge \in output.challenges
          PROVE  ReferencesValid(call, challenge.references, challenge.failed)
                   <=> /\ \A reference \in challenge.references : Supplied(reference)
                       /\ challenge.failed => challenge.references # {}
      BY DEF ReferencesValid, Supplied
    <3>2. QED
      BY <1>4, <3>1 DEF ChallengeValid
  <2>2. QED
    BY <1>1, <1>5, <1>9, <2>1 DEF OutputValid, OfContractType
<1>10. CASE call.action = "review_reproducibility"
  <2>1. ReproducibilityValid(call, output)
          <=> findings /\ (output.verified => call.code_owned_reproducibility_verified)
    BY <1>4 DEF ReproducibilityValid
  <2>2. QED
    BY <1>1, <1>5, <1>10, <2>1 DEF OutputValid, OfContractType
<1>11. CASE call.action = "explain_verdict"
  <2>1. call.case.decisive_evidence # {}
    BY <1>2 DEF CallType, CaseType
  <2>2. ChairValid(call, output)
          <=> /\ output.computed_verdict = call.case.verdict
              /\ output.decisive_evidence = call.case.decisive_evidence
              /\ output.contradictory_evidence = call.case.contradictory_evidence
              /\ \A reference \in output.decisive_evidence : Supplied(reference)
              /\ \A reference \in output.contradictory_evidence : Supplied(reference)
    BY <2>1, ValidWhenSupplied DEF ChairValid
  <2>3. output.findings = {} /\ output.challenges = {} /\ ~output.verified
    BY <1>11 DEF OfContractType
  <2>4. findings
    BY <2>3 DEF findings
  <2>5. QED
    BY <1>1, <1>5, <1>11, <2>2, <2>3, <2>4 DEF OutputValid
<1>12. QED
  BY <1>3, <1>6, <1>7, <1>8, <1>9, <1>10, <1>11
\* The rule that leaves a state is the one of the table.
LEMMA RuleLeavingState ==
    ASSUME NEW rule \in RULES,
           \A other \in RULES : other.source = rule.source => other = rule
    PROVE  NextState(rule.source) = rule.target
<1> DEFINE chosen == CHOOSE other \in RULES : other.source = rule.source
<1>1. chosen \in RULES /\ chosen.source = rule.source
  OBVIOUS
<1>2. QED
  BY <1>1 DEF NextState

\* The table has one rule for each source.
LEMMA OneRulePerSource ==
    ASSUME NEW rule \in RULES, NEW other \in RULES, other.source = rule.source
    PROVE  other = rule
BY DEF RULES, TransitionRule, CLAIM_RECEIVED, RESEARCHER_PROTOCOL_PROPOSED, METHODOLOGY_REVIEWED,
       HUMAN_APPROVAL, CONSTITUTION_LOCKED, EXPERIMENT_EXECUTED, STATISTICS_REVIEWED,
       ADVERSARIAL_REVIEWED, OPTIONAL_FOLLOW_UP, REPRODUCIBILITY_VERIFIED,
       VERDICT_ELIGIBILITY_COMPUTED, CHAIR_EXPLANATION, NoState

\* An accepted output in the expected state is the event that the table allows
\* there, so only its time can be refused.
LEMMA OnlyTimeRefusesEvent ==
    ASSUME call \in Calls, RequestBuilds(call)
    PROVE  EventAdvances(call) <=> call.case.last_event_at < call.effective_at
<1>1. call.action \in RoleActions
  BY TransportConstants
<1> DEFINE contract == RoleContracts[call.action]
<1>2. call.case.state = contract.expected_state
  BY DEF RequestBuilds
<1>3. \E rule \in RULES : /\ rule.source = contract.expected_state
                          /\ rule.actor = contract.role
                          /\ contract.audited_action \in rule.actions
  <2>1. \A action \in RoleActions :
          \E rule \in RULES : /\ rule.source = RoleContracts[action].expected_state
                              /\ rule.actor = RoleContracts[action].role
                              /\ RoleContracts[action].audited_action \in rule.actions
    BY DEF RoleActions, RoleContracts, Contract, RULES, TransitionRule
  <2>2. QED
    BY <1>1, <2>1
<1>4. PICK rule \in RULES : /\ rule.source = contract.expected_state
                            /\ rule.actor = contract.role
                            /\ contract.audited_action \in rule.actions
  BY <1>3
<1>5. NextState(rule.source) = rule.target
  BY RuleLeavingState, OneRulePerSource
<1>6. TransitionAuthorized(call.case.state, NextState(call.case.state),
                           contract.role, contract.audited_action)
  BY <1>2, <1>4, <1>5 DEF TransitionAuthorized
<1>7. QED
  BY <1>6 DEF EventAdvances
\* The Chair's request names what the verdict rests on exactly when every
\* reference of the verdict is supplied.
LEMMA CoveredIsSupplied ==
    CoversVerdict <=> \A reference \in call.case.decisive_evidence
                                         \cup call.case.contradictory_evidence : Supplied(reference)
BY DEF CoversVerdict, Supplied

\* An output that the contract's type and validation admit, for every request
\* that is built.
LEMMA SomeOutputIsValid ==
    ASSUME call \in Calls, RequestBuilds(call),
           call.action = "explain_verdict" => CoversVerdict
    PROVE  \E output \in OutputType :
             OfContractType(call.action, output) /\ OutputValid(call, output)
<1> DEFINE first == [evidence_id |-> Summaries(call)[1].evidence_id, numeric_fact_ids |-> {}]
           findings == IF call.action = "review_statistics" THEN {{first}} ELSE {}
           decisive == IF call.action = "explain_verdict"
                       THEN call.case.decisive_evidence ELSE {}
           contradictory == IF call.action = "explain_verdict"
                            THEN call.case.contradictory_evidence ELSE {}
           output == [ bound |-> TRUE, claimsAuthority |-> FALSE, findings |-> findings,
                       challenges |-> {}, verified |-> FALSE,
                       computed_verdict |-> call.case.verdict,
                       decisive_evidence |-> decisive,
                       contradictory_evidence |-> contradictory ]
<1>1. /\ call.case.verdict \in Verdicts
      /\ call.case.decisive_evidence \in SUBSET EvidenceReference
      /\ call.case.contradictory_evidence \in SUBSET EvidenceReference
      /\ Summaries(call) \in Seq(EvidenceSummary)
  BY TransportConstants DEF CallType, CaseType, Summaries
<1>2. call.action = "review_statistics" => first \in EvidenceReference /\ Supplied(first)
  <2> SUFFICES ASSUME call.action = "review_statistics"
               PROVE  first \in EvidenceReference /\ Supplied(first)
    OBVIOUS
  <2>1. EvidenceReferences(call) # {}
    BY DEF RequestBuilds, RoleContracts, Contract
  <2>2. 1 \in DOMAIN Summaries(call)
    <3>1. DOMAIN Summaries(call) # {}
      BY <2>1 DEF EvidenceReferences
    <3>2. QED
      BY <1>1, <3>1
  <2>3. Summaries(call)[1] \in EvidenceSummary
    BY <1>1, <2>2
  <2>4. first \in EvidenceReference
    BY <2>3 DEF EvidenceSummary, EvidenceReference
  <2>5. Supplied(first)
    BY <2>2 DEF Supplied, EvidenceReferences
  <2>6. QED
    BY <2>4, <2>5
<1> HIDE DEF first
<1>3. findings \in Findings
  BY <1>2 DEF Findings
<1>4. decisive \in SUBSET EvidenceReference /\ contradictory \in SUBSET EvidenceReference
  BY <1>1
<1>5. OfContractType(call.action, output)
  BY DEF OfContractType
<1>6. Grounded(output)
  <2>1. \A reference \in Cited(output) : Supplied(reference)
    <3>1. \A finding \in findings : \A reference \in finding : Supplied(reference)
      BY <1>2
    <3>2. \A reference \in decisive \cup contradictory : Supplied(reference)
      BY CoveredIsSupplied
    <3> HIDE DEF findings, decisive, contradictory
    <3>3. QED
      BY <3>1, <3>2, CitedByPart
  <2>2. call.action = "review_statistics" => findings # {} /\ {} \notin findings
    OBVIOUS
  <2>3. call.action = "explain_verdict" =>
          /\ decisive = call.case.decisive_evidence
          /\ contradictory = call.case.contradictory_evidence
    OBVIOUS
  <2> HIDE DEF findings, decisive, contradictory
  <2>4. QED
    BY <2>1, <2>2, <2>3, SuppliedBySummaries DEF Grounded
<1> HIDE DEF findings, decisive, contradictory
<1>7. output \in OutputType
  BY <1>1, <1>3, <1>4 DEF OutputType
<1>8. OutputValid(call, output)
  <2>1. output.verified \in BOOLEAN /\ output.challenges = {}
    OBVIOUS
  <2> HIDE DEF output
  <2>2. QED
    BY <1>5, <1>6, <2>1, ValidIsGrounded
<1>9. QED
  BY <1>5, <1>7, <1>8

\* A provider that may give any clean answer can answer every request that is built,
\* but for the Chair's that leaves out what the verdict rests on.
LEMMA BuiltIsAnswerable ==
    ASSUME { reply \in ReplyType : Clean(reply) } \subseteq Replies,
           call \in Calls, RequestBuilds(call)
    PROVE  (\E reply \in Answers : Clean(reply) /\ FieldsFit(reply) /\ AcceptGoverned(reply))
             <=> (call.action = "explain_verdict" => CoversVerdict)
<1>1. ASSUME call.action = "explain_verdict" => CoversVerdict
      PROVE  \E reply \in Answers : Clean(reply) /\ FieldsFit(reply) /\ AcceptGoverned(reply)
  <2>1. PICK output \in OutputType :
          OfContractType(call.action, output) /\ OutputValid(call, output)
    BY <1>1, SomeOutputIsValid
  <2> DEFINE reply == [ error |-> Returned, incomplete |-> FALSE, refusal |-> FALSE,
                        stopped |-> FALSE, sideEffect |-> FALSE, text |-> "valid",
                        sdkAgrees |-> TRUE, requestedModel |-> TRUE,
                        provenance |-> "complete", output |-> output ]
  <2>2. reply \in ReplyType
    BY <2>1 DEF ReplyType
  <2>3. reply \in Answers
    BY <2>1, <2>2 DEF Answers, Clean
  <2>4. Clean(reply) /\ FieldsFit(reply) /\ AcceptGoverned(reply)
    BY <2>1 DEF Clean, FieldsFit, AcceptGoverned
  <2>5. QED
    BY <2>3, <2>4
<1>2. ASSUME NEW reply \in Answers, AcceptGoverned(reply), call.action = "explain_verdict"
      PROVE  CoversVerdict
  <2>1. ChairValid(call, reply.output)
    BY <1>2 DEF AcceptGoverned, OutputValid
  <2>2. /\ ReferencesValid(call, call.case.decisive_evidence, TRUE)
        /\ ReferencesValid(call, call.case.contradictory_evidence, FALSE)
    BY <2>1 DEF ChairValid
  <2>3. QED
    BY <2>2, ValidWhenSupplied, CoveredIsSupplied
<1>3. QED
  BY <1>1, <1>2
(***************************************************************************)
(* The group: an inductive invariant.                                      *)
(***************************************************************************)
\* Where another request may follow.
Asking == {"requesting", "waiting", "delaying"}

GroupTyped ==
    /\ call \in Calls
    /\ pc \in Asking \cup {"building", "ended", "done"}
    /\ readings \in Seq(Int) /\ readings # <<>>
    /\ replies \in Seq(Answers)
    /\ attempts \in Seq(ObservationType)

\* Every reply has its observation, unless one could not be built.
EveryReplyIsObserved ==
    /\ outcome.how # "exception" => Len(attempts) = Len(replies)
    /\ \A k \in 1..Len(attempts) :
         /\ k <= Len(replies)
         /\ attempts[k].attempt_index = k - 1
         /\ attempts[k].outcome = Outcome(replies[k])

\* Every request but the first was licensed by the reply before it.
EveryRequestIsLicensed ==
    /\ Len(replies) <= MaximumRetries + 1
    /\ pc \in Asking => Len(replies) <= MaximumRetries
    /\ \A k \in 1..Len(replies) : k < Len(replies) \/ pc \in Asking => Retryable(replies[k])

\* While the clock runs forward the group began before now, and nothing raises as
\* long as the fields of every response fit.
DisturbanceExplainsException ==
    /\ ClockRanForward /\ attempts # <<>> => attempts[1].requested_at <= Last(readings)
    /\ Undisturbed => outcome.how # "exception"

\* A request was built before it was asked, and the outcome is that of the last
\* reply.
OutcomeOfLastReply ==
    /\ pc = "building" => replies = <<>>
    /\ pc \in Asking \cup {"building"} => outcome = NotEnded
    /\ pc \in Asking \cup {"ended"} \/ replies # <<>> => RequestBuilds(call)
    /\ pc # "done" => record = NoRecord
    /\ pc = "ended" =>
         /\ replies # <<>>
         /\ outcome.how \in {"exception", "result", "failure"}
         /\ outcome.how = "result" => Outcome(Last(replies)) = "accepted"
         /\ outcome.how = "failure" => /\ outcome.result = Outcome(Last(replies))
                                       /\ outcome.result # "accepted"

GroupInvariant ==
    /\ GroupTyped
    /\ EveryReplyIsObserved
    /\ EveryRequestIsLicensed
    /\ DisturbanceExplainsException
    /\ OutcomeOfLastReply
    /\ RecordIsGenuine
    /\ OnlyDisturbedGroupsLoseObservations

USE DEF Asking

\* One more reading of the clock.
LEMMA ReadingAppended ==
    ASSUME readings \in Seq(Int), readings # <<>>, NEW now \in Int,
           readings' = Append(readings, now)
    PROVE  /\ readings' \in Seq(Int) /\ readings' # <<>>
           /\ Last(readings) \in Int
           /\ Last(readings') = now
           /\ ClockRanForward' => ClockRanForward /\ Last(readings) <= now
<1>1. /\ Len(readings) \in Nat \ {0}
      /\ Len(readings') = Len(readings) + 1
      /\ \A k \in 1..Len(readings) : readings'[k] = readings[k]
      /\ readings'[Len(readings) + 1] = now
  OBVIOUS
<1>2. readings' \in Seq(Int) /\ readings' # <<>> /\ Last(readings) \in Int /\ Last(readings') = now
  BY <1>1 DEF Last
<1>3. ASSUME ClockRanForward'
      PROVE  ClockRanForward /\ Last(readings) <= now
  <2>1. \A k \in 1..Len(readings) : readings'[k] <= readings'[k + 1]
    BY <1>1, <1>3 DEF ClockRanForward
  <2>2. Last(readings) <= now
    BY <1>1, <2>1 DEF Last
  <2>3. ClockRanForward
    <3>1. ASSUME NEW k \in 1..Len(readings) - 1
          PROVE  readings[k] <= readings[k + 1]
      <4>1. k \in 1..Len(readings) /\ k + 1 \in 1..Len(readings)
        BY <1>1
      <4>2. QED
        BY <1>1, <2>1, <4>1
    <3>2. QED
      BY <3>1 DEF ClockRanForward
  <2>4. QED
    BY <2>2, <2>3
<1>4. QED
  BY <1>2, <1>3

\* The last member of a sequence.
LEMMA LastOfAppended ==
    ASSUME NEW S, NEW s \in Seq(S), NEW e \in S
    PROVE  /\ Append(s, e) \in Seq(S)
           /\ Len(Append(s, e)) = Len(s) + 1
           /\ Append(s, e) # <<>>
           /\ Last(Append(s, e)) = e
           /\ Append(s, e)[Len(s) + 1] = e
           /\ \A k \in 1..Len(s) : Append(s, e)[k] = s[k]
BY DEF Last

\* A group begins with no reply.
LEMMA InitHolds == Init => GroupInvariant
<1> SUFFICES ASSUME Init PROVE GroupInvariant
  OBVIOUS
<1>1. GroupTyped
  BY DEF Init, GroupTyped
<1>2. EveryReplyIsObserved
  BY DEF Init, EveryReplyIsObserved
<1>3. EveryRequestIsLicensed
  BY TransportConstants DEF Init, EveryRequestIsLicensed
<1>4. DisturbanceExplainsException
  BY DEF Init, DisturbanceExplainsException, NotEnded, Ended
<1>5. OutcomeOfLastReply
  BY DEF Init, OutcomeOfLastReply
<1>6. RecordIsGenuine /\ OnlyDisturbedGroupsLoseObservations
  BY DEF Init, RecordIsGenuine, OnlyDisturbedGroupsLoseObservations
<1>7. QED
  BY <1>1, <1>2, <1>3, <1>4, <1>5, <1>6 DEF GroupInvariant

\* A step that only moves on, without reading the clock or ending the group.
LEMMA MovingOnKeeps ==
    ASSUME GroupInvariant,
           RequestBuilt \/ RequestRefused \/ Delays \/ UNCHANGED vars
    PROVE  GroupInvariant'
<1> USE DEF GroupInvariant, vars
<1>1. UNCHANGED <<call, readings, replies, attempts, outcome, record>>
  BY DEF RequestBuilt, RequestRefused, Delays
<1>2. \/ pc = "building" /\ pc' = "requesting" /\ RequestBuilds(call)
      \/ pc = "building" /\ pc' = "done"
      \/ pc = "delaying" /\ pc' = "requesting"
      \/ pc' = pc
  BY DEF RequestBuilt, RequestRefused, Delays
<1>3. GroupTyped'
  BY <1>1, <1>2 DEF GroupTyped, Answers
<1>4. EveryReplyIsObserved'
  BY <1>1 DEF EveryReplyIsObserved
<1>5. EveryRequestIsLicensed'
  <2>1. pc = "building" => Len(replies) = 0
    BY DEF OutcomeOfLastReply
  <2>2. QED
    BY <1>1, <1>2, <2>1, TransportConstants DEF EveryRequestIsLicensed
<1>6. DisturbanceExplainsException'
  BY <1>1 DEF DisturbanceExplainsException, Undisturbed, ClockRanForward
<1>7. OutcomeOfLastReply'
  BY <1>1, <1>2 DEF OutcomeOfLastReply
<1>8. RecordIsGenuine'
  <2>1. pc' = "done" /\ replies' # <<>> => pc = "done"
    BY <1>1, <1>2 DEF OutcomeOfLastReply
  <2>2. QED
    BY <1>1, <2>1 DEF RecordIsGenuine, Good, Grounded, Summaries, Undisturbed,
                       ClockRanForward
<1>9. OnlyDisturbedGroupsLoseObservations'
  <2>1. pc' = "done" /\ record' # NoRecord => pc = "done"
    BY <1>1, <1>2 DEF OutcomeOfLastReply
  <2>2. QED
    BY <1>1, <2>1 DEF OnlyDisturbedGroupsLoseObservations, Undisturbed, ClockRanForward
<1>10. QED
  BY <1>3, <1>4, <1>5, <1>6, <1>7, <1>8, <1>9

\* A request reads the clock.
LEMMA RequestsKeep ==
    ASSUME GroupInvariant, Requests
    PROVE  GroupInvariant'
<1> USE DEF GroupInvariant, Requests
<1>1. UNCHANGED <<call, replies, attempts, outcome, record>> /\ pc = "requesting" /\ pc' = "waiting"
  OBVIOUS
<1>2. PICK step \in ClockSteps : readings' = Append(readings, Last(readings) + step)
  OBVIOUS
<1> DEFINE now == Last(readings) + step
<1>3. /\ now \in Int
      /\ readings' \in Seq(Int) /\ readings' # <<>>
      /\ Last(readings) \in Int
      /\ Last(readings') = now
      /\ ClockRanForward' => ClockRanForward /\ Last(readings) <= now
  <2>1. Last(readings) \in Int
    BY DEF GroupTyped, Last
  <2>2. now \in Int
    BY <2>1, TransportConstants
  <2> HIDE DEF now
  <2>3. readings' = Append(readings, now)
    BY <1>2 DEF now
  <2>4. QED
    BY <2>2, <2>3, ReadingAppended DEF GroupTyped
<1> HIDE DEF now
<1>4. GroupTyped'
  BY <1>1, <1>3 DEF GroupTyped, Answers
<1>5. EveryReplyIsObserved'
  BY <1>1 DEF EveryReplyIsObserved
<1>6. EveryRequestIsLicensed'
  BY <1>1 DEF EveryRequestIsLicensed
<1>7. DisturbanceExplainsException'
  <2>1. attempts # <<>> => attempts[1].requested_at \in Int
    <3>1. attempts # <<>> => attempts[1] \in ObservationType
      BY DEF GroupTyped
    <3>2. QED
      BY <3>1 DEF ObservationType
  <2>2. QED
    BY <1>1, <1>3, <2>1 DEF DisturbanceExplainsException, Undisturbed
<1>8. OutcomeOfLastReply'
  BY <1>1 DEF OutcomeOfLastReply
<1>9. RecordIsGenuine' /\ OnlyDisturbedGroupsLoseObservations'
  BY <1>1 DEF RecordIsGenuine, OnlyDisturbedGroupsLoseObservations
<1>10. QED
  BY <1>4, <1>5, <1>6, <1>7, <1>8, <1>9
\* The observation of the reply that has come, and the first of the group.
LEMMA ObservedFacts ==
    ASSUME attempts \in Seq(ObservationType), NEW reply, NEW now
    PROVE  LET observation == Observation(Len(attempts), Last(readings), now, Outcome(reply))
           IN  /\ Observed(reply, now) = Append(attempts, observation)
               /\ Last(Observed(reply, now)) = observation
               /\ Observed(reply, now)[1].requested_at
                    = IF attempts = <<>> THEN Last(readings) ELSE attempts[1].requested_at
<1> DEFINE observation == Observation(Len(attempts), Last(readings), now, Outcome(reply))
<1>1. observation.requested_at = Last(readings)
  BY DEF Observation
<1>2. Observed(reply, now) = Append(attempts, observation)
  BY DEF Observed
<1> HIDE DEF observation
<1>3. Len(attempts) \in Nat /\ (attempts # <<>> => Len(attempts) > 0)
  OBVIOUS
<1>4. Last(Append(attempts, observation)) = observation
  BY <1>3 DEF Last
<1>5. Append(attempts, observation)[1] = IF attempts = <<>> THEN observation ELSE attempts[1]
  BY <1>3
<1>6. QED
  BY <1>1, <1>2, <1>4, <1>5 DEF observation

\* An observation fails only when a field does not fit, or the clock was set back
\* since the group began.
LEMMA RaisesOnlyIfDisturbed ==
    ASSUME GroupInvariant, NEW reply \in ReplyType, NEW now \in Int,
           ClockRanForward, Last(readings) <= now
    PROVE  /\ FieldsFit(reply) => ~ObservationRaises(reply, now)
           /\ Observed(reply, now)[1].requested_at <= now
<1> DEFINE observation == Observation(Len(attempts), Last(readings), now, Outcome(reply))
           first == Observed(reply, now)[1].requested_at
<1>1. /\ attempts \in Seq(ObservationType)
      /\ Last(readings) \in Int
  BY DEF GroupInvariant, GroupTyped, Last
<1>2. /\ Last(Observed(reply, now)) = observation
      /\ first = IF attempts = <<>> THEN Last(readings) ELSE attempts[1].requested_at
  BY <1>1, ObservedFacts
<1>3. observation.requested_at = Last(readings) /\ observation.responded_at = now
  BY DEF Observation
<1>4. ObservationBounded(Last(Observed(reply, now)))
  BY <1>2, <1>3 DEF ObservationBounded
<1>5. first <= now
  <2>1. attempts # <<>> => attempts[1] \in ObservationType
    BY <1>1
  <2>2. attempts # <<>> => attempts[1].requested_at \in Int
    BY <2>1 DEF ObservationType
  <2>3. attempts # <<>> => attempts[1].requested_at <= Last(readings)
    BY DEF GroupInvariant, DisturbanceExplainsException
  <2> HIDE DEF first
  <2>4. QED
    BY <1>1, <1>2, <2>2, <2>3
<1>6. first \in Int
  <2>1. attempts # <<>> => attempts[1] \in ObservationType
    BY <1>1
  <2>2. attempts # <<>> => attempts[1].requested_at \in Int
    BY <2>1 DEF ObservationType
  <2>3. QED
    BY <1>1, <1>2, <2>2
<1>7. FieldsFit(reply) => ~ObservationRaises(reply, now)
  <2> HIDE DEF first
  <2>1. ~(now < first)
    BY <1>5, <1>6
  <2>2. QED
    BY <1>4, <2>1 DEF ObservationRaises, first
<1>8. QED
  BY <1>5, <1>7

\* A reply arrives.
LEMMA ReceivesKeeps ==
    ASSUME GroupInvariant, Receives
    PROVE  GroupInvariant'
<1>1. UNCHANGED <<call, record>> /\ pc = "waiting"
  BY DEF Receives
<1>2. PICK reply \in Answers, step \in ClockSteps :
        LET now == Last(readings) + step IN
          /\ readings' = Append(readings, now)
          /\ replies' = Append(replies, reply)
          /\ \/ /\ ObservationRaises(reply, now)
                /\ outcome' = Ended("exception", "transport_failure")
                /\ pc' = "ended"
                /\ UNCHANGED attempts
             \/ /\ ~ObservationRaises(reply, now)
                /\ attempts' = Observed(reply, now)
                /\ IF MayRetry(reply)
                   THEN pc' = "delaying" /\ UNCHANGED outcome
                   ELSE /\ pc' = "ended"
                        /\ outcome' = Ended(IF Outcome(reply) = "accepted"
                                            THEN "result" ELSE "failure",
                                            Outcome(reply))
  BY DEF Receives
<1> DEFINE now == Last(readings) + step
           observation == Observation(Len(attempts), Last(readings), now, Outcome(reply))
<1>3. /\ attempts \in Seq(ObservationType)
      /\ replies \in Seq(Answers)
      /\ readings \in Seq(Int) /\ readings # <<>>
      /\ Last(readings) \in Int
      /\ outcome = NotEnded /\ record = NoRecord
      /\ Len(attempts) = Len(replies)
      /\ Len(replies) \in 0..MaximumRetries
      /\ RequestBuilds(call)
  <2>1. /\ attempts \in Seq(ObservationType)
        /\ replies \in Seq(Answers)
        /\ readings \in Seq(Int) /\ readings # <<>>
    BY DEF GroupInvariant, GroupTyped
  <2>2. outcome = NotEnded /\ record = NoRecord /\ RequestBuilds(call)
    BY <1>1 DEF GroupInvariant, OutcomeOfLastReply
  <2>3. Len(attempts) = Len(replies)
    BY <2>2 DEF GroupInvariant, EveryReplyIsObserved, NotEnded, Ended
  <2>4. Len(replies) \in 0..MaximumRetries
    BY <1>1, <2>1, TransportConstants DEF GroupInvariant, EveryRequestIsLicensed
  <2>5. Last(readings) \in Int
    BY <2>1 DEF Last
  <2>6. QED
    BY <2>1, <2>2, <2>3, <2>4, <2>5
<1>4. /\ reply \in ReplyType
      /\ now \in Int
      /\ MaximumRetries \in 0..2
  BY <1>3, TransportConstants DEF Answers
<1>5. /\ readings' \in Seq(Int) /\ readings' # <<>>
      /\ Last(readings') = now
      /\ ClockRanForward' => ClockRanForward /\ Last(readings) <= now
  <2> HIDE DEF now
  <2>1. readings' = Append(readings, now)
    BY <1>2 DEF now
  <2>2. QED
    BY <1>3, <1>4, <2>1, ReadingAppended
<1>6. /\ replies' \in Seq(Answers)
      /\ Len(replies') = Len(replies) + 1
      /\ replies' # <<>>
      /\ Last(replies') = reply
      /\ replies'[Len(replies) + 1] = reply
      /\ \A k \in 1..Len(replies) : replies'[k] = replies[k]
  BY <1>2, <1>3, LastOfAppended
<1>7. \/ /\ ObservationRaises(reply, now)
         /\ outcome' = Ended("exception", "transport_failure")
         /\ pc' = "ended"
         /\ attempts' = attempts
      \/ /\ ~ObservationRaises(reply, now)
         /\ attempts' = Append(attempts, observation)
         /\ \/ /\ Retryable(reply) /\ Len(attempts) < MaximumRetries
               /\ pc' = "delaying" /\ outcome' = NotEnded
            \/ /\ pc' = "ended"
               /\ outcome'.how = IF Outcome(reply) = "accepted" THEN "result" ELSE "failure"
               /\ outcome'.result = Outcome(reply)
  BY <1>2, <1>3 DEF MayRetry, Observed, Ended
<1>8. observation \in ObservationType
  BY <1>3, <1>4, AcceptedWhenClean DEF ObservationType, Observation
<1>9. /\ observation.attempt_index = Len(attempts)
      /\ observation.outcome = Outcome(reply)
  BY DEF Observation
<1>10. ClockRanForward' => /\ FieldsFit(reply) => ~ObservationRaises(reply, now)
                           /\ Observed(reply, now)[1].requested_at <= now
  BY <1>4, <1>5, RaisesOnlyIfDisturbed
<1>11. /\ Append(attempts, observation) \in Seq(ObservationType)
       /\ Len(Append(attempts, observation)) = Len(attempts) + 1
       /\ Append(attempts, observation)[Len(attempts) + 1] = observation
       /\ \A k \in 1..Len(attempts) : Append(attempts, observation)[k] = attempts[k]
  BY <1>3, <1>8, LastOfAppended
<1>12. Observed(reply, now) = Append(attempts, observation)
  BY DEF Observed
<1> HIDE DEF now, observation
<1>13. GroupTyped'
  <2>1. Answers' = Answers
    BY <1>1 DEF Answers
  <2>2. QED
    BY <1>1, <1>5, <1>6, <1>7, <1>11, <2>1 DEF GroupInvariant, GroupTyped
<1>14. EveryReplyIsObserved'
  <2>1. \A k \in 1..Len(attempts) :
          /\ k <= Len(replies)
          /\ attempts[k].attempt_index = k - 1
          /\ attempts[k].outcome = Outcome(replies[k])
    BY DEF GroupInvariant, EveryReplyIsObserved
  <2>2. CASE attempts' = attempts
    <3>1. outcome'.how = "exception"
      BY <1>3, <1>7, <1>11, <2>2 DEF Ended
    <3>2. QED
      BY <1>3, <1>6, <2>1, <2>2, <3>1 DEF EveryReplyIsObserved
  <2>3. CASE attempts' = Append(attempts, observation)
    <3>1. ASSUME NEW k \in 1..Len(attempts')
          PROVE  /\ k <= Len(replies')
                 /\ attempts'[k].attempt_index = k - 1
                 /\ attempts'[k].outcome = Outcome(replies'[k])
      <4>1. CASE k \in 1..Len(attempts)
        BY <1>3, <1>6, <1>11, <2>1, <2>3, <4>1
      <4>2. CASE k = Len(attempts) + 1
        BY <1>3, <1>6, <1>9, <1>11, <2>3, <4>2
      <4>3. QED
        BY <1>3, <1>11, <2>3, <4>1, <4>2
    <3>2. Len(attempts') = Len(replies')
      BY <1>3, <1>6, <1>11, <2>3
    <3>3. QED
      BY <3>1, <3>2 DEF EveryReplyIsObserved
  <2>4. QED
    BY <1>7, <2>2, <2>3
<1>15. EveryRequestIsLicensed'
  <2>1. Len(replies') <= MaximumRetries + 1
    BY <1>3, <1>4, <1>6
  <2>2. pc' \in Asking => Len(replies') <= MaximumRetries /\ Retryable(reply)
    BY <1>3, <1>4, <1>6, <1>7
  <2>3. ASSUME NEW k \in 1..Len(replies'), k < Len(replies') \/ pc' \in Asking
        PROVE  Retryable(replies'[k])
    <3>1. CASE k \in 1..Len(replies)
      BY <1>1, <1>6, <3>1 DEF GroupInvariant, EveryRequestIsLicensed
    <3>2. CASE k = Len(replies) + 1
      BY <1>3, <1>6, <2>2, <2>3, <3>2
    <3>3. QED
      BY <1>3, <1>6, <3>1, <3>2
  <2>4. QED
    BY <2>1, <2>2, <2>3 DEF EveryRequestIsLicensed
<1>16. DisturbanceExplainsException'
  <2>1. ASSUME ClockRanForward', attempts' # <<>>
        PROVE  attempts'[1].requested_at <= Last(readings')
    <3>1. Observed(reply, now)[1].requested_at <= now
      BY <1>10, <2>1
    <3>2. attempts # <<>> => Observed(reply, now)[1].requested_at = attempts[1].requested_at
      BY <1>3, ObservedFacts
    <3>3. attempts' = attempts \/ attempts' = Observed(reply, now)
      BY <1>7, <1>12
    <3>4. QED
      BY <1>5, <2>1, <3>1, <3>2, <3>3
  <2>2. ASSUME Undisturbed'
        PROVE  outcome'.how # "exception"
    <3>1. ClockRanForward' /\ FieldsFit(reply)
      BY <1>3, <1>6, <2>2 DEF Undisturbed
    <3>2. ~ObservationRaises(reply, now)
      BY <1>10, <3>1
    <3>3. NotEnded.how # "exception"
      BY DEF NotEnded, Ended
    <3>4. \/ outcome' = NotEnded
          \/ outcome'.how = IF Outcome(reply) = "accepted" THEN "result" ELSE "failure"
      BY <1>7, <3>2
    <3>5. QED
      BY <3>3, <3>4
  <2>3. QED
    BY <2>1, <2>2 DEF DisturbanceExplainsException
<1>17. OutcomeOfLastReply'
  BY <1>1, <1>3, <1>6, <1>7 DEF OutcomeOfLastReply, Ended
<1>18. RecordIsGenuine' /\ OnlyDisturbedGroupsLoseObservations'
  BY <1>1, <1>7 DEF RecordIsGenuine, OnlyDisturbedGroupsLoseObservations
<1>19. QED
  BY <1>13, <1>14, <1>15, <1>16, <1>17, <1>18 DEF GroupInvariant
\* A reply is good exactly when it is accepted.
LEMMA GoodIsAccepted ==
    ASSUME call \in Calls, NEW reply \in Answers
    PROVE  Good(reply) <=> Clean(reply) /\ AcceptGoverned(reply)
<1>1. reply \in ReplyType /\ OfContractType(call.action, reply.output)
  BY TransportConstants DEF Answers
<1>2. /\ reply.output.verified \in BOOLEAN
      /\ \A challenge \in reply.output.challenges : challenge.failed \in BOOLEAN
  <2>1. reply.output \in OutputType
    BY <1>1 DEF ReplyType
  <2>2. QED
    BY <2>1 DEF OutputType
<1>3. OutputValid(call, reply.output) <=> Grounded(reply.output)
  BY <1>1, <1>2, ValidIsGrounded
<1>4. QED
  BY <1>3 DEF Good, AcceptGoverned

\* What a group that has ended has to record.
LEMMA EndedGroup ==
    ASSUME GroupInvariant, pc = "ended"
    PROVE  /\ call \in Calls
           /\ replies # <<>> /\ Last(replies) \in Answers
           /\ record = NoRecord /\ RequestBuilds(call)
           /\ Good(Last(replies)) <=> Clean(Last(replies)) /\ AcceptGoverned(Last(replies))
           /\ \A k \in 1..Len(replies) : Outcome(replies[k]) = "accepted" <=> Clean(replies[k])
           /\ outcome.how = "exception" => ~Undisturbed
           /\ outcome.how # "exception" =>
                /\ attempts \in Seq(ObservationType)
                /\ Len(attempts) = Len(replies) /\ Len(replies) \in 1..3
                /\ \A k \in 1..Len(replies) : /\ attempts[k].attempt_index = k - 1
                                              /\ attempts[k].outcome = Outcome(replies[k])
           /\ outcome.how = "result" => Clean(Last(replies))
           /\ outcome.how = "failure" => /\ outcome.result = Outcome(Last(replies))
                                         /\ outcome.result # "accepted"
                                         /\ ~Clean(Last(replies))
<1>1. /\ call \in Calls
      /\ replies \in Seq(Answers)
      /\ attempts \in Seq(ObservationType)
  BY DEF GroupInvariant, GroupTyped
<1>2. /\ replies # <<>>
      /\ record = NoRecord /\ RequestBuilds(call)
      /\ outcome.how = "result" => Outcome(Last(replies)) = "accepted"
      /\ outcome.how = "failure" => /\ outcome.result = Outcome(Last(replies))
                                    /\ outcome.result # "accepted"
  BY DEF GroupInvariant, OutcomeOfLastReply
<1>3. Len(replies) \in Nat \ {0} /\ Last(replies) \in Answers
  BY <1>1, <1>2 DEF Last
<1>4. Answers \subseteq ReplyType
  BY TransportConstants DEF Answers
<1>5. \A reply \in Answers : Outcome(reply) = "accepted" <=> Clean(reply)
  BY <1>4, AcceptedWhenClean
<1>6. \A k \in 1..Len(replies) : Outcome(replies[k]) = "accepted" <=> Clean(replies[k])
  BY <1>1, <1>5
<1>7. outcome.how = "exception" => ~Undisturbed
  BY DEF GroupInvariant, DisturbanceExplainsException
<1>8. outcome.how # "exception" =>
        /\ Len(attempts) = Len(replies)
        /\ \A k \in 1..Len(replies) : /\ attempts[k].attempt_index = k - 1
                                      /\ attempts[k].outcome = Outcome(replies[k])
  BY DEF GroupInvariant, EveryReplyIsObserved
<1>9. Len(replies) \in 1..3
  <2>1. Len(replies) <= MaximumRetries + 1
    BY DEF GroupInvariant, EveryRequestIsLicensed
  <2>2. MaximumRetries \in 0..2
    BY TransportConstants
  <2>3. \A n \in Nat \ {0}, m \in 0..2 : n <= m + 1 => n \in 1..3
    OBVIOUS
  <2>4. QED
    BY <1>3, <2>1, <2>2, <2>3
<1>10. Good(Last(replies)) <=> Clean(Last(replies)) /\ AcceptGoverned(Last(replies))
  BY <1>1, <1>3, GoodIsAccepted
<1>11. QED
  BY <1>1, <1>2, <1>3, <1>5, <1>6, <1>7, <1>8, <1>9, <1>10

\* A step that ends the call has to show only what was recorded.
LEMMA EndingKeeps ==
    ASSUME GroupInvariant, pc = "ended", pc' = "done",
           UNCHANGED <<call, readings, replies, attempts, outcome>>,
           LET good == Good(Last(replies))
           IN  /\ record' = NoRecord => good /\ call.effective_at <= call.case.last_event_at
               /\ record'.status = "accepted" => good
               /\ record'.status = "failed" => ~good \/ ~Undisturbed,
           record' # NoRecord /\ Undisturbed =>
             /\ Len(record'.attempts) = Len(replies)
             /\ \A k \in 1..Len(replies) :
                  /\ k < Len(replies) \/ ~Clean(replies[k]) =>
                       record'.attempts[k].outcome = Outcome(replies[k])
                  /\ Clean(replies[k]) => record'.attempts[k].outcome \in
                                            {"accepted", "semantic_policy_failure"}
    PROVE  GroupInvariant'
<1>1. GroupTyped'
  BY DEF GroupInvariant, GroupTyped, Answers
<1>2. EveryReplyIsObserved'
  BY DEF GroupInvariant, EveryReplyIsObserved
<1>3. EveryRequestIsLicensed'
  BY DEF GroupInvariant, EveryRequestIsLicensed
<1>4. DisturbanceExplainsException'
  BY DEF GroupInvariant, DisturbanceExplainsException, Undisturbed, ClockRanForward
<1>5. OutcomeOfLastReply'
  BY DEF GroupInvariant, OutcomeOfLastReply
<1>6. Good(Last(replies))' <=> Good(Last(replies))
  BY DEF Good, Grounded, Summaries
<1>7. Undisturbed' <=> Undisturbed
  BY DEF Undisturbed, ClockRanForward
<1>8. RecordIsGenuine'
  BY <1>6, <1>7 DEF RecordIsGenuine
<1>9. OnlyDisturbedGroupsLoseObservations'
  BY <1>7 DEF OnlyDisturbedGroupsLoseObservations
<1>10. QED
  BY <1>1, <1>2, <1>3, <1>4, <1>5, <1>8, <1>9 DEF GroupInvariant

\* A classified failure is recorded with the observations as they are.
LEMMA RecordFailureKeeps ==
    ASSUME GroupInvariant, RecordFailure
    PROVE  GroupInvariant'
<1> DEFINE built == Record("failed", attempts, outcome.result)
<1>1. pc = "ended" /\ outcome.how = "failure" /\ Builds(built)
  BY DEF RecordFailure
<1>2. built.status = "failed" /\ built.attempts = attempts /\ built.failure_outcome = outcome.result
  BY DEF Record
<1>3. /\ Len(attempts) = Len(replies) /\ Len(replies) \in 1..3
      /\ \A k \in 1..Len(replies) : /\ attempts[k].attempt_index = k - 1
                                    /\ attempts[k].outcome = Outcome(replies[k])
      /\ attempts \in Seq(ObservationType)
      /\ outcome.result = Outcome(Last(replies)) /\ outcome.result # "accepted"
      /\ \A k \in 1..Len(replies) : Outcome(replies[k]) = "accepted" <=> Clean(replies[k])
      /\ ~Good(Last(replies))
  BY <1>1, EndedGroup
<1>4. Last(attempts).outcome = Outcome(Last(replies))
  BY <1>3 DEF Last
<1> HIDE DEF built
<1>5. RecordValid(built)
  BY <1>2, <1>3, <1>4 DEF RecordValid
<1>6. /\ record' = built /\ pc' = "done"
      /\ UNCHANGED <<call, readings, replies, attempts, outcome>>
  BY <1>1, <1>5 DEF Builds
<1>7. built # NoRecord
  BY <1>2 DEF NoRecord
<1>8. QED
  BY <1>1, <1>2, <1>3, <1>6, <1>7, EndingKeeps

\* Any other exception is recorded as one attempt: the group was disturbed.
LEMMA RecordUnclassifiedKeeps ==
    ASSUME GroupInvariant, RecordUnclassified
    PROVE  GroupInvariant'
<1> DEFINE built == Record("failed", <<UnclassifiedAttempt>>, "transport_failure")
<1>1. pc = "ended" /\ outcome.how = "exception" /\ Builds(built)
  BY DEF RecordUnclassified
<1>2. /\ built.status = "failed" /\ built.attempts = <<UnclassifiedAttempt>>
      /\ built.failure_outcome = "transport_failure"
  BY DEF Record
<1>3. ~Undisturbed
  BY <1>1, EndedGroup
<1>4. UnclassifiedAttempt.attempt_index = 0 /\ UnclassifiedAttempt.outcome = "transport_failure"
  BY DEF UnclassifiedAttempt, Observation
<1> HIDE DEF built
<1>5. RecordValid(built)
  BY <1>2, <1>4 DEF RecordValid, Last
<1>6. /\ record' = built /\ pc' = "done"
      /\ UNCHANGED <<call, readings, replies, attempts, outcome>>
  BY <1>1, <1>5 DEF Builds
<1>7. built # NoRecord
  BY <1>2 DEF NoRecord
<1>8. QED
  BY <1>1, <1>2, <1>3, <1>6, <1>7, EndingKeeps

\* A clean reply that is not accepted is recorded as a failure of its own.
LEMMA RecordRefusalKeeps ==
    ASSUME GroupInvariant, RecordRefusal
    PROVE  GroupInvariant'
<1> DEFINE built == Record("failed", SemanticFailureAttempts, "semantic_policy_failure")
<1>1. pc = "ended" /\ outcome.how = "result" /\ ~AcceptGoverned(Last(replies)) /\ Builds(built)
  BY DEF RecordRefusal
<1>2. /\ built.status = "failed" /\ built.attempts = SemanticFailureAttempts
      /\ built.failure_outcome = "semantic_policy_failure"
  BY DEF Record
<1>3. /\ Len(attempts) = Len(replies) /\ Len(replies) \in 1..3
      /\ \A k \in 1..Len(replies) : /\ attempts[k].attempt_index = k - 1
                                    /\ attempts[k].outcome = Outcome(replies[k])
      /\ attempts \in Seq(ObservationType)
      /\ \A k \in 1..Len(replies) : Outcome(replies[k]) = "accepted" <=> Clean(replies[k])
      /\ Clean(Last(replies)) /\ ~Good(Last(replies))
  BY <1>1, EndedGroup
<1>4. /\ Len(SemanticFailureAttempts) = Len(replies)
      /\ DOMAIN SemanticFailureAttempts = 1..Len(replies)
      /\ \A k \in 1..Len(replies) : SemanticFailureAttempts[k].attempt_index = k - 1
      /\ SemanticFailureAttempts[Len(replies)].outcome = "semantic_policy_failure"
      /\ \A k \in 1..Len(replies) :
           k < Len(replies) => SemanticFailureAttempts[k].outcome = Outcome(replies[k])
  <2>1. \A k \in 1..Len(attempts) : attempts[k] \in ObservationType
    BY <1>3
  <2>2. SemanticFailureAttempts
          = [attempts EXCEPT ![Len(attempts)] =
               [attempts[Len(attempts)] EXCEPT !.outcome = "semantic_policy_failure"]]
    BY DEF SemanticFailureAttempts
  <2>3. DOMAIN attempts = 1..Len(attempts)
    BY <1>3
  <2>4. /\ DOMAIN SemanticFailureAttempts = 1..Len(attempts)
        /\ \A k \in 1..Len(attempts) :
             SemanticFailureAttempts[k] =
               IF k = Len(attempts)
               THEN [attempts[k] EXCEPT !.outcome = "semantic_policy_failure"]
               ELSE attempts[k]
    BY <2>2, <2>3
  <2>5. \A k \in 1..Len(attempts) :
          LET changed == [attempts[k] EXCEPT !.outcome = "semantic_policy_failure"]
          IN  /\ changed.attempt_index = attempts[k].attempt_index
              /\ changed.outcome = "semantic_policy_failure"
    BY <2>1 DEF ObservationType
  <2>6. SemanticFailureAttempts \in Seq(ObservationType)
    <3>1. \A k \in 1..Len(attempts) : SemanticFailureAttempts[k] \in ObservationType
      BY <2>1, <2>4 DEF ObservationType, Outcomes
    <3>2. SemanticFailureAttempts = [k \in 1..Len(attempts) |-> SemanticFailureAttempts[k]]
      BY <2>3 DEF SemanticFailureAttempts
    <3>3. Len(attempts) \in Nat
      BY <1>3
    <3> HIDE DEF SemanticFailureAttempts
    <3>4. QED
      BY <3>1, <3>2, <3>3
  <2>7. Len(SemanticFailureAttempts) = Len(replies)
    BY <1>3, <2>4, <2>6
  <2>8. \A k \in 1..Len(replies) : SemanticFailureAttempts[k].attempt_index = k - 1
    BY <1>3, <2>4, <2>5
  <2>9. SemanticFailureAttempts[Len(replies)].outcome = "semantic_policy_failure"
    <3>1. Len(attempts) \in 1..Len(attempts)
      BY <1>3
    <3>2. SemanticFailureAttempts[Len(attempts)]
            = [attempts[Len(attempts)] EXCEPT !.outcome = "semantic_policy_failure"]
      BY <2>4, <3>1
    <3>3. QED
      BY <1>3, <2>5, <3>1, <3>2
  <2>10. \A k \in 1..Len(replies) :
           k < Len(replies) => SemanticFailureAttempts[k].outcome = Outcome(replies[k])
    BY <1>3, <2>4
  <2>11. QED
    BY <1>3, <2>4, <2>7, <2>8, <2>9, <2>10
<1> HIDE DEF built
<1>5. RecordValid(built)
  BY <1>2, <1>3, <1>4 DEF RecordValid, Last
<1>6. /\ record' = built /\ pc' = "done"
      /\ UNCHANGED <<call, readings, replies, attempts, outcome>>
  BY <1>1, <1>5 DEF Builds
<1>7. built # NoRecord
  BY <1>2 DEF NoRecord
<1>8. \A k \in 1..Len(replies) :
        /\ k < Len(replies) \/ ~Clean(replies[k]) =>
             record'.attempts[k].outcome = Outcome(replies[k])
        /\ Clean(replies[k]) => record'.attempts[k].outcome \in
                                  {"accepted", "semantic_policy_failure"}
  <2>1. ASSUME NEW k \in 1..Len(replies), k < Len(replies)
        PROVE  /\ record'.attempts[k].outcome = Outcome(replies[k])
               /\ Clean(replies[k]) => record'.attempts[k].outcome = "accepted"
    BY <1>2, <1>3, <1>4, <1>6, <2>1
  <2>2. ASSUME NEW k \in 1..Len(replies), k = Len(replies)
        PROVE  Clean(replies[k]) /\ record'.attempts[k].outcome = "semantic_policy_failure"
    BY <1>2, <1>3, <1>4, <1>6, <2>2 DEF Last
  <2>3. QED
    BY <1>3, <2>1, <2>2
<1>9. QED
  BY <1>1, <1>2, <1>3, <1>4, <1>6, <1>7, <1>8, EndingKeeps

\* The machine refuses an accepted reply only for its time.
LEMMA EventRefusedKeeps ==
    ASSUME GroupInvariant, EventRefused
    PROVE  GroupInvariant'
<1>1. /\ pc = "ended" /\ outcome.how = "result"
      /\ AcceptGoverned(Last(replies)) /\ ~EventAdvances(call)
      /\ pc' = "done" /\ UNCHANGED <<call, readings, replies, attempts, outcome, record>>
  BY DEF EventRefused
<1>2. /\ call \in Calls /\ RequestBuilds(call) /\ record = NoRecord
      /\ Good(Last(replies))
  BY <1>1, EndedGroup
<1>3. call.effective_at \in Nat /\ call.case.last_event_at \in Nat
  BY <1>2, TransportConstants DEF CallType, CaseType
<1>4. call.effective_at <= call.case.last_event_at
  BY <1>1, <1>2, <1>3, OnlyTimeRefusesEvent
<1>5. record' = NoRecord /\ NoRecord.status \notin {"accepted", "failed"}
  BY <1>1, <1>2 DEF NoRecord
<1>6. QED
  BY <1>1, <1>2, <1>4, <1>5, EndingKeeps

\* An accepted reply is recorded with the observations as they are.
LEMMA RecordAcceptedKeeps ==
    ASSUME GroupInvariant, RecordAccepted
    PROVE  GroupInvariant'
<1> DEFINE built == Record("accepted", attempts, "accepted")
<1>1. pc = "ended" /\ outcome.how = "result" /\ AcceptGoverned(Last(replies)) /\ Builds(built)
  BY DEF RecordAccepted
<1>2. built.status = "accepted" /\ built.attempts = attempts
  BY DEF Record
<1>3. /\ Len(attempts) = Len(replies) /\ Len(replies) \in 1..3
      /\ \A k \in 1..Len(replies) : /\ attempts[k].attempt_index = k - 1
                                    /\ attempts[k].outcome = Outcome(replies[k])
      /\ attempts \in Seq(ObservationType)
      /\ \A k \in 1..Len(replies) : Outcome(replies[k]) = "accepted" <=> Clean(replies[k])
      /\ Clean(Last(replies)) /\ Good(Last(replies))
  BY <1>1, EndedGroup
<1>4. Last(attempts).outcome = "accepted"
  BY <1>3 DEF Last
<1> HIDE DEF built
<1>5. RecordValid(built)
  BY <1>2, <1>3, <1>4 DEF RecordValid
<1>6. /\ record' = built /\ pc' = "done"
      /\ UNCHANGED <<call, readings, replies, attempts, outcome>>
  BY <1>1, <1>5 DEF Builds
<1>7. built # NoRecord
  BY <1>2 DEF NoRecord
<1>8. QED
  BY <1>1, <1>2, <1>3, <1>6, <1>7, EndingKeeps
\* Every step keeps the invariant.
LEMMA StepKeeps == GroupInvariant /\ [Next]_vars => GroupInvariant'
<1> SUFFICES ASSUME GroupInvariant, [Next]_vars PROVE GroupInvariant'
  OBVIOUS
<1>1. CASE RequestBuilt
  BY <1>1, MovingOnKeeps
<1>2. CASE RequestRefused
  BY <1>2, MovingOnKeeps
<1>3. CASE Requests
  BY <1>3, RequestsKeep
<1>4. CASE Receives
  BY <1>4, ReceivesKeeps
<1>5. CASE Delays
  BY <1>5, MovingOnKeeps
<1>6. CASE RecordFailure
  BY <1>6, RecordFailureKeeps
<1>7. CASE RecordUnclassified
  BY <1>7, RecordUnclassifiedKeeps
<1>8. CASE RecordRefusal
  BY <1>8, RecordRefusalKeeps
<1>9. CASE EventRefused
  BY <1>9, EventRefusedKeeps
<1>10. CASE RecordAccepted
  BY <1>10, RecordAcceptedKeeps
<1>11. CASE UNCHANGED vars
  BY <1>11, MovingOnKeeps
<1>12. QED
  BY <1>1, <1>2, <1>3, <1>4, <1>5, <1>6, <1>7, <1>8, <1>9, <1>10, <1>11 DEF Next

\* The invariant holds of every group.
LEMMA GroupAlwaysHolds == Spec => []GroupInvariant
BY InitHolds, StepKeeps, PTL DEF Spec

\* No reply but a transient failure is followed by another request, and there
\* are at most MaximumRetries of those.
THEOREM RetriesAreAlwaysLicensed == Spec => []RetriesAreLicensed
<1>1. GroupInvariant => RetriesAreLicensed
  <2> SUFFICES ASSUME GroupInvariant PROVE RetriesAreLicensed
    OBVIOUS
  <2>1. replies \in Seq(ReplyType)
    BY TransportConstants DEF GroupInvariant, GroupTyped, Answers
  <2>2. DOMAIN replies = 1..Len(replies)
    BY <2>1
  <2>3. ASSUME NEW k \in DOMAIN replies, k < Len(replies) \/ pc \in Asking
        PROVE  replies[k].error \in Transient
    <3>1. replies[k] \in ReplyType
      BY <2>1, <2>3
    <3>2. Retryable(replies[k])
      BY <2>2, <2>3 DEF GroupInvariant, EveryRequestIsLicensed
    <3>3. QED
      BY <3>1, <3>2, RetriedIsTransient
  <2>4. QED
    BY <2>3 DEF RetriesAreLicensed, GroupInvariant, EveryRequestIsLicensed
<1>2. QED
  BY <1>1, GroupAlwaysHolds, PTL

\* What a call leaves behind is true of the last reply of its group: acceptance
\* of a good one, failure of another one or in a disturbed group, and nothing only
\* when the machine refuses a good one for its time.
THEOREM RecordIsAlwaysGenuine == Spec => []RecordIsGenuine
<1>1. GroupInvariant => RecordIsGenuine
  BY DEF GroupInvariant
<1>2. QED
  BY <1>1, GroupAlwaysHolds, PTL

\* When the clock runs forward and the identifier and the model name of every
\* response fit, every request has its observation on record.
THEOREM OnlyDisturbedGroupsEverLoseObservations == Spec => []OnlyDisturbedGroupsLoseObservations
<1>1. GroupInvariant => OnlyDisturbedGroupsLoseObservations
  BY DEF GroupInvariant
<1>2. QED
  BY <1>1, GroupAlwaysHolds, PTL

\* If a provider may give any clean answer, it can answer what it is asked, but for
\* a Chair's request that leaves out what the verdict rests on.
THEOREM RequestIsAlwaysAnswerable ==
    ASSUME { reply \in ReplyType : Clean(reply) } \subseteq Replies
    PROVE  Spec => []RequestIsAnswerable
<1>1. GroupInvariant => RequestIsAnswerable
  <2> SUFFICES ASSUME GroupInvariant, pc = "requesting"
               PROVE  (\E reply \in Answers : Clean(reply) /\ FieldsFit(reply) /\ AcceptGoverned(reply))
                        <=> (call.action = "explain_verdict" => CoversVerdict)
    BY DEF RequestIsAnswerable
  <2>1. call \in Calls /\ RequestBuilds(call)
    BY DEF GroupInvariant, GroupTyped, OutcomeOfLastReply
  <2>2. QED
    BY <2>1, BuiltIsAnswerable
<1>2. QED
  BY <1>1, GroupAlwaysHolds, PTL
===============================================================================
