------------------------- MODULE GovernedCaseProofs -------------------------
(***************************************************************************)
(* What a recorded verdict guarantees, for every set of documents, every   *)
(* evidence table and every clock, and what the policy behind it computes. *)
(*                                                                         *)
(* The argument: whatever the caller of a step does, the step appends one  *)
(* event that the log accepted together with the case it leaves behind     *)
(* (NextAppends).  An accepted event advances the chain by one state       *)
(* (AuthorityAdvancesByOne), so the k-th event is the one that introduced  *)
(* state k, and the log verifies as a whole.  ChainInvariant says this;    *)
(* every property of the record is read off it.  The theorems about the    *)
(* policy, over PolicyGates, stand at the end.                             *)
(***************************************************************************)
EXTENDS GovernedCase, PolicyGates, TLAPS

USE DEF CLAIM_RECEIVED, RESEARCHER_PROTOCOL_PROPOSED, METHODOLOGY_REVIEWED,
        HUMAN_APPROVAL, CONSTITUTION_LOCKED, EXPERIMENT_EXECUTED,
        STATISTICS_REVIEWED, ADVERSARIAL_REVIEWED, OPTIONAL_FOLLOW_UP,
        REPRODUCIBILITY_VERIFIED, VERDICT_ELIGIBILITY_COMPUTED,
        CHAIR_EXPLANATION, WorkflowStates, NoState

\* The rule table is a chain: an authorized transition goes to the next state.
LEMMA AuthorityAdvancesByOne ==
    ASSUME NEW source, NEW target, NEW actor, NEW action,
           TransitionAuthorized(source, target, actor, action)
    PROVE  /\ source \in 0..11
           /\ target = source + 1
           /\ actor \in RoleNames
           /\ action \in Actions
BY DEF TransitionAuthorized, RULES, TransitionRule, RoleNames, Actions

\* Every step of the machine is one accepted append of the log, at a time the
\* clock of events allows.
LEMMA NextAppends ==
    ASSUME Next
    PROVE  \E event, expected :
               /\ LogAccepts(event, expected)
               /\ event.timestamp \in EventTimes
               /\ events' = Append(events, event)
               /\ case' = expected
  <1> DEFINE Accepted == \E event, expected :
               /\ LogAccepts(event, expected)
               /\ event.timestamp \in EventTimes
               /\ events' = Append(events, event)
               /\ case' = expected
  <1>1. ASSUME NEW target, NEW actor, NEW action, NEW timestamp \in EventTimes,
               NEW payload, NEW changes,
               Advance(target, actor, action, timestamp, payload, changes)
        PROVE  Accepted
    BY <1>1 DEF Advance, AuditAppend, Event
  <1>2. ASSUME NEW target, NEW timestamp \in EventTimes, NEW payload, NEW others,
               CallAdvance(target, timestamp, payload, others)
        PROVE  Accepted
    BY <1>1, <1>2 DEF CallAdvance
  <1>3. ASSUME NEW target, NEW bodies, AdvanceWithDocument(target, bodies)
        PROVE  Accepted
    BY <1>2, <1>3 DEF AdvanceWithDocument
  <1>4. ASSUME NEW disposition, NEW action, ResolveFollowUp(disposition, action)
        PROVE  Accepted
    BY <1>4 DEF ResolveFollowUp, RecordFollowUp, AuditAppend, Event
  <1>5. CASE LoadEvidence
    BY <1>2, <1>5 DEF LoadEvidence
  <1>6. CASE EnterFollowUp
    BY <1>1, <1>6 DEF EnterFollowUp
  <1>7. CASE ComputeVerdict
    BY <1>2, <1>7 DEF ComputeVerdict
  <1>8. QED
    BY <1>3, <1>4, <1>5, <1>6, <1>7
    DEF Next, ProposeProtocol, ReviewMethodology, RecordApproval, LockConstitution,
        ReviewStatistics, ReviewAdversarially, SkipFollowUp, CompleteFollowUp,
        ExplainVerdict

-----------------------------------------------------------------------------

\* A case that has just begun is chained, and stays chained.
LEMMA InitEstablishesChain == Init => ChainInvariant
  <1> SUFFICES ASSUME Init PROVE ChainInvariant
    OBVIOUS
  <1>1. /\ Len(events) = 1
        /\ events[1] = Event(1, "system", "receive_claim", 1, Dated([claim |-> TRUE], 1))
        /\ events \in Seq({events[k] : k \in DOMAIN events})
    BY DEF Init
  <1>2. ReplayedCase(events, 1) = [state |-> 1, doc |-> [s \in {1} |-> events[1].payload]]
    <2>1. Staged(1) = {1}
      BY DEF Staged
    <2>2. RecordedField(events[1]) = events[1].payload
      BY <1>1 DEF RecordedField, Event
    <2>3. QED
      BY <1>1, <2>1, <2>2 DEF ReplayedCase, Event
  <1>3. Governed(ReplayedCase(events, 1))
    BY <1>1, <1>2 DEF Governed, FieldsMatchState, ProtocolGoverned, ChairBound,
        DocumentTimesMonotonic, Staged, Timed, Event, Dated
  <1>4. TransitionAuthorized(0, 1, "system", "receive_claim")
    BY DEF TransitionAuthorized, RULES, TransitionRule
  <1>5. ReplayStep(events, 1)
    BY <1>1, <1>3, <1>4 DEF ReplayStep, Event, Dated
  <1>6. LogVerifies(events)
    BY <1>1, <1>5 DEF LogVerifies
  <1>7. QED
    BY <1>1, <1>6 DEF ChainInvariant, CaseIsReplayOfLog, Init, Event

\* Each step of the workflow keeps the chain.
LEMMA NextPreservesChain == ChainInvariant /\ [Next]_vars => ChainInvariant'
  <1> SUFFICES ASSUME ChainInvariant, [Next]_vars PROVE ChainInvariant'
    OBVIOUS
  <1>1. CASE Next
    <2>1. PICK event, expected :
              /\ LogAccepts(event, expected)
              /\ events' = Append(events, event)
              /\ case' = expected
      BY <1>1, NextAppends
    <2> DEFINE S == {events[k] : k \in DOMAIN events} \cup {event}
    <2>2. events \in Seq(S)
      BY DEF ChainInvariant
    <2>3. /\ events' \in Seq(S)
          /\ Len(events') = Len(events) + 1
          /\ \A k \in 1..Len(events) : events'[k] = events[k]
          /\ events'[Len(events) + 1] = event
      BY <2>1, <2>2
    <2>4. event.workflow_state = Len(events) + 1
      <3>1. TransitionAuthorized(events[Len(events)].workflow_state, event.workflow_state,
                                 event.actor, event.action)
        BY <2>1 DEF LogAccepts, LastEvent
      <3>2. events[Len(events)].workflow_state = Len(events)
        BY <2>2 DEF ChainInvariant
      <3>3. QED
        BY <3>1, <3>2, AuthorityAdvancesByOne
    <2>5. \A k \in 1..Len(events') : events'[k].workflow_state = k
      BY <2>2, <2>3, <2>4 DEF ChainInvariant
    <2>6. LogVerifies(events') /\ case' = ReplayCase(events')
      BY <2>1 DEF LogAccepts
    <2>7. events' \in Seq({events'[k] : k \in DOMAIN events'})
      BY <2>3
    <2>8. Len(events') >= 1
      BY <2>2, <2>3
    <2>9. QED
      BY <2>5, <2>6, <2>7, <2>8 DEF ChainInvariant, CaseIsReplayOfLog
  <1>2. CASE UNCHANGED vars
    BY <1>2 DEF vars, ChainInvariant, CaseIsReplayOfLog
  <1>3. QED
    BY <1>1, <1>2

\* StateMachine and AuditLog never drift apart: the log verifies and the case
\* is its replay, for every caller and every document.
THEOREM CaseAlwaysReplays == Spec => []CaseIsReplayOfLog
  <1>1. ChainInvariant => CaseIsReplayOfLog
    BY DEF ChainInvariant
  <1>2. QED
    BY <1>1, InitEstablishesChain, NextPreservesChain, PTL DEF Spec

-----------------------------------------------------------------------------

\* What the chain says of a case that has reached a stage: the field of every
\* stage is the field its event recorded, and its event passed every check.
LEMMA ChainMakesStages ==
    ASSUME ChainInvariant
    PROVE  /\ case.state = Len(events)
           /\ case.state \in Nat
           /\ DOMAIN case.doc = Staged(case.state)
           /\ \A s \in Staged(case.state) : case.doc[s] = RecordedField(events[s])
           /\ \A s \in 1..case.state :
                /\ events[s].workflow_state = s
                /\ ReplayStep(events, s)
  <1>1. Len(events) \in Nat /\ Len(events) >= 1
    BY DEF ChainInvariant
  <1>2. case = ReplayedCase(events, Len(events)) /\ LogVerifies(events)
    BY DEF ChainInvariant, CaseIsReplayOfLog, ReplayCase
  <1>3. \A k \in 1..Len(events) : events[k].workflow_state = k
    BY DEF ChainInvariant
  <1>4. case.state = Len(events)
    BY <1>1, <1>2, <1>3 DEF ReplayedCase
  <1>5. QED
    BY <1>1, <1>2, <1>3, <1>4 DEF ReplayedCase, LogVerifies

\* The timestamps of events are numbers and grow along the log.  The log only
\* compares neighbours; that it grows throughout needs an induction of its own.
EventsAreTimed ==
    /\ \A k \in 1..Len(events) : events[k].timestamp \in Nat
    /\ \A j, k \in 1..Len(events) : j < k => events[j].timestamp < events[k].timestamp

\* An event that the log accepts is later than all before it.
LEMMA NextKeepsTime ==
    ChainInvariant /\ EventsAreTimed /\ [Next]_vars => EventsAreTimed'
  <1> SUFFICES ASSUME ChainInvariant, EventsAreTimed, [Next]_vars
               PROVE  EventsAreTimed'
    OBVIOUS
  <1>1. CASE Next
    <2>1. PICK event :
              /\ event.timestamp \in EventTimes
              /\ LastEvent.timestamp < event.timestamp
              /\ events' = Append(events, event)
      BY <1>1, NextAppends DEF LogAccepts
    <2>2. event.timestamp \in Nat
      <3>1. Len(events) \in 1..Len(events)
        BY DEF ChainInvariant
      <3>2. LastEvent.timestamp \in Nat
        BY <3>1 DEF LastEvent, EventsAreTimed
      <3>3. PICK step \in TimeSteps : event.timestamp = LastEvent.timestamp + step
        BY <2>1 DEF EventTimes
      <3>4. step \in Nat
        BY DocumentTypes
      <3>5. QED
        BY <3>2, <3>3, <3>4
    <2> DEFINE S == {events[k] : k \in DOMAIN events} \cup {event}
    <2>3. events \in Seq(S) /\ event \in S /\ Len(events) \in Nat /\ Len(events) >= 1
      BY DEF ChainInvariant
    <2>4. /\ Len(events') = Len(events) + 1
          /\ \A k \in 1..Len(events) : events'[k] = events[k]
          /\ events'[Len(events) + 1] = event
      BY <2>1, <2>3
    <2> HIDE DEF S
    <2>5. \A k \in 1..Len(events') : events'[k].timestamp \in Nat
      BY <2>2, <2>3, <2>4 DEF EventsAreTimed
    <2>6. ASSUME NEW j \in 1..Len(events'), NEW k \in 1..Len(events'), j < k
          PROVE  events'[j].timestamp < events'[k].timestamp
      <3>1. CASE k <= Len(events)
        BY <2>3, <2>4, <2>6, <3>1 DEF EventsAreTimed
      <3>2. CASE k = Len(events) + 1
        <4>1. j \in 1..Len(events)
          BY <2>3, <2>4, <2>6, <3>2
        <4>2. \/ j = Len(events)
              \/ events[j].timestamp < events[Len(events)].timestamp
          BY <2>3, <4>1 DEF EventsAreTimed
        <4>3. /\ events[j].timestamp \in Nat
              /\ events[Len(events)].timestamp \in Nat
          BY <2>3, <4>1 DEF EventsAreTimed
        <4>4. events[Len(events)].timestamp < event.timestamp
          BY <2>1 DEF LastEvent
        <4>5. events[j].timestamp < event.timestamp
          BY <2>2, <4>2, <4>3, <4>4
        <4>6. QED
          BY <2>4, <3>2, <4>1, <4>5
      <3>3. QED
        BY <2>3, <2>4, <2>6, <3>1, <3>2
    <2>7. QED
      BY <2>5, <2>6 DEF EventsAreTimed
  <1>2. CASE UNCHANGED vars
    BY <1>2 DEF vars, EventsAreTimed
  <1>3. QED
    BY <1>1, <1>2

\* The first event is later than none.
LEMMA InitIsTimed == Init => EventsAreTimed
  BY DEF Init, EventsAreTimed, Event

\* A case has at most one event per workflow state, each made by an actor of
\* the rule table, and exactly the documents of the stages it has passed.
THEOREM CaseIsWellTyped == Spec => []TypeOK
  <1>1. ChainInvariant /\ EventsAreTimed => TypeOK
    <2> SUFFICES ASSUME ChainInvariant, EventsAreTimed PROVE TypeOK
      OBVIOUS
    <2>1. /\ case.state = Len(events)
          /\ Len(events) \in Nat /\ Len(events) >= 1
          /\ DOMAIN case.doc = Staged(case.state)
          /\ \A k \in 1..Len(events) : events[k].workflow_state = k /\ ReplayStep(events, k)
      BY ChainMakesStages DEF ChainInvariant
    <2>2. ASSUME NEW k \in 1..Len(events)
          PROVE  /\ k \in 1..12
                 /\ events[k].actor \in RoleNames
                 /\ events[k].action \in Actions
      <3>1. PICK source : TransitionAuthorized(source, events[k].workflow_state,
                                               events[k].actor, events[k].action)
        BY <2>1 DEF ReplayStep
      <3>2. QED
        BY <2>1, <3>1, AuthorityAdvancesByOne
    <2>3. Len(events) \in 1..12
      <3>1. Len(events) \in 1..Len(events)
        BY <2>1
      <3>2. QED
        BY <2>2, <3>1
    <2>4. QED
      BY <2>1, <2>2, <2>3 DEF TypeOK, EventsAreTimed
  <1>2. QED
    BY <1>1, InitIsTimed, InitEstablishesChain, NextPreservesChain, NextKeepsTime,
       PTL DEF Spec

\* The documents and the events of a case fit one time line, however the
\* clocks of the callers drift.
THEOREM RecordAlwaysOnOneTimeLine == Spec => []RecordIsOnOneTimeLine
  <1>1. ChainInvariant /\ EventsAreTimed => RecordIsOnOneTimeLine
    <2> SUFFICES ASSUME ChainInvariant, EventsAreTimed,
                        NEW s \in Timed(case.state), NEW t \in Timed(case.state)
                 PROVE  /\ case.doc[s].at <= events[s].timestamp
                        /\ s < t => /\ events[s].timestamp < events[t].timestamp
                                    /\ case.doc[s].at <= case.doc[t].at
      BY DEF RecordIsOnOneTimeLine
    <2>1. /\ case.state = Len(events)
          /\ case.state \in Nat
          /\ s \in 1..case.state /\ t \in 1..case.state
          /\ s # 6 /\ s \in Staged(case.state)
          /\ case.state \in 1..case.state
      BY ChainMakesStages DEF Timed, Staged
    <2>2. /\ case.doc[s] = RecordedField(events[s])
          /\ events[s].workflow_state = s
          /\ ReplayStep(events, s)
      BY <2>1, ChainMakesStages
    <2>3. case.doc[s].at = events[s].payload.at
      BY <2>1, <2>2 DEF RecordedField, Dated
    <2>4. case.doc[s].at <= events[s].timestamp
      BY <2>2, <2>3 DEF ReplayStep
    <2>5. s < t => events[s].timestamp < events[t].timestamp
      BY <2>1 DEF EventsAreTimed
    <2>6. Governed(case)
      BY <2>1, ChainMakesStages DEF ReplayStep, ChainInvariant, CaseIsReplayOfLog, ReplayCase
    <2>7. s < t => case.doc[s].at <= case.doc[t].at
      BY <2>1, <2>6 DEF Governed, DocumentTimesMonotonic
    <2>8. QED
      BY <2>4, <2>5, <2>7
  <1>2. QED
    BY <1>1, InitIsTimed, InitEstablishesChain, NextPreservesChain, NextKeepsTime,
       PTL DEF Spec

\* Evidence only ever stands under a constitution whose proposal is the one
\* on record and was positively approved as it is.
THEOREM EvidenceAlwaysApproved == Spec => []EvidenceUnderApprovedProtocol
  <1>1. ChainInvariant => EvidenceUnderApprovedProtocol
    <2> SUFFICES ASSUME ChainInvariant, Len(events) >= 6
                 PROVE  LET ledger   == events[6].payload.body
                            approval == case.doc[4].body
                        IN  /\ ledger.constitution = case.doc[5]
                            /\ approval.approved
                            /\ approval.proposal = case.doc[2]
                            /\ ledger.constitution.body.proposal = approval.proposal
      BY DEF EvidenceUnderApprovedProtocol
    <2>1. /\ case.state >= 6 /\ case.state \in Nat
          /\ {2, 4, 5} \subseteq Staged(case.state)
          /\ {5, 6} \subseteq 1..case.state
          /\ case.state \in 1..case.state
      BY ChainMakesStages DEF Staged
    <2>2. /\ events[5].workflow_state = 5 /\ ReplayStep(events, 5)
          /\ events[6].workflow_state = 6 /\ ReplayStep(events, 6)
          /\ case.doc[5] = RecordedField(events[5])
      BY <2>1, ChainMakesStages
    <2>3. case.doc[5] = events[5].payload
      BY <2>2 DEF RecordedField
    <2>4. /\ ConstitutionIntegral(case.doc[5].body)
          /\ events[6].payload.body.constitution = case.doc[5]
      BY <2>2, <2>3 DEF ReplayStep
    <2>5. ProtocolGoverned(case)
      BY <2>1, ChainMakesStages
      DEF ReplayStep, ChainInvariant, CaseIsReplayOfLog, ReplayCase, Governed
    <2>6. /\ case.doc[5].body.proposal = case.doc[2]
          /\ case.doc[5].body.human_approval = case.doc[4]
      BY <2>1, <2>5 DEF ProtocolGoverned
    <2>7. QED
      BY <2>4, <2>6 DEF ConstitutionIntegral
  <1>2. QED
    BY <1>1, InitEstablishesChain, NextPreservesChain, PTL DEF Spec

-----------------------------------------------------------------------------

\* The policy inputs of a computed case only read documents that were on
\* record before the verdict.
LEMMA GovernedInputsStable ==
    ASSUME ChainInvariant, VerdictComputed
    PROVE  GovernedInputs(ReplayedCase(events, 10), RecordedEvidence)
             = GovernedInputs(case, RecordedEvidence)
  <1> DEFINE before == ReplayedCase(events, 10)
  <1>1. \A s \in {2, 3, 7, 8, 10} : before.doc[s] = case.doc[s]
    BY ChainMakesStages DEF VerdictComputed, ReplayedCase, Staged
  <1>2. ASSUME NEW severity \in {"critical", "noncritical"}
        PROVE  UnresolvedFinding(before, severity) = UnresolvedFinding(case, severity)
    BY <1>1 DEF UnresolvedFinding
  <1> HIDE DEF before
  <1>3. QED
    BY <1>1, <1>2 DEF GovernedInputs, before

\* A verdict on record passed the policy's checks over the recorded evidence.
LEMMA VerdictWasRecomputed ==
    ASSUME ChainInvariant, VerdictComputed
    PROVE  /\ case.doc[VERDICT_ELIGIBILITY_COMPUTED].body
                = Eligibility(GovernedInputs(case, RecordedEvidence))
           /\ EveryReferenceValidated(RecordedEvidence)
           /\ Governed(ReplayedCase(events, VERDICT_ELIGIBILITY_COMPUTED))
  <1>1. /\ 11 \in 1..case.state
        /\ 11 \in Staged(case.state)
    BY ChainMakesStages DEF VerdictComputed, Staged
  <1>2. /\ ReplayStep(events, 11)
        /\ events[11].workflow_state = 11
        /\ case.doc[11] = RecordedField(events[11])
    BY <1>1, ChainMakesStages
  <1>3. /\ PolicyInputsGoverned(ReplayedCase(events, 10), RecordedEvidence,
                                 events[11].payload.body.inputs)
        /\ events[11].payload.body.eligibility
             = Eligibility(events[11].payload.body.inputs)
        /\ Governed(ReplayedCase(events, 11))
    BY <1>2 DEF ReplayStep, RecordedEvidence
  <1>4. case.doc[11].body = events[11].payload.body.eligibility
    BY <1>2 DEF RecordedField, Dated
  <1>5. QED
    BY <1>3, <1>4, GovernedInputsStable DEF PolicyInputsGoverned

\* Every recorded verdict is the policy's value on the documents the case
\* holds, however many steps later it is read.
THEOREM VerdictAlwaysFollowsRecord == Spec => []VerdictFollowsRecord
  <1>1. ChainInvariant => VerdictFollowsRecord
    BY VerdictWasRecomputed DEF VerdictFollowsRecord
  <1>2. QED
    BY <1>1, InitEstablishesChain, NextPreservesChain, PTL DEF Spec

\* A claim is only ever SUPPORTED when nothing was left open in any review and
\* no recorded evidence contradicts it.
THEOREM SupportedAlwaysLeavesNothingOpen == Spec => []SupportedLeavesNothingOpen
  <1>1. ASSUME NEW basis, Compute(basis) = "SUPPORTED"
        PROVE  /\ ~basis.unresolved_critical_findings
               /\ ~basis.unresolved_noncritical_limitations
               /\ basis.contradictory_evidence = {}
               /\ basis.reproducibility_status = "verified"
    BY <1>1 DEF Compute, MethodologyRejected, IntegrityIncomplete, MaterialGateFailed,
        EveryStrictGatePasses
  <1>2. ASSUME ChainInvariant, VerdictComputed, RecordedVerdict = "SUPPORTED"
        PROVE  /\ ~UnresolvedFinding(case, "critical")
               /\ ~UnresolvedFinding(case, "noncritical")
               /\ \A id \in DOMAIN RecordedEvidence :
                    RecordedEvidence[id].relationship # "contradicts"
               /\ case.doc[REPRODUCIBILITY_VERIFIED].body.status = "verified"
    <2> DEFINE basis == GovernedInputs(case, RecordedEvidence)
    <2>1. Compute(basis) = "SUPPORTED"
      BY <1>2, VerdictWasRecomputed DEF RecordedVerdict, Eligibility
    <2>2. /\ basis.unresolved_critical_findings = UnresolvedFinding(case, "critical")
          /\ basis.unresolved_noncritical_limitations
               = UnresolvedFinding(case, "noncritical")
          /\ basis.contradictory_evidence
               = {id \in DOMAIN RecordedEvidence :
                    RecordedEvidence[id].relationship = "contradicts"}
          /\ basis.reproducibility_status
               = case.doc[REPRODUCIBILITY_VERIFIED].body.status
      BY DEF GovernedInputs
    <2> HIDE DEF basis
    <2>3. QED
      BY <1>1, <2>1, <2>2
  <1>3. ChainInvariant => SupportedLeavesNothingOpen
    BY <1>2 DEF SupportedLeavesNothingOpen
  <1>4. QED
    BY <1>3, InitEstablishesChain, NextPreservesChain, PTL DEF Spec

\* The Chair's explanation carries the verdict and the evidence sets that the
\* policy yields, whatever verdict the provider asked for.
THEOREM ChairAlwaysRepeatsPolicy == Spec => []ChairRepeatsPolicy
  <1>1. ASSUME ChainInvariant, case.state = 12
        PROVE  case.doc[12].body = Eligibility(GovernedInputs(case, RecordedEvidence))
    <2>1. 12 \in 1..case.state
      BY <1>1
    <2>2. Governed(case)
      BY <1>1, <2>1, ChainMakesStages
      DEF ReplayStep, ChainInvariant, CaseIsReplayOfLog, ReplayCase
    <2>3. case.doc[12].body = case.doc[11].body
      BY <1>1, <2>2 DEF Governed, ChairBound
    <2>4. QED
      BY <1>1, <2>3, VerdictWasRecomputed DEF VerdictComputed
  <1>2. ChainInvariant => ChairRepeatsPolicy
    BY <1>1 DEF ChairRepeatsPolicy
  <1>3. QED
    BY <1>2, InitEstablishesChain, NextPreservesChain, PTL DEF Spec

\* A case whose methodology was not approved or whose evidence is not validated
\* gets no verdict, and an unfavourable one rests on a reason that is on record.
THEOREM UnsoundCaseNeverGetsVerdict == Spec => []UnsoundCaseGetsNoVerdict
  <1>1. ASSUME ChainInvariant, VerdictComputed
        PROVE  /\ case.doc[METHODOLOGY_REVIEWED].body.decision = "approved"
               /\ DOMAIN RecordedEvidence # {}
    <2>1. /\ 3 \in Staged(case.state) /\ 6 \in 1..case.state
          /\ 3 \in Staged(11) /\ 6 \in Staged(11)
          /\ events[11].workflow_state = 11
      BY <1>1, ChainMakesStages DEF VerdictComputed, Staged
    <2>2. ReplayedCase(events, 11).doc[3] = case.doc[3]
      BY <1>1, <2>1, ChainMakesStages DEF ReplayedCase
    <2>3. ReplayedCase(events, 11).state = 11
      BY <2>1 DEF ReplayedCase
    <2>4. Governed(ReplayedCase(events, 11))
      BY <1>1, VerdictWasRecomputed
    <2>5. ReplayedCase(events, 11).doc[3].body.decision = "approved"
      BY <2>3, <2>4 DEF Governed, ProtocolGoverned
    <2>6. ReplayedCase(events, 11).doc[6] # {}
      BY <2>3, <2>4 DEF Governed, FieldsMatchState
    <2>7. ReplayedCase(events, 11).doc[6] = DOMAIN RecordedEvidence
      <3>1. events[6].workflow_state = 6
        BY <1>1, <2>1, ChainMakesStages
      <3>2. QED
        BY <2>1, <3>1 DEF ReplayedCase, RecordedField, RecordedEvidence
    <2>8. QED
      BY <2>2, <2>5, <2>6, <2>7
  <1>2. ASSUME ChainInvariant, VerdictComputed
        PROVE  /\ RecordedVerdict = "REJECTED" =>
                    \/ UnresolvedFinding(case, "critical")
                    \/ DirectionContradicted(GovernedInputs(case, RecordedEvidence))
               /\ RecordedVerdict = "INCONCLUSIVE" =>
                    \/ case.doc[ADVERSARIAL_REVIEWED].body.robustness_status = "unresolved"
                    \/ case.doc[REPRODUCIBILITY_VERIFIED].body.status # "verified"
                    \/ EffectUnresolved(GovernedInputs(case, RecordedEvidence))
    <2> DEFINE basis == GovernedInputs(case, RecordedEvidence)
    <2>1. RecordedVerdict = Compute(basis)
      BY <1>2, VerdictWasRecomputed DEF RecordedVerdict, Eligibility
    <2>2. /\ basis.methodology_status = case.doc[METHODOLOGY_REVIEWED].body.decision
          /\ basis.primary_experiment_complete
          /\ basis.evidence_validation_statuses
               = {RecordedEvidence[id].validation_status : id \in DOMAIN RecordedEvidence}
          /\ basis.robustness_status = case.doc[ADVERSARIAL_REVIEWED].body.robustness_status
          /\ basis.reproducibility_status = case.doc[REPRODUCIBILITY_VERIFIED].body.status
          /\ basis.unresolved_critical_findings = UnresolvedFinding(case, "critical")
      BY DEF GovernedInputs
    <2>3. {RecordedEvidence[id].validation_status : id \in DOMAIN RecordedEvidence}
            = {"validated"}
      BY <1>1, <1>2, VerdictWasRecomputed DEF EveryReferenceValidated
    <2>4. basis.methodology_status = "approved"
      BY <1>1, <1>2, <2>2
    <2> HIDE DEF basis
    <2>5. RecordedVerdict = "REJECTED" =>
            basis.unresolved_critical_findings \/ DirectionContradicted(basis)
      BY <2>1, <2>4 DEF Compute, MethodologyRejected
    <2>6. RecordedVerdict = "INCONCLUSIVE" => IntegrityIncomplete(basis) \/ EffectUnresolved(basis)
      BY <2>1 DEF Compute
    <2>7. IntegrityIncomplete(basis) => \/ basis.robustness_status = "unresolved"
                                       \/ basis.reproducibility_status # "verified"
      BY <2>2, <2>3, <2>4 DEF IntegrityIncomplete
    <2>8. QED
      BY <2>2, <2>5, <2>6, <2>7 DEF basis
  <1>3. ChainInvariant => UnsoundCaseGetsNoVerdict
    BY <1>1, <1>2, VerdictWasRecomputed DEF UnsoundCaseGetsNoVerdict
  <1>4. QED
    BY <1>3, InitEstablishesChain, NextPreservesChain, PTL DEF Spec

(***************************************************************************)
(* The verdict policy for every input: which inputs are SUPPORTED, and     *)
(* that failing one more gate never makes a verdict more supportive.  The  *)
(* bound MaxFailures plays no part in the arguments.                       *)
(***************************************************************************)

\* Over well-typed inputs the branches of compute leave SUPPORTED to exactly
\* the strict ones.
LEMMA SupportedIsStrict ==
    ASSUME NEW i \in VerdictInputs
    PROVE  Compute(i) = "SUPPORTED" <=> Strict(i)
  <1>1. /\ i.expected_direction \in ExpectedDirections
        /\ i.effect_direction \in EffectDirections
        /\ i.methodology_status \in ReviewDecisions
        /\ i.primary_experiment_complete \in BOOLEAN
        /\ i.practical_significance \in BOOLEAN
        /\ i.unresolved_critical_findings \in BOOLEAN
        /\ i.unresolved_noncritical_limitations \in BOOLEAN
    BY DEF VerdictInputs, VerdictInputFields
  <1>2. EffectAgrees(i.expected_direction, i.effect_direction)
          <=> /\ i.effect_direction \notin {"null", "mixed"}
              /\ ~DirectionContradicted(i)
    BY <1>1 DEF EffectAgrees, DirectionContradicted, ExpectedDirections, EffectDirections
  <1>3. Strict(i) <=> /\ ~MethodologyRejected(i)
                      /\ ~IntegrityIncomplete(i)
                      /\ ~EffectUnresolved(i)
                      /\ ~DirectionContradicted(i)
                      /\ ~MaterialGateFailed(i)
                      /\ EveryStrictGatePasses(i)
    BY <1>1, <1>2 DEF Strict, MethodologyRejected, IntegrityIncomplete, EffectUnresolved,
        MaterialGateFailed, EveryStrictGatePasses
  <1>4. QED
    BY <1>3 DEF Compute

\* How supportive the verdict is, by what failed.
LEMMA SupportByFailure ==
    ASSUME NEW i
    PROVE  /\ Support(Compute(i)) \in 0..3
           /\ Support(Compute(i)) >= 1 <=> /\ ~MethodologyRejected(i)
                                           /\ ~IntegrityIncomplete(i)
                                           /\ ~EffectUnresolved(i)
                                           /\ ~DirectionContradicted(i)
           /\ Support(Compute(i)) >= 2 <=> /\ Support(Compute(i)) >= 1
                                           /\ ~MaterialGateFailed(i)
           /\ Support(Compute(i)) = 3 <=> /\ Support(Compute(i)) >= 2
                                          /\ EveryStrictGatePasses(i)
  BY DEF Support, Compute

\* A record with the seventeen fields, each in its range.
LEMMA InputFields ==
    ASSUME NEW methodology \in ReviewDecisions, NEW complete \in BOOLEAN,
           NEW statuses \in (SUBSET ValidationStatuses) \ {{}},
           NEW inference \in CorrectedInferences, NEW expected \in ExpectedDirections,
           NEW effect \in EffectDirections, NEW significance \in BOOLEAN,
           NEW robustness \in GateStatuses, NEW cost \in Sensitivities,
           NEW parameter \in Stabilities, NEW regime \in Stabilities,
           NEW concentration \in Sensitivities, NEW reproducibility \in ReproducibilityStatuses,
           NEW critical \in BOOLEAN, NEW decisive \in (SUBSET EvidenceIds) \ {{}},
           NEW contradictory \in SUBSET EvidenceIds, NEW noncritical \in BOOLEAN
    PROVE  [ methodology_status           |-> methodology,
             primary_experiment_complete  |-> complete,
             evidence_validation_statuses |-> statuses,
             corrected_inference          |-> inference,
             expected_direction           |-> expected,
             effect_direction             |-> effect,
             practical_significance       |-> significance,
             robustness_status            |-> robustness,
             cost_sensitivity             |-> cost,
             parameter_stability          |-> parameter,
             regime_stability             |-> regime,
             concentration_risk           |-> concentration,
             reproducibility_status       |-> reproducibility,
             unresolved_critical_findings |-> critical,
             decisive_evidence            |-> decisive,
             contradictory_evidence       |-> contradictory,
             unresolved_noncritical_limitations |-> noncritical ] \in VerdictInputFields
  BY DEF VerdictInputFields

\* Gates only ever move within their ranges.
LEMMA GatesStayTyped == GatesSpec => []GatesTypeOK
  <1>1. GatesInit => GatesTypeOK
    <2>1. ASSUME NEW i \in StrictInputs PROVE i \in VerdictInputs
      <3>1. EvidenceIds \in (SUBSET EvidenceIds) \ {{}}
        BY SomeEvidence
      <3>2. {"validated"} \in (SUBSET ValidationStatuses) \ {{}}
        BY DEF ValidationStatuses
      <3>3. PICK expected \in ExpectedDirections, effect \in EffectDirections :
              i = AtBest(expected, effect)
        BY <2>1 DEF StrictInputs, EffectDirections
      <3>4. /\ "approved" \in ReviewDecisions
            /\ "pass" \in CorrectedInferences
            /\ "pass" \in GateStatuses
            /\ "low" \in Sensitivities
            /\ "stable" \in Stabilities
            /\ "verified" \in ReproducibilityStatuses
        BY DEF ReviewDecisions, CorrectedInferences, GateStatuses, Sensitivities,
               Stabilities, ReproducibilityStatuses
      <3>5. i \in VerdictInputFields
        <4>1. {} \in SUBSET EvidenceIds
          OBVIOUS
        <4>2. /\ TRUE \in BOOLEAN
              /\ FALSE \in BOOLEAN
          OBVIOUS
        <4>3. AtBest(expected, effect) \in VerdictInputFields
          BY <3>1, <3>2, <3>4, <4>1, <4>2, InputFields, Zenon DEF AtBest
        <4>4. QED
          BY <3>3, <4>3, Zenon
      <3>6. i.contradictory_evidence \subseteq i.decisive_evidence
        BY <3>3 DEF AtBest
      <3>7. QED
        BY <3>5, <3>6 DEF VerdictInputs
    <2>2. QED
      BY <2>1, MaxFailuresAssumption DEF GatesInit, GatesTypeOK
  <1>2. GatesTypeOK /\ [GatesNext]_gatesVars => GatesTypeOK'
    <2> SUFFICES ASSUME GatesTypeOK, [GatesNext]_gatesVars PROVE GatesTypeOK'
      OBVIOUS
    <2> USE MaxFailuresAssumption DEF GatesTypeOK, VerdictInputs, VerdictInputFields
    <2>1. CASE GatesNext
      <3>1. failures' \in 0..MaxFailures
        BY <2>1 DEF GatesNext
      <3>2. inputs' \in VerdictInputs
        <4>1. CASE MethodologyFails
          BY <4>1 DEF MethodologyFails, ReviewDecisions
        <4>2. CASE ExperimentIncomplete
          BY <4>2 DEF ExperimentIncomplete
        <4>3. CASE EvidenceInvalid
          BY <4>3 DEF EvidenceInvalid
        <4>4. CASE InferenceFails
          BY <4>4 DEF InferenceFails, CorrectedInferences
        <4>5. CASE EffectDisagrees
          BY <4>5 DEF EffectDisagrees
        <4>6. CASE SignificanceMissing
          BY <4>6 DEF SignificanceMissing
        <4>7. CASE RobustnessFails
          BY <4>7 DEF RobustnessFails, GateStatuses
        <4>8. CASE CostSensitive
          BY <4>8 DEF CostSensitive, Sensitivities
        <4>9. CASE ParametersUnstable
          BY <4>9 DEF ParametersUnstable, Stabilities
        <4>10. CASE RegimesUnstable
          BY <4>10 DEF RegimesUnstable, Stabilities
        <4>11. CASE Concentrated
          BY <4>11 DEF Concentrated, Sensitivities
        <4>12. CASE ReproductionFails
          BY <4>12 DEF ReproductionFails, ReproducibilityStatuses
        <4>13. CASE CriticalFinding
          BY <4>13 DEF CriticalFinding
        <4>14. CASE ContradictionFound
          BY <4>14 DEF ContradictionFound
        <4>15. CASE LimitationFound
          BY <4>15 DEF LimitationFound
        <4>16. QED
          BY <2>1, <4>1, <4>2, <4>3, <4>4, <4>5, <4>6, <4>7, <4>8, <4>9, <4>10,
             <4>11, <4>12, <4>13, <4>14, <4>15 DEF GatesNext, GateFails
      <3>3. QED
        BY <3>1, <3>2
    <2>2. CASE UNCHANGED gatesVars
      BY <2>2 DEF gatesVars
    <2>3. QED
      BY <2>1, <2>2
  <1>3. QED
    BY <1>1, <1>2, PTL DEF GatesSpec

\* SUPPORTED is reached exactly on the strict inputs.
THEOREM SupportedAlwaysStrict == GatesSpec => []SupportedExactlyWhenStrict
  <1>1. GatesTypeOK => SupportedExactlyWhenStrict
    BY SupportedIsStrict DEF GatesTypeOK, SupportedExactlyWhenStrict
  <1>2. QED
    BY <1>1, GatesStayTyped, PTL

\* Contradicting evidence caps the verdict at FRAGILE whatever else is good.
THEOREM ContradictionAlwaysCaps == GatesSpec => []ContradictionCaps
  <1>1. ASSUME GatesTypeOK, inputs.contradictory_evidence # {}
        PROVE  Support(Compute(inputs)) <= 1
    BY <1>1 DEF Compute, MaterialGateFailed, Support
  <1>2. GatesTypeOK => ContradictionCaps
    BY <1>1 DEF ContradictionCaps
  <1>3. QED
    BY <1>2, GatesStayTyped, PTL

\* A gate that fails leaves every condition that already counted against the
\* claim in place: the five tests of compute are monotone in each gate.
LEMMA FailuresAccumulate ==
    ASSUME GatesTypeOK, GateFails
    PROVE  /\ MethodologyRejected(inputs) => MethodologyRejected(inputs')
           /\ IntegrityIncomplete(inputs) => IntegrityIncomplete(inputs')
           /\ EffectUnresolved(inputs) \/ DirectionContradicted(inputs)
                => EffectUnresolved(inputs') \/ DirectionContradicted(inputs')
           /\ MaterialGateFailed(inputs)
                => MaterialGateFailed(inputs') \/ IntegrityIncomplete(inputs')
           /\ EveryStrictGatePasses(inputs') => EveryStrictGatePasses(inputs)
  <1> USE DEF GatesTypeOK, VerdictInputs, VerdictInputFields, MethodologyRejected,
              IntegrityIncomplete,
              EffectUnresolved, DirectionContradicted, MaterialGateFailed,
              EveryStrictGatePasses
  <1>1. CASE MethodologyFails
    BY <1>1 DEF MethodologyFails
  <1>2. CASE ExperimentIncomplete
    BY <1>2 DEF ExperimentIncomplete
  <1>3. CASE EvidenceInvalid
    BY <1>3 DEF EvidenceInvalid
  <1>4. CASE InferenceFails
    BY <1>4 DEF InferenceFails
  <1>5. CASE EffectDisagrees
    BY <1>5 DEF EffectDisagrees, EffectAgrees, ExpectedDirections, EffectDirections
  <1>6. CASE SignificanceMissing
    BY <1>6 DEF SignificanceMissing
  <1>7. CASE RobustnessFails
    BY <1>7 DEF RobustnessFails
  <1>8. CASE CostSensitive
    BY <1>8 DEF CostSensitive
  <1>9. CASE ParametersUnstable
    BY <1>9 DEF ParametersUnstable
  <1>10. CASE RegimesUnstable
    BY <1>10 DEF RegimesUnstable
  <1>11. CASE Concentrated
    BY <1>11 DEF Concentrated
  <1>12. CASE ReproductionFails
    BY <1>12 DEF ReproductionFails
  <1>13. CASE CriticalFinding
    BY <1>13 DEF CriticalFinding
  <1>14. CASE ContradictionFound
    BY <1>14 DEF ContradictionFound
  <1>15. CASE LimitationFound
    BY <1>15 DEF LimitationFound
  <1>16. QED
    BY <1>1, <1>2, <1>3, <1>4, <1>5, <1>6, <1>7, <1>8, <1>9, <1>10, <1>11, <1>12,
       <1>13, <1>14, <1>15 DEF GateFails

\* No combination of failed gates masks another failure.
THEOREM FailingGateNeverHelps == GatesSpec => FailingGateNeverSupports
  <1>1. ASSUME GatesTypeOK, [GatesNext]_gatesVars
        PROVE  [Support(Compute(inputs')) <= Support(Compute(inputs))]_gatesVars
    <2>1. CASE GatesNext
      <3> DEFINE before == Support(Compute(inputs))
                 after  == Support(Compute(inputs'))
      <3>1. GateFails
        BY <2>1 DEF GatesNext
      <3>2. /\ before \in 0..3
            /\ after \in 0..3
            /\ after >= 1 => before >= 1
            /\ after >= 2 => before >= 2
            /\ after = 3 => before = 3
        BY <1>1, <3>1, FailuresAccumulate, SupportByFailure
      <3> HIDE DEF before, after
      <3>3. after <= before
        BY <3>2
      <3>4. QED
        BY <3>3 DEF before, after
    <2>2. CASE UNCHANGED gatesVars
      BY <2>2
    <2>3. QED
      BY <1>1, <2>1, <2>2
  <1>2. QED
    BY <1>1, GatesStayTyped, PTL DEF GatesSpec, FailingGateNeverSupports
=============================================================================
