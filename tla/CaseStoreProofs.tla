---------------------------- MODULE CaseStoreProofs ----------------------------
(***************************************************************************)
(* The durable store, for every set of payloads, receipts and requests,    *)
(* any number of invocations and callers that may err as Next lets them.   *)
(*                                                                         *)
(* The argument: every write compares its expected revision with the row   *)
(* and the history it was chained to with the events, so an accepted event *)
(* extends the log as it is.  StoreInvariant states what the tables then   *)
(* have in common; the readers' checks and the refinement of CaseLedger    *)
(* follow from it.                                                         *)
(***************************************************************************)
EXTENDS CaseStore, SequenceTheorems, TLAPS

USE DEF CLAIM_RECEIVED, RESEARCHER_PROTOCOL_PROPOSED, METHODOLOGY_REVIEWED,
        HUMAN_APPROVAL, CONSTITUTION_LOCKED, EXPERIMENT_EXECUTED,
        STATISTICS_REVIEWED, ADVERSARIAL_REVIEWED, OPTIONAL_FOLLOW_UP,
        REPRODUCIBILITY_VERIFIED, VERDICT_ELIGIBILITY_COMPUTED,
        CHAIR_EXPLANATION

\* The row is the summary of the log, and the graph anchor is the latest row
\* of claim_graphs.
RowFollowsLog ==
    /\ row.revision = Len(events)
    /\ row.finalized <=> Len(events) = CHAIR_EXPLANATION
    /\ row.graph_revision <= Len(events)
    /\ graphs = {} => row.graph_revision = 0
    /\ graphs # {} => HasLedger /\ row.graph_revision \in graphs

\* The Chair's vote brought the only graph, and the case is closed.
ChairVoteBroughtGraph ==
    (\E record \in Accepted : record.id.revision = VERDICT_ELIGIBILITY_COMPUTED) =>
        /\ graphs = {CHAIR_EXPLANATION}
        /\ row.graph_revision = CHAIR_EXPLANATION
        /\ row.finalized

StoreInvariant ==
    /\ TypeOK
    /\ RowFollowsLog
    /\ AcceptedVoteIsItsEvent
    /\ EvidenceHasOneOrigin
    /\ Len(bundles) <= 1
    /\ ChairVoteBroughtGraph

-----------------------------------------------------------------------------

\* What appending to a sequence does.
LEMMA AppendExtends ==
    ASSUME NEW S, NEW s \in Seq(S), NEW value \in S
    PROVE  /\ Append(s, value) \in Seq(S)
           /\ Len(s) \in Nat
           /\ Len(Append(s, value)) = Len(s) + 1
           /\ \A k \in 1..Len(s) : Append(s, value)[k] = s[k]
           /\ Append(s, value)[Len(s) + 1] = value
OBVIOUS

\* Small numbers lie in the range of revisions.  (Stated apart: the provers do
\* not conclude it for the length of a sequence.)
LEMMA SmallRange ==
    \A n \in Nat :
        /\ n <= 12 => n \in 0..12
        /\ n <= 11 => n \in 0..12 /\ n # 12 /\ 0 <= n
OBVIOUS

\* Invocation records of either status have the fields they are built with.
LEMMA InvocationTypes ==
    /\ \A record \in AcceptedRecords :
         /\ record.id \in InvocationIds
         /\ record.id.revision \in ProviderStates
         /\ record.status = "accepted"
         /\ record.result \in Payloads
    /\ \A record \in FailedRecords :
         /\ record.id \in InvocationIds
         /\ record.id.revision \in ProviderStates
         /\ record.status = "failed"
  BY DEF AcceptedRecords, FailedRecords, AcceptedRecord, FailedRecord, InvocationIds

\* A case that does not exist, or was persisted without provider, bundle and
\* graph, satisfies the invariant.
LEMMA InitEstablishesStore == Init => StoreInvariant
  <1> SUFFICES ASSUME Init PROVE StoreInvariant
    OBVIOUS
  <1>1. events \in Seq(Payloads) /\ Len(events) \in Nat /\ Len(events) <= 11
    BY StoreConstants DEF Init
  <1>2. events \in Seq(Payloads \cup Receipts)
    <2>1. events \in [1..Len(events) -> Payloads]
      BY <1>1
    <2>2. events \in [1..Len(events) -> Payloads \cup Receipts]
      BY <2>1
    <2>3. QED
      BY <1>1, <2>2, SeqDef
  <1>3. TypeOK
    <2>1. Len(events) \in 0..12
      BY <1>1, SmallRange
    <2>2. \A n \in 0..12 :
            [revision |-> n, finalized |-> FALSE, graph_revision |-> 0]
              \in [ revision : 0..12, finalized : BOOLEAN, graph_revision : 0..12 ]
      OBVIOUS
    <2>3. row \in [ revision : 0..12, finalized : BOOLEAN, graph_revision : 0..12 ]
      BY <2>1, <2>2 DEF Init
    <2>4. Len(events) <= 12
      BY <1>1
    <2>5. /\ graphs \subseteq 6..12
          /\ invocations \subseteq AcceptedRecords \cup FailedRecords
          /\ bundles \in Seq(Receipts)
          /\ consumed \subseteq Receipts
      BY DEF Init
    <2>6. QED
      BY <1>2, <2>3, <2>4, <2>5 DEF TypeOK
  <1>7. RowFollowsLog
    BY <1>1, SmallRange DEF Init, RowFollowsLog
  <1>4. Accepted = {}
    BY DEF Init, Accepted
  <1>5. AcceptedVoteIsItsEvent /\ ChairVoteBroughtGraph
    BY <1>4 DEF AcceptedVoteIsItsEvent, VotesMatchEvents, ChairVoteBroughtGraph
  <1>6. EvidenceHasOneOrigin /\ Len(bundles) <= 1
    <2>1. ASSUME NEW receipt \in Receipts, HasLedger PROVE events[6] # receipt
      <3>1. events[6] \in Payloads
        BY <1>1, <2>1 DEF HasLedger
      <3>2. QED
        BY <3>1, StoreConstants
    <2>2. bundles = <<>>
      BY DEF Init
    <2>3. QED
      BY <2>1, <2>2 DEF EvidenceHasOneOrigin
  <1>8. QED
    BY <1>3, <1>5, <1>6, <1>7 DEF StoreInvariant

-----------------------------------------------------------------------------

\* A row of the type.
RowType == [ revision : 0..12, finalized : BOOLEAN, graph_revision : 0..12 ]

\* The row of a case that follows its log, in numbers the provers can use.
LEMMA RowBounds ==
    ASSUME StoreInvariant
    PROVE  /\ row \in RowType
           /\ row.revision = Len(events)
           /\ row.revision \in 0..12
           /\ row.finalized <=> row.revision = 12
           /\ HasLedger <=> row.revision >= 6
  BY DEF StoreInvariant, TypeOK, RowFollowsLog, RowType, HasLedger

\* The log after one more event.
LogExtends(payload) ==
    /\ events' \in Seq(Payloads \cup Receipts)
    /\ Len(events') = row.revision + 1
    /\ row.revision <= 11
    /\ \A k \in 1..row.revision : events'[k] = events[k]
    /\ events'[row.revision + 1] = payload

\* An accepted event is chained to the log as it is, which is not complete.
LEMMA AcceptedExtends ==
    ASSUME StoreInvariant, NEW payload \in Payloads \cup Receipts, NEW after, NEW expected,
           AppendAccepted(after, payload, expected), events' = Append(events, payload)
    PROVE  /\ LogExtends(payload)
           /\ row.revision = expected
           /\ row.revision \in 1..11
           /\ ~row.finalized
           /\ after = events
  <1>1. /\ events \in Seq(Payloads \cup Receipts)
        /\ row.revision = expected /\ ~row.finalized /\ after = events
        /\ row.revision > 0
    BY DEF StoreInvariant, TypeOK, AppendAccepted, CaseExists
  <1>2. row.revision \in 1..11
    BY <1>1, RowBounds
  <1>3. QED
    BY <1>1, <1>2, RowBounds, AppendExtends DEF LogExtends

\* Votes stay what they are while the log only grows.
LEMMA OldVotesStay ==
    ASSUME StoreInvariant, NEW payload, LogExtends(payload), NEW record \in Accepted
    PROVE  /\ record.id.revision < row.revision
           /\ record.id.revision < Len(events')
           /\ events'[record.id.revision + 1] = record.result
  <1>1. /\ record.id.revision < row.revision
        /\ events[record.id.revision + 1] = record.result
    BY RowBounds DEF StoreInvariant, AcceptedVoteIsItsEvent, VotesMatchEvents
  <1>2. record.id.revision \in 1..12
    BY InvocationTypes DEF StoreInvariant, TypeOK, Accepted, ProviderStates
  <1>3. record.id.revision + 1 \in 1..row.revision
    BY <1>1, <1>2, RowBounds
  <1>4. record.id.revision < row.revision + 1
    BY <1>1, <1>2, RowBounds
  <1>5. events'[record.id.revision + 1] = events[record.id.revision + 1]
    BY <1>3 DEF LogExtends
  <1>6. QED
    BY <1>1, <1>4, <1>5 DEF LogExtends

\* The votes stay their events when a step adds an event and no vote.
LEMMA VotesStay ==
    ASSUME StoreInvariant, NEW payload, LogExtends(payload), Accepted' = Accepted
    PROVE  AcceptedVoteIsItsEvent'
  BY OldVotesStay DEF StoreInvariant, AcceptedVoteIsItsEvent, VotesMatchEvents

\* Evidence keeps its one origin when the log grows by anything but evidence
\* of an engine.
LEMMA OriginStays ==
    ASSUME StoreInvariant, NEW payload, LogExtends(payload),
           row.revision = 5 => payload \notin Receipts,
           bundles' = bundles, consumed' = consumed
    PROVE  EvidenceHasOneOrigin'
  <1>1. ASSUME NEW receipt \in Receipts
        PROVE  (HasLedger' /\ events'[6] = receipt) <=> bundles = <<receipt>>
    <2>1. (HasLedger /\ events[6] = receipt) <=> bundles = <<receipt>>
      BY DEF StoreInvariant, EvidenceHasOneOrigin
    <2>2. CASE row.revision >= 6
      <3>1. 6 \in 1..row.revision
        BY <2>2, RowBounds
      <3>2. HasLedger /\ HasLedger' /\ events'[6] = events[6]
        BY <2>2, <3>1, RowBounds DEF HasLedger, LogExtends
      <3>3. QED
        BY <2>1, <3>2
    <2>3. CASE row.revision = 5
      <3>1. ~HasLedger
        BY <2>3, RowBounds
      <3>2. row.revision + 1 = 6
        BY <2>3
      <3>3. events'[6] = payload
        BY <3>2 DEF LogExtends
      <3>4. QED
        BY <2>1, <2>3, <3>1, <3>3
    <2>4. CASE row.revision < 5
      BY <2>1, <2>4, RowBounds DEF HasLedger, LogExtends
    <2>5. QED
      BY <2>2, <2>3, <2>4, RowBounds
  <1>2. QED
    BY <1>1 DEF StoreInvariant, EvidenceHasOneOrigin

\* The row and the log agree after an event that brings no graph.
LEMMA RowStays ==
    ASSUME StoreInvariant, NEW payload, LogExtends(payload),
           row' = [row EXCEPT !.revision = @ + 1,
                              !.finalized = (row.revision + 1 = 12)],
           graphs' = graphs
    PROVE  row' \in RowType /\ RowFollowsLog'
  <1>1. /\ row'.revision = row.revision + 1
        /\ row'.finalized = (row.revision + 1 = 12)
        /\ row'.graph_revision = row.graph_revision
        /\ row.graph_revision \in 0..12
        /\ row' \in RowType
    <2>1. /\ row \in RowType
          /\ row.revision + 1 \in 0..12
          /\ (row.revision + 1 = 12) \in BOOLEAN
      BY RowBounds DEF LogExtends
    <2> DEFINE last == (row.revision + 1 = 12)
    <2> HIDE DEF last
    <2>2. row' = [row EXCEPT !.revision = row.revision + 1, !.finalized = last]
      BY DEF last
    <2>3. last \in BOOLEAN
      BY DEF last
    <2>4. QED
      BY <2>1, <2>2, <2>3 DEF RowType, last
  <1>2. /\ row'.revision = Len(events')
        /\ row'.finalized <=> Len(events') = 12
    BY <1>1 DEF LogExtends
  <1>3. row'.graph_revision <= Len(events')
    <2>1. row.graph_revision <= row.revision
      BY RowBounds DEF StoreInvariant, RowFollowsLog
    <2>2. row.graph_revision <= row.revision + 1
      BY <1>1, <2>1, RowBounds
    <2>3. QED
      BY <1>1, <2>2 DEF LogExtends
  <1>4. HasLedger => HasLedger'
    BY RowBounds DEF HasLedger, LogExtends
  <1>5. QED
    BY <1>1, <1>2, <1>3, <1>4 DEF StoreInvariant, RowFollowsLog

\* The types of the tables after a step that adds an event.
LEMMA TypesHold ==
    ASSUME NEW payload, LogExtends(payload), row' \in RowType, row.revision \in 0..12,
           graphs' \subseteq 6..12,
           invocations' \subseteq AcceptedRecords \cup FailedRecords,
           bundles' \in Seq(Receipts), consumed' \subseteq Receipts
    PROVE  TypeOK'
  BY DEF LogExtends, RowType, TypeOK

-----------------------------------------------------------------------------

\* create_case keeps the tables in agreement.
LEMMA CreateKeeps ==
    ASSUME StoreInvariant, CallCreate
    PROVE  StoreInvariant'
  <1>1. PICK payload \in Payloads : create_case(payload)
    BY DEF CallCreate
  <1>2. /\ row.revision = 0
        /\ row.revision = Len(events)
        /\ events' = <<payload>>
        /\ row' = [revision |-> 1, finalized |-> FALSE, graph_revision |-> 0]
        /\ graphs' = graphs /\ invocations' = invocations
        /\ bundles' = bundles /\ consumed' = consumed
    BY <1>1, RowBounds DEF create_case, CaseExists
  <1>3. LogExtends(payload)
    BY <1>2 DEF LogExtends
  <1>4. graphs = {}
    BY <1>2 DEF StoreInvariant, RowFollowsLog, HasLedger
  <1>5. TypeOK'
    BY <1>2, <1>3, TypesHold DEF StoreInvariant, TypeOK, RowType
  <1>6. RowFollowsLog'
    BY <1>2, <1>4 DEF RowFollowsLog
  <1>7. Accepted' = Accepted
    BY <1>2 DEF Accepted
  <1>8. ~\E record \in Accepted : record.id.revision = 11
    BY <1>2, RowBounds
    DEF StoreInvariant, AcceptedVoteIsItsEvent, VotesMatchEvents
  <1>9. ChairVoteBroughtGraph'
    BY <1>7, <1>8 DEF ChairVoteBroughtGraph
  <1>10. QED
    BY <1>2, <1>3, <1>5, <1>6, <1>7, <1>9, VotesStay, OriginStays DEF StoreInvariant

\* append_event keeps the tables in agreement, whatever history its caller
\* chained the event to and whatever revision it expected.
LEMMA AppendingKeeps ==
    ASSUME StoreInvariant, NEW after, NEW payload \in Payloads \cup Receipts, NEW expected,
           append_event(after, payload, expected)
    PROVE  StoreInvariant'
  <1>1. /\ payload \in Payloads \cup Receipts
        /\ AppendAccepted(after, payload, expected)
        /\ EvidenceHasBundle(payload, bundles)
        /\ events' = Append(events, payload)
        /\ row' = [row EXCEPT !.revision = @ + 1,
                              !.finalized = (row.revision + 1 = 12)]
        /\ graphs' = graphs /\ invocations' = invocations
        /\ bundles' = bundles /\ consumed' = consumed
    BY DEF append_event, AppendEvent, AppendRow
  <1>2. LogExtends(payload) /\ ~row.finalized /\ after = events
    BY <1>1, AcceptedExtends
  <1>3. row.revision = 5 => payload \notin Receipts
    <2>1. ASSUME row.revision = 5, payload \in Receipts PROVE FALSE
      <3>1. PICK k \in DOMAIN bundles : bundles[k] = payload
        BY <1>1, <2>1 DEF EvidenceHasBundle
      <3>2. bundles \in Seq(Receipts) /\ Len(bundles) <= 1
        BY DEF StoreInvariant, TypeOK
      <3>3. bundles = <<payload>>
        <4>1. Len(bundles) = 1 /\ k = 1
          <5>1. Len(bundles) \in Nat /\ k \in 1..Len(bundles)
            BY <3>1, <3>2
          <5>2. \A n \in Nat : \A m \in 1..n : n <= 1 => n = 1 /\ m = 1
            OBVIOUS
          <5>3. QED
            BY <3>2, <5>1, <5>2
        <4>2. <<payload>> \in Seq(Receipts) /\ Len(<<payload>>) = 1 /\ <<payload>>[1] = payload
          BY <2>1
        <4>3. QED
          BY <3>1, <3>2, <4>1, <4>2, SeqEqual
      <3>4. HasLedger
        BY <2>1, <3>3 DEF StoreInvariant, EvidenceHasOneOrigin
      <3>5. QED
        BY <2>1, <3>4, RowBounds
    <2>2. QED
      BY <2>1
  <1>4. Accepted' = Accepted
    BY <1>1 DEF Accepted
  <1>5. RowFollowsLog' /\ row' \in RowType
    BY <1>1, <1>2, RowStays
  <1>6. TypeOK'
    BY <1>1, <1>2, <1>5, RowBounds, TypesHold DEF StoreInvariant, TypeOK
  <1>7. ChairVoteBroughtGraph'
    BY <1>2, <1>4 DEF StoreInvariant, ChairVoteBroughtGraph
  <1>8. QED
    BY <1>1, <1>2, <1>3, <1>4, <1>5, <1>6, <1>7, VotesStay, OriginStays
    DEF StoreInvariant

\* So do the callers of append_event.
LEMMA AppendKeeps ==
    ASSUME StoreInvariant, CallAppend
    PROVE  StoreInvariant'
  BY AppendingKeeps DEF CallAppend

\* A failed invocation is stored without disturbing the case.
LEMMA FailureKeeps ==
    ASSUME StoreInvariant, CallRecordFailed
    PROVE  StoreInvariant'
  <1>1. PICK record \in FailedRecords :
               /\ invocations' = invocations \cup {record}
               /\ UNCHANGED <<row, events, graphs, bundles, consumed>>
    BY DEF CallRecordFailed, record_failed_invocation
  <1>2. Accepted' = Accepted
    BY <1>1, InvocationTypes DEF Accepted
  <1>3. TypeOK'
    BY <1>1 DEF StoreInvariant, TypeOK
  <1>4. RowFollowsLog'
    BY <1>1 DEF StoreInvariant, RowFollowsLog, HasLedger
  <1>5. AcceptedVoteIsItsEvent'
    BY <1>1, <1>2 DEF StoreInvariant, AcceptedVoteIsItsEvent, VotesMatchEvents
  <1>6. EvidenceHasOneOrigin'
    BY <1>1 DEF StoreInvariant, EvidenceHasOneOrigin, HasLedger
  <1>7. ChairVoteBroughtGraph'
    BY <1>1, <1>2 DEF StoreInvariant, ChairVoteBroughtGraph
  <1>8. QED
    BY <1>1, <1>3, <1>4, <1>5, <1>6, <1>7 DEF StoreInvariant

\* A vote is its event: what CallRecordAccepted writes, in terms of the row.
LEMMA VoteWrites ==
    ASSUME StoreInvariant, CallRecordAccepted
    PROVE  \E record \in AcceptedRecords :
               /\ record.id.revision = row.revision
               /\ LogExtends(record.result)
               /\ events' = Append(events, record.result)
               /\ ~row.finalized
               /\ invocations' = invocations \cup {record}
               /\ bundles' = bundles /\ consumed' = consumed
               /\ \/ /\ row.revision = 11
                     /\ graphs = {} /\ graphs' = {12}
                     /\ row' = [revision |-> row.revision + 1, finalized |-> TRUE,
                                graph_revision |-> row.revision + 1]
                  \/ /\ row.revision # 11
                     /\ graphs' = graphs
                     /\ row' = [row EXCEPT !.revision = @ + 1,
                                           !.finalized = (row.revision + 1 = 12)]
  <1>1. PICK record \in AcceptedRecords, after \in Histories, graphFits \in BOOLEAN :
               record_accepted_invocation(record, after, record.id.revision, graphFits)
    BY DEF CallRecordAccepted
  <1>2. /\ AppendAccepted(after, record.result, record.id.revision)
        /\ events' = Append(events, record.result)
        /\ Len(after) + 1 = 12 => graphs = {}
        /\ invocations' = invocations \cup {record}
        /\ bundles' = bundles /\ consumed' = consumed
    BY <1>1 DEF record_accepted_invocation, VoteStorable, FinalGraphAnchorable
  <1>3. record.result \in Payloads \cup Receipts
    BY InvocationTypes
  <1>4. /\ LogExtends(record.result)
        /\ row.revision = record.id.revision
        /\ row.revision \in 1..11
        /\ ~row.finalized
        /\ after = events
    BY <1>2, <1>3, AcceptedExtends
  <1>5. Len(after) = row.revision
    BY <1>4, RowBounds
  <1>6. CASE row.revision = 11
    <2>1. Len(after) + 1 = 12
      BY <1>5, <1>6
    <2>2. /\ graphs = {} /\ graphs' = graphs \cup {12}
          /\ row' = [revision |-> row.revision + 1, finalized |-> TRUE,
                     graph_revision |-> row.revision + 1]
      BY <1>1, <1>2, <2>1 DEF record_accepted_invocation
    <2>3. QED
      BY <1>2, <1>4, <1>6, <2>2
  <1>7. CASE row.revision # 11
    <2>1. row.revision + 1 # 12
      BY <1>4, <1>7
    <2>2. Len(after) + 1 # 12
      BY <1>5, <2>1
    <2>3. /\ graphs' = graphs
          /\ row' = [row EXCEPT !.revision = @ + 1,
                                !.finalized = (row.revision + 1 = 12)]
      BY <1>1, <2>2 DEF record_accepted_invocation, AppendRow
    <2>4. QED
      BY <1>2, <1>4, <1>7, <2>3
  <1>8. QED
    BY <1>6, <1>7

\* An accepted invocation and its event, and the Chair's graph with them, keep
\* the tables in agreement.
LEMMA VoteKeeps ==
    ASSUME StoreInvariant, CallRecordAccepted
    PROVE  StoreInvariant'
  <1>1. PICK record \in AcceptedRecords :
               /\ record.id.revision = row.revision
               /\ LogExtends(record.result)
               /\ ~row.finalized
               /\ invocations' = invocations \cup {record}
               /\ bundles' = bundles /\ consumed' = consumed
               /\ \/ /\ row.revision = 11
                     /\ graphs = {} /\ graphs' = {12}
                     /\ row' = [revision |-> row.revision + 1, finalized |-> TRUE,
                                graph_revision |-> row.revision + 1]
                  \/ /\ row.revision # 11
                     /\ graphs' = graphs
                     /\ row' = [row EXCEPT !.revision = @ + 1,
                                           !.finalized = (row.revision + 1 = 12)]
    BY VoteWrites
  <1>2. Accepted' = Accepted \cup {record}
    BY <1>1, InvocationTypes DEF Accepted
  <1>3. AcceptedVoteIsItsEvent'
    <2>1. /\ record.id.revision < Len(events')
          /\ events'[record.id.revision + 1] = record.result
      BY <1>1, RowBounds DEF LogExtends
    <2>2. \A other \in Accepted : other.id.revision < record.id.revision
      BY <1>1, OldVotesStay
    <2>3. record.id.revision \in Nat
      BY <1>1, RowBounds
    <2>4. VotesMatchEvents'
      BY <1>1, <1>2, <2>1, OldVotesStay DEF VotesMatchEvents
    <2>5. \A one, other \in Accepted' : one.id.revision = other.id.revision => one = other
      <3>1. \A other \in Accepted : other.id.revision # record.id.revision
        <4>1. ASSUME NEW other \in Accepted PROVE other.id.revision \in Nat
          BY InvocationTypes DEF StoreInvariant, TypeOK, Accepted, ProviderStates
        <4>2. QED
          BY <2>2, <2>3, <4>1
      <3>2. QED
        BY <1>2, <3>1 DEF StoreInvariant, AcceptedVoteIsItsEvent
    <2>6. QED
      BY <2>4, <2>5 DEF AcceptedVoteIsItsEvent
  <1>4. EvidenceHasOneOrigin'
    <2>1. record.result \notin Receipts
      BY InvocationTypes, StoreConstants
    <2>2. QED
      BY <1>1, <2>1, OriginStays
  <1>5. row' \in RowType /\ RowFollowsLog' /\ graphs' \subseteq 6..12
    <2>1. CASE row.revision = 11
      <3>1. /\ row' = [revision |-> 12, finalized |-> TRUE, graph_revision |-> 12]
            /\ graphs' = {12}
            /\ Len(events') = 12
        BY <1>1, <2>1 DEF LogExtends
      <3>2. HasLedger'
        BY <3>1 DEF HasLedger
      <3>3. QED
        BY <3>1, <3>2 DEF RowType, RowFollowsLog
    <2>2. CASE row.revision # 11
      BY <1>1, <2>2, RowStays DEF StoreInvariant, TypeOK
    <2>3. QED
      BY <2>1, <2>2
  <1>6. TypeOK'
    BY <1>1, <1>5, RowBounds, TypesHold DEF StoreInvariant, TypeOK
  <1>7. ChairVoteBroughtGraph'
    <2>1. \A other \in Accepted : other.id.revision # 11
      BY <1>1 DEF StoreInvariant, ChairVoteBroughtGraph
    <2>2. CASE row.revision = 11
      BY <1>1, <2>2 DEF ChairVoteBroughtGraph
    <2>3. CASE row.revision # 11
      BY <1>1, <1>2, <2>1, <2>3 DEF ChairVoteBroughtGraph
    <2>4. QED
      BY <2>2, <2>3
  <1>8. QED
    BY <1>1, <1>3, <1>4, <1>5, <1>6, <1>7 DEF StoreInvariant

\* An admission keeps the tables in agreement, accepted or refused.
LEMMA AdmittingKeeps ==
    ASSUME StoreInvariant, NEW receipt \in Receipts, NEW after,
           admit_evidence_bundle(receipt, after)
    PROVE  StoreInvariant'
  <1>1. /\ consumed' = consumed \cup {receipt}
        /\ graphs' = graphs /\ invocations' = invocations
    BY DEF admit_evidence_bundle
  <1>2. Accepted' = Accepted
    BY <1>1 DEF Accepted
  <1>3. CASE BundleAccepted(receipt, after)
    <2>1. /\ AppendAccepted(after, receipt, 5)
          /\ bundles = <<>>
          /\ bundles' = <<receipt>>
          /\ events' = Append(events, receipt)
          /\ row' = [row EXCEPT !.revision = @ + 1,
                                !.finalized = (row.revision + 1 = 12)]
      BY <1>3 DEF admit_evidence_bundle, BundleAccepted, AppendEvent, AppendRow
    <2>2. LogExtends(receipt) /\ row.revision = 5 /\ ~row.finalized
      BY <2>1, AcceptedExtends
    <2>3. RowFollowsLog' /\ row' \in RowType
      BY <1>1, <2>1, <2>2, RowStays
    <2>4. TypeOK'
      BY <1>1, <2>1, <2>2, <2>3, RowBounds, TypesHold DEF StoreInvariant, TypeOK
    <2>5. EvidenceHasOneOrigin' /\ Len(bundles') <= 1
      <3>1. row.revision + 1 = 6
        BY <2>2
      <3>2. events'[6] = receipt /\ HasLedger'
        BY <2>2, <3>1 DEF LogExtends, HasLedger
      <3>3. \A other \in Receipts : receipt = other <=> bundles' = <<other>>
        BY <2>1
      <3>4. \A k \in DOMAIN bundles' : bundles'[k] \in consumed'
        BY <1>1, <2>1
      <3>5. QED
        BY <2>1, <3>2, <3>3, <3>4 DEF EvidenceHasOneOrigin
    <2>6. AcceptedVoteIsItsEvent'
      BY <1>2, <2>2, VotesStay
    <2>7. ChairVoteBroughtGraph'
      BY <1>2, <2>2 DEF StoreInvariant, ChairVoteBroughtGraph
    <2>8. QED
      BY <2>3, <2>4, <2>5, <2>6, <2>7 DEF StoreInvariant
  <1>4. CASE ~BundleAccepted(receipt, after)
    <2>1. UNCHANGED <<bundles, events, row>>
      BY <1>4 DEF admit_evidence_bundle
    <2>2. TypeOK'
      BY <1>1, <2>1 DEF StoreInvariant, TypeOK
    <2>3. RowFollowsLog'
      BY <1>1, <2>1 DEF StoreInvariant, RowFollowsLog, HasLedger
    <2>4. AcceptedVoteIsItsEvent' /\ ChairVoteBroughtGraph'
      BY <1>1, <1>2, <2>1
      DEF StoreInvariant, AcceptedVoteIsItsEvent, VotesMatchEvents, ChairVoteBroughtGraph
    <2>5. EvidenceHasOneOrigin'
      BY <1>1, <2>1 DEF StoreInvariant, EvidenceHasOneOrigin, HasLedger
    <2>6. QED
      BY <2>1, <2>2, <2>3, <2>4, <2>5 DEF StoreInvariant
  <1>5. QED
    BY <1>3, <1>4

\* So do the callers of admit_evidence_bundle.
LEMMA AdmitKeeps ==
    ASSUME StoreInvariant, CallAdmit
    PROVE  StoreInvariant'
  BY AdmittingKeeps DEF CallAdmit

\* save_claim_graph adds the row it anchors and leaves the log and votes alone.
LEMMA GraphKeeps ==
    ASSUME StoreInvariant, CallSaveGraph
    PROVE  StoreInvariant'
  <1>1. PICK expected \in 1..row.revision : save_claim_graph(expected)
    BY DEF CallSaveGraph
  <1>2. /\ row.revision = expected
        /\ HasLedger
        /\ expected \notin graphs
        /\ graphs' = graphs \cup {expected}
        /\ row' = [row EXCEPT !.graph_revision = expected]
        /\ UNCHANGED <<events, invocations, bundles, consumed>>
    BY <1>1 DEF save_claim_graph
  <1>3. expected \in 6..12
    BY <1>2, RowBounds
  <1>4. /\ row'.revision = row.revision
        /\ row'.finalized = row.finalized
        /\ row'.graph_revision = row.revision
        /\ row' \in RowType
    BY <1>2, <1>3, RowBounds DEF RowType
  <1>5. Accepted' = Accepted
    BY <1>2 DEF Accepted
  <1>6. TypeOK'
    BY <1>2, <1>3, <1>4 DEF StoreInvariant, TypeOK, RowType
  <1>7. RowFollowsLog'
    <2>1. HasLedger' /\ Len(events') = row.revision
      BY <1>2, RowBounds DEF HasLedger
    <2>2. row.revision <= row.revision
      BY RowBounds
    <2>3. QED
      BY <1>2, <1>4, <2>1, <2>2 DEF StoreInvariant, RowFollowsLog
  <1>8. AcceptedVoteIsItsEvent'
    BY <1>2, <1>5 DEF StoreInvariant, AcceptedVoteIsItsEvent, VotesMatchEvents
  <1>9. EvidenceHasOneOrigin'
    BY <1>2 DEF StoreInvariant, EvidenceHasOneOrigin, HasLedger
  <1>10. ChairVoteBroughtGraph'
    <2>1. ~\E record \in Accepted : record.id.revision = 11
      BY <1>2, RowBounds DEF StoreInvariant, ChairVoteBroughtGraph
    <2>2. QED
      BY <1>5, <2>1 DEF ChairVoteBroughtGraph
  <1>11. QED
    BY <1>2, <1>6, <1>7, <1>8, <1>9, <1>10 DEF StoreInvariant

\* A refused call leaves every table as it is.
LEMMA StutterKeeps ==
    ASSUME StoreInvariant, UNCHANGED vars
    PROVE  StoreInvariant'
  BY DEF vars, StoreInvariant, TypeOK, RowFollowsLog, AcceptedVoteIsItsEvent,
         VotesMatchEvents, Accepted, EvidenceHasOneOrigin, HasLedger, ChairVoteBroughtGraph

\* The tables agree after every transaction, whatever the callers do.
THEOREM StoreAlwaysAgrees == Spec => []StoreInvariant
  <1>1. StoreInvariant /\ [Next]_vars => StoreInvariant'
    BY CreateKeeps, AppendKeeps, FailureKeeps, VoteKeeps, AdmitKeeps, GraphKeeps,
       StutterKeeps DEF Next
  <1>2. QED
    BY <1>1, InitEstablishesStore, PTL DEF Spec

-----------------------------------------------------------------------------

\* Every row has its type, at every revision of every case.
THEOREM RowsAreWellTyped == Spec => []TypeOK
  <1>1. StoreInvariant => TypeOK
    BY DEF StoreInvariant
  <1>2. QED
    BY <1>1, StoreAlwaysAgrees, PTL

\* No retry and no race of providers ever counts as a vote: an accepted
\* invocation is the only one at its revision, and its output is the event.
THEOREM VotesAreEvents == Spec => []AcceptedVoteIsItsEvent
  <1>1. StoreInvariant => AcceptedVoteIsItsEvent
    BY DEF StoreInvariant
  <1>2. QED
    BY <1>1, StoreAlwaysAgrees, PTL

\* Engine evidence and its bundle come and go together, with a used receipt.
THEOREM EvidenceAlwaysHasOneOrigin == Spec => []EvidenceHasOneOrigin
  <1>1. StoreInvariant => EvidenceHasOneOrigin
    BY DEF StoreInvariant
  <1>2. QED
    BY <1>1, StoreAlwaysAgrees, PTL

\* The checks of the readers other than the graph's always pass.
LEMMA ReadersAgree ==
    ASSUME StoreInvariant, CaseExists
    PROVE  /\ Reconstructs(FALSE) <=> GraphSettled
           /\ GraphSettled => Reconstructs(FALSE)
  <1>1. RowMatchesLog
    BY DEF StoreInvariant, RowFollowsLog, RowMatchesLog
  <1>2. EvidenceMatchesBundles
    <2>1. ASSUME HasLedger, events[6] \in Receipts
          PROVE  \E k \in DOMAIN bundles : bundles[k] = events[6]
      <3>1. bundles = <<events[6]>>
        BY <2>1 DEF StoreInvariant, EvidenceHasOneOrigin
      <3>2. QED
        BY <3>1
    <2>2. QED
      BY <2>1 DEF StoreInvariant, EvidenceMatchesBundles
  <1>3. VotesMatchEvents
    BY DEF StoreInvariant, AcceptedVoteIsItsEvent
  <1>4. /\ row.finalized => Len(events) = 12
        /\ graphs = {} => row.graph_revision = 0
        /\ graphs # {} => HasLedger /\ row.graph_revision \in graphs
        /\ graphs \subseteq 6..12
    BY DEF StoreInvariant, RowFollowsLog, TypeOK
  <1>5. GraphMatchesAnchor <=> graphs \subseteq {row.graph_revision}
    <2>1. CASE graphs = {}
      BY <1>4, <2>1 DEF GraphMatchesAnchor
    <2>2. CASE graphs # {}
      <3>1. row.graph_revision \in 6..12
        BY <1>4, <2>2
      <3>2. row.graph_revision # 0
        BY <3>1
      <3>3. GraphMatchesAnchor <=> graphs = {row.graph_revision}
        BY <1>4, <2>2, <3>2 DEF GraphMatchesAnchor
      <3>4. QED
        BY <1>4, <2>2, <3>3
    <2>3. QED
      BY <2>1, <2>2
  <1>6. QED
    BY <1>1, <1>2, <1>3, <1>4, <1>5 DEF Reconstructs, GraphSettled

\* Only its claim graph can make a case unreadable.
THEOREM OnlyGraphsBlockReaders == Spec => []UnreadableOnlyByGraph
  <1>1. StoreInvariant => UnreadableOnlyByGraph
    BY ReadersAgree DEF UnreadableOnlyByGraph
  <1>2. QED
    BY <1>1, StoreAlwaysAgrees, PTL

\* A case finalized by a provider's Chair explanation can be read.
THEOREM ChairVoteAlwaysCompletes == Spec => []ChairVoteCompletesCase
  <1>1. ASSUME StoreInvariant, NEW record \in Accepted, record.id.revision = 11
        PROVE  graphs = {12} /\ Reconstructs(FALSE)
    <2>1. graphs = {12} /\ row.graph_revision = 12 /\ row.finalized
      BY <1>1 DEF StoreInvariant, ChairVoteBroughtGraph
    <2>2. CaseExists
      BY <1>1, <2>1, RowBounds DEF CaseExists
    <2>3. QED
      BY <1>1, <2>1, <2>2, ReadersAgree DEF GraphSettled
  <1>2. StoreInvariant => ChairVoteCompletesCase
    BY <1>1 DEF ChairVoteCompletesCase
  <1>3. QED
    BY <1>2, StoreAlwaysAgrees, PTL

-----------------------------------------------------------------------------

\* A sequence is a prefix of every sequence that starts with its elements.
LEMMA PrefixByElements ==
    ASSUME NEW S, NEW s \in Seq(S), NEW t \in Seq(S),
           Len(s) <= Len(t), \A k \in 1..Len(s) : t[k] = s[k]
    PROVE  IsPrefix(s, t)
  <1>1. Len(s) \in Nat /\ Len(t) \in Nat
    OBVIOUS
  <1>2. /\ SubSeq(t, 1, Len(s)) \in Seq(S)
        /\ Len(SubSeq(t, 1, Len(s))) = Len(s)
        /\ \A k \in 1..Len(s) : SubSeq(t, 1, Len(s))[k] = t[k]
    BY <1>1
  <1>3. s = SubSeq(t, 1, Len(s))
    BY <1>2, SeqEqual
  <1>4. QED
    BY <1>3 DEF IsPrefix

\* A sequence is a prefix of itself.
LEMMA PrefixOfItself ==
    ASSUME NEW S, NEW s \in Seq(S)
    PROVE  IsPrefix(s, s)
  <1>1. Len(s) <= Len(s)
    OBVIOUS
  <1>2. QED
    BY <1>1, PrefixByElements

\* A sequence is a prefix of itself with one more element.
LEMMA PrefixOfAppend ==
    ASSUME NEW S, NEW s \in Seq(S), NEW value \in S
    PROVE  IsPrefix(s, Append(s, value))
  <1>1. /\ Append(s, value) \in Seq(S)
        /\ Len(s) <= Len(Append(s, value))
        /\ \A k \in 1..Len(s) : Append(s, value)[k] = s[k]
    BY AppendExtends
  <1>2. QED
    BY <1>1, PrefixByElements

\* What a step does to the log and to the votes: nothing, an event, or an
\* event with the vote for it.
LEMMA StepsOfTheLog ==
    ASSUME StoreInvariant, Next
    PROVE  \/ events' = events /\ Accepted' = Accepted
           \/ \E payload \in Payloads \cup Receipts :
                /\ row.revision <= 11
                /\ events' = Append(events, payload)
                /\ ~row.finalized
                /\ \/ Accepted' = Accepted
                   \/ \E record : /\ Accepted' = Accepted \cup {record}
                                  /\ record.id.revision = row.revision
                                  /\ record.result = payload
  <1>1. CASE CallCreate
    <2>1. PICK payload \in Payloads : create_case(payload)
      BY <1>1 DEF CallCreate
    <2>2. row.revision = 0 /\ events = <<>>
      <3>1. row.revision = 0
        BY <2>1, RowBounds DEF create_case, CaseExists
      <3>2. Len(events) = 0 /\ events \in Seq(Payloads \cup Receipts)
        BY <3>1, RowBounds DEF StoreInvariant, TypeOK
      <3>3. QED
        BY <3>1, <3>2, EmptySeq
    <2>3. events' = Append(events, payload) /\ Accepted' = Accepted
      BY <2>1, <2>2 DEF create_case, Accepted
    <2>4. ~row.finalized
      BY <2>2, RowBounds
    <2>5. QED
      BY <2>2, <2>3, <2>4
  <1>2. CASE CallAppend
    <2>1. PICK after, payload, expected :
                 /\ payload \in Payloads \cup Receipts
                 /\ append_event(after, payload, expected)
      BY <1>2 DEF CallAppend
    <2>2. /\ AppendAccepted(after, payload, expected)
          /\ events' = Append(events, payload)
          /\ invocations' = invocations
      BY <2>1 DEF append_event, AppendEvent
    <2>3. LogExtends(payload) /\ ~row.finalized
      BY <2>1, <2>2, AcceptedExtends
    <2>4. QED
      BY <2>1, <2>2, <2>3 DEF LogExtends, Accepted
  <1>3. CASE CallRecordFailed
    BY <1>3, InvocationTypes DEF CallRecordFailed, record_failed_invocation, Accepted
  <1>4. CASE CallRecordAccepted
    <2>1. PICK record \in AcceptedRecords :
                 /\ record.id.revision = row.revision
                 /\ LogExtends(record.result)
                 /\ events' = Append(events, record.result)
                 /\ ~row.finalized
                 /\ invocations' = invocations \cup {record}
      BY <1>4, VoteWrites
    <2>2. Accepted' = Accepted \cup {record} /\ record.result \in Payloads
      BY <2>1, InvocationTypes DEF Accepted
    <2>3. QED
      BY <2>1, <2>2 DEF LogExtends
  <1>5. CASE CallAdmit
    <2>1. PICK receipt \in Receipts, after \in Histories :
                 admit_evidence_bundle(receipt, after)
      BY <1>5 DEF CallAdmit
    <2>2. Accepted' = Accepted
      BY <2>1 DEF admit_evidence_bundle, Accepted
    <2>3. CASE BundleAccepted(receipt, after)
      <3>1. /\ AppendAccepted(after, receipt, 5)
            /\ events' = Append(events, receipt)
        BY <2>1, <2>3 DEF admit_evidence_bundle, BundleAccepted, AppendEvent
      <3>2. LogExtends(receipt) /\ ~row.finalized
        BY <3>1, AcceptedExtends
      <3>3. QED
        BY <2>2, <3>1, <3>2 DEF LogExtends
    <2>4. CASE ~BundleAccepted(receipt, after)
      BY <2>1, <2>2, <2>4 DEF admit_evidence_bundle
    <2>5. QED
      BY <2>3, <2>4
  <1>6. CASE CallSaveGraph
    BY <1>6 DEF CallSaveGraph, save_claim_graph, Accepted
  <1>7. QED
    BY <1>1, <1>2, <1>3, <1>4, <1>5, <1>6 DEF Next

\* What everyone who read the case before a step still knows after it; stated
\* for the modules whose processes are callers of this store.
LEMMA StoreGrows ==
    ASSUME StoreInvariant, Next
    PROVE  /\ StoreInvariant'
           /\ Len(events) \in Nat /\ Len(events') \in Nat /\ Len(events) <= Len(events')
           /\ \A k \in 1..Len(events) : events'[k] = events[k]
           /\ Len(events') = Len(events) => events' = events /\ bundles' = bundles
           /\ graphs \subseteq graphs' /\ invocations \subseteq invocations'
  <1>1. StoreInvariant'
    BY CreateKeeps, AppendKeeps, FailureKeeps, VoteKeeps, AdmitKeeps, GraphKeeps DEF Next
  <1>2. events \in Seq(Payloads \cup Receipts)
    BY DEF StoreInvariant, TypeOK
  <1>3. /\ Len(events) \in Nat /\ Len(events') \in Nat /\ Len(events) <= Len(events')
        /\ \A k \in 1..Len(events) : events'[k] = events[k]
        /\ Len(events') = Len(events) => events' = events
    <2>1. CASE events' = events
      BY <1>2, <2>1
    <2>2. ASSUME NEW payload \in Payloads \cup Receipts, events' = Append(events, payload)
          PROVE  <1>3
      <3>1. /\ Len(events) \in Nat /\ Len(events') = Len(events) + 1
            /\ \A k \in 1..Len(events) : events'[k] = events[k]
        BY <1>2, <2>2, AppendExtends
      <3>2. \A n \in Nat : n + 1 \in Nat /\ n <= n + 1 /\ n + 1 # n
        OBVIOUS
      <3>3. QED
        BY <3>1, <3>2
    <2>3. QED
      BY <2>1, <2>2, StepsOfTheLog
  <1>4. graphs \subseteq graphs' /\ invocations \subseteq invocations'
    BY DEF Next, CallCreate, create_case, CallAppend, append_event,
           CallRecordFailed, record_failed_invocation, CallRecordAccepted,
           record_accepted_invocation, CallAdmit, admit_evidence_bundle,
           CallSaveGraph, save_claim_graph
  <1>5. bundles' = bundles \/ \E receipt \in Receipts : events' = Append(events, receipt)
    BY DEF Next, CallCreate, create_case, CallAppend, append_event, AppendEvent,
           CallRecordFailed, record_failed_invocation, CallRecordAccepted,
           record_accepted_invocation, CallAdmit, admit_evidence_bundle,
           CallSaveGraph, save_claim_graph
  <1>6. ASSUME Len(events') = Len(events) PROVE bundles' = bundles
    <2>1. ASSUME NEW receipt \in Receipts, events' = Append(events, receipt) PROVE FALSE
      <3>1. Len(events) \in Nat /\ Len(events') = Len(events) + 1
        BY <1>2, <2>1, AppendExtends
      <3>2. \A n \in Nat : n + 1 # n
        OBVIOUS
      <3>3. QED
        BY <1>6, <3>1, <3>2
    <2>2. QED
      BY <1>5, <2>1
  <1>7. QED
    BY <1>1, <1>3, <1>4, <1>6

\* The store implements the ledger of CaseLedger: an append-only log with an
\* end, and votes that are cast together with their event.
THEOREM StoreImplementsLedger == Spec => ImplementsLedger
  <1>1. Init => Ledger!Init
    <2> SUFFICES ASSUME Init PROVE Ledger!Init
      OBVIOUS
    <2>1. Accepted = {}
      BY DEF Init, Accepted
    <2>2. events \in Seq(Payloads \cup Receipts)
      BY InitEstablishesStore DEF StoreInvariant, TypeOK
    <2>3. Len(events) < 12
      <3>1. Len(events) <= 11
        BY StoreConstants DEF Init, VERDICT_ELIGIBILITY_COMPUTED
      <3>2. Len(events) \in Nat
        BY <2>2
      <3>3. \A n \in Nat : n <= 11 => n < 12
        OBVIOUS
      <3>4. QED
        BY <3>1, <3>2, <3>3
    <2>4. Votes = {}
      BY <2>1 DEF Votes
    <2>5. QED
      BY <2>2, <2>3, <2>4 DEF Ledger!Init, Ledger!CHAIR_EXPLANATION
  <1>2. StoreInvariant /\ [Next]_vars => [Ledger!Next]_<<events, Votes>>
    <2> SUFFICES ASSUME StoreInvariant, [Next]_vars
                 PROVE  [Ledger!Next]_<<events, Votes>>
      OBVIOUS
    <2>1. CASE UNCHANGED vars
      BY <2>1 DEF vars, Votes, Accepted
    <2>2. CASE Next
      <3>1. CASE events' = events /\ Accepted' = Accepted
        BY <3>1 DEF Votes
      <3>2. ASSUME NEW payload \in Payloads \cup Receipts,
                   row.revision <= 11, events' = Append(events, payload),
                   \/ Accepted' = Accepted
                   \/ \E record : /\ Accepted' = Accepted \cup {record}
                                  /\ record.id.revision = row.revision
                                  /\ record.result = payload
            PROVE  Ledger!Next
        <4>1. Len(events) < 12 /\ Len(events) = row.revision
          BY <3>2, RowBounds
        <4>2. Votes' \in {Votes, Votes \cup {[revision |-> Len(events), output |-> payload]}}
          BY <3>2, <4>1 DEF Votes
        <4>3. Ledger!Record(payload)
          BY <3>2, <4>1, <4>2 DEF Ledger!Record, Ledger!Vote, Ledger!CHAIR_EXPLANATION
        <4>4. QED
          BY <4>3 DEF Ledger!Next
      <3>3. QED
        BY <2>2, <3>1, <3>2, StepsOfTheLog
    <2>3. QED
      BY <2>1, <2>2
  <1>3. QED
    BY <1>1, <1>2, StoreAlwaysAgrees, PTL DEF Spec, ImplementsLedger, Ledger!Spec

\* The graph anchor only moves forward: it never passes the log, and a new one
\* is set at the revision of the log.
LEMMA AnchorMovesForward ==
    ASSUME StoreInvariant, Next
    PROVE  row.graph_revision <= row'.graph_revision
  <1>1. /\ row \in RowType
        /\ row.graph_revision \in 0..12
        /\ row.graph_revision <= row.revision
        /\ row.revision \in 0..12
    BY RowBounds DEF RowType, StoreInvariant, RowFollowsLog
  <1>2. CASE CallCreate
    <2>1. row.revision = 0 /\ row'.graph_revision = 0
      BY <1>1, <1>2 DEF CallCreate, create_case, CaseExists
    <2>2. QED
      BY <1>1, <2>1
  <1>3. CASE CallAppend
    <2>1. row'.graph_revision = row.graph_revision
      BY <1>1, <1>3 DEF CallAppend, append_event, AppendEvent, AppendRow, RowType
    <2>2. QED
      BY <1>1, <2>1
  <1>4. CASE CallRecordFailed
    BY <1>1, <1>4 DEF CallRecordFailed, record_failed_invocation
  <1>5. CASE CallRecordAccepted
    <2>1. PICK record \in AcceptedRecords, after \in Histories, graphFits \in BOOLEAN :
                 record_accepted_invocation(record, after, record.id.revision, graphFits)
      BY <1>5 DEF CallRecordAccepted
    <2>2. CASE Len(after) + 1 = 12
      <3>1. row'.graph_revision = row.revision + 1
        BY <2>1, <2>2 DEF record_accepted_invocation
      <3>2. QED
        BY <1>1, <3>1
    <2>3. CASE Len(after) + 1 # 12
      <3>1. row'.graph_revision = row.graph_revision
        BY <1>1, <2>1, <2>3 DEF record_accepted_invocation, AppendRow, RowType
      <3>2. QED
        BY <1>1, <3>1
    <2>4. QED
      BY <2>2, <2>3
  <1>6. CASE CallAdmit
    <2>1. row'.graph_revision = row.graph_revision
      BY <1>1, <1>6 DEF CallAdmit, admit_evidence_bundle, AppendEvent, AppendRow, RowType
    <2>2. QED
      BY <1>1, <2>1
  <1>7. CASE CallSaveGraph
    <2>1. row'.graph_revision = row.revision
      BY <1>1, <1>7 DEF CallSaveGraph, save_claim_graph, RowType
    <2>2. QED
      BY <1>1, <2>1
  <1>8. QED
    BY <1>2, <1>3, <1>4, <1>5, <1>6, <1>7 DEF Next

\* Once written, nothing is taken back: no step shortens or changes a table,
\* moves the graph anchor backwards or adds an event to a finalized case.
THEOREM NothingIsEverRewritten == Spec => NothingIsRewritten
  <1> DEFINE Grows ==
        /\ IsPrefix(events, events')
        /\ IsPrefix(bundles, bundles')
        /\ graphs \subseteq graphs'
        /\ invocations \subseteq invocations'
        /\ row.graph_revision <= row'.graph_revision
        /\ row.finalized => events' = events
  <1>1. ASSUME StoreInvariant, Next PROVE Grows
    <2>1. events \in Seq(Payloads \cup Receipts) /\ bundles \in Seq(Receipts)
      BY <1>1 DEF StoreInvariant, TypeOK
    <2>2. IsPrefix(events, events') /\ (row.finalized => events' = events)
      <3>1. CASE events' = events
        BY <2>1, <3>1, PrefixOfItself
      <3>2. ASSUME NEW payload \in Payloads \cup Receipts,
                   events' = Append(events, payload), ~row.finalized
            PROVE  IsPrefix(events, events') /\ (row.finalized => events' = events)
        BY <2>1, <3>2, PrefixOfAppend
      <3>3. QED
        BY <1>1, <3>1, <3>2, StepsOfTheLog
    <2>3. IsPrefix(bundles, bundles')
      <3>1. \/ bundles' = bundles
            \/ \E receipt \in Receipts : bundles' = Append(bundles, receipt)
        BY <1>1 DEF Next, CallCreate, create_case, CallAppend, append_event,
                    CallRecordFailed, record_failed_invocation, CallRecordAccepted,
                    record_accepted_invocation, CallAdmit, admit_evidence_bundle,
                    CallSaveGraph, save_claim_graph
      <3>2. IsPrefix(bundles, bundles)
        BY <2>1, PrefixOfItself
      <3>3. \A receipt \in Receipts : IsPrefix(bundles, Append(bundles, receipt))
        BY <2>1, PrefixOfAppend
      <3>4. QED
        BY <3>1, <3>2, <3>3
    <2>4. graphs \subseteq graphs' /\ invocations \subseteq invocations'
      BY <1>1 DEF Next, CallCreate, create_case, CallAppend, append_event,
                  CallRecordFailed, record_failed_invocation, CallRecordAccepted,
                  record_accepted_invocation, CallAdmit, admit_evidence_bundle,
                  CallSaveGraph, save_claim_graph
    <2>5. row.graph_revision <= row'.graph_revision
      BY <1>1, AnchorMovesForward
    <2>6. QED
      BY <2>2, <2>3, <2>4, <2>5
  <1>2. StoreInvariant /\ [Next]_vars => [Grows]_vars
    BY <1>1
  <1>3. QED
    BY <1>2, StoreAlwaysAgrees, PTL DEF Spec, NothingIsRewritten
================================================================================
