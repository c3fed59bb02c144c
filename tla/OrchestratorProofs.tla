-------------------------- MODULE OrchestratorProofs --------------------------
(***************************************************************************)
(* Calls of the orchestrator, for any number of clients and crashes.       *)
(*                                                                         *)
(* The argument: all that a client stores goes through the store's own     *)
(* transactions, so the store's invariant holds and the log only grows.    *)
(* A client that read a log of the present length has read the present     *)
(* log, no vote was accepted since, and the failures on record at its      *)
(* revision have numbers of their own, so the number it took is within the *)
(* bound.  Its record is then as the store demands it, and only a record   *)
(* of the same number can be in the way, or, for the Chair's answer, a     *)
(* claim graph.                                                            *)
(***************************************************************************)
EXTENDS Orchestrator, SequenceTheorems, FiniteSetTheorems, TLAPS

StoreFacts == INSTANCE CaseStoreProofs

USE DEF Store!CLAIM_RECEIVED, StoreFacts!CLAIM_RECEIVED,
        Store!RESEARCHER_PROTOCOL_PROPOSED, StoreFacts!RESEARCHER_PROTOCOL_PROPOSED,
        Store!EXPERIMENT_EXECUTED, StoreFacts!EXPERIMENT_EXECUTED,
        Store!STATISTICS_REVIEWED, StoreFacts!STATISTICS_REVIEWED,
        Store!OPTIONAL_FOLLOW_UP, StoreFacts!OPTIONAL_FOLLOW_UP,
        Store!VERDICT_ELIGIBILITY_COMPUTED, StoreFacts!VERDICT_ELIGIBILITY_COMPUTED,
        Store!CHAIR_EXPLANATION, StoreFacts!CHAIR_EXPLANATION,
        Store!CONSTITUTION_LOCKED, StoreFacts!CONSTITUTION_LOCKED

\* The steps of a call that is on its way to a record, and has its number.
Asking   == {"numbering", "invoking", "recording"}
Numbered == {"invoking", "recording"}

IsCall(c) ==
    /\ c = [state |-> c.state, request |-> c.request, seen |-> c.seen, number |-> c.number,
            answer |-> c.answer, graphFits |-> c.graphFits]
    /\ c.graphFits \in BOOLEAN

\* The log was as long as this when the call read it, and has not changed if
\* it is as long now.
ReadTheLog(c) ==
    /\ Len(c.seen) \in Nat /\ Len(c.seen) <= Len(events)
    /\ Len(c.seen) = Len(events) => c.seen = events

IsCurrent(c) == Len(c.seen) = Len(events)

OnRecord(revision, output) ==
    /\ revision \in Nat
    /\ revision < Len(events)
    /\ events[revision + 1] = output

IsAnswer(client) ==
    \/ \E output \in Payloads :
         call[client].answer = Store!AcceptedRecord(InvocationId(client), output)
    \/ /\ call[client].number < MaxInvocations
       /\ \E observation \in Observations :
            call[client].answer = Store!FailedRecord(InvocationId(client), observation)

\* What is known of a call.
Informed(client) ==
    /\ pc[client] \in Asking =>
         /\ call[client].state \in Store!ProviderStates
         /\ call[client].request \in Requests
         /\ Len(call[client].seen) = call[client].state
         /\ ReadTheLog(call[client])
    /\ pc[client] \in Numbered /\ IsCurrent(call[client]) =>
         call[client].number \in 1..MaxInvocations
    /\ pc[client] = "recording" => IsAnswer(client)
    /\ pc[client] = "committed" =>
         OnRecord(call[client].answer.id.revision, call[client].answer.result)

\* A number of a request is used once, the last one never by a failure.
RecordsAreNumbered ==
    /\ \A one, other \in invocations : one.id = other.id => one = other
    /\ \A record \in invocations :
         record.status = "failed" => record.id.number < MaxInvocations

CallTypes ==
    /\ pc \in [Clients -> Steps]
    /\ call = [client \in Clients |-> call[client]]
    /\ \A client \in Clients : IsCall(call[client])

ClientInvariant ==
    /\ StoreFacts!StoreInvariant
    /\ RecordsAreNumbered
    /\ CallTypes
    /\ \A client \in Clients : Informed(client)
    /\ \A result \in returned : OnRecord(result.revision, result.output)

-----------------------------------------------------------------------------

\* The constants are as the proofs about the store demand.
LEMMA StoreIsGoverned == StoreFacts!StoreConstants
BY StoreConstants DEF Store!StoreConstants, StoreFacts!StoreConstants

\* What both instances of the store say of a case.
LEMMA SameStore ==
    /\ Store!Histories = StoreFacts!Histories
    /\ Store!FailedRecords = StoreFacts!FailedRecords
    /\ Store!AcceptedRecords = StoreFacts!AcceptedRecords
    /\ Store!Reconstructs(TRUE) <=> StoreFacts!Reconstructs(TRUE)
<1>1. Store!Histories = StoreFacts!Histories
  BY Zenon DEF Store!Histories, StoreFacts!Histories
<1>2. Store!InvocationIds = StoreFacts!InvocationIds
  BY DEF Store!InvocationIds, StoreFacts!InvocationIds,
         Store!ProviderStates, StoreFacts!ProviderStates
<1>3. Store!FailedRecords = StoreFacts!FailedRecords
  BY <1>2 DEF Store!FailedRecords, StoreFacts!FailedRecords,
              Store!FailedRecord, StoreFacts!FailedRecord
<1>4. Store!AcceptedRecords = StoreFacts!AcceptedRecords
  BY <1>2 DEF Store!AcceptedRecords, StoreFacts!AcceptedRecords,
              Store!AcceptedRecord, StoreFacts!AcceptedRecord
<1>5. Store!Reconstructs(TRUE) <=> StoreFacts!Reconstructs(TRUE)
  BY Zenon DEF Store!Reconstructs, StoreFacts!Reconstructs,
               Store!RowMatchesLog, StoreFacts!RowMatchesLog,
               Store!GraphMatchesAnchor, StoreFacts!GraphMatchesAnchor,
               Store!EvidenceMatchesBundles, StoreFacts!EvidenceMatchesBundles,
               Store!VotesMatchEvents, StoreFacts!VotesMatchEvents,
               Store!HasLedger, StoreFacts!HasLedger, Store!CaseExists, StoreFacts!CaseExists,
               Store!Accepted, StoreFacts!Accepted
<1>6. QED
  BY <1>1, <1>3, <1>4, <1>5

\* What the store's invariant says of the case.
LEMMA StoreNow ==
    ASSUME StoreFacts!StoreInvariant
    PROVE  /\ row.revision = Len(events) /\ events \in Seq(Payloads \cup Receipts)
           /\ Len(events) \in Nat /\ Len(events) <= 12
           /\ row.finalized <=> Len(events) = 12
           /\ graphs = {} => row.graph_revision = 0
           /\ invocations \subseteq Store!AcceptedRecords \cup Store!FailedRecords
           /\ Store!VotesMatchEvents
           /\ Len(bundles) <= 1
           /\ \A receipt \in Receipts :
                (Len(events) >= 6 /\ events[6] = receipt) <=> bundles = <<receipt>>
<1>1. /\ row.revision = Len(events) /\ events \in Seq(Payloads \cup Receipts)
      /\ Len(events) \in Nat /\ Len(events) <= 12
      /\ row.finalized <=> Len(events) = 12
      /\ graphs = {} => row.graph_revision = 0
      /\ invocations \subseteq StoreFacts!AcceptedRecords \cup StoreFacts!FailedRecords
      /\ StoreFacts!VotesMatchEvents
      /\ Len(bundles) <= 1
      /\ \A receipt \in Receipts :
           (Len(events) >= 6 /\ events[6] = receipt) <=> bundles = <<receipt>>
  BY DEF StoreFacts!StoreInvariant, StoreFacts!TypeOK, StoreFacts!RowFollowsLog,
         StoreFacts!AcceptedVoteIsItsEvent, StoreFacts!EvidenceHasOneOrigin,
         StoreFacts!HasLedger
<1>2. Store!VotesMatchEvents <=> StoreFacts!VotesMatchEvents
  BY Zenon DEF Store!VotesMatchEvents, StoreFacts!VotesMatchEvents,
               Store!Accepted, StoreFacts!Accepted
<1>3. QED
  BY <1>1, <1>2, SameStore

\* The transactions of the calls are those that the proofs about the store
\* speak of.
LEMMA SameCallers ==
    \/ Store!CallAppend \/ Store!CallRecordFailed
    \/ Store!CallRecordAccepted \/ Store!CallSaveGraph
    => StoreFacts!Next
<1>1. Store!CallAppend => StoreFacts!CallAppend
  BY SameStore, Zenon
     DEF Store!CallAppend, StoreFacts!CallAppend, Store!append_event, StoreFacts!append_event,
         Store!AppendAccepted, StoreFacts!AppendAccepted, Store!CaseExists,
         StoreFacts!CaseExists, Store!EvidenceHasBundle, StoreFacts!EvidenceHasBundle,
         Store!AppendEvent, StoreFacts!AppendEvent, Store!AppendRow, StoreFacts!AppendRow,
         Store!Expectations, StoreFacts!Expectations
<1>2. Store!CallRecordFailed => StoreFacts!CallRecordFailed
  <2>1. ASSUME NEW record
        PROVE  Store!record_failed_invocation(record, record.id.revision) =>
                 StoreFacts!record_failed_invocation(record, record.id.revision)
    BY Zenon DEF Store!record_failed_invocation, StoreFacts!record_failed_invocation,
                 Store!FailureStorable, StoreFacts!FailureStorable,
                 Store!InvocationInsertable, StoreFacts!InvocationInsertable,
                 Store!Accepted, StoreFacts!Accepted, Store!CaseExists, StoreFacts!CaseExists
  <2>2. QED
    BY <2>1, SameStore, Zenon DEF Store!CallRecordFailed, StoreFacts!CallRecordFailed
<1>3. Store!CallRecordAccepted => StoreFacts!CallRecordAccepted
  <2>1. ASSUME NEW record, NEW after, NEW graphFits
        PROVE  Store!VoteStorable(record, after, record.id.revision, graphFits) =>
                 StoreFacts!VoteStorable(record, after, record.id.revision, graphFits)
    BY SameStore, Zenon
       DEF Store!VoteStorable, StoreFacts!VoteStorable,
           Store!InvocationInsertable, StoreFacts!InvocationInsertable,
           Store!Accepted, StoreFacts!Accepted, Store!CaseExists, StoreFacts!CaseExists,
           Store!AppendAccepted, StoreFacts!AppendAccepted, Store!HasLedger,
           StoreFacts!HasLedger, Store!FinalGraphAnchorable, StoreFacts!FinalGraphAnchorable
  <2>2. ASSUME NEW record, NEW after, NEW graphFits
        PROVE  Store!record_accepted_invocation(record, after, record.id.revision,
                                                graphFits) =>
                 StoreFacts!record_accepted_invocation(record, after, record.id.revision,
                                                       graphFits)
    BY <2>1, Zenon
       DEF Store!record_accepted_invocation, StoreFacts!record_accepted_invocation,
           Store!AppendRow, StoreFacts!AppendRow
  <2>3. QED
    BY <2>2, SameStore, Zenon DEF Store!CallRecordAccepted, StoreFacts!CallRecordAccepted
<1>4. Store!CallSaveGraph => StoreFacts!CallSaveGraph
  BY SameStore, Zenon
     DEF Store!CallSaveGraph, StoreFacts!CallSaveGraph,
         Store!save_claim_graph, StoreFacts!save_claim_graph,
         Store!HasLedger, StoreFacts!HasLedger
<1>5. QED
  BY <1>1, <1>2, <1>3, <1>4 DEF StoreFacts!Next

\* The stored log is a history a caller may have read.
LEMMA LogIsHistory ==
    ASSUME events \in Seq(Payloads \cup Receipts), Len(events) \in Nat, Len(events) >= 1
    PROVE  events \in Store!Histories
<1>1. SubSeq(events, 1, Len(events)) = events /\ Len(events) \in 1..Len(events)
  OBVIOUS
<1>2. QED
  BY <1>1 DEF Store!Histories

\* Vote records and failure records differ, and show what they were built from.
LEMMA RecordFields ==
    /\ \A id, value :
         /\ Store!AcceptedRecord(id, value).id = id
         /\ Store!AcceptedRecord(id, value).result = value
         /\ Store!AcceptedRecord(id, value).status = "accepted"
         /\ Store!FailedRecord(id, value).id = id
         /\ Store!FailedRecord(id, value).status = "failed"
    /\ \A record \in Store!AcceptedRecords :
         /\ record.status = "accepted" /\ record.id \in Store!InvocationIds
         /\ record.id.revision \in Nat
    /\ \A record \in Store!FailedRecords :
         record.status = "failed" /\ record.id \in Store!InvocationIds
<1>1. \A id, value :
         /\ Store!AcceptedRecord(id, value).id = id
         /\ Store!AcceptedRecord(id, value).result = value
         /\ Store!AcceptedRecord(id, value).status = "accepted"
         /\ Store!FailedRecord(id, value).id = id
         /\ Store!FailedRecord(id, value).status = "failed"
  BY DEF Store!AcceptedRecord, Store!FailedRecord
<1>2. \A id \in Store!InvocationIds : id.revision \in Nat
  BY DEF Store!InvocationIds, Store!ProviderStates
<1>3. QED
  BY <1>1, <1>2 DEF Store!AcceptedRecords, Store!FailedRecords

\* A call that holds an answer for the present revision holds a record.
LEMMA CurrentAnswers ==
    ASSUME ClientInvariant, NEW client \in Clients, pc[client] = "recording",
           IsCurrent(call[client])
    PROVE  /\ call[client].seen = events
           /\ call[client].answer.id = InvocationId(client)
           /\ InvocationId(client).revision = Len(events)
           /\ Len(events) \in Store!ProviderStates
           /\ \/ /\ call[client].answer \in Store!AcceptedRecords
                 /\ call[client].answer.status = "accepted"
              \/ /\ call[client].answer \in Store!FailedRecords
                 /\ call[client].answer.status = "failed"
                 /\ call[client].number < MaxInvocations
<1>1. /\ call[client].state \in Store!ProviderStates /\ call[client].request \in Requests
      /\ Len(call[client].seen) = call[client].state /\ call[client].seen = events
      /\ call[client].number \in 1..MaxInvocations /\ IsAnswer(client)
  BY DEF ClientInvariant, Informed, ReadTheLog, IsCurrent, Asking, Numbered
<1>2. InvocationId(client) \in Store!InvocationIds
  BY <1>1 DEF InvocationId, Store!InvocationIds
<1>3. InvocationId(client).revision = Len(events)
  BY <1>1 DEF InvocationId
<1>4. CASE \E output \in Payloads :
             call[client].answer = Store!AcceptedRecord(InvocationId(client), output)
  <2>1. call[client].answer \in Store!AcceptedRecords
    BY <1>2, <1>4 DEF Store!AcceptedRecords
  <2>2. QED
    BY <1>1, <1>3, <1>4, <2>1, RecordFields
<1>5. CASE /\ call[client].number < MaxInvocations
           /\ \E observation \in Observations :
                call[client].answer = Store!FailedRecord(InvocationId(client), observation)
  <2>1. call[client].answer \in Store!FailedRecords
    BY <1>2, <1>5 DEF Store!FailedRecords
  <2>2. QED
    BY <1>1, <1>3, <1>5, <2>1, RecordFields
<1>6. QED
  BY <1>1, <1>4, <1>5 DEF IsAnswer

\* What a commit says of the call that makes it.
LEMMA CommitIsCurrent ==
    ASSUME ClientInvariant, NEW client \in Clients,
           CommitAccepted(client) \/ CommitFailed(client)
    PROVE  pc[client] = "recording" /\ IsCurrent(call[client])
<1>1. row.revision = Len(events)
  BY StoreNow DEF ClientInvariant
<1>2. QED
  BY <1>1 DEF CommitAccepted, CommitFailed, Store!record_accepted_invocation,
              Store!record_failed_invocation, Store!VoteStorable, Store!FailureStorable,
              Store!AppendAccepted, IsCurrent

\* Every step leaves the store alone or is one of its transactions.
LEMMA StepsAreCalls ==
    ASSUME ClientInvariant, Next
    PROVE  UNCHANGED storeVars \/ StoreFacts!Next
<1>1. /\ row.revision = Len(events) /\ events \in Seq(Payloads \cup Receipts)
      /\ Len(events) \in Nat
  BY StoreNow DEF ClientInvariant
<1>2. ASSUME NEW client \in Clients, CommitAccepted(client) PROVE Store!CallRecordAccepted
  <2>1. /\ call[client].seen = events /\ Len(events) \in Store!ProviderStates
        /\ call[client].answer \in Store!AcceptedRecords
        /\ call[client].answer.id.revision = Len(events)
        /\ Len(events) >= 1 /\ call[client].graphFits \in BOOLEAN
    <3>1. pc[client] = "recording" /\ IsCurrent(call[client])
      BY <1>2, CommitIsCurrent
    <3>2. call[client].answer.status = "accepted"
      BY <1>2 DEF CommitAccepted
    <3>3. \A n \in Store!ProviderStates : n >= 1
      BY DEF Store!ProviderStates
    <3>4. QED
      BY <3>1, <3>2, <3>3, CurrentAnswers DEF ClientInvariant, CallTypes, IsCall
  <2>2. Store!record_accepted_invocation(call[client].answer, events,
                                         call[client].answer.id.revision,
                                         call[client].graphFits)
    BY <1>2, <2>1 DEF CommitAccepted
  <2>3. QED
    BY <1>1, <2>1, <2>2, LogIsHistory DEF Store!CallRecordAccepted
<1>3. ASSUME NEW client \in Clients, CommitFailed(client) PROVE Store!CallRecordFailed
  <2>1. /\ call[client].seen = events
        /\ call[client].answer \in Store!FailedRecords
        /\ call[client].answer.id.revision = Len(events)
    BY <1>3, CommitIsCurrent, CurrentAnswers, RecordFields DEF CommitFailed
  <2>2. QED
    BY <1>3, <2>1 DEF CommitFailed, Store!CallRecordFailed
<1>4. ASSUME CodeOwnedStep PROVE Store!CallAppend
  <2>1. PICK payload \in Payloads : Store!append_event(events, payload, Len(events))
    BY <1>4 DEF CodeOwnedStep
  <2>2. Len(events) >= 1
    BY <1>1, <2>1 DEF Store!append_event, Store!AppendAccepted, Store!CaseExists
  <2>3. Len(events) \in Store!Expectations(events)
    BY DEF Store!Expectations
  <2>4. events \in Store!Histories
    BY <1>1, <2>2, LogIsHistory
  <2>5. payload \in IF Len(events) + 1 = 6 THEN Payloads \cup Receipts ELSE Payloads
    OBVIOUS
  <2>6. QED
    BY <2>1, <2>3, <2>4, <2>5 DEF Store!CallAppend
<1>5. ASSUME NEW client \in Clients, ClientStep(client) \/ Crash(client),
             ~CommitAccepted(client), ~CommitFailed(client)
      PROVE  UNCHANGED storeVars
  BY <1>5 DEF ClientStep, Reconstruct, ImmediateReplay, NextInvocationId, ProviderAnswers,
              ProviderAnswersWith, ProviderFails, CommitRefused, Return, Crash
<1>6. ASSUME SaveGraph PROVE Store!CallSaveGraph
  BY <1>6 DEF SaveGraph, Store!CallSaveGraph
<1>7. QED
  BY <1>2, <1>3, <1>4, <1>5, <1>6, SameCallers DEF Next, ClientStep

\* So the store stays consistent and the log only grows.
LEMMA StepsGrow ==
    ASSUME ClientInvariant, Next \/ UNCHANGED vars
    PROVE  /\ StoreFacts!StoreInvariant'
           /\ Len(events) \in Nat /\ Len(events') \in Nat /\ Len(events) <= Len(events')
           /\ \A k \in 1..Len(events) : events'[k] = events[k]
           /\ Len(events') = Len(events) => events' = events
<1>1. StoreFacts!StoreInvariant /\ Len(events) \in Nat
  BY StoreNow DEF ClientInvariant
<1>2. CASE UNCHANGED storeVars
  <2>1. StoreFacts!StoreInvariant' /\ events' = events
    BY <1>1, <1>2, StoreIsGoverned, StoreFacts!StutterKeeps DEF storeVars, StoreFacts!vars
  <2>2. QED
    BY <1>1, <2>1
<1>3. CASE StoreFacts!Next
  BY <1>1, <1>3, StoreIsGoverned, StoreFacts!StoreGrows
<1>4. QED
  BY <1>2, <1>3, StepsAreCalls DEF vars

\* What is on record stays there, and what a call read stays the beginning.
LEMMA RecordStays ==
    ASSUME ClientInvariant, Next \/ UNCHANGED vars
    PROVE  /\ \A revision, output :
                OnRecord(revision, output) => OnRecord(revision, output)'
           /\ \A c : ReadTheLog(c) =>
                /\ ReadTheLog(c)'
                /\ IsCurrent(c)' => IsCurrent(c)
<1>1. ASSUME NEW revision, NEW output, OnRecord(revision, output)
      PROVE  OnRecord(revision, output)'
  <2>1. /\ revision \in Nat /\ revision < Len(events) /\ events[revision + 1] = output
    BY <1>1 DEF OnRecord
  <2>2. \A r, i, j \in Nat : r < i /\ i <= j => r < j /\ r + 1 \in 1..i
    OBVIOUS
  <2>3. QED
    BY <2>1, <2>2, StepsGrow DEF OnRecord
<1>2. ASSUME NEW c, ReadTheLog(c) PROVE ReadTheLog(c)' /\ (IsCurrent(c)' => IsCurrent(c))
  <2>1. \A n, i, j \in Nat : n <= i /\ i <= j => n <= j /\ (n = j => i = j)
    OBVIOUS
  <2>2. QED
    BY <1>2, <2>1, StepsGrow DEF ReadTheLog, IsCurrent
<1>3. QED
  BY <1>1, <1>2

-----------------------------------------------------------------------------

\* A record that the store accepts leaves the others, and its identifier is
\* its own.
LEMMA InsertedIsNew ==
    ASSUME RecordsAreNumbered, NEW record, Store!InvocationInsertable(record),
           invocations' = invocations \cup {record},
           record.status = "failed" => record.id.number < MaxInvocations
    PROVE  /\ \A one, other \in invocations' : one.id = other.id => one = other
           /\ \A one \in invocations' :
                one.status = "failed" => one.id.number < MaxInvocations
BY DEF RecordsAreNumbered, Store!InvocationInsertable

\* Every step keeps the numbering of the records.
LEMMA NumberingStays ==
    ASSUME ClientInvariant, Next \/ UNCHANGED vars
    PROVE  RecordsAreNumbered'
<1>1. RecordsAreNumbered
  BY DEF ClientInvariant
<1>2. CASE UNCHANGED invocations
  BY <1>1, <1>2 DEF RecordsAreNumbered
<1>3. ASSUME NEW client \in Clients, CommitAccepted(client) PROVE RecordsAreNumbered'
  <2> DEFINE answer == call[client].answer
  <2>1. /\ answer.status = "accepted"
        /\ Store!InvocationInsertable(answer)
        /\ invocations' = invocations \cup {answer}
    BY <1>3 DEF CommitAccepted, Store!record_accepted_invocation, Store!VoteStorable
  <2>2. answer.status = "failed" => answer.id.number < MaxInvocations
    BY <2>1
  <2>3. QED
    BY <1>1, <2>1, <2>2, InsertedIsNew DEF RecordsAreNumbered
<1>4. ASSUME NEW client \in Clients, CommitFailed(client) PROVE RecordsAreNumbered'
  <2> DEFINE answer == call[client].answer
  <2>1. /\ answer.id = InvocationId(client) /\ call[client].number < MaxInvocations
        /\ Store!InvocationInsertable(answer) /\ invocations' = invocations \cup {answer}
    BY <1>4, CommitIsCurrent, CurrentAnswers
       DEF CommitFailed, Store!record_failed_invocation, Store!FailureStorable
  <2>2. answer.id.number < MaxInvocations
    BY <2>1 DEF InvocationId
  <2>3. QED
    BY <1>1, <2>1, <2>2, InsertedIsNew DEF RecordsAreNumbered
<1>5. CASE CodeOwnedStep \/ SaveGraph
  BY <1>2, <1>5 DEF CodeOwnedStep, SaveGraph, Store!append_event, Store!save_claim_graph
<1>6. ASSUME NEW client \in Clients, ClientStep(client) \/ Crash(client),
             ~CommitAccepted(client), ~CommitFailed(client)
      PROVE  RecordsAreNumbered'
  BY <1>2, <1>6
     DEF ClientStep, Reconstruct, ImmediateReplay, NextInvocationId, ProviderAnswers,
         ProviderAnswersWith, ProviderFails, CommitRefused, Return, Crash, storeVars
<1>7. QED
  BY <1>2, <1>3, <1>4, <1>5, <1>6 DEF Next, ClientStep, vars, storeVars

\* The number that a call takes at the present revision is within the bound:
\* what is on record there are failures, each with a number of its own.
LEMMA NumberIsBounded ==
    ASSUME ClientInvariant, NEW request \in Requests,
           NEW matching, matching = { record \in invocations :
                                        /\ record.id.revision = Len(events)
                                        /\ record.id.request = request }
    PROVE  Cardinality(matching) + 1 \in 1..MaxInvocations
<1>1. /\ Store!VotesMatchEvents /\ Len(events) \in Nat
      /\ invocations \subseteq Store!AcceptedRecords \cup Store!FailedRecords
      /\ RecordsAreNumbered
  BY StoreNow DEF ClientInvariant
<1>2. \A record \in matching : record.status = "failed" /\ record.id \in Store!InvocationIds
  <2> SUFFICES ASSUME NEW record \in matching
               PROVE  record.status = "failed" /\ record.id \in Store!InvocationIds
    OBVIOUS
  <2>1. record \in invocations /\ record.id.revision = Len(events)
    OBVIOUS
  <2>2. record \notin Store!Accepted
    BY <1>1, <2>1 DEF Store!VotesMatchEvents
  <2>3. QED
    BY <1>1, <2>1, <2>2, RecordFields DEF Store!Accepted
<1>3. \A record \in matching :
        record.id = [revision |-> Len(events), request |-> request,
                     number |-> record.id.number]
  BY <1>2 DEF Store!InvocationIds
<1>4. \A record \in matching : record.id.number \in 1..(MaxInvocations - 1)
  <2>1. \A record \in matching :
          record.id.number \in 1..MaxInvocations /\ record.id.number < MaxInvocations
    BY <1>1, <1>2 DEF Store!InvocationIds, RecordsAreNumbered
  <2>2. QED
    BY <2>1, MaxInvocationsAssumption
<1>5. \A one, other \in matching : one.id.number = other.id.number => one = other
  <2> SUFFICES ASSUME NEW one \in matching, NEW other \in matching,
                      one.id.number = other.id.number
               PROVE  one = other
    OBVIOUS
  <2>1. one.id = other.id
    BY <1>3
  <2>2. QED
    BY <1>1, <2>1 DEF RecordsAreNumbered
<1> DEFINE numberOf == [record \in matching |-> record.id.number]
<1>6. numberOf \in Injection(matching, 1..(MaxInvocations - 1))
  BY <1>4, <1>5 DEF Injection, IsInjective
<1> HIDE DEF numberOf
<1>7. /\ IsFiniteSet(1..(MaxInvocations - 1))
      /\ Cardinality(1..(MaxInvocations - 1)) = MaxInvocations - 1
  <2>1. 1 \in Int /\ MaxInvocations - 1 \in Int
    BY MaxInvocationsAssumption
  <2>2. /\ IsFiniteSet(1..(MaxInvocations - 1))
        /\ Cardinality(1..(MaxInvocations - 1)) =
             IF 1 > MaxInvocations - 1 THEN 0 ELSE MaxInvocations - 1 - 1 + 1
    BY <2>1, FS_Interval
  <2>3. QED
    BY <2>2, MaxInvocationsAssumption
<1>8. IsFiniteSet(matching) /\ Cardinality(matching) <= MaxInvocations - 1
  <2>1. /\ IsFiniteSet(matching)
        /\ Cardinality(matching) <= Cardinality(1..(MaxInvocations - 1))
    BY <1>6, <1>7, FS_Injection
  <2>2. QED
    BY <1>7, <2>1
<1>9. Cardinality(matching) \in Nat
  BY <1>8, FS_CardinalityType
<1>10. QED
  BY <1>8, <1>9, MaxInvocationsAssumption

-----------------------------------------------------------------------------

\* A call whose state a step does not write is as well informed after it.
LEMMA OthersStayInformed ==
    ASSUME ClientInvariant, Next \/ UNCHANGED vars, NEW other \in Clients,
           pc'[other] = pc[other], call'[other] = call[other]
    PROVE  Informed(other)'
<1>1. Informed(other)
  BY DEF ClientInvariant
<1>2. /\ pc[other] \in Asking => ReadTheLog(call[other])'
      /\ pc[other] \in Numbered /\ IsCurrent(call[other])' => IsCurrent(call[other])
  BY <1>1, RecordStays DEF Informed, Asking, Numbered
<1>3. pc[other] = "committed" =>
        OnRecord(call[other].answer.id.revision, call[other].answer.result)'
  BY <1>1, RecordStays DEF Informed
<1>4. IsAnswer(other) => IsAnswer(other)'
  BY DEF IsAnswer, InvocationId
<1>5. QED
  BY <1>1, <1>2, <1>3, <1>4 DEF Informed, ReadTheLog, IsCurrent, OnRecord

\* A client's step writes its own state only.
LEMMA ClientsWriteTheirOwn ==
    ASSUME ClientInvariant, NEW client \in Clients, ClientStep(client) \/ Crash(client)
    PROVE  /\ CallTypes'
           /\ \A other \in Clients : other # client =>
                pc'[other] = pc[other] /\ call'[other] = call[other]
<1>1. CallTypes
  BY DEF ClientInvariant
<1>2. \E step \in Steps : pc' = [pc EXCEPT ![client] = step]
  BY DEF ClientStep, Reconstruct, ImmediateReplay, NextInvocationId, ProviderAnswers,
         ProviderAnswersWith, ProviderFails, CommitAccepted, CommitFailed, CommitRefused,
         Return, Crash, Goto, Leave, Steps
<1>3. IsCall(NoCall)
  BY DEF IsCall, NoCall
<1>4. \E c : IsCall(c) /\ call' = [call EXCEPT ![client] = c]
  <2>1. CASE call' = call
    BY <1>1, <2>1 DEF CallTypes
  <2>2. CASE Leave(client)
    BY <1>3, <2>2 DEF Leave
  <2>3. CASE Reconstruct(client)
    <3>1. PICK state, request : call' = [call EXCEPT ![client] =
                [NoCall EXCEPT !.state = state, !.request = request, !.seen = events]]
      BY <2>3 DEF Reconstruct
    <3>2. IsCall([NoCall EXCEPT !.state = state, !.request = request, !.seen = events])
      <4>1. [NoCall EXCEPT !.state = state, !.request = request, !.seen = events]
              = [[[NoCall EXCEPT !.state = state] EXCEPT !.request = request]
                   EXCEPT !.seen = events]
        BY <1>3 DEF IsCall
      <4>2. \A c, value : IsCall(c) => /\ IsCall([c EXCEPT !.state = value])
                                      /\ IsCall([c EXCEPT !.request = value])
                                      /\ IsCall([c EXCEPT !.seen = value])
        BY DEF IsCall
      <4>3. QED
        BY <1>3, <4>1, <4>2
    <3>3. QED
      BY <3>1, <3>2
  <2>4. CASE \E number : call' = [call EXCEPT ![client].number = number]
    <3>1. PICK number : call' = [call EXCEPT ![client].number = number]
      BY <2>4
    <3>2. call' = [call EXCEPT ![client] = [call[client] EXCEPT !.number = number]]
      BY <1>1, <3>1 DEF CallTypes
    <3>3. IsCall([call[client] EXCEPT !.number = number])
      BY <1>1 DEF CallTypes, IsCall
    <3>4. QED
      BY <3>2, <3>3
  <2>5. CASE \E answer : call' = [call EXCEPT ![client].answer = answer]
    <3>1. PICK answer : call' = [call EXCEPT ![client].answer = answer]
      BY <2>5
    <3>2. call' = [call EXCEPT ![client] = [call[client] EXCEPT !.answer = answer]]
      BY <1>1, <3>1 DEF CallTypes
    <3>3. IsCall([call[client] EXCEPT !.answer = answer])
      BY <1>1 DEF CallTypes, IsCall
    <3>4. QED
      BY <3>2, <3>3
  <2>6. CASE \E answer : \E graphFits \in BOOLEAN :
               call' = [call EXCEPT ![client].answer = answer, ![client].graphFits = graphFits]
    <3>1. PICK answer : \E graphFits \in BOOLEAN :
            call' = [call EXCEPT ![client].answer = answer, ![client].graphFits = graphFits]
      BY <2>6
    <3>2. PICK graphFits \in BOOLEAN :
            call' = [call EXCEPT ![client].answer = answer, ![client].graphFits = graphFits]
      BY <3>1
    <3>3. call' = [call EXCEPT ![client] = [[call[client] EXCEPT !.answer = answer]
                                             EXCEPT !.graphFits = graphFits]]
      BY <1>1, <3>2 DEF CallTypes
    <3>4. IsCall([[call[client] EXCEPT !.answer = answer] EXCEPT !.graphFits = graphFits])
      <4>1. \A c, value : IsCall(c) => IsCall([c EXCEPT !.answer = value])
        BY DEF IsCall
      <4>2. \A c : \A value \in BOOLEAN : IsCall(c) => IsCall([c EXCEPT !.graphFits = value])
        BY DEF IsCall
      <4>3. IsCall(call[client])
        BY <1>1 DEF CallTypes
      <4>4. QED
        BY <3>2, <4>1, <4>2, <4>3
    <3>5. QED
      BY <3>3, <3>4
  <2>7. ProviderAnswers(client) =>
          \E answer : \E graphFits \in BOOLEAN :
            call' = [call EXCEPT ![client].answer = answer, ![client].graphFits = graphFits]
    BY DEF ProviderAnswers, ProviderAnswersWith
  <2>8. QED
    BY <2>1, <2>2, <2>3, <2>4, <2>5, <2>6, <2>7
       DEF ClientStep, ImmediateReplay, NextInvocationId,
           ProviderFails, CommitAccepted, CommitFailed, CommitRefused, Return, Crash
<1>5. QED
  BY <1>1, <1>2, <1>4 DEF CallTypes

\* What a client knows after its own step.
LEMMA OwnStepInformed ==
    ASSUME ClientInvariant, NEW client \in Clients, ClientStep(client) \/ Crash(client)
    PROVE  Informed(client)'
<1>1. /\ CallTypes /\ Informed(client) /\ pc[client] \in Steps
      /\ IsCall(call[client])
  BY DEF ClientInvariant, CallTypes
<1>2. row.revision = Len(events) /\ Len(events) \in Nat
  BY StoreNow DEF ClientInvariant
<1>3. CASE Leave(client)
  BY <1>1, <1>3 DEF Leave, Goto, CallTypes, Informed, Asking, Numbered
<1>4. CASE Reconstruct(client)
  <2>1. PICK state \in Store!ProviderStates, request \in Requests :
          /\ call' = [call EXCEPT ![client] = [NoCall EXCEPT !.state = state,
                                              !.request = request, !.seen = events]]
          /\ \/ Len(events) = NextState(state) /\ Goto(client, "replaying")
             \/ Len(events) = state /\ Goto(client, "numbering")
    BY <1>4 DEF Reconstruct
  <2>2. /\ call'[client].state = state /\ call'[client].request = request
        /\ call'[client].seen = events
    BY <1>1, <2>1 DEF CallTypes, NoCall
  <2>3. \/ pc'[client] = "replaying"
        \/ pc'[client] = "numbering" /\ Len(events) = state
    BY <1>1, <2>1 DEF Goto, CallTypes
  <2>4. events' = events
    BY <1>4 DEF Reconstruct, storeVars
  <2>5. ReadTheLog(call[client])'
    BY <1>2, <2>2, <2>4 DEF ReadTheLog
  <2>6. QED
    BY <2>2, <2>3, <2>5 DEF Informed, Asking, Numbered
<1>5. CASE NextInvocationId(client)
  <2> DEFINE matching == { record \in invocations :
                             /\ record.id.revision = call[client].state
                             /\ record.id.request = call[client].request }
  <2>1. /\ pc[client] = "numbering" /\ pc'[client] = "invoking" /\ events' = events
        /\ call' = [call EXCEPT ![client].number = Cardinality(matching) + 1]
    BY <1>1, <1>5 DEF NextInvocationId, Goto, CallTypes, storeVars
  <2> HIDE DEF matching
  <2>2. /\ call'[client].state = call[client].state
        /\ call'[client].request = call[client].request
        /\ call'[client].seen = call[client].seen
        /\ call'[client].number = Cardinality(matching) + 1
    <3>1. call'[client] = [call[client] EXCEPT !.number = Cardinality(matching) + 1]
      BY <1>1, <2>1 DEF CallTypes
    <3>2. QED
      BY <1>1, <3>1 DEF IsCall
  <2>3. /\ call[client].state \in Store!ProviderStates /\ call[client].request \in Requests
        /\ Len(call[client].seen) = call[client].state /\ ReadTheLog(call[client])
    BY <1>1, <2>1 DEF Informed, Asking
  <2>4. ASSUME IsCurrent(call[client]) PROVE Cardinality(matching) + 1 \in 1..MaxInvocations
    <3>1. matching = { record \in invocations :
                         /\ record.id.revision = Len(events)
                         /\ record.id.request = call[client].request }
      BY <2>3, <2>4 DEF matching, IsCurrent
    <3>2. QED
      BY <2>3, <3>1, NumberIsBounded
  <2>5. QED
    BY <2>1, <2>2, <2>3, <2>4 DEF Informed, Asking, Numbered, ReadTheLog, IsCurrent
<1>6. ASSUME NEW answer, NEW graphFits, pc[client] = "invoking", Goto(client, "recording"),
             UNCHANGED storeVars,
             call' = [call EXCEPT ![client] =
                        [[call[client] EXCEPT !.answer = answer]
                           EXCEPT !.graphFits = graphFits]],
             \/ \E output \in Payloads :
                  answer = Store!AcceptedRecord(InvocationId(client), output)
             \/ /\ call[client].number < MaxInvocations
                /\ \E observation \in Observations :
                     answer = Store!FailedRecord(InvocationId(client), observation)
      PROVE  Informed(client)'
  <2>1. /\ pc'[client] = "recording" /\ events' = events
    BY <1>1, <1>6 DEF Goto, CallTypes, storeVars
  <2>2. /\ call'[client].state = call[client].state
        /\ call'[client].request = call[client].request
        /\ call'[client].seen = call[client].seen
        /\ call'[client].number = call[client].number
        /\ call'[client].answer = answer
    <3>1. call'[client] = [[call[client] EXCEPT !.answer = answer]
                             EXCEPT !.graphFits = graphFits]
      BY <1>1, <1>6 DEF CallTypes
    <3>2. QED
      BY <1>1, <3>1 DEF IsCall
  <2>3. /\ call[client].state \in Store!ProviderStates /\ call[client].request \in Requests
        /\ Len(call[client].seen) = call[client].state /\ ReadTheLog(call[client])
        /\ IsCurrent(call[client]) => call[client].number \in 1..MaxInvocations
    BY <1>1, <1>6 DEF Informed, Asking, Numbered
  <2>4. IsAnswer(client)'
    BY <1>6, <2>2 DEF IsAnswer, InvocationId
  <2>5. QED
    BY <2>1, <2>2, <2>3, <2>4 DEF Informed, Asking, Numbered, ReadTheLog, IsCurrent
<1>7. CASE ProviderAnswers(client)
  <2>1. PICK graphFits \in BOOLEAN : ProviderAnswersWith(client, graphFits)
    BY <1>7 DEF ProviderAnswers
  <2>2. PICK output \in Payloads :
          call' = [call EXCEPT ![client].answer =
                                 Store!AcceptedRecord(InvocationId(client), output),
                               ![client].graphFits = graphFits]
    BY <2>1 DEF ProviderAnswersWith
  <2> DEFINE answer == Store!AcceptedRecord(InvocationId(client), output)
  <2>3. call' = [call EXCEPT ![client] = [[call[client] EXCEPT !.answer = answer]
                                            EXCEPT !.graphFits = graphFits]]
    BY <1>1, <2>2 DEF CallTypes
  <2>4. pc[client] = "invoking" /\ Goto(client, "recording") /\ UNCHANGED storeVars
    BY <2>1 DEF ProviderAnswersWith
  <2>5. \E value \in Payloads : answer = Store!AcceptedRecord(InvocationId(client), value)
    OBVIOUS
  <2> HIDE DEF answer
  <2>6. QED
    BY <1>6, <2>3, <2>4, <2>5
<1>8. CASE ProviderFails(client)
  <2>1. PICK observation \in Observations :
          call' = [call EXCEPT ![client].answer =
                     Store!FailedRecord(InvocationId(client), observation)]
    BY <1>8 DEF ProviderFails
  <2> DEFINE answer == Store!FailedRecord(InvocationId(client), observation)
  <2>2. call' = [call EXCEPT ![client] = [[call[client] EXCEPT !.answer = answer]
                                            EXCEPT !.graphFits = call[client].graphFits]]
    BY <1>1, <2>1 DEF CallTypes, IsCall
  <2>3. /\ pc[client] = "invoking" /\ Goto(client, "recording") /\ UNCHANGED storeVars
        /\ call[client].number < MaxInvocations
    BY <1>8 DEF ProviderFails
  <2>4. \E value \in Observations : answer = Store!FailedRecord(InvocationId(client), value)
    OBVIOUS
  <2> HIDE DEF answer
  <2>5. QED
    BY <1>6, <2>2, <2>3, <2>4
<1>9. CASE CommitAccepted(client)
  <2>1. /\ call[client].seen = events
        /\ call[client].answer.id.revision = Len(events)
    BY <1>9, CommitIsCurrent, CurrentAnswers
  <2>2. /\ pc'[client] = "committed" /\ call' = call
        /\ events' = Append(events, call[client].answer.result)
    BY <1>1, <1>9 DEF CommitAccepted, Goto, CallTypes, Store!record_accepted_invocation
  <2>3. Len(events') = Len(events) + 1 /\ events'[Len(events) + 1] = call[client].answer.result
    <3>1. events \in Seq(Payloads \cup Receipts)
      BY StoreNow DEF ClientInvariant
    <3>2. QED
      BY <2>2, <3>1
  <2>4. OnRecord(call[client].answer.id.revision, call[client].answer.result)'
    BY <1>2, <2>1, <2>2, <2>3 DEF OnRecord
  <2>5. QED
    BY <2>2, <2>4 DEF Informed, Asking, Numbered
<1>10. QED
  BY <1>3, <1>4, <1>5, <1>7, <1>8, <1>9
     DEF ClientStep, ImmediateReplay, CommitFailed, CommitRefused, Return, Crash

\* What is returned is on record.
LEMMA ReturnsStayOnRecord ==
    ASSUME ClientInvariant, Next \/ UNCHANGED vars
    PROVE  \A result \in returned' : OnRecord(result.revision, result.output)'
<1>1. \A result \in returned : OnRecord(result.revision, result.output)'
  BY RecordStays DEF ClientInvariant
<1>2. CASE returned' = returned
  BY <1>1, <1>2
<1>3. ASSUME NEW client \in Clients, ImmediateReplay(client)
      PROVE  \A result \in returned' : OnRecord(result.revision, result.output)'
  <2>1. /\ Store!VotesMatchEvents /\ Len(events) \in Nat
        /\ invocations \subseteq Store!AcceptedRecords \cup Store!FailedRecords
    BY StoreNow DEF ClientInvariant
  <2>2. \A record \in Store!Accepted : OnRecord(record.id.revision, record.result)
    BY <2>1, RecordFields DEF Store!VotesMatchEvents, Store!Accepted, OnRecord
  <2>3. \A result \in returned' : \/ result \in returned
                                 \/ \E record \in Store!Accepted :
                                      /\ result.revision = record.id.revision
                                      /\ result.output = record.result
    BY <1>3 DEF ImmediateReplay
  <2>4. \A record \in Store!Accepted : OnRecord(record.id.revision, record.result)'
    BY <2>2, RecordStays
  <2>5. QED
    BY <1>1, <2>3, <2>4 DEF OnRecord
<1>4. ASSUME NEW client \in Clients, Return(client)
      PROVE  \A result \in returned' : OnRecord(result.revision, result.output)'
  <2>1. PICK revision, output :
          /\ revision = call[client].answer.id.revision
          /\ output = call[client].answer.result
    OBVIOUS
  <2>2. OnRecord(revision, output)
    BY <1>4, <2>1 DEF Return, ClientInvariant, Informed
  <2>3. OnRecord(revision, output)'
    BY <2>2, RecordStays
  <2>4. \A result \in returned' :
          result \in returned \/ (result.revision = revision /\ result.output = output)
    BY <1>4, <2>1 DEF Return
  <2>5. QED
    BY <1>1, <2>3, <2>4 DEF OnRecord
<1>5. QED
  BY <1>2, <1>3, <1>4
     DEF Next, ClientStep, Reconstruct, NextInvocationId, ProviderAnswers,
         ProviderAnswersWith, ProviderFails, CommitAccepted, CommitFailed, CommitRefused,
         Crash, CodeOwnedStep, SaveGraph, clientVars, vars

-----------------------------------------------------------------------------

\* No call has begun.
LEMMA InitClients == Init => ClientInvariant
<1> SUFFICES ASSUME Init PROVE ClientInvariant
  OBVIOUS
<1>1. StoreFacts!Init
  BY DEF Init, Store!Init, StoreFacts!Init
<1>2. StoreFacts!StoreInvariant
  BY <1>1, StoreIsGoverned, StoreFacts!InitEstablishesStore
<1>3. RecordsAreNumbered
  BY DEF Init, Store!Init, RecordsAreNumbered
<1>4. CallTypes
  BY DEF Init, CallTypes, Steps, IsCall, NoCall
<1>5. \A client \in Clients : Informed(client)
  BY DEF Init, Informed, Asking, Numbered
<1>6. QED
  BY <1>2, <1>3, <1>4, <1>5 DEF Init, ClientInvariant

\* Clients and the code's own steps together keep the invariant.
THEOREM ClientsAreInformed == Spec => []ClientInvariant
<1>1. ASSUME ClientInvariant, Next \/ UNCHANGED vars PROVE ClientInvariant'
  <2>1. /\ StoreFacts!StoreInvariant' /\ RecordsAreNumbered'
        /\ \A result \in returned' : OnRecord(result.revision, result.output)'
    BY <1>1, StepsGrow, NumberingStays, ReturnsStayOnRecord
  <2>2. CASE UNCHANGED <<pc, call>>
    <3>1. CallTypes'
      BY <1>1, <2>2 DEF ClientInvariant, CallTypes, IsCall
    <3>2. \A client \in Clients : Informed(client)'
      BY <1>1, <2>2, OthersStayInformed
    <3>3. QED
      BY <2>1, <3>1, <3>2 DEF ClientInvariant
  <2>3. ASSUME NEW client \in Clients, ClientStep(client) \/ Crash(client)
        PROVE  ClientInvariant'
    <3>1. CallTypes' /\ Informed(client)'
      BY <1>1, <2>3, ClientsWriteTheirOwn, OwnStepInformed
    <3>2. \A other \in Clients : other # client => Informed(other)'
      BY <1>1, <2>3, ClientsWriteTheirOwn, OthersStayInformed
    <3>3. QED
      BY <2>1, <3>1, <3>2 DEF ClientInvariant
  <2>4. QED
    BY <1>1, <2>2, <2>3 DEF Next, CodeOwnedStep, SaveGraph, clientVars, vars
<1>2. QED
  BY <1>1, InitClients, PTL DEF Spec

\* An output that invoke_and_advance has returned is the event on record.
THEOREM ReturnedOutputAlwaysOnRecord == Spec => []ReturnedOutputIsOnRecord
<1>1. ClientInvariant => ReturnedOutputIsOnRecord
  BY DEF ClientInvariant, OnRecord, ReturnedOutputIsOnRecord
<1>2. QED
  BY <1>1, ClientsAreInformed, PTL

\* The store takes a current answer unless a record of its number is in the
\* way, or, for the Chair's, a claim graph.
LEMMA CurrentIsStorable ==
    ASSUME ClientInvariant, NEW client \in Clients, pc[client] = "recording",
           IsCurrent(call[client]),
           \A record \in invocations :
             record.id = InvocationId(client) => record = call[client].answer,
           ( call[client].answer.status = "accepted"
               /\ call[client].state = VERDICT_ELIGIBILITY_COMPUTED ) =>
             (graphs = {} /\ call[client].graphFits)
    PROVE  Storable(client)
<1> DEFINE answer == call[client].answer
<1>1. /\ row.revision = Len(events) /\ events \in Seq(Payloads \cup Receipts)
      /\ Len(events) \in Nat
      /\ row.finalized <=> Len(events) = 12
      /\ graphs = {} => row.graph_revision = 0
      /\ Store!VotesMatchEvents
      /\ Len(bundles) <= 1
      /\ \A receipt \in Receipts :
           (Len(events) >= 6 /\ events[6] = receipt) <=> bundles = <<receipt>>
  BY StoreNow DEF ClientInvariant
<1>2. /\ call[client].seen = events /\ answer.id = InvocationId(client)
      /\ answer.id.revision = Len(events) /\ Len(events) \in Store!ProviderStates
      /\ answer.status \in {"accepted", "failed"}
  BY CurrentAnswers
<1>3. Len(events) >= 1 /\ Len(events) < 12 /\ Len(events) # 12
  <2>1. \A n \in Store!ProviderStates : n >= 1 /\ n < 12 /\ n # 12
    BY DEF Store!ProviderStates
  <2>2. QED
    BY <1>2, <2>1
<1>4. Store!CaseExists /\ ~row.finalized
  BY <1>1, <1>3 DEF Store!CaseExists
<1>5. \A record \in Store!Accepted : record.id.revision # Len(events)
  BY <1>1 DEF Store!VotesMatchEvents
<1>6. Store!InvocationInsertable(answer)
  BY <1>2, <1>5 DEF Store!InvocationInsertable
<1>7. ASSUME answer.status = "accepted", Len(events) + 1 = 12
      PROVE  graphs = {} /\ row.graph_revision = 0 /\ call[client].graphFits
  <2>1. call[client].state = Len(events)
    BY <1>2 DEF ClientInvariant, Informed, Asking
  <2>2. call[client].state = VERDICT_ELIGIBILITY_COMPUTED
    <3>1. \A n \in Nat : n + 1 = 12 => n = 11
      OBVIOUS
    <3>2. QED
      BY <1>1, <1>7, <2>1, <3>1 DEF VERDICT_ELIGIBILITY_COMPUTED
  <2>3. QED
    BY <1>1, <1>7, <2>2
<1>8. Store!EvidenceMatchesBundles
  <2>1. ASSUME Store!HasLedger, events[6] \in Receipts
        PROVE  \E k \in DOMAIN bundles : bundles[k] = events[6]
    <3>1. bundles = <<events[6]>>
      BY <1>1, <2>1 DEF Store!HasLedger
    <3>2. QED
      BY <3>1
  <2>2. QED
    BY <1>1, <2>1 DEF Store!EvidenceMatchesBundles
<1>9. ASSUME graphs = {}, row.graph_revision = 0 PROVE Store!Reconstructs(TRUE)
  BY <1>1, <1>3, <1>4, <1>8, <1>9
     DEF Store!Reconstructs, Store!RowMatchesLog, Store!GraphMatchesAnchor
<1>10. CASE answer.status = "accepted"
  <2>1. Store!AppendAccepted(events, answer.result, Len(events))
    BY <1>1, <1>4 DEF Store!AppendAccepted
  <2>2. ASSUME Len(events) + 1 = 12
        PROVE  /\ Store!Reconstructs(TRUE) /\ Store!HasLedger
               /\ call[client].graphFits /\ Store!FinalGraphAnchorable
    <3>1. graphs = {} /\ row.graph_revision = 0 /\ call[client].graphFits
      BY <1>7, <1>10, <2>2
    <3>2. Store!HasLedger
      <4>1. \A n \in Nat : n + 1 = 12 => n >= 6
        OBVIOUS
      <4>2. QED
        BY <1>1, <2>2, <4>1 DEF Store!HasLedger
    <3>3. QED
      BY <1>9, <3>1, <3>2 DEF Store!FinalGraphAnchorable
  <2>3. Store!VoteStorable(answer, events, Len(events), call[client].graphFits)
    BY <1>2, <1>6, <2>1, <2>2 DEF Store!VoteStorable
  <2>4. QED
    BY <1>2, <1>10, <2>3 DEF Storable
<1>11. CASE answer.status = "failed"
  <2>1. Store!FailureStorable(answer, Len(events))
    BY <1>1, <1>2, <1>4, <1>6 DEF Store!FailureStorable
  <2>2. QED
    BY <1>2, <1>11, <2>1 DEF Storable
<1>12. QED
  BY <1>2, <1>10, <1>11

\* An answer, or the record of a failure, is kept out of the store only by a
\* later revision, by a record of its number, or, when it is the Chair's, by
\* its own final claim graph or an earlier graph of the case
\* (record_provider_invocation, _anchor_final_graph_transaction).
THEOREM AlwaysRefusedForCause == Spec => []RefusedOnlyForCause
<1>1. ClientInvariant => RefusedOnlyForCause
  <2> SUFFICES ASSUME ClientInvariant, NEW client \in Clients, pc[client] = "recording",
                      ~Storable(client), ~(row.revision > Len(call[client].seen)),
                      ~(/\ call[client].answer.status = "accepted"
                        /\ call[client].state = VERDICT_ELIGIBILITY_COMPUTED
                        /\ graphs # {} \/ ~call[client].graphFits)
               PROVE  \E record \in invocations :
                        record.id = InvocationId(client) /\ record # call[client].answer
    BY DEF RefusedOnlyForCause
  <2>1. /\ row.revision = Len(events) /\ Len(events) \in Nat
        /\ Len(call[client].seen) \in Nat /\ Len(call[client].seen) <= Len(events)
    BY StoreNow DEF ClientInvariant, Informed, Asking, ReadTheLog
  <2>2. IsCurrent(call[client])
    <3>1. \A i, j \in Nat : i <= j /\ ~(j > i) => i = j
      OBVIOUS
    <3>2. QED
      BY <2>1, <3>1 DEF IsCurrent
  <2>3. QED
    BY <2>2, CurrentIsStorable
<1>2. QED
  BY <1>1, ClientsAreInformed, PTL
===============================================================================
