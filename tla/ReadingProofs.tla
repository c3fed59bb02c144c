---------------------------- MODULE ReadingProofs ----------------------------
(***************************************************************************)
(* What a reader gets from the store: a case (Reconstruction), for every   *)
(* interleaving with every writer, and the claim graph of a case           *)
(* (ClaimGraph), for every graph that a caller could build and save.       *)
(*                                                                         *)
(* The case.  The log is only extended and graph rows are only added       *)
(* (StoreGrows), so a log of the length that the case row announced is the *)
(* log of that row's commit, and graph rows that are exactly the one that  *)
(* the row anchors were exactly that one at that commit.  What a reader    *)
(* returns is therefore the state of the case when its row was read,       *)
(* although it reads the parts later.                                      *)
(*                                                                         *)
(* The graph.  Taking ready nodes out one by one leaves none if and only   *)
(* if every set of nodes has one that no edge from the set leads to        *)
(* (AcyclicMeans).  That does not depend on an order, and holds of fewer   *)
(* edges if it holds of more: the reader, who adds the edges of a snapshot *)
(* in its order, meets no cycle in any part of it.  The frontier of a      *)
(* trace comes only to claims that the first one is derived from, and to   *)
(* evidence about them (TracedEvidenceSpeaks).  Both algorithms are        *)
(* recursive functions: that they exist is proved from their rank          *)
(* (DescentDefines), and what they compute by smallest counterexamples.    *)
(***************************************************************************)
EXTENDS Reconstruction, ClaimGraph, SequenceTheorems, FiniteSetTheorems,
        WellFoundedInduction, TLAPS

StoreFacts == INSTANCE CaseStoreProofs

USE DEF Store!CLAIM_RECEIVED, StoreFacts!CLAIM_RECEIVED,
        Store!RESEARCHER_PROTOCOL_PROPOSED, StoreFacts!RESEARCHER_PROTOCOL_PROPOSED,
        Store!CONSTITUTION_LOCKED, StoreFacts!CONSTITUTION_LOCKED,
        Store!EXPERIMENT_EXECUTED, StoreFacts!EXPERIMENT_EXECUTED,
        Store!STATISTICS_REVIEWED, StoreFacts!STATISTICS_REVIEWED,
        Store!OPTIONAL_FOLLOW_UP, StoreFacts!OPTIONAL_FOLLOW_UP,
        Store!VERDICT_ELIGIBILITY_COMPUTED, StoreFacts!VERDICT_ELIGIBILITY_COMPUTED,
        Store!CHAIR_EXPLANATION, StoreFacts!CHAIR_EXPLANATION

\* The steps of a reader by what it has read.
AfterRow    == {"events", "graphs", "materializations", "invocations", "bundles", "returned"}
AfterEvents == AfterRow \ {"events"}
AfterGraphs == AfterEvents \ {"graphs"}

\* What was committed when the reader read the row, and what is left of it.
IsFirstRead(c) ==
    /\ c.revision = read.row.revision
    /\ c.graph_revision = read.row.graph_revision
    /\ c.graphs = {} => c.graph_revision = 0
    /\ c.graphs # {} => c.graph_revision \in c.graphs
    /\ c.graphs \subseteq graphs
    /\ c.events \in Seq(Payloads \cup Receipts)
    /\ Len(c.events) = c.revision
    /\ Len(c.events) <= Len(events)
    /\ \A k \in 1..Len(c.events) : events[k] = c.events[k]
    /\ step \in AfterEvents => read.events = c.events
    /\ step \in AfterGraphs => read.graphs = c.graphs

\* Cases as the reader and the writers record them.
IsCase(c) ==
    c = [ revision |-> c.revision, graph_revision |-> c.graph_revision, events |-> c.events,
          graphs |-> c.graphs ]

ReaderInvariant ==
    /\ StoreFacts!StoreInvariant
    /\ step \in ReaderSteps
    /\ read = [row |-> read.row, events |-> read.events, graphs |-> read.graphs]
    /\ step \in AfterRow => \E c \in committed : IsCase(c) /\ IsFirstRead(c)

-----------------------------------------------------------------------------

\* The constants are as the proofs about the store demand.
LEMMA StoreIsGoverned == StoreFacts!StoreConstants
BY StoreConstants DEF Store!StoreConstants, StoreFacts!StoreConstants

\* What the store's invariant says of a case that is read now.
LEMMA StoreNow ==
    ASSUME StoreFacts!StoreInvariant
    PROVE  /\ row.revision = Len(events) /\ events \in Seq(Payloads \cup Receipts)
           /\ graphs = {} => row.graph_revision = 0
           /\ graphs # {} => row.graph_revision \in graphs
BY DEF StoreFacts!StoreInvariant, StoreFacts!TypeOK, StoreFacts!RowFollowsLog

\* What both instances of the store say of a case.
LEMMA SameStore ==
    /\ Store!Histories = StoreFacts!Histories
    /\ Store!FailedRecords = StoreFacts!FailedRecords
    /\ Store!AcceptedRecords = StoreFacts!AcceptedRecords
    /\ Store!Reconstructs(TRUE) <=> StoreFacts!Reconstructs(TRUE)
<1>1. Store!Histories = StoreFacts!Histories
  BY Zenon DEF Store!Histories, StoreFacts!Histories
<1>2. Store!InvocationIds = StoreFacts!InvocationIds
  BY DEF Store!InvocationIds, StoreFacts!InvocationIds,
         Store!ProviderStates, StoreFacts!ProviderStates
<1>3. Store!FailedRecords = StoreFacts!FailedRecords
  BY <1>2 DEF Store!FailedRecords, StoreFacts!FailedRecords,
              Store!FailedRecord, StoreFacts!FailedRecord
<1>4. Store!AcceptedRecords = StoreFacts!AcceptedRecords
  BY <1>2 DEF Store!AcceptedRecords, StoreFacts!AcceptedRecords,
              Store!AcceptedRecord, StoreFacts!AcceptedRecord
<1>5. Store!Reconstructs(TRUE) <=> StoreFacts!Reconstructs(TRUE)
  BY Zenon DEF Store!Reconstructs, StoreFacts!Reconstructs,
               Store!RowMatchesLog, StoreFacts!RowMatchesLog,
               Store!GraphMatchesAnchor, StoreFacts!GraphMatchesAnchor,
               Store!EvidenceMatchesBundles, StoreFacts!EvidenceMatchesBundles,
               Store!VotesMatchEvents, StoreFacts!VotesMatchEvents,
               Store!HasLedger, StoreFacts!HasLedger, Store!CaseExists, StoreFacts!CaseExists,
               Store!Accepted, StoreFacts!Accepted
<1>6. QED
  BY <1>1, <1>3, <1>4, <1>5

\* The reader's writers are the callers that the proofs about the store speak of.
LEMMA SameWriters == Store!Next => StoreFacts!Next
<1>1. Store!CallCreate => StoreFacts!CallCreate
  BY Zenon DEF Store!CallCreate, StoreFacts!CallCreate, Store!create_case,
               StoreFacts!create_case, Store!CaseExists, StoreFacts!CaseExists
<1>2. Store!CallAppend => StoreFacts!CallAppend
  BY SameStore, Zenon
     DEF Store!CallAppend, StoreFacts!CallAppend, Store!append_event, StoreFacts!append_event,
         Store!AppendAccepted, StoreFacts!AppendAccepted, Store!CaseExists,
         StoreFacts!CaseExists, Store!EvidenceHasBundle, StoreFacts!EvidenceHasBundle,
         Store!AppendEvent, StoreFacts!AppendEvent, Store!AppendRow, StoreFacts!AppendRow,
         Store!Expectations, StoreFacts!Expectations
<1>3. Store!CallRecordFailed => StoreFacts!CallRecordFailed
  <2>1. ASSUME NEW record
        PROVE  Store!record_failed_invocation(record, record.id.revision) =>
                 StoreFacts!record_failed_invocation(record, record.id.revision)
    BY Zenon DEF Store!record_failed_invocation, StoreFacts!record_failed_invocation,
                 Store!FailureStorable, StoreFacts!FailureStorable,
                 Store!InvocationInsertable, StoreFacts!InvocationInsertable,
                 Store!Accepted, StoreFacts!Accepted, Store!CaseExists, StoreFacts!CaseExists
  <2>2. QED
    BY <2>1, SameStore, Zenon DEF Store!CallRecordFailed, StoreFacts!CallRecordFailed
<1>4. Store!CallRecordAccepted => StoreFacts!CallRecordAccepted
  <2>1. ASSUME NEW record, NEW after, NEW graphFits
        PROVE  Store!VoteStorable(record, after, record.id.revision, graphFits) =>
                 StoreFacts!VoteStorable(record, after, record.id.revision, graphFits)
    BY SameStore, Zenon
       DEF Store!VoteStorable, StoreFacts!VoteStorable,
           Store!InvocationInsertable, StoreFacts!InvocationInsertable,
           Store!Accepted, StoreFacts!Accepted, Store!CaseExists, StoreFacts!CaseExists,
           Store!AppendAccepted, StoreFacts!AppendAccepted, Store!HasLedger,
           StoreFacts!HasLedger, Store!FinalGraphAnchorable, StoreFacts!FinalGraphAnchorable
  <2>2. ASSUME NEW record, NEW after, NEW graphFits
        PROVE  Store!record_accepted_invocation(record, after, record.id.revision, graphFits) =>
                 StoreFacts!record_accepted_invocation(record, after, record.id.revision, graphFits)
    BY <2>1, Zenon
       DEF Store!record_accepted_invocation, StoreFacts!record_accepted_invocation,
           Store!AppendRow, StoreFacts!AppendRow
  <2>3. QED
    BY <2>2, SameStore, Zenon DEF Store!CallRecordAccepted, StoreFacts!CallRecordAccepted
<1>5. Store!CallAdmit => StoreFacts!CallAdmit
  BY SameStore, Zenon
     DEF Store!CallAdmit, StoreFacts!CallAdmit,
         Store!admit_evidence_bundle, StoreFacts!admit_evidence_bundle,
         Store!BundleAccepted, StoreFacts!BundleAccepted,
         Store!AppendAccepted, StoreFacts!AppendAccepted, Store!CaseExists,
         StoreFacts!CaseExists, Store!EvidenceHasBundle, StoreFacts!EvidenceHasBundle,
         Store!AppendEvent, StoreFacts!AppendEvent, Store!AppendRow, StoreFacts!AppendRow
<1>6. Store!CallSaveGraph => StoreFacts!CallSaveGraph
  BY SameStore, Zenon
     DEF Store!CallSaveGraph, StoreFacts!CallSaveGraph, Store!save_claim_graph,
         StoreFacts!save_claim_graph, Store!HasLedger, StoreFacts!HasLedger
<1>7. QED
  BY <1>1, <1>2, <1>3, <1>4, <1>5, <1>6 DEF Store!Next, StoreFacts!Next

\* A write leaves what the reader knows.
LEMMA WritesGrow ==
    ASSUME StoreFacts!StoreInvariant, Store!Next
    PROVE  /\ StoreFacts!StoreInvariant'
           /\ Len(events) \in Nat /\ Len(events') \in Nat /\ Len(events) <= Len(events')
           /\ \A k \in 1..Len(events) : events'[k] = events[k]
           /\ graphs \subseteq graphs'
BY StoreIsGoverned, SameWriters, StoreFacts!StoreGrows

\* Nothing has been read.
LEMMA InitReader == Init => ReaderInvariant
<1> SUFFICES ASSUME Init PROVE ReaderInvariant
  OBVIOUS
<1>1. StoreFacts!Init
  BY DEF Init, Store!Init, StoreFacts!Init
<1>2. StoreFacts!StoreInvariant
  BY <1>1, StoreIsGoverned, StoreFacts!InitEstablishesStore
<1>3. QED
  BY <1>2 DEF Init, NothingRead, ReaderInvariant, ReaderSteps, AfterRow

\* The reader's own steps: each read narrows what was read first.
LEMMA ReadsKeep ==
    ASSUME ReaderInvariant, Read \/ Finish
    PROVE  ReaderInvariant'
<1>1. /\ UNCHANGED storeVars
      /\ StoreFacts!StoreInvariant /\ step \in ReaderSteps
      /\ read = [row |-> read.row, events |-> read.events, graphs |-> read.graphs]
  BY DEF Read, Finish, ReadRow, ReadEvents, ReadGraphs, ReadMaterializations, ReadInvocations,
         ReadBundles, ReaderInvariant
<1>2. /\ row' = row /\ events' = events /\ graphs' = graphs /\ invocations' = invocations
      /\ bundles' = bundles /\ consumed' = consumed
  BY <1>1 DEF storeVars
<1>3. StoreFacts!StoreInvariant'
  BY <1>1, <1>2, StoreIsGoverned, StoreFacts!StutterKeeps DEF StoreFacts!vars
<1>4. CASE ReadRow
  <2>1. /\ committed' = {Case} /\ read' = [read EXCEPT !.row = row]
        /\ step' \in {"events", "raised"}
    BY <1>4 DEF ReadRow, Proceed
  <2>2. /\ read' = [row |-> read'.row, events |-> read'.events, graphs |-> read'.graphs]
        /\ read'.row = row
    BY <1>1, <2>1
  <2>3. Len(events) \in Nat /\ Len(events) <= Len(events)
    BY <1>1, StoreNow
  <2>4. ASSUME NEW c, c = Case PROVE IsCase(c) /\ IsFirstRead(c)'
    <3>1. /\ c.revision = row.revision /\ c.graph_revision = row.graph_revision
          /\ c.events = events /\ c.graphs = graphs /\ IsCase(c)
      BY <2>4 DEF Case, IsCase
    <3>2. QED
      BY <1>1, <1>2, <2>1, <2>2, <2>3, <3>1, StoreNow
         DEF IsFirstRead, AfterEvents, AfterGraphs, AfterRow
  <2>5. \E c \in committed' : IsCase(c) /\ IsFirstRead(c)'
    BY <2>1, <2>4
  <2>6. QED
    BY <1>3, <2>1, <2>2, <2>5 DEF ReaderInvariant, ReaderSteps
<1>5. ASSUME step \in AfterRow, committed' = committed, step' \in ReaderSteps,
             read' = [row |-> read'.row, events |-> read'.events, graphs |-> read'.graphs],
             \A c \in committed :
               IsCase(c) /\ IsFirstRead(c) /\ step' \in AfterRow => IsFirstRead(c)'
      PROVE  ReaderInvariant'
  <2>1. PICK c \in committed : IsCase(c) /\ IsFirstRead(c)
    BY <1>5 DEF ReaderInvariant
  <2>2. step' \in AfterRow => \E d \in committed' : IsCase(d) /\ IsFirstRead(d)'
    BY <1>5, <2>1
  <2>3. QED
    BY <1>3, <1>5, <2>2 DEF ReaderInvariant
<1>6. CASE ReadEvents
  <2>1. /\ committed' = committed /\ read' = [read EXCEPT !.events = events]
        /\ step = "events" /\ step' \in {"graphs", "raised"}
        /\ step' = "graphs" => read.row.revision = Len(events)
    BY <1>6 DEF ReadEvents, Proceed
  <2>2. /\ read' = [row |-> read'.row, events |-> read'.events, graphs |-> read'.graphs]
        /\ read'.row = read.row /\ read'.events = events
    BY <1>1, <2>1
  <2>3. ASSUME NEW c \in committed, IsFirstRead(c), step' \in AfterRow PROVE IsFirstRead(c)'
    <3>1. read.row.revision = Len(events) /\ step' = "graphs"
      BY <2>1, <2>3 DEF AfterRow
    <3>2. c.events = events
      <4>1. /\ c.events \in Seq(Payloads \cup Receipts) /\ events \in Seq(Payloads \cup Receipts)
            /\ Len(c.events) = Len(events)
            /\ \A k \in 1..Len(c.events) : c.events[k] = events[k]
        BY <1>1, <2>3, <3>1, StoreNow DEF IsFirstRead
      <4>2. QED
        BY <4>1, SeqEqual
    <3>3. QED
      BY <1>2, <2>2, <2>3, <3>1, <3>2 DEF IsFirstRead, AfterEvents, AfterGraphs, AfterRow
  <2>4. QED
    BY <1>5, <2>1, <2>2, <2>3 DEF AfterRow, ReaderSteps
<1>7. CASE ReadGraphs
  <2>1. /\ committed' = committed /\ read' = [read EXCEPT !.graphs = graphs]
        /\ step = "graphs" /\ step' \in {"materializations", "raised"}
        /\ step' = "materializations" =>
             graphs = IF read.row.graph_revision = 0 THEN {} ELSE {read.row.graph_revision}
    BY <1>7 DEF ReadGraphs, Proceed
  <2>2. /\ read' = [row |-> read'.row, events |-> read'.events, graphs |-> read'.graphs]
        /\ read'.row = read.row /\ read'.events = read.events /\ read'.graphs = graphs
    BY <1>1, <2>1
  <2>3. ASSUME NEW c \in committed, IsFirstRead(c), step' \in AfterRow PROVE IsFirstRead(c)'
    <3>1. /\ graphs = IF c.graph_revision = 0 THEN {} ELSE {c.graph_revision}
          /\ step' = "materializations"
      BY <2>1, <2>3 DEF AfterRow, IsFirstRead
    <3>2. c.graphs = graphs
      BY <2>3, <3>1 DEF IsFirstRead
    <3>3. QED
      BY <1>2, <2>1, <2>2, <2>3, <3>1, <3>2 DEF IsFirstRead, AfterEvents, AfterGraphs, AfterRow
  <2>4. QED
    BY <1>5, <2>1, <2>2, <2>3 DEF AfterRow, ReaderSteps
<1>8. CASE ReadMaterializations \/ ReadInvocations \/ ReadBundles
  <2>1. /\ committed' = committed /\ read' = read
        /\ step \in AfterGraphs \ {"returned"}
        /\ step' \in AfterGraphs \cup {"raised"}
    BY <1>8 DEF ReadMaterializations, ReadInvocations, ReadBundles, Proceed, AfterGraphs,
                AfterEvents, AfterRow
  <2>2. ASSUME NEW c \in committed, IsFirstRead(c), step' \in AfterRow PROVE IsFirstRead(c)'
    BY <1>2, <2>1, <2>2 DEF IsFirstRead, AfterEvents, AfterGraphs, AfterRow
  <2>3. QED
    BY <1>1, <1>5, <2>1, <2>2 DEF AfterGraphs, AfterEvents, AfterRow, ReaderSteps
<1>9. CASE Finish
  BY <1>3, <1>9 DEF Finish, ReaderInvariant, NothingRead, ReaderSteps, AfterRow
<1>10. QED
  BY <1>4, <1>6, <1>7, <1>8, <1>9 DEF Read

\* A writer's step: what was read first stays behind in the store.
LEMMA WritesKeep ==
    ASSUME ReaderInvariant, Write
    PROVE  ReaderInvariant'
<1>1. /\ StoreFacts!StoreInvariant' /\ graphs \subseteq graphs'
      /\ Len(events) \in Nat /\ Len(events') \in Nat /\ Len(events) <= Len(events')
      /\ \A k \in 1..Len(events) : events'[k] = events[k]
      /\ step' = step /\ read' = read
  BY WritesGrow DEF Write, ReaderInvariant
<1>2. step # "idle" => committed \subseteq committed'
  BY DEF Write
<1>3. ASSUME NEW c, IsFirstRead(c) PROVE IsFirstRead(c)'
  <2>1. /\ Len(c.events) \in Nat /\ Len(c.events) <= Len(events)
        /\ \A k \in 1..Len(c.events) : events[k] = c.events[k]
    BY <1>3 DEF IsFirstRead
  <2>2. Len(c.events) <= Len(events')
    <3>1. \A i, j, k \in Nat : i <= j /\ j <= k => i <= k
      OBVIOUS
    <3>2. QED
      BY <1>1, <2>1, <3>1
  <2>3. \A k \in 1..Len(c.events) : events'[k] = c.events[k]
    <3>1. \A i, j \in Nat : i <= j => 1..i \subseteq 1..j
      OBVIOUS
    <3>2. QED
      BY <1>1, <2>1, <3>1
  <2>4. QED
    BY <1>1, <1>3, <2>2, <2>3 DEF IsFirstRead
<1>4. QED
  BY <1>1, <1>2, <1>3 DEF ReaderInvariant, AfterRow

\* The reader and the writers together keep the invariant.
THEOREM ReaderIsInvariant == Spec => []ReaderInvariant
<1>1. ASSUME ReaderInvariant, UNCHANGED vars PROVE ReaderInvariant'
  <2>1. StoreFacts!StoreInvariant'
    BY <1>1, StoreIsGoverned, StoreFacts!StutterKeeps
       DEF ReaderInvariant, vars, storeVars, StoreFacts!vars
  <2>2. /\ step' = step /\ read' = read /\ committed' = committed /\ events' = events
        /\ graphs' = graphs
    BY <1>1 DEF vars, storeVars
  <2>3. \A c : IsFirstRead(c) => IsFirstRead(c)'
    BY <2>2 DEF IsFirstRead
  <2>4. QED
    BY <1>1, <2>1, <2>2, <2>3 DEF ReaderInvariant
<1>2. ReaderInvariant /\ [Next]_vars => ReaderInvariant'
  BY <1>1, ReadsKeep, WritesKeep DEF Next
<1>3. QED
  BY <1>2, InitReader, PTL DEF Spec

\* A reader that returns has not mixed two commits, however many writers
\* commit between its reads (SQLiteCaseStore._reconstruct).
THEOREM ReturnedCaseWasCommitted == Spec => []ReturnsACommittedCase
<1>1. ReaderInvariant => ReturnsACommittedCase
  <2> SUFFICES ASSUME ReaderInvariant, step = "returned"
               PROVE  [ revision |-> read.row.revision,
                        graph_revision |-> read.row.graph_revision,
                        events |-> read.events, graphs |-> read.graphs ] \in committed
    BY DEF ReturnsACommittedCase
  <2>1. PICK c \in committed : IsCase(c) /\ IsFirstRead(c)
    BY DEF ReaderInvariant, AfterRow
  <2>2. /\ c.revision = read.row.revision /\ c.graph_revision = read.row.graph_revision
        /\ c.events = read.events /\ c.graphs = read.graphs
    BY <2>1 DEF IsFirstRead, AfterEvents, AfterGraphs, AfterRow
  <2>3. QED
    BY <2>1, <2>2 DEF IsCase
<1>2. QED
  BY <1>1, ReaderIsInvariant, PTL

-----------------------------------------------------------------------------

(***************************************************************************)
(* Counterexamples and recursive functions.                                *)
(***************************************************************************)
\* A set of numbers that has a member has a smallest one.
LEMMA SmallestNumber ==
    ASSUME NEW S, S \subseteq Nat, S # {}
    PROVE  \E x \in S : \A y \in S : x <= y
<1>1. PICK x \in S : \A y \in S : ~(<<y, x>> \in OpToRel(<, Nat))
  BY NatLessThanWellFounded, WFMin
<1>2. ASSUME NEW y \in S PROVE x <= y
  <2>1. ~(y < x)
    BY <1>1 DEF OpToRel
  <2>2. QED
    BY <2>1
<1>3. QED
  BY <1>2

\* Among subsets of a finite set there is one from which nothing can be taken.
LEMMA SmallestSet ==
    ASSUME NEW N, IsFiniteSet(N), NEW F, F \subseteq SUBSET N, F # {}
    PROVE  \E R \in F : \A x \in R : R \ {x} \notin F
<1> DEFINE sizes == { Cardinality(R) : R \in F }
<1>1. \A R \in F : IsFiniteSet(R) /\ Cardinality(R) \in Nat
  BY FS_Subset, FS_CardinalityType
<1>2. sizes \subseteq Nat /\ sizes # {}
  BY <1>1
<1> HIDE DEF sizes
<1>3. PICK size \in sizes : \A other \in sizes : size <= other
  BY <1>2, SmallestNumber
<1>4. PICK R \in F : size = Cardinality(R)
  BY <1>3 DEF sizes
<1>5. ASSUME NEW x \in R, R \ {x} \in F PROVE FALSE
  <2>1. Cardinality(R \ {x}) = Cardinality(R) - 1
    BY <1>1, FS_RemoveElement
  <2>2. Cardinality(R) <= Cardinality(R \ {x})
    BY <1>3, <1>4, <1>5 DEF sizes
  <2>3. QED
    BY <1>1, <2>1, <2>2
<1>6. QED
  BY <1>5

\* A recursive function whose every step goes down in rank, and what solves it.
Descends(D, V, rank, bound, stop, start, prev, body) ==
    /\ rank \in [D -> Nat] /\ bound \in Nat
    /\ \A d \in D : rank[d] <= bound
    /\ start \in [D -> V] /\ prev \in [D -> D] /\ body \in [D \X V -> V]
    /\ \A d \in D \ stop : rank[prev[d]] < rank[d]

Solves(f, D, V, stop, start, prev, body) ==
    /\ f \in [D -> V]
    /\ \A d \in D : f[d] = IF d \in stop THEN start[d] ELSE body[<<d, f[prev[d]]>>]

\* It exists.
LEMMA DescentDefines ==
    ASSUME NEW D, NEW V, NEW rank, NEW bound, NEW stop, NEW start, NEW prev, NEW body,
           Descends(D, V, rank, bound, stop, start, prev, body)
    PROVE  \E f : Solves(f, D, V, stop, start, prev, body)
<1> USE DEF Descends
<1> DEFINE Level(n) == { d \in D : rank[d] <= n }
           Equation(f, S) ==
             f = [d \in S |-> IF d \in stop THEN start[d] ELSE body[<<d, f[prev[d]]>>]]
           Defined == { n \in Nat : \E f \in [Level(n) -> V] : Equation(f, Level(n)) }
<1>1. ASSUME NEW n \in Nat, n # 0 => n - 1 \in Defined
      PROVE  n \in Defined
  <2>1. PICK g : n # 0 => g \in [Level(n - 1) -> V] /\ Equation(g, Level(n - 1))
    BY <1>1
  <2> DEFINE h == [d \in Level(n) |->
                     IF d \in stop THEN start[d] ELSE body[<<d, g[prev[d]]>>]]
  <2>2. ASSUME NEW d \in Level(n), d \notin stop
        PROVE  n # 0 /\ prev[d] \in Level(n - 1) /\ prev[d] \in Level(n)
    <3>1. rank[prev[d]] \in Nat /\ rank[d] \in Nat /\ rank[prev[d]] < rank[d] /\ rank[d] <= n
      BY <2>2
    <3>2. n # 0 /\ rank[prev[d]] <= n - 1 /\ rank[prev[d]] <= n
      BY <3>1
    <3>3. QED
      BY <2>2, <3>2
  <2>3. ASSUME NEW d \in Level(n) PROVE h[d] \in V
    <3>1. CASE d \in stop
      BY <3>1
    <3>2. CASE d \notin stop
      <4>1. g[prev[d]] \in V
        BY <2>1, <2>2, <3>2
      <4>2. <<d, g[prev[d]]>> \in D \X V
        BY <4>1
      <4>3. QED
        BY <3>2, <4>2
    <3>3. QED
      BY <3>1, <3>2
  <2>4. h \in [Level(n) -> V]
    BY <2>3
  <2>5. ASSUME NEW e \in Level(n - 1), n # 0 PROVE h[e] = g[e]
    <3>1. e \in Level(n)
      <4>1. rank[e] \in Nat /\ rank[e] <= n - 1
        BY <2>5
      <4>2. rank[e] <= n
        BY <4>1
      <4>3. QED
        BY <2>5, <4>2
    <3>2. h[e] = IF e \in stop THEN start[e] ELSE body[<<e, g[prev[e]]>>]
      BY <3>1
    <3>3. g[e] = IF e \in stop THEN start[e] ELSE body[<<e, g[prev[e]]>>]
      BY <2>1, <2>5
    <3>4. QED
      BY <3>2, <3>3
  <2>6. ASSUME NEW d \in Level(n)
        PROVE  h[d] = IF d \in stop THEN start[d] ELSE body[<<d, h[prev[d]]>>]
    <3>1. h[d] = IF d \in stop THEN start[d] ELSE body[<<d, g[prev[d]]>>]
      OBVIOUS
    <3> HIDE DEF h
    <3>2. d \notin stop => h[prev[d]] = g[prev[d]]
      BY <2>2, <2>5
    <3>3. QED
      BY <3>1, <3>2
  <2>7. h = [d \in Level(n) |-> h[d]]
    OBVIOUS
  <2> HIDE DEF h, Level
  <2>8. h = [d \in Level(n) |-> IF d \in stop THEN start[d] ELSE body[<<d, h[prev[d]]>>]]
    BY <2>6, <2>7
  <2>9. QED
    BY <2>4, <2>8
<1>2. Nat \subseteq Defined
  <2> DEFINE bad == Nat \ Defined
  <2> HIDE DEF Defined
  <2> SUFFICES ASSUME bad # {} PROVE FALSE
    OBVIOUS
  <2>1. PICK n \in bad : \A m \in bad : n <= m
    BY SmallestNumber
  <2>2. n # 0 => n - 1 \in Nat /\ ~(n <= n - 1)
    BY <2>1
  <2>3. n # 0 => n - 1 \in Defined
    BY <2>1, <2>2
  <2>4. QED
    BY <1>1, <2>1, <2>3
<1>3. Level(bound) = D
  OBVIOUS
<1>4. PICK f \in [Level(bound) -> V] : Equation(f, Level(bound))
  BY <1>2
<1> HIDE DEF Level
<1>5. QED
  BY <1>3, <1>4 DEF Solves

(***************************************************************************)
(* Cycles.                                                                 *)
(***************************************************************************)
\* The nodes of a set to which no edge from the set leads.
ReadyIn(among, R) == { n \in R : \A edge \in among : edge.target = n => edge.source \notin R }

\* _assert_acyclic takes out ready nodes as long as there are any.
LEMMA UnvisitedByTaking ==
    ASSUME IsFiniteSet(DOMAIN nodes), NEW among
    PROVE  \E after \in [SUBSET DOMAIN nodes -> SUBSET DOMAIN nodes] :
             /\ Unvisited(among) = after[DOMAIN nodes]
             /\ \A R \in SUBSET DOMAIN nodes :
                  after[R] = IF ReadyIn(among, R) = {} THEN R
                             ELSE after[R \ {CHOOSE n \in ReadyIn(among, R) : TRUE}]
<1> DEFINE N == DOMAIN nodes
           next(R) == R \ {CHOOSE n \in ReadyIn(among, R) : TRUE}
           Equation(f) == f = [R \in SUBSET N |->
                                 IF ReadyIn(among, R) = {} THEN R ELSE f[next(R)]]
           after == CHOOSE f : Equation(f)
           stop == { R \in SUBSET N : ReadyIn(among, R) = {} }
           rank == [R \in SUBSET N |-> Cardinality(R)]
           start == [R \in SUBSET N |-> R]
           prev == [R \in SUBSET N |-> IF R \in stop THEN R ELSE next(R)]
           body == [p \in (SUBSET N) \X (SUBSET N) |-> p[2]]
<1>1. Unvisited(among) = after[N]
  BY DEF Unvisited, ReadyIn
<1>2. \A R \in SUBSET N : ReadyIn(among, R) \subseteq R
  BY DEF ReadyIn
<1>3. \A R \in (SUBSET N) \ stop : next(R) \in SUBSET N /\ Cardinality(next(R)) < Cardinality(R)
  <2>1. ASSUME NEW R \in (SUBSET N) \ stop
        PROVE  next(R) \in SUBSET N /\ Cardinality(next(R)) < Cardinality(R)
    <3>1. PICK n : n \in ReadyIn(among, R) /\ n = CHOOSE m \in ReadyIn(among, R) : TRUE
      BY <2>1
    <3>2. n \in R /\ next(R) = R \ {n}
      BY <1>2, <2>1, <3>1
    <3>3. IsFiniteSet(R)
      BY <2>1, FS_Subset
    <3>4. Cardinality(R) \in Nat /\ Cardinality(R \ {n}) = Cardinality(R) - 1
      BY <3>2, <3>3, FS_RemoveElement, FS_CardinalityType
    <3>5. QED
      BY <2>1, <3>2, <3>4
  <2>2. QED
    BY <2>1
<1>4. /\ rank \in [SUBSET N -> Nat] /\ Cardinality(N) \in Nat
      /\ \A R \in SUBSET N : rank[R] <= Cardinality(N)
  BY FS_Subset, FS_CardinalityType
<1>5. start \in [SUBSET N -> SUBSET N] /\ body \in [(SUBSET N) \X (SUBSET N) -> SUBSET N]
  OBVIOUS
<1>6. prev \in [SUBSET N -> SUBSET N]
  BY <1>3
<1>7. \A R \in (SUBSET N) \ stop : rank[prev[R]] < rank[R]
  <2>1. ASSUME NEW R \in (SUBSET N) \ stop PROVE rank[prev[R]] < rank[R]
    <3>1. prev[R] = next(R) /\ next(R) \in SUBSET N
      BY <1>3, <2>1
    <3> HIDE DEF prev, next
    <3>2. rank[prev[R]] = Cardinality(next(R)) /\ rank[R] = Cardinality(R)
      BY <2>1, <3>1
    <3>3. QED
      BY <1>3, <2>1, <3>2
  <2>2. QED
    BY <2>1
<1> HIDE DEF N, next, rank, start, prev, body, stop
<1>8. PICK f \in [SUBSET N -> SUBSET N] :
        \A R \in SUBSET N : f[R] = IF R \in stop THEN start[R] ELSE body[<<R, f[prev[R]]>>]
  <2>1. Descends(SUBSET N, SUBSET N, rank, Cardinality(N), stop, start, prev, body)
    BY <1>4, <1>5, <1>6, <1>7 DEF Descends
  <2>2. \E f : Solves(f, SUBSET N, SUBSET N, stop, start, prev, body)
    BY <2>1, DescentDefines
  <2>3. QED
    BY <2>2 DEF Solves
<1>9. ASSUME NEW R \in SUBSET N
      PROVE  f[R] = IF ReadyIn(among, R) = {} THEN R ELSE f[next(R)]
  <2>1. f[R] = IF R \in stop THEN start[R] ELSE body[<<R, f[prev[R]]>>]
    BY <1>8
  <2>2. R \in stop <=> ReadyIn(among, R) = {}
    BY DEF stop
  <2>3. start[R] = R
    BY DEF start
  <2>4. R \notin stop => prev[R] = next(R) /\ f[prev[R]] \in SUBSET N
    BY <1>6, <1>8 DEF prev
  <2>5. R \notin stop => body[<<R, f[prev[R]]>>] = f[prev[R]]
    BY <2>4 DEF body
  <2>6. QED
    BY <2>1, <2>2, <2>3, <2>4, <2>5
<1>10. f = [R \in SUBSET N |-> f[R]]
  OBVIOUS
<1>11. Equation(f)
  BY <1>9, <1>10
<1>12. Equation(after)
  BY <1>11
<1> HIDE DEF after
<1>13. \A R \in SUBSET N : after[R] = IF ReadyIn(among, R) = {} THEN R ELSE after[next(R)]
  BY <1>12
<1>14. after \in [SUBSET N -> SUBSET N]
  <2>1. ASSUME NEW R0 \in SUBSET N, after[R0] \notin SUBSET N
        PROVE  FALSE
    <3> DEFINE F == { R \in SUBSET N : after[R] \notin SUBSET N }
    <3>1. IsFiniteSet(N) /\ F \subseteq SUBSET N /\ F # {}
      BY <2>1 DEF N
    <3> HIDE DEF F
    <3>2. PICK R \in F : \A x \in R : R \ {x} \notin F
      BY <3>1, SmallestSet
    <3>3. R \in SUBSET N /\ after[R] \notin SUBSET N
      BY <3>2 DEF F
    <3>4. ReadyIn(among, R) # {}
      BY <1>13, <3>3
    <3>5. \E x \in R : next(R) = R \ {x}
      BY <1>2, <3>3, <3>4 DEF next
    <3>6. next(R) \notin F /\ next(R) \in SUBSET N
      BY <3>2, <3>3, <3>5
    <3>7. QED
      BY <1>13, <3>3, <3>4, <3>6 DEF F
  <2>2. after = [R \in SUBSET N |-> after[R]]
    BY <1>12
  <2>3. QED
    BY <2>1, <2>2
<1>15. QED
  BY <1>1, <1>13, <1>14 DEF N, next

\* A set of edges among nodes is acyclic when every set of nodes has one that no
\* edge from the set leads to.
EverySetHasFirst(N, among) ==
    \A S \in SUBSET N : S # {} => ReadyIn(among, S) # {}

\* What is left when ready nodes are taken out is the largest set without a first.
LEMMA AcyclicMeans ==
    ASSUME IsFiniteSet(DOMAIN nodes), NEW among
    PROVE  Acyclic(among) <=> EverySetHasFirst(DOMAIN nodes, among)
<1> DEFINE N == DOMAIN nodes
           next(R) == R \ {CHOOSE n \in ReadyIn(among, R) : TRUE}
<1>1. PICK after \in [SUBSET N -> SUBSET N] :
        /\ Unvisited(among) = after[N]
        /\ \A R \in SUBSET N : after[R] = IF ReadyIn(among, R) = {} THEN R ELSE after[next(R)]
  BY UnvisitedByTaking
<1>2. \A R \in SUBSET N : ReadyIn(among, R) # {} =>
        \E x \in R : x \in ReadyIn(among, R) /\ next(R) = R \ {x}
  <2>1. \A R \in SUBSET N : ReadyIn(among, R) \subseteq R
    BY DEF ReadyIn
  <2>2. QED
    BY <2>1
<1> HIDE DEF next
<1>3. ASSUME EverySetHasFirst(N, among) PROVE Acyclic(among)
  <2> SUFFICES ASSUME after[N] # {} PROVE FALSE
    BY <1>1 DEF Acyclic
  <2> DEFINE F == { R \in SUBSET N : after[R] # {} }
  <2>1. IsFiniteSet(N) /\ F \subseteq SUBSET N /\ F # {}
    OBVIOUS
  <2> HIDE DEF F
  <2>2. PICK R \in F : \A x \in R : R \ {x} \notin F
    BY <2>1, SmallestSet
  <2>3. R \in SUBSET N /\ after[R] # {}
    BY <2>2 DEF F
  <2>4. CASE ReadyIn(among, R) = {}
    <3>1. R = {}
      BY <1>3, <2>3, <2>4 DEF EverySetHasFirst
    <3>2. after[R] = R
      BY <1>1, <2>3, <2>4
    <3>3. QED
      BY <2>3, <3>1, <3>2
  <2>5. CASE ReadyIn(among, R) # {}
    <3>1. after[R] = after[next(R)]
      BY <1>1, <2>3, <2>5
    <3>2. next(R) \in SUBSET N /\ next(R) \notin F
      BY <1>2, <2>2, <2>3, <2>5
    <3>3. QED
      BY <2>3, <3>1, <3>2 DEF F
  <2>6. QED
    BY <2>4, <2>5
<1>4. ASSUME Acyclic(among) PROVE EverySetHasFirst(N, among)
  <2> SUFFICES ASSUME NEW S \in SUBSET N, S # {}, ReadyIn(among, S) = {}
               PROVE  FALSE
    BY DEF EverySetHasFirst
  <2> DEFINE F == { R \in SUBSET N : S \subseteq R /\ ~(S \subseteq after[R]) }
  <2>1. N \in F
    <3>1. after[N] = {}
      BY <1>1, <1>4 DEF Acyclic
    <3>2. ~(S \subseteq after[N])
      BY <3>1
    <3>3. QED
      BY <3>2
  <2>2. IsFiniteSet(N) /\ F \subseteq SUBSET N /\ F # {}
    BY <2>1
  <2> HIDE DEF F
  <2>3. PICK R \in F : \A x \in R : R \ {x} \notin F
    BY <2>2, SmallestSet
  <2>4. R \in SUBSET N /\ S \subseteq R /\ ~(S \subseteq after[R])
    BY <2>3 DEF F
  <2>5. ReadyIn(among, R) # {}
    BY <1>1, <2>4
  <2>6. PICK x \in R : x \in ReadyIn(among, R) /\ next(R) = R \ {x}
    BY <1>2, <2>4, <2>5
  <2>7. x \notin S
    <3>1. x \in S => x \in ReadyIn(among, S)
      BY <2>4, <2>6 DEF ReadyIn
    <3>2. QED
      BY <3>1
  <2>8. R \ {x} \in SUBSET N /\ S \subseteq R \ {x}
    BY <2>4, <2>7
  <2>9. S \subseteq after[R \ {x}]
    BY <2>3, <2>8 DEF F
  <2>10. after[R] = after[R \ {x}]
    BY <1>1, <2>4, <2>5, <2>6
  <2>11. QED
    BY <2>4, <2>9, <2>10
<1>5. QED
  BY <1>3, <1>4

(***************************************************************************)
(* Tracing.                                                                *)
(***************************************************************************)
\* Traced, for given edges among given nodes.
OriginsIn(among, id) ==
    { edge.source : edge \in { e \in among : e.target = id /\ e.type \in Relationships } }
    \cup
    { edge.target : edge \in { e \in among : e.source = id /\ e.type = "derived_from" } }

TracedIn(among, N, claim) ==
    LET upTo[k \in 0..Cardinality(N)] ==
          IF k = 0 THEN {claim}
          ELSE upTo[k - 1] \cup UNION { OriginsIn(among, id) : id \in upTo[k - 1] }
    IN  upTo[Cardinality(N)]

\* It is Traced when the edges are those of the graph.
LEMMA TracedIs ==
    \A claim : Traced(claim) = TracedIn(EdgeSet, DOMAIN nodes, claim)
BY DEF Traced, TracedIn, Origins, OriginsIn

\* The frontier goes on one step at a time.
IsTrace(upTo, among, N, claim) ==
    /\ TracedIn(among, N, claim) = upTo[Cardinality(N)]
    /\ \A k \in 0..Cardinality(N) :
         upTo[k] = IF k = 0 THEN {claim}
                   ELSE upTo[k - 1] \cup UNION { OriginsIn(among, id) : id \in upTo[k - 1] }

\* The recursive function of a trace exists.
LEMMA TracedBySteps ==
    ASSUME NEW N, IsFiniteSet(N), NEW claim \in N,
           NEW among, \A edge \in among : edge.source \in N /\ edge.target \in N
    PROVE  \E upTo : IsTrace(upTo, among, N, claim)
<1> DEFINE K == Cardinality(N)
           D == 0..K
           V == SUBSET N
           more(S) == S \cup UNION { OriginsIn(among, id) : id \in S }
           Equation(f) == f = [k \in D |-> IF k = 0 THEN {claim} ELSE more(f[k - 1])]
           upTo == CHOOSE f : Equation(f)
           stop == {0}
           rank == [k \in D |-> k]
           start == [k \in D |-> {claim}]
           prev == [k \in D |-> IF k = 0 THEN 0 ELSE k - 1]
           body == [p \in D \X V |-> more(p[2])]
<1>1. TracedIn(among, N, claim) = upTo[K]
  BY DEF TracedIn
<1>2. \A S \in V : more(S) \in V
  BY DEF OriginsIn
<1>3. K \in Nat
  BY FS_CardinalityType
<1> HIDE DEF more, K
<1>4. \A k \in D : k # 0 => k - 1 \in D /\ k - 1 < k
  BY <1>3
<1>5. Descends(D, V, rank, K, stop, start, prev, body)
  <2>1. rank \in [D -> Nat] /\ \A k \in D : rank[k] <= K
    BY <1>3
  <2>2. start \in [D -> V]
    OBVIOUS
  <2>3. prev \in [D -> D]
    BY <1>3, <1>4
  <2>4. body \in [D \X V -> V]
    BY <1>2
  <2>5. \A k \in D \ stop : rank[prev[k]] < rank[k]
    BY <1>3, <1>4
  <2> HIDE DEF D, V, rank, start, prev, body, stop
  <2>6. QED
    BY <1>3, <2>1, <2>2, <2>3, <2>4, <2>5 DEF Descends
<1> HIDE DEF D, V, rank, prev, start, body, stop
<1>6. PICK f : Solves(f, D, V, stop, start, prev, body)
  BY <1>5, DescentDefines
<1>7. ASSUME NEW k \in D PROVE f[k] = IF k = 0 THEN {claim} ELSE more(f[k - 1])
  <2>1. f[k] = IF k \in stop THEN start[k] ELSE body[<<k, f[prev[k]]>>]
    BY <1>6 DEF Solves
  <2>2. k \in stop <=> k = 0
    BY DEF stop
  <2>3. start[k] = {claim}
    BY DEF start
  <2>4. k # 0 => prev[k] = k - 1 /\ f[prev[k]] \in V
    BY <1>4, <1>6 DEF prev, Solves
  <2>5. k # 0 => body[<<k, f[prev[k]]>>] = more(f[prev[k]])
    BY <2>4 DEF body
  <2>6. QED
    BY <2>1, <2>2, <2>3, <2>4, <2>5
<1>8. f = [k \in D |-> f[k]]
  BY <1>6 DEF Solves
<1>9. Equation(f)
  BY <1>7, <1>8
<1>10. Equation(upTo)
  BY <1>9
<1> HIDE DEF upTo
<1>11. \A k \in D : upTo[k] = IF k = 0 THEN {claim} ELSE more(upTo[k - 1])
  BY <1>10
<1>12. QED
  BY <1>1, <1>11 DEF more, K, D, IsTrace

(***************************************************************************)
(* The invariant.                                                          *)
(***************************************************************************)
EdgesOf(es) == { es[id] : id \in DOMAIN es }

SoundNodes ==
    /\ IsFiniteSet(DOMAIN nodes)
    /\ nodes = [id \in DOMAIN nodes |-> nodes[id]]
    /\ \A id \in DOMAIN nodes : nodes[id].final => nodes[id].type = "claim"

\* What SnapshotValid says, without taking nodes out.
SoundEdges(es) ==
    /\ es = [id \in DOMAIN es |-> es[id]]
    /\ \A one, other \in DOMAIN es : es[one] = es[other] => one = other
    /\ \A edge \in EdgesOf(es) :
         {edge.source, edge.target} \subseteq DOMAIN nodes /\ EdgeTypeValid(edge)
    /\ EverySetHasFirst(DOMAIN nodes, EdgesOf(es))

\* The snapshot was savable, and the reader is on its way to it.
SavedSoundly ==
    /\ nodes = stored.nodes
    /\ SoundEdges(stored.edges)
    /\ { id \in DOMAIN nodes : nodes[id].type = "evidence" } = DOMAIN ledger
    /\ \A id \in DOMAIN ledger :
         nodes[id].identity = [sha256 |-> ledger[id].sha256, status |-> ledger[id].status]
    /\ \A edge \in EdgesOf(stored.edges) :
         edge.source \in DOMAIN ledger => edge.type = ledger[edge.source].relationship
    /\ \A id \in DOMAIN nodes : nodes[id].final =>
         TracedIn(EdgesOf(stored.edges), DOMAIN nodes, id) \cap ValidatedEvidence # {}
    /\ DOMAIN edges \subseteq DOMAIN stored.edges
    /\ \A id \in DOMAIN edges : edges[id] = stored.edges[id]
    /\ phase \in {"stored", "reading", "returned"}
    /\ phase # "reading" => edges = stored.edges

GraphInvariant ==
    /\ SoundNodes
    /\ SoundEdges(edges)
    /\ phase # "building" => SavedSoundly

\* Edges among which there is no cycle have none when some are left out.
LEMMA FewerEdges ==
    ASSUME NEW N, NEW some, NEW more, some \subseteq more, EverySetHasFirst(N, more)
    PROVE  EverySetHasFirst(N, some)
<1>1. \A S : ReadyIn(more, S) \subseteq ReadyIn(some, S)
  BY DEF ReadyIn
<1>2. QED
  BY <1>1 DEF EverySetHasFirst

\* Part of a sound set of edges is sound.
LEMMA SoundPart ==
    ASSUME NEW es, SoundEdges(es), NEW part, part = [id \in DOMAIN part |-> part[id]],
           DOMAIN part \subseteq DOMAIN es, \A id \in DOMAIN part : part[id] = es[id]
    PROVE  SoundEdges(part)
<1>1. EdgesOf(part) \subseteq EdgesOf(es)
  BY DEF EdgesOf
<1>2. EverySetHasFirst(DOMAIN nodes, EdgesOf(part))
  BY <1>1, FewerEdges DEF SoundEdges
<1>3. QED
  BY <1>1, <1>2 DEF SoundEdges

\* What the code checks of a graph, in the terms of the invariant.
LEMMA SavableMeans ==
    ASSUME SoundNodes, Savable, phase' = "stored", stored' = [nodes |-> nodes, edges |-> edges],
           SoundEdges(edges), UNCHANGED <<ledger, nodes, edges>>
    PROVE  SavedSoundly'
<1>1. stored'.nodes = nodes /\ stored'.edges = edges
  OBVIOUS
<1>2. EdgeSet = EdgesOf(edges) /\ EdgesOf(stored'.edges) = EdgesOf(edges)
  BY <1>1 DEF EdgeSet, EdgesOf
<1>3. SoundEdges(stored.edges)'
  BY <1>1 DEF SoundEdges, EdgeTypeValid
<1>4. /\ { id \in DOMAIN nodes : nodes[id].type = "evidence" } = DOMAIN ledger
      /\ \A id \in DOMAIN ledger :
           nodes[id].identity = [sha256 |-> ledger[id].sha256, status |-> ledger[id].status]
      /\ \A edge \in EdgesOf(edges) :
           edge.source \in DOMAIN ledger => edge.type = ledger[edge.source].relationship
  BY <1>2 DEF Savable, MatchesLedger
<1>5. \A id \in DOMAIN nodes : nodes[id].final =>
        TracedIn(EdgesOf(edges), DOMAIN nodes, id) \cap ValidatedEvidence # {}
  BY <1>2, TracedIs DEF Savable, FinalClaimsTraced
<1>6. ValidatedEvidence' = ValidatedEvidence
  BY DEF ValidatedEvidence
<1>7. QED
  BY <1>1, <1>2, <1>3, <1>4, <1>5, <1>6 DEF SavedSoundly

\* A reader that has all edges of the snapshot passes the checks of the caller.
LEMMA WholeSnapshotPasses ==
    ASSUME SavedSoundly, edges = stored.edges
    PROVE  MatchesLedger /\ FinalClaimsTraced
<1>1. EdgeSet = EdgesOf(stored.edges)
  BY DEF EdgeSet, EdgesOf
<1>2. FinalClaimsTraced
  BY <1>1, TracedIs DEF SavedSoundly, FinalClaimsTraced
<1>3. MatchesLedger
  BY <1>1 DEF SavedSoundly, MatchesLedger
<1>4. QED
  BY <1>2, <1>3

(***************************************************************************)
(* Steps.                                                                  *)
(***************************************************************************)
\* A node that is new has no edges.
LEMMA NewNodeIsSound ==
    ASSUME GraphInvariant, NEW id \in NodeIds, NEW node \in Offers[id], add_node(id, node)
    PROVE  GraphInvariant'
<1>1. /\ phase = "building" /\ phase' = phase /\ edges' = edges
      /\ id \notin DOMAIN nodes /\ nodes' = With(nodes, id, node)
  BY DEF add_node
<1>2. DOMAIN nodes' = DOMAIN nodes \cup {id} /\ nodes'[id] = node
  BY <1>1 DEF With
<1>3. \A other \in DOMAIN nodes : nodes'[other] = nodes[other]
  BY <1>1 DEF With
<1>4. node \in Nodes
  BY OffersAreNodes
<1>5. SoundNodes'
  <2>1. IsFiniteSet(DOMAIN nodes')
    BY <1>2, FS_AddElement DEF GraphInvariant, SoundNodes
  <2>2. nodes' = [n \in DOMAIN nodes' |-> nodes'[n]]
    BY <1>1 DEF With
  <2>3. \A n \in DOMAIN nodes' : nodes'[n].final => nodes'[n].type = "claim"
    BY <1>2, <1>3, <1>4 DEF GraphInvariant, SoundNodes, Nodes
  <2>4. QED
    BY <2>1, <2>2, <2>3 DEF SoundNodes
<1>6. \A edge \in EdgesOf(edges) :
        /\ edge.source \in DOMAIN nodes /\ edge.target \in DOMAIN nodes
        /\ EdgeTypeValid(edge)
  BY DEF GraphInvariant, SoundEdges
<1>7. \A edge \in EdgesOf(edges) :
        {edge.source, edge.target} \subseteq DOMAIN nodes' /\ EdgeTypeValid(edge)'
  BY <1>2, <1>3, <1>6 DEF EdgeTypeValid
<1>8. EverySetHasFirst(DOMAIN nodes', EdgesOf(edges))
  <2>1. ASSUME NEW S \in SUBSET DOMAIN nodes', S # {}
        PROVE  ReadyIn(EdgesOf(edges), S) # {}
    <3>1. CASE id \in S
      BY <1>1, <1>6, <3>1 DEF ReadyIn
    <3>2. CASE id \notin S
      <4>1. S \subseteq DOMAIN nodes
        BY <1>2, <3>2
      <4>2. QED
        BY <2>1, <4>1 DEF GraphInvariant, SoundEdges, EverySetHasFirst
    <3>3. QED
      BY <3>1, <3>2
  <2>2. QED
    BY <2>1 DEF EverySetHasFirst
<1>9. EdgesOf(edges') = EdgesOf(edges)
  BY <1>1
<1>10. SoundEdges(edges)'
  BY <1>1, <1>7, <1>8, <1>9 DEF GraphInvariant, SoundEdges
<1>11. QED
  BY <1>1, <1>5, <1>10 DEF GraphInvariant

\* An edge is added when the graph with it has no cycle.
LEMMA NewEdgeIsSound ==
    ASSUME SoundNodes, SoundEdges(edges), NEW id, NEW edge, EdgeAddable(id, edge),
           edges' = With(edges, id, edge), nodes' = nodes
    PROVE  SoundEdges(edges)'
<1>1. DOMAIN edges' = DOMAIN edges \cup {id} /\ id \notin DOMAIN edges /\ edges'[id] = edge
  BY DEF With, EdgeAddable
<1>2. \A other \in DOMAIN edges : edges'[other] = edges[other]
  BY <1>1 DEF With
<1>3. EdgesOf(edges') = EdgesOf(edges) \cup {edge}
  BY <1>1, <1>2 DEF EdgesOf
<1>4. edges' = [other \in DOMAIN edges' |-> edges'[other]]
  BY DEF With
<1>5. EdgeSet = EdgesOf(edges) /\ edge \notin EdgesOf(edges)
  BY DEF EdgeSet, EdgesOf, EdgeAddable
<1>6. \A one, other \in DOMAIN edges' : edges'[one] = edges'[other] => one = other
  <2>1. \A one \in DOMAIN edges : edges[one] \in EdgesOf(edges)
    BY DEF EdgesOf
  <2>2. QED
    BY <1>1, <1>2, <1>5, <2>1 DEF SoundEdges
<1>7. \A e \in EdgesOf(edges') :
        {e.source, e.target} \subseteq DOMAIN nodes' /\ EdgeTypeValid(e)'
  <2>1. EdgeTypeValid(edge) /\ {edge.source, edge.target} \subseteq DOMAIN nodes
    BY DEF EdgeAddable
  <2>2. \A e : EdgeTypeValid(e)' <=> EdgeTypeValid(e)
    BY DEF EdgeTypeValid
  <2>3. QED
    BY <1>3, <2>1, <2>2 DEF SoundEdges
<1>8. EverySetHasFirst(DOMAIN nodes', EdgesOf(edges'))
  <2>1. Acyclic(EdgesOf(edges'))
    BY <1>3, <1>5 DEF EdgeAddable
  <2>2. EverySetHasFirst(DOMAIN nodes, EdgesOf(edges'))
    BY <2>1, AcyclicMeans DEF SoundNodes
  <2>3. QED
    BY <2>2
<1>9. QED
  BY <1>4, <1>6, <1>7, <1>8 DEF SoundEdges

\* A caller adds an edge.
LEMMA AddedEdgeIsSound ==
    ASSUME GraphInvariant, NEW id, NEW edge, add_edge(id, edge)
    PROVE  GraphInvariant'
<1>1. phase = "building" /\ phase' = phase /\ nodes' = nodes
  BY DEF add_edge
<1>2. SoundEdges(edges)'
  BY <1>1, NewEdgeIsSound DEF add_edge, GraphInvariant
<1>3. QED
  BY <1>1, <1>2 DEF GraphInvariant, SoundNodes

\* A caller saves the graph.
LEMMA SavingIsSound ==
    ASSUME GraphInvariant, save_claim_graph
    PROVE  GraphInvariant'
<1>1. SavedSoundly'
  BY SavableMeans DEF GraphInvariant, save_claim_graph
<1>2. nodes' = nodes /\ edges' = edges
  BY DEF save_claim_graph
<1>3. \A e : EdgeTypeValid(e)' <=> EdgeTypeValid(e)
  BY <1>2 DEF EdgeTypeValid
<1>4. SoundNodes' /\ SoundEdges(edges)'
  BY <1>2, <1>3 DEF GraphInvariant, SoundNodes, SoundEdges
<1>5. QED
  BY <1>1, <1>4 DEF GraphInvariant

\* What a reader has of a graph that was saved is part of it.
LEMMA ReadingKeepsSaved ==
    ASSUME SavedSoundly, UNCHANGED <<ledger, stored>>, nodes' = nodes,
           phase' \in {"stored", "reading", "returned"},
           phase' # "reading" => edges' = stored.edges,
           edges' = [id \in DOMAIN edges' |-> edges'[id]],
           DOMAIN edges' \subseteq DOMAIN stored.edges,
           \A id \in DOMAIN edges' : edges'[id] = stored.edges[id]
    PROVE  SavedSoundly' /\ SoundEdges(edges)'
<1>1. \A e : EdgeTypeValid(e)' <=> EdgeTypeValid(e)
  BY DEF EdgeTypeValid
<1>2. SoundEdges(edges') /\ SoundEdges(stored.edges)
  BY SoundPart DEF SavedSoundly
<1>3. SoundEdges(edges)' /\ SoundEdges(stored.edges)'
  BY <1>1, <1>2 DEF SoundEdges
<1>4. ValidatedEvidence' = ValidatedEvidence
  BY DEF ValidatedEvidence
<1>5. stored'.edges = stored.edges /\ stored'.nodes = stored.nodes
  OBVIOUS
<1>6. SavedSoundly'
  BY <1>3, <1>4, <1>5 DEF SavedSoundly
<1>7. QED
  BY <1>3, <1>6

\* The reader begins without edges.
LEMMA LoadIsSound ==
    ASSUME GraphInvariant, Load
    PROVE  GraphInvariant'
<1>1. SavedSoundly /\ nodes' = stored.nodes /\ edges' = Nothing /\ phase' = "reading"
  BY DEF GraphInvariant, Load
<1>2. nodes' = nodes
  BY <1>1 DEF SavedSoundly
<1>3. DOMAIN edges' = {} /\ edges' = [id \in DOMAIN edges' |-> edges'[id]]
  BY <1>1 DEF Nothing
<1>4. UNCHANGED <<ledger, stored>>
  BY DEF Load
<1>5. SavedSoundly' /\ SoundEdges(edges)'
  BY <1>1, <1>2, <1>3, <1>4, ReadingKeepsSaved
<1>6. QED
  BY <1>2, <1>5 DEF GraphInvariant, SoundNodes

\* The reader meets no refusal: part of a graph without cycles has none.
LEMMA SavedEdgeIsAddable ==
    ASSUME GraphInvariant, phase = "reading", NEW id \in Remaining
    PROVE  EdgeAddable(id, stored.edges[id])
<1> DEFINE edge == stored.edges[id]
<1>1. SoundNodes /\ SavedSoundly
  BY DEF GraphInvariant
<1>2. id \in DOMAIN stored.edges /\ id \notin DOMAIN edges
  BY DEF Remaining
<1>3. edge \in EdgesOf(stored.edges) /\ SoundEdges(stored.edges)
  BY <1>1, <1>2 DEF EdgesOf, SavedSoundly
<1>4. {edge.source, edge.target} \subseteq DOMAIN nodes /\ EdgeTypeValid(edge)
  BY <1>3 DEF SoundEdges
<1>5. edge \notin EdgeSet
  BY <1>1, <1>2, <1>3 DEF EdgeSet, SavedSoundly, SoundEdges
<1>6. EdgeSet \cup {edge} \subseteq EdgesOf(stored.edges)
  BY <1>1, <1>3 DEF EdgeSet, EdgesOf, SavedSoundly
<1>7. EverySetHasFirst(DOMAIN nodes, EdgeSet \cup {edge})
  BY <1>3, <1>6, FewerEdges DEF SoundEdges
<1>8. Acyclic(EdgeSet \cup {edge})
  BY <1>1, <1>7, AcyclicMeans DEF SoundNodes
<1>9. QED
  BY <1>2, <1>4, <1>5, <1>8 DEF EdgeAddable

\* The reader adds the next edge.
LEMMA LoadedEdgeIsSound ==
    ASSUME GraphInvariant, LoadEdge
    PROVE  GraphInvariant'
<1>1. PICK id \in Remaining :
        IF EdgeAddable(id, stored.edges[id])
        THEN edges' = With(edges, id, stored.edges[id]) /\ UNCHANGED phase
        ELSE phase' = "raised" /\ UNCHANGED edges
  BY DEF LoadEdge
<1>2. phase = "reading" /\ SavedSoundly
  BY DEF LoadEdge, GraphInvariant
<1>3. edges' = With(edges, id, stored.edges[id]) /\ phase' = "reading"
  BY <1>1, <1>2, SavedEdgeIsAddable
<1>4. UNCHANGED <<ledger, stored>> /\ nodes' = nodes
  BY DEF LoadEdge
<1>5. /\ edges' = [other \in DOMAIN edges' |-> edges'[other]]
      /\ DOMAIN edges' = DOMAIN edges \cup {id}
      /\ \A other \in DOMAIN edges' : edges'[other] = IF other = id THEN stored.edges[id]
                                                      ELSE edges[other]
  BY <1>3 DEF With
<1>6. id \in DOMAIN stored.edges
  BY DEF Remaining
<1>7. /\ DOMAIN edges' \subseteq DOMAIN stored.edges
      /\ \A other \in DOMAIN edges' : edges'[other] = stored.edges[other]
  BY <1>2, <1>5, <1>6 DEF SavedSoundly
<1>8. SavedSoundly' /\ SoundEdges(edges)'
  BY <1>2, <1>3, <1>4, <1>5, <1>7, ReadingKeepsSaved
<1>9. QED
  BY <1>4, <1>8 DEF GraphInvariant, SoundNodes

\* The reader has all edges, and returns the graph.
LEMMA ReturnIsSound ==
    ASSUME GraphInvariant, Return
    PROVE  GraphInvariant'
<1>1. SavedSoundly /\ phase = "reading" /\ Remaining = {}
  BY DEF GraphInvariant, Return
<1>2. UNCHANGED <<ledger, nodes, edges, stored>>
  BY DEF Return
<1>3. edges = stored.edges
  <2>1. DOMAIN edges = DOMAIN stored.edges
    BY <1>1 DEF Remaining, SavedSoundly
  <2>2. /\ edges = [id \in DOMAIN edges |-> edges[id]]
        /\ stored.edges = [id \in DOMAIN stored.edges |-> stored.edges[id]]
    BY <1>1 DEF GraphInvariant, SavedSoundly, SoundEdges
  <2>3. \A id \in DOMAIN edges : edges[id] = stored.edges[id]
    BY <1>1 DEF SavedSoundly
  <2>4. QED
    BY <2>1, <2>2, <2>3
<1>4. phase' = "returned"
  BY <1>1, <1>3, WholeSnapshotPasses DEF Return
<1>5. /\ edges' = [id \in DOMAIN edges' |-> edges'[id]]
      /\ DOMAIN edges' \subseteq DOMAIN stored.edges
      /\ \A id \in DOMAIN edges' : edges'[id] = stored.edges[id]
  BY <1>2, <1>3 DEF GraphInvariant, SoundEdges
<1>6. SavedSoundly' /\ SoundEdges(edges)'
  BY <1>1, <1>2, <1>3, <1>4, <1>5, ReadingKeepsSaved
<1>7. QED
  BY <1>2, <1>6 DEF GraphInvariant, SoundNodes

\* A graph without nodes is sound.
LEMMA GraphBeginsSoundly ==
    ASSUME GraphInit
    PROVE  GraphInvariant
<1>1. /\ nodes = Nothing /\ edges = Nothing /\ phase = "building"
      /\ DOMAIN nodes = {} /\ DOMAIN edges = {} /\ EdgesOf(edges) = {}
  BY DEF GraphInit, Nothing, EdgesOf
<1>2. SoundNodes
  BY <1>1, FS_EmptySet DEF SoundNodes, Nothing
<1>3. EverySetHasFirst(DOMAIN nodes, EdgesOf(edges))
  BY <1>1 DEF EverySetHasFirst, ReadyIn
<1>4. SoundEdges(edges)
  BY <1>1, <1>3 DEF SoundEdges, Nothing
<1>5. QED
  BY <1>1, <1>2, <1>4 DEF GraphInvariant

\* Every step of a caller or of the reader keeps the invariant.
LEMMA GraphStaysSound ==
    ASSUME GraphInvariant, [GraphNext]_graphVars
    PROVE  GraphInvariant'
<1>1. CASE \E id \in NodeIds : \E node \in Offers[id] : add_node(id, node)
  BY <1>1, NewNodeIsSound
<1>2. CASE \E id \in EdgeIds, edge \in Edges : add_edge(id, edge)
  BY <1>2, AddedEdgeIsSound
<1>3. CASE save_claim_graph
  BY <1>3, SavingIsSound
<1>4. CASE Load
  BY <1>4, LoadIsSound
<1>5. CASE LoadEdge
  BY <1>5, LoadedEdgeIsSound
<1>6. CASE Return
  BY <1>6, ReturnIsSound
<1>7. CASE UNCHANGED graphVars
  <2>1. UNCHANGED <<ledger, nodes, edges, stored, phase>>
    BY <1>7 DEF graphVars
  <2>2. \A e : EdgeTypeValid(e)' <=> EdgeTypeValid(e)
    BY <2>1 DEF EdgeTypeValid
  <2>3. SoundNodes' /\ SoundEdges(edges)' /\ (phase # "building" => SoundEdges(stored.edges)')
    BY <2>1, <2>2 DEF GraphInvariant, SoundNodes, SoundEdges, SavedSoundly
  <2>4. ValidatedEvidence' = ValidatedEvidence
    BY <2>1 DEF ValidatedEvidence
  <2>5. phase # "building" => SavedSoundly'
    BY <2>1, <2>3, <2>4 DEF GraphInvariant, SavedSoundly
  <2>6. QED
    BY <2>1, <2>3, <2>5 DEF GraphInvariant
<1>8. QED
  BY <1>1, <1>2, <1>3, <1>4, <1>5, <1>6, <1>7 DEF GraphNext

\* The invariant of the graph holds for ever.
LEMMA GraphIsAlwaysSound == GraphSpec => []GraphInvariant
<1>1. GraphInit => GraphInvariant
  BY GraphBeginsSoundly
<1>2. GraphInvariant /\ [GraphNext]_graphVars => GraphInvariant'
  BY GraphStaysSound
<1>3. QED
  BY <1>1, <1>2, PTL DEF GraphSpec

(***************************************************************************)
(* What follows.                                                           *)
(***************************************************************************)
\* If a path led back from an edge's target to its source, then no node of those
\* that the target leads to would be first among them.
LEMMA SoundGraphIsNotCyclic ==
    ASSUME GraphInvariant
    PROVE  NeverCyclic
<1> SUFFICES ASSUME NEW back \in EdgeSet, Leads(EdgeSet, back.target, back.source)
             PROVE  FALSE
  BY DEF NeverCyclic
<1>1. EdgeSet = EdgesOf(edges)
  BY DEF EdgeSet, EdgesOf
<1>2. \A edge \in EdgeSet : edge.source \in DOMAIN nodes /\ edge.target \in DOMAIN nodes
  BY <1>1 DEF GraphInvariant, SoundEdges
<1> DEFINE led == { n \in DOMAIN nodes : Leads(EdgeSet, back.target, n) }
<1>3. back.target \in led /\ back.source \in led
  BY <1>2 DEF Leads
<1>4. PICK first \in led : \A edge \in EdgeSet : edge.target = first => edge.source \notin led
  <2>1. ReadyIn(EdgeSet, led) # {}
    BY <1>1, <1>3 DEF GraphInvariant, SoundEdges, EverySetHasFirst
  <2> HIDE DEF led
  <2>2. QED
    BY <2>1 DEF ReadyIn
<1>5. first # back.target
  BY <1>3, <1>4
<1> DEFINE rest == led \ {first}
<1>6. back.target \in rest /\ rest \subseteq DOMAIN nodes
  BY <1>3, <1>5
<1>7. ASSUME NEW edge \in EdgeSet, edge.source \in rest PROVE edge.target \in rest
  <2>1. edge.source \in led /\ edge.target # first
    BY <1>4, <1>7
  <2>2. edge.target \in led
    BY <1>2, <2>1 DEF Leads
  <2>3. QED
    BY <2>1, <2>2
<1>8. Leads(EdgeSet, back.target, first)
  OBVIOUS
<1>9. first \in rest
  <2> HIDE DEF rest
  <2>1. QED
    BY <1>6, <1>7, <1>8 DEF Leads
<1>10. QED
  BY <1>9

\* Whatever evidence the frontier comes to says something about a claim that the
\* traced claim is derived from.
LEMMA TracedEvidenceSpeaks ==
    ASSUME SoundNodes, SoundEdges(edges),
           NEW id \in DOMAIN nodes, nodes[id].type = "claim",
           NEW found \in Traced(id), nodes[found].type = "evidence"
    PROVE  \E edge \in EdgeSet : edge.source = found /\ Leads(Derivations, id, edge.target)
<1> DEFINE N == DOMAIN nodes
           K == Cardinality(N)
           Claim(x) == nodes[x].type = "claim" /\ Leads(Derivations, id, x)
           Speaks(x) == /\ nodes[x].type = "evidence"
                        /\ \E edge \in EdgeSet :
                             edge.source = x /\ Leads(Derivations, id, edge.target)
           Good(x) == Claim(x) \/ Speaks(x)
<1>1. EdgeSet = EdgesOf(edges)
  BY DEF EdgeSet, EdgesOf
<1>2. \A edge \in EdgeSet : edge.source \in N /\ edge.target \in N /\ EdgeTypeValid(edge)
  BY <1>1 DEF SoundEdges
<1>3. PICK upTo : IsTrace(upTo, EdgeSet, N, id)
  <2>1. IsFiniteSet(N) /\ id \in N
    BY DEF SoundNodes
  <2>2. \A edge \in EdgeSet : edge.source \in N /\ edge.target \in N
    BY <1>2
  <2> HIDE DEF N, EdgeSet
  <2>3. QED
    BY <2>1, <2>2, TracedBySteps
<1>4. ASSUME NEW x, Good(x), NEW y \in OriginsIn(EdgeSet, x) PROVE Good(y)
  <2>1. CASE \E e \in EdgeSet : e.target = x /\ e.type \in Relationships /\ y = e.source
    <3>1. PICK e \in EdgeSet : e.target = x /\ e.type \in Relationships /\ y = e.source
      BY <2>1
    <3>2. EdgeTypeValid(e)
      BY <1>2, <3>1
    <3>3. nodes[y].type = "evidence" /\ nodes[x].type = "claim"
      BY <3>1, <3>2 DEF EdgeTypeValid, Relationships
    <3>4. Leads(Derivations, id, x)
      BY <1>4, <3>3
    <3>5. QED
      BY <3>1, <3>3, <3>4
  <2>2. CASE \E e \in EdgeSet : e.source = x /\ e.type = "derived_from" /\ y = e.target
    <3>1. PICK e \in EdgeSet : e.source = x /\ e.type = "derived_from" /\ y = e.target
      BY <2>2
    <3>2. EdgeTypeValid(e)
      BY <1>2, <3>1
    <3>3. nodes[x].type = "claim" /\ nodes[y].type = "claim"
      BY <3>1, <3>2 DEF EdgeTypeValid, Relationships
    <3>4. Leads(Derivations, id, x)
      BY <1>4, <3>3
    <3>5. e \in Derivations
      BY <3>1 DEF Derivations
    <3>6. Leads(Derivations, id, y)
      BY <3>1, <3>4, <3>5 DEF Leads
    <3>7. QED
      BY <3>3, <3>6
  <2>3. QED
    BY <1>4, <2>1, <2>2 DEF OriginsIn
<1>5. Good(id)
  BY DEF Leads
<1>6. K \in Nat
  <2>1. IsFiniteSet(N)
    BY DEF SoundNodes
  <2> HIDE DEF N
  <2>2. QED
    BY <2>1, FS_CardinalityType
<1>7. /\ TracedIn(EdgeSet, N, id) = upTo[K] /\ upTo[0] = {id}
      /\ \A k \in 0..K : k # 0 =>
           upTo[k] = upTo[k - 1] \cup UNION { OriginsIn(EdgeSet, x) : x \in upTo[k - 1] }
  <2>1. 0 \in 0..Cardinality(N)
    BY <1>6
  <2>2. QED
    BY <1>3, <2>1 DEF IsTrace
<1> HIDE DEF Good, K
<1>8. \A k \in 0..K : \A x \in upTo[k] : Good(x)
  <2> DEFINE bad == { k \in 0..K : \E x \in upTo[k] : ~Good(x) }
  <2>1. SUFFICES ASSUME bad # {} PROVE FALSE
    OBVIOUS
  <2>2. bad \subseteq Nat
    BY <1>6
  <2> HIDE DEF bad
  <2>3. PICK k \in bad : \A j \in bad : k <= j
    BY <2>1, <2>2, SmallestNumber
  <2>4. k \in 0..K /\ \E x \in upTo[k] : ~Good(x)
    BY <2>3 DEF bad
  <2>5. PICK x \in upTo[k] : ~Good(x)
    BY <2>4
  <2>6. k # 0
    BY <1>5, <1>7, <2>5
  <2>7. k - 1 \in 0..K /\ ~(k <= k - 1)
    BY <1>6, <2>4, <2>6
  <2>8. \A y \in upTo[k - 1] : Good(y)
    BY <2>3, <2>7 DEF bad
  <2>9. x \in upTo[k - 1] \/ \E y \in upTo[k - 1] : x \in OriginsIn(EdgeSet, y)
    <3>1. upTo[k] = upTo[k - 1] \cup UNION { OriginsIn(EdgeSet, y) : y \in upTo[k - 1] }
      BY <1>7, <2>4, <2>6
    <3>2. QED
      BY <2>5, <3>1
  <2>10. QED
    BY <1>4, <2>5, <2>8, <2>9
<1>9. found \in upTo[K] /\ K \in 0..K
  BY <1>6, <1>7, TracedIs
<1>10. Good(found)
  BY <1>8, <1>9
<1>11. QED
  BY <1>10 DEF Good

\* The evidence that a trace comes to is the ledger's.
LEMMA SoundGraphRestsOnEvidence ==
    ASSUME GraphInvariant
    PROVE  StoredClaimsRestOnEvidence
<1> SUFFICES ASSUME phase = "stored", NEW id \in DOMAIN nodes, nodes[id].final
             PROVE  \E edge \in EdgeSet :
                      /\ edge.source \in DOMAIN ledger
                      /\ ledger[edge.source].status = "validated"
                      /\ ledger[edge.source].relationship = edge.type
                      /\ Leads(Derivations, id, edge.target)
  BY DEF StoredClaimsRestOnEvidence
<1>1. SoundNodes /\ SoundEdges(edges) /\ SavedSoundly /\ edges = stored.edges
  BY DEF GraphInvariant, SavedSoundly
<1>2. MatchesLedger /\ FinalClaimsTraced
  BY <1>1, WholeSnapshotPasses
<1>3. PICK found \in Traced(id) : found \in ValidatedEvidence
  BY <1>2 DEF FinalClaimsTraced
<1>4. /\ nodes[found].type = "evidence" /\ nodes[found].identity.status = "validated"
      /\ found \in DOMAIN ledger
  BY <1>2, <1>3 DEF ValidatedEvidence, MatchesLedger
<1>5. nodes[id].type = "claim"
  BY <1>1 DEF SoundNodes
<1>6. PICK edge \in EdgeSet : edge.source = found /\ Leads(Derivations, id, edge.target)
  BY <1>1, <1>4, <1>5, TracedEvidenceSpeaks
<1>7. ledger[found].status = "validated"
  <2>1. nodes[found].identity = [sha256 |-> ledger[found].sha256, status |-> ledger[found].status]
    BY <1>2, <1>4 DEF MatchesLedger
  <2>2. QED
    BY <1>4, <2>1
<1>8. ledger[found].relationship = edge.type
  BY <1>2, <1>4, <1>6 DEF MatchesLedger
<1>9. QED
  BY <1>4, <1>6, <1>7, <1>8

\* A reader that has raised is not on its way, and one that returned has all.
LEMMA SoundGraphIsReadable ==
    ASSUME GraphInvariant
    PROVE  StoredGraphIsReadable
BY DEF GraphInvariant, SavedSoundly, StoredGraphIsReadable

-----------------------------------------------------------------------------

\* No node is on a path of edges that leads back to it, however many nodes and
\* edges a caller adds, in whatever order: _assert_acyclic, which takes ready
\* nodes out and counts them, finds every cycle that an edge would close.
THEOREM GraphIsNeverCyclic == GraphSpec => []NeverCyclic
<1>1. GraphSpec => []GraphInvariant
  BY GraphIsAlwaysSound
<1>2. GraphInvariant => NeverCyclic
  BY SoundGraphIsNotCyclic
<1>3. QED
  BY <1>1, <1>2, PTL

\* A final claim in the store is derived, in some number of steps, from a claim
\* that evidence which the ledger holds as validated says something about: the
\* frontier of validate_final_claim_traceability comes to nothing else.
THEOREM StoredClaimsAlwaysRestOnEvidence == GraphSpec => []StoredClaimsRestOnEvidence
<1>1. GraphSpec => []GraphInvariant
  BY GraphIsAlwaysSound
<1>2. GraphInvariant => StoredClaimsRestOnEvidence
  BY SoundGraphRestsOnEvidence
<1>3. QED
  BY <1>1, <1>2, PTL

\* A graph that save_claim_graph accepted is read again, edge by edge in the order
\* of the snapshot, without a refusal and without a difference.
THEOREM StoredGraphIsAlwaysReadable == GraphSpec => []StoredGraphIsReadable
<1>1. GraphSpec => []GraphInvariant
  BY GraphIsAlwaysSound
<1>2. GraphInvariant => StoredGraphIsReadable
  BY SoundGraphIsReadable
<1>3. QED
  BY <1>1, <1>2, PTL
=============================================================================
