------------------------- MODULE ExportLineageProofs -------------------------
(***************************************************************************)
(* Exports of a case, for any number of exporters, crashes and callers of  *)
(* the store.                                                              *)
(*                                                                         *)
(* The argument: an export reads the case and its bundles at different     *)
(* times, but is recorded only when the case has still the revision that   *)
(* was read first.  The log only grows and bundles come with an event      *)
(* (StoreGrows), so at that moment the log is the one that was read, and   *)
(* the bundles, if they were read later than the log, are those of that    *)
(* log.  The store's own invariant says how they fit together.             *)
(*                                                                         *)
(* The lineage does not fork, although its last export is found by         *)
(* revision and identifier and not by the order of recording: a case is    *)
(* read only while its graph, if it has one, is of its own revision.  Once *)
(* an export with a graph is on record, no later revision is exported, and *)
(* of every earlier revision there is at most one export.                  *)
(***************************************************************************)
EXTENDS ExportLineage, SequenceTheorems, TLAPS

StoreFacts == INSTANCE CaseStoreProofs

USE DEF EXPERIMENT_EXECUTED, CHAIR_EXPLANATION,
        Store!CONSTITUTION_LOCKED, StoreFacts!CONSTITUTION_LOCKED,
        Store!EXPERIMENT_EXECUTED, StoreFacts!EXPERIMENT_EXECUTED,
        Store!VERDICT_ELIGIBILITY_COMPUTED, StoreFacts!VERDICT_ELIGIBILITY_COMPUTED,
        Store!CHAIR_EXPLANATION, StoreFacts!CHAIR_EXPLANATION

\* The steps of an export that has read the case, and its bundles.
Listed  == {"find", "latest", "write", "record"}
Reading == {"bundles"} \cup Listed

Steps == {"idle", "returned", "crashed"} \cup Reading

\* Engine evidence is one event of the log.
OneExperiment == \A k \in 1..Len(events) : k # 6 => events[k] \in Payloads

\* What an export that has read a case knows of it.
ReadIsPrefix(d) ==
    /\ d = [log |-> d.log, graph_revision |-> d.graph_revision, bundles |-> d.bundles]
    /\ d.log \in Seq(Payloads \cup Receipts)
    /\ Len(d.log) <= Len(events)
    /\ \A k \in 1..Len(d.log) : events[k] = d.log[k]
    /\ d.graph_revision \in {0, Len(d.log)}
    /\ d.graph_revision # 0 => Len(d.log) >= 6
    /\ Len(d.log) = 12 => d.graph_revision # 0

\* The graph that an export names is a row of the store.
GraphIsStored(d) == d.graph_revision # 0 => Len(d.log) \in graphs

\* What an export on record has to do with the case.
FitsCase(d) ==
    /\ ReadIsPrefix(d)
    /\ GraphIsStored(d)
    /\ Len(d.log) = Len(events) => d.bundles = bundles

\* Recorded exports are of the case, in the order of their revisions, and one
\* with and one without a graph at most of a revision.
LineageOrdered ==
    /\ \A k \in 1..Len(exports) : FitsCase(exports[k].id)
    /\ \A j, k \in 1..Len(exports) :
         j <= k => RevisionOf(exports[j].id) <= RevisionOf(exports[k].id)
    /\ \A j, k \in 1..Len(exports) :
         /\ RevisionOf(exports[j].id) = RevisionOf(exports[k].id)
         /\ exports[j].id.graph_revision = exports[k].id.graph_revision
         => j = k
    /\ LineageIsOneChain

IsRecorded(record) == \E k \in 1..Len(exports) : exports[k] = record

Governed(exporter) ==
    /\ pc[exporter] \in {"idle", "bundles", "find", "latest", "write"} => package[exporter] = {}
    /\ pc[exporter] = "record" => package[exporter] = {Manifest(exporter)}
    /\ pc[exporter] = "returned" => \A record \in package[exporter] : IsRecorded(record)
    /\ pc[exporter] \in Reading =>
         ReadIsPrefix(durable[exporter]) /\ GraphIsStored(durable[exporter])
    /\ pc[exporter] \in Reading /\ Len(durable[exporter].log) = Len(events) =>
         graphs \subseteq {Len(events)}
    /\ pc[exporter] \in Listed /\ Len(durable[exporter].log) = Len(events) =>
         durable[exporter].bundles = bundles

ExportsAreSequence ==
    /\ Len(exports) \in Nat
    /\ exports = [k \in 1..Len(exports) |-> exports[k]]

ExportTypes ==
    /\ pc \in [Exporters -> Steps]
    /\ durable = [exporter \in Exporters |-> durable[exporter]]
    /\ parent = [exporter \in Exporters |-> parent[exporter]]
    /\ package = [exporter \in Exporters |-> package[exporter]]
    /\ ExportsAreSequence

ExportInvariant ==
    /\ StoreFacts!StoreInvariant
    /\ OneExperiment
    /\ ExportTypes
    /\ \A k \in 1..Len(exports) : PackageVerifies(exports[k])
    /\ LineageOrdered
    /\ \A exporter \in Exporters : Governed(exporter)

-----------------------------------------------------------------------------

\* The constants are as the proofs about the store demand.
LEMMA StoreIsGoverned == StoreFacts!StoreConstants
BY StoreConstants DEF Store!StoreConstants, StoreFacts!StoreConstants

\* What the store's invariant says of the case.
LEMMA StoreNow ==
    ASSUME StoreFacts!StoreInvariant
    PROVE  /\ row.revision = Len(events) /\ events \in Seq(Payloads \cup Receipts)
           /\ Len(events) \in Nat /\ Len(events) <= 12
           /\ row.finalized <=> Len(events) = 12
           /\ bundles \in Seq(Receipts) /\ Len(bundles) <= 1
           /\ \A receipt \in Receipts :
                (Len(events) >= 6 /\ events[6] = receipt) <=> bundles = <<receipt>>
BY DEF StoreFacts!StoreInvariant, StoreFacts!TypeOK, StoreFacts!RowFollowsLog,
       StoreFacts!EvidenceHasOneOrigin, StoreFacts!HasLedger

\* The calls by which others change the case.
LEMMA SameCallers ==
    Store!CallAppend \/ Store!CallAdmit \/ Store!CallSaveGraph => StoreFacts!Next
<1>1. Store!Histories = StoreFacts!Histories
  BY Zenon DEF Store!Histories, StoreFacts!Histories
<1>2. Store!Reconstructs(TRUE) <=> StoreFacts!Reconstructs(TRUE)
  BY Zenon DEF Store!Reconstructs, StoreFacts!Reconstructs,
               Store!RowMatchesLog, StoreFacts!RowMatchesLog,
               Store!GraphMatchesAnchor, StoreFacts!GraphMatchesAnchor,
               Store!EvidenceMatchesBundles, StoreFacts!EvidenceMatchesBundles,
               Store!VotesMatchEvents, StoreFacts!VotesMatchEvents,
               Store!HasLedger, StoreFacts!HasLedger, Store!CaseExists, StoreFacts!CaseExists,
               Store!Accepted, StoreFacts!Accepted
<1>3. Store!CallAppend => StoreFacts!CallAppend
  BY <1>1, Zenon
     DEF Store!CallAppend, StoreFacts!CallAppend, Store!append_event, StoreFacts!append_event,
         Store!AppendAccepted, StoreFacts!AppendAccepted, Store!CaseExists,
         StoreFacts!CaseExists, Store!EvidenceHasBundle, StoreFacts!EvidenceHasBundle,
         Store!AppendEvent, StoreFacts!AppendEvent, Store!AppendRow, StoreFacts!AppendRow,
         Store!Expectations, StoreFacts!Expectations
<1>4. Store!CallAdmit => StoreFacts!CallAdmit
  BY <1>1, Zenon
     DEF Store!CallAdmit, StoreFacts!CallAdmit,
         Store!admit_evidence_bundle, StoreFacts!admit_evidence_bundle,
         Store!BundleAccepted, StoreFacts!BundleAccepted,
         Store!AppendAccepted, StoreFacts!AppendAccepted, Store!CaseExists,
         StoreFacts!CaseExists, Store!EvidenceHasBundle, StoreFacts!EvidenceHasBundle,
         Store!AppendEvent, StoreFacts!AppendEvent, Store!AppendRow, StoreFacts!AppendRow
<1>5. Store!CallSaveGraph => StoreFacts!CallSaveGraph
  BY <1>1, <1>2, Zenon
     DEF Store!CallSaveGraph, StoreFacts!CallSaveGraph, Store!save_claim_graph,
         StoreFacts!save_claim_graph, Store!HasLedger, StoreFacts!HasLedger
<1>6. QED
  BY <1>3, <1>4, <1>5 DEF StoreFacts!Next

\* An export of the case as it is, with its bundles, can be verified.
LEMMA CurrentExportVerifies ==
    ASSUME StoreFacts!StoreInvariant, OneExperiment, NEW d, NEW p, ReadIsPrefix(d),
           Len(d.log) = Len(events), d.bundles = bundles
    PROVE  PackageVerifies([id |-> d, parent |-> p])
<1>1. d.log = events
  <2>1. /\ d.log \in Seq(Payloads \cup Receipts) /\ events \in Seq(Payloads \cup Receipts)
        /\ \A k \in 1..Len(d.log) : d.log[k] = events[k]
    BY StoreNow DEF ReadIsPrefix
  <2>2. QED
    BY <2>1, SeqEqual
<1>2. Payloads \cap Receipts = {}
  BY StoreConstants DEF Store!StoreConstants
<1>3. bundles = <<>> \/ \E receipt \in Receipts : bundles = <<receipt>>
  <2>1. bundles \in Seq(Receipts) /\ Len(bundles) <= 1
    BY StoreNow
  <2>2. CASE Len(bundles) = 0
    BY <2>1, <2>2, EmptySeq
  <2>3. CASE Len(bundles) = 1
    <3>1. bundles[1] \in Receipts
      BY <2>1, <2>3
    <3>2. bundles = <<bundles[1]>>
      BY <2>1, <2>3, <3>1, SeqEqual
    <3>3. QED
      BY <3>1, <3>2
  <2>4. Len(bundles) = 0 \/ Len(bundles) = 1
    <3>1. \A n \in Nat : n <= 1 => n = 0 \/ n = 1
      OBVIOUS
    <3>2. Len(bundles) \in Nat
      BY <2>1
    <3>3. QED
      BY <2>1, <3>1, <3>2
  <2>5. QED
    BY <2>2, <2>3, <2>4
<1>4. bundles # <<>> => Len(events) >= 6
  BY <1>3, StoreNow
<1>5. {bundles[k] : k \in DOMAIN bundles} = EvidenceBundles(events)
  <2>1. DOMAIN events = 1..Len(events)
    BY StoreNow
  <2>2. ASSUME NEW receipt \in EvidenceBundles(events) PROVE bundles = <<receipt>>
    BY <1>2, <2>1, <2>2, StoreNow DEF EvidenceBundles, OneExperiment
  <2>3. ASSUME NEW receipt \in Receipts, bundles = <<receipt>>
        PROVE  receipt \in EvidenceBundles(events)
    BY <2>1, <2>3, StoreNow DEF EvidenceBundles
  <2>4. CASE bundles = <<>>
    BY <2>2, <2>4
  <2>5. ASSUME NEW receipt \in Receipts, bundles = <<receipt>>
        PROVE  {bundles[k] : k \in DOMAIN bundles} = EvidenceBundles(events)
    <3>1. {bundles[k] : k \in DOMAIN bundles} = {receipt}
      BY <2>5
    <3>2. \A other \in EvidenceBundles(events) : other = receipt
      BY <2>2, <2>5
    <3>3. QED
      BY <2>3, <2>5, <3>1, <3>2
  <2>6. QED
    BY <1>3, <2>4, <2>5
<1>6. /\ RevisionOf(d) = Len(events)
      /\ d.graph_revision \in {0, Len(events)}
      /\ d.graph_revision # 0 => Len(events) >= 6
      /\ Len(events) = 12 => d.graph_revision # 0
      /\ Len(d.bundles) <= 1
  BY <1>1, StoreNow DEF RevisionOf, ReadIsPrefix
<1>7. /\ d.bundles # <<>> => Len(events) >= 6
      /\ {d.bundles[k] : k \in DOMAIN d.bundles} = EvidenceBundles(d.log)
  BY <1>1, <1>4, <1>5
<1>8. QED
  BY <1>6, <1>7 DEF PackageVerifies

-----------------------------------------------------------------------------

\* What was read stays a beginning of the log while the case grows.
LEMMA PrefixStays ==
    ASSUME NEW d, ReadIsPrefix(d), Len(events) \in Nat, Len(events') \in Nat,
           Len(events) <= Len(events'), \A k \in 1..Len(events) : events'[k] = events[k]
    PROVE  ReadIsPrefix(d)'
<1>1. /\ Len(d.log) \in Nat /\ Len(d.log) <= Len(events)
      /\ \A k \in 1..Len(d.log) : events[k] = d.log[k]
  BY DEF ReadIsPrefix
<1>2. Len(d.log) <= Len(events')
  <2>1. \A i, j, k \in Nat : i <= j /\ j <= k => i <= k
    OBVIOUS
  <2>2. QED
    BY <1>1, <2>1
<1>3. \A k \in 1..Len(d.log) : events'[k] = d.log[k]
  <2>1. \A i, j \in Nat : i <= j => 1..i \subseteq 1..j
    OBVIOUS
  <2>2. QED
    BY <1>1, <2>1
<1>4. QED
  BY <1>2, <1>3 DEF ReadIsPrefix

\* The case moves on; whatever exporters have read fits it or is out of date.
LEMMA CaseChangesKeep ==
    ASSUME ExportInvariant, CaseChanges
    PROVE  ExportInvariant'
<1>1. /\ StoreFacts!StoreInvariant'
      /\ Len(events) \in Nat /\ Len(events') \in Nat /\ Len(events) <= Len(events')
      /\ \A k \in 1..Len(events) : events'[k] = events[k]
      /\ Len(events') = Len(events) => events' = events /\ bundles' = bundles
      /\ graphs \subseteq graphs'
  BY SameCallers, StoreIsGoverned, StoreFacts!StoreGrows DEF ExportInvariant, CaseChanges
<1>2. /\ exports' = exports /\ pc' = pc /\ durable' = durable /\ parent' = parent
      /\ package' = package
  BY DEF CaseChanges, exporterVars
<1>3. OneExperiment'
  <2>1. /\ row.revision = Len(events) /\ events \in Seq(Payloads \cup Receipts)
        /\ OneExperiment
    BY StoreNow DEF ExportInvariant
  <2>2. CASE events' = events
    BY <2>1, <2>2 DEF OneExperiment
  <2>3. ASSUME NEW payload \in Payloads \cup Receipts, events' = Append(events, payload),
               Len(events) + 1 # 6 => payload \in Payloads
        PROVE  OneExperiment'
    BY <2>1, <2>3 DEF OneExperiment
  <2>4. CASE Store!CallAppend
    <3>1. PICK after, payload, expected :
                 /\ payload \in IF Len(after) + 1 = 6 THEN Payloads \cup Receipts ELSE Payloads
                 /\ Store!append_event(after, payload, expected)
      BY <2>4 DEF Store!CallAppend
    <3>2. Len(after) = Len(events) /\ events' = Append(events, payload)
      BY <2>1, <3>1 DEF Store!append_event, Store!AppendAccepted, Store!AppendEvent
    <3>3. QED
      BY <2>3, <3>1, <3>2
  <2>5. CASE Store!CallAdmit
    <3>1. PICK receipt \in Receipts, after \in Store!Histories :
                 Store!admit_evidence_bundle(receipt, after)
      BY <2>5 DEF Store!CallAdmit
    <3>2. \/ events' = events
          \/ Len(events) + 1 = 6 /\ events' = Append(events, receipt)
      BY <2>1, <3>1 DEF Store!admit_evidence_bundle, Store!BundleAccepted,
                        Store!AppendAccepted, Store!AppendEvent
    <3>3. QED
      BY <2>2, <2>3, <3>2
  <2>6. CASE Store!CallSaveGraph
    BY <2>2, <2>6 DEF Store!CallSaveGraph, Store!save_claim_graph
  <2>7. QED
    BY <2>4, <2>5, <2>6 DEF CaseChanges
<1>4. ExportTypes'
  BY <1>2 DEF ExportInvariant, ExportTypes, ExportsAreSequence
<1>5. \A k \in 1..Len(exports') : PackageVerifies(exports'[k])
  BY <1>2 DEF ExportInvariant
<1>6. ASSUME NEW exporter \in Exporters PROVE Governed(exporter)'
  <2>1. Governed(exporter)
    BY DEF ExportInvariant
  <2>2. pc[exporter] \in Reading =>
          ReadIsPrefix(durable[exporter])' /\ GraphIsStored(durable[exporter])'
    BY <1>1, <1>2, <2>1, PrefixStays DEF Governed, GraphIsStored
  <2>3. ASSUME pc[exporter] \in Listed, Len(durable[exporter].log) = Len(events')
        PROVE  durable[exporter].bundles = bundles'
    <3>1. /\ Len(durable[exporter].log) \in Nat
          /\ Len(durable[exporter].log) <= Len(events)
      BY <2>1, <2>3 DEF Governed, ReadIsPrefix, Reading
    <3>2. Len(events') = Len(events)
      BY <1>1, <2>3, <3>1
    <3>3. QED
      BY <1>1, <2>1, <2>3, <3>2 DEF Governed
  <2>4. ASSUME pc[exporter] \in Reading, Len(durable[exporter].log) = Len(events')
        PROVE  graphs' \subseteq {Len(events')}
    <3>1. /\ Len(durable[exporter].log) \in Nat
          /\ Len(durable[exporter].log) <= Len(events)
      BY <2>1, <2>4 DEF Governed, ReadIsPrefix
    <3>2. Len(events') = Len(events)
      BY <1>1, <2>4, <3>1
    <3>3. graphs \subseteq {Len(events)}
      BY <2>1, <2>4, <3>2 DEF Governed
    <3>4. graphs' \subseteq graphs \cup {Len(events)}
      BY StoreNow
         DEF CaseChanges, Store!CallAppend, Store!append_event, Store!CallAdmit,
             Store!admit_evidence_bundle, Store!CallSaveGraph, Store!save_claim_graph,
             ExportInvariant
    <3>5. QED
      BY <3>2, <3>3, <3>4
  <2>5. QED
    BY <1>2, <2>1, <2>2, <2>3, <2>4 DEF Governed, Manifest, IsRecorded
<1>7. LineageOrdered'
  <2>1. ASSUME NEW k \in 1..Len(exports) PROVE FitsCase(exports[k].id)'
    <3>1. PICK d : d = exports[k].id
      OBVIOUS
    <3>2. FitsCase(d)
      BY <3>1 DEF ExportInvariant, LineageOrdered
    <3>3. ReadIsPrefix(d)' /\ GraphIsStored(d)'
      BY <1>1, <3>2, PrefixStays DEF FitsCase, GraphIsStored
    <3>4. ASSUME Len(d.log) = Len(events') PROVE d.bundles = bundles'
      <4>1. Len(d.log) \in Nat /\ Len(d.log) <= Len(events)
        BY <3>2 DEF FitsCase, ReadIsPrefix
      <4>2. Len(events') = Len(events)
        BY <1>1, <3>4, <4>1
      <4>3. QED
        BY <1>1, <3>2, <3>4, <4>2 DEF FitsCase
    <3>5. FitsCase(d)'
      BY <3>3, <3>4 DEF FitsCase
    <3>6. QED
      BY <1>2, <3>1, <3>5
  <2>2. QED
    BY <1>2, <2>1 DEF ExportInvariant, LineageOrdered, LineageIsOneChain, RevisionOf
<1>8. QED
  BY <1>1, <1>3, <1>4, <1>5, <1>6, <1>7 DEF ExportInvariant

-----------------------------------------------------------------------------

\* An exporter's step leaves the case alone.
LEMMA ExportersLeaveCase ==
    ASSUME ExportInvariant, NEW exporter \in Exporters,
           ExporterStep(exporter) \/ Crash(exporter)
    PROVE  /\ row' = row /\ events' = events /\ graphs' = graphs /\ bundles' = bundles
           /\ StoreFacts!StoreInvariant' /\ OneExperiment'
<1>1. UNCHANGED storeVars
  BY DEF ExporterStep, ReadCase, ListBundles, FindExport, LatestExport, WritePackage,
         RecordExport, RecordRefused, Collect, Crash
<1>2. QED
  BY <1>1, StoreIsGoverned, StoreFacts!StutterKeeps
     DEF storeVars, StoreFacts!vars, ExportInvariant, OneExperiment

\* An exporter's step writes its own state only, with values of their types.
LEMMA ExportersWriteTheirOwn ==
    ASSUME ExportInvariant, NEW exporter \in Exporters,
           ExporterStep(exporter) \/ Crash(exporter)
    PROVE  /\ ExportTypes'
           /\ \A other \in Exporters : other # exporter =>
                /\ pc'[other] = pc[other] /\ durable'[other] = durable[other]
                /\ parent'[other] = parent[other] /\ package'[other] = package[other]
<1>1. ExportTypes
  BY DEF ExportInvariant
<1>2. exports' = exports \/ exports' = Append(exports, Manifest(exporter))
  BY DEF ExporterStep, ReadCase, ListBundles, FindExport, LatestExport, WritePackage,
         RecordExport, RecordRefused, Collect, Crash
<1>3. ExportsAreSequence'
  BY <1>1, <1>2 DEF ExportTypes, ExportsAreSequence
<1>4. \/ pc' = pc
      \/ \E step \in Steps : pc' = [pc EXCEPT ![exporter] = step]
  BY DEF ExporterStep, ReadCase, ListBundles, FindExport, LatestExport, WritePackage,
         RecordExport, RecordRefused, Collect, Crash, Goto, Leave, Steps, Reading, Listed
<1>5. durable' = durable \/ \E d : durable' = [durable EXCEPT ![exporter] = d]
  BY <1>1
     DEF ExporterStep, ReadCase, ListBundles, FindExport, LatestExport, WritePackage,
         RecordExport, RecordRefused, Collect, Crash, Leave, ExportTypes
<1>6. parent' = parent \/ \E p : parent' = [parent EXCEPT ![exporter] = p]
  BY DEF ExporterStep, ReadCase, ListBundles, FindExport, LatestExport, WritePackage,
         RecordExport, RecordRefused, Collect, Crash, Leave
<1>7. package' = package \/ \E p : package' = [package EXCEPT ![exporter] = p]
  BY DEF ExporterStep, ReadCase, ListBundles, FindExport, LatestExport, WritePackage,
         RecordExport, RecordRefused, Collect, Crash, Leave
<1>8. QED
  BY <1>1, <1>3, <1>4, <1>5, <1>6, <1>7 DEF ExportTypes

\* Another exporter's step does not concern what is known of an export.
LEMMA OthersStayGoverned ==
    ASSUME NEW other \in Exporters, Governed(other),
           pc'[other] = pc[other], durable'[other] = durable[other],
           parent'[other] = parent[other], package'[other] = package[other],
           events' = events, bundles' = bundles, graphs' = graphs,
           \A record : IsRecorded(record) => IsRecorded(record)'
    PROVE  Governed(other)'
<1>1. /\ ReadIsPrefix(durable[other]) => ReadIsPrefix(durable[other])'
      /\ GraphIsStored(durable[other]) => GraphIsStored(durable[other])'
  BY DEF ReadIsPrefix, GraphIsStored
<1>2. QED
  BY <1>1 DEF Governed, Manifest

\* A manifest that is appended is the current case's.
LEMMA RecordingKeeps ==
    ASSUME ExportInvariant, NEW exporter \in Exporters, RecordExport(exporter)
    PROVE  /\ IsRecorded(Manifest(exporter))'
           /\ \A record : IsRecorded(record) => IsRecorded(record)'
           /\ \A k \in 1..Len(exports') : PackageVerifies(exports'[k])
<1> DEFINE record == Manifest(exporter)
<1>1. /\ ExportsAreSequence /\ Governed(exporter)
      /\ \A k \in 1..Len(exports) : PackageVerifies(exports[k])
      /\ DOMAIN exports = 1..Len(exports)
  BY DEF ExportInvariant, ExportTypes, ExportsAreSequence
<1>2. /\ pc[exporter] = "record" /\ Recordable(record)
      /\ exports' = IF Recorded(record.id) # {} THEN exports ELSE Append(exports, record)
      /\ durable' = durable /\ parent' = parent
  BY DEF RecordExport
<1>3. CASE Recorded(record.id) # {}
  <2>1. exports' = exports /\ record \in Recorded(record.id)
    BY <1>2, <1>3 DEF Recordable
  <2>2. IsRecorded(record)
    BY <1>1, <2>1 DEF Recorded, IsRecorded, Exported
  <2>3. QED
    BY <1>1, <1>2, <2>1, <2>2 DEF IsRecorded, Manifest
<1>4. CASE Recorded(record.id) = {}
  <2>1. exports' = Append(exports, record)
    BY <1>2, <1>4
  <2>2. /\ Len(exports') = Len(exports) + 1
        /\ \A k \in 1..Len(exports) : exports'[k] = exports[k]
        /\ exports'[Len(exports) + 1] = record
    BY <1>1, <2>1 DEF ExportsAreSequence
  <2>3. PackageVerifies(record)
    <3>1. ReadIsPrefix(durable[exporter]) /\ record.id = durable[exporter]
      BY <1>1, <1>2 DEF Governed, Manifest, Reading, Listed
    <3>2. Len(durable[exporter].log) = Len(events)
      BY <1>2, <3>1, StoreNow DEF Recordable, RevisionOf, ExportInvariant
    <3>3. durable[exporter].bundles = bundles
      BY <1>1, <1>2, <3>2 DEF Governed, Listed
    <3>4. QED
      BY <3>1, <3>2, <3>3, CurrentExportVerifies DEF ExportInvariant, Manifest
  <2>4. \A k \in 1..Len(exports') : k \in 1..Len(exports) \/ k = Len(exports) + 1
    BY <1>1, <2>2 DEF ExportsAreSequence
  <2>5. \A k \in 1..Len(exports') : PackageVerifies(exports'[k])
    BY <1>1, <2>2, <2>3, <2>4
  <2>6. /\ \A k \in 1..Len(exports) : k \in 1..Len(exports')
        /\ Len(exports) + 1 \in 1..Len(exports')
    BY <1>1, <2>2 DEF ExportsAreSequence
  <2>7. IsRecorded(record)'
    BY <1>2, <2>2, <2>6 DEF IsRecorded, Manifest
  <2>8. \A other : IsRecorded(other) => IsRecorded(other)'
    BY <2>2, <2>6 DEF IsRecorded
  <2>9. QED
    BY <2>5, <2>7, <2>8
<1>5. QED
  BY <1>3, <1>4

\* The last of some exports is the one whose revision is the highest.
LEMMA LatestIsLast ==
    ASSUME NEW records, NEW last \in records, RevisionOf(last.id) \in Nat,
           \A other \in records \ {last} :
             RevisionOf(other.id) \in Nat /\ RevisionOf(other.id) < RevisionOf(last.id)
    PROVE  LatestOf(records) = last.id
<1> DEFINE IsLatest(record) == \A other \in records \ {record} : Before(other.id, record.id)
<1>1. IsLatest(last)
  BY DEF Before
<1>2. ASSUME NEW record \in records, IsLatest(record) PROVE record = last
  BY <1>2 DEF Before
<1>3. (CHOOSE record \in records : IsLatest(record)) = last
  BY <1>1, <1>2
<1>4. QED
  BY <1>3 DEF LatestOf

\* Of the case as it is there are two exports, without a graph and with one.
LEMMA OneExportOfAKind ==
    ASSUME NEW d, NEW e, FitsCase(d), FitsCase(e), events \in Seq(Payloads \cup Receipts),
           Len(d.log) = Len(events), Len(e.log) = Len(events),
           d.graph_revision = e.graph_revision
    PROVE  d = e
<1>1. d.log = events /\ e.log = events
  BY SeqEqual DEF FitsCase, ReadIsPrefix
<1>2. d.bundles = e.bundles
  BY DEF FitsCase
<1>3. QED
  BY <1>1, <1>2 DEF FitsCase, ReadIsPrefix

\* The lineage depends on the case and the records alone.
LEMMA OrderStays ==
    ASSUME LineageOrdered, exports' = exports, events' = events, bundles' = bundles,
           graphs' = graphs
    PROVE  LineageOrdered'
<1>1. \A d : FitsCase(d) => FitsCase(d)'
  BY DEF FitsCase, ReadIsPrefix, GraphIsStored
<1>2. QED
  BY <1>1 DEF LineageOrdered, LineageIsOneChain, RevisionOf

\* A manifest is recorded after the last one and names it as its parent.
LEMMA RecordingOrdered ==
    ASSUME ExportInvariant, NEW exporter \in Exporters, RecordExport(exporter)
    PROVE  LineageOrdered'
<1>1. /\ ExportsAreSequence /\ Governed(exporter) /\ LineageOrdered
      /\ DOMAIN exports = 1..Len(exports)
      /\ events \in Seq(Payloads \cup Receipts) /\ Len(events) \in Nat
      /\ row.revision = Len(events)
  BY StoreNow DEF ExportInvariant, ExportTypes, ExportsAreSequence
<1>2. events' = events /\ bundles' = bundles /\ graphs' = graphs
  BY ExportersLeaveCase DEF ExporterStep
<1>3. PICK record : record = Manifest(exporter)
  OBVIOUS
<1>4. /\ pc[exporter] = "record" /\ Recordable(record)
      /\ exports' = IF Recorded(record.id) # {} THEN exports ELSE Append(exports, record)
  BY <1>3 DEF RecordExport
<1>5. CASE Recorded(record.id) # {}
  BY <1>1, <1>2, <1>4, <1>5, OrderStays
<1>6. CASE Recorded(record.id) = {}
  <2>1. PICK m \in Nat : m = Len(exports)
    BY <1>1 DEF ExportsAreSequence
  <2>2. PICK n \in Nat : n = Len(events)
    BY <1>1
  <2>3. /\ record.id = durable[exporter]
        /\ RevisionOf(record.id) = n /\ record.parent = LatestManifest
    BY <1>1, <1>3, <1>4, <1>6, <2>2 DEF Recordable, Manifest
  <2>4. FitsCase(record.id) /\ graphs \subseteq {n}
    BY <1>1, <1>4, <2>2, <2>3 DEF Governed, Reading, Listed, FitsCase, RevisionOf
  <2>5. /\ Len(exports') = m + 1 /\ exports'[m + 1] = record
        /\ \A k \in 1..m : exports'[k] = exports[k]
    BY <1>1, <1>4, <1>6, <2>1 DEF ExportsAreSequence
  <2>6. \A k \in 1..m :
          /\ FitsCase(exports[k].id) /\ RevisionOf(exports[k].id) \in Nat
          /\ RevisionOf(exports[k].id) <= n
    BY <1>1, <2>1, <2>2 DEF LineageOrdered, FitsCase, ReadIsPrefix, RevisionOf
  <2>7. ASSUME NEW k \in 1..m, RevisionOf(exports[k].id) = n
        PROVE  exports[k].id.graph_revision # record.id.graph_revision
    <3>1. exports[k].id # record.id
      BY <1>1, <1>6, <2>1, <2>7 DEF Recorded, Exported
    <3>2. QED
      BY <1>1, <2>2, <2>3, <2>4, <2>6, <2>7, <3>1, OneExportOfAKind DEF RevisionOf
  <2>8. ASSUME NEW k \in 1..m, RevisionOf(exports[k].id) # n
        PROVE  exports[k].id.graph_revision = 0
    BY <2>4, <2>6, <2>8 DEF FitsCase, GraphIsStored, RevisionOf
  <2>9. \A k \in 1..m : exports[k].id.graph_revision \in {0, RevisionOf(exports[k].id)}
    BY <2>6 DEF FitsCase, ReadIsPrefix, RevisionOf
  <2>10. record.id.graph_revision \in {0, n}
    BY <2>3, <2>4 DEF FitsCase, ReadIsPrefix, RevisionOf
  <2>11. ASSUME NEW j \in 1..m, j # m
         PROVE  RevisionOf(exports[j].id) < RevisionOf(exports[m].id)
    <3>1. m \in 1..m /\ j <= m
      BY <2>11
    <3>2. RevisionOf(exports[j].id) <= RevisionOf(exports[m].id)
      BY <1>1, <2>1, <3>1 DEF LineageOrdered
    <3>3. ASSUME RevisionOf(exports[j].id) = RevisionOf(exports[m].id) PROVE FALSE
      <4>1. exports[j].id.graph_revision = exports[m].id.graph_revision
        BY <2>7, <2>8, <2>9, <2>10, <3>1, <3>3
      <4>2. QED
        BY <1>1, <2>1, <2>11, <3>1, <3>3, <4>1 DEF LineageOrdered
    <3>4. QED
      BY <2>6, <3>1, <3>2, <3>3
  <2>12. record.parent = IF m = 0 THEN Genesis ELSE exports[m].id
    <3>1. CASE m = 0
      BY <1>1, <2>1, <2>3, <3>1 DEF LatestManifest, LatestOf, Exported
    <3>2. CASE m # 0
      <4>1. m \in 1..m /\ exports[m] \in Exported
        BY <1>1, <2>1, <3>2 DEF Exported
      <4>2. \A other \in Exported \ {exports[m]} :
              /\ RevisionOf(other.id) \in Nat
              /\ RevisionOf(other.id) < RevisionOf(exports[m].id)
        BY <1>1, <2>1, <2>6, <2>11 DEF Exported
      <4>3. RevisionOf(exports[m].id) \in Nat
        BY <2>6, <4>1
      <4>4. LatestOf(Exported) = exports[m].id
        BY <4>1, <4>2, <4>3, LatestIsLast
      <4>5. QED
        BY <2>3, <3>2, <4>4 DEF LatestManifest
    <3>3. QED
      BY <3>1, <3>2
  <2>13. \A k \in 1..Len(exports') :
           \/ k \in 1..m /\ k # m + 1 /\ exports'[k] = exports[k]
           \/ k = m + 1 /\ k \notin 1..m /\ exports'[k] = record
    BY <2>5
  <2>14. \A k \in 1..Len(exports') : FitsCase(exports'[k].id)
    BY <2>4, <2>6, <2>13
  <2>15. \A k \in 1..Len(exports') : FitsCase(exports[k].id)'
    <3>1. \A d : FitsCase(d) => FitsCase(d)'
      BY <1>2 DEF FitsCase, ReadIsPrefix, GraphIsStored
    <3>2. QED
      BY <2>14, <3>1
  <2>16. ASSUME NEW j \in 1..Len(exports'), NEW k \in 1..Len(exports'), j <= k
         PROVE  RevisionOf(exports'[j].id) <= RevisionOf(exports'[k].id)
    <3>1. CASE k = m + 1
      BY <2>3, <2>6, <2>13, <3>1
    <3>2. CASE k \in 1..m
      <4>1. j \in 1..m
        BY <2>13, <2>16, <3>2
      <4>2. QED
        BY <1>1, <2>1, <2>5, <2>16, <3>2, <4>1 DEF LineageOrdered
    <3>3. QED
      BY <2>13, <3>1, <3>2
  <2>17. ASSUME NEW j \in 1..Len(exports'), NEW k \in 1..Len(exports'),
                RevisionOf(exports'[j].id) = RevisionOf(exports'[k].id),
                exports'[j].id.graph_revision = exports'[k].id.graph_revision
         PROVE  j = k
    <3>1. CASE j \in 1..m /\ k \in 1..m
      BY <1>1, <2>1, <2>5, <2>17, <3>1 DEF LineageOrdered
    <3>2. CASE j \in 1..m /\ k = m + 1
      BY <2>3, <2>5, <2>7, <2>17, <3>2
    <3>3. CASE j = m + 1 /\ k \in 1..m
      BY <2>3, <2>5, <2>7, <2>17, <3>3
    <3>4. QED
      BY <2>13, <3>1, <3>2, <3>3
  <2>18. LineageIsOneChain'
    <3>1. DOMAIN exports' = 1..(m + 1)
      BY <1>1, <1>4, <1>6, <2>1 DEF ExportsAreSequence
    <3>2. ASSUME NEW k \in 1..(m + 1)
          PROVE  exports'[k].parent = IF k = 1 THEN Genesis ELSE exports'[k - 1].id
      <4>1. CASE k = m + 1
        <5>1. m # 0 => m \in 1..m
          OBVIOUS
        <5>2. QED
          BY <2>5, <2>12, <4>1, <5>1
      <4>2. CASE k # m + 1
        <5>1. k \in 1..m /\ (k # 1 => k - 1 \in 1..m)
          BY <4>2
        <5>2. QED
          BY <1>1, <2>1, <2>5, <5>1 DEF LineageOrdered, LineageIsOneChain
      <4>3. QED
        BY <4>1, <4>2
    <3>3. QED
      BY <3>1, <3>2 DEF LineageIsOneChain, Genesis, ExportId
  <2>19. QED
    BY <2>15, <2>16, <2>17, <2>18 DEF LineageOrdered, RevisionOf
<1>7. QED
  BY <1>5, <1>6

\* What an exporter knows after its own step.
LEMMA OwnStepGoverned ==
    ASSUME ExportInvariant, NEW exporter \in Exporters,
           ExporterStep(exporter) \/ Crash(exporter)
    PROVE  Governed(exporter)'
<1>1. /\ ExportTypes /\ Governed(exporter) /\ pc[exporter] \in Steps
  BY DEF ExportInvariant, ExportTypes
<1>2. /\ row' = row /\ events' = events /\ bundles' = bundles /\ graphs' = graphs
      /\ \A d : ReadIsPrefix(d) => ReadIsPrefix(d)'
      /\ \A d : GraphIsStored(d) => GraphIsStored(d)'
  BY ExportersLeaveCase DEF ReadIsPrefix, GraphIsStored
<1>3. CASE ReadCase(exporter)
  <2>1. /\ pc[exporter] = "idle" /\ pc'[exporter] = "bundles"
        /\ durable'[exporter] = ExportId(events, row.graph_revision, <<>>)
        /\ package' = package
    BY <1>1, <1>3 DEF ReadCase, Goto, ExportTypes
  <2>2. ReadIsPrefix(ExportId(events, row.graph_revision, <<>>))
    <3>1. /\ row.revision = Len(events) /\ events \in Seq(Payloads \cup Receipts)
          /\ Len(events) \in Nat
          /\ row.finalized <=> Len(events) = 12
      BY StoreNow DEF ExportInvariant
    <3>2. /\ row.graph_revision \in {0, Len(events)}
          /\ row.finalized => row.graph_revision = Len(events)
          /\ row.graph_revision # 0 => Len(events) >= 6
      BY <1>3, <3>1
         DEF ReadCase, Store!Reconstructs, Store!GraphMatchesAnchor, Store!HasLedger
    <3>3. Len(events) = 12 => row.graph_revision # 0
      BY <3>1, <3>2
    <3>4. QED
      BY <3>1, <3>2, <3>3 DEF ReadIsPrefix, ExportId
  <2>3. /\ graphs \subseteq {Len(events)}
        /\ GraphIsStored(ExportId(events, row.graph_revision, <<>>))
    BY <1>3, StoreNow
       DEF ReadCase, Store!Reconstructs, Store!GraphMatchesAnchor, ExportInvariant,
           GraphIsStored, ExportId
  <2>4. QED
    BY <1>1, <1>2, <2>1, <2>2, <2>3 DEF Governed, Listed
<1>4. CASE ListBundles(exporter)
  <2>1. /\ pc[exporter] = "bundles" /\ pc'[exporter] = "find" /\ package' = package
        /\ durable' = [durable EXCEPT ![exporter].bundles = bundles]
    BY <1>1, <1>4 DEF ListBundles, Goto, ExportTypes
  <2>2. /\ ReadIsPrefix(durable[exporter]) /\ GraphIsStored(durable[exporter])
        /\ Len(durable[exporter].log) = Len(events) => graphs \subseteq {Len(events)}
    BY <1>1, <2>1 DEF Governed, Reading
  <2>3. durable'[exporter] = [durable[exporter] EXCEPT !.bundles = bundles]
    BY <1>1, <2>1 DEF ExportTypes
  <2>4. durable'[exporter] = [log |-> durable[exporter].log,
                              graph_revision |-> durable[exporter].graph_revision,
                              bundles |-> bundles]
    BY <2>2, <2>3 DEF ReadIsPrefix
  <2>5. /\ ReadIsPrefix(durable'[exporter]) /\ durable'[exporter].bundles = bundles
        /\ GraphIsStored(durable'[exporter])
        /\ durable'[exporter].log = durable[exporter].log
    BY <2>2, <2>4 DEF ReadIsPrefix, GraphIsStored
  <2>6. QED
    BY <1>1, <1>2, <2>1, <2>2, <2>5 DEF Governed
<1>5. CASE FindExport(exporter)
  <2>1. /\ pc[exporter] = "find" /\ pc'[exporter] \in {"latest", "write"}
        /\ durable' = durable /\ package' = package
    BY <1>1, <1>5 DEF FindExport, Goto, ExportTypes
  <2>2. QED
    BY <1>1, <1>2, <2>1 DEF Governed, Reading, Listed
<1>6. CASE LatestExport(exporter)
  <2>1. /\ pc[exporter] = "latest" /\ pc'[exporter] = "write"
        /\ durable' = durable /\ package' = package
    BY <1>1, <1>6 DEF LatestExport, Goto, ExportTypes
  <2>2. QED
    BY <1>1, <1>2, <2>1 DEF Governed, Reading, Listed
<1>7. CASE WritePackage(exporter)
  <2>1. /\ pc[exporter] = "write" /\ pc'[exporter] = "record"
        /\ durable' = durable /\ parent' = parent
        /\ package'[exporter] = {Manifest(exporter)}
    BY <1>1, <1>7 DEF WritePackage, Goto, ExportTypes
  <2>2. QED
    BY <1>1, <1>2, <2>1 DEF Governed, Reading, Listed, Manifest
<1>8. CASE RecordExport(exporter)
  <2>1. /\ pc[exporter] = "record" /\ pc'[exporter] = "returned" /\ package' = package
        /\ durable' = durable /\ parent' = parent
    BY <1>1, <1>8 DEF RecordExport, Goto, ExportTypes
  <2>2. package'[exporter] = {Manifest(exporter)} /\ Manifest(exporter)' = Manifest(exporter)
    BY <1>1, <2>1 DEF Governed, Manifest
  <2>3. \A record \in package'[exporter] : IsRecorded(record)'
    BY <1>8, <2>2, RecordingKeeps
  <2>4. QED
    BY <2>1, <2>3 DEF Governed, Reading, Listed
<1>9. CASE RecordRefused(exporter) \/ Collect(exporter)
  <2>1. pc'[exporter] = "idle" /\ package'[exporter] = {}
    BY <1>1, <1>9 DEF RecordRefused, Collect, Leave, Goto, ExportTypes
  <2>2. QED
    BY <2>1 DEF Governed, Reading, Listed
<1>10. CASE Crash(exporter)
  <2>1. pc'[exporter] = "crashed"
    BY <1>1, <1>10 DEF Crash, Leave, Goto, ExportTypes
  <2>2. QED
    BY <2>1 DEF Governed, Reading, Listed
<1>11. QED
  BY <1>3, <1>4, <1>5, <1>6, <1>7, <1>8, <1>9, <1>10 DEF ExporterStep

\* One step of one exporter.
LEMMA ExportersKeep ==
    ASSUME ExportInvariant, NEW exporter \in Exporters,
           ExporterStep(exporter) \/ Crash(exporter)
    PROVE  ExportInvariant'
<1>1. /\ events' = events /\ bundles' = bundles /\ graphs' = graphs
      /\ StoreFacts!StoreInvariant' /\ OneExperiment'
  BY ExportersLeaveCase
<1>2. /\ \A record : IsRecorded(record) => IsRecorded(record)'
      /\ \A k \in 1..Len(exports') : PackageVerifies(exports'[k])
      /\ LineageOrdered'
  <2>1. CASE RecordExport(exporter)
    BY <2>1, RecordingKeeps, RecordingOrdered
  <2>2. CASE exports' = exports
    BY <1>1, <2>2, OrderStays DEF IsRecorded, ExportInvariant
  <2>3. QED
    BY <2>1, <2>2
       DEF ExporterStep, ReadCase, ListBundles, FindExport, LatestExport, WritePackage,
           RecordRefused, Collect, Crash
<1>3. ASSUME NEW other \in Exporters, other # exporter PROVE Governed(other)'
  BY <1>1, <1>2, <1>3, ExportersWriteTheirOwn, OthersStayGoverned DEF ExportInvariant
<1>4. QED
  BY <1>1, <1>2, <1>3, ExportersWriteTheirOwn, OwnStepGoverned DEF ExportInvariant

-----------------------------------------------------------------------------

\* No export has begun.
LEMMA InitExports == Init => ExportInvariant
<1> SUFFICES ASSUME Init PROVE ExportInvariant
  OBVIOUS
<1>1. StoreFacts!Init
  BY DEF Init, Store!Init, StoreFacts!Init
<1>2. StoreFacts!StoreInvariant
  BY <1>1, StoreIsGoverned, StoreFacts!InitEstablishesStore
<1>3. OneExperiment
  <2>1. events \in Seq(Payloads)
    BY StoreConstants DEF Init, Store!Init, Store!StoreConstants
  <2>2. QED
    BY <2>1 DEF OneExperiment
<1>4. exports = <<>> /\ Len(exports) = 0
  BY DEF Init
<1>5. ExportTypes
  BY <1>4 DEF Init, ExportTypes, ExportsAreSequence, Steps
<1>6. \A exporter \in Exporters : Governed(exporter)
  BY DEF Init, Governed, Reading, Listed
<1>7. LineageOrdered
  BY <1>4 DEF LineageOrdered, LineageIsOneChain
<1>8. QED
  BY <1>2, <1>3, <1>4, <1>5, <1>6, <1>7 DEF ExportInvariant

\* Exporters and callers of the store together keep the invariant.
THEOREM ExportsAreGoverned == Spec => []ExportInvariant
<1>1. ASSUME ExportInvariant, UNCHANGED vars PROVE ExportInvariant'
  <2>1. /\ row' = row /\ events' = events /\ graphs' = graphs /\ bundles' = bundles
        /\ exports' = exports /\ pc' = pc /\ durable' = durable /\ parent' = parent
        /\ package' = package
    BY <1>1 DEF vars, storeVars, exporterVars
  <2>2. StoreFacts!StoreInvariant'
    BY <1>1, StoreIsGoverned, StoreFacts!StutterKeeps
       DEF ExportInvariant, vars, storeVars, StoreFacts!vars
  <2>3. \A exporter \in Exporters : Governed(exporter)'
    <3> SUFFICES ASSUME NEW exporter \in Exporters PROVE Governed(exporter)'
      OBVIOUS
    <3>1. \A record : IsRecorded(record) => IsRecorded(record)'
      BY <2>1 DEF IsRecorded
    <3>2. QED
      BY <1>1, <2>1, <3>1, OthersStayGoverned DEF ExportInvariant
  <2>4. QED
    BY <1>1, <2>1, <2>2, <2>3, OrderStays
       DEF ExportInvariant, OneExperiment, ExportTypes, ExportsAreSequence
<1>2. ExportInvariant /\ [Next]_vars => ExportInvariant'
  BY <1>1, CaseChangesKeep, ExportersKeep DEF Next
<1>3. QED
  BY <1>2, InitExports, PTL DEF Spec

\* The package of a call that is over is on record or gone, unless the call
\* crashed (export_durable_case).
THEOREM StandingPackageIsAlwaysRecorded == Spec => []StandingPackageIsRecorded
<1>1. ExportInvariant => StandingPackageIsRecorded
  <2> SUFFICES ASSUME ExportInvariant, NEW exporter \in Exporters,
                      pc[exporter] \notin {"record", "crashed"}
               PROVE  package[exporter] \subseteq Exported
    BY DEF StandingPackageIsRecorded
  <2>1. Governed(exporter) /\ pc[exporter] \in Steps /\ DOMAIN exports = 1..Len(exports)
    BY DEF ExportInvariant, ExportTypes, ExportsAreSequence
  <2>2. QED
    BY <2>1 DEF Governed, Steps, Reading, Listed, IsRecorded, Exported
<1>2. QED
  BY <1>1, ExportsAreGoverned, PTL

\* Every package on record can be verified without the store
\* (verify_case_package), although its parts were read at different times.
THEOREM RecordedPackageAlwaysVerifies == Spec => []RecordedPackageVerifies
<1>1. ExportInvariant => RecordedPackageVerifies
  BY DEF ExportInvariant, ExportTypes, ExportsAreSequence, RecordedPackageVerifies
<1>2. QED
  BY <1>1, ExportsAreGoverned, PTL

\* Every recorded export extends the one recorded before it, whatever races
\* (record_export, latest_export).
THEOREM LineageIsAlwaysOneChain == Spec => []LineageIsOneChain
<1>1. ExportInvariant => LineageIsOneChain
  BY DEF ExportInvariant, LineageOrdered
<1>2. QED
  BY <1>1, ExportsAreGoverned, PTL

\* The listing by revision and identifier is the order of recording, if no
\* revision was exported twice: verify() accepts (_verify_export_chain).
THEOREM LineageVerifiesWithoutLateGraph == Spec => []VerifiesWithoutLateGraph
<1>1. ExportInvariant => VerifiesWithoutLateGraph
  <2> SUFFICES ASSUME ExportInvariant,
                      \A j, k \in DOMAIN exports :
                        RevisionOf(exports[j].id) = RevisionOf(exports[k].id) => j = k,
                      NEW record \in Exported
               PROVE  record.parent = LatestOf({other \in Exported : Before(other.id, record.id)})
    BY DEF VerifiesWithoutLateGraph, ExportChainVerifies
  <2>1. /\ LineageOrdered /\ DOMAIN exports = 1..Len(exports) /\ Len(exports) \in Nat
    BY DEF ExportInvariant, ExportTypes, ExportsAreSequence
  <2>2. PICK k \in 1..Len(exports) : record = exports[k]
    BY <2>1 DEF Exported
  <2>3. \A j \in 1..Len(exports) : RevisionOf(exports[j].id) \in Nat
    BY <2>1 DEF LineageOrdered, FitsCase, ReadIsPrefix, RevisionOf
  <2>4. \A i, j \in 1..Len(exports) :
          i < j => RevisionOf(exports[i].id) < RevisionOf(exports[j].id)
    BY <2>1, <2>3 DEF LineageOrdered
  <2>5. \A j \in 1..Len(exports) : Before(exports[j].id, record.id) <=> j < k
    BY <2>1, <2>2, <2>3, <2>4 DEF Before
  <2>6. PICK earlier : earlier = {other \in Exported : Before(other.id, record.id)}
    OBVIOUS
  <2>7. earlier = {exports[j] : j \in {i \in 1..Len(exports) : i < k}}
    BY <2>1, <2>5, <2>6 DEF Exported
  <2>8. CASE k = 1
    <3>1. earlier = {}
      BY <2>7, <2>8
    <3>2. QED
      BY <2>1, <2>2, <2>6, <2>8, <3>1 DEF LatestOf, LineageOrdered, LineageIsOneChain
  <2>9. CASE k # 1
    <3>1. k - 1 \in 1..Len(exports) /\ k - 1 < k
      BY <2>1, <2>9
    <3>2. exports[k - 1] \in earlier
      BY <2>7, <3>1
    <3>3. \A other \in earlier \ {exports[k - 1]} :
            /\ RevisionOf(other.id) \in Nat
            /\ RevisionOf(other.id) < RevisionOf(exports[k - 1].id)
      <4> SUFFICES ASSUME NEW j \in 1..Len(exports), j < k, exports[j] # exports[k - 1]
                   PROVE  /\ RevisionOf(exports[j].id) \in Nat
                          /\ RevisionOf(exports[j].id) < RevisionOf(exports[k - 1].id)
        BY <2>7
      <4>1. j # k - 1
        OBVIOUS
      <4>2. j < k - 1
        BY <4>1
      <4>3. QED
        BY <2>3, <2>4, <3>1, <4>2
    <3>4. LatestOf(earlier) = exports[k - 1].id
      BY <2>3, <3>1, <3>2, <3>3, LatestIsLast
    <3>5. record.parent = exports[k - 1].id
      BY <2>1, <2>2, <2>9 DEF LineageOrdered, LineageIsOneChain
    <3>6. QED
      BY <2>6, <3>4, <3>5
  <2>10. QED
    BY <2>8, <2>9
<1>2. QED
  BY <1>1, ExportsAreGoverned, PTL
=============================================================================
