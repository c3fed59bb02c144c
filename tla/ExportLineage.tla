---------------------------- MODULE ExportLineage ----------------------------
(***************************************************************************)
(* export_durable_case (storage/export.py) and the export lineage of the   *)
(* store (record_export, latest_export, _verify_export_chain).             *)
(*                                                                         *)
(* An export reads the case, its bundles, its own earlier record and the   *)
(* latest record in four separate connections, renames a finished package  *)
(* directory into place, and only then records the manifest; the case      *)
(* changes and other exporters run in between.  A failing record_export    *)
(* removes the package again, a crash does not.                            *)
(*                                                                         *)
(* An export's identity is a hash of all that was read: the audit log, the *)
(* graph anchor and the bundles; the case, its ledger and its evidence are *)
(* functions of the log.  Hashes have no order of their own: which of two  *)
(* identifiers of one revision sorts last is chosen at the beginning.      *)
(* Manifests are records, and their hash is injective: a package is its    *)
(* manifest, and verify_case_package is a predicate of it.  The case       *)
(* changes as CaseStore lets its callers change it.                        *)
(***************************************************************************)
EXTENDS WorkflowRules, Integers, Sequences

CONSTANTS
    Exporters,           \* concurrent calls; each writes a directory of its own
    MaxCrashes,          \* bound on crashes of exporters
    Payloads, Receipts, Requests, Observations, MaxInvocations,
    Foreign, InitialHistories

ASSUME MaxCrashesAssumption == MaxCrashes \in Nat

VARIABLES
    row, events, graphs, invocations, bundles, consumed,   \* the store's case
    exports,       \* exports, in the order they were recorded
    graphIdLast,   \* does the identifier of an export with a graph sort last?
    pc, durable, parent,   \* of each exporter
    package,       \* the package directory an exporter left, if any
    crashes

Store == INSTANCE CaseStore

ASSUME StoreConstants == Store!StoreConstants

storeVars    == <<row, events, graphs, invocations, bundles, consumed>>
exporterVars == <<pc, durable, parent, package, crashes>>
vars         == <<storeVars, exports, graphIdLast, exporterVars>>

\* _export_id hashes the audit log, the graph anchor and the bundles.
ExportId(log, anchor, of) == [log |-> log, graph_revision |-> anchor, bundles |-> of]

\* The parent of a first export: GENESIS_BUNDLE_HASH.
Genesis == ExportId(<<>>, 0, <<>>)

RevisionOf(id) == Len(id.log)

\* ORDER BY revision, export_id.
Before(id, other) ==
    \/ RevisionOf(id) < RevisionOf(other)
    \/ /\ RevisionOf(id) = RevisionOf(other)
       /\ id # other
       /\ (id.graph_revision = 0) <=> graphIdLast

Exported == { exports[k] : k \in DOMAIN exports }

\* The manifest that is listed last among the records.
LatestOf(records) ==
    IF records = {}
    THEN Genesis
    ELSE (CHOOSE record \in records :
             \A other \in records \ {record} : Before(other.id, record.id)).id

\* Mutant: the lineage is listed in ascending order.
LatestManifest_Ascending ==
    IF Exported = {}
    THEN Genesis
    ELSE (CHOOSE record \in Exported :
             \A other \in Exported \ {record} : Before(record.id, other.id)).id

\* latest_export, and the parent it gives to the next one.
LatestManifest == LatestOf(Exported)

Recorded(id) == { record \in Exported : record.id = id }

Goto(exporter, step) == pc' = [pc EXCEPT ![exporter] = step]

\* The call is over: what it had read is gone.
Leave(exporter, step) ==
    /\ Goto(exporter, step)
    /\ durable' = [durable EXCEPT ![exporter] = Genesis]
    /\ parent' = [parent EXCEPT ![exporter] = Genesis]

\* reconstruct; a graph of an older revision is refused.
ReadCase(exporter) ==
    /\ pc[exporter] = "idle"
    /\ Store!Reconstructs(FALSE)
    /\ row.graph_revision \in {0, row.revision}
    /\ durable' = [durable EXCEPT ![exporter] = ExportId(events, row.graph_revision, <<>>)]
    /\ Goto(exporter, "bundles")
    /\ UNCHANGED <<storeVars, exports, graphIdLast, parent, package, crashes>>

\* list_evidence_bundles.
ListBundles(exporter) ==
    /\ pc[exporter] = "bundles"
    /\ durable' = [durable EXCEPT ![exporter].bundles = bundles]
    /\ Goto(exporter, "find")
    /\ UNCHANGED <<storeVars, exports, graphIdLast, parent, package, crashes>>

\* find_export: the parent on record is used again.
FindExport(exporter) ==
    /\ pc[exporter] = "find"
    /\ IF Recorded(durable[exporter]) = {}
       THEN /\ Goto(exporter, "latest")
            /\ UNCHANGED parent
       ELSE /\ \E record \in Recorded(durable[exporter]) :
                 parent' = [parent EXCEPT ![exporter] = record.parent]
            /\ Goto(exporter, "write")
    /\ UNCHANGED <<storeVars, exports, graphIdLast, durable, package, crashes>>

LatestExport(exporter) ==
    /\ pc[exporter] = "latest"
    /\ parent' = [parent EXCEPT ![exporter] = LatestManifest]
    /\ Goto(exporter, "write")
    /\ UNCHANGED <<storeVars, exports, graphIdLast, durable, package, crashes>>

Manifest(exporter) == [id |-> durable[exporter], parent |-> parent[exporter]]

\* _write_package: the directory appears in one rename.
WritePackage(exporter) ==
    /\ pc[exporter] = "write"
    /\ package' = [package EXCEPT ![exporter] = {Manifest(exporter)}]
    /\ Goto(exporter, "record")
    /\ UNCHANGED <<storeVars, exports, graphIdLast, durable, parent, crashes>>

\* Mutant: the parent is not compared with the latest manifest.
Recordable_ParentUnchecked(record) ==
    /\ row.revision = RevisionOf(record.id)
    /\ Recorded(record.id) # {} => record \in Recorded(record.id)

\* Mutant: the case may have moved on since it was read.
Recordable_RevisionUnchecked(record) ==
    IF Recorded(record.id) # {}
    THEN record \in Recorded(record.id)
    ELSE record.parent = LatestManifest

\* record_export: the identical record is there, or the manifest extends the
\* lineage.
Recordable(record) ==
    /\ row.revision = RevisionOf(record.id)
    /\ IF Recorded(record.id) # {}
       THEN record \in Recorded(record.id)
       ELSE record.parent = LatestManifest

RecordExport(exporter) ==
    LET record == Manifest(exporter)
    IN  /\ pc[exporter] = "record"
        /\ Recordable(record)
        /\ exports' = IF Recorded(record.id) # {} THEN exports ELSE Append(exports, record)
        /\ Goto(exporter, "returned")
        /\ UNCHANGED <<storeVars, graphIdLast, durable, parent, package, crashes>>

\* Mutant: the package of a refused export stays.
RecordRefused_PackageKept(exporter) ==
    /\ pc[exporter] = "record"
    /\ ~Recordable(Manifest(exporter))
    /\ Leave(exporter, "idle")
    /\ UNCHANGED <<storeVars, exports, graphIdLast, package, crashes>>

\* record_export raises: the package is removed and the call raises.
RecordRefused(exporter) ==
    /\ pc[exporter] = "record"
    /\ ~Recordable(Manifest(exporter))
    /\ package' = [package EXCEPT ![exporter] = {}]
    /\ Leave(exporter, "idle")
    /\ UNCHANGED <<storeVars, exports, graphIdLast, crashes>>

\* The caller takes the package away and exports again, to a new directory.
Collect(exporter) ==
    /\ pc[exporter] = "returned"
    /\ package' = [package EXCEPT ![exporter] = {}]
    /\ Leave(exporter, "idle")
    /\ UNCHANGED <<storeVars, exports, graphIdLast, crashes>>

\* The process ends; a directory that was renamed into place stays.
Crash(exporter) ==
    /\ pc[exporter] \notin {"idle", "returned", "crashed"}
    /\ crashes < MaxCrashes
    /\ crashes' = crashes + 1
    /\ Leave(exporter, "crashed")
    /\ UNCHANGED <<storeVars, exports, graphIdLast, package>>

(***************************************************************************)
(* Verification.                                                           *)
(***************************************************************************)
\* _verify_export_chain accepts: every export names the one that is listed
\* before it.
ExportChainVerifies ==
    \A record \in Exported :
        record.parent = LatestOf({ other \in Exported : Before(other.id, record.id) })

\* The bundles that engine evidence of the log names; other evidence names
\* none.
EvidenceBundles(log) == { log[k] : k \in DOMAIN log } \cap Receipts

\* verify_case_package, where the checks are not a matter of hashes: the
\* bundles are one chain of the revision that executed the experiment and
\* are those the evidence names, and a graph is of the revision itself,
\* needs evidence and may not be missing from a complete case.
PackageVerifies(manifest) ==
    LET id       == manifest.id
        executed == RevisionOf(id) >= EXPERIMENT_EXECUTED
        complete == RevisionOf(id) = CHAIR_EXPLANATION
    IN  /\ id.bundles # <<>> => executed
        /\ Len(id.bundles) <= 1
        /\ {id.bundles[k] : k \in DOMAIN id.bundles} = EvidenceBundles(id.log)
        /\ id.graph_revision # 0 => executed
        /\ id.graph_revision \in {0, RevisionOf(id)}
        /\ complete => id.graph_revision # 0

\* Other clients advance the case, admit engine evidence or anchor a graph.
CaseChanges ==
    /\ \/ Store!CallAppend
       \/ Store!CallAdmit
       \/ Store!CallSaveGraph
    /\ UNCHANGED <<exports, graphIdLast, exporterVars>>

Init ==
    /\ Store!Init
    /\ exports = <<>>
    /\ graphIdLast \in BOOLEAN
    /\ pc = [exporter \in Exporters |-> "idle"]
    /\ durable = [exporter \in Exporters |-> Genesis]
    /\ parent = [exporter \in Exporters |-> Genesis]
    /\ package = [exporter \in Exporters |-> {}]
    /\ crashes = 0

ExporterStep(exporter) ==
    \/ ReadCase(exporter)
    \/ ListBundles(exporter)
    \/ FindExport(exporter)
    \/ LatestExport(exporter)
    \/ WritePackage(exporter)
    \/ RecordExport(exporter)
    \/ RecordRefused(exporter)
    \/ Collect(exporter)

Next ==
    \/ \E exporter \in Exporters : ExporterStep(exporter) \/ Crash(exporter)
    \/ CaseChanges

Spec == Init /\ [][Next]_vars

(***************************************************************************)
(* Properties.                                                             *)
(***************************************************************************)
\* Every recorded export extends the one that was recorded before it: the
\* lineage never forks and never skips, whatever exporters race and whatever
\* happens to the case meanwhile.
LineageIsOneChain ==
    \A k \in DOMAIN exports :
        exports[k].parent = IF k = 1 THEN Genesis ELSE exports[k - 1].id

\* The store's verification accepts every lineage in which no revision was
\* exported both without and with a graph.
VerifiesWithoutLateGraph ==
    (\A j, k \in DOMAIN exports :
        RevisionOf(exports[j].id) = RevisionOf(exports[k].id) => j = k) => ExportChainVerifies

\* A package that stands while no call is working on it is the one on record,
\* unless the exporter that wrote it crashed: refused exports leave nothing.
StandingPackageIsRecorded ==
    \A exporter \in Exporters :
        pc[exporter] \notin {"record", "crashed"}
          => package[exporter] \subseteq Exported

\* What was read in separate connections belongs together once it is on
\* record: anyone who gets the package of a recorded export can verify it
\* without the store.
RecordedPackageVerifies == \A k \in DOMAIN exports : PackageVerifies(exports[k])

\* docs/DETERMINISM.md: "Parent lineage is the prior durable manifest", as
\* verify() reads it back.
ParentIsPriorManifest == ExportChainVerifies
=============================================================================
