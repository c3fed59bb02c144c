---------------------------- MODULE Reconstruction ----------------------------
(***************************************************************************)
(* reconstruct() read by read (SQLiteCaseStore._reconstruct).  The reads   *)
(* run outside a transaction, so each SELECT sees the last commit of its   *)
(* own moment, while other connections keep writing.  The reader raises as *)
(* soon as two of its reads do not fit; what it returns is therefore       *)
(* expected to be a state that was committed while it was reading.         *)
(*                                                                         *)
(* The writers are those of CaseStore, who may also save graphs early.     *)
(***************************************************************************)
EXTENDS WorkflowRules, Integers, Sequences

CONSTANTS Payloads, Receipts, Requests, Observations, MaxInvocations,
          Foreign, InitialHistories

VARIABLES
    row, events, graphs, invocations, bundles, consumed,   \* the store
    step,        \* the reader's next read
    read,        \* what it has read so far
    committed    \* states of the case committed since it began

Store == INSTANCE CaseStore

ASSUME StoreConstants == Store!StoreConstants

storeVars == <<row, events, graphs, invocations, bundles, consumed>>
vars      == <<storeVars, step, read, committed>>

ReaderSteps == {"idle", "events", "graphs", "materializations", "invocations",
                "bundles", "returned", "raised"}

\* What a DurableCase is made of.
Case == [revision |-> row.revision, graph_revision |-> row.graph_revision,
         events |-> events, graphs |-> graphs]

NothingRead == [row |-> [revision |-> 0, finalized |-> FALSE, graph_revision |-> 0],
                events |-> <<>>, graphs |-> {}]

\* The reader goes on when the check holds, and raises when it does not.
Proceed(check, next) == step' = IF check THEN next ELSE "raised"

\* The reader that begins takes the case row first.
ReadRow ==
    /\ step = "idle"
    /\ committed' = {Case}
    /\ read' = [read EXCEPT !.row = row]
    /\ Proceed(Store!CaseExists, "events")
    /\ UNCHANGED storeVars

\* Mutant: the revision read first is not compared with the events.
ReadEvents_RevisionUnchecked ==
    /\ step = "events"
    /\ read' = [read EXCEPT !.events = events]
    /\ Proceed(read.row.finalized => read.row.graph_revision = Len(events), "graphs")
    /\ UNCHANGED <<storeVars, committed>>

ReadEvents ==
    /\ step = "events"
    /\ read' = [read EXCEPT !.events = events]
    /\ Proceed(/\ read.row.revision = Len(events)
               /\ read.row.finalized <=> Len(events) = CHAIR_EXPLANATION
               /\ read.row.graph_revision <= Len(events)
               /\ read.row.finalized => read.row.graph_revision = Len(events),
               "graphs")
    /\ UNCHANGED <<storeVars, committed>>

\* Mutant: the anchored graph must be there.
ReadGraphs_AnchorDemanded ==
    /\ step = "graphs"
    /\ read' = [read EXCEPT !.graphs = graphs]
    /\ Proceed(graphs = {read.row.graph_revision}, "materializations")
    /\ UNCHANGED <<storeVars, committed>>

\* _load_graph.
ReadGraphs ==
    /\ step = "graphs"
    /\ read' = [read EXCEPT !.graphs = graphs]
    /\ Proceed(/\ graphs = IF read.row.graph_revision = 0 THEN {}
                           ELSE {read.row.graph_revision}
               /\ graphs # {} => Len(read.events) >= EXPERIMENT_EXECUTED,
               "materializations")
    /\ UNCHANGED <<storeVars, committed>>

\* The inventories of constitutions, evidence, reviews and verdicts must be
\* those of the events read: a row of a later event is one too many.  States
\* without a materialization table (follow-up, approval ...) leave no trace.
Materialized(log) ==
    DOMAIN log \cap { METHODOLOGY_REVIEWED, CONSTITUTION_LOCKED, EXPERIMENT_EXECUTED,
                      STATISTICS_REVIEWED, ADVERSARIAL_REVIEWED, REPRODUCIBILITY_VERIFIED,
                      VERDICT_ELIGIBILITY_COMPUTED, CHAIR_EXPLANATION }

EngineEvidence(log) ==
    IF Len(log) >= EXPERIMENT_EXECUTED /\ log[EXPERIMENT_EXECUTED] \in Receipts
    THEN {log[EXPERIMENT_EXECUTED]} ELSE {}

ReadMaterializations ==
    /\ step = "materializations"
    /\ Proceed(/\ Materialized(events) = Materialized(read.events)
               /\ EngineEvidence(read.events) \subseteq {bundles[k] : k \in DOMAIN bundles},
               "invocations")
    /\ UNCHANGED <<storeVars, read, committed>>

\* _verify_provider_invocations against the events read.
ReadInvocations ==
    /\ step = "invocations"
    /\ Proceed(\A record \in Store!Accepted :
                 /\ record.id.revision < Len(read.events)
                 /\ read.events[record.id.revision + 1] = record.result,
               "bundles")
    /\ UNCHANGED <<storeVars, read, committed>>

\* _verify_bundle_chain, in a connection of its own.
ReadBundles ==
    /\ step = "bundles"
    /\ Proceed(Len(bundles) <= 1, "returned")
    /\ UNCHANGED <<storeVars, read, committed>>

\* The caller takes the result or the exception, and may read again.
Finish ==
    /\ step \in {"returned", "raised"}
    /\ step' = "idle"
    /\ read' = NothingRead
    /\ committed' = {}
    /\ UNCHANGED storeVars

Write ==
    /\ Store!Next
    /\ committed' = IF step = "idle" THEN {}
                    ELSE committed \cup
                           {[revision |-> row'.revision, graph_revision |-> row'.graph_revision,
                             events |-> events', graphs |-> graphs']}
    /\ UNCHANGED <<step, read>>

Init ==
    /\ Store!Init
    /\ step = "idle"
    /\ read = NothingRead
    /\ committed = {}

Read ==
    \/ ReadRow
    \/ ReadEvents
    \/ ReadGraphs
    \/ ReadMaterializations
    \/ ReadInvocations
    \/ ReadBundles

Next == Read \/ Finish \/ Write

Spec == Init /\ [][Next]_vars

\* A caller that reads again when it must; nobody is bound to write.
FairSpec == Spec /\ WF_vars(Read) /\ WF_vars(Finish)

(***************************************************************************)
(* Properties.                                                             *)
(***************************************************************************)
\* A reader that returns has not mixed two commits: revision, graph anchor,
\* events and graph belong to one state that was committed during the call.
ReturnsACommittedCase ==
    step = "returned" =>
        [ revision |-> read.row.revision, graph_revision |-> read.row.graph_revision,
          events |-> read.events, graphs |-> read.graphs ] \in committed

\* A readable case that is left alone is read in the end: the reader is never
\* turned away for good by the writes that are behind it.
QuietCaseIsRead ==
    <>[][UNCHANGED storeVars]_vars => []<>(step = "returned" \/ ~Store!Reconstructs(FALSE))
===============================================================================
