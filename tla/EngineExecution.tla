--------------------------- MODULE EngineExecution ---------------------------
(***************************************************************************)
(* execute_and_admit_engine_evidence (storage/service.py): the adapter     *)
(* runs the approved fixture of the C++ engine (engine/local_cpp.py) and   *)
(* issues a one-shot receipt (engine/trust.py); the service binds the run  *)
(* into an evidence bundle, verifies it (evidence/bundle.py) and admits it *)
(* to the store of CaseStore.  An execution is named by its receipt.       *)
(*                                                                         *)
(* An execution takes minutes, in files that are not locked.  While it     *)
(* lasts a developer may check out, edit or rebuild the engine, the child  *)
(* processes may write where they should not, somebody may tidy the work   *)
(* root, the case may move on, and the process may be killed.  The code    *)
(* answers with comparisons: snapshots before and after, hashes after      *)
(* every child, hashes again before admission.                             *)
(*                                                                         *)
(* Abstractions.  What is fetched from a file is that it is as released    *)
(* or altered, so a snapshot or a hash is a set of altered parts; a part   *)
(* altered twice is altered in the same way.  Each snapshot and each pass  *)
(* over a directory reads in one step.  The staged files lie in a private  *)
(* directory (mkdtemp), so only the children of their own execution alter  *)
(* them.                                                                   *)
(***************************************************************************)
EXTENDS WorkflowRules, Integers, Sequences, FiniteSets

CONSTANTS
    Payloads, Receipts, Requests, Observations, MaxInvocations, Foreign,
    InitialHistories,  \* of CaseStore; each receipt is one execution
    MaxCrashes,        \* bound on crashes and interruptions of adapters
    MaxAlterations,    \* bound on alterations and their reversals, by the
                       \* number of executions that have begun
    LastRevision,      \* bound on the progress of the case by others
    MaxGraphs          \* bound on the claim graphs that others save

VARIABLES
    row, events, graphs, invocations, bundles, consumed,
    altered,      \* the parts of repository and executable that are not as released
    staged,       \* the altered parts in the run root of each execution
    results,      \* the output directory of each execution
    child,        \* the child process of each execution
    pc,           \* the next step of each execution
    run,          \* its locals: what it has read so far
    crashes,
    alterations

storeVars == <<row, events, graphs, invocations, bundles, consumed>>
fileVars  == <<altered, staged, results, alterations>>
vars      == <<storeVars, fileVars, child, pc, run, crashes>>

Store == INSTANCE CaseStore

ASSUME StoreConstants == Store!StoreConstants

(***************************************************************************)
(* Files and processes.                                                    *)
(***************************************************************************)
\* APPROVED_CONFIG and APPROVED_INPUTS, and APPROVED_VALIDATOR.
StagedParts == {"inputs", "validator"}

\* What a repository snapshot covers: the approved files, everything else that
\* git status shows, and the files that git ignores.
RepositoryParts == StagedParts \cup {"tree", "ignored"}

Parts == RepositoryParts \cup {"executable"}

\* allowed_commands, in the order in which _execute_fixture runs them, with
\* the parts that each one depends on.
Commands ==
    << [name |-> "version",               uses |-> {"executable"}],
       [name |-> "validate-config",       uses |-> {"executable", "inputs"}],
       [name |-> "print-resolved-config", uses |-> {"executable", "inputs"}],
       [name |-> "dry-run",               uses |-> {"executable", "inputs"}],
       [name |-> "experiment",            uses |-> {"executable", "inputs"}],
       [name |-> "validate-results",      uses |-> {"inputs", "validator"}] >>

NoReceipt == [revision |-> 0, inputs |-> {}, outputs |-> "nothing", facts |-> "nothing"]

\* No row of the case has been read.
NoRow == [revision |-> 0, finalized |-> FALSE, graph_revision |-> 0]

\* The locals of a call.  tainted, undone, slipped and flips are history: the
\* altered parts that a child depended on, the parts whose alteration was
\* undone since the call began, whether the results changed between the end of
\* their validator and their inventory, and how often they changed after it.
NoRun ==
    [ seen |-> <<>>, before |-> {}, stagedBefore |-> {}, command |-> 1,
      validated |-> "nothing", inventory |-> "nothing", facts |-> "nothing",
      receipt |-> NoReceipt, row |-> NoRow,
      tainted |-> {}, undone |-> {}, slipped |-> FALSE, flips |-> 0 ]

Goto(t, step) == pc' = [pc EXCEPT ![t] = step]

\* An exception leaves the service; the run root stays behind.
Raise(t) == Goto(t, "raised") /\ run' = [run EXCEPT ![t] = NoRun]

\* An exception that is raised while the child runs leaves the child running.
Ended == {"idle", "raised", "interrupted", "crashed", "returned"}

\* The evidence is on record; the case is read again for the answer.
Answering == {"answer", "answer log", "answer graph"}

RepositorySnapshot == altered \cap RepositoryParts

ExecutableApproved == "executable" \notin altered

\* verify_release_identity up to the executable: a clean tree and, in the
\* approved paths, no difference from the release.
ReleaseApproved == altered \cap (StagedParts \cup {"tree"}) = {}

\* _copy_bounded_regular_file for each approved file.
CopiedFiles == altered \cap StagedParts

StagedSnapshot(t) == staged[t]

AlteredParts(t) == staged[t] \cup (altered \cap {"executable"})

(***************************************************************************)
(* The execution.                                                          *)
(***************************************************************************)
\* execute_and_admit_engine_evidence up to the adapter.
Start(t) ==
    /\ pc[t] = "idle"
    /\ Store!Reconstructs(TRUE)
    /\ Len(events) = CONSTITUTION_LOCKED
    /\ bundles = <<>>
    /\ run' = [run EXCEPT ![t].seen = events]
    /\ Goto(t, "snapshot")
    /\ UNCHANGED <<storeVars, fileVars, child, crashes>>

SnapshotBefore(t) ==
    /\ pc[t] = "snapshot"
    /\ run' = [run EXCEPT ![t].before = RepositorySnapshot]
    /\ Goto(t, "identity")
    /\ UNCHANGED <<storeVars, fileVars, child, crashes>>

VerifyRelease(t) ==
    /\ pc[t] = "identity"
    /\ IF ReleaseApproved /\ ExecutableApproved
       THEN Goto(t, "launch") /\ UNCHANGED run
       ELSE Raise(t)
    /\ UNCHANGED <<storeVars, fileVars, child, crashes>>

\* `if self._repository_snapshot() != repository_before`, the first time.
SnapshotAgain(t) ==
    /\ pc[t] = "snapshot again"
    /\ IF RepositorySnapshot = run[t].before
       THEN Goto(t, "stage") /\ UNCHANGED run
       ELSE Raise(t)
    /\ UNCHANGED <<storeVars, fileVars, child, crashes>>

\* _stage_inputs, and the snapshot of what was staged.
StageInputs(t) ==
    /\ pc[t] = "stage"
    /\ staged' = [staged EXCEPT ![t] = CopiedFiles]
    /\ run' = [run EXCEPT ![t].stagedBefore = CopiedFiles, ![t].command = 2]
    /\ Goto(t, "launch")
    /\ UNCHANGED <<storeVars, altered, results, alterations, child, crashes>>

\* _execute_process: Popen.
Launch(t) ==
    /\ pc[t] = "launch"
    /\ child' = [child EXCEPT ![t] = "running"]
    /\ run' = [run EXCEPT ![t].tainted =
                 @ \cup (AlteredParts(t) \cap Commands[run[t].command].uses)]
    /\ Goto(t, "waiting")
    /\ UNCHANGED <<storeVars, fileVars, crashes>>

\* Mutant: the process is not killed when its time is over.
KillChild_LeftRunning(t) ==
    /\ pc[t] = "waiting" /\ child[t] = "running"
    /\ Raise(t)
    /\ UNCHANGED <<storeVars, fileVars, child, crashes>>

\* The deadline has passed, or there is too much output: _terminate_process.
KillChild(t) ==
    /\ pc[t] = "waiting" /\ child[t] = "running"
    /\ child' = [child EXCEPT ![t] = "none"]
    /\ Raise(t)
    /\ UNCHANGED <<storeVars, fileVars, crashes>>

\* The child has ended; its exit code and its output are looked at.  Nothing
\* else is checked after the version command.
Collect(t) ==
    /\ pc[t] = "waiting" /\ child[t] \in {"succeeded", "failed"}
    /\ child' = [child EXCEPT ![t] = "none"]
    /\ IF child[t] = "failed"
       THEN Raise(t)
       ELSE /\ Goto(t, IF run[t].command = 1 THEN "snapshot again" ELSE "check")
            /\ run' = [run EXCEPT ![t].validated =
                         IF run[t].command = Len(Commands) THEN results[t] ELSE @]
    /\ UNCHANGED <<storeVars, fileVars, crashes>>

\* Mutant: only the executable is checked, not the staged files.
IdentityUnchanged_ExecutableOnly(t) == ExecutableApproved

\* _verify_post_child_identity.
IdentityUnchanged(t) ==
    /\ StagedSnapshot(t) = run[t].stagedBefore
    /\ ExecutableApproved
    /\ "validator" \in altered <=> "validator" \in staged[t]

CheckIdentity(t) ==
    /\ pc[t] = "check"
    /\ IF ~IdentityUnchanged(t)
       THEN Raise(t)
       ELSE IF run[t].command < Len(Commands)
            THEN Goto(t, "launch") /\ run' = [run EXCEPT ![t].command = @ + 1]
            ELSE Goto(t, "boundary") /\ UNCHANGED run
    /\ UNCHANGED <<storeVars, fileVars, child, crashes>>

\* A child wrote outside of the run boundary.
BoundaryCrossed(t) ==
    /\ pc[t] = "boundary"
    /\ Raise(t)
    /\ UNCHANGED <<storeVars, fileVars, child, crashes>>

\* The children kept to the run boundary, and the repository is as before.
SnapshotAfter(t) ==
    /\ pc[t] = "boundary"
    /\ IF RepositorySnapshot = run[t].before
       THEN Goto(t, "inventory") /\ UNCHANGED run
       ELSE Raise(t)
    /\ UNCHANGED <<storeVars, fileVars, child, crashes>>

\* _inventory_outputs.
InventoryOutputs(t) ==
    /\ pc[t] = "inventory"
    /\ run' = [run EXCEPT ![t].inventory = results[t]]
    /\ Goto(t, "facts")
    /\ UNCHANGED <<storeVars, fileVars, child, crashes>>

\* Artifacts are refused for their type, size, schema version or syntax.
OutputsMalformed(t) ==
    /\ pc[t] \in {"inventory", "facts"}
    /\ Raise(t)
    /\ UNCHANGED <<storeVars, fileVars, child, crashes>>

\* _extract_numeric_facts.
ExtractFacts(t) ==
    /\ pc[t] = "facts"
    /\ run' = [run EXCEPT ![t].facts = results[t]]
    /\ Goto(t, "receipt")
    /\ UNCHANGED <<storeVars, fileVars, child, crashes>>

\* What a receipt binds: the revision of the case and the identity of the run.
ReceiptRecord(t) ==
    [ revision |-> Len(run[t].seen), inputs |-> run[t].stagedBefore,
      outputs |-> run[t].inventory, facts |-> run[t].facts ]

\* The validator has passed, or its exit code would have ended the execution.
IssueReceipt(t) ==
    /\ pc[t] = "receipt"
    /\ run' = [run EXCEPT ![t].receipt = ReceiptRecord(t)]
    /\ Goto(t, "verify inventory")
    /\ UNCHANGED <<storeVars, fileVars, child, crashes>>

(***************************************************************************)
(* The admission.                                                          *)
(***************************************************************************)
\* Mutant: the bundle's hashes are not compared with the files again.
VerifyInventory_Trusted(t) ==
    /\ pc[t] = "verify inventory"
    /\ Goto(t, "verify facts") /\ UNCHANGED run
    /\ UNCHANGED <<storeVars, fileVars, child, crashes>>

InventoryMatches(t) == results[t] = run[t].inventory

\* verify_evidence_bundle; its bindings compare the bundle with the run it was
\* made of.
VerifyInventory(t) ==
    /\ pc[t] = "verify inventory"
    /\ IF InventoryMatches(t)
       THEN Goto(t, "verify facts") /\ UNCHANGED run
       ELSE Raise(t)
    /\ UNCHANGED <<storeVars, fileVars, child, crashes>>

\* The fields that the facts cite are read from the files again.
VerifyFacts(t) ==
    /\ pc[t] = "verify facts"
    /\ IF results[t] = run[t].facts
       THEN Goto(t, "verify sources") /\ UNCHANGED run
       ELSE Raise(t)
    /\ UNCHANGED <<storeVars, fileVars, child, crashes>>

\* verify_source_artifact.
SourceMatches(t) == results[t] = run[t].inventory

\* An evidence object for each artifact that holds facts.
VerifySources(t) ==
    /\ pc[t] = "verify sources"
    /\ IF SourceMatches(t)
       THEN Goto(t, "consume") /\ UNCHANGED run
       ELSE Raise(t)
    /\ UNCHANGED <<storeVars, fileVars, child, crashes>>

\* _consume: the receipt binds the run and the revision that the bundle names.
ConsumeReceipt(t) ==
    /\ pc[t] = "consume"
    /\ IF run[t].receipt = ReceiptRecord(t) /\ t \notin consumed
       THEN Goto(t, "admit") /\ UNCHANGED run
       ELSE Raise(t)
    /\ UNCHANGED <<storeVars, fileVars, child, crashes>>

\* Mutant: an admission that is refused is not noticed.
Admit_RefusalIgnored(t) ==
    /\ pc[t] = "admit"
    /\ Store!admit_evidence_bundle(t, run[t].seen)
    /\ Goto(t, "answer")
    /\ UNCHANGED <<run, fileVars, child, crashes>>

\* The event and the bundle are offered to the store, with the capability that
\* the receipt gave.
Admit(t) ==
    /\ pc[t] = "admit"
    /\ Store!admit_evidence_bundle(t, run[t].seen)
    /\ IF Store!BundleAccepted(t, run[t].seen)
       THEN Goto(t, "answer") /\ UNCHANGED run
       ELSE Raise(t)
    /\ UNCHANGED <<fileVars, child, crashes>>

\* The result holds the case as reconstruct reads it once more, in separate
\* statements (Reconstruction): first the row of the case,
ReadRow(t) ==
    /\ pc[t] = "answer"
    /\ run' = [run EXCEPT ![t].row = row]
    /\ Goto(t, "answer log")
    /\ UNCHANGED <<storeVars, fileVars, child, crashes>>

\* then the log, which must be as long as the row says,
ReadLog(t) ==
    /\ pc[t] = "answer log"
    /\ IF Len(events) = run[t].row.revision
       THEN Goto(t, "answer graph") /\ UNCHANGED run
       ELSE Raise(t)
    /\ UNCHANGED <<storeVars, fileVars, child, crashes>>

\* _load_graph: the graph that the row read before anchors, and no other.
GraphIsAnchored(t) ==
    graphs = IF run[t].row.graph_revision = 0 THEN {} ELSE {run[t].row.graph_revision}

\* then the graph, and the tables, which may show that the case has moved on.
Answer(t) ==
    /\ pc[t] = "answer graph"
    /\ \/ GraphIsAnchored(t) /\ Goto(t, "returned") /\ UNCHANGED run
       \/ ~GraphIsAnchored(t) /\ Raise(t)
       \/ Len(events) > run[t].row.revision /\ Raise(t)
    /\ UNCHANGED <<storeVars, fileVars, child, crashes>>

\* The bundle cannot be built, or the state machine refuses its event: clock
\* readings are not in order, or an inventory is not what the models demand.
BundleRefused(t) ==
    /\ pc[t] \in {"verify inventory", "consume"}
    /\ Raise(t)
    /\ UNCHANGED <<storeVars, fileVars, child, crashes>>

(***************************************************************************)
(* The world.                                                              *)
(***************************************************************************)
\* A child ends; the experiment leaves its results.
ChildEnds(t) ==
    /\ child[t] = "running"
    /\ \E status \in {"succeeded", "failed"} :
         /\ child' = [child EXCEPT ![t] = IF pc[t] = "waiting" THEN status ELSE "none"]
         /\ results' = [results EXCEPT ![t] =
              IF /\ status = "succeeded" /\ pc[t] = "waiting"
                 /\ Commands[run[t].command].name = "experiment"
              THEN "produced" ELSE @]
    /\ UNCHANGED <<storeVars, altered, staged, alterations, pc, run, crashes>>

Toggle(set, part) == IF part \in set THEN set \ {part} ELSE set \cup {part}

Begun == Cardinality({ t \in Receipts : pc[t] # "idle" })

Alteration ==
    /\ alterations < MaxAlterations[Begun]
    /\ alterations' = alterations + 1
    /\ UNCHANGED <<storeVars, child, pc, crashes>>

\* A developer edits, checks out or rebuilds the engine, or takes it back.
AlterEngine(part) ==
    /\ Alteration
    /\ \E t \in Receipts : pc[t] \notin Ended
    /\ altered' = Toggle(altered, part)
    /\ run' = [t \in Receipts |->
         IF pc[t] \notin Ended /\ part \in altered
         THEN [run[t] EXCEPT !.undone = @ \cup {part}] ELSE run[t]]
    /\ UNCHANGED <<staged, results>>

\* A child alters the files that were staged for it.
AlterStaged(t, part) ==
    /\ Alteration
    /\ pc[t] = "waiting" /\ child[t] = "running" /\ run[t].command > 1
    /\ staged' = [staged EXCEPT ![t] = Toggle(@, part)]
    /\ run' = [run EXCEPT
         ![t].tainted = IF part \in staged'[t] THEN @ \cup {part} ELSE @,
         ![t].undone = IF part \in staged[t] THEN @ \cup {part} ELSE @]
    /\ UNCHANGED <<altered, results>>

\* Somebody alters the results, or takes it back.
AlterResults(t) ==
    /\ Alteration
    /\ pc[t] \notin Ended \cup Answering /\ results[t] # "nothing"
    /\ results' = [results EXCEPT ![t] = IF @ = "produced" THEN "changed" ELSE "produced"]
    /\ run' = [run EXCEPT
         ![t].slipped = @ \/ (run[t].validated # "nothing" /\ run[t].inventory = "nothing"),
         ![t].flips = IF run[t].inventory # "nothing" THEN @ + 1 ELSE @]
    /\ UNCHANGED <<altered, staged>>

\* The output files cannot be looked at, the call is interrupted, or the child
\* does not go within five seconds of its kill: the polling loop has no
\* try/finally, so the exception leaves the service and the child runs on.
LeaveChild(t) ==
    /\ pc[t] = "waiting" /\ child[t] = "running"
    /\ crashes < MaxCrashes
    /\ crashes' = crashes + 1
    /\ Goto(t, "interrupted")
    /\ run' = [run EXCEPT ![t] = NoRun]
    /\ UNCHANGED <<storeVars, fileVars, child>>

\* The adapter's process is killed; a child runs on by itself.
Crash(t) ==
    /\ pc[t] \notin Ended
    /\ crashes < MaxCrashes
    /\ crashes' = crashes + 1
    /\ Goto(t, "crashed")
    /\ run' = [run EXCEPT ![t] = NoRun]
    /\ UNCHANGED <<storeVars, fileVars, child>>

\* Somebody else advances the case; evidence may also come from a log that
\* was built without the engine.
OthersAppend ==
    /\ Len(events) < LastRevision
    /\ \E payload \in Payloads : Store!append_event(events, payload, Len(events))
    /\ UNCHANGED <<fileVars, child, pc, run, crashes>>

\* Somebody else saves a claim graph of the case.
OthersSaveGraph ==
    /\ Cardinality(graphs) < MaxGraphs
    /\ \E expected \in 1..row.revision : Store!save_claim_graph(expected)
    /\ UNCHANGED <<fileVars, child, pc, run, crashes>>

Init ==
    /\ Store!Init
    /\ altered = {}
    /\ staged = [t \in Receipts |-> {}]
    /\ results = [t \in Receipts |-> "nothing"]
    /\ child = [t \in Receipts |-> "none"]
    /\ pc = [t \in Receipts |-> "idle"]
    /\ run = [t \in Receipts |-> NoRun]
    /\ crashes = 0
    /\ alterations = 0

Step(t) ==
    \/ SnapshotBefore(t)
    \/ VerifyRelease(t)
    \/ SnapshotAgain(t)
    \/ StageInputs(t)
    \/ Launch(t)
    \/ KillChild(t)
    \/ Collect(t)
    \/ CheckIdentity(t)
    \/ BoundaryCrossed(t)
    \/ SnapshotAfter(t)
    \/ InventoryOutputs(t)
    \/ OutputsMalformed(t)
    \/ ExtractFacts(t)
    \/ IssueReceipt(t)
    \/ VerifyInventory(t)
    \/ VerifyFacts(t)
    \/ VerifySources(t)
    \/ ConsumeReceipt(t)
    \/ Admit(t)
    \/ ReadRow(t)
    \/ ReadLog(t)
    \/ Answer(t)
    \/ BundleRefused(t)

World ==
    \/ \E t \in Receipts : ChildEnds(t) \/ AlterResults(t) \/ LeaveChild(t) \/ Crash(t)
    \/ \E t \in Receipts, part \in StagedParts : AlterStaged(t, part)
    \/ \E part \in Parts : AlterEngine(part)
    \/ OthersAppend
    \/ OthersSaveGraph

Next ==
    \/ World
    \/ \E t \in Receipts : Step(t)
    \/ \E t \in Receipts : alterations <= MaxAlterations[Begun + 1] /\ Start(t)

Spec == Init /\ [][Next]_vars

\* An adapter goes on: its waiting ends with the child or at the deadline.
FairSpec == Spec /\ \A t \in Receipts : WF_vars(Step(t))

(***************************************************************************)
(* Properties.                                                             *)
(***************************************************************************)
\* The steps at which an execution has issued its receipt.
Trusted ==
    { "verify inventory", "verify facts", "verify sources", "consume", "admit", "returned" }
    \cup Answering

\* An engine, an input or a validator that is not the released one does not
\* get a receipt, wherever between the first snapshot and the last one it was
\* altered, by whom, and whichever child used it, unless the alteration was
\* undone while the execution was under way.
LastingAlterationIsNoticed ==
    \A t \in Receipts : pc[t] \in Trusted => run[t].tainted \subseteq run[t].undone

\* What is admitted is what the release's validator accepted: the results on
\* record are those it read, unless they changed before they were hashed, and
\* the facts are read from them, unless the results changed to and fro three
\* times between the hashes that surround the facts.
EvidenceWasValidated ==
    \A t \in Receipts :
        pc[t] \in {"consume", "admit", "returned"} \cup Answering =>
            /\ run[t].inventory = run[t].validated \/ run[t].slipped
            /\ run[t].facts = run[t].inventory \/ run[t].flips >= 3

\* A caller learns what became of its execution: the result is returned only
\* when it is the evidence of the case, and an exception means that it is not,
\* except that others may have moved the case on, or saved a claim graph of
\* it, between admission and answer.
OutcomeIsKnown ==
    \A t \in Receipts :
        LET admitted == bundles = <<t>> /\ events[EXPERIMENT_EXECUTED] = t
        IN  /\ pc[t] \in Answering \cup {"returned"} => admitted
            /\ pc[t] \in {"raised", "interrupted"} /\ admitted =>
                 Len(events) > EXPERIMENT_EXECUTED \/ graphs # {}

\* An execution ends, and no process of it goes on, whatever the engine does:
\* only a killed adapter, or one that is interrupted in the polling of its
\* child, leaves a child behind.
ExecutionsEnd ==
    \A t \in Receipts :
        pc[t] = "snapshot" ~> \/ pc[t] \in {"returned", "raised"} /\ child[t] # "running"
                              \/ pc[t] \in {"interrupted", "crashed"}
=============================================================================
