# QuantForge: TLA+ models and proofs

QuantForge runs a *tribunal* over a research claim.  A claim is received, a
protocol is proposed, reviewed and approved by a human, locked as a
constitution, executed by a trusted engine, reviewed statistically,
adversarially and for reproducibility, and finally judged by a deterministic
policy whose verdict a Chair may explain and not change.  Language-model
providers may write the reviews; code owns every transition, every hash and the
verdict.  This directory models the parts of `src/quantforge` that keep that
promise and checks them with TLC and TLAPS.  Paths below are relative to
`src/quantforge` of the package unless they begin with `docs/`.

## 1. Inventory

| Part | State | Operations | What makes it correct |
|---|---|---|---|
| Workflow rules (`workflow/rules.py`) | none: one table of source, target, actor, actions | `require_transition_authority` | one table serves live steps, replay and the store |
| State machine (`workflow/machine.py`) | the current `TribunalCase` and its `AuditLog` | `advance`, `skip_follow_up`, `complete_follow_up` | the case is always the replay of the log |
| Audit log (`audit/log.py`) | a list of hash-chained events | `append` (with roll-back), `verify`, `replay_case(s)` | a log that verifies yields one case, and policy inputs are derived from it |
| Domain models (`domain/models.py`, `constitution.py`) | immutable documents | validators, `validated_model_update` | cross-field and cross-document rules hold in every case that exists |
| Verdict policy (`verdict/policy.py`) | none | `compute` | branch order never lets a failure help a claim |
| Evidence ledger (`evidence/ledger.py`) | evidence bound to a case and constitution | `append`, `validate_reference`, `snapshot` | bound to the locked constitution; only validated evidence is decisive |
| Claim graph (`evidence/graph.py`) | typed nodes and edges | `add_node`, `add_edge`, `snapshot`, traceability checks | acyclic; a final claim traces to validated evidence; what is stored can be read |
| Evidence bundles (`evidence/bundle.py`) | one inventory of artifacts per execution | building, `verify_evidence_bundle` | the facts of a bundle are read from the artifacts it names |
| Durable store (`storage/sqlite.py`, `base.py`) | one SQLite file: cases, events, materializations, bundles, graphs, invocations, exports, migrations | `create_case`, `append_event`, `record_provider_invocation`, `admit_evidence_bundle`, `save_claim_graph`, `record_export`, `reconstruct`, `verify` | rows only grow and stay consistent with the event log |
| Schema migrations (`storage/sqlite.py`) | version fields, migration history and schema objects of the file | `initialize`, `migrate` (and its dry run), `inspect` | the file is a store of exactly one version, or is left alone |
| Storage service (`storage/service.py`) | none of its own | `persist_audited_case`, `execute_and_admit_engine_evidence` | what it leaves is readable |
| Execution receipts (`engine/trust.py`) | consumed flags under a lock | `_consume`, `consume` | one execution, one admission |
| Export (`storage/export.py`) | package directories, export rows | `export_durable_case`, `verify_case_package` | one lineage of immutable manifests; a package that stands is on record |
| Orchestrator (`roles/orchestrator.py`, `requests.py`) | local variables of a call | `invoke_and_advance`, `replay_accepted` | retries and races never become votes |
| Provider transport (`providers/*`) | attempts of one group | `invoke` | bounded retries, classified failures |
| Role contracts (`roles/governance.py`, `requests.py`, `validation.py`) | none: a table and checks | `RoleRequestBuilder.build`, `validate_role_output` | what is asked can be answered, what is accepted obeys the contract |
| Engine adapter (`engine/local_cpp.py`) | a run root, snapshots, child processes | `validate`, `execute`, `validate_outputs` | released inputs and validated output, or nothing |
| Evaluation (`evaluation/*`) | results, checkpoints, a call budget | `run`, `score`, `authorize`, `consume` | the budget is a ceiling |
| Serialization, CLI, demos, scripts, fixtures | none or files | | encoding and reporting |

Interactions.  The machine owns a log, which replays through the rules, the
domain validators, the ledger and the policy.  The store loads the log on every
append, replays it with the new event and writes event, materialization and
case row in one transaction.  The orchestrator, the storage service and the
exporter are *clients* of the store: each reads in one or several connections,
works for a while (a provider call may take seconds, an engine run minutes) and
writes under the revision it read.  Nothing but the expected revision and the
constraints of the tables protects a client from another one.

Hard behaviours: the two separate inputs of `advance` (payload and updates);
stale reads under the compare-and-set; the several transactions of
`persist_audited_case`; reads outside a transaction; crashes between commit and
return and between rename and record; one-shot capabilities that a refused
transaction burns; identifiers numbered before a call and used after it; an
order of exports by hash; files that change under a running engine; a store
file that is migrated or replaced under open connections; the branch order of
the policy.  `PROJECT.json` lists
each as a hazard at its line with the properties that watch it.

## 2. Modules

| Module | Models | State ↔ code |
|---|---|---|
| `WorkflowRules` | `workflow/rules.py` | a workflow state is its position in the enumeration, which is what the code compares |
| `VerdictPolicy` | `VerdictInputs`, `VerdictPolicy.compute` | a record per inputs object |
| `PolicyGates` | the policy explored gate by gate | `inputs`, and a bounded count of `failures` |
| `GovernedCase` | `StateMachine`, `AuditLog`, `TribunalCase` | `case` is `StateMachine.case`, `events` is `AuditLog._events` |
| `CaseStore` | the writes of `SQLiteCaseStore` for one case | `row` is the row of `cases`; `events`, `graphs`, `invocations`, `bundles` are the tables; `consumed` the used-up receipts |
| `CaseLedger` | abstract: an append-only log with votes | `CaseStore!ImplementsLedger` is the refinement (`log <- events`, `votes <-` the accepted invocations) |
| `Orchestrator` | `invoke_and_advance` by several clients over `CaseStore` | `pc` and `call` are a call's position and locals, `returned` what calls gave back |
| `Reconstruction` | `reconstruct` read by read over `CaseStore` | `step` and `read` are the reader's position and reads |
| `ExportLineage` | `export_durable_case`, the export table and `verify_case_package` over `CaseStore` | `exports` is the table in recording order, `durable` what an exporter has read, `package` the directory it left |
| `StoreMigration` | `initialize`, `migrate`, its dry run, `inspect` and a write, statement by statement, on a path whose file may be replaced | `files` are the databases by inode, `lock` the open write transaction, `pc` and `call` a call's position and locals |
| `EngineExecution` | `execute_and_admit_engine_evidence` from the adapter's first snapshot to the evidence record, over `CaseStore` | `altered`, `staged`, `results` are the files, `child` the subprocess, `run` what an execution has read |
| `ClaimGraph` | `ClaimGraph`, `save_claim_graph`'s checks and `_load_graph` | `nodes` and `edges` are the two dictionaries, `stored` the snapshot |
| `RoleValidation` | the contract table, request building, validation of outputs, the workflow event of an output | operators over a case, a call and an output |
| `ProviderTransport` | request building, `OpenAIStructuredRoleProvider.invoke` and the record `invoke_and_advance` makes of its outcome; extends `RoleValidation` | `attempts` is the local list of observations, `readings` what the wall clock showed, `record` the `ProviderInvocationRecord` built |
| `MC*` | small instances | |
| `*Proofs` | theorems about the module named before `Proofs`; those about `PolicyGates` stand in `GovernedCaseProofs`, those about `Reconstruction` and `ClaimGraph` in `ReadingProofs` | |

`CaseStore` is instantiated, not copied, by `Orchestrator`, `Reconstruction`,
`ExportLineage` and `EngineExecution`: their steps call its actions on the same
variables.  That the calls of orchestrator clients, readers' writers and
exporters are transactions which `CaseStore!Next` allows is proved
(`OrchestratorProofs!StepsAreCalls`, and `SameWriters` and `SameCallers` of the
other two).  `ProviderTransport` stands alone: it is the inside of what
`Orchestrator` takes in one step (`ProviderAnswers`, `ProviderFails`), and ends
with the record that `Orchestrator` then tries to store.  `StoreMigration` is the
life of the file below `CaseStore`: every write of `CaseStore` begins with the
check of the schema that its `write` goal models.

A call that raises changes nothing and is a stuttering step, except where the
code leaves something behind (`admit_evidence_bundle` and its receipt, a crash
of an exporter and its package).  Mutated forms of definitions, named
`<Definition>_<Fault>` and each commented as a mutant, stand before the
definition they vary.  They are used by no specification; replacing a
definition by its mutant must break the property that `PROJECT.json` pairs it
with, which shows that the property is not satisfied by the shape of the model.

Abstractions.  Hashes are injective, so a hash of a thing is the thing; the hash
chain over events then says no more than the history it was chained to, which is
a parameter of every append in `CaseStore` (a caller may have chained its event
to a foreign history).  Documents in `GovernedCase` keep the fields that a check
or the policy reads.  `CaseStore` leaves the admissibility of a payload to
`GovernedCase`: at revision *r* a case is in the *r*-th state, because the table
is one chain.

## 3. Runs

| Run | Instance and bounds | What it shows |
|---|---|---|
| `case_record` | 3 protocols (one for a foreign claim and experiment), 5 methodology reviews, 4 evidence tables (empty, supporting, contradicting, failed), 2 or 3 documents per other review; every caller may audit one payload and hand over another update, rewrite the methodology review, or misstate a policy input or verdict; event clocks advance by 0 or 1, document clocks are off by -2, 0 or 1 (`DriftOnlyWhenPlain`: they drift where the documents are the plain ones); weak fairness of the caller | the case is the replay of its log; verdict, evidence and explanation follow the record; no verdict of a case whose methodology or evidence is unsound; one time line; finalized, or wedged for one of three recorded reasons |
| `policy_gates` | 2 evidence objects, up to 4 failures in any order | branch order; 4 is more than any two branches need to interact, and the proofs remove the bound |
| `store_writes` | from no case to revision 12, two receipts, two payloads, two invocation numbers (`LateDisagreement`: providers act, and payloads differ, from revision 8 on, where two provider roles remain, one of them the Chair) | readability, evidence origin, Chair completion, votes are events, immutability; refinement of `CaseLedger` |
| `store_graph` | one payload, from revision 8 | **violation**: two graph rows in a finalized case |
| `orchestrator_races` | 2 clients, 1 crash, 2 numbers, 2 payloads, from revision 9 (reproducibility review, code-owned verdict, Chair), claim graphs saved by others at any revision that allows one, final graphs that fit or not; fairness | returned outputs are on record; refusals only by races or by a claim graph; the case is finalized unless a graph was saved too early; calls end |
| `reconstruction` | two payloads, one fair reader, all writers of `CaseStore` from revision 8 | no torn case is returned; a quiet case is read |
| `export_races` | 2 exporters, 1 crash; a case from revision 5 until it has its evidence, and one from revision 10 to its end; graphs at any revision that allows one | one lineage, no unrecorded package, recorded packages verify |
| `export_verify` | the late case without crash | **violation**: a lineage that `verify()` rejects |
| `provider_group` | every role action, own and foreign states, 6 lists of summaries over 2 evidence items and 2 facts, context limit 10 (32 in the code); every exception of the client library, every response with at most 2 defects, with or without an identifier and a model name that fit their documents, every kind of output; 2 retries (the code's maximum); a wall clock that moves by 1 or is set back by 1 | bounded, licensed retries; requests that can be answered; a genuine record; no observation lost unless the clock was set back or an identifier or model name does not fit its document |
| `store_migration` | 2 processes, 1 crash, 5 starting points (nothing, a store of version 2 with two graphs, somebody else's database, a later version, a partial migration), a restored backup of version 3; fairness | one version, forward only, truthful reports, a replaced file is noticed; the store is migrated in the end |
| `engine_execution` | 2 executions, 1 crash or interruption, 3 alterations while there is one execution and 1 when there are two, the case from revision 5 to 7, 1 claim graph saved by others (`MaxGraphs`); fairness | altered inputs get no receipt, evidence is what was validated, outcomes are known, executions end and leave no child unless killed or interrupted |
| `claim_graph` | 4 nodes (a final claim, two claims or amendments, evidence), 3 edges, 2 hashes, one ledger item of each status | acyclic, traceable to the ledger, readable |

Two clients are enough for the races: a conflict is between the writer that
committed and one that did not see it, and a third client only repeats the
second one's part.  One crash suffices because a crash forgets everything its
client held.  Runs begin late in the workflow where the steps before are alike
for the question asked; `store_writes` covers the whole length.  Three edges make
a cycle as well as a chain of two derivations down to evidence; a graph that is
wrong in a longer way repeats one of them.  The context limit is small so that a
request can exceed it.  Three alterations are what `EvidenceWasValidated` is
about: results that change, change back and change again between two hashes.
`provider_group` follows one call of the Chair through every group of attempts
and the other calls through their first attempt with a clock that goes forward
(`GroupsExplored`): after the first attempt nothing depends on the action any
more.  `CHECK_DEADLOCK FALSE` is set where the system stops for good: a finalized
or wedged case, a case that early claim graphs made unreadable, the last allowed
gate failure, a finished export, execution, group or graph.  Elsewhere deadlock is checked.

Fairness.  `GovernedCase!FairSpec`: the caller keeps working (`WF(Next)`).
`Orchestrator!FairSpec`: a call that began goes on, some client keeps calling
(the orchestrator's callers retry), code-owned steps are done, and a provider
asked again and again finally answers acceptably, in a call whose final claim
graph fits (`SF(ProviderAnswersWith(client, TRUE))`); the bound on invocation
numbers keeps the last number for an answer, and crashes are bounded.  Nothing in
the code makes a provider answer well or a caller bring a good graph: that is an
assumption about the world, and `CaseIsFinalized` is conditional on it.  The
property excludes the case of which somebody saved a graph before it was final
(`EarlyGraph`), for then no answer of the Chair can ever be stored.
`Reconstruction!FairSpec` is fair to the reader and to nobody else.
`StoreMigration!FairSpec`: a call goes on (`WF(Step)`), and whoever initializes
or migrates keeps doing so (`SF(Call)`: a service starts again and again); busy
timeouts and races are in the model, so nothing is assumed about them.
`EngineExecution!FairSpec`: an adapter goes on, because every wait of it has a
deadline; nothing is assumed of the child, and an interruption of the wait is a
step that may come instead (`LeaveChild`).  The other specifications state no
fairness.

Two defects per response are enough for `provider_group` because the checks of a
response are made in order: any two of them meet, and the first one decides.

## 4. Findings and remarks

Two documents say what a run refutes:

* `docs/STORAGE_MODEL.md` says a finalized case has exactly one graph row;
  `save_claim_graph` accepts earlier graphs, whose rows stay and make every
  later read raise (`store_graph`).
* `docs/DETERMINISM.md` says a manifest's parent is the prior manifest;
  exporting one revision before and after its graph is saved can give a lineage
  that the store's verification rejects, depending on how two hashes sort
  (`export_verify`).

A third says what the code never does, and a property of a passing run states the
code's side:

* `docs/VERDICT_POLICY.md:5-7` says that a rejected methodology produces
  `REJECTED`, and a methodology to be revised or invalid evidence
  `INCONCLUSIVE`.  The policy computes so, but no such verdict can be recorded: a
  case whose methodology review does not approve stays at that review
  (`domain/models.py:766-767`), and a verdict over evidence that is not validated
  is refused by the log (`audit/log.py:320`).  `UnsoundCaseGetsNoVerdict`
  (`case_record`) states both halves, and that a `REJECTED` or `INCONCLUSIVE` on
  record has another reason of the policy.  The two kinds of cases are among those
  that `FinalizedOrWedged` calls wedged.

What the models show at the edges of what is documented, without a run of its
own:

* A failure whose case moved on, or whose number was taken, leaves no record,
  and neither does an answer whose event the machine refuses
  (`RefusedOnlyForCause`, `RecordIsGenuine`).
* The Chair's answer is refused, and leaves no record, when the final claim graph
  of its call does not fit the ledger or is not traceable (`sqlite.py:569-570`),
  which the code finds only after the provider was asked; and when any graph of
  the case was saved before (`sqlite.py:1235`), which no later call can mend.
* The contract of `docs/PHASE_2B_PROVIDER_CONTRACT.md` ("together with every
  bounded attempt observation") has two limits: when the wall clock is set back
  during a request, or the identifier or the model name of a response does not fit
  its document (`contracts.py:194`, `contracts.py:224`), the observation or the
  result cannot be built, the exception is recorded as one unclassified attempt,
  and earlier observations of the group are gone.  So a clean answer can be
  recorded as a failure under a clock that goes forward; a configured model of 129
  to 200 characters, which `config.py:44` allows and a response repeats, can never
  be answered.  `RecordIsGenuine` and `OnlyDisturbedGroupsLoseObservations` state
  these limits.
* The result of an execution is read after its evidence was admitted, in several
  statements: an append or a claim graph of somebody else in between makes the
  call raise although its evidence is on record.  `OutcomeIsKnown` says so.
* An exception in the loop that polls a child of the engine (a `stat` that fails,
  an interruption), or a killed child that has not gone after five seconds, leaves
  the service with the child running, because the loop has no `try/finally`
  (`local_cpp.py:915-925`, `local_cpp.py:1119`).  `ExecutionsEnd` excludes that
  case and the killed adapter, and no other.
* A database that is none of QuantForge's keeps its contents (`StoreIsOneVersion`),
  but not its header: `_open_raw` switches it to WAL journaling (`sqlite.py:961`)
  before it validates anything.
* An accepted answer is lost without a record when `effective_at` is not later
  than the last event of the case.
* A Chair request whose summaries leave out decisive or contradictory evidence, or
  facts cited of it, is built, but no output for it can be accepted.  Facts are
  allow-listed over all summaries of a request, so a finding may cite one evidence
  item with a fact of another.
* A crash in `initialize` before its first commit leaves an empty database that
  `initialize` refuses because it exists and `migrate` because it is no store.
* A change of the engine's repository that is undone before the final comparison,
  and results that change after the validator read them and before they are
  inventoried, are not noticed; `LastingAlterationIsNoticed` and
  `EvidenceWasValidated` say what is.

## 5. Proofs

Every theorem holds for all values of the constants that satisfy the modules'
named assumptions: `DocumentTypes`, `MaxFailuresAssumption`, `StoreConstants`
(payloads and receipts are different things, an initial history ends before the
verdict's explanation; the clients of the store state it again of their own
constants), `MaxInvocationsAssumption`, `MaxCrashesAssumption`, `SomeEvidence`,
`OriginalsAreFiles` and `OffersAreGoals` (what stands at a path at the beginning
is a sound store or is none of QuantForge's), `TransportConstants` (at most two
retries, calls of role actions, replies and clock steps of their types),
`LedgersAreLedgers` and `OffersAreNodes` (a caller of the claim graph adds nodes
that their validator accepts).  TLC evaluates them in the runs.

`GovernedCaseProofs`.  `ChainInvariant` (in `GovernedCase`) is inductive: the
log is a sequence whose *k*-th event leads to the *k*-th state, it verifies, and
the case is its replay.  The middle part is needed because replaying is defined
by position.  Every action is an `Advance` or a `RecordFollowUp`, and both end
in `AuditAppend`, whose acceptance re-establishes the invariant; so one lemma
about `Next` (`NextAppends`) suffices.  From it follow, without another
induction, `CaseAlwaysReplays`, `VerdictAlwaysFollowsRecord`,
`UnsoundCaseNeverGetsVerdict`, `EvidenceAlwaysApproved`,
`SupportedAlwaysLeavesNothingOpen` and `ChairAlwaysRepeatsPolicy`: the
verification of the verdict's event names the replayed case *before* the event,
and the proof carries its fields to the current case.  `CaseIsWellTyped` and
`RecordAlwaysOnOneTimeLine` need a second induction, `EventsAreTimed`: the log
compares an event with its predecessor only, and that the order holds between
any two events is a fact about the whole log.

The same module ends with the policy.  `SupportedIsStrict` and `SupportByFailure` are lemmas
about `Compute`; each action of `PolicyGates` changes one field, and
`FailuresAccumulate` compares the branches before and after.  The theorems hold
for every number of failures and every set of evidence identifiers.

`CaseStoreProofs`.  `StoreInvariant` joins what the tables have in common: the
row is the summary of the log and its graph anchor a row of `claim_graphs`
(`RowFollowsLog`), every vote is its event, engine evidence and its bundle come
and go together, there is at most one bundle, and a Chair's vote brought the
only graph.  No part is inductive alone: that a vote stays its event needs the
log to extend exactly the row's revision, that there is no second bundle needs
the evidence state to be passed, that a Chair vote's graph stays alone needs the
case to be finalized at that revision.  `AcceptedExtends` is the heart: an
append that is accepted extends the log as it is, whatever its caller believed.
One lemma per action re-establishes the invariant.  The readers' checks then
follow (`ReadersAgree`, `OnlyGraphsBlockReaders`), as do the immutability of
rows (`NothingIsEverRewritten`) and the refinement of `CaseLedger`
(`StoreImplementsLedger`, by `StepsOfTheLog`: a step is nothing, an event, or
an event with its vote).

`StoreGrows` says what clients of the store rely on: the invariant stays, the log
is only extended, bundles change only with it, graphs and votes are only added.
The proofs of the clients use `CaseStoreProofs` through INSTANCE; a lemma of each
shows that its calls are steps of that instance.

`ReadingProofs`, the case.  A log as long as the row announced is the log of that
row's commit, because it only grows; graph rows that are exactly the anchored one
were so at that commit, because rows are only added.  So the three reads that
`_reconstruct` keeps fit one commit, which `IsFirstRead` names.

`ReadingProofs`, the claim graph.  `GraphInvariant` says of the edges that every
set of nodes has one that no edge from the set leads to.  That this is what
`_assert_acyclic` computes (`AcyclicMeans`) is the heart: the model's `Acyclic` is
a recursive function over sets of nodes, whose existence follows from its rank
(`DescentDefines`) and whose value is found by a smallest counterexample
(`SmallestSet`).  In this form acyclicity survives a new node, and passes to fewer
edges; so the reader, who adds the edges of a snapshot in another order than the
caller did, is never refused (`SavedEdgeIsAddable`), and from an edge's target no
path leads to its source, or the nodes on such paths would have no first
(`SoundGraphIsNotCyclic`).  `SavedSoundly` keeps what the checks said of the
snapshot until the reader has all of it.  `TracedEvidenceSpeaks` follows the
frontier of a final claim step by step: claims it comes to are derived from the
claim, evidence it comes to is about one of those.

`ExportLineageProofs`.  An exporter's record is accepted only at the revision it
read, so at that moment the log is what it read, and the bundles, read later, are
those of that log (`Governed`).  `CurrentExportVerifies` then takes what package
verification demands from the store's invariant; that engine evidence is one
event of the log (`OneExperiment`) is an induction of its own.  For the lineage,
`LineageOrdered` adds that exports stand in the order of their revisions, with at
most one with and one without a graph of each: a case is readable only while its
graph is of its own revision, so once an export has a graph no later revision is
exported.  Then the export that `ORDER BY` finds last is the last recorded one
(`LatestIsLast`), and the next one continues the chain
(`LineageIsAlwaysOneChain`, `LineageVerifiesWithoutLateGraph`).

`OrchestratorProofs`.  A client that read a log of the present length has read
the present log, so no vote was accepted since; the records of its revision are
failures, whose numbers differ and stay below the bound, so the number it took is
within the bound (`NumberIsBounded`, by an injection) and its record is what
`CaseStore` demands.  `CurrentIsStorable` goes through the store's conditions one
by one: only a record of the same number can be in the way, and for the Chair's
answer its own final graph or an earlier graph (`AlwaysRefusedForCause`).

`StoreMigrationProofs`.  A process migrates only a sound or empty file: an alien
one does not pass the validation that precedes every migration.  The version it
starts from is read before the transaction and is at most the file's.  If it is
smaller, the first statement of the migration finds its object in place and the
transaction is rolled back; if it is equal, the file becomes a store of the next
version.  `ReplacementIsAlwaysNoticed` carries the identity that a write checked
to the row it returns with.  `CallsAlwaysTellTheTruth` needs what a call knows
where it stands (`Truthful`): what it is for (`KeepsGoal`), that whoever promises
the latest version has such a store open or has read its version
(`KnowsLatest`), and that reports and alarms stay true, because a store stays a
store and its version does not fall (`SpeaksTruly`, `StoresStayStores`).

`EngineExecutionProofs`.  A part that a child used altered shows, where it was
used, until the alteration is undone; so each later comparison either raises or
finds it undone (`LastingAlterationIsAlwaysNoticed`).  The results have two
contents, so the parity of their changes since the inventory tells which they
have, and the comparisons around the facts leave only three changes or none that
matter (`EvidenceAlwaysWasValidated`).  `OutcomeIsAlwaysKnown` joins the
execution to the store's own invariant: only an execution whose receipt is not
used up can admit its evidence, in one step that either writes the sixth event
with the bundle or raises and leaves none.  Between that step and the answer the
execution carries the row it read: while the case has neither moved on nor a
graph, the log and the graphs are still those of that row, so nothing raises.

`ProviderTransportProofs`.  The tables of the transport are read once, as facts
about one reply (`AcceptedWhenClean`, `RetriedIsTransient`), one output
(`ValidIsGrounded`, `SomeOutputIsValid`) and one event (`OnlyTimeRefusesEvent`).
`GroupInvariant` pairs each reply with its observation and each request with the
reply that licensed it, and says that a group whose clock ran forward began before
now, so that only an identifier or a model name that does not fit keeps an
observation from being built (`OnlyDisturbedGroupsEverLoseObservations`).  `EndedGroup` turns the last reply
and the outcome into the record, one lemma for each way a call can end.
`RequestIsAlwaysAnswerable` has a hypothesis about the world: the provider can
give every clean answer of the contract's type.

Theorems that no run checks as a property of its own: `CaseIsWellTyped`,
`RowsAreWellTyped`, `SupportedAlwaysLeavesNothingOpen`,
`ChairAlwaysRepeatsPolicy`, `ContradictionAlwaysCaps`.

Only model-checked: liveness (`FinalizedOrWedged`, `CaseIsFinalized`, `CallsEnd`,
`QuietCaseIsRead`, `StoreIsMigrated`, `ExecutionsEnd`), which is out of the
prover's reach together with `ENABLED`, and the two refuted statements of
section 4.  Every invariant of a passing run, and every action property and
refinement that is not about liveness, is stated by a theorem.  The induction
theorems of the library, which take an operator, cannot be instantiated by the
provers; where a proof needs an induction over data it takes a smallest
counterexample instead (`SmallestNumber`, `SmallestSet`).  `NeverCyclic` and
`StoredClaimsRestOnEvidence` speak of paths through the sets that are closed under
edges (`Leads`), which needs no recursion.  No module uses a RECURSIVE operator.

## 6. Plan

Done: the core (rules, machine and log, policy, store), its clients (reader,
orchestrator, exporter, engine execution), schema migration, the claim graph, the
role contracts and one provider group, each with a run and with proofs.

Left, in this order: `persist_audited_case` as a caller with crashes between its
transactions; the in-memory role methods of the orchestrator; the inspection
report of the store; a theorem that the record a provider group ends with is one
that `Orchestrator` may try to store, so that the two compose.

## 7. Not modelled, and why

Numbers and texts of documents, canonical JSON and hashing (pure encoding); the
file system rules of the store and of packages (symbolic links, modes, sidecar
files); commands, environment and result tables of the engine; prompts, schemas
and wording of role outputs; amendments, which no audit event can record.
`LiveCallBudget` (`evaluation/live.py`) counts calls in memory and has no driver in the
repository that could crash between a call and its checkpoint: a model would be
about a caller that does not exist.  Role adapters are recorded fixtures;
evaluation scores are arithmetic over recorded results; command line, demos and
repository scripts call the modelled parts in a fixed order or are outside the
program.
