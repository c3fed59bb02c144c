---------------------------- MODULE StoreMigration ----------------------------
(***************************************************************************)
(* The schema life of a case store (storage/sqlite.py): initialize,        *)
(* migrate, its dry run, inspect, and a write, which demands the latest    *)
(* schema.  Several processes call them on one path.                       *)
(*                                                                         *)
(* Every migration is one exclusive transaction, so a crash loses at most  *)
(* the version under way; but the version it starts from is read before    *)
(* the transaction, and the validation of a schema is a series of reads    *)
(* outside of any transaction.  The file itself may be replaced, by a      *)
(* backup that an operator restores, while processes have the old one      *)
(* open: a path is then an inode that stands, and inodes that some process *)
(* still works on.                                                         *)
(*                                                                         *)
(* Abstractions.  A database is its version fields, the names of its       *)
(* schema objects, the graph rows and anchor of one case, and the rows its *)
(* writers added; checksums and fingerprints are injective.  Symbolic      *)
(* links, file modes, resource limits and sidecar files are left out, and  *)
(* so is the journal mode in a database's header: _open_raw sets it to WAL *)
(* (sqlite.py:961) before anything is validated, in somebody else's        *)
(* database, too.                                                          *)
(***************************************************************************)
EXTENDS Integers, FiniteSets

CONSTANTS
    Processes,     \* callers of the store; a write adds its caller's row
    Offers,        \* the goals that each process may pursue
    MaxCrashes,    \* bound on crashes of processes
    Originals      \* what may stand at the path in the beginning, with the
                   \* backup that may be restored in its place, once

VARIABLES
    files,       \* the databases by inode: the original one, and the restored one
    standing,    \* the inode at the path
    lock,        \* the process whose write transaction is open, by inode
    pc,          \* the next step of each process
    call,        \* its locals
    crashes

vars == <<files, standing, lock, pc, call, crashes>>

LATEST_SCHEMA_VERSION == 4

Versions == 1..LATEST_SCHEMA_VERSION

Inodes == {1, 2}

(***************************************************************************)
(* Schemas.                                                                *)
(***************************************************************************)
\* MIGRATIONS: the objects that the statements of each version create.
CaseCore ==
    {"store_metadata", "migration_history", "cases", "audit_events", "constitutions",
     "evidence_bundles", "bundle_artifacts", "evidence_records", "claim_graphs",
     "reviewer_outputs", "verdict_results", "audit_events_state_idx", "bundles_revision_idx"}

ExportLineageTables == {"exports", "export_artifacts", "exports_revision_idx"}

\* Columns of cases; the same migration fills them.
GraphAnchor == {"cases.graph_revision", "cases.graph_hash"}

ProviderInvocationTables ==
    {"provider_invocations", "provider_attempts", "provider_accepted_vote_idx",
     "provider_request_idx"}

Creates == << CaseCore, ExportLineageTables, GraphAnchor, ProviderInvocationTables >>

\* _EXPECTED_TABLES and _SCHEMA_FINGERPRINTS: the objects of a version.
Schema(version) == UNION { Creates[v] : v \in 1..version }

\* There is no file yet.
NoFile ==
    [ exists |-> FALSE, user_version |-> 0, quantforge |-> FALSE, metadata |-> 0,
      history |-> {}, objects |-> {}, graphs |-> {}, anchor |-> 0, rows |-> {} ]

\* sqlite3.connect creates an empty database, in WAL mode.
EmptyFile == [NoFile EXCEPT !.exists = TRUE]

\* The anchor of a case with these graph rows.
LatestGraph(graphs) ==
    IF graphs = {} THEN 0 ELSE CHOOSE one \in graphs : \A other \in graphs : other <= one

\* A store of one version, with the graph rows of its case.
Store(version, graphs) ==
    [ exists |-> TRUE, user_version |-> version, quantforge |-> TRUE, metadata |-> version,
      history |-> 1..version, objects |-> Schema(version), graphs |-> graphs,
      anchor |-> IF version >= 3 THEN LatestGraph(graphs) ELSE 0, rows |-> {} ]

\* Mutant: objects that are there are not created again (IF NOT EXISTS).
Applicable_IfNotExists(file, version) == TRUE

\* The statements of a migration do not fail: CREATE and ADD COLUMN find
\* nothing of that name, ALTER finds its table, and the version has no row in
\* migration_history.
Applicable(file, version) ==
    /\ Creates[version] \cap file.objects = {}
    /\ version > 1 => {"cases", "claim_graphs", "store_metadata"} \subseteq file.objects
    /\ version \notin file.history

\* The effect of the transaction of one version.  The metadata are updated
\* WHERE schema_version = version - 1, and stay as they are elsewhere.
Migrated(file, version) ==
    [file EXCEPT !.user_version = version,
                 !.quantforge = version = 1 \/ @,
                 !.metadata = IF version = 1 THEN 1 ELSE IF @ = version - 1 THEN version ELSE @,
                 !.history = @ \cup {version},
                 !.objects = @ \cup Creates[version],
                 !.anchor = IF version = 3 THEN LatestGraph(file.graphs) ELSE @]

\* All the marks of one version agree (docs/MIGRATION_POLICY.md, first
\* paragraph): what _validate_schema accepts.
MarksAgree(file) ==
    /\ file.quantforge
    /\ file.user_version \in Versions
    /\ file.metadata = file.user_version
    /\ file.history = 1..file.user_version
    /\ file.objects = Schema(file.user_version)

\* A store of one version, with the anchor that the version gives its case.
IsStore(file) ==
    /\ file.exists
    /\ MarksAgree(file)
    /\ file.anchor = IF file.user_version >= 3 THEN LatestGraph(file.graphs) ELSE 0

\* A store, or what initialize is about to make one.
Sound(file) == file \in {NoFile, EmptyFile} \/ IsStore(file)

\* A database that is no store: somebody else's, damaged, or of a later
\* version.
Alien(file) ==
    /\ file.exists
    /\ ~MarksAgree(file)
    /\ file.user_version = 0 => file.objects # {}

File ==
    [ exists : BOOLEAN, user_version : Nat, quantforge : BOOLEAN, metadata : Nat,
      history : SUBSET Nat, objects : SUBSET STRING, graphs : SUBSET Nat, anchor : Nat,
      rows : SUBSET Processes ]

\* A backup is one of a store.
ASSUME OriginalsAreFiles ==
    \A original \in Originals :
        /\ original \in [Inodes -> File]
        /\ Sound(original[1]) \/ Alien(original[1])
        /\ Sound(original[2])

(***************************************************************************)
(* Calls.                                                                  *)
(***************************************************************************)
Goals == {"initialize", "migrate", "dry run", "inspect", "write"}

ASSUME OffersAreGoals == Offers \in [Processes -> SUBSET Goals]

\* A call validates the schema up to three times: when it opens the store,
\* after it migrated it, and for its report.
Stages == {"create", "first", "final", "report"}

\* What a call holds: the inode it opened, the identity a write recorded, the
\* version it read, whether it must still migrate, and, at its end, the
\* version it reports or why it raised.  replacedAt is history: the unwatched
\* step at which the file was replaced under it.
NoCall ==
    [ goal |-> "inspect", stage |-> "first", handle |-> 1, identity |-> 1, current |-> 0,
      report |-> 0, reason |-> "none", replacedAt |-> "never" ]

Goto(p, step) == pc' = [pc EXCEPT ![p] = step]

Raise(p, why) ==
    /\ Goto(p, "raised")
    /\ call' = [call EXCEPT ![p].reason = why]

Opened(p) == files[call[p].handle]

\* Someone calls; a write is a _transaction, an inspection stands for every
\* reader of the schema.
Call(p, goal) ==
    /\ pc[p] = "idle"
    /\ Goto(p, IF goal = "initialize" THEN "exists" ELSE "open")
    /\ call' = [call EXCEPT ![p] = [NoCall EXCEPT
                  !.goal = goal,
                  !.stage = IF goal = "initialize" THEN "create" ELSE "first"]]
    /\ UNCHANGED <<files, standing, lock, crashes>>

\* initialize: `if self._path.exists()`.
CheckAbsent(p) ==
    /\ pc[p] = "exists"
    /\ IF files[standing].exists
       THEN Raise(p, "refused")
       ELSE Goto(p, "open") /\ UNCHANGED call
    /\ UNCHANGED <<files, standing, lock, crashes>>

AfterOpen(p) ==
    IF call[p].stage = "create" THEN "version of migration"
    ELSE IF call[p].goal = "write" THEN "identify" ELSE "version"

\* _open_raw.  The identity of the file before and after connecting is the
\* same, so the connection belongs to the file that stands.  The contents of
\* the file stay; its header then says WAL.
Open(p) ==
    /\ pc[p] = "open"
    /\ IF files[standing].exists \/ call[p].stage = "create"
       THEN /\ files' = IF files[standing].exists THEN files
                        ELSE [files EXCEPT ![standing] = EmptyFile]
            /\ call' = [call EXCEPT ![p].handle = standing, ![p].replacedAt = "never"]
            /\ Goto(p, AfterOpen(p))
       ELSE Raise(p, "refused") /\ UNCHANGED files
    /\ UNCHANGED <<standing, lock, crashes>>

\* The file was replaced while it was opened.
OpenReplaced(p) ==
    /\ pc[p] = "open" /\ call[p].replacedAt = "open"
    /\ Raise(p, "refused")
    /\ UNCHANGED <<files, standing, lock, crashes>>

\* _transaction: `identity = self._file_identity()`.
Identify(p) ==
    /\ pc[p] = "identify"
    /\ call' = [call EXCEPT ![p].identity = standing]
    /\ Goto(p, "version")
    /\ UNCHANGED <<files, standing, lock, crashes>>

(***************************************************************************)
(* _validate_schema, read by read.                                         *)
(***************************************************************************)
\* Mutant: writers accept historical schemas, too.
LatestRequired_Never(p) == call[p].stage = "final"

\* Without allow_historical.
LatestRequired(p) == call[p].goal = "write" \/ call[p].stage = "final"

ValidateVersion(p) ==
    LET version == Opened(p).user_version
    IN  /\ pc[p] = "version"
        /\ IF \/ version \notin Versions
              \/ LatestRequired(p) /\ version # LATEST_SCHEMA_VERSION
           THEN Raise(p, "refused")
           ELSE /\ call' = [call EXCEPT ![p].current = version]
                /\ Goto(p, "metadata")
        /\ UNCHANGED <<files, standing, lock, crashes>>

\* The application identity, which no migration changes, is read with the
\* metadata.
ValidateMetadata(p) ==
    /\ pc[p] = "metadata"
    /\ IF Opened(p).quantforge /\ Opened(p).metadata = call[p].current
       THEN Goto(p, "history") /\ UNCHANGED call
       ELSE Raise(p, "alarm")
    /\ UNCHANGED <<files, standing, lock, crashes>>

\* Mutant: the history is compared with all migrations, also in a store of an
\* earlier version.
ValidateHistory_AllMigrations(p) ==
    /\ pc[p] = "history"
    /\ IF Opened(p).history = Versions
       THEN Goto(p, "objects") /\ UNCHANGED call
       ELSE Raise(p, "alarm")
    /\ UNCHANGED <<files, standing, lock, crashes>>

ValidateHistory(p) ==
    /\ pc[p] = "history"
    /\ IF Opened(p).history = 1..call[p].current
       THEN Goto(p, "objects") /\ UNCHANGED call
       ELSE Raise(p, "alarm")
    /\ UNCHANGED <<files, standing, lock, crashes>>

\* The objects disagree with the version that was read.
ValidateObjects(p) ==
    /\ pc[p] = "objects" /\ Opened(p).objects # Schema(call[p].current)
    /\ Raise(p, "alarm")
    /\ UNCHANGED <<files, standing, lock, crashes>>

\* The objects agree, and the caller of _validate_schema goes on: a store that
\* must be migrated is, a write begins its transaction, and every other call
\* reports (_inspection, which validates once more).
Validated(p) ==
    /\ pc[p] = "objects" /\ Opened(p).objects = Schema(call[p].current)
    /\ CASE call[p].goal = "write" -> Goto(p, "begin write") /\ UNCHANGED call
         [] /\ call[p].goal \in {"migrate", "dry run"}
            /\ call[p].stage = "first"
            /\ call[p].current # LATEST_SCHEMA_VERSION ->
              /\ Goto(p, IF call[p].goal = "migrate" THEN "version of migration" ELSE "backup")
              /\ UNCHANGED call
         [] call[p].stage = "report" ->
              /\ Goto(p, "returned")
              /\ call' = [call EXCEPT ![p].report = call[p].current]
         [] OTHER ->
              /\ Goto(p, "version")
              /\ call' = [call EXCEPT ![p].stage = "report"]
    /\ UNCHANGED <<files, standing, lock, crashes>>

(***************************************************************************)
(* _apply_migrations.                                                      *)
(***************************************************************************)
ReadVersion(p) ==
    /\ pc[p] = "version of migration"
    /\ call' = [call EXCEPT ![p].current = Opened(p).user_version]
    /\ Goto(p, "objects of migration")
    /\ UNCHANGED <<files, standing, lock, crashes>>

ReadObjects(p) ==
    /\ pc[p] = "objects of migration"
    /\ IF \/ call[p].current = 0 /\ Opened(p).objects # {}
          \/ call[p].current > LATEST_SCHEMA_VERSION
       THEN Raise(p, "refused")
       ELSE Goto(p, "begin") /\ UNCHANGED call
    /\ UNCHANGED <<files, standing, lock, crashes>>

\* BEGIN EXCLUSIVE of the next version, and BEGIN IMMEDIATE of a write.
Begin(p) ==
    /\ \/ pc[p] = "begin" /\ call[p].current < LATEST_SCHEMA_VERSION
       \/ pc[p] = "begin write"
    /\ lock[call[p].handle] = {}
    /\ lock' = [lock EXCEPT ![call[p].handle] = {p}]
    /\ Goto(p, IF pc[p] = "begin" THEN "apply" ELSE "check")
    /\ UNCHANGED <<files, standing, call, crashes>>

\* The busy timeout runs out.
Busy(p) ==
    /\ \/ pc[p] = "begin" /\ call[p].current < LATEST_SCHEMA_VERSION
       \/ pc[p] = "begin write"
    /\ lock[call[p].handle] # {}
    /\ Raise(p, "busy")
    /\ UNCHANGED <<files, standing, lock, crashes>>

Release(p) == lock' = [lock EXCEPT ![call[p].handle] = {}]

\* Mutant: a failed statement leaves the transaction open.
ApplyMigration_NoRollback(p) ==
    LET version == call[p].current + 1
    IN  /\ pc[p] = "apply"
        /\ IF Applicable(Opened(p), version)
           THEN /\ files' = [files EXCEPT ![call[p].handle] = Migrated(@, version)]
                /\ call' = [call EXCEPT ![p].current = version]
                /\ Goto(p, "begin")
                /\ Release(p)
           ELSE Raise(p, "statement") /\ UNCHANGED <<files, lock>>
        /\ UNCHANGED <<standing, crashes>>

\* The statements of one version up to COMMIT, or ROLLBACK and the exception
\* of the statement that failed.
ApplyMigration(p) ==
    LET version == call[p].current + 1
    IN  /\ pc[p] = "apply"
        /\ IF Applicable(Opened(p), version)
           THEN /\ files' = [files EXCEPT ![call[p].handle] = Migrated(@, version)]
                /\ call' = [call EXCEPT ![p].current = version]
                /\ Goto(p, "begin")
           ELSE Raise(p, "statement") /\ UNCHANGED files
        /\ Release(p)
        /\ UNCHANGED <<standing, crashes>>

\* All versions are applied: migrate validates the schema; initialize closes
\* its connection and inspects the store through a new one.
EndOfMigrations(p) ==
    /\ pc[p] = "begin" /\ call[p].current = LATEST_SCHEMA_VERSION
    /\ IF call[p].goal = "initialize"
       THEN /\ Goto(p, "open")
            /\ call' = [call EXCEPT ![p].stage = "first"]
       ELSE /\ Goto(p, "version")
            /\ call' = [call EXCEPT ![p].stage = "final"]
    /\ UNCHANGED <<files, standing, lock, crashes>>

\* All pending migrations, applied to a copy of the database.
MigratedCopy(file) ==
    LET upTo[v \in 0..LATEST_SCHEMA_VERSION] ==
          IF v <= file.user_version THEN file ELSE Migrated(upTo[v - 1], v)
    IN  upTo[LATEST_SCHEMA_VERSION]

\* dry_run: the backup is one consistent copy, migrated and validated in
\* memory.
DryRun(p) ==
    LET copy == MigratedCopy(Opened(p))
    IN  /\ pc[p] = "backup"
        /\ Goto(p, "returned")
        /\ call' = [call EXCEPT ![p].report = copy.user_version]
        /\ UNCHANGED <<files, standing, lock, crashes>>

(***************************************************************************)
(* A write.                                                                *)
(***************************************************************************)
\* Mutant: the identity of the file is not asserted before the commit.
AssertIdentity_Dropped(p) ==
    pc[p] = "check" /\ Goto(p, "commit") /\ UNCHANGED <<files, standing, lock, call, crashes>>

\* _assert_file_identity, or the exception it raises, which rolls back.
AssertIdentity(p) ==
    /\ pc[p] = "check"
    /\ IF call[p].identity = standing
       THEN Goto(p, "commit") /\ UNCHANGED <<lock, call>>
       ELSE Raise(p, "replaced") /\ Release(p)
    /\ UNCHANGED <<files, standing, crashes>>

CommitWrite(p) ==
    /\ pc[p] = "commit"
    /\ files' = [files EXCEPT ![call[p].handle].rows = @ \cup {p}]
    /\ Release(p)
    /\ Goto(p, "returned")
    /\ UNCHANGED <<standing, call, crashes>>

(***************************************************************************)
(* The world.                                                              *)
(***************************************************************************)
\* The caller takes the report or the exception.
Finish(p) ==
    /\ pc[p] \in {"returned", "raised"}
    /\ Goto(p, "idle")
    /\ call' = [call EXCEPT ![p] = NoCall]
    /\ UNCHANGED <<files, standing, lock, crashes>>

\* A process ends and is started again; the transaction that was open is
\* rolled back by whoever opens the file next.
Crash(p) ==
    /\ pc[p] \notin {"idle", "returned", "raised"}
    /\ crashes < MaxCrashes
    /\ crashes' = crashes + 1
    /\ lock' = [i \in Inodes |-> lock[i] \ {p}]
    /\ Goto(p, "idle")
    /\ call' = [call EXCEPT ![p] = NoCall]
    /\ UNCHANGED <<files, standing>>

\* The steps at which a write does not know the file, or no longer looks.
Unwatched == {"open", "identify", "commit", "returned"}

\* An operator puts a backup in the place of the store.
Restore ==
    /\ standing = 1 /\ files[1].exists /\ files[2].exists
    /\ standing' = 2
    /\ call' = [p \in Processes |->
                  IF pc[p] \in Unwatched THEN [call[p] EXCEPT !.replacedAt = pc[p]] ELSE call[p]]
    /\ UNCHANGED <<files, lock, pc, crashes>>

Init ==
    /\ files \in Originals
    /\ standing = 1
    /\ lock = [i \in Inodes |-> {}]
    /\ pc = [p \in Processes |-> "idle"]
    /\ call = [p \in Processes |-> NoCall]
    /\ crashes = 0

Step(p) ==
    \/ CheckAbsent(p)
    \/ Open(p)
    \/ OpenReplaced(p)
    \/ Identify(p)
    \/ ValidateVersion(p)
    \/ ValidateMetadata(p)
    \/ ValidateHistory(p)
    \/ ValidateObjects(p)
    \/ Validated(p)
    \/ ReadVersion(p)
    \/ ReadObjects(p)
    \/ Begin(p)
    \/ Busy(p)
    \/ ApplyMigration(p)
    \/ EndOfMigrations(p)
    \/ DryRun(p)
    \/ AssertIdentity(p)
    \/ CommitWrite(p)
    \/ Finish(p)

Next ==
    \/ \E p \in Processes : Step(p) \/ Crash(p) \/ \E goal \in Offers[p] : Call(p, goal)
    \/ Restore

Spec == Init /\ [][Next]_vars

\* A call goes on, and someone keeps initializing and migrating the store.
FairSpec ==
    /\ Spec
    /\ \A p \in Processes : WF_vars(Step(p))
    /\ \A p \in Processes, goal \in {"initialize", "migrate"} :
         goal \in Offers[p] => SF_vars(Call(p, goal))
(***************************************************************************)
(* Properties.                                                             *)
(***************************************************************************)
\* Whatever processes migrate one file at once, each from a version that it
\* read before its transaction, and wherever they crash: what is committed is
\* no file, the empty database or a store of exactly one version, and its case
\* keeps its graph anchor.  A database that was something else from the start
\* keeps its contents.
StoreIsOneVersion ==
    \A i \in Inodes :
        Sound(files[i]) \/ \E original \in Originals : Alien(original[i]) /\ files[i] = original[i]

\* Migrations only go forward, one version at a time, and keep every row and
\* graph; rows are only added to a store of the latest schema, which is what
\* the readers of this code understand (rules 2 and 6 of the policy).
ForwardOnly ==
    [][\A i \in Inodes :
         /\ files[i].rows \subseteq files'[i].rows
         /\ files[i].graphs = files'[i].graphs
         /\ files'[i].user_version \in {files[i].user_version, files[i].user_version + 1}
         /\ files'[i].rows # files[i].rows =>
              /\ files[i].user_version = LATEST_SCHEMA_VERSION
              /\ files'[i].user_version = LATEST_SCHEMA_VERSION]_vars

\* The version a returned call reports was reached by the database it has
\* open, and initialize, migrate and its dry run report the latest one, unless
\* the new store was replaced before initialize could inspect it.
ReportsAreTrue ==
    \A p \in Processes :
        pc[p] = "returned" /\ call[p].goal # "write" =>
            /\ IsStore(Opened(p))
            /\ \/ call[p].report <= Opened(p).user_version
               \/ call[p].goal = "dry run"
            /\ \/ call[p].report = LATEST_SCHEMA_VERSION
               \/ call[p].goal = "inspect"
               \/ call[p].goal = "initialize" /\ standing = 2

\* "Partial or inconsistent schema migration detected" and the like: a
\* validation that reads statement by statement accuses a database only when it
\* is none of QuantForge's, or when a migration was committed while it read.
AlarmsAreExplained ==
    \A p \in Processes :
        pc[p] = "raised" /\ call[p].reason = "alarm" =>
            \/ ~Sound(Opened(p))
            \/ Opened(p).user_version # call[p].current

\* Whatever a call says of the store is true of it, the version it returns as
\* well as the alarm it raises, although it reads statement by statement.
CallsTellTheTruth == ReportsAreTrue /\ AlarmsAreExplained

\* A write that returns is in the store that stands, unless the store was
\* replaced after the write checked its identity, or in the moment between
\* opening the file and recording it.
ReplacementIsNoticed ==
    \A p \in Processes :
        pc[p] = "returned" /\ call[p].goal = "write" =>
            \/ p \in files[standing].rows
            \/ call[p].replacedAt # "never"

\* initialize left an empty database behind, which initialize then refuses
\* because it exists and migrate because it is no store.
Wedged == files[standing] = EmptyFile

\* A store that is called upon is migrated in the end, through races, busy
\* timeouts and crashes: only a crash inside initialize, before its first
\* commit, can prevent it, and no race can.
StoreIsMigrated ==
    <>[](\/ files[standing].user_version = LATEST_SCHEMA_VERSION
         \/ Wedged /\ crashes > 0
         \/ ~Sound(files[standing]))
===============================================================================
