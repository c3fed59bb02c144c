------------------------- MODULE StoreMigrationProofs -------------------------
(***************************************************************************)
(* The schema of the durable store, for any number of processes, crashes   *)
(* and starting points.                                                    *)
(*                                                                         *)
(* The argument: a process migrates only a file that is a store or empty,  *)
(* because an alien one does not pass the validation it begins with; and   *)
(* the version it starts from, though read before its transaction, is at   *)
(* most the file's, because versions only grow.  If it is smaller, the     *)
(* first statement finds its object in place and the transaction is rolled *)
(* back; if it is equal, the file becomes a store of the next version.     *)
(***************************************************************************)
EXTENDS StoreMigration, TLAPS

Steps ==
    { "idle", "exists", "open", "identify", "version", "metadata", "history", "objects",
      "version of migration", "objects of migration", "begin", "apply", "backup",
      "begin write", "check", "commit", "returned", "raised" }

\* Every object there can be: the schema's, and those of the beginning.
KnownObjects ==
    (UNION { Creates[v] : v \in Versions }) \cup
    UNION { original[i].objects : original \in Originals, i \in Inodes }

\* An anchor is a number, where the graphs of a case are finitely many.
Anchors == Nat \cup { LatestGraph(graphs) : graphs \in SUBSET Nat }

FileType ==
    [ exists : BOOLEAN, user_version : Nat, quantforge : BOOLEAN, metadata : Nat,
      history : SUBSET Nat, objects : SUBSET KnownObjects, graphs : SUBSET Nat,
      anchor : Anchors, rows : SUBSET Processes ]

\* A dry run reports the version of a migrated copy.
Reports == Nat \cup { MigratedCopy(file).user_version : file \in FileType }

CallType ==
    [ goal : Goals, stage : Stages, handle : Inodes, identity : Inodes, current : Nat,
      report : Reports, reason : {"none", "refused", "alarm", "busy", "statement", "replaced"},
      replacedAt : Steps \cup {"never"} ]

TypeOK ==
    /\ files \in [Inodes -> FileType]
    /\ standing \in Inodes
    /\ pc \in [Processes -> Steps]
    /\ call \in [Processes -> CallType]

\* Every file is sound or the alien one of the beginning; the backup is sound.
FilesGoverned ==
    /\ \A i \in Inodes :
         \/ Sound(files[i])
         \/ Alien(files[i]) /\ \E original \in Originals : files[i] = original[i]
    /\ Sound(files[2])

Migrating  == {"version of migration", "objects of migration", "begin", "apply"}
Validating == {"metadata", "history", "objects"}
Writing    == {"begin write", "check", "commit"}

\* What a process knows of the file that it has open.
MigratesStore(p) ==
    /\ pc[p] = "open" /\ call[p].stage = "create" => Sound(files[standing])
    /\ pc[p] \in Migrating => Opened(p).exists /\ Sound(Opened(p))
    /\ pc[p] \in Migrating \ {"version of migration"} =>
         call[p].current <= Opened(p).user_version
    /\ pc[p] = "apply" => call[p].current < LATEST_SCHEMA_VERSION

ValidatesTruly(p) ==
    /\ pc[p] \in Validating =>
         /\ call[p].current \in Versions
         /\ call[p].current <= Opened(p).user_version
         /\ call[p].goal = "write" => call[p].current = LATEST_SCHEMA_VERSION
         /\ Sound(Opened(p)) \/ Opened(p).user_version = call[p].current
    /\ pc[p] \in {"history", "objects"} =>
         \/ Sound(Opened(p))
         \/ Opened(p).quantforge /\ Opened(p).metadata = call[p].current
    /\ pc[p] = "objects" => Sound(Opened(p)) \/ Opened(p).history = 1..call[p].current
    /\ pc[p] \in Writing =>
         IsStore(Opened(p)) /\ Opened(p).user_version = LATEST_SCHEMA_VERSION

MigrationInvariant ==
    /\ TypeOK
    /\ FilesGoverned
    /\ \A p \in Processes : MigratesStore(p) /\ ValidatesTruly(p)

\* How a step may change a file: not at all, or a sound one as ForwardOnly says.
Evolves(i) ==
    \/ files'[i] = files[i]
    \/ /\ Sound(files[i]) /\ Sound(files'[i])
       /\ files'[i].exists
       /\ IsStore(files[i]) => IsStore(files'[i])
       /\ files'[i].user_version \in {files[i].user_version, files[i].user_version + 1}
       /\ files[i].graphs = files'[i].graphs
       /\ files[i].rows \subseteq files'[i].rows
       /\ files'[i].rows # files[i].rows =>
            /\ files[i].user_version = LATEST_SCHEMA_VERSION
            /\ files'[i].user_version = LATEST_SCHEMA_VERSION

-----------------------------------------------------------------------------

\* The versions are the numbers up to four.
LEMMA VersionNumbers ==
    \A v \in Versions : v \in {1, 2, 3, 4}
BY DEF Versions, LATEST_SCHEMA_VERSION

\* No object is created by two versions, and each version creates one at least.
LEMMA CreatesDisjoint ==
    /\ \A v, w \in Versions : v # w => Creates[v] \cap Creates[w] = {}
    /\ \A v \in Versions : Creates[v] # {}
<1>1. /\ CaseCore \cap ExportLineageTables = {} /\ CaseCore \cap GraphAnchor = {}
      /\ CaseCore \cap ProviderInvocationTables = {}
      /\ ExportLineageTables \cap GraphAnchor = {}
      /\ ExportLineageTables \cap ProviderInvocationTables = {}
      /\ GraphAnchor \cap ProviderInvocationTables = {}
  BY DEF CaseCore, ExportLineageTables, GraphAnchor, ProviderInvocationTables
<1>2. /\ CaseCore # {} /\ ExportLineageTables # {} /\ GraphAnchor # {}
      /\ ProviderInvocationTables # {}
  BY DEF CaseCore, ExportLineageTables, GraphAnchor, ProviderInvocationTables
<1>4. /\ Creates[1] = CaseCore /\ Creates[2] = ExportLineageTables
      /\ Creates[3] = GraphAnchor /\ Creates[4] = ProviderInvocationTables
  BY DEF Creates
<1>5. \A v, w \in Versions : v # w => Creates[v] \cap Creates[w] = {}
  BY <1>1, <1>4, VersionNumbers
<1>6. \A v \in Versions : Creates[v] # {}
  BY <1>2, <1>4, VersionNumbers
<1>8. QED
  BY <1>5, <1>6

\* The schema of a version has the objects of every version up to it, and of
\* none after it.
LEMMA SchemaGrows ==
    ASSUME NEW u \in 0..LATEST_SCHEMA_VERSION
    PROVE  /\ \A v \in Versions : v <= u => Creates[v] \cap Schema(u) # {}
           /\ u + 1 \in Versions => Schema(u) \cup Creates[u + 1] = Schema(u + 1)
<1>1. \A v \in Versions : v <= u => v \in 1..u
  BY DEF Versions, LATEST_SCHEMA_VERSION
<1>2. \A v \in Versions : v <= u => Creates[v] \subseteq Schema(u)
  BY <1>1 DEF Schema
<1>3. \A v \in Versions : v <= u => Creates[v] \cap Schema(u) # {}
  BY <1>2, CreatesDisjoint
<1>4. 1..(u + 1) = 1..u \cup {u + 1}
  BY DEF LATEST_SCHEMA_VERSION
<1>5. Schema(u) \cup Creates[u + 1] = Schema(u + 1)
  BY <1>4 DEF Schema
<1>6. QED
  BY <1>3, <1>5

\* What every sound file shows, a store, an empty database or none.
LEMMA SoundFiles ==
    ASSUME NEW file, Sound(file)
    PROVE  /\ file.user_version \in 0..LATEST_SCHEMA_VERSION
           /\ file.metadata = file.user_version
           /\ file.history = 1..file.user_version
           /\ file.objects = Schema(file.user_version)
           /\ file.anchor = IF file.user_version >= 3 THEN LatestGraph(file.graphs) ELSE 0
           /\ file.user_version # 0 => IsStore(file)
           /\ file.user_version = 0 => file \in {NoFile, EmptyFile}
<1>1. Schema(0) = {}
  BY DEF Schema
<1>2. CASE file \in {NoFile, EmptyFile}
  <2>1. /\ file.user_version = 0 /\ file.metadata = 0 /\ file.history = {}
        /\ file.objects = {} /\ file.anchor = 0
    BY <1>2 DEF NoFile, EmptyFile
  <2>2. 1..0 = {}
    OBVIOUS
  <2>3. QED
    BY <1>1, <1>2, <2>1, <2>2 DEF LATEST_SCHEMA_VERSION
<1>3. CASE IsStore(file)
  <2>1. file.user_version \in 1..LATEST_SCHEMA_VERSION
    BY <1>3 DEF IsStore, MarksAgree, Versions
  <2>2. file.user_version \in 0..LATEST_SCHEMA_VERSION /\ file.user_version # 0
    BY <2>1 DEF LATEST_SCHEMA_VERSION
  <2>3. QED
    BY <1>3, <2>2 DEF IsStore, MarksAgree
<1>4. QED
  BY <1>2, <1>3 DEF Sound

\* The statements of a migration find no obstacle in a store only when it is
\* the very next version of it.
LEMMA NextVersionOnly ==
    ASSUME NEW file, Sound(file), NEW version \in Versions, Applicable(file, version),
           version <= file.user_version + 1
    PROVE  version = file.user_version + 1
<1>1. file.user_version \in 0..LATEST_SCHEMA_VERSION /\ file.objects = Schema(file.user_version)
  BY SoundFiles
<1>2. Creates[version] \cap Schema(file.user_version) = {}
  BY <1>1 DEF Applicable
<1>3. ~(version <= file.user_version)
  BY <1>1, <1>2, SchemaGrows
<1>4. QED
  BY <1>1, <1>3 DEF Versions, LATEST_SCHEMA_VERSION

\* A migration makes a file of a file, whatever the file is, and marks its
\* version.
LEMMA MigratedIsFile ==
    ASSUME NEW file \in FileType, NEW version \in Versions
    PROVE  Migrated(file, version) \in FileType /\ Migrated(file, version).user_version = version
<1>1. LatestGraph(file.graphs) \in Anchors
  BY DEF Anchors, FileType
<1>2. Creates[version] \subseteq KnownObjects /\ version \in Nat
  BY DEF KnownObjects, Versions
<1>3. QED
  BY <1>1, <1>2 DEF Migrated, FileType

\* A migration that goes through makes a store of the next version, and keeps
\* graphs and rows.
LEMMA MigratedIsStore ==
    ASSUME NEW file \in FileType, Sound(file), file.exists,
           NEW version \in Versions, Applicable(file, version),
           version <= file.user_version + 1
    PROVE  /\ IsStore(Migrated(file, version))
           /\ Migrated(file, version).user_version = file.user_version + 1
           /\ Migrated(file, version).graphs = file.graphs
           /\ Migrated(file, version).rows = file.rows
           /\ Migrated(file, version).exists
           /\ Migrated(file, version) \in FileType
<1> DEFINE after == Migrated(file, version)
           u == file.user_version
<1>1. version = u + 1 /\ u \in 0..LATEST_SCHEMA_VERSION
  BY NextVersionOnly, SoundFiles
<1>2. /\ file.metadata = u /\ file.history = 1..u /\ file.objects = Schema(u)
      /\ file.anchor = IF u >= 3 THEN LatestGraph(file.graphs) ELSE 0
  BY SoundFiles
<1>3. /\ after.user_version = version
      /\ after.metadata = version
      /\ after.history = file.history \cup {version}
      /\ after.objects = file.objects \cup Creates[version]
      /\ after.anchor = IF version = 3 THEN LatestGraph(file.graphs) ELSE file.anchor
      /\ after.graphs = file.graphs /\ after.rows = file.rows /\ after.exists
  BY <1>1, <1>2 DEF Migrated, FileType, LATEST_SCHEMA_VERSION
<1>4. after.quantforge
  <2>1. CASE version = 1
    BY <2>1 DEF Migrated, FileType
  <2>2. CASE version # 1
    <3>1. u # 0
      BY <1>1, <2>2
    <3>2. file.quantforge
      BY <3>1, SoundFiles DEF IsStore, MarksAgree
    <3>3. QED
      BY <2>2, <3>2 DEF Migrated, FileType
  <2>3. QED
    BY <2>1, <2>2
<1>5. after.history = 1..version
  <2>1. \A k \in 0..LATEST_SCHEMA_VERSION : 1..(k + 1) = 1..k \cup {k + 1}
    BY DEF LATEST_SCHEMA_VERSION
  <2>2. 1..(u + 1) = 1..u \cup {u + 1}
    BY <1>1, <2>1
  <2>3. QED
    BY <1>1, <1>2, <1>3, <2>2
<1>6. after.objects = Schema(version)
  BY <1>1, <1>2, <1>3, SchemaGrows
<1>7. after.anchor = IF version >= 3 THEN LatestGraph(after.graphs) ELSE 0
  BY <1>1, <1>2, <1>3 DEF Versions, LATEST_SCHEMA_VERSION
<1>8. IsStore(after)
  BY <1>3, <1>4, <1>5, <1>6, <1>7 DEF IsStore, MarksAgree
<1>9. after \in FileType
  BY MigratedIsFile
<1>10. QED
  BY <1>1, <1>3, <1>8, <1>9

\* What holds of a file that evolves: it stays sound, does not disappear, and a
\* store of the latest schema stays one; an alien one does not change.
LEMMA FilesKeepWhatTheyAre ==
    ASSUME NEW i \in Inodes, files \in [Inodes -> FileType], files' \in [Inodes -> FileType],
           Evolves(i)
    PROVE  /\ Sound(files[i]) => Sound(files'[i])
           /\ files[i].exists => files'[i].exists
           /\ files[i].user_version <= files'[i].user_version
           /\ IsStore(files[i]) /\ files[i].user_version = LATEST_SCHEMA_VERSION =>
                IsStore(files'[i]) /\ files'[i].user_version = LATEST_SCHEMA_VERSION
           /\ ~Sound(files[i]) => files'[i] = files[i]
<1>1. files[i].user_version \in Nat /\ files'[i].user_version \in Nat
  BY DEF FileType
<1>2. CASE files'[i] = files[i]
  BY <1>1, <1>2
<1>3. CASE files'[i] # files[i]
  <2>1. /\ Sound(files[i]) /\ Sound(files'[i]) /\ files'[i].exists
        /\ IsStore(files[i]) => IsStore(files'[i])
        /\ files'[i].user_version \in {files[i].user_version, files[i].user_version + 1}
    BY <1>3 DEF Evolves
  <2>2. files'[i].user_version \in 0..LATEST_SCHEMA_VERSION
    BY <2>1, SoundFiles
  <2>3. QED
    BY <1>1, <2>1, <2>2 DEF LATEST_SCHEMA_VERSION
<1>4. QED
  BY <1>2, <1>3

\* Everything is a file in the beginning, and no call is under way.
LEMMA InitMigration == Init => MigrationInvariant
<1> SUFFICES ASSUME Init PROVE MigrationInvariant
  OBVIOUS
<1>1. /\ files \in Originals /\ files \in [Inodes -> File]
      /\ Sound(files[1]) \/ Alien(files[1])
      /\ Sound(files[2])
  BY OriginalsAreFiles DEF Init
<1>2. files \in [Inodes -> FileType]
  <2> SUFFICES ASSUME NEW i \in Inodes PROVE files[i] \in FileType
    BY <1>1
  <2>1. files[i].objects \subseteq KnownObjects
    <3>1. files[i].objects \in { original[j].objects : original \in Originals, j \in Inodes }
      BY <1>1
    <3>2. QED
      BY <3>1 DEF KnownObjects
  <2>2. QED
    BY <1>1, <2>1 DEF File, FileType, Anchors
<1>3. NoCall \in CallType
  BY DEF NoCall, CallType, Goals, Stages, Inodes, Reports
<1>4. TypeOK
  BY <1>2, <1>3 DEF Init, TypeOK, Steps, Inodes
<1>5. FilesGoverned
  BY <1>1 DEF FilesGoverned, Inodes
<1>6. ASSUME NEW p \in Processes PROVE MigratesStore(p) /\ ValidatesTruly(p)
  BY DEF Init, MigratesStore, ValidatesTruly, Migrating, Validating, Writing
<1>7. QED
  BY <1>4, <1>5, <1>6 DEF MigrationInvariant

\* The one step that migrates: whatever version the process read, the file
\* becomes a store of its next version or stays as it is.
LEMMA ApplyEvolves ==
    ASSUME MigrationInvariant, NEW p \in Processes, ApplyMigration(p)
    PROVE  /\ \A i \in Inodes : Evolves(i)
           /\ files' \in [Inodes -> FileType]
           /\ pc'[p] \in {"begin", "raised"}
           /\ pc'[p] = "begin" => call'[p].current <= files'[call[p].handle].user_version
           /\ call'[p] \in CallType
<1> DEFINE h == call[p].handle
           version == call[p].current + 1
<1>1. /\ files \in [Inodes -> FileType] /\ call \in [Processes -> CallType]
      /\ pc \in [Processes -> Steps]
      /\ h \in Inodes /\ call[p].current \in Nat
  BY DEF MigrationInvariant, TypeOK, CallType
<1>2. /\ pc[p] = "apply"
      /\ Sound(files[h]) /\ files[h].exists
      /\ call[p].current <= files[h].user_version
      /\ call[p].current < LATEST_SCHEMA_VERSION
  BY DEF ApplyMigration, MigrationInvariant, MigratesStore, Migrating, Opened
<1>3. files[h] \in FileType /\ files[h].user_version \in Nat
  BY <1>1 DEF FileType
<1>4. version \in Versions /\ version <= files[h].user_version + 1
  BY <1>1, <1>2, <1>3 DEF Versions, LATEST_SCHEMA_VERSION
<1>5. CASE Applicable(files[h], version)
  <2>1. /\ files' = [files EXCEPT ![h] = Migrated(@, version)]
        /\ call' = [call EXCEPT ![p].current = version]
        /\ pc' = [pc EXCEPT ![p] = "begin"]
    BY <1>5 DEF ApplyMigration, Opened, Goto
  <2>2. files'[h] = Migrated(files[h], version)
    BY <1>1, <2>1
  <2>3. /\ IsStore(files'[h])
        /\ files'[h].user_version = files[h].user_version + 1
        /\ files'[h].graphs = files[h].graphs /\ files'[h].rows = files[h].rows
        /\ files'[h].exists /\ files'[h] \in FileType
    BY <1>2, <1>3, <1>4, <1>5, <2>2, MigratedIsStore
  <2>4. \A i \in Inodes : i # h => files'[i] = files[i]
    BY <1>1, <2>1
  <2>5. Evolves(h)
    BY <1>2, <2>3 DEF Evolves, Sound
  <2>6. \A i \in Inodes : Evolves(i)
    BY <2>4, <2>5 DEF Evolves
  <2>7. files' \in [Inodes -> FileType]
    BY <1>1, <2>1, <2>2, <2>3
  <2>8. pc'[p] = "begin" /\ call'[p].current = version
    BY <1>1, <2>1 DEF CallType
  <2>9. call'[p] \in CallType
    BY <1>1, <2>1 DEF CallType
  <2>10. QED
    BY <1>1, <1>2, <1>3, <2>3, <2>6, <2>7, <2>8, <2>9
<1>6. CASE ~Applicable(files[h], version)
  <2>1. /\ files' = files /\ pc' = [pc EXCEPT ![p] = "raised"]
        /\ call' = [call EXCEPT ![p].reason = "statement"]
    BY <1>6 DEF ApplyMigration, Opened, Raise, Goto
  <2>2. pc'[p] = "raised" /\ call'[p] \in CallType
    BY <1>1, <2>1 DEF CallType
  <2>3. QED
    BY <1>1, <2>1, <2>2 DEF Evolves
<1>7. QED
  BY <1>5, <1>6

\* What a process does on its own.
Act(p) == Step(p) \/ Crash(p) \/ \E goal \in Offers[p] : Call(p, goal)

\* A step of a process touches nothing that other processes hold, and keeps
\* the types of what it holds itself.
LEMMA ActTypes ==
    ASSUME MigrationInvariant, NEW p \in Processes, Act(p)
    PROVE  /\ standing' = standing
           /\ pc' \in [Processes -> Steps]
           /\ call' \in [Processes -> CallType]
           /\ \A q \in Processes : q # p => pc'[q] = pc[q] /\ call'[q] = call[q]
<1>1. /\ files \in [Inodes -> FileType] /\ call \in [Processes -> CallType]
      /\ pc \in [Processes -> Steps] /\ standing \in Inodes
  BY DEF MigrationInvariant, TypeOK
<1>2. Opened(p).user_version \in Nat
  BY <1>1 DEF Opened, CallType, FileType
<1>3. NoCall \in CallType
  BY DEF NoCall, CallType, Goals, Stages, Inodes, Reports
<1>4. ASSUME NEW step \in Steps, Goto(p, step)
      PROVE  /\ pc' \in [Processes -> Steps]
             /\ \A q \in Processes : q # p => pc'[q] = pc[q]
  BY <1>1, <1>4 DEF Goto
<1>5. ASSUME NEW this \in CallType, call' = [call EXCEPT ![p] = this]
      PROVE  /\ call' \in [Processes -> CallType]
             /\ \A q \in Processes : q # p => call'[q] = call[q]
  BY <1>1, <1>5
<1>6. ASSUME NEW why \in {"refused", "alarm", "busy", "statement", "replaced"}, Raise(p, why)
      PROVE  /\ pc' \in [Processes -> Steps] /\ call' \in [Processes -> CallType]
             /\ \A q \in Processes : q # p => pc'[q] = pc[q] /\ call'[q] = call[q]
  <2>1. pc' = [pc EXCEPT ![p] = "raised"] /\ call' = [call EXCEPT ![p].reason = why]
    BY <1>6 DEF Raise, Goto
  <2>2. [call[p] EXCEPT !.reason = why] \in CallType
    BY <1>1 DEF CallType
  <2>3. QED
    BY <1>1, <2>1, <2>2 DEF Steps
<1>7. CASE CheckAbsent(p) \/ OpenReplaced(p) \/ ValidateMetadata(p) \/ ValidateHistory(p)
           \/ ValidateObjects(p) \/ ReadObjects(p) \/ Busy(p)
  <2>1. \/ Raise(p, "refused") \/ Raise(p, "alarm") \/ Raise(p, "busy")
        \/ /\ UNCHANGED call
           /\ Goto(p, "open") \/ Goto(p, "history") \/ Goto(p, "objects") \/ Goto(p, "begin")
    BY <1>7 DEF CheckAbsent, OpenReplaced, ValidateMetadata, ValidateHistory, ValidateObjects,
                ReadObjects, Busy
  <2>2. standing' = standing
    BY <1>7 DEF CheckAbsent, OpenReplaced, ValidateMetadata, ValidateHistory, ValidateObjects,
                ReadObjects, Busy
  <2>3. QED
    BY <1>1, <1>4, <1>6, <2>1, <2>2 DEF Steps
<1>8. CASE Open(p)
  <2>1. standing' = standing
    BY <1>8 DEF Open
  <2>2. CASE Raise(p, "refused")
    BY <1>6, <2>1, <2>2
  <2>3. CASE /\ call' = [call EXCEPT ![p].handle = standing, ![p].replacedAt = "never"]
             /\ Goto(p, AfterOpen(p))
    <3>1. AfterOpen(p) \in Steps
      BY DEF AfterOpen, Steps
    <3>2. [call[p] EXCEPT !.handle = standing, !.replacedAt = "never"] \in CallType
      BY <1>1 DEF CallType
    <3>3. QED
      BY <1>1, <1>4, <2>1, <2>3, <3>1, <3>2
  <2>4. QED
    BY <1>8, <2>2, <2>3 DEF Open
<1>9. CASE Identify(p)
  <2>1. [call[p] EXCEPT !.identity = standing] \in CallType
    BY <1>1 DEF CallType
  <2>2. QED
    BY <1>1, <1>4, <1>9, <2>1 DEF Identify, Steps
<1>10. CASE ValidateVersion(p) \/ ReadVersion(p)
  <2>1. [call[p] EXCEPT !.current = Opened(p).user_version] \in CallType
    BY <1>1, <1>2 DEF CallType
  <2>2. QED
    BY <1>1, <1>4, <1>6, <1>10, <2>1 DEF ValidateVersion, ReadVersion, Steps
<1>11. CASE Validated(p)
  <2>1. /\ [call[p] EXCEPT !.report = call[p].current] \in CallType
        /\ [call[p] EXCEPT !.stage = "report"] \in CallType
    BY <1>1 DEF CallType, Stages, Reports
  <2>2. standing' = standing
    BY <1>11 DEF Validated
  <2>3. \/ /\ UNCHANGED call
           /\ \/ Goto(p, "begin write") \/ Goto(p, "version of migration")
              \/ Goto(p, "backup")
        \/ Goto(p, "returned") /\ call' = [call EXCEPT ![p].report = call[p].current]
        \/ Goto(p, "version") /\ call' = [call EXCEPT ![p].stage = "report"]
    BY <1>11 DEF Validated
  <2>4. QED
    BY <1>1, <1>4, <2>1, <2>2, <2>3 DEF Steps
<1>12. CASE Begin(p)
  BY <1>1, <1>4, <1>12 DEF Begin, Steps
<1>13. CASE ApplyMigration(p)
  <2>1. pc'[p] \in Steps /\ call'[p] \in CallType
    BY <1>13, ApplyEvolves DEF Steps
  <2>2. /\ standing' = standing
        /\ \E step : pc' = [pc EXCEPT ![p] = step]
        /\ \E this : call' = [call EXCEPT ![p] = this]
    BY <1>13 DEF ApplyMigration, Raise, Goto
  <2>3. QED
    BY <1>1, <2>1, <2>2
<1>14. CASE EndOfMigrations(p)
  <2>1. /\ [call[p] EXCEPT !.stage = "first"] \in CallType
        /\ [call[p] EXCEPT !.stage = "final"] \in CallType
    BY <1>1 DEF CallType, Stages
  <2>2. QED
    BY <1>1, <1>4, <1>14, <2>1 DEF EndOfMigrations, Steps
<1>15. CASE DryRun(p)
  <2>1. MigratedCopy(Opened(p)).user_version \in Reports
    BY <1>1 DEF Opened, Reports, CallType
  <2>2. [call[p] EXCEPT !.report = MigratedCopy(Opened(p)).user_version] \in CallType
    BY <1>1, <2>1 DEF CallType
  <2>3. QED
    BY <1>1, <1>4, <1>15, <2>2 DEF DryRun, Steps
<1>17. CASE AssertIdentity(p) \/ CommitWrite(p)
  BY <1>1, <1>4, <1>6, <1>17 DEF AssertIdentity, CommitWrite, Steps
<1>18. CASE Finish(p) \/ Crash(p)
  BY <1>1, <1>3, <1>4, <1>5, <1>18 DEF Finish, Crash, Steps
<1>19. ASSUME NEW goal \in Offers[p], Call(p, goal)
       PROVE  /\ standing' = standing
              /\ pc' \in [Processes -> Steps]
              /\ call' \in [Processes -> CallType]
              /\ \A q \in Processes : q # p => pc'[q] = pc[q] /\ call'[q] = call[q]
  <2>1. goal \in Goals
    BY OffersAreGoals
  <2>2. [NoCall EXCEPT !.goal = goal,
                       !.stage = IF goal = "initialize" THEN "create" ELSE "first"] \in CallType
    BY <1>3, <2>1 DEF CallType, Stages
  <2>3. QED
    BY <1>4, <1>5, <1>19, <2>2 DEF Call, Steps
<1>20. QED
  BY <1>7, <1>8, <1>9, <1>10, <1>11, <1>12, <1>13, <1>14, <1>15, <1>17, <1>18, <1>19
     DEF Act, Step

\* Three steps change a file: the first opening, a migration and a write.
LEMMA FilesEvolve ==
    ASSUME MigrationInvariant, NEW p \in Processes, Act(p)
    PROVE  files' \in [Inodes -> FileType] /\ \A i \in Inodes : Evolves(i)
<1>1. /\ files \in [Inodes -> FileType] /\ call[p].handle \in Inodes
      /\ standing \in Inodes
  BY DEF MigrationInvariant, TypeOK, CallType
<1>2. CASE UNCHANGED files
  BY <1>1, <1>2 DEF Evolves
<1>3. CASE Open(p) /\ files' # files
  <2>1. /\ pc[p] = "open" /\ call[p].stage = "create" /\ ~files[standing].exists
        /\ files' = [files EXCEPT ![standing] = EmptyFile]
    BY <1>3 DEF Open
  <2>2. Sound(files[standing])
    BY <2>1 DEF MigrationInvariant, MigratesStore
  <2>3. files[standing] = NoFile
    BY <2>1, <2>2 DEF Sound, IsStore, EmptyFile, NoFile
  <2>4. files'[standing] = EmptyFile /\ \A i \in Inodes : i # standing => files'[i] = files[i]
    BY <1>1, <2>1
  <2>5. EmptyFile \in FileType
    BY DEF EmptyFile, NoFile, FileType, Anchors
  <2>6. ~IsStore(NoFile) /\ Sound(NoFile) /\ Sound(EmptyFile)
    BY DEF IsStore, Sound, NoFile
  <2>7. /\ EmptyFile.exists /\ EmptyFile.user_version = 0 /\ NoFile.user_version = 0
        /\ EmptyFile.rows = NoFile.rows /\ EmptyFile.graphs = NoFile.graphs
    BY DEF EmptyFile, NoFile
  <2>8. Evolves(standing)
    BY <2>3, <2>4, <2>6, <2>7 DEF Evolves
  <2>9. QED
    BY <1>1, <2>1, <2>4, <2>5, <2>8 DEF Evolves
<1>4. CASE ApplyMigration(p)
  BY <1>4, ApplyEvolves
<1>5. CASE CommitWrite(p)
  <2> DEFINE h == call[p].handle
  <2>1. /\ pc[p] = "commit"
        /\ files' = [files EXCEPT ![h].rows = @ \cup {p}]
    BY <1>5 DEF CommitWrite
  <2>2. IsStore(files[h]) /\ files[h].user_version = LATEST_SCHEMA_VERSION
    BY <2>1 DEF MigrationInvariant, ValidatesTruly, Writing, Opened
  <2>3. /\ files'[h] = [files[h] EXCEPT !.rows = @ \cup {p}]
        /\ \A i \in Inodes : i # h => files'[i] = files[i]
    BY <1>1, <2>1
  <2>4. /\ files'[h] \in FileType
        /\ files'[h].user_version = files[h].user_version
        /\ files'[h].graphs = files[h].graphs /\ files[h].rows \subseteq files'[h].rows
        /\ files'[h].exists = files[h].exists
        /\ files'[h].quantforge = files[h].quantforge
        /\ files'[h].metadata = files[h].metadata
        /\ files'[h].history = files[h].history
        /\ files'[h].objects = files[h].objects
        /\ files'[h].anchor = files[h].anchor
    BY <1>1, <2>3 DEF FileType
  <2>5. IsStore(files'[h])
    BY <2>2, <2>4 DEF IsStore, MarksAgree
  <2>6. Evolves(h)
    BY <2>2, <2>4, <2>5 DEF Evolves, Sound, IsStore
  <2>7. QED
    BY <1>1, <2>1, <2>3, <2>4, <2>6 DEF Evolves
<1>6. QED
  BY <1>2, <1>3, <1>4, <1>5
     DEF Act, Step, CheckAbsent, OpenReplaced, Identify, ValidateVersion, ValidateMetadata,
         ValidateHistory, ValidateObjects, Validated, ReadVersion, ReadObjects, Begin, Busy,
         EndOfMigrations, DryRun, AssertIdentity, Finish, Crash, Call

\* What a process knows stays true when files evolve and the process does
\* nothing, even when the backup is restored.
LEMMA KnowledgeLasts ==
    ASSUME MigrationInvariant, files' \in [Inodes -> FileType],
           \A i \in Inodes : Evolves(i),
           standing' = standing \/ standing' = 2,
           NEW q \in Processes, pc'[q] = pc[q],
           call'[q].goal = call[q].goal, call'[q].stage = call[q].stage,
           call'[q].handle = call[q].handle, call'[q].current = call[q].current
    PROVE  MigratesStore(q)' /\ ValidatesTruly(q)'
<1> DEFINE h == call[q].handle
<1>1. /\ files \in [Inodes -> FileType] /\ standing \in Inodes
      /\ h \in Inodes /\ call[q].current \in Nat
      /\ Sound(files[2]) /\ 2 \in Inodes
  BY DEF MigrationInvariant, TypeOK, CallType, FilesGoverned, Inodes
<1>2. Opened(q) = files[h] /\ Opened(q)' = files'[h]
  BY DEF Opened
<1>3. /\ Sound(files[h]) => Sound(files'[h])
      /\ files[h].exists => files'[h].exists
      /\ files[h].user_version <= files'[h].user_version
      /\ IsStore(files[h]) /\ files[h].user_version = LATEST_SCHEMA_VERSION =>
           IsStore(files'[h]) /\ files'[h].user_version = LATEST_SCHEMA_VERSION
      /\ ~Sound(files[h]) => files'[h] = files[h]
  BY <1>1, FilesKeepWhatTheyAre
<1>4. Sound(files[standing]) => Sound(files'[standing'])
  BY <1>1, FilesKeepWhatTheyAre
<1>5. files[h].user_version \in Nat /\ files'[h].user_version \in Nat
  BY <1>1 DEF FileType
<1>6. MigratesStore(q)'
  <2>1. MigratesStore(q)
    BY DEF MigrationInvariant
  <2>2. (pc[q] = "open" /\ call[q].stage = "create" => Sound(files[standing]))'
    BY <1>4, <2>1 DEF MigratesStore
  <2>3. (pc[q] \in Migrating => Opened(q).exists /\ Sound(Opened(q)))'
    BY <1>2, <1>3, <2>1 DEF MigratesStore, Migrating
  <2>4. (pc[q] \in Migrating \ {"version of migration"} =>
           call[q].current <= Opened(q).user_version)'
    <3>1. ASSUME pc[q] \in Migrating \ {"version of migration"}
          PROVE  call[q].current <= files'[h].user_version
      <4>1. call[q].current <= files[h].user_version
        BY <1>2, <2>1, <3>1 DEF MigratesStore
      <4>2. QED
        BY <1>1, <1>3, <1>5, <4>1
    <3>2. QED
      BY <1>2, <3>1 DEF Migrating
  <2>5. (pc[q] = "apply" => call[q].current < LATEST_SCHEMA_VERSION)'
    BY <2>1 DEF MigratesStore
  <2>6. QED
    BY <2>2, <2>3, <2>4, <2>5 DEF MigratesStore
<1>7. ValidatesTruly(q)'
  <2>1. ValidatesTruly(q)
    BY DEF MigrationInvariant
  <2>2. CASE Sound(files[h])
    BY <1>1, <1>2, <1>3, <1>5, <2>1, <2>2 DEF ValidatesTruly
  <2>3. CASE ~Sound(files[h])
    BY <1>1, <1>2, <1>3, <2>1, <2>3 DEF ValidatesTruly
  <2>4. QED
    BY <2>2, <2>3
<1>8. QED
  BY <1>6, <1>7

\* What passes the validation is a store, and of the latest version if that
\* was read: an alien database does not have all the marks of the version.
LEMMA OnlyStoresPass ==
    ASSUME MigrationInvariant, NEW p \in Processes, Validated(p)
    PROVE  /\ IsStore(Opened(p))
           /\ call[p].current \in Versions
           /\ call[p].current <= Opened(p).user_version
           /\ call[p].current = LATEST_SCHEMA_VERSION =>
                Opened(p).user_version = LATEST_SCHEMA_VERSION
<1> DEFINE file == Opened(p)
<1>1. /\ files \in [Inodes -> FileType] /\ call[p].handle \in Inodes
      /\ file \in FileType /\ file.user_version \in Nat
  BY DEF MigrationInvariant, TypeOK, CallType, Opened, FileType
<1>2. pc[p] = "objects" /\ file.objects = Schema(call[p].current)
  BY DEF Validated
<1>3. /\ call[p].current \in Versions /\ call[p].current <= file.user_version
      /\ \/ Sound(file)
         \/ /\ file.user_version = call[p].current /\ file.quantforge
            /\ file.metadata = call[p].current /\ file.history = 1..call[p].current
  BY <1>2 DEF MigrationInvariant, ValidatesTruly, Validating
<1>4. Sound(file)
  <2>1. SUFFICES ASSUME ~Sound(file) PROVE FALSE
    OBVIOUS
  <2>2. MarksAgree(file)
    BY <1>2, <1>3, <2>1 DEF MarksAgree
  <2>3. QED
    BY <1>1, <2>1, <2>2 DEF MigrationInvariant, FilesGoverned, Alien, Opened
<1>5. file.user_version # 0 /\ file.user_version \in 0..LATEST_SCHEMA_VERSION /\ IsStore(file)
  BY <1>1, <1>3, <1>4, SoundFiles DEF Versions
<1>6. QED
  BY <1>3, <1>5 DEF Versions, LATEST_SCHEMA_VERSION

\* The steps at which a process claims nothing of the file, whatever the file.
Careless == {"idle", "exists", "identify", "version", "backup", "returned", "raised"}

\* What a process knows after a step of its own: it comes to a migration with a
\* sound file only, because an alien one fails one of the four validations.
LEMMA ActorKnows ==
    ASSUME MigrationInvariant, NEW p \in Processes, Act(p)
    PROVE  MigratesStore(p)' /\ ValidatesTruly(p)'
<1> DEFINE h == call[p].handle
           file == files[h]
<1>0. /\ \A n \in Nat : n <= n
      /\ \A c, v \in Nat : c = LATEST_SCHEMA_VERSION /\ c <= v /\ v \in 0..LATEST_SCHEMA_VERSION
                           => v = LATEST_SCHEMA_VERSION
  BY DEF LATEST_SCHEMA_VERSION
<1>1. /\ files \in [Inodes -> FileType] /\ standing \in Inodes
      /\ call \in [Processes -> CallType] /\ pc \in [Processes -> Steps]
      /\ h \in Inodes /\ call[p].current \in Nat
      /\ files' \in [Inodes -> FileType]
  BY FilesEvolve DEF MigrationInvariant, TypeOK, CallType
<1>2. file.user_version \in Nat
  BY <1>1 DEF FileType
<1>3. MigratesStore(p) /\ ValidatesTruly(p)
  BY DEF MigrationInvariant
<1>4. \A i \in Inodes :
        /\ Sound(files[i]) => Sound(files'[i])
        /\ files[i].exists => files'[i].exists
  BY <1>1, FilesEvolve, FilesKeepWhatTheyAre
<1>5. ASSUME pc'[p] \in Careless
      PROVE  MigratesStore(p)' /\ ValidatesTruly(p)'
  BY <1>5 DEF Careless, MigratesStore, ValidatesTruly, Migrating, Validating, Writing
<1>6. ASSUME NEW why, Raise(p, why)
      PROVE  MigratesStore(p)' /\ ValidatesTruly(p)'
  <2>1. pc'[p] = "raised"
    BY <1>1, <1>6 DEF Raise, Goto
  <2>2. pc'[p] \in Careless
    BY <2>1 DEF Careless
  <2>3. QED
    BY <1>5, <2>2
<1>7. CASE CheckAbsent(p)
  <2>1. CASE Raise(p, "refused")
    BY <1>6, <2>1
  <2>2. CASE ~files[standing].exists /\ pc'[p] = "open" /\ files' = files /\ standing' = standing
    <3>1. Sound(files[standing])
      BY <1>1, <2>2 DEF MigrationInvariant, FilesGoverned, Alien
    <3>2. QED
      BY <2>2, <3>1 DEF MigratesStore, ValidatesTruly, Migrating, Validating, Writing
  <2>3. QED
    BY <1>1, <1>7, <2>1, <2>2 DEF CheckAbsent, Goto
<1>8. CASE Open(p)
  <2>1. CASE Raise(p, "refused")
    BY <1>6, <2>1
  <2>2. CASE ~Raise(p, "refused")
    <3>1. /\ pc[p] = "open"
          /\ files[standing].exists \/ call[p].stage = "create"
          /\ files' = IF files[standing].exists THEN files
                      ELSE [files EXCEPT ![standing] = EmptyFile]
          /\ call' = [call EXCEPT ![p].handle = standing, ![p].replacedAt = "never"]
          /\ pc' = [pc EXCEPT ![p] = AfterOpen(p)]
      BY <1>8, <2>2 DEF Open, Goto
    <3>2. pc'[p] = AfterOpen(p) /\ call'[p].handle = standing
      BY <1>1, <3>1 DEF CallType
    <3>3. CASE call[p].stage = "create"
      <4>1. pc'[p] = "version of migration"
        BY <3>2, <3>3 DEF AfterOpen
      <4>2. Sound(files'[standing])
        <5>1. Sound(files[standing])
          BY <1>3, <3>1, <3>3 DEF MigratesStore
        <5>2. QED
          BY <1>1, <1>4, <5>1
      <4>3. files'[standing].exists
        <5>1. EmptyFile.exists
          BY DEF EmptyFile, NoFile
        <5>2. QED
          BY <1>1, <3>1, <5>1
      <4>4. QED
        BY <3>2, <4>1, <4>2, <4>3
           DEF MigratesStore, ValidatesTruly, Migrating, Validating, Writing, Opened
    <3>4. CASE call[p].stage # "create"
      <4>1. pc'[p] \in Careless
        BY <3>2, <3>4 DEF AfterOpen, Careless
      <4>2. QED
        BY <1>5, <4>1
    <3>5. QED
      BY <3>3, <3>4
  <2>3. QED
    BY <2>1, <2>2
<1>9. CASE OpenReplaced(p)
  BY <1>6, <1>9 DEF OpenReplaced
<1>10. CASE Identify(p)
  <2>1. pc'[p] \in Careless
    BY <1>1, <1>10 DEF Identify, Goto, Careless
  <2>2. QED
    BY <1>5, <2>1
<1>11. CASE ValidateVersion(p)
  <2>1. CASE Raise(p, "refused")
    BY <1>6, <2>1
  <2>2. CASE ~Raise(p, "refused")
    <3>1. /\ file.user_version \in Versions
          /\ call[p].goal = "write" => file.user_version = LATEST_SCHEMA_VERSION
          /\ call' = [call EXCEPT ![p].current = file.user_version]
          /\ pc' = [pc EXCEPT ![p] = "metadata"]
          /\ files' = files
      BY <1>11, <2>2 DEF ValidateVersion, LatestRequired, Goto, Opened
    <3>2. /\ pc'[p] = "metadata" /\ call'[p].handle = h
          /\ call'[p].current = file.user_version /\ call'[p].goal = call[p].goal
      BY <1>1, <3>1 DEF CallType
    <3>3. Opened(p)' = file /\ file.user_version <= file.user_version
      BY <1>0, <1>2, <3>1, <3>2 DEF Opened
    <3>4. MigratesStore(p)'
      BY <3>2 DEF MigratesStore, Migrating
    <3>5. ValidatesTruly(p)'
      BY <3>1, <3>2, <3>3 DEF ValidatesTruly, Validating, Writing
    <3>6. QED
      BY <3>4, <3>5
  <2>3. QED
    BY <2>1, <2>2
<1>12. CASE ValidateMetadata(p)
  <2>1. CASE Raise(p, "alarm")
    BY <1>6, <2>1
  <2>2. CASE ~Raise(p, "alarm")
    <3>1. /\ pc[p] = "metadata" /\ pc'[p] = "history" /\ call' = call /\ files' = files
          /\ file.quantforge /\ file.metadata = call[p].current
      BY <1>1, <1>12, <2>2 DEF ValidateMetadata, Goto, Opened
    <3>2. QED
      BY <1>3, <3>1 DEF MigratesStore, ValidatesTruly, Migrating, Validating, Writing, Opened
  <2>3. QED
    BY <2>1, <2>2
<1>13. CASE ValidateHistory(p)
  <2>1. CASE Raise(p, "alarm")
    BY <1>6, <2>1
  <2>2. CASE ~Raise(p, "alarm")
    <3>1. /\ pc[p] = "history" /\ pc'[p] = "objects" /\ call' = call /\ files' = files
          /\ file.history = 1..call[p].current
      BY <1>1, <1>13, <2>2 DEF ValidateHistory, Goto, Opened
    <3>2. QED
      BY <1>3, <3>1 DEF MigratesStore, ValidatesTruly, Migrating, Validating, Writing, Opened
  <2>3. QED
    BY <2>1, <2>2
<1>14. CASE ValidateObjects(p)
  BY <1>6, <1>14 DEF ValidateObjects
<1>15. CASE Validated(p)
  <2>1. /\ pc[p] = "objects" /\ files' = files
    BY <1>15 DEF Validated
  <2>2. /\ IsStore(file) /\ call[p].current \in Versions
        /\ call[p].current = LATEST_SCHEMA_VERSION => file.user_version = LATEST_SCHEMA_VERSION
    BY <1>15, OnlyStoresPass DEF Opened
  <2>3. Sound(file)
    BY <2>2 DEF Sound
  <2>4. call[p].goal = "write" => call[p].current = LATEST_SCHEMA_VERSION
    BY <1>3, <2>1 DEF ValidatesTruly, Validating
  <2>5. \/ call[p].goal = "write" /\ pc' = [pc EXCEPT ![p] = "begin write"] /\ call' = call
        \/ pc' = [pc EXCEPT ![p] = "version of migration"] /\ call' = call
        \/ \E step \in {"backup", "returned", "version"} : pc' = [pc EXCEPT ![p] = step]
    BY <1>15 DEF Validated, Goto
  <2>6. CASE call[p].goal = "write" /\ pc' = [pc EXCEPT ![p] = "begin write"] /\ call' = call
    <3>1. pc'[p] = "begin write"
      BY <1>1, <2>6
    <3>2. file.user_version = LATEST_SCHEMA_VERSION
      BY <2>2, <2>4, <2>6
    <3>3. QED
      BY <2>1, <2>2, <2>6, <3>1, <3>2
         DEF MigratesStore, ValidatesTruly, Migrating, Validating, Writing, Opened
  <2>7. CASE pc' = [pc EXCEPT ![p] = "version of migration"] /\ call' = call
    <3>1. pc'[p] = "version of migration"
      BY <1>1, <2>7
    <3>2. QED
      BY <2>1, <2>2, <2>3, <2>7, <3>1
         DEF MigratesStore, ValidatesTruly, Migrating, Validating, Writing, Opened, IsStore
  <2>8. CASE \E step \in {"backup", "returned", "version"} : pc' = [pc EXCEPT ![p] = step]
    <3>1. pc'[p] \in Careless
      BY <1>1, <2>8 DEF Careless
    <3>2. QED
      BY <1>5, <3>1
  <2>9. QED
    BY <2>5, <2>6, <2>7, <2>8
<1>16. CASE ReadVersion(p)
  <2>1. /\ pc[p] = "version of migration" /\ pc'[p] = "objects of migration" /\ files' = files
        /\ call' = [call EXCEPT ![p].current = file.user_version]
    BY <1>1, <1>16 DEF ReadVersion, Goto, Opened
  <2>2. call'[p].handle = h /\ call'[p].current = file.user_version
    BY <1>1, <2>1 DEF CallType
  <2>3. file.exists /\ Sound(file)
    BY <1>3, <2>1 DEF MigratesStore, Migrating, Opened
  <2>4. Opened(p)' = file /\ file.user_version <= file.user_version
    BY <1>0, <1>2, <2>1, <2>2 DEF Opened
  <2>5. MigratesStore(p)'
    BY <2>1, <2>2, <2>3, <2>4 DEF MigratesStore, Migrating
  <2>6. ValidatesTruly(p)'
    BY <2>1 DEF ValidatesTruly, Validating, Writing
  <2>7. QED
    BY <2>5, <2>6
<1>17. CASE ReadObjects(p)
  <2>1. CASE Raise(p, "refused")
    BY <1>6, <2>1
  <2>2. CASE ~Raise(p, "refused")
    <3>1. /\ pc[p] = "objects of migration" /\ pc'[p] = "begin" /\ call' = call /\ files' = files
      BY <1>1, <1>17, <2>2 DEF ReadObjects, Goto
    <3>2. QED
      BY <1>3, <3>1 DEF MigratesStore, ValidatesTruly, Migrating, Validating, Writing, Opened
  <2>3. QED
    BY <2>1, <2>2
<1>18. CASE Begin(p)
  <2>1. call' = call /\ files' = files
    BY <1>18 DEF Begin
  <2>2. CASE pc[p] = "begin"
    <3>1. pc'[p] = "apply" /\ call[p].current < LATEST_SCHEMA_VERSION
      BY <1>1, <1>18, <2>2 DEF Begin, Goto
    <3>2. QED
      BY <1>3, <2>1, <2>2, <3>1
         DEF MigratesStore, ValidatesTruly, Migrating, Validating, Writing, Opened
  <2>3. CASE pc[p] = "begin write"
    <3>1. pc'[p] = "check"
      BY <1>1, <1>18, <2>3 DEF Begin, Goto
    <3>2. QED
      BY <1>3, <2>1, <2>3, <3>1
         DEF MigratesStore, ValidatesTruly, Migrating, Validating, Writing, Opened
  <2>4. QED
    BY <1>18, <2>2, <2>3 DEF Begin
<1>19. CASE Busy(p)
  BY <1>6, <1>19 DEF Busy
<1>20. CASE ApplyMigration(p)
  <2>1. CASE pc'[p] = "raised"
    <3>1. pc'[p] \in Careless
      BY <2>1 DEF Careless
    <3>2. QED
      BY <1>5, <3>1
  <2>2. CASE pc'[p] = "begin"
    <3>1. call'[p].current <= files'[h].user_version
      BY <1>20, <2>2, ApplyEvolves
    <3>2. Sound(files'[h]) /\ files'[h].exists
      BY <1>1, <1>3, <1>4, <1>20 DEF ApplyMigration, MigratesStore, Migrating, Opened
    <3>3. call'[p].handle = h
      BY <1>1, <1>20 DEF ApplyMigration, Raise, CallType
    <3>4. QED
      BY <2>2, <3>1, <3>2, <3>3
         DEF MigratesStore, ValidatesTruly, Migrating, Validating, Writing, Opened
  <2>3. QED
    BY <1>20, <2>1, <2>2, ApplyEvolves
<1>21. CASE EndOfMigrations(p)
  <2>1. \/ pc'[p] = "version"
        \/ pc'[p] = "open" /\ call'[p].stage = "first"
    BY <1>1, <1>21 DEF EndOfMigrations, Goto, CallType
  <2>2. QED
    BY <2>1 DEF MigratesStore, ValidatesTruly, Migrating, Validating, Writing
<1>22. CASE DryRun(p) \/ CommitWrite(p) \/ Finish(p) \/ Crash(p)
  <2>1. pc'[p] \in Careless
    BY <1>1, <1>22 DEF DryRun, CommitWrite, Finish, Crash, Goto, Careless
  <2>2. QED
    BY <1>5, <2>1
<1>23. CASE AssertIdentity(p)
  <2>1. CASE Raise(p, "replaced")
    BY <1>6, <2>1
  <2>2. CASE ~Raise(p, "replaced")
    <3>1. pc[p] = "check" /\ pc'[p] = "commit" /\ call' = call /\ files' = files
      BY <1>1, <1>23, <2>2 DEF AssertIdentity, Goto
    <3>2. QED
      BY <1>3, <3>1 DEF MigratesStore, ValidatesTruly, Migrating, Validating, Writing, Opened
  <2>3. QED
    BY <2>1, <2>2
<1>24. ASSUME NEW goal \in Offers[p], Call(p, goal)
       PROVE  MigratesStore(p)' /\ ValidatesTruly(p)'
  <2>1. \/ pc'[p] = "exists"
        \/ pc'[p] = "open" /\ call'[p].stage = "first"
    BY <1>1, <1>24 DEF Call, Goto, NoCall
  <2>2. QED
    BY <2>1 DEF MigratesStore, ValidatesTruly, Migrating, Validating, Writing
<1>25. QED
  BY <1>7, <1>8, <1>9, <1>10, <1>11, <1>12, <1>13, <1>14, <1>15, <1>16, <1>17, <1>18, <1>19,
     <1>20, <1>21, <1>22, <1>23, <1>24 DEF Act, Step

\* Every step keeps the invariant, and every file evolves in it.
LEMMA NextMigration ==
    ASSUME MigrationInvariant, [Next]_vars
    PROVE  MigrationInvariant' /\ \A i \in Inodes : Evolves(i)
<1> USE DEF MigrationInvariant
<1>1. ASSUME files' \in [Inodes -> FileType], \A i \in Inodes : Evolves(i)
      PROVE  FilesGoverned'
  <2>1. files \in [Inodes -> FileType] /\ 2 \in Inodes
    BY DEF TypeOK, Inodes
  <2>2. \A i \in Inodes : /\ Sound(files[i]) => Sound(files'[i])
                          /\ ~Sound(files[i]) => files'[i] = files[i]
    BY <1>1, <2>1, FilesKeepWhatTheyAre
  <2>3. QED
    BY <2>1, <2>2 DEF FilesGoverned
<1>2. ASSUME NEW p \in Processes, Act(p)
      PROVE  MigrationInvariant' /\ \A i \in Inodes : Evolves(i)
  <2>1. /\ files' \in [Inodes -> FileType]
        /\ \A i \in Inodes : Evolves(i)
    BY <1>2, FilesEvolve
  <2>2. TypeOK'
    BY <1>2, <2>1, ActTypes DEF TypeOK
  <2>3. ASSUME NEW q \in Processes, q # p
        PROVE  MigratesStore(q)' /\ ValidatesTruly(q)'
    <3>1. pc'[q] = pc[q] /\ call'[q] = call[q] /\ standing' = standing
      BY <1>2, <2>3, ActTypes
    <3>2. QED
      BY <2>1, <3>1, KnowledgeLasts
  <2>4. MigratesStore(p)' /\ ValidatesTruly(p)'
    BY <1>2, ActorKnows
  <2>5. QED
    BY <1>1, <2>1, <2>2, <2>3, <2>4
<1>3. CASE Restore
  <2>1. /\ files' = files /\ pc' = pc /\ standing' = 2
        /\ call' = [q \in Processes |->
                       IF pc[q] \in Unwatched THEN [call[q] EXCEPT !.replacedAt = pc[q]]
                       ELSE call[q]]
    BY <1>3 DEF Restore
  <2>2. \A i \in Inodes : Evolves(i)
    BY <2>1 DEF Evolves
  <2>3. ASSUME NEW q \in Processes
        PROVE  /\ call'[q] \in CallType
               /\ call'[q].goal = call[q].goal /\ call'[q].stage = call[q].stage
               /\ call'[q].handle = call[q].handle /\ call'[q].current = call[q].current
    BY <2>1 DEF TypeOK, CallType
  <2>4. TypeOK'
    BY <2>1, <2>3 DEF TypeOK, Inodes
  <2>5. \A q \in Processes : MigratesStore(q)' /\ ValidatesTruly(q)'
    BY <2>1, <2>2, <2>3, <2>4, KnowledgeLasts DEF TypeOK
  <2>6. QED
    BY <1>1, <2>2, <2>4, <2>5 DEF TypeOK
<1>4. CASE UNCHANGED vars
  <2>1. files' = files /\ standing' = standing /\ pc' = pc /\ call' = call
    BY <1>4 DEF vars
  <2>2. (\A i \in Inodes : Evolves(i)) /\ TypeOK'
    BY <2>1 DEF Evolves, TypeOK
  <2>3. \A q \in Processes : MigratesStore(q)' /\ ValidatesTruly(q)'
    BY <2>1, <2>2, KnowledgeLasts DEF TypeOK
  <2>4. QED
    BY <1>1, <2>2, <2>3 DEF TypeOK
<1>5. QED
  BY <1>2, <1>3, <1>4 DEF Next, Act

-----------------------------------------------------------------------------

\* The invariant holds however many processes migrate one store, and wherever
\* they crash.
THEOREM MigrationIsInvariant == Spec => []MigrationInvariant
<1>1. MigrationInvariant /\ [Next]_vars => MigrationInvariant'
  BY NextMigration
<1>2. QED
  BY InitMigration, <1>1, PTL DEF Spec

\* What is committed is always no file, the empty database or a store of one
\* version with its anchor; an alien database stays as it was
\* (_apply_migrations, _validate_schema).
THEOREM StoreIsAlwaysOneVersion == Spec => []StoreIsOneVersion
<1>1. MigrationInvariant => StoreIsOneVersion
  BY DEF MigrationInvariant, FilesGoverned, StoreIsOneVersion
<1>2. QED
  BY <1>1, MigrationIsInvariant, PTL

\* No step takes a version back, skips one, or loses a row or a graph, and
\* rows are added to the latest schema only.
THEOREM MigrationsOnlyGoForward == Spec => ForwardOnly
<1> DEFINE Forward(i) ==
      /\ files[i].rows \subseteq files'[i].rows
      /\ files[i].graphs = files'[i].graphs
      /\ files'[i].user_version \in {files[i].user_version, files[i].user_version + 1}
      /\ files'[i].rows # files[i].rows =>
           /\ files[i].user_version = LATEST_SCHEMA_VERSION
           /\ files'[i].user_version = LATEST_SCHEMA_VERSION
<1>1. ASSUME MigrationInvariant, [Next]_vars
      PROVE  \A i \in Inodes : Forward(i)
  <2>1. \A i \in Inodes : Evolves(i)
    BY <1>1, NextMigration
  <2>2. QED
    BY <2>1 DEF Evolves
<1>2. MigrationInvariant /\ [Next]_vars => [\A i \in Inodes : Forward(i)]_vars
  BY <1>1
<1>3. QED
  BY <1>2, MigrationIsInvariant, PTL DEF Spec, ForwardOnly

-----------------------------------------------------------------------------

\* The steps between the record of the file's identity and the check of it.
Watching == {"version", "metadata", "history", "objects", "begin write", "check"}

\* What a write knows of the file that stands, if it was not replaced at a step
\* that the write does not watch.
WritesWatched(p) ==
    call[p].goal = "write" =>
        /\ call[p].stage = "first"
        /\ pc[p] \in Watching \cup {"open", "identify", "commit", "returned", "raised"}
        /\ call[p].replacedAt = "never" =>
             /\ pc[p] \in Watching => call[p].identity = call[p].handle
             /\ pc[p] \in {"identify", "commit"} => call[p].handle = standing
             /\ pc[p] = "returned" => p \in files[standing].rows

\* What a write knows of the store outlasts the steps of the other processes:
\* they move nothing and take no row away.
LEMMA WritesOfOthers ==
    ASSUME MigrationInvariant, NEW p \in Processes, Act(p),
           NEW q \in Processes, q # p, WritesWatched(q)
    PROVE  WritesWatched(q)'
<1>1. pc'[q] = pc[q] /\ call'[q] = call[q] /\ standing' = standing
  BY ActTypes
<1>2. files[standing].rows \subseteq files'[standing].rows
  BY FilesEvolve DEF Evolves, MigrationInvariant, TypeOK
<1>3. QED
  BY <1>1, <1>2 DEF WritesWatched, Watching

\* The identity that a write recorded is the one of the file that it has open,
\* and the write commits only while that file stands.
LEMMA WritesOfActor ==
    ASSUME MigrationInvariant, NEW p \in Processes, Act(p), WritesWatched(p)
    PROVE  WritesWatched(p)'
<1>1. /\ files \in [Inodes -> FileType] /\ standing \in Inodes
      /\ call \in [Processes -> CallType] /\ pc \in [Processes -> Steps]
      /\ call[p] \in CallType /\ call[p].handle \in Inodes
      /\ call'[p] \in CallType
  BY ActTypes DEF MigrationInvariant, TypeOK, CallType
<1>2. ASSUME call'[p].goal # "write" PROVE WritesWatched(p)'
  BY <1>2 DEF WritesWatched
<1>3. ASSUME pc'[p] = "raised",
             call'[p].goal = call[p].goal, call'[p].stage = call[p].stage
      PROVE  WritesWatched(p)'
  BY <1>3 DEF WritesWatched, Watching
<1>4. ASSUME NEW why, Raise(p, why) PROVE WritesWatched(p)'
  <2>1. /\ pc'[p] = "raised"
        /\ call'[p].goal = call[p].goal /\ call'[p].stage = call[p].stage
    BY <1>1, <1>4 DEF Raise, Goto, CallType
  <2>2. QED
    BY <1>3, <2>1
<1>5. ASSUME pc[p] \in Watching, pc'[p] \in Watching, standing' = standing,
             call'[p].goal = call[p].goal, call'[p].stage = call[p].stage,
             call'[p].handle = call[p].handle, call'[p].identity = call[p].identity,
             call'[p].replacedAt = call[p].replacedAt
      PROVE  WritesWatched(p)'
  BY <1>5 DEF WritesWatched, Watching
<1>6. CASE Open(p)
  <2>1. CASE Raise(p, "refused")
    BY <1>4, <2>1
  <2>2. CASE ~Raise(p, "refused")
    <3>1. /\ call' = [call EXCEPT ![p].handle = standing, ![p].replacedAt = "never"]
          /\ pc' = [pc EXCEPT ![p] = AfterOpen(p)] /\ standing' = standing
      BY <1>6, <2>2 DEF Open, Goto
    <3>2. /\ pc'[p] = AfterOpen(p) /\ call'[p].handle = standing
          /\ call'[p].goal = call[p].goal /\ call'[p].stage = call[p].stage
      BY <1>1, <3>1 DEF CallType
    <3>3. call[p].goal = "write" => AfterOpen(p) = "identify"
      BY DEF AfterOpen, WritesWatched
    <3>4. QED
      BY <3>1, <3>2, <3>3 DEF WritesWatched, Watching
  <2>3. QED
    BY <2>1, <2>2
<1>7. CASE Identify(p)
  <2>1. /\ pc[p] = "identify" /\ pc'[p] = "version" /\ standing' = standing
        /\ call' = [call EXCEPT ![p].identity = standing]
    BY <1>1, <1>7 DEF Identify, Goto
  <2>2. /\ call'[p].identity = standing /\ call'[p].handle = call[p].handle
        /\ call'[p].goal = call[p].goal /\ call'[p].stage = call[p].stage
        /\ call'[p].replacedAt = call[p].replacedAt
    BY <1>1, <2>1 DEF CallType
  <2>3. QED
    BY <2>1, <2>2 DEF WritesWatched, Watching
<1>8. CASE ValidateVersion(p) \/ ValidateMetadata(p) \/ ValidateHistory(p)
  <2>1. CASE Raise(p, "refused") \/ Raise(p, "alarm")
    BY <1>4, <2>1
  <2>2. CASE ~(Raise(p, "refused") \/ Raise(p, "alarm"))
    <3>1. /\ pc[p] \in Watching /\ standing' = standing
          /\ \E step \in Watching : pc' = [pc EXCEPT ![p] = step]
          /\ call' = call \/ \E n : call' = [call EXCEPT ![p].current = n]
      BY <1>8, <2>2 DEF ValidateVersion, ValidateMetadata, ValidateHistory, Goto, Watching
    <3>2. /\ pc'[p] \in Watching
          /\ call'[p].goal = call[p].goal /\ call'[p].stage = call[p].stage
          /\ call'[p].handle = call[p].handle /\ call'[p].identity = call[p].identity
          /\ call'[p].replacedAt = call[p].replacedAt
      BY <1>1, <3>1 DEF CallType
    <3>3. QED
      BY <1>5, <3>1, <3>2
  <2>3. QED
    BY <2>1, <2>2
<1>9. CASE Validated(p)
  <2>1. CASE call[p].goal = "write"
    <3>1. pc[p] = "objects" /\ standing' = standing /\ call[p].stage = "first"
      BY <1>9, <2>1 DEF Validated, WritesWatched
    <3>2. pc' = [pc EXCEPT ![p] = "begin write"] /\ call' = call
      BY <1>9, <2>1, <3>1 DEF Validated, Goto
    <3>3. pc'[p] = "begin write"
      BY <1>1, <3>2
    <3>4. QED
      BY <1>5, <3>1, <3>2, <3>3 DEF Watching
  <2>2. CASE call[p].goal # "write"
    <3>1. call'[p].goal = call[p].goal
      BY <1>1, <1>9 DEF Validated, CallType
    <3>2. QED
      BY <1>2, <2>2, <3>1
  <2>3. QED
    BY <2>1, <2>2
<1>10. CASE CheckAbsent(p) \/ ReadVersion(p) \/ ReadObjects(p) \/ ApplyMigration(p)
            \/ EndOfMigrations(p) \/ DryRun(p)
  <2>1. call[p].goal # "write"
    BY <1>10 DEF WritesWatched, Watching, CheckAbsent, ReadVersion, ReadObjects, ApplyMigration,
                 EndOfMigrations, DryRun
  <2>2. call'[p].goal = call[p].goal
    <3>1. \/ call' = call
          \/ \E n : call' = [call EXCEPT ![p].current = n]
          \/ \E n : call' = [call EXCEPT ![p].stage = n]
          \/ \E n : call' = [call EXCEPT ![p].report = n]
          \/ \E n : call' = [call EXCEPT ![p].reason = n]
      BY <1>10 DEF CheckAbsent, ReadVersion, ReadObjects, ApplyMigration, EndOfMigrations,
                   DryRun, Raise
    <3>2. QED
      BY <1>1, <3>1 DEF CallType
  <2>3. QED
    BY <1>2, <2>1, <2>2
<1>11. CASE Begin(p)
  <2>1. standing' = standing /\ call' = call
    BY <1>11 DEF Begin
  <2>2. CASE pc[p] = "begin"
    <3>1. call[p].goal # "write"
      BY <2>2 DEF WritesWatched, Watching
    <3>2. QED
      BY <1>2, <2>1, <3>1
  <2>3. CASE pc[p] = "begin write"
    <3>1. pc'[p] = "check"
      BY <1>1, <1>11, <2>3 DEF Begin, Goto
    <3>2. QED
      BY <1>5, <2>1, <2>3, <3>1 DEF Watching
  <2>4. QED
    BY <1>11, <2>2, <2>3 DEF Begin
<1>12. CASE OpenReplaced(p) \/ ValidateObjects(p) \/ Busy(p)
  BY <1>4, <1>12 DEF OpenReplaced, ValidateObjects, Busy
<1>13. CASE AssertIdentity(p)
  <2>1. CASE Raise(p, "replaced")
    BY <1>4, <2>1
  <2>2. CASE ~Raise(p, "replaced")
    <3>1. /\ pc[p] = "check" /\ pc'[p] = "commit" /\ call' = call /\ standing' = standing
          /\ call[p].identity = standing
      BY <1>1, <1>13, <2>2 DEF AssertIdentity, Goto
    <3>2. QED
      BY <3>1 DEF WritesWatched, Watching
  <2>3. QED
    BY <2>1, <2>2
<1>14. CASE CommitWrite(p)
  <2>1. /\ pc[p] = "commit" /\ pc'[p] = "returned" /\ call' = call /\ standing' = standing
        /\ files' = [files EXCEPT ![call[p].handle].rows = @ \cup {p}]
    BY <1>1, <1>14 DEF CommitWrite, Goto
  <2>2. p \in files'[call[p].handle].rows
    BY <1>1, <2>1 DEF FileType
  <2>3. QED
    BY <2>1, <2>2 DEF WritesWatched, Watching
<1>15. CASE Finish(p) \/ Crash(p)
  <2>1. call'[p].goal = "inspect"
    BY <1>1, <1>15 DEF Finish, Crash, NoCall
  <2>2. QED
    BY <1>2, <2>1
<1>16. ASSUME NEW goal \in Offers[p], Call(p, goal)
       PROVE  WritesWatched(p)'
  <2>1. /\ call'[p].goal = goal
        /\ goal = "write" => call'[p].stage = "first" /\ pc'[p] = "open"
    BY <1>1, <1>16 DEF Call, Goto, NoCall
  <2>2. QED
    BY <2>1 DEF WritesWatched, Watching
<1>17. QED
  BY <1>6, <1>7, <1>8, <1>9, <1>10, <1>11, <1>12, <1>13, <1>14, <1>15, <1>16 DEF Act, Step

\* A write that returns is in the store that stands, unless the store was
\* replaced before the write recorded its identity or after it checked it
\* (_transaction, _assert_file_identity).
THEOREM ReplacementIsAlwaysNoticed == Spec => []ReplacementIsNoticed
<1> DEFINE Inv == \A p \in Processes : WritesWatched(p)
<1>1. Init => Inv
  BY DEF Init, NoCall, WritesWatched
<1>2. ASSUME Inv, MigrationInvariant, [Next]_vars
      PROVE  Inv'
  <2> SUFFICES ASSUME NEW q \in Processes PROVE WritesWatched(q)'
    OBVIOUS
  <2>1. WritesWatched(q)
    BY <1>2
  <2>2. ASSUME NEW p \in Processes, Act(p)
        PROVE  WritesWatched(q)'
    BY <1>2, <2>1, <2>2, WritesOfOthers, WritesOfActor
  <2>3. CASE Restore
    <3>1. /\ files' = files /\ pc' = pc
          /\ call'[q] = IF pc[q] \in Unwatched THEN [call[q] EXCEPT !.replacedAt = pc[q]]
                        ELSE call[q]
      BY <2>3 DEF Restore
    <3>2. call[q] \in CallType
      BY <1>2 DEF MigrationInvariant, TypeOK
    <3>3. CASE pc[q] \in Unwatched
      <4>1. /\ call'[q].replacedAt = pc[q] /\ pc[q] # "never"
            /\ call'[q].goal = call[q].goal /\ call'[q].stage = call[q].stage
        BY <3>1, <3>2, <3>3 DEF CallType, Unwatched
      <4>2. QED
        BY <2>1, <3>1, <4>1 DEF WritesWatched
    <3>4. CASE pc[q] \notin Unwatched
      BY <2>1, <3>1, <3>4 DEF WritesWatched, Unwatched
    <3>5. QED
      BY <3>3, <3>4
  <2>4. CASE UNCHANGED vars
    BY <2>1, <2>4 DEF vars, WritesWatched
  <2>5. QED
    BY <1>2, <2>2, <2>3, <2>4 DEF Next, Act
<1>3. Inv => ReplacementIsNoticed
  BY DEF WritesWatched, ReplacementIsNoticed
<1>4. QED
  BY <1>1, <1>2, <1>3, MigrationIsInvariant, PTL DEF Spec

-----------------------------------------------------------------------------

\* The copy that a dry run migrates comes to the latest version, whatever
\* version of a store it is a copy of.
LEMMA CopyIsMigrated ==
    ASSUME NEW file \in FileType, file.user_version \in Versions
    PROVE  MigratedCopy(file).user_version = LATEST_SCHEMA_VERSION
<1> DEFINE At(copy, v) == IF v <= file.user_version THEN file ELSE Migrated(copy, v)
           Equation(f) == f = [v \in 0..LATEST_SCHEMA_VERSION |->
                                 IF v <= file.user_version THEN file ELSE Migrated(f[v - 1], v)]
           upTo == CHOOSE f : Equation(f)
           one   == At(file, 1)
           two   == At(one, 2)
           three == At(two, 3)
           four  == At(three, 4)
           copies == [v \in 0..LATEST_SCHEMA_VERSION |->
                        IF v = 0 THEN file ELSE IF v = 1 THEN one ELSE IF v = 2 THEN two
                        ELSE IF v = 3 THEN three ELSE four]
<1>1. MigratedCopy(file) = upTo[LATEST_SCHEMA_VERSION]
  BY DEF MigratedCopy
<1>2. Equation(upTo)
  <2>1. /\ copies[0] = file /\ copies[1] = one /\ copies[2] = two /\ copies[3] = three
        /\ copies[4] = four
    BY DEF LATEST_SCHEMA_VERSION
  <2>2. ASSUME NEW v \in 0..LATEST_SCHEMA_VERSION
        PROVE  copies[v] = IF v <= file.user_version THEN file ELSE Migrated(copies[v - 1], v)
    <3>1. v \in {0, 1, 2, 3, 4} /\ file.user_version \in {1, 2, 3, 4}
      BY DEF Versions, LATEST_SCHEMA_VERSION
    <3>2. /\ one = IF 1 <= file.user_version THEN file ELSE Migrated(copies[0], 1)
          /\ two = IF 2 <= file.user_version THEN file ELSE Migrated(copies[1], 2)
          /\ three = IF 3 <= file.user_version THEN file ELSE Migrated(copies[2], 3)
          /\ four = IF 4 <= file.user_version THEN file ELSE Migrated(copies[3], 4)
      BY <2>1
    <3> HIDE DEF one, two, three, four, copies
    <3>3. /\ 1 - 1 = 0 /\ 2 - 1 = 1 /\ 3 - 1 = 2 /\ 4 - 1 = 3
      OBVIOUS
    <3>4. QED
      BY <2>1, <3>1, <3>2, <3>3
  <2>3. copies = [v \in 0..LATEST_SCHEMA_VERSION |->
                    IF v <= file.user_version THEN file ELSE Migrated(copies[v - 1], v)]
    <3>1. copies = [v \in 0..LATEST_SCHEMA_VERSION |-> copies[v]]
      OBVIOUS
    <3> HIDE DEF copies
    <3>2. QED
      BY <2>2, <3>1
  <2>4. \E f : Equation(f)
    <3> HIDE DEF copies
    <3>1. QED
      BY <2>3
  <2>5. QED
    BY <2>4
<1> HIDE DEF upTo
<1>3. \A v \in 0..LATEST_SCHEMA_VERSION :
         upTo[v] = IF v <= file.user_version THEN file ELSE Migrated(upTo[v - 1], v)
  BY <1>2
<1>4. /\ 0 \in 0..LATEST_SCHEMA_VERSION /\ 1 \in 0..LATEST_SCHEMA_VERSION
      /\ 2 \in 0..LATEST_SCHEMA_VERSION /\ 3 \in 0..LATEST_SCHEMA_VERSION
      /\ 4 \in 0..LATEST_SCHEMA_VERSION
      /\ 1 \in Versions /\ 2 \in Versions /\ 3 \in Versions /\ 4 \in Versions
      /\ 1 - 1 = 0 /\ 2 - 1 = 1 /\ 3 - 1 = 2 /\ 4 - 1 = 3
      /\ file.user_version \in {1, 2, 3, 4}
  BY DEF Versions, LATEST_SCHEMA_VERSION
<1>5. upTo[1] \in FileType
  BY <1>3, <1>4
<1>6. upTo[2] \in FileType
  <2>1. upTo[2] = IF 2 <= file.user_version THEN file ELSE Migrated(upTo[1], 2)
    BY <1>3, <1>4
  <2>2. Migrated(upTo[1], 2) \in FileType
    BY <1>4, <1>5, MigratedIsFile
  <2>3. QED
    BY <2>1, <2>2
<1>7. upTo[3] \in FileType
  <2>1. upTo[3] = IF 3 <= file.user_version THEN file ELSE Migrated(upTo[2], 3)
    BY <1>3, <1>4
  <2>2. Migrated(upTo[2], 3) \in FileType
    BY <1>4, <1>6, MigratedIsFile
  <2>3. QED
    BY <2>1, <2>2
<1>8. CASE file.user_version = 4
  BY <1>1, <1>3, <1>4, <1>8 DEF LATEST_SCHEMA_VERSION
<1>9. CASE file.user_version # 4
  <2>1. ~(4 <= file.user_version)
    BY <1>4, <1>9
  <2>2. upTo[4] = Migrated(upTo[3], 4)
    BY <1>3, <1>4, <2>1
  <2>3. Migrated(upTo[3], 4).user_version = 4
    BY <1>4, <1>7, MigratedIsFile
  <2>4. QED
    BY <1>1, <2>2, <2>3 DEF LATEST_SCHEMA_VERSION
<1>10. QED
  BY <1>8, <1>9

\* What outlasts every change of a file.
AtLatest(file) == IsStore(file) /\ file.user_version = LATEST_SCHEMA_VERSION

\* The calls that promise the latest version, at the latest when they report.
PromisesLatest(p) ==
    \/ call[p].goal = "initialize"
    \/ call[p].goal \in {"migrate", "dry run"} /\ call[p].stage = "report"

\* What initialize created was replaced before it could be inspected.
Excused(p) == call[p].goal = "initialize" /\ standing = 2

\* Where a call is, it came by what it is for.
KeepsGoal(p) ==
    /\ standing = 1 => call[p].handle = 1
    /\ call[p].stage = "create" => call[p].goal = "initialize"
    /\ pc[p] = "exists" => call[p].stage = "create"
    /\ pc[p] \in Writing \cup {"identify"} => call[p].goal = "write"
    /\ pc[p] = "open" => call[p].stage # "report"
    /\ call[p].goal = "write" => call[p].stage = "first" /\ pc[p] \notin Migrating

\* A call that promises the latest version has such a store open, or read it.
KnowsLatest(p) ==
    /\ pc[p] = "open" /\ call[p].goal = "initialize" /\ call[p].stage # "create" =>
         \/ standing = 2
         \/ AtLatest(files[1])
    /\ pc[p] = "version" /\ PromisesLatest(p) =>
         \/ Excused(p)
         \/ AtLatest(Opened(p))
    /\ pc[p] \in Validating /\ (PromisesLatest(p) \/ call[p].stage = "final") =>
         \/ Excused(p)
         \/ call[p].current = LATEST_SCHEMA_VERSION

\* A report is true and stays true; an alarm concerns no store, or one that has
\* grown since its version was read.
SpeaksTruly(p) ==
    /\ pc[p] = "backup" => call[p].goal = "dry run" /\ IsStore(Opened(p))
    /\ pc[p] = "returned" /\ call[p].goal # "write" =>
         /\ IsStore(Opened(p))
         /\ \/ call[p].report \in Nat /\ call[p].report <= Opened(p).user_version
            \/ call[p].goal = "dry run"
         /\ \/ call[p].report = LATEST_SCHEMA_VERSION
            \/ call[p].goal = "inspect"
            \/ Excused(p)
    /\ pc[p] = "raised" /\ call[p].reason = "alarm" =>
         \/ ~Sound(Opened(p))
         \/ call[p].current < Opened(p).user_version

Truthful(p) == KeepsGoal(p) /\ KnowsLatest(p) /\ SpeaksTruly(p)

\* A store stays a store, with the version it has or the next.
LEMMA StoresStayStores ==
    ASSUME files \in [Inodes -> FileType], files' \in [Inodes -> FileType],
           NEW i \in Inodes, Evolves(i)
    PROVE  /\ IsStore(files[i]) => IsStore(files'[i])
           /\ AtLatest(files[i]) => AtLatest(files'[i])
           /\ ~Sound(files[i]) => ~Sound(files'[i])
           /\ \A n \in Nat : /\ n <= files[i].user_version => n <= files'[i].user_version
                             /\ n < files[i].user_version => n < files'[i].user_version
<1>1. files[i].user_version \in Nat /\ files'[i].user_version \in Nat
  BY DEF FileType
<1>2. files[i].user_version <= files'[i].user_version
  BY FilesKeepWhatTheyAre
<1>3. QED
  BY <1>1, <1>2, FilesKeepWhatTheyAre DEF AtLatest, Evolves

\* What a call knows and says stays true while the process does nothing.
LEMMA TruthLasts ==
    ASSUME MigrationInvariant, files' \in [Inodes -> FileType],
           \A i \in Inodes : Evolves(i),
           standing' = standing \/ standing' = 2,
           NEW q \in Processes, pc'[q] = pc[q],
           call'[q].goal = call[q].goal, call'[q].stage = call[q].stage,
           call'[q].handle = call[q].handle, call'[q].current = call[q].current,
           call'[q].report = call[q].report, call'[q].reason = call[q].reason,
           Truthful(q)
    PROVE  Truthful(q)'
<1> DEFINE h == call[q].handle
<1>1. /\ files \in [Inodes -> FileType] /\ h \in Inodes /\ 1 \in Inodes
      /\ call[q].current \in Nat
  BY DEF MigrationInvariant, TypeOK, CallType, Inodes
<1>2. Opened(q) = files[h] /\ Opened(q)' = files'[h]
  BY DEF Opened
<1>3. /\ IsStore(files[h]) => IsStore(files'[h])
      /\ AtLatest(files[h]) => AtLatest(files'[h])
      /\ AtLatest(files[1]) => AtLatest(files'[1])
      /\ ~Sound(files[h]) => ~Sound(files'[h])
      /\ \A n \in Nat : /\ n <= files[h].user_version => n <= files'[h].user_version
                        /\ n < files[h].user_version => n < files'[h].user_version
  BY <1>1, StoresStayStores
<1>4. (PromisesLatest(q)' <=> PromisesLatest(q)) /\ (Excused(q) => Excused(q)')
  BY DEF PromisesLatest, Excused
<1>5. KeepsGoal(q)'
  BY DEF Truthful, KeepsGoal
<1>6. KnowsLatest(q)'
  <2>1. AtLatest(Opened(q)) => AtLatest(Opened(q))'
    BY <1>2, <1>3 DEF AtLatest
  <2>2. AtLatest(files[1]) => AtLatest(files[1])'
    BY <1>3 DEF AtLatest
  <2>3. KnowsLatest(q)
    BY DEF Truthful
  <2> HIDE DEF h
  <2>4. QED
    BY <1>4, <2>1, <2>2, <2>3 DEF KnowsLatest
<1>7. SpeaksTruly(q)'
  <2>1. SpeaksTruly(q)
    BY DEF Truthful
  <2>2. /\ IsStore(Opened(q)) => IsStore(Opened(q))'
        /\ ~Sound(Opened(q)) => ~Sound(Opened(q))'
    BY <1>2, <1>3 DEF IsStore, Sound
  <2>3. /\ call[q].report \in Nat /\ call[q].report <= Opened(q).user_version =>
             call[q].report <= (Opened(q).user_version)'
        /\ call[q].current < Opened(q).user_version =>
             call[q].current < (Opened(q).user_version)'
    <3>1. /\ \A n \in Nat : n <= files[h].user_version => n <= files'[h].user_version
          /\ \A n \in Nat : n < files[h].user_version => n < files'[h].user_version
      BY <1>3
    <3>2. (Opened(q).user_version)' = files'[h].user_version
      BY DEF Opened
    <3>3. QED
      BY <1>1, <1>2, <3>1, <3>2
  <2> HIDE DEF h
  <2>4. (pc[q] = "backup" => call[q].goal = "dry run" /\ IsStore(Opened(q)))'
    BY <2>1, <2>2 DEF SpeaksTruly
  <2>5. (pc[q] = "raised" /\ call[q].reason = "alarm" =>
           \/ ~Sound(Opened(q))
           \/ call[q].current < Opened(q).user_version)'
    BY <2>1, <2>2, <2>3 DEF SpeaksTruly
  <2>6. (pc[q] = "returned" /\ call[q].goal # "write" =>
           /\ IsStore(Opened(q))
           /\ \/ call[q].report \in Nat /\ call[q].report <= Opened(q).user_version
              \/ call[q].goal = "dry run"
           /\ \/ call[q].report = LATEST_SCHEMA_VERSION
              \/ call[q].goal = "inspect"
              \/ Excused(q))'
    BY <1>4, <2>1, <2>2, <2>3 DEF SpeaksTruly
  <2>7. QED
    BY <2>4, <2>5, <2>6 DEF SpeaksTruly
<1>8. QED
  BY <1>5, <1>6, <1>7 DEF Truthful

\* The fields that no step but the beginning and the end of a call changes.
SameCall(p) ==
    /\ call'[p].goal = call[p].goal
    /\ call'[p].stage = call[p].stage
    /\ call'[p].handle = call[p].handle

\* What an exception changes.
LEMMA RaisedCall ==
    ASSUME MigrationInvariant, NEW p \in Processes, NEW why, Raise(p, why)
    PROVE  /\ pc'[p] = "raised" /\ SameCall(p)
           /\ call'[p].current = call[p].current /\ call'[p].reason = why
<1>1. call \in [Processes -> CallType] /\ pc \in [Processes -> Steps]
  BY DEF MigrationInvariant, TypeOK
<1>2. QED
  BY <1>1 DEF Raise, Goto, CallType, SameCall

\* A call goes where its goal leads.
LEMMA ActorKeepsGoal ==
    ASSUME MigrationInvariant, NEW p \in Processes, Act(p), KeepsGoal(p)
    PROVE  KeepsGoal(p)'
<1> USE DEF SameCall, Migrating
<1>1. /\ call \in [Processes -> CallType] /\ pc \in [Processes -> Steps]
      /\ call[p] \in CallType /\ standing' = standing
  BY ActTypes DEF MigrationInvariant, TypeOK
<1>2. ASSUME SameCall(p), pc'[p] \notin Writing \cup {"identify", "exists", "open"},
             pc'[p] \in Migrating => pc[p] \in Migrating
      PROVE  KeepsGoal(p)'
  BY <1>1, <1>2 DEF KeepsGoal
<1>3. ASSUME NEW why, Raise(p, why) PROVE KeepsGoal(p)'
  <2>1. pc'[p] = "raised" /\ SameCall(p)
    BY <1>3, RaisedCall
  <2>2. QED
    BY <1>2, <2>1 DEF Writing
<1>4. CASE CheckAbsent(p)
  <2>1. CASE Raise(p, "refused")
    BY <1>3, <2>1
  <2>2. CASE pc[p] = "exists" /\ pc'[p] = "open" /\ call' = call
    BY <1>1, <2>2 DEF KeepsGoal, Writing
  <2>3. QED
    BY <1>1, <1>4, <2>1, <2>2 DEF CheckAbsent, Goto
<1>5. CASE Open(p)
  <2>1. CASE Raise(p, "refused")
    BY <1>3, <2>1
  <2>2. CASE ~Raise(p, "refused")
    <3>1. /\ call' = [call EXCEPT ![p].handle = standing, ![p].replacedAt = "never"]
          /\ pc' = [pc EXCEPT ![p] = AfterOpen(p)]
      BY <1>5, <2>2 DEF Open, Goto
    <3>2. /\ call'[p].handle = standing /\ pc'[p] = AfterOpen(p)
          /\ call'[p].goal = call[p].goal /\ call'[p].stage = call[p].stage
      BY <1>1, <3>1 DEF CallType
    <3>3. \/ AfterOpen(p) = "version of migration" /\ call[p].stage = "create"
          \/ AfterOpen(p) = "version"
          \/ AfterOpen(p) = "identify" /\ call[p].goal = "write"
      BY DEF AfterOpen
    <3>4. QED
      BY <1>1, <3>2, <3>3 DEF KeepsGoal, Writing
  <2>3. QED
    BY <2>1, <2>2
<1>6. CASE OpenReplaced(p) \/ ValidateObjects(p) \/ Busy(p)
  BY <1>3, <1>6 DEF OpenReplaced, ValidateObjects, Busy
<1>7. CASE Identify(p) \/ ReadVersion(p) \/ DryRun(p) \/ CommitWrite(p)
  <2>1. \/ pc'[p] \in {"version", "returned"}
        \/ pc[p] = "version of migration" /\ pc'[p] = "objects of migration"
    BY <1>1, <1>7 DEF Identify, ReadVersion, DryRun, CommitWrite, Goto
  <2>2. SameCall(p)
    BY <1>1, <1>7 DEF Identify, ReadVersion, DryRun, CommitWrite, CallType
  <2>3. QED
    BY <1>2, <2>1, <2>2 DEF Writing
<1>8. CASE ValidateVersion(p) \/ ValidateMetadata(p) \/ ValidateHistory(p) \/ ReadObjects(p)
  <2>1. CASE Raise(p, "refused") \/ Raise(p, "alarm")
    BY <1>3, <2>1
  <2>2. CASE ~(Raise(p, "refused") \/ Raise(p, "alarm"))
    <3>1. /\ \/ \E step \in {"metadata", "history", "objects"} : pc' = [pc EXCEPT ![p] = step]
             \/ pc[p] = "objects of migration" /\ pc' = [pc EXCEPT ![p] = "begin"]
          /\ call' = call \/ \E n : call' = [call EXCEPT ![p].current = n]
      BY <1>8, <2>2 DEF ValidateVersion, ValidateMetadata, ValidateHistory, ReadObjects, Goto
    <3>2. \/ pc'[p] \in {"metadata", "history", "objects"}
          \/ pc[p] = "objects of migration" /\ pc'[p] = "begin"
      BY <1>1, <3>1
    <3>3. SameCall(p)
      <4>1. CASE call' = call
        BY <4>1
      <4>2. CASE \E n : call' = [call EXCEPT ![p].current = n]
        BY <1>1, <4>2 DEF CallType
      <4>3. QED
        BY <3>1, <4>1, <4>2
    <3>4. QED
      BY <1>2, <3>2, <3>3 DEF Writing
  <2>3. QED
    BY <2>1, <2>2
<1>9. CASE Validated(p)
  <2>1. CASE call[p].goal = "write"
    <3>1. pc' = [pc EXCEPT ![p] = "begin write"] /\ call' = call
      BY <1>9, <2>1 DEF Validated, Goto, KeepsGoal
    <3>2. pc'[p] = "begin write"
      BY <1>1, <3>1
    <3>3. QED
      BY <1>1, <2>1, <3>1, <3>2 DEF KeepsGoal, Writing
  <2>2. CASE call[p].goal # "write"
    <3>1. \/ /\ \E step \in {"version of migration", "backup"} : pc' = [pc EXCEPT ![p] = step]
             /\ call' = call
          \/ /\ pc' = [pc EXCEPT ![p] = "returned"]
             /\ call' = [call EXCEPT ![p].report = call[p].current]
          \/ /\ pc' = [pc EXCEPT ![p] = "version"]
             /\ call' = [call EXCEPT ![p].stage = "report"]
      BY <1>9, <2>2 DEF Validated, Goto
    <3>2. pc'[p] \in {"version of migration", "backup", "returned", "version"}
      BY <1>1, <3>1
    <3>3. /\ call'[p].goal = call[p].goal /\ call'[p].handle = call[p].handle
          /\ call'[p].stage = call[p].stage \/ call'[p].stage = "report"
      BY <1>1, <3>1 DEF CallType
    <3>4. QED
      BY <1>1, <2>2, <3>2, <3>3 DEF KeepsGoal, Writing
  <2>3. QED
    BY <2>1, <2>2
<1>10. CASE Begin(p)
  <2>1. /\ call' = call
        /\ \/ pc[p] = "begin" /\ pc'[p] = "apply"
           \/ pc[p] = "begin write" /\ pc'[p] = "check"
    BY <1>1, <1>10 DEF Begin, Goto
  <2>2. QED
    BY <1>1, <2>1 DEF KeepsGoal, Writing
<1>11. CASE ApplyMigration(p)
  <2>1. pc[p] = "apply" /\ pc'[p] \in {"begin", "raised"}
    BY <1>11, ApplyEvolves DEF ApplyMigration
  <2>2. SameCall(p)
    BY <1>1, <1>11 DEF ApplyMigration, Raise, CallType
  <2>3. QED
    BY <1>2, <2>1, <2>2 DEF Writing
<1>12. CASE EndOfMigrations(p)
  <2>1. /\ call'[p].goal = call[p].goal /\ call'[p].handle = call[p].handle
        /\ call'[p].stage \in {"first", "final"}
        /\ pc[p] = "begin" /\ pc'[p] \in {"open", "version"}
    BY <1>1, <1>12 DEF EndOfMigrations, Goto, CallType
  <2>2. QED
    BY <1>1, <2>1 DEF KeepsGoal, Writing
<1>13. CASE AssertIdentity(p)
  <2>1. CASE Raise(p, "replaced")
    BY <1>3, <2>1
  <2>2. CASE pc[p] = "check" /\ pc'[p] = "commit" /\ call' = call
    BY <1>1, <2>2 DEF KeepsGoal, Writing
  <2>3. QED
    BY <1>1, <1>13, <2>1, <2>2 DEF AssertIdentity, Goto
<1>14. CASE Finish(p) \/ Crash(p)
  <2>1. pc'[p] = "idle" /\ call'[p] = NoCall
    BY <1>1, <1>14 DEF Finish, Crash, Goto
  <2>2. /\ call'[p].goal = "inspect" /\ call'[p].stage = "first"
        /\ call'[p].handle = 1
    BY <2>1 DEF NoCall
  <2>3. QED
    BY <2>1, <2>2 DEF KeepsGoal, Writing
<1>15. ASSUME NEW goal \in Offers[p], Call(p, goal)
       PROVE  KeepsGoal(p)'
  <2>1. /\ call'[p].goal = goal /\ call'[p].handle = 1
        /\ call'[p].stage = IF goal = "initialize" THEN "create" ELSE "first"
        /\ pc'[p] = IF goal = "initialize" THEN "exists" ELSE "open"
    BY <1>1, <1>15 DEF Call, Goto, NoCall
  <2>2. QED
    BY <2>1 DEF KeepsGoal, Writing
<1>16. QED
  BY <1>4, <1>5, <1>6, <1>7, <1>8, <1>9, <1>10, <1>11, <1>12, <1>13, <1>14, <1>15
     DEF Act, Step

\* Whoever promises the latest version has seen it: initialize migrated the file
\* that stands, and the others validate once more after they migrated.
LEMMA ActorKnowsLatest ==
    ASSUME MigrationInvariant, NEW p \in Processes, Act(p), KeepsGoal(p), KnowsLatest(p)
    PROVE  KnowsLatest(p)'
<1> DEFINE h == call[p].handle
<1>1. /\ call \in [Processes -> CallType] /\ pc \in [Processes -> Steps]
      /\ call[p] \in CallType /\ standing' = standing /\ standing \in {1, 2}
      /\ files \in [Inodes -> FileType] /\ h \in Inodes /\ call[p].current \in Nat
  BY ActTypes DEF MigrationInvariant, TypeOK, CallType, Inodes
<1>2. ASSUME pc'[p] \notin Validating \cup {"open", "version"}
      PROVE  KnowsLatest(p)'
  BY <1>2 DEF KnowsLatest
<1>3. ASSUME NEW why, Raise(p, why) PROVE KnowsLatest(p)'
  <2>1. pc'[p] = "raised"
    BY <1>3, RaisedCall
  <2>2. QED
    BY <1>2, <2>1 DEF Validating
<1>4. CASE CheckAbsent(p)
  <2>1. CASE Raise(p, "refused")
    BY <1>3, <2>1
  <2>2. CASE pc[p] = "exists" /\ pc'[p] = "open" /\ call' = call
    BY <1>1, <2>2 DEF KeepsGoal, KnowsLatest, Validating
  <2>3. QED
    BY <1>1, <1>4, <2>1, <2>2 DEF CheckAbsent, Goto
<1>5. CASE Open(p)
  <2>1. CASE Raise(p, "refused")
    BY <1>3, <2>1
  <2>2. CASE ~Raise(p, "refused")
    <3>1. /\ pc[p] = "open"
          /\ files[standing].exists \/ call[p].stage = "create"
          /\ files[standing].exists => files' = files
          /\ call' = [call EXCEPT ![p].handle = standing, ![p].replacedAt = "never"]
          /\ pc' = [pc EXCEPT ![p] = AfterOpen(p)]
      BY <1>5, <2>2 DEF Open, Goto
    <3>2. /\ call'[p].handle = standing /\ pc'[p] = AfterOpen(p)
          /\ call'[p].goal = call[p].goal /\ call'[p].stage = call[p].stage
      BY <1>1, <3>1 DEF CallType
    <3>3. CASE AfterOpen(p) # "version"
      <4>1. AfterOpen(p) \in {"version of migration", "identify"}
        BY <3>3 DEF AfterOpen
      <4>2. QED
        BY <1>2, <3>2, <4>1 DEF Validating
    <3>4. CASE AfterOpen(p) = "version"
      <4>1. call[p].stage # "create" /\ call[p].stage # "report"
        BY <3>1, <3>4 DEF AfterOpen, KeepsGoal
      <4>2. files' = files
        BY <3>1, <4>1
      <4>3. PromisesLatest(p)' => call[p].goal = "initialize"
        BY <3>2, <4>1 DEF PromisesLatest
      <4>4. call[p].goal = "initialize" => standing = 2 \/ AtLatest(files[1])
        BY <3>1, <4>1 DEF KnowsLatest
      <4>5. (Opened(p))' = files[standing]
        BY <3>2, <4>2 DEF Opened
      <4>6. PromisesLatest(p)' => Excused(p)' \/ AtLatest(Opened(p))'
        <5>1. AtLatest(Opened(p))' <=> AtLatest(files[standing])
          BY <4>5 DEF AtLatest, IsStore
        <5>2. QED
          BY <1>1, <3>2, <4>3, <4>4, <5>1 DEF Excused
      <4>7. pc'[p] = "version"
        BY <3>2, <3>4
      <4>8. QED
        BY <4>6, <4>7 DEF KnowsLatest, Validating
    <3>5. QED
      BY <3>3, <3>4
  <2>3. QED
    BY <2>1, <2>2
<1>6. CASE OpenReplaced(p) \/ ValidateObjects(p) \/ Busy(p)
  BY <1>3, <1>6 DEF OpenReplaced, ValidateObjects, Busy
<1>7. CASE Identify(p)
  <2>1. /\ pc[p] = "identify" /\ pc'[p] = "version"
        /\ call' = [call EXCEPT ![p].identity = standing]
    BY <1>1, <1>7 DEF Identify, Goto
  <2>2. call'[p].goal = "write"
    BY <1>1, <2>1 DEF KeepsGoal, CallType
  <2>3. QED
    BY <2>1, <2>2 DEF KnowsLatest, PromisesLatest, Validating
<1>8. CASE ValidateVersion(p)
  <2>1. CASE Raise(p, "refused")
    BY <1>3, <2>1
  <2>2. CASE ~Raise(p, "refused")
    <3>1. /\ pc[p] = "version"
          /\ call[p].stage = "final" => Opened(p).user_version = LATEST_SCHEMA_VERSION
          /\ call' = [call EXCEPT ![p].current = Opened(p).user_version]
          /\ pc' = [pc EXCEPT ![p] = "metadata"]
      BY <1>8, <2>2 DEF ValidateVersion, LatestRequired, Goto
    <3>2. /\ pc'[p] = "metadata" /\ call'[p].current = Opened(p).user_version
          /\ call'[p].goal = call[p].goal /\ call'[p].stage = call[p].stage
      BY <1>1, <3>1 DEF CallType
    <3>3. (PromisesLatest(p)' <=> PromisesLatest(p)) /\ (Excused(p)' <=> Excused(p))
      BY <1>1, <3>2 DEF PromisesLatest, Excused
    <3>4. PromisesLatest(p) => Excused(p) \/ Opened(p).user_version = LATEST_SCHEMA_VERSION
      BY <3>1 DEF KnowsLatest, AtLatest
    <3>5. QED
      BY <3>1, <3>2, <3>3, <3>4 DEF KnowsLatest
  <2>3. QED
    BY <2>1, <2>2
<1>9. CASE ValidateMetadata(p) \/ ValidateHistory(p)
  <2>1. CASE Raise(p, "alarm")
    BY <1>3, <2>1
  <2>2. CASE ~Raise(p, "alarm")
    <3>1. /\ pc[p] \in Validating /\ call' = call
          /\ \E step \in {"history", "objects"} : pc' = [pc EXCEPT ![p] = step]
      BY <1>9, <2>2 DEF ValidateMetadata, ValidateHistory, Goto, Validating
    <3>2. pc'[p] \in {"history", "objects"}
      BY <1>1, <3>1
    <3>3. (PromisesLatest(p)' <=> PromisesLatest(p)) /\ (Excused(p)' <=> Excused(p))
      BY <1>1, <3>1 DEF PromisesLatest, Excused
    <3>4. QED
      BY <3>1, <3>2, <3>3 DEF KnowsLatest
  <2>3. QED
    BY <2>1, <2>2
<1>10. CASE Validated(p)
  <2>1. CASE pc'[p] # "version"
    <3>1. \E step \in {"begin write", "version of migration", "backup", "returned", "version"} :
             pc' = [pc EXCEPT ![p] = step]
      BY <1>10 DEF Validated, Goto
    <3>2. pc'[p] \in {"begin write", "version of migration", "backup", "returned"}
      BY <1>1, <2>1, <3>1
    <3>3. QED
      BY <1>2, <3>2 DEF Validating
  <2>2. CASE pc'[p] = "version"
    <3>1. /\ pc[p] = "objects" /\ files' = files
          /\ ~(/\ call[p].goal \in {"migrate", "dry run"} /\ call[p].stage = "first"
               /\ call[p].current # LATEST_SCHEMA_VERSION)
          /\ call[p].stage # "report"
          /\ call' = [call EXCEPT ![p].stage = "report"]
      BY <1>1, <1>10, <2>2 DEF Validated, Goto
    <3>2. /\ call'[p].goal = call[p].goal /\ call'[p].handle = h
      BY <1>1, <3>1 DEF CallType
    <3>3. (Opened(p))' = Opened(p)
      BY <3>1, <3>2 DEF Opened
    <3>4. call[p].current = LATEST_SCHEMA_VERSION => AtLatest(Opened(p))
      BY <1>10, OnlyStoresPass DEF AtLatest
    <3>5. PromisesLatest(p)' => Excused(p) \/ call[p].current = LATEST_SCHEMA_VERSION
      <4>1. CASE call[p].goal = "initialize"
        BY <3>1, <4>1 DEF KnowsLatest, PromisesLatest, Validating
      <4>2. CASE call[p].goal \in {"migrate", "dry run"}
        <5>1. call[p].stage \in {"first", "final"}
          BY <1>1, <3>1, <4>2 DEF KeepsGoal, CallType, Stages
        <5>2. QED
          BY <3>1, <4>2, <5>1 DEF KnowsLatest, Validating
      <4>3. QED
        BY <3>2, <4>1, <4>2 DEF PromisesLatest
    <3>6. PromisesLatest(p)' => Excused(p)' \/ AtLatest(Opened(p))'
      <4>1. AtLatest(Opened(p))' <=> AtLatest(Opened(p))
        BY <3>3 DEF AtLatest, IsStore
      <4>2. Excused(p) => Excused(p)'
        BY <1>1, <3>2 DEF Excused
      <4>3. QED
        BY <3>4, <3>5, <4>1, <4>2
    <3>7. QED
      BY <2>2, <3>6 DEF KnowsLatest, Validating
  <2>3. QED
    BY <2>1, <2>2
<1>11. CASE ReadVersion(p) \/ ReadObjects(p) \/ Begin(p) \/ ApplyMigration(p) \/ DryRun(p)
            \/ AssertIdentity(p) \/ CommitWrite(p) \/ Finish(p) \/ Crash(p)
  <2>1. \E step \in {"objects of migration", "begin", "apply", "check", "returned", "commit",
                    "idle", "raised"} : pc' = [pc EXCEPT ![p] = step]
    BY <1>11 DEF ReadVersion, ReadObjects, Begin, ApplyMigration, DryRun, AssertIdentity,
                 CommitWrite, Finish, Crash, Raise, Goto
  <2>2. pc'[p] \notin Validating \cup {"open", "version"}
    BY <1>1, <2>1 DEF Validating
  <2>3. QED
    BY <1>2, <2>2
<1>12. CASE EndOfMigrations(p)
  <2>1. CASE call[p].goal = "initialize"
    <3>1. /\ pc[p] = "begin" /\ call[p].current = LATEST_SCHEMA_VERSION /\ files' = files
          /\ pc'[p] = "open"
      BY <1>1, <1>12, <2>1 DEF EndOfMigrations, Goto
    <3>2. Sound(files[h]) /\ call[p].current <= files[h].user_version
      BY <3>1 DEF MigrationInvariant, MigratesStore, Migrating, Opened
    <3>3. AtLatest(files[h])
      BY <3>1, <3>2, SoundFiles DEF AtLatest, LATEST_SCHEMA_VERSION
    <3>4. standing = 2 \/ AtLatest(files[1])
      BY <1>1, <3>3 DEF KeepsGoal
    <3>5. (standing = 2 \/ AtLatest(files[1]))'
      BY <1>1, <3>1, <3>4 DEF AtLatest, IsStore
    <3>6. QED
      BY <3>1, <3>5 DEF KnowsLatest, Validating
  <2>2. CASE call[p].goal # "initialize"
    <3>1. /\ pc'[p] = "version" /\ call'[p].stage = "final" /\ call'[p].goal = call[p].goal
      BY <1>1, <1>12, <2>2 DEF EndOfMigrations, Goto, CallType
    <3>2. QED
      BY <2>2, <3>1 DEF KnowsLatest, PromisesLatest, Validating
  <2>3. QED
    BY <2>1, <2>2
<1>13. ASSUME NEW goal \in Offers[p], Call(p, goal)
       PROVE  KnowsLatest(p)'
  <2>1. /\ call'[p].goal = goal
        /\ pc'[p] = IF goal = "initialize" THEN "exists" ELSE "open"
    BY <1>1, <1>13 DEF Call, Goto, NoCall
  <2>2. QED
    BY <2>1 DEF KnowsLatest, Validating
<1>14. QED
  BY <1>4, <1>5, <1>6, <1>7, <1>8, <1>9, <1>10, <1>11, <1>12, <1>13 DEF Act, Step

\* What a call says at its end is true when it says it.
LEMMA ActorSpeaksTruly ==
    ASSUME MigrationInvariant, NEW p \in Processes, Act(p), Truthful(p)
    PROVE  SpeaksTruly(p)'
<1> DEFINE h == call[p].handle
           file == files[h]
<1>1. /\ call \in [Processes -> CallType] /\ pc \in [Processes -> Steps]
      /\ call[p] \in CallType /\ standing' = standing
      /\ files \in [Inodes -> FileType] /\ h \in Inodes /\ call[p].current \in Nat
      /\ file \in FileType /\ file.user_version \in Nat
  BY ActTypes DEF MigrationInvariant, TypeOK, CallType, FileType
<1>2. ASSUME pc'[p] \notin {"backup", "returned", "raised"}
      PROVE  SpeaksTruly(p)'
  BY <1>2 DEF SpeaksTruly
<1>3. ASSUME NEW why, Raise(p, why), why # "alarm" PROVE SpeaksTruly(p)'
  <2>1. pc'[p] = "raised" /\ call'[p].reason = why
    BY <1>3, RaisedCall
  <2>2. QED
    BY <1>3, <2>1 DEF SpeaksTruly
<1>4. ASSUME Raise(p, "alarm"), files' = files, pc[p] \in Validating,
             IsStore(file) => file.user_version # call[p].current
      PROVE  SpeaksTruly(p)'
  <2>1. /\ call[p].current \in Versions /\ call[p].current <= file.user_version
    BY <1>4 DEF MigrationInvariant, ValidatesTruly, Opened
  <2>2. Sound(file) => call[p].current < file.user_version
    <3>1. ASSUME Sound(file) PROVE IsStore(file)
      BY <1>1, <2>1, <3>1, SoundFiles DEF Versions
    <3>2. QED
      BY <1>1, <1>4, <2>1, <3>1
  <2>3. /\ pc'[p] = "raised" /\ call'[p].handle = h /\ call'[p].current = call[p].current
    BY <1>4, RaisedCall DEF SameCall
  <2>4. (Opened(p))' = file
    BY <1>4, <2>3 DEF Opened
  <2>5. Sound(Opened(p))' <=> Sound(file)
    BY <2>4 DEF Sound, IsStore
  <2>6. (Opened(p).user_version)' = file.user_version
    BY <2>4
  <2>7. QED
    BY <2>2, <2>3, <2>5, <2>6 DEF SpeaksTruly
<1>5. CASE ValidateMetadata(p)
  <2>1. CASE Raise(p, "alarm")
    <3>1. /\ files' = files /\ pc[p] = "metadata"
          /\ ~(file.quantforge /\ file.metadata = call[p].current)
      <4>1. pc[p] = "metadata" /\ files' = files
        BY <1>5 DEF ValidateMetadata
      <4>2. pc'[p] = "raised"
        BY <2>1, RaisedCall
      <4>3. pc' # [pc EXCEPT ![p] = "history"]
        BY <1>1, <4>2
      <4>4. QED
        BY <1>5, <4>1, <4>3 DEF ValidateMetadata, Goto, Opened
    <3>2. IsStore(file) => file.user_version # call[p].current
      BY <3>1 DEF IsStore, MarksAgree
    <3>3. QED
      BY <1>4, <2>1, <3>1, <3>2 DEF Validating
  <2>2. CASE ~Raise(p, "alarm")
    <3>1. pc'[p] = "history"
      BY <1>1, <1>5, <2>2 DEF ValidateMetadata, Goto
    <3>2. QED
      BY <1>2, <3>1
  <2>3. QED
    BY <2>1, <2>2
<1>6. CASE ValidateHistory(p)
  <2>1. CASE Raise(p, "alarm")
    <3>1. files' = files /\ pc[p] = "history" /\ file.history # 1..call[p].current
      <4>1. pc[p] = "history" /\ files' = files
        BY <1>6 DEF ValidateHistory
      <4>2. pc'[p] = "raised"
        BY <2>1, RaisedCall
      <4>3. pc' # [pc EXCEPT ![p] = "objects"]
        BY <1>1, <4>2
      <4>4. QED
        BY <1>6, <4>1, <4>3 DEF ValidateHistory, Goto, Opened
    <3>2. IsStore(file) => file.user_version # call[p].current
      BY <3>1 DEF IsStore, MarksAgree
    <3>3. QED
      BY <1>4, <2>1, <3>1, <3>2 DEF Validating
  <2>2. CASE ~Raise(p, "alarm")
    <3>1. pc'[p] = "objects"
      BY <1>1, <1>6, <2>2 DEF ValidateHistory, Goto
    <3>2. QED
      BY <1>2, <3>1
  <2>3. QED
    BY <2>1, <2>2
<1>7. CASE ValidateObjects(p)
  <2>1. /\ pc[p] = "objects" /\ file.objects # Schema(call[p].current) /\ files' = files
        /\ Raise(p, "alarm")
    BY <1>7 DEF ValidateObjects, Opened
  <2>2. IsStore(file) => file.user_version # call[p].current
    BY <2>1 DEF IsStore, MarksAgree
  <2>3. QED
    BY <1>4, <2>1, <2>2 DEF Validating
<1>8. CASE Validated(p)
  <2>1. /\ IsStore(file) /\ call[p].current <= file.user_version
        /\ pc[p] = "objects" /\ files' = files
    BY <1>8, OnlyStoresPass DEF Opened, Validated
  <2>2. CASE pc'[p] = "backup"
    <3>1. pc' # [pc EXCEPT ![p] = "begin write"] /\ pc' # [pc EXCEPT ![p] = "returned"]
          /\ pc' # [pc EXCEPT ![p] = "version"]
          /\ pc' # [pc EXCEPT ![p] = "version of migration"]
      BY <1>1, <2>2
    <3>2. call[p].goal = "dry run" /\ call' = call
      BY <1>8, <3>1 DEF Validated, Goto
    <3>3. (Opened(p))' = file
      BY <2>1, <3>2 DEF Opened
    <3>4. IsStore(Opened(p))'
      BY <2>1, <3>3 DEF IsStore
    <3>5. QED
      BY <2>2, <3>2, <3>4 DEF SpeaksTruly
  <2>3. CASE pc'[p] = "returned"
    <3>1. pc' # [pc EXCEPT ![p] = "begin write"] /\ pc' # [pc EXCEPT ![p] = "backup"]
          /\ pc' # [pc EXCEPT ![p] = "version"]
          /\ pc' # [pc EXCEPT ![p] = "version of migration"]
      BY <1>1, <2>3
    <3>2. /\ call[p].stage = "report"
          /\ call' = [call EXCEPT ![p].report = call[p].current]
      BY <1>8, <3>1 DEF Validated, Goto
    <3>3. /\ call'[p].report = call[p].current /\ call'[p].handle = h
          /\ call'[p].goal = call[p].goal
      BY <1>1, <3>2 DEF CallType
    <3>4. (Opened(p))' = file
      BY <2>1, <3>3 DEF Opened
    <3>5. IsStore(Opened(p))'
      BY <2>1, <3>4 DEF IsStore
    <3>6. call'[p].report \in Nat /\ call'[p].report <= (Opened(p).user_version)'
      BY <1>1, <2>1, <3>3, <3>4
    <3>7. \/ call'[p].goal \in {"write", "inspect"}
          \/ PromisesLatest(p)
      BY <1>1, <3>2, <3>3 DEF PromisesLatest, CallType, Goals
    <3>8. PromisesLatest(p) => Excused(p) \/ call[p].current = LATEST_SCHEMA_VERSION
      BY <2>1 DEF Truthful, KnowsLatest, Validating
    <3>9. Excused(p) => Excused(p)'
      BY <1>1, <3>3 DEF Excused
    <3>10. QED
      BY <2>3, <3>3, <3>5, <3>6, <3>7, <3>8, <3>9 DEF SpeaksTruly
  <2>4. CASE pc'[p] \notin {"backup", "returned"}
    <3>1. \E step \in {"begin write", "version of migration", "backup", "returned", "version"} :
             pc' = [pc EXCEPT ![p] = step]
      BY <1>8 DEF Validated, Goto
    <3>2. pc'[p] \in {"begin write", "version of migration", "version"}
      BY <1>1, <2>4, <3>1
    <3>3. QED
      BY <1>2, <3>2
  <2>5. QED
    BY <2>2, <2>3, <2>4
<1>9. CASE DryRun(p)
  <2>1. /\ pc[p] = "backup" /\ pc'[p] = "returned" /\ files' = files
        /\ call' = [call EXCEPT ![p].report = MigratedCopy(file).user_version]
    BY <1>1, <1>9 DEF DryRun, Goto, Opened
  <2>2. call[p].goal = "dry run" /\ IsStore(file)
    BY <2>1 DEF Truthful, SpeaksTruly, Opened
  <2>3. MigratedCopy(file).user_version = LATEST_SCHEMA_VERSION
    BY <1>1, <2>2, CopyIsMigrated DEF IsStore, MarksAgree
  <2>4. /\ call'[p].report = LATEST_SCHEMA_VERSION /\ call'[p].handle = h
        /\ call'[p].goal = "dry run"
    BY <1>1, <2>1, <2>2, <2>3 DEF CallType
  <2>5. (Opened(p))' = file
    BY <2>1, <2>4 DEF Opened
  <2>6. IsStore(Opened(p))'
    BY <2>2, <2>5 DEF IsStore
  <2>7. QED
    BY <2>1, <2>4, <2>6 DEF SpeaksTruly
<1>10. CASE CommitWrite(p)
  <2>1. pc[p] = "commit" /\ pc'[p] = "returned" /\ call' = call
    BY <1>1, <1>10 DEF CommitWrite, Goto
  <2>2. call'[p].goal = "write"
    BY <2>1 DEF Truthful, KeepsGoal, Writing
  <2>3. QED
    BY <2>1, <2>2 DEF SpeaksTruly
<1>11. CASE CheckAbsent(p) \/ Open(p) \/ OpenReplaced(p) \/ ValidateVersion(p) \/ ReadObjects(p)
            \/ Busy(p) \/ ApplyMigration(p) \/ AssertIdentity(p)
  <2>1. CASE \E why \in {"refused", "busy", "statement", "replaced"} : Raise(p, why)
    BY <1>3, <2>1
  <2>2. CASE ~\E why \in {"refused", "busy", "statement", "replaced"} : Raise(p, why)
    <3>1. \E step \in {"open", "version of migration", "identify", "version", "metadata",
                      "begin", "commit"} : pc' = [pc EXCEPT ![p] = step]
      BY <1>11, <2>2 DEF CheckAbsent, Open, OpenReplaced, ValidateVersion, ReadObjects, Busy,
                         ApplyMigration, AssertIdentity, AfterOpen, Goto
    <3>2. pc'[p] \notin {"backup", "returned", "raised"}
      BY <1>1, <3>1
    <3>3. QED
      BY <1>2, <3>2
  <2>3. QED
    BY <2>1, <2>2
<1>12. CASE Identify(p) \/ ReadVersion(p) \/ Begin(p) \/ EndOfMigrations(p) \/ Finish(p)
            \/ Crash(p)
  <2>1. \E step \in {"version", "objects of migration", "apply", "check", "open", "idle"} :
           pc' = [pc EXCEPT ![p] = step]
    BY <1>12 DEF Identify, ReadVersion, Begin, EndOfMigrations, Finish, Crash, Goto
  <2>2. pc'[p] \notin {"backup", "returned", "raised"}
    BY <1>1, <2>1
  <2>3. QED
    BY <1>2, <2>2
<1>13. ASSUME NEW goal \in Offers[p], Call(p, goal)
       PROVE  SpeaksTruly(p)'
  <2>1. pc'[p] \in {"exists", "open"}
    BY <1>1, <1>13 DEF Call, Goto
  <2>2. QED
    BY <1>2, <2>1
<1>14. QED
  BY <1>5, <1>6, <1>7, <1>8, <1>9, <1>10, <1>11, <1>12, <1>13 DEF Act, Step

\* Whatever a call reports was reached by the database that it has open, and
\* what it promises is there; an alarm concerns no store of QuantForge's, or one
\* that was migrated while it was read (initialize, migrate, dry_run, inspect,
\* _validate_schema).
THEOREM CallsAlwaysTellTheTruth == Spec => []CallsTellTheTruth
<1> DEFINE Inv == \A p \in Processes : Truthful(p)
<1>1. ASSUME Init PROVE Inv
  <2> SUFFICES ASSUME NEW p \in Processes PROVE Truthful(p)
    OBVIOUS
  <2>1. pc[p] = "idle" /\ call[p].handle = 1 /\ call[p].stage = "first" /\ call[p].goal = "inspect"
    BY <1>1 DEF Init, NoCall
  <2>2. QED
    BY <2>1 DEF Truthful, KeepsGoal, KnowsLatest, SpeaksTruly, Writing, Validating
<1>2. ASSUME Inv, MigrationInvariant, [Next]_vars
      PROVE  Inv'
  <2> SUFFICES ASSUME NEW q \in Processes PROVE Truthful(q)'
    OBVIOUS
  <2>1. Truthful(q)
    BY <1>2
  <2>2. files' \in [Inodes -> FileType] /\ \A i \in Inodes : Evolves(i)
    BY <1>2, NextMigration DEF MigrationInvariant, TypeOK
  <2>3. ASSUME NEW p \in Processes, Act(p), q # p
        PROVE  Truthful(q)'
    <3>1. pc'[q] = pc[q] /\ call'[q] = call[q] /\ standing' = standing
      BY <1>2, <2>3, ActTypes
    <3>2. QED
      BY <1>2, <2>1, <2>2, <3>1, TruthLasts
  <2>4. ASSUME Act(q)
        PROVE  Truthful(q)'
    BY <1>2, <2>1, <2>4, ActorKeepsGoal, ActorKnowsLatest, ActorSpeaksTruly DEF Truthful
  <2>5. CASE Restore
    <3>1. /\ pc' = pc /\ standing' = 2
          /\ call'[q] = IF pc[q] \in Unwatched THEN [call[q] EXCEPT !.replacedAt = pc[q]]
                        ELSE call[q]
      BY <2>5 DEF Restore
    <3>2. call[q] \in CallType
      BY <1>2 DEF MigrationInvariant, TypeOK
    <3>3. /\ call'[q].goal = call[q].goal /\ call'[q].stage = call[q].stage
          /\ call'[q].handle = call[q].handle /\ call'[q].current = call[q].current
          /\ call'[q].report = call[q].report /\ call'[q].reason = call[q].reason
      BY <3>1, <3>2 DEF CallType
    <3>4. QED
      BY <1>2, <2>1, <2>2, <3>1, <3>3, TruthLasts
  <2>6. CASE UNCHANGED vars
    <3>1. pc' = pc /\ call' = call /\ standing' = standing
      BY <2>6 DEF vars
    <3>2. QED
      BY <1>2, <2>1, <2>2, <3>1, TruthLasts
  <2>7. QED
    BY <1>2, <2>3, <2>4, <2>5, <2>6 DEF Next, Act
<1>3. ASSUME Inv, MigrationInvariant
      PROVE  CallsTellTheTruth
  <2>1. \A p \in Processes : SpeaksTruly(p)
    BY <1>3 DEF Truthful
  <2>2. ReportsAreTrue
    BY <2>1 DEF ReportsAreTrue, SpeaksTruly, Excused
  <2>3. ASSUME NEW p \in Processes, pc[p] = "raised", call[p].reason = "alarm", Sound(Opened(p))
        PROVE  Opened(p).user_version # call[p].current
    <3>1. call[p].current < Opened(p).user_version
      BY <2>1, <2>3 DEF SpeaksTruly
    <3>2. call[p].current \in Nat
      BY <1>3 DEF MigrationInvariant, TypeOK, CallType
    <3>3. QED
      BY <3>1, <3>2
  <2>4. AlarmsAreExplained
    BY <2>3 DEF AlarmsAreExplained
  <2>5. QED
    BY <2>2, <2>4 DEF CallsTellTheTruth
<1>4. Inv /\ MigrationInvariant => CallsTellTheTruth
  BY <1>3
<1>5. Inv /\ MigrationInvariant /\ [Next]_vars => Inv'
  BY <1>2
<1>6. Init => Inv
  BY <1>1
<1> HIDE DEF Inv
<1>7. QED
  BY <1>4, <1>5, <1>6, MigrationIsInvariant, PTL DEF Spec
===============================================================================
