------------------------ MODULE EngineExecutionProofs ------------------------
(***************************************************************************)
(* The execution of the engine, for every number of executions, crashes    *)
(* and alterations.                                                        *)
(*                                                                         *)
(* The argument for the inputs: a part that a child found altered stays    *)
(* altered, where it was found, until its alteration is undone; so it      *)
(* shows in the executable, in the staged files or in the repository when  *)
(* the execution compares them.  The argument for the results: they have   *)
(* two contents, so the number of changes since the inventory tells which, *)
(* and each comparison raises the number that facts of the other content   *)
(* need.                                                                   *)
(*                                                                         *)
(* The argument for the outcome: a receipt is used up once, in the step    *)
(* that admits its evidence or is refused, and the store's own invariant   *)
(* ties the bundle to the receipt and to the sixth event.  When the case   *)
(* is read for the answer, the row that was read bounds the log from below *)
(* and a graph that it anchors is still there, so two reads that do not    *)
(* fit show that the case has moved on or been given a graph.              *)
(***************************************************************************)
EXTENDS EngineExecution, TLAPS

StoreFacts == INSTANCE CaseStoreProofs

Steps ==
    { "idle", "snapshot", "identity", "snapshot again", "stage", "launch", "waiting", "check",
      "boundary", "inventory", "facts", "receipt", "verify inventory", "verify facts",
      "verify sources", "consume", "admit", "answer", "answer log", "answer graph", "returned",
      "raised", "interrupted", "crashed" }

Contents == {"produced", "changed"}

\* The locals of a call; what it has seen of the case does not matter here.
IsRun(r) ==
    r \in [ seen : {r.seen}, before : SUBSET Parts, stagedBefore : SUBSET StagedParts,
            command : 1..Len(Commands), validated : Contents \cup {"nothing"},
            inventory : Contents \cup {"nothing"}, facts : Contents \cup {"nothing"},
            receipt : {r.receipt}, row : {r.row}, tainted : SUBSET Parts, undone : SUBSET Parts,
            slipped : BOOLEAN, flips : Nat ]

TypeOK ==
    /\ altered \in SUBSET Parts
    /\ staged \in [Receipts -> SUBSET StagedParts]
    /\ results \in [Receipts -> Contents \cup {"nothing"}]
    /\ child \in [Receipts -> {"none", "running", "succeeded", "failed"}]
    /\ pc \in [Receipts -> Steps]
    /\ run = [t \in Receipts |-> run[t]]
    /\ \A t \in Receipts : IsRun(run[t])

\* The steps before the release was verified, and before the staged files were
\* compared for the last time.
Beginning == {"snapshot", "identity"}
Unstaged  == Beginning \cup {"snapshot again", "stage"}
Children  == {"launch", "waiting", "check"}
Certified == {"inventory", "facts", "receipt"} \cup Trusted

\* Where an altered part that a child depended on must still show.
AlterationsShow(t) ==
    /\ pc[t] = "idle" => run[t] = NoRun /\ staged[t] = {}
    /\ pc[t] \in Unstaged => run[t].command = 1
    /\ pc[t] \in Unstaged \cup Children /\ run[t].command = 1 =>
         staged[t] = {} /\ run[t].stagedBefore = {}
    /\ pc[t] \in Beginning => run[t].tainted = {}
    /\ pc[t] = "identity" => run[t].before \cap StagedParts \subseteq run[t].undone \cup altered
    /\ pc[t] \in {"snapshot again", "stage", "boundary"} \cup Children =>
         /\ run[t].before \cap StagedParts \subseteq run[t].undone
         /\ run[t].stagedBefore \subseteq run[t].undone \cup altered
         /\ run[t].tainted \subseteq run[t].undone \cup (altered \cap {"executable"}) \cup staged[t]
    /\ pc[t] = "boundary" => run[t].tainted \subseteq run[t].undone \cup run[t].stagedBefore
    /\ pc[t] \in Certified => run[t].tainted \subseteq run[t].undone

\* When there are results, and when the inventory was taken.
ResultsExist(t) ==
    /\ pc[t] = "waiting" /\ run[t].command = 5 /\ child[t] = "succeeded" =>
         results[t] # "nothing"
    /\ pc[t] = "check" /\ run[t].command = 5 => results[t] # "nothing"
    /\ pc[t] \in Children /\ run[t].command = 6 => results[t] # "nothing"
    /\ pc[t] \in Unstaged \cup Children \cup {"boundary", "inventory"} =>
         run[t].inventory = "nothing" /\ run[t].flips = 0

\* The steps at which facts of other results than the inventory's mean at least
\* so many changes since the inventory.
Changes(step) ==
    IF step \in {"receipt", "verify inventory"} THEN 1
    ELSE IF step = "verify facts" THEN 2 ELSE 3

\* What is known of the results and of what was read of them.
ResultsTraced(t) ==
    /\ (pc[t] = "check" /\ run[t].command = 6) \/ pc[t] \in {"boundary", "inventory"} =>
         /\ results[t] # "nothing" /\ run[t].validated # "nothing"
         /\ results[t] = run[t].validated \/ run[t].slipped
    /\ pc[t] \in Certified \ {"inventory"} =>
         /\ run[t].inventory # "nothing"
         /\ run[t].inventory = run[t].validated \/ run[t].slipped
    /\ pc[t] \in Certified \ ({"inventory", "returned"} \cup Answering) =>
         /\ results[t] # "nothing"
         /\ results[t] = run[t].inventory <=> run[t].flips % 2 = 0
    /\ pc[t] \in Certified \ {"inventory", "facts"} =>
         /\ run[t].facts # "nothing"
         /\ run[t].facts = run[t].inventory \/ run[t].flips >= Changes(pc[t])

Governed(t) == AlterationsShow(t) /\ ResultsExist(t) /\ ResultsTraced(t)

ExecutionInvariant == TypeOK /\ \A t \in Receipts : Governed(t)

-----------------------------------------------------------------------------

\* Changing twice is not changing.
LEMMA Parity ==
    \A n \in Nat : /\ (n + 1) % 2 = 0 <=> n % 2 # 0
                   /\ n % 2 = 0 /\ n >= 1 => n >= 2
                   /\ n % 2 # 0 /\ n >= 2 => n >= 3
OBVIOUS

\* A call that raised or crashed has forgotten everything.
LEMMA NothingAfterRaise ==
    ASSUME NEW t \in Receipts, pc'[t] \in {"raised", "interrupted", "crashed"}
    PROVE  Governed(t)'
BY DEF Governed, AlterationsShow, ResultsExist, ResultsTraced, Unstaged, Beginning, Children,
       Certified, Trusted, Answering

\* No call has begun.
LEMMA InitExecution == Init => ExecutionInvariant
<1> SUFFICES ASSUME Init PROVE ExecutionInvariant
  OBVIOUS
<1>1. IsRun(NoRun)
  BY DEF IsRun, NoRun, Commands
<1>2. TypeOK
  BY <1>1 DEF Init, TypeOK, Steps
<1>3. ASSUME NEW t \in Receipts PROVE Governed(t)
  BY DEF Init, Governed, AlterationsShow, ResultsExist, ResultsTraced, Unstaged, Beginning,
         Children, Certified, Trusted, Answering
<1>4. QED
  BY <1>2, <1>3 DEF ExecutionInvariant

\* What a call may write into its locals.
LEMMA LocalsAreTyped ==
    ASSUME NEW r, IsRun(r), NEW parts \in SUBSET Parts, NEW copied \in SUBSET StagedParts,
           NEW content \in Contents \cup {"nothing"}, NEW n \in 1..Len(Commands), NEW any
    PROVE  /\ IsRun([r EXCEPT !.seen = any])
           /\ IsRun([r EXCEPT !.before = parts])
           /\ IsRun([r EXCEPT !.stagedBefore = copied, !.command = n])
           /\ IsRun([r EXCEPT !.tainted = parts])
           /\ IsRun([r EXCEPT !.validated = content])
           /\ IsRun([r EXCEPT !.command = n])
           /\ IsRun([r EXCEPT !.inventory = content])
           /\ IsRun([r EXCEPT !.facts = content])
           /\ IsRun([r EXCEPT !.receipt = any])
           /\ IsRun([r EXCEPT !.row = any])
           /\ IsRun([r EXCEPT !.undone = parts])
<1>1. IsRun([r EXCEPT !.seen = any])
  BY DEF IsRun
<1>2. IsRun([r EXCEPT !.before = parts])
  BY DEF IsRun
<1>3. IsRun([r EXCEPT !.stagedBefore = copied, !.command = n])
  BY DEF IsRun
<1>4. IsRun([r EXCEPT !.tainted = parts])
  BY DEF IsRun
<1>5. IsRun([r EXCEPT !.validated = content])
  BY DEF IsRun
<1>6. IsRun([r EXCEPT !.command = n])
  BY DEF IsRun
<1>7. IsRun([r EXCEPT !.inventory = content])
  BY DEF IsRun
<1>8. IsRun([r EXCEPT !.facts = content])
  BY DEF IsRun
<1>9. IsRun([r EXCEPT !.receipt = any])
  BY DEF IsRun
<1>10. IsRun([r EXCEPT !.undone = parts])
  BY DEF IsRun
<1>11. IsRun([r EXCEPT !.row = any])
  BY DEF IsRun
<1>12. QED
  BY <1>1, <1>2, <1>3, <1>4, <1>5, <1>6, <1>7, <1>8, <1>9, <1>10, <1>11

\* What an execution and its child touch is their own.
LEMMA OwnSteps ==
    ASSUME TypeOK, NEW t \in Receipts,
           Start(t) \/ Step(t) \/ LeaveChild(t) \/ Crash(t) \/ ChildEnds(t)
    PROVE  /\ TypeOK' /\ altered' = altered
           /\ \A u \in Receipts : u # t =>
                /\ staged'[u] = staged[u] /\ results'[u] = results[u] /\ child'[u] = child[u]
                /\ pc'[u] = pc[u] /\ run'[u] = run[u]
<1>1. /\ staged \in [Receipts -> SUBSET StagedParts]
      /\ results \in [Receipts -> Contents \cup {"nothing"}]
      /\ child \in [Receipts -> {"none", "running", "succeeded", "failed"}]
      /\ pc \in [Receipts -> Steps] /\ run = [u \in Receipts |-> run[u]]
      /\ \A u \in Receipts : IsRun(run[u])
      /\ altered \in SUBSET Parts
  BY DEF TypeOK
<1>2. IsRun(NoRun)
  BY DEF IsRun, NoRun, Commands
<1> DEFINE Own == /\ TypeOK' /\ altered' = altered
                  /\ \A u \in Receipts : u # t =>
                       /\ staged'[u] = staged[u] /\ results'[u] = results[u]
                       /\ child'[u] = child[u] /\ pc'[u] = pc[u] /\ run'[u] = run[u]
<1>3. ASSUME NEW step \in Steps, Goto(t, step),
             run' = run \/ \E r : IsRun(r) /\ run' = [run EXCEPT ![t] = r],
             child' = child \/ \E s \in {"none", "running"} : child' = [child EXCEPT ![t] = s],
             staged' = staged \/ staged' = [staged EXCEPT ![t] = CopiedFiles],
             results' = results, altered' = altered
      PROVE  Own
  <2>1. /\ pc' \in [Receipts -> Steps]
        /\ \A u \in Receipts : u # t => pc'[u] = pc[u]
    BY <1>1, <1>3 DEF Goto
  <2>2. /\ run' = [u \in Receipts |-> run'[u]] /\ \A u \in Receipts : IsRun(run'[u])
        /\ \A u \in Receipts : u # t => run'[u] = run[u]
    BY <1>1, <1>3
  <2>3. /\ child' \in [Receipts -> {"none", "running", "succeeded", "failed"}]
        /\ \A u \in Receipts : u # t => child'[u] = child[u]
    BY <1>1, <1>3
  <2>4. /\ staged' \in [Receipts -> SUBSET StagedParts]
        /\ \A u \in Receipts : u # t => staged'[u] = staged[u]
    BY <1>1, <1>3 DEF CopiedFiles
  <2>5. QED
    BY <1>1, <1>3, <2>1, <2>2, <2>3, <2>4 DEF TypeOK
<1>4. ASSUME Raise(t), results' = results, altered' = altered, staged' = staged,
             child' = child \/ child' = [child EXCEPT ![t] = "none"]
      PROVE  Own
  <2>1. "raised" \in Steps /\ Goto(t, "raised") /\ run' = [run EXCEPT ![t] = NoRun]
    BY <1>4 DEF Raise, Steps
  <2>2. QED
    BY <1>2, <1>3, <1>4, <2>1
<1>5. /\ 2 \in 1..Len(Commands) /\ Len(Commands) = 6
      /\ \A n \in 1..Len(Commands) : n < Len(Commands) => n + 1 \in 1..Len(Commands)
  BY DEF Commands
<1>6. CASE Start(t)
  <2>1. IsRun([run[t] EXCEPT !.seen = events])
    BY <1>1, <1>5, LocalsAreTyped
  <2>2. run' = [run EXCEPT ![t] = [run[t] EXCEPT !.seen = events]]
    BY <1>1, <1>6 DEF Start
  <2>3. QED
    BY <1>3, <1>6, <2>1, <2>2 DEF Start, fileVars, Steps
<1>7. CASE SnapshotBefore(t)
  <2>1. IsRun([run[t] EXCEPT !.before = RepositorySnapshot])
    BY <1>1, <1>5, LocalsAreTyped DEF RepositorySnapshot
  <2>2. run' = [run EXCEPT ![t] = [run[t] EXCEPT !.before = RepositorySnapshot]]
    BY <1>1, <1>7 DEF SnapshotBefore
  <2>3. QED
    BY <1>3, <1>7, <2>1, <2>2 DEF SnapshotBefore, fileVars, Steps
<1>8. CASE StageInputs(t)
  <2>1. IsRun([run[t] EXCEPT !.stagedBefore = CopiedFiles, !.command = 2])
    BY <1>1, <1>5, LocalsAreTyped DEF CopiedFiles
  <2>2. run' = [run EXCEPT ![t] = [run[t] EXCEPT !.stagedBefore = CopiedFiles, !.command = 2]]
    BY <1>1, <1>8 DEF StageInputs
  <2>3. QED
    BY <1>3, <1>8, <2>1, <2>2 DEF StageInputs, Steps
<1>9. CASE Launch(t)
  <2> DEFINE seen == run[t].tainted \cup (AlteredParts(t) \cap Commands[run[t].command].uses)
  <2>1. seen \in SUBSET Parts
    BY <1>1 DEF IsRun, AlteredParts, Parts, RepositoryParts, StagedParts
  <2>2. IsRun([run[t] EXCEPT !.tainted = seen])
    BY <1>1, <1>5, <2>1, LocalsAreTyped
  <2>3. run' = [run EXCEPT ![t] = [run[t] EXCEPT !.tainted = seen]]
    BY <1>1, <1>9 DEF Launch
  <2>4. QED
    BY <1>3, <1>9, <2>2, <2>3 DEF Launch, fileVars, Steps
<1>10. CASE Collect(t)
  <2>1. CASE child[t] = "failed"
    BY <1>4, <1>10, <2>1 DEF Collect, fileVars
  <2>2. CASE child[t] # "failed"
    <3> DEFINE read == IF run[t].command = Len(Commands) THEN results[t] ELSE run[t].validated
               step == IF run[t].command = 1 THEN "snapshot again" ELSE "check"
    <3>1. read \in Contents \cup {"nothing"}
      BY <1>1 DEF IsRun
    <3>2. IsRun([run[t] EXCEPT !.validated = read])
      BY <1>1, <1>5, <3>1, LocalsAreTyped
    <3>3. run' = [run EXCEPT ![t] = [run[t] EXCEPT !.validated = read]] /\ Goto(t, step)
      BY <1>1, <1>10, <2>2 DEF Collect
    <3>4. step \in Steps
      BY DEF Steps
    <3>5. QED
      BY <1>3, <1>10, <3>2, <3>3, <3>4 DEF Collect, fileVars
  <2>3. QED
    BY <2>1, <2>2
<1>11. CASE CheckIdentity(t)
  <2>1. CASE Raise(t)
    BY <1>4, <1>11, <2>1 DEF CheckIdentity, fileVars
  <2>2. CASE ~Raise(t) /\ run[t].command < Len(Commands)
    <3>1. IsRun([run[t] EXCEPT !.command = run[t].command + 1])
      <4>1. run[t].command \in 1..Len(Commands)
        BY <1>1 DEF IsRun
      <4>2. run[t].command + 1 \in 1..Len(Commands)
        BY <1>5, <2>2, <4>1
      <4>3. QED
        BY <1>1, <1>5, <4>2, LocalsAreTyped
    <3>2. run' = [run EXCEPT ![t] = [run[t] EXCEPT !.command = run[t].command + 1]]
      BY <1>1, <1>11, <2>2 DEF CheckIdentity
    <3>3. QED
      BY <1>3, <1>11, <2>2, <3>1, <3>2 DEF CheckIdentity, fileVars, Steps
  <2>3. CASE ~Raise(t) /\ ~(run[t].command < Len(Commands))
    BY <1>3, <1>11, <2>3 DEF CheckIdentity, fileVars, Steps
  <2>4. QED
    BY <2>1, <2>2, <2>3
<1>12. CASE InventoryOutputs(t)
  <2>1. IsRun([run[t] EXCEPT !.inventory = results[t]])
    BY <1>1, <1>5, LocalsAreTyped
  <2>2. run' = [run EXCEPT ![t] = [run[t] EXCEPT !.inventory = results[t]]]
    BY <1>1, <1>12 DEF InventoryOutputs
  <2>3. QED
    BY <1>3, <1>12, <2>1, <2>2 DEF InventoryOutputs, fileVars, Steps
<1>13. CASE ExtractFacts(t)
  <2>1. IsRun([run[t] EXCEPT !.facts = results[t]])
    BY <1>1, <1>5, LocalsAreTyped
  <2>2. run' = [run EXCEPT ![t] = [run[t] EXCEPT !.facts = results[t]]]
    BY <1>1, <1>13 DEF ExtractFacts
  <2>3. QED
    BY <1>3, <1>13, <2>1, <2>2 DEF ExtractFacts, fileVars, Steps
<1>14. CASE IssueReceipt(t)
  <2>1. IsRun([run[t] EXCEPT !.receipt = ReceiptRecord(t)])
    BY <1>1, <1>5, LocalsAreTyped
  <2>2. run' = [run EXCEPT ![t] = [run[t] EXCEPT !.receipt = ReceiptRecord(t)]]
    BY <1>1, <1>14 DEF IssueReceipt
  <2>3. QED
    BY <1>3, <1>14, <2>1, <2>2 DEF IssueReceipt, fileVars, Steps
<1>15. CASE VerifyRelease(t) \/ SnapshotAgain(t) \/ SnapshotAfter(t) \/ VerifyInventory(t)
            \/ VerifyFacts(t) \/ VerifySources(t) \/ ConsumeReceipt(t) \/ Admit(t)
            \/ ReadLog(t) \/ Answer(t)
  <2>1. /\ child' = child /\ staged' = staged /\ results' = results /\ altered' = altered
        /\ \/ Raise(t)
           \/ /\ run' = run
              /\ \E step \in { "launch", "stage", "inventory", "verify facts", "verify sources",
                               "consume", "admit", "answer", "answer graph", "returned" } :
                   Goto(t, step)
    BY <1>15 DEF VerifyRelease, SnapshotAgain, SnapshotAfter, VerifyInventory, VerifyFacts,
                 VerifySources, ConsumeReceipt, Admit, ReadLog, Answer, fileVars
  <2>2. QED
    BY <1>3, <1>4, <2>1 DEF Steps
<1>16. CASE KillChild(t) \/ BoundaryCrossed(t) \/ OutputsMalformed(t) \/ BundleRefused(t)
  BY <1>4, <1>16 DEF KillChild, BoundaryCrossed, OutputsMalformed, BundleRefused, fileVars
<1>17. CASE LeaveChild(t) \/ Crash(t)
  BY <1>2, <1>3, <1>17 DEF LeaveChild, Crash, fileVars, Steps
<1>18. CASE ChildEnds(t)
  <2>1. /\ altered' = altered /\ staged' = staged /\ pc' = pc /\ run' = run
        /\ \E s \in {"none", "succeeded", "failed"} : child' = [child EXCEPT ![t] = s]
        /\ \E c \in {"produced", results[t]} : results' = [results EXCEPT ![t] = c]
    BY <1>18 DEF ChildEnds
  <2>2. /\ child' \in [Receipts -> {"none", "running", "succeeded", "failed"}]
        /\ \A u \in Receipts : u # t => child'[u] = child[u]
    BY <1>1, <2>1
  <2>3. /\ results' \in [Receipts -> Contents \cup {"nothing"}]
        /\ \A u \in Receipts : u # t => results'[u] = results[u]
    BY <1>1, <2>1 DEF Contents
  <2>4. QED
    BY <1>1, <2>1, <2>2, <2>3 DEF TypeOK
<1>19. CASE ReadRow(t)
  <2>1. IsRun([run[t] EXCEPT !.row = row])
    BY <1>1, <1>5, LocalsAreTyped
  <2>2. run' = [run EXCEPT ![t] = [run[t] EXCEPT !.row = row]]
    BY <1>1, <1>19 DEF ReadRow
  <2>3. QED
    BY <1>3, <1>19, <2>1, <2>2 DEF ReadRow, fileVars, Steps
<1>20. QED
  BY <1>6, <1>7, <1>8, <1>9, <1>10, <1>11, <1>12, <1>13, <1>14, <1>15, <1>16, <1>17, <1>18,
     <1>19 DEF Step

\* What is known of an execution outlasts the steps of the others.
LEMMA OthersKeepGoverned ==
    ASSUME NEW u \in Receipts, Governed(u), altered' = altered,
           staged'[u] = staged[u], results'[u] = results[u], child'[u] = child[u],
           pc'[u] = pc[u], run'[u] = run[u]
    PROVE  Governed(u)'
<1>1. AlterationsShow(u)'
  BY DEF Governed, AlterationsShow
<1>2. ResultsExist(u)'
  BY DEF Governed, ResultsExist
<1>3. ResultsTraced(u)'
  BY DEF Governed, ResultsTraced
<1>4. QED
  BY <1>1, <1>2, <1>3 DEF Governed

\* The first part of an execution, until the validator has passed: an altered
\* part that a child depends on shows.
LEMMA ChildrenKeepGoverned ==
    ASSUME TypeOK, NEW t \in Receipts, Governed(t), TypeOK',
           Start(t) \/ SnapshotBefore(t) \/ VerifyRelease(t) \/ SnapshotAgain(t)
             \/ StageInputs(t) \/ Launch(t) \/ KillChild(t) \/ Collect(t) \/ CheckIdentity(t)
             \/ BoundaryCrossed(t) \/ SnapshotAfter(t) \/ ChildEnds(t)
    PROVE  Governed(t)'
<1> DEFINE r == run[t]
<1>1. /\ IsRun(r) /\ IsRun(run'[t]) /\ pc[t] \in Steps /\ staged[t] \in SUBSET StagedParts
      /\ results[t] \in Contents \cup {"nothing"} /\ altered \in SUBSET Parts
      /\ child \in [Receipts -> {"none", "running", "succeeded", "failed"}]
      /\ staged \in [Receipts -> SUBSET StagedParts] /\ pc \in [Receipts -> Steps]
      /\ results \in [Receipts -> Contents \cup {"nothing"}]
      /\ run = [u \in Receipts |-> run[u]]
  BY DEF TypeOK
<1>2. AlterationsShow(t) /\ ResultsExist(t) /\ ResultsTraced(t)
  BY DEF Governed
<1>3. ASSUME Raise(t) PROVE Governed(t)'
  <2>1. pc'[t] \in {"raised", "interrupted", "crashed"}
    BY <1>1, <1>3 DEF Raise, Goto
  <2>2. QED
    BY <2>1, NothingAfterRaise
<1>4. CASE Start(t)
  <2>1. /\ pc'[t] = "snapshot" /\ pc[t] = "idle" /\ run'[t] = [r EXCEPT !.seen = events]
        /\ staged' = staged
    BY <1>1, <1>4 DEF Start, Goto, fileVars
  <2>2. r = NoRun /\ staged[t] = {}
    BY <1>2, <2>1 DEF AlterationsShow
  <2>3. /\ run'[t].command = 1 /\ run'[t].tainted = {} /\ run'[t].inventory = "nothing"
        /\ run'[t].flips = 0 /\ run'[t].stagedBefore = {}
    BY <2>1, <2>2 DEF NoRun
  <2>4. QED
    BY <2>1, <2>2, <2>3
       DEF Governed, AlterationsShow, ResultsExist, ResultsTraced, Unstaged, Beginning, Children,
           Certified, Trusted, Answering
<1>5. CASE SnapshotBefore(t)
  <2>1. /\ pc'[t] = "identity" /\ pc[t] = "snapshot"
        /\ run'[t] = [r EXCEPT !.before = RepositorySnapshot] /\ staged' = staged
    BY <1>1, <1>5 DEF SnapshotBefore, Goto, fileVars
  <2>2. /\ run'[t].command = r.command /\ run'[t].tainted = r.tainted
        /\ run'[t].inventory = r.inventory /\ run'[t].flips = r.flips
        /\ run'[t].stagedBefore = r.stagedBefore
        /\ run'[t].before \cap StagedParts \subseteq altered'
    BY <1>1, <1>5, <2>1 DEF IsRun, RepositorySnapshot, SnapshotBefore, fileVars
  <2>3. QED
    BY <1>2, <2>1, <2>2
       DEF Governed, AlterationsShow, ResultsExist, ResultsTraced, Unstaged, Beginning, Children,
           Certified, Trusted, Answering
<1>6. CASE VerifyRelease(t)
  <2>1. CASE Raise(t)
    BY <1>3, <2>1
  <2>2. CASE ~Raise(t)
    <3>1. /\ pc'[t] = "launch" /\ pc[t] = "identity" /\ run' = run /\ staged' = staged
          /\ altered' = altered /\ altered \cap StagedParts = {}
      BY <1>1, <1>6, <2>2 DEF VerifyRelease, ReleaseApproved, Goto, fileVars
    <3>2. /\ r.before \cap StagedParts \subseteq r.undone
          /\ r.stagedBefore = {} /\ r.command = 1 /\ r.tainted = {} /\ staged[t] = {}
          /\ r.inventory = "nothing" /\ r.flips = 0
      BY <1>2, <3>1 DEF AlterationsShow, ResultsExist, Unstaged, Beginning
    <3>3. QED
      BY <1>2, <3>1, <3>2
         DEF Governed, AlterationsShow, ResultsExist, ResultsTraced, Unstaged, Beginning, Children,
             Certified, Trusted, Answering
  <2>3. QED
    BY <2>1, <2>2
<1>7. CASE SnapshotAgain(t)
  <2>1. CASE Raise(t)
    BY <1>3, <2>1
  <2>2. CASE ~Raise(t)
    <3>1. /\ pc'[t] = "stage" /\ pc[t] = "snapshot again" /\ run' = run /\ staged' = staged
          /\ altered' = altered
      BY <1>1, <1>7, <2>2 DEF SnapshotAgain, Goto, fileVars
    <3>2. QED
      BY <1>2, <3>1
         DEF Governed, AlterationsShow, ResultsExist, ResultsTraced, Unstaged, Beginning, Children,
             Certified, Trusted, Answering
  <2>3. QED
    BY <2>1, <2>2
<1>8. CASE StageInputs(t)
  <2>1. /\ pc'[t] = "launch" /\ pc[t] = "stage" /\ altered' = altered
        /\ run'[t] = [r EXCEPT !.stagedBefore = CopiedFiles, !.command = 2]
        /\ staged'[t] = CopiedFiles
    BY <1>1, <1>8 DEF StageInputs, Goto
  <2>2. /\ run'[t].command = 2 /\ run'[t].tainted = r.tainted
        /\ run'[t].inventory = r.inventory /\ run'[t].flips = r.flips
        /\ run'[t].stagedBefore = CopiedFiles /\ run'[t].before = r.before
        /\ run'[t].undone = r.undone
    BY <1>1, <2>1 DEF IsRun
  <2>3. staged[t] = {} /\ CopiedFiles \subseteq altered
    BY <1>2, <2>1 DEF AlterationsShow, Unstaged, CopiedFiles
  <2>4. QED
    BY <1>2, <2>1, <2>2, <2>3
       DEF Governed, AlterationsShow, ResultsExist, ResultsTraced, Unstaged, Beginning, Children,
           Certified, Trusted, Answering
<1>9. CASE Launch(t)
  <2>1. /\ pc'[t] = "waiting" /\ pc[t] = "launch" /\ altered' = altered /\ staged' = staged
        /\ results' = results /\ child'[t] = "running"
        /\ run'[t] = [r EXCEPT !.tainted = @ \cup (AlteredParts(t) \cap Commands[r.command].uses)]
    BY <1>1, <1>9 DEF Launch, Goto, fileVars
  <2>2. /\ run'[t].command = r.command /\ run'[t].before = r.before
        /\ run'[t].inventory = r.inventory /\ run'[t].flips = r.flips
        /\ run'[t].stagedBefore = r.stagedBefore /\ run'[t].undone = r.undone
        /\ run'[t].tainted \subseteq r.tainted \cup staged[t] \cup (altered \cap {"executable"})
    BY <1>1, <2>1 DEF IsRun, AlteredParts
  <2>3. QED
    BY <1>2, <2>1, <2>2
       DEF Governed, AlterationsShow, ResultsExist, ResultsTraced, Unstaged, Beginning, Children,
           Certified, Trusted, Answering
<1>10. CASE Collect(t)
  <2>1. CASE Raise(t)
    BY <1>3, <2>1
  <2>2. CASE ~Raise(t)
    <3>1. /\ pc'[t] = IF r.command = 1 THEN "snapshot again" ELSE "check"
          /\ pc[t] = "waiting" /\ altered' = altered /\ staged' = staged /\ results' = results
          /\ child[t] = "succeeded"
          /\ run'[t] = [r EXCEPT !.validated = IF r.command = Len(Commands) THEN results[t] ELSE @]
      BY <1>1, <1>10, <2>2 DEF Collect, Goto, fileVars
    <3>2. /\ run'[t].command = r.command /\ run'[t].before = r.before
          /\ run'[t].inventory = r.inventory /\ run'[t].flips = r.flips
          /\ run'[t].stagedBefore = r.stagedBefore /\ run'[t].undone = r.undone
          /\ run'[t].tainted = r.tainted
          /\ r.command = Len(Commands) => run'[t].validated = results[t]
      BY <1>1, <3>1 DEF IsRun
    <3>3. Len(Commands) = 6
      BY DEF Commands
    <3>4. AlterationsShow(t)'
      BY <1>2, <3>1, <3>2
         DEF AlterationsShow, Unstaged, Beginning, Children, Certified, Trusted, Answering
    <3>5. ResultsExist(t)'
      BY <1>2, <3>1, <3>2 DEF ResultsExist, Unstaged, Beginning, Children
    <3>6. ResultsTraced(t)'
      BY <1>2, <3>1, <3>2, <3>3
         DEF ResultsExist, ResultsTraced, Unstaged, Beginning, Children, Certified,
         Trusted, Answering
    <3>7. QED
      BY <3>4, <3>5, <3>6 DEF Governed
  <2>3. QED
    BY <2>1, <2>2
<1>11. CASE CheckIdentity(t)
  <2>1. CASE Raise(t)
    BY <1>3, <2>1
  <2>2. CASE ~Raise(t) /\ r.command < Len(Commands)
    <3>1. /\ pc'[t] = "launch" /\ pc[t] = "check" /\ altered' = altered /\ staged' = staged
          /\ results' = results /\ child' = child
          /\ run'[t] = [r EXCEPT !.command = @ + 1]
      BY <1>1, <1>11, <2>2 DEF CheckIdentity, Goto, fileVars
    <3>2. /\ run'[t].command = r.command + 1 /\ run'[t].before = r.before
          /\ run'[t].inventory = r.inventory /\ run'[t].flips = r.flips
          /\ run'[t].stagedBefore = r.stagedBefore /\ run'[t].undone = r.undone
          /\ run'[t].tainted = r.tainted
      BY <1>1, <3>1 DEF IsRun
    <3>3. /\ run'[t].command # 1
          /\ run'[t].command = 6 => r.command = 5
      <4>1. r.command \in 1..6
        BY <1>1 DEF IsRun, Commands
      <4>2. QED
        BY <3>2, <4>1
    <3>4. QED
      BY <1>2, <3>1, <3>2, <3>3
         DEF Governed, AlterationsShow, ResultsExist, ResultsTraced, Unstaged, Beginning, Children,
             Certified, Trusted, Answering
  <2>3. CASE ~Raise(t) /\ ~(r.command < Len(Commands))
    <3>1. /\ pc'[t] = "boundary" /\ pc[t] = "check" /\ altered' = altered /\ staged' = staged
          /\ results' = results /\ run' = run /\ IdentityUnchanged(t)
      BY <1>1, <1>11, <2>3 DEF CheckIdentity, Goto, fileVars
    <3>2. staged[t] = r.stagedBefore /\ "executable" \notin altered
      BY <3>1 DEF IdentityUnchanged, StagedSnapshot, ExecutableApproved
    <3>3. r.command = 6
      BY <1>1, <2>3 DEF IsRun, Commands
    <3>4. QED
      BY <1>2, <3>1, <3>2, <3>3
         DEF Governed, AlterationsShow, ResultsExist, ResultsTraced, Unstaged, Beginning, Children,
             Certified, Trusted, Answering
  <2>4. QED
    BY <2>1, <2>2, <2>3
<1>12. CASE SnapshotAfter(t)
  <2>1. CASE Raise(t)
    BY <1>3, <2>1
  <2>2. CASE ~Raise(t)
    <3>1. /\ pc'[t] = "inventory" /\ pc[t] = "boundary" /\ altered' = altered /\ staged' = staged
          /\ results' = results /\ run' = run /\ RepositorySnapshot = r.before
      BY <1>1, <1>12, <2>2 DEF SnapshotAfter, Goto, fileVars
    <3>2. altered \cap StagedParts \subseteq r.before
      BY <3>1 DEF RepositorySnapshot, RepositoryParts
    <3>3. r.stagedBefore \subseteq StagedParts
      BY <1>1 DEF IsRun
    <3>4. r.tainted \subseteq r.undone
      BY <1>2, <3>1, <3>2, <3>3 DEF AlterationsShow
    <3>5. QED
      BY <1>2, <3>1, <3>4
         DEF Governed, AlterationsShow, ResultsExist, ResultsTraced, Unstaged, Beginning, Children,
             Certified, Trusted, Answering
  <2>3. QED
    BY <2>1, <2>2
<1>13. CASE KillChild(t) \/ BoundaryCrossed(t)
  BY <1>3, <1>13 DEF KillChild, BoundaryCrossed
<1>14. CASE ChildEnds(t)
  <2>1. /\ altered' = altered /\ staged' = staged /\ pc' = pc /\ run' = run
        /\ child'[t] \in {"none", "succeeded", "failed"}
        /\ child'[t] = "succeeded" => pc[t] = "waiting"
        /\ \/ results'[t] = results[t]
           \/ results'[t] = "produced" /\ pc[t] = "waiting"
        /\ child'[t] = "succeeded" /\ Commands[r.command].name = "experiment" =>
             results'[t] = "produced"
    <3>1. PICK status \in {"succeeded", "failed"} :
            /\ child' = [child EXCEPT ![t] = IF pc[t] = "waiting" THEN status ELSE "none"]
            /\ results' = [results EXCEPT ![t] =
                 IF /\ status = "succeeded" /\ pc[t] = "waiting"
                    /\ Commands[r.command].name = "experiment"
                 THEN "produced" ELSE @]
      BY <1>14 DEF ChildEnds
    <3>2. child'[t] = IF pc[t] = "waiting" THEN status ELSE "none"
      BY <1>1, <3>1
    <3>3. results'[t] = IF /\ status = "succeeded" /\ pc[t] = "waiting"
                           /\ Commands[r.command].name = "experiment"
                        THEN "produced" ELSE results[t]
      BY <1>1, <3>1
    <3>4. altered' = altered /\ staged' = staged /\ pc' = pc /\ run' = run
      BY <1>14 DEF ChildEnds
    <3>5. /\ child'[t] \in {"none", "succeeded", "failed"}
          /\ child'[t] = "succeeded" => pc[t] = "waiting" /\ status = "succeeded"
      BY <3>1, <3>2
    <3>6. \/ results'[t] = results[t]
          \/ results'[t] = "produced" /\ pc[t] = "waiting"
      BY <3>3
    <3>7. child'[t] = "succeeded" /\ Commands[r.command].name = "experiment" =>
            results'[t] = "produced"
      BY <3>3, <3>5
    <3>8. QED
      BY <3>4, <3>5, <3>6, <3>7
  <2>2. Commands[5].name = "experiment"
    BY DEF Commands
  <2>3. QED
    BY <1>2, <2>1, <2>2
       DEF Governed, AlterationsShow, ResultsExist, ResultsTraced, Unstaged, Beginning, Children,
           Certified, Trusted, Answering
<1>15. QED
  BY <1>4, <1>5, <1>6, <1>7, <1>8, <1>9, <1>10, <1>11, <1>12, <1>13, <1>14

\* The second part, from the inventory to the answer: each comparison of the
\* results tells that they changed once more, if the facts are of others.
LEMMA ReadersKeepGoverned ==
    ASSUME TypeOK, NEW t \in Receipts, Governed(t), TypeOK',
           InventoryOutputs(t) \/ OutputsMalformed(t) \/ ExtractFacts(t) \/ IssueReceipt(t)
             \/ VerifyInventory(t) \/ VerifyFacts(t) \/ VerifySources(t) \/ ConsumeReceipt(t)
             \/ Admit(t) \/ ReadRow(t) \/ ReadLog(t) \/ Answer(t) \/ BundleRefused(t)
             \/ LeaveChild(t) \/ Crash(t)
    PROVE  Governed(t)'
<1> DEFINE r == run[t]
<1>1. /\ IsRun(r) /\ pc[t] \in Steps /\ results[t] \in Contents \cup {"nothing"}
      /\ pc \in [Receipts -> Steps] /\ run = [u \in Receipts |-> run[u]]
      /\ r.flips \in Nat
  BY DEF TypeOK, IsRun
<1>2. AlterationsShow(t) /\ ResultsExist(t) /\ ResultsTraced(t)
  BY DEF Governed
<1>3. ASSUME Raise(t) PROVE Governed(t)'
  <2>1. pc'[t] \in {"raised", "interrupted", "crashed"}
    BY <1>1, <1>3 DEF Raise, Goto
  <2>2. QED
    BY <2>1, NothingAfterRaise
<1>4. CASE InventoryOutputs(t)
  <2>1. /\ pc'[t] = "facts" /\ pc[t] = "inventory" /\ results' = results
        /\ run'[t] = [r EXCEPT !.inventory = results[t]]
    BY <1>1, <1>4 DEF InventoryOutputs, Goto, fileVars
  <2>2. /\ run'[t].inventory = results[t] /\ run'[t].flips = r.flips
        /\ run'[t].validated = r.validated /\ run'[t].slipped = r.slipped
        /\ run'[t].tainted = r.tainted /\ run'[t].undone = r.undone
    BY <1>1, <2>1 DEF IsRun
  <2>3. r.flips = 0 /\ 0 % 2 = 0
    BY <1>2, <2>1 DEF ResultsExist
  <2>4. /\ results[t] # "nothing"
        /\ results[t] = r.validated \/ r.slipped
        /\ r.tainted \subseteq r.undone
    BY <1>2, <2>1 DEF ResultsTraced, AlterationsShow, Certified
  <2>5. AlterationsShow(t)'
    BY <2>1, <2>2, <2>4 DEF AlterationsShow, Unstaged, Beginning, Children
  <2>6. ResultsExist(t)'
    BY <2>1 DEF ResultsExist, Unstaged, Beginning, Children
  <2>7. ResultsTraced(t)'
    <3>1. run'[t].flips % 2 = 0 /\ results'[t] = run'[t].inventory
      BY <2>1, <2>2, <2>3
    <3>2. /\ run'[t].inventory # "nothing"
          /\ run'[t].inventory = run'[t].validated \/ run'[t].slipped
      BY <2>2, <2>4
    <3>3. results'[t] # "nothing"
      BY <2>1, <2>4
    <3>4. results'[t] = run'[t].inventory <=> run'[t].flips % 2 = 0
      BY <3>1
    <3>5. QED
      BY <2>1, <3>2, <3>3, <3>4 DEF ResultsTraced, Certified, Trusted, Answering
  <2>8. QED
    BY <2>5, <2>6, <2>7 DEF Governed
<1>5. CASE ExtractFacts(t)
  <2>1. /\ pc'[t] = "receipt" /\ pc[t] = "facts" /\ results' = results
        /\ run'[t] = [r EXCEPT !.facts = results[t]]
    BY <1>1, <1>5 DEF ExtractFacts, Goto, fileVars
  <2>2. /\ run'[t].inventory = r.inventory /\ run'[t].flips = r.flips
        /\ run'[t].validated = r.validated /\ run'[t].slipped = r.slipped
        /\ run'[t].tainted = r.tainted /\ run'[t].undone = r.undone
        /\ run'[t].facts = results[t]
    BY <1>1, <2>1 DEF IsRun
  <2>3. /\ results[t] # "nothing" /\ r.inventory # "nothing"
        /\ r.inventory = r.validated \/ r.slipped
        /\ results[t] = r.inventory <=> r.flips % 2 = 0
    BY <1>2, <2>1 DEF ResultsTraced, Certified, Answering
  <2>4. results[t] = r.inventory \/ r.flips >= 1
    <3>1. \A n \in Nat : n % 2 = 0 \/ n >= 1
      OBVIOUS
    <3>2. QED
      BY <1>1, <2>3, <3>1
  <2>5. Changes("receipt") = 1
    BY DEF Changes
  <2>6. r.tainted \subseteq r.undone
    BY <1>2, <2>1 DEF AlterationsShow, Certified
  <2>7. AlterationsShow(t)' /\ ResultsExist(t)'
    BY <2>1, <2>2, <2>6 DEF AlterationsShow, ResultsExist, Unstaged, Beginning, Children
  <2>8. ResultsTraced(t)'
    BY <2>1, <2>2, <2>3, <2>4, <2>5 DEF ResultsTraced, Certified, Trusted, Answering
  <2>9. QED
    BY <2>7, <2>8 DEF Governed
<1>6. CASE IssueReceipt(t)
  <2>1. /\ pc'[t] = "verify inventory" /\ pc[t] = "receipt" /\ results' = results
        /\ run'[t] = [r EXCEPT !.receipt = ReceiptRecord(t)]
    BY <1>1, <1>6 DEF IssueReceipt, Goto, fileVars
  <2>2. /\ run'[t].inventory = r.inventory /\ run'[t].flips = r.flips
        /\ run'[t].validated = r.validated /\ run'[t].slipped = r.slipped
        /\ run'[t].tainted = r.tainted /\ run'[t].undone = r.undone
        /\ run'[t].facts = r.facts
    BY <1>1, <2>1 DEF IsRun
  <2>3. Changes("receipt") = Changes("verify inventory")
    BY DEF Changes
  <2>4. AlterationsShow(t)' /\ ResultsExist(t)'
    BY <1>2, <2>1, <2>2
       DEF AlterationsShow, ResultsExist, Unstaged, Beginning, Children, Certified,
       Trusted, Answering
  <2>5. ResultsTraced(t)'
    BY <1>2, <2>1, <2>2, <2>3 DEF ResultsTraced, Certified, Trusted, Answering
  <2>6. QED
    BY <2>4, <2>5 DEF Governed
<1>7. ASSUME NEW from \in Trusted, NEW to \in Trusted, pc[t] = from, pc'[t] = to,
             run' = run \/ run' = [run EXCEPT ![t].row = row], results' = results,
             to \notin {"returned"} \cup Answering => from \notin {"returned"} \cup Answering,
             r.facts = r.inventory \/ r.flips >= Changes(to)
      PROVE  Governed(t)'
  <2>1. /\ run'[t].inventory = r.inventory /\ run'[t].flips = r.flips
        /\ run'[t].validated = r.validated /\ run'[t].slipped = r.slipped
        /\ run'[t].tainted = r.tainted /\ run'[t].undone = r.undone
        /\ run'[t].facts = r.facts
    BY <1>1, <1>7 DEF IsRun
  <2>2. AlterationsShow(t)'
    BY <1>2, <1>7, <2>1
       DEF AlterationsShow, Unstaged, Beginning, Children, Certified, Trusted, Answering
  <2>3. ResultsExist(t)'
    BY <1>2, <1>7 DEF ResultsExist, Unstaged, Beginning, Children, Trusted, Answering
  <2>4. ResultsTraced(t)'
    BY <1>2, <1>7, <2>1 DEF ResultsTraced, Certified, Trusted, Answering
  <2>5. QED
    BY <2>2, <2>3, <2>4 DEF Governed
<1>8. CASE VerifyInventory(t)
  <2>1. CASE Raise(t)
    BY <1>3, <2>1
  <2>2. CASE ~Raise(t)
    <3>1. /\ pc'[t] = "verify facts" /\ pc[t] = "verify inventory" /\ results' = results
          /\ run' = run /\ results[t] = r.inventory
      BY <1>1, <1>8, <2>2 DEF VerifyInventory, InventoryMatches, Goto, fileVars
    <3>2. /\ r.flips % 2 = 0
          /\ r.facts = r.inventory \/ r.flips >= 1
      BY <1>2, <3>1 DEF ResultsTraced, Certified, Trusted, Answering, Changes
    <3>3. r.facts = r.inventory \/ r.flips >= Changes("verify facts")
      BY <1>1, <3>2, Parity DEF Changes
    <3>4. QED
      BY <1>7, <3>1, <3>3 DEF Trusted, Answering
  <2>3. QED
    BY <2>1, <2>2
<1>9. CASE VerifyFacts(t)
  <2>1. CASE Raise(t)
    BY <1>3, <2>1
  <2>2. CASE ~Raise(t)
    <3>1. /\ pc'[t] = "verify sources" /\ pc[t] = "verify facts" /\ results' = results
          /\ run' = run /\ results[t] = r.facts
      BY <1>1, <1>9, <2>2 DEF VerifyFacts, Goto, fileVars
    <3>2. /\ r.facts = r.inventory <=> r.flips % 2 = 0
          /\ r.facts = r.inventory \/ r.flips >= 2
      BY <1>2, <3>1 DEF ResultsTraced, Certified, Trusted, Answering, Changes
    <3>3. r.facts = r.inventory \/ r.flips >= Changes("verify sources")
      BY <1>1, <3>2, Parity DEF Changes
    <3>4. QED
      BY <1>7, <3>1, <3>3 DEF Trusted, Answering
  <2>3. QED
    BY <2>1, <2>2
<1>10. CASE VerifySources(t) \/ ConsumeReceipt(t) \/ Admit(t) \/ ReadRow(t) \/ ReadLog(t)
            \/ Answer(t)
  <2>1. CASE Raise(t)
    BY <1>3, <2>1
  <2>2. CASE ~Raise(t)
    <3>1. /\ results' = results /\ (run' = run \/ run' = [run EXCEPT ![t].row = row])
          /\ \/ pc[t] = "verify sources" /\ pc'[t] = "consume"
             \/ pc[t] = "consume" /\ pc'[t] = "admit"
             \/ pc[t] = "admit" /\ pc'[t] = "answer"
             \/ pc[t] = "answer" /\ pc'[t] = "answer log"
             \/ pc[t] = "answer log" /\ pc'[t] = "answer graph"
             \/ pc[t] = "answer graph" /\ pc'[t] = "returned"
      BY <1>1, <1>10, <2>2
         DEF VerifySources, ConsumeReceipt, Admit, ReadRow, ReadLog, Answer, Goto, fileVars
    <3>2. r.facts = r.inventory \/ r.flips >= Changes(pc[t])
      BY <1>2, <3>1 DEF ResultsTraced, Certified, Trusted, Answering
    <3>3. Changes(pc[t]) = 3 /\ Changes(pc'[t]) = 3
      BY <3>1 DEF Changes
    <3>4. QED
      BY <1>7, <3>1, <3>2, <3>3 DEF Trusted, Answering
  <2>3. QED
    BY <2>1, <2>2
<1>11. CASE OutputsMalformed(t) \/ BundleRefused(t)
  BY <1>3, <1>11 DEF OutputsMalformed, BundleRefused
<1>12. CASE LeaveChild(t) \/ Crash(t)
  <2>1. pc'[t] \in {"raised", "interrupted", "crashed"}
    BY <1>1, <1>12 DEF LeaveChild, Crash, Goto
  <2>2. QED
    BY <2>1, NothingAfterRaise
<1>13. QED
  BY <1>4, <1>5, <1>6, <1>8, <1>9, <1>10, <1>11, <1>12

\* A developer alters the engine: what is taken back is remembered by every
\* call under way.
LEMMA EngineAltered ==
    ASSUME TypeOK, \A t \in Receipts : Governed(t), NEW part \in Parts, AlterEngine(part)
    PROVE  TypeOK' /\ \A t \in Receipts : Governed(t)'
<1>1. /\ altered' = IF part \in altered THEN altered \ {part} ELSE altered \cup {part}
      /\ run' = [t \in Receipts |->
           IF pc[t] \notin Ended /\ part \in altered
           THEN [run[t] EXCEPT !.undone = @ \cup {part}] ELSE run[t]]
      /\ staged' = staged /\ results' = results /\ child' = child /\ pc' = pc
  BY DEF AlterEngine, Alteration, Toggle
<1>2. ASSUME NEW t \in Receipts PROVE IsRun(run'[t])
  <2>1. IsRun(run[t])
    BY DEF TypeOK
  <2>2. run[t].undone \cup {part} \in SUBSET Parts
    BY <2>1 DEF IsRun
  <2>3. {} \in SUBSET StagedParts /\ "nothing" \in Contents \cup {"nothing"} /\ 1 \in 1..Len(Commands)
    BY DEF Commands
  <2>4. IsRun([run[t] EXCEPT !.undone = run[t].undone \cup {part}])
    BY <2>1, <2>2, <2>3, LocalsAreTyped
  <2>5. \/ run'[t] = run[t]
        \/ run'[t] = [run[t] EXCEPT !.undone = run[t].undone \cup {part}]
    BY <1>1
  <2>6. QED
    BY <2>1, <2>4, <2>5
<1>3. TypeOK'
  BY <1>1, <1>2 DEF TypeOK
<1>4. ASSUME NEW t \in Receipts PROVE Governed(t)'
  <2>1. AlterationsShow(t) /\ ResultsExist(t) /\ ResultsTraced(t)
    BY DEF Governed
  <2>2. /\ run'[t].before = run[t].before /\ run'[t].stagedBefore = run[t].stagedBefore
        /\ run'[t].command = run[t].command /\ run'[t].validated = run[t].validated
        /\ run'[t].inventory = run[t].inventory /\ run'[t].facts = run[t].facts
        /\ run'[t].tainted = run[t].tainted /\ run'[t].slipped = run[t].slipped
        /\ run'[t].flips = run[t].flips
        /\ run[t].undone \subseteq run'[t].undone
        /\ pc[t] \notin Ended => altered \subseteq altered' \cup run'[t].undone
        /\ pc[t] = "idle" => run'[t] = run[t]
    BY <1>1 DEF TypeOK, IsRun, Ended
  <2>3. AlterationsShow(t)'
    BY <1>1, <2>1, <2>2
       DEF AlterationsShow, Unstaged, Beginning, Children, Certified, Trusted, Answering, Ended
  <2>4. ResultsExist(t)'
    BY <1>1, <2>1, <2>2 DEF ResultsExist
  <2>5. ResultsTraced(t)'
    BY <1>1, <2>1, <2>2 DEF ResultsTraced
  <2>6. QED
    BY <2>3, <2>4, <2>5 DEF Governed
<1>5. QED
  BY <1>3, <1>4

\* A child alters what was staged for it: it finds it altered.
LEMMA StagedAltered ==
    ASSUME TypeOK, \A t \in Receipts : Governed(t),
           NEW t \in Receipts, NEW part \in StagedParts, AlterStaged(t, part)
    PROVE  TypeOK' /\ \A u \in Receipts : Governed(u)'
<1>1. /\ staged' = [staged EXCEPT ![t] = Toggle(@, part)]
      /\ pc[t] = "waiting" /\ run[t].command > 1
      /\ run' = [run EXCEPT
           ![t].tainted = IF part \in staged'[t] THEN @ \cup {part} ELSE @,
           ![t].undone = IF part \in staged[t] THEN @ \cup {part} ELSE @]
      /\ altered' = altered /\ results' = results /\ child' = child /\ pc' = pc
  BY DEF AlterStaged, Alteration
<1>2. /\ IsRun(run[t]) /\ run = [u \in Receipts |-> run[u]]
      /\ staged \in [Receipts -> SUBSET StagedParts] /\ part \in Parts
  BY DEF TypeOK, Parts, RepositoryParts
<1>3. staged'[t] = IF part \in staged[t] THEN staged[t] \ {part} ELSE staged[t] \cup {part}
  BY <1>1, <1>2 DEF Toggle
<1>4. /\ run'[t].before = run[t].before /\ run'[t].stagedBefore = run[t].stagedBefore
      /\ run'[t].command = run[t].command /\ run'[t].validated = run[t].validated
      /\ run'[t].inventory = run[t].inventory /\ run'[t].facts = run[t].facts
      /\ run'[t].slipped = run[t].slipped /\ run'[t].flips = run[t].flips
      /\ run'[t].undone = IF part \in staged[t] THEN run[t].undone \cup {part} ELSE run[t].undone
      /\ run'[t].tainted = IF part \in staged'[t] THEN run[t].tainted \cup {part}
                           ELSE run[t].tainted
      /\ IsRun(run'[t])
  BY <1>1, <1>2 DEF IsRun
<1>5. /\ staged' \in [Receipts -> SUBSET StagedParts]
      /\ run' = [u \in Receipts |-> run'[u]]
      /\ \A u \in Receipts : u # t => run'[u] = run[u] /\ staged'[u] = staged[u]
  BY <1>1, <1>2, <1>3
<1>6. TypeOK'
  BY <1>1, <1>4, <1>5 DEF TypeOK
<1>7. Governed(t)'
  <2>1. AlterationsShow(t) /\ ResultsExist(t) /\ ResultsTraced(t)
    BY DEF Governed
  <2>2. run[t].command # 1
    <3>1. run[t].command \in 1..6
      BY <1>2 DEF IsRun, Commands
    <3>2. \A n \in 1..6 : n > 1 => n # 1
      OBVIOUS
    <3>3. QED
      BY <1>1, <3>1, <3>2
  <2>3. AlterationsShow(t)'
    <3>1. /\ run[t].before \cap StagedParts \subseteq run[t].undone
          /\ run[t].stagedBefore \subseteq run[t].undone \cup altered
          /\ run[t].tainted \subseteq run[t].undone \cup (altered \cap {"executable"}) \cup staged[t]
      BY <1>1, <2>1 DEF AlterationsShow, Children
    <3>2. /\ run[t].undone \subseteq run'[t].undone
          /\ staged[t] \subseteq staged'[t] \cup run'[t].undone
          /\ run'[t].tainted \subseteq run[t].tainted \cup staged'[t]
      BY <1>3, <1>4
    <3>3. /\ run'[t].before \cap StagedParts \subseteq run'[t].undone
          /\ run'[t].stagedBefore \subseteq run'[t].undone \cup altered'
          /\ run'[t].tainted \subseteq run'[t].undone \cup (altered' \cap {"executable"}) \cup staged'[t]
      BY <1>1, <1>4, <3>1, <3>2
    <3>4. pc'[t] = "waiting" /\ run'[t].command # 1
      BY <1>1, <1>4, <2>2
    <3>5. QED
      BY <3>3, <3>4
         DEF AlterationsShow, Unstaged, Beginning, Children, Certified, Trusted, Answering
  <2>4. ResultsExist(t)' /\ ResultsTraced(t)'
    BY <1>1, <1>4, <2>1 DEF ResultsExist, ResultsTraced
  <2>5. QED
    BY <2>3, <2>4 DEF Governed
<1>8. ASSUME NEW u \in Receipts, u # t PROVE Governed(u)'
  BY <1>1, <1>5, <1>8, OthersKeepGoverned
<1>9. QED
  BY <1>6, <1>7, <1>8

\* The results change to their other content, and the count with them.
LEMMA ResultsAltered ==
    ASSUME TypeOK, \A t \in Receipts : Governed(t), NEW t \in Receipts, AlterResults(t)
    PROVE  TypeOK' /\ \A u \in Receipts : Governed(u)'
<1>1. /\ pc[t] \notin Ended \cup Answering /\ results[t] # "nothing"
      /\ results' = [results EXCEPT ![t] = IF @ = "produced" THEN "changed" ELSE "produced"]
      /\ run' = [run EXCEPT
           ![t].slipped = @ \/ (run[t].validated # "nothing" /\ run[t].inventory = "nothing"),
           ![t].flips = IF run[t].inventory # "nothing" THEN @ + 1 ELSE @]
      /\ altered' = altered /\ staged' = staged /\ child' = child /\ pc' = pc
  BY DEF AlterResults, Alteration
<1>2. /\ IsRun(run[t]) /\ run = [u \in Receipts |-> run[u]]
      /\ results \in [Receipts -> Contents \cup {"nothing"}]
      /\ results[t] \in Contents
  BY <1>1 DEF TypeOK
<1>3. results'[t] \in Contents /\ results'[t] # results[t]
  BY <1>1, <1>2 DEF Contents
<1> DEFINE slipped == run[t].slipped \/ (run[t].validated # "nothing" /\ run[t].inventory = "nothing")
           flips == IF run[t].inventory # "nothing" THEN run[t].flips + 1 ELSE run[t].flips
<1>4. slipped \in BOOLEAN /\ flips \in Nat
  BY <1>2 DEF IsRun
<1>5. run'[t] = [run[t] EXCEPT !.slipped = slipped, !.flips = flips]
  BY <1>1, <1>2
<1> HIDE DEF slipped, flips
<1>6. /\ run'[t].before = run[t].before /\ run'[t].stagedBefore = run[t].stagedBefore
      /\ run'[t].command = run[t].command /\ run'[t].validated = run[t].validated
      /\ run'[t].inventory = run[t].inventory /\ run'[t].facts = run[t].facts
      /\ run'[t].tainted = run[t].tainted /\ run'[t].undone = run[t].undone
      /\ run'[t].slipped = slipped /\ run'[t].flips = flips
      /\ IsRun(run'[t])
  BY <1>2, <1>4, <1>5 DEF IsRun
<1>7. /\ results' \in [Receipts -> Contents \cup {"nothing"}]
      /\ run' = [u \in Receipts |-> run'[u]]
      /\ \A u \in Receipts : u # t => run'[u] = run[u] /\ results'[u] = results[u]
  BY <1>1, <1>2, <1>3
<1>8. TypeOK'
  BY <1>1, <1>6, <1>7 DEF TypeOK
<1>9. Governed(t)'
  <2>1. AlterationsShow(t) /\ ResultsExist(t) /\ ResultsTraced(t)
    BY DEF Governed
  <2>2. AlterationsShow(t)'
    BY <1>1, <1>6, <2>1 DEF AlterationsShow, Ended
  <2>3. results'[t] # "nothing"
    BY <1>3 DEF Contents
  <2>4. ResultsExist(t)'
    <3>1. run[t].inventory = "nothing" => flips = run[t].flips
      BY DEF flips
    <3>2. QED
      BY <1>1, <1>6, <2>1, <2>3, <3>1 DEF ResultsExist
  <2>5. ASSUME pc[t] \in {"check", "boundary", "inventory"},
               pc[t] = "check" => run[t].command = 6
        PROVE  /\ run[t].validated # "nothing" /\ run[t].inventory = "nothing"
               /\ slipped
    BY <2>1, <2>5 DEF ResultsTraced, ResultsExist, Unstaged, Children, slipped
  <2>6. ASSUME pc[t] \in Certified \ {"inventory"}
        PROVE  /\ run[t].inventory # "nothing" /\ run[t].inventory \in Contents
               /\ run[t].inventory = run[t].validated \/ slipped
               /\ results'[t] = run[t].inventory <=> flips % 2 = 0
               /\ flips = run[t].flips + 1 /\ run[t].flips \in Nat
    <3>1. /\ run[t].inventory # "nothing"
          /\ run[t].inventory = run[t].validated \/ run[t].slipped
          /\ results[t] = run[t].inventory <=> run[t].flips % 2 = 0
      BY <1>1, <2>1, <2>6 DEF ResultsTraced, Ended
    <3>2. run[t].flips \in Nat /\ run[t].inventory \in Contents
      BY <1>2, <3>1 DEF IsRun
    <3>3. flips = run[t].flips + 1 /\ (run[t].slipped => slipped)
      BY <3>1 DEF flips, slipped
    <3>4. results'[t] = run[t].inventory <=> results[t] # run[t].inventory
      BY <1>2, <1>3, <3>2 DEF Contents
    <3>5. flips % 2 = 0 <=> run[t].flips % 2 # 0
      BY <3>2, <3>3, Parity
    <3>6. QED
      BY <3>1, <3>2, <3>3, <3>4, <3>5
  <2>7. ASSUME pc[t] \in Certified \ {"inventory", "facts"}
        PROVE  /\ run[t].facts # "nothing"
               /\ run[t].facts = run[t].inventory \/ flips >= Changes(pc[t])
    <3>1. /\ run[t].facts # "nothing"
          /\ run[t].facts = run[t].inventory \/ run[t].flips >= Changes(pc[t])
      BY <2>1, <2>7 DEF ResultsTraced
    <3>2. Changes(pc[t]) \in Nat
      BY DEF Changes
    <3>3. flips = run[t].flips + 1 /\ run[t].flips \in Nat
      BY <2>6, <2>7
    <3>4. run[t].flips >= Changes(pc[t]) => flips >= Changes(pc[t])
      BY <3>2, <3>3
    <3>5. QED
      BY <3>1, <3>4
  <2>8. ResultsTraced(t)'
    BY <1>1, <1>6, <2>3, <2>5, <2>6, <2>7 DEF ResultsTraced
  <2>9. QED
    BY <2>2, <2>4, <2>8 DEF Governed
<1>10. ASSUME NEW u \in Receipts, u # t PROVE Governed(u)'
  BY <1>1, <1>7, <1>10, OthersKeepGoverned
<1>11. QED
  BY <1>8, <1>9, <1>10

\* Every step keeps the invariant.
LEMMA NextExecution == ExecutionInvariant /\ [Next]_vars => ExecutionInvariant'
<1> SUFFICES ASSUME TypeOK, \A t \in Receipts : Governed(t), [Next]_vars
             PROVE  TypeOK' /\ \A t \in Receipts : Governed(t)'
  BY DEF ExecutionInvariant
<1>1. ASSUME NEW t \in Receipts, Start(t) \/ Step(t) \/ LeaveChild(t) \/ Crash(t) \/ ChildEnds(t)
      PROVE  TypeOK' /\ \A u \in Receipts : Governed(u)'
  <2>1. TypeOK' /\ altered' = altered
    BY <1>1, OwnSteps
  <2>2. Governed(t)'
    BY <1>1, <2>1, ChildrenKeepGoverned, ReadersKeepGoverned DEF Step
  <2>3. ASSUME NEW u \in Receipts, u # t PROVE Governed(u)'
    BY <1>1, <2>1, <2>3, OwnSteps, OthersKeepGoverned
  <2>4. QED
    BY <2>1, <2>2, <2>3
<1>2. CASE OthersAppend \/ OthersSaveGraph \/ UNCHANGED vars
  <2>1. /\ altered' = altered /\ staged' = staged /\ results' = results /\ child' = child
        /\ pc' = pc /\ run' = run
    BY <1>2 DEF OthersAppend, OthersSaveGraph, vars, fileVars
  <2>2. TypeOK'
    BY <2>1 DEF TypeOK
  <2>3. QED
    BY <2>1, <2>2, OthersKeepGoverned
<1>3. CASE World
  BY <1>1, <1>2, <1>3, EngineAltered, StagedAltered, ResultsAltered DEF World
<1>4. QED
  BY <1>1, <1>2, <1>3 DEF Next

-----------------------------------------------------------------------------

\* The invariant holds for all executions at once.
THEOREM ExecutionIsInvariant == Spec => []ExecutionInvariant
BY InitExecution, NextExecution, PTL DEF Spec

\* No execution gets a receipt for an engine, an input or a validator that was
\* altered when a child used it, unless the alteration was undone meanwhile
\* (verify_release_identity, _verify_post_child_identity, the snapshots of
\* _execute_fixture).
THEOREM LastingAlterationIsAlwaysNoticed == Spec => []LastingAlterationIsNoticed
<1>1. ExecutionInvariant => LastingAlterationIsNoticed
  BY DEF ExecutionInvariant, Governed, AlterationsShow, LastingAlterationIsNoticed, Certified
<1>2. QED
  BY <1>1, ExecutionIsInvariant, PTL

\* What is admitted is what the validator read, and the facts are of the
\* results on record, but for the changes that EvidenceWasValidated names
\* (_inventory_outputs, verify_evidence_bundle, verify_source_artifact).
THEOREM EvidenceAlwaysWasValidated == Spec => []EvidenceWasValidated
<1>1. ExecutionInvariant => EvidenceWasValidated
  <2> SUFFICES ASSUME ExecutionInvariant, NEW t \in Receipts,
                      pc[t] \in {"consume", "admit", "returned"} \cup Answering
               PROVE  /\ run[t].inventory = run[t].validated \/ run[t].slipped
                      /\ run[t].facts = run[t].inventory \/ run[t].flips >= 3
    BY DEF EvidenceWasValidated
  <2>1. Changes(pc[t]) = 3
    BY DEF Changes, Answering
  <2>2. QED
    BY <2>1 DEF ExecutionInvariant, Governed, ResultsTraced, Certified, Trusted, Answering
<1>2. QED
  BY <1>1, ExecutionIsInvariant, PTL

-----------------------------------------------------------------------------

\* An execution that has been answered, or is over without an answer.
Settled == {"returned", "raised", "interrupted", "crashed"} \cup Answering

\* What the step of an execution says of its evidence.
AdmissionKnown(t) ==
    /\ pc[t] \in {"returned"} \cup Answering => bundles = <<t>>
    /\ pc[t] \in {"raised", "interrupted"} /\ bundles = <<t>> =>
         Len(events) > 6 \/ graphs # {}
    /\ pc[t] \notin Settled => t \notin consumed

\* The row that was read for the answer is one of the case with its evidence:
\* the log has not become shorter since, and a graph it anchors is still there.
RowKnown(t) ==
    pc[t] \in {"answer log", "answer graph"} =>
        /\ run[t].row.revision \in 6..Len(events)
        /\ run[t].row.graph_revision # 0 => graphs # {}

OutcomeInvariant ==
    /\ TypeOK
    /\ StoreFacts!StoreInvariant
    /\ \A t \in Receipts : AdmissionKnown(t) /\ RowKnown(t)

\* The constants are as the proofs about the store demand.
LEMMA StoreIsGoverned == StoreFacts!StoreConstants
BY StoreConstants
   DEF Store!StoreConstants, StoreFacts!StoreConstants,
       Store!VERDICT_ELIGIBILITY_COMPUTED, StoreFacts!VERDICT_ELIGIBILITY_COMPUTED

\* The store's transactions that executions and others make.
LEMMA SameTransactions ==
    /\ \A after, payload, expected :
         Store!append_event(after, payload, expected) =>
           StoreFacts!append_event(after, payload, expected)
    /\ \A receipt, after :
         /\ Store!BundleAccepted(receipt, after) <=> StoreFacts!BundleAccepted(receipt, after)
         /\ Store!admit_evidence_bundle(receipt, after) =>
              StoreFacts!admit_evidence_bundle(receipt, after)
    /\ \A expected :
         Store!save_claim_graph(expected) => StoreFacts!save_claim_graph(expected)
<1> USE DEF Store!EXPERIMENT_EXECUTED, StoreFacts!EXPERIMENT_EXECUTED,
            Store!CONSTITUTION_LOCKED, StoreFacts!CONSTITUTION_LOCKED,
            Store!CHAIR_EXPLANATION, StoreFacts!CHAIR_EXPLANATION
<1>1. \A after, payload, expected :
        Store!append_event(after, payload, expected) =>
          StoreFacts!append_event(after, payload, expected)
  BY Zenon
     DEF Store!append_event, StoreFacts!append_event, Store!AppendAccepted,
         StoreFacts!AppendAccepted, Store!CaseExists, StoreFacts!CaseExists,
         Store!EvidenceHasBundle, StoreFacts!EvidenceHasBundle, Store!AppendEvent,
         StoreFacts!AppendEvent, Store!AppendRow, StoreFacts!AppendRow
<1>2. \A receipt, after :
        Store!BundleAccepted(receipt, after) <=> StoreFacts!BundleAccepted(receipt, after)
  BY Zenon
     DEF Store!BundleAccepted, StoreFacts!BundleAccepted, Store!AppendAccepted,
         StoreFacts!AppendAccepted, Store!CaseExists, StoreFacts!CaseExists
<1>3. \A receipt, after :
        Store!admit_evidence_bundle(receipt, after) =>
          StoreFacts!admit_evidence_bundle(receipt, after)
  BY <1>2, Zenon
     DEF Store!admit_evidence_bundle, StoreFacts!admit_evidence_bundle,
         Store!EvidenceHasBundle, StoreFacts!EvidenceHasBundle, Store!AppendEvent,
         StoreFacts!AppendEvent, Store!AppendRow, StoreFacts!AppendRow
<1>4. Store!Reconstructs(TRUE) <=> StoreFacts!Reconstructs(TRUE)
  BY Zenon DEF Store!Reconstructs, StoreFacts!Reconstructs,
               Store!RowMatchesLog, StoreFacts!RowMatchesLog,
               Store!GraphMatchesAnchor, StoreFacts!GraphMatchesAnchor,
               Store!EvidenceMatchesBundles, StoreFacts!EvidenceMatchesBundles,
               Store!VotesMatchEvents, StoreFacts!VotesMatchEvents,
               Store!HasLedger, StoreFacts!HasLedger, Store!CaseExists, StoreFacts!CaseExists,
               Store!Accepted, StoreFacts!Accepted
<1>5. \A expected : Store!save_claim_graph(expected) => StoreFacts!save_claim_graph(expected)
  BY <1>4, Zenon DEF Store!save_claim_graph, StoreFacts!save_claim_graph,
                     Store!HasLedger, StoreFacts!HasLedger
<1>6. QED
  BY <1>1, <1>2, <1>3, <1>5

\* What the store's invariant says of the case.
LEMMA StoreNow ==
    ASSUME StoreFacts!StoreInvariant
    PROVE  /\ row.revision = Len(events) /\ events \in Seq(Payloads \cup Receipts)
           /\ Len(events) \in Nat
           /\ row.graph_revision # 0 => graphs # {}
           /\ \A k \in DOMAIN bundles : bundles[k] \in consumed
           /\ \A receipt \in Receipts :
                (Len(events) >= 6 /\ events[6] = receipt) <=> bundles = <<receipt>>
BY DEF StoreFacts!StoreInvariant, StoreFacts!TypeOK, StoreFacts!RowFollowsLog,
       StoreFacts!EvidenceHasOneOrigin, StoreFacts!HasLedger, StoreFacts!EXPERIMENT_EXECUTED

\* Steps that leave the store alone: an execution enters its answer by an
\* admission only, and leaves it for an exception only when the case moved on
\* or has a graph.
LEMMA QuietStepsKnow ==
    ASSUME OutcomeInvariant, UNCHANGED storeVars, NEW t \in Receipts,
           \/ pc'[t] = pc[t]
           \/ pc'[t] = "crashed"
           \/ pc[t] \in Answering /\ pc'[t] \in {"returned"} \cup Answering
           \/ pc[t] \in Answering /\ pc'[t] = "raised" /\ (Len(events) > 6 \/ graphs # {})
           \/ pc[t] \notin Settled /\ pc'[t] \notin {"returned"} \cup Answering
    PROVE  AdmissionKnown(t)'
<1>1. /\ AdmissionKnown(t) /\ events' = events /\ bundles' = bundles
      /\ consumed' = consumed /\ graphs' = graphs
  BY DEF OutcomeInvariant, storeVars
<1>2. t \notin consumed => bundles # <<t>>
  BY StoreNow DEF OutcomeInvariant
<1>3. QED
  BY <1>1, <1>2 DEF AdmissionKnown, Settled, Answering

\* A number up to one length is one up to a greater length.
LEMMA Growing ==
    ASSUME NEW m \in Nat, NEW n \in Nat, m <= n, NEW k \in 6..m
    PROVE  k \in 6..n
OBVIOUS

\* What is known of the row that was read outlasts the progress of the case.
LEMMA RowStaysKnown ==
    ASSUME NEW t \in Receipts, RowKnown(t), Len(events) \in Nat, Len(events') \in Nat,
           Len(events) <= Len(events'), graphs \subseteq graphs',
           pc'[t] \in {"answer log", "answer graph"} =>
             pc[t] \in {"answer log", "answer graph"} /\ run'[t].row = run[t].row
    PROVE  RowKnown(t)'
<1>1. SUFFICES ASSUME pc'[t] \in {"answer log", "answer graph"}
               PROVE  /\ run[t].row.revision \in 6..Len(events')
                      /\ run[t].row.graph_revision # 0 => graphs' # {}
  BY DEF RowKnown
<1>2. /\ run[t].row.revision \in 6..Len(events)
      /\ run[t].row.graph_revision # 0 => graphs # {}
  BY <1>1 DEF RowKnown
<1>3. run[t].row.revision \in 6..Len(events')
  BY <1>2, Growing
<1>4. QED
  BY <1>2, <1>3

\* Of the steps of an execution, only its admission writes to the store.
LEMMA OnlyAdmissionWrites ==
    ASSUME NEW t \in Receipts, Start(t) \/ Step(t), ~Admit(t)
    PROVE  UNCHANGED storeVars
BY DEF Start, Step, SnapshotBefore, VerifyRelease, SnapshotAgain, StageInputs, Launch,
       KillChild, Collect, CheckIdentity, BoundaryCrossed, SnapshotAfter,
       InventoryOutputs, OutputsMalformed, ExtractFacts, IssueReceipt, VerifyInventory,
       VerifyFacts, VerifySources, ConsumeReceipt, ReadRow, ReadLog, Answer, BundleRefused

\* A transaction keeps the store's invariant, and an unchanged store does.
LEMMA StoreKeeps ==
    ASSUME OutcomeInvariant, [Next]_vars
    PROVE  StoreFacts!StoreInvariant'
<1>1. CASE UNCHANGED storeVars
  BY <1>1, StoreIsGoverned, StoreFacts!StutterKeeps
     DEF OutcomeInvariant, storeVars, StoreFacts!vars
<1>2. ASSUME NEW t \in Receipts, Admit(t) PROVE StoreFacts!StoreInvariant'
  <2>1. StoreFacts!admit_evidence_bundle(t, run[t].seen)
    BY <1>2, SameTransactions DEF Admit
  <2>2. QED
    BY <2>1, StoreIsGoverned, StoreFacts!AdmittingKeeps DEF OutcomeInvariant
<1>3. CASE OthersAppend
  <2>1. PICK payload \in Payloads : StoreFacts!append_event(events, payload, Len(events))
    BY <1>3, SameTransactions DEF OthersAppend
  <2>2. QED
    BY <2>1, StoreIsGoverned, StoreFacts!AppendingKeeps DEF OutcomeInvariant
<1>4. ASSUME NEW t \in Receipts, Start(t) \/ Step(t), ~Admit(t) PROVE UNCHANGED storeVars
  BY <1>4, OnlyAdmissionWrites
<1>5. CASE OthersSaveGraph
  <2>1. StoreFacts!CallSaveGraph
    BY <1>5, SameTransactions DEF OthersSaveGraph, StoreFacts!CallSaveGraph
  <2>2. QED
    BY <2>1, StoreIsGoverned, StoreFacts!GraphKeeps DEF OutcomeInvariant
<1>6. CASE World
  BY <1>1, <1>3, <1>5, <1>6
     DEF World, ChildEnds, AlterResults, Alteration, LeaveChild, Crash, AlterStaged, AlterEngine
<1>7. CASE UNCHANGED vars
  BY <1>1, <1>7 DEF vars
<1>8. QED
  BY <1>1, <1>2, <1>4, <1>6, <1>7 DEF Next

\* An execution that is admitted has the evidence of the case; one that is
\* refused does not.
LEMMA AdmissionsKnow ==
    ASSUME OutcomeInvariant, StoreFacts!StoreInvariant', NEW t \in Receipts, Admit(t)
    PROVE  \A u \in Receipts : AdmissionKnown(u)' /\ RowKnown(u)'
<1>1. /\ pc[t] = "admit" /\ graphs' = graphs /\ pc \in [Receipts -> Steps]
      /\ t \notin consumed /\ consumed' = consumed \cup {t}
      /\ IF Store!BundleAccepted(t, run[t].seen)
         THEN /\ bundles = <<>> /\ bundles' = <<t>> /\ Goto(t, "answer")
         ELSE /\ bundles' = bundles /\ events' = events /\ Goto(t, "raised")
  <2>1. /\ pc[t] = "admit" /\ graphs' = graphs /\ pc \in [Receipts -> Steps]
        /\ t \notin consumed /\ consumed' = consumed \cup {t}
    BY DEF Admit, Store!admit_evidence_bundle, OutcomeInvariant, TypeOK
  <2>2. CASE Store!BundleAccepted(t, run[t].seen)
    <3>1. bundles = <<>> /\ bundles' = Append(bundles, t) /\ Goto(t, "answer")
      BY <2>2 DEF Admit, Store!admit_evidence_bundle, Store!BundleAccepted
    <3>2. bundles' = <<t>>
      BY <3>1
    <3>3. QED
      BY <2>1, <2>2, <3>1, <3>2
  <2>3. CASE ~Store!BundleAccepted(t, run[t].seen)
    BY <2>1, <2>3 DEF Admit, Store!admit_evidence_bundle, Raise
  <2>4. QED
    BY <2>2, <2>3
<1>2. \A k \in DOMAIN bundles : bundles[k] \in consumed
  BY StoreNow DEF OutcomeInvariant
<1>3. bundles # <<t>>
  BY <1>1, <1>2
<1>4. AdmissionKnown(t)'
  <2>1. \/ pc'[t] = "answer" /\ bundles' = <<t>>
        \/ pc'[t] = "raised" /\ bundles' # <<t>>
    BY <1>1, <1>3 DEF Goto
  <2>2. QED
    BY <2>1 DEF AdmissionKnown, Settled, Answering
<1>5. ASSUME NEW u \in Receipts, u # t PROVE AdmissionKnown(u)'
  <2>1. pc'[u] = pc[u] /\ AdmissionKnown(u)
    BY <1>1, <1>5 DEF Goto, OutcomeInvariant
  <2>2. u \in consumed' => u \in consumed
    BY <1>1, <1>5
  <2>3. CASE Store!BundleAccepted(t, run[t].seen)
    <3>1. bundles = <<>> /\ bundles' = <<t>>
      BY <1>1, <2>3
    <3>2. bundles # <<u>> /\ bundles' # <<u>>
      BY <1>5, <3>1
    <3>3. QED
      BY <2>1, <2>2, <3>2 DEF AdmissionKnown
  <2>4. CASE ~Store!BundleAccepted(t, run[t].seen)
    BY <1>1, <2>1, <2>2, <2>4 DEF AdmissionKnown
  <2>5. QED
    BY <2>3, <2>4
<1>6. ASSUME NEW u \in Receipts PROVE RowKnown(u)'
  <2>1. Len(events) \in Nat
    BY StoreNow DEF OutcomeInvariant
  <2>2. Len(events') \in Nat /\ Len(events) <= Len(events')
    <3>1. \/ events' = events
          \/ events \in Seq(Payloads \cup Receipts) /\ events' = Append(events, t)
      BY <1>1, StoreNow
         DEF Admit, Store!admit_evidence_bundle, Store!AppendEvent, OutcomeInvariant
    <3>2. Len(events') = Len(events) \/ Len(events') = Len(events) + 1
      BY <3>1
    <3>3. QED
      BY <2>1, <3>2
  <2>3. pc'[u] = pc[u] \/ pc'[u] \in {"answer", "raised"}
    BY <1>1 DEF Goto
  <2>4. u # t => run'[u] = run[u]
    BY OwnSteps DEF Step, OutcomeInvariant
  <2>5. pc'[u] \in {"answer log", "answer graph"} => pc[u] = pc'[u] /\ u # t
    BY <1>1, <2>3
  <2>6. QED
    BY <1>1, <2>1, <2>2, <2>4, <2>5, RowStaysKnown DEF OutcomeInvariant
<1>7. QED
  BY <1>4, <1>5, <1>6

\* The case moves on: what was admitted stays admitted.
LEMMA ProgressKnows ==
    ASSUME OutcomeInvariant, OthersAppend
    PROVE  \A u \in Receipts : AdmissionKnown(u)' /\ RowKnown(u)'
<1>1. PICK payload \in Payloads : events' = Append(events, payload)
  BY DEF OthersAppend, Store!append_event, Store!AppendEvent
<1>2. /\ bundles' = bundles /\ consumed' = consumed /\ graphs' = graphs
      /\ pc' = pc /\ run' = run
  BY DEF OthersAppend, Store!append_event
<1>3. Len(events) \in Nat /\ Len(events') = Len(events) + 1
  BY <1>1, StoreNow DEF OutcomeInvariant
<1>4. Len(events) > 6 => Len(events') > 6
  BY <1>3
<1>5. \A u \in Receipts : AdmissionKnown(u)'
  BY <1>2, <1>4 DEF OutcomeInvariant, AdmissionKnown
<1>6. Len(events') \in Nat /\ Len(events) <= Len(events')
  BY <1>3
<1>7. ASSUME NEW u \in Receipts PROVE RowKnown(u)'
  BY <1>2, <1>3, <1>6, RowStaysKnown DEF OutcomeInvariant
<1>8. QED
  BY <1>5, <1>7

\* A claim graph is saved: the log is what it was.
LEMMA GraphsKnow ==
    ASSUME OutcomeInvariant, OthersSaveGraph
    PROVE  \A u \in Receipts : AdmissionKnown(u)' /\ RowKnown(u)'
<1>1. /\ events' = events /\ bundles' = bundles /\ consumed' = consumed
      /\ graphs \subseteq graphs' /\ pc' = pc /\ run' = run
  BY DEF OthersSaveGraph, Store!save_claim_graph
<1>2. Len(events) \in Nat /\ Len(events) <= Len(events')
  BY <1>1, StoreNow DEF OutcomeInvariant
<1>3. \A u \in Receipts : AdmissionKnown(u)'
  BY <1>1 DEF OutcomeInvariant, AdmissionKnown
<1>4. ASSUME NEW u \in Receipts PROVE RowKnown(u)'
  BY <1>1, <1>2, RowStaysKnown DEF OutcomeInvariant
<1>5. QED
  BY <1>3, <1>4

\* An execution that reads the case for its answer raises only when the case
\* has moved on or has a graph.
LEMMA AnswersKnow ==
    ASSUME OutcomeInvariant, NEW u \in Receipts, ReadRow(u) \/ ReadLog(u) \/ Answer(u)
    PROVE  /\ pc[u] \in Answering
           /\ \/ \E step \in {"answer log", "answer graph", "returned"} : Goto(u, step)
              \/ Goto(u, "raised") /\ (Len(events) > 6 \/ graphs # {})
           /\ RowKnown(u)'
<1>1. /\ run = [t \in Receipts |-> run[t]] /\ IsRun(run[u]) /\ pc \in [Receipts -> Steps]
      /\ row.revision = Len(events) /\ Len(events) \in Nat
      /\ row.graph_revision # 0 => graphs # {}
      /\ RowKnown(u) /\ AdmissionKnown(u)
      /\ Len(events) >= 6 /\ events[6] = u <=> bundles = <<u>>
  BY StoreNow DEF OutcomeInvariant, TypeOK
<1>2. events' = events /\ graphs' = graphs
  BY DEF ReadRow, ReadLog, Answer, storeVars
<1>3. CASE ReadRow(u)
  <2>1. /\ pc[u] = "answer" /\ run'[u].row = row /\ Goto(u, "answer log")
    <3>1. run'[u] = [run[u] EXCEPT !.row = row]
      BY <1>1, <1>3 DEF ReadRow
    <3>2. QED
      BY <1>1, <1>3, <3>1 DEF ReadRow, IsRun
  <2>2. Len(events) >= 6
    BY <1>1, <2>1 DEF AdmissionKnown, Answering
  <2>3. row.revision \in 6..Len(events)
    BY <1>1, <2>2
  <2>4. RowKnown(u)'
    BY <1>1, <1>2, <2>1, <2>3 DEF RowKnown
  <2>5. QED
    BY <2>1, <2>4 DEF Answering
<1>4. CASE ReadLog(u)
  <2>1. run[u].row.revision \in 6..Len(events) /\ pc[u] = "answer log"
    BY <1>1, <1>4 DEF ReadLog, RowKnown
  <2>2. CASE Len(events) = run[u].row.revision
    <3>1. Goto(u, "answer graph") /\ run' = run
      BY <1>4, <2>2 DEF ReadLog
    <3>2. RowKnown(u)'
      BY <1>1, <1>2, <2>1, <3>1 DEF RowKnown
    <3>3. QED
      BY <2>1, <3>1, <3>2 DEF Answering
  <2>3. CASE Len(events) # run[u].row.revision
    <3>1. Goto(u, "raised")
      BY <1>4, <2>3 DEF ReadLog, Raise
    <3>2. Len(events) > 6
      <4>1. \A n \in 6..Len(events) : Len(events) # n => Len(events) > 6
        BY <1>1
      <4>2. QED
        BY <2>1, <2>3, <4>1
    <3>3. RowKnown(u)'
      BY <1>1, <3>1 DEF RowKnown, Goto
    <3>4. QED
      BY <2>1, <3>1, <3>2, <3>3 DEF Answering
  <2>4. QED
    BY <2>2, <2>3
<1>5. CASE Answer(u)
  <2>1. /\ run[u].row.revision \in 6..Len(events) /\ pc[u] = "answer graph"
        /\ run[u].row.graph_revision # 0 => graphs # {}
    BY <1>1, <1>5 DEF Answer, RowKnown
  <2>2. \/ Goto(u, "returned")
        \/ Goto(u, "raised") /\ ~GraphIsAnchored(u)
        \/ Goto(u, "raised") /\ Len(events) > run[u].row.revision
    BY <1>5 DEF Answer, Raise
  <2>3. ~GraphIsAnchored(u) => graphs # {}
    BY <2>1 DEF GraphIsAnchored
  <2>4. \A n \in 6..Len(events) : Len(events) > n => Len(events) > 6
    BY <1>1
  <2>5. Len(events) > run[u].row.revision => Len(events) > 6
    BY <2>1, <2>4
  <2>6. RowKnown(u)'
    BY <1>1, <2>2 DEF RowKnown, Goto
  <2>7. QED
    BY <2>1, <2>2, <2>3, <2>5, <2>6 DEF Answering
<1>6. QED
  BY <1>3, <1>4, <1>5

\* The other steps of an execution neither enter nor leave its answer.
LEMMA EarlierStepsStayEarlier ==
    ASSUME NEW u \in Receipts, Start(u) \/ Step(u),
           ~(Admit(u) \/ ReadRow(u) \/ ReadLog(u) \/ Answer(u))
    PROVE  /\ pc[u] \notin Settled
           /\ \E step \in Steps \ ({"returned"} \cup Answering) : Goto(u, step)
BY DEF Start, Step, SnapshotBefore, VerifyRelease, SnapshotAgain, StageInputs, Launch,
       KillChild, Collect, CheckIdentity, BoundaryCrossed, SnapshotAfter,
       InventoryOutputs, OutputsMalformed, ExtractFacts, IssueReceipt,
       VerifyInventory, VerifyFacts, VerifySources, ConsumeReceipt, BundleRefused,
       Raise, Steps, Settled, Answering

\* What the world does to the rows that were read: nothing.
LEMMA WorldKeepsRows ==
    ASSUME OutcomeInvariant, World, ~OthersAppend, ~OthersSaveGraph, NEW t \in Receipts
    PROVE  /\ UNCHANGED storeVars
           /\ \/ pc'[t] = pc[t]
              \/ pc'[t] = "crashed"
              \/ pc[t] = "waiting" /\ pc'[t] = "interrupted"
           /\ pc'[t] \in {"answer log", "answer graph"} => run'[t].row = run[t].row
<1>1. pc \in [Receipts -> Steps] /\ run = [u \in Receipts |-> run[u]] /\ IsRun(run[t])
  BY DEF OutcomeInvariant, TypeOK
<1>2. ASSUME NEW u \in Receipts, ChildEnds(u) PROVE pc' = pc /\ run' = run /\ UNCHANGED storeVars
  BY <1>2 DEF ChildEnds
<1>3. ASSUME NEW u \in Receipts, LeaveChild(u) \/ Crash(u)
      PROVE  /\ UNCHANGED storeVars
             /\ \/ pc'[t] = pc[t] /\ run'[t] = run[t]
                \/ pc'[t] = "crashed"
                \/ pc[t] = "waiting" /\ pc'[t] = "interrupted"
  BY <1>1, <1>3 DEF LeaveChild, Crash, Goto
<1>4. ASSUME NEW u \in Receipts, AlterResults(u)
      PROVE  UNCHANGED storeVars /\ pc' = pc /\ (pc[t] \in Answering => run'[t] = run[t])
  BY <1>1, <1>4 DEF AlterResults, Alteration, Ended
<1>5. ASSUME NEW u \in Receipts, NEW part \in StagedParts, AlterStaged(u, part)
      PROVE  UNCHANGED storeVars /\ pc' = pc /\ (pc[t] \in Answering => run'[t] = run[t])
  BY <1>1, <1>5 DEF AlterStaged, Alteration, Answering
<1>6. ASSUME NEW part \in Parts, AlterEngine(part)
      PROVE  UNCHANGED storeVars /\ pc' = pc /\ run'[t].row = run[t].row
  BY <1>1, <1>6 DEF AlterEngine, Alteration, IsRun
<1>7. QED
  BY <1>2, <1>3, <1>4, <1>5, <1>6 DEF World, Answering

\* Every step keeps what is known of the outcome.
LEMMA NextOutcome == OutcomeInvariant /\ TypeOK' /\ [Next]_vars => OutcomeInvariant'
<1> SUFFICES ASSUME OutcomeInvariant, [Next]_vars
             PROVE  \A t \in Receipts : AdmissionKnown(t)' /\ RowKnown(t)'
  BY StoreKeeps DEF OutcomeInvariant
<1>1. pc \in [Receipts -> Steps] /\ Len(events) \in Nat
  BY StoreNow DEF OutcomeInvariant, TypeOK
<1>2. ASSUME UNCHANGED storeVars, NEW t \in Receipts,
             pc'[t] \in {"answer log", "answer graph"} =>
               pc[t] = pc'[t] /\ run'[t].row = run[t].row
      PROVE  RowKnown(t)'
  <2>1. Len(events) <= Len(events') /\ Len(events') \in Nat /\ graphs \subseteq graphs'
    <3>1. events' = events /\ graphs' = graphs
      BY <1>2 DEF storeVars
    <3>2. \A n \in Nat : n <= n
      OBVIOUS
    <3>3. QED
      BY <1>1, <3>1, <3>2
  <2>2. QED
    BY <1>1, <1>2, <2>1, RowStaysKnown DEF OutcomeInvariant
<1>3. ASSUME NEW u \in Receipts, Start(u) \/ Step(u), ~Admit(u), NEW t \in Receipts
      PROVE  AdmissionKnown(t)' /\ RowKnown(t)'
  <2>1. UNCHANGED storeVars
    BY <1>3, OnlyAdmissionWrites
  <2>2. t # u => pc'[t] = pc[t] /\ run'[t] = run[t]
    BY <1>3, OwnSteps DEF OutcomeInvariant
  <2>3. CASE t # u
    BY <1>2, <2>1, <2>2, <2>3, QuietStepsKnow
  <2>4. CASE t = u /\ (ReadRow(u) \/ ReadLog(u) \/ Answer(u))
    <3>1. /\ pc[u] \in Answering
          /\ \/ \E step \in {"answer log", "answer graph", "returned"} : Goto(u, step)
             \/ Goto(u, "raised") /\ (Len(events) > 6 \/ graphs # {})
          /\ RowKnown(u)'
      BY <2>4, AnswersKnow
    <3>2. \/ pc'[u] \in {"returned"} \cup Answering
          \/ pc'[u] = "raised" /\ (Len(events) > 6 \/ graphs # {})
      BY <1>1, <3>1 DEF Goto, Answering
    <3>3. QED
      BY <2>1, <2>4, <3>1, <3>2, QuietStepsKnow
  <2>5. CASE t = u /\ ~(ReadRow(u) \/ ReadLog(u) \/ Answer(u))
    <3>1. /\ pc[u] \notin Settled
          /\ \E step \in Steps \ ({"returned"} \cup Answering) : Goto(u, step)
      BY <1>3, <2>5, EarlierStepsStayEarlier
    <3>2. pc'[u] \notin {"returned"} \cup Answering
      BY <1>1, <3>1 DEF Goto
    <3>3. pc'[u] \notin {"answer log", "answer graph"}
      BY <3>2 DEF Answering
    <3>4. QED
      BY <1>2, <2>1, <2>5, <3>1, <3>2, <3>3, QuietStepsKnow
  <2>6. QED
    BY <2>3, <2>4, <2>5
<1>4. ASSUME World, ~OthersAppend, ~OthersSaveGraph, NEW t \in Receipts
      PROVE  AdmissionKnown(t)' /\ RowKnown(t)'
  <2>1. /\ UNCHANGED storeVars
        /\ \/ pc'[t] = pc[t]
           \/ pc'[t] = "crashed"
           \/ pc[t] = "waiting" /\ pc'[t] = "interrupted"
        /\ pc'[t] \in {"answer log", "answer graph"} => run'[t].row = run[t].row
    BY <1>4, WorldKeepsRows
  <2>2. "waiting" \notin Settled /\ "interrupted" \notin {"returned"} \cup Answering
    BY DEF Settled, Answering
  <2>3. AdmissionKnown(t)'
    BY <2>1, <2>2, QuietStepsKnow
  <2>4. QED
    BY <1>2, <2>1, <2>3
<1>5. ASSUME UNCHANGED vars, NEW t \in Receipts PROVE AdmissionKnown(t)' /\ RowKnown(t)'
  BY <1>2, <1>5, QuietStepsKnow DEF vars
<1>6. ASSUME NEW u \in Receipts, Admit(u)
      PROVE  \A t \in Receipts : AdmissionKnown(t)' /\ RowKnown(t)'
  BY <1>6, StoreKeeps, AdmissionsKnow
<1>7. QED
  BY <1>3, <1>4, <1>5, <1>6, ProgressKnows, GraphsKnow DEF Next

\* No call has begun, and no receipt is used.
LEMMA InitOutcome == Init => OutcomeInvariant
<1> SUFFICES ASSUME Init PROVE OutcomeInvariant
  OBVIOUS
<1>1. TypeOK
  BY InitExecution DEF ExecutionInvariant
<1>2. StoreFacts!StoreInvariant
  <2>1. StoreFacts!Init
    BY DEF Init, Store!Init, StoreFacts!Init
  <2>2. QED
    BY <2>1, StoreIsGoverned, StoreFacts!InitEstablishesStore
<1>3. \A t \in Receipts : AdmissionKnown(t) /\ RowKnown(t)
  BY DEF Init, Store!Init, AdmissionKnown, RowKnown, Answering
<1>4. QED
  BY <1>1, <1>2, <1>3 DEF OutcomeInvariant

\* A caller learns what became of its execution: a result is the evidence of
\* the case, and an exception means that it is not, unless the case has moved
\* on or been given a claim graph (execute_and_admit_engine_evidence,
\* admit_evidence_bundle, _reconstruct).
THEOREM OutcomeIsAlwaysKnown == Spec => []OutcomeIsKnown
<1>1. OutcomeInvariant => OutcomeIsKnown
  BY StoreNow DEF OutcomeInvariant, AdmissionKnown, OutcomeIsKnown, EXPERIMENT_EXECUTED, Answering
<1>2. ExecutionInvariant => TypeOK
  BY DEF ExecutionInvariant
<1>3. QED
  BY <1>1, <1>2, InitOutcome, NextOutcome, ExecutionIsInvariant, PTL DEF Spec
===============================================================================
