----------------------- MODULE LifecycleCatalogProofs -----------------------
(***************************************************************************)
(* The proof that DownloadLifecycle implements Catalog.  Every step leaves *)
(* the records and files alone or is one step of Catalog; the conditions   *)
(* Catalog puts on a write follow from the invariants that hold after it.  *)
(***************************************************************************)
EXTENDS LifecycleCatalog, DownloadOutcomeProofs

CatalogInv == BaseInv /\ OpValues /\ BlankInv /\ HeldInv /\ FileInv

Seen == <<repo, final, used, held>>

LEMMA CatalogTerms ==
  /\ Promised!catalogVars = Seen
  /\ Promised!Record = Record
  /\ Promised!Finished = Finished
BY DEF Promised!catalogVars, Seen, Promised!Record, Record, Promised!Status, Status,
       Promised!Finished, Finished, Promised!OnHold

\* The commit of a transaction is a removal, a write or nothing.
LEMMA CommitStep ==
  ASSUME CatalogInv, CatalogInv', NEW t \in Tx, StoreStep(t),
         UNCHANGED <<final, used, held>>
  PROVE  [Promised!Next]_Seen
<1>1. /\ repo \in [Downloads -> Record \cup {NoRecord}]
      /\ repo' \in [Downloads -> Record \cup {NoRecord}]
      /\ t.val \in Record \cup {NoRecord}
  BY DEF CatalogInv, BaseInv, TypeOK, Tx
<1>2. CASE repo' = repo
  BY <1>2 DEF Seen
<1>3. CASE repo' # repo
  <2>1. PICK d \in Downloads : repo'[d] # repo[d]
    BY <1>1, <1>3
  <2>2. t.st = "clean" /\ t.dl = d /\ repo[d] # NoRecord /\ repo'[d] = t.val
        /\ \A e \in Downloads : e # d => repo'[e] = repo[e]
    BY <2>1 DEF StoreStep
  <2>3. repo' = [repo EXCEPT ![d] = t.val]
    BY <1>1, <2>2
  <2>4. CASE t.val = NoRecord
    BY <2>2, <2>3, <2>4 DEF Promised!Next, Promised!Remove
  <2>5. CASE t.val \in Record
    <3>1. t.val.kept \/ d \in FlakyDownloads
      BY <2>2, <2>5, NoRecordFact DEF CatalogInv, BaseInv, TypeOK, BlankInv, NotBlank
    <3>2. t.val.status = "completed" => d \in final
      BY <2>2, <2>5, NoRecordFact DEF CatalogInv, FileInv, CompletedValue
    <3>3. d \in held => t.val.status \notin Finished
      BY <2>2, <2>5, NoRecordFact DEF CatalogInv, HeldInv, HeldSafe, Present
    <3>4. Promised!Update(d)
      BY <2>2, <2>3, <2>5, <3>1, <3>2, <3>3, CatalogTerms DEF Promised!Update, Promised!Write
    <3> QED BY <3>4 DEF Promised!Next
  <2> QED BY <1>1, <2>4, <2>5
<1> QED BY <1>2, <1>3

\* What a stored pause or cancellation that takes hold is in Catalog.
LEMMA HoldMaps ==
  ASSUME NEW d \in Downloads, NEW v \in Record,
         repo[d] # NoRecord, repo' = [repo EXCEPT ![d] = v], repo'[d] = v,
         v.kept \/ d \in FlakyDownloads, v.status \in {"paused", "cancelled"},
         held' = held \cup {d}, final' = final, used' = used
  PROVE  Promised!Hold(d)
<1>1. v.status \notin Promised!Finished /\ v.status # "completed"
  BY DEF Promised!Finished
<1>2. Promised!Write(d)
  <2>1. v \in Promised!Record
    BY CatalogTerms
  <2> QED BY <1>1, <2>1 DEF Promised!Write
<1> QED BY <1>2 DEF Promised!Hold, Promised!OnHold

\* UpdateCommit may also make a pause or a cancellation take hold.
LEMMA UpdateCommitStep ==
  ASSUME CatalogInv, CatalogInv', NEW p \in Procs, UpdateCommit(p)
  PROVE  [Promised!Next]_Seen
<1> DEFINE d == call[p].dl
           t == callTx[p]
<1>1. StoreStep(t) /\ t \in Tx /\ final' = final /\ used' = used
  BY CommitKinds DEF CatalogInv, BaseInv, TypeOK, UpdateCommit, fileVars
<1>2. CASE ~TakesHold(p)
  <2>1. held' = held
    BY <1>2 DEF UpdateCommit
  <2> QED BY <1>1, <2>1, CommitStep
<1>3. CASE TakesHold(p)
  <2>1. /\ t.st = "clean" /\ t.dl = d /\ d \in Downloads /\ repo[d] # NoRecord
        /\ t.val # NoRecord /\ t.val.status \in {"paused", "cancelled"}
    BY <1>3 DEF TakesHold, CatalogInv, BaseInv, TxShape, TxOf, CleanPresent, Present, OpValues
  <2>2. repo' = [repo EXCEPT ![d] = t.val] /\ held' = held \cup {d}
    BY <1>3, <2>1 DEF UpdateCommit, Commit
  <2>3. t.val \in Record /\ repo'[d] = t.val
    BY <1>1, <2>1, <2>2 DEF Tx, CatalogInv, BaseInv, TypeOK
  <2>4. t.val.kept \/ d \in FlakyDownloads
    BY <2>1, <2>3 DEF CatalogInv, BaseInv, TypeOK, BlankInv, NotBlank
  <2>5. Promised!Hold(d)
    BY <1>1, <2>1, <2>2, <2>3, <2>4, HoldMaps
  <2> QED BY <2>1, <2>5 DEF Promised!Next
<1> QED BY <1>2, <1>3

\* A runner's step without a transaction may add the merged file.
LEMMA RunnerMoveStep ==
  ASSUME CatalogInv, NEW r \in Runners, RunnerMove(r)
  PROVE  [Promised!Next]_Seen
<1>1. run[r].dl \in used /\ run[r].dl \in Downloads
  BY DEF RunnerMove, MoveCore, CatalogInv, BaseInv, Shape, TypeOK
<1>2. UNCHANGED <<repo, used, held>>
  BY DEF RunnerMove, storeVars
<1>3. CASE final' = final
  BY <1>2, <1>3 DEF Seen
<1>4. CASE final' # final
  <2>1. final' = final \cup {run[r].dl}
    BY <1>4 DEF RunnerMove
  <2> QED BY <1>1, <1>2, <2>1 DEF Promised!Next, Promised!Merge
<1> QED BY <1>3, <1>4

LEMMA CatalogStep ==
  ASSUME CatalogInv, CatalogInv', [Next]_vars
  PROVE  [Promised!Next]_Seen
<1> USE DEF storeVars, callVars, runVars, monVars, fileVars, procVars
<1>1. ASSUME UNCHANGED <<repo, final, used, held>> PROVE [Promised!Next]_Seen
  BY <1>1 DEF Seen
<1>2. ASSUME NEW d \in Downloads, NEW q \in QueueNames, Enqueue(d, q) PROVE [Promised!Next]_Seen
  BY <1>2 DEF Enqueue, Promised!Next, Promised!Create
<1>3. ASSUME NEW p \in Procs, CheckDuplicate(p) \/ CancelRunner(p) \/ UpdateBegin(p)
      PROVE  [Promised!Next]_Seen
  BY <1>1, <1>3 DEF CheckDuplicate, CancelRunner, UpdateBegin
<1>4. ASSUME NEW p \in Procs, Register(p) PROVE [Promised!Next]_Seen
  <2>1. call[p].dl \in Downloads
    BY <1>4 DEF Register, CatalogInv, BaseInv, Shape, TypeOK
  <2> QED BY <1>4, <2>1 DEF Register, Promised!Next, Promised!Release
<1>5. ASSUME NEW p \in Procs, RemoveFiles(p) PROVE [Promised!Next]_Seen
  <2>1. call[p].dl \in Downloads /\ repo[call[p].dl] = NoRecord
    BY <1>5 DEF RemoveFiles, CatalogInv, BaseInv, Shape, TypeOK, FileInv, Present
  <2> QED BY <1>5, <2>1 DEF RemoveFiles, Promised!Next, Promised!Purge
<1>6. ASSUME NEW r \in Runners, RunnerCommits(r) PROVE [Promised!Next]_Seen
  <2>1. StoreStep(runTx[r]) /\ runTx[r] \in Tx /\ UNCHANGED <<final, used, held>>
    BY <1>6, CommitKinds DEF RunnerCommits, WriteCommit, CatalogInv, BaseInv, TypeOK
  <2> QED BY <2>1, CommitStep
<1>7. ASSUME NEW r \in Runners, MonitorCommit(r) PROVE [Promised!Next]_Seen
  <2>1. StoreStep(monTx[r]) /\ monTx[r] \in Tx /\ UNCHANGED <<final, used, held>>
    BY <1>7, CommitKinds DEF MonitorCommit, CatalogInv, BaseInv, TypeOK
  <2> QED BY <2>1, CommitStep
<1>8. ASSUME NEW r \in Runners,
             RunLoad(r) \/ Drained(r) \/ RunnerOpens(r) \/ Report(r) \/ MonitorBegin(r)
      PROVE  [Promised!Next]_Seen
  BY <1>1, <1>8 DEF RunLoad, Drained, RunnerOpens, Report, MonitorBegin
<1>9. ASSUME RequeueBegin \/ ProcessEnds PROVE [Promised!Next]_Seen
  BY <1>1, <1>9 DEF RequeueBegin, ProcessEnds
<1>10. CASE UNCHANGED vars
  BY <1>1, <1>10 DEF vars
<1>11. CASE Next
  <2>1. ASSUME StoreQuiet, UNCHANGED <<run, cancels, held, pending, final>>
        PROVE  [Promised!Next]_Seen
    BY <1>1, <2>1 DEF StoreQuiet
  <2> QED
    BY <1>2, <1>3, <1>4, <1>5, <1>6, <1>7, <1>8, <1>9, <1>11, <2>1,
       NextKinds, QuietSteps, UpdateCommitStep, RunnerMoveStep DEF CatalogInv
<1> QED BY <1>10, <1>11

\* Every behaviour of the detailed system, for any number of downloads,
\* requests, runners and crashes, is seen as a behaviour of Catalog.
THEOREM LifecycleImplementsCatalog == Spec => ImplementsCatalog
<1>1. Init => CatalogInv
  <2>1. Init => OpValues /\ HeldInv
    BY DEF Init, OpValues, HeldInv, NoTx
  <2>2. Init => FileInv
    BY DEF Init, FileInv, Present, CompletedValue, NoTx, NoCall, FreeRunner
  <2>3. Init => BlankInv
    BY DEF Init, BlankInv, Present, NotBlank, NoTx, FreeRunner, IdleWorker
  <2> QED BY <2>1, <2>2, <2>3, BaseInit DEF CatalogInv
<1>2. CatalogInv /\ [Next]_vars => CatalogInv'
  BY BaseStep, OpValuesStep, BlankStep, HeldStep, FileStep DEF CatalogInv
<1>3. Init => Promised!Init
  BY DEF Init, Promised!Init
<1>4. CatalogInv /\ CatalogInv' /\ [Next]_vars => [Promised!Next]_(Promised!catalogVars)
  BY CatalogStep DEF Promised!catalogVars, Seen
<1> QED BY <1>1, <1>2, <1>3, <1>4, PTL DEF Spec, ImplementsCatalog, Promised!Spec
=============================================================================
