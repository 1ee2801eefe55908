----------------------- MODULE DownloadOutcomeProofs -----------------------
(***************************************************************************)
(* Proofs of what DownloadLifecycle promises about the records themselves: *)
(* no made-up record is stored, a pause or a cancellation is not undone by *)
(* a late write, and a completed download has its file.  Each of the three *)
(* invariants is about everything that may still be written, so it is      *)
(* proved per kind of step: opening a transaction, ending one, moving on.  *)
(***************************************************************************)
EXTENDS DownloadLifecycleProofs

\* The value UpdateBegin opens its transaction with, and the operation that
\* goes on to commit it.
LEMMA UpdateOpens ==
  ASSUME BaseInv, NEW p \in Procs, UpdateBegin(p)
  PROVE  \/ callTx' = callTx /\ call' = [call EXCEPT ![p] = NoCall]
         \/ \E v \in Written(call[p].op, repo[call[p].dl]) :
              /\ callTx' = [callTx EXCEPT ![p] = OpenTx(call[p].dl, v)]
              /\ call' = [call EXCEPT ![p].pc = "commit"]
              /\ call[p].op \in AllOps /\ call[p].dl \in Downloads
              /\ repo[call[p].dl] \in Record
              /\ v \in Record \cup {NoRecord}
              /\ v # NoRecord => \/ v.status = repo[call[p].dl].status
                                 \/ v.status \in {"running", "paused", "cancelled"}
              /\ v # NoRecord => v.kept = repo[call[p].dl].kept
  <1>1. /\ call[p].dl \in Downloads /\ call[p].op \in AllOps
    BY DEF BaseInv, TypeOK, Shape, UpdateBegin
  <1>2. PICK live \in CallCtx(p) :
          IF CanUpdate(live, call[p].dl)
          THEN /\ \E v \in Written(call[p].op, repo[call[p].dl]) :
                    callTx' = [callTx EXCEPT ![p] = OpenTx(call[p].dl, v)]
               /\ call' = [call EXCEPT ![p].pc = "commit"]
          ELSE call' = [call EXCEPT ![p] = NoCall] /\ UNCHANGED callTx
    BY DEF UpdateBegin
  <1>3. CASE CanUpdate(live, call[p].dl)
    <2>1. repo[call[p].dl] \in Record
      BY <1>1, <1>3 DEF CanUpdate, Present, BaseInv, TypeOK
    <2>2. PICK v \in Written(call[p].op, repo[call[p].dl]) :
            callTx' = [callTx EXCEPT ![p] = OpenTx(call[p].dl, v)]
      BY <1>2, <1>3
    <2>3. /\ v \in Record \cup {NoRecord}
          /\ v # NoRecord => \/ v.status = repo[call[p].dl].status
                             \/ v.status \in {"running", "paused", "cancelled"}
          /\ v # NoRecord => v.kept = repo[call[p].dl].kept
      BY <1>1, <2>1, <2>2, WrittenType
    <2>4. call' = [call EXCEPT ![p].pc = "commit"]
      BY <1>2, <1>3
    <2> QED BY <1>1, <2>1, <2>2, <2>3, <2>4
  <1>4. CASE ~CanUpdate(live, call[p].dl)
    BY <1>2, <1>4
  <1> QED BY <1>3, <1>4

\* What the end of a transaction leaves clean, in the three families.
LEMMA StillClean ==
  ASSUME BaseInv, NEW t \in Tx, StoreStep(t)
  PROVE  /\ \A p \in Procs : callTx'[p].st = "clean"
              => callTx[p].st = "clean" /\ callTx'[p].dl = callTx[p].dl /\ callTx'[p].val = callTx[p].val
         /\ \A r \in Runners : runTx'[r].st = "clean"
              => runTx[r].st = "clean" /\ runTx'[r].dl = runTx[r].dl /\ runTx'[r].val = runTx[r].val
         /\ \A r \in Runners : monTx'[r].st = "clean"
              => monTx[r].st = "clean" /\ monTx'[r].dl = monTx[r].dl /\ monTx'[r].val = monTx[r].val
         /\ \A d \in Downloads : repo'[d] # NoRecord => repo[d] # NoRecord
  BY DEF StoreStep, Settled, NoTx

\* The worker's requeueing writes the status queued, or nothing.
LEMMA RequeueOpens ==
  ASSUME BaseInv, RequeueBegin
  PROVE  \/ callTx' = callTx /\ call' = call
         \/ \E c \in wk.stale :
              /\ c[1] \in Downloads /\ [c[2] EXCEPT !.status = "queued"] \in Record
              /\ callTx' = [callTx EXCEPT ![Worker] =
                              OpenTx(c[1], [c[2] EXCEPT !.status = "queued"])]
              /\ call' = [call EXCEPT ![Worker] =
                            [op |-> "requeue", pc |-> "commit", dl |-> c[1]]]
  <1>1. PICK c \in wk.stale :
          IF CanUpdate(ServerCtxLive, c[1])
          THEN /\ callTx' = [callTx EXCEPT ![Worker] =
                               OpenTx(c[1], [c[2] EXCEPT !.status = "queued"])]
               /\ call' = [call EXCEPT ![Worker] =
                             [op |-> "requeue", pc |-> "commit", dl |-> c[1]]]
          ELSE UNCHANGED callVars
    BY DEF RequeueBegin
  <1>2. c[1] \in Downloads /\ [c[2] EXCEPT !.status = "queued"] \in Record
    BY <1>1 DEF BaseInv, TypeOK, WorkerRec, Record, Status
  <1> QED BY <1>1, <1>2 DEF callVars

----------------------------------------------------------------------------
(* A transaction writes what its operation is for.                         *)

LEMMA OpValuesStep == BaseInv /\ OpValues /\ [Next]_vars => OpValues'
  <1> SUFFICES ASSUME BaseInv, OpValues, [Next]_vars PROVE OpValues'
    OBVIOUS
  <1>1. call \in [Procs -> CallRec] /\ callTx \in [Procs -> Tx]
    BY DEF BaseInv, TypeOK
  <1>2. ASSUME UNCHANGED <<call, callTx>> PROVE OpValues'
    BY <1>2 DEF OpValues
  <1>3. ASSUME callTx' = callTx, NEW p \in Procs, call[p].pc # "commit",
               \A q \in Procs : q # p => call'[q] = call[q]
        PROVE  OpValues'
    <2>1. callTx[p].st = "none"
      BY <1>3 DEF BaseInv, TxShape
    <2> QED BY <1>3, <2>1 DEF OpValues
  <1>4. ASSUME NEW p \in Procs, UpdateBegin(p) PROVE OpValues'
    <2>1. CASE callTx' = callTx /\ call' = [call EXCEPT ![p] = NoCall]
      BY <1>1, <1>3, <1>4, <2>1 DEF UpdateBegin
    <2>2. CASE callTx' # callTx \/ call' # [call EXCEPT ![p] = NoCall]
      <3>1. PICK v \in Written(call[p].op, repo[call[p].dl]) :
              /\ callTx' = [callTx EXCEPT ![p] = OpenTx(call[p].dl, v)]
              /\ call' = [call EXCEPT ![p].pc = "commit"]
              /\ call[p].op \in AllOps /\ call[p].dl \in Downloads
              /\ repo[call[p].dl] \in Record
              /\ v \in Record \cup {NoRecord}
        BY <1>4, <2>2, UpdateOpens
      <3>2. call'[p].op = call[p].op /\ \A q \in Procs : q # p => call'[q] = call[q]
        <4>1. call' = [call EXCEPT ![p] = [call[p] EXCEPT !.pc = "commit"]] /\ call[p] \in CallRec
          BY <1>1, <3>1
        <4> QED BY <1>1, <4>1 DEF CallRec
      <3>3. callTx'[p].val = v /\ \A q \in Procs : q # p => callTx'[q] = callTx[q]
        <4>1. OpenTx(call[p].dl, v).val = v
          BY <3>1, OpenTxType
        <4> QED BY <1>1, <3>1, <4>1
      <3>4. call[p].op \in {"pause", "cancel"} => v # NoRecord /\ v.status \in {"paused", "cancelled"}
        <4> SUFFICES ASSUME call[p].op \in {"pause", "cancel"}
                     PROVE  v # NoRecord /\ v.status \in {"paused", "cancelled"}
          OBVIOUS
        <4>1. NewStatus(call[p].op) \in {"paused", "cancelled"}
          BY DEF NewStatus
        <4>2. Written(call[p].op, repo[call[p].dl])
                = {[repo[call[p].dl] EXCEPT !.status = NewStatus(call[p].op)]}
          BY DEF Written
        <4>3. v \in Record /\ v.status = NewStatus(call[p].op)
          BY <3>1, <4>1, <4>2 DEF Record, Status
        <4> QED BY <4>1, <4>3, NoRecordFact
      <3>5. call[p].op = "remove" => v = NoRecord
        <4>1. call[p].op = "remove" => Written(call[p].op, repo[call[p].dl]) = {NoRecord}
          BY DEF Written
        <4> QED BY <3>1, <4>1
      <3> QED BY <3>2, <3>3, <3>4, <3>5 DEF OpValues
    <2> QED BY <2>1, <2>2
  <1>5. ASSUME NEW p \in Procs, UpdateCommit(p) PROVE OpValues'
    <2>1. StoreStep(callTx[p]) /\ callTx[p] \in Tx
      BY <1>1, <1>5, CommitKinds
    <2>2. callTx'[p] = NoTx
      BY <1>1, <1>5, DoomFacts DEF UpdateCommit
    <2>3. \A q \in Procs : q # p => call'[q] = call[q]
      BY <1>1, <1>5 DEF UpdateCommit
    <2> QED BY <2>1, <2>2, <2>3, StillClean DEF OpValues, NoTx
  <1>6. ASSUME NEW r \in Runners, RunnerCommits(r) \/ MonitorCommit(r) PROVE OpValues'
    <2>1. \E t \in Tx : StoreStep(t)
      BY <1>6, CommitKinds DEF RunnerCommits, BaseInv, TypeOK
    <2>2. call' = call
      BY <1>6 DEF RunnerCommits, WriteCommit, MonitorCommit
    <2> QED BY <2>1, <2>2, StillClean DEF OpValues
  <1>7. ASSUME NEW r \in Runners, Report(r) PROVE OpValues'
    <2>1. call' = call
      BY <1>7 DEF Report
    <2>2. \A p \in Procs : callTx'[p].st = "clean" => callTx'[p] = callTx[p]
      BY <1>1, <1>7 DEF Report, Tx
    <2> QED BY <2>1, <2>2 DEF OpValues
  <1>8. ASSUME RequeueBegin PROVE OpValues'
    <2>1. CASE callTx' = callTx /\ call' = call
      BY <1>2, <2>1
    <2>2. CASE ~(callTx' = callTx /\ call' = call)
      <3>1. PICK c \in wk.stale :
              /\ c[1] \in Downloads /\ [c[2] EXCEPT !.status = "queued"] \in Record
              /\ callTx' = [callTx EXCEPT ![Worker] =
                              OpenTx(c[1], [c[2] EXCEPT !.status = "queued"])]
              /\ call' = [call EXCEPT ![Worker] =
                            [op |-> "requeue", pc |-> "commit", dl |-> c[1]]]
        BY <1>8, <2>2, RequeueOpens
      <3>2. call'[Worker].op = "requeue" /\ \A q \in Procs : q # Worker => call'[q] = call[q]
        BY <1>1, <3>1, WorkerIsProc
      <3>3. \A q \in Procs : q # Worker => callTx'[q] = callTx[q]
        BY <1>1, <3>1, WorkerIsProc
      <3> QED BY <3>2, <3>3 DEF OpValues
    <2> QED BY <2>1, <2>2
  <1>9. ASSUME ProcessEnds PROVE OpValues'
    BY <1>9 DEF ProcessEnds, OpValues, NoTx
  <1>10. ASSUME NEW p \in Procs, CheckDuplicate(p) \/ CancelRunner(p) \/ Register(p) \/ RemoveFiles(p)
         PROVE  OpValues'
    <2>1. callTx' = callTx /\ call[p].pc # "commit" /\ \A q \in Procs : q # p => call'[q] = call[q]
      BY <1>1, <1>10 DEF CheckDuplicate, CancelRunner, Register, RemoveFiles
    <2> QED BY <1>3, <2>1
  <1>11. ASSUME NEW p \in Callers, NEW op \in Ops, NEW d \in Downloads, Call(p, op, d) PROVE OpValues'
    <2>1. p \in Procs /\ callTx' = callTx /\ call[p].pc # "commit"
          /\ \A q \in Procs : q # p => call'[q] = call[q]
      BY <1>1, <1>11 DEF Call, NoCall, Procs
    <2> QED BY <1>3, <2>1
  <1>12. ASSUME StartListed PROVE OpValues'
    <2>1. callTx' = callTx /\ call[Worker].pc # "commit"
          /\ \A q \in Procs : q # Worker => call'[q] = call[q]
      BY <1>1, <1>12 DEF StartListed, NoCall
    <2> QED BY <1>3, <2>1, WorkerIsProc
  <1>13. ASSUME NEW r \in Runners, \/ RunLoad(r) \/ Drained(r) \/ RunnerMove(r) \/ RunnerOpens(r)
                                   \/ MonitorBegin(r) \/ ReopenSegment(r)
         PROVE  UNCHANGED <<call, callTx>>
    BY <1>13 DEF RunLoad, Drained, RunnerMove, RunnerOpens, MonitorBegin, ReopenSegment, callVars
  <1>14. ASSUME NEW d \in Downloads, NEW q \in QueueNames, Enqueue(d, q) PROVE UNCHANGED <<call, callTx>>
    BY <1>14 DEF Enqueue, callVars
  <1>15. ASSUME \/ \E q \in PausableQueues : PauseQueue(q)
                \/ \E d \in SlowDownloads : Age(d)
                \/ Tick \/ CountRunning \/ ListQueued \/ TickDone
                \/ Signal \/ PauseRunningDownloads \/ Restart
         PROVE  UNCHANGED <<call, callTx>>
    BY <1>15 DEF PauseQueue, Age, Tick, CountRunning, ListQueued, TickDone, Signal,
                 PauseRunningDownloads, Restart, callVars
  <1>16. CASE UNCHANGED vars
    BY <1>2, <1>16 DEF vars
  <1>17. CASE Next
    <2> USE NextKinds
    <2> QED BY <1>2, <1>4, <1>5, <1>6, <1>7, <1>8, <1>9, <1>10, <1>11, <1>12, <1>13, <1>14,
               <1>15, <1>17
  <1> QED BY <1>16, <1>17
----------------------------------------------------------------------------
(* No made-up record is stored.                                            *)

\* Nothing takes a download out of the misread ones.
LEMMA MisreadGrows == ASSUME BaseInv, [Next]_vars PROVE misread \subseteq misread'
  <1>1. ASSUME NEW r \in Runners, RunLoad(r) PROVE misread \subseteq misread'
    BY <1>1 DEF RunLoad
  <1>2. ASSUME NEW r \in Runners, \/ Drained(r) \/ RunnerMove(r) \/ RunnerOpens(r)
                                  \/ RunnerCommits(r) \/ Report(r) \/ ReopenSegment(r)
                                  \/ MonitorBegin(r) \/ MonitorCommit(r)
        PROVE  misread' = misread
    BY <1>2 DEF Drained, RunnerMove, RunnerOpens, RunnerCommits, WriteCommit, Report,
                ReopenSegment, MonitorBegin, MonitorCommit
  <1>3. ASSUME NEW p \in Procs, \/ CheckDuplicate(p) \/ CancelRunner(p) \/ UpdateBegin(p)
                                \/ UpdateCommit(p) \/ Register(p) \/ RemoveFiles(p)
        PROVE  misread' = misread
    BY <1>3 DEF CheckDuplicate, CancelRunner, UpdateBegin, UpdateCommit, Register, RemoveFiles
  <1>4. ASSUME \/ \E d \in Downloads, q \in QueueNames : Enqueue(d, q)
               \/ \E p \in Callers, op \in Ops, d \in Downloads : Call(p, op, d)
               \/ \E q \in PausableQueues : PauseQueue(q)
               \/ \E d \in SlowDownloads : Age(d)
               \/ Tick \/ RequeueBegin \/ CountRunning \/ ListQueued \/ StartListed \/ TickDone
               \/ Signal \/ PauseRunningDownloads \/ Restart \/ ProcessEnds
        PROVE  misread' = misread
    BY <1>4 DEF Enqueue, Call, PauseQueue, Age, Tick, RequeueBegin, CountRunning, ListQueued,
                StartListed, TickDone, Signal, PauseRunningDownloads, Restart, ProcessEnds
  <1>5. CASE UNCHANGED vars
    BY <1>5 DEF vars
  <1>6. CASE Next
    BY <1>1, <1>2, <1>3, <1>4, <1>6, NextKinds
  <1> QED BY <1>5, <1>6

LEMMA BlankStep == BaseInv /\ BlankInv /\ [Next]_vars => BlankInv'
  <1> SUFFICES ASSUME BaseInv, BlankInv, [Next]_vars PROVE BlankInv'
    OBVIOUS
  <1>1. TypeOK /\ NoRecord \notin Record
    BY DistinctAssumption DEF BaseInv
  <1>0. misread \subseteq misread'
    BY MisreadGrows
  <1>2. ASSUME UNCHANGED <<repo, callTx, runTx, monTx, run>>, wk'.stale \subseteq wk.stale
        PROVE  BlankInv'
    BY <1>0, <1>2 DEF BlankInv, Present, NotBlank
  \* The end of a transaction: what is stored was not blank, and no record
  \* comes into being.
  <1>3. ASSUME NEW t \in Tx, StoreStep(t), t.st = "clean" => NotBlank(t.dl, t.val), wk' = wk,
               \A r \in Runners : \/ run'[r] = run[r]
                                  \/ /\ run[r].pc # "free" /\ run'[r].dl = run[r].dl
                                     /\ run'[r].live = run[r].live /\ run[r].mem # NoRecord
                                     /\ run'[r].mem.kept = run[r].mem.kept
        PROVE  BlankInv'
    <2>1. \A d \in Downloads : NotBlank(d, repo'[d])
      BY <1>3 DEF StoreStep, BlankInv
    <2>2. \A p \in Procs : callTx'[p].st = "clean" => NotBlank(callTx'[p].dl, callTx'[p].val)
      BY <1>3, StillClean DEF BlankInv
    <2>3. \A r \in Runners : (runTx'[r].st = "clean" => NotBlank(runTx'[r].dl, runTx'[r].val))
                              /\ (monTx'[r].st = "clean" => NotBlank(monTx'[r].dl, monTx'[r].val))
      BY <1>3, StillClean DEF BlankInv
    <2>4. \A r \in Runners : run'[r].pc # "free" /\ run'[r].live /\ Present(run[r].dl)'
                                => NotBlank(run'[r].dl, run'[r].mem)
      <3> SUFFICES ASSUME NEW r \in Runners, run'[r].pc # "free", run'[r].live, Present(run[r].dl)'
                   PROVE  NotBlank(run'[r].dl, run'[r].mem)
        OBVIOUS
      <3>1. run'[r].dl = run[r].dl /\ run[r].pc # "free" /\ run[r].live
        BY <1>3
      <3>2. run[r].dl \in Downloads /\ Present(run[r].dl)
        BY <1>1, <1>3, <3>1, StillClean DEF BaseInv, Shape, Present, TypeOK
      <3>3. NotBlank(run[r].dl, run[r].mem)
        BY <3>1, <3>2 DEF BlankInv
      <3> QED BY <1>3, <3>1, <3>3 DEF NotBlank
    <2>5. \A c \in wk'.stale : NotBlank(c[1], c[2])
      BY <1>3 DEF BlankInv
    <2> QED BY <1>0, <1>3, <2>1, <2>2, <2>3, <2>4, <2>5 DEF BlankInv, NotBlank, Present
  <1>4. ASSUME NEW d \in Downloads, NEW q \in QueueNames, Enqueue(d, q) PROVE BlankInv'
    <2>1. \A e \in Downloads : e # d => repo'[e] = repo[e]
      BY <1>1, <1>4 DEF Enqueue, TypeOK
    <2>2. NotBlank(d, repo'[d])
      BY <1>1, <1>4 DEF Enqueue, TypeOK, NotBlank
    <2>3. \A r \in Runners : run[r].pc # "free" => run[r].dl # d /\ run[r].dl \in Downloads
      BY <1>1, <1>4 DEF Enqueue, BaseInv, Shape, TypeOK
    <2>4. UNCHANGED <<callTx, runTx, monTx, run, wk>>
      BY <1>4 DEF Enqueue, callVars, runVars, monVars
    <2> QED BY <1>0, <2>1, <2>2, <2>3, <2>4 DEF BlankInv, Present, NotBlank
  <1>5. ASSUME NEW p \in Procs, CancelRunner(p) PROVE BlankInv'
    <2>1. \A r \in Runners : run'[r].pc = run[r].pc /\ run'[r].dl = run[r].dl
                              /\ run'[r].mem = run[r].mem /\ (run'[r].live => run[r].live)
      BY <1>1, <1>5 DEF CancelRunner, TypeOK, RunRec
    <2> QED BY <1>5, <2>1 DEF CancelRunner, BlankInv, Present, NotBlank, storeVars, monVars
  <1>6. ASSUME NEW p \in Procs, UpdateBegin(p) PROVE BlankInv'
    <2>1. UNCHANGED <<repo, runTx, monTx, run, wk>>
      BY <1>6 DEF UpdateBegin, storeVars, runVars, monVars
    <2>2. CASE callTx' = callTx
      BY <1>2, <2>1, <2>2
    <2>3. CASE callTx' # callTx
      <3>1. PICK v \in Record \cup {NoRecord} :
              /\ callTx' = [callTx EXCEPT ![p] = OpenTx(call[p].dl, v)]
              /\ call[p].dl \in Downloads /\ repo[call[p].dl] \in Record
              /\ v # NoRecord => v.kept = repo[call[p].dl].kept
        BY <1>6, <2>3, UpdateOpens
      <3>2. NotBlank(call[p].dl, v)
        BY <1>1, <3>1 DEF BlankInv, NotBlank
      <3>3. /\ callTx'[p].val = v /\ callTx'[p].dl = call[p].dl
            /\ \A q \in Procs : q # p => callTx'[q] = callTx[q]
        <4>1. OpenTx(call[p].dl, v).val = v /\ OpenTx(call[p].dl, v).dl = call[p].dl
          BY <3>1, OpenTxType
        <4> QED BY <1>1, <3>1, <4>1 DEF TypeOK
      <3> QED BY <1>0, <2>1, <3>2, <3>3 DEF BlankInv, Present, NotBlank
    <2> QED BY <2>2, <2>3
  <1>7. ASSUME NEW p \in Procs, UpdateCommit(p) PROVE BlankInv'
    <2>1. StoreStep(callTx[p]) /\ callTx[p] \in Tx /\ UNCHANGED <<run, wk>>
      BY <1>1, <1>7, CommitKinds DEF UpdateCommit, TypeOK
    <2> QED BY <1>3, <2>1 DEF BlankInv
  <1>8. ASSUME NEW p \in Procs, Register(p) PROVE BlankInv'
    <2>1. UNCHANGED <<repo, callTx, runTx, monTx, wk>>
      BY <1>8 DEF Register, storeVars, monVars
    <2>2. \A r \in Runners : run'[r] = run[r] \/ run'[r].mem = NoRecord
      BY <1>1, <1>8 DEF Register, TypeOK
    <2> QED BY <1>0, <2>1, <2>2 DEF BlankInv, Present, NotBlank
  <1>9. ASSUME NEW r \in Runners, RunLoad(r) PROVE BlankInv'
    <2>1. UNCHANGED <<repo, callTx, runTx, monTx, wk>> /\ Others(r)
      BY <1>1, <1>9 DEF RunLoad, storeVars, callVars, monVars, Others, TypeOK
    <2>2. run'[r].dl = run[r].dl /\ run'[r].live = run[r].live /\ run[r].dl \in Downloads
          /\ \/ run'[r].mem = repo[run[r].dl]
             \/ ~CanUpdate(run[r].live, run[r].dl)
             \/ run[r].dl \in misread'
      BY <1>1, <1>9 DEF RunLoad, TypeOK, RunRec, BaseInv, Shape
    <2> QED BY <1>0, <2>1, <2>2 DEF BlankInv, Present, Others, CanUpdate, NotBlank
  <1>10. ASSUME NEW r \in Runners, Drained(r) PROVE BlankInv'
    <2>1. UNCHANGED <<repo, callTx, runTx, monTx, wk>> /\ Others(r) /\ run'[r].pc = "free"
      BY <1>1, <1>10 DEF Drained, storeVars, callVars, monVars, Others, TypeOK, FreeRunner
    <2> QED BY <1>0, <2>1 DEF BlankInv, Present, Others, NotBlank
  <1>11. ASSUME NEW r \in Runners, RunnerMove(r) \/ RunnerOpens(r) \/ RunnerCommits(r)
         PROVE  /\ run[r].pc # "free" /\ run'[r].dl = run[r].dl /\ run[r].dl \in Downloads
                /\ run'[r].live = run[r].live /\ run[r].mem \in Record /\ run[r].mem # NoRecord
                /\ run'[r].mem.kept = run[r].mem.kept
                /\ \A s \in Runners : s # r => run'[s] = run[s]
    <2>1. MoveCore(r)
      BY <1>11 DEF RunnerMove, RunnerOpens, RunnerCommits
    <2> QED BY <1>1, <2>1 DEF MoveCore, Others, BaseInv, Shape, TypeOK
  <1>12. ASSUME NEW r \in Runners, RunnerMove(r) PROVE BlankInv'
    <2>1. UNCHANGED <<repo, callTx, runTx, monTx, wk>>
      BY <1>12 DEF RunnerMove, storeVars, callVars, monVars
    <2> QED BY <1>0, <1>11, <1>12, <2>1 DEF BlankInv, Present, NotBlank
  <1>13. ASSUME NEW r \in Runners, RunnerOpens(r) PROVE BlankInv'
    <2>1. UNCHANGED <<repo, callTx, monTx, wk>>
      BY <1>13 DEF RunnerOpens, storeVars, callVars, monVars
    <2>2. /\ runTx'[r].val = run[r].mem /\ runTx'[r].dl = run[r].dl
          /\ \A s \in Runners : s # r => runTx'[s] = runTx[s]
      <3>1. /\ OpenTx(run[r].dl, run[r].mem).val = run[r].mem
            /\ OpenTx(run[r].dl, run[r].mem).dl = run[r].dl
        BY <1>11, <1>13, OpenTxType
      <3> QED BY <1>1, <1>13, <3>1 DEF RunnerOpens, TypeOK
    <2>3. NotBlank(run[r].dl, run[r].mem)
      BY <1>11, <1>13 DEF RunnerOpens, CanUpdate, BlankInv
    <2> QED BY <1>0, <1>11, <1>13, <2>1, <2>2, <2>3 DEF BlankInv, Present, NotBlank
  <1>14. ASSUME NEW r \in Runners, RunnerCommits(r) PROVE BlankInv'
    <2>1. StoreStep(runTx[r]) /\ runTx[r] \in Tx /\ wk' = wk
      BY <1>1, <1>14, CommitKinds DEF RunnerCommits, WriteCommit, TypeOK
    <2> QED BY <1>3, <1>11, <1>14, <2>1 DEF BlankInv
  <1>15. ASSUME NEW r \in Runners, Report(r) PROVE BlankInv'
    <2>1. UNCHANGED <<repo, runTx, monTx, run, wk>>
      BY <1>15 DEF Report, storeVars, runVars
    <2>2. \A p \in Procs : callTx'[p].st = "clean" => callTx'[p] = callTx[p]
      BY <1>1, <1>15 DEF Report, Tx, TypeOK
    <2> QED BY <1>0, <2>1, <2>2 DEF BlankInv, Present, NotBlank
  <1>16. ASSUME NEW r \in Runners, MonitorBegin(r) PROVE BlankInv'
    <2>1. UNCHANGED <<repo, callTx, runTx, run, wk>>
      BY <1>16 DEF MonitorBegin, storeVars, callVars, runVars
    <2>2. CASE monTx' = monTx
      BY <1>2, <2>1, <2>2
    <2>3. CASE monTx' # monTx
      <3>1. CanUpdate(run[r].live, run[r].dl)
            /\ monTx' = [monTx EXCEPT ![r] = OpenTx(run[r].dl, run[r].mem)]
        BY <1>16, <2>3 DEF MonitorBegin
      <3>2. run[r].pc # "free" /\ run[r].dl \in Downloads /\ run[r].mem \in Record
        BY <1>1, <1>16 DEF MonitorBegin, BaseInv, Shape, TypeOK
      <3>3. NotBlank(run[r].dl, run[r].mem)
        BY <3>1, <3>2 DEF CanUpdate, BlankInv
      <3>4. /\ OpenTx(run[r].dl, run[r].mem).val = run[r].mem
            /\ OpenTx(run[r].dl, run[r].mem).dl = run[r].dl
        BY <3>2, OpenTxType
      <3>5. /\ monTx'[r].val = run[r].mem /\ monTx'[r].dl = run[r].dl
            /\ \A s \in Runners : s # r => monTx'[s] = monTx[s]
        BY <1>1, <3>1, <3>4 DEF TypeOK
      <3> QED BY <1>0, <2>1, <3>3, <3>5 DEF BlankInv, Present, NotBlank
    <2> QED BY <2>2, <2>3
  <1>17. ASSUME NEW r \in Runners, MonitorCommit(r) PROVE BlankInv'
    <2>1. StoreStep(monTx[r]) /\ monTx[r] \in Tx /\ UNCHANGED <<run, wk>>
      BY <1>1, <1>17, CommitKinds DEF MonitorCommit, TypeOK
    <2> QED BY <1>3, <2>1 DEF BlankInv
  <1>18. ASSUME RequeueBegin PROVE BlankInv'
    <2>1. UNCHANGED <<repo, runTx, monTx, run>> /\ wk'.stale \subseteq wk.stale
      BY <1>1, <1>18 DEF RequeueBegin, storeVars, runVars, monVars, TypeOK, WorkerRec
    <2>2. CASE callTx' = callTx
      BY <1>2, <2>1, <2>2
    <2>3. CASE callTx' # callTx
      <3>1. PICK c \in wk.stale :
              /\ c[1] \in Downloads /\ [c[2] EXCEPT !.status = "queued"] \in Record
              /\ callTx' = [callTx EXCEPT ![Worker] =
                              OpenTx(c[1], [c[2] EXCEPT !.status = "queued"])]
        BY <1>18, <2>3, RequeueOpens
      <3> DEFINE v == [c[2] EXCEPT !.status = "queued"]
      <3>2. NotBlank(c[1], v)
        <4>1. c[2] \in Record /\ v.kept = c[2].kept
          BY <1>1, <3>1 DEF TypeOK, WorkerRec, Record
        <4> QED BY <1>1, <3>1, <4>1 DEF BlankInv, NotBlank
      <3>3. OpenTx(c[1], v).val = v /\ OpenTx(c[1], v).dl = c[1]
        BY <3>1, OpenTxType
      <3>4. /\ callTx'[Worker].val = v /\ callTx'[Worker].dl = c[1]
            /\ \A q \in Procs : q # Worker => callTx'[q] = callTx[q]
        BY <1>1, <3>1, <3>3, WorkerIsProc DEF TypeOK
      <3> HIDE DEF v
      <3> QED BY <1>0, <2>1, <3>2, <3>4 DEF BlankInv, Present, NotBlank
    <2> QED BY <2>2, <2>3
  <1>19. ASSUME ProcessEnds PROVE BlankInv'
    BY <1>0, <1>19 DEF ProcessEnds, BlankInv, Present, NotBlank, NoTx, FreeRunner, IdleWorker, storeVars
  <1>20. ASSUME Tick PROVE BlankInv'
    <2>1. UNCHANGED <<repo, callTx, runTx, monTx, run>>
      BY <1>20 DEF Tick, storeVars, callVars, runVars, monVars
    <2>2. wk'.stale = {<<d, repo[d]>> : d \in WithStatus("running") \cap stale}
      BY <1>1, <1>20 DEF Tick, TypeOK, WorkerRec
    <2>3. \A c \in wk'.stale : NotBlank(c[1], c[2])
      BY <2>2 DEF WithStatus, BlankInv
    <2> QED BY <1>0, <2>1, <2>3 DEF BlankInv, Present, NotBlank
  <1>21. ASSUME NEW p \in Procs, CheckDuplicate(p) \/ RemoveFiles(p) PROVE BlankInv'
    <2>1. UNCHANGED <<repo, callTx, runTx, monTx, run, wk>>
      BY <1>21 DEF CheckDuplicate, RemoveFiles, storeVars, runVars, monVars
    <2> QED BY <1>2, <2>1
  <1>22. ASSUME CountRunning \/ ListQueued \/ StartListed \/ TickDone PROVE BlankInv'
    <2>1. StoreQuiet /\ run' = run
      BY <1>22, QuietSteps
    <2>2. wk'.stale \subseteq wk.stale
      <3>1. wk \in WorkerRec
        BY <1>1 DEF TypeOK
      <3>2. CASE CountRunning
        BY <3>1, <3>2 DEF CountRunning, WorkerRec
      <3>3. CASE ListQueued
        <4>1. \E l : wk' = [wk EXCEPT !.pc = "start", !.list = l, !.queue = NoQueue, !.room = 0]
          BY <3>3 DEF ListQueued
        <4> QED BY <3>1, <4>1 DEF WorkerRec
      <3>4. CASE StartListed
        BY <3>1, <3>4 DEF StartListed, WorkerRec
      <3>5. CASE TickDone
        BY <3>5 DEF TickDone, IdleWorker
      <3> QED BY <1>22, <3>2, <3>3, <3>4, <3>5
    <2> QED BY <1>2, <2>1, <2>2 DEF StoreQuiet
  <1>23. ASSUME \/ \E p \in Callers, op \in Ops, d \in Downloads : Call(p, op, d)
                \/ \E q \in PausableQueues : PauseQueue(q)
                \/ \E d \in SlowDownloads : Age(d)
                \/ \E r \in Runners : ReopenSegment(r)
                \/ Signal \/ PauseRunningDownloads \/ Restart
         PROVE  BlankInv'
    <2>1. StoreQuiet /\ run' = run
      BY <1>23, QuietSteps
    <2>2. wk' = wk
      BY <1>23 DEF Call, PauseQueue, Age, ReopenSegment, Signal, PauseRunningDownloads, Restart
    <2> QED BY <1>2, <2>1, <2>2 DEF StoreQuiet
  <1>24. CASE UNCHANGED vars
    BY <1>2, <1>24 DEF vars
  <1>25. CASE Next
    <2> USE NextKinds
    <2> QED BY <1>4, <1>5, <1>6, <1>7, <1>8, <1>9, <1>10, <1>12, <1>13, <1>14, <1>15, <1>16,
               <1>17, <1>18, <1>19, <1>20, <1>21, <1>22, <1>23, <1>25
  <1> QED BY <1>24, <1>25

\* The record Run makes up when it cannot load its download is stored only
\* where the store failed to read a record that was there; in the other cases
\* the write is refused by the context or the missing record that made the
\* load fail, and no copy of a made-up record reaches another writer.
THEOREM BlankNeverStored == Spec => []NoBlankRecord
  <1>1. Spec => []BaseInv
    BY BaseInit, BaseStep, PTL DEF Spec
  <1>2. Init => BlankInv
    BY DEF Init, BlankInv, Present, NotBlank, NoTx, FreeRunner, IdleWorker
  <1>3. BlankInv => NoBlankRecord
    BY DEF BlankInv, NoBlankRecord, NotBlank, Present
  <1> QED BY <1>1, <1>2, <1>3, BlankStep, PTL DEF Spec
----------------------------------------------------------------------------
(* A pause or a cancellation is not undone by a late write.                *)

\* A transaction that ends leaves no other one about its record clean.
LEMMA NoneLeftClean ==
  ASSUME BaseInv, NEW p \in Procs, UpdateCommit(p), callTx[p].st = "clean"
  PROVE  /\ \A q \in Procs : callTx'[q].st = "clean" => callTx'[q].dl # callTx[p].dl
         /\ \A r \in Runners : /\ runTx'[r].st = "clean" => runTx'[r].dl # callTx[p].dl
                               /\ monTx'[r].st = "clean" => monTx'[r].dl # callTx[p].dl
  <1>1. callTx[p] \in Tx
    BY DEF BaseInv, TypeOK
  <1>2. ASSUME NEW S, NEW f \in [S -> Tx]
        PROVE  /\ Doom(f, callTx[p]) \in [S -> Tx]
               /\ \A a \in S : Doom(f, callTx[p])[a].st = "clean"
                               => Doom(f, callTx[p])[a].dl # callTx[p].dl
    BY <1>1, DoomFacts
  <1>3. runTx \in [Runners -> Tx] /\ runTx' = Doom(runTx, callTx[p])
    BY DEF BaseInv, TypeOK, UpdateCommit
  <1>4. monTx \in [Runners -> Tx] /\ monTx' = Doom(monTx, callTx[p])
    BY DEF BaseInv, TypeOK, UpdateCommit
  <1>5. callTx \in [Procs -> Tx] /\ callTx' = [Doom(callTx, callTx[p]) EXCEPT ![p] = NoTx]
    BY DEF BaseInv, TypeOK, UpdateCommit
  <1>6. \A r \in Runners : runTx'[r].st = "clean" => runTx'[r].dl # callTx[p].dl
    BY <1>2, <1>3
  <1>7. \A r \in Runners : monTx'[r].st = "clean" => monTx'[r].dl # callTx[p].dl
    BY <1>2, <1>4
  <1>8. \A q \in Procs : callTx'[q].st = "clean" => callTx'[q].dl # callTx[p].dl
    <2>1. /\ Doom(callTx, callTx[p]) \in [Procs -> Tx]
          /\ \A q \in Procs : Doom(callTx, callTx[p])[q].st = "clean"
                              => Doom(callTx, callTx[p])[q].dl # callTx[p].dl
      BY <1>2, <1>5
    <2> QED BY <1>5, <2>1 DEF NoTx
  <1> QED BY <1>6, <1>7, <1>8

LEMMA HeldStep == BaseInv /\ OpValues /\ HeldInv /\ [Next]_vars => HeldInv'
  <1> SUFFICES ASSUME BaseInv, OpValues, HeldInv, [Next]_vars PROVE HeldInv'
    OBVIOUS
  <1>1. TypeOK /\ held \subseteq Downloads /\ NoRecord \notin Record
    BY DistinctAssumption DEF BaseInv, TypeOK
  <1>2. ASSUME UNCHANGED <<repo, callTx, runTx, monTx>>, held' \subseteq held,
               \A r \in Runners : LiveRunner(r)' => LiveRunner(r) /\ run'[r].dl = run[r].dl
        PROVE  HeldInv'
    <2> SUFFICES ASSUME NEW d \in held PROVE HeldSafe(d)'
      BY <1>2 DEF HeldInv
    <2> QED BY <1>2 DEF HeldInv, HeldSafe, Present
  \* The end of a transaction that does not finish a held download.
  <1>3. ASSUME NEW t \in Tx, StoreStep(t), NEW d \in held,
               t.st = "clean" /\ t.dl = d => t.val = NoRecord \/ t.val.status \notin Finished,
               \A r \in Runners : LiveRunner(r)' => LiveRunner(r) /\ run'[r].dl = run[r].dl
        PROVE  HeldSafe(d)'
    <2>1. d \in Downloads /\ HeldSafe(d)
      BY <1>1 DEF HeldInv
    <2>2. repo'[d] # NoRecord => repo'[d].status \notin Finished
      BY <1>3, <2>1 DEF StoreStep, HeldSafe, Present
    <2>3. \A p \in Procs : callTx'[p].st = "clean" /\ callTx'[p].dl = d
                           => callTx'[p].val = NoRecord \/ callTx'[p].val.status \notin Finished
      BY <1>3, <2>1, StillClean DEF HeldSafe
    <2>4. \A r \in Runners : /\ runTx'[r].st = "clean" => runTx'[r].dl # d
                             /\ monTx'[r].st = "clean" => monTx'[r].dl # d
      BY <1>3, <2>1, StillClean DEF HeldSafe
    <2>5. \A r \in Runners : LiveRunner(r)' => run'[r].dl # d
      BY <1>3, <2>1 DEF HeldSafe
    <2> QED BY <2>2, <2>3, <2>4, <2>5 DEF HeldSafe, Present
  <1>4. ASSUME NEW d \in Downloads, NEW q \in QueueNames, Enqueue(d, q) PROVE HeldInv'
    <2>1. \A e \in Downloads : repo'[e] = repo[e] \/ repo'[e].status = "queued"
      BY <1>1, <1>4 DEF Enqueue, TypeOK
    <2>2. UNCHANGED <<held, callTx, runTx, monTx, run>>
      BY <1>4 DEF Enqueue, callVars, runVars, monVars
    <2> QED BY <1>1, <2>1, <2>2 DEF HeldInv, HeldSafe, Present, Finished, LiveRunner
  <1>5. ASSUME NEW p \in Procs, CancelRunner(p) PROVE HeldInv'
    <2>1. \A r \in Runners : run'[r].pc = run[r].pc /\ run'[r].dl = run[r].dl
                              /\ (run'[r].live => run[r].live)
      BY <1>1, <1>5 DEF CancelRunner, TypeOK, RunRec
    <2>2. UNCHANGED <<repo, held, callTx, runTx, monTx>>
      BY <1>5 DEF CancelRunner, storeVars, monVars
    <2> QED BY <1>2, <2>1, <2>2 DEF LiveRunner
  <1>6. ASSUME NEW p \in Procs, UpdateBegin(p) PROVE HeldInv'
    <2>1. UNCHANGED <<repo, held, runTx, monTx, run>>
      BY <1>6 DEF UpdateBegin, storeVars, runVars, monVars
    <2>2. CASE callTx' = callTx
      BY <1>2, <2>1, <2>2 DEF LiveRunner
    <2>3. CASE callTx' # callTx
      <3>1. PICK v \in Record \cup {NoRecord} :
              /\ callTx' = [callTx EXCEPT ![p] = OpenTx(call[p].dl, v)]
              /\ call[p].dl \in Downloads /\ repo[call[p].dl] \in Record
              /\ v # NoRecord => \/ v.status = repo[call[p].dl].status
                                 \/ v.status \in {"running", "paused", "cancelled"}
        BY <1>6, <2>3, UpdateOpens
      <3>2. call[p].dl \in held => v = NoRecord \/ v.status \notin Finished
        BY <1>1, <3>1 DEF HeldInv, HeldSafe, Present, Finished
      <3>3. callTx'[p].val = v /\ callTx'[p].dl = call[p].dl
            /\ \A q \in Procs : q # p => callTx'[q] = callTx[q]
        <4>1. OpenTx(call[p].dl, v).val = v /\ OpenTx(call[p].dl, v).dl = call[p].dl
          BY <3>1, OpenTxType
        <4> QED BY <1>1, <3>1, <4>1 DEF TypeOK
      <3>4. ASSUME NEW d \in held PROVE HeldSafe(d)'
        BY <2>1, <3>2, <3>3, <3>4 DEF HeldInv, HeldSafe, Present, LiveRunner
      <3> QED BY <2>1, <3>4 DEF HeldInv
    <2> QED BY <2>2, <2>3
  <1>7. ASSUME NEW p \in Procs, UpdateCommit(p) PROVE HeldInv'
    <2>1. StoreStep(callTx[p]) /\ callTx[p] \in Tx /\ UNCHANGED run
          /\ held' = IF TakesHold(p) THEN held \cup {call[p].dl} ELSE held
      BY <1>1, <1>7, CommitKinds DEF UpdateCommit, TypeOK
    <2>2. ASSUME NEW d \in held PROVE HeldSafe(d)'
      <3>1. callTx[p].st = "clean" /\ callTx[p].dl = d
              => callTx[p].val = NoRecord \/ callTx[p].val.status \notin Finished
        BY DEF HeldInv, HeldSafe
      <3> QED BY <1>3, <2>1, <3>1 DEF LiveRunner
    <2>3. ASSUME TakesHold(p), NEW d, d = call[p].dl PROVE HeldSafe(d)'
      <3>1. callTx[p].st = "clean" /\ callTx[p].dl = d /\ d \in Downloads
            /\ call[p].op \in {"pause", "cancel"}
        BY <2>3 DEF TakesHold, BaseInv, TxShape, TxOf, CleanPresent
      <3>2. callTx[p].val.status \notin Finished
        BY <3>1 DEF OpValues, Finished
      <3>3. repo'[d] = callTx[p].val
        <4>1. Commit(callTx[p]) /\ CleanPresent(callTx[p])
          BY <1>7 DEF UpdateCommit, BaseInv, TxShape
        <4> QED BY <1>1, <2>1, <3>1, <4>1, CommitFacts
      <3>4. \A r \in Runners : LiveRunner(r)' => run'[r].dl # d
        BY <2>1, <2>3 DEF TakesHold, LiveRunner
      <3> QED BY <1>7, <3>1, <3>2, <3>3, <3>4, NoneLeftClean DEF HeldSafe, Present
    <2> QED BY <2>1, <2>2, <2>3 DEF HeldInv
  <1>8. ASSUME NEW p \in Procs, Register(p) PROVE HeldInv'
    <2>1. UNCHANGED <<repo, callTx, runTx, monTx>> /\ held' = held \ {call[p].dl}
      BY <1>8 DEF Register, storeVars, monVars
    <2>2. \A r \in Runners : run'[r] = run[r] \/ run'[r].dl = call[p].dl
      BY <1>1, <1>8 DEF Register, TypeOK
    <2>3. ASSUME NEW d \in held, d # call[p].dl PROVE HeldSafe(d)'
      BY <2>1, <2>2, <2>3 DEF HeldInv, HeldSafe, Present, LiveRunner
    <2> QED BY <2>1, <2>3 DEF HeldInv
  <1>9. ASSUME NEW r \in Runners, RunLoad(r) PROVE HeldInv'
    <2>1. UNCHANGED <<repo, held, callTx, runTx, monTx>> /\ Others(r)
          /\ run'[r].dl = run[r].dl /\ run'[r].live = run[r].live /\ run[r].pc # "free"
      BY <1>1, <1>9 DEF RunLoad, storeVars, callVars, monVars, Others, TypeOK, RunRec
    <2> QED BY <1>2, <2>1 DEF LiveRunner, Others
  <1>10. ASSUME NEW r \in Runners, Drained(r) PROVE HeldInv'
    <2>1. UNCHANGED <<repo, held, callTx, runTx, monTx>> /\ Others(r) /\ run'[r].pc = "free"
      BY <1>1, <1>10 DEF Drained, storeVars, callVars, monVars, Others, TypeOK, FreeRunner
    <2> QED BY <1>2, <2>1 DEF LiveRunner, Others
  <1>11. ASSUME NEW r \in Runners, RunnerMove(r) \/ RunnerOpens(r) \/ RunnerCommits(r)
         PROVE  /\ run[r].pc # "free" /\ run[r].dl \in Downloads /\ run[r].mem \in Record
                /\ \A s \in Runners : LiveRunner(s)' => LiveRunner(s) /\ run'[s].dl = run[s].dl
    <2>1. MoveCore(r)
      BY <1>11 DEF RunnerMove, RunnerOpens, RunnerCommits
    <2> QED BY <1>1, <2>1 DEF MoveCore, Others, BaseInv, Shape, TypeOK, LiveRunner
  <1>12. ASSUME NEW r \in Runners, RunnerMove(r) PROVE HeldInv'
    <2>1. UNCHANGED <<repo, held, callTx, runTx, monTx>>
      BY <1>12 DEF RunnerMove, storeVars, callVars, monVars
    <2> QED BY <1>2, <1>11, <1>12, <2>1
  <1>13. ASSUME NEW r \in Runners, RunnerOpens(r) PROVE HeldInv'
    <2>1. UNCHANGED <<repo, held, callTx, monTx>>
      BY <1>13 DEF RunnerOpens, storeVars, callVars, monVars
    <2>2. runTx'[r].dl = run[r].dl /\ \A s \in Runners : s # r => runTx'[s] = runTx[s]
      <3>1. OpenTx(run[r].dl, run[r].mem).dl = run[r].dl
        BY <1>11, <1>13, OpenTxType
      <3> QED BY <1>1, <1>13, <3>1 DEF RunnerOpens, TypeOK
    <2>3. LiveRunner(r)
      BY <1>11, <1>13 DEF RunnerOpens, CanUpdate, LiveRunner
    <2>4. ASSUME NEW d \in held PROVE HeldSafe(d)'
      BY <1>11, <1>13, <2>1, <2>2, <2>3, <2>4 DEF HeldInv, HeldSafe, Present
    <2> QED BY <2>1, <2>4 DEF HeldInv
  <1>14. ASSUME NEW r \in Runners, RunnerCommits(r) PROVE HeldInv'
    <2>1. StoreStep(runTx[r]) /\ runTx[r] \in Tx /\ held' = held
      BY <1>1, <1>14, CommitKinds DEF RunnerCommits, WriteCommit, TypeOK
    <2>2. ASSUME NEW d \in held PROVE HeldSafe(d)'
      <3>1. ~(runTx[r].st = "clean" /\ runTx[r].dl = d)
        BY DEF HeldInv, HeldSafe
      <3> QED BY <1>3, <1>11, <1>14, <2>1, <3>1
    <2> QED BY <2>1, <2>2 DEF HeldInv
  <1>15. ASSUME NEW r \in Runners, Report(r) PROVE HeldInv'
    <2>1. UNCHANGED <<repo, held, runTx, monTx, run>>
      BY <1>15 DEF Report, storeVars, runVars
    <2>2. \A p \in Procs : callTx'[p].st = "clean" => callTx'[p] = callTx[p]
      BY <1>1, <1>15 DEF Report, Tx, TypeOK
    <2> QED BY <2>1, <2>2 DEF HeldInv, HeldSafe, Present, LiveRunner
  <1>16. ASSUME NEW r \in Runners, MonitorBegin(r) PROVE HeldInv'
    <2>1. UNCHANGED <<repo, held, callTx, runTx, run>>
      BY <1>16 DEF MonitorBegin, storeVars, callVars, runVars
    <2>2. CASE monTx' = monTx
      BY <1>2, <2>1, <2>2 DEF LiveRunner
    <2>3. CASE monTx' # monTx
      <3>1. CanUpdate(run[r].live, run[r].dl)
            /\ monTx' = [monTx EXCEPT ![r] = OpenTx(run[r].dl, run[r].mem)]
        BY <1>16, <2>3 DEF MonitorBegin
      <3>2. run[r].pc # "free" /\ run[r].dl \in Downloads /\ run[r].mem \in Record
        BY <1>1, <1>16 DEF MonitorBegin, BaseInv, Shape, TypeOK
      <3>3. LiveRunner(r)
        BY <3>1, <3>2 DEF CanUpdate, LiveRunner
      <3>4. OpenTx(run[r].dl, run[r].mem).dl = run[r].dl
        BY <3>2, OpenTxType
      <3>5. monTx'[r].dl = run[r].dl /\ \A s \in Runners : s # r => monTx'[s] = monTx[s]
        BY <1>1, <3>1, <3>4 DEF TypeOK
      <3>6. ASSUME NEW d \in held PROVE HeldSafe(d)'
        BY <2>1, <3>3, <3>5, <3>6 DEF HeldInv, HeldSafe, Present, LiveRunner
      <3> QED BY <2>1, <3>6 DEF HeldInv
    <2> QED BY <2>2, <2>3
  <1>17. ASSUME NEW r \in Runners, MonitorCommit(r) PROVE HeldInv'
    <2>1. StoreStep(monTx[r]) /\ monTx[r] \in Tx /\ UNCHANGED <<run, held>>
      BY <1>1, <1>17, CommitKinds DEF MonitorCommit, TypeOK
    <2>2. ASSUME NEW d \in held PROVE HeldSafe(d)'
      <3>1. ~(monTx[r].st = "clean" /\ monTx[r].dl = d)
        BY DEF HeldInv, HeldSafe
      <3> QED BY <1>3, <2>1, <3>1 DEF LiveRunner
    <2> QED BY <2>1, <2>2 DEF HeldInv
  <1>18. ASSUME RequeueBegin PROVE HeldInv'
    <2>1. UNCHANGED <<repo, held, runTx, monTx, run>>
      BY <1>18 DEF RequeueBegin, storeVars, runVars, monVars
    <2>2. CASE callTx' = callTx
      BY <1>2, <2>1, <2>2 DEF LiveRunner
    <2>3. CASE callTx' # callTx
      <3>1. PICK c \in wk.stale :
              /\ c[1] \in Downloads /\ [c[2] EXCEPT !.status = "queued"] \in Record
              /\ callTx' = [callTx EXCEPT ![Worker] =
                              OpenTx(c[1], [c[2] EXCEPT !.status = "queued"])]
        BY <1>18, <2>3, RequeueOpens
      <3> DEFINE v == [c[2] EXCEPT !.status = "queued"]
      <3>2. v.status \notin Finished
        BY DEF Finished
      <3>3. OpenTx(c[1], v).val = v
        BY <3>1, OpenTxType
      <3>4. callTx'[Worker].val = v /\ \A q \in Procs : q # Worker => callTx'[q] = callTx[q]
        BY <1>1, <3>1, <3>3, WorkerIsProc DEF TypeOK
      <3> HIDE DEF v
      <3>5. ASSUME NEW d \in held PROVE HeldSafe(d)'
        BY <2>1, <3>2, <3>4, <3>5 DEF HeldInv, HeldSafe, Present, LiveRunner
      <3> QED BY <2>1, <3>5 DEF HeldInv
    <2> QED BY <2>2, <2>3
  <1>19. ASSUME ProcessEnds PROVE HeldInv'
    <2>1. ASSUME NEW d \in held PROVE HeldSafe(d)'
      BY <1>19, <2>1
      DEF ProcessEnds, HeldInv, HeldSafe, Present, NoTx, FreeRunner, LiveRunner, storeVars
    <2> QED BY <1>19, <2>1 DEF ProcessEnds, HeldInv
  <1>20. ASSUME NEW p \in Procs, CheckDuplicate(p) \/ RemoveFiles(p) PROVE HeldInv'
    <2>1. UNCHANGED <<repo, held, callTx, runTx, monTx, run>>
      BY <1>20 DEF CheckDuplicate, RemoveFiles, storeVars, runVars, monVars
    <2> QED BY <1>2, <2>1 DEF LiveRunner
  <1>21. ASSUME StoreQuiet, UNCHANGED <<run, held>> PROVE HeldInv'
    BY <1>2, <1>21 DEF StoreQuiet, LiveRunner
  <1>22. CASE UNCHANGED vars
    BY <1>21, <1>22 DEF vars, StoreQuiet
  <1>23. CASE Next
    <2> USE NextKinds, QuietSteps
    <2> QED BY <1>4, <1>5, <1>6, <1>7, <1>8, <1>9, <1>10, <1>12, <1>13, <1>14, <1>15, <1>16,
               <1>17, <1>18, <1>19, <1>20, <1>21, <1>23
  <1> QED BY <1>22, <1>23

\* A Pause or Cancel that was stored when no runner was live any more stands:
\* neither a cancelled runner nor its monitorProgress turns the download into
\* completed or failed.
THEOREM HeldStands == Spec => []HeldNotFinished
  <1>1. Spec => []BaseInv
    BY BaseInit, BaseStep, PTL DEF Spec
  <1>2. Init => OpValues /\ HeldInv
    BY DEF Init, OpValues, HeldInv, NoTx
  <1>3. HeldInv => HeldNotFinished
    BY DEF HeldInv, HeldSafe, HeldNotFinished, Finished
  <1>4. Spec => []OpValues
    BY <1>1, <1>2, OpValuesStep, PTL DEF Spec
  <1> QED BY <1>1, <1>2, <1>3, <1>4, HeldStep, PTL DEF Spec
----------------------------------------------------------------------------
(* A completed download has its file.                                      *)

LEMMA FileStep == BaseInv /\ OpValues /\ FileInv /\ [Next]_vars => FileInv'
  <1> SUFFICES ASSUME BaseInv, OpValues, FileInv, [Next]_vars PROVE FileInv'
    OBVIOUS
  <1>1. TypeOK /\ NoRecord \notin Record
    BY DistinctAssumption DEF BaseInv
  \* Nothing is stored or loaded, and no file goes away.
  <1>2. ASSUME UNCHANGED <<repo, callTx, runTx, monTx>>, final \subseteq final',
               \A p \in Procs : call'[p] = call[p] \/ call'[p].pc # "files",
               \A r \in Runners : \/ run'[r].pc = "free" \/ run'[r].mem = NoRecord
                                  \/ run'[r].dl = run[r].dl /\ run'[r].mem = run[r].mem /\ run[r].pc # "free"
        PROVE  FileInv'
    <2>1. \A r \in Runners : run'[r].pc # "free" /\ Present(run[r].dl)' /\ CompletedValue(run'[r].mem)
                                => run'[r].dl \in final'
      BY <1>2 DEF FileInv, Present, CompletedValue
    <2>2. \A p \in Procs : call'[p].pc = "files" => ~Present(call[p].dl)'
      BY <1>2 DEF FileInv, Present
    <2> QED BY <1>2, <2>1, <2>2 DEF FileInv, Present, CompletedValue
  \* The end of a transaction.
  <1>3. ASSUME NEW t \in Tx, StoreStep(t),
               t.st = "clean" /\ CompletedValue(t.val) => t.dl \in final, final' = final,
               \A p \in Procs : call'[p] = call[p] \/ (call'[p].pc = "files" => ~Present(call[p].dl)'),
               \A r \in Runners : run'[r].pc # "free" =>
                  /\ run[r].pc # "free" /\ run'[r].dl = run[r].dl
                  /\ CompletedValue(run'[r].mem) => CompletedValue(run[r].mem) \/ run[r].dl \in final
        PROVE  FileInv'
    <2>1. \A d \in Downloads : CompletedValue(repo'[d]) => d \in final'
      BY <1>3 DEF StoreStep, FileInv
    <2>2. \A p \in Procs : callTx'[p].st = "clean" /\ CompletedValue(callTx'[p].val)
                             => callTx'[p].dl \in final'
      BY <1>3, StillClean DEF FileInv
    <2>3. ASSUME NEW p \in Procs, call'[p].pc = "files" PROVE ~Present(call[p].dl)'
      <3>1. CASE call'[p] = call[p]
        <4>1. ~Present(call[p].dl) /\ call[p].dl \in Downloads
          BY <1>1, <2>3, <3>1 DEF FileInv, BaseInv, Shape, TypeOK
        <4> QED BY <1>3, <3>1, <4>1, StillClean DEF Present
      <3> QED BY <1>3, <2>3, <3>1
    <2>4. \A r \in Runners : /\ runTx'[r].st = "clean" /\ CompletedValue(runTx'[r].val)
                                 => runTx'[r].dl \in final'
                             /\ monTx'[r].st = "clean" /\ CompletedValue(monTx'[r].val)
                                 => monTx'[r].dl \in final'
      BY <1>3, StillClean DEF FileInv
    <2>5. ASSUME NEW r \in Runners, run'[r].pc # "free", Present(run[r].dl)', CompletedValue(run'[r].mem)
          PROVE  run'[r].dl \in final'
      <3>1. run[r].pc # "free" /\ run'[r].dl = run[r].dl
            /\ (CompletedValue(run[r].mem) \/ run[r].dl \in final)
        BY <1>3, <2>5
      <3>2. run[r].dl \in Downloads
        BY <1>1, <3>1 DEF BaseInv, Shape, TypeOK
      <3>3. Present(run[r].dl)
        BY <1>3, <2>5, <3>1, <3>2, StillClean DEF Present
      <3> QED BY <1>3, <3>1, <3>3 DEF FileInv
    <2> QED BY <2>1, <2>2, <2>3, <2>4, <2>5 DEF FileInv
  <1>4. ASSUME NEW d \in Downloads, NEW q \in QueueNames, Enqueue(d, q) PROVE FileInv'
    <2>1. \A e \in Downloads : e # d => repo'[e] = repo[e]
      BY <1>1, <1>4 DEF Enqueue, TypeOK
    <2>2. ~CompletedValue(repo'[d])
      BY <1>1, <1>4 DEF Enqueue, TypeOK, CompletedValue
    <2>3. \A r \in Runners : run[r].pc # "free" => run[r].dl # d /\ run[r].dl \in Downloads
      BY <1>1, <1>4 DEF Enqueue, BaseInv, Shape, TypeOK
    <2>4. \A p \in Procs : call[p].pc = "files" => call[p].dl # d /\ call[p].dl \in Downloads
      BY <1>1, <1>4 DEF Enqueue, BaseInv, Shape, TypeOK
    <2>5. UNCHANGED <<call, callTx, runTx, monTx, run, final>>
      BY <1>4 DEF Enqueue, callVars, runVars, monVars, fileVars
    <2> QED BY <2>1, <2>2, <2>3, <2>4, <2>5 DEF FileInv, Present
  <1>5. ASSUME NEW p \in Procs, CancelRunner(p) PROVE FileInv'
    <2>1. \A r \in Runners : run'[r].pc = run[r].pc /\ run'[r].dl = run[r].dl /\ run'[r].mem = run[r].mem
      BY <1>1, <1>5 DEF CancelRunner, TypeOK, RunRec
    <2>2. UNCHANGED <<repo, callTx, runTx, monTx, final>>
      BY <1>5 DEF CancelRunner, storeVars, monVars, fileVars
    <2>3. \A q \in Procs : call'[q] = call[q] \/ call'[q].pc # "files"
      BY <1>1, <1>5 DEF CancelRunner, TypeOK, CallRec
    <2> QED BY <1>2, <2>1, <2>2, <2>3
  <1>6. ASSUME NEW p \in Procs, UpdateBegin(p) PROVE FileInv'
    <2>1. UNCHANGED <<repo, runTx, monTx, run, final>>
      BY <1>6 DEF UpdateBegin, storeVars, runVars, monVars, fileVars
    <2>2. \A q \in Procs : call'[q] = call[q] \/ call'[q].pc # "files"
      BY <1>1, <1>6 DEF UpdateBegin, TypeOK, CallRec, NoCall
    <2>3. CASE callTx' = callTx
      BY <1>2, <2>1, <2>2, <2>3
    <2>4. CASE callTx' # callTx
      <3>1. PICK v \in Record \cup {NoRecord} :
              /\ callTx' = [callTx EXCEPT ![p] = OpenTx(call[p].dl, v)]
              /\ call[p].dl \in Downloads /\ repo[call[p].dl] \in Record
              /\ v # NoRecord => \/ v.status = repo[call[p].dl].status
                                 \/ v.status \in {"running", "paused", "cancelled"}
        BY <1>6, <2>4, UpdateOpens
      <3>2. CompletedValue(v) => call[p].dl \in final
        BY <1>1, <3>1 DEF FileInv, CompletedValue
      <3>3. callTx'[p].val = v /\ callTx'[p].dl = call[p].dl
            /\ \A q \in Procs : q # p => callTx'[q] = callTx[q]
        <4>1. OpenTx(call[p].dl, v).val = v /\ OpenTx(call[p].dl, v).dl = call[p].dl
          BY <3>1, OpenTxType
        <4> QED BY <1>1, <3>1, <4>1 DEF TypeOK
      <3> QED BY <2>1, <2>2, <3>2, <3>3 DEF FileInv, Present
    <2> QED BY <2>3, <2>4
  <1>7. ASSUME NEW p \in Procs, UpdateCommit(p) PROVE FileInv'
    <2>1. StoreStep(callTx[p]) /\ callTx[p] \in Tx /\ UNCHANGED <<run, final>>
      BY <1>1, <1>7, CommitKinds DEF UpdateCommit, TypeOK, fileVars
    <2>2. \A q \in Procs : q # p => call'[q] = call[q]
      BY <1>1, <1>7 DEF UpdateCommit, TypeOK
    <2>3. call'[p].pc = "files" => ~Present(call[p].dl)'
      <3> SUFFICES ASSUME call'[p].pc = "files" PROVE ~Present(call[p].dl)'
        OBVIOUS
      <3>1. call'[p] = IF callTx[p].st = "clean" THEN AfterCommit(call[p]) ELSE NoCall
        BY <1>1, <1>7 DEF UpdateCommit, TypeOK
      <3>2. call[p] \in CallRec
        BY <1>1 DEF TypeOK
      <3>3. callTx[p].st = "clean" /\ call[p].op = "remove" /\ call'[p].dl = call[p].dl
        BY <3>1, <3>2 DEF AfterCommit, NoCall, CallRec
      <3>4. callTx[p].val = NoRecord /\ callTx[p].dl = call[p].dl /\ call[p].dl \in Downloads
        BY <3>3 DEF OpValues, BaseInv, TxShape, TxOf, CleanPresent
      <3>5. Commit(callTx[p]) /\ CleanPresent(callTx[p])
        BY <1>7 DEF UpdateCommit, BaseInv, TxShape
      <3>6. repo'[call[p].dl] = NoRecord
        BY <1>1, <2>1, <3>3, <3>4, <3>5, CommitFacts
      <3> QED BY <3>3, <3>6 DEF Present
    <2> QED BY <1>3, <2>1, <2>2, <2>3 DEF FileInv
  <1>8. ASSUME NEW p \in Procs, Register(p) PROVE FileInv'
    <2>1. UNCHANGED <<repo, callTx, runTx, monTx, final>>
      BY <1>8 DEF Register, storeVars, monVars, fileVars
    <2>2. \A r \in Runners : run'[r] = run[r] \/ run'[r].mem = NoRecord
      BY <1>1, <1>8 DEF Register, TypeOK
    <2>3. \A q \in Procs : call'[q] = call[q] \/ call'[q].pc # "files"
      BY <1>1, <1>8 DEF Register, TypeOK, NoCall
    <2> QED BY <1>2, <2>1, <2>2, <2>3
  <1>9. ASSUME NEW p \in Procs, RemoveFiles(p) PROVE FileInv'
    <2>1. UNCHANGED <<repo, callTx, runTx, monTx, run>> /\ final' = final \ {call[p].dl}
      BY <1>9 DEF RemoveFiles, storeVars, runVars, monVars
    <2>2. ~Present(call[p].dl)
      BY <1>9 DEF RemoveFiles, FileInv
    <2>3. \A q \in Procs : call'[q] = call[q] \/ call'[q].pc # "files"
      BY <1>1, <1>9 DEF RemoveFiles, TypeOK, NoCall
    <2>4. /\ \A q \in Procs : CleanPresent(callTx[q])
          /\ \A r \in Runners : CleanPresent(runTx[r]) /\ CleanPresent(monTx[r])
      BY DEF BaseInv, TxShape
    <2>5. \A d \in Downloads : Present(d) /\ d \in final => d \in final'
      BY <2>1, <2>2
    <2>6. \A q \in Procs : /\ callTx'[q].st = "clean" /\ CompletedValue(callTx'[q].val)
                               => callTx'[q].dl \in final'
                           /\ call'[q].pc = "files" => ~Present(call[q].dl)'
      BY <2>1, <2>3, <2>4, <2>5 DEF FileInv, CleanPresent, Present
    <2>7. \A r \in Runners :
            /\ runTx'[r].st = "clean" /\ CompletedValue(runTx'[r].val) => runTx'[r].dl \in final'
            /\ monTx'[r].st = "clean" /\ CompletedValue(monTx'[r].val) => monTx'[r].dl \in final'
      BY <2>1, <2>4, <2>5 DEF FileInv, CleanPresent
    <2>8. \A r \in Runners : run'[r].pc # "free" /\ Present(run[r].dl)' /\ CompletedValue(run'[r].mem)
                                => run'[r].dl \in final'
      BY <2>1, <2>2 DEF FileInv, Present
    <2>9. \A d \in Downloads : CompletedValue(repo'[d]) => d \in final'
      BY <2>1, <2>5 DEF FileInv, Present, CompletedValue
    <2> QED BY <2>6, <2>7, <2>8, <2>9 DEF FileInv
  <1>10. ASSUME NEW r \in Runners, RunLoad(r) PROVE FileInv'
    <2>1. UNCHANGED <<repo, call, callTx, runTx, monTx, final>> /\ Others(r)
      BY <1>1, <1>10 DEF RunLoad, storeVars, callVars, monVars, fileVars, Others, TypeOK
    <2>2. run'[r].dl = run[r].dl /\ run[r].dl \in Downloads
          /\ (run'[r].mem = repo[run[r].dl] \/ ~CompletedValue(run'[r].mem))
      BY <1>1, <1>10 DEF RunLoad, TypeOK, RunRec, BaseInv, Shape, BlankRecord, CompletedValue
    <2> QED BY <2>1, <2>2 DEF FileInv, Present, Others
  <1>11. ASSUME NEW r \in Runners, Drained(r) PROVE FileInv'
    <2>1. UNCHANGED <<repo, call, callTx, runTx, monTx, final>> /\ Others(r) /\ run'[r].pc = "free"
      BY <1>1, <1>11 DEF Drained, storeVars, callVars, monVars, fileVars, Others, TypeOK, FreeRunner
    <2> QED BY <2>1 DEF FileInv, Present, Others
  <1>12. ASSUME NEW r \in Runners, RunnerMove(r) \/ RunnerOpens(r) \/ RunnerCommits(r)
         PROVE  /\ run[r].pc # "free" /\ run[r].dl \in Downloads /\ run[r].mem \in Record
                /\ run'[r].dl = run[r].dl
                /\ CompletedValue(run'[r].mem) => CompletedValue(run[r].mem) \/ run[r].dl \in final'
                /\ \A s \in Runners : s # r => run'[s] = run[s]
    <2>1. MoveCore(r)
      BY <1>12 DEF RunnerMove, RunnerOpens, RunnerCommits
    <2>2. run[r].mem \in Record /\ run[r].dl \in Downloads
      BY <1>1, <2>1 DEF MoveCore, BaseInv, Shape, TypeOK
    <2> QED BY <1>1, <2>1, <2>2 DEF MoveCore, Others, CompletedValue
  <1>13. ASSUME NEW r \in Runners, RunnerMove(r) PROVE FileInv'
    <2>1. UNCHANGED <<repo, call, callTx, runTx, monTx>> /\ final \subseteq final'
      BY <1>13 DEF RunnerMove, storeVars, callVars, monVars
    <2>2. \A s \in Runners : run'[s].pc # "free" /\ Present(run[s].dl)' /\ CompletedValue(run'[s].mem)
                                => run'[s].dl \in final'
      BY <1>12, <1>13, <2>1 DEF FileInv, Present
    <2> QED BY <2>1, <2>2 DEF FileInv, Present
  <1>14. ASSUME NEW r \in Runners, RunnerOpens(r) PROVE FileInv'
    <2>1. UNCHANGED <<repo, call, callTx, monTx, final>> /\ run'[r].mem = run[r].mem
      BY <1>14 DEF RunnerOpens, storeVars, callVars, monVars, fileVars
    <2>2. runTx'[r].dl = run[r].dl /\ runTx'[r].val = run[r].mem
          /\ \A s \in Runners : s # r => runTx'[s] = runTx[s]
      <3>1. OpenTx(run[r].dl, run[r].mem).dl = run[r].dl /\ OpenTx(run[r].dl, run[r].mem).val = run[r].mem
        BY <1>12, <1>14, OpenTxType
      <3> QED BY <1>1, <1>14, <3>1 DEF RunnerOpens, TypeOK
    <2>3. Present(run[r].dl)
      BY <1>14 DEF RunnerOpens, CanUpdate
    <2>4. \A s \in Runners :
            /\ runTx'[s].st = "clean" /\ CompletedValue(runTx'[s].val) => runTx'[s].dl \in final'
            /\ run'[s].pc # "free" /\ Present(run[s].dl)' /\ CompletedValue(run'[s].mem)
                 => run'[s].dl \in final'
      BY <1>12, <1>14, <2>1, <2>2, <2>3 DEF FileInv, Present
    <2> QED BY <2>1, <2>4 DEF FileInv, Present
  <1>15. ASSUME NEW r \in Runners, RunnerCommits(r) PROVE FileInv'
    <2>1. StoreStep(runTx[r]) /\ runTx[r] \in Tx /\ UNCHANGED <<call, final>>
      BY <1>1, <1>15, CommitKinds DEF RunnerCommits, WriteCommit, TypeOK, fileVars
    <2>2. \A s \in Runners : run'[s].pc # "free" =>
             /\ run[s].pc # "free" /\ run'[s].dl = run[s].dl
             /\ CompletedValue(run'[s].mem) => CompletedValue(run[s].mem) \/ run[s].dl \in final
      BY <1>12, <1>15, <2>1
    <2> QED BY <1>3, <2>1, <2>2 DEF FileInv
  <1>16. ASSUME NEW r \in Runners, Report(r) PROVE FileInv'
    <2>1. UNCHANGED <<repo, call, runTx, monTx, run, final>>
      BY <1>16 DEF Report, storeVars, runVars, fileVars
    <2>2. \A p \in Procs : callTx'[p].st = "clean" => callTx'[p] = callTx[p]
      BY <1>1, <1>16 DEF Report, Tx, TypeOK
    <2> QED BY <2>1, <2>2 DEF FileInv, Present
  <1>17. ASSUME NEW r \in Runners, MonitorBegin(r) PROVE FileInv'
    <2>1. UNCHANGED <<repo, call, callTx, runTx, run, final>>
      BY <1>17 DEF MonitorBegin, storeVars, callVars, runVars, fileVars
    <2>2. CASE monTx' = monTx
      BY <2>1, <2>2 DEF FileInv, Present
    <2>3. CASE monTx' # monTx
      <3>1. CanUpdate(run[r].live, run[r].dl)
            /\ monTx' = [monTx EXCEPT ![r] = OpenTx(run[r].dl, run[r].mem)]
        BY <1>17, <2>3 DEF MonitorBegin
      <3>2. run[r].pc # "free" /\ run[r].dl \in Downloads /\ run[r].mem \in Record
        BY <1>1, <1>17 DEF MonitorBegin, BaseInv, Shape, TypeOK
      <3>3. CompletedValue(run[r].mem) => run[r].dl \in final
        BY <3>1, <3>2 DEF CanUpdate, FileInv
      <3>4. OpenTx(run[r].dl, run[r].mem).dl = run[r].dl /\ OpenTx(run[r].dl, run[r].mem).val = run[r].mem
        BY <3>2, OpenTxType
      <3>5. monTx'[r].dl = run[r].dl /\ monTx'[r].val = run[r].mem
            /\ \A s \in Runners : s # r => monTx'[s] = monTx[s]
        BY <1>1, <3>1, <3>4 DEF TypeOK
      <3>6. \A s \in Runners : monTx'[s].st = "clean" /\ CompletedValue(monTx'[s].val)
                                 => monTx'[s].dl \in final'
        BY <2>1, <3>3, <3>5 DEF FileInv
      <3> QED BY <2>1, <3>6 DEF FileInv, Present
    <2> QED BY <2>2, <2>3
  <1>18. ASSUME NEW r \in Runners, MonitorCommit(r) PROVE FileInv'
    <2>1. StoreStep(monTx[r]) /\ monTx[r] \in Tx /\ UNCHANGED <<call, run, final>>
      BY <1>1, <1>18, CommitKinds DEF MonitorCommit, TypeOK, fileVars
    <2> QED BY <1>3, <2>1 DEF FileInv
  <1>19. ASSUME RequeueBegin PROVE FileInv'
    <2>1. UNCHANGED <<repo, runTx, monTx, run, final>>
      BY <1>19 DEF RequeueBegin, storeVars, runVars, monVars, fileVars
    <2>2. CASE callTx' = callTx /\ call' = call
      BY <2>1, <2>2 DEF FileInv, Present
    <2>3. CASE ~(callTx' = callTx /\ call' = call)
      <3>1. PICK c \in wk.stale :
              /\ c[1] \in Downloads /\ [c[2] EXCEPT !.status = "queued"] \in Record
              /\ callTx' = [callTx EXCEPT ![Worker] =
                              OpenTx(c[1], [c[2] EXCEPT !.status = "queued"])]
              /\ call' = [call EXCEPT ![Worker] =
                            [op |-> "requeue", pc |-> "commit", dl |-> c[1]]]
        BY <1>19, <2>3, RequeueOpens
      <3> DEFINE v == [c[2] EXCEPT !.status = "queued"]
      <3>2. ~CompletedValue(v)
        BY DEF CompletedValue
      <3>3. OpenTx(c[1], v).val = v
        BY <3>1, OpenTxType
      <3>4. callTx'[Worker].val = v /\ \A q \in Procs : q # Worker => callTx'[q] = callTx[q]
        BY <1>1, <3>1, <3>3, WorkerIsProc DEF TypeOK
      <3> HIDE DEF v
      <3>5. \A q \in Procs : call'[q] = call[q] \/ call'[q].pc # "files"
        BY <1>1, <3>1, WorkerIsProc DEF TypeOK
      <3> QED BY <2>1, <3>2, <3>4, <3>5 DEF FileInv, Present
    <2> QED BY <2>2, <2>3
  <1>20. ASSUME ProcessEnds PROVE FileInv'
    BY <1>20 DEF ProcessEnds, FileInv, Present, NoTx, NoCall, FreeRunner, storeVars, fileVars
  <1>21. ASSUME NEW p \in Procs, CheckDuplicate(p) PROVE FileInv'
    <2>1. UNCHANGED <<repo, callTx, runTx, monTx, run, final>>
      BY <1>21 DEF CheckDuplicate, storeVars, runVars, monVars, fileVars
    <2>2. \A q \in Procs : call'[q] = call[q] \/ call'[q].pc # "files"
      BY <1>1, <1>21 DEF CheckDuplicate, TypeOK, CallRec, NoCall
    <2> QED BY <2>1, <2>2 DEF FileInv, Present
  <1>22. ASSUME StoreQuiet, UNCHANGED <<run, final>>,
                \A q \in Procs : call'[q] = call[q] \/ call'[q].pc # "files"
         PROVE  FileInv'
    BY <1>22 DEF StoreQuiet, FileInv, Present
  <1>23. ASSUME NEW p \in Callers, NEW op \in Ops, NEW d \in Downloads, Call(p, op, d) PROVE FileInv'
    <2>1. FirstStep(op) \in {"check", "cancel", "update"}
      BY ParameterAssumption DEF FirstStep, AllOps
    <2>2. \A q \in Procs : call'[q] = call[q] \/ call'[q].pc # "files"
      BY <1>1, <1>23, <2>1 DEF Call, TypeOK
    <2> QED BY <1>22, <1>23, <2>2, QuietSteps
  <1>24. ASSUME StartListed PROVE FileInv'
    <2>1. \A q \in Procs : call'[q] = call[q] \/ call'[q].pc # "files"
      BY <1>1, <1>24 DEF StartListed, TypeOK
    <2> QED BY <1>22, <1>24, <2>1, QuietSteps
  <1>25. ASSUME \/ \E q \in PausableQueues : PauseQueue(q)
                \/ \E d \in SlowDownloads : Age(d)
                \/ \E r \in Runners : ReopenSegment(r)
                \/ Tick \/ CountRunning \/ ListQueued \/ TickDone
                \/ Signal \/ PauseRunningDownloads \/ Restart
         PROVE  FileInv'
    <2>1. call' = call
      BY <1>25 DEF PauseQueue, Age, ReopenSegment, Tick, CountRunning, ListQueued, TickDone,
                   Signal, PauseRunningDownloads, Restart, callVars
    <2> QED BY <1>22, <1>25, <2>1, QuietSteps
  <1>26. CASE UNCHANGED vars
    BY <1>22, <1>26 DEF vars, StoreQuiet
  <1>27. CASE Next
    <2> USE NextKinds
    <2> QED BY <1>4, <1>5, <1>6, <1>7, <1>8, <1>9, <1>10, <1>11, <1>13, <1>14, <1>15, <1>16,
               <1>17, <1>18, <1>19, <1>20, <1>21, <1>23, <1>24, <1>25, <1>27
  <1> QED BY <1>26, <1>27

\* A download is stored as completed only while its merged file exists: the
\* status is written after the rename, and Remove deletes the file after the
\* record, when whoever could still write the record is refused.
THEOREM CompletedKeepsFile == Spec => []CompletedHasFile
  <1>1. Spec => []BaseInv
    BY BaseInit, BaseStep, PTL DEF Spec
  <1>2. Init => OpValues /\ FileInv
    BY DEF Init, OpValues, FileInv, Present, CompletedValue, NoTx, NoCall, FreeRunner
  <1>3. FileInv => CompletedHasFile
    BY DEF FileInv, CompletedHasFile, CompletedValue, Present
  <1>4. Spec => []OpValues
    BY <1>1, <1>2, OpValuesStep, PTL DEF Spec
  <1> QED BY <1>1, <1>2, <1>3, <1>4, FileStep, PTL DEF Spec
=============================================================================
