---------------------- MODULE DownloadLifecycleProofs ----------------------
(***************************************************************************)
(* Proofs of the safety properties of DownloadLifecycle, for any numbers   *)
(* of downloads, queues, callers and runners and any bounds.               *)
(***************************************************************************)
EXTENDS DownloadLifecycle, FiniteSetTheorems, TLAPS

----------------------------------------------------------------------------
(* Facts about the operators of the store.                                 *)

\* Ending a transaction only ever dooms others: it changes neither their
\* download nor their value, and the ones that stay clean are about another
\* record than the one written.
LEMMA DoomFacts ==
  ASSUME NEW S, NEW f \in [S -> Tx], NEW t \in Tx
  PROVE  /\ Doom(f, t) \in [S -> Tx]
         /\ \A a \in S : /\ Doom(f, t)[a].dl = f[a].dl
                         /\ Doom(f, t)[a].val = f[a].val
                         /\ Doom(f, t)[a].st = "none" <=> f[a].st = "none"
                         /\ Doom(f, t)[a].st = "clean" => f[a].st = "clean"
                         /\ Doom(f, t)[a].st = "clean" /\ t.st = "clean" => f[a].dl # t.dl
                         /\ Doom(f, t)[a] = NoTx <=> f[a] = NoTx
  <1> DEFINE g == Doom(f, t)
  <1>1. g = [a \in S |-> IF t.st = "clean" /\ f[a].st = "clean" /\ f[a].dl = t.dl
                         THEN [f[a] EXCEPT !.st = "doomed"] ELSE f[a]]
    BY DEF Doom
  <1>2. ASSUME NEW a \in S
        PROVE  /\ g[a] \in Tx
               /\ g[a].dl = f[a].dl /\ g[a].val = f[a].val
               /\ g[a].st = "none" <=> f[a].st = "none"
               /\ g[a].st = "clean" => f[a].st = "clean"
               /\ g[a].st = "clean" /\ t.st = "clean" => f[a].dl # t.dl
               /\ g[a] = NoTx <=> f[a] = NoTx
    <2>1. f[a] \in Tx
      OBVIOUS
    <2>2. CASE t.st = "clean" /\ f[a].st = "clean" /\ f[a].dl = t.dl
      <3>1. g[a] = [f[a] EXCEPT !.st = "doomed"]
        BY <1>1, <2>2
      <3> QED BY <2>1, <2>2, <3>1 DEF Tx, NoTx
    <2>3. CASE ~(t.st = "clean" /\ f[a].st = "clean" /\ f[a].dl = t.dl)
      <3>1. g[a] = f[a]
        BY <1>1, <2>3
      <3> QED BY <2>1, <2>3, <3>1
    <2> QED BY <2>2, <2>3
  <1> QED BY <1>1, <1>2

\* The transactions the model opens are well formed.
LEMMA OpenTxType ==
  ASSUME NEW d \in Downloads, NEW v \in Record \cup {NoRecord}
  PROVE  /\ OpenTx(d, v) \in Tx /\ NoTx \in Tx
         /\ OpenTx(d, v).st = "clean" /\ OpenTx(d, v).dl = d /\ OpenTx(d, v).val = v
         /\ OpenTx(d, v) # NoTx
         /\ NoTx.st = "none"
  BY DEF OpenTx, Tx, NoTx

LEMMA NoRecordFact == NoRecord \notin Record
  BY DistinctAssumption

\* What an operation writes over a record is a record, or the absence of one.
LEMMA WrittenType ==
  ASSUME NEW op \in AllOps, NEW c \in Record
  PROVE  \A v \in Written(op, c) :
           /\ v \in Record \cup {NoRecord}
           /\ v # NoRecord => v.status = c.status \/ v.status \in {"running", "paused", "cancelled"}
           /\ v # NoRecord => v.kept = c.kept
  <1>1. CASE op \in {"start", "resume", "pause", "cancel"}
    <2>1. NewStatus(op) \in {"running", "paused", "cancelled"}
      BY <1>1 DEF NewStatus
    <2>2. Written(op, c) = {[c EXCEPT !.status = NewStatus(op)]}
      BY <1>1 DEF Written
    <2> QED BY <2>1, <2>2 DEF Record, Status
  <1>2. CASE op = "assign"
    <2>1. Written(op, c) = {[c EXCEPT !.queue = q] : q \in QueueNames \cup {c.queue}}
      BY <1>2 DEF Written
    <2>2. QueueNames \cup {c.queue} \subseteq Queues \cup {NoQueue}
      BY ParameterAssumption DEF Record
    <2> QED BY <2>1, <2>2 DEF Record
  <1>3. CASE op = "remove"
    BY <1>3 DEF Written
  <1> QED BY <1>1, <1>2, <1>3 DEF AllOps

LEMMA WorkerIsProc == Worker \in Procs
  BY DEF Procs

(* What the ways of moving a runner do to it; the others are left alone.   *)

Others(r) == \A s \in Runners \ {r} : run'[s] = run[s]

LEMMA GotoFacts ==
  ASSUME run \in [Runners -> RunRec], NEW r \in Runners, NEW pc \in RunPC, Goto(r, pc)
  PROVE  /\ run' \in [Runners -> RunRec] /\ Others(r)
         /\ run'[r].pc = pc /\ run'[r].dl = run[r].dl
         /\ run'[r].live = run[r].live /\ run'[r].mem = run[r].mem
  <1>1. run[r] \in RunRec /\ run'[r] = [run[r] EXCEPT !.pc = pc]
    BY DEF Goto
  <1>2. run' = [run EXCEPT ![r] = [run[r] EXCEPT !.pc = pc]]
    BY DEF Goto
  <1>3. [run[r] EXCEPT !.pc = pc] \in RunRec
    BY <1>1 DEF RunRec
  <1> QED BY <1>1, <1>2, <1>3 DEF Others, RunRec

LEMMA GotoFailFacts ==
  ASSUME run \in [Runners -> RunRec], NEW r \in Runners, run[r].mem \in Record, GotoFail(r)
  PROVE  /\ run' \in [Runners -> RunRec] /\ Others(r)
         /\ run'[r].pc = "fail" /\ run'[r].dl = run[r].dl /\ run'[r].live = run[r].live
         /\ run'[r].mem \in Record
         /\ run'[r].mem.status = "failed" /\ run'[r].mem.kept = run[r].mem.kept
  <1> DEFINE m == [run[r].mem EXCEPT !.status = "failed"]
             c == [run[r] EXCEPT !.pc = "fail", !.mem = m]
  <1>1. m \in Record /\ m.status = "failed" /\ m.kept = run[r].mem.kept
    BY DEF Record, Status
  <1>2. c \in RunRec /\ c.pc = "fail" /\ c.dl = run[r].dl /\ c.live = run[r].live /\ c.mem = m
    BY <1>1 DEF RunRec, RunPC
  <1>3. run' = [run EXCEPT ![r] = c]
    BY DEF GotoFail
  <1> QED BY <1>1, <1>2, <1>3 DEF Others

----------------------------------------------------------------------------
(***************************************************************************)
(* The steps of a runner fall into few kinds, and every invariant below is *)
(* proved once per kind: it moves on without touching the store, it opens  *)
(* the transaction that writes its copy, or it ends that transaction.      *)
(***************************************************************************)
BaseInv == TypeOK /\ Shape /\ TxShape

MoveCore(r) ==
  /\ run' \in [Runners -> RunRec] /\ Others(r)
  /\ run[r].pc \notin {"free", "load"} /\ run'[r].pc \notin {"free", "load"}
  /\ run'[r].pc = "drain" => run[r].pc = "exit"
  /\ run'[r].dl = run[r].dl /\ run'[r].live = run[r].live
  /\ run'[r].mem \in Record
  /\ run'[r].mem.kept = run[r].mem.kept
  /\ \/ run'[r].mem.status \in {run[r].mem.status, "failed"}
     \/ run'[r].mem.status = "completed" /\ run[r].dl \in final'

RunnerMove(r) ==
  /\ MoveCore(r)
  /\ run[r].pc \notin TxPC
  /\ parts' \subseteq Downloads /\ final' \subseteq Downloads
  /\ final \subseteq final' /\ final' \subseteq final \cup {run[r].dl}
  /\ cancels' = IF run'[r].pc = "drain" THEN [cancels EXCEPT ![run[r].dl] = NoRunner] ELSE cancels
  /\ UNCHANGED <<storeVars, used, qpaused, callVars, runTx, monVars, wk, held, misread, procVars>>

RunnerOpens(r) ==
  /\ MoveCore(r)
  /\ run[r].pc \notin TxPC /\ run'[r].pc \in TxPC
  /\ run'[r].mem = run[r].mem
  /\ CanUpdate(run[r].live, run[r].dl)
  /\ runTx' = [runTx EXCEPT ![r] = OpenTx(run[r].dl, run[r].mem)]
  /\ UNCHANGED <<storeVars, used, qpaused, cancels, callVars, monVars, wk, fileVars, held, misread, procVars>>

RunnerCommits(r) ==
  /\ MoveCore(r)
  /\ run'[r].pc \notin {"drain"}
  /\ WriteCommit(r)

LEMMA RunnerKinds ==
  ASSUME BaseInv, NEW r \in Runners, RunStep(r)
  PROVE  RunLoad(r) \/ Drained(r) \/ RunnerMove(r) \/ RunnerOpens(r) \/ RunnerCommits(r)
  <1> USE DEF BaseInv
  <1>1. run \in [Runners -> RunRec] /\ run[r] \in RunRec /\ final \in SUBSET Downloads
        /\ parts \in SUBSET Downloads
    BY DEF TypeOK
  <1>2. run[r].pc \notin {"free", "load"} => run[r].mem \in Record /\ run[r].dl \in Downloads
    BY DEF Shape, TypeOK
  <1>3. run[r].pc \notin {"free", "load"} => run[r].mem.status \in Status
    BY <1>2 DEF Record
  <1>4. ASSUME run[r].pc \notin {"free", "load"}, GotoFail(r) PROVE MoveCore(r) /\ run'[r].pc = "fail"
    BY <1>1, <1>2, <1>4, GotoFailFacts DEF MoveCore
  <1>5. ASSUME run[r].pc \notin {"free", "load"}, NEW pc \in RunPC \ {"free", "load"},
               pc = "drain" => run[r].pc = "exit", Goto(r, pc)
        PROVE  MoveCore(r) /\ run'[r].pc = pc /\ run'[r].mem = run[r].mem
    BY <1>1, <1>2, <1>5, GotoFacts DEF MoveCore
  <1>6. CASE PrepareError(r)
    BY <1>1, <1>4, <1>6 DEF PrepareError, RunnerMove, TxPC, fileVars
  <1>7. CASE PrepareBegin(r)
    BY <1>1, <1>4, <1>5, <1>7 DEF PrepareBegin, WriteBegin, RunnerMove, RunnerOpens, TxPC, RunPC, fileVars
  <1>8. CASE PrepareCommit(r)
    BY <1>1, <1>4, <1>5, <1>8 DEF PrepareCommit, RunnerCommits, RunPC
  <1>9. CASE OpenSegment(r)
    BY <1>1, <1>2, <1>5, <1>9 DEF OpenSegment, RunnerMove, TxPC, RunPC
  <1>10. CASE TransferDone(r)
    BY <1>1, <1>5, <1>10 DEF TransferDone, RunnerMove, TxPC, RunPC, fileVars
  <1>11. CASE TransferError(r)
    BY <1>1, <1>4, <1>11 DEF TransferError, RunnerMove, TxPC, fileVars
  <1>12. CASE FinalizeBegin(r)
    BY <1>1, <1>5, <1>12 DEF FinalizeBegin, WriteBegin, RunnerMove, RunnerOpens, TxPC, RunPC, fileVars
  <1>13. CASE FinalizeCommit(r)
    BY <1>1, <1>5, <1>13 DEF FinalizeCommit, RunnerCommits, RunPC
  <1>14. CASE Merge(r)
    <2>1. CASE GotoFail(r)
      BY <1>1, <1>2, <1>4, <1>14, <2>1 DEF Merge, RunnerMove, TxPC
    <2>2. CASE run' = [run EXCEPT ![r].pc = "complete", ![r].mem.status = "completed"]
      <3> DEFINE m == [run[r].mem EXCEPT !.status = "completed"]
                 c == [run[r] EXCEPT !.pc = "complete", !.mem = m]
      <3>1. m \in Record /\ m.status = "completed" /\ m.kept = run[r].mem.kept
        BY <1>2, <1>14 DEF Merge, Record, Status
      <3>2. c \in RunRec /\ c.pc = "complete" /\ c.dl = run[r].dl /\ c.live = run[r].live /\ c.mem = m
        BY <1>1, <3>1 DEF RunRec, RunPC
      <3>3. run' = [run EXCEPT ![r] = c]
        BY <2>2
      <3>4. run' \in [Runners -> RunRec] /\ Others(r) /\ run'[r] = c
        BY <1>1, <3>2, <3>3 DEF Others
      <3>5. MoveCore(r)
        BY <1>14, <3>1, <3>2, <3>4 DEF Merge, MoveCore
      <3> QED BY <1>1, <1>2, <1>14, <3>2, <3>4, <3>5 DEF Merge, RunnerMove, TxPC
    <2> QED BY <1>14, <2>1, <2>2 DEF Merge
  <1>15. CASE MergeError(r)
    BY <1>1, <1>4, <1>15 DEF MergeError, RunnerMove, TxPC, fileVars
  <1>16. CASE OutcomeBegin(r)
    BY <1>1, <1>5, <1>16 DEF OutcomeBegin, WriteBegin, RunnerMove, RunnerOpens, TxPC, RunPC, fileVars
  <1>17. CASE OutcomeCommit(r)
    BY <1>1, <1>5, <1>17 DEF OutcomeCommit, RunnerCommits, RunPC
  <1>18. CASE Exit(r)
    BY <1>1, <1>5, <1>18 DEF Exit, RunnerMove, TxPC, RunPC, fileVars
  <1> QED
    BY <1>6, <1>7, <1>8, <1>9, <1>10, <1>11, <1>12, <1>13, <1>14, <1>15, <1>16, <1>17, <1>18
    DEF RunStep

\* What the end of a clean or a doomed transaction does to the records.
LEMMA CommitFacts ==
  ASSUME TypeOK, NEW t \in Tx, CleanPresent(t), Commit(t)
  PROVE  /\ repo' \in [Downloads -> Record \cup {NoRecord}]
         /\ stale' \in SUBSET Downloads
         /\ \A d \in Downloads : t.st = "clean" /\ t.dl = d => repo'[d] = t.val
         /\ \A d \in Downloads : ~(t.st = "clean" /\ t.dl = d) => repo'[d] = repo[d]
         /\ \A d \in Downloads : repo[d] = NoRecord => repo'[d] = NoRecord
  <1>1. t.val \in Record \cup {NoRecord}
    BY DEF Tx
  <1>2. CASE t.st = "clean"
    BY <1>1, <1>2 DEF Commit, TypeOK, CleanPresent, Present
  <1>3. CASE t.st # "clean"
    BY <1>3 DEF Commit, TypeOK
  <1> QED BY <1>2, <1>3

\* Three families of transactions after the end of t, which belongs to one of
\* them: what is still clean is about a record that has not changed.
LEMMA DoomedFamily ==
  ASSUME TypeOK, NEW S, NEW f \in [S -> Tx], NEW t \in Tx,
         CleanPresent(t), Commit(t), NEW a \in S, CleanPresent(f[a])
  PROVE  Doom(f, t)[a].st = "clean" => /\ f[a].st = "clean"
                                       /\ f[a].dl \in Downloads
                                       /\ repo'[f[a].dl] = repo[f[a].dl]
                                       /\ repo'[f[a].dl] # NoRecord
  <1>1. Doom(f, t)[a].dl = f[a].dl /\ (Doom(f, t)[a].st = "clean" => f[a].st = "clean")
        /\ (Doom(f, t)[a].st = "clean" /\ t.st = "clean" => f[a].dl # t.dl)
    BY DoomFacts
  <1>2. \A d \in Downloads : ~(t.st = "clean" /\ t.dl = d) => repo'[d] = repo[d]
    BY CommitFacts
  <1> QED BY <1>1, <1>2 DEF CleanPresent, Present

----------------------------------------------------------------------------
(* Type correctness and the shape of calls, runners and transactions.      *)

LEMMA BaseInit == Init => BaseInv
  <1> SUFFICES ASSUME Init PROVE BaseInv
    OBVIOUS
  <1> USE DEF Init, NoTx, NoCall, FreeRunner, IdleWorker, Procs
  <1>1. TypeOK
    BY ParameterAssumption DEF TypeOK, Tx, CallRec, CallPC, RunRec, RunPC, WorkerRec
  <1>2. Shape /\ TxShape
    BY ParameterAssumption DEF Shape, TxShape, Present, TxOf, CleanPresent
  <1> QED BY <1>1, <1>2 DEF BaseInv

\* The variables that only some steps touch.
LEMMA BaseMove == ASSUME BaseInv, NEW r \in Runners, RunnerMove(r) PROVE BaseInv'
  <1> USE DEF BaseInv, storeVars, callVars, monVars, procVars
  <1>1. TypeOK'
    BY DistinctAssumption DEF TypeOK, RunnerMove, MoveCore
  <1>2. Shape'
    BY DEF Shape, RunnerMove, MoveCore, Others, Present
  <1>3. TxShape'
    BY DEF TxShape, RunnerMove, MoveCore, Others, TxOf, CleanPresent, Present
  <1> QED BY <1>1, <1>2, <1>3

LEMMA BaseOpens == ASSUME BaseInv, NEW r \in Runners, RunnerOpens(r) PROVE BaseInv'
  <1> USE DEF BaseInv, storeVars, callVars, monVars, fileVars, procVars
  <1>1. run[r].dl \in Downloads /\ run[r].mem \in Record /\ run[r].dl \in used
    BY DEF RunnerOpens, MoveCore, Shape, TypeOK
  <1> DEFINE t == OpenTx(run[r].dl, run[r].mem)
  <1>2. t \in Tx /\ t.st = "clean" /\ t.dl = run[r].dl
    BY <1>1, OpenTxType
  <1>3. runTx' = [runTx EXCEPT ![r] = t]
    BY DEF RunnerOpens
  <1> HIDE DEF t
  <1>4. TypeOK'
    BY <1>2, <1>3 DEF TypeOK, RunnerOpens, MoveCore
  <1>5. Shape'
    BY DEF Shape, RunnerOpens, MoveCore, Others, Present
  <1>6. TxShape'
    <2>1. Present(run[r].dl)
      BY DEF RunnerOpens, CanUpdate
    <2>2. ASSUME NEW s \in Runners
          PROVE  (/\ TxOf(runTx[s], run[s].dl) /\ TxOf(monTx[s], run[s].dl)
                  /\ runTx[s].st # "none" => run[s].pc \in TxPC
                  /\ CleanPresent(runTx[s]) /\ CleanPresent(monTx[s]))'
      <3>1. CASE s = r
        BY <1>1, <1>2, <1>3, <2>1, <3>1
        DEF TypeOK, TxShape, RunnerOpens, MoveCore, TxOf, CleanPresent, Present
      <3>2. CASE s # r
        BY <1>3, <3>2
        DEF TypeOK, TxShape, RunnerOpens, MoveCore, Others, TxOf, CleanPresent, Present
      <3> QED BY <3>1, <3>2
    <2> QED
      BY <2>2 DEF TxShape, RunnerOpens, TxOf, CleanPresent, Present
  <1> QED BY <1>4, <1>5, <1>6

----------------------------------------------------------------------------
(***************************************************************************)
(* The three actions that end a transaction t, seen from all families of   *)
(* transactions: some other one may be doomed, the one that ended is gone, *)
(* and what is still clean is about a record that is there and has not     *)
(* changed.                                                                *)
(***************************************************************************)
Settled(f, g, S) ==
  /\ g \in [S -> Tx]
  /\ \A a \in S : \/ g[a] = NoTx
                  \/ /\ g[a].dl = f[a].dl /\ g[a].val = f[a].val
                     /\ g[a].st = "none" <=> f[a].st = "none"
                     /\ g[a] = NoTx <=> f[a] = NoTx
                     /\ g[a].st = "clean" => /\ f[a].st = "clean" /\ f[a].dl \in Downloads
                                             /\ repo'[f[a].dl] = repo[f[a].dl]
                                             /\ repo'[f[a].dl] # NoRecord

StoreStep(t) ==
  /\ repo' \in [Downloads -> Record \cup {NoRecord}]
  /\ stale' \in SUBSET Downloads
  /\ \A d \in Downloads : \/ repo'[d] = repo[d]
                          \/ t.st = "clean" /\ t.dl = d /\ repo[d] # NoRecord /\ repo'[d] = t.val
  /\ Settled(callTx, callTx', Procs)
  /\ Settled(runTx, runTx', Runners)
  /\ Settled(monTx, monTx', Runners)

LEMMA SettledFamily ==
  ASSUME TypeOK, NEW S, NEW f \in [S -> Tx], NEW t \in Tx,
         CleanPresent(t), Commit(t), \A a \in S : CleanPresent(f[a])
  PROVE  /\ Settled(f, Doom(f, t), S)
         /\ \A b \in S : Settled(f, [Doom(f, t) EXCEPT ![b] = NoTx], S)
  <1> DEFINE g == Doom(f, t)
  <1>1. g \in [S -> Tx]
    BY DoomFacts
  <1>2. ASSUME NEW a \in S
        PROVE  /\ g[a].dl = f[a].dl /\ g[a].val = f[a].val
               /\ g[a].st = "none" <=> f[a].st = "none"
               /\ g[a] = NoTx <=> f[a] = NoTx
               /\ g[a].st = "clean" => /\ f[a].st = "clean" /\ f[a].dl \in Downloads
                                       /\ repo'[f[a].dl] = repo[f[a].dl]
                                       /\ repo'[f[a].dl] # NoRecord
    BY DoomFacts, DoomedFamily
  <1> HIDE DEF g
  <1>3. NoTx \in Tx
    BY DEF NoTx, Tx
  <1>4. Settled(f, g, S)
    BY <1>1, <1>2 DEF Settled
  <1>5. ASSUME NEW b \in S PROVE Settled(f, [g EXCEPT ![b] = NoTx], S)
    <2> DEFINE h == [g EXCEPT ![b] = NoTx]
    <2>1. h \in [S -> Tx] /\ h[b] = NoTx /\ \A a \in S \ {b} : h[a] = g[a]
      BY <1>1, <1>3
    <2> HIDE DEF h
    <2> QED BY <1>2, <2>1 DEF Settled, h
  <1> QED BY <1>4, <1>5 DEF g

LEMMA CommitKinds ==
  ASSUME BaseInv
  PROVE  /\ \A p \in Procs : UpdateCommit(p) => StoreStep(callTx[p])
         /\ \A r \in Runners : WriteCommit(r) => StoreStep(runTx[r])
         /\ \A r \in Runners : MonitorCommit(r) => StoreStep(monTx[r])
  <1>1. /\ callTx \in [Procs -> Tx] /\ \A p \in Procs : CleanPresent(callTx[p])
        /\ runTx \in [Runners -> Tx] /\ \A r \in Runners : CleanPresent(runTx[r])
        /\ monTx \in [Runners -> Tx] /\ \A r \in Runners : CleanPresent(monTx[r])
        /\ TypeOK
    BY DEF BaseInv, TypeOK, TxShape
  <1>2. ASSUME NEW t \in Tx, CleanPresent(t), Commit(t)
        PROVE  /\ repo' \in [Downloads -> Record \cup {NoRecord}]
               /\ stale' \in SUBSET Downloads
               /\ \A d \in Downloads :
                    \/ repo'[d] = repo[d]
                    \/ t.st = "clean" /\ t.dl = d /\ repo[d] # NoRecord /\ repo'[d] = t.val
    BY <1>1, <1>2, CommitFacts DEF CleanPresent, Present
  <1>3. ASSUME NEW p \in Procs, UpdateCommit(p) PROVE StoreStep(callTx[p])
    <2>1. Commit(callTx[p]) /\ callTx[p] \in Tx /\ CleanPresent(callTx[p])
      BY <1>1, <1>3 DEF UpdateCommit
    <2>2. Settled(callTx, callTx', Procs) /\ Settled(runTx, runTx', Runners)
          /\ Settled(monTx, monTx', Runners)
      BY <1>1, <1>3, <2>1, SettledFamily DEF UpdateCommit
    <2> QED BY <1>2, <2>1, <2>2 DEF StoreStep
  <1>4. ASSUME NEW r \in Runners, WriteCommit(r) PROVE StoreStep(runTx[r])
    <2>1. Commit(runTx[r]) /\ runTx[r] \in Tx /\ CleanPresent(runTx[r])
      BY <1>1, <1>4 DEF WriteCommit
    <2>2. Settled(callTx, callTx', Procs) /\ Settled(runTx, runTx', Runners)
          /\ Settled(monTx, monTx', Runners)
      BY <1>1, <1>4, <2>1, SettledFamily DEF WriteCommit
    <2> QED BY <1>2, <2>1, <2>2 DEF StoreStep
  <1>5. ASSUME NEW r \in Runners, MonitorCommit(r) PROVE StoreStep(monTx[r])
    <2>1. Commit(monTx[r]) /\ monTx[r] \in Tx /\ CleanPresent(monTx[r])
      BY <1>1, <1>5 DEF MonitorCommit
    <2>2. Settled(callTx, callTx', Procs) /\ Settled(runTx, runTx', Runners)
          /\ Settled(monTx, monTx', Runners)
      BY <1>1, <1>5, <2>1, SettledFamily DEF MonitorCommit
    <2> QED BY <1>2, <2>1, <2>2 DEF StoreStep
  <1> QED BY <1>3, <1>4, <1>5

LEMMA BaseRunnerCommits ==
  ASSUME BaseInv, NEW r \in Runners, RunnerCommits(r) PROVE BaseInv'
  <1> USE DEF BaseInv, fileVars, procVars
  <1>1. StoreStep(runTx[r]) /\ runTx'[r] = NoTx
    <2>1. StoreStep(runTx[r])
      BY CommitKinds DEF RunnerCommits
    <2>2. Doom(runTx, runTx[r]) \in [Runners -> Tx]
      BY DoomFacts DEF TypeOK
    <2>3. runTx' = [Doom(runTx, runTx[r]) EXCEPT ![r] = NoTx]
      BY DEF RunnerCommits, WriteCommit
    <2> QED BY <2>1, <2>2, <2>3
  <1>2. TypeOK'
    BY <1>1 DEF TypeOK, RunnerCommits, WriteCommit, MoveCore, StoreStep, Settled
  <1>3. Shape'
    BY <1>1 DEF Shape, RunnerCommits, WriteCommit, MoveCore, Others, Present, StoreStep, Settled
  <1>4. TxShape'
    <2>1. \A s \in Runners : run'[s].dl = run[s].dl
      BY DEF RunnerCommits, MoveCore, Others
    <2>2. \A s \in Runners : s # r => run'[s] = run[s]
      BY DEF RunnerCommits, MoveCore, Others
    <2> QED
      BY <1>1, <2>1, <2>2, SMTT(30) DEF TxShape, RunnerCommits, WriteCommit, TxOf, CleanPresent, Present,
         StoreStep, Settled, NoTx
  <1> QED BY <1>2, <1>3, <1>4

\* A state of the worker that lists no download that was never created.
WorkerFits(w) == w \in WorkerRec /\ w.list \subseteq used

\* A call moves on, or ends, without touching anything but itself.
CallMove(p) ==
  /\ \E c \in CallRec :
       /\ call' = [call EXCEPT ![p] = c]
       /\ c.pc = "idle" => c = NoCall
       /\ c.pc # "idle" => c.dl \in used
       /\ c.pc \in {"check", "cancel", "update"} => c.op \in AllOps
  /\ call[p].pc # "commit"

LEMMA BaseCallMove ==
  ASSUME BaseInv, NEW p \in Procs, CallMove(p),
         UNCHANGED <<repo, stale, used, qpaused, callTx, runTx, pending, monTx, misread, stops>>,
         run' \in [Runners -> RunRec], cancels' \in [Downloads -> Runners \cup {NoRunner}],
         WorkerFits(wk'), parts' \subseteq Downloads, final' \subseteq Downloads,
         held' \subseteq Downloads, UNCHANGED proc,
         \A r \in Runners :
           \/ run'[r].pc = run[r].pc /\ run'[r].dl = run[r].dl /\ run'[r].mem = run[r].mem
           \/ run[r].pc = "free" /\ run'[r].pc = "load" /\ run'[r].dl \in used
  PROVE  BaseInv'
  <1> USE DEF BaseInv
  <1>1. PICK c \in CallRec : /\ call' = [call EXCEPT ![p] = c]
                             /\ c.pc = "idle" => c = NoCall
                             /\ c.pc # "idle" => c.dl \in used
                             /\ c.pc \in {"check", "cancel", "update"} => c.op \in AllOps
    BY DEF CallMove
  <1>2. call' \in [Procs -> CallRec] /\ call'[p] = c /\ \A q \in Procs : q # p => call'[q] = call[q]
    BY <1>1 DEF TypeOK
  <1>3. callTx[p].st = "none"
    BY DEF CallMove, TxShape
  <1>4. TypeOK'
    BY <1>2 DEF TypeOK, WorkerFits
  <1>5. Shape'
    BY <1>1, <1>2 DEF Shape, Present, TypeOK, WorkerFits
  <1>6. TxShape'
    <2>1. \A q \in Procs : (/\ callTx[q].st # "none" => call[q].pc = "commit"
                            /\ TxOf(callTx[q], call[q].dl)
                            /\ CleanPresent(callTx[q]))'
      BY <1>2, <1>3 DEF TxShape, TxOf, CleanPresent, Present
    <2>2. ASSUME NEW r \in Runners
          PROVE  (/\ TxOf(runTx[r], run[r].dl) /\ TxOf(monTx[r], run[r].dl)
                  /\ runTx[r].st # "none" => run[r].pc \in TxPC
                  /\ CleanPresent(runTx[r]) /\ CleanPresent(monTx[r]))'
      <3>1. CASE run'[r].pc = run[r].pc /\ run'[r].dl = run[r].dl
        BY <3>1 DEF TxShape, TxOf, CleanPresent, Present
      <3>2. CASE run[r].pc = "free"
        <4>1. runTx[r].st = "none"
          BY <3>2 DEF TxShape, TxPC
        <4>2. monTx[r] = NoTx
          BY <3>2 DEF Shape
        <4> QED BY <4>1, <4>2 DEF TxShape, TxOf, CleanPresent, Present, NoTx
      <3> QED BY <3>1, <3>2
    <2> QED BY <2>1, <2>2 DEF TxShape
  <1> QED BY <1>4, <1>5, <1>6

LEMMA BaseCallSteps ==
  ASSUME BaseInv, NEW p \in Procs,
         CheckDuplicate(p) \/ CancelRunner(p) \/ Register(p) \/ RemoveFiles(p)
  PROVE  BaseInv'
  <1> USE DEF storeVars, runVars, monVars, fileVars, procVars
  <1>1. /\ call[p] \in CallRec
        /\ call[p].pc # "idle" => call[p].dl \in used
        /\ used \subseteq Downloads
        /\ NoCall \in CallRec /\ NoCall.pc = "idle"
    BY DEF BaseInv, TypeOK, Shape, NoCall, CallRec, CallPC
  <1>2. TypeOK /\ WorkerFits(wk)
    BY DEF BaseInv, TypeOK, Shape, WorkerFits
  <1>3. ASSUME call[p].pc \in {"check", "cancel"}, call' = [call EXCEPT ![p].pc = "update"],
               call[p].op \in AllOps
        PROVE  CallMove(p)
    <2> DEFINE c == [call[p] EXCEPT !.pc = "update"]
    <2>1. c \in CallRec /\ c.pc = "update" /\ c.dl = call[p].dl /\ c.op = call[p].op
      BY <1>1 DEF CallRec, CallPC
    <2>2. call' = [call EXCEPT ![p] = c]
      BY <1>3
    <2> QED BY <1>1, <1>3, <2>1, <2>2 DEF CallMove
  <1>4. ASSUME call[p].pc # "commit", call' = [call EXCEPT ![p] = NoCall] PROVE CallMove(p)
    BY <1>1, <1>4 DEF CallMove
  <1>5. call[p].pc \in {"check", "cancel"} => call[p].op \in AllOps
    BY DEF BaseInv, Shape
  <1>6. CASE CheckDuplicate(p)
    <2>1. CallMove(p)
      BY <1>3, <1>4, <1>5, <1>6 DEF CheckDuplicate
    <2> QED BY <1>2, <1>6, <2>1, BaseCallMove DEF CheckDuplicate, TypeOK
  <1>7. CASE CancelRunner(p)
    <2>1. CallMove(p)
      BY <1>3, <1>5, <1>7 DEF CancelRunner
    <2>2. run' \in [Runners -> RunRec] /\ \A r \in Runners :
             run'[r].pc = run[r].pc /\ run'[r].dl = run[r].dl /\ run'[r].mem = run[r].mem
      BY <1>2, <1>7, ZenonT(30) DEF CancelRunner, TypeOK, RunRec
    <2>3. cancels' \in [Downloads -> Runners \cup {NoRunner}]
      BY <1>2, <1>7 DEF CancelRunner, TypeOK
    <2> QED BY <1>2, <1>7, <2>1, <2>2, <2>3, BaseCallMove DEF CancelRunner, TypeOK
  <1>8. CASE Register(p)
    <2>1. CallMove(p)
      BY <1>4, <1>8 DEF Register
    <2>2. PICK r \in Runners :
            /\ run[r].pc = "free"
            /\ run' = [run EXCEPT ![r] = [pc |-> "load", dl |-> call[p].dl, live |-> TRUE,
                                          mem |-> NoRecord]]
            /\ cancels' = [cancels EXCEPT ![call[p].dl] = r]
      BY <1>8 DEF Register
    <2>3. call[p].dl \in used /\ call[p].dl \in Downloads
      BY <1>1, <1>8 DEF Register
    <2>4. [pc |-> "load", dl |-> call[p].dl, live |-> TRUE, mem |-> NoRecord] \in RunRec
      BY <2>3 DEF RunRec, RunPC
    <2>5. run' \in [Runners -> RunRec] /\ cancels' \in [Downloads -> Runners \cup {NoRunner}]
      BY <1>2, <2>2, <2>3, <2>4 DEF TypeOK
    <2>6. \A s \in Runners :
            \/ run'[s].pc = run[s].pc /\ run'[s].dl = run[s].dl /\ run'[s].mem = run[s].mem
            \/ run[s].pc = "free" /\ run'[s].pc = "load" /\ run'[s].dl \in used
      BY <1>2, <2>2, <2>3 DEF TypeOK
    <2> QED BY <1>2, <1>8, <2>1, <2>5, <2>6, BaseCallMove DEF Register, TypeOK
  <1>9. CASE RemoveFiles(p)
    <2>1. CallMove(p)
      BY <1>4, <1>9 DEF RemoveFiles
    <2> QED BY <1>2, <1>9, <2>1, BaseCallMove DEF RemoveFiles, TypeOK
  <1> QED BY <1>6, <1>7, <1>8, <1>9

\* UpdateBegin and RequeueBegin open the transaction of a call.
CallOpens(p) ==
  \E d \in Downloads, v \in Record \cup {NoRecord}, c \in CallRec :
    /\ call[p].pc # "commit" /\ c.pc = "commit" /\ c.dl = d /\ d \in used
    /\ Present(d)
    /\ call' = [call EXCEPT ![p] = c]
    /\ callTx' = [callTx EXCEPT ![p] = OpenTx(d, v)]

LEMMA BaseCallOpens ==
  ASSUME BaseInv, NEW p \in Procs, CallOpens(p), WorkerFits(wk'),
         UNCHANGED <<storeVars, used, qpaused, cancels, runVars, monVars, fileVars, held, misread, procVars>>
  PROVE  BaseInv'
  <1> USE DEF BaseInv, storeVars, runVars, monVars, fileVars, procVars
  <1>1. PICK d \in Downloads, v \in Record \cup {NoRecord}, c \in CallRec :
             /\ call[p].pc # "commit" /\ c.pc = "commit" /\ c.dl = d /\ d \in used
             /\ Present(d)
             /\ call' = [call EXCEPT ![p] = c]
             /\ callTx' = [callTx EXCEPT ![p] = OpenTx(d, v)]
    BY DEF CallOpens
  <1> DEFINE t == OpenTx(d, v)
  <1>2. t \in Tx /\ t.st = "clean" /\ t.dl = d
    BY OpenTxType
  <1>3. callTx' = [callTx EXCEPT ![p] = t]
    BY <1>1
  <1> HIDE DEF t
  <1>4. /\ call' \in [Procs -> CallRec] /\ call'[p] = c /\ \A q \in Procs : q # p => call'[q] = call[q]
    BY <1>1 DEF TypeOK
  <1>5. /\ callTx' \in [Procs -> Tx] /\ callTx'[p] = t /\ \A q \in Procs : q # p => callTx'[q] = callTx[q]
    BY <1>2, <1>3 DEF TypeOK
  <1>6. TypeOK'
    BY <1>4, <1>5 DEF TypeOK, WorkerFits
  <1>7. Shape'
    BY <1>1, <1>4 DEF Shape, Present, WorkerFits
  <1>8. TxShape'
    BY <1>1, <1>2, <1>4, <1>5 DEF TxShape, TxOf, CleanPresent, Present
  <1> QED BY <1>6, <1>7, <1>8

\* What UpdateBegin opens, when it does: the operation's value over the
\* current record.
LEMMA UpdateBeginKinds ==
  ASSUME BaseInv, NEW p \in Procs, UpdateBegin(p)
  PROVE  \/ CallMove(p) /\ UNCHANGED callTx
         \/ /\ CallOpens(p)
            /\ \E v \in Written(call[p].op, repo[call[p].dl]) :
                 callTx' = [callTx EXCEPT ![p] = OpenTx(call[p].dl, v)]
            /\ call[p].op \in AllOps /\ call[p].dl \in Downloads /\ repo[call[p].dl] \in Record
  <1>1. /\ call[p] \in CallRec /\ call[p].dl \in used /\ call[p].dl \in Downloads
        /\ call[p].op \in AllOps /\ call[p].pc = "update"
        /\ NoCall \in CallRec /\ NoCall.pc = "idle"
    BY DEF BaseInv, TypeOK, Shape, UpdateBegin, NoCall, CallRec, CallPC
  <1>2. PICK live \in CallCtx(p) :
          IF CanUpdate(live, call[p].dl)
          THEN /\ \E v \in Written(call[p].op, repo[call[p].dl]) :
                    callTx' = [callTx EXCEPT ![p] = OpenTx(call[p].dl, v)]
               /\ call' = [call EXCEPT ![p].pc = "commit"]
          ELSE call' = [call EXCEPT ![p] = NoCall] /\ UNCHANGED callTx
    BY DEF UpdateBegin
  <1>3. CASE CanUpdate(live, call[p].dl)
    <2>1. Present(call[p].dl) /\ repo[call[p].dl] \in Record
      BY <1>1, <1>3 DEF CanUpdate, Present, BaseInv, TypeOK
    <2>2. PICK v \in Written(call[p].op, repo[call[p].dl]) :
            callTx' = [callTx EXCEPT ![p] = OpenTx(call[p].dl, v)]
      BY <1>2, <1>3
    <2>3. v \in Record \cup {NoRecord}
      BY <1>1, <2>1, <2>2, WrittenType
    <2> DEFINE c == [call[p] EXCEPT !.pc = "commit"]
    <2>4. c \in CallRec /\ c.pc = "commit" /\ c.dl = call[p].dl
      BY <1>1 DEF CallRec, CallPC
    <2>5. call' = [call EXCEPT ![p] = c]
      BY <1>2, <1>3
    <2>6. CallOpens(p)
      BY <1>1, <2>1, <2>2, <2>3, <2>4, <2>5 DEF CallOpens
    <2> QED BY <1>1, <2>1, <2>2, <2>6
  <1>4. CASE ~CanUpdate(live, call[p].dl)
    BY <1>1, <1>2, <1>4 DEF CallMove
  <1> QED BY <1>3, <1>4

LEMMA BaseUpdateBegin ==
  ASSUME BaseInv, NEW p \in Procs, UpdateBegin(p) PROVE BaseInv'
  <1>1. /\ UNCHANGED <<storeVars, used, qpaused, cancels, runVars, monVars, fileVars, held, misread, procVars>>
        /\ UNCHANGED wk
    BY DEF UpdateBegin
  <1>2. TypeOK /\ WorkerFits(wk)
    BY DEF BaseInv, TypeOK, Shape, WorkerFits
  <1>3. CASE CallMove(p) /\ UNCHANGED callTx
    BY <1>1, <1>2, <1>3, BaseCallMove
    DEF storeVars, runVars, monVars, fileVars, procVars, TypeOK
  <1>4. CASE CallOpens(p)
    BY <1>1, <1>2, <1>4, BaseCallOpens DEF TypeOK
  <1> QED BY <1>3, <1>4, UpdateBeginKinds

LEMMA BaseUpdateCommit ==
  ASSUME BaseInv, NEW p \in Procs, UpdateCommit(p) PROVE BaseInv'
  <1> USE DEF BaseInv, fileVars, procVars
  <1>1. StoreStep(callTx[p])
    BY CommitKinds
  <1>2. callTx'[p] = NoTx
    <2>1. Doom(callTx, callTx[p]) \in [Procs -> Tx]
      BY DoomFacts DEF TypeOK
    <2> QED BY <2>1 DEF UpdateCommit
  <1>3. PICK c \in CallRec : /\ call' = [call EXCEPT ![p] = c]
                             /\ c.pc = "idle" => c = NoCall
                             /\ c.pc # "idle" => c.dl = call[p].dl
                             /\ c.pc \in {"idle", "register", "files"}
    <2>1. call[p] \in CallRec /\ NoCall \in CallRec /\ NoCall.pc = "idle"
      BY DEF TypeOK, NoCall, CallRec, CallPC
    <2> DEFINE c == IF callTx[p].st = "clean" THEN AfterCommit(call[p]) ELSE NoCall
    <2>2. c = NoCall \/ c = [call[p] EXCEPT !.pc = "register"] \/ c = [call[p] EXCEPT !.pc = "files"]
      BY DEF AfterCommit
    <2>3. c \in CallRec /\ (c.pc = "idle" => c = NoCall) /\ (c.pc # "idle" => c.dl = call[p].dl)
          /\ c.pc \in {"idle", "register", "files"}
      BY <2>1, <2>2 DEF CallRec, CallPC
    <2>4. call' = [call EXCEPT ![p] = c]
      BY DEF UpdateCommit
    <2> QED BY <2>3, <2>4
  <1>4. call' \in [Procs -> CallRec] /\ call'[p] = c /\ \A q \in Procs : q # p => call'[q] = call[q]
    BY <1>3 DEF TypeOK
  <1>5. call[p].pc = "commit" /\ call[p].dl \in used /\ used \subseteq Downloads
    BY DEF UpdateCommit, Shape, TypeOK
  <1>6. held' \in SUBSET Downloads
    BY <1>5 DEF UpdateCommit, TypeOK
  <1>7. TypeOK'
    BY <1>1, <1>4, <1>6 DEF TypeOK, UpdateCommit, StoreStep, Settled
  <1>8. Shape'
    <2>1. UNCHANGED <<used, run, pending, wk>>
      BY DEF UpdateCommit
    <2> QED BY <1>1, <1>3, <1>4, <1>5, <2>1 DEF Shape, Present, StoreStep, Settled
  <1>9. TxShape'
    <2>1. UNCHANGED run
      BY DEF UpdateCommit
    <2> QED BY <1>1, <1>2, <1>4, <2>1 DEF TxShape, TxOf, CleanPresent, Present, StoreStep, Settled, NoTx
  <1> QED BY <1>7, <1>8, <1>9

LEMMA BaseEnqueue ==
  ASSUME BaseInv, NEW d \in Downloads, NEW q \in QueueNames, Enqueue(d, q) PROVE BaseInv'
  <1> USE DEF BaseInv, callVars, runVars, monVars, fileVars, procVars
  <1>1. [status |-> "queued", queue |-> q, kept |-> TRUE] \in Record
    BY ParameterAssumption DEF Record, Status
  <1>2. /\ repo' \in [Downloads -> Record \cup {NoRecord}]
        /\ \A e \in Downloads : e # d => repo'[e] = repo[e]
        /\ repo'[d] # NoRecord
    BY <1>1, NoRecordFact DEF Enqueue, TypeOK
  <1>3. TypeOK'
    BY <1>2 DEF TypeOK, Enqueue
  <1>4. Shape'
    BY <1>2 DEF Shape, Enqueue, Present
  <1>5. TxShape'
    BY <1>2 DEF TxShape, Enqueue, TxOf, CleanPresent, Present
  <1> QED BY <1>3, <1>4, <1>5

LEMMA BaseCall ==
  ASSUME BaseInv, NEW p \in Callers, NEW op \in Ops, NEW d \in Downloads, Call(p, op, d)
  PROVE  BaseInv'
  <1> DEFINE c == [op |-> op, pc |-> FirstStep(op), dl |-> d]
  <1>1. op \in AllOps /\ p \in Procs
    BY ParameterAssumption DEF Procs
  <1>2. FirstStep(op) \in {"check", "cancel", "update"}
    BY <1>1 DEF FirstStep, AllOps
  <1>3. c \in CallRec /\ c.pc \in {"check", "cancel", "update"} /\ c.op \in AllOps /\ c.dl \in used
    BY <1>1, <1>2 DEF CallRec, CallPC, Call
  <1>4. CallMove(p)
    <2>1. call' = [call EXCEPT ![p] = c] /\ call[p].pc # "commit"
      BY DEF Call, NoCall
    <2> HIDE DEF c
    <2> QED BY <1>3, <2>1 DEF CallMove
  <1>5. TypeOK /\ WorkerFits(wk)
    BY DEF BaseInv, TypeOK, Shape, WorkerFits
  <1> QED
    BY <1>1, <1>4, <1>5, BaseCallMove
    DEF Call, storeVars, runVars, monVars, fileVars, procVars, TypeOK

LEMMA BaseRunLoad ==
  ASSUME BaseInv, NEW r \in Runners, RunLoad(r) PROVE BaseInv'
  <1> USE DEF BaseInv, storeVars, callVars, monVars, fileVars, procVars
  <1>1. run[r] \in RunRec /\ run[r].dl \in Downloads /\ run[r].pc = "load"
    BY DEF RunLoad, TypeOK, Shape
  <1>2. PICK pc \in {"prepare", "fail"}, m \in Record :
          run' = [run EXCEPT ![r].pc = pc, ![r].mem = m]
    <2>1. CanUpdate(run[r].live, run[r].dl) => repo[run[r].dl] \in Record
      BY <1>1 DEF CanUpdate, Present, TypeOK
    <2>2. BlankRecord \in Record
      BY DEF BlankRecord, Record, Status
    <2> QED BY <2>1, <2>2 DEF RunLoad
  <1> DEFINE c == [run[r] EXCEPT !.pc = pc, !.mem = m]
  <1>3. c \in RunRec /\ c.pc \in {"prepare", "fail"} /\ c.dl = run[r].dl /\ c.mem = m
    BY <1>1 DEF RunRec, RunPC
  <1>4. run' = [run EXCEPT ![r] = c]
    BY <1>2
  <1>5. run' \in [Runners -> RunRec] /\ run'[r] = c /\ Others(r)
    BY <1>3, <1>4 DEF TypeOK, Others
  <1> HIDE DEF c
  <1>6. TypeOK'
    <2>1. misread' \in SUBSET FlakyDownloads
      BY DEF RunLoad, TypeOK
    <2> QED BY <1>5, <2>1 DEF TypeOK, RunLoad
  <1>7. Shape'
    <2>1. UNCHANGED <<repo, used, call, pending, monTx, wk>>
      BY DEF RunLoad
    <2> QED BY <1>1, <1>2, <1>3, <1>5, <2>1 DEF Shape, Others, Present
  <1>8. TxShape'
    <2>1. runTx[r].st = "none"
      BY <1>1 DEF TxShape, TxPC
    <2> QED BY <1>3, <1>5, <2>1 DEF TxShape, RunLoad, Others, TxOf, CleanPresent, Present
  <1> QED BY <1>6, <1>7, <1>8

LEMMA BaseDrained ==
  ASSUME BaseInv, NEW r \in Runners, Drained(r) PROVE BaseInv'
  <1> USE DEF BaseInv, storeVars, callVars, monVars, fileVars, procVars
  <1>1. FreeRunner \in RunRec /\ FreeRunner.pc = "free"
    BY DEF FreeRunner, RunRec, RunPC
  <1>2. run' \in [Runners -> RunRec] /\ run'[r] = FreeRunner /\ Others(r)
    BY <1>1 DEF Drained, TypeOK, Others
  <1>3. runTx[r].st = "none"
    BY DEF Drained, TxShape, TxPC
  <1>4. TypeOK'
    BY <1>2 DEF TypeOK, Drained
  <1>5. Shape'
    BY <1>1, <1>2, ParameterAssumption DEF Shape, Drained, Others, Present, TypeOK
  <1>6. TxShape'
    BY <1>2, <1>3 DEF TxShape, Drained, Others, TxOf, CleanPresent, Present, NoTx
  <1> QED BY <1>4, <1>5, <1>6

LEMMA BaseSegments ==
  ASSUME BaseInv, NEW r \in Runners, SegmentStep(r) PROVE BaseInv'
  <1> USE DEF BaseInv, storeVars, runVars, monVars, fileVars, procVars
  <1>1. CASE ReopenSegment(r)
    <2> USE DEF callVars
    <2>1. run[r].dl \in Downloads
      BY <1>1 DEF ReopenSegment, Shape, TypeOK
    <2>2. TypeOK'
      BY <1>1, <2>1 DEF TypeOK, ReopenSegment
    <2>3. Shape'
      BY <1>1 DEF Shape, ReopenSegment, Present
    <2>4. TxShape'
      BY <1>1 DEF TxShape, ReopenSegment, TxOf, CleanPresent, Present
    <2> QED BY <2>2, <2>3, <2>4
  <1>2. CASE Report(r)
    <2>1. /\ callTx' \in [Procs -> Tx]
          /\ \A p \in Procs : /\ callTx'[p].dl = callTx[p].dl /\ callTx'[p].val = callTx[p].val
                              /\ callTx'[p].st = "none" <=> callTx[p].st = "none"
                              /\ callTx'[p].st = "clean" => callTx[p].st = "clean"
      BY <1>2 DEF Report, TypeOK, Tx
    <2>2. pending' \in [Runners -> 0..MaxPending] /\ pending'[r] > 0
          /\ \A s \in Runners : s # r => pending'[s] = pending[s]
      BY <1>2, ParameterAssumption DEF Report, TypeOK
    <2>3. TypeOK'
      BY <1>2, <2>1, <2>2 DEF TypeOK, Report
    <2>4. Shape'
      BY <1>2, <2>2 DEF Shape, Report, Present
    <2>5. TxShape'
      BY <1>2, <2>1 DEF TxShape, Report, TxOf, CleanPresent, Present
    <2> QED BY <2>3, <2>4, <2>5
  <1> QED BY <1>1, <1>2 DEF SegmentStep

LEMMA BaseMonitor ==
  ASSUME BaseInv, NEW r \in Runners, MonitorStep(r) PROVE BaseInv'
  <1> USE DEF BaseInv, fileVars, procVars
  <1>1. pending[r] \in 0..MaxPending /\ MaxPending \in Nat /\ (monTx[r] # NoTx => pending[r] > 0)
    BY ParameterAssumption DEF TypeOK, Shape
  <1>2. CASE MonitorBegin(r) /\ CanUpdate(run[r].live, run[r].dl)
    <2> USE DEF storeVars, callVars, runVars
    <2>1. run[r].dl \in Downloads /\ run[r].mem \in Record /\ Present(run[r].dl)
      BY <1>2 DEF MonitorBegin, Shape, TypeOK, CanUpdate
    <2> DEFINE t == OpenTx(run[r].dl, run[r].mem)
    <2>2. t \in Tx /\ t.st = "clean" /\ t.dl = run[r].dl /\ t # NoTx
      BY <2>1, OpenTxType
    <2>3. monTx' = [monTx EXCEPT ![r] = t] /\ pending' = pending
      BY <1>2 DEF MonitorBegin
    <2> HIDE DEF t
    <2>4. monTx' \in [Runners -> Tx] /\ monTx'[r] = t /\ \A s \in Runners : s # r => monTx'[s] = monTx[s]
      BY <2>2, <2>3 DEF TypeOK
    <2>5. TypeOK'
      BY <1>2, <2>3, <2>4 DEF TypeOK, MonitorBegin
    <2>6. Shape'
      BY <1>2, <2>3, <2>4 DEF Shape, MonitorBegin, Present
    <2>7. TxShape'
      BY <1>2, <2>1, <2>2, <2>4 DEF TxShape, MonitorBegin, TxOf, CleanPresent, Present
    <2> QED BY <2>5, <2>6, <2>7
  <1>3. CASE MonitorBegin(r) /\ ~CanUpdate(run[r].live, run[r].dl)
    <2> USE DEF storeVars, callVars, runVars
    <2>1. pending' = [pending EXCEPT ![r] = pending[r] - 1] /\ monTx' = monTx /\ pending[r] > 0
          /\ monTx[r] = NoTx
      BY <1>3 DEF MonitorBegin
    <2>2. pending' \in [Runners -> 0..MaxPending] /\ \A s \in Runners : s # r => pending'[s] = pending[s]
      BY <1>1, <2>1 DEF TypeOK
    <2>3. TypeOK'
      BY <1>3, <2>1, <2>2 DEF TypeOK, MonitorBegin
    <2>4. Shape'
      BY <1>3, <2>1, <2>2 DEF Shape, MonitorBegin, Present
    <2>5. TxShape'
      BY <1>3, <2>1 DEF TxShape, MonitorBegin, TxOf, CleanPresent, Present
    <2> QED BY <2>3, <2>4, <2>5
  <1>4. CASE MonitorCommit(r)
    <2>1. StoreStep(monTx[r])
      BY <1>4, CommitKinds
    <2>2. monTx'[r] = NoTx
      <3>1. Doom(monTx, monTx[r]) \in [Runners -> Tx]
        BY DoomFacts DEF TypeOK
      <3> QED BY <1>4, <3>1 DEF MonitorCommit
    <2>3. pending' = [pending EXCEPT ![r] = pending[r] - 1] /\ pending[r] > 0
          /\ UNCHANGED <<used, call, run, wk>>
      BY <1>1, <1>4 DEF MonitorCommit
    <2>4. pending' \in [Runners -> 0..MaxPending] /\ \A s \in Runners : s # r => pending'[s] = pending[s]
      BY <1>1, <2>3 DEF TypeOK
    <2>5. run[r].pc \notin {"free", "load"}
      BY <2>3 DEF Shape
    <2>6. TypeOK'
      BY <1>4, <2>1, <2>4 DEF TypeOK, MonitorCommit, StoreStep, Settled
    <2>7. Shape'
      BY <2>1, <2>2, <2>3, <2>4, <2>5 DEF Shape, Present, StoreStep, Settled
    <2>8. TxShape'
      BY <2>1, <2>3 DEF TxShape, TxOf, CleanPresent, Present, StoreStep, Settled, NoTx
    <2> QED BY <2>6, <2>7, <2>8
  <1> QED BY <1>2, <1>3, <1>4 DEF MonitorStep

\* The worker's own steps and the steps of the process.
LEMMA BaseWorker ==
  ASSUME BaseInv, WorkerStep PROVE BaseInv'
  <1> USE DEF BaseInv
  <1>1. wk \in WorkerRec /\ wk.list \subseteq used /\ Worker \in Procs
    BY WorkerIsProc DEF TypeOK, Shape
  <1>2. ASSUME WorkerFits(wk'),
               UNCHANGED <<storeVars, used, qpaused, cancels, callVars, runVars, monVars,
                           fileVars, held, misread, procVars>>
        PROVE  BaseInv'
    <2> USE DEF storeVars, callVars, runVars, monVars, fileVars, procVars
    <2>1. TypeOK'
      BY <1>2 DEF TypeOK, WorkerFits
    <2>2. Shape'
      BY <1>2 DEF Shape, Present, WorkerFits
    <2>3. TxShape'
      BY <1>2 DEF TxShape, TxOf, CleanPresent, Present
    <2> QED BY <2>1, <2>2, <2>3
  <1>3. \A s : WithStatus(s) \subseteq Downloads /\ IsFiniteSet(WithStatus(s))
    <2>1. \A s : WithStatus(s) \subseteq Downloads
      BY DEF WithStatus
    <2> QED BY <2>1, ParameterAssumption, FS_Subset
  <1>4. CASE Tick
    <2>1. {<<d, repo[d]>> : d \in WithStatus("running") \cap stale}
            \in SUBSET (Downloads \X Record)
      BY DEF WithStatus, Present, TypeOK
    <2>2. WorkerFits(wk')
      BY <1>1, <1>4, <2>1 DEF Tick, WorkerRec, WorkerFits
    <2> QED BY <1>2, <1>4, <2>2 DEF Tick
  <1>5. CASE CountRunning
    <2>1. PICK q \in wk.queues :
            LET running == IF ServerCtxLive
                           THEN Cardinality(WithStatus("running") \cap InQueue(q)) ELSE 0
                room == Effective(q) - running IN
            wk' = [wk EXCEPT !.pc = IF room > 0 THEN "list" ELSE "start",
                             !.queues = @ \ {q},
                             !.queue = IF room > 0 THEN q ELSE NoQueue,
                             !.room = IF room > 0 THEN room ELSE 0]
      BY <1>5 DEF CountRunning
    <2> DEFINE running == IF ServerCtxLive
                          THEN Cardinality(WithStatus("running") \cap InQueue(q)) ELSE 0
               room == Effective(q) - running
    <2>2. q \in Queues
      BY <1>1, <2>1 DEF WorkerRec
    <2>3. running \in Nat
      <3>1. IsFiniteSet(WithStatus("running") \cap InQueue(q))
        BY <1>3, FS_Subset
      <3> QED BY <3>1, FS_CardinalityType
    <2>4. Effective(q) \in Int
      BY <2>2, ParameterAssumption DEF Effective
    <2>5. room \in Int
      BY <2>3, <2>4
    <2>6. wk' = [wk EXCEPT !.pc = IF room > 0 THEN "list" ELSE "start",
                           !.queues = wk.queues \ {q},
                           !.queue = IF room > 0 THEN q ELSE NoQueue,
                           !.room = IF room > 0 THEN room ELSE 0]
      BY <2>1
    <2> HIDE DEF room
    <2>7. WorkerFits(wk')
      <3>1. CASE room > 0
        <4>1. wk' = [wk EXCEPT !.pc = "list", !.queues = wk.queues \ {q}, !.queue = q, !.room = room]
          BY <2>6, <3>1
        <4>2. room \in Nat
          BY <2>5, <3>1
        <4> QED BY <1>1, <2>2, <4>1, <4>2 DEF WorkerRec, WorkerFits
      <3>2. CASE ~(room > 0)
        <4>1. wk' = [wk EXCEPT !.pc = "start", !.queues = wk.queues \ {q}, !.queue = NoQueue, !.room = 0]
          BY <2>6, <3>2
        <4> QED BY <1>1, <2>2, <4>1 DEF WorkerRec, WorkerFits
      <3> QED BY <3>1, <3>2
    <2> QED BY <1>2, <1>5, <2>7 DEF CountRunning
  <1>6. CASE ListQueued
    <2> DEFINE queued == WithStatus("queued") \cap InQueue(wk.queue)
    <2>1. PICK l \in SUBSET queued :
            wk' = [wk EXCEPT !.pc = "start", !.list = l, !.queue = NoQueue, !.room = 0]
      BY <1>6 DEF ListQueued
    <2>2. l \subseteq Downloads /\ l \subseteq used
      BY <2>1 DEF WithStatus, Shape
    <2>3. WorkerFits(wk')
      BY <1>1, <2>1, <2>2 DEF WorkerRec, WorkerFits
    <2> QED BY <1>2, <1>6, <2>3 DEF ListQueued
  <1>7. CASE TickDone
    <2>1. WorkerFits(wk')
      BY <1>7 DEF TickDone, IdleWorker, WorkerRec, WorkerFits
    <2> QED BY <1>2, <1>7, <2>1 DEF TickDone
  <1>8. CASE RequeueBegin
    <2>1. PICK c \in wk.stale :
            /\ wk' = [wk EXCEPT !.stale = wk.stale \ {c}]
            /\ IF CanUpdate(ServerCtxLive, c[1])
               THEN /\ callTx' = [callTx EXCEPT ![Worker] =
                                    OpenTx(c[1], [c[2] EXCEPT !.status = "queued"])]
                    /\ call' = [call EXCEPT ![Worker] =
                                  [op |-> "requeue", pc |-> "commit", dl |-> c[1]]]
               ELSE UNCHANGED callVars
      BY <1>8 DEF RequeueBegin
    <2>2. c[1] \in Downloads /\ c[2] \in Record /\ WorkerFits(wk')
      BY <1>1, <2>1 DEF WorkerRec, WorkerFits
    <2>3. CASE CanUpdate(ServerCtxLive, c[1])
      <3> DEFINE v == [c[2] EXCEPT !.status = "queued"]
                 k == [op |-> "requeue", pc |-> "commit", dl |-> c[1]]
      <3>1. v \in Record /\ k \in CallRec /\ k.pc = "commit" /\ k.dl = c[1]
        BY <2>2 DEF Record, Status, CallRec, CallPC
      <3>2. Present(c[1]) /\ c[1] \in used
        BY <2>2, <2>3 DEF CanUpdate, Shape
      <3>3. call[Worker].pc # "commit"
        BY <1>8 DEF RequeueBegin, NoCall
      <3>4. callTx' = [callTx EXCEPT ![Worker] = OpenTx(c[1], v)] /\ call' = [call EXCEPT ![Worker] = k]
        BY <2>1, <2>3
      <3> HIDE DEF v, k
      <3>5. CallOpens(Worker)
        BY <2>2, <3>1, <3>2, <3>3, <3>4 DEF CallOpens
      <3> QED BY <1>1, <1>8, <2>2, <3>5, BaseCallOpens DEF RequeueBegin
    <2>4. CASE ~CanUpdate(ServerCtxLive, c[1])
      BY <1>2, <1>8, <2>1, <2>2, <2>4 DEF RequeueBegin
    <2> QED BY <2>3, <2>4
  <1>9. CASE StartListed
    <2>1. PICK d \in wk.list :
            /\ wk' = [wk EXCEPT !.list = wk.list \ {d}]
            /\ call' = [call EXCEPT ![Worker] = [op |-> "start", pc |-> "check", dl |-> d]]
      BY <1>9 DEF StartListed
    <2> DEFINE k == [op |-> "start", pc |-> "check", dl |-> d]
    <2>2. d \in Downloads /\ WorkerFits(wk') /\ d \in used
      BY <1>1, <2>1 DEF WorkerRec, WorkerFits
    <2>3. k \in CallRec /\ k.pc = "check" /\ k.dl = d /\ k.op \in AllOps
      BY <2>2 DEF CallRec, CallPC, AllOps
    <2>4. call' = [call EXCEPT ![Worker] = k]
      BY <2>1
    <2> HIDE DEF k
    <2>7. call[Worker].pc # "commit"
      BY <1>9 DEF StartListed, NoCall
    <2>5. CallMove(Worker)
      BY <2>2, <2>3, <2>4, <2>7 DEF CallMove
    <2>6. TypeOK
      OBVIOUS
    <2> QED
      BY <1>1, <1>9, <2>2, <2>5, <2>6, BaseCallMove
      DEF StartListed, storeVars, runVars, monVars, fileVars, procVars, TypeOK
  <1> QED BY <1>4, <1>5, <1>6, <1>7, <1>8, <1>9 DEF WorkerStep

LEMMA BaseProcess ==
  ASSUME BaseInv, Signal \/ Crash \/ ProcessStep PROVE BaseInv'
  <1> USE DEF BaseInv, storeVars, callVars, runVars, monVars, fileVars, procVars
  <1>1. CASE Signal \/ Restart
    <2>1. TypeOK'
      BY <1>1 DEF TypeOK, Signal, Restart
    <2>2. Shape'
      BY <1>1 DEF Shape, Present, Signal, Restart
    <2>3. TxShape'
      BY <1>1 DEF TxShape, TxOf, CleanPresent, Present, Signal, Restart
    <2> QED BY <2>1, <2>2, <2>3
  <1>2. CASE PauseRunningDownloads
    <2>1. repo' = repo /\ stale' = stale
      <3>1. {d \in WithStatus("running") : ServerCtxLive} = {}
        BY <1>2 DEF PauseRunningDownloads, ServerCtxLive
      <3> QED BY <1>2, <3>1 DEF PauseRunningDownloads, TypeOK
    <2>2. TypeOK'
      BY <1>2, <2>1 DEF TypeOK, PauseRunningDownloads
    <2>3. Shape'
      BY <1>2, <2>1 DEF Shape, Present, PauseRunningDownloads
    <2>4. TxShape'
      BY <1>2, <2>1 DEF TxShape, TxOf, CleanPresent, Present, PauseRunningDownloads
    <2> QED BY <2>2, <2>3, <2>4
  <1>3. CASE ProcessEnds
    <2>1. NoTx \in Tx /\ NoTx.st = "none" /\ NoCall \in CallRec /\ FreeRunner \in RunRec
          /\ IdleWorker \in WorkerRec /\ NoCall.pc = "idle" /\ FreeRunner.pc = "free"
          /\ IdleWorker.list = {}
      BY DEF NoTx, Tx, NoCall, CallRec, CallPC, FreeRunner, RunRec, RunPC, IdleWorker, WorkerRec
    <2>2. TypeOK'
      BY <1>3, <2>1, ParameterAssumption DEF TypeOK, ProcessEnds
    <2>3. Shape'
      BY <1>3, <2>1 DEF Shape, Present, ProcessEnds
    <2>4. TxShape'
      BY <1>3, <2>1 DEF TxShape, TxOf, CleanPresent, ProcessEnds
    <2> QED BY <2>2, <2>3, <2>4
  <1> QED BY <1>1, <1>2, <1>3 DEF Crash, ProcessStep, Shutdown

LEMMA BaseStep == BaseInv /\ [Next]_vars => BaseInv'
  <1> SUFFICES ASSUME BaseInv, [Next]_vars PROVE BaseInv'
    OBVIOUS
  <1>1. ASSUME NEW p \in Procs, CallStep(p) PROVE BaseInv'
    BY <1>1, BaseCallSteps, BaseUpdateBegin, BaseUpdateCommit DEF CallStep
  <1>2. ASSUME NEW r \in Runners, RunStep(r) PROVE BaseInv'
    BY <1>2, RunnerKinds, BaseMove, BaseOpens, BaseRunnerCommits, BaseRunLoad, BaseDrained
  <1>3. ASSUME NEW q \in PausableQueues, PauseQueue(q) PROVE BaseInv'
    <2> USE DEF BaseInv, PauseQueue, storeVars, callVars, runVars, monVars, fileVars, procVars
    <2>1. TypeOK'
      BY <1>3, ParameterAssumption DEF TypeOK
    <2>2. Shape' /\ TxShape'
      BY <1>3 DEF Shape, TxShape, TxOf, CleanPresent, Present
    <2> QED BY <2>1, <2>2
  <1>4. ASSUME NEW d \in SlowDownloads, Age(d) PROVE BaseInv'
    <2> USE DEF BaseInv, Age, callVars, runVars, monVars, fileVars, procVars
    <2>1. TypeOK'
      BY <1>4, ParameterAssumption DEF TypeOK
    <2>2. Shape' /\ TxShape'
      BY <1>4 DEF Shape, TxShape, TxOf, CleanPresent, Present
    <2> QED BY <2>1, <2>2
  <1>5. CASE UNCHANGED vars
    BY <1>5 DEF BaseInv, TypeOK, Shape, TxShape, TxOf, CleanPresent, Present, vars
  <1> QED
    BY <1>1, <1>2, <1>3, <1>4, <1>5, BaseEnqueue, BaseCall, BaseSegments, BaseMonitor,
       BaseWorker, BaseProcess DEF Next

\* Type correctness: the variables keep their types in every behaviour, and
\* with it the shape of calls, runners and transactions.
THEOREM TypeCorrect == Spec => []TypeOK
  <1>1. Spec => []BaseInv
    BY BaseInit, BaseStep, PTL DEF Spec
  <1>2. BaseInv => TypeOK
    BY DEF BaseInv
  <1> QED BY <1>1, <1>2, PTL

----------------------------------------------------------------------------
(***************************************************************************)
(* The steps of the whole system by what they do to records, transactions  *)
(* and runners.  The invariants that follow are proved kind by kind.       *)
(***************************************************************************)
StoreQuiet == UNCHANGED <<repo, used, callTx, runTx, monTx>>

LEMMA QuietSteps ==
  ASSUME BaseInv,
         \/ \E p \in Callers, op \in Ops, d \in Downloads : Call(p, op, d)
         \/ \E q \in PausableQueues : PauseQueue(q)
         \/ \E d \in SlowDownloads : Age(d)
         \/ \E r \in Runners : ReopenSegment(r)
         \/ Tick \/ CountRunning \/ ListQueued \/ StartListed \/ TickDone
         \/ Signal \/ PauseRunningDownloads \/ Restart
  PROVE  StoreQuiet /\ UNCHANGED <<run, cancels, held, pending, final>>
  <1> USE DEF StoreQuiet, storeVars, callVars, runVars, monVars, fileVars, procVars
  <1>1. CASE PauseRunningDownloads
    <2>1. {d \in WithStatus("running") : ServerCtxLive} = {}
      BY <1>1 DEF PauseRunningDownloads, ServerCtxLive
    <2> QED BY <1>1, <2>1 DEF PauseRunningDownloads, BaseInv, TypeOK
  <1>2. CASE \/ \E p \in Callers, op \in Ops, d \in Downloads : Call(p, op, d)
             \/ \E q \in PausableQueues : PauseQueue(q)
             \/ \E d \in SlowDownloads : Age(d)
             \/ \E r \in Runners : ReopenSegment(r)
    BY <1>2 DEF Call, PauseQueue, Age, ReopenSegment
  <1>3. CASE \/ Tick \/ CountRunning \/ ListQueued \/ StartListed \/ TickDone
             \/ Signal \/ Restart
    BY <1>3 DEF Tick, CountRunning, ListQueued, StartListed, TickDone, Signal, Restart
  <1> QED BY <1>1, <1>2, <1>3

\* Every step is one of these; the ones on the last lines are quiet.
LEMMA NextKinds ==
  ASSUME BaseInv, Next
  PROVE  \/ \E d \in Downloads, q \in QueueNames : Enqueue(d, q)
         \/ \E p \in Procs : CheckDuplicate(p) \/ CancelRunner(p) \/ UpdateBegin(p)
                             \/ UpdateCommit(p) \/ Register(p) \/ RemoveFiles(p)
         \/ \E r \in Runners : \/ RunLoad(r) \/ Drained(r) \/ RunnerMove(r)
                               \/ RunnerOpens(r) \/ RunnerCommits(r)
                               \/ Report(r) \/ MonitorBegin(r) \/ MonitorCommit(r)
         \/ RequeueBegin
         \/ ProcessEnds
         \/ \/ \E p \in Callers, op \in Ops, d \in Downloads : Call(p, op, d)
            \/ \E q \in PausableQueues : PauseQueue(q)
            \/ \E d \in SlowDownloads : Age(d)
            \/ \E r \in Runners : ReopenSegment(r)
            \/ Tick \/ CountRunning \/ ListQueued \/ StartListed \/ TickDone
            \/ Signal \/ PauseRunningDownloads \/ Restart
  BY RunnerKinds
  DEF Next, CallStep, SegmentStep, MonitorStep, WorkerStep, ProcessStep, Shutdown, Crash

----------------------------------------------------------------------------
(* Removed records stay removed.                                           *)

LEMMA RemovedStep ==
  BaseInv /\ [Next]_vars => \A d \in used : repo[d] = NoRecord => repo'[d] = NoRecord
  <1> SUFFICES ASSUME BaseInv, [Next]_vars, NEW d \in used, repo[d] = NoRecord
               PROVE  repo'[d] = NoRecord
    OBVIOUS
  <1>1. d \in Downloads
    BY DEF BaseInv, TypeOK
  <1>2. ASSUME NEW e \in Downloads, NEW q \in QueueNames, Enqueue(e, q) PROVE repo'[d] = NoRecord
    BY <1>1, <1>2 DEF Enqueue, BaseInv, TypeOK
  <1>3. ASSUME NEW p \in Procs, UpdateCommit(p) PROVE repo'[d] = NoRecord
    BY <1>1, <1>3, CommitKinds DEF StoreStep
  <1>4. ASSUME NEW r \in Runners, RunnerCommits(r) PROVE repo'[d] = NoRecord
    BY <1>1, <1>4, CommitKinds DEF StoreStep, RunnerCommits
  <1>5. ASSUME NEW r \in Runners, MonitorCommit(r) PROVE repo'[d] = NoRecord
    BY <1>1, <1>5, CommitKinds DEF StoreStep
  <1>6. ASSUME NEW p \in Procs, CheckDuplicate(p) \/ CancelRunner(p) \/ UpdateBegin(p)
                                \/ Register(p) \/ RemoveFiles(p)
        PROVE  repo' = repo
    BY <1>6 DEF CheckDuplicate, CancelRunner, UpdateBegin, Register, RemoveFiles, storeVars
  <1>7. ASSUME NEW r \in Runners, RunLoad(r) \/ Drained(r) \/ RunnerMove(r) \/ RunnerOpens(r)
                                  \/ Report(r) \/ MonitorBegin(r)
        PROVE  repo' = repo
    BY <1>7 DEF RunLoad, Drained, RunnerMove, RunnerOpens, Report, MonitorBegin, storeVars
  <1>8. ASSUME RequeueBegin \/ ProcessEnds PROVE repo' = repo
    BY <1>8 DEF RequeueBegin, ProcessEnds, storeVars
  <1>9. CASE UNCHANGED vars
    BY <1>9 DEF vars
  <1>10. CASE Next
    BY <1>2, <1>3, <1>4, <1>5, <1>6, <1>7, <1>8, <1>10, NextKinds, QuietSteps DEF StoreQuiet
  <1> QED BY <1>9, <1>10

\* No writer that still has a copy of a deleted record, be it a runner, its
\* monitorProgress, the requeueing worker or another request, brings it back.
THEOREM RemovedForGood == Spec => RemovedStaysRemoved
  <1>1. Spec => []BaseInv
    BY BaseInit, BaseStep, PTL DEF Spec
  <1>2. BaseInv /\ [Next]_vars
          => [\A d \in used : repo[d] = NoRecord => repo'[d] = NoRecord]_vars
    BY RemovedStep
  <1> QED BY <1>1, <1>2, PTL DEF Spec, RemovedStaysRemoved

----------------------------------------------------------------------------
(* The map of cancel functions.                                            *)

LEMMA TrackedStep == BaseInv /\ TrackedRunnerLive /\ [Next]_vars => TrackedRunnerLive'
  <1> SUFFICES ASSUME BaseInv, TrackedRunnerLive, [Next]_vars PROVE TrackedRunnerLive'
    OBVIOUS
  <1> USE DEF TrackedRunnerLive
  <1>1. TypeOK /\ NoRunner \notin Runners
    BY DistinctAssumption DEF BaseInv
  <1>2. ASSUME UNCHANGED <<run, cancels>> PROVE TrackedRunnerLive'
    BY <1>2
  <1>3. ASSUME NEW p \in Procs, CancelRunner(p) PROVE TrackedRunnerLive'
    <2>1. call[p].dl \in Downloads
      BY <1>1, <1>3 DEF CancelRunner, BaseInv, Shape, TypeOK
    <2>2. \A d \in Downloads : cancels'[d] = IF d = call[p].dl THEN NoRunner ELSE cancels[d]
      BY <1>1, <1>3, <2>1 DEF CancelRunner, TypeOK
    <2>3. \A r \in Runners : cancels[call[p].dl] # r => run'[r] = run[r]
      BY <1>3 DEF CancelRunner
    <2> QED BY <1>1, <2>1, <2>2, <2>3
  <1>4. ASSUME NEW p \in Procs, Register(p) PROVE TrackedRunnerLive'
    <2>1. call[p].dl \in Downloads
      BY <1>1, <1>4 DEF Register, BaseInv, Shape, TypeOK
    <2>2. PICK r \in Runners :
            /\ run[r].pc = "free"
            /\ run' = [run EXCEPT ![r] = [pc |-> "load", dl |-> call[p].dl, live |-> TRUE,
                                          mem |-> NoRecord]]
            /\ cancels' = [cancels EXCEPT ![call[p].dl] = r]
      BY <1>4 DEF Register
    <2>3. run'[r] = [pc |-> "load", dl |-> call[p].dl, live |-> TRUE, mem |-> NoRecord]
          /\ Others(r)
      BY <1>1, <2>2 DEF TypeOK, Others
    <2>4. \A d \in Downloads : cancels'[d] = IF d = call[p].dl THEN r ELSE cancels[d]
      BY <1>1, <2>1, <2>2 DEF TypeOK
    <2> QED BY <1>1, <2>2, <2>3, <2>4 DEF Others
  <1>5. ASSUME NEW r \in Runners, RunLoad(r) PROVE TrackedRunnerLive'
    <2>1. run'[r].dl = run[r].dl /\ run'[r].live = run[r].live /\ run'[r].pc \notin {"free", "drain"}
          /\ Others(r) /\ cancels' = cancels
      BY <1>1, <1>5 DEF RunLoad, TypeOK, RunRec, Others
    <2> QED BY <2>1 DEF Others
  <1>6. ASSUME NEW r \in Runners, RunnerMove(r) \/ RunnerOpens(r) \/ RunnerCommits(r)
        PROVE  TrackedRunnerLive'
    <2>1. CASE run'[r].pc # "drain"
      BY <1>6, <2>1 DEF RunnerMove, RunnerOpens, RunnerCommits, WriteCommit, MoveCore, Others
    <2>2. CASE run'[r].pc = "drain"
      <3>1. RunnerMove(r)
        BY <1>6, <2>2 DEF RunnerOpens, RunnerCommits, TxPC
      <3>2. run[r].dl \in Downloads
        BY <1>1, <3>1 DEF RunnerMove, MoveCore, BaseInv, Shape, TypeOK
      <3>3. \A d \in Downloads : cancels'[d] = IF d = run[r].dl THEN NoRunner ELSE cancels[d]
        BY <1>1, <2>2, <3>1, <3>2 DEF RunnerMove, TypeOK
      <3> QED BY <1>1, <3>1, <3>3 DEF RunnerMove, MoveCore, Others
    <2> QED BY <2>1, <2>2
  <1>7. ASSUME NEW r \in Runners, Drained(r) PROVE TrackedRunnerLive'
    <2>1. run[r].pc = "drain" /\ Others(r) /\ cancels' = cancels
      BY <1>1, <1>7 DEF Drained, TypeOK, Others
    <2> QED BY <2>1 DEF Others
  <1>8. ASSUME ProcessEnds PROVE TrackedRunnerLive'
    BY <1>1, <1>8 DEF ProcessEnds
  <1>9. ASSUME NEW d \in Downloads, NEW q \in QueueNames, Enqueue(d, q) PROVE UNCHANGED <<run, cancels>>
    BY <1>9 DEF Enqueue, runVars
  <1>10. ASSUME NEW p \in Procs, CheckDuplicate(p) \/ UpdateBegin(p) \/ UpdateCommit(p) \/ RemoveFiles(p)
         PROVE  UNCHANGED <<run, cancels>>
    BY <1>10 DEF CheckDuplicate, UpdateBegin, UpdateCommit, RemoveFiles, runVars
  <1>11. ASSUME NEW r \in Runners, Report(r) \/ MonitorBegin(r) \/ MonitorCommit(r)
         PROVE  UNCHANGED <<run, cancels>>
    BY <1>11 DEF Report, MonitorBegin, MonitorCommit, runVars
  <1>12. ASSUME RequeueBegin PROVE UNCHANGED <<run, cancels>>
    BY <1>12 DEF RequeueBegin, runVars
  <1>13. CASE UNCHANGED vars
    BY <1>2, <1>13 DEF vars
  <1>14. CASE Next
    <2> USE NextKinds, QuietSteps
    <2> QED BY <1>2, <1>3, <1>4, <1>5, <1>6, <1>7, <1>8, <1>9, <1>10, <1>11, <1>12, <1>14
  <1> QED BY <1>13, <1>14

\* An entry of the map of cancel functions reaches a live runner of its own
\* download, however Start, Resume, Pause, Cancel and ending runners interleave.
THEOREM TrackedAlwaysLive == Spec => []TrackedRunnerLive
  <1>1. Spec => []BaseInv
    BY BaseInit, BaseStep, PTL DEF Spec
  <1>2. Init => TrackedRunnerLive
    BY DistinctAssumption DEF Init, TrackedRunnerLive
  <1> QED BY <1>1, <1>2, TrackedStep, PTL DEF Spec

=============================================================================
