------------------------- MODULE DownloadLifecycle -------------------------
(***************************************************************************)
(* The life of downloads in one server: the control calls of the REST API  *)
(* (service/download.go), the runner goroutines that transfer the files    *)
(* (service/runner.go), the scheduler (service/workers.go) and the start,  *)
(* shutdown and crash of the process (server/server.go), all over the      *)
(* records of the Badger store (repository/repository.go).                 *)
(*                                                                         *)
(* A record keeps the status and the queue of its download, and whether it *)
(* still has what the client asked for (URL, request, file options, tags). *)
(* Priority and progress do not steer any step modelled here; UpdatedAt is *)
(* reduced to whether it is older than the stale timeout, CreatedAt to the *)
(* order of the identifiers.  Bytes on the wire and in the part files are  *)
(* the subject of Transfer; the secondary indexes and the bulk operations  *)
(* of the store are not part of this module.                               *)
(***************************************************************************)
EXTENDS Integers, FiniteSets

CONSTANTS
  Downloads,     \* identifiers uuid.NewString() can hand out, in the order
                 \* of creation
  Queues,        \* the queues there are
  QueueNames,    \* the queues that requests name; NoQueue is a name that none has
  Callers,       \* concurrent API requests
  Runners,       \* names for runner goroutines (a bound: how many at once)
  Ops,           \* the operations API requests perform
  Concurrency,   \* Queue.Concurrency of each queue
  PausableQueues,\* queues that users pause and resume
  SlowDownloads, \* downloads that may go without a write for the stale timeout
  FlakyDownloads,\* downloads whose record the store may fail to read
  MaxPending,    \* bound on progress reports waiting for monitorProgress
  MaxStops,      \* bound on the number of times the process ends
  Worker,        \* the goroutine of WorkerManager
  NoRecord, NoRunner, NoDownload, NoQueue

AllOps == {"start", "resume", "pause", "cancel", "assign", "remove"}

\* models.DownloadStatus, without pending, which no operation stores.
Status == {"queued", "running", "paused", "completed", "failed", "cancelled"}

\* models.Download, reduced to the fields that steer the lifecycle.
Record == [status : Status, queue : Queues \cup {NoQueue}, kept : BOOLEAN]

ASSUME DistinctAssumption ==
  /\ NoRunner \notin Runners
  /\ NoDownload \notin Downloads
  /\ NoQueue \notin Queues
  /\ Worker \notin Callers
  /\ NoRecord \notin Record

ASSUME ParameterAssumption ==
  /\ Downloads \subseteq Nat
  /\ QueueNames \subseteq Queues \cup {NoQueue}
  /\ Ops \subseteq AllOps
  /\ Concurrency \in [Queues -> Int]
  /\ PausableQueues \subseteq Queues
  /\ SlowDownloads \subseteq Downloads
  /\ FlakyDownloads \subseteq Downloads
  /\ MaxPending \in Nat
  /\ MaxStops \in Nat
  /\ IsFiniteSet(Downloads)

Procs == Callers \cup {Worker}

VARIABLES
  repo,      \* the stored record of each download
  stale,     \* downloads whose UpdatedAt is older than the stale timeout
  used,      \* identifiers given to a download so far
  qpaused,   \* queues with Paused set
  cancels,   \* DownloadServiceImpl.cancels: the runner each entry cancels
  call,      \* the operation each API request, and the worker, is in
  callTx,    \* the store transaction of that operation
  run,       \* runner goroutines: program counter, download, context, copy
  runTx,     \* the store transaction of each runner
  pending,   \* progress reports monitorProgress has yet to handle
  monTx,     \* the store transaction of each runner's monitorProgress
  wk,        \* WorkerManager.tick
  parts,     \* downloads with part files in their temporary directory
  final,     \* downloads whose merged file exists
  held,      \* history: paused or cancelled with no live runner, none since
  misread,   \* history: a runner failed to read the record that was there
  proc,      \* the process: "up", "stopping", "draining" or "down"
  stops      \* how often the process has ended

storeVars == <<repo, stale>>
callVars  == <<call, callTx>>
runVars   == <<run, runTx>>
monVars   == <<pending, monTx>>
fileVars  == <<parts, final>>
procVars  == <<proc, stops>>
vars == <<repo, stale, used, qpaused, cancels, call, callTx, run, runTx,
          pending, monTx, wk, parts, final, held, misread, proc, stops>>

----------------------------------------------------------------------------
(***************************************************************************)
(* Store transactions.  Every access goes through RunInTx, update or view, *)
(* which refuse a done context; a transaction reads its record, computes   *)
(* the new one and commits later.  Badger refuses the commit when another  *)
(* transaction has committed the record since it was read: committing to d *)
(* dooms every other transaction that has read d.                          *)
(***************************************************************************)
Tx == [st : {"none", "clean", "doomed"},
       dl : Downloads \cup {NoDownload},
       val : Record \cup {NoRecord}]

NoTx == [st |-> "none", dl |-> NoDownload, val |-> NoRecord]

OpenTx(d, v) == [st |-> "clean", dl |-> d, val |-> v]

Present(d) == repo[d] # NoRecord

\* Slip: the record is read outside the transaction that writes it.
DoomNothing(f, t) == f

\* The other transactions of f once transaction t has ended: the ones that
\* read the record t has written can no longer commit.
Doom(f, t) ==
  [a \in DOMAIN f |-> IF t.st = "clean" /\ f[a].st = "clean" /\ f[a].dl = t.dl
                      THEN [f[a] EXCEPT !.st = "doomed"] ELSE f[a]]

\* What the end of transaction t does to the stored records.
Commit(t) ==
  /\ repo' = IF t.st = "clean" THEN [repo EXCEPT ![t.dl] = t.val] ELSE repo
  /\ stale' = IF t.st = "clean" THEN stale \ {t.dl} ELSE stale

\* Slip: the store does not look at the context.
CanUpdateAnyContext(live, d) == Present(d)

\* updateDownloadTxn starts only for a live context and an existing record.
CanUpdate(live, d) == live /\ Present(d)

----------------------------------------------------------------------------
NoCall == [op |-> "none", pc |-> "idle", dl |-> NoDownload]

IdleWorker == [pc |-> "idle", queues |-> {}, stale |-> {}, queue |-> NoQueue,
               room |-> 0, list |-> {}]

FreeRunner == [pc |-> "free", dl |-> NoDownload, live |-> FALSE, mem |-> NoRecord]

Init ==
  /\ repo = [d \in Downloads |-> NoRecord]
  /\ stale = {}
  /\ used = {}
  /\ qpaused = {}
  /\ cancels = [d \in Downloads |-> NoRunner]
  /\ call = [p \in Procs |-> NoCall]
  /\ callTx = [p \in Procs |-> NoTx]
  /\ run = [r \in Runners |-> FreeRunner]
  /\ runTx = [r \in Runners |-> NoTx]
  /\ pending = [r \in Runners |-> 0]
  /\ monTx = [r \in Runners |-> NoTx]
  /\ wk = IdleWorker
  /\ parts = {}
  /\ final = {}
  /\ held = {}
  /\ misread = {}
  /\ proc = "up"
  /\ stops = 0

\* A runner goroutine, or the monitorProgress it has left behind, that still
\* has a context under which it may write.
LiveRunner(r) == run[r].pc # "free" /\ run[r].live

\* The context of RunForeground, which the worker and pauseRunningDownloads use.
ServerCtxLive == proc = "up"

\* The HTTP server takes requests until Shutdown is called.
Accepting == proc \in {"up", "stopping"}

----------------------------------------------------------------------------
(* The control operations of DownloadServiceImpl.                          *)

Enqueue(d, q) ==
  /\ Accepting
  /\ d \notin used /\ \A e \in used : e < d
  /\ used' = used \cup {d}
  /\ repo' = [repo EXCEPT ![d] = [status |-> "queued", queue |-> q, kept |-> TRUE]]
  /\ stale' = stale \ {d}
  /\ UNCHANGED <<qpaused, cancels, callVars, runVars, monVars, wk, fileVars,
                 held, misread, procVars>>

FirstStep(op) ==
  CASE op = "start" -> "check"
    [] op \in {"pause", "cancel"} -> "cancel"
    [] op \in {"resume", "assign", "remove"} -> "update"

\* A request arrives for a download that has been created.
Call(p, op, d) ==
  /\ Accepting
  /\ call[p] = NoCall
  /\ d \in used
  /\ call' = [call EXCEPT ![p] = [op |-> op, pc |-> FirstStep(op), dl |-> d]]
  /\ UNCHANGED <<storeVars, used, qpaused, cancels, callTx, runVars, monVars,
                 wk, fileVars, held, misread, procVars>>

\* Start returns at once when cancels has an entry for the download.
CheckDuplicate(p) ==
  /\ call[p].pc = "check"
  /\ call' = IF cancels[call[p].dl] # NoRunner
             THEN [call EXCEPT ![p] = NoCall]
             ELSE [call EXCEPT ![p].pc = "update"]
  /\ UNCHANGED <<storeVars, used, qpaused, cancels, callTx, runVars, monVars,
                 wk, fileVars, held, misread, procVars>>

\* Pause and Cancel cancel the context of the registered runner, if any.
CancelRunner(p) ==
  LET d == call[p].dl IN
  /\ call[p].pc = "cancel"
  /\ run' = [r \in Runners |-> IF cancels[d] = r THEN [run[r] EXCEPT !.live = FALSE]
                               ELSE run[r]]
  /\ cancels' = [cancels EXCEPT ![d] = NoRunner]
  /\ call' = [call EXCEPT ![p].pc = "update"]
  /\ UNCHANGED <<storeVars, used, qpaused, callTx, runTx, monVars, wk,
                 fileVars, held, misread, procVars>>

NewStatus(op) ==
  CASE op \in {"start", "resume"} -> "running"
    [] op = "pause" -> "paused"
    [] op = "cancel" -> "cancelled"

\* The records the transaction of operation op may write over record c.
\* AssignQueue does not ask whether there is a queue of that name.  The other
\* operations that read and rewrite the record in one transaction
\* (UpdateConfig, UpdateRequest, SetPriority, AddTags, RemoveTags) change no
\* modelled field: assign with the queue the record already has stands for them.
Written(op, c) ==
  CASE op \in {"start", "resume", "pause", "cancel"} -> {[c EXCEPT !.status = NewStatus(op)]}
    [] op = "assign" -> {[c EXCEPT !.queue = q] : q \in QueueNames \cup {c.queue}}
    [] op = "remove" -> {NoRecord}

\* The context an operation runs under: the request's, which is done when the
\* client has gone (so either value is possible), or the server's.
CallCtx(p) == IF p = Worker THEN {ServerCtxLive} ELSE BOOLEAN

\* RunInTx reads the record and computes the new one, or the operation fails:
\* the context is done, or there is no record.
UpdateBegin(p) ==
  /\ call[p].pc = "update"
  /\ \E live \in CallCtx(p) :
       IF CanUpdate(live, call[p].dl)
       THEN /\ \E v \in Written(call[p].op, repo[call[p].dl]) :
                 callTx' = [callTx EXCEPT ![p] = OpenTx(call[p].dl, v)]
            /\ call' = [call EXCEPT ![p].pc = "commit"]
       ELSE call' = [call EXCEPT ![p] = NoCall] /\ UNCHANGED callTx
  /\ UNCHANGED <<storeVars, used, qpaused, cancels, runVars, monVars, wk,
                 fileVars, held, misread, procVars>>

\* Where an operation goes on after its transaction has committed.
AfterCommit(c) ==
  CASE c.op \in {"start", "resume"} -> [c EXCEPT !.pc = "register"]
    [] c.op = "remove" -> [c EXCEPT !.pc = "files"]
    [] OTHER -> NoCall

\* Pause and Cancel have taken hold of d: no runner may write it any more.
TakesHold(p) ==
  /\ call[p].op \in {"pause", "cancel"}
  /\ callTx[p].st = "clean"
  /\ \A r \in Runners : LiveRunner(r) => run[r].dl # call[p].dl

UpdateCommit(p) ==
  LET t == callTx[p] IN
  /\ call[p].pc = "commit"
  /\ Commit(t)
  /\ callTx' = [Doom(callTx, t) EXCEPT ![p] = NoTx]
  /\ runTx' = Doom(runTx, t)
  /\ monTx' = Doom(monTx, t)
  /\ call' = [call EXCEPT ![p] = IF t.st = "clean" THEN AfterCommit(@) ELSE NoCall]
  /\ held' = IF TakesHold(p) THEN held \cup {call[p].dl} ELSE held
  /\ UNCHANGED <<used, qpaused, cancels, run, pending, wk, fileVars, misread, procVars>>

\* Start and Resume register the cancel function of a new runner, in place of
\* any entry that is already there, and spawn it.
Register(p) ==
  LET d == call[p].dl IN
  /\ call[p].pc = "register"
  /\ \E r \in Runners :
       /\ run[r].pc = "free"
       /\ run' = [run EXCEPT ![r] = [pc |-> "load", dl |-> d, live |-> TRUE,
                                     mem |-> NoRecord]]
       /\ cancels' = [cancels EXCEPT ![d] = r]
  /\ held' = held \ {d}
  /\ call' = [call EXCEPT ![p] = NoCall]
  /\ UNCHANGED <<storeVars, used, qpaused, callTx, runTx, monVars, wk,
                 fileVars, misread, procVars>>

\* Remove deletes the files once the record is gone.
RemoveFiles(p) ==
  /\ call[p].pc = "files"
  /\ parts' = parts \ {call[p].dl}
  /\ final' = final \ {call[p].dl}
  /\ call' = [call EXCEPT ![p] = NoCall]
  /\ UNCHANGED <<storeVars, used, qpaused, cancels, callTx, runVars, monVars,
                 wk, held, misread, procVars>>

PauseQueue(q) ==
  /\ Accepting
  /\ qpaused' = IF q \in qpaused THEN qpaused \ {q} ELSE qpaused \cup {q}
  /\ UNCHANGED <<storeVars, used, cancels, callVars, runVars, monVars, wk,
                 fileVars, held, misread, procVars>>

----------------------------------------------------------------------------
(* DownloadRunner.                                                         *)

\* The record Run makes up when it cannot load its download.
BlankRecord == [status |-> "failed", queue |-> NoQueue, kept |-> FALSE]

Goto(r, pc) == run' = [run EXCEPT ![r].pc = pc]

\* fail marks the runner's copy; the write of the copy is a later step.
GotoFail(r) ==
  run' = [run EXCEPT ![r].pc = "fail", ![r].mem.status = "failed"]

\* Slip: UpdateDownload creates the record when there is none.
WriteBeginUpserts(r, atTx, refused) ==
  /\ IF run[r].live
     THEN /\ runTx' = [runTx EXCEPT ![r] = OpenTx(run[r].dl, run[r].mem)]
          /\ atTx
     ELSE UNCHANGED runTx /\ refused
  /\ UNCHANGED <<storeVars, used, qpaused, cancels, callVars, monVars, wk,
                 fileVars, held, misread, procVars>>

\* Slip: the runner writes under context.Background(), so as to always store
\* how the download has ended.
WriteBeginDetached(r, atTx, refused) ==
  /\ IF Present(run[r].dl)
     THEN /\ runTx' = [runTx EXCEPT ![r] = OpenTx(run[r].dl, run[r].mem)]
          /\ atTx
     ELSE UNCHANGED runTx /\ refused
  /\ UNCHANGED <<storeVars, used, qpaused, cancels, callVars, monVars, wk,
                 fileVars, held, misread, procVars>>

\* A runner's UpdateDownload(ctx, d): the runner opens a transaction that
\* writes its whole copy, or goes on without one.
WriteBegin(r, atTx, refused) ==
  /\ IF CanUpdate(run[r].live, run[r].dl)
     THEN /\ runTx' = [runTx EXCEPT ![r] = OpenTx(run[r].dl, run[r].mem)]
          /\ atTx
     ELSE UNCHANGED runTx /\ refused
  /\ UNCHANGED <<storeVars, used, qpaused, cancels, callVars, monVars, wk,
                 fileVars, held, misread, procVars>>

WriteCommit(r) ==
  /\ Commit(runTx[r])
  /\ runTx' = [Doom(runTx, runTx[r]) EXCEPT ![r] = NoTx]
  /\ callTx' = Doom(callTx, runTx[r])
  /\ monTx' = Doom(monTx, runTx[r])
  /\ UNCHANGED <<used, qpaused, cancels, call, pending, wk, fileVars, held,
                 misread, procVars>>

\* GetDownload finds the record, or fails: the context is done, the record is
\* gone, or the store cannot read it at this moment.
RunLoad(r) ==
  LET d == run[r].dl
      readable == CanUpdate(run[r].live, d) IN
  /\ run[r].pc = "load"
  /\ \/ /\ readable
        /\ run' = [run EXCEPT ![r].pc = "prepare", ![r].mem = repo[d]]
        /\ UNCHANGED misread
     \/ /\ readable => d \in FlakyDownloads
        /\ run' = [run EXCEPT ![r].pc = "fail", ![r].mem = BlankRecord]
        /\ misread' = IF readable THEN misread \cup {d} ELSE misread
  /\ UNCHANGED <<storeVars, used, qpaused, cancels, callVars, runTx, monVars,
                 wk, fileVars, held, procVars>>

\* FileStore.Prepare, Transport.Head or the content type check fails.
PrepareError(r) ==
  /\ run[r].pc = "prepare"
  /\ GotoFail(r)
  /\ UNCHANGED <<storeVars, used, qpaused, cancels, callVars, runTx, monVars,
                 wk, fileVars, held, misread, procVars>>

\* They succeed (Prepare needs the file options of the record, Head a live
\* context); store the metadata.
PrepareBegin(r) ==
  /\ run[r].pc = "prepare"
  /\ run[r].live /\ run[r].mem.kept
  /\ WriteBegin(r, Goto(r, "prepareTx"), GotoFail(r))

\* The one UpdateDownload of the runner whose error is not ignored.
PrepareCommit(r) ==
  /\ run[r].pc = "prepareTx"
  /\ WriteCommit(r)
  /\ IF runTx[r].st = "clean" THEN Goto(r, "open") ELSE GotoFail(r)

\* A segment goroutine opens its part file (OpenSegmentWriter creates the
\* directory and the file) to see how much of it is there ...
OpenSegment(r) ==
  /\ run[r].pc = "open"
  /\ parts' = parts \cup {run[r].dl}
  /\ Goto(r, "transfer")
  /\ UNCHANGED <<storeVars, used, qpaused, cancels, callVars, runTx, monVars,
                 wk, final, held, misread, procVars>>

\* ... and again for every attempt, even if the files were removed meanwhile.
ReopenSegment(r) ==
  /\ run[r].pc = "transfer"
  /\ run[r].dl \notin parts
  /\ parts' = parts \cup {run[r].dl}
  /\ UNCHANGED <<storeVars, used, qpaused, cancels, callVars, runVars, monVars,
                 wk, final, held, misread, procVars>>

\* A segment reports its bytes and upserts its row, which conflicts with a
\* delete of the download that has already read a row under the same key.  An
\* attempt that fails stores the copy through UpdateDownload in the same way
\* as monitorProgress does, and is counted here too.
Report(r) ==
  /\ run[r].pc = "transfer"
  /\ pending[r] < MaxPending
  /\ pending' = [pending EXCEPT ![r] = @ + 1]
  /\ callTx' \in {callTx,
                  [p \in Procs |->
                     IF /\ callTx[p].st = "clean" /\ callTx[p].val = NoRecord
                        /\ callTx[p].dl = run[r].dl
                     THEN [callTx[p] EXCEPT !.st = "doomed"] ELSE callTx[p]]}
  /\ UNCHANGED <<storeVars, used, qpaused, cancels, call, runVars, monTx, wk,
                 fileVars, held, misread, procVars>>

\* All segment goroutines have returned without an error ...
TransferDone(r) ==
  /\ run[r].pc = "transfer"
  /\ Goto(r, "finalize")
  /\ UNCHANGED <<storeVars, used, qpaused, cancels, callVars, runTx, monVars,
                 wk, fileVars, held, misread, procVars>>

\* ... or one of them has failed, or has seen the context done.
TransferError(r) ==
  /\ run[r].pc \in {"open", "transfer"}
  /\ GotoFail(r)
  /\ UNCHANGED <<storeVars, used, qpaused, cancels, callVars, runTx, monVars,
                 wk, fileVars, held, misread, procVars>>

\* finalizeDownload stores the copy; an error of that write is ignored.
FinalizeBegin(r) ==
  /\ run[r].pc = "finalize"
  /\ WriteBegin(r, Goto(r, "finalizeTx"), Goto(r, "merge"))

FinalizeCommit(r) ==
  /\ run[r].pc = "finalizeTx"
  /\ WriteCommit(r)
  /\ Goto(r, "merge")

\* MergeSegments looks at neither the context nor the store.  It needs part
\* files; afterwards the checksum is right and the copy is marked completed,
\* or it is wrong and the merged file stays.
Merge(r) ==
  /\ run[r].pc = "merge"
  /\ run[r].dl \in parts
  /\ final' = final \cup {run[r].dl}
  /\ parts' = parts \ {run[r].dl}
  /\ \/ run' = [run EXCEPT ![r].pc = "complete", ![r].mem.status = "completed"]
     \/ GotoFail(r)
  /\ UNCHANGED <<storeVars, used, qpaused, cancels, callVars, runTx, monVars,
                 wk, held, misread, procVars>>

\* Slip: the error of MergeSegments is ignored like those of the writes.
MergeErrorIgnored(r) ==
  /\ run[r].pc = "merge"
  /\ run' = [run EXCEPT ![r].pc = "complete", ![r].mem.status = "completed"]
  /\ UNCHANGED <<storeVars, used, qpaused, cancels, callVars, runTx, monVars,
                 wk, fileVars, held, misread, procVars>>

\* No parts, an I/O error, or the target exists and may not be overwritten.
MergeError(r) ==
  /\ run[r].pc = "merge"
  /\ GotoFail(r)
  /\ UNCHANGED <<storeVars, used, qpaused, cancels, callVars, runTx, monVars,
                 wk, fileVars, held, misread, procVars>>

\* The last write, of status completed or failed; its error is ignored.
OutcomeBegin(r) ==
  /\ run[r].pc \in {"complete", "fail"}
  /\ WriteBegin(r, Goto(r, "outcomeTx"), Goto(r, "exit"))

OutcomeCommit(r) ==
  /\ run[r].pc = "outcomeTx"
  /\ WriteCommit(r)
  /\ Goto(r, "exit")

\* Slip: the goroutine leaves its entry behind.
ExitKeepsEntry(r) ==
  /\ run[r].pc = "exit"
  /\ Goto(r, "drain")
  /\ UNCHANGED <<storeVars, used, qpaused, cancels, callVars, runTx, monVars, wk,
                 fileVars, held, misread, procVars>>

\* Run has returned; its goroutine deletes the entry of its download, which
\* may by now be the entry of another runner.
Exit(r) ==
  /\ run[r].pc = "exit"
  /\ cancels' = [cancels EXCEPT ![run[r].dl] = NoRunner]
  /\ Goto(r, "drain")
  /\ UNCHANGED <<storeVars, used, qpaused, callVars, runTx, monVars, wk,
                 fileVars, held, misread, procVars>>

\* Nobody waits for monitorProgress, which goes on with the same context and
\* the same copy until the channel is drained; then the name is free.
Drained(r) ==
  /\ run[r].pc = "drain"
  /\ pending[r] = 0
  /\ monTx[r] = NoTx
  /\ run' = [run EXCEPT ![r] = FreeRunner]
  /\ UNCHANGED <<storeVars, used, qpaused, cancels, callVars, runTx, monVars,
                 wk, fileVars, held, misread, procVars>>

MonitorBegin(r) ==
  /\ pending[r] > 0
  /\ monTx[r] = NoTx
  /\ IF CanUpdate(run[r].live, run[r].dl)
     THEN monTx' = [monTx EXCEPT ![r] = OpenTx(run[r].dl, run[r].mem)] /\ UNCHANGED pending
     ELSE pending' = [pending EXCEPT ![r] = @ - 1] /\ UNCHANGED monTx
  /\ UNCHANGED <<storeVars, used, qpaused, cancels, callVars, runVars, wk,
                 fileVars, held, misread, procVars>>

MonitorCommit(r) ==
  /\ monTx[r] # NoTx
  /\ Commit(monTx[r])
  /\ monTx' = [Doom(monTx, monTx[r]) EXCEPT ![r] = NoTx]
  /\ callTx' = Doom(callTx, monTx[r])
  /\ runTx' = Doom(runTx, monTx[r])
  /\ pending' = [pending EXCEPT ![r] = @ - 1]
  /\ UNCHANGED <<used, qpaused, cancels, call, run, wk, fileVars, held, misread, procVars>>

----------------------------------------------------------------------------
(* WorkerManager.tick.                                                     *)

\* The stale timeout passes since the last write of the record.
Age(d) ==
  /\ Present(d)
  /\ d \notin stale
  /\ stale' = stale \cup {d}
  /\ UNCHANGED <<repo, used, qpaused, cancels, callVars, runVars, monVars, wk,
                 fileVars, held, misread, procVars>>

WithStatus(s) == {d \in Downloads : Present(d) /\ repo[d].status = s}

InQueue(q) == {d \in Downloads : Present(d) /\ repo[d].queue = q}

\* Slip: the tick does not look for stale running downloads.
TickWithoutRecovery ==
  /\ wk.pc = "idle"
  /\ ServerCtxLive
  /\ wk' = [wk EXCEPT !.pc = "requeue", !.queues = Queues \ qpaused]
  /\ UNCHANGED <<storeVars, used, qpaused, cancels, callVars, runVars, monVars,
                 fileVars, held, misread, procVars>>

\* ListQueues, then the list of stale running downloads, as copies.
Tick ==
  /\ wk.pc = "idle"
  /\ ServerCtxLive
  /\ wk' = [wk EXCEPT !.pc = "requeue",
                      !.queues = Queues \ qpaused,
                      !.stale = {<<d, repo[d]>> : d \in WithStatus("running") \cap stale}]
  /\ UNCHANGED <<storeVars, used, qpaused, cancels, callVars, runVars, monVars,
                 fileVars, held, misread, procVars>>

\* Slip: pending instead of queued, a status the scheduler does not look for.
RequeueBeginPending ==
  /\ wk.pc = "requeue"
  /\ call[Worker] = NoCall
  /\ \E c \in wk.stale :
       /\ wk' = [wk EXCEPT !.stale = @ \ {c}]
       /\ CanUpdate(ServerCtxLive, c[1])
       /\ callTx' = [callTx EXCEPT ![Worker] =
                       OpenTx(c[1], [c[2] EXCEPT !.status = "pending"])]
       /\ call' = [call EXCEPT ![Worker] =
                     [op |-> "requeue", pc |-> "commit", dl |-> c[1]]]
  /\ UNCHANGED <<storeVars, used, qpaused, cancels, runVars, monVars, fileVars,
                 held, misread, procVars>>

\* UpdateDownload of the copy with status queued.
RequeueBegin ==
  /\ wk.pc = "requeue"
  /\ call[Worker] = NoCall
  /\ \E c \in wk.stale :
       /\ wk' = [wk EXCEPT !.stale = @ \ {c}]
       /\ IF CanUpdate(ServerCtxLive, c[1])
          THEN /\ callTx' = [callTx EXCEPT ![Worker] =
                               OpenTx(c[1], [c[2] EXCEPT !.status = "queued"])]
               /\ call' = [call EXCEPT ![Worker] =
                             [op |-> "requeue", pc |-> "commit", dl |-> c[1]]]
          ELSE UNCHANGED callVars
  /\ UNCHANGED <<storeVars, used, qpaused, cancels, runVars, monVars, fileVars,
                 held, misread, procVars>>

\* Slip: no default for a queue whose concurrency is not set.
EffectiveUnset(q) == Concurrency[q]

Effective(q) == IF Concurrency[q] <= 0 THEN 1 ELSE Concurrency[q]

\* CountDownloads of the running downloads of the next queue that is not
\* paused.  An error (the context is done) is ignored: the count is then 0.
CountRunning ==
  /\ \/ wk.pc = "requeue" /\ wk.stale = {}
     \/ wk.pc = "start" /\ wk.list = {}
  /\ call[Worker] = NoCall
  /\ \E q \in wk.queues :
       LET running == IF ServerCtxLive
                      THEN Cardinality(WithStatus("running") \cap InQueue(q)) ELSE 0
           room == Effective(q) - running IN
       wk' = [wk EXCEPT !.pc = IF room > 0 THEN "list" ELSE "start",
                        !.queues = @ \ {q},
                        !.queue = IF room > 0 THEN q ELSE NoQueue,
                        !.room = IF room > 0 THEN room ELSE 0]
  /\ UNCHANGED <<storeVars, used, qpaused, cancels, callVars, runVars, monVars,
                 fileVars, held, misread, procVars>>

\* ListDownloads of at most room queued downloads, the newest ones: the scan
\* runs down the creation times and stops at the limit; only what it has found
\* is sorted by priority.  With an error nothing is started.
ListQueued ==
  /\ wk.pc = "list"
  /\ LET queued == WithStatus("queued") \cap InQueue(wk.queue)
         lists == {l \in SUBSET queued :
                     /\ \/ l = queued /\ Cardinality(l) <= wk.room
                        \/ Cardinality(l) = wk.room
                     /\ \A d \in l, e \in queued \ l : e < d} IN
     \E l \in (IF ServerCtxLive THEN lists ELSE {{}}) :
       wk' = [wk EXCEPT !.pc = "start", !.list = l, !.queue = NoQueue, !.room = 0]
  /\ UNCHANGED <<storeVars, used, qpaused, cancels, callVars, runVars, monVars,
                 fileVars, held, misread, procVars>>

\* The worker calls Start for the listed downloads one after the other, in
\* the order of their priorities.
StartListed ==
  /\ wk.pc = "start"
  /\ call[Worker] = NoCall
  /\ \E d \in wk.list :
       /\ wk' = [wk EXCEPT !.list = @ \ {d}]
       /\ call' = [call EXCEPT ![Worker] = [op |-> "start", pc |-> "check", dl |-> d]]
  /\ UNCHANGED <<storeVars, used, qpaused, cancels, callTx, runVars, monVars,
                 fileVars, held, misread, procVars>>

TickDone ==
  /\ \/ wk.pc = "requeue" /\ wk.stale = {}
     \/ wk.pc = "start" /\ wk.list = {}
  /\ call[Worker] = NoCall
  /\ wk.queues = {}
  /\ wk' = IdleWorker
  /\ UNCHANGED <<storeVars, used, qpaused, cancels, callVars, runVars, monVars,
                 fileVars, held, misread, procVars>>

----------------------------------------------------------------------------
(* The process.                                                            *)

\* SIGINT or SIGTERM cancels the context RunForeground waits on.
Signal ==
  /\ proc = "up"
  /\ stops < MaxStops
  /\ proc' = "stopping"
  /\ UNCHANGED <<storeVars, used, qpaused, cancels, callVars, runVars, monVars,
                 wk, fileVars, held, misread, stops>>

\* pauseRunningDownloads lists and updates the running downloads under the
\* context RunForeground has been waiting on; then Shutdown is called.
PauseRunningDownloads ==
  /\ proc = "stopping"
  /\ LET listed == {d \in WithStatus("running") : ServerCtxLive} IN
     /\ repo' = [d \in Downloads |-> IF d \in listed
                                     THEN [repo[d] EXCEPT !.status = "paused"] ELSE repo[d]]
     /\ stale' = stale \ listed
  /\ proc' = "draining"
  /\ UNCHANGED <<used, qpaused, cancels, callVars, runVars, monVars, wk,
                 fileVars, held, misread, stops>>

\* The process ends: after Shutdown (which waits for the open requests for at
\* most GracefulSecs) or in a crash.  Goroutines and transactions are gone.
ProcessEnds ==
  /\ proc' = "down"
  /\ stops' = stops + 1
  /\ cancels' = [d \in Downloads |-> NoRunner]
  /\ call' = [p \in Procs |-> NoCall]
  /\ callTx' = [p \in Procs |-> NoTx]
  /\ run' = [r \in Runners |-> FreeRunner]
  /\ runTx' = [r \in Runners |-> NoTx]
  /\ pending' = [r \in Runners |-> 0]
  /\ monTx' = [r \in Runners |-> NoTx]
  /\ wk' = IdleWorker
  /\ UNCHANGED <<storeVars, used, qpaused, fileVars, held, misread>>

Shutdown == proc = "draining" /\ ProcessEnds

Crash == proc \in {"up", "stopping"} /\ stops < MaxStops /\ ProcessEnds

Restart ==
  /\ proc = "down"
  /\ proc' = "up"
  /\ UNCHANGED <<storeVars, used, qpaused, cancels, callVars, runVars, monVars,
                 wk, fileVars, held, misread, stops>>

----------------------------------------------------------------------------
CallStep(p) ==
  \/ CheckDuplicate(p) \/ CancelRunner(p) \/ UpdateBegin(p)
  \/ UpdateCommit(p) \/ Register(p) \/ RemoveFiles(p)

\* The steps that take a runner towards its end.
RunStep(r) ==
  \/ RunLoad(r) \/ PrepareError(r) \/ PrepareBegin(r) \/ PrepareCommit(r)
  \/ OpenSegment(r) \/ TransferDone(r) \/ TransferError(r)
  \/ FinalizeBegin(r) \/ FinalizeCommit(r) \/ Merge(r) \/ MergeError(r)
  \/ OutcomeBegin(r) \/ OutcomeCommit(r) \/ Exit(r) \/ Drained(r)

\* The steps of its segments, of which there may be any number.
SegmentStep(r) == ReopenSegment(r) \/ Report(r)

MonitorStep(r) == MonitorBegin(r) \/ MonitorCommit(r)

WorkerStep ==
  Tick \/ RequeueBegin \/ CountRunning \/ ListQueued \/ StartListed \/ TickDone

ProcessStep == PauseRunningDownloads \/ Shutdown \/ Restart

Next ==
  \/ \E d \in Downloads, q \in QueueNames : Enqueue(d, q)
  \/ \E p \in Callers, op \in Ops, d \in Downloads : Call(p, op, d)
  \/ \E p \in Procs : CallStep(p)
  \/ \E q \in PausableQueues : PauseQueue(q)
  \/ \E r \in Runners : RunStep(r) \/ SegmentStep(r) \/ MonitorStep(r)
  \/ \E d \in SlowDownloads : Age(d)
  \/ WorkerStep
  \/ Signal \/ Crash \/ ProcessStep

Spec == Init /\ [][Next]_vars

\* Goroutines are scheduled, requests that were begun go on, transfers end
\* (the HTTP client and the retries are bounded), time passes, and a process
\* that is down is started again.  Requests, signals and crashes need not come.
Fairness ==
  /\ \A p \in Procs : WF_vars(CallStep(p))
  /\ \A r \in Runners : WF_vars(RunStep(r)) /\ WF_vars(MonitorStep(r))
  /\ \A d \in SlowDownloads : WF_vars(Age(d))
  /\ WF_vars(WorkerStep)
  /\ WF_vars(ProcessStep)

FairSpec == Spec /\ Fairness

----------------------------------------------------------------------------
(* What the lifecycle promises.                                            *)

CallPC == {"idle", "check", "cancel", "update", "commit", "register", "files"}
RunPC == {"free", "load", "prepare", "prepareTx", "open", "transfer", "finalize",
          "finalizeTx", "merge", "complete", "fail", "outcomeTx", "exit", "drain"}

CallRec == [op : AllOps \cup {"none", "requeue"}, pc : CallPC,
            dl : Downloads \cup {NoDownload}]
RunRec == [pc : RunPC, dl : Downloads \cup {NoDownload}, live : BOOLEAN,
           mem : Record \cup {NoRecord}]
WorkerRec == [pc : {"idle", "requeue", "list", "start"}, queues : SUBSET Queues,
              stale : SUBSET (Downloads \X Record),
              queue : Queues \cup {NoQueue}, room : Nat, list : SUBSET Downloads]

\* Type invariant: every variable keeps the shape the Go types give it.
TypeOK ==
  /\ repo \in [Downloads -> Record \cup {NoRecord}]
  /\ stale \in SUBSET Downloads
  /\ used \in SUBSET Downloads
  /\ qpaused \in SUBSET Queues
  /\ cancels \in [Downloads -> Runners \cup {NoRunner}]
  /\ call \in [Procs -> CallRec]
  /\ callTx \in [Procs -> Tx]
  /\ run \in [Runners -> RunRec]
  /\ runTx \in [Runners -> Tx]
  /\ pending \in [Runners -> 0..MaxPending]
  /\ monTx \in [Runners -> Tx]
  /\ wk \in WorkerRec
  /\ parts \in SUBSET Downloads
  /\ final \in SUBSET Downloads
  /\ held \in SUBSET Downloads
  /\ misread \in SUBSET FlakyDownloads
  /\ proc \in {"up", "stopping", "draining", "down"}
  /\ stops \in Nat

\* An entry of DownloadServiceImpl.cancels always reaches a runner of that
\* very download that has neither been cancelled nor finished, so Pause and
\* Cancel never call the cancel function of a dead or a foreign runner, and
\* Start never declines on account of one.
TrackedRunnerLive ==
  \A d \in Downloads, r \in Runners :
    cancels[d] = r => /\ run[r].dl = d
                      /\ run[r].live
                      /\ run[r].pc \notin {"free", "drain"}

\* The record that Run makes up when it cannot load its download, without
\* queue, URL or options, replaces a stored record only where the store failed
\* to read a record that was there: not after a cancellation or a removal, nor
\* after an earlier runner's failure, whatever is written in between.
NoBlankRecord == \A d \in Downloads \ misread : Present(d) => repo[d].kept

\* A download is stored as completed only while its merged file exists,
\* whatever runners, monitors and Remove calls are still under way.
CompletedHasFile ==
  \A d \in Downloads : Present(d) /\ repo[d].status = "completed" => d \in final

\* Once Pause or Cancel has been stored while no runner of the download was
\* live, no late write of a cancelled runner or of its monitorProgress turns
\* it into completed or failed before a new runner is spawned.
HeldNotFinished ==
  \A d \in held : Present(d) => repo[d].status \notin {"completed", "failed"}

\* A record that Remove has deleted is never written again, by any of the
\* writers that still have a copy of it (runners, monitors, the worker).
RemovedStaysRemoved ==
  [][\A d \in used : repo[d] = NoRecord => repo'[d] = NoRecord]_vars

\* A download does not stay running for ever: its runner ends, or, when the
\* runner is lost in a crash, cancelled without the status being stored, or
\* its last write is refused, the worker requeues it.
RunningEnds ==
  \A d \in Downloads : []<>~(Present(d) /\ repo[d].status = "running")

Waiting(d) ==
  Present(d) /\ repo[d].status = "queued" /\ repo[d].queue \in Queues \ qpaused

\* e is newer than d and has, or waits for, a place in the same queue.
Ahead(e, d) ==
  /\ e > d /\ Present(e) /\ Present(d)
  /\ repo[e].queue = repo[d].queue /\ repo[e].status \in {"queued", "running"}

\* A download waits for ever in a queue that is not paused only behind newer
\* downloads of that queue, which the scheduler prefers, or when clients go on
\* starting others there: no crash, lost runner, requeue or unset concurrency
\* blocks the queue, and the newest download of a queue is always started.
OnlyNewerHoldUp ==
  \A d \in Downloads :
    <>[]Waiting(d) =>
      \/ []<>(\E e \in Downloads : Ahead(e, d))
      \/ []<>(\E p \in Callers : call[p].op \in {"start", "resume"})

----------------------------------------------------------------------------
(* The inductive invariant behind these properties, in named parts.        *)

Finished == {"completed", "failed"}

\* Calls and runners work on downloads that were created, an operation that
\* is about to open its transaction is one of the API's, and a runner that
\* has loaded its download has a copy, which its reports are written from.
Shape ==
  /\ \A d \in Downloads : Present(d) => d \in used
  /\ \A p \in Procs : /\ call[p].pc = "idle" => call[p] = NoCall
                      /\ call[p].pc # "idle" => call[p].dl \in used
                      /\ call[p].pc \in {"check", "cancel", "update"} => call[p].op \in AllOps
  /\ \A r \in Runners : /\ run[r].pc # "free" => run[r].dl \in used
                        /\ run[r].pc \notin {"free", "load"} => run[r].mem \in Record
                        /\ pending[r] > 0 => run[r].pc \notin {"free", "load"}
                        /\ monTx[r] # NoTx => pending[r] > 0
  /\ wk.list \subseteq used

\* A transaction that can still commit belongs to the download its owner
\* works on, and that download has a record.
TxOf(t, d) == t.st # "none" => t.dl = d
CleanPresent(t) == t.st = "clean" => t.dl \in Downloads /\ Present(t.dl)

TxPC == {"prepareTx", "finalizeTx", "outcomeTx"}

TxShape ==
  /\ \A p \in Procs : /\ callTx[p].st # "none" => call[p].pc = "commit"
                      /\ TxOf(callTx[p], call[p].dl)
                      /\ CleanPresent(callTx[p])
  /\ \A r \in Runners : /\ TxOf(runTx[r], run[r].dl) /\ TxOf(monTx[r], run[r].dl)
                        /\ runTx[r].st # "none" => run[r].pc \in TxPC
                        /\ CleanPresent(runTx[r]) /\ CleanPresent(monTx[r])

\* A made-up record of a download that was not misread is only in the hands
\* of a runner that cannot write it, because its context is done or because
\* the record is gone.
NotBlank(d, v) == v # NoRecord => v.kept \/ d \in misread

BlankInv ==
  /\ \A d \in Downloads : NotBlank(d, repo[d])
  /\ \A c \in wk.stale : NotBlank(c[1], c[2])
  /\ \A p \in Procs : callTx[p].st = "clean" => NotBlank(callTx[p].dl, callTx[p].val)
  /\ \A r \in Runners :
       /\ runTx[r].st = "clean" => NotBlank(runTx[r].dl, runTx[r].val)
       /\ monTx[r].st = "clean" => NotBlank(monTx[r].dl, monTx[r].val)
       /\ run[r].pc # "free" /\ run[r].live /\ Present(run[r].dl)
            => NotBlank(run[r].dl, run[r].mem)

\* A transaction that can still commit writes what its operation is for.
OpValues ==
  \A p \in Procs : callTx[p].st = "clean" =>
    /\ call[p].op \in {"pause", "cancel"}
         => callTx[p].val # NoRecord /\ callTx[p].val.status \in {"paused", "cancelled"}
    /\ call[p].op = "remove" => callTx[p].val = NoRecord

\* Nothing that can still be written to a held download is completed or
\* failed, and nobody who would write that has a live context.
HeldSafe(d) ==
  /\ Present(d) => repo[d].status \notin Finished
  /\ \A p \in Procs : callTx[p].st = "clean" /\ callTx[p].dl = d
                       => callTx[p].val = NoRecord \/ callTx[p].val.status \notin Finished
  /\ \A r \in Runners :
       /\ LiveRunner(r) => run[r].dl # d
       /\ runTx[r].st = "clean" => runTx[r].dl # d
       /\ monTx[r].st = "clean" => monTx[r].dl # d

HeldInv == \A d \in held : HeldSafe(d)

\* Whoever may still write completed works on a download whose merged file
\* exists, and files are deleted only when the record is gone.
CompletedValue(v) == v # NoRecord /\ v.status = "completed"

FileInv ==
  /\ \A d \in Downloads : CompletedValue(repo[d]) => d \in final
  /\ \A p \in Procs :
       /\ callTx[p].st = "clean" /\ CompletedValue(callTx[p].val) => callTx[p].dl \in final
       /\ call[p].pc = "files" => ~Present(call[p].dl)
  /\ \A r \in Runners :
       /\ runTx[r].st = "clean" /\ CompletedValue(runTx[r].val) => runTx[r].dl \in final
       /\ monTx[r].st = "clean" /\ CompletedValue(monTx[r].val) => monTx[r].dl \in final
       /\ run[r].pc # "free" /\ Present(run[r].dl) /\ CompletedValue(run[r].mem)
            => run[r].dl \in final

----------------------------------------------------------------------------
(* What the documentation says and the code does not keep.                 *)

Active(r) == run[r].pc \notin {"free", "exit", "drain"} /\ run[r].live

\* Start says it prevents duplicate starts: two runners that may both write
\* the part files and the record never work on the same download.
OneRunnerPerDownload ==
  \A r1, r2 \in Runners : Active(r1) /\ Active(r2) /\ run[r1].dl = run[r2].dl => r1 = r2
=============================================================================
