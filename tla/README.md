# svc-downloader: TLA+ verification

TLA+ modules, TLC runs and TLAPS proofs for `svc-downloader`, an HTTP service
that downloads files in segments, keeps its records in BadgerDB and schedules
downloads per queue. `PROJECT.json` lists components, runs, mutants, hazards,
findings, theorems and the source lines behind every definition.

## 1. Inventory

| Component | State | Operations | Correct when |
|---|---|---|---|
| Download service (`service/download.go`) | `cancels`: the cancel function of the runner of each download | Enqueue, Start, Pause, Resume, Cancel, Remove, AssignQueue, field updates | entries lead to live runners of that download; a pause or cancel stands; a removed record stays removed |
| Download runner (`service/runner.go`) | a private copy of the record, segment goroutines, `progressCh` | Run: load, prepare, transfer, merge, store the outcome; monitorProgress | a completed download has its file; late writes do no harm; the file is exact |
| Worker manager (`service/workers.go`) | none beyond the tick | recover stale downloads, count, list and start per queue | nothing runs for ever; nothing but newer downloads or a pause keeps a download waiting for ever |
| Planner (`planner/planner.go`) | none | Plan | segments partition the file |
| File store (`filestore/filestore.go`) | part files, temporary and final files | Prepare, OpenSegmentWriter, MergeSegments, RemoveDownloadFiles, VerifyChecksum | part files are prefixes; final files are whole at any moment; names are not taken from others |
| Repository (`repository/repository.go`) | records, creation/status/queue keys, queue rows | transactions, CRUD, lists, counts, bulk operations | records and keys agree; lists find every record once |
| Events (`events/publisher.go`, `api/routes/events.go`) | subscriber lists, buffered channels, one goroutine and pipe per stream | Publish, Subscribe, cancel; GET /events | no send on a closed channel; order; publishers are never held up; ended streams leave |
| Transport (`transport/httpclient.go`) | clients | Head, GetRange over mirrors | - |
| Server (`server/server.go`, `cli/cli.go`) | the context of the process | start, signal, shutdown | what ran before an end of the process runs again |
| Queue service, rate limiter, REST routes, daemon, auth | queue rows, token buckets, PID file | see `PROJECT.json` | - |

How they interact. REST handlers call the download service; it changes the
record in one Badger transaction, registers a cancel function and spawns a
runner goroutine with a context of its own. The runner loads its own copy of
the record and writes *the whole copy* back at several points, most of them
with the error ignored; its segment goroutines write part files, and
`monitorProgress`, for which nobody waits, writes the same copy. The worker
ticks every two seconds, rewrites records listed earlier and calls Start. On
a signal the server's context is cancelled, downloads are to be paused and the
HTTP server is shut down. Service and runner publish events, the service
inside its transactions; a goroutine per stream forwards them.

What is hard: several writers with copies of one record; check and registration
under two separate critical sections; a context that may be done between two
steps of a call; bulk operations made of several transactions that check
nothing; a merge that looks at neither context nor store and shares names with
other merges; a crash at any point; retries that append to a file; a resume
that trusts the length of a part file; subscribers that stop reading.

## 2. Modules

| Module | Models | State |
|---|---|---|
| `DownloadLifecycle` | service, runner, worker, server process and the store's transactions on records | records, cancels, calls, runners, monitors, worker, files, process |
| `Catalog` | abstract: what is promised about records and files | records, files, used identifiers, downloads on hold |
| `LifecycleCatalog` | the refinement mapping between the two | |
| `Planner` | `SimplePlanner.Plan` as operators | none |
| `Transfer` | `downloadSegments`, `downloadSegment`, `MergeSegments`: bytes of one download | plan, part files, segment goroutines, file, progress |
| `Repository` | records and secondary keys, bulk operations, lists, counts, pages | keys, operations in flight |
| `Events` | publisher and event streams | list, channels, lock, calls of Publish, stream goroutines |
| `Merging` | file names: merge, checksum, removal, one system call per step | directory, temporary files, contents, records, runners |
| `MC...` | constants for TLC | |
| `...Proofs` | theorems (`TransferFileProofs` builds on `TransferProofs`) | |

### DownloadLifecycle

A record is its status, its queue and whether it still has the URL and options
it was created with (`kept`); `UpdatedAt` is whether it is older than the stale
timeout (`stale`). Downloads are numbers in the order of their creation. The
queue of a record is any name a client gives (`QueueNames`), for neither Enqueue
nor AssignQueue looks; `NoQueue` stands for those no tick visits, the empty one
and the names of queues that do not exist. Store accesses are two steps, *begin* (the record is
read, the new one computed) and *commit*; committing to a download dooms every
other open transaction that has read it, which is Badger's conflict detection
(external to the repository, modelled from how `RunInTx` and `update` use it).
A transaction needs a live context and an existing record (`CanUpdate`).

* A request (`Callers`) and the worker's Start go through the same steps as the
  code: duplicate check, cancel, transaction, registration, files. The context
  of a request may be done at any time: `CallCtx` is either value.
* `Register` spawns a runner: `load`, `prepare`, `open`, `transfer`,
  `finalize`, `merge`, `complete`/`fail`, `exit`, `drain`. `run[r].mem` is its
  copy, `run[r].live` its context. Each `UpdateDownload` of the runner is a
  begin and a commit whose failure does what the code does: fails the download
  in `prepareDownload`, is ignored elsewhere.
* `RunLoad` is GetDownload at the beginning of Run. It fails for a done context
  or a missing record, and for any other reason the store may have
  (`FlakyDownloads`); Run then makes up a record (`BlankRecord`) and passes it
  to `fail`. After a read that failed although the record was there the write
  of that record succeeds, and the download has lost its queue, URL and
  options: `misread` is the history of these downloads, and NoBlankRecord says
  that the made-up record is stored in no other case.
* `pending`/`monTx` are the reports `monitorProgress` still has to write; it
  may outlive its runner (`drain`).
* `wk` is the tick: queues and stale downloads, with the copies of their
  records that were listed, then count, list and Start per queue. The list is
  taken newest first and cut off at the number of free places
  (`workers.go:99`, `repository.go:247-283`). A done context makes counts 0 and lists empty, as in the code.
* `Signal`, `PauseRunningDownloads`, `Shutdown`, `Crash`, `Restart` are the
  process. `held` is a history variable: downloads paused or cancelled while
  no runner was live and with no runner since.

### Catalog and the refinement

`Catalog` has only records and finished files. Its steps: a fresh identifier is
created; an existing record is written, with what the client asked for unless
the store may fail to read it (`FlakyDownloads`), as completed only beside the
file and not as finished while it is on hold; a hold begins with a stored pause or cancellation and ends only with a new runner; a record is
removed; a file appears; a file goes when its record has gone. `ImplementsCatalog`
maps records to `repo` and files to `final`, and hides everything else.
A removed record cannot come back in `Catalog`, because identifiers are used
once and only existing records are written. The requests are those on single
downloads: the queue-wide bulk operations write without looking, and one that
was overtaken by a Remove does bring the record back (module Repository).

### Transfer

A byte is its offset in the resource, so a part file shows which bytes it holds
and in which order. A segment goroutine probes its part file, requests, copies
byte by byte, checks the length and reports; the answers the server may give
are a constant. `Pause` ends the context, `Crash` stops everything at any
byte, also between the rename and the removal of the part files, and `Resume`
is another call of Run, with the old or (if `MayReplan`) another plan, even
after a merge. One runner at a time: when that fails is the subject of
DownloadLifecycle.

### Repository

`d`, `dca`, `dst`, `dq` are the key ranges of the store. What is one Badger
transaction in the code is one action. A bulk operation has four steps of its
own, as in the code: list (through the key prefix of the queue, which also
covers queues with a longer name), read the old records, remove their keys in a
transaction that reads nothing, write records and keys in a WriteBatch, which
is not checked for conflicts. It may stop between any two. `over` and `loose`
are history: what others wrote meanwhile, and the downloads for which an
operation was stopped after it had removed keys, or wrote over somebody's
update. `Hits`, `Scanned`, `Collect` and `ListDownloads` are the scan with the
in-memory filters, its order, one round of the loop and the paging of
`listDownloadsTxn`.

### Events

`sync.RWMutex` is modelled as Go documents it: a writer that has called Lock
keeps new readers out, waits for the ones inside, and lets the waiting ones in
when it unlocks. `Send` is one turn of the loop in Publish. The stream's
goroutine receives, writes to an unbuffered pipe (it waits until the client has
read or the reader is closed), and looks at its context only between writes.
All streams of the program ask for all eight types, so one list stands for the
lists per type.

### Merging

The final path, the path with `.merge.tmp` and their inodes: an open file stays
the file it was opened on whatever happens to its name, so two merges through
one temporary name are modelled as the operating system performs them. A file
is a sequence of chunks that say which download's part they are and whether it
was fetched rightly. `FetchPart` is the completion of a segment, whose part file
is created if it is not there, or no longer there; `ListParts` takes the part
files there are, all or some, and exactly these are merged, each opened when its
turn comes. Remove reads the record, deletes it, reads the temporary directory,
unlinks what it has found file by file and then the final file, each in a step
of its own and with the runner going on; a crash may come at any step. So a
removed download may leave a file with parts missing, and FinalsWhole allows it
for these only. A part file that was created again after a removal may also lack
bytes of its own, of which Merging says nothing. `clashed` is history: the names
two merges were heading for at once, between choosing a name and the rename.

## 3. Runs

All bounds are constants: `Runners` (goroutines at once), `MaxPending`,
`MaxStops` (ends of the process), `MaxRetries`, `MaxRuns` (calls of Run),
`MaxBulks`, `Buffer` and `MaxEvents`, `AtOnce` (runners at the same time in
Merging), `MaxRemovals` (downloads removed), `MaxCrashes`.

| Run | Expect | Checks | Instance |
|---|---|---|---|
| LifecycleRaces | pass, 4.1 M states | TrackedRunnerLive, CompletedHasFile, HeldNotFinished, ImplementsCatalog | 1 download, 1 client (Resume, Pause, Remove), 2 runners (symmetric), the worker |
| LifecycleOps | pass, 5.3 M states | TypeOK, NoBlankRecord, HeldNotFinished, RemovedStaysRemoved | Cancel, AssignQueue to a queue or to none, Remove; monitor, stale requeue, reads that fail |
| LifecycleLiveness | pass, 629 k states | RunningEnds, OnlyNewerHoldUp | 2 downloads, 1 runner, a queue that may be paused and has no concurrency set, stale requeues, one end of the process |
| TransferResumes | pass, 151 k states | TypeOK, PartsArePrefixes, FileExact, TransferEnds | 5 bytes in segments of 2 and 3, or one stream; refusals and ignored ranges; 3 runs |
| TransferFaults | pass, 2.6 M states | DoneNotShort, ProgressBounded | 3 bytes in 2 segments or one stream; broken and short bodies, wrong ranges; 3 runs |
| RepositoryIndexes | pass, 1.1 M states | TypeOK, IndexAgrees, FoundOnce, PagesTile | 2 downloads, queues `a` and `ab`, 2 statuses, a bulk operation of any kind against all other operations |
| EventStreams | pass, 284 k states | TypeOK, SendsOpen, InOrder, NoLossBelowBuffer, PublishEnds, GoneUnsubscribes | 2 publishers, 2 streams, a buffer of 1, 2 events |
| MergeNames | pass, 1.7 M states | TypeOK, FinalsWhole, CompletedOwnsFile, ForeignKept | 3 downloads (unique, refuse, overwrite) of 2 parts around one name that is taken, 2 runs, at once or not, 1 removal, 1 crash |
| DuplicateStart | violation | OneRunnerPerDownload | a client's Start against the worker's |
| BrokenBody | violation | FileExact | 2 bytes, 1 connection |
| BulkScope | violation | BulkWithinQueue | a bulk operation on `a` beside queue `ab` |
| SameName | violation | EachKeepsItsFile | 2 merges at once for one name |

Why the bounds are enough. The races of the lifecycle are between writers of
one record, so one download with two runners, a client and the worker has every
pair of writers. Downloads interact through the places in their queue, which
is what the two downloads of LifecycleLiveness are for. Its instance leaves out
the clients and the monitor to stay small; with one download instead of two and
Pause requests whose client may vanish TLC finds no error either (579 k states),
nor does it find one in LifecycleOps with one end of the process and no failed
reads or missing queue (2.1 M states). The client
issues any number of requests one after the other, and requests of several
clients overlap with the worker's Start in the same way. Two segments have
every order of completion, pause and crash; the third run is needed to resume
what was resumed. A key depends on one download only, and one bulk operation
against any sequence of single operations has every way of being overtaken;
operations that overlap each other are covered by the proof of IndexAgrees
(with one download and two clients TLC finds no error either, 2.3 M states). A
buffer of 1 is full after one event, and the second event is then lost; a
publisher waits, a writer waits and a stream ends in every order. Three
downloads suffice for one to take the candidate name of another, two parts for
a removal to leave one of them; with three runs and no crash (14.2 M states), or
with two removals (15.1 M states), MergeNames passes as well, but takes longer.

Deadlock is checked in the lifecycle runs. In the others it is not: a download
that is merged or has failed after the last run, a bounded number of
operations or events and closed streams are where the system may stop.

### Fairness

`DownloadLifecycle!FairSpec`: weak fairness of each request that was begun,
each runner and monitor, the worker, the shutdown sequence and the restart of
a process that is down (an assumption on the operator), and time passes for
slow downloads. Clients, signals and crashes need not come. A transfer is
assumed to end: every request has a timeout and retries are bounded, with one
exception that Transfer shows (a server that keeps answering with another
Content-Range, hazard at `runner.go:215`). RunningEnds does not rest on the
runner alone: the worker requeues what is stale. OnlyNewerHoldUp is about queues
that exist and are not paused. It is not the promise that every queued download
is started: the newer of two downloads, requeued as stale again and again,
always takes the place, and the older one starves.

`Transfer!FairSpec`: some segment that can step does, and the join after the
last segment happens. Pauses, crashes and new runs need not come.

`Events!FairSpec`: a goroutine that can run does, and `select` chooses at
random among the ready cases, so one that is ready again and again is chosen
(strong fairness of `Leave`). Nothing is assumed of the HTTP server: it need
not read a pipe, end a request or close a body. GoneUnsubscribes therefore
says what happens once a body is closed; without that a stream goroutine inside
a write stays subscribed.

### Findings

Four places where a comment or the README says one thing and the code does
another have a run that shows it: duplicate starts (DuplicateStart), the retry
after a broken body (BrokenBody), bulk operations that reach into other queues
(BulkScope) and two merges that choose one name (SameName).

The models show more of them; they are hazards in `PROJECT.json`, and the
constants below reproduce them.

* Queue concurrency (`README.md:29`): a download that is requeued as stale
  while its runner goes on makes room for another one. `Downloads = {1, 2}`,
  two runners, concurrency 1, `SlowDownloads = {1}`: two live runners in one
  queue.
* Graceful shutdown (`server.go:118`): `PauseRunningDownloads` runs under the
  context whose end the server has waited for and pauses nothing.
* Remove (`README.md:129`) does not stop the runner, which merges its parts
  after the files have been deleted, or those of them that a retried segment
  has created again.
* A queued download may wait for ever behind newer ones.
* A read that fails when a runner starts costs the download its queue, URL and
  options, for the made-up record "for error reporting" (`runner.go:32`) is stored.
* More connections than bytes: segments end at -1, which the transfer reads as
  an unknown end, and every part holds the whole file. Transfer with
  `Length = 2`, `Connections = {3}` violates FileExact.
* A resumed run requests the bytes behind the end of a segment that is already
  complete, is refused and fails (`README.md:13` promises resume).
* A paused download can be requeued by the worker from a list it made before
  the pause.
* A resumed download whose `max_connections` was changed merges parts of two
  plans (`MayReplan = TRUE`, `Connections = {1, 2}` violates FileExact), and a
  redirect that is not followed completes a segment with nothing written
  (`Answers` with "redirect").
* A request that lists downloads without a limit gets a page of one
  (PagesTile states it).

## 4. Proofs

TLAPS proves, for every value of the constants that satisfies the named
assumptions (`DistinctAssumption`, `ParameterAssumption`, `TransferAssumption`,
`RepositoryAssumption`, `BufferAssumption`, `EventsAssumption`,
`PublishersAssumption`, `MergingAssumption`):

* **TypeCorrect**, **RemovedForGood**, **TrackedAlwaysLive**
  (`DownloadLifecycleProofs`). The inductive invariant is `TypeOK`, `Shape`,
  `TxShape` and `TrackedRunnerLive`. `TxShape` is what RemovedForGood needs: a
  transaction that can still commit has a present record, because the deletion
  dooms the others. The lemmas classify the actions by what they do to the
  transactions (nothing, open one, commit one), so that each invariant is
  proved once per class and not once per action.
* **BlankNeverStored**, **HeldStands**, **CompletedKeepsFile**
  (`DownloadOutcomeProofs`), on top of that with `BlankInv`, `OpValues`,
  `HeldInv` and `FileInv`. The properties are not inductive: they speak of the
  stored record, and what may still be written (open transactions, copies in
  the hands of live runners) has to satisfy them too. HeldInv says that nobody
  who could still write completed or failed to a held download has a live
  context or a transaction that can commit. BlankInv follows the made-up record
  from the runner's copy through open transactions and the worker's copies: its
  holder has a done context or a download that is gone or misread.
* **LifecycleImplementsCatalog** (`LifecycleCatalogProofs`): the refinement,
  under the conjunction of these invariants. Commits become `Update`, `Hold` or
  `Remove`, merges and removals of files `Merge` and `Purge`, a spawned runner
  `Release`; every other step stutters.
* **PlanPartitions** (`TransferProofs`): with no more connections than bytes
  the segments are non-empty and follow each other from the first byte to the
  last.
* **CompleteSegmentsFilled**: without answers such as 302, DoneNotShort, from
  `FilledInv` (an attempt has at least written what it has read), with broken
  and short bodies, crashes and changed plans.
* **PartsStayPrefixes**: with bodies that end where they should and a plan
  that stays, PartsArePrefixes, from `AlignedInv` (an attempt starts where the
  part file ends and ends where the segment does). BrokenBody shows that the
  assumption is needed.
* **TransferTypes** (`TransferFileProofs`): TypeOK, from `TypeInv`, which adds
  that part files are numbered from 1 (so that they are a sequence and their
  concatenation is one) and that only a segment that is done or has failed may
  have used all its attempts.
* **MergedFileExact**: FileExact under four assumptions, each of which has a
  counterexample without it (section 3): bodies end where they should, no
  redirect goes unfollowed, the plan stays, no more connections than bytes
  (`Sized`). `ExactInv` adds to AlignedInv that a complete segment has its last
  byte and that there are no part files but those of the plan. PlanPartitions
  then makes the concatenation the resource.
* **ProgressNeverExceeds**: ProgressBounded for *all* answers, with a plan that
  stays and `Sized` (both needed: with `MayReplan`, or with 2 bytes and 3
  connections, TLC finds more bytes reported than there are). `bytes` counts
  reports and forgets where they came from, so `ProgressInv` finds them again:
  there is a function `acc`, a running bound per segment, that grows by at most
  `Reported(i)` from one segment to the next, where `Reported(i)` is what may
  have been counted of segment i (what the part file holds, or held when the
  present attempt was made, and never more than the segment). A completion
  raises `acc` from its segment on; every other step leaves it as it is.
* **RepositoryTypes**, **IndexesAgree** (`RepositoryProofs`), for any number of
  overlapping bulk operations. IndexAgrees is not inductive: an operation that
  has removed keys must have removed *the* keys (`OldCurrent`: what it read is
  what is stored, unless it was overtaken) and must find none when it writes
  (`Cleared`). The proof goes download by download, since no operation relates
  the keys of two.
* **ListsFindOnce**: FoundOnce from IndexesAgree, for any filters: whichever
  index is scanned, a download with right keys has one entry there that can
  match.
* **EveryPageRight**, **PagesAlwaysTile**: PagesTile, and the same for every
  limit and offset instead of those the run enumerates. The identifiers in use
  are finite, hence have an order of scan (`AscendsExists`); after k rounds the
  loop has collected `Taken(limit, offset, k)` entries, and `Round` says which
  and what its counters are.
* **EventTypes**, **PublishSendsOpen** (`EventsProofs`), from `SendInv`: a
  stream is in the list exactly while it has not been unsubscribed, once; and
  the targets of a Publish at work are in the list, because no writer gets in
  while one is at work.
* **StreamsInOrder**: InOrder, from `OrderInv`: a Publish at work has each
  target ahead of it once (`TodoOnce`), and everything a stream has read,
  holds or has waiting is older than the event in the hands of its publisher
  (`StreamShape`).
* **NoLossProved**: NoLossBelowBuffer, from `LossInv` on top of that: as long
  as no more events were begun than the channel holds, every event offered so
  far is with the stream. The events in a full channel are all different by
  OrderInv, so a dropped one would make too many; this counts the elements of a
  set and needs finitely many publishers (`PublishersAssumption`).
* **MergingTypes**, **ForeignFilesKept** (`MergingProofs`), from `NameInv`, for
  any number of merges at once: temporary and open files are never foreign
  ones (`OwnFiles`), and a merge that does not overwrite has a free name or no
  foreign file under it (`Spared`). So the race of SameName costs downloads
  their files, but not the files of others.
* **FinalFilesWhole**: FinalsWhole, for any number of merges at once, removals
  file by file and crashes at any system call. The inductive invariant
  `WholeInv` says that outside the clashed names an open file is reached through
  one temporary name only (`FilesApart`, `FdHome`, `FilesLast`), that a merge
  whose download is not removed has listed all parts and finds them (`Listed`:
  only a removal takes a part file away under a runner), and that its file holds
  the parts copied so far (`CopyExact`). `ClashMarked` says that two merges that
  head for one name have marked it.
* **CompletedFilesOwned**: CompletedOwnsFile, likewise for any number of merges,
  from `OwnedInv`: who may still remove or replace the file of a completed
  download (`Freed`, `Marked`, `Held`).
* **OneAtATimeSafe**, **DifferentNamesSafe**: two ways in which no name is ever
  clashed, so that FinalsWhole says its full and EachKeepsItsFile, which
  SameName violates, holds: merges one after the other (`AtOnce <= 1`), and
  downloads whose names differ (`DifferentNames`), with any number of merges.

Facts about recursive definitions (the concatenation of part files, the rounds
of a list, the order of a scan, the running bound of the progress) are proved
with the least number that would violate them (`LeastNumber`, from the
well-foundedness of the natural numbers). A recursive function is shown to
exist before it is used.

The invariants were checked with TLC before they were proved. Two of them
changed the model. The attempt to prove ProgressBounded failed at the merge of
an empty file: `NoFile` was `<<>>`, and a download of which nothing had arrived
counted as one without a file. With a single byte, short bodies and three runs
TLC then found more bytes reported than there are. `NoFile` is now a value of
its own, and TransferFaults has three runs. NoLossBelowBuffer counts the events
begun as the elements of a set instead of adding up differences.

Only model-checked: RunningEnds, OnlyNewerHoldUp, TransferEnds, PublishEnds and
GoneUnsubscribes (fairness and ENABLED are out of the prover's reach). Every
invariant and every action property of a passing run is proved, the ones of
Transfer under the assumptions named above.

## 5. Not modelled

* Rate limiter: the server builds it without its map (`server.go:49`), so
  Reserve never delays and SetLimit panics. There is no state to model; the
  panic is one of the ways the process ends.
* Queue rows: creating, changing and deleting queues and their statistics.
  PauseQueue reads and saves in two transactions, and DeleteQueue leaves its
  downloads behind; both are listed as hazards.
* Segment rows, which nothing reads; tags, priority and search, which are
  filters without state.
* Transport: mirrors, TLS, proxies and headers; the answers it may give are
  the constant `Answers`.
* Daemon and command line (flags, a PID file, signals to another process),
  authentication (a header comparison), validation (a no-op), configuration,
  formatting and hashes.
* Events and store together: an event is published inside the transaction
  before it commits, and by the runner whether or not its last write was
  stored, so nothing is promised between the two.

Next: conditions under which a download has one runner (the counterpart of
DuplicateStart, as OneAtATimeSafe is of SameName), and what a bulk operation that
nobody overtakes guarantees for the records of its own queue.
