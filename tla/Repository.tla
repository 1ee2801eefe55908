----------------------------- MODULE Repository -----------------------------
(***************************************************************************)
(* The download records of the Badger store and their secondary indexes    *)
(* (repository/repository.go).  A record is kept under d|<id>; the keys    *)
(* dca||<created>|<id>, dst||<status>|<created>|<id> and                   *)
(* dq||<queue>|<created>|<id> point to it.  Lists, counts and the queue-   *)
(* wide bulk operations find records through these keys only.              *)
(*                                                                         *)
(* CreateDownload, UpdateDownload, DeleteDownload and the read-modify-     *)
(* write closures of RunInTx are one Badger transaction each, hence one    *)
(* action.  A bulk operation is two read transactions, one transaction     *)
(* that removes index entries without reading them and one WriteBatch      *)
(* that writes without reading: nothing it does is checked for conflicts,  *)
(* so every other operation may come in between.                           *)
(*                                                                         *)
(* Left out: priority, tags and the other fields no key is scanned by, the *)
(* segment rows, which nothing reads, and batches of more than 1000        *)
(* downloads, which are split.                                             *)
(***************************************************************************)
EXTENDS Integers, FiniteSets, Sequences, Functions

CONSTANTS
  Ids,       \* download identifiers, in the order of their creation times
  Queues,    \* queue identifiers
  Statuses,  \* download statuses
  PrefixOf,  \* pairs <<p, q>> of queue identifiers, the name p a prefix of q
  Clients,   \* requests that perform bulk operations
  Kinds,     \* the bulk operations they perform
  MaxBulks,  \* bound on the number of bulk operations
  NoQueue, NoRecord

AllKinds == {"delete", "reassign", "status", "priority"}

\* models.Download, reduced to the fields the scanned keys are made of.
Record == [status : Statuses, queue : Queues \cup {NoQueue}]

ASSUME RepositoryAssumption ==
  /\ Ids \subseteq Nat
  /\ PrefixOf \subseteq Queues \X Queues
  /\ \A q \in Queues : <<q, q>> \in PrefixOf
  /\ Kinds \subseteq AllKinds
  /\ "queued" \in Statuses
  /\ MaxBulks \in Nat
  /\ NoQueue \notin Queues
  /\ NoRecord \notin Record

VARIABLES
  d,      \* d|: the record of each download
  dca,    \* dca|: downloads with an entry by creation time
  dst,    \* dst|: entries <<status, id>>
  dq,     \* dq|: entries <<queue, id>>
  used,   \* identifiers given to a download so far
  op,     \* the bulk operation of each client
  bulks,  \* how many bulk operations have begun
  loose   \* history: downloads a bulk operation was interrupted on or overtaken on

storeVars == <<d, dca, dst, dq>>
vars == <<d, dca, dst, dq, used, op, bulks, loose>>

NoRecords == [id \in Ids |-> NoRecord]

\* An operation: the queue it was called for, the target queue or status, the
\* downloads its first transaction has listed with their records, the records
\* its second one has read, and (history) what others have written since.
NoOp == [pc |-> "idle", kind |-> "none", queue |-> NoQueue, to |-> NoQueue, ids |-> {},
         copy |-> NoRecords, old |-> NoRecords, over |-> {}]

Init ==
  /\ d = NoRecords
  /\ dca = {}
  /\ dst = {}
  /\ dq = {}
  /\ used = {}
  /\ op = [c \in Clients |-> NoOp]
  /\ bulks = 0
  /\ loose = {}

Present(id) == d[id] # NoRecord

\* The keys indexDownload sets, and unindexDownload deletes, for the records
\* that f gives the downloads of S.
StatusKeys(f, S) == {<<f[id].status, id>> : id \in S}
QueueKeys(f, S) == {<<f[id].queue, id>> : id \in {i \in S : f[i].queue # NoQueue}}

\* The operations in flight, but those of clients C, once somebody has written
\* the downloads S.
Overtake(S, C) ==
  [x \in Clients |-> IF x \notin C /\ op[x].pc \in {"unindex", "write"}
                     THEN [op[x] EXCEPT !.over = @ \cup S] ELSE op[x]]

----------------------------------------------------------------------------
(* The operations that are one transaction.                                *)

\* CreateDownload of a download with a fresh identifier.
CreateDownload(id, q) ==
  /\ id \notin used
  /\ \A x \in Ids \ used : id <= x
  /\ used' = used \cup {id}
  /\ d' = [d EXCEPT ![id] = [status |-> "queued", queue |-> q]]
  /\ dca' = dca \cup {id}
  /\ dst' = dst \cup StatusKeys(d', {id})
  /\ dq' = dq \cup QueueKeys(d', {id})
  /\ UNCHANGED <<op, bulks, loose>>

\* UpdateDownload: the caller's copy r replaces the record, the keys of the
\* stored record are exchanged for those of r.  r may be any copy, however
\* old; without a record the update is refused.
UpdateDownload(id, r) ==
  /\ Present(id)
  /\ d' = [d EXCEPT ![id] = r]
  /\ dca' = dca \cup {id}
  /\ dst' = (dst \ StatusKeys(d, {id})) \cup StatusKeys(d', {id})
  /\ dq' = (dq \ QueueKeys(d, {id})) \cup QueueKeys(d', {id})
  /\ op' = Overtake({id}, {})
  /\ UNCHANGED <<used, bulks, loose>>

DeleteDownload(id) ==
  /\ Present(id)
  /\ d' = [d EXCEPT ![id] = NoRecord]
  /\ dca' = dca \ {id}
  /\ dst' = dst \ StatusKeys(d, {id})
  /\ dq' = dq \ QueueKeys(d, {id})
  /\ op' = Overtake({id}, {})
  /\ UNCHANGED <<used, bulks, loose>>

----------------------------------------------------------------------------
(* The queue-wide bulk operations.                                         *)

\* The key prefix dq||<q>, without a closing bar, covers the keys of every
\* queue whose name begins with q.
InIndex(q) == {id \in Ids : \E e \in dq : e[2] = id /\ <<q, e[1]>> \in PrefixOf}

Restricted(f, S) == [id \in Ids |-> IF id \in S THEN f[id] ELSE NoRecord]

Targets(kind) ==
  CASE kind = "reassign" -> Queues
    [] kind = "status" -> Statuses
    [] OTHER -> {NoQueue}

\* The first transaction: list the queue.  A missing record ends all kinds but
\* delete with an error, and an empty list ends the operation; reassigning a
\* queue to itself does nothing.
BulkList(c, kind, q, to) ==
  /\ op[c] = NoOp
  /\ bulks < MaxBulks
  /\ bulks' = bulks + 1
  /\ to # q
  /\ InIndex(q) # {}
  /\ kind # "delete" => \A id \in InIndex(q) : Present(id)
  /\ op' = [op EXCEPT ![c] = [NoOp EXCEPT !.pc = "view", !.kind = kind, !.queue = q, !.to = to,
                                          !.ids = InIndex(q), !.copy = Restricted(d, InIndex(q))]]
  /\ UNCHANGED <<storeVars, used, loose>>

\* The second transaction: read the old records; one that is missing ends the
\* operation with an error.
BulkView(c) ==
  /\ op[c].pc = "view"
  /\ op' = IF \A id \in op[c].ids : Present(id)
           THEN [op EXCEPT ![c].pc = "unindex", ![c].old = Restricted(d, op[c].ids)]
           ELSE [op EXCEPT ![c] = NoOp]
  /\ UNCHANGED <<storeVars, used, bulks, loose>>

\* The third: remove the keys of the old records, whatever is stored by now.
BulkUnindex(c) ==
  /\ op[c].pc = "unindex"
  /\ dca' = dca \ op[c].ids
  /\ dst' = dst \ StatusKeys(op[c].old, op[c].ids)
  /\ dq' = dq \ QueueKeys(op[c].old, op[c].ids)
  /\ op' = [Overtake(op[c].ids, {c}) EXCEPT ![c].pc = "write"]
  /\ UNCHANGED <<d, used, bulks, loose>>

\* Slip: the target queue is stored in the wrong field.
ChangedField(o, r) ==
  CASE o.kind = "delete" -> NoRecord
    [] o.kind \in {"reassign", "status"} -> [r EXCEPT !.status = o.to]
    [] o.kind = "priority" -> r

\* What a listed record becomes.
Changed(o, r) ==
  CASE o.kind = "delete" -> NoRecord
    [] o.kind = "reassign" -> [r EXCEPT !.queue = o.to]
    [] o.kind = "status" -> [r EXCEPT !.status = o.to]
    [] o.kind = "priority" -> r

\* Slip: the batch writes the records without their keys.
BulkWriteRecordsOnly(c) ==
  /\ op[c].pc = "write"
  /\ d' = [id \in Ids |-> IF id \in op[c].ids THEN Changed(op[c], op[c].copy[id]) ELSE d[id]]
  /\ op' = [Overtake(op[c].ids, {c}) EXCEPT ![c] = NoOp]
  /\ loose' = loose \cup (op[c].ids \cap op[c].over)
  /\ UNCHANGED <<dca, dst, dq, used, bulks>>

\* The WriteBatch: the records of the first list, changed, with their keys, or
\* the removal of the records.
BulkWrite(c) ==
  LET kept == IF op[c].kind = "delete" THEN {} ELSE op[c].ids IN
  /\ op[c].pc = "write"
  /\ d' = [id \in Ids |-> IF id \in op[c].ids THEN Changed(op[c], op[c].copy[id]) ELSE d[id]]
  /\ dca' = dca \cup kept
  /\ dst' = dst \cup StatusKeys(d', kept)
  /\ dq' = dq \cup QueueKeys(d', kept)
  /\ op' = [Overtake(op[c].ids, {c}) EXCEPT ![c] = NoOp]
  /\ loose' = loose \cup (op[c].ids \cap op[c].over)
  /\ UNCHANGED <<used, bulks>>

\* The client has gone (the request's context is done), a transaction fails,
\* or the process ends: the operation stops between two of its transactions.
BulkInterrupted(c) ==
  /\ op[c] # NoOp
  /\ loose' = IF op[c].pc = "write" THEN loose \cup op[c].ids ELSE loose
  /\ op' = [op EXCEPT ![c] = NoOp]
  /\ UNCHANGED <<storeVars, used, bulks>>

----------------------------------------------------------------------------
(* Lists and counts: one read transaction over one index.                  *)

\* The in-memory filters; an empty filter lets everything pass.
Matches(id, qs, ss) ==
  /\ Present(id)
  /\ qs # {} => d[id].queue \in qs
  /\ ss # {} => d[id].status \in ss

\* The index entries that are visited: those of the queue if one queue is
\* asked for, else of the status if one is asked for, else all.
Scan(qs, ss) ==
  CASE Cardinality(qs) = 1 -> {e \in dq : \E q \in qs : <<q, e[1]>> \in PrefixOf}
    [] Cardinality(qs) # 1 /\ Cardinality(ss) = 1 -> {e \in dst : e[1] \in ss}
    [] OTHER -> {<<"created", id>> : id \in dca}

\* Slip: a record found under the key is not compared with the filters again.
HitsByKey(qs, ss) == {e \in Scan(qs, ss) : Present(e[2])}

\* The entries a list returns and CountDownloads counts.
Hits(qs, ss) == {e \in Scan(qs, ss) : Matches(e[2], qs, ss)}

CountDownloads(qs, ss) == Cardinality(Hits(qs, ss))

\* Slip: the limit is looked at before the entry is collected.
CollectUnlessFull(acc, id) ==
  CASE acc.collect = 0 -> acc
    [] acc.collect # 0 /\ acc.discard > 0 -> [acc EXCEPT !.discard = @ - 1]
    [] OTHER -> [acc EXCEPT !.list = Append(@, id), !.collect = @ - 1]

\* One round of the loop of listDownloadsTxn for an entry that matches.
Collect(acc, id) ==
  CASE acc.stop -> acc
    [] ~acc.stop /\ acc.discard > 0 -> [acc EXCEPT !.discard = @ - 1]
    [] OTHER -> LET left == IF acc.collect > 0 THEN acc.collect - 1 ELSE acc.collect IN
                [acc EXCEPT !.list = Append(@, id), !.collect = left, !.stop = left = 0]

\* The entries of S in the order of the scan, forwards or backwards in time.
Scanned(S, desc) ==
  CHOOSE s \in Injection(1..Cardinality(S), S) :
    \A i, j \in DOMAIN s : i < j => IF desc THEN s[i][2] >= s[j][2] ELSE s[i][2] <= s[j][2]

\* ListDownloads, as the identifiers in the order of the scan; the sort that
\* follows changes their order only.
ListDownloads(qs, ss, desc, limit, offset) ==
  LET hits == Scanned(Hits(qs, ss), desc)
      rounds[n \in 0..Len(hits)] ==
        IF n = 0 THEN [list |-> <<>>, discard |-> offset, collect |-> limit, stop |-> FALSE]
        ELSE Collect(rounds[n - 1], hits[n][2]) IN
  rounds[Len(hits)].list

----------------------------------------------------------------------------
BulkStep(c) ==
  \/ \E kind \in Kinds, q \in Queues : \E to \in Targets(kind) : BulkList(c, kind, q, to)
  \/ BulkView(c) \/ BulkUnindex(c) \/ BulkWrite(c) \/ BulkInterrupted(c)

Next ==
  \/ \E id \in Ids, q \in Queues : CreateDownload(id, q)
  \/ \E id \in Ids, r \in Record : UpdateDownload(id, r)
  \/ \E id \in Ids : DeleteDownload(id)
  \/ \E c \in Clients : BulkStep(c)

Spec == Init /\ [][Next]_vars

----------------------------------------------------------------------------
(* What the store promises.                                                *)

Copies == [Ids -> Record \cup {NoRecord}]

OpRec == [pc : {"idle", "view", "unindex", "write"}, kind : AllKinds \cup {"none"},
          queue : Queues \cup {NoQueue}, to : Queues \cup Statuses \cup {NoQueue},
          ids : SUBSET Ids, copy : Copies, old : Copies, over : SUBSET Ids]

\* Type invariant: records, keys and operations in flight keep their shape.
TypeOK ==
  /\ d \in Copies
  /\ dca \subseteq Ids
  /\ dst \subseteq Statuses \X Ids
  /\ dq \subseteq Queues \X Ids
  /\ used \subseteq Ids
  /\ op \in [Clients -> OpRec]
  /\ bulks \in 0..MaxBulks
  /\ loose \subseteq Ids

\* Downloads whose keys a bulk operation has removed and not yet written.
Unindexed(c) == IF op[c].pc = "write" THEN op[c].ids ELSE {}

\* Downloads whose keys may be wrong: a bulk operation is between removing and
\* writing them, or was stopped there, or has written over somebody's update.
Doubtful == loose \cup UNION {Unindexed(c) : c \in Clients}

KeysRight(id) ==
  /\ id \in dca <=> Present(id)
  /\ \A s \in Statuses : <<s, id>> \in dst <=> Present(id) /\ d[id].status = s
  /\ \A q \in Queues : <<q, id>> \in dq <=> Present(id) /\ d[id].queue = q

\* Every key of a download that is not in doubt points to its record as it is
\* stored, and no key is missing: transactions never leave a wrong key behind,
\* and neither do bulk operations that end undisturbed, whatever else they
\* were interleaved with.
IndexAgrees == \A id \in Ids \ Doubtful : KeysRight(id)

\* Lists and counts over the index return a download that is not in doubt
\* exactly once if it matches the filters, and else not at all, for one or
\* several queues or statuses, and also where one queue's name is the
\* beginning of another's.  The scheduler finds its downloads in no other way.
FoundOnce ==
  \A id \in Ids \ Doubtful, qs \in SUBSET Queues, ss \in SUBSET Statuses :
    Cardinality({e \in Hits(qs, ss) : e[2] = id}) = IF Matches(id, qs, ss) THEN 1 ELSE 0

\* One page of the list of all downloads: with a limit above 0 the matches
\* behind the offset up to the limit, below 0 all of them.  The route's default
\* limit 0 stands for a page of one download.
PageRight(desc, limit, offset) ==
  LET all == ListDownloads({}, {}, desc, -1, 0)
      last == CASE limit > 0 -> offset + limit
                [] limit = 0 -> offset + 1
                [] OTHER -> Len(all) IN
  /\ Range(all) = {id \in Ids : Present(id)}
  /\ \A i \in 1..Len(all) - 1 : IF desc THEN all[i] > all[i + 1] ELSE all[i] < all[i + 1]
  /\ ListDownloads({}, {}, desc, limit, offset) =
       SubSeq(all, offset + 1, IF last < Len(all) THEN last ELSE Len(all))

\* While no keys are in doubt, the pages of a list together are the stored
\* downloads, each once and in the order of their creation, forwards or
\* backwards: listDownloadsTxn skips and stops at the right entries.
PagesTile ==
  Doubtful = {} =>
    \A desc \in BOOLEAN, limit \in -1..2, offset \in 0..1 : PageRight(desc, limit, offset)

----------------------------------------------------------------------------
(* The inductive invariant behind IndexAgrees, in named parts.             *)

\* An operation in flight works on downloads that were created and has what
\* its next step needs.
OpShape ==
  \A c \in Clients :
    /\ op[c].ids \subseteq used
    /\ op[c].pc # "idle" => op[c].kind \in AllKinds /\ op[c].to \in Targets(op[c].kind)
    /\ op[c].pc # "idle" /\ op[c].kind # "delete"
         => \A id \in op[c].ids : op[c].copy[id] # NoRecord
    /\ op[c].pc \in {"unindex", "write"} => \A id \in op[c].ids : op[c].old[id] # NoRecord

\* Records and queue keys are those of downloads that were created.
UsedShape ==
  /\ \A id \in Ids : Present(id) => id \in used
  /\ \A q \in Queues, id \in Ids : <<q, id>> \in dq => id \in used

\* What an operation has read is what is stored, unless it was overtaken.
OldCurrent ==
  \A c \in Clients : op[c].pc \in {"unindex", "write"} =>
    \A id \in op[c].ids \ op[c].over : op[c].old[id] = d[id]

NoKeys(id) ==
  /\ id \notin dca
  /\ \A s \in Statuses : <<s, id>> \notin dst
  /\ \A q \in Queues : <<q, id>> \notin dq

\* A download that one operation alone has removed the keys of, and that
\* nobody has written since, has none.
Cleared ==
  \A c \in Clients : \A id \in Unindexed(c) \ (op[c].over \cup loose) :
    (\A x \in Clients \ {c} : id \notin Unindexed(x)) => NoKeys(id)

IndexInv == OpShape /\ UsedShape /\ OldCurrent /\ Cleared /\ IndexAgrees

----------------------------------------------------------------------------
(* What the documentation says and the code does not keep.                 *)

\* A bulk operation is scoped to its queue: it only ever takes in downloads
\* that were in that queue when it listed them.
BulkWithinQueue ==
  \A c \in Clients : \A id \in op[c].ids :
    op[c].copy[id] # NoRecord => op[c].copy[id].queue = op[c].queue
=============================================================================
