------------------------------ MODULE Catalog ------------------------------
(***************************************************************************)
(* What the service promises to those who only look at the stored records  *)
(* and at the finished files, without requests, runners, transactions, the *)
(* scheduler or the process: every change is one of the steps below.  It   *)
(* is the specification that DownloadLifecycle implements.                 *)
(***************************************************************************)
CONSTANTS Downloads, Queues, QueueNames, FlakyDownloads, NoQueue, NoRecord

VARIABLES
  records,  \* the record of each download
  files,    \* downloads whose merged file exists
  used,     \* identifiers given to a download so far
  held      \* downloads paused or cancelled for good, until a new runner

catalogVars == <<records, files, used, held>>

Finished == {"completed", "failed"}
OnHold == {"paused", "cancelled"}
Status == {"queued", "running"} \cup OnHold \cup Finished
Record == [status : Status, queue : Queues \cup {NoQueue}, kept : BOOLEAN]

Init ==
  /\ records = [d \in Downloads |-> NoRecord]
  /\ files = {}
  /\ used = {}
  /\ held = {}

\* An identifier is used once.
Create(d, q) ==
  /\ d \notin used
  /\ used' = used \cup {d}
  /\ records' = [records EXCEPT ![d] = [status |-> "queued", queue |-> q, kept |-> TRUE]]
  /\ UNCHANGED <<files, held>>

\* Only what exists is written, and loses what the client asked for only when
\* the store may fail to read it; as completed only with its file there, and
\* nothing on hold as completed or failed.
Write(d) ==
  LET r == records'[d] IN
  /\ records[d] # NoRecord
  /\ r \in Record
  /\ r.kept \/ d \in FlakyDownloads
  /\ r.status = "completed" => d \in files
  /\ d \in held => r.status \notin Finished
  /\ records' = [records EXCEPT ![d] = r]

Update(d) == Write(d) /\ UNCHANGED <<files, used, held>>

\* A pause or a cancellation takes hold: nobody else may write any more.
Hold(d) ==
  /\ Write(d)
  /\ records'[d].status \in OnHold
  /\ held' = held \cup {d}
  /\ UNCHANGED <<files, used>>

\* Only a new runner ends it.
Release(d) == held' = held \ {d} /\ UNCHANGED <<records, files, used>>

Remove(d) ==
  /\ records[d] # NoRecord
  /\ records' = [records EXCEPT ![d] = NoRecord]
  /\ UNCHANGED <<files, used, held>>

Merge(d) ==
  /\ d \in used
  /\ files' = files \cup {d}
  /\ UNCHANGED <<records, used, held>>

\* A file goes only when its record has gone.
Purge(d) ==
  /\ records[d] = NoRecord
  /\ files' = files \ {d}
  /\ UNCHANGED <<records, used, held>>

Next ==
  \E d \in Downloads :
    \/ \E q \in QueueNames : Create(d, q)
    \/ Update(d) \/ Hold(d) \/ Remove(d) \/ Merge(d) \/ Purge(d) \/ Release(d)

Spec == Init /\ [][Next]_catalogVars
=============================================================================
