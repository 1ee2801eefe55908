------------------------------ MODULE Merging ------------------------------
(***************************************************************************)
(* The local file store's names (internal/filestore/filestore.go): how     *)
(* MergeSegments chooses the name of the final file, builds it beside that *)
(* name and renames it, what VerifyChecksum then reads and what            *)
(* RemoveDownloadFiles deletes, for downloads that share a directory.      *)
(*                                                                         *)
(* Each system call of a merge is a step of its own.  A path is a sequence *)
(* of numbers: <<b>> is a file name, Append(p, i) the name p with " (i)"   *)
(* put before its extension.  A directory entry refers to an inode, and an *)
(* open file to the inode it was opened on: removing or renaming an entry  *)
(* does not touch the file behind it.  Of the transfer there is only which *)
(* part files there are: module Transfer is about what is in them.         *)
(***************************************************************************)
EXTENDS Naturals, Sequences, FiniteSets

CONSTANTS Downloads,
          Requested,   \* Requested[d]: the path d asks for
          Policy,      \* Policy[d]: "overwrite", "unique" or "refuse"
          Checked,     \* downloads with a checksum
          Parts,       \* part files of a download
          Existing,    \* paths of files that were there before
          Nobody,      \* the author of those files
          AtOnce,      \* runners at the same time
          MaxRuns,     \* bound: runs in all
          MaxRemovals, \* bound: downloads removed
          MaxCrashes   \* bound: crashes of the process

ASSUME MergingAssumption ==
  /\ Requested \in [Downloads -> Seq(Nat)]
  /\ Policy \in [Downloads -> {"overwrite", "unique", "refuse"}]
  /\ Checked \subseteq Downloads
  /\ Parts \in Nat \ {0}
  /\ Existing \subseteq Seq(Nat) /\ IsFiniteSet(Existing)
  /\ Nobody \notin Downloads
  /\ AtOnce \in Nat /\ MaxRuns \in Nat /\ MaxRemovals \in Nat /\ MaxCrashes \in Nat

VARIABLES dir,     \* final paths: path -> inode
          tmp,     \* the paths with ".merge.tmp" appended: path -> inode
          data,    \* data[i]: what inode i holds
          parts,   \* parts[d]: the part files in d's temporary directory
          rec,     \* rec[d]: status and file name in d's record
          run,     \* run[d]: the runner of d, in or after MergeSegments
          rm,      \* rm[d]: a removal of d, with what it has read
          clashed, \* history: the names two merges were heading for at once
          runs,    \* runs so far
          crashes  \* crashes so far

vars == <<dir, tmp, data, parts, rec, run, rm, clashed, runs, crashes>>

Path == Seq(Nat)

\* A piece of a file: part k of what d fetched, rightly or not.  A hole is
\* what a write beyond the end leaves before it.
Chunk(d, k, good) == [by |-> d, part |-> k, good |-> good]
Hole == Chunk(Nobody, 0, FALSE)

Whole(d, good) == [k \in 1..Parts |-> Chunk(d, k, good)]

Foreign == <<Chunk(Nobody, 1, TRUE)>>

Idle == [pc |-> "idle", todo |-> {}, name |-> <<>>, try |-> 0, fd |-> 0, at |-> 1,
         good |-> TRUE]

NoRemoval == [pc |-> "idle", name |-> <<>>, left |-> {}]

Init ==
  /\ \E order \in [Existing -> 1..Cardinality(Existing)] :
       /\ \A p, q \in Existing : order[p] = order[q] => p = q
       /\ dir = order
  /\ tmp = <<>>
  /\ data = [i \in 1..Cardinality(Existing) |-> Foreign]
  /\ parts = [d \in Downloads |-> {}]
  /\ rec = [d \in Downloads |-> [status |-> "queued", name |-> Requested[d]]]
  /\ run = [d \in Downloads |-> Idle]
  /\ rm = [d \in Downloads |-> NoRemoval]
  /\ clashed = {}
  /\ runs = 0
  /\ crashes = 0

-----------------------------------------------------------------------------
(* Directories *)

Exists(entries, p) == p \in DOMAIN entries

Link(entries, p, i) == [q \in DOMAIN entries \cup {p} |-> IF q = p THEN i ELSE entries[q]]

Unlink(entries, p) == [q \in DOMAIN entries \ {p} |-> entries[q]]

\* The contents s after a write of chunk x at offset k.
WriteAt(s, k, x) ==
  [j \in 1..(IF k > Len(s) THEN k ELSE Len(s)) |->
     IF j = k THEN x ELSE IF j <= Len(s) THEN s[j] ELSE Hole]

Running == {d \in Downloads : run[d].pc # "idle"}

\* The runner of d goes on at pc.
Goto(d, pc) == run' = [run EXCEPT ![d].pc = pc]

-----------------------------------------------------------------------------
(* A run of d *)

Start(d) ==
  /\ rec[d].status \in {"queued", "failed", "completed"}
  /\ run[d].pc = "idle" /\ runs < MaxRuns /\ Cardinality(Running) < AtOnce
  /\ \E good \in BOOLEAN :
       run' = [run EXCEPT ![d] = [Idle EXCEPT !.pc = "fetch", !.todo = 1..Parts,
                                              !.name = rec[d].name, !.good = good]]
  /\ rec' = [rec EXCEPT ![d].status = "running"]
  /\ runs' = runs + 1
  /\ UNCHANGED <<dir, tmp, data, parts, rm, clashed, crashes>>

\* The attempt that completes segment k opens its part file, which is created
\* if it is not there, or no longer there.
FetchPart(d) ==
  /\ run[d].pc = "fetch"
  /\ \E k \in run[d].todo :
       /\ parts' = [parts EXCEPT ![d] = @ \cup {k}]
       /\ run' = [run EXCEPT ![d].todo = @ \ {k}]
  /\ UNCHANGED <<dir, tmp, data, rec, rm, clashed, runs, crashes>>

\* A segment fails, or sees its context done.
FetchError(d) ==
  /\ run[d].pc = "fetch"
  /\ Goto(d, "fail")
  /\ UNCHANGED <<dir, tmp, data, parts, rec, rm, clashed, runs, crashes>>

\* When all segments are complete, listParts finds the part files there are;
\* these will be merged, and without any there is nothing to merge.
ListParts(d) ==
  /\ run[d].pc = "fetch" /\ run[d].todo = {}
  /\ run' = [run EXCEPT ![d].pc = IF parts[d] = {} THEN "fail" ELSE "stat",
                        ![d].todo = parts[d]]
  /\ UNCHANGED <<dir, tmp, data, parts, rec, rm, clashed, runs, crashes>>

\* A merge has chosen its name and not yet renamed its file.
Heading == {"clear", "create", "copy"}

\* The merge of d sets out for name, for which another one may be heading.
SetOut(d, name) ==
  /\ run' = [run EXCEPT ![d].pc = "clear", ![d].name = name]
  /\ clashed' = clashed \cup {p \in {name} : \E e \in Downloads \ {d} :
                                    run[e].pc \in Heading /\ run[e].name = p}

\* Slip: nobody looks whether the name is taken.
StatNothing(d) ==
  /\ run[d].pc = "stat"
  /\ SetOut(d, run[d].name)
  /\ UNCHANGED <<dir, tmp, data, parts, rec, rm, runs, crashes>>

\* Is there a file of that name, and may it be replaced?
Stat(d) ==
  /\ run[d].pc = "stat"
  /\ \/ /\ Exists(dir, run[d].name) /\ Policy[d] = "unique"
        /\ run' = [run EXCEPT ![d].pc = "probe", ![d].try = 1]
        /\ UNCHANGED clashed
     \/ /\ Exists(dir, run[d].name) /\ Policy[d] = "refuse"
        /\ Goto(d, "fail")
        /\ UNCHANGED clashed
     \/ /\ Exists(dir, run[d].name) => Policy[d] = "overwrite"
        /\ SetOut(d, run[d].name)
  /\ UNCHANGED <<dir, tmp, data, parts, rec, rm, runs, crashes>>

\* The candidate "name (i)", for i = 1, 2, ... until one is free.
Probe(d) ==
  LET candidate == Append(run[d].name, run[d].try) IN
  /\ run[d].pc = "probe"
  /\ \/ /\ Exists(dir, candidate)
        /\ run' = [run EXCEPT ![d].try = @ + 1]
        /\ UNCHANGED clashed
     \/ ~Exists(dir, candidate) /\ SetOut(d, candidate)
  /\ UNCHANGED <<dir, tmp, data, parts, rec, rm, runs, crashes>>

\* A temporary file that an earlier merge has left is removed ...
Clear(d) ==
  /\ run[d].pc = "clear"
  /\ tmp' = Unlink(tmp, run[d].name)
  /\ Goto(d, "create")
  /\ UNCHANGED <<dir, data, parts, rec, rm, clashed, runs, crashes>>

\* Slip: the final file itself is opened and truncated.
CreateInPlace(d) ==
  /\ run[d].pc = "create"
  /\ LET fd == Len(data) + 1
     IN  /\ dir' = Link(dir, run[d].name, fd)
         /\ tmp' = Link(tmp, run[d].name, fd)
         /\ data' = Append(data, <<>>)
         /\ run' = [run EXCEPT ![d].pc = "copy", ![d].fd = fd, ![d].at = 1]
  /\ UNCHANGED <<parts, rec, rm, clashed, runs, crashes>>

\* Slip: the error of os.Create is not looked at.
CreateUnchecked(d) ==
  /\ run[d].pc = "create"
  /\ run' = [run EXCEPT ![d].pc = "copy", ![d].at = 1]
  /\ UNCHANGED <<dir, tmp, data, parts, rec, rm, clashed, runs, crashes>>

\* ... and os.Create opens it anew, truncated if it exists after all.
Create(d) ==
  /\ run[d].pc = "create"
  /\ LET old == Exists(tmp, run[d].name)
         fd  == IF old THEN tmp[run[d].name] ELSE Len(data) + 1
     IN  /\ tmp' = Link(tmp, run[d].name, fd)
         /\ data' = IF old THEN [data EXCEPT ![fd] = <<>>] ELSE Append(data, <<>>)
         /\ run' = [run EXCEPT ![d].pc = "copy", ![d].fd = fd, ![d].at = 1]
  /\ UNCHANGED <<dir, parts, rec, rm, clashed, runs, crashes>>

\* The next part of the list is opened and copied to where the last one has
\* ended; it may have been removed meanwhile.
CopyPart(d) ==
  /\ run[d].pc = "copy"
  /\ \E k \in run[d].todo :
       /\ \A j \in run[d].todo : k <= j
       /\ IF k \in parts[d]
          THEN /\ data' = [data EXCEPT ![run[d].fd] =
                             WriteAt(@, run[d].at, Chunk(d, k, run[d].good))]
               /\ run' = [run EXCEPT ![d].todo = @ \ {k}, ![d].at = @ + 1]
          ELSE Goto(d, "fail") /\ UNCHANGED data
  /\ UNCHANGED <<dir, tmp, parts, rec, rm, clashed, runs, crashes>>

\* os.Rename moves whatever has the temporary name by now.
Rename(d) ==
  /\ run[d].pc = "copy" /\ run[d].todo = {}
  /\ IF Exists(tmp, run[d].name)
     THEN /\ dir' = Link(dir, run[d].name, tmp[run[d].name])
          /\ tmp' = Unlink(tmp, run[d].name)
          /\ Goto(d, "clean")
     ELSE Goto(d, "fail") /\ UNCHANGED <<dir, tmp>>
  /\ UNCHANGED <<data, parts, rec, rm, clashed, runs, crashes>>

\* The temporary directory goes, one part file after the other.
CleanUp(d) ==
  /\ run[d].pc = "clean"
  /\ \/ /\ \E k \in parts[d] : parts' = [parts EXCEPT ![d] = @ \ {k}]
        /\ UNCHANGED run
     \/ parts[d] = {} /\ Goto(d, "verify") /\ UNCHANGED parts
  /\ UNCHANGED <<dir, tmp, data, rec, rm, clashed, runs, crashes>>

\* Slip: only the presence of the file is verified.
VerifyPresence(d) == d \in Checked => Exists(dir, run[d].name)

\* The checksum is that of the file which has the name now.
VerifyChecksum(d) ==
  d \in Checked => /\ Exists(dir, run[d].name)
                   /\ data[dir[run[d].name]] = Whole(d, TRUE)

Verify(d) ==
  /\ run[d].pc = "verify"
  /\ Goto(d, IF VerifyChecksum(d) THEN "complete" ELSE "fail")
  /\ UNCHANGED <<dir, tmp, data, parts, rec, rm, clashed, runs, crashes>>

\* The runner's last write stores the outcome with the name it has chosen;
\* it is refused when the record is gone, or when its context is done.
Finish(d) ==
  /\ run[d].pc \in {"complete", "fail"}
  /\ \/ /\ rec[d].status # "gone"
        /\ rec' = [rec EXCEPT ![d] =
             [status |-> IF run[d].pc = "complete" THEN "completed" ELSE "failed",
              name |-> run[d].name]]
     \/ UNCHANGED rec
  /\ run' = [run EXCEPT ![d] = Idle]
  /\ UNCHANGED <<dir, tmp, data, parts, rm, clashed, runs, crashes>>

-----------------------------------------------------------------------------
(* What else happens to downloads *)

\* The worker finds a download running that has no runner.
Requeue(d) ==
  /\ rec[d].status = "running" /\ run[d].pc = "idle"
  /\ rec' = [rec EXCEPT ![d].status = "queued"]
  /\ UNCHANGED <<dir, tmp, data, parts, run, rm, clashed, runs, crashes>>

\* Remove: the record is read and deleted; its runner, if any, goes on.
RemoveGet(d) ==
  /\ rm[d].pc = "idle" /\ rec[d].status # "gone"
  /\ Cardinality({e \in Downloads : rm[e].pc # "idle"}) < MaxRemovals
  /\ rm' = [rm EXCEPT ![d] = [pc |-> "delete", name |-> rec[d].name, left |-> {}]]
  /\ UNCHANGED <<dir, tmp, data, parts, rec, run, clashed, runs, crashes>>

RemoveRecord(d) ==
  /\ rm[d].pc = "delete"
  /\ rm' = [rm EXCEPT ![d].pc = "files"]
  /\ rec' = [rec EXCEPT ![d].status = "gone"]
  /\ UNCHANGED <<dir, tmp, data, parts, run, clashed, runs, crashes>>

\* RemoveDownloadFiles: os.RemoveAll reads the temporary directory,
RemoveAll(d) ==
  /\ rm[d].pc = "files"
  /\ rm' = [rm EXCEPT ![d].pc = "parts", ![d].left = parts[d]]
  /\ UNCHANGED <<dir, tmp, data, parts, rec, run, clashed, runs, crashes>>

\* removes what it has found there, file by file,
RemovePart(d) ==
  /\ rm[d].pc = "parts"
  /\ \E k \in rm[d].left :
       /\ parts' = [parts EXCEPT ![d] = @ \ {k}]
       /\ rm' = [rm EXCEPT ![d].left = @ \ {k}]
  /\ UNCHANGED <<dir, tmp, data, rec, run, clashed, runs, crashes>>

\* and os.Remove the final file, with the name that was read at the beginning.
RemoveFinal(d) ==
  /\ rm[d].pc = "parts" /\ rm[d].left = {}
  /\ rm' = [rm EXCEPT ![d].pc = "done"]
  /\ dir' = Unlink(dir, rm[d].name)
  /\ UNCHANGED <<tmp, data, parts, rec, run, clashed, runs, crashes>>

\* The process dies and is started again; the files are as they were.
Crash ==
  /\ crashes < MaxCrashes
  /\ crashes' = crashes + 1
  /\ run' = [d \in Downloads |-> Idle]
  /\ rm' = [d \in Downloads |-> IF rm[d].pc = "done" THEN rm[d] ELSE NoRemoval]
  /\ UNCHANGED <<dir, tmp, data, parts, rec, clashed, runs>>

Next ==
  \/ \E d \in Downloads :
       \/ Start(d) \/ FetchPart(d) \/ FetchError(d) \/ ListParts(d)
       \/ Stat(d) \/ Probe(d) \/ Clear(d) \/ Create(d) \/ CopyPart(d) \/ Rename(d)
       \/ CleanUp(d) \/ Verify(d) \/ Finish(d) \/ Requeue(d)
       \/ RemoveGet(d) \/ RemoveRecord(d) \/ RemoveAll(d) \/ RemovePart(d) \/ RemoveFinal(d)
  \/ Crash

Spec == Init /\ [][Next]_vars

-----------------------------------------------------------------------------
Chunks == [by : Downloads \cup {Nobody}, part : Nat, good : BOOLEAN]

Entry == [status : {"queued", "running", "completed", "failed", "gone"}, name : Path]

Runner == [pc : {"idle", "fetch", "stat", "probe", "clear", "create", "copy",
                 "clean", "verify", "complete", "fail"},
           todo : SUBSET (1..Parts), name : Path, try : Nat, fd : Nat, at : Nat \ {0},
           good : BOOLEAN]

Removal == [pc : {"idle", "delete", "files", "parts", "done"}, name : Path,
            left : SUBSET (1..Parts)]

\* The types of the state; every entry refers to an inode, and so does the
\* file a merge is writing.
TypeOK ==
  /\ data \in Seq(Seq(Chunks))
  /\ DOMAIN dir \subseteq Path /\ \A p \in DOMAIN dir : dir[p] \in 1..Len(data)
  /\ DOMAIN tmp \subseteq Path /\ \A p \in DOMAIN tmp : tmp[p] \in 1..Len(data)
  /\ parts \in [Downloads -> SUBSET (1..Parts)]
  /\ rec \in [Downloads -> Entry]
  /\ run \in [Downloads -> Runner]
  /\ \A d \in Downloads : run[d].pc = "copy" => run[d].fd \in 1..Len(data)
  /\ rm \in [Downloads -> Removal]

\* Some parts of what d has fetched, in their order.
PiecesOf(d, s) ==
  /\ s # <<>>
  /\ \A i \in 1..Len(s) : s[i].by = d /\ \A j \in 1..(i - 1) : s[j].part < s[i].part

\* A final path shows a file that was there before, or all the parts of one
\* download in their order, at any moment, also after a crash in the middle of
\* a merge ("Atomic replace", filestore.go:143).  Only a download that was
\* removed while it ran may leave a file with parts missing; and nothing is
\* said of a name that two merges were heading for at once.
FinalsWhole ==
  \A p \in DOMAIN dir \ clashed :
    \/ data[dir[p]] = Foreign
    \/ \E d \in Downloads :
         \/ \E good \in BOOLEAN : data[dir[p]] = Whole(d, good)
         \/ rec[d].status = "gone" /\ PiecesOf(d, data[dir[p]])

\* Why another file than d's may have the name of d's record: a download
\* that overwrites was given the same name, or a removal of another download
\* of that name deleted it.
Excused(d) ==
  \E e \in Downloads \ {d} :
    \/ /\ Policy[e] = "overwrite" /\ Exists(dir, rec[d].name)
       /\ PiecesOf(e, data[dir[rec[d].name]])
    \/ rm[e].pc = "done" /\ rm[e].name = rec[d].name

\* The name in d's record is that of d's file, the right one if d has a checksum.
OwnsFile(d) ==
  /\ Exists(dir, rec[d].name)
  /\ \E good \in BOOLEAN :
       (d \in Checked => good) /\ data[dir[rec[d].name]] = Whole(d, good)

\* A completed download has its own file under the name in its record, the
\* right one if it has a checksum: no later download whose options spare
\* existing files (README.md:193) has taken the name, unless the two merges
\* were heading for it at the same time.
CompletedOwnsFile ==
  \A d \in Downloads :
    /\ rec[d].status = "completed" /\ run[d].pc = "idle"
    /\ ~Excused(d) /\ rec[d].name \notin clashed
    => OwnsFile(d)

\* A file that was there before is replaced only by a download that
\* overwrites, and disappears only in a removal that names it.
ForeignKept ==
  [][\A p \in DOMAIN dir :
       data[dir[p]] = Foreign /\ ~(p \in DOMAIN dir' /\ data'[dir'[p]] = Foreign) =>
         \E d \in Downloads :
           \/ Policy[d] = "overwrite" /\ run[d].name = p
           \/ rm[d].pc = "parts" /\ rm[d].name = p]_vars

-----------------------------------------------------------------------------
(* What the documentation says and the code does not keep. *)

\* "unique_filename" and "overwrite: false" spare the files of others, also
\* when they are merged at the same time.
EachKeepsItsFile ==
  \A d \in Downloads :
    rec[d].status = "completed" /\ run[d].pc = "idle" /\ ~Excused(d) => OwnsFile(d)
=============================================================================
