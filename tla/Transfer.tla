------------------------------ MODULE Transfer ------------------------------
(***************************************************************************)
(* The bytes of one download: DownloadRunner.downloadSegments and          *)
(* downloadSegment, which fetch the segments of the plan side by side into *)
(* part files, and MergeSegments, which joins them.  The server may refuse *)
(* requests or ignore the range; the runner may be paused, the process may *)
(* crash, and the download is resumed from the part files.                 *)
(*                                                                         *)
(* A byte is its offset in the resource, so that a part file shows which   *)
(* bytes it holds and in which order.  Hashes, rate limits, delays and     *)
(* MaxFileSize are left out; one runner is at work at a time (see          *)
(* DownloadLifecycle for when that fails).                                 *)
(***************************************************************************)
EXTENDS Planner, FiniteSets, SequencesExt

CONSTANTS
  Length,       \* length of the resource, which HEAD reports
  Connections,  \* values of Config.MaxConnections
  RangeSupport, \* whether HEAD reports Accept-Ranges (and the config allows it)
  Answers,      \* how the server may answer (see AllAnswers)
  MayReplan,    \* whether config or HEAD may have changed when resuming
  MaxRetries,   \* Config.Retry.MaxRetries, 3 when it is not set
  MaxRuns,      \* bound on the number of calls of Run
  NoFile        \* no file: an empty one is another thing

\* refused: an error or a status of 400 and above; redirect: another status
\* but 200 and 206; wrong: 206 with another Content-Range than asked for;
\* partial: 206; whole: 200, the range is ignored; short: a body that ends
\* early without an error; broken: a body that ends in an error.
AllAnswers == {"refused", "redirect", "wrong", "partial", "whole", "short", "broken"}

ASSUME TransferAssumption ==
  /\ Length \in Nat
  /\ Connections \subseteq Int
  /\ RangeSupport \subseteq BOOLEAN
  /\ Answers \subseteq AllAnswers
  /\ MayReplan \in BOOLEAN
  /\ MaxRetries \in Nat \ {0}
  /\ MaxRuns \in Nat
  /\ NoFile \notin Seq(Nat)

VARIABLES
  plan,   \* the segments, as the last Run has planned them
  part,   \* the part file of each segment; no file and an empty one are alike
  seg,    \* the segment goroutines
  live,   \* the context of the runner is not done
  phase,  \* of the download: "running", "stopped", "failed" or "merged"
  file,   \* the file MergeSegments has renamed into place, or NoFile
  bytes,  \* Download.BytesCompleted
  runs    \* calls of Run so far

vars == <<plan, part, seg, live, phase, file, bytes, runs>>

Plans == {Plan(Length, r, c) : r \in RangeSupport, c \in Connections}

\* Part files are numbered; a plan of an earlier run may have had more.
Indices == DOMAIN part

----------------------------------------------------------------------------
\* A goroutine that is about to probe its part file.
FreshSegment == [pc |-> "probe", existing |-> 0, attempts |-> 0, pos |-> 0, lim |-> 0]

EmptyParts(p) == [i \in DOMAIN p |-> <<>>]

Init ==
  /\ plan \in Plans
  /\ part = EmptyParts(plan)
  /\ seg = [i \in DOMAIN plan |-> FreshSegment]
  /\ live = TRUE
  /\ phase = "running"
  /\ file = NoFile
  /\ bytes = 0
  /\ runs = 1

\* The first byte an attempt asks for.
From(i) == plan[i].start + seg[i].existing

\* Where the segment ends: the first byte that is not part of it.
Limit(i) == IF plan[i].end < 0 THEN Length ELSE plan[i].end + 1

\* The server cannot serve the range: it begins behind its end or the file's.
Unsatisfiable(i) == From(i) >= Length \/ (plan[i].end >= 0 /\ From(i) > plan[i].end)

At(i, pc) == phase = "running" /\ seg[i].pc = pc

\* Slip: the segment starts anew, but its writer still appends.
ProbeForgets(i) ==
  /\ At(i, "probe")
  /\ seg' = [seg EXCEPT ![i].pc = "request"]
  /\ UNCHANGED <<plan, part, live, phase, file, bytes, runs>>

\* The probe: how many bytes an earlier run has left in the part file.
Probe(i) ==
  /\ At(i, "probe")
  /\ seg' = [seg EXCEPT ![i].existing = Len(part[i]), ![i].pc = "request"]
  /\ UNCHANGED <<plan, part, live, phase, file, bytes, runs>>

\* Slips: the limit is not looked at; attempts start over when it is reached.
RetryWithoutLimit(s, giveUp) == [s EXCEPT !.attempts = @ + 1, !.pc = "request"]
RetryStartsOver(s, giveUp) ==
  [s EXCEPT !.attempts = IF @ + 1 > MaxRetries THEN 0 ELSE @ + 1, !.pc = "request"]

\* One more attempt, or what the segment returns when there have been too many.
Retry(s, giveUp) ==
  [s EXCEPT !.attempts = @ + 1, !.pc = IF s.attempts + 1 > MaxRetries THEN giveUp ELSE "request"]

\* A request that yields no body to copy.  After a status such as 302 there is
\* no error to return, and a wrong Content-Range does not count towards the
\* limit (attempts beyond it are all alike).
NoBody(i) ==
  /\ At(i, "request")
  /\ live
  /\ \/ /\ "refused" \in Answers \/ Unsatisfiable(i)
        /\ seg' = [seg EXCEPT ![i] = Retry(@, "error")]
     \/ /\ "redirect" \in Answers
        /\ seg' = [seg EXCEPT ![i] = Retry(@, "done")]
     \/ /\ "wrong" \in Answers
        /\ seg' = [seg EXCEPT ![i].attempts = IF @ > MaxRetries THEN @ ELSE @ + 1]
  /\ UNCHANGED <<plan, part, live, phase, file, bytes, runs>>

Copying(i, lim) == [seg[i] EXCEPT !.pc = "copy", !.pos = From(i), !.lim = lim]

Smaller(a, b) == IF a < b THEN a ELSE b

Bigger(a, b) == IF a > b THEN a ELSE b

\* 206: the bytes asked for.
PartialBody(i) ==
  /\ At(i, "request")
  /\ live
  /\ "partial" \in Answers
  /\ ~Unsatisfiable(i)
  /\ seg' = [seg EXCEPT ![i] = Copying(i, Smaller(Limit(i), Length))]
  /\ UNCHANGED <<plan, part, live, phase, file, bytes, runs>>

\* 200: the whole file, of which the bytes before the range are discarded and
\* the ones behind it are not read.
WholeBody(i) ==
  /\ At(i, "request")
  /\ live
  /\ "whole" \in Answers
  /\ seg' = [seg EXCEPT ![i] =
               IF From(i) > Length THEN Retry(@, "error")
               ELSE Copying(i, Smaller(Bigger(Limit(i), From(i)), Length))]
  /\ UNCHANGED <<plan, part, live, phase, file, bytes, runs>>

\* OpenSegmentWriter seeks to the end of the part file, so bytes are appended.
CopyByte(i) ==
  /\ At(i, "copy")
  /\ seg[i].pos < seg[i].lim
  /\ part' = [part EXCEPT ![i] = Append(@, seg[i].pos)]
  /\ seg' = [seg EXCEPT ![i].pos = @ + 1]
  /\ UNCHANGED <<plan, live, phase, file, bytes, runs>>

\* Slip: the bytes of earlier runs are counted again.
WrittenInTotal(i) == seg[i].pos - plan[i].start

\* The bytes this attempt has written.
Written(i) == seg[i].pos - From(i)

\* Slip: only too many bytes are an error.
ExpectedAtMost(i) ==
  plan[i].end >= 0 => seg[i].existing + Written(i) <= plan[i].end - plan[i].start + 1

\* The length check, which is only made when the end of the segment is known.
Expected(i) ==
  plan[i].end >= 0 => seg[i].existing + Written(i) = plan[i].end - plan[i].start + 1

\* The body ends: the segment is complete and reports its bytes, or the
\* attempt has failed.
BodyEnds(i) ==
  /\ At(i, "copy")
  /\ \E how \in {"eof", "short", "broken"} :
       /\ IF how = "eof" THEN seg[i].pos = seg[i].lim ELSE how \in Answers
       /\ IF how # "broken" /\ Expected(i)
          THEN seg' = [seg EXCEPT ![i].pc = "done"] /\ bytes' = bytes + Written(i)
          ELSE seg' = [seg EXCEPT ![i] = Retry(@, "error")] /\ UNCHANGED bytes
  /\ UNCHANGED <<plan, part, live, phase, file, runs>>

\* A segment notices that the context is done, while waiting or copying.
Cancelled(i) ==
  /\ ~live
  /\ At(i, "request") \/ At(i, "copy")
  /\ seg' = [seg EXCEPT ![i].pc = "error"]
  /\ UNCHANGED <<plan, part, live, phase, file, bytes, runs>>

SegmentStep(i) ==
  Probe(i) \/ NoBody(i) \/ PartialBody(i) \/ WholeBody(i) \/ CopyByte(i) \/ BodyEnds(i) \/ Cancelled(i)

----------------------------------------------------------------------------
Ended == phase = "running" /\ \A i \in DOMAIN plan : seg[i].pc \in {"done", "error"}

\* downloadSegments returns an error once all segments have returned.
JoinError ==
  /\ Ended
  /\ \E i \in DOMAIN plan : seg[i].pc = "error"
  /\ phase' = IF live THEN "failed" ELSE "stopped"
  /\ UNCHANGED <<plan, part, seg, live, file, bytes, runs>>

AllDone == Ended /\ \A i \in DOMAIN plan : seg[i].pc = "done"

\* MergeSegments joins every part file there is, in the order of their
\* numbers, renames the result into place and removes the part files.  The
\* checksum that is verified then may be wrong.
Merge ==
  /\ AllDone
  /\ file' = FlattenSeq(part)
  /\ part' = [i \in Indices |-> <<>>]
  /\ phase' \in {"merged", "failed"}
  /\ UNCHANGED <<plan, seg, live, bytes, runs>>

\* An I/O error, or the target exists and may not be overwritten.
MergeError ==
  /\ AllDone
  /\ phase' = "failed"
  /\ UNCHANGED <<plan, part, seg, live, file, bytes, runs>>

Pause ==
  /\ phase = "running"
  /\ live
  /\ live' = FALSE
  /\ UNCHANGED <<plan, part, seg, phase, file, bytes, runs>>

\* The process ends, possibly after the rename and before all part files have
\* been removed.
Crash ==
  /\ phase = "running"
  /\ phase' = "stopped"
  /\ \/ UNCHANGED <<part, file>>
     \/ /\ AllDone
        /\ file' = FlattenSeq(part)
        /\ \E gone \in SUBSET Indices :
             part' = [i \in Indices |-> IF i \in gone THEN <<>> ELSE part[i]]
  /\ UNCHANGED <<plan, seg, live, bytes, runs>>

\* Part files that plan p does not know stay where they are.
PartsFor(p) ==
  LET all == Indices \cup DOMAIN p IN
  [i \in all |-> IF i \in Indices THEN part[i] ELSE <<>>]

\* A new Run, after a pause, a failure, a crash or even a merge: Start and
\* Resume do not look at the status.  BytesCompleted is loaded as it was last
\* stored, and reports under a done context have not been.
Resume ==
  /\ phase # "running"
  /\ runs < MaxRuns
  /\ runs' = runs + 1
  /\ plan' \in IF MayReplan THEN Plans ELSE {plan}
  /\ part' = PartsFor(plan')
  /\ seg' = [i \in DOMAIN plan' |-> FreshSegment]
  /\ live' = TRUE
  /\ phase' = "running"
  /\ bytes' \in 0..bytes
  /\ UNCHANGED file

Next ==
  \/ \E i \in DOMAIN plan : SegmentStep(i)
  \/ JoinError \/ Merge \/ MergeError \/ Pause \/ Crash \/ Resume

Spec == Init /\ [][Next]_vars

\* Goroutines are scheduled and the server answers in the end.
FairSpec ==
  /\ Spec
  /\ WF_vars(\E i \in DOMAIN plan : SegmentStep(i))
  /\ WF_vars(JoinError \/ Merge \/ MergeError)

----------------------------------------------------------------------------
(* What the transfer promises.                                             *)

SegmentPC == {"probe", "request", "copy", "done", "error"}

SegmentRec == [pc : SegmentPC, existing : Nat, attempts : 0..(MaxRetries + 2),
               pos : Nat, lim : Nat]

\* Type invariant: every segment of the plan has a goroutine and a part file,
\* and no goroutine makes more attempts than the limit allows.
TypeOK ==
  /\ plan \in Plans
  /\ part \in [Indices -> Seq(Nat)] /\ DOMAIN plan \subseteq Indices
  /\ seg \in [DOMAIN plan -> SegmentRec]
  /\ live \in BOOLEAN
  /\ phase \in {"running", "stopped", "failed", "merged"}
  /\ file \in Seq(Nat) \cup {NoFile}
  /\ bytes \in Nat
  /\ runs \in Nat

\* A part file holds the first bytes of its segment, in order and each once,
\* whenever the runner is paused or the process crashes: this is what the
\* resume from the length of the part file relies on.
PartsArePrefixes ==
  \A i \in DOMAIN plan :
    /\ plan[i].start + Len(part[i]) <= Limit(i)
    /\ \A k \in 1..Len(part[i]) : part[i][k] = plan[i].start + k - 1

\* The file that is renamed into place is the resource, byte for byte.
FileExact == file # NoFile => file = [k \in 1..Length |-> k - 1]

\* Until the file is first renamed into place, BytesCompleted never exceeds
\* the length of the resource, although segments resume, retry and report at
\* different times.  (It is not reset when a merged download is run again.)
ProgressBounded == file = NoFile => bytes <= Length

\* A segment whose end is known is only complete when its part file is, although
\* bodies may end early or break off and attempts append to what is there.
DoneNotShort ==
  \A i \in DOMAIN plan :
    phase = "running" /\ seg[i].pc = "done" /\ plan[i].end >= 0
      => plan[i].start + Len(part[i]) >= Limit(i)

\* downloadSegments comes to an end: no segment retries for ever.
TransferEnds == phase = "running" ~> phase # "running"

----------------------------------------------------------------------------
(* The inductive invariants behind DoneNotShort and PartsArePrefixes.      *)

TransferShape ==
  /\ plan \in Plans
  /\ part \in [Indices -> Seq(Nat)] /\ DOMAIN plan \subseteq Indices
  /\ seg \in [DOMAIN plan -> [pc : SegmentPC, existing : Nat, attempts : Nat, pos : Nat, lim : Nat]]

\* An attempt that copies has at least written what it has read.
SegmentFilled(i) ==
  /\ seg[i].pc = "request" => Len(part[i]) >= seg[i].existing
  /\ seg[i].pc = "copy" => seg[i].pos >= From(i) /\ plan[i].start + Len(part[i]) >= seg[i].pos
  /\ seg[i].pc = "done" /\ plan[i].end >= 0 => plan[i].start + Len(part[i]) >= Limit(i)

FilledInv == phase = "running" => \A i \in DOMAIN plan : SegmentFilled(i)

\* An attempt starts where the part file ends, and its body ends where the
\* segment does.
SegmentAligned(i) ==
  /\ seg[i].pc = "request" => seg[i].existing = Len(part[i])
  /\ seg[i].pc = "copy" => /\ seg[i].pos = plan[i].start + Len(part[i])
                           /\ seg[i].lim = Limit(i)

AlignedInv == phase = "running" => \A i \in DOMAIN plan : SegmentAligned(i)
=============================================================================
