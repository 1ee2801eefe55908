------------------------- MODULE TransferFileProofs -------------------------
(***************************************************************************)
(* What the bytes of the parts come to: the types of Transfer, the file    *)
(* MergeSegments makes of the part files, and the count of bytes that      *)
(* downloadSegments reports, for every length and every number of runs.    *)
(*                                                                         *)
(* The joined file and the sum of the counts are defined by recursion over *)
(* the segments.  Facts about them are proved with the least segment that  *)
(* would violate them (LeastNumber).                                       *)
(***************************************************************************)
EXTENDS TransferProofs, WellFoundedInduction

\* Ranges are only used when there are no more connections than bytes.
Sized == \A c \in Connections : TRUE \in RangeSupport /\ Length > 0 => MaxConns(c) <= Length

\* Attempts stay below the limit, and an attempt has not read less than
\* nothing.
SegmentCounts(i) ==
  /\ seg[i].attempts <= MaxRetries + 2
  /\ seg[i].pc \in {"probe", "request", "copy"} => seg[i].attempts <= MaxRetries + 1
  /\ seg[i].pc = "copy" => From(i) <= seg[i].pos

\* The part files and the plan are numbered from 1.
Numbered(S) == \E n \in Nat \ {0} : S = 1..n

TypeInv ==
  /\ TransferShape
  /\ Numbered(Indices)
  /\ \A i \in DOMAIN plan : SegmentCounts(i)
  /\ live \in BOOLEAN
  /\ phase \in {"running", "stopped", "failed", "merged"}
  /\ file \in Seq(Nat) \cup {NoFile}
  /\ bytes \in Nat
  /\ runs \in Nat

\* A segment that is complete has its last byte.
DoneExact ==
  phase = "running" =>
    \A i \in DOMAIN plan : seg[i].pc = "done" => plan[i].start + Len(part[i]) = Limit(i)

ExactInv ==
  /\ TransferShape /\ AlignedInv /\ PartsArePrefixes
  /\ Indices = DOMAIN plan
  /\ DoneExact /\ FileExact

\* The part file holds at least what an attempt resumed from and has read,
\* and no attempt reads beyond the end of the file.
Reach(i) ==
  /\ seg[i].pc \in {"request", "error"} => seg[i].existing <= Len(part[i])
  /\ seg[i].pc = "copy" => /\ From(i) <= seg[i].pos
                           /\ seg[i].pos <= plan[i].start + Len(part[i])
                           /\ seg[i].pos <= Length /\ seg[i].lim <= Length

\* The bytes of segment i that may have been reported: not those that an
\* attempt is about to report.
Reported(i) ==
  Smaller(IF seg[i].pc \in {"probe", "done"} THEN Len(part[i]) ELSE seg[i].existing,
          Limit(i) - plan[i].start)

\* acc bounds the bytes reported by the first segments.
Bounded(acc, n) ==
  /\ acc[0] = 0
  /\ \A i \in 1..n : acc[i] <= acc[i - 1] + Reported(i)
  /\ bytes <= acc[n]

ProgressInv ==
  file = NoFile =>
    /\ \A i \in DOMAIN plan : Reach(i)
    /\ \E n \in Nat : DOMAIN plan = 1..n /\ \E acc \in [0..n -> Nat] : Bounded(acc, n)

----------------------------------------------------------------------------
(* Numbers and sequences.                                                  *)

LEMMA LeastNumber ==
  ASSUME NEW T \in SUBSET Nat, T # {}
  PROVE  \E x \in T : \A y \in T : x <= y
<1> DEFINE R == OpToRel(<, Nat)
<1>1. IsWellFoundedOn(R, Nat)
  BY NatLessThanWellFounded
<1>2. \A x, y \in Nat : y < x => <<y, x>> \in R
  BY DEF OpToRel
<1> HIDE DEF R
<1>3. PICK x \in T : \A y \in T : ~(<<y, x>> \in R)
  BY <1>1, WFMin
<1>4. ASSUME NEW y \in T PROVE x <= y
  <2>1. x \in Nat /\ y \in Nat
    OBVIOUS
  <2>2. ~(y < x)
    BY <1>2, <1>3, <2>1
  <2> QED
    BY <2>1, <2>2
<1> QED
  BY <1>4

\* The parts of seqs up to i, joined.
Joins(f, seqs, n) ==
  f = [i \in 1..n |-> IF i = 1 THEN seqs[i] ELSE f[i - 1] \o seqs[i]]

LEMMA JoinsFacts ==
  ASSUME NEW seqs \in Seq(Seq(Nat)), NEW n \in 1..Len(seqs), NEW f, Joins(f, seqs, n)
  PROVE  /\ f[1] = seqs[1]
         /\ \A i \in 2..n : f[i] = f[i - 1] \o seqs[i]
         /\ \A i \in 1..n : f[i] \in Seq(Nat)
<1>1. f[1] = seqs[1]
  BY DEF Joins
<1>2. ASSUME NEW i \in 2..n PROVE f[i] = f[i - 1] \o seqs[i]
  <2>1. i \in 1..n /\ i # 1
    OBVIOUS
  <2> QED
    BY <2>1, Zenon DEF Joins
<1>3. \A i \in 1..n : f[i] \in Seq(Nat)
  <2> DEFINE T == {i \in Nat : i \in 1..n /\ f[i] \notin Seq(Nat)}
  <2> SUFFICES ASSUME T # {} PROVE FALSE
    OBVIOUS
  <2>1. T \in SUBSET Nat
    OBVIOUS
  <2>2. PICK i \in T : \A j \in T : i <= j
    BY <2>1, LeastNumber
  <2>3. i \in 1..n /\ f[i] \notin Seq(Nat) /\ seqs[i] \in Seq(Nat)
    BY <2>2
  <2>4. i # 1
    BY <1>1, <2>3
  <2>5. i - 1 \in 1..n /\ i \in 2..n /\ i - 1 \in Nat /\ i - 1 < i
    BY <2>3, <2>4
  <2>6. f[i - 1] \in Seq(Nat)
    BY <2>2, <2>5
  <2>7. f[i - 1] \o seqs[i] \in Seq(Nat)
    BY <2>3, <2>6
  <2> QED
    BY <1>2, <2>3, <2>5, <2>7
<1> QED
  BY <1>1, <1>2, <1>3

\* There is such a function: take the least number of parts without one.
LEMMA JoinsExists ==
  ASSUME NEW seqs \in Seq(Seq(Nat)), NEW n \in 1..Len(seqs)
  PROVE  \E f : Joins(f, seqs, n)
<1> DEFINE T == {m \in Nat : m \in 1..Len(seqs) /\ ~\E f : Joins(f, seqs, m)}
<1> SUFFICES ASSUME T # {} PROVE FALSE
  OBVIOUS
<1>1. T \in SUBSET Nat
  OBVIOUS
<1>2. PICK m \in T : \A k \in T : m <= k
  BY <1>1, LeastNumber
<1>3. m \in 1..Len(seqs) /\ ~\E f : Joins(f, seqs, m)
  BY <1>2
<1>4. CASE m = 1
  <2> DEFINE g == [i \in 1..1 |-> seqs[1]]
  <2>1. g = [i \in 1..1 |-> IF i = 1 THEN seqs[i] ELSE g[i - 1] \o seqs[i]]
    <3>1. \A i \in 1..1 : seqs[1] = IF i = 1 THEN seqs[i] ELSE g[i - 1] \o seqs[i]
      BY SMT
    <3> QED
      BY <3>1, Zenon
  <2>2. Joins(g, seqs, 1)
    BY <2>1, Zenon DEF Joins
  <2> QED
    BY <1>3, <1>4, <2>2
<1>5. CASE m # 1
  <2>1. m - 1 \in 1..Len(seqs) /\ m - 1 \in Nat /\ m - 1 < m /\ m \in Nat
    BY <1>3, <1>5
  <2>2. PICK f : Joins(f, seqs, m - 1)
    <3>1. m - 1 \notin T
      <4> HIDE DEF T
      <4> QED
        BY <1>1, <1>2, <2>1
    <3> QED
      BY <2>1, <3>1, Zenon
  <2> DEFINE g == [i \in 1..m |-> IF i = m THEN f[m - 1] \o seqs[m] ELSE f[i]]
  <2>3. ASSUME NEW i \in 1..m PROVE g[i] = IF i = 1 THEN seqs[i] ELSE g[i - 1] \o seqs[i]
    <3>1. CASE i = m
      <4>0. m \in 1..m /\ m - 1 \in 1..m /\ m - 1 # m
        BY <2>1
      <4>1. g[m] = f[m - 1] \o seqs[m] /\ g[m - 1] = f[m - 1]
        BY <4>0, Zenon
      <4> HIDE DEF g
      <4> QED
        BY <1>5, <3>1, <4>1, Zenon
    <3>2. CASE i # m /\ i # 1
      <4>1. i \in 1..(m - 1) /\ i - 1 \in 1..m /\ i - 1 # m
        BY <2>1, <3>2
      <4>2. f[i] = f[i - 1] \o seqs[i]
        <5>1. f[i] = IF i = 1 THEN seqs[i] ELSE f[i - 1] \o seqs[i]
          BY <2>2, <4>1, Zenon DEF Joins
        <5> QED
          BY <3>2, <5>1
      <4>3. g[i] = f[i] /\ g[i - 1] = f[i - 1]
        BY <3>2, <4>1
      <4> QED
        BY <3>2, <4>2, <4>3
    <3>3. CASE i # m /\ i = 1
      <4>1. i \in 1..(m - 1)
        BY <2>1, <3>3
      <4>2. f[i] = IF i = 1 THEN seqs[i] ELSE f[i - 1] \o seqs[i]
        BY <2>2, <4>1, Zenon DEF Joins
      <4>3. g[i] = f[i]
        BY <3>3
      <4> QED
        BY <3>3, <4>2, <4>3
    <3> QED
      BY <3>1, <3>2, <3>3
  <2>4. g = [i \in 1..m |-> g[i]]
    OBVIOUS
  <2> HIDE DEF g
  <2>5. Joins(g, seqs, m)
    BY <2>3, <2>4 DEF Joins
  <2> QED
    BY <1>3, <2>5
<1> QED
  BY <1>4, <1>5

\* What FlattenSeq makes of part files.
LEMMA Flattened ==
  ASSUME NEW seqs \in Seq(Seq(Nat)), Len(seqs) # 0
  PROVE  \E f : Joins(f, seqs, Len(seqs)) /\ FlattenSeq(seqs) = f[Len(seqs)]
<1> DEFINE D(h) == h = [i \in 1..Len(seqs) |-> IF i = 1 THEN seqs[i] ELSE h[i - 1] \o seqs[i]]
           f == CHOOSE h : D(h)
<1>1. Len(seqs) \in 1..Len(seqs)
  OBVIOUS
<1>2. \E h : D(h)
  BY <1>1, JoinsExists DEF Joins
<1>3. D(f)
  <2> HIDE DEF D
  <2> QED
    BY <1>2, Zenon
<1>4. FlattenSeq(seqs) = f[Len(seqs)]
  BY Zenon DEF FlattenSeq
<1>5. Joins(f, seqs, Len(seqs))
  BY <1>3, Zenon DEF Joins
<1> QED
  BY <1>4, <1>5, Zenon

LEMMA FlattenedType ==
  ASSUME NEW seqs \in Seq(Seq(Nat)), Len(seqs) # 0
  PROVE  FlattenSeq(seqs) \in Seq(Nat)
<1>1. PICK f : Joins(f, seqs, Len(seqs)) /\ FlattenSeq(seqs) = f[Len(seqs)]
  BY Flattened
<1>2. Len(seqs) \in 1..Len(seqs)
  OBVIOUS
<1>3. f[Len(seqs)] \in Seq(Nat)
  BY <1>1, <1>2, JoinsFacts
<1> QED
  BY <1>1, <1>3

----------------------------------------------------------------------------
(* What the steps of a segment goroutine do.                               *)

Probes(i) ==
  /\ seg[i].pc = "probe" /\ seg'[i].pc = "request"
  /\ seg'[i].existing = Len(part[i]) /\ seg'[i].attempts = seg[i].attempts
  /\ part' = part /\ bytes' = bytes

\* An attempt ends without success, or without effect.
Fails(i) ==
  /\ seg[i].pc \in {"request", "copy"} /\ seg'[i].pc \in {"request", "error", "done"}
  /\ seg'[i].pc = "done" => seg[i].pc = "request" /\ "redirect" \in Answers
  /\ seg'[i].existing = seg[i].existing
  /\ \/ seg'[i].attempts = seg[i].attempts /\ seg'[i].pc = "error"
     \/ seg'[i].attempts = seg[i].attempts + 1
        /\ (seg'[i].pc = "request" => seg[i].attempts <= MaxRetries)
     \/ seg'[i].attempts = seg[i].attempts
        /\ seg'[i].pc = seg[i].pc
  /\ part' = part /\ bytes' = bytes

Begins(i) ==
  /\ seg[i].pc = "request" /\ seg'[i].pc = "copy"
  /\ seg'[i].existing = seg[i].existing /\ seg'[i].attempts = seg[i].attempts
  /\ seg'[i].pos = From(i) /\ From(i) <= Length /\ seg'[i].lim <= Length
  /\ part' = part /\ bytes' = bytes

Copies(i) ==
  /\ seg[i].pc = "copy" /\ seg'[i].pc = "copy" /\ seg[i].pos < seg[i].lim
  /\ seg'[i].existing = seg[i].existing /\ seg'[i].attempts = seg[i].attempts
  /\ seg'[i].pos = seg[i].pos + 1 /\ seg'[i].lim = seg[i].lim
  /\ part'[i] = Append(part[i], seg[i].pos) /\ DOMAIN part' = DOMAIN part
  /\ bytes' = bytes

Completes(i) ==
  /\ seg[i].pc = "copy" /\ seg'[i].pc = "done"
  /\ seg'[i].existing = seg[i].existing /\ seg'[i].attempts = seg[i].attempts
  /\ Expected(i)
  /\ seg[i].pos # seg[i].lim => "short" \in Answers
  /\ part' = part /\ bytes' = bytes + Written(i)

\* Retry, as a record.
LEMMA RetryFields ==
  ASSUME NEW s \in SegRecord, NEW giveUp \in SegmentPC
  PROVE  /\ Retry(s, giveUp).attempts = s.attempts + 1
         /\ Retry(s, giveUp).pc = IF s.attempts + 1 > MaxRetries THEN giveUp ELSE "request"
         /\ Retry(s, giveUp).existing = s.existing
BY DEF Retry, SegRecord

LEMMA SegmentMoves ==
  ASSUME TransferShape, NEW i \in DOMAIN plan, SegmentStep(i)
  PROVE  /\ Probes(i) \/ Fails(i) \/ Begins(i) \/ Copies(i) \/ Completes(i)
         /\ UNCHANGED <<plan, live, phase, file, runs>>
<1>0. /\ seg[i] \in SegRecord /\ i \in DOMAIN seg /\ i \in DOMAIN part
      /\ seg[i].attempts \in Nat /\ MaxRetries \in Nat /\ Length \in Nat
      /\ Limit(i) \in Nat /\ Limit(i) <= Length /\ From(i) \in Nat
  <2>1. seg[i] \in SegRecord
    BY SegmentNumbers
  <2>2. Length \in Nat /\ MaxRetries \in Nat
    BY TransferAssumption
  <2>3. From(i) \in Nat
    BY <2>2, CopyingShape
  <2> QED
    BY <2>1, <2>2, <2>3, LimitInFile DEF TransferShape, Indices, SegRecord
<1>1. CASE Probe(i)
  BY <1>0, <1>1 DEF Probe, At, Probes, SegRecord
<1>2. ASSUME NEW giveUp \in {"error", "done"}, seg' = [seg EXCEPT ![i] = Retry(seg[i], giveUp)],
             seg[i].pc \in {"request", "copy"}, part' = part, bytes' = bytes,
             giveUp = "done" => seg[i].pc = "request" /\ "redirect" \in Answers
      PROVE  Fails(i)
  <2>1. seg'[i] = Retry(seg[i], giveUp) /\ giveUp \in SegmentPC
    BY <1>0, <1>2 DEF SegmentPC
  <2>2. /\ seg'[i].attempts = seg[i].attempts + 1 /\ seg'[i].existing = seg[i].existing
        /\ seg'[i].pc = IF seg[i].attempts + 1 > MaxRetries THEN giveUp ELSE "request"
    BY <1>0, <2>1, RetryFields
  <2>3. seg'[i].pc = "request" => seg[i].attempts <= MaxRetries
    BY <1>0, <2>2
  <2> QED
    BY <1>2, <2>2, <2>3 DEF Fails
<1>3. CASE NoBody(i)
  <2>1. seg[i].pc = "request" /\ part' = part /\ bytes' = bytes
        /\ UNCHANGED <<plan, live, phase, file, runs>>
    BY <1>3 DEF NoBody, At
  <2>2. CASE seg' = [seg EXCEPT ![i] = Retry(seg[i], "error")]
    BY <1>2, <2>1, <2>2
  <2>3. CASE "redirect" \in Answers /\ seg' = [seg EXCEPT ![i] = Retry(seg[i], "done")]
    BY <1>2, <2>1, <2>3
  <2>4. CASE seg' = [seg EXCEPT ![i].attempts = IF @ > MaxRetries THEN @ ELSE @ + 1]
    <3>1. /\ seg'[i].pc = "request" /\ seg'[i].existing = seg[i].existing
          /\ seg'[i].attempts = IF seg[i].attempts > MaxRetries THEN seg[i].attempts
                                ELSE seg[i].attempts + 1
      BY <1>0, <2>1, <2>4 DEF SegRecord
    <3> QED
      BY <1>0, <2>1, <3>1 DEF Fails
  <2> QED
    BY <1>3, <2>1, <2>2, <2>3, <2>4 DEF NoBody
<1>4. ASSUME NEW lim \in Nat, lim <= Length, From(i) <= Length, seg[i].pc = "request",
             seg' = [seg EXCEPT ![i] = Copying(i, lim)], part' = part, bytes' = bytes
      PROVE  Begins(i)
  <2>1. seg'[i] = [seg[i] EXCEPT !.pc = "copy", !.pos = From(i), !.lim = lim]
    BY <1>0, <1>4 DEF Copying
  <2>2. /\ seg'[i].pc = "copy" /\ seg'[i].pos = From(i) /\ seg'[i].lim = lim
        /\ seg'[i].existing = seg[i].existing /\ seg'[i].attempts = seg[i].attempts
    BY <1>0, <2>1 DEF SegRecord
  <2> QED
    BY <1>4, <2>2 DEF Begins
<1>5. CASE PartialBody(i)
  <2>1. /\ seg[i].pc = "request" /\ part' = part /\ bytes' = bytes
        /\ UNCHANGED <<plan, live, phase, file, runs>>
        /\ seg' = [seg EXCEPT ![i] = Copying(i, Smaller(Limit(i), Length))]
        /\ From(i) < Length
    BY <1>0, <1>5 DEF PartialBody, At, Unsatisfiable
  <2>2. Smaller(Limit(i), Length) \in Nat /\ Smaller(Limit(i), Length) <= Length
    BY <1>0 DEF Smaller
  <2>3. From(i) <= Length
    BY <1>0, <2>1
  <2>4. Begins(i)
    BY <1>4, <2>1, <2>2, <2>3
  <2> QED
    BY <2>1, <2>4
<1>6. CASE WholeBody(i)
  <2>1. /\ seg[i].pc = "request" /\ part' = part /\ bytes' = bytes
        /\ UNCHANGED <<plan, live, phase, file, runs>>
    BY <1>6 DEF WholeBody, At
  <2>2. CASE From(i) > Length
    <3>1. seg' = [seg EXCEPT ![i] = Retry(seg[i], "error")]
      BY <1>6, <2>2 DEF WholeBody
    <3> QED
      BY <1>2, <2>1, <3>1
  <2>3. CASE ~(From(i) > Length)
    <3> DEFINE lim == Smaller(Bigger(Limit(i), From(i)), Length)
    <3>1. seg' = [seg EXCEPT ![i] = Copying(i, lim)]
      BY <1>6, <2>3 DEF WholeBody
    <3>2. lim \in Nat /\ lim <= Length /\ From(i) <= Length
      BY <1>0, <2>3 DEF Smaller, Bigger
    <3> HIDE DEF lim
    <3> QED
      BY <1>4, <2>1, <3>1, <3>2
  <2> QED
    BY <2>2, <2>3
<1>7. CASE CopyByte(i)
  <2>1. /\ part' = [part EXCEPT ![i] = Append(part[i], seg[i].pos)] /\ bytes' = bytes
        /\ UNCHANGED <<plan, live, phase, file, runs>>
        /\ seg[i].pc = "copy" /\ seg[i].pos < seg[i].lim
        /\ seg' = [seg EXCEPT ![i].pos = seg[i].pos + 1]
    BY <1>7 DEF CopyByte, At
  <2>2. /\ seg'[i].pc = "copy" /\ seg'[i].existing = seg[i].existing
        /\ seg'[i].attempts = seg[i].attempts
        /\ seg'[i].pos = seg[i].pos + 1 /\ seg'[i].lim = seg[i].lim
    BY <1>0, <2>1 DEF SegRecord
  <2> QED
    BY <1>0, <2>1, <2>2 DEF Copies
<1>8. CASE BodyEnds(i)
  <2>1. /\ seg[i].pc = "copy" /\ part' = part
        /\ UNCHANGED <<plan, live, phase, file, runs>>
    BY <1>8 DEF BodyEnds, At
  <2>2. CASE seg' = [seg EXCEPT ![i] = Retry(seg[i], "error")] /\ bytes' = bytes
    BY <1>2, <2>1, <2>2
  <2>3. CASE ~(seg' = [seg EXCEPT ![i] = Retry(seg[i], "error")] /\ bytes' = bytes)
    <3>1. /\ seg' = [seg EXCEPT ![i].pc = "done"] /\ bytes' = bytes + Written(i) /\ Expected(i)
          /\ seg[i].pos # seg[i].lim => "short" \in Answers
      BY <1>8, <2>3 DEF BodyEnds
    <3>2. /\ seg'[i].pc = "done" /\ seg'[i].existing = seg[i].existing
          /\ seg'[i].attempts = seg[i].attempts
      BY <1>0, <3>1 DEF SegRecord
    <3> QED
      BY <2>1, <3>1, <3>2 DEF Completes
  <2> QED
    BY <2>2, <2>3
<1>9. CASE Cancelled(i)
  <2>1. /\ seg[i].pc \in {"request", "copy"} /\ part' = part /\ bytes' = bytes
        /\ UNCHANGED <<plan, live, phase, file, runs>>
        /\ seg' = [seg EXCEPT ![i].pc = "error"]
    BY <1>9 DEF Cancelled, At
  <2>2. /\ seg'[i].pc = "error" /\ seg'[i].existing = seg[i].existing
        /\ seg'[i].attempts = seg[i].attempts
    BY <1>0, <2>1 DEF SegRecord
  <2> QED
    BY <2>1, <2>2 DEF Fails
<1>10. UNCHANGED <<plan, live, phase, file, runs>>
  BY DEF SegmentStep, Probe, NoBody, PartialBody, WholeBody, CopyByte, BodyEnds, Cancelled
<1> QED
  BY <1>1, <1>3, <1>5, <1>6, <1>7, <1>8, <1>9, <1>10 DEF SegmentStep

----------------------------------------------------------------------------
(* Types.                                                                  *)

LEMMA PlansNumbered ==
  ASSUME NEW p \in Plans
  PROVE  Numbered(DOMAIN p)
<1>1. PICK r \in RangeSupport, c \in Connections : p = Plan(Length, r, c)
  BY DEF Plans
<1>2. MaxConns(c) \in Nat \ {0}
  BY TransferAssumption, ConnsPositive
<1>3. CASE ~r \/ Length <= 0
  <2>1. p = <<[start |-> 0, end |-> -1]>>
    BY <1>1, <1>3 DEF Plan
  <2>2. DOMAIN p = 1..1
    BY <2>1
  <2> QED
    BY <2>2 DEF Numbered
<1>4. CASE ~(~r \/ Length <= 0)
  <2>1. DOMAIN p = 1..MaxConns(c)
    BY <1>1, <1>4 DEF Plan
  <2> QED
    BY <1>2, <2>1 DEF Numbered
<1> QED
  BY <1>3, <1>4

LEMMA PartsSequence ==
  ASSUME TransferShape, Numbered(Indices)
  PROVE  part \in Seq(Seq(Nat)) /\ Len(part) # 0
<1>1. PICK n \in Nat \ {0} : DOMAIN part = 1..n
  BY DEF Numbered, Indices
<1>2. part \in [1..n -> Seq(Nat)]
  BY <1>1 DEF TransferShape, Indices
<1> QED
  BY <1>2

LEMMA CountsStep ==
  ASSUME TransferShape, NEW i \in DOMAIN plan, SegmentStep(i),
         NEW j \in DOMAIN plan, SegmentCounts(j)
  PROVE  SegmentCounts(j)'
<1>0. plan' = plan /\ MaxRetries \in Nat
  BY OtherSegments, TransferAssumption
<1>1. CASE j # i
  <2>1. seg'[j] = seg[j]
    BY <1>1, OtherSegments
  <2> QED
    BY <1>0, <2>1 DEF SegmentCounts, From
<1>2. CASE j = i
  <2>0. /\ seg[i].attempts \in Nat /\ seg[i].pos \in Nat /\ seg[i].existing \in Nat
        /\ plan[i].start \in Nat
        /\ From(i) \in Nat /\ From(i) = plan[i].start + seg[i].existing
    <3>1. seg[i] \in SegRecord /\ plan[i].start \in Nat
      BY SegmentNumbers, LimitInFile
    <3> QED
      BY <3>1 DEF SegRecord, From
  <2>1. seg[i].attempts <= MaxRetries + 2
        /\ (seg[i].pc \in {"probe", "request", "copy"} => seg[i].attempts <= MaxRetries + 1)
        /\ (seg[i].pc = "copy" => From(i) <= seg[i].pos)
    BY <1>2 DEF SegmentCounts
  <2>2. seg'[i].existing = seg[i].existing => From(i)' = From(i)
    BY <1>0 DEF From
  <2>3. CASE Probes(i)
    BY <1>2, <2>0, <2>1, <2>3 DEF Probes, SegmentCounts
  <2>4. CASE Fails(i)
    <3>1. seg'[i].attempts <= MaxRetries + 2
      BY <1>0, <2>0, <2>1, <2>4 DEF Fails
    <3>2. seg'[i].pc = "request" => seg'[i].attempts <= MaxRetries + 1
      BY <1>0, <2>0, <2>1, <2>4 DEF Fails
    <3> QED
      BY <1>2, <2>4, <3>1, <3>2 DEF Fails, SegmentCounts
  <2>5. CASE Begins(i)
    BY <1>2, <2>0, <2>1, <2>2, <2>5 DEF Begins, SegmentCounts
  <2>6. CASE Copies(i)
    BY <1>2, <2>0, <2>1, <2>2, <2>6 DEF Copies, SegmentCounts
  <2>7. CASE Completes(i)
    BY <1>2, <2>0, <2>1, <2>7 DEF Completes, SegmentCounts
  <2> QED
    BY <2>3, <2>4, <2>5, <2>6, <2>7, SegmentMoves
<1> QED
  BY <1>1, <1>2

LEMMA TypeInvStep == TypeInv /\ [Next]_vars => TypeInv'
<1> SUFFICES ASSUME TypeInv, [Next]_vars PROVE TypeInv'
  OBVIOUS
<1> USE DEF TypeInv
<1>0. TransferShape'
  BY ShapeStep
<1>1. ASSUME NEW i \in DOMAIN plan, SegmentStep(i) PROVE TypeInv'
  <2>1. UNCHANGED <<plan, live, phase, file, runs>>
    BY <1>1, SegmentMoves
  <2>2. \A j \in DOMAIN plan : SegmentCounts(j)'
    BY <1>1, CountsStep
  <2>3. DOMAIN part' = DOMAIN part
    BY <1>1, SegmentMoves DEF Probes, Fails, Begins, Copies, Completes
  <2>4. bytes' \in Nat
    <3>1. CASE bytes' = bytes
      BY <3>1
    <3>2. CASE Completes(i)
      <4>1. From(i) <= seg[i].pos /\ seg[i].pos \in Nat
        BY <3>2, SegmentNumbers DEF SegmentCounts, Completes
      <4>2. From(i) \in Nat
        BY TransferAssumption, CopyingShape
      <4>3. Written(i) \in Nat
        BY <4>1, <4>2 DEF Written
      <4> QED
        BY <3>2, <4>3 DEF Completes
    <3> QED
      BY <1>1, <3>1, <3>2, SegmentMoves DEF Probes, Fails, Begins, Copies
  <2> QED
    BY <1>0, <2>1, <2>2, <2>3, <2>4 DEF Indices
<1>2. ASSUME UNCHANGED <<plan, seg>> PROVE \A j \in DOMAIN plan' : SegmentCounts(j)'
  BY <1>2 DEF SegmentCounts, From
<1>3. CASE JoinError \/ MergeError \/ Pause \/ UNCHANGED vars
  <2>1. UNCHANGED <<plan, seg, part, file, bytes, runs>>
    BY <1>3 DEF JoinError, MergeError, Pause, vars
  <2>2. live' \in BOOLEAN /\ phase' \in {"running", "stopped", "failed", "merged"}
    BY <1>3 DEF JoinError, MergeError, Pause, vars
  <2> QED
    BY <1>0, <1>2, <2>1, <2>2 DEF Indices
<1>4. FlattenSeq(part) \in Seq(Nat)
  BY PartsSequence, FlattenedType
<1>5. CASE Merge \/ Crash
  <2>1. UNCHANGED <<plan, seg, live, bytes, runs>>
    BY <1>5 DEF Merge, Crash
  <2>2. file' \in Seq(Nat) \cup {NoFile} /\ phase' \in {"running", "stopped", "failed", "merged"}
    BY <1>4, <1>5 DEF Merge, Crash
  <2>3. DOMAIN part' = DOMAIN part
    BY <1>5 DEF Merge, Crash, Indices
  <2> QED
    BY <1>0, <1>2, <2>1, <2>2, <2>3 DEF Indices
<1>6. CASE Resume
  <2>1. /\ live' = TRUE /\ phase' = "running" /\ file' = file /\ bytes' \in 0..bytes
        /\ runs' = runs + 1 /\ plan' \in Plans
        /\ part' = PartsFor(plan') /\ seg' = [i \in DOMAIN plan' |-> FreshSegment]
    BY <1>6 DEF Resume, TransferShape
  <2>2. bytes' \in Nat /\ runs' \in Nat
    BY <2>1
  <2>3. \A j \in DOMAIN plan' : SegmentCounts(j)'
    <3>1. FreshSegment.pc = "probe" /\ FreshSegment.attempts = 0 /\ MaxRetries \in Nat
      BY TransferAssumption DEF FreshSegment
    <3> QED
      BY <2>1, <3>1 DEF SegmentCounts
  <2>4. Numbered(DOMAIN part')
    <3>1. PICK m \in Nat \ {0} : DOMAIN part = 1..m
      BY DEF Numbered, Indices
    <3>2. PICK n \in Nat \ {0} : DOMAIN plan' = 1..n
      BY <2>1, PlansNumbered DEF Numbered
    <3>3. DOMAIN part' = 1..m \cup 1..n
      BY <2>1, <3>1, <3>2 DEF PartsFor, Indices
    <3>4. CASE m <= n
      <4>1. DOMAIN part' = 1..n
        BY <3>3, <3>4
      <4> QED
        BY <4>1 DEF Numbered
    <3>5. CASE ~(m <= n)
      <4>1. DOMAIN part' = 1..m
        BY <3>3, <3>5
      <4> QED
        BY <4>1 DEF Numbered
    <3> QED
      BY <3>4, <3>5
  <2> QED
    BY <1>0, <2>1, <2>2, <2>3, <2>4 DEF Indices
<1> QED
  BY <1>1, <1>3, <1>5, <1>6 DEF Next

LEMMA TypeInvInit == Init => TypeInv
<1> SUFFICES ASSUME Init PROVE TypeInv
  OBVIOUS
<1>1. plan \in Plans /\ DOMAIN part = DOMAIN plan
  BY DEF Init, EmptyParts
<1>2. Numbered(Indices)
  BY <1>1, PlansNumbered DEF Indices
<1>3. \A j \in DOMAIN plan : SegmentCounts(j)
  BY TransferAssumption DEF Init, SegmentCounts, FreshSegment
<1> QED
  BY <1>2, <1>3, ShapeInit DEF Init, TypeInv

\* The segments, part files and counters keep their types, whatever the server
\* answers and however often the plan changes: every segment of the plan has a
\* part file, no goroutine makes more attempts than the limit allows
\* (runner.go), and BytesCompleted never drops below 0.
THEOREM TransferTypes == Spec => []TypeOK
<1>1. Init => TypeInv
  BY TypeInvInit
<1>2. TypeInv => TypeOK
  <2> SUFFICES ASSUME TypeInv PROVE TypeOK
    OBVIOUS
  <2>1. ASSUME NEW i \in DOMAIN plan PROVE seg[i] \in SegmentRec
    <3>1. seg[i] \in SegRecord /\ seg[i].attempts <= MaxRetries + 2 /\ MaxRetries \in Nat
      BY SegmentNumbers, TransferAssumption DEF TypeInv, SegmentCounts
    <3>2. seg[i].attempts \in 0..(MaxRetries + 2)
      BY <3>1 DEF SegRecord
    <3> QED
      BY <3>1, <3>2 DEF SegRecord, SegmentRec
  <2>2. seg \in [DOMAIN plan -> SegmentRec]
    BY <2>1 DEF TypeInv, TransferShape
  <2> QED
    BY <2>2 DEF TypeInv, TypeOK, TransferShape
<1> QED
  BY <1>1, <1>2, TypeInvStep, PTL DEF Spec

----------------------------------------------------------------------------
(* The file.                                                               *)

\* The segments follow each other from the first byte of the file to the last.
Tiles(n) ==
  /\ DOMAIN plan = 1..n
  /\ plan[1].start = 0
  /\ Limit(n) = Length
  /\ \A i \in 1..(n - 1) : plan[i + 1].start = Limit(i)

LEMMA PlanTiles ==
  ASSUME Sized, TransferShape
  PROVE  \E n \in Nat \ {0} : Tiles(n)
<1>1. PICK r \in RangeSupport, c \in Connections : plan = Plan(Length, r, c)
  BY DEF TransferShape, Plans
<1>2. Length \in Nat /\ c \in Int /\ r \in BOOLEAN
  BY TransferAssumption
<1>3. CASE ~r \/ Length <= 0
  <2>1. plan = <<[start |-> 0, end |-> -1]>>
    BY <1>1, <1>3 DEF Plan
  <2>2. DOMAIN plan = 1..1 /\ plan[1].start = 0 /\ plan[1].end = -1
    BY <2>1
  <2>3. Limit(1) = Length
    BY <2>2 DEF Limit
  <2>4. Tiles(1)
    BY <2>2, <2>3 DEF Tiles
  <2> QED
    BY <2>4
<1>4. CASE ~(~r \/ Length <= 0)
  <2> DEFINE n == MaxConns(c)
  <2>1. r = TRUE /\ Length > 0
    BY <1>2, <1>4
  <2>2. n <= Length
    BY <1>1, <2>1 DEF Sized
  <2>3. n \in Nat \ {0}
    BY <1>2, ConnsPositive
  <2>4. /\ DOMAIN plan = 1..n /\ plan[1].start = 0 /\ plan[n].end = Length - 1
        /\ \A i \in 1..n : plan[i].start <= plan[i].end
        /\ \A i \in 1..(n - 1) : plan[i + 1].start = plan[i].end + 1
    BY <1>1, <1>2, <2>1, <2>2, PlanPartitions
  <2> HIDE DEF n
  <2>5. ASSUME NEW i \in 1..n PROVE Limit(i) = plan[i].end + 1
    <3>1. plan[i].start \in Nat /\ plan[i].end \in Int /\ plan[i].start <= plan[i].end
      BY <2>4, LimitInFile
    <3>2. ~(plan[i].end < 0)
      BY <3>1
    <3> QED
      BY <3>2 DEF Limit
  <2>6. Limit(n) = Length
    BY <1>2, <2>3, <2>4, <2>5
  <2>7. \A i \in 1..(n - 1) : plan[i + 1].start = Limit(i)
    BY <2>3, <2>4, <2>5
  <2> QED
    BY <2>3, <2>4, <2>6, <2>7 DEF Tiles
<1> QED
  BY <1>3, <1>4

\* The first m bytes of the resource.
FirstBytes(m) == [k \in 1..m |-> k - 1]

LEMMA FirstBytesGrow ==
  ASSUME NEW a \in Nat, NEW b \in Nat, a <= b, NEW s \in Seq(Nat), a + Len(s) = b,
         \A k \in 1..Len(s) : s[k] = a + k - 1
  PROVE  FirstBytes(a) \o s = FirstBytes(b)
<1> DEFINE p == FirstBytes(a)
           t == p \o s
<1>1. p \in Seq(Nat) /\ Len(p) = a /\ \A k \in 1..a : p[k] = k - 1
  BY DEF FirstBytes
<1> HIDE DEF p
<1>2. /\ t \in Seq(Nat) /\ Len(t) = a + Len(s)
      /\ \A k \in 1..a : t[k] = p[k]
      /\ \A k \in (a + 1)..(a + Len(s)) : t[k] = s[k - a]
  BY <1>1
<1> HIDE DEF t
<1>3. ASSUME NEW k \in 1..b PROVE t[k] = k - 1
  <2>1. CASE k \in 1..a
    BY <1>1, <1>2, <2>1
  <2>2. CASE k \in (a + 1)..b
    <3>1. k - a \in 1..Len(s) /\ a + (k - a) - 1 = k - 1
      BY <2>2
    <3>2. t[k] = s[k - a]
      BY <1>2, <2>2
    <3> QED
      BY <3>1, <3>2
  <2>3. k \in 1..a \/ k \in (a + 1)..b
    OBVIOUS
  <2> QED
    BY <2>1, <2>2, <2>3
<1>4. t = [k \in 1..b |-> k - 1]
  BY <1>2, <1>3
<1> QED
  BY <1>4 DEF FirstBytes, t, p

\* Part files that hold their segments, no less and no more, join to the file.
LEMMA ExactPartsJoin ==
  ASSUME TransferShape, NEW n \in Nat \ {0}, Tiles(n), Indices = DOMAIN plan, PartsArePrefixes,
         \A i \in DOMAIN plan : plan[i].start + Len(part[i]) = Limit(i)
  PROVE  FlattenSeq(part) = FirstBytes(Length)
<1>0. DOMAIN part = 1..n /\ DOMAIN plan = 1..n
  BY DEF Tiles, Indices
<1>1. part \in Seq(Seq(Nat)) /\ Len(part) = n
  BY <1>0 DEF TransferShape, Indices
<1>2. PICK f : Joins(f, part, n) /\ FlattenSeq(part) = f[n]
  BY <1>1, Flattened
<1>3. /\ f[1] = part[1] /\ \A i \in 2..n : f[i] = f[i - 1] \o part[i]
  <2>1. n \in 1..Len(part)
    BY <1>1
  <2> QED
    BY <1>1, <1>2, <2>1, JoinsFacts
<1>4. ASSUME NEW i \in 1..n
      PROVE  /\ plan[i].start \in Nat /\ Limit(i) \in Nat /\ plan[i].start <= Limit(i)
             /\ part[i] \in Seq(Nat) /\ plan[i].start + Len(part[i]) = Limit(i)
             /\ \A k \in 1..Len(part[i]) : part[i][k] = plan[i].start + k - 1
  <2>1. i \in DOMAIN plan
    BY <1>0
  <2>2. plan[i].start \in Nat /\ Limit(i) \in Nat /\ plan[i].start <= Limit(i)
    BY <2>1, LimitInFile
  <2>3. part[i] \in Seq(Nat) /\ plan[i].start + Len(part[i]) = Limit(i)
    BY <2>1 DEF TransferShape, Indices
  <2>4. \A k \in 1..Len(part[i]) : part[i][k] = plan[i].start + k - 1
    BY <2>1 DEF PartsArePrefixes
  <2> QED
    BY <2>2, <2>3, <2>4
<1>5. ASSUME NEW i \in 1..n PROVE FirstBytes(plan[i].start) \o part[i] = FirstBytes(Limit(i))
  BY <1>4, FirstBytesGrow
<1>6. \A i \in 1..n : f[i] = FirstBytes(Limit(i))
  <2> DEFINE T == {i \in Nat : i \in 1..n /\ f[i] # FirstBytes(Limit(i))}
  <2> SUFFICES ASSUME T # {} PROVE FALSE
    OBVIOUS
  <2>1. T \in SUBSET Nat
    OBVIOUS
  <2>2. PICK i \in T : \A j \in T : i <= j
    BY <2>1, LeastNumber
  <2>3. i \in 1..n /\ f[i] # FirstBytes(Limit(i))
    BY <2>2
  <2>4. i # 1
    <3>1. 1 \in 1..n /\ plan[1].start = 0
      BY DEF Tiles
    <3>2. FirstBytes(0) = <<>>
      BY DEF FirstBytes
    <3>3. \A s \in Seq(Nat) : <<>> \o s = s
      OBVIOUS
    <3>4. FirstBytes(Limit(1)) = part[1]
      BY <1>4, <1>5, <3>1, <3>2, <3>3
    <3> QED
      BY <1>3, <2>3, <3>4
  <2>5. i - 1 \in 1..(n - 1) /\ i - 1 \in 1..n /\ i \in 2..n /\ i - 1 \in Nat /\ i - 1 < i
        /\ (i - 1) + 1 = i
    BY <2>3, <2>4
  <2>6. i - 1 \notin T
    <3> HIDE DEF T
    <3> QED
      BY <2>1, <2>2, <2>5
  <2>7. f[i - 1] = FirstBytes(Limit(i - 1))
    BY <2>5, <2>6
  <2>8. plan[i].start = Limit(i - 1)
    BY <2>5 DEF Tiles
  <2> QED
    BY <1>3, <1>5, <2>3, <2>5, <2>7, <2>8
<1>7. f[n] = FirstBytes(Length)
  BY <1>6 DEF Tiles
<1> QED
  BY <1>2, <1>7

LEMMA DoneExactStep ==
  ASSUME Benign, "redirect" \notin Answers, TransferShape, AlignedInv, DoneExact, [Next]_vars
  PROVE  DoneExact'
<1> SUFFICES ASSUME phase' = "running", NEW j \in DOMAIN plan', seg'[j].pc = "done"
             PROVE  plan'[j].start + Len(part'[j]) = Limit(j)'
  BY DEF DoneExact
<1>1. ASSUME NEW i \in DOMAIN plan, SegmentStep(i)
      PROVE  plan'[j].start + Len(part'[j]) = Limit(j)'
  <2>1. phase = "running" /\ plan' = plan /\ Limit(j)' = Limit(j) /\ j \in DOMAIN plan
    BY <1>1, OtherSegments DEF Limit
  <2>2. CASE j # i
    <3>1. seg'[j] = seg[j] /\ part'[j] = part[j]
      BY <1>1, <2>1, <2>2, OtherSegments
    <3> QED
      BY <2>1, <3>1 DEF DoneExact
  <2>3. CASE j = i
    <3>1. Completes(i)
      BY <1>1, <2>3, SegmentMoves DEF Probes, Fails, Begins, Copies
    <3>2. seg[i].pc = "copy" /\ part' = part /\ seg[i].pos = seg[i].lim
      BY <3>1 DEF Completes, Benign
    <3>3. seg[i].pos = plan[i].start + Len(part[i]) /\ seg[i].lim = Limit(i)
      BY <2>1, <3>2 DEF AlignedInv, SegmentAligned
    <3> QED
      BY <2>1, <2>3, <3>2, <3>3
  <2> QED
    BY <2>2, <2>3
<1>2. CASE JoinError \/ Merge \/ MergeError \/ Crash
  BY <1>2 DEF JoinError, Merge, MergeError, Crash
<1>3. CASE Pause \/ UNCHANGED vars
  <2>1. UNCHANGED <<plan, part, seg, phase>>
    BY <1>3 DEF Pause, vars
  <2> QED
    BY <2>1 DEF DoneExact, Limit
<1>4. CASE Resume
  BY <1>4 DEF Resume, FreshSegment
<1> QED
  BY <1>1, <1>2, <1>3, <1>4 DEF Next

LEMMA ExactInvStep ==
  ASSUME Benign, Sized, "redirect" \notin Answers, ExactInv, [Next]_vars
  PROVE  ExactInv'
<1> USE DEF ExactInv
<1>1. TransferShape' /\ AlignedInv' /\ PartsArePrefixes' /\ DoneExact'
  BY ShapeStep, AlignedStep, DoneExactStep
<1>2. (Indices = DOMAIN plan)'
  <2>1. ASSUME NEW i \in DOMAIN plan, SegmentStep(i) PROVE DOMAIN part' = DOMAIN part /\ plan' = plan
    BY <2>1, SegmentMoves DEF Probes, Fails, Begins, Copies, Completes
  <2>2. CASE JoinError \/ Merge \/ MergeError \/ Pause \/ Crash \/ UNCHANGED vars
    <3>1. plan' = plan /\ DOMAIN part' = DOMAIN part
      BY <2>2 DEF JoinError, Merge, MergeError, Pause, Crash, vars, Indices
    <3> QED
      BY <3>1 DEF Indices
  <2>3. CASE Resume
    <3>1. plan' = plan /\ part' = PartsFor(plan)
      BY <2>3 DEF Resume, Benign
    <3> QED
      BY <3>1 DEF PartsFor, Indices
  <2> QED
    BY <2>1, <2>2, <2>3 DEF Next, Indices
<1>3. ASSUME AllDone PROVE FlattenSeq(part) = FirstBytes(Length)
  <2>1. PICK n \in Nat \ {0} : Tiles(n)
    BY PlanTiles
  <2>2. \A i \in DOMAIN plan : plan[i].start + Len(part[i]) = Limit(i)
    BY <1>3 DEF AllDone, Ended, DoneExact
  <2> QED
    BY <2>1, <2>2, ExactPartsJoin
<1>4. FileExact'
  <2>1. file' = file \/ (AllDone /\ file' = FlattenSeq(part))
    <3>1. ASSUME NEW i \in DOMAIN plan, SegmentStep(i) PROVE file' = file
      BY <3>1, SegmentMoves
    <3> QED
      BY <3>1 DEF Next, JoinError, Merge, MergeError, Pause, Crash, Resume, vars
  <2> QED
    BY <1>3, <2>1 DEF FileExact, FirstBytes
<1> QED
  BY <1>1, <1>2, <1>4

\* With a server that serves what it begins to serve, and that redirects no
\* segment, a plan that does not change and no more connections than bytes,
\* the file that MergeSegments renames into place is the resource, byte for
\* byte, whatever was refused, retried, paused, cut off by a crash and resumed
\* before (planner.go, runner.go, filestore.go).
THEOREM MergedFileExact ==
  ASSUME Benign, Sized, "redirect" \notin Answers
  PROVE  Spec => []FileExact
<1>1. Init => ExactInv
  <2> SUFFICES ASSUME Init PROVE ExactInv
    OBVIOUS
  <2>1. TransferShape
    BY ShapeInit
  <2>2. ASSUME NEW i \in DOMAIN plan
        PROVE  seg[i].pc = "probe" /\ part[i] = <<>> /\ plan[i].start \in Nat /\ plan[i].start <= Limit(i)
    BY <2>1, LimitInFile DEF Init, FreshSegment, EmptyParts
  <2>3. AlignedInv /\ DoneExact
    BY <2>2 DEF AlignedInv, SegmentAligned, DoneExact
  <2>4. PartsArePrefixes
    BY <2>2 DEF PartsArePrefixes
  <2>5. Indices = DOMAIN plan /\ FileExact
    BY DEF Init, EmptyParts, Indices, FileExact
  <2> QED
    BY <2>1, <2>3, <2>4, <2>5 DEF ExactInv
<1>2. ExactInv => FileExact
  BY DEF ExactInv
<1> QED
  BY <1>1, <1>2, ExactInvStep, PTL DEF Spec

----------------------------------------------------------------------------
(* The count of bytes.                                                     *)

\* Reported, as a number.
LEMMA ReportedNumber ==
  ASSUME TransferShape, NEW i \in DOMAIN plan
  PROVE  Reported(i) \in Nat /\ Reported(i) <= Limit(i) - plan[i].start
<1>1. /\ Limit(i) \in Nat /\ plan[i].start \in Nat /\ plan[i].start <= Limit(i)
      /\ seg[i].existing \in Nat /\ Len(part[i]) \in Nat
  BY LimitInFile, SegmentNumbers
<1> QED
  BY <1>1 DEF Reported, Smaller

\* A step of a goroutine keeps its reach; what may have been reported grows.
LEMMA ReachStep ==
  ASSUME TransferShape, NEW i \in DOMAIN plan, SegmentStep(i),
         NEW j \in DOMAIN plan, Reach(j)
  PROVE  Reach(j)' /\ Reported(j) <= Reported(j)'
<1>0. plan' = plan /\ Limit(j)' = Limit(j)
  BY OtherSegments DEF Limit
<1>1. CASE j # i
  <2>1. seg'[j] = seg[j] /\ part'[j] = part[j]
    BY <1>1, OtherSegments
  <2>2. Reported(j)' = Reported(j)
    BY <1>0, <2>1 DEF Reported
  <2>3. Reported(j) \in Nat
    BY ReportedNumber
  <2>4. Reach(j)'
    BY <1>0, <2>1 DEF Reach, From
  <2> QED
    BY <2>2, <2>3, <2>4
<1>2. CASE j = i
  <2>0. /\ seg[i].existing \in Nat /\ seg[i].pos \in Nat /\ seg[i].lim \in Nat
        /\ part[i] \in Seq(Nat) /\ Len(part[i]) \in Nat /\ Length \in Nat
        /\ plan[i].start \in Nat /\ Limit(i) \in Nat /\ plan[i].start <= Limit(i)
        /\ From(i) = plan[i].start + seg[i].existing
    BY SegmentNumbers, LimitInFile, TransferAssumption DEF From
  <2>1. /\ seg[i].pc \in {"request", "error"} => seg[i].existing <= Len(part[i])
        /\ seg[i].pc = "copy" => /\ From(i) <= seg[i].pos
                                 /\ seg[i].pos <= plan[i].start + Len(part[i])
                                 /\ seg[i].pos <= Length /\ seg[i].lim <= Length
    BY <1>2 DEF Reach
  <2>2. seg'[i].existing = seg[i].existing => From(i)' = From(i)
    BY <1>0 DEF From
  <2>3. ASSUME seg[i].pc \in {"request", "copy"} PROVE seg[i].existing <= Len(part[i])
    BY <2>0, <2>1, <2>3
  <2>4. CASE Probes(i)
    <3>1. /\ seg[i].pc = "probe" /\ seg'[i].pc = "request" /\ seg'[i].existing = Len(part[i])
          /\ part' = part
      BY <2>4 DEF Probes
    <3>2. Reach(i)'
      BY <2>0, <3>1 DEF Reach
    <3>3. Reported(i)' = Reported(i)
      BY <1>0, <1>2, <3>1 DEF Reported
    <3> QED
      BY <1>2, <3>2, <3>3, ReportedNumber
  <2>5. CASE Fails(i)
    <3>1. /\ seg[i].pc \in {"request", "copy"} /\ seg'[i].pc \in {"request", "error", "done"}
          /\ seg'[i].existing = seg[i].existing /\ part' = part
      BY <2>5 DEF Fails
    <3>2. Reach(i)'
      BY <2>0, <2>3, <3>1 DEF Reach
    <3>3. Reported(i) <= Reported(i)'
      BY <1>0, <1>2, <2>0, <2>3, <3>1 DEF Reported, Smaller
    <3> QED
      BY <1>2, <3>2, <3>3
  <2>6. CASE Begins(i)
    <3>1. /\ seg[i].pc = "request" /\ seg'[i].pc = "copy" /\ part' = part
          /\ seg'[i].existing = seg[i].existing /\ seg'[i].pos = From(i)
          /\ From(i) <= Length /\ seg'[i].lim <= Length
      BY <2>6 DEF Begins
    <3>2. Reach(i)'
      BY <1>0, <2>0, <2>2, <2>3, <3>1 DEF Reach
    <3>3. Reported(i)' = Reported(i)
      BY <1>0, <1>2, <3>1 DEF Reported
    <3> QED
      BY <1>2, <3>2, <3>3, ReportedNumber
  <2>7. CASE Copies(i)
    <3>1. /\ seg[i].pc = "copy" /\ seg'[i].pc = "copy" /\ seg[i].pos < seg[i].lim
          /\ seg'[i].existing = seg[i].existing
          /\ seg'[i].pos = seg[i].pos + 1 /\ seg'[i].lim = seg[i].lim
      BY <2>7 DEF Copies
    <3>2. Len(part'[i]) = Len(part[i]) + 1
      BY <2>0, <2>7 DEF Copies
    <3>3. /\ From(i)' <= seg'[i].pos /\ seg'[i].pos <= plan'[i].start + Len(part'[i])
          /\ seg'[i].pos <= Length /\ seg'[i].lim <= Length
      <4>1. From(i)' <= seg[i].pos + 1
        BY <2>0, <2>1, <2>2, <3>1
      <4>2. seg[i].pos + 1 <= plan[i].start + (Len(part[i]) + 1)
        BY <2>0, <2>1, <3>1
      <4>3. seg[i].pos + 1 <= Length /\ seg[i].lim <= Length
        BY <2>0, <2>1, <3>1
      <4> QED
        BY <1>0, <3>1, <3>2, <4>1, <4>2, <4>3
    <3>4. Reach(i)'
      BY <3>1, <3>3 DEF Reach
    <3>5. Reported(i)' = Reported(i)
      BY <1>0, <1>2, <3>1 DEF Reported
    <3> QED
      BY <1>2, <3>4, <3>5, ReportedNumber
  <2>8. CASE Completes(i)
    <3>1. /\ seg[i].pc = "copy" /\ seg'[i].pc = "done" /\ part' = part
      BY <2>8 DEF Completes
    <3>2. Reach(i)'
      BY <3>1 DEF Reach
    <3>3. Reported(i) <= Reported(i)'
      BY <1>0, <1>2, <2>0, <2>3, <3>1 DEF Reported, Smaller
    <3> QED
      BY <1>2, <3>2, <3>3
  <2> QED
    BY <2>4, <2>5, <2>6, <2>7, <2>8, SegmentMoves
<1> QED
  BY <1>1, <1>2

\* What a complete segment reports had not been reported before.
LEMMA CompletesOnce ==
  ASSUME TransferShape, NEW i \in DOMAIN plan, Reach(i), Completes(i), plan' = plan
  PROVE  /\ Written(i) \in Nat
         /\ Reported(i) + Written(i) <= Reported(i)'
<1>1. /\ seg[i].existing \in Nat /\ seg[i].pos \in Nat /\ Len(part[i]) \in Nat /\ Length \in Nat
      /\ plan[i].start \in Nat /\ Limit(i) \in Nat /\ plan[i].start <= Limit(i)
      /\ plan[i].end \in Int /\ (plan[i].end >= 0 => Limit(i) = plan[i].end + 1)
      /\ From(i) = plan[i].start + seg[i].existing
  BY SegmentNumbers, LimitInFile, TransferAssumption DEF From
<1>2. /\ seg[i].pc = "copy" /\ seg'[i].pc = "done" /\ part' = part
      /\ From(i) <= seg[i].pos /\ seg[i].pos <= plan[i].start + Len(part[i])
      /\ seg[i].pos <= Length
  BY DEF Completes, Reach
<1>3. Written(i) = seg[i].pos - (plan[i].start + seg[i].existing)
  BY <1>1 DEF Written
<1>4. Limit(i)' = Limit(i)
  BY DEF Limit
<1>5. seg[i].pos <= Limit(i)
  <2>1. CASE plan[i].end >= 0
    <3>1. seg[i].existing + Written(i) = plan[i].end - plan[i].start + 1
      BY <2>1 DEF Completes, Expected
    <3> QED
      BY <1>1, <1>3, <2>1, <3>1
  <2>2. CASE ~(plan[i].end >= 0)
    <3>1. Limit(i) = Length
      BY <1>1, <2>2 DEF Limit
    <3> QED
      BY <1>2, <3>1
  <2> QED
    BY <2>1, <2>2
<1>6. /\ Reported(i) <= seg[i].existing
      /\ Reported(i)' = Smaller(Len(part[i]), Limit(i) - plan[i].start)
      /\ Reported(i) \in Int
  BY <1>1, <1>2, <1>4 DEF Reported, Smaller
<1>7. Written(i) \in Nat
  BY <1>1, <1>2, <1>3
<1> QED
  BY <1>1, <1>2, <1>3, <1>5, <1>6, <1>7, SMTT(30) DEF Smaller

LEMMA ResumeKeepsReach ==
  ASSUME TransferShape, plan' = plan, Resume, NEW j \in DOMAIN plan, Reach(j)
  PROVE  Reach(j)' /\ Reported(j) <= Reported(j)'
<1>1. /\ part' = PartsFor(plan) /\ seg' = [i \in DOMAIN plan |-> FreshSegment]
      /\ Limit(j)' = Limit(j)
  BY DEF Resume, Limit
<1>2. part'[j] = part[j]
  BY <1>1 DEF PartsFor, TransferShape
<1>3. seg'[j].pc = "probe"
  BY <1>1 DEF FreshSegment
<1>4. /\ seg[j].existing \in Nat /\ seg[j].pos \in Nat /\ Len(part[j]) \in Nat
      /\ plan[j].start \in Nat /\ Limit(j) \in Nat /\ plan[j].start <= Limit(j)
      /\ From(j) = plan[j].start + seg[j].existing
      /\ seg[j].pc \in SegmentPC
  BY SegmentNumbers, LimitInFile DEF From, SegRecord
<1>5. seg[j].pc \notin {"probe", "done"} => seg[j].existing <= Len(part[j])
  <2>1. CASE seg[j].pc = "copy"
    <3>1. From(j) <= seg[j].pos /\ seg[j].pos <= plan[j].start + Len(part[j])
      BY <2>1 DEF Reach
    <3> QED
      BY <1>4, <3>1
  <2>2. CASE seg[j].pc # "copy"
    BY <1>4, <2>2 DEF Reach, SegmentPC
  <2> QED
    BY <2>1, <2>2
<1>6. Reported(j) <= Reported(j)'
  BY <1>1, <1>2, <1>3, <1>4, <1>5 DEF Reported, Smaller
<1>7. Reach(j)'
  BY <1>3 DEF Reach
<1> QED
  BY <1>6, <1>7

\* A step before the file is renamed into place: either no bytes are
\* reported, or one segment is complete and reports what it has written.
LEMMA ProgressMoves ==
  ASSUME ~MayReplan, TypeInv, ProgressInv, [Next]_vars, file' = NoFile
  PROVE  /\ file = NoFile /\ plan' = plan
         /\ \A j \in DOMAIN plan : Reach(j) /\ Reach(j)' /\ Reported(j) <= Reported(j)'
         /\ \/ bytes' <= bytes
            \/ \E i \in DOMAIN plan : Completes(i)
<1> USE DEF TypeInv
<1>1. file' # FlattenSeq(part)
  <2>1. FlattenSeq(part) \in Seq(Nat)
    BY PartsSequence, FlattenedType
  <2> QED
    BY <2>1, TransferAssumption
<1>2. ASSUME file = NoFile PROVE \A j \in DOMAIN plan : Reach(j) /\ Reported(j) \in Nat
  BY <1>2, ReportedNumber DEF ProgressInv
<1>3. ASSUME NEW i \in DOMAIN plan, SegmentStep(i)
      PROVE  /\ file = NoFile /\ plan' = plan
             /\ \A j \in DOMAIN plan : Reach(j) /\ Reach(j)' /\ Reported(j) <= Reported(j)'
             /\ bytes' <= bytes \/ Completes(i)
  <2>1. file = NoFile /\ plan' = plan
    BY <1>3, SegmentMoves
  <2>2. \A j \in DOMAIN plan : Reach(j)
    BY <1>2, <2>1
  <2>3. \A j \in DOMAIN plan : Reach(j)' /\ Reported(j) <= Reported(j)'
    BY <1>3, <2>2, ReachStep
  <2>4. bytes' = bytes \/ Completes(i)
    BY <1>3, SegmentMoves DEF Probes, Fails, Begins, Copies
  <2> QED
    BY <2>1, <2>2, <2>3, <2>4
<1>4. CASE Resume
  <2>1. file = NoFile /\ plan' = plan /\ bytes' \in 0..bytes
    BY <1>4 DEF Resume
  <2>2. \A j \in DOMAIN plan : Reach(j)
    BY <1>2, <2>1
  <2>3. \A j \in DOMAIN plan : Reach(j)' /\ Reported(j) <= Reported(j)'
    BY <1>4, <2>1, <2>2, ResumeKeepsReach
  <2>4. bytes' <= bytes
    BY <2>1
  <2> QED
    BY <2>1, <2>2, <2>3, <2>4
<1>5. CASE JoinError \/ Merge \/ MergeError \/ Pause \/ Crash \/ UNCHANGED vars
  <2>1. UNCHANGED <<plan, seg, part, file, bytes>>
    BY <1>1, <1>5 DEF JoinError, Merge, MergeError, Pause, Crash, vars
  <2>2. ASSUME NEW j \in DOMAIN plan PROVE Reach(j) /\ Reach(j)' /\ Reported(j) <= Reported(j)'
    <3>1. Reach(j) /\ Reported(j) \in Nat
      BY <1>2, <2>1
    <3>2. Reach(j)' /\ Reported(j)' = Reported(j)
      BY <2>1, <3>1 DEF Reach, Reported, From, Limit
    <3> QED
      BY <3>1, <3>2
  <2> QED
    BY <2>1, <2>2
<1> QED
  BY <1>3, <1>4, <1>5 DEF Next

LEMMA ProgressStep ==
  ASSUME ~MayReplan, TypeInv, ProgressInv, [Next]_vars
  PROVE  ProgressInv'
<1> SUFFICES ASSUME file' = NoFile
             PROVE  /\ \A i \in DOMAIN plan' : Reach(i)'
                    /\ \E n \in Nat : DOMAIN plan' = 1..n /\ \E acc \in [0..n -> Nat] : Bounded(acc, n)'
  BY DEF ProgressInv
<1>1. /\ file = NoFile /\ plan' = plan
      /\ \A j \in DOMAIN plan : Reach(j) /\ Reach(j)' /\ Reported(j) <= Reported(j)'
      /\ \/ bytes' <= bytes
         \/ \E i \in DOMAIN plan : Completes(i)
  BY ProgressMoves
<1>2. PICK n \in Nat : DOMAIN plan = 1..n /\ \E acc \in [0..n -> Nat] : Bounded(acc, n)
  BY <1>1 DEF ProgressInv
<1>3. PICK acc \in [0..n -> Nat] : Bounded(acc, n)
  BY <1>2
<1>4. /\ acc[0] = 0 /\ bytes <= acc[n] /\ n \in 0..n /\ 0 \in 0..n
      /\ \A j \in 1..n : acc[j] <= acc[j - 1] + Reported(j)
  BY <1>3 DEF Bounded
<1>5. TransferShape /\ TransferShape' /\ bytes \in Nat /\ bytes' \in Nat
  BY TypeInvStep DEF TypeInv
<1>6. ASSUME NEW j \in 1..n
      PROVE  /\ j \in 0..n /\ j - 1 \in 0..n /\ acc[j] \in Nat /\ acc[j - 1] \in Nat
             /\ Reported(j) \in Nat /\ Reported(j)' \in Nat
             /\ Reported(j) <= Reported(j)' /\ acc[j] <= acc[j - 1] + Reported(j)
  <2>1. j \in DOMAIN plan /\ j \in DOMAIN plan'
    BY <1>1, <1>2
  <2>2. Reported(j) \in Nat
    BY <1>5, <2>1, ReportedNumber
  <2>3. Reported(j)' \in Nat
    <3>1. /\ Limit(j)' \in Nat /\ plan'[j].start \in Nat /\ plan'[j].start <= Limit(j)'
          /\ seg'[j].existing \in Nat /\ Len(part'[j]) \in Nat
      <4>1. Limit(j)' = Limit(j) /\ plan'[j] = plan[j]
        BY <1>1 DEF Limit
      <4>2. Limit(j) \in Nat /\ plan[j].start \in Nat /\ plan[j].start <= Limit(j)
        BY <1>5, <2>1, LimitInFile
      <4>3. seg'[j].existing \in Nat
        BY <1>5, <2>1 DEF TransferShape
      <4>4. part'[j] \in Seq(Nat)
        BY <1>5, <2>1 DEF TransferShape
      <4> QED
        BY <4>1, <4>2, <4>3, <4>4
    <3> QED
      BY <3>1 DEF Reported, Smaller
  <2>4. j \in 0..n /\ j - 1 \in 0..n
    OBVIOUS
  <2> QED
    BY <1>1, <1>4, <2>1, <2>2, <2>3, <2>4
<1>7. CASE bytes' <= bytes
  <2>1. bytes' <= acc[n]
    BY <1>4, <1>5, <1>7
  <2>2. ASSUME NEW j \in 1..n PROVE acc[j] <= acc[j - 1] + Reported(j)'
    BY <1>6
  <2>3. Bounded(acc, n)'
    BY <1>4, <2>1, <2>2 DEF Bounded
  <2> QED
    BY <1>1, <1>2, <2>3
<1>8. CASE \E i \in DOMAIN plan : Completes(i)
  <2>1. PICK i \in 1..n : Completes(i)
    BY <1>2, <1>8
  <2>2. Written(i) \in Nat /\ Reported(i) + Written(i) <= Reported(i)' /\ bytes' = bytes + Written(i)
    BY <1>1, <1>2, <1>5, <2>1, CompletesOnce DEF Completes
  <2>3. PICK w \in Nat : w = Written(i)
    BY <2>2
  <2> DEFINE more == [k \in 0..n |-> IF k < i THEN acc[k] ELSE acc[k] + w]
  <2>4. more \in [0..n -> Nat]
    OBVIOUS
  <2>5. more[0] = 0 /\ more[n] = acc[n] + w
    BY <1>4
  <2>6. ASSUME NEW j \in 1..n PROVE more[j] <= more[j - 1] + Reported(j)'
    <3>1. /\ more[j] = IF j < i THEN acc[j] ELSE acc[j] + w
          /\ more[j - 1] = IF j - 1 < i THEN acc[j - 1] ELSE acc[j - 1] + w
      BY <1>6
    <3> HIDE DEF more
    <3>2. CASE j < i
      BY <1>6, <3>1, <3>2
    <3>3. CASE j = i
      BY <1>6, <2>2, <2>3, <3>1, <3>3
    <3>4. CASE j > i
      <4>1. ~(j < i) /\ ~(j - 1 < i)
        BY <3>4
      <4>2. more[j] = acc[j] + w /\ more[j - 1] = acc[j - 1] + w
        BY <3>1, <4>1
      <4>3. /\ acc[j] \in Nat /\ acc[j - 1] \in Nat /\ Reported(j) \in Nat /\ Reported(j)' \in Nat
            /\ Reported(j) <= Reported(j)' /\ acc[j] <= acc[j - 1] + Reported(j)
        BY <1>6, Zenon
      <4>4. acc[j] + w <= (acc[j - 1] + w) + Reported(j)'
        BY <2>3, <4>3
      <4> QED
        BY <4>2, <4>4
    <3> QED
      BY <3>2, <3>3, <3>4
  <2>7. bytes' <= acc[n] + w
    BY <1>4, <1>5, <2>2, <2>3
  <2> HIDE DEF more
  <2>8. PICK f \in [0..n -> Nat] : f = more
    BY <2>4
  <2>9. Bounded(f, n)'
    BY <2>5, <2>6, <2>7, <2>8 DEF Bounded
  <2> QED
    BY <1>1, <1>2, <2>9
<1> QED
  BY <1>1, <1>7, <1>8

\* The bounds of the segments add up to no more than the file.
LEMMA BoundInFile ==
  ASSUME TransferShape, NEW n \in Nat \ {0}, Tiles(n), NEW acc \in [0..n -> Nat], Bounded(acc, n)
  PROVE  acc[n] <= Length
<1>1. /\ acc[0] = 0 /\ DOMAIN plan = 1..n
      /\ \A i \in 1..n : acc[i] <= acc[i - 1] + Reported(i)
  BY DEF Bounded, Tiles
<1>2. ASSUME NEW i \in 1..n
      PROVE  /\ acc[i] \in Nat /\ acc[i - 1] \in Nat /\ acc[i] <= acc[i - 1] + Reported(i)
             /\ Reported(i) \in Nat /\ Reported(i) <= Limit(i) - plan[i].start
             /\ Limit(i) \in Nat /\ plan[i].start \in Nat
  <2>1. i \in DOMAIN plan /\ i \in 0..n /\ i - 1 \in 0..n
    BY <1>1
  <2> QED
    BY <1>1, <2>1, ReportedNumber, LimitInFile
<1>3. \A i \in 1..n : acc[i] <= Limit(i)
  <2> DEFINE T == {i \in Nat : i \in 1..n /\ ~(acc[i] <= Limit(i))}
  <2> SUFFICES ASSUME T # {} PROVE FALSE
    OBVIOUS
  <2>1. T \in SUBSET Nat
    OBVIOUS
  <2>2. PICK i \in T : \A j \in T : i <= j
    BY <2>1, LeastNumber
  <2>3. i \in 1..n /\ ~(acc[i] <= Limit(i))
    BY <2>2
  <2>4. i # 1
    <3>1. 1 \in 1..n /\ plan[1].start = 0 /\ acc[1 - 1] = 0
      BY <1>1 DEF Tiles
    <3>2. /\ acc[1] \in Nat /\ acc[1] <= acc[1 - 1] + Reported(1)
          /\ Reported(1) \in Nat /\ Reported(1) <= Limit(1) - plan[1].start /\ Limit(1) \in Nat
      BY <1>2, <3>1, Zenon
    <3>3. acc[1] <= Limit(1)
      BY <3>1, <3>2
    <3> QED
      BY <2>3, <3>3
  <2>5. i - 1 \in 1..(n - 1) /\ i - 1 \in 1..n /\ i - 1 \in Nat /\ i - 1 < i /\ (i - 1) + 1 = i
    BY <2>3, <2>4
  <2>6. i - 1 \notin T
    <3> HIDE DEF T
    <3> QED
      BY <2>1, <2>2, <2>5
  <2>7. acc[i - 1] <= Limit(i - 1)
    BY <2>5, <2>6
  <2>8. plan[i].start = Limit(i - 1)
    BY <2>5 DEF Tiles
  <2>9. /\ acc[i] \in Nat /\ acc[i - 1] \in Nat /\ acc[i] <= acc[i - 1] + Reported(i)
        /\ Reported(i) \in Nat /\ Reported(i) <= Limit(i) - plan[i].start
        /\ Limit(i) \in Nat /\ plan[i].start \in Nat
    BY <1>2, <2>3, Zenon
  <2> HIDE DEF T
  <2> QED
    BY <2>3, <2>7, <2>8, <2>9
<1>4. n \in 1..n /\ Limit(n) = Length
  BY DEF Tiles
<1> QED
  BY <1>3, <1>4

\* Until the file is first renamed into place, Download.BytesCompleted never
\* exceeds the length of the resource, whatever the server answers: segments
\* that resume, retry, are refused, cut off or served the wrong bytes report
\* none of them twice (downloadSegment in runner.go).  The plan does not change
\* between the runs, and there are no more connections than bytes.
THEOREM ProgressNeverExceeds ==
  ASSUME ~MayReplan, Sized
  PROVE  Spec => []ProgressBounded
<1>1. Init => TypeInv /\ ProgressInv
  <2> SUFFICES ASSUME Init PROVE TypeInv /\ ProgressInv
    OBVIOUS
  <2>1. TypeInv
    BY TypeInvInit
  <2>2. ASSUME NEW i \in DOMAIN plan PROVE Reach(i) /\ Reported(i) \in Nat
    <3>1. seg[i].pc = "probe"
      BY DEF Init, FreshSegment
    <3> QED
      BY <2>1, <3>1, ReportedNumber DEF Reach, TypeInv
  <2>3. PICK n \in Nat \ {0} : DOMAIN plan = 1..n
    BY PlansNumbered DEF Init, Numbered
  <2>4. PICK acc \in [0..n -> Nat] : acc = [k \in 0..n |-> 0]
    OBVIOUS
  <2>5. Bounded(acc, n)
    <3>1. ASSUME NEW i \in 1..n PROVE acc[i] <= acc[i - 1] + Reported(i)
      <4>1. Reported(i) \in Nat /\ i \in 0..n /\ i - 1 \in 0..n
        BY <2>2, <2>3
      <4> QED
        BY <2>4, <4>1
    <3> QED
      BY <2>4, <3>1 DEF Init, Bounded
  <2> QED
    BY <2>1, <2>2, <2>3, <2>5 DEF ProgressInv
<1>2. TypeInv /\ ProgressInv /\ [Next]_vars => TypeInv' /\ ProgressInv'
  BY TypeInvStep, ProgressStep
<1>3. TypeInv /\ ProgressInv => ProgressBounded
  <2> SUFFICES ASSUME TypeInv, ProgressInv, file = NoFile PROVE bytes <= Length
    BY DEF ProgressBounded
  <2>1. PICK n \in Nat : DOMAIN plan = 1..n /\ \E acc \in [0..n -> Nat] : Bounded(acc, n)
    BY DEF ProgressInv
  <2>2. PICK m \in Nat \ {0} : Tiles(m)
    BY PlanTiles DEF TypeInv
  <2>3. m = n
    <3>1. 1..m = 1..n
      BY <2>1, <2>2 DEF Tiles
    <3>2. m \in 1..m
      OBVIOUS
    <3>3. m <= n /\ n \in 1..n
      BY <3>1, <3>2
    <3>4. n <= m
      BY <3>1, <3>3
    <3> QED
      BY <3>3, <3>4
  <2>4. PICK acc \in [0..n -> Nat] : Bounded(acc, n)
    BY <2>1
  <2>5. acc[n] <= Length
    BY <2>2, <2>3, <2>4, BoundInFile DEF TypeInv
  <2>6. bytes \in Nat /\ acc[n] \in Nat /\ bytes <= acc[n] /\ Length \in Nat
    BY <2>4, TransferAssumption DEF Bounded, TypeInv
  <2> QED
    BY <2>5, <2>6
<1> QED
  BY <1>1, <1>2, <1>3, PTL DEF Spec
=============================================================================
