--------------------------- MODULE TransferProofs ---------------------------
(***************************************************************************)
(* What Planner and Transfer guarantee for every length of the resource,   *)
(* every setting of the connections and every number of runs.              *)
(***************************************************************************)
EXTENDS Transfer, TLAPS

----------------------------------------------------------------------------
(* The plan.                                                               *)

\* Truncated division leaves a remainder that is smaller than the divisor.
LEMMA Quotient ==
  ASSUME NEW len \in Nat, NEW n \in Nat \ {0}
  PROVE  /\ len \div n \in Nat
         /\ (len \div n) * n <= len
         /\ n <= len => len \div n >= 1
BY SMT

\* Multiplication by a natural number is monotone.
LEMMA TimesMonotone ==
  ASSUME NEW q \in Nat, NEW a \in Nat, NEW b \in Nat, a <= b
  PROVE  q * a \in Nat /\ q * a <= q * b
<1>1. PICK k \in Nat : b = a + k
  BY SMT
<1>2. q * b = q * a + q * k /\ q * k \in Nat /\ q * a \in Nat
  BY <1>1, SMT
<1> QED
  BY <1>2, SMT

LEMMA ConnsPositive ==
  ASSUME NEW c \in Int
  PROVE  MaxConns(c) \in Nat \ {0}
BY DEF MaxConns

\* When there are no more connections than bytes, SimplePlanner.Plan cuts the
\* file into that many segments, none of them empty, which follow each other
\* without a gap or an overlap from the first byte to the last.
THEOREM PlanPartitions ==
  ASSUME NEW len \in Nat, NEW c \in Int, MaxConns(c) <= len
  PROVE  LET p == Plan(len, TRUE, c)
             n == MaxConns(c) IN
         /\ DOMAIN p = 1..n
         /\ p[1].start = 0
         /\ p[n].end = len - 1
         /\ \A i \in 1..n : p[i].start <= p[i].end
         /\ \A i \in 1..(n - 1) : p[i + 1].start = p[i].end + 1
<1> DEFINE n == MaxConns(c)
           q == len \div n
           p == Plan(len, TRUE, c)
<1>1. n \in Nat \ {0} /\ n <= len
  BY ConnsPositive
<1>2. q \in Nat /\ q * n <= len /\ q >= 1
  BY <1>1, Quotient
<1>3. p = [i \in 1..n |-> [start |-> SegStart(len, n, i - 1), end |-> SegEnd(len, n, i - 1)]]
  BY <1>1 DEF Plan
<1>4. ASSUME NEW i \in 1..n
      PROVE  /\ p[i].start = q * (i - 1)
             /\ p[i].end = IF i = n THEN len - 1 ELSE q * i - 1
  <2>1. (i - 1) + 1 = i /\ (i - 1 = n - 1 <=> i = n)
    BY <1>1
  <2>2. p[i].start = SegStart(len, n, i - 1) /\ p[i].end = SegEnd(len, n, i - 1)
    <3> HIDE DEF p, n
    <3> QED
      BY <1>3
  <2>3. SegStart(len, n, i - 1) = q * (i - 1)
    BY DEF SegStart
  <2>4. SegEnd(len, n, i - 1) = IF i = n THEN len - 1 ELSE q * i - 1
    <3> HIDE DEF n
    <3> QED
      BY <2>1, Zenon DEF SegEnd
  <2> QED
    BY <2>2, <2>3, <2>4
<1>5. ASSUME NEW i \in 1..n PROVE p[i].start <= p[i].end
  <2> HIDE DEF p, q, n
  <2>1. q * i = q * (i - 1) + q /\ q * (i - 1) \in Nat
    BY <1>1, <1>2, SMT
  <2>2. q * i <= q * n
    BY <1>1, <1>2, TimesMonotone
  <2> QED
    BY <1>1, <1>2, <1>4, <2>1, <2>2
<1>6. ASSUME NEW i \in 1..(n - 1) PROVE p[i + 1].start = p[i].end + 1
  <2> HIDE DEF p, q, n
  <2>1. i \in 1..n /\ i + 1 \in 1..n /\ i # n /\ (i + 1) - 1 = i
    BY <1>1
  <2>2. p[i + 1].start = q * i /\ p[i].end = q * i - 1
    BY <1>4, <2>1
  <2>3. q * i \in Int
    BY <1>2, <2>1
  <2> QED
    BY <2>2, <2>3
<1>7. p[1].start = 0 /\ p[n].end = len - 1
  <2> HIDE DEF p, q, n
  <2>1. 1 \in 1..n /\ n \in 1..n /\ q * (1 - 1) = 0
    BY <1>1, <1>2
  <2> QED
    BY <1>4, <2>1
<1>8. DOMAIN p = 1..n
  BY <1>3
<1> QED
  BY <1>5, <1>6, <1>7, <1>8

\* Whatever the number of connections, more than there are bytes included, a
\* segment begins within the file and ends before or at its end.
SegmentInFile(s) ==
  /\ s.start \in Nat
  /\ s.end \in Int
  /\ s.end >= -1
  /\ s.end < Length
  /\ s.end < 0 => s.start <= Length
  /\ s.end >= 0 => s.start <= s.end + 1

LEMMA PlansInFile ==
  ASSUME NEW p \in Plans, NEW i \in DOMAIN p
  PROVE  SegmentInFile(p[i])
<1>1. PICK r \in RangeSupport, c \in Connections : p = Plan(Length, r, c)
  BY DEF Plans
<1>2. Length \in Nat /\ c \in Int
  BY TransferAssumption
<1> DEFINE n == MaxConns(c)
           q == Length \div n
<1>3. n \in Nat \ {0}
  BY <1>2, ConnsPositive
<1>4. q \in Nat /\ q * n <= Length
  BY <1>2, <1>3, Quotient
<1>5. CASE ~r \/ Length <= 0
  <2>1. p = <<[start |-> 0, end |-> -1]>>
    BY <1>1, <1>5 DEF Plan
  <2>2. i = 1
    BY <2>1
  <2>3. p[i].start = 0 /\ p[i].end = -1
    BY <2>1, <2>2
  <2> QED
    BY <1>2, <2>3 DEF SegmentInFile
<1>6. CASE ~(~r \/ Length <= 0)
  <2>1. p = [j \in 1..n |-> [start |-> SegStart(Length, n, j - 1), end |-> SegEnd(Length, n, j - 1)]]
    BY <1>1, <1>6 DEF Plan
  <2> HIDE DEF n
  <2>2. i \in 1..n
    BY <2>1
  <2>3. p[i].start = SegStart(Length, n, i - 1) /\ p[i].end = SegEnd(Length, n, i - 1)
    BY <2>1, <2>2
  <2>4. (i - 1) + 1 = i /\ (i - 1 = n - 1 <=> i = n)
    BY <1>3, <2>2
  <2>5. p[i].start = q * (i - 1)
    BY <2>3 DEF SegStart
  <2>6. p[i].end = IF i = n THEN Length - 1 ELSE q * i - 1
    BY <2>3, <2>4, Zenon DEF SegEnd
  <2> HIDE DEF q
  <2>7. q * (i - 1) \in Nat /\ q * (i - 1) <= q * i /\ q * i <= q * n /\ q * i \in Nat /\ q * n \in Nat
    <3>1. i - 1 \in Nat /\ i \in Nat /\ n \in Nat /\ i - 1 <= i /\ i <= n
      BY <1>3, <2>2
    <3> QED
      BY <1>4, <3>1, TimesMonotone
  <2> QED
    BY <1>2, <1>4, <1>6, <2>5, <2>6, <2>7 DEF SegmentInFile
<1> QED
  BY <1>5, <1>6

----------------------------------------------------------------------------
(* The shape of the state.                                                 *)

\* Retry, Copying and the probe keep the record of a segment goroutine.
SegRecord == [pc : SegmentPC, existing : Nat, attempts : Nat, pos : Nat, lim : Nat]

LEMMA FieldShape ==
  ASSUME NEW s \in SegRecord, NEW pc \in SegmentPC, NEW n \in Nat
  PROVE  /\ [s EXCEPT !.pc = pc] \in SegRecord
         /\ [s EXCEPT !.attempts = n] \in SegRecord
         /\ [s EXCEPT !.attempts = n, !.pc = pc] \in SegRecord
         /\ [s EXCEPT !.existing = n, !.pc = pc] \in SegRecord
         /\ [s EXCEPT !.pos = n] \in SegRecord
BY DEF SegRecord

LEMMA RetryShape ==
  ASSUME NEW s \in SegRecord, NEW giveUp \in SegmentPC
  PROVE  /\ Retry(s, giveUp) \in SegRecord
         /\ Retry(s, giveUp).pc \in {giveUp, "request"}
         /\ Retry(s, giveUp).existing = s.existing
<1> DEFINE n == s.attempts + 1
           next == IF n > MaxRetries THEN giveUp ELSE "request"
<1>1. n \in Nat
  BY DEF SegRecord
<1>2. next \in SegmentPC /\ next \in {giveUp, "request"}
  BY DEF SegmentPC
<1>3. Retry(s, giveUp) = [s EXCEPT !.attempts = n, !.pc = next]
  BY DEF Retry
<1> HIDE DEF n, next
<1>4. Retry(s, giveUp) \in SegRecord
  BY <1>1, <1>2, <1>3 DEF SegRecord
<1>5. Retry(s, giveUp).pc = next /\ Retry(s, giveUp).existing = s.existing
  BY <1>3 DEF SegRecord
<1> QED
  BY <1>2, <1>4, <1>5

LEMMA CopyingShape ==
  ASSUME TransferShape, NEW i \in DOMAIN plan, NEW lim \in Nat
  PROVE  Copying(i, lim) \in SegRecord /\ From(i) \in Nat
<1>1. seg[i] \in SegRecord
  BY DEF TransferShape, SegRecord
<1>2. plan[i].start \in Nat
  BY PlansInFile DEF TransferShape, SegmentInFile
<1>3. From(i) \in Nat
  BY <1>1, <1>2 DEF From, SegRecord
<1> QED
  BY <1>1, <1>3 DEF Copying, SegRecord, SegmentPC

\* The limit of a segment lies behind its start and within the file.
LEMMA LimitInFile ==
  ASSUME TransferShape, NEW i \in DOMAIN plan
  PROVE  /\ Limit(i) \in Nat
         /\ Limit(i) <= Length
         /\ plan[i].start \in Nat
         /\ plan[i].end \in Int
         /\ plan[i].start <= Limit(i)
         /\ plan[i].end >= 0 => Limit(i) = plan[i].end + 1
<1>1. SegmentInFile(plan[i])
  BY PlansInFile DEF TransferShape
<1> QED
  BY <1>1, TransferAssumption DEF SegmentInFile, Limit

LEMMA ShapeInit == Init => TransferShape
<1> SUFFICES ASSUME Init PROVE TransferShape
  OBVIOUS
<1>1. FreshSegment \in SegRecord
  BY DEF FreshSegment, SegRecord, SegmentPC
<1> QED
  BY <1>1 DEF Init, TransferShape, EmptyParts, Indices, SegRecord

LEMMA ShapeStep == TransferShape /\ [Next]_vars => TransferShape'
<1> SUFFICES ASSUME TransferShape, [Next]_vars PROVE TransferShape'
  OBVIOUS
<1> USE DEF TransferShape, Indices
<1>1. Length \in Nat
  BY TransferAssumption
<1>2. ASSUME NEW i \in DOMAIN plan, NEW s \in SegRecord, seg' = [seg EXCEPT ![i] = s],
             UNCHANGED <<plan, part>>
      PROVE  TransferShape'
  BY <1>2 DEF SegRecord
<1>3. ASSUME NEW i \in DOMAIN plan, SegmentStep(i)
      PROVE  TransferShape'
  <2>1. seg[i] \in SegRecord /\ part[i] \in Seq(Nat)
    BY DEF SegRecord
  <2>2. Retry(seg[i], "error") \in SegRecord /\ Retry(seg[i], "done") \in SegRecord
    BY <2>1, RetryShape DEF SegmentPC
  <2>3. CASE Probe(i)
    <3> Len(part[i]) \in Nat /\ "request" \in SegmentPC
      BY <2>1 DEF SegmentPC
    <3>1. [seg[i] EXCEPT !.existing = Len(part[i]), !.pc = "request"] \in SegRecord
      BY <2>1, FieldShape
    <3>2. seg' = [seg EXCEPT ![i] = [seg[i] EXCEPT !.existing = Len(part[i]), !.pc = "request"]]
      BY <2>3 DEF Probe
    <3> QED
      BY <1>2, <2>3, <3>1, <3>2 DEF Probe
  <2>4. CASE NoBody(i)
    <3> DEFINE n == IF seg[i].attempts > MaxRetries THEN seg[i].attempts ELSE seg[i].attempts + 1
    <3> n \in Nat /\ "request" \in SegmentPC
      BY <2>1 DEF SegRecord, SegmentPC
    <3>1. [seg[i] EXCEPT !.attempts = n] \in SegRecord
      BY <2>1, FieldShape
    <3>2. \/ seg' = [seg EXCEPT ![i] = Retry(seg[i], "error")]
          \/ seg' = [seg EXCEPT ![i] = Retry(seg[i], "done")]
          \/ seg' = [seg EXCEPT ![i] = [seg[i] EXCEPT !.attempts = n]]
      BY <2>4 DEF NoBody
    <3> QED
      BY <1>2, <2>2, <2>4, <3>1, <3>2 DEF NoBody
  <2>5. CASE PartialBody(i)
    <3>1. Smaller(Limit(i), Length) \in Nat
      BY <1>1, LimitInFile DEF Smaller
    <3> QED
      BY <1>2, <2>5, <3>1, CopyingShape DEF PartialBody
  <2>6. CASE WholeBody(i)
    <3>1. From(i) \in Nat
      BY <1>1, CopyingShape
    <3>2. Smaller(Bigger(Limit(i), From(i)), Length) \in Nat
      BY <1>1, <3>1, LimitInFile DEF Smaller, Bigger
    <3> QED
      BY <1>2, <2>2, <2>6, <3>2, CopyingShape DEF WholeBody
  <2>7. CASE CopyByte(i)
    <3>1. Append(part[i], seg[i].pos) \in Seq(Nat)
      BY <2>1 DEF SegRecord
    <3> seg[i].pos + 1 \in Nat /\ "copy" \in SegmentPC
      BY <2>1 DEF SegRecord, SegmentPC
    <3>2. [seg[i] EXCEPT !.pos = seg[i].pos + 1] \in SegRecord
      BY <2>1, FieldShape
    <3>3. /\ part' = [part EXCEPT ![i] = Append(part[i], seg[i].pos)]
          /\ seg' = [seg EXCEPT ![i] = [seg[i] EXCEPT !.pos = seg[i].pos + 1]]
          /\ plan' = plan
      BY <2>7 DEF CopyByte
    <3> QED
      BY <3>1, <3>2, <3>3 DEF SegRecord
  <2>8. CASE BodyEnds(i)
    <3>1. [seg[i] EXCEPT !.pc = "done"] \in SegRecord
      BY <2>1 DEF SegRecord, SegmentPC
    <3>2. \/ seg' = [seg EXCEPT ![i] = Retry(seg[i], "error")]
          \/ seg' = [seg EXCEPT ![i] = [seg[i] EXCEPT !.pc = "done"]]
      BY <2>8 DEF BodyEnds
    <3> QED
      BY <1>2, <2>2, <2>8, <3>1, <3>2 DEF BodyEnds
  <2>9. CASE Cancelled(i)
    <3>1. [seg[i] EXCEPT !.pc = "error"] \in SegRecord
      BY <2>1 DEF SegRecord, SegmentPC
    <3>2. seg' = [seg EXCEPT ![i] = [seg[i] EXCEPT !.pc = "error"]]
      BY <2>9 DEF Cancelled
    <3> QED
      BY <1>2, <2>9, <3>1, <3>2 DEF Cancelled
  <2> QED
    BY <1>3, <2>3, <2>4, <2>5, <2>6, <2>7, <2>8, <2>9 DEF SegmentStep
<1>4. CASE JoinError \/ MergeError \/ Pause \/ UNCHANGED vars
  BY <1>4 DEF JoinError, MergeError, Pause, vars
<1>5. CASE Merge
  BY <1>5 DEF Merge
<1>6. CASE Crash
  <2>1. UNCHANGED <<plan, seg>>
    BY <1>6 DEF Crash
  <2>2. CASE part' = part
    BY <2>1, <2>2
  <2>3. CASE \E gone \in SUBSET DOMAIN part :
               part' = [i \in DOMAIN part |-> IF i \in gone THEN <<>> ELSE part[i]]
    <3>1. PICK gone : part' = [i \in DOMAIN part |-> IF i \in gone THEN <<>> ELSE part[i]]
      BY <2>3
    <3>2. DOMAIN part' = DOMAIN part /\ part' \in [DOMAIN part -> Seq(Nat)]
      BY <3>1
    <3> QED
      BY <2>1, <3>2
  <2> QED
    BY <1>6, <2>2, <2>3 DEF Crash
<1>7. CASE Resume
  <2>1. FreshSegment \in SegRecord
    BY DEF FreshSegment, SegRecord, SegmentPC
  <2>2. plan' \in Plans
    BY <1>7 DEF Resume
  <2>3. seg' \in [DOMAIN plan' -> SegRecord]
    BY <1>7, <2>1 DEF Resume
  <2>4. part' \in [DOMAIN part' -> Seq(Nat)] /\ DOMAIN plan' \subseteq DOMAIN part'
    BY <1>7 DEF Resume, PartsFor
  <2> QED
    BY <2>2, <2>3, <2>4 DEF SegRecord
<1> QED
  BY <1>3, <1>4, <1>5, <1>6, <1>7 DEF Next

----------------------------------------------------------------------------
(* No segment is complete with too few bytes.                              *)

\* What a step of goroutine i leaves alone.
LEMMA OtherSegments ==
  ASSUME TransferShape, NEW i \in DOMAIN plan, SegmentStep(i)
  PROVE  /\ phase = "running" /\ phase' = phase /\ plan' = plan
         /\ \A j \in DOMAIN plan \ {i} : seg'[j] = seg[j] /\ part'[j] = part[j]
<1>1. phase = "running" /\ phase' = phase /\ plan' = plan
  BY DEF SegmentStep, Probe, NoBody, PartialBody, WholeBody, CopyByte, BodyEnds, Cancelled, At
<1>2. ASSUME NEW j \in DOMAIN plan \ {i} PROVE seg'[j] = seg[j] /\ part'[j] = part[j]
  <2>1. CASE CopyByte(i)
    BY <2>1 DEF CopyByte, TransferShape
  <2>2. CASE Probe(i) \/ NoBody(i) \/ PartialBody(i) \/ WholeBody(i) \/ BodyEnds(i) \/ Cancelled(i)
    BY <2>2 DEF Probe, NoBody, PartialBody, WholeBody, BodyEnds, Cancelled, TransferShape
  <2> QED
    BY <2>1, <2>2 DEF SegmentStep
<1> QED
  BY <1>1, <1>2

\* The numbers a goroutine works with.
LEMMA SegmentNumbers ==
  ASSUME TransferShape, NEW i \in DOMAIN plan
  PROVE  /\ seg[i] \in SegRecord
         /\ seg[i].existing \in Nat /\ seg[i].pos \in Nat /\ seg[i].lim \in Nat
         /\ part[i] \in Seq(Nat) /\ Len(part[i]) \in Nat
<1>1. seg[i] \in SegRecord /\ part[i] \in Seq(Nat)
  BY DEF TransferShape, SegRecord
<1> QED
  BY <1>1 DEF SegRecord

LEMMA FilledStep ==
  ASSUME "redirect" \notin Answers, TransferShape, FilledInv, [Next]_vars
  PROVE  FilledInv'
<1> SUFFICES ASSUME phase' = "running", NEW j \in DOMAIN plan' PROVE SegmentFilled(j)'
  BY DEF FilledInv
<1>1. ASSUME NEW i \in DOMAIN plan, SegmentStep(i)
      PROVE  SegmentFilled(j)'
  <2>1. phase = "running" /\ plan' = plan
    BY <1>1, OtherSegments
  <2>2. CASE j # i
    <3>1. seg'[j] = seg[j] /\ part'[j] = part[j] /\ SegmentFilled(j)
      BY <1>1, <2>1, <2>2, OtherSegments DEF FilledInv
    <3> QED
      BY <2>1, <3>1 DEF SegmentFilled, From, Limit
  <2>3. CASE j = i
    <3>1. SegmentFilled(i)
      BY <2>1 DEF FilledInv
    <3>2. /\ seg[i] \in SegRecord /\ seg[i].existing \in Nat /\ seg[i].pos \in Nat
          /\ part[i] \in Seq(Nat) /\ Len(part[i]) \in Nat
          /\ plan[i].start \in Nat /\ plan[i].end \in Int /\ Limit(i) \in Nat
          /\ plan[i].end >= 0 => Limit(i) = plan[i].end + 1
      BY SegmentNumbers, LimitInFile
    <3>3. i \in DOMAIN seg /\ i \in DOMAIN part
      BY DEF TransferShape, Indices
    <3>4. CASE Probe(i)
      <4>1. seg'[i].pc = "request" /\ seg'[i].existing = Len(part[i]) /\ part'[i] = part[i]
        BY <3>2, <3>3, <3>4 DEF Probe, SegRecord
      <4> QED
        BY <2>1, <2>3, <3>2, <4>1 DEF SegmentFilled
    <3>5. CASE NoBody(i)
      <4>1. seg'[i].pc \in {"request", "error"} /\ seg'[i].existing = seg[i].existing
        <5>1. CASE seg' = [seg EXCEPT ![i] = Retry(seg[i], "error")]
          BY <3>2, <3>3, <5>1, RetryShape DEF SegmentPC
        <5>2. CASE seg' = [seg EXCEPT ![i].attempts = IF @ > MaxRetries THEN @ ELSE @ + 1]
          BY <3>2, <3>3, <3>5, <5>2 DEF NoBody, At, SegRecord
        <5> QED
          BY <3>5, <5>1, <5>2 DEF NoBody
      <4>2. part'[i] = part[i] /\ seg[i].pc = "request"
        BY <3>5 DEF NoBody, At
      <4> QED
        BY <2>1, <2>3, <3>1, <4>1, <4>2 DEF SegmentFilled
    <3>6. ASSUME NEW lim, seg' = [seg EXCEPT ![i] = Copying(i, lim)], part' = part,
                 seg[i].pc = "request"
          PROVE  SegmentFilled(j)'
      <4>1. seg'[i].pc = "copy" /\ seg'[i].pos = From(i) /\ seg'[i].existing = seg[i].existing
        BY <3>2, <3>3, <3>6 DEF Copying, SegRecord
      <4>2. From(i)' = From(i) /\ From(i) = plan[i].start + seg[i].existing
        BY <2>1, <4>1 DEF From
      <4> QED
        BY <2>1, <2>3, <3>1, <3>2, <3>6, <4>1, <4>2 DEF SegmentFilled
    <3>7. CASE PartialBody(i)
      BY <3>6, <3>7 DEF PartialBody, At
    <3>8. CASE WholeBody(i)
      <4>1. CASE From(i) > Length
        <5>1. seg' = [seg EXCEPT ![i] = Retry(seg[i], "error")] /\ part' = part /\ seg[i].pc = "request"
          BY <3>8, <4>1 DEF WholeBody, At
        <5>2. seg'[i].pc \in {"request", "error"} /\ seg'[i].existing = seg[i].existing
          BY <3>2, <3>3, <5>1, RetryShape DEF SegmentPC
        <5> QED
          BY <2>1, <2>3, <3>1, <5>1, <5>2 DEF SegmentFilled
      <4>2. CASE ~(From(i) > Length)
        BY <3>6, <3>8, <4>2 DEF WholeBody, At
      <4> QED
        BY <4>1, <4>2
    <3>9. CASE CopyByte(i)
      <4>1. /\ seg[i].pc = "copy" /\ seg'[i].pc = "copy" /\ seg'[i].pos = seg[i].pos + 1
            /\ seg'[i].existing = seg[i].existing
        BY <3>2, <3>3, <3>9 DEF CopyByte, At, SegRecord
      <4>2. part'[i] = Append(part[i], seg[i].pos)
        BY <3>3, <3>9 DEF CopyByte
      <4>3. Len(part'[i]) = Len(part[i]) + 1
        BY <3>2, <4>2
      <4>4. From(i)' = From(i) /\ From(i) = plan[i].start + seg[i].existing
        BY <2>1, <4>1 DEF From
      <4>5. seg[i].pos >= From(i) /\ plan[i].start + Len(part[i]) >= seg[i].pos
        BY <3>1, <4>1 DEF SegmentFilled
      <4>6. seg'[i].pos >= From(i) /\ plan[i].start + Len(part'[i]) >= seg'[i].pos
        BY <3>2, <4>1, <4>3, <4>4, <4>5, SMTT(30)
      <4> QED
        BY <2>1, <2>3, <4>1, <4>4, <4>6 DEF SegmentFilled
    <3>10. CASE BodyEnds(i)
      <4>1. seg[i].pc = "copy" /\ part' = part
        BY <3>10 DEF BodyEnds, At
      <4>2. From(i) = plan[i].start + seg[i].existing
        BY DEF From
      <4>3. CASE seg' = [seg EXCEPT ![i].pc = "done"] /\ Expected(i)
        <5>1. seg'[i].pc = "done"
          BY <3>2, <3>3, <4>3 DEF SegRecord
        <5>2. plan[i].end >= 0 => plan[i].start + Len(part[i]) >= Limit(i)
          <6> SUFFICES ASSUME plan[i].end >= 0 PROVE plan[i].start + Len(part[i]) >= Limit(i)
            OBVIOUS
          <6>1. seg[i].existing + (seg[i].pos - (plan[i].start + seg[i].existing))
                  = plan[i].end - plan[i].start + 1
            BY <4>2, <4>3 DEF Expected, Written
          <6>2. seg[i].pos = plan[i].end + 1
            BY <3>2, <6>1
          <6>3. plan[i].start + Len(part[i]) >= seg[i].pos
            BY <3>1, <4>1 DEF SegmentFilled
          <6> QED
            BY <3>2, <6>2, <6>3
        <5>3. Limit(i)' = Limit(i)
          BY <2>1 DEF Limit
        <5> QED
          BY <2>1, <2>3, <4>1, <5>1, <5>2, <5>3 DEF SegmentFilled
      <4>4. CASE seg' = [seg EXCEPT ![i] = Retry(seg[i], "error")]
        <5>1. seg'[i].pc \in {"request", "error"} /\ seg'[i].existing = seg[i].existing
          BY <3>2, <3>3, <4>4, RetryShape DEF SegmentPC
        <5>2. Len(part[i]) >= seg[i].existing
          BY <3>1, <3>2, <4>1, <4>2 DEF SegmentFilled
        <5> QED
          BY <2>1, <2>3, <4>1, <5>1, <5>2 DEF SegmentFilled
      <4> QED
        BY <3>10, <4>3, <4>4 DEF BodyEnds
    <3>11. CASE Cancelled(i)
      <4>1. seg'[i].pc = "error"
        BY <3>2, <3>3, <3>11 DEF Cancelled, SegRecord
      <4> QED
        BY <2>3, <4>1 DEF SegmentFilled
    <3> QED
      BY <1>1, <3>4, <3>5, <3>7, <3>8, <3>9, <3>10, <3>11 DEF SegmentStep
  <2> QED
    BY <2>2, <2>3
<1>2. CASE JoinError \/ Merge \/ MergeError \/ Crash
  BY <1>2 DEF JoinError, Merge, MergeError, Crash
<1>3. CASE Pause \/ UNCHANGED vars
  <2>1. phase = "running" /\ UNCHANGED <<plan, part, seg>>
    BY <1>3 DEF Pause, vars
  <2> QED
    BY <2>1 DEF FilledInv, SegmentFilled, From, Limit
<1>4. CASE Resume
  <2>1. seg'[j].pc = "probe"
    BY <1>4 DEF Resume, FreshSegment
  <2> QED
    BY <2>1 DEF SegmentFilled
<1> QED
  BY <1>1, <1>2, <1>3, <1>4 DEF Next

\* Unless the server answers with a status such as 302, which ends a segment
\* without an error, no segment with a known end is ever taken for complete
\* while its part file lacks bytes: the length check of downloadSegment holds
\* through retries that append, pauses, crashes and changed plans.
THEOREM CompleteSegmentsFilled ==
  ASSUME "redirect" \notin Answers
  PROVE  Spec => []DoneNotShort
<1>1. Init => FilledInv
  BY DEF Init, FilledInv, SegmentFilled, FreshSegment
<1>2. TransferShape /\ FilledInv => DoneNotShort
  BY DEF FilledInv, SegmentFilled, DoneNotShort
<1> QED
  BY <1>1, <1>2, ShapeInit, ShapeStep, FilledStep, PTL DEF Spec

----------------------------------------------------------------------------
(* Part files hold prefixes of their segments.                             *)

\* Bodies that are served end where they should, and a resumed run has the
\* plan of the run before.
Benign == Answers \cap {"short", "broken"} = {} /\ ~MayReplan

\* PartsArePrefixes for one segment.
PrefixOf(i) ==
  /\ plan[i].start + Len(part[i]) <= Limit(i)
  /\ \A k \in 1..Len(part[i]) : part[i][k] = plan[i].start + k - 1

LEMMA AlignedStep ==
  ASSUME Benign, TransferShape, AlignedInv, PartsArePrefixes, [Next]_vars
  PROVE  AlignedInv' /\ PartsArePrefixes'
<1> SUFFICES ASSUME NEW j \in DOMAIN plan'
             PROVE  (phase' = "running" => SegmentAligned(j)') /\ PrefixOf(j)'
  BY DEF AlignedInv, PartsArePrefixes, PrefixOf
<1>1. ASSUME NEW i \in DOMAIN plan, SegmentStep(i)
      PROVE  SegmentAligned(j)' /\ PrefixOf(j)'
  <2>1. phase = "running" /\ plan' = plan
    BY <1>1, OtherSegments
  <2>2. j \in DOMAIN plan /\ SegmentAligned(j) /\ PrefixOf(j) /\ Limit(j)' = Limit(j)
    BY <2>1 DEF AlignedInv, PartsArePrefixes, PrefixOf, Limit
  <2>3. CASE j # i
    <3>1. seg'[j] = seg[j] /\ part'[j] = part[j]
      BY <1>1, <2>2, <2>3, OtherSegments
    <3> QED
      BY <2>1, <2>2, <3>1 DEF SegmentAligned, PrefixOf
  <2>4. CASE j = i
    <3>1. SegmentAligned(i) /\ PrefixOf(i) /\ Limit(i)' = Limit(i)
      BY <2>2, <2>4
    <3>2. /\ seg[i] \in SegRecord /\ seg[i].existing \in Nat /\ seg[i].pos \in Nat
          /\ part[i] \in Seq(Nat) /\ Len(part[i]) \in Nat /\ Length \in Nat
          /\ plan[i].start \in Nat /\ plan[i].end \in Int
          /\ Limit(i) \in Nat /\ Limit(i) <= Length
          /\ plan[i].end >= 0 => Limit(i) = plan[i].end + 1
      BY SegmentNumbers, LimitInFile, TransferAssumption
    <3>3. i \in DOMAIN seg /\ i \in DOMAIN part
      BY DEF TransferShape, Indices
    <3>4. ASSUME part'[i] = part[i] PROVE PrefixOf(j)'
      BY <2>1, <2>4, <3>1, <3>4 DEF PrefixOf
    <3>5. CASE Probe(i)
      <4>1. seg'[i].pc = "request" /\ seg'[i].existing = Len(part[i]) /\ part'[i] = part[i]
        BY <3>2, <3>3, <3>5 DEF Probe, SegRecord
      <4> QED
        BY <2>4, <3>4, <4>1 DEF SegmentAligned
    <3>6. ASSUME seg[i].pc = "request", part'[i] = part[i],
                 seg'[i].pc \in {"request", "error", "done"}, seg'[i].existing = seg[i].existing
          PROVE  SegmentAligned(j)' /\ PrefixOf(j)'
      BY <2>4, <3>1, <3>4, <3>6 DEF SegmentAligned
    <3>7. CASE NoBody(i)
      <4>1. seg'[i].pc \in {"request", "error", "done"} /\ seg'[i].existing = seg[i].existing
        <5>1. CASE seg' = [seg EXCEPT ![i] = Retry(seg[i], "error")]
          BY <3>2, <3>3, <5>1, RetryShape DEF SegmentPC
        <5>2. CASE seg' = [seg EXCEPT ![i] = Retry(seg[i], "done")]
          BY <3>2, <3>3, <5>2, RetryShape DEF SegmentPC
        <5>3. CASE seg' = [seg EXCEPT ![i].attempts = IF @ > MaxRetries THEN @ ELSE @ + 1]
          BY <3>2, <3>3, <3>7, <5>3 DEF NoBody, At, SegRecord
        <5> QED
          BY <3>7, <5>1, <5>2, <5>3 DEF NoBody
      <4> QED
        BY <3>6, <3>7, <4>1 DEF NoBody, At
    <3>8. ASSUME NEW lim, seg' = [seg EXCEPT ![i] = Copying(i, lim)], lim = Limit(i),
                 part' = part, seg[i].pc = "request"
          PROVE  SegmentAligned(j)' /\ PrefixOf(j)'
      <4>1. seg'[i].pc = "copy" /\ seg'[i].pos = From(i) /\ seg'[i].lim = Limit(i)
        BY <3>2, <3>3, <3>8 DEF Copying, SegRecord
      <4>2. From(i) = plan[i].start + Len(part[i])
        BY <3>1, <3>8 DEF From, SegmentAligned
      <4> QED
        BY <2>1, <2>4, <3>1, <3>4, <3>8, <4>1, <4>2 DEF SegmentAligned
    <3>9. CASE PartialBody(i)
      <4>1. Smaller(Limit(i), Length) = Limit(i)
        BY <3>2 DEF Smaller
      <4> QED
        BY <3>8, <3>9, <4>1 DEF PartialBody, At
    <3>10. CASE WholeBody(i)
      <4>1. From(i) <= Limit(i) /\ From(i) \in Nat
        BY <3>1, <3>2, <3>10 DEF WholeBody, At, From, SegmentAligned, PrefixOf
      <4>2. Smaller(Bigger(Limit(i), From(i)), Length) = Limit(i) /\ ~(From(i) > Length)
        BY <3>2, <4>1 DEF Smaller, Bigger
      <4> QED
        BY <3>8, <3>10, <4>2 DEF WholeBody, At
    <3>11. CASE CopyByte(i)
      <4>1. /\ seg[i].pc = "copy" /\ seg[i].pos < seg[i].lim
            /\ seg'[i].pc = "copy" /\ seg'[i].pos = seg[i].pos + 1 /\ seg'[i].lim = seg[i].lim
        BY <3>2, <3>3, <3>11 DEF CopyByte, At, SegRecord
      <4>2. part'[i] = Append(part[i], seg[i].pos)
        BY <3>3, <3>11 DEF CopyByte
      <4>3. seg[i].pos = plan[i].start + Len(part[i]) /\ seg[i].lim = Limit(i)
        BY <3>1, <4>1 DEF SegmentAligned
      <4>4. Len(part'[i]) = Len(part[i]) + 1
        BY <3>2, <4>2
      <4>5. seg'[i].pos = plan[i].start + Len(part'[i])
        <5>1. seg[i].pos + 1 = plan[i].start + (Len(part[i]) + 1)
          BY <3>2, <4>3
        <5> QED
          BY <4>1, <4>4, <5>1, Zenon
      <4>6. SegmentAligned(j)'
        BY <2>1, <2>4, <3>1, <4>1, <4>3, <4>5 DEF SegmentAligned
      <4>7. plan[i].start + Len(part'[i]) <= Limit(i)
        BY <3>2, <4>1, <4>3, <4>4
      <4>8. ASSUME NEW k \in 1..Len(part'[i]) PROVE part'[i][k] = plan[i].start + k - 1
        <5>1. CASE k \in 1..Len(part[i])
          <6>1. part'[i][k] = part[i][k]
            BY <3>2, <4>2, <5>1
          <6> QED
            BY <3>1, <5>1, <6>1 DEF PrefixOf
        <5>2. CASE k = Len(part[i]) + 1
          <6>1. part'[i][k] = seg[i].pos
            BY <3>2, <4>2, <5>2
          <6> QED
            BY <3>2, <4>3, <5>2, <6>1
        <5> QED
          BY <3>2, <4>4, <5>1, <5>2
      <4> QED
        BY <2>1, <2>4, <3>1, <4>6, <4>7, <4>8 DEF PrefixOf
    <3>12. CASE BodyEnds(i)
      <4>1. seg[i].pc = "copy" /\ part' = part
        BY <3>12 DEF BodyEnds, At
      <4>2. seg[i].pos = plan[i].start + Len(part[i]) /\ seg[i].lim = Limit(i)
        BY <3>1, <4>1 DEF SegmentAligned
      <4>3. seg[i].pos = seg[i].lim
        BY <3>12 DEF BodyEnds, Benign
      <4>4. From(i) = plan[i].start + seg[i].existing
        BY DEF From
      <4>5. Expected(i)
        <5> SUFFICES ASSUME plan[i].end >= 0
                     PROVE  seg[i].existing + (seg[i].pos - From(i)) = plan[i].end - plan[i].start + 1
          BY DEF Expected, Written
        <5>1. seg[i].pos = plan[i].end + 1
          BY <3>2, <4>2, <4>3
        <5> QED
          BY <3>2, <4>4, <5>1
      <4>6. seg' = [seg EXCEPT ![i].pc = "done"]
        BY <3>12, <4>5 DEF BodyEnds, Benign
      <4>7. seg'[i].pc = "done"
        BY <3>2, <3>3, <4>6 DEF SegRecord
      <4> QED
        BY <2>4, <3>4, <4>1, <4>7 DEF SegmentAligned
    <3>13. CASE Cancelled(i)
      <4>1. seg'[i].pc = "error" /\ part' = part
        BY <3>2, <3>3, <3>13 DEF Cancelled, SegRecord
      <4> QED
        BY <2>4, <3>4, <4>1 DEF SegmentAligned
    <3> QED
      BY <1>1, <3>5, <3>7, <3>9, <3>10, <3>11, <3>12, <3>13 DEF SegmentStep
  <2> QED
    BY <2>3, <2>4
<1>2. ASSUME plan' = plan, part'[j] \in {part[j], <<>>} PROVE PrefixOf(j)'
  <2>1. j \in DOMAIN plan /\ PrefixOf(j) /\ Limit(j)' = Limit(j)
    BY <1>2 DEF PartsArePrefixes, PrefixOf, Limit
  <2>2. CASE part'[j] = part[j]
    BY <1>2, <2>1, <2>2 DEF PrefixOf
  <2>3. CASE part'[j] = <<>>
    <3>1. Len(part'[j]) = 0
      BY <2>3
    <3>2. plan[j].start \in Nat /\ plan[j].start <= Limit(j)
      BY <2>1, LimitInFile
    <3> QED
      BY <1>2, <2>1, <3>1, <3>2 DEF PrefixOf
  <2> QED
    BY <1>2, <2>2, <2>3
<1>3. ASSUME plan' = plan PROVE j \in DOMAIN part
  BY <1>3 DEF TransferShape, Indices
<1>4. CASE JoinError \/ Merge \/ MergeError
  <2>1. phase' # "running" /\ plan' = plan
    BY <1>4 DEF JoinError, Merge, MergeError
  <2>2. part'[j] \in {part[j], <<>>}
    BY <1>3, <1>4, <2>1 DEF JoinError, Merge, MergeError, Indices
  <2> QED
    BY <1>2, <2>1, <2>2
<1>5. CASE Crash
  <2>1. phase' # "running" /\ plan' = plan
    BY <1>5 DEF Crash
  <2>2. part'[j] \in {part[j], <<>>}
    BY <1>3, <1>5, <2>1 DEF Crash, Indices
  <2> QED
    BY <1>2, <2>1, <2>2
<1>6. CASE Pause \/ UNCHANGED vars
  <2>1. UNCHANGED <<plan, part, seg, phase>>
    BY <1>6 DEF Pause, vars
  <2>2. PrefixOf(j)'
    BY <1>2, <2>1
  <2> QED
    BY <2>1, <2>2 DEF AlignedInv, SegmentAligned, Limit
<1>7. CASE Resume
  <2>1. plan' = plan /\ part' = PartsFor(plan)
    BY <1>7 DEF Resume, Benign
  <2>2. part'[j] = part[j]
    BY <1>3, <2>1 DEF PartsFor, Indices
  <2>3. seg'[j].pc = "probe"
    BY <1>7 DEF Resume, FreshSegment
  <2> QED
    BY <1>2, <2>1, <2>2, <2>3 DEF SegmentAligned
<1> QED
  BY <1>1, <1>4, <1>5, <1>6, <1>7 DEF Next

\* With a server that serves what it begins to serve, whether it honours
\* ranges, ignores them or refuses some requests, and a plan that does not
\* change, the part files hold the first bytes of their segments at every
\* moment, which is what the resume of downloadSegment relies on.
THEOREM PartsStayPrefixes ==
  ASSUME Benign
  PROVE  Spec => []PartsArePrefixes
<1>1. Init => AlignedInv /\ PartsArePrefixes
  <2> SUFFICES ASSUME Init PROVE AlignedInv /\ PartsArePrefixes
    OBVIOUS
  <2>1. TransferShape
    BY ShapeInit
  <2>2. ASSUME NEW i \in DOMAIN plan
        PROVE  seg[i].pc = "probe" /\ part[i] = <<>> /\ plan[i].start \in Nat /\ plan[i].start <= Limit(i)
    BY <2>1, LimitInFile DEF Init, FreshSegment, EmptyParts
  <2>3. AlignedInv
    BY <2>2 DEF AlignedInv, SegmentAligned
  <2>4. PartsArePrefixes
    BY <2>2 DEF PartsArePrefixes
  <2> QED
    BY <2>3, <2>4
<1> QED
  BY <1>1, ShapeInit, ShapeStep, AlignedStep, PTL DEF Spec
=============================================================================
