--------------------------- MODULE MergingProofs ---------------------------
(***************************************************************************)
(* Theorems about the names of final files, for any downloads, options and *)
(* files that were there before, and for any number of merges at the same  *)
(* time.                                                                   *)
(***************************************************************************)
EXTENDS Merging, FiniteSetTheorems, TLAPS

\* The steps of a runner.
RunnerStep(d) ==
  \/ Start(d) \/ FetchPart(d) \/ FetchError(d) \/ ListParts(d)
  \/ Stat(d) \/ Probe(d) \/ Clear(d) \/ Create(d) \/ CopyPart(d) \/ Rename(d)
  \/ CleanUp(d) \/ Verify(d) \/ Finish(d)

\* The files merges are writing, or have written and not renamed, are theirs.
OwnFiles ==
  /\ \A p \in DOMAIN tmp : data[tmp[p]] # Foreign
  /\ \A d \in Downloads : run[d].pc = "copy" => data[run[d].fd] # Foreign

\* A merge that spares existing files is not heading for the name of one.
Spared ==
  \A d \in Downloads :
    Policy[d] # "overwrite" /\ run[d].pc \in Heading =>
      ~(run[d].name \in DOMAIN dir /\ data[dir[run[d].name]] = Foreign)

NameInv == TypeOK /\ OwnFiles /\ Spared

-----------------------------------------------------------------------------
(* Types *)

LEMMA InitialTypes == Init => TypeOK
<1> SUFFICES ASSUME Init PROVE TypeOK
  OBVIOUS
<1>1. Cardinality(Existing) \in Nat
  BY MergingAssumption, FS_CardinalityType
<1>2. Foreign \in Seq(Chunks)
  <2>1. Chunk(Nobody, 1, TRUE) \in Chunks
    BY DEF Chunk, Chunks
  <2>2. \A x \in Chunks : <<x>> \in Seq(Chunks)
    OBVIOUS
  <2> QED BY <2>1, <2>2, Zenon DEF Foreign
<1>3. data \in Seq(Seq(Chunks)) /\ Len(data) = Cardinality(Existing)
  <2>1. data = [i \in 1..Cardinality(Existing) |-> Foreign]
    BY DEF Init
  <2> QED BY <1>1, <1>2, <2>1
<1>4. /\ DOMAIN dir \subseteq Path /\ \A p \in DOMAIN dir : dir[p] \in 1..Len(data)
      /\ DOMAIN tmp \subseteq Path /\ \A p \in DOMAIN tmp : tmp[p] \in 1..Len(data)
  <2>1. dir \in [Existing -> 1..Cardinality(Existing)]
    BY DEF Init
  <2>2. DOMAIN tmp = {}
    BY DEF Init
  <2>3. Existing \subseteq Path
    BY MergingAssumption DEF Path
  <2> QED BY <1>3, <2>1, <2>2, <2>3
<1>5. /\ rec \in [Downloads -> Entry] /\ rm \in [Downloads -> Removal]
      /\ parts \in [Downloads -> SUBSET (1..Parts)]
  BY MergingAssumption DEF Init, Path, Entry, Removal, NoRemoval
<1>6. Idle \in Runner
  BY MergingAssumption DEF Idle, Runner, Path
<1>7. run \in [Downloads -> Runner] /\ \A d \in Downloads : run[d].pc # "copy"
  BY <1>6 DEF Init, Idle
<1> QED BY <1>3, <1>4, <1>5, <1>7 DEF TypeOK

\* A runner moves to another well formed state.
LEMMA Moved ==
  ASSUME TypeOK, NEW d \in Downloads, NEW r \in Runner, run' = [run EXCEPT ![d] = r],
         Len(data') \in Nat, Len(data) <= Len(data'),
         r.pc = "copy" => r.fd \in 1..Len(data')
  PROVE  /\ run' \in [Downloads -> Runner]
         /\ \A e \in Downloads : run'[e].pc = "copy" => run'[e].fd \in 1..Len(data')
<1>1. run' \in [Downloads -> Runner]
  BY DEF TypeOK
<1>2. ASSUME NEW e \in Downloads, run'[e].pc = "copy"
      PROVE  run'[e].fd \in 1..Len(data')
  <2>1. CASE e = d
    BY <2>1, <1>2 DEF TypeOK
  <2>2. CASE e # d
    <3>1. run'[e] = run[e] /\ run[e].fd \in 1..Len(data) /\ Len(data) \in Nat
      BY <2>2, <1>2 DEF TypeOK
    <3> QED BY <3>1
  <2> QED BY <2>1, <2>2
<1> QED BY <1>1, <1>2

LEMMA Written ==
  ASSUME NEW s \in Seq(Chunks), NEW k \in Nat \ {0}, NEW x \in Chunks
  PROVE  /\ WriteAt(s, k, x) \in Seq(Chunks)
         /\ k \in 1..Len(WriteAt(s, k, x))
         /\ WriteAt(s, k, x)[k] = x
<1>1. Hole \in Chunks
  BY DEF Hole, Chunk, Chunks
<1> DEFINE n == IF k > Len(s) THEN k ELSE Len(s)
<1>2. n \in Nat /\ k \in 1..n
  OBVIOUS
<1> HIDE DEF n
<1>3. WriteAt(s, k, x) = [j \in 1..n |-> IF j = k THEN x ELSE IF j <= Len(s) THEN s[j] ELSE Hole]
  BY DEF WriteAt, n
<1>4. \A j \in 1..n : (IF j = k THEN x ELSE IF j <= Len(s) THEN s[j] ELSE Hole) \in Chunks
  BY <1>1, <1>2
<1> QED BY <1>2, <1>3, <1>4

\* The steps that move only a runner, and perhaps its record or its parts.
LEMMA TypesOfQuietSteps ==
  ASSUME TypeOK, NEW d \in Downloads, NEW r \in Runner, run' = [run EXCEPT ![d] = r],
         r.pc # "copy", UNCHANGED <<dir, tmp, data, rm>>,
         rec' \in [Downloads -> Entry],
         parts' \in [Downloads -> SUBSET (1..Parts)]
  PROVE  TypeOK'
<1>1. data' = data /\ Len(data) \in Nat
  BY DEF TypeOK
<1>a. Len(data') \in Nat /\ Len(data) <= Len(data')
  BY <1>1
<1>2. /\ run' \in [Downloads -> Runner]
      /\ \A e \in Downloads : run'[e].pc = "copy" => run'[e].fd \in 1..Len(data')
  BY <1>a, Moved
<1> QED BY <1>1, <1>2 DEF TypeOK

LEMMA TypesOfRunners ==
  ASSUME TypeOK, NEW d \in Downloads, RunnerStep(d)
  PROVE  TypeOK'
<1>0. /\ run[d] \in Runner /\ run[d].name \in Path /\ run[d].try \in Nat
      /\ run[d].at \in Nat \ {0} /\ run[d].good \in BOOLEAN
      /\ run[d].todo \in SUBSET (1..Parts)
      /\ rec \in [Downloads -> Entry] /\ rec[d].name \in Path
      /\ parts \in [Downloads -> SUBSET (1..Parts)]
      /\ data \in Seq(Seq(Chunks)) /\ Len(data) \in Nat
      /\ Parts \in Nat \ {0}
  BY MergingAssumption DEF TypeOK, Runner, Entry
<1>a. 1 \in Nat \ {0} /\ run[d].try + 1 \in Nat
  BY <1>0
<1>1. ASSUME NEW pc \in {"stat", "probe", "clear", "create",
                         "clean", "verify", "complete", "fail"}, Goto(d, pc)
      PROVE  /\ [run[d] EXCEPT !.pc = pc] \in Runner
             /\ [run[d] EXCEPT !.pc = pc].pc # "copy"
             /\ run' = [run EXCEPT ![d] = [run[d] EXCEPT !.pc = pc]]
  BY <1>0, <1>1 DEF Goto, Runner, TypeOK
<1>2. CASE Start(d)
  <2>1. PICK good \in BOOLEAN :
          run' = [run EXCEPT ![d] = [Idle EXCEPT !.pc = "fetch", !.todo = 1..Parts,
                                                 !.name = rec[d].name, !.good = good]]
    BY <1>2 DEF Start
  <2> DEFINE r == [Idle EXCEPT !.pc = "fetch", !.todo = 1..Parts,
                               !.name = rec[d].name, !.good = good]
  <2>2. r \in Runner /\ r.pc # "copy"
    BY <1>0, <1>a DEF Idle, Runner
  <2>3. rec' \in [Downloads -> Entry]
    BY <1>2, <1>0 DEF Start, Entry
  <2>4. parts' \in [Downloads -> SUBSET (1..Parts)] /\ UNCHANGED <<dir, tmp, data, rm>>
    BY <1>2, <1>0 DEF Start
  <2> HIDE DEF r
  <2> QED BY <2>1, <2>2, <2>3, <2>4, TypesOfQuietSteps DEF r
<1>3. CASE FetchPart(d)
  <2>1. PICK k \in run[d].todo : /\ parts' = [parts EXCEPT ![d] = @ \cup {k}]
                                 /\ run' = [run EXCEPT ![d].todo = @ \ {k}]
    BY <1>3 DEF FetchPart
  <2>2. UNCHANGED <<dir, tmp, data, rm, rec>> /\ run[d].pc = "fetch"
    BY <1>3 DEF FetchPart
  <2> DEFINE r == [run[d] EXCEPT !.todo = run[d].todo \ {k}]
  <2>3. run' = [run EXCEPT ![d] = r]
    BY <2>1 DEF TypeOK
  <2>4. run[d].todo \ {k} \in SUBSET (1..Parts) /\ k \in 1..Parts
    BY <1>0
  <2>5. r \in Runner /\ r.pc # "copy"
    BY <1>0, <2>2, <2>4 DEF Runner
  <2>6. parts' \in [Downloads -> SUBSET (1..Parts)]
    BY <1>0, <2>1, <2>4
  <2> HIDE DEF r
  <2> QED BY <1>0, <2>2, <2>3, <2>5, <2>6, TypesOfQuietSteps
<1>3a. CASE FetchError(d)
  <2>1. Goto(d, "fail") /\ UNCHANGED <<dir, tmp, data, rm, rec, parts>>
    BY <1>3a DEF FetchError
  <2> QED BY <1>0, <1>1, <2>1, TypesOfQuietSteps
<1>3b. CASE ListParts(d)
  <2> DEFINE pc == IF parts[d] = {} THEN "fail" ELSE "stat"
             r  == [run[d] EXCEPT !.pc = pc, !.todo = parts[d]]
  <2>1. run' = [run EXCEPT ![d] = r]
    BY <1>3b DEF ListParts, TypeOK
  <2>2. UNCHANGED <<dir, tmp, data, rm, rec, parts>>
    BY <1>3b DEF ListParts
  <2>3. parts[d] \in SUBSET (1..Parts) /\ pc \in {"fail", "stat"}
    BY <1>0
  <2> HIDE DEF pc
  <2>4. r \in Runner /\ r.pc # "copy"
    BY <1>0, <2>3 DEF Runner
  <2> HIDE DEF r
  <2> QED BY <1>0, <2>1, <2>2, <2>4, TypesOfQuietSteps
<1>b. ASSUME NEW name \in Path, SetOut(d, name), UNCHANGED <<dir, tmp, data, rm, rec, parts>>
      PROVE  TypeOK'
  <2> DEFINE r == [run[d] EXCEPT !.pc = "clear", !.name = name]
  <2>1. r \in Runner /\ r.pc # "copy"
    BY <1>0 DEF Runner
  <2>2. run' = [run EXCEPT ![d] = r]
    BY <1>b DEF TypeOK, SetOut
  <2> HIDE DEF r
  <2> QED BY <1>0, <1>b, <2>1, <2>2, TypesOfQuietSteps
<1>4. CASE Stat(d)
  <2>1. UNCHANGED <<dir, tmp, data, rm, rec, parts>>
    BY <1>4 DEF Stat
  <2>2. CASE run' = [run EXCEPT ![d].pc = "probe", ![d].try = 1]
    <3> DEFINE r == [run[d] EXCEPT !.pc = "probe", !.try = 1]
    <3>1. r \in Runner /\ r.pc # "copy"
      BY <1>0 DEF Runner
    <3>2. run' = [run EXCEPT ![d] = r]
      BY <2>2 DEF TypeOK
    <3> HIDE DEF r
    <3> QED BY <1>0, <2>1, <3>1, <3>2, TypesOfQuietSteps
  <2>3. CASE Goto(d, "fail")
    BY <1>0, <1>1, <2>1, <2>3, TypesOfQuietSteps
  <2>4. CASE SetOut(d, run[d].name)
    BY <1>0, <1>b, <2>1, <2>4
  <2> QED BY <1>4, <2>2, <2>3, <2>4 DEF Stat
<1>5. CASE Probe(d)
  <2>1. UNCHANGED <<dir, tmp, data, rm, rec, parts>> /\ run[d].pc = "probe"
    BY <1>5 DEF Probe
  <2> DEFINE candidate == Append(run[d].name, run[d].try)
  <2>2. candidate \in Path
    BY <1>0 DEF Path
  <2>3. CASE run' = [run EXCEPT ![d].try = @ + 1]
    <3> DEFINE r == [run[d] EXCEPT !.try = run[d].try + 1]
    <3>1. r \in Runner /\ r.pc # "copy"
      BY <1>0, <1>a, <2>1 DEF Runner
    <3>2. run' = [run EXCEPT ![d] = r]
      BY <2>3 DEF TypeOK
    <3> HIDE DEF r
    <3> QED BY <1>0, <2>1, <3>1, <3>2, TypesOfQuietSteps
  <2>4. CASE SetOut(d, candidate)
    BY <1>b, <2>1, <2>2, <2>4
  <2> QED BY <1>5, <2>3, <2>4 DEF Probe
<1>6. CASE Clear(d)
  <2>1. /\ Goto(d, "create") /\ UNCHANGED <<dir, data, rm, rec, parts>>
        /\ tmp' = Unlink(tmp, run[d].name)
    BY <1>6 DEF Clear
  <2>2. DOMAIN tmp' \subseteq Path /\ \A p \in DOMAIN tmp' : tmp'[p] \in 1..Len(data)
    BY <1>0, <2>1 DEF TypeOK, Unlink
  <2>3. /\ run' \in [Downloads -> Runner]
        /\ \A e \in Downloads : run'[e].pc = "copy" => run'[e].fd \in 1..Len(data')
    <3>1. Len(data') \in Nat /\ Len(data) <= Len(data')
      BY <1>0, <2>1
    <3> QED BY <1>1, <2>1, <3>1, Moved
  <2> QED BY <2>1, <2>2, <2>3 DEF TypeOK
<1>7. CASE Create(d)
  <2> DEFINE old == Exists(tmp, run[d].name)
             fd  == IF old THEN tmp[run[d].name] ELSE Len(data) + 1
             r   == [run[d] EXCEPT !.pc = "copy", !.fd = fd, !.at = 1]
  <2>1. /\ tmp' = Link(tmp, run[d].name, fd)
        /\ data' = IF old THEN [data EXCEPT ![fd] = <<>>] ELSE Append(data, <<>>)
        /\ run' = [run EXCEPT ![d] = r]
        /\ UNCHANGED <<dir, rm, rec, parts>>
    BY <1>7 DEF Create, TypeOK
  <2>2. old => tmp[run[d].name] \in 1..Len(data)
    BY DEF Exists, TypeOK
  <2>3. /\ data' \in Seq(Seq(Chunks)) /\ Len(data') \in Nat
        /\ Len(data) <= Len(data') /\ fd \in Nat /\ fd \in 1..Len(data')
    <3>1. CASE old
      BY <3>1, <1>0, <2>1, <2>2
    <3>2. CASE ~old
      BY <3>2, <1>0, <2>1
    <3> QED BY <3>1, <3>2
  <2> HIDE DEF old, fd
  <2>4. r \in Runner /\ r.fd = fd
    BY <1>0, <1>a, <2>3 DEF Runner
  <2> HIDE DEF r
  <2>5. /\ run' \in [Downloads -> Runner]
        /\ \A e \in Downloads : run'[e].pc = "copy" => run'[e].fd \in 1..Len(data')
    BY <2>1, <2>3, <2>4, Moved
  <2>6. /\ DOMAIN tmp \subseteq Path /\ \A p \in DOMAIN tmp : tmp[p] \in 1..Len(data')
        /\ DOMAIN dir \subseteq Path /\ \A p \in DOMAIN dir : dir[p] \in 1..Len(data')
    BY <1>0, <2>3 DEF TypeOK
  <2>7. DOMAIN tmp' \subseteq Path /\ \A p \in DOMAIN tmp' : tmp'[p] \in 1..Len(data')
    <3>1. /\ DOMAIN tmp' = DOMAIN tmp \cup {run[d].name}
          /\ \A p \in DOMAIN tmp' : tmp'[p] = IF p = run[d].name THEN fd ELSE tmp[p]
      BY <2>1 DEF Link
    <3> QED BY <1>0, <2>3, <2>6, <3>1
  <2> QED BY <2>1, <2>3, <2>5, <2>6, <2>7 DEF TypeOK
<1>8. CASE CopyPart(d)
  <2>1. UNCHANGED <<dir, tmp, rm, rec, parts>> /\ run[d].pc = "copy"
        /\ run[d].fd \in 1..Len(data)
    BY <1>8 DEF CopyPart, TypeOK
  <2>2. CASE Goto(d, "fail") /\ UNCHANGED data
    BY <1>0, <1>1, <2>1, <2>2, TypesOfQuietSteps
  <2>3. CASE ~(Goto(d, "fail") /\ UNCHANGED data)
    <3>1. PICK k \in run[d].todo :
            /\ data' = [data EXCEPT ![run[d].fd] =
                           WriteAt(@, run[d].at, Chunk(d, k, run[d].good))]
            /\ run' = [run EXCEPT ![d].todo = @ \ {k}, ![d].at = @ + 1]
      BY <1>8, <2>3 DEF CopyPart
    <3> DEFINE x == Chunk(d, k, run[d].good)
               s == WriteAt(data[run[d].fd], run[d].at, x)
               r == [run[d] EXCEPT !.todo = run[d].todo \ {k}, !.at = run[d].at + 1]
    <3>2. data' = [data EXCEPT ![run[d].fd] = s] /\ run' = [run EXCEPT ![d] = r]
      BY <3>1 DEF TypeOK
    <3>3. k \in Nat /\ run[d].todo \ {k} \in SUBSET (1..Parts) /\ run[d].at + 1 \in Nat \ {0}
      BY <1>0
    <3>4. x \in Chunks /\ data[run[d].fd] \in Seq(Chunks)
      BY <1>0, <2>1, <3>3, SMTT(30) DEF Chunk, Chunks
    <3>5. s \in Seq(Chunks)
      BY <1>0, <3>4, Written
    <3>6. r \in Runner /\ r.fd = run[d].fd
      BY <1>0, <3>3 DEF Runner
    <3> HIDE DEF s, r
    <3>7. data' \in Seq(Seq(Chunks)) /\ Len(data') = Len(data)
      BY <1>0, <2>1, <3>2, <3>5
    <3>8. /\ run' \in [Downloads -> Runner]
          /\ \A e \in Downloads : run'[e].pc = "copy" => run'[e].fd \in 1..Len(data')
      <4>1. /\ Len(data') \in Nat /\ Len(data) <= Len(data')
            /\ r.fd \in 1..Len(data')
        BY <1>0, <2>1, <3>6, <3>7
      <4> QED BY <3>2, <3>6, <4>1, Moved
    <3> QED BY <2>1, <3>7, <3>8 DEF TypeOK
  <2> QED BY <2>2, <2>3
<1>9. CASE Rename(d)
  <2>1. UNCHANGED <<data, rm, rec, parts>>
    BY <1>9 DEF Rename
  <2>2. CASE Goto(d, "fail") /\ UNCHANGED <<dir, tmp>>
    BY <1>0, <1>1, <2>1, <2>2, TypesOfQuietSteps
  <2>3. CASE ~(Goto(d, "fail") /\ UNCHANGED <<dir, tmp>>)
    <3>1. /\ run[d].name \in DOMAIN tmp
          /\ dir' = Link(dir, run[d].name, tmp[run[d].name])
          /\ tmp' = Unlink(tmp, run[d].name)
          /\ Goto(d, "clean")
      BY <1>9, <2>3 DEF Rename, Exists
    <3>2. tmp[run[d].name] \in 1..Len(data) /\ tmp[run[d].name] \in Nat
      BY <1>0, <3>1 DEF TypeOK
    <3>3. DOMAIN dir' \subseteq Path /\ \A p \in DOMAIN dir' : dir'[p] \in 1..Len(data)
      <4>1. DOMAIN dir \subseteq Path /\ \A p \in DOMAIN dir : dir[p] \in 1..Len(data)
        BY DEF TypeOK
      <4> QED BY <1>0, <3>1, <3>2, <4>1 DEF Link
    <3>4. DOMAIN tmp' \subseteq Path /\ \A p \in DOMAIN tmp' : tmp'[p] \in 1..Len(data)
      BY <3>1 DEF TypeOK, Unlink
    <3>5. /\ run' \in [Downloads -> Runner]
          /\ \A e \in Downloads : run'[e].pc = "copy" => run'[e].fd \in 1..Len(data')
      <4>1. Len(data') \in Nat /\ Len(data) <= Len(data')
        BY <1>0, <2>1
      <4> QED BY <1>1, <3>1, <4>1, Moved
    <3> QED BY <2>1, <3>3, <3>4, <3>5 DEF TypeOK
  <2> QED BY <2>2, <2>3
<1>10. CASE CleanUp(d)
  <2>1. UNCHANGED <<dir, tmp, data, rm, rec>>
    BY <1>10 DEF CleanUp
  <2>2. CASE Goto(d, "verify") /\ UNCHANGED parts
    BY <1>0, <1>1, <2>1, <2>2, TypesOfQuietSteps
  <2>3. CASE ~(Goto(d, "verify") /\ UNCHANGED parts)
    <3>1. run' = run /\ parts' \in [Downloads -> SUBSET (1..Parts)]
      BY <1>0, <1>10, <2>3 DEF CleanUp
    <3> QED BY <2>1, <3>1 DEF TypeOK
  <2> QED BY <2>2, <2>3
<1>11. CASE Verify(d)
  <2>1. PICK pc \in {"complete", "fail"} : Goto(d, pc)
    BY <1>11 DEF Verify
  <2>2. UNCHANGED <<dir, tmp, data, rm, rec, parts>>
    BY <1>11 DEF Verify
  <2> QED BY <1>0, <1>1, <2>1, <2>2, TypesOfQuietSteps
<1>12. CASE Finish(d)
  <2>1. run' = [run EXCEPT ![d] = Idle] /\ UNCHANGED <<dir, tmp, data, rm, parts>>
    BY <1>12 DEF Finish
  <2>2. Idle \in Runner /\ Idle.pc # "copy"
    BY <1>0 DEF Idle, Runner, Path
  <2>3. rec' \in [Downloads -> Entry]
    <3> DEFINE entry == [status |-> IF run[d].pc = "complete" THEN "completed" ELSE "failed",
                         name |-> run[d].name]
    <3>1. entry \in Entry
      BY <1>0 DEF Entry
    <3>2. rec' = rec \/ rec' = [rec EXCEPT ![d] = entry]
      BY <1>12 DEF Finish
    <3> HIDE DEF entry
    <3> QED BY <1>0, <3>1, <3>2
  <2> QED BY <1>0, <2>1, <2>2, <2>3, TypesOfQuietSteps
<1> QED
  BY <1>2, <1>3, <1>3a, <1>3b, <1>4, <1>5, <1>6, <1>7, <1>8, <1>9, <1>10, <1>11, <1>12
     DEF RunnerStep

\* The steps of the worker, of Remove and of a crash.
OtherStep(d) ==
  \/ Requeue(d) \/ RemoveGet(d) \/ RemoveRecord(d)
  \/ RemoveAll(d) \/ RemovePart(d) \/ RemoveFinal(d)

LEMMA TypesOfOthers ==
  ASSUME TypeOK, NEW d \in Downloads, OtherStep(d) \/ Crash
  PROVE  TypeOK'
<1>0. /\ rec \in [Downloads -> Entry] /\ rec[d] \in Entry
      /\ rm \in [Downloads -> Removal] /\ rm[d] \in Removal
      /\ parts \in [Downloads -> SUBSET (1..Parts)]
  BY DEF TypeOK
<1>1. CASE Requeue(d)
  <2>1. rec' \in [Downloads -> Entry]
    BY <1>0, <1>1 DEF Requeue, Entry
  <2> QED BY <1>1, <2>1 DEF Requeue, TypeOK
<1>2. CASE RemoveGet(d)
  <2>1. [pc |-> "delete", name |-> rec[d].name, left |-> {}] \in Removal
    BY <1>0 DEF Entry, Removal
  <2>2. rm' \in [Downloads -> Removal]
    BY <1>0, <1>2, <2>1 DEF RemoveGet
  <2> QED BY <1>2, <2>2 DEF RemoveGet, TypeOK
<1>3. CASE RemoveRecord(d)
  <2>1. rm' \in [Downloads -> Removal]
    BY <1>0, <1>3 DEF RemoveRecord, Removal
  <2>2. rec' \in [Downloads -> Entry]
    BY <1>0, <1>3 DEF RemoveRecord, Entry
  <2> QED BY <1>3, <2>1, <2>2 DEF RemoveRecord, TypeOK
<1>4. CASE RemoveAll(d)
  <2>1. [rm[d] EXCEPT !.pc = "parts", !.left = parts[d]] \in Removal
    BY <1>0 DEF Removal
  <2>2. rm' = [rm EXCEPT ![d] = [rm[d] EXCEPT !.pc = "parts", !.left = parts[d]]]
    BY <1>0, <1>4 DEF RemoveAll
  <2>3. rm' \in [Downloads -> Removal]
    BY <1>0, <2>1, <2>2
  <2> QED BY <1>4, <2>3 DEF RemoveAll, TypeOK
<1>5. CASE RemovePart(d)
  <2>1. PICK k \in rm[d].left : /\ parts' = [parts EXCEPT ![d] = @ \ {k}]
                                /\ rm' = [rm EXCEPT ![d].left = @ \ {k}]
    BY <1>5 DEF RemovePart
  <2>2. [rm[d] EXCEPT !.left = rm[d].left \ {k}] \in Removal
    BY <1>0 DEF Removal
  <2>3. rm' = [rm EXCEPT ![d] = [rm[d] EXCEPT !.left = rm[d].left \ {k}]]
    BY <1>0, <2>1
  <2>4. rm' \in [Downloads -> Removal]
    BY <1>0, <2>2, <2>3
  <2>5. parts' \in [Downloads -> SUBSET (1..Parts)]
    BY <1>0, <2>1
  <2> QED BY <1>5, <2>4, <2>5 DEF RemovePart, TypeOK
<1>6. CASE RemoveFinal(d)
  <2>1. rm' \in [Downloads -> Removal]
    BY <1>0, <1>6 DEF RemoveFinal, Removal
  <2>2. DOMAIN dir' \subseteq Path /\ \A p \in DOMAIN dir' : dir'[p] \in 1..Len(data)
    BY <1>6 DEF RemoveFinal, TypeOK, Unlink
  <2> QED BY <1>6, <2>1, <2>2 DEF RemoveFinal, TypeOK
<1>7. CASE Crash
  <2>1. Idle \in Runner /\ Idle.pc # "copy"
    BY MergingAssumption DEF Idle, Runner, Path
  <2>2. NoRemoval \in Removal
    BY DEF NoRemoval, Removal, Path
  <2>3. rm' \in [Downloads -> Removal]
    BY <1>0, <1>7, <2>2 DEF Crash
  <2>4. run' \in [Downloads -> Runner] /\ \A e \in Downloads : run'[e].pc # "copy"
    BY <1>7, <2>1 DEF Crash
  <2> QED BY <1>7, <2>3, <2>4 DEF Crash, TypeOK
<1> QED BY <1>1, <1>2, <1>3, <1>4, <1>5, <1>6, <1>7 DEF OtherStep

-----------------------------------------------------------------------------
(* Files that were there before *)

LEMMA WrittenNotForeign ==
  ASSUME NEW s \in Seq(Chunks), NEW k \in Nat \ {0}, NEW d \in Downloads, NEW n \in Nat,
         NEW good \in BOOLEAN
  PROVE  WriteAt(s, k, Chunk(d, n, good)) # Foreign
<1> DEFINE x == Chunk(d, n, good)
           t == WriteAt(s, k, x)
<1>1. x \in Chunks /\ x.by = d
  BY DEF Chunk, Chunks
<1>2. k \in 1..Len(t) /\ t[k] = x
  BY <1>1, Written
<1> HIDE DEF t, x
<1>3. Len(Foreign) = 1 /\ Foreign[1].by = Nobody
  BY DEF Foreign, Chunk
<1>4. ASSUME t = Foreign PROVE FALSE
  <2>0. Len(t) = 1
    BY <1>3, <1>4
  <2>1. k = 1
    <3>1. k \in 1..1
      BY <1>2, <2>0
    <3> QED BY <3>1
  <2>2. Foreign[1] = x
    BY <1>2, <1>4, <2>1
  <2> QED BY <1>1, <1>3, <2>2, MergingAssumption
<1> QED BY <1>4 DEF t, x

\* No step changes a file to one that was there before: what has the
\* contents of such a file keeps them, and what has not gets none.
SameForeign ==
  /\ \A i \in 1..Len(data) : i \in 1..Len(data') /\ (data'[i] = Foreign <=> data[i] = Foreign)
  /\ \A i \in 1..Len(data') : data'[i] = Foreign => i \in 1..Len(data)

LEMMA RunnersWriteTheirs ==
  ASSUME TypeOK, OwnFiles, NEW d \in Downloads, RunnerStep(d)
  PROVE  SameForeign
<1>1. CASE data' = data
  BY <1>1 DEF SameForeign
<1>2. CASE data' # data
  <2>0. data \in Seq(Seq(Chunks)) /\ Len(data) \in Nat /\ <<>> # Foreign
    BY DEF TypeOK, Foreign
  <2>1. Create(d) \/ CopyPart(d)
    BY <1>2 DEF RunnerStep, Start, FetchPart, FetchError, ListParts, Stat, Probe, Clear, Rename,
          CleanUp, Verify, Finish
  <2>2. CASE Create(d) /\ Exists(tmp, run[d].name)
    <3>1. data' = [data EXCEPT ![tmp[run[d].name]] = <<>>]
      BY <2>2 DEF Create
    <3>2. tmp[run[d].name] \in 1..Len(data) /\ data[tmp[run[d].name]] # Foreign
      BY <2>2 DEF Exists, TypeOK, OwnFiles
    <3> DEFINE j == tmp[run[d].name]
    <3> HIDE DEF j
    <3>3. Len(data') = Len(data) /\ \A i \in 1..Len(data) : data'[i] = IF i = j THEN <<>> ELSE data[i]
      BY <2>0, <3>1, <3>2 DEF j
    <3> QED BY <2>0, <3>2, <3>3 DEF SameForeign, j
  <2>3. CASE Create(d) /\ ~Exists(tmp, run[d].name)
    <3>1. data' = Append(data, <<>>)
      BY <2>3 DEF Create
    <3>2. /\ Len(data') = Len(data) + 1 /\ data'[Len(data) + 1] = <<>>
          /\ \A i \in 1..Len(data) : data'[i] = data[i]
      BY <2>0, <3>1
    <3> QED BY <2>0, <3>2 DEF SameForeign
  <2>4. CASE CopyPart(d)
    <3>1. PICK k \in run[d].todo :
            data' = [data EXCEPT ![run[d].fd] =
                       WriteAt(@, run[d].at, Chunk(d, k, run[d].good))]
      BY <1>2, <2>4 DEF CopyPart
    <3>2. run[d].fd \in 1..Len(data) /\ data[run[d].fd] # Foreign
      BY <2>4 DEF CopyPart, TypeOK, OwnFiles
    <3> DEFINE t == WriteAt(data[run[d].fd], run[d].at, Chunk(d, k, run[d].good))
    <3>3. run[d] \in Runner /\ data[run[d].fd] \in Seq(Chunks)
      BY <2>0, <3>2 DEF TypeOK
    <3>4. run[d].at \in Nat \ {0} /\ run[d].good \in BOOLEAN /\ k \in Nat
      BY <3>1, <3>3 DEF Runner
    <3>5. t # Foreign
      BY <3>3, <3>4, WrittenNotForeign
    <3>6. data' = [data EXCEPT ![run[d].fd] = t]
      BY <3>1
    <3> HIDE DEF t
    <3>7. Len(data') = Len(data)
          /\ \A i \in 1..Len(data) : data'[i] = IF i = run[d].fd THEN t ELSE data[i]
      BY <2>0, <3>2, <3>6
    <3> QED BY <2>0, <3>2, <3>5, <3>7 DEF SameForeign
  <2> QED BY <2>1, <2>2, <2>3, <2>4
<1> QED BY <1>1, <1>2

\* Where each step of a runner leads.
LEMMA RunnerMoves ==
  ASSUME TypeOK, NEW d \in Downloads
  PROVE  /\ Start(d) \/ FetchPart(d) => run'[d].pc = "fetch"
         /\ FetchError(d) => run'[d].pc = "fail"
         /\ ListParts(d) => run'[d].pc \in {"fail", "stat"}
         /\ Stat(d) \/ Probe(d) => run'[d].pc \in {"probe", "clear", "fail"}
         /\ Clear(d) => run[d].pc = "clear" /\ run'[d].pc = "create" /\ run'[d].name = run[d].name
         /\ Create(d) => run[d].pc = "create" /\ run'[d].pc = "copy" /\ run'[d].name = run[d].name
         /\ CopyPart(d) => /\ run[d].pc = "copy" /\ run'[d].pc \in {"copy", "fail"}
                           /\ run'[d].fd = run[d].fd /\ run'[d].name = run[d].name
         /\ Rename(d) => run'[d].pc \in {"clean", "fail"}
         /\ CleanUp(d) => run[d].pc = "clean" /\ run'[d].pc \in {"clean", "verify"}
         /\ Verify(d) => run'[d].pc \in {"complete", "fail"}
         /\ Finish(d) => run'[d].pc = "idle"
<1>0. run \in [Downloads -> Runner] /\ run[d] \in Runner
  BY DEF TypeOK
<1>1. Start(d) => run'[d].pc = "fetch"
  BY <1>0 DEF Start, Idle
<1>1b. FetchPart(d) => run'[d].pc = "fetch"
  BY <1>0 DEF FetchPart, Runner
<1>1a. FetchError(d) => run'[d].pc = "fail"
  BY <1>0 DEF FetchError, Goto, Runner
<1>2. ListParts(d) => run'[d].pc \in {"fail", "stat"}
  BY <1>0 DEF ListParts, Runner
<1>3. Stat(d) => run'[d].pc \in {"probe", "clear", "fail"}
  BY <1>0 DEF Stat, SetOut, Goto, Runner
<1>4. Probe(d) => run'[d].pc \in {"probe", "clear", "fail"}
  BY <1>0 DEF Probe, SetOut, Runner
<1>5. Clear(d) => run[d].pc = "clear" /\ run'[d].pc = "create" /\ run'[d].name = run[d].name
  BY <1>0 DEF Clear, Goto, Runner
<1>6. Create(d) => run[d].pc = "create" /\ run'[d].pc = "copy" /\ run'[d].name = run[d].name
  BY <1>0 DEF Create, Runner
<1>7. CopyPart(d) => /\ run[d].pc = "copy" /\ run'[d].pc \in {"copy", "fail"}
                     /\ run'[d].fd = run[d].fd /\ run'[d].name = run[d].name
  BY <1>0 DEF CopyPart, Goto, Runner
<1>8. Rename(d) => run'[d].pc \in {"clean", "fail"}
  BY <1>0 DEF Rename, Goto, Runner
<1>9. CleanUp(d) => run[d].pc = "clean" /\ run'[d].pc \in {"clean", "verify"}
  BY <1>0 DEF CleanUp, Goto, Runner
<1>10. Verify(d) => run'[d].pc \in {"complete", "fail"}
  BY <1>0 DEF Verify, Goto, Runner
<1>11. Finish(d) => run'[d].pc = "idle"
  BY <1>0 DEF Finish, Idle
<1> QED BY <1>1, <1>1a, <1>1b, <1>2, <1>3, <1>4, <1>5, <1>6, <1>7, <1>8, <1>9, <1>10, <1>11

\* A step of one runner leaves the others where they are.
LEMMA OthersStay ==
  ASSUME TypeOK, NEW d \in Downloads, NEW e \in Downloads, e # d,
         RunnerStep(d) \/ OtherStep(d)
  PROVE  run'[e] = run[e]
<1>0. run \in [Downloads -> Runner]
  BY DEF TypeOK
<1>1. CASE Start(d) \/ FetchPart(d) \/ FetchError(d) \/ ListParts(d)
  BY <1>0, <1>1 DEF Start, FetchPart, FetchError, ListParts, Goto
<1>2. CASE Stat(d) \/ Probe(d)
  BY <1>0, <1>2 DEF Stat, Probe, SetOut, Goto
<1>3. CASE Clear(d) \/ Create(d) \/ CopyPart(d) \/ Rename(d)
  BY <1>0, <1>3 DEF Clear, Create, CopyPart, Rename, Goto
<1>4. CASE CleanUp(d) \/ Verify(d) \/ Finish(d)
  BY <1>0, <1>4 DEF CleanUp, Verify, Finish, Goto
<1>5. CASE OtherStep(d)
  BY <1>5 DEF OtherStep, Requeue, RemoveGet, RemoveRecord, RemoveAll, RemovePart, RemoveFinal
<1> QED BY <1>1, <1>2, <1>3, <1>4, <1>5 DEF RunnerStep

\* What a merge is writing stays its own.
LEMMA OwnFilesKept ==
  ASSUME TypeOK, OwnFiles, NEW d \in Downloads, RunnerStep(d)
  PROVE  OwnFiles'
<1>0. SameForeign
  BY RunnersWriteTheirs
<1>1. CASE Create(d)
  <2> DEFINE fd == IF Exists(tmp, run[d].name) THEN tmp[run[d].name] ELSE Len(data) + 1
  <2>1. /\ tmp' = Link(tmp, run[d].name, fd)
        /\ run' = [run EXCEPT ![d].pc = "copy", ![d].fd = fd, ![d].at = 1]
        /\ data' = IF Exists(tmp, run[d].name) THEN [data EXCEPT ![fd] = <<>>]
                                               ELSE Append(data, <<>>)
    BY <1>1 DEF Create
  <2>2. data' [fd] = <<>>
    <3>1. data \in Seq(Seq(Chunks)) /\ Len(data) \in Nat
      BY DEF TypeOK
    <3>2. CASE Exists(tmp, run[d].name)
      <4>1. fd \in 1..Len(data)
        BY <3>2 DEF Exists, TypeOK
      <4> QED BY <2>1, <3>1, <3>2, <4>1
    <3>3. CASE ~Exists(tmp, run[d].name)
      BY <2>1, <3>1, <3>3
    <3> QED BY <3>2, <3>3
  <2>3. data'[fd] # Foreign
    BY <2>2 DEF Foreign
  <2> HIDE DEF fd
  <2>4. ASSUME NEW p \in DOMAIN tmp' PROVE data'[tmp'[p]] # Foreign
    <3>1. CASE p = run[d].name
      BY <2>1, <2>3, <3>1 DEF Link
    <3>2. CASE p # run[d].name
      <4>1. p \in DOMAIN tmp /\ tmp'[p] = tmp[p]
        BY <2>1, <3>2 DEF Link
      <4>2. tmp[p] \in 1..Len(data) /\ data[tmp[p]] # Foreign
        BY <4>1 DEF TypeOK, OwnFiles
      <4> QED BY <1>0, <4>1, <4>2 DEF SameForeign
    <3> QED BY <3>1, <3>2
  <2>5. ASSUME NEW e \in Downloads, run'[e].pc = "copy" PROVE data'[run'[e].fd] # Foreign
    <3>1. CASE e = d
      <4>1. run'[d].fd = fd
        BY <2>1 DEF TypeOK, Runner
      <4> QED BY <3>1, <4>1, <2>3
    <3>2. CASE e # d
      <4>1. run'[e] = run[e]
        BY <2>1, <3>2 DEF TypeOK
      <4>2. run[e].fd \in 1..Len(data) /\ data[run[e].fd] # Foreign
        BY <2>5, <4>1 DEF TypeOK, OwnFiles
      <4> QED BY <1>0, <4>1, <4>2 DEF SameForeign
    <3> QED BY <3>1, <3>2
  <2> QED BY <2>4, <2>5 DEF OwnFiles
<1>2. CASE ~Create(d)
  <2>1. ASSUME NEW p \in DOMAIN tmp' PROVE p \in DOMAIN tmp /\ tmp'[p] = tmp[p]
    BY <1>2, <2>1 DEF RunnerStep, Start, FetchPart, FetchError, ListParts, Stat, Probe, Clear,
          CopyPart, Rename, CleanUp,
                 Verify, Finish, Unlink
  <2>2. ASSUME NEW e \in Downloads, run'[e].pc = "copy"
        PROVE  run[e].pc = "copy" /\ run'[e].fd = run[e].fd
    <3>1. CASE e # d
      <4>1. run'[e] = run[e]
        BY <3>1, OthersStay
      <4> QED BY <2>2, <4>1
    <3>2. CASE e = d
      <4>1. CopyPart(d)
        BY <1>2, <2>2, <3>2, RunnerMoves DEF RunnerStep
      <4> QED BY <2>2, <3>2, <4>1, RunnerMoves
    <3> QED BY <3>1, <3>2
  <2>3. \A p \in DOMAIN tmp' : data'[tmp'[p]] # Foreign
    <3>1. \A p \in DOMAIN tmp : tmp[p] \in 1..Len(data) /\ data[tmp[p]] # Foreign
      BY DEF TypeOK, OwnFiles
    <3> QED BY <1>0, <2>1, <3>1 DEF SameForeign
  <2>4. \A e \in Downloads : run'[e].pc = "copy" => data'[run'[e].fd] # Foreign
    <3>1. \A e \in Downloads : run[e].pc = "copy" =>
             run[e].fd \in 1..Len(data) /\ data[run[e].fd] # Foreign
      BY DEF TypeOK, OwnFiles
    <3> QED BY <1>0, <2>2, <3>1 DEF SameForeign
  <2> QED BY <2>3, <2>4 DEF OwnFiles
<1> QED BY <1>1, <1>2

\* A path that has one of those files after a runner's step had it before.
LEMMA NoNewForeign ==
  ASSUME TypeOK, OwnFiles, NEW d \in Downloads, RunnerStep(d),
         NEW q \in DOMAIN dir', data'[dir'[q]] = Foreign
  PROVE  q \in DOMAIN dir /\ data[dir[q]] = Foreign
<1>0. SameForeign
  BY RunnersWriteTheirs
<1>1. CASE dir' = dir
  <2>1. dir[q] \in 1..Len(data)
    BY <1>1 DEF TypeOK
  <2> QED BY <1>0, <1>1, <2>1 DEF SameForeign
<1>2. CASE dir' # dir
  <2>1. Rename(d)
    BY <1>2 DEF RunnerStep, Start, FetchPart, FetchError, ListParts, Stat, Probe, Clear, Create,
          CopyPart, CleanUp,
                Verify, Finish
  <2>2. /\ run[d].name \in DOMAIN tmp /\ data' = data
        /\ dir' = Link(dir, run[d].name, tmp[run[d].name])
    BY <1>2, <2>1 DEF Rename, Exists
  <2>3. data[tmp[run[d].name]] # Foreign
    BY <2>2 DEF OwnFiles
  <2>4. q # run[d].name
    BY <2>2, <2>3 DEF Link
  <2> QED BY <2>2, <2>4 DEF Link
<1> QED BY <1>1, <1>2

\* A merge that spares existing files sets out for a name that is free.
LEMMA SetsOutFree ==
  ASSUME TypeOK, NEW d \in Downloads, Stat(d) \/ Probe(d), run'[d].pc \in Heading,
         Policy[d] # "overwrite"
  PROVE  run'[d].name \notin DOMAIN dir
<1>0. run \in [Downloads -> Runner] /\ run[d] \in Runner
  BY DEF TypeOK
<1>1. CASE Stat(d)
  <2>1. ~Exists(dir, run[d].name) /\ SetOut(d, run[d].name)
    BY <1>0, <1>1 DEF Stat, Goto, Runner, Heading
  <2> QED BY <1>0, <2>1 DEF Exists, SetOut, Runner
<1>2. CASE Probe(d)
  <2> DEFINE candidate == Append(run[d].name, run[d].try)
  <2>1. ~Exists(dir, candidate) /\ SetOut(d, candidate)
    BY <1>0, <1>2 DEF Probe, Runner, Heading
  <2>2. run'[d].name = candidate
    BY <1>0, <2>1 DEF SetOut, Runner
  <2> QED BY <2>1, <2>2 DEF Exists
<1> QED BY <1>1, <1>2

\* On its way to the rename a merge keeps its name, and it sets out only for
\* one that is free, or with leave to replace.
LEMMA SparedKept ==
  ASSUME NameInv, NEW d \in Downloads, RunnerStep(d)
  PROVE  Spared'
<1> USE DEF NameInv
<1> SUFFICES ASSUME NEW e \in Downloads, Policy[e] # "overwrite",
                    run'[e].pc \in Heading,
                    run'[e].name \in DOMAIN dir', data'[dir'[run'[e].name]] = Foreign
             PROVE  FALSE
  BY DEF Spared
<1>1. run'[e].name \in DOMAIN dir /\ data[dir[run'[e].name]] = Foreign
  BY NoNewForeign
<1>2. CASE run[e].pc \in Heading /\ run'[e].name = run[e].name
  BY <1>1, <1>2 DEF Spared
<1>3. CASE ~(run[e].pc \in Heading /\ run'[e].name = run[e].name)
  <2>1. e = d
    <3>1. CASE e # d
      <4>1. run'[e] = run[e]
        BY <3>1, OthersStay
      <4> QED BY <1>3, <4>1
    <3> QED BY <3>1
  <2>2. Stat(d) \/ Probe(d)
    BY <1>3, <2>1, RunnerMoves DEF RunnerStep, Heading
  <2>3. run'[d].name \notin DOMAIN dir
    BY <2>1, <2>2, SetsOutFree
  <2> QED BY <1>1, <2>1, <2>3
<1> QED BY <1>2, <1>3

LEMMA OthersKeepNames ==
  ASSUME NameInv, NEW d \in Downloads, OtherStep(d) \/ Crash
  PROVE  OwnFiles' /\ Spared'
<1> USE DEF NameInv
<1>1. tmp' = tmp /\ data' = data
  BY DEF OtherStep, Requeue, RemoveGet, RemoveRecord, RemoveAll, RemovePart, RemoveFinal, Crash
<1>2. \A q \in DOMAIN dir' : q \in DOMAIN dir /\ dir'[q] = dir[q]
  BY DEF OtherStep, Requeue, RemoveGet, RemoveRecord, RemoveAll, RemovePart, RemoveFinal, Crash,
        Unlink
<1>3. \A e \in Downloads : run'[e] = run[e] \/ run'[e].pc = "idle"
  BY DEF OtherStep, Requeue, RemoveGet, RemoveRecord, RemoveAll, RemovePart, RemoveFinal, Crash,
        Idle
<1> QED BY <1>1, <1>2, <1>3 DEF OwnFiles, Spared, Heading

-----------------------------------------------------------------------------
LEMMA NameInvInductive == Spec => []NameInv
<1>1. Init => NameInv
  <2> SUFFICES ASSUME Init PROVE NameInv
    OBVIOUS
  <2>1. DOMAIN tmp = {} /\ \A d \in Downloads : run[d].pc = "idle"
    BY DEF Init, Idle
  <2> QED BY <2>1, InitialTypes DEF NameInv, OwnFiles, Spared, Heading
<1>2. NameInv /\ [Next]_vars => NameInv'
  <2> SUFFICES ASSUME NameInv, [Next]_vars PROVE NameInv'
    OBVIOUS
  <2>1. ASSUME NEW d \in Downloads, RunnerStep(d) PROVE NameInv'
    BY <2>1, TypesOfRunners, OwnFilesKept, SparedKept DEF NameInv
  <2>2. ASSUME NEW d \in Downloads, OtherStep(d) PROVE NameInv'
    BY <2>2, TypesOfOthers, OthersKeepNames DEF NameInv
  <2>3. CASE Crash
    <3>1. CASE Downloads = {}
      BY <2>3, <3>1 DEF Crash, NameInv, TypeOK, OwnFiles, Spared
    <3>2. CASE Downloads # {}
      BY <2>3, <3>2, TypesOfOthers, OthersKeepNames DEF NameInv
    <3> QED BY <3>1, <3>2
  <2>4. CASE UNCHANGED vars
    BY <2>4 DEF vars, NameInv, TypeOK, OwnFiles, Spared
  <2> QED BY <2>1, <2>2, <2>3, <2>4 DEF Next, RunnerStep, OtherStep
<1> QED BY <1>1, <1>2, PTL DEF Spec

\* The directories, the files behind them, the records and the runners keep
\* their types; a merge always has a file open while it copies.
THEOREM MergingTypes == Spec => []TypeOK
<1>1. NameInv => TypeOK
  BY DEF NameInv
<1> QED BY <1>1, NameInvInductive, PTL

\* However many merges run at the same time, a file that was there before is
\* replaced only by a download that overwrites, and disappears only in a
\* removal that names it (filestore.go:89-109 and 152-155).
THEOREM ForeignFilesKept == Spec => ForeignKept
<1> DEFINE Kept ==
      \A p \in DOMAIN dir :
       data[dir[p]] = Foreign /\ ~(p \in DOMAIN dir' /\ data'[dir'[p]] = Foreign) =>
         \E d \in Downloads :
           \/ Policy[d] = "overwrite" /\ run[d].name = p
           \/ rm[d].pc = "parts" /\ rm[d].name = p
<1>1. NameInv /\ [Next]_vars => [Kept]_vars
  <2> SUFFICES ASSUME NameInv, [Next]_vars, NEW p \in DOMAIN dir, data[dir[p]] = Foreign,
                      ~(p \in DOMAIN dir' /\ data'[dir'[p]] = Foreign)
               PROVE  \E d \in Downloads :
                        \/ Policy[d] = "overwrite" /\ run[d].name = p
                        \/ rm[d].pc = "parts" /\ rm[d].name = p
    OBVIOUS
  <2> USE DEF NameInv
  <2>1. ASSUME NEW d \in Downloads, RunnerStep(d)
        PROVE  Policy[d] = "overwrite" /\ run[d].name = p
    <3>1. SameForeign
      BY <2>1, RunnersWriteTheirs
    <3>2. dir[p] \in 1..Len(data)
      BY DEF TypeOK
    <3>3. dir' # dir
      BY <3>1, <3>2 DEF SameForeign
    <3>4. Rename(d)
      BY <2>1, <3>3 DEF RunnerStep, Start, FetchPart, FetchError, ListParts, Stat, Probe, Clear,
            Create, CopyPart,
                    CleanUp, Verify, Finish
    <3>5. /\ run[d].pc = "copy" /\ data' = data
          /\ dir' = Link(dir, run[d].name, tmp[run[d].name])
      BY <3>3, <3>4 DEF Rename
    <3>6. run[d].name = p
      BY <3>5 DEF Link
    <3> QED BY <3>5, <3>6 DEF Spared, Heading
  <2>2. ASSUME NEW d \in Downloads, OtherStep(d)
        PROVE  rm[d].pc = "parts" /\ rm[d].name = p
    BY <2>2 DEF OtherStep, Requeue, RemoveGet, RemoveRecord, RemoveAll, RemovePart, RemoveFinal,
          Unlink
  <2>3. CASE Crash
    BY <2>3 DEF Crash
  <2>4. CASE UNCHANGED vars
    BY <2>4 DEF vars
  <2> QED BY <2>1, <2>2, <2>3, <2>4 DEF Next, RunnerStep, OtherStep
<1> QED BY <1>1, NameInvInductive, PTL DEF Spec, ForeignKept

-----------------------------------------------------------------------------
(* Names that two merges are heading for *)

\* The record of d has been deleted.
Gone(d) == rec[d].status = "gone"

\* Two merges that head for the same name are on record.
ClashMarked ==
  \A d, e \in Downloads :
    /\ d # e /\ run[d].pc \in Heading /\ run[e].pc \in Heading
    /\ run[d].name = run[e].name
    => run[d].name \in clashed

\* How a runner comes to head for a name, or goes on doing so.
LEMMA HeadingMoves ==
  ASSUME TypeOK, NEW d \in Downloads, RunnerStep(d)
  PROVE  /\ clashed \subseteq clashed'
         /\ run'[d].pc \in Heading =>
              \/ run[d].pc \in Heading /\ run'[d].name = run[d].name /\ clashed' = clashed
              \/ (Stat(d) \/ Probe(d)) /\ SetOut(d, run'[d].name)
<1>0. run \in [Downloads -> Runner] /\ run[d] \in Runner
  BY DEF TypeOK
<1>1. CASE Stat(d)
  <2>1. run'[d].pc \in Heading => SetOut(d, run[d].name)
    BY <1>0, <1>1 DEF Stat, Goto, Runner, Heading
  <2>2. SetOut(d, run[d].name) => run'[d].name = run[d].name
    BY <1>0 DEF SetOut, Runner
  <2>3. clashed \subseteq clashed'
    BY <1>1 DEF Stat, SetOut
  <2> QED BY <1>1, <2>1, <2>2, <2>3
<1>2. CASE Probe(d)
  <2> DEFINE candidate == Append(run[d].name, run[d].try)
  <2>1. run'[d].pc \in Heading => SetOut(d, candidate)
    BY <1>0, <1>2 DEF Probe, Runner, Heading
  <2>2. SetOut(d, candidate) => run'[d].name = candidate
    BY <1>0 DEF SetOut, Runner
  <2>3. clashed \subseteq clashed'
    BY <1>2 DEF Probe, SetOut
  <2> QED BY <1>2, <2>1, <2>2, <2>3
<1>3. CASE Clear(d) \/ Create(d) \/ CopyPart(d)
  <2>1. clashed' = clashed
    BY <1>3 DEF Clear, Create, CopyPart
  <2> QED BY <1>3, <2>1, RunnerMoves DEF Heading
<1>4. CASE Start(d) \/ FetchPart(d) \/ FetchError(d) \/ ListParts(d) \/ Rename(d)
  <2>1. clashed' = clashed
    BY <1>4 DEF Start, FetchPart, FetchError, ListParts, Rename
  <2> QED BY <1>4, <2>1, RunnerMoves DEF Heading
<1>5. CASE CleanUp(d) \/ Verify(d) \/ Finish(d)
  <2>1. clashed' = clashed
    BY <1>5 DEF CleanUp, Verify, Finish
  <2> QED BY <1>5, <2>1, RunnerMoves DEF Heading
<1> QED BY <1>1, <1>2, <1>3, <1>4, <1>5 DEF RunnerStep

LEMMA ClashesMarked ==
  ASSUME TypeOK, ClashMarked, NEW d \in Downloads, RunnerStep(d)
  PROVE  ClashMarked'
<1>0. clashed \subseteq clashed'
  BY HeadingMoves
<1>1. ASSUME NEW e \in Downloads, e # d, run'[d].pc \in Heading, run'[e].pc \in Heading,
             run'[d].name = run'[e].name
      PROVE  run'[d].name \in clashed'
  <2>1. run'[e] = run[e]
    BY <1>1, OthersStay
  <2>2. CASE run[d].pc \in Heading /\ run'[d].name = run[d].name
    BY <1>0, <1>1, <2>1, <2>2 DEF ClashMarked
  <2>3. CASE SetOut(d, run'[d].name)
    BY <1>1, <2>1, <2>3 DEF SetOut
  <2> QED BY <1>1, <2>2, <2>3, HeadingMoves
<1>2. ASSUME NEW e \in Downloads, NEW f \in Downloads, e # d, f # d, e # f,
             run'[e].pc \in Heading, run'[f].pc \in Heading, run'[e].name = run'[f].name
      PROVE  run'[e].name \in clashed'
  <2>1. run'[e] = run[e] /\ run'[f] = run[f]
    BY <1>2, OthersStay
  <2> QED BY <1>0, <1>2, <2>1 DEF ClashMarked
<1> QED BY <1>1, <1>2 DEF ClashMarked

-----------------------------------------------------------------------------
(* What a merge copies *)

\* The first n parts of what d has fetched.
Fetched(d, n, good) == [k \in 1..n |-> Chunk(d, k, good)]

\* Parts of d in their order, all before those that are still to be copied.
Sorted(d, s, todo) ==
  \A i \in 1..Len(s) : /\ s[i].by = d
                       /\ \A j \in 1..(i - 1) : s[j].part < s[i].part
                       /\ \A k \in todo : s[i].part < k

\* No inode has two temporary names, or a temporary and a final one.
FilesApart ==
  /\ \A p, q \in DOMAIN tmp : tmp[p] = tmp[q] => p = q
  /\ \A p \in DOMAIN dir, q \in DOMAIN tmp : dir[p] # tmp[q]

\* What a merge has open is found under the name it is heading for, if at
\* all, and only merges that head for that name have it open too.
FdHome ==
  \A d \in Downloads : run[d].pc = "copy" =>
    /\ \A p \in DOMAIN dir : dir[p] = run[d].fd => p = run[d].name
    /\ \A p \in DOMAIN tmp : tmp[p] = run[d].fd => p = run[d].name
    /\ \A e \in Downloads : run[e].pc = "copy" /\ run[e].fd = run[d].fd => run[e].name = run[d].name

\* The files of a download are removed after its record.
FilesLast == \A d \in Downloads : rm[d].pc \in {"files", "parts", "done"} => Gone(d)

\* From listParts to os.Create.
Listing == {"stat", "probe", "clear", "create"}

\* A merge copies at least one part, and all of them as long as the record is
\* there: the part files then stay until they have been copied.
Listed ==
  \A d \in Downloads :
    /\ run[d].pc \in Listing => run[d].todo # {}
    /\ run[d].pc = "copy" => run[d].todo # {} \/ run[d].at > 1
    /\ ~Gone(d) =>
         /\ run[d].pc = "fetch" => (1..Parts) \ run[d].todo \subseteq parts[d]
         /\ run[d].pc \in Listing \cup {"copy"} => parts[d] = 1..Parts
         /\ run[d].pc \in Listing => run[d].todo = 1..Parts
         /\ run[d].pc = "copy" => run[d].at <= Parts + 1 /\ run[d].todo = run[d].at..Parts

\* Unless another merge was heading for the same name, what a merge writes has
\* the temporary name and holds the parts it has copied, and nothing else.
CopyExact ==
  \A d \in Downloads : run[d].pc = "copy" /\ run[d].name \notin clashed =>
    /\ run[d].name \in DOMAIN tmp /\ tmp[run[d].name] = run[d].fd
    /\ Len(data[run[d].fd]) = run[d].at - 1
    /\ Sorted(d, data[run[d].fd], run[d].todo)
    /\ ~Gone(d) => data[run[d].fd] = Fetched(d, run[d].at - 1, run[d].good)

WholeInv ==
  /\ TypeOK /\ ClashMarked /\ FilesApart /\ FdHome /\ FilesLast /\ Listed /\ CopyExact
  /\ FinalsWhole

LEMMA FetchedNext ==
  ASSUME NEW d \in Downloads, NEW good \in BOOLEAN, NEW k \in Nat \ {0}
  PROVE  WriteAt(Fetched(d, k - 1, good), k, Chunk(d, k, good)) = Fetched(d, k, good)
<1> DEFINE s == Fetched(d, k - 1, good)
<1>1. /\ Len(s) = k - 1 /\ \A j \in 1..(k - 1) : s[j] = Chunk(d, j, good)
  BY DEF Fetched
<1> HIDE DEF s
<1>2. WriteAt(s, k, Chunk(d, k, good))
        = [j \in 1..k |-> IF j = k THEN Chunk(d, k, good) ELSE IF j <= Len(s) THEN s[j] ELSE Hole]
  BY <1>1 DEF WriteAt
<1>3. \A j \in 1..k :
        (IF j = k THEN Chunk(d, k, good) ELSE IF j <= Len(s) THEN s[j] ELSE Hole)
          = Chunk(d, j, good)
  BY <1>1
<1>4. WriteAt(s, k, Chunk(d, k, good)) = [j \in 1..k |-> Chunk(d, j, good)]
  BY <1>2, <1>3
<1> QED BY <1>4 DEF Fetched, s

\* The part that is copied next comes after those that were.
LEMMA SortedNext ==
  ASSUME NEW d \in Downloads, NEW s \in Seq(Chunks), NEW todo \in SUBSET Nat, NEW k \in todo,
         \A j \in todo : k <= j, NEW good \in BOOLEAN, Sorted(d, s, todo)
  PROVE  /\ Len(WriteAt(s, Len(s) + 1, Chunk(d, k, good))) = Len(s) + 1
         /\ Sorted(d, WriteAt(s, Len(s) + 1, Chunk(d, k, good)), todo \ {k})
<1> DEFINE n == Len(s) + 1
           x == Chunk(d, k, good)
           t == WriteAt(s, n, x)
<1>1. Len(s) \in Nat /\ n \in Nat
  OBVIOUS
<1>2. x.by = d /\ x.part = k
  BY DEF Chunk
<1> HIDE DEF x
<1>3. t = [j \in 1..n |-> IF j = n THEN x ELSE IF j <= Len(s) THEN s[j] ELSE Hole]
  BY <1>1 DEF WriteAt
<1> HIDE DEF t
<1>4. Len(t) = n /\ t[n] = x /\ \A i \in 1..Len(s) : t[i] = s[i]
  BY <1>1, <1>3
<1>5. ASSUME NEW i \in 1..n
      PROVE  /\ t[i].by = d
             /\ \A j \in 1..(i - 1) : t[j].part < t[i].part
             /\ \A m \in todo \ {k} : t[i].part < m
  <2>1. CASE i = n
    <3>1. t[i].by = d /\ t[i].part = k
      BY <1>2, <1>4, <2>1
    <3>2. ASSUME NEW j \in 1..(i - 1) PROVE t[j].part < k
      <4>1. j \in 1..Len(s) /\ t[j] = s[j]
        BY <1>1, <1>4, <2>1
      <4> QED BY <4>1 DEF Sorted
    <3>3. ASSUME NEW m \in todo \ {k} PROVE k < m
      <4>1. k \in Nat /\ m \in Nat /\ k <= m /\ m # k
        OBVIOUS
      <4> QED BY <4>1
    <3> QED BY <3>1, <3>2, <3>3
  <2>2. CASE i # n
    <3>1. i \in 1..Len(s) /\ t[i] = s[i] /\ \A j \in 1..(i - 1) : t[j] = s[j]
      BY <1>1, <1>4, <2>2
    <3> QED BY <3>1 DEF Sorted
  <2> QED BY <2>1, <2>2
<1>6. Sorted(d, t, todo \ {k})
  BY <1>4, <1>5 DEF Sorted
<1> QED BY <1>4, <1>6 DEF t, x

\* The four steps of a merge that touch files, and that no other step does.
Clears(d) ==
  /\ run[d].pc = "clear" /\ run'[d].pc = "create" /\ run'[d].name = run[d].name
  /\ tmp' = Unlink(tmp, run[d].name) /\ dir' = dir /\ data' = data

Creates(d, fd) ==
  /\ run[d].pc = "create" /\ run'[d].pc = "copy" /\ run'[d].name = run[d].name
  /\ run'[d].fd = fd /\ run'[d].at = 1 /\ run'[d].good = run[d].good
  /\ run'[d].todo = run[d].todo
  /\ dir' = dir /\ tmp' = Link(tmp, run[d].name, fd)
  /\ \/ /\ run[d].name \in DOMAIN tmp /\ fd = tmp[run[d].name]
        /\ data' = [data EXCEPT ![fd] = <<>>]
     \/ /\ run[d].name \notin DOMAIN tmp /\ fd = Len(data) + 1
        /\ data' = Append(data, <<>>)

Copies(d, k) ==
  /\ run[d].pc = "copy" /\ run'[d].pc = "copy" /\ run'[d].name = run[d].name
  /\ k \in run[d].todo /\ \A j \in run[d].todo : k <= j
  /\ run'[d].todo = run[d].todo \ {k} /\ run'[d].at = run[d].at + 1
  /\ run'[d].fd = run[d].fd /\ run'[d].good = run[d].good
  /\ data' = [data EXCEPT ![run[d].fd] = WriteAt(@, run[d].at, Chunk(d, k, run[d].good))]
  /\ dir' = dir /\ tmp' = tmp

Renames(d) ==
  /\ run[d].pc = "copy" /\ run[d].todo = {}
  /\ run[d].name \in DOMAIN tmp
  /\ dir' = Link(dir, run[d].name, tmp[run[d].name])
  /\ tmp' = Unlink(tmp, run[d].name)
  /\ data' = data /\ run'[d].pc = "clean" /\ run'[d].name = run[d].name

Keeps(d) == dir' = dir /\ tmp' = tmp /\ data' = data /\ run'[d].pc # "copy"

FileStep(d) ==
  \/ Keeps(d) \/ Clears(d) \/ Renames(d)
  \/ \E fd \in Nat : Creates(d, fd)
  \/ \E k \in Nat : Copies(d, k)

LEMMA FileSteps ==
  ASSUME TypeOK, NEW d \in Downloads, RunnerStep(d)
  PROVE  FileStep(d) /\ (Keeps(d) \/ (clashed' = clashed /\ rec' = rec))
<1>0. /\ run \in [Downloads -> Runner] /\ run[d] \in Runner /\ run[d].at \in Nat
      /\ run[d].todo \in SUBSET (1..Parts) /\ Parts \in Nat
  BY MergingAssumption DEF TypeOK, Runner
<1>1. CASE Start(d) \/ FetchPart(d) \/ FetchError(d) \/ ListParts(d) \/ Stat(d) \/ Probe(d)
           \/ CleanUp(d) \/ Verify(d) \/ Finish(d)
  <2>1. run'[d].pc # "copy"
    BY <1>1, RunnerMoves
  <2>2. dir' = dir /\ tmp' = tmp /\ data' = data
    BY <1>1 DEF Start, FetchPart, FetchError, ListParts, Stat, Probe, CleanUp, Verify, Finish
  <2> QED BY <2>1, <2>2 DEF Keeps, FileStep
<1>2. CASE Clear(d)
  BY <1>2, RunnerMoves DEF Clear, Clears, FileStep
<1>3. CASE Create(d)
  <2> DEFINE fd == IF Exists(tmp, run[d].name) THEN tmp[run[d].name] ELSE Len(data) + 1
             r == [run[d] EXCEPT !.pc = "copy", !.fd = fd, !.at = 1]
  <2>1. /\ run' = [run EXCEPT ![d] = r] /\ tmp' = Link(tmp, run[d].name, fd) /\ dir' = dir
        /\ data' = IF Exists(tmp, run[d].name) THEN [data EXCEPT ![fd] = <<>>]
                                               ELSE Append(data, <<>>)
        /\ clashed' = clashed /\ rec' = rec
    BY <1>0, <1>3 DEF Create
  <2>2. fd \in Nat
    <3>1. Len(data) \in Nat /\ \A p \in DOMAIN tmp : tmp[p] \in 1..Len(data)
      BY DEF TypeOK
    <3> QED BY <3>1 DEF Exists
  <2>3. run'[d] = r
    BY <1>0, <2>1
  <2>4. /\ run'[d].fd = fd /\ run'[d].at = 1 /\ run'[d].good = run[d].good
        /\ run'[d].todo = run[d].todo
    BY <1>0, <2>3 DEF Runner
  <2>5. /\ run[d].pc = "create" /\ run'[d].pc = "copy" /\ run'[d].name = run[d].name
    BY <1>3, RunnerMoves
  <2>6. \/ /\ run[d].name \in DOMAIN tmp /\ fd = tmp[run[d].name]
           /\ data' = [data EXCEPT ![fd] = <<>>]
        \/ /\ run[d].name \notin DOMAIN tmp /\ fd = Len(data) + 1
           /\ data' = Append(data, <<>>)
    BY <2>1 DEF Exists
  <2> HIDE DEF fd, r
  <2>7. Creates(d, fd)
    BY <2>1, <2>4, <2>5, <2>6 DEF Creates
  <2> QED BY <2>1, <2>2, <2>7 DEF FileStep
<1>4. CASE CopyPart(d)
  <2>1. PICK k \in run[d].todo :
          /\ \A j \in run[d].todo : k <= j
          /\ IF k \in parts[d]
             THEN /\ data' = [data EXCEPT ![run[d].fd] =
                                WriteAt(@, run[d].at, Chunk(d, k, run[d].good))]
                  /\ run' = [run EXCEPT ![d].todo = @ \ {k}, ![d].at = @ + 1]
             ELSE Goto(d, "fail") /\ UNCHANGED data
    BY <1>4 DEF CopyPart
  <2>2. run[d].pc = "copy" /\ dir' = dir /\ tmp' = tmp /\ clashed' = clashed /\ rec' = rec
    BY <1>4 DEF CopyPart
  <2>3. CASE k \in parts[d]
    <3> DEFINE r == [run[d] EXCEPT !.todo = run[d].todo \ {k}, !.at = run[d].at + 1]
    <3>1. run'[d] = r
      BY <1>0, <2>1, <2>3
    <3>2. /\ run'[d].at = run[d].at + 1 /\ run'[d].fd = run[d].fd /\ run'[d].good = run[d].good
          /\ run'[d].pc = "copy" /\ run'[d].name = run[d].name
          /\ run'[d].todo = run[d].todo \ {k}
      BY <1>0, <2>2, <3>1 DEF Runner
    <3>3. k \in Nat
      BY <1>0
    <3>4. Copies(d, k)
      BY <2>1, <2>2, <2>3, <3>2 DEF Copies
    <3> QED BY <2>2, <3>3, <3>4 DEF FileStep
  <2>4. CASE k \notin parts[d]
    BY <1>0, <2>1, <2>2, <2>4 DEF Goto, Keeps, Runner, FileStep
  <2> QED BY <2>3, <2>4
<1>5. CASE Rename(d)
  <2>1. CASE run[d].name \in DOMAIN tmp
    <3>1. /\ run[d].pc = "copy" /\ run[d].todo = {} /\ data' = data
          /\ dir' = Link(dir, run[d].name, tmp[run[d].name])
          /\ tmp' = Unlink(tmp, run[d].name) /\ Goto(d, "clean")
          /\ clashed' = clashed /\ rec' = rec
      BY <1>5, <2>1 DEF Rename, Exists
    <3>2. run'[d].pc = "clean" /\ run'[d].name = run[d].name
      BY <1>0, <3>1 DEF Goto, Runner
    <3> QED BY <2>1, <3>1, <3>2 DEF Renames, FileStep
  <2>2. CASE run[d].name \notin DOMAIN tmp
    BY <1>0, <1>5, <2>2 DEF Rename, Exists, Goto, Keeps, Runner, FileStep
  <2> QED BY <2>1, <2>2
<1> QED BY <1>1, <1>2, <1>3, <1>4, <1>5 DEF RunnerStep

-----------------------------------------------------------------------------
(* Final files are whole *)

\* What the file steps leave of the inodes: all but the one the merge of d is
\* writing, which no final path and no other merge refers to under a name for
\* which no two were heading.
LEMMA OthersFiles ==
  ASSUME WholeInv, NEW d \in Downloads, RunnerStep(d)
  PROVE  /\ \A p \in DOMAIN dir \ clashed : data'[dir[p]] = data[dir[p]]
         /\ \A e \in Downloads : e # d /\ run[e].pc = "copy" /\ run[e].name \notin clashed =>
              /\ data'[run[e].fd] = data[run[e].fd]
              /\ run[e].name \in DOMAIN tmp' /\ tmp'[run[e].name] = tmp[run[e].name]
<1> USE DEF WholeInv
<1> DEFINE Apart == \A e \in Downloads : e # d /\ run[e].pc = "copy" /\ run[e].name \notin clashed =>
                      /\ data'[run[e].fd] = data[run[e].fd]
                      /\ run[e].name \in DOMAIN tmp' /\ tmp'[run[e].name] = tmp[run[e].name]
           Same == \A p \in DOMAIN dir \ clashed : data'[dir[p]] = data[dir[p]]
<1>0. /\ data \in Seq(Seq(Chunks)) /\ Len(data) \in Nat
      /\ \A p \in DOMAIN dir : dir[p] \in 1..Len(data)
      /\ \A p \in DOMAIN tmp : tmp[p] \in 1..Len(data)
      /\ \A e \in Downloads : run[e].pc = "copy" /\ run[e].name \notin clashed =>
           run[e].name \in DOMAIN tmp /\ tmp[run[e].name] = run[e].fd
  BY DEF TypeOK, CopyExact
<1>a. ASSUME NEW e \in Downloads, e # d, run[e].pc = "copy", run[e].name \notin clashed,
             run[d].pc \in Heading
      PROVE  run[e].name # run[d].name
  BY <1>a DEF ClashMarked, Heading
<1>1. CASE Keeps(d)
  BY <1>0, <1>1 DEF Keeps
<1>2. CASE Clears(d)
  <2>1. run[d].pc \in Heading
    BY <1>2 DEF Clears, Heading
  <2> QED BY <1>0, <1>2, <1>a, <2>1 DEF Clears, Unlink
<1>3. ASSUME NEW fd \in Nat, Creates(d, fd) PROVE Same /\ Apart
  <2>0. run[d].pc \in Heading
    BY <1>3 DEF Creates, Heading
  <2>1. \A i \in 1..Len(data) : i # fd => data'[i] = data[i]
    <3>1. \/ data' = [data EXCEPT ![fd] = <<>>]
          \/ fd = Len(data) + 1 /\ data' = Append(data, <<>>)
      BY <1>3 DEF Creates
    <3> QED BY <1>0, <3>1
  <2>2. ASSUME NEW p \in DOMAIN dir PROVE dir[p] # fd
    BY <1>0, <1>3 DEF Creates, FilesApart
  <2>3. ASSUME NEW e \in Downloads, e # d, run[e].pc = "copy", run[e].name \notin clashed
        PROVE  run[e].name # run[d].name /\ run[e].fd # fd /\ run[e].fd \in 1..Len(data)
    <3>1. run[e].name # run[d].name
      BY <1>a, <2>0, <2>3
    <3>2. run[e].name \in DOMAIN tmp /\ tmp[run[e].name] = run[e].fd
      BY <1>0, <2>3
    <3> QED BY <1>0, <1>3, <3>1, <3>2 DEF Creates, FilesApart
  <2>4. tmp' = Link(tmp, run[d].name, fd)
    BY <1>3 DEF Creates
  <2>5. Same
    BY <1>0, <2>1, <2>2
  <2>6. Apart
    BY <1>0, <2>1, <2>3, <2>4 DEF Link
  <2> QED BY <2>5, <2>6
<1>4. ASSUME NEW k \in Nat, Copies(d, k) PROVE Same /\ Apart
  <2> DEFINE fd == run[d].fd
  <2>0. tmp' = tmp /\ run[d].pc = "copy" /\ run[d].pc \in Heading
    BY <1>4 DEF Copies, Heading
  <2>1. \A i \in 1..Len(data) : i # fd => data'[i] = data[i]
    BY <1>0, <1>4 DEF Copies
  <2>2. ASSUME NEW p \in DOMAIN dir \ clashed PROVE dir[p] # fd
    <3>1. ASSUME dir[p] = fd PROVE FALSE
      <4>1. p = run[d].name
        BY <2>0, <3>1 DEF FdHome
      <4>2. run[d].name \in DOMAIN tmp /\ tmp[run[d].name] = fd
        BY <1>0, <2>0, <4>1
      <4> QED BY <3>1, <4>2 DEF FilesApart
    <3> QED BY <3>1
  <2>3. ASSUME NEW e \in Downloads, e # d, run[e].pc = "copy", run[e].name \notin clashed
        PROVE  run[e].fd # fd /\ run[e].fd \in 1..Len(data)
    <3>1. run[e].name # run[d].name
      BY <1>a, <2>0, <2>3
    <3> QED BY <1>0, <2>0, <2>3, <3>1 DEF FdHome
  <2> HIDE DEF fd
  <2> QED BY <1>0, <2>0, <2>1, <2>2, <2>3
<1>5. CASE Renames(d)
  <2>1. run[d].pc \in Heading
    BY <1>5 DEF Renames, Heading
  <2> QED BY <1>0, <1>5, <1>a, <2>1 DEF Renames, Unlink
<1> QED BY <1>1, <1>2, <1>3, <1>4, <1>5, FileSteps DEF FileStep

LEMMA FilesStayApart ==
  ASSUME TypeOK, FilesApart, NEW d \in Downloads, RunnerStep(d)
  PROVE  FilesApart'
<1>0. /\ data \in Seq(Seq(Chunks)) /\ Len(data) \in Nat
      /\ \A p \in DOMAIN dir : dir[p] \in 1..Len(data)
      /\ \A p \in DOMAIN tmp : tmp[p] \in 1..Len(data)
  BY DEF TypeOK
<1>1. CASE Keeps(d)
  BY <1>1 DEF Keeps, FilesApart
<1>2. CASE Clears(d)
  BY <1>2 DEF Clears, FilesApart, Unlink
<1>3. ASSUME NEW fd \in Nat, Creates(d, fd) PROVE FilesApart'
  <2>1. /\ DOMAIN tmp' = DOMAIN tmp \cup {run[d].name} /\ tmp'[run[d].name] = fd /\ dir' = dir
        /\ \A q \in DOMAIN tmp : q # run[d].name => tmp'[q] = tmp[q]
    BY <1>3 DEF Creates, Link
  <2>2. \A q \in DOMAIN tmp : q # run[d].name => tmp[q] # fd
    BY <1>0, <1>3 DEF Creates, FilesApart
  <2>3. \A p \in DOMAIN dir : dir[p] # fd
    BY <1>0, <1>3 DEF Creates, FilesApart
  <2> QED BY <2>1, <2>2, <2>3 DEF FilesApart
<1>4. ASSUME NEW k \in Nat, Copies(d, k) PROVE FilesApart'
  BY <1>4 DEF Copies, FilesApart
<1>5. CASE Renames(d)
  BY <1>5 DEF Renames, FilesApart, Link, Unlink
<1> QED BY <1>1, <1>2, <1>3, <1>4, <1>5, FileSteps DEF FileStep

\* An open file goes from the temporary name to the final one.
LEMMA FilesStayHome ==
  ASSUME TypeOK, FilesApart, FdHome, NEW d \in Downloads, RunnerStep(d)
  PROVE  FdHome'
<1>0. /\ data \in Seq(Seq(Chunks)) /\ Len(data) \in Nat
      /\ \A p \in DOMAIN dir : dir[p] \in 1..Len(data)
      /\ \A p \in DOMAIN tmp : tmp[p] \in 1..Len(data)
      /\ \A e \in Downloads : run[e].pc = "copy" => run[e].fd \in 1..Len(data)
  BY DEF TypeOK
<1>1. \A e \in Downloads : e # d => run'[e] = run[e]
  BY OthersStay
<1>2. CASE Keeps(d) \/ Clears(d)
  <2>1. \A e \in Downloads : run'[e].pc = "copy" => run'[e] = run[e]
    BY <1>1, <1>2 DEF Keeps, Clears
  <2>2. dir' = dir /\ \A p \in DOMAIN tmp' : p \in DOMAIN tmp /\ tmp'[p] = tmp[p]
    BY <1>2 DEF Keeps, Clears, Unlink
  <2> QED BY <2>1, <2>2 DEF FdHome
<1>3. ASSUME NEW fd \in Nat, Creates(d, fd) PROVE FdHome'
  <2>1. /\ DOMAIN tmp' = DOMAIN tmp \cup {run[d].name} /\ tmp'[run[d].name] = fd /\ dir' = dir
        /\ \A q \in DOMAIN tmp : q # run[d].name => tmp'[q] = tmp[q]
        /\ run'[d].pc = "copy" /\ run'[d].fd = fd /\ run'[d].name = run[d].name
    BY <1>3 DEF Creates, Link
  <2>2. /\ \A p \in DOMAIN dir : dir[p] # fd
        /\ \A q \in DOMAIN tmp : q # run[d].name => tmp[q] # fd
    BY <1>0, <1>3 DEF Creates, FilesApart
  <2>3. ASSUME NEW e \in Downloads, e # d, run[e].pc = "copy", run[e].fd = fd
        PROVE  run[e].name = run[d].name
    <3>1. run[d].name \in DOMAIN tmp /\ tmp[run[d].name] = run[e].fd
      BY <1>0, <1>3, <2>3 DEF Creates
    <3> QED BY <2>3, <3>1 DEF FdHome
  <2>4. ASSUME NEW e \in Downloads, run'[e].pc = "copy"
        PROVE  /\ \A p \in DOMAIN dir' : dir'[p] = run'[e].fd => p = run'[e].name
               /\ \A p \in DOMAIN tmp' : tmp'[p] = run'[e].fd => p = run'[e].name
    <3>1. CASE e = d
      BY <2>1, <2>2, <3>1
    <3>2. CASE e # d
      <4>1. run'[e] = run[e] /\ run[e].pc = "copy"
        BY <1>1, <2>4, <3>2
      <4> QED BY <2>1, <2>3, <3>2, <4>1 DEF FdHome
    <3> QED BY <3>1, <3>2
  <2>5. ASSUME NEW e \in Downloads, NEW f \in Downloads, run'[e].pc = "copy",
               run'[f].pc = "copy", run'[e].fd = run'[f].fd
        PROVE  run'[f].name = run'[e].name
    BY <1>1, <2>1, <2>3, <2>5 DEF FdHome
  <2> QED BY <2>4, <2>5 DEF FdHome
<1>4. ASSUME NEW k \in Nat, Copies(d, k) PROVE FdHome'
  <2>1. \A e \in Downloads : /\ run'[e].pc = run[e].pc /\ run'[e].fd = run[e].fd
                             /\ run'[e].name = run[e].name
    BY <1>1, <1>4 DEF Copies
  <2> QED BY <1>4, <2>1 DEF Copies, FdHome
<1>5. CASE Renames(d)
  <2>1. \A e \in Downloads : run'[e].pc = "copy" => run'[e] = run[e]
    BY <1>1, <1>5 DEF Renames
  <2>2. /\ run[d].name \in DOMAIN tmp /\ DOMAIN dir' = DOMAIN dir \cup {run[d].name}
        /\ dir'[run[d].name] = tmp[run[d].name]
        /\ \A p \in DOMAIN dir : p # run[d].name => dir'[p] = dir[p]
        /\ \A p \in DOMAIN tmp' : p \in DOMAIN tmp /\ tmp'[p] = tmp[p]
    BY <1>5 DEF Renames, Link, Unlink
  <2>3. ASSUME NEW e \in Downloads, run'[e].pc = "copy"
        PROVE  /\ \A p \in DOMAIN dir' : dir'[p] = run'[e].fd => p = run'[e].name
               /\ \A p \in DOMAIN tmp' : tmp'[p] = run'[e].fd => p = run'[e].name
    <3>1. run'[e] = run[e] /\ run[e].pc = "copy"
      BY <2>1, <2>3
    <3> QED BY <2>2, <3>1 DEF FdHome
  <2> QED BY <2>1, <2>3 DEF FdHome
<1> QED BY <1>2, <1>3, <1>4, <1>5, FileSteps DEF FileStep

\* What a step of a runner does to the records.
LEMMA RecordMoves ==
  ASSUME TypeOK, NEW d \in Downloads, RunnerStep(d)
  PROVE  /\ rm' = rm
         /\ \A e \in Downloads : e # d => rec'[e] = rec[e]
         /\ \/ rec' = rec /\ ~Start(d)
            \/ Start(d) /\ rec'[d].status = "running" /\ ~Gone(d)
            \/ /\ Finish(d) /\ ~Gone(d) /\ rec'[d].name = run[d].name
               /\ rec'[d].status = IF run[d].pc = "complete" THEN "completed" ELSE "failed"
<1>0. rec \in [Downloads -> Entry]
  BY DEF TypeOK
<1>1. CASE Start(d)
  BY <1>0, <1>1 DEF Start, Gone, Entry
<1>2. CASE Finish(d)
  <2>1. rm' = rm /\ ~Start(d)
    BY <1>2 DEF Finish, Start
  <2>2. CASE rec' = rec
    BY <2>1, <2>2
  <2>3. CASE rec' # rec
    <3> DEFINE entry == [status |-> IF run[d].pc = "complete" THEN "completed" ELSE "failed",
                         name |-> run[d].name]
    <3>1. ~Gone(d) /\ rec' = [rec EXCEPT ![d] = entry]
      BY <1>2, <2>3 DEF Finish, Gone
    <3>2. entry.name = run[d].name
          /\ entry.status = IF run[d].pc = "complete" THEN "completed" ELSE "failed"
      OBVIOUS
    <3> HIDE DEF entry
    <3> QED BY <1>0, <1>2, <2>1, <3>1, <3>2
  <2> QED BY <2>2, <2>3
<1>3. CASE FetchPart(d) \/ FetchError(d) \/ ListParts(d) \/ Stat(d) \/ Probe(d)
  BY <1>3 DEF Start, FetchPart, FetchError, ListParts, Stat, Probe
<1>4. CASE Clear(d) \/ Create(d) \/ CopyPart(d) \/ Rename(d) \/ CleanUp(d) \/ Verify(d)
  BY <1>4 DEF Start, Clear, Create, CopyPart, Rename, CleanUp, Verify
<1> QED BY <1>1, <1>2, <1>3, <1>4 DEF RunnerStep

\* A record that is gone stays so.
LEMMA GoneStays ==
  ASSUME TypeOK, NEW d \in Downloads, RunnerStep(d)
  PROVE  /\ \A e \in Downloads : Gone(e) => Gone(e)'
         /\ \A e \in Downloads : Gone(e)' => Gone(e)
<1>1. ASSUME NEW e \in Downloads PROVE Gone(e)' <=> Gone(e)
  <2>1. CASE e # d
    BY <2>1, RecordMoves DEF Gone
  <2>2. CASE e = d
    BY <2>2, RecordMoves DEF Gone
  <2> QED BY <2>1, <2>2
<1> QED BY <1>1

LEMMA PartsStayListed ==
  ASSUME TypeOK, Listed, NEW d \in Downloads, RunnerStep(d)
  PROVE  Listed'
<1>0. /\ run \in [Downloads -> Runner] /\ run[d] \in Runner /\ run[d].at \in Nat \ {0}
      /\ run[d].todo \in SUBSET (1..Parts) /\ Parts \in Nat \ {0}
      /\ parts \in [Downloads -> SUBSET (1..Parts)] /\ parts[d] \in SUBSET (1..Parts)
  BY MergingAssumption DEF TypeOK, Runner
<1> DEFINE L(e) ==
      /\ run[e].pc \in Listing => run[e].todo # {}
      /\ run[e].pc = "copy" => run[e].todo # {} \/ run[e].at > 1
      /\ ~Gone(e) =>
           /\ run[e].pc = "fetch" => (1..Parts) \ run[e].todo \subseteq parts[e]
           /\ run[e].pc \in Listing \cup {"copy"} => parts[e] = 1..Parts
           /\ run[e].pc \in Listing => run[e].todo = 1..Parts
           /\ run[e].pc = "copy" => run[e].at <= Parts + 1 /\ run[e].todo = run[e].at..Parts
<1>a. L(d)
  BY DEF Listed
<1>b. Gone(d)' <=> Gone(d)
  BY GoneStays
<1>1. ASSUME NEW e \in Downloads, e # d PROVE L(e)'
  <2>1. run'[e] = run[e] /\ (Gone(e)' <=> Gone(e))
    BY <1>1, OthersStay, GoneStays
  <2>2. parts'[e] = parts[e]
    <3>1. CASE FetchPart(d) \/ CleanUp(d)
      BY <1>0, <1>1, <3>1 DEF FetchPart, CleanUp
    <3>2. CASE ~(FetchPart(d) \/ CleanUp(d))
      BY <3>2 DEF RunnerStep, Start, FetchError, ListParts, Stat, Probe, Clear, Create, CopyPart,
                  Rename, Verify, Finish
    <3> QED BY <3>1, <3>2
  <2>3. L(e)
    BY DEF Listed
  <2> QED BY <2>1, <2>2, <2>3
<1>2. CASE Start(d)
  <2>1. PICK good \in BOOLEAN :
          run' = [run EXCEPT ![d] = [Idle EXCEPT !.pc = "fetch", !.todo = 1..Parts,
                                                 !.name = rec[d].name, !.good = good]]
    BY <1>2 DEF Start
  <2>2. run'[d].pc = "fetch" /\ run'[d].todo = 1..Parts
    BY <1>0, <2>1 DEF Idle
  <2>3. L(d)'
    BY <2>2 DEF Listing
  <2> QED BY <1>1, <2>3 DEF Listed
<1>3. CASE FetchPart(d)
  <2>1. PICK k \in run[d].todo : /\ parts' = [parts EXCEPT ![d] = @ \cup {k}]
                                 /\ run' = [run EXCEPT ![d].todo = @ \ {k}]
    BY <1>3 DEF FetchPart
  <2>2. /\ run[d].pc = "fetch" /\ run'[d].pc = "fetch" /\ run'[d].todo = run[d].todo \ {k}
        /\ parts'[d] = parts[d] \cup {k}
    BY <1>0, <1>3, <2>1 DEF FetchPart, Runner
  <2>3. L(d)'
    BY <1>a, <1>b, <2>2 DEF Listing
  <2> QED BY <1>1, <2>3 DEF Listed
<1>4. CASE ListParts(d)
  <2>1. /\ run[d].pc = "fetch" /\ run[d].todo = {} /\ parts' = parts
        /\ run' = [run EXCEPT ![d].pc = IF parts[d] = {} THEN "fail" ELSE "stat",
                              ![d].todo = parts[d]]
    BY <1>4 DEF ListParts
  <2>2. run'[d].pc = (IF parts[d] = {} THEN "fail" ELSE "stat") /\ run'[d].todo = parts[d]
    BY <1>0, <2>1 DEF Runner
  <2>3. ~Gone(d) => parts[d] = 1..Parts
    BY <1>0, <1>a, <2>1
  <2>4. CASE parts[d] = {}
    <3>1. run'[d].pc = "fail"
      BY <2>2, <2>4
    <3>2. L(d)'
      BY <3>1 DEF Listing
    <3> QED BY <1>1, <3>2 DEF Listed
  <2>5. CASE parts[d] # {}
    <3>1. run'[d].pc = "stat" /\ run'[d].todo # {} /\ parts'[d] = parts[d]
      BY <2>1, <2>2, <2>5
    <3>2. ~Gone(d)' => run'[d].todo = 1..Parts /\ parts'[d] = 1..Parts
      BY <1>b, <2>1, <2>2, <2>3
    <3>3. L(d)'
      BY <3>1, <3>2 DEF Listing
    <3> QED BY <1>1, <3>3 DEF Listed
  <2> QED BY <2>4, <2>5
<1>5. CASE Stat(d) \/ Probe(d) \/ Clear(d)
  <2>1. run[d].pc \in Listing /\ parts' = parts
    BY <1>5 DEF Stat, Probe, Clear, Listing
  <2>2. run'[d].todo = run[d].todo
    <3>1. CASE Stat(d)
      BY <1>0, <3>1 DEF Stat, SetOut, Goto, Runner
    <3>2. CASE Probe(d)
      BY <1>0, <3>2 DEF Probe, SetOut, Runner
    <3>3. CASE Clear(d)
      BY <1>0, <3>3 DEF Clear, Goto, Runner
    <3> QED BY <1>5, <3>1, <3>2, <3>3
  <2>3. run'[d].pc \in Listing \cup {"fail"}
    BY <1>5, RunnerMoves DEF Listing
  <2>4. L(d)'
    BY <1>a, <1>b, <2>1, <2>2, <2>3 DEF Listing
  <2> QED BY <1>1, <2>4 DEF Listed
<1>6. CASE Create(d)
  <2>1. run[d].pc = "create" /\ parts' = parts
    BY <1>6 DEF Create
  <2>2. run'[d].todo = run[d].todo /\ run'[d].at = 1 /\ run'[d].pc = "copy"
    BY <1>0, <1>6 DEF Create, Runner
  <2>3. L(d)'
    BY <1>0, <1>a, <1>b, <2>1, <2>2 DEF Listing
  <2> QED BY <1>1, <2>3 DEF Listed
<1>7. CASE CopyPart(d)
  <2>0. run[d].pc = "copy" /\ parts' = parts
    BY <1>7 DEF CopyPart
  <2>1. CASE run'[d].pc = "copy"
    <3>1. PICK k \in Nat : Copies(d, k)
      BY <2>0, <2>1, FileSteps DEF FileStep, Keeps, Clears, Creates, Renames
    <3>2. /\ k \in run[d].todo /\ \A j \in run[d].todo : k <= j
          /\ run'[d].todo = run[d].todo \ {k} /\ run'[d].at = run[d].at + 1
      BY <3>1 DEF Copies
    <3>3. run'[d].at > 1
      BY <1>0, <3>2
    <3>4. ASSUME ~Gone(d)
          PROVE  run'[d].at <= Parts + 1 /\ run'[d].todo = run'[d].at..Parts
      <4>1. run[d].at <= Parts + 1 /\ run[d].todo = run[d].at..Parts
        BY <1>a, <2>0, <3>4
      <4>2. k = run[d].at
        <5>1. k \in run[d].at..Parts
          BY <3>2, <4>1
        <5>2. run[d].at \in run[d].todo
          BY <1>0, <4>1, <5>1
        <5>3. k <= run[d].at
          BY <3>2, <5>2
        <5> QED BY <1>0, <5>1, <5>3
      <4>3. run[d].at..Parts \ {run[d].at} = (run[d].at + 1)..Parts
        BY <1>0
      <4> QED BY <1>0, <3>2, <4>1, <4>2, <4>3
    <3>5. L(d)'
      BY <1>a, <1>b, <2>0, <2>1, <3>3, <3>4 DEF Listing
    <3> QED BY <1>1, <3>5 DEF Listed
  <2>2. CASE run'[d].pc # "copy"
    <3>1. run'[d].pc = "fail"
      BY <1>7, <2>2, RunnerMoves
    <3>2. L(d)'
      BY <3>1 DEF Listing
    <3> QED BY <1>1, <3>2 DEF Listed
  <2> QED BY <2>1, <2>2
<1>8. CASE FetchError(d) \/ Rename(d) \/ CleanUp(d) \/ Verify(d) \/ Finish(d)
  <2>1. run'[d].pc \in {"clean", "verify", "complete", "fail", "idle"}
    BY <1>8, RunnerMoves
  <2>2. L(d)'
    BY <2>1 DEF Listing
  <2> QED BY <1>1, <2>2 DEF Listed
<1> QED BY <1>2, <1>3, <1>4, <1>5, <1>6, <1>7, <1>8 DEF RunnerStep

LEMMA CopiesStayExact ==
  ASSUME WholeInv, NEW d \in Downloads, RunnerStep(d)
  PROVE  CopyExact'
<1> USE DEF WholeInv
<1> SUFFICES ASSUME NEW e \in Downloads, run'[e].pc = "copy", run'[e].name \notin clashed'
             PROVE  /\ run'[e].name \in DOMAIN tmp' /\ tmp'[run'[e].name] = run'[e].fd
                    /\ Len(data'[run'[e].fd]) = run'[e].at - 1
                    /\ Sorted(e, data'[run'[e].fd], run'[e].todo)
                    /\ ~Gone(e)' => data'[run'[e].fd] = Fetched(e, run'[e].at - 1, run'[e].good)
  BY DEF CopyExact, Sorted
<1>0. run'[e].name \notin clashed
  BY HeadingMoves
<1>a. Gone(e)' <=> Gone(e)
  BY GoneStays
<1>1. CASE e # d
  <2>1. run'[e] = run[e] /\ run[e].pc = "copy" /\ run[e].name \notin clashed
    BY <1>0, <1>1, OthersStay
  <2>2. /\ run[e].name \in DOMAIN tmp /\ tmp[run[e].name] = run[e].fd
        /\ Len(data[run[e].fd]) = run[e].at - 1
        /\ Sorted(e, data[run[e].fd], run[e].todo)
        /\ ~Gone(e) => data[run[e].fd] = Fetched(e, run[e].at - 1, run[e].good)
    BY <2>1 DEF CopyExact
  <2>3. /\ data'[run[e].fd] = data[run[e].fd]
        /\ run[e].name \in DOMAIN tmp' /\ tmp'[run[e].name] = tmp[run[e].name]
    BY <1>1, <2>1, OthersFiles
  <2> QED BY <1>a, <2>1, <2>2, <2>3
<1>2. CASE e = d
  <2>0. /\ data \in Seq(Seq(Chunks)) /\ Len(data) \in Nat
        /\ \A p \in DOMAIN tmp : tmp[p] \in 1..Len(data)
        /\ run[d] \in Runner /\ Parts \in Nat
    BY MergingAssumption DEF TypeOK
  <2>a. /\ run[d].good \in BOOLEAN /\ run[d].at \in Nat \ {0}
        /\ run[d].todo \in SUBSET (1..Parts) /\ run[d].todo \in SUBSET Nat
    BY <2>0 DEF Runner
  <2>1. ASSUME NEW fd \in Nat, Creates(d, fd)
        PROVE  /\ run'[d].name \in DOMAIN tmp' /\ tmp'[run'[d].name] = run'[d].fd
               /\ Len(data'[run'[d].fd]) = run'[d].at - 1
               /\ Sorted(d, data'[run'[d].fd], run'[d].todo)
               /\ data'[run'[d].fd] = Fetched(d, run'[d].at - 1, run'[d].good)
    <3>1. data'[fd] = <<>>
      BY <2>0, <2>1 DEF Creates
    <3>2. Fetched(d, 1 - 1, run[d].good) = <<>>
      BY DEF Fetched
    <3>3. run'[d].name \in DOMAIN tmp' /\ tmp'[run'[d].name] = fd
      BY <2>1 DEF Creates, Link
    <3>4. run'[d].fd = fd /\ run'[d].at = 1 /\ run'[d].good = run[d].good
      BY <2>1 DEF Creates
    <3>5. Sorted(d, <<>>, run'[d].todo)
      BY DEF Sorted
    <3> QED BY <3>1, <3>2, <3>3, <3>4, <3>5
  <2>2. ASSUME NEW k \in Nat, Copies(d, k)
        PROVE  /\ run'[d].name \in DOMAIN tmp' /\ tmp'[run'[d].name] = run'[d].fd
               /\ Len(data'[run'[d].fd]) = run'[d].at - 1
               /\ Sorted(d, data'[run'[d].fd], run'[d].todo)
               /\ ~Gone(d) => data'[run'[d].fd] = Fetched(d, run'[d].at - 1, run'[d].good)
    <3> DEFINE s == data[run[d].fd]
               t == WriteAt(s, run[d].at, Chunk(d, k, run[d].good))
    <3>1. /\ run[d].pc = "copy" /\ run'[d].name = run[d].name
          /\ k \in run[d].todo /\ \A j \in run[d].todo : k <= j
          /\ run'[d].todo = run[d].todo \ {k} /\ run'[d].at = run[d].at + 1
          /\ run'[d].fd = run[d].fd /\ run'[d].good = run[d].good /\ tmp' = tmp
          /\ data' = [data EXCEPT ![run[d].fd] = t]
      BY <2>2 DEF Copies
    <3>2. /\ run[d].name \in DOMAIN tmp /\ tmp[run[d].name] = run[d].fd
          /\ Len(s) = run[d].at - 1 /\ Sorted(d, s, run[d].todo)
          /\ ~Gone(d) => s = Fetched(d, run[d].at - 1, run[d].good)
      BY <1>0, <1>2, <3>1 DEF CopyExact
    <3>3. run[d].fd \in 1..Len(data) /\ s \in Seq(Chunks)
      BY <2>0, <3>2
    <3>4. data'[run[d].fd] = t
      BY <2>0, <3>1, <3>3
    <3>5. run[d].at = Len(s) + 1 /\ run'[d].at - 1 = run[d].at
      BY <2>a, <3>1, <3>2
    <3>6. Len(t) = Len(s) + 1 /\ Sorted(d, t, run[d].todo \ {k})
      <4> HIDE DEF s
      <4> DEFINE u == WriteAt(s, Len(s) + 1, Chunk(d, k, run[d].good))
      <4>1. Len(u) = Len(s) + 1 /\ Sorted(d, u, run[d].todo \ {k})
        <5> DEFINE todo == run[d].todo
                   good == run[d].good
        <5>1. /\ todo \in SUBSET Nat /\ k \in todo /\ (\A j \in todo : k <= j)
              /\ good \in BOOLEAN /\ Sorted(d, s, todo) /\ s \in Seq(Chunks)
          BY <2>a, <3>1, <3>2, <3>3
        <5> HIDE DEF todo, good
        <5>2. /\ Len(WriteAt(s, Len(s) + 1, Chunk(d, k, good))) = Len(s) + 1
              /\ Sorted(d, WriteAt(s, Len(s) + 1, Chunk(d, k, good)), todo \ {k})
          BY <5>1, SortedNext, Zenon
        <5> QED BY <5>2 DEF todo, good
      <4>2. t = u
        BY <3>5
      <4> HIDE DEF t, u
      <4> QED BY <4>1, <4>2
    <3>7. ASSUME ~Gone(d) PROVE t = Fetched(d, run[d].at, run[d].good)
      <4>1. run[d].todo = run[d].at..Parts /\ run[d].at <= Parts + 1
        BY <3>1, <3>7 DEF Listed
      <4>2. k = run[d].at
        <5>1. k \in run[d].at..Parts
          BY <3>1, <4>1
        <5>2. run[d].at \in run[d].todo
          BY <2>0, <2>a, <4>1, <5>1
        <5>3. k <= run[d].at
          BY <3>1, <5>2
        <5> QED BY <2>0, <2>a, <5>1, <5>3
      <4>3. s = Fetched(d, k - 1, run[d].good) /\ k \in Nat \ {0}
        BY <2>a, <3>2, <3>7, <4>2
      <4>4. WriteAt(Fetched(d, k - 1, run[d].good), k, Chunk(d, k, run[d].good))
              = Fetched(d, k, run[d].good)
        BY <2>a, <4>3, FetchedNext
      <4> HIDE DEF s
      <4> QED BY <4>2, <4>3, <4>4
    <3> HIDE DEF s, t
    <3> QED BY <3>1, <3>2, <3>4, <3>5, <3>6, <3>7
  <2>3. (\E fd \in Nat : Creates(d, fd)) \/ (\E k \in Nat : Copies(d, k))
    BY <1>2, FileSteps DEF FileStep, Keeps, Clears, Renames
  <2>4. CASE \E fd \in Nat : Creates(d, fd)
    BY <1>2, <2>1, <2>4
  <2>5. CASE \E k \in Nat : Copies(d, k)
    BY <1>2, <1>a, <2>2, <2>5
  <2> QED BY <2>3, <2>4, <2>5
<1> QED BY <1>1, <1>2

\* What a merge renames: some parts of its download, and all of them if the
\* record is still there.
LEMMA Merged ==
  ASSUME WholeInv, NEW d \in Downloads, Renames(d), run[d].name \notin clashed
  PROVE  /\ PiecesOf(d, data[tmp[run[d].name]])
         /\ ~Gone(d) => \E good \in BOOLEAN : data[tmp[run[d].name]] = Whole(d, good)
<1> USE DEF WholeInv
<1> DEFINE s == data[tmp[run[d].name]]
<1>0. run[d] \in Runner /\ Parts \in Nat /\ run[d].pc = "copy" /\ run[d].todo = {}
  BY MergingAssumption DEF TypeOK, Renames
<1>1. run[d].good \in BOOLEAN /\ run[d].at \in Nat \ {0}
  BY <1>0 DEF Runner
<1>2. /\ tmp[run[d].name] = run[d].fd /\ Len(s) = run[d].at - 1 /\ Sorted(d, s, {})
      /\ ~Gone(d) => s = Fetched(d, run[d].at - 1, run[d].good)
  BY <1>0 DEF CopyExact
<1>3. run[d].at > 1
  BY <1>0 DEF Listed
<1>4. PiecesOf(d, s)
  <2>1. Len(s) # 0
    BY <1>1, <1>2, <1>3
  <2>2. s # <<>>
    BY <2>1
  <2> QED BY <1>2, <2>2 DEF PiecesOf, Sorted
<1>5. ASSUME ~Gone(d) PROVE s = Whole(d, run[d].good)
  <2>1. run[d].at <= Parts + 1 /\ run[d].at..Parts = {}
    BY <1>0, <1>5 DEF Listed
  <2>2. run[d].at - 1 = Parts
    <3>1. ~(run[d].at <= Parts)
      BY <1>0, <1>1, <2>1
    <3> QED BY <1>0, <1>1, <2>1, <3>1
  <2> QED BY <1>2, <1>5, <2>2 DEF Fetched, Whole
<1> QED BY <1>1, <1>4, <1>5

LEMMA FinalsStayWhole ==
  ASSUME WholeInv, NEW d \in Downloads, RunnerStep(d)
  PROVE  FinalsWhole'
<1> USE DEF WholeInv
<1>0. clashed \subseteq clashed' /\ \A e \in Downloads : Gone(e) => Gone(e)'
  BY HeadingMoves, GoneStays
<1>1. ASSUME NEW p \in DOMAIN dir \ clashed'
      PROVE  \/ data'[dir[p]] = Foreign
             \/ \E e \in Downloads :
                  \/ \E good \in BOOLEAN : data'[dir[p]] = Whole(e, good)
                  \/ Gone(e)' /\ PiecesOf(e, data'[dir[p]])
  <2>1. p \in DOMAIN dir \ clashed
    BY <1>0
  <2>2. data'[dir[p]] = data[dir[p]]
    BY <2>1, OthersFiles
  <2> QED BY <1>0, <2>1, <2>2 DEF FinalsWhole, Gone
<1>2. CASE dir' = dir
  BY <1>1, <1>2 DEF FinalsWhole, Gone, PiecesOf
<1>3. CASE Renames(d)
  <2>1. data' = data /\ dir' = Link(dir, run[d].name, tmp[run[d].name])
    BY <1>3 DEF Renames
  <2>2. ASSUME NEW p \in DOMAIN dir' \ clashed', p # run[d].name
        PROVE  p \in DOMAIN dir \ clashed' /\ dir'[p] = dir[p]
    BY <2>1, <2>2 DEF Link
  <2>3. dir'[run[d].name] = tmp[run[d].name]
    BY <2>1 DEF Link
  <2>4. ASSUME run[d].name \notin clashed'
        PROVE  \/ \E good \in BOOLEAN : data'[dir'[run[d].name]] = Whole(d, good)
               \/ Gone(d)' /\ PiecesOf(d, data'[dir'[run[d].name]])
    <3>1. run[d].name \notin clashed
      BY <1>0, <2>4
    <3>2. /\ PiecesOf(d, data[tmp[run[d].name]])
          /\ ~Gone(d) => \E good \in BOOLEAN : data[tmp[run[d].name]] = Whole(d, good)
      BY <1>3, <3>1, Merged
    <3> QED BY <1>0, <2>1, <2>3, <3>2
  <2> QED BY <1>1, <2>2, <2>4 DEF FinalsWhole, Gone, PiecesOf
<1> QED BY <1>2, <1>3, FileSteps DEF FileStep, Keeps, Clears, Creates, Copies

LEMMA RunnersKeepWhole ==
  ASSUME WholeInv, NEW d \in Downloads, RunnerStep(d)
  PROVE  WholeInv'
<1> USE DEF WholeInv
<1>1. TypeOK' /\ ClashMarked' /\ FilesApart'
  BY TypesOfRunners, ClashesMarked, FilesStayApart
<1>2. FdHome' /\ Listed'
  BY FilesStayHome, PartsStayListed
<1>3. CopyExact' /\ FinalsWhole'
  BY CopiesStayExact, FinalsStayWhole
<1>4. FilesLast'
  BY RecordMoves, GoneStays DEF FilesLast
<1> QED BY <1>1, <1>2, <1>3, <1>4

\* What the worker, a removal or a crash leave alone: a final path, part files
\* and a record may go, and runners may stop.
LEMMA OthersMove ==
  ASSUME TypeOK, (\E d \in Downloads : OtherStep(d)) \/ Crash
  PROVE  /\ tmp' = tmp /\ data' = data /\ clashed' = clashed
         /\ \A q \in DOMAIN dir' : q \in DOMAIN dir /\ dir'[q] = dir[q]
         /\ \A e \in Downloads : run'[e] = run[e] \/ run'[e].pc = "idle"
         /\ \A e \in Downloads : Gone(e) => Gone(e)'
<1>0. rec \in [Downloads -> Entry] /\ rm \in [Downloads -> Removal]
  BY DEF TypeOK
<1>1. tmp' = tmp /\ data' = data /\ clashed' = clashed
  BY DEF OtherStep, Requeue, RemoveGet, RemoveRecord, RemoveAll, RemovePart, RemoveFinal, Crash
<1>2. \A q \in DOMAIN dir' : q \in DOMAIN dir /\ dir'[q] = dir[q]
  BY DEF OtherStep, Requeue, RemoveGet, RemoveRecord, RemoveAll, RemovePart, RemoveFinal, Crash,
         Unlink
<1>3. \A e \in Downloads : run'[e] = run[e] \/ run'[e].pc = "idle"
  <2>1. CASE Crash
    BY <2>1 DEF Crash, Idle
  <2>2. CASE run' = run
    BY <2>2
  <2> QED
    BY <2>1, <2>2 DEF OtherStep, Requeue, RemoveGet, RemoveRecord, RemoveAll, RemovePart,
                      RemoveFinal
<1>4. \A e \in Downloads : Gone(e) => Gone(e)'
  BY <1>0 DEF OtherStep, Requeue, RemoveGet, RemoveRecord, RemoveAll, RemovePart, RemoveFinal,
              Crash, Gone, Entry
<1> QED BY <1>1, <1>2, <1>3, <1>4

LEMMA FilesStayLast ==
  ASSUME TypeOK, FilesLast, (\E d \in Downloads : OtherStep(d)) \/ Crash
  PROVE  FilesLast'
<1>0. rec \in [Downloads -> Entry] /\ rm \in [Downloads -> Removal]
  BY DEF TypeOK
<1>1. ASSUME NEW e \in Downloads, rm'[e].pc \in {"files", "parts", "done"}
      PROVE  rm[e].pc \in {"files", "parts", "done"} \/ Gone(e)'
  <2>1. CASE Crash
    BY <1>1, <2>1 DEF Crash, NoRemoval
  <2>2. ASSUME NEW d \in Downloads, OtherStep(d), e # d
        PROVE  rm'[e] = rm[e]
    BY <1>0, <2>2 DEF OtherStep, Requeue, RemoveGet, RemoveRecord, RemoveAll, RemovePart,
                      RemoveFinal
  <2>3. CASE Requeue(e) \/ RemoveAll(e) \/ RemovePart(e) \/ RemoveFinal(e)
    BY <1>1, <2>3 DEF Requeue, RemoveAll, RemovePart, RemoveFinal
  <2>4. CASE RemoveGet(e)
    BY <1>0, <1>1, <2>4 DEF RemoveGet
  <2>5. CASE RemoveRecord(e)
    BY <1>0, <2>5 DEF RemoveRecord, Gone, Entry
  <2> QED BY <1>1, <2>1, <2>2, <2>3, <2>4, <2>5 DEF OtherStep
<1> QED BY <1>1, OthersMove DEF FilesLast

\* Only a removal takes part files from a runner, once the record is gone.
LEMMA PartsStay ==
  ASSUME TypeOK, FilesLast, (\E d \in Downloads : OtherStep(d)) \/ Crash,
         NEW e \in Downloads, ~Gone(e)
  PROVE  parts'[e] = parts[e]
<1>0. parts \in [Downloads -> SUBSET (1..Parts)]
  BY DEF TypeOK
<1>1. ASSUME NEW d \in Downloads, RemovePart(d) PROVE parts'[e] = parts[e]
  <2>1. e # d
    BY <1>1 DEF RemovePart, FilesLast
  <2> QED BY <1>0, <1>1, <2>1 DEF RemovePart
<1>2. CASE parts' = parts
  BY <1>2
<1> QED BY <1>1, <1>2 DEF OtherStep, Requeue, RemoveGet, RemoveRecord, RemoveAll, RemoveFinal, Crash

LEMMA OthersKeepWhole ==
  ASSUME WholeInv, (\E d \in Downloads : OtherStep(d)) \/ Crash
  PROVE  /\ ClashMarked' /\ FilesApart' /\ FdHome' /\ FilesLast' /\ Listed' /\ CopyExact'
         /\ FinalsWhole'
<1> USE DEF WholeInv
<1>0. /\ tmp' = tmp /\ data' = data /\ clashed' = clashed
      /\ \A q \in DOMAIN dir' : q \in DOMAIN dir /\ dir'[q] = dir[q]
      /\ \A e \in Downloads : run'[e] = run[e] \/ run'[e].pc = "idle"
      /\ \A e \in Downloads : Gone(e) => Gone(e)'
  BY OthersMove
<1>1. ClashMarked'
  BY <1>0 DEF ClashMarked, Heading
<1>2. FilesApart' /\ FdHome'
  BY <1>0 DEF FilesApart, FdHome
<1>3. FilesLast'
  BY FilesStayLast
<1>4. Listed'
  <2>1. \A e \in Downloads : ~Gone(e)' => ~Gone(e) /\ parts'[e] = parts[e]
    BY <1>0, PartsStay
  <2> QED BY <1>0, <2>1 DEF Listed, Listing
<1>5. CopyExact'
  BY <1>0 DEF CopyExact, Sorted
<1>6. FinalsWhole'
  <2> SUFFICES ASSUME NEW p \in DOMAIN dir' \ clashed'
               PROVE  \/ data'[dir'[p]] = Foreign
                      \/ \E e \in Downloads :
                           \/ \E good \in BOOLEAN : data'[dir'[p]] = Whole(e, good)
                           \/ Gone(e)' /\ PiecesOf(e, data'[dir'[p]])
    BY DEF FinalsWhole, Gone, PiecesOf
  <2>1. p \in DOMAIN dir \ clashed /\ data'[dir'[p]] = data[dir[p]]
    BY <1>0
  <2> QED BY <1>0, <2>1 DEF FinalsWhole, Gone
<1> QED BY <1>1, <1>2, <1>3, <1>4, <1>5, <1>6

LEMMA WholeInvStep == WholeInv /\ [Next]_vars => WholeInv'
<1> SUFFICES ASSUME WholeInv, [Next]_vars PROVE WholeInv'
  OBVIOUS
<1>1. ASSUME NEW d \in Downloads, RunnerStep(d) PROVE WholeInv'
  BY <1>1, RunnersKeepWhole
<1>2. ASSUME NEW d \in Downloads, OtherStep(d) PROVE WholeInv'
  BY <1>2, TypesOfOthers, OthersKeepWhole DEF WholeInv
<1>3. CASE Crash
  <2>1. TypeOK'
    <3>1. CASE Downloads = {}
      BY <1>3, <3>1 DEF Crash, WholeInv, TypeOK
    <3>2. CASE Downloads # {}
      BY <1>3, <3>2, TypesOfOthers DEF WholeInv
    <3> QED BY <3>1, <3>2
  <2> QED BY <1>3, <2>1, OthersKeepWhole DEF WholeInv
<1>4. CASE UNCHANGED vars
  <2>1. TypeOK'
    BY <1>4 DEF vars, WholeInv, TypeOK
  <2>2. ClashMarked' /\ FilesApart' /\ FdHome'
    BY <1>4 DEF vars, WholeInv, ClashMarked, FilesApart, FdHome
  <2>3. FilesLast' /\ Listed'
    BY <1>4 DEF vars, WholeInv, FilesLast, Listed, Gone
  <2>4. CopyExact'
    BY <1>4 DEF vars, WholeInv, CopyExact, Gone, Sorted
  <2>5. FinalsWhole'
    BY <1>4 DEF vars, WholeInv, FinalsWhole, PiecesOf
  <2> QED BY <2>1, <2>2, <2>3, <2>4, <2>5 DEF WholeInv
<1> QED BY <1>1, <1>2, <1>3, <1>4 DEF Next, RunnerStep, OtherStep

LEMMA InitiallyWhole == Init => WholeInv
<1> SUFFICES ASSUME Init PROVE WholeInv
  OBVIOUS
<1>1. /\ DOMAIN tmp = {}
      /\ \A d \in Downloads : run[d].pc = "idle" /\ rm[d].pc = "idle"
  BY DEF Init, Idle, NoRemoval
<1>2. \A p \in DOMAIN dir : data[dir[p]] = Foreign
  BY DEF Init
<1>3. ClashMarked /\ FilesApart /\ FdHome
  BY <1>1 DEF ClashMarked, Heading, FilesApart, FdHome
<1>4. FilesLast /\ Listed /\ CopyExact
  BY <1>1 DEF FilesLast, Listed, Listing, CopyExact
<1> QED BY <1>2, <1>3, <1>4, InitialTypes DEF WholeInv, FinalsWhole

\* However many merges run at the same time, and however removals take part
\* files from under them and crashes cut them off, a final path shows a file
\* that was there before, or all the parts of one download in their order, or,
\* if that download was removed while it ran, some of them; the names for which
\* two merges were heading at once are left out (filestore.go:79-155).
THEOREM FinalFilesWhole == Spec => []FinalsWhole
<1>1. WholeInv => FinalsWhole
  BY DEF WholeInv
<1> QED BY <1>1, InitiallyWhole, WholeInvStep, PTL DEF Spec

-----------------------------------------------------------------------------
(* Completed downloads own their files *)

\* A merge that spares existing files heads for a name that is free, or for
\* which another one has been heading too.
Freed ==
  \A d \in Downloads :
    Policy[d] # "overwrite" /\ run[d].pc \in Heading /\ run[d].name \notin clashed
      => run[d].name \notin DOMAIN dir

\* Excused, for a name that may not be the one of d's record yet.
ExcusedAt(d, name) ==
  \E e \in Downloads \ {d} :
    \/ /\ Policy[e] = "overwrite" /\ Exists(dir, name)
       /\ PiecesOf(e, data[dir[name]])
    \/ rm[e].pc = "done" /\ rm[e].name = name

\* The file of that name is d's, as one of these fetches left it.
Has(d, name, fetches) ==
  Exists(dir, name) /\ \E good \in fetches : data[dir[name]] = Whole(d, good)

\* It is d's, or there is an excuse.
Holds(d, name, fetches) ==
  name \in clashed \/ ExcusedAt(d, name) \/ Has(d, name, fetches)

\* What d may have stored as its file.
Fit(d) == IF d \in Checked THEN {TRUE} ELSE BOOLEAN

\* From its rename until it is removed, a download's file has the name that
\* the runner, and then the record, gives it, or its loss is excused; once it
\* has been verified it is also the right one.
Held ==
  \A d \in Downloads : ~Gone(d) =>
    /\ run[d].pc = "idle" /\ rec[d].status = "completed" => Holds(d, rec[d].name, Fit(d))
    /\ run[d].pc \in {"clean", "verify"} => Holds(d, run[d].name, BOOLEAN)
    /\ run[d].pc = "complete" => Holds(d, run[d].name, Fit(d))

\* The record of a download that runs says so, or is gone.
Marked == \A d \in Downloads : run[d].pc # "idle" => rec[d].status \in {"running", "gone"}

OwnedInv == WholeInv /\ Freed /\ Marked /\ Held

LEMMA FreedKept ==
  ASSUME OwnedInv, NEW d \in Downloads, RunnerStep(d)
  PROVE  Freed'
<1> USE DEF OwnedInv, WholeInv
<1> SUFFICES ASSUME NEW e \in Downloads, Policy[e] # "overwrite", run'[e].pc \in Heading,
                    run'[e].name \notin clashed', run'[e].name \in DOMAIN dir'
             PROVE  FALSE
  BY DEF Freed
<1>0. run'[e].name \notin clashed
  BY HeadingMoves
<1>1. CASE e # d
  <2>1. run'[e] = run[e] /\ run[e].name \notin DOMAIN dir
    BY <1>0, <1>1, OthersStay DEF Freed
  <2>2. Renames(d)
    BY <2>1, FileSteps DEF FileStep, Keeps, Clears, Creates, Copies
  <2>3. run[d].name = run[e].name
    BY <2>1, <2>2 DEF Renames, Link
  <2>4. run[d].pc \in Heading
    BY <2>2 DEF Renames, Heading
  <2> QED BY <1>0, <1>1, <2>1, <2>3, <2>4 DEF ClashMarked
<1>2. CASE e = d
  <2>1. run'[d].pc # "clean"
    BY <1>2 DEF Heading
  <2>2. dir' = dir
    BY <2>1, FileSteps DEF FileStep, Keeps, Clears, Creates, Copies, Renames
  <2>3. CASE run[d].pc \in Heading /\ run'[d].name = run[d].name
    BY <1>0, <1>2, <2>2, <2>3 DEF Freed
  <2>4. CASE Stat(d) \/ Probe(d)
    BY <1>2, <2>2, <2>4, SetsOutFree
  <2> QED BY <1>2, <2>3, <2>4, HeadingMoves
<1> QED BY <1>1, <1>2

LEMMA MarksKept ==
  ASSUME OwnedInv, NEW d \in Downloads, RunnerStep(d)
  PROVE  Marked'
<1> USE DEF OwnedInv, WholeInv
<1>1. ASSUME NEW e \in Downloads, run'[e].pc # "idle"
      PROVE  rec'[e].status \in {"running", "gone"}
  <2>1. CASE e # d
    BY <1>1, <2>1, OthersStay, RecordMoves DEF Marked
  <2>2. CASE e = d
    <3>1. ~Finish(d)
      BY <1>1, <2>2, RunnerMoves
    <3>2. CASE Start(d)
      BY <2>2, <3>1, <3>2, RecordMoves
    <3>3. CASE ~Start(d)
      <4>1. run[d].pc # "idle"
        BY <3>1, <3>3 DEF RunnerStep, FetchPart, FetchError, ListParts, Stat, Probe, Clear,
                          Create, CopyPart, Rename, CleanUp, Verify
      <4>2. rec' = rec
        BY <3>1, <3>3, RecordMoves
      <4> QED BY <2>2, <4>1, <4>2 DEF Marked
    <3> QED BY <3>2, <3>3
  <2> QED BY <2>1, <2>2
<1> QED BY <1>1 DEF Marked

\* A runner's step takes no other download's file without an excuse.
LEMMA NamesLast ==
  ASSUME OwnedInv, NEW d \in Downloads, RunnerStep(d), NEW CONSTANT e \in Downloads,
         NEW CONSTANT name, NEW CONSTANT fetches,
         e # d \/ dir' = dir, Holds(e, name, fetches)
  PROVE  Holds(e, name, fetches)'
<1> USE DEF OwnedInv, WholeInv
<1>0. clashed \subseteq clashed'
  BY HeadingMoves
<1>a. CASE name \in clashed
  BY <1>0, <1>a DEF Holds
<1>b. CASE name \notin clashed
  <2>0. /\ rm' = rm
        /\ ExcusedAt(e, name) \/ Has(e, name, fetches)
        /\ name \in DOMAIN dir => data'[dir[name]] = data[dir[name]]
    BY <1>b, RecordMoves, OthersFiles DEF Holds
  <2>1. CASE dir' = dir \/ (Renames(d) /\ run[d].name # name)
    <3>1. /\ Exists(dir, name) => Exists(dir, name)' /\ dir'[name] = dir[name]
      BY <2>1 DEF Renames, Link, Exists
    <3>2. Exists(dir, name) => data'[dir'[name]] = data[dir[name]]
      BY <2>0, <3>1 DEF Exists
    <3> QED BY <2>0, <3>1, <3>2 DEF ExcusedAt, Has, Holds, PiecesOf
  <2>2. CASE Renames(d) /\ run[d].name = name /\ e # d
    <3>1. /\ data' = data /\ dir'[name] = tmp[name] /\ name \in DOMAIN dir'
          /\ run[d].pc = "copy"
      BY <2>2 DEF Renames, Link
    <3>2. PiecesOf(d, data'[dir'[name]])
      BY <1>b, <2>2, <3>1, Merged
    <3>3. CASE Policy[d] = "overwrite"
      BY <2>2, <3>1, <3>2, <3>3 DEF ExcusedAt, Exists, Holds, PiecesOf
    <3>4. CASE Policy[d] # "overwrite"
      <4>1. ~Exists(dir, name)
        BY <1>b, <2>2, <3>1, <3>4 DEF Freed, Heading, Exists
      <4> QED BY <2>0, <4>1 DEF ExcusedAt, Has, Holds
    <3> QED BY <3>3, <3>4
  <2> QED BY <2>1, <2>2, FileSteps DEF FileStep, Keeps, Clears, Creates, Copies
<1> QED BY <1>a, <1>b

LEMMA OthersHold ==
  ASSUME OwnedInv, NEW d \in Downloads, RunnerStep(d),
         NEW e \in Downloads, e # d, ~Gone(e)'
  PROVE  /\ run'[e].pc = "idle" /\ rec'[e].status = "completed" => Holds(e, rec[e].name, Fit(e))'
         /\ run'[e].pc \in {"clean", "verify"} => Holds(e, run[e].name, BOOLEAN)'
         /\ run'[e].pc = "complete" => Holds(e, run[e].name, Fit(e))'
<1>0. run'[e] = run[e] /\ rec'[e] = rec[e] /\ ~Gone(e)
  BY OthersStay, RecordMoves, GoneStays DEF OwnedInv, WholeInv
<1>1. ASSUME run'[e].pc = "idle" /\ rec'[e].status = "completed"
      PROVE  Holds(e, rec[e].name, Fit(e))'
  <2>1. PICK n : n = rec[e].name
    OBVIOUS
  <2>2. Holds(e, n, Fit(e))
    BY <1>0, <1>1, <2>1 DEF OwnedInv, Held
  <2>3. Holds(e, n, Fit(e))'
    BY <2>2, NamesLast
  <2> QED BY <1>0, <2>1, <2>3
<1>2. ASSUME run'[e].pc \in {"clean", "verify"}
      PROVE  Holds(e, run[e].name, BOOLEAN)'
  <2>1. PICK n : n = run[e].name
    OBVIOUS
  <2>2. Holds(e, n, BOOLEAN)
    BY <1>0, <1>2, <2>1 DEF OwnedInv, Held
  <2>3. Holds(e, n, BOOLEAN)'
    BY <2>2, NamesLast
  <2> QED BY <1>0, <2>1, <2>3
<1>3. ASSUME run'[e].pc = "complete"
      PROVE  Holds(e, run[e].name, Fit(e))'
  <2>1. PICK n : n = run[e].name
    OBVIOUS
  <2>2. Holds(e, n, Fit(e))
    BY <1>0, <1>3, <2>1 DEF OwnedInv, Held
  <2>3. Holds(e, n, Fit(e))'
    BY <2>2, NamesLast
  <2> QED BY <1>0, <2>1, <2>3
<1> QED BY <1>1, <1>2, <1>3

\* The steps of a runner from the rename to the end.
LEMMA LastMoves ==
  ASSUME TypeOK, NEW d \in Downloads, RunnerStep(d)
  PROVE  /\ run'[d].pc \in {"clean", "verify"} =>
              \/ Renames(d)
              \/ /\ run[d].pc = "clean" /\ run'[d].name = run[d].name
                 /\ dir' = dir /\ data' = data /\ rec' = rec
         /\ run'[d].pc = "complete" => /\ Verify(d) /\ VerifyChecksum(d)
                                       /\ run'[d].name = run[d].name
                                       /\ dir' = dir /\ data' = data /\ rec' = rec
         /\ run'[d].pc = "idle" => Finish(d)
<1>0. run \in [Downloads -> Runner] /\ run[d] \in Runner
  BY DEF TypeOK
<1>1. Rename(d) => run'[d].pc = "fail" \/ Renames(d)
  <2>1. FileStep(d)
    BY FileSteps
  <2>2. Rename(d) => run[d].pc = "copy" /\ data' = data
    BY DEF Rename
  <2>3. Rename(d) /\ run'[d].pc = "clean"
          => run[d].name \in DOMAIN tmp /\ tmp' = Unlink(tmp, run[d].name)
    BY <1>0 DEF Rename, Goto, Exists, Runner
  <2>4. Rename(d) /\ run'[d].pc = "clean" => tmp' # tmp
    BY <2>3 DEF Unlink
  <2> QED BY <2>1, <2>2, <2>4, RunnerMoves DEF FileStep, Keeps, Clears, Creates, Copies
<1>2. ASSUME run'[d].pc \in {"clean", "verify"} PROVE Renames(d) \/ CleanUp(d)
  BY <1>1, <1>2, RunnerMoves DEF RunnerStep
<1>3. ASSUME run'[d].pc = "complete" PROVE Verify(d)
  BY <1>3, RunnerMoves DEF RunnerStep
<1>4. ASSUME run'[d].pc = "idle" PROVE Finish(d)
  BY <1>4, RunnerMoves DEF RunnerStep
<1>5. CleanUp(d) => /\ run[d].pc = "clean" /\ run'[d].name = run[d].name
                    /\ dir' = dir /\ data' = data /\ rec' = rec
  BY <1>0 DEF CleanUp, Goto, Runner
<1>6. Verify(d) => /\ run'[d].name = run[d].name /\ dir' = dir /\ data' = data /\ rec' = rec
  BY <1>0 DEF Verify, Goto, Runner
<1>7. Verify(d) /\ run'[d].pc = "complete" => VerifyChecksum(d)
  BY <1>0 DEF Verify, Goto, Runner
<1> QED BY <1>2, <1>3, <1>4, <1>5, <1>6, <1>7

LEMMA RunnerHolds ==
  ASSUME OwnedInv, NEW d \in Downloads, RunnerStep(d), ~Gone(d)'
  PROVE  /\ run'[d].pc = "idle" /\ rec'[d].status = "completed" => Holds(d, rec[d].name, Fit(d))'
         /\ run'[d].pc \in {"clean", "verify"} => Holds(d, run[d].name, BOOLEAN)'
         /\ run'[d].pc = "complete" => Holds(d, run[d].name, Fit(d))'
<1> USE DEF OwnedInv, WholeInv
<1>0. ~Gone(d) /\ clashed \subseteq clashed'
  BY GoneStays, HeadingMoves
<1>1. ASSUME run'[d].pc = "idle", rec'[d].status = "completed"
      PROVE  Holds(d, rec[d].name, Fit(d))'
  <2>1. Finish(d)
    BY <1>1, LastMoves
  <2>2. dir' = dir /\ run[d].pc # "idle"
    BY <2>1 DEF Finish
  <2>3. rec[d].status # "completed"
    BY <2>2 DEF Marked
  <2>4. rec'[d].name = run[d].name /\ run[d].pc = "complete"
    BY <1>1, <2>3, RecordMoves
  <2>5. PICK n : n = run[d].name
    OBVIOUS
  <2>6. Holds(d, n, Fit(d))
    BY <1>0, <2>4, <2>5 DEF Held
  <2>7. Holds(d, n, Fit(d))'
    BY <2>2, <2>6, NamesLast
  <2> QED BY <2>4, <2>5, <2>7
<1>2. CASE Renames(d)
  <2>1. /\ data' = data /\ dir'[run[d].name] = tmp[run[d].name] /\ run[d].name \in DOMAIN dir'
        /\ run'[d].name = run[d].name /\ run'[d].pc = "clean"
    BY <1>2 DEF Renames, Link
  <2>2. CASE run[d].name \in clashed
    BY <1>0, <2>1, <2>2 DEF Holds
  <2>3. CASE run[d].name \notin clashed
    <3>1. PICK good \in BOOLEAN : data[tmp[run[d].name]] = Whole(d, good)
      BY <1>0, <1>2, <2>3, Merged
    <3>2. data'[dir'[run'[d].name]] = Whole(d, good)
      BY <2>1, <3>1
    <3>3. Has(d, run[d].name, BOOLEAN)'
      BY <2>1, <3>2 DEF Has, Exists
    <3> QED BY <2>1, <3>3 DEF Holds
  <2> QED BY <2>2, <2>3
<1>3. ASSUME run'[d].pc \in {"clean", "verify"}, ~Renames(d)
      PROVE  Holds(d, run[d].name, BOOLEAN)'
  <2>1. run[d].pc = "clean" /\ run'[d].name = run[d].name /\ dir' = dir
    BY <1>3, LastMoves
  <2>2. PICK n : n = run[d].name
    OBVIOUS
  <2>3. Holds(d, n, BOOLEAN)
    BY <1>0, <2>1, <2>2 DEF Held
  <2>4. Holds(d, n, BOOLEAN)'
    BY <2>1, <2>3, NamesLast
  <2> QED BY <2>1, <2>2, <2>4
<1>4. ASSUME run'[d].pc = "complete"
      PROVE  Holds(d, run[d].name, Fit(d))'
  <2>1. /\ Verify(d) /\ VerifyChecksum(d) /\ run'[d].name = run[d].name /\ dir' = dir
    BY <1>4, LastMoves
  <2>2. PICK n : n = run[d].name
    OBVIOUS
  <2>3. Holds(d, n, BOOLEAN)
    BY <1>0, <2>1, <2>2 DEF Held, Verify
  <2>4. Holds(d, n, Fit(d))
    <3>1. CASE d \in Checked
      BY <2>1, <2>2, <3>1 DEF VerifyChecksum, Has, Fit, Holds
    <3>2. CASE d \notin Checked
      BY <2>3, <3>2 DEF Fit
    <3> QED BY <3>1, <3>2
  <2>5. Holds(d, n, Fit(d))'
    BY <2>1, <2>4, NamesLast
  <2> QED BY <2>1, <2>2, <2>5
<1> QED BY <1>1, <1>2, <1>3, <1>4

LEMMA RunnersKeepOwned ==
  ASSUME OwnedInv, NEW d \in Downloads, RunnerStep(d)
  PROVE  Freed' /\ Marked' /\ Held'
<1>1. Held'
  <2>1. ASSUME NEW e \in Downloads, ~Gone(e)'
        PROVE  /\ run'[e].pc = "idle" /\ rec'[e].status = "completed"
                    => Holds(e, rec[e].name, Fit(e))'
               /\ run'[e].pc \in {"clean", "verify"} => Holds(e, run[e].name, BOOLEAN)'
               /\ run'[e].pc = "complete" => Holds(e, run[e].name, Fit(e))'
    <3>1. CASE e = d
      BY <2>1, <3>1, RunnerHolds
    <3>2. CASE e # d
      BY <2>1, <3>2, OthersHold
    <3> QED BY <3>1, <3>2
  <2> QED BY <2>1 DEF Held
<1> QED BY <1>1, FreedKept, MarksKept

\* What the worker, a removal or a crash do to a file that a download holds.
LEMMA HeldThrough ==
  ASSUME OwnedInv, (\E d \in Downloads : OtherStep(d)) \/ Crash,
         NEW CONSTANT e \in Downloads, ~Gone(e)',
         NEW CONSTANT name, NEW CONSTANT fetches, Holds(e, name, fetches)
  PROVE  Holds(e, name, fetches)'
<1> USE DEF OwnedInv, WholeInv
<1>0. rm \in [Downloads -> Removal] /\ rec \in [Downloads -> Entry]
  BY DEF TypeOK
<1>1. data' = data /\ clashed' = clashed /\ ~Gone(e)
  BY OthersMove
<1>2. \A f \in Downloads : rm[f].pc = "done" => rm'[f] = rm[f]
  BY <1>0 DEF OtherStep, Requeue, RemoveGet, RemoveRecord, RemoveAll, RemovePart, RemoveFinal, Crash
<1>3. CASE dir' = dir
  BY <1>1, <1>2, <1>3 DEF ExcusedAt, Has, Exists, Holds, PiecesOf
<1>4. ASSUME NEW d \in Downloads, RemoveFinal(d)
      PROVE  Holds(e, name, fetches)'
  <2>1. /\ rm[d].pc = "parts" /\ rm' = [rm EXCEPT ![d].pc = "done"]
        /\ dir' = Unlink(dir, rm[d].name)
    BY <1>4 DEF RemoveFinal
  <2>2. e # d
    BY <1>1, <2>1 DEF FilesLast
  <2>3. CASE rm[d].name = name
    <3>1. rm'[d].pc = "done" /\ rm'[d].name = name
      BY <1>0, <2>1, <2>3 DEF Removal
    <3> QED BY <2>2, <3>1 DEF ExcusedAt, Holds
  <2>4. CASE rm[d].name # name
    <3>1. Exists(dir, name) => Exists(dir, name)' /\ dir'[name] = dir[name]
      BY <2>1, <2>4 DEF Exists, Unlink
    <3> QED BY <1>1, <1>2, <3>1 DEF ExcusedAt, Has, Holds, PiecesOf
  <2> QED BY <2>3, <2>4
<1> QED BY <1>3, <1>4 DEF OtherStep, Requeue, RemoveGet, RemoveRecord, RemoveAll, RemovePart, Crash

LEMMA OthersKeepOwned ==
  ASSUME OwnedInv, (\E d \in Downloads : OtherStep(d)) \/ Crash
  PROVE  Freed' /\ Marked' /\ Held'
<1> USE DEF OwnedInv, WholeInv
<1>0. rm \in [Downloads -> Removal] /\ rec \in [Downloads -> Entry]
  BY DEF TypeOK
<1>1. \A e \in Downloads : run'[e] = run[e] \/ run'[e].pc = "idle"
  BY OthersMove
<1>2. \A e \in Downloads : \/ rec'[e] = rec[e]
                           \/ /\ run[e].pc = "idle" /\ run'[e].pc = "idle"
                              /\ rec'[e].status = "queued" /\ ~Gone(e)
                           \/ Gone(e)'
  <2>1. ASSUME NEW e \in Downloads, Requeue(e)
        PROVE  run[e].pc = "idle" /\ run' = run /\ rec'[e].status = "queued" /\ ~Gone(e)
               /\ \A f \in Downloads : f # e => rec'[f] = rec[f]
    BY <1>0, <2>1 DEF Requeue, Gone, Entry
  <2>2. ASSUME NEW e \in Downloads, RemoveRecord(e)
        PROVE  Gone(e)' /\ \A f \in Downloads : f # e => rec'[f] = rec[f]
    BY <1>0, <2>2 DEF RemoveRecord, Gone, Entry
  <2>3. CASE rec' = rec
    BY <2>3
  <2> QED BY <2>1, <2>2, <2>3 DEF OtherStep, RemoveGet, RemoveAll, RemovePart, RemoveFinal, Crash
<1>3. Freed'
  <2>1. clashed' = clashed /\ \A q \in DOMAIN dir' : q \in DOMAIN dir
    BY OthersMove
  <2> QED BY <1>1, <2>1 DEF Freed, Heading
<1>4. Marked'
  BY <1>1, <1>2 DEF Marked, Gone
<1>5. ASSUME NEW e \in Downloads, ~Gone(e)'
      PROVE  /\ run'[e].pc = "idle" /\ rec'[e].status = "completed"
                  => Holds(e, rec[e].name, Fit(e))'
             /\ run'[e].pc \in {"clean", "verify"} => Holds(e, run[e].name, BOOLEAN)'
             /\ run'[e].pc = "complete" => Holds(e, run[e].name, Fit(e))'
  <2>0. ~Gone(e)
    BY <1>5, OthersMove
  <2>1. ASSUME run'[e].pc = "idle", rec'[e].status = "completed"
        PROVE  Holds(e, rec[e].name, Fit(e))'
    <3>1. rec'[e] = rec[e] /\ rec[e].status = "completed" /\ run[e].pc = "idle"
      BY <1>2, <1>5, <2>1 DEF Marked
    <3>2. PICK n : n = rec[e].name
      OBVIOUS
    <3>3. Holds(e, n, Fit(e))
      BY <2>0, <3>1, <3>2 DEF Held
    <3>4. Holds(e, n, Fit(e))'
      BY <1>5, <3>3, HeldThrough
    <3> QED BY <3>1, <3>2, <3>4
  <2>2. ASSUME run'[e].pc \in {"clean", "verify"}
        PROVE  Holds(e, run[e].name, BOOLEAN)'
    <3>1. run'[e] = run[e]
      BY <1>1, <2>2
    <3>2. PICK n : n = run[e].name
      OBVIOUS
    <3>3. Holds(e, n, BOOLEAN)
      BY <2>0, <2>2, <3>1, <3>2 DEF Held
    <3>4. Holds(e, n, BOOLEAN)'
      BY <1>5, <3>3, HeldThrough
    <3> QED BY <3>1, <3>2, <3>4
  <2>3. ASSUME run'[e].pc = "complete"
        PROVE  Holds(e, run[e].name, Fit(e))'
    <3>1. run'[e] = run[e]
      BY <1>1, <2>3
    <3>2. PICK n : n = run[e].name
      OBVIOUS
    <3>3. Holds(e, n, Fit(e))
      BY <2>0, <2>3, <3>1, <3>2 DEF Held
    <3>4. Holds(e, n, Fit(e))'
      BY <1>5, <3>3, HeldThrough
    <3> QED BY <3>1, <3>2, <3>4
  <2> QED BY <2>1, <2>2, <2>3
<1>6. Held'
  BY <1>5 DEF Held
<1> QED BY <1>3, <1>4, <1>6

LEMMA OwnedInvInductive == Spec => []OwnedInv
<1>1. Init => OwnedInv
  <2> SUFFICES ASSUME Init PROVE OwnedInv
    OBVIOUS
  <2>1. \A d \in Downloads : run[d].pc = "idle" /\ rec[d].status = "queued"
    BY DEF Init, Idle
  <2> QED BY <2>1, InitiallyWhole DEF OwnedInv, Freed, Marked, Held, Heading
<1>2. OwnedInv /\ [Next]_vars => OwnedInv'
  <2> SUFFICES ASSUME OwnedInv, [Next]_vars PROVE OwnedInv'
    OBVIOUS
  <2>0. WholeInv'
    BY WholeInvStep DEF OwnedInv
  <2>1. ASSUME NEW d \in Downloads, RunnerStep(d) PROVE OwnedInv'
    BY <2>0, <2>1, RunnersKeepOwned DEF OwnedInv
  <2>2. ASSUME NEW d \in Downloads, OtherStep(d) PROVE OwnedInv'
    BY <2>0, <2>2, OthersKeepOwned DEF OwnedInv
  <2>3. CASE Crash
    BY <2>0, <2>3, OthersKeepOwned DEF OwnedInv
  <2>4. CASE UNCHANGED vars
    <3>1. Freed' /\ Marked'
      BY <2>4 DEF vars, OwnedInv, Freed, Marked
    <3>2. ASSUME NEW e \in Downloads, NEW CONSTANT n, NEW CONSTANT f, Holds(e, n, f)
          PROVE  Holds(e, n, f)'
      BY <2>4, <3>2 DEF vars, Holds, ExcusedAt, Has, Exists, PiecesOf
    <3>3. ASSUME NEW e \in Downloads, ~Gone(e)'
          PROVE  /\ run'[e].pc = "idle" /\ rec'[e].status = "completed"
                      => Holds(e, rec[e].name, Fit(e))'
                 /\ run'[e].pc \in {"clean", "verify"} => Holds(e, run[e].name, BOOLEAN)'
                 /\ run'[e].pc = "complete" => Holds(e, run[e].name, Fit(e))'
      <4>1. run' = run /\ rec' = rec /\ ~Gone(e)
        BY <2>4, <3>3 DEF vars, Gone
      <4>2. PICK n, m : n = rec[e].name /\ m = run[e].name
        OBVIOUS
      <4>3. /\ run[e].pc = "idle" /\ rec[e].status = "completed" => Holds(e, n, Fit(e))
            /\ run[e].pc \in {"clean", "verify"} => Holds(e, m, BOOLEAN)
            /\ run[e].pc = "complete" => Holds(e, m, Fit(e))
        BY <4>1, <4>2 DEF OwnedInv, Held
      <4> QED BY <3>2, <4>1, <4>2, <4>3
    <3>4. Held'
      BY <3>3 DEF Held
    <3> QED BY <2>0, <3>1, <3>4 DEF OwnedInv
  <2> QED BY <2>1, <2>2, <2>3, <2>4 DEF Next, RunnerStep, OtherStep
<1> QED BY <1>1, <1>2, PTL DEF Spec

LEMMA OwnedIsOwned == OwnedInv => CompletedOwnsFile
<1> SUFFICES ASSUME OwnedInv, NEW d \in Downloads, rec[d].status = "completed",
                    run[d].pc = "idle", ~Excused(d), rec[d].name \notin clashed
             PROVE  OwnsFile(d)
  BY DEF CompletedOwnsFile
<1>1. ~ExcusedAt(d, rec[d].name)
  BY DEF Excused, ExcusedAt
<1>2. Has(d, rec[d].name, Fit(d))
  BY <1>1 DEF OwnedInv, Held, Gone, Holds
<1>3. PICK good \in Fit(d) : data[dir[rec[d].name]] = Whole(d, good)
  BY <1>2 DEF Has
<1>4. good \in BOOLEAN /\ (d \in Checked => good)
  BY <1>3 DEF Fit
<1> QED BY <1>2, <1>3, <1>4 DEF Has, OwnsFile

\* However many merges run at the same time, a completed download keeps its own
\* file under the name in its record, the right one if it has a checksum, until
\* a download that overwrites, the removal of another download of that name, or
\* a merge that was heading for the name at the same time takes it
\* (filestore.go:89-117, runner.go:396-404).
THEOREM CompletedFilesOwned == Spec => []CompletedOwnsFile
BY OwnedInvInductive, OwnedIsOwned, PTL

-----------------------------------------------------------------------------
(* Where merges do not clash *)

\* Without a clash nothing is left out, and the file of a completed download is
\* safe from all that spare it.
LEMMA NoClashNoLoss == clashed = {} /\ CompletedOwnsFile => EachKeepsItsFile
BY DEF CompletedOwnsFile, EachKeepsItsFile

OneRunner == \A d, e \in Downloads : run[d].pc # "idle" /\ run[e].pc # "idle" => d = e

LEMMA OneRunnerStep ==
  ASSUME AtOnce <= 1, TypeOK, OneRunner, clashed = {}, [Next]_vars
  PROVE  OneRunner' /\ clashed' = {}
<1>1. ASSUME NEW d \in Downloads, RunnerStep(d) PROVE OneRunner' /\ clashed' = {}
  <2>0. \A e \in Downloads : e # d => run'[e] = run[e]
    BY <1>1, OthersStay
  <2>1. CASE Start(d)
    <3>1. Cardinality(Running) < AtOnce /\ clashed' = clashed
      BY <2>1 DEF Start
    <3>2. Running = {} \/ \E e \in Downloads : Running = {e}
      BY DEF OneRunner, Running
    <3>3. IsFiniteSet(Running)
      BY <3>2, FS_EmptySet, FS_Singleton
    <3>4. Cardinality(Running) = 0
      BY <3>1, <3>3, FS_CardinalityType, MergingAssumption
    <3>5. Running = {}
      BY <3>3, <3>4, FS_EmptySet
    <3> QED BY <2>0, <3>1, <3>5 DEF OneRunner, Running
  <2>2. CASE ~Start(d)
    <3>1. run[d].pc # "idle"
      BY <1>1, <2>2 DEF RunnerStep, FetchPart, FetchError, ListParts, Stat, Probe, Clear, Create,
                        CopyPart, Rename, CleanUp, Verify, Finish
    <3>2. OneRunner'
      BY <2>0, <3>1 DEF OneRunner
    <3>3. \A e \in Downloads \ {d} : run[e].pc \notin Heading
      BY <3>1 DEF OneRunner, Heading
    <3>4. ASSUME NEW name, SetOut(d, name) PROVE clashed' = clashed
      BY <3>3, <3>4 DEF SetOut
    <3>5. clashed' = clashed
      <4>1. CASE Stat(d)
        BY <3>4, <4>1 DEF Stat
      <4>2. CASE Probe(d)
        BY <3>4, <4>2 DEF Probe
      <4> QED BY <1>1, <4>1, <4>2 DEF RunnerStep, Start, FetchPart, FetchError, ListParts, Clear,
                                      Create, CopyPart, Rename, CleanUp, Verify, Finish
    <3> QED BY <3>2, <3>5
  <2> QED BY <2>1, <2>2
<1>2. ASSUME NEW d \in Downloads, OtherStep(d) PROVE OneRunner' /\ clashed' = {}
  BY <1>2 DEF OneRunner, OtherStep, Requeue, RemoveGet, RemoveRecord, RemoveAll, RemovePart,
              RemoveFinal
<1>3. CASE Crash
  BY <1>3 DEF Crash, OneRunner, Idle
<1>4. CASE UNCHANGED vars
  BY <1>4 DEF vars, OneRunner
<1> QED BY <1>1, <1>2, <1>3, <1>4 DEF Next, RunnerStep, OtherStep

\* With one runner at a time merges never clash, so that no name is left out: a
\* completed download keeps its file from every download that spares existing
\* files, as the documentation of unique_filename and overwrite has it
\* (README.md:193, filestore.go:89-109).
THEOREM OneAtATimeSafe ==
  ASSUME AtOnce <= 1
  PROVE  Spec => [](clashed = {} /\ FinalsWhole /\ EachKeepsItsFile)
<1>1. Init => OneRunner /\ clashed = {}
  BY DEF Init, OneRunner, Idle
<1>2. TypeOK /\ OneRunner /\ clashed = {} /\ [Next]_vars => OneRunner' /\ (clashed = {})'
  BY OneRunnerStep
<1> QED
  BY <1>1, <1>2, MergingTypes, FinalFilesWhole, CompletedFilesOwned, NoClashNoLoss, PTL DEF Spec

\* The downloads ask for different names: no two have the base name in common.
DifferentNames ==
  /\ \A d \in Downloads : Requested[d] # <<>>
  /\ \A d, e \in Downloads : d # e => Requested[d][1] # Requested[e][1]

\* A download keeps to the candidates of the name it asks for.
SameBase(d, name) == name \in Path /\ name # <<>> /\ name[1] = Requested[d][1]

BasesKept ==
  \A d \in Downloads : /\ SameBase(d, rec[d].name)
                       /\ run[d].pc # "idle" => SameBase(d, run[d].name)

LEMMA BasesKeptStep ==
  ASSUME TypeOK, BasesKept, [Next]_vars
  PROVE  BasesKept'
<1>0. run \in [Downloads -> Runner] /\ rec \in [Downloads -> Entry]
  BY DEF TypeOK
<1>1. ASSUME NEW d \in Downloads, RunnerStep(d) PROVE BasesKept'
  <2>0. \A e \in Downloads : e # d => run'[e] = run[e] /\ rec'[e] = rec[e]
    BY <1>1, OthersStay, RecordMoves
  <2>1. CASE Start(d)
    <3>1. PICK good \in BOOLEAN :
            run' = [run EXCEPT ![d] = [Idle EXCEPT !.pc = "fetch", !.todo = 1..Parts,
                                                   !.name = rec[d].name, !.good = good]]
      BY <2>1 DEF Start
    <3>2. run'[d].name = rec[d].name /\ rec'[d].name = rec[d].name
      BY <1>0, <2>1, <3>1 DEF Start, Idle, Entry
    <3> QED BY <2>0, <3>2 DEF BasesKept
  <2>2. CASE Finish(d)
    <3>1. rec'[d].name = rec[d].name \/ rec'[d].name = run[d].name
      <4>1. ~Start(d)
        BY <2>2 DEF Start, Finish
      <4> QED BY <1>1, <4>1, RecordMoves
    <3>2. run[d].pc # "idle" /\ run'[d].pc = "idle"
      BY <2>2, RunnerMoves DEF Finish
    <3> QED BY <2>0, <3>1, <3>2 DEF BasesKept
  <2>3. CASE Probe(d)
    <3> DEFINE candidate == Append(run[d].name, run[d].try)
    <3>0. run[d].pc # "idle" /\ rec' = rec
      BY <2>3 DEF Probe
    <3>1. SameBase(d, run[d].name) /\ run[d].try \in Nat
      BY <1>0, <3>0 DEF BasesKept, Runner
    <3>2. SameBase(d, candidate)
      BY <3>1 DEF SameBase, Path
    <3>3. run'[d].name = run[d].name \/ run'[d].name = candidate
      BY <1>0, <2>3 DEF Probe, SetOut, Runner
    <3> QED BY <2>0, <3>0, <3>1, <3>2, <3>3 DEF BasesKept
  <2>4. CASE ~Start(d) /\ ~Finish(d) /\ ~Probe(d)
    <3>1. rec' = rec
      BY <1>1, <2>4, RecordMoves
    <3>2. run[d].pc # "idle" /\ run'[d].name = run[d].name
      <4>0. run[d] \in Runner
        BY <1>0
      <4>1. CASE FetchPart(d) \/ FetchError(d) \/ ListParts(d)
        BY <1>0, <4>0, <4>1 DEF FetchPart, FetchError, ListParts, Goto, Runner
      <4>2. CASE Stat(d)
        BY <1>0, <4>0, <4>2 DEF Stat, SetOut, Goto, Runner
      <4>3. CASE Clear(d) \/ Create(d) \/ CopyPart(d)
        BY <4>3, RunnerMoves
      <4>4. CASE Rename(d) \/ CleanUp(d) \/ Verify(d)
        BY <1>0, <4>0, <4>4 DEF Rename, CleanUp, Verify, Goto, Runner
      <4> QED BY <1>1, <2>4, <4>1, <4>2, <4>3, <4>4 DEF RunnerStep
    <3> QED BY <2>0, <3>1, <3>2 DEF BasesKept
  <2> QED BY <2>1, <2>2, <2>3, <2>4
<1>2. ASSUME NEW d \in Downloads, OtherStep(d) PROVE BasesKept'
  <2>1. run' = run /\ \A e \in Downloads : rec'[e].name = rec[e].name
    BY <1>0, <1>2 DEF OtherStep, Requeue, RemoveGet, RemoveRecord, RemoveAll, RemovePart,
                      RemoveFinal, Entry
  <2> QED BY <2>1 DEF BasesKept
<1>3. CASE Crash
  BY <1>3 DEF Crash, BasesKept, Idle
<1>4. CASE UNCHANGED vars
  BY <1>4 DEF vars, BasesKept
<1> QED BY <1>1, <1>2, <1>3, <1>4 DEF Next, RunnerStep, OtherStep

LEMMA BasesDoNotClash ==
  ASSUME DifferentNames, TypeOK, BasesKept, BasesKept', clashed = {}, [Next]_vars
  PROVE  clashed' = {}
<1>1. ASSUME NEW d \in Downloads, NEW name, SetOut(d, name) PROVE clashed' = clashed
  <2>1. run'[d].pc = "clear" /\ run'[d].name = name
    BY <1>1 DEF SetOut, TypeOK, Runner
  <2>2. SameBase(d, name)
    BY <2>1 DEF BasesKept
  <2>3. ASSUME NEW e \in Downloads \ {d}, run[e].pc \in Heading PROVE run[e].name # name
    BY <2>2, <2>3 DEF BasesKept, Heading, SameBase, DifferentNames
  <2> QED BY <1>1, <2>3 DEF SetOut
<1>2. ASSUME NEW d \in Downloads, RunnerStep(d) PROVE clashed' = clashed
  BY <1>1, <1>2 DEF RunnerStep, Start, FetchPart, FetchError, ListParts, Stat, Probe, Clear,
                    Create, CopyPart, Rename, CleanUp, Verify, Finish
<1>3. ASSUME NEW d \in Downloads, OtherStep(d) PROVE clashed' = clashed
  BY <1>3 DEF OtherStep, Requeue, RemoveGet, RemoveRecord, RemoveAll, RemovePart, RemoveFinal
<1>4. CASE Crash \/ UNCHANGED vars
  BY <1>4 DEF Crash, vars
<1> QED BY <1>2, <1>3, <1>4 DEF Next, RunnerStep, OtherStep

\* However many merges run at the same time, downloads that ask for different
\* names do not get in each other's way: no two ever head for the same name, so
\* that every final file is whole and every completed download owns its own
\* (filestore.go:89-117).
THEOREM DifferentNamesSafe ==
  ASSUME DifferentNames
  PROVE  Spec => [](clashed = {} /\ FinalsWhole /\ EachKeepsItsFile)
<1>1. Init => BasesKept /\ clashed = {}
  BY MergingAssumption DEF Init, BasesKept, SameBase, DifferentNames, Idle, Path
<1>2. TypeOK /\ BasesKept /\ clashed = {} /\ [Next]_vars => BasesKept' /\ (clashed = {})'
  BY BasesKeptStep, BasesDoNotClash
<1> QED
  BY <1>1, <1>2, MergingTypes, FinalFilesWhole, CompletedFilesOwned, NoClashNoLoss, PTL DEF Spec
=============================================================================
