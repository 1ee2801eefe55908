-------------------------- MODULE RepositoryProofs --------------------------
(***************************************************************************)
(* Proofs about Repository: the type invariant, and that the secondary     *)
(* indexes agree with the records of every download that is not in doubt,  *)
(* and lists over them find it once, for any number of downloads, queues,  *)
(* statuses and bulk operations.                                           *)
(***************************************************************************)
EXTENDS Repository, FiniteSetTheorems, TLAPS

\* What an operation in flight is like after others have written S.
LEMMA OvertakeFacts ==
  ASSUME TypeOK, NEW S \in SUBSET Ids, NEW C, NEW x \in Clients
  PROVE  LET o == Overtake(S, C)[x] IN
         /\ o \in OpRec
         /\ o.pc = op[x].pc /\ o.kind = op[x].kind /\ o.queue = op[x].queue
         /\ o.to = op[x].to /\ o.ids = op[x].ids /\ o.copy = op[x].copy
         /\ o.old = op[x].old
         /\ op[x].over \subseteq o.over
         /\ x \notin C /\ op[x].pc \in {"unindex", "write"} => S \subseteq o.over
BY DEF TypeOK, OpRec, Overtake

LEMMA RestrictedType ==
  ASSUME NEW f \in Copies, NEW S
  PROVE  /\ Restricted(f, S) \in Copies
         /\ \A id \in Ids \cap S : Restricted(f, S)[id] = f[id]
BY DEF Restricted, Copies

LEMMA NoOpType == NoOp \in OpRec
BY RepositoryAssumption DEF NoOp, OpRec, NoRecords, Copies

\* What a bulk operation makes of a listed record is a record, or none.
LEMMA ChangedType ==
  ASSUME TypeOK, OpShape, NEW c \in Clients, op[c].pc # "idle", NEW id \in op[c].ids
  PROVE  /\ Changed(op[c], op[c].copy[id]) \in Record \cup {NoRecord}
         /\ op[c].kind # "delete" => Changed(op[c], op[c].copy[id]) \in Record
         /\ op[c].kind = "delete" => Changed(op[c], op[c].copy[id]) = NoRecord
<1> DEFINE o == op[c]
           r == o.copy[id]
<1>1. o \in OpRec /\ id \in Ids /\ o.kind \in AllKinds /\ o.to \in Targets(o.kind)
  BY DEF TypeOK, OpRec, OpShape
<1>2. o.kind # "delete" => r \in Record
  BY <1>1 DEF OpShape, OpRec, Copies
<1>3. CASE o.kind = "delete"
  BY <1>3 DEF Changed
<1>4. CASE o.kind = "reassign"
  <2>1. o.to \in Queues
    BY <1>1, <1>4 DEF Targets
  <2>2. Changed(o, r) = [r EXCEPT !.queue = o.to]
    BY <1>4 DEF Changed
  <2> QED BY <1>2, <1>4, <2>1, <2>2 DEF Record
<1>5. CASE o.kind = "status"
  <2>1. o.to \in Statuses
    BY <1>1, <1>5 DEF Targets
  <2>2. Changed(o, r) = [r EXCEPT !.status = o.to]
    BY <1>5 DEF Changed
  <2> QED BY <1>2, <1>5, <2>1, <2>2 DEF Record
<1>6. CASE o.kind = "priority"
  BY <1>2, <1>6 DEF Changed
<1> QED BY <1>1, <1>3, <1>4, <1>5, <1>6 DEF AllKinds

----------------------------------------------------------------------------
(* The shape of the state.                                                 *)

\* The keys of records are pairs of a status or a queue and a download.
LEMMA KeysType ==
  ASSUME NEW f \in Copies, NEW S \in SUBSET Ids, \A id \in S : f[id] # NoRecord
  PROVE  /\ StatusKeys(f, S) \subseteq Statuses \X Ids
         /\ QueueKeys(f, S) \subseteq Queues \X Ids
<1>1. \A id \in S : f[id] \in Record
  BY DEF Copies
<1>2. \A id \in S : f[id].status \in Statuses /\ f[id].queue \in Queues \cup {NoQueue}
  BY <1>1 DEF Record
<1> QED BY <1>2 DEF StatusKeys, QueueKeys

ShapeInv == TypeOK /\ OpShape /\ UsedShape

LEMMA ShapeInit == Init => ShapeInv
<1> SUFFICES ASSUME Init PROVE ShapeInv
  OBVIOUS
<1>1. NoRecords \in Copies /\ \A id \in Ids : NoRecords[id] = NoRecord
  BY DEF NoRecords, Copies
<1>2. TypeOK
  BY <1>1, NoOpType, RepositoryAssumption DEF Init, TypeOK
<1>3. \A c \in Clients : op[c] = NoOp
  BY DEF Init
<1>4. NoOp.pc = "idle" /\ NoOp.ids = {}
  BY DEF NoOp
<1>5. OpShape
  BY <1>3, <1>4 DEF OpShape
<1>6. UsedShape
  BY <1>1 DEF Init, UsedShape, Present
<1> QED BY <1>2, <1>5, <1>6 DEF ShapeInv

LEMMA ShapeCreate ==
  ASSUME ShapeInv, NEW id \in Ids, NEW q \in Queues, CreateDownload(id, q)
  PROVE  ShapeInv'
<1> DEFINE r == [status |-> "queued", queue |-> q]
<1>1. r \in Record /\ r # NoRecord
  BY RepositoryAssumption DEF Record
<1>2. d' = [d EXCEPT ![id] = r] /\ d \in Copies
  BY DEF CreateDownload, ShapeInv, TypeOK
<1>3. d' \in Copies /\ d'[id] = r /\ \A i \in Ids : i # id => d'[i] = d[i]
  BY <1>1, <1>2 DEF Copies
<1>4. StatusKeys(d', {id}) \subseteq Statuses \X Ids /\ QueueKeys(d', {id}) \subseteq Queues \X Ids
  BY <1>1, <1>3, KeysType
<1>5. TypeOK'
  BY <1>3, <1>4 DEF CreateDownload, ShapeInv, TypeOK
<1>6. OpShape'
  BY DEF CreateDownload, ShapeInv, OpShape
<1>7. \A e \in QueueKeys(d', {id}) : e[2] = id
  BY DEF QueueKeys
<1>8. UsedShape'
  BY <1>3, <1>7 DEF CreateDownload, ShapeInv, UsedShape, Present
<1> QED BY <1>5, <1>6, <1>8 DEF ShapeInv

\* OpShape survives a write of others.
LEMMA OvertakenShape ==
  ASSUME ShapeInv, NEW S \in SUBSET Ids, op' = Overtake(S, {}), used' = used
  PROVE  op' \in [Clients -> OpRec] /\ OpShape'
<1>1. DOMAIN Overtake(S, {}) = Clients
  BY DEF Overtake
<1>2. \A x \in Clients : LET o == op'[x] IN
         /\ o \in OpRec
         /\ o.pc = op[x].pc /\ o.kind = op[x].kind
         /\ o.to = op[x].to /\ o.ids = op[x].ids /\ o.copy = op[x].copy
         /\ o.old = op[x].old
  BY OvertakeFacts, ZenonT(30) DEF ShapeInv
<1>3. op' \in [Clients -> OpRec]
  BY <1>2 DEF Overtake
<1>4. OpShape'
  BY <1>2 DEF ShapeInv, OpShape
<1> QED BY <1>3, <1>4

LEMMA ShapeUpdate ==
  ASSUME ShapeInv, NEW id \in Ids, NEW r \in Record, UpdateDownload(id, r)
  PROVE  ShapeInv'
<1>1. r # NoRecord
  BY RepositoryAssumption
<1>2. d' = [d EXCEPT ![id] = r] /\ d \in Copies
  BY DEF UpdateDownload, ShapeInv, TypeOK
<1>3. d' \in Copies /\ d'[id] = r /\ \A i \in Ids : i # id => d'[i] = d[i]
  BY <1>1, <1>2 DEF Copies
<1>4. StatusKeys(d', {id}) \subseteq Statuses \X Ids /\ QueueKeys(d', {id}) \subseteq Queues \X Ids
  BY <1>1, <1>3, KeysType
<1>5. op' \in [Clients -> OpRec] /\ OpShape'
  BY OvertakenShape DEF UpdateDownload
<1>6. TypeOK'
  BY <1>3, <1>4, <1>5 DEF UpdateDownload, ShapeInv, TypeOK
<1>7. \A e \in QueueKeys(d', {id}) : e[2] = id
  BY DEF QueueKeys
<1>8. id \in used
  BY DEF UpdateDownload, ShapeInv, UsedShape
<1>9. UsedShape'
  BY <1>3, <1>7, <1>8 DEF UpdateDownload, ShapeInv, UsedShape, Present
<1> QED BY <1>5, <1>6, <1>9 DEF ShapeInv

LEMMA ShapeDelete ==
  ASSUME ShapeInv, NEW id \in Ids, DeleteDownload(id)
  PROVE  ShapeInv'
<1>1. d' = [d EXCEPT ![id] = NoRecord] /\ d \in Copies
  BY DEF DeleteDownload, ShapeInv, TypeOK
<1>2. d' \in Copies /\ d'[id] = NoRecord /\ \A i \in Ids : i # id => d'[i] = d[i]
  BY <1>1 DEF Copies
<1>3. op' \in [Clients -> OpRec] /\ OpShape'
  BY OvertakenShape DEF DeleteDownload
<1>4. TypeOK'
  BY <1>2, <1>3 DEF DeleteDownload, ShapeInv, TypeOK
<1>5. UsedShape'
  BY <1>2 DEF DeleteDownload, ShapeInv, UsedShape, Present
<1> QED BY <1>3, <1>4, <1>5 DEF ShapeInv

LEMMA ShapeList ==
  ASSUME ShapeInv, NEW c \in Clients, NEW kind \in Kinds, NEW q \in Queues,
         NEW to \in Targets(kind), BulkList(c, kind, q, to)
  PROVE  ShapeInv'
<1> DEFINE n == [NoOp EXCEPT !.pc = "view", !.kind = kind, !.queue = q, !.to = to,
                             !.ids = InIndex(q), !.copy = Restricted(d, InIndex(q))]
<1>1. op' = [op EXCEPT ![c] = n] /\ op \in [Clients -> OpRec] /\ d \in Copies
  BY DEF BulkList, ShapeInv, TypeOK
<1>2. InIndex(q) \subseteq Ids /\ InIndex(q) \subseteq used
  <2>1. InIndex(q) \subseteq Ids
    BY DEF InIndex
  <2>2. ASSUME NEW id \in InIndex(q) PROVE id \in used
    <3>1. PICK e \in dq : e[2] = id /\ <<q, e[1]>> \in PrefixOf
      BY <2>2 DEF InIndex
    <3>2. e[1] \in Queues /\ e[2] \in Ids /\ e = <<e[1], e[2]>>
      BY <3>1 DEF ShapeInv, TypeOK
    <3> QED BY <3>1, <3>2 DEF ShapeInv, UsedShape
  <2> QED BY <2>1, <2>2
<1>3. Restricted(d, InIndex(q)) \in Copies
      /\ \A id \in InIndex(q) : Restricted(d, InIndex(q))[id] = d[id]
  BY <1>1, <1>2, RestrictedType
<1>4. kind \in AllKinds /\ to \in Queues \cup Statuses \cup {NoQueue}
  BY RepositoryAssumption DEF Targets
<1>5. n \in OpRec
  BY <1>2, <1>3, <1>4, NoOpType DEF OpRec
<1>6. /\ n.pc = "view" /\ n.kind = kind /\ n.to = to /\ n.ids = InIndex(q)
      /\ n.copy = Restricted(d, InIndex(q))
  BY DEF NoOp
<1>7. kind # "delete" => \A id \in InIndex(q) : d[id] # NoRecord
  BY DEF BulkList, Present
<1> HIDE DEF n
<1>8. \A x \in Clients : op'[x] = IF x = c THEN n ELSE op[x]
  BY <1>1
<1>9. TypeOK'
  <2>1. op' \in [Clients -> OpRec]
    BY <1>1, <1>5
  <2>2. bulks' \in 0..MaxBulks
    BY RepositoryAssumption DEF BulkList, ShapeInv, TypeOK
  <2> QED BY <2>1, <2>2 DEF BulkList, ShapeInv, TypeOK, storeVars
<1>10. OpShape'
  <2> SUFFICES ASSUME NEW x \in Clients
               PROVE  /\ op'[x].ids \subseteq used'
                      /\ op'[x].pc # "idle" => op'[x].kind \in AllKinds /\ op'[x].to \in Targets(op'[x].kind)
                      /\ op'[x].pc # "idle" /\ op'[x].kind # "delete"
                            => \A id \in op'[x].ids : op'[x].copy[id] # NoRecord
                      /\ op'[x].pc \in {"unindex", "write"} => \A id \in op'[x].ids : op'[x].old[id] # NoRecord
    BY DEF OpShape, Targets
  <2>1. used' = used
    BY DEF BulkList
  <2>2. CASE x = c
    BY <1>2, <1>3, <1>4, <1>6, <1>7, <1>8, <2>1, <2>2
  <2>3. CASE x # c
    BY <1>8, <2>1, <2>3 DEF ShapeInv, OpShape
  <2> QED BY <2>2, <2>3
<1>11. UsedShape'
  BY DEF BulkList, ShapeInv, UsedShape, storeVars, Present
<1> QED BY <1>9, <1>10, <1>11 DEF ShapeInv

LEMMA ShapeEnd ==
  ASSUME ShapeInv, NEW c \in Clients, op' = [op EXCEPT ![c] = NoOp], used' = used
  PROVE  op' \in [Clients -> OpRec] /\ OpShape'
<1>1. op' \in [Clients -> OpRec]
  BY NoOpType DEF ShapeInv, TypeOK
<1>2. NoOp.pc = "idle" /\ NoOp.ids = {}
  BY DEF NoOp
<1>3. \A x \in Clients : op'[x] = IF x = c THEN NoOp ELSE op[x]
  BY DEF ShapeInv, TypeOK
<1>4. OpShape'
  BY <1>2, <1>3 DEF ShapeInv, OpShape
<1> QED BY <1>1, <1>4

LEMMA ShapeView ==
  ASSUME ShapeInv, NEW c \in Clients, BulkView(c)
  PROVE  ShapeInv'
<1>1. UsedShape' /\ (op' \in [Clients -> OpRec] => TypeOK')
  BY DEF BulkView, ShapeInv, UsedShape, storeVars, Present, TypeOK
<1>2. CASE ~ \A id \in op[c].ids : Present(id)
  <2>1. op' = [op EXCEPT ![c] = NoOp] /\ used' = used
    BY <1>2 DEF BulkView
  <2> QED BY <1>1, <2>1, ShapeEnd DEF ShapeInv
<1>3. CASE \A id \in op[c].ids : Present(id)
  <2> DEFINE f == Restricted(d, op[c].ids)
             n == [op[c] EXCEPT !.pc = "unindex", !.old = f]
  <2>1. op[c] \in OpRec /\ d \in Copies /\ op[c].ids \subseteq Ids
    BY DEF ShapeInv, TypeOK, OpRec
  <2>2. f \in Copies /\ \A id \in op[c].ids : f[id] = d[id]
    BY <2>1, RestrictedType
  <2>3. \A x \in Clients : op'[x] = IF x = c THEN n ELSE op[x]
    BY <1>3 DEF BulkView, ShapeInv, TypeOK
  <2>4. n \in OpRec
    BY <2>1, <2>2 DEF OpRec
  <2>5. /\ n.pc = "unindex" /\ n.kind = op[c].kind /\ n.to = op[c].to /\ n.ids = op[c].ids
        /\ n.copy = op[c].copy /\ n.old = f
    BY <2>1 DEF OpRec
  <2> HIDE DEF n
  <2>6. op' \in [Clients -> OpRec]
    <3>1. op' = [op EXCEPT ![c] = op'[c]]
      BY <1>3 DEF BulkView, ShapeInv, TypeOK
    <3> QED BY <2>3, <2>4, <3>1 DEF ShapeInv, TypeOK
  <2>7. \A id \in op[c].ids : f[id] # NoRecord
    BY <1>3, <2>2 DEF Present
  <2>8. op[c].pc = "view" /\ used' = used
    BY DEF BulkView
  <2> HIDE DEF f
  <2>9. OpShape'
    BY <2>3, <2>5, <2>7, <2>8 DEF ShapeInv, OpShape, Targets
  <2> QED BY <1>1, <2>6, <2>9 DEF ShapeInv
<1> QED BY <1>2, <1>3

LEMMA ShapeInterrupted ==
  ASSUME ShapeInv, NEW c \in Clients, BulkInterrupted(c)
  PROVE  ShapeInv'
<1>1. op' \in [Clients -> OpRec] /\ OpShape'
  BY ShapeEnd DEF BulkInterrupted
<1>2. op[c].ids \subseteq Ids
  BY DEF ShapeInv, TypeOK, OpRec
<1>3. TypeOK'
  BY <1>1, <1>2 DEF BulkInterrupted, ShapeInv, TypeOK, storeVars
<1>4. UsedShape'
  BY DEF BulkInterrupted, ShapeInv, UsedShape, storeVars, Present
<1> QED BY <1>1, <1>3, <1>4 DEF ShapeInv

\* Others' operations, and the type of all, after client c has written S.
LEMMA OthersFacts ==
  ASSUME TypeOK, NEW c \in Clients, NEW S \in SUBSET Ids, NEW n \in OpRec,
         op' = [Overtake(S, {c}) EXCEPT ![c] = n]
  PROVE  /\ op' \in [Clients -> OpRec]
         /\ op'[c] = n
         /\ \A x \in Clients \ {c} :
              /\ op'[x].pc = op[x].pc /\ op'[x].kind = op[x].kind /\ op'[x].to = op[x].to
              /\ op'[x].ids = op[x].ids /\ op'[x].copy = op[x].copy /\ op'[x].old = op[x].old
              /\ op[x].over \subseteq op'[x].over
              /\ op[x].pc \in {"unindex", "write"} => S \subseteq op'[x].over
<1> DEFINE o == Overtake(S, {c})
<1>1. o \in [Clients -> OpRec]
  BY OvertakeFacts DEF Overtake
<1>2. \A x \in Clients : op'[x] = IF x = c THEN n ELSE o[x]
  BY <1>1
<1>3. op' \in [Clients -> OpRec]
  BY <1>1
<1>4. \A x \in Clients \ {c} :
              /\ o[x].pc = op[x].pc /\ o[x].kind = op[x].kind /\ o[x].to = op[x].to
              /\ o[x].ids = op[x].ids /\ o[x].copy = op[x].copy /\ o[x].old = op[x].old
              /\ op[x].over \subseteq o[x].over
              /\ op[x].pc \in {"unindex", "write"} => S \subseteq o[x].over
  <2> SUFFICES ASSUME NEW x \in Clients, x \notin {c}
               PROVE  /\ o[x].pc = op[x].pc /\ o[x].kind = op[x].kind /\ o[x].to = op[x].to
                      /\ o[x].ids = op[x].ids /\ o[x].copy = op[x].copy /\ o[x].old = op[x].old
                      /\ op[x].over \subseteq o[x].over
                      /\ op[x].pc \in {"unindex", "write"} => S \subseteq o[x].over
    BY Zenon
  <2> QED BY DEF TypeOK, OpRec, Overtake
<1> HIDE DEF o
<1> QED BY <1>2, <1>3, <1>4, ZenonT(30)

\* The state of client c when it has removed the keys.
LEMMA UnindexFacts ==
  ASSUME ShapeInv, NEW c \in Clients, BulkUnindex(c)
  PROVE  /\ [op[c] EXCEPT !.pc = "write"] \in OpRec
         /\ op' = [Overtake(op[c].ids, {c}) EXCEPT ![c] = [op[c] EXCEPT !.pc = "write"]]
         /\ LET n == [op[c] EXCEPT !.pc = "write"] IN
            /\ n.pc = "write" /\ n.kind = op[c].kind /\ n.to = op[c].to /\ n.ids = op[c].ids
            /\ n.copy = op[c].copy /\ n.old = op[c].old /\ n.over = op[c].over
<1>1. op[c] \in OpRec
  BY DEF ShapeInv, TypeOK
<1>2. Overtake(op[c].ids, {c})[c] = op[c]
  BY DEF Overtake
<1> QED BY <1>1, <1>2 DEF BulkUnindex, OpRec

LEMMA ShapeUnindex ==
  ASSUME ShapeInv, NEW c \in Clients, BulkUnindex(c)
  PROVE  ShapeInv'
<1> DEFINE n == [op[c] EXCEPT !.pc = "write"]
<1>1. /\ n \in OpRec /\ op' = [Overtake(op[c].ids, {c}) EXCEPT ![c] = n]
      /\ n.pc = "write" /\ n.kind = op[c].kind /\ n.to = op[c].to /\ n.ids = op[c].ids
      /\ n.copy = op[c].copy /\ n.old = op[c].old
  BY UnindexFacts
<1> HIDE DEF n
<1>2. op[c].ids \in SUBSET Ids /\ TypeOK
  BY DEF ShapeInv, TypeOK, OpRec
<1>3. /\ op' \in [Clients -> OpRec]
      /\ op'[c] = n
      /\ \A x \in Clients \ {c} :
              /\ op'[x].pc = op[x].pc /\ op'[x].kind = op[x].kind /\ op'[x].to = op[x].to
              /\ op'[x].ids = op[x].ids /\ op'[x].copy = op[x].copy /\ op'[x].old = op[x].old
  BY <1>1, <1>2, OthersFacts
<1>4. op[c].pc = "unindex" /\ used' = used
  BY DEF BulkUnindex
<1>5. OpShape'
  <2> SUFFICES ASSUME NEW x \in Clients
               PROVE  /\ op'[x].ids \subseteq used'
                      /\ op'[x].pc # "idle" => op'[x].kind \in AllKinds /\ op'[x].to \in Targets(op'[x].kind)
                      /\ op'[x].pc # "idle" /\ op'[x].kind # "delete"
                            => \A id \in op'[x].ids : op'[x].copy[id] # NoRecord
                      /\ op'[x].pc \in {"unindex", "write"} => \A id \in op'[x].ids : op'[x].old[id] # NoRecord
    BY DEF OpShape, Targets
  <2>1. CASE x = c
    <3>1. /\ op[c].ids \subseteq used
          /\ op[c].kind \in AllKinds /\ op[c].to \in Targets(op[c].kind)
          /\ op[c].kind # "delete" => \A id \in op[c].ids : op[c].copy[id] # NoRecord
          /\ \A id \in op[c].ids : op[c].old[id] # NoRecord
      BY <1>4 DEF ShapeInv, OpShape
    <3>2. op'[x] = n
      BY <1>3, <2>1
    <3> QED BY <1>1, <1>4, <3>1, <3>2
  <2>2. CASE x # c
    BY <1>3, <1>4, <2>2 DEF ShapeInv, OpShape
  <2> QED BY <2>1, <2>2
<1>6. TypeOK'
  BY <1>3 DEF BulkUnindex, ShapeInv, TypeOK
<1>7. UsedShape'
  BY DEF BulkUnindex, ShapeInv, UsedShape, Present
<1> QED BY <1>5, <1>6, <1>7 DEF ShapeInv

\* What the batch of a bulk operation writes.
LEMMA WriteFacts ==
  ASSUME ShapeInv, NEW c \in Clients, BulkWrite(c)
  PROVE  LET kept == IF op[c].kind = "delete" THEN {} ELSE op[c].ids IN
         /\ d' \in Copies
         /\ kept \subseteq Ids
         /\ \A i \in kept : d'[i] \in Record
         /\ \A i \in op[c].ids \ kept : d'[i] = NoRecord
         /\ \A i \in Ids \ op[c].ids : d'[i] = d[i]
<1>1. \A i \in op[c].ids : /\ Changed(op[c], op[c].copy[i]) \in Record \cup {NoRecord}
                           /\ op[c].kind # "delete" => Changed(op[c], op[c].copy[i]) \in Record
                           /\ op[c].kind = "delete" => Changed(op[c], op[c].copy[i]) = NoRecord
  BY ChangedType DEF ShapeInv, BulkWrite
<1>2. d \in Copies /\ op[c].ids \subseteq Ids
  BY DEF ShapeInv, TypeOK, OpRec
<1>3. d' = [id \in Ids |-> IF id \in op[c].ids THEN Changed(op[c], op[c].copy[id]) ELSE d[id]]
  BY DEF BulkWrite
<1> QED BY <1>1, <1>2, <1>3 DEF Copies

LEMMA ShapeWrite ==
  ASSUME ShapeInv, NEW c \in Clients, BulkWrite(c)
  PROVE  ShapeInv'
<1> DEFINE kept == IF op[c].kind = "delete" THEN {} ELSE op[c].ids
<1>1. /\ d' \in Copies /\ kept \in SUBSET Ids
      /\ \A i \in kept : d'[i] \in Record
      /\ \A i \in op[c].ids \ kept : d'[i] = NoRecord
      /\ \A i \in Ids \ op[c].ids : d'[i] = d[i]
  BY WriteFacts
<1>2. \A i \in kept : d'[i] # NoRecord
  BY <1>1, RepositoryAssumption
<1>3. /\ dca' = dca \cup kept /\ dst' = dst \cup StatusKeys(d', kept)
      /\ dq' = dq \cup QueueKeys(d', kept) /\ used' = used /\ bulks' = bulks
      /\ loose' = loose \cup (op[c].ids \cap op[c].over)
  BY DEF BulkWrite
<1>4. kept \subseteq op[c].ids /\ op[c].ids \subseteq used /\ op[c].ids \in SUBSET Ids
  BY DEF ShapeInv, OpShape, TypeOK, OpRec
<1> HIDE DEF kept
<1>5. StatusKeys(d', kept) \subseteq Statuses \X Ids /\ QueueKeys(d', kept) \subseteq Queues \X Ids
  BY <1>1, <1>2, KeysType
<1>6. /\ op' \in [Clients -> OpRec]
      /\ op'[c] = NoOp
      /\ \A x \in Clients \ {c} :
              /\ op'[x].pc = op[x].pc /\ op'[x].kind = op[x].kind /\ op'[x].to = op[x].to
              /\ op'[x].ids = op[x].ids /\ op'[x].copy = op[x].copy /\ op'[x].old = op[x].old
  BY <1>4, NoOpType, OthersFacts DEF BulkWrite, ShapeInv
<1>7. NoOp.pc = "idle" /\ NoOp.ids = {}
  BY DEF NoOp
<1>8. OpShape'
  BY <1>3, <1>6, <1>7 DEF ShapeInv, OpShape, Targets
<1>9. TypeOK'
  BY <1>1, <1>3, <1>4, <1>5, <1>6 DEF ShapeInv, TypeOK
<1>10. UsedShape'
  <2>1. \A e \in QueueKeys(d', kept) : e[2] \in kept
    BY DEF QueueKeys
  <2> QED BY <1>1, <1>3, <1>4, <2>1 DEF ShapeInv, UsedShape, Present
<1> QED BY <1>8, <1>9, <1>10 DEF ShapeInv

LEMMA ShapeStep == ShapeInv /\ [Next]_vars => ShapeInv'
<1> SUFFICES ASSUME ShapeInv, [Next]_vars PROVE ShapeInv'
  OBVIOUS
<1>1. CASE UNCHANGED vars
  BY <1>1 DEF vars, ShapeInv, TypeOK, OpShape, UsedShape, Present
<1>2. ASSUME NEW c \in Clients, BulkStep(c) PROVE ShapeInv'
  BY <1>2, ShapeList, ShapeView, ShapeUnindex, ShapeWrite, ShapeInterrupted DEF BulkStep
<1>3. CASE Next
  BY <1>2, <1>3, ShapeCreate, ShapeUpdate, ShapeDelete DEF Next
<1> QED BY <1>1, <1>3

\* Whatever operations run at once, records, keys and the copies of bulk
\* operations keep their shape, and every record and queue key belongs to a
\* download that was created.
THEOREM RepositoryTypes == Spec => []TypeOK
<1>1. ShapeInv => TypeOK
  BY DEF ShapeInv
<1> QED BY <1>1, ShapeInit, ShapeStep, PTL DEF Spec

----------------------------------------------------------------------------
(* The indexes, one download at a time.                                    *)

InHand(c, i) == op[c].pc = "write" /\ i \in op[c].ids

OldAt(i) ==
  \A c \in Clients : op[c].pc \in {"unindex", "write"} /\ i \in op[c].ids /\ i \notin op[c].over
                       => op[c].old[i] = d[i]

ClearedAt(i) ==
  \A c \in Clients :
    /\ InHand(c, i) /\ i \notin op[c].over /\ i \notin loose
    /\ \A x \in Clients \ {c} : ~InHand(x, i)
    => NoKeys(i)

AgreesAt(i) == i \notin loose /\ (\A c \in Clients : ~InHand(c, i)) => KeysRight(i)

IndexAt(i) == OldAt(i) /\ ClearedAt(i) /\ AgreesAt(i)

FullInv == ShapeInv /\ \A i \in Ids : IndexAt(i)

\* Download by download, the invariant is the one the module states.
LEMMA DownloadByDownload ==
  ASSUME FullInv
  PROVE  IndexInv
<1>1. \A c \in Clients : op[c].ids \subseteq Ids
  BY DEF FullInv, ShapeInv, TypeOK, OpRec
<1>2. OldCurrent
  BY <1>1 DEF FullInv, IndexAt, OldAt, OldCurrent
<1>3. \A c \in Clients, i \in Ids : i \in Unindexed(c) <=> InHand(c, i)
  BY DEF Unindexed, InHand
<1>4. \A c \in Clients : Unindexed(c) \subseteq Ids
  BY <1>1 DEF Unindexed
<1>5. Cleared
  <2> SUFFICES ASSUME NEW c \in Clients, NEW id \in Unindexed(c) \ (op[c].over \cup loose),
                      \A x \in Clients \ {c} : id \notin Unindexed(x)
               PROVE  NoKeys(id)
    BY DEF Cleared
  <2>1. id \in Ids /\ InHand(c, id) /\ id \notin op[c].over /\ id \notin loose
    BY <1>3, <1>4
  <2>2. \A x \in Clients \ {c} : ~InHand(x, id)
    BY <1>3, <2>1
  <2> QED BY <2>1, <2>2 DEF FullInv, IndexAt, ClearedAt
<1>6. IndexAgrees
  <2> SUFFICES ASSUME NEW id \in Ids, id \notin Doubtful PROVE KeysRight(id)
    BY DEF IndexAgrees
  <2>1. id \notin loose /\ \A c \in Clients : ~InHand(c, id)
    BY <1>3 DEF Doubtful
  <2> QED BY <2>1 DEF FullInv, IndexAt, AgreesAt
<1> QED BY <1>2, <1>5, <1>6 DEF FullInv, ShapeInv, IndexInv

LEMMA IndexInit == Init => FullInv
<1> SUFFICES ASSUME Init PROVE FullInv
  OBVIOUS
<1>1. \A c \in Clients : op[c].pc = "idle"
  BY DEF Init, NoOp
<1>2. \A i \in Ids : KeysRight(i)
  BY DEF Init, KeysRight, Present, NoRecords
<1>3. \A i \in Ids : IndexAt(i)
  BY <1>1, <1>2 DEF IndexAt, OldAt, ClearedAt, AgreesAt, InHand
<1> QED BY <1>3, ShapeInit DEF FullInv

\* Which keys StatusKeys and QueueKeys hold.
LEMMA KeyMember ==
  ASSUME NEW f, NEW S, NEW i, NEW s
  PROVE  /\ <<s, i>> \in StatusKeys(f, S) <=> i \in S /\ f[i].status = s
         /\ <<s, i>> \in QueueKeys(f, S) <=> i \in S /\ f[i].queue = s /\ s # NoQueue
BY DEF StatusKeys, QueueKeys

\* A step that leaves the record and the keys of i alone.
Frame(i) ==
  /\ d'[i] = d[i]
  /\ i \in dca' <=> i \in dca
  /\ \A s \in Statuses : <<s, i>> \in dst' <=> <<s, i>> \in dst
  /\ \A q \in Queues : <<q, i>> \in dq' <=> <<q, i>> \in dq

\* Such a step keeps the invariant for i, if what has i in hand stays the same
\* unless i becomes loose, and what was read is current or overtaken.
LEMMA FrameAt ==
  ASSUME NEW i \in Ids, IndexAt(i), Frame(i), i \in loose => i \in loose',
         i \notin loose' => \A x \in Clients : InHand(x, i)' <=> InHand(x, i),
         \A x \in Clients : InHand(x, i)' /\ i \notin op'[x].over => i \notin op[x].over,
         \A x \in Clients : op'[x].pc \in {"unindex", "write"} /\ i \in op'[x].ids
                             /\ i \notin op'[x].over => op'[x].old[i] = d[i]
  PROVE  IndexAt(i)'
<1>1. (KeysRight(i) => KeysRight(i)') /\ (NoKeys(i) => NoKeys(i)')
  BY DEF Frame, KeysRight, NoKeys, Present
<1>2. OldAt(i)'
  BY DEF OldAt, Frame
<1>3. ClearedAt(i)'
  <2> SUFFICES ASSUME NEW c \in Clients, InHand(c, i)', i \notin op'[c].over, i \notin loose',
                      \A x \in Clients \ {c} : ~InHand(x, i)'
               PROVE  NoKeys(i)'
    BY DEF ClearedAt
  <2>1. InHand(c, i) /\ i \notin op[c].over /\ i \notin loose
    OBVIOUS
  <2>2. \A x \in Clients \ {c} : ~InHand(x, i)
    OBVIOUS
  <2> QED BY <1>1, <2>1, <2>2 DEF IndexAt, ClearedAt
<1>4. AgreesAt(i)'
  BY <1>1 DEF IndexAt, AgreesAt
<1> QED BY <1>2, <1>3, <1>4 DEF IndexAt

----------------------------------------------------------------------------
(* The actions, for each download.                                         *)

LEMMA IndexCreate ==
  ASSUME FullInv, NEW id \in Ids, NEW q \in Queues, CreateDownload(id, q), NEW i \in Ids
  PROVE  IndexAt(i)'
<1> DEFINE r == [status |-> "queued", queue |-> q]
<1>1. IndexAt(i) /\ d \in Copies /\ i \notin used => ~Present(i)
  BY DEF FullInv, ShapeInv, TypeOK, UsedShape
<1>2. /\ dca' = dca \cup {id} /\ dst' = dst \cup StatusKeys(d', {id})
      /\ dq' = dq \cup QueueKeys(d', {id}) /\ op' = op /\ loose' = loose /\ id \notin used
      /\ d' = [d EXCEPT ![id] = r]
  BY DEF CreateDownload
<1>3. CASE i # id
  <2>1. Frame(i)
    BY <1>2, <1>3, KeyMember DEF Frame, FullInv, ShapeInv, TypeOK, Copies
  <2>2. \A x \in Clients : InHand(x, i)' <=> InHand(x, i)
    BY <1>2 DEF InHand
  <2>3. \A x \in Clients : op'[x].pc \in {"unindex", "write"} /\ i \in op'[x].ids
                             /\ i \notin op'[x].over => op'[x].old[i] = d[i]
    BY <1>1, <1>2 DEF FullInv, IndexAt, OldAt
  <2> QED BY <1>1, <1>2, <2>1, <2>2, <2>3, FrameAt DEF FullInv
<1>4. CASE i = id
  <2>1. \A x \in Clients : i \notin op[x].ids /\ op'[x] = op[x]
    BY <1>2, <1>4 DEF FullInv, ShapeInv, OpShape
  <2>2. d'[i] = r /\ r.status = "queued" /\ r.queue = q /\ r # NoRecord
    BY <1>2, <1>4, RepositoryAssumption DEF FullInv, ShapeInv, TypeOK, Copies, Record
  <2>3. ASSUME i \notin loose PROVE KeysRight(i)'
    <3>1. KeysRight(i) /\ ~Present(i)
      BY <1>1, <1>2, <1>4, <2>1, <2>3 DEF FullInv, IndexAt, AgreesAt, InHand, ShapeInv, UsedShape
    <3>2. NoKeys(i)
      BY <3>1 DEF KeysRight, NoKeys
    <3> HIDE DEF r
    <3>3. \A s \in Statuses : <<s, i>> \in dst' <=> s = "queued"
      <4>1. \A s \in Statuses : <<s, i>> \in StatusKeys(d', {id}) <=> s = "queued"
        BY <1>4, <2>2, KeyMember
      <4> QED BY <1>2, <3>2, <4>1 DEF NoKeys
    <3>4. \A k \in Queues : <<k, i>> \in dq' <=> k = q
      <4>1. \A k \in Queues : <<k, i>> \in QueueKeys(d', {id}) <=> k = q
        BY <1>4, <2>2, KeyMember, RepositoryAssumption
      <4> QED BY <1>2, <3>2, <4>1 DEF NoKeys
    <3> QED BY <1>2, <1>4, <2>2, <3>3, <3>4 DEF KeysRight, Present
  <2> QED BY <1>2, <2>1, <2>3 DEF IndexAt, OldAt, ClearedAt, AgreesAt, InHand
<1> QED BY <1>3, <1>4

\* A write of S by a transaction: what others have in hand.
LEMMA OvertakenHands ==
  ASSUME FullInv, NEW S \in SUBSET Ids, op' = Overtake(S, {}), NEW i \in Ids
  PROVE  /\ \A x \in Clients : InHand(x, i)' <=> InHand(x, i)
         /\ \A x \in Clients : i \notin op'[x].over => i \notin op[x].over
         /\ \A x \in Clients : op'[x].pc \in {"unindex", "write"} /\ i \in op'[x].ids
                             /\ i \notin op'[x].over => op'[x].old[i] = d[i]
         /\ i \in S => \A x \in Clients : op'[x].pc \in {"unindex", "write"} => i \in op'[x].over
<1>1. \A x \in Clients : LET o == op'[x] IN
         /\ o.pc = op[x].pc /\ o.ids = op[x].ids /\ o.old = op[x].old
         /\ op[x].over \subseteq o.over
         /\ op[x].pc \in {"unindex", "write"} => S \subseteq o.over
  BY OvertakeFacts, ZenonT(30) DEF FullInv, ShapeInv
<1> QED BY <1>1 DEF FullInv, IndexAt, OldAt, InHand

LEMMA IndexUpdate ==
  ASSUME FullInv, NEW id \in Ids, NEW r \in Record, UpdateDownload(id, r), NEW i \in Ids
  PROVE  IndexAt(i)'
<1>1. /\ dca' = dca \cup {id} /\ dst' = (dst \ StatusKeys(d, {id})) \cup StatusKeys(d', {id})
      /\ dq' = (dq \ QueueKeys(d, {id})) \cup QueueKeys(d', {id})
      /\ op' = Overtake({id}, {}) /\ loose' = loose
      /\ d' = [d EXCEPT ![id] = r] /\ Present(id)
  BY DEF UpdateDownload
<1>2. /\ \A x \in Clients : InHand(x, i)' <=> InHand(x, i)
      /\ \A x \in Clients : i \notin op'[x].over => i \notin op[x].over
      /\ \A x \in Clients : op'[x].pc \in {"unindex", "write"} /\ i \in op'[x].ids
                             /\ i \notin op'[x].over => op'[x].old[i] = d[i]
      /\ i = id => \A x \in Clients : op'[x].pc \in {"unindex", "write"} => i \in op'[x].over
  BY <1>1, OvertakenHands
<1>3. CASE i # id
  <2>1. Frame(i)
    BY <1>1, <1>3, KeyMember DEF Frame, FullInv, ShapeInv, TypeOK, Copies
  <2> QED BY <1>1, <1>2, <2>1, FrameAt DEF FullInv
<1>4. CASE i = id
  <2>1. d'[i] = r /\ r # NoRecord /\ d[i] # NoRecord
    BY <1>1, <1>4, RepositoryAssumption DEF FullInv, ShapeInv, TypeOK, Copies, Present
  <2>2. ASSUME KeysRight(i) PROVE KeysRight(i)'
    <3>1. \A s \in Statuses : <<s, i>> \in dst' <=> s = r.status
      <4>1. \A s \in Statuses : /\ <<s, i>> \in StatusKeys(d, {id}) <=> d[i].status = s
                                /\ <<s, i>> \in StatusKeys(d', {id}) <=> r.status = s
        BY <1>4, <2>1, KeyMember
      <4> QED BY <1>1, <2>2, <4>1 DEF KeysRight
    <3>2. \A k \in Queues : <<k, i>> \in dq' <=> k = r.queue
      <4>1. \A k \in Queues : /\ <<k, i>> \in QueueKeys(d, {id}) <=> d[i].queue = k
                              /\ <<k, i>> \in QueueKeys(d', {id}) <=> r.queue = k
        BY <1>4, <2>1, KeyMember, RepositoryAssumption
      <4> QED BY <1>1, <2>2, <4>1 DEF KeysRight
    <3> QED BY <1>1, <1>4, <2>1, <3>1, <3>2 DEF KeysRight, Present
  <2>3. IndexAt(i)
    BY DEF FullInv
  <2> QED BY <1>1, <1>2, <1>4, <2>2, <2>3 DEF IndexAt, OldAt, ClearedAt, AgreesAt, InHand
<1> QED BY <1>3, <1>4

LEMMA IndexDelete ==
  ASSUME FullInv, NEW id \in Ids, DeleteDownload(id), NEW i \in Ids
  PROVE  IndexAt(i)'
<1>1. /\ dca' = dca \ {id} /\ dst' = dst \ StatusKeys(d, {id})
      /\ dq' = dq \ QueueKeys(d, {id})
      /\ op' = Overtake({id}, {}) /\ loose' = loose
      /\ d' = [d EXCEPT ![id] = NoRecord] /\ Present(id)
  BY DEF DeleteDownload
<1>2. /\ \A x \in Clients : InHand(x, i)' <=> InHand(x, i)
      /\ \A x \in Clients : i \notin op'[x].over => i \notin op[x].over
      /\ \A x \in Clients : op'[x].pc \in {"unindex", "write"} /\ i \in op'[x].ids
                             /\ i \notin op'[x].over => op'[x].old[i] = d[i]
      /\ i = id => \A x \in Clients : op'[x].pc \in {"unindex", "write"} => i \in op'[x].over
  BY <1>1, OvertakenHands
<1>3. CASE i # id
  <2>1. Frame(i)
    BY <1>1, <1>3, KeyMember DEF Frame, FullInv, ShapeInv, TypeOK, Copies
  <2> QED BY <1>1, <1>2, <2>1, FrameAt DEF FullInv
<1>4. CASE i = id
  <2>1. d'[i] = NoRecord /\ d[i] # NoRecord
    BY <1>1, <1>4 DEF FullInv, ShapeInv, TypeOK, Copies, Present
  <2>2. ASSUME KeysRight(i) PROVE KeysRight(i)'
    <3>1. \A s \in Statuses : <<s, i>> \notin dst'
      BY <1>1, <1>4, <2>1, <2>2, KeyMember DEF KeysRight, Present
    <3>2. \A k \in Queues : <<k, i>> \notin dq'
      BY <1>1, <1>4, <2>1, <2>2, KeyMember, RepositoryAssumption DEF KeysRight, Present
    <3> QED BY <1>1, <1>4, <2>1, <3>1, <3>2 DEF KeysRight, Present
  <2>3. IndexAt(i)
    BY DEF FullInv
  <2> QED BY <1>1, <1>2, <1>4, <2>2, <2>3 DEF IndexAt, OldAt, ClearedAt, AgreesAt, InHand
<1> QED BY <1>3, <1>4

\* The steps of a bulk operation that write no keys and no records.
LEMMA IndexReads ==
  ASSUME FullInv, NEW c \in Clients, UNCHANGED storeVars, NEW i \in Ids,
         \A x \in Clients \ {c} : op'[x] = op[x],
         i \in loose => i \in loose', InHand(c, i) => i \in loose',
         op'[c].pc # "write",
         op'[c].pc = "unindex" /\ i \in op'[c].ids => op'[c].old[i] = d[i]
  PROVE  IndexAt(i)'
<1>1. Frame(i)
  BY DEF Frame, storeVars
<1>2. \A x \in Clients : InHand(x, i)' => InHand(x, i) /\ x # c
  BY DEF InHand
<1>3. i \notin loose' => \A x \in Clients : InHand(x, i)' <=> InHand(x, i)
  BY DEF InHand
<1>4. \A x \in Clients : InHand(x, i)' /\ i \notin op'[x].over => i \notin op[x].over
  BY <1>2
<1>5. \A x \in Clients : op'[x].pc \in {"unindex", "write"} /\ i \in op'[x].ids
                         /\ i \notin op'[x].over => op'[x].old[i] = d[i]
  BY DEF FullInv, IndexAt, OldAt
<1> QED BY <1>1, <1>3, <1>4, <1>5, FrameAt DEF FullInv

LEMMA IndexList ==
  ASSUME FullInv, NEW c \in Clients, NEW kind \in Kinds, NEW q \in Queues,
         NEW to \in Targets(kind), BulkList(c, kind, q, to), NEW i \in Ids
  PROVE  IndexAt(i)'
<1>1. \A x \in Clients \ {c} : op'[x] = op[x]
  BY DEF BulkList, FullInv, ShapeInv, TypeOK
<1>2. op'[c].pc = "view"
  BY DEF BulkList, FullInv, ShapeInv, TypeOK, NoOp
<1>3. ~InHand(c, i)
  BY DEF BulkList, NoOp, InHand
<1> QED BY <1>1, <1>2, <1>3, IndexReads DEF BulkList

LEMMA IndexView ==
  ASSUME FullInv, NEW c \in Clients, BulkView(c), NEW i \in Ids
  PROVE  IndexAt(i)'
<1>1. op \in [Clients -> OpRec] /\ op[c] \in OpRec /\ op[c].ids \subseteq Ids /\ d \in Copies
  BY DEF FullInv, ShapeInv, TypeOK, OpRec
<1>2. \A x \in Clients \ {c} : op'[x] = op[x]
  BY <1>1 DEF BulkView
<1>3. op'[c] = NoOp \/ op'[c] = [op[c] EXCEPT !.pc = "unindex", !.old = Restricted(d, op[c].ids)]
  BY <1>1 DEF BulkView
<1>4. op'[c].pc # "write" /\ (op'[c].pc = "unindex" /\ i \in op'[c].ids => op'[c].old[i] = d[i])
  <2>1. \A id \in op[c].ids : Restricted(d, op[c].ids)[id] = d[id]
    BY <1>1, RestrictedType
  <2>2. CASE op'[c] = NoOp
    BY <2>2 DEF NoOp
  <2>3. CASE op'[c] = [op[c] EXCEPT !.pc = "unindex", !.old = Restricted(d, op[c].ids)]
    <3>1. /\ op'[c].pc = "unindex" /\ op'[c].ids = op[c].ids
          /\ op'[c].old = Restricted(d, op[c].ids)
      BY <1>1, <2>3 DEF OpRec
    <3> QED BY <2>1, <3>1
  <2> QED BY <1>3, <2>2, <2>3
<1>5. ~InHand(c, i)
  BY DEF BulkView, InHand
<1> QED BY <1>2, <1>4, <1>5, IndexReads DEF BulkView

LEMMA IndexInterrupted ==
  ASSUME FullInv, NEW c \in Clients, BulkInterrupted(c), NEW i \in Ids
  PROVE  IndexAt(i)'
<1>1. \A x \in Clients \ {c} : op'[x] = op[x]
  BY DEF BulkInterrupted, FullInv, ShapeInv, TypeOK
<1>2. op'[c].pc = "idle"
  BY DEF BulkInterrupted, FullInv, ShapeInv, TypeOK, NoOp
<1>3. (i \in loose => i \in loose') /\ (InHand(c, i) => i \in loose')
  BY DEF BulkInterrupted, InHand
<1> QED BY <1>1, <1>2, <1>3, IndexReads DEF BulkInterrupted

\* Removing the keys that were read: a download nobody has touched since has
\* then no key at all.
LEMMA IndexUnindex ==
  ASSUME FullInv, NEW c \in Clients, BulkUnindex(c), NEW i \in Ids
  PROVE  IndexAt(i)'
<1> DEFINE n == [op[c] EXCEPT !.pc = "write"]
<1>1. /\ n \in OpRec /\ op' = [Overtake(op[c].ids, {c}) EXCEPT ![c] = n]
      /\ n.pc = "write" /\ n.ids = op[c].ids /\ n.old = op[c].old /\ n.over = op[c].over
  BY UnindexFacts DEF FullInv
<1> HIDE DEF n
<1>2. op[c].ids \in SUBSET Ids /\ TypeOK /\ IndexAt(i)
  BY DEF FullInv, ShapeInv, TypeOK, OpRec
<1>3. /\ op'[c] = n
      /\ \A x \in Clients \ {c} :
              /\ op'[x].pc = op[x].pc /\ op'[x].ids = op[x].ids /\ op'[x].old = op[x].old
              /\ op[x].over \subseteq op'[x].over
              /\ op[x].pc \in {"unindex", "write"} => op[c].ids \subseteq op'[x].over
  BY <1>1, <1>2, OthersFacts, ZenonT(30)
<1>4. /\ op[c].pc = "unindex" /\ d' = d /\ loose' = loose /\ dca' = dca \ op[c].ids
      /\ dst' = dst \ StatusKeys(op[c].old, op[c].ids)
      /\ dq' = dq \ QueueKeys(op[c].old, op[c].ids)
  BY DEF BulkUnindex
<1>5. \A x \in Clients : op'[x].pc \in {"unindex", "write"} /\ i \in op'[x].ids
                         /\ i \notin op'[x].over => op'[x].old[i] = d[i]
  <2> SUFFICES ASSUME NEW x \in Clients, op'[x].pc \in {"unindex", "write"}, i \in op'[x].ids,
                      i \notin op'[x].over
               PROVE  op'[x].old[i] = d[i]
    OBVIOUS
  <2>1. OldAt(i)
    BY <1>2 DEF IndexAt
  <2>2. CASE x = c
    <3>1. op[c].pc \in {"unindex", "write"} /\ i \in op[c].ids /\ i \notin op[c].over
      BY <1>1, <1>3, <1>4, <2>2
    <3>2. op'[x].old = op[c].old
      BY <1>1, <1>3, <2>2
    <3> QED BY <2>1, <3>1, <3>2 DEF OldAt
  <2>3. CASE x # c
    <3>1. op[x].pc \in {"unindex", "write"} /\ i \in op[x].ids /\ i \notin op[x].over
      BY <1>3, <2>3
    <3> QED BY <1>3, <2>1, <2>3, <3>1 DEF OldAt
  <2> QED BY <2>2, <2>3
<1>6. CASE i \notin op[c].ids
  <2>1. Frame(i)
    BY <1>4, <1>6, KeyMember DEF Frame
  <2>2. \A x \in Clients : InHand(x, i)' <=> InHand(x, i)
    BY <1>1, <1>3, <1>4, <1>6 DEF InHand
  <2>3. \A x \in Clients : InHand(x, i)' /\ i \notin op'[x].over => i \notin op[x].over
    BY <1>1, <1>3, ZenonT(30)
  <2> QED BY <1>2, <1>4, <1>5, <2>1, <2>2, <2>3, FrameAt
<1>7. CASE i \in op[c].ids
  <2>1. InHand(c, i)'
    BY <1>1, <1>3, <1>7 DEF InHand
  <2>2. AgreesAt(i)' /\ OldAt(i)'
    BY <1>4, <1>5, <2>1 DEF AgreesAt, OldAt
  <2>3. ASSUME NEW x \in Clients \ {c}, InHand(x, i)' PROVE i \in op'[x].over
    BY <1>3, <1>7, <2>3 DEF InHand
  <2>4. ASSUME i \notin op[c].over, i \notin loose, \A x \in Clients \ {c} : ~InHand(x, i)'
        PROVE  NoKeys(i)'
    <3>1. \A x \in Clients : ~InHand(x, i)
      BY <1>3, <1>4, <2>4 DEF InHand
    <3>2. KeysRight(i)
      BY <1>2, <2>4, <3>1 DEF IndexAt, AgreesAt
    <3>3. op[c].old[i] = d[i]
      BY <1>2, <1>4, <1>7, <2>4 DEF IndexAt, OldAt
    <3>4. \A s \in Statuses : <<s, i>> \in StatusKeys(op[c].old, op[c].ids) <=> d[i].status = s
      BY <1>7, <3>3, KeyMember
    <3>5. \A q \in Queues : <<q, i>> \in QueueKeys(op[c].old, op[c].ids) <=> d[i].queue = q
      BY <1>7, <3>3, KeyMember, RepositoryAssumption
    <3> QED BY <1>4, <1>7, <3>2, <3>4, <3>5 DEF KeysRight, NoKeys
  <2>5. ClearedAt(i)'
    <3> SUFFICES ASSUME NEW x \in Clients, InHand(x, i)', i \notin op'[x].over, i \notin loose',
                        \A y \in Clients \ {x} : ~InHand(y, i)'
                 PROVE  NoKeys(i)'
      BY DEF ClearedAt
    <3>1. x = c
      BY <2>3
    <3>2. i \notin op[c].over /\ i \notin loose
      BY <1>1, <1>3, <1>4, <3>1
    <3> QED BY <2>4, <3>1, <3>2
  <2> QED BY <2>2, <2>5 DEF IndexAt
<1> QED BY <1>6, <1>7

\* Writing the changed records with their keys, where there were none.
LEMMA IndexWrite ==
  ASSUME FullInv, NEW c \in Clients, BulkWrite(c), NEW i \in Ids
  PROVE  IndexAt(i)'
<1> DEFINE kept == IF op[c].kind = "delete" THEN {} ELSE op[c].ids
<1>1. /\ \A k \in kept : d'[k] \in Record
      /\ \A k \in op[c].ids \ kept : d'[k] = NoRecord
      /\ \A k \in Ids \ op[c].ids : d'[k] = d[k]
  BY WriteFacts DEF FullInv
<1>2. /\ dca' = dca \cup kept /\ dst' = dst \cup StatusKeys(d', kept)
      /\ dq' = dq \cup QueueKeys(d', kept) /\ op[c].pc = "write"
      /\ loose' = loose \cup (op[c].ids \cap op[c].over)
  BY DEF BulkWrite
<1>3. /\ kept \subseteq op[c].ids /\ op[c].ids \in SUBSET Ids /\ IndexAt(i)
  BY DEF FullInv, ShapeInv, TypeOK, OpRec
<1> HIDE DEF kept
<1>4. /\ op'[c] = NoOp
      /\ \A x \in Clients \ {c} :
              /\ op'[x].pc = op[x].pc /\ op'[x].ids = op[x].ids /\ op'[x].old = op[x].old
              /\ op[x].over \subseteq op'[x].over
              /\ op[x].pc \in {"unindex", "write"} => op[c].ids \subseteq op'[x].over
  BY <1>3, NoOpType, OthersFacts DEF BulkWrite, FullInv, ShapeInv
<1>5. NoOp.pc = "idle"
  BY DEF NoOp
<1>6. CASE i \notin op[c].ids
  <2>1. Frame(i)
    BY <1>1, <1>2, <1>3, <1>6, KeyMember DEF Frame
  <2>2. \A x \in Clients : InHand(x, i)' <=> InHand(x, i)
    BY <1>4, <1>5, <1>6 DEF InHand
  <2>3. \A x \in Clients : InHand(x, i)' /\ i \notin op'[x].over => i \notin op[x].over
    BY <1>4, <1>5 DEF InHand
  <2>4. \A x \in Clients : op'[x].pc \in {"unindex", "write"} /\ i \in op'[x].ids
                           /\ i \notin op'[x].over => op'[x].old[i] = d[i]
    BY <1>3, <1>4, <1>5 DEF IndexAt, OldAt
  <2> QED BY <1>2, <1>3, <2>1, <2>2, <2>3, <2>4, FrameAt
<1>7. CASE i \in op[c].ids
  <2>1. \A x \in Clients : op'[x].pc \in {"unindex", "write"} => i \in op'[x].over
    BY <1>4, <1>5, <1>7
  <2>2. OldAt(i)' /\ ClearedAt(i)'
    BY <2>1 DEF OldAt, ClearedAt, InHand
  <2>3. ASSUME i \notin loose', \A x \in Clients : ~InHand(x, i)' PROVE KeysRight(i)'
    <3>1. InHand(c, i) /\ i \notin op[c].over /\ i \notin loose
      BY <1>2, <1>7, <2>3 DEF InHand
    <3>2. \A x \in Clients \ {c} : ~InHand(x, i)
      BY <1>4, <2>3 DEF InHand
    <3>3. NoKeys(i)
      BY <1>3, <3>1, <3>2 DEF IndexAt, ClearedAt
    <3>4. \A s \in Statuses : <<s, i>> \in dst' <=> i \in kept /\ d'[i].status = s
      BY <1>2, <3>3, KeyMember DEF NoKeys
    <3>5. \A q \in Queues : <<q, i>> \in dq' <=> i \in kept /\ d'[i].queue = q
      BY <1>2, <3>3, KeyMember, RepositoryAssumption DEF NoKeys
    <3>6. i \in kept <=> d'[i] # NoRecord
      BY <1>1, <1>7, RepositoryAssumption
    <3>7. i \in dca' <=> i \in kept
      BY <1>2, <3>3 DEF NoKeys
    <3> QED BY <3>4, <3>5, <3>6, <3>7 DEF KeysRight, Present
  <2> QED BY <2>2, <2>3 DEF IndexAt, AgreesAt
<1> QED BY <1>6, <1>7

LEMMA IndexStep == FullInv /\ [Next]_vars => FullInv'
<1> SUFFICES ASSUME FullInv, [Next]_vars PROVE FullInv'
  OBVIOUS
<1>1. ShapeInv'
  BY ShapeStep DEF FullInv
<1>2. ASSUME NEW i \in Ids PROVE IndexAt(i)'
  <2>1. CASE UNCHANGED vars
    BY <2>1 DEF vars, FullInv, IndexAt, OldAt, ClearedAt, AgreesAt, InHand, KeysRight, NoKeys, Present
  <2>2. ASSUME NEW c \in Clients, BulkStep(c) PROVE IndexAt(i)'
    BY <2>2, IndexList, IndexView, IndexUnindex, IndexWrite, IndexInterrupted DEF BulkStep
  <2>3. CASE Next
    BY <2>2, <2>3, IndexCreate, IndexUpdate, IndexDelete DEF Next
  <2> QED BY <2>1, <2>3
<1> QED BY <1>1, <1>2 DEF FullInv

\* However transactions and bulk operations are interleaved, interrupted and
\* overtaken, the creation, status and queue keys of every download that is
\* not in doubt are exactly those of its stored record, so no list, count or
\* bulk operation misses it or finds it under an old key.
THEOREM IndexesAgree == Spec => []IndexAgrees
<1>1. FullInv => IndexAgrees
  BY DownloadByDownload DEF IndexInv
<1> QED BY <1>1, IndexInit, IndexStep, PTL DEF Spec

-----------------------------------------------------------------------------
(* Lists and counts *)

\* The key a scan finds a download under.
LEMMA ScanFinds ==
  ASSUME TypeOK, NEW id \in Ids, KeysRight(id),
         NEW qs \in SUBSET Queues, NEW ss \in SUBSET Statuses
  PROVE  \E k : /\ \A e \in Scan(qs, ss) : e[2] = id => e = k
                /\ Matches(id, qs, ss) => k \in Scan(qs, ss) /\ k[2] = id
<1>0. /\ dq \subseteq Queues \X Ids /\ dst \subseteq Statuses \X Ids /\ dca \subseteq Ids
      /\ d \in Copies
  BY DEF TypeOK
<1>1. Present(id) => d[id] \in Record
  BY <1>0 DEF Present, Copies
<1>2. CASE Cardinality(qs) = 1
  <2>1. Scan(qs, ss) = {e \in dq : \E q \in qs : <<q, e[1]>> \in PrefixOf}
    BY <1>2, Zenon DEF Scan
  <2>2. qs # {}
    BY <1>2, FS_EmptySet
  <2> DEFINE k == <<d[id].queue, id>>
  <2>3. \A e \in dq : e[2] = id => e = k
    BY <1>0 DEF KeysRight
  <2>4. Matches(id, qs, ss) => k \in dq /\ \E q \in qs : <<q, d[id].queue>> \in PrefixOf
    BY <2>2, RepositoryAssumption DEF Matches, KeysRight
  <2>5. k[1] = d[id].queue /\ k[2] = id
    OBVIOUS
  <2> QED BY <2>1, <2>3, <2>4, <2>5
<1>3. CASE Cardinality(qs) # 1 /\ Cardinality(ss) = 1
  <2>1. Scan(qs, ss) = {e \in dst : e[1] \in ss}
    BY <1>3, Zenon DEF Scan
  <2>2. ss # {}
    BY <1>3, FS_EmptySet
  <2> DEFINE k == <<d[id].status, id>>
  <2>3. \A e \in dst : e[2] = id => e = k
    BY <1>0 DEF KeysRight
  <2>4. Matches(id, qs, ss) => k \in dst /\ d[id].status \in ss
    BY <2>2 DEF Matches, KeysRight
  <2>5. k[1] = d[id].status /\ k[2] = id
    OBVIOUS
  <2> QED BY <2>1, <2>3, <2>4, <2>5
<1>4. CASE Cardinality(qs) # 1 /\ Cardinality(ss) # 1
  <2>1. Scan(qs, ss) = {<<"created", i>> : i \in dca}
    BY <1>4, Zenon DEF Scan
  <2> DEFINE k == <<"created", id>>
  <2>2. \A e \in Scan(qs, ss) : e[2] = id => e = k
    BY <2>1
  <2>3. Matches(id, qs, ss) => id \in dca
    BY DEF Matches, KeysRight
  <2>4. Matches(id, qs, ss) => k \in Scan(qs, ss)
    BY <2>1, <2>3
  <2>5. k[2] = id
    OBVIOUS
  <2> HIDE DEF k
  <2> QED BY <2>2, <2>4, <2>5
<1> QED BY <1>2, <1>3, <1>4

LEMMA FoundOnceEach ==
  ASSUME TypeOK, NEW id \in Ids, KeysRight(id),
         NEW qs \in SUBSET Queues, NEW ss \in SUBSET Statuses
  PROVE  Cardinality({e \in Hits(qs, ss) : e[2] = id}) = IF Matches(id, qs, ss) THEN 1 ELSE 0
<1> DEFINE H == {e \in Hits(qs, ss) : e[2] = id}
<1>1. PICK k : /\ \A e \in Scan(qs, ss) : e[2] = id => e = k
               /\ Matches(id, qs, ss) => k \in Scan(qs, ss) /\ k[2] = id
  BY ScanFinds
<1>2. CASE Matches(id, qs, ss)
  <2>1. H = {k}
    BY <1>1, <1>2 DEF Hits
  <2> QED BY <1>2, <2>1, FS_Singleton
<1>3. CASE ~Matches(id, qs, ss)
  <2>1. H = {}
    BY <1>1, <1>3 DEF Hits
  <2> QED BY <1>3, <2>1, FS_EmptySet
<1> QED BY <1>2, <1>3

\* A list or count finds a download that is not in doubt exactly once if it
\* matches the filters and not at all otherwise, for any identifiers, queues
\* and statuses and whichever index the filters select (listDownloadsTxn,
\* repository.go).
THEOREM ListsFindOnce == Spec => []FoundOnce
<1>1. TypeOK /\ IndexAgrees => FoundOnce
  BY FoundOnceEach DEF IndexAgrees, FoundOnce
<1> QED BY <1>1, RepositoryTypes, IndexesAgree, PTL

-----------------------------------------------------------------------------
(* Pages.  The entries are put in order and collected by recursion: facts  *)
(* about both are proved with the least number that would violate them.    *)

LEMMA LeastNumber ==
  ASSUME NEW T \in SUBSET Nat, T # {}
  PROVE  \E x \in T : \A y \in T : x <= y
<1> DEFINE R == OpToRel(<, Nat)
<1>1. IsWellFoundedOn(R, Nat)
  BY NatLessThanWellFounded
<1>2. \A x, y \in Nat : y < x => <<y, x>> \in R
  BY DEF OpToRel
<1> HIDE DEF R
<1>3. PICK x \in T : \A y \in T : ~(<<y, x>> \in R)
  BY <1>1, WFMin
<1>4. ASSUME NEW y \in T PROVE x <= y
  <2>1. x \in Nat /\ y \in Nat
    OBVIOUS
  <2>2. ~(y < x)
    BY <1>2, <1>3, <2>1
  <2> QED BY <2>1, <2>2
<1> QED BY <1>4

\* s lists S by creation time.
Ascends(s, S, n) ==
  /\ s \in Injection(1..n, S)
  /\ \A i, j \in 1..n : i < j => s[i][2] <= s[j][2]

\* An entry that is no later than the others comes first.
LEMMA AscendsMore ==
  ASSUME NEW S, NEW e \in S, NEW n \in Nat, NEW s, Ascends(s, S \ {e}, n),
         \A x \in S : x[2] \in Nat /\ e[2] <= x[2]
  PROVE  \E t : Ascends(t, S, n + 1)
<1>1. s \in [1..n -> S \ {e}] /\ \A i, j \in 1..n : s[i] = s[j] => i = j
  BY DEF Ascends, Injection, IsInjective
<1> DEFINE t == [i \in 1..(n + 1) |-> IF i = 1 THEN e ELSE s[i - 1]]
<1>2. ASSUME NEW i \in 1..(n + 1)
      PROVE  /\ i = 1 => t[i] = e
             /\ i # 1 => i - 1 \in 1..n /\ t[i] = s[i - 1]
             /\ t[i] \in S
  BY <1>1
<1>3. t \in [1..(n + 1) -> S]
  BY <1>2
<1> HIDE DEF t
<1>4. ASSUME NEW i \in 1..(n + 1), NEW j \in 1..(n + 1), t[i] = t[j] PROVE i = j
  <2>1. CASE i = 1 /\ j = 1
    BY <2>1
  <2>2. CASE i # 1 /\ j # 1
    <3>1. i - 1 \in 1..n /\ j - 1 \in 1..n /\ s[i - 1] = s[j - 1]
      BY <1>2, <1>4, <2>2
    <3>2. i - 1 = j - 1
      BY <1>1, <3>1, Zenon
    <3> QED BY <3>2
  <2>3. CASE i = 1 /\ j # 1
    BY <1>1, <1>2, <1>4, <2>3
  <2>4. CASE i # 1 /\ j = 1
    BY <1>1, <1>2, <1>4, <2>4
  <2> QED BY <2>1, <2>2, <2>3, <2>4
<1>5. ASSUME NEW i \in 1..(n + 1), NEW j \in 1..(n + 1), i < j PROVE t[i][2] <= t[j][2]
  <2>1. CASE i = 1
    <3>1. t[i] = e /\ t[j] \in S
      BY <1>2, <2>1
    <3> QED BY <3>1
  <2>2. CASE i # 1
    <3>1. j # 1 /\ i - 1 < j - 1
      BY <1>5, <2>2
    <3>2. i - 1 \in 1..n /\ j - 1 \in 1..n /\ t[i] = s[i - 1] /\ t[j] = s[j - 1]
      BY <1>2, <2>2, <3>1
    <3>3. s[i - 1][2] <= s[j - 1][2]
      BY <3>1, <3>2 DEF Ascends
    <3> QED BY <3>2, <3>3
  <2> QED BY <2>1, <2>2
<1>6. DOMAIN t = 1..(n + 1)
  BY <1>3
<1>7. Ascends(t, S, n + 1)
  BY <1>3, <1>4, <1>5, <1>6 DEF Ascends, Injection, IsInjective
<1> QED BY <1>7

\* Every finite set of entries can be listed by creation time.
LEMMA AscendsExists ==
  ASSUME NEW S, IsFiniteSet(S), \A e \in S : e[2] \in Nat
  PROVE  \E s : Ascends(s, S, Cardinality(S))
<1> DEFINE Bad(n) == \E U \in SUBSET S : IsFiniteSet(U) /\ Cardinality(U) = n
                                         /\ ~\E s : Ascends(s, U, n)
           T == {n \in Nat : Bad(n)}
<1>0. Cardinality(S) \in Nat
  BY FS_CardinalityType
<1> SUFFICES ASSUME T # {} PROVE FALSE
  <2>1. S \in SUBSET S
    OBVIOUS
  <2>2. ~Bad(Cardinality(S))
    <3> HIDE DEF Bad
    <3> QED BY <1>0
  <2> QED BY <2>1, <2>2, Zenon
<1>1. T \in SUBSET Nat
  OBVIOUS
<1> HIDE DEF T
<1>2. PICK n \in T : \A m \in T : n <= m
  BY <1>1, LeastNumber
<1>3. n \in Nat /\ Bad(n)
  BY <1>2 DEF T
<1>4. PICK U \in SUBSET S : /\ IsFiniteSet(U) /\ Cardinality(U) = n
                            /\ ~\E s : Ascends(s, U, n)
  BY <1>3
<1>5. U # {}
  <2> SUFFICES ASSUME U = {} PROVE FALSE
    OBVIOUS
  <2>1. n = 0
    BY <1>4, FS_EmptySet
  <2>2. PICK s : s = [i \in 1..0 |-> i]
    OBVIOUS
  <2>3. 1..0 = {}
    OBVIOUS
  <2>4. s \in [1..0 -> U] /\ DOMAIN s = {}
    BY <2>2, <2>3
  <2>5. Ascends(s, U, 0)
    BY <2>3, <2>4 DEF Ascends, Injection, IsInjective
  <2> QED BY <1>4, <2>1, <2>5
<1> DEFINE K == {e[2] : e \in U}
<1>6. K \in SUBSET Nat /\ K # {}
  BY <1>5
<1>7. PICK k \in K : \A x \in K : k <= x
  BY <1>6, LeastNumber
<1>8. PICK e \in U : e[2] = k
  BY <1>7
<1>9. \A x \in U : x[2] \in Nat /\ e[2] <= x[2]
  BY <1>7, <1>8
<1>10. IsFiniteSet(U \ {e}) /\ Cardinality(U \ {e}) = n - 1
  BY <1>4, FS_RemoveElement
<1>11. n - 1 \in Nat
  <2>1. Cardinality(U \ {e}) \in Nat
    BY <1>10, FS_CardinalityType
  <2> QED BY <1>10, <2>1
<1>12. n - 1 \notin T
  BY <1>2, <1>3, <1>11
<1>13. ~Bad(n - 1)
  BY <1>11, <1>12 DEF T
<1>14. PICK s : Ascends(s, U \ {e}, n - 1)
  <2>1. U \ {e} \in SUBSET S
    OBVIOUS
  <2> QED BY <1>10, <1>13, <2>1, Zenon
<1>15. \E t : Ascends(t, U, (n - 1) + 1)
  BY <1>8, <1>9, <1>11, <1>14, AscendsMore
<1>16. (n - 1) + 1 = n
  BY <1>3
<1> QED BY <1>4, <1>15, <1>16

\* Forwards or backwards, the scan visits every entry once.
InOrderOf(s, desc) ==
  \A i, j \in DOMAIN s : i < j => IF desc THEN s[i][2] >= s[j][2] ELSE s[i][2] <= s[j][2]

LEMMA ScanExists ==
  ASSUME NEW S, IsFiniteSet(S), \A e \in S : e[2] \in Nat, NEW desc \in BOOLEAN
  PROVE  \E s \in Injection(1..Cardinality(S), S) : InOrderOf(s, desc)
<1> DEFINE n == Cardinality(S)
<1>0. n \in Nat
  BY FS_CardinalityType
<1>1. PICK s : Ascends(s, S, n)
  BY AscendsExists
<1> HIDE DEF n
<1>2. /\ s \in [1..n -> S] /\ s \in Injection(1..n, S) /\ DOMAIN s = 1..n
      /\ \A i, j \in 1..n : s[i] = s[j] => i = j
      /\ \A i, j \in 1..n : i < j => s[i][2] <= s[j][2]
  BY <1>1 DEF Ascends, Injection, IsInjective
<1>3. CASE desc = FALSE
  <2>1. InOrderOf(s, desc)
    BY <1>2, <1>3 DEF InOrderOf
  <2> QED BY <1>2, <2>1 DEF n
<1>4. CASE desc = TRUE
  <2> DEFINE t == [i \in 1..n |-> s[n + 1 - i]]
  <2>1. ASSUME NEW i \in 1..n PROVE n + 1 - i \in 1..n /\ t[i] = s[n + 1 - i] /\ t[i] \in S
    BY <1>0, <1>2
  <2>2. t \in [1..n -> S] /\ DOMAIN t = 1..n
    BY <2>1
  <2> HIDE DEF t
  <2>3. ASSUME NEW i \in 1..n, NEW j \in 1..n, t[i] = t[j] PROVE i = j
    <3>1. n + 1 - i \in 1..n /\ n + 1 - j \in 1..n /\ s[n + 1 - i] = s[n + 1 - j]
      BY <2>1, <2>3
    <3>2. n + 1 - i = n + 1 - j
      BY <1>2, <3>1, Zenon
    <3> QED BY <1>0, <3>2
  <2>4. ASSUME NEW i \in 1..n, NEW j \in 1..n, i < j PROVE t[i][2] >= t[j][2]
    <3>1. n + 1 - i \in 1..n /\ n + 1 - j \in 1..n /\ n + 1 - j < n + 1 - i
      BY <1>0, <2>1, <2>4
    <3>2. s[n + 1 - j][2] <= s[n + 1 - i][2]
      BY <1>2, <3>1, Zenon
    <3>3. t[i][2] \in Nat /\ t[j][2] \in Nat
      BY <2>1
    <3> QED BY <2>1, <3>2, <3>3
  <2>5. t \in Injection(1..n, S)
    BY <2>2, <2>3 DEF Injection, IsInjective
  <2>6. InOrderOf(t, desc)
    BY <1>4, <2>2, <2>4 DEF InOrderOf
  <2> QED BY <2>5, <2>6 DEF n
<1> QED BY <1>3, <1>4

LEMMA ScannedFacts ==
  ASSUME NEW S, IsFiniteSet(S), \A e \in S : e[2] \in Nat,
         \A x, y \in S : x[2] = y[2] => x = y, NEW desc \in BOOLEAN
  PROVE  LET s == Scanned(S, desc)
             n == Cardinality(S) IN
         /\ n \in Nat /\ s \in [1..n -> S]
         /\ \A e \in S : \E i \in 1..n : s[i] = e
         /\ \A i, j \in 1..n : i < j => IF desc THEN s[i][2] > s[j][2] ELSE s[i][2] < s[j][2]
<1> DEFINE n == Cardinality(S)
           s == Scanned(S, desc)
<1>0. n \in Nat
  BY FS_CardinalityType
<1>1. s \in Injection(1..n, S) /\ InOrderOf(s, desc)
  <2>1. \E x \in Injection(1..n, S) : InOrderOf(x, desc)
    BY ScanExists
  <2>2. s = CHOOSE x \in Injection(1..n, S) : InOrderOf(x, desc)
    BY Zenon DEF Scanned, InOrderOf
  <2> HIDE DEF s, n
  <2> QED BY <2>1, <2>2, Zenon
<1> HIDE DEF s
<1>2. /\ s \in [1..n -> S] /\ DOMAIN s = 1..n /\ \A i, j \in 1..n : s[i] = s[j] => i = j
  BY <1>1 DEF Injection, IsInjective
<1>3. s \in Surjection(1..n, S)
  <2>1. Cardinality(1..n) = n
    <3>1. IsFiniteSet(1..n) /\ Cardinality(1..n) = IF 1 > n THEN 0 ELSE n - 1 + 1
      BY <1>0, FS_Interval
    <3> QED BY <1>0, <3>1
  <2> QED BY <1>1, <2>1, FS_Injection
<1>4. \A e \in S : \E i \in 1..n : s[i] = e
  BY <1>3 DEF Surjection
<1> HIDE DEF n
<1>5. ASSUME NEW i \in 1..n, NEW j \in 1..n, i < j
      PROVE  IF desc THEN s[i][2] > s[j][2] ELSE s[i][2] < s[j][2]
  <2>1. s[i][2] \in Nat /\ s[j][2] \in Nat /\ s[i] \in S /\ s[j] \in S
    BY <1>2
  <2>2. s[i] # s[j]
    <3>1. i # j
      BY <1>0, <1>5
    <3> QED BY <1>2, <3>1
  <2>3. s[i][2] # s[j][2]
    BY <2>1, <2>2
  <2>4. IF desc THEN s[i][2] >= s[j][2] ELSE s[i][2] <= s[j][2]
    BY <1>1, <1>2, <1>5 DEF InOrderOf
  <2> QED BY <2>1, <2>3, <2>4
<1> QED BY <1>0, <1>2, <1>4, <1>5 DEF s, n

Begin(limit, offset) ==
  [list |-> <<>>, discard |-> offset, collect |-> limit, stop |-> FALSE]

\* f gives the state of the loop after each of the first n entries of hits.
Rounds(f, hits, limit, offset, n) ==
  f = [k \in 0..n |-> IF k = 0 THEN Begin(limit, offset) ELSE Collect(f[k - 1], hits[k][2])]

LEMMA RoundsExist ==
  ASSUME NEW hits, NEW limit, NEW offset, NEW n \in Nat
  PROVE  \E f : Rounds(f, hits, limit, offset, n)
<1> DEFINE T == {m \in Nat : ~\E f : Rounds(f, hits, limit, offset, m)}
<1> SUFFICES ASSUME T # {} PROVE FALSE
  OBVIOUS
<1>1. T \in SUBSET Nat
  OBVIOUS
<1>2. PICK m \in T : \A k \in T : m <= k
  BY <1>1, LeastNumber
<1>3. m \in Nat /\ ~\E f : Rounds(f, hits, limit, offset, m)
  BY <1>2
<1>4. CASE m = 0
  <2> DEFINE g == [k \in 0..0 |-> Begin(limit, offset)]
  <2>1. \A k \in 0..0 : k = 0
    OBVIOUS
  <2>2. g = [k \in 0..0 |-> IF k = 0 THEN Begin(limit, offset) ELSE Collect(g[k - 1], hits[k][2])]
    BY <2>1, Zenon
  <2>3. Rounds(g, hits, limit, offset, 0)
    BY <2>2, Zenon DEF Rounds
  <2> QED BY <1>3, <1>4, <2>3
<1>5. CASE m # 0
  <2>1. m - 1 \in Nat /\ m - 1 < m
    BY <1>3, <1>5
  <2>2. PICK f : Rounds(f, hits, limit, offset, m - 1)
    <3>1. m - 1 \notin T
      <4> HIDE DEF T
      <4> QED BY <1>1, <1>2, <2>1
    <3> QED BY <2>1, <3>1, Zenon
  <2> DEFINE last == Collect(f[m - 1], hits[m][2])
             g == [k \in 0..m |-> IF k = m THEN last ELSE f[k]]
  <2>3. m \in 0..m /\ m - 1 \in 0..m /\ m - 1 # m
    BY <1>3, <2>1
  <2>4. ASSUME NEW k \in 0..m
        PROVE  g[k] = IF k = 0 THEN Begin(limit, offset) ELSE Collect(g[k - 1], hits[k][2])
    <3>1. CASE k = m
      <4>1. g[m] = last /\ g[m - 1] = f[m - 1]
        BY <2>3, Zenon
      <4> HIDE DEF g
      <4>2. last = Collect(g[m - 1], hits[m][2])
        BY <4>1, Zenon
      <4> HIDE DEF last
      <4> QED BY <1>5, <3>1, <4>1, <4>2, Zenon
    <3>2. CASE k # m
      <4>1. k \in 0..(m - 1)
        BY <1>3, <3>2
      <4>2. f[k] = IF k = 0 THEN Begin(limit, offset) ELSE Collect(f[k - 1], hits[k][2])
        BY <2>2, <4>1, Zenon DEF Rounds
      <4>3. g[k] = f[k]
        BY <3>2, Zenon
      <4>4. k # 0 => k - 1 \in 0..m /\ k - 1 # m
        BY <1>3, <4>1
      <4>5. k # 0 => g[k - 1] = f[k - 1]
        BY <4>4, Zenon
      <4> HIDE DEF g
      <4> QED BY <4>2, <4>3, <4>5, Zenon
    <3> QED BY <3>1, <3>2
  <2>5. g = [k \in 0..m |-> g[k]]
    OBVIOUS
  <2> HIDE DEF g, last
  <2>6. g = [k \in 0..m |-> IF k = 0 THEN Begin(limit, offset) ELSE Collect(g[k - 1], hits[k][2])]
    BY <2>4, <2>5, Zenon
  <2>7. Rounds(g, hits, limit, offset, m)
    BY <2>6, Zenon DEF Rounds
  <2> QED BY <1>3, <2>7
<1> QED BY <1>4, <1>5

\* How many of the first k entries the loop collects.
Taken(limit, offset, k) ==
  LET behind == IF k > offset THEN k - offset ELSE 0
      size == IF limit = 0 THEN 1 ELSE limit IN
  IF limit < 0 \/ behind < size THEN behind ELSE size

LoopRec == [list : Seq(Nat), discard : Nat, collect : Int, stop : BOOLEAN]

\* The state of the loop after k entries.
Round(acc, ids, limit, offset, k) ==
  /\ acc \in LoopRec
  /\ Len(acc.list) = Taken(limit, offset, k)
  /\ \A i \in 1..Taken(limit, offset, k) : acc.list[i] = ids[offset + i]
  /\ acc.discard = IF k < offset THEN offset - k ELSE 0
  /\ acc.collect = IF limit > 0 THEN limit - Taken(limit, offset, k) ELSE limit
  /\ acc.stop <=> limit >= 0 /\ Taken(limit, offset, k) = IF limit = 0 THEN 1 ELSE limit

\* What one round does to the fields.
LEMMA CollectFields ==
  ASSUME NEW acc \in LoopRec, NEW id \in Nat
  PROVE  /\ acc.stop => Collect(acc, id) = acc
         /\ ~acc.stop /\ acc.discard > 0 =>
              /\ Collect(acc, id) \in LoopRec
              /\ Collect(acc, id).list = acc.list /\ Collect(acc, id).collect = acc.collect
              /\ Collect(acc, id).stop = acc.stop /\ Collect(acc, id).discard = acc.discard - 1
         /\ ~acc.stop /\ acc.discard = 0 =>
              LET left == IF acc.collect > 0 THEN acc.collect - 1 ELSE acc.collect IN
              /\ Collect(acc, id) \in LoopRec
              /\ Collect(acc, id).list = Append(acc.list, id) /\ Collect(acc, id).discard = 0
              /\ Collect(acc, id).collect = left /\ (Collect(acc, id).stop <=> left = 0)
<1>0. /\ acc.list \in Seq(Nat) /\ acc.discard \in Nat /\ acc.collect \in Int /\ acc.stop \in BOOLEAN
  BY DEF LoopRec
<1>1. CASE acc.stop
  BY <1>1, Zenon DEF Collect
<1>2. CASE ~acc.stop /\ acc.discard > 0
  <2>1. Collect(acc, id) = [acc EXCEPT !.discard = acc.discard - 1]
    BY <1>2, Zenon DEF Collect
  <2>2. acc.discard - 1 \in Nat
    BY <1>0, <1>2
  <2>3. Collect(acc, id) \in LoopRec
    BY <2>1, <2>2 DEF LoopRec
  <2>4. /\ Collect(acc, id).list = acc.list /\ Collect(acc, id).collect = acc.collect
        /\ Collect(acc, id).stop = acc.stop /\ Collect(acc, id).discard = acc.discard - 1
    BY <2>1 DEF LoopRec
  <2>5. acc.discard # 0
    BY <1>2
  <2> QED BY <1>2, <2>3, <2>4, <2>5
<1>3. CASE ~acc.stop /\ ~(acc.discard > 0)
  <2> DEFINE left == IF acc.collect > 0 THEN acc.collect - 1 ELSE acc.collect
  <2>1. Collect(acc, id) = [acc EXCEPT !.list = Append(acc.list, id), !.collect = left,
                                       !.stop = left = 0]
    BY <1>3, Zenon DEF Collect
  <2>2. left \in Int /\ Append(acc.list, id) \in Seq(Nat) /\ acc.discard = 0
    BY <1>0, <1>3
  <2> HIDE DEF left
  <2>3. (left = 0) \in BOOLEAN
    OBVIOUS
  <2>4. PICK b \in BOOLEAN : b = (left = 0)
    BY <2>3
  <2>5. Collect(acc, id) = [acc EXCEPT !.list = Append(acc.list, id), !.collect = left, !.stop = b]
    BY <2>1, <2>4
  <2>6. Collect(acc, id) \in LoopRec
    BY <2>2, <2>5 DEF LoopRec
  <2>7. /\ Collect(acc, id).list = Append(acc.list, id) /\ Collect(acc, id).discard = acc.discard
        /\ Collect(acc, id).collect = left /\ Collect(acc, id).stop = b
    BY <2>5 DEF LoopRec
  <2> QED BY <1>3, <2>2, <2>4, <2>6, <2>7 DEF left
<1> QED BY <1>1, <1>2, <1>3

LEMMA RoundStep ==
  ASSUME NEW limit \in Int, NEW offset \in Nat, NEW k \in Nat, NEW ids,
         ids[k + 1] \in Nat, NEW acc, Round(acc, ids, limit, offset, k)
  PROVE  Round(Collect(acc, ids[k + 1]), ids, limit, offset, k + 1)
<1> DEFINE t == Taken(limit, offset, k)
           u == Taken(limit, offset, k + 1)
           full == limit >= 0 /\ t = IF limit = 0 THEN 1 ELSE limit
           next == Collect(acc, ids[k + 1])
<1>1. /\ acc \in LoopRec /\ Len(acc.list) = t
      /\ \A i \in 1..t : acc.list[i] = ids[offset + i]
      /\ acc.discard = IF k < offset THEN offset - k ELSE 0
      /\ acc.collect = IF limit > 0 THEN limit - t ELSE limit
      /\ acc.stop <=> full
  BY DEF Round
<1>2. /\ t \in Nat /\ u \in Nat
      /\ full => u = t /\ k > offset
      /\ ~full /\ k < offset => t = 0 /\ u = 0
      /\ ~full /\ k >= offset => t = k - offset /\ u = t + 1
      /\ ~full /\ limit > 0 => t < limit
      /\ ~full /\ limit = 0 => t = 0
  BY DEF Taken
<1>3. full <=> (limit >= 0 /\ t = IF limit = 0 THEN 1 ELSE limit)
  OBVIOUS
<1>4. SUFFICES /\ next \in LoopRec /\ Len(next.list) = u
               /\ \A i \in 1..u : next.list[i] = ids[offset + i]
               /\ next.discard = IF k + 1 < offset THEN offset - (k + 1) ELSE 0
               /\ next.collect = IF limit > 0 THEN limit - u ELSE limit
               /\ next.stop <=> limit >= 0 /\ u = IF limit = 0 THEN 1 ELSE limit
  BY DEF Round
<1> HIDE DEF t, u, full
<1>5. CASE full
  <2>1. next = acc /\ u = t /\ k > offset
    BY <1>1, <1>2, <1>5, CollectFields
  <2>2. acc.discard = 0 /\ ~(k + 1 < offset)
    BY <1>1, <2>1
  <2> HIDE DEF next
  <2>3. acc.stop <=> limit >= 0 /\ t = IF limit = 0 THEN 1 ELSE limit
    BY <1>1, <1>3
  <2> QED BY <1>1, <2>1, <2>2, <2>3
<1>6. CASE ~full /\ k < offset
  <2>1. acc.discard = offset - k /\ acc.discard > 0
    BY <1>1, <1>6
  <2>2. /\ next \in LoopRec /\ next.list = acc.list /\ next.collect = acc.collect
        /\ next.stop = acc.stop /\ next.discard = acc.discard - 1
    BY <1>1, <1>6, <2>1, CollectFields
  <2> HIDE DEF next
  <2>3. t = 0 /\ u = 0
    BY <1>2, <1>6
  <2>4. next.discard = IF k + 1 < offset THEN offset - (k + 1) ELSE 0
    BY <1>6, <2>1, <2>2
  <2>5. ~next.stop
    BY <1>1, <1>6, <2>2
  <2>6. ~(limit >= 0 /\ u = IF limit = 0 THEN 1 ELSE limit)
    BY <1>3, <1>6, <2>3
  <2> QED BY <1>1, <2>2, <2>3, <2>4, <2>5, <2>6
<1>7. CASE ~full /\ ~(k < offset)
  <2> DEFINE left == IF acc.collect > 0 THEN acc.collect - 1 ELSE acc.collect
  <2>1. acc.discard = 0
    BY <1>1, <1>7
  <2>2. /\ next \in LoopRec /\ next.list = Append(acc.list, ids[k + 1]) /\ next.discard = 0
        /\ next.collect = left /\ (next.stop <=> left = 0)
    BY <1>1, <1>7, <2>1, CollectFields
  <2>3. t = k - offset /\ u = t + 1 /\ offset + u = k + 1
    BY <1>2, <1>7
  <2>4. left = IF limit > 0 THEN limit - u ELSE limit
    BY <1>1, <1>2, <1>7, <2>3
  <2>5. left = 0 <=> limit >= 0 /\ u = IF limit = 0 THEN 1 ELSE limit
    <3> HIDE DEF left, next
    <3>1. CASE limit > 0
      BY <1>2, <1>7, <2>3, <2>4, <3>1
    <3>2. CASE limit = 0
      BY <1>2, <1>7, <2>3, <2>4, <3>2
    <3>3. CASE limit < 0
      BY <2>4, <3>3
    <3> QED BY <3>1, <3>2, <3>3
  <2> HIDE DEF next, left
  <2>6. acc.list \in Seq(Nat)
    BY <1>1 DEF LoopRec
  <2>7. Len(next.list) = u
    <3>1. Len(Append(acc.list, ids[k + 1])) = Len(acc.list) + 1
      BY <2>6
    <3> QED BY <1>1, <2>2, <2>3, <3>1
  <2>8. ASSUME NEW i \in 1..u PROVE next.list[i] = ids[offset + i]
    <3>1. CASE i = u
      <4>1. Append(acc.list, ids[k + 1])[Len(acc.list) + 1] = ids[k + 1]
        BY <2>6
      <4> QED BY <1>1, <2>2, <2>3, <3>1, <4>1
    <3>2. CASE i # u
      <4>1. i \in 1..t /\ i \in 1..Len(acc.list)
        BY <1>1, <1>2, <2>3, <3>2
      <4>2. Append(acc.list, ids[k + 1])[i] = acc.list[i]
        BY <2>6, <4>1
      <4> QED BY <1>1, <2>2, <4>1, <4>2
    <3> QED BY <3>1, <3>2
  <2>9. ~(k + 1 < offset)
    BY <1>7
  <2> QED BY <2>2, <2>4, <2>5, <2>7, <2>8, <2>9
<1> QED BY <1>5, <1>6, <1>7

\* After every round the loop has skipped, collected and stopped as it should.
LEMMA RoundsRight ==
  ASSUME NEW limit \in Int, NEW offset \in Nat, NEW n \in Nat, NEW hits, NEW ids,
         \A i \in 1..n : ids[i] \in Nat /\ ids[i] = hits[i][2],
         NEW f, Rounds(f, hits, limit, offset, n)
  PROVE  Round(f[n], ids, limit, offset, n)
<1> DEFINE T == {k \in Nat : k \in 0..n /\ ~Round(f[k], ids, limit, offset, k)}
<1> SUFFICES ASSUME T # {} PROVE FALSE
  <2>1. n \in 0..n
    OBVIOUS
  <2> QED BY <2>1
<1>1. T \in SUBSET Nat
  OBVIOUS
<1>2. PICK k \in T : \A j \in T : k <= j
  BY <1>1, LeastNumber
<1>3. k \in 0..n /\ k \in Nat /\ ~Round(f[k], ids, limit, offset, k)
  BY <1>2
<1>4. f[k] = IF k = 0 THEN Begin(limit, offset) ELSE Collect(f[k - 1], hits[k][2])
  BY <1>3, Zenon DEF Rounds
<1>5. k # 0
  <2> SUFFICES ASSUME k = 0 PROVE FALSE
    OBVIOUS
  <2>1. f[k] = Begin(limit, offset)
    BY <1>4, Zenon
  <2>2. /\ f[k] \in LoopRec /\ f[k].list = <<>> /\ f[k].discard = offset /\ f[k].collect = limit
        /\ f[k].stop = FALSE
    BY <2>1 DEF Begin, LoopRec
  <2>3. Taken(limit, offset, 0) = 0
    BY DEF Taken
  <2>4. Len(f[k].list) = 0
    BY <2>2
  <2>5. f[k].discard = IF 0 < offset THEN offset - 0 ELSE 0
    BY <2>2
  <2>6. f[k].collect = IF limit > 0 THEN limit - 0 ELSE limit
    BY <2>2
  <2>7. f[k].stop <=> limit >= 0 /\ 0 = IF limit = 0 THEN 1 ELSE limit
    BY <2>2
  <2>8. Round(f[k], ids, limit, offset, 0)
    BY <2>2, <2>3, <2>4, <2>5, <2>6, <2>7 DEF Round
  <2> QED BY <1>3, <2>8
<1>6. k - 1 \in Nat /\ k - 1 \in 0..n /\ k - 1 < k /\ (k - 1) + 1 = k /\ k \in 1..n
  BY <1>3, <1>5
<1>7. k - 1 \notin T
  <2> HIDE DEF T
  <2> QED BY <1>1, <1>2, <1>6
<1>8. Round(f[k - 1], ids, limit, offset, k - 1)
  BY <1>6, <1>7
<1>9. ids[(k - 1) + 1] \in Nat
  BY <1>6
<1>10. Round(Collect(f[k - 1], ids[(k - 1) + 1]), ids, limit, offset, (k - 1) + 1)
  BY <1>6, <1>8, <1>9, RoundStep
<1>11. f[k] = Collect(f[k - 1], ids[k])
  <2>1. ids[k] = hits[k][2]
    BY <1>6
  <2> HIDE DEF T
  <2> QED BY <1>4, <1>5, <2>1, Zenon
<1> QED BY <1>3, <1>6, <1>10, <1>11

\* Lists of all downloads, while no keys are in doubt.
LEMMA ListedFacts ==
  ASSUME TypeOK, UsedShape, IndexAgrees, IsFiniteSet(used), Doubtful = {}, NEW desc \in BOOLEAN
  PROVE  \E ids \in Seq(Nat) :
           /\ Range(ids) = {id \in Ids : Present(id)}
           /\ \A i, j \in 1..Len(ids) : i < j => IF desc THEN ids[i] > ids[j] ELSE ids[i] < ids[j]
           /\ \A limit \in Int, offset \in Nat :
                ListDownloads({}, {}, desc, limit, offset) =
                  [i \in 1..Taken(limit, offset, Len(ids)) |-> ids[offset + i]]
<1> DEFINE P == {id \in Ids : Present(id)}
           H == Hits({}, {})
           hits == Scanned(H, desc)
           n == Cardinality(H)
<1>1. H = {<<"created", id>> : id \in P}
  <2>1. Cardinality({}) = 0
    BY FS_EmptySet
  <2>2. Scan({}, {}) = {<<"created", id>> : id \in dca}
    <3>1. ~(Cardinality({}) = 1)
      BY <2>1
    <3> QED BY <3>1, Zenon DEF Scan
  <2>3. dca = P
    BY DEF IndexAgrees, KeysRight, TypeOK
  <2>4. \A id \in Ids : Matches(id, {}, {}) <=> Present(id)
    BY DEF Matches
  <2> QED BY <2>2, <2>3, <2>4 DEF Hits
<1>2. P \subseteq Nat
  BY RepositoryAssumption
<1>3. IsFiniteSet(H)
  <2>1. IsFiniteSet(P)
    <3>1. P \in SUBSET used
      BY DEF UsedShape
    <3> HIDE DEF P
    <3> QED BY <3>1, FS_Subset
  <2>2. PICK f : f = [id \in P |-> <<"created", id>>]
    OBVIOUS
  <2> HIDE DEF P, H
  <2>3. f \in Surjection(P, H)
    BY <1>1, <2>2 DEF Surjection
  <2> QED BY <2>1, <2>3, FS_Surjection
<1>4. /\ \A e \in H : e[2] \in Nat
      /\ \A x, y \in H : x[2] = y[2] => x = y
  <2> HIDE DEF P, H
  <2> QED BY <1>1, <1>2
<1>5. /\ n \in Nat /\ hits \in [1..n -> H]
      /\ \A e \in H : \E i \in 1..n : hits[i] = e
      /\ \A i, j \in 1..n : i < j => IF desc THEN hits[i][2] > hits[j][2] ELSE hits[i][2] < hits[j][2]
  <2> HIDE DEF H
  <2> QED BY <1>3, <1>4, ScannedFacts
<1> DEFINE ids == [i \in 1..n |-> hits[i][2]]
<1> HIDE DEF P, H, n, hits
<1>6. /\ ids \in Seq(Nat) /\ Len(ids) = n
      /\ \A i \in 1..n : ids[i] \in Nat /\ ids[i] = hits[i][2]
  <2>1. ASSUME NEW i \in 1..n PROVE hits[i] \in H /\ hits[i][2] \in Nat
    BY <1>4, <1>5
  <2> QED BY <1>5, <2>1
<1>7. Len(hits) = n
  BY <1>5
<1> HIDE DEF ids
<1>8. Range(ids) = P
  <2>1. DOMAIN ids = 1..n
    BY <1>5, <1>6
  <2>2. ASSUME NEW i \in 1..n PROVE ids[i] \in P
    <3>1. hits[i] \in H
      BY <1>5
    <3> QED BY <1>1, <1>6, <3>1
  <2>3. ASSUME NEW id \in P PROVE \E i \in 1..n : ids[i] = id
    <3>1. <<"created", id>> \in H
      BY <1>1
    <3>2. PICK i \in 1..n : hits[i] = <<"created", id>>
      BY <1>5, <3>1
    <3>3. ids[i] = id
      BY <1>6, <3>2
    <3> QED BY <3>3
  <2> QED BY <2>1, <2>2, <2>3 DEF Range
<1>9. \A i, j \in 1..n : i < j => IF desc THEN ids[i] > ids[j] ELSE ids[i] < ids[j]
  BY <1>5, <1>6
<1>10. ASSUME NEW limit \in Int, NEW offset \in Nat
       PROVE  ListDownloads({}, {}, desc, limit, offset) =
                [i \in 1..Taken(limit, offset, n) |-> ids[offset + i]]
  <2> DEFINE D(h) == h = [k \in 0..Len(hits) |->
                            IF k = 0 THEN [list |-> <<>>, discard |-> offset, collect |-> limit, stop |-> FALSE]
                            ELSE Collect(h[k - 1], hits[k][2])]
             f == CHOOSE h : D(h)
  <2>1. ListDownloads({}, {}, desc, limit, offset) = f[Len(hits)].list
    BY Zenon DEF ListDownloads, hits, H
  <2>2. \E h : D(h)
    <3>1. PICK g : Rounds(g, hits, limit, offset, n)
      BY <1>5, RoundsExist
    <3>2. D(g)
      BY <1>7, <3>1, Zenon DEF Rounds, Begin
    <3> HIDE DEF D
    <3> QED BY <3>2
  <2>3. D(f)
    <3> HIDE DEF D
    <3> QED BY <2>2, Zenon
  <2>4. Rounds(f, hits, limit, offset, n)
    BY <1>7, <2>3, Zenon DEF Rounds, Begin
  <2> HIDE DEF f
  <2>5. Round(f[n], ids, limit, offset, n)
    BY <1>5, <1>6, <2>4, RoundsRight
  <2>6. /\ f[n].list \in Seq(Nat) /\ Len(f[n].list) = Taken(limit, offset, n)
        /\ \A i \in 1..Taken(limit, offset, n) : f[n].list[i] = ids[offset + i]
    BY <2>5 DEF Round, LoopRec
  <2>7. f[n].list = [i \in 1..Taken(limit, offset, n) |-> ids[offset + i]]
    <3>1. PICK l \in Seq(Nat) : l = f[n].list
      BY <2>6
    <3>2. l = [i \in 1..Len(l) |-> l[i]]
      OBVIOUS
    <3>3. Len(l) = Taken(limit, offset, n)
      BY <2>6, <3>1
    <3>4. \A i \in 1..Taken(limit, offset, n) : l[i] = ids[offset + i]
      BY <2>6, <3>1
    <3> QED BY <3>1, <3>2, <3>3, <3>4
  <2> QED BY <1>7, <2>1, <2>7
<1> QED BY <1>6, <1>8, <1>9, <1>10 DEF P

LEMMA PageRightAlways ==
  ASSUME TypeOK, UsedShape, IndexAgrees, IsFiniteSet(used), Doubtful = {},
         NEW desc \in BOOLEAN, NEW limit \in Int, NEW offset \in Nat
  PROVE  PageRight(desc, limit, offset)
<1>1. PICK ids \in Seq(Nat) :
           /\ Range(ids) = {id \in Ids : Present(id)}
           /\ \A i, j \in 1..Len(ids) : i < j => IF desc THEN ids[i] > ids[j] ELSE ids[i] < ids[j]
           /\ \A l \in Int, o \in Nat :
                ListDownloads({}, {}, desc, l, o) = [i \in 1..Taken(l, o, Len(ids)) |-> ids[o + i]]
  BY ListedFacts
<1> DEFINE n == Len(ids)
           all == ListDownloads({}, {}, desc, -1, 0)
           last == CASE limit > 0 -> offset + limit
                     [] limit = 0 -> offset + 1
                     [] OTHER -> Len(all)
           end == IF last < Len(all) THEN last ELSE Len(all)
<1>2. n \in Nat /\ ids = [i \in 1..n |-> ids[i]]
  OBVIOUS
<1>3. all = ids
  <2>1. Taken(-1, 0, n) = n
    BY <1>2 DEF Taken
  <2>2. -1 \in Int /\ 0 \in Nat
    OBVIOUS
  <2>3. all = [i \in 1..n |-> ids[0 + i]]
    BY <1>1, <2>1, <2>2
  <2>4. \A i \in 1..n : ids[0 + i] = ids[i]
    OBVIOUS
  <2> QED BY <1>2, <2>3, <2>4
<1>4. \A i \in 1..(n - 1) : IF desc THEN ids[i] > ids[i + 1] ELSE ids[i] < ids[i + 1]
  <2> TAKE i \in 1..(n - 1)
  <2>1. i \in 1..n /\ i + 1 \in 1..n /\ i < i + 1
    BY <1>2
  <2> QED BY <1>1, <2>1
<1> HIDE DEF all
<1>5. /\ last = IF limit > 0 THEN offset + limit ELSE IF limit = 0 THEN offset + 1 ELSE n
      /\ end = IF last < n THEN last ELSE n
  BY <1>3
<1> HIDE DEF n, last, end
<1>6. end \in Nat /\ end <= n
  BY <1>2, <1>5
<1>7. Taken(limit, offset, n) = IF offset + 1 <= end THEN end - offset ELSE 0
  <2>1. CASE limit > 0
    BY <1>2, <1>5, <2>1 DEF Taken
  <2>2. CASE limit = 0
    BY <1>2, <1>5, <2>2 DEF Taken
  <2>3. CASE limit < 0
    BY <1>2, <1>5, <2>3 DEF Taken
  <2> QED BY <2>1, <2>2, <2>3
<1>8. SubSeq(ids, offset + 1, end) = [i \in 1..Taken(limit, offset, n) |-> ids[offset + i]]
  <2> DEFINE m == Taken(limit, offset, n)
             s == SubSeq(ids, offset + 1, end)
  <2>1. m \in Nat
    BY <1>6, <1>7
  <2>2. s = [i \in 1..(1 + end - (offset + 1)) |-> ids[i + (offset + 1) - 1]]
    BY <1>6
  <2>3. 1..(1 + end - (offset + 1)) = 1..m
    BY <1>6, <1>7
  <2>4. \A i \in 1..m : ids[i + (offset + 1) - 1] = ids[offset + i]
    <3> TAKE i \in 1..m
    <3>1. i + (offset + 1) - 1 = offset + i
      BY <2>1
    <3> QED BY <3>1
  <2> HIDE DEF m, s
  <2> QED BY <2>2, <2>3, <2>4 DEF m, s
<1>9. ListDownloads({}, {}, desc, limit, offset) = SubSeq(ids, offset + 1, end)
  BY <1>1, <1>8 DEF n
<1>10. /\ Range(all) = {id \in Ids : Present(id)}
       /\ \A i \in 1..Len(all) - 1 : IF desc THEN all[i] > all[i + 1] ELSE all[i] < all[i + 1]
       /\ ListDownloads({}, {}, desc, limit, offset) = SubSeq(all, offset + 1, end)
  BY <1>1, <1>3, <1>4, <1>9 DEF n
<1> QED BY <1>10, Zenon DEF PageRight, end, last, all

LEMMA UsedFinite == TypeOK /\ IsFiniteSet(used) /\ [Next]_vars => IsFiniteSet(used)'
<1> SUFFICES ASSUME TypeOK, IsFiniteSet(used), [Next]_vars PROVE IsFiniteSet(used')
  OBVIOUS
<1>1. ASSUME NEW id \in Ids, NEW q \in Queues, CreateDownload(id, q) PROVE IsFiniteSet(used')
  <2>1. used' = used \cup {id}
    BY <1>1 DEF CreateDownload
  <2> QED BY <2>1, FS_AddElement
<1>2. ASSUME NEW c \in Clients, BulkStep(c) PROVE used' = used
  BY <1>2 DEF BulkStep, BulkList, BulkView, BulkUnindex, BulkWrite, BulkInterrupted
<1> QED BY <1>1, <1>2 DEF Next, UpdateDownload, DeleteDownload, vars

\* While no keys are in doubt, every page of a list is the right one, for any
\* identifiers and for every limit and offset, not only the small ones: the
\* loop of listDownloadsTxn (repository.go) skips the offset, collects up to
\* the limit and misses or repeats no download at the seam of two pages.
THEOREM EveryPageRight ==
  Spec => [](Doubtful = {} =>
               \A desc \in BOOLEAN, limit \in Int, offset \in Nat : PageRight(desc, limit, offset))
<1>1. Init => ShapeInv /\ IsFiniteSet(used)
  BY ShapeInit, FS_EmptySet DEF Init
<1>2. ShapeInv /\ IsFiniteSet(used) /\ [Next]_vars => ShapeInv' /\ IsFiniteSet(used)'
  BY ShapeStep, UsedFinite DEF ShapeInv
<1>3. ShapeInv /\ IsFiniteSet(used) /\ IndexAgrees =>
        (Doubtful = {} =>
           \A desc \in BOOLEAN, limit \in Int, offset \in Nat : PageRight(desc, limit, offset))
  BY PageRightAlways DEF ShapeInv
<1> QED BY <1>1, <1>2, <1>3, IndexesAgree, PTL DEF Spec

\* While no keys are in doubt, the pages ListDownloads returns for the limits
\* and offsets the run checks tile the stored downloads in the order of their
\* creation, whatever was created, updated, deleted or done in bulk before.
THEOREM PagesAlwaysTile == Spec => []PagesTile
<1>1. (Doubtful = {} =>
         \A desc \in BOOLEAN, limit \in Int, offset \in Nat : PageRight(desc, limit, offset))
      => PagesTile
  <2>1. -1..2 \subseteq Int /\ 0..1 \subseteq Nat
    OBVIOUS
  <2> QED BY <2>1 DEF PagesTile
<1> QED BY <1>1, EveryPageRight, PTL
=============================================================================
