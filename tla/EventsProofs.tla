---------------------------- MODULE EventsProofs ----------------------------
(***************************************************************************)
(* Theorems about the event publisher, for any number of publishers and    *)
(* clients, any channel capacity and any bound on the events.              *)
(***************************************************************************)
EXTENDS Events, FiniteSetTheorems, TLAPS

\* Where a channel of the publisher's list stands: its request is being
\* served or has called cancel, so that it is still open.
ListShape ==
  /\ \A i \in 1..Len(subs) : sse[subs[i]] \in {"select", "write", "cancel"}
  /\ \A i, j \in 1..Len(subs) : subs[i] = subs[j] => i = j
  /\ \A c \in closed : sse[c] = "end"

\* A Publish offers its event to channels of the list, and only while it
\* holds the read lock.
CallShape ==
  \A p \in Publishers :
    /\ pub[p].pc # "send" => pub[p].todo = <<>>
    /\ pub[p].pc # "idle" => pub[p].count > 0
    /\ \A i \in 1..Len(pub[p].todo) : \E j \in 1..Len(subs) : pub[p].todo[i] = subs[j]

SendInv == TypeOK /\ ListShape /\ CallShape

-----------------------------------------------------------------------------
\* Taking the first c out of a list without repetitions keeps the others,
\* in a list without repetitions, and leaves no c.
LEMMA RemovedOnce ==
  ASSUME NEW S, NEW s \in Seq(S), NEW c \in S,
         \A i, j \in 1..Len(s) : s[i] = s[j] => i = j
  PROVE  /\ RemoveFirst(s, c) \in Seq(S)
         /\ \A i \in 1..Len(RemoveFirst(s, c)) :
              /\ RemoveFirst(s, c)[i] # c
              /\ \E j \in 1..Len(s) : RemoveFirst(s, c)[i] = s[j]
         /\ \A j \in 1..Len(s) :
              s[j] # c => \E i \in 1..Len(RemoveFirst(s, c)) : RemoveFirst(s, c)[i] = s[j]
         /\ \A i, j \in 1..Len(RemoveFirst(s, c)) :
              RemoveFirst(s, c)[i] = RemoveFirst(s, c)[j] => i = j
<1>1. CASE ~ \E i \in 1..Len(s) : s[i] = c
  <2>1. RemoveFirst(s, c) = s
    BY <1>1 DEF RemoveFirst
  <2> QED BY <2>1, <1>1
<1>2. CASE \E i \in 1..Len(s) : s[i] = c
  <2>1. PICK k \in 1..Len(s) : s[k] = c
    BY <1>2
  <2>2. {i \in 1..Len(s) : s[i] = c} = {k}
    BY <2>1
  <2>3. SelectInSeq(s, LAMBDA v : v = c) = k
    <3>1. Min({k}) = k
      BY DEF Min
    <3> QED BY <2>2, <3>1 DEF SelectInSeq
  <2>4. RemoveFirst(s, c) = SubSeq(s, 1, k - 1) \o SubSeq(s, k + 1, Len(s))
    BY <1>2, <2>3 DEF RemoveFirst, RemoveAt
  <2> DEFINE t == SubSeq(s, 1, k - 1) \o SubSeq(s, k + 1, Len(s))
  <2>5. /\ t \in Seq(S)
        /\ Len(t) = Len(s) - 1
        /\ \A i \in 1..Len(t) : t[i] = IF i < k THEN s[i] ELSE s[i + 1]
    <3> DEFINE front == SubSeq(s, 1, k - 1)
               back  == SubSeq(s, k + 1, Len(s))
    <3>1. /\ front \in Seq(S)
          /\ Len(front) = k - 1
          /\ \A i \in 1..(k - 1) : front[i] = s[i]
      OBVIOUS
    <3>2. /\ back \in Seq(S)
          /\ Len(back) = Len(s) - k
          /\ \A i \in 1..(Len(s) - k) : back[i] = s[k + i]
      OBVIOUS
    <3> HIDE DEF front, back
    <3>3. /\ front \o back \in Seq(S)
          /\ Len(front \o back) = Len(s) - 1
      <4>1. ASSUME NEW a \in Seq(S), NEW b \in Seq(S)
            PROVE  a \o b \in Seq(S) /\ Len(a \o b) = Len(a) + Len(b)
        OBVIOUS
      <4>2. (k - 1) + (Len(s) - k) = Len(s) - 1
        OBVIOUS
      <4>3. front \in Seq(S) /\ back \in Seq(S)
        BY <3>1, <3>2
      <4>4. front \o back \in Seq(S) /\ Len(front \o back) = Len(front) + Len(back)
        BY <4>1, <4>3, Zenon
      <4> QED BY <4>4, <4>2, <3>1, <3>2
    <3>4. ASSUME NEW i \in 1..(Len(s) - 1)
          PROVE  (front \o back)[i] = IF i < k THEN s[i] ELSE s[i + 1]
      <4>1. CASE i < k
        BY <4>1, <3>1, <3>2
      <4>2. CASE ~(i < k)
        <5>1. (front \o back)[i] = back[i - (k - 1)]
          BY <4>2, <3>1, <3>2
        <5>2. i - (k - 1) \in 1..(Len(s) - k)
          BY <4>2
        <5>3. back[i - (k - 1)] = s[k + (i - (k - 1))]
          BY <3>2, <5>2
        <5>4. k + (i - (k - 1)) = i + 1
          OBVIOUS
        <5> QED BY <4>2, <5>1, <5>3, <5>4
      <4> QED BY <4>1, <4>2
    <3> QED BY <3>3, <3>4 DEF front, back
  <2> HIDE DEF t
  <2>6. \A i \in 1..Len(t) : /\ t[i] # c
                             /\ \E j \in 1..Len(s) : t[i] = s[j]
    <3> SUFFICES ASSUME NEW i \in 1..Len(t)
                 PROVE  t[i] # c /\ \E j \in 1..Len(s) : t[i] = s[j]
      OBVIOUS
    <3>1. CASE i < k
      BY <3>1, <2>1, <2>5
    <3>2. CASE ~(i < k)
      <4>1. t[i] = s[i + 1] /\ i + 1 \in 1..Len(s) /\ i + 1 # k
        BY <3>2, <2>1, <2>5
      <4> QED BY <4>1, <2>1
    <3> QED BY <3>1, <3>2
  <2>7. \A i, j \in 1..Len(t) : t[i] = t[j] => i = j
    BY <2>1, <2>5
  <2>8. ASSUME NEW j \in 1..Len(s), s[j] # c PROVE \E i \in 1..Len(t) : t[i] = s[j]
    <3>1. CASE j < k
      BY <3>1, <2>5
    <3>2. CASE ~(j < k)
      <4>1. j - 1 \in 1..Len(t) /\ ~(j - 1 < k) /\ (j - 1) + 1 = j
        BY <3>2, <2>1, <2>5, <2>8
      <4> QED BY <4>1, <2>5
    <3> QED BY <3>1, <3>2
  <2>9. RemoveFirst(s, c) = t
    BY <2>4 DEF t
  <2> QED BY <2>5, <2>6, <2>7, <2>8, <2>9, Zenon
<1> QED BY <1>1, <1>2

\* A publisher's Send, its count and its place apart.
LEMMA TypesOfPublishers ==
  ASSUME TypeOK, NEW p \in Publishers, PublisherStep(p)
  PROVE  TypeOK'
<1>1. CASE Publish(p)
  <2> DEFINE call == IF announced = NoOne
                     THEN [pc |-> "send", count |-> pub[p].count + 1, todo |-> Targets(subs)]
                     ELSE [pc |-> "rlock", count |-> pub[p].count + 1, todo |-> <<>>]
  <2>1. pub[p].count + 1 \in Nat /\ Targets(subs) \in Seq(Clients) /\ <<>> \in Seq(Clients)
    BY DEF TypeOK, Calls, Targets
  <2>2. call \in Calls
    BY <2>1 DEF Calls
  <2>3. pub' = [pub EXCEPT ![p] = call]
    BY <1>1 DEF Publish
  <2> HIDE DEF call
  <2>4. pub' \in [Publishers -> Calls]
    BY <2>2, <2>3 DEF TypeOK
  <2> QED BY <1>1, <2>4 DEF TypeOK, Publish
<1>2. CASE Send(p)
  <2> DEFINE c == Head(pub[p].todo)
  <2>1. pub[p] \in Calls /\ pub[p].todo \in Seq(Clients) /\ pub[p].todo # <<>>
    BY <1>2 DEF TypeOK, Calls, Send
  <2>2. c \in Clients /\ Tail(pub[p].todo) \in Seq(Clients)
    BY <2>1
  <2>3. [pub[p] EXCEPT !.todo = Tail(@)] \in Calls
    BY <2>1, <2>2 DEF Calls
  <2>4. pub' = [pub EXCEPT ![p] = [pub[p] EXCEPT !.todo = Tail(@)]]
    BY <1>2 DEF Send, TypeOK
  <2>5. pub' \in [Publishers -> Calls]
    BY <2>3, <2>4 DEF TypeOK
  <2>6. <<p, pub[p].count>> \in Event
    BY <2>1 DEF Event, Calls
  <2>7. buf' = IF Room(c) THEN [buf EXCEPT ![c] = Append(@, <<p, pub[p].count>>)] ELSE buf
    BY <1>2 DEF Send
  <2> DEFINE ev == <<p, pub[p].count>>
  <2> HIDE DEF c, ev
  <2>8. /\ buf' \in [Clients -> Seq(Event)]
        /\ \A k \in Clients : Len(buf'[k]) <= Buffer
    <3>1. CASE ~Room(c)
      BY <3>1, <2>7 DEF TypeOK
    <3>2. CASE Room(c)
      <4>1. buf[c] \in Seq(Event) /\ Len(buf[c]) < Buffer /\ ev \in Event
        BY <2>2, <2>6, <3>2 DEF TypeOK, Room, ev
      <4>2. /\ Append(buf[c], ev) \in Seq(Event)
            /\ Len(Append(buf[c], ev)) <= Buffer
        BY <4>1, BufferAssumption
      <4>3. buf' = [buf EXCEPT ![c] = Append(buf[c], ev)]
        BY <2>7, <3>2 DEF ev
      <4> QED BY <4>2, <4>3, <2>2 DEF TypeOK
    <3> QED BY <3>1, <3>2
  <2> QED BY <1>2, <2>5, <2>8 DEF TypeOK, Send
<1>3. CASE Published(p)
  <2>1. [pub[p] EXCEPT !.pc = "idle"] \in Calls
    BY DEF TypeOK, Calls
  <2>2. pub' = [pub EXCEPT ![p] = [pub[p] EXCEPT !.pc = "idle"]]
    BY <1>3 DEF Published, TypeOK
  <2>3. pub' \in [Publishers -> Calls]
    BY <2>1, <2>2 DEF TypeOK
  <2> QED BY <1>3, <2>3 DEF TypeOK, Published
<1> QED BY <1>1, <1>2, <1>3 DEF PublisherStep

\* Letting the waiting readers in leaves every call of Publish well formed.
LEMMA TypesOfAdmitted ==
  ASSUME TypeOK, NEW list \in Seq(Clients), AdmitReaders(list)
  PROVE  pub' \in [Publishers -> Calls]
<1> DEFINE call(p) == IF pub[p].pc = "rlock"
                      THEN [pub[p] EXCEPT !.pc = "send", !.todo = Targets(list)]
                      ELSE pub[p]
<1>1. \A p \in Publishers : call(p) \in Calls
  BY DEF TypeOK, Calls, Targets
<1>2. pub' = [p \in Publishers |-> call(p)]
  BY DEF AdmitReaders
<1> QED BY <1>1, <1>2

LEMMA TypesOfClients ==
  ASSUME SendInv, NEW c \in Clients, ClientStep(c)
  PROVE  TypeOK'
<1> USE DEF SendInv
<1>1. CASE Announce(c)
  BY <1>1 DEF TypeOK, Announce
<1>2. CASE Subscribe(c)
  <2>1. subs' \in Seq(Clients) /\ AdmitReaders(subs')
    BY <1>2 DEF Subscribe, TypeOK
  <2>2. pub' \in [Publishers -> Calls]
    BY <2>1, TypesOfAdmitted
  <2>3. [p \in Publishers |-> IF pub[p].pc = "rlock" THEN pub[p].count - 1
                                                     ELSE pub[p].count] \in [Publishers -> Nat]
    <3>1. ASSUME NEW p \in Publishers
          PROVE  (IF pub[p].pc = "rlock" THEN pub[p].count - 1 ELSE pub[p].count) \in Nat
      <4>1. pub[p].count \in Nat /\ (pub[p].pc = "rlock" => pub[p].count > 0)
        BY DEF TypeOK, Calls, CallShape
      <4> QED BY <4>1
    <3> QED BY <3>1
  <2>4. since' \in [Clients -> [Publishers -> Nat]]
    BY <1>2, <2>3 DEF Subscribe, TypeOK
  <2> QED BY <1>2, <2>1, <2>2, <2>4 DEF Subscribe, TypeOK, SSEStates
<1>3. CASE Unsubscribe(c)
  <2>1. subs' \in Seq(Clients) /\ AdmitReaders(subs')
    BY <1>3, RemovedOnce DEF Unsubscribe, TypeOK, ListShape
  <2>2. pub' \in [Publishers -> Calls]
    BY <2>1, TypesOfAdmitted
  <2> QED BY <1>3, <2>1, <2>2 DEF Unsubscribe, TypeOK, SSEStates
<1>4. CASE Close(c)
  BY <1>4 DEF TypeOK, Close, SSEStates
<1>5. CASE Receive(c)
  <2>1. buf[c] \in Seq(Event) /\ buf[c] # <<>> /\ Len(buf[c]) <= Buffer
    BY <1>5 DEF TypeOK, Receive
  <2>2. /\ <<Head(buf[c])>> \in Seq(Event)
        /\ Tail(buf[c]) \in Seq(Event)
        /\ Len(Tail(buf[c])) <= Buffer
    BY <2>1, BufferAssumption
  <2>3. /\ hand' = [hand EXCEPT ![c] = <<Head(buf[c])>>]
        /\ buf' = [buf EXCEPT ![c] = Tail(buf[c])]
    BY <1>5 DEF Receive
  <2>4. hand' \in [Clients -> Seq(Event)]
    BY <2>2, <2>3 DEF TypeOK
  <2>5. /\ buf' \in [Clients -> Seq(Event)]
        /\ \A k \in Clients : Len(buf'[k]) <= Buffer
    BY <2>2, <2>3 DEF TypeOK
  <2> QED BY <1>5, <2>4, <2>5 DEF TypeOK, Receive, SSEStates
<1>6. CASE KeepAlive(c)
  BY <1>6 DEF TypeOK, KeepAlive, SSEStates
<1>7. CASE Leave(c)
  BY <1>7 DEF TypeOK, Leave, SSEStates
<1>8. CASE Written(c)
  <2>1. got[c] \o hand[c] \in Seq(Event) /\ <<>> \in Seq(Event)
    BY DEF TypeOK
  <2>2. hand' \in [Clients -> Seq(Event)] /\ got' \in [Clients -> Seq(Event)]
    BY <1>8, <2>1 DEF TypeOK, Written
  <2> QED BY <1>8, <2>2 DEF TypeOK, Written, SSEStates
<1>9. CASE WriteFails(c)
  <2>1. hand' \in [Clients -> Seq(Event)]
    BY <1>9 DEF TypeOK, WriteFails
  <2> QED BY <1>9, <2>1 DEF TypeOK, WriteFails, SSEStates
<1>10. CASE HangUp(c)
  BY <1>10 DEF TypeOK, HangUp
<1>11. CASE CloseBody(c)
  BY <1>11 DEF TypeOK, CloseBody
<1> QED
  BY <1>1, <1>2, <1>3, <1>4, <1>5, <1>6, <1>7, <1>8, <1>9, <1>10, <1>11 DEF ClientStep
-----------------------------------------------------------------------------
LEMMA ShapesOfPublishers ==
  ASSUME SendInv, NEW p \in Publishers, PublisherStep(p)
  PROVE  (ListShape /\ CallShape)'
<1> USE DEF SendInv
<1>0. subs' = subs /\ sse' = sse /\ closed' = closed
  BY DEF PublisherStep, Publish, Send, Published
<1>1. ListShape'
  BY <1>0 DEF ListShape
<1>2. SUFFICES ASSUME NEW q \in Publishers
               PROVE  /\ pub'[q].pc # "send" => pub'[q].todo = <<>>
                      /\ pub'[q].pc # "idle" => pub'[q].count > 0
                      /\ \A i \in 1..Len(pub'[q].todo) :
                           \E j \in 1..Len(subs) : pub'[q].todo[i] = subs[j]
  BY <1>0, <1>1 DEF CallShape
<1>3. CASE q # p
  <2>1. pub'[q] = pub[q]
    BY <1>3 DEF PublisherStep, Publish, Send, Published, TypeOK
  <2> QED BY <2>1 DEF CallShape
<1>4. CASE q = p /\ Publish(p)
  <2>1. pub[p].count \in Nat
    BY DEF TypeOK, Calls
  <2>2. CASE announced = NoOne
    <3>1. pub'[q] = [pc |-> "send", count |-> pub[p].count + 1, todo |-> subs]
      BY <1>4, <2>2 DEF Publish, TypeOK, Targets
    <3> QED BY <3>1, <2>1
  <2>3. CASE announced # NoOne
    <3>1. pub'[q] = [pc |-> "rlock", count |-> pub[p].count + 1, todo |-> <<>>]
      BY <1>4, <2>3 DEF Publish, TypeOK
    <3> QED BY <3>1, <2>1
  <2> QED BY <2>2, <2>3
<1>5. CASE q = p /\ Send(p)
  <2>1. pub[p].todo \in Seq(Clients) /\ pub[p].todo # <<>> /\ pub[p].pc = "send"
    BY <1>5 DEF TypeOK, Calls, Send
  <2>2. pub'[q].pc = "send" /\ pub'[q].count = pub[p].count /\ pub'[q].todo = Tail(pub[p].todo)
    BY <1>5, <2>1 DEF Send, TypeOK, Calls
  <2>3. \A i \in 1..Len(Tail(pub[p].todo)) :
          i + 1 \in 1..Len(pub[p].todo) /\ Tail(pub[p].todo)[i] = pub[p].todo[i + 1]
    BY <2>1
  <2> QED BY <2>1, <2>2, <2>3 DEF CallShape
<1>6. CASE q = p /\ Published(p)
  <2>1. pub'[q].pc = "idle" /\ pub'[q].todo = <<>>
    BY <1>6 DEF Published, TypeOK, Calls
  <2> QED BY <2>1
<1> QED BY <1>3, <1>4, <1>5, <1>6 DEF PublisherStep

\* Nobody is sending while the list changes, and those let in afterwards see
\* the new list.
LEMMA ShapesOfAdmitted ==
  ASSUME SendInv, Sending = {}, AdmitReaders(subs'), subs' \in Seq(Clients)
  PROVE  CallShape'
<1> USE DEF SendInv
<1> SUFFICES ASSUME NEW p \in Publishers
             PROVE  /\ pub'[p].pc # "send" => pub'[p].todo = <<>>
                    /\ pub'[p].pc # "idle" => pub'[p].count > 0
                    /\ \A i \in 1..Len(pub'[p].todo) :
                         \E j \in 1..Len(subs') : pub'[p].todo[i] = subs'[j]
  BY DEF CallShape
<1>1. CASE pub[p].pc = "rlock"
  <2>1. pub'[p].pc = "send" /\ pub'[p].count = pub[p].count /\ pub'[p].todo = subs'
    BY <1>1 DEF AdmitReaders, Targets, TypeOK, Calls
  <2> QED BY <1>1, <2>1 DEF CallShape
<1>2. CASE pub[p].pc # "rlock"
  <2>1. pub'[p] = pub[p] /\ pub[p].pc # "send"
    BY <1>2 DEF AdmitReaders, Sending
  <2>2. pub[p].todo = <<>> /\ (pub[p].pc # "idle" => pub[p].count > 0)
    BY <2>1 DEF CallShape
  <2> QED BY <2>1, <2>2
<1> QED BY <1>1, <1>2

LEMMA ShapesOfClients ==
  ASSUME SendInv, NEW c \in Clients, ClientStep(c)
  PROVE  (ListShape /\ CallShape)'
<1> USE DEF SendInv
<1>0. ASSUME subs' = subs, pub' = pub PROVE CallShape'
  BY <1>0 DEF CallShape
<1>1. CASE Announce(c) \/ HangUp(c) \/ CloseBody(c)
  <2>1. subs' = subs /\ pub' = pub /\ sse' = sse /\ closed' = closed
    BY <1>1 DEF Announce, HangUp, CloseBody
  <2> QED BY <2>1, <1>0 DEF ListShape
<1>2. CASE Subscribe(c)
  <2>1. /\ subs' = Append(subs, c) /\ subs' \in Seq(Clients)
        /\ Len(subs') = Len(subs) + 1
        /\ \A i \in 1..Len(subs) : subs'[i] = subs[i]
        /\ subs'[Len(subs) + 1] = c
    BY <1>2 DEF Subscribe, TypeOK
  <2>2. CallShape'
    BY <1>2, <2>1, ShapesOfAdmitted DEF Subscribe
  <2>3. sse' = [sse EXCEPT ![c] = "select"] /\ closed' = closed /\ sse[c] = "off"
    BY <1>2 DEF Subscribe
  <2>4. \A i \in 1..Len(subs) : subs[i] \in Clients /\ subs[i] # c
    <3>1. \A i \in 1..Len(subs) : subs[i] \in Clients
      BY DEF TypeOK
    <3>2. \A i \in 1..Len(subs) : sse[subs[i]] # sse[c]
      BY <2>3 DEF ListShape
    <3> QED BY <3>1, <3>2
  <2>5. ASSUME NEW i \in 1..Len(subs')
        PROVE  sse'[subs'[i]] \in {"select", "write", "cancel"}
    <3>1. CASE i \in 1..Len(subs)
      BY <3>1, <2>1, <2>3, <2>4 DEF ListShape, TypeOK
    <3>2. CASE i = Len(subs) + 1
      BY <3>2, <2>1, <2>3 DEF TypeOK
    <3>3. i \in 1..Len(subs) \/ i = Len(subs) + 1
      BY <2>1 DEF TypeOK
    <3> QED BY <3>1, <3>2, <3>3
  <2>6. \A i, j \in 1..Len(subs') : subs'[i] = subs'[j] => i = j
    <3>1. \A i \in 1..Len(subs') : i \in 1..Len(subs) \/ i = Len(subs) + 1
      BY <2>1 DEF TypeOK
    <3> QED BY <3>1, <2>1, <2>4 DEF ListShape
  <2>7. \A k \in closed' : sse'[k] = "end"
    BY <2>3 DEF ListShape, TypeOK
  <2> QED BY <2>2, <2>5, <2>6, <2>7 DEF ListShape
<1>3. CASE Unsubscribe(c)
  <2> DEFINE rest == RemoveFirst(subs, c)
  <2>1. /\ rest \in Seq(Clients)
        /\ \A i \in 1..Len(rest) : rest[i] # c /\ \E j \in 1..Len(subs) : rest[i] = subs[j]
        /\ \A i, j \in 1..Len(rest) : rest[i] = rest[j] => i = j
    <3>1. subs \in Seq(Clients) /\ \A i, j \in 1..Len(subs) : subs[i] = subs[j] => i = j
      BY DEF TypeOK, ListShape
    <3> QED BY <3>1, RemovedOnce, ZenonT(30)
  <2>2. subs' = rest /\ sse' = [sse EXCEPT ![c] = "close"] /\ closed' = closed
    BY <1>3 DEF Unsubscribe
  <2> HIDE DEF rest
  <2>3. CallShape'
    BY <1>3, <2>1, <2>2, ShapesOfAdmitted DEF Unsubscribe
  <2>4. ASSUME NEW i \in 1..Len(rest)
        PROVE  sse'[rest[i]] \in {"select", "write", "cancel"}
    <3>1. PICK j \in 1..Len(subs) : rest[i] = subs[j]
      BY <2>1
    <3>2. rest[i] # c /\ subs[j] \in Clients
      <4>1. rest[i] # c
        BY <2>1, Zenon
      <4>2. subs[j] \in Clients
        BY DEF TypeOK
      <4> QED BY <4>1, <4>2
    <3>3. sse'[rest[i]] = sse[subs[j]]
      BY <3>1, <3>2, <2>2 DEF TypeOK
    <3> QED BY <3>3 DEF ListShape
  <2>5. \A k \in closed' : sse'[k] = "end"
    <3>1. sse[c] = "cancel"
      BY <1>3 DEF Unsubscribe
    <3> QED BY <2>2, <3>1 DEF ListShape, TypeOK
  <2> QED BY <2>1, <2>2, <2>3, <2>4, <2>5 DEF ListShape
<1>4. CASE Close(c)
  <2>1. /\ subs' = subs /\ pub' = pub /\ closed' = closed \cup {c}
        /\ sse' = [sse EXCEPT ![c] = "end"] /\ sse[c] = "close"
    BY <1>4 DEF Close
  <2>2. \A i \in 1..Len(subs) : subs[i] \in Clients /\ subs[i] # c
    <3>1. \A i \in 1..Len(subs) : subs[i] \in Clients
      BY DEF TypeOK
    <3>2. \A i \in 1..Len(subs) : sse[subs[i]] # sse[c]
      BY <2>1 DEF ListShape
    <3> QED BY <3>1, <3>2
  <2> QED BY <2>1, <2>2, <1>0 DEF ListShape, TypeOK
<1>5. CASE Receive(c) \/ KeepAlive(c) \/ Leave(c) \/ Written(c) \/ WriteFails(c)
  <2>1. /\ subs' = subs /\ pub' = pub /\ closed' = closed
        /\ sse[c] \in {"select", "write"}
        /\ \E st \in {"select", "write", "cancel"} : sse' = [sse EXCEPT ![c] = st]
    BY <1>5 DEF Receive, KeepAlive, Leave, Written, WriteFails
  <2>2. PICK st \in {"select", "write", "cancel"} : sse' = [sse EXCEPT ![c] = st]
    BY <2>1
  <2>3. \A i \in 1..Len(subs) : subs[i] \in Clients
    BY DEF TypeOK
  <2> QED BY <2>1, <2>2, <2>3, <1>0 DEF ListShape, TypeOK
<1> QED BY <1>1, <1>2, <1>3, <1>4, <1>5 DEF ClientStep

-----------------------------------------------------------------------------
LEMMA SendInvInductive == Spec => []SendInv
<1>1. Init => SendInv
  <2>1. Init => TypeOK
    BY BufferAssumption DEF Init, TypeOK, Calls, SSEStates
  <2>2. Init => ListShape /\ CallShape
    BY DEF Init, ListShape, CallShape
  <2> QED BY <2>1, <2>2 DEF SendInv
<1>2. SendInv /\ [Next]_vars => SendInv'
  <2> SUFFICES ASSUME SendInv, [Next]_vars PROVE SendInv'
    OBVIOUS
  <2>1. ASSUME NEW p \in Publishers, PublisherStep(p) PROVE SendInv'
    BY <2>1, TypesOfPublishers, ShapesOfPublishers DEF SendInv
  <2>2. ASSUME NEW c \in Clients, ClientStep(c) PROVE SendInv'
    BY <2>2, TypesOfClients, ShapesOfClients DEF SendInv
  <2>3. CASE UNCHANGED vars
    BY <2>3 DEF vars, SendInv, TypeOK, ListShape, CallShape
  <2> QED BY <2>1, <2>2, <2>3 DEF Next
<1> QED BY <1>1, <1>2, PTL DEF Spec

\* The state of the publisher and of the goroutines that serve /events keeps
\* its types, and no channel ever holds more than its capacity.
THEOREM EventTypes == Spec => []TypeOK
<1>1. SendInv => TypeOK
  BY DEF SendInv
<1> QED BY <1>1, SendInvInductive, PTL

\* Publish never sends on a closed channel, whatever requests come and go
\* meanwhile: publisher.go:19-33 and 42-55.
THEOREM PublishSendsOpen == Spec => []SendsOpen
<1>1. SendInv => SendsOpen
  <2> SUFFICES ASSUME SendInv, NEW p \in Publishers, NEW i \in 1..Len(pub[p].todo)
               PROVE  pub[p].todo[i] \notin closed
    BY DEF SendsOpen
  <2>1. PICK j \in 1..Len(subs) : pub[p].todo[i] = subs[j]
    BY DEF SendInv, CallShape
  <2>2. sse[subs[j]] # "end"
    BY DEF SendInv, ListShape
  <2> QED BY <2>1, <2>2 DEF SendInv, ListShape
<1> QED BY <1>1, SendInvInductive, PTL

-----------------------------------------------------------------------------
(* What a client reads is in order.                                        *)

\* The event p counts last is still to be offered to c.
Awaits(c, p) ==
  pub[p].pc = "rlock" \/ \E i \in 1..Len(pub[p].todo) : pub[p].todo[i] = c

\* Number n of p's events may have reached c: it was counted and offered.
Reached(c, p, n) ==
  n <= pub[p].count /\ (Awaits(c, p) => n < pub[p].count)

TodoOnce ==
  \A p \in Publishers : \A i, j \in 1..Len(pub[p].todo) : pub[p].todo[i] = pub[p].todo[j] => i = j

SinceShape ==
  \A c \in Clients, p \in Publishers :
    Reached(c, p, since[c][p]) /\ (sse[c] = "off" => since[c][p] = 0)

\* Events of one publisher have rising numbers.
Rising(s) ==
  \A i, j \in 1..Len(s) : i < j /\ s[i][1] = s[j][1] => s[i][2] < s[j][2]

\* They are events that may have reached c, since it has subscribed.
Fits(c, s) ==
  \A i \in 1..Len(s) : s[i][2] > since[c][s[i][1]] /\ Reached(c, s[i][1], s[i][2])

StreamShape ==
  \A c \in Clients :
    /\ sse[c] # "write" => hand[c] = <<>>
    /\ sse[c] = "off" => got[c] = <<>> /\ buf[c] = <<>>
    /\ Rising(Stream(c)) /\ Fits(c, Stream(c))

OrderInv == SendInv /\ TodoOnce /\ SinceShape /\ StreamShape

\* Appending an event whose number is above those before it from the same
\* publisher keeps the numbers rising.
LEMMA RisingAppend ==
  ASSUME NEW s \in Seq(Event), NEW e \in Event, Rising(s),
         \A i \in 1..Len(s) : s[i][1] = e[1] => s[i][2] < e[2]
  PROVE  Rising(Append(s, e))
<1>1. /\ Len(Append(s, e)) = Len(s) + 1 /\ Len(s) \in Nat
      /\ Append(s, e)[Len(s) + 1] = e
      /\ \A i \in 1..Len(s) : Append(s, e)[i] = s[i]
  OBVIOUS
<1> DEFINE t == Append(s, e)
<1> HIDE DEF t
<1>2. SUFFICES ASSUME NEW i \in 1..Len(t), NEW j \in 1..Len(t), i < j, t[i][1] = t[j][1]
               PROVE  t[i][2] < t[j][2]
  BY DEF Rising, t
<1>3. i \in 1..Len(s) /\ t[i] = s[i]
  BY <1>1, <1>2 DEF t
<1>4. CASE j \in 1..Len(s)
  BY <1>1, <1>2, <1>3, <1>4 DEF Rising, t
<1>5. CASE j = Len(s) + 1
  BY <1>1, <1>2, <1>3, <1>5 DEF t
<1> QED BY <1>1, <1>4, <1>5 DEF t

\* Where index i goes when n elements are put in after the first k.
Shifted(i, k, n) == IF i <= k THEN i ELSE i + n

\* Leaving out what is in the middle keeps the order of the rest.
LEMMA WithoutMiddle ==
  ASSUME NEW a \in Seq(Event), NEW b \in Seq(Event), NEW d \in Seq(Event)
  PROVE  \A i \in 1..Len(a \o <<>> \o d) :
           /\ Shifted(i, Len(a), Len(b)) \in 1..Len(a \o b \o d)
           /\ (a \o b \o d)[Shifted(i, Len(a), Len(b))] = (a \o <<>> \o d)[i]
<1> USE DEF Shifted
<1>1. /\ Len(a \o b) = Len(a) + Len(b) /\ a \o b \in Seq(Event) /\ a \o <<>> = a
      /\ Len(a) \in Nat /\ Len(b) \in Nat /\ Len(d) \in Nat
  OBVIOUS
<1> DEFINE ab == a \o b
<1>2. \A i \in 1..Len(a) : ab[i] = a[i]
  OBVIOUS
<1>3. a \o b \o d = ab \o d /\ a \o <<>> \o d = a \o d
  BY <1>1
<1> HIDE DEF ab
<1>4. ab \in Seq(Event) /\ Len(ab) = Len(a) + Len(b)
  BY <1>1 DEF ab
<1>5. ASSUME NEW i \in 1..Len(a \o d)
      PROVE  /\ Shifted(i, Len(a), Len(b)) \in 1..Len(ab \o d)
             /\ (ab \o d)[Shifted(i, Len(a), Len(b))] = (a \o d)[i]
  <2>1. CASE i <= Len(a)
    BY <1>1, <1>2, <1>4, <2>1
  <2>2. CASE ~(i <= Len(a))
    BY <1>1, <1>4, <2>2
  <2> QED BY <2>1, <2>2
<1> QED BY <1>3, <1>5

LEMMA StreamTypes ==
  ASSUME TypeOK, NEW c \in Clients
  PROVE  /\ got[c] \in Seq(Event) /\ hand[c] \in Seq(Event) /\ buf[c] \in Seq(Event)
         /\ Stream(c) \in Seq(Event)
         /\ \A i \in 1..Len(Stream(c)) : Stream(c)[i][1] \in Publishers /\ Stream(c)[i][2] \in Nat
<1>1. got[c] \in Seq(Event) /\ hand[c] \in Seq(Event) /\ buf[c] \in Seq(Event)
  BY DEF TypeOK
<1>2. Stream(c) \in Seq(Event)
  BY <1>1 DEF Stream
<1>3. \A i \in 1..Len(Stream(c)) : Stream(c)[i] \in Event
  BY <1>2
<1>4. \A e \in Event : e[1] \in Publishers /\ e[2] \in Nat
  BY DEF Event
<1> QED BY <1>1, <1>2, <1>3, <1>4

\* What has reached a client stays so: an event that was offered to it, or
\* that no longer can be, is never offered again.
LEMMA ReachedStays ==
  ASSUME SendInv, Next, NEW c \in Clients, NEW p \in Publishers, NEW n \in Nat, Reached(c, p, n)
  PROVE  Reached(c, p, n)'
<1> USE DEF SendInv
<1>0. pub[p].count \in Nat /\ pub[p] \in Calls /\ pub[p].todo \in Seq(Clients)
  BY DEF TypeOK, Calls
<1>1. ASSUME pub'[p] = pub[p] PROVE Reached(c, p, n)'
  BY <1>1 DEF Reached, Awaits
<1>2. ASSUME NEW q \in Publishers, PublisherStep(q) PROVE Reached(c, p, n)'
  <2>1. CASE q # p
    <3>1. pub'[p] = pub[p]
      BY <1>2, <2>1 DEF PublisherStep, Publish, Send, Published, TypeOK
    <3> QED BY <3>1, <1>1
  <2>2. CASE q = p /\ Publish(p)
    <3>1. pub'[p].count = pub[p].count + 1
      BY <2>2, <1>0 DEF Publish, TypeOK, Calls
    <3> QED BY <3>1, <1>0 DEF Reached
  <2>3. CASE q = p /\ Send(p)
    <3>1. pub[p].todo # <<>> /\ pub[p].pc = "send"
      BY <2>3 DEF Send
    <3>2. pub'[p].pc = "send" /\ pub'[p].count = pub[p].count /\ pub'[p].todo = Tail(pub[p].todo)
      BY <2>3, <3>1, <1>0 DEF Send, TypeOK, Calls
    <3>3. \A i \in 1..Len(Tail(pub[p].todo)) :
            i + 1 \in 1..Len(pub[p].todo) /\ Tail(pub[p].todo)[i] = pub[p].todo[i + 1]
      BY <3>1, <1>0
    <3>4. Awaits(c, p)' => Awaits(c, p)
      BY <3>2, <3>3 DEF Awaits
    <3> QED BY <3>2, <3>4 DEF Reached
  <2>4. CASE q = p /\ Published(p)
    <3>1. pub'[p].pc = "idle" /\ pub'[p].count = pub[p].count /\ pub'[p].todo = pub[p].todo
      BY <2>4, <1>0 DEF Published, TypeOK, Calls
    <3>2. Awaits(c, p)' => Awaits(c, p)
      BY <3>1 DEF Awaits
    <3> QED BY <3>1, <3>2 DEF Reached
  <2> QED BY <1>2, <2>1, <2>2, <2>3, <2>4 DEF PublisherStep
<1>3. ASSUME NEW list, AdmitReaders(list) PROVE Reached(c, p, n)'
  <2>1. CASE pub[p].pc = "rlock"
    <3>1. pub'[p].count = pub[p].count
      BY <1>3, <2>1, <1>0 DEF AdmitReaders, Calls
    <3>2. n < pub[p].count
      BY <2>1 DEF Reached, Awaits
    <3> QED BY <3>1, <3>2, <1>0 DEF Reached
  <2>2. CASE pub[p].pc # "rlock"
    <3>1. pub'[p] = pub[p]
      BY <1>3, <2>2 DEF AdmitReaders
    <3> QED BY <3>1, <1>1
  <2> QED BY <2>1, <2>2
<1>4. ASSUME NEW k \in Clients, ClientStep(k) PROVE Reached(c, p, n)'
  <2>1. CASE Subscribe(k) \/ Unsubscribe(k)
    BY <2>1, <1>3 DEF Subscribe, Unsubscribe
  <2>2. CASE ~(Subscribe(k) \/ Unsubscribe(k))
    <3>1. pub' = pub
      BY <1>4, <2>2 DEF ClientStep, Announce, Close, Receive, KeepAlive, Leave, Written,
                        WriteFails, HangUp, CloseBody
    <3> QED BY <3>1, <1>1
  <2> QED BY <2>1, <2>2
<1> QED BY <1>2, <1>4 DEF Next

LEMMA TodoOnceStep ==
  ASSUME SendInv, SendInv', TodoOnce, Next
  PROVE  TodoOnce'
<1> USE DEF SendInv
<1>1. SUFFICES ASSUME NEW p \in Publishers
      PROVE  \A i, j \in 1..Len(pub'[p].todo) : pub'[p].todo[i] = pub'[p].todo[j] => i = j
  BY DEF TodoOnce
<1>2. pub[p] \in Calls /\ pub[p].todo \in Seq(Clients)
  BY DEF TypeOK, Calls
<1>3. \A i, j \in 1..Len(pub[p].todo) : pub[p].todo[i] = pub[p].todo[j] => i = j
  BY DEF TodoOnce
<1>4. CASE pub'[p].todo \in {pub[p].todo, <<>>}
  BY <1>3, <1>4
<1>5. CASE pub'[p].todo = Tail(pub[p].todo) /\ pub[p].todo # <<>>
  <2>1. \A i \in 1..Len(Tail(pub[p].todo)) :
          i + 1 \in 1..Len(pub[p].todo) /\ Tail(pub[p].todo)[i] = pub[p].todo[i + 1]
    BY <1>5, <1>2
  <2>2. ASSUME NEW i \in 1..Len(Tail(pub[p].todo)), NEW j \in 1..Len(Tail(pub[p].todo)),
               Tail(pub[p].todo)[i] = Tail(pub[p].todo)[j]
        PROVE  i = j
    <3>1. i + 1 = j + 1
      BY <2>1, <2>2, <1>3
    <3> QED BY <3>1
  <2> QED BY <1>5, <2>2
<1>6. CASE pub'[p].todo = subs
  BY <1>6 DEF ListShape
<1>7. CASE pub'[p].todo = subs'
  BY <1>7 DEF ListShape
<1>8. ASSUME NEW q \in Publishers, PublisherStep(q)
      PROVE  \/ pub'[p].todo \in {pub[p].todo, <<>>, subs}
             \/ pub'[p].todo = Tail(pub[p].todo) /\ pub[p].todo # <<>>
  <2>1. CASE Publish(q)
    BY <2>1, <1>2 DEF Publish, TypeOK, Targets, Calls
  <2>2. CASE Send(q)
    BY <2>2, <1>2 DEF Send, TypeOK, Calls
  <2>3. CASE Published(q)
    BY <2>3, <1>2 DEF Published, TypeOK, Calls
  <2> QED BY <1>8, <2>1, <2>2, <2>3 DEF PublisherStep
<1>9. ASSUME NEW k \in Clients, ClientStep(k)
      PROVE  pub'[p].todo \in {pub[p].todo, subs'}
  <2>1. CASE Subscribe(k) \/ Unsubscribe(k)
    <3>1. AdmitReaders(subs')
      BY <2>1 DEF Subscribe, Unsubscribe
    <3> QED BY <3>1, <1>2 DEF AdmitReaders, Targets, Calls
  <2>2. CASE ~(Subscribe(k) \/ Unsubscribe(k))
    BY <1>9, <2>2 DEF ClientStep, Announce, Close, Receive, KeepAlive, Leave, Written,
                      WriteFails, HangUp, CloseBody
  <2> QED BY <2>1, <2>2
<1> QED BY <1>4, <1>5, <1>6, <1>7, <1>8, <1>9 DEF Next

LEMMA SinceStep ==
  ASSUME SendInv, SinceShape, Next
  PROVE  SinceShape'
<1> USE DEF SendInv
<1>1. SUFFICES ASSUME NEW c \in Clients, NEW p \in Publishers
               PROVE  Reached(c, p, since[c][p])' /\ (sse'[c] = "off" => since'[c][p] = 0)
  BY DEF SinceShape
<1>2. since[c][p] \in Nat /\ pub[p].count \in Nat /\ pub[p] \in Calls
  BY DEF TypeOK, Calls
<1>3. CASE since'[c][p] = since[c][p] /\ (sse'[c] = "off" => sse[c] = "off")
  <2> DEFINE n == since[c][p]
  <2>1. Reached(c, p, n)
    BY DEF SinceShape
  <2> HIDE DEF n
  <2>2. n \in Nat
    BY <1>2 DEF n
  <2>3. n <= pub'[p].count /\ (Awaits(c, p)' => n < pub'[p].count)
    BY <2>1, <2>2, ReachedStays DEF Reached
  <2> QED BY <1>3, <2>3 DEF Reached, SinceShape, n
<1>4. CASE Subscribe(c)
  <2>1. since'[c][p] = IF pub[p].pc = "rlock" THEN pub[p].count - 1 ELSE pub[p].count
    BY <1>4 DEF Subscribe, TypeOK
  <2>2. sse'[c] # "off" /\ Sending = {} /\ AdmitReaders(subs')
    BY <1>4 DEF Subscribe, TypeOK
  <2>3. CASE pub[p].pc = "rlock"
    <3>1. pub'[p].count = pub[p].count /\ since'[c][p] = pub[p].count - 1
      BY <2>1, <2>2, <2>3, <1>2 DEF AdmitReaders, Calls
    <3> QED BY <3>1, <2>2, <1>2 DEF Reached
  <2>4. CASE pub[p].pc # "rlock"
    <3>1. pub'[p] = pub[p] /\ pub[p].pc # "send" /\ since'[c][p] = pub[p].count
      BY <2>1, <2>2, <2>4 DEF AdmitReaders, Sending
    <3>2. pub[p].todo = <<>>
      BY <3>1 DEF CallShape
    <3>3. ~Awaits(c, p)'
      BY <3>1, <3>2, <2>4 DEF Awaits
    <3> QED BY <3>1, <3>3, <2>2, <1>2 DEF Reached
  <2> QED BY <2>3, <2>4
<1>5. ASSUME NEW q \in Publishers, PublisherStep(q)
      PROVE  since' = since /\ sse' = sse
  BY <1>5 DEF PublisherStep, Publish, Send, Published
<1>6. ASSUME NEW k \in Clients, ClientStep(k), ~Subscribe(c)
      PROVE  since'[c][p] = since[c][p] /\ (sse'[c] = "off" => sse[c] = "off")
  <2>1. CASE Subscribe(k)
    <3>1. k # c
      BY <2>1, <1>6
    <3> QED BY <2>1, <3>1 DEF Subscribe, TypeOK
  <2>2. CASE ~Subscribe(k)
    <3>1. since' = since
      BY <1>6, <2>2 DEF ClientStep, Announce, Unsubscribe, Close, Receive, KeepAlive, Leave,
                        Written, WriteFails, HangUp, CloseBody
    <3>2. \/ sse' = sse
          \/ \E st \in SSEStates \ {"off"} : sse' = [sse EXCEPT ![k] = st]
      BY <1>6, <2>2 DEF ClientStep, Announce, Unsubscribe, Close, Receive, KeepAlive, Leave,
                        Written, WriteFails, HangUp, CloseBody, SSEStates
    <3> QED BY <3>1, <3>2 DEF TypeOK
  <2> QED BY <2>1, <2>2
<1> QED BY <1>3, <1>4, <1>5, <1>6 DEF Next

\* What a step does to the stream of c: it offers an event to c, it loses
\* the one in hand to a closed pipe, or it leaves the stream as it is.
LEMMA StreamStep ==
  ASSUME SendInv, StreamShape, Next, NEW c \in Clients
  PROVE  \/ Stream(c)' = Stream(c)
         \/ WriteFails(c) /\ Stream(c)' = got[c] \o <<>> \o buf[c]
         \/ \E p \in Publishers :
              /\ Send(p) /\ c = Head(pub[p].todo)
              /\ Stream(c)' = Append(Stream(c), <<p, pub[p].count>>)
<1> USE DEF SendInv
<1>1. got[c] \in Seq(Event) /\ hand[c] \in Seq(Event) /\ buf[c] \in Seq(Event)
  BY StreamTypes
<1>2. ASSUME UNCHANGED <<got, hand, buf>> PROVE Stream(c)' = Stream(c)
  BY <1>2 DEF Stream
<1>3. ASSUME NEW p \in Publishers, PublisherStep(p)
      PROVE  \/ Stream(c)' = Stream(c)
             \/ /\ Send(p) /\ c = Head(pub[p].todo)
                /\ Stream(c)' = Append(Stream(c), <<p, pub[p].count>>)
  <2>1. CASE Publish(p) \/ Published(p)
    BY <2>1, <1>2 DEF Publish, Published
  <2>2. CASE Send(p)
    <3> DEFINE ev == <<p, pub[p].count>>
    <3>1. got' = got /\ hand' = hand
      BY <2>2 DEF Send
    <3>2. buf' = buf \/ buf' = [buf EXCEPT ![Head(pub[p].todo)] = Append(@, ev)]
      BY <2>2 DEF Send
    <3>3. ev \in Event
      BY DEF TypeOK, Calls, Event
    <3> HIDE DEF ev
    <3>4. CASE buf'[c] = buf[c]
      BY <3>1, <3>4 DEF Stream
    <3>5. CASE buf'[c] = Append(buf[c], ev) /\ c = Head(pub[p].todo)
      <4>1. ASSUME NEW a \in Seq(Event), NEW b \in Seq(Event)
            PROVE  a \o Append(b, ev) = Append(a \o b, ev)
        BY <3>3
      <4>2. got[c] \o hand[c] \in Seq(Event)
        BY <1>1
      <4>3. Stream(c)' = (got[c] \o hand[c]) \o Append(buf[c], ev)
        BY <3>1, <3>5, Zenon DEF Stream
      <4>4. Stream(c)' = Append(Stream(c), ev)
        BY <1>1, <4>1, <4>2, <4>3, Zenon DEF Stream
      <4> QED BY <2>2, <3>5, <4>4 DEF ev
    <3> QED BY <3>2, <3>4, <3>5 DEF TypeOK
  <2> QED BY <1>3, <2>1, <2>2 DEF PublisherStep
<1>4. ASSUME NEW k \in Clients, ClientStep(k)
      PROVE  Stream(c)' = Stream(c) \/ (WriteFails(c) /\ Stream(c)' = got[c] \o <<>> \o buf[c])
  <2>1. CASE Receive(k)
    <3>1. CASE k # c
      BY <2>1, <3>1 DEF Receive, TypeOK, Stream
    <3>2. CASE k = c
      <4>1. hand[c] = <<>> /\ buf[c] # <<>>
        BY <2>1, <3>2 DEF Receive, StreamShape
      <4>2. hand'[c] = <<Head(buf[c])>> /\ buf'[c] = Tail(buf[c]) /\ got'[c] = got[c]
        BY <2>1, <3>2 DEF Receive, TypeOK
      <4>3. ASSUME NEW a \in Seq(Event), NEW b \in Seq(Event), b # <<>>
            PROVE  a \o <<Head(b)>> \o Tail(b) = a \o <<>> \o b
        BY <4>3
      <4> QED BY <1>1, <4>1, <4>2, <4>3 DEF Stream
    <3> QED BY <3>1, <3>2
  <2>2. CASE Written(k)
    <3>1. CASE k # c
      BY <2>2, <3>1 DEF Written, TypeOK, Stream
    <3>2. CASE k = c
      <4>1. got'[c] = got[c] \o hand[c] /\ hand'[c] = <<>> /\ buf'[c] = buf[c]
        BY <2>2, <3>2 DEF Written, TypeOK
      <4>2. ASSUME NEW a \in Seq(Event)
            PROVE  a \o <<>> = a
        OBVIOUS
      <4>3. got[c] \o hand[c] \in Seq(Event)
        BY <1>1
      <4> QED BY <4>1, <4>2, <4>3 DEF Stream
    <3> QED BY <3>1, <3>2
  <2>3. CASE WriteFails(k)
    <3>1. CASE k # c
      BY <2>3, <3>1 DEF WriteFails, TypeOK, Stream
    <3>2. CASE k = c
      BY <2>3, <3>2 DEF WriteFails, TypeOK, Stream
    <3> QED BY <3>1, <3>2
  <2>4. CASE ~(Receive(k) \/ Written(k) \/ WriteFails(k))
    <3>1. UNCHANGED <<got, hand, buf>>
      BY <1>4, <2>4 DEF ClientStep, Announce, Subscribe, Unsubscribe, Close, KeepAlive, Leave,
                        HangUp, CloseBody
    <3> QED BY <3>1, <1>2
  <2> QED BY <2>1, <2>2, <2>3, <2>4
<1> QED BY <1>3, <1>4 DEF Next

\* The event in hand and the streams of clients that are not yet there.
LEMMA HandStep ==
  ASSUME SendInv, StreamShape, Next, NEW c \in Clients
  PROVE  /\ sse'[c] # "write" => hand'[c] = <<>>
         /\ sse'[c] = "off" => got'[c] = <<>> /\ buf'[c] = <<>>
<1> USE DEF SendInv
<1>1. /\ sse[c] # "write" => hand[c] = <<>>
      /\ sse[c] = "off" => got[c] = <<>> /\ buf[c] = <<>>
  BY DEF StreamShape
<1>2. ASSUME NEW p \in Publishers, PublisherStep(p)
      PROVE  sse' = sse /\ hand' = hand /\ got' = got /\ (sse[c] = "off" => buf'[c] = buf[c])
  <2>1. CASE Publish(p) \/ Published(p)
    BY <2>1 DEF Publish, Published
  <2>2. CASE Send(p)
    <3>1. pub[p].todo \in Seq(Clients) /\ pub[p].todo # <<>>
      BY <2>2 DEF Send, TypeOK, Calls
    <3>2. 1 \in 1..Len(pub[p].todo) /\ Head(pub[p].todo) = pub[p].todo[1]
      BY <3>1
    <3>3. sse[Head(pub[p].todo)] # "off"
      BY <3>2 DEF CallShape, ListShape
    <3>4. buf' = buf \/ buf' = [buf EXCEPT ![Head(pub[p].todo)] = Append(@, <<p, pub[p].count>>)]
      BY <2>2 DEF Send
    <3> QED BY <2>2, <3>3, <3>4 DEF Send, TypeOK
  <2> QED BY <1>2, <2>1, <2>2 DEF PublisherStep
<1>3. ASSUME NEW k \in Clients, ClientStep(k), k # c
      PROVE  sse'[c] = sse[c] /\ hand'[c] = hand[c] /\ got'[c] = got[c] /\ buf'[c] = buf[c]
  BY <1>3 DEF ClientStep, Announce, Subscribe, Unsubscribe, Close, Receive, KeepAlive, Leave,
              Written, WriteFails, HangUp, CloseBody, TypeOK
<1>4. ASSUME ClientStep(c)
      PROVE  /\ sse'[c] # "write" => hand'[c] = <<>>
             /\ sse'[c] = "off" => sse[c] = "off" /\ got'[c] = got[c] /\ buf'[c] = buf[c]
  BY <1>1, <1>4 DEF ClientStep, Announce, Subscribe, Unsubscribe, Close, Receive, KeepAlive,
                    Leave, Written, WriteFails, HangUp, CloseBody, TypeOK
<1>5. CASE \E p \in Publishers : PublisherStep(p)
  BY <1>1, <1>2, <1>5
<1>6. CASE \E k \in Clients : ClientStep(k)
  BY <1>1, <1>3, <1>4, <1>6
<1> QED BY <1>5, <1>6 DEF Next

\* When c's turn comes, the event of p is above all that c has of p, and c
\* is not offered it again.
LEMMA OfferedNext ==
  ASSUME OrderInv, NEW p \in Publishers, NEW c \in Clients, Send(p), c = Head(pub[p].todo)
  PROVE  /\ Awaits(c, p) /\ ~Awaits(c, p)'
         /\ since[c][p] < pub[p].count /\ since[c][p] \in Nat
         /\ Rising(Append(Stream(c), <<p, pub[p].count>>))
<1> USE DEF OrderInv
<1> DEFINE n == pub[p].count
           ev == <<p, n>>
           s == Stream(c)
<1>1. /\ pub[p].todo \in Seq(Clients) /\ pub[p].todo # <<>> /\ pub[p].pc = "send"
      /\ n \in Nat /\ ev \in Event
  BY DEF Send, SendInv, TypeOK, Calls, Event
<1>2. pub'[p].pc = "send" /\ pub'[p].todo = Tail(pub[p].todo)
  BY <1>1 DEF Send, SendInv, TypeOK, Calls
<1>3. /\ 1 \in 1..Len(pub[p].todo) /\ pub[p].todo[1] = c
      /\ \A i \in 1..Len(Tail(pub[p].todo)) :
           i + 1 \in 1..Len(pub[p].todo) /\ i + 1 # 1 /\ Tail(pub[p].todo)[i] = pub[p].todo[i + 1]
  BY <1>1
<1>4. Awaits(c, p) /\ ~Awaits(c, p)'
  BY <1>1, <1>2, <1>3 DEF Awaits, TodoOnce
<1>5. since[c][p] < n /\ since[c][p] \in Nat
  BY <1>4 DEF SinceShape, Reached, SendInv, TypeOK
<1>6. s \in Seq(Event) /\ Rising(s) /\ Fits(c, s)
  BY StreamTypes DEF StreamShape, SendInv
<1>7. \A i \in 1..Len(s) : s[i][1] = p => s[i][2] < n
  BY <1>4, <1>6 DEF Fits, Reached
<1>8. ev[1] = p /\ ev[2] = n
  OBVIOUS
<1> HIDE DEF ev, n, s
<1>9. Rising(Append(s, ev))
  <2>1. \A i \in 1..Len(s) : s[i][1] = ev[1] => s[i][2] < ev[2]
    BY <1>7, <1>8
  <2> QED BY <1>1, <1>6, <2>1, RisingAppend
<1> QED BY <1>4, <1>5, <1>9 DEF n, ev, s

LEMMA OrderStep ==
  ASSUME OrderInv, SendInv', Next
  PROVE  OrderInv'
<1> USE DEF OrderInv
<1>1. TodoOnce' /\ SinceShape'
  BY TodoOnceStep, SinceStep
<1>2. SUFFICES ASSUME NEW c \in Clients PROVE Rising(Stream(c))' /\ Fits(c, Stream(c))'
  BY <1>1, HandStep DEF StreamShape
<1> DEFINE s == Stream(c)
           waits(p) == pub'[p].pc = "rlock" \/ \E i \in 1..Len(pub'[p].todo) : pub'[p].todo[i] = c
           reached(p, n) == n <= pub'[p].count /\ (waits(p) => n < pub'[p].count)
           fits(t) == \A i \in 1..Len(t) : t[i][2] > since'[c][t[i][1]] /\ reached(t[i][1], t[i][2])
<1>3. s \in Seq(Event) /\ \A i \in 1..Len(s) : s[i][1] \in Publishers /\ s[i][2] \in Nat
  BY StreamTypes DEF SendInv
<1>4. Rising(s) /\ Fits(c, s)
  BY DEF StreamShape
<1>5. since'[c] = since[c] \/ s = <<>>
  <2>1. CASE Subscribe(c)
    <3>1. hand[c] = <<>> /\ got[c] = <<>> /\ buf[c] = <<>>
      BY <2>1 DEF Subscribe, StreamShape
    <3> QED BY <3>1 DEF Stream
  <2>2. CASE ~Subscribe(c)
    <3>1. \/ since' = since
          \/ \E k \in Clients : k # c /\ Subscribe(k)
      BY <2>2 DEF Next, PublisherStep, Publish, Send, Published, ClientStep, Announce,
                  Unsubscribe, Close, Receive, KeepAlive, Leave, Written, WriteFails, HangUp,
                  CloseBody
    <3> QED BY <3>1 DEF Subscribe, SendInv, TypeOK
  <2> QED BY <2>1, <2>2
<1> HIDE DEF s
<1>0. ASSUME NEW t, Stream(c)' = t, Rising(t), fits(t)
      PROVE  Rising(Stream(c))' /\ Fits(c, Stream(c))'
  BY <1>0 DEF Rising, Fits, Reached, Awaits
<1>6. fits(s)
  <2>1. CASE s = <<>>
    BY <2>1
  <2>2. CASE since'[c] = since[c]
    <3> SUFFICES ASSUME NEW i \in 1..Len(s)
                 PROVE  s[i][2] > since'[c][s[i][1]] /\ reached(s[i][1], s[i][2])
      OBVIOUS
    <3>1. PICK p \in Publishers, n \in Nat : p = s[i][1] /\ n = s[i][2]
      BY <1>3
    <3>2. n > since[c][p] /\ Reached(c, p, n)
      BY <1>4, <3>1 DEF Fits
    <3>3. reached(p, n)
      BY <3>2, ReachedStays DEF Reached, Awaits, SendInv
    <3> QED BY <2>2, <3>1, <3>2, <3>3
  <2> QED BY <1>5, <2>1, <2>2
<1> HIDE DEF fits
<1>7. CASE Stream(c)' = s
  BY <1>0, <1>4, <1>6, <1>7
<1>8. CASE Stream(c)' = got[c] \o <<>> \o buf[c]
  <2> DEFINE t == got[c] \o <<>> \o buf[c]
             m(i) == Shifted(i, Len(got[c]), Len(hand[c]))
  <2>1. \A i \in 1..Len(t) : m(i) \in 1..Len(s) /\ s[m(i)] = t[i]
    <3>1. got[c] \in Seq(Event) /\ hand[c] \in Seq(Event) /\ buf[c] \in Seq(Event)
      BY StreamTypes DEF SendInv
    <3>2. s = got[c] \o hand[c] \o buf[c]
      BY DEF Stream, s
    <3>3. \A i \in 1..Len(got[c] \o <<>> \o buf[c]) :
            /\ Shifted(i, Len(got[c]), Len(hand[c])) \in 1..Len(got[c] \o hand[c] \o buf[c])
            /\ (got[c] \o hand[c] \o buf[c])[Shifted(i, Len(got[c]), Len(hand[c]))]
                 = (got[c] \o <<>> \o buf[c])[i]
      BY <3>1, WithoutMiddle, Zenon
    <3> QED BY <3>2, <3>3, Zenon
  <2>2. \A i, j \in 1..Len(t) : i < j => m(i) < m(j)
    <3>1. Len(got[c]) \in Nat /\ Len(hand[c]) \in Nat /\ t \in Seq(Event)
      BY StreamTypes DEF SendInv
    <3> HIDE DEF t
    <3> QED BY <3>1 DEF Shifted
  <2> HIDE DEF t, m
  <2>3. Rising(t)
    BY <1>4, <2>1, <2>2 DEF Rising
  <2>4. fits(t)
    <3> HIDE DEF reached
    <3> QED BY <1>6, <2>1 DEF fits
  <2> QED BY <1>0, <1>8, <2>3, <2>4 DEF t
<1>9. ASSUME NEW p \in Publishers, Send(p), c = Head(pub[p].todo),
             Stream(c)' = Append(s, <<p, pub[p].count>>)
      PROVE  Rising(Stream(c))' /\ Fits(c, Stream(c))'
  <2> DEFINE n == pub[p].count
             ev == <<p, n>>
             t == Append(s, ev)
  <2>1. /\ pub[p].todo \in Seq(Clients) /\ pub[p].todo # <<>> /\ pub[p].pc = "send"
        /\ n \in Nat /\ ev \in Event
    BY <1>9 DEF Send, SendInv, TypeOK, Calls, Event
  <2>2. pub'[p].pc = "send" /\ pub'[p].count = n /\ pub'[p].todo = Tail(pub[p].todo)
    BY <1>9, <2>1 DEF Send, SendInv, TypeOK, Calls
  <2>3. ~Awaits(c, p)' /\ since[c][p] < n /\ since[c][p] \in Nat /\ Rising(t)
    BY <1>9, OfferedNext DEF s
  <2>4. since'[c] = since[c]
    BY <1>9 DEF Send
  <2>5. ev[1] = p /\ ev[2] = n
    OBVIOUS
  <2> HIDE DEF ev, n
  <2>9. /\ Len(t) = Len(s) + 1 /\ Len(s) \in Nat /\ t[Len(s) + 1] = ev
        /\ \A i \in 1..Len(s) : t[i] = s[i]
    BY <1>3, <2>1
  <2>10. ev[2] > since'[c][ev[1]] /\ reached(ev[1], ev[2])
    <3>1. ~waits(p) /\ pub'[p].count = n /\ n \in Nat
      BY <2>1, <2>2, <2>3, Zenon DEF Awaits
    <3>2. n > since'[c][p]
      BY <2>1, <2>3, <2>4
    <3> HIDE DEF waits
    <3>3. reached(p, n)
      BY <3>1
    <3> HIDE DEF reached
    <3> QED BY <2>5, <3>2, <3>3
  <2> HIDE DEF t, reached
  <2>11. ASSUME NEW i \in 1..Len(t)
         PROVE  t[i][2] > since'[c][t[i][1]] /\ reached(t[i][1], t[i][2])
    <3>1. CASE i \in 1..Len(s)
      BY <1>6, <2>9, <3>1 DEF fits
    <3>2. CASE i = Len(s) + 1
      BY <2>9, <2>10, <3>2
    <3> QED BY <2>9, <3>1, <3>2
  <2>12. fits(t)
    BY <2>11 DEF fits
  <2> QED BY <1>0, <1>9, <2>3, <2>12 DEF t, ev, n
<1> QED BY <1>7, <1>8, <1>9, StreamStep DEF s

LEMMA OrderInvInductive == Spec => []OrderInv
<1>1. Init => TodoOnce /\ SinceShape /\ StreamShape
  <2> SUFFICES ASSUME Init PROVE TodoOnce /\ SinceShape /\ StreamShape
    OBVIOUS
  <2>1. TodoOnce
    BY DEF Init, TodoOnce
  <2>2. SinceShape
    BY DEF Init, SinceShape, Reached, Awaits
  <2>3. \A c \in Clients : hand[c] = <<>> /\ got[c] = <<>> /\ buf[c] = <<>> /\ Stream(c) = <<>>
    BY DEF Init, Stream
  <2>4. StreamShape
    BY <2>3 DEF StreamShape, Rising, Fits
  <2> QED BY <2>1, <2>2, <2>4
<1>2. OrderInv /\ SendInv' /\ [Next]_vars => OrderInv'
  <2> SUFFICES ASSUME OrderInv, SendInv', [Next]_vars PROVE OrderInv'
    OBVIOUS
  <2>1. CASE Next
    BY <2>1, OrderStep
  <2>2. CASE UNCHANGED vars
    <3>1. UNCHANGED <<pub, since, sse, hand, got, buf>>
      BY <2>2 DEF vars
    <3>2. TodoOnce' /\ SinceShape'
      BY <3>1 DEF OrderInv, TodoOnce, SinceShape, Reached, Awaits
    <3>3. \A c \in Clients : Stream(c)' = Stream(c)
      BY <3>1 DEF Stream
    <3>4. ASSUME NEW c \in Clients, NEW t, Rising(t), Fits(c, t), Stream(c)' = t
          PROVE  Rising(Stream(c))' /\ Fits(c, Stream(c))'
      BY <3>1, <3>4 DEF Rising, Fits, Reached, Awaits
    <3>5. StreamShape'
      BY <3>1, <3>3, <3>4 DEF OrderInv, StreamShape
    <3> QED BY <3>2, <3>5 DEF OrderInv
  <2> QED BY <2>1, <2>2
<1>3. SendInv /\ TodoOnce /\ SinceShape /\ StreamShape => OrderInv
  BY DEF OrderInv
<1> QED BY <1>1, <1>2, <1>3, SendInvInductive, PTL DEF Spec

\* A client of GET /events sees the events of one goroutine in the order it
\* published them, each at most once and none from before it subscribed,
\* whatever is dropped for lack of room (publisher.go:25-28) and however the
\* subscriptions of others come and go meanwhile (publisher.go:35-55).
THEOREM StreamsInOrder == Spec => []InOrder
<1>1. OrderInv => InOrder
  BY DEF OrderInv, StreamShape, Rising, Fits, InOrder
<1> QED BY <1>1, OrderInvInductive, PTL

-----------------------------------------------------------------------------
(* What a client misses.                                                   *)

\* More events were begun since c subscribed than its channel holds.
Over(c) == Cardinality(Begun(c)) > Buffer

\* The channel of a request that is being served is in the list.
Listed ==
  \A c \in Clients : sse[c] \in {"select", "write"} => \E i \in 1..Len(subs) : subs[i] = c

\* What c was offered since it subscribed is in its stream.
Kept(c) ==
  \A p \in Publishers, n \in Nat :
    since[c][p] < n /\ Reached(c, p, n) => \E i \in 1..Len(Stream(c)) : Stream(c)[i] = <<p, n>>

Served(c) == sse[c] \in {"select", "write"} /\ c \notin deaf

LossInv == Listed /\ \A c \in Clients : Served(c) => Over(c) \/ Kept(c)

LEMMA BegunElements ==
  ASSUME TypeOK, NEW c \in Clients
  PROVE  /\ IsFiniteSet(Begun(c))
         /\ \A p \in Publishers, n \in Nat :
              <<p, n>> \in Begun(c) <=> since[c][p] < n /\ n <= pub[p].count
<1> DEFINE range(p) == since[c][p] + 1 .. pub[p].count
           block(p) == {p} \X range(p)
           blocks == {block(p) : p \in Publishers}
<1>1. \A p \in Publishers : since[c][p] \in Nat /\ pub[p].count \in Nat
  BY DEF TypeOK, Calls
<1>2. ASSUME NEW p \in Publishers PROVE IsFiniteSet(block(p))
  <2>1. IsFiniteSet(range(p))
    BY <1>1, FS_Interval
  <2>2. IsFiniteSet({p})
    BY FS_Singleton
  <2> HIDE DEF range
  <2> QED BY <2>1, <2>2, FS_Product
<1>3. IsFiniteSet(blocks)
  <2> DEFINE f == [p \in Publishers |-> block(p)]
  <2> HIDE DEF block
  <2>1. f \in Surjection(Publishers, blocks)
    BY DEF Surjection
  <2> HIDE DEF blocks, f
  <2> QED BY <2>1, PublishersAssumption, FS_Surjection
<1>4. IsFiniteSet(UNION blocks)
  <2>1. \A T \in blocks : IsFiniteSet(T)
    BY <1>2
  <2> HIDE DEF blocks
  <2> QED BY <1>3, <2>1, FS_UNION
<1>5. Begun(c) = UNION blocks
  BY DEF Begun
<1>6. ASSUME NEW p \in Publishers, NEW n \in Nat
      PROVE  <<p, n>> \in UNION blocks <=> n \in range(p)
  <2> HIDE DEF range
  <2> QED OBVIOUS
<1>7. \A p \in Publishers, n \in Nat : n \in range(p) <=> since[c][p] < n /\ n <= pub[p].count
  BY <1>1
<1> QED BY <1>4, <1>5, <1>6, <1>7

LEMMA BegunFiniteNext ==
  TypeOK' => (\A c \in Clients : IsFiniteSet(Begun(c)))'
<1>1. TypeOK => \A c \in Clients : IsFiniteSet(Begun(c))
  BY BegunElements
<1> QED BY <1>1, PTL

\* A channel that is full when its turn comes has been offered one event
\* more than it holds: those that wait in it are all different.
LEMMA FullMeansOver ==
  ASSUME OrderInv, NEW p \in Publishers, NEW c \in Clients, Send(p), c = Head(pub[p].todo),
         ~Room(c)
  PROVE  Over(c)
<1> USE DEF OrderInv
<1> DEFINE n == pub[p].count
           ev == <<p, n>>
           s == Stream(c)
           t == Append(s, ev)
<1>1. n \in Nat /\ since[c][p] < n /\ Rising(t)
  BY OfferedNext DEF SendInv, TypeOK, Calls
<1>2. /\ s \in Seq(Event) /\ Len(s) >= Buffer
      /\ \A i \in 1..Len(s) : s[i][1] \in Publishers /\ s[i][2] \in Nat
  <2>1. /\ got[c] \in Seq(Event) /\ hand[c] \in Seq(Event) /\ buf[c] \in Seq(Event)
        /\ s \in Seq(Event)
        /\ \A i \in 1..Len(s) : s[i][1] \in Publishers /\ s[i][2] \in Nat
    BY StreamTypes DEF SendInv
  <2>2. ASSUME NEW a \in Seq(Event), NEW b \in Seq(Event), NEW d \in Seq(Event)
        PROVE  Len(a \o b \o d) >= Len(d)
    <3>1. a \o b \in Seq(Event) /\ Len(a \o b) \in Nat
      OBVIOUS
    <3> QED BY <3>1
  <2>3. Len(s) >= Len(buf[c])
    BY <2>1, <2>2, Zenon DEF Stream
  <2> HIDE DEF s
  <2> QED BY <2>1, <2>3, BufferAssumption DEF Room
<1>3. Fits(c, s)
  BY DEF StreamShape
<1>4. ev \in Event /\ ev[1] = p /\ ev[2] = n
  BY <1>1 DEF Event
<1> HIDE DEF n, ev, s
<1>5. /\ Len(t) = Len(s) + 1 /\ Len(s) \in Nat /\ t[Len(s) + 1] = ev /\ t \in Seq(Event)
      /\ \A i \in 1..Len(s) : t[i] = s[i]
  BY <1>2, <1>4
<1> HIDE DEF t
<1>6. IsFiniteSet(Begun(c))
  BY BegunElements DEF SendInv
<1>7. ASSUME NEW i \in 1..Len(t) PROVE t[i] \in Begun(c)
  <2>1. CASE i \in 1..Len(s)
    <3>1. t[i] = s[i] /\ s[i] \in Event
      BY <1>2, <1>5, <2>1
    <3>2. s[i][1] \in Publishers /\ s[i][2] \in Nat /\ s[i] = <<s[i][1], s[i][2]>>
      BY <3>1 DEF Event
    <3>3. since[c][s[i][1]] < s[i][2] /\ s[i][2] <= pub[s[i][1]].count
      BY <1>3, <2>1, <3>2 DEF Fits, Reached, SendInv, TypeOK
    <3> QED BY <3>1, <3>2, <3>3, BegunElements DEF SendInv
  <2>2. CASE i = Len(s) + 1
    <3>1. t[i] = <<p, n>>
      BY <1>5, <2>2 DEF ev
    <3>2. n <= pub[p].count
      BY <1>1 DEF n
    <3> QED BY <1>1, <3>1, <3>2, BegunElements DEF SendInv
  <2> QED BY <1>5, <2>1, <2>2
<1>8. ASSUME NEW i \in 1..Len(t), NEW j \in 1..Len(t), t[i] = t[j] PROVE i = j
  <2>1. t[i] \in Event /\ t[j] \in Event
    BY <1>5
  <2>2. t[i][2] \in Nat
    BY <2>1 DEF Event
  <2>3. ~(i < j) /\ ~(j < i)
    BY <1>1, <1>8, <2>2 DEF Rising
  <2> QED BY <1>5, <2>3
<1>9. t \in Injection(1..Len(t), Begun(c))
  BY <1>5, <1>7, <1>8 DEF Injection, IsInjective
<1>10. Cardinality(1..Len(t)) <= Cardinality(Begun(c))
  BY <1>6, <1>9, FS_Injection
<1>11. Cardinality(1..Len(t)) = Len(t)
  BY <1>5, FS_Interval
<1>12. Cardinality(Begun(c)) \in Nat
  BY <1>6, FS_CardinalityType
<1> QED BY <1>2, <1>5, <1>10, <1>11, <1>12, BufferAssumption DEF Over

LEMMA ListedStep ==
  ASSUME SendInv, Listed, Next
  PROVE  Listed'
<1> USE DEF SendInv
<1>1. SUFFICES ASSUME NEW c \in Clients, sse'[c] \in {"select", "write"}
               PROVE  \E i \in 1..Len(subs') : subs'[i] = c
  BY DEF Listed
<1>2. CASE subs' = subs /\ sse[c] \in {"select", "write"}
  BY <1>2 DEF Listed
<1>3. ASSUME NEW p \in Publishers, PublisherStep(p) PROVE subs' = subs /\ sse' = sse
  BY <1>3 DEF PublisherStep, Publish, Send, Published
<1>4. ASSUME NEW k \in Clients, Subscribe(k)
      PROVE  \E i \in 1..Len(subs') : subs'[i] = c
  <2>1. /\ subs \in Seq(Clients) /\ subs' = Append(subs, k)
        /\ Len(subs') = Len(subs) + 1 /\ subs'[Len(subs) + 1] = k
        /\ \A i \in 1..Len(subs) : subs'[i] = subs[i] /\ i \in 1..Len(subs')
        /\ Len(subs) + 1 \in 1..Len(subs')
    BY <1>4 DEF Subscribe, TypeOK
  <2>2. k = c \/ sse[c] \in {"select", "write"}
    BY <1>1, <1>4 DEF Subscribe, TypeOK
  <2> QED BY <2>1, <2>2 DEF Listed
<1>5. ASSUME NEW k \in Clients, Unsubscribe(k)
      PROVE  \E i \in 1..Len(subs') : subs'[i] = c
  <2>1. k # c /\ sse[c] \in {"select", "write"} /\ subs' = RemoveFirst(subs, k)
    BY <1>1, <1>5 DEF Unsubscribe, TypeOK
  <2>2. PICK j \in 1..Len(subs) : subs[j] = c
    BY <2>1 DEF Listed
  <2>3. subs \in Seq(Clients) /\ \A i, m \in 1..Len(subs) : subs[i] = subs[m] => i = m
    BY DEF TypeOK, ListShape
  <2>4. \A m \in 1..Len(subs) :
          subs[m] # k => \E i \in 1..Len(RemoveFirst(subs, k)) : RemoveFirst(subs, k)[i] = subs[m]
    BY <2>3, RemovedOnce, Zenon
  <2> QED BY <2>1, <2>2, <2>4
<1>6. ASSUME NEW k \in Clients, ClientStep(k), ~Subscribe(k), ~Unsubscribe(k)
      PROVE  subs' = subs /\ sse[c] \in {"select", "write"}
  <2>1. subs' = subs
    BY <1>6 DEF ClientStep, Announce, Close, Receive, KeepAlive, Leave, Written, WriteFails,
                HangUp, CloseBody
  <2>2. sse'[c] = sse[c] \/ sse[c] \in {"select", "write"}
    BY <1>1, <1>6 DEF ClientStep, Announce, Close, Receive, KeepAlive, Leave, Written, WriteFails,
                HangUp, CloseBody, TypeOK
  <2> QED BY <1>1, <2>1, <2>2
<1> QED BY <1>1, <1>2, <1>3, <1>4, <1>5, <1>6 DEF Next

\* An event that has newly reached c was offered to it in this step.
LEMMA ReachedByOffer ==
  ASSUME SendInv, Listed, Listed', Next, NEW c \in Clients, NEW p \in Publishers, NEW n \in Nat,
         sse[c] \in {"select", "write"}, sse'[c] \in {"select", "write"},
         Reached(c, p, n)', ~Reached(c, p, n)
  PROVE  Send(p) /\ c = Head(pub[p].todo) /\ n = pub[p].count
<1> USE DEF SendInv
<1>0. pub[p].count \in Nat /\ pub[p] \in Calls /\ pub[p].todo \in Seq(Clients)
  BY DEF TypeOK, Calls
<1>1. pub'[p] # pub[p]
  BY DEF Reached, Awaits
<1>2. PICK l \in 1..Len(subs) : subs[l] = c
  BY DEF Listed
<1>3. PICK m \in 1..Len(subs') : subs'[m] = c
  BY DEF Listed
<1>4. ASSUME NEW q \in Publishers, PublisherStep(q)
      PROVE  Send(p) /\ c = Head(pub[p].todo) /\ n = pub[p].count
  <2>1. q = p
    BY <1>1, <1>4 DEF PublisherStep, Publish, Send, Published, TypeOK
  <2>2. CASE Publish(p)
    <3>1. pub'[p].count = pub[p].count + 1 /\ (pub'[p].pc = "rlock" \/ pub'[p].todo = subs)
      BY <2>2, <1>0 DEF Publish, TypeOK, Calls, Targets
    <3>2. Awaits(c, p)'
      BY <3>1, <1>2 DEF Awaits
    <3>3. pub[p].pc = "idle"
      BY <2>2 DEF Publish
    <3>4. pub[p].todo = <<>>
      BY <3>3 DEF CallShape
    <3>5. ~Awaits(c, p)
      BY <3>3, <3>4 DEF Awaits
    <3> QED BY <3>1, <3>2, <3>5, <1>0 DEF Reached
  <2>3. CASE Send(p)
    <3>1. pub[p].todo # <<>> /\ pub[p].pc = "send"
      BY <2>3 DEF Send
    <3>2. pub'[p].pc = "send" /\ pub'[p].count = pub[p].count /\ pub'[p].todo = Tail(pub[p].todo)
      BY <2>3, <3>1, <1>0 DEF Send, TypeOK, Calls
    <3>3. n = pub[p].count /\ Awaits(c, p) /\ ~Awaits(c, p)'
      BY <3>2, <1>0 DEF Reached
    <3>4. \A i \in 1..Len(pub[p].todo) :
            i # 1 => i - 1 \in 1..Len(Tail(pub[p].todo)) /\ Tail(pub[p].todo)[i - 1] = pub[p].todo[i]
      BY <3>1, <1>0
    <3>5. pub[p].todo[1] = c
      BY <3>1, <3>2, <3>3, <3>4 DEF Awaits
    <3>6. Head(pub[p].todo) = pub[p].todo[1]
      BY <3>1, <1>0
    <3> QED BY <2>3, <3>3, <3>5, <3>6
  <2>4. CASE Published(p)
    <3>1. /\ pub'[p].count = pub[p].count /\ pub[p].todo = <<>>
          /\ pub[p].pc = "send"
      BY <2>4, <1>0 DEF Published, TypeOK, Calls
    <3>2. ~Awaits(c, p)
      BY <3>1 DEF Awaits
    <3> QED BY <3>1, <3>2 DEF Reached
  <2> QED BY <1>4, <2>1, <2>2, <2>3, <2>4 DEF PublisherStep
<1>5. ASSUME NEW k \in Clients, ClientStep(k) PROVE FALSE
  <2>1. AdmitReaders(subs')
    BY <1>1, <1>5 DEF ClientStep, Announce, Subscribe, Unsubscribe, Close, Receive, KeepAlive,
                      Leave, Written, WriteFails, HangUp, CloseBody
  <2>2. pub[p].pc = "rlock"
    BY <1>1, <2>1 DEF AdmitReaders
  <2>3. pub'[p].count = pub[p].count /\ pub'[p].todo = subs'
    BY <2>1, <2>2, <1>0 DEF AdmitReaders, Targets, Calls
  <2>4. Awaits(c, p)'
    BY <1>3, <2>3 DEF Awaits
  <2> QED BY <2>3, <2>4, <1>0 DEF Reached
<1> QED BY <1>4, <1>5 DEF Next

\* Events of p that were begun are not forgotten while c stays subscribed.
LEMMA OverStays ==
  ASSUME SendInv, SendInv', Next, NEW c \in Clients, sse[c] \in {"select", "write"}, Over(c)
  PROVE  Over(c)'
<1> USE DEF SendInv
<1>1. since'[c] = since[c]
  BY DEF Next, PublisherStep, Publish, Send, Published, ClientStep, Announce, Subscribe,
         Unsubscribe, Close, Receive, KeepAlive, Leave, Written, WriteFails, HangUp, CloseBody, TypeOK
<1>2. ASSUME NEW p \in Publishers
      PROVE  pub[p].count \in Nat /\ pub'[p].count \in Nat /\ pub[p].count <= pub'[p].count
  <2>1. pub[p].count \in Nat /\ pub'[p].count \in Nat /\ pub[p] \in Calls
    BY DEF TypeOK, Calls
  <2>2. CASE \E q \in Publishers : PublisherStep(q)
    <3>1. PICK q \in Publishers : PublisherStep(q)
      BY <2>2
    <3>2. CASE q # p
      <4>1. pub'[p] = pub[p]
        BY <3>1, <3>2 DEF PublisherStep, Publish, Send, Published, TypeOK
      <4> QED BY <2>1, <4>1
    <3>3. CASE q = p
      <4>1. pub'[p].count = pub[p].count \/ pub'[p].count = pub[p].count + 1
        BY <2>1, <3>1, <3>3 DEF PublisherStep, Publish, Send, Published, TypeOK, Calls
      <4> QED BY <2>1, <4>1
    <3> QED BY <3>2, <3>3
  <2>3. CASE \E k \in Clients : ClientStep(k)
    <3>1. pub' = pub \/ AdmitReaders(subs')
      BY <2>3 DEF ClientStep, Announce, Subscribe, Unsubscribe, Close, Receive, KeepAlive, Leave,
                  Written, WriteFails, HangUp, CloseBody
    <3>2. pub'[p].count = pub[p].count
      BY <2>1, <3>1 DEF AdmitReaders, Calls
    <3> QED BY <2>1, <3>2
  <2> QED BY <2>2, <2>3 DEF Next
<1>3. Begun(c) \subseteq Begun(c)'
  <2> SUFFICES ASSUME NEW e \in Begun(c) PROVE e \in Begun(c)'
    OBVIOUS
  <2>1. PICK p \in Publishers : e \in {p} \X (since[c][p] + 1 .. pub[p].count)
    BY DEF Begun
  <2>2. since[c][p] \in Nat
    BY DEF TypeOK
  <2>3. e \in {p} \X (since'[c][p] + 1 .. pub'[p].count)
    BY <1>1, <1>2, <2>1, <2>2
  <2> QED BY <2>3 DEF Begun
<1>4. IsFiniteSet(Begun(c)) /\ IsFiniteSet(Begun(c)')
  <2>1. IsFiniteSet(Begun(c))
    BY BegunElements
  <2>2. IsFiniteSet(Begun(c))'
    BY BegunFiniteNext
  <2> QED BY <2>1, <2>2
<1> DEFINE old == Begun(c)
           new == Begun(c)'
<1> HIDE DEF old, new
<1>5. Cardinality(Begun(c)) <= Cardinality(Begun(c)')
  <2>1. old \in SUBSET new /\ IsFiniteSet(new)
    BY <1>3, <1>4 DEF old, new
  <2> QED BY <2>1, FS_Subset DEF old, new
<1>6. Cardinality(Begun(c)) \in Nat /\ Cardinality(Begun(c)') \in Nat
  BY <1>4, FS_CardinalityType
<1> QED BY <1>5, <1>6, BufferAssumption DEF Over

LEMMA LossStep ==
  ASSUME OrderInv, OrderInv', LossInv, Next
  PROVE  LossInv'
<1> USE DEF OrderInv, LossInv
<1>1. Listed'
  BY ListedStep
<1>2. SUFFICES ASSUME NEW c \in Clients, Served(c)' PROVE Over(c)' \/ Kept(c)'
  BY <1>1
<1>3. CASE ~(sse[c] \in {"select", "write"})
  <2>1. Subscribe(c)
    <3>1. \A p \in Publishers : ~PublisherStep(p)
      BY <1>2, <1>3 DEF PublisherStep, Publish, Send, Published, Served
    <3>2. \A k \in Clients : ClientStep(k) => Subscribe(c)
      BY <1>2, <1>3 DEF ClientStep, Announce, Subscribe, Unsubscribe, Close, Receive, KeepAlive,
                Leave, Written, WriteFails, HangUp, CloseBody, Served, SendInv, TypeOK
    <3> QED BY <3>1, <3>2 DEF Next
  <2>2. ASSUME NEW p \in Publishers, NEW n \in Nat, since'[c][p] < n PROVE ~Reached(c, p, n)'
    <3>1. since'[c][p] = IF pub[p].pc = "rlock" THEN pub[p].count - 1 ELSE pub[p].count
      BY <2>1 DEF Subscribe, SendInv, TypeOK
    <3>2. AdmitReaders(subs') /\ pub[p].count \in Nat /\ pub[p] \in Calls
      BY <2>1 DEF Subscribe, SendInv, TypeOK, Calls
    <3>3. pub'[p].count = pub[p].count
      BY <3>2 DEF AdmitReaders, Calls
    <3>4. CASE pub[p].pc = "rlock"
      <4>1. pub'[p].todo = subs'
        BY <3>2, <3>4 DEF AdmitReaders, Targets, Calls
      <4>2. \E i \in 1..Len(subs') : subs'[i] = c
        BY <1>1, <1>2 DEF Listed, Served
      <4>3. Awaits(c, p)'
        BY <4>1, <4>2 DEF Awaits
      <4> QED BY <2>2, <3>1, <3>2, <3>3, <3>4, <4>3 DEF Reached
    <3>5. CASE pub[p].pc # "rlock"
      BY <2>2, <3>1, <3>2, <3>3, <3>5 DEF Reached
    <3> QED BY <3>4, <3>5
  <2> QED BY <2>2 DEF Kept
<1>4. CASE sse[c] \in {"select", "write"}
  <2>1. Served(c)
    <3>1. deaf \subseteq deaf'
      BY DEF Next, PublisherStep, Publish, Send, Published, ClientStep, Announce, Subscribe,
             Unsubscribe, Close, Receive, KeepAlive, Leave, Written, WriteFails, HangUp, CloseBody
    <3> QED BY <1>2, <1>4, <3>1 DEF Served
  <2>2. CASE Over(c)
    BY <1>4, <2>2, OverStays
  <2>3. CASE ~Over(c)
    <3>1. Kept(c) /\ since'[c] = since[c]
      <4>1. since'[c] = since[c]
        BY <1>4 DEF Next, PublisherStep, Publish, Send, Published, ClientStep, Announce, Subscribe,
                Unsubscribe, Close, Receive, KeepAlive, Leave, Written, WriteFails, HangUp,
                CloseBody, SendInv, TypeOK
      <4> QED BY <2>1, <2>3, <4>1
    <3> DEFINE s == Stream(c)
    <3>2. s \in Seq(Event)
      BY StreamTypes DEF SendInv
    <3>3. ASSUME NEW p \in Publishers, Send(p), c = Head(pub[p].todo)
          PROVE  Stream(c)' = Append(s, <<p, pub[p].count>>)
      <4> DEFINE ev == <<p, pub[p].count>>
      <4>1. Room(c)
        BY <2>3, <3>3, FullMeansOver
      <4>2. got' = got /\ hand' = hand /\ buf' = [buf EXCEPT ![c] = Append(@, ev)]
        BY <3>3, <4>1 DEF Send
      <4>3. ev \in Event /\ got[c] \o hand[c] \in Seq(Event) /\ buf[c] \in Seq(Event)
        <5>1. ev \in Event
          BY DEF SendInv, TypeOK, Calls, Event
        <5>2. got[c] \in Seq(Event) /\ hand[c] \in Seq(Event) /\ buf[c] \in Seq(Event)
          BY StreamTypes DEF SendInv
        <5> HIDE DEF ev
        <5> QED BY <5>1, <5>2
      <4> HIDE DEF ev
      <4>4. buf'[c] = Append(buf[c], ev)
        BY <4>2 DEF SendInv, TypeOK
      <4>5. ASSUME NEW a \in Seq(Event), NEW b \in Seq(Event)
            PROVE  a \o Append(b, ev) = Append(a \o b, ev)
        BY <4>3
      <4>6. Stream(c)' = (got[c] \o hand[c]) \o Append(buf[c], ev)
        BY <4>2, <4>4, Zenon DEF Stream
      <4> QED BY <4>3, <4>5, <4>6, Zenon DEF Stream, ev
    <3>4. Stream(c)' = s \/ \E p \in Publishers : Send(p) /\ c = Head(pub[p].todo)
      <4>1. ~WriteFails(c)
        BY <2>1 DEF WriteFails, Served
      <4> QED BY <4>1, StreamStep DEF s
    <3>5. \A i \in 1..Len(s) : i \in 1..Len(Stream(c)') /\ Stream(c)'[i] = s[i]
      <4> HIDE DEF s
      <4>1. CASE Stream(c)' = s
        BY <4>1
      <4>2. ASSUME NEW e, Stream(c)' = Append(s, e)
            PROVE  \A i \in 1..Len(s) : i \in 1..Len(Stream(c)') /\ Stream(c)'[i] = s[i]
        <5>1. Len(Append(s, e)) = Len(s) + 1 /\ Len(s) \in Nat
          BY <3>2
        <5>2. \A i \in 1..Len(s) : Append(s, e)[i] = s[i]
          BY <3>2
        <5> DEFINE t == Append(s, e)
        <5> HIDE DEF t
        <5>3. \A i \in 1..Len(s) : i \in 1..Len(t) /\ t[i] = s[i]
          BY <5>1, <5>2 DEF t
        <5> QED BY <4>2, <5>3, Zenon DEF t
      <4> QED BY <3>3, <3>4, <4>1, <4>2
    <3>6. ASSUME NEW p \in Publishers, NEW n \in Nat, since'[c][p] < n, Reached(c, p, n)'
          PROVE  \E i \in 1..Len(Stream(c)') : Stream(c)'[i] = <<p, n>>
      <4>1. CASE Reached(c, p, n)
        <5>1. PICK i \in 1..Len(s) : s[i] = <<p, n>>
          BY <3>1, <3>6, <4>1 DEF Kept
        <5> QED BY <3>5, <5>1
      <4>2. CASE ~Reached(c, p, n)
        <5>1. Send(p) /\ c = Head(pub[p].todo) /\ n = pub[p].count
          BY <1>1, <1>2, <1>4, <3>6, <4>2, ReachedByOffer DEF Served
        <5>2. Stream(c)' = Append(s, <<p, n>>)
          BY <3>3, <5>1
        <5> HIDE DEF s
        <5>3. Len(s) + 1 \in 1..Len(Append(s, <<p, n>>)) /\ Append(s, <<p, n>>)[Len(s) + 1] = <<p, n>>
          BY <3>2
        <5> QED BY <5>2, <5>3
      <4> QED BY <4>1, <4>2
    <3> QED BY <3>6 DEF Kept
  <2> QED BY <2>2, <2>3
<1> QED BY <1>3, <1>4

\* A client that is connected loses an event only to a full channel: while no
\* more events were begun since it subscribed than its channel holds
\* (publisher.go:36), it has read, or has waiting, every one that was offered
\* to it, however slowly it reads.  Rests on OrderInv: the events in a full
\* channel are all different, so that one more makes too many.
THEOREM NoLossProved == Spec => []NoLossBelowBuffer
<1>1. Init => LossInv
  <2> SUFFICES ASSUME Init PROVE LossInv
    OBVIOUS
  <2>1. \A c \in Clients : sse[c] = "off"
    BY DEF Init
  <2> QED BY <2>1 DEF LossInv, Listed, Served
<1>2. OrderInv /\ OrderInv' /\ LossInv /\ [Next]_vars => LossInv'
  <2> SUFFICES ASSUME OrderInv, OrderInv', LossInv, [Next]_vars PROVE LossInv'
    OBVIOUS
  <2>1. CASE Next
    BY <2>1, LossStep
  <2>2. CASE UNCHANGED vars
    <3>1. UNCHANGED <<subs, pub, since, sse, hand, got, buf, deaf>>
      BY <2>2 DEF vars
    <3>2. Listed' /\ \A c \in Clients : Served(c)' = Served(c)
      BY <3>1 DEF LossInv, Listed, Served
    <3>3. \A c \in Clients : Over(c) => Over(c)'
      BY <3>1 DEF Over, Begun
    <3>4. \A c \in Clients : Stream(c)' = Stream(c)
      BY <3>1 DEF Stream
    <3>5. \A c \in Clients, p \in Publishers, n \in Nat : Reached(c, p, n)' = Reached(c, p, n)
      BY <3>1 DEF Reached, Awaits
    <3>6. \A c \in Clients : Kept(c) => Kept(c)'
      BY <3>1, <3>4, <3>5 DEF Kept
    <3> QED BY <3>2, <3>3, <3>6 DEF LossInv
  <2> QED BY <2>1, <2>2
<1>3. OrderInv /\ LossInv => NoLossBelowBuffer
  <2> SUFFICES ASSUME OrderInv, LossInv, NEW c \in Clients, Served(c),
                      Cardinality(Begun(c)) <= Buffer, NEW e \in AllOffered(c)
               PROVE  e \in ToSet(Stream(c))
    BY DEF NoLossBelowBuffer, Served
  <2>1. Kept(c)
    <3>1. Cardinality(Begun(c)) \in Nat
      BY BegunElements, FS_CardinalityType DEF OrderInv, SendInv
    <3> QED BY <3>1, BufferAssumption DEF LossInv, Over
  <2>2. PICK p \in Publishers : \E n \in Offered(c, p) : e = <<p, n>>
    BY DEF AllOffered
  <2>3. PICK n \in Offered(c, p) : e = <<p, n>>
    BY <2>2
  <2>4. since[c][p] \in Nat /\ pub[p].count \in Nat /\ pub[p].pc \in {"idle", "rlock", "send"}
    BY DEF OrderInv, SendInv, TypeOK, Calls
  <2>5. n \in Nat /\ since[c][p] < n /\ n <= pub[p].count
    BY <2>3, <2>4 DEF Offered
  <2>6. Reached(c, p, n)
    <3>1. n < pub[p].count \/ ~Awaits(c, p)
      BY <2>3, <2>4 DEF Offered, Awaits, OrderInv, SendInv, CallShape
    <3> QED BY <2>4, <2>5, <3>1 DEF Reached
  <2>7. PICK i \in 1..Len(Stream(c)) : Stream(c)[i] = e
    BY <2>1, <2>3, <2>5, <2>6 DEF Kept
  <2>8. DOMAIN Stream(c) = 1..Len(Stream(c))
    <3>1. Stream(c) \in Seq(Event)
      BY StreamTypes DEF OrderInv, SendInv
    <3> QED BY <3>1
  <2> QED BY <2>7, <2>8 DEF ToSet
<1> QED BY <1>1, <1>2, <1>3, OrderInvInductive, PTL DEF Spec
=============================================================================
