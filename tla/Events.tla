------------------------------- MODULE Events -------------------------------
(***************************************************************************)
(* The event publisher (internal/events/publisher.go) and the goroutine    *)
(* that serves one GET /events request from it                             *)
(* (internal/api/routes/events.go).                                        *)
(*                                                                         *)
(* Every subscriber of this program asks for all eight event types with    *)
(* one channel, so the lists the publisher keeps per type always agree and *)
(* one list stands for them.  An event is <<p, n>>, the n-th event of      *)
(* publisher p; a publisher is a goroutine that changes downloads: an API  *)
(* call inside its store transaction, a runner, a progress monitor.        *)
(*                                                                         *)
(* sync.RWMutex is modelled as Go documents it: once a writer has called   *)
(* Lock no new reader enters, and Unlock lets every waiting reader in      *)
(* before the next writer.                                                 *)
(***************************************************************************)
EXTENDS Naturals, Sequences, FiniteSets, SequencesExt

CONSTANTS Publishers,   \* goroutines that publish
          Clients,      \* GET /events requests, each with its channel
          Buffer,       \* capacity of a channel (64)
          MaxEvents,    \* bound: events published in all
          NoOne

ASSUME BufferAssumption == Buffer \in Nat \ {0}
ASSUME EventsAssumption == MaxEvents \in Nat /\ NoOne \notin Clients
ASSUME PublishersAssumption == IsFiniteSet(Publishers)

VARIABLES subs,      \* the subscribed channels, in the order they came
          buf,       \* buf[c]: what c's channel holds
          closed,    \* channels that were closed
          announced, \* the writer that has called Lock, or NoOne
          pub,       \* pub[p]: progress of p's call of Publish
          sse,       \* sse[c]: where the goroutine serving c is
          hand,      \* hand[c]: the events it has received and not written
          got,       \* got[c]: events the client has read
          gone,      \* requests whose context is done
          deaf,      \* clients whose end of the pipe is closed
          since      \* since[c][p]: events p had begun when c subscribed

vars == <<subs, buf, closed, announced, pub, sse, hand, got, gone, deaf, since>>

Event == Publishers \X Nat

SSEStates == {"off", "select", "write", "cancel", "close", "end"}

Init ==
  /\ subs = <<>>
  /\ buf = [c \in Clients |-> <<>>]
  /\ closed = {}
  /\ announced = NoOne
  /\ pub = [p \in Publishers |-> [pc |-> "idle", count |-> 0, todo |-> <<>>]]
  /\ sse = [c \in Clients |-> "off"]
  /\ hand = [c \in Clients |-> <<>>]
  /\ got = [c \in Clients |-> <<>>]
  /\ gone = {}
  /\ deaf = {}
  /\ since = [c \in Clients |-> [p \in Publishers |-> 0]]

-----------------------------------------------------------------------------
(* Publish *)

TotalEvents == FoldFunction(+, 0, [p \in Publishers |-> pub[p].count])

Sending == {p \in Publishers : pub[p].pc = "send"}

\* Every list holds every channel, once per event type.
TargetsOfAllTypes(list) == list \o list

\* The channels one event is offered to: those of its own type's list.
Targets(list) == list

\* RLock: entered at once, or after the writer that has announced itself.
Publish(p) ==
  /\ pub[p].pc = "idle"
  /\ TotalEvents < MaxEvents
  /\ pub' = [pub EXCEPT ![p] =
       IF announced = NoOne
       THEN [pc |-> "send", count |-> @.count + 1, todo |-> Targets(subs)]
       ELSE [pc |-> "rlock", count |-> @.count + 1, todo |-> <<>>]]
  /\ UNCHANGED <<subs, buf, closed, announced, sse, hand, got, gone, deaf, since>>

RoomButOne(c) == Len(buf[c]) + 1 < Buffer

RoomAlways(c) == TRUE

Room(c) == Len(buf[c]) < Buffer

\* The select without its default case.
SendWhenRoom(p) ==
  /\ pub[p].pc = "send"
  /\ pub[p].todo # <<>>
  /\ LET c == Head(pub[p].todo)
     IN  Room(c) /\ buf' = [buf EXCEPT ![c] = Append(@, <<p, pub[p].count>>)]
  /\ pub' = [pub EXCEPT ![p].todo = Tail(@)]
  /\ UNCHANGED <<subs, closed, announced, sse, hand, got, gone, deaf, since>>

\* One round of the loop: a send that gives up when the channel is full.
Send(p) ==
  /\ pub[p].pc = "send"
  /\ pub[p].todo # <<>>
  /\ LET c == Head(pub[p].todo)
     IN  buf' = IF Room(c) THEN [buf EXCEPT ![c] = Append(@, <<p, pub[p].count>>)]
                           ELSE buf
  /\ pub' = [pub EXCEPT ![p].todo = Tail(@)]
  /\ UNCHANGED <<subs, closed, announced, sse, hand, got, gone, deaf, since>>

\* RUnlock, when every channel was offered the event.
Published(p) ==
  /\ pub[p].pc = "send"
  /\ pub[p].todo = <<>>
  /\ pub' = [pub EXCEPT ![p].pc = "idle"]
  /\ UNCHANGED <<subs, buf, closed, announced, sse, hand, got, gone, deaf, since>>

-----------------------------------------------------------------------------
(* Subscribe and cancel: both change the list under the writer's lock *)

\* Lock is called: by Subscribe when a request arrives, or by cancel.
Announce(c) ==
  /\ sse[c] \in {"off", "cancel"}
  /\ announced = NoOne
  /\ announced' = c
  /\ UNCHANGED <<subs, buf, closed, pub, sse, hand, got, gone, deaf, since>>

\* Unlock lets in every Publish that waits for the read lock.
AdmitReaders(list) ==
  pub' = [p \in Publishers |->
            IF pub[p].pc = "rlock"
            THEN [pub[p] EXCEPT !.pc = "send", !.todo = Targets(list)]
            ELSE pub[p]]

Subscribe(c) ==
  /\ announced = c /\ sse[c] = "off" /\ Sending = {}
  /\ subs' = Append(subs, c)
  /\ since' = [since EXCEPT ![c] =
       [p \in Publishers |-> IF pub[p].pc = "rlock" THEN pub[p].count - 1
                                                    ELSE pub[p].count]]
  /\ announced' = NoOne
  /\ AdmitReaders(subs')
  /\ sse' = [sse EXCEPT ![c] = "select"]
  /\ UNCHANGED <<buf, closed, hand, got, gone, deaf>>

\* cancel takes the channel out of the list, under the lock ...
Unsubscribe(c) ==
  /\ announced = c /\ sse[c] = "cancel" /\ Sending = {}
  /\ subs' = RemoveFirst(subs, c)
  /\ announced' = NoOne
  /\ AdmitReaders(subs')
  /\ sse' = [sse EXCEPT ![c] = "close"]
  /\ UNCHANGED <<buf, closed, hand, got, gone, deaf, since>>

\* ... and closes it afterwards, with the goroutine's end of the pipe.
Close(c) ==
  /\ sse[c] = "close"
  /\ closed' = closed \cup {c}
  /\ sse' = [sse EXCEPT ![c] = "end"]
  /\ UNCHANGED <<subs, buf, announced, pub, hand, got, gone, deaf, since>>

-----------------------------------------------------------------------------
(* The goroutine of one request *)

\* select takes an event from the channel; its frame is to be written.
Receive(c) ==
  /\ sse[c] = "select"
  /\ buf[c] # <<>>
  /\ hand' = [hand EXCEPT ![c] = <<Head(buf[c])>>]
  /\ buf' = [buf EXCEPT ![c] = Tail(@)]
  /\ sse' = [sse EXCEPT ![c] = "write"]
  /\ UNCHANGED <<subs, closed, announced, pub, got, gone, deaf, since>>

\* select takes the ticker: a keep-alive comment is to be written.
KeepAlive(c) ==
  /\ sse[c] = "select"
  /\ sse' = [sse EXCEPT ![c] = "write"]
  /\ UNCHANGED <<subs, buf, closed, announced, pub, hand, got, gone, deaf, since>>

\* The channel is closed as soon as the request ends.
LeaveClosing(c) ==
  /\ sse[c] = "select"
  /\ c \in gone
  /\ closed' = closed \cup {c}
  /\ sse' = [sse EXCEPT ![c] = "cancel"]
  /\ UNCHANGED <<subs, buf, announced, pub, hand, got, gone, deaf, since>>

\* The context is looked at only when there is an event to write.
LeaveOnEvent(c) ==
  /\ sse[c] = "select"
  /\ c \in gone
  /\ buf[c] # <<>>
  /\ sse' = [sse EXCEPT ![c] = "cancel"]
  /\ UNCHANGED <<subs, buf, closed, announced, pub, hand, got, gone, deaf, since>>

\* select takes ctx.Done; the deferred cancel runs.
Leave(c) ==
  /\ sse[c] = "select"
  /\ c \in gone
  /\ sse' = [sse EXCEPT ![c] = "cancel"]
  /\ UNCHANGED <<subs, buf, closed, announced, pub, hand, got, gone, deaf, since>>

\* The pipe has no buffer: a write returns when the client has read it.
Written(c) ==
  /\ sse[c] = "write"
  /\ c \notin deaf
  /\ got' = [got EXCEPT ![c] = @ \o hand[c]]
  /\ hand' = [hand EXCEPT ![c] = <<>>]
  /\ sse' = [sse EXCEPT ![c] = "select"]
  /\ UNCHANGED <<subs, buf, closed, announced, pub, gone, deaf, since>>

\* A write to a pipe whose reader was closed fails; the error is ignored.
WriteFails(c) ==
  /\ sse[c] = "write"
  /\ c \in deaf
  /\ hand' = [hand EXCEPT ![c] = <<>>]
  /\ sse' = [sse EXCEPT ![c] = "select"]
  /\ UNCHANGED <<subs, buf, closed, announced, pub, got, gone, deaf, since>>

\* The HTTP server ends the request, and may close the body it was given.
HangUp(c) ==
  /\ sse[c] # "off" \/ announced = c
  /\ c \notin gone
  /\ gone' = gone \cup {c}
  /\ UNCHANGED <<subs, buf, closed, announced, pub, sse, hand, got, deaf, since>>

CloseBody(c) ==
  /\ c \in gone \ deaf
  /\ deaf' = deaf \cup {c}
  /\ UNCHANGED <<subs, buf, closed, announced, pub, sse, hand, got, gone, since>>

-----------------------------------------------------------------------------
PublisherStep(p) == Publish(p) \/ Send(p) \/ Published(p)

ClientStep(c) ==
  \/ Announce(c) \/ Subscribe(c) \/ Unsubscribe(c) \/ Close(c)
  \/ Receive(c) \/ KeepAlive(c) \/ Leave(c) \/ Written(c) \/ WriteFails(c)
  \/ HangUp(c) \/ CloseBody(c)

Next == (\E p \in Publishers : PublisherStep(p)) \/ (\E c \in Clients : ClientStep(c))

Spec == Init /\ [][Next]_vars

\* A goroutine that can run does, and select chooses at random among the
\* cases that are ready.  Nothing is assumed of the HTTP server: it need
\* neither read the pipe, nor end a request, nor close a body.
Fairness ==
  /\ \A p \in Publishers : WF_vars(Send(p) \/ Published(p))
  /\ \A c \in Clients :
       /\ WF_vars(Subscribe(c) \/ Unsubscribe(c) \/ Close(c) \/ WriteFails(c)
                  \/ (sse[c] = "cancel" /\ Announce(c)))
       /\ SF_vars(Leave(c))

FairSpec == Spec /\ Fairness

-----------------------------------------------------------------------------
Calls == [pc : {"idle", "rlock", "send"}, count : Nat, todo : Seq(Clients)]

\* The types of the state; a channel never holds more than its capacity.
TypeOK ==
  /\ subs \in Seq(Clients)
  /\ buf \in [Clients -> Seq(Event)]
  /\ \A c \in Clients : Len(buf[c]) <= Buffer
  /\ closed \subseteq Clients
  /\ announced \in Clients \cup {NoOne}
  /\ pub \in [Publishers -> Calls]
  /\ sse \in [Clients -> SSEStates]
  /\ hand \in [Clients -> Seq(Event)]
  /\ got \in [Clients -> Seq(Event)]
  /\ gone \subseteq Clients
  /\ deaf \subseteq gone
  /\ since \in [Clients -> [Publishers -> Nat]]

\* Publish never sends on a closed channel, which would end the process:
\* cancel (publisher.go:42-55) closes the channel after it has left the
\* list, and no Publish that saw it there is still at work by then.
SendsOpen ==
  \A p \in Publishers : \A i \in 1..Len(pub[p].todo) : pub[p].todo[i] \notin closed

\* What client c has read, is about to read and has waiting, oldest first.
Stream(c) == got[c] \o hand[c] \o buf[c]

\* A client sees the events of one goroutine in the order it published
\* them, each at most once, and none from before it subscribed; events are
\* dropped (publisher.go:25-28), never repeated or reordered.
InOrder ==
  \A c \in Clients :
    /\ \A i \in 1..Len(Stream(c)) : Stream(c)[i][2] > since[c][Stream(c)[i][1]]
    /\ \A i, j \in 1..Len(Stream(c)) :
         i < j /\ Stream(c)[i][1] = Stream(c)[j][1] => Stream(c)[i][2] < Stream(c)[j][2]

\* Events p has offered to c: begun since c subscribed, and c's turn passed.
Offered(c, p) ==
  {n \in since[c][p] + 1 .. pub[p].count :
     n < pub[p].count \/ pub[p].pc = "idle"
       \/ (pub[p].pc = "send" /\ \A i \in 1..Len(pub[p].todo) : pub[p].todo[i] # c)}

AllOffered(c) == UNION {{p} \X Offered(c, p) : p \in Publishers}

\* The events that were begun since c subscribed.
Begun(c) == UNION {{p} \X (since[c][p] + 1 .. pub[p].count) : p \in Publishers}

\* A client that is connected loses an event only to a full channel: while
\* no more were published than its channel holds (64, publisher.go:36) it has
\* read, or has waiting, every one of them, however slowly it reads.
NoLossBelowBuffer ==
  \A c \in Clients :
    /\ sse[c] \in {"select", "write"}
    /\ c \notin deaf
    /\ Cardinality(Begun(c)) <= Buffer
    => AllOffered(c) \subseteq ToSet(Stream(c))

\* A Publish that has begun ends, whatever the clients do: a client that does
\* not read cannot hold up the API call, inside its store transaction
\* (download.go:291), or the runner that publishes.
PublishEnds ==
  \A p \in Publishers : pub[p].pc # "idle" ~> pub[p].pc = "idle"

\* Once its request has ended and its body is closed, a client's channel is
\* taken out of the publisher's list and closed.  The second condition is
\* needed: a goroutine inside a write nobody reads never looks at ctx.Done.
GoneUnsubscribes ==
  \A c \in Clients :
    (c \in gone /\ c \in deaf) ~> (c \in closed /\ \A i \in 1..Len(subs) : subs[i] # c)
=============================================================================
