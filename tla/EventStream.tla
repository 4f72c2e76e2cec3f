---------------------------- MODULE EventStream -----------------------------
(***************************************************************************)
(* The emission stream: EventEmitter (bus/emitter.py) fans events out to a *)
(* bounded queue per subscriber, and StreamServer (stream/server.py) runs  *)
(* one handler per WebSocket client, which authenticates it, subscribes,   *)
(* sends it what comes out of its queue and unsubscribes.                  *)
(*                                                                         *)
(* emit holds the emitter's lock but awaits nothing within it, so an event *)
(* reaches all the queues in one step.                                     *)
(***************************************************************************)
EXTENDS Integers, Sequences, FiniteSets

CONSTANTS
  Client,     \* WebSocket connections
  QueueSize,  \* events buffered per subscriber
  MaxEvents   \* bound: events emitted altogether

ASSUME EventStreamAssumption == QueueSize \in Nat \ {0} /\ MaxEvents \in Nat

VARIABLES
  serving,  \* is the stream enabled
  emitted,  \* how many events were emitted; they are numbered
  handler,  \* where _handle_client of each connection is
  peer,     \* is the client still there
  queue,    \* the subscribers' queues
  hand,     \* the event the handler has taken from the queue, or 0
  sent,     \* history: the events sent to each client
  since     \* history: how many had been emitted when it subscribed

streamVars == <<serving, emitted, handler, peer, queue, hand, sent, since>>

Subscribed(c) == handler[c] \in {"welcome", "waiting", "sending"}

-----------------------------------------------------------------------------
(* EventEmitter.                                                           *)

\* Mutant: a full queue refuses the new event instead of giving up the oldest.
BugPut(q, e) == IF Len(q) = QueueSize THEN q ELSE Append(q, e)

\* Mutant: the newest of the waiting events makes room.
BugPutOver(q, e) == IF Len(q) = QueueSize THEN <<e>> \o Tail(q) ELSE Append(q, e)

Put(q, e) == Append(IF Len(q) = QueueSize THEN Tail(q) ELSE q, e)

\* emit: by the agent loop, the tools, the workers and the budget heartbeat.
Emit ==
  /\ serving /\ emitted < MaxEvents
  /\ emitted' = emitted + 1
  /\ queue' = [c \in Client |-> IF Subscribed(c) THEN Put(queue[c], emitted + 1) ELSE queue[c]]
  /\ UNCHANGED <<serving, handler, peer, hand, sent, since>>

\* Mutant: the handler ends and leaves its queue behind.
BugUnsubscribe(c) ==
  /\ handler' = [handler EXCEPT ![c] = "waiting"]
  /\ UNCHANGED <<queue, hand>>

\* unsubscribe, in the finally of the handler.
Unsubscribe(c) ==
  /\ handler' = [handler EXCEPT ![c] = "over"]
  /\ queue' = [queue EXCEPT ![c] = <<>>]
  /\ hand' = [hand EXCEPT ![c] = 0]

-----------------------------------------------------------------------------
(* StreamServer.                                                           *)

StreamTypeOK ==
  /\ serving \in BOOLEAN
  /\ emitted \in 0 .. MaxEvents
  /\ handler \in [Client -> {"none", "auth", "welcome", "waiting", "sending", "over"}]
  /\ peer \in [Client -> BOOLEAN]
  /\ queue \in [Client -> Seq(1 .. MaxEvents)]
  /\ hand \in [Client -> 0 .. MaxEvents]
  /\ \A c \in Client :
       /\ Len(queue[c]) <= QueueSize
       /\ ~Subscribed(c) => queue[c] = <<>>
       /\ hand[c] # 0 <=> handler[c] = "sending"

StreamInit ==
  /\ serving \in BOOLEAN
  /\ emitted = 0
  /\ handler = [c \in Client |-> "none"]
  /\ peer = [c \in Client |-> FALSE]
  /\ queue = [c \in Client |-> <<>>]
  /\ hand = [c \in Client |-> 0]
  /\ sent = [c \in Client |-> <<>>]
  /\ since = [c \in Client |-> 0]

Connects(c) ==
  /\ serving /\ handler[c] = "none"
  /\ handler' = [handler EXCEPT ![c] = "auth"]
  /\ peer' = [peer EXCEPT ![c] = TRUE]
  /\ UNCHANGED <<serving, emitted, queue, hand, sent, since>>

\* The client leaves, or its connection breaks, or stop closes the server.
Leaves(c) ==
  /\ peer[c]
  /\ peer' = [peer EXCEPT ![c] = FALSE]
  /\ UNCHANGED <<serving, emitted, handler, queue, hand, sent, since>>

\* The right token within ten seconds, or no subscription.
Authenticates(c) ==
  /\ handler[c] = "auth"
  /\ \/ /\ peer[c]
        /\ handler' = [handler EXCEPT ![c] = "welcome"]
        /\ since' = [since EXCEPT ![c] = emitted]
     \/ /\ handler' = [handler EXCEPT ![c] = "over"]
        /\ UNCHANGED since
  /\ UNCHANGED <<serving, emitted, peer, queue, hand, sent>>

\* send returns: the client is still there, and the handler waits for the next.
SendReturns(c) ==
  /\ handler[c] \in {"welcome", "sending"} /\ peer[c]
  /\ handler' = [handler EXCEPT ![c] = "waiting"]
  /\ sent' = IF hand[c] = 0 THEN sent ELSE [sent EXCEPT ![c] = Append(@, hand[c])]
  /\ hand' = [hand EXCEPT ![c] = 0]
  /\ UNCHANGED <<serving, emitted, peer, queue, since>>

TakesEvent(c) ==
  /\ handler[c] = "waiting" /\ queue[c] # <<>>
  /\ handler' = [handler EXCEPT ![c] = "sending"]
  /\ hand' = [hand EXCEPT ![c] = Head(queue[c])]
  /\ queue' = [queue EXCEPT ![c] = Tail(@)]
  /\ UNCHANGED <<serving, emitted, peer, sent, since>>

\* send raises, or half a second without an event finds the connection closed.
NoticesLeaving(c) ==
  /\ ~peer[c]
  /\ \/ handler[c] \in {"welcome", "sending"}
     \/ handler[c] = "waiting" /\ queue[c] = <<>>
  /\ Unsubscribe(c)
  /\ UNCHANGED <<serving, emitted, peer, sent, since>>

HandlerStep(c) == Authenticates(c) \/ SendReturns(c) \/ TakesEvent(c) \/ NoticesLeaving(c)

StreamNext ==
  \/ Emit
  \/ \E c \in Client : Connects(c) \/ Leaves(c) \/ HandlerStep(c)

\* Each handler is a task of the event loop, and a send to a client that does not
\* answer pings ends.
StreamFairness == \A c \in Client : WF_streamVars(HandlerStep(c))

StreamSpec == StreamInit /\ [][StreamNext]_streamVars /\ StreamFairness

-----------------------------------------------------------------------------
(* Properties.                                                             *)

Pending(c) == (IF hand[c] = 0 THEN <<>> ELSE <<hand[c]>>) \o queue[c]

Seen(c) == sent[c] \o Pending(c)

\* Each client gets the events in the order in which they were emitted, none twice
\* and none from before it subscribed, however often its queue overflows between two
\* of its sends; and a slow subscriber loses old events, never the newest: the last
\* queue_size ones have been sent to it, are being sent or wait for it.
EventsKept ==
  \A c \in Client :
    LET all == <<since[c]>> \o Seen(c) IN
    /\ \A i \in 1 .. Len(all) - 1 : all[i] < all[i + 1]
    /\ Subscribed(c) =>
         \A e \in since[c] + 1 .. emitted :
           e > emitted - QueueSize => \E i \in DOMAIN all : all[i] = e

\* The queue of a client that has gone does not stay subscribed.
SubscriptionsEnd ==
  \A c \in Client : (Subscribed(c) /\ ~peer[c]) ~> ~Subscribed(c)
=============================================================================
