------------------------------- MODULE Mochat -------------------------------
(***************************************************************************)
(* The Mochat channel (channels/mochat.py), with one session and one panel *)
(* of its configuration.                                                   *)
(*                                                                         *)
(* The events of a session are numbered, and a cursor, kept in a file,     *)
(* says how far they were read: when the socket connects the channel       *)
(* subscribes from its cursor on and then gets each new event.  The        *)
(* messages of a panel come twice, as a panel event and as a notification; *)
(* those that do not mention the agent are collected until the panel has   *)
(* been quiet for a while, or a mention takes them along.                  *)
(*                                                                         *)
(* _post_json hands the SecretStr of the token to httpx as a header, which *)
(* raises, so no HTTP request of the channel succeeds.  The fallback       *)
(* workers therefore only retry, and what follows a successful request     *)
(* (discovery, polling, sending) is not reached.                           *)
(***************************************************************************)
EXTENDS Integers, Sequences, FiniteSets, SequencesExt

CONSTANTS
  SeenIds,      \* MAX_SEEN_MESSAGE_IDS
  MaxSession,    \* bound: events of the session
  MaxPanel,     \* bound: messages in the panel
  MaxLosses,    \* bound: lost connections
  MaxRestarts   \* bound: restarts of the gateway

ASSUME MochatAssumption ==
  /\ SeenIds \in Nat \ {0}
  /\ {MaxSession, MaxPanel, MaxLosses, MaxRestarts} \subseteq Nat

VARIABLES
  life,        \* off if the channel is not enabled, running, or ended
  delays,      \* reply_delay_mode is "non-mention", not "off"
  socket,      \* none before the first connection, dead when that has failed; down;
               \* asking while the subscriptions are under way; up
  wsReady,     \* _ws_ready
  fallback,    \* _fallback_mode
  written,     \* events of the session on the server
  pushing,     \* does the server send the new ones
  asked,       \* the cursor of the subscription under way
  ack,         \* the answer to it, until the connect handler goes on: <<>> or <<frame>>
  frames,      \* what the server has sent on the socket
  cursor,      \* _session_cursor of the session, -1 when it has none
  file,        \* its value in session_cursors.json
  saving,      \* is _save_cursor_debounced waiting
  cold,        \* _cold_sessions
  panel,       \* for each message of the panel, does it mention the agent
  seenIds,     \* _seen_queue of session and panel
  buffer,      \* DelayState.entries
  timer,       \* is DelayState.timer running
  taken,       \* the entries of the inbound messages since the start, in order
  losses, restarts

sessionVars == <<written, pushing, asked, ack, cursor, file, saving, cold>>
panelVars == <<panel, buffer, timer>>
mochatVars == <<life, delays, socket, wsReady, fallback, frames, sessionVars, panelVars, seenIds,
                taken, losses, restarts>>

Active == life = "running"

MochatTypeOK ==
  /\ life \in {"off", "running", "ended"}
  /\ {delays, wsReady, fallback, pushing, saving, cold, timer} \subseteq BOOLEAN
  /\ socket \in {"none", "dead", "down", "asking", "up"}
  /\ written \in 0 .. MaxSession
  /\ {asked, cursor, file} \subseteq -1 .. written
  /\ life = "running" => file <= cursor
  /\ \A f \in Range(frames) \cup Range(ack) :
       f.kind \in {"ack", "session", "panel"} /\ f.from <= f.to
  /\ panel \in Seq(BOOLEAN) /\ Len(panel) <= MaxPanel
  /\ \A k \in {"session", "panel"} : Len(seenIds[k]) <= SeenIds
  /\ Range(buffer) \subseteq DOMAIN panel

MochatInit ==
  /\ life \in {"off", "running"} /\ delays \in BOOLEAN
  /\ socket = "none" /\ wsReady = FALSE /\ fallback = FALSE
  /\ written = 0 /\ pushing = FALSE /\ asked = -1 /\ ack = <<>> /\ frames = <<>>
  /\ cursor = -1 /\ file = -1 /\ saving = FALSE /\ cold = TRUE
  /\ panel = <<>> /\ buffer = <<>> /\ timer = FALSE
  /\ seenIds = [k \in {"session", "panel"} |-> <<>>]
  /\ taken = <<>> /\ losses = 0 /\ restarts = 0

-----------------------------------------------------------------------------
(* What a payload does.                                                    *)

\* _remember_message_id.
Note(ids, m) ==
  LET all == Append(ids, m) IN IF Len(all) > SeenIds THEN Tail(all) ELSE all

\* _mark_session_cursor: never backwards, and a save is due.
MarkCursor(c) ==
  IF c >= cursor THEN cursor' = c /\ saving' = TRUE ELSE UNCHANGED <<cursor, saving>>

\* The events from + 1 .. to of the session, one after the other: what is remembered then,
\* and those that were not when their turn came.
Processed(ids, from, to) ==
  LET after[i \in 0 .. to - from] ==
        IF i = 0 THEN [ids |-> ids, new |-> <<>>]
        ELSE IF from + i \in Range(after[i - 1].ids) THEN after[i - 1]
        ELSE [ids |-> Note(after[i - 1].ids, from + i), new |-> Append(after[i - 1].new, from + i)]
  IN after[to - from]

Entries(kind, ms) == [i \in DOMAIN ms |-> <<kind, ms[i]>>]

\* _handle_watch_payload of a session: the cursor first; the first payload of a session
\* without a cursor is left at that; of the others each event that is new.
SessionPayload(f) ==
  /\ MarkCursor(f.to)
  /\ IF cold
     THEN cold' = FALSE /\ UNCHANGED <<seenIds, taken>>
     ELSE LET p == Processed(seenIds["session"], f.from, f.to) IN
          /\ seenIds' = [seenIds EXCEPT !["session"] = p.ids]
          /\ taken' = taken \o Entries("session", p.new)
          /\ UNCHANGED cold

\* _enqueue_delayed_entry starts the wait anew.
Enqueue(m) == buffer' = Append(buffer, m) /\ timer' = TRUE /\ UNCHANGED taken

\* Mutant: the entries stay in the buffer.
BugFlush(more) ==
  /\ timer' = FALSE /\ UNCHANGED buffer
  /\ taken' = taken \o Entries("panel", buffer \o more)

\* _flush_delayed_entries and _dispatch_entries: all that was collected, as one message.
Flush(more) ==
  /\ timer' = FALSE /\ buffer' = <<>>
  /\ taken' = taken \o Entries("panel", buffer \o more)

\* _process_inbound_event of a panel: a mention takes along what was collected.  Without
\* delays that is nothing, and the others are dropped if the group asks for a mention.
PanelMessage(m) ==
  IF m \in Range(seenIds["panel"])
  THEN UNCHANGED <<seenIds, buffer, timer, taken>>
  ELSE /\ seenIds' = [seenIds EXCEPT !["panel"] = Note(@, m)]
       /\ \/ (panel[m] \/ ~delays) /\ Flush(<<m>>)
          \/ ~panel[m] /\ delays /\ Enqueue(m)
          \/ ~panel[m] /\ ~delays /\ UNCHANGED <<buffer, timer, taken>>

-----------------------------------------------------------------------------
(* The server.                                                             *)

\* Someone writes in the session; who is not subscribed finds it later.
SessionWrites ==
  /\ Active /\ written < MaxSession /\ written' = written + 1
  /\ frames' = IF pushing THEN Append(frames, [kind |-> "session", from |-> written, to |-> written + 1])
               ELSE frames
  /\ UNCHANGED <<life, delays, socket, wsReady, fallback, pushing, asked, ack, cursor, file, saving, cold,
                 panelVars, seenIds, taken, losses, restarts>>

\* Someone writes in the panel: two frames for those who are connected.
PanelWrites ==
  /\ Active /\ Len(panel) < MaxPanel
  /\ \E mention \in BOOLEAN : panel' = Append(panel, mention)
  /\ LET f == [kind |-> "panel", from |-> Len(panel), to |-> Len(panel) + 1] IN
       frames' = IF pushing THEN frames \o <<f, f>> ELSE frames
  /\ UNCHANGED <<life, delays, socket, wsReady, fallback, sessionVars, buffer, timer, seenIds, taken,
                 losses, restarts>>

\* The answer to the subscription: the events since the cursor.
Acknowledges ==
  /\ socket = "asking" /\ ~pushing /\ pushing' = TRUE
  /\ frames' = Append(frames, [kind |-> "ack", from |-> IF asked < 0 THEN 0 ELSE asked, to |-> written])
  /\ UNCHANGED <<life, delays, socket, wsReady, fallback, written, asked, ack, cursor, file, saving, cold,
                 panelVars, seenIds, taken, losses, restarts>>

-----------------------------------------------------------------------------
(* The channel.                                                            *)

\* _start_socket_client fails: there is no client left to try again, and the fallback
\* workers start.
ConnectFails ==
  /\ Active /\ socket = "none" /\ socket' = "dead" /\ fallback' = TRUE
  /\ UNCHANGED <<life, delays, wsReady, frames, sessionVars, panelVars, seenIds, taken, losses, restarts>>

\* connect: subscribe from the cursor on (sessions and panels as one).
Connected ==
  /\ Active /\ socket \in {"none", "down"} /\ ack = <<>> /\ socket' = "asking"
  /\ wsReady' = FALSE
  /\ asked' = cursor /\ cold' = (cold \/ cursor < 0)
  /\ UNCHANGED <<life, delays, fallback, written, pushing, ack, frames, cursor, file, saving, panelVars,
                 seenIds, taken, losses, restarts>>

\* The next frame of the socket, in a task of its own.  An answer wakes the connect
\* handler, which runs later than the events that came with it.
FrameArrives ==
  /\ Active /\ frames # <<>> /\ frames' = Tail(frames)
  /\ LET f == Head(frames) IN
       CASE f.kind = "ack" ->
              ack' = <<f>> /\ UNCHANGED <<cursor, saving, cold, seenIds, buffer, timer, taken>>
         [] f.kind = "session" -> SessionPayload(f) /\ UNCHANGED <<ack, buffer, timer>>
         [] f.kind = "panel" -> PanelMessage(f.to) /\ UNCHANGED <<ack, cursor, saving, cold>>
  /\ UNCHANGED <<life, delays, socket, wsReady, fallback, written, pushing, asked, file, panel, losses, restarts>>

\* _subscribe_all returns: the events since the cursor, and the socket is ready, even if
\* it has been lost since.
SubscribeReturns ==
  /\ Active /\ ack # <<>> /\ ack' = <<>>
  /\ SessionPayload(ack[1])
  /\ socket' = IF socket = "asking" THEN "up" ELSE socket
  /\ wsReady' = TRUE /\ fallback' = FALSE
  /\ UNCHANGED <<life, delays, written, pushing, asked, frames, file, panelVars, losses, restarts>>

\* The subscription is refused, or has no answer within ten seconds.
SubscribeFails ==
  /\ Active /\ socket = "asking" /\ ack = <<>> /\ losses < MaxLosses /\ losses' = losses + 1
  /\ socket' = "up" /\ wsReady' = FALSE /\ fallback' = TRUE
  /\ UNCHANGED <<life, delays, frames, sessionVars, panelVars, seenIds, taken, restarts>>

\* disconnect.
Disconnected ==
  /\ Active /\ socket \in {"asking", "up"} /\ losses < MaxLosses /\ losses' = losses + 1
  /\ socket' = "down" /\ wsReady' = FALSE /\ fallback' = TRUE
  /\ frames' = <<>> /\ pushing' = FALSE
  /\ UNCHANGED <<life, delays, written, asked, ack, cursor, file, saving, cold, panelVars, seenIds, taken, restarts>>

\* _delay_flush_after.
TimerFires ==
  /\ Active /\ timer /\ Flush(<<>>)
  /\ UNCHANGED <<life, delays, socket, wsReady, fallback, frames, sessionVars, panel, seenIds, losses, restarts>>

\* _save_cursor_debounced.
SavesCursor ==
  /\ Active /\ saving /\ saving' = FALSE /\ file' = cursor
  /\ UNCHANGED <<life, delays, socket, wsReady, fallback, written, pushing, asked, ack, frames, cursor, cold,
                 panelVars, seenIds, taken, losses, restarts>>

\* The gateway stops, and the cursor is saved, or it dies; what was collected is lost.
Ends ==
  /\ Active /\ life' = "ended"
  /\ \/ file' = cursor
     \/ UNCHANGED file
  /\ socket' = "none" /\ wsReady' = FALSE /\ fallback' = FALSE
  /\ frames' = <<>> /\ pushing' = FALSE /\ ack' = <<>>
  /\ saving' = FALSE /\ buffer' = <<>> /\ timer' = FALSE
  /\ UNCHANGED <<delays, written, asked, cursor, cold, panel, seenIds, taken, losses, restarts>>

\* start: the cursors are read, and a session without one is cold.
Restarts ==
  /\ life = "ended" /\ restarts < MaxRestarts /\ restarts' = restarts + 1
  /\ life' = "running"
  /\ cursor' = file /\ cold' = (file < 0)
  /\ seenIds' = [k \in {"session", "panel"} |-> <<>>] /\ taken' = <<>>
  /\ UNCHANGED <<delays, socket, wsReady, fallback, frames, written, pushing, asked, ack, file, saving,
                 panelVars, losses>>

MochatNext ==
  \/ SessionWrites \/ PanelWrites \/ Acknowledges
  \/ ConnectFails \/ Connected \/ FrameArrives \/ SubscribeReturns \/ SubscribeFails \/ Disconnected
  \/ TimerFires \/ SavesCursor \/ Ends \/ Restarts

MochatSpec == MochatInit /\ [][MochatNext]_mochatVars

-----------------------------------------------------------------------------
(* Properties.                                                             *)

\* Between two starts no message is taken twice, though the server repeats itself after
\* a lost connection and announces a panel's messages twice, and though entries wait in
\* a buffer that a timer and a mention both empty; and the messages of a panel are taken
\* in their order.  What waits in the buffer is not forgotten there: as long as there is
\* an entry, a timer runs.
TakenOnce ==
  /\ timer <=> buffer # <<>>
  /\ \A i, j \in DOMAIN taken : i < j =>
       /\ taken[i] # taken[j]
       /\ (taken[i][1] = "panel" /\ taken[j][1] = "panel") => taken[i][2] < taken[j][2]
=============================================================================
