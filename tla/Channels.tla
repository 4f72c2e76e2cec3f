------------------------------ MODULE Channels ------------------------------
(***************************************************************************)
(* The chat channels (channels/), the message bus between them and the     *)
(* agent (bus/queue.py) and the manager that starts them and dispatches    *)
(* what the agent sends (channels/manager.py).  Mochat, which keeps more   *)
(* state than the others, has a module of its own.                         *)
(*                                                                         *)
(* Messages are numbered in the order in which they are written.  A        *)
(* channel gets them from its platform (wire), handles them - with awaits  *)
(* on which other handlers run - and puts those it accepts on the inbound  *)
(* queue (published).  The agent answers them one after the other, and a   *)
(* single dispatcher sends the answers.  What a message says is left out:  *)
(* whether a handler wants it is a choice.                                 *)
(***************************************************************************)
EXTENDS Integers, Sequences, FiniteSets, SequencesExt

CONSTANTS
  Configs,      \* the sets of channels that may be enabled
  SeenCap,      \* messages a channel remembers having processed (1000)
  UidCap,       \* emails the email channel remembers (100000)
  GroupPolicy,  \* Slack's group_policy
  MaxMessages,  \* bound: messages written
  MaxRepeats,   \* bound: messages a platform hands over again
  MaxFaults,    \* bound: lost connections and failed polls
  MaxNotices    \* bound: messages of cron, the budget and the message tool

Channel == {"telegram", "whatsapp", "discord", "feishu", "dingtalk", "email", "slack", "qq"}

ASSUME ChannelsAssumption ==
  /\ \A conf \in Configs : conf \subseteq Channel
  /\ {SeenCap, UidCap, MaxMessages} \subseteq Nat \ {0}
  /\ {MaxRepeats, MaxFaults, MaxNotices} \subseteq Nat
  /\ GroupPolicy \in {"mention", "open", "allowlist"}

VARIABLES
  phase,      \* "off" without channels, else "on" until stop_all
  enabled,    \* ChannelManager.channels
  running,    \* the channels with _running set
  link,       \* connection to the platform: down, up, or dead when start has failed
  botKnown,   \* has Slack told its bot's user id
  waOpen,     \* is the bridge connected to WhatsApp
  connected,  \* WhatsAppChannel._connected
  wire,       \* what the platform has still to hand over
  origin,     \* the channel on which each message was written, or "none"
  seen,       \* _processed_message_ids, _processed_ids, _processed_uids
  handling,   \* messages between the first await of their handler and its end
  typed,      \* has the Discord handler started the indicator
  typing,     \* the message for which a chat shows the typing indicator, or 0
  published,  \* the messages put on the inbound queue, in order
  turns,      \* how many of them the agent has answered
  outbox,     \* the outbound queue
  sending,    \* what the dispatcher is sending
  tries,      \* attempts of DiscordChannel.send that failed
  delivered,  \* history: what was sent, in order
  ended,      \* history: the messages whose answer was sent or given up
  repeats, faults, notices

connVars == <<phase, enabled, running, link, botKnown, waOpen, connected>>
inVars == <<wire, origin, seen, handling, typed, published>>
outVars == <<turns, outbox, sending, tries, delivered, ended>>
bounds == <<repeats, faults, notices>>
vars == <<connVars, inVars, typing, outVars, bounds>>

Message == 1 .. MaxMessages
Typer == {"telegram", "discord"}
Kind == {"message", "mention", "twin", "connected", "disconnected"}
Entry == [of : 0 .. MaxMessages, kind : Kind]
Reply == [to : Channel \cup {"unknown"}, of : 0 .. MaxMessages]

ChannelsTypeOK ==
  /\ phase \in {"off", "on", "stopping"}
  /\ enabled \in Configs /\ running \subseteq enabled
  /\ link \in [Channel -> {"down", "up", "dead"}]
  /\ {botKnown, waOpen, connected} \subseteq BOOLEAN
  /\ wire \in [Channel -> Seq(Entry)]
  /\ origin \in [Message -> Channel \cup {"none"}]
  /\ seen \in [Channel -> Seq(Message)]
  /\ \A c \in Channel : Len(seen[c]) <= IF c = "email" THEN UidCap ELSE SeenCap
  /\ handling \in [Channel -> Seq(Message)]
  /\ typed \in BOOLEAN /\ typing \in [Typer -> 0 .. MaxMessages]
  /\ published \in Seq(Message)
  /\ turns \in 0 .. Len(published)
  /\ outbox \in Seq(Reply) /\ sending \in Seq(Reply) /\ Len(sending) <= 1
  /\ tries \in 0 .. 2
  /\ delivered \in Seq(Reply) /\ ended \subseteq 0 .. MaxMessages

\* _init_channels takes the enabled ones, and start_all starts them and the
\* dispatcher, unless there is none.
Init ==
  /\ enabled \in Configs /\ running = enabled
  /\ phase = IF enabled = {} THEN "off" ELSE "on"
  /\ link = [c \in Channel |-> "down"]
  /\ botKnown = FALSE /\ waOpen = TRUE /\ connected = FALSE
  /\ wire = [c \in Channel |-> <<>>]
  /\ origin = [m \in Message |-> "none"]
  /\ seen = [c \in Channel |-> <<>>]
  /\ handling = [c \in Channel |-> <<>>]
  /\ typed = FALSE /\ typing = [c \in Typer |-> 0]
  /\ published = <<>> /\ turns = 0
  /\ outbox = <<>> /\ sending = <<>> /\ tries = 0
  /\ delivered = <<>> /\ ended = {}
  /\ repeats = 0 /\ faults = 0 /\ notices = 0

\* FeishuChannel.send calls its platform from the event loop itself, not from a thread, by
\* a client that has no timeout: until the platform answers, no task of the loop runs.
Blocked == sending # <<>> /\ sending[1].to = "feishu"

\* The tasks of the gateway may go on.
Runs == phase = "on" /\ ~Blocked

-----------------------------------------------------------------------------
(* Connections.                                                            *)

Link(c, from, to) ==
  /\ c \in running /\ link[c] = from
  /\ link' = [link EXCEPT ![c] = to]
  /\ UNCHANGED <<phase, enabled, running>>

Connect(c) == Link(c, "down", "up") /\ UNCHANGED <<botKnown, waOpen, connected>>

\* _start_channel logs what start raises, and nobody calls start again.
StartFails(c) == Link(c, "down", "dead") /\ UNCHANGED <<botKnown, waOpen, connected>>

TelegramStart == Connect("telegram") \/ StartFails("telegram")

\* auth_test may fail and leave the bot's id unknown.
SlackStart ==
  \/ /\ Link("slack", "down", "up")
     /\ botKnown' \in BOOLEAN
     /\ UNCHANGED <<waOpen, connected>>
  \/ StartFails("slack")

WhatsAppStart ==
  /\ Link("whatsapp", "down", "up")
  /\ connected' = TRUE
  /\ UNCHANGED <<botKnown, waOpen>>

DiscordStart == Connect("discord")
FeishuStart == Connect("feishu")
DingTalkStart == Connect("dingtalk")
QQRunBot == Connect("qq")

\* The next poll of the email channel opens the mailbox.
EmailStart == Connect("email")

Starts ==
  /\ Runs
  /\ \/ TelegramStart \/ SlackStart \/ WhatsAppStart \/ DiscordStart
     \/ FeishuStart \/ DingTalkStart \/ QQRunBot \/ EmailStart
  /\ UNCHANGED <<inVars, typing, outVars, bounds>>

\* A connection breaks.  Discord is not asked to resume, and the bridge sends only to
\* who is connected: what they had not handed over is lost.
Drops(c) ==
  /\ ~Blocked
  /\ faults < MaxFaults /\ faults' = faults + 1
  /\ c \in {"whatsapp", "discord", "feishu", "dingtalk", "qq"}
  /\ Link(c, "up", "down")
  /\ wire' = IF c \in {"whatsapp", "discord"} THEN [wire EXCEPT ![c] = <<>>] ELSE wire
  /\ connected' \in IF c = "whatsapp" THEN {connected, FALSE} ELSE {connected}
  /\ UNCHANGED <<botKnown, waOpen, origin, seen, handling, typed, published, typing, outVars, repeats, notices>>

\* BridgeServer.broadcast: a frame for the channel, if it is connected.
Broadcast(e) ==
  wire' = IF link["whatsapp"] = "up" THEN [wire EXCEPT !["whatsapp"] = Append(@, e)] ELSE wire

\* connection.update: the bridge loses WhatsApp, or has it again five seconds later.
BridgeUpdate ==
  /\ "whatsapp" \in enabled
  /\ waOpen' = ~waOpen
  /\ \/ waOpen /\ faults < MaxFaults /\ faults' = faults + 1
     \/ ~waOpen /\ UNCHANGED faults
  /\ Broadcast([of |-> 0, kind |-> IF waOpen THEN "disconnected" ELSE "connected"])
  /\ UNCHANGED <<phase, enabled, running, link, botKnown, connected, origin, seen, handling,
                 typed, published, typing, outVars, repeats, notices>>

-----------------------------------------------------------------------------
(* From the platforms to the inbound queue.                                *)

Written == Cardinality({m \in Message : origin[m] # "none"})

\* A user writes on channel c.  Slack announces a mention twice, in either order.
Writes(c) ==
  LET m == Written + 1
      e(kind) == <<[of |-> m, kind |-> kind]>>
  IN
  /\ Written < MaxMessages /\ c \in enabled
  /\ origin' = [origin EXCEPT ![m] = c]
  /\ CASE c = "whatsapp" -> waOpen /\ Broadcast(Head(e("message")))
       [] c = "discord" /\ link[c] # "up" -> UNCHANGED wire
       [] c = "slack" ->
            \E es \in {e("message"), e("twin") \o e("mention"), e("mention") \o e("twin")} :
              wire' = [wire EXCEPT ![c] = @ \o es]
       [] OTHER -> wire' = [wire EXCEPT ![c] = @ \o e("message")]
  /\ UNCHANGED <<connVars, seen, handling, typed, published, typing, outVars, bounds>>

\* Feishu and QQ hand a message over again, soon after the first time.
Repeats(c, m) ==
  /\ repeats < MaxRepeats /\ repeats' = repeats + 1
  /\ c \in {"feishu", "qq"} /\ c \in running /\ origin[m] = c
  /\ [of |-> m, kind |-> "message"] \notin Range(wire[c])
  /\ Cardinality({n \in Message : n > m /\ origin[n] = c}) < SeenCap
  /\ wire' = [wire EXCEPT ![c] = Append(@, [of |-> m, kind |-> "message"])]
  /\ UNCHANGED <<connVars, origin, seen, handling, typed, published, typing, outVars, faults, notices>>

\* BaseChannel._handle_message publishes what is_allowed lets through.
HandleMessage(m) == published' \in {published, Append(published, m)}

\* The next entry of the wire reaches the handler of channel c.
Take(c, e) ==
  /\ c \in running /\ link[c] = "up" /\ wire[c] # <<>>
  /\ e = Head(wire[c])
  /\ wire' = [wire EXCEPT ![c] = Tail(@)]

Begin(c, m) == handling' = [handling EXCEPT ![c] = Append(@, m)]

\* The i-th handler of channel c goes on.
Resume(c, i) ==
  /\ c \in running /\ i \in DOMAIN handling[c]
  /\ handling' = [handling EXCEPT ![c] = RemoveAt(@, i)]
  /\ UNCHANGED wire

\* Telegram: one update at a time; one that is older than a minute is only answered.
TelegramReceives(e) ==
  /\ handling["telegram"] = <<>> /\ Take("telegram", e)
  /\ Begin("telegram", e.of) \/ UNCHANGED handling
  /\ UNCHANGED <<seen, published, typing, connected, typed>>

\* The media are there; the indicator starts before the sender is checked.
TelegramPublishes ==
  /\ Resume("telegram", 1)
  /\ LET m == handling["telegram"][1] IN
       typing' = [typing EXCEPT !["telegram"] = m] /\ HandleMessage(m)
  /\ UNCHANGED <<seen, connected, typed>>

\* The bridge's messages and its word on WhatsApp.
WhatsAppReceives(e) ==
  /\ Take("whatsapp", e)
  /\ IF e.kind = "message"
     THEN HandleMessage(e.of) /\ UNCHANGED connected
     ELSE connected' = (e.kind = "connected") /\ UNCHANGED published
  /\ UNCHANGED <<seen, handling, typing, typed>>

\* Mutant: a task for each event.
BugDiscordReceives(e) ==
  /\ Take("discord", e)
  /\ Begin("discord", e.of) \/ UNCHANGED handling
  /\ UNCHANGED <<seen, published, typing, connected, typed>>

\* Discord: the gateway loop awaits the handler.  Bots, strangers and the chats it
\* only notifies are dropped.
DiscordReceives(e) ==
  /\ handling["discord"] = <<>> /\ Take("discord", e)
  /\ Begin("discord", e.of) \/ UNCHANGED handling
  /\ UNCHANGED <<seen, published, typing, connected, typed>>

\* The attachments are there: the indicator starts, and the channel's name is fetched.
DiscordTypes ==
  /\ "discord" \in running /\ handling["discord"] # <<>> /\ ~typed
  /\ typed' = TRUE
  /\ typing' = [typing EXCEPT !["discord"] = handling["discord"][1]]
  /\ UNCHANGED <<wire, seen, handling, published, connected>>

DiscordPublishes(i) ==
  /\ typed /\ Resume("discord", i)
  /\ typed' = FALSE
  /\ published' = Append(published, handling["discord"][i])
  /\ UNCHANGED <<seen, typing, connected>>

\* Mutant: the bound of the memory is ignored.
BugRemember(c, m) == Append(seen[c], m)

\* What a channel remembers, the oldest forgotten.
Remember(c, m) ==
  LET all == Append(seen[c], m) IN IF Len(all) > SeenCap THEN Tail(all) ELSE all

\* Feishu: a coroutine for each message, which marks it before it awaits the reaction.
FeishuReceives(e) ==
  /\ Take("feishu", e)
  /\ IF e.of \in Range(seen["feishu"])
     THEN UNCHANGED <<seen, handling>>
     ELSE /\ seen' = [seen EXCEPT !["feishu"] = Remember("feishu", e.of)]
          /\ Begin("feishu", e.of) \/ UNCHANGED handling
  /\ UNCHANGED <<published, typing, connected, typed>>

FeishuPublishes(i) ==
  /\ Resume("feishu", i)
  /\ HandleMessage(handling["feishu"][i])
  /\ UNCHANGED <<seen, typing, connected, typed>>

\* QQ: no await between the check and the queue.
QQReceives(e) ==
  /\ Take("qq", e)
  /\ IF e.of \in Range(seen["qq"])
     THEN UNCHANGED <<seen, published>>
     ELSE /\ seen' = [seen EXCEPT !["qq"] = Remember("qq", e.of)]
          /\ HandleMessage(e.of)
  /\ UNCHANGED <<handling, typing, connected, typed>>

\* Slack's rules for what the bot answers: not the second announcement of a mention,
\* if the bot knows its name, and not what the policy leaves to others.
SlackResponds(kind) ==
  /\ kind = "twin" => ~botKnown
  /\ kind = "twin" => GroupPolicy # "mention"

\* Slack: acknowledged at once, and each request in a task of its own.
SlackReceives(e) ==
  /\ Take("slack", e)
  /\ \/ SlackResponds(e.kind) /\ Begin("slack", e.of)
     \/ UNCHANGED handling
  /\ UNCHANGED <<seen, published, typing, connected, typed>>

SlackPublishes(i) ==
  /\ Resume("slack", i)
  /\ HandleMessage(handling["slack"][i])
  /\ UNCHANGED <<seen, typing, connected, typed>>

\* DingTalk: acknowledged, and a task for each message; the tasks await nothing, so
\* they run in the order of their creation.
DingTalkReceives(e) ==
  /\ Take("dingtalk", e)
  /\ Begin("dingtalk", e.of) \/ UNCHANGED handling
  /\ UNCHANGED <<seen, published, typing, connected, typed>>

DingTalkPublishes ==
  /\ Resume("dingtalk", 1)
  /\ HandleMessage(handling["dingtalk"][1])
  /\ UNCHANGED <<seen, typing, connected, typed>>

\* _processed_uids is cleared when it is full.
NoteUid(uids, m) == IF Len(uids) = UidCap THEN <<>> ELSE Append(uids, m)

\* _fetch_messages, after k of the emails in the mailbox: the uids it has noted, the
\* messages it has taken, and what it has passed over since the uid was noted before.
Fetched(uids, box) ==
  LET after[k \in 0 .. Len(box)] ==
        IF k = 0 THEN [uids |-> uids, new |-> <<>>, left |-> <<>>]
        ELSE IF box[k].of \in Range(after[k - 1].uids)
        THEN [after[k - 1] EXCEPT !.left = Append(@, box[k])]
        ELSE [after[k - 1] EXCEPT !.uids = NoteUid(@, box[k].of), !.new = Append(@, box[k].of)]
  IN after

\* Email: a thread takes the unseen messages one after the other, notes the uid of
\* each and marks it as seen.  An exception forgets those it had taken; if it was
\* the marking that failed, the next message is noted as well.
EmailFetches ==
  LET box == wire["email"]
      after == Fetched(seen["email"], box)
  IN
  /\ handling["email"] = <<>>
  /\ \/ /\ handling' = [handling EXCEPT !["email"] = after[Len(box)].new]
        /\ seen' = [seen EXCEPT !["email"] = after[Len(box)].uids]
        /\ wire' = [wire EXCEPT !["email"] = after[Len(box)].left]
        /\ UNCHANGED faults
     \/ \E k \in 0 .. Len(box) - 1, n \in 0 .. 1 :
          /\ faults < MaxFaults /\ faults' = faults + 1
          /\ seen' = [seen EXCEPT !["email"] = after[k + n].uids]
          /\ wire' = [wire EXCEPT !["email"] = after[k].left \o SubSeq(box, k + 1, Len(box))]
          /\ UNCHANGED handling
  /\ Link("email", "up", "down")
  /\ UNCHANGED <<botKnown, waOpen, connected, origin, typed, published, typing, outVars, repeats, notices>>

\* Back in the event loop, which publishes them one after the other.
EmailPublishes ==
  /\ Resume("email", 1)
  /\ HandleMessage(handling["email"][1])
  /\ UNCHANGED <<seen, typing, connected, typed>>

Receives(c) ==
  /\ wire[c] # <<>>
  /\ LET e == Head(wire[c]) IN
       \/ c = "telegram" /\ TelegramReceives(e)
       \/ c = "whatsapp" /\ WhatsAppReceives(e)
       \/ c = "discord" /\ DiscordReceives(e)
       \/ c = "feishu" /\ FeishuReceives(e)
       \/ c = "qq" /\ QQReceives(e)
       \/ c = "slack" /\ SlackReceives(e)
       \/ c = "dingtalk" /\ DingTalkReceives(e)

Publishes(c) ==
  \/ c = "telegram" /\ TelegramPublishes
  \/ c = "discord" /\ (DiscordTypes \/ \E i \in DOMAIN handling[c] : DiscordPublishes(i))
  \/ c = "feishu" /\ \E i \in DOMAIN handling[c] : FeishuPublishes(i)
  \/ c = "slack" /\ \E i \in DOMAIN handling[c] : SlackPublishes(i)
  \/ c = "dingtalk" /\ DingTalkPublishes
  \/ c = "email" /\ EmailPublishes

Handles(c) ==
  /\ Runs
  /\ Receives(c) \/ Publishes(c)
  /\ UNCHANGED <<phase, enabled, running, link, botKnown, waOpen, origin, outVars, bounds>>

-----------------------------------------------------------------------------
(* From the agent to the platforms.                                        *)

\* AgentLoop.run answers the next message (module AgentLoop has the turn).
Turn ==
  /\ Runs /\ turns < Len(published)
  /\ turns' = turns + 1
  /\ LET m == published[turns + 1] IN outbox' = Append(outbox, [to |-> origin[m], of |-> m])
  /\ UNCHANGED <<connVars, inVars, typing, sending, tries, delivered, ended, bounds>>

\* A message of its own to channel c, be it enabled or unknown to the manager.
PublishOutbound(c) ==
  /\ Runs /\ notices < MaxNotices /\ notices' = notices + 1
  /\ outbox' = Append(outbox, [to |-> c, of |-> 0])
  /\ UNCHANGED <<connVars, inVars, typing, turns, sending, tries, delivered, ended, repeats, faults>>

\* The message tool, to the channel of the turn or one of the LLM's choice.
MessageToolSends == \E c \in enabled \cup {"unknown"} : PublishOutbound(c)

\* on_cron_job, after the turn of a job that asks for the delivery of its answer.
CronDelivers == \E c \in enabled \cup {"unknown"} : PublishOutbound(c)

\* The budget passes a threshold: the alert goes to a channel "notification" that the
\* manager never has.
BudgetAlerts == PublishOutbound("unknown")

StopTyping(c) == typing' = IF c \in Typer THEN [typing EXCEPT ![c] = 0] ELSE typing

\* _dispatch_outbound takes the next message once the last one is dealt with, and
\* drops one for a channel that is not enabled.  Telegram's send begins by stopping
\* the indicator.
Dispatch ==
  /\ Runs /\ sending = <<>> /\ outbox # <<>>
  /\ outbox' = Tail(outbox)
  /\ LET r == Head(outbox) IN
       IF r.to \in enabled
       THEN /\ sending' = <<r>>
            /\ IF r.to = "telegram" THEN StopTyping(r.to) ELSE UNCHANGED typing
            /\ UNCHANGED ended
       ELSE ended' = ended \cup {r.of} /\ UNCHANGED <<sending, typing>>
  /\ UNCHANGED <<connVars, inVars, turns, tries, delivered, bounds>>

\* send of channel c is over, and ok says whether it has sent the message.
EndSend(c, ok) ==
  \E i \in DOMAIN sending :
    /\ sending[i].to = c
    /\ sending' = RemoveAt(sending, i)
    /\ delivered' = IF ok THEN Append(delivered, sending[i]) ELSE delivered
    /\ ended' = ended \cup {sending[i].of}
    /\ tries' = 0

\* HTML, then plain text, then the error is logged.
TelegramSend == \E ok \in BOOLEAN : EndSend("telegram", ok) /\ UNCHANGED typing

\* The command goes to the bridge, which may have lost WhatsApp without the channel
\* having heard of it.
WhatsAppSend ==
  /\ \/ EndSend("whatsapp", FALSE)
     \/ link["whatsapp"] = "up" /\ connected /\ waOpen /\ EndSend("whatsapp", TRUE)
  /\ UNCHANGED typing

\* Mutant: when it gives up it leaves the indicator on.
BugDiscordSend ==
  \/ EndSend("discord", TRUE) /\ StopTyping("discord")
  \/ tries = 2 /\ EndSend("discord", FALSE) /\ UNCHANGED typing
  \/ /\ \E i \in DOMAIN sending : sending[i].to = "discord"
     /\ tries < 2 /\ tries' = tries + 1
     /\ UNCHANGED <<sending, delivered, ended, typing>>

\* Mutant: being told to wait does not count as an attempt.
BugDiscordRetries ==
  \/ EndSend("discord", TRUE) /\ StopTyping("discord")
  \/ /\ \E i \in DOMAIN sending : sending[i].to = "discord"
     /\ tries' = 1 - tries
     /\ UNCHANGED <<sending, delivered, ended, typing>>

\* Three attempts, whether it is told to wait or fails.
DiscordSend ==
  \/ \E ok \in BOOLEAN :
       (~ok => tries = 2) /\ EndSend("discord", ok) /\ StopTyping("discord")
  \/ /\ \E i \in DOMAIN sending : sending[i].to = "discord"
     /\ tries < 2 /\ tries' = tries + 1
     /\ UNCHANGED <<sending, delivered, ended, typing>>

\* The platform has answered, or the connection to it is gone.
FeishuSend == \E ok \in BOOLEAN : EndSend("feishu", ok) /\ UNCHANGED typing
QQSend == \E ok \in BOOLEAN : EndSend("qq", ok) /\ UNCHANGED typing
SlackSend == \E ok \in BOOLEAN : EndSend("slack", ok) /\ UNCHANGED typing

\* Without a token the message is not sent.
DingTalkSend == \E ok \in BOOLEAN : EndSend("dingtalk", ok) /\ UNCHANGED typing

\* The one channel that raises what fails: the dispatcher logs it and goes on.
EmailSend == \E ok \in BOOLEAN : EndSend("email", ok) /\ UNCHANGED typing

Sends ==
  /\ phase = "on"
  /\ \/ TelegramSend \/ WhatsAppSend \/ DiscordSend \/ FeishuSend
     \/ QQSend \/ SlackSend \/ DingTalkSend \/ EmailSend
  /\ UNCHANGED <<connVars, inVars, turns, outbox, bounds>>

-----------------------------------------------------------------------------
(* stop_all: the dispatcher is cancelled, then each channel is stopped.     *)

StopAll ==
  /\ Runs /\ phase' = "stopping"
  /\ sending' = <<>> /\ tries' = 0
  /\ ended' = ended \cup {sending[i].of : i \in DOMAIN sending}
  /\ IF sending # <<>> /\ sending[1].to = "discord" THEN StopTyping("discord") ELSE UNCHANGED typing
  /\ UNCHANGED <<enabled, running, link, botKnown, waOpen, connected, inVars, turns, outbox, delivered, bounds>>

Stops(c) ==
  /\ phase = "stopping" /\ c \in running
  /\ running' = running \ {c}
  /\ link' = [link EXCEPT ![c] = "down"]
  /\ connected' = (connected /\ c # "whatsapp")
  /\ handling' = [handling EXCEPT ![c] = <<>>]
  /\ typed' = (typed /\ c # "discord")
  /\ StopTyping(c)
  /\ UNCHANGED <<phase, enabled, botKnown, waOpen, wire, origin, seen, published, outVars, bounds>>

-----------------------------------------------------------------------------
Next ==
  \/ Starts \/ BridgeUpdate \/ EmailFetches \/ Turn \/ Dispatch \/ Sends \/ StopAll
  \/ MessageToolSends \/ CronDelivers \/ BudgetAlerts
  \/ \E c \in Channel :
       \/ Drops(c) \/ Writes(c) \/ Handles(c) \/ Stops(c)
       \/ \E m \in Message : Repeats(c, m)

\* The agent and the dispatcher are tasks of the event loop, and the calls by which the
\* channels send have timeouts, all but Feishu's.  No platform is bound to be reachable.
\* That a turn ends is AgentLoop's to say.
Fairness ==
  /\ WF_vars(\E c \in Channel : Stops(c))
  /\ WF_vars(Turn) /\ WF_vars(Dispatch) /\ WF_vars(Sends /\ ~Blocked)

Spec == Init /\ [][Next]_vars /\ Fairness

-----------------------------------------------------------------------------
(* Properties.                                                             *)

\* The channels whose handlers cannot overtake each other.
InOrder == {"telegram", "whatsapp", "discord", "dingtalk", "qq"}

\* Slack's second announcement of a mention passes for a message of its own.
TwinsPass == GroupPolicy # "mention" /\ ~botKnown

\* A message makes one turn, though Feishu and QQ hand it over again, Slack announces
\* a mention twice and the uids of the emails are forgotten.  (Not so on Slack when the bot
\* does not know its name and the policy is not to wait for a mention.)  Except on Feishu,
\* Slack and in the mailbox the agent gets the messages of a channel in the order in which
\* they were written, and what it sends arrives in the order in which it answered.
OnceInOrder ==
  /\ \A i, j \in DOMAIN published :
       LET c == origin[published[i]] IN
       (i < j /\ origin[published[j]] = c) =>
         /\ ~(c = "slack" /\ TwinsPass) => published[i] # published[j]
         /\ c \in InOrder => published[i] < published[j]
  /\ \A i, j \in DOMAIN delivered :
       (i < j /\ 0 \notin {delivered[i].of, delivered[j].of}) =>
         \E k, l \in 1 .. turns :
           k < l /\ published[k] = delivered[i].of /\ published[l] = delivered[j].of

\* Feishu does not leave a call unanswered for ever.
LoopRuns == []<>~Blocked

\* Unless a call to Feishu stays unanswered for ever, every accepted message has its answer
\* sent, or given up by the channel, until the gateway stops: a channel that fails to send
\* stops neither itself nor the others.
AnswersEnd ==
  LoopRuns => \A m \in Message : m \in Range(published) ~> (m \in ended \/ phase # "on")

\* On the same condition the typing indicator of an accepted message ends.  (On Telegram
\* the indicator for a sender who is not allowed goes on until the chat gets another
\* message or the gateway stops.)
TypingEnds ==
  LoopRuns => \A c \in Typer :
    LET on == typing[c] # 0 /\ typing[c] \in Range(published) IN on ~> ~on
=============================================================================
