----------------------------- MODULE Delegation -----------------------------
(***************************************************************************)
(* How the Queen delegates: turns of the agent loop (agent/loop.py) call   *)
(* the spawn and spawn_pipeline tools (agent/tools/worker_tools.py), which *)
(* drive the WorkerRegistry; workers and pipelines report back as system   *)
(* messages on the inbound queue of the bus (bus/queue.py), each of which  *)
(* is a turn of its own.                                                   *)
(*                                                                         *)
(* The Queen takes the inbound queue one message at a time, while cron and *)
(* heartbeat turns run beside her through process_direct.  All of them     *)
(* share one set of tools, whose channel and chat_id the latest turn to    *)
(* begin has set.                                                          *)
(***************************************************************************)
EXTENDS WorkerRegistry, SequencesExt

CONSTANTS
  Queen,       \* the consumer of the inbound queue
  Direct,      \* the callers of process_direct: cron jobs, the heartbeat
  Chat,        \* "channel:chat_id" addresses
  DefaultChat, \* "cli:direct", where the tools point before any turn
  Plans,       \* the sequences of worker names that pipelines are asked to run
  MaxInbox     \* bounds the inbound queue for users' messages

ASSUME DelegationAssumption ==
  /\ Queen \notin Direct
  /\ DefaultChat \in Chat
  /\ Plans \subseteq {s \in Seq(Name) : Len(s) >= 2}
  /\ MaxInbox \in Nat

Pipeline == Waiter      \* a pipeline's orchestrator calls spawn_worker_and_wait
Actor == Direct \cup {Queen}
NoChat == "no chat"

VARIABLES
  toolContext,  \* (channel, chat_id) of the spawn, pipeline, message, cron tools
  turn,         \* the chat each actor's running turn belongs to, or NoChat
  inbox,        \* bus.inbound
  pipe,         \* the orchestrate_pipeline coroutines
  requester,    \* history: the chat whose turn started each worker
  outcome,      \* history: how each worker ended
  heard         \* history: the workers whose notice the Queen has taken

delegationVars == <<toolContext, turn, inbox, pipe, requester, outcome, heard>>
vars == <<registryVars, delegationVars>>

-----------------------------------------------------------------------------
(* Messages on the inbound queue.                                          *)

\* Mutant: the notice does not say which worker it is about.
BugAnonymousMsg(t) == [kind |-> "worker", chat |-> toolContext, task |-> NoTask]

UserMsg(c)    == [kind |-> "user", chat |-> c]
StopMsg(c)    == [kind |-> "stop", chat |-> c]
WorkerMsg(t)  == [kind |-> "worker", chat |-> toolContext, task |-> t]
PipeMsg(p, k) == [kind |-> k, chat |-> toolContext, pipe |-> p]

Message ==
  [kind : {"user", "stop"}, chat : Chat]
    \cup [kind : {"worker"}, chat : Chat, task : Task]
    \cup [kind : {"started", "failed", "completed"}, chat : Chat, pipe : Pipeline]

\* The workers of the spawn tool; those of a pipeline have no on_complete.
StageTasks == UNION {ToSet(pipe[p].runs) : p \in Pipeline}
HasCallback(t) == phase[t] # "unborn" /\ t \notin StageTasks

-----------------------------------------------------------------------------
DelegationTypeOK ==
  /\ toolContext \in Chat
  /\ turn \in [Actor -> Chat \cup {NoChat}]
  /\ inbox \in Seq(Message)
  /\ pipe \in [Pipeline -> [pc : {"none", "launched", "stage", "over"},
                            plan : Plans \cup {<<>>},
                            runs : Seq(Task),
                            input : Task \cup {NoTask},
                            chat : Chat \cup {NoChat}]]
  /\ requester \in [Task -> Chat \cup {NoChat}]
  /\ outcome \in [Task -> Terminal \cup {"none"}]
  /\ heard \subseteq Task

DelegationInit ==
  /\ Init
  /\ toolContext = DefaultChat
  /\ turn = [a \in Actor |-> NoChat]
  /\ inbox = <<>>
  /\ pipe = [p \in Pipeline |-> [pc |-> "none", plan |-> <<>>, runs |-> <<>>,
                                 input |-> NoTask, chat |-> NoChat]]
  /\ requester = [t \in Task |-> NoChat]
  /\ outcome = [t \in Task |-> "none"]
  /\ heard = {}

-----------------------------------------------------------------------------
(* Turns.                                                                  *)

\* A channel publishes a user's message, or an admin's /emergency-stop.
ChannelPublishes(m) ==
  /\ Len(inbox) < MaxInbox
  /\ inbox' = Append(inbox, m)
  /\ UNCHANGED <<registryVars, toolContext, turn, pipe, requester, outcome, heard>>

\* A turn begins by pointing every tool at its chat.
BeginTurn(a, c) ==
  /\ turn' = [turn EXCEPT ![a] = c]
  /\ toolContext' = c

QueenTakesMessage ==
  /\ turn[Queen] = NoChat
  /\ inbox # <<>>
  /\ Head(inbox).kind # "stop"
  /\ inbox' = Tail(inbox)
  /\ BeginTurn(Queen, Head(inbox).chat)
  /\ heard' = IF Head(inbox).kind = "worker" THEN heard \cup {Head(inbox).task} ELSE heard
  /\ UNCHANGED <<registryVars, pipe, requester, outcome>>

\* /emergency-stop is answered without a turn of the LLM.
QueenStopsWorkers ==
  /\ turn[Queen] = NoChat
  /\ inbox # <<>>
  /\ Head(inbox).kind = "stop"
  /\ inbox' = Tail(inbox)
  /\ CancelNames(ActiveNames)
  /\ UNCHANGED <<activeTasks, results, phase, orderName, waiter>>
  /\ UNCHANGED <<toolContext, turn, pipe, requester, outcome, heard>>

DirectTurnBegins(a, c) ==
  /\ turn[a] = NoChat
  /\ BeginTurn(a, c)
  /\ UNCHANGED <<registryVars, inbox, pipe, requester, outcome, heard>>

TurnEnds(a) ==
  /\ turn[a] # NoChat
  /\ turn' = [turn EXCEPT ![a] = NoChat]
  /\ UNCHANGED <<registryVars, toolContext, inbox, pipe, requester, outcome, heard>>

\* The bound on tasks: turns leave enough of them for the stages still to run.
StagesToRun(p) ==
  IF pipe[p].pc \in {"launched", "stage"} THEN Len(pipe[p].plan) - Len(pipe[p].runs) ELSE 0

TasksToSpare == Cardinality(Unborn) - MapThenSumSet(StagesToRun, Pipeline)

\* SpawnTool.execute; a rejected spawn only returns an error to the LLM.
TurnSpawns(a, n) ==
  /\ turn[a] # NoChat
  /\ TasksToSpare > 0
  /\ \E t \in Task :
       /\ Register(t, n)
       /\ requester' = [requester EXCEPT ![t] = turn[a]]
  /\ UNCHANGED <<waiter, toolContext, turn, inbox, pipe, outcome, heard>>

\* SpawnPipelineTool.execute creates the orchestrator's task and returns.
TurnLaunchesPipeline(a, p, plan) ==
  /\ turn[a] # NoChat
  /\ TasksToSpare >= Len(plan)
  /\ pipe[p].pc = "none"
  /\ pipe' = [pipe EXCEPT ![p] = [pc |-> "launched", plan |-> plan, runs |-> <<>>,
                                  input |-> NoTask, chat |-> turn[a]]]
  /\ UNCHANGED <<registryVars, toolContext, turn, inbox, requester, outcome, heard>>

-----------------------------------------------------------------------------
(* Pipelines. A step of the orchestrator runs from one worker's end to the *)
(* launch of the next, or to the final message.                            *)

Stage(p) == Len(pipe[p].runs)

\* orchestrate_pipeline reaches its next spawn_worker_and_wait with the output of
\* the run in `input' and the messages in `sent' published on the way.
LaunchStage(p, input, sent) ==
  LET n == pipe[p].plan[Stage(p) + 1]
  IN  \/ /\ \E t \in Task :
              /\ Register(t, n)
              /\ Await(p, t)
              /\ requester' = [requester EXCEPT ![t] = pipe[p].chat]
              /\ pipe' = [pipe EXCEPT ![p].pc = "stage", ![p].input = input,
                                      ![p].runs = Append(@, t)]
         /\ inbox' = inbox \o sent
      \/ /\ Rejects(n)
         /\ inbox' = inbox \o Append(sent, PipeMsg(p, "failed"))
         /\ pipe' = [pipe EXCEPT ![p].pc = "over"]
         /\ Return(p, RejectedReport)
         /\ UNCHANGED <<activeTasks, results, phase, orderName, cancelRequested, requester>>

PipelineStarts(p) ==
  /\ pipe[p].pc = "launched"
  /\ LaunchStage(p, NoTask, <<PipeMsg(p, "started")>>)
  /\ UNCHANGED <<toolContext, turn, outcome, heard>>

\* A pipeline is over: with its last stage, or with one that did not complete.
PipelineEnds(p, r, kind) ==
  /\ inbox' = Append(inbox, PipeMsg(p, kind))
  /\ pipe' = [pipe EXCEPT ![p].pc = "over"]
  /\ Return(p, r)
  /\ UNCHANGED <<activeTasks, results, phase, orderName, cancelRequested, requester>>

\* Mutant: only FAILED stops a pipeline, a cancelled stage does not.
BugOnlyFailedStops(r) == r.status = "failed"

StopsPipeline(r) == r.status # "completed"

PipelineAdvances(p) ==
  /\ pipe[p].pc = "stage"
  /\ CanResume(p)
  /\ LET r == AwaitedReport(waiter[p].task)
     IN  \/ /\ StopsPipeline(r)
            /\ PipelineEnds(p, r, "failed")
         \/ /\ ~StopsPipeline(r)
            /\ Stage(p) = Len(pipe[p].plan)
            /\ PipelineEnds(p, r, "completed")
         \/ /\ ~StopsPipeline(r)
            /\ Stage(p) < Len(pipe[p].plan)
            /\ LaunchStage(p, r.run, <<>>)
  /\ UNCHANGED <<toolContext, turn, outcome, heard>>

-----------------------------------------------------------------------------
(* Workers. on_complete publishes to wherever the spawn tool points now.   *)

\* Mutant: the stages of pipelines get an on_complete too.
BugStagesNotify(t, status) ==
  /\ outcome' = [outcome EXCEPT ![t] = status]
  /\ inbox' = Append(inbox, WorkerMsg(t))
  /\ UNCHANGED <<toolContext, turn, pipe, requester, heard>>

\* Mutant: on_complete is skipped for a worker that was cancelled.
BugCancelledSilent(t, status) ==
  /\ outcome' = [outcome EXCEPT ![t] = status]
  /\ inbox' = IF HasCallback(t) /\ status # "cancelled"
              THEN Append(inbox, WorkerMsg(t)) ELSE inbox
  /\ UNCHANGED <<toolContext, turn, pipe, requester, heard>>

WorkerEnds(t, status) ==
  /\ outcome' = [outcome EXCEPT ![t] = status]
  /\ inbox' = IF HasCallback(t) THEN Append(inbox, WorkerMsg(t)) ELSE inbox
  /\ UNCHANGED <<toolContext, turn, pipe, requester, heard>>

WorkerRuns(t) ==
  \/ WorkerBegins(t) /\ UNCHANGED delegationVars
  \/ WorkerDropped(t) /\ UNCHANGED delegationVars
  \/ WorkerCompletes(t) /\ WorkerEnds(t, "completed")
  \/ WorkerFails(t) /\ WorkerEnds(t, "failed")
  \/ WorkerCancelled(t) /\ WorkerEnds(t, "cancelled")

-----------------------------------------------------------------------------
PipelineSteps(p) == PipelineStarts(p) \/ PipelineAdvances(p)

QueenConsumes == QueenTakesMessage \/ QueenStopsWorkers

DelegationNext ==
  \/ \E c \in Chat : ChannelPublishes(UserMsg(c)) \/ ChannelPublishes(StopMsg(c))
  \/ QueenConsumes
  \/ \E a \in Direct, c \in Chat : DirectTurnBegins(a, c)
  \/ \E a \in Actor : TurnEnds(a)
  \/ \E a \in Actor, n \in Name : TurnSpawns(a, n)
  \/ \E a \in Actor, p \in Pipeline, plan \in Plans : TurnLaunchesPipeline(a, p, plan)
  \/ \E p \in Pipeline : PipelineSteps(p)
  \/ \E t \in Task : WorkerRuns(t)

\* The event loop serves every ready coroutine, the awaits of workers and turns end (no MCP
\* server is silent for ever), turns end (max_iterations), and the Queen goes on to the next
\* message.
DelegationFairness ==
  /\ \A t \in Task : WF_vars(WorkerRuns(t))
  /\ \A p \in Pipeline : WF_vars(PipelineSteps(p))
  /\ WF_vars(TurnEnds(Queen))
  /\ WF_vars(QueenConsumes)

DelegationSpec == DelegationInit /\ [][DelegationNext]_vars

FairDelegationSpec == DelegationSpec /\ DelegationFairness

-----------------------------------------------------------------------------
(* Safety.                                                                 *)

\* The Queen hears of every worker she spawned exactly once: the end of a worker
\* puts one notice on the bus, and no notice is lost or repeated on the way.
NoticesConserved ==
  \A t \in Task :
    LET pending == Cardinality({i \in DOMAIN inbox :
                                  inbox[i].kind = "worker" /\ inbox[i].task = t})
    IN  pending + (IF t \in heard THEN 1 ELSE 0) =
          (IF HasCallback(t) /\ phase[t] = "finished" THEN 1 ELSE 0)

\* A stage is given the output of the worker that this pipeline ran for the stage
\* before, and that worker completed, although names may be shared and reused.
StagesChained ==
  \A p \in Pipeline :
    /\ pipe[p].pc = "stage"
    /\ Stage(p) > 1
    => /\ pipe[p].input = pipe[p].runs[Stage(p) - 1]
       /\ outcome[pipe[p].input] = "completed"

\* COMPLETED ALL STAGES is only announced when each stage of the plan had a
\* worker of the planned name that completed.
CompletionIsTrue ==
  \A i \in DOMAIN inbox :
    inbox[i].kind = "completed" =>
      LET p == inbox[i].pipe
      IN  /\ Stage(p) = Len(pipe[p].plan)
          /\ \A k \in 1..Stage(p) :
               /\ orderName[pipe[p].runs[k]] = pipe[p].plan[k]
               /\ outcome[pipe[p].runs[k]] = "completed"

\* /emergency-stop reaches every worker that exists when the Queen executes it,
\* those that have not had their first step included.
StopReachesAll ==
  [][QueenStopsWorkers => \A t \in LiveTasks : cancelRequested'[t]]_vars

-----------------------------------------------------------------------------
(* Liveness.                                                               *)

\* "I will notify you when it completes": every pipeline comes to an end and says
\* so, also when a stage is refused, crashes or is cancelled before it begins.
PipelinesReport ==
  \A p \in Pipeline : pipe[p].pc = "launched" ~> pipe[p].pc = "over"

\* The end of a spawned worker becomes a turn of the Queen, however many users'
\* messages arrive, unless the worker was cancelled before its first step.
NoticesHeard ==
  \A t \in Task : HasCallback(t) /\ Live(t) ~> t \in heard \/ phase[t] = "dropped"

-----------------------------------------------------------------------------
(* What the code says of itself and does not do.                           *)

\* loop.py:284-288: the tools' callbacks route results to the correct chat, the
\* one whose turn asked for the worker.
NoticesReachRequester ==
  \A i \in DOMAIN inbox :
    inbox[i].kind = "worker" => inbox[i].chat = requester[inbox[i].task]
=============================================================================
