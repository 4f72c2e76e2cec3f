# Hive: a TLA+ verification project

Hive is a self-hosted office agent: one asyncio process (the *gateway*) in which a
"Queen" agent answers chat messages, delegates to background workers, executes scheduled
jobs and keeps a daily budget. This directory holds TLA+ models of its concurrent core,
TLC configurations that check them on small instances, and TLAPS proofs that hold for
every instance. Paths below are relative to the repository.

    tlc -workers 2 -config MCDelegation.cfg MCDelegation      # one run
    tlapm WorkerRegistryProofs.tla                            # the proofs of a module

`PROJECT.json` ties everything to the code: `map` names the lines each definition stands
for, `runs` the configurations, `mutants` a plausible bug for each property that TLC must
catch, `hazards` what is hard to test here, `findings` where code and documents disagree.

## 1. Inventory

| component | state it keeps | operations |
|---|---|---|
| WorkerRegistry (`hive/agent/worker/registry.py`) | `_active_tasks` (name -> asyncio task), `_results` (name -> report) | `spawn_worker`, `spawn_worker_and_wait`, `_run_worker_task`, `cancel_worker`, `shutdown_all` |
| WorkerLoop (`hive/agent/worker/loop.py`) | messages, circuit breaker, iteration | `execute_order`: LLM call, tools, report |
| Delegation tools (`hive/agent/tools/worker_tools.py`) | channel and chat of the latest turn; an orchestrator coroutine per pipeline | `spawn`, `spawn_pipeline`, `set_context`, `on_complete`, `orchestrate_pipeline` |
| AgentLoop (`hive/agent/loop.py`) | sessions, tools, consolidating sessions | `run`, `_process_message`, `_run_agent_loop`, `process_direct`, slash commands, `_consolidate_memory` |
| BudgetTracker (`hive/agent/budget.py`) | `.budget_state.json`, `_lock` | `check_budget`, `add_cost`, `get_usage` |
| CronService (`hive/cron/service.py`) | `_store` (a copy of `jobs.json`), `_timer_task`, `_running` | `start`, `stop`, `add_job`, `remove_job`, `enable_job`, `run_job`, `_on_timer`, `_execute_job`, `_arm_timer` |
| HeartbeatService (`hive/heartbeat/service.py`) | `_running`, its task | a direct turn every interval, skipped while `HEARTBEAT.md` has nothing to do |
| ToolRegistry and gate (`hive/agent/tools/registry.py`, `gate.py`, `session_approve.py`) | tools, session id, role, approved tools | `execute`, `approve_for_session`, `clear_approvals` |
| CircuitBreaker (`hive/agent/circuit_breaker.py`) | the last call and the last error, each with a counter | `check_action`, `check_result` |
| MessageBus (`hive/bus/queue.py`) | inbound and outbound queues | publish, consume |
| EventEmitter, StreamServer (`hive/bus/emitter.py`, `hive/stream/server.py`) | subscribers, one bounded queue each | `emit`, `subscribe`, `unsubscribe`, drop of the oldest |
| Sessions (`hive/session/dag.py`, `manager.py`, `_consolidate_memory` in `hive/agent/loop.py`) | the append-only DAG of entries per session, a cache of sessions, `last_consolidated` | `append`, `checkout`, `load`, `save`, `invalidate`, consolidation, `/new`, `/reset`, `/factory-reset` |
| ChannelManager (`hive/channels/manager.py`) | the channels, the dispatcher | `start_all`, `stop_all`, `_dispatch_outbound` |
| Telegram, WhatsApp, Discord, Feishu, DingTalk, email, Slack, QQ (`hive/channels/`) | connection, processed ids, typing indicators, messages being handled | `start`, `stop`, `send`, the handler of what arrives |
| WhatsApp bridge (`bridge/src/`) | its clients, its connection to WhatsApp | frames to and from the channel |
| Mochat (`hive/channels/mochat.py`) | socket, cursors and their file, cold sessions, seen ids, delay buffers and timers | connect, subscribe, payloads, flush, save |
| Sandbox (`hive/agent/sandbox/docker_sandbox.py`, `hive/agent/tools/docker_exec.py`) | a directory, a docker client and a container per run | `is_available`, `run_python`, `run_shell` |
| Signals of `report_task` (`hive/agent/consolidation.py`) | notes in Markdown files, a registry of skills | one task per signal, from `_handle_signal` |
| Audit, providers, other tools, onboarding, skills, configuration, CLI | files and services | input and output |

**How they interact.** Channels publish to the inbound queue; the Queen takes one message
at a time, but cron jobs and the heartbeat start *direct turns* (`process_direct`) beside
her. All turns share one tool registry, one set of tools with a current chat, one budget
and one worker registry. A worker that ends publishes a system message to the inbound
queue, which becomes a turn of the Queen. A pipeline is a coroutine that runs workers one
after the other and publishes its progress. Replies leave through the outbound queue and
the dispatcher. Cron jobs are direct turns awaited by the cron timer, and turns edit the
cron jobs through a tool. The `hive cron` commands edit the same file from other processes.

**What is hard.** There is one event loop and hardly any lock: every `await` that really
suspends is a point where another turn may change what was read before. Tasks are
cancelled (workers by an emergency stop, the cron tick by any edit of the jobs), and a
cancelled task stops wherever it happens to wait, or before its first step. Names are
reused (workers, results). Files are rewritten whole, and the process may die in between.

**What makes each component correct.**

* *WorkerRegistry*: the cap holds for the coroutines; every live worker can be found and
  stopped; no slot is lost; a waiting caller is always woken and never gets the output of a
  worker that is not its own.
* *Delegation*: the end of every spawned worker becomes exactly one notice and then a turn;
  stages are fed the output of their own predecessor; success is announced only if all
  stages succeeded; an emergency stop misses nobody; every pipeline reports an end; notices
  go to the chat that asked.
* *BudgetTracker*: no charge is lost under contention, at midnight, or when a save fails;
  the overrun is bounded by the calls that were open; every charge ends; each threshold is
  announced.
* *CronService*: with a job to come the timer is armed, to the earliest run; only jobs that
  are still wanted execute; none is overlooked; a one-time job runs once; repeated jobs
  keep their distance; no edit is lost.
* *AgentLoop, ToolRegistry, CircuitBreaker*: an approval ends with its turn, whichever turns
  overlap; every message gets one answer; the breaker opens exactly on the documented
  repetitions.
* *Sessions*: every message is still in the context of the next turn or a summary on the branch
  was made of it, and a restart gives back the branch that was in memory.
* *EventEmitter and StreamServer*: a subscriber sees events in order and misses only the
  oldest, when its own queue is full; none stays subscribed without a client.
* *Channels*: what was accepted makes one turn, in order where the platform gives an order;
  each answer is sent or given up; an indicator ends. *Mochat*: nothing is taken twice,
  nothing is forgotten in the buffer.
* *Sandbox*: a program that outlives its timeout is stopped.

`PROJECT.json` lists the hazards behind these at the line where each bites, including the
ones no property covers yet, with the reason.

## 2. Plan

| order | module | about | state |
|---|---|---|---|
| 1 | `WorkerRegistry` | workers, slots, reports, waiting callers, cancellation | modelled, checked, safety proved |
| 2 | `Delegation` (extends 1) | turns, tools, pipelines, notices on the bus | modelled, checked, safety proved |
| 3 | `BudgetTracker` | gate and charge around LLM calls, the file | modelled, checked, bound and ledger proved |
| 4 | `CronService` | timer, execution, edits, restarts, commands | modelled, checked, safety proved |
| 5 | `AgentLoop` | turns over one tool registry: gate, approvals, role, circuit breaker, answers; cron and heartbeat turns beside the Queen | modelled, checked, safety proved |
| 6 | `Sessions` | the DAG, the file, the session cache, `/new`, `/reset`, factory reset, consolidations beside turns, crashes | modelled, checked, safety proved |
| 7 | `EventStream`, `Channels`, `Mochat`, `Sandbox`, composed by `Gateway` | the parts that face platforms, stream clients and the Docker daemon | modelled, checked, safety proved |
| 8 | `WorkerPool` | what the registry promises, abstractly; refined by `WorkerRegistry` | stated, refinement checked, its safety part proved |

*Abstract specifications still worth stating.* `Ledger`: a day's sum to which each caller
adds its cost in one atomic step, or loses it; `BudgetTracker` should implement it with
`Booked` (see section 6) as the sum. `Mailbox`: a message is put once and taken at most once,
for the notices of `Delegation` and the answers of `Channels`.

*Theorems worth proving next.* Every safety property of the runs is proved (section 6); next
would come that `BudgetTracker` implements the ledger, which needs the sum of the file to be
read as that of the payments made so far.

## 3. The modules

An action is the code between two points where a coroutine really suspends.
`EventEmitter.emit` takes an uncontended `asyncio.Lock` and puts without waiting,
`MessageBus.publish_inbound` puts into an unbounded queue: neither suspends, so
`spawn_worker` is one action, and so is the tail of `_run_worker_task`.

### WorkerRegistry

`activeTasks` and `results` are the two dictionaries. `phase` is what the event loop knows
of each task, `orderName` the name it was created for, `cancelRequested` a `cancel()` not
yet delivered, `waiter` the coroutines inside `spawn_worker_and_wait`.

| actions | code |
|---|---|
| `SpawnWorker`, `Register`, `Rejects` | `spawn_worker`: cap, name in use, old result forgotten, task created |
| `SpawnAndWait`, `SpawnAndWaitRejected`, `WaiterResumes`, `AwaitedReport` | `spawn_worker_and_wait`: the shielded await and the three reports it may return |
| `WorkerBegins`, `WorkerDropped` | the first step of the task; a task cancelled before it never enters the `try` |
| `WorkerCompletes`, `WorkerFails`, `WorkerCancelled`, `Deregister` | `execute_order` returns, raises or is cancelled; pop of the name, then the report |
| `CancelWorker`, `CancelAll` | `cancel_worker`, `shutdown_all`, the loop of `/emergency-stop` |

A report is told apart by the task whose work it carries. A caller that is woken resumes
within two rounds of the event loop; a worker of the same name spawned in between cannot
*complete* in that time, because that takes a network round trip, but it can fail. This is
the guard `WakeupPending`, and `CompletedReportIsOwn` depends on it: without it a pipeline
could be handed another worker's output.

### Delegation

Extends `WorkerRegistry`; a pipeline is one of its waiters. `toolContext` is the channel and
chat all tools point to, `turn` the turn of each actor, `inbox` the inbound queue, `pipe` the
orchestrators. `requester`, `outcome` and `heard` are history for the properties.

| actions | code |
|---|---|
| `ChannelPublishes` | a channel calls `publish_inbound` |
| `QueenTakesMessage`, `QueenStopsWorkers` | `run` takes the next message; `/emergency-stop` is answered at once |
| `DirectTurnBegins`, `TurnEnds` | `process_direct` of cron jobs and the heartbeat; end of a turn |
| `TurnSpawns`, `TurnLaunchesPipeline` | `SpawnTool.execute`, `SpawnPipelineTool.execute` |
| `PipelineStarts`, `PipelineAdvances`, `LaunchStage`, `PipelineEnds` | `orchestrate_pipeline` from one await to the next |
| `WorkerRuns`, `WorkerEnds` | the registry's steps with `on_complete`, which only the spawn tool passes |

An emergency stop cancels the workers; a pipeline whose stage was cancelled stops there and
says so. A pipeline that is between two stages, or was launched and not yet scheduled, has
no worker and is not stopped.

### BudgetTracker

`file` is the state file (unreadable when missing or cut short), `lock` the `asyncio.Lock`,
`loaded` the dictionary of the charge that holds it, `call` each turn's place in its
iteration. Since the lock is held across `asyncio.to_thread`, a check or a read of the usage
is one action; a charge is load (`AddCostLoads`), open, which truncates (`SaveOpens`), and
write (`SaveWrites`), or `SaveFails`. `Midnight` may come between any two of them, `Restart`
may cut them short, and `TurnCancelled` is the cron timer cancelling its turn. `paid` is
what today's answered calls cost, counted from the last time a charge was lost; `announced`
are the alerts.

### CronService

`jobs` is the gateway's copy, `file` is `jobs.json`, `timer` the timer task: asleep until
`wake`, or executing `job` with `due` to follow. `Armed` is `_arm_timer`, which cancels
whatever the task is doing, so an edit that arrives while a job executes ends that job's turn.
`Executed` is what `_execute_job` leaves of a job, `ComputeNextRun` is `_compute_next_run`,
with a cron expression reduced to "each multiple of t". `CliAdd`, `CliRemove`, `CliEnable`
and `CliRun` are the `hive cron` commands, each a process that loads the file, edits it and
writes it back; its service is not running and has no `on_job`, so `hive cron run` marks the
job as run and executes nothing. `Stop` also stands for a crash: nothing is saved by either.

### WorkerPool

What the registry promises without its dictionaries: workers that live and end, their names,
those that were told to stop, and the outcome each caller got. `WorkerRegistry` maps its
tasks and reports to it (`Pool`), and `ImplementsPool` is the abstract specification: `Safety`,
which is proved, and `Fairness` (every worker ends, every caller returns), which TLC checks. An
outcome is mapped with the worker it is about: a success of another worker than the caller's
own (`OwnOutcome`) becomes "foreign", which the pool never hands out.

### AgentLoop

`turn` holds for each actor where its turn is: before an LLM call, among tool calls, inside a
tool, or over; the Queen first connects to the MCP servers. The actors share `approved`
(`_pre_approved`) and `role` (`_channel_role`).

| actions | code |
|---|---|
| `Connects` | `_connect_mcp`, before `run` takes its first message |
| `QueenTakes`, `QueenApproves`, `DirectBegins` | `run` and `_process_message`, `_handle_admin_approval`, `process_direct` |
| `LLMCalls`, `LLMConcludes`, `CallBegins`, `CallEnds` | `_run_agent_loop` with `ToolRegistry.execute`, the gate and the breaker |
| `TurnEnds`, `TurnFails`, `TurnCancelled` | the end of a turn, an exception on the way, cron arming its timer |

The calls stand for the tiers of the gate: two forbidden commands with the same refusal
(different calls with equal errors, which the breaker counts apart), one that needs approval,
`session_approve`, which gives it, and one of an MCP tool, which needs it too and is the only one
that nothing bounds in time (`Unbounded`). `MessagesAnswered` has as its premise that the Queen does not wait for an MCP
server for ever (`WaitsForServer`), in a call or while connecting: she would then answer nobody. `granted` and `trail` are history: whose approval
stands, and the last calls of each turn, from which the breaker's decision is recomputed.

### Sessions

`entry` is every entry ever written, with its parent; an object and the file are told by the
entries they know and by their leaf. Objects matter because `/new` and the resets drop one
that a consolidation still holds. `Reading` is `_consolidate_memory` up to the LLM call,
`ConsolidationEnds` the rest, which writes to the DAG the session object has by then, or, if
the answer has no `history_entry`, does not. After `compact` the write of MEMORY.md may raise
(`MemoryWriteFails`) or the process may die (`CrashWhileConsolidating`): the messages are then cut
off and do not count as consolidated. What stands in MEMORY.md is not modelled: the LLM may leave
`memory_update` out, or put into it what it likes, and the code writes that. What the code can
promise is the summary, which it adds to the branch itself: `covers` is the messages the LLM was
given to summarise, and `NothingForgotten` counts on nothing else.

`CrashWhileWriting` leaves a torn line; the next append makes one malformed line with it
(`WithLines`). What may be lost nevertheless is history, in `exposed`, and `NothingForgotten`
leaves out exactly that:

* `Unsummarised`: an answer without a `history_entry` adds no summary, and
  `last_consolidated` counts its messages all the same.

* `Skipped`: `last_consolidated` is computed when the LLM has answered, from the count at that
  time, so messages written meanwhile count as consolidated, and with them those that were to
  be kept; the next consolidation passes over them.
* `Glued`: a line appended to a torn one is lost, and with it the way to what came before.
* `Misplaced`: a summary reaches a file in which its first kept entry is not on the branch;
  `build_context` then finds no message to start from.

### EventStream, Channels, Mochat, Sandbox and Gateway

`EventStream`: `Emit` puts an event into all queues in one step, for the emitter awaits nothing
under its lock. A handler authenticates, subscribes, takes an event, sends it, or finds its
client gone.

`Channels`: `wire` is what a platform has still to hand over, `handling` the messages between
the first await of their handler and its end, `published` the inbound queue, `outbox` the
outbound queue. Each channel has its own `…Receives`, `…Publishes`, `…Start` and `…Send`, and
the differences between them are the point: Telegram, Discord and the mailbox are read by one
task, Feishu and Slack start a task per message, QQ and WhatsApp do not await at all, DingTalk's
tasks do not await either. `Dispatch` and `Sends` are the manager's dispatcher; `Turn` is the
agent, `MessageToolSends`, `CronDelivers` and `BudgetAlerts` are those who send unasked. `FeishuSend`
is a synchronous call without a timeout, so while one is under way no task of the gateway takes
a step (`Blocked`); only platforms, clients, other processes and the daemon go on. `AnswersEnd` and
`TypingEnds` have as their premise that no such call lasts for ever (`LoopRuns`). `OnceInOrder`
excepts Slack where the bot does not know its own name and the policy is not to wait for a
mention: there the code does process a mention twice (section 4).

A poll of the mailbox is the recursive function `Fetched`: after each email, the uids noted, the
messages taken and those left in the mailbox, so that an exception after the k-th email finds
what it left. Mails are marked as seen, as `mark_seen` has it by default.

`Mochat`: events of the session are numbered, a payload is a range of them (`Processed` takes
the new ones of it in order); panel messages come twice. `taken` is the one sequence of what
both have handed to the agent. A frame is handled in a task of its own, and the answer to a
subscription is handled later than the events that came with it (`SubscribeReturns`).

`Sandbox`: the call in the event loop, the docker client it waits for and the container in the
daemon are three processes; killing the second does not stop the third.

`Gateway` composes the four: each step is one part's, and of the event loop's only while it is not
`Blocked`. `Setups` is what the configuration enables.

## 4. The runs

Each passing run has a mutant per property in `PROJECT.json`: the module with one plausible
bug in the definition named there, on which the same configuration fails.

| run | distinct states | what it shows |
|---|---|---|
| `worker_registry` | 446 000 | `CapacityRespected`, `RegistryMirrorsTasks`, `CompletedReportIsOwn`; `WaitersReturn`; the refinement `ImplementsPool` |
| `delegation` | 222 000 | `NoticesConserved`, `StagesChained`, `CompletionIsTrue`, `StopReachesAll`; `PipelinesReport`, `NoticesHeard` |
| `budget` | 375 000 | `UsageBounded`, `NoChargeLost`; `ChargesEnd`; no deadlock on the lock |
| `cron` | 242 000 | `TimerArmed`, `ExecutionsWanted`, `RunsSpaced`, `OneTimeEndsOnce`; `DueJobsRun` |
| `agent_loop` | 608 000 | `ApprovalsEndWithTurn`, `OneAnswerEach`; `BreakerExact`; `MessagesAnswered` |
| `sessions` | 1 795 000 | `NothingForgotten`, `RestartKeepsBranch` |
| `gateway` | 468 000 | `OnceInOrder`, `EventsKept`, `TakenOnce`; `AnswersEnd`, `TypingEnds`, `SubscriptionsEnd`, `TimedOutStops` |

**Bounds.** `worker_registry`: three names and three tasks against a cap of two, two callers.
Three tasks are the shortest history in which a name is used, reused and contended while
the cap is reached. `delegation`: one pipeline of two stages, over two names or the same name
twice, and one more task for a colliding worker of another turn; one Queen, one cron turn;
the queue is bounded (`MaxInbox`) for users' messages only, so notices always find room.
`TasksToSpare` keeps enough tasks for the stages still to run. One chat there, since the
conservation of notices does not depend on their address; two in `notice_routing`. `budget`:
a limit of 4 and calls of up to 2, so that the thresholds fall between sums; one midnight and
one restart. `cron`: two jobs, one schedule of each kind (with and without deletion), six
ticks of the clock and four edits, enough for an edit during an execution, a restart and a
command, and for both jobs to be due in one tick. `agent_loop`: three LLM calls for the Queen,
the length at which the breaker trips, one for a cron turn, which can grant an approval or
use one; two messages, so that one turn follows another while the cron turn overlaps both.
`sessions`: a window of two messages, so that a compaction keeps one; eight entries (three
exchanges and two summaries), two consolidations at a time, one command and one crash. Eight are
the fewest with which a second consolidation passes over what the first was to keep; two commands
without a crash, and both with fewer consolidations, were checked once beside it.
`gateway`: two messages, one repetition, one fault, one message beside the answers, queues
and memories of one or two entries, so that they overflow. The parts share nothing but the
event loop and, the channels, the dispatcher; `MCGateway` therefore has each part alone, and
Discord with Feishu as two channels that compete for the dispatcher, of which one blocks the
loop. The stream, Mochat and the sandbox are there without Feishu, so the run does not show them
blocked: `SubscriptionsEnd` needs no premise in it, and would need that of `AnswersEnd` beside
Feishu. Slack has the policy `mention`.

Deadlock is checked in `budget`. The other systems may stop: tasks, edits, messages and the
clock are finite in the model.

**Runs that show a disagreement** (`findings` quotes the lines):

* `slot_leak`: a worker cancelled before its first step keeps its name and slot until the
  gateway restarts; `RegistryMirrorsTasks` says this is the only such leak.
* `notice_routing`: a worker's notice goes to the chat of the turn that began last.
* `budget_alerts`: a call that crosses two thresholds announces only the lower one.
* `cron_once`: adding or removing any job while a one-time job executes cancels its turn and
  begins it again. It still *ends* only once (`OneTimeEndsOnce`).
* `cron_commands`: a job added with `hive cron add` beside a running gateway is lost when the
  gateway next saves its own copy.

**Disagreements without a run.** Seen while modelling, and built into the models as the code
has them:

* `/new` clears the session object and drops it from the cache, but leaves the file
  (`hive/agent/loop.py:613`): the next message loads the old conversation again, until the
  archiving compaction is on file, or for good if its LLM call fails. The reply says "New
  session started".
* A consolidation that began before `/reset` appends to the deleted file and so recreates it;
  `hive/agent/loop.py:632` says "no history". After a factory reset the object in the
  cache still has its entries: the conversation goes on with all of its old context, and its
  exchange is written to a file without their parents.
* `last_consolidated` is to be the "number of path entries already compacted"
  (`hive/session/manager.py:33`). It is the number of *messages* at the time the LLM has answered,
  less those to keep (`hive/agent/loop.py:951`), and it is used as a position on the path: what a
  turn adds meanwhile is counted, so messages that were to be kept are never summarised. They
  are still in the context until the next compaction names a later first kept entry.
* A consolidation whose answer has no `history_entry` summarises nothing and counts its messages as
  consolidated (`hive/agent/loop.py:939`, `951`). One whose MEMORY.md cannot be written has
  added its summary and counts nothing, so the next summarises the same messages again.
* "We need a fresh Session object for the worker", "Temporary in-memory session"
  (`hive/agent/worker/registry.py:157`, `162`): `SessionManager` keeps its sessions in
  `~/.hive/sessions` whatever path it is given, and the key is always `worker`, so each worker
  loads the messages of those before it, and two at a time append to the same file.
* The role that `session_approve` asks for is that of the turn that began last
  (`hive/agent/loop.py:516`), not of "the user in this channel" (`session_approve.py:78`). The
  reply to APPROVE says "for the remainder of this gateway session"; the end of the next turn
  takes it back.
* The approvals of a turn that raised or was cancelled, or of `/onboard`, outlive it
  (`SECURITY.md:66` says otherwise); `ApprovalsEndWithTurn` leaves them out.
* A worker that calls a tool fails: `worker/loop.py:123` calls `model_dump` on a dataclass, and
  its handler calls `audit.log_system_event`, which does not exist.
* A docker run that is cancelled leaves client and container, though "each call starts a fresh
  container that is removed when done" (`docker_exec.py`); its directory is deleted meanwhile.
* Budget alerts go to a channel "notification" (`hive/agent/loop.py:371`) that the manager never
  has; the dispatcher drops them.
* Mochat's HTTP requests all raise (section 7), against "socket.io with fallback polling
  workers" in its docstring; after a failed first connection nobody tries again; a
  disconnection during the connect handler leaves `_ws_ready` true; the first payload of a cold
  session is dropped, be it history or a new message.
* A Telegram or Slack channel whose `start` raised is never started again. The typing indicator
  for a Telegram sender who is not allowed goes on. With `group_policy` other than `mention` and
  a failed `auth_test`, Slack processes a mention twice. A Discord reply is dropped without an
  error after three rate limits. Email loses the mails of a poll that raises after marking them.

## 5. Fairness

* Tasks, callers and pipelines are weakly fair: the event loop serves every ready coroutine,
  and every await of a worker ends: LLM calls by litellm's default time limit, commands, docker
  and web requests by their own. No turn has to spawn, cancel or launch anything. The Queen's
  turns end (`max_iterations`), and she goes on to the next message (`run` is a loop). An MCP
  server that never answers would break this: `PipelinesReport` and `NoticesHeard` assume that
  there is none, where `MessagesAnswered` has it as a premise.
* Charges are strongly fair, because `asyncio.Lock` serves its waiters in order of arrival: a
  turn that wants the lock is served though others keep taking it. Weak fairness would not do,
  the lock being taken and released all the time.
* The cron timer is weakly fair: a due timer is served and a job's turn ends. `DueJobsRun`
  holds because the edits of the jobs are finitely many: a job whose own turn edits the jobs
  every time cancels itself every time, and would never come to an end.
* Turns of `AgentLoop` go on: LLM calls and tools have the time limits above, except the call of
  an MCP tool (`hive/agent/tools/mcp.py:36`) and the connecting (`hive/agent/loop.py:459`). Of these
  two no fairness is assumed: a server may answer or not. Nothing says that a turn is cancelled,
  or that the LLM concludes before its iterations are spent.
* The agent's turns, the dispatcher and its sends are weakly fair in `Channels`: they are tasks of
  the event loop, and the sends end. Telegram's and Discord's clients give up after some 30
  seconds at most, the SDKs of Slack and QQ and the HTTP client of DingTalk by their own defaults,
  email's SMTP call, in a thread, after 30 seconds, WhatsApp's socket by its keepalive. Feishu's
  call alone has no limit (`hive/channels/feishu.py:126`, `319`), so none is assumed of it. No platform
  is bound to be reachable: a link may stay down, a send may always fail. The threads of the
  default executor are assumed not to be used up. That a turn ends is a premise here
  (`AnswersEnd`, `TypingEnds` rest on it as `NoticesHeard` does), and what `AgentLoop` examines.
* `EventStream` is weakly fair per handler while the loop is not blocked; a client that vanishes is
  noticed because its pings are not answered, which ends the send. `Mochat` and `Sessions` have
  safety properties only.
* The docker commands and the daemon are not stuck (`Sandbox`). The program in the container
  may run for ever, and nothing is assumed of the timeout.

## 6. The proofs

The proof modules take every value of the constants that satisfies the named assumption of
the component, which TLC evaluates in the runs: `RegistryAssumption`, `DelegationAssumption`
(a plan has two stages or more, as `spawn_pipeline` demands), `BudgetAssumption`,
`CronAssumption`, `AgentLoopAssumption`, `SessionsAssumption` (a window of at least one message, as
the configuration demands; more objects than consolidations), `EventStreamAssumption`,
`ChannelsAssumption`, `MochatAssumption` and `SandboxAssumption` (sizes of memories and queues are
positive, `group_policy` is one of the three that Slack has).

**WorkerRegistryProofs.** The cap is checked on the number of names, the property is about
tasks, so neither it nor `RegistryMirrorsTasks` is inductive alone. `RegistryInv` adds that
tasks carry names, that waiting callers wait for tasks that exist, and that the occupied
slots are at most `MaxWorkers`. The live tasks then map one to one into the slots, which
bounds their number (`CapacityCorrect`); the names may be infinitely many, so the lemmas
carry the finiteness of the occupied slots along. `ReportInv` is for
`CompletedReportIsOwn`: a name in use has no result on file, a dropped worker's name stays
in use, and for every caller that waits, a success filed under its worker's name is that
worker's own. Lemmas treat the three kinds of steps (registering, ending, quiet ones).

**The refinement of WorkerPool** is the last part of `WorkerRegistryProofs`. The registry
implements the pool: the initial states map, and each step maps to one of the pool or to a
stutter. Two things are needed beside `RegistryInv` and `ReportInv`. That a caller never gets a
success of a worker that was told to stop takes `ReportsHonest`: a success on file is that of a
worker that ended before anybody told it. And the cap of the pool, a number of live workers,
takes the one-to-one map of live tasks into slots.

**DelegationProofs.** `Delegation` extends the registry, so `RegistryInv` and `ReportInv` are taken
over; the one new step there is a pipeline's, which returns from one wait and begins the next
at once. `DelegationInv` adds: an outcome belongs to a worker that has ended
(`OutcomesSettled`), and the report on file tells it (`ReportsTellOutcome`); the runs of a
pipeline follow its plan, all but the last completed, and the last is the one it waits for
(`PipesSound`); a success on the queue was announced by a pipeline that is over
(`AnnouncedIsOver`); about each worker there is at most one notice, queued or heard, and there is
one exactly when it is due (`NoticesSound`). `StagesChained` and `CompletionIsTrue` need the
second and third together: the next stage is fed from a report, which is only known to be its
predecessor's because of `ReportInv`. `StopReachesAll` is an action property that follows from
`RegistryMirrorsTasks`: who has no slot was dropped and does not run.

**BudgetTrackerProofs.** That the day's sum stays below `Limit` plus one largest call per
caller is not inductive: in the middle of a charge the file is empty, and a sum below the
ceiling says nothing about the calls that are open. The invariant `ReserveInv` counts them
in: the sum, or what the charge in progress has loaded of it (`Booked`), plus `MaxCost` for
every caller with an open call stays within the ceiling. A caller enters at the gate, where
the sum is below the limit; it leaves by its charge, which costs no more than its reserve.
`LockInv` says that the one charge between load and save holds the lock, `DatesInv` that
nothing is dated in the future, so midnight can only lower the sum.

`LedgerInv` is for `NoChargeLost`: what was paid today is on file or owed by a caller
(`PaidCovered`), and the charge that holds the lock has loaded what is on file (`LoadedInv`),
without which its save would lose what another has booked. What callers owe is a sum over a set,
which the fold takes in an order that CHOOSE leaves open. Its recursion goes from larger sets to
smaller ones, so it has a solution (`SumExists`, `TotalUnfolds`), and by the least size of a set
that fails, the sum is the same whoever is counted first (`TotalWithout`) and depends on the
cost of no other caller (`TotalSame`).

**AgentLoopProofs.** The type of a breaker's counters does not follow from their types: they
stay within their thresholds only because a turn whose breaker has tripped makes no further
call. `TurnSound` says so (a turn that goes on has counters below both), and that a call is
left in the batch wherever one may begin or end; `LoopInv` joins it for all turns with the
ranges of the shared state and the two properties. A step touches one turn, so three lemmas
carry all actions: a turn begins (`TurnBegins`), goes on (`TurnGoesOn`) or is left
(`TurnIsLeft`). The last is where `ApprovalsEndWithTurn` could fail: the approval that stands
afterwards is nobody's, another turn's that was there before, or one left behind.
`BreakerExact` compares the decision with the calls themselves, of which the counters are a
summary: `TrailsSound` says what they tell of the last three (which call was counted last, and
whether it repeats; whether the last error is like the one before), at every point of a turn,
also while a tool runs and its call is counted but not its error.

**CronServiceProofs.** `CronInv` joins `TimerArmed`, `ExecutionsWanted` and `RunsSpaced` with what
they rest on. The job in execution has left the list of those due (`TimerSound`). The gateway's
copy and `jobs.json` drift apart, since commands edit the file beside the running gateway; only
because an id is given out once do they never hold two schedules under it (`IdsUnique`). A
one-time job runs again whenever something gives it a next run: `EndedAreElapsed` says that its
moment is past once it has ended, in the copy and in the file, so that no load of either, no
enabling and no restart does (`OneTimeEndsOnce`). The earliest run of `_arm_timer` exists because
numbers are well-founded.

**EventStreamProofs.** A queue that drops its oldest event when it is full still holds the latest
events without a gap (`Latest`); what was sent is in order and lies before it (`SentInOrder`);
and what has left it was sent or is in the handler's hand, or is older than the queue is long
(`NoneSkipped`). `EventsKept` is about the concatenation of the three.

**SessionsProofs.** `get_path` is a recursive function. The library's induction theorems cannot
be used, so what holds of every entry's path is proved by its least counterexample: the set of
the entries that fail has a least element (`LeastOfNats`, from well-foundedness), whose parent
does not fail. That gives the lemmas on which all rests: a path rises (`WalkRises`), it is the
same for whoever knows the same entries (`WalkKeeps`), and it grows at its end.

`BranchInv` is for `RestartKeepsBranch`: everything refers to entries that have been written
(`Typed`); a consolidation of the cached object finds at least as many messages as it will keep,
so that no negative number is counted (`CacheSound`); and while only the cached object has written
the file, the file knows its entries and its leaf (`Owned`). That there is a free object is a
pigeonhole argument.

`MemoryInv` is for `NothingForgotten`, and follows consolidations through their LLM calls. A branch
is `Fine` if there is a summary of what `build_context` leaves out of it. This must hold of the
file's branch, to which a restart or `/new` goes back; of the branch in memory; and of the part
of it that the file knows, for that becomes the file's branch when its leaf is written (`Views`).
Since only the latter survives, the summaries counted on are those of that part (`Known`). What
is before `last_consolidated` must be among them already, as the next consolidation passes over
it. A consolidation under way (`Works`) leaves no gap: what is neither in the context from its
first kept entry on nor in a summary is what it was given to summarise; and what it will count as
consolidated comes before that entry, unless nothing from there on counts any more. This also
holds when it ends halfway: a summary that is on file while `last_consolidated` stays behind
makes the next consolidation summarise more, not less. One whose object was dropped archives
everything, or cannot reach the file without cutting the context off (`Pending`). Without the last
conjunct the invariant fails at a `/reset` with a consolidation in flight.

**GatewayProofs.** Each part of the gateway has an inductive invariant of its own, and since no two
share a variable, a step of one leaves the others' alone (`GatewayStep`).

`ChannelsInv` follows a message through a channel. That the inbound queue has it once says nothing
of the copy that waits in a handler or on the wire, so `Pipe` relates all three: on the wire the
entries that are *fresh*, not to be dropped as known, are in the order in which they were
written, and each of wire, handlers and queue is apart from what is ahead of it, and behind it in
the channels that keep the order. What makes an entry fresh differs: on Feishu and QQ its number
exceeds that of the message remembered last, on Slack the second announcement of a mention never
is (until the bot asks for its name nothing goes through Slack, `SlackWaits`: what it learns
then holds for all that was ever handled). On Feishu and QQ an entry that is not fresh must
still be remembered when it arrives, though they remember only the last `SeenCap` messages:
`Remembers` says that between such an entry's message and some later one, `t`, fewer than `SeenCap`
were written, and that all that is ahead of it on the wire is at most `t`. So it is found among the
remembered ones: were it forgotten, `SeenCap` messages would fit in between (`StaleSeen`, a
pigeonhole argument). In the mailbox a mail stays until it is marked: `Parted` says that a
poll, wherever an exception ends it, parts it into what is taken and what is left, both in
their order. `Replies` is for the way back: what was sent, is being sent or waits answers
published messages, each part behind the one before.

`MochatInv` has `SessionSound` and `PanelSound`. The frames of the session that are still to come
are apart from each other and from what was taken, and at most one answer to a subscription
is among them: the events it repeats have not been taken, since the socket it was asked on is the
one they come from. The announcements of the panel come in order, each perhaps twice in a row, so
the last id that was seen is enough of a memory. `SandboxInv` has the places of each call.

`Fetched` and `Processed` are recursive functions on `0 .. n`. That such a function exists
(`Iterates`) and what it computes is proved from well-foundedness, as in SessionsProofs.

| theorem | statement |
|---|---|
| `WorkerRegistryProofs!TypeCorrect`, `MirrorCorrect`, `CapacityCorrect`, `ReportsCorrect` | `Spec => []TypeOK`, `[]RegistryMirrorsTasks`, `[]CapacityRespected`, `[]CompletedReportIsOwn` |
| `WorkerRegistryProofs!RegistryImplementsPool` | `Spec => Pool!Safety` |
| `DelegationProofs!DelegationTypeCorrect`, `NoticesCorrect`, `StagesCorrect`, `CompletionCorrect` | `DelegationSpec => []DelegationTypeOK`, `[]NoticesConserved`, `[]StagesChained`, `[]CompletionIsTrue` |
| `DelegationProofs!StopCorrect` | `DelegationSpec => StopReachesAll` |
| `BudgetTrackerProofs!TypeCorrect`, `UsageCorrect`, `ChargesCorrect` | `Spec => []TypeOK`, `[]UsageBounded`, `[]NoChargeLost` |
| `CronServiceProofs!CronTypeCorrect`, `TimerCorrect`, `ExecutionsCorrect`, `SpacingCorrect` | `Spec => []TypeOK`, `[]TimerArmed`, `[]ExecutionsWanted`, `[]RunsSpaced` |
| `CronServiceProofs!OneTimeCorrect` | `Spec => OneTimeEndsOnce` |
| `AgentLoopProofs!TypeCorrect`, `AnswersCorrect`, `ApprovalsCorrect` | `Spec => []AgentLoopTypeOK`, `[]OneAnswerEach`, `[]ApprovalsEndWithTurn` |
| `AgentLoopProofs!BreakerCorrect` | `Spec => BreakerExact` |
| `EventStreamProofs!EventsCorrect` | `StreamSpec => []EventsKept` |
| `GatewayProofs!GatewayTyped`, `MessagesOnceInOrder`, `MochatTakenOnce`, `GatewayKeepsEvents` | `GatewaySpec => []GatewayTypeOK`, `[]OnceInOrder`, `[]TakenOnce`, `[]EventsKept` |
| `SessionsProofs!SessionsTypeCorrect`, `RestartCorrect`, `MemoryCorrect` | `Spec => []SessionsTypeOK`, `[]RestartKeepsBranch`, `[]NothingForgotten` |

**Only model-checked**: all liveness (`WaitersReturn`, `PipelinesReport`, `NoticesHeard`,
`ChargesEnd`, `DueJobsRun`, `MessagesAnswered` and those of the parts of `Gateway`) and the
fairness part of `ImplementsPool`, since liveness under fairness and ENABLED are beyond the
prover. All other properties of the passing runs are stated by theorems. What a fold computes
for every input is an induction over data whose theorem takes an operator as a parameter, and of
`SelectSeq` tlapm knows no fact, so `Channels`, `Mochat` and `Sessions` use neither.
Where a recursion goes down in the numbers, as the walk of
`get_path` does, or in the size of a set, as the sum of what callers owe, well-foundedness
serves instead. No module that holds or is used by a theorem declares a RECURSIVE operator.

## 7. What is not modelled, and why

* *WorkerLoop*: a worker is its first step and the way it ends. Its iterations call the LLM and
  tools, and append to the session `worker`, a file that all workers share (section 4): what a worker
  finds there changes its prompt, and nothing that is modelled. A worker whose LLM call fails is
  a completed one: the provider turns the exception into the text of an answer
  (`hive/providers/litellm_provider.py:166`), which becomes its output. `WorkerCompletes` may
  therefore stand for a failure; `CompletionIsTrue` speaks of what the worker reported.
* *Signals of `report_task`* (`hive/agent/consolidation.py`): tasks that append notes or rewrite the
  skills registry, without an await in between, after the LLM has answered. They open the session
  of the latest turn and only read it.
* *The text of MEMORY.md*: it is what the LLM answers, so there is no promise of the code to check
  it against. A line of a session file that cannot be appended because `open` or `write` raises is
  not modelled either; a crash within one is.
* *Smaller ends of components that are modelled*: an orchestrator that dies of an exception in
  `spawn_worker` itself, so that its pipeline reports nothing; a `docker rm -f` that starts but
  fails; a cron or heartbeat turn that ends while the Queen's is running and clears the approval she
  was given (`AgentLoop` has that step, no property calls it wrong).
* *Workers and the budget*: background workers call the LLM without asking or charging the
  budget, and no session of the gateway has a worker id, so the per-worker sums and limits
  are never used. `UsageBounded` speaks of the turns of the agent loop.
* *A cancellation while the budget file is being written*: it releases the lock while the
  thread goes on writing. The window is one write.
* *Failing writes of `jobs.json`*: `write_text` may raise and end the tick before the timer is
  armed again. Two processes writing `jobs.json` at the very same time are not modelled
  either: a command is one step.
* *The order in which the due jobs of a tick execute* is left open, `on_job` may do anything
  the tool allows.
* *The heartbeat's interval*: when its turn begins is left open.
* *Mochat over HTTP*: `_post_json` hands the `SecretStr` of the token to httpx as a header,
  which raises, so no HTTP request succeeds. Polling, discovery of sessions and sending are
  not reached, and not modelled.
* *Retrieval* (`retrieval.py`) reads what the prompts quote; the notes of `memory.py` are those of
  the signals.
* *Audit*: lines appended under a lock; reports and retention work on files of past days.
* *Providers, files, web, shell, skills, onboarding, configuration, command line*: input,
  output and text, one call at a time within a turn.
* *Regular expressions of the tool gate and of the sandbox's AST filter, prompts, wording*:
  left to unit tests. `AgentLoop` takes one representative call of each tier.
