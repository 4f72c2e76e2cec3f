--------------------------- MODULE WorkerRegistry ---------------------------
(***************************************************************************)
(* The registry of background workers: hive/agent/worker/registry.py, with *)
(* the worker coroutine it runs (worker/loop.py) reduced to how it ends.   *)
(*                                                                         *)
(* One asyncio event loop runs everything, so an action is the code between *)
(* two points where a coroutine really suspends.  EventEmitter.emit takes  *)
(* an uncontended asyncio.Lock and MessageBus.publish_inbound puts into an *)
(* unbounded queue: neither suspends.  spawn_worker is therefore atomic,   *)
(* and so is _run_worker_task from the moment its worker has a report.     *)
(*                                                                         *)
(* A task that is cancelled before the loop gave it its first step never   *)
(* enters the try block of _run_worker_task: asyncio throws the            *)
(* CancelledError into a coroutine that has not started.                   *)
(***************************************************************************)
EXTENDS Naturals, FiniteSets

CONSTANTS
  Name,         \* the worker names that orders carry
  Task,         \* asyncio.Task identities; bounds the workers ever spawned
  Waiter,       \* coroutines that call spawn_worker_and_wait
  MaxWorkers,   \* config.agents.workers.max_active_workers
  NoTask,       \* no asyncio task
  NoName        \* the order name of a task that was never created

ASSUME RegistryAssumption ==
  /\ MaxWorkers \in Nat \ {0}
  /\ NoTask \notin Task
  /\ NoName \notin Name

VARIABLES
  activeTasks,      \* _active_tasks: name -> task; NoTask where there is no key
  results,          \* _results: name -> report; NoReport where there is no key
  phase,            \* where the event loop is with each task
  orderName,        \* order.name of each task
  cancelRequested,  \* task.cancel() was called and is still to be delivered
  waiter            \* callers suspended in, or returned from, spawn_worker_and_wait

registryVars ==
  <<activeTasks, results, phase, orderName, cancelRequested, waiter>>

-----------------------------------------------------------------------------
(* Reports. A report is told apart by the task whose work it carries.      *)

Terminal == {"completed", "failed", "cancelled"}

Report == [run : Task \cup {NoTask}, status : Terminal \cup {"none"}]

NoReport        == [run |-> NoTask, status |-> "none"]
RejectedReport  == [run |-> NoTask, status |-> "failed"]
\* Mutant: the placeholder of an unfinished worker is handed out.
BugPendingReport == [run |-> NoTask, status |-> "pending"]

NoResultReport  == [run |-> NoTask, status |-> "failed"]
InterruptReport == [run |-> NoTask, status |-> "cancelled"]

-----------------------------------------------------------------------------
(* Tasks. "dropped" is a task cancelled before its first step.             *)

Phase == {"unborn", "created", "running", "finished", "dropped"}

Live(t)  == phase[t] \in {"created", "running"}
Ended(t) == phase[t] \in {"finished", "dropped"}

Unborn == {t \in Task : phase[t] = "unborn"}

LiveTasks == {t \in Task : Live(t)}

\* The keys of _active_tasks: get_active_count is their number.
ActiveNames == {n \in Name : activeTasks[n] # NoTask}

\* Mutant: off by one at the cap.
BugIsFullLate == Cardinality(ActiveNames) > MaxWorkers

IsFull == Cardinality(ActiveNames) >= MaxWorkers

-----------------------------------------------------------------------------
TypeOK ==
  /\ activeTasks \in [Name -> Task \cup {NoTask}]
  /\ results \in [Name -> Report]
  /\ phase \in [Task -> Phase]
  /\ orderName \in [Task -> Name \cup {NoName}]
  /\ cancelRequested \in [Task -> BOOLEAN]
  /\ waiter \in [Waiter -> [pc : {"idle", "waiting", "returned"},
                            task : Task \cup {NoTask},
                            report : Report]]

Init ==
  /\ activeTasks = [n \in Name |-> NoTask]
  /\ results = [n \in Name |-> NoReport]
  /\ phase = [t \in Task |-> "unborn"]
  /\ orderName = [t \in Task |-> NoName]
  /\ cancelRequested = [t \in Task |-> FALSE]
  /\ waiter = [w \in Waiter |->
                 [pc |-> "idle", task |-> NoTask, report |-> NoReport]]

-----------------------------------------------------------------------------
(* spawn_worker: rejected at the cap or on a name in use; otherwise the old *)
(* result of the name is forgotten and a task is created and registered.   *)

Rejects(n) == IsFull \/ n \in ActiveNames

\* Mutant: the result of an earlier worker of that name is not cleared.
BugRegisterKeepsResult(t, n) ==
  /\ t \in Unborn
  /\ t = CHOOSE u \in Unborn : TRUE
  /\ ~Rejects(n)
  /\ activeTasks' = [activeTasks EXCEPT ![n] = t]
  /\ phase' = [phase EXCEPT ![t] = "created"]
  /\ orderName' = [orderName EXCEPT ![t] = n]
  /\ UNCHANGED <<results, cancelRequested>>

Register(t, n) ==
  /\ t \in Unborn
  /\ t = CHOOSE u \in Unborn : TRUE       \* which one does not matter
  /\ ~Rejects(n)
  /\ results' = [results EXCEPT ![n] = NoReport]
  /\ activeTasks' = [activeTasks EXCEPT ![n] = t]
  /\ phase' = [phase EXCEPT ![t] = "created"]
  /\ orderName' = [orderName EXCEPT ![t] = n]
  /\ UNCHANGED cancelRequested

SpawnWorker(n) ==
  /\ \E t \in Task : Register(t, n)
  /\ UNCHANGED waiter

-----------------------------------------------------------------------------
(* spawn_worker_and_wait.                                                  *)

Await(w, t) == waiter' = [waiter EXCEPT ![w].pc = "waiting", ![w].task = t]

Return(w, r) == waiter' = [waiter EXCEPT ![w].pc = "returned", ![w].report = r]

\* What the caller gets once the awaited task t is over.  Awaiting a task that
\* was cancelled before it started raises CancelledError in the caller.
AwaitedReport(t) ==
  LET stored == results[orderName[t]]
  IN  IF stored # NoReport THEN stored
      ELSE IF phase[t] = "dropped" THEN InterruptReport ELSE NoResultReport

SpawnAndWait(w, n) ==
  /\ waiter[w].pc # "waiting"
  /\ \E t \in Task : Register(t, n) /\ Await(w, t)

SpawnAndWaitRejected(w, n) ==
  /\ waiter[w].pc # "waiting"
  /\ Rejects(n)
  /\ waiter' = [waiter EXCEPT ![w] = [pc |-> "returned", task |-> NoTask,
                                      report |-> RejectedReport]]
  /\ UNCHANGED <<activeTasks, results, phase, orderName, cancelRequested>>

\* Mutant: the caller waits for the report instead of the task.
BugResumeOnReport(w) ==
  waiter[w].pc = "waiting" /\ phase[waiter[w].task] = "finished"

\* Mutant: without the shield a caller is woken as soon as its worker is cancelled.
BugResumeOnCancel(w) ==
  /\ waiter[w].pc = "waiting"
  /\ Ended(waiter[w].task) \/ cancelRequested[waiter[w].task]

\* The caller is woken: the shielded task is over and the loop gets to it.
CanResume(w) == waiter[w].pc = "waiting" /\ Ended(waiter[w].task)

WaiterResumes(w) ==
  /\ CanResume(w)
  /\ Return(w, AwaitedReport(waiter[w].task))
  /\ UNCHANGED <<activeTasks, results, phase, orderName, cancelRequested>>

-----------------------------------------------------------------------------
(* The worker's task.                                                      *)

\* The first step: execute_order runs up to its first LLM call.
WorkerBegins(t) ==
  /\ phase[t] = "created"
  /\ ~cancelRequested[t]
  /\ phase' = [phase EXCEPT ![t] = "running"]
  /\ UNCHANGED <<activeTasks, results, orderName, cancelRequested, waiter>>

\* The first step of a task that is already cancelled.
WorkerDropped(t) ==
  /\ phase[t] = "created"
  /\ cancelRequested[t]
  /\ phase' = [phase EXCEPT ![t] = "dropped"]
  /\ UNCHANGED <<activeTasks, results, orderName, cancelRequested, waiter>>

\* Mutant: the report is stored and the slot is not freed.
BugDeregisterKeepsSlot(t, status) ==
  /\ phase' = [phase EXCEPT ![t] = "finished"]
  /\ results' = [results EXCEPT ![orderName[t]] = [run |-> t, status |-> status]]
  /\ UNCHANGED <<activeTasks, orderName, cancelRequested, waiter>>

\* The tail of _run_worker_task: the slot is freed, then the report stored.
Deregister(t, status) ==
  /\ phase' = [phase EXCEPT ![t] = "finished"]
  /\ activeTasks' = [activeTasks EXCEPT ![orderName[t]] = NoTask]
  /\ results' = [results EXCEPT ![orderName[t]] = [run |-> t, status |-> status]]
  /\ UNCHANGED <<orderName, cancelRequested, waiter>>

\* A caller woken by an earlier worker of the same name has its turn within two
\* rounds of the event loop.  A worker cannot complete in that time: it needs
\* the network round trip of an LLM call.  It can fail in that time.
WakeupPending(n) == \E w \in Waiter : CanResume(w) /\ orderName[waiter[w].task] = n

\* The last await of a worker is its LLM call.  Told to stop before it has resumed from
\* it, it gets CancelledError there, and no handler of the worker loop catches that.
WorkerCompletes(t) ==
  /\ phase[t] = "running"
  /\ ~cancelRequested[t]
  /\ ~WakeupPending(orderName[t])
  /\ Deregister(t, "completed")

\* The circuit breaker, the iteration limit or an exception ends the worker.
WorkerFails(t) ==
  /\ phase[t] = "running"
  /\ ~cancelRequested[t]
  /\ Deregister(t, "failed")

\* CancelledError reaches the worker at the await it is suspended in.
WorkerCancelled(t) ==
  /\ phase[t] = "running"
  /\ cancelRequested[t]
  /\ Deregister(t, "cancelled")

-----------------------------------------------------------------------------
(* Cancellation. cancel_worker looks the name up and skips a task that is  *)
(* over; shutdown_all and /emergency-stop call it for every name.          *)

\* Mutant: workers that wait for their first step are not cancelled.
BugCancellableRunning(n) == n \in ActiveNames /\ phase[activeTasks[n]] = "running"

Cancellable(n) == n \in ActiveNames /\ Live(activeTasks[n])

CancelNames(names) ==
  cancelRequested' = [t \in Task |->
    cancelRequested[t] \/ \E n \in names : Cancellable(n) /\ activeTasks[n] = t]

CancelWorker(n) ==
  /\ Cancellable(n)
  /\ CancelNames({n})
  /\ UNCHANGED <<activeTasks, results, phase, orderName, waiter>>

CancelAll ==
  /\ ActiveNames # {}
  /\ CancelNames(ActiveNames)
  /\ UNCHANGED <<activeTasks, results, phase, orderName, waiter>>

-----------------------------------------------------------------------------
WorkerStep(t) ==
  \/ WorkerBegins(t)
  \/ WorkerDropped(t)
  \/ WorkerCompletes(t)
  \/ WorkerFails(t)
  \/ WorkerCancelled(t)

Next ==
  \/ \E n \in Name : SpawnWorker(n)
  \/ \E w \in Waiter, n \in Name : SpawnAndWait(w, n)
  \/ \E w \in Waiter, n \in Name : SpawnAndWaitRejected(w, n)
  \/ \E w \in Waiter : WaiterResumes(w)
  \/ \E t \in Task : WorkerStep(t)
  \/ \E n \in Name : CancelWorker(n)
  \/ CancelAll

Spec == Init /\ [][Next]_registryVars

\* The event loop runs every ready task, and every await of a worker ends:
\* LLM calls and tools have timeouts.  Nobody has to spawn or to cancel.
Fairness ==
  /\ \A t \in Task : WF_registryVars(WorkerStep(t))
  /\ \A w \in Waiter : WF_registryVars(WaiterResumes(w))

FairSpec == Spec /\ Fairness

-----------------------------------------------------------------------------
(* Safety.                                                                 *)

\* The concurrency cap of the class docstring, for the coroutines themselves and
\* not for the dictionary: never more than MaxWorkers workers exist at once.
CapacityRespected == Cardinality(LiveTasks) <= MaxWorkers

HoldsSlot(t, n) ==
  /\ orderName[t] = n
  /\ Live(t) \/ (phase[t] = "dropped" /\ cancelRequested[t])

\* Every worker that still exists can be found under its name, so a second
\* worker of that name is refused and an emergency stop reaches it; and a slot
\* is held only by such a worker, or by one cancelled before its first step: no
\* other way of ending leaks a slot.
RegistryMirrorsTasks ==
  /\ \A t \in LiveTasks : activeTasks[orderName[t]] = t
  /\ \A n \in ActiveNames : HoldsSlot(activeTasks[n], n)

\* spawn_worker_and_wait never passes off another worker's output as that of the
\* worker it started, although reports are filed by name and names are reused.
CompletedReportIsOwn ==
  \A w \in Waiter :
    waiter[w].pc = "returned" /\ waiter[w].report.status = "completed"
      => waiter[w].report.run = waiter[w].task

-----------------------------------------------------------------------------
(* Liveness.                                                               *)

\* Whoever waits for a worker is woken, also when the worker was cancelled or
\* its name was taken over in the meantime.
WaitersReturn ==
  \A w \in Waiter : waiter[w].pc = "waiting" ~> waiter[w].pc = "returned"

-----------------------------------------------------------------------------
(* Refinement.                                                             *)

\* A name in the dictionary, a task and a report by name, seen from outside: whether
\* the worker lives, and whose outcome a caller was given.
OwnOutcome(w) ==
  LET r == waiter[w].report
  IN  IF r.status = "completed" /\ r.run # waiter[w].task THEN "foreign" ELSE r.status

Seen(w) ==
  [of |-> waiter[w].task,
   got |-> CASE waiter[w].pc = "idle" -> "none"
             [] waiter[w].pc = "waiting" -> "pending"
             [] waiter[w].pc = "returned" -> OwnOutcome(w)]

Pool == INSTANCE WorkerPool WITH
  state <- [t \in Task |-> CASE phase[t] = "unborn" -> "unborn" [] Live(t) -> "live" [] OTHER -> "over"],
  owner <- orderName,
  stopped <- {t \in Task : cancelRequested[t]},
  caller <- [w \in Waiter |-> Seen(w)]

\* The registry keeps the promise of WorkerPool, whatever interleaving of spawns,
\* cancellations, reused names and workers that never begin it meets: the cap, one
\* worker per name, no success after a stop, and the caller's own outcome in the end.
ImplementsPool == Pool!Spec

-----------------------------------------------------------------------------
(* What the code says of itself and does not do.                           *)

\* registry.py:42 and 143: a name in _active_tasks is [RUNNING], "already
\* running", to the Queen and to whoever wants to reuse the name.
ActiveNamesRun == \A n \in ActiveNames : Live(activeTasks[n])
=============================================================================
