-------------------------- MODULE DelegationProofs --------------------------
(***************************************************************************)
(* Safety of delegation for any number of workers, names, pipelines, plans *)
(* and chats, and an inbound queue of any length.                          *)
(***************************************************************************)
EXTENDS Delegation, WorkerRegistryProofs, SequenceTheorems

-----------------------------------------------------------------------------
(* The inductive invariant.                                                *)

\* Only a worker that has ended with a report has an outcome.
OutcomesSettled == \A t \in Task : outcome[t] # "none" => phase[t] = "finished"

\* The report on file under a name is the outcome of the worker that filed it.
ReportsTellOutcome ==
  \A n \in Name : results[n] # NoReport =>
    /\ results[n].run \in Task
    /\ phase[results[n].run] = "finished"
    /\ outcome[results[n].run] = results[n].status

\* The runs of a pipeline were created for its plan, in order.
RunsFollowPlan(p) ==
  /\ Len(pipe[p].runs) <= Len(pipe[p].plan)
  /\ \A k \in 1 .. Len(pipe[p].runs) :
       /\ phase[pipe[p].runs[k]] # "unborn"
       /\ orderName[pipe[p].runs[k]] = pipe[p].plan[k]

\* A pipeline at a stage waits for its last run, and the runs before that completed.
StageSound(p) ==
  LET runs == pipe[p].runs IN
  /\ Len(runs) > 0
  /\ waiter[p].pc = "waiting" /\ waiter[p].task = runs[Len(runs)]
  /\ \A k \in 1 .. Len(runs) - 1 : outcome[runs[k]] = "completed"
  /\ Len(runs) > 1 => pipe[p].input = runs[Len(runs) - 1]

PipeSound(p) ==
  /\ RunsFollowPlan(p)
  /\ pipe[p].pc \in {"none", "launched"} => pipe[p].runs = <<>>
  /\ pipe[p].pc \in {"launched", "stage"} => pipe[p].plan \in Plans
  /\ pipe[p].pc = "stage" => StageSound(p)

PipesSound == \A p \in Pipeline : PipeSound(p)

Completed(p) ==
  /\ Len(pipe[p].runs) = Len(pipe[p].plan)
  /\ \A k \in 1 .. Len(pipe[p].runs) :
       /\ orderName[pipe[p].runs[k]] = pipe[p].plan[k]
       /\ outcome[pipe[p].runs[k]] = "completed"

\* Success was announced by a pipeline that is over.
AnnouncedIsOver ==
  \A i \in 1 .. Len(inbox) : inbox[i].kind = "completed" =>
    pipe[inbox[i].pipe].pc = "over" /\ Completed(inbox[i].pipe)

\* The positions of the notices about t on the queue.
NoticesOf(t) == {i \in 1 .. Len(inbox) : inbox[i].kind = "worker" /\ inbox[i].task = t}

Due(t) == HasCallback(t) /\ phase[t] = "finished"

\* There is at most one notice about a worker, on the queue or heard, and there is one
\* once it is due.
NoticeSound(t) ==
  /\ \A i, j \in NoticesOf(t) : i = j
  /\ t \in heard => NoticesOf(t) = {}
  /\ Due(t) <=> t \in heard \/ NoticesOf(t) # {}

NoticesSound == \A t \in Task : NoticeSound(t)

DelegationInv ==
  /\ RegistryInv
  /\ ReportInv
  /\ DelegationTypeOK
  /\ OutcomesSettled
  /\ ReportsTellOutcome
  /\ PipesSound
  /\ AnnouncedIsOver
  /\ NoticesSound

-----------------------------------------------------------------------------
(* The registry under the tools.  Between two stages an orchestrator       *)
(* returns from one wait and begins the next in a single step, which is    *)
(* two steps of the registry.                                              *)

\* A pipeline that launches a stage is an order and a wait of the registry.
LEMMA StageLaunched ==
  ASSUME RegistryInv, ReportInv, NEW p \in Pipeline, NEW t \in Task, NEW n \in Name,
         Register(t, n), Await(p, t)
  PROVE  RegistryInv' /\ ReportInv'
<1>. USE DEF RegistryInv, Pipeline
<1>1. /\ waiter'[p].pc = "waiting" /\ waiter'[p].task = t
      /\ \A v \in Waiter \ {p} : waiter'[v] = waiter[v]
      /\ (waiter \in [Waiter -> [pc : {"idle", "waiting", "returned"},
                                 task : Task \cup {NoTask}, report : Report]])'
  BY DEF Await, TypeOK
<1>2. WaitersAwaitTasks'
  BY <1>1 DEF Register, Unborn, WaitersAwaitTasks, TypeOK
<1>3. RegistryInv'
  BY <1>1, <1>2, RegisterStep DEF TypeOK
<1>4. \A v \in Waiter : CanResume(v)' => CanResume(v) /\ waiter'[v] = waiter[v]
  BY <1>1 DEF Register, Unborn, CanResume, Ended, WaitersAwaitTasks, TypeOK
<1>5. CompletedReportIsOwn'
  BY <1>1 DEF ReportInv, CompletedReportIsOwn
<1>. QED
  BY <1>3, <1>4, <1>5, RegisterReports

\* A pipeline that goes on is a return of its wait.
LEMMA PipelineReturned ==
  ASSUME RegistryInv, ReportInv, NEW p \in Pipeline, NEW r \in Report,
         r.status = "completed" => r.run = waiter[p].task,
         Return(p, r), UNCHANGED <<activeTasks, results, phase, orderName, cancelRequested>>
  PROVE  RegistryInv' /\ ReportInv'
<1>. USE DEF RegistryInv, Pipeline
<1>1. /\ waiter'[p].pc = "returned" /\ waiter'[p].task = waiter[p].task
      /\ waiter'[p].report = r
      /\ \A v \in Waiter \ {p} : waiter'[v] = waiter[v]
  BY DEF Return, TypeOK
<1>2. TypeOK'
  BY DEF Return, TypeOK
<1>3. WaitersAwaitTasks'
  BY <1>1 DEF WaitersAwaitTasks
<1>4. RegistryInv'
  BY <1>2, <1>3, QuietStep
<1>5. DroppedKeepSlots' /\ CompletedReportIsOwn'
  BY <1>1 DEF ReportInv, DroppedKeepSlots, CompletedReportIsOwn
<1>6. \A v \in Waiter : CanResume(v)' => waiter'[v] = waiter[v] /\ CanResume(v)
  BY <1>1 DEF CanResume, Ended
<1>. QED
  BY <1>4, <1>5, <1>6, QuietReports

\* A rejected pipeline has no success to report.
LEMMA PipelineRejected ==
  ASSUME RegistryInv, ReportInv, NEW p \in Pipeline, Return(p, RejectedReport),
         UNCHANGED <<activeTasks, results, phase, orderName, cancelRequested>>
  PROVE  RegistryInv' /\ ReportInv'
BY PipelineReturned DEF RejectedReport, Report, Terminal

\* What a woken orchestrator reads is its own worker's success, or none.
LEMMA AwaitedIsOwn ==
  ASSUME RegistryInv, ReportInv, NEW p \in Pipeline, CanResume(p)
  PROVE  LET r == AwaitedReport(waiter[p].task) IN
         r \in Report /\ (r.status = "completed" => r.run = waiter[p].task
                            /\ r = results[orderName[waiter[p].task]])
<1>1. waiter[p].task \in Task /\ phase[waiter[p].task] # "unborn"
  BY DEF RegistryInv, WaitersAwaitTasks, CanResume, Pipeline
<1>2. AwaitedReport(waiter[p].task) \in Report
  BY <1>1, AwaitedReportType DEF RegistryInv
<1>3. results[orderName[waiter[p].task]].status = "completed" =>
        results[orderName[waiter[p].task]].run = waiter[p].task
  BY DEF ReportInv, AwaitedSuccessIsOwn, Pipeline
<1>. QED
  BY <1>2, <1>3 DEF AwaitedReport, NoResultReport, InterruptReport

\* Every other step is a step of the registry, or leaves it alone.
LEMMA RegistryKept ==
  ASSUME RegistryInv, ReportInv, [Next]_registryVars
  PROVE  RegistryInv' /\ ReportInv'
BY RegistryNext, ReportNext

\* What turns and channels do are steps of the registry, or leave it alone.
LEMMA TurnStepsRegistry ==
  ASSUME \/ \E a \in Actor, n \in Name : TurnSpawns(a, n)
         \/ QueenConsumes
         \/ \E c \in Chat : ChannelPublishes(UserMsg(c)) \/ ChannelPublishes(StopMsg(c))
         \/ \E a \in Direct, c \in Chat : DirectTurnBegins(a, c)
         \/ \E a \in Actor : TurnEnds(a)
         \/ \E a \in Actor, p \in Pipeline, plan \in Plans : TurnLaunchesPipeline(a, p, plan)
         \/ UNCHANGED vars,
         RegistryInv
  PROVE  [Next]_registryVars
<1>1. CASE \E a \in Actor, n \in Name : TurnSpawns(a, n)
  BY <1>1 DEF TurnSpawns, Next, SpawnWorker
<1>2. CASE QueenStopsWorkers
  <2>1. CASE ActiveNames = {}
    <3>1. cancelRequested' = cancelRequested
      <4>1. \A t \in Task : (cancelRequested[t] \/ \E n \in {} : Cancellable(n) /\ activeTasks[n] = t)
                              = cancelRequested[t]
        BY DEF RegistryInv, TypeOK
      <4>2. cancelRequested' = [t \in Task |-> cancelRequested[t]]
        BY <1>2, <2>1, <4>1 DEF QueenStopsWorkers, CancelNames
      <4>. QED
        BY <4>2 DEF RegistryInv, TypeOK
    <3>. QED
      BY <1>2, <3>1 DEF QueenStopsWorkers, registryVars
  <2>2. CASE ActiveNames # {}
    BY <1>2, <2>2 DEF QueenStopsWorkers, CancelAll, Next
  <2>. QED
    BY <2>1, <2>2
<1>3. CASE QueenTakesMessage \/ UNCHANGED vars
  BY <1>3 DEF QueenTakesMessage, vars
<1>4. CASE \E c \in Chat : ChannelPublishes(UserMsg(c)) \/ ChannelPublishes(StopMsg(c))
  BY <1>4 DEF ChannelPublishes
<1>5. CASE \E a \in Direct, c \in Chat : DirectTurnBegins(a, c)
  BY <1>5 DEF DirectTurnBegins
<1>6. CASE \E a \in Actor : TurnEnds(a)
  BY <1>6 DEF TurnEnds
<1>7. CASE \E a \in Actor, p \in Pipeline, plan \in Plans : TurnLaunchesPipeline(a, p, plan)
  BY <1>7 DEF TurnLaunchesPipeline
<1>. QED
  BY <1>1, <1>2, <1>3, <1>4, <1>5, <1>6, <1>7 DEF QueenConsumes

\* What a worker does is a step of the registry.
LEMMA WorkerStepsRegistry ==
  ASSUME NEW t \in Task, WorkerRuns(t)
  PROVE  Next
BY DEF WorkerRuns, Next, WorkerStep

-----------------------------------------------------------------------------
(* What the steps keep.                                                    *)

\* No step unmakes a worker, renames it or takes back its success.
PastKept ==
  /\ \A t \in Task : phase[t] # "unborn" =>
       phase'[t] # "unborn" /\ orderName'[t] = orderName[t]
  /\ \A t \in Task : outcome[t] = "completed" => outcome'[t] = "completed"

PipeType ==
  [pc : {"none", "launched", "stage", "over"}, plan : Plans \cup {<<>>},
   runs : Seq(Task), input : Task \cup {NoTask}, chat : Chat \cup {NoChat}]

\* A plan has two stages or more.
LEMMA PlanType ==
  ASSUME NEW plan \in Plans
  PROVE  plan \in Seq(Name) /\ Len(plan) \in Nat /\ Len(plan) >= 2
BY DelegationAssumption DEF DelegationAssumption

\* The types of one pipeline.
LEMMA PipeTyped ==
  ASSUME DelegationTypeOK, NEW p \in Pipeline
  PROVE  /\ pipe[p] \in PipeType
         /\ pipe[p].runs \in Seq(Task) /\ Len(pipe[p].runs) \in Nat
         /\ \A k \in 1 .. Len(pipe[p].runs) : pipe[p].runs[k] \in Task
BY DEF DelegationTypeOK, PipeType

\* What holds of a pipeline still does after steps of others.
LEMMA PipeKept ==
  ASSUME DelegationTypeOK, PastKept, NEW p \in Pipeline, PipeSound(p),
         pipe'[p] = pipe[p], waiter'[p] = waiter[p]
  PROVE  PipeSound(p)'
<1>1. /\ pipe[p].runs \in Seq(Task) /\ Len(pipe[p].runs) \in Nat
      /\ \A k \in 1 .. Len(pipe[p].runs) : pipe[p].runs[k] \in Task
  BY PipeTyped
<1>2. RunsFollowPlan(p)'
  BY <1>1 DEF PipeSound, RunsFollowPlan, PastKept
<1>3. StageSound(p) => StageSound(p)'
  BY <1>1 DEF StageSound, PastKept
<1>. QED
  BY <1>2, <1>3 DEF PipeSound

\* A pipeline whose stages have completed stays so.
LEMMA CompletedKept ==
  ASSUME DelegationTypeOK, PastKept, NEW p \in Pipeline, PipeSound(p), Completed(p),
         pipe'[p] = pipe[p]
  PROVE  Completed(p)'
<1>1. \A k \in 1 .. Len(pipe[p].runs) : pipe[p].runs[k] \in Task
  BY PipeTyped
<1>. QED
  BY <1>1 DEF PipeSound, RunsFollowPlan, Completed, PastKept

\* What is announced stays true, and what is new must be.
LEMMA AnnouncedKept ==
  ASSUME DelegationTypeOK, PipesSound, AnnouncedIsOver, PastKept, DelegationTypeOK',
         \A p \in Pipeline : pipe[p].pc = "over" => pipe'[p] = pipe[p],
         \A i \in 1 .. Len(inbox') : inbox'[i].kind = "completed" =>
           \/ \E j \in 1 .. Len(inbox) : inbox[j] = inbox'[i]
           \/ \E p \in Pipeline : inbox'[i].pipe = p /\ pipe'[p].pc = "over" /\ Completed(p)'
  PROVE  AnnouncedIsOver'
<1>1. ASSUME NEW i \in 1 .. Len(inbox'), inbox'[i].kind = "completed"
      PROVE  \E p \in Pipeline : inbox'[i].pipe = p /\ pipe'[p].pc = "over" /\ Completed(p)'
  <2>1. CASE \E j \in 1 .. Len(inbox) : inbox[j] = inbox'[i]
    <3>1. PICK j \in 1 .. Len(inbox) : inbox[j] = inbox'[i]
      BY <2>1
    <3>2. inbox[j] \in Message
      BY DEF DelegationTypeOK
    <3>3. PICK p \in Pipeline : p = inbox[j].pipe
      BY <1>1, <3>1, <3>2 DEF Message
    <3>4. pipe[p].pc = "over" /\ Completed(p)
      BY <1>1, <3>1, <3>3 DEF AnnouncedIsOver
    <3>5. pipe'[p] = pipe[p]
      BY <3>4
    <3>6. Completed(p)'
      BY <3>4, <3>5, CompletedKept DEF PipesSound
    <3>. QED
      BY <3>1, <3>3, <3>4, <3>5, <3>6
  <2>. QED
    BY <1>1, <2>1
<1>. QED
  BY <1>1 DEF AnnouncedIsOver, Completed

\* Nor is any notice lost, repeated or made up where the queue only grows by others.
LEMMA NoticesKept ==
  ASSUME NoticesSound, \A t \in Task : Due(t)' <=> Due(t), heard' = heard,
         Len(inbox) \in Nat, Len(inbox') \in Nat, Len(inbox) <= Len(inbox'),
         \A i \in 1 .. Len(inbox) : inbox'[i] = inbox[i],
         \A i \in Len(inbox) + 1 .. Len(inbox') : inbox'[i].kind # "worker"
  PROVE  NoticesSound'
<1>. SUFFICES ASSUME NEW t \in Task PROVE NoticeSound(t)'
  BY DEF NoticesSound
<1>1. NoticesOf(t)' = NoticesOf(t)
  BY DEF NoticesOf
<1>. QED
  BY <1>1 DEF NoticesSound, NoticeSound

\* A message is put at the end of the queue.
LEMMA Appended ==
  ASSUME DelegationTypeOK, NEW m \in Message, inbox' = Append(inbox, m)
  PROVE  /\ inbox' \in Seq(Message)
         /\ Len(inbox) \in Nat /\ Len(inbox') = Len(inbox) + 1
         /\ \A i \in 1 .. Len(inbox) : inbox'[i] = inbox[i]
         /\ inbox'[Len(inbox) + 1] = m
BY AppendProperties, LenProperties DEF DelegationTypeOK

\* A step that tells workers, pipelines and messages no news.
LEMMA NoNews ==
  ASSUME DelegationInv, RegistryInv', ReportInv', DelegationTypeOK', PastKept,
         OutcomesSettled', ReportsTellOutcome', NoticesSound',
         \A p \in Pipeline : pipe'[p] = pipe[p] /\ waiter'[p] = waiter[p],
         \A i \in 1 .. Len(inbox') : inbox'[i].kind = "completed" =>
           \E j \in 1 .. Len(inbox) : inbox[j] = inbox'[i]
  PROVE  DelegationInv'
<1>1. PipesSound'
  BY PipeKept DEF DelegationInv, PipesSound
<1>2. AnnouncedIsOver'
  BY AnnouncedKept DEF DelegationInv
<1>. QED
  BY <1>1, <1>2 DEF DelegationInv

-----------------------------------------------------------------------------
(* Turns.                                                                  *)

\* A turn begins or ends; nothing is queued, heard or reported.
LEMMA TurnMoves ==
  ASSUME DelegationInv, RegistryInv', ReportInv', DelegationTypeOK', inbox' = inbox,
         UNCHANGED <<phase, orderName, results, waiter, pipe, outcome, heard>>
  PROVE  DelegationInv'
<1>1. PastKept
  BY DEF PastKept
<1>2. OutcomesSettled' /\ ReportsTellOutcome'
  BY DEF DelegationInv, OutcomesSettled, ReportsTellOutcome
<1>3. NoticesSound'
  BY DEF DelegationInv, NoticesSound, NoticeSound, NoticesOf, Due, HasCallback, StageTasks
<1>. QED
  BY <1>1, <1>2, <1>3, NoNews

\* A channel puts a message on the queue.
LEMMA ChannelStep ==
  ASSUME DelegationInv, NEW c \in Chat, NEW m \in {UserMsg(c), StopMsg(c)},
         ChannelPublishes(m)
  PROVE  DelegationInv'
<1>1. m \in Message /\ m.kind \in {"user", "stop"}
  BY DEF UserMsg, StopMsg, Message
<1>2. /\ inbox' = Append(inbox, m)
      /\ UNCHANGED <<registryVars, toolContext, turn, pipe, requester, outcome, heard>>
  BY DEF ChannelPublishes
<1>3. /\ inbox' \in Seq(Message)
      /\ Len(inbox) \in Nat /\ Len(inbox') = Len(inbox) + 1
      /\ \A i \in 1 .. Len(inbox) : inbox'[i] = inbox[i]
      /\ inbox'[Len(inbox) + 1] = m
  BY <1>1, <1>2, Appended DEF DelegationInv
<1>4. RegistryInv' /\ ReportInv'
  BY <1>2, RegistryKept DEF DelegationInv
<1>5. DelegationTypeOK'
  BY <1>2, <1>3 DEF DelegationInv, DelegationTypeOK
<1>6. PastKept /\ OutcomesSettled' /\ ReportsTellOutcome'
  BY <1>2 DEF DelegationInv, PastKept, OutcomesSettled, ReportsTellOutcome, registryVars
<1>7. \A t \in Task : Due(t)' <=> Due(t)
  BY <1>2 DEF Due, HasCallback, StageTasks, registryVars
<1>8. NoticesSound'
  <2>1. \A i \in Len(inbox) + 1 .. Len(inbox') : inbox'[i].kind # "worker"
    BY <1>1, <1>3
  <2>. QED
    BY <1>2, <1>3, <1>7, <2>1, NoticesKept DEF DelegationInv
<1>9. \A i \in 1 .. Len(inbox') : inbox'[i].kind = "completed" =>
        \E j \in 1 .. Len(inbox) : inbox[j] = inbox'[i]
  BY <1>1, <1>3
<1>10. \A p \in Pipeline : pipe'[p] = pipe[p] /\ waiter'[p] = waiter[p]
  BY <1>2 DEF registryVars
<1>. QED
  BY <1>4, <1>5, <1>6, <1>8, <1>9, <1>10, NoNews

\* The Queen takes a message off the queue; if it is a notice, she has heard it.
LEMMA MessageTaken ==
  ASSUME DelegationInv, RegistryInv', ReportInv', DelegationTypeOK',
         inbox # <<>>, inbox' = Tail(inbox),
         heard' = IF Head(inbox).kind = "worker" THEN heard \cup {Head(inbox).task} ELSE heard,
         UNCHANGED <<phase, orderName, results, waiter, pipe, outcome>>
  PROVE  DelegationInv'
<1>1. /\ Len(inbox) \in Nat \ {0} /\ Len(inbox') = Len(inbox) - 1
      /\ \A i \in 1 .. Len(inbox') : inbox'[i] = inbox[i + 1]
      /\ Head(inbox) = inbox[1]
  BY HeadTailProperties, EmptySeq DEF DelegationInv, DelegationTypeOK
<1>2. PastKept /\ OutcomesSettled' /\ ReportsTellOutcome'
  BY DEF DelegationInv, PastKept, OutcomesSettled, ReportsTellOutcome
<1>3. ASSUME NEW t \in Task PROVE NoticeSound(t)'
  <2>1. Due(t)' <=> Due(t)
    BY DEF Due, HasCallback, StageTasks
  <2>2. NoticeSound(t)
    BY DEF DelegationInv, NoticesSound
  <2>3. \A i \in Nat : i \in NoticesOf(t)' <=> i # 0 /\ i + 1 \in NoticesOf(t)
    BY <1>1 DEF NoticesOf
  <2>4. NoticesOf(t) \subseteq Nat \ {0} /\ NoticesOf(t)' \subseteq Nat
    BY <1>1 DEF NoticesOf
  <2>5. CASE 1 \in NoticesOf(t)
    <3>1. heard' = heard \cup {t}
      BY <1>1, <2>5 DEF NoticesOf
    <3>2. NoticesOf(t) = {1}
      BY <2>2, <2>5 DEF NoticeSound
    <3>3. NoticesOf(t)' = {}
      BY <2>3, <2>4, <3>2
    <3>. QED
      BY <2>1, <2>2, <2>5, <3>1, <3>3 DEF NoticeSound
  <2>6. CASE 1 \notin NoticesOf(t)
    <3>1. t \in heard' <=> t \in heard
      BY <1>1, <2>6 DEF NoticesOf
    <3>2. NoticesOf(t)' # {} <=> NoticesOf(t) # {}
      <4>1. ASSUME NEW i \in NoticesOf(t) PROVE i - 1 \in NoticesOf(t)'
        BY <2>3, <2>4, <2>6
      <4>2. ASSUME NEW i \in NoticesOf(t)' PROVE i + 1 \in NoticesOf(t)
        BY <2>3, <2>4
      <4>. QED
        BY <4>1, <4>2
    <3>3. \A i, j \in NoticesOf(t)' : i = j
      <4>1. ASSUME NEW i \in NoticesOf(t)', NEW j \in NoticesOf(t)' PROVE i = j
        <5>1. i \in Nat /\ j \in Nat /\ i + 1 = j + 1
          BY <2>2, <2>3, <2>4 DEF NoticeSound
        <5>. QED
          BY <5>1
      <4>. QED
        BY <4>1
    <3>. QED
      BY <2>1, <2>2, <3>1, <3>2, <3>3 DEF NoticeSound
  <2>. QED
    BY <2>5, <2>6
<1>4. \A i \in 1 .. Len(inbox') : \E j \in 1 .. Len(inbox) : inbox[j] = inbox'[i]
  BY <1>1
<1>. QED
  BY <1>2, <1>3, <1>4, NoNews DEF NoticesSound

\* The main agent takes the next message.
LEMMA QueenStep ==
  ASSUME DelegationInv, QueenConsumes
  PROVE  DelegationInv'
<1>1. RegistryInv' /\ ReportInv'
  BY TurnStepsRegistry, RegistryKept DEF DelegationInv
<1>2. inbox # <<>> /\ inbox' = Tail(inbox)
  BY DEF QueenConsumes, QueenTakesMessage, QueenStopsWorkers
<1>3. Head(inbox) \in Message /\ inbox' \in Seq(Message)
  BY <1>2, HeadTailProperties DEF DelegationInv, DelegationTypeOK
<1>4. heard' = IF Head(inbox).kind = "worker" THEN heard \cup {Head(inbox).task} ELSE heard
  BY DEF QueenConsumes, QueenTakesMessage, QueenStopsWorkers
<1>5. UNCHANGED <<phase, orderName, results, waiter, pipe, outcome, requester>>
  BY DEF QueenConsumes, QueenTakesMessage, QueenStopsWorkers, registryVars
<1>6. Head(inbox).chat \in Chat /\ (Head(inbox).kind = "worker" => Head(inbox).task \in Task)
  BY <1>3 DEF Message
<1>7. DelegationTypeOK'
  BY <1>3, <1>4, <1>5, <1>6
     DEF DelegationInv, DelegationTypeOK, QueenConsumes, QueenTakesMessage, QueenStopsWorkers,
         BeginTurn
<1>. QED
  BY <1>1, <1>2, <1>4, <1>5, <1>7, MessageTaken

\* A turn begins or ends, or nothing happens.
LEMMA TurnStep ==
  ASSUME DelegationInv,
         \/ \E a \in Direct, c \in Chat : DirectTurnBegins(a, c)
         \/ \E a \in Actor : TurnEnds(a)
         \/ UNCHANGED vars
  PROVE  DelegationInv'
<1>1. RegistryInv' /\ ReportInv'
  BY TurnStepsRegistry, RegistryKept DEF DelegationInv
<1>2. UNCHANGED <<phase, orderName, results, waiter, pipe, outcome, heard, inbox, requester>>
  BY DEF DirectTurnBegins, TurnEnds, vars, delegationVars, registryVars
<1>3. DelegationTypeOK'
  BY <1>2 DEF DelegationInv, DelegationTypeOK, DirectTurnBegins, TurnEnds, BeginTurn, vars,
              delegationVars
<1>. QED
  BY <1>1, <1>2, <1>3, TurnMoves

\* A worker that is created takes nothing back from the past.
LEMMA Registered ==
  ASSUME DelegationInv, NEW t \in Task, NEW n \in Name, Register(t, n), outcome' = outcome
  PROVE  /\ phase[t] = "unborn" /\ phase'[t] = "created" /\ orderName'[t] = n
         /\ \A u \in Task \ {t} : phase'[u] = phase[u]
         /\ PastKept /\ OutcomesSettled' /\ ReportsTellOutcome'
<1>1. /\ phase[t] = "unborn"
      /\ phase' = [phase EXCEPT ![t] = "created"]
      /\ orderName' = [orderName EXCEPT ![t] = n]
      /\ results' = [results EXCEPT ![n] = NoReport]
  BY DEF Register, Unborn
<1>2. /\ phase'[t] = "created" /\ orderName'[t] = n
      /\ \A u \in Task \ {t} : phase'[u] = phase[u] /\ orderName'[u] = orderName[u]
      /\ \A m \in Name : results'[m] = IF m = n THEN NoReport ELSE results[m]
  BY <1>1 DEF DelegationInv, RegistryInv, TypeOK
<1>3. PastKept
  BY <1>1, <1>2 DEF PastKept
<1>4. OutcomesSettled'
  BY <1>1, <1>2 DEF DelegationInv, OutcomesSettled
<1>5. ReportsTellOutcome'
  BY <1>1, <1>2 DEF DelegationInv, ReportsTellOutcome
<1>. QED
  BY <1>1, <1>2, <1>3, <1>4, <1>5

\* A turn orders a worker and goes on without it.
LEMMA SpawnStep ==
  ASSUME DelegationInv, NEW a \in Actor, NEW n \in Name, TurnSpawns(a, n)
  PROVE  DelegationInv'
<1>1. RegistryInv' /\ ReportInv'
  BY TurnStepsRegistry, RegistryKept DEF DelegationInv
<1>2. /\ turn[a] # NoChat
      /\ UNCHANGED <<waiter, toolContext, turn, inbox, pipe, outcome, heard>>
  BY DEF TurnSpawns
<1>3. PICK t \in Task : Register(t, n) /\ requester' = [requester EXCEPT ![t] = turn[a]]
  BY DEF TurnSpawns
<1>4. DelegationTypeOK'
  BY <1>2, <1>3 DEF DelegationInv, DelegationTypeOK
<1>5. /\ phase[t] = "unborn" /\ phase'[t] = "created"
      /\ \A u \in Task \ {t} : phase'[u] = phase[u]
      /\ PastKept /\ OutcomesSettled' /\ ReportsTellOutcome'
  BY <1>2, <1>3, Registered
<1>6. StageTasks' = StageTasks
  BY <1>2 DEF StageTasks
<1>7. \A u \in Task : Due(u)' <=> Due(u)
  BY <1>5, <1>6 DEF Due, HasCallback
<1>8. NoticesSound'
  BY <1>2, <1>7, NoticesKept, LenProperties DEF DelegationInv, DelegationTypeOK
<1>. QED
  BY <1>1, <1>2, <1>4, <1>5, <1>8, NoNews

\* A turn launches a pipeline.
LEMMA LaunchStep ==
  ASSUME DelegationInv, NEW a \in Actor, NEW p \in Pipeline, NEW plan \in Plans,
         TurnLaunchesPipeline(a, p, plan)
  PROVE  DelegationInv'
<1>1. RegistryInv' /\ ReportInv'
  BY TurnStepsRegistry, RegistryKept DEF DelegationInv
<1>. DEFINE launched == [pc |-> "launched", plan |-> plan, runs |-> <<>>, input |-> NoTask,
                         chat |-> turn[a]]
<1>2. /\ turn[a] # NoChat /\ pipe[p].pc = "none"
      /\ pipe' = [pipe EXCEPT ![p] = launched]
      /\ UNCHANGED <<registryVars, toolContext, turn, inbox, requester, outcome, heard>>
  BY DEF TurnLaunchesPipeline
<1>3. launched \in PipeType
  BY DEF PipeType, DelegationInv, DelegationTypeOK
<1>4. /\ pipe'[p] = launched
      /\ \A q \in Pipeline \ {p} : pipe'[q] = pipe[q]
  BY <1>2 DEF DelegationInv, DelegationTypeOK
<1>5. pipe[p].runs = <<>>
  BY <1>2 DEF DelegationInv, PipesSound, PipeSound
<1>6. DelegationTypeOK'
  BY <1>2, <1>3 DEF DelegationInv, DelegationTypeOK, PipeType
<1>7. PastKept /\ OutcomesSettled' /\ ReportsTellOutcome'
  BY <1>2 DEF DelegationInv, PastKept, OutcomesSettled, ReportsTellOutcome, registryVars
<1>8. PipesSound'
  <2>1. PipeSound(p)'
    <3>1. Len(plan) \in Nat
      BY PlanType
    <3>. QED
      BY <1>4, <3>1 DEF PipeSound, RunsFollowPlan
  <2>2. ASSUME NEW q \in Pipeline \ {p} PROVE PipeSound(q)'
    BY <1>2, <1>4, <1>7, PipeKept DEF DelegationInv, PipesSound, registryVars
  <2>. QED
    BY <2>1, <2>2 DEF PipesSound
<1>9. AnnouncedIsOver'
  <2>1. \A q \in Pipeline : pipe[q].pc = "over" => pipe'[q] = pipe[q]
    BY <1>2, <1>4
  <2>. QED
    BY <1>2, <1>6, <1>7, <2>1, AnnouncedKept DEF DelegationInv
<1>10. NoticesSound'
  <2>1. \A q \in Pipeline : pipe'[q].runs = pipe[q].runs
    BY <1>4, <1>5
  <2>2. StageTasks' = StageTasks
    BY <2>1 DEF StageTasks
  <2>3. \A u \in Task : Due(u)' <=> Due(u)
    BY <1>2, <2>2 DEF Due, HasCallback, registryVars
  <2>. QED
    BY <1>2, <2>3, NoticesKept, LenProperties DEF DelegationInv, DelegationTypeOK
<1>. QED
  BY <1>1, <1>6, <1>7, <1>8, <1>9, <1>10 DEF DelegationInv

-----------------------------------------------------------------------------
(* Workers.                                                                *)

\* A worker begins, or is dropped before it has.
LEMMA WorkerMoves ==
  ASSUME DelegationInv, NEW t \in Task, WorkerBegins(t) \/ WorkerDropped(t),
         UNCHANGED delegationVars
  PROVE  DelegationInv'
<1>1. RegistryInv' /\ ReportInv'
  BY RegistryKept DEF DelegationInv, Next, WorkerStep
<1>2. /\ phase[t] = "created" /\ phase'[t] \in {"running", "dropped"}
      /\ \A u \in Task \ {t} : phase'[u] = phase[u]
      /\ UNCHANGED <<results, orderName, waiter>>
  BY DEF WorkerBegins, WorkerDropped, DelegationInv, RegistryInv, TypeOK
<1>3. UNCHANGED <<toolContext, turn, inbox, pipe, requester, outcome, heard>>
  BY DEF delegationVars
<1>4. DelegationTypeOK'
  BY <1>3 DEF DelegationInv, DelegationTypeOK
<1>5. PastKept
  BY <1>2, <1>3 DEF PastKept
<1>6. OutcomesSettled'
  BY <1>2, <1>3 DEF DelegationInv, OutcomesSettled
<1>7. ReportsTellOutcome'
  BY <1>2, <1>3 DEF DelegationInv, ReportsTellOutcome
<1>8. NoticesSound'
  <2>1. \A u \in Task : Due(u)' <=> Due(u)
    BY <1>2, <1>3 DEF Due, HasCallback, StageTasks
  <2>. QED
    BY <1>3, <2>1, NoticesKept, LenProperties DEF DelegationInv, DelegationTypeOK
<1>. QED
  BY <1>1, <1>2, <1>3, <1>4, <1>5, <1>6, <1>7, <1>8, NoNews

\* The end of a worker: its outcome, its report and, if it was spawned by a turn, the
\* one notice about it.
LEMMA WorkerReports ==
  ASSUME DelegationInv, NEW t \in Task, NEW status \in Terminal,
         RegistryInv', ReportInv', phase[t] = "running", Deregister(t, status),
         WorkerEnds(t, status)
  PROVE  DelegationInv'
<1>1. /\ phase' = [phase EXCEPT ![t] = "finished"]
      /\ results' = [results EXCEPT ![orderName[t]] = [run |-> t, status |-> status]]
      /\ outcome' = [outcome EXCEPT ![t] = status]
      /\ UNCHANGED <<orderName, waiter, toolContext, turn, pipe, requester, heard>>
  BY DEF Deregister, WorkerEnds
<1>2. /\ phase'[t] = "finished" /\ outcome'[t] = status
      /\ \A u \in Task \ {t} : phase'[u] = phase[u] /\ outcome'[u] = outcome[u]
  BY <1>1 DEF DelegationInv, RegistryInv, TypeOK, DelegationTypeOK
<1>3. outcome[t] = "none"
  BY DEF DelegationInv, OutcomesSettled
<1>4. PastKept
  BY <1>1, <1>2, <1>3 DEF PastKept
<1>5. OutcomesSettled'
  BY <1>2 DEF DelegationInv, OutcomesSettled
<1>6. ReportsTellOutcome'
  <2>1. \A m \in Name : results'[m] = results[m] \/ results'[m] = [run |-> t, status |-> status]
    BY <1>1 DEF DelegationInv, RegistryInv, TypeOK
  <2>. QED
    BY <1>2, <2>1 DEF DelegationInv, ReportsTellOutcome
<1>7. WorkerMsg(t) \in Message /\ WorkerMsg(t).kind = "worker" /\ WorkerMsg(t).task = t
  BY DEF WorkerMsg, Message, DelegationInv, DelegationTypeOK
<1>8. HasCallback(t) <=> t \notin StageTasks
  BY DEF HasCallback
<1>9. \A u \in Task \ {t} : Due(u)' <=> Due(u)
  BY <1>1, <1>2 DEF Due, HasCallback, StageTasks
<1>10. /\ ~Due(t) /\ (Due(t)' <=> HasCallback(t))
  BY <1>1, <1>2 DEF Due, HasCallback, StageTasks
<1>11. t \notin heard /\ NoticesOf(t) = {}
  BY <1>10 DEF DelegationInv, NoticesSound, NoticeSound
<1>12. CASE ~HasCallback(t)
  <2>1. inbox' = inbox
    BY <1>12 DEF WorkerEnds
  <2>2. DelegationTypeOK'
    BY <1>1, <2>1 DEF DelegationInv, DelegationTypeOK
  <2>3. \A u \in Task : Due(u)' <=> Due(u)
    BY <1>9, <1>10, <1>12
  <2>4. NoticesSound'
    BY <1>1, <2>1, <2>3, NoticesKept, LenProperties DEF DelegationInv, DelegationTypeOK
  <2>. QED
    BY <1>1, <1>4, <1>5, <1>6, <2>1, <2>2, <2>4, NoNews
<1>13. CASE HasCallback(t)
  <2>1. inbox' = Append(inbox, WorkerMsg(t))
    BY <1>13 DEF WorkerEnds
  <2>2. /\ inbox' \in Seq(Message)
        /\ Len(inbox) \in Nat /\ Len(inbox') = Len(inbox) + 1
        /\ \A i \in 1 .. Len(inbox) : inbox'[i] = inbox[i]
        /\ inbox'[Len(inbox) + 1] = WorkerMsg(t)
    BY <1>7, <2>1, Appended DEF DelegationInv
  <2>3. DelegationTypeOK'
    BY <1>1, <2>2 DEF DelegationInv, DelegationTypeOK
  <2>4. NoticesSound'
    <3>1. NoticesOf(t)' = {Len(inbox) + 1}
      BY <1>7, <1>11, <2>2 DEF NoticesOf
    <3>2. NoticeSound(t)'
      BY <1>1, <1>10, <1>11, <1>13, <3>1 DEF NoticeSound
    <3>3. ASSUME NEW u \in Task \ {t} PROVE NoticeSound(u)'
      <4>1. NoticesOf(u)' = NoticesOf(u)
        BY <1>7, <2>2 DEF NoticesOf
      <4>. QED
        BY <1>1, <1>9, <4>1 DEF DelegationInv, NoticesSound, NoticeSound
    <3>. QED
      BY <3>2, <3>3 DEF NoticesSound
  <2>5. \A i \in 1 .. Len(inbox') : inbox'[i].kind = "completed" =>
          \E j \in 1 .. Len(inbox) : inbox[j] = inbox'[i]
    BY <1>7, <2>2
  <2>. QED
    BY <1>1, <1>4, <1>5, <1>6, <2>3, <2>4, <2>5, NoNews
<1>. QED
  BY <1>12, <1>13

\* Every step of a worker.
LEMMA WorkerStepKept ==
  ASSUME DelegationInv, NEW t \in Task, WorkerRuns(t)
  PROVE  DelegationInv'
<1>1. RegistryInv' /\ ReportInv'
  BY WorkerStepsRegistry, RegistryKept DEF DelegationInv
<1>2. CASE (WorkerBegins(t) \/ WorkerDropped(t)) /\ UNCHANGED delegationVars
  BY <1>2, WorkerMoves
<1>3. CASE \/ WorkerCompletes(t) /\ WorkerEnds(t, "completed")
           \/ WorkerFails(t) /\ WorkerEnds(t, "failed")
           \/ WorkerCancelled(t) /\ WorkerEnds(t, "cancelled")
  BY <1>1, <1>3, WorkerReports DEF WorkerCompletes, WorkerFails, WorkerCancelled, Terminal
<1>. QED
  BY <1>2, <1>3 DEF WorkerRuns

-----------------------------------------------------------------------------
(* Pipelines.                                                              *)

\* Messages that are no notices of workers are put at the end of the queue.
LEMMA Extended ==
  ASSUME DelegationTypeOK, NEW sent \in Seq(Message), inbox' = inbox \o sent,
         \A i \in 1 .. Len(sent) : sent[i].kind # "worker"
  PROVE  /\ inbox' \in Seq(Message)
         /\ Len(inbox) \in Nat /\ Len(inbox') \in Nat /\ Len(inbox) <= Len(inbox')
         /\ \A i \in 1 .. Len(inbox) : inbox'[i] = inbox[i]
         /\ \A i \in Len(inbox) + 1 .. Len(inbox') :
              /\ inbox'[i].kind # "worker"
              /\ \E j \in 1 .. Len(sent) : inbox'[i] = sent[j]
<1>1. inbox \in Seq(Message)
  BY DEF DelegationTypeOK
<1>2. Len(inbox) \in Nat /\ Len(sent) \in Nat
  BY <1>1, LenProperties
<1>3. /\ inbox' \in Seq(Message)
      /\ Len(inbox') = Len(inbox) + Len(sent)
      /\ \A i \in 1 .. Len(inbox) + Len(sent) : inbox'[i] =
           IF i <= Len(inbox) THEN inbox[i] ELSE sent[i - Len(inbox)]
  BY <1>1, ConcatProperties
<1>4. ASSUME NEW i \in Len(inbox) + 1 .. Len(inbox')
      PROVE  i - Len(inbox) \in 1 .. Len(sent) /\ inbox'[i] = sent[i - Len(inbox)]
  BY <1>2, <1>3
<1>5. \A i \in 1 .. Len(inbox) : inbox'[i] = inbox[i]
  BY <1>2, <1>3
<1>. QED
  BY <1>2, <1>3, <1>4, <1>5

\* What a pipeline announces is a message about it.
LEMMA PipeMsgType ==
  ASSUME DelegationTypeOK, NEW p \in Pipeline, NEW k \in {"started", "failed", "completed"}
  PROVE  PipeMsg(p, k) \in Message /\ PipeMsg(p, k).kind = k /\ PipeMsg(p, k).pipe = p
BY DEF PipeMsg, Message, DelegationTypeOK

\* The end of a pipeline, with messages that announce no success it did not have.
LEMMA PipelineOver ==
  ASSUME DelegationInv, NEW p \in Pipeline, NEW sent \in Seq(Message),
         RegistryInv', ReportInv', inbox' = inbox \o sent,
         \A i \in 1 .. Len(sent) :
           /\ sent[i].kind \in {"started", "failed", "completed"}
           /\ sent[i].kind = "completed" => sent[i].pipe = p /\ Completed(p),
         pipe[p].pc \in {"launched", "stage"}, pipe' = [pipe EXCEPT ![p].pc = "over"],
         \A q \in Pipeline \ {p} : waiter'[q] = waiter[q],
         UNCHANGED <<results, phase, orderName, toolContext, turn, requester, outcome, heard>>
  PROVE  DelegationInv'
<1>1. /\ pipe[p] \in PipeType
      /\ pipe'[p] = [pipe[p] EXCEPT !.pc = "over"]
      /\ \A q \in Pipeline \ {p} : pipe'[q] = pipe[q]
  BY PipeTyped DEF DelegationInv, DelegationTypeOK
<1>2. pipe'[p] \in PipeType /\ pipe'[p].pc = "over"
      /\ pipe'[p].runs = pipe[p].runs /\ pipe'[p].plan = pipe[p].plan
  BY <1>1 DEF PipeType
<1>3. /\ inbox' \in Seq(Message)
      /\ Len(inbox) \in Nat /\ Len(inbox') \in Nat /\ Len(inbox) <= Len(inbox')
      /\ \A i \in 1 .. Len(inbox) : inbox'[i] = inbox[i]
      /\ \A i \in Len(inbox) + 1 .. Len(inbox') :
           /\ inbox'[i].kind # "worker"
           /\ \E j \in 1 .. Len(sent) : inbox'[i] = sent[j]
  BY Extended DEF DelegationInv
<1>4. DelegationTypeOK'
  <2>1. pipe' \in [Pipeline -> PipeType]
    BY <1>1, <1>2 DEF DelegationInv, DelegationTypeOK, PipeType
  <2>. QED
    BY <1>3, <2>1 DEF DelegationInv, DelegationTypeOK, PipeType
<1>5. PastKept /\ OutcomesSettled' /\ ReportsTellOutcome'
  BY DEF DelegationInv, PastKept, OutcomesSettled, ReportsTellOutcome
<1>6. PipesSound'
  <2>1. PipeSound(p)'
    BY <1>2 DEF DelegationInv, PipesSound, PipeSound, RunsFollowPlan
  <2>2. ASSUME NEW q \in Pipeline \ {p} PROVE PipeSound(q)'
    BY <1>1, <1>5, PipeKept DEF DelegationInv, PipesSound
  <2>. QED
    BY <2>1, <2>2 DEF PipesSound
<1>7. AnnouncedIsOver'
  <2>1. \A q \in Pipeline : pipe[q].pc = "over" => pipe'[q] = pipe[q]
    BY <1>1
  <2>2. Completed(p) => Completed(p)'
    BY <1>2 DEF Completed
  <2>3. ASSUME NEW i \in 1 .. Len(inbox'), inbox'[i].kind = "completed"
        PROVE  \/ \E j \in 1 .. Len(inbox) : inbox[j] = inbox'[i]
               \/ \E q \in Pipeline : inbox'[i].pipe = q /\ pipe'[q].pc = "over" /\ Completed(q)'
    <3>1. CASE i \in 1 .. Len(inbox)
      BY <1>3, <3>1
    <3>2. CASE i \in Len(inbox) + 1 .. Len(inbox')
      <4>1. PICK j \in 1 .. Len(sent) : inbox'[i] = sent[j]
        BY <1>3, <3>2
      <4>. QED
        BY <1>2, <2>2, <2>3, <4>1
    <3>. QED
      BY <1>3, <3>1, <3>2
  <2>. QED
    BY <1>4, <1>5, <2>1, <2>3, AnnouncedKept DEF DelegationInv
<1>8. NoticesSound'
  <2>1. \A q \in Pipeline : pipe'[q].runs = pipe[q].runs
    BY <1>1, <1>2
  <2>2. StageTasks' = StageTasks
    BY <2>1 DEF StageTasks
  <2>3. \A u \in Task : Due(u)' <=> Due(u)
    BY <2>2 DEF Due, HasCallback
  <2>. QED
    BY <1>3, <2>3, NoticesKept DEF DelegationInv
<1>. QED
  BY <1>4, <1>5, <1>6, <1>7, <1>8 DEF DelegationInv

\* A pipeline in one of its stages is well typed.
LEMMA StagedType ==
  ASSUME NEW x \in PipeType, NEW runs \in Seq(Task), NEW input \in Task \cup {NoTask}
  PROVE  [pc |-> "stage", plan |-> x.plan, runs |-> runs, input |-> input,
          chat |-> x.chat] \in PipeType
BY DEF PipeType

\* The next stage begins with a worker that did not exist before.
LEMMA StageBegins ==
  ASSUME DelegationInv, NEW p \in Pipeline, NEW t \in Task, NEW input \in Task \cup {NoTask},
         NEW sent \in Seq(Message), inbox' = inbox \o sent,
         \A i \in 1 .. Len(sent) : sent[i].kind = "started",
         pipe[p].pc \in {"launched", "stage"}, pipe[p].plan \in Plans,
         Stage(p) < Len(pipe[p].plan),
         \A k \in 1 .. Stage(p) : outcome[pipe[p].runs[k]] = "completed",
         Stage(p) > 0 => input = pipe[p].runs[Stage(p)],
         Register(t, pipe[p].plan[Stage(p) + 1]), Await(p, t),
         requester' = [requester EXCEPT ![t] = pipe[p].chat],
         pipe' = [pipe EXCEPT ![p].pc = "stage", ![p].input = input,
                              ![p].runs = Append(@, t)],
         UNCHANGED <<toolContext, turn, outcome, heard>>
  PROVE  DelegationInv'
<1>. DEFINE n == pipe[p].plan[Stage(p) + 1]
            runs == pipe[p].runs
            next == Append(runs, t)
            staged == [pc |-> "stage", plan |-> pipe[p].plan, runs |-> next, input |-> input,
                       chat |-> pipe[p].chat]
<1>1. /\ pipe[p] \in PipeType /\ runs \in Seq(Task) /\ Len(runs) \in Nat
      /\ \A k \in 1 .. Len(runs) : runs[k] \in Task
  BY PipeTyped DEF DelegationInv
<1>2. n \in Name
  BY <1>1, PlanType, ElementOfSeq DEF Stage
<1>3. RegistryInv' /\ ReportInv'
  BY <1>2, StageLaunched DEF DelegationInv
<1>4. /\ phase[t] = "unborn" /\ phase'[t] = "created" /\ orderName'[t] = n
      /\ \A u \in Task \ {t} : phase'[u] = phase[u]
      /\ PastKept /\ OutcomesSettled' /\ ReportsTellOutcome'
  BY <1>2, Registered
<1>5. /\ waiter'[p].pc = "waiting" /\ waiter'[p].task = t
      /\ \A q \in Pipeline \ {p} : waiter'[q] = waiter[q]
  BY DEF Await, DelegationInv, RegistryInv, TypeOK, Pipeline
<1>6. /\ next \in Seq(Task) /\ Len(next) = Len(runs) + 1
      /\ \A k \in 1 .. Len(runs) : next[k] = runs[k]
      /\ next[Len(runs) + 1] = t
  BY <1>1, AppendProperties
<1>7. pipe' = [pipe EXCEPT ![p] = staged]
  BY <1>1 DEF DelegationInv, DelegationTypeOK, PipeType
<1>. HIDE DEF next
<1>8. /\ pipe' \in [Pipeline -> PipeType] /\ pipe'[p] = staged
      /\ \A q \in Pipeline \ {p} : pipe'[q] = pipe[q]
  <2>1. staged \in PipeType
    BY <1>1, <1>6, StagedType
  <2>2. pipe \in [Pipeline -> PipeType]
    BY DEF DelegationInv, DelegationTypeOK, PipeType
  <2>. HIDE DEF staged
  <2>. QED
    BY <1>7, <2>1, <2>2
<1>9. /\ inbox' \in Seq(Message)
      /\ Len(inbox) \in Nat /\ Len(inbox') \in Nat /\ Len(inbox) <= Len(inbox')
      /\ \A i \in 1 .. Len(inbox) : inbox'[i] = inbox[i]
      /\ \A i \in Len(inbox) + 1 .. Len(inbox') :
           /\ inbox'[i].kind # "worker"
           /\ \E j \in 1 .. Len(sent) : inbox'[i] = sent[j]
  BY Extended DEF DelegationInv
<1>10. DelegationTypeOK'
  <2>1. requester' \in [Task -> Chat \cup {NoChat}]
    BY <1>1 DEF DelegationInv, DelegationTypeOK, PipeType
  <2>. QED
    BY <1>8, <1>9, <2>1 DEF DelegationInv, DelegationTypeOK, PipeType
<1>11. PipesSound'
  <2>1. RunsFollowPlan(p)'
    <3>1. Len(runs) + 1 <= Len(pipe[p].plan)
      BY <1>1, PlanType DEF Stage
    <3>2. ASSUME NEW k \in 1 .. Len(runs) + 1
          PROVE  phase'[pipe'[p].runs[k]] # "unborn" /\ orderName'[pipe'[p].runs[k]] = pipe[p].plan[k]
      <4>1. CASE k = Len(runs) + 1
        BY <4>1, <1>4, <1>6, <1>8 DEF Stage
      <4>2. CASE k \in 1 .. Len(runs)
        <5>1. /\ runs[k] \in Task /\ phase[runs[k]] # "unborn"
              /\ orderName[runs[k]] = pipe[p].plan[k]
          BY <4>2, <1>1 DEF DelegationInv, PipesSound, PipeSound, RunsFollowPlan
        <5>2. phase'[runs[k]] # "unborn" /\ orderName'[runs[k]] = orderName[runs[k]]
          BY <5>1, <1>4 DEF PastKept
        <5>. QED
          BY <4>2, <5>1, <5>2, <1>6, <1>8
      <4>. QED
        BY <1>1, <4>1, <4>2
    <3>. QED
      BY <1>6, <1>8, <3>1, <3>2 DEF RunsFollowPlan
  <2>2. StageSound(p)'
    BY <1>1, <1>5, <1>6, <1>8 DEF StageSound, Stage
  <2>3. PipeSound(p)'
    BY <1>8, <2>1, <2>2 DEF PipeSound
  <2>4. ASSUME NEW q \in Pipeline \ {p} PROVE PipeSound(q)'
    BY <1>4, <1>5, <1>8, PipeKept DEF DelegationInv, PipesSound
  <2>. QED
    BY <2>3, <2>4 DEF PipesSound
<1>12. AnnouncedIsOver'
  <2>1. \A q \in Pipeline : pipe[q].pc = "over" => pipe'[q] = pipe[q]
    BY <1>8
  <2>2. ASSUME NEW i \in 1 .. Len(inbox'), inbox'[i].kind = "completed"
        PROVE  \E j \in 1 .. Len(inbox) : inbox[j] = inbox'[i]
    <3>1. i \in 1 .. Len(inbox) \/ i \in Len(inbox) + 1 .. Len(inbox')
      BY <1>9
    <3>. QED
      BY <1>9, <2>2, <3>1
  <2>. QED
    BY <1>4, <1>10, <2>1, <2>2, AnnouncedKept DEF DelegationInv
<1>13. NoticesSound'
  <2>1. ASSUME NEW u \in Task \ {t} PROVE u \in StageTasks' <=> u \in StageTasks
    <3>1. (\E k \in 1 .. Len(next) : next[k] = u) <=> \E k \in 1 .. Len(runs) : runs[k] = u
      <4>1. ASSUME NEW k \in 1 .. Len(next), next[k] = u PROVE k \in 1 .. Len(runs)
        BY <4>1, <1>1, <1>6
      <4>2. ASSUME NEW k \in 1 .. Len(runs) PROVE k \in 1 .. Len(next)
        BY <1>1, <1>6
      <4>. HIDE DEF runs
      <4>. QED
        BY <4>1, <4>2, <1>6
    <3>2. ASSUME NEW q \in Pipeline
          PROVE  (\E k \in DOMAIN pipe'[q].runs : pipe'[q].runs[k] = u)
                   <=> \E k \in DOMAIN pipe[q].runs : pipe[q].runs[k] = u
      <4>1. CASE q = p
        <5>1. DOMAIN next = 1 .. Len(next) /\ DOMAIN runs = 1 .. Len(runs)
          BY <1>1, <1>6, LenProperties
        <5>. QED
          BY <4>1, <5>1, <1>8, <3>1
      <4>2. CASE q # p
        BY <4>2, <1>8
      <4>. QED
        BY <4>1, <4>2
    <3>3. u \in StageTasks' <=> \E q \in Pipeline : \E k \in DOMAIN pipe'[q].runs : pipe'[q].runs[k] = u
      <4>1. StageTasks' = UNION {ToSet(pipe'[q].runs) : q \in Pipeline}
        BY DEF StageTasks, ToSet
      <4>2. ASSUME NEW q \in Pipeline
            PROVE  u \in ToSet(pipe'[q].runs)
                     <=> \E k \in DOMAIN pipe'[q].runs : pipe'[q].runs[k] = u
        BY DEF ToSet
      <4>. QED
        BY <4>1, <4>2
    <3>4. u \in StageTasks <=> \E q \in Pipeline : \E k \in DOMAIN pipe[q].runs : pipe[q].runs[k] = u
      BY DEF StageTasks, ToSet
    <3>. QED
      BY <3>2, <3>3, <3>4
  <2>2. \A u \in Task \ {t} : Due(u)' <=> Due(u)
    BY <1>4, <2>1 DEF Due, HasCallback
  <2>3. Due(t)' <=> Due(t)
    BY <1>4 DEF Due
  <2>. QED
    BY <1>9, <2>2, <2>3, NoticesKept DEF DelegationInv
<1>. QED
  BY <1>3, <1>4, <1>10, <1>11, <1>12, <1>13 DEF DelegationInv

\* The launch of the next stage, or the end of the pipeline if the registry rejects it.
LEMMA StageStep ==
  ASSUME DelegationInv, NEW p \in Pipeline, NEW input \in Task \cup {NoTask},
         NEW sent \in Seq(Message), \A i \in 1 .. Len(sent) : sent[i].kind = "started",
         pipe[p].pc \in {"launched", "stage"},
         Stage(p) < Len(pipe[p].plan),
         \A k \in 1 .. Stage(p) : outcome[pipe[p].runs[k]] = "completed",
         Stage(p) > 0 => input = pipe[p].runs[Stage(p)],
         LaunchStage(p, input, sent),
         UNCHANGED <<toolContext, turn, outcome, heard>>
  PROVE  DelegationInv'
<1>. DEFINE n == pipe[p].plan[Stage(p) + 1]
            failed == PipeMsg(p, "failed")
            told == Append(sent, failed)
<1>1. pipe[p].plan \in Plans
  BY DEF DelegationInv, PipesSound, PipeSound
<1>2. CASE /\ inbox' = inbox \o sent
           /\ \E t \in Task :
                /\ Register(t, n)
                /\ Await(p, t)
                /\ requester' = [requester EXCEPT ![t] = pipe[p].chat]
                /\ pipe' = [pipe EXCEPT ![p].pc = "stage", ![p].input = input,
                                        ![p].runs = Append(@, t)]
  BY <1>1, <1>2, StageBegins
<1>3. CASE /\ inbox' = inbox \o told
           /\ pipe' = [pipe EXCEPT ![p].pc = "over"]
           /\ Return(p, RejectedReport)
           /\ UNCHANGED <<activeTasks, results, phase, orderName, cancelRequested, requester>>
  <2>1. failed \in Message /\ failed.kind = "failed"
    BY PipeMsgType DEF DelegationInv
  <2>2. /\ told \in Seq(Message) /\ Len(sent) \in Nat /\ Len(told) = Len(sent) + 1
        /\ \A i \in 1 .. Len(sent) : told[i] = sent[i]
        /\ told[Len(sent) + 1] = failed
    BY <2>1, AppendProperties, LenProperties
  <2>. HIDE DEF told, failed
  <2>3. \A i \in 1 .. Len(told) :
          /\ told[i].kind \in {"started", "failed", "completed"}
          /\ told[i].kind = "completed" => told[i].pipe = p /\ Completed(p)
    <3>1. ASSUME NEW i \in 1 .. Len(told) PROVE i \in 1 .. Len(sent) \/ i = Len(sent) + 1
      BY <2>2
    <3>2. \A i \in 1 .. Len(told) : told[i].kind \in {"started", "failed"}
      BY <2>1, <2>2, <3>1
    <3>. QED
      BY <3>2
  <2>4. RegistryInv' /\ ReportInv'
    BY <1>3, PipelineRejected DEF DelegationInv
  <2>5. \A q \in Pipeline \ {p} : waiter'[q] = waiter[q]
    BY <1>3 DEF Return, DelegationInv, RegistryInv, TypeOK, Pipeline
  <2>. QED
    BY <1>3, <2>2, <2>3, <2>4, <2>5, PipelineOver
<1>. QED
  BY <1>2, <1>3 DEF LaunchStage

\* A pipeline begins with its first stage.
LEMMA PipelineStartStep ==
  ASSUME DelegationInv, NEW p \in Pipeline, PipelineStarts(p)
  PROVE  DelegationInv'
<1>. DEFINE started == PipeMsg(p, "started")
            sent == <<started>>
<1>1. started \in Message /\ started.kind = "started"
  BY PipeMsgType DEF DelegationInv
<1>. HIDE DEF started
<1>2. sent \in Seq(Message) /\ \A i \in 1 .. Len(sent) : sent[i].kind = "started"
  BY <1>1
<1>3. /\ pipe[p].pc = "launched" /\ LaunchStage(p, NoTask, sent)
      /\ UNCHANGED <<toolContext, turn, outcome, heard>>
  BY DEF PipelineStarts, started
<1>4. Stage(p) = 0 /\ Len(pipe[p].plan) \in Nat /\ Len(pipe[p].plan) >= 2
  BY <1>3, PlanType DEF DelegationInv, PipesSound, PipeSound, Stage
<1>5. /\ Stage(p) < Len(pipe[p].plan) /\ ~(Stage(p) > 0)
      /\ \A k \in 1 .. Stage(p) : outcome[pipe[p].runs[k]] = "completed"
  BY <1>4
<1>. HIDE DEF sent
<1>. QED
  BY <1>2, <1>3, <1>5, StageStep

\* What an orchestrator that goes on knows: the stage it waited for completed.
LEMMA StageCompleted ==
  ASSUME DelegationInv, NEW p \in Pipeline, pipe[p].pc = "stage", CanResume(p),
         AwaitedReport(waiter[p].task).status = "completed"
  PROVE  /\ AwaitedReport(waiter[p].task).run = pipe[p].runs[Stage(p)]
         /\ Stage(p) \in Nat /\ Stage(p) > 0 /\ pipe[p].runs[Stage(p)] \in Task
         /\ \A k \in 1 .. Stage(p) : outcome[pipe[p].runs[k]] = "completed"
<1>. DEFINE t == waiter[p].task
            r == AwaitedReport(t)
<1>1. r.run = t /\ r = results[orderName[t]]
  BY AwaitedIsOwn DEF DelegationInv
<1>2. StageSound(p)
  BY DEF DelegationInv, PipesSound, PipeSound
<1>3. /\ Len(pipe[p].runs) \in Nat /\ Len(pipe[p].runs) > 0 /\ t = pipe[p].runs[Len(pipe[p].runs)]
      /\ \A k \in 1 .. Len(pipe[p].runs) : pipe[p].runs[k] \in Task
  BY <1>2, PipeTyped DEF StageSound, DelegationInv
<1>4. t \in Task /\ orderName[t] \in Name
  BY <1>3 DEF DelegationInv, RegistryInv, NamedTasks, CanResume, Ended
<1>5. outcome[t] = "completed"
  BY <1>1, <1>4 DEF DelegationInv, ReportsTellOutcome, NoReport
<1>6. \A k \in 1 .. Len(pipe[p].runs) - 1 : outcome[pipe[p].runs[k]] = "completed"
  BY <1>2 DEF StageSound
<1>7. \A k \in 1 .. Len(pipe[p].runs) : k = Len(pipe[p].runs) \/ k \in 1 .. Len(pipe[p].runs) - 1
  BY <1>3
<1>. QED
  BY <1>1, <1>3, <1>5, <1>6, <1>7 DEF Stage

\* A pipeline ends, and announces how.
LEMMA PipelineEndStep ==
  ASSUME DelegationInv, NEW p \in Pipeline, pipe[p].pc = "stage", CanResume(p),
         NEW k \in {"failed", "completed"}, k = "completed" => Completed(p),
         PipelineEnds(p, AwaitedReport(waiter[p].task), k),
         UNCHANGED <<toolContext, turn, outcome, heard>>
  PROVE  DelegationInv'
<1>. DEFINE r == AwaitedReport(waiter[p].task)
            told == PipeMsg(p, k)
            sent == <<told>>
<1>1. /\ inbox' = Append(inbox, told)
      /\ pipe' = [pipe EXCEPT ![p].pc = "over"]
      /\ Return(p, r)
      /\ UNCHANGED <<activeTasks, results, phase, orderName, cancelRequested, requester>>
  BY DEF PipelineEnds
<1>2. r \in Report /\ (r.status = "completed" => r.run = waiter[p].task)
  BY AwaitedIsOwn DEF DelegationInv
<1>3. RegistryInv' /\ ReportInv'
  BY <1>1, <1>2, PipelineReturned DEF DelegationInv
<1>4. told \in Message /\ told.kind = k /\ told.pipe = p
  BY PipeMsgType DEF DelegationInv
<1>. HIDE DEF told
<1>5. sent \in Seq(Message) /\ \A i \in 1 .. Len(sent) : sent[i] = told
  BY <1>4
<1>6. inbox' = inbox \o sent
  BY <1>1, <1>4, AppendIsConcat DEF DelegationInv, DelegationTypeOK
<1>7. \A q \in Pipeline \ {p} : waiter'[q] = waiter[q]
  BY <1>1 DEF Return, DelegationInv, RegistryInv, TypeOK, Pipeline
<1>. HIDE DEF sent
<1>8. \A i \in 1 .. Len(sent) :
        /\ sent[i].kind \in {"started", "failed", "completed"}
        /\ sent[i].kind = "completed" => sent[i].pipe = p /\ Completed(p)
  BY <1>4, <1>5
<1>. QED
  BY <1>1, <1>3, <1>5, <1>6, <1>7, <1>8, PipelineOver

\* Every step of a pipeline.
LEMMA PipelineStep ==
  ASSUME DelegationInv, NEW p \in Pipeline, PipelineSteps(p)
  PROVE  DelegationInv'
<1>1. CASE PipelineStarts(p)
  BY <1>1, PipelineStartStep
<1>2. CASE PipelineAdvances(p)
  <2>. DEFINE r == AwaitedReport(waiter[p].task)
  <2>1. /\ pipe[p].pc = "stage" /\ CanResume(p)
        /\ UNCHANGED <<toolContext, turn, outcome, heard>>
    BY <1>2 DEF PipelineAdvances
  <2>2. CASE PipelineEnds(p, r, "failed")
    BY <2>1, <2>2, PipelineEndStep
  <2>3. CASE /\ ~StopsPipeline(r)
             /\ Stage(p) = Len(pipe[p].plan)
             /\ PipelineEnds(p, r, "completed")
    <3>1. \A k \in 1 .. Stage(p) : outcome[pipe[p].runs[k]] = "completed"
      BY <2>1, <2>3, StageCompleted DEF StopsPipeline
    <3>2. Completed(p)
      BY <2>3, <3>1 DEF Completed, Stage, DelegationInv, PipesSound, PipeSound, RunsFollowPlan
    <3>. QED
      BY <2>1, <2>3, <3>2, PipelineEndStep
  <2>4. CASE /\ ~StopsPipeline(r)
             /\ Stage(p) < Len(pipe[p].plan)
             /\ LaunchStage(p, r.run, <<>>)
    <3>1. /\ r.run = pipe[p].runs[Stage(p)] /\ r.run \in Task \cup {NoTask}
          /\ \A k \in 1 .. Stage(p) : outcome[pipe[p].runs[k]] = "completed"
      BY <2>1, <2>4, StageCompleted DEF StopsPipeline
    <3>2. <<>> \in Seq(Message) /\ \A i \in 1 .. Len(<<>>) : <<>>[i].kind = "started"
      OBVIOUS
    <3>. QED
      BY <2>1, <2>4, <3>1, <3>2, StageStep
  <2>. QED
    BY <1>2, <2>2, <2>3, <2>4 DEF PipelineAdvances
<1>. QED
  BY <1>1, <1>2 DEF PipelineSteps

-----------------------------------------------------------------------------
(* The theorems.                                                           *)

\* In the initial state nobody has been told anything.
LEMMA DelegationStarts == DelegationInit => DelegationInv
<1>. SUFFICES ASSUME DelegationInit PROVE DelegationInv
  OBVIOUS
<1>1. RegistryInv /\ ReportInv
  BY RegistryInit, ReportInit DEF DelegationInit
<1>2. DelegationTypeOK
  BY DelegationAssumption DEF DelegationInit, DelegationTypeOK, DelegationAssumption
<1>3. OutcomesSettled /\ ReportsTellOutcome /\ AnnouncedIsOver
  BY DEF DelegationInit, Init, OutcomesSettled, ReportsTellOutcome, AnnouncedIsOver
<1>4. PipesSound
  BY DEF DelegationInit, PipesSound, PipeSound, RunsFollowPlan
<1>5. NoticesSound
  <2>1. \A t \in Task : NoticesOf(t) = {} /\ ~Due(t)
    BY DEF DelegationInit, Init, NoticesOf, Due
  <2>. QED
    BY <2>1 DEF DelegationInit, NoticesSound, NoticeSound
<1>. QED
  BY <1>1, <1>2, <1>3, <1>4, <1>5 DEF DelegationInv

\* Every step preserves the invariant.
LEMMA DelegationStep == DelegationInv /\ [DelegationNext]_vars => DelegationInv'
<1>. SUFFICES ASSUME DelegationInv, [DelegationNext]_vars PROVE DelegationInv'
  OBVIOUS
<1>1. CASE \E c \in Chat : ChannelPublishes(UserMsg(c)) \/ ChannelPublishes(StopMsg(c))
  BY <1>1, ChannelStep
<1>2. CASE QueenConsumes
  BY <1>2, QueenStep
<1>3. CASE \/ \E a \in Direct, c \in Chat : DirectTurnBegins(a, c)
           \/ \E a \in Actor : TurnEnds(a)
           \/ UNCHANGED vars
  BY <1>3, TurnStep
<1>4. CASE \E a \in Actor, n \in Name : TurnSpawns(a, n)
  BY <1>4, SpawnStep
<1>5. CASE \E a \in Actor, p \in Pipeline, plan \in Plans : TurnLaunchesPipeline(a, p, plan)
  BY <1>5, LaunchStep
<1>6. CASE \E p \in Pipeline : PipelineSteps(p)
  BY <1>6, PipelineStep
<1>7. CASE \E t \in Task : WorkerRuns(t)
  BY <1>7, WorkerStepKept
<1>. QED
  BY <1>1, <1>2, <1>3, <1>4, <1>5, <1>6, <1>7 DEF DelegationNext

\* The tools, the workers and the bus together keep the inductive invariant.
THEOREM DelegationInvariant == DelegationSpec => []DelegationInv
BY DelegationStarts, DelegationStep, PTL DEF DelegationSpec

\* Type correctness of the bus, the turns and the pipelines.
THEOREM DelegationTypeCorrect == DelegationSpec => []DelegationTypeOK
<1>1. DelegationInv => DelegationTypeOK
  BY DEF DelegationInv
<1>. QED
  BY <1>1, DelegationInvariant, PTL

\* A worker's end is told to the Queen once and only once (worker_tools.py, on_complete;
\* registry.py, _run_worker_task): no notice is lost, repeated or invented, however many
\* workers, pipelines and messages share the queue.
THEOREM NoticesCorrect == DelegationSpec => []NoticesConserved
<1>1. ASSUME DelegationInv PROVE NoticesConserved
  <2>. SUFFICES ASSUME NEW t \in Task
                PROVE  Cardinality(NoticesOf(t)) + (IF t \in heard THEN 1 ELSE 0) =
                         (IF Due(t) THEN 1 ELSE 0)
    <3>1. DOMAIN inbox = 1 .. Len(inbox)
      BY <1>1, LenProperties DEF DelegationInv, DelegationTypeOK
    <3>. QED
      BY <3>1 DEF NoticesConserved, NoticesOf, Due
  <2>1. NoticeSound(t)
    BY <1>1 DEF DelegationInv, NoticesSound
  <2>2. CASE NoticesOf(t) = {}
    BY <2>1, <2>2, FS_EmptySet DEF NoticeSound
  <2>3. CASE NoticesOf(t) # {}
    <3>1. PICK i : NoticesOf(t) = {i}
      BY <2>1, <2>3 DEF NoticeSound
    <3>2. Cardinality(NoticesOf(t)) = 1
      BY <3>1, FS_Singleton
    <3>. QED
      BY <2>1, <2>3, <3>2 DEF NoticeSound
  <2>. QED
    BY <2>2, <2>3
<1>. QED
  BY <1>1, DelegationInvariant, PTL

\* A stage is given the output of this pipeline's own completed worker for the stage before
\* (worker_tools.py, orchestrate_pipeline), although reports are filed by name.
THEOREM StagesCorrect == DelegationSpec => []StagesChained
<1>1. ASSUME DelegationInv PROVE StagesChained
  <2>. SUFFICES ASSUME NEW p \in Pipeline, pipe[p].pc = "stage", Stage(p) > 1
                PROVE  /\ pipe[p].input = pipe[p].runs[Stage(p) - 1]
                       /\ outcome[pipe[p].input] = "completed"
    BY DEF StagesChained
  <2>1. StageSound(p)
    BY <1>1 DEF DelegationInv, PipesSound, PipeSound
  <2>2. Stage(p) \in Nat /\ Stage(p) = Len(pipe[p].runs)
    BY <1>1, PipeTyped DEF DelegationInv, Stage
  <2>3. Stage(p) - 1 \in 1 .. Stage(p) - 1
    BY <2>2
  <2>. QED
    BY <2>1, <2>2, <2>3 DEF StageSound
<1>. QED
  BY <1>1, DelegationInvariant, PTL

\* "COMPLETED ALL STAGES" (worker_tools.py, orchestrate_pipeline) is never said of a pipeline
\* of which a stage failed, was cancelled or was refused.
THEOREM CompletionCorrect == DelegationSpec => []CompletionIsTrue
<1>1. ASSUME DelegationInv PROVE CompletionIsTrue
  <2>1. DOMAIN inbox = 1 .. Len(inbox)
    BY <1>1, LenProperties DEF DelegationInv, DelegationTypeOK
  <2>. QED
    BY <1>1, <2>1 DEF DelegationInv, AnnouncedIsOver, Completed, CompletionIsTrue, Stage
<1>. QED
  BY <1>1, DelegationInvariant, PTL

\* /emergency-stop (loop.py, shutdown_all) reaches every worker that exists, because every
\* worker that exists is registered under its name.
THEOREM StopCorrect == DelegationSpec => StopReachesAll
<1>1. ASSUME DelegationInv, QueenStopsWorkers, NEW t \in LiveTasks
      PROVE  cancelRequested'[t]
  <2>1. t \in Task /\ Live(t) /\ activeTasks[orderName[t]] = t /\ orderName[t] \in Name
    BY <1>1 DEF DelegationInv, RegistryInv, RegistryMirrorsTasks, NamedTasks, LiveTasks, Live
  <2>2. orderName[t] \in ActiveNames
    BY <2>1, RegistryAssumption DEF ActiveNames, RegistryAssumption
  <2>3. Cancellable(orderName[t])
    BY <2>1, <2>2 DEF Cancellable
  <2>. QED
    BY <1>1, <2>1, <2>2, <2>3 DEF QueenStopsWorkers, CancelNames
<1>2. DelegationInv /\ [DelegationNext]_vars =>
        [QueenStopsWorkers => \A t \in LiveTasks : cancelRequested'[t]]_vars
  BY <1>1
<1>. QED
  BY <1>2, DelegationInvariant, PTL DEF DelegationSpec, StopReachesAll
=============================================================================
