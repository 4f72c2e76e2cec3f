------------------------ MODULE WorkerRegistryProofs ------------------------
(***************************************************************************)
(* Proofs about WorkerRegistry for any names, any number of workers and    *)
(* waiting callers, and any cap; the last part shows, step by step, that   *)
(* it implements WorkerPool.                                               *)
(***************************************************************************)
EXTENDS WorkerRegistry, FiniteSetTheorems, TLAPS

-----------------------------------------------------------------------------
(* The inductive invariant of the cap: what the registry's dictionary says *)
(* of the tasks, and that the dictionary itself stays within the cap.      *)

NamedTasks == \A t \in Task : phase[t] # "unborn" => orderName[t] \in Name

SlotsBounded ==
  /\ IsFiniteSet(ActiveNames)
  /\ Cardinality(ActiveNames) <= MaxWorkers

\* A caller only ever waits for a task that was created for it.
WaitersAwaitTasks ==
  \A w \in Waiter : waiter[w].pc = "waiting" =>
    waiter[w].task \in Task /\ phase[waiter[w].task] # "unborn"

RegistryInv ==
  /\ TypeOK
  /\ NamedTasks
  /\ WaitersAwaitTasks
  /\ RegistryMirrorsTasks
  /\ SlotsBounded

-----------------------------------------------------------------------------
\* Registering a name that is not active below the cap keeps the cap.
LEMMA AddSlot ==
  ASSUME NEW S, NEW n, IsFiniteSet(S), n \notin S, ~(Cardinality(S) >= MaxWorkers)
  PROVE  /\ IsFiniteSet(S \cup {n})
         /\ Cardinality(S \cup {n}) <= MaxWorkers
<1>1. Cardinality(S) \in Nat
  BY FS_CardinalityType
<1>2. /\ IsFiniteSet(S \cup {n})
      /\ Cardinality(S \cup {n}) = Cardinality(S) + 1
  BY FS_AddElement
<1>3. MaxWorkers \in Nat
  BY RegistryAssumption DEF RegistryAssumption
<1>. QED
  BY <1>1, <1>2, <1>3

\* Freeing slots keeps the cap.
LEMMA FewerSlots ==
  ASSUME NEW S, NEW T, IsFiniteSet(S), Cardinality(S) <= MaxWorkers, T \subseteq S
  PROVE  IsFiniteSet(T) /\ Cardinality(T) <= MaxWorkers
<1>1. IsFiniteSet(T) /\ Cardinality(T) <= Cardinality(S)
  BY FS_Subset
<1>2. Cardinality(S) \in Nat /\ Cardinality(T) \in Nat
  BY <1>1, FS_CardinalityType
<1>3. MaxWorkers \in Nat
  BY RegistryAssumption DEF RegistryAssumption
<1>. QED
  BY <1>1, <1>2, <1>3

-----------------------------------------------------------------------------
\* An accepted spawn: one more slot, held by the new task.
LEMMA RegisterStep ==
  ASSUME RegistryInv, NEW t \in Task, NEW n \in Name, Register(t, n)
  PROVE  /\ phase' \in [Task -> Phase]
         /\ activeTasks' \in [Name -> Task \cup {NoTask}]
         /\ results' \in [Name -> Report]
         /\ orderName' \in [Task -> Name \cup {NoName}]
         /\ cancelRequested' \in [Task -> BOOLEAN]
         /\ NamedTasks'
         /\ RegistryMirrorsTasks'
         /\ SlotsBounded'
<1>. USE DEF RegistryInv
<1>1. /\ activeTasks' = [activeTasks EXCEPT ![n] = t]
      /\ results' = [results EXCEPT ![n] = NoReport]
      /\ phase' = [phase EXCEPT ![t] = "created"]
      /\ orderName' = [orderName EXCEPT ![t] = n]
      /\ cancelRequested' = cancelRequested
      /\ phase[t] = "unborn"
      /\ n \notin ActiveNames
      /\ ~(Cardinality(ActiveNames) >= MaxWorkers)
  BY DEF Register, Rejects, IsFull, Unborn
<1>2. NoReport \in Report
  BY DEF NoReport, Report
<1>3. NoTask \notin Task
  BY RegistryAssumption DEF RegistryAssumption
<1>4. ActiveNames' = ActiveNames \cup {n}
  BY <1>1, <1>3 DEF ActiveNames, TypeOK
<1>5. SlotsBounded'
  BY <1>1, <1>4, AddSlot DEF SlotsBounded
<1>6. RegistryMirrorsTasks'
  <2>1. ASSUME NEW u \in Task, Live(u)'
        PROVE  (activeTasks[orderName[u]] = u)'
    <3>1. CASE u = t
      BY <3>1, <1>1 DEF TypeOK
    <3>2. CASE u # t
      <4>1. phase'[u] = phase[u] /\ orderName'[u] = orderName[u]
        BY <3>2, <1>1 DEF TypeOK
      <4>2. Live(u)
        BY <2>1, <4>1 DEF Live
      <4>3. activeTasks[orderName[u]] = u /\ orderName[u] \in Name
        BY <4>2 DEF RegistryMirrorsTasks, LiveTasks, NamedTasks, Live
      <4>4. orderName[u] # n
        BY <4>3, <1>1, <1>3 DEF ActiveNames
      <4>. QED
        BY <4>1, <4>3, <4>4, <1>1 DEF TypeOK
    <3>. QED
      BY <3>1, <3>2
  <2>2. ASSUME NEW m \in Name, m \in ActiveNames'
        PROVE  HoldsSlot(activeTasks[m], m)'
    <3>1. CASE m = n
      BY <3>1, <1>1 DEF TypeOK, Live, HoldsSlot
    <3>2. CASE m # n
      <4>1. m \in ActiveNames /\ activeTasks'[m] = activeTasks[m] /\ activeTasks[m] \in Task
        BY <3>2, <2>2, <1>4, <1>1 DEF TypeOK, ActiveNames
      <4>2. activeTasks[m] # t
        BY <4>1, <1>1 DEF RegistryMirrorsTasks, HoldsSlot, Live
      <4>. QED
        BY <4>1, <4>2, <1>1 DEF RegistryMirrorsTasks, HoldsSlot, Live, TypeOK
    <3>. QED
      BY <3>1, <3>2
  <2>. QED
    BY <2>1, <2>2 DEF RegistryMirrorsTasks, LiveTasks, ActiveNames
<1>7. NamedTasks'
  BY <1>1 DEF NamedTasks, TypeOK
<1>. QED
  BY <1>1, <1>2, <1>5, <1>6, <1>7 DEF TypeOK, Phase

\* A worker that ends with a report frees exactly its own slot.
LEMMA DeregisterStep ==
  ASSUME RegistryInv, NEW t \in Task, NEW status \in Terminal,
         phase[t] = "running", Deregister(t, status)
  PROVE  RegistryInv'
<1>. USE DEF RegistryInv
<1>1. /\ activeTasks' = [activeTasks EXCEPT ![orderName[t]] = NoTask]
      /\ results' = [results EXCEPT ![orderName[t]] = [run |-> t, status |-> status]]
      /\ phase' = [phase EXCEPT ![t] = "finished"]
      /\ UNCHANGED <<orderName, cancelRequested, waiter>>
  BY DEF Deregister
<1>2. /\ orderName[t] \in Name
      /\ activeTasks[orderName[t]] = t
  BY DEF NamedTasks, RegistryMirrorsTasks, LiveTasks, Live
<1>3. [run |-> t, status |-> status] \in Report
  BY DEF Report
<1>4. TypeOK'
  BY <1>1, <1>2, <1>3 DEF TypeOK, Phase
<1>5. ActiveNames' \subseteq ActiveNames
  BY <1>1, <1>2 DEF ActiveNames, TypeOK
<1>6. SlotsBounded'
  BY <1>5, FewerSlots DEF SlotsBounded
<1>7. NamedTasks' /\ WaitersAwaitTasks'
  BY <1>1, <1>2 DEF NamedTasks, WaitersAwaitTasks, TypeOK
<1>8. RegistryMirrorsTasks'
  <2>1. ASSUME NEW u \in Task, Live(u)'
        PROVE  (activeTasks[orderName[u]] = u)'
    <3>1. u # t /\ phase'[u] = phase[u]
      BY <2>1, <1>1 DEF Live, TypeOK
    <3>2. activeTasks[orderName[u]] = u /\ orderName[u] \in Name
      BY <2>1, <3>1 DEF Live, LiveTasks, RegistryMirrorsTasks, NamedTasks
    <3>3. orderName[u] # orderName[t]
      BY <3>1, <3>2, <1>2
    <3>. QED
      BY <3>2, <3>3, <1>1, <1>2 DEF TypeOK
  <2>2. ASSUME NEW m \in Name, m \in ActiveNames'
        PROVE  HoldsSlot(activeTasks[m], m)'
    <3>1. m # orderName[t] /\ m \in ActiveNames /\ activeTasks'[m] = activeTasks[m]
      BY <2>2, <1>1, <1>2, <1>5 DEF ActiveNames, TypeOK
    <3>2. HoldsSlot(activeTasks[m], m) /\ activeTasks[m] # t
      BY <3>1 DEF RegistryMirrorsTasks, HoldsSlot
    <3>3. activeTasks[m] \in Task
      BY <3>1 DEF ActiveNames, TypeOK
    <3>. QED
      BY <3>1, <3>2, <3>3, <1>1 DEF HoldsSlot, Live, TypeOK
  <2>. QED
    BY <2>1, <2>2 DEF RegistryMirrorsTasks, LiveTasks, ActiveNames
<1>. QED
  BY <1>4, <1>6, <1>7, <1>8

\* Cancelling, waiting and the first step of a worker touch no slot.
LEMMA QuietStep ==
  ASSUME RegistryInv, TypeOK', WaitersAwaitTasks',
         UNCHANGED <<activeTasks, orderName>>,
         \A t \in Task :
           \/ phase'[t] = phase[t]
           \/ phase[t] = "created" /\ phase'[t] = "running"
           \/ phase[t] = "created" /\ phase'[t] = "dropped" /\ cancelRequested[t],
         \A t \in Task : cancelRequested[t] => cancelRequested'[t]
  PROVE  RegistryInv'
<1>. USE DEF RegistryInv
<1>1. ActiveNames' = ActiveNames /\ SlotsBounded'
  BY DEF SlotsBounded, ActiveNames
<1>2. NamedTasks'
  BY DEF NamedTasks
<1>3. ASSUME NEW u \in Task, Live(u)'
      PROVE  (activeTasks[orderName[u]] = u)'
  BY <1>3 DEF Live, LiveTasks, RegistryMirrorsTasks
<1>4. ASSUME NEW m \in Name, m \in ActiveNames'
      PROVE  HoldsSlot(activeTasks[m], m)'
  <2>1. HoldsSlot(activeTasks[m], m) /\ activeTasks[m] \in Task
    BY <1>4, <1>1 DEF RegistryMirrorsTasks, ActiveNames, TypeOK
  <2>. QED
    BY <2>1 DEF HoldsSlot, Live
<1>5. RegistryMirrorsTasks'
  BY <1>3, <1>4 DEF RegistryMirrorsTasks, LiveTasks, ActiveNames
<1>. QED
  BY <1>1, <1>2, <1>5

\* The report that ends a wait is always a report.
LEMMA AwaitedReportType ==
  ASSUME TypeOK, NamedTasks, NEW t \in Task, phase[t] # "unborn"
  PROVE  AwaitedReport(t) \in Report
<1>1. results[orderName[t]] \in Report
  BY DEF TypeOK, NamedTasks
<1>. QED
  BY <1>1 DEF AwaitedReport, Report, NoResultReport, InterruptReport, Terminal

-----------------------------------------------------------------------------
(* The invariant is inductive: one step per action.                        *)

\* The registry is empty in the initial state.
LEMMA RegistryInit == Init => RegistryInv
<1>. SUFFICES ASSUME Init PROVE RegistryInv
  OBVIOUS
<1>1. TypeOK /\ NamedTasks /\ WaitersAwaitTasks
  BY DEF Init, TypeOK, NamedTasks, WaitersAwaitTasks, Phase, Report, NoReport
<1>2. ActiveNames = {} /\ LiveTasks = {}
  BY DEF Init, ActiveNames, LiveTasks, Live
<1>3. SlotsBounded
  BY <1>2, FS_EmptySet, RegistryAssumption DEF SlotsBounded, RegistryAssumption
<1>. QED
  BY <1>1, <1>2, <1>3 DEF RegistryInv, RegistryMirrorsTasks

\* Every step preserves it.
LEMMA RegistryNext == RegistryInv /\ [Next]_registryVars => RegistryInv'
<1>. SUFFICES ASSUME RegistryInv, [Next]_registryVars
              PROVE  RegistryInv'
  OBVIOUS
<1>. USE DEF RegistryInv
<1>1. ASSUME NEW n \in Name, SpawnWorker(n)
      PROVE  RegistryInv'
  <2>1. PICK t \in Task : Register(t, n)
    BY <1>1 DEF SpawnWorker
  <2>2. WaitersAwaitTasks'
    BY <1>1, <2>1 DEF SpawnWorker, Register, Unborn, WaitersAwaitTasks, TypeOK
  <2>. QED
    BY <1>1, <2>1, <2>2, RegisterStep DEF SpawnWorker, TypeOK
<1>2. ASSUME NEW w \in Waiter, NEW n \in Name, SpawnAndWait(w, n)
      PROVE  RegistryInv'
  <2>1. PICK t \in Task : Register(t, n) /\ Await(w, t)
    BY <1>2 DEF SpawnAndWait
  <2>2. WaitersAwaitTasks'
    BY <2>1 DEF Await, Register, Unborn, WaitersAwaitTasks, TypeOK
  <2>3. (waiter \in [Waiter -> [pc : {"idle", "waiting", "returned"},
                               task : Task \cup {NoTask}, report : Report]])'
    BY <2>1 DEF Await, TypeOK
  <2>. QED
    BY <2>1, <2>2, <2>3, RegisterStep DEF TypeOK
<1>3. ASSUME NEW w \in Waiter, NEW n \in Name, SpawnAndWaitRejected(w, n)
      PROVE  RegistryInv'
  <2>1. TypeOK'
    BY <1>3 DEF SpawnAndWaitRejected, TypeOK, RejectedReport, Report, Terminal
  <2>2. WaitersAwaitTasks'
    BY <1>3 DEF SpawnAndWaitRejected, WaitersAwaitTasks, TypeOK
  <2>. QED
    BY <1>3, <2>1, <2>2, QuietStep DEF SpawnAndWaitRejected
<1>4. ASSUME NEW w \in Waiter, WaiterResumes(w)
      PROVE  RegistryInv'
  <2>1. AwaitedReport(waiter[w].task) \in Report
    BY <1>4, AwaitedReportType DEF WaiterResumes, CanResume, WaitersAwaitTasks
  <2>2. TypeOK'
    BY <1>4, <2>1 DEF WaiterResumes, Return, TypeOK
  <2>3. WaitersAwaitTasks'
    BY <1>4 DEF WaiterResumes, Return, WaitersAwaitTasks, TypeOK
  <2>. QED
    BY <1>4, <2>2, <2>3, QuietStep DEF WaiterResumes
<1>5. ASSUME NEW t \in Task, WorkerBegins(t)
      PROVE  RegistryInv'
  <2>1. TypeOK' /\ WaitersAwaitTasks'
    BY <1>5 DEF WorkerBegins, TypeOK, WaitersAwaitTasks, Phase
  <2>2. \A u \in Task : phase'[u] = phase[u] \/ (phase[u] = "created" /\ phase'[u] = "running")
    BY <1>5 DEF WorkerBegins, TypeOK
  <2>. QED
    BY <1>5, <2>1, <2>2, QuietStep DEF WorkerBegins
<1>6. ASSUME NEW t \in Task, WorkerDropped(t)
      PROVE  RegistryInv'
  <2>1. TypeOK' /\ WaitersAwaitTasks'
    BY <1>6 DEF WorkerDropped, TypeOK, WaitersAwaitTasks, Phase
  <2>2. \A u \in Task :
          \/ phase'[u] = phase[u]
          \/ phase[u] = "created" /\ phase'[u] = "dropped" /\ cancelRequested[u]
    BY <1>6 DEF WorkerDropped, TypeOK
  <2>. QED
    BY <1>6, <2>1, <2>2, QuietStep DEF WorkerDropped
<1>7. ASSUME NEW t \in Task, WorkerCompletes(t) \/ WorkerFails(t) \/ WorkerCancelled(t)
      PROVE  RegistryInv'
  <2>1. PICK status \in Terminal : Deregister(t, status)
    BY <1>7 DEF WorkerCompletes, WorkerFails, WorkerCancelled, Terminal
  <2>2. phase[t] = "running"
    BY <1>7 DEF WorkerCompletes, WorkerFails, WorkerCancelled
  <2>. QED
    BY <2>1, <2>2, DeregisterStep
<1>8. ASSUME NEW names \in SUBSET Name, CancelNames(names),
             UNCHANGED <<activeTasks, results, phase, orderName, waiter>>
      PROVE  RegistryInv'
  <2>1. TypeOK' /\ WaitersAwaitTasks'
    BY <1>8 DEF CancelNames, TypeOK, WaitersAwaitTasks
  <2>2. ASSUME NEW u \in Task, cancelRequested[u] PROVE cancelRequested'[u]
    BY <1>8, <2>2, Zenon DEF CancelNames
  <2>. QED
    BY <1>8, <2>1, <2>2, QuietStep
<1>9. CASE UNCHANGED registryVars
  BY <1>9 DEF registryVars, TypeOK, NamedTasks, WaitersAwaitTasks, RegistryMirrorsTasks,
              SlotsBounded, LiveTasks, Live, ActiveNames, HoldsSlot
<1>10. CASE (\E n \in Name : CancelWorker(n)) \/ CancelAll
  BY <1>8, <1>10 DEF CancelWorker, CancelAll, ActiveNames
<1>. QED
  BY <1>1, <1>2, <1>3, <1>4, <1>5, <1>6, <1>7, <1>9, <1>10 DEF Next, WorkerStep

\* The registry's dictionary and its tasks agree in every reachable state.
THEOREM RegistryInvariant == Spec => []RegistryInv
<1>. QED
  BY RegistryInit, RegistryNext, PTL DEF Spec

-----------------------------------------------------------------------------
\* Type correctness of the registry (registry.py:17-18 and the report schema).
THEOREM TypeCorrect == Spec => []TypeOK
<1>1. RegistryInv => TypeOK
  BY DEF RegistryInv
<1>. QED
  BY <1>1, RegistryInvariant, PTL

\* No worker runs unregistered and no slot is held without a reason: whatever
\* the order of spawns, ends and cancellations (registry.py:116-253).
THEOREM MirrorCorrect == Spec => []RegistryMirrorsTasks
<1>1. RegistryInv => RegistryMirrorsTasks
  BY DEF RegistryInv
<1>. QED
  BY <1>1, RegistryInvariant, PTL

\* Each live worker holds a slot of its own.
LEMMA LiveHoldSlots ==
  ASSUME RegistryInv
  PROVE  IsFiniteSet(LiveTasks) /\ Cardinality(LiveTasks) <= Cardinality(ActiveNames)
<1>. DEFINE f == [t \in LiveTasks |-> orderName[t]]
<1>1. f \in Injection(LiveTasks, ActiveNames)
  <2>1. \A t \in LiveTasks : orderName[t] \in ActiveNames
    BY RegistryAssumption
       DEF RegistryInv, RegistryMirrorsTasks, NamedTasks, ActiveNames, LiveTasks, Live,
           RegistryAssumption
  <2>2. \A t, u \in LiveTasks : orderName[t] = orderName[u] => t = u
    BY DEF RegistryInv, RegistryMirrorsTasks
  <2>. QED
    BY <2>1, <2>2 DEF Injection, IsInjective
<1>. QED
  BY <1>1, FS_Injection DEF RegistryInv, SlotsBounded

\* The cap holds for the coroutines that exist, because each of them holds a
\* slot of its own (registry.py:32-33, 132-170, 222).
THEOREM CapacityCorrect == Spec => []CapacityRespected
<1>1. ASSUME RegistryInv PROVE CapacityRespected
  <2>1. Cardinality(LiveTasks) \in Nat /\ Cardinality(ActiveNames) \in Nat
    BY <1>1, LiveHoldSlots, FS_CardinalityType DEF RegistryInv, SlotsBounded
  <2>. QED
    BY <1>1, <2>1, LiveHoldSlots, RegistryAssumption
       DEF RegistryInv, SlotsBounded, CapacityRespected, RegistryAssumption
<1>. QED
  BY <1>1, RegistryInvariant, PTL

-----------------------------------------------------------------------------
(* Reports.  While a name is active there is no report filed under it, and *)
(* a report that was filed stays until the name is used again: what a      *)
(* woken caller finds is the report of its own worker, no report, or the   *)
(* report of a later worker, which has not had the time to succeed.        *)

ActiveNamesUnreported == \A n \in ActiveNames : results[n] = NoReport

DroppedKeepSlots ==
  \A t \in Task : phase[t] = "dropped" => activeTasks[orderName[t]] = t

AwaitedSuccessIsOwn ==
  \A w \in Waiter :
    /\ CanResume(w)
    /\ results[orderName[waiter[w].task]].status = "completed"
    => results[orderName[waiter[w].task]].run = waiter[w].task

ReportInv ==
  /\ ActiveNamesUnreported
  /\ DroppedKeepSlots
  /\ AwaitedSuccessIsOwn
  /\ CompletedReportIsOwn

\* There is neither a report nor a wait in the initial state.
LEMMA ReportInit == Init => ReportInv
<1>. SUFFICES ASSUME Init PROVE ReportInv
  OBVIOUS
<1>1. ActiveNames = {}
  BY DEF Init, ActiveNames
<1>2. \A w \in Waiter : waiter[w].pc = "idle"
  BY DEF Init
<1>. QED
  BY <1>1, <1>2 DEF Init, ReportInv, ActiveNamesUnreported, DroppedKeepSlots,
                    AwaitedSuccessIsOwn, CompletedReportIsOwn, CanResume

\* Clearing the old result when a name is reused is what the invariant needs.
LEMMA RegisterReports ==
  ASSUME RegistryInv, ReportInv, NEW t \in Task, NEW n \in Name, Register(t, n),
         \A w \in Waiter : CanResume(w)' => CanResume(w) /\ waiter'[w] = waiter[w],
         CompletedReportIsOwn'
  PROVE  ReportInv'
<1>1. /\ activeTasks' = [activeTasks EXCEPT ![n] = t]
      /\ results' = [results EXCEPT ![n] = NoReport]
      /\ phase' = [phase EXCEPT ![t] = "created"]
      /\ orderName' = [orderName EXCEPT ![t] = n]
      /\ phase[t] = "unborn"
      /\ n \notin ActiveNames
  BY DEF Register, Rejects, Unborn
<1>2. NoTask \notin Task
  BY RegistryAssumption DEF RegistryAssumption
<1>3. ActiveNamesUnreported'
  BY <1>1 DEF ReportInv, ActiveNamesUnreported, ActiveNames, RegistryInv, TypeOK
<1>4. DroppedKeepSlots'
  BY <1>1, <1>2 DEF ReportInv, DroppedKeepSlots, ActiveNames, RegistryInv, NamedTasks, TypeOK
<1>5. ASSUME NEW w \in Waiter, CanResume(w)',
             (results[orderName[waiter[w].task]].status = "completed")'
      PROVE  (results[orderName[waiter[w].task]].run = waiter[w].task)'
  <2>. DEFINE u == waiter[w].task
  <2>1. CanResume(w) /\ waiter'[w] = waiter[w] /\ u \in Task /\ phase[u] # "unborn"
    BY <1>5 DEF CanResume, RegistryInv, WaitersAwaitTasks
  <2>2. orderName'[u] = orderName[u] /\ orderName[u] \in Name
    BY <2>1, <1>1 DEF RegistryInv, NamedTasks, TypeOK
  <2>3. orderName[u] # n
    BY <1>5, <2>1, <2>2, <1>1 DEF NoReport, RegistryInv, TypeOK
  <2>4. results'[orderName[u]] = results[orderName[u]]
    BY <2>2, <2>3, <1>1 DEF RegistryInv, TypeOK
  <2>. QED
    BY <1>5, <2>1, <2>2, <2>4 DEF ReportInv, AwaitedSuccessIsOwn
<1>. QED
  BY <1>3, <1>4, <1>5 DEF ReportInv, AwaitedSuccessIsOwn

\* A worker that ends overwrites nothing that a woken caller has yet to read,
\* except with a report that is no success.
LEMMA DeregisterReports ==
  ASSUME RegistryInv, ReportInv, NEW t \in Task, NEW status \in Terminal,
         phase[t] = "running", Deregister(t, status),
         status = "completed" => ~WakeupPending(orderName[t])
  PROVE  ReportInv'
<1>1. /\ activeTasks' = [activeTasks EXCEPT ![orderName[t]] = NoTask]
      /\ results' = [results EXCEPT ![orderName[t]] = [run |-> t, status |-> status]]
      /\ phase' = [phase EXCEPT ![t] = "finished"]
      /\ UNCHANGED <<orderName, cancelRequested, waiter>>
  BY DEF Deregister
<1>2. orderName[t] \in Name /\ activeTasks[orderName[t]] = t
  BY DEF RegistryInv, NamedTasks, RegistryMirrorsTasks, LiveTasks, Live
<1>3. ActiveNamesUnreported'
  BY <1>1, <1>2 DEF ReportInv, ActiveNamesUnreported, ActiveNames, RegistryInv, TypeOK
<1>4. DroppedKeepSlots'
  <2>1. ASSUME NEW u \in Task, phase'[u] = "dropped"
        PROVE  (activeTasks[orderName[u]] = u)'
    <3>1. u # t /\ phase[u] = "dropped"
      BY <2>1, <1>1 DEF RegistryInv, TypeOK
    <3>2. activeTasks[orderName[u]] = u /\ orderName[u] \in Name
      BY <3>1 DEF ReportInv, DroppedKeepSlots, RegistryInv, NamedTasks
    <3>. QED
      BY <3>1, <3>2, <1>1, <1>2 DEF RegistryInv, TypeOK
  <2>. QED
    BY <2>1 DEF DroppedKeepSlots
<1>5. ASSUME NEW w \in Waiter, CanResume(w)',
             (results[orderName[waiter[w].task]].status = "completed")'
      PROVE  (results[orderName[waiter[w].task]].run = waiter[w].task)'
  <2>. DEFINE u == waiter[w].task
  <2>1. u \in Task /\ phase[u] # "unborn" /\ waiter[w].pc = "waiting"
    BY <1>1, <1>5 DEF CanResume, RegistryInv, WaitersAwaitTasks
  <2>2. orderName[u] \in Name
    BY <2>1 DEF RegistryInv, NamedTasks
  <2>3. CASE u = t
    BY <2>3, <1>1, <1>2 DEF RegistryInv, TypeOK
  <2>4. CASE u # t
    <3>1. CanResume(w)
      BY <1>1, <1>5, <2>1, <2>4 DEF CanResume, Ended, RegistryInv, TypeOK
    <3>2. CASE orderName[u] = orderName[t]
      <4>1. status = "completed"
        BY <3>2, <1>1, <1>2, <1>5 DEF RegistryInv, TypeOK
      <4>. QED
        BY <4>1, <3>1, <3>2 DEF WakeupPending
    <3>3. CASE orderName[u] # orderName[t]
      BY <3>1, <3>3, <2>2, <1>1, <1>2, <1>5
         DEF ReportInv, AwaitedSuccessIsOwn, RegistryInv, TypeOK
    <3>. QED
      BY <3>2, <3>3
  <2>. QED
    BY <2>3, <2>4
<1>6. CompletedReportIsOwn'
  BY <1>1 DEF ReportInv, CompletedReportIsOwn
<1>. QED
  BY <1>3, <1>4, <1>5, <1>6 DEF ReportInv, AwaitedSuccessIsOwn

\* Steps that leave reports and slots alone and let no further caller resume.
LEMMA QuietReports ==
  ASSUME RegistryInv, ReportInv, UNCHANGED <<activeTasks, results, orderName>>,
         DroppedKeepSlots', CompletedReportIsOwn',
         \A w \in Waiter : CanResume(w)' =>
           /\ waiter'[w] = waiter[w]
           /\ CanResume(w) \/ results[orderName[waiter[w].task]] = NoReport
  PROVE  ReportInv'
<1>1. ActiveNamesUnreported'
  BY DEF ReportInv, ActiveNamesUnreported, ActiveNames
<1>2. AwaitedSuccessIsOwn'
  BY DEF ReportInv, AwaitedSuccessIsOwn, NoReport
<1>. QED
  BY <1>1, <1>2 DEF ReportInv

\* Every step preserves it.
LEMMA ReportNext == RegistryInv /\ ReportInv /\ [Next]_registryVars => ReportInv'
<1>. SUFFICES ASSUME RegistryInv, ReportInv, [Next]_registryVars
              PROVE  ReportInv'
  OBVIOUS
<1>1. ASSUME NEW n \in Name, SpawnWorker(n)
      PROVE  ReportInv'
  <2>1. PICK t \in Task : Register(t, n)
    BY <1>1 DEF SpawnWorker
  <2>2. \A w \in Waiter : CanResume(w)' => CanResume(w) /\ waiter'[w] = waiter[w]
    BY <1>1, <2>1 DEF SpawnWorker, Register, Unborn, CanResume, Ended,
                      RegistryInv, WaitersAwaitTasks, TypeOK
  <2>3. CompletedReportIsOwn'
    BY <1>1 DEF SpawnWorker, ReportInv, CompletedReportIsOwn
  <2>. QED
    BY <2>1, <2>2, <2>3, RegisterReports
<1>2. ASSUME NEW w \in Waiter, NEW n \in Name, SpawnAndWait(w, n)
      PROVE  ReportInv'
  <2>1. PICK t \in Task : Register(t, n) /\ Await(w, t)
    BY <1>2 DEF SpawnAndWait
  <2>2. /\ waiter'[w].pc = "waiting" /\ waiter'[w].task = t
        /\ \A v \in Waiter \ {w} : waiter'[v] = waiter[v]
    BY <2>1 DEF Await, RegistryInv, TypeOK
  <2>3. \A v \in Waiter : CanResume(v)' => CanResume(v) /\ waiter'[v] = waiter[v]
    BY <2>1, <2>2 DEF Register, Unborn, CanResume, Ended,
                      RegistryInv, WaitersAwaitTasks, TypeOK
  <2>4. CompletedReportIsOwn'
    BY <2>2 DEF ReportInv, CompletedReportIsOwn
  <2>. QED
    BY <2>1, <2>3, <2>4, RegisterReports
<1>3. ASSUME NEW w \in Waiter, NEW n \in Name, SpawnAndWaitRejected(w, n)
      PROVE  ReportInv'
  <2>1. /\ waiter'[w].pc = "returned" /\ waiter'[w].report = RejectedReport
        /\ \A v \in Waiter \ {w} : waiter'[v] = waiter[v]
        /\ UNCHANGED <<activeTasks, results, phase, orderName>>
    BY <1>3 DEF SpawnAndWaitRejected, RegistryInv, TypeOK
  <2>2. DroppedKeepSlots' /\ CompletedReportIsOwn'
    BY <2>1 DEF ReportInv, DroppedKeepSlots, CompletedReportIsOwn, RejectedReport
  <2>3. \A v \in Waiter : CanResume(v)' => waiter'[v] = waiter[v] /\ CanResume(v)
    BY <2>1 DEF CanResume, Ended
  <2>. QED
    BY <2>1, <2>2, <2>3, QuietReports
<1>4. ASSUME NEW w \in Waiter, WaiterResumes(w)
      PROVE  ReportInv'
  <2>. DEFINE t == waiter[w].task
  <2>1. /\ waiter'[w].pc = "returned" /\ waiter'[w].report = AwaitedReport(t)
        /\ waiter'[w].task = t
        /\ \A v \in Waiter \ {w} : waiter'[v] = waiter[v]
        /\ UNCHANGED <<activeTasks, results, phase, orderName>>
    BY <1>4 DEF WaiterResumes, Return, RegistryInv, TypeOK
  <2>2. AwaitedReport(t).status = "completed" => AwaitedReport(t).run = t
    BY <1>4 DEF WaiterResumes, AwaitedReport, ReportInv, AwaitedSuccessIsOwn,
                InterruptReport, NoResultReport
  <2>3. DroppedKeepSlots' /\ CompletedReportIsOwn'
    BY <2>1, <2>2 DEF ReportInv, DroppedKeepSlots, CompletedReportIsOwn
  <2>4. \A v \in Waiter : CanResume(v)' => waiter'[v] = waiter[v] /\ CanResume(v)
    BY <2>1 DEF CanResume, Ended
  <2>. QED
    BY <2>1, <2>3, <2>4, QuietReports
<1>5. ASSUME NEW t \in Task, WorkerBegins(t)
      PROVE  ReportInv'
  <2>1. DroppedKeepSlots' /\ CompletedReportIsOwn'
    BY <1>5 DEF WorkerBegins, ReportInv, DroppedKeepSlots, CompletedReportIsOwn,
                RegistryInv, TypeOK
  <2>2. \A v \in Waiter : CanResume(v)' => waiter'[v] = waiter[v] /\ CanResume(v)
    BY <1>5 DEF WorkerBegins, CanResume, Ended, RegistryInv, WaitersAwaitTasks, TypeOK
  <2>. QED
    BY <1>5, <2>1, <2>2, QuietReports DEF WorkerBegins
<1>6. ASSUME NEW t \in Task, WorkerDropped(t)
      PROVE  ReportInv'
  <2>1. /\ orderName[t] \in Name
        /\ activeTasks[orderName[t]] = t
        /\ NoTask \notin Task
    BY <1>6, RegistryAssumption
       DEF WorkerDropped, RegistryInv, NamedTasks, RegistryMirrorsTasks, LiveTasks, Live,
           RegistryAssumption
  <2>2. results[orderName[t]] = NoReport
    BY <2>1 DEF ReportInv, ActiveNamesUnreported, ActiveNames
  <2>3. DroppedKeepSlots' /\ CompletedReportIsOwn'
    BY <1>6, <2>1 DEF WorkerDropped, ReportInv, DroppedKeepSlots, CompletedReportIsOwn,
                      RegistryInv, TypeOK
  <2>4. \A v \in Waiter : CanResume(v)' =>
          /\ waiter'[v] = waiter[v]
          /\ CanResume(v) \/ results[orderName[waiter[v].task]] = NoReport
    BY <1>6, <2>2 DEF WorkerDropped, CanResume, Ended, RegistryInv, WaitersAwaitTasks, TypeOK
  <2>. QED
    BY <1>6, <2>3, <2>4, QuietReports DEF WorkerDropped
<1>7. ASSUME NEW t \in Task, WorkerCompletes(t) \/ WorkerFails(t) \/ WorkerCancelled(t)
      PROVE  ReportInv'
  <2>1. PICK status \in Terminal :
          /\ Deregister(t, status)
          /\ status = "completed" => ~WakeupPending(orderName[t])
    BY <1>7 DEF WorkerCompletes, WorkerFails, WorkerCancelled, Terminal
  <2>2. phase[t] = "running"
    BY <1>7 DEF WorkerCompletes, WorkerFails, WorkerCancelled
  <2>. QED
    BY <2>1, <2>2, DeregisterReports
<1>8. ASSUME UNCHANGED <<activeTasks, results, phase, orderName, waiter>>
      PROVE  ReportInv'
  <2>1. DroppedKeepSlots' /\ CompletedReportIsOwn'
    BY <1>8 DEF ReportInv, DroppedKeepSlots, CompletedReportIsOwn
  <2>2. \A v \in Waiter : CanResume(v)' => waiter'[v] = waiter[v] /\ CanResume(v)
    BY <1>8 DEF CanResume, Ended
  <2>. QED
    BY <1>8, <2>1, <2>2, QuietReports
<1>9. ((\E n \in Name : CancelWorker(n)) \/ CancelAll \/ UNCHANGED registryVars) =>
        UNCHANGED <<activeTasks, results, phase, orderName, waiter>>
  BY DEF CancelWorker, CancelAll, registryVars
<1>. QED
  BY <1>1, <1>2, <1>3, <1>4, <1>5, <1>6, <1>7, <1>8, <1>9 DEF Next, WorkerStep

\* A caller of spawn_worker_and_wait that is handed a success is handed the
\* success of the worker it started (registry.py:56-114), for any number of
\* callers and workers that share names.
THEOREM ReportsCorrect == Spec => []CompletedReportIsOwn
<1>1. ReportInv => CompletedReportIsOwn
  BY DEF ReportInv
<1>. QED
  BY <1>1, ReportInit, ReportNext, RegistryInvariant, PTL DEF Spec

-----------------------------------------------------------------------------
(* What a caller is told.                                                  *)

\* A success on file is that of a worker that ended before anybody told it to stop.
ReportsHonest ==
  \A n \in Name : results[n] # NoReport =>
    /\ results[n].status \in Terminal
    /\ results[n].status = "completed" =>
         /\ results[n].run \in Task
         /\ Ended(results[n].run)
         /\ ~cancelRequested[results[n].run]

PoolInv == RegistryInv /\ ReportInv /\ ReportsHonest

\* There are no reports in the initial state.
LEMMA HonestInit == Init => ReportsHonest
BY DEF Init, ReportsHonest

\* Registering forgets a report and revives no worker.
LEMMA RegisterHonest ==
  ASSUME PoolInv, NEW t \in Task, NEW n \in Name, Register(t, n)
  PROVE  ReportsHonest'
<1>1. /\ phase[t] = "unborn" /\ \A u \in Task \ {t} : phase'[u] = phase[u]
      /\ \A m \in Name : results'[m] = IF m = n THEN NoReport ELSE results[m]
      /\ cancelRequested' = cancelRequested
  BY DEF Register, Unborn, PoolInv, RegistryInv, TypeOK
<1>. QED
  BY <1>1 DEF PoolInv, ReportsHonest, Ended

\* A worker that is over leaves a report that is true of it.
LEMMA DeregisterHonest ==
  ASSUME PoolInv, NEW t \in Task, NEW status \in Terminal, Deregister(t, status),
         status = "completed" => ~cancelRequested[t]
  PROVE  ReportsHonest'
<1>1. /\ phase'[t] = "finished" /\ \A u \in Task \ {t} : phase'[u] = phase[u]
      /\ \A m \in Name : results'[m] = results[m] \/ results'[m] = [run |-> t, status |-> status]
      /\ cancelRequested' = cancelRequested
  BY DEF Deregister, PoolInv, RegistryInv, TypeOK
<1>. QED
  BY <1>1 DEF PoolInv, ReportsHonest, Ended

\* Only workers that still exist are told to stop.
LEMMA CancelHonest ==
  ASSUME PoolInv, NEW names \in SUBSET Name, CancelNames(names),
         UNCHANGED <<activeTasks, results, phase, orderName, waiter>>
  PROVE  ReportsHonest'
<1>1. \A t \in Task : Ended(t) => cancelRequested'[t] = cancelRequested[t]
  BY DEF CancelNames, Cancellable, Live, Ended, PoolInv, RegistryInv, TypeOK
<1>. QED
  BY <1>1 DEF PoolInv, ReportsHonest, Ended

\* Every step leaves true reports.
LEMMA HonestNext == PoolInv /\ [Next]_registryVars => ReportsHonest'
<1>. SUFFICES ASSUME PoolInv, [Next]_registryVars PROVE ReportsHonest'
  OBVIOUS
<1>1. CASE \E t \in Task, n \in Name : Register(t, n)
  BY <1>1, RegisterHonest
<1>2. CASE \E t \in Task : WorkerCompletes(t) \/ WorkerFails(t) \/ WorkerCancelled(t)
  BY <1>2, DeregisterHonest DEF WorkerCompletes, WorkerFails, WorkerCancelled, Terminal
<1>3. CASE \E t \in Task : WorkerBegins(t) \/ WorkerDropped(t)
  <2>1. PICK t \in Task : phase[t] = "created" /\ phase' \in
          {[phase EXCEPT ![t] = "running"], [phase EXCEPT ![t] = "dropped"]}
          /\ UNCHANGED <<results, cancelRequested>>
    BY <1>3 DEF WorkerBegins, WorkerDropped
  <2>2. \A u \in Task : Ended(u) => Ended(u)'
    BY <2>1 DEF Ended, PoolInv, RegistryInv, TypeOK
  <2>. QED
    BY <2>1, <2>2 DEF PoolInv, ReportsHonest, Ended
<1>4. CASE (\E n \in Name : CancelWorker(n)) \/ CancelAll
  <2>1. PICK names \in SUBSET Name :
          CancelNames(names) /\ UNCHANGED <<activeTasks, results, phase, orderName, waiter>>
    <3>1. ActiveNames \in SUBSET Name /\ \A n \in Name : {n} \in SUBSET Name
      BY DEF ActiveNames
    <3>. QED
      BY <1>4, <3>1 DEF CancelWorker, CancelAll
  <2>. QED
    BY <2>1, CancelHonest
<1>5. CASE UNCHANGED <<results, phase, cancelRequested>>
  BY <1>5 DEF PoolInv, ReportsHonest, Ended
<1>. QED
  BY <1>1, <1>2, <1>3, <1>4, <1>5
     DEF Next, WorkerStep, SpawnWorker, SpawnAndWait, SpawnAndWaitRejected, WaiterResumes,
         registryVars

\* The invariant of the mapping holds in every reachable state.
LEMMA PoolInvariant == Spec => []PoolInv
<1>1. Init => PoolInv
  BY RegistryInit, ReportInit, HonestInit DEF PoolInv
<1>2. PoolInv /\ [Next]_registryVars => PoolInv'
  BY RegistryNext, ReportNext, HonestNext DEF PoolInv
<1>. QED
  BY <1>1, <1>2, PTL DEF Spec

-----------------------------------------------------------------------------
(* The refinement mapping: what the pool sees of the registry.             *)

StateOf(t) == CASE phase[t] = "unborn" -> "unborn" [] Live(t) -> "live" [] OTHER -> "over"

States == [t \in Task |-> StateOf(t)]

Stopped == {t \in Task : cancelRequested[t]}

Callers == [w \in Waiter |-> Seen(w)]

\* The pool and the registry agree on who lives.
LEMMA PoolLive == \A t \in Task : Pool!Live(t) <=> Live(t)
BY DEF Pool!Live, Live

\* A step of one task moves one worker of the pool.
LEMMA StatesMove ==
  ASSUME NEW t \in Task, \A u \in Task \ {t} : phase'[u] = phase[u]
  PROVE  States' = [States EXCEPT ![t] = StateOf(t)']
BY DEF States, StateOf, Live

\* A step that touches one wait moves one caller.
LEMMA CallersMove ==
  ASSUME NEW w \in Waiter, \A v \in Waiter \ {w} : waiter'[v] = waiter[v]
  PROVE  Callers' = [Callers EXCEPT ![w] = Seen(w)']
BY DEF Callers, Seen, OwnOutcome

\* A step that touches no wait moves no caller.
LEMMA CallersStay ==
  ASSUME waiter' = waiter
  PROVE  Callers' = Callers
BY DEF Callers, Seen, OwnOutcome

\* An empty registry is an empty pool.
LEMMA PoolInit == Init => Pool!Init
<1>. SUFFICES ASSUME Init PROVE Pool!Init
  OBVIOUS
<1>1. States = [t \in Task |-> "unborn"]
  <2>1. \A t \in Task : StateOf(t) = "unborn"
    BY DEF Init, StateOf, Live
  <2>. QED
    BY <2>1 DEF States
<1>2. Stopped = {}
  BY DEF Init, Stopped
<1>3. Callers = [w \in Waiter |-> [of |-> NoTask, got |-> "none"]]
  <2>1. \A w \in Waiter : Seen(w) = [of |-> NoTask, got |-> "none"]
    <3>1. \A w \in Waiter : waiter[w].pc = "idle" /\ waiter[w].task = NoTask
      BY DEF Init
    <3>. QED
      BY <3>1 DEF Seen
  <2>. QED
    BY <2>1 DEF Callers
<1>. QED
  BY <1>1, <1>2, <1>3 DEF Init, Pool!Init, States, StateOf, Stopped, Callers

\* The two modules' cardinalities are the same.
LEMMA PoolCardinality == \A S : Pool!Cardinality(S) = Cardinality(S)
BY DEF Pool!Cardinality, Cardinality

\* The conditions under which the pool begins a worker.
LEMMA BeginMaps ==
  ASSUME NEW t \in Task, NEW n \in Name,
         States[t] = "unborn",
         Cardinality({u \in Task : Pool!Live(u)}) < MaxWorkers,
         \A u \in Task : Pool!Live(u) => orderName[u] # n,
         States' = [States EXCEPT ![t] = "live"],
         orderName' = [orderName EXCEPT ![t] = n],
         Stopped' = Stopped
  PROVE  Pool!Begin(t, n)
BY PoolCardinality DEF Pool!Begin, States, Stopped, StateOf

\* An order that the registry accepts is one that the pool begins.
LEMMA BeginMapped ==
  ASSUME RegistryInv, NEW t \in Task, NEW n \in Name, Register(t, n)
  PROVE  Pool!Begin(t, n)
<1>1. /\ phase[t] = "unborn" /\ phase'[t] = "created"
      /\ \A u \in Task \ {t} : phase'[u] = phase[u]
      /\ ~IsFull /\ n \notin ActiveNames
      /\ orderName' = [orderName EXCEPT ![t] = n]
      /\ cancelRequested' = cancelRequested
  BY DEF Register, Rejects, Unborn, RegistryInv, TypeOK
<1>2. States[t] = "unborn" /\ StateOf(t)' = "live"
  BY <1>1 DEF States, StateOf, Live
<1>3. States' = [States EXCEPT ![t] = "live"]
  BY <1>1, <1>2, StatesMove
<1>4. Cardinality(LiveTasks) < MaxWorkers
  BY <1>1, LiveHoldSlots, RegistryAssumption, FS_CardinalityType
     DEF IsFull, RegistryInv, SlotsBounded, RegistryAssumption
<1>5. {u \in Task : Pool!Live(u)} = LiveTasks
  BY PoolLive DEF LiveTasks
<1>6. ASSUME NEW u \in Task, Pool!Live(u) PROVE orderName[u] # n
  <2>1. u \in LiveTasks
    BY <1>6, PoolLive DEF LiveTasks
  <2>. QED
    BY <1>1, <2>1, RegistryAssumption
       DEF RegistryInv, RegistryMirrorsTasks, ActiveNames, RegistryAssumption, LiveTasks
<1>7. Stopped' = Stopped
  BY <1>1 DEF Stopped
<1>. QED
  BY <1>1, <1>2, <1>3, <1>4, <1>5, <1>6, <1>7, BeginMaps

\* Who does not wait has no outcome pending.
LEMMA NotWaitingIdle ==
  ASSUME PoolInv, NEW w \in Waiter, waiter[w].pc # "waiting"
  PROVE  Callers[w].got # "pending"
<1>1. waiter[w].pc \in {"idle", "returned"} /\ waiter[w].report \in Report
  BY DEF PoolInv, RegistryInv, TypeOK
<1>2. Seen(w).got # "pending"
  BY <1>1 DEF Seen, OwnOutcome, Report, Terminal
<1>. QED
  BY <1>2 DEF Callers

\* The conditions under which a caller of the pool returns.
LEMMA ReturnMaps ==
  ASSUME NEW w \in Waiter, NEW got,
         Callers[w].got = "pending", States[Callers[w].of] = "over",
         got \in Pool!Outcome(Callers[w].of),
         Callers' = [Callers EXCEPT ![w].got = got],
         UNCHANGED <<States, orderName, Stopped>>
  PROVE  Pool!Return(w)
BY DEF Pool!Return, States, StateOf, Stopped, Callers

\* A success that is handed out is that of a worker that nobody told to stop.
LEMMA OwnReport ==
  ASSUME PoolInv, NEW w \in Waiter, CanResume(w)
  PROVE  LET r == AwaitedReport(waiter[w].task) IN
         /\ r.status \in Terminal
         /\ r.status = "completed" =>
              r.run = waiter[w].task /\ ~cancelRequested[waiter[w].task]
<1>. DEFINE t == waiter[w].task
            stored == results[orderName[t]]
<1>1. t \in Task /\ orderName[t] \in Name
  BY DEF CanResume, Ended, PoolInv, RegistryInv, WaitersAwaitTasks, NamedTasks
<1>2. CASE stored = NoReport
  BY <1>2 DEF AwaitedReport, InterruptReport, NoResultReport, Terminal
<1>3. CASE stored # NoReport
  <2>1. AwaitedReport(t) = stored
    BY <1>3 DEF AwaitedReport
  <2>2. stored.status = "completed" => stored.run = t
    BY DEF PoolInv, ReportInv, AwaitedSuccessIsOwn
  <2>. QED
    BY <1>1, <1>3, <2>1, <2>2 DEF PoolInv, ReportsHonest
<1>. QED
  BY <1>2, <1>3

-----------------------------------------------------------------------------
(* The steps.                                                              *)

\* spawn is an order of the pool.
LEMMA OrderMapped ==
  ASSUME PoolInv, NEW n \in Name, SpawnWorker(n)
  PROVE  Pool!Next
<1>1. PICK t \in Task : Register(t, n) /\ waiter' = waiter
  BY DEF SpawnWorker
<1>2. Pool!Begin(t, n)
  BY <1>1, BeginMapped DEF PoolInv
<1>3. Callers' = Callers
  BY <1>1, CallersStay
<1>4. Pool!Order(t, n)
  BY <1>2, <1>3 DEF Pool!Order, Callers
<1>. QED
  BY <1>4 DEF Pool!Next

\* spawn_and_wait is an order of the pool whose caller waits.
LEMMA OrderAndWaitMapped ==
  ASSUME PoolInv, NEW w \in Waiter, NEW n \in Name, SpawnAndWait(w, n)
  PROVE  Pool!Next
<1>1. PICK t \in Task : Register(t, n) /\ Await(w, t) /\ waiter[w].pc # "waiting"
  BY DEF SpawnAndWait
<1>2. Pool!Begin(t, n)
  BY <1>1, BeginMapped DEF PoolInv
<1>3. /\ waiter'[w].pc = "waiting" /\ waiter'[w].task = t
      /\ \A v \in Waiter \ {w} : waiter'[v] = waiter[v]
  BY <1>1 DEF Await, PoolInv, RegistryInv, TypeOK
<1>4. Seen(w)' = [of |-> t, got |-> "pending"]
  BY <1>3 DEF Seen
<1>5. Callers' = [Callers EXCEPT ![w] = [of |-> t, got |-> "pending"]]
  BY <1>3, <1>4, CallersMove
<1>6. Callers[w].got # "pending"
  BY <1>1, NotWaitingIdle DEF PoolInv
<1>7. Pool!OrderAndWait(w, t, n)
  BY <1>2, <1>5, <1>6 DEF Pool!OrderAndWait, Pool!Idle, Callers
<1>. QED
  BY <1>7 DEF Pool!Next

\* A refused spawn_and_wait is a refusal of the pool.
LEMMA RefuseMapped ==
  ASSUME PoolInv, NEW w \in Waiter, NEW n \in Name, SpawnAndWaitRejected(w, n)
  PROVE  Pool!Next
<1>1. /\ waiter[w].pc # "waiting"
      /\ waiter'[w].pc = "returned" /\ waiter'[w].task = NoTask
      /\ waiter'[w].report = RejectedReport
      /\ \A v \in Waiter \ {w} : waiter'[v] = waiter[v]
      /\ UNCHANGED <<phase, orderName, cancelRequested>>
  BY DEF SpawnAndWaitRejected, PoolInv, RegistryInv, TypeOK
<1>2. Seen(w)' = [of |-> NoTask, got |-> "failed"]
  BY <1>1 DEF Seen, OwnOutcome, RejectedReport
<1>3. Callers' = [Callers EXCEPT ![w] = [of |-> NoTask, got |-> "failed"]]
  BY <1>1, <1>2, CallersMove
<1>4. Callers[w].got # "pending"
  BY <1>1, NotWaitingIdle DEF PoolInv
<1>5. States' = States /\ Stopped' = Stopped
  BY <1>1 DEF States, StateOf, Live, Stopped
<1>6. Pool!Refuse(w)
  BY <1>1, <1>3, <1>4, <1>5 DEF Pool!Refuse, Pool!Idle, Callers, States, StateOf, Stopped
<1>. QED
  BY <1>6 DEF Pool!Next

\* A wait that is over is a return of the pool.
LEMMA ReturnMapped ==
  ASSUME PoolInv, NEW w \in Waiter, WaiterResumes(w)
  PROVE  Pool!Next
<1>. DEFINE t == waiter[w].task
            r == AwaitedReport(t)
<1>1. /\ CanResume(w) /\ waiter[w].pc = "waiting" /\ t \in Task /\ Ended(t)
      /\ waiter'[w].pc = "returned" /\ waiter'[w].task = t /\ waiter'[w].report = r
      /\ \A v \in Waiter \ {w} : waiter'[v] = waiter[v]
      /\ UNCHANGED <<phase, orderName, cancelRequested>>
  BY DEF WaiterResumes, Return, CanResume, PoolInv, RegistryInv, TypeOK, WaitersAwaitTasks
<1>2. r.status \in Terminal /\ (r.status = "completed" => r.run = t /\ ~cancelRequested[t])
  BY <1>1, OwnReport
<1>. HIDE DEF r
<1>3. Seen(w) = [of |-> t, got |-> "pending"]
  BY <1>1 DEF Seen
<1>4. Seen(w)' = [of |-> t, got |-> r.status]
  BY <1>1, <1>2 DEF Seen, OwnOutcome
<1>5. Callers[w] = [of |-> t, got |-> "pending"]
  BY <1>3 DEF Callers
<1>6. Callers' = [Callers EXCEPT ![w].got = r.status]
  <2>1. [Callers[w] EXCEPT !.got = r.status] = [of |-> t, got |-> r.status]
    BY <1>5
  <2>2. Callers' = [Callers EXCEPT ![w] = [of |-> t, got |-> r.status]]
    BY <1>1, <1>4, CallersMove
  <2>. QED
    BY <2>1, <2>2
<1>7. States[t] = "over"
  BY <1>1 DEF States, StateOf, Ended, Live
<1>8. Callers[w].got = "pending" /\ Callers[w].of = t
  BY <1>5
<1>9. r.status \in Pool!Outcome(Callers[w].of)
  BY <1>2, <1>8 DEF Pool!Outcome, Terminal
<1>10. States' = States /\ Stopped' = Stopped
  BY <1>1 DEF States, StateOf, Live, Stopped
<1>11. Pool!Return(w)
  BY <1>1, <1>6, <1>7, <1>8, <1>9, <1>10, ReturnMaps
<1>. QED
  BY <1>11 DEF Pool!Next

\* A worker that ends, in whatever way, ends in the pool.
LEMMA EndMapped ==
  ASSUME PoolInv, NEW t \in Task, Live(t), Ended(t)',
         \A u \in Task \ {t} : phase'[u] = phase[u],
         UNCHANGED <<orderName, cancelRequested, waiter>>
  PROVE  Pool!Next
<1>1. StateOf(t)' = "over"
  BY DEF StateOf, Ended, Live
<1>2. States' = [States EXCEPT ![t] = "over"]
  BY <1>1, StatesMove
<1>3. Stopped' = Stopped /\ Callers' = Callers
  BY CallersStay DEF Stopped
<1>4. Pool!Live(t)
  BY PoolLive
<1>5. Pool!End(t)
  BY <1>2, <1>3, <1>4 DEF Pool!End, States, StateOf, Stopped, Callers
<1>. QED
  BY <1>5 DEF Pool!Next

\* A cancellation is a stop of the pool.
LEMMA StopMapped ==
  ASSUME PoolInv, NEW names \in SUBSET Name, CancelNames(names),
         UNCHANGED <<activeTasks, results, phase, orderName, waiter>>
  PROVE  Pool!Next
<1>0. PICK ts \in SUBSET Task :
        ts = {t \in Task : \E n \in names : Cancellable(n) /\ activeTasks[n] = t}
  OBVIOUS
<1>1. \A t \in ts : Live(t)
  BY <1>0 DEF Cancellable
<1>2. Stopped' = Stopped \cup ts
  BY <1>0 DEF CancelNames, Stopped, PoolInv, RegistryInv, TypeOK
<1>3. States' = States /\ Callers' = Callers
  BY CallersStay DEF States, StateOf, Live
<1>4. \A t \in ts : Pool!Live(t)
  BY <1>1, PoolLive
<1>5. Pool!Stop(ts)
  BY <1>2, <1>3, <1>4 DEF Pool!Stop, States, StateOf, Stopped, Callers
<1>. QED
  BY <1>5 DEF Pool!Next

\* What leaves the mapped state of every worker alone the pool does not see.
LEMMA StutterMapped ==
  ASSUME \A t \in Task : StateOf(t)' = StateOf(t), UNCHANGED <<orderName, cancelRequested, waiter>>
  PROVE  UNCHANGED Pool!poolVars
<1>1. States' = States /\ Stopped' = Stopped /\ Callers' = Callers
  BY CallersStay DEF States, Stopped
<1>. QED
  BY <1>1 DEF Pool!poolVars, States, StateOf, Stopped, Callers

\* Every step of the registry is one of the pool, or none.
LEMMA PoolNext == PoolInv /\ [Next]_registryVars => [Pool!Next]_(Pool!poolVars)
<1>. SUFFICES ASSUME PoolInv, [Next]_registryVars PROVE Pool!Next \/ UNCHANGED Pool!poolVars
  OBVIOUS
<1>1. ASSUME NEW n \in Name, SpawnWorker(n) PROVE Pool!Next
  BY <1>1, OrderMapped
<1>2. ASSUME NEW w \in Waiter, NEW n \in Name, SpawnAndWait(w, n) PROVE Pool!Next
  BY <1>2, OrderAndWaitMapped
<1>3. ASSUME NEW w \in Waiter, NEW n \in Name, SpawnAndWaitRejected(w, n) PROVE Pool!Next
  BY <1>3, RefuseMapped
<1>4. ASSUME NEW w \in Waiter, WaiterResumes(w) PROVE Pool!Next
  BY <1>4, ReturnMapped
<1>5. ASSUME NEW t \in Task, WorkerBegins(t) PROVE UNCHANGED Pool!poolVars
  <2>1. \A u \in Task : StateOf(u)' = StateOf(u)
    BY <1>5 DEF WorkerBegins, StateOf, Live, PoolInv, RegistryInv, TypeOK
  <2>. QED
    BY <1>5, <2>1, StutterMapped DEF WorkerBegins
<1>6. ASSUME NEW t \in Task,
             \/ WorkerDropped(t) \/ WorkerCompletes(t) \/ WorkerFails(t) \/ WorkerCancelled(t)
      PROVE  Pool!Next
  <2>1. /\ Live(t) /\ Ended(t)' /\ \A u \in Task \ {t} : phase'[u] = phase[u]
        /\ UNCHANGED <<orderName, cancelRequested, waiter>>
    BY <1>6 DEF WorkerDropped, WorkerCompletes, WorkerFails, WorkerCancelled, Deregister,
                Live, Ended, PoolInv, RegistryInv, TypeOK
  <2>. QED
    BY <2>1, EndMapped
<1>7. ASSUME NEW n \in Name, CancelWorker(n) PROVE Pool!Next
  BY <1>7, StopMapped DEF CancelWorker
<1>8. ASSUME CancelAll PROVE Pool!Next
  BY <1>8, StopMapped DEF CancelAll, ActiveNames
<1>9. ASSUME UNCHANGED registryVars PROVE UNCHANGED Pool!poolVars
  <2>1. \A u \in Task : StateOf(u)' = StateOf(u)
    BY <1>9 DEF registryVars, StateOf, Live
  <2>. QED
    BY <1>9, <2>1, StutterMapped DEF registryVars
<1>. QED
  BY <1>1, <1>2, <1>3, <1>4, <1>5, <1>6, <1>7, <1>8, <1>9 DEF Next, WorkerStep

\* The registry does what the pool promises (registry.py, spawn_worker, spawn_worker_and_wait,
\* _run_worker_task, cancel_worker): no more than MaxWorkers workers, one per name; a worker
\* that was told to stop has no success; a caller gets the outcome of its own worker, and
\* only once that worker has ended.
THEOREM RegistryImplementsPool == Spec => Pool!Safety
<1>1. Pool!Safety <=> Pool!Init /\ [][Pool!Next]_(Pool!poolVars)
  BY DEF Pool!Safety
<1>. QED
  BY <1>1, PoolInit, PoolNext, PoolInvariant, PTL DEF Spec
=============================================================================
