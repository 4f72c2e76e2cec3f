----------------------------- MODULE CronService -----------------------------
(***************************************************************************)
(* Scheduled jobs: hive/cron/service.py inside the gateway, the cron tool  *)
(* through which turns edit the jobs (agent/tools/cron.py), and the        *)
(* "hive cron" commands (cli/commands.py), which are processes of their    *)
(* own on the same jobs.json.                                              *)
(*                                                                         *)
(* The gateway reads jobs.json when it starts and works on its own copy    *)
(* from then on. One timer task sleeps until the earliest run and then     *)
(* executes the due jobs one after the other, each a turn of the agent.    *)
(* Arming the timer cancels the task that is there, and _execute_job does  *)
(* not catch CancelledError: the task, its job's turn and the rest of the  *)
(* due jobs are gone.                                                      *)
(***************************************************************************)
EXTENDS Naturals, FiniteSetsExt

CONSTANTS
  JobId,     \* the ids of the jobs ever added
  Schedule,  \* the schedules asked for: [kind, t, once], see Kinds
  NoJob,     \* no job under that id
  MaxTime,   \* bound: the clock
  MaxEdits   \* bound: additions, removals, commands and restarts

\* "at" the time t, "every" t, or by a "cron" expression that matches each multiple
\* of t. once is delete_after_run, which the cron tool sets for "at".
Kinds == {"at", "every", "cron"}

ASSUME CronAssumption ==
  /\ Schedule \subseteq [kind : Kinds, t : Nat \ {0}, once : BOOLEAN]
  /\ NoJob \notin [schedule : Schedule, enabled : BOOLEAN, next : Nat]
  /\ IsFiniteSet(JobId)
  /\ MaxTime \in Nat \ {0}
  /\ MaxEdits \in Nat

VARIABLES
  now,      \* _now_ms()
  up,       \* the gateway runs, and with it _running
  jobs,     \* _store.jobs of the gateway
  file,     \* jobs.json
  timer,    \* _timer_task
  edits,    \* the edits so far
  added,    \* the ids given out
  begun,    \* history: how often each one-time job was begun; 2 for more
  lastEnd   \* history: when each job last came to its end; 0 for never

vars == <<now, up, jobs, file, timer, edits, added, begun, lastEnd>>

-----------------------------------------------------------------------------
Never == 0      \* next_run_at_ms is None

Job == [schedule : Schedule, enabled : BOOLEAN, next : Nat]

\* _timer_task sleeps until wake, or executes job with the jobs of due to follow.
NoTimer == [pc |-> "none", wake |-> Never, job |-> NoJob, due |-> {}]

Asleep(wake) == [pc |-> "asleep", wake |-> wake, job |-> NoJob, due |-> {}]

Executing(j, due) == [pc |-> "executing", wake |-> Never, job |-> j, due |-> due]

TypeOK ==
  /\ now \in 1..MaxTime
  /\ up \in BOOLEAN
  /\ jobs \in [JobId -> Job \cup {NoJob}]
  /\ file \in [JobId -> Job \cup {NoJob}]
  /\ timer.pc \in {"none", "asleep", "executing"}
  /\ timer.wake \in Nat
  /\ timer.job \in JobId \cup {NoJob}
  /\ timer.due \subseteq JobId
  /\ edits \in 0..MaxEdits
  /\ added \subseteq JobId
  /\ begun \in [JobId -> 0..2]
  /\ lastEnd \in [JobId -> 0..MaxTime]

NoJobs == [j \in JobId |-> NoJob]

Init ==
  /\ now = 1
  /\ up = FALSE
  /\ jobs = NoJobs
  /\ file = NoJobs
  /\ timer = NoTimer
  /\ edits = 0
  /\ added = {}
  /\ begun = [j \in JobId |-> 0]
  /\ lastEnd = [j \in JobId |-> 0]

-----------------------------------------------------------------------------
(* Schedules.                                                              *)

NextMatch(t) == (now \div t + 1) * t

\* Mutant: a one-time job whose moment has passed is due at once.
BugComputeNextRun(s) ==
  IF s.kind = "at" THEN s.t
  ELSE IF s.kind = "every" THEN now + s.t ELSE NextMatch(s.t)

\* Mutant: the interval is taken off.
BugComputeLastRun(s) ==
  IF s.kind = "at" THEN (IF s.t > now THEN s.t ELSE Never)
  ELSE IF s.kind = "every" THEN now - s.t ELSE NextMatch(s.t)

ComputeNextRun(s) ==
  IF s.kind = "at" THEN (IF s.t > now THEN s.t ELSE Never)
  ELSE IF s.kind = "every" THEN now + s.t ELSE NextMatch(s.t)

NewJob(s) == [schedule |-> s, enabled |-> TRUE, next |-> ComputeNextRun(s)]

OneTimeExecuted(job) ==
  IF job.schedule.once THEN NoJob ELSE [job EXCEPT !.enabled = FALSE, !.next = Never]

\* Mutant: the next run is counted from the run that was due, not from its end.
BugExecuted(job) ==
  IF job.schedule.kind = "at" THEN OneTimeExecuted(job)
  ELSE [job EXCEPT !.next = @ + job.schedule.t]

\* What _execute_job leaves of a job, whether its turn succeeded or raised.
Executed(job) ==
  IF job.schedule.kind = "at" THEN OneTimeExecuted(job)
  ELSE [job EXCEPT !.next = ComputeNextRun(job.schedule)]

Enabled(store) == {j \in JobId : store[j] # NoJob /\ store[j].enabled}

Recomputed(store) ==
  [j \in JobId |-> IF j \in Enabled(store)
                   THEN [store[j] EXCEPT !.next = ComputeNextRun(store[j].schedule)]
                   ELSE store[j]]

Scheduled(store) == {j \in Enabled(store) : store[j].next # Never}

DueJobs(store) == {j \in Scheduled(store) : store[j].next <= now}

\* Mutant: the timer is set to the latest run.
BugNextWake(store) == Max({store[j].next : j \in Scheduled(store)})

NextWake(store) == Min({store[j].next : j \in Scheduled(store)})

-----------------------------------------------------------------------------
(* The timer.                                                              *)

\* Mutant: the timer is left alone while it executes jobs.
BugArmed(store) ==
  IF timer.pc = "executing" THEN timer
  ELSE IF Scheduled(store) = {} THEN NoTimer ELSE Asleep(NextWake(store))

\* _arm_timer: whatever the timer task was doing is over.
Armed(store) == IF Scheduled(store) = {} THEN NoTimer ELSE Asleep(NextWake(store))

\* The turn of job j begins.
Begins(j) ==
  begun' = IF jobs[j].schedule.kind = "at" /\ begun[j] < 2
           THEN [begun EXCEPT ![j] = @ + 1] ELSE begun

TimerFires(j) ==
  /\ timer.pc = "asleep"
  /\ timer.wake <= now
  /\ j \in DueJobs(jobs)
  /\ timer' = Executing(j, DueJobs(jobs) \ {j})
  /\ Begins(j)
  /\ UNCHANGED <<now, up, jobs, file, edits, added, lastEnd>>

\* Mutant: the end of a tick does not arm the timer again.
BugTickEnds(store) == file' = store /\ timer' = NoTimer /\ UNCHANGED begun

\* The last due job is done: _on_timer saves and arms the timer.
TickEnds(store) == file' = store /\ timer' = Armed(store) /\ UNCHANGED begun

JobEnds ==
  /\ timer.pc = "executing"
  /\ LET j == timer.job
     IN  /\ jobs' = [jobs EXCEPT ![j] = Executed(@)]
         /\ lastEnd' = [lastEnd EXCEPT ![j] = now]
  /\ \/ timer.due = {} /\ TickEnds(jobs')
     \/ \E k \in timer.due :
          /\ timer' = Executing(k, timer.due \ {k})
          /\ Begins(k)
          /\ UNCHANGED file
  /\ UNCHANGED <<now, up, edits, added>>

-----------------------------------------------------------------------------
(* Edits inside the gateway: a turn, also that of a job, uses the tool.    *)

Edit == edits < MaxEdits /\ edits' = edits + 1

SaveAndArm(store) ==
  /\ jobs' = store
  /\ file' = store
  /\ timer' = Armed(store)

AddJob(j, s) ==
  /\ up
  /\ Edit
  /\ j \notin added
  /\ s.once <=> s.kind = "at"
  /\ added' = added \cup {j}
  /\ SaveAndArm([jobs EXCEPT ![j] = NewJob(s)])
  /\ UNCHANGED <<now, up, begun, lastEnd>>

RemoveJob(j) ==
  /\ up
  /\ Edit
  /\ jobs[j] # NoJob
  /\ SaveAndArm([jobs EXCEPT ![j] = NoJob])
  /\ UNCHANGED <<now, up, added, begun, lastEnd>>

-----------------------------------------------------------------------------
(* The gateway starts, and stops or dies.                                  *)

Start ==
  /\ ~up
  /\ up' = TRUE
  /\ SaveAndArm(Recomputed(file))
  /\ UNCHANGED <<now, edits, added, begun, lastEnd>>

Stop ==
  /\ up
  /\ Edit
  /\ up' = FALSE
  /\ jobs' = NoJobs
  /\ timer' = NoTimer
  /\ UNCHANGED <<now, file, added, begun, lastEnd>>

-----------------------------------------------------------------------------
(* The commands. Each loads jobs.json, edits it and writes it back; their  *)
(* service is not running, so no timer is armed, and has no on_job.        *)

Command == Edit /\ UNCHANGED <<now, up, jobs, timer, begun, lastEnd>>

CliAdd(j, s) ==
  /\ Command
  /\ j \notin added
  /\ ~s.once
  /\ added' = added \cup {j}
  /\ file' = [file EXCEPT ![j] = NewJob(s)]

CliRemove(j) ==
  /\ Command
  /\ file[j] # NoJob
  /\ file' = [file EXCEPT ![j] = NoJob]
  /\ UNCHANGED added

CliEnable(j, enabled) ==
  /\ Command
  /\ file[j] # NoJob
  /\ file' = [file EXCEPT ![j].enabled = enabled,
                          ![j].next = IF enabled THEN ComputeNextRun(file[j].schedule) ELSE Never]
  /\ UNCHANGED added

\* "hive cron run" [--force]: without on_job the job is marked as run.
CliRun(j, force) ==
  /\ Command
  /\ file[j] # NoJob
  /\ force \/ file[j].enabled
  /\ file' = [file EXCEPT ![j] = Executed(@)]
  /\ UNCHANGED added

-----------------------------------------------------------------------------
TimePasses ==
  /\ now < MaxTime
  /\ now' = now + 1
  /\ UNCHANGED <<up, jobs, file, timer, edits, added, begun, lastEnd>>

CliStep(j) ==
  \/ \E s \in Schedule : CliAdd(j, s)
  \/ CliRemove(j)
  \/ \E enabled \in BOOLEAN : CliEnable(j, enabled)
  \/ \E force \in BOOLEAN : CliRun(j, force)

Ticks == JobEnds \/ \E j \in JobId : TimerFires(j)

Next ==
  \/ Ticks
  \/ \E j \in JobId, s \in Schedule : AddJob(j, s)
  \/ \E j \in JobId : RemoveJob(j)
  \/ Start
  \/ Stop
  \/ \E j \in JobId : CliStep(j)
  \/ TimePasses

Spec == Init /\ [][Next]_vars

\* A due timer is served and a job's turn ends (max_iterations).
FairSpec == Spec /\ WF_vars(Ticks)

-----------------------------------------------------------------------------
(* Safety.                                                                 *)

\* A running gateway with a job to come is never without its timer, and the timer
\* is set to the earliest run, whatever was added, removed or executed since.
TimerArmed ==
  up /\ Scheduled(jobs) # {} =>
    \/ timer.pc = "executing"
    \/ /\ timer.pc = "asleep"
       /\ \E j \in Scheduled(jobs) : timer.wake = jobs[j].next
       /\ \A j \in Scheduled(jobs) : timer.wake <= jobs[j].next

\* The due jobs are listed once per tick and executed one by one, each for as long
\* as a turn takes. A job that is executed or waits in the list is still wanted:
\* it has not been removed, rescheduled or dropped with a stopped gateway.
ExecutionsWanted ==
  timer.pc = "executing" => up /\ {timer.job} \cup timer.due \subseteq DueJobs(jobs)

\* A repeated job is not executed in a burst to catch up after long turns or a
\* downtime: its next run is an interval after the end of the last.
RunsSpaced ==
  \A j \in Scheduled(jobs) :
    jobs[j].schedule.kind = "every" /\ lastEnd[j] # 0
      => jobs[j].next >= lastEnd[j] + jobs[j].schedule.t

\* A one-time job comes to its end once, also when the gateway dies before the tick
\* has saved that it did, or a command writes an older state of it back.
OneTimeEndsOnce ==
  [][\A j \in JobId :
       lastEnd'[j] # lastEnd[j] /\ jobs[j].schedule.kind = "at" => lastEnd[j] = 0]_vars

-----------------------------------------------------------------------------
(* Liveness.                                                               *)

\* A due job is not overlooked: it comes to its end, unless it is removed or the
\* gateway stops, although every edit of another job interrupts and re-arms the
\* timer. The edits are finitely many.
DueJobsRun == \A j \in JobId : j \in DueJobs(jobs) ~> j \notin DueJobs(jobs)

-----------------------------------------------------------------------------
(* What the documents say and the code does not do.                        *)

\* skills/cron/SKILL.md:14: a one-time job "runs once at a specific time".
OneTimeRunsOnce == \A j \in JobId : begun[j] <= 1

\* cli/commands.py:959 and 993: "hive cron add" adds a scheduled job. A job that was
\* added leaves jobs.json only by a command, or together with the gateway's copy.
AddedJobsStay ==
  [][\A j \in JobId :
       file[j] # NoJob /\ file'[j] = NoJob =>
         CliStep(j) \/ (jobs[j] # NoJob /\ jobs'[j] = NoJob)]_vars
=============================================================================
