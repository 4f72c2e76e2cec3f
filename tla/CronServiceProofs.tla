-------------------------- MODULE CronServiceProofs --------------------------
(***************************************************************************)
(* Proofs about CronService, for every set of jobs and schedules and every *)
(* bound: the timer of a running gateway is armed for the earliest run,    *)
(* what it executes is still wanted, repeated jobs are not run in a burst, *)
(* and a one-time job comes to its end once.                               *)
(***************************************************************************)
EXTENDS CronService, WellFoundedInduction, TLAPS

\* jobs and file.
Store == [JobId -> Job \cup {NoJob}]

Timer == [pc : {"none", "asleep", "executing"}, wake : Nat,
          job : JobId \cup {NoJob}, due : SUBSET JobId]

\* Only a running gateway has a timer, and the job in execution has left the list.
TimerSound ==
  /\ timer \in Timer
  /\ timer.pc # "none" => up
  /\ timer.pc = "executing" => timer.job \in JobId \ timer.due

EndsArePast == \A j \in JobId : lastEnd[j] <= now

\* An id is given out once, so the gateway's copy and jobs.json, however far they
\* have drifted apart, never hold two schedules under one id.
IdsUnique ==
  \A j \in JobId :
    /\ jobs[j] # NoJob \/ file[j] # NoJob \/ lastEnd[j] # 0 => j \in added
    /\ jobs[j] # NoJob /\ file[j] # NoJob => jobs[j].schedule = file[j].schedule

\* A scheduled one-time job has not ended, and waits for its own moment.
OneTimePending ==
  \A j \in Scheduled(jobs) :
    jobs[j].schedule.kind = "at" => lastEnd[j] = 0 /\ jobs[j].next = jobs[j].schedule.t

\* The moment of a one-time job that has ended is past, so nothing that is loaded
\* from jobs.json schedules it again.
Elapsed(job) == job # NoJob /\ job.schedule.kind = "at" => job.schedule.t <= now

EndedAreElapsed ==
  \A j \in JobId : lastEnd[j] # 0 => Elapsed(jobs[j]) /\ Elapsed(file[j])

CronInv ==
  /\ TypeOK
  /\ TimerSound
  /\ TimerArmed
  /\ ExecutionsWanted
  /\ EndsArePast
  /\ RunsSpaced
  /\ IdsUnique
  /\ OneTimePending
  /\ EndedAreElapsed

-----------------------------------------------------------------------------
(* Schedules and stores.                                                   *)

\* A set of times has an earliest one.
LEMMA MinOfNats ==
  ASSUME NEW S, S \subseteq Nat, S # {}
  PROVE  Min(S) \in S /\ \A y \in S : Min(S) <= y
<1>. DEFINE R == OpToRel(<, Nat)
<1>1. PICK x \in S : \A y \in S : <<y, x>> \notin R
  BY WFMin, NatLessThanWellFounded, Zenon
<1>2. \A y \in S : ~(y < x)
  BY <1>1, Zenon DEF OpToRel
<1>3. \A y \in S : x <= y
  BY <1>2
<1>. QED
  BY <1>3, Zenon DEF Min

\* compute_next_run: later than now, or never for a one-time job whose moment is past.
LEMMA NextRun ==
  ASSUME NEW s \in Schedule, now \in Nat
  PROVE  /\ ComputeNextRun(s) \in Nat
         /\ s.kind = "at" =>
              ComputeNextRun(s) = Never \/ (s.t > now /\ ComputeNextRun(s) = s.t)
         /\ s.kind = "every" => ComputeNextRun(s) = now + s.t
<1>1. s.kind \in Kinds /\ s.t \in Nat \ {0}
  BY CronAssumption
<1>2. NextMatch(s.t) \in Nat
  BY <1>1 DEF NextMatch
<1>. QED
  BY <1>1, <1>2 DEF ComputeNextRun, Never

\* What add_job makes of a schedule.
LEMMA NewJobSound ==
  ASSUME NEW s \in Schedule, now \in Nat
  PROVE  /\ NewJob(s) \in Job /\ NewJob(s).schedule = s
         /\ NewJob(s).enabled /\ NewJob(s).next = ComputeNextRun(s)
BY NextRun DEF NewJob, Job

\* A job that was executed keeps its schedule or is gone, and a one-time job is not
\* scheduled any more.
LEMMA ExecutedSound ==
  ASSUME NEW job \in Job, now \in Nat
  PROVE  \/ Executed(job) = NoJob
         \/ /\ Executed(job) \in Job
            /\ Executed(job).schedule = job.schedule
            /\ IF job.schedule.kind = "at" THEN ~Executed(job).enabled
               ELSE Executed(job).next = ComputeNextRun(job.schedule)
<1>1. job.schedule \in Schedule
  BY DEF Job
<1>2. CASE job.schedule.kind = "at"
  BY <1>1, <1>2 DEF Executed, OneTimeExecuted, Job, Never
<1>3. CASE job.schedule.kind # "at"
  BY <1>1, <1>3, NextRun DEF Executed, Job
<1>. QED
  BY <1>2, <1>3

\* What _recompute_next_runs keeps of a store, and what it makes due.
LEMMA RecomputedSound ==
  ASSUME NEW store \in Store, now \in Nat
  PROVE  /\ Recomputed(store) \in Store
         /\ \A j \in JobId :
              /\ Recomputed(store)[j] = NoJob <=> store[j] = NoJob
              /\ store[j] # NoJob => Recomputed(store)[j].schedule = store[j].schedule
              /\ j \in Enabled(Recomputed(store)) =>
                   Recomputed(store)[j].next = ComputeNextRun(store[j].schedule)
<1>. DEFINE new == Recomputed(store)
<1>1. ASSUME NEW j \in JobId
      PROVE  /\ new[j] \in Job \cup {NoJob}
             /\ new[j] = NoJob <=> store[j] = NoJob
             /\ store[j] # NoJob => new[j].schedule = store[j].schedule
             /\ j \in Enabled(new) => new[j].next = ComputeNextRun(store[j].schedule)
  <2>1. CASE j \in Enabled(store)
    <3>. DEFINE job == [store[j] EXCEPT !.next = ComputeNextRun(store[j].schedule)]
    <3>1. store[j] \in Job /\ store[j].schedule \in Schedule
      BY <2>1 DEF Store, Enabled, Job
    <3>2. /\ job \in Job /\ job.schedule = store[j].schedule
          /\ job.next = ComputeNextRun(store[j].schedule)
      BY <3>1, NextRun DEF Job
    <3>3. new[j] = job /\ job # NoJob
      BY <2>1, <3>2, CronAssumption DEF Recomputed, Job
    <3>. HIDE DEF job
    <3>. QED
      BY <2>1, <3>2, <3>3 DEF Enabled
  <2>2. CASE j \notin Enabled(store)
    <3>1. new[j] = store[j]
      BY <2>2 DEF Recomputed
    <3>. HIDE DEF new
    <3>. QED
      BY <2>2, <3>1 DEF Enabled, Store
  <2>. QED
    BY <2>1, <2>2
<1>2. new = [j \in JobId |-> new[j]]
  BY DEF Recomputed
<1>3. new \in [JobId -> Job \cup {NoJob}]
  BY <1>1, <1>2
<1>. QED
  BY <1>1, <1>3 DEF Store

\* _arm_timer: the timer sleeps until the earliest run there is.
LEMMA ArmedSound ==
  ASSUME NEW store \in Store
  PROVE  /\ Armed(store) \in Timer /\ Armed(store).pc \in {"none", "asleep"}
         /\ Scheduled(store) # {} =>
              /\ Armed(store).pc = "asleep"
              /\ \E j \in Scheduled(store) : Armed(store).wake = store[j].next
              /\ \A j \in Scheduled(store) : Armed(store).wake <= store[j].next
<1>1. CASE Scheduled(store) = {}
  BY <1>1 DEF Armed, NoTimer, Timer, Never
<1>2. CASE Scheduled(store) # {}
  <2>. DEFINE S == {store[j].next : j \in Scheduled(store)}
  <2>1. S \subseteq Nat /\ S # {}
    BY <1>2 DEF Scheduled, Enabled, Store, Job
  <2>2. NextWake(store) \in S /\ \A y \in S : NextWake(store) <= y
    <3>. HIDE DEF S
    <3>1. Min(S) \in S /\ \A y \in S : Min(S) <= y
      BY <2>1, MinOfNats
    <3>2. NextWake(store) = Min(S)
      BY DEF NextWake, S
    <3>. QED
      BY <3>1, <3>2
  <2>3. Armed(store) = [pc |-> "asleep", wake |-> NextWake(store), job |-> NoJob, due |-> {}]
    BY <1>2 DEF Armed, Asleep
  <2>. QED
    BY <1>2, <2>1, <2>2, <2>3 DEF Timer
<1>. QED
  BY <1>1, <1>2

-----------------------------------------------------------------------------
(* The invariant.                                                          *)

\* What the gateway's copy must be for its timer to be armed from it, when the jobs
\* ended as ends says and known are the ids given out.
CopySound(store, ends, known) ==
  /\ store \in Store
  /\ \A j \in JobId :
       /\ store[j] # NoJob => j \in known
       /\ ends[j] # 0 => Elapsed(store[j])
  /\ \A j \in Scheduled(store) :
       /\ store[j].schedule.kind = "at" => ends[j] = 0 /\ store[j].next = store[j].schedule.t
       /\ store[j].schedule.kind = "every" /\ ends[j] # 0
            => store[j].next >= ends[j] + store[j].schedule.t

EndsSound(ends, known) ==
  /\ ends \in [JobId -> 0..MaxTime]
  /\ \A j \in JobId : ends[j] <= now /\ (ends[j] # 0 => j \in known)

\* The copy of a state that satisfies the invariant is sound.
LEMMA CopyIsSound ==
  CronInv => CopySound(jobs, lastEnd, added) /\ EndsSound(lastEnd, added)
<1>. SUFFICES ASSUME CronInv PROVE CopySound(jobs, lastEnd, added) /\ EndsSound(lastEnd, added)
  OBVIOUS
<1>1. jobs \in Store /\ lastEnd \in [JobId -> 0..MaxTime]
  BY DEF CronInv, TypeOK, Store
<1>2. EndsSound(lastEnd, added)
  BY <1>1 DEF CronInv, EndsArePast, IdsUnique, EndsSound
<1>3. \A j \in JobId : /\ jobs[j] # NoJob => j \in added
                       /\ lastEnd[j] # 0 => Elapsed(jobs[j])
  BY DEF CronInv, IdsUnique, EndedAreElapsed
<1>4. \A j \in Scheduled(jobs) :
        /\ jobs[j].schedule.kind = "at" => lastEnd[j] = 0 /\ jobs[j].next = jobs[j].schedule.t
        /\ jobs[j].schedule.kind = "every" /\ lastEnd[j] # 0
             => jobs[j].next >= lastEnd[j] + jobs[j].schedule.t
  BY DEF CronInv, OneTimePending, RunsSpaced
<1>. QED
  BY <1>1, <1>2, <1>3, <1>4 DEF CopySound

\* A step that saves a sound copy and arms the timer from it.
LEMMA SavedAndArmed ==
  ASSUME CronInv, NEW store, NEW ends, NEW known, SaveAndArm(store), lastEnd' = ends,
         added' = known, known \subseteq JobId, up' = TRUE, UNCHANGED <<now, begun>>,
         edits' \in 0..MaxEdits, CopySound(store, ends, known), EndsSound(ends, known)
  PROVE  CronInv'
<1>1. /\ jobs' = store /\ file' = store /\ store \in Store /\ timer' = Armed(store)
      /\ now \in 1..MaxTime /\ begun \in [JobId -> 0..2] /\ ends \in [JobId -> 0..MaxTime]
  BY DEF CronInv, TypeOK, SaveAndArm, CopySound, EndsSound
<1>2. /\ timer' \in Timer /\ timer'.pc \in {"none", "asleep"}
      /\ Scheduled(store) # {} =>
           /\ timer'.pc = "asleep"
           /\ \E j \in Scheduled(store) : timer'.wake = store[j].next
           /\ \A j \in Scheduled(store) : timer'.wake <= store[j].next
  BY <1>1, ArmedSound
<1>3. TypeOK'
  BY <1>1, <1>2 DEF TypeOK, Store, Timer
<1>4. TimerSound' /\ ExecutionsWanted'
  BY <1>2 DEF TimerSound, ExecutionsWanted, Timer
<1>5. TimerArmed'
  BY <1>1, <1>2 DEF TimerArmed, Scheduled, Enabled
<1>6. EndsArePast' /\ IdsUnique'
  BY <1>1 DEF EndsArePast, IdsUnique, EndsSound, CopySound
<1>7. RunsSpaced' /\ OneTimePending'
  BY <1>1 DEF RunsSpaced, OneTimePending, CopySound, Scheduled, Enabled
<1>8. EndedAreElapsed'
  BY <1>1 DEF EndedAreElapsed, Elapsed, CopySound
<1>. QED
  BY <1>3, <1>4, <1>5, <1>6, <1>7, <1>8 DEF CronInv

\* A job is added by the gateway.
LEMMA AddSound ==
  ASSUME CronInv, NEW i \in JobId, NEW s \in Schedule, AddJob(i, s) PROVE CronInv'
<1>. DEFINE store == [jobs EXCEPT ![i] = NewJob(s)]
            known == added \cup {i}
<1>1. now \in Nat /\ CopySound(jobs, lastEnd, added) /\ EndsSound(lastEnd, added)
  BY CopyIsSound DEF CronInv, TypeOK
<1>2. /\ i \notin added /\ SaveAndArm(store) /\ lastEnd' = lastEnd /\ added' = known
      /\ known \subseteq JobId /\ up' = TRUE /\ UNCHANGED <<now, begun>> /\ edits' \in 0..MaxEdits
  BY CronAssumption DEF AddJob, Edit, CronInv, TypeOK
<1>3. /\ lastEnd \in [JobId -> 0..MaxTime] /\ lastEnd[i] = 0
      /\ \A j \in JobId : lastEnd[j] <= now
  BY <1>1, <1>2 DEF EndsSound
<1>4. /\ NewJob(s) \in Job /\ NewJob(s) # NoJob /\ NewJob(s).schedule = s
      /\ NewJob(s).next = ComputeNextRun(s)
  BY <1>1, NewJobSound, CronAssumption DEF Job
<1>5. store \in Store /\ store[i] = NewJob(s) /\ \A j \in JobId \ {i} : store[j] = jobs[j]
  BY <1>1, <1>4 DEF CopySound, Store
<1>. HIDE DEF store
<1>6. ASSUME NEW j \in JobId PROVE /\ store[j] # NoJob => j \in known
                                   /\ lastEnd[j] # 0 => Elapsed(store[j])
  BY <1>1, <1>3, <1>5 DEF CopySound
<1>7. ASSUME NEW j \in Scheduled(store)
      PROVE  /\ store[j].schedule.kind = "at" =>
                  lastEnd[j] = 0 /\ store[j].next = store[j].schedule.t
             /\ store[j].schedule.kind = "every" /\ lastEnd[j] # 0
                  => store[j].next >= lastEnd[j] + store[j].schedule.t
  <2>1. CASE j = i
    BY <1>1, <1>3, <1>4, <1>5, <2>1, NextRun DEF Scheduled
  <2>2. CASE j # i
    BY <1>1, <1>5, <2>2 DEF CopySound, Scheduled, Enabled
  <2>. QED
    BY <2>1, <2>2
<1>8. CopySound(store, lastEnd, known)
  BY <1>5, <1>6, <1>7 DEF CopySound
<1>9. EndsSound(lastEnd, known)
  BY <1>1 DEF EndsSound
<1>. HIDE DEF known
<1>. QED
  BY <1>2, <1>8, <1>9, SavedAndArmed

\* A job is removed by the gateway.
LEMMA RemoveSound ==
  ASSUME CronInv, NEW i \in JobId, RemoveJob(i) PROVE CronInv'
<1>. DEFINE store == [jobs EXCEPT ![i] = NoJob]
<1>1. CopySound(jobs, lastEnd, added) /\ EndsSound(lastEnd, added) /\ added \subseteq JobId
  BY CopyIsSound DEF CronInv, TypeOK
<1>2. /\ SaveAndArm(store) /\ lastEnd' = lastEnd /\ added' = added
      /\ up' = TRUE /\ UNCHANGED <<now, begun>> /\ edits' \in 0..MaxEdits
  BY CronAssumption DEF RemoveJob, Edit, CronInv, TypeOK
<1>3. store \in Store /\ store[i] = NoJob /\ \A j \in JobId \ {i} : store[j] = jobs[j]
  BY <1>1 DEF CopySound, Store
<1>. HIDE DEF store
<1>4. CopySound(store, lastEnd, added)
  BY <1>1, <1>3 DEF CopySound, Scheduled, Enabled, Elapsed
<1>. QED
  BY <1>1, <1>2, <1>4, SavedAndArmed

\* A start loads jobs.json and computes every next run anew.
LEMMA StartSound ==
  ASSUME CronInv, Start PROVE CronInv'
<1>. DEFINE store == Recomputed(file)
<1>1. EndsSound(lastEnd, added) /\ added \subseteq JobId /\ now \in Nat /\ file \in Store
  BY CopyIsSound DEF CronInv, TypeOK, Store
<1>2. /\ SaveAndArm(store) /\ lastEnd' = lastEnd /\ added' = added
      /\ up' = TRUE /\ UNCHANGED <<now, begun>> /\ edits' \in 0..MaxEdits
  BY DEF Start, CronInv, TypeOK
<1>3. /\ store \in Store
      /\ \A j \in JobId :
           /\ store[j] = NoJob <=> file[j] = NoJob
           /\ file[j] # NoJob => store[j].schedule = file[j].schedule
           /\ j \in Enabled(store) => store[j].next = ComputeNextRun(file[j].schedule)
  BY <1>1, RecomputedSound
<1>. HIDE DEF store
<1>4. ASSUME NEW j \in JobId PROVE /\ store[j] # NoJob => j \in added
                                   /\ lastEnd[j] # 0 => Elapsed(store[j])
  BY <1>3 DEF CronInv, IdsUnique, EndedAreElapsed, Elapsed
<1>5. ASSUME NEW j \in Scheduled(store)
      PROVE  /\ store[j].schedule.kind = "at" =>
                  lastEnd[j] = 0 /\ store[j].next = store[j].schedule.t
             /\ store[j].schedule.kind = "every" /\ lastEnd[j] # 0
                  => store[j].next >= lastEnd[j] + store[j].schedule.t
  <2>1. /\ j \in JobId /\ store[j] # NoJob /\ store[j].next # Never
        /\ store[j].next = ComputeNextRun(file[j].schedule)
        /\ store[j].schedule = file[j].schedule /\ file[j] \in Job
    BY <1>1, <1>3 DEF Scheduled, Enabled, Store
  <2>2. file[j].schedule \in Schedule /\ file[j].schedule.t \in Nat
    BY <2>1, CronAssumption DEF Job
  <2>3. /\ lastEnd[j] \in Nat /\ lastEnd[j] <= now
        /\ lastEnd[j] # 0 => Elapsed(store[j])
    BY <1>1, <1>4, <2>1 DEF EndsSound
  <2>. QED
    BY <1>1, <2>1, <2>2, <2>3, NextRun DEF Elapsed
<1>6. CopySound(store, lastEnd, added)
  BY <1>3, <1>4, <1>5 DEF CopySound
<1>. QED
  BY <1>1, <1>2, <1>6, SavedAndArmed

\* A tick begins: everything it lists is due.
LEMMA TimerFiresSound ==
  ASSUME CronInv, NEW i \in JobId, TimerFires(i) PROVE CronInv'
<1>1. /\ timer' = [pc |-> "executing", wake |-> Never, job |-> i, due |-> DueJobs(jobs) \ {i}]
      /\ i \in DueJobs(jobs) /\ DueJobs(jobs) \subseteq JobId /\ up
      /\ UNCHANGED <<now, up, jobs, file, edits, added, lastEnd>>
  BY DEF TimerFires, Executing, DueJobs, Scheduled, Enabled, CronInv, TimerSound
<1>2. begun' \in [JobId -> 0..2]
  BY DEF TimerFires, Begins, CronInv, TypeOK
<1>3. timer' \in Timer /\ timer'.pc = "executing" /\ timer'.job = i
      /\ timer'.due = DueJobs(jobs) \ {i}
  BY <1>1 DEF Timer, Never
<1>4. TypeOK'
  BY <1>1, <1>2, <1>3 DEF CronInv, TypeOK, Timer
<1>5. TimerSound' /\ TimerArmed'
  BY <1>1, <1>3 DEF TimerSound, TimerArmed
<1>6. ExecutionsWanted'
  BY <1>1, <1>3 DEF ExecutionsWanted, DueJobs, Scheduled, Enabled
<1>7. EndsArePast' /\ IdsUnique' /\ EndedAreElapsed'
  BY <1>1 DEF CronInv, EndsArePast, IdsUnique, EndedAreElapsed, Elapsed
<1>8. RunsSpaced' /\ OneTimePending'
  BY <1>1 DEF CronInv, RunsSpaced, OneTimePending, Scheduled, Enabled
<1>. QED
  BY <1>4, <1>5, <1>6, <1>7, <1>8 DEF CronInv

\* What the end of a job leaves of the gateway's copy.
LEMMA EndedCopySound ==
  ASSUME CronInv, timer.pc = "executing", NEW store, NEW ends,
         store = [jobs EXCEPT ![timer.job] = Executed(jobs[timer.job])],
         ends = [lastEnd EXCEPT ![timer.job] = now]
  PROVE  /\ CopySound(store, ends, added) /\ EndsSound(ends, added)
         /\ \A j \in JobId : store[j] # NoJob /\ file[j] # NoJob
                               => store[j].schedule = file[j].schedule
         /\ \A j \in JobId : ends[j] # 0 => Elapsed(file[j])
         /\ \A j \in timer.due : store[j] = jobs[j]
<1>. DEFINE i == timer.job
            job == jobs[i]
<1>1. CopySound(jobs, lastEnd, added) /\ EndsSound(lastEnd, added)
  BY CopyIsSound
<1>2. i \in JobId \ timer.due /\ i \in DueJobs(jobs) /\ timer.due \subseteq JobId
  BY DEF CronInv, TimerSound, ExecutionsWanted, TypeOK
<1>3. now \in 1..MaxTime /\ MaxTime \in Nat
  BY CronAssumption DEF CronInv, TypeOK
<1>4. job \in Job /\ i \in Scheduled(jobs) /\ job.next <= now /\ i \in added
  BY <1>1, <1>2 DEF DueJobs, Scheduled, Enabled, CopySound, Store
<1>5. job.schedule \in Schedule /\ job.schedule.t \in Nat
  BY <1>4, CronAssumption DEF Job
<1>6. job.schedule.kind = "at" => job.schedule.t <= now
  BY <1>1, <1>4 DEF CopySound
<1>7. \/ Executed(job) = NoJob
      \/ /\ Executed(job) \in Job
         /\ Executed(job).schedule = job.schedule
         /\ IF job.schedule.kind = "at" THEN ~Executed(job).enabled
            ELSE Executed(job).next = ComputeNextRun(job.schedule)
  BY <1>3, <1>4, ExecutedSound
<1>8. /\ store \in Store /\ store[i] = Executed(job)
      /\ \A j \in JobId \ {i} : store[j] = jobs[j]
  BY <1>1, <1>2, <1>7 DEF CopySound, Store
<1>9. /\ ends \in [JobId -> 0..MaxTime] /\ ends[i] = now
      /\ \A j \in JobId \ {i} : ends[j] = lastEnd[j]
  BY <1>1, <1>2, <1>3 DEF EndsSound
<1>10. EndsSound(ends, added)
  BY <1>1, <1>3, <1>4, <1>9 DEF EndsSound
<1>11. ASSUME NEW j \in JobId
       PROVE  /\ store[j] # NoJob => j \in added
              /\ ends[j] # 0 => Elapsed(store[j])
              /\ store[j] # NoJob /\ file[j] # NoJob => store[j].schedule = file[j].schedule
              /\ ends[j] # 0 => Elapsed(file[j])
  <2>1. /\ jobs[j] # NoJob /\ file[j] # NoJob => jobs[j].schedule = file[j].schedule
        /\ lastEnd[j] # 0 => Elapsed(file[j])
    BY DEF CronInv, IdsUnique, EndedAreElapsed
  <2>2. CASE j = i
    <3>1. job # NoJob
      BY <1>4, CronAssumption DEF Job
    <3>. HIDE DEF i, job
    <3>. QED
      BY <1>4, <1>6, <1>7, <1>8, <2>1, <2>2, <3>1 DEF Elapsed, job
  <2>3. CASE j # i
    BY <1>1, <1>8, <1>9, <2>1, <2>3 DEF CopySound
  <2>. QED
    BY <2>2, <2>3
<1>12. ASSUME NEW j \in Scheduled(store)
       PROVE  /\ store[j].schedule.kind = "at" =>
                   ends[j] = 0 /\ store[j].next = store[j].schedule.t
              /\ store[j].schedule.kind = "every" /\ ends[j] # 0
                   => store[j].next >= ends[j] + store[j].schedule.t
  <2>1. j \in JobId /\ store[j] # NoJob /\ store[j].enabled
    BY DEF Scheduled, Enabled
  <2>2. CASE j = i
    <3>1. store[j].schedule = job.schedule /\ job.schedule.kind # "at"
          /\ store[j].next = ComputeNextRun(job.schedule)
      BY <1>7, <1>8, <2>1, <2>2
    <3>. QED
      BY <1>3, <1>5, <1>9, <2>2, <3>1, NextRun
  <2>3. CASE j # i
    BY <1>1, <1>8, <1>9, <2>1, <2>3 DEF CopySound, Scheduled, Enabled
  <2>. QED
    BY <2>2, <2>3
<1>13. CopySound(store, ends, added)
  BY <1>8, <1>11, <1>12 DEF CopySound
<1>. QED
  BY <1>2, <1>8, <1>10, <1>11, <1>13

\* The job in execution ends: the next due one begins, or the timer is armed again.
LEMMA JobEndsSound ==
  ASSUME CronInv, JobEnds PROVE CronInv'
<1>. DEFINE Ends(store, ends) ==
       /\ store = [jobs EXCEPT ![timer.job] = Executed(jobs[timer.job])]
       /\ ends = [lastEnd EXCEPT ![timer.job] = now]
<1>1. PICK store, ends : Ends(store, ends) /\ jobs' = store /\ lastEnd' = ends
  BY DEF JobEnds
<1>2. /\ timer.pc = "executing" /\ up /\ UNCHANGED <<now, up, edits, added>>
      /\ now \in 1..MaxTime /\ edits \in 0..MaxEdits /\ added \subseteq JobId /\ up = TRUE
  BY DEF JobEnds, CronInv, TypeOK, TimerSound
<1>3. /\ CopySound(store, ends, added) /\ EndsSound(ends, added)
      /\ \A j \in JobId : store[j] # NoJob /\ file[j] # NoJob
                            => store[j].schedule = file[j].schedule
      /\ \A j \in JobId : ends[j] # 0 => Elapsed(file[j])
      /\ \A j \in timer.due : store[j] = jobs[j]
  BY <1>1, <1>2, EndedCopySound
<1>. HIDE DEF Ends
<1>4. CASE timer.due = {} /\ TickEnds(jobs')
  <2>1. SaveAndArm(store) /\ begun' = begun
    BY <1>1, <1>4 DEF TickEnds, SaveAndArm
  <2>. QED
    BY <1>1, <1>2, <1>3, <2>1, SavedAndArmed
<1>5. ASSUME NEW k \in timer.due, timer' = Executing(k, timer.due \ {k}), Begins(k),
             UNCHANGED file
      PROVE  CronInv'
  <2>1. timer.due \subseteq DueJobs(jobs) /\ k \in JobId /\ timer.due \subseteq JobId
    BY <1>2 DEF CronInv, ExecutionsWanted, TypeOK
  <2>2. /\ timer' \in Timer /\ timer'.pc = "executing" /\ timer'.job = k
        /\ timer'.due = timer.due \ {k}
    BY <1>5, <2>1 DEF Executing, Timer, Never
  <2>3. begun' \in [JobId -> 0..2]
    BY <1>5, <2>1 DEF Begins, CronInv, TypeOK
  <2>4. store \in [JobId -> Job \cup {NoJob}] /\ ends \in [JobId -> 0..MaxTime]
    BY <1>3 DEF CopySound, EndsSound, Store
  <2>5. TypeOK'
    BY <1>1, <1>2, <1>5, <2>2, <2>3, <2>4 DEF CronInv, TypeOK, Timer
  <2>6. TimerSound' /\ TimerArmed'
    BY <1>2, <2>1, <2>2 DEF TimerSound, TimerArmed
  <2>7. ExecutionsWanted'
    BY <1>1, <1>2, <1>3, <2>1, <2>2 DEF ExecutionsWanted, DueJobs, Scheduled, Enabled
  <2>8. IdsUnique'
    BY <1>1, <1>2, <1>3, <1>5 DEF CronInv, IdsUnique, EndsSound, CopySound
  <2>9. EndsArePast' /\ EndedAreElapsed'
    BY <1>1, <1>2, <1>3, <1>5 DEF EndsArePast, EndedAreElapsed, Elapsed, EndsSound, CopySound
  <2>10. RunsSpaced' /\ OneTimePending'
    BY <1>1, <1>2, <1>3 DEF RunsSpaced, OneTimePending, CopySound, Scheduled, Enabled
  <2>. QED
    BY <2>5, <2>6, <2>7, <2>8, <2>9, <2>10 DEF CronInv
<1>. QED
  BY <1>4, <1>5 DEF JobEnds

\* The gateway stops.
LEMMA StopSound ==
  ASSUME CronInv, Stop PROVE CronInv'
<1>1. /\ up' = FALSE /\ jobs' = NoJobs /\ edits' \in 0..MaxEdits
      /\ timer' = [pc |-> "none", wake |-> Never, job |-> NoJob, due |-> {}]
      /\ UNCHANGED <<now, file, added, begun, lastEnd>>
  BY CronAssumption DEF Stop, Edit, NoTimer, CronInv, TypeOK
<1>2. timer' \in Timer /\ timer'.pc = "none" /\ \A j \in JobId : jobs'[j] = NoJob
  BY <1>1 DEF Timer, Never, NoJobs
<1>3. TypeOK'
  BY <1>1, <1>2 DEF CronInv, TypeOK, Timer, NoJobs
<1>4. TimerSound' /\ TimerArmed' /\ ExecutionsWanted'
  BY <1>1, <1>2 DEF TimerSound, TimerArmed, ExecutionsWanted
<1>5. EndsArePast' /\ IdsUnique' /\ EndedAreElapsed'
  BY <1>1, <1>2 DEF CronInv, EndsArePast, IdsUnique, EndedAreElapsed, Elapsed
<1>6. RunsSpaced' /\ OneTimePending'
  BY <1>2 DEF RunsSpaced, OneTimePending, Scheduled, Enabled
<1>. QED
  BY <1>3, <1>4, <1>5, <1>6 DEF CronInv

\* A command writes one job's entry of jobs.json: a new job under a new id, or what
\* it makes of the job there without a change of its schedule.
LEMMA CommandSound ==
  ASSUME CronInv, Command, NEW i \in JobId, NEW job \in Job \cup {NoJob},
         file' = [file EXCEPT ![i] = job],
         \/ i \notin added /\ added' = added \cup {i}
         \/ /\ UNCHANGED added /\ file[i] # NoJob
            /\ job # NoJob => job.schedule = file[i].schedule
  PROVE  CronInv'
<1>1. edits' \in 0..MaxEdits /\ UNCHANGED <<now, up, jobs, timer, begun, lastEnd>>
  BY CronAssumption DEF Command, Edit, CronInv, TypeOK
<1>2. /\ file' \in [JobId -> Job \cup {NoJob}] /\ file'[i] = job
      /\ \A j \in JobId \ {i} : file'[j] = file[j]
  BY DEF CronInv, TypeOK
<1>3. added' \subseteq JobId /\ added \subseteq added'
  BY DEF CronInv, TypeOK
<1>4. TypeOK'
  BY <1>1, <1>2, <1>3 DEF CronInv, TypeOK
<1>5. TimerSound' /\ TimerArmed'
  BY <1>1 DEF CronInv, TimerSound, TimerArmed, Scheduled, Enabled
<1>6. ExecutionsWanted' /\ EndsArePast'
  BY <1>1 DEF CronInv, ExecutionsWanted, EndsArePast, DueJobs, Scheduled, Enabled
<1>7. IdsUnique'
  BY <1>1, <1>2, <1>3 DEF CronInv, IdsUnique
<1>8. RunsSpaced' /\ OneTimePending'
  BY <1>1 DEF CronInv, RunsSpaced, OneTimePending, Scheduled, Enabled
<1>9. EndedAreElapsed'
  <2>1. lastEnd[i] # 0 => Elapsed(job)
    BY DEF CronInv, IdsUnique, EndedAreElapsed, Elapsed
  <2>. QED
    BY <1>1, <1>2, <2>1 DEF CronInv, EndedAreElapsed, Elapsed
<1>. QED
  BY <1>4, <1>5, <1>6, <1>7, <1>8, <1>9 DEF CronInv

\* A command edits the file beside the gateway.
LEMMA CliSound ==
  ASSUME CronInv, NEW i \in JobId, CliStep(i) PROVE CronInv'
<1>. DEFINE Writes(job) ==
       /\ Command /\ file' = [file EXCEPT ![i] = job]
       /\ \/ i \notin added /\ added' = added \cup {i}
          \/ /\ UNCHANGED added /\ file[i] # NoJob
             /\ job # NoJob => job.schedule = file[i].schedule
<1>1. now \in Nat /\ (file[i] # NoJob => file[i] \in Job /\ file[i].schedule \in Schedule)
  BY DEF CronInv, TypeOK, Job
<1>2. ASSUME NEW s \in Schedule, CliAdd(i, s)
      PROVE  \E job \in Job \cup {NoJob} : Writes(job)
  <2>1. NewJob(s) \in Job
    BY <1>1, NewJobSound
  <2>2. Writes(NewJob(s))
    BY <1>2 DEF CliAdd
  <2>. QED
    BY <2>1, <2>2
<1>3. CASE CliRemove(i)
  <2>1. Writes(NoJob)
    BY <1>3 DEF CliRemove
  <2>. QED
    BY <2>1, CommandSound
<1>4. ASSUME NEW enabled \in BOOLEAN, CliEnable(i, enabled)
      PROVE  \E job \in Job \cup {NoJob} : Writes(job)
  <2>. DEFINE next == IF enabled THEN ComputeNextRun(file[i].schedule) ELSE Never
              job == [file[i] EXCEPT !.enabled = enabled, !.next = next]
  <2>1. Command /\ file[i] # NoJob /\ UNCHANGED added /\ file \in [JobId -> Job \cup {NoJob}]
    BY <1>4 DEF CliEnable, CronInv, TypeOK
  <2>2. next \in Nat
    BY <1>1, <2>1, NextRun DEF Never
  <2>3. file' = [file EXCEPT ![i] = job]
    BY <1>4, <2>1 DEF CliEnable
  <2>. HIDE DEF next
  <2>4. job \in Job /\ job.schedule = file[i].schedule
    BY <1>1, <2>1, <2>2 DEF Job
  <2>. HIDE DEF job
  <2>. QED
    BY <2>1, <2>3, <2>4
<1>5. ASSUME NEW force \in BOOLEAN, CliRun(i, force)
      PROVE  \E job \in Job \cup {NoJob} : Writes(job)
  <2>. DEFINE job == Executed(file[i])
  <2>1. Command /\ file[i] # NoJob /\ UNCHANGED added /\ file' = [file EXCEPT ![i] = job]
    BY <1>5 DEF CliRun
  <2>2. job = NoJob \/ (job \in Job /\ job.schedule = file[i].schedule)
    BY <1>1, <2>1, ExecutedSound
  <2>. HIDE DEF job
  <2>. QED
    BY <2>1, <2>2
<1>6. ASSUME NEW job \in Job \cup {NoJob}, Writes(job) PROVE CronInv'
  BY <1>6, CommandSound
<1>. HIDE DEF Writes
<1>. QED
  BY <1>2, <1>3, <1>4, <1>5, <1>6 DEF CliStep

\* What is due stays due, and what has elapsed stays so.
LEMMA TimePassesSound ==
  ASSUME CronInv, TimePasses PROVE CronInv'
<1>1. /\ now' = now + 1 /\ now \in Nat /\ now' \in 1..MaxTime
      /\ UNCHANGED <<up, jobs, file, timer, edits, added, begun, lastEnd>>
  BY CronAssumption DEF TimePasses, CronInv, TypeOK
<1>2. TypeOK' /\ TimerSound' /\ TimerArmed' /\ IdsUnique'
  <2>1. TypeOK'
    BY <1>1 DEF CronInv, TypeOK
  <2>. QED
    BY <1>1, <2>1 DEF CronInv, TimerSound, TimerArmed, IdsUnique, Scheduled, Enabled
<1>3. EndsArePast'
  BY <1>1 DEF CronInv, TypeOK, EndsArePast
<1>4. ExecutionsWanted'
  <2>1. \A j \in DueJobs(jobs) : j \in JobId /\ jobs[j].next \in Nat
    BY DEF CronInv, TypeOK, DueJobs, Scheduled, Enabled, Job
  <2>2. DueJobs(jobs) \subseteq DueJobs(jobs)'
    BY <1>1, <2>1 DEF DueJobs, Scheduled, Enabled
  <2>. QED
    BY <1>1, <2>2 DEF CronInv, ExecutionsWanted
<1>5. RunsSpaced' /\ OneTimePending'
  BY <1>1 DEF CronInv, RunsSpaced, OneTimePending, Scheduled, Enabled
<1>6. EndedAreElapsed'
  <2>1. ASSUME NEW job \in Job \cup {NoJob}, Elapsed(job)
        PROVE  job # NoJob /\ job.schedule.kind = "at" => job.schedule.t <= now'
    <3>1. job # NoJob => job.schedule.t \in Nat
      BY CronAssumption DEF Job
    <3>. QED
      BY <1>1, <2>1, <3>1 DEF Elapsed
  <2>2. \A j \in JobId : jobs[j] \in Job \cup {NoJob} /\ file[j] \in Job \cup {NoJob}
    BY DEF CronInv, TypeOK
  <2>. QED
    BY <1>1, <2>1, <2>2 DEF CronInv, EndedAreElapsed, Elapsed
<1>. QED
  BY <1>2, <1>3, <1>4, <1>5, <1>6 DEF CronInv

\* The service has not been started in the initial state.
LEMMA CronStarts == Init => CronInv
<1>. SUFFICES ASSUME Init PROVE CronInv
  OBVIOUS
<1>1. NoTimer \in Timer /\ NoTimer.pc = "none"
  BY DEF NoTimer, Timer, Never
<1>2. \A j \in JobId : jobs[j] = NoJob /\ file[j] = NoJob /\ lastEnd[j] = 0
  BY DEF Init, NoJobs
<1>3. TypeOK
  <2>1. now \in 1..MaxTime /\ edits \in 0..MaxEdits /\ added \subseteq JobId
    BY CronAssumption DEF Init
  <2>2. jobs \in [JobId -> Job \cup {NoJob}] /\ file \in [JobId -> Job \cup {NoJob}]
    BY DEF Init, NoJobs
  <2>3. begun \in [JobId -> 0..2] /\ lastEnd \in [JobId -> 0..MaxTime]
    BY CronAssumption DEF Init
  <2>4. up \in BOOLEAN
    BY DEF Init
  <2>. QED
    BY <1>1, <2>1, <2>2, <2>3, <2>4 DEF Init, TypeOK, Timer
<1>4. TimerSound /\ TimerArmed /\ ExecutionsWanted
  BY <1>1 DEF Init, TimerSound, TimerArmed, ExecutionsWanted
<1>5. EndsArePast /\ IdsUnique /\ EndedAreElapsed
  BY <1>2 DEF Init, EndsArePast, IdsUnique, EndedAreElapsed
<1>6. RunsSpaced /\ OneTimePending
  BY <1>2 DEF RunsSpaced, OneTimePending, Scheduled, Enabled
<1>. QED
  BY <1>3, <1>4, <1>5, <1>6 DEF CronInv

\* Every step preserves the invariant.
LEMMA CronStep == CronInv /\ [Next]_vars => CronInv'
<1>. SUFFICES ASSUME CronInv, [Next]_vars PROVE CronInv'
  OBVIOUS
<1>1. CASE Ticks
  BY <1>1, TimerFiresSound, JobEndsSound DEF Ticks
<1>2. ASSUME NEW j \in JobId,
             (\E s \in Schedule : AddJob(j, s)) \/ RemoveJob(j) \/ CliStep(j)
      PROVE  CronInv'
  BY <1>2, AddSound, RemoveSound, CliSound
<1>3. CASE Start \/ Stop \/ TimePasses
  BY <1>3, StartSound, StopSound, TimePassesSound
<1>4. CASE UNCHANGED vars
  BY <1>4 DEF vars, CronInv, TypeOK, TimerSound, TimerArmed, ExecutionsWanted, EndsArePast,
              RunsSpaced, IdsUnique, OneTimePending, EndedAreElapsed, Elapsed, DueJobs,
              Scheduled, Enabled
<1>. QED
  BY <1>1, <1>2, <1>3, <1>4 DEF Next

\* The invariant behind the theorems of this module.
LEMMA CronSafe == Spec => []CronInv
BY CronStarts, CronStep, PTL DEF Spec

-----------------------------------------------------------------------------
(* Theorems.                                                               *)

\* hive/cron/types.py:7-59: what the service holds of its jobs and what jobs.json holds
\* has its types in every reachable state, whatever order edits, ticks and crashes take.
THEOREM CronTypeCorrect == Spec => []TypeOK
<1>1. CronInv => TypeOK
  BY DEF CronInv
<1>. QED
  BY <1>1, CronSafe, PTL

\* hive/cron/service.py:186-203, _arm_timer after every edit and tick: a running gateway with
\* a job to come has a timer, set to the earliest of the runs.
THEOREM TimerCorrect == Spec => []TimerArmed
<1>1. CronInv => TimerArmed
  BY DEF CronInv
<1>. QED
  BY <1>1, CronSafe, PTL

\* hive/cron/service.py:205-220, _on_timer: the jobs listed as due when a tick begins are
\* still due when their turn comes, since whatever edits a job cancels the tick.
THEOREM ExecutionsCorrect == Spec => []ExecutionsWanted
<1>1. CronInv => ExecutionsWanted
  BY DEF CronInv
<1>. QED
  BY <1>1, CronSafe, PTL

\* hive/cron/service.py:222-255, _execute_job: a repeated job's next run is an interval after
\* the end of its last one, also after downtime and edits.
THEOREM SpacingCorrect == Spec => []RunsSpaced
<1>1. CronInv => RunsSpaced
  BY DEF CronInv
<1>. QED
  BY <1>1, CronSafe, PTL

\* hive/cron/service.py:241-249: a one-time job ends once, whatever is lost in a crash between
\* its end and the save, and whatever a command writes back.
THEOREM OneTimeCorrect == Spec => OneTimeEndsOnce
<1>. DEFINE Once == \A j \in JobId : lastEnd'[j] # lastEnd[j] /\ jobs[j].schedule.kind = "at"
                                        => lastEnd[j] = 0
<1>1. CronInv /\ Next => Once
  <2>. SUFFICES ASSUME CronInv, Next, NEW j \in JobId, lastEnd'[j] # lastEnd[j],
                       jobs[j].schedule.kind = "at"
                PROVE  lastEnd[j] = 0
    OBVIOUS
  <2>1. JobEnds
    BY DEF Next, Ticks, TimerFires, AddJob, RemoveJob, Start, Stop, CliStep, CliAdd, CliRemove,
           CliEnable, CliRun, Command, TimePasses
  <2>2. timer.pc = "executing" /\ j = timer.job
    BY <2>1 DEF JobEnds, CronInv, TypeOK
  <2>3. j \in Scheduled(jobs)
    BY <2>2 DEF CronInv, ExecutionsWanted, DueJobs
  <2>. QED
    BY <2>3 DEF CronInv, OneTimePending
<1>2. CronInv /\ UNCHANGED vars => UNCHANGED lastEnd
  BY DEF vars
<1>3. CronInv /\ [Next]_vars => [Once]_vars
  BY <1>1, <1>2
<1>. QED
  BY <1>3, CronSafe, PTL DEF Spec, OneTimeEndsOnce
=============================================================================
