---------------------------- MODULE BudgetTracker ----------------------------
(***************************************************************************)
(* The daily budget: hive/agent/budget.py, and the part of the agent loop  *)
(* that asks it before every LLM call and charges it afterwards            *)
(* (agent/loop.py).                                                        *)
(*                                                                         *)
(* The Queen's turn, cron turns and heartbeat turns share one tracker.     *)
(* Every access to the state file holds the asyncio.Lock across            *)
(* asyncio.to_thread, so a check or a read of the usage is one action; a   *)
(* charge is three, between which the day may change and the process may   *)
(* die: it loads, opens the file (write_text truncates it), and writes.    *)
(*                                                                         *)
(* Per-worker sums are left out: the loop passes a worker id only when the *)
(* session id holds "worker:", and no session of the gateway does.         *)
(* Background workers (worker/loop.py) never ask the tracker.              *)
(***************************************************************************)
EXTENDS Naturals, FiniteSetsExt

CONSTANTS
  Caller,    \* turns of the agent loop that may run at the same time
  CronTurn,  \* those that run in the cron timer, which cancels them when it is armed
  Limit,     \* daily_limit, in the unit of Cost
  Cost,      \* what one LLM call may cost; 0 when no cost is reported
  MaxCost,   \* the largest of them
  NoCaller,  \* the lock is free
  MaxDay,    \* bound: the days
  MaxStarts  \* bound: the restarts of the process

ASSUME BudgetAssumption ==
  /\ Limit \in Nat \ {0}
  /\ MaxCost \in Nat
  /\ Cost \subseteq 0..MaxCost
  /\ IsFiniteSet(Caller)
  /\ CronTurn \subseteq Caller
  /\ NoCaller \notin Caller

VARIABLES
  day,       \* today, UTC
  file,      \* .budget_state.json
  lock,      \* _lock
  loaded,    \* the state dict of the charge that holds the lock
  call,      \* where each caller is in its iteration
  starts,    \* the restarts so far
  announced, \* history: the alerts of this day and this process
  paid       \* history: what the calls answered today cost, since a charge was last lost

vars == <<day, file, lock, loaded, call, starts, announced, paid>>

-----------------------------------------------------------------------------
\* The state file, when it is missing, cut short or unreadable.
Unreadable == [ok |-> FALSE, day |-> 0, usd |-> 0]

State == [ok : BOOLEAN, day : Nat, usd : Nat]

\* _load_state: what a caller reads as daily_usd.
LoadState(f) == IF f.ok /\ f.day = day THEN f.usd ELSE 0

Pc == {"ready", "calling", "halted", "before", "charging", "loaded", "saving", "after"}

\* The callers with an LLM call that is under way or not yet on file.
Engaged == {c \in Caller : call[c].pc \in {"calling", "before", "charging", "loaded", "saving"}}

TypeOK ==
  /\ day \in Nat
  /\ file \in State
  /\ lock \in Caller \cup {NoCaller}
  /\ loaded \in [day : Nat, usd : Nat]
  /\ call \in [Caller -> [pc : Pc, cost : Cost \cup {0}, before : Nat]]
  /\ starts \in Nat
  /\ announced \subseteq {75, 90, 100}
  /\ paid \in Nat

Init ==
  /\ day = 0
  /\ file = Unreadable
  /\ lock = NoCaller
  /\ loaded = [day |-> 0, usd |-> 0]
  /\ call = [c \in Caller |-> [pc |-> "ready", cost |-> 0, before |-> 0]]
  /\ starts = 0
  /\ announced = {}
  /\ paid = 0

-----------------------------------------------------------------------------
At(c, pc) == call[c].pc = pc

Goto(c, pc) == call' = [call EXCEPT ![c].pc = pc]

LockFree == lock = NoCaller

-----------------------------------------------------------------------------
(* The gate, before an LLM call.                                           *)

\* Mutant: > for >=.
BugWithinBudget == LoadState(file) <= Limit

WithinBudget == LoadState(file) < Limit

CheckBudget(c) ==
  /\ At(c, "ready")
  /\ LockFree
  /\ Goto(c, IF WithinBudget THEN "calling" ELSE "halted")
  /\ UNCHANGED <<day, file, lock, loaded, starts, announced, paid>>

\* The halted turn is over; the next message begins another one.
NextTurn(c) ==
  /\ At(c, "halted")
  /\ Goto(c, "ready")
  /\ UNCHANGED <<day, file, lock, loaded, starts, announced, paid>>

-----------------------------------------------------------------------------
(* The LLM call and its charge.                                            *)

LLMAnswers(c, cost) ==
  /\ At(c, "calling")
  /\ cost > 0
  /\ call' = [call EXCEPT ![c] = [pc |-> "before", cost |-> cost, before |-> 0]]
  /\ paid' = paid + cost
  /\ UNCHANGED <<day, file, lock, loaded, starts, announced>>

\* An exception ends the turn; an answer without a cost is not charged.
LLMUncharged(c) ==
  /\ At(c, "calling")
  /\ Goto(c, "ready")
  /\ UNCHANGED <<day, file, lock, loaded, starts, announced, paid>>

ReadBefore(c) ==
  /\ At(c, "before")
  /\ LockFree
  /\ call' = [call EXCEPT ![c] = [pc |-> "charging", cost |-> @.cost, before |-> LoadState(file)]]
  /\ UNCHANGED <<day, file, lock, loaded, starts, announced, paid>>

\* Mutant: the lock is not taken around load and save.
BugAddCostLoads(c) ==
  /\ At(c, "charging")
  /\ loaded' = [day |-> day, usd |-> LoadState(file)]
  /\ Goto(c, "loaded")
  /\ UNCHANGED <<day, file, lock, starts, announced, paid>>

AddCostLoads(c) ==
  /\ At(c, "charging")
  /\ LockFree
  /\ lock' = c
  /\ loaded' = [day |-> day, usd |-> LoadState(file)]
  /\ Goto(c, "loaded")
  /\ UNCHANGED <<day, file, starts, announced, paid>>

SaveOpens(c) ==
  /\ At(c, "loaded")
  /\ file' = Unreadable
  /\ Goto(c, "saving")
  /\ UNCHANGED <<day, lock, loaded, starts, announced, paid>>

\* Mutant: the cost is taken off the day's sum.
BugSaveSubtracts(c) ==
  /\ At(c, "saving")
  /\ file' = [ok |-> TRUE, day |-> loaded.day, usd |-> loaded.usd - call[c].cost]
  /\ lock' = NoCaller
  /\ Goto(c, "after")
  /\ UNCHANGED <<day, loaded, starts, announced, paid>>

\* Mutant: an early return leaves the lock held.
BugLockKept(c) ==
  /\ At(c, "saving")
  /\ file' = [ok |-> TRUE, day |-> loaded.day, usd |-> loaded.usd + call[c].cost]
  /\ Goto(c, "after")
  /\ UNCHANGED <<day, lock, loaded, starts, announced, paid>>

SaveWrites(c) ==
  /\ At(c, "saving")
  /\ file' = [ok |-> TRUE, day |-> loaded.day, usd |-> loaded.usd + call[c].cost]
  /\ lock' = NoCaller
  /\ Goto(c, "after")
  /\ UNCHANGED <<day, loaded, starts, announced, paid>>

\* _save_state logs an exception and goes on: the file could not be opened, or it
\* was cut short. In the second case what was paid so far is forgotten.
SaveFails(c) ==
  /\ At(c, "loaded") \/ At(c, "saving")
  /\ lock' = NoCaller
  /\ Goto(c, "after")
  /\ paid' = 0
  /\ UNCHANGED <<day, file, loaded, starts, announced>>

-----------------------------------------------------------------------------
(* The alerts, after the charge: the first threshold that was crossed.     *)

Crosses(pct, before, after) == 100 * before < pct * Limit /\ pct * Limit <= 100 * after

Crossed(before, after) == {pct \in {75, 90, 100} : Crosses(pct, before, after)}

Alerts(before, after) ==
  {pct \in Crossed(before, after) : \A other \in Crossed(before, after) : pct <= other}

ReadAfter(c) ==
  /\ At(c, "after")
  /\ LockFree
  /\ announced' = announced \cup Alerts(call[c].before, LoadState(file))
  /\ call' = [call EXCEPT ![c] = [pc |-> "ready", cost |-> 0, before |-> 0]]
  /\ UNCHANGED <<day, file, lock, loaded, starts, paid>>

\* A cron turn is cancelled: the cost of its call is never charged. Not modelled:
\* a cancellation while _save_state is writing, which releases the lock but leaves
\* the thread to finish the write behind it.
TurnCancelled(c) ==
  /\ c \in CronTurn
  /\ call[c].pc \in {"calling", "before", "charging", "loaded", "after"}
  /\ call' = [call EXCEPT ![c] = [pc |-> "ready", cost |-> 0, before |-> 0]]
  /\ lock' = IF lock = c THEN NoCaller ELSE lock
  /\ paid' = IF call[c].pc \in {"before", "charging", "loaded"} THEN 0 ELSE paid
  /\ UNCHANGED <<day, file, loaded, starts, announced>>

-----------------------------------------------------------------------------
(* The world around.                                                       *)

Midnight ==
  /\ day < MaxDay
  /\ day' = day + 1
  /\ paid' = 0
  /\ announced' = {}
  /\ UNCHANGED <<file, lock, loaded, call, starts>>

\* The process dies and is started again on what the file holds.
Restart ==
  /\ starts < MaxStarts
  /\ starts' = starts + 1
  /\ lock' = NoCaller
  /\ call' = [c \in Caller |-> [pc |-> "ready", cost |-> 0, before |-> 0]]
  /\ announced' = {}
  /\ paid' = 0
  /\ UNCHANGED <<day, file, loaded>>

-----------------------------------------------------------------------------
Charge(c) ==
  \/ ReadBefore(c)
  \/ AddCostLoads(c)
  \/ SaveOpens(c)
  \/ SaveWrites(c)
  \/ SaveFails(c)
  \/ ReadAfter(c)

Next ==
  \/ \E c \in Caller : CheckBudget(c) \/ NextTurn(c)
  \/ \E c \in Caller, cost \in Cost : LLMAnswers(c, cost)
  \/ \E c \in Caller : LLMUncharged(c)
  \/ \E c \in Caller : Charge(c)
  \/ \E c \in CronTurn : TurnCancelled(c)
  \/ Midnight
  \/ Restart

Spec == Init /\ [][Next]_vars

\* File operations end, and asyncio.Lock serves its waiters in order of arrival,
\* so a charge that keeps coming up is served: strong fairness.
Fairness == \A c \in Caller : SF_vars(Charge(c))

FairSpec == Spec /\ Fairness

-----------------------------------------------------------------------------
(* Safety.                                                                 *)

\* The most a day's sum can be: the last call that passed the gate saw it below
\* the limit, and every caller may have had one call under way.
Ceiling == Limit - 1 + Cardinality(Caller) * MaxCost

\* Checks and charges are not one step: callers that pass the gate together all
\* spend. The day's sum still stays below the limit plus one call per caller.
UsageBounded == LoadState(file) <= Ceiling

\* The caller's answered call is paid today and still to be put on file. A charge
\* that loaded before midnight is booked on the day before.
Owing(c) ==
  \/ call[c].pc \in {"before", "charging"}
  \/ call[c].pc \in {"loaded", "saving"} /\ loaded.day = day

Owed(c) == call[c].cost

\* The day's sum, also while the charge that loaded it is rewriting the file.
OnFile ==
  IF \E c \in Caller : At(c, "saving") /\ loaded.day = day THEN loaded.usd ELSE LoadState(file)

\* No charge is lost or hidden while the file is intact: what today's answered
\* calls cost is on file, or belongs to callers that are about to charge it, so
\* the gate errs by the open calls only. The lock has to hold across load and
\* save, and midnight must not misplace the charge that is in between.
NoChargeLost == paid <= OnFile + MapThenSumSet(Owed, {c \in Caller : Owing(c)})

-----------------------------------------------------------------------------
(* Liveness.                                                               *)

\* Every answered call is charged and its turn goes on, although all charges, the
\* gate and the reports contend for one lock and a save may fail.
ChargesEnd == \A c \in Caller : At(c, "before") ~> At(c, "ready")

-----------------------------------------------------------------------------
(* What the documents say and the code does not do.                        *)

\* SECURITY.md:166: alerts are published when 75%, 90%, or 100% of the daily budget
\* is consumed. When nobody is charging, each threshold passed has had its alert.
AlertsComplete ==
  (\A c \in Caller : call[c].pc \in {"ready", "halted"}) =>
    {pct \in {75, 90, 100} : pct * Limit <= 100 * LoadState(file)} \subseteq announced
=============================================================================
