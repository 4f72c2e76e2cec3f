----------------------------- MODULE WorkerPool -----------------------------
(***************************************************************************)
(* What the registry of background workers promises to those who order     *)
(* work, whatever it keeps for it: at most MaxWorkers workers at a time,   *)
(* one per name; a worker that is told to stop has no success to report;   *)
(* and a caller that waits gets the outcome of the worker it has started,  *)
(* once that has ended.  WorkerRegistry implements it.                     *)
(***************************************************************************)
EXTENDS Naturals, FiniteSets

CONSTANTS Name, Task, Waiter, MaxWorkers, NoTask, NoName

VARIABLES
  state,    \* of each worker
  owner,    \* the name under which it works
  stopped,  \* the workers that were told to stop
  caller    \* for each caller, the worker it has started and the outcome it got

poolVars == <<state, owner, stopped, caller>>

Live(t) == state[t] = "live"

Idle(w) == caller[w].got # "pending"

Init ==
  /\ state = [t \in Task |-> "unborn"]
  /\ owner = [t \in Task |-> NoName]
  /\ stopped = {}
  /\ caller = [w \in Waiter |-> [of |-> NoTask, got |-> "none"]]

Begin(t, n) ==
  /\ state[t] = "unborn"
  /\ Cardinality({u \in Task : Live(u)}) < MaxWorkers
  /\ \A u \in Task : Live(u) => owner[u] # n
  /\ state' = [state EXCEPT ![t] = "live"]
  /\ owner' = [owner EXCEPT ![t] = n]
  /\ UNCHANGED stopped

Order(t, n) == Begin(t, n) /\ UNCHANGED caller

OrderAndWait(w, t, n) ==
  /\ Idle(w) /\ Begin(t, n)
  /\ caller' = [caller EXCEPT ![w] = [of |-> t, got |-> "pending"]]

Refuse(w) ==
  /\ Idle(w)
  /\ caller' = [caller EXCEPT ![w] = [of |-> NoTask, got |-> "failed"]]
  /\ UNCHANGED <<state, owner, stopped>>

Stop(ts) ==
  /\ \A t \in ts : Live(t)
  /\ stopped' = stopped \cup ts
  /\ UNCHANGED <<state, owner, caller>>

End(t) ==
  /\ Live(t)
  /\ state' = [state EXCEPT ![t] = "over"]
  /\ UNCHANGED <<owner, stopped, caller>>

Outcome(t) == {"failed", "cancelled"} \cup (IF t \in stopped THEN {} ELSE {"completed"})

Return(w) ==
  /\ caller[w].got = "pending" /\ state[caller[w].of] = "over"
  /\ \E got \in Outcome(caller[w].of) : caller' = [caller EXCEPT ![w].got = got]
  /\ UNCHANGED <<state, owner, stopped>>

Next ==
  \/ \E t \in Task, n \in Name : Order(t, n)
  \/ \E w \in Waiter, t \in Task, n \in Name : OrderAndWait(w, t, n)
  \/ \E w \in Waiter : Refuse(w) \/ Return(w)
  \/ \E ts \in SUBSET Task : Stop(ts)
  \/ \E t \in Task : End(t)

Safety == Init /\ [][Next]_poolVars

Fairness ==
  /\ \A t \in Task : WF_poolVars(End(t))
  /\ \A w \in Waiter : WF_poolVars(Return(w))

Spec == Safety /\ Fairness
=============================================================================
