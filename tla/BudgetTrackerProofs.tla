------------------------- MODULE BudgetTrackerProofs -------------------------
(***************************************************************************)
(* The day's sum stays within its ceiling for any limit, any costs and any *)
(* number of turns that spend at the same time.                            *)
(*                                                                         *)
(* The bound itself is not inductive. What is: the day's sum, or what the  *)
(* charge in progress has loaded of it, plus a reserve of the largest cost *)
(* for every caller whose call is not yet on file.  That no charge is lost *)
(* needs more: what the lock's holder has loaded is still the file's, and  *)
(* the sum of what callers owe changes by what one of them pays or books.  *)
(***************************************************************************)
EXTENDS BudgetTracker, FiniteSetTheorems, WellFoundedInduction, TLAPS

Charging(c) == call[c].pc \in {"loaded", "saving"}

\* The lock is held by the one charge between load and save.
LockInv == \A c \in Caller : Charging(c) <=> lock = c

\* No state is dated in the future.
DatesInv == file.day <= day /\ loaded.day <= day

Booked == IF lock # NoCaller /\ loaded.day = day THEN loaded.usd ELSE LoadState(file)

Reserve(n) == n * MaxCost

ReserveInv ==
  /\ LoadState(file) <= Booked
  /\ Booked + Reserve(Cardinality(Engaged)) <= Limit - 1 + Reserve(Cardinality(Caller))

BudgetInv == TypeOK /\ LockInv /\ DatesInv /\ ReserveInv

-----------------------------------------------------------------------------
\* The reserve grows with the callers, one largest cost at a time.
LEMMA ReserveGrows ==
  /\ \A n \in Nat : Reserve(n) \in Nat
  /\ \A n \in Nat : Reserve(n + 1) = Reserve(n) + MaxCost
  /\ \A m, n \in Nat : m <= n => Reserve(m) <= Reserve(n)
<1>0. MaxCost \in Nat
  BY BudgetAssumption DEF BudgetAssumption
<1>1. \A n \in Nat : Reserve(n) \in Nat
  BY <1>0 DEF Reserve
<1>2. \A n \in Nat : Reserve(n + 1) = Reserve(n) + MaxCost
  BY <1>0 DEF Reserve
<1>3. ASSUME NEW m \in Nat, NEW n \in Nat, m <= n
      PROVE  Reserve(m) <= Reserve(n)
  <2>1. PICK k \in Nat : n = m + k
    <3>1. n - m \in Nat /\ n = m + (n - m)
      BY <1>3
    <3>. QED
      BY <3>1
  <2>2. n * MaxCost = m * MaxCost + k * MaxCost
    BY <2>1, <1>0
  <2>3. k * MaxCost \in Nat /\ m * MaxCost \in Nat
    BY <1>0
  <2>. QED
    BY <2>2, <2>3 DEF Reserve
<1>. QED
  BY <1>1, <1>2, <1>3

\* The callers are finitely many, so any of them can be counted.
LEMMA CountCallers ==
  ASSUME NEW S \in SUBSET Caller
  PROVE  /\ IsFiniteSet(S)
         /\ Cardinality(S) \in Nat
         /\ Cardinality(Caller) \in Nat
         /\ Cardinality(S) <= Cardinality(Caller)
<1>1. IsFiniteSet(Caller)
  BY BudgetAssumption DEF BudgetAssumption
<1>. QED
  BY <1>1, FS_Subset, FS_CardinalityType

\* Fewer callers engaged and no more booked: the reserve still suffices.
LEMMA ReserveShrinks ==
  ASSUME NEW S \in SUBSET Caller, NEW T \in SUBSET S, NEW b \in Nat, NEW d \in Nat, d <= b,
         b + Reserve(Cardinality(S)) <= Limit - 1 + Reserve(Cardinality(Caller))
  PROVE  d + Reserve(Cardinality(T)) <= Limit - 1 + Reserve(Cardinality(Caller))
<1>1. Cardinality(S) \in Nat /\ Cardinality(T) \in Nat /\ Cardinality(Caller) \in Nat
  BY CountCallers
<1>2. Cardinality(T) <= Cardinality(S)
  BY CountCallers, FS_Subset
<1>3. Reserve(Cardinality(T)) <= Reserve(Cardinality(S))
  BY <1>1, <1>2, ReserveGrows
<1>4. /\ Reserve(Cardinality(T)) \in Nat
      /\ Reserve(Cardinality(S)) \in Nat
      /\ Reserve(Cardinality(Caller)) \in Nat
  BY <1>1, ReserveGrows
<1>5. Limit \in Nat
  BY BudgetAssumption DEF BudgetAssumption
<1>. QED
  BY <1>3, <1>4, <1>5

\* A caller that charges releases at least what it charges.
LEMMA ReserveReleased ==
  ASSUME NEW S \in SUBSET Caller, NEW c \in S, NEW b \in Nat, NEW cost \in 0..MaxCost,
         b + Reserve(Cardinality(S)) <= Limit - 1 + Reserve(Cardinality(Caller))
  PROVE  b + cost + Reserve(Cardinality(S \ {c})) <= Limit - 1 + Reserve(Cardinality(Caller))
<1>1. Cardinality(S) \in Nat /\ Cardinality(S \ {c}) \in Nat /\ Cardinality(Caller) \in Nat
  BY CountCallers
<1>2. Cardinality(S \ {c}) = Cardinality(S) - 1
  BY CountCallers, FS_RemoveElement
<1>3. Reserve(Cardinality(S)) = Reserve(Cardinality(S \ {c})) + MaxCost
  BY <1>1, <1>2, ReserveGrows
<1>4. Reserve(Cardinality(S \ {c})) \in Nat /\ Reserve(Cardinality(Caller)) \in Nat
  BY <1>1, ReserveGrows
<1>5. Limit \in Nat /\ MaxCost \in Nat
  BY BudgetAssumption DEF BudgetAssumption
<1>. QED
  BY <1>3, <1>4, <1>5

-----------------------------------------------------------------------------
\* What is read from a state file is an amount.
LEMMA LoadStateType ==
  ASSUME NEW f \in State
  PROVE  LoadState(f) \in Nat
BY DEF LoadState, State

\* What is booked is an amount.
LEMMA BookedType ==
  ASSUME TypeOK
  PROVE  Booked \in Nat /\ LoadState(file) \in Nat
BY LoadStateType DEF TypeOK, Booked

\* What a caller is about to charge is a cost.
LEMMA CostBound ==
  ASSUME TypeOK, NEW c \in Caller
  PROVE  call[c].cost \in 0..MaxCost
<1>1. call[c] \in [pc : Pc, cost : Cost \cup {0}, before : Nat]
  BY DEF TypeOK
<1>2. call[c].cost \in Cost \cup {0}
  BY <1>1
<1>3. Cost \cup {0} \subseteq 0..MaxCost
  BY BudgetAssumption DEF BudgetAssumption
<1>. QED
  BY <1>2, <1>3

\* The initial state has nothing booked and nobody engaged.
LEMMA InitInv ==
  ASSUME Init
  PROVE  BudgetInv
<1>1. TypeOK
  BY BudgetAssumption DEF Init, TypeOK, State, Unreadable, Pc, BudgetAssumption
<1>2. LockInv
  BY BudgetAssumption DEF Init, LockInv, Charging, BudgetAssumption
<1>3. DatesInv
  BY DEF Init, DatesInv, Unreadable
<1>4. ReserveInv
  <2>1. LoadState(file) = 0 /\ Booked = 0
    BY DEF Init, LoadState, Booked, Unreadable
  <2>2. Engaged = {}
    BY DEF Init, Engaged
  <2>3. Reserve(Cardinality(Engaged)) <= Reserve(Cardinality(Caller))
    BY <2>2, CountCallers, ReserveGrows
  <2>4. Reserve(Cardinality(Engaged)) \in Nat /\ Reserve(Cardinality(Caller)) \in Nat
    BY <2>2, CountCallers, ReserveGrows
  <2>5. Limit \in Nat \ {0}
    BY BudgetAssumption DEF BudgetAssumption
  <2>. QED
    BY <2>1, <2>3, <2>4, <2>5 DEF ReserveInv
<1>. QED
  BY <1>1, <1>2, <1>3, <1>4 DEF BudgetInv

\* A step after which nobody new is engaged and no more is booked.
LEMMA QuietStep ==
  ASSUME BudgetInv, TypeOK', Engaged' \subseteq Engaged, Booked' <= Booked,
         (LoadState(file) <= Booked)'
  PROVE  ReserveInv'
<1>1. Engaged \in SUBSET Caller /\ Engaged' \in SUBSET Engaged
  BY DEF Engaged
<1>2. Booked \in Nat
  BY BookedType DEF BudgetInv
<1>3. Booked' \in Nat
  <2>1. LoadState(file)' \in Nat
    BY DEF TypeOK, LoadState, State
  <2>. QED
    BY <2>1 DEF TypeOK, Booked
<1>4. Booked + Reserve(Cardinality(Engaged)) <= Limit - 1 + Reserve(Cardinality(Caller))
  BY DEF BudgetInv, ReserveInv
<1>5. Booked' + Reserve(Cardinality(Engaged')) <= Limit - 1 + Reserve(Cardinality(Caller))
  BY <1>1, <1>2, <1>3, <1>4, ReserveShrinks
<1>. QED
  BY <1>5 DEF ReserveInv, Reserve

-----------------------------------------------------------------------------
\* Passing the gate: the sum is below the limit, whoever else is engaged.
LEMMA GateStep ==
  ASSUME BudgetInv, NEW c \in Caller, CheckBudget(c), TypeOK'
  PROVE  ReserveInv'
<1>1. lock = NoCaller /\ lock' = NoCaller /\ file' = file /\ day' = day /\ loaded' = loaded
  BY DEF CheckBudget, LockFree
<1>2. Booked' = Booked /\ Booked = LoadState(file) /\ LoadState(file)' = LoadState(file)
  BY <1>1 DEF Booked, LoadState
<1>3. CASE ~WithinBudget
  <2>1. Engaged' \subseteq Engaged
    BY <1>3 DEF CheckBudget, Goto, Engaged, BudgetInv, TypeOK, At
  <2>2. Booked \in Nat
    BY BookedType DEF BudgetInv
  <2>. QED
    BY <1>2, <2>1, <2>2, QuietStep
<1>4. CASE WithinBudget
  <2>1. Engaged' \in SUBSET Caller
    BY DEF Engaged
  <2>2. /\ Cardinality(Engaged') \in Nat
        /\ Cardinality(Caller) \in Nat
        /\ Cardinality(Engaged') <= Cardinality(Caller)
    BY <2>1, CountCallers
  <2>3. /\ Reserve(Cardinality(Engaged')) \in Nat
        /\ Reserve(Cardinality(Caller)) \in Nat
        /\ Reserve(Cardinality(Engaged')) <= Reserve(Cardinality(Caller))
    BY <2>2, ReserveGrows
  <2>4. Booked \in Nat /\ Booked < Limit /\ Limit \in Nat
    BY <1>2, <1>4, BookedType, BudgetAssumption DEF BudgetInv, WithinBudget, BudgetAssumption
  <2>5. Booked' + Reserve(Cardinality(Engaged')) <= Limit - 1 + Reserve(Cardinality(Caller))
    BY <1>2, <2>3, <2>4
  <2>6. LoadState(file)' <= Booked'
    BY <1>2, <2>4
  <2>. QED
    BY <2>5, <2>6 DEF ReserveInv, Reserve
<1>. QED
  BY <1>3, <1>4

\* Writing the sum: what the caller adds comes out of its reserve.
LEMMA WriteStep ==
  ASSUME BudgetInv, NEW c \in Caller, SaveWrites(c), TypeOK'
  PROVE  ReserveInv'
<1>1. /\ lock = c
      /\ lock # NoCaller
      /\ lock' = NoCaller
      /\ day' = day
      /\ file' = [ok |-> TRUE, day |-> loaded.day, usd |-> loaded.usd + call[c].cost]
  BY BudgetAssumption DEF SaveWrites, BudgetInv, LockInv, Charging, At, BudgetAssumption
<1>2. Booked' = LoadState(file)'
  BY <1>1 DEF Booked
<1>3. Booked \in Nat /\ LoadState(file)' \in Nat
  BY BookedType DEF BudgetInv, TypeOK, LoadState, State
<1>4. Engaged' = Engaged \ {c} /\ c \in Engaged
  BY DEF SaveWrites, Goto, At, Engaged, BudgetInv, TypeOK
<1>5. CASE loaded.day # day
  <2>1. Booked' = 0
    BY <1>1, <1>2, <1>5 DEF LoadState
  <2>. QED
    BY <1>2, <1>3, <1>4, <2>1, QuietStep
<1>6. CASE loaded.day = day
  <2>1. Booked = loaded.usd
    BY <1>1, <1>6 DEF Booked
  <2>2. Booked' = Booked + call[c].cost
    BY <1>1, <1>2, <1>6, <2>1 DEF LoadState
  <2>3. call[c].cost \in 0..MaxCost
    BY CostBound DEF BudgetInv
  <2>4. Engaged \in SUBSET Caller
    BY DEF Engaged
  <2>5. Booked + Reserve(Cardinality(Engaged)) <= Limit - 1 + Reserve(Cardinality(Caller))
    BY DEF BudgetInv, ReserveInv
  <2>6. Booked + call[c].cost + Reserve(Cardinality(Engaged \ {c}))
          <= Limit - 1 + Reserve(Cardinality(Caller))
    BY <1>3, <1>4, <2>3, <2>4, <2>5, ReserveReleased
  <2>7. Booked' + Reserve(Cardinality(Engaged')) <= Limit - 1 + Reserve(Cardinality(Caller))
    BY <1>4, <2>2, <2>6
  <2>8. LoadState(file)' <= Booked'
    BY <1>2, <1>3
  <2>. QED
    BY <2>7, <2>8 DEF ReserveInv, Reserve
<1>. QED
  BY <1>5, <1>6

-----------------------------------------------------------------------------
\* Every step preserves the types.
LEMMA TypeStep ==
  ASSUME TypeOK, [Next]_vars
  PROVE  TypeOK'
<1>0. /\ NoCaller \notin Caller
      /\ Cost \subseteq Nat
      /\ CronTurn \subseteq Caller
  BY BudgetAssumption DEF BudgetAssumption
<1>. USE <1>0 DEF TypeOK
<1>1. ASSUME NEW c \in Caller, CheckBudget(c) PROVE TypeOK'
  BY <1>1 DEF CheckBudget, Goto, Pc
<1>2. ASSUME NEW c \in Caller, NextTurn(c) PROVE TypeOK'
  BY <1>2 DEF NextTurn, Goto, Pc
<1>3. ASSUME NEW c \in Caller, NEW cost \in Cost, LLMAnswers(c, cost) PROVE TypeOK'
  <2>1. cost \in Nat /\ paid + cost \in Nat
    BY <1>0
  <2>2. call' \in [Caller -> [pc : Pc, cost : Cost \cup {0}, before : Nat]]
    BY <1>3 DEF LLMAnswers, Pc
  <2>. QED
    BY <1>3, <2>1, <2>2 DEF LLMAnswers
<1>4. ASSUME NEW c \in Caller, LLMUncharged(c) PROVE TypeOK'
  BY <1>4 DEF LLMUncharged, Goto, Pc
<1>5. ASSUME NEW c \in Caller, ReadBefore(c) PROVE TypeOK'
  <2>1. LoadState(file) \in Nat
    BY LoadStateType
  <2>2. call[c].cost \in Cost \cup {0}
    OBVIOUS
  <2>. QED
    BY <1>5, <2>1, <2>2 DEF ReadBefore, Pc
<1>6. ASSUME NEW c \in Caller, AddCostLoads(c) PROVE TypeOK'
  <2>1. LoadState(file) \in Nat
    BY LoadStateType
  <2>. QED
    BY <1>6, <2>1 DEF AddCostLoads, Goto, Pc
<1>7. ASSUME NEW c \in Caller, SaveOpens(c) PROVE TypeOK'
  BY <1>7 DEF SaveOpens, Goto, Pc, State, Unreadable
<1>8. ASSUME NEW c \in Caller, SaveWrites(c) PROVE TypeOK'
  <2>1. call[c].cost \in Nat
    BY CostBound, BudgetAssumption DEF BudgetAssumption
  <2>. QED
    BY <1>8, <2>1 DEF SaveWrites, Goto, Pc, State
<1>9. ASSUME NEW c \in Caller, SaveFails(c) PROVE TypeOK'
  BY <1>9 DEF SaveFails, Goto, Pc
<1>10. ASSUME NEW c \in Caller, ReadAfter(c) PROVE TypeOK'
  BY <1>10 DEF ReadAfter, Alerts, Crossed, Pc
<1>11. ASSUME NEW c \in CronTurn, TurnCancelled(c) PROVE TypeOK'
  BY <1>11 DEF TurnCancelled, Pc
<1>12. ASSUME Midnight PROVE TypeOK'
  BY <1>12 DEF Midnight
<1>13. ASSUME Restart PROVE TypeOK'
  BY <1>13 DEF Restart, Pc
<1>14. ASSUME UNCHANGED vars PROVE TypeOK'
  BY <1>14 DEF vars
<1>. QED
  BY <1>1, <1>2, <1>3, <1>4, <1>5, <1>6, <1>7, <1>8, <1>9, <1>10, <1>11, <1>12, <1>13, <1>14
  DEF Next, Charge

\* The lock goes with the charge, and dates never run ahead of the day.
LEMMA LockStep ==
  ASSUME BudgetInv, [Next]_vars
  PROVE  LockInv' /\ DatesInv'
<1>0. NoCaller \notin Caller /\ CronTurn \subseteq Caller
  BY BudgetAssumption DEF BudgetAssumption
<1>. USE <1>0 DEF BudgetInv, TypeOK, LockInv, DatesInv, Charging, LockFree, At, Goto
<1>1. ASSUME NEW c \in Caller, CheckBudget(c) PROVE LockInv' /\ DatesInv'
  BY <1>1 DEF CheckBudget
<1>2. ASSUME NEW c \in Caller, NextTurn(c) PROVE LockInv' /\ DatesInv'
  BY <1>2 DEF NextTurn
<1>3. ASSUME NEW c \in Caller, NEW cost \in Cost, LLMAnswers(c, cost) PROVE LockInv' /\ DatesInv'
  BY <1>3 DEF LLMAnswers
<1>4. ASSUME NEW c \in Caller, LLMUncharged(c) PROVE LockInv' /\ DatesInv'
  BY <1>4 DEF LLMUncharged
<1>5. ASSUME NEW c \in Caller, ReadBefore(c) PROVE LockInv' /\ DatesInv'
  BY <1>5 DEF ReadBefore
<1>6. ASSUME NEW c \in Caller, AddCostLoads(c) PROVE LockInv' /\ DatesInv'
  BY <1>6 DEF AddCostLoads
<1>7. ASSUME NEW c \in Caller, SaveOpens(c) PROVE LockInv' /\ DatesInv'
  BY <1>7 DEF SaveOpens, Unreadable
<1>8. ASSUME NEW c \in Caller, SaveWrites(c) PROVE LockInv' /\ DatesInv'
  BY <1>8 DEF SaveWrites
<1>9. ASSUME NEW c \in Caller, SaveFails(c) PROVE LockInv' /\ DatesInv'
  BY <1>9 DEF SaveFails
<1>10. ASSUME NEW c \in Caller, ReadAfter(c) PROVE LockInv' /\ DatesInv'
  BY <1>10 DEF ReadAfter
<1>11. ASSUME NEW c \in CronTurn, TurnCancelled(c) PROVE LockInv' /\ DatesInv'
  BY <1>11 DEF TurnCancelled
<1>12. ASSUME Midnight PROVE LockInv' /\ DatesInv'
  BY <1>12 DEF Midnight, State
<1>13. ASSUME Restart PROVE LockInv' /\ DatesInv'
  BY <1>13 DEF Restart
<1>14. ASSUME UNCHANGED vars PROVE LockInv' /\ DatesInv'
  BY <1>14 DEF vars
<1>. QED
  BY <1>1, <1>2, <1>3, <1>4, <1>5, <1>6, <1>7, <1>8, <1>9, <1>10, <1>11, <1>12, <1>13, <1>14
  DEF Next, Charge

\* Every step keeps the reserve sufficient.
LEMMA ReserveStep ==
  ASSUME BudgetInv, [Next]_vars, TypeOK', LockInv'
  PROVE  ReserveInv'
<1>0. NoCaller \notin Caller /\ CronTurn \subseteq Caller
  BY BudgetAssumption DEF BudgetAssumption
<1>a. Booked \in Nat /\ LoadState(file) \in Nat /\ LoadState(file) <= Booked
  BY BookedType DEF BudgetInv, ReserveInv
<1>. DEFINE Quiet == Engaged' \subseteq Engaged /\ Booked' <= Booked /\ (LoadState(file) <= Booked)'
<1>b. SUFFICES ASSUME ~\E c \in Caller : CheckBudget(c) \/ SaveWrites(c)
               PROVE  Quiet
  BY GateStep, WriteStep, QuietStep
<1>. USE DEF Goto, At, Engaged, LoadState, Booked
<1>1. ASSUME NEW c \in Caller, NextTurn(c) PROVE Quiet
  BY <1>1, <1>a DEF NextTurn, BudgetInv, TypeOK
<1>2. ASSUME NEW c \in Caller, NEW cost \in Cost, LLMAnswers(c, cost) PROVE Quiet
  BY <1>2, <1>a DEF LLMAnswers, BudgetInv, TypeOK
<1>3. ASSUME NEW c \in Caller, LLMUncharged(c) PROVE Quiet
  BY <1>3, <1>a DEF LLMUncharged, BudgetInv, TypeOK
<1>4. ASSUME NEW c \in Caller, ReadBefore(c) PROVE Quiet
  BY <1>4, <1>a DEF ReadBefore, BudgetInv, TypeOK
<1>5. ASSUME NEW c \in Caller, AddCostLoads(c) PROVE Quiet
  BY <1>5, <1>0, <1>a DEF AddCostLoads, LockFree, BudgetInv, TypeOK
<1>6. ASSUME NEW c \in Caller, SaveOpens(c) PROVE Quiet
  BY <1>6, <1>a DEF SaveOpens, Unreadable, BudgetInv, TypeOK
<1>7. ASSUME NEW c \in Caller, SaveFails(c) PROVE Quiet
  BY <1>7, <1>a DEF SaveFails, BudgetInv, TypeOK
<1>8. ASSUME NEW c \in Caller, ReadAfter(c) PROVE Quiet
  BY <1>8, <1>a DEF ReadAfter, BudgetInv, TypeOK
<1>9. ASSUME NEW c \in CronTurn, TurnCancelled(c) PROVE Quiet
  BY <1>9, <1>0, <1>a DEF TurnCancelled, BudgetInv, TypeOK
<1>10. ASSUME Midnight PROVE Quiet
  BY <1>10, <1>a DEF Midnight, BudgetInv, TypeOK, DatesInv, State
<1>11. ASSUME Restart PROVE Quiet
  BY <1>11, <1>0, <1>a DEF Restart, BudgetInv, TypeOK
<1>12. ASSUME UNCHANGED vars PROVE Quiet
  BY <1>12, <1>a DEF vars
<1>. QED
  BY <1>b, <1>1, <1>2, <1>3, <1>4, <1>5, <1>6, <1>7, <1>8, <1>9, <1>10, <1>11, <1>12
  DEF Next, Charge

-----------------------------------------------------------------------------
\* The strengthening is inductive.
LEMMA BudgetStep == BudgetInv /\ [Next]_vars => BudgetInv'
<1>. SUFFICES ASSUME BudgetInv, [Next]_vars PROVE BudgetInv'
  OBVIOUS
<1>1. TypeOK'
  BY TypeStep DEF BudgetInv
<1>2. LockInv' /\ DatesInv'
  BY LockStep
<1>3. ReserveInv'
  BY <1>1, <1>2, ReserveStep
<1>. QED
  BY <1>1, <1>2, <1>3 DEF BudgetInv

\* The inductive invariant holds in every reachable state.
LEMMA BudgetInvariant == Spec => []BudgetInv
BY InitInv, BudgetStep, PTL DEF Spec

\* The state file, the lock and the callers' iterations are well typed: a sum of
\* money is never negative.
THEOREM TypeCorrect == Spec => []TypeOK
<1>1. BudgetInv => TypeOK
  BY DEF BudgetInv
<1>. QED
  BY <1>1, BudgetInvariant, PTL

\* Check and charge are separate steps, and the day's sum that the gate reads
\* never passes the limit by more than one call of every caller, across midnight,
\* failed saves, cancelled turns and restarts.
THEOREM UsageCorrect == Spec => []UsageBounded
<1>1. BudgetInv => UsageBounded
  <2>. SUFFICES ASSUME BudgetInv PROVE UsageBounded
    OBVIOUS
  <2>1. Engaged \in SUBSET Caller
    BY DEF Engaged
  <2>2. Cardinality(Engaged) \in Nat /\ Cardinality(Caller) \in Nat
    BY <2>1, CountCallers
  <2>3. Reserve(Cardinality(Engaged)) \in Nat /\ Reserve(Cardinality(Caller)) \in Nat
    BY <2>2, ReserveGrows
  <2>4. Booked \in Nat /\ LoadState(file) \in Nat
    BY BookedType DEF BudgetInv
  <2>5. Limit \in Nat
    BY BudgetAssumption DEF BudgetAssumption
  <2>6. LoadState(file) <= Limit - 1 + Reserve(Cardinality(Caller))
    BY <2>3, <2>4, <2>5 DEF BudgetInv, ReserveInv
  <2>. QED
    BY <2>6 DEF UsageBounded, Ceiling, Reserve
<1>. QED
  BY <1>1, BudgetInvariant, PTL

-----------------------------------------------------------------------------
(* Sums over callers.  MapThenSumSet takes one element after the other, in *)
(* an order that CHOOSE leaves open; v gives each caller a record with a   *)
(* cost, so that call can stand for it before and after a step.            *)

\* The element that the recursion takes first.
One(s) == CHOOSE x \in s : TRUE

\* The recursion of MapThenFoldSet.
Adds(v, s, it) == IF s = {} THEN 0 ELSE v[One(s)].cost + it[s \ {One(s)}]

\* it solves the recursion for S and the sets below it.
Recursion(v, S, it) == it = [s \in SUBSET S |-> Adds(v, s, it)]

\* The sum of the costs of S.
Total(v, S) == (CHOOSE it : Recursion(v, S, it))[S]

\* Every caller's cost is a number.
Costs(v) == \A c \in Caller : v[c].cost \in Nat

\* What the callers of S owe is their total.
LEMMA OwedIsTotal ==
  /\ \A S : MapThenSumSet(Owed, S) = Total(call, S)
  /\ (\A S : MapThenSumSet(Owed, S) = Total(call, S))'
BY Zenon DEF MapThenSumSet, MapThenFoldSet, Owed, Total, Recursion, Adds, One

\* A set of naturals has a least element.
LEMMA LeastOfNats ==
  ASSUME NEW T \in SUBSET Nat, T # {}
  PROVE  \E x \in T : \A y \in T : x <= y
<1>. DEFINE R == OpToRel(<, Nat)
<1>1. PICK x \in T : \A y \in T : <<y, x>> \notin R
  BY WFMin, NatLessThanWellFounded, Zenon
<1>2. \A y \in T : ~ (y < x)
  BY <1>1, Zenon DEF OpToRel
<1>. QED
  BY <1>2

\* Whatever holds of a set of callers when it holds of all sets with one caller less
\* holds of all of them: good are the sets of which it holds.
LEMMA BySize ==
  ASSUME NEW good,
         \A s \in SUBSET Caller : (\A x \in s : s \ {x} \in good) => s \in good
  PROVE  \A s \in SUBSET Caller : s \in good
<1>. SUFFICES ASSUME NEW b \in SUBSET Caller, b \notin good PROVE FALSE
  OBVIOUS
<1>. DEFINE T == {Cardinality(s) : s \in {r \in SUBSET Caller : r \notin good}}
<1>1. T \in SUBSET Nat /\ T # {}
  BY CountCallers
<1>2. PICK n \in T : \A m \in T : n <= m
  BY <1>1, LeastOfNats
<1>3. PICK s \in SUBSET Caller : s \notin good /\ n = Cardinality(s)
  BY <1>2
<1>4. PICK x \in s : s \ {x} \notin good
  BY <1>3
<1>5. Cardinality(s \ {x}) = n - 1 /\ n \in Nat
  BY <1>3, CountCallers, FS_RemoveElement
<1>6. Cardinality(s \ {x}) \in T
  BY <1>4
<1>. HIDE DEF T
<1>7. n <= n - 1
  BY <1>2, <1>5, <1>6
<1>. QED
  BY <1>5, <1>7

\* The sets of at most n callers.
Small(n) == {s \in SUBSET Caller : Cardinality(s) <= n}

\* What is chosen of a set is in it, and without it the set is smaller.
LEMMA OneLess ==
  ASSUME NEW s \in SUBSET Caller, s # {}
  PROVE  /\ One(s) \in s /\ s \ {One(s)} \in SUBSET Caller
         /\ Cardinality(s) \in Nat /\ Cardinality(s \ {One(s)}) = Cardinality(s) - 1
<1>1. One(s) \in s
  BY Zenon DEF One
<1>. QED
  BY <1>1, CountCallers, FS_RemoveElement

\* The recursion has a solution, since it goes from larger sets to smaller ones.
LEMMA SumExists ==
  ASSUME NEW v
  PROVE  \E g : \A s \in SUBSET Caller : g[s] = Adds(v, s, g)
<1>. DEFINE Solves(n, g) == g = [s \in Small(n) |-> Adds(v, s, g)]
            T == {n \in Nat : ~ \E g : Solves(n, g)}
<1>1. T = {}
  <2>. SUFFICES ASSUME T # {} PROVE FALSE
    OBVIOUS
  <2>1. PICK n \in T : \A m \in T : n <= m
    BY LeastOfNats
  <2>2. CASE n = 0
    <3>1. \A s \in Small(0) : s = {}
      <4>. SUFFICES ASSUME NEW s \in Small(0), s # {} PROVE FALSE
        OBVIOUS
      <4>1. Cardinality(s) \in Nat /\ Cardinality(s) - 1 \in Nat
        BY OneLess, CountCallers DEF Small
      <4>. QED
        BY <4>1 DEF Small
    <3>2. Solves(0, [s \in Small(0) |-> 0])
      BY <3>1 DEF Adds
    <3>. QED
      BY <2>2, <3>2
  <2>3. CASE n # 0
    <3>1. n - 1 \in Nat /\ n - 1 \notin T
      BY <2>1, <2>3
    <3>2. PICK g : Solves(n - 1, g)
      BY <3>1
    <3>. DEFINE h == [s \in Small(n) |-> Adds(v, s, g)]
    <3>3. ASSUME NEW s \in Small(n - 1) PROVE s \in Small(n) /\ g[s] = h[s]
      <4>1. Cardinality(s) \in Nat
        BY CountCallers DEF Small
      <4>2. s \in Small(n)
        BY <3>1, <4>1 DEF Small
      <4>3. g[s] = Adds(v, s, g)
        BY <3>2
      <4>. QED
        BY <4>2, <4>3
    <3>4. ASSUME NEW s \in Small(n) PROVE Adds(v, s, g) = Adds(v, s, h)
      <4>1. CASE s = {}
        BY <4>1 DEF Adds
      <4>2. CASE s # {}
        <5>1. s \ {One(s)} \in Small(n - 1)
          BY <3>1, <4>2, OneLess DEF Small
        <5>2. g[s \ {One(s)}] = h[s \ {One(s)}]
          BY <3>3, <5>1
        <5>. HIDE DEF h
        <5>. QED
          BY <5>2 DEF Adds
      <4>. QED
        BY <4>1, <4>2
    <3>5. h = [s \in Small(n) |-> Adds(v, s, h)]
      BY <3>4, Zenon
    <3>. QED
      BY <2>1, <3>5
  <2>. QED
    BY <2>2, <2>3
<1>2. PICK g : Solves(Cardinality(Caller), g)
  BY <1>1, CountCallers
<1>3. ASSUME NEW s \in SUBSET Caller PROVE g[s] = Adds(v, s, g)
  BY <1>2, CountCallers DEF Small
<1>. QED
  BY <1>3

\* The total of a set is what the recursion says of it.
LEMMA TotalUnfolds ==
  ASSUME NEW v, NEW S \in SUBSET Caller
  PROVE  Total(v, S) = IF S = {} THEN 0 ELSE v[One(S)].cost + Total(v, S \ {One(S)})
<1>1. PICK g : \A s \in SUBSET Caller : g[s] = Adds(v, s, g)
  BY SumExists
<1>2. ASSUME NEW R \in SUBSET Caller PROVE Total(v, R) = g[R]
  <2>. DEFINE it == CHOOSE f : Recursion(v, R, f)
              h == [s \in SUBSET R |-> g[s]]
  <2>1. Recursion(v, R, h)
    <3>1. ASSUME NEW s \in SUBSET R PROVE g[s] = Adds(v, s, h)
      <4>1. s = {} \/ s \ {One(s)} \in SUBSET R
        OBVIOUS
      <4>2. g[s] = Adds(v, s, g)
        BY <1>1
      <4>. QED
        BY <4>1, <4>2 DEF Adds
    <3>. QED
      BY <3>1 DEF Recursion
  <2>2. Recursion(v, R, it)
    BY <2>1, Zenon
  <2>. HIDE DEF it
  <2>. DEFINE good == {s \in SUBSET Caller : s \in SUBSET R => it[s] = g[s]}
  <2>3. ASSUME NEW s \in SUBSET Caller, \A x \in s : s \ {x} \in good PROVE s \in good
    <3>. SUFFICES ASSUME s \in SUBSET R PROVE it[s] = g[s]
      OBVIOUS
    <3>1. it[s] = Adds(v, s, it)
      BY <2>2 DEF Recursion
    <3>2. g[s] = Adds(v, s, g)
      BY <1>1
    <3>3. s # {} => it[s \ {One(s)}] = g[s \ {One(s)}]
      BY <2>3, OneLess
    <3>. QED
      BY <3>1, <3>2, <3>3 DEF Adds
  <2>4. R \in good
    <3>. HIDE DEF good
    <3>. QED
      BY <2>3, BySize
  <2>. QED
    BY <2>4 DEF Total, it
<1>3. g[S] = Adds(v, S, g)
  BY <1>1
<1>4. S # {} => S \ {One(S)} \in SUBSET Caller
  OBVIOUS
<1>. QED
  BY <1>2, <1>3, <1>4 DEF Adds

\* It is a number,
LEMMA TotalIsNat ==
  ASSUME NEW v, Costs(v)
  PROVE  \A S \in SUBSET Caller : Total(v, S) \in Nat
<1>. DEFINE good == {S \in SUBSET Caller : Total(v, S) \in Nat}
<1>1. ASSUME NEW S \in SUBSET Caller, \A x \in S : S \ {x} \in good PROVE S \in good
  <2>1. CASE S = {}
    <3>1. Total(v, S) = 0
      BY <2>1, TotalUnfolds, Zenon
    <3>. QED
      BY <3>1
  <2>2. CASE S # {}
    <3>1. PICK x \in S : Total(v, S) = v[x].cost + Total(v, S \ {x})
      BY <2>2, TotalUnfolds, OneLess
    <3>2. v[x].cost \in Nat /\ Total(v, S \ {x}) \in Nat
      BY <1>1 DEF Costs
    <3>. QED
      BY <3>1, <3>2
  <2>. QED
    BY <2>1, <2>2
<1>2. \A S \in SUBSET Caller : S \in good
  <2>. HIDE DEF good
  <2>. QED
    BY <1>1, BySize
<1>. QED
  BY <1>2

\* the same whichever caller is counted first,
LEMMA TotalWithout ==
  ASSUME NEW v, Costs(v)
  PROVE  \A S \in SUBSET Caller : \A x \in S : Total(v, S) = v[x].cost + Total(v, S \ {x})
<1>. DEFINE good ==
       {S \in SUBSET Caller : \A x \in S : Total(v, S) = v[x].cost + Total(v, S \ {x})}
<1>1. ASSUME NEW S \in SUBSET Caller, \A x \in S : S \ {x} \in good PROVE S \in good
  <2>. SUFFICES ASSUME NEW x \in S PROVE Total(v, S) = v[x].cost + Total(v, S \ {x})
    OBVIOUS
  <2>1. PICK y \in S : y = One(S) /\ Total(v, S) = v[y].cost + Total(v, S \ {y})
    BY TotalUnfolds, OneLess
  <2>2. CASE x = y
    BY <2>1, <2>2
  <2>3. CASE x # y
    <3>1. Total(v, S \ {y}) = v[x].cost + Total(v, (S \ {y}) \ {x})
      BY <1>1, <2>3
    <3>2. Total(v, S \ {x}) = v[y].cost + Total(v, (S \ {x}) \ {y})
      BY <1>1, <2>3
    <3>3. (S \ {y}) \ {x} = (S \ {x}) \ {y}
      OBVIOUS
    <3>4. Total(v, (S \ {x}) \ {y}) \in Nat /\ v[x].cost \in Nat /\ v[y].cost \in Nat
      BY TotalIsNat DEF Costs
    <3>. DEFINE r == Total(v, (S \ {x}) \ {y})
    <3>5. /\ Total(v, S) = v[y].cost + (v[x].cost + r)
          /\ Total(v, S \ {x}) = v[y].cost + r
      BY <2>1, <3>1, <3>2, <3>3, Zenon
    <3>. HIDE DEF r
    <3>6. r \in Nat
      BY <3>4 DEF r
    <3>. HIDE DEF good
    <3>. QED
      BY <3>4, <3>5, <3>6
  <2>. QED
    BY <2>2, <2>3
<1>2. \A S \in SUBSET Caller : S \in good
  <2>. HIDE DEF good
  <2>. QED
    BY <1>1, BySize
<1>. QED
  BY <1>2

\* and depends on nobody else's cost.
LEMMA TotalSame ==
  ASSUME NEW v, NEW w, NEW S \in SUBSET Caller, \A c \in S : v[c].cost = w[c].cost
  PROVE  Total(v, S) = Total(w, S)
<1>. DEFINE good == {R \in SUBSET Caller : R \subseteq S => Total(v, R) = Total(w, R)}
<1>1. ASSUME NEW R \in SUBSET Caller, \A x \in R : R \ {x} \in good PROVE R \in good
  <2>. SUFFICES ASSUME R \subseteq S PROVE Total(v, R) = Total(w, R)
    OBVIOUS
  <2>1. CASE R = {}
    BY <2>1, TotalUnfolds
  <2>2. CASE R # {}
    <3>1. PICK x \in R : /\ Total(v, R) = v[x].cost + Total(v, R \ {x})
                         /\ Total(w, R) = w[x].cost + Total(w, R \ {x})
      BY <2>2, TotalUnfolds, OneLess
    <3>2. v[x].cost = w[x].cost /\ Total(v, R \ {x}) = Total(w, R \ {x})
      BY <1>1
    <3>. QED
      BY <3>1, <3>2, Zenon
  <2>. QED
    BY <2>1, <2>2
<1>2. S \in good
  <2>. HIDE DEF good
  <2>. QED
    BY <1>1, BySize
<1>. QED
  BY <1>2

-----------------------------------------------------------------------------
(* No charge is lost.                                                      *)

\* The charge that holds the lock has loaded what is on file: nothing later than its own
\* day, and nothing more before it truncates it.
LoadedInv ==
  lock # NoCaller =>
    /\ file.ok => file.day <= loaded.day
    /\ \A c \in Caller : At(c, "loaded") /\ loaded.day = day => LoadState(file) <= loaded.usd

\* The callers that have paid today for what is not on file.
OwingCallers == {c \in Caller : Owing(c)}

\* NoChargeLost, with the sum as a total.
PaidCovered == paid <= OnFile + Total(call, OwingCallers)

\* The inductive strengthening of NoChargeLost.
LedgerInv == BudgetInv /\ LoadedInv /\ PaidCovered

\* It is NoChargeLost, before and after a step.
LEMMA CoveredIsKept == (PaidCovered <=> NoChargeLost) /\ (PaidCovered <=> NoChargeLost)'
<1>1. PaidCovered <=> NoChargeLost
  BY OwedIsTotal, Zenon DEF PaidCovered, NoChargeLost, OwingCallers
<1>2. (PaidCovered <=> NoChargeLost)'
  BY OwedIsTotal, Zenon DEF PaidCovered, NoChargeLost, OwingCallers
<1>. QED
  BY <1>1, <1>2

\* Amounts are numbers.
LEMMA OwedType ==
  ASSUME TypeOK
  PROVE  /\ Costs(call) /\ OwingCallers \in SUBSET Caller
         /\ OnFile \in Nat /\ Total(call, OwingCallers) \in Nat
<1>1. Costs(call)
  <2>1. ASSUME NEW c \in Caller PROVE call[c].cost \in Nat
    BY CostBound, BudgetAssumption DEF BudgetAssumption
  <2>. QED
    BY <2>1 DEF Costs
<1>2. OwingCallers \in SUBSET Caller
  BY DEF OwingCallers
<1>3. OnFile \in Nat
  BY LoadStateType DEF OnFile, TypeOK
<1>. QED
  BY <1>1, <1>2, <1>3, TotalIsNat

\* The same callers owe the same, and no more was paid than before.
LEMMA SameOwed ==
  ASSUME TypeOK, TypeOK', PaidCovered, paid' <= paid, OnFile <= OnFile',
         OwingCallers' = OwingCallers, \A c \in OwingCallers : call'[c].cost = call[c].cost
  PROVE  PaidCovered'
<1>1. OwingCallers \in SUBSET Caller /\ OnFile \in Nat /\ Total(call, OwingCallers) \in Nat
  BY OwedType
<1>2. Total(call', OwingCallers) = Total(call, OwingCallers)
  BY <1>1, TotalSame
<1>3. OnFile' \in Nat
  <2>1. LoadState(file)' \in Nat
    BY DEF TypeOK, LoadState, State
  <2>. QED
    BY <2>1 DEF OnFile, TypeOK
<1>. QED
  BY <1>1, <1>2, <1>3 DEF PaidCovered, TypeOK

\* What was paid today counts anew.
LEMMA NothingPaid ==
  ASSUME TypeOK', paid' = 0
  PROVE  PaidCovered'
<1>1. OnFile' \in Nat
  <2>1. LoadState(file)' \in Nat
    BY DEF TypeOK, LoadState, State
  <2>. QED
    BY <2>1 DEF OnFile, TypeOK
<1>2. Costs(call')
  <2>1. ASSUME NEW c \in Caller PROVE call'[c].cost \in Nat
    <3>1. call'[c].cost \in Cost \cup {0}
      BY DEF TypeOK
    <3>2. Cost \cup {0} \subseteq Nat
      BY BudgetAssumption DEF BudgetAssumption
    <3>. QED
      BY <3>1, <3>2
  <2>. QED
    BY <2>1 DEF Costs
<1>3. Total(call', OwingCallers') \in Nat
  BY <1>2, TotalIsNat DEF OwingCallers
<1>. QED
  BY <1>1, <1>3 DEF PaidCovered

\* One caller more owes what it has just paid.
LEMMA AnswerStep ==
  ASSUME LedgerInv, TypeOK', NEW c \in Caller, NEW cost \in Cost, LLMAnswers(c, cost)
  PROVE  PaidCovered'
<1>. DEFINE S == OwingCallers
<1>1. S \in SUBSET Caller /\ Costs(call) /\ OnFile \in Nat /\ Total(call, S) \in Nat
  BY OwedType DEF LedgerInv, BudgetInv
<1>2. c \notin S /\ OwingCallers' = S \cup {c} /\ OnFile' = OnFile
  BY DEF LedgerInv, BudgetInv, TypeOK, LLMAnswers, At, OwingCallers, Owing, OnFile, LoadState
<1>3. /\ call'[c].cost = cost /\ \A d \in S : call'[d].cost = call[d].cost
      /\ \A d \in Caller : d # c => call'[d].cost = call[d].cost
  BY <1>1, <1>2 DEF LedgerInv, BudgetInv, TypeOK, LLMAnswers
<1>4. cost \in Nat /\ paid' = paid + cost /\ paid \in Nat
  BY BudgetAssumption DEF LLMAnswers, LedgerInv, BudgetInv, TypeOK, BudgetAssumption
<1>5. Costs(call')
  BY <1>1, <1>3, <1>4 DEF Costs
<1>6. Total(call', S) = Total(call, S)
  BY <1>1, <1>3, TotalSame
<1>7. (S \cup {c}) \ {c} = S
  BY <1>2
<1>8. Total(call', S \cup {c}) = call'[c].cost + Total(call', (S \cup {c}) \ {c})
  BY <1>1, <1>5, TotalWithout
<1>9. Total(call', S \cup {c}) = cost + Total(call, S)
  BY <1>3, <1>6, <1>7, <1>8, Zenon
<1>10. paid <= OnFile + Total(call, S)
  BY DEF LedgerInv, PaidCovered
<1>. HIDE DEF S
<1>. QED
  BY <1>1, <1>2, <1>4, <1>9, <1>10 DEF PaidCovered

\* What is written to the file is no longer owed.
LEMMA BookStep ==
  ASSUME LedgerInv, TypeOK', LockInv', NEW c \in Caller, SaveWrites(c)
  PROVE  PaidCovered'
<1>. DEFINE S == OwingCallers
<1>1. S \in SUBSET Caller /\ Costs(call) /\ OnFile \in Nat /\ Total(call, S) \in Nat
  BY OwedType DEF LedgerInv, BudgetInv
<1>2. /\ \A d \in Caller : d # c => call[d].pc \notin {"loaded", "saving"}
      /\ \A d \in Caller : call'[d].pc \notin {"loaded", "saving"}
      /\ lock # NoCaller
  <2>1. lock = c /\ lock' = NoCaller /\ NoCaller \notin Caller
    BY BudgetAssumption DEF LedgerInv, BudgetInv, LockInv, Charging, SaveWrites, At,
                            BudgetAssumption
  <2>. QED
    BY <2>1 DEF LedgerInv, BudgetInv, LockInv, Charging
<1>3. \A d \in Caller : call'[d].cost = call[d].cost /\ (d # c => call'[d] = call[d])
  BY DEF SaveWrites, Goto, LedgerInv, BudgetInv, TypeOK
<1>4. /\ At(c, "saving") /\ paid' = paid /\ day' = day /\ loaded' = loaded
      /\ call'[c].pc = "after"
      /\ file' = [ok |-> TRUE, day |-> loaded.day, usd |-> loaded.usd + call[c].cost]
  BY DEF SaveWrites, Goto, LedgerInv, BudgetInv, TypeOK
<1>5. OnFile' = LoadState(file)'
  BY <1>2 DEF OnFile, At
<1>6. loaded.usd \in Nat /\ paid \in Nat /\ call[c].cost \in Nat
  BY <1>1 DEF LedgerInv, BudgetInv, TypeOK, Costs
<1>7. CASE loaded.day = day
  <2>1. c \in S /\ OwingCallers' = S \ {c}
    BY <1>2, <1>3, <1>4, <1>7 DEF OwingCallers, Owing, At
  <2>2. OnFile = loaded.usd /\ OnFile' = loaded.usd + call[c].cost
    BY <1>4, <1>5, <1>7 DEF OnFile, LoadState
  <2>3. Total(call', S \ {c}) = Total(call, S \ {c}) /\ Total(call, S \ {c}) \in Nat
    BY <1>1, <1>3, TotalSame, TotalIsNat
  <2>4. Total(call, S) = call[c].cost + Total(call, S \ {c})
    BY <1>1, <2>1, TotalWithout
  <2>5. paid <= OnFile + Total(call, S)
    BY DEF LedgerInv, PaidCovered
  <2>. HIDE DEF S
  <2>. QED
    BY <1>4, <1>6, <2>1, <2>2, <2>3, <2>4, <2>5 DEF PaidCovered
<1>8. CASE loaded.day # day
  <2>1. OwingCallers' = S
    BY <1>2, <1>3, <1>4, <1>8 DEF OwingCallers, Owing, At
  <2>2. OnFile = LoadState(file)
    BY <1>8 DEF OnFile
  <2>3. LoadState(file) = 0
    <3>1. loaded.day <= day /\ (file.ok => file.day <= loaded.day)
      BY <1>2 DEF LedgerInv, BudgetInv, DatesInv, LoadedInv
    <3>2. day \in Nat /\ loaded.day \in Nat /\ file.day \in Nat
      BY DEF LedgerInv, BudgetInv, TypeOK, State
    <3>3. ~(file.ok /\ file.day = day)
      BY <1>8, <3>1, <3>2
    <3>. QED
      BY <3>3 DEF LoadState
  <2>4. OnFile' = 0
    BY <1>4, <1>5, <1>8 DEF LoadState
  <2>. QED
    BY <1>3, <1>4, <1>6, <2>1, <2>2, <2>3, <2>4, SameOwed
       DEF LedgerInv, BudgetInv, OwingCallers
<1>. QED
  BY <1>7, <1>8

\* What the charge has loaded keeps to its day.
LEMMA LoadedStep ==
  ASSUME LedgerInv, [Next]_vars
  PROVE  LoadedInv'
<1>0. NoCaller \notin Caller /\ CronTurn \subseteq Caller
  BY BudgetAssumption DEF BudgetAssumption
<1>. USE <1>0 DEF LedgerInv, BudgetInv, TypeOK, LockInv, DatesInv, LoadedInv, Charging, LockFree,
                  At, Goto, LoadState
<1>1. ASSUME NEW c \in Caller, CheckBudget(c) PROVE LoadedInv'
  BY <1>1 DEF CheckBudget
<1>2. ASSUME NEW c \in Caller, NextTurn(c) PROVE LoadedInv'
  BY <1>2 DEF NextTurn
<1>3. ASSUME NEW c \in Caller, NEW cost \in Cost, LLMAnswers(c, cost) PROVE LoadedInv'
  BY <1>3 DEF LLMAnswers
<1>4. ASSUME NEW c \in Caller, LLMUncharged(c) PROVE LoadedInv'
  BY <1>4 DEF LLMUncharged
<1>5. ASSUME NEW c \in Caller, ReadBefore(c) PROVE LoadedInv'
  BY <1>5 DEF ReadBefore
<1>6. ASSUME NEW c \in Caller, AddCostLoads(c) PROVE LoadedInv'
  BY <1>6 DEF AddCostLoads, State
<1>7. ASSUME NEW c \in Caller, SaveOpens(c) PROVE LoadedInv'
  BY <1>7 DEF SaveOpens, Unreadable
<1>8. ASSUME NEW c \in Caller, SaveWrites(c) PROVE LoadedInv'
  BY <1>8 DEF SaveWrites
<1>9. ASSUME NEW c \in Caller, SaveFails(c) PROVE LoadedInv'
  BY <1>9 DEF SaveFails
<1>10. ASSUME NEW c \in Caller, ReadAfter(c) PROVE LoadedInv'
  BY <1>10 DEF ReadAfter
<1>11. ASSUME NEW c \in CronTurn, TurnCancelled(c) PROVE LoadedInv'
  BY <1>11 DEF TurnCancelled
<1>12. ASSUME Midnight PROVE LoadedInv'
  BY <1>12 DEF Midnight, State
<1>13. ASSUME Restart PROVE LoadedInv'
  BY <1>13 DEF Restart
<1>14. ASSUME UNCHANGED vars PROVE LoadedInv'
  BY <1>14 DEF vars
<1>. QED
  BY <1>1, <1>2, <1>3, <1>4, <1>5, <1>6, <1>7, <1>8, <1>9, <1>10, <1>11, <1>12, <1>13, <1>14
  DEF Next, Charge

\* Every other step leaves alone who owes, or begins to count anew.
LEMMA CoveredStep ==
  ASSUME LedgerInv, [Next]_vars, TypeOK', LockInv'
  PROVE  PaidCovered'
<1>0. NoCaller \notin Caller /\ CronTurn \subseteq Caller
  BY BudgetAssumption DEF BudgetAssumption
<1>. DEFINE Same == /\ paid' <= paid /\ OnFile <= OnFile' /\ OwingCallers' = OwingCallers
                    /\ \A c \in OwingCallers : call'[c].cost = call[c].cost
<1>a. /\ TypeOK /\ LockInv /\ DatesInv /\ LoadedInv /\ PaidCovered /\ paid \in Nat /\ OnFile \in Nat
      /\ LoadState(file) \in Nat
  BY OwedType, BookedType DEF LedgerInv, BudgetInv, TypeOK
<1>b. Same => PaidCovered'
  BY <1>a, SameOwed
<1>. HIDE DEF Same
<1>1. ASSUME NEW c \in Caller, CheckBudget(c) PROVE PaidCovered'
  <2>1. Same
    BY <1>1, <1>a DEF Same, CheckBudget, Goto, At, TypeOK, OwingCallers, Owing, OnFile, LoadState
  <2>. QED
    BY <2>1, <1>b
<1>2. ASSUME NEW c \in Caller, NextTurn(c) PROVE PaidCovered'
  <2>1. Same
    BY <1>2, <1>a DEF Same, NextTurn, Goto, At, TypeOK, OwingCallers, Owing, OnFile, LoadState
  <2>. QED
    BY <2>1, <1>b
<1>3. ASSUME NEW c \in Caller, NEW cost \in Cost, LLMAnswers(c, cost) PROVE PaidCovered'
  BY <1>3, AnswerStep
<1>4. ASSUME NEW c \in Caller, LLMUncharged(c) PROVE PaidCovered'
  <2>1. Same
    BY <1>4, <1>a DEF Same, LLMUncharged, Goto, At, TypeOK, OwingCallers, Owing, OnFile, LoadState
  <2>. QED
    BY <2>1, <1>b
<1>5. ASSUME NEW c \in Caller, ReadBefore(c) PROVE PaidCovered'
  <2>1. Same
    BY <1>5, <1>a DEF Same, ReadBefore, At, TypeOK, OwingCallers, Owing, OnFile, LoadState
  <2>. QED
    BY <2>1, <1>b
<1>6. ASSUME NEW c \in Caller, AddCostLoads(c) PROVE PaidCovered'
  <2>1. \A d \in Caller : call[d].pc \notin {"loaded", "saving"}
    BY <1>0, <1>6, <1>a DEF AddCostLoads, LockFree, LockInv, Charging
  <2>2. OwingCallers' = OwingCallers
    BY <1>6, <1>a, <2>1 DEF AddCostLoads, Goto, At, TypeOK, OwingCallers, Owing
  <2>3. OnFile' = OnFile
    BY <1>6, <1>a, <2>1 DEF AddCostLoads, Goto, At, TypeOK, OnFile, LoadState
  <2>4. paid' = paid /\ \A d \in OwingCallers : call'[d].cost = call[d].cost
    BY <1>6, <1>a DEF AddCostLoads, Goto, TypeOK, OwingCallers
  <2>5. Same
    BY <1>a, <2>2, <2>3, <2>4 DEF Same
  <2>. QED
    BY <2>5, <1>b
<1>7. ASSUME NEW c \in Caller, SaveOpens(c) PROVE PaidCovered'
  <2>1. lock = c /\ lock # NoCaller /\ \A d \in Caller : d # c => call[d].pc \notin {"loaded", "saving"}
    BY <1>0, <1>7, <1>a DEF SaveOpens, At, LockInv, Charging
  <2>2. OwingCallers' = OwingCallers
    BY <1>7, <1>a, <2>1 DEF SaveOpens, Goto, At, TypeOK, OwingCallers, Owing
  <2>3. OnFile = LoadState(file)
    BY <1>7, <2>1 DEF SaveOpens, OnFile, At
  <2>4. call'[c].pc = "saving" /\ loaded' = loaded /\ day' = day /\ file' = Unreadable
    BY <1>7, <1>a DEF SaveOpens, Goto, TypeOK
  <2>5. OnFile' = IF loaded.day = day THEN loaded.usd ELSE 0
    BY <2>4 DEF OnFile, At, LoadState, Unreadable
  <2>6. LoadState(file) <= OnFile'
    <3>1. CASE loaded.day = day
      BY <1>7, <1>a, <2>1, <2>5, <3>1 DEF LoadedInv, SaveOpens
    <3>2. CASE loaded.day # day
      <4>1. loaded.day <= day /\ (file.ok => file.day <= loaded.day)
        BY <1>a, <2>1 DEF LoadedInv, DatesInv
      <4>2. day \in Nat /\ loaded.day \in Nat /\ file.day \in Nat
        BY <1>a DEF TypeOK, State
      <4>3. ~(file.ok /\ file.day = day)
        BY <3>2, <4>1, <4>2
      <4>4. LoadState(file) = 0
        BY <4>3 DEF LoadState
      <4>. QED
        BY <2>5, <3>2, <4>4
    <3>. QED
      BY <3>1, <3>2
  <2>7. paid' = paid /\ \A d \in OwingCallers : call'[d].cost = call[d].cost
    BY <1>7, <1>a DEF SaveOpens, Goto, TypeOK, OwingCallers
  <2>8. Same
    BY <1>a, <2>2, <2>3, <2>6, <2>7 DEF Same
  <2>. QED
    BY <2>8, <1>b
<1>8. ASSUME NEW c \in Caller, SaveWrites(c) PROVE PaidCovered'
  BY <1>8, BookStep
<1>9. ASSUME NEW c \in Caller, SaveFails(c) PROVE PaidCovered'
  BY <1>9, NothingPaid DEF SaveFails
<1>10. ASSUME NEW c \in Caller, ReadAfter(c) PROVE PaidCovered'
  <2>1. Same
    BY <1>10, <1>a DEF Same, ReadAfter, At, TypeOK, OwingCallers, Owing, OnFile, LoadState
  <2>. QED
    BY <2>1, <1>b
<1>11. ASSUME NEW c \in CronTurn, TurnCancelled(c) PROVE PaidCovered'
  <2>1. CASE call[c].pc \in {"before", "charging", "loaded"}
    BY <1>11, <2>1, NothingPaid DEF TurnCancelled
  <2>2. CASE call[c].pc \notin {"before", "charging", "loaded"}
    <3>1. Same
      BY <1>0, <1>11, <1>a, <2>2 DEF Same, TurnCancelled, At, TypeOK, OwingCallers, Owing, OnFile, LoadState
    <3>. QED
      BY <3>1, <1>b
  <2>. QED
    BY <2>1, <2>2
<1>12. ASSUME Midnight PROVE PaidCovered'
  BY <1>12, NothingPaid DEF Midnight
<1>13. ASSUME Restart PROVE PaidCovered'
  BY <1>13, NothingPaid DEF Restart
<1>14. ASSUME UNCHANGED vars PROVE PaidCovered'
  <2>1. Same
    BY <1>14, <1>a DEF Same, vars, At, OwingCallers, Owing, OnFile, LoadState
  <2>. QED
    BY <2>1, <1>b
<1>. QED
  BY <1>1, <1>2, <1>3, <1>4, <1>5, <1>6, <1>7, <1>8, <1>9, <1>10, <1>11, <1>12, <1>13, <1>14
  DEF Next, Charge

\* No charge is lost or hidden while the file is intact, for any number of turns that charge
\* at the same time, across midnight, cancelled turns and restarts (budget.py, add_cost):
\* what today's answered calls cost is on file or belongs to callers about to charge it.
THEOREM ChargesCorrect == Spec => []NoChargeLost
<1>1. Init => LedgerInv
  <2>. SUFFICES ASSUME Init PROVE LedgerInv
    OBVIOUS
  <2>1. BudgetInv
    BY InitInv
  <2>2. LoadedInv
    BY DEF Init, LoadedInv
  <2>3. PaidCovered
    <3>1. paid = 0 /\ OnFile \in Nat /\ Total(call, OwingCallers) \in Nat
      BY <2>1, OwedType DEF Init, BudgetInv
    <3>. QED
      BY <3>1 DEF PaidCovered
  <2>. QED
    BY <2>1, <2>2, <2>3 DEF LedgerInv
<1>2. LedgerInv /\ [Next]_vars => LedgerInv'
  <2>. SUFFICES ASSUME LedgerInv, [Next]_vars PROVE LedgerInv'
    OBVIOUS
  <2>1. BudgetInv'
    BY BudgetStep DEF LedgerInv
  <2>2. LoadedInv' /\ PaidCovered'
    BY <2>1, LoadedStep, CoveredStep DEF BudgetInv
  <2>. QED
    BY <2>1, <2>2 DEF LedgerInv
<1>3. LedgerInv => NoChargeLost
  BY CoveredIsKept DEF LedgerInv
<1>. QED
  BY <1>1, <1>2, <1>3, PTL DEF Spec

=============================================================================
