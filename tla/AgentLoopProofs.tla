-------------------------- MODULE AgentLoopProofs ---------------------------
(***************************************************************************)
(* Safety of the turns of the agent loop, for any number of callers of     *)
(* process_direct beside the Queen.                                        *)
(***************************************************************************)
EXTENDS AgentLoop, SequenceTheorems, TLAPS

Result == {"none", "ok", "deferred", "failed", "raised", "forbidden", "not_admin"}

Breaker ==
  [action : Call \cup {"none"}, repeats : 0 .. MaxRepeats,
   error : {"none", "failed", "raised", "forbidden", "not_admin"},
   errors : 0 .. MaxErrors]

Turn ==
  [pc : {"connecting", "idle", "llm", "calls", "tool", "over"},
   kind : {"none", "text", "onboard", "system", "direct"},
   iter : Nat, todo : 0 .. MaxCalls, breaker : Breaker,
   call : Call \cup {"none"}, result : Result]

\* A turn that goes on has a breaker that has not tripped; in a batch a call is left; a
\* running tool has a call.
TurnSound(t, a) ==
  /\ t \in Turn /\ t.iter <= MaxIterations[a]
  /\ t.pc \in {"llm", "calls", "tool"} =>
       t.breaker.repeats < MaxRepeats /\ t.breaker.errors < MaxErrors
  /\ t.pc \in {"calls", "tool"} => t.todo > 0
  /\ t.pc = "tool" => t.call \in Call

TurnsSound ==
  /\ turn \in [Actor -> Turn]
  /\ \A a \in Actor : TurnSound(turn[a], a)

CountersSound ==
  /\ approved \in BOOLEAN /\ role \in {"admin", "user"}
  /\ taken \in 0 .. MaxMessages /\ answered \in Nat
  /\ directTurns \in 0 .. MaxDirectTurns
  /\ granted \in Actor \cup {"nobody", "admin", "left_behind"}

\* The inductive invariant.
LoopInv == TurnsSound /\ CountersSound /\ OneAnswerEach /\ ApprovalsEndWithTurn

-----------------------------------------------------------------------------
\* Replacing the turn of one actor by a sound one.
LEMMA Replaced ==
  ASSUME TurnsSound, NEW a \in Actor, NEW t, TurnSound(t, a), turn' = [turn EXCEPT ![a] = t]
  PROVE  /\ TurnsSound'
         /\ turn'[a] = t
         /\ \A b \in Actor : b # a => turn'[b] = turn[b]
<1>1. t \in Turn
  BY DEF TurnSound
<1>2. /\ turn' \in [Actor -> Turn] /\ turn'[a] = t
      /\ \A b \in Actor : b # a => turn'[b] = turn[b]
  BY <1>1 DEF TurnsSound
<1>3. ASSUME NEW b \in Actor PROVE TurnSound(turn'[b], b)
  BY <1>2 DEF TurnsSound
<1>4. TurnSound(turn[a], a)' <=> TurnSound(turn'[a], a)
  BY DEF TurnSound
<1>. QED
  BY <1>2, <1>3 DEF TurnsSound, TurnSound

\* No turn is a sound one.
LEMMA NoTurnSound ==
  ASSUME NEW a \in Actor
  PROVE  TurnSound(NoTurn, a)
<1>1. MaxIterations[a] \in Nat \ {0} /\ MaxCalls \in Nat \ {0}
  BY AgentLoopAssumption DEF AgentLoopAssumption, Actor
<1>. QED
  BY <1>1 DEF TurnSound, Turn, Breaker, NoTurn, NewBreaker, MaxRepeats, MaxErrors, Result

\* Nor is the wait for the MCP servers.
LEMMA StartingSound ==
  ASSUME NEW a \in Actor
  PROVE  TurnSound(Starting, a)
<1>1. NoTurn \in Turn /\ NoTurn.iter <= MaxIterations[a]
  BY NoTurnSound DEF TurnSound
<1>2. Starting \in Turn /\ Starting.pc = "connecting" /\ Starting.iter = NoTurn.iter
  BY <1>1 DEF Turn, Starting
<1>. QED
  BY <1>1, <1>2 DEF TurnSound

\* So is one that begins.
LEMMA FreshSound ==
  ASSUME NEW a \in Actor, NEW kind \in {"text", "onboard", "system", "direct"}
  PROVE  TurnSound([NoTurn EXCEPT !.pc = "llm", !.kind = kind], a)
<1>. DEFINE t == [NoTurn EXCEPT !.pc = "llm", !.kind = kind]
<1>1. NoTurn \in Turn /\ NoTurn.iter <= MaxIterations[a]
  BY NoTurnSound DEF TurnSound
<1>2. NoTurn.breaker.repeats = 0 /\ NoTurn.breaker.errors = 0
  BY DEF NoTurn, NewBreaker
<1>3. t \in Turn /\ t.pc = "llm" /\ t.iter = NoTurn.iter /\ t.breaker = NoTurn.breaker
  BY <1>1 DEF Turn
<1>. HIDE DEF t
<1>4. TurnSound(t, a)
  BY <1>1, <1>2, <1>3 DEF TurnSound, MaxRepeats, MaxErrors
<1>. QED
  BY <1>4 DEF t

\* check_action keeps the counters in their range; what does not trip stays below.
LEMMA ActionSound ==
  ASSUME NEW b \in Breaker, NEW c \in Call, b.repeats < MaxRepeats
  PROVE  /\ CheckedAction(b, c) \in Breaker
         /\ CheckedAction(b, c).errors = b.errors
         /\ ~ActionTrips(CheckedAction(b, c)) => CheckedAction(b, c).repeats < MaxRepeats
<1>. DEFINE n == CheckedAction(b, c)
<1>1. n \in Breaker /\ n.errors = b.errors
  <2>1. CASE b.action = c
    BY <2>1 DEF Breaker, CheckedAction, MaxRepeats, MaxErrors
  <2>2. CASE b.action # c
    <3>1. n = [b EXCEPT !.action = c, !.repeats = 1]
      BY <2>2 DEF CheckedAction
    <3>2. 1 \in 0 .. MaxRepeats
      BY DEF MaxRepeats
    <3>. QED
      BY <3>1, <3>2 DEF Breaker
  <2>. QED
    BY <2>1, <2>2
<1>2. n.repeats \in Int /\ MaxRepeats \in Int
  BY <1>1 DEF Breaker, MaxRepeats
<1>. QED
  BY <1>1, <1>2 DEF ActionTrips

\* So does check_result.
LEMMA ResultSound ==
  ASSUME NEW b \in Breaker, NEW r \in Result, b.errors < MaxErrors
  PROVE  /\ CheckedResult(b, r) \in Breaker
         /\ CheckedResult(b, r).repeats = b.repeats
         /\ ~ErrorTrips(CheckedResult(b, r)) => CheckedResult(b, r).errors < MaxErrors
<1>. DEFINE n == CheckedResult(b, r)
<1>1. n \in Breaker /\ n.repeats = b.repeats
  <2>1. CASE ~IsError(r)
    <3>1. n = [b EXCEPT !.error = "none", !.errors = 0]
      BY <2>1 DEF CheckedResult
    <3>2. 0 \in 0 .. MaxErrors
      BY DEF MaxErrors
    <3>. QED
      BY <3>1, <3>2 DEF Breaker
  <2>2. CASE IsError(r) /\ b.error = r
    BY <2>2 DEF Breaker, CheckedResult, MaxErrors
  <2>3. CASE IsError(r) /\ b.error # r
    <3>1. n = [b EXCEPT !.error = r, !.errors = 1]
      BY <2>3 DEF CheckedResult
    <3>2. r \in {"failed", "raised", "forbidden", "not_admin"}
      BY <2>3 DEF Result, IsError
    <3>3. 1 \in 0 .. MaxErrors
      BY DEF MaxErrors
    <3>. QED
      BY <3>1, <3>2, <3>3 DEF Breaker
  <2>. QED
    BY <2>1, <2>2, <2>3
<1>2. n.errors \in Int /\ MaxErrors \in Int
  BY <1>1 DEF Breaker, MaxErrors
<1>. QED
  BY <1>1, <1>2 DEF ErrorTrips

-----------------------------------------------------------------------------
(* The steps.                                                              *)

\* A turn that goes on, and may be given an approval.
LEMMA TurnGoesOn ==
  ASSUME LoopInv, NEW a \in Actor, NEW t, TurnSound(t, a),
         turn[a].pc \notin Waiting, t.pc \notin Waiting,
         turn' = [turn EXCEPT ![a] = t],
         approved' \in BOOLEAN, granted' \in {granted, a},
         UNCHANGED <<role, taken, answered, directTurns>>
  PROVE  LoopInv'
<1>1. /\ TurnsSound' /\ turn'[a] = t
      /\ \A b \in Actor : b # a => turn'[b] = turn[b]
  BY Replaced DEF LoopInv
<1>2. CountersSound'
  BY DEF LoopInv, CountersSound
<1>3. Queen \in Actor
  BY DEF Actor
<1>4. turn'[Queen].pc \in Waiting <=> turn[Queen].pc \in Waiting
  BY <1>1, <1>3
<1>5. OneAnswerEach'
  BY <1>4 DEF LoopInv, OneAnswerEach, Waiting
<1>6. ApprovalsEndWithTurn'
  BY <1>1 DEF LoopInv, ApprovalsEndWithTurn, Waiting
<1>. QED
  BY <1>1, <1>2, <1>5, <1>6 DEF LoopInv

\* A turn that is left, answered if it is the Queen's, and whose approval does not stay
\* its own.
LEMMA TurnIsLeft ==
  ASSUME LoopInv, NEW a \in Actor, turn[a].pc \notin Waiting, Leave(a), Answers(a),
         approved' \in BOOLEAN,
         granted' \in (Actor \ {a}) \cup {"nobody", "admin", "left_behind"},
         granted' \in Actor => granted' = granted,
         UNCHANGED <<role, taken, directTurns>>
  PROVE  LoopInv'
<1>1. TurnSound(NoTurn, a)
  BY NoTurnSound
<1>2. /\ TurnsSound' /\ turn'[a] = NoTurn
      /\ \A b \in Actor : b # a => turn'[b] = turn[b]
  BY <1>1, Replaced DEF LoopInv, Leave
<1>3. NoTurn.pc = "idle"
  BY DEF NoTurn
<1>4. Queen \in Actor
  BY DEF Actor
<1>5. CountersSound'
  BY DEF LoopInv, CountersSound, Answers
<1>6. OneAnswerEach'
  <2>1. CASE a = Queen
    BY <2>1, <1>2, <1>3 DEF LoopInv, OneAnswerEach, CountersSound, Answers, Waiting
  <2>2. CASE a # Queen
    BY <2>2, <1>2, <1>4 DEF LoopInv, OneAnswerEach, Answers
  <2>. QED
    BY <2>1, <2>2
<1>7. ApprovalsEndWithTurn'
  <2>1. granted' \in Actor => granted' # a /\ granted' = granted
    BY AgentLoopAssumption DEF AgentLoopAssumption, Actor
  <2>. QED
    BY <2>1, <1>2 DEF LoopInv, ApprovalsEndWithTurn
<1>. QED
  BY <1>2, <1>5, <1>6, <1>7 DEF LoopInv

\* What LeftBehind leaves behind is no actor's approval of its own.
LEMMA NotItsOwn ==
  ASSUME CountersSound, NEW a \in Actor
  PROVE  /\ LeftBehind(a) \in (Actor \ {a}) \cup {"nobody", "admin", "left_behind"}
         /\ LeftBehind(a) \in Actor => LeftBehind(a) = granted
BY AgentLoopAssumption DEF CountersSound, LeftBehind, AgentLoopAssumption, Actor

-----------------------------------------------------------------------------
\* No turn is under way in the initial state.
LEMMA LoopInit == Init => LoopInv
<1>. SUFFICES ASSUME Init PROVE LoopInv
  OBVIOUS
<1>. DEFINE first(a) == IF a = Queen THEN Starting ELSE NoTurn
<1>1. turn \in [Actor -> Turn] /\ \A a \in Actor : TurnSound(turn[a], a)
  <2>1. ASSUME NEW a \in Actor PROVE TurnSound(first(a), a) /\ first(a) \in Turn
    BY NoTurnSound, StartingSound DEF TurnSound
  <2>2. turn = [a \in Actor |-> first(a)]
    BY DEF Init
  <2>. QED
    BY <2>1, <2>2 DEF TurnSound
<1>2. CountersSound
  <2>1. approved \in BOOLEAN
    BY ZenonT(30) DEF Init
  <2>2. /\ 0 \in 0 .. MaxMessages /\ 0 \in 0 .. MaxDirectTurns
    BY AgentLoopAssumption DEF AgentLoopAssumption
  <2>. QED
    BY <2>1, <2>2 DEF Init, CountersSound
<1>3. turn[Queen].pc = "connecting"
  BY DEF Init, Actor, Starting, NoTurn
<1>4. OneAnswerEach
  BY <1>3 DEF Init, OneAnswerEach, Waiting
<1>5. ApprovalsEndWithTurn
  BY AgentLoopAssumption DEF AgentLoopAssumption, Init, ApprovalsEndWithTurn, Actor
<1>. QED
  BY <1>1, <1>2, <1>4, <1>5 DEF LoopInv, TurnsSound

\* The connections are made, or are not; no message has been taken yet.
LEMMA ConnectsStep ==
  ASSUME LoopInv, Connects
  PROVE  LoopInv'
<1>1. Queen \in Actor /\ TurnSound(NoTurn, Queen)
  BY NoTurnSound DEF Actor
<1>2. /\ TurnsSound' /\ turn'[Queen] = NoTurn
      /\ \A b \in Actor : b # Queen => turn'[b] = turn[b]
  BY <1>1, Replaced DEF LoopInv, Connects, Leave
<1>3. NoTurn.pc = "idle" /\ turn[Queen].pc = "connecting"
  BY DEF NoTurn, Connects
<1>4. CountersSound'
  BY DEF LoopInv, CountersSound, Connects
<1>5. OneAnswerEach'
  BY <1>2, <1>3 DEF LoopInv, OneAnswerEach, Waiting, Connects
<1>6. granted # Queen
  BY <1>1, <1>3 DEF LoopInv, ApprovalsEndWithTurn, Waiting
<1>7. ApprovalsEndWithTurn'
  BY <1>2, <1>6 DEF LoopInv, ApprovalsEndWithTurn, Connects
<1>. QED
  BY <1>2, <1>4, <1>5, <1>7 DEF LoopInv

\* A turn that begins, the Queen's with a message.
LEMMA TurnBegins ==
  ASSUME LoopInv, NEW a \in Actor, NEW kind \in {"text", "onboard", "system", "direct"},
         turn[a].pc = "idle", Begin(a, kind),
         taken' = IF a = Queen THEN taken + 1 ELSE taken,
         taken' \in 0 .. MaxMessages, directTurns' \in 0 .. MaxDirectTurns,
         role' \in {"admin", "user"}, UNCHANGED <<approved, answered, granted>>
  PROVE  LoopInv'
<1>. DEFINE t == [NoTurn EXCEPT !.pc = "llm", !.kind = kind]
<1>1. TurnSound(t, a) /\ turn' = [turn EXCEPT ![a] = t]
  BY FreshSound DEF Begin
<1>2. t.pc = "llm"
  BY DEF NoTurn
<1>. HIDE DEF t
<1>3. /\ TurnsSound' /\ turn'[a] = t
      /\ \A b \in Actor : b # a => turn'[b] = turn[b]
  BY <1>1, Replaced DEF LoopInv
<1>4. Queen \in Actor
  BY DEF Actor
<1>5. CountersSound'
  BY DEF LoopInv, CountersSound
<1>6. OneAnswerEach'
  <2>1. CASE a = Queen
    BY <2>1, <1>2, <1>3 DEF LoopInv, OneAnswerEach, CountersSound, Waiting
  <2>2. CASE a # Queen
    BY <2>2, <1>3, <1>4 DEF LoopInv, OneAnswerEach
  <2>. QED
    BY <2>1, <2>2
<1>7. ApprovalsEndWithTurn'
  BY <1>2, <1>3 DEF LoopInv, ApprovalsEndWithTurn, Waiting
<1>. QED
  BY <1>3, <1>5, <1>6, <1>7 DEF LoopInv

\* A turn of the main agent begins with a message.
LEMMA QueenTakesStep ==
  ASSUME LoopInv, NEW m \in Inbound, QueenTakes(m)
  PROVE  LoopInv'
<1>. DEFINE kind == IF m.kind = "approve" THEN "text" ELSE m.kind
<1>1. kind \in {"text", "onboard", "system", "direct"}
  BY DEF Inbound
<1>2. role' \in {"admin", "user"}
  BY DEF QueenTakes, RoleAfter, Inbound, LoopInv, CountersSound
<1>3. Queen \in Actor /\ turn[Queen].pc = "idle" /\ Begin(Queen, kind)
  BY DEF Actor, QueenTakes, Takes
<1>4. taken' = taken + 1 /\ taken' \in 0 .. MaxMessages
  BY AgentLoopAssumption DEF AgentLoopAssumption, QueenTakes, Takes, LoopInv, CountersSound
<1>5. /\ UNCHANGED <<approved, answered, granted>>
      /\ directTurns' \in 0 .. MaxDirectTurns
  BY DEF QueenTakes, LoopInv, CountersSound
<1>. HIDE DEF kind
<1>. QED
  BY <1>1, <1>2, <1>3, <1>4, <1>5, TurnBegins

\* An APPROVE is answered at once, and no turn begins.
LEMMA QueenApprovesStep ==
  ASSUME LoopInv, NEW m \in Inbound, QueenApproves(m)
  PROVE  LoopInv'
<1>1. TurnsSound'
  BY DEF QueenApproves, LoopInv, TurnsSound, TurnSound
<1>2. taken' = taken + 1 /\ taken' \in 0 .. MaxMessages
  BY AgentLoopAssumption
  DEF AgentLoopAssumption, QueenApproves, Takes, LoopInv, CountersSound
<1>3. CountersSound'
  BY <1>2 DEF QueenApproves, Approves, LoopInv, CountersSound
<1>4. OneAnswerEach'
  BY DEF QueenApproves, Takes, LoopInv, OneAnswerEach, CountersSound, Waiting
<1>5. granted' \notin Actor
  BY AgentLoopAssumption DEF AgentLoopAssumption, QueenApproves, Actor
<1>. QED
  BY <1>1, <1>3, <1>4, <1>5 DEF LoopInv, ApprovalsEndWithTurn

\* A turn that does not go through the inbound queue begins.
LEMMA DirectBeginsStep ==
  ASSUME LoopInv, NEW a \in Direct, DirectBegins(a)
  PROVE  LoopInv'
<1>1. a \in Actor /\ a # Queen
  BY AgentLoopAssumption DEF AgentLoopAssumption, Actor
<1>2. directTurns' \in 0 .. MaxDirectTurns
  BY AgentLoopAssumption
  DEF AgentLoopAssumption, DirectBegins, Due, LoopInv, CountersSound
<1>3. /\ turn[a].pc = "idle" /\ Begin(a, "direct") /\ role' = "user"
      /\ UNCHANGED <<approved, taken, answered, granted>>
  BY DEF DirectBegins, Due
<1>4. taken \in 0 .. MaxMessages
  BY DEF LoopInv, CountersSound
<1>. QED
  BY <1>1, <1>2, <1>3, <1>4, TurnBegins

\* The LLM asks for a batch of calls, and the turn goes on.
LEMMA LLMCallsStep ==
  ASSUME LoopInv, NEW a \in Actor, NEW k \in 1 .. MaxCalls, LLMCalls(a, k)
  PROVE  LoopInv'
<1>. DEFINE s == turn[a]
            t == [s EXCEPT !.pc = "calls", !.iter = s.iter + 1, !.todo = k]
<1>1. s \in Turn /\ TurnSound(s, a) /\ s.pc = "llm" /\ s.iter < MaxIterations[a]
  BY DEF LoopInv, TurnsSound, LLMCalls
<1>2. MaxIterations[a] \in Nat /\ k \in 0 .. MaxCalls /\ k > 0
  BY AgentLoopAssumption DEF AgentLoopAssumption, Actor
<1>3. /\ t \in Turn /\ t.pc = "calls" /\ t.iter = s.iter + 1 /\ t.todo = k
      /\ t.breaker = s.breaker
  <2>1. s.iter + 1 \in Nat
    BY <1>1 DEF Turn
  <2>. HIDE DEF s
  <2>. QED
    BY <1>1, <1>2, <2>1 DEF Turn
<1>4. t.iter <= MaxIterations[a]
  BY <1>1, <1>2, <1>3 DEF Turn
<1>5. TurnSound(t, a)
  BY <1>1, <1>2, <1>3, <1>4 DEF TurnSound
<1>6. turn' = [turn EXCEPT ![a] = t]
  BY DEF LLMCalls, LoopInv, TurnsSound
<1>7. UNCHANGED <<approved, granted, role, taken, answered, directTurns>>
  BY DEF LLMCalls
<1>8. approved \in BOOLEAN
  BY DEF LoopInv, CountersSound
<1>. HIDE DEF t
<1>. QED
  BY <1>1, <1>3, <1>5, <1>6, <1>7, <1>8, TurnGoesOn DEF Waiting

\* The LLM answers, and the turn is over.
LEMMA LLMConcludesStep ==
  ASSUME LoopInv, NEW a \in Actor, LLMConcludes(a)
  PROVE  LoopInv'
<1>. DEFINE s == turn[a]
            t == [s EXCEPT !.pc = "over"]
<1>1. s \in Turn /\ TurnSound(s, a) /\ s.pc = "llm"
  BY DEF LoopInv, TurnsSound, LLMConcludes
<1>2. t \in Turn /\ t.pc = "over" /\ t.iter = s.iter
  BY <1>1 DEF Turn
<1>3. TurnSound(t, a)
  BY <1>1, <1>2 DEF TurnSound
<1>4. turn' = [turn EXCEPT ![a] = t]
  BY DEF LLMConcludes
<1>5. UNCHANGED <<approved, granted, role, taken, answered, directTurns>>
  BY DEF LLMConcludes
<1>6. approved \in BOOLEAN
  BY DEF LoopInv, CountersSound
<1>. HIDE DEF t
<1>. QED
  BY <1>1, <1>2, <1>3, <1>4, <1>5, <1>6, TurnGoesOn DEF Waiting

\* A call begins: the breaker counts it, or stops the turn.
LEMMA CallBeginsStep ==
  ASSUME LoopInv, NEW a \in Actor, NEW c \in Call, CallBegins(a, c)
  PROVE  LoopInv'
<1>. DEFINE s == turn[a]
            b == CheckedAction(s.breaker, c)
            over == [s EXCEPT !.pc = "over", !.breaker = b]
            tool == [s EXCEPT !.pc = "tool", !.breaker = b, !.call = c, !.result = Gated(c)]
<1>1. /\ s \in Turn /\ TurnSound(s, a) /\ s.pc = "calls" /\ s.todo > 0
      /\ s.breaker \in Breaker /\ s.breaker.repeats < MaxRepeats
      /\ s.breaker.errors < MaxErrors
  BY DEF LoopInv, TurnsSound, TurnSound, Turn, CallBegins
<1>2. /\ b \in Breaker /\ b.errors < MaxErrors
      /\ ~ActionTrips(b) => b.repeats < MaxRepeats
  BY <1>1, ActionSound
<1>3. Gated(c) \in Result
  BY DEF Gated, Result
<1>4. approved \in BOOLEAN /\ Grants(c) \in BOOLEAN
  BY DEF LoopInv, CountersSound, Grants
<1>5. UNCHANGED <<role, taken, answered, directTurns>>
  BY DEF CallBegins
<1>6. CASE ActionTrips(b)
  <2>1. over \in Turn /\ over.pc = "over" /\ over.iter = s.iter
    BY <1>1, <1>2 DEF Turn
  <2>2. TurnSound(over, a)
    BY <1>1, <2>1 DEF TurnSound
  <2>3. turn' = [turn EXCEPT ![a] = over] /\ UNCHANGED <<approved, granted>>
    BY <1>6 DEF CallBegins
  <2>. HIDE DEF over
  <2>. QED
    BY <1>1, <1>4, <1>5, <2>1, <2>2, <2>3, TurnGoesOn DEF Waiting
<1>7. CASE ~ActionTrips(b)
  <2>1. /\ tool \in Turn /\ tool.pc = "tool" /\ tool.iter = s.iter /\ tool.todo = s.todo
        /\ tool.breaker = b /\ tool.call = c
    BY <1>1, <1>2, <1>3 DEF Turn
  <2>2. TurnSound(tool, a)
    BY <1>1, <1>2, <1>7, <2>1 DEF TurnSound
  <2>3. turn' = [turn EXCEPT ![a] = tool]
    BY <1>7 DEF CallBegins
  <2>4. approved' = (approved \/ Grants(c)) /\ granted' \in {granted, a}
    BY <1>7 DEF CallBegins
  <2>5. approved' \in BOOLEAN
    BY <1>4, <2>4
  <2>. HIDE DEF tool
  <2>. QED
    BY <1>1, <1>5, <2>1, <2>2, <2>3, <2>4, <2>5, TurnGoesOn DEF Waiting
<1>. QED
  BY <1>6, <1>7

\* A call ends with its result, which the breaker counts.
LEMMA CallEndsStep ==
  ASSUME LoopInv, NEW a \in Actor,
         NEW r \in {"ok", "deferred", "failed", "raised", "forbidden", "not_admin"}, CallEnds(a, r)
  PROVE  LoopInv'
<1>. DEFINE s == turn[a]
            b == CheckedResult(s.breaker, r)
            todo == s.todo - 1
            pc == IF ErrorTrips(b) THEN "over" ELSE IF todo > 0 THEN "calls" ELSE "llm"
            t == [s EXCEPT !.pc = pc, !.breaker = b, !.todo = todo,
                           !.call = "none", !.result = "none"]
<1>1. /\ s \in Turn /\ TurnSound(s, a) /\ s.pc = "tool" /\ s.todo > 0
      /\ s.breaker \in Breaker /\ s.breaker.repeats < MaxRepeats
      /\ s.breaker.errors < MaxErrors
  BY DEF LoopInv, TurnsSound, TurnSound, Turn, CallEnds
<1>2. /\ b \in Breaker /\ b.repeats < MaxRepeats
      /\ ~ErrorTrips(b) => b.errors < MaxErrors
  BY <1>1, ResultSound DEF Result
<1>3. todo \in 0 .. MaxCalls
  BY <1>1, AgentLoopAssumption DEF AgentLoopAssumption, Turn
<1>4. pc \in {"over", "calls", "llm"} /\ (pc \in {"calls", "llm"} => ~ErrorTrips(b))
  OBVIOUS
<1>5. pc = "calls" => todo > 0
  OBVIOUS
<1>6. turn' = [turn EXCEPT ![a] = t]
  BY DEF CallEnds
<1>7. UNCHANGED <<approved, granted, role, taken, answered, directTurns>>
  BY DEF CallEnds
<1>8. approved \in BOOLEAN
  BY DEF LoopInv, CountersSound
<1>. HIDE DEF b, todo, pc
<1>9. /\ t \in Turn /\ t.pc = pc /\ t.iter = s.iter /\ t.todo = todo /\ t.breaker = b
  BY <1>1, <1>2, <1>3, <1>4 DEF Turn, Result
<1>. HIDE DEF t
<1>10. TurnSound(t, a)
  BY <1>1, <1>2, <1>4, <1>5, <1>9 DEF TurnSound
<1>11. s.pc \notin Waiting /\ t.pc \notin Waiting
  BY <1>1, <1>4, <1>9 DEF Waiting
<1>. QED
  BY <1>1, <1>6, <1>7, <1>8, <1>10, <1>11, TurnGoesOn

\* A turn ends, and takes its approval with it.
LEMMA TurnEndsStep ==
  ASSUME LoopInv, NEW a \in Actor, TurnEnds(a)
  PROVE  LoopInv'
<1>1. /\ turn[a].pc \notin Waiting /\ Leave(a) /\ Answers(a)
      /\ UNCHANGED <<role, taken, directTurns>>
  BY DEF TurnEnds, Waiting
<1>2. approved' \in BOOLEAN
  BY DEF TurnEnds, LoopInv, CountersSound
<1>3. granted' = "nobody" \/ granted' = LeftBehind(a)
  BY DEF TurnEnds, Clears
<1>4. /\ granted' \in (Actor \ {a}) \cup {"nobody", "admin", "left_behind"}
      /\ granted' \in Actor => granted' = granted
  BY <1>3, NotItsOwn, AgentLoopAssumption DEF AgentLoopAssumption, LoopInv, Actor
<1>. QED
  BY <1>1, <1>2, <1>4, TurnIsLeft

\* A turn ends with an exception.
LEMMA TurnFailsStep ==
  ASSUME LoopInv, NEW a \in Actor, TurnFails(a)
  PROVE  LoopInv'
<1>1. /\ turn[a].pc \notin Waiting /\ Leave(a) /\ Answers(a)
      /\ UNCHANGED <<role, taken, directTurns>>
  BY DEF TurnFails, Waiting
<1>2. approved' \in BOOLEAN
  BY DEF TurnFails, LoopInv, CountersSound
<1>3. /\ granted' \in (Actor \ {a}) \cup {"nobody", "admin", "left_behind"}
      /\ granted' \in Actor => granted' = granted
  BY NotItsOwn DEF TurnFails, LoopInv
<1>. QED
  BY <1>1, <1>2, <1>3, TurnIsLeft

\* A turn is cancelled, at any of its awaits.
LEMMA TurnCancelledStep ==
  ASSUME LoopInv, NEW a \in Direct, TurnCancelled(a)
  PROVE  LoopInv'
<1>1. a \in Actor /\ a # Queen
  BY AgentLoopAssumption DEF AgentLoopAssumption, Actor
<1>2. /\ turn[a].pc \notin Waiting /\ Leave(a) /\ Answers(a)
      /\ UNCHANGED <<role, taken, directTurns>>
  BY <1>1 DEF TurnCancelled, Answers, Waiting
<1>3. approved' \in BOOLEAN
  BY DEF TurnCancelled, LoopInv, CountersSound
<1>4. /\ granted' \in (Actor \ {a}) \cup {"nobody", "admin", "left_behind"}
      /\ granted' \in Actor => granted' = granted
  BY <1>1, NotItsOwn DEF TurnCancelled, LoopInv
<1>. QED
  BY <1>1, <1>2, <1>3, <1>4, TurnIsLeft

\* Every step preserves the invariant.
LEMMA LoopStep == LoopInv /\ [Next]_vars => LoopInv'
<1>. SUFFICES ASSUME LoopInv, [Next]_vars PROVE LoopInv'
  OBVIOUS
<1>1. CASE \E m \in Inbound : QueenTakes(m) \/ QueenApproves(m)
  BY <1>1, QueenTakesStep, QueenApprovesStep
<1>2. CASE \E a \in Direct : DirectBegins(a) \/ TurnCancelled(a)
  BY <1>2, DirectBeginsStep, TurnCancelledStep
<1>3. ASSUME NEW a \in Actor, Continues(a) PROVE LoopInv'
  <2>1. CASE \E k \in 1 .. MaxCalls : LLMCalls(a, k)
    BY <2>1, LLMCallsStep
  <2>2. CASE LLMConcludes(a)
    BY <2>2, LLMConcludesStep
  <2>3. CASE \E c \in Call : CallBegins(a, c)
    BY <2>3, CallBeginsStep
  <2>4. CASE \E r \in {"ok", "deferred", "failed", "raised", "forbidden", "not_admin"} : CallEnds(a, r)
    BY <2>4, CallEndsStep
  <2>5. CASE TurnEnds(a)
    BY <2>5, TurnEndsStep
  <2>6. CASE TurnFails(a)
    BY <2>6, TurnFailsStep
  <2>. QED
    BY <1>3, <2>1, <2>2, <2>3, <2>4, <2>5, <2>6 DEF Continues
<1>4. CASE UNCHANGED vars
  BY <1>4 DEF vars, LoopInv, TurnsSound, TurnSound, CountersSound, OneAnswerEach,
              ApprovalsEndWithTurn
<1>5. CASE Connects
  BY <1>5, ConnectsStep
<1>. QED
  BY <1>1, <1>2, <1>3, <1>4, <1>5 DEF Next

\* The inductive invariant holds in every reachable state.
LEMMA LoopSafe == Spec => []LoopInv
BY LoopInit, LoopStep, PTL DEF Spec

-----------------------------------------------------------------------------
\* The state of the turns, of the breakers and of the gate keeps its types: no turn makes
\* more LLM calls than max_iterations, and no breaker counts past its threshold.
THEOREM TypeCorrect == Spec => []AgentLoopTypeOK
<1>1. LoopInv => AgentLoopTypeOK
  <2>. SUFFICES ASSUME LoopInv PROVE AgentLoopTypeOK
    OBVIOUS
  <2>1. answered <= taken /\ taken <= MaxMessages
    BY AgentLoopAssumption
    DEF AgentLoopAssumption, LoopInv, CountersSound, OneAnswerEach
  <2>. QED
    BY <2>1 DEF LoopInv, CountersSound, TurnsSound, TurnSound, Turn, Breaker, Result,
                AgentLoopTypeOK
<1>. QED
  BY <1>1, LoopSafe, PTL

\* run() answers each message it takes exactly once, whatever raises and however the turns
\* of process_direct overlap with the Queen's.
THEOREM AnswersCorrect == Spec => []OneAnswerEach
<1>1. LoopInv => OneAnswerEach
  BY DEF LoopInv
<1>. QED
  BY <1>1, LoopSafe, PTL

\* An approval that session_approve gave is never held by a turn that has ended.
THEOREM ApprovalsCorrect == Spec => []ApprovalsEndWithTurn
<1>1. LoopInv => ApprovalsEndWithTurn
  BY DEF LoopInv
<1>. QED
  BY <1>1, LoopSafe, PTL

-----------------------------------------------------------------------------
(* The circuit breaker.  Its counters stand for what the trail of a turn   *)
(* remembers of its last calls.                                            *)

Record == [call : Call, result : Result]

\* Of k calls: the one counted last, and whether it is a repetition.
CallsTold(s, k, b) ==
  /\ k >= 1 => b.action = s[k].call /\ b.repeats >= 1
  /\ k >= 2 /\ s[k - 1].call = s[k].call => b.repeats >= 2

\* Of m calls that have ended: whether the last one failed, and the one before alike.
ErrorsTold(s, m, b) ==
  /\ b.errors >= 1 <=> m >= 1 /\ IsError(s[m].result)
  /\ b.errors >= 1 => b.error = s[m].result
  /\ b.errors >= 2 <=> m >= 2 /\ IsError(s[m].result) /\ s[m - 1].result = s[m].result

Trail(s, k) == s \in Seq(Record) /\ Len(s) = k /\ ~SameCalls(s)

Told(s, k, t) ==
  /\ Trail(s, k)
  /\ t.pc = "tool" => k >= 1
  /\ t.pc \in {"llm", "calls", "tool"} =>
       /\ CallsTold(s, k, t.breaker)
       /\ ErrorsTold(s, IF t.pc = "tool" THEN k - 1 ELSE k, t.breaker)

TrailSound(s, t) == \E k \in 0 .. 3 : Told(s, k, t)

TrailsSound ==
  /\ trail \in [Actor -> Seq(Record)]
  /\ \A a \in Actor : TrailSound(trail[a], turn[a])

\* What is kept of a trail before it grows: its last two calls.
LEMMA Last2Kept ==
  ASSUME NEW s, NEW k \in 0 .. 3, Trail(s, k)
  PROVE  \E j \in 0 .. 2 :
           /\ Last2(s) \in Seq(Record) /\ Len(Last2(s)) = j
           /\ k >= 1 <=> j >= 1
           /\ k >= 2 <=> j = 2
           /\ k >= 1 => Last2(s)[j] = s[k]
           /\ k >= 2 => Last2(s)[j - 1] = s[k - 1]
<1>1. CASE k <= 2
  <2>1. Last2(s) = s /\ k \in 0 .. 2 /\ (k >= 2 <=> k = 2)
    BY <1>1 DEF Last2, Trail
  <2>. QED
    BY <2>1 DEF Trail
<1>2. CASE k = 3
  <2>1. s \in Seq(Record) /\ Len(s) = 3
    BY <1>2 DEF Trail
  <2>2. s # <<>>
    BY <2>1, EmptySeq
  <2>3. /\ Tail(s) \in Seq(Record) /\ Len(Tail(s)) = Len(s) - 1
        /\ \A i \in 1 .. Len(Tail(s)) : Tail(s)[i] = s[i + 1]
    BY <2>1, <2>2, HeadTailProperties
  <2>4. PICK v : v = Tail(s)
    OBVIOUS
  <2>5. Len(v) = 2 /\ \A i \in 1 .. 2 : v[i] = s[i + 1]
    BY <2>1, <2>3, <2>4
  <2>6. v[2] = s[3] /\ v[1] = s[2]
    BY <2>5
  <2>7. Last2(s) = v
    BY <2>1, <2>4 DEF Last2
  <2>8. Last2(s) \in Seq(Record) /\ Len(Last2(s)) = 2
    BY <2>3, <2>4, <2>5, <2>7
  <2>9. /\ k >= 1 /\ k >= 2 /\ 2 >= 1 /\ 2 \in 0 .. 2
        /\ Last2(s)[2] = s[k] /\ Last2(s)[2 - 1] = s[k - 1]
    BY <1>2, <2>6, <2>7
  <2>. QED
    BY Zenon, <2>8, <2>9
<1>. QED
  BY <1>1, <1>2

\* A call that the breaker lets pass is not the third of its kind.
LEMMA CallTrailed ==
  ASSUME NEW s, NEW t, NEW next, NEW c \in Call, TrailSound(s, t), t.pc = "calls",
         t.breaker \in Breaker,
         next.pc = "tool", next.breaker = CheckedAction(t.breaker, c),
         ~ActionTrips(next.breaker)
  PROVE  TrailSound(Append(Last2(s), [call |-> c, result |-> "none"]), next)
<1>. DEFINE x == [call |-> c, result |-> "none"]
            v == Last2(s)
            u == Append(v, x)
            b == t.breaker
            n == CheckedAction(b, c)
<1>1. PICK k \in 0 .. 3 : Trail(s, k) /\ CallsTold(s, k, b) /\ ErrorsTold(s, k, b)
  BY DEF TrailSound, Told
<1>2. x \in Record /\ x.call = c
  BY DEF Record, Result
<1>3. PICK j \in 0 .. 2 :
        /\ v \in Seq(Record) /\ Len(v) = j
        /\ k >= 1 <=> j >= 1
        /\ k >= 2 <=> j = 2
        /\ k >= 1 => v[j] = s[k]
        /\ k >= 2 => v[j - 1] = s[k - 1]
  BY <1>1, Last2Kept
<1>. HIDE DEF v, x
<1>4. /\ u \in Seq(Record) /\ Len(u) = j + 1
      /\ \A i \in 1 .. j : u[i] = v[i]
      /\ u[j + 1] = x
  <2>1. v \in Seq(Record) /\ Len(v) = j
    BY <1>3
  <2>. QED
    BY <1>2, <2>1, AppendProperties
<1>. HIDE DEF u
<1>5. /\ b.repeats \in Nat
      /\ n.action = c /\ n.error = b.error /\ n.errors = b.errors
      /\ n.repeats = IF b.action = c THEN b.repeats + 1 ELSE 1
  BY DEF Breaker, CheckedAction
<1>. HIDE DEF n, b
<1>6. /\ u[j + 1].call = c
      /\ j >= 1 => u[j] = s[k]
      /\ j = 2 => u[j - 1] = s[k - 1]
  BY <1>2, <1>3, <1>4
<1>7. CallsTold(u, j + 1, n)
  <2>1. n.repeats >= 1
    BY <1>5
  <2>2. ASSUME j >= 1, u[j].call = c PROVE n.repeats >= 2
    <3>1. b.action = c /\ b.repeats >= 1
      BY <2>2, <1>1, <1>3, <1>6 DEF CallsTold
    <3>. QED
      BY <3>1, <1>5
  <2>3. j + 1 - 1 = j /\ (j + 1 >= 2 <=> j >= 1)
    OBVIOUS
  <2>. QED
    BY <2>1, <2>2, <2>3, <1>5, <1>6 DEF CallsTold
<1>8. ASSUME SameCalls(u) PROVE FALSE
  <2>1. j + 1 = 3 /\ u[1].call = u[2].call /\ u[1].call = u[3].call
    BY <1>8, <1>4 DEF SameCalls
  <2>2. j = 2 /\ k >= 2
    BY <2>1, <1>3
  <2>3. u[1].call = c /\ u[2].call = c
    BY <2>1, <2>2, <1>6
  <2>4. s[k].call = c /\ s[k - 1].call = c
    BY <2>2, <2>3, <1>6
  <2>5. b.action = c /\ b.repeats >= 2
    BY <2>2, <2>4, <1>1 DEF CallsTold
  <2>. QED
    BY <2>5, <1>5 DEF ActionTrips, MaxRepeats, n, b
<1>9. ErrorsTold(u, j, n)
  <2>1. j >= 2 <=> j = 2
    OBVIOUS
  <2>. QED
    BY <2>1, <1>1, <1>3, <1>5, <1>6 DEF ErrorsTold
<1>10. j + 1 \in 0 .. 3 /\ j + 1 >= 1 /\ j + 1 - 1 = j
  OBVIOUS
<1>11. Told(u, j + 1, next)
  BY <1>4, <1>7, <1>8, <1>9, <1>10 DEF Told, Trail, n, b
<1>. QED
  BY <1>10, <1>11 DEF TrailSound, u, v, x

\* The breaker trips at a result exactly if it is the third error of its kind in a row.
LEMMA ResultTrailed ==
  ASSUME NEW s, NEW t, NEW next, TrailSound(s, t), t.pc = "tool", t.breaker \in Breaker,
         t.breaker.errors < MaxErrors,
         NEW r \in Result \ {"none"},
         next.pc # "tool", next.breaker = CheckedResult(t.breaker, r)
  PROVE  LET u == [s EXCEPT ![Len(s)].result = r] IN
         TrailSound(u, next) /\ (ErrorTrips(next.breaker) <=> SameErrors(u))
<1>. DEFINE u == [s EXCEPT ![Len(s)].result = r]
            b == t.breaker
            n == CheckedResult(b, r)
<1>1. PICK m \in 1 .. 3 : Trail(s, m) /\ CallsTold(s, m, b) /\ ErrorsTold(s, m - 1, b)
  BY DEF TrailSound, Told
<1>2. s[m] \in Record
  BY <1>1, ElementOfSeq DEF Trail
<1>3. /\ u \in Seq(Record) /\ Len(u) = m
      /\ \A i \in 1 .. m : i # m => u[i] = s[i]
      /\ u[m].call = s[m].call /\ u[m].result = r
  <2>. DEFINE y == [s[m] EXCEPT !.result = r]
  <2>1. y \in Record /\ y.call = s[m].call /\ y.result = r
    BY <1>2 DEF Record
  <2>2. u = [s EXCEPT ![m] = y] /\ s \in Seq(Record) /\ Len(s) = m
    BY <1>1 DEF Trail
  <2>. HIDE DEF y, u
  <2>3. /\ u \in Seq(Record) /\ Len(u) = m
        /\ \A i \in 1 .. m : u[i] = IF i = m THEN y ELSE s[i]
    BY <2>1, <2>2, ExceptSeq
  <2>. QED
    BY <2>1, <2>3
<1>4. /\ b.errors \in 0 .. 2 /\ n.action = b.action /\ n.repeats = b.repeats
      /\ ~IsError(r) => n.errors = 0
      /\ IsError(r) => n.error = r
      /\ IsError(r) /\ b.error = r => n.errors = b.errors + 1
      /\ IsError(r) /\ b.error # r => n.errors = 1
  BY DEF Breaker, CheckedResult, MaxErrors
<1>. HIDE DEF u, n, b
<1>5. \A i \in 1 .. m : u[i].call = s[i].call
  BY <1>3
<1>6. CallsTold(u, m, n)
  BY <1>1, <1>4, <1>5 DEF CallsTold
<1>7. ~SameCalls(u)
  <2>1. ASSUME SameCalls(u) PROVE SameCalls(s)
    <3>1. m = 3
      BY <2>1, <1>3 DEF SameCalls
    <3>. QED
      BY <2>1, <3>1, <1>1, <1>5 DEF SameCalls, Trail
  <2>. QED
    BY <2>1, <1>1 DEF Trail
<1>8. n.errors >= 2 <=> m >= 2 /\ IsError(r) /\ s[m - 1].result = r
  <2>1. CASE m >= 2 /\ IsError(r) /\ s[m - 1].result = r
    <3>1. b.errors >= 1 /\ b.error = r
      BY <2>1, <1>1 DEF ErrorsTold
    <3>. QED
      BY <2>1, <3>1, <1>4
  <2>2. CASE n.errors >= 2
    <3>1. IsError(r) /\ b.error = r /\ b.errors >= 1
      BY <2>2, <1>4
    <3>2. m - 1 >= 1 /\ s[m - 1].result = r
      BY <3>1, <1>1 DEF ErrorsTold
    <3>3. m >= 2
      BY <3>2
    <3>. QED
      BY ZenonT(30), <2>2, <3>1, <3>2, <3>3
  <2>. QED
    BY <2>1, <2>2
<1>9. ErrorsTold(u, m, n)
  <2>1. m >= 2 => u[m - 1] = s[m - 1]
    BY <1>3
  <2>2. n.errors >= 1 <=> IsError(r)
    BY <1>4
  <2>. QED
    BY <1>3, <1>4, <1>8, <2>1, <2>2 DEF ErrorsTold
<1>10. ErrorTrips(n) <=> SameErrors(u)
  <2>1. CASE n.errors >= 3
    <3>1. IsError(r) /\ b.error = r /\ b.errors >= 2
      BY <2>1, <1>4
    <3>2. m = 3 /\ s[2].result = r /\ s[1].result = r
      <4>1. m - 1 >= 2
        BY <3>1, <1>1 DEF ErrorsTold
      <4>2. m = 3
        BY <4>1
      <4>. QED
        BY <3>1, <4>2, <1>1 DEF ErrorsTold
    <3>3. u[1].result = r /\ u[2].result = r /\ u[3].result = r /\ Len(u) = 3
      BY <3>2, <1>3
    <3>4. \A i \in 1 .. 3 : u[i].result = u[1].result
      BY <3>3
    <3>. QED
      BY <2>1, <3>1, <3>3, <3>4 DEF ErrorTrips, SameErrors, MaxErrors
  <2>2. CASE SameErrors(u)
    <3>1. m = 3
      BY <2>2, <1>3 DEF SameErrors
    <3>2. u[1].result = r /\ u[2].result = r /\ IsError(r)
      BY <2>2, <3>1, <1>3 DEF SameErrors
    <3>3. s[1].result = r /\ s[2].result = r
      BY <3>1, <3>2, <1>3
    <3>4. b.errors >= 2 /\ b.error = r
      BY <3>1, <3>2, <3>3, <1>1 DEF ErrorsTold
    <3>5. n.errors = b.errors + 1
      BY <3>2, <3>4, <1>4
    <3>6. n.errors >= 3
      BY <3>4, <3>5, <1>4
    <3>. QED
      BY <2>2, <3>6 DEF ErrorTrips, MaxErrors
  <2>3. ErrorTrips(n) <=> n.errors >= 3
    BY DEF ErrorTrips, MaxErrors
  <2>. QED
    BY <2>1, <2>2, <2>3
<1>11. Told(u, m, next)
  BY <1>3, <1>6, <1>7, <1>9 DEF Told, Trail, n, b
<1>. QED
  BY <1>10, <1>11 DEF TrailSound, u, n, b

-----------------------------------------------------------------------------
\* What a step does to the trail of the actor that takes it.
LEMMA TrailReplaced ==
  ASSUME TrailsSound, LoopInv, NEW a \in Actor, NEW s, NEW t, TrailSound(s, t),
         trail' = [trail EXCEPT ![a] = s], turn' = [turn EXCEPT ![a] = t]
  PROVE  TrailsSound'
<1>0. s \in Seq(Record)
  BY DEF TrailSound, Told, Trail
<1>1. /\ trail' \in [Actor -> Seq(Record)] /\ trail'[a] = s /\ turn'[a] = t
      /\ \A b \in Actor \ {a} : trail'[b] = trail[b] /\ turn'[b] = turn[b]
  BY <1>0 DEF TrailsSound, LoopInv, TurnsSound
<1>2. ASSUME NEW b \in Actor PROVE TrailSound(trail'[b], turn'[b])
  <2>1. CASE b = a
    BY <2>1, <1>1
  <2>2. CASE b # a
    BY <2>2, <1>1 DEF TrailsSound
  <2>. QED
    BY <2>1, <2>2
<1>. QED
  BY <1>1, <1>2 DEF TrailsSound, TrailSound, Told, Trail, CallsTold, ErrorsTold, SameCalls

\* The trail of a turn that has made no call.
LEMMA EmptyTrail ==
  ASSUME NEW t, t.pc # "tool", t.breaker = NewBreaker
  PROVE  TrailSound(<<>>, t)
<1>1. <<>> \in Seq(Record) /\ Len(<<>>) = 0
  OBVIOUS
<1>2. ~SameCalls(<<>>)
  BY DEF SameCalls
<1>3. CallsTold(<<>>, 0, NewBreaker) /\ ErrorsTold(<<>>, 0, NewBreaker)
  BY DEF CallsTold, ErrorsTold, NewBreaker
<1>4. Told(<<>>, 0, t) /\ 0 \in 0 .. 3
  BY <1>1, <1>2, <1>3 DEF Told, Trail
<1>. QED
  BY <1>4 DEF TrailSound

\* A turn that moves on without a call keeps its trail and its breaker.
LEMMA TrailKept ==
  ASSUME NEW s, NEW t, NEW next, TrailSound(s, t), t.pc \in {"llm", "calls"},
         next.pc # "tool", next.breaker = t.breaker \/ next.pc = "over"
  PROVE  TrailSound(s, next)
BY DEF TrailSound, Told

\* In the initial state nobody has called anything.
LEMMA TrailStarts == Init => TrailsSound
<1>. SUFFICES ASSUME Init PROVE TrailsSound
  OBVIOUS
<1>1. NoTurn.pc # "tool" /\ NoTurn.breaker = NewBreaker
  BY DEF NoTurn
<1>2. Starting.pc # "tool" /\ Starting.breaker = NewBreaker
  BY DEF Starting, NoTurn
<1>3. TrailSound(<<>>, NoTurn) /\ TrailSound(<<>>, Starting)
  BY <1>1, <1>2, EmptyTrail
<1>4. \A a \in Actor : turn[a] \in {NoTurn, Starting} /\ trail[a] = <<>>
  BY DEF Init
<1>5. trail \in [Actor -> Seq(Record)]
  BY DEF Init
<1>. QED
  BY <1>3, <1>4, <1>5 DEF TrailsSound

\* What the breaker promises of one step.
BreakerStep ==
  \A a \in Actor :
    /\ ~SameCalls(trail[a]')
    /\ turn[a].pc = "tool" /\ turn[a]'.pc \notin {"tool", "idle"}
         => (turn[a]'.pc = "over" <=> SameErrors(trail[a]'))

\* Only a step of a's own that ends a call is subject to its second part.
LEMMA BreakerHolds ==
  ASSUME TrailsSound', \A a \in Actor :
           turn[a].pc = "tool" => \/ turn'[a].pc \in {"tool", "idle"}
                                  \/ turn'[a].pc = "over" <=> SameErrors(trail'[a])
  PROVE  BreakerStep
<1>1. ASSUME NEW a \in Actor PROVE ~SameCalls(trail'[a])
  BY DEF TrailsSound, TrailSound, Told, Trail
<1>. QED
  BY <1>1 DEF BreakerStep

\* The counters still tell the last calls when one more begins.
LEMMA CallBeginsTrail ==
  ASSUME LoopInv, TrailsSound, NEW a \in Actor, NEW c \in Call, CallBegins(a, c)
  PROVE  TrailsSound'
<1>. DEFINE s == turn[a]
            b == CheckedAction(s.breaker, c)
            over == [s EXCEPT !.pc = "over", !.breaker = b]
            tool == [s EXCEPT !.pc = "tool", !.breaker = b, !.call = c, !.result = Gated(c)]
            u == Append(Last2(trail[a]), [call |-> c, result |-> "none"])
<1>1. s \in Turn /\ s.breaker \in Breaker /\ s.pc = "calls" /\ TrailSound(trail[a], s)
  BY DEF LoopInv, TurnsSound, TrailsSound, Turn, CallBegins
<1>2. CASE ActionTrips(b)
  <2>1. turn' = [turn EXCEPT ![a] = over] /\ trail' = trail
    BY <1>2 DEF CallBegins
  <2>2. over.pc = "over"
    BY <1>1 DEF Turn
  <2>3. TrailSound(trail[a], over)
    <3>. HIDE DEF over
    <3>. QED
      BY <1>1, <2>2, TrailKept
  <2>4. trail' = [trail EXCEPT ![a] = trail[a]]
    BY <2>1 DEF TrailsSound
  <2>. HIDE DEF over
  <2>. QED
    BY <2>1, <2>3, <2>4, TrailReplaced
<1>3. CASE ~ActionTrips(b)
  <2>1. turn' = [turn EXCEPT ![a] = tool] /\ trail' = [trail EXCEPT ![a] = u]
    BY <1>3 DEF CallBegins
  <2>2. tool.pc = "tool" /\ tool.breaker = b
    BY <1>1 DEF Turn
  <2>. HIDE DEF tool
  <2>3. TrailSound(u, tool)
    BY <1>1, <1>3, <2>2, CallTrailed
  <2>. HIDE DEF u
  <2>. QED
    BY <2>1, <2>3, TrailReplaced
<1>. QED
  BY <1>2, <1>3

\* They tell the last errors when it has ended, and the turn is over if these are alike.
LEMMA CallEndsTrail ==
  ASSUME LoopInv, TrailsSound, NEW a \in Actor,
         NEW r \in {"ok", "deferred", "failed", "raised", "forbidden", "not_admin"}, CallEnds(a, r)
  PROVE  TrailsSound' /\ turn'[a].pc # "tool"
           /\ (turn'[a].pc = "over" <=> SameErrors(trail'[a]))
<1>. DEFINE s == turn[a]
            b == CheckedResult(s.breaker, r)
            todo == s.todo - 1
            pc == IF ErrorTrips(b) THEN "over" ELSE IF todo > 0 THEN "calls" ELSE "llm"
            t == [s EXCEPT !.pc = pc, !.breaker = b, !.todo = todo,
                           !.call = "none", !.result = "none"]
            u == [trail[a] EXCEPT ![Len(trail[a])].result = r]
<1>1. /\ s \in Turn /\ s.breaker \in Breaker /\ s.pc = "tool" /\ s.breaker.errors < MaxErrors
      /\ TrailSound(trail[a], s)
  BY DEF LoopInv, TurnsSound, TurnSound, TrailsSound, Turn, CallEnds
<1>2. turn' = [turn EXCEPT ![a] = t] /\ trail' = [trail EXCEPT ![a] = u]
  BY DEF CallEnds
<1>3. pc # "tool" /\ (pc = "over" <=> ErrorTrips(b))
  OBVIOUS
<1>. HIDE DEF pc, b, todo
<1>4. t.pc = pc /\ t.breaker = b
  BY <1>1 DEF Turn
<1>. HIDE DEF t
<1>5. TrailSound(u, t) /\ (ErrorTrips(b) <=> SameErrors(u))
  <2>1. r \in Result \ {"none"}
    BY DEF Result
  <2>. QED
    BY <1>1, <1>3, <1>4, <2>1, ResultTrailed DEF b
<1>. HIDE DEF u
<1>6. trail'[a] = u /\ turn'[a] = t
  BY <1>2 DEF TrailsSound, LoopInv, TurnsSound
<1>7. TrailsSound'
  BY <1>2, <1>5, TrailReplaced
<1>. QED
  BY <1>3, <1>4, <1>5, <1>6, <1>7

\* A turn that begins or is left has an empty trail and a new breaker.
LEMMA FreshTrail ==
  ASSUME LoopInv, TrailsSound, NEW a \in Actor,
         Leave(a) \/ \E k \in {"text", "onboard", "system", "direct"} : Begin(a, k)
  PROVE  TrailsSound'
<1>1. PICK t : /\ t.pc # "tool" /\ t.breaker = NewBreaker
               /\ turn' = [turn EXCEPT ![a] = t] /\ trail' = [trail EXCEPT ![a] = <<>>]
  <2>1. CASE Leave(a)
    <3>1. NoTurn.pc # "tool" /\ NoTurn.breaker = NewBreaker
      BY DEF NoTurn
    <3>. QED
      BY <2>1, <3>1 DEF Leave
  <2>2. ASSUME NEW k \in {"text", "onboard", "system", "direct"}, Begin(a, k)
        PROVE  \E t : /\ t.pc # "tool" /\ t.breaker = NewBreaker
                      /\ turn' = [turn EXCEPT ![a] = t] /\ trail' = [trail EXCEPT ![a] = <<>>]
    <3>. DEFINE t == [NoTurn EXCEPT !.pc = "llm", !.kind = k]
    <3>1. t.pc = "llm" /\ t.breaker = NewBreaker
      BY DEF NoTurn
    <3>2. turn' = [turn EXCEPT ![a] = t] /\ trail' = [trail EXCEPT ![a] = <<>>]
      BY <2>2 DEF Begin
    <3>. HIDE DEF t
    <3>. QED
      BY <3>1, <3>2
  <2>. QED
    BY <2>1, <2>2
<1>. QED
  BY <1>1, EmptyTrail, TrailReplaced

\* Every step keeps the counters true, and the breaker decides by the calls.
LEMMA TrailStep == LoopInv /\ TrailsSound /\ [Next]_vars => TrailsSound' /\ BreakerStep
<1>. SUFFICES ASSUME LoopInv, TrailsSound, [Next]_vars PROVE TrailsSound' /\ BreakerStep
  OBVIOUS
<1>. DEFINE Quiet(a) == \A b \in Actor : b # a => turn'[b] = turn[b]
            Safe == \A b \in Actor : turn[b].pc = "tool" =>
                      \/ turn'[b].pc \in {"tool", "idle"}
                      \/ turn'[b].pc = "over" <=> SameErrors(trail'[b])
<1>1. ASSUME NEW a \in Actor, NEW t, turn' = [turn EXCEPT ![a] = t]
      PROVE  Quiet(a) /\ turn'[a] = t
  BY <1>1 DEF LoopInv, TurnsSound
<1>2. ASSUME NEW a \in Actor,
             Quiet(a), turn[a].pc # "tool" \/ turn'[a].pc = "idle"
      PROVE  Safe
  BY <1>2
<1>3. ASSUME NEW m \in Inbound, QueenTakes(m) PROVE TrailsSound' /\ Safe
  <2>. DEFINE k == IF m.kind = "approve" THEN "text" ELSE m.kind
              t == [NoTurn EXCEPT !.pc = "llm", !.kind = k]
  <2>1. k \in {"text", "onboard", "system", "direct"} /\ Queen \in Actor
    BY DEF Inbound, Actor
  <2>2. Begin(Queen, k) /\ turn[Queen].pc = "idle" /\ turn' = [turn EXCEPT ![Queen] = t]
    BY <1>3 DEF QueenTakes, Takes, Begin
  <2>. HIDE DEF t, k
  <2>. QED
    BY <1>1, <1>2, <2>1, <2>2, FreshTrail
<1>4. ASSUME NEW a \in Direct, DirectBegins(a) PROVE TrailsSound' /\ Safe
  <2>. DEFINE t == [NoTurn EXCEPT !.pc = "llm", !.kind = "direct"]
  <2>1. a \in Actor
    BY DEF Actor
  <2>2. Begin(a, "direct") /\ turn[a].pc = "idle" /\ turn' = [turn EXCEPT ![a] = t]
    BY <1>4 DEF DirectBegins, Due, Begin
  <2>. HIDE DEF t
  <2>. QED
    BY <1>1, <1>2, <2>1, <2>2, FreshTrail
<1>5. ASSUME NEW a \in Actor, LLMConcludes(a) \/ \E k \in 1 .. MaxCalls : LLMCalls(a, k)
      PROVE  TrailsSound' /\ Safe
  <2>1. PICK t : /\ turn' = [turn EXCEPT ![a] = t] /\ t.pc # "tool"
                 /\ t.breaker = turn[a].breaker
    <3>1. turn[a] \in Turn
      BY DEF LoopInv, TurnsSound
    <3>2. CASE LLMConcludes(a)
      <4>1. /\ turn' = [turn EXCEPT ![a] = [turn[a] EXCEPT !.pc = "over"]]
            /\ [turn[a] EXCEPT !.pc = "over"].pc = "over"
            /\ [turn[a] EXCEPT !.pc = "over"].breaker = turn[a].breaker
        BY <3>1, <3>2 DEF LLMConcludes, Turn
      <4>. QED
        BY <4>1
    <3>3. ASSUME NEW k \in 1 .. MaxCalls, LLMCalls(a, k)
          PROVE  \E t : /\ turn' = [turn EXCEPT ![a] = t] /\ t.pc # "tool"
                        /\ t.breaker = turn[a].breaker
      <4>. DEFINE t == [turn[a] EXCEPT !.pc = "calls", !.iter = turn[a].iter + 1, !.todo = k]
      <4>1. turn' = [turn EXCEPT ![a] = t]
        BY <3>3 DEF LLMCalls, LoopInv, TurnsSound
      <4>2. t.pc = "calls" /\ t.breaker = turn[a].breaker
        BY <3>1 DEF Turn
      <4>. HIDE DEF t
      <4>. QED
        BY <4>1, <4>2
    <3>. QED
      BY <1>5, <3>2, <3>3
  <2>2. turn[a].pc = "llm" /\ trail' = trail
    BY <1>5 DEF LLMConcludes, LLMCalls
  <2>3. TrailSound(trail[a], t)
    BY <2>1, <2>2, TrailKept DEF TrailsSound
  <2>4. trail' = [trail EXCEPT ![a] = trail[a]]
    BY <2>2 DEF TrailsSound
  <2>5. TrailsSound'
    BY <2>1, <2>3, <2>4, TrailReplaced
  <2>. QED
    BY <1>1, <1>2, <2>1, <2>2, <2>5
<1>6. ASSUME NEW a \in Actor, NEW c \in Call, CallBegins(a, c) PROVE TrailsSound' /\ Safe
  <2>1. TrailsSound' /\ turn[a].pc = "calls"
    BY <1>6, CallBeginsTrail DEF CallBegins
  <2>2. Quiet(a)
    BY <1>6 DEF CallBegins, LoopInv, TurnsSound
  <2>. QED
    BY <1>2, <2>1, <2>2
<1>7. ASSUME NEW a \in Actor, NEW r \in {"ok", "deferred", "failed", "raised", "forbidden", "not_admin"},
             CallEnds(a, r)
      PROVE  TrailsSound' /\ Safe
  <2>1. TrailsSound' /\ (turn'[a].pc = "over" <=> SameErrors(trail'[a]))
    BY <1>7, CallEndsTrail
  <2>2. Quiet(a)
    BY <1>7 DEF CallEnds, LoopInv, TurnsSound
  <2>. QED
    BY <2>1, <2>2
<1>8. ASSUME NEW a \in Actor,
             TurnEnds(a) \/ TurnFails(a) \/ TurnCancelled(a) \/ (a = Queen /\ Connects)
      PROVE  TrailsSound' /\ Safe
  <2>1. Leave(a)
    BY <1>8 DEF TurnEnds, TurnFails, TurnCancelled, Connects
  <2>2. turn' = [turn EXCEPT ![a] = NoTurn] /\ NoTurn.pc = "idle"
    BY <2>1 DEF Leave, NoTurn
  <2>. QED
    BY <1>1, <1>2, <2>1, <2>2, FreshTrail
<1>9. ASSUME UNCHANGED <<turn, trail>> PROVE TrailsSound' /\ Safe
  <2>1. TrailsSound'
    BY <1>9 DEF TrailsSound, TrailSound, Told, Trail, CallsTold, ErrorsTold, SameCalls
  <2>. QED
    BY <1>9, <2>1
<1>10. TrailsSound' /\ Safe
  <2>1. CASE \E m \in Inbound : QueenTakes(m) \/ QueenApproves(m)
    BY <2>1, <1>3, <1>9 DEF QueenApproves
  <2>2. CASE \E a \in Direct : DirectBegins(a) \/ TurnCancelled(a)
    BY <2>2, <1>4, <1>8 DEF Actor
  <2>3. CASE \E a \in Actor : Continues(a)
    BY <2>3, <1>5, <1>6, <1>7, <1>8 DEF Continues
  <2>4. CASE UNCHANGED vars
    BY <2>4, <1>9 DEF vars
  <2>5. CASE Connects
    BY <2>5, <1>8 DEF Actor
  <2>. QED
    BY <2>1, <2>2, <2>3, <2>4, <2>5 DEF Next
<1>. QED
  BY <1>10, BreakerHolds

\* SECURITY.md:160-161: the breaker of each turn stops the third call of its kind in a row
\* before it is executed, and ends the turn at the third error of its kind in a row and at
\* no other result, whatever other turns run through the same registry.
THEOREM BreakerCorrect == Spec => BreakerExact
<1>1. Spec => []TrailsSound
  BY TrailStarts, TrailStep, LoopSafe, PTL DEF Spec
<1>2. LoopInv /\ TrailsSound /\ [Next]_vars => [BreakerStep]_vars
  BY TrailStep
<1>3. BreakerExact <=> [][BreakerStep]_vars
  BY PTL DEF BreakerExact, BreakerStep
<1>. QED
  BY <1>1, <1>2, <1>3, LoopSafe, PTL DEF Spec
=============================================================================
