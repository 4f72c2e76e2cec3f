----------------------------- MODULE AgentLoop ------------------------------
(***************************************************************************)
(* Turns of the Queen's agent loop (agent/loop.py) over the tool registry  *)
(* they share (agent/tools/registry.py): the gate and its approvals, the   *)
(* channel role, the circuit breaker of each turn, and the answers that go *)
(* back to the chats.                                                      *)
(*                                                                         *)
(* The Queen consumes the inbound queue one message at a time.  Beside her *)
(* the callers of process_direct (cron jobs, the heartbeat) run turns of   *)
(* their own through the same registry, and background workers            *)
(* (agent/worker/loop.py) run on a registry of their own.                  *)
(***************************************************************************)
EXTENDS Integers, Sequences, FiniteSets

CONSTANTS
  Queen,          \* the consumer of the inbound queue
  Direct,         \* the callers of process_direct
  MaxIterations,  \* LLM calls in a turn: one setting of the code, here per actor
  MaxCalls,       \* bound: tool calls in one answer of the LLM
  MaxMessages,    \* bound: messages on the inbound queue altogether
  MaxDirectTurns  \* bound: turns of process_direct

ASSUME AgentLoopAssumption ==
  /\ Queen \notin Direct
  /\ MaxIterations \in [Direct \cup {Queen} -> Nat \ {0}]
  /\ MaxCalls \in Nat \ {0}
  /\ MaxMessages \in Nat /\ MaxDirectTurns \in Nat
  /\ (Direct \cup {Queen}) \cap {"nobody", "admin", "left_behind"} = {}

Actor == Direct \cup {Queen}
MaxRepeats == 3     \* CircuitBreaker's defaults
MaxErrors == 3

VARIABLES
  approved,    \* ToolRegistry._pre_approved has the category of the gated calls
  role,        \* ToolRegistry._channel_role
  taken,       \* how many messages run() has consumed from bus.inbound
  answered,    \* how many answers it has put on bus.outbound
  turn,        \* the turn of each actor
  directTurns, \* turns of process_direct so far
  granted,     \* history: whose approval stands, an actor's, APPROVE's, or one left
               \* behind by a turn that did not clear it
  trail        \* history: the last calls of each turn, with their results

vars == <<approved, role, taken, answered, turn, directTurns, granted, trail>>

-----------------------------------------------------------------------------
(* Tool calls, as classify_tool tells them apart: two forbidden commands    *)
(* (Tier 0), whose refusals have the same words, a command and the tool of  *)
(* an MCP server, which need approval (Tier 1) of the same category, and    *)
(* the free tool that gives it (Tier 2).                                    *)

Call == {"wipeA", "wipeB", "exec", "mcp", "session_approve"}

Tier(c) ==
  CASE c \in {"wipeA", "wipeB"} -> 0 [] c \in {"exec", "mcp"} -> 1 [] OTHER -> 2

\* What the tool itself may return, if the call gets as far as that.
ToolResults(c) ==
  CASE c = "exec" -> {"ok", "failed"} [] c = "mcp" -> {"ok", "raised"} [] OTHER -> {"ok"}

IsError(r) == r \notin {"none", "ok", "deferred"}

\* ToolRegistry.execute up to the tool's first await: a result, or "none" if the
\* tool runs.
Gated(c) ==
  IF Tier(c) = 0 THEN "forbidden"
  ELSE IF Tier(c) = 1 /\ ~approved THEN "deferred"
  ELSE IF c = "session_approve" /\ role # "admin" THEN "not_admin"
  ELSE "none"

\* session_approve unlocks the category for the whole registry.
Grants(c) == c = "session_approve" /\ Gated(c) = "none"

-----------------------------------------------------------------------------
(* CircuitBreaker.                                                         *)

NewBreaker == [action |-> "none", repeats |-> 0, error |-> "none", errors |-> 0]

\* Mutant: the count starts at zero.
BugCheckedAction(b, c) ==
  IF b.action = c THEN [b EXCEPT !.repeats = @ + 1]
  ELSE [b EXCEPT !.action = c, !.repeats = 0]

\* check_action: the breaker with the call counted.
CheckedAction(b, c) ==
  IF b.action = c THEN [b EXCEPT !.repeats = @ + 1]
  ELSE [b EXCEPT !.action = c, !.repeats = 1]

\* check_result
CheckedResult(b, r) ==
  IF ~IsError(r) THEN [b EXCEPT !.error = "none", !.errors = 0]
  ELSE IF b.error = r THEN [b EXCEPT !.errors = @ + 1]
  ELSE [b EXCEPT !.error = r, !.errors = 1]

ActionTrips(b) == b.repeats >= MaxRepeats
ErrorTrips(b) == b.errors >= MaxErrors

-----------------------------------------------------------------------------
(* Turns.                                                                  *)

NoTurn == [pc |-> "idle", kind |-> "none", iter |-> 0, todo |-> 0,
           breaker |-> NewBreaker, call |-> "none", result |-> "none"]

\* run() connects to the MCP servers before it takes a message.
Starting == [NoTurn EXCEPT !.pc = "connecting"]

\* What waits on the queue; it need not be known before it is taken.
Inbound == [kind : {"text", "onboard", "approve"}, role : {"admin", "user"}]
             \cup [kind : {"system"}, role : {"none"}]

AgentLoopTypeOK ==
  /\ approved \in BOOLEAN /\ role \in {"admin", "user"}
  /\ answered <= taken /\ taken <= MaxMessages
  /\ \A a \in Actor : turn[a].iter <= MaxIterations[a]
  /\ turn \in [Actor ->
       [pc : {"connecting", "idle", "llm", "calls", "tool", "over"},
        kind : {"none", "text", "onboard", "system", "direct"},
        iter : Nat, todo : 0 .. MaxCalls,
        breaker : [action : Call \cup {"none"}, repeats : 0 .. MaxRepeats,
                   error : {"none", "failed", "raised", "forbidden", "not_admin"},
                   errors : 0 .. MaxErrors],
        call : Call \cup {"none"},
        result : {"none", "ok", "deferred", "failed", "raised", "forbidden",
                  "not_admin"}]]
  /\ directTurns \in 0 .. MaxDirectTurns
  /\ granted \in Actor \cup {"nobody", "admin", "left_behind"}

Init ==
  /\ approved = FALSE /\ role = "user"
  /\ taken = 0 /\ answered = 0
  /\ turn = [a \in Actor |-> IF a = Queen THEN Starting ELSE NoTurn]
  /\ directTurns = 0
  /\ granted = "nobody"
  /\ trail = [a \in Actor |-> <<>>]

Leave(a) ==
  /\ turn' = [turn EXCEPT ![a] = NoTurn]
  /\ trail' = [trail EXCEPT ![a] = <<>>]

\* The servers have been connected, or have failed: connect_mcp_servers gives up on one
\* that raises, and waits for one that does not answer.
Connects ==
  /\ turn[Queen].pc = "connecting"
  /\ Leave(Queen)
  /\ UNCHANGED <<approved, role, taken, answered, directTurns, granted>>

\* Mutant: the turn of a system message keeps the approvals.
BugClears(kind) == kind \in {"text", "direct"}

\* clear_approvals ends every turn but that of /onboard.
Clears(kind) == kind # "onboard"

Begin(a, kind) ==
  /\ turn' = [turn EXCEPT ![a] = [NoTurn EXCEPT !.pc = "llm", !.kind = kind]]
  /\ trail' = [trail EXCEPT ![a] = <<>>]

\* _handle_admin_approval: only an admin's channel is listened to.
Approves(m) == m.kind = "approve" /\ m.role = "admin"

Takes ==
  /\ turn[Queen].pc = "idle" /\ taken < MaxMessages
  /\ taken' = taken + 1

\* The role of the registry follows the message, but _process_system_message leaves
\* it as the turn before it had it.
RoleAfter(m) == IF m.kind = "system" THEN role ELSE m.role

\* run() takes the next message, unless APPROVE answers it at once.
QueenTakes(m) ==
  /\ Takes /\ ~Approves(m)
  /\ role' = RoleAfter(m)
  /\ Begin(Queen, IF m.kind = "approve" THEN "text" ELSE m.kind)
  /\ UNCHANGED <<approved, answered, directTurns, granted>>

\* APPROVE from an admin's channel is answered without the LLM.
QueenApproves(m) ==
  /\ Takes /\ Approves(m)
  /\ role' = m.role
  /\ approved' = TRUE /\ granted' = "admin"
  /\ answered' = answered + 1
  /\ UNCHANGED <<turn, directTurns, trail>>

\* The heartbeat sleeps anew when its turn is over, and skips the turn while there is
\* nothing in HEARTBEAT.md; cron runs the due jobs one after the other.
Due(a) == turn[a].pc = "idle" /\ directTurns < MaxDirectTurns

\* process_direct: a message that carries no role counts as a user's.
DirectBegins(a) ==
  /\ Due(a)
  /\ directTurns' = directTurns + 1
  /\ role' = "user"
  /\ Begin(a, "direct")
  /\ UNCHANGED <<approved, taken, answered, granted>>

\* Mutant: the iterations are not counted.
BugLLMCallsForEver(a, k) ==
  /\ turn[a].pc = "llm" /\ turn[a].iter < MaxIterations[a]
  /\ turn' = [turn EXCEPT ![a].pc = "calls", ![a].todo = k]
  /\ UNCHANGED <<approved, role, taken, answered, directTurns, granted, trail>>

\* Mutant: one iteration too many.
BugLLMCallsLate(a, k) ==
  /\ turn[a].pc = "llm" /\ turn[a].iter <= MaxIterations[a]
  /\ turn' = [turn EXCEPT ![a].pc = "calls", ![a].iter = @ + 1, ![a].todo = k]
  /\ UNCHANGED <<approved, role, taken, answered, directTurns, granted, trail>>

\* The LLM wants k tool calls.  The breaker is not consulted before the first.
LLMCalls(a, k) ==
  /\ turn[a].pc = "llm" /\ turn[a].iter < MaxIterations[a]
  /\ turn' = [turn EXCEPT ![a].pc = "calls", ![a].iter = @ + 1, ![a].todo = k]
  /\ UNCHANGED <<approved, role, taken, answered, directTurns, granted, trail>>

\* The LLM has an answer, the budget is spent, or the iterations are.
LLMConcludes(a) ==
  /\ turn[a].pc = "llm"
  /\ turn' = [turn EXCEPT ![a].pc = "over"]
  /\ UNCHANGED <<approved, role, taken, answered, directTurns, granted, trail>>

Last2(s) == IF Len(s) <= 2 THEN s ELSE Tail(s)

\* One call: the breaker counts it, the gate decides on it, the tool starts.
CallBegins(a, c) ==
  LET b == CheckedAction(turn[a].breaker, c)
      r == Gated(c)
      grants == Grants(c) IN
  /\ turn[a].pc = "calls" /\ turn[a].todo > 0
  /\ IF ActionTrips(b)
     THEN /\ turn' = [turn EXCEPT ![a].pc = "over", ![a].breaker = b]
          /\ UNCHANGED <<approved, granted, trail>>
     ELSE /\ turn' = [turn EXCEPT ![a].pc = "tool", ![a].breaker = b, ![a].call = c,
                                  ![a].result = r]
          /\ trail' = [trail EXCEPT ![a] = Append(Last2(@), [call |-> c, result |-> "none"])]
          /\ approved' = (approved \/ grants)
          /\ granted' = IF grants THEN a ELSE granted
  /\ UNCHANGED <<role, taken, answered, directTurns>>

\* Its result comes, and the breaker looks at it.
CallEnds(a, r) ==
  LET t == turn[a]
      b == CheckedResult(t.breaker, r)
      todo == t.todo - 1
      pc == IF ErrorTrips(b) THEN "over" ELSE IF todo > 0 THEN "calls" ELSE "llm" IN
  /\ t.pc = "tool"
  /\ IF t.result = "none" THEN r \in ToolResults(t.call) ELSE r = t.result
  /\ turn' = [turn EXCEPT ![a] = [t EXCEPT !.pc = pc, !.breaker = b, !.todo = todo,
                                           !.call = "none", !.result = "none"]]
  /\ trail' = [trail EXCEPT ![a][Len(trail[a])].result = r]
  /\ UNCHANGED <<approved, role, taken, answered, directTurns, granted>>

\* Mutant: the answer of process_direct is published as well.
BugAnswers(a) == answered' = answered + 1

\* run() publishes the answer; the caller of process_direct has its own way.
Answers(a) == answered' = IF a = Queen THEN answered + 1 ELSE answered

LeftBehind(a) == IF granted = a THEN "left_behind" ELSE granted

TurnEnds(a) ==
  /\ turn[a].pc = "over"
  /\ Leave(a)
  /\ Answers(a)
  /\ approved' = (approved /\ ~Clears(turn[a].kind))
  /\ granted' = IF ~approved' THEN "nobody"
                ELSE IF turn[a].kind = "onboard" THEN LeftBehind(a) ELSE granted
  /\ UNCHANGED <<role, taken, directTurns>>

\* The definitions of the tools, the provider or the tail of the turn raises: the
\* Queen's user gets an apology, the caller of process_direct the exception.
TurnFails(a) ==
  /\ turn[a].pc \in {"llm", "over"}
  /\ Leave(a)
  /\ Answers(a)
  /\ granted' = LeftBehind(a)
  /\ UNCHANGED <<approved, role, taken, directTurns>>

\* Arming cron's timer cancels the turn of the job, wherever it waits, and stop that of
\* the heartbeat; neither _run_agent_loop nor the registry catches that.
TurnCancelled(a) ==
  /\ turn[a].pc \in {"llm", "tool", "over"}
  /\ Leave(a)
  /\ granted' = LeftBehind(a)
  /\ UNCHANGED <<approved, role, taken, answered, directTurns>>

Continues(a) ==
  \/ \E k \in 1 .. MaxCalls : LLMCalls(a, k)
  \/ LLMConcludes(a)
  \/ \E c \in Call : CallBegins(a, c)
  \/ \E r \in {"ok", "deferred", "failed", "raised", "forbidden", "not_admin"} :
       CallEnds(a, r)
  \/ TurnEnds(a) \/ TurnFails(a)

\* The call of an MCP tool has no timeout, and nothing above it sets one.
Unbounded(a) == turn[a].pc = "tool" /\ turn[a].call = "mcp" /\ turn[a].result = "none"

Next ==
  \/ Connects
  \/ \E m \in Inbound : QueenTakes(m) \/ QueenApproves(m)
  \/ \E a \in Direct : DirectBegins(a) \/ TurnCancelled(a)
  \/ \E a \in Actor : Continues(a)

Fairness ==
  /\ WF_vars(\E m \in Inbound : QueenTakes(m) \/ QueenApproves(m))
  /\ \A a \in Actor : WF_vars(Continues(a) /\ ~Unbounded(a))

Spec == Init /\ [][Next]_vars /\ Fairness

-----------------------------------------------------------------------------
(* Properties.                                                             *)

\* Between two messages, or before the first.
Waiting == {"connecting", "idle"}

\* Of the last calls of a turn, are all three the same, do all three fail alike?
SameCalls(s) == Len(s) = 3 /\ \A i \in 1 .. 3 : s[i].call = s[1].call
SameErrors(s) == Len(s) = 3 /\ IsError(s[1].result) /\ \A i \in 1 .. 3 : s[i].result = s[1].result

\* SECURITY.md:160-161: no tool call is executed for the third time in a row, and the
\* third identical error in a row ends the turn; with other calls, refusals and
\* results in between, and for each of the turns that run at a time.  Nothing but
\* three errors alike ends a turn after a call (it may be cancelled during one).
BreakerExact ==
  [][\A a \in Actor :
       /\ ~SameCalls(trail[a]')
       /\ turn[a].pc = "tool" /\ turn[a]'.pc \notin {"tool", "idle"}
            => (turn[a]'.pc = "over" <=> SameErrors(trail[a]'))]_vars

\* SECURITY.md:66, ANTIGRAVITY.md:168: approvals last for a turn.  What holds of it:
\* an approval that session_approve gave is gone when its turn has ended, however
\* the turns of the Queen, of system messages and of cron overlap, unless the turn
\* raised, was cancelled or was /onboard's.
ApprovalsEndWithTurn == granted \in Actor => turn[granted].pc \notin Waiting

\* Each message that run() took and is done with has got one answer, be it the
\* reply, the confirmation of APPROVE or the apology for an exception.
OneAnswerEach ==
  answered + (IF turn[Queen].pc \in Waiting THEN 0 ELSE 1) = taken

\* The one thing of run() that nothing bounds: an MCP server that does not answer.
WaitsForServer == turn[Queen].pc = "connecting" \/ Unbounded(Queen)

\* No message on the queue waits for ever, unless the Queen waits for an MCP server for
\* ever: a turn is over after max_iterations LLM calls, or before, if the breaker trips,
\* and then the next message is taken, whatever the turns of cron do meanwhile.
MessagesAnswered ==
  []<>~WaitsForServer => \A n \in 1 .. MaxMessages : <>(answered >= n)
=============================================================================
