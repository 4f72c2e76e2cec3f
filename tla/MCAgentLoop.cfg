SPECIFICATION Spec
CONSTANTS
  queen = queen
  cron = cron
  Queen = queen
  Direct = {cron}
  MaxIterations <- Iterations
  MaxCalls = 1
  MaxMessages = 2
  MaxDirectTurns = 1
INVARIANTS
  AgentLoopTypeOK
  ApprovalsEndWithTurn
  OneAnswerEach
PROPERTIES
  BreakerExact
  MessagesAnswered
CHECK_DEADLOCK FALSE
