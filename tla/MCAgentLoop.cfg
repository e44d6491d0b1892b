SPECIFICATION LiveSpec
CONSTANTS
  Tools <- MCTools
  Budget <- MCBudget
  MaxTurns = 2
  MaxAttempts = 2
  MaxHuman = 1
  Workers = {w1, w2}
  NoState = NoState
INVARIANTS CallsWithinBudget StepsRise NoQuestionReopened
PROPERTIES OutcomeIsKept EveryRunEnds
CHECK_DEADLOCK FALSE
