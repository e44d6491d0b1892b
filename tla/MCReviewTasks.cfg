SPECIFICATION Spec
CONSTANTS
  Cases = {c1}
  Inputs = {i1, i2}
  Reviews = {"clear", "incomplete"}
  Workers = {w1, w2}
  NoTask = NoTask
  MaxAutoAttempts = 2
  MaxSteps = 1
  MaxHuman = 1
INVARIANTS OneActiveTaskPerCase AttemptLedger
PROPERTIES ProgressKept FinalReviewStands
