SPECIFICATION Spec
CONSTANTS
  v1 = v1
  v2 = v2
  Cases = {c1}
  Facts <- MCFacts
  Inputs <- MCInputs
  MaxFrozen = 2
  MaxHuman = 1
  MaxAutoAttempts = 1
  Reviews = {"clear", "incomplete"}
  Workers = {w1}
  NoTask = NoTask
  Faults = {"callback"}
INVARIANT NoFinishedReviewStranded
