SPECIFICATION Spec
CONSTANTS
  v1 = v1
  v2 = v2
  Cases = {c1}
  Facts <- MCFacts
  Inputs <- MCInputs
  MaxFrozen = 2
  MaxHuman = 0
  MaxAutoAttempts = 1
  Reviews = {"clear", "incomplete"}
  Workers = {w1, w2}
  NoTask = NoTask
  Faults = {"crash", "callback", "lapse"}
SYMMETRY CaseSymmetry
INVARIANTS PendingOnClearReview
 
