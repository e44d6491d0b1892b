SPECIFICATION LiveSpec
CONSTANTS
  Cases = {c1}
  Inputs = {i1, i2}
  Reviews = {"clear", "incomplete"}
  Workers = {w1, w2}
  NoTask = NoTask
  MaxAutoAttempts = 2
  MaxSteps = 0
  MaxHuman = 1
PROPERTIES EveryTaskSettles ImplementsLifecycle
