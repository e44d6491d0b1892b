\* A fact to confirm and a task planned by hand for after the approval, each asked twice, with two runs
\* of an assessment at a time.
SPECIFICATION Spec
CONSTANTS
  f1 = f1
  p1 = p1
  m1 = m1
  Tasks = {f1, m1}
  Manual = {m1}
  FactTasks = {f1}
  Blocking = {f1}
  PostApproval = {m1}
  NoTask = NoTask
  MaxSubs = 2
  MaxRuns = 2
INVARIANTS PlanCompletedMeansDone  TaskFollowsAnswers
CHECK_DEADLOCK FALSE
