SPECIFICATION Spec
CHECK_DEADLOCK FALSE
CONSTANTS
  m1 = m1
  s1 = s1
  s2 = s2
  f1 = f1
  f2 = f2
  a1 = a1
  Materials = {m1}
  Spots = {s1, s2}
  Findings = {f1, f2}
  Annotations = {a1}
  PlaceOf <- MCPlaceOf
  Proposals = {p1, p2}
  Requests = {r1}
  Questions = {q1}
  MaxTasks = 2
  MaxReviews = 2
  MaxRows = 2
  None = None
SYMMETRY ProposalSymmetry
INVARIANTS  ToldTruly
PROPERTIES AcceptedOnStoredReview TurnsOnNewestTask
