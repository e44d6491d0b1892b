SPECIFICATION Spec
CONSTANTS
  b1 = b1
  b2 = b2
  Sources = {s1, s2}
  Bodies = {b1, b2}
  Metas = {m1}
  Nothing = Nothing
  Shadows <- MCShadows
  Slots = {k1}
  MaxGens = 2
INVARIANTS OnlyVerifiedFound   NothingLost
PROPERTY ImplementsCorpus
SYMMETRY SourcesAlike
CHECK_DEADLOCK FALSE
