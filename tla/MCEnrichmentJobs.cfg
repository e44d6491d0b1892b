SPECIFICATION LiveSpec
CONSTANTS
  j1 = j1
  u1 = u1
  Jobs = {j1}
  Urls = {u1}
  UrlOf <- MCUrlOf
  Cases = {c1}
  Workers = {w1, w2}
  NoJob = NoJob
  MaxReviews = 2
INVARIANTS RecheckRestsOnSource NoRecheckForgotten
PROPERTIES  JobEnds NoticeReaches
CHECK_DEADLOCK FALSE
