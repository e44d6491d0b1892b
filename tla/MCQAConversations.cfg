SPECIFICATION LiveSpec
CONSTANTS
  c1 = c1
  c2 = c2
  q1 = q1
  q2 = q2
  q3 = q3
  Conversations = {c1, c2}
  Requests = {q1, q2, q3}
  ConvOf <- MCConvOf
  Handoffs = {h1}
  Workers = {w1, w2}
  Api = Api
  Nobody = Nobody
  NoRun = NoRun
  MaxAttempts = 2
  MaxCalls = 3
INVARIANTS OneActiveRun FencedUnlessRaced OneCasePerHandoff
PROPERTIES QuestionTaken LapsedReportedWithWork
CHECK_DEADLOCK FALSE
