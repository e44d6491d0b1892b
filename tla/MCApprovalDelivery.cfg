SPECIFICATION LiveSpec
CONSTANTS
  Cases = {c1}
  Payloads = {p1, p2}
  Notices = {n1}
  NoCase = NoCase
  NoPayload = NoPayload
  MaxCrashes = 2
INVARIANT CaseFollowsRecord
PROPERTIES EveryDecisionReachesCase ApprovedPlanActivates
