------------------------ MODULE ApprovalDeliveryProofs ------------------------
(***************************************************************************)
(* What ApprovalDelivery guarantees for every set of cases, payloads and   *)
(* notices, however often the API process dies.                            *)
(***************************************************************************)
EXTENDS ApprovalDelivery, TLAPS

(* The tables, and what Feishu keeps.                                      *)
TablesTyped ==
  /\ caseStatus \in [Cases -> Signed \cup {"pending_feishu_approval"}]
  /\ delivery \in [Cases -> DeliveryStatus \cup {"absent"}]
  /\ lease \in [Cases -> Lease]
  /\ approval \in [Cases -> Decisions \cup {"pending", "absent"}]
  /\ payload \in [Cases -> Payloads \cup {NoPayload}]
  /\ recorded \in [Cases -> SUBSET Events]
  /\ plan \in [Cases -> PlanStatus \cup {"absent"}]
  /\ assigned \in [Cases -> BOOLEAN]
  /\ instance \in [Cases -> Decisions \cup {"open", "absent"}]
  /\ sent \in [Cases -> SUBSET Events]
  /\ acked \in [Cases -> SUBSET Events]
  /\ crashes \in 0 .. MaxCrashes

Handler == [step : Steps, case : Cases \cup {NoCase}, event : Events \cup {NoEvent}]

(* The handler in flight works on a case, and the webhook on a notice.     *)
HandlerTyped ==
  /\ api \in Handler
  /\ api.step # "none" => api.case \in Cases
  /\ api.step \in WebhookSteps => api.event \in Events

Typed == TablesTyped /\ HandlerTyped

-----------------------------------------------------------------------------
(* The handler goes on, ends, or begins.                                   *)

LEMMA ThenTyped ==
  ASSUME HandlerTyped, NEW s \in Steps, Then(s), api.step # "none",
         s \in WebhookSteps => api.step \in WebhookSteps
  PROVE  HandlerTyped' /\ api' = [api EXCEPT !.step = s]
<1>1. api' = [step |-> s, case |-> api.case, event |-> api.event]
  BY DEF Then, HandlerTyped, Handler
<1> QED BY <1>1 DEF Then, HandlerTyped, Handler

LEMMA NoCallTyped ==
  NoCall \in Handler /\ NoCall.step = "none" /\ "none" \notin WebhookSteps
BY DEF NoCall, Handler, Steps, WebhookSteps

LEMMA DoneTyped ==
  ASSUME Done
  PROVE  HandlerTyped' /\ api'.step = "none"
BY NoCallTyped DEF Done, HandlerTyped

LEMMA BeginTyped ==
  ASSUME NEW s \in Steps, NEW c \in Cases, NEW e \in Events \cup {NoEvent},
         Begin(s, c, e), s \in WebhookSteps => e \in Events
  PROVE  HandlerTyped'
BY DEF Begin, HandlerTyped, Handler

LEMMA DecisionType ==
  /\ \A e \in Events : DecisionOf(e) \in Decisions
  /\ \A d \in Decisions : Outcome(d) \in Signed
BY DEF Events, DecisionOf, Decisions, Outcome, Signed

LEMMA InitTyped == Init => Typed
<1> SUFFICES ASSUME Init PROVE Typed
  OBVIOUS
<1>1. TablesTyped
  BY MaxCrashesAssumption
  DEF Init, TablesTyped, DeliveryStatus, Lease, PlanStatus
<1>2. HandlerTyped
  BY NoCallTyped DEF Init, HandlerTyped
<1> QED BY <1>1, <1>2 DEF Typed

-----------------------------------------------------------------------------
(* Every statement of a handler ends it or names the next one of the same  *)
(* kind.                                                                   *)
Moves ==
  \/ Done
  \/ \E s \in Steps : /\ Then(s)
                      /\ api.step # "none"
                      /\ s \in WebhookSteps => api.step \in WebhookSteps

LEMMA MovesTyped == HandlerTyped /\ Moves => HandlerTyped'
BY ThenTyped, DoneTyped DEF Moves

LEMMA ApiStepMoves == HandlerTyped /\ ApiStep => Moves
<1> SUFFICES ASSUME HandlerTyped, ApiStep PROVE Moves
  OBVIOUS
<1> USE DEF Moves, Step, Steps, WebhookSteps
<1>1. CASE Sweep
  BY <1>1 DEF Sweep
<1>2. CASE Enqueue
  BY <1>2 DEF Enqueue
<1>3. CASE Requeue
  BY <1>3 DEF Requeue
<1>4. CASE Attempt
  BY <1>4 DEF Attempt
<1>5. CASE CreateInstance \/ CreateFails
  BY <1>5 DEF CreateInstance, CreateFails
<1>6. CASE FailDelivery \/ SucceedDelivery
  BY <1>6 DEF FailDelivery, SucceedDelivery
<1>7. CASE CreateRecord
  BY <1>7 DEF CreateRecord
<1>8. CASE RecordEvent
  BY <1>8 DEF RecordEvent
<1>9. CASE WriteBack
  BY <1>9 DEF WriteBack
<1>10. CASE Activate \/ Respond
  BY <1>10 DEF Activate, Respond
<1> QED BY <1>1, <1>2, <1>3, <1>4, <1>5, <1>6, <1>7, <1>8, <1>9, <1>10 DEF ApiStep

LEMMA DeliveryTables ==
  ASSUME TablesTyped,
         \/ Sweep \/ Enqueue \/ Requeue \/ Attempt
         \/ CreateInstance \/ CreateFails \/ FailDelivery \/ CreateRecord \/ SucceedDelivery
  PROVE  TablesTyped'
<1> USE DEF TablesTyped, SetDelivery, DeliveryStatus, Lease, FeishuCreates,
            deliveryVars, recordVars, planVars, feishuVars
<1>1. CASE Sweep
  BY <1>1 DEF Sweep
<1>2. CASE Enqueue
  BY <1>2 DEF Enqueue
<1>3. CASE Requeue
  BY <1>3 DEF Requeue
<1>4. CASE Attempt
  BY <1>4 DEF Attempt
<1>5. CASE CreateInstance \/ CreateFails
  BY <1>5 DEF CreateInstance, CreateFails
<1>6. CASE FailDelivery \/ SucceedDelivery
  BY <1>6 DEF FailDelivery, SucceedDelivery
<1>7. CASE CreateRecord
  BY <1>7 DEF CreateRecord
<1> QED BY <1>1, <1>2, <1>3, <1>4, <1>5, <1>6, <1>7

LEMMA WebhookTables ==
  ASSUME Typed, RecordEvent \/ WriteBack \/ Activate \/ Respond
  PROVE  TablesTyped'
<1>1. E \in Events /\ Decision \in Decisions /\ Outcome(Decision) \in Signed
  BY DecisionType
  DEF Typed, HandlerTyped, RecordEvent, WriteBack, Activate, Respond, Step, WebhookSteps, E, Decision
<1>2. TablesTyped
  BY DEF Typed
<1> USE <1>1, <1>2 DEF TablesTyped, deliveryVars, recordVars, planVars, feishuVars
<1>3. CASE RecordEvent
  BY <1>3 DEF RecordEvent, RecordIt
<1>4. CASE WriteBack
  BY <1>4 DEF WriteBack
<1>5. CASE Activate
  BY <1>5 DEF Activate, PlanStatus
<1>6. CASE Respond
  BY <1>6 DEF Respond
<1> QED BY <1>3, <1>4, <1>5, <1>6

(* The steps that only begin a handler change no table.                    *)
BeginStep(c) == BeginCreate(c) \/ BeginRetry(c) \/ \E e \in Events : Webhook(c, e)

LEMMA BeginStepTyped ==
  ASSUME Typed, NEW c \in Cases, BeginStep(c)
  PROVE  Typed'
<1>1. TablesTyped'
  BY DEF Typed, TablesTyped, BeginStep, BeginCreate, BeginRetry, Webhook,
         deliveryVars, recordVars, planVars, feishuVars
<1>2. HandlerTyped'
  <2>1. "sweep_create" \in Steps \ WebhookSteps /\ "sweep_retry" \in Steps \ WebhookSteps
        /\ "receive" \in Steps
    BY DEF Steps, WebhookSteps
  <2> QED BY <2>1, BeginTyped DEF BeginStep, BeginCreate, BeginRetry, Webhook
<1> QED BY <1>1, <1>2 DEF Typed

(* Feishu, people and time leave the handler alone; a death ends it.       *)
OutsideStep(c) ==
  \/ LeaseLapses(c)
  \/ AssignTasks(c) \/ ActivatePlan(c) \/ CancelPlan(c)
  \/ \E d \in Decisions : Decide(c, d)

LEMMA OutsideTyped ==
  ASSUME Typed, NEW c \in Cases, OutsideStep(c)
  PROVE  Typed'
<1>1. HandlerTyped'
  BY DEF Typed, HandlerTyped, OutsideStep, LeaseLapses, AssignTasks, ActivatePlan, CancelPlan, Decide
<1>2. TablesTyped'
  <2> USE DEF Typed, TablesTyped, deliveryVars, recordVars, planVars, feishuVars
  <2>1. CASE LeaseLapses(c)
    BY <2>1 DEF LeaseLapses, Lease
  <2>2. CASE AssignTasks(c) \/ ActivatePlan(c) \/ CancelPlan(c)
    BY <2>2 DEF AssignTasks, ActivatePlan, CancelPlan, PlanStatus
  <2>3. ASSUME NEW d \in Decisions, Decide(c, d)
        PROVE  TablesTyped'
    <3>1. PICK N \in SUBSET Notices : sent' = [sent EXCEPT ![c] = @ \cup ({d} \X N)]
      BY <2>3 DEF Decide
    <3>2. {d} \X N \subseteq Events
      BY <3>1 DEF Events
    <3>3. sent' \in [Cases -> SUBSET Events]
      BY <3>1, <3>2
    <3> QED BY <2>3, <3>3 DEF Decide
  <2> QED BY <2>1, <2>2, <2>3 DEF OutsideStep
<1> QED BY <1>1, <1>2 DEF Typed

LEMMA NextSteps ==
  Next => ApiStep \/ ApiDies \/ \E c \in Cases : BeginStep(c) \/ OutsideStep(c)
BY DEF Next, CaseStep, BeginStep, OutsideStep

LEMMA NextTyped == Typed /\ [Next]_vars => Typed'
<1> SUFFICES ASSUME Typed, [Next]_vars
             PROVE  Typed'
  OBVIOUS
<1>1. CASE ApiStep
  <2>1. TablesTyped'
    BY <1>1, DeliveryTables, WebhookTables DEF ApiStep, Typed
  <2>2. HandlerTyped'
    BY <1>1, ApiStepMoves, MovesTyped DEF Typed
  <2> QED BY <2>1, <2>2 DEF Typed
<1>2. CASE ApiDies
  <2>1. TablesTyped'
    BY <1>2, MaxCrashesAssumption
    DEF Typed, TablesTyped, ApiDies, deliveryVars, recordVars, planVars, feishuVars
  <2> QED BY <1>2, <2>1, DoneTyped DEF ApiDies, Typed
<1>3. CASE \E c \in Cases : BeginStep(c) \/ OutsideStep(c)
  BY <1>3, BeginStepTyped, OutsideTyped
<1>4. CASE UNCHANGED vars
  BY <1>4 DEF vars, Typed, TablesTyped, HandlerTyped, deliveryVars, recordVars, planVars, feishuVars
<1> QED BY <1>1, <1>2, <1>3, <1>4, NextSteps

LEMMA AlwaysTyped == Spec => []Typed
BY InitTyped, NextTyped, PTL DEF Spec

(* The tables hold only values their CHECK constraints admit, and the      *)
(* handler in flight only what it read.                                    *)
THEOREM DeliveryTypeCorrect == Spec => []TypeOK
<1>1. Typed => TypeOK
  BY DEF Typed, TablesTyped, HandlerTyped, Handler, TypeOK
<1> QED BY <1>1, AlwaysTyped, PTL

-----------------------------------------------------------------------------
(* A delivery and its record.  The invariant adds what the handler of the  *)
(* delivery knows between Feishu's answer and the closing of the job.      *)
Bound ==
  /\ SucceededIsBound
  /\ \A c \in Cases : approval[c] # "absent" => instance[c] # "absent"
  /\ api.step = "record" => instance[api.case] # "absent"
  /\ api.step = "succeed" => approval[api.case] # "absent"

LEMMA InitBound == Init => Bound
BY DEF Init, Bound, SucceededIsBound, NoCall

(* Whoever is not told apart below keeps the three columns and does not    *)
(* send the handler to the steps that close a delivery.                    *)
LEMMA KeepsBound ==
  ASSUME Bound, UNCHANGED <<delivery, approval, instance>>,
         api' = api \/ api'.step \notin {"record", "succeed"}
  PROVE  Bound'
BY DEF Bound, SucceededIsBound

LEMMA NextBound == Typed /\ Bound /\ [Next]_vars => Bound'
<1> SUFFICES ASSUME Typed, Bound, [Next]_vars
             PROVE  Bound'
  OBVIOUS
<1> USE DEF Step, C
<1>1. /\ \A s : Then(s) => api' = [api EXCEPT !.step = s] /\ api'.step = s /\ api'.case = api.case
      /\ Done => api'.step = "none"
  BY NoCallTyped DEF Then, Done, Typed, HandlerTyped, Handler
<1>2. api.step # "none" => api.case \in Cases
  BY DEF Typed, HandlerTyped
<1>3. CASE \/ Sweep \/ Enqueue \/ Requeue \/ Attempt \/ FailDelivery
  <2>1. /\ \A c \in Cases : delivery'[c] = "succeeded" => delivery[c] = "succeeded"
        /\ UNCHANGED <<approval, instance>>
    BY <1>3 DEF Sweep, Enqueue, Requeue, Attempt, FailDelivery, SetDelivery, Typed, TablesTyped,
                recordVars, feishuVars, deliveryVars
  <2>2. api'.step \notin {"record", "succeed"}
    BY <1>1, <1>3 DEF Sweep, Enqueue, Requeue, Attempt, FailDelivery
  <2> QED BY <2>1, <2>2 DEF Bound, SucceededIsBound
<1>4. CASE CreateInstance \/ CreateFails
  <2>1. /\ \A c \in Cases : instance[c] # "absent" => instance'[c] # "absent"
        /\ UNCHANGED <<delivery, approval>>
    BY <1>4 DEF CreateInstance, CreateFails, FeishuCreates, Typed, TablesTyped, recordVars, deliveryVars
  <2>2. CASE CreateInstance
    <3>1. instance'[api.case] # "absent" /\ api'.step = "record" /\ api'.case = api.case
      BY <1>1, <1>2, <2>2 DEF CreateInstance, FeishuCreates, Typed, TablesTyped
    <3> QED BY <2>1, <3>1 DEF Bound, SucceededIsBound
  <2>3. CASE CreateFails
    BY <1>1, <2>1, <2>3 DEF CreateFails, Bound, SucceededIsBound
  <2> QED BY <1>4, <2>2, <2>3
<1>5. CASE CreateRecord
  <2>1. /\ \A c \in Cases : approval[c] # "absent" => approval'[c] # "absent"
        /\ \A c \in Cases \ {api.case} : approval'[c] = approval[c]
        /\ UNCHANGED <<delivery, instance>>
    BY <1>5 DEF CreateRecord, Typed, TablesTyped, feishuVars, deliveryVars
  <2>2. instance[api.case] # "absent" /\ api.case \in Cases
    BY <1>2, <1>5 DEF CreateRecord, Bound
  <2>3. api'.step = "succeed" => approval'[api'.case] # "absent"
    BY <1>1, <1>5, <2>2 DEF CreateRecord, Typed, TablesTyped
  <2>4. api'.step # "record"
    BY <1>1, <1>5 DEF CreateRecord
  <2> QED BY <2>1, <2>2, <2>3, <2>4 DEF Bound, SucceededIsBound
<1>6. CASE SucceedDelivery
  <2>1. approval[api.case] # "absent" /\ instance[api.case] # "absent"
    BY <1>2, <1>6 DEF SucceedDelivery, Bound
  <2>2. /\ \A c \in Cases \ {api.case} : delivery'[c] = delivery[c]
        /\ UNCHANGED <<approval, instance>>
    BY <1>6 DEF SucceedDelivery, SetDelivery, Typed, TablesTyped, recordVars, feishuVars, deliveryVars
  <2> QED BY <1>1, <1>6, <2>1, <2>2 DEF SucceedDelivery, Bound, SucceededIsBound
<1>7. CASE RecordEvent
  <2>1. api.event \in Events /\ Decision \in Decisions
    BY <1>7, DecisionType DEF RecordEvent, Typed, HandlerTyped, WebhookSteps, Decision, E
  <2>2. /\ \A c \in Cases : approval[c] # "absent" => approval'[c] # "absent"
        /\ \A c \in Cases : approval'[c] # "absent" => approval[c] # "absent"
        /\ UNCHANGED <<delivery, instance>>
    BY <1>7, <2>1 DEF RecordEvent, RecordIt, Accepts, Decisions, Typed, TablesTyped,
                      feishuVars, deliveryVars
  <2>3. api'.step \notin {"record", "succeed"}
    BY <1>1, <1>7 DEF RecordEvent
  <2> QED BY <2>2, <2>3 DEF Bound, SucceededIsBound
<1>8. CASE WriteBack \/ Activate \/ Respond \/ ApiDies
  <2>1. api'.step \notin {"record", "succeed"}
    BY <1>1, <1>8 DEF WriteBack, Activate, Respond, ApiDies
  <2> QED BY <1>8, <2>1, KeepsBound
          DEF WriteBack, Activate, Respond, ApiDies, deliveryVars, recordVars, feishuVars
<1>9. ASSUME NEW c \in Cases, BeginStep(c) PROVE Bound'
  <2>1. api'.step \notin {"record", "succeed"}
    BY <1>9 DEF BeginStep, BeginCreate, BeginRetry, Webhook, Begin
  <2> QED BY <1>9, <2>1, KeepsBound
          DEF BeginStep, BeginCreate, BeginRetry, Webhook, deliveryVars, recordVars, feishuVars
<1>10. ASSUME NEW c \in Cases, LeaseLapses(c) \/ AssignTasks(c) \/ ActivatePlan(c) \/ CancelPlan(c)
       PROVE  Bound'
  BY <1>10, KeepsBound
  DEF LeaseLapses, AssignTasks, ActivatePlan, CancelPlan, deliveryVars, recordVars, feishuVars
<1>11. ASSUME NEW c \in Cases, NEW d \in Decisions, Decide(c, d) PROVE Bound'
  <2>1. /\ \A b \in Cases : instance[b] # "absent" => instance'[b] # "absent"
        /\ UNCHANGED <<delivery, approval, api>>
    BY <1>11 DEF Decide, Decisions, Typed, TablesTyped, deliveryVars, recordVars
  <2> QED BY <1>2, <2>1 DEF Bound, SucceededIsBound
<1>12. CASE UNCHANGED vars
  BY <1>12, KeepsBound DEF vars, deliveryVars, recordVars, feishuVars
<1> QED BY <1>3, <1>4, <1>5, <1>6, <1>7, <1>8, <1>9, <1>10, <1>11, <1>12, NextSteps
        DEF ApiStep, OutsideStep

(* A delivery that succeeded has left the record by which the webhook      *)
(* finds its case, whichever of its calls failed and wherever the process  *)
(* died.                                                                   *)
THEOREM SucceededDeliveryIsBound == Spec => []SucceededIsBound
<1>1. Spec => []Bound
  BY InitBound, NextBound, AlwaysTyped, PTL DEF Spec
<1> QED BY <1>1, PTL DEF Bound

-----------------------------------------------------------------------------
(* Decisions.  The invariant adds that the events of a record agree with   *)
(* its status, and that the webhook writes to the case only what it, or an *)
(* earlier delivery of the same notice, has recorded.                      *)
Agreed ==
  /\ \A c \in Cases : \A e \in recorded[c] : approval[c] = DecisionOf(e)
  /\ api.step = "write" => api.event \in recorded[api.case]
  /\ CaseFollowsRecord

LEMMA InitAgreed == Init => Agreed
BY DEF Init, Agreed, CaseFollowsRecord, NoCall, Signed

LEMMA KeepsAgreed ==
  ASSUME Agreed, UNCHANGED <<caseStatus, approval, recorded>>,
         api' = api \/ api'.step # "write"
  PROVE  Agreed'
BY DEF Agreed, CaseFollowsRecord

(* What a webhook in its first two steps knows of its notice.              *)
LEMMA NoticeOf ==
  ASSUME Typed, api.step \in {"receive", "write"}
  PROVE  /\ api.case \in Cases /\ api.event \in Events
         /\ Decision \in Decisions /\ Outcome(Decision) \in Signed
BY DecisionType DEF Typed, HandlerTyped, WebhookSteps, Decision, E

LEMMA RecordEventAgreed ==
  ASSUME Typed, Agreed, RecordEvent
  PROVE  Agreed'
<1>1. api.case \in Cases /\ api.event \in Events /\ Decision \in Decisions
  BY NoticeOf DEF RecordEvent, Step
<1>2. CASE UNCHANGED <<approval, recorded>> /\ E \in recorded[C]
  BY <1>1, <1>2 DEF RecordEvent, Agreed, CaseFollowsRecord, Then, C, E, Typed, HandlerTyped, Handler
<1>3. CASE UNCHANGED <<approval, recorded>> /\ Done
  BY <1>3, NoCallTyped, KeepsAgreed DEF RecordEvent, Done
<1>4. CASE Accepts(C, Decision) /\ RecordIt /\ Then("write")
  <2>1. /\ \A c \in Cases \ {C} : approval'[c] = approval[c] /\ recorded'[c] = recorded[c]
        /\ approval'[C] = Decision
        /\ recorded'[C] = recorded[C] \cup {E}
        /\ UNCHANGED caseStatus
    BY <1>1, <1>4 DEF RecordEvent, RecordIt, Typed, TablesTyped, C
  <2>2. approval[C] \in Decisions => approval[C] = Decision
    BY <1>4 DEF Accepts, Decisions
  <2>3. \A e \in recorded[C] : DecisionOf(e) \in Decisions
    BY <1>1, DecisionType DEF Typed, TablesTyped, C
  <2>4. \A e \in recorded'[C] : DecisionOf(e) = Decision
    <3>1. \A e \in recorded[C] : DecisionOf(e) = Decision
      BY <1>1, <2>2, <2>3 DEF Agreed, C
    <3> QED BY <2>1, <3>1 DEF Decision
  <2>5. api' = [api EXCEPT !.step = "write"] /\ api'.case = C /\ api'.event = E
    BY <1>4 DEF Then, Typed, HandlerTyped, Handler, C, E
  <2>6. CaseFollowsRecord'
    BY <1>1, <2>1, <2>2 DEF Agreed, CaseFollowsRecord, C
  <2>7. \A c \in Cases : \A e \in recorded'[c] : approval'[c] = DecisionOf(e)
    BY <2>1, <2>4 DEF Agreed
  <2> QED BY <2>1, <2>5, <2>6, <2>7 DEF Agreed
<1> QED BY <1>2, <1>3, <1>4 DEF RecordEvent

LEMMA WriteBackAgreed ==
  ASSUME Typed, Agreed, WriteBack
  PROVE  Agreed'
<1>1. /\ api.case \in Cases /\ Decision \in Decisions /\ Outcome(Decision) \in Signed
      /\ approval[api.case] = Decision
  BY NoticeOf DEF WriteBack, Step, Agreed, Decision, E
<1>2. api'.step # "write" /\ UNCHANGED <<approval, recorded>>
  BY NoCallTyped DEF WriteBack, Then, Done, Typed, HandlerTyped, Handler, recordVars
<1>3. CASE UNCHANGED caseStatus
  BY <1>2, <1>3, KeepsAgreed
<1>4. CASE caseStatus' = [caseStatus EXCEPT ![C] = Outcome(Decision)]
  BY <1>1, <1>2, <1>4 DEF Agreed, CaseFollowsRecord, C, Typed, TablesTyped
<1> QED BY <1>3, <1>4 DEF WriteBack

LEMMA CreateRecordAgreed ==
  ASSUME Typed, Agreed, CreateRecord
  PROVE  Agreed'
<1>1. api.case \in Cases /\ UNCHANGED <<caseStatus, recorded>>
  BY DEF CreateRecord, Step, Typed, HandlerTyped
<1>2. api'.step # "write"
  BY NoCallTyped DEF CreateRecord, Then, Done, Typed, HandlerTyped, Handler
<1>3. CASE UNCHANGED approval
  BY <1>1, <1>2, <1>3, KeepsAgreed
<1>4. CASE approval[C] = "absent" /\ approval' = [approval EXCEPT ![C] = "pending"]
  <2>1. recorded[C] = {}
    <3>1. \A e \in recorded[C] : DecisionOf(e) \in Decisions /\ approval[C] = DecisionOf(e)
      BY <1>1, DecisionType DEF Agreed, C, Typed, TablesTyped
    <3> QED BY <1>4, <3>1 DEF Decisions
  <2>2. caseStatus[C] \notin Signed
    BY <1>1, <1>4 DEF Agreed, CaseFollowsRecord, C, Decisions
  <2> QED BY <1>1, <1>2, <1>4, <2>1, <2>2 DEF Agreed, CaseFollowsRecord, C, Typed, TablesTyped
<1> QED BY <1>3, <1>4 DEF CreateRecord

(* Steps that touch neither the case nor its record.                       *)
Bystander ==
  \/ Sweep \/ Enqueue \/ Requeue \/ Attempt \/ CreateInstance \/ CreateFails
  \/ FailDelivery \/ SucceedDelivery \/ Activate \/ Respond \/ ApiDies
  \/ \E c \in Cases : BeginStep(c) \/ OutsideStep(c)
  \/ UNCHANGED vars

LEMMA BystanderKeeps ==
  ASSUME Typed, Bystander
  PROVE  /\ UNCHANGED <<caseStatus, approval, recorded>>
         /\ api' = api \/ api'.step # "write"
<1> USE DEF recordVars
<1>1. /\ \A s : Then(s) => api'.step = s
      /\ Done => api'.step = "none"
  BY NoCallTyped DEF Then, Done, Typed, HandlerTyped, Handler
<1>2. CASE Sweep \/ Enqueue \/ Requeue \/ Attempt
  BY <1>1, <1>2 DEF Sweep, Enqueue, Requeue, Attempt
<1>3. CASE CreateInstance \/ CreateFails \/ FailDelivery \/ SucceedDelivery
  BY <1>1, <1>3 DEF CreateInstance, CreateFails, FailDelivery, SucceedDelivery
<1>4. CASE Activate \/ Respond \/ ApiDies
  BY <1>1, <1>4 DEF Activate, Respond, ApiDies
<1>5. CASE \E c \in Cases : BeginStep(c)
  BY <1>5 DEF BeginStep, BeginCreate, BeginRetry, Webhook, Begin
<1>6. CASE \E c \in Cases : OutsideStep(c)
  BY <1>6 DEF OutsideStep, LeaseLapses, AssignTasks, ActivatePlan, CancelPlan, Decide
<1>7. CASE UNCHANGED vars
  BY <1>7 DEF vars
<1> QED BY <1>2, <1>3, <1>4, <1>5, <1>6, <1>7 DEF Bystander

LEMMA NextCases ==
  [Next]_vars => RecordEvent \/ WriteBack \/ CreateRecord \/ Bystander
BY NextSteps DEF ApiStep, Bystander

LEMMA NextAgreed == Typed /\ Agreed /\ [Next]_vars => Agreed'
BY RecordEventAgreed, WriteBackAgreed, CreateRecordAgreed, BystanderKeeps, KeepsAgreed, NextCases

(* The status of a signed case is the decision of its approval record,     *)
(* although the two are written one after the other and the process may    *)
(* die in between.                                                         *)
THEOREM CaseAgreesWithRecord == Spec => []CaseFollowsRecord
<1>1. Spec => []Agreed
  BY InitAgreed, NextAgreed, AlwaysTyped, PTL DEF Spec
<1> QED BY <1>1, PTL DEF Agreed

(* One step replaces no decision.                                          *)
Stands ==
  \A c \in Cases :
    /\ approval[c] \in Decisions => approval'[c] = approval[c]
    /\ caseStatus[c] \in Signed => caseStatus'[c] = caseStatus[c]

LEMMA NextStands == Typed /\ [Next]_vars => Stands
<1> SUFFICES ASSUME Typed, [Next]_vars
             PROVE  Stands
  OBVIOUS
<1>1. CASE RecordEvent
  BY <1>1 DEF RecordEvent, RecordIt, Accepts, Stands, Decisions, Typed, TablesTyped
<1>2. CASE WriteBack
  BY <1>2 DEF WriteBack, Stands, Signed, Typed, TablesTyped, recordVars
<1>3. CASE CreateRecord
  BY <1>3 DEF CreateRecord, Stands, Decisions, Typed, TablesTyped
<1>4. CASE Bystander
  BY <1>4, BystanderKeeps DEF Stands
<1> QED BY <1>1, <1>2, <1>3, <1>4, NextCases

(* A decision that was recorded stays, in the record and in the case,      *)
(* whatever notices come later and however often.                          *)
THEOREM RecordedDecisionStands == Spec => DecisionStands
<1>1. Typed /\ [Next]_vars => [Stands]_vars
  BY NextStands
<1> QED BY <1>1, AlwaysTyped, PTL DEF Spec, DecisionStands, Stands
=============================================================================
