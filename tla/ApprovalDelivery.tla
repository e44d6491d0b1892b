-------------------------- MODULE ApprovalDelivery ---------------------------
(***************************************************************************)
(* The formal approval of reviewed cases: the delivery jobs that create a  *)
(* Feishu approval instance, the approval records bound to instances, and  *)
(* the webhook that writes the signed decision back                        *)
(* (http/integrations.py, api.py, governance_store.py, feishu.py).         *)
(*                                                                         *)
(* Every case here has a finished review and waits for its approval: its   *)
(* newest task, hence the idempotency key of its delivery, stays the same. *)
(* The API is one process; a handler is a chain of store transactions, one *)
(* action each, and the process may die between two of them.  Feishu acts  *)
(* at any time: it is one instance per idempotency key and a set of signed *)
(* notices, which arrive late, repeated, in any order, or never.           *)
(***************************************************************************)
EXTENDS Integers, FiniteSets

CONSTANTS
  Cases,       \* cases pending Feishu approval
  Payloads,    \* bound: payloads (request id, plan snapshot) of a record
  Notices,     \* bound: names of the notices Feishu may send per decision
  NoCase,      \* no case
  NoPayload,   \* payload of a record that is not there
  MaxCrashes   \* bound: deaths of the API process

ASSUME CasesAssumption == NoCase \notin Cases
ASSUME PayloadsAssumption == NoPayload \notin Payloads
ASSUME MaxCrashesAssumption == MaxCrashes \in Nat

VARIABLES
  caseStatus,  \* review_cases.status
  delivery,    \* approval_delivery_jobs.status, "absent" without a row
  lease,       \* its lease_expires_at: NULL, in the future, or past
  approval,    \* approval_records.status, "absent" without a row
  payload,     \* approval_records.payload_json
  recorded,    \* approval_events of the record
  plan,        \* remediation_plans.status, "absent" without a row
  assigned,    \* every remediation task has an assignee and a due date
  instance,    \* Feishu: the instance of the case's idempotency key
  sent,        \* Feishu: notices sent, each again until it is acknowledged
  acked,       \* Feishu: notices answered with 200
  api,         \* the handler in flight
  crashes      \* history: deaths of the API process

deliveryVars == <<delivery, lease>>
recordVars == <<approval, payload, recorded>>
planVars == <<plan, assigned>>
feishuVars == <<instance, sent, acked>>
vars == <<caseStatus, deliveryVars, recordVars, planVars, feishuVars, api, crashes>>

-----------------------------------------------------------------------------

Decisions == {"approved", "conditionally_approved", "rejected", "withdrawn"}
Signed == {"approved", "conditionally_approved", "rejected"}
DeliveryStatus == {"queued", "running", "failed", "succeeded"}
PlanStatus == {"draft", "active", "cancelled"}
Lease == {"none", "live", "lapsed"}
Events == Decisions \X Notices

(* The call a handler is about to make; "receive" to "respond" are the     *)
(* steps of the webhook.                                                   *)
WebhookSteps == {"receive", "write", "activate", "respond"}
Steps == {"none", "sweep_create", "sweep_retry", "enqueue", "requeue", "attempt",
          "create", "record", "succeed", "fail"} \cup WebhookSteps

DecisionOf(e) == e[1]

(* The status a decision gives its case.                                   *)
Outcome(decision) == IF decision = "withdrawn" THEN "rejected" ELSE decision

NoEvent == <<"none", "none">>
NoCall == [step |-> "none", case |-> NoCase, event |-> NoEvent]

Init ==
  /\ caseStatus = [c \in Cases |-> "pending_feishu_approval"]
  /\ delivery = [c \in Cases |-> "absent"]
  /\ lease = [c \in Cases |-> "none"]
  /\ approval = [c \in Cases |-> "absent"]
  /\ payload = [c \in Cases |-> NoPayload]
  /\ recorded = [c \in Cases |-> {}]
  /\ plan \in [Cases -> {"absent", "draft"}]
  /\ assigned \in [Cases -> BOOLEAN]
  /\ instance = [c \in Cases |-> "absent"]
  /\ sent = [c \in Cases |-> {}]
  /\ acked = [c \in Cases |-> {}]
  /\ api = NoCall
  /\ crashes = 0

Quiet == api = NoCall
Begin(step, c, e) == Quiet /\ api' = [step |-> step, case |-> c, event |-> e]
Step(step) == api.step = step
Then(step) == api' = [api EXCEPT !.step = step]
Done == api' = NoCall
C == api.case

(* The job of the handler's case and its lease.                            *)
SetDelivery(st, l) ==
  /\ delivery' = [delivery EXCEPT ![C] = st]
  /\ lease' = [lease EXCEPT ![C] = l]

-----------------------------------------------------------------------------
(* create_feishu_approval: an approval that exists is returned as it is.   *)
BeginCreate(c) ==
  /\ caseStatus[c] = "pending_feishu_approval" /\ approval[c] = "absent"
  /\ Begin("sweep_create", c, NoEvent)
  /\ UNCHANGED <<caseStatus, deliveryVars, recordVars, planVars, feishuVars, crashes>>

(* retry_feishu_approval_delivery.                                         *)
BeginRetry(c) ==
  /\ delivery[c] # "absent"
  /\ Begin("sweep_retry", c, NoEvent)
  /\ UNCHANGED <<caseStatus, deliveryVars, recordVars, planVars, feishuVars, crashes>>

(* requeue_expired_approval_deliveries(target_status="failed").            *)
Swept(c) == delivery[c] = "running" /\ lease[c] = "lapsed"

Sweep ==
  /\ Step("sweep_create") \/ Step("sweep_retry")
  /\ delivery' = [c \in Cases |-> IF Swept(c) THEN "failed" ELSE delivery[c]]
  /\ lease' = [c \in Cases |-> IF Swept(c) THEN "none" ELSE lease[c]]
  /\ Then(IF Step("sweep_create") THEN "enqueue" ELSE "requeue")
  /\ UNCHANGED <<caseStatus, recordVars, planVars, feishuVars, crashes>>

(* enqueue_approval_delivery: one job per idempotency key; a job that runs *)
(* or failed is refused, one that succeeded has its approval.              *)
Enqueue ==
  /\ Step("enqueue")
  /\ delivery' = [delivery EXCEPT ![C] = IF @ = "absent" THEN "queued" ELSE @]
  /\ IF delivery'[C] = "queued" THEN Then("attempt") ELSE Done
  /\ UNCHANGED <<caseStatus, lease, recordVars, planVars, feishuVars, crashes>>

(* retry_approval_delivery: only a failed job is queued again.             *)
Requeue ==
  /\ Step("requeue")
  /\ IF delivery[C] = "failed"
       THEN /\ SetDelivery("queued", "none")
            /\ Then("attempt")
       ELSE Done /\ UNCHANGED deliveryVars
  /\ UNCHANGED <<caseStatus, recordVars, planVars, feishuVars, crashes>>

(* begin_approval_attempt.                                                 *)
Attempt ==
  /\ Step("attempt")
  /\ delivery[C] = "queued"
  /\ SetDelivery("running", "live")
  /\ Then("create")
  /\ UNCHANGED <<caseStatus, recordVars, planVars, feishuVars, crashes>>

(* The instance exists once Feishu has taken the request in: a key already *)
(* known names the instance it has.                                        *)
FeishuCreates ==
  instance' = [instance EXCEPT ![C] = IF @ = "absent" THEN "open" ELSE @]

CreateInstance ==
  /\ Step("create")
  /\ FeishuCreates
  /\ Then("record")
  /\ UNCHANGED <<caseStatus, deliveryVars, recordVars, planVars, sent, acked, crashes>>

(* The call raises, before or after Feishu took the request in.            *)
CreateFails ==
  /\ Step("create")
  /\ FeishuCreates \/ UNCHANGED instance
  /\ Then("fail")
  /\ UNCHANGED <<caseStatus, deliveryVars, recordVars, planVars, sent, acked, crashes>>

(* fail_approval_delivery.                                                 *)
FailDelivery ==
  /\ Step("fail")
  /\ IF delivery[C] = "running"
       THEN SetDelivery("failed", "none")
       ELSE UNCHANGED deliveryVars
  /\ Done
  /\ UNCHANGED <<caseStatus, recordVars, planVars, feishuVars, crashes>>

(* create_approval_record: a record bound before must have the same        *)
(* payload; otherwise the exception leaves the job running.                *)
CreateRecord ==
  /\ Step("record")
  /\ \E p \in Payloads :
       IF approval[C] = "absent"
         THEN /\ approval' = [approval EXCEPT ![C] = "pending"]
              /\ payload' = [payload EXCEPT ![C] = p]
              /\ Then("succeed")
         ELSE /\ UNCHANGED <<approval, payload>>
              /\ IF payload[C] = p THEN Then("succeed") ELSE Done
  /\ UNCHANGED <<caseStatus, deliveryVars, recorded, planVars, feishuVars, crashes>>

(* succeed_approval_delivery needs a live lease.                           *)
SucceedDelivery ==
  /\ Step("succeed")
  /\ IF delivery[C] = "running" /\ lease[C] = "live"
       THEN SetDelivery("succeeded", "none")
       ELSE UNCHANGED deliveryVars
  /\ Done
  /\ UNCHANGED <<caseStatus, recordVars, planVars, feishuVars, crashes>>

LeaseLapses(c) ==
  /\ delivery[c] = "running" /\ lease[c] = "live"
  /\ lease' = [lease EXCEPT ![c] = "lapsed"]
  /\ UNCHANGED <<caseStatus, delivery, recordVars, planVars, feishuVars, api, crashes>>

-----------------------------------------------------------------------------
(* receive_feishu_approval_event: a notice of an instance without a record *)
(* is refused with 404.                                                    *)
Webhook(c, e) ==
  /\ e \in sent[c] /\ approval[c] # "absent"
  /\ Begin("receive", c, e)
  /\ UNCHANGED <<caseStatus, deliveryVars, recordVars, planVars, feishuVars, crashes>>

E == api.event
Decision == DecisionOf(E)

(* _validate_transition: a terminal record takes no other decision.        *)
Accepts(c, decision) == approval[c] \in {"pending", decision}

RecordIt ==
  /\ recorded' = [recorded EXCEPT ![C] = @ \cup {E}]
  /\ approval' = [approval EXCEPT ![C] = Decision]

(* Mutant: a notice recorded before is acknowledged at once.               *)
RecordEventOnce ==
  /\ Step("receive")
  /\ CASE E \in recorded[C] -> Then("respond") /\ UNCHANGED <<approval, recorded>>
       [] E \notin recorded[C] /\ Accepts(C, Decision) -> Then("write") /\ RecordIt
       [] OTHER -> Done /\ UNCHANGED <<approval, recorded>>
  /\ UNCHANGED <<caseStatus, deliveryVars, payload, planVars, feishuVars, crashes>>

(* Mutant: the refusal of a decision does not end the handler.             *)
RecordEventRefusalIgnored ==
  /\ Step("receive")
  /\ IF E \notin recorded[C] /\ Accepts(C, Decision)
       THEN RecordIt ELSE UNCHANGED <<approval, recorded>>
  /\ Then("write")
  /\ UNCHANGED <<caseStatus, deliveryVars, payload, planVars, feishuVars, crashes>>

(* record_approval_event: one transaction on the record and its events.  A *)
(* notice recorded before changes nothing, but the handler goes on.        *)
RecordEvent ==
  /\ Step("receive")
  /\ CASE E \in recorded[C] -> Then("write") /\ UNCHANGED <<approval, recorded>>
       [] E \notin recorded[C] /\ Accepts(C, Decision) -> Then("write") /\ RecordIt
       [] OTHER -> Done /\ UNCHANGED <<approval, recorded>>
  /\ UNCHANGED <<caseStatus, deliveryVars, payload, planVars, feishuVars, crashes>>

(* Mutant: a case that has its decision needs nothing more.                *)
WriteBackAndStop ==
  /\ Step("write")
  /\ CASE caseStatus[C] = Outcome(Decision) -> Then("respond") /\ UNCHANGED caseStatus
       [] caseStatus[C] = "pending_feishu_approval" ->
            Then("activate") /\ caseStatus' = [caseStatus EXCEPT ![C] = Outcome(Decision)]
       [] OTHER -> Done /\ UNCHANGED caseStatus
  /\ UNCHANGED <<deliveryVars, recordVars, planVars, feishuVars, crashes>>

(* apply_authoritative_decision and update_case: any status but pending    *)
(* and the outcome itself is refused with 409.                             *)
WriteBack ==
  /\ Step("write")
  /\ CASE caseStatus[C] = Outcome(Decision) -> Then("activate") /\ UNCHANGED caseStatus
       [] caseStatus[C] = "pending_feishu_approval" ->
            Then("activate") /\ caseStatus' = [caseStatus EXCEPT ![C] = Outcome(Decision)]
       [] OTHER -> Done /\ UNCHANGED caseStatus
  /\ UNCHANGED <<deliveryVars, recordVars, planVars, feishuVars, crashes>>

(* The draft plan of an approved case is activated; a plan that cannot be  *)
(* is left as it is.                                                       *)
Activates(c) == caseStatus[c] \in {"approved", "conditionally_approved"} /\ plan[c] = "draft" /\ assigned[c]

Activate ==
  /\ Step("activate")
  /\ plan' = [plan EXCEPT ![C] = IF Activates(C) THEN "active" ELSE @]
  /\ Then("respond")
  /\ UNCHANGED <<caseStatus, deliveryVars, recordVars, assigned, feishuVars, crashes>>

Respond ==
  /\ Step("respond")
  /\ acked' = [acked EXCEPT ![C] = @ \cup {E}]
  /\ Done
  /\ UNCHANGED <<caseStatus, deliveryVars, recordVars, planVars, instance, sent, crashes>>

ApiDies ==
  /\ ~Quiet /\ crashes < MaxCrashes
  /\ crashes' = crashes + 1
  /\ Done
  /\ UNCHANGED <<caseStatus, deliveryVars, recordVars, planVars, feishuVars>>

-----------------------------------------------------------------------------
(* People and Feishu                                                       *)

(* The remediation endpoints, one store call each.                         *)
AssignTasks(c) ==
  /\ Quiet
  /\ assigned' = [assigned EXCEPT ![c] = ~@]
  /\ UNCHANGED <<caseStatus, deliveryVars, recordVars, plan, feishuVars, api, crashes>>

ActivatePlan(c) ==
  /\ Quiet /\ plan[c] # "absent" /\ assigned[c]
  /\ plan' = [plan EXCEPT ![c] = "active"]
  /\ UNCHANGED <<caseStatus, deliveryVars, recordVars, assigned, feishuVars, api, crashes>>

CancelPlan(c) ==
  /\ Quiet /\ plan[c] # "absent"
  /\ plan' = [plan EXCEPT ![c] = "cancelled"]
  /\ UNCHANGED <<caseStatus, deliveryVars, recordVars, assigned, feishuVars, api, crashes>>

(* An approver decides an open instance.  An instance that was approved    *)
(* can be revoked, which Feishu sends as REVERTED or CANCELED.             *)
Decide(c, d) ==
  /\ \/ instance[c] = "open"
     \/ instance[c] \in {"approved", "conditionally_approved"} /\ d = "withdrawn"
  /\ instance' = [instance EXCEPT ![c] = d]
  /\ \E N \in SUBSET Notices \ {{}} : sent' = [sent EXCEPT ![c] = @ \cup ({d} \X N)]
  /\ UNCHANGED <<caseStatus, deliveryVars, recordVars, planVars, acked, api, crashes>>

-----------------------------------------------------------------------------

ApiStep ==
  \/ Sweep \/ Enqueue \/ Requeue \/ Attempt
  \/ CreateInstance \/ CreateFails \/ FailDelivery \/ CreateRecord \/ SucceedDelivery
  \/ RecordEvent \/ WriteBack \/ Activate \/ Respond

CaseStep(c) ==
  \/ BeginCreate(c) \/ BeginRetry(c)
  \/ LeaseLapses(c)
  \/ AssignTasks(c) \/ ActivatePlan(c) \/ CancelPlan(c)

Next ==
  \/ ApiStep
  \/ ApiDies
  \/ \E c \in Cases : CaseStep(c)
  \/ \E c \in Cases, e \in Events : Webhook(c, e)
  \/ \E c \in Cases, d \in Decisions : Decide(c, d)

Spec == Init /\ [][Next]_vars

(* A handler is straight-line code.  Feishu sends a notice again until it  *)
(* is acknowledged, so it is taken in although other requests keep the     *)
(* process busy now and then: strong fairness.  People are not fair.       *)
Fairness ==
  /\ WF_vars(ApiStep)
  /\ \A c \in Cases, e \in Events : SF_vars(e \notin acked[c] /\ Webhook(c, e))

LiveSpec == Spec /\ Fairness

-----------------------------------------------------------------------------
(* Properties                                                              *)

(* The tables hold only values their CHECK constraints admit.              *)
TypeOK ==
  /\ caseStatus \in [Cases -> Signed \cup {"pending_feishu_approval"}]
  /\ delivery \in [Cases -> DeliveryStatus \cup {"absent"}]
  /\ lease \in [Cases -> Lease]
  /\ approval \in [Cases -> Decisions \cup {"pending", "absent"}]
  /\ payload \in [Cases -> Payloads \cup {NoPayload}]
  /\ recorded \in [Cases -> SUBSET Events]
  /\ plan \in [Cases -> PlanStatus \cup {"absent"}]
  /\ assigned \in [Cases -> BOOLEAN]
  /\ instance \in [Cases -> Decisions \cup {"open", "absent"}]
  /\ sent \in [Cases -> SUBSET Events]
  /\ acked \in [Cases -> SUBSET Events]
  /\ api \in [step : Steps, case : Cases \cup {NoCase}, event : Events \cup {NoEvent}]
  /\ crashes \in 0 .. MaxCrashes

(* The status of a signed case is the decision its approval record holds,  *)
(* although record and case are written by different transactions, the     *)
(* process may die between them, and a revocation may come in between      *)
(* (docs/architecture.md:80).                                              *)
CaseFollowsRecord ==
  \A c \in Cases :
    caseStatus[c] \in Signed =>
      approval[c] \in Decisions /\ caseStatus[c] = Outcome(approval[c])

(* A decision, once recorded, is replaced neither in the record nor in the *)
(* case, whatever Feishu sends later and however often.                    *)
DecisionStands ==
  [][\A c \in Cases :
       /\ approval[c] \in Decisions => approval'[c] = approval[c]
       /\ caseStatus[c] \in Signed => caseStatus'[c] = caseStatus[c]]_vars

(* A delivery that succeeded has left the record by which notices of its   *)
(* instance find the case, and the instance exists: otherwise they would   *)
(* be refused and nothing would ever deliver the case again.               *)
SucceededIsBound ==
  \A c \in Cases :
    delivery[c] = "succeeded" => approval[c] # "absent" /\ instance[c] # "absent"

(* A decision taken in Feishu reaches the case once its approval is on     *)
(* record, although the process may die between recording and writing.     *)
EveryDecisionReachesCase ==
  \A c \in Cases :
    sent[c] # {} /\ approval[c] # "absent" ~> caseStatus[c] \in Signed

(* The plan of an approved case is activated by the notice that approved   *)
(* it even when the process dies after it wrote the case, unless people    *)
(* take the plan or its tasks out of the way.                              *)
ApprovedPlanActivates ==
  \A c \in Cases :
    /\ caseStatus[c] \in {"approved", "conditionally_approved"} /\ plan[c] = "draft"
    /\ \E e \in recorded[c] : e \notin acked[c]
    ~> plan[c] # "draft" \/ ~assigned[c]
=============================================================================
