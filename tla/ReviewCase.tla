------------------------------ MODULE ReviewCase ------------------------------
(***************************************************************************)
(* A case under review: the case status, the frozen inputs, the API        *)
(* handlers that submit, freeze, answer, confirm, retry and sign           *)
(* (http/cases.py, fact_confirmation.py, api.py) and the callbacks of the  *)
(* review worker (worker.py), composed with the task queue of TaskStore.   *)
(*                                                                         *)
(* The API is one process whose handlers do not await between the calls    *)
(* they make to the stores, so at most one handler is in flight; but every *)
(* store call is a database transaction of its own, and the workers, which *)
(* are other processes, run between them.  Handlers that run inside        *)
(* case_transaction are single actions.                                    *)
(*                                                                         *)
(* Faults names what may go wrong: "crash" (a process dies between two     *)
(* transactions), "callback" (a callback of the worker raises), "lapse"    *)
(* (a lease runs out) and "overtake" (a whole run of the Agent ends before *)
(* the API handler in flight has made its next store call).                *)
(***************************************************************************)
EXTENDS TaskStore, SequencesExt

CONSTANTS
  Facts,       \* contents of the applicant's intake
  MaxFrozen,   \* bound: frozen inputs per case
  MaxHuman,    \* bound: answers and retries per case
  Workers,     \* worker processes
  NoTask,      \* no task
  Faults       \* the faults that may happen

(* A frozen input is identified by its facts and, when the applicant       *)
(* confirmed them, by the snapshot they replace: its place in the order of *)
(* creation, 0 for none (the fingerprint of create_intake_snapshot).       *)
ASSUME InputsAssumption == Inputs = Facts \X (0 .. MaxFrozen - 1)
ASSUME MaxFrozenAssumption == MaxFrozen \in Nat
ASSUME NoTaskAssumption == NoTask \notin Tasks

VARIABLES
  caseStatus,  \* review_cases.status
  intake,      \* review_cases.intake_json
  response,    \* review_cases.response_json: the task whose result it is
  plan,        \* the remediation list: none, with blocking actions, without
  frozen,      \* intake snapshots in the order of creation
  synced,      \* the task's last guided_action_list event
  worker,      \* what each worker is doing
  api,         \* the API handler in flight
  human        \* history: answers and retries given to the case

caseVars == <<caseStatus, intake, response, plan, frozen, synced>>
vars == <<storeVars, caseVars, worker, api, human>>

-----------------------------------------------------------------------------
(* The lifecycle of a case.                                                *)

CaseTransitions ==
  [draft |-> {"needs_info", "pending_review"},
   needs_info |-> {"draft", "pending_review", "review_running"},
   pending_review |-> {"needs_info", "review_running"},
   review_running |-> {"needs_info", "pending_source_verification",
                       "pending_feishu_approval", "run_failed"},
   pending_source_verification |-> {"review_running"},
   pending_feishu_approval |-> {"approved", "conditionally_approved", "rejected"},
   approved |-> {},
   conditionally_approved |-> {},
   rejected |-> {},
   run_failed |-> {"review_running", "needs_info", "pending_source_verification",
                   "pending_feishu_approval"}]

CaseStatus == DOMAIN CaseTransitions
Signed == {"approved", "conditionally_approved", "rejected"}

ValidTransition(from, to) == to = from \/ to \in CaseTransitions[from]

(* The status a saved review leads to (reconcile_guided_action_list).      *)
FinalStatus(review, blocked) ==
  CASE review = "sources"    -> "pending_source_verification"
    [] review = "incomplete" -> "run_failed"
    [] review = "gaps" \/ (review = "clear" /\ blocked)  -> "needs_info"
    [] review = "clear" /\ ~blocked -> "pending_feishu_approval"

InputOf(t) == t[2]
FactsOf(i) == i[1]
Latest(c) == Last(frozen[c])

-----------------------------------------------------------------------------

(* A worker carries the review it completed its task with, then the status *)
(* it derived from it.                                                     *)
Idle == [pc |-> "idle", task |-> NoTask, attempt |-> 0, carries |-> "none"]
NoCall == [op |-> "none", step |-> "none", case |-> NoTask, task |-> NoTask,
           was |-> "draft", target |-> "draft"]

Init ==
  /\ StoreInit
  /\ caseStatus = [c \in Cases |-> "draft"]
  /\ intake \in [Cases -> Facts]
  /\ response = [c \in Cases |-> NoTask]
  /\ plan = [c \in Cases |-> "none"]
  /\ frozen = [c \in Cases |-> << >>]
  /\ synced = [t \in Tasks |-> "none"]
  /\ worker = [w \in Workers |-> Idle]
  /\ api = NoCall
  /\ human = [c \in Cases |-> 0]

SetCase(c, s) == caseStatus' = [caseStatus EXCEPT ![c] = s]

-----------------------------------------------------------------------------
(* The worker: run_once, and the callbacks main passes to it.              *)

At(w, pc) == worker[w].pc = pc
Goto(w, pc) == worker' = [worker EXCEPT ![w].pc = pc]
Release(w) == worker' = [worker EXCEPT ![w] = Idle]
CaseAt(w) == CaseOf(worker[w].task)
Running(w) == worker[w].pc \in {"starting", "marking", "executing"}
InCallback(w) == worker[w].pc \in {"waiting", "failed", "succeeded", "parking", "promoting",
                               "log_failed", "log_synced"}

(* A run ends while an API handler is between two store calls only under   *)
(* the fault "overtake": a run makes several calls of a language model.    *)
RunMayEnd == api = NoCall \/ "overtake" \in Faults

Claim(w) ==
  /\ At(w, "idle")
  /\ \E t \in Tasks :
       /\ ClaimTask(t, {})
       /\ worker' = [worker EXCEPT ![w] =
            [Idle EXCEPT !.pc = "starting", !.task = t, !.attempt = attempt[t] + 1]]
  /\ UNCHANGED <<caseVars, api, human>>

Poll(w) ==
  /\ At(w, "idle")
  /\ ClaimNothing({})
  /\ UNCHANGED <<caseVars, worker, api, human>>

(* on_started reads the case ...                                           *)
StartedRead(w) ==
  /\ At(w, "starting")
  /\ Goto(w, IF caseStatus[CaseAt(w)] = "review_running" THEN "executing" ELSE "marking")
  /\ UNCHANGED <<storeVars, caseVars, api, human>>

(* ... and writes its status, whatever it has become.                      *)
StartedMark(w) ==
  /\ At(w, "marking")
  /\ SetCase(CaseAt(w), "review_running")
  /\ Goto(w, "executing")
  /\ UNCHANGED <<storeVars, intake, response, plan, frozen, synced, api, human>>

Pause(w) ==
  /\ At(w, "executing") /\ RunMayEnd
  /\ PauseTask(worker[w].task, worker[w].attempt, saved[worker[w].task] + 1)
  /\ Goto(w, "waiting")
  /\ UNCHANGED <<caseVars, api, human>>

Complete(w) ==
  /\ At(w, "executing") /\ RunMayEnd
  /\ \E r \in Reviews :
       /\ CompleteTask(worker[w].task, worker[w].attempt, r)
       /\ worker' = [worker EXCEPT ![w].pc = "succeeded", ![w].carries = r]
  /\ UNCHANGED <<caseVars, api, human>>

Fail(w) ==
  /\ Running(w) /\ RunMayEnd
  /\ FailTask(worker[w].task, worker[w].attempt)
  /\ Goto(w, "failed")
  /\ UNCHANGED <<caseVars, api, human>>

Fenced(w) ==
  /\ Running(w) /\ ~CanWrite(worker[w].task, worker[w].attempt)
  /\ Release(w)
  /\ UNCHANGED <<storeVars, caseVars, api, human>>

(* Mutant: the callback does not name the status it expects.               *)
ReportUnguarded(c, s) == SetCase(c, s)

(* update_case(..., expected_status="review_running"): nothing is written  *)
(* when the case has been moved.                                           *)
ReportOutcome(c, s) ==
  IF caseStatus[c] = "review_running" THEN SetCase(c, s) ELSE UNCHANGED caseStatus

OnWaiting(w) ==
  /\ At(w, "waiting")
  /\ ReportOutcome(CaseAt(w), "needs_info")
  /\ Release(w)
  /\ UNCHANGED <<storeVars, intake, response, plan, frozen, synced, api, human>>

OnFailed(w) ==
  /\ At(w, "failed")
  /\ ReportOutcome(CaseAt(w), "run_failed")
  /\ Release(w)
  /\ UNCHANGED <<storeVars, intake, response, plan, frozen, synced, api, human>>

(* on_succeeded syncs the remediation list and derives the status ...      *)
Reconcile(w) ==
  /\ At(w, "succeeded")
  /\ \E p \in {"blocking", "clear"} :
       /\ plan' = [plan EXCEPT ![CaseAt(w)] = p]
       /\ worker' = [worker EXCEPT
            ![w].pc = "promoting",
            ![w].carries = FinalStatus(worker[w].carries, p = "blocking")]
  /\ UNCHANGED <<storeVars, caseStatus, intake, response, frozen, synced, api, human>>

(* Mutant: the case of a review without a remediation list is not parked.  *)
ReconcileFailsSilently(w) ==
  /\ At(w, "succeeded")
  /\ Release(w)
  /\ UNCHANGED <<storeVars, caseVars, api, human>>

(* ... or fails to, and then parks the case without asking for its status. *)
ReconcileFails(w) ==
  /\ At(w, "succeeded")
  /\ Goto(w, "parking")
  /\ UNCHANGED <<storeVars, caseVars, api, human>>

Park(w) ==
  /\ At(w, "parking")
  /\ SetCase(CaseAt(w), "run_failed")
  /\ response' = [response EXCEPT ![CaseAt(w)] = worker[w].task]
  /\ Goto(w, "log_failed")
  /\ UNCHANGED <<storeVars, intake, plan, frozen, synced, api, human>>

Promote(w) ==
  /\ At(w, "promoting")
  /\ ReportOutcome(CaseAt(w), worker[w].carries)
  /\ IF caseStatus[CaseAt(w)] = "review_running"
       THEN /\ response' = [response EXCEPT ![CaseAt(w)] = worker[w].task]
            /\ Goto(w, "log_synced")
       ELSE /\ UNCHANGED response
            /\ Release(w)
  /\ UNCHANGED <<storeVars, intake, plan, frozen, synced, api, human>>

(* The event that tells a retry whether the remediation list was saved.    *)
LogSync(w) ==
  /\ At(w, "log_failed") \/ At(w, "log_synced")
  /\ synced' = [synced EXCEPT ![worker[w].task] =
       IF At(w, "log_failed") THEN "failed" ELSE "reconciled"]
  /\ Release(w)
  /\ UNCHANGED <<storeVars, caseStatus, intake, response, plan, frozen, api, human>>

(* run_once logs the exception of a callback and goes on to the next task. *)
CallbackRaises(w) ==
  /\ "callback" \in Faults /\ InCallback(w)
  /\ Release(w)
  /\ UNCHANGED <<storeVars, caseVars, api, human>>

Crash(w) ==
  /\ "crash" \in Faults /\ ~At(w, "idle")
  /\ Release(w)
  /\ UNCHANGED <<storeVars, caseVars, api, human>>

Lapse(t) ==
  /\ "lapse" \in Faults
  /\ LeaseLapses(t)
  /\ UNCHANGED <<caseVars, worker, api, human>>

RunEnds(w) == Pause(w) \/ Complete(w) \/ Fail(w) \/ Fenced(w)

WorkerStep(w) ==
  \/ Claim(w) \/ Poll(w)
  \/ StartedRead(w) \/ StartedMark(w)
  \/ RunEnds(w)
  \/ OnWaiting(w) \/ OnFailed(w)
  \/ Reconcile(w) \/ ReconcileFails(w) \/ Park(w) \/ Promote(w) \/ LogSync(w)
  \/ CallbackRaises(w) \/ Crash(w)

-----------------------------------------------------------------------------
(* The API: the reads and checks of a handler, then one action per store   *)
(* call.  A call record holds what the handler read: the status the case   *)
(* had, the task of the frozen input, the status asked for.                *)

Quiet == api = NoCall
Begin(op, step, c, t, target) ==
  /\ Quiet
  /\ api' = [op |-> op, step |-> step, case |-> c, task |-> t,
             was |-> caseStatus[c], target |-> target]
  /\ UNCHANGED <<storeVars, caseVars, worker, human>>
Step(step) == api.step = step
Then(step) == api' = [api EXCEPT !.step = step]
Done == api' = NoCall
ApiCase == api.case

HasLatest(c, St) == \E t \in TasksOf(c) : IsLatest(t) /\ status[t] \in St
CanFreeze(c, i) == i \in Range(frozen[c]) \/ Len(frozen[c]) < MaxFrozen
FrozenNow(c) == <<intake[c], 0>>

(* freeze_material_snapshot.                                               *)
BeginFreeze(c) ==
  /\ caseStatus[c] \in {"draft", "needs_info"}
  /\ CanFreeze(c, FrozenNow(c))
  /\ Begin("freeze", "freezing", c, <<c, FrozenNow(c)>>, caseStatus[c])

(* update_case_status to pending_review: the newest frozen facts must be   *)
(* the facts of the case.                                                  *)
BeginSubmit(c) ==
  /\ frozen[c] # << >> /\ FactsOf(Latest(c)) = intake[c]
  /\ ValidTransition(caseStatus[c], "pending_review")
  /\ Begin("submit", "setting", c, <<c, Latest(c)>>, "pending_review")

(* update_case_status to any other status a person may write.              *)
BeginStatus(c) ==
  \E s \in {"draft", "needs_info"} :
    /\ ValidTransition(caseStatus[c], s)
    /\ Begin("status", "setting", c, NoTask, s)

(* run_case: an active task is returned as it is, a finished one refused.  *)
BeginRun(c) ==
  /\ frozen[c] # << >>
  /\ caseStatus[c] \in {"pending_review", "needs_info", "pending_source_verification"}
  /\ ~(caseStatus[c] = "needs_info" /\ HasLatest(c, ActiveStatus))
  /\ ~(IsLatest(<<c, Latest(c)>>) /\ status[<<c, Latest(c)>>] = "succeeded")
  /\ Begin("run", "queueing", c, <<c, Latest(c)>>, "review_running")

(* guided_rereview_case: the remediation list is worked off.               *)
BeginRereview(c) ==
  /\ caseStatus[c] = "needs_info" /\ plan[c] = "clear"
  /\ ~HasLatest(c, ActiveStatus)
  /\ CanFreeze(c, FrozenNow(c))
  /\ Begin("rereview", "freezing", c, <<c, FrozenNow(c)>>, "review_running")

(* Mutant: the retry does not compare the frozen inputs.                   *)
RetryOfAnyInput(t) == caseStatus[CaseOf(t)] = "run_failed" /\ IsLatest(t)

RetryAllowed(t) ==
  /\ caseStatus[CaseOf(t)] = "run_failed"
  /\ IsLatest(t) /\ InputOf(t) = Latest(CaseOf(t))

(* retry_review_task runs the task again, unless its review is whole and   *)
(* only the remediation list is missing.                                   *)
RecoversPlan(t) == status[t] = "succeeded" /\ result[t] # "incomplete"

BeginRetry(t) ==
  /\ human[CaseOf(t)] < MaxHuman
  /\ RetryAllowed(t) /\ ~RecoversPlan(t)
  /\ Begin("retry", "retrying", CaseOf(t), t, "review_running")

BeginRecover(t) ==
  /\ RetryAllowed(t) /\ RecoversPlan(t) /\ synced[t] # "reconciled"
  /\ Begin("recover", "reconciling", CaseOf(t), t, "run_failed")

(* The webhook of a signed Feishu decision (apply_authoritative_decision). *)
BeginSign(c) ==
  /\ caseStatus[c] = "pending_feishu_approval"
  /\ \E s \in Signed : Begin("sign", "setting", c, NoTask, s)

(* create_material_snapshot and create_intake_snapshot: an input frozen    *)
(* before keeps its row and its place in the order.                        *)
Freeze ==
  /\ Step("freezing")
  /\ frozen' = IF InputOf(api.task) \in Range(frozen[ApiCase]) THEN frozen
               ELSE [frozen EXCEPT ![ApiCase] = Append(@, InputOf(api.task))]
  /\ Then(IF api.op = "rereview" THEN "queueing" ELSE "superseding")
  /\ UNCHANGED <<storeVars, caseStatus, intake, response, plan, synced, worker, human>>

Set ==
  /\ Step("setting")
  /\ SetCase(ApiCase, api.target)
  /\ IF api.op = "submit" THEN Then("queueing") ELSE Done
  /\ UNCHANGED <<storeVars, intake, response, plan, frozen, synced, worker, human>>

(* queue_review: the task enqueued, or the one returned, must be active.   *)
Queue ==
  /\ Step("queueing")
  /\ EnqueueReviewTask(api.task)
  /\ status'[api.task] \in ActiveStatus
  /\ Then("marking")
  /\ UNCHANGED <<caseVars, worker, human>>

(* Refused: another task is active, the input's task has ended, or a       *)
(* material of the snapshot was never parsed.                              *)
QueueRefused ==
  /\ Step("queueing")
  /\ IF api.op = "submit" THEN Then("rolling_back") ELSE Done
  /\ UNCHANGED <<storeVars, caseVars, worker, human>>

RollBack ==
  /\ Step("rolling_back")
  /\ SetCase(ApiCase, api.was)
  /\ Done
  /\ UNCHANGED <<storeVars, intake, response, plan, frozen, synced, worker, human>>

Mark ==
  /\ Step("marking")
  /\ SetCase(ApiCase, "review_running")
  /\ IF api.op = "rereview" THEN Then("superseding") ELSE Done
  /\ UNCHANGED <<storeVars, intake, response, plan, frozen, synced, worker, human>>

SupersedeStale ==
  /\ Step("superseding")
  /\ SupersedeWaitingTasks(ApiCase)
  /\ Done
  /\ UNCHANGED <<caseVars, worker, human>>

Restart ==
  /\ Step("retrying")
  /\ IF CanRetry(api.task)
       THEN /\ RetryTask(api.task)
            /\ human' = [human EXCEPT ![ApiCase] = @ + 1]
            /\ Then("marking")
       ELSE Done /\ UNCHANGED <<storeVars, human>>
  /\ UNCHANGED <<caseVars, worker>>

RecoverPlan ==
  /\ Step("reconciling")
  /\ \/ \E p \in {"blocking", "clear"} :
          /\ plan' = [plan EXCEPT ![ApiCase] = p]
          /\ api' = [api EXCEPT !.step = "finalising",
                                !.target = FinalStatus(result[api.task], p = "blocking")]
          /\ UNCHANGED synced
     \/ /\ synced' = [synced EXCEPT ![api.task] = "failed"]
        /\ Done
        /\ UNCHANGED plan
  /\ UNCHANGED <<storeVars, caseStatus, intake, response, frozen, worker, human>>

(* The case is moved, then the event is added.                             *)
Finalise ==
  /\ Step("finalising")
  /\ SetCase(ApiCase, api.target)
  /\ response' = [response EXCEPT ![ApiCase] = api.task]
  /\ Then("logging")
  /\ UNCHANGED <<storeVars, intake, plan, frozen, synced, worker, human>>

LogRecovery ==
  /\ Step("logging")
  /\ synced' = [synced EXCEPT ![api.task] = "reconciled"]
  /\ Done
  /\ UNCHANGED <<storeVars, caseStatus, intake, response, plan, frozen, worker, human>>

ApiDies ==
  /\ "crash" \in Faults /\ ~Quiet
  /\ Done
  /\ UNCHANGED <<storeVars, caseVars, worker, human>>

-----------------------------------------------------------------------------
(* Handlers that are one action: a single write, or one case_transaction.  *)

(* PATCH of the intake; reviewers may edit until the case is signed.       *)
Edit(c) ==
  /\ Quiet /\ caseStatus[c] \notin Signed
  /\ \E v \in Facts \ {intake[c]} : intake' = [intake EXCEPT ![c] = v]
  /\ UNCHANGED <<storeVars, caseStatus, response, plan, frozen, synced, worker, api, human>>

(* The last blocking action of the remediation list is accepted.           *)
WorkOff(c) ==
  /\ Quiet /\ plan[c] = "blocking"
  /\ plan' = [plan EXCEPT ![c] = "clear"]
  /\ UNCHANGED <<storeVars, caseStatus, intake, response, frozen, synced, worker, api, human>>

(* answer_agent_question looks at the task, not at the status of the case. *)
Answer(t) ==
  /\ Quiet /\ human[CaseOf(t)] < MaxHuman
  /\ ResumeTask(t)
  /\ SetCase(CaseOf(t), "review_running")
  /\ human' = [human EXCEPT ![CaseOf(t)] = @ + 1]
  /\ UNCHANGED <<intake, response, plan, frozen, synced, worker, api>>

(* _current: the task and the frozen input the applicant saw are still the *)
(* newest.                                                                 *)
Current(t) ==
  /\ caseStatus[CaseOf(t)] = "needs_info"
  /\ IsLatest(t) /\ InputOf(t) = Latest(CaseOf(t))

StageAnswer(t) ==
  /\ Quiet /\ Current(t)
  /\ RecordWaitingInput(t, saved[t])
  /\ UNCHANGED <<caseVars, worker, api, human>>

(* Mutant: the fingerprint of confirmed facts leaves out what they replace.*)
ConfirmedWithoutRef(c, v) == <<v, 0>>

(* The fingerprint binds the snapshot that the confirmed facts replace.    *)
ConfirmedInput(c, v) == <<v, Len(frozen[c])>>

(* confirm_facts: new facts, frozen, the open question closed and the new  *)
(* task queued in one transaction; with any refusal nothing is written.    *)
Confirm(t, v) ==
  LET c == CaseOf(t)
      i == ConfirmedInput(c, v)
      new == <<c, i>>
      closed == SupersededStatus(c)
  IN
  /\ Quiet /\ Current(t) /\ CanFreeze(c, i)
  /\ (status[t] = "waiting_input" /\ staged[t]) \/ status[t] = "succeeded"
  /\ v # FactsOf(InputOf(t)) /\ intake[c] = FactsOf(InputOf(t))
  /\ \A u \in TasksOf(c) \ {new} : closed[u] \notin ActiveStatus
  /\ closed[new] \in ActiveStatus \cup {"absent"}
  /\ frozen' = IF i \in Range(frozen[c]) THEN frozen ELSE [frozen EXCEPT ![c] = Append(@, i)]
  /\ intake' = [intake EXCEPT ![c] = v]
  /\ status' = [closed EXCEPT ![new] = IF @ = "absent" THEN "queued" ELSE @]
  /\ born' = IF closed[new] = "absent" THEN Append(born, new) ELSE born
  /\ lease' = SupersededLease(c)
  /\ attempts' = SupersededAttempts(c)
  /\ SetCase(c, "review_running")
  /\ UNCHANGED <<attempt, saved, staged, result, rows, runs,
                 response, plan, synced, worker, api, human>>

-----------------------------------------------------------------------------

ApiStep ==
  \/ Freeze \/ Set \/ Queue \/ QueueRefused \/ RollBack \/ Mark \/ SupersedeStale
  \/ Restart \/ RecoverPlan \/ Finalise \/ LogRecovery

CaseStep(c) ==
  \/ BeginFreeze(c) \/ BeginSubmit(c) \/ BeginStatus(c) \/ BeginRun(c)
  \/ BeginRereview(c) \/ BeginSign(c)
  \/ Edit(c) \/ WorkOff(c)

TaskStep(t) ==
  \/ Lapse(t)
  \/ BeginRetry(t) \/ BeginRecover(t)
  \/ Answer(t) \/ StageAnswer(t)
  \/ \E v \in Facts : Confirm(t, v)

Next ==
  \/ \E w \in Workers : WorkerStep(w)
  \/ \E c \in Cases : CaseStep(c)
  \/ \E t \in Tasks : TaskStep(t)
  \/ ApiStep
  \/ ApiDies

Spec == Init /\ [][Next]_vars

(* Workers poll, a run ends by its turn budget, a callback and a handler   *)
(* are straight-line code.  People need not do anything.                   *)
Fairness ==
  /\ \A w \in Workers :
       /\ WF_vars(Claim(w) \/ Poll(w))
       /\ WF_vars(StartedRead(w) \/ StartedMark(w))
       /\ WF_vars(RunEnds(w))
       /\ WF_vars(OnWaiting(w) \/ OnFailed(w) \/ Reconcile(w) \/ ReconcileFails(w)
                    \/ Park(w) \/ Promote(w) \/ LogSync(w))
  /\ WF_vars(ApiStep)

LiveSpec == Spec /\ Fairness

-----------------------------------------------------------------------------
(* Properties                                                              *)

(* The statements a worker's callback, and a handler, may be about to make. *)
CallbackSteps == {"idle", "starting", "marking", "executing", "waiting", "failed", "succeeded",
                  "parking", "promoting", "log_failed", "log_synced"}
Handlers == {"none", "freeze", "submit", "status", "run", "rereview", "retry", "recover", "sign"}
HandlerSteps == {"none", "freezing", "setting", "queueing", "marking", "rolling_back",
                 "superseding", "retrying", "reconciling", "finalising", "logging"}

(* The variables keep their types.                                         *)
TypeOK ==
  /\ StoreTypeOK
  /\ caseStatus \in [Cases -> CaseStatus]
  /\ intake \in [Cases -> Facts]
  /\ response \in [Cases -> Tasks \cup {NoTask}]
  /\ plan \in [Cases -> {"none", "blocking", "clear"}]
  /\ frozen \in [Cases -> Seq(Inputs)]
  /\ synced \in [Tasks -> {"none", "failed", "reconciled"}]
  /\ worker \in [Workers -> [pc : CallbackSteps, task : Tasks \cup {NoTask},
                             attempt : Nat, carries : CaseStatus \cup Result]]
  /\ api \in [op : Handlers, step : HandlerSteps, case : Cases \cup {NoTask},
              task : Tasks \cup {NoTask}, was : CaseStatus, target : CaseStatus]
  /\ human \in [Cases -> Nat]

(* A case waits for approval only on a finished review that found nothing  *)
(* missing, whatever callbacks come late, twice or not at all: the case    *)
(* shows the review that let it pass (reconcile_guided_action_list, the    *)
(* guarded writes of on_succeeded, on_waiting and on_failed).              *)
OnClearReview(c) ==
  /\ response[c] # NoTask
  /\ status[response[c]] = "succeeded" /\ result[response[c]] = "clear"

PendingOnClearReview ==
  \A c \in Cases : caseStatus[c] = "pending_feishu_approval" => OnClearReview(c)

(* docs/architecture.md:94: a review with something missing is not         *)
(* promoted to approval, so none stands behind a signed outcome.           *)
SignedOnClearReview ==
  \A c \in Cases : caseStatus[c] \in Signed => OnClearReview(c)

(* Confirmed facts become the newest frozen input and the newest task runs *)
(* on them, also when they return to facts frozen before                   *)
(* (docs/architecture.md:106).                                             *)
ConfirmedFactsAreNewest ==
  [][\A c \in Cases : intake'[c] # intake[c] /\ caseStatus'[c] = "review_running"
                        /\ caseStatus[c] = "needs_info" =>
       /\ Last(frozen'[c]) = InputOf(Last(born'))
       /\ FactsOf(Last(frozen'[c])) = intake'[c]]_vars

(* A task that has ended is run again only while it is the newest task of  *)
(* its case, on the newest frozen input, although the handler that retries *)
(* it checked this some transactions ago.                                  *)
OnlyNewestIsRetried ==
  [][\A t \in Tasks :
       status[t] \in {"failed", "succeeded"} /\ status'[t] = "queued" =>
         IsLatest(t) /\ InputOf(t) = Latest(CaseOf(t))]_vars

(* A worker is about to move the case.                                     *)
AboutToReport(c) == \E w \in Workers : InCallback(w) /\ CaseAt(w) = c

(* worker.py:104-105: an exception of a callback is caught on its own, so  *)
(* that a case whose task has succeeded is not left running for ever.      *)
NoFinishedReviewStranded ==
  \A t \in Tasks :
    IsLatest(t) /\ status[t] = "succeeded" /\ caseStatus[CaseOf(t)] = "review_running" =>
      AboutToReport(CaseOf(t)) \/ ~Quiet

(* Without faults a running review comes to an outcome people see, or to a *)
(* question they can answer.                                               *)
RunningCaseSettles ==
  \A c \in Cases :
    caseStatus[c] = "review_running" ~>
      \/ caseStatus[c] # "review_running"
      \/ \E t \in TasksOf(c) : status[t] = "waiting_input"

(* docs/architecture.md:80: only a signed Feishu event writes the outcome  *)
(* of a case, so nothing replaces it.                                      *)
SignedStands ==
  [][\A c \in Cases : caseStatus[c] \in Signed => caseStatus'[c] = caseStatus[c]]_vars

(* http/cases.py:435-436: freezing new inputs closes a question asked      *)
(* about older ones, so that it is not resumed against old material.       *)
NoStaleQuestionResumed ==
  [][\A t \in Tasks :
       status[t] = "waiting_input" /\ status'[t] = "queued" => InputOf(t) = Latest(CaseOf(t))]_vars

(* http/cases.py:565: when the facts have changed the applicant is told to *)
(* freeze them again, so that freezing makes them the ones to be submitted.*)
FreezeTakesEffect ==
  [][\A c \in Cases :
       api.step = "freezing" /\ api.op = "freeze" /\ api.case = c /\ api'.step = "superseding" =>
         FactsOf(Latest(c)') = FactsOf(InputOf(api.task))]_vars
=============================================================================
