-------------------------- MODULE RemediationTasks --------------------------
(***************************************************************************)
(* The remediation plan of one case: its tasks, the submissions made for   *)
(* them, and the Agent's assessments of those (remediation.py,             *)
(* http/remediation.py, the remediation part of case_store.py).            *)
(*                                                                         *)
(* Two processes write these tables.  The API serves one handler at a      *)
(* time, and gives way only while an assessment runs.  The review worker   *)
(* replaces the list of current tasks after every review (the API does so  *)
(* only to recover a list the worker could not save).  The worker locks    *)
(* the plan and then the tasks, the API a task and then the plan: each may *)
(* wait for the other, and PostgreSQL then aborts one of them.             *)
(***************************************************************************)
EXTENDS Integers, FiniteSets

CONSTANTS
  Tasks,          \* rows a plan may have, named for their source_key
  Manual,         \* tasks a reviewer plans by hand: no review lists them
  FactTasks,      \* task_kind "fact_confirmation"
  Blocking,       \* pre-approval tasks a case cannot be approved without
  PostApproval,   \* tasks to work on once the case is approved
  NoTask,
  MaxSubs,        \* bound: submissions of one task
  MaxRuns         \* bound: runs of one assessment at a time

ASSUME TasksAssumption ==
  /\ NoTask \notin Tasks
  /\ Manual \subseteq Tasks /\ FactTasks \subseteq Tasks
  /\ Blocking \subseteq Tasks \ PostApproval /\ PostApproval \subseteq Tasks
ASSUME BoundsAssumption ==
  /\ MaxSubs \in Nat \ {0} /\ MaxRuns \in Nat \ {0}

VARIABLES
  case,      \* review_cases.status
  plan,      \* remediation_plans.status; "none" without a plan
  task,      \* remediation_tasks
  sub,       \* remediation_submissions, in the order of created_at, and
             \* the assessment of each
  api,       \* the API handler in flight
  sync,      \* the reconciliation in flight after a review
  stale      \* history: the plan's status was written from an old count

vars == <<case, plan, task, sub, api, sync, stale>>

-----------------------------------------------------------------------------

CaseStatus == {"review_running", "needs_info", "pending_source_verification",
               "pending_feishu_approval", "approved", "run_failed"}
PlanStatus == {"none", "draft", "active", "completed", "cancelled"}
TaskStatus == {"absent", "open", "in_progress", "pending_review", "completed"}
SubStatus == {"absent", "pending_review", "agent_feedback", "agent_verified",
              "accepted", "rejected"}
ReviewResult == {"clear", "missing", "sources", "incomplete"}

(* given: the submissions made; asked: how many there were when the task   *)
(* was last put to the applicant.                                          *)
Task == [status : TaskStatus, current : BOOLEAN, given : 0 .. MaxSubs, asked : 0 .. MaxSubs]
(* done: the applicant declares the action completed or not applicable;    *)
(* asks: the assessment's run_status is waiting_input; runs: its runs in   *)
(* flight.                                                                 *)
Submission == [status : SubStatus, done : BOOLEAN, asks : BOOLEAN, runs : 0 .. MaxRuns]

NoSubmission == [status |-> "absent", done |-> FALSE, asks |-> FALSE, runs |-> 0]

(* A handler in flight has read what it checks and not yet written; when   *)
(* it is "locked" its transaction holds the task and waits for the plan.   *)
Stage == {"idle", "starting", "reviewing", "applying", "locked"}
Call == [stage : Stage, task : Tasks \cup {NoTask}, n : 0 .. MaxSubs, yes : BOOLEAN,
         sub : SubStatus, to : TaskStatus, plan : PlanStatus, late : BOOLEAN]
NoCall == [stage |-> "idle", task |-> NoTask, n |-> 0, yes |-> FALSE,
           sub |-> "absent", to |-> "absent", plan |-> "none", late |-> FALSE]

Sync == [pc : {"idle", "locked", "written", "judged", "failed"}, byApi : BOOLEAN,
         listed : SUBSET Tasks, result : ReviewResult, target : CaseStatus]
NoSync == [pc |-> "idle", byApi |-> FALSE, listed |-> {}, result |-> "clear",
           target |-> "needs_info"]

SyncBusy == sync.pc \in {"locked", "written", "judged"}
(* The API is one process and its stores block it.                         *)
ApiFree == api.stage = "idle" /\ ~(SyncBusy /\ sync.byApi)
PlanLocked == sync.pc = "locked"

Vouched == {"accepted", "agent_verified"}
Reviewable == {"pending_review", "agent_feedback"}
Last(t) == sub[t][task[t].given]

CurrentTasks == {t \in Tasks : task[t].current}
Unfinished == {t \in CurrentTasks : task[t].status # "completed"}
Blockers == Unfinished \cap Blocking

Init ==
  /\ case = "review_running"
  /\ plan = "none"
  /\ task = [t \in Tasks |-> [status |-> "absent", current |-> FALSE, given |-> 0, asked |-> 0]]
  /\ sub = [t \in Tasks |-> [n \in 1 .. MaxSubs |-> NoSubmission]]
  /\ api = NoCall
  /\ sync = NoSync
  /\ stale = FALSE
-----------------------------------------------------------------------------
(* After a review: reconcile_guided_action_list.                           *)

(* A run has ended; its issues and questions become the list.  The plan's  *)
(* row is locked, or inserted.                                             *)
ReviewEnds ==
  /\ case = "review_running" /\ sync.pc = "idle"
  /\ \E listed \in SUBSET (Tasks \ Manual), result \in ReviewResult :
       sync' = [NoSync EXCEPT !.pc = "locked", !.listed = listed, !.result = result]
  /\ UNCHANGED <<case, plan, task, sub, api, stale>>

(* A listed task is new, or listed again: completed once, it is open.      *)
Relisted(row) ==
  IF row.status \in {"absent", "completed"}
    THEN [row EXCEPT !.current = TRUE, !.status = "open", !.asked = row.given]
    ELSE [row EXCEPT !.current = TRUE]

AfterSync(t) == IF t \in sync.listed THEN Relisted(task[t])
                                     ELSE [task[t] EXCEPT !.current = FALSE]

(* Every listed task is unfinished, and only listed tasks are current.     *)
PlanAfterSync == IF sync.listed = {} THEN "completed" ELSE "active"

(* sync_guided_remediation_plan, from its first UPDATE of the tasks to its *)
(* commit: it needs the rows of all current and of all listed tasks.       *)
SyncCommits ==
  /\ sync.pc = "locked"
  /\ api.stage = "locked" => api.task \notin CurrentTasks \cup sync.listed
  /\ task' = [t \in Tasks |-> AfterSync(t)]
  /\ plan' = PlanAfterSync
  /\ stale' = FALSE
  /\ api' = [api EXCEPT !.late = api.stage = "locked"]
  /\ sync' = [sync EXCEPT !.pc = "written"]
  /\ UNCHANGED <<case, sub>>

(* Mutant: the blockers are those of the run, not those of the plan.       *)
FinalByResult(result, open) ==
  CASE result = "sources" -> "pending_source_verification"
    [] result = "incomplete" -> "run_failed"
    [] result = "missing" -> "needs_info"
    [] OTHER -> "pending_feishu_approval"

FinalStatus(result, open) ==
  CASE result = "sources" -> "pending_source_verification"
    [] result = "incomplete" -> "run_failed"
    [] result = "missing" \/ open # {} -> "needs_info"
    [] OTHER -> "pending_feishu_approval"

(* The plan is read again, in a transaction of its own.                    *)
Rereads ==
  /\ sync.pc = "written"
  /\ sync' = [NoSync EXCEPT !.pc = "judged", !.byApi = sync.byApi,
                           !.target = FinalStatus(sync.result, Blockers)]
  /\ UNCHANGED <<case, plan, task, sub, api, stale>>

Promotes ==
  /\ sync.pc = "judged"
  /\ case' = sync.target
  /\ sync' = NoSync
  /\ UNCHANGED <<plan, task, sub, api, stale>>

(* A deadlock, a lost connection: the transaction is rolled back, or its   *)
(* answer is lost; the case waits for a retry.                             *)
SyncFails ==
  /\ sync.pc \in {"locked", "written"}
  /\ case' = "run_failed"
  /\ sync' = [sync EXCEPT !.pc = "failed", !.byApi = FALSE]
  /\ UNCHANGED <<plan, task, sub, api, stale>>

(* A retry of the review: the API saves the list of the run that succeeded,*)
(* unless that run was incomplete, and is started again.                   *)
Recover ==
  /\ ApiFree
  /\ case = "run_failed" /\ sync.pc = "failed" /\ sync.result # "incomplete"
  /\ sync' = [sync EXCEPT !.pc = "locked", !.byApi = TRUE]
  /\ UNCHANGED <<case, plan, task, sub, api, stale>>

(* A review is asked for: run_case does not look at the plan, as           *)
(* guided_rereview does, and a failed run is retried.                      *)
StartReview ==
  /\ ApiFree
  /\ \/ case \in {"needs_info", "pending_source_verification"}
     \/ case = "run_failed" /\ (sync.pc = "failed" => sync.result = "incomplete")
  /\ case' = "review_running"
  /\ sync' = NoSync
  /\ UNCHANGED <<plan, task, sub, api, stale>>

(* The approval is asked for, again with nothing blocking it, and given.   *)
Approve ==
  /\ ApiFree
  /\ case = "pending_feishu_approval" /\ Blockers = {}
  /\ case' = "approved"
  /\ UNCHANGED <<plan, task, sub, api, sync, stale>>

-----------------------------------------------------------------------------
(* Reviewers and applicants: handlers that are one transaction.            *)

(* create_remediation_plan: a draft, for a case that has no plan.          *)
CreatePlan ==
  /\ ApiFree /\ ~PlanLocked
  /\ plan = "none"
  /\ plan' = "draft"
  /\ task' = [t \in Tasks |-> IF t \in Manual THEN [task[t] EXCEPT !.status = "open", !.current = TRUE]
                                              ELSE task[t]]
  /\ UNCHANGED <<case, sub, api, sync, stale>>

(* activate_remediation_plan, whatever the plan's status, when every task  *)
(* has an assignee and a due date: a plan without tasks is completed.      *)
ActivatePlan ==
  /\ ApiFree /\ ~PlanLocked
  /\ plan # "none"
  /\ plan' = IF \A t \in Tasks : task[t].status = "absent" THEN "completed" ELSE "active"
  /\ UNCHANGED <<case, task, sub, api, sync, stale>>

CancelPlan ==
  /\ ApiFree /\ ~PlanLocked
  /\ plan # "none"
  /\ plan' = "cancelled"
  /\ UNCHANGED <<case, task, sub, api, sync, stale>>

Timely(t) == t \in PostApproval => case = "approved"

(* submit_remediation_task: the store checks the task under its lock; the  *)
(* assessment is created and its run begins.                               *)
Submit(t) ==
  /\ ApiFree
  /\ task[t].status = "in_progress" /\ task[t].current /\ Timely(t)
  /\ task[t].given < MaxSubs
  /\ \E done \in IF t \in FactTasks THEN {FALSE} ELSE BOOLEAN :
       sub' = [sub EXCEPT ![t][task[t].given + 1] =
                 [status |-> "pending_review", done |-> done, asks |-> FALSE, runs |-> 1]]
  /\ task' = [task EXCEPT ![t].status = "pending_review", ![t].given = @ + 1]
  /\ UNCHANGED <<case, plan, api, sync, stale>>

(* answer_remediation_assessment: its question stays open while it runs.   *)
Answer(t, n) ==
  /\ ApiFree
  /\ sub[t][n].asks /\ sub[t][n].runs < MaxRuns
  /\ sub' = [sub EXCEPT ![t][n].runs = @ + 1]
  /\ UNCHANGED <<case, plan, task, api, sync, stale>>

-----------------------------------------------------------------------------
(* Handlers of two steps: what is checked, and the transaction.            *)

BeginStart(t) ==
  /\ ApiFree
  /\ task[t].status # "absent" /\ task[t].current /\ plan = "active" /\ Timely(t)
  /\ api' = [NoCall EXCEPT !.stage = "starting", !.task = t]
  /\ UNCHANGED <<case, plan, task, sub, sync, stale>>

(* start_remediation_task looks at the status of the row, and no more.     *)
Start ==
  /\ api.stage = "starting"
  /\ task' = IF task[api.task].status = "open"
                THEN [task EXCEPT ![api.task].status = "in_progress"] ELSE task
  /\ api' = NoCall
  /\ UNCHANGED <<case, plan, sub, sync, stale>>

(* Mutant: any submission may be reviewed, not the newest only.            *)
BeginAnyReview(t) ==
  /\ ApiFree /\ task[t].current
  /\ \E n \in 1 .. task[t].given, accepted \in BOOLEAN :
       /\ sub[t][n].status \in Reviewable
       /\ api' = [NoCall EXCEPT !.stage = "reviewing", !.task = t, !.n = n, !.yes = accepted]
  /\ UNCHANGED <<case, plan, task, sub, sync, stale>>

(* review_remediation_submission: only the newest, and only the API        *)
(* changes what it reads of the submission.                                *)
BeginReview(t) ==
  /\ ApiFree /\ task[t].current
  /\ task[t].given > 0 /\ Last(t).status \in Reviewable
  /\ \E accepted \in BOOLEAN :
       api' = [NoCall EXCEPT !.stage = "reviewing", !.task = t, !.n = task[t].given,
                             !.yes = accepted]
  /\ UNCHANGED <<case, plan, task, sub, sync, stale>>

(* _advance: the run of the Agent ends with a question, or fails, and the  *)
(* assessment is updated, whatever another run made of it.                 *)
AssessmentAsks(t, n) ==
  /\ ApiFree /\ sub[t][n].runs > 0
  /\ \E question \in BOOLEAN :
       sub' = [sub EXCEPT ![t][n].asks = question, ![t][n].runs = @ - 1]
  /\ UNCHANGED <<case, plan, task, api, sync, stale>>

(* It ends with a conclusion, to be applied.                               *)
AssessmentEnds(t, n) ==
  /\ ApiFree /\ sub[t][n].runs > 0
  /\ sub' = [sub EXCEPT ![t][n].asks = FALSE, ![t][n].runs = @ - 1]
  /\ \E resolved \in BOOLEAN :
       api' = [NoCall EXCEPT !.stage = "applying", !.task = t, !.n = n, !.yes = resolved]
  /\ UNCHANGED <<case, plan, task, sync, stale>>

(* What an assessment makes of a submission and of its task.               *)
Assessed(t, done, resolved) ==
  CASE resolved /\ t \in FactTasks -> [sub |-> "agent_verified", to |-> "completed"]
    [] resolved /\ t \notin FactTasks -> [sub |-> "pending_review", to |-> "pending_review"]
    [] ~resolved /\ t \notin FactTasks /\ done -> [sub |-> "pending_review", to |-> "pending_review"]
    [] OTHER -> [sub |-> "agent_feedback", to |-> "in_progress"]

(* Mutant: the count leaves out the task that is being completed.          *)
CountedWithout(t, to) == IF Unfinished \ {t} # {} THEN "active" ELSE "completed"

(* The plan's status when task t becomes `to`, by the rows committed now.  *)
Counted(t, to) ==
  IF Unfinished \ {t} # {} \/ (task[t].current /\ to # "completed") THEN "active" ELSE "completed"

(* The transaction has locked and changed the submission and the task, has *)
(* counted, and goes on to the plan.                                       *)
Lock(outcome) ==
  api' = [NoCall EXCEPT !.stage = "locked", !.task = api.task, !.n = api.n,
                        !.sub = outcome.sub, !.to = outcome.to,
                        !.plan = Counted(api.task, outcome.to)]

Accept ==
  /\ api.stage = "reviewing" /\ api.yes
  /\ Lock([sub |-> "accepted", to |-> "completed"])
  /\ UNCHANGED <<case, plan, task, sub, sync, stale>>

(* A rejection leaves the plan alone.                                      *)
Reject ==
  /\ api.stage = "reviewing" /\ ~api.yes
  /\ sub' = [sub EXCEPT ![api.task][api.n].status = "rejected"]
  /\ task' = [task EXCEPT ![api.task].status = "in_progress"]
  /\ api' = NoCall
  /\ UNCHANGED <<case, plan, sync, stale>>

(* apply_agent_remediation_assessment: too late for a decided submission.  *)
Apply ==
  /\ api.stage = "applying"
  /\ IF sub[api.task][api.n].status = "pending_review"
       THEN Lock(Assessed(api.task, sub[api.task][api.n].done, api.yes))
       ELSE api' = NoCall
  /\ UNCHANGED <<case, plan, task, sub, sync, stale>>

ApiCommits ==
  /\ api.stage = "locked" /\ ~PlanLocked
  /\ sub' = [sub EXCEPT ![api.task][api.n].status = api.sub]
  /\ task' = [task EXCEPT ![api.task].status = api.to]
  /\ plan' = api.plan
  /\ stale' = api.late
  /\ api' = NoCall
  /\ UNCHANGED <<case, sync>>

(* The deadlock's other end, or a lost connection: nothing is written.     *)
ApiFails ==
  /\ api.stage # "idle"
  /\ api' = NoCall
  /\ UNCHANGED <<case, plan, task, sub, sync, stale>>

(* The process dies: no run of an assessment survives it, nor a list it    *)
(* was saving.                                                             *)
ApiDies ==
  /\ api' = NoCall
  /\ sub' = [t \in Tasks |-> [n \in 1 .. MaxSubs |-> [sub[t][n] EXCEPT !.runs = 0]]]
  /\ sync' = IF SyncBusy /\ sync.byApi THEN [sync EXCEPT !.pc = "failed", !.byApi = FALSE]
                                       ELSE sync
  /\ UNCHANGED <<case, plan, task, stale>>

Assessment(t, n) == AssessmentAsks(t, n) \/ AssessmentEnds(t, n) \/ Answer(t, n)

Next ==
  \/ ReviewEnds \/ SyncCommits \/ Rereads \/ Promotes \/ SyncFails
  \/ Recover \/ StartReview \/ Approve
  \/ CreatePlan \/ ActivatePlan \/ CancelPlan
  \/ \E t \in Tasks : Submit(t) \/ BeginStart(t) \/ BeginReview(t)
  \/ \E t \in Tasks : \E n \in 1 .. MaxSubs : Assessment(t, n)
  \/ Start \/ Accept \/ Reject \/ Apply \/ ApiCommits \/ ApiFails \/ ApiDies

Spec == Init /\ [][Next]_vars

-----------------------------------------------------------------------------
(* Properties.                                                             *)

(* The type of the state.                                                  *)
TypeOK ==
  /\ case \in CaseStatus /\ plan \in PlanStatus
  /\ task \in [Tasks -> Task]
  /\ sub \in [Tasks -> [1 .. MaxSubs -> Submission]]
  /\ api \in Call /\ sync \in Sync
  /\ stale \in BOOLEAN

(* A task is where its submissions leave it, although the assessment of a  *)
(* submission is applied without a look at the task: only the newest can be*)
(* undecided, and it is exactly while the task waits for a decision; and a *)
(* completed task rests on a submission made since it was last asked for,  *)
(* accepted by a reviewer or verified by the Agent.                        *)
TaskFollowsAnswers ==
  \A t \in Tasks :
    /\ \A n \in 1 .. MaxSubs : sub[t][n].status = "pending_review" =>
         n = task[t].given /\ task[t].status = "pending_review"
    /\ task[t].status = "pending_review" => task[t].given > 0 /\ Last(t).status = "pending_review"
    /\ task[t].status = "completed" => task[t].given > task[t].asked /\ Last(t).status \in Vouched

(* A plan is completed only when each of its current tasks is, unless its  *)
(* status was counted before a new list was saved and written after it.    *)
PlanCompletedMeansDone == plan = "completed" /\ ~stale => Unfinished = {}

(* A case goes to approval, and is approved, only with no blocking action  *)
(* left open, although the blockers are read, and the case promoted, in    *)
(* transactions that come after the one that saved the list.               *)
NothingBlocksApproval == case \in {"pending_feishu_approval", "approved"} => Blockers = {}

(* What a reviewer decided, or the Agent verified, is not undone by a run  *)
(* of an assessment that ends later: the submission keeps its verdict, and *)
(* a completed task is only asked for again by a new list.                 *)
DecisionStands ==
  [][\A t \in Tasks :
       /\ \A n \in 1 .. MaxSubs : sub[t][n].status \in Vouched \cup {"rejected"} =>
            sub'[t][n].status = sub[t][n].status
       /\ task[t].status = "completed" /\ task'[t].status # "completed" =>
            task'[t].status = "open" /\ t \in sync.listed /\ sync.pc = "locked"]_vars
=============================================================================
