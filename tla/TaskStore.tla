------------------------------ MODULE TaskStore ------------------------------
(***************************************************************************)
(* The durable review-task queue: the tables review_tasks,                 *)
(* review_task_attempts and review_task_steps, and the operations of       *)
(* PostgresEnterpriseStore on them (law_agent/review/enterprise_store.py). *)
(* Each operation is one database transaction, hence one action.  An       *)
(* operation that raises changes nothing: its guard is the condition under *)
(* which it does not raise, and CanX names that condition where a caller   *)
(* reacts to the error.                                                    *)
(*                                                                         *)
(* A task is identified by its idempotency key, which is UNIQUE: the case  *)
(* and the frozen input (material and intake snapshot; the model and the   *)
(* data boundary are fixed by the deployment).                             *)
(***************************************************************************)
EXTENDS Integers, Sequences

CONSTANTS
  Cases,              \* cases under review
  Inputs,             \* frozen inputs a case can be reviewed on
  Reviews,            \* bound: the kinds of review a run may end with
  MaxAutoAttempts     \* MAX_TASK_AUTO_ATTEMPTS, 5 in the code

ASSUME MaxAutoAttemptsAssumption == MaxAutoAttempts \in Nat \ {0}

(* What the predicates of workflow.py say of a review: nothing is missing, *)
(* facts are missing, a source must be verified first, or the review is    *)
(* incomplete and must be run again (review_requires_retry).               *)
ASSUME ReviewsAssumption == Reviews \subseteq {"clear", "gaps", "sources", "incomplete"}

VARIABLES
  status,    \* review_tasks.status, "absent" before the row exists
  attempt,   \* review_tasks.attempt_count
  lease,     \* lease_expires_at: NULL, in the future, or before now()
  saved,     \* number of steps in agent_state_json, 0 when it is NULL
  staged,    \* agent_state_json.fact_answer_revision is set
  result,    \* result_json: none, or the kind of review it holds
  attempts,  \* review_task_attempts.status by attempt_number
  rows,      \* review_task_steps: the run of the task that wrote each row
  runs,      \* how often the task was restarted from nothing (names the runs)
  born       \* the tasks in the order (created_at, id)

storeVars == <<status, attempt, lease, saved, staged, result, attempts, rows, runs, born>>

-----------------------------------------------------------------------------

Tasks == Cases \X Inputs
CaseOf(t) == t[1]

TaskStatus == {"queued", "running", "waiting_input", "succeeded", "failed", "superseded"}
ActiveStatus == {"queued", "running", "waiting_input"}
AttemptStatus == {"running", "waiting_input", "succeeded", "failed", "superseded"}
Lease == {"none", "live", "lapsed"}
Result == {"none"} \cup Reviews

TasksOf(c) == {t \in Tasks : CaseOf(t) = c}

(* Another task of the case is in a status that the partial unique index   *)
(* review_tasks_one_active_per_case_uq covers.                             *)
OtherActive(t) ==
  \E u \in Tasks : u # t /\ CaseOf(u) = CaseOf(t) /\ status[u] \in ActiveStatus

(* (created_at, id) of t precedes that of u.                               *)
Before(t, u) ==
  \E i, j \in DOMAIN born : i < j /\ born[i] = t /\ born[j] = u

(* get_latest_task: t is the newest task of its case.                      *)
IsLatest(t) ==
  /\ status[t] # "absent"
  /\ \A u \in TasksOf(CaseOf(t)) : status[u] # "absent" => ~Before(t, u)

StoreInit ==
  /\ status = [t \in Tasks |-> "absent"]
  /\ attempt = [t \in Tasks |-> 0]
  /\ lease = [t \in Tasks |-> "none"]
  /\ saved = [t \in Tasks |-> 0]
  /\ staged = [t \in Tasks |-> FALSE]
  /\ result = [t \in Tasks |-> "none"]
  /\ attempts = [t \in Tasks |-> << >>]
  /\ rows = [t \in Tasks |-> << >>]
  /\ runs = [t \in Tasks |-> 0]
  /\ born = << >>

-----------------------------------------------------------------------------
(* The table of attempts and the table of steps.                           *)

(* The row of t's current attempt is closed when it is still open.         *)
CloseAttempt(t, outcome) ==
  [i \in DOMAIN attempts[t] |->
     IF i = attempt[t] /\ attempts[t][i] = "running" THEN outcome ELSE attempts[t][i]]

(* Rows are inserted for the steps of a state with n steps that the table  *)
(* does not hold yet: rows already there are never rewritten.  The numbers *)
(* are consecutive here; those of AgentLoop leave out lost turns.          *)
RecordSteps(t, n) ==
  [i \in 1 .. (IF n > Len(rows[t]) THEN n ELSE Len(rows[t])) |->
     IF i \in DOMAIN rows[t] THEN rows[t][i] ELSE runs[t]]

-----------------------------------------------------------------------------
(* enqueue_review_task: refused while another task of the case is active;  *)
(* the task of an input that was queued before is returned as it is.       *)

CanEnqueue(t) == ~OtherActive(t)

InsertTask(t) ==
  /\ status' = [status EXCEPT ![t] = "queued"]
  /\ born' = Append(born, t)
  /\ UNCHANGED <<attempt, lease, saved, staged, result, attempts, rows, runs>>

EnqueueReviewTask(t) ==
  /\ CanEnqueue(t)
  /\ \/ status[t] = "absent" /\ InsertTask(t)
     \/ status[t] # "absent" /\ UNCHANGED storeVars

-----------------------------------------------------------------------------
(* claim_next_task: in one transaction the expired leases are swept, then  *)
(* the oldest queued task is taken.                                        *)

(* Mutant: the sweep's WHERE also asks for attempts left.                  *)
ExpiredWithAttemptsLeft ==
  {t \in Tasks : status[t] = "running" /\ lease[t] = "lapsed" /\ attempt[t] < MaxAutoAttempts}

Expired == {t \in Tasks : status[t] = "running" /\ lease[t] = "lapsed"}

SweepVerdict(t) == IF attempt[t] >= MaxAutoAttempts THEN "failed" ELSE "queued"

SweptStatus == [t \in Tasks |-> IF t \in Expired THEN SweepVerdict(t) ELSE status[t]]
SweptLease == [t \in Tasks |-> IF t \in Expired THEN "none" ELSE lease[t]]
(* Mutant: the sweep leaves the rows of the attempts it ends open.         *)
SweepLeavesAttemptsOpen == attempts

SweptAttempts ==
  [t \in Tasks |-> IF t \in Expired THEN CloseAttempt(t, "failed") ELSE attempts[t]]

Queued == {t \in Tasks : SweptStatus[t] = "queued"}

(* FOR UPDATE SKIP LOCKED: rows locked by a transaction in progress are    *)
(* passed over.                                                            *)
Oldest(t, locked) ==
  /\ t \in Queued \ locked
  /\ \A u \in Queued \ locked : ~Before(u, t)

ClaimTask(t, locked) ==
  /\ Oldest(t, locked)
  /\ status' = [SweptStatus EXCEPT ![t] = "running"]
  /\ attempt' = [attempt EXCEPT ![t] = @ + 1]
  /\ lease' = [SweptLease EXCEPT ![t] = "live"]
  /\ attempts' = [SweptAttempts EXCEPT ![t] = Append(@, "running")]
  /\ UNCHANGED <<saved, staged, result, rows, runs, born>>

(* Nothing to claim: the sweep is committed all the same.                  *)
ClaimNothing(locked) ==
  /\ Queued \subseteq locked
  /\ status' = SweptStatus
  /\ lease' = SweptLease
  /\ attempts' = SweptAttempts
  /\ UNCHANGED <<attempt, saved, staged, result, rows, runs, born>>

-----------------------------------------------------------------------------
(* Writes of the worker that claimed attempt a of t.  The UPDATE names the *)
(* expected attempt, so a worker whose attempt was taken away is refused.  *)

(* Mutant: the UPDATE does not name the expected attempt.                  *)
WriteWithoutFence(t, a) == status[t] = "running"

CanWrite(t, a) == status[t] = "running" /\ attempt[t] = a

(* checkpoint_agent renews the lease and saves a state with n steps.       *)
CheckpointAgent(t, a, n) ==
  /\ CanWrite(t, a)
  /\ saved' = [saved EXCEPT ![t] = n]
  /\ lease' = [lease EXCEPT ![t] = "live"]
  /\ rows' = [rows EXCEPT ![t] = RecordSteps(t, n)]
  /\ UNCHANGED <<status, attempt, staged, result, attempts, runs, born>>

(* pause_task: the state asks a question, no answer is staged yet.         *)
PauseTask(t, a, n) ==
  /\ CanWrite(t, a)
  /\ status' = [status EXCEPT ![t] = "waiting_input"]
  /\ saved' = [saved EXCEPT ![t] = n]
  /\ staged' = [staged EXCEPT ![t] = FALSE]
  /\ lease' = [lease EXCEPT ![t] = "none"]
  /\ rows' = [rows EXCEPT ![t] = RecordSteps(t, n)]
  /\ attempts' = [attempts EXCEPT ![t] = CloseAttempt(t, "waiting_input")]
  /\ UNCHANGED <<attempt, result, runs, born>>

CompleteTask(t, a, r) ==
  /\ CanWrite(t, a)
  /\ status' = [status EXCEPT ![t] = "succeeded"]
  /\ result' = [result EXCEPT ![t] = r]
  /\ lease' = [lease EXCEPT ![t] = "none"]
  /\ attempts' = [attempts EXCEPT ![t] = CloseAttempt(t, "succeeded")]
  /\ UNCHANGED <<attempt, saved, staged, rows, runs, born>>

FailTask(t, a) ==
  /\ CanWrite(t, a)
  /\ status' = [status EXCEPT ![t] = "failed"]
  /\ lease' = [lease EXCEPT ![t] = "none"]
  /\ attempts' = [attempts EXCEPT ![t] = CloseAttempt(t, "failed")]
  /\ UNCHANGED <<attempt, saved, staged, result, rows, runs, born>>

(* now() passes lease_expires_at of a running task.                        *)
LeaseLapses(t) ==
  /\ status[t] = "running" /\ lease[t] = "live"
  /\ lease' = [lease EXCEPT ![t] = "lapsed"]
  /\ UNCHANGED <<status, attempt, saved, staged, result, attempts, rows, runs, born>>

-----------------------------------------------------------------------------
(* Writes made for a person.                                               *)

(* record_waiting_input: the answer is kept with the question it answers;  *)
(* the gate is identified by the step count of the state that asked.       *)
RecordWaitingInput(t, gate) ==
  /\ status[t] = "waiting_input" /\ saved[t] = gate
  /\ staged' = [staged EXCEPT ![t] = TRUE]
  /\ UNCHANGED <<status, attempt, lease, saved, result, attempts, rows, runs, born>>

(* resume_task: the state saved is the one answer_agent returned, with one *)
(* more step; the step's row is inserted by the next checkpoint.           *)
ResumeTask(t) ==
  /\ status[t] = "waiting_input"
  /\ status' = [status EXCEPT ![t] = "queued"]
  /\ saved' = [saved EXCEPT ![t] = @ + 1]
  /\ staged' = [staged EXCEPT ![t] = FALSE]
  /\ UNCHANGED <<attempt, lease, result, attempts, rows, runs, born>>

(* Mutant: any finished task may be retried.                               *)
RetryAnyFinished(t) == status[t] \in {"failed", "succeeded"}

(* retry_task: a failed task, or a finished one whose review is incomplete,*)
(* is queued again from nothing; the partial unique index refuses it while *)
(* another task of the case is active.                                     *)
Retryable(t) ==
  \/ status[t] = "failed"
  \/ status[t] = "succeeded" /\ result[t] = "incomplete"

(* Mutant: no unique index on the active task of a case.                   *)
RetryWithoutIndex(t) == Retryable(t)

CanRetry(t) == Retryable(t) /\ ~OtherActive(t)

RetryTask(t) ==
  /\ CanRetry(t)
  /\ status' = [status EXCEPT ![t] = "queued"]
  /\ lease' = [lease EXCEPT ![t] = "none"]
  /\ saved' = [saved EXCEPT ![t] = 0]
  /\ staged' = [staged EXCEPT ![t] = FALSE]
  /\ runs' = [runs EXCEPT ![t] = @ + 1]
  /\ UNCHANGED <<attempt, result, attempts, rows, born>>

(* supersede_waiting_tasks: every waiting task of the case and every       *)
(* attempt of it that ended in a question.                                 *)
Waiting(c) == {t \in TasksOf(c) : status[t] = "waiting_input"}

SupersededStatus(c) == [t \in Tasks |-> IF t \in Waiting(c) THEN "superseded" ELSE status[t]]
SupersededLease(c) == [t \in Tasks |-> IF t \in Waiting(c) THEN "none" ELSE lease[t]]
SupersededAttempts(c) ==
  [t \in Tasks |->
     IF t \in Waiting(c)
       THEN [i \in DOMAIN attempts[t] |->
               IF attempts[t][i] = "waiting_input" THEN "superseded" ELSE attempts[t][i]]
       ELSE attempts[t]]

SupersedeWaitingTasks(c) ==
  /\ status' = SupersededStatus(c)
  /\ lease' = SupersededLease(c)
  /\ attempts' = SupersededAttempts(c)
  /\ UNCHANGED <<attempt, saved, staged, result, rows, runs, born>>

-----------------------------------------------------------------------------

StoreTypeOK ==
  /\ status \in [Tasks -> TaskStatus \cup {"absent"}]
  /\ attempt \in [Tasks -> Nat]
  /\ lease \in [Tasks -> Lease]
  /\ saved \in [Tasks -> Nat]
  /\ staged \in [Tasks -> BOOLEAN]
  /\ result \in [Tasks -> Result]
  /\ attempts \in [Tasks -> Seq(AttemptStatus)]
  /\ rows \in [Tasks -> Seq(Nat)]
  /\ runs \in [Tasks -> Nat]
  /\ born \in Seq(Tasks)
=============================================================================
