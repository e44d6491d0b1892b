----------------------------- MODULE ReviewTasks -----------------------------
(***************************************************************************)
(* The review-task queue under its clients: workers that claim, run,       *)
(* checkpoint, pause, finish, fail or crash (ReviewWorker.run_once and     *)
(* execute_agent_task), leases that lapse while a worker is slow or dead,  *)
(* and people who queue, answer, confirm, retry and re-submit.             *)
(*                                                                         *)
(* The case status and the callbacks of the worker are left to ReviewCase; *)
(* here any caller may call an operation of the store whenever its own     *)
(* guard allows it.                                                        *)
(***************************************************************************)
EXTENDS TaskStore

CONSTANTS
  Workers,     \* worker processes
  NoTask,      \* the task of an idle worker
  MaxSteps,    \* bound: steps of an Agent state
  MaxHuman     \* bound: answers and retries per task

ASSUME NoTaskAssumption == NoTask \notin Tasks

VARIABLES
  worker,      \* the task and attempt a worker runs, and the steps in its memory
  human        \* history: answers and manual retries a task was given

vars == <<storeVars, worker, human>>

Idle == [task |-> NoTask, attempt |-> 0, steps |-> 0]

Runs(w, t) == worker[w].task = t
Busy(w) == worker[w].task # NoTask
MayWrite(w) == Busy(w) /\ CanWrite(worker[w].task, worker[w].attempt)

Release(w) == worker' = [worker EXCEPT ![w] = Idle]

Init ==
  /\ StoreInit
  /\ worker = [w \in Workers |-> Idle]
  /\ human = [t \in Tasks |-> 0]

-----------------------------------------------------------------------------
(* The worker                                                              *)

(* claim_next_task found a task; execute_agent_task resumes its saved state.*)
Claim(w, locked) ==
  /\ ~Busy(w)
  /\ \E t \in Tasks :
       /\ ClaimTask(t, locked)
       /\ worker' = [worker EXCEPT ![w] =
            [task |-> t, attempt |-> attempt[t] + 1, steps |-> saved[t]]]
  /\ UNCHANGED human

Poll(w, locked) ==
  /\ ~Busy(w)
  /\ ClaimNothing(locked)
  /\ UNCHANGED <<worker, human>>

(* A turn of run_agent: a step is appended and the state is saved.         *)
Checkpoint(w) ==
  /\ Busy(w) /\ worker[w].steps < MaxSteps
  /\ LET n == worker[w].steps + 1 IN
       /\ CheckpointAgent(worker[w].task, worker[w].attempt, n)
       /\ worker' = [worker EXCEPT ![w].steps = n]
  /\ UNCHANGED human

(* The Agent asks a question.                                              *)
Pause(w) ==
  /\ Busy(w)
  /\ PauseTask(worker[w].task, worker[w].attempt, worker[w].steps)
  /\ Release(w)
  /\ UNCHANGED human

Complete(w) ==
  /\ Busy(w)
  /\ \E r \in Reviews : CompleteTask(worker[w].task, worker[w].attempt, r)
  /\ Release(w)
  /\ UNCHANGED human

(* Any exception of the run: _persist_failure.                             *)
Fail(w) ==
  /\ Busy(w)
  /\ FailTask(worker[w].task, worker[w].attempt)
  /\ Release(w)
  /\ UNCHANGED human

(* A write of a worker whose attempt is no longer the running one raises,  *)
(* fail_task then raises too, and _persist_failure gives the task up.      *)
Fenced(w) ==
  /\ Busy(w) /\ ~MayWrite(w)
  /\ Release(w)
  /\ UNCHANGED <<storeVars, human>>

(* The process dies, or every attempt to persist the failure fails.        *)
Crash(w) ==
  /\ Busy(w)
  /\ Release(w)
  /\ UNCHANGED <<storeVars, human>>

-----------------------------------------------------------------------------
(* Time and people                                                         *)

Lapse(t) == LeaseLapses(t) /\ UNCHANGED <<worker, human>>

Enqueue(t) == EnqueueReviewTask(t) /\ UNCHANGED <<worker, human>>

StageAnswer(t) == RecordWaitingInput(t, saved[t]) /\ UNCHANGED <<worker, human>>

Answer(t) ==
  /\ human[t] < MaxHuman
  /\ ResumeTask(t)
  /\ human' = [human EXCEPT ![t] = @ + 1]
  /\ UNCHANGED worker

Retry(t) ==
  /\ human[t] < MaxHuman
  /\ RetryTask(t)
  /\ human' = [human EXCEPT ![t] = @ + 1]
  /\ UNCHANGED worker

Supersede(c) == SupersedeWaitingTasks(c) /\ UNCHANGED <<worker, human>>

-----------------------------------------------------------------------------

WorkerStep(w) ==
  \/ \E locked \in SUBSET Tasks : Claim(w, locked) \/ Poll(w, locked)
  \/ Checkpoint(w)
  \/ Pause(w)
  \/ Complete(w)
  \/ Fail(w)
  \/ Fenced(w)
  \/ Crash(w)

TaskStep(t) ==
  \/ Lapse(t)
  \/ Enqueue(t)
  \/ StageAnswer(t)
  \/ Answer(t)
  \/ Retry(t)

Next ==
  \/ \E w \in Workers : WorkerStep(w)
  \/ \E t \in Tasks : TaskStep(t)
  \/ \E c \in Cases : Supersede(c)

Spec == Init /\ [][Next]_vars

(* A worker process polls every few seconds and is restarted by its        *)
(* container, so a claim that stays possible is made; a run ends, by its   *)
(* turn budget, in one of four ways; the clock passes a lease nobody       *)
(* renews.  People are not fair.                                           *)
RunEnds(w) == Pause(w) \/ Complete(w) \/ Fail(w) \/ Fenced(w) \/ Crash(w)

Fairness ==
  /\ \A w \in Workers : WF_vars(Claim(w, {}) \/ Poll(w, {}))
  /\ \A w \in Workers : WF_vars(RunEnds(w))
  /\ \A t \in Tasks : WF_vars(Lapse(t))

LiveSpec == Spec /\ Fairness

-----------------------------------------------------------------------------
(* Properties                                                              *)

WorkerState == [task : Tasks \cup {NoTask}, attempt : Nat, steps : Nat]

(* The tables hold only values their CHECK constraints admit.              *)
TypeOK ==
  /\ StoreTypeOK
  /\ worker \in [Workers -> WorkerState]
  /\ human \in [Tasks -> Nat]

(* A case never has two tasks that are queued, running or waiting, whoever *)
(* queues, answers and retries them (enqueue_review_task, retry_task and   *)
(* the partial unique index).                                              *)
OneActiveTaskPerCase ==
  \A t, u \in Tasks :
    CaseOf(t) = CaseOf(u) /\ status[t] \in ActiveStatus /\ status[u] \in ActiveStatus => t = u

(* Two workers may run the same task, when the first one outlived its      *)
(* lease, but never under the same attempt number: the number is what      *)
(* tells the store whose writes to accept.                                 *)
SoleHolder ==
  \A w, v \in Workers :
    w # v /\ Busy(w) /\ Runs(v, worker[w].task) => worker[w].attempt # worker[v].attempt

(* The audit ledger agrees with the task: one row per attempt, at most the *)
(* newest one open, and open exactly while the task runs.                  *)
AttemptLedger ==
  \A t \in Tasks :
    /\ Len(attempts[t]) = attempt[t]
    /\ \A i \in DOMAIN attempts[t] :
         attempts[t][i] = "running" <=> status[t] = "running" /\ i = attempt[t]

(* A task no person touches again is run at most MaxAutoAttempts times,    *)
(* however often its workers die: every answer or retry buys one more.     *)
BoundedAttempts == \A t \in Tasks : attempt[t] <= MaxAutoAttempts + human[t]

(* Agent progress is never rolled back, neither by a worker that outlived  *)
(* its lease nor by a resumption: only a retry starts from nothing.        *)
ProgressKept ==
  [][\A t \in Tasks : saved'[t] < saved[t] => Retryable(t) /\ status'[t] = "queued"]_vars

(* A final review is never replaced: no worker, late or repeated, writes   *)
(* over it and no retry reopens the task.                                  *)
FinalReviewStands ==
  [][\A t \in Tasks :
       status[t] = "succeeded" /\ result[t] # "incomplete" =>
         status'[t] = "succeeded" /\ result'[t] = result[t]]_vars

(* Every queued or running task comes to rest: finished, failed, waiting   *)
(* for a person or superseded, although any worker may crash at any point  *)
(* of any attempt.                                                         *)
EveryTaskSettles ==
  \A t \in Tasks :
    status[t] \in {"queued", "running"} ~>
      status[t] \in {"succeeded", "failed", "waiting_input", "superseded"}

(* docs/architecture.md:93 says that every step is saved with a checkpoint *)
(* and an append-only, user-readable step record: a step a worker saves    *)
(* has a row written by the run that took it.  Not so after a retry: the   *)
(* new run counts its steps from 1 again, the old run's rows have those    *)
(* numbers, and checkpoint_agent skips the new ones.                       *)
EveryStepRecorded ==
  [][\A t \in Tasks :
       /\ status[t] = "running" /\ status'[t] = "running" /\ attempt'[t] = attempt[t]
       /\ saved'[t] > saved[t]
       => saved'[t] \in DOMAIN rows'[t] /\ rows'[t][saved'[t]] = runs[t]]_vars

(* The queue keeps the promise stated in TaskLifecycle: a grant is what a  *)
(* busy worker remembers, its token is the attempt number.                 *)
Grant == [w \in Workers |-> [task |-> worker[w].task, token |-> worker[w].attempt]]

Lifecycle == INSTANCE TaskLifecycle WITH phase <- status, token <- attempt, grant <- Grant

(* No write but the newest attempt's ends a run, and a task moves only as  *)
(* the documented lifecycle allows.                                        *)
ImplementsLifecycle == Lifecycle!Spec
=============================================================================
