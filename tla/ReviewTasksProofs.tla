-------------------------- MODULE ReviewTasksProofs --------------------------
(***************************************************************************)
(* What ReviewTasks guarantees for every set of cases, inputs and workers, *)
(* every limit on automatic attempts and every bound on steps and answers: *)
(* types, exclusion and the fence; the lifecycle it implements; and what   *)
(* it remembers of a task (the ledger of attempts, the limit on them, the  *)
(* results that stand and the progress that is kept).                      *)
(***************************************************************************)
EXTENDS ReviewTasks, TLAPS

(* The statuses an attempt can be closed with.                             *)
LEMMA CloseAttemptType ==
  ASSUME NEW t \in Tasks, NEW outcome \in AttemptStatus, attempts[t] \in Seq(AttemptStatus)
  PROVE  /\ CloseAttempt(t, outcome) \in Seq(AttemptStatus)
         /\ Len(CloseAttempt(t, outcome)) = Len(attempts[t])
         /\ DOMAIN CloseAttempt(t, outcome) = DOMAIN attempts[t]
BY DEF CloseAttempt

(* Superseding rewrites rows, not their number.                            *)
LEMMA SupersedeType ==
  ASSUME NEW s \in Seq(AttemptStatus),
         NEW z, z = [i \in DOMAIN s |-> IF s[i] = "waiting_input" THEN "superseded" ELSE s[i]]
  PROVE  /\ z \in Seq(AttemptStatus)
         /\ Len(z) = Len(s)
         /\ DOMAIN z = DOMAIN s
BY DEF AttemptStatus

(* Step rows are only added, and only numbers of runs are written.         *)
LEMMA RecordStepsType ==
  ASSUME NEW t \in Tasks, NEW n \in Nat, rows[t] \in Seq(Nat), runs[t] \in Nat
  PROVE  RecordSteps(t, n) \in Seq(Nat)
<1> DEFINE m == IF n > Len(rows[t]) THEN n ELSE Len(rows[t])
<1>1. m \in Nat /\ Len(rows[t]) \in Nat /\ DOMAIN rows[t] = 1 .. Len(rows[t])
  OBVIOUS
<1>2. \A i \in 1 .. m : (IF i \in DOMAIN rows[t] THEN rows[t][i] ELSE runs[t]) \in Nat
  BY <1>1
<1>3. [i \in 1 .. m |-> IF i \in DOMAIN rows[t] THEN rows[t][i] ELSE runs[t]] \in Seq(Nat)
  <2> HIDE DEF m
  <2> QED BY <1>1, <1>2
<1> QED BY <1>3 DEF RecordSteps

(* What the sweep of expired leases leaves behind.                         *)
LEMMA SweepType ==
  ASSUME StoreTypeOK
  PROVE  /\ SweptStatus \in [Tasks -> TaskStatus \cup {"absent"}]
         /\ SweptLease \in [Tasks -> Lease]
         /\ SweptAttempts \in [Tasks -> Seq(AttemptStatus)]
<1>1. SweptStatus \in [Tasks -> TaskStatus \cup {"absent"}]
  BY DEF SweptStatus, SweepVerdict, StoreTypeOK, TaskStatus
<1>2. SweptLease \in [Tasks -> Lease]
  BY DEF SweptLease, StoreTypeOK, Lease
<1>3. SweptAttempts \in [Tasks -> Seq(AttemptStatus)]
  <2>1. ASSUME NEW t \in Tasks
        PROVE  /\ attempts[t] \in Seq(AttemptStatus)
               /\ CloseAttempt(t, "failed") \in Seq(AttemptStatus)
    BY CloseAttemptType DEF StoreTypeOK, AttemptStatus
  <2> QED BY <2>1 DEF SweptAttempts
<1> QED BY <1>1, <1>2, <1>3

-----------------------------------------------------------------------------
(* Type correctness, operation by operation of the store.                  *)

LEMMA ClaimTaskType ==
  ASSUME StoreTypeOK, NEW t \in Tasks, NEW locked, ClaimTask(t, locked)
  PROVE  StoreTypeOK'
<1>1. status' \in [Tasks -> TaskStatus \cup {"absent"}] /\ lease' \in [Tasks -> Lease]
  BY SweepType DEF ClaimTask, TaskStatus, Lease
<1>2. attempt' \in [Tasks -> Nat]
  BY DEF ClaimTask, StoreTypeOK
<1>3. attempts' \in [Tasks -> Seq(AttemptStatus)]
  <2>1. SweptAttempts[t] \in Seq(AttemptStatus)
    BY SweepType
  <2>2. Append(SweptAttempts[t], "running") \in Seq(AttemptStatus)
    BY <2>1 DEF AttemptStatus
  <2> QED BY <2>2, SweepType DEF ClaimTask
<1> QED BY <1>1, <1>2, <1>3 DEF ClaimTask, StoreTypeOK

LEMMA ClaimNothingType ==
  ASSUME StoreTypeOK, NEW locked, ClaimNothing(locked)
  PROVE  StoreTypeOK'
BY SweepType DEF ClaimNothing, StoreTypeOK

LEMMA EnqueueType ==
  ASSUME StoreTypeOK, NEW t \in Tasks, EnqueueReviewTask(t)
  PROVE  StoreTypeOK'
<1>1. CASE InsertTask(t)
  <2>1. status' \in [Tasks -> TaskStatus \cup {"absent"}]
    BY <1>1 DEF InsertTask, StoreTypeOK, TaskStatus
  <2>2. born' \in Seq(Tasks)
    BY <1>1 DEF InsertTask, StoreTypeOK
  <2> QED BY <1>1, <2>1, <2>2 DEF InsertTask, StoreTypeOK
<1>2. CASE UNCHANGED storeVars
  BY <1>2 DEF StoreTypeOK, storeVars
<1> QED BY <1>1, <1>2 DEF EnqueueReviewTask

LEMMA WriteType ==
  ASSUME StoreTypeOK, NEW t \in Tasks, NEW a, NEW n \in Nat,
         \/ CheckpointAgent(t, a, n)
         \/ PauseTask(t, a, n)
         \/ FailTask(t, a)
         \/ \E r \in Result : CompleteTask(t, a, r)
  PROVE  StoreTypeOK'
<1>1. /\ RecordSteps(t, n) \in Seq(Nat)
      /\ \A o \in AttemptStatus : CloseAttempt(t, o) \in Seq(AttemptStatus)
  BY RecordStepsType, CloseAttemptType DEF StoreTypeOK
<1>2. CASE CheckpointAgent(t, a, n)
  BY <1>1, <1>2 DEF CheckpointAgent, StoreTypeOK, Lease
<1>3. CASE PauseTask(t, a, n)
  BY <1>1, <1>3 DEF PauseTask, StoreTypeOK, Lease, TaskStatus, AttemptStatus
<1>4. CASE FailTask(t, a)
  BY <1>1, <1>4 DEF FailTask, StoreTypeOK, Lease, TaskStatus, AttemptStatus
<1>5. CASE \E r \in Result : CompleteTask(t, a, r)
  BY <1>1, <1>5 DEF CompleteTask, StoreTypeOK, Lease, Result, TaskStatus, AttemptStatus
<1> QED BY <1>2, <1>3, <1>4, <1>5

LEMMA HumanType ==
  ASSUME StoreTypeOK, NEW t \in Tasks,
         \/ LeaseLapses(t) \/ ResumeTask(t) \/ RetryTask(t) \/ (\E g : RecordWaitingInput(t, g))
  PROVE  StoreTypeOK'
<1>1. CASE LeaseLapses(t)
  BY <1>1 DEF LeaseLapses, StoreTypeOK, Lease
<1>2. CASE ResumeTask(t)
  BY <1>2 DEF ResumeTask, StoreTypeOK, TaskStatus
<1>3. CASE RetryTask(t)
  BY <1>3 DEF RetryTask, StoreTypeOK, TaskStatus, Lease
<1>4. CASE \E g : RecordWaitingInput(t, g)
  BY <1>4 DEF RecordWaitingInput, StoreTypeOK
<1> QED BY <1>1, <1>2, <1>3, <1>4

LEMMA SupersedeTypeOK ==
  ASSUME StoreTypeOK, NEW c \in Cases, SupersedeWaitingTasks(c)
  PROVE  StoreTypeOK'
<1>1. \A t \in Tasks :
        [i \in DOMAIN attempts[t] |->
           IF attempts[t][i] = "waiting_input" THEN "superseded" ELSE attempts[t][i]]
        \in Seq(AttemptStatus)
  BY SupersedeType DEF StoreTypeOK
<1>2. attempts' \in [Tasks -> Seq(AttemptStatus)]
  BY <1>1 DEF SupersedeWaitingTasks, SupersededAttempts, StoreTypeOK
<1>3. status' \in [Tasks -> TaskStatus \cup {"absent"}] /\ lease' \in [Tasks -> Lease]
  BY DEF SupersedeWaitingTasks, SupersededStatus, SupersededLease, StoreTypeOK, TaskStatus, Lease
<1> QED BY <1>2, <1>3 DEF SupersedeWaitingTasks, StoreTypeOK

-----------------------------------------------------------------------------
(* Every step of the specification is one of its actions.                  *)

LEMMA StepCases ==
  ASSUME Next
  PROVE  \/ \E w \in Workers :
              \/ \E locked : Claim(w, locked) \/ Poll(w, locked)
              \/ Checkpoint(w) \/ Pause(w) \/ Complete(w) \/ Fail(w) \/ Fenced(w) \/ Crash(w)
         \/ \E t \in Tasks : Lapse(t) \/ Enqueue(t) \/ StageAnswer(t) \/ Answer(t) \/ Retry(t)
         \/ \E c \in Cases : Supersede(c)
BY DEF Next, WorkerStep, TaskStep

(* A busy worker's record holds a task and naturals.                       *)
LEMMA BusyType ==
  ASSUME TypeOK, NEW w \in Workers, Busy(w)
  PROVE  worker[w].task \in Tasks /\ worker[w].attempt \in Nat /\ worker[w].steps \in Nat
BY DEF TypeOK, WorkerState, Busy

LEMMA IdleType == Idle \in WorkerState
BY DEF Idle, WorkerState

LEMMA TypeInit == Init => TypeOK
<1> SUFFICES ASSUME Init PROVE TypeOK
  OBVIOUS
<1>1. StoreTypeOK
  BY DEF Init, StoreInit, StoreTypeOK, TaskStatus, Lease, Result
<1>2. worker \in [Workers -> WorkerState] /\ human \in [Tasks -> Nat]
  BY IdleType DEF Init
<1> QED BY <1>1, <1>2 DEF TypeOK

LEMMA TypeStep == TypeOK /\ [Next]_vars => TypeOK'
<1> SUFFICES ASSUME TypeOK, [Next]_vars PROVE TypeOK'
  OBVIOUS
<1> USE DEF TypeOK
<1>1. CASE UNCHANGED vars
  BY <1>1 DEF vars, storeVars, StoreTypeOK
<1>2. ASSUME NEW w \in Workers, NEW locked, Claim(w, locked) PROVE TypeOK'
  <2>1. PICK t \in Tasks :
          /\ ClaimTask(t, locked)
          /\ worker' = [worker EXCEPT ![w] =
               [task |-> t, attempt |-> attempt[t] + 1, steps |-> saved[t]]]
    BY <1>2 DEF Claim
  <2>2. StoreTypeOK'
    BY <2>1, ClaimTaskType
  <2>3. [task |-> t, attempt |-> attempt[t] + 1, steps |-> saved[t]] \in WorkerState
    BY DEF StoreTypeOK, WorkerState
  <2>4. worker' \in [Workers -> WorkerState]
    BY <2>1, <2>3
  <2> QED BY <1>2, <2>2, <2>4 DEF Claim
<1>3. ASSUME NEW w \in Workers, NEW locked, Poll(w, locked) PROVE TypeOK'
  BY <1>3, ClaimNothingType DEF Poll
<1>4. ASSUME NEW w \in Workers, Checkpoint(w) PROVE TypeOK'
  <2>1. worker[w].task \in Tasks /\ worker[w].steps + 1 \in Nat
    BY <1>4, BusyType DEF Checkpoint
  <2>2. StoreTypeOK'
    BY <1>4, <2>1, WriteType DEF Checkpoint
  <2>3. worker' \in [Workers -> WorkerState]
    BY <1>4, <2>1 DEF Checkpoint, WorkerState
  <2> QED BY <1>4, <2>2, <2>3 DEF Checkpoint
<1>5. ASSUME NEW w \in Workers, Pause(w) \/ Complete(w) \/ Fail(w) PROVE TypeOK'
  <2>1. worker[w].task \in Tasks /\ worker[w].steps \in Nat
    BY <1>5, BusyType DEF Pause, Complete, Fail
  <2>2. StoreTypeOK'
    BY <1>5, <2>1, WriteType DEF Pause, Complete, Fail, Result
  <2> QED BY <1>5, <2>2, IdleType DEF Pause, Complete, Fail, Release
<1>6. ASSUME NEW w \in Workers, Fenced(w) \/ Crash(w) PROVE TypeOK'
  BY <1>6, IdleType DEF Fenced, Crash, Release, storeVars, StoreTypeOK
<1>7. ASSUME NEW t \in Tasks, Lapse(t) \/ StageAnswer(t) PROVE TypeOK'
  BY <1>7, HumanType DEF Lapse, StageAnswer
<1>8. ASSUME NEW t \in Tasks, Enqueue(t) PROVE TypeOK'
  BY <1>8, EnqueueType DEF Enqueue
<1>9. ASSUME NEW t \in Tasks, Answer(t) \/ Retry(t) PROVE TypeOK'
  BY <1>9, HumanType DEF Answer, Retry
<1>10. ASSUME NEW c \in Cases, Supersede(c) PROVE TypeOK'
  BY <1>10, SupersedeTypeOK DEF Supersede
<1> QED BY <1>1, <1>2, <1>3, <1>4, <1>5, <1>6, <1>7, <1>8, <1>9, <1>10, StepCases

(* The tables and the workers only ever hold values of their types: no     *)
(* transaction of the store writes a status its CHECK constraint refuses.  *)
THEOREM TypeCorrect == Spec => []TypeOK
BY TypeInit, TypeStep, PTL DEF Spec

-----------------------------------------------------------------------------
(* At most one active task per case.                                       *)

(* A write of a claimed or waiting task leaves every task that was         *)
(* inactive inactive, except one that no other active task stands beside.  *)
LEMMA ActiveStep ==
  TypeOK /\ OneActiveTaskPerCase /\ [Next]_vars => OneActiveTaskPerCase'
<1> SUFFICES ASSUME TypeOK, OneActiveTaskPerCase, [Next]_vars PROVE OneActiveTaskPerCase'
  OBVIOUS
<1> DEFINE Shrinks == \A t \in Tasks : status'[t] \in ActiveStatus => status[t] \in ActiveStatus
           Adds(t) == /\ ~OtherActive(t)
                      /\ \A u \in Tasks \ {t} : status'[u] = status[u]
<1>1. CASE Shrinks
  BY <1>1 DEF OneActiveTaskPerCase
<1>2. ASSUME NEW t \in Tasks, Adds(t) PROVE OneActiveTaskPerCase'
  BY <1>2 DEF OneActiveTaskPerCase, OtherActive
<1> USE DEF TypeOK, StoreTypeOK
<1>3. CASE UNCHANGED vars
  BY <1>1, <1>3 DEF vars, storeVars
<1>4. ASSUME NEW w \in Workers, NEW locked, Claim(w, locked) PROVE Shrinks
  <2>1. PICK t \in Tasks : ClaimTask(t, locked)
    BY <1>4 DEF Claim
  <2>2. status'[t] \in ActiveStatus => status[t] \in ActiveStatus
    BY <2>1 DEF ClaimTask, Oldest, Queued, SweptStatus, Expired, ActiveStatus
  <2>3. \A u \in Tasks \ {t} : status'[u] = SweptStatus[u]
    BY <2>1, SweepType DEF ClaimTask
  <2>4. \A u \in Tasks : SweptStatus[u] \in ActiveStatus => status[u] \in ActiveStatus
    BY DEF SweptStatus, Expired, ActiveStatus
  <2> QED BY <2>2, <2>3, <2>4
<1>5. ASSUME NEW w \in Workers, NEW locked, Poll(w, locked) PROVE Shrinks
  BY <1>5 DEF Poll, ClaimNothing, SweptStatus, Expired, ActiveStatus
<1>6. ASSUME NEW w \in Workers,
             Checkpoint(w) \/ Pause(w) \/ Complete(w) \/ Fail(w) \/ Fenced(w) \/ Crash(w)
      PROVE  Shrinks
  <2>1. Busy(w) => worker[w].task \in Tasks
    BY BusyType
  <2> QED
    BY <1>6, <2>1 DEF Checkpoint, CheckpointAgent, Pause, PauseTask, Complete, CompleteTask,
       Fail, FailTask, Fenced, Crash, CanWrite, storeVars, ActiveStatus
<1>7. ASSUME NEW t \in Tasks, Lapse(t) \/ StageAnswer(t) \/ Answer(t) PROVE Shrinks
  BY <1>7 DEF Lapse, LeaseLapses, StageAnswer, RecordWaitingInput, Answer, ResumeTask, ActiveStatus
<1>8. ASSUME NEW t \in Tasks, Enqueue(t) PROVE Shrinks \/ Adds(t)
  BY <1>8 DEF Enqueue, EnqueueReviewTask, CanEnqueue, InsertTask, storeVars
<1>9. ASSUME NEW t \in Tasks, Retry(t) PROVE Adds(t)
  BY <1>9 DEF Retry, RetryTask, CanRetry
<1>10. ASSUME NEW c \in Cases, Supersede(c) PROVE Shrinks
  BY <1>10 DEF Supersede, SupersedeWaitingTasks, SupersededStatus, Waiting, TasksOf, ActiveStatus
<1> QED
  <2> HIDE DEF Shrinks, Adds
  <2> QED
    BY <1>1, <1>2, <1>3, <1>4, <1>5, <1>6, <1>7, <1>8, <1>9, <1>10, StepCases

(* No interleaving of submissions, claims, answers, retries and crashes    *)
(* gives a case two active tasks.                                          *)
THEOREM OneActive == Spec => []OneActiveTaskPerCase
<1>1. Init => OneActiveTaskPerCase
  BY DEF Init, StoreInit, OneActiveTaskPerCase, ActiveStatus
<1> QED BY <1>1, TypeInit, TypeStep, ActiveStep, PTL DEF Spec

-----------------------------------------------------------------------------
(* A busy worker holds an attempt that was really given; attempt counts    *)
(* never go down, so an attempt once overtaken never becomes current again.*)

Held ==
  \A w \in Workers :
    IF Busy(w) THEN 0 < worker[w].attempt /\ worker[w].attempt <= attempt[worker[w].task]
               ELSE worker[w] = Idle

HeldInv == TypeOK /\ Held /\ SoleHolder

(* What a step does to the attempt counts and to the workers' memories.    *)
Given(w, t) ==
  /\ ~Busy(w)
  /\ attempt' = [attempt EXCEPT ![t] = @ + 1]
  /\ worker' = [worker EXCEPT ![w] =
       [task |-> t, attempt |-> attempt[t] + 1, steps |-> saved[t]]]

LEMMA HolderCases ==
  ASSUME TypeOK, [Next]_vars
  PROVE  \/ \E w \in Workers, t \in Tasks : Given(w, t)
         \/ /\ attempt' = attempt
            /\ \/ worker' = worker
               \/ \E w \in Workers : worker' = [worker EXCEPT ![w] = Idle]
               \/ \E w \in Workers, n \in Nat : Busy(w) /\ worker' = [worker EXCEPT ![w].steps = n]
<1> DEFINE Same == attempt' = attempt /\ worker' = worker
           Freed == attempt' = attempt /\ \E w \in Workers : worker' = [worker EXCEPT ![w] = Idle]
<1>1. CASE UNCHANGED vars
  BY <1>1 DEF vars, storeVars
<1>2. ASSUME NEW w \in Workers, NEW locked, Claim(w, locked) PROVE \E t \in Tasks : Given(w, t)
  BY <1>2 DEF Claim, ClaimTask, Given
<1>3. ASSUME NEW w \in Workers, NEW locked, Poll(w, locked) PROVE Same
  BY <1>3 DEF Poll, ClaimNothing
<1>4. ASSUME NEW w \in Workers, Checkpoint(w)
      PROVE  attempt' = attempt /\ Busy(w) /\ \E n \in Nat : worker' = [worker EXCEPT ![w].steps = n]
  <2>1. worker[w].steps + 1 \in Nat
    BY <1>4, BusyType DEF Checkpoint
  <2> QED BY <1>4, <2>1 DEF Checkpoint, CheckpointAgent
<1>5. ASSUME NEW w \in Workers, Pause(w) \/ Complete(w) \/ Fail(w) \/ Fenced(w) \/ Crash(w)
      PROVE  Freed
  BY <1>5 DEF Pause, PauseTask, Complete, CompleteTask, Fail, FailTask, Fenced, Crash, Release,
     storeVars
<1>6. ASSUME NEW t \in Tasks,
             Lapse(t) \/ Enqueue(t) \/ StageAnswer(t) \/ Answer(t) \/ Retry(t)
      PROVE  Same
  BY <1>6 DEF Lapse, LeaseLapses, Enqueue, EnqueueReviewTask, InsertTask, StageAnswer,
     RecordWaitingInput, Answer, ResumeTask, Retry, RetryTask, storeVars
<1>7. ASSUME NEW c \in Cases, Supersede(c) PROVE Same
  BY <1>7 DEF Supersede, SupersedeWaitingTasks
<1> QED
  <2> HIDE DEF Same, Freed
  <2>1. CASE Same
    BY <2>1 DEF Same
  <2>2. CASE Freed
    BY <2>2 DEF Freed
  <2> QED BY <1>1, <1>2, <1>3, <1>4, <1>5, <1>6, <1>7, <2>1, <2>2, StepCases DEF Same

LEMMA HeldStep == HeldInv /\ [Next]_vars => HeldInv'
<1> SUFFICES ASSUME HeldInv, [Next]_vars PROVE Held' /\ SoleHolder'
  BY TypeStep DEF HeldInv
<1> USE DEF HeldInv
<1>0. attempt \in [Tasks -> Nat] /\ worker \in [Workers -> WorkerState] /\ TypeOK
  BY DEF TypeOK, StoreTypeOK
<1>1. ASSUME NEW w \in Workers, NEW t \in Tasks, Given(w, t) PROVE Held' /\ SoleHolder'
  <2>1. worker'[w] = [task |-> t, attempt |-> attempt[t] + 1, steps |-> saved[t]]
    BY <1>0, <1>1 DEF Given
  <2>2. \A v \in Workers \ {w} : worker'[v] = worker[v]
    BY <1>0, <1>1 DEF Given
  <2>3. attempt'[t] = attempt[t] + 1 /\ \A u \in Tasks \ {t} : attempt'[u] = attempt[u]
    BY <1>0, <1>1 DEF Given
  <2>4. \A v \in Workers \ {w} : Busy(v) =>
          /\ worker[v].task \in Tasks /\ worker[v].attempt \in Nat
          /\ 0 < worker[v].attempt /\ worker[v].attempt <= attempt[worker[v].task]
    BY <1>0, BusyType DEF Held
  <2>5. \A v \in Workers \ {w} : Busy(v) =>
          worker[v].attempt <= attempt'[worker[v].task]
    BY <1>0, <2>3, <2>4
  <2>6. Held'
    <3>1. ASSUME NEW v \in Workers \ {w}
          PROVE  IF Busy(v)' THEN 0 < worker'[v].attempt /\ worker'[v].attempt <= attempt'[worker'[v].task]
                             ELSE worker'[v] = Idle
      BY <2>2, <2>4, <2>5 DEF Held, Busy
    <3>2. 0 < worker'[w].attempt /\ worker'[w].attempt <= attempt'[worker'[w].task] /\ Busy(w)'
      BY <1>0, <2>1, <2>3, NoTaskAssumption DEF Busy
    <3> QED BY <3>1, <3>2 DEF Held
  <2>7. \A v \in Workers \ {w} : worker'[v].task = t => worker'[v].attempt # worker'[w].attempt
    BY <1>0, <2>1, <2>2, <2>4, NoTaskAssumption DEF Busy
  <2>8. \A v, x \in Workers \ {w} :
          v # x /\ Busy(v)' /\ worker'[x].task = worker'[v].task => worker'[v].attempt # worker'[x].attempt
    BY <2>2 DEF SoleHolder, Busy, Runs
  <2>9. SoleHolder'
    BY <2>1, <2>7, <2>8 DEF SoleHolder, Runs, Busy
  <2> QED BY <2>6, <2>9
<1>2. CASE attempt' = attempt /\ worker' = worker
  BY <1>2 DEF Held, SoleHolder, Busy, Runs
<1>3. ASSUME NEW w \in Workers, attempt' = attempt, worker' = [worker EXCEPT ![w] = Idle]
      PROVE  Held' /\ SoleHolder'
  <2>1. worker'[w] = Idle /\ \A v \in Workers \ {w} : worker'[v] = worker[v]
    BY <1>0, <1>3
  <2> QED BY <1>3, <2>1 DEF Held, SoleHolder, Busy, Runs, Idle
<1>4. ASSUME NEW w \in Workers, NEW n \in Nat, Busy(w), attempt' = attempt,
             worker' = [worker EXCEPT ![w].steps = n]
      PROVE  Held' /\ SoleHolder'
  <2>1. /\ \A v \in Workers \ {w} : worker'[v] = worker[v]
        /\ worker'[w].task = worker[w].task /\ worker'[w].attempt = worker[w].attempt
    BY <1>0, <1>4 DEF WorkerState
  <2>2. \A v \in Workers : worker'[v].task = worker[v].task /\ worker'[v].attempt = worker[v].attempt
    BY <2>1
  <2>3. \A v \in Workers : (v = w => Busy(v)) /\ (v # w => worker'[v] = worker[v])
    BY <1>4, <2>1
  <2> QED BY <1>4, <2>2, <2>3 DEF Held, SoleHolder, Busy, Runs
<1> QED BY <1>0, <1>1, <1>2, <1>3, <1>4, HolderCases

LEMMA HeldInit == Init => HeldInv
<1> SUFFICES ASSUME Init PROVE Held /\ SoleHolder
  BY TypeInit DEF HeldInv
<1>1. \A w \in Workers : worker[w] = Idle /\ ~Busy(w)
  BY DEF Init, Idle, Busy
<1> QED BY <1>1 DEF Held, SoleHolder

(* Two workers never run a task under the same attempt number, so the      *)
(* fence tells every late writer from the present one.                     *)
THEOREM FenceSeparates == Spec => []SoleHolder
<1>1. HeldInv => SoleHolder
  BY DEF HeldInv
<1> QED BY <1>1, HeldInit, HeldStep, PTL DEF Spec

-----------------------------------------------------------------------------
(* The durable queue keeps the promise of TaskLifecycle: leases, sweeps,   *)
(* rows and checkpoints add no way to run or to end a task that the        *)
(* lifecycle with its tokens does not have.                                *)

Phases == {"absent", "queued", "running", "waiting_input", "succeeded", "failed", "superseded"}

(* Expired leases are runs taken away.                                     *)
LEMMA SweepRevokes ==
  ASSUME TypeOK
  PROVE  /\ SweptStatus \in [Tasks -> Phases]
         /\ Expired \in SUBSET Tasks
         /\ \A t \in Expired : status[t] = "running" /\ SweptStatus[t] \in {"queued", "failed"}
         /\ \A t \in Tasks \ Expired : SweptStatus[t] = status[t]
BY SweepType DEF TypeOK, TaskStatus, Phases, Expired, SweptStatus, SweepVerdict

LEMMA LifecycleInit == Init => Lifecycle!Init
BY DEF Init, StoreInit, Lifecycle!Init, Lifecycle!NoGrant, Grant, Idle

LEMMA LifecycleStep == HeldInv /\ [Next]_vars => [Lifecycle!Next]_Lifecycle!vars
<1> SUFFICES ASSUME HeldInv, [Next]_vars
             PROVE  Lifecycle!Next \/ UNCHANGED Lifecycle!vars
  OBVIOUS
<1>0. /\ TypeOK /\ StoreTypeOK /\ attempt \in [Tasks -> Nat]
      /\ status \in [Tasks -> TaskStatus \cup {"absent"}]
      /\ worker \in [Workers -> WorkerState]
  BY DEF HeldInv, TypeOK, StoreTypeOK
<1>1. Grant \in [Workers -> [task : Tasks \cup {NoTask}, token : Nat]]
  BY <1>0 DEF Grant, WorkerState
(* A worker that is released holds no grant any more.                      *)
<1>2. ASSUME NEW w \in Workers, Release(w)
      PROVE  Grant' = [Grant EXCEPT ![w] = Lifecycle!NoGrant]
  BY <1>0, <1>2 DEF Release, Grant, Idle, Lifecycle!NoGrant
<1>3. CASE UNCHANGED vars
  BY <1>3 DEF vars, storeVars, Lifecycle!vars, Grant
<1>4. ASSUME NEW w \in Workers, NEW locked, Claim(w, locked) PROVE Lifecycle!Next
  <2>1. PICK t \in Tasks :
          /\ ClaimTask(t, locked)
          /\ worker' = [worker EXCEPT ![w] =
               [task |-> t, attempt |-> attempt[t] + 1, steps |-> saved[t]]]
    BY <1>4 DEF Claim
  <2>2. Grant[w] = Lifecycle!NoGrant
    BY <1>4 DEF Claim, HeldInv, Held, Grant, Idle, Lifecycle!NoGrant
  <2>3. Grant' = [Grant EXCEPT ![w] = [task |-> t, token |-> attempt[t] + 1]]
    BY <1>0, <2>1 DEF Grant
  <2>4. /\ Lifecycle!Revoked(Expired, SweptStatus)
        /\ SweptStatus[t] = "queued"
        /\ status' = [SweptStatus EXCEPT ![t] = "running"]
        /\ attempt' = [attempt EXCEPT ![t] = @ + 1]
    BY <1>0, <2>1, SweepRevokes DEF ClaimTask, Oldest, Queued, Lifecycle!Revoked
  <2>5. Lifecycle!Give(w, t)
    BY <1>0, <2>2, <2>3, <2>4, SweepRevokes DEF Lifecycle!Give, Phases
  <2> QED BY <2>5 DEF Lifecycle!Next
<1>5. ASSUME NEW w \in Workers, NEW locked, Poll(w, locked) PROVE Lifecycle!Next
  <2>1. status' = SweptStatus /\ attempt' = attempt /\ Grant' = Grant
    BY <1>5 DEF Poll, ClaimNothing, Grant
  <2>2. Lifecycle!Revoked(Expired, status')
    BY <1>0, <2>1, SweepRevokes DEF Lifecycle!Revoked
  <2>3. Lifecycle!Revoke
    BY <1>0, <2>1, <2>2, SweepRevokes DEF Lifecycle!Revoke, Phases
  <2> QED BY <2>3 DEF Lifecycle!Next
<1>6. ASSUME NEW w \in Workers, Checkpoint(w) PROVE UNCHANGED Lifecycle!vars
  <2>1. /\ worker' = [worker EXCEPT ![w].steps = worker[w].steps + 1]
        /\ status' = status /\ attempt' = attempt
    BY <1>6 DEF Checkpoint, CheckpointAgent
  <2>2. \A v \in Workers : worker'[v].task = worker[v].task /\ worker'[v].attempt = worker[v].attempt
    BY <1>0, <2>1 DEF WorkerState
  <2>3. Grant' = Grant
    BY <2>2 DEF Grant
  <2> QED BY <2>1, <2>3 DEF Lifecycle!vars
<1>7. ASSUME NEW w \in Workers, Pause(w) \/ Complete(w) \/ Fail(w) PROVE Lifecycle!Next
  <2> DEFINE t == worker[w].task
  <2>1. /\ t \in Tasks /\ Release(w)
        /\ CanWrite(t, worker[w].attempt) /\ attempt' = attempt
        /\ \E outcome \in {"waiting_input", "succeeded", "failed"} :
             status' = [status EXCEPT ![t] = outcome]
    BY <1>0, <1>7, BusyType DEF Pause, PauseTask, Complete, CompleteTask, Fail, FailTask
  <2>2. Lifecycle!Holds(w, t)
    BY <2>1 DEF Lifecycle!Holds, CanWrite, Grant
  <2>3. Lifecycle!Settle(w, t)
    BY <1>2, <2>1, <2>2 DEF Lifecycle!Settle
  <2> QED BY <2>1, <2>3 DEF Lifecycle!Next
<1>8. ASSUME NEW w \in Workers, Fenced(w) \/ Crash(w) PROVE Lifecycle!Next
  <2>1. Busy(w) /\ Release(w) /\ status' = status /\ attempt' = attempt
    BY <1>8 DEF Fenced, Crash, storeVars
  <2>2. Grant[w] # Lifecycle!NoGrant
    BY <2>1 DEF Busy, Grant, Lifecycle!NoGrant
  <2>3. Lifecycle!Drop(w)
    BY <1>2, <2>1, <2>2 DEF Lifecycle!Drop
  <2> QED BY <2>3 DEF Lifecycle!Next
<1>9. ASSUME NEW t \in Tasks, Lapse(t) \/ StageAnswer(t) PROVE UNCHANGED Lifecycle!vars
  BY <1>9 DEF Lapse, LeaseLapses, StageAnswer, RecordWaitingInput, Lifecycle!vars, Grant
<1>10. ASSUME NEW t \in Tasks, Enqueue(t) PROVE Lifecycle!Next \/ UNCHANGED Lifecycle!vars
  <2>1. CASE status[t] = "absent" /\ InsertTask(t)
    <3>1. Lifecycle!Submit(t)
      BY <1>10, <2>1 DEF Enqueue, InsertTask, Lifecycle!Submit, Grant
    <3> QED BY <3>1 DEF Lifecycle!Next
  <2>2. CASE UNCHANGED storeVars
    BY <1>10, <2>2 DEF Enqueue, storeVars, Lifecycle!vars, Grant
  <2> QED BY <1>10, <2>1, <2>2 DEF Enqueue, EnqueueReviewTask
<1>11. ASSUME NEW t \in Tasks, Answer(t) \/ Retry(t) PROVE Lifecycle!Next
  <2>1. Lifecycle!Reopen(t)
    BY <1>11 DEF Answer, ResumeTask, Retry, RetryTask, CanRetry, Retryable, Lifecycle!Reopen, Grant
  <2> QED BY <2>1 DEF Lifecycle!Next
<1>12. ASSUME NEW c \in Cases, Supersede(c) PROVE Lifecycle!Next
  <2>1. Waiting(c) \in SUBSET Tasks /\ \A t \in Waiting(c) : status[t] = "waiting_input"
    BY DEF Waiting, TasksOf
  <2>2. Lifecycle!Close(Waiting(c))
    BY <1>12, <2>1 DEF Supersede, SupersedeWaitingTasks, SupersededStatus, Lifecycle!Close, Grant
  <2> QED BY <2>1, <2>2 DEF Lifecycle!Next
<1> QED
  BY <1>3, <1>4, <1>5, <1>6, <1>7, <1>8, <1>9, <1>10, <1>11, <1>12, StepCases

(* Whatever lapses, crashes and late writes there are, a task moves only   *)
(* as the documented lifecycle allows, and only the newest grant of a task *)
(* ends its run (docs/architecture.md:92-93, enterprise_store.py).         *)
THEOREM QueueImplementsLifecycle == Spec => ImplementsLifecycle
BY LifecycleInit, LifecycleStep, HeldInit, HeldStep, PTL
   DEF Spec, ImplementsLifecycle, Lifecycle!Spec

-----------------------------------------------------------------------------
(* Results that stand.                                                     *)

(* No action writes a task whose review is final.                          *)
LEMMA FinalStep ==
  ASSUME TypeOK, [Next]_vars, NEW t \in Tasks,
         status[t] = "succeeded", result[t] # "incomplete"
  PROVE  status'[t] = "succeeded" /\ result'[t] = result[t]
<1> USE DEF TypeOK, StoreTypeOK
<1>1. CASE UNCHANGED vars
  BY <1>1 DEF vars, storeVars
<1>2. SweptStatus[t] = "succeeded" /\ SweptStatus \in [Tasks -> TaskStatus \cup {"absent"}]
  BY SweepType DEF SweptStatus, Expired
<1>3. ASSUME NEW w \in Workers, NEW locked, Claim(w, locked) \/ Poll(w, locked)
      PROVE  status'[t] = "succeeded" /\ result' = result
  <2>1. CASE Claim(w, locked)
    <3>1. PICK u \in Tasks : ClaimTask(u, locked)
      BY <2>1 DEF Claim
    <3>2. u # t
      BY <1>2, <3>1 DEF ClaimTask, Oldest, Queued
    <3> QED BY <1>2, <3>1, <3>2 DEF ClaimTask
  <2> QED BY <1>2, <1>3, <2>1 DEF Poll, ClaimNothing
<1>4. ASSUME NEW w \in Workers,
             Checkpoint(w) \/ Pause(w) \/ Complete(w) \/ Fail(w) \/ Fenced(w) \/ Crash(w)
      PROVE  status'[t] = "succeeded" /\ result'[t] = result[t]
  <2>1. Busy(w) => worker[w].task \in Tasks
    BY BusyType
  <2> QED
    BY <1>4, <2>1 DEF Checkpoint, CheckpointAgent, Pause, PauseTask, Complete, CompleteTask,
       Fail, FailTask, Fenced, Crash, CanWrite, storeVars
<1>5. ASSUME NEW u \in Tasks, Lapse(u) \/ Enqueue(u) \/ StageAnswer(u) \/ Answer(u) \/ Retry(u)
      PROVE  status'[t] = "succeeded" /\ result'[t] = result[t]
  BY <1>5 DEF Lapse, LeaseLapses, Enqueue, EnqueueReviewTask, InsertTask, StageAnswer,
     RecordWaitingInput, Answer, ResumeTask, Retry, RetryTask, CanRetry, Retryable, storeVars
<1>6. ASSUME NEW c \in Cases, Supersede(c)
      PROVE  status'[t] = "succeeded" /\ result'[t] = result[t]
  BY <1>6 DEF Supersede, SupersedeWaitingTasks, SupersededStatus, Waiting
<1> QED BY <1>1, <1>3, <1>4, <1>5, <1>6, StepCases

(* A review that is final stays the task's result for ever: no late worker *)
(* completes over it and no retry reopens it (complete_task, retry_task).  *)
THEOREM FinalReviewsStand == Spec => FinalReviewStands
<1>1. TypeOK /\ [Next]_vars =>
        [\A t \in Tasks :
           status[t] = "succeeded" /\ result[t] # "incomplete" =>
             status'[t] = "succeeded" /\ result'[t] = result[t]]_vars
  BY FinalStep
<1> QED BY <1>1, TypeInit, TypeStep, PTL DEF Spec, FinalReviewStands

-----------------------------------------------------------------------------
(* The limit on attempts.                                                  *)

(* A queued task has an attempt left, of its own or bought by a person, and*)
(* a task that was never queued was never run.                             *)
AttemptsLeft ==
  \A t \in Tasks :
    /\ attempt[t] <= MaxAutoAttempts + human[t]
    /\ status[t] = "queued" => attempt[t] < MaxAutoAttempts + human[t]
    /\ status[t] = "absent" => attempt[t] = 0

LEMMA AttemptsLeftStep == TypeOK /\ AttemptsLeft /\ [Next]_vars => AttemptsLeft'
<1> SUFFICES ASSUME TypeOK, AttemptsLeft, [Next]_vars, NEW t \in Tasks
             PROVE  /\ attempt'[t] <= MaxAutoAttempts + human'[t]
                    /\ status'[t] = "queued" => attempt'[t] < MaxAutoAttempts + human'[t]
                    /\ status'[t] = "absent" => attempt'[t] = 0
  BY DEF AttemptsLeft
<1> DEFINE Goal == /\ attempt'[t] <= MaxAutoAttempts + human'[t]
                   /\ status'[t] = "queued" => attempt'[t] < MaxAutoAttempts + human'[t]
                   /\ status'[t] = "absent" => attempt'[t] = 0
<1>0. /\ status \in [Tasks -> TaskStatus \cup {"absent"}]
      /\ attempt \in [Tasks -> Nat] /\ human \in [Tasks -> Nat]
      /\ MaxAutoAttempts \in Nat \ {0}
  BY MaxAutoAttemptsAssumption DEF TypeOK, StoreTypeOK
<1>1. /\ attempt[t] <= MaxAutoAttempts + human[t]
      /\ status[t] = "queued" => attempt[t] < MaxAutoAttempts + human[t]
      /\ status[t] = "absent" => attempt[t] = 0
  BY DEF AttemptsLeft
<1>2. /\ SweptStatus[t] = "queued" => attempt[t] < MaxAutoAttempts + human[t]
      /\ SweptStatus[t] = "absent" => attempt[t] = 0
  BY <1>0, <1>1 DEF SweptStatus, SweepVerdict, Expired
<1>3. SweptStatus \in [Tasks -> TaskStatus \cup {"absent"}]
  BY SweepType DEF TypeOK
<1>4. CASE UNCHANGED vars
  BY <1>1, <1>4 DEF vars, storeVars
<1>5. ASSUME NEW w \in Workers, NEW locked, Claim(w, locked) PROVE Goal
  <2>1. PICK u \in Tasks : ClaimTask(u, locked)
    BY <1>5 DEF Claim
  <2>2. human' = human
    BY <1>5 DEF Claim
  <2>3. CASE u = t
    <3>1. SweptStatus[t] = "queued" /\ attempt'[t] = attempt[t] + 1 /\ status'[t] = "running"
      BY <1>0, <1>3, <2>1, <2>3 DEF ClaimTask, Oldest, Queued
    <3> QED BY <1>0, <1>2, <2>2, <3>1
  <2>4. CASE u # t
    <3>1. attempt'[t] = attempt[t] /\ status'[t] = SweptStatus[t]
      BY <1>0, <1>3, <2>1, <2>4 DEF ClaimTask
    <3> QED BY <1>1, <1>2, <2>2, <3>1
  <2> QED BY <2>3, <2>4
<1>6. ASSUME NEW w \in Workers, NEW locked, Poll(w, locked) PROVE Goal
  BY <1>1, <1>2, <1>6 DEF Poll, ClaimNothing
<1>7. ASSUME NEW w \in Workers,
             Checkpoint(w) \/ Pause(w) \/ Complete(w) \/ Fail(w) \/ Fenced(w) \/ Crash(w)
      PROVE  Goal
  <2>1. Busy(w) => worker[w].task \in Tasks
    BY BusyType
  <2>2. /\ attempt' = attempt /\ human' = human
        /\ status'[t] \in {"queued", "absent"} => status'[t] = status[t]
    BY <1>0, <1>7, <2>1 DEF Checkpoint, CheckpointAgent, Pause, PauseTask, Complete, CompleteTask,
       Fail, FailTask, Fenced, Crash, storeVars
  <2> QED BY <1>1, <2>2
<1>8. ASSUME NEW u \in Tasks, Lapse(u) \/ Enqueue(u) \/ StageAnswer(u) PROVE Goal
  <2>1. /\ attempt' = attempt /\ human' = human
        /\ status'[t] = status[t] \/ (status[t] = "absent" /\ status'[t] = "queued")
    BY <1>0, <1>8 DEF Lapse, LeaseLapses, Enqueue, EnqueueReviewTask, InsertTask, StageAnswer,
       RecordWaitingInput, storeVars
  <2> QED BY <1>0, <1>1, <2>1
<1>9. ASSUME NEW u \in Tasks, Answer(u) \/ Retry(u) PROVE Goal
  <2>1. /\ attempt' = attempt
        /\ human'[t] = IF u = t THEN human[t] + 1 ELSE human[t]
        /\ status'[t] = IF u = t THEN "queued" ELSE status[t]
    BY <1>0, <1>9 DEF Answer, ResumeTask, Retry, RetryTask
  <2> QED BY <1>0, <1>1, <2>1
<1>10. ASSUME NEW c \in Cases, Supersede(c) PROVE Goal
  <2>1. /\ attempt' = attempt /\ human' = human
        /\ status'[t] \in {"superseded", status[t]}
    BY <1>10 DEF Supersede, SupersedeWaitingTasks, SupersededStatus
  <2> QED BY <1>1, <2>1
<1> QED
  <2> HIDE DEF Goal
  <2>1. Goal
    BY <1>5, <1>6, <1>7, <1>8, <1>9, <1>10, <1>4, StepCases DEF Goal
  <2> QED BY <2>1 DEF Goal

(* However often its workers die, a task is run at most MaxAutoAttempts    *)
(* times for every time a person queued, answered or retried it            *)
(* (_requeue_expired_tasks).                                               *)
THEOREM AttemptsBounded == Spec => []BoundedAttempts
<1>1. Init => AttemptsLeft
  BY MaxAutoAttemptsAssumption DEF Init, StoreInit, AttemptsLeft
<1>2. AttemptsLeft => BoundedAttempts
  BY DEF AttemptsLeft, BoundedAttempts
<1> QED BY <1>1, <1>2, TypeInit, TypeStep, AttemptsLeftStep, PTL DEF Spec

-----------------------------------------------------------------------------
(* The ledger of attempts.                                                 *)

(* The rows s of a task with status st and attempt count a.                *)
Agrees(s, st, a) ==
  /\ Len(s) = a
  /\ \A i \in DOMAIN s : s[i] = "running" <=> st = "running" /\ i = a

(* Closing the current attempt leaves none open.                           *)
LEMMA CloseAgrees ==
  ASSUME NEW t \in Tasks, NEW outcome \in AttemptStatus, outcome # "running", NEW st, st # "running",
         attempts[t] \in Seq(AttemptStatus), Agrees(attempts[t], status[t], attempt[t])
  PROVE  Agrees(CloseAttempt(t, outcome), st, attempt[t])
<1>1. /\ Len(CloseAttempt(t, outcome)) = Len(attempts[t])
      /\ DOMAIN CloseAttempt(t, outcome) = DOMAIN attempts[t]
  BY CloseAttemptType
<1>2. \A i \in DOMAIN attempts[t] : CloseAttempt(t, outcome)[i] # "running"
  BY DEF CloseAttempt, Agrees
<1> QED BY <1>1, <1>2 DEF Agrees

(* Opening an attempt while none is open opens the newest.                 *)
LEMMA OpenAgrees ==
  ASSUME NEW s \in Seq(AttemptStatus), NEW st, st # "running", NEW a \in Nat, Agrees(s, st, a)
  PROVE  Agrees(Append(s, "running"), "running", a + 1)
<1>1. /\ Len(Append(s, "running")) = a + 1
      /\ DOMAIN Append(s, "running") = 1 .. a + 1
      /\ DOMAIN s = 1 .. a
  BY DEF Agrees
<1>2. \A i \in 1 .. a : Append(s, "running")[i] = s[i] /\ s[i] # "running" /\ i # a + 1
  BY <1>1 DEF Agrees
<1>3. Append(s, "running")[a + 1] = "running"
  BY DEF Agrees
<1> QED BY <1>1, <1>2, <1>3 DEF Agrees

(* The sweep closes the attempts it ends, and no other.                    *)
LEMMA SweepAgrees ==
  ASSUME StoreTypeOK, NEW t \in Tasks, Agrees(attempts[t], status[t], attempt[t])
  PROVE  /\ SweptAttempts[t] \in Seq(AttemptStatus)
         /\ Agrees(SweptAttempts[t], SweptStatus[t], attempt[t])
<1>1. CASE t \in Expired
  <2>1. SweptAttempts[t] = CloseAttempt(t, "failed") /\ SweptStatus[t] # "running"
    BY <1>1 DEF SweptAttempts, SweptStatus, SweepVerdict
  <2> QED BY <2>1, SweepType, CloseAgrees DEF StoreTypeOK, AttemptStatus
<1>2. CASE t \notin Expired
  BY <1>2, SweepType DEF SweptAttempts, SweptStatus
<1> QED BY <1>1, <1>2

LEMMA LedgerStep == TypeOK /\ AttemptLedger /\ [Next]_vars => AttemptLedger'
<1> SUFFICES ASSUME TypeOK, AttemptLedger, [Next]_vars, NEW t \in Tasks
             PROVE  Agrees(attempts'[t], status'[t], attempt'[t])
  BY DEF AttemptLedger, Agrees
<1> DEFINE Goal == Agrees(attempts'[t], status'[t], attempt'[t])
<1>0. StoreTypeOK
  BY DEF TypeOK
<1>1. /\ Agrees(attempts[t], status[t], attempt[t])
      /\ attempts[t] \in Seq(AttemptStatus) /\ attempt[t] \in Nat
  BY <1>0 DEF AttemptLedger, Agrees, StoreTypeOK
<1>2. /\ Agrees(SweptAttempts[t], SweptStatus[t], attempt[t])
      /\ SweptAttempts[t] \in Seq(AttemptStatus)
  BY <1>0, <1>1, SweepAgrees
<1>3. /\ SweptStatus \in [Tasks -> TaskStatus \cup {"absent"}]
      /\ SweptAttempts \in [Tasks -> Seq(AttemptStatus)]
  BY <1>0, SweepType
<1>4. CASE UNCHANGED <<attempts, status, attempt>>
  BY <1>1, <1>4
<1>5. CASE UNCHANGED vars
  BY <1>4, <1>5 DEF vars, storeVars
<1>6. ASSUME NEW w \in Workers, NEW locked, Claim(w, locked) PROVE Goal
  <2>1. PICK u \in Tasks : ClaimTask(u, locked)
    BY <1>6 DEF Claim
  <2>2. CASE u = t
    <3>1. SweptStatus[t] # "running"
      BY <2>1, <2>2 DEF ClaimTask, Oldest, Queued
    <3>2. Agrees(Append(SweptAttempts[t], "running"), "running", attempt[t] + 1)
      BY <1>1, <1>2, <3>1, OpenAgrees
    <3>3. /\ attempts'[t] = Append(SweptAttempts[t], "running")
          /\ status'[t] = "running" /\ attempt'[t] = attempt[t] + 1
      BY <1>0, <1>3, <2>1, <2>2 DEF ClaimTask, StoreTypeOK
    <3> QED BY <3>2, <3>3
  <2>3. CASE u # t
    <3>1. attempts'[t] = SweptAttempts[t] /\ status'[t] = SweptStatus[t] /\ attempt'[t] = attempt[t]
      BY <1>0, <1>3, <2>1, <2>3 DEF ClaimTask, StoreTypeOK
    <3> QED BY <1>2, <3>1
  <2> QED BY <2>2, <2>3
<1>7. ASSUME NEW w \in Workers, NEW locked, Poll(w, locked) PROVE Goal
  BY <1>2, <1>7 DEF Poll, ClaimNothing
<1>8. ASSUME NEW w \in Workers, Checkpoint(w) \/ Fenced(w) \/ Crash(w) PROVE Goal
  BY <1>4, <1>8 DEF Checkpoint, CheckpointAgent, Fenced, Crash, storeVars
<1>9. ASSUME NEW w \in Workers, Pause(w) \/ Complete(w) \/ Fail(w) PROVE Goal
  <2> DEFINE u == worker[w].task
  <2>1. u \in Tasks
    BY <1>9, BusyType DEF Pause, Complete, Fail
  <2>2. PICK o \in {"waiting_input", "succeeded", "failed"} :
          /\ status' = [status EXCEPT ![u] = o]
          /\ attempts' = [attempts EXCEPT ![u] = CloseAttempt(u, o)]
          /\ attempt' = attempt
    BY <1>9 DEF Pause, PauseTask, Complete, CompleteTask, Fail, FailTask
  <2> HIDE DEF u
  <2>3. CASE u = t
    <3>1. Agrees(CloseAttempt(t, o), o, attempt[t])
      BY <1>1, CloseAgrees DEF AttemptStatus
    <3> QED BY <1>0, <2>2, <2>3, <3>1 DEF StoreTypeOK
  <2>4. CASE u # t
    BY <1>0, <1>1, <2>1, <2>2, <2>4 DEF StoreTypeOK
  <2> QED BY <2>3, <2>4
<1>10. ASSUME NEW u \in Tasks, Lapse(u) \/ StageAnswer(u) PROVE Goal
  BY <1>4, <1>10 DEF Lapse, LeaseLapses, StageAnswer, RecordWaitingInput
<1>11. ASSUME NEW u \in Tasks, Enqueue(u) \/ Answer(u) \/ Retry(u) PROVE Goal
  <2>1. /\ attempts' = attempts /\ attempt' = attempt
        /\ status'[t] = status[t] \/ (status[t] # "running" /\ status'[t] # "running")
    BY <1>0, <1>11 DEF Enqueue, EnqueueReviewTask, InsertTask, Answer, ResumeTask, Retry, RetryTask,
       CanRetry, Retryable, storeVars, StoreTypeOK
  <2> QED BY <1>1, <2>1 DEF Agrees
<1>12. ASSUME NEW c \in Cases, Supersede(c) PROVE Goal
  <2>1. attempt' = attempt
    BY <1>12 DEF Supersede, SupersedeWaitingTasks
  <2>2. CASE t \in Waiting(c)
    <3> DEFINE z == [i \in DOMAIN attempts[t] |->
                       IF attempts[t][i] = "waiting_input" THEN "superseded" ELSE attempts[t][i]]
    <3>1. attempts'[t] = z /\ status'[t] = "superseded" /\ status[t] = "waiting_input"
      BY <1>12, <2>2 DEF Supersede, SupersedeWaitingTasks, SupersededAttempts, SupersededStatus, Waiting
    <3>2. Len(z) = Len(attempts[t]) /\ DOMAIN z = DOMAIN attempts[t]
      BY <1>1, SupersedeType
    <3>3. \A i \in DOMAIN attempts[t] : z[i] # "running"
      BY <1>1, <3>1 DEF Agrees
    <3> HIDE DEF z
    <3> QED BY <1>1, <2>1, <3>1, <3>2, <3>3 DEF Agrees
  <2>3. CASE t \notin Waiting(c)
    <3>1. attempts'[t] = attempts[t] /\ status'[t] = status[t]
      BY <1>12, <2>3 DEF Supersede, SupersedeWaitingTasks, SupersededAttempts, SupersededStatus
    <3> QED BY <1>1, <2>1, <3>1
  <2> QED BY <2>2, <2>3
<1> QED
  <2> HIDE DEF Goal
  <2>1. Goal
    BY <1>5, <1>6, <1>7, <1>8, <1>9, <1>10, <1>11, <1>12, StepCases DEF Goal
  <2> QED BY <2>1 DEF Goal

(* There is one row per attempt, and exactly the newest one of a running   *)
(* task is open, whatever lapses, crashes, fails or is superseded          *)
(* (review_task_attempts).                                                 *)
THEOREM LedgerAgrees == Spec => []AttemptLedger
<1>1. Init => AttemptLedger
  BY DEF Init, StoreInit, AttemptLedger
<1> QED BY <1>1, TypeInit, TypeStep, LedgerStep, PTL DEF Spec

-----------------------------------------------------------------------------
(* Progress that is kept.                                                  *)

(* The worker whose writes the store accepts knows every step saved.       *)
Ahead ==
  \A w \in Workers :
    /\ Busy(w)
    /\ worker[w].attempt = attempt[worker[w].task]
    /\ status[worker[w].task] = "running"
    => saved[worker[w].task] <= worker[w].steps

ProgressInv == HeldInv /\ Ahead

(* A task that runs after a step which is neither a claim nor a checkpoint *)
(* ran before it, with the steps it has now.                               *)
LEMMA OtherSteps ==
  ASSUME TypeOK, [Next]_vars
  PROVE  \/ \E w \in Workers : \E locked : Claim(w, locked)
         \/ \E w \in Workers : Checkpoint(w)
         \/ /\ attempt' = attempt
            /\ worker' = worker \/ \E w \in Workers : worker' = [worker EXCEPT ![w] = Idle]
            /\ \A t \in Tasks : status'[t] = "running" => status[t] = "running" /\ saved'[t] = saved[t]
<1> DEFINE Rest ==
      /\ attempt' = attempt
      /\ worker' = worker \/ \E w \in Workers : worker' = [worker EXCEPT ![w] = Idle]
      /\ \A t \in Tasks : status'[t] = "running" => status[t] = "running" /\ saved'[t] = saved[t]
<1> USE DEF TypeOK, StoreTypeOK
<1>1. CASE UNCHANGED vars
  BY <1>1 DEF vars, storeVars
<1>2. ASSUME NEW w \in Workers, NEW locked, Poll(w, locked) PROVE Rest
  BY <1>2 DEF Poll, ClaimNothing, SweptStatus, SweepVerdict
<1>3. ASSUME NEW w \in Workers, Pause(w) \/ Complete(w) \/ Fail(w) \/ Fenced(w) \/ Crash(w)
      PROVE  Rest
  <2>1. worker[w].task \in Tasks
    BY <1>3, BusyType DEF Pause, Complete, Fail, Fenced, Crash
  <2> QED BY <1>3, <2>1 DEF Pause, PauseTask, Complete, CompleteTask, Fail, FailTask, Fenced,
        Crash, Release, storeVars
<1>4. ASSUME NEW u \in Tasks, Lapse(u) \/ Enqueue(u) \/ StageAnswer(u) \/ Answer(u) \/ Retry(u)
      PROVE  Rest
  BY <1>4 DEF Lapse, LeaseLapses, Enqueue, EnqueueReviewTask, InsertTask, StageAnswer,
     RecordWaitingInput, Answer, ResumeTask, Retry, RetryTask, storeVars
<1>5. ASSUME NEW c \in Cases, Supersede(c) PROVE Rest
  BY <1>5 DEF Supersede, SupersedeWaitingTasks, SupersededStatus
<1> QED
  <2> HIDE DEF Rest
  <2> QED BY <1>1, <1>2, <1>3, <1>4, <1>5, StepCases DEF Rest

LEMMA AheadStep == ProgressInv /\ [Next]_vars => Ahead'
<1> SUFFICES ASSUME HeldInv, Ahead, [Next]_vars, NEW v \in Workers,
                    Busy(v)', worker'[v].attempt = attempt'[worker'[v].task],
                    status'[worker'[v].task] = "running"
             PROVE  saved'[worker'[v].task] <= worker'[v].steps
  BY DEF ProgressInv, Ahead
<1>0. /\ TypeOK /\ attempt \in [Tasks -> Nat] /\ saved \in [Tasks -> Nat]
      /\ worker \in [Workers -> WorkerState]
  BY DEF HeldInv, TypeOK, StoreTypeOK
<1>1. ASSUME NEW w \in Workers, NEW locked, Claim(w, locked)
      PROVE  saved'[worker'[v].task] <= worker'[v].steps
  <2>1. PICK t \in Tasks :
          /\ ClaimTask(t, locked)
          /\ worker' = [worker EXCEPT ![w] =
               [task |-> t, attempt |-> attempt[t] + 1, steps |-> saved[t]]]
    BY <1>1 DEF Claim
  <2>2. attempt' = [attempt EXCEPT ![t] = @ + 1] /\ saved' = saved
    BY <2>1 DEF ClaimTask
  <2>3. CASE v = w
    BY <1>0, <2>1, <2>2, <2>3
  <2>4. CASE v # w
    <3>1. worker'[v] = worker[v] /\ Busy(v) /\ worker[v].task \in Tasks /\ worker[v].attempt \in Nat
      BY <1>0, <2>1, <2>4, BusyType DEF Busy
    <3>2. worker[v].attempt <= attempt[worker[v].task]
      BY <3>1 DEF HeldInv, Held
    <3>3. worker[v].task # t
      BY <1>0, <2>2, <3>1, <3>2
    <3>4. status'[worker[v].task] = SweptStatus[worker[v].task]
      BY <1>0, <2>1, <3>1, <3>3, SweepType DEF ClaimTask, TypeOK
    <3>5. status[worker[v].task] = "running"
      BY <3>1, <3>4 DEF SweptStatus, SweepVerdict
    <3> QED BY <1>0, <2>2, <3>1, <3>3, <3>5 DEF Ahead
  <2> QED BY <2>3, <2>4
<1>2. ASSUME NEW w \in Workers, Checkpoint(w)
      PROVE  saved'[worker'[v].task] <= worker'[v].steps
  <2> DEFINE n == worker[w].steps + 1
  <2>1. worker[w].task \in Tasks /\ n \in Nat
    BY <1>0, <1>2, BusyType DEF Checkpoint
  <2>2. /\ saved' = [saved EXCEPT ![worker[w].task] = n] /\ attempt' = attempt
        /\ worker' = [worker EXCEPT ![w].steps = n]
        /\ attempt[worker[w].task] = worker[w].attempt
        /\ Busy(w) /\ status' = status
    BY <1>2 DEF Checkpoint, CheckpointAgent, CanWrite
  <2> HIDE DEF n
  <2>3. CASE v = w
    BY <1>0, <2>1, <2>2, <2>3 DEF WorkerState
  <2>4. CASE v # w
    <3>1. worker'[v] = worker[v] /\ Busy(v)
      BY <1>0, <2>2, <2>4 DEF Busy
    <3>2. worker[v].task # worker[w].task
      BY <2>2, <2>4, <3>1 DEF HeldInv, SoleHolder, Runs
    <3>3. saved'[worker[v].task] = saved[worker[v].task]
      BY <1>0, <2>2, <3>1, <3>2, BusyType
    <3> QED BY <2>2, <3>1, <3>3 DEF Ahead
  <2> QED BY <2>3, <2>4
<1>3. ASSUME attempt' = attempt,
             worker' = worker \/ \E w \in Workers : worker' = [worker EXCEPT ![w] = Idle],
             \A t \in Tasks : status'[t] = "running" => status[t] = "running" /\ saved'[t] = saved[t]
      PROVE  saved'[worker'[v].task] <= worker'[v].steps
  <2>1. worker'[v] = worker[v] /\ Busy(v)
    BY <1>0, <1>3 DEF Busy, Idle
  <2> QED BY <1>0, <1>3, <2>1, BusyType DEF Ahead
<1> QED BY <1>0, <1>1, <1>2, <1>3, OtherSteps

(* Only a retry saves fewer steps than there were.                         *)
LEMMA ProgressStep ==
  ASSUME ProgressInv, [Next]_vars, NEW t \in Tasks, saved'[t] < saved[t]
  PROVE  Retryable(t) /\ status'[t] = "queued"
<1>0. TypeOK /\ saved \in [Tasks -> Nat] /\ status \in [Tasks -> TaskStatus \cup {"absent"}]
  BY DEF ProgressInv, HeldInv, TypeOK, StoreTypeOK
<1>1. saved'[t] # saved[t]
  BY <1>0
<1>2. ~UNCHANGED saved
  BY <1>1
<1>3. ASSUME NEW w \in Workers, Checkpoint(w) \/ Pause(w) PROVE FALSE
  <2>1. /\ worker[w].task \in Tasks /\ worker[w].steps \in Nat /\ Busy(w)
        /\ CanWrite(worker[w].task, worker[w].attempt)
    BY <1>0, <1>3, BusyType DEF Checkpoint, CheckpointAgent, Pause, PauseTask
  <2>2. saved[worker[w].task] <= worker[w].steps
    BY <2>1 DEF ProgressInv, Ahead, CanWrite
  <2>3. \E n \in {worker[w].steps, worker[w].steps + 1} :
          saved' = [saved EXCEPT ![worker[w].task] = n]
    BY <1>3 DEF Checkpoint, CheckpointAgent, Pause, PauseTask
  <2> QED BY <1>0, <1>1, <2>1, <2>2, <2>3
<1>4. ASSUME NEW u \in Tasks, Answer(u) PROVE FALSE
  BY <1>0, <1>4 DEF Answer, ResumeTask
<1>5. ASSUME NEW u \in Tasks, Retry(u) PROVE Retryable(t) /\ status'[t] = "queued"
  BY <1>0, <1>1, <1>5 DEF Retry, RetryTask, CanRetry
<1>6. ASSUME NEW w \in Workers, NEW locked,
             \/ Claim(w, locked) \/ Poll(w, locked)
             \/ Complete(w) \/ Fail(w) \/ Fenced(w) \/ Crash(w)
      PROVE  FALSE
  BY <1>2, <1>6 DEF Claim, ClaimTask, Poll, ClaimNothing, Complete, CompleteTask, Fail, FailTask,
     Fenced, Crash, storeVars
<1>7. ASSUME NEW u \in Tasks, Lapse(u) \/ Enqueue(u) \/ StageAnswer(u) PROVE FALSE
  BY <1>2, <1>7 DEF Lapse, LeaseLapses, Enqueue, EnqueueReviewTask, InsertTask, StageAnswer,
     RecordWaitingInput, storeVars
<1>8. ASSUME NEW c \in Cases, Supersede(c) PROVE FALSE
  BY <1>2, <1>8 DEF Supersede, SupersedeWaitingTasks
<1>9. CASE UNCHANGED vars
  BY <1>2, <1>9 DEF vars, storeVars
<1> QED BY <1>3, <1>4, <1>5, <1>6, <1>7, <1>8, <1>9, StepCases

(* No worker, late or repeated, rolls the saved state of a run back; only  *)
(* a retry, which a person asks for, starts from nothing (checkpoint_agent,*)
(* retry_task).                                                            *)
THEOREM ProgressIsKept == Spec => ProgressKept
<1>1. Init => ProgressInv
  <2>1. Init => Ahead
    BY DEF Init, Ahead, Busy, Idle
  <2> QED BY <2>1, HeldInit DEF ProgressInv
<1>2. ProgressInv /\ [Next]_vars => ProgressInv'
  BY HeldStep, AheadStep DEF ProgressInv
<1>3. ProgressInv /\ [Next]_vars =>
        [\A t \in Tasks : saved'[t] < saved[t] => Retryable(t) /\ status'[t] = "queued"]_vars
  BY ProgressStep
<1> QED BY <1>1, <1>2, <1>3, PTL DEF Spec, ProgressKept
=============================================================================
