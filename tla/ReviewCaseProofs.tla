-------------------------- MODULE ReviewCaseProofs --------------------------
(***************************************************************************)
(* What ReviewCase guarantees for every set of cases, facts and workers,   *)
(* every bound on freezes, answers and attempts, and every set of faults.  *)
(*                                                                         *)
(* The store's operations keep the types of its tables.  What the handler  *)
(* in flight and the workers carry from one transaction to the next stays  *)
(* true meanwhile, though each was read some transactions ago.             *)
(***************************************************************************)
EXTENDS ReviewCase, TLAPS

(* The statuses an attempt can be closed with.                             *)
LEMMA CloseAttemptType ==
  ASSUME NEW t \in Tasks, NEW outcome \in AttemptStatus, attempts[t] \in Seq(AttemptStatus)
  PROVE  /\ CloseAttempt(t, outcome) \in Seq(AttemptStatus)
         /\ Len(CloseAttempt(t, outcome)) = Len(attempts[t])
         /\ DOMAIN CloseAttempt(t, outcome) = DOMAIN attempts[t]
BY DEF CloseAttempt

(* Superseding rewrites rows, not their number.                            *)
LEMMA SupersedeType ==
  ASSUME NEW s \in Seq(AttemptStatus),
         NEW z, z = [i \in DOMAIN s |-> IF s[i] = "waiting_input" THEN "superseded" ELSE s[i]]
  PROVE  /\ z \in Seq(AttemptStatus)
         /\ Len(z) = Len(s)
         /\ DOMAIN z = DOMAIN s
BY DEF AttemptStatus

(* Step rows are only added, and only numbers of runs are written.         *)
LEMMA RecordStepsType ==
  ASSUME NEW t \in Tasks, NEW n \in Nat, rows[t] \in Seq(Nat), runs[t] \in Nat
  PROVE  RecordSteps(t, n) \in Seq(Nat)
<1> DEFINE m == IF n > Len(rows[t]) THEN n ELSE Len(rows[t])
<1>1. m \in Nat /\ Len(rows[t]) \in Nat /\ DOMAIN rows[t] = 1 .. Len(rows[t])
  OBVIOUS
<1>2. \A i \in 1 .. m : (IF i \in DOMAIN rows[t] THEN rows[t][i] ELSE runs[t]) \in Nat
  BY <1>1
<1>3. [i \in 1 .. m |-> IF i \in DOMAIN rows[t] THEN rows[t][i] ELSE runs[t]] \in Seq(Nat)
  <2> HIDE DEF m
  <2> QED BY <1>1, <1>2
<1> QED BY <1>3 DEF RecordSteps

(* What the sweep of expired leases leaves behind.                         *)
LEMMA SweepType ==
  ASSUME StoreTypeOK
  PROVE  /\ SweptStatus \in [Tasks -> TaskStatus \cup {"absent"}]
         /\ SweptLease \in [Tasks -> Lease]
         /\ SweptAttempts \in [Tasks -> Seq(AttemptStatus)]
<1>1. SweptStatus \in [Tasks -> TaskStatus \cup {"absent"}]
  BY DEF SweptStatus, SweepVerdict, StoreTypeOK, TaskStatus
<1>2. SweptLease \in [Tasks -> Lease]
  BY DEF SweptLease, StoreTypeOK, Lease
<1>3. SweptAttempts \in [Tasks -> Seq(AttemptStatus)]
  <2>1. ASSUME NEW t \in Tasks
        PROVE  /\ attempts[t] \in Seq(AttemptStatus)
               /\ CloseAttempt(t, "failed") \in Seq(AttemptStatus)
    BY CloseAttemptType DEF StoreTypeOK, AttemptStatus
  <2> QED BY <2>1 DEF SweptAttempts
<1> QED BY <1>1, <1>2, <1>3

-----------------------------------------------------------------------------
(* Type correctness, operation by operation of the store.                  *)

LEMMA ClaimTaskType ==
  ASSUME StoreTypeOK, NEW t \in Tasks, NEW locked, ClaimTask(t, locked)
  PROVE  StoreTypeOK'
<1>1. status' \in [Tasks -> TaskStatus \cup {"absent"}] /\ lease' \in [Tasks -> Lease]
  BY SweepType DEF ClaimTask, TaskStatus, Lease
<1>2. attempt' \in [Tasks -> Nat]
  BY DEF ClaimTask, StoreTypeOK
<1>3. attempts' \in [Tasks -> Seq(AttemptStatus)]
  <2>1. SweptAttempts[t] \in Seq(AttemptStatus)
    BY SweepType
  <2>2. Append(SweptAttempts[t], "running") \in Seq(AttemptStatus)
    BY <2>1 DEF AttemptStatus
  <2> QED BY <2>2, SweepType DEF ClaimTask
<1> QED BY <1>1, <1>2, <1>3 DEF ClaimTask, StoreTypeOK

LEMMA ClaimNothingType ==
  ASSUME StoreTypeOK, NEW locked, ClaimNothing(locked)
  PROVE  StoreTypeOK'
BY SweepType DEF ClaimNothing, StoreTypeOK

LEMMA EnqueueType ==
  ASSUME StoreTypeOK, NEW t \in Tasks, EnqueueReviewTask(t)
  PROVE  StoreTypeOK'
<1>1. CASE InsertTask(t)
  <2>1. status' \in [Tasks -> TaskStatus \cup {"absent"}]
    BY <1>1 DEF InsertTask, StoreTypeOK, TaskStatus
  <2>2. born' \in Seq(Tasks)
    BY <1>1 DEF InsertTask, StoreTypeOK
  <2> QED BY <1>1, <2>1, <2>2 DEF InsertTask, StoreTypeOK
<1>2. CASE UNCHANGED storeVars
  BY <1>2 DEF StoreTypeOK, storeVars
<1> QED BY <1>1, <1>2 DEF EnqueueReviewTask

LEMMA WriteType ==
  ASSUME StoreTypeOK, NEW t \in Tasks, NEW a, NEW n \in Nat,
         \/ PauseTask(t, a, n)
         \/ FailTask(t, a)
         \/ \E r \in Result : CompleteTask(t, a, r)
  PROVE  StoreTypeOK'
<1>1. /\ RecordSteps(t, n) \in Seq(Nat)
      /\ \A o \in AttemptStatus : CloseAttempt(t, o) \in Seq(AttemptStatus)
  BY RecordStepsType, CloseAttemptType DEF StoreTypeOK
<1>3. CASE PauseTask(t, a, n)
  BY <1>1, <1>3 DEF PauseTask, StoreTypeOK, Lease, TaskStatus, AttemptStatus
<1>4. CASE FailTask(t, a)
  BY <1>1, <1>4 DEF FailTask, StoreTypeOK, Lease, TaskStatus, AttemptStatus
<1>5. CASE \E r \in Result : CompleteTask(t, a, r)
  BY <1>1, <1>5 DEF CompleteTask, StoreTypeOK, Lease, Result, TaskStatus, AttemptStatus
<1> QED BY <1>3, <1>4, <1>5

LEMMA HumanType ==
  ASSUME StoreTypeOK, NEW t \in Tasks,
         \/ LeaseLapses(t) \/ ResumeTask(t) \/ RetryTask(t) \/ (\E g : RecordWaitingInput(t, g))
  PROVE  StoreTypeOK'
<1>1. CASE LeaseLapses(t)
  BY <1>1 DEF LeaseLapses, StoreTypeOK, Lease
<1>2. CASE ResumeTask(t)
  BY <1>2 DEF ResumeTask, StoreTypeOK, TaskStatus
<1>3. CASE RetryTask(t)
  BY <1>3 DEF RetryTask, StoreTypeOK, TaskStatus, Lease
<1>4. CASE \E g : RecordWaitingInput(t, g)
  BY <1>4 DEF RecordWaitingInput, StoreTypeOK
<1> QED BY <1>1, <1>2, <1>3, <1>4

LEMMA SupersededType ==
  ASSUME StoreTypeOK, NEW c \in Cases
  PROVE  /\ SupersededStatus(c) \in [Tasks -> TaskStatus \cup {"absent"}]
         /\ SupersededLease(c) \in [Tasks -> Lease]
         /\ SupersededAttempts(c) \in [Tasks -> Seq(AttemptStatus)]
<1>1. \A t \in Tasks :
        [i \in DOMAIN attempts[t] |->
           IF attempts[t][i] = "waiting_input" THEN "superseded" ELSE attempts[t][i]]
        \in Seq(AttemptStatus)
  BY SupersedeType DEF StoreTypeOK
<1>2. SupersededAttempts(c) \in [Tasks -> Seq(AttemptStatus)]
  BY <1>1 DEF SupersededAttempts, StoreTypeOK
<1> QED BY <1>2 DEF SupersededStatus, SupersededLease, StoreTypeOK, TaskStatus, Lease

LEMMA SupersedeTypeOK ==
  ASSUME StoreTypeOK, NEW c \in Cases, SupersedeWaitingTasks(c)
  PROVE  StoreTypeOK'
BY SupersededType DEF SupersedeWaitingTasks, StoreTypeOK

-----------------------------------------------------------------------------
(* The workers and the handler in flight.                                  *)

WorkerState == [pc : CallbackSteps, task : Tasks \cup {NoTask}, attempt : Nat,
                carries : CaseStatus \cup Result]
Call == [op : Handlers, step : HandlerSteps, case : Cases \cup {NoTask},
         task : Tasks \cup {NoTask}, was : CaseStatus, target : CaseStatus]

(* A busy worker has a task; it carries a review, then a status.           *)
WorkerOK(x) ==
  /\ x \in WorkerState
  /\ x.pc # "idle" => x.task \in Tasks
  /\ x.pc = "succeeded" => x.carries \in Reviews
  /\ x.pc = "promoting" => x.carries \in CaseStatus

(* A handler in flight has a case, and a task unless it only writes a status. *)
CallOK(x) ==
  /\ x \in Call
  /\ x.op = "none" => x = NoCall
  /\ x.op # "none" => x.case \in Cases
  /\ x.op \in {"status", "sign"} => x.step = "setting"
  /\ x.op \notin {"none", "status", "sign"} => x.task \in Tasks /\ CaseOf(x.task) = x.case

CaseTypeOK ==
  /\ caseStatus \in [Cases -> CaseStatus]
  /\ intake \in [Cases -> Facts]
  /\ response \in [Cases -> Tasks \cup {NoTask}]
  /\ plan \in [Cases -> {"none", "blocking", "clear"}]
  /\ frozen \in [Cases -> Seq(Inputs)]
  /\ synced \in [Tasks -> {"none", "failed", "reconciled"}]
  /\ human \in [Cases -> Nat]

Typed ==
  /\ StoreTypeOK
  /\ CaseTypeOK
  /\ worker \in [Workers -> WorkerState]
  /\ \A w \in Workers : WorkerOK(worker[w])
  /\ CallOK(api)

LEMMA TypedIsTypeOK == Typed => TypeOK
BY DEF Typed, TypeOK, CaseTypeOK, WorkerState, CallOK, Call

LEMMA CaseStatuses ==
  /\ CaseStatus = {"draft", "needs_info", "pending_review", "review_running",
                   "pending_source_verification", "pending_feishu_approval", "run_failed",
                   "approved", "conditionally_approved", "rejected"}
  /\ Signed \subseteq CaseStatus
BY DEF CaseStatus, CaseTransitions, Signed

LEMMA FinalStatusType ==
  ASSUME NEW r \in Reviews, NEW blocked \in BOOLEAN
  PROVE  /\ FinalStatus(r, blocked) \in CaseStatus
         /\ FinalStatus(r, blocked) = "pending_feishu_approval" => r = "clear"
BY ReviewsAssumption, CaseStatuses DEF FinalStatus

LEMMA IdleOK == WorkerOK(Idle) /\ CallOK(NoCall)
<1>1. WorkerOK(Idle)
  BY DEF WorkerOK, WorkerState, CallbackSteps, Idle, Result
<1>2. NoCall \in Call /\ NoCall.op = "none"
  BY CaseStatuses DEF Call, Handlers, HandlerSteps, NoCall
<1> QED BY <1>1, <1>2 DEF CallOK

LEMMA TaskShape ==
  /\ \A t \in Tasks : CaseOf(t) \in Cases /\ InputOf(t) \in Inputs /\ t = <<CaseOf(t), InputOf(t)>>
  /\ \A c \in Cases, i \in Inputs :
       <<c, i>> \in Tasks /\ CaseOf(<<c, i>>) = c /\ InputOf(<<c, i>>) = i
BY DEF Tasks, CaseOf, InputOf

(* Every step is one of the actions.                                       *)
LEMMA StepCases ==
  ASSUME Next
  PROVE  \/ \E w \in Workers :
              \/ Claim(w) \/ Poll(w) \/ StartedRead(w) \/ StartedMark(w)
              \/ Pause(w) \/ Complete(w) \/ Fail(w) \/ Fenced(w)
              \/ OnWaiting(w) \/ OnFailed(w) \/ Reconcile(w) \/ ReconcileFails(w)
              \/ Park(w) \/ Promote(w) \/ LogSync(w) \/ CallbackRaises(w) \/ Crash(w)
         \/ \E c \in Cases :
              \/ BeginFreeze(c) \/ BeginSubmit(c) \/ BeginStatus(c) \/ BeginRun(c)
              \/ BeginRereview(c) \/ BeginSign(c) \/ Edit(c) \/ WorkOff(c)
         \/ \E t \in Tasks :
              \/ Lapse(t) \/ BeginRetry(t) \/ BeginRecover(t) \/ Answer(t) \/ StageAnswer(t)
              \/ \E v \in Facts : Confirm(t, v)
         \/ Freeze \/ Set \/ Queue \/ QueueRefused \/ RollBack \/ Mark \/ SupersedeStale
         \/ Restart \/ RecoverPlan \/ Finalise \/ LogRecovery
         \/ ApiDies
BY DEF Next, WorkerStep, CaseStep, TaskStep, ApiStep, RunEnds

(* A handler between two statements has a case, and what it works on.      *)
LEMMA CallTyped ==
  ASSUME Typed
  PROVE  /\ api.step # "none" => api.op # "none" /\ api.case \in Cases
         /\ api.step \notin {"none", "setting"} => api.task \in Tasks /\ CaseOf(api.task) = api.case
         /\ api.op = "submit" => api.task \in Tasks /\ CaseOf(api.task) = api.case
         /\ api = NoCall \/ api.op # "none"
BY DEF Typed, CallOK, NoCall

(* What the applicant freezes or confirms is an input of the model.        *)
LEMMA FrozenNowType ==
  ASSUME Typed, NEW c \in Cases, CanFreeze(c, FrozenNow(c))
  PROVE  FrozenNow(c) \in Inputs
<1>1. frozen[c] \in Seq(Inputs) /\ intake[c] \in Facts
  BY DEF Typed, CaseTypeOK
<1>2. CASE FrozenNow(c) \in Range(frozen[c])
  BY <1>1, <1>2 DEF Range
<1>3. CASE Len(frozen[c]) < MaxFrozen
  <2>1. 0 \in 0 .. MaxFrozen - 1
    BY <1>1, <1>3, MaxFrozenAssumption
  <2> QED BY <1>1, <2>1, InputsAssumption DEF FrozenNow
<1> QED BY <1>2, <1>3 DEF CanFreeze

LEMMA ConfirmedInputType ==
  ASSUME Typed, NEW c \in Cases, NEW v \in Facts, CanFreeze(c, ConfirmedInput(c, v))
  PROVE  ConfirmedInput(c, v) \in Inputs
<1>1. frozen[c] \in Seq(Inputs)
  BY DEF Typed, CaseTypeOK
<1>2. CASE ConfirmedInput(c, v) \in Range(frozen[c])
  BY <1>1, <1>2 DEF Range
<1>3. CASE Len(frozen[c]) < MaxFrozen
  <2>1. Len(frozen[c]) \in 0 .. MaxFrozen - 1
    BY <1>1, <1>3, MaxFrozenAssumption
  <2> QED BY <2>1, InputsAssumption DEF ConfirmedInput
<1> QED BY <1>2, <1>3 DEF CanFreeze

LEMMA LatestType ==
  ASSUME Typed, NEW c \in Cases, frozen[c] # << >>
  PROVE  Latest(c) \in Inputs /\ Latest(c) \in Range(frozen[c])
<1>1. frozen[c] \in Seq(Inputs) /\ Len(frozen[c]) \in DOMAIN frozen[c]
  BY DEF Typed, CaseTypeOK
<1> QED BY <1>1 DEF Latest, Last, Range

-----------------------------------------------------------------------------
(* Type correctness.                                                       *)

LEMMA StoreStep ==
  ASSUME Typed, [Next]_vars
  PROVE  StoreTypeOK'
<1> USE DEF Typed
<1>1. CASE UNCHANGED storeVars
  BY <1>1 DEF StoreTypeOK, storeVars
<1>2. ASSUME NEW w \in Workers, Claim(w) \/ Poll(w) PROVE StoreTypeOK'
  BY <1>2, ClaimTaskType, ClaimNothingType DEF Claim, Poll
<1>3. ASSUME NEW w \in Workers, Pause(w) \/ Complete(w) \/ Fail(w) PROVE StoreTypeOK'
  <2>1. worker[w].task \in Tasks
    BY <1>3 DEF Pause, Complete, Fail, At, Running, WorkerOK
  <2>2. saved[worker[w].task] + 1 \in Nat /\ Reviews \subseteq Result
    BY <2>1 DEF StoreTypeOK, Result
  <2> QED BY <1>3, <2>1, <2>2, WriteType DEF Pause, Complete, Fail
<1>4. ASSUME NEW t \in Tasks, Lapse(t) \/ Answer(t) \/ StageAnswer(t) PROVE StoreTypeOK'
  BY <1>4, HumanType DEF Lapse, Answer, StageAnswer
<1>5. ASSUME NEW t \in Tasks, NEW v \in Facts, Confirm(t, v) PROVE StoreTypeOK'
  <2> DEFINE c == CaseOf(t)
             new == <<c, ConfirmedInput(c, v)>>
  <2>1. c \in Cases /\ new \in Tasks
    BY <1>5, ConfirmedInputType, TaskShape DEF Confirm
  <2>2. /\ SupersededStatus(c) \in [Tasks -> TaskStatus \cup {"absent"}]
        /\ SupersededLease(c) \in [Tasks -> Lease]
        /\ SupersededAttempts(c) \in [Tasks -> Seq(AttemptStatus)]
    BY <2>1, SupersededType
  <2>3. status' \in [Tasks -> TaskStatus \cup {"absent"}]
    BY <1>5, <2>1, <2>2 DEF Confirm, TaskStatus
  <2>4. born' \in Seq(Tasks)
    BY <1>5, <2>1 DEF Confirm, StoreTypeOK
  <2> QED BY <1>5, <2>2, <2>3, <2>4 DEF Confirm, StoreTypeOK
<1>6. CASE Queue
  BY <1>6, CallTyped, EnqueueType DEF Queue, Step
<1>7. CASE SupersedeStale
  BY <1>7, CallTyped, SupersedeTypeOK DEF SupersedeStale, Step, ApiCase
<1>8. CASE Restart
  BY <1>1, <1>8, CallTyped, HumanType DEF Restart, Step, storeVars
<1>9. ASSUME NEW w \in Workers,
             \/ StartedRead(w) \/ StartedMark(w) \/ Fenced(w) \/ OnWaiting(w) \/ OnFailed(w)
             \/ Reconcile(w) \/ ReconcileFails(w) \/ Park(w) \/ Promote(w) \/ LogSync(w)
             \/ CallbackRaises(w) \/ Crash(w)
      PROVE  UNCHANGED storeVars
  BY <1>9 DEF StartedRead, StartedMark, Fenced, OnWaiting, OnFailed, Reconcile, ReconcileFails,
     Park, Promote, LogSync, CallbackRaises, Crash
<1>10. ASSUME NEW c \in Cases,
             \/ BeginFreeze(c) \/ BeginSubmit(c) \/ BeginStatus(c) \/ BeginRun(c)
             \/ BeginRereview(c) \/ BeginSign(c) \/ Edit(c) \/ WorkOff(c)
      PROVE  UNCHANGED storeVars
  BY <1>10 DEF BeginFreeze, BeginSubmit, BeginStatus, BeginRun, BeginRereview, BeginSign, Begin,
     Edit, WorkOff
<1>11. ASSUME NEW t \in Tasks, BeginRetry(t) \/ BeginRecover(t) PROVE UNCHANGED storeVars
  BY <1>11 DEF BeginRetry, BeginRecover, Begin
<1>12. CASE \/ Freeze \/ Set \/ QueueRefused \/ RollBack \/ Mark \/ RecoverPlan \/ Finalise
            \/ LogRecovery \/ ApiDies
  BY <1>1, <1>12 DEF Freeze, Set, QueueRefused, RollBack, Mark, RecoverPlan, Finalise,
     LogRecovery, ApiDies
<1>13. CASE UNCHANGED vars
  BY <1>1, <1>13 DEF vars
<1> QED
  BY <1>1, <1>2, <1>3, <1>4, <1>5, <1>6, <1>7, <1>8, <1>9, <1>10, <1>11, <1>12, <1>13, StepCases

LEMMA WorkerStepTyped ==
  ASSUME Typed, [Next]_vars
  PROVE  worker' \in [Workers -> WorkerState] /\ \A w \in Workers : WorkerOK(worker[w])'
<1> DEFINE Becomes(w, x) == worker' = [worker EXCEPT ![w] = x]
           Good == worker' \in [Workers -> WorkerState] /\ \A w \in Workers : WorkerOK(worker[w])'
<1> SUFFICES Good
  OBVIOUS
<1> USE DEF Typed
<1>1. ASSUME NEW w \in Workers, NEW x, WorkerOK(x), Becomes(w, x) PROVE Good
  <2>1. x \in WorkerState
    BY <1>1 DEF WorkerOK
  <2>2. worker'[w] = x /\ \A v \in Workers \ {w} : worker'[v] = worker[v]
    BY <1>1
  <2> QED BY <1>1, <2>1, <2>2 DEF WorkerOK
<1>2. CASE worker' = worker
  BY <1>2 DEF WorkerOK
<1>3. ASSUME NEW w \in Workers, Release(w) PROVE Good
  BY <1>1, <1>3, IdleOK DEF Release
<1>4. ASSUME NEW w \in Workers, NEW pc \in CallbackSteps, Goto(w, pc),
             pc \notin {"succeeded", "promoting"}, worker[w].task \in Tasks
      PROVE  Good
  <2> DEFINE x == [worker[w] EXCEPT !.pc = pc]
  <2>1. worker[w] \in WorkerState
    OBVIOUS
  <2>2. WorkerOK(x)
    BY <1>4, <2>1 DEF WorkerOK, WorkerState
  <2>3. Becomes(w, x)
    BY <1>4 DEF Goto
  <2> QED BY <1>1, <2>2, <2>3
<1>5. ASSUME NEW w \in Workers, worker[w].pc # "idle" PROVE worker[w].task \in Tasks
  BY <1>5 DEF WorkerOK
<1>6. ASSUME NEW w \in Workers, Claim(w) PROVE Good
  <2>1. PICK t \in Tasks :
          Becomes(w, [Idle EXCEPT !.pc = "starting", !.task = t, !.attempt = attempt[t] + 1])
    BY <1>6 DEF Claim
  <2> DEFINE x == [Idle EXCEPT !.pc = "starting", !.task = t, !.attempt = attempt[t] + 1]
  <2>2. attempt[t] + 1 \in Nat
    BY DEF StoreTypeOK
  <2>3. WorkerOK(x)
    BY <2>2 DEF WorkerOK, WorkerState, CallbackSteps, Idle, Result
  <2> QED BY <1>1, <2>1, <2>3
<1>7. ASSUME NEW w \in Workers, Complete(w) PROVE Good
  <2>1. PICK r \in Reviews : worker' = [worker EXCEPT ![w].pc = "succeeded", ![w].carries = r]
    BY <1>7 DEF Complete
  <2> DEFINE x == [worker[w] EXCEPT !.pc = "succeeded", !.carries = r]
  <2>2. worker[w] \in WorkerState /\ worker[w].task \in Tasks
    BY <1>5, <1>7 DEF Complete, At
  <2>3. WorkerOK(x)
    BY <2>2 DEF WorkerOK, WorkerState, CallbackSteps, Result
  <2>4. Becomes(w, x)
    BY <2>1
  <2> QED BY <1>1, <2>3, <2>4
<1>8. ASSUME NEW w \in Workers, Reconcile(w) PROVE Good
  <2>1. PICK p \in {"blocking", "clear"} : worker' = [worker EXCEPT
            ![w].pc = "promoting", ![w].carries = FinalStatus(worker[w].carries, p = "blocking")]
    BY <1>8 DEF Reconcile
  <2> DEFINE s == FinalStatus(worker[w].carries, p = "blocking")
             x == [worker[w] EXCEPT !.pc = "promoting", !.carries = s]
  <2>2. worker[w] \in WorkerState /\ worker[w].task \in Tasks /\ worker[w].carries \in Reviews
    BY <1>5, <1>8 DEF Reconcile, At, WorkerOK
  <2>3. s \in CaseStatus
    BY <2>2, FinalStatusType
  <2>4. Becomes(w, x)
    BY <2>1
  <2>5. WorkerOK(x)
    <3> HIDE DEF s
    <3> QED BY <2>2, <2>3 DEF WorkerOK, WorkerState, CallbackSteps
  <2> QED BY <1>1, <2>4, <2>5
<1>9. ASSUME NEW w \in Workers,
             \/ StartedRead(w) \/ StartedMark(w) \/ Pause(w) \/ Fail(w) \/ Fenced(w)
             \/ OnWaiting(w) \/ OnFailed(w) \/ ReconcileFails(w) \/ Park(w) \/ Promote(w)
             \/ LogSync(w) \/ CallbackRaises(w) \/ Crash(w)
      PROVE  Good
  <2>1. worker[w].pc # "idle"
    BY <1>9 DEF StartedRead, StartedMark, Pause, Fail, Fenced, OnWaiting, OnFailed,
       ReconcileFails, Park, Promote, LogSync, CallbackRaises, Crash, At, Running, InCallback
  <2>2. \/ Release(w)
        \/ \E pc \in {"executing", "marking", "waiting", "failed", "parking", "log_failed", "log_synced"} :
             Goto(w, pc)
    BY <1>9 DEF StartedRead, StartedMark, Pause, Fail, Fenced, OnWaiting, OnFailed,
       ReconcileFails, Park, Promote, LogSync, CallbackRaises, Crash
  <2>3. worker[w].task \in Tasks
    BY <1>5, <2>1
  <2> HIDE DEF Good
  <2> QED BY <1>3, <1>4, <2>2, <2>3 DEF CallbackSteps
<1>10. ASSUME NEW w \in Workers, Poll(w) PROVE worker' = worker
  BY <1>10 DEF Poll
<1>11. ASSUME NEW c \in Cases,
             \/ BeginFreeze(c) \/ BeginSubmit(c) \/ BeginStatus(c) \/ BeginRun(c)
             \/ BeginRereview(c) \/ BeginSign(c) \/ Edit(c) \/ WorkOff(c)
      PROVE  worker' = worker
  BY <1>11 DEF BeginFreeze, BeginSubmit, BeginStatus, BeginRun, BeginRereview, BeginSign, Begin,
     Edit, WorkOff
<1>12. ASSUME NEW t \in Tasks,
             \/ Lapse(t) \/ BeginRetry(t) \/ BeginRecover(t) \/ Answer(t) \/ StageAnswer(t)
             \/ \E v \in Facts : Confirm(t, v)
      PROVE  worker' = worker
  BY <1>12 DEF Lapse, BeginRetry, BeginRecover, Begin, Answer, StageAnswer, Confirm
<1>13. CASE \/ Freeze \/ Set \/ Queue \/ QueueRefused \/ RollBack \/ Mark \/ SupersedeStale
            \/ Restart \/ RecoverPlan \/ Finalise \/ LogRecovery \/ ApiDies
  BY <1>2, <1>13 DEF Freeze, Set, Queue, QueueRefused, RollBack, Mark, SupersedeStale, Restart,
     RecoverPlan, Finalise, LogRecovery, ApiDies
<1>14. CASE UNCHANGED vars
  BY <1>2, <1>14 DEF vars
<1> QED
  <2> HIDE DEF Good
  <2> QED BY <1>2, <1>6, <1>7, <1>8, <1>9, <1>10, <1>11, <1>12, <1>13, <1>14, StepCases

-----------------------------------------------------------------------------
(* What a step may make of one task.                                       *)

Kept(t) == status'[t] = status[t] /\ result'[t] = result[t]
Completed(t) == /\ \E w \in Workers : Complete(w) /\ worker[w].task = t
                /\ status'[t] = "succeeded" /\ result'[t] \in Reviews
MovedOn(t) == /\ status[t] \in ActiveStatus
              /\ status'[t] \in ActiveStatus \cup {"failed", "superseded"}
              /\ result'[t] = result[t]
Inserted(t) == /\ status[t] = "absent" /\ status'[t] = "queued" /\ result'[t] = result[t]
               /\ \/ Queue /\ t = api.task
                  \/ \E u \in Tasks, v \in Facts :
                       Confirm(u, v) /\ t = <<CaseOf(u), ConfirmedInput(CaseOf(u), v)>>
Restarted(t) == /\ Restart /\ t = api.task /\ Retryable(t)
                /\ status'[t] = "queued" /\ result'[t] = result[t]

LEMMA StatusStep ==
  ASSUME Typed, [Next]_vars, NEW t \in Tasks
  PROVE  Kept(t) \/ Completed(t) \/ MovedOn(t) \/ Inserted(t) \/ Restarted(t)
<1> USE DEF Typed, StoreTypeOK
<1>1. CASE UNCHANGED storeVars
  BY <1>1 DEF storeVars, Kept
<1>2. \/ SweptStatus[t] = status[t]
      \/ status[t] = "running" /\ SweptStatus[t] \in {"failed", "queued"}
  BY DEF SweptStatus, Expired, SweepVerdict
<1>3. ASSUME NEW w \in Workers, Claim(w) PROVE Kept(t) \/ MovedOn(t)
  <2>1. PICK u \in Tasks : ClaimTask(u, {})
    BY <1>3 DEF Claim
  <2>2. CASE u = t
    <3>1. SweptStatus[t] = "queued" /\ status'[t] = "running" /\ result' = result
      BY <2>1, <2>2, SweepType DEF ClaimTask, Oldest, Queued
    <3> QED BY <1>2, <3>1 DEF MovedOn, ActiveStatus
  <2>3. CASE u # t
    <3>1. status'[t] = SweptStatus[t] /\ result' = result
      BY <2>1, <2>3, SweepType DEF ClaimTask
    <3> QED BY <1>2, <3>1 DEF Kept, MovedOn, ActiveStatus
  <2> QED BY <2>2, <2>3
<1>4. ASSUME NEW w \in Workers, Poll(w) PROVE Kept(t) \/ MovedOn(t)
  BY <1>2, <1>4 DEF Poll, ClaimNothing, Kept, MovedOn, ActiveStatus
<1>5. ASSUME NEW w \in Workers, Pause(w) \/ Fail(w) PROVE Kept(t) \/ MovedOn(t)
  <2>1. worker[w].task \in Tasks
    BY <1>5 DEF Pause, Fail, At, Running, WorkerOK
  <2> QED BY <1>5, <2>1 DEF Pause, PauseTask, Fail, FailTask, CanWrite, Kept, MovedOn, ActiveStatus
<1>6. ASSUME NEW w \in Workers, Complete(w) PROVE Kept(t) \/ Completed(t)
  <2>1. worker[w].task \in Tasks
    BY <1>6 DEF Complete, At, WorkerOK
  <2> QED BY <1>6, <2>1 DEF Complete, CompleteTask, Kept, Completed
<1>7. ASSUME NEW u \in Tasks, Lapse(u) \/ Answer(u) \/ StageAnswer(u) PROVE Kept(t) \/ MovedOn(t)
  BY <1>7 DEF Lapse, LeaseLapses, Answer, ResumeTask, StageAnswer, RecordWaitingInput, Kept,
     MovedOn, ActiveStatus
<1>8. ASSUME NEW c \in Cases
      PROVE  \/ SupersededStatus(c)[t] = status[t]
             \/ status[t] = "waiting_input" /\ SupersededStatus(c)[t] = "superseded"
  BY DEF SupersededStatus, Waiting
<1>9. CASE SupersedeStale
  <2>1. api.case \in Cases
    BY <1>9, CallTyped DEF SupersedeStale, Step
  <2> QED BY <1>8, <1>9, <2>1 DEF SupersedeStale, SupersedeWaitingTasks, ApiCase, Kept, MovedOn,
          ActiveStatus
<1>10. ASSUME NEW u \in Tasks, NEW v \in Facts, Confirm(u, v)
       PROVE  Kept(t) \/ MovedOn(t) \/ Inserted(t)
  <2> DEFINE c == CaseOf(u)
             new == <<c, ConfirmedInput(c, v)>>
  <2>1. c \in Cases /\ new \in Tasks
    BY <1>10, ConfirmedInputType, TaskShape DEF Confirm
  <2>2. /\ status' = [SupersededStatus(c) EXCEPT ![new] = IF @ = "absent" THEN "queued" ELSE @]
        /\ result' = result
    BY <1>10 DEF Confirm
  <2>3. SupersededStatus(c) \in [Tasks -> TaskStatus \cup {"absent"}]
    BY <2>1, SupersededType
  <2>4. \/ status'[t] = SupersededStatus(c)[t]
        \/ t = new /\ SupersededStatus(c)[t] = "absent" /\ status'[t] = "queued"
    BY <2>1, <2>2, <2>3
  <2> QED BY <1>8, <1>10, <2>1, <2>2, <2>4 DEF Kept, MovedOn, Inserted, ActiveStatus
<1>11. CASE Queue
  <2>1. api.task \in Tasks
    BY <1>11, CallTyped DEF Queue, Step
  <2> QED BY <1>11, <2>1 DEF Queue, EnqueueReviewTask, InsertTask, storeVars, Kept, Inserted
<1>12. CASE Restart
  <2>1. api.task \in Tasks
    BY <1>12, CallTyped DEF Restart, Step
  <2> QED BY <1>1, <1>12, <2>1 DEF Restart, CanRetry, RetryTask, storeVars, Kept, Restarted
<1>13. ASSUME NEW w \in Workers,
             \/ StartedRead(w) \/ StartedMark(w) \/ Fenced(w) \/ OnWaiting(w) \/ OnFailed(w)
             \/ Reconcile(w) \/ ReconcileFails(w) \/ Park(w) \/ Promote(w) \/ LogSync(w)
             \/ CallbackRaises(w) \/ Crash(w)
      PROVE  UNCHANGED storeVars
  BY <1>13 DEF StartedRead, StartedMark, Fenced, OnWaiting, OnFailed, Reconcile, ReconcileFails,
     Park, Promote, LogSync, CallbackRaises, Crash
<1>14. ASSUME NEW c \in Cases,
             \/ BeginFreeze(c) \/ BeginSubmit(c) \/ BeginStatus(c) \/ BeginRun(c)
             \/ BeginRereview(c) \/ BeginSign(c) \/ Edit(c) \/ WorkOff(c)
      PROVE  UNCHANGED storeVars
  BY <1>14 DEF BeginFreeze, BeginSubmit, BeginStatus, BeginRun, BeginRereview, BeginSign, Begin,
     Edit, WorkOff
<1>15. ASSUME NEW u \in Tasks, BeginRetry(u) \/ BeginRecover(u) PROVE UNCHANGED storeVars
  BY <1>15 DEF BeginRetry, BeginRecover, Begin
<1>16. CASE \/ Freeze \/ Set \/ QueueRefused \/ RollBack \/ Mark \/ RecoverPlan \/ Finalise
            \/ LogRecovery \/ ApiDies
  BY <1>1, <1>16 DEF Freeze, Set, QueueRefused, RollBack, Mark, RecoverPlan, Finalise,
     LogRecovery, ApiDies
<1>17. CASE UNCHANGED vars
  BY <1>1, <1>17 DEF vars
<1> QED
  BY <1>1, <1>3, <1>4, <1>5, <1>6, <1>7, <1>9, <1>10, <1>11, <1>12, <1>13, <1>14, <1>15, <1>16,
     <1>17, StepCases

(* A review that is final: no retry, no late worker writes it again.       *)
Final(t) == status[t] = "succeeded" /\ result[t] \in Reviews \ {"incomplete"}

LEMMA FinalStands ==
  ASSUME Typed, [Next]_vars, NEW t \in Tasks, Final(t)
  PROVE  Final(t)' /\ result'[t] = result[t]
<1>1. ~Completed(t)
  BY DEF Completed, Complete, CompleteTask, CanWrite, Final
<1>2. ~MovedOn(t) /\ ~Inserted(t) /\ ~Restarted(t)
  BY DEF MovedOn, Inserted, Restarted, Retryable, ActiveStatus, Final
<1> QED BY <1>1, <1>2, StatusStep DEF Kept, Final

(* A task that has succeeded has its review, and the list that is being    *)
(* saved again is that of a final one.                                     *)
Reviewed ==
  /\ \A t \in Tasks : status[t] = "succeeded" => result[t] \in Reviews
  /\ api.step = "reconciling" => Final(api.task)

LEMMA CallStep ==
  ASSUME Typed, Reviewed, [Next]_vars
  PROVE  CallOK(api)'
<1> USE DEF Typed
<1>1. CASE api' = api
  BY <1>1 DEF CallOK
<1>2. CASE Done
  <2>1. api' = NoCall
    BY <1>2 DEF Done
  <2> QED BY <2>1, IdleOK DEF CallOK
<1>3. ASSUME NEW step \in HandlerSteps, Then(step), api.step \notin {"none", "setting"}
      PROVE  CallOK(api)'
  <2>1. api \in Call /\ api.op \notin {"none", "status", "sign"}
    BY <1>3, CallTyped DEF CallOK
  <2>2. api' = [api EXCEPT !.step = step] /\ api' \in Call
    BY <1>3, <2>1 DEF Then, Call
  <2> QED BY <2>1, <2>2 DEF CallOK, Call
<1>4. ASSUME NEW op \in Handlers \ {"none"}, NEW step \in HandlerSteps, NEW c \in Cases,
             NEW t \in Tasks \cup {NoTask}, NEW s \in CaseStatus, Begin(op, step, c, t, s),
             op \in {"status", "sign"} => step = "setting",
             op \notin {"status", "sign"} => t \in Tasks /\ CaseOf(t) = c
      PROVE  CallOK(api)'
  <2>1. api' = [op |-> op, step |-> step, case |-> c, task |-> t, was |-> caseStatus[c], target |-> s]
    BY <1>4 DEF Begin
  <2>2. caseStatus[c] \in CaseStatus
    BY DEF CaseTypeOK
  <2>3. api' \in Call
    BY <2>1, <2>2 DEF Call
  <2> QED BY <1>4, <2>1, <2>3 DEF CallOK
<1>5. ASSUME NEW c \in Cases,
             \/ BeginFreeze(c) \/ BeginSubmit(c) \/ BeginStatus(c) \/ BeginRun(c)
             \/ BeginRereview(c) \/ BeginSign(c)
      PROVE  CallOK(api)'
  <2>1. CASE BeginFreeze(c)
    <3>1. caseStatus[c] \in CaseStatus /\ <<c, FrozenNow(c)>> \in Tasks /\ CaseOf(<<c, FrozenNow(c)>>) = c
      BY <2>1, FrozenNowType, TaskShape DEF BeginFreeze, CaseTypeOK
    <3> QED BY <1>4, <2>1, <3>1 DEF BeginFreeze, Handlers, HandlerSteps
  <2>2. CASE BeginSubmit(c)
    <3>1. <<c, Latest(c)>> \in Tasks /\ CaseOf(<<c, Latest(c)>>) = c
      BY <2>2, LatestType, TaskShape DEF BeginSubmit
    <3> QED BY <1>4, <2>2, <3>1, CaseStatuses DEF BeginSubmit, Handlers, HandlerSteps
  <2>3. CASE BeginStatus(c)
    BY <1>4, <2>3, CaseStatuses DEF BeginStatus, Handlers, HandlerSteps
  <2>4. CASE BeginRun(c)
    <3>1. <<c, Latest(c)>> \in Tasks /\ CaseOf(<<c, Latest(c)>>) = c
      BY <2>4, LatestType, TaskShape DEF BeginRun
    <3> QED BY <1>4, <2>4, <3>1, CaseStatuses DEF BeginRun, Handlers, HandlerSteps
  <2>5. CASE BeginRereview(c)
    <3>1. <<c, FrozenNow(c)>> \in Tasks /\ CaseOf(<<c, FrozenNow(c)>>) = c
      BY <2>5, FrozenNowType, TaskShape DEF BeginRereview
    <3> QED BY <1>4, <2>5, <3>1, CaseStatuses DEF BeginRereview, Handlers, HandlerSteps
  <2>6. CASE BeginSign(c)
    BY <1>4, <2>6, CaseStatuses DEF BeginSign, Handlers, HandlerSteps
  <2> QED BY <1>5, <2>1, <2>2, <2>3, <2>4, <2>5, <2>6
<1>6. ASSUME NEW t \in Tasks, BeginRetry(t) \/ BeginRecover(t) PROVE CallOK(api)'
  BY <1>4, <1>6, TaskShape, CaseStatuses DEF BeginRetry, BeginRecover, Handlers, HandlerSteps
<1>7. CASE Set
  <2>1. CASE api.op = "submit"
    <3>1. api \in Call /\ api.op = "submit" /\ api' = [api EXCEPT !.step = "queueing"]
      BY <1>7, <2>1 DEF Set, Then, CallOK
    <3>2. api' \in Call
      BY <3>1 DEF Call, HandlerSteps
    <3> QED BY <3>1, <3>2, CallTyped DEF CallOK, Call
  <2> QED BY <1>2, <1>7, <2>1 DEF Set
<1>8. CASE RecoverPlan
  <2>1. api \in Call /\ api.step = "reconciling" /\ api.op \notin {"none", "status", "sign"}
    BY <1>8, CallTyped DEF RecoverPlan, Step, CallOK
  <2>2. CASE Done
    BY <1>2, <2>2
  <2>3. ASSUME NEW p \in {"blocking", "clear"},
               api' = [api EXCEPT !.step = "finalising",
                                  !.target = FinalStatus(result[api.task], p = "blocking")]
        PROVE  CallOK(api)'
    <3>1. result[api.task] \in Reviews
      BY <1>8 DEF RecoverPlan, Step, Reviewed, Final
    <3>2. FinalStatus(result[api.task], p = "blocking") \in CaseStatus
      BY <3>1, FinalStatusType
    <3>3. api' \in Call
      BY <2>1, <2>3, <3>2 DEF Call, HandlerSteps
    <3> QED BY <2>1, <2>3, <3>3 DEF CallOK, Call
  <2> QED BY <1>8, <2>2, <2>3 DEF RecoverPlan
<1>9. CASE \/ Freeze \/ Queue \/ QueueRefused \/ RollBack \/ Mark \/ SupersedeStale
           \/ Restart \/ Finalise \/ LogRecovery \/ ApiDies
  BY <1>2, <1>3, <1>9 DEF Freeze, Queue, QueueRefused, RollBack, Mark, SupersedeStale,
     Restart, Finalise, LogRecovery, ApiDies, Step, HandlerSteps
<1>10. ASSUME NEW w \in Workers,
             \/ Claim(w) \/ Poll(w) \/ StartedRead(w) \/ StartedMark(w)
             \/ Pause(w) \/ Complete(w) \/ Fail(w) \/ Fenced(w)
             \/ OnWaiting(w) \/ OnFailed(w) \/ Reconcile(w) \/ ReconcileFails(w)
             \/ Park(w) \/ Promote(w) \/ LogSync(w) \/ CallbackRaises(w) \/ Crash(w)
      PROVE  api' = api
  BY <1>10 DEF Claim, Poll, StartedRead, StartedMark, Pause, Complete, Fail, Fenced, OnWaiting,
     OnFailed, Reconcile, ReconcileFails, Park, Promote, LogSync, CallbackRaises, Crash
<1>11. ASSUME NEW c \in Cases, Edit(c) \/ WorkOff(c) PROVE api' = api
  BY <1>11 DEF Edit, WorkOff
<1>12. ASSUME NEW t \in Tasks,
             Lapse(t) \/ Answer(t) \/ StageAnswer(t) \/ \E v \in Facts : Confirm(t, v)
      PROVE  api' = api
  BY <1>12 DEF Lapse, Answer, StageAnswer, Confirm
<1>13. CASE UNCHANGED vars
  BY <1>1, <1>13 DEF vars
<1> QED
  BY <1>1, <1>5, <1>6, <1>7, <1>8, <1>9, <1>10, <1>11, <1>12, <1>13, StepCases

(* What becomes of the handler in flight.                                  *)
LEMMA CallCases ==
  ASSUME Typed, [Next]_vars
  PROVE  \/ api' = api
         \/ api' = NoCall
         \/ \E c \in Cases : \/ BeginFreeze(c) \/ BeginSubmit(c) \/ BeginStatus(c)
                            \/ BeginRun(c) \/ BeginRereview(c) \/ BeginSign(c)
         \/ \E t \in Tasks : BeginRetry(t) \/ BeginRecover(t)
         \/ /\ Freeze \/ Queue \/ QueueRefused \/ Mark \/ Restart \/ Finalise \/ (Set /\ api.op = "submit")
            /\ \E step \in HandlerSteps : Then(step)
         \/ RecoverPlan
<1>1. ASSUME NEW w \in Workers,
             \/ Claim(w) \/ Poll(w) \/ StartedRead(w) \/ StartedMark(w)
             \/ Pause(w) \/ Complete(w) \/ Fail(w) \/ Fenced(w)
             \/ OnWaiting(w) \/ OnFailed(w) \/ Reconcile(w) \/ ReconcileFails(w)
             \/ Park(w) \/ Promote(w) \/ LogSync(w) \/ CallbackRaises(w) \/ Crash(w)
      PROVE  api' = api
  BY <1>1 DEF Claim, Poll, StartedRead, StartedMark, Pause, Complete, Fail, Fenced, OnWaiting,
     OnFailed, Reconcile, ReconcileFails, Park, Promote, LogSync, CallbackRaises, Crash
<1>2. ASSUME NEW c \in Cases, Edit(c) \/ WorkOff(c) PROVE api' = api
  BY <1>2 DEF Edit, WorkOff
<1>3. ASSUME NEW t \in Tasks,
             Lapse(t) \/ Answer(t) \/ StageAnswer(t) \/ \E v \in Facts : Confirm(t, v)
      PROVE  api' = api
  BY <1>3 DEF Lapse, Answer, StageAnswer, Confirm
<1>4. CASE RollBack \/ SupersedeStale \/ LogRecovery \/ ApiDies
  BY <1>4 DEF RollBack, SupersedeStale, LogRecovery, ApiDies, Done
<1>5. CASE Freeze \/ Set \/ Queue \/ QueueRefused \/ Mark \/ Restart \/ Finalise
  BY <1>5 DEF Freeze, Set, Queue, QueueRefused, Mark, Restart, Finalise, Done, HandlerSteps
<1>6. CASE UNCHANGED vars
  BY <1>6 DEF vars
<1> QED BY <1>1, <1>2, <1>3, <1>4, <1>5, <1>6, StepCases

LEMMA ReviewedStep ==
  ASSUME Typed, Reviewed, [Next]_vars
  PROVE  Reviewed'
<1>1. ASSUME NEW t \in Tasks, status'[t] = "succeeded" PROVE result'[t] \in Reviews
  BY <1>1, StatusStep DEF Kept, Completed, MovedOn, Inserted, Restarted, ActiveStatus, Reviewed
<1>2. ASSUME api'.step = "reconciling" PROVE Final(api.task)'
  <2>1. CASE api' = api
    <3>1. api.task \in Tasks /\ Final(api.task)
      BY <1>2, <2>1, CallTyped DEF Reviewed
    <3>2. Final(api.task)' /\ api'.task = api.task
      BY <2>1, <3>1, FinalStands DEF Final
    <3> QED BY <3>1, <3>2 DEF Final
  <2>2. ASSUME NEW t \in Tasks, BeginRecover(t) PROVE Final(api.task)'
    <3>1. Final(t) /\ api'.task = t /\ UNCHANGED storeVars
      BY <2>2 DEF BeginRecover, Begin, RecoversPlan, Reviewed, Final
    <3> QED BY <3>1 DEF storeVars, Final
  <2>3. ~(api' = NoCall)
    BY <1>2 DEF NoCall
  <2>4. ASSUME NEW c \in Cases PROVE ~(\/ BeginFreeze(c) \/ BeginSubmit(c) \/ BeginStatus(c)
                                       \/ BeginRun(c) \/ BeginRereview(c) \/ BeginSign(c))
    BY <1>2 DEF BeginFreeze, BeginSubmit, BeginStatus, BeginRun, BeginRereview, BeginSign, Begin
  <2>5. ASSUME NEW t \in Tasks PROVE ~BeginRetry(t)
    BY <1>2 DEF BeginRetry, Begin
  <2>6. api \in Call
    BY DEF Typed, CallOK
  <2>7. ~(Freeze \/ Queue \/ QueueRefused \/ Mark \/ Restart \/ Finalise \/ (Set /\ api.op = "submit"))
    BY <1>2, <2>6 DEF Freeze, Queue, QueueRefused, Mark, Restart, Finalise, Set, Then, Done, NoCall,
       Call
  <2>8. ~RecoverPlan
    <3>1. RecoverPlan => \/ Done
                         \/ \E s : api' = [api EXCEPT !.step = "finalising", !.target = s]
      BY DEF RecoverPlan
    <3>2. ASSUME Done PROVE FALSE
      BY <1>2, <3>2 DEF Done, NoCall
    <3>3. ASSUME NEW s, api' = [api EXCEPT !.step = "finalising", !.target = s] PROVE FALSE
      BY <1>2, <2>6, <3>3 DEF Call
    <3> QED BY <3>1, <3>2, <3>3
  <2> QED BY <2>1, <2>2, <2>3, <2>4, <2>5, <2>7, <2>8, CallCases
<1> QED BY <1>1, <1>2 DEF Reviewed

LEMMA CaseStepTyped ==
  ASSUME Typed, [Next]_vars
  PROVE  CaseTypeOK'
<1> USE DEF Typed, CaseTypeOK
<1>1. CASE UNCHANGED <<caseVars, human>>
  BY <1>1 DEF caseVars
<1>2. ASSUME NEW w \in Workers, worker[w].pc # "idle"
      PROVE  worker[w].task \in Tasks /\ CaseAt(w) \in Cases
  BY <1>2, TaskShape DEF WorkerOK, CaseAt
<1>3. ASSUME NEW w \in Workers,
             StartedMark(w) \/ OnWaiting(w) \/ OnFailed(w) \/ Park(w) \/ Promote(w)
      PROVE  CaseTypeOK'
  <2>1. worker[w].task \in Tasks /\ CaseAt(w) \in Cases /\ WorkerOK(worker[w])
    BY <1>2, <1>3 DEF StartedMark, OnWaiting, OnFailed, Park, Promote, At
  <2>2. /\ "needs_info" \in CaseStatus /\ "review_running" \in CaseStatus /\ "run_failed" \in CaseStatus
        /\ At(w, "promoting") => worker[w].carries \in CaseStatus
    BY <2>1, CaseStatuses DEF At, WorkerOK
  <2> QED BY <1>3, <2>1, <2>2 DEF StartedMark, OnWaiting, OnFailed, Park, Promote, ReportOutcome, SetCase
<1>4. ASSUME NEW w \in Workers, Reconcile(w) \/ LogSync(w) PROVE CaseTypeOK'
  <2>1. worker[w].task \in Tasks /\ CaseAt(w) \in Cases
    BY <1>2, <1>4 DEF Reconcile, LogSync, At
  <2> QED BY <1>4, <2>1 DEF Reconcile, LogSync
<1>5. ASSUME NEW w \in Workers,
             \/ Claim(w) \/ Poll(w) \/ StartedRead(w) \/ Pause(w) \/ Complete(w) \/ Fail(w)
             \/ Fenced(w) \/ ReconcileFails(w) \/ CallbackRaises(w) \/ Crash(w)
      PROVE  UNCHANGED <<caseVars, human>>
  BY <1>5 DEF Claim, Poll, StartedRead, Pause, Complete, Fail, Fenced, ReconcileFails,
     CallbackRaises, Crash
<1>6. ASSUME NEW c \in Cases, Edit(c) \/ WorkOff(c) PROVE CaseTypeOK'
  BY <1>6 DEF Edit, WorkOff
<1>7. ASSUME NEW c \in Cases,
             \/ BeginFreeze(c) \/ BeginSubmit(c) \/ BeginStatus(c) \/ BeginRun(c)
             \/ BeginRereview(c) \/ BeginSign(c)
      PROVE  UNCHANGED <<caseVars, human>>
  BY <1>7 DEF BeginFreeze, BeginSubmit, BeginStatus, BeginRun, BeginRereview, BeginSign, Begin
<1>8. ASSUME NEW t \in Tasks, Lapse(t) \/ BeginRetry(t) \/ BeginRecover(t) \/ StageAnswer(t)
      PROVE  UNCHANGED <<caseVars, human>>
  BY <1>8 DEF Lapse, BeginRetry, BeginRecover, Begin, StageAnswer
<1>9. ASSUME NEW t \in Tasks, Answer(t) PROVE CaseTypeOK'
  BY <1>9, TaskShape, CaseStatuses DEF Answer, SetCase
<1>10. ASSUME NEW t \in Tasks, NEW v \in Facts, Confirm(t, v) PROVE CaseTypeOK'
  <2> DEFINE c == CaseOf(t)
             i == ConfirmedInput(c, v)
  <2>1. c \in Cases /\ i \in Inputs
    BY <1>10, ConfirmedInputType, TaskShape DEF Confirm
  <2>2. frozen' = IF i \in Range(frozen[c]) THEN frozen ELSE [frozen EXCEPT ![c] = Append(@, i)]
    BY <1>10 DEF Confirm
  <2>3. frozen' \in [Cases -> Seq(Inputs)]
    <3> HIDE DEF c, i
    <3> QED BY <2>1, <2>2
  <2>4. /\ intake' = [intake EXCEPT ![c] = v] /\ caseStatus' = [caseStatus EXCEPT ![c] = "review_running"]
        /\ UNCHANGED <<response, plan, synced, human>>
    BY <1>10 DEF Confirm, SetCase
  <2> QED BY <2>1, <2>3, <2>4, CaseStatuses
<1>11. CASE Freeze
  <2>1. api.task \in Tasks /\ api.case \in Cases /\ InputOf(api.task) \in Inputs
    BY <1>11, CallTyped, TaskShape DEF Freeze, Step
  <2>2. frozen' \in [Cases -> Seq(Inputs)]
    BY <1>11, <2>1 DEF Freeze, ApiCase
  <2> QED BY <1>11, <2>2 DEF Freeze
<1>12. CASE Set \/ RollBack \/ Mark \/ Restart \/ RecoverPlan \/ Finalise \/ LogRecovery
  <2>1. api.step # "none" /\ api.case \in Cases /\ api \in Call
    BY <1>12, CallTyped DEF Set, RollBack, Mark, Restart, RecoverPlan, Finalise, LogRecovery, Step, CallOK
  <2>2. api.step \notin {"none", "setting"} => api.task \in Tasks
    BY CallTyped
  <2>3. api.was \in CaseStatus /\ api.target \in CaseStatus /\ "review_running" \in CaseStatus
    BY <2>1, CaseStatuses DEF Call
  <2>4. CASE Set \/ RollBack \/ Mark
    BY <2>1, <2>3, <2>4 DEF Set, RollBack, Mark, SetCase, ApiCase
  <2>5. CASE Restart
    <3>1. human' \in [Cases -> Nat]
      <4>1. human' = human \/ human' = [human EXCEPT ![api.case] = @ + 1]
        BY <2>5 DEF Restart, ApiCase
      <4>2. human \in [Cases -> Nat] /\ \A c \in Cases : human[c] + 1 \in Nat
        OBVIOUS
      <4> HIDE DEF Typed, CaseTypeOK
      <4> QED BY <2>1, <4>1, <4>2
    <3> QED BY <2>5, <3>1 DEF Restart, caseVars
  <2>6. CASE RecoverPlan
    <3>1. /\ plan' = plan \/ \E p \in {"blocking", "clear"} : plan' = [plan EXCEPT ![api.case] = p]
          /\ synced' = synced \/ synced' = [synced EXCEPT ![api.task] = "failed"]
          /\ UNCHANGED <<caseStatus, intake, response, frozen, human>>
      BY <2>6 DEF RecoverPlan, ApiCase
    <3> QED BY <2>1, <2>2, <2>6, <3>1
  <2>7. CASE Finalise \/ LogRecovery
    BY <2>1, <2>2, <2>3, <2>7 DEF Finalise, LogRecovery, ApiCase, Step, SetCase
  <2> QED BY <1>12, <2>4, <2>5, <2>6, <2>7
<1>13. CASE Queue \/ QueueRefused \/ SupersedeStale \/ ApiDies
  BY <1>1, <1>13 DEF Queue, QueueRefused, SupersedeStale, ApiDies
<1>14. CASE UNCHANGED vars
  BY <1>1, <1>14 DEF vars
<1> QED
  BY <1>1, <1>3, <1>4, <1>5, <1>6, <1>7, <1>8, <1>9, <1>10, <1>11, <1>12, <1>13, <1>14, StepCases

TypeInv == Typed /\ Reviewed

LEMMA TypeInit == Init => TypeInv
<1> SUFFICES ASSUME Init PROVE TypeInv
  OBVIOUS
<1>1. StoreTypeOK
  BY DEF Init, StoreInit, StoreTypeOK, TaskStatus, Lease, Result
<1>2. CaseTypeOK
  BY CaseStatuses DEF Init, CaseTypeOK
<1>3. /\ worker \in [Workers -> WorkerState] /\ \A w \in Workers : WorkerOK(worker[w])
      /\ CallOK(api) /\ api.step # "reconciling"
  BY IdleOK DEF Init, WorkerOK, NoCall
<1>4. \A t \in Tasks : status[t] # "succeeded"
  BY DEF Init, StoreInit
<1> QED BY <1>1, <1>2, <1>3, <1>4 DEF TypeInv, Typed, Reviewed

LEMMA TypeStep == TypeInv /\ [Next]_vars => TypeInv'
BY StoreStep, CaseStepTyped, WorkerStepTyped, CallStep, ReviewedStep DEF TypeInv, Typed

(* The tables, the workers and the handler in flight only ever hold values *)
(* of their types: no callback writes a status that is none, and no        *)
(* handler is in flight without its case and its task.                     *)
THEOREM TypeCorrect == Spec => []TypeOK
<1>1. TypeInv => TypeOK
  BY TypedIsTypeOK DEF TypeInv
<1> QED BY <1>1, TypeInit, TypeStep, PTL DEF Spec

-----------------------------------------------------------------------------
(* Approval only on a clear review.                                        *)

Clear(t) == status[t] = "succeeded" /\ result[t] = "clear"

(* A review found clear, and the promotion derived from it, are final while*)
(* the worker's callbacks are under way, ...                               *)
WorkersCarry ==
  \A w \in Workers :
    /\ worker[w].pc = "succeeded" /\ worker[w].carries = "clear" => Clear(worker[w].task)
    /\ worker[w].pc = "promoting" /\ worker[w].carries = "pending_feishu_approval" =>
         Clear(worker[w].task)

(* ... and so they are while a handler saves a list again; no other handler*)
(* writes the status that waits for approval, not even a submission taken  *)
(* back.                                                                   *)
CallCarries ==
  /\ api.step = "finalising" /\ api.target = "pending_feishu_approval" => Clear(api.task)
  /\ api.step = "setting" => api.target # "pending_feishu_approval"
  /\ api.op = "submit" => api.was # "pending_feishu_approval"
  /\ api.step = "rolling_back" => api.op = "submit"

PendingInv == TypeInv /\ WorkersCarry /\ CallCarries /\ PendingOnClearReview

LEMMA ClearStands ==
  ASSUME TypeInv, [Next]_vars, NEW t \in Tasks, Clear(t)
  PROVE  Clear(t)'
<1>1. Final(t)
  BY DEF TypeInv, Reviewed, Final, Clear
<1> QED BY <1>1, FinalStands DEF TypeInv, Final, Clear

LEMMA CarryCases ==
  ASSUME TypeInv, [Next]_vars, NEW w \in Workers, worker'[w].pc \in {"succeeded", "promoting"}
  PROVE  worker'[w] = worker[w] \/ Complete(w) \/ Reconcile(w)
<1> USE DEF TypeInv, Typed
<1> SUFFICES ASSUME ~(Complete(w) \/ Reconcile(w)) PROVE worker'[w] = worker[w]
  OBVIOUS
<1>1. CASE worker' = worker
  BY <1>1
<1>2. ASSUME NEW v \in Workers, Release(v) PROVE worker'[w] = worker[w]
  BY <1>2 DEF Release, Idle
<1>3. ASSUME NEW v \in Workers, NEW pc, Goto(v, pc), pc \notin {"succeeded", "promoting"}
      PROVE  worker'[w] = worker[w]
  <2>1. worker[v] \in WorkerState /\ worker' = [worker EXCEPT ![v].pc = pc]
    BY <1>3 DEF Goto
  <2>2. v = w => worker'[w].pc = pc
    BY <2>1 DEF WorkerState
  <2> QED BY <1>3, <2>1, <2>2
<1>4. ASSUME NEW v \in Workers, Claim(v) PROVE worker'[w] = worker[w]
  <2>1. PICK t \in Tasks : worker' = [worker EXCEPT ![v] =
          [Idle EXCEPT !.pc = "starting", !.task = t, !.attempt = attempt[t] + 1]]
    BY <1>4 DEF Claim
  <2>2. v = w => worker'[w].pc = "starting"
    BY <2>1 DEF Idle
  <2> QED BY <2>1, <2>2
<1>5. ASSUME NEW v \in Workers, Complete(v) \/ Reconcile(v) PROVE worker'[w] = worker[w]
  <2>1. v # w
    BY <1>5
  <2>2. \A u \in Workers \ {v} : worker'[u] = worker[u]
    BY <1>5 DEF Complete, Reconcile
  <2> QED BY <2>1, <2>2
<1>6. ASSUME NEW v \in Workers,
             \/ StartedRead(v) \/ StartedMark(v) \/ Pause(v) \/ Fail(v) \/ Fenced(v)
             \/ OnWaiting(v) \/ OnFailed(v) \/ ReconcileFails(v) \/ Park(v) \/ Promote(v)
             \/ LogSync(v) \/ CallbackRaises(v) \/ Crash(v)
      PROVE  worker'[w] = worker[w]
  <2>1. \/ Release(v)
        \/ \E pc \in {"executing", "marking", "waiting", "failed", "parking", "log_failed", "log_synced"} :
             Goto(v, pc)
    BY <1>6 DEF StartedRead, StartedMark, Pause, Fail, Fenced, OnWaiting, OnFailed,
       ReconcileFails, Park, Promote, LogSync, CallbackRaises, Crash
  <2> QED BY <1>2, <1>3, <2>1
<1>7. ASSUME NEW v \in Workers, Poll(v) PROVE worker' = worker
  BY <1>7 DEF Poll
<1>8. ASSUME NEW c \in Cases,
             \/ BeginFreeze(c) \/ BeginSubmit(c) \/ BeginStatus(c) \/ BeginRun(c)
             \/ BeginRereview(c) \/ BeginSign(c) \/ Edit(c) \/ WorkOff(c)
      PROVE  worker' = worker
  BY <1>8 DEF BeginFreeze, BeginSubmit, BeginStatus, BeginRun, BeginRereview, BeginSign, Begin,
     Edit, WorkOff
<1>9. ASSUME NEW t \in Tasks,
             \/ Lapse(t) \/ BeginRetry(t) \/ BeginRecover(t) \/ Answer(t) \/ StageAnswer(t)
             \/ \E v \in Facts : Confirm(t, v)
      PROVE  worker' = worker
  BY <1>9 DEF Lapse, BeginRetry, BeginRecover, Begin, Answer, StageAnswer, Confirm
<1>10. CASE \/ Freeze \/ Set \/ Queue \/ QueueRefused \/ RollBack \/ Mark \/ SupersedeStale
            \/ Restart \/ RecoverPlan \/ Finalise \/ LogRecovery \/ ApiDies
  BY <1>10 DEF Freeze, Set, Queue, QueueRefused, RollBack, Mark, SupersedeStale, Restart,
     RecoverPlan, Finalise, LogRecovery, ApiDies
<1>11. CASE UNCHANGED vars
  BY <1>11 DEF vars
<1> QED BY <1>1, <1>4, <1>5, <1>6, <1>7, <1>8, <1>9, <1>10, <1>11, StepCases

LEMMA WorkersCarryStep ==
  ASSUME TypeInv, WorkersCarry, [Next]_vars
  PROVE  WorkersCarry'
<1> SUFFICES ASSUME NEW w \in Workers, worker'[w].pc \in {"succeeded", "promoting"},
                    worker'[w].pc = "succeeded" => worker'[w].carries = "clear",
                    worker'[w].pc = "promoting" => worker'[w].carries = "pending_feishu_approval"
             PROVE  Clear(worker[w].task)'
  BY DEF WorkersCarry
<1>1. worker[w] \in WorkerState /\ WorkerOK(worker[w]) /\ worker \in [Workers -> WorkerState]
  BY DEF TypeInv, Typed
<1>2. CASE worker'[w] = worker[w]
  <2>1. worker[w].task \in Tasks /\ Clear(worker[w].task)
    BY <1>1, <1>2 DEF WorkerOK, WorkersCarry
  <2> QED BY <1>2, <2>1, ClearStands DEF Clear
<1>3. CASE Complete(w)
  <2>1. PICK r \in Reviews :
          /\ CompleteTask(worker[w].task, worker[w].attempt, r)
          /\ worker' = [worker EXCEPT ![w].pc = "succeeded", ![w].carries = r]
    BY <1>3 DEF Complete
  <2>2. worker[w].task \in Tasks
    BY <1>1, <1>3 DEF Complete, At, WorkerOK
  <2>3. worker'[w].task = worker[w].task /\ worker'[w].pc = "succeeded" /\ worker'[w].carries = r
    BY <1>1, <2>1 DEF WorkerState
  <2>4. status'[worker[w].task] = "succeeded" /\ result'[worker[w].task] = r
    BY <2>1, <2>2 DEF CompleteTask, TypeInv, Typed, StoreTypeOK
  <2> QED BY <2>3, <2>4 DEF Clear
<1>4. CASE Reconcile(w)
  <2>1. PICK p \in {"blocking", "clear"} :
          worker' = [worker EXCEPT ![w].pc = "promoting",
                                   ![w].carries = FinalStatus(worker[w].carries, p = "blocking")]
    BY <1>4 DEF Reconcile
  <2> DEFINE s == FinalStatus(worker[w].carries, p = "blocking")
  <2>2. worker[w].task \in Tasks /\ worker[w].carries \in Reviews /\ worker[w].pc = "succeeded"
    BY <1>1, <1>4 DEF Reconcile, At, WorkerOK
  <2>3. worker'[w].task = worker[w].task /\ worker'[w].pc = "promoting" /\ worker'[w].carries = s
    <3> HIDE DEF s
    <3>1. worker' = [worker EXCEPT ![w].pc = "promoting", ![w].carries = s]
      BY <2>1 DEF s
    <3> QED BY <1>1, <3>1 DEF WorkerState
  <2>4. worker[w].carries = "clear"
    BY <2>2, <2>3, FinalStatusType
  <2>5. Clear(worker[w].task)
    BY <2>2, <2>4 DEF WorkersCarry
  <2> QED BY <2>2, <2>3, <2>5, ClearStands DEF Clear
<1> QED BY <1>2, <1>3, <1>4, CarryCases

LEMMA CallCarriesStep ==
  ASSUME TypeInv, CallCarries, [Next]_vars
  PROVE  CallCarries'
<1>1. api \in Call
  BY DEF TypeInv, Typed, CallOK
<1>2. CASE api' = api
  <2>1. api.step = "finalising" => api.task \in Tasks
    BY CallTyped DEF TypeInv
  <2>2. api.step = "finalising" /\ api.target = "pending_feishu_approval" => Clear(api.task)'
    BY <1>2, <2>1, ClearStands DEF CallCarries, Clear
  <2> QED BY <1>2, <2>2 DEF CallCarries
<1>3. CASE api' = NoCall
  BY <1>3 DEF NoCall, CallCarries
<1>4. ASSUME NEW c \in Cases,
             \/ BeginFreeze(c) \/ BeginSubmit(c) \/ BeginStatus(c)
             \/ BeginRun(c) \/ BeginRereview(c) \/ BeginSign(c)
      PROVE  CallCarries'
  <2>1. CASE BeginSubmit(c)
    <3>1. caseStatus[c] # "pending_feishu_approval"
      BY <2>1 DEF BeginSubmit, ValidTransition, CaseTransitions, Signed
    <3> QED BY <2>1, <3>1 DEF BeginSubmit, Begin, CallCarries
  <2>2. CASE BeginStatus(c) \/ BeginSign(c)
    BY <2>2 DEF BeginStatus, BeginSign, Begin, CallCarries, Signed
  <2>3. CASE BeginFreeze(c) \/ BeginRun(c) \/ BeginRereview(c)
    BY <2>3 DEF BeginFreeze, BeginRun, BeginRereview, Begin, CallCarries
  <2> QED BY <1>4, <2>1, <2>2, <2>3
<1>5. ASSUME NEW t \in Tasks, BeginRetry(t) \/ BeginRecover(t) PROVE CallCarries'
  BY <1>5 DEF BeginRetry, BeginRecover, Begin, CallCarries
<1>6. ASSUME NEW step \in HandlerSteps, Then(step),
             Freeze \/ Queue \/ QueueRefused \/ Mark \/ Restart \/ Finalise \/ (Set /\ api.op = "submit")
      PROVE  CallCarries'
  <2>1. api' = [api EXCEPT !.step = step]
    BY <1>6 DEF Then
  <2>2. /\ api'.step = step /\ api'.op = api.op /\ api'.was = api.was
    BY <1>1, <2>1 DEF Call
  <2>3. step \notin {"finalising", "setting"}
    BY <1>1, <1>6, <2>2 DEF Freeze, Queue, QueueRefused, Mark, Restart, Finalise, Set, Then, Done,
       NoCall, Call
  <2>4. step = "rolling_back" => api.op = "submit"
    BY <1>1, <1>6, <2>2 DEF Freeze, Queue, QueueRefused, Mark, Restart, Finalise, Set, Then, Done,
       NoCall, Call
  <2> QED BY <2>2, <2>3, <2>4 DEF CallCarries
<1>7. ASSUME RecoverPlan, api' # NoCall PROVE CallCarries'
  <2>1. PICK p \in {"blocking", "clear"} :
          api' = [api EXCEPT !.step = "finalising",
                             !.target = FinalStatus(result[api.task], p = "blocking")]
    BY <1>7 DEF RecoverPlan, Done
  <2> DEFINE s == FinalStatus(result[api.task], p = "blocking")
  <2>2. /\ api'.step = "finalising" /\ api'.target = s /\ api'.task = api.task
        /\ api'.op = api.op /\ api'.was = api.was
    <3> HIDE DEF s
    <3>1. api' = [api EXCEPT !.step = "finalising", !.target = s]
      BY <2>1 DEF s
    <3> QED BY <1>1, <3>1 DEF Call
  <2>3. api.task \in Tasks /\ Final(api.task)
    BY <1>7, CallTyped DEF RecoverPlan, Step, TypeInv, Reviewed
  <2>4. s = "pending_feishu_approval" => Clear(api.task)
    BY <2>3, FinalStatusType DEF Final, Clear
  <2>5. s = "pending_feishu_approval" => Clear(api.task)'
    BY <2>2, <2>3, <2>4, ClearStands DEF Clear
  <2> QED
    <3> HIDE DEF s
    <3> QED BY <2>2, <2>5 DEF CallCarries
<1> QED BY <1>2, <1>3, <1>4, <1>5, <1>6, <1>7, CallCases DEF TypeInv

(* What becomes of the status of a case and of the review it shows.        *)
LEMMA StatusCases ==
  ASSUME TypeInv, CallCarries, [Next]_vars, NEW c \in Cases
  PROVE  \/ caseStatus'[c] = caseStatus[c] /\ response'[c] = response[c]
         \/ caseStatus'[c] # "pending_feishu_approval"
         \/ \E w \in Workers : /\ worker[w].pc = "promoting" /\ caseStatus'[c] = worker[w].carries
                             /\ response'[c] = worker[w].task /\ UNCHANGED storeVars
         \/ /\ api.step = "finalising" /\ caseStatus'[c] = api.target
            /\ response'[c] = api.task /\ UNCHANGED storeVars
<1> DEFINE Same == caseStatus'[c] = caseStatus[c] /\ response'[c] = response[c]
           Off == caseStatus'[c] # "pending_feishu_approval"
<1> USE DEF TypeInv, Typed, CaseTypeOK
<1>1. CASE UNCHANGED <<caseStatus, response>>
  BY <1>1
<1>2. ASSUME NEW d \in Cases, NEW s, s # "pending_feishu_approval",
             SetCase(d, s) \/ UNCHANGED caseStatus, UNCHANGED response
      PROVE  Same \/ Off
  BY <1>2 DEF SetCase
<1>3. ASSUME NEW w \in Workers, worker[w].pc # "idle" PROVE CaseAt(w) \in Cases
  BY <1>3, TaskShape DEF WorkerOK, CaseAt
<1>4. ASSUME NEW w \in Workers, StartedMark(w) \/ OnWaiting(w) \/ OnFailed(w) PROVE Same \/ Off
  <2>1. CaseAt(w) \in Cases
    BY <1>3, <1>4 DEF StartedMark, OnWaiting, OnFailed, At
  <2>2. /\ \E s \in {"review_running", "needs_info", "run_failed"} :
             SetCase(CaseAt(w), s) \/ UNCHANGED caseStatus
        /\ UNCHANGED response
    BY <1>4 DEF StartedMark, OnWaiting, OnFailed, ReportOutcome
  <2> QED BY <1>2, <2>1, <2>2
<1>5. ASSUME NEW w \in Workers, Park(w) PROVE Same \/ Off
  <2>1. CaseAt(w) \in Cases
    BY <1>3, <1>5 DEF Park, At
  <2> QED BY <1>5, <2>1 DEF Park, SetCase
<1>6. ASSUME NEW w \in Workers, Promote(w)
      PROVE  \/ Same
             \/ /\ worker[w].pc = "promoting" /\ caseStatus'[c] = worker[w].carries
                /\ response'[c] = worker[w].task /\ UNCHANGED storeVars
  <2>1. CaseAt(w) \in Cases
    BY <1>3, <1>6 DEF Promote, At
  <2>2. CASE caseStatus[CaseAt(w)] = "review_running"
    <3>1. /\ caseStatus' = [caseStatus EXCEPT ![CaseAt(w)] = worker[w].carries]
          /\ response' = [response EXCEPT ![CaseAt(w)] = worker[w].task]
          /\ worker[w].pc = "promoting" /\ UNCHANGED storeVars
      BY <1>6, <2>2 DEF Promote, ReportOutcome, SetCase, At
    <3> QED BY <2>1, <3>1
  <2>3. CASE caseStatus[CaseAt(w)] # "review_running"
    BY <1>6, <2>3 DEF Promote, ReportOutcome
  <2> QED BY <2>2, <2>3
<1>7. ASSUME NEW w \in Workers,
             \/ Claim(w) \/ Poll(w) \/ StartedRead(w) \/ Pause(w) \/ Complete(w) \/ Fail(w)
             \/ Fenced(w) \/ Reconcile(w) \/ ReconcileFails(w) \/ LogSync(w)
             \/ CallbackRaises(w) \/ Crash(w)
      PROVE  UNCHANGED <<caseStatus, response>>
  BY <1>7 DEF Claim, Poll, StartedRead, Pause, Complete, Fail, Fenced, Reconcile, ReconcileFails,
     LogSync, CallbackRaises, Crash, caseVars
<1>8. ASSUME NEW d \in Cases,
             \/ BeginFreeze(d) \/ BeginSubmit(d) \/ BeginStatus(d) \/ BeginRun(d)
             \/ BeginRereview(d) \/ BeginSign(d) \/ Edit(d) \/ WorkOff(d)
      PROVE  UNCHANGED <<caseStatus, response>>
  BY <1>8 DEF BeginFreeze, BeginSubmit, BeginStatus, BeginRun, BeginRereview, BeginSign, Begin,
     Edit, WorkOff, caseVars
<1>9. ASSUME NEW t \in Tasks, Lapse(t) \/ BeginRetry(t) \/ BeginRecover(t) \/ StageAnswer(t)
      PROVE  UNCHANGED <<caseStatus, response>>
  BY <1>9 DEF Lapse, BeginRetry, BeginRecover, Begin, StageAnswer, caseVars
<1>10. ASSUME NEW t \in Tasks, Answer(t) \/ \E v \in Facts : Confirm(t, v) PROVE Same \/ Off
  <2>1. SetCase(CaseOf(t), "review_running") /\ UNCHANGED response /\ CaseOf(t) \in Cases
    BY <1>10, TaskShape DEF Answer, Confirm
  <2> QED BY <1>2, <2>1
<1>11. CASE Set \/ RollBack \/ Mark
  <2>1. api.case \in Cases
    BY <1>11, CallTyped DEF Set, RollBack, Mark, Step
  <2>2. /\ \/ SetCase(api.case, api.target) /\ api.target # "pending_feishu_approval"
           \/ SetCase(api.case, api.was) /\ api.was # "pending_feishu_approval"
           \/ SetCase(api.case, "review_running")
        /\ UNCHANGED response
    BY <1>11 DEF Set, RollBack, Mark, Step, ApiCase, CallCarries
  <2> QED BY <1>2, <2>1, <2>2
<1>12. CASE Finalise
  <2>1. api.case \in Cases
    BY <1>12, CallTyped DEF Finalise, Step
  <2> QED BY <1>12, <2>1 DEF Finalise, Step, ApiCase, SetCase
<1>13. CASE \/ Freeze \/ Queue \/ QueueRefused \/ SupersedeStale \/ Restart \/ RecoverPlan
            \/ LogRecovery \/ ApiDies
  BY <1>1, <1>13 DEF Freeze, Queue, QueueRefused, SupersedeStale, Restart, RecoverPlan,
     LogRecovery, ApiDies, caseVars
<1>14. CASE UNCHANGED vars
  BY <1>1, <1>14 DEF vars, caseVars
<1> QED
  BY <1>1, <1>4, <1>5, <1>6, <1>7, <1>8, <1>9, <1>10, <1>11, <1>12, <1>13, <1>14, StepCases

LEMMA PendingStep == PendingInv /\ [Next]_vars => PendingInv'
<1> SUFFICES ASSUME PendingInv, [Next]_vars PROVE PendingInv'
  OBVIOUS
<1>1. TypeInv /\ WorkersCarry /\ CallCarries /\ PendingOnClearReview
  BY DEF PendingInv
<1>2. TypeInv' /\ WorkersCarry' /\ CallCarries'
  BY <1>1, TypeStep, WorkersCarryStep, CallCarriesStep
<1>3. ASSUME NEW c \in Cases, caseStatus'[c] = "pending_feishu_approval" PROVE OnClearReview(c)'
  <2>1. ASSUME NEW t \in Tasks, Clear(t), response'[c] = t PROVE OnClearReview(c)'
    BY <1>1, <2>1, ClearStands, NoTaskAssumption DEF OnClearReview, Clear
  <2>2. CASE caseStatus'[c] = caseStatus[c] /\ response'[c] = response[c]
    <3>1. response[c] \in Tasks /\ Clear(response[c])
      BY <1>1, <1>3, <2>2 DEF PendingOnClearReview, OnClearReview, Clear, TypeInv, Typed, CaseTypeOK
    <3> QED BY <2>1, <2>2, <3>1
  <2>3. ASSUME NEW w \in Workers, worker[w].pc = "promoting",
               worker[w].carries = "pending_feishu_approval", response'[c] = worker[w].task
        PROVE  OnClearReview(c)'
    <3>1. worker[w].task \in Tasks /\ Clear(worker[w].task)
      BY <1>1, <2>3 DEF WorkersCarry, TypeInv, Typed, WorkerOK
    <3> QED BY <2>1, <2>3, <3>1
  <2>4. ASSUME api.step = "finalising", api.target = "pending_feishu_approval",
               response'[c] = api.task
        PROVE  OnClearReview(c)'
    <3>1. api.task \in Tasks /\ Clear(api.task)
      BY <1>1, <2>4, CallTyped DEF CallCarries, TypeInv
    <3> QED BY <2>1, <2>4, <3>1
  <2> QED BY <1>1, <1>3, <2>2, <2>3, <2>4, StatusCases
<1> QED BY <1>2, <1>3 DEF PendingInv, PendingOnClearReview

(* No interleaving of handlers, late callbacks, crashes and lapsing leases *)
(* lets a case wait for approval on anything but a final review that found *)
(* nothing missing, the very one it shows.                                 *)
THEOREM PendingReviewIsClear == Spec => []PendingOnClearReview
<1>1. Init => PendingInv
  <2> SUFFICES ASSUME Init PROVE WorkersCarry /\ CallCarries /\ PendingOnClearReview
    BY TypeInit DEF PendingInv
  <2> QED BY DEF Init, Idle, NoCall, WorkersCarry, CallCarries, PendingOnClearReview
<1>2. PendingInv => PendingOnClearReview
  BY DEF PendingInv
<1> QED BY <1>1, <1>2, PendingStep, PTL DEF Spec

-----------------------------------------------------------------------------
(* Confirmed facts are the newest, and only the newest is run again.       *)

(* A confirmed input names as many snapshots as there were before it.      *)
FrozenOK == \A c \in Cases : \A k \in DOMAIN frozen[c] : frozen[c][k][2] < k

(* Nothing is queued that was not frozen, ...                              *)
Known == \A t \in Tasks : status[t] # "absent" => InputOf(t) \in Range(frozen[CaseOf(t)])

(* ... nor about to be, though it was looked up some transactions ago.     *)
CallKnown ==
  /\ api.step = "freezing" => InputOf(api.task)[2] = 0
  /\ api.step = "queueing" \/ api.op = "submit" => InputOf(api.task) \in Range(frozen[api.case])

FrozenInv == TypeInv /\ FrozenOK /\ Known /\ CallKnown

(* An appended element is the last one, and the only new one.              *)
LEMMA LastOfAppend ==
  ASSUME NEW S, NEW s \in Seq(S), NEW x \in S
  PROVE  Last(Append(s, x)) = x
BY DEF Last

LEMMA AppendRange ==
  ASSUME NEW S, NEW s \in Seq(S), NEW x \in S
  PROVE  Range(Append(s, x)) = Range(s) \cup {x}
<1>1. \A i \in 1 .. Len(s) : Append(s, x)[i] = s[i]
  OBVIOUS
<1>2. /\ Append(s, x)[Len(s) + 1] = x
      /\ DOMAIN Append(s, x) = 1 .. Len(s) + 1 /\ DOMAIN s = 1 .. Len(s)
  OBVIOUS
<1>3. 1 .. Len(s) + 1 = (1 .. Len(s)) \cup {Len(s) + 1}
  OBVIOUS
<1>4. \A i \in 1 .. Len(s) : i # Len(s) + 1
  OBVIOUS
<1> QED BY <1>1, <1>2, <1>3, <1>4, Zenon DEF Range

(* What changes the inputs, their order and the order of the tasks.        *)
LEMMA OrderCases ==
  ASSUME [Next]_vars
  PROVE  \/ UNCHANGED <<frozen, born, intake>>
         \/ Freeze \/ Queue
         \/ \E c \in Cases : Edit(c)
         \/ \E t \in Tasks, v \in Facts : Confirm(t, v)
<1>1. ASSUME NEW w \in Workers,
             \/ Claim(w) \/ Poll(w) \/ StartedRead(w) \/ StartedMark(w)
             \/ Pause(w) \/ Complete(w) \/ Fail(w) \/ Fenced(w)
      PROVE  UNCHANGED <<frozen, born, intake>>
  BY <1>1 DEF Claim, ClaimTask, Poll, ClaimNothing, StartedRead, StartedMark, Pause, PauseTask,
     Complete, CompleteTask, Fail, FailTask, Fenced, caseVars, storeVars
<1>2. ASSUME NEW w \in Workers,
             \/ OnWaiting(w) \/ OnFailed(w) \/ Reconcile(w) \/ ReconcileFails(w)
             \/ Park(w) \/ Promote(w) \/ LogSync(w) \/ CallbackRaises(w) \/ Crash(w)
      PROVE  UNCHANGED <<frozen, born, intake>>
  BY <1>2 DEF OnWaiting, OnFailed, Reconcile, ReconcileFails, Park, Promote, LogSync,
     CallbackRaises, Crash, caseVars, storeVars
<1>3. ASSUME NEW c \in Cases,
             \/ BeginFreeze(c) \/ BeginSubmit(c) \/ BeginStatus(c) \/ BeginRun(c)
             \/ BeginRereview(c) \/ BeginSign(c) \/ WorkOff(c)
      PROVE  UNCHANGED <<frozen, born, intake>>
  BY <1>3 DEF BeginFreeze, BeginSubmit, BeginStatus, BeginRun, BeginRereview, BeginSign, Begin,
     WorkOff, caseVars, storeVars
<1>4. ASSUME NEW t \in Tasks,
             Lapse(t) \/ BeginRetry(t) \/ BeginRecover(t) \/ Answer(t) \/ StageAnswer(t)
      PROVE  UNCHANGED <<frozen, born, intake>>
  BY <1>4 DEF Lapse, LeaseLapses, BeginRetry, BeginRecover, Begin, Answer, ResumeTask,
     StageAnswer, RecordWaitingInput, caseVars, storeVars
<1>5. CASE \/ Set \/ QueueRefused \/ RollBack \/ Mark \/ SupersedeStale \/ Restart \/ RecoverPlan
           \/ Finalise \/ LogRecovery \/ ApiDies
  BY <1>5 DEF Set, QueueRefused, RollBack, Mark, SupersedeStale, SupersedeWaitingTasks, Restart,
     RetryTask, RecoverPlan, Finalise, LogRecovery, ApiDies, caseVars, storeVars
<1>6. CASE UNCHANGED vars
  BY <1>6 DEF vars, caseVars, storeVars
<1> QED BY <1>1, <1>2, <1>3, <1>4, <1>5, <1>6, StepCases

(* Only a handler inserts a task, or a confirmation; else none is new.     *)
LEMMA NewTasks ==
  ASSUME TypeInv, [Next]_vars, NEW t \in Tasks
  PROVE  (status'[t] = "absent" <=> status[t] = "absent") \/ Inserted(t)
<1>1. Completed(t) => status[t] # "absent"
  BY DEF Completed, Complete, CompleteTask, CanWrite
<1> QED
  BY <1>1, StatusStep DEF TypeInv, Kept, Completed, MovedOn, Restarted, Retryable, ActiveStatus

LEMMA ConfirmStep ==
  ASSUME FrozenInv, NEW t \in Tasks, NEW v \in Facts, Confirm(t, v)
  PROVE  LET c == CaseOf(t)
             i == ConfirmedInput(c, v)
         IN  /\ c \in Cases /\ i \in Inputs
             /\ frozen' = [frozen EXCEPT ![c] = Append(@, i)]
             /\ born' = Append(born, <<c, i>>)
<1> DEFINE c == CaseOf(t)
           i == ConfirmedInput(c, v)
           new == <<c, i>>
<1>1. c \in Cases /\ i \in Inputs /\ new \in Tasks /\ CaseOf(new) = c /\ InputOf(new) = i
  BY ConfirmedInputType, TaskShape DEF Confirm, FrozenInv, TypeInv
<1>2. frozen[c] \in Seq(Inputs) /\ i[2] = Len(frozen[c])
  BY <1>1 DEF FrozenInv, TypeInv, Typed, CaseTypeOK, ConfirmedInput
<1>3. i \notin Range(frozen[c])
  <2> SUFFICES ASSUME NEW k \in DOMAIN frozen[c], i = frozen[c][k] PROVE FALSE
    BY DEF Range
  <2>1. i[2] < k /\ k \in 1 .. Len(frozen[c])
    BY <1>1, <1>2 DEF FrozenInv, FrozenOK
  <2> QED BY <1>2, <2>1
<1>4. status[new] = "absent"
  BY <1>1, <1>3 DEF FrozenInv, Known
<1>5. SupersededStatus(c)[new] = "absent"
  BY <1>1, <1>4 DEF SupersededStatus, Waiting
<1>6. frozen' = [frozen EXCEPT ![c] = Append(@, i)] /\ born' = Append(born, new)
  BY <1>3, <1>5 DEF Confirm
<1> QED BY <1>1, <1>6

LEMMA FrozenStep == FrozenInv /\ [Next]_vars => FrozenInv'
<1> SUFFICES ASSUME FrozenInv, [Next]_vars PROVE FrozenInv'
  OBVIOUS
<1>0. TypeInv /\ TypeInv' /\ Typed /\ frozen \in [Cases -> Seq(Inputs)] /\ api \in Call
  BY TypeStep DEF FrozenInv, TypeInv, Typed, CaseTypeOK, CallOK
<1>1. \/ frozen' = frozen
      \/ \E c \in Cases, i \in Inputs :
           /\ frozen' = [frozen EXCEPT ![c] = Append(@, i)]
           /\ i[2] \in Int /\ i[2] < Len(frozen[c]) + 1
  <2>1. ASSUME NEW t \in Tasks, NEW v \in Facts, Confirm(t, v)
        PROVE  \E c \in Cases, i \in Inputs :
                 /\ frozen' = [frozen EXCEPT ![c] = Append(@, i)]
                 /\ i[2] \in Int /\ i[2] < Len(frozen[c]) + 1
    <3>1. \A c \in Cases : Len(frozen[c]) \in Nat /\ ConfirmedInput(c, v)[2] = Len(frozen[c])
      BY <1>0 DEF ConfirmedInput
    <3> QED BY <2>1, <3>1, ConfirmStep
  <2>2. ASSUME Freeze
        PROVE  \/ frozen' = frozen
               \/ \E c \in Cases, i \in Inputs :
                    /\ frozen' = [frozen EXCEPT ![c] = Append(@, i)]
                    /\ i[2] \in Int /\ i[2] < Len(frozen[c]) + 1
    <3>1. /\ api.case \in Cases /\ InputOf(api.task) \in Inputs /\ InputOf(api.task)[2] = 0
          /\ Len(frozen[api.case]) \in Nat
      BY <1>0, <2>2, CallTyped, TaskShape DEF Freeze, Step, FrozenInv, CallKnown
    <3>2. \/ frozen' = frozen
          \/ frozen' = [frozen EXCEPT ![api.case] = Append(@, InputOf(api.task))]
      BY <2>2 DEF Freeze, ApiCase
    <3> QED BY <3>1, <3>2
  <2>3. CASE Queue \/ \E c \in Cases : Edit(c)
    BY <2>3 DEF Queue, Edit, caseVars
  <2> QED BY <2>1, <2>2, <2>3, OrderCases
<1>2. FrozenOK' /\ \A c \in Cases : Range(frozen[c]) \subseteq Range(frozen'[c])
  <2>1. CASE frozen' = frozen
    BY <2>1 DEF FrozenInv, FrozenOK
  <2>2. ASSUME NEW c \in Cases, NEW i \in Inputs, frozen' = [frozen EXCEPT ![c] = Append(@, i)],
               i[2] \in Int, i[2] < Len(frozen[c]) + 1
        PROVE  FrozenOK' /\ \A d \in Cases : Range(frozen[d]) \subseteq Range(frozen'[d])
    <3>1. /\ frozen[c] \in Seq(Inputs) /\ frozen'[c] = Append(frozen[c], i)
          /\ \A d \in Cases \ {c} : frozen'[d] = frozen[d]
      BY <1>0, <2>2
    <3>2. Range(frozen[c]) \subseteq Range(frozen'[c])
      BY <3>1, AppendRange
    <3>3. ASSUME NEW k \in DOMAIN frozen'[c] PROVE frozen'[c][k][2] < k
      <4>1. CASE k = Len(frozen[c]) + 1
        BY <2>2, <3>1, <4>1
      <4>2. CASE k # Len(frozen[c]) + 1
        <5>1. k \in DOMAIN frozen[c] /\ frozen'[c][k] = frozen[c][k]
          BY <3>1, <4>2
        <5> QED BY <5>1 DEF FrozenInv, FrozenOK
      <4> QED BY <4>1, <4>2
    <3>4. \A d \in Cases \ {c} : \A k \in DOMAIN frozen'[d] : frozen'[d][k][2] < k
      BY <3>1 DEF FrozenInv, FrozenOK
    <3> QED BY <3>1, <3>2, <3>3, <3>4 DEF FrozenOK
  <2> QED BY <1>1, <2>1, <2>2
<1>3. ASSUME NEW t \in Tasks, status'[t] # "absent" PROVE InputOf(t) \in Range(frozen'[CaseOf(t)])
  <2>1. CASE status[t] # "absent"
    BY <1>2, <2>1, TaskShape DEF FrozenInv, Known
  <2>2. CASE Queue /\ t = api.task
    <3>1. InputOf(api.task) \in Range(frozen[api.case]) /\ CaseOf(api.task) = api.case /\ frozen' = frozen
      BY <1>0, <2>2, CallTyped DEF Queue, Step, FrozenInv, CallKnown, caseVars
    <3> QED BY <2>2, <3>1
  <2>3. ASSUME NEW u \in Tasks, NEW v \in Facts, Confirm(u, v),
               t = <<CaseOf(u), ConfirmedInput(CaseOf(u), v)>>
        PROVE  InputOf(t) \in Range(frozen'[CaseOf(t)])
    <3>1. /\ CaseOf(u) \in Cases /\ ConfirmedInput(CaseOf(u), v) \in Inputs
          /\ frozen'[CaseOf(u)] = Append(frozen[CaseOf(u)], ConfirmedInput(CaseOf(u), v))
          /\ frozen[CaseOf(u)] \in Seq(Inputs)
      BY <1>0, <2>3, ConfirmStep
    <3>2. ConfirmedInput(CaseOf(u), v) \in Range(frozen'[CaseOf(u)])
      BY <3>1, AppendRange
    <3> QED BY <2>3, <3>1, <3>2, TaskShape
  <2> QED BY <1>0, <1>3, <2>1, <2>2, <2>3, NewTasks DEF Inserted
<1>4. CallKnown'
  <2>1. CASE api' = api
    <3>1. api.step = "queueing" \/ api.op = "submit" => api.case \in Cases
      BY <1>0, CallTyped, TaskShape
    <3> QED BY <1>2, <2>1, <3>1 DEF FrozenInv, CallKnown
  <2>2. CASE api' = NoCall
    BY <2>2 DEF NoCall, CallKnown
  <2>3. ASSUME NEW c \in Cases,
               \/ BeginFreeze(c) \/ BeginSubmit(c) \/ BeginStatus(c)
               \/ BeginRun(c) \/ BeginRereview(c) \/ BeginSign(c)
        PROVE  CallKnown'
    <3>1. CASE BeginFreeze(c) \/ BeginRereview(c)
      BY <3>1 DEF BeginFreeze, BeginRereview, Begin, FrozenNow, InputOf, CallKnown
    <3>2. CASE BeginSubmit(c) \/ BeginRun(c)
      <4>1. Latest(c) \in Range(frozen[c]) /\ InputOf(<<c, Latest(c)>>) = Latest(c)
        BY <1>0, <3>2, LatestType DEF BeginSubmit, BeginRun, InputOf
      <4>2. /\ api'.task = <<c, Latest(c)>> /\ api'.case = c /\ api'.step # "freezing" /\ frozen' = frozen
        BY <3>2 DEF BeginSubmit, BeginRun, Begin, caseVars
      <4> QED BY <4>1, <4>2 DEF CallKnown
    <3>3. CASE BeginStatus(c) \/ BeginSign(c)
      BY <3>3 DEF BeginStatus, BeginSign, Begin, CallKnown
    <3> QED BY <2>3, <3>1, <3>2, <3>3
  <2>4. ASSUME NEW t \in Tasks, BeginRetry(t) \/ BeginRecover(t) PROVE CallKnown'
    BY <2>4 DEF BeginRetry, BeginRecover, Begin, CallKnown
  <2>5. ASSUME NEW step \in HandlerSteps, Then(step),
               Freeze \/ Queue \/ QueueRefused \/ Mark \/ Restart \/ Finalise \/ (Set /\ api.op = "submit")
        PROVE  CallKnown'
    <3>1. api' = [api EXCEPT !.step = step]
      BY <2>5 DEF Then
    <3>2. /\ api'.step = step /\ api'.op = api.op /\ api'.task = api.task /\ api'.case = api.case
      BY <1>0, <3>1 DEF Call
    <3>3. step # "freezing"
      BY <1>0, <2>5, <3>2 DEF Freeze, Queue, QueueRefused, Mark, Restart, Finalise, Set, Then,
         Done, NoCall, Call
    <3>4. step = "queueing" => Freeze \/ (Set /\ api.op = "submit")
      BY <1>0, <2>5, <3>2 DEF Queue, QueueRefused, Mark, Restart, Finalise, Then, Done, NoCall, Call
    <3>5. api.step # "none" /\ api.case \in Cases
      BY <1>0, <2>5, CallTyped DEF Freeze, Queue, QueueRefused, Mark, Restart, Finalise, Set, Step
    <3>6. CASE api.op = "submit"
      BY <1>2, <3>2, <3>3, <3>5, <3>6 DEF FrozenInv, CallKnown
    <3>7. CASE Freeze
      <4>1. InputOf(api.task) \in Inputs /\ frozen[api.case] \in Seq(Inputs)
        BY <1>0, <3>5, <3>7, CallTyped, TaskShape DEF Freeze, Step
      <4>2. \/ frozen' = frozen /\ InputOf(api.task) \in Range(frozen[api.case])
            \/ frozen'[api.case] = Append(frozen[api.case], InputOf(api.task))
        BY <1>0, <3>5, <3>7 DEF Freeze, ApiCase
      <4>3. InputOf(api.task) \in Range(frozen'[api.case])
        <5>1. CASE frozen'[api.case] = Append(frozen[api.case], InputOf(api.task))
          <6>1. Range(Append(frozen[api.case], InputOf(api.task)))
                  = Range(frozen[api.case]) \cup {InputOf(api.task)}
            BY <4>1, AppendRange
          <6> QED BY <5>1, <6>1
        <5> QED BY <4>2, <5>1
      <4> QED BY <3>2, <3>3, <4>3 DEF CallKnown
    <3> QED BY <3>2, <3>3, <3>4, <3>6, <3>7 DEF CallKnown
  <2>6. ASSUME RecoverPlan, api' # NoCall PROVE CallKnown'
    <3>1. PICK s : api' = [api EXCEPT !.step = "finalising", !.target = s]
      BY <2>6 DEF RecoverPlan, Done
    <3>2. /\ api'.step = "finalising" /\ api'.op = api.op /\ api'.task = api.task
          /\ api'.case = api.case
      BY <1>0, <3>1 DEF Call
    <3>3. api.case \in Cases
      BY <1>0, <2>6, CallTyped DEF RecoverPlan, Step
    <3> QED BY <1>2, <3>2, <3>3 DEF FrozenInv, CallKnown
  <2> QED BY <1>0, <2>1, <2>2, <2>3, <2>4, <2>5, <2>6, CallCases
<1> QED BY <1>0, <1>2, <1>3, <1>4 DEF FrozenInv, Known

LEMMA FrozenInit == Init => FrozenInv
<1> SUFFICES ASSUME Init PROVE FrozenOK /\ Known /\ CallKnown
  BY TypeInit DEF FrozenInv
<1>1. \A c \in Cases : DOMAIN frozen[c] = {}
  <2>1. \A c \in Cases : frozen[c] = << >>
    BY DEF Init
  <2>2. Len(<< >>) = 0 /\ << >> \in Seq(Inputs)
    OBVIOUS
  <2>3. \A s \in Seq(Inputs) : Len(s) = 0 => DOMAIN s = {}
    OBVIOUS
  <2> QED BY <2>1, <2>2, <2>3
<1>2. (\A t \in Tasks : status[t] = "absent") /\ api = NoCall
  BY DEF Init, StoreInit
<1> QED BY <1>1, <1>2 DEF FrozenOK, Known, CallKnown, NoCall

(* Facts the applicant confirmed are the newest frozen input, and the task *)
(* queued for them is the newest task, also when the same facts had been   *)
(* frozen before: what they replace makes them a new input.                *)
THEOREM ConfirmedFactsWin == Spec => ConfirmedFactsAreNewest
<1> DEFINE Newest == \A c \in Cases :
             intake'[c] # intake[c] /\ caseStatus'[c] = "review_running" /\ caseStatus[c] = "needs_info" =>
               /\ Last(frozen'[c]) = InputOf(Last(born'))
               /\ FactsOf(Last(frozen'[c])) = intake'[c]
<1>1. ASSUME FrozenInv, [Next]_vars PROVE Newest
  <2> SUFFICES ASSUME NEW c \in Cases, intake'[c] # intake[c],
                      caseStatus'[c] = "review_running", caseStatus[c] = "needs_info"
               PROVE  Last(frozen'[c]) = InputOf(Last(born')) /\ FactsOf(Last(frozen'[c])) = intake'[c]
    OBVIOUS
  <2>1. \/ \E d \in Cases : Edit(d)
        \/ \E t \in Tasks, v \in Facts : Confirm(t, v)
    BY <1>1, OrderCases DEF Freeze, Queue, caseVars
  <2>2. ASSUME NEW d \in Cases, Edit(d) PROVE FALSE
    BY <2>2 DEF Edit
  <2>3. ASSUME NEW t \in Tasks, NEW v \in Facts, Confirm(t, v)
        PROVE  Last(frozen'[c]) = InputOf(Last(born')) /\ FactsOf(Last(frozen'[c])) = intake'[c]
    <3> DEFINE i == ConfirmedInput(CaseOf(t), v)
    <3>1. /\ frozen \in [Cases -> Seq(Inputs)] /\ born \in Seq(Tasks) /\ intake \in [Cases -> Facts]
          /\ intake' = [intake EXCEPT ![CaseOf(t)] = v]
      BY <1>1, <2>3 DEF FrozenInv, TypeInv, Typed, CaseTypeOK, StoreTypeOK, Confirm
    <3>2. c = CaseOf(t) /\ intake'[c] = v
      BY <3>1, TaskShape
    <3>3. i \in Inputs /\ frozen'[c] = Append(frozen[c], i) /\ born' = Append(born, <<c, i>>)
      BY <1>1, <2>3, <3>1, <3>2, ConfirmStep
    <3>4. <<c, i>> \in Tasks /\ InputOf(<<c, i>>) = i
      BY <3>3, TaskShape
    <3>5. Last(frozen'[c]) = i /\ Last(born') = <<c, i>>
      BY <3>1, <3>3, <3>4, LastOfAppend
    <3>6. FactsOf(i) = v
      BY DEF FactsOf, ConfirmedInput
    <3> QED BY <3>2, <3>4, <3>5, <3>6
  <2> QED BY <2>1, <2>2, <2>3
<1>2. FrozenInv /\ [Next]_vars => [Newest]_vars
  BY <1>1
<1> QED BY <1>2, FrozenInit, FrozenStep, PTL DEF Spec, ConfirmedFactsAreNewest

-----------------------------------------------------------------------------
(* While a handler is about to run a task again nothing is frozen and no   *)
(* task is inserted: the handler is the only one.                          *)
RetryStands ==
  api.step = "retrying" => IsLatest(api.task) /\ InputOf(api.task) = Latest(api.case)

LEMMA RetryStep ==
  ASSUME TypeInv, RetryStands, [Next]_vars
  PROVE  RetryStands'
<1>0. Typed /\ api \in Call
  BY DEF TypeInv, Typed, CallOK
<1> SUFFICES ASSUME api'.step = "retrying" PROVE (IsLatest(api.task) /\ InputOf(api.task) = Latest(api.case))'
  BY DEF RetryStands
<1>1. CASE api' = api
  <2>1. api.step = "retrying" /\ api.task \in Tasks
    BY <1>0, <1>1, CallTyped
  <2>2. ~Freeze /\ ~Queue /\ ~Quiet
    BY <2>1 DEF Freeze, Queue, Step, Quiet, NoCall
  <2>3. UNCHANGED <<frozen, born>>
    BY <2>2, OrderCases DEF Edit, Confirm
  <2>4. \A t \in Tasks : status'[t] = "absent" <=> status[t] = "absent"
    BY <2>2, NewTasks DEF Inserted, Confirm
  <2>5. IsLatest(api.task) /\ InputOf(api.task) = Latest(api.case)
    BY <2>1 DEF RetryStands
  <2>6. IsLatest(api.task)'
    BY <1>1, <2>1, <2>3, <2>4, <2>5 DEF IsLatest, Before, TasksOf
  <2> QED BY <1>1, <2>3, <2>5, <2>6 DEF Latest
<1>2. ASSUME NEW t \in Tasks, BeginRetry(t)
      PROVE  (IsLatest(api.task) /\ InputOf(api.task) = Latest(api.case))'
  <2>1. /\ api'.task = t /\ api'.case = CaseOf(t) /\ UNCHANGED <<status, born, frozen>>
        /\ IsLatest(t) /\ InputOf(t) = Latest(CaseOf(t))
    BY <1>2 DEF BeginRetry, Begin, RetryAllowed, storeVars, caseVars
  <2> QED BY <2>1 DEF IsLatest, Before, Latest
<1>3. ~(api' = NoCall)
  BY DEF NoCall
<1>4. ASSUME NEW c \in Cases PROVE ~(\/ BeginFreeze(c) \/ BeginSubmit(c) \/ BeginStatus(c)
                                     \/ BeginRun(c) \/ BeginRereview(c) \/ BeginSign(c))
  BY DEF BeginFreeze, BeginSubmit, BeginStatus, BeginRun, BeginRereview, BeginSign, Begin
<1>5. ASSUME NEW t \in Tasks PROVE ~BeginRecover(t)
  BY DEF BeginRecover, Begin
<1>6. ~(Freeze \/ Queue \/ QueueRefused \/ Mark \/ Restart \/ Finalise \/ (Set /\ api.op = "submit"))
  BY <1>0 DEF Freeze, Queue, QueueRefused, Mark, Restart, Finalise, Set, Then, Done, NoCall, Call
<1>7. ASSUME RecoverPlan PROVE FALSE
  <2>1. PICK s : api' = [api EXCEPT !.step = "finalising", !.target = s]
    BY <1>3, <1>7 DEF RecoverPlan, Done
  <2> QED BY <1>0, <2>1 DEF Call
<1> QED BY <1>0, <1>1, <1>2, <1>3, <1>4, <1>5, <1>6, <1>7, CallCases

(* A task that has ended is queued again only while it is the newest of    *)
(* its case and runs on the newest input, though the retry found this out  *)
(* in a transaction of its own and workers went on in between.             *)
THEOREM NewestIsRetried == Spec => OnlyNewestIsRetried
<1> DEFINE Newest == \A t \in Tasks :
             status[t] \in {"failed", "succeeded"} /\ status'[t] = "queued" =>
               IsLatest(t) /\ InputOf(t) = Latest(CaseOf(t))
<1>1. Init => RetryStands
  BY DEF Init, NoCall, RetryStands
<1>2. ASSUME TypeInv, RetryStands, [Next]_vars PROVE Newest
  <2> SUFFICES ASSUME NEW t \in Tasks, status[t] \in {"failed", "succeeded"}, status'[t] = "queued"
               PROVE  IsLatest(t) /\ InputOf(t) = Latest(CaseOf(t))
    OBVIOUS
  <2>1. Restart /\ t = api.task
    BY <1>2, StatusStep DEF TypeInv, Kept, Completed, MovedOn, Inserted, Restarted, ActiveStatus
  <2>2. api.step = "retrying" /\ CaseOf(api.task) = api.case
    BY <1>2, <2>1, CallTyped DEF Restart, Step, TypeInv
  <2> QED BY <1>2, <2>1, <2>2 DEF RetryStands
<1>3. TypeInv /\ RetryStands /\ [Next]_vars => [Newest]_vars
  BY <1>2
<1> QED BY <1>1, <1>3, TypeInit, TypeStep, RetryStep, PTL DEF Spec, OnlyNewestIsRetried
=============================================================================
