----------------------- MODULE RemediationTasksProofs -----------------------
(***************************************************************************)
(* What RemediationTasks guarantees for every set of tasks, every number   *)
(* of submissions and any number of reviews: a task is where its answers   *)
(* leave it, decisions stand, and nothing blocks an approval.              *)
(***************************************************************************)
EXTENDS RemediationTasks, TLAPS

(* The row of a task and its submissions.                                  *)
RowOK(row, s) ==
  /\ row.asked <= row.given
  /\ row.status = "absent" => row.given = 0 /\ ~row.current
  /\ \A n \in 1 .. MaxSubs : n > row.given => s[n].status = "absent" /\ s[n].runs = 0 /\ ~s[n].asks
  /\ \A n \in 1 .. MaxSubs : s[n].status = "pending_review" =>
       n = row.given /\ row.status = "pending_review"
  /\ row.status = "pending_review" => row.given > 0 /\ s[row.given].status = "pending_review"
  /\ row.status = "completed" => row.given > row.asked /\ s[row.given].status \in Vouched
  /\ row.given > 0 /\ s[row.given].status \in Reviewable => row.given > row.asked

AnswersOK == \A t \in Tasks : RowOK(task[t], sub[t])

(* What the API in flight has read of its task still holds.                *)
CallOK ==
  /\ api.stage \in {"starting", "reviewing", "applying", "locked"} => api.task \in Tasks
  /\ api.stage = "applying" => api.n \in 1 .. MaxSubs
  /\ api.stage \in {"reviewing", "locked"} =>
       /\ api.n = task[api.task].given /\ api.n > 0
       /\ sub[api.task][api.n].status \in Reviewable
  /\ api.stage = "locked" =>
       /\ api.plan \in {"active", "completed"}
       /\ \/ api.sub \in Vouched /\ api.to = "completed"
          \/ api.sub = "pending_review" /\ api.to = "pending_review"
          \/ api.sub = "agent_feedback" /\ api.to = "in_progress"

Done(t) == task[t].current => task[t].status = "completed"

(* A case without a plan has no tasks; a count is right unless a new list  *)
(* came after it.                                                          *)
CountOK ==
  /\ plan = "none" => \A t \in Tasks : task[t].status = "absent"
  /\ plan = "completed" /\ ~stale => \A t \in Tasks : Done(t)
  /\ api.stage = "locked" /\ ~api.late /\ api.plan = "completed" =>
       /\ \A t \in Tasks \ {api.task} : Done(t)
       /\ task[api.task].current => api.to = "completed"

(* A case on its way to approval has a plan, and nothing blocks it.        *)
Ready == {"pending_feishu_approval", "approved"}
CaseOK ==
  /\ case \in Ready => \A t \in Blocking : Done(t)
  /\ sync.pc = "judged" /\ sync.target \in Ready => \A t \in Blocking : Done(t)
  /\ SyncBusy => case \notin Ready
  /\ sync.pc \in {"written", "judged"} \/ case \in Ready => plan # "none"

Inv == TypeOK /\ AnswersOK /\ CallOK /\ CountOK /\ CaseOK

-----------------------------------------------------------------------------

LEMMA BlockingTasks == Blocking \subseteq Tasks
BY TasksAssumption

LEMMA Typed ==
  ASSUME TypeOK
  PROVE  /\ \A t \in Tasks :
              /\ task[t] \in Task /\ task[t].status \in TaskStatus
              /\ task[t].current \in BOOLEAN /\ task[t].given \in 0 .. MaxSubs
              /\ task[t].asked \in 0 .. MaxSubs
         /\ \A t \in Tasks : \A n \in 1 .. MaxSubs :
              /\ sub[t][n] \in Submission /\ sub[t][n].status \in SubStatus
              /\ sub[t][n].done \in BOOLEAN /\ sub[t][n].asks \in BOOLEAN
              /\ sub[t][n].runs \in 0 .. MaxRuns
         /\ \A t \in Tasks : sub[t] \in [1 .. MaxSubs -> Submission]
<1>1. \A t \in Tasks : task[t] \in Task
  BY DEF TypeOK
<1>2. \A t \in Tasks : \A n \in 1 .. MaxSubs : sub[t][n] \in Submission
  BY DEF TypeOK
<1>3. \A t \in Tasks : sub[t] \in [1 .. MaxSubs -> Submission]
  BY DEF TypeOK
<1>4. \A t \in Tasks :
        /\ task[t].status \in TaskStatus /\ task[t].current \in BOOLEAN
        /\ task[t].given \in 0 .. MaxSubs /\ task[t].asked \in 0 .. MaxSubs
  BY <1>1 DEF Task
<1>5. \A t \in Tasks : \A n \in 1 .. MaxSubs :
        /\ sub[t][n].status \in SubStatus /\ sub[t][n].done \in BOOLEAN
        /\ sub[t][n].asks \in BOOLEAN /\ sub[t][n].runs \in 0 .. MaxRuns
  BY <1>2 DEF Submission
<1> QED BY <1>1, <1>2, <1>3, <1>4, <1>5

LEMMA NoCallTyped == NoCall \in Call
BY BoundsAssumption DEF NoCall, Call, Stage, SubStatus, TaskStatus, PlanStatus

LEMMA NoSyncTyped == NoSync \in Sync
BY DEF NoSync, Sync, ReviewResult, CaseStatus

LEMMA InitInv == Init => Inv
<1> SUFFICES ASSUME Init PROVE Inv
  OBVIOUS
<1>1. TypeOK
  <2>1. NoSubmission \in Submission
    BY BoundsAssumption DEF NoSubmission, Submission, SubStatus
  <2>2. [status |-> "absent", current |-> FALSE, given |-> 0, asked |-> 0] \in Task
    BY BoundsAssumption DEF Task, TaskStatus
  <2> QED BY <2>1, <2>2, NoCallTyped, NoSyncTyped DEF Init, TypeOK, CaseStatus, PlanStatus
<1>2. AnswersOK
  BY BoundsAssumption DEF Init, AnswersOK, RowOK, NoSubmission, Reviewable, Vouched
<1>3. CallOK /\ CountOK /\ CaseOK
  BY BlockingTasks DEF Init, CallOK, CountOK, CaseOK, Done, NoCall, NoSync, Ready, SyncBusy
<1> QED BY <1>1, <1>2, <1>3 DEF Inv

-----------------------------------------------------------------------------
(* Steps of the reconciliation and of the case that leave the plan alone.  *)

LEMMA CaseStepInv ==
  ASSUME Inv,
         ReviewEnds \/ Rereads \/ Promotes \/ SyncFails \/ Recover \/ StartReview \/ Approve
  PROVE  Inv'
<1>1. UNCHANGED <<plan, task, sub, api, stale>>
  BY DEF ReviewEnds, Rereads, Promotes, SyncFails, Recover, StartReview, Approve
<1>2. case' \in CaseStatus /\ sync' \in Sync
  <2>0. case \in CaseStatus /\ sync \in Sync
    BY DEF Inv, TypeOK
  <2>1. CASE ReviewEnds
    BY <2>0, <2>1, NoSyncTyped DEF ReviewEnds, Sync
  <2>2. CASE Rereads
    <3>1. FinalStatus(sync.result, Blockers) \in CaseStatus
      BY DEF FinalStatus, CaseStatus
    <3>2. sync.byApi \in BOOLEAN
      BY <2>0 DEF Sync
    <3>3. [NoSync EXCEPT !.pc = "judged", !.byApi = sync.byApi,
                         !.target = FinalStatus(sync.result, Blockers)] \in Sync
      BY <3>1, <3>2, NoSyncTyped DEF Sync
    <3> QED BY <2>0, <2>2, <3>3 DEF Rereads
  <2>3. CASE Promotes
    BY <2>0, <2>3, NoSyncTyped DEF Promotes, Sync
  <2>4. CASE SyncFails
    BY <2>0, <2>4 DEF SyncFails, Sync, CaseStatus
  <2>5. CASE Recover
    BY <2>0, <2>5 DEF Recover, Sync
  <2>6. CASE StartReview \/ Approve
    BY <2>0, <2>6, NoSyncTyped DEF StartReview, Approve, CaseStatus
  <2> QED BY <2>1, <2>2, <2>3, <2>4, <2>5, <2>6
<1>3. TypeOK' /\ AnswersOK' /\ CallOK' /\ CountOK'
  BY <1>1, <1>2 DEF Inv, TypeOK, AnswersOK, CallOK, CountOK, Done
<1>4. CaseOK'
  <2>0. CaseOK /\ (\A t \in Blocking : Done(t)' <=> Done(t))
    BY <1>1 DEF Inv, Done
  <2>1. CASE ReviewEnds
    BY <2>0, <2>1 DEF ReviewEnds, CaseOK, NoSync, SyncBusy, Ready
  <2>2. CASE Rereads
    <3>1. FinalStatus(sync.result, Blockers) \in Ready => Blockers = {}
      BY DEF FinalStatus, Ready
    <3>2. Blockers = {} => \A t \in Blocking : Done(t)
      BY BlockingTasks DEF Blockers, Unfinished, CurrentTasks, Done
    <3>3. sync'.target = FinalStatus(sync.result, Blockers) /\ sync'.pc = "judged" /\ sync.pc = "written"
      BY <2>2 DEF Rereads, NoSync
    <3> QED BY <1>1, <2>0, <2>2, <3>1, <3>2, <3>3 DEF Rereads, CaseOK, SyncBusy
  <2>3. CASE Promotes
    BY <1>1, <2>0, <2>3 DEF Promotes, CaseOK, NoSync, SyncBusy
  <2>4. CASE SyncFails
    BY <1>1, <2>0, <2>4 DEF SyncFails, CaseOK, SyncBusy, Ready, Inv, TypeOK, Sync
  <2>5. CASE Recover
    BY <1>1, <2>0, <2>5 DEF Recover, CaseOK, SyncBusy, Ready, Inv, TypeOK, Sync
  <2>6. CASE StartReview
    BY <1>1, <2>0, <2>6 DEF StartReview, CaseOK, NoSync, SyncBusy, Ready
  <2>7. CASE Approve
    <3>1. sync.pc \notin {"locked", "written", "judged"}
      BY <2>0, <2>7 DEF Approve, CaseOK, SyncBusy, Ready
    <3> QED BY <1>1, <2>0, <2>7, <3>1 DEF Approve, CaseOK, SyncBusy, Ready
  <2> QED BY <2>1, <2>2, <2>3, <2>4, <2>5, <2>6, <2>7
<1> QED BY <1>3, <1>4 DEF Inv

(* The new list.                                                           *)
LEMMA SyncCommitsInv ==
  ASSUME Inv, SyncCommits
  PROVE  Inv'
<1> USE DEF SyncCommits
<1>1. \A t \in Tasks :
        /\ task'[t] \in Task /\ task'[t].given = task[t].given
        /\ RowOK(task'[t], sub[t])
        /\ task'[t].current => t \in sync.listed
  <2> SUFFICES ASSUME NEW t \in Tasks
               PROVE  /\ AfterSync(t) \in Task /\ AfterSync(t).given = task[t].given
                      /\ RowOK(AfterSync(t), sub[t])
                      /\ AfterSync(t).current => t \in sync.listed
    OBVIOUS
  <2>0. /\ task[t] \in Task /\ RowOK(task[t], sub[t])
        /\ task[t].given \in 0 .. MaxSubs /\ task[t].asked \in 0 .. MaxSubs
        /\ task[t].current \in BOOLEAN
    BY Typed DEF Inv, AnswersOK
  <2>1. CASE t \notin sync.listed
    <3>1. AfterSync(t) = [task[t] EXCEPT !.current = FALSE]
      BY <2>1 DEF AfterSync
    <3>2. AfterSync(t) \in Task
      BY <2>0, <3>1 DEF Task
    <3>3. /\ AfterSync(t).given = task[t].given /\ AfterSync(t).asked = task[t].asked
          /\ AfterSync(t).status = task[t].status /\ AfterSync(t).current = FALSE
      BY <2>0, <3>1 DEF Task
    <3>4. RowOK(AfterSync(t), sub[t])
      BY <2>0, <3>3 DEF RowOK
    <3> QED BY <2>1, <3>2, <3>3, <3>4
  <2>2. CASE t \in sync.listed /\ task[t].status \in {"absent", "completed"}
    <3>1. AfterSync(t) = [task[t] EXCEPT !.current = TRUE, !.status = "open", !.asked = task[t].given]
      BY <2>2 DEF AfterSync, Relisted
    <3>2. AfterSync(t) \in Task
      BY <2>0, <3>1 DEF Task, TaskStatus
    <3>3. /\ AfterSync(t).given = task[t].given /\ AfterSync(t).asked = task[t].given
          /\ AfterSync(t).status = "open" /\ AfterSync(t).current = TRUE
      BY <2>0, <3>1 DEF Task
    <3>4. RowOK(AfterSync(t), sub[t])
      BY <2>0, <2>2, <3>3 DEF RowOK, Vouched, Reviewable
    <3> QED BY <2>2, <3>2, <3>3, <3>4
  <2>3. CASE t \in sync.listed /\ task[t].status \notin {"absent", "completed"}
    <3>1. AfterSync(t) = [task[t] EXCEPT !.current = TRUE]
      BY <2>3 DEF AfterSync, Relisted
    <3>2. AfterSync(t) \in Task
      BY <2>0, <3>1 DEF Task
    <3>3. /\ AfterSync(t).given = task[t].given /\ AfterSync(t).asked = task[t].asked
          /\ AfterSync(t).status = task[t].status /\ AfterSync(t).current = TRUE
      BY <2>0, <3>1 DEF Task
    <3>4. RowOK(AfterSync(t), sub[t])
      BY <2>0, <2>3, <3>3 DEF RowOK
    <3> QED BY <2>3, <3>2, <3>3, <3>4
  <2> QED BY <2>1, <2>2, <2>3
<1>2. api' \in Call /\ sync' \in Sync
  BY DEF Inv, TypeOK, Call, Sync
<1>3. TypeOK'
  BY <1>1, <1>2 DEF Inv, TypeOK, PlanAfterSync, PlanStatus
<1>4. AnswersOK'
  BY <1>1 DEF AnswersOK
<1>5. /\ api'.stage = api.stage /\ api'.task = api.task /\ api'.n = api.n /\ api'.sub = api.sub
      /\ api'.to = api.to /\ api'.plan = api.plan /\ (api.stage = "locked" => api'.late)
      /\ sync'.pc = "written"
  BY DEF Inv, TypeOK, Call, Sync
<1>6. CallOK'
  BY <1>1, <1>5 DEF Inv, CallOK
<1>7. CountOK'
  <2>1. plan' = "completed" => \A t \in Tasks : ~task'[t].current
    BY <1>1 DEF PlanAfterSync
  <2> QED BY <1>5, <2>1 DEF CountOK, Done, PlanAfterSync
<1>8. CaseOK'
  BY <1>5 DEF Inv, CaseOK, SyncBusy, PlanAfterSync
<1> QED BY <1>3, <1>4, <1>6, <1>7, <1>8 DEF Inv

-----------------------------------------------------------------------------
(* Plans made by hand.                                                     *)
-----------------------------------------------------------------------------
(* The handlers of the API.                                                *)

LEMMA CreatePlanInv ==
  ASSUME Inv, CreatePlan
  PROVE  Inv'
<1> USE DEF CreatePlan
<1>1. \A t \in Tasks : /\ task'[t] \in Task /\ task'[t].given = task[t].given
                        /\ RowOK(task'[t], sub[t])
  <2> SUFFICES ASSUME NEW t \in Tasks
               PROVE  task'[t] \in Task /\ task'[t].given = task[t].given /\ RowOK(task'[t], sub[t])
    OBVIOUS
  <2>0. /\ task[t] \in Task /\ RowOK(task[t], sub[t])
        /\ task[t].given \in 0 .. MaxSubs /\ task[t].asked \in 0 .. MaxSubs
        /\ task[t].status = "absent"
    BY Typed DEF Inv, AnswersOK, CountOK
  <2>1. CASE t \in Manual
    <3>1. task'[t] = [task[t] EXCEPT !.status = "open", !.current = TRUE]
      BY <2>1
    <3>2. task'[t] \in Task
      BY <2>0, <3>1 DEF Task, TaskStatus
    <3>3. /\ task'[t].given = task[t].given /\ task'[t].asked = task[t].asked
          /\ task'[t].status = "open"
      BY <2>0, <3>1 DEF Task
    <3> QED BY <2>0, <3>2, <3>3 DEF RowOK
  <2>2. CASE t \notin Manual
    BY <2>0, <2>2
  <2> QED BY <2>1, <2>2
<1>2. TypeOK' /\ AnswersOK'
  BY <1>1 DEF Inv, TypeOK, AnswersOK, PlanStatus
<1>3. CallOK'
  BY <1>1 DEF Inv, CallOK
<1>4. api.stage = "idle"
  BY DEF ApiFree
<1>5. CountOK'
  BY <1>4 DEF CountOK
<1>6. CaseOK'
  BY DEF Inv, CaseOK, SyncBusy, Ready
<1> QED BY <1>2, <1>3, <1>5, <1>6 DEF Inv

LEMMA PlanStepInv ==
  ASSUME Inv, ActivatePlan \/ CancelPlan
  PROVE  Inv'
<1>1. /\ UNCHANGED <<case, task, sub, api, sync, stale>>
      /\ plan' \in {"completed", "active", "cancelled"} /\ api.stage = "idle"
      /\ plan' = "completed" => \A t \in Tasks : task[t].status = "absent"
  BY DEF ActivatePlan, CancelPlan, ApiFree
<1>2. \A t \in Tasks : task[t].status = "absent" => Done(t)
  BY DEF Inv, AnswersOK, RowOK, Done
<1>3. TypeOK' /\ AnswersOK' /\ CallOK'
  BY <1>1 DEF Inv, TypeOK, AnswersOK, CallOK, PlanStatus
<1>4. CountOK'
  BY <1>1, <1>2 DEF Inv, CountOK, Done
<1>5. CaseOK'
  BY <1>1 DEF Inv, CaseOK, Done, SyncBusy
<1> QED BY <1>3, <1>4, <1>5 DEF Inv

(* Steps that change nothing but the call.                                 *)
LEMMA CallStepInv ==
  ASSUME Inv, UNCHANGED <<case, plan, task, sub, sync, stale>>,
         api' \in Call, CallOK', CountOK'
  PROVE  Inv'
BY DEF Inv, TypeOK, AnswersOK, CaseOK, Done, SyncBusy

LEMMA NoCallOK ==
  ASSUME api' = NoCall
  PROVE  CallOK' /\ api'.stage = "idle"
BY DEF NoCall, CallOK

LEMMA BeginInv ==
  ASSUME Inv, NEW t \in Tasks, BeginStart(t) \/ BeginReview(t)
  PROVE  Inv'
<1>0. task[t].given \in 0 .. MaxSubs
  BY Typed DEF Inv
<1>1. CASE BeginStart(t)
  <2>1. api' \in Call /\ api'.stage = "starting" /\ api'.task = t
    BY <1>1, NoCallTyped DEF BeginStart, Call, Stage
  <2>2. CallOK' /\ CountOK'
    BY <1>1, <2>1 DEF BeginStart, CallOK, Inv, CountOK, Done
  <2> QED BY <1>1, <2>1, <2>2, CallStepInv DEF BeginStart
<1>2. CASE BeginReview(t)
  <2>1. PICK accepted \in BOOLEAN :
          api' = [NoCall EXCEPT !.stage = "reviewing", !.task = t, !.n = task[t].given,
                                !.yes = accepted]
    BY <1>2 DEF BeginReview
  <2>2. api' \in Call /\ api'.stage = "reviewing" /\ api'.task = t /\ api'.n = task[t].given
    BY <1>0, <2>1, NoCallTyped DEF Call, Stage
  <2>3. CallOK' /\ CountOK'
    BY <1>2, <2>2 DEF BeginReview, CallOK, Inv, CountOK, Done, Last
  <2> QED BY <1>2, <2>2, <2>3, CallStepInv DEF BeginReview
<1> QED BY <1>1, <1>2

(* What the transaction of a decision leaves to be written.                *)
LEMMA LockInv ==
  ASSUME Inv, NEW outcome \in [sub : SubStatus, to : TaskStatus], Lock(outcome),
         UNCHANGED <<case, plan, task, sub, sync, stale>>,
         api.task \in Tasks, api.n = task[api.task].given, api.n > 0,
         sub[api.task][api.n].status \in Reviewable,
         \/ outcome.sub \in Vouched /\ outcome.to = "completed"
         \/ outcome.sub = "pending_review" /\ outcome.to = "pending_review"
         \/ outcome.sub = "agent_feedback" /\ outcome.to = "in_progress"
  PROVE  Inv'
<1>1. /\ api' \in Call /\ api'.stage = "locked" /\ api'.task = api.task /\ api'.n = api.n
      /\ api'.sub = outcome.sub /\ api'.to = outcome.to
      /\ api'.plan = Counted(api.task, outcome.to)
  <2>1. Counted(api.task, outcome.to) \in PlanStatus
    BY DEF Counted, PlanStatus
  <2>2. api.n \in 0 .. MaxSubs
    BY DEF Inv, TypeOK, Call
  <2>3. outcome.sub \in SubStatus /\ outcome.to \in TaskStatus
    OBVIOUS
  <2> QED BY <2>1, <2>2, <2>3, NoCallTyped DEF Lock, Call, Stage
<1>2. CallOK'
  BY <1>1 DEF CallOK, Counted
<1>3. Counted(api.task, outcome.to) = "completed" =>
        /\ \A t \in Tasks \ {api.task} : Done(t)
        /\ task[api.task].current => outcome.to = "completed"
  BY DEF Counted, Unfinished, CurrentTasks, Done
<1>4. CountOK'
  BY <1>1, <1>3 DEF Inv, CountOK, Done
<1> QED BY <1>1, <1>2, <1>4, CallStepInv

LEMMA AcceptInv ==
  ASSUME Inv, Accept
  PROVE  Inv'
<1>1. [sub |-> "accepted", to |-> "completed"] \in [sub : SubStatus, to : TaskStatus]
  BY DEF SubStatus, TaskStatus
<1> QED BY <1>1, LockInv DEF Accept, Inv, CallOK, Vouched

LEMMA ApplyInv ==
  ASSUME Inv, Apply
  PROVE  Inv'
<1>0. api.task \in Tasks /\ api.n \in 1 .. MaxSubs
  BY DEF Inv, CallOK, Apply
<1>1. CASE sub[api.task][api.n].status = "pending_review"
  <2> DEFINE outcome == Assessed(api.task, sub[api.task][api.n].done, api.yes)
  <2>0. api.yes \in BOOLEAN /\ sub[api.task][api.n].done \in BOOLEAN
    BY <1>0, Typed DEF Inv, TypeOK, Call
  <2>1. \/ outcome = [sub |-> "agent_verified", to |-> "completed"]
        \/ outcome = [sub |-> "pending_review", to |-> "pending_review"]
        \/ outcome = [sub |-> "agent_feedback", to |-> "in_progress"]
    BY <2>0 DEF Assessed
  <2>2. outcome \in [sub : SubStatus, to : TaskStatus]
    BY <2>1 DEF SubStatus, TaskStatus
  <2>3. api.n = task[api.task].given /\ api.n > 0
    BY <1>0, <1>1 DEF Inv, AnswersOK, RowOK
  <2>4. Lock(outcome) /\ UNCHANGED <<case, plan, task, sub, sync, stale>>
    BY <1>1 DEF Apply
  <2>5. \/ outcome.sub \in Vouched /\ outcome.to = "completed"
        \/ outcome.sub = "pending_review" /\ outcome.to = "pending_review"
        \/ outcome.sub = "agent_feedback" /\ outcome.to = "in_progress"
    BY <2>1 DEF Vouched
  <2> HIDE DEF outcome
  <2> QED BY <1>0, <1>1, <2>2, <2>3, <2>4, <2>5, LockInv DEF Reviewable
<1>2. CASE sub[api.task][api.n].status # "pending_review"
  <2>1. api' = NoCall /\ UNCHANGED <<case, plan, task, sub, sync, stale>>
    BY <1>2 DEF Apply
  <2>2. CountOK'
    BY <2>1, NoCallOK DEF Inv, CountOK, Done
  <2> QED BY <2>1, <2>2, NoCallOK, NoCallTyped, CallStepInv
<1> QED BY <1>1, <1>2

LEMMA ApiFailsInv ==
  ASSUME Inv, ApiFails
  PROVE  Inv'
<1>1. CountOK'
  BY NoCallOK DEF ApiFails, Inv, CountOK, Done
<1> QED BY <1>1, NoCallOK, NoCallTyped, CallStepInv DEF ApiFails

-----------------------------------------------------------------------------
(* Runs of an assessment leave every verdict as it is.                     *)

LEMMA RunsOK ==
  ASSUME Inv, UNCHANGED <<case, plan, task, stale>>,
         sub' \in [Tasks -> [1 .. MaxSubs -> Submission]],
         \A t \in Tasks : \A n \in 1 .. MaxSubs :
           /\ sub'[t][n].status = sub[t][n].status
           /\ n > task[t].given => sub'[t][n].runs = 0 /\ ~sub'[t][n].asks,
         api' \in Call, CallOK', CountOK', sync' \in Sync, CaseOK'
  PROVE  Inv'
<1>1. AnswersOK'
  <2> SUFFICES ASSUME NEW t \in Tasks PROVE RowOK(task[t], sub'[t])
    BY DEF AnswersOK
  <2>1. RowOK(task[t], sub[t]) /\ task[t].given \in 0 .. MaxSubs /\ MaxSubs \in Nat
    BY Typed, BoundsAssumption DEF Inv, AnswersOK
  <2>2. \A n \in 1 .. MaxSubs :
           /\ sub'[t][n].status = sub[t][n].status
           /\ n > task[t].given => sub'[t][n].runs = 0 /\ ~sub'[t][n].asks
    OBVIOUS
  <2>3. task[t].given > 0 => /\ task[t].given \in 1 .. MaxSubs
                             /\ sub'[t][task[t].given].status = sub[t][task[t].given].status
    BY <2>1, <2>2
  <2> QED BY <2>1, <2>2, <2>3, Typed DEF RowOK, Inv
<1> QED BY <1>1 DEF Inv, TypeOK

LEMMA RunTyped ==
  ASSUME TypeOK, NEW t \in Tasks, NEW n \in 1 .. MaxSubs, NEW new \in Submission,
         new.status = sub[t][n].status,
         sub' = [sub EXCEPT ![t] = [sub[t] EXCEPT ![n] = new]]
  PROVE  /\ sub' \in [Tasks -> [1 .. MaxSubs -> Submission]]
         /\ \A u \in Tasks : \A m \in 1 .. MaxSubs :
              /\ sub'[u][m].status = sub[u][m].status
              /\ u # t \/ m # n => sub'[u][m] = sub[u][m]
<1>1. sub[t] \in [1 .. MaxSubs -> Submission]
  BY Typed
<1>2. [sub[t] EXCEPT ![n] = new] \in [1 .. MaxSubs -> Submission]
  BY <1>1
<1>3. sub' \in [Tasks -> [1 .. MaxSubs -> Submission]]
  BY <1>2 DEF TypeOK
<1>4. \A u \in Tasks : \A m \in 1 .. MaxSubs :
        sub'[u][m] = IF u = t /\ m = n THEN new ELSE sub[u][m]
  BY <1>1 DEF TypeOK
<1> QED BY <1>3, <1>4

LEMMA AssessmentRow ==
  ASSUME TypeOK, NEW t \in Tasks, NEW n \in 1 .. MaxSubs, Assessment(t, n)
  PROVE  \E new \in Submission :
           /\ new.status = sub[t][n].status
           /\ sub' = [sub EXCEPT ![t] = [sub[t] EXCEPT ![n] = new]]
<1>a. sub[t][n].runs \in 0 .. MaxRuns /\ MaxRuns \in Nat
  BY Typed, BoundsAssumption
<1>0. sub[t][n] \in Submission
  BY Typed
<1>1. \A x \in BOOLEAN, k \in 0 .. MaxRuns :
        /\ [sub[t][n] EXCEPT !.asks = x, !.runs = k] \in Submission
        /\ [sub[t][n] EXCEPT !.asks = x, !.runs = k].status = sub[t][n].status
  BY <1>0 DEF Submission
<1>2. \A k \in 0 .. MaxRuns :
        /\ [sub[t][n] EXCEPT !.runs = k] \in Submission
        /\ [sub[t][n] EXCEPT !.runs = k].status = sub[t][n].status
  BY <1>0 DEF Submission
<1>3. CASE AssessmentAsks(t, n)
  <2>1. PICK question \in BOOLEAN :
          sub' = [sub EXCEPT ![t] = [sub[t] EXCEPT ![n] =
                   [sub[t][n] EXCEPT !.asks = question, !.runs = sub[t][n].runs - 1]]]
    <3>1. PICK question \in BOOLEAN :
            sub' = [sub EXCEPT ![t][n].asks = question, ![t][n].runs = @ - 1]
      BY <1>3 DEF AssessmentAsks
    <3>2. [sub EXCEPT ![t][n].asks = question, ![t][n].runs = @ - 1]
            = [sub EXCEPT ![t] = [sub[t] EXCEPT ![n] =
                [sub[t][n] EXCEPT !.asks = question, !.runs = sub[t][n].runs - 1]]]
      BY <1>0, Typed DEF TypeOK, Submission
    <3> QED BY <3>1, <3>2
  <2>2. sub[t][n].runs - 1 \in 0 .. MaxRuns
    BY <1>a, <1>3 DEF AssessmentAsks
  <2> QED BY <1>1, <2>1, <2>2
<1>4. CASE AssessmentEnds(t, n)
  <2>1. sub' = [sub EXCEPT ![t] = [sub[t] EXCEPT ![n] =
                   [sub[t][n] EXCEPT !.asks = FALSE, !.runs = sub[t][n].runs - 1]]]
    BY <1>4, Typed DEF AssessmentEnds, TypeOK
  <2>2. sub[t][n].runs - 1 \in 0 .. MaxRuns
    BY <1>a, <1>4 DEF AssessmentEnds
  <2> QED BY <1>1, <2>1, <2>2
<1>5. CASE Answer(t, n)
  <2>1. sub' = [sub EXCEPT ![t] = [sub[t] EXCEPT ![n] =
                   [sub[t][n] EXCEPT !.runs = sub[t][n].runs + 1]]]
    BY <1>5, Typed DEF Answer, TypeOK
  <2>2. sub[t][n].runs + 1 \in 0 .. MaxRuns
    BY <1>a, <1>5 DEF Answer
  <2> QED BY <1>2, <2>1, <2>2
<1> QED BY <1>3, <1>4, <1>5 DEF Assessment

LEMMA AssessmentInv ==
  ASSUME Inv, NEW t \in Tasks, NEW n \in 1 .. MaxSubs, Assessment(t, n)
  PROVE  Inv'
<1>0. /\ task[t].given \in 0 .. MaxSubs /\ RowOK(task[t], sub[t])
      /\ sub[t][n].asks \in BOOLEAN /\ sub[t][n].runs \in 0 .. MaxRuns
      /\ MaxSubs \in Nat /\ MaxRuns \in Nat
  BY Typed, BoundsAssumption DEF Inv, AnswersOK
<1>1. sub[t][n].runs > 0 \/ sub[t][n].asks => n <= task[t].given
  BY <1>0 DEF RowOK
<1>2. /\ UNCHANGED <<case, plan, task, sync, stale>> /\ api.stage = "idle"
      /\ n <= task[t].given
  BY <1>1 DEF Assessment, AssessmentAsks, AssessmentEnds, Answer, ApiFree
<1>3. \E new \in Submission : /\ new.status = sub[t][n].status
                              /\ sub' = [sub EXCEPT ![t] = [sub[t] EXCEPT ![n] = new]]
  BY AssessmentRow DEF Inv
<1>4. /\ sub' \in [Tasks -> [1 .. MaxSubs -> Submission]]
      /\ \A u \in Tasks : \A m \in 1 .. MaxSubs :
           /\ sub'[u][m].status = sub[u][m].status
           /\ u # t \/ m # n => sub'[u][m] = sub[u][m]
  BY <1>3, RunTyped DEF Inv
<1>5. \A u \in Tasks : \A m \in 1 .. MaxSubs :
        m > task[u].given => sub'[u][m].runs = 0 /\ ~sub'[u][m].asks
  <2> SUFFICES ASSUME NEW u \in Tasks, NEW m \in 1 .. MaxSubs, m > task[u].given
               PROVE  sub'[u][m].runs = 0 /\ ~sub'[u][m].asks
    OBVIOUS
  <2>1. u # t \/ m # n
    BY <1>0, <1>2
  <2>2. RowOK(task[u], sub[u])
    BY DEF Inv, AnswersOK
  <2> QED BY <1>4, <2>1, <2>2 DEF RowOK
<1>6. api' \in Call /\ CallOK' /\ api'.stage # "locked"
  <2>1. CASE AssessmentEnds(t, n)
    <3>1. PICK resolved \in BOOLEAN :
            api' = [NoCall EXCEPT !.stage = "applying", !.task = t, !.n = n, !.yes = resolved]
      BY <2>1 DEF AssessmentEnds
    <3>2. n \in 0 .. MaxSubs
      BY <1>0
    <3>3. api' \in Call /\ api'.stage = "applying" /\ api'.task = t /\ api'.n = n
      BY <3>1, <3>2, NoCallTyped DEF Call, Stage
    <3> QED BY <3>3 DEF CallOK
  <2>2. CASE AssessmentAsks(t, n) \/ Answer(t, n)
    BY <1>2, <2>2 DEF AssessmentAsks, Answer, Inv, TypeOK, CallOK
  <2> QED BY <2>1, <2>2 DEF Assessment
<1>7. CountOK' /\ CaseOK'
  BY <1>2, <1>6 DEF Inv, CountOK, CaseOK, Done, SyncBusy
<1>8. sync' \in Sync
  BY <1>2 DEF Inv, TypeOK
<1> QED BY <1>2, <1>4, <1>5, <1>6, <1>7, <1>8, RunsOK

LEMMA ApiDiesInv ==
  ASSUME Inv, ApiDies
  PROVE  Inv'
<1> USE DEF ApiDies
<1>1. \A t \in Tasks : \A n \in 1 .. MaxSubs :
        /\ sub'[t][n] \in Submission /\ sub'[t][n].status = sub[t][n].status
        /\ sub'[t][n].runs = 0 /\ sub'[t][n].asks = sub[t][n].asks
  <2> SUFFICES ASSUME NEW t \in Tasks, NEW n \in 1 .. MaxSubs
               PROVE  /\ sub'[t][n] \in Submission /\ sub'[t][n].status = sub[t][n].status
                      /\ sub'[t][n].runs = 0 /\ sub'[t][n].asks = sub[t][n].asks
    OBVIOUS
  <2>1. sub[t][n] \in Submission
    BY Typed DEF Inv
  <2>2. sub'[t][n] = [sub[t][n] EXCEPT !.runs = 0]
    OBVIOUS
  <2>3. 0 \in 0 .. MaxRuns
    BY BoundsAssumption
  <2>4. /\ [sub[t][n] EXCEPT !.runs = 0] \in Submission
        /\ [sub[t][n] EXCEPT !.runs = 0].status = sub[t][n].status
        /\ [sub[t][n] EXCEPT !.runs = 0].runs = 0
        /\ [sub[t][n] EXCEPT !.runs = 0].asks = sub[t][n].asks
    BY <2>1, <2>3 DEF Submission
  <2> QED BY <2>2, <2>4
<1>2. sub' \in [Tasks -> [1 .. MaxSubs -> Submission]]
  BY <1>1
<1>3. \A t \in Tasks : \A n \in 1 .. MaxSubs :
        n > task[t].given => sub'[t][n].runs = 0 /\ ~sub'[t][n].asks
  BY <1>1 DEF Inv, AnswersOK, RowOK
<1>4. sync' \in Sync /\ CaseOK'
  BY DEF Inv, TypeOK, Sync, CaseOK, SyncBusy, Done
<1>5. CountOK'
  BY NoCallOK DEF Inv, CountOK, Done
<1> QED BY <1>1, <1>2, <1>3, <1>4, <1>5, NoCallOK, NoCallTyped, RunsOK

-----------------------------------------------------------------------------
(* Steps that change one task and its submissions.                         *)

LEMMA RowStep ==
  ASSUME Inv, NEW t \in Tasks, NEW row \in Task, NEW s \in [1 .. MaxSubs -> Submission],
         RowOK(row, s),
         task' = [task EXCEPT ![t] = row], sub' = [sub EXCEPT ![t] = s],
         UNCHANGED <<case, sync>>, plan' \in PlanStatus \ {"none"} \/ plan' = plan,
         Done(t) => (row.current => row.status = "completed"),
         stale' \in BOOLEAN, api' \in Call, CallOK', CountOK'
  PROVE  Inv'
<1>1. /\ task' \in [Tasks -> Task] /\ sub' \in [Tasks -> [1 .. MaxSubs -> Submission]]
      /\ task'[t] = row /\ sub'[t] = s
      /\ \A u \in Tasks \ {t} : task'[u] = task[u] /\ sub'[u] = sub[u]
  BY DEF Inv, TypeOK
<1>2. TypeOK'
  BY <1>1 DEF Inv, TypeOK, PlanStatus
<1>3. AnswersOK'
  <2> SUFFICES ASSUME NEW u \in Tasks PROVE RowOK(task'[u], sub'[u])
    BY DEF AnswersOK
  <2>1. RowOK(task[u], sub[u])
    BY DEF Inv, AnswersOK
  <2> QED BY <1>1, <2>1
<1>4. \A u \in Tasks : Done(u) => Done(u)'
  BY <1>1 DEF Done
<1>5. CaseOK'
  BY <1>4, BlockingTasks DEF Inv, CaseOK, SyncBusy
<1> QED BY <1>2, <1>3, <1>5 DEF Inv

LEMMA StartInv ==
  ASSUME Inv, Start
  PROVE  Inv'
<1> DEFINE t == api.task
           row == [task[t] EXCEPT !.status = "in_progress"]
<1>0. t \in Tasks /\ api' = NoCall /\ UNCHANGED <<case, plan, sub, sync, stale>>
  BY DEF Inv, CallOK, Start
<1>1. CASE task[t].status = "open"
  <2>0. /\ task[t] \in Task /\ RowOK(task[t], sub[t])
        /\ task[t].given \in 0 .. MaxSubs /\ task[t].asked \in 0 .. MaxSubs
        /\ task[t].current \in BOOLEAN /\ sub[t] \in [1 .. MaxSubs -> Submission]
    BY <1>0, Typed DEF Inv, AnswersOK
  <2>1. row \in Task
    BY <2>0 DEF Task, TaskStatus
  <2>2. /\ row.status = "in_progress" /\ row.given = task[t].given
        /\ row.asked = task[t].asked /\ row.current = task[t].current
    BY <2>0 DEF Task
  <2>3. RowOK(row, sub[t])
    BY <1>1, <2>0, <2>2 DEF RowOK
  <2>4. task' = [task EXCEPT ![t] = row] /\ sub' = [sub EXCEPT ![t] = sub[t]]
    BY <1>0, <1>1 DEF Start, Inv, TypeOK
  <2>5. /\ task'[t].status = "in_progress" /\ task'[t].current = task[t].current
        /\ \A u \in Tasks \ {t} : task'[u] = task[u]
    BY <1>0, <2>2, <2>4 DEF Inv, TypeOK
  <2>6. \A u \in Tasks : Done(u) => Done(u)'
    BY <1>1, <2>5 DEF Done
  <2>7. CountOK'
    BY <1>0, <1>1, <2>6, NoCallOK DEF Inv, CountOK
  <2>8. Done(t) => (row.current => row.status = "completed")
    BY <1>1, <2>2 DEF Done
  <2>9. stale' \in BOOLEAN
    BY <1>0 DEF Inv, TypeOK
  <2> HIDE DEF row, t
  <2> QED BY <1>0, <2>0, <2>1, <2>3, <2>4, <2>7, <2>8, <2>9, NoCallOK, NoCallTyped, RowStep
<1>2. CASE task[t].status # "open"
  <2>1. UNCHANGED task
    BY <1>2 DEF Start
  <2>2. CountOK'
    BY <1>0, <2>1, NoCallOK DEF Inv, CountOK, Done
  <2> QED BY <1>0, <2>1, <2>2, NoCallOK, NoCallTyped, CallStepInv
<1> QED BY <1>1, <1>2

LEMMA SubmitInv ==
  ASSUME Inv, NEW t \in Tasks, Submit(t)
  PROVE  Inv'
<1> DEFINE k == task[t].given + 1
           row == [task[t] EXCEPT !.status = "pending_review", !.given = k]
<1>0. /\ task[t] \in Task /\ RowOK(task[t], sub[t])
      /\ task[t].given \in 0 .. MaxSubs /\ task[t].asked \in 0 .. MaxSubs
      /\ task[t].current \in BOOLEAN /\ sub[t] \in [1 .. MaxSubs -> Submission]
      /\ MaxSubs \in Nat /\ MaxRuns \in Nat \ {0}
  BY Typed, BoundsAssumption DEF Inv, AnswersOK
<1>1. /\ task[t].status = "in_progress" /\ task[t].current /\ task[t].given < MaxSubs
      /\ api.stage = "idle" /\ UNCHANGED <<case, plan, api, sync, stale>>
      /\ task' = [task EXCEPT ![t].status = "pending_review", ![t].given = @ + 1]
  BY DEF Submit, ApiFree
<1>2. PICK done \in BOOLEAN :
        sub' = [sub EXCEPT ![t][k] =
                 [status |-> "pending_review", done |-> done, asks |-> FALSE, runs |-> 1]]
  BY DEF Submit
<1> DEFINE new == [status |-> "pending_review", done |-> done, asks |-> FALSE, runs |-> 1]
           s == [sub[t] EXCEPT ![k] = new]
<1>3. new \in Submission /\ new.status = "pending_review"
  BY <1>0 DEF Submission, SubStatus
<1>4. k \in 1 .. MaxSubs /\ k \in 0 .. MaxSubs
  BY <1>0, <1>1
<1>5. task' = [task EXCEPT ![t] = row]
  BY <1>0, <1>1 DEF Inv, TypeOK, Task
<1>6. sub' = [sub EXCEPT ![t] = s]
  BY <1>2 DEF Inv, TypeOK
<1>7. /\ row \in Task /\ row.status = "pending_review" /\ row.given = k
      /\ row.asked = task[t].asked /\ row.current = task[t].current
  BY <1>0, <1>4 DEF Task, TaskStatus
<1> HIDE DEF new, row
<1>8. /\ s \in [1 .. MaxSubs -> Submission] /\ s[k].status = "pending_review"
      /\ \A n \in 1 .. MaxSubs : n # k => s[n] = sub[t][n]
  BY <1>0, <1>3, <1>4
<1> HIDE DEF s
<1>9. RowOK(row, s)
  <2>1. \A n \in 1 .. MaxSubs : n > k => s[n].status = "absent" /\ s[n].runs = 0 /\ ~s[n].asks
    BY <1>0, <1>8 DEF RowOK
  <2>2. \A n \in 1 .. MaxSubs : s[n].status = "pending_review" => n = k
    BY <1>0, <1>1, <1>8 DEF RowOK
  <2> QED BY <1>0, <1>4, <1>7, <1>8, <2>1, <2>2 DEF RowOK
<1>10. ~Done(t) /\ \A u \in Tasks \ {t} : task'[u] = task[u]
  BY <1>1 DEF Done, Inv, TypeOK
<1>11. CountOK'
  BY <1>1, <1>10 DEF Inv, CountOK, Done
<1>12. CallOK' /\ api' \in Call /\ stale' \in BOOLEAN
  BY <1>1 DEF Inv, CallOK, TypeOK
<1> QED BY <1>1, <1>5, <1>6, <1>7, <1>8, <1>9, <1>10, <1>11, <1>12, RowStep

(* A decision: of the reviewer, or of the Agent.                           *)
LEMMA DecisionStep ==
  ASSUME Inv, NEW t \in Tasks, NEW verdict \in SubStatus, NEW to \in TaskStatus,
         task[t].given > 0, Last(t).status \in Reviewable,
         \/ verdict \in Vouched /\ to = "completed"
         \/ verdict = "pending_review" /\ to = "pending_review"
         \/ verdict \in {"agent_feedback", "rejected"} /\ to = "in_progress",
         sub' = [sub EXCEPT ![t][task[t].given].status = verdict],
         task' = [task EXCEPT ![t].status = to],
         UNCHANGED <<case, sync>>, plan' \in PlanStatus \ {"none"} \/ plan' = plan,
         stale' \in BOOLEAN, api' = NoCall, CountOK'
  PROVE  Inv'
<1> DEFINE k == task[t].given
           row == [task[t] EXCEPT !.status = to]
           new == [sub[t][k] EXCEPT !.status = verdict]
           s == [sub[t] EXCEPT ![k] = new]
<1>0. /\ task[t] \in Task /\ RowOK(task[t], sub[t])
      /\ task[t].given \in 0 .. MaxSubs /\ task[t].asked \in 0 .. MaxSubs
      /\ task[t].current \in BOOLEAN /\ sub[t] \in [1 .. MaxSubs -> Submission]
      /\ MaxSubs \in Nat
  BY Typed, BoundsAssumption DEF Inv, AnswersOK
<1>1. k \in 1 .. MaxSubs /\ sub[t][k].status \in Reviewable /\ sub[t][k] \in Submission
  BY <1>0 DEF Last
<1>2. new \in Submission /\ new.status = verdict
  BY <1>1 DEF Submission
<1>3. task' = [task EXCEPT ![t] = row] /\ sub' = [sub EXCEPT ![t] = s]
  BY DEF Inv, TypeOK
<1>4. /\ row \in Task /\ row.status = to /\ row.given = k
      /\ row.asked = task[t].asked /\ row.current = task[t].current
  BY <1>0 DEF Task
<1> HIDE DEF new, row
<1>5. /\ s \in [1 .. MaxSubs -> Submission] /\ s[k].status = verdict
      /\ \A n \in 1 .. MaxSubs : n # k => s[n] = sub[t][n]
  BY <1>0, <1>1, <1>2
<1> HIDE DEF s
<1>6. task[t].status \notin {"absent", "completed"} /\ k > task[t].asked
  BY <1>0, <1>1 DEF RowOK, Vouched, Reviewable
<1>7. RowOK(row, s)
  <2>1. \A n \in 1 .. MaxSubs : n > k => s[n].status = "absent" /\ s[n].runs = 0 /\ ~s[n].asks
    BY <1>0, <1>1, <1>5 DEF RowOK
  <2>2. \A n \in 1 .. MaxSubs : s[n].status = "pending_review" => n = k /\ verdict = "pending_review"
    BY <1>0, <1>1, <1>5 DEF RowOK
  <2> QED BY <1>0, <1>1, <1>4, <1>5, <1>6, <2>1, <2>2 DEF RowOK, Vouched
<1>8. Done(t) => (row.current => row.status = "completed")
  BY <1>4, <1>6 DEF Done
<1> QED BY <1>3, <1>4, <1>5, <1>7, <1>8, NoCallOK, NoCallTyped, RowStep

LEMMA RejectInv ==
  ASSUME Inv, Reject
  PROVE  Inv'
<1> DEFINE t == api.task
<1>0. /\ t \in Tasks /\ api.n = task[t].given /\ task[t].given > 0
      /\ Last(t).status \in Reviewable
  BY DEF Inv, CallOK, Reject, Last
<1>1. task[t].status # "completed"
  BY <1>0 DEF Inv, AnswersOK, RowOK, Last, Vouched, Reviewable
<1>2. \A u \in Tasks : Done(u) => Done(u)'
  BY <1>0, <1>1 DEF Done, Reject, Inv, TypeOK, Task
<1>3. \A u \in Tasks : task[u].status = "absent" => task'[u].status = "absent"
  <2>1. task[t].status # "absent"
    BY <1>0 DEF Inv, AnswersOK, RowOK
  <2> QED BY <1>0, <2>1 DEF Reject, Inv, TypeOK
<1>4. CountOK'
  BY <1>2, <1>3, NoCallOK DEF Reject, Inv, CountOK
<1>5. stale' \in BOOLEAN /\ "rejected" \in SubStatus /\ "in_progress" \in TaskStatus
  BY DEF Reject, Inv, TypeOK, SubStatus, TaskStatus
<1> QED BY <1>0, <1>4, <1>5, DecisionStep DEF Reject

LEMMA ApiCommitsInv ==
  ASSUME Inv, ApiCommits
  PROVE  Inv'
<1> DEFINE t == api.task
<1>0. /\ t \in Tasks /\ api.n = task[t].given /\ task[t].given > 0
      /\ Last(t).status \in Reviewable /\ api.plan \in {"active", "completed"}
      /\ \/ api.sub \in Vouched /\ api.to = "completed"
         \/ api.sub = "pending_review" /\ api.to = "pending_review"
         \/ api.sub = "agent_feedback" /\ api.to = "in_progress"
  BY DEF Inv, CallOK, ApiCommits, Last
<1>1. /\ task'[t].status = api.to /\ task'[t].current = task[t].current
      /\ \A u \in Tasks \ {t} : task'[u] = task[u]
  <2>1. task[t] \in Task
    BY <1>0, Typed DEF Inv
  <2>2. task'[t] = [task[t] EXCEPT !.status = api.to]
    BY <1>0 DEF ApiCommits, Inv, TypeOK
  <2>3. \A u \in Tasks \ {t} : task'[u] = task[u]
    BY <1>0 DEF ApiCommits, Inv, TypeOK
  <2> QED BY <2>1, <2>2, <2>3 DEF Task
<1>2. CountOK'
  BY <1>0, <1>1, NoCallOK DEF ApiCommits, Inv, CountOK, Done
<1>3. /\ stale' \in BOOLEAN /\ api.sub \in SubStatus /\ api.to \in TaskStatus
      /\ api.plan \in PlanStatus \ {"none"}
  BY <1>0 DEF ApiCommits, Inv, TypeOK, Call, PlanStatus
<1> QED BY <1>0, <1>2, <1>3, DecisionStep DEF ApiCommits

-----------------------------------------------------------------------------

LEMMA NextInv == Inv /\ [Next]_vars => Inv'
<1> SUFFICES ASSUME Inv, [Next]_vars PROVE Inv'
  OBVIOUS
<1>1. CASE UNCHANGED vars
  BY <1>1 DEF vars, Inv, TypeOK, AnswersOK, CallOK, CountOK, CaseOK, Done, SyncBusy
<1>2. CASE ReviewEnds \/ Rereads \/ Promotes \/ SyncFails \/ Recover \/ StartReview \/ Approve
  BY <1>2, CaseStepInv
<1>3. CASE SyncCommits
  BY <1>3, SyncCommitsInv
<1>4. CASE CreatePlan
  BY <1>4, CreatePlanInv
<1>5. CASE ActivatePlan \/ CancelPlan
  BY <1>5, PlanStepInv
<1>6. CASE \E t \in Tasks : Submit(t) \/ BeginStart(t) \/ BeginReview(t)
  BY <1>6, SubmitInv, BeginInv
<1>7. CASE \E t \in Tasks : \E n \in 1 .. MaxSubs : Assessment(t, n)
  BY <1>7, AssessmentInv
<1>8. CASE Start \/ Accept \/ Reject \/ Apply
  BY <1>8, StartInv, AcceptInv, RejectInv, ApplyInv
<1>9. CASE ApiCommits \/ ApiFails \/ ApiDies
  BY <1>9, ApiCommitsInv, ApiFailsInv, ApiDiesInv
<1> QED BY <1>1, <1>2, <1>3, <1>4, <1>5, <1>6, <1>7, <1>8, <1>9 DEF Next

LEMMA AlwaysInv == Spec => []Inv
BY InitInv, NextInv, PTL DEF Spec

(* The state is always of its type.                                        *)
THEOREM TypeCorrect == Spec => []TypeOK
BY AlwaysInv, PTL DEF Inv

(* A task is where its submissions leave it, although an assessment is     *)
(* applied without a look at the task: review_remediation_submission and   *)
(* apply_agent_remediation_assessment.                                     *)
THEOREM TaskFollowsAnswersHolds == Spec => []TaskFollowsAnswers
<1>1. Inv => TaskFollowsAnswers
  BY DEF Inv, AnswersOK, RowOK, TaskFollowsAnswers, Last
<1> QED BY <1>1, AlwaysInv, PTL

(* A plan is completed only when each of its current tasks is, unless the  *)
(* count behind it is older than the list.                                 *)
THEOREM PlanCompletedMeansDoneHolds == Spec => []PlanCompletedMeansDone
<1>1. Inv => PlanCompletedMeansDone
  BY DEF Inv, CountOK, Done, PlanCompletedMeansDone, Unfinished, CurrentTasks
<1> QED BY <1>1, AlwaysInv, PTL

(* Nothing blocks a case that goes to approval, or is approved.            *)
THEOREM NothingBlocksApprovalHolds == Spec => []NothingBlocksApproval
<1>1. Inv => NothingBlocksApproval
  BY DEF Inv, CaseOK, Done, NothingBlocksApproval, Ready, Blockers, Unfinished, CurrentTasks
<1> QED BY <1>1, AlwaysInv, PTL

(* The step DecisionStands speaks of.                                      *)
Stands ==
  \A t \in Tasks :
    /\ \A n \in 1 .. MaxSubs : sub[t][n].status \in Vouched \cup {"rejected"} =>
         sub'[t][n].status = sub[t][n].status
    /\ task[t].status = "completed" /\ task'[t].status # "completed" =>
         task'[t].status = "open" /\ t \in sync.listed /\ sync.pc = "locked"

LEMMA NextStands == Inv /\ [Next]_vars => Stands
<1> SUFFICES ASSUME Inv, [Next]_vars PROVE Stands
  OBVIOUS
<1>1. CASE UNCHANGED <<task, sub>>
  BY <1>1 DEF Stands
<1>2. CASE SyncCommits
  <2> SUFFICES ASSUME NEW t \in Tasks, task[t].status = "completed",
                      AfterSync(t).status # "completed"
               PROVE  AfterSync(t).status = "open" /\ t \in sync.listed
    BY <1>2 DEF SyncCommits, Stands
  <2>1. task[t] \in Task
    BY Typed DEF Inv
  <2>2. t \in sync.listed
    BY <2>1 DEF AfterSync, Task
  <2>3. AfterSync(t).status = "open"
    BY <2>1, <2>2 DEF AfterSync, Relisted, Task
  <2> QED BY <2>2, <2>3
<1>3. CASE CreatePlan
  BY <1>3 DEF CreatePlan, Inv, CountOK, Stands
<1>4. ASSUME NEW t \in Tasks, Submit(t) PROVE Stands
  <2> DEFINE k == task[t].given + 1
  <2>1. PICK new \in Submission : sub' = [sub EXCEPT ![t] = [sub[t] EXCEPT ![k] = new]]
    <3>1. PICK done \in BOOLEAN :
            sub' = [sub EXCEPT ![t][k] =
                     [status |-> "pending_review", done |-> done, asks |-> FALSE, runs |-> 1]]
      BY <1>4 DEF Submit
    <3>2. [status |-> "pending_review", done |-> done, asks |-> FALSE, runs |-> 1] \in Submission
      BY BoundsAssumption DEF Submission, SubStatus
    <3> QED BY <3>1, <3>2 DEF Inv, TypeOK
  <2>2. k \in 1 .. MaxSubs /\ sub[t] \in [1 .. MaxSubs -> Submission] /\ k > task[t].given
    BY <1>4, BoundsAssumption, Typed DEF Submit, Inv
  <2>3. sub[t][k].status = "absent"
    BY <2>2 DEF Inv, AnswersOK, RowOK
  <2> HIDE DEF k
  <2>4. \A u \in Tasks : \A n \in 1 .. MaxSubs : u # t \/ n # k => sub'[u][n] = sub[u][n]
    BY <2>1, <2>2 DEF Inv, TypeOK
  <2>5. \A u \in Tasks : task[u].status = "completed" => task'[u] = task[u]
    BY <1>4 DEF Submit, Inv, TypeOK
  <2> QED BY <2>3, <2>4, <2>5 DEF Stands, Vouched
<1>5. ASSUME NEW t \in Tasks, NEW n \in 1 .. MaxSubs, Assessment(t, n) PROVE Stands
  <2>1. UNCHANGED task
    BY <1>5 DEF Assessment, AssessmentAsks, AssessmentEnds, Answer
  <2>2. \A u \in Tasks : \A m \in 1 .. MaxSubs : sub'[u][m].status = sub[u][m].status
    BY <1>5, AssessmentRow, RunTyped DEF Inv
  <2> QED BY <2>1, <2>2 DEF Stands
<1>6. CASE Start
  BY <1>6 DEF Start, Inv, TypeOK, Stands
<1>7. CASE Reject \/ ApiCommits
  <2> DEFINE t == api.task
             k == api.n
  <2>0. /\ t \in Tasks /\ k = task[t].given /\ k > 0 /\ sub[t][k].status \in Reviewable
    BY <1>7 DEF Inv, CallOK, Reject, ApiCommits
  <2>1. k \in 1 .. MaxSubs /\ sub[t] \in [1 .. MaxSubs -> Submission]
    BY <2>0, BoundsAssumption, Typed DEF Inv
  <2>2. task[t].status # "completed"
    BY <2>0 DEF Inv, AnswersOK, RowOK, Vouched, Reviewable
  <2>3. \A u \in Tasks : u # t => task'[u] = task[u]
    BY <1>7 DEF Reject, ApiCommits, Inv, TypeOK
  <2>4. \A u \in Tasks : \A n \in 1 .. MaxSubs : u # t \/ n # k => sub'[u][n] = sub[u][n]
    <3>1. PICK x \in {"rejected", api.sub} :
            sub' = [sub EXCEPT ![t] = [sub[t] EXCEPT ![k] = [sub[t][k] EXCEPT !.status = x]]]
      BY <1>7 DEF Reject, ApiCommits
    <3> QED BY <2>0, <2>1, <3>1 DEF Inv, TypeOK
  <2> HIDE DEF t, k
  <2> QED BY <2>0, <2>2, <2>3, <2>4 DEF Stands, Vouched, Reviewable
<1>8. CASE ApiDies
  <2>1. \A u \in Tasks : \A m \in 1 .. MaxSubs : sub'[u][m].status = sub[u][m].status
    <3> SUFFICES ASSUME NEW u \in Tasks, NEW m \in 1 .. MaxSubs
                 PROVE  sub'[u][m].status = sub[u][m].status
      OBVIOUS
    <3>1. sub[u][m] \in Submission /\ sub'[u][m] = [sub[u][m] EXCEPT !.runs = 0]
      BY <1>8, Typed DEF ApiDies, Inv
    <3> QED BY <3>1 DEF Submission
  <2> QED BY <1>8, <2>1 DEF ApiDies, Stands
<1> QED
  <2>1. CASE UNCHANGED vars
    BY <1>1, <2>1 DEF vars
  <2>2. CASE \/ ReviewEnds \/ Rereads \/ Promotes \/ SyncFails \/ Recover \/ StartReview
             \/ Approve \/ ActivatePlan \/ CancelPlan
    BY <1>1, <2>2 DEF ReviewEnds, Rereads, Promotes, SyncFails, Recover, StartReview, Approve,
                      ActivatePlan, CancelPlan
  <2>3. CASE (\E t \in Tasks : BeginStart(t) \/ BeginReview(t)) \/ Accept \/ Apply \/ ApiFails
    BY <1>1, <2>3 DEF BeginStart, BeginReview, Accept, Apply, ApiFails
  <2> QED BY <1>2, <1>3, <1>4, <1>5, <1>6, <1>7, <1>8, <2>1, <2>2, <2>3 DEF Next

(* A reviewer's decision and the Agent's verification stand: no later run  *)
(* of an assessment undoes them, and only a new list asks again.           *)
THEOREM DecisionStandsHolds == Spec => DecisionStands
<1>1. Inv /\ [Next]_vars => [Stands]_vars
  BY NextStands
<1>2. DecisionStands <=> [][Stands]_vars
  BY DEF DecisionStands, Stands
<1> QED BY <1>1, <1>2, AlwaysInv, PTL DEF Spec

=============================================================================
