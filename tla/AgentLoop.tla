------------------------------ MODULE AgentLoop -------------------------------
(***************************************************************************)
(* One review task and the Agent that works on it: the loop of run_agent,  *)
(* its budgets and checkpoints, the questions it asks and their answers    *)
(* (agent.py), as execute_agent_task and run_once drive it.  ReviewTasks   *)
(* assumes that a run ends; here is why it does.                           *)
(*                                                                         *)
(* The state the Agent works on is in the worker's memory; a checkpoint    *)
(* saves it under the worker's attempt number.  A worker may die anywhere, *)
(* or outlive its lease and go on beside its successor until its next      *)
(* checkpoint is refused.  The queue is reduced to the status and the      *)
(* attempt number of the task (TaskStore has the rest), the choices of the *)
(* language model to what they do to budgets, steps and status.            *)
(***************************************************************************)
EXTENDS Integers, Sequences

CONSTANTS
  Tools,        \* budgeted tools: searches, reads, web searches
  Budget,       \* max_searches, max_reads, max_web_searches
  MaxTurns,     \* max_turns, 16 in the code
  MaxAttempts,  \* MAX_TASK_AUTO_ATTEMPTS, 5 in the code
  MaxHuman,     \* bound: answers and retries
  Workers,      \* worker processes
  NoState       \* agent_state_json is NULL, or the worker has none

ASSUME ToolsAssumption == Tools \cap {"turns", "none"} = {}
ASSUME BudgetAssumption == Budget \in [Tools -> Nat]
ASSUME TurnsAssumption == MaxTurns \in Nat /\ MaxAttempts \in Nat \ {0} /\ MaxHuman \in Nat

VARIABLES
  status,    \* review_tasks.status
  attempt,   \* review_tasks.attempt_count
  saved,     \* review_tasks.agent_state_json
  worker,    \* where each worker is, under which attempt, with which state
  calls,     \* history: calls made of each tool, and of the model for a turn
  human,     \* history: answers and retries
  answered   \* history: the gates answered in this run

vars == <<status, attempt, saved, worker, calls, human, answered>>

-----------------------------------------------------------------------------
(* AgentState                                                              *)

Spent == Tools \cup {"turns"}
Limit == [k \in Spent |-> IF k = "turns" THEN MaxTurns ELSE Budget[k]]
NothingSpent == [k \in Spent |-> 0]

(* used counts over the whole run, start is what had been used at the last *)
(* answer, steps holds the numbers of the steps, gate the turn that asked. *)
FreshState ==
  [status |-> "running", used |-> NothingSpent, start |-> NothingSpent,
   steps |-> << >>, gate |-> 0, draft |-> FALSE, result |-> "none"]

(* remaining_budget                                                        *)
Left(s, k) == Limit[k] - (s.used[k] - s.start[k])

Spend(s, k) == [s EXCEPT !.used[k] = @ + 1]
Turn(s) == s.used["turns"]
AddStep(s, n) == [s EXCEPT !.steps = Append(@, n)]

Asked(s) == [AddStep(s, Turn(s)) EXCEPT !.status = "waiting_input", !.gate = Turn(s)]
Reported(s) ==
  [AddStep(s, Turn(s)) EXCEPT !.status = "completed", !.result = "report", !.draft = FALSE]

Abstained(s) ==
  [AddStep(s, Turn(s) + 1) EXCEPT !.status = "completed", !.result = "abstention", !.draft = FALSE]

(* Mutant: the answer is put into the turn that asked.                     *)
AnswerInSameTurn(s) ==
  [AddStep(s, Turn(s)) EXCEPT !.status = "running", !.gate = 0, !.start = s.used]

(* Mutant: the state still asks the question that was answered.            *)
AnswerKeepsQuestion(s) == [AddStep(Spend(s, "turns"), Turn(s) + 1) EXCEPT !.start = s.used]

(* answer_agent: a turn of its own, and budgets that start afresh.         *)
AnswerAgent(s) ==
  LET t == Spend(s, "turns") IN
    [AddStep(t, Turn(t)) EXCEPT !.status = "running", !.gate = 0, !.start = t.used]

-----------------------------------------------------------------------------

Idle == [pc |-> "idle", attempt |-> 0, tool |-> "none", state |-> NoState]

Init ==
  /\ status = "queued"
  /\ attempt = 0
  /\ saved = NoState
  /\ worker = [w \in Workers |-> Idle]
  /\ calls = NothingSpent
  /\ human = 0
  /\ answered = {}

At(w, pc) == worker[w].pc = pc
Mem(w) == worker[w].state
CanWrite(w) == status = "running" /\ attempt = worker[w].attempt
Abandoned == status = "running" /\ \A w \in Workers : At(w, "idle") \/ ~CanWrite(w)

(* checkpoint_agent, then on to pc.                                        *)
Checkpoint(w, s, pc, tool) ==
  /\ CanWrite(w)
  /\ saved' = s
  /\ worker' = [worker EXCEPT ![w].state = s, ![w].pc = pc, ![w].tool = tool]
  /\ UNCHANGED <<status, attempt, human, answered>>

Release(w) == worker' = [worker EXCEPT ![w] = Idle]

-----------------------------------------------------------------------------
(* claim_next_task gives out a queued task, or one whose lease has lapsed  *)
(* and which has attempts left; execute_agent_task loads its saved state.  *)
Claim(w) ==
  /\ At(w, "idle")
  /\ status = "queued" \/ (status = "running" /\ attempt < MaxAttempts)
  /\ status' = "running"
  /\ attempt' = attempt + 1
  /\ worker' = [worker EXCEPT ![w] =
       [pc |-> "loop", attempt |-> attempt + 1, tool |-> "none",
        state |-> IF saved = NoState THEN FreshState ELSE saved]]
  /\ UNCHANGED <<saved, calls, human, answered>>

(* Mutant: one attempt more is allowed than a claim can still make.        *)
SweepAwayLate ==
  /\ status = "running" /\ attempt > MaxAttempts
  /\ status' = "failed"
  /\ UNCHANGED <<attempt, saved, worker, calls, human, answered>>

(* _requeue_expired_tasks gives up a task without attempts left.           *)
SweepAway ==
  /\ status = "running" /\ attempt >= MaxAttempts
  /\ status' = "failed"
  /\ UNCHANGED <<attempt, saved, worker, calls, human, answered>>

(* Mutant: a loaded state is worked on whatever its status.                *)
AnyStateRuns(s) == TRUE

(* run_agent returns a state that is not running as it is.                 *)
Runs(s) == s.status = "running"

(* A turn is counted and saved before the model decides.                   *)
StartTurn(w) ==
  /\ At(w, "loop") /\ Runs(Mem(w)) /\ Left(Mem(w), "turns") > 0
  /\ Checkpoint(w, Spend(Mem(w), "turns"), "decide", "turns")
  /\ UNCHANGED calls

(* The budget of turns is spent: the run ends with an abstention.          *)
Abstain(w) ==
  /\ At(w, "loop") /\ Runs(Mem(w)) /\ Left(Mem(w), "turns") <= 0
  /\ Checkpoint(w, Abstained(Mem(w)), "loop", "none")
  /\ UNCHANGED calls

(* The call of the model or of a tool that has been paid for.              *)
Call(w) ==
  /\ worker[w].tool # "none"
  /\ calls' = [calls EXCEPT ![worker[w].tool] = @ + 1]
  /\ worker' = [worker EXCEPT ![w].tool = "none"]
  /\ UNCHANGED <<status, attempt, saved, human, answered>>

Decided(w) == At(w, "decide") /\ worker[w].tool = "none"

(* Mutant: a call is made first and counted with the step it belongs to.   *)
PayLater(w) ==
  \E k \in Tools :
    /\ Decided(w) /\ Left(Mem(w), k) > 0
    /\ worker' = [worker EXCEPT ![w].state = Spend(Mem(w), k), ![w].tool = k]
    /\ UNCHANGED <<status, attempt, saved, human, answered, calls>>

(* A tool with budget left is counted and saved before it is called; one   *)
(* turn may read several times.                                            *)
Pay(w) ==
  \E k \in Tools :
    /\ Decided(w) /\ Left(Mem(w), k) > 0
    /\ Checkpoint(w, Spend(Mem(w), k), "decide", k)
    /\ UNCHANGED calls

(* Any other action, an error of a tool, a wrong tool call.                *)
EndTurn(w) ==
  /\ Decided(w)
  /\ Checkpoint(w, AddStep(Mem(w), Turn(Mem(w))), "loop", "none")
  /\ UNCHANGED calls

(* request_input                                                           *)
Ask(w) ==
  /\ Decided(w)
  /\ Checkpoint(w, Asked(Mem(w)), "loop", "none")
  /\ UNCHANGED calls

(* finish: the draft is saved, then checked.                               *)
Draft(w) ==
  /\ Decided(w)
  /\ Checkpoint(w, [Mem(w) EXCEPT !.draft = TRUE], "check", "none")
  /\ UNCHANGED calls

CheckDraft(w) ==
  /\ At(w, "check")
  /\ \/ Checkpoint(w, Reported(Mem(w)), "loop", "none")
     \/ Checkpoint(w, AddStep(Mem(w), Turn(Mem(w))), "loop", "none")
  /\ UNCHANGED calls

(* run_once: pause_task for a state that asks, complete_task for a report. *)
Pause(w) ==
  /\ At(w, "loop") /\ Mem(w).status = "waiting_input" /\ CanWrite(w)
  /\ status' = "waiting_input"
  /\ saved' = Mem(w)
  /\ Release(w)
  /\ UNCHANGED <<attempt, calls, human, answered>>

Complete(w) ==
  /\ At(w, "loop") /\ Mem(w).status = "completed" /\ CanWrite(w)
  /\ status' = "succeeded"
  /\ Release(w)
  /\ UNCHANGED <<attempt, saved, calls, human, answered>>

(* An exception of the run, ReviewWorkflowFailed among them.               *)
Fail(w) ==
  /\ ~At(w, "idle") /\ CanWrite(w)
  /\ status' = "failed"
  /\ Release(w)
  /\ UNCHANGED <<attempt, saved, calls, human, answered>>

(* The checkpoint of a worker whose attempt was taken away raises: once    *)
(* inside the tool's error handling at most, then out of the loop.         *)
Fenced(w) ==
  /\ ~At(w, "idle") /\ ~CanWrite(w) /\ worker[w].tool = "none"
  /\ Release(w)
  /\ UNCHANGED <<status, attempt, saved, calls, human, answered>>

Crash(w) ==
  /\ ~At(w, "idle")
  /\ Release(w)
  /\ UNCHANGED <<status, attempt, saved, calls, human, answered>>

-----------------------------------------------------------------------------
(* People                                                                  *)

Answer ==
  /\ status = "waiting_input" /\ human < MaxHuman
  /\ saved.status = "waiting_input"
  /\ saved' = AnswerAgent(saved)
  /\ status' = "queued"
  /\ human' = human + 1
  /\ answered' = answered \cup {saved.gate}
  /\ UNCHANGED <<attempt, worker, calls>>

(* retry_task: from nothing.                                               *)
Retry ==
  /\ status = "failed" /\ human < MaxHuman
  /\ saved' = NoState
  /\ status' = "queued"
  /\ human' = human + 1
  /\ answered' = {}
  /\ UNCHANGED <<attempt, worker, calls>>

-----------------------------------------------------------------------------

LoopStep(w) ==
  \/ StartTurn(w) \/ Abstain(w) \/ Call(w)
  \/ Pay(w) \/ EndTurn(w) \/ Ask(w) \/ Draft(w) \/ CheckDraft(w)
  \/ Pause(w) \/ Complete(w) \/ Fail(w) \/ Fenced(w)

Next ==
  \/ \E w \in Workers : Claim(w) \/ LoopStep(w) \/ Crash(w)
  \/ SweepAway
  \/ Answer
  \/ Retry

Spec == Init /\ [][Next]_vars

(* The loop is straight-line code whose calls have time limits; a task     *)
(* nobody works on any more is claimed, or swept away, when its lease has  *)
(* lapsed.  People are not fair, and workers need not crash.               *)
Fairness ==
  /\ \A w \in Workers : WF_vars(LoopStep(w))
  /\ WF_vars((status = "queued" \/ Abandoned) /\ \E w \in Workers : Claim(w))
  /\ WF_vars(Abandoned /\ SweepAway)

LiveSpec == Spec /\ Fairness

-----------------------------------------------------------------------------
(* Properties                                                              *)

AgentStates ==
  [status : {"running", "waiting_input", "completed"},
   used : [Spent -> Nat], start : [Spent -> Nat],
   steps : Seq(Nat), gate : Nat, draft : BOOLEAN,
   result : {"none", "report", "abstention"}]

ASSUME NoStateAssumption == NoState \notin AgentStates

TypeOK ==
  /\ status \in {"queued", "running", "waiting_input", "succeeded", "failed"}
  /\ attempt \in Nat
  /\ saved \in AgentStates \cup {NoState}
  /\ worker \in [Workers -> [pc : {"idle", "loop", "decide", "check"}, attempt : Nat,
                             tool : Spent \cup {"none"}, state : AgentStates \cup {NoState}]]
  /\ calls \in [Spent -> Nat]
  /\ human \in Nat
  /\ answered \subseteq Nat

(* The calls really made of a tool, and the turns really taken, stay in    *)
(* the budget, however often workers die or outlive their leases: only a   *)
(* person buys more, a budget for each answer or retry                     *)
(* (docs/architecture.md:60).                                              *)
CallsWithinBudget == \A k \in Spent : calls[k] <= Limit[k] * (1 + human)

(* The steps of a saved state have rising numbers, so that each of them    *)
(* has a row of its own in review_task_steps, also when a turn was lost    *)
(* with its worker, answered by a person or cut off by the budget.         *)
StepsRise ==
  saved # NoState =>
    \A i, j \in DOMAIN saved.steps : i < j => saved.steps[i] < saved.steps[j]

(* A question that was answered is not put again in the same run, so an    *)
(* answer sent twice or late finds another gate (agent.py:703-704).        *)
NoQuestionReopened == status = "waiting_input" => saved.gate \notin answered

(* A state saved with a report or a question is not worked on any more,    *)
(* not even by the successor of a worker that died before it could settle  *)
(* the task: only an answer or a retry changes it.                         *)
OutcomeIsKept ==
  [][saved # NoState /\ saved.status # "running" /\ saved' # saved =>
       status \in {"waiting_input", "failed"} /\ status' = "queued"]_vars

(* Every run comes to a report, a question or a failure.                   *)
EveryRunEnds ==
  status \in {"queued", "running"} ~> status \in {"waiting_input", "succeeded", "failed"}
=============================================================================
