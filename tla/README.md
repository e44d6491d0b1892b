# TLA+ verification of crosscomply-agent

CrossComply reviews cross-border data transfers: an applicant files a case with
materials and facts, an LLM Agent reviews it in a background worker, a person
answers the Agent's questions and works off its list of actions, and Feishu (an
external approval service) signs the outcome. Beside it run a Q&A assistant with a
queue of its own and a knowledge base that grows by what reviews find on the web.
This directory models the part of that where order, failure and concurrency decide
whether the result is right. Paths below are relative to the repository root.

## 1. The system

| Component | State it keeps | Operations | What makes it correct |
|---|---|---|---|
| Review task queue: `law_agent/review/enterprise_store.py` | `review_tasks`, `review_task_attempts`, `review_task_steps` | enqueue, claim + lease sweep, checkpoint, pause, complete, fail, record/resume answer, retry, supersede | one active task per case; only the newest attempt writes; the attempt ledger is exact; attempts are bounded; progress and final reviews are never lost |
| Review worker: `law_agent/review/worker.py` | the claimed task and attempt (in memory) | claim, `on_started`, run, then pause/complete/fail and the matching callback | every outcome reaches the case, once, and only if it is still due |
| Case lifecycle and API: `law_agent/review/http/cases.py`, `workflow.py`, `case_store.py` | `review_cases` (status, intake, result), case events | freeze, submit, status move, run, rereview, retry, recover action list, answer | approval only on a clear review; a running case has work; only current inputs are reviewed |
| Frozen inputs: `enterprise_store.py` | material and intake snapshots | freeze (idempotent by fingerprint) | what is reviewed is what was last confirmed |
| Fact confirmation: `law_agent/review/fact_confirmation.py` | a staged answer, then a new snapshot | stage, confirm (one transaction) | confirmed facts become the newest input and get a task |
| Agent loop: `law_agent/review/agent.py`, `agent_runtime.py` | `AgentState`: status, budgets, steps, gate, outcome | turn, tool call, ask, draft and check, abstain, answer | budgets hold over crashes; steps are numbered in order; a gate is answered once; the loop ends |
| Feishu approval: `http/integrations.py`, `api.py`, `governance_store.py`, `feishu.py` | delivery jobs, approval records, event log | create, retry, deliver, webhook | the case follows the record; a decision stands; every decision arrives |
| Remediation: `remediation.py`, `http/remediation.py`, `case_store.py` | plan, tasks, submissions, their assessments | save a review's list, plan by hand, start, submit, assess, answer, review, activate, cancel | no approval with a blocking action open; a plan completed has nothing open; verdicts stand |
| Q&A queue: `qa_store.py`, `qa_agent.py`, `http/qa.py` | conversations, runs, links to cases | ask, add material, claim + sweep, checkpoint, heartbeat, retry, hand off | one active run per conversation; no stale writer; an answer stands; a dead run is reported; one case per handoff |
| Knowledge enrichment: `kb/enrichment.py`, `kb/enrichment_worker.py`, `http/knowledge.py` | jobs, links of jobs to cases, notices | enqueue, mark impact, claim, transition, approve, reject, retry, notify | a published source reaches every case it matters to, and none is told before it is there |
| Knowledge publishing: `kb/service.py`, `kb/service_index.py`, `kb/admin.py` | corpus files, two stores (Elasticsearch, PostgreSQL), recycle bin | import, edit, remove, restore; stage, verify, switch, delete, compensate | retrieval finds one complete generation of a source; stores and files agree; nothing published is lost |
| Documents around a case: `revisions.py`, `annotations.py`, `matter_agent.py` and their `http/` modules | revision proposals and the working draft, annotations, turns of the matter conversation | draft, decide; annotate, follow up, judge; ask, plain or streamed | no accepted edit is lost; an acceptance is for the stored review; a turn is about the newest task; nobody is told otherwise than it is stored |
| Reports, retrieval, LLM client, users, CLI, frontend | text and CRUD | | not about order; see section 7 |

**How they interact.** The API is one uvicorn process (`docker-compose.yml:126`);
its handlers are `async` functions that call synchronous stores and, but for those
that ask a model (assessments, drafts, follow-ups, questions), do not await in
between, so at most one handler is in flight; but each store call is a transaction of its own and the workers, separate processes
(`docker-compose.yml:143-153`, `restart: unless-stopped`), run between any two.
A worker shares nothing with the API but the database. It claims work under a
lease and, in the review queue and the Q&A queue, names its attempt number in
every write; the enrichment queue has no such fence. After a review the worker
promotes the case, saves the list of actions and marks the web findings that
matter. Feishu is reached by HTTP and answers by webhook notices that it repeats
until they are acknowledged. Publishing a source holds one advisory lock, and
spans four files, two stores and the recycle bin without a transaction.

**What is hard here.** A handler's two transactions with a worker between them;
rows written back as they were read, over what happened since; a worker that
outlives its lease; a death after a task has committed and before its callback
has; callbacks that raise and are caught; two lock orders over the same tables;
events repeated and out of order; what was read before a model was asked, used
after it has answered; inputs replaced while a run goes on; a
compensation whose own calls fail; files truncated in place. `PROJECT.json` lists
each at its line, with the property that covers it or the reason none does.

## 2. The modules

| Module | Models | Composes |
|---|---|---|
| `TaskStore` | the queue's tables; one operator per store operation, one transaction each. The guard is the condition under which the operation does not raise | |
| `ReviewTasks` | the queue under free clients: several workers, leases, crashes, people who may call any operation whenever it accepts | `TaskStore` |
| `TaskLifecycle` | the abstract promise: a task's phase, a token per grant, and no effect of a holder whose token is not the newest | |
| `ReviewTasksProofs` | theorems about `ReviewTasks`: types, exclusion, the fence, final reviews, bounded attempts, the attempt ledger, progress, and that it implements `TaskLifecycle` | `ReviewTasks`, `TaskLifecycle` |
| `ReviewCase`, `ReviewCaseProofs` | the case status, the frozen inputs, the API handlers statement by statement, the worker's callbacks write by write, over the same queue | `TaskStore` |
| `AgentLoop`, `AgentLoopProofs` | one task's Agent run: turns, budgets, checkpoints, gates, and workers that crash or outlive their lease | |
| `ApprovalDelivery`, `ApprovalDeliveryProofs` | delivery, retry and webhook handlers write by write, Feishu, process deaths | |
| `QAConversations`, `QAConversationsProofs` | conversations and their leased runs: edits in two steps, claims that pass by their lock | |
| `EnrichmentJobs` | pages found on the web, their jobs, the cases to recheck and the notices | |
| `RemediationTasks`, `RemediationTasksProofs` | the plan of one case, its tasks, submissions and assessments, written by two processes with two lock orders | |
| `KnowledgePublishing` | publishing, removing and restoring a source: every call of a store and every file write, with failures, compensation and deaths | |
| `PublishedCorpus` | the abstract promise of publishing: the corpus as those who search see it, without generations, files, compensation or a bin | |
| `KnowledgeBaseProofs` | theorems about the two: what is found, what agrees and what is kept, that publishing implements `PublishedCorpus`; sources, rechecks and outcomes | `EnrichmentJobs`, `KnowledgePublishing`, `PublishedCorpus` |
| `CaseDocuments`, `CaseDocumentsProofs` | drafts, annotations and questions that await a model beside a review that goes on, in the outline it has for them | |
| `MC*` | TLC instances | |

Each `...Proofs` module EXTENDS what it is about and TLAPS. `KnowledgeBaseProofs` takes
both parts of the knowledge base, which share no state: the definitions both need
(`JobsInit`, `JobsNext`, `JobsSpec`, `JobsTypeOK`, ...) carry the prefix in `EnrichmentJobs`.

**State and code.** In `TaskStore` a task is identified by its idempotency key,
(case, frozen input). `status`, `attempt`, `lease`, `saved`, `result`, `attempts`,
`rows` are columns of the tables; `lease` is abstracted to none/live/lapsed, a
checkpoint to the number of its steps (numbered consecutively here: the number
that a turn lost to a crash leaves out is `AgentLoop`'s concern). `runs` (how
often a task was restarted) and `human` (how many answers and retries) are history
variables. `SELECT ... FOR UPDATE SKIP LOCKED` is the set `locked` a claim passes
over.

In `ReviewCase`, `api` is the handler in flight with the statement it is about to
make, and `worker[w]` the callback with the same; `Begin...` actions are the
handler up to its first write, with all its early returns as the guard. Handlers
inside `case_transaction` (confirming facts, staging an answer) are one action.
`Faults` switches crashes, raising callbacks, lapsing leases and `overtake` (a
whole Agent run between two statements of one handler) on and off.

In `AgentLoop`, `Call` chooses the tool and `Pay` writes the charge, before the
tool answers; a draft passes or fails its checks nondeterministically.

In `ApprovalDelivery`, `api` is the one handler in flight. A case here waits for
its approval and its newest task, hence the delivery's idempotency key, is fixed.

In `QAConversations`, `edit[c]` is an open transaction of `PostgresQAStore._edit`:
the load has locked the conversation and read its runs, which nothing locks
(`qa_store.py:181-204`), and `EditWrite` writes every run back as it was read, but
for the one that changed. `Claim` is the other transaction: it sweeps and takes
without the conversation's lock, passes over rows an edit is writing, and hands out
the first running run of the conversation rather than the one it took. A claim with
nothing to take rolls its sweep back and so is no step at all. `raced` is a history
variable: an edit wrote over a claim of this run.

In `EnrichmentJobs` every operation of the store is one action, except
`mark_impact`: `MarkImpact` reads the jobs, `MarkCommit` commits what was read. A
page is abstracted to whether it is an indexed source already, can be verified, or
cannot. `told`, `raced` and `late` are history variables: a message reached the
messenger, a job settled while `mark_impact` ran, a worker wrote a job after its
lease had passed. The staged file and its hash are left out.

In `RemediationTasks`, `sync` is the worker's save of a review's list, which locks
the plan and then the tasks, and `api` the handler in flight, which locks a task
and then the plan (`case_store.py:579`, `:821`); where each waits for the other one
is aborted and rolled back. An assessment is the one call a handler awaits, so
assessments run beside everything; they are counted per submission. `stale` is a
history variable: the plan was written from a count made before a new list.

In `KnowledgePublishing` every call to a store and every file written is an action
with three outcomes: done, done with the answer lost, failed. `op` is the operation
that holds the lock, `op.failing` says that it compensates. `Die` ends it anywhere
and empties a manifest or chunk file that was being written (`data/io.py:25`).
`made`, `verified`, `torn`, `last` are history variables: what each generation was
made of, which were found complete in both stores, which sources a death or a
failed compensation left half done, what was last published of each. Restoring
reads its archive and clears it outside the lock in the code; here it does so under
it, so two operations on one archive are not in the model. A death tears the source at
work unless nothing of it was touched yet, or only its archive is still to be cleared
(`HalfDone`).

`PublishedCorpus` knows the document of each source, what either store finds of it, the
source worked on and the sources left broken. Work commits when both stores find the new
document, is given up when both find the old one again, and in between a store finds the
old, the new or none; nobody else is disturbed. Of a broken source it promises nothing
until it is published or removed again. `KnowledgePublishing` maps to it what was made
of the generations found (`Found`), the chunk files (`InCorpus`: of the source at work,
as they were when it began), the operation until its last file is written or its last
row deleted (`UnderWay`), and `torn`. Clearing an archive and deleting an old generation
come after the commit and are stutters.

In `CaseDocuments` a text is what stands at each of its spots, the original or the
words of an accepted proposal; a hash compares texts. `call[r]` is what a handler
read before it awaits the model, `api` what the handler in flight has read before its
next transaction, `question[q]` the place of a question: the model answers
(`Reply`), the stream pulls the answer and starts the transaction (`Pull`), which
ends although the client has left (`Leave`). The review is an outline: the newest task
and its phase, whether it runs on the newest input, the number of the stored
result, the task of the last `review_completed` event.

## 3. What is checked

| Run | Shows | Bounds |
|---|---|---|
| `task_queue` | `OneActiveTaskPerCase`, `AttemptLedger`, `ProgressKept`, `FinalReviewStands` | 1 case, 2 inputs, 2 workers, 2 automatic attempts, 1 step, 1 answer or retry per task |
| `task_queue_live` | `EveryTaskSettles`, and the queue implements `TaskLifecycle` | as above, without steps |
| `case_faults` | `PendingOnClearReview`, `ConfirmedFactsAreNewest` with crashes, raising callbacks and lapsing leases | 1 case, 2 facts, 2 freezes, 2 workers, 1 automatic attempt, no answer or retry; symmetry over facts and workers |
| `case_clean` | `OnlyNewestIsRetried`, `RunningCaseSettles` without faults | 1 case, 2 facts, 2 freezes, 1 worker, 1 automatic attempt, 1 answer or retry |
| `approval` | `CaseFollowsRecord`, `EveryDecisionReachesCase`, `ApprovedPlanActivates` | 1 case, 2 payloads, 1 notice per decision, 2 deaths |
| `agent_loop` | `CallsWithinBudget`, `StepsRise`, `NoQuestionReopened`, `OutcomeIsKept`, `EveryRunEnds` | 1 tool with budget 2, 2 turns, 2 attempts, 1 answer or retry, 2 workers |
| `qa_queue` | `OneActiveRun`, `FencedUnlessRaced`, `OneCasePerHandoff`, `QuestionTaken`, `LapsedReportedWithWork` | 2 conversations, 3 questions, 1 handoff, 2 workers, 2 claims of a run, 3 edits by users |
| `enrichment` | `RecheckRestsOnSource`, `NoRecheckForgotten`, `OutcomeStandsUnlessLate`, `JobEnds`, `NoticeReaches` | 1 page, 1 case reviewed twice, 2 workers |
| `remediation` | `PlanCompletedMeansDone`, `NothingBlocksApproval`, `TaskFollowsAnswers` | 1 fact to confirm, 1 planned control, 2 submissions of each, 2 runs of an assessment |
| `knowledge` | `OnlyVerifiedFound`, `StoresAgree`, `AlwaysFindable`, `NothingLost`, and publishing implements `PublishedCorpus` | 2 sources, 2 texts, 1 record, 1 archive, 2 generations; symmetry over sources |
| `case_documents` | `WorkingDraftStands`, `ToldTruly`, `AcceptedOnStoredReview`, `TurnsOnNewestTask` | 1 material with 2 passages, 2 issues, 1 annotation, 2 proposals, 1 question, 1 request for a draft or a follow-up at a time, 2 tasks, 2 reviews, any 2 rows; symmetry over proposals |
| `case_stranded` | a finding, see below | 1 worker, raising callbacks |

**Why the bounds are enough.** The queue's conflicts are between two tasks of one
case and two workers on one task; a second case adds only claims in another order.
Two automatic attempts reach both verdicts of the sweep, two workers the stale
writer, one human action a resumption or a retry. In `ReviewCase` two facts and
two freezes give a replaced input and a return to an older one; late callbacks
(two workers, faults, no human action) and answers and retries (one worker, no
faults) are split over two runs, because together they exceed what one run can
explore. In `ApprovalDelivery` cases share nothing but the one process, so one
case and two deaths reach every recovery path; four decisions can each be sent,
repeated and contradicted.

In `QAConversations` the second conversation brings the work that lets a claim
commit its sweep; three edits reach a question, a retry and one that races a claim.
In `EnrichmentJobs` jobs meet only where one url has two texts; the instance with
two jobs was checked once (6.7 million states, no error) and is not kept for its
size. `RemediationTasks` was checked once each with a fact, a recommendation for
after the approval and a planned control (1.8 million states), a fact and a gap
with two runs (6.1 million), a fact and a recommendation with two submissions, and
a fact with three. Two sources, two texts and two generations of
`KnowledgePublishing` reach a replacement, a duplicate, and an archive beside a
published source; one source with two records and three generations (22 million
states) was checked once.

In `CaseDocuments` edits meet on one material, and two passages let one edit leave
the other standing; the second review is the one a worker stores between a handler's
reading and its transaction. Every two of the rows meet (1.2 million states); with
one issue and any three rows, among them two proposals beside the annotation one of
them answers, it was checked once (4.7 million states, no error).

Counters that would grow without end (`MaxHuman`, `MaxCrashes`, `MaxSteps`,
`MaxTurns`, `MaxFrozen`, `MaxAttempts`, `MaxCalls`, `MaxReviews`, `MaxSubs`,
`MaxRuns`, `MaxGens`, `MaxRows`, `MaxTasks`) are bounds named in the modules. `CHECK_DEADLOCK FALSE`
stands where the system may stop: a run of the Agent that has ended stays ended,
and where only users bring new work (`qa_queue`, `enrichment`, `remediation`,
`knowledge`, `case_documents`) they may bring none. `case_faults` uses symmetry over
facts and workers, `case_documents` over proposals, `knowledge` over sources, which no
definition tells apart; they check no liveness. The type
invariants of all modules are proved for every instance (section 5) and take no run;
so do the properties of section 5 that no run lists, among them `CompletedStands` and
the two `DecisionStands`, which TLC confirmed on the instances above before they were
proved.

**What disagrees with the documents.** One run ends in a counterexample; it is a
finding in `PROJECT.json`.

- `case_stranded`: `on_succeeded` raises, the exception is caught
  (`worker.py:106-113`), and the case stays `review_running` with no way out,
  the very thing the comment above it says is prevented.

**Known disagreements without a run.** Each is a property of a module that TLC
refutes with the configuration given.

- `SignedOnClearReview` (`MCReviewCase`, `MaxHuman = 0`, two workers, no faults,
  symmetry): the parking of a case whose action list failed (`worker.py:265`) and
  the webhook's write (`integrations.py:176`) both name no expected status. The
  late promotion of an older run's clear review fits the running case, the webhook
  reads it pending, the newer run parks the case with its incomplete review, and
  the webhook signs that. `PendingOnClearReview` holds all along: it is the
  signature that comes too late.
- `SignedStands` (`MCReviewCase`, `MaxHuman = 1`, one worker, no faults, as for the
  next two): `on_started` writes `review_running` without an expected status
  (`worker.py:236`) and can overwrite a signed outcome (`docs/architecture.md:80`).
- `NoStaleQuestionResumed`: freezing closes the questions waiting then; a run that
  still executes asks one about the older input later, and its answer resumes it
  (`http/cases.py:435`, `:752`).
- `FreezeTakesEffect`: facts changed A, B, A and frozen again keep A's old place in
  time (`enterprise_store.py:758`), so the newest snapshot stays B's, and submitting
  tells the applicant to freeze again, which never helps (`http/cases.py:565`).
- `EveryStepRecorded` (`MCReviewTasks.cfg`, as PROPERTY): after a retry the new
  run's steps are numbered like the old run's rows and `checkpoint_agent` skips them
  (`enterprise_store.py:1132`), though `docs/architecture.md:93` promises an
  append-only record of every step.
- `Fenced` (`MCQAConversations`, `Spec`, as INVARIANT): an edit that read a run
  before a claim writes it back as queued, and the next claim gives the same attempt
  number to a second worker (`qa_store.py:190`; `tests/test_qa.py:135` expects the
  fence to hold). `FencedUnlessRaced` is what is left.

- `LapsedReported` (`MCQAConversations`, as PROPERTY): `claim` marks lapsed runs
  failed and then, when nothing is queued, rolls that back (`qa_store.py:298-300`),
  though its docstring promises the marking first (`:268`) and
  `tests/test_qa.py:151-159` expects it of the store in memory. The last run of a
  dead worker stays running and blocks its conversation until somebody else asks
  something. `LapsedReportedWithWork` holds: with a question to take, the sweep
  commits.

Found on the way, by reading, and not stated as properties:

- a plan counted complete under a task's lock is written after the wait for its own,
  over a list saved in between (`case_store.py:844`; `stale` in `RemediationTasks`);
- a removal that fails between the two stores leaves a source that importing the
  same file skips as a duplicate (`kb/service.py:530`);
- a copy left by a failed import sorts before some originals and is archived in
  their place (`kb/admin.py:163`), and a restored archive is picked by its random
  name (`kb/admin.py:334`);
- a JSON source whose original is named `source.json` has it overwritten in its
  archive by the record of the same name (`kb/admin.py:287-292`), which a restore
  passes over, and so finds no original (`kb/admin.py:338`);
- the command line publishes without the corpus lock, which only `kb/admin.py:40-45`
  takes (for the calls at `:208`, `:251` and `:279`);
- a worker may store the next review between the reading of a handler and its
  write: an annotation of the old review is then still judged, although
  `http/annotations.py:177` refuses that 「案件已重新审查，旧追审批注不能再确认」, and a
  follow-up of the old review is still stored (`:154`); both rows name their review
  and are no longer listed;
- a stream whose client leaves while the turn is stored stores it
  (`http/matter.py:127`), unlike one that leaves before;
- `README.md:107` calls the switch atomic (「校验后原子切换」); it is two calls to one
  store and a transaction of the other;
- the documented budgets (8 reads, 2 web searches, `docs/architecture.md:60`) and
  the code's (10 and 5, `agent.py:190-193`) differ, and so do the lease times
  (30 minutes, `enterprise_store.py:21`; two hours, `docs/architecture.md:93`).

## 4. Fairness

Review workers poll in a loop and are restarted by their container: weak fairness
of claiming. A run makes at most its budget of turns and every call has a timeout:
weak fairness of its end, in any of its ways, a crash included. A lease is a point
in time: weak fairness of its lapse when nobody renews it. Handlers are
straight-line code: weak fairness of the next statement (a death of the process
is an action without fairness). Feishu repeats a notice until it gets a 200, and
other requests keep the process busy only now and then: strong fairness of taking
in a notice not acknowledged.

Q&A: weak fairness of some worker's claim and of some open transaction's end.
Waiting for a conversation's row is first come, first served, and other
transactions take it in between: strong fairness of some execution's end.
Enrichment: strong fairness of claiming and finishing a job (other work and lost
downloads interrupt them), of claiming due notices and of the messenger taking one,
which works now and then; weak fairness of lapsing.

People (answers, retries, questions, approvals, curators) are never fair, and
neither is a death, a failure or a lost answer. `RemediationTasks`,
`KnowledgePublishing` and `CaseDocuments` assume no fairness and check safety only: everything that
goes on there is asked for by people.

## 5. What is proved

Each theorem holds for every value of the constants and every bound, from the
assumptions stated beside the constants.

`ReviewTasksProofs`, of the queue:

- `TypeCorrect`. The type invariant is inductive as it stands.
- `OneActive`: at most one active task per case. Inductive with the types: a step
  either makes no inactive task active, or makes one active beside which there is
  no other (the partial unique index).
- `FenceSeparates`: no two workers hold one attempt of a task. The strengthening
  `HeldInv` adds that every attempt a worker holds was really given and is not
  above the task's count; counts only grow, so a claim gives a number nobody has.
- `FinalReviewsStand` and `ProgressIsKept`, two action properties. The second
  needs `Ahead`: the worker whose writes the store accepts knows every step saved.
- `AttemptsBounded`: `AttemptsLeft` says a queued task still has an attempt, of
  its own or bought by a person, and one never queued has none behind it.
- `LedgerAgrees`: closing the current row and appending a new one are shown to
  keep "one row per attempt, the newest open iff the task runs" (`Agrees`).
- `QueueImplementsLifecycle`: every step of the queue is a step of `TaskLifecycle`,
  with a worker's attempt number as its token, or leaves the lifecycle alone.

`ReviewCaseProofs`, of the case over the same queue, with any set of `Faults`,
`overtake` included:

- `TypeCorrect`. `Typed` goes with `Reviewed`: a task that has succeeded has a
  result.
- `PendingReviewIsClear`: what waits for approval has a clear review. `PendingInv`
  says what a callback (`WorkersCarry`) and a handler (`CallCarries`) carry from
  their reading to their write, and that a final review is never written again.
- `ConfirmedFactsWin`: confirmed facts are the newest frozen input. `FrozenInv`:
  a confirmed input names as many snapshots as were frozen before it, every
  task's input is frozen, and so is the one a handler carries (`FrozenOK`,
  `Known`, `CallKnown`).
- `NewestIsRetried`: only the newest task on the newest input is retried.

`ApprovalDeliveryProofs`:

- `DeliveryTypeCorrect`. The strengthening `Typed` knows that a handler in flight
  has a case, and a webhook an event.
- `SucceededDeliveryIsBound`. `Bound` adds what the handler knows between Feishu's
  answer and the closing of the job: that the instance, then the record, exists.
- `CaseAgreesWithRecord`. `Agreed` adds that the events of a record agree with its
  status and that the webhook writes only a decision that was recorded, by it or
  by an earlier delivery of the same notice that died.
- `RecordedDecisionStands`: no step replaces a decision of a record or a case.

`AgentLoopProofs`, with workers that die or outlive their lease:

- `LoopTypeCorrect`, from `Typed`: a worker at work has a state, and only one that
  decides has a call still to make.
- `OutcomesAreKept`. `Fence` says that the one worker whose writes are accepted
  has in memory what is saved, and works between checks on a running state.
- `GatesAnsweredOnce`. `Gates`: gates are turns, every answer takes a turn, so the
  gates answered are below any turn to come.
- `StepsNeverCollide`. `Steps`: before its end a state has no step after its turn,
  and within a turn none of that turn yet.
- `BudgetsHold`. `Accounts`: calls made, calls paid for but not made, and what is
  left of the current budget never exceed what people granted.

`QAConversationsProofs`: one invariant, of the rows (`RowsOK`: one active run, a
queued one with an attempt left, a completed one with its result), the open edits
(`EditsOK`: what they read is what is there, but for claims they raced), the
workers (`WorkersOK`: none is at an attempt ahead of its row's, unless raced) and
the links to cases. From it `OneActiveRunHolds`, `FencedUnlessRacedHolds`,
`HandedOffAnsweredHolds`, `OneCasePerHandoffHolds` and `CompletedStandsHolds`.

`RemediationTasksProofs`: `AnswersOK` (a task and its newest submission), `CallOK`
(what the handler in flight has read of its task still holds), `CountOK` (a count
of open tasks is right unless a new list came after it) and `CaseOK` (a case on its
way to approval has a plan and nothing blocks it). From them
`TaskFollowsAnswersHolds`, `PlanCompletedMeansDoneHolds`,
`NothingBlocksApprovalHolds` and `DecisionStandsHolds`.

`CaseDocumentsProofs`, for any number of proposals, passages, questions and reviews:

- `DocumentTypeCorrect`. Inductive with `JudgeOK`: an annotation that is being judged
  is stored. The code judges what a handler has just read.
- `WorkingDraftAlwaysStands`. That every accepted edit is in the draft is not inductive
  alone: `DraftInv` adds `VersionsOK` (accepted versions of a material differ, and one of
  them is the newest, so that "the draft" means one text) and `CallOK` (what was asked
  of the model before anything was accepted was the original). An edit replaces one
  passage of the text it was drafted on; since accepting compares that text and its
  version with the draft's, the passages of the others stay.
- `AskersAreToldTruly`. `ToldInv` adds `Unstored`: no turn is stored while a question is
  still asked, up to the moment of the transaction that stores it, so a deadline or a
  refusal that comes first leaves nothing behind.
- `AcceptanceIsCurrent`, `TurnsAreCurrent`: two action properties; the comparison is made
  in the transaction that writes, so they follow from the types.

`KnowledgeBaseProofs`, of publishing, with any number of sources and generations, any
failure, lost answer or death:

- `OnlyVerifiedFoundHolds`: whatever retrieval finds was found complete in both stores.
  `FoundInv` adds `SwitchesVerified`: the generations an operation may switch on (its
  target, the old one, the previous one) were verified, and a store is emptied before
  one is switched on in it.
- `StoresAndFilesAgree` and `PublishedStaysFindable`, from `AgreeInv`. The properties say
  nothing of the source at work, which is where compensation must find its way back, so
  the invariant says at each step what is done and what can still be undone: which
  generation either store finds (`EarlyOK`, `SwitchOK`), which files are written
  (`PublishedOK`, `RemovedOK`, `FilesOK`), what a compensation has left to do
  (`UndoOK`), and that no other source is touched (`OthersAgree`). A generation's
  number is given once (`GenOK`), so dropping the new rows never drops the old.
- `PublishedIsNotLost`, from `LastInv`: the source at work is kept by the files as they
  were before (`KeptIn(op.snap, ...)`) until its publication ends; a removed one is in the bin
  before its first file goes, and an archive is cleared only of a source that is in
  the corpus (`LastOf`). This needs `Nothing` to be no archive (`ValuesAssumption`).
- `PublishingImplementsCorpus`: every step is a step of `PublishedCorpus` or a stutter.
  `AgreeInv` already ties what is found to the files (`AgreedFound`); `SightOK` adds what
  either store finds where agreement needs no answer: in `esOff` and `backOff`, while
  an old generation is deleted, and before the last delete. From it `OldOrNew`: a whole
  source at work is found as the old or the new document. A step that commits nothing
  `Bears` the corpus along; `WriteRaw` and `DeletePg` commit.

And of enrichment: `SourcesOK` (a source is in the knowledge base before
anything says so), `WaitsOK` (what a `mark_impact` in flight leaves waiting does
wait, or was raced) and `HoldersOK` (a worker within its lease has its job to
itself, unless a late one wrote it). From them `RecheckRestsOnSourceHolds`,
`NoRecheckForgottenHolds`, `RecheckIsInHistoryHolds` and `OutcomeStandsHolds`.

The constants `None` of `CaseDocuments` and `Nothing` of `KnowledgePublishing` stand for
the absence of a value; the assumptions about them say only that they are not values.

## 6. Model-checked only

Every invariant and every action property that a passing run checks is proved as well.
What is left to TLC is liveness, which rests on fairness and ENABLED, which the prover
does not handle: `EveryTaskSettles`, `RunningCaseSettles`, `EveryDecisionReachesCase`,
`ApprovedPlanActivates`, `EveryRunEnds`, `QuestionTaken`,
`LapsedReportedWithWork`, `JobEnds`, `NoticeReaches`.

## 7. Limits

- `RunningCaseSettles` holds without faults only. With them a case can be left
  running: a task given up by the sweep never calls `on_failed`
  (`enterprise_store.py:1308`), a death between `complete_task` and `on_succeeded`
  is not repaired. `case_stranded` shows the one the code claims to prevent.
- The fault `overtake` is off in every configuration: a whole Agent run makes
  several model calls, a handler's next statement follows in milliseconds. With it
  on, `queue_review`'s unguarded mark can overwrite an outcome, and a run can
  overtake the webhook's write. The proofs about `ReviewCase` cover it.
- `ReviewCase` signs a case with the webhook's read and write as two steps and
  leaves records and events to `ApprovalDelivery`; there the case's other handlers
  are left out, since a case pending approval accepts none of them.
- `CaseDocuments` has its own outline of a review, in which results are stored
  more freely than `ReviewCase` stores them: its properties hold for any order of
  results.
- **Not modelled.** The definitions stand for about an eighth of the Python lines.
  The rest has no order of events to get wrong: prompts and the parsing of what
  models answer, citations and reports (functions of a model's output, whose verdict
  is a choice in `AgentLoop`), query planning, ranking and evaluation, extraction of
  text from files, the scripts that prepare the corpus, the HTTP clients (a call that
  fails is the failure of a step), users, sessions and templates (rows written once,
  behind role checks: any permitted user acts), creating cases and uploading
  material, read-only endpoints, the command line and the frontend.

## 8. Plan

Done: the review queue and its promise, the case around it, the approval round trip,
the Agent loop, the Q&A queue, enrichment, remediation, publishing and its promise, and
the documents around a case, each checked and proved about.

Left: the composition of `ReviewCase` with `ApprovalDelivery` through `WriteBack`, and of
`CaseDocuments` with `ReviewCase` through the stored result.
