---------------------------- MODULE EnrichmentJobs ----------------------------
(***************************************************************************)
(* The knowledge enrichment queue (kb/enrichment.py, kb/enrichment_worker  *)
(* .py): official pages a review found on the web are downloaded, verified *)
(* and published as sources; the cases a page matters to are then told to  *)
(* be rechecked.  Reviews (review/worker.py), curators (http/knowledge.py) *)
(* and workers share the jobs and the links of jobs to cases.              *)
(*                                                                         *)
(* Each operation of the store is one transaction and one action, except   *)
(* mark_impact: its UPDATE reads the jobs as they were when it began, and  *)
(* a job may settle before it commits.                                     *)
(***************************************************************************)
EXTENDS Integers, FiniteSets

CONSTANTS
  Jobs,           \* findings of one url and one text each
  Urls,
  UrlOf,          \* the canonical url of a job
  Cases,
  Workers,
  NoJob,
  MaxReviews      \* bound: reviews of one case that search the web

ASSUME UrlAssumption == UrlOf \in [Jobs -> Urls]
ASSUME NoJobAssumption == NoJob \notin Jobs
ASSUME ReviewsAssumption == MaxReviews \in Nat

VARIABLES
  job,        \* knowledge_enrichment_jobs
  link,       \* knowledge_enrichment_cases, by job and case
  events,     \* knowledge_recheck_pending events, by job and case
  kb,         \* urls with a published legal source
  review,     \* the review of a case: its task, and mark_impact in flight
  worker,     \* what run_once of a worker has claimed
  told,       \* history: links whose message reached the messenger
  raced,      \* history: links whose job settled while mark_impact ran
  late        \* history: jobs a worker wrote after its lease had lapsed

jobsVars == <<job, link, events, kb, review, worker, told, raced, late>>

-----------------------------------------------------------------------------

JobStatus == {"absent", "queued", "running", "awaiting_review", "approved",
              "rejected", "published", "unchanged", "failed"}
Settled == {"published", "unchanged"}
Leases == {"none", "live", "lapsed"}
Retries == 2    \* attempt_count only matters below it and is not counted further

Job == [status : JobStatus, attempt : 0 .. Retries, lease : Leases, source : BOOLEAN]
Links == Jobs \X Cases
Link == [task : 0 .. MaxReviews, material : BOOLEAN,
         recheck : {"not_required", "waiting_source", "pending"},
         notice : {"not_required", "pending", "sending", "sent"}, lease : Leases]

NewJob == [status |-> "queued", attempt |-> 0, lease |-> "none", source |-> FALSE]
NewLink == [task |-> 0, material |-> FALSE, recheck |-> "not_required",
            notice |-> "not_required", lease |-> "none"]
Idle == [job |-> NoJob, source |-> FALSE, attempt |-> 0, ingested |-> FALSE,
         late |-> FALSE, notices |-> {}]
NoReview == [pc |-> "idle", task |-> 0, urls |-> {}, seen |-> {}]

JobsInit ==
  /\ job = [j \in Jobs |-> [NewJob EXCEPT !.status = "absent"]]
  /\ link = [l \in Links |-> NewLink]
  /\ events = {}
  /\ kb = {}
  /\ review = [c \in Cases |-> NoReview]
  /\ worker = [w \in Workers |-> Idle]
  /\ told = {}
  /\ raced = {}
  /\ late = {}

-----------------------------------------------------------------------------
(* The reviews: enqueue while one runs, mark_impact when it has succeeded. *)
StartReview(c) ==
  /\ review[c].pc = "idle" /\ review[c].task < MaxReviews
  /\ review' = [review EXCEPT ![c].pc = "running", ![c].task = @ + 1]
  /\ UNCHANGED <<job, link, events, kb, worker, told, raced, late>>

Enqueue(c, j) ==
  /\ review[c].pc = "running"
  /\ job' = IF job[j].status = "absent" THEN [job EXCEPT ![j] = NewJob] ELSE job
  /\ link' = [link EXCEPT ![<<j, c>>].task = review[c].task]
  /\ UNCHANGED <<events, kb, review, worker, told, raced, late>>

(* The review failed, or what it found on the web changed nothing in it.   *)
NoImpact(c) ==
  /\ review[c].pc = "running"
  /\ review' = [review EXCEPT ![c].pc = "idle"]
  /\ UNCHANGED <<job, link, events, kb, worker, told, raced, late>>

(* mark_impact begins: the snapshot of its UPDATE ...                      *)
MarkImpact(c, urls) ==
  /\ review[c].pc = "running" /\ urls # {}
  /\ review' = [review EXCEPT ![c].pc = "marking", ![c].urls = urls,
                              ![c].seen = {j \in Jobs : job[j].status \in Settled}]
  /\ UNCHANGED <<job, link, events, kb, worker, told, raced, late>>

(* ... and its commit.  The rows of links are checked again as they are.   *)
Impacted(c, l) ==
  /\ l[2] = c /\ link[l].task = review[c].task /\ UrlOf[l[1]] \in review[c].urls
  /\ link[l].recheck \in {"not_required", "waiting_source"}

Marked(c, l) ==
  IF l[1] \in review[c].seen
  THEN [link[l] EXCEPT !.material = TRUE, !.recheck = "pending", !.notice = "pending"]
  ELSE [link[l] EXCEPT !.material = TRUE, !.recheck = "waiting_source",
                       !.notice = "not_required"]

(* The events of links to be rechecked, inserted once (their id is made of *)
(* the job and the case).                                                  *)
Announced(ls, rows) == {l \in ls : rows[l].recheck = "pending"}

MarkCommit(c) ==
  /\ review[c].pc = "marking"
  /\ link' = [l \in Links |-> IF Impacted(c, l) THEN Marked(c, l) ELSE link[l]]
  /\ events' = events \cup Announced({l \in Links : l[2] = c}, link')
  /\ review' = [review EXCEPT ![c] = [NoReview EXCEPT !.task = review[c].task]]
  /\ UNCHANGED <<job, kb, worker, told, raced, late>>

-----------------------------------------------------------------------------
(* The curators.                                                           *)
Decide(j, from, row) ==
  /\ job[j].status = from
  /\ job' = [job EXCEPT ![j] = row]
  /\ UNCHANGED <<link, events, kb, review, worker, told, raced, late>>

Approve(j) == Decide(j, "awaiting_review", [job[j] EXCEPT !.status = "approved", !.source = TRUE])

Reject(j) == Decide(j, "awaiting_review", [job[j] EXCEPT !.status = "rejected"])
Retry(j) == Decide(j, "failed", [job[j] EXCEPT !.status = "queued"])

-----------------------------------------------------------------------------
(* run_once, the job: an approved one first, else the oldest queued one    *)
(* that is due or running one whose lease lapsed (the oldest: any here).   *)
(* Mutant: jobs of dead workers are left alone.                            *)
ClaimableQueued(j) ==
  \/ job[j].status = "approved"
  \/ job[j].status = "queued" /\ \A i \in Jobs : job[i].status # "approved"

(* Mutant: a running job is taken whatever its lease.                      *)
ClaimableRunning(j) ==
  \/ job[j].status = "approved"
  \/ /\ \A i \in Jobs : job[i].status # "approved"
     /\ job[j].status \in {"queued", "running"}

Claimable(j) ==
  \/ job[j].status = "approved"
  \/ /\ \A i \in Jobs : job[i].status # "approved"
     /\ \/ job[j].status = "queued"
        \/ job[j].status = "running" /\ job[j].lease = "lapsed"

Claim(w) ==
  /\ worker[w].job = NoJob /\ worker[w].notices = {}
  /\ \E j \in Jobs :
       /\ Claimable(j)
       /\ job' = [job EXCEPT ![j].status = "running", ![j].lease = "live",
                             ![j].attempt = IF @ < Retries THEN @ + 1 ELSE @]
       /\ worker' = [worker EXCEPT ![w].job = j, ![w].source = job[j].source,
                                   ![w].attempt = job[j].attempt]
  /\ UNCHANGED <<link, events, kb, review, told, raced, late>>

(* The links a job that settles makes pending.                             *)
(* Mutant: only a new version of a source asks for rechecks.               *)
ReleasedByPublish(j, status, l) ==
  l[1] = j /\ status = "published" /\ link[l].material /\ link[l].recheck = "waiting_source"

Released(j, status, l) ==
  l[1] = j /\ status \in Settled /\ link[l].material /\ link[l].recheck = "waiting_source"

(* transition, by whoever holds a copy of the job: nothing is compared.    *)
Transition(w, status, source) ==
  LET j == worker[w].job
      rows == [l \in Links |->
                 IF Released(j, status, l)
                 THEN [link[l] EXCEPT !.recheck = "pending", !.notice = "pending"]
                 ELSE link[l]]
      own == IF status \in Settled THEN {l \in Links : l[1] = j} ELSE {}
  IN
  /\ j # NoJob
  /\ job' = [job EXCEPT ![j].status = status, ![j].lease = "none", ![j].source = source]
  /\ link' = rows
  /\ events' = events \cup Announced(own, rows)
  /\ raced' = raced \cup {l \in own : review[l[2]].pc = "marking" /\ j \notin review[l[2]].seen}
  /\ late' = IF worker[w].late THEN late \cup {j} ELSE late
  /\ worker' = [worker EXCEPT ![w] = Idle]
  /\ UNCHANGED <<kb, review, told>>

Undecided(w) == worker[w].job # NoJob /\ ~worker[w].ingested

(* The page is, as it is, an indexed source.                               *)
Unchanged(w) ==
  /\ Undecided(w)
  /\ UrlOf[worker[w].job] \in kb
  /\ Transition(w, "unchanged", TRUE)

(* No source can be told for sure, or it overlaps one in force: to review, *)
(* without the source a curator may have given.                            *)
Unsure(w) ==
  /\ Undecided(w)
  /\ worker[w].source => UrlOf[worker[w].job] \in kb
  /\ Transition(w, "awaiting_review", FALSE)

(* Mutant: the job is reported published before the source is indexed.     *)
IngestLater(w) ==
  /\ Undecided(w)
  /\ worker' = [worker EXCEPT ![w].ingested = TRUE]
  /\ UNCHANGED <<job, link, events, kb, review, told, raced, late>>

Ingest(w) ==
  /\ Undecided(w)
  /\ kb' = kb \cup {UrlOf[worker[w].job]}
  /\ worker' = [worker EXCEPT ![w].ingested = TRUE]
  /\ UNCHANGED <<job, link, events, review, told, raced, late>>

Publish(w) == worker[w].ingested /\ Transition(w, "published", TRUE)

(* Any exception, of the network or not, the transaction of a transition   *)
(* lost included.                                                          *)
Fail(w) ==
  \/ worker[w].attempt < Retries /\ Transition(w, "queued", FALSE)
  \/ Transition(w, "failed", FALSE)

Finish(w) == Unchanged(w) \/ Unsure(w) \/ Publish(w) \/ Fail(w)

-----------------------------------------------------------------------------
(* run_once, the notices: claim_notifications takes those due.             *)
(* Mutant: a notice whose sender died is not due.                          *)
DueOnce(l) == link[l].notice = "pending"

Due(l) ==
  \/ link[l].notice = "pending"
  \/ link[l].notice = "sending" /\ link[l].lease = "lapsed"

ClaimNotices(w, ls) ==
  /\ worker[w].job = NoJob /\ worker[w].notices = {}
  /\ ls # {} /\ \A l \in ls : Due(l)
  /\ link' = [l \in Links |-> IF l \in ls THEN [link[l] EXCEPT !.notice = "sending", !.lease = "live"]
                                          ELSE link[l]]
  /\ worker' = [worker EXCEPT ![w].notices = ls]
  /\ UNCHANGED <<job, events, kb, review, told, raced, late>>

(* mark_notification, of the message sent or of the failure to send it or  *)
(* to mark it: nothing is compared.                                        *)
Notify(w, l, notice, reached) ==
  /\ l \in worker[w].notices
  /\ link' = [link EXCEPT ![l].notice = notice, ![l].lease = "none"]
  /\ told' = IF reached THEN told \cup {l} ELSE told
  /\ worker' = [worker EXCEPT ![w].notices = @ \ {l}]
  /\ UNCHANGED <<job, events, kb, review, raced, late>>

Sent(w, l) == Notify(w, l, "sent", TRUE)
NotSent(w, l) == \E reached \in BOOLEAN : Notify(w, l, "pending", reached)

-----------------------------------------------------------------------------
(* The process of a worker dies, or run_once raises and ends it.           *)
WorkerDies(w) ==
  /\ worker[w] # Idle
  /\ worker' = [worker EXCEPT ![w] = Idle]
  /\ UNCHANGED <<job, link, events, kb, review, told, raced, late>>

(* Fifteen minutes pass on a job, two on a notice.                         *)
JobLapses(j) ==
  /\ job[j].status = "running" /\ job[j].lease = "live"
  /\ job' = [job EXCEPT ![j].lease = "lapsed"]
  /\ worker' = [w \in Workers |-> IF worker[w].job = j THEN [worker[w] EXCEPT !.late = TRUE]
                                                       ELSE worker[w]]
  /\ UNCHANGED <<link, events, kb, review, told, raced, late>>

NoticeLapses(l) ==
  /\ link[l].lease = "live"
  /\ link' = [link EXCEPT ![l].lease = "lapsed"]
  /\ UNCHANGED <<job, events, kb, review, worker, told, raced, late>>

JobsNext ==
  \/ \E c \in Cases : StartReview(c) \/ NoImpact(c) \/ MarkCommit(c)
  \/ \E c \in Cases, j \in Jobs : Enqueue(c, j)
  \/ \E c \in Cases, urls \in SUBSET Urls : MarkImpact(c, urls)
  \/ \E j \in Jobs : Approve(j) \/ Reject(j) \/ Retry(j) \/ JobLapses(j)
  \/ \E w \in Workers : Claim(w) \/ Ingest(w) \/ Finish(w) \/ WorkerDies(w)
  \/ \E w \in Workers, ls \in SUBSET Links : ClaimNotices(w, ls)
  \/ \E w \in Workers, l \in Links : Sent(w, l) \/ NotSent(w, l)
  \/ \E l \in Links : NoticeLapses(l)

JobsSpec == JobsInit /\ [][JobsNext]_jobsVars

(* Some worker polls, and downloads end; a lease runs out when nobody      *)
(* answers; the messenger works now and then; and a worker ends its batch  *)
(* of notices.  Nothing is assumed of curators and reviews.                *)
Fairness ==
  /\ \A j \in Jobs :
       /\ SF_jobsVars(\E w \in Workers : worker[w].job = NoJob /\ Claim(w) /\ worker'[w].job = j)
       /\ SF_jobsVars(\E w \in Workers : worker[w].job = j /\ Finish(w))
       /\ WF_jobsVars(JobLapses(j))
  /\ \A l \in Links :
       /\ SF_jobsVars(\E w \in Workers, ls \in SUBSET Links : l \in ls /\ ClaimNotices(w, ls))
       /\ SF_jobsVars(\E w \in Workers : Sent(w, l))
       /\ WF_jobsVars(NoticeLapses(l))

LiveSpec == JobsSpec /\ Fairness

-----------------------------------------------------------------------------
(* The variables keep their types.                                         *)
JobsTypeOK ==
  /\ job \in [Jobs -> Job]
  /\ link \in [Links -> Link]
  /\ events \subseteq Links
  /\ kb \subseteq Urls
  /\ review \in [Cases -> [pc : {"idle", "running", "marking"}, task : 0 .. MaxReviews,
                           urls : SUBSET Urls, seen : SUBSET Jobs]]
  /\ worker \in [Workers -> [job : Jobs \cup {NoJob}, source : BOOLEAN, attempt : 0 .. Retries,
                             ingested : BOOLEAN, late : BOOLEAN, notices : SUBSET Links]]
  /\ told \subseteq Links
  /\ raced \subseteq Links
  /\ late \subseteq Jobs

(* Nobody is told to recheck a case before the page is a source of the     *)
(* knowledge base, by whichever of the two paths the recheck came.         *)
RecheckRestsOnSource ==
  \A l \in Links : link[l].recheck = "pending" => UrlOf[l[1]] \in kb

(* A recheck that waits for a source is not forgotten when the job settles *)
(* (however it does), unless it settled while mark_impact ran.             *)
NoRecheckForgotten ==
  \A l \in Links :
    job[l[1]].status \in Settled /\ link[l].material /\ l \notin raced
      => link[l].recheck = "pending"

(* Every recheck shows in the history of its case, and nothing else does.  *)
RecheckIsInHistory == events = {l \in Links : link[l].recheck = "pending"}

(* What was published or rejected stays so: only a worker that kept a job  *)
(* beyond its lease can overwrite it.                                      *)
OutcomeStandsUnlessLate ==
  [][\A j \in Jobs :
       job[j].status \in Settled \cup {"rejected"} =>
         job'[j].status = job[j].status \/ j \in late']_jobsVars

(* A page that was found is processed: its job does not stay queued or     *)
(* running, though workers die, lapse and retry.                           *)
JobEnds ==
  \A j \in Jobs : job[j].status \in {"queued", "running"} ~>
                    job[j].status \notin {"queued", "running"}

(* A recheck that is to be announced reaches the messenger.                *)
NoticeReaches == \A l \in Links : link[l].notice = "pending" ~> l \in told
====
