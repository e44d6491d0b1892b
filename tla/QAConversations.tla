--------------------------- MODULE QAConversations ---------------------------
(***************************************************************************)
(* Q&A conversations and their leased investigation runs (qa_store.py,     *)
(* http/qa.py, QAWorker of qa_agent.py), on PostgreSQL.                    *)
(*                                                                         *)
(* An edit of a conversation is one transaction: it locks the row of the   *)
(* conversation, reads the runs WITHOUT a lock, changes what it read and   *)
(* writes every run back.  claim() is another transaction that never takes *)
(* the conversation's lock.  So an edit is two actions here, the load and  *)
(* the write, and a claim may come between them.                           *)
(***************************************************************************)
EXTENDS Integers, Sequences, FiniteSets

CONSTANTS
  Conversations,
  Requests,       \* request ids of questions: one run per request
  ConvOf,         \* the conversation a request is sent to
  Handoffs,       \* request ids of handoffs to a formal review
  Workers,
  Api,            \* the web process, the author of users' edits
  Nobody,         \* the author of no edit
  NoRun,
  MaxAttempts,    \* bound: claims of one run (users stop retrying)
  MaxCalls        \* bound: edits users ask for

ASSUME ConvAssumption == ConvOf \in [Requests -> Conversations]
ASSUME NamesAssumption ==
  NoRun \notin Requests /\ Nobody \notin Workers /\ Api \notin Workers /\ Api # Nobody
ASSUME HandoffsAssumption == IsFiniteSet(Handoffs)
ASSUME BoundsAssumption == MaxAttempts \in Nat \ {0} /\ MaxCalls \in Nat

VARIABLES
  run,        \* qa_runs, by request id; status "absent" without a row
  arrived,    \* the runs in the order of created_at
  cases,      \* review cases created by the handoffs of a conversation
  links,      \* qa_conversations.data["case_links"]: the run handed off
  edit,       \* the edit in flight of a conversation: what it will write
  worker,     \* the run a worker executes
  raced,      \* history: an edit wrote over a claim of the run
  calls       \* history: edits users asked for

vars == <<run, arrived, cases, links, edit, worker, raced, calls>>

-----------------------------------------------------------------------------

Status == {"absent", "queued", "running", "completed", "failed"}
Row == [status : Status, attempt : 0 .. MaxAttempts,
        lease : {"none", "live", "lapsed"}, result : {"none", "answer", "questions"}]
NoRow == [status |-> "absent", attempt |-> 0, lease |-> "none", result |-> "none"]

RunsOf(c) == {r \in Requests : ConvOf[r] = c}
Active(row) == row.status \in {"queued", "running"}
Lapsed(row) == row.status = "running" /\ row.lease = "lapsed"
Idle == [run |-> NoRun, attempt |-> 0, pc |-> "idle"]

Held == {"running", "saving", "failing"}   \* a worker's pc while it has a run

(* No edit of conversation c is in flight: its row is not locked.          *)
NoEdit(c) == [by |-> Nobody, then |-> "none", about |-> NoRun,
              rows |-> [r \in RunsOf(c) |-> NoRow], cases |-> 0,
              links |-> [h \in Handoffs |-> NoRun]]
Unlocked(c) == edit[c].by = Nobody

Init ==
  /\ run = [r \in Requests |-> NoRow]
  /\ arrived = <<>>
  /\ cases = [c \in Conversations |-> 0]
  /\ links = [c \in Conversations |-> [h \in Handoffs |-> NoRun]]
  /\ edit = [c \in Conversations |-> NoEdit(c)]
  /\ worker = [w \in Workers |-> Idle]
  /\ raced = [r \in Requests |-> FALSE]
  /\ calls = 0

-----------------------------------------------------------------------------
(* PostgresQAStore._edit, the load: lock the conversation and read its     *)
(* runs; the change makes `row` of run `about`, and nothing of the others. *)
Loaded(c, by, then, about, row) ==
  [by |-> by, then |-> then, about |-> about,
   rows |-> [r \in RunsOf(c) |-> IF r = about THEN row ELSE run[r]],
   cases |-> cases[c], links |-> links[c]]

Begin(c, e) == Unlocked(c) /\ edit' = [edit EXCEPT ![c] = e]

(* ... and the write: _sync_runs, the conversation, commit.                *)
EditWrite(c) ==
  LET e == edit[c] IN
  /\ ~Unlocked(c)
  /\ run' = [r \in Requests |-> IF ConvOf[r] = c THEN e.rows[r] ELSE run[r]]
  /\ arrived' = IF e.about # NoRun /\ run[e.about].status = "absent"
                THEN Append(arrived, e.about) ELSE arrived
  /\ cases' = [cases EXCEPT ![c] = e.cases]
  /\ links' = [links EXCEPT ![c] = e.links]
  /\ raced' = [r \in Requests |-> \/ raced[r]
                                  \/ ConvOf[r] = c /\ e.rows[r].attempt < run[r].attempt]
  /\ worker' = IF e.then = "idle" THEN [worker EXCEPT ![e.by] = Idle] ELSE worker
  /\ edit' = [edit EXCEPT ![c] = NoEdit(c)]
  /\ UNCHANGED calls

(* ... or the connection is lost and the transaction rolled back: raised   *)
(* in execute it fails the run, raised by the failing checkpoint it leaves *)
(* run_once.                                                               *)
EditLost(c) ==
  LET e == edit[c]
      w == e.by
  IN
  /\ ~Unlocked(c)
  /\ edit' = [edit EXCEPT ![c] = NoEdit(c)]
  /\ worker' = IF e.then # "idle" THEN worker
               ELSE IF worker[w].pc = "saving" THEN [worker EXCEPT ![w].pc = "failing"]
               ELSE [worker EXCEPT ![w] = Idle]
  /\ UNCHANGED <<run, arrived, cases, links, raced, calls>>

-----------------------------------------------------------------------------
(* The users: add_material, enqueue, retry and handoff.                    *)
UserEdit(c, e) ==
  /\ calls < MaxCalls /\ calls' = calls + 1
  /\ Begin(c, e)
  /\ UNCHANGED <<run, arrived, cases, links, worker, raced>>

NoneActive(c) == \A r \in RunsOf(c) : ~Active(run[r])

(* The uploaded material is in the conversation's data; the runs are       *)
(* written back as they were read.                                         *)
AddMaterial(c) == UserEdit(c, Loaded(c, Api, "none", NoRun, NoRow))

(* Mutant: a question is taken while another is being answered.            *)
SendAnyway(r) ==
  LET c == ConvOf[r] IN
  \/ /\ run[r].status # "absent"
     /\ UserEdit(c, Loaded(c, Api, "none", NoRun, NoRow))
  \/ /\ run[r].status = "absent"
     /\ UserEdit(c, Loaded(c, Api, "none", r, [NoRow EXCEPT !.status = "queued"]))

(* A new question, or the same request again, which edits nothing and yet  *)
(* writes back what it read.                                               *)
Send(r) ==
  LET c == ConvOf[r] IN
  \/ /\ run[r].status # "absent"
     /\ UserEdit(c, Loaded(c, Api, "none", NoRun, NoRow))
  \/ /\ run[r].status = "absent" /\ NoneActive(c)
     /\ UserEdit(c, Loaded(c, Api, "none", r, [NoRow EXCEPT !.status = "queued"]))

(* r is the last run of its conversation.                                  *)
Last(r) ==
  \E i \in DOMAIN arrived :
    /\ arrived[i] = r
    /\ \A j \in i + 1 .. Len(arrived) : ConvOf[arrived[j]] # ConvOf[r]

Retry(r) ==
  LET c == ConvOf[r] IN
  /\ run[r].status = "failed" /\ NoneActive(c) /\ Last(r) /\ run[r].attempt < MaxAttempts
  /\ UserEdit(c, Loaded(c, Api, "none", r,
                        [run[r] EXCEPT !.status = "queued", !.result = "none"]))

(* The case and its link: a request answered before is answered the same.  *)
HandedOff(c, h, r) ==
  LET e == Loaded(c, Api, "none", NoRun, NoRow) IN
  IF links[c][h] = NoRun THEN [e EXCEPT !.links[h] = r, !.cases = @ + 1] ELSE e

(* Mutant: the request is not looked up among those answered before.       *)
HandoffAgain(h, r) ==
  LET c == ConvOf[r] IN
  /\ run[r].status = "completed" /\ run[r].result # "questions"
  /\ UserEdit(c, [Loaded(c, Api, "none", NoRun, NoRow) EXCEPT !.links[h] = r, !.cases = @ + 1])

(* The case, its versions, its events and the link are one transaction.    *)
Handoff(h, r) ==
  LET c == ConvOf[r] IN
  /\ run[r].status = "completed" /\ run[r].result # "questions"
  /\ links[c][h] \in {NoRun, r}
  /\ UserEdit(c, HandedOff(c, h, r))

-----------------------------------------------------------------------------
(* PostgresQAStore.claim: fail the runs whose lease lapsed, then take the  *)
(* oldest queued run (SKIP LOCKED passes over rows an edit is writing).    *)
(* With nothing to take the transaction is rolled back, sweep included:    *)
(* such a call changes nothing and is no step.                             *)

(* Mutant: nothing is swept.                                               *)
SweepNone(row) == row

Sweep(row) ==
  IF Lapsed(row) THEN [row EXCEPT !.status = "failed", !.result = "none"] ELSE row

(* Mutant: a claim keeps the number of the attempt.                        *)
TakeAgain(row) == [row EXCEPT !.status = "running", !.lease = "live"]

Take(row) == [row EXCEPT !.status = "running", !.attempt = @ + 1, !.lease = "live"]

(* Mutant: the oldest run that is not completed is taken or nothing.       *)
ClaimableHead(i) ==
  /\ run[arrived[i]].status = "queued"
  /\ \A j \in 1 .. i - 1 : run[arrived[j]].status = "completed"

Claimable(i) ==
  /\ run[arrived[i]].status = "queued"
  /\ \A j \in 1 .. i - 1 :
       run[arrived[j]].status = "queued" => ~Unlocked(ConvOf[arrived[j]])

(* next(r for r in conversation["runs"] if r["status"] == "running").      *)
FirstRunning(c, rows) ==
  arrived[CHOOSE i \in DOMAIN arrived :
            /\ ConvOf[arrived[i]] = c /\ rows[arrived[i]].status = "running"
            /\ \A j \in 1 .. i - 1 :
                 ~(ConvOf[arrived[j]] = c /\ rows[arrived[j]].status = "running")]

Claim(w) ==
  /\ worker[w].pc = "idle"
  /\ \E i \in DOMAIN arrived :
       LET r == arrived[i]
           rows == [q \in Requests |-> IF q = r THEN Take(run[r]) ELSE Sweep(run[q])]
           given == FirstRunning(ConvOf[r], rows)
       IN /\ Claimable(i)
          /\ run' = rows
          /\ worker' = [worker EXCEPT ![w] = [run |-> given, attempt |-> rows[given].attempt,
                                              pc |-> "running"]]
  /\ UNCHANGED <<arrived, cases, links, edit, raced, calls>>

-----------------------------------------------------------------------------
(* QAStore.checkpoint of the worker's run: accepted while the row runs the *)
(* attempt it holds, and then renews the lease.                            *)
Accepted(w) ==
  LET row == run[worker[w].run] IN
  row.status = "running" /\ row.attempt = worker[w].attempt

Checkpoint(w, then, status, result) ==
  LET r == worker[w].run
      c == ConvOf[r]
  IN Begin(c, Loaded(c, w, then, r, [run[r] EXCEPT !.status = status, !.lease = "live",
                                                   !.result = result]))

(* It ends: with an answer, or with questions for its user.                *)
Answer(w, result) ==
  /\ worker[w].pc = "running" /\ Accepted(w)
  /\ Checkpoint(w, "idle", "completed", result)
  /\ worker' = [worker EXCEPT ![w].pc = "saving"]
  /\ UNCHANGED <<run, arrived, cases, links, raced, calls>>

(* An exception: of the model, of a tool, or of a refused checkpoint.      *)
Raise(w) ==
  /\ worker[w].pc = "running"
  /\ worker' = [worker EXCEPT ![w].pc = "failing"]
  /\ UNCHANGED <<run, arrived, cases, links, edit, raced, calls>>

(* The checkpoint of the failure; QAConflict is passed over.               *)
Fail(w) ==
  /\ worker[w].pc = "failing"
  /\ \/ /\ Accepted(w)
        /\ Checkpoint(w, "idle", "failed", "none")
        /\ UNCHANGED worker
     \/ /\ ~Accepted(w) /\ Unlocked(ConvOf[worker[w].run])
        /\ worker' = [worker EXCEPT ![w] = Idle]
        /\ UNCHANGED edit
  /\ UNCHANGED <<run, arrived, cases, links, raced, calls>>

(* The lease renewed: by the heartbeat thread, or by a state or a piece of *)
(* text the execution saves (lost or refused, that is a Raise as well).    *)
Renew(w) ==
  /\ worker[w].pc \in Held /\ Accepted(w)
  /\ Checkpoint(w, "renew", "running", run[worker[w].run].result)
  /\ UNCHANGED <<run, arrived, cases, links, worker, raced, calls>>

(* The process of a worker dies: its open transactions are rolled back.    *)
Die(w) ==
  /\ worker[w].pc # "idle"
  /\ worker' = [worker EXCEPT ![w] = Idle]
  /\ edit' = [c \in Conversations |-> IF edit[c].by = w THEN NoEdit(c) ELSE edit[c]]
  /\ UNCHANGED <<run, arrived, cases, links, raced, calls>>

(* Five minutes without a checkpoint (a dead worker, a heartbeat thread    *)
(* ended by a lost connection): the lease passes, in the row and in the    *)
(* copy an edit read of it, unless that edit renews it.                    *)
Lapse(r) ==
  LET c == ConvOf[r] IN
  /\ run[r].status = "running" /\ run[r].lease = "live"
  /\ run' = [run EXCEPT ![r].lease = "lapsed"]
  /\ edit' = IF edit[c].about # r /\ edit[c].rows[r].lease = "live"
             THEN [edit EXCEPT ![c].rows[r].lease = "lapsed"] ELSE edit
  /\ UNCHANGED <<arrived, cases, links, worker, raced, calls>>

-----------------------------------------------------------------------------

UserStep ==
  \/ \E c \in Conversations : AddMaterial(c)
  \/ \E r \in Requests : Send(r) \/ Retry(r)
  \/ \E r \in Requests, h \in Handoffs : Handoff(h, r)

(* What an execution does of itself in the end.                            *)
End(w) == Answer(w, "answer") \/ Answer(w, "questions") \/ Raise(w) \/ Fail(w)

Next ==
  \/ UserStep
  \/ \E w \in Workers : Claim(w) \/ Renew(w) \/ End(w) \/ Die(w)
  \/ \E c \in Conversations : EditWrite(c) \/ EditLost(c)
  \/ \E r \in Requests : Lapse(r)

Spec == Init /\ [][Next]_vars

(* Some worker polls, some execution ends (its turns are bounded) and some *)
(* open transaction ends.  Waiting for the row of a conversation is first  *)
(* come, first served, hence the strong fairness.  Nothing is assumed of   *)
(* users.                                                                  *)
Fairness ==
  /\ WF_vars(\E w \in Workers : Claim(w))
  /\ SF_vars(\E w \in Workers : End(w))
  /\ WF_vars(\E c \in Conversations : EditWrite(c))

LiveSpec == Spec /\ Fairness

-----------------------------------------------------------------------------
(* The variables keep their types.                                         *)
Authors == Workers \cup {Api, Nobody}
EditOf(c) == [by : Authors, then : {"none", "renew", "idle"},
              about : RunsOf(c) \cup {NoRun}, rows : [RunsOf(c) -> Row],
              cases : Nat, links : [Handoffs -> RunsOf(c) \cup {NoRun}]]

TypeOK ==
  /\ run \in [Requests -> Row]
  /\ arrived \in Seq(Requests)
  /\ cases \in [Conversations -> Nat]
  /\ DOMAIN links = Conversations /\ DOMAIN edit = Conversations
  /\ \A c \in Conversations :
       links[c] \in [Handoffs -> RunsOf(c) \cup {NoRun}] /\ edit[c] \in EditOf(c)
  /\ worker \in [Workers -> [run : Requests \cup {NoRun}, attempt : 0 .. MaxAttempts,
                             pc : Held \cup {"idle"}]]
  /\ raced \in [Requests -> BOOLEAN]
  /\ calls \in 0 .. MaxCalls

(* A conversation has one run queued or running at most: enqueue and retry *)
(* look at the runs they read under the conversation's lock, claims and    *)
(* stale writes of edits included.  claim() relies on it when it hands out *)
(* the first running run of the conversation.                              *)
OneActiveRun ==
  \A r, q \in Requests :
    ConvOf[r] = ConvOf[q] /\ Active(run[r]) /\ Active(run[q]) => r = q

(* checkpoint's fence: two workers never hold one attempt of a run, so the *)
(* older one is refused whatever it still does, unless an edit that had    *)
(* read the run before a claim wrote that claim over.                      *)
SameAttempt(w, v) ==
  /\ worker[w].pc # "idle" /\ worker[v].pc # "idle"
  /\ worker[w].run = worker[v].run /\ worker[w].attempt = worker[v].attempt

FencedUnlessRaced ==
  \A w, v \in Workers : SameAttempt(w, v) => w = v \/ raced[worker[w].run]

(* A completed run is never asked again, failed or answered differently,   *)
(* whatever stale rows edits and late workers write.                       *)
CompletedStands ==
  [][\A r \in Requests : run[r].status = "completed" => run'[r] = run[r]]_vars

(* A formal review started from a conversation rests on a run that is      *)
(* completed with an answer, not with questions for the user.              *)
HandedOffAnswered ==
  \A c \in Conversations, h \in Handoffs :
    links[c][h] # NoRun => /\ run[links[c][h]].status = "completed"
                           /\ run[links[c][h]].result = "answer"

(* Each handoff request started one case, however often it was sent and    *)
(* wherever the transaction was lost.                                      *)
OneCasePerHandoff ==
  \A c \in Conversations : cases[c] = Cardinality({h \in Handoffs : links[c][h] # NoRun})

(* A question does not stay queued.                                        *)
QuestionTaken ==
  \A r \in Requests : run[r].status = "queued" ~> run[r].status # "queued"

(* A run whose worker is gone is reported failed, so that the user may ask *)
(* again, once some question is waiting to be claimed.                     *)
LapsedReportedWithWork ==
  \A r \in Requests :
    (Lapsed(run[r]) /\ \E q \in Requests : run[q].status = "queued") ~> ~Lapsed(run[r])

(* qa_store.py:268 and test_qa.py:151: every poll first reports the runs   *)
(* whose lease lapsed.                                                     *)
LapsedReported ==
  \A r \in Requests : Lapsed(run[r]) ~> ~Lapsed(run[r])

(* test_qa.py:135: an attempt that was given up cannot write again.        *)
Fenced == \A w, v \in Workers : SameAttempt(w, v) => w = v
====
