---------------------------- MODULE CaseDocuments ----------------------------
(***************************************************************************)
(* What people write around a review with a model's help: revisions of a   *)
(* material's text (law_agent/review/revisions.py, http/revisions.py),     *)
(* annotations (annotations.py, http/annotations.py) and a conversation    *)
(* about the matter (matter_agent.py, http/matter.py).                     *)
(*                                                                         *)
(* All three read the case, await a model, and write what came of it to a  *)
(* case that other handlers and the review workers went on with.  A handler*)
(* that does not await is the only one of the API: `api' is what it has    *)
(* read before its next transaction, beside which only workers run.        *)
(*                                                                         *)
(* A text is what stands at each of its spots: the original, or what an    *)
(* accepted proposal put there.                                            *)
(***************************************************************************)
EXTENDS Integers, FiniteSets

CONSTANTS
  Materials,     \* parsed versions of the materials under review
  Spots,         \* passages of a material a finding may be about
  Findings,      \* issues of a review
  Annotations,   \* rows of review_annotations
  PlaceOf,       \* the material and spot an issue or annotation quotes
  Proposals,     \* rows of revision_proposals
  Requests,      \* requests that wait for a model at the same time
  Questions,     \* questions about the matter
  MaxTasks,      \* bound: review tasks queued for the case
  MaxReviews,    \* bound: review results stored at the case
  MaxRows,       \* bound: proposals, annotations and questions together
  None           \* no row, no call, nobody's words

Issues == Findings \cup Annotations
Tasks == 1 .. MaxTasks

ASSUME PlaceAssumption == PlaceOf \in [Issues -> Materials \X Spots]
ASSUME BoundsAssumption == MaxTasks \in Nat /\ MaxReviews \in Nat /\ MaxRows \in Nat

VARIABLES
  phase,       \* phase[n]: what has become of the n-th review task
  newest,      \* the newest task of the case
  aligned,     \* the newest task runs on the newest frozen input
  review,      \* the review result stored at the case
  completed,   \* the task of the last review_completed event
  proposal, annotation,
  call,        \* call[r]: what a request that awaits the model has read
  api,         \* what the handler in flight has read
  question,    \* question[q]: how far a question is
  saved        \* saved[q]: the task of the turn stored for a question

reviewVars == <<phase, newest, aligned, review, completed>>
rowVars == <<proposal, annotation>>
turnVars == <<question, saved>>
vars == <<reviewVars, rowVars, call, api, turnVars>>

MaterialOf(i) == PlaceOf[i][1]
SpotOf(i) == PlaceOf[i][2]

Text == [Spots -> Proposals \cup {None}]
Original == [s \in Spots |-> None]

Phase == {"absent", "active", "succeeded", "stored", "noted", "failed"}
ProposalStatus == {"pending", "accepted", "rejected", "superseded"}
AnnotationStatus == {"pending", "confirmed", "rejected"}
Verdict == {"accepted", "rejected"}

Proposal == [status : ProposalStatus, issue : Issues, review : 0 .. MaxReviews,
             base : Nat, on : Text, version : Nat, text : Text]
Annotation == [status : AnnotationStatus, source : {"human", "model"}, review : 0 .. MaxReviews]

ASSUME NoneAssumption == None \notin Proposals \cup Proposal

DraftCall == [kind : {"draft"}, issue : Issues, review : 0 .. MaxReviews, base : Nat, on : Text]
FollowupCall == [kind : {"followup"}, review : 0 .. MaxReviews]

GenerateApi == [op : {"generate"}, request : Requests, issue : Issues, review : 0 .. MaxReviews]
DecideApi == [op : {"decide"}, proposal : Proposals, verdict : Verdict,
              review : 0 .. MaxReviews, on : Text]
AnnotateApi == [op : {"annotate"}, source : {"human", "model"}, review : 0 .. MaxReviews]
JudgeApi == [op : {"judge"}, annotation : Annotations, verdict : {"confirmed", "rejected"}]

Asking == {"thinking", "replied", "saving", "unheard"}
Told == {"done", "refused", "timeout", "failed"}
Question == [at : {"new", "gone"} \cup Asking \cup Told, streamed : BOOLEAN, task : 0 .. MaxTasks]

(* Nothing is kept of a question but its turn, and what its asker was told.*)
Ended(what) == [at |-> what, streamed |-> FALSE, task |-> 0]

Init ==
  /\ phase = [n \in Tasks |-> "absent"]
  /\ newest = 0 /\ aligned = FALSE /\ review = 0 /\ completed = 0
  /\ proposal = [p \in Proposals |-> None]
  /\ annotation = [a \in Annotations |-> None]
  /\ call = [r \in Requests |-> None]
  /\ api = None
  /\ question = [q \in Questions |-> Ended("new")]
  /\ saved = [q \in Questions |-> 0]

Idle == api = None

Rows == {p \in Proposals : proposal[p] # None} \cup {a \in Annotations : annotation[a] # None}
          \cup {q \in Questions : question[q].at # "new"}

(* The bound on rows: no request begins that could not write its own.      *)
Room == Cardinality(Rows) < MaxRows

InApi(op) == ~Idle /\ api.op = op
Awaits(r, kind) == call[r] # None /\ call[r].kind = kind

-----------------------------------------------------------------------------
(* The review around it, as far as it is seen here (ReviewCase has it all).*)
(* Facts or material are frozen anew; a task is queued for the newest, the *)
(* one before being over or closed; the newest task is run again.          *)

Freeze ==
  /\ Idle
  /\ aligned' = FALSE
  /\ UNCHANGED <<phase, newest, review, completed, rowVars, call, api, turnVars>>

Enqueue ==
  /\ Idle
  /\ newest < MaxTasks
  /\ newest # 0 => phase[newest] # "active"
  /\ newest' = newest + 1
  /\ phase' = [phase EXCEPT ![newest'] = "active"]
  /\ aligned' = TRUE
  /\ UNCHANGED <<review, completed, rowVars, call, api, turnVars>>

Retry ==
  /\ Idle
  /\ newest # 0 /\ aligned
  /\ phase[newest] \in {"failed", "stored", "noted"}
  /\ phase' = [phase EXCEPT ![newest] = "active"]
  /\ UNCHANGED <<newest, aligned, review, completed, rowVars, call, api, turnVars>>

Finish(n) ==
  /\ phase[n] = "active"
  /\ \E outcome \in {"succeeded", "failed"} : phase' = [phase EXCEPT ![n] = outcome]
  /\ UNCHANGED <<newest, aligned, review, completed, rowVars, call, api, turnVars>>

(* on_succeeded stores the result at the case ...                          *)
Store(n) ==
  /\ phase[n] = "succeeded"
  /\ review < MaxReviews
  /\ review' = review + 1
  /\ phase' = [phase EXCEPT ![n] = "stored"]
  /\ UNCHANGED <<newest, aligned, completed, rowVars, call, api, turnVars>>

(* ... and logs review_completed in a transaction of its own.              *)
Note(n) ==
  /\ phase[n] = "stored"
  /\ completed' = n
  /\ phase' = [phase EXCEPT ![n] = "noted"]
  /\ UNCHANGED <<newest, aligned, review, rowVars, call, api, turnVars>>

-----------------------------------------------------------------------------
(* Revisions.                                                              *)

Status(p) == IF proposal[p] = None THEN "absent" ELSE proposal[p].status
Of(p) == MaterialOf(proposal[p].issue)

Accepted(m) == {p \in Proposals : Status(p) = "accepted" /\ Of(p) = m}

(* current_draft: the accepted proposal of the highest version.            *)
Draft(m) ==
  IF Accepted(m) = {} THEN [version |-> 0, text |-> Original]
  ELSE LET last == CHOOSE p \in Accepted(m) :
                     \A q \in Accepted(m) : proposal[q].version <= proposal[p].version
       IN  [version |-> proposal[last].version, text |-> proposal[last].text]

(* A newer review runs, or has ended unheard.                              *)
ReviewedAgain == completed # 0 /\ completed # newest /\ phase[newest] # "failed"

(* The issue is one of the review that was read, or an annotation of it    *)
(* that somebody confirmed.                                                *)
MayRevise(i) ==
  i \in Annotations => /\ annotation[i] # None
                       /\ annotation[i].status = "confirmed" /\ annotation[i].review = api.review

(* The words quoted still stand, once, where the issue found them.         *)
Located(i, text) == text[SpotOf(i)] = None

BeginGenerate(r, i) ==
  /\ Idle /\ Room /\ call[r] = None
  /\ review > 0
  /\ api' = [op |-> "generate", request |-> r, issue |-> i, review |-> review]
  /\ UNCHANGED <<reviewVars, rowVars, call, turnVars>>

Generate ==
  /\ InApi("generate")
  /\ MayRevise(api.issue) /\ ~ReviewedAgain
  /\ LET draft == Draft(MaterialOf(api.issue))
     IN  /\ Located(api.issue, draft.text)
         /\ call' = [call EXCEPT ![api.request] =
                       [kind |-> "draft", issue |-> api.issue, review |-> api.review,
                        base |-> draft.version, on |-> draft.text]]
  /\ api' = None
  /\ UNCHANGED <<reviewVars, rowVars, turnVars>>

(* Mutant: the base is not compared again after the model has answered.    *)
FitsAnyDraft(c) ==
  \A p \in Proposals : Status(p) = "pending" =>
    ~ /\ proposal[p].issue = c.issue /\ proposal[p].review = c.review
      /\ proposal[p].on = c.on

(* Under the lock of the material: the base is still the draft, and no     *)
(* proposal for the same words waits already.                              *)
Fits(c) ==
  LET draft == Draft(MaterialOf(c.issue))
  IN  /\ draft.version = c.base
      /\ draft.version # 0 => draft.text = c.on
      /\ \A p \in Proposals : Status(p) = "pending" =>
           ~ /\ proposal[p].issue = c.issue /\ proposal[p].review = c.review
             /\ proposal[p].on = c.on

Create(r, p) ==
  /\ Idle
  /\ Awaits(r, "draft")
  /\ Room /\ proposal[p] = None
  /\ Fits(call[r])
  /\ proposal' = [proposal EXCEPT ![p] =
                    [status |-> "pending", issue |-> call[r].issue, review |-> call[r].review,
                     base |-> call[r].base, on |-> call[r].on,
                     version |-> 0, text |-> Original]]
  /\ call' = [call EXCEPT ![r] = None]
  /\ UNCHANGED <<reviewVars, annotation, api, turnVars>>

(* The model fails, or what it was asked about is another by now.          *)
Drop(r) ==
  /\ Idle
  /\ call[r] # None
  /\ call' = [call EXCEPT ![r] = None]
  /\ UNCHANGED <<reviewVars, rowVars, api, turnVars>>

(* A decision may come from a page that still shows what was decided.      *)
BeginDecide(p, verdict) ==
  /\ Idle
  /\ proposal[p] # None
  /\ review > 0
  /\ api' = [op |-> "decide", proposal |-> p, verdict |-> verdict,
             review |-> review, on |-> Draft(Of(p)).text]
  /\ UNCHANGED <<reviewVars, rowVars, call, turnVars>>

(* Mutant: only the review the handler has read is compared.               *)
OutdatedAsRead(p) ==
  \/ proposal[p].review # api.review
  \/ Draft(Of(p)).version # proposal[p].base
  \/ api.on # proposal[p].on

(* The case was reviewed again, or the draft moved on, since the proposal. *)
Outdated(p) ==
  \/ proposal[p].review # api.review
  \/ proposal[p].review # review
  \/ Draft(Of(p)).version # proposal[p].base
  \/ Draft(Of(p)).version # 0 /\ Draft(Of(p)).text # proposal[p].on
  \/ api.on # proposal[p].on

Supersede ==
  /\ InApi("decide")
  /\ Status(api.proposal) = "pending"
  /\ Outdated(api.proposal)
  /\ proposal' = [proposal EXCEPT ![api.proposal].status = "superseded"]
  /\ api' = None
  /\ UNCHANGED <<reviewVars, annotation, call, turnVars>>

Reject ==
  /\ InApi("decide") /\ api.verdict = "rejected"
  /\ Status(api.proposal) = "pending"
  /\ ~Outdated(api.proposal)
  /\ proposal' = [proposal EXCEPT ![api.proposal].status = "rejected"]
  /\ api' = None
  /\ UNCHANGED <<reviewVars, annotation, call, turnVars>>

(* The words go in, and whatever else was proposed for the material lapses.*)
Accept ==
  /\ InApi("decide") /\ api.verdict = "accepted"
  /\ LET p == api.proposal
         here == SpotOf(proposal[p].issue)
     IN  /\ Status(p) = "pending"
         /\ ~Outdated(p)
         /\ Located(proposal[p].issue, api.on)
         /\ proposal' = [q \in Proposals |->
              IF q = p THEN [proposal[q] EXCEPT !.status = "accepted", !.version = proposal[q].base + 1,
                                                !.text = [api.on EXCEPT ![here] = p]]
              ELSE IF Status(q) = "pending" /\ Of(q) = Of(p)
                     THEN [proposal[q] EXCEPT !.status = "superseded"]
              ELSE proposal[q]]
  /\ api' = None
  /\ UNCHANGED <<reviewVars, annotation, call, turnVars>>

(* Decided already, or words the reviewer may not put there; no draft for  *)
(* an issue, a material or a passage that is not there any more.           *)
Refuse ==
  /\ \/ InApi("decide") /\ Status(api.proposal) # "pending"
     \/ InApi("decide") /\ ~Outdated(api.proposal) /\ api.verdict = "accepted"
     \/ InApi("generate")
  /\ api' = None
  /\ UNCHANGED <<reviewVars, rowVars, call, turnVars>>

-----------------------------------------------------------------------------
(* Annotations.                                                            *)

BeginFollowup(r) ==
  /\ Idle /\ Room /\ call[r] = None
  /\ review > 0
  /\ call' = [call EXCEPT ![r] = [kind |-> "followup", review |-> review]]
  /\ UNCHANGED <<reviewVars, rowVars, api, turnVars>>

(* The answer is kept only if the review it was asked of still stands.     *)
Recheck(r) ==
  /\ Idle /\ Room
  /\ Awaits(r, "followup")
  /\ call[r].review = review
  /\ api' = [op |-> "annotate", source |-> "model", review |-> review]
  /\ call' = [call EXCEPT ![r] = None]
  /\ UNCHANGED <<reviewVars, rowVars, turnVars>>

BeginHuman ==
  /\ Idle /\ Room
  /\ review > 0
  /\ api' = [op |-> "annotate", source |-> "human", review |-> review]
  /\ UNCHANGED <<reviewVars, rowVars, call, turnVars>>

Annotate(a) ==
  /\ InApi("annotate")
  /\ Room /\ annotation[a] = None
  /\ annotation' = [annotation EXCEPT ![a] =
                      [status |-> IF api.source = "model" THEN "pending" ELSE "confirmed",
                       source |-> api.source, review |-> api.review]]
  /\ api' = None
  /\ UNCHANGED <<reviewVars, proposal, call, turnVars>>

BeginJudge(a, verdict) ==
  /\ Idle
  /\ annotation[a] # None
  /\ annotation[a].source = "model" /\ annotation[a].review = review
  /\ api' = [op |-> "judge", annotation |-> a, verdict |-> verdict]
  /\ UNCHANGED <<reviewVars, rowVars, call, turnVars>>

Judge ==
  /\ InApi("judge")
  /\ annotation' = IF annotation[api.annotation].status = "pending"
                     THEN [annotation EXCEPT ![api.annotation].status = api.verdict]
                     ELSE annotation
  /\ api' = None
  /\ UNCHANGED <<reviewVars, proposal, call, turnVars>>
-----------------------------------------------------------------------------
(* The conversation about the matter.  A plain question is one handler that*)
(* awaits the model; of a streamed one the model, the storing of its turn  *)
(* and the stream to the client run side by side.                          *)

At(q, St) == question[q].at \in St
Goto(q, where) == question' = [question EXCEPT ![q].at = where]

End(q, what) == question' = [question EXCEPT ![q] = Ended(what)]

(* matter_context: the versions a question is about are still the newest.  *)
Current(n) == n # 0 /\ n = newest /\ aligned

Ask(q, streamed) ==
  /\ Idle
  /\ Room /\ At(q, {"new"})
  /\ Current(newest)
  /\ question' = [question EXCEPT ![q] = [at |-> "thinking", streamed |-> streamed, task |-> newest]]
  /\ UNCHANGED <<reviewVars, rowVars, call, api, saved>>

Reply(q) ==
  /\ At(q, {"thinking"})
  /\ Goto(q, "replied")
  /\ UNCHANGED <<reviewVars, rowVars, call, api, saved>>

ModelFails(q) ==
  /\ At(q, {"thinking"})
  /\ End(q, "failed")
  /\ UNCHANGED <<reviewVars, rowVars, call, api, saved>>

Pull(q) ==
  /\ question[q].streamed /\ At(q, {"replied"})
  /\ Goto(q, "saving")
  /\ UNCHANGED <<reviewVars, rowVars, call, api, saved>>

(* The deadline is looked at before and after the pull, not while the turn *)
(* is stored.                                                              *)
TimeOut(q) ==
  /\ question[q].streamed /\ At(q, {"thinking", "replied"})
  /\ End(q, "timeout")
  /\ UNCHANGED <<reviewVars, rowVars, call, api, saved>>

(* The client closes the stream; what is being stored is stored.           *)
Leave(q) ==
  /\ question[q].streamed /\ At(q, {"thinking", "replied", "saving"})
  /\ IF At(q, {"saving"}) THEN Goto(q, "unheard") ELSE End(q, "gone")
  /\ UNCHANGED <<reviewVars, rowVars, call, api, saved>>

Saving(q) ==
  \/ At(q, {"saving", "unheard"})
  \/ ~question[q].streamed /\ At(q, {"replied"}) /\ Idle

Tell(q, what) == End(q, IF At(q, {"unheard"}) THEN "gone" ELSE what)

(* Mutant: the versions are checked before the model is asked only.        *)
SaveUnchecked(q) ==
  /\ Saving(q)
  /\ saved' = [saved EXCEPT ![q] = question[q].task]
  /\ Tell(q, "done")
  /\ UNCHANGED <<reviewVars, rowVars, call, api>>

(* save_turn checks the versions again, under the lock of the case.        *)
SaveTurn(q) ==
  /\ Saving(q)
  /\ IF Current(question[q].task)
       THEN /\ saved' = [saved EXCEPT ![q] = question[q].task]
            /\ Tell(q, "done")
       ELSE /\ Tell(q, "refused")
            /\ UNCHANGED saved
  /\ UNCHANGED <<reviewVars, rowVars, call, api>>

(* Mutant: any failure to store the turn is told as a change of versions.  *)
SaveFailsAsRefused(q) ==
  /\ Saving(q)
  /\ \/ UNCHANGED saved
     \/ /\ Current(question[q].task)
        /\ saved' = [saved EXCEPT ![q] = question[q].task]
  /\ Tell(q, "refused")
  /\ UNCHANGED <<reviewVars, rowVars, call, api>>

(* The database is lost, before or after it has committed.                 *)
SaveFails(q) ==
  /\ Saving(q)
  /\ \/ UNCHANGED saved
     \/ /\ Current(question[q].task)
        /\ saved' = [saved EXCEPT ![q] = question[q].task]
  /\ Tell(q, "failed")
  /\ UNCHANGED <<reviewVars, rowVars, call, api>>

-----------------------------------------------------------------------------

ApiDies ==
  /\ api' = None
  /\ call' = [r \in Requests |-> None]
  /\ question' = [q \in Questions |-> IF At(q, Asking) THEN Ended("gone")
                                     ELSE question[q]]
  /\ UNCHANGED <<reviewVars, rowVars, saved>>

ReviewStep ==
  \/ Freeze \/ Enqueue \/ Retry
  \/ \E n \in Tasks : Finish(n) \/ Store(n) \/ Note(n)

RevisionStep ==
  \/ \E r \in Requests, i \in Issues : BeginGenerate(r, i)
  \/ Generate
  \/ \E r \in Requests : Drop(r) \/ \E p \in Proposals : Create(r, p)
  \/ \E p \in Proposals, verdict \in Verdict : BeginDecide(p, verdict)
  \/ Supersede \/ Reject \/ Accept \/ Refuse

AnnotationStep ==
  \/ \E r \in Requests : BeginFollowup(r) \/ Recheck(r)
  \/ BeginHuman
  \/ \E a \in Annotations : Annotate(a) \/ \E verdict \in {"confirmed", "rejected"} : BeginJudge(a, verdict)
  \/ Judge

QuestionStep(q) ==
  \/ \E streamed \in BOOLEAN : Ask(q, streamed)
  \/ Reply(q) \/ ModelFails(q) \/ Pull(q) \/ TimeOut(q) \/ Leave(q)
  \/ SaveTurn(q) \/ SaveFails(q)

Next ==
  \/ ReviewStep \/ RevisionStep \/ AnnotationStep
  \/ \E q \in Questions : QuestionStep(q)
  \/ ApiDies

Spec == Init /\ [][Next]_vars

-----------------------------------------------------------------------------
(* What it is for.                                                         *)

(* Every row and every handler's reading has its type.                     *)
TypeOK ==
  /\ phase \in [Tasks -> Phase]
  /\ newest \in 0 .. MaxTasks /\ completed \in 0 .. MaxTasks
  /\ aligned \in BOOLEAN /\ review \in 0 .. MaxReviews
  /\ proposal \in [Proposals -> {None} \cup Proposal]
  /\ annotation \in [Annotations -> {None} \cup Annotation]
  /\ call \in [Requests -> {None} \cup DraftCall \cup FollowupCall]
  /\ api \in {None} \cup GenerateApi \cup DecideApi \cup AnnotateApi \cup JudgeApi
  /\ question \in [Questions -> Question]
  /\ saved \in [Questions -> 0 .. MaxTasks]

(* The draft of a material holds the words of every proposal that was      *)
(* accepted for it: no accepted edit is lost by the next one.              *)
DraftKeepsEveryEdit ==
  \A m \in Materials : \A p \in Accepted(m) :
    Draft(m).text[SpotOf(proposal[p].issue)] = p

(* What waits for a decision was written on the draft as it stands now,    *)
(* although the model was asked before and answered after.                 *)
PendingOnNewestDraft ==
  \A p \in Proposals : Status(p) = "pending" =>
    /\ proposal[p].base = Draft(Of(p)).version
    /\ proposal[p].on = Draft(Of(p)).text

(* Proposals that overtake one another lose no edit a reviewer accepted,   *)
(* and no reviewer is shown one that has been overtaken.                   *)
WorkingDraftStands == DraftKeepsEveryEdit /\ PendingOnNewestDraft

(* A proposal is accepted only while the review it answers is the stored   *)
(* one, although a worker may store another after the handler has read it. *)
AcceptedOnStoredReview ==
  [][\A p \in Proposals : Status(p) = "pending" /\ (Status(p) = "accepted")' =>
       proposal[p].review = review]_vars

(* A turn is stored of the newest task on the newest frozen input, however *)
(* long the model took to answer.                                          *)
TurnsOnNewestTask ==
  [][\A q \in Questions : saved'[q] # saved[q] => saved'[q] = newest /\ aligned]_vars

(* Who is told that a question is answered finds the turn in the history;  *)
(* who is told to ask again, as the versions changed or time ran out, does *)
(* not find one.                                                           *)
ToldTruly ==
  \A q \in Questions :
    /\ At(q, {"done"}) => saved[q] # 0
    /\ At(q, {"refused", "timeout"}) => saved[q] = 0
=============================================================================
