-------------------------- MODULE CaseDocumentsProofs --------------------------
(***************************************************************************)
(* What CaseDocuments guarantees for every set of materials, passages,     *)
(* issues, rows and questions, and any number of tasks and reviews.        *)
(***************************************************************************)
EXTENDS CaseDocuments, TLAPS

RowsTyped == proposal \in [Proposals -> {None} \cup Proposal]

(* The working draft of m is what the acceptance of p made of it.          *)
Newest(m, p) ==
  /\ p \in Accepted(m)
  /\ \A q \in Accepted(m) : proposal[q].version <= proposal[p].version

(* Versions of a material are told apart, and one of them is the newest.   *)
VersionsOK ==
  \A m \in Materials :
    /\ \A p \in Accepted(m) : proposal[p].version >= 1
    /\ \A p, q \in Accepted(m) : proposal[p].version = proposal[q].version => p = q
    /\ Accepted(m) # {} => \E p \in Accepted(m) : Newest(m, p)

(* Who asked the model before anything was accepted asked of the original. *)
CallOK == \A r \in Requests : Awaits(r, "draft") /\ call[r].base = 0 => call[r].on = Original

(* What is judged is there.                                                *)
JudgeOK == InApi("judge") => annotation[api.annotation] # None

DraftInv == JudgeOK /\ TypeOK /\ VersionsOK /\ CallOK /\ WorkingDraftStands

-----------------------------------------------------------------------------
(* The working draft.                                                      *)

LEMMA IssuePlace ==
  ASSUME NEW i \in Issues
  PROVE  MaterialOf(i) \in Materials /\ SpotOf(i) \in Spots
BY PlaceAssumption DEF MaterialOf, SpotOf

LEMMA RowType ==
  ASSUME RowsTyped, NEW p \in Proposals, Status(p) # "absent"
  PROVE  /\ proposal[p] \in Proposal /\ proposal[p] # None /\ Status(p) = proposal[p].status
         /\ proposal[p].issue \in Issues /\ Of(p) \in Materials
         /\ proposal[p].base \in Nat /\ proposal[p].version \in Nat
         /\ proposal[p].on \in Text /\ proposal[p].text \in Text
         /\ proposal[p].review \in 0 .. MaxReviews
<1>1. proposal[p] # None /\ proposal[p] \in Proposal /\ Status(p) = proposal[p].status
  BY DEF RowsTyped, Status
<1>2. /\ proposal[p].issue \in Issues /\ proposal[p].base \in Nat /\ proposal[p].version \in Nat
      /\ proposal[p].on \in Text /\ proposal[p].text \in Text /\ proposal[p].review \in 0 .. MaxReviews
  BY <1>1 DEF Proposal
<1>3. Of(p) \in Materials
  BY <1>2, IssuePlace DEF Of
<1> QED BY <1>1, <1>2, <1>3

LEMMA AcceptedType ==
  ASSUME RowsTyped, NEW m, NEW p \in Accepted(m)
  PROVE  /\ p \in Proposals /\ Status(p) = "accepted" /\ Of(p) = m
         /\ proposal[p] \in Proposal /\ proposal[p].version \in Nat /\ proposal[p].text \in Text
         /\ proposal[p].issue \in Issues /\ SpotOf(proposal[p].issue) \in Spots
<1>1. p \in Proposals /\ Status(p) = "accepted" /\ Of(p) = m
  BY DEF Accepted
<1> QED BY <1>1, RowType, IssuePlace

LEMMA NoDraft == \A m : Accepted(m) = {} => Draft(m) = [version |-> 0, text |-> Original]
BY DEF Draft

(* Versions being told apart, the newest one is the draft.                 *)
DraftIsNewest ==
  \A m \in Materials : \A p : Newest(m, p) =>
    Draft(m) = [version |-> proposal[p].version, text |-> proposal[p].text]

LEMMA NewestDraft ==
  RowsTyped /\ VersionsOK => DraftIsNewest
<1> SUFFICES ASSUME RowsTyped, VersionsOK,
                    NEW m \in Materials, NEW p, Newest(m, p)
             PROVE  Draft(m) = [version |-> proposal[p].version, text |-> proposal[p].text]
  BY DEF DraftIsNewest
<1> DEFINE last == CHOOSE q \in Accepted(m) : \A r \in Accepted(m) : proposal[r].version <= proposal[q].version
<1>1. last \in Accepted(m) /\ \A r \in Accepted(m) : proposal[r].version <= proposal[last].version
  BY DEF Newest
<1>2. Draft(m) = [version |-> proposal[last].version, text |-> proposal[last].text]
  BY DEF Draft, Newest
<1> HIDE DEF last
<1>3. proposal[last].version <= proposal[p].version /\ proposal[p].version <= proposal[last].version
  BY <1>1 DEF Newest
<1>4. proposal[last].version \in Nat /\ proposal[p].version \in Nat
  BY <1>1, AcceptedType DEF Newest
<1>5. last = p
  BY <1>1, <1>3, <1>4 DEF VersionsOK, Newest
<1> QED BY <1>2, <1>5

LEMMA DraftType ==
  RowsTyped /\ VersionsOK =>
    \A m \in Materials :
      /\ Draft(m).version \in Nat /\ Draft(m).text \in Text
      /\ Draft(m).version = 0 => Accepted(m) = {} /\ Draft(m).text = Original
      /\ \A p \in Accepted(m) : proposal[p].version <= Draft(m).version
<1> SUFFICES ASSUME RowsTyped, VersionsOK, NEW m \in Materials
             PROVE  /\ Draft(m).version \in Nat /\ Draft(m).text \in Text
                    /\ Draft(m).version = 0 => Accepted(m) = {} /\ Draft(m).text = Original
                    /\ \A p \in Accepted(m) : proposal[p].version <= Draft(m).version
  OBVIOUS
<1>1. CASE Accepted(m) = {}
  <2>1. Original \in Text
    BY DEF Original, Text
  <2> QED BY <1>1, <2>1, NoDraft
<1>2. CASE Accepted(m) # {}
  <2>1. PICK p \in Accepted(m) : Newest(m, p)
    BY <1>2 DEF VersionsOK
  <2>2. Draft(m) = [version |-> proposal[p].version, text |-> proposal[p].text]
    BY <2>1, NewestDraft DEF DraftIsNewest
  <2>3. proposal[p].version \in Nat /\ proposal[p].text \in Text /\ proposal[p].version >= 1
    BY AcceptedType DEF VersionsOK
  <2> QED BY <2>1, <2>2, <2>3 DEF Newest
<1> QED BY <1>1, <1>2

(* A draft is what its accepted proposals are: steps that leave them alone *)
(* leave it alone.                                                         *)
LEMMA SameDraft ==
  ASSUME RowsTyped,
         RowsTyped',
         VersionsOK, VersionsOK', NEW m \in Materials,
         Accepted(m)' = Accepted(m), \A p \in Accepted(m) : proposal'[p] = proposal[p]
  PROVE  Draft(m)' = Draft(m)
<1>1. CASE Accepted(m) = {}
  <2>1. Draft(m)' = [version |-> 0, text |-> Original]
    BY <1>1 DEF Draft, Original
  <2> QED BY <1>1, <2>1, NoDraft
<1>2. CASE Accepted(m) # {}
  <2>1. PICK p \in Accepted(m) : Newest(m, p)
    BY <1>2 DEF VersionsOK
  <2>2. Newest(m, p)'
    BY <2>1 DEF Newest
  <2>3. DraftIsNewest'
    BY NewestDraft, PTL
  <2>5. Draft(m)' = [version |-> proposal'[p].version, text |-> proposal'[p].text]
    BY <2>2, <2>3 DEF DraftIsNewest
  <2>4. Draft(m) = [version |-> proposal[p].version, text |-> proposal[p].text]
    BY <2>1, NewestDraft DEF DraftIsNewest
  <2> QED BY <2>4, <2>5
<1> QED BY <1>1, <1>2

-----------------------------------------------------------------------------
(* The types.                                                              *)

LEMMA TypeInit == Init => TypeOK
<1> SUFFICES ASSUME Init PROVE TypeOK
  OBVIOUS
<1>1. phase \in [Tasks -> Phase]
  BY DEF Init, Phase
<1>2. question \in [Questions -> Question]
  BY BoundsAssumption DEF Init, Question, Ended
<1>3. 0 \in 0 .. MaxTasks /\ 0 \in 0 .. MaxReviews
  BY BoundsAssumption
<1>4. /\ proposal \in [Proposals -> {None} \cup Proposal]
      /\ annotation \in [Annotations -> {None} \cup Annotation]
      /\ call \in [Requests -> {None} \cup DraftCall \cup FollowupCall]
      /\ saved \in [Questions -> 0 .. MaxTasks]
  BY <1>3 DEF Init
<1> QED BY <1>1, <1>2, <1>3, <1>4 DEF Init, TypeOK

(* What the handler in flight and a request have read.                     *)
LEMMA ApiType ==
  ASSUME TypeOK
  PROVE  /\ InApi("generate") => api \in GenerateApi
         /\ InApi("decide") => api \in DecideApi
         /\ InApi("annotate") => api \in AnnotateApi
         /\ InApi("judge") => api \in JudgeApi
BY DEF TypeOK, InApi, Idle, GenerateApi, DecideApi, AnnotateApi, JudgeApi

LEMMA CallType ==
  ASSUME TypeOK, NEW r \in Requests
  PROVE  /\ Awaits(r, "draft") => call[r] \in DraftCall
         /\ Awaits(r, "followup") => call[r] \in FollowupCall
BY DEF TypeOK, Awaits, DraftCall, FollowupCall

LEMMA ReviewType == TypeOK /\ ReviewStep => TypeOK'
<1> SUFFICES ASSUME TypeOK, ReviewStep PROVE TypeOK'
  OBVIOUS
<1> USE DEF TypeOK
<1>1. CASE Freeze
  BY <1>1 DEF Freeze, rowVars, turnVars
<1>2. CASE Enqueue
  <2>1. newest + 1 \in Tasks /\ newest + 1 \in 0 .. MaxTasks
    BY <1>2, BoundsAssumption DEF Enqueue, Tasks
  <2>2. phase' \in [Tasks -> Phase]
    BY <1>2, <2>1 DEF Enqueue, Phase
  <2> QED BY <1>2, <2>1, <2>2 DEF Enqueue, rowVars, turnVars
<1>3. CASE Retry
  BY <1>3 DEF Retry, Phase, rowVars, turnVars
<1>4. CASE \E n \in Tasks : Finish(n)
  BY <1>4 DEF Finish, Phase, rowVars, turnVars
<1>5. CASE \E n \in Tasks : Store(n)
  BY <1>5, BoundsAssumption DEF Store, Phase, rowVars, turnVars
<1>6. CASE \E n \in Tasks : Note(n)
  BY <1>6, BoundsAssumption DEF Note, Phase, Tasks, rowVars, turnVars
<1> QED BY <1>1, <1>2, <1>3, <1>4, <1>5, <1>6 DEF ReviewStep

(* Proposals are made, judged and superseded.                              *)
LEMMA GenerateType ==
  ASSUME TypeOK, VersionsOK,
         \/ \E r \in Requests, i \in Issues : BeginGenerate(r, i)
         \/ Generate
         \/ \E r \in Requests : Drop(r) \/ \E p \in Proposals : Create(r, p)
  PROVE  TypeOK'
<1> USE DEF TypeOK
<1>1. ASSUME NEW r \in Requests, NEW i \in Issues, BeginGenerate(r, i) PROVE TypeOK'
  BY <1>1 DEF BeginGenerate, GenerateApi, reviewVars, rowVars, turnVars
<1>2. CASE Generate
  <2>1. api \in GenerateApi
    BY <1>2, ApiType DEF Generate
  <2>2. api.request \in Requests /\ api.issue \in Issues /\ api.review \in 0 .. MaxReviews
    BY <2>1 DEF GenerateApi
  <2>3. Draft(MaterialOf(api.issue)).version \in Nat /\ Draft(MaterialOf(api.issue)).text \in Text
    BY <2>2, IssuePlace, DraftType DEF RowsTyped
  <2>4. call' \in [Requests -> {None} \cup DraftCall \cup FollowupCall]
    BY <1>2, <2>2, <2>3 DEF Generate, DraftCall
  <2> QED BY <1>2, <2>4 DEF Generate, reviewVars, rowVars, turnVars
<1>3. ASSUME NEW r \in Requests, Drop(r) PROVE TypeOK'
  BY <1>3 DEF Drop, reviewVars, rowVars, turnVars
<1>4. ASSUME NEW r \in Requests, NEW p \in Proposals, Create(r, p) PROVE TypeOK'
  <2>1. call[r] \in DraftCall
    BY <1>4, CallType DEF Create
  <2>2. Original \in Text
    BY DEF Original, Text
  <2>3. proposal' \in [Proposals -> {None} \cup Proposal]
    BY <1>4, <2>1, <2>2 DEF Create, DraftCall, Proposal, ProposalStatus
  <2> QED BY <1>4, <2>3 DEF Create, reviewVars, turnVars
<1> QED BY <1>1, <1>2, <1>3, <1>4

(* A row changed in its status only, or accepted.                          *)
LEMMA StatusType == \A row \in Proposal : \A st \in ProposalStatus : [row EXCEPT !.status = st] \in Proposal
BY DEF Proposal

LEMMA AcceptedRowType ==
  ASSUME NEW row \in Proposal, NEW v \in Nat, NEW text \in Text
  PROVE  [row EXCEPT !.status = "accepted", !.version = v, !.text = text] \in Proposal
BY DEF Proposal, ProposalStatus

LEMMA DecideType ==
  ASSUME TypeOK, VersionsOK,
         \/ \E p \in Proposals, verdict \in Verdict : BeginDecide(p, verdict)
         \/ Supersede \/ Reject \/ Accept \/ Refuse
  PROVE  TypeOK'
<1> USE DEF TypeOK
<1>1. ASSUME NEW p \in Proposals, NEW verdict \in Verdict, BeginDecide(p, verdict) PROVE TypeOK'
  <2>1. Of(p) \in Materials
    BY <1>1, RowType DEF BeginDecide, RowsTyped, Status, Proposal, ProposalStatus
  <2>2. Draft(Of(p)).text \in Text
    BY <2>1, DraftType DEF RowsTyped
  <2>3. api' \in DecideApi
    BY <1>1, <2>2 DEF BeginDecide, DecideApi
  <2> QED BY <1>1, <2>3 DEF BeginDecide, reviewVars, rowVars, turnVars
<1>2. CASE Supersede \/ Reject
  <2>1. api \in DecideApi /\ Status(api.proposal) = "pending"
    BY <1>2, ApiType DEF Supersede, Reject
  <2>2. api.proposal \in Proposals /\ proposal[api.proposal] \in Proposal
    BY <2>1, RowType DEF DecideApi, RowsTyped
  <2>3. ASSUME NEW st \in ProposalStatus, proposal' = [proposal EXCEPT ![api.proposal].status = st]
        PROVE  proposal' \in [Proposals -> {None} \cup Proposal]
    BY <2>2, <2>3, StatusType
  <2>4. proposal' \in [Proposals -> {None} \cup Proposal]
    BY <1>2, <2>3 DEF Supersede, Reject, ProposalStatus
  <2> QED BY <1>2, <2>4 DEF Supersede, Reject, reviewVars, turnVars
<1>3. CASE Accept
  <2>1. api \in DecideApi /\ Status(api.proposal) = "pending"
    BY <1>3, ApiType DEF Accept
  <2>2. /\ api.proposal \in Proposals /\ proposal[api.proposal] \in Proposal /\ api.on \in Text
        /\ proposal[api.proposal].base + 1 \in Nat
    BY <2>1, RowType DEF DecideApi, RowsTyped
  <2>3. [api.on EXCEPT ![SpotOf(proposal[api.proposal].issue)] = api.proposal] \in Text
    BY <2>2 DEF Text
  <2>4. ASSUME NEW q \in Proposals PROVE proposal'[q] \in {None} \cup Proposal
    <3>1. CASE q = api.proposal
      BY <1>3, <2>2, <2>3, <3>1, AcceptedRowType DEF Accept
    <3>2. CASE q # api.proposal /\ Status(q) = "pending" /\ Of(q) = Of(api.proposal)
      <4>1. proposal[q] \in Proposal
        BY <3>2, RowType DEF RowsTyped
      <4> QED BY <1>3, <3>2, <4>1, StatusType DEF Accept, ProposalStatus
    <3>3. CASE q # api.proposal /\ ~(Status(q) = "pending" /\ Of(q) = Of(api.proposal))
      BY <1>3, <3>3 DEF Accept
    <3> QED BY <3>1, <3>2, <3>3
  <2>5. proposal' \in [Proposals -> {None} \cup Proposal]
    BY <1>3, <2>4 DEF Accept
  <2> QED BY <1>3, <2>5 DEF Accept, reviewVars, turnVars
<1>4. CASE Refuse
  BY <1>4 DEF Refuse, reviewVars, rowVars, turnVars
<1> QED BY <1>1, <1>2, <1>3, <1>4

LEMMA AnnotationType ==
  ASSUME TypeOK, JudgeOK, AnnotationStep
  PROVE  TypeOK'
<1> USE DEF TypeOK
<1>1. ASSUME NEW r \in Requests, BeginFollowup(r) \/ Recheck(r) PROVE TypeOK'
  BY <1>1 DEF BeginFollowup, Recheck, FollowupCall, AnnotateApi, reviewVars, rowVars, turnVars
<1>2. CASE BeginHuman
  BY <1>2 DEF BeginHuman, AnnotateApi, reviewVars, rowVars, turnVars
<1>3. ASSUME NEW a \in Annotations, Annotate(a) PROVE TypeOK'
  <2>1. api.source \in {"human", "model"} /\ api.review \in 0 .. MaxReviews
    BY <1>3, ApiType DEF Annotate, AnnotateApi
  <2>2. annotation' \in [Annotations -> {None} \cup Annotation]
    BY <1>3, <2>1 DEF Annotate, Annotation, AnnotationStatus
  <2> QED BY <1>3, <2>2 DEF Annotate, reviewVars, turnVars
<1>4. ASSUME NEW a \in Annotations, NEW verdict \in {"confirmed", "rejected"}, BeginJudge(a, verdict)
      PROVE  TypeOK'
  BY <1>4 DEF BeginJudge, JudgeApi, reviewVars, rowVars, turnVars
<1>5. CASE Judge
  <2>1. api.annotation \in Annotations /\ api.verdict \in AnnotationStatus
    BY <1>5, ApiType DEF Judge, JudgeApi, AnnotationStatus
  <2>2. annotation[api.annotation] \in Annotation
    BY <1>5, <2>1 DEF Judge, JudgeOK
  <2>3. [annotation[api.annotation] EXCEPT !.status = api.verdict] \in Annotation
    BY <2>1, <2>2 DEF Annotation
  <2>4. annotation' \in [Annotations -> {None} \cup Annotation]
    BY <1>5, <2>1, <2>3 DEF Judge
  <2> QED BY <1>5, <2>4 DEF Judge, reviewVars, turnVars
<1> QED BY <1>1, <1>2, <1>3, <1>4, <1>5 DEF AnnotationStep

LEMMA QuestionType ==
  ASSUME TypeOK, NEW q \in Questions, QuestionStep(q)
  PROVE  TypeOK'
<1> USE DEF TypeOK
<1>0. question[q] \in Question /\ question[q].streamed \in BOOLEAN /\ question[q].task \in 0 .. MaxTasks
  BY DEF Question
<1>1. ASSUME NEW what \in {"gone", "done", "refused", "timeout", "failed"}, End(q, what)
      PROVE  question' \in [Questions -> Question]
  <2>1. Ended(what) \in Question
    BY BoundsAssumption DEF Ended, Question, Told
  <2> QED BY <1>1, <2>1 DEF End
<1>2. ASSUME NEW where \in Asking, Goto(q, where) PROVE question' \in [Questions -> Question]
  <2>1. [question[q] EXCEPT !.at = where] \in Question
    BY <1>0 DEF Question
  <2> QED BY <1>2, <2>1 DEF Goto
<1>3. ASSUME NEW what \in {"done", "refused", "failed"}, Tell(q, what)
      PROVE  question' \in [Questions -> Question]
  BY <1>1, <1>3 DEF Tell
<1>4. CASE \E streamed \in BOOLEAN : Ask(q, streamed)
  <2>1. question' \in [Questions -> Question]
    BY <1>4 DEF Ask, Question, Asking
  <2> QED BY <1>4, <2>1 DEF Ask, reviewVars, rowVars
<1>5. CASE Reply(q) \/ ModelFails(q) \/ Pull(q) \/ TimeOut(q) \/ Leave(q)
  <2>1. question' \in [Questions -> Question]
    BY <1>1, <1>2, <1>5 DEF Reply, ModelFails, Pull, TimeOut, Leave, Asking
  <2> QED BY <1>5, <2>1 DEF Reply, ModelFails, Pull, TimeOut, Leave, reviewVars, rowVars
<1>6. CASE SaveTurn(q) \/ SaveFails(q)
  <2>1. question' \in [Questions -> Question]
    BY <1>3, <1>6 DEF SaveTurn, SaveFails
  <2>2. saved' \in [Questions -> 0 .. MaxTasks]
    BY <1>0, <1>6 DEF SaveTurn, SaveFails
  <2> QED BY <1>6, <2>1, <2>2 DEF SaveTurn, SaveFails, reviewVars, rowVars
<1> QED BY <1>4, <1>5, <1>6 DEF QuestionStep

LEMMA TypeStep == DraftInv /\ [Next]_vars => TypeOK'
<1> SUFFICES ASSUME DraftInv, [Next]_vars PROVE TypeOK'
  OBVIOUS
<1>0. TypeOK /\ VersionsOK /\ JudgeOK
  BY DEF DraftInv
<1>1. CASE UNCHANGED vars
  BY <1>0, <1>1 DEF TypeOK, vars, reviewVars, rowVars, turnVars
<1>2. CASE ReviewStep
  BY <1>0, <1>2, ReviewType
<1>3. CASE RevisionStep
  BY <1>0, <1>3, GenerateType, DecideType DEF RevisionStep
<1>4. CASE AnnotationStep
  BY <1>0, <1>4, AnnotationType
<1>5. CASE \E q \in Questions : QuestionStep(q)
  BY <1>0, <1>5, QuestionType
<1>6. CASE ApiDies
  <2>1. Ended("gone") \in Question
    BY BoundsAssumption DEF Ended, Question
  <2>2. question' \in [Questions -> Question]
    BY <1>0, <1>6, <2>1 DEF ApiDies, TypeOK
  <2> QED BY <1>0, <1>6, <2>2 DEF ApiDies, TypeOK, reviewVars, rowVars
<1> QED BY <1>1, <1>2, <1>3, <1>4, <1>5, <1>6 DEF Next

-----------------------------------------------------------------------------
(* The working draft, step by step.                                        *)

Kept == VersionsOK /\ WorkingDraftStands

(* A step that accepts nothing.                                            *)
LEMMA DraftsStay ==
  ASSUME DraftInv, TypeOK',
         \A m \in Materials : Accepted(m)' = Accepted(m),
         \A m \in Materials : \A p \in Accepted(m) : proposal'[p] = proposal[p]
  PROVE  /\ VersionsOK' /\ DraftKeepsEveryEdit'
         /\ \A m \in Materials : Draft(m)' = Draft(m)
<1>0. RowsTyped /\ RowsTyped' /\ VersionsOK /\ DraftKeepsEveryEdit
  BY DEF DraftInv, TypeOK, RowsTyped, WorkingDraftStands
<1>1. VersionsOK'
  BY <1>0 DEF VersionsOK, Newest
<1>2. \A m \in Materials : Draft(m)' = Draft(m)
  BY <1>0, <1>1, SameDraft
<1>3. DraftKeepsEveryEdit'
  BY <1>0, <1>2 DEF DraftKeepsEveryEdit
<1> QED BY <1>1, <1>2, <1>3

(* ... and proposes nothing.                                               *)
LEMMA NothingPutForward ==
  ASSUME DraftInv, TypeOK',
         \A p \in Proposals : \/ proposal'[p] = proposal[p]
                              \/ /\ Status(p) = "pending"
                                 /\ Status(p)' \in {"rejected", "superseded"}
  PROVE  Kept'
<1>0. RowsTyped /\ RowsTyped' /\ PendingOnNewestDraft
  BY DEF DraftInv, TypeOK, RowsTyped, WorkingDraftStands
<1>1. ASSUME NEW p \in Proposals
      PROVE  /\ Status(p)' = "accepted" <=> Status(p) = "accepted"
             /\ Status(p)' = "pending" => Status(p) = "pending"
             /\ Status(p)' \in {"pending", "accepted"} => proposal'[p] = proposal[p]
  BY DEF Status
<1>2. \A m \in Materials : Accepted(m)' = Accepted(m)
  BY <1>1 DEF Accepted, Of
<1>3. \A m \in Materials : \A p \in Accepted(m) : proposal'[p] = proposal[p]
  BY <1>1 DEF Accepted
<1>4. VersionsOK' /\ DraftKeepsEveryEdit' /\ \A m \in Materials : Draft(m)' = Draft(m)
  BY <1>2, <1>3, DraftsStay
<1>5. ASSUME NEW p \in Proposals, Status(p)' = "pending"
      PROVE  proposal'[p].base = Draft(Of(p))'.version /\ proposal'[p].on = Draft(Of(p))'.text
  <2>1. Status(p) = "pending" /\ proposal'[p] = proposal[p]
    BY <1>1, <1>5
  <2>2. Of(p) \in Materials /\ Of(p)' = Of(p)
    BY <1>0, <2>1, RowType DEF Of
  <2>3. Draft(Of(p))' = Draft(Of(p))
    BY <1>4, <2>2
  <2> QED BY <1>0, <2>1, <2>3 DEF PendingOnNewestDraft
<1> QED BY <1>4, <1>5 DEF Kept, WorkingDraftStands, PendingOnNewestDraft

(* A new proposal is on the draft as it stands, although the model was     *)
(* asked of an earlier state.                                              *)
LEMMA CreateKeeps ==
  ASSUME DraftInv, TypeOK', NEW r \in Requests, NEW p \in Proposals, Create(r, p)
  PROVE  Kept'
<1> DEFINE m == MaterialOf(call[r].issue)
<1>0. TypeOK /\ RowsTyped /\ RowsTyped' /\ VersionsOK /\ PendingOnNewestDraft /\ CallOK
  BY DEF DraftInv, TypeOK, RowsTyped, WorkingDraftStands
<1>1. /\ proposal[p] = None /\ proposal'[p].status = "pending"
      /\ proposal'[p].issue = call[r].issue
      /\ proposal'[p].base = call[r].base /\ proposal'[p].on = call[r].on
      /\ \A q \in Proposals : q # p => proposal'[q] = proposal[q]
  BY <1>0 DEF Create, TypeOK
<1>2. \A mm \in Materials : Accepted(mm)' = Accepted(mm)
  BY <1>1 DEF Accepted, Status, Of
<1>3. \A mm \in Materials : \A q \in Accepted(mm) : proposal'[q] = proposal[q]
  BY <1>1 DEF Accepted, Status
<1>4. VersionsOK' /\ DraftKeepsEveryEdit' /\ \A mm \in Materials : Draft(mm)' = Draft(mm)
  BY <1>2, <1>3, DraftsStay
<1>5. m \in Materials
  <2>1. call[r] \in DraftCall
    BY <1>0, CallType DEF Create
  <2> QED BY <2>1, IssuePlace DEF DraftCall
<1>6. Draft(m).version = call[r].base /\ Draft(m).text = call[r].on
  <2>1. Draft(m).version = call[r].base /\ (Draft(m).version # 0 => Draft(m).text = call[r].on)
    BY DEF Create, Fits
  <2>2. Draft(m).version = 0 => Draft(m).text = Original
    BY <1>0, <1>5, DraftType
  <2> QED BY <1>0, <2>1, <2>2 DEF CallOK, Create
<1>7. ASSUME NEW q \in Proposals, Status(q)' = "pending"
      PROVE  proposal'[q].base = Draft(Of(q))'.version /\ proposal'[q].on = Draft(Of(q))'.text
  <2>1. CASE q = p
    <3>1. Of(q)' = m
      BY <1>1, <2>1 DEF Of
    <3>2. Draft(Of(q))' = Draft(m)
      BY <1>4, <1>5, <3>1
    <3> QED BY <1>1, <1>6, <2>1, <3>2
  <2>2. CASE q # p
    <3>1. Status(q) = "pending" /\ proposal'[q] = proposal[q]
      BY <1>1, <1>7, <2>2 DEF Status
    <3>2. Of(q) \in Materials /\ Of(q)' = Of(q)
      BY <1>0, <3>1, RowType DEF Of
    <3>3. Draft(Of(q))' = Draft(Of(q))
      BY <1>4, <3>2
    <3> QED BY <1>0, <3>1, <3>3 DEF PendingOnNewestDraft
  <2> QED BY <2>1, <2>2
<1> QED BY <1>4, <1>7 DEF Kept, WorkingDraftStands, PendingOnNewestDraft

(* An accepted proposal is the newest of its material, beside the ones     *)
(* accepted before it, none of which it overwrites.                        *)
LEMMA AcceptKeeps ==
  ASSUME DraftInv, TypeOK', Accept
  PROVE  Kept'
<1>0. /\ TypeOK /\ RowsTyped /\ RowsTyped' /\ VersionsOK
      /\ DraftKeepsEveryEdit /\ PendingOnNewestDraft
  BY DEF DraftInv, TypeOK, RowsTyped, WorkingDraftStands
<1>a. /\ api.proposal \in Proposals /\ Status(api.proposal) = "pending"
      /\ proposal[api.proposal].issue \in Issues /\ api.on \in Text
  BY <1>0, ApiType, RowType DEF Accept, DecideApi
<1> PICK p \in Proposals : p = api.proposal
  BY <1>a
<1> PICK m \in Materials : m = Of(p)
  BY <1>a, IssuePlace DEF Of
<1> PICK here \in Spots : here = SpotOf(proposal[p].issue)
  BY <1>a, IssuePlace
<1> PICK on \in Text : on = api.on
  BY <1>a
<1>1. Status(p) = "pending"
  BY <1>a
<1>2. /\ proposal[p] \in Proposal /\ proposal[p].base \in Nat
  BY <1>0, <1>1, RowType
<1>3. /\ proposal[p].base = Draft(m).version /\ on = Draft(m).text
      /\ on[here] = None
  <2>1. ~Outdated(p) /\ on[here] = None
    BY DEF Accept, Located
  <2>2. on = proposal[p].on
    BY <2>1 DEF Outdated
  <2>3. proposal[p].base = Draft(m).version /\ proposal[p].on = Draft(m).text
    BY <1>0, <1>1 DEF PendingOnNewestDraft
  <2> QED BY <1>0, <1>2, <2>1, <2>2, <2>3, DraftType
<1>4. /\ proposal'[p].status = "accepted" /\ proposal'[p].issue = proposal[p].issue
      /\ proposal'[p].version = Draft(m).version + 1
      /\ proposal'[p].text = [on EXCEPT ![here] = p]
      /\ Status(p)' = "accepted"
  <2>1. proposal'[p] = [proposal[p] EXCEPT !.status = "accepted", !.version = proposal[p].base + 1,
                                           !.text = [on EXCEPT ![here] = p]]
    BY <1>1 DEF Accept
  <2>2. [on EXCEPT ![here] = p] \in Text
    BY <1>1, <1>3 DEF Text
  <2>3. proposal'[p] \in Proposal
    <3>1. PICK v \in Nat : v = proposal[p].base + 1
      BY <1>2
    <3>2. proposal'[p] = [proposal[p] EXCEPT !.status = "accepted", !.version = v,
                                             !.text = [on EXCEPT ![here] = p]]
      BY <2>1, <3>1
    <3>3. \A text \in Text : [proposal[p] EXCEPT !.status = "accepted", !.version = v, !.text = text] \in Proposal
      BY <1>2, AcceptedRowType
    <3> QED BY <2>2, <3>2, <3>3
  <2>4. proposal'[p] # None
    BY <2>3, NoneAssumption
  <2>5. proposal'[p].status = "accepted" /\ proposal'[p].issue = proposal[p].issue
        /\ proposal'[p].version = proposal[p].base + 1
        /\ proposal'[p].text = [on EXCEPT ![here] = p]
    BY <1>2, <2>1 DEF Proposal
  <2> QED BY <1>3, <2>4, <2>5 DEF Status
<1>5. ASSUME NEW q \in Proposals, q # p
      PROVE  /\ Status(q) = "pending" /\ Of(q) = m => Status(q)' \in {"superseded", "absent"}
             /\ ~(Status(q) = "pending" /\ Of(q) = m) => proposal'[q] = proposal[q]
  <2>1. CASE Status(q) = "pending" /\ Of(q) = m
    <3>1. proposal'[q] = [proposal[q] EXCEPT !.status = "superseded"]
      BY <1>5, <2>1 DEF Accept
    <3>2. proposal[q] \in Proposal
      BY <1>0, <2>1, RowType
    <3>3. proposal'[q].status = "superseded"
      BY <3>1, <3>2 DEF Proposal
    <3> QED BY <2>1, <3>3 DEF Status
  <2>2. CASE ~(Status(q) = "pending" /\ Of(q) = m)
    BY <1>5, <2>2 DEF Accept
  <2> QED BY <2>1, <2>2
<1>6. Accepted(m)' = Accepted(m) \cup {p}
  BY <1>1, <1>4, <1>5 DEF Accepted, Status, Of
<1>7. \A mm \in Materials : mm # m => Accepted(mm)' = Accepted(mm)
  BY <1>1, <1>4, <1>5 DEF Accepted, Status, Of
<1>8. \A mm \in Materials : \A q \in Accepted(mm) : q \in Proposals /\ q # p /\ proposal'[q] = proposal[q]
  BY <1>1, <1>5 DEF Accepted
<1>9. /\ Draft(m).version \in Nat /\ \A q \in Accepted(m) : proposal[q].version <= Draft(m).version
      /\ \A q \in Accepted(m) : proposal[q].version \in Nat
  BY <1>0, <1>2, DraftType, AcceptedType
<1>10. Newest(m, p)'
  BY <1>4, <1>6, <1>8, <1>9, <1>2 DEF Newest
<1>11. VersionsOK'
  <2>1. \A q \in Accepted(m)' : proposal'[q].version >= 1
    BY <1>0, <1>2, <1>4, <1>6, <1>8, <1>9 DEF VersionsOK
  <2>2. \A q1, q2 \in Accepted(m)' : proposal'[q1].version = proposal'[q2].version => q1 = q2
    BY <1>0, <1>2, <1>4, <1>6, <1>8, <1>9 DEF VersionsOK
  <2>3. ASSUME NEW mm \in Materials, mm # m
        PROVE  /\ \A q \in Accepted(mm)' : proposal'[q].version >= 1
               /\ \A q1, q2 \in Accepted(mm)' : proposal'[q1].version = proposal'[q2].version => q1 = q2
               /\ Accepted(mm)' # {} => \E q \in Accepted(mm)' : Newest(mm, q)'
    BY <1>0, <1>7, <1>8, <2>3 DEF VersionsOK, Newest
  <2> QED BY <1>6, <1>10, <2>1, <2>2, <2>3 DEF VersionsOK
<1>12. Draft(m)'.text = [on EXCEPT ![here] = p]
  <2>1. DraftIsNewest'
    BY <1>0, <1>11, NewestDraft, PTL
  <2>2. \A mm \in Materials : \A q : Newest(mm, q)' => Draft(mm)' = [version |-> proposal'[q].version, text |-> proposal'[q].text]
    BY <2>1 DEF DraftIsNewest
  <2> QED BY <1>2, <1>4, <1>10, <2>2
<1>13. \A mm \in Materials : mm # m => Draft(mm)' = Draft(mm)
  BY <1>0, <1>7, <1>8, <1>11, SameDraft
<1>14. DraftKeepsEveryEdit'
  <2>1. ASSUME NEW q \in Accepted(m)'
        PROVE  Draft(m)'.text[SpotOf(proposal'[q].issue)] = q
    <3>1. CASE q = p
      BY <1>2, <1>3, <1>4, <1>12, <3>1 DEF Text
    <3>2. CASE q # p
      <4>1. q \in Accepted(m) /\ proposal'[q] = proposal[q]
        BY <1>2, <1>6, <1>8, <3>2
      <4>2. on[SpotOf(proposal[q].issue)] = q /\ SpotOf(proposal[q].issue) \in Spots
        BY <1>0, <1>2, <1>3, <4>1, AcceptedType DEF DraftKeepsEveryEdit
      <4>3. SpotOf(proposal[q].issue) # here
        BY <1>2, <1>3, <1>8, <4>1, <4>2, NoneAssumption
      <4> QED BY <1>3, <1>12, <4>1, <4>2, <4>3 DEF Text
    <3> QED BY <3>1, <3>2
  <2>2. ASSUME NEW mm \in Materials, mm # m, NEW q \in Accepted(mm)'
        PROVE  Draft(mm)'.text[SpotOf(proposal'[q].issue)] = q
    BY <1>0, <1>7, <1>8, <1>13, <2>2 DEF DraftKeepsEveryEdit
  <2> QED BY <2>1, <2>2 DEF DraftKeepsEveryEdit
<1>15. PendingOnNewestDraft'
  <2> SUFFICES ASSUME NEW q \in Proposals, Status(q)' = "pending"
               PROVE  proposal'[q].base = Draft(Of(q))'.version /\ proposal'[q].on = Draft(Of(q))'.text
    BY DEF PendingOnNewestDraft
  <2>1. q # p
    BY <1>4
  <2>2. proposal'[q] = proposal[q] /\ Status(q) = "pending" /\ Of(q) # m
    BY <1>5, <2>1 DEF Status
  <2>3. Of(q)' = Of(q) /\ Of(q) \in Materials
    BY <1>0, <2>2, RowType DEF Of
  <2>4. Draft(Of(q))' = Draft(Of(q))
    BY <1>13, <2>2, <2>3
  <2> QED BY <1>0, <2>2, <2>4 DEF PendingOnNewestDraft
<1> QED BY <1>11, <1>14, <1>15 DEF Kept, WorkingDraftStands

(* Whoever waits for a draft is left alone, is new or is gone.             *)
LEMMA CallStep == DraftInv /\ [Next]_vars => CallOK'
<1> SUFFICES ASSUME DraftInv, [Next]_vars PROVE CallOK'
  OBVIOUS
<1>0. TypeOK /\ VersionsOK /\ CallOK
  BY DEF DraftInv
<1>1. CASE \A r \in Requests : call'[r] = call[r] \/ call'[r] = None \/ call'[r].kind = "followup"
  BY <1>0, <1>1 DEF CallOK, Awaits, Original
<1>2. CASE Generate
  <2>1. api.request \in Requests /\ api.issue \in Issues
    BY <1>0, <1>2, ApiType DEF Generate, GenerateApi
  <2>2. Draft(MaterialOf(api.issue)).version = 0 => Draft(MaterialOf(api.issue)).text = Original
    BY <1>0, <2>1, IssuePlace, DraftType DEF RowsTyped, TypeOK
  <2>3. /\ call'[api.request].base = Draft(MaterialOf(api.issue)).version
        /\ call'[api.request].on = Draft(MaterialOf(api.issue)).text
        /\ \A r \in Requests : r # api.request => call'[r] = call[r]
    BY <1>0, <1>2, <2>1 DEF Generate, TypeOK
  <2> QED BY <1>0, <2>1, <2>2, <2>3 DEF CallOK, Awaits, Original
<1>3. Generate \/ \A r \in Requests : call'[r] = call[r] \/ call'[r] = None \/ call'[r].kind = "followup"
  <2>1. \A r \in Requests : Drop(r) \/ Recheck(r) \/ (\E p \in Proposals : Create(r, p))
          => call' = [call EXCEPT ![r] = None]
    BY DEF Drop, Recheck, Create
  <2>2. \A r \in Requests : BeginFollowup(r)
          => call' = [call EXCEPT ![r] = [kind |-> "followup", review |-> review]]
    BY DEF BeginFollowup
  <2>3. ReviewStep => call' = call
    BY DEF ReviewStep, Freeze, Enqueue, Retry, Finish, Store, Note
  <2>4. \A q \in Questions : QuestionStep(q) => call' = call
    BY DEF QuestionStep, Ask, Reply, ModelFails, Pull, TimeOut, Leave, SaveTurn, SaveFails
  <2>5. RevisionStep => \/ Generate \/ call' = call
                        \/ \E r \in Requests : Drop(r) \/ \E p \in Proposals : Create(r, p)
    BY DEF RevisionStep, BeginGenerate, BeginDecide, Supersede, Reject, Accept, Refuse
  <2>6. AnnotationStep => call' = call \/ \E r \in Requests : BeginFollowup(r) \/ Recheck(r)
    BY DEF AnnotationStep, BeginHuman, Annotate, BeginJudge, Judge
  <2>7. UNCHANGED vars => call' = call
    BY DEF vars
  <2>8. ApiDies => \A r \in Requests : call'[r] = None
    BY DEF ApiDies
  <2> QED BY <1>0, <2>1, <2>2, <2>3, <2>4, <2>5, <2>6, <2>7, <2>8 DEF Next, TypeOK
<1> QED BY <1>1, <1>2, <1>3

(* Only Judge and Annotate write an annotation, and they end with it.      *)
LEMMA JudgeStep == DraftInv /\ [Next]_vars => JudgeOK'
<1> SUFFICES ASSUME DraftInv, [Next]_vars PROVE JudgeOK'
  OBVIOUS
<1>0. JudgeOK
  BY DEF DraftInv
<1>1. CASE api' = api /\ annotation' = annotation
  BY <1>0, <1>1 DEF JudgeOK, InApi, Idle
<1>2. CASE api' = None \/ api'.op # "judge"
  BY <1>2 DEF JudgeOK, InApi, Idle
<1>3. ASSUME NEW a \in Annotations, NEW verdict, BeginJudge(a, verdict) PROVE JudgeOK'
  BY <1>3 DEF BeginJudge, JudgeOK, rowVars
<1>4. \/ api' = api /\ annotation' = annotation
      \/ api' = None \/ api'.op # "judge"
      \/ \E a \in Annotations : \E verdict \in {"confirmed", "rejected"} : BeginJudge(a, verdict)
  <2>1. ReviewStep => api' = api /\ annotation' = annotation
    BY DEF ReviewStep, Freeze, Enqueue, Retry, Finish, Store, Note, rowVars
  <2>2. \A q \in Questions : QuestionStep(q) => api' = api /\ annotation' = annotation
    BY DEF QuestionStep, Ask, Reply, ModelFails, Pull, TimeOut, Leave, SaveTurn, SaveFails, rowVars
  <2>3. RevisionStep => api' = None \/ api'.op # "judge" \/ (api' = api /\ annotation' = annotation)
    <3>1. \A r \in Requests : \A i \in Issues : BeginGenerate(r, i) => api'.op # "judge"
      BY DEF BeginGenerate
    <3>2. \A p \in Proposals : \A verdict \in Verdict : BeginDecide(p, verdict) => api'.op # "judge"
      BY DEF BeginDecide
    <3>3. \A r \in Requests : Drop(r) \/ (\E p \in Proposals : Create(r, p))
            => api' = api /\ annotation' = annotation
      BY DEF Drop, Create, rowVars
    <3>4. Generate \/ Supersede \/ Reject \/ Accept \/ Refuse => api' = None
      BY DEF Generate, Supersede, Reject, Accept, Refuse
    <3> QED BY <3>1, <3>2, <3>3, <3>4 DEF RevisionStep
  <2>4. AnnotationStep =>
          \/ api' = None \/ api'.op # "judge" \/ (api' = api /\ annotation' = annotation)
          \/ \E a \in Annotations : \E verdict \in {"confirmed", "rejected"} : BeginJudge(a, verdict)
    BY DEF AnnotationStep, BeginFollowup, Recheck, BeginHuman, Annotate, Judge, rowVars
  <2>5. ApiDies => api' = None
    BY DEF ApiDies
  <2>6. UNCHANGED vars => api' = api /\ annotation' = annotation
    BY DEF vars, rowVars
  <2> QED BY <2>1, <2>2, <2>3, <2>4, <2>5, <2>6 DEF Next
<1> QED BY <1>1, <1>2, <1>3, <1>4

(* Which steps write proposals, and which write turns.                     *)
LEMMA ProposalWriters ==
  ASSUME [Next]_vars
  PROVE  \/ proposal' = proposal
         \/ Supersede \/ Reject \/ Accept \/ \E r \in Requests : \E p \in Proposals : Create(r, p)
<1>1. ReviewStep \/ AnnotationStep \/ ApiDies \/ UNCHANGED vars => proposal' = proposal
  BY DEF ReviewStep, Freeze, Enqueue, Retry, Finish, Store, Note, AnnotationStep, BeginFollowup, Recheck,
         BeginHuman, Annotate, BeginJudge, Judge, ApiDies, vars, rowVars
<1>2. \A q \in Questions : QuestionStep(q) => proposal' = proposal
  BY DEF QuestionStep, Ask, Reply, ModelFails, Pull, TimeOut, Leave, SaveTurn, SaveFails, rowVars
<1>3. RevisionStep =>
        \/ proposal' = proposal
        \/ Supersede \/ Reject \/ Accept \/ \E r \in Requests : \E p \in Proposals : Create(r, p)
  BY DEF RevisionStep, BeginGenerate, Generate, Drop, BeginDecide, Refuse, rowVars
<1> QED BY <1>1, <1>2, <1>3 DEF Next

LEMMA KeptStep == DraftInv /\ [Next]_vars => Kept'
<1> SUFFICES ASSUME DraftInv, [Next]_vars PROVE Kept'
  OBVIOUS
<1>0. TypeOK /\ TypeOK'
  BY TypeStep DEF DraftInv
<1>1. CASE proposal' = proposal
  BY <1>0, <1>1, NothingPutForward
<1>2. CASE Supersede \/ Reject
  <2>1. api.proposal \in Proposals /\ Status(api.proposal) = "pending"
    BY <1>0, <1>2, ApiType DEF Supersede, Reject, DecideApi
  <2>2. proposal[api.proposal] \in Proposal
    BY <1>0, <2>1, RowType DEF RowsTyped, TypeOK
  <2>3. PICK st \in {"superseded", "rejected"} : proposal' = [proposal EXCEPT ![api.proposal].status = st]
    BY <1>2 DEF Supersede, Reject
  <2>4. [proposal[api.proposal] EXCEPT !.status = st] \in Proposal
    BY <2>2, StatusType DEF ProposalStatus
  <2>5. \A q \in Proposals : q # api.proposal => proposal'[q] = proposal[q]
    BY <1>0, <2>1, <2>3 DEF TypeOK
  <2>6. ASSUME NEW q \in Proposals, q = api.proposal PROVE Status(q)' = st
    <3>1. proposal'[q] = [proposal[api.proposal] EXCEPT !.status = st]
      BY <1>0, <2>3, <2>6 DEF TypeOK
    <3>2. proposal'[q].status = st
      BY <2>2, <3>1 DEF Proposal
    <3>3. proposal'[q] # None
      BY <2>4, <3>1, NoneAssumption
    <3> QED BY <3>2, <3>3 DEF Status
  <2> QED BY <1>0, <2>1, <2>5, <2>6, NothingPutForward
<1>3. CASE Accept
  BY <1>0, <1>3, AcceptKeeps
<1>4. CASE \E r \in Requests : \E p \in Proposals : Create(r, p)
  BY <1>0, <1>4, CreateKeeps
<1>5. \/ proposal' = proposal
      \/ Supersede \/ Reject \/ Accept \/ \E r \in Requests : \E p \in Proposals : Create(r, p)
  BY ProposalWriters
<1> QED BY <1>1, <1>2, <1>3, <1>4, <1>5

LEMMA DraftInit == Init => DraftInv
<1> SUFFICES ASSUME Init PROVE DraftInv
  OBVIOUS
<1>1. \A m : Accepted(m) = {}
  BY DEF Init, Accepted, Status
<1>2. \A p \in Proposals : Status(p) = "absent"
  BY DEF Init, Status
<1>3. JudgeOK /\ CallOK
  BY DEF Init, JudgeOK, InApi, Idle, CallOK, Awaits
<1> QED BY <1>1, <1>2, <1>3, TypeInit DEF DraftInv, VersionsOK, WorkingDraftStands, DraftKeepsEveryEdit,
        PendingOnNewestDraft

LEMMA DraftStep == DraftInv /\ [Next]_vars => DraftInv'
BY TypeStep, CallStep, JudgeStep, KeptStep DEF DraftInv, Kept

LEMMA DraftInvariant == Spec => []DraftInv
BY DraftInit, DraftStep, PTL DEF Spec

-----------------------------------------------------------------------------
(* What it is for.                                                         *)

(* Rows and what handlers have read keep their types; a draft always has a *)
(* newest accepted proposal to be the text of.                             *)
THEOREM DocumentTypeCorrect == Spec => []TypeOK
<1>1. DraftInv => TypeOK
  BY DEF DraftInv
<1> QED BY <1>1, DraftInvariant, PTL

(* The draft keeps every accepted edit, and what waits for a decision was  *)
(* written on the draft as it stands.                                      *)
THEOREM WorkingDraftAlwaysStands == Spec => []WorkingDraftStands
<1>1. DraftInv => WorkingDraftStands
  BY DEF DraftInv
<1> QED BY <1>1, DraftInvariant, PTL

(* The questions: no turn is stored before its asker can be told of it.    *)
Unstored == \A q \in Questions : At(q, {"new"} \cup Asking) => saved[q] = 0
ToldInv == Unstored /\ ToldTruly

LEMMA QuestionAfter ==
  ASSUME TypeOK, NEW q \in Questions, NEW what, End(q, what) \/ Goto(q, what)
  PROVE  question'[q].at = what /\ \A o \in Questions : o # q => question'[o] = question[o]
<1>1. question[q] \in Question
  BY DEF TypeOK
<1>2. CASE End(q, what)
  BY <1>2 DEF TypeOK, End, Ended
<1>3. CASE Goto(q, what)
  BY <1>1, <1>3 DEF TypeOK, Goto, Question
<1> QED BY <1>2, <1>3

(* What a question's own step does to it.                                  *)
LEMMA QuestionTold ==
  ASSUME TypeOK, ToldInv, NEW q \in Questions, QuestionStep(q)
  PROVE  ToldInv'
<1>0. Unstored /\ ToldTruly /\ saved \in [Questions -> 0 .. MaxTasks]
  BY DEF ToldInv, TypeOK
<1>1. ASSUME \A o \in Questions : o # q => question'[o] = question[o] /\ saved'[o] = saved[o],
             question'[q].at \in {"new"} \cup Asking \cup {"refused", "timeout"} => saved'[q] = 0,
             question'[q].at = "done" => saved'[q] # 0
      PROVE  ToldInv'
  BY <1>0, <1>1 DEF ToldInv, Unstored, ToldTruly, At, Asking
<1>2. ASSUME NEW what \in Asking \cup {"gone", "failed", "timeout"}, End(q, what) \/ Goto(q, what),
             saved' = saved, At(q, {"new"} \cup Asking)
      PROVE  ToldInv'
  <2>1. saved[q] = 0
    BY <1>0, <1>2 DEF Unstored
  <2> QED BY <1>1, <1>2, <2>1, QuestionAfter DEF Asking
<1>3. CASE \E streamed \in BOOLEAN : Ask(q, streamed)
  <2>1. question'[q].at = "thinking" /\ \A o \in Questions : o # q => question'[o] = question[o]
    BY <1>3 DEF Ask, TypeOK
  <2>2. saved' = saved /\ saved[q] = 0
    BY <1>0, <1>3 DEF Ask, Unstored, At
  <2> QED BY <1>1, <2>1, <2>2 DEF Asking
<1>4. CASE Reply(q) \/ ModelFails(q) \/ Pull(q) \/ TimeOut(q)
  BY <1>2, <1>4 DEF Reply, ModelFails, Pull, TimeOut, At, Asking
<1>5. CASE Leave(q)
  BY <1>2, <1>5 DEF Leave, At, Asking
<1>6. CASE SaveTurn(q) \/ SaveFails(q)
  <2>1. saved[q] = 0 /\ question[q].task \in 0 .. MaxTasks /\ question[q] \in Question
    BY <1>0, <1>6 DEF SaveTurn, SaveFails, Saving, Unstored, At, Asking, TypeOK, Question
  <2>2. \A o \in Questions : o # q => saved'[o] = saved[o]
    BY <1>0, <1>6 DEF SaveTurn, SaveFails
  <2>3. ASSUME NEW what \in {"done", "refused", "failed"}, Tell(q, what)
        PROVE  /\ question'[q].at \in {"gone", what}
               /\ \A o \in Questions : o # q => question'[o] = question[o]
    <3>1. End(q, "gone") \/ End(q, what)
      BY <2>3 DEF Tell
    <3> QED BY <3>1, QuestionAfter
  <2>4. CASE Tell(q, "done") /\ saved' = [saved EXCEPT ![q] = question[q].task] /\ Current(question[q].task)
    <3>1. saved'[q] # 0
      BY <1>0, <2>4 DEF Current
    <3> QED BY <1>1, <2>2, <2>3, <2>4, <3>1 DEF Asking
  <2>5. CASE Tell(q, "refused") /\ saved' = saved
    BY <1>1, <2>1, <2>3, <2>5 DEF Asking
  <2>6. CASE Tell(q, "failed")
    BY <1>1, <2>2, <2>3, <2>6 DEF Asking
  <2> QED BY <1>6, <2>4, <2>5, <2>6 DEF SaveTurn, SaveFails
<1> QED BY <1>3, <1>4, <1>5, <1>6 DEF QuestionStep

LEMMA TurnsAlone ==
  ASSUME ReviewStep \/ RevisionStep \/ AnnotationStep \/ UNCHANGED vars
  PROVE  question' = question /\ saved' = saved
<1>1. ReviewStep \/ UNCHANGED vars => question' = question /\ saved' = saved
  BY DEF ReviewStep, Freeze, Enqueue, Retry, Finish, Store, Note, vars, turnVars
<1>2. RevisionStep => question' = question /\ saved' = saved
  BY DEF RevisionStep, BeginGenerate, Generate, Drop, Create, BeginDecide, Supersede, Reject, Accept,
         Refuse, turnVars
<1>3. AnnotationStep => question' = question /\ saved' = saved
  BY DEF AnnotationStep, BeginFollowup, Recheck, BeginHuman, Annotate, BeginJudge, Judge, turnVars
<1> QED BY <1>1, <1>2, <1>3

LEMMA ToldStep == TypeOK /\ ToldInv /\ [Next]_vars => ToldInv'
<1> SUFFICES ASSUME TypeOK, ToldInv, [Next]_vars PROVE ToldInv'
  OBVIOUS
<1>1. CASE \E q \in Questions : QuestionStep(q)
  BY <1>1, QuestionTold
<1>2. CASE ApiDies
  <2>1. /\ saved' = saved
        /\ \A q \in Questions : question'[q] = question[q] \/ question'[q].at = "gone"
    BY <1>2 DEF ApiDies, Ended, rowVars
  <2> QED BY <2>1 DEF ToldInv, Unstored, ToldTruly, At, Asking
<1>3. CASE question' = question /\ saved' = saved
  BY <1>3 DEF ToldInv, Unstored, ToldTruly, At
<1>4. ReviewStep \/ RevisionStep \/ AnnotationStep \/ UNCHANGED vars => question' = question /\ saved' = saved
  BY TurnsAlone
<1> QED BY <1>1, <1>2, <1>3, <1>4 DEF Next

(* Nobody is told of a turn that is not stored, nor to ask again when the  *)
(* turn is stored.                                                         *)
THEOREM AskersAreToldTruly == Spec => []ToldTruly
<1>1. Init => ToldInv
  BY DEF Init, ToldInv, Unstored, ToldTruly, At, Ended
<1>2. ToldInv => ToldTruly
  BY DEF ToldInv
<1> QED BY <1>1, <1>2, ToldStep, DocumentTypeCorrect, PTL DEF Spec

(* A review stored between a handler's reading and its transaction makes   *)
(* the proposal outdated.                                                  *)
THEOREM AcceptanceIsCurrent == Spec => AcceptedOnStoredReview
<1> DEFINE Accepting == \A p \in Proposals : Status(p) = "pending" /\ (Status(p) = "accepted")' =>
                          proposal[p].review = review
<1>1. TypeOK /\ [Next]_vars => [Accepting]_vars
  <2> SUFFICES ASSUME TypeOK, [Next]_vars, NEW p \in Proposals,
                      Status(p) = "pending", (Status(p) = "accepted")'
               PROVE  proposal[p].review = review
    OBVIOUS
  <2>1. proposal'[p] # proposal[p]
    BY DEF Status
  <2>2. CASE Accept
    <3>1. api.proposal \in Proposals
      BY <2>2, ApiType DEF Accept, DecideApi
    <3>2. CASE p = api.proposal
      BY <2>2, <3>2 DEF Accept, Outdated
    <3>3. CASE p # api.proposal
      <4>1. proposal'[p] = [proposal[p] EXCEPT !.status = "superseded"]
        BY <2>1, <2>2, <3>3 DEF Accept
      <4>2. proposal[p] \in Proposal
        BY RowType DEF RowsTyped, TypeOK
      <4> QED BY <4>1, <4>2 DEF Status, Proposal
    <3> QED BY <3>2, <3>3
  <2>3. CASE Supersede \/ Reject
    <3>1. proposal[p] \in Proposal
      BY RowType DEF RowsTyped, TypeOK
    <3>2. PICK st \in {"superseded", "rejected"} : proposal' = [proposal EXCEPT ![api.proposal].status = st]
      BY <2>3 DEF Supersede, Reject
    <3>3. proposal'[p] = [proposal[p] EXCEPT !.status = st]
      BY <2>1, <3>2 DEF TypeOK
    <3> QED BY <3>1, <3>3 DEF Status, Proposal
  <2>4. ASSUME NEW r \in Requests, NEW q \in Proposals, Create(r, q) PROVE FALSE
    BY <2>1, <2>4 DEF Create, Status, TypeOK
  <2>5. Accept \/ Supersede \/ Reject \/ \E r \in Requests : \E q \in Proposals : Create(r, q)
    BY <2>1, ProposalWriters
  <2> QED BY <2>2, <2>3, <2>4, <2>5
<1> QED BY <1>1, DocumentTypeCorrect, PTL DEF Spec, AcceptedOnStoredReview

(* The versions are checked again when the turn is stored.                 *)
THEOREM TurnsAreCurrent == Spec => TurnsOnNewestTask
<1> DEFINE Storing == \A q \in Questions : saved'[q] # saved[q] => saved'[q] = newest /\ aligned
<1>1. TypeOK /\ [Next]_vars => [Storing]_vars
  <2> SUFFICES ASSUME TypeOK, [Next]_vars, NEW q \in Questions, saved'[q] # saved[q]
               PROVE  saved'[q] = newest /\ aligned
    OBVIOUS
  <2>1. PICK o \in Questions : QuestionStep(o)
    BY TurnsAlone DEF Next, ApiDies
  <2>2. saved' = [saved EXCEPT ![o] = question[o].task] /\ Current(question[o].task)
    BY <2>1 DEF QuestionStep, Ask, Reply, ModelFails, Pull, TimeOut, Leave, SaveTurn, SaveFails
  <2>3. saved'[q] = question[o].task
    BY <2>2 DEF TypeOK
  <2> QED BY <2>2, <2>3 DEF Current
<1> QED BY <1>1, DocumentTypeCorrect, PTL DEF Spec, TurnsOnNewestTask
=============================================================================
