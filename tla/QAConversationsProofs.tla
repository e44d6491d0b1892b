------------------------ MODULE QAConversationsProofs -------------------------
(***************************************************************************)
(* What QAConversations guarantees for every set of conversations,         *)
(* questions and workers, although claims pass by the conversations' lock. *)
(***************************************************************************)
EXTENDS QAConversations, TLAPS, FiniteSetTheorems, SequenceTheorems

(* A run is queued only while a claim is left to it, and completed only    *)
(* with an answer or with questions.                                       *)
RowOK(row) ==
  /\ row.status = "queued" => row.attempt < MaxAttempts
  /\ row.status = "completed" => row.result \in {"answer", "questions"}

RowsOK ==
  /\ OneActiveRun
  /\ \A r \in Requests : RowOK(run[r])
  /\ \A i \in DOMAIN arrived : run[arrived[i]].status # "absent"
  /\ \A i, j \in DOMAIN arrived : arrived[i] = arrived[j] => i = j

LinksOK(c, lk, n) ==
  /\ \A h \in Handoffs : lk[h] # NoRun => /\ run[lk[h]].status = "completed"
                                          /\ run[lk[h]].result = "answer"
  /\ n = Cardinality({h \in Handoffs : lk[h] # NoRun})

(* What the rows an edit will write are to the rows that are there, which  *)
(* claims may have changed since it read them.                             *)
EditGood(c, e) ==
  /\ e \in EditOf(c)
  /\ e.then = "idle" => e.by \in Workers
  /\ e.about # NoRun => e.rows[e.about].status # "absent"
  /\ \A r, q \in RunsOf(c) : Active(e.rows[r]) /\ Active(e.rows[q]) => r = q
  /\ \A r \in RunsOf(c) :
       /\ RowOK(e.rows[r])
       /\ run[r].status # "absent" => e.rows[r].status # "absent"
       /\ run[r].status = "completed" => e.rows[r] = run[r]
  /\ LinksOK(c, e.links, e.cases)

EditsOK ==
  \A c \in Conversations : edit[c].by # Nobody => EditGood(c, edit[c])

(* A worker's attempt is not ahead of the row's, unless it was written over. *)
WorkersOK ==
  /\ \A w \in Workers : worker[w].pc # "idle" =>
       /\ worker[w].run \in Requests
       /\ raced[worker[w].run] \/ worker[w].attempt <= run[worker[w].run].attempt
  /\ FencedUnlessRaced

Inv ==
  /\ TypeOK /\ RowsOK /\ EditsOK /\ WorkersOK
  /\ \A c \in Conversations : LinksOK(c, links[c], cases[c])

-----------------------------------------------------------------------------

LEMMA NoEditTyped ==
  ASSUME NEW c \in Conversations
  PROVE  NoEdit(c) \in EditOf(c) /\ NoEdit(c).by = Nobody
BY BoundsAssumption DEF NoEdit, EditOf, Authors, NoRow, Row, Status

LEMMA InitInv == Init => Inv
<1> SUFFICES ASSUME Init PROVE Inv
  OBVIOUS
<1>1. TypeOK
  BY NoEditTyped, BoundsAssumption DEF Init, TypeOK, NoRow, Row, Status, Idle
<1>2. RowsOK
  BY DEF Init, RowsOK, RowOK, OneActiveRun, NoRow, Active
<1>3. EditsOK
  BY NoEditTyped DEF Init, EditsOK
<1>4. WorkersOK
  BY DEF Init, WorkersOK, FencedUnlessRaced, SameAttempt, Idle
<1>5. ASSUME NEW c \in Conversations PROVE LinksOK(c, links[c], cases[c])
  <2>1. {h \in Handoffs : links[c][h] # NoRun} = {}
    BY DEF Init
  <2> QED BY <2>1, FS_EmptySet DEF Init, LinksOK
<1> QED BY <1>1, <1>2, <1>3, <1>4, <1>5 DEF Inv

-----------------------------------------------------------------------------
(* The edits: what a load makes of the rows is good to write.              *)

LEMMA LoadedGood ==
  ASSUME Inv, NEW c \in Conversations, NEW by \in Workers \cup {Api},
         NEW then \in {"none", "renew", "idle"}, then = "idle" => by \in Workers,
         NEW about \in RunsOf(c) \cup {NoRun}, NEW row \in Row,
         about # NoRun =>
           /\ row.status # "absent" /\ run[about].status # "completed"
           /\ RowOK(row)
           /\ \A q \in RunsOf(c) : q # about => ~Active(run[q])
  PROVE  EditGood(c, Loaded(c, by, then, about, row))
<1> DEFINE e == Loaded(c, by, then, about, row)
<1>1. \A r \in RunsOf(c) : r \in Requests /\ r # NoRun /\ ConvOf[r] = c
  BY NamesAssumption DEF RunsOf
<1>2. /\ e.by = by /\ e.then = then /\ e.about = about
      /\ e.cases = cases[c] /\ e.links = links[c]
      /\ \A r \in RunsOf(c) : e.rows[r] = IF r = about THEN row ELSE run[r]
  BY DEF Loaded
<1>3. e \in EditOf(c)
  BY <1>1 DEF Inv, TypeOK, Loaded, EditOf, Authors
<1>4. \A r, q \in RunsOf(c) : Active(e.rows[r]) /\ Active(e.rows[q]) => r = q
  BY <1>1, <1>2 DEF Inv, RowsOK, OneActiveRun
<1>5. \A r \in RunsOf(c) :
       /\ RowOK(e.rows[r])
       /\ run[r].status # "absent" => e.rows[r].status # "absent"
       /\ run[r].status = "completed" => e.rows[r] = run[r]
  BY <1>1, <1>2 DEF Inv, RowsOK
<1>6. LinksOK(c, e.links, e.cases)
  BY <1>2 DEF Inv
<1>7. e.about # NoRun => e.rows[e.about].status # "absent"
  BY <1>2
<1> HIDE DEF e
<1> QED BY <1>2, <1>3, <1>4, <1>5, <1>6, <1>7 DEF EditGood, e

(* Beginning a good edit changes nothing but the edit in flight.           *)
LEMMA BeginKeepsInv ==
  ASSUME Inv, NEW c \in Conversations, NEW e, EditGood(c, e), Begin(c, e),
         UNCHANGED <<run, arrived, cases, links, raced>>, calls' \in 0 .. MaxCalls,
         worker' \in [Workers -> [run : Requests \cup {NoRun}, attempt : 0 .. MaxAttempts,
                                  pc : Held \cup {"idle"}]],
         \A w \in Workers : /\ worker'[w].run = worker[w].run
                            /\ worker'[w].attempt = worker[w].attempt
                            /\ worker'[w].pc # "idle" => worker[w].pc # "idle"
  PROVE  Inv'
<1>1. \A d \in Conversations : edit'[d] = IF d = c THEN e ELSE edit[d]
  BY DEF Begin, Inv, TypeOK
<1>2. TypeOK'
  BY <1>1 DEF Inv, TypeOK, EditGood, Begin
<1>3. RowsOK'
  BY DEF Inv, RowsOK, OneActiveRun
<1>4. EditsOK'
  <2> SUFFICES ASSUME NEW d \in Conversations, edit'[d].by # Nobody
               PROVE  EditGood(d, edit[d])'
    BY DEF EditsOK
  <2>1. EditGood(d, edit'[d])
    BY <1>1 DEF Inv, EditsOK
  <2> QED BY <2>1 DEF EditGood, LinksOK
<1>5. WorkersOK'
  BY DEF Inv, WorkersOK, FencedUnlessRaced, SameAttempt
<1>6. \A d \in Conversations : LinksOK(d, links[d], cases[d])'
  BY DEF Inv, LinksOK
<1> QED BY <1>2, <1>3, <1>4, <1>5, <1>6 DEF Inv

-----------------------------------------------------------------------------
(* The steps that begin an edit.                                           *)

LEMMA ConvOfType == \A r \in Requests : ConvOf[r] \in Conversations /\ r \in RunsOf(ConvOf[r])
BY ConvAssumption DEF RunsOf

LEMMA NoRowType == NoRow \in Row
BY BoundsAssumption DEF NoRow, Row, Status

LEMMA UserEditKeepsInv ==
  ASSUME Inv, NEW c \in Conversations, NEW e, EditGood(c, e), UserEdit(c, e)
  PROVE  Inv'
<1>1. calls' \in 0 .. MaxCalls
  BY BoundsAssumption DEF UserEdit, Inv, TypeOK
<1>2. worker' = worker /\ Begin(c, e) /\ UNCHANGED <<run, arrived, cases, links, raced>>
  BY DEF UserEdit
<1> QED BY <1>1, <1>2, BeginKeepsInv DEF Inv, TypeOK

LEMMA AddMaterialInv ==
  ASSUME Inv, NEW c \in Conversations, AddMaterial(c)
  PROVE  Inv'
<1>1. EditGood(c, Loaded(c, Api, "none", NoRun, NoRow))
  BY LoadedGood, NoRowType
<1> QED BY <1>1, UserEditKeepsInv DEF AddMaterial

LEMMA SendInv ==
  ASSUME Inv, NEW r \in Requests, Send(r)
  PROVE  Inv'
<1> DEFINE c == ConvOf[r]
<1>1. c \in Conversations /\ r \in RunsOf(c) /\ r # NoRun
  BY ConvOfType, NamesAssumption
<1>2. CASE UserEdit(c, Loaded(c, Api, "none", NoRun, NoRow))
  <2>1. EditGood(c, Loaded(c, Api, "none", NoRun, NoRow))
    BY <1>1, LoadedGood, NoRowType
  <2> QED BY <1>1, <1>2, <2>1, UserEditKeepsInv
<1>3. CASE /\ run[r].status = "absent" /\ NoneActive(c)
           /\ UserEdit(c, Loaded(c, Api, "none", r, [NoRow EXCEPT !.status = "queued"]))
  <2> DEFINE row == [NoRow EXCEPT !.status = "queued"]
  <2>1. row \in Row /\ row.status = "queued" /\ row.attempt = 0
    BY BoundsAssumption DEF NoRow, Row, Status
  <2>2. row.attempt < MaxAttempts
    BY <2>1, BoundsAssumption
  <2> HIDE DEF row
  <2>3. EditGood(c, Loaded(c, Api, "none", r, row))
    BY <1>1, <1>3, <2>1, <2>2, LoadedGood DEF NoneActive, RowOK
  <2> QED BY <1>1, <1>3, <2>3, UserEditKeepsInv DEF row
<1> QED BY <1>2, <1>3 DEF Send

LEMMA RetryInv ==
  ASSUME Inv, NEW r \in Requests, Retry(r)
  PROVE  Inv'
<1> DEFINE c == ConvOf[r]
           row == [run[r] EXCEPT !.status = "queued", !.result = "none"]
<1>1. c \in Conversations /\ r \in RunsOf(c) /\ r # NoRun
  BY ConvOfType, NamesAssumption
<1>2. row \in Row /\ row.status = "queued" /\ row.attempt = run[r].attempt
  BY DEF Inv, TypeOK, Row, Status
<1>3. /\ run[r].status = "failed" /\ NoneActive(c) /\ run[r].attempt < MaxAttempts
      /\ UserEdit(c, Loaded(c, Api, "none", r, row))
  BY DEF Retry
<1> HIDE DEF row
<1>4. EditGood(c, Loaded(c, Api, "none", r, row))
  BY <1>1, <1>2, <1>3, LoadedGood DEF NoneActive, RowOK
<1> QED BY <1>1, <1>3, <1>4, UserEditKeepsInv

LEMMA EditLinked ==
  ASSUME NEW c \in Conversations, NEW e, EditGood(c, e), NEW n \in Nat,
         NEW lk \in [Handoffs -> RunsOf(c) \cup {NoRun}], LinksOK(c, lk, n)
  PROVE  EditGood(c, [e EXCEPT !.links = lk, !.cases = n])
<1> DEFINE f == [e EXCEPT !.links = lk, !.cases = n]
<1>1. e \in EditOf(c)
  BY DEF EditGood
<1>2. /\ f.by = e.by /\ f.then = e.then /\ f.about = e.about /\ f.rows = e.rows
      /\ f.cases = n /\ f.links = lk /\ f \in EditOf(c)
  BY <1>1 DEF EditOf
<1> HIDE DEF f
<1>3. EditGood(c, f)
  BY <1>2 DEF EditGood
<1> QED BY <1>3 DEF f

LEMMA HandoffInv ==
  ASSUME Inv, NEW r \in Requests, NEW h \in Handoffs, Handoff(h, r)
  PROVE  Inv'
<1> DEFINE c == ConvOf[r]
           e == Loaded(c, Api, "none", NoRun, NoRow)
           f == [e EXCEPT !.links[h] = r, !.cases = @ + 1]
<1>1. c \in Conversations /\ r \in RunsOf(c) /\ r # NoRun
  BY ConvOfType, NamesAssumption
<1>2. EditGood(c, e) /\ e.links = links[c] /\ e.cases = cases[c]
  BY <1>1, LoadedGood, NoRowType DEF Loaded
<1>3. CASE links[c][h] = NoRun
  <2>1. /\ f.by = e.by /\ f.then = e.then /\ f.about = e.about /\ f.rows = e.rows
        /\ f.cases = cases[c] + 1 /\ f.links = [links[c] EXCEPT ![h] = r]
    BY <1>2 DEF Loaded
  <2>2. f = [e EXCEPT !.links = [links[c] EXCEPT ![h] = r], !.cases = cases[c] + 1]
    BY <1>2
  <2>3. LinksOK(c, f.links, f.cases)
    <3> DEFINE S == {k \in Handoffs : links[c][k] # NoRun}
               T == {k \in Handoffs : f.links[k] # NoRun}
    <3>0. DOMAIN links[c] = Handoffs
      BY <1>1 DEF Inv, TypeOK
    <3>1. \A k \in Handoffs : f.links[k] = IF k = h THEN r ELSE links[c][k]
      BY <2>1, <3>0
    <3>2. T = S \cup {h} /\ h \notin S
      BY <1>1, <1>3, <3>1
    <3>3. IsFiniteSet(S)
      BY HandoffsAssumption, FS_Subset
    <3>4. Cardinality(T) = Cardinality(S) + 1
      BY <3>2, <3>3, FS_AddElement
    <3>5. f.cases = Cardinality(T)
      BY <1>1, <2>1, <3>4 DEF Inv, LinksOK
    <3>6. run[r].status = "completed" /\ run[r].result # "questions"
      BY DEF Handoff
    <3>7. run[r].result = "answer"
      BY <3>6 DEF Inv, RowsOK, RowOK
    <3>8. \A k \in Handoffs : links[c][k] # NoRun => /\ run[links[c][k]].status = "completed"
                                                    /\ run[links[c][k]].result = "answer"
      BY <1>1 DEF Inv, LinksOK
    <3> HIDE DEF f
    <3> QED BY <3>1, <3>5, <3>6, <3>7, <3>8 DEF LinksOK
  <2>4. [links[c] EXCEPT ![h] = r] \in [Handoffs -> RunsOf(c) \cup {NoRun}]
    BY <1>1 DEF Inv, TypeOK
  <2>5. cases[c] + 1 \in Nat
    BY <1>1 DEF Inv, TypeOK
  <2>6. EditGood(c, f)
    <3> DEFINE lk == [links[c] EXCEPT ![h] = r]
               n == cases[c] + 1
    <3>1. LinksOK(c, lk, n)
      BY <2>1, <2>3
    <3>2. lk \in [Handoffs -> RunsOf(c) \cup {NoRun}] /\ n \in Nat
      BY <2>4, <2>5
    <3>3. f = [e EXCEPT !.links = lk, !.cases = n]
      BY <2>2
    <3> HIDE DEF e, f, lk, n
    <3>4. EditGood(c, [e EXCEPT !.links = lk, !.cases = n])
      BY <1>1, <1>2, <3>1, <3>2, EditLinked
    <3> QED BY <3>3, <3>4
  <2>7. UserEdit(c, f)
    BY <1>3 DEF Handoff, HandedOff
  <2> HIDE DEF f
  <2> QED BY <1>1, <2>6, <2>7, UserEditKeepsInv
<1>4. CASE links[c][h] # NoRun
  <2>1. UserEdit(c, e)
    BY <1>4 DEF Handoff, HandedOff
  <2> HIDE DEF e
  <2> QED BY <1>1, <1>2, <2>1, UserEditKeepsInv
<1> QED BY <1>3, <1>4

-----------------------------------------------------------------------------
(* The checkpoints of a worker.                                            *)

LEMMA CheckpointGood ==
  ASSUME Inv, NEW w \in Workers, worker[w].pc # "idle", Accepted(w),
         NEW then \in {"renew", "idle"}, NEW status \in {"running", "completed", "failed"},
         NEW result \in {"none", "answer", "questions"},
         status = "completed" => result # "none", Checkpoint(w, then, status, result)
  PROVE  \E c \in Conversations : \E e : EditGood(c, e) /\ Begin(c, e)
<1> DEFINE r == worker[w].run
           c == ConvOf[r]
           row == [run[r] EXCEPT !.status = status, !.lease = "live", !.result = result]
<1>1. r \in Requests /\ run[r].status = "running"
  BY DEF Inv, WorkersOK, Accepted
<1>2. c \in Conversations /\ r \in RunsOf(c) /\ r # NoRun
  BY <1>1, ConvOfType, NamesAssumption
<1>3. row \in Row /\ row.status = status /\ row.result = result
  <2>1. run[r] \in Row
    BY <1>1 DEF Inv, TypeOK
  <2> QED BY <2>1 DEF Row, Status
<1>4. \A q \in RunsOf(c) : q # r => ~Active(run[q])
  BY <1>1, <1>2 DEF Inv, RowsOK, OneActiveRun, Active, RunsOf
<1>5. Begin(c, Loaded(c, w, then, r, row))
  BY DEF Checkpoint
<1> HIDE DEF row
<1>6. EditGood(c, Loaded(c, w, then, r, row))
  BY <1>1, <1>2, <1>3, <1>4, LoadedGood DEF RowOK
<1> QED BY <1>2, <1>5, <1>6

LEMMA RenewInv ==
  ASSUME Inv, NEW w \in Workers, Renew(w)
  PROVE  Inv'
<1>1. /\ worker[w].pc # "idle" /\ Accepted(w)
      /\ Checkpoint(w, "renew", "running", run[worker[w].run].result)
  BY DEF Renew, Held
<1>2. run[worker[w].run].result \in {"none", "answer", "questions"}
  BY <1>1 DEF Inv, WorkersOK, TypeOK, Row
<1>3. PICK c \in Conversations : \E e : EditGood(c, e) /\ Begin(c, e)
  BY <1>1, <1>2, CheckpointGood
<1>4. worker' = worker /\ UNCHANGED <<run, arrived, cases, links, raced, calls>>
  BY DEF Renew
<1> QED BY <1>3, <1>4, BeginKeepsInv DEF Inv, TypeOK

LEMMA AnswerInv ==
  ASSUME Inv, NEW w \in Workers, NEW result \in {"answer", "questions"}, Answer(w, result)
  PROVE  Inv'
<1>1. /\ worker[w].pc # "idle" /\ Accepted(w)
      /\ Checkpoint(w, "idle", "completed", result)
  BY DEF Answer
<1>2. PICK c \in Conversations : \E e : EditGood(c, e) /\ Begin(c, e)
  BY <1>1, CheckpointGood
<1>3. /\ worker' = [worker EXCEPT ![w].pc = "saving"]
      /\ UNCHANGED <<run, arrived, cases, links, raced, calls>>
  BY DEF Answer
<1>4. /\ worker' \in [Workers -> [run : Requests \cup {NoRun}, attempt : 0 .. MaxAttempts,
                                  pc : Held \cup {"idle"}]]
      /\ \A v \in Workers : /\ worker'[v].run = worker[v].run
                            /\ worker'[v].attempt = worker[v].attempt
                            /\ worker'[v].pc # "idle" => worker[v].pc # "idle"
  BY <1>1, <1>3 DEF Inv, TypeOK, Held
<1> QED BY <1>2, <1>3, <1>4, BeginKeepsInv DEF Inv, TypeOK

(* Steps that touch a worker only.                                         *)
LEMMA WorkerOnlyInv ==
  ASSUME Inv, UNCHANGED <<run, arrived, cases, links, edit, raced, calls>>,
         worker' \in [Workers -> [run : Requests \cup {NoRun}, attempt : 0 .. MaxAttempts,
                                  pc : Held \cup {"idle"}]],
         \A w \in Workers : worker'[w].pc # "idle" =>
           /\ worker'[w].run = worker[w].run /\ worker'[w].attempt = worker[w].attempt
           /\ worker[w].pc # "idle"
  PROVE  Inv'
<1>1. TypeOK'
  BY DEF Inv, TypeOK
<1>2. RowsOK'
  BY DEF Inv, RowsOK, OneActiveRun
<1>3. EditsOK'
  <2> SUFFICES ASSUME NEW c \in Conversations, edit'[c].by # Nobody
               PROVE  EditGood(c, edit[c])'
    BY DEF EditsOK
  <2>1. EditGood(c, edit'[c])
    BY DEF Inv, EditsOK
  <2> QED BY <2>1 DEF EditGood, LinksOK
<1>4. WorkersOK'
  BY DEF Inv, WorkersOK, FencedUnlessRaced, SameAttempt
<1>5. \A d \in Conversations : LinksOK(d, links[d], cases[d])'
  BY DEF Inv, LinksOK
<1> QED BY <1>1, <1>2, <1>3, <1>4, <1>5 DEF Inv

LEMMA RaiseInv ==
  ASSUME Inv, NEW w \in Workers, Raise(w)
  PROVE  Inv'
<1>1. \A v \in Workers : worker'[v] = IF v = w THEN [worker[v] EXCEPT !.pc = "failing"]
                                      ELSE worker[v]
  BY DEF Raise, Inv, TypeOK
<1>2. worker' \in [Workers -> [run : Requests \cup {NoRun}, attempt : 0 .. MaxAttempts,
                               pc : Held \cup {"idle"}]]
  BY DEF Raise, Inv, TypeOK, Held
<1>3. \A v \in Workers : worker'[v].pc # "idle" =>
           /\ worker'[v].run = worker[v].run /\ worker'[v].attempt = worker[v].attempt
           /\ worker[v].pc # "idle"
  BY <1>1 DEF Raise, Inv, TypeOK
<1> QED BY <1>2, <1>3, WorkerOnlyInv DEF Raise

LEMMA IdleType ==
  Idle \in [run : Requests \cup {NoRun}, attempt : 0 .. MaxAttempts, pc : Held \cup {"idle"}]
BY BoundsAssumption DEF Idle

LEMMA FailInv ==
  ASSUME Inv, NEW w \in Workers, Fail(w)
  PROVE  Inv'
<1>1. CASE /\ Accepted(w) /\ Checkpoint(w, "idle", "failed", "none") /\ UNCHANGED worker
  <2>1. PICK c \in Conversations : \E e : EditGood(c, e) /\ Begin(c, e)
    BY <1>1, CheckpointGood DEF Fail
  <2> QED BY <1>1, <2>1, BeginKeepsInv DEF Fail, Inv, TypeOK
<1>2. CASE worker' = [worker EXCEPT ![w] = Idle] /\ UNCHANGED edit
  <2>1. \A v \in Workers : worker'[v] = IF v = w THEN Idle ELSE worker[v]
    BY <1>2 DEF Inv, TypeOK
  <2>2. worker' \in [Workers -> [run : Requests \cup {NoRun}, attempt : 0 .. MaxAttempts,
                                 pc : Held \cup {"idle"}]]
    BY <1>2, IdleType DEF Inv, TypeOK
  <2> QED BY <1>2, <2>1, <2>2, WorkerOnlyInv DEF Fail, Idle
<1> QED BY <1>1, <1>2 DEF Fail

-----------------------------------------------------------------------------
(* The end of an edit, and the death of a worker.                          *)

LEMMA EditWriteInv ==
  ASSUME Inv, NEW c \in Conversations, EditWrite(c)
  PROVE  Inv'
<1> DEFINE e == edit[c]
<1>1. EditGood(c, e) /\ e \in EditOf(c)
  BY DEF EditWrite, Unlocked, Inv, EditsOK, EditGood
<1>2. /\ \A r \in Requests : run'[r] = IF r \in RunsOf(c) THEN e.rows[r] ELSE run[r]
      /\ run' \in [Requests -> Row]
  BY <1>1 DEF EditWrite, RunsOf, EditOf, Inv, TypeOK
<1>3. \A d \in Conversations : edit'[d] = IF d = c THEN NoEdit(c) ELSE edit[d]
  BY DEF EditWrite, Inv, TypeOK
<1>4. \A w \in Workers : worker'[w] = IF e.then = "idle" /\ w = e.by THEN Idle ELSE worker[w]
  BY <1>1 DEF EditWrite, Inv, TypeOK, EditGood
<1>5. \A d \in Conversations : /\ links'[d] = IF d = c THEN e.links ELSE links[d]
                               /\ cases'[d] = IF d = c THEN e.cases ELSE cases[d]
  BY DEF EditWrite, Inv, TypeOK
<1>6. \A r \in Requests : raced'[r] <=> (raced[r] \/ run'[r].attempt < run[r].attempt)
  <2>1. \A r \in Requests : run[r].attempt \in Nat
    BY DEF Inv, TypeOK, Row
  <2> QED BY <1>2, <2>1 DEF EditWrite, RunsOf
<1>7. arrived' = arrived \/ (e.about \in RunsOf(c) /\ run[e.about].status = "absent"
                              /\ arrived' = Append(arrived, e.about))
  BY <1>1 DEF EditWrite, EditOf
<1>8. \A r \in RunsOf(c) : r \in Requests
  BY DEF RunsOf
<1> HIDE DEF e
<1>9. \A r \in Requests : run[r].status # "absent" => run'[r].status # "absent"
  BY <1>1, <1>2 DEF EditGood
<1>10. \A r \in Requests : run[r].status = "completed" => run'[r] = run[r]
  BY <1>1, <1>2 DEF EditGood
<1>a. TypeOK'
  <2>1. arrived' \in Seq(Requests)
    <3>1. arrived \in Seq(Requests)
      BY DEF Inv, TypeOK
    <3> QED BY <1>7, <1>8, <3>1, AppendProperties
  <2>2. raced' \in [Requests -> BOOLEAN] /\ DOMAIN links' = Conversations
          /\ DOMAIN edit' = Conversations /\ calls' = calls
    BY DEF EditWrite, Inv, TypeOK
  <2>3. cases' \in [Conversations -> Nat]
    BY <1>1, <1>5 DEF EditWrite, Inv, TypeOK, EditOf
  <2>4. \A d \in Conversations :
          links'[d] \in [Handoffs -> RunsOf(d) \cup {NoRun}] /\ edit'[d] \in EditOf(d)
    BY <1>1, <1>3, <1>5, NoEditTyped DEF Inv, TypeOK, EditOf
  <2>5. worker' \in [Workers -> [run : Requests \cup {NoRun}, attempt : 0 .. MaxAttempts,
                                 pc : Held \cup {"idle"}]]
    BY <1>1, <1>4, IdleType DEF EditWrite, Inv, TypeOK, EditGood
  <2>6. calls \in 0 .. MaxCalls
    BY DEF Inv, TypeOK
  <2> QED BY <1>2, <2>1, <2>2, <2>3, <2>4, <2>5, <2>6 DEF TypeOK
<1>b. RowsOK'
  <2>1. OneActiveRun'
    BY <1>1, <1>2 DEF EditGood, Inv, RowsOK, OneActiveRun, RunsOf
  <2>2. \A r \in Requests : RowOK(run'[r])
    BY <1>1, <1>2 DEF EditGood, Inv, RowsOK
  <2>3. \A i \in DOMAIN arrived : arrived[i] \in Requests /\ run[arrived[i]].status # "absent"
    BY DEF Inv, RowsOK, TypeOK
  <2>4. CASE arrived' = arrived
    BY <1>9, <2>1, <2>2, <2>3, <2>4 DEF RowsOK, RowOK, Inv
  <2>5. CASE /\ e.about \in RunsOf(c) /\ run[e.about].status = "absent"
             /\ arrived' = Append(arrived, e.about)
    <3>1. run'[e.about].status # "absent"
      BY <1>1, <1>2, <1>8, <2>5, NamesAssumption DEF EditGood
    <3>2. /\ arrived \in Seq(Requests) /\ DOMAIN arrived = 1 .. Len(arrived)
          /\ Len(arrived) \in Nat
      BY DEF Inv, TypeOK
    <3>3. /\ DOMAIN arrived' = 1 .. Len(arrived) + 1
          /\ \A i \in DOMAIN arrived' :
               arrived'[i] = IF i = Len(arrived) + 1 THEN e.about ELSE arrived[i]
      BY <2>5, <3>2
    <3>4. \A i \in DOMAIN arrived' : run'[arrived'[i]].status # "absent"
      BY <1>9, <2>3, <3>1, <3>2, <3>3
    <3>5. \A i, j \in DOMAIN arrived' : arrived'[i] = arrived'[j] => i = j
      BY <2>3, <2>5, <3>2, <3>3 DEF Inv, RowsOK
    <3> QED BY <2>1, <2>2, <3>4, <3>5 DEF RowsOK, RowOK
  <2> QED BY <1>7, <2>4, <2>5
<1>c. EditsOK'
  <2> SUFFICES ASSUME NEW d \in Conversations, edit'[d].by # Nobody
               PROVE  EditGood(d, edit[d])'
    BY DEF EditsOK
  <2>1. d # c /\ edit'[d] = edit[d] /\ EditGood(d, edit[d])
    BY <1>3, NoEditTyped DEF Inv, EditsOK
  <2>2. \A r \in RunsOf(d) : r \in Requests /\ run'[r] = run[r]
    BY <1>2, <2>1 DEF RunsOf
  <2>3. LinksOK(d, edit[d].links, edit[d].cases)'
    <3>1. \A h \in Handoffs : edit[d].links[h] # NoRun => edit[d].links[h] \in RunsOf(d)
      BY DEF Inv, TypeOK, EditOf
    <3> QED BY <2>1, <2>2, <3>1 DEF EditGood, LinksOK
  <2> QED BY <2>1, <2>2, <2>3 DEF EditGood
<1>d. WorkersOK'
  <2>1. \A r \in Requests : run[r].attempt \in Nat /\ run'[r].attempt \in Nat
    BY <1>2 DEF Inv, TypeOK, Row
  <2>2. \A w \in Workers : worker[w].attempt \in Nat
    BY DEF Inv, TypeOK
  <2>3. ASSUME NEW w \in Workers, worker'[w].pc # "idle"
        PROVE  /\ worker'[w] = worker[w] /\ worker[w].pc # "idle"
               /\ worker[w].run \in Requests
               /\ raced[worker[w].run] => raced'[worker[w].run]
               /\ raced'[worker[w].run] \/ worker[w].attempt <= run'[worker[w].run].attempt
    <3>1. worker'[w] = worker[w]
      BY <1>4, <2>3 DEF Idle
    <3>2. worker[w].run \in Requests
      BY <2>3, <3>1 DEF Inv, WorkersOK
    <3>3. raced[worker[w].run] \/ worker[w].attempt <= run[worker[w].run].attempt
      BY <2>3, <3>1 DEF Inv, WorkersOK
    <3> QED BY <1>6, <2>1, <2>2, <2>3, <3>1, <3>2, <3>3
  <2> QED BY <2>3 DEF Inv, WorkersOK, FencedUnlessRaced, SameAttempt
<1>e. \A d \in Conversations : LinksOK(d, links[d], cases[d])'
  <2> SUFFICES ASSUME NEW d \in Conversations PROVE LinksOK(d, links[d], cases[d])'
    OBVIOUS
  <2>1. LinksOK(d, links'[d], cases'[d])
    BY <1>1, <1>5 DEF EditGood, Inv
  <2>2. \A h \in Handoffs : links'[d][h] # NoRun => links'[d][h] \in Requests
    BY <1>a, <1>8 DEF TypeOK, RunsOf
  <2> QED BY <1>10, <2>1, <2>2 DEF LinksOK
<1> QED BY <1>a, <1>b, <1>c, <1>d, <1>e DEF Inv

(* A transaction given up, or a worker gone, frees conversations and       *)
(* workers; nothing else changes.                                          *)
LEMMA FreedInv ==
  ASSUME Inv, UNCHANGED <<run, arrived, cases, links, raced, calls>>,
         DOMAIN edit' = Conversations,
         \A c \in Conversations : edit'[c] \in {edit[c], NoEdit(c)},
         worker' \in [Workers -> [run : Requests \cup {NoRun}, attempt : 0 .. MaxAttempts,
                                  pc : Held \cup {"idle"}]],
         \A w \in Workers : worker'[w].pc # "idle" =>
           /\ worker'[w].run = worker[w].run /\ worker'[w].attempt = worker[w].attempt
           /\ worker[w].pc # "idle"
  PROVE  Inv'
<1>1. TypeOK'
  <2>1. \A c \in Conversations : edit'[c] \in EditOf(c)
    BY NoEditTyped DEF Inv, TypeOK
  <2> QED BY <2>1 DEF Inv, TypeOK
<1>2. RowsOK'
  BY DEF Inv, RowsOK, OneActiveRun
<1>3. EditsOK'
  <2> SUFFICES ASSUME NEW c \in Conversations, edit'[c].by # Nobody
               PROVE  EditGood(c, edit[c])'
    BY DEF EditsOK
  <2>1. edit'[c] = edit[c] /\ EditGood(c, edit[c])
    BY NoEditTyped DEF Inv, EditsOK
  <2> QED BY <2>1 DEF EditGood, LinksOK
<1>4. WorkersOK'
  BY DEF Inv, WorkersOK, FencedUnlessRaced, SameAttempt
<1>5. \A d \in Conversations : LinksOK(d, links[d], cases[d])'
  BY DEF Inv, LinksOK
<1> QED BY <1>1, <1>2, <1>3, <1>4, <1>5 DEF Inv

LEMMA EditLostInv ==
  ASSUME Inv, NEW c \in Conversations, EditLost(c)
  PROVE  Inv'
<1> DEFINE w == edit[c].by
<1>1. edit[c].then = "idle" => w \in Workers
  BY DEF EditLost, Unlocked, Inv, EditsOK, EditGood
<1>2. \A d \in Conversations : edit'[d] \in {edit[d], NoEdit(d)}
  BY DEF EditLost, Inv, TypeOK
<1>3. \/ worker' = worker
      \/ w \in Workers /\ worker[w].pc = "saving"
           /\ worker' = [worker EXCEPT ![w].pc = "failing"]
      \/ w \in Workers /\ worker' = [worker EXCEPT ![w] = Idle]
  BY <1>1 DEF EditLost
<1> HIDE DEF w
<1>a. /\ worker \in [Workers -> [run : Requests \cup {NoRun}, attempt : 0 .. MaxAttempts,
                                pc : Held \cup {"idle"}]]
      /\ "failing" \in Held /\ Idle.pc = "idle"
  BY DEF Inv, TypeOK, Held, Idle
<1>b. \A v \in Workers :
        \/ worker'[v] = worker[v]
        \/ worker'[v] = Idle
        \/ worker[v].pc = "saving" /\ worker'[v] = [worker[v] EXCEPT !.pc = "failing"]
  BY <1>3, <1>a
<1>c. worker' = [v \in Workers |-> worker'[v]]
  BY <1>3, <1>a
<1>4. worker' \in [Workers -> [run : Requests \cup {NoRun}, attempt : 0 .. MaxAttempts,
                               pc : Held \cup {"idle"}]]
  BY <1>a, <1>b, <1>c, IdleType
<1>5. \A v \in Workers : worker'[v].pc # "idle" =>
           /\ worker'[v].run = worker[v].run /\ worker'[v].attempt = worker[v].attempt
           /\ worker[v].pc # "idle"
  BY <1>a, <1>b
<1>6. /\ DOMAIN edit' = Conversations
      /\ UNCHANGED <<run, arrived, cases, links, raced, calls>>
  BY DEF EditLost, Inv, TypeOK
<1> QED BY <1>2, <1>4, <1>5, <1>6, FreedInv

LEMMA DieInv ==
  ASSUME Inv, NEW w \in Workers, Die(w)
  PROVE  Inv'
<1>1. /\ DOMAIN edit' = Conversations
      /\ \A d \in Conversations : edit'[d] \in {edit[d], NoEdit(d)}
      /\ UNCHANGED <<run, arrived, cases, links, raced, calls>>
  BY DEF Die
<1>2. \A v \in Workers : worker'[v] = IF v = w THEN Idle ELSE worker[v]
  BY DEF Die, Inv, TypeOK
<1>3. worker' \in [Workers -> [run : Requests \cup {NoRun}, attempt : 0 .. MaxAttempts,
                               pc : Held \cup {"idle"}]]
  BY IdleType DEF Die, Inv, TypeOK
<1> QED BY <1>1, <1>2, <1>3, FreedInv DEF Idle

-----------------------------------------------------------------------------
(* Claims and leases, which pass by the lock.                              *)

(* Only the lease of rows changes, of runs that are running.               *)
LEMMA LapseInv ==
  ASSUME Inv, NEW r \in Requests, Lapse(r)
  PROVE  Inv'
<1> DEFINE c == ConvOf[r]
<1>1. c \in Conversations /\ r \in RunsOf(c)
  BY ConvOfType
<1>2. /\ run' \in [Requests -> Row] /\ run[r].status = "running"
      /\ \A q \in Requests : /\ run'[q].status = run[q].status
                             /\ run'[q].attempt = run[q].attempt
                             /\ run'[q].result = run[q].result
                             /\ q # r => run'[q] = run[q]
  BY DEF Lapse, Inv, TypeOK, Row
<1>3. /\ DOMAIN edit' = Conversations
      /\ \A d \in Conversations :
           /\ edit'[d] \in EditOf(d)
           /\ edit'[d].by = edit[d].by /\ edit'[d].then = edit[d].then
           /\ edit'[d].about = edit[d].about /\ edit'[d].links = edit[d].links
           /\ edit'[d].cases = edit[d].cases
           /\ \A q \in RunsOf(d) : /\ edit'[d].rows[q].status = edit[d].rows[q].status
                                   /\ edit'[d].rows[q].attempt = edit[d].rows[q].attempt
                                   /\ edit'[d].rows[q].result = edit[d].rows[q].result
                                   /\ q # r => edit'[d].rows[q] = edit[d].rows[q]
  <2>1. CASE edit' = edit
    BY <2>1 DEF Inv, TypeOK
  <2>2. CASE edit' = [edit EXCEPT ![c].rows[r].lease = "lapsed"]
    <3>1. \A d \in Conversations : edit[d] \in EditOf(d)
      BY DEF Inv, TypeOK
    <3>2. edit[c].rows[r] \in Row
      BY <1>1, <3>1 DEF EditOf
    <3>3. DOMAIN edit = Conversations
      BY DEF Inv, TypeOK
    <3>4. \A d \in Conversations : d # c => edit'[d] = edit[d]
      BY <2>2, <3>3
    <3>5. edit'[c] = [edit[c] EXCEPT !.rows[r].lease = "lapsed"]
      BY <1>1, <2>2, <3>3
    <3>6. /\ edit'[c].by = edit[c].by /\ edit'[c].then = edit[c].then
          /\ edit'[c].about = edit[c].about /\ edit'[c].links = edit[c].links
          /\ edit'[c].cases = edit[c].cases
          /\ edit'[c].rows = [edit[c].rows EXCEPT ![r].lease = "lapsed"]
          /\ edit'[c] \in EditOf(c)
      BY <1>1, <3>1, <3>2, <3>5 DEF EditOf, Row
    <3>7. \A q \in RunsOf(c) :
            edit'[c].rows[q] = IF q = r THEN [edit[c].rows[r] EXCEPT !.lease = "lapsed"]
                                        ELSE edit[c].rows[q]
      BY <1>1, <3>1, <3>6 DEF EditOf
    <3>8. DOMAIN edit' = Conversations
      BY <2>2, <3>3
    <3>9. \A q \in RunsOf(c) : /\ edit'[c].rows[q].status = edit[c].rows[q].status
                               /\ edit'[c].rows[q].attempt = edit[c].rows[q].attempt
                               /\ edit'[c].rows[q].result = edit[c].rows[q].result
                               /\ q # r => edit'[c].rows[q] = edit[c].rows[q]
      BY <3>2, <3>7 DEF Row
    <3> HIDE DEF c
    <3>10. ASSUME NEW d \in Conversations
           PROVE  /\ edit'[d] \in EditOf(d)
                  /\ edit'[d].by = edit[d].by /\ edit'[d].then = edit[d].then
                  /\ edit'[d].about = edit[d].about /\ edit'[d].links = edit[d].links
                  /\ edit'[d].cases = edit[d].cases
                  /\ \A q \in RunsOf(d) :
                       /\ edit'[d].rows[q].status = edit[d].rows[q].status
                       /\ edit'[d].rows[q].attempt = edit[d].rows[q].attempt
                       /\ edit'[d].rows[q].result = edit[d].rows[q].result
                       /\ q # r => edit'[d].rows[q] = edit[d].rows[q]
      <4>1. CASE d = c
        BY <3>6, <3>9, <4>1
      <4>2. CASE d # c
        BY <3>1, <3>4, <4>2
      <4> QED BY <4>1, <4>2
    <3> QED BY <3>8, <3>10
  <2> QED BY <2>1, <2>2 DEF Lapse
<1>4. UNCHANGED <<arrived, cases, links, worker, raced, calls>>
  BY DEF Lapse
<1>5. TypeOK'
  BY <1>2, <1>3, <1>4 DEF Inv, TypeOK
<1>6. RowsOK'
  <2>1. \A i \in DOMAIN arrived : arrived[i] \in Requests
    BY DEF Inv, TypeOK
  <2> QED BY <1>2, <1>4, <2>1 DEF Inv, RowsOK, RowOK, OneActiveRun, Active
<1>7. EditsOK'
  <2> SUFFICES ASSUME NEW d \in Conversations, edit'[d].by # Nobody
               PROVE  EditGood(d, edit[d])'
    BY DEF EditsOK
  <2>1. EditGood(d, edit[d])
    BY <1>3 DEF Inv, EditsOK
  <2>2. \A q \in RunsOf(d) : q \in Requests
    BY DEF RunsOf
  <2>3. /\ edit'[d] \in EditOf(d)
        /\ edit'[d].then = "idle" => edit'[d].by \in Workers
        /\ edit'[d].about # NoRun => edit'[d].rows[edit'[d].about].status # "absent"
    BY <1>3, <2>1 DEF EditGood, EditOf
  <2>4. \A p, q \in RunsOf(d) : Active(edit'[d].rows[p]) /\ Active(edit'[d].rows[q]) => p = q
    BY <1>3, <2>1 DEF EditGood, Active
  <2>5. \A q \in RunsOf(d) :
       /\ RowOK(edit'[d].rows[q])
       /\ run'[q].status # "absent" => edit'[d].rows[q].status # "absent"
       /\ run'[q].status = "completed" => edit'[d].rows[q] = run'[q]
    BY <1>2, <1>3, <2>1, <2>2 DEF EditGood, RowOK
  <2>6. LinksOK(d, edit[d].links, edit[d].cases)'
    <3>1. \A h \in Handoffs : edit[d].links[h] # NoRun => edit[d].links[h] \in Requests
      BY <2>1 DEF EditGood, EditOf, RunsOf
    <3>2. edit'[d].links = edit[d].links /\ edit'[d].cases = edit[d].cases
      BY <1>3
    <3> QED BY <1>2, <2>1, <3>1, <3>2 DEF EditGood, LinksOK
  <2> QED BY <2>3, <2>4, <2>5, <2>6 DEF EditGood, RowOK
<1>8. WorkersOK'
  BY <1>2, <1>4 DEF Inv, WorkersOK, FencedUnlessRaced, SameAttempt
<1>9. \A d \in Conversations : LinksOK(d, links[d], cases[d])'
  <2>1. \A d \in Conversations, h \in Handoffs : links[d][h] # NoRun => links[d][h] \in Requests
    BY DEF Inv, TypeOK, RunsOf
  <2> QED BY <1>2, <1>4, <2>1 DEF Inv, LinksOK
<1> QED BY <1>5, <1>6, <1>7, <1>8, <1>9 DEF Inv

LEMMA ClaimInv ==
  ASSUME Inv, NEW w \in Workers, Claim(w)
  PROVE  Inv' /\ \A q \in Requests : run[q].status = "completed" => run'[q] = run[q]
<1>1. PICK i \in DOMAIN arrived :
        LET r == arrived[i]
            rows == [q \in Requests |-> IF q = r THEN Take(run[r]) ELSE Sweep(run[q])]
            given == FirstRunning(ConvOf[r], rows)
        IN /\ Claimable(i)
           /\ run' = rows
           /\ worker' = [worker EXCEPT ![w] = [run |-> given, attempt |-> rows[given].attempt,
                                               pc |-> "running"]]
  BY DEF Claim
<1> DEFINE r == arrived[i]
           rows == [q \in Requests |-> IF q = r THEN Take(run[r]) ELSE Sweep(run[q])]
           c == ConvOf[r]
<1>2. /\ worker[w].pc = "idle" /\ run[r].status = "queued"
      /\ UNCHANGED <<arrived, cases, links, edit, raced, calls>>
  BY <1>1 DEF Claim, Claimable
<1>3. /\ arrived \in Seq(Requests) /\ DOMAIN arrived = 1 .. Len(arrived) /\ r \in Requests
      /\ \A j \in DOMAIN arrived : arrived[j] \in Requests
  BY DEF Inv, TypeOK
<1>4. run \in [Requests -> Row] /\ run[r].attempt + 1 \in 0 .. MaxAttempts
  <2>1. run \in [Requests -> Row] /\ run[r].attempt < MaxAttempts
    BY <1>2, <1>3 DEF Inv, TypeOK, RowsOK, RowOK
  <2>2. run[r].attempt \in 0 .. MaxAttempts
    BY <1>3, <2>1 DEF Row
  <2> QED BY <2>1, <2>2, BoundsAssumption
<1>5. /\ rows[r].status = "running" /\ rows[r].attempt = run[r].attempt + 1
      /\ rows[r].result = run[r].result /\ rows[r] \in Row
  <2>1. rows[r] = [run[r] EXCEPT !.status = "running", !.attempt = @ + 1, !.lease = "live"]
    BY <1>3 DEF Take
  <2>2. run[r] \in Row
    BY <1>3, <1>4
  <2> HIDE DEF rows, r
  <2> QED BY <1>4, <2>1, <2>2 DEF Row, Status
<1>6. \A q \in Requests \ {r} :
        /\ rows[q] \in Row /\ rows[q].attempt = run[q].attempt
        /\ \/ rows[q] = run[q]
           \/ run[q].status = "running" /\ rows[q].status = "failed"
  BY <1>4 DEF Sweep, Lapsed, Row, Status
<1>7. rows \in [Requests -> Row]
  BY <1>5, <1>6
<1>8. run' = rows
  BY <1>1
(* The run handed out is the one claimed.                                  *)
<1>9. FirstRunning(c, rows) = r
  <2> DEFINE P(j) == /\ ConvOf[arrived[j]] = c /\ rows[arrived[j]].status = "running"
                     /\ \A k \in 1 .. j - 1 :
                          ~(ConvOf[arrived[k]] = c /\ rows[arrived[k]].status = "running")
  <2>1. \A j \in DOMAIN arrived :
          ConvOf[arrived[j]] = c /\ rows[arrived[j]].status = "running" => arrived[j] = r
    <3> SUFFICES ASSUME NEW j \in DOMAIN arrived, ConvOf[arrived[j]] = c,
                        rows[arrived[j]].status = "running", arrived[j] # r
                 PROVE  FALSE
      OBVIOUS
    <3>1. run[arrived[j]].status = "running"
      BY <1>3, <1>6
    <3> QED BY <1>2, <1>3, <3>1 DEF Inv, RowsOK, OneActiveRun, Active
  <2>2. \A j \in DOMAIN arrived : arrived[j] = r => j = i
    BY DEF Inv, RowsOK
  <2>3. P(i)
    <3>1. \A k \in 1 .. i - 1 : k \in DOMAIN arrived /\ k # i
      BY <1>3
    <3> HIDE DEF rows
    <3> QED BY <1>5, <2>1, <2>2, <3>1
  <2>4. \A j \in DOMAIN arrived : P(j) => arrived[j] = r
    BY <2>1
  <2> HIDE DEF P, c, rows
  <2>5. (CHOOSE j \in DOMAIN arrived : P(j)) \in DOMAIN arrived
          /\ P(CHOOSE j \in DOMAIN arrived : P(j))
    BY <2>3
  <2>6. arrived[CHOOSE j \in DOMAIN arrived : P(j)] = r
    BY <2>4, <2>5
  <2> QED BY <2>6 DEF FirstRunning, P
<1>10. worker' = [worker EXCEPT ![w] = [run |-> r, attempt |-> rows[r].attempt,
                                        pc |-> "running"]]
  BY <1>1, <1>9
<1> HIDE DEF rows
<1>11. \A v \in Workers : worker'[v] = IF v = w THEN [run |-> r, attempt |-> run[r].attempt + 1,
                                                      pc |-> "running"] ELSE worker[v]
  BY <1>5, <1>10 DEF Inv, TypeOK
<1>12. \A q \in Requests : /\ run[q].status = "completed" => run'[q] = run[q]
                           /\ run[q].status # "absent" => run'[q].status # "absent"
                           /\ Active(run'[q]) => Active(run[q])
                           /\ RowOK(run'[q])
  BY <1>2, <1>3, <1>5, <1>6, <1>8 DEF Active, RowOK, Inv, RowsOK
<1>13. \A q \in Requests : run'[q].status = "absent" => run[q].status = "absent"
  BY <1>12
<1>a. TypeOK'
  <2>1. worker' \in [Workers -> [run : Requests \cup {NoRun}, attempt : 0 .. MaxAttempts,
                                 pc : Held \cup {"idle"}]]
    BY <1>3, <1>4, <1>5, <1>10 DEF Inv, TypeOK, Held
  <2> QED BY <1>2, <1>7, <1>8, <2>1 DEF Inv, TypeOK
<1>b. RowsOK'
  BY <1>2, <1>3, <1>12 DEF Inv, RowsOK, OneActiveRun
<1>c. EditsOK'
  <2> SUFFICES ASSUME NEW d \in Conversations, edit'[d].by # Nobody
               PROVE  EditGood(d, edit[d])'
    BY DEF EditsOK
  <2>1. edit'[d] = edit[d] /\ EditGood(d, edit[d])
    BY <1>2 DEF Inv, EditsOK
  <2>2. \A q \in RunsOf(d) : q \in Requests
    BY DEF RunsOf
  <2>3. \A q \in RunsOf(d) :
       /\ RowOK(edit[d].rows[q])
       /\ run'[q].status # "absent" => edit[d].rows[q].status # "absent"
       /\ run'[q].status = "completed" => edit[d].rows[q] = run'[q]
    <3> SUFFICES ASSUME NEW q \in RunsOf(d)
                 PROVE  /\ RowOK(edit[d].rows[q])
                        /\ run'[q].status # "absent" => edit[d].rows[q].status # "absent"
                        /\ run'[q].status = "completed" => edit[d].rows[q] = run'[q]
      OBVIOUS
    <3>1. run'[q].status # "absent" => run[q].status # "absent"
      BY <1>2, <1>3, <1>6, <1>8, <2>2
    <3>2. run'[q].status = "completed" => run'[q] = run[q]
      BY <1>2, <1>3, <1>5, <1>6, <1>8, <2>2
    <3> QED BY <2>1, <3>1, <3>2 DEF EditGood
  <2>4. LinksOK(d, edit[d].links, edit[d].cases)'
    <3>1. \A h \in Handoffs : edit[d].links[h] # NoRun => edit[d].links[h] \in Requests
      BY <2>1 DEF EditGood, EditOf, RunsOf
    <3> QED BY <1>12, <2>1, <3>1 DEF EditGood, LinksOK
  <2> QED BY <2>1, <2>3, <2>4 DEF EditGood, RowOK
<1>d. WorkersOK'
  <2>1. \A q \in Requests : /\ run[q].attempt \in Nat /\ run'[q].attempt \in Nat
                            /\ run[q].attempt <= run'[q].attempt
    BY <1>4, <1>5, <1>6, <1>7, <1>8 DEF Row
  <2>2. \A v \in Workers : worker[v].attempt \in Nat
    BY DEF Inv, TypeOK
  <2>3. ASSUME NEW v \in Workers, worker'[v].pc # "idle"
        PROVE  /\ worker'[v].run \in Requests
               /\ raced'[worker'[v].run] \/ worker'[v].attempt <= run'[worker'[v].run].attempt
    <3>1. CASE v = w
      BY <1>3, <1>5, <1>8, <1>11, <2>1, <3>1
    <3>2. CASE v # w
      <4>1. worker'[v] = worker[v] /\ worker[v].run \in Requests
              /\ (raced[worker[v].run] \/ worker[v].attempt <= run[worker[v].run].attempt)
        BY <1>11, <2>3, <3>2 DEF Inv, WorkersOK
      <4> QED BY <1>2, <2>1, <2>2, <4>1
    <3> QED BY <3>1, <3>2
  <2>4. ASSUME NEW v \in Workers, v # w, SameAttempt(w, v)' \/ SameAttempt(v, w)'
        PROVE  raced'[worker'[w].run]
    <3>1. /\ worker[v].pc # "idle" /\ worker[v].run = r
          /\ worker[v].attempt = run[r].attempt + 1 /\ worker'[w].run = r
      BY <1>11, <2>4 DEF SameAttempt
    <3>2. raced[r] \/ worker[v].attempt <= run[r].attempt
      BY <3>1 DEF Inv, WorkersOK
    <3> QED BY <1>2, <1>3, <2>1, <3>1, <3>2
  <2>5. FencedUnlessRaced'
    <3> SUFFICES ASSUME NEW u \in Workers, NEW v \in Workers, SameAttempt(u, v)', u # v
                 PROVE  raced'[worker'[u].run]
      BY DEF FencedUnlessRaced
    <3>1. CASE u # w /\ v # w
      BY <1>2, <1>11, <3>1 DEF Inv, WorkersOK, FencedUnlessRaced, SameAttempt
    <3>2. worker'[u].run = worker'[v].run
      BY DEF SameAttempt
    <3> QED BY <2>4, <3>1, <3>2
  <2> QED BY <2>3, <2>5 DEF WorkersOK
<1>e. \A d \in Conversations : LinksOK(d, links[d], cases[d])'
  <2>1. \A d \in Conversations, h \in Handoffs : links[d][h] # NoRun => links[d][h] \in Requests
    BY DEF Inv, TypeOK, RunsOf
  <2> QED BY <1>2, <1>12, <2>1 DEF Inv, LinksOK
<1> QED BY <1>12, <1>a, <1>b, <1>c, <1>d, <1>e DEF Inv

-----------------------------------------------------------------------------

LEMMA NextInv == Inv /\ [Next]_vars => Inv'
<1> SUFFICES ASSUME Inv, [Next]_vars PROVE Inv'
  OBVIOUS
<1>1. CASE UserStep
  BY <1>1, AddMaterialInv, SendInv, RetryInv, HandoffInv DEF UserStep
<1>2. CASE \E w \in Workers : Claim(w) \/ Renew(w) \/ End(w) \/ Die(w)
  BY <1>2, ClaimInv, RenewInv, AnswerInv, RaiseInv, FailInv, DieInv DEF End
<1>3. CASE \E c \in Conversations : EditWrite(c) \/ EditLost(c)
  BY <1>3, EditWriteInv, EditLostInv
<1>4. CASE \E r \in Requests : Lapse(r)
  BY <1>4, LapseInv
<1>5. CASE UNCHANGED vars
  <2>1. worker' = worker /\ edit' = edit /\ UNCHANGED <<run, arrived, cases, links, raced, calls>>
    BY <1>5 DEF vars
  <2> QED BY <2>1, WorkerOnlyInv DEF Inv, TypeOK
<1> QED BY <1>1, <1>2, <1>3, <1>4, <1>5 DEF Next

LEMMA Invariance == Spec => []Inv
BY InitInv, NextInv, PTL DEF Spec

(* The variables keep their types: the attempts stay within the claims a   *)
(* run may have, and an edit in flight only holds rows of its conversation. *)
THEOREM TypeCorrect == Spec => []TypeOK
<1>1. Inv => TypeOK
  BY DEF Inv
<1> QED BY <1>1, Invariance, PTL

(* One run of a conversation is queued or running, although claims and     *)
(* sweeps change its runs without the lock enqueue and retry decide under. *)
THEOREM OneActiveRunHolds == Spec => []OneActiveRun
<1>1. Inv => OneActiveRun
  BY DEF Inv, RowsOK
<1> QED BY <1>1, Invariance, PTL

(* The attempt fences workers apart except after an edit wrote over a      *)
(* claim: the stale write is the only hole in the fence.                   *)
THEOREM FencedUnlessRacedHolds == Spec => []FencedUnlessRaced
<1>1. Inv => FencedUnlessRaced
  BY DEF Inv, WorkersOK
<1> QED BY <1>1, Invariance, PTL

(* A formal review handed off from a conversation rests on a completed     *)
(* answer, and keeps resting on it.                                        *)
THEOREM HandedOffAnsweredHolds == Spec => []HandedOffAnswered
<1>1. Inv => HandedOffAnswered
  BY DEF Inv, LinksOK, HandedOffAnswered
<1> QED BY <1>1, Invariance, PTL

(* Each handoff request started one case.                                  *)
THEOREM OneCasePerHandoffHolds == Spec => []OneCasePerHandoff
<1>1. Inv => OneCasePerHandoff
  BY DEF Inv, LinksOK, OneCasePerHandoff
<1> QED BY <1>1, Invariance, PTL

LEMMA CompletedStep ==
  ASSUME Inv, [Next]_vars, NEW r \in Requests, run[r].status = "completed"
  PROVE  run'[r] = run[r]
<1>1. CASE run' = run
  BY <1>1
<1>2. CASE \E w \in Workers : Claim(w)
  BY <1>2, ClaimInv
<1>3. CASE \E c \in Conversations : EditWrite(c)
  <2>1. PICK c \in Conversations : EditWrite(c)
    BY <1>3
  <2>2. EditGood(c, edit[c])
    BY <2>1 DEF EditWrite, Unlocked, Inv, EditsOK
  <2> QED BY <2>1, <2>2 DEF EditWrite, EditGood, RunsOf
<1>4. CASE \E q \in Requests : Lapse(q)
  BY <1>4 DEF Lapse, Inv, TypeOK
<1>5. \/ run' = run
      \/ \E w \in Workers : Claim(w)
      \/ \E c \in Conversations : EditWrite(c)
      \/ \E q \in Requests : Lapse(q)
  BY DEF Next, vars, UserStep, UserEdit, AddMaterial, Send, Retry, Handoff, Renew, End,
         Answer, Raise, Fail, Die, EditLost
<1> QED BY <1>1, <1>2, <1>3, <1>4, <1>5

(* A completed run stands, whatever stale rows are written.                *)
THEOREM CompletedStandsHolds == Spec => CompletedStands
<1>1. Inv /\ [Next]_vars =>
        [\A r \in Requests : run[r].status = "completed" => run'[r] = run[r]]_vars
  BY CompletedStep
<1> QED BY <1>1, Invariance, PTL DEF Spec, CompletedStands
====
