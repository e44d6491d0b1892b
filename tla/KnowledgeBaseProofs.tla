-------------------------- MODULE KnowledgeBaseProofs --------------------------
(***************************************************************************)
(* What the two parts of the knowledge base guarantee: the corpus and the  *)
(* index (KnowledgePublishing) for every set of sources, texts, records    *)
(* and archives, any number of generations, and whatever copies a failed   *)
(* import leaves; the pages found on the web (EnrichmentJobs) for every    *)
(* set of pages, cases and workers.  The parts share no state, and are     *)
(* proved apart.                                                           *)
(***************************************************************************)
EXTENDS KnowledgePublishing, EnrichmentJobs, TLAPS

(***************************************************************************)
(* The corpus and the index                                                *)
(***************************************************************************)

Publishing == {"embed", "stagePg", "stageEs", "verify", "esOff", "esOn", "pgSwitch", "backOff",
               "backOn", "manifest", "chunks", "state", "raw", "dropEs", "dropPg"}
Removing == {"rmManifest", "rmChunks", "rmState", "rmRaw", "delEs", "delPg"}
Publications == {"import", "edit", "restore"}

(* A publication is running or being compensated.                          *)
IsPublication == op.pc \in Publishing \/ (At("restore") /\ op.kind # "trash")

(* What an operation carries, by where it stands.                          *)
WellFormed ==
  /\ At("embed") => Len(made) < MaxGens
  /\ op.pc \in Publishing \cup Removing \cup {"restore"} => S \in Sources /\ op.snap \in Files
  /\ op.failing => S \in Sources
  /\ op.pc \in Removing => op.kind = "trash"
  /\ At("restore") /\ op.kind = "trash" => op.undo = "nothing"
  /\ IsPublication => /\ op.kind \in Publications
                      /\ op.doc \in Docs /\ op.hash \in Bodies
                      /\ ~At("embed") => op.gen \in Gens

TypeInv == TypeOK /\ WellFormed

(* One field at a time, and then the changes the steps make, each a chain  *)
(* of changes of one field.                                                *)
LEMMA PcType == \A r \in Op : \A step \in Steps : [r EXCEPT !.pc = step] \in Op
BY DEF Op

LEMMA FailingType == \A r \in Op : \A bad \in BOOLEAN : [r EXCEPT !.failing = bad] \in Op
BY DEF Op

LEMMA UndoType == \A r \in Op : \A u \in Undos : [r EXCEPT !.undo = u] \in Op
BY DEF Op

LEMMA GenerationType ==
  ASSUME NEW r \in Op, NEW g \in Gens \cup {NoGen}
  PROVE  /\ [r EXCEPT !.target = g] \in Op
         /\ [r EXCEPT !.prev = g] \in Op
         /\ [r EXCEPT !.old = g] \in Op
         /\ [r EXCEPT !.gen = g] \in Op
<1>1. [r EXCEPT !.target = g] \in Op
  BY DEF Op
<1>2. [r EXCEPT !.prev = g] \in Op
  BY DEF Op
<1>3. [r EXCEPT !.old = g] \in Op
  BY DEF Op
<1>4. [r EXCEPT !.gen = g] \in Op
  BY DEF Op
<1> QED BY <1>1, <1>2, <1>3, <1>4

LEMMA GotoType ==
  ASSUME op \in Op, NEW step \in Steps, NEW bad \in BOOLEAN, NEW u \in Undos
  PROVE  /\ [op EXCEPT !.pc = step] \in Op
         /\ [op EXCEPT !.pc = step, !.failing = bad] \in Op
         /\ [op EXCEPT !.pc = step, !.failing = bad, !.undo = u] \in Op
<1> DEFINE r == [op EXCEPT !.pc = step]
           q == [r EXCEPT !.failing = bad]
<1>1. r \in Op
  BY PcType
<1>2. [op EXCEPT !.pc = step, !.failing = bad] = q
  OBVIOUS
<1>3. [op EXCEPT !.pc = step, !.failing = bad, !.undo = u] = [q EXCEPT !.undo = u]
  OBVIOUS
<1> HIDE DEF r
<1>4. q \in Op
  BY <1>1, FailingType
<1> HIDE DEF q
<1>5. [q EXCEPT !.undo = u] \in Op
  BY <1>4, UndoType
<1> QED BY <1>1, <1>2, <1>3, <1>4, <1>5 DEF r

LEMMA SwitchType ==
  ASSUME op \in Op, NEW step \in Steps, NEW g \in Gens \cup {NoGen}, NEW h \in Gens \cup {NoGen},
         NEW k \in Gens \cup {NoGen}
  PROVE  /\ [op EXCEPT !.pc = step, !.target = g, !.prev = h, !.old = k] \in Op
         /\ [op EXCEPT !.pc = step, !.target = g, !.prev = h] \in Op
         /\ [op EXCEPT !.pc = step, !.gen = g] \in Op
<1> DEFINE r == [op EXCEPT !.pc = step]
           q == [r EXCEPT !.target = g]
           p == [q EXCEPT !.prev = h]
<1>1. r \in Op
  BY PcType
<1>2. [op EXCEPT !.pc = step, !.gen = g] = [r EXCEPT !.gen = g]
  OBVIOUS
<1>3. [op EXCEPT !.pc = step, !.target = g, !.prev = h] = p
  OBVIOUS
<1>4. [op EXCEPT !.pc = step, !.target = g, !.prev = h, !.old = k] = [p EXCEPT !.old = k]
  OBVIOUS
<1> HIDE DEF r
<1>5. q \in Op /\ [r EXCEPT !.gen = g] \in Op
  BY <1>1, GenerationType
<1> HIDE DEF q
<1>6. p \in Op
  BY <1>5, GenerationType
<1> HIDE DEF p
<1>7. [p EXCEPT !.old = k] \in Op
  BY <1>6, GenerationType
<1> QED BY <1>2, <1>3, <1>4, <1>5, <1>6, <1>7

LEMMA NoOpType == NoOp \in Op
BY DEF NoOp, Op, Steps, Undos, NoGen

(* How operations end, and what an exception does.                         *)
LEMMA EndedType ==
  ASSUME op \in Op
  PROVE  /\ Ended \in Op /\ EndedFailing \in Op
         /\ Ended.pc \in {"idle", "unarchive"} /\ EndedFailing.pc \in {"idle", "unarchive"}
         /\ Ended.failing => Ended.source = S
         /\ EndedFailing.failing => EndedFailing.source = S
<1>1. [op EXCEPT !.pc = "unarchive"] \in Op /\ [op EXCEPT !.pc = "unarchive", !.failing = TRUE] \in Op
  BY GotoType DEF Steps, Undos
<1>2. /\ [op EXCEPT !.pc = "unarchive"].pc = "unarchive"
      /\ [op EXCEPT !.pc = "unarchive"].source = op.source
      /\ [op EXCEPT !.pc = "unarchive", !.failing = TRUE].pc = "unarchive"
      /\ [op EXCEPT !.pc = "unarchive", !.failing = TRUE].source = op.source
  BY DEF Op
<1>3. NoOp.pc = "idle" /\ NoOp.failing = FALSE
  BY DEF NoOp
<1> QED BY <1>1, <1>2, <1>3, NoOpType DEF Ended, EndedFailing, S

LEMMA RaiseType ==
  ASSUME op \in Op
  PROVE  /\ Raise \in Op
         /\ \/ Raise.pc \in {"idle", "unarchive"} /\ (Raise.failing => Raise.source = S)
            \/ Raise = [op EXCEPT !.pc = "restore", !.failing = TRUE, !.undo = UndoAt(op.pc)]
<1>1. UndoAt(op.pc) \in Undos
  BY DEF UndoAt, Undos
<1>2. [op EXCEPT !.pc = "restore", !.failing = TRUE, !.undo = UndoAt(op.pc)] \in Op
  BY <1>1, GotoType DEF Steps
<1> QED BY <1>2, EndedType DEF Raise

-----------------------------------------------------------------------------
(* The type invariant.                                                     *)

LEMMA TypeInit == Init => TypeInv
<1> SUFFICES ASSUME Init PROVE TypeOK /\ WellFormed
  BY DEF TypeInv
<1>1. files \in Files
  BY DEF Init, Files
<1>2. TypeOK
  BY <1>1, NoOpType, ValuesAssumption DEF Init, TypeOK, Gens
<1>3. WellFormed
  BY DEF Init, WellFormed, IsPublication, At, NoOp, Publishing, Removing
<1> QED BY <1>2, <1>3

(* A step that ends an operation, and one that carries it on.              *)
LEMMA RestsWell ==
  ASSUME op'.pc \in {"idle", "unarchive"}, op'.failing => op'.source \in Sources
  PROVE  WellFormed'
BY DEF WellFormed, IsPublication, At, Publishing, Removing, S

LEMMA CarriesWell ==
  ASSUME TypeInv, op.pc \in Publishing \cup Removing \cup {"restore"}, ~At("embed"),
         op'.pc # "embed",
         op'.kind = op.kind, op'.source = op.source, op'.doc = op.doc, op'.hash = op.hash,
         op'.gen = op.gen, op'.snap = op.snap,
         op'.pc \in Publishing => IsPublication,
         op'.pc \in Removing => op.pc \in Removing,
         op'.pc = "restore" => (op.kind = "trash" => op'.undo = "nothing")
  PROVE  WellFormed'
<1>1. IsPublication' => IsPublication
  BY DEF TypeInv, WellFormed, IsPublication, At, Publishing, Removing, Publications
<1> QED BY <1>1 DEF TypeInv, WellFormed, At, S, IsPublication

(* An exception, wherever it is raised.                                    *)
LEMMA RaisesWell ==
  ASSUME TypeInv, op.pc \in Publishing \cup Removing, ~At("embed"), op' = Raise
  PROVE  WellFormed' /\ op' \in Op
<1>0. op \in Op
  BY DEF TypeInv, TypeOK
<1>1. CASE op' = [op EXCEPT !.pc = "restore", !.failing = TRUE, !.undo = UndoAt(op.pc)]
  <2>1. /\ op'.pc = "restore" /\ op'.kind = op.kind /\ op'.source = op.source /\ op'.doc = op.doc
        /\ op'.hash = op.hash /\ op'.gen = op.gen /\ op'.snap = op.snap /\ op'.undo = UndoAt(op.pc)
    BY <1>0, <1>1 DEF Op
  <2>2. op.kind = "trash" => op.pc \in Removing
    BY DEF TypeInv, WellFormed, IsPublication, Publications
  <2>3. op.pc \in Removing => UndoAt(op.pc) = "nothing"
    BY DEF UndoAt, Removing
  <2> QED BY <1>0, <2>1, <2>2, <2>3, CarriesWell, RaiseType DEF Publishing, Removing
<1>2. CASE op'.pc \in {"idle", "unarchive"} /\ (op'.failing => op'.source = S)
  <2>1. S \in Sources
    BY DEF TypeInv, WellFormed
  <2> QED BY <1>0, <1>2, <2>1, RaiseType, RestsWell
<1> QED BY <1>0, <1>1, <1>2, RaiseType

LEMMA GoesWell ==
  ASSUME TypeInv, op.pc \in Publishing \cup Removing, ~At("embed"), NEW step \in Steps, Goto(step),
         step \notin {"embed", "restore"},
         step \in Publishing => op.pc \in Publishing,
         step \in Removing => op.pc \in Removing
  PROVE  WellFormed' /\ op' \in Op
<1>0. op \in Op
  BY DEF TypeInv, TypeOK
<1>1. /\ op'.pc = step /\ op'.kind = op.kind /\ op'.source = op.source /\ op'.doc = op.doc
      /\ op'.hash = op.hash /\ op'.gen = op.gen /\ op'.snap = op.snap
  BY <1>0 DEF Goto, Op
<1> QED BY <1>0, <1>1, CarriesWell, PcType DEF Goto, IsPublication

(* The files a step writes keep their types.                               *)
LEMMA FilesType ==
  ASSUME files \in Files, NEW t \in Sources,
         NEW m \in Metas \cup {Nothing}, NEW d \in Docs \cup {Nothing},
         NEW e \in Entry \cup {Nothing}, NEW b \in Bodies \cup {Nothing}, NEW c \in SUBSET Bodies
  PROVE  /\ [files EXCEPT !.manifest[t] = m] \in Files
         /\ [files EXCEPT !.chunks[t] = d] \in Files
         /\ [files EXCEPT !.state[t] = e] \in Files
         /\ [files EXCEPT !.raw[t] = b, !.temps[t] = c] \in Files
         /\ [files EXCEPT !.temps[t] = c] \in Files
<1>1. [files EXCEPT !.manifest[t] = m] \in Files
  BY DEF Files
<1>2. [files EXCEPT !.chunks[t] = d] \in Files
  BY DEF Files
<1>3. [files EXCEPT !.state[t] = e] \in Files
  BY DEF Files
<1>4. [files EXCEPT !.temps[t] = c] \in Files
  BY DEF Files
<1>5. [files EXCEPT !.raw[t] = b, !.temps[t] = c] \in Files
  <2> DEFINE f == [files EXCEPT !.raw[t] = b]
  <2>1. f \in Files
    BY DEF Files
  <2>2. [files EXCEPT !.raw[t] = b, !.temps[t] = c] = [f EXCEPT !.temps[t] = c]
    OBVIOUS
  <2> HIDE DEF f
  <2>3. [f EXCEPT !.temps[t] = c] \in Files
    BY <2>1 DEF Files
  <2> QED BY <2>2, <2>3
<1> QED BY <1>1, <1>2, <1>3, <1>4, <1>5

LEMMA LostFilesType ==
  ASSUME files \in Files
  PROVE  /\ [files EXCEPT !.manifest = [t \in Sources |-> Nothing]] \in Files
         /\ [files EXCEPT !.chunks = [t \in Sources |-> Nothing]] \in Files
<1>1. [files EXCEPT !.manifest = [t \in Sources |-> Nothing]] \in Files
  BY DEF Files
<1>2. [files EXCEPT !.chunks = [t \in Sources |-> Nothing]] \in Files
  BY DEF Files
<1> QED BY <1>1, <1>2

LEMMA TearType ==
  ASSUME TypeOK, NEW ts \in SUBSET Sources, Tear(ts)
  PROVE  torn' \subseteq Sources /\ last' \in [Sources -> Docs \cup {Nothing}]
BY DEF TypeOK, Tear

LEMMA RowsType ==
  ASSUME NEW x \in [Stores -> [Sources -> SUBSET Gens]], NEW store \in Stores, NEW t,
         NEW gens \in SUBSET Gens
  PROVE  /\ [x EXCEPT ![store][t] = gens] \in [Stores -> [Sources -> SUBSET Gens]]
         /\ [x EXCEPT ![store][t] = @ \cup gens] \in [Stores -> [Sources -> SUBSET Gens]]
<1>0. x[store] \in [Sources -> SUBSET Gens]
  OBVIOUS
<1>1. [x[store] EXCEPT ![t] = gens] \in [Sources -> SUBSET Gens]
  BY <1>0
<1>2. [x[store] EXCEPT ![t] = @ \cup gens] \in [Sources -> SUBSET Gens]
  BY <1>0
<1> QED BY <1>1, <1>2

LEMMA DeletedType ==
  ASSUME NEW x \in [Stores -> [Sources -> SUBSET Gens]], NEW store \in Stores, NEW t, NEW gens
  PROVE  [x EXCEPT ![store][t] = @ \ gens] \in [Stores -> [Sources -> SUBSET Gens]]
<1>0. x[store] \in [Sources -> SUBSET Gens]
  OBVIOUS
<1>1. [x[store] EXCEPT ![t] = @ \ gens] \in [Sources -> SUBSET Gens]
  BY <1>0
<1> QED BY <1>1

(* What a publication begins with.                                         *)
LEMMA BeginType ==
  ASSUME TypeInv, NEW kind \in Publications, NEW t \in Sources, NEW doc \in Docs,
         NEW hash \in Bodies, NEW slot \in Slots \cup {Nothing}, Begin(kind, t, doc, hash, slot)
  PROVE  TypeInv'
<1> USE DEF TypeInv, TypeOK
<1>1. op' = [kind |-> kind, pc |-> "embed", source |-> t, doc |-> doc, hash |-> hash, slot |-> slot,
             gen |-> NoGen, old |-> NoGen, target |-> NoGen, prev |-> NoGen,
             failing |-> FALSE, undo |-> "nothing", snap |-> files]
  BY DEF Begin, NoOp
<1>2. op' \in Op
  BY <1>1 DEF Op, Steps, Undos, Publications
<1>3. doc.body \in Bodies
  BY DEF Docs
<1>4. files' \in Files
  <2>1. files.temps[t] \cup {doc.body} \in SUBSET Bodies
    BY <1>3 DEF Files
  <2>2. [files EXCEPT !.temps[t] = files.temps[t] \cup {doc.body}] \in Files
    BY <2>1 DEF Files
  <2> QED BY <2>2 DEF Begin
<1>5. WellFormed'
  BY <1>1 DEF WellFormed, Begin, At, S, IsPublication, Publishing, Removing
<1> QED BY <1>2, <1>4, <1>5 DEF Begin

-----------------------------------------------------------------------------
(* The type invariant, step by step.                                       *)

LEMMA StageType ==
  ASSUME TypeInv, NEW store \in Stores, NEW next \in {"stageEs", "verify"},
         op.pc \in {"stagePg", "stageEs"}, Stage(store, next)
  PROVE  TypeInv'
<1> USE DEF TypeInv, TypeOK
<1>1. S \in Sources /\ op.gen \in Gens /\ op.pc \in Publishing /\ ~At("embed")
  BY DEF WellFormed, IsPublication, Publishing, At
<1>2. rows' \in [Stores -> [Sources -> SUBSET Gens]]
  BY <1>1, RowsType DEF Stage
<1>3. op' \in Op /\ WellFormed'
  <2>1. CASE op' = Raise
    BY <1>1, <2>1, RaisesWell
  <2>2. CASE op' = [op EXCEPT !.pc = next]
    BY <1>1, <2>2, GoesWell DEF Goto, Steps, Publishing, Removing
  <2> QED BY <2>1, <2>2 DEF Stage
<1> QED BY <1>2, <1>3 DEF Stage

LEMMA FileStepType ==
  ASSUME TypeInv, op.pc \in {"manifest", "chunks", "state", "raw"} \cup Removing,
         NEW next \in Steps, NEW changed \in Files,
         next \notin {"embed", "restore"},
         next \in Publishing => op.pc \in Publishing,
         next \in Removing => op.pc \in Removing,
         FileStep(op.pc, next, changed)
  PROVE  TypeInv'
<1> USE DEF TypeInv, TypeOK
<1>1. op.pc \in Publishing \cup Removing /\ ~At("embed")
  BY DEF Publishing, Removing, At
<1>2. op' \in Op /\ WellFormed'
  BY <1>1, RaisesWell, GoesWell DEF FileStep
<1> QED BY <1>2 DEF FileStep

LEMMA OperationType ==
  ASSUME TypeInv,
         \/ \E t \in Sources : \E doc \in Docs : Import(t, doc)
         \/ \E t \in Sources : \E meta \in Metas : Edit(t, meta)
         \/ \E slot \in Slots : Restore(slot) \/ \E t \in Sources : Trash(t, slot)
  PROVE  TypeInv'
<1> USE DEF TypeInv, TypeOK
<1>1. ASSUME NEW t \in Sources, NEW doc \in Docs, Import(t, doc) PROVE TypeInv'
  BY <1>1, BeginType DEF Import, Docs, Publications
<1>2. ASSUME NEW t \in Sources, NEW meta \in Metas, Edit(t, meta) PROVE TypeInv'
  <2>1. files.chunks[t] \in Docs /\ files.state[t] \in Entry
    BY <1>2 DEF Edit, Files
  <2>2. [body |-> files.chunks[t].body, meta |-> meta] \in Docs /\ files.state[t].hash \in Bodies
    BY <2>1 DEF Docs, Entry
  <2> QED BY <1>2, <2>2, BeginType DEF Edit, Publications
<1>3. ASSUME NEW slot \in Slots, Restore(slot) PROVE TypeInv'
  <2> DEFINE doc == [body |-> trash[slot].body, meta |-> trash[slot].meta]
  <2>1. trash[slot] \in Archive /\ trash[slot].body # Nothing
    BY <1>3 DEF Restore
  <2>2. trash[slot].source \in Sources /\ doc \in Docs /\ doc.body \in Bodies
    BY <2>1 DEF Archive, Docs
  <2>3. CASE Begin("restore", trash[slot].source, doc, doc.body, slot)
    BY <2>2, <2>3, BeginType DEF Publications
  <2>4. CASE /\ op' = [NoOp EXCEPT !.kind = "restore", !.pc = "unarchive", !.slot = slot]
             /\ UNCHANGED <<files, rows, on, trash, made, verified, torn, last>>
    <3>1. op' = [kind |-> "restore", pc |-> "unarchive", source |-> Nothing, doc |-> Nothing,
                 hash |-> Nothing, slot |-> slot, gen |-> NoGen, old |-> NoGen, target |-> NoGen,
                 prev |-> NoGen, failing |-> FALSE, undo |-> "nothing", snap |-> Nothing]
      BY <2>4 DEF NoOp
    <3>2. op' \in Op
      BY <3>1 DEF Op, Steps, Undos
    <3>3. op'.pc = "unarchive" /\ ~op'.failing
      BY <3>1
    <3>4. WellFormed'
      BY <3>3, RestsWell
    <3> QED BY <2>4, <3>2, <3>4
  <2> QED BY <1>3, <2>3, <2>4 DEF Restore
<1>4. ASSUME NEW slot \in Slots, NEW t \in Sources, Trash(t, slot) PROVE TypeInv'
  <2>1. op' = [kind |-> "trash", pc |-> "rmManifest", source |-> t, doc |-> Nothing,
               hash |-> Nothing, slot |-> slot, gen |-> NoGen, old |-> NoGen, target |-> NoGen,
               prev |-> NoGen, failing |-> FALSE, undo |-> "nothing", snap |-> files]
    BY <1>4 DEF Trash, NoOp
  <2>2. op' \in Op
    BY <2>1 DEF Op, Steps, Undos
  <2>3. Served(t) \in Bodies \cup {Nothing}
    BY DEF Served, Files
  <2>4. [source |-> t, body |-> Served(t), meta |-> files.manifest[t]] \in Archive
    BY <1>4, <2>3 DEF Trash, Archive, Files
  <2>5. trash' \in [Slots -> Archive \cup {Nothing}]
    BY <1>4, <2>4 DEF Trash
  <2>6. WellFormed'
    BY <1>4, <2>1, ZenonT(60) DEF Trash, WellFormed, At, S, IsPublication, Publishing, Removing
  <2> QED BY <1>4, <2>2, <2>5, <2>6 DEF Trash
<1> QED BY <1>1, <1>2, <1>3, <1>4

LEMMA SearchedType == TypeOK /\ S \in Sources => Searched \in Gens \cup {NoGen}
BY DEF TypeOK, Searched, Stores

LEMMA SwitchStepType ==
  ASSUME TypeInv, EsOff \/ EsOn \/ PgSwitch \/ BackOff \/ BackOn
  PROVE  TypeInv'
<1> USE DEF TypeInv, TypeOK
<1>1. /\ op.pc \in {"esOff", "esOn", "pgSwitch", "backOff", "backOn"}
      /\ op.pc \in Publishing /\ ~At("embed") /\ S \in Sources
  BY DEF EsOff, EsOn, PgSwitch, BackOff, BackOn, WellFormed, Publishing, At
<1>2. on' \in [Stores -> [Sources -> SUBSET Gens]]
  <2>1. rows["es"][S] \cap {op.target} \in SUBSET Gens /\ rows["es"][S] \cap {op.prev} \in SUBSET Gens
        /\ rows["pg"][S] \cap {op.target} \in SUBSET Gens /\ {} \in SUBSET Gens
    BY <1>1 DEF Stores
  <2>2. \A store \in Stores, gens \in SUBSET Gens :
          /\ [on EXCEPT ![store][S] = gens] \in [Stores -> [Sources -> SUBSET Gens]]
          /\ [on EXCEPT ![store][S] = @ \cup gens] \in [Stores -> [Sources -> SUBSET Gens]]
    BY RowsType
  <2>3. /\ [on EXCEPT !["es"][S] = {}] \in [Stores -> [Sources -> SUBSET Gens]]
        /\ [on EXCEPT !["es"][S] = @ \cup (rows["es"][S] \cap {op.target})] \in [Stores -> [Sources -> SUBSET Gens]]
        /\ [on EXCEPT !["es"][S] = @ \cup (rows["es"][S] \cap {op.prev})] \in [Stores -> [Sources -> SUBSET Gens]]
        /\ [on EXCEPT !["pg"][S] = rows["pg"][S] \cap {op.target}] \in [Stores -> [Sources -> SUBSET Gens]]
    BY <2>1, <2>2 DEF Stores
  <2> HIDE DEF TypeInv, TypeOK
  <2> QED BY <2>3 DEF EsOff, EsOn, PgSwitch, BackOff, BackOn, TypeInv, TypeOK
<1>3. op' \in Op /\ WellFormed'
  <2>1. CASE op' = Raise
    BY <1>1, <2>1, RaisesWell
  <2>2. ASSUME NEW step \in {"esOn", "pgSwitch", "backOff", "backOn", "dropEs", "manifest"}, Goto(step)
        PROVE  op' \in Op /\ WellFormed'
    BY <1>1, <2>2, GoesWell DEF Steps, Publishing, Removing
  <2> QED BY <2>1, <2>2 DEF EsOff, EsOn, PgSwitch, BackOff, BackOn, Goto
<1>4. torn' \subseteq Sources /\ last' \in [Sources -> Docs \cup {Nothing}]
  <2>1. CASE \E lost \in BOOLEAN : TearIf(lost)
    BY <1>1, <2>1, TearType DEF TearIf
  <2>2. CASE torn' = torn /\ last' = last
    BY <2>2
  <2> QED BY <2>1, <2>2 DEF EsOff, EsOn, PgSwitch, BackOff, BackOn
<1> QED BY <1>2, <1>3, <1>4 DEF EsOff, EsOn, PgSwitch, BackOff, BackOn

LEMMA IndexStepType == TypeInv /\ IndexStep => TypeInv'
<1> SUFFICES ASSUME TypeInv, IndexStep PROVE TypeInv'
  OBVIOUS
<1> USE DEF TypeInv, TypeOK
<1>1. ASSUME EmbedEnds PROVE TypeInv'
  <2>1. S \in Sources /\ op.doc \in Docs /\ op.hash \in Bodies /\ op.kind \in Publications
        /\ op.snap \in Files /\ Len(made) < MaxGens
    BY <1>1 DEF EmbedEnds, At, WellFormed, IsPublication, Publishing
  <2>2. CASE op' = NoOp /\ made' = made
    <3>1. WellFormed'
      BY <2>2, RestsWell DEF NoOp
    <3> QED BY <1>1, <2>2, <3>1, NoOpType DEF EmbedEnds
  <2>3. CASE /\ op' = [op EXCEPT !.pc = "stagePg", !.gen = Len(made) + 1]
             /\ made' = Append(made, [source |-> S, doc |-> op.doc])
    <3>1. Len(made) + 1 \in Gens /\ Len(made) + 1 \in Gens \cup {NoGen}
      BY <2>1, ValuesAssumption DEF Gens
    <3>2. op' \in Op
      BY <2>3, <3>1, SwitchType DEF Steps, NoGen
    <3>3. made' \in Seq([source : Sources, doc : Docs]) /\ Len(made') <= MaxGens
      BY <2>1, <2>3, ValuesAssumption
    <3>4. /\ op'.pc = "stagePg" /\ op'.kind = op.kind /\ op'.source = op.source /\ op'.doc = op.doc
          /\ op'.hash = op.hash /\ op'.gen = Len(made) + 1 /\ op'.snap = op.snap
      BY <2>3 DEF Op
    <3>5. WellFormed'
      BY <2>1, <3>1, <3>4 DEF WellFormed, At, S, IsPublication, Publishing, Removing
    <3> QED BY <1>1, <3>2, <3>3, <3>5 DEF EmbedEnds
  <2> QED BY <1>1, <2>2, <2>3 DEF EmbedEnds
<1>2. ASSUME StagePg \/ StageEs PROVE TypeInv'
  BY <1>2, StageType DEF StagePg, StageEs, Stores, At
<1>3. ASSUME Verify PROVE TypeInv'
  <2>1. /\ S \in Sources /\ op.gen \in Gens /\ op.pc \in Publishing /\ ~At("embed")
        /\ op.doc \in Docs /\ op.hash \in Bodies /\ op.kind \in Publications /\ op.snap \in Files
    BY <1>3 DEF Verify, WellFormed, IsPublication, Publishing, At
  <2>2. op' \in Op /\ WellFormed'
    <3>1. CASE op' = Raise
      BY <2>1, <3>1, RaisesWell
    <3>2. CASE op' = [op EXCEPT !.pc = "esOff", !.target = op.gen, !.prev = Searched, !.old = Searched]
      <4>1. op' \in Op
        BY <2>1, <3>2, SearchedType, SwitchType DEF Steps
      <4>2. /\ op'.pc = "esOff" /\ op'.kind = op.kind /\ op'.source = op.source /\ op'.doc = op.doc
            /\ op'.hash = op.hash /\ op'.gen = op.gen /\ op'.snap = op.snap
        BY <3>2 DEF Op
      <4> QED BY <2>1, <4>1, <4>2, CarriesWell DEF IsPublication, Removing
    <3> QED BY <1>3, <3>1, <3>2 DEF Verify
  <2> QED BY <1>3, <2>1, <2>2 DEF Verify
<1>4. ASSUME DropEs \/ DropPg PROVE TypeInv'
  <2>1. /\ S \in Sources /\ op.gen \in Gens /\ op.pc \in Publishing /\ ~At("embed")
        /\ op.pc \in {"dropEs", "dropPg"}
    BY <1>4 DEF DropEs, DropPg, WellFormed, IsPublication, Publishing, At
  <2>2. /\ rows' \in [Stores -> [Sources -> SUBSET Gens]]
        /\ on' \in [Stores -> [Sources -> SUBSET Gens]]
    <3>1. ASSUME NEW store \in Stores, Delete(store, {Dropped})
          PROVE  /\ rows' \in [Stores -> [Sources -> SUBSET Gens]]
                 /\ on' \in [Stores -> [Sources -> SUBSET Gens]]
      BY <3>1, DeletedType DEF Delete
    <3>2. \/ UNCHANGED <<rows, on>>
          \/ Delete("es", {Dropped})
          \/ Delete("pg", {Dropped})
      BY <1>4 DEF DropEs, DropPg
    <3> QED BY <3>1, <3>2 DEF Stores
  <2>3. op' \in Op /\ WellFormed'
    <3>1. CASE op' = Ended
      BY <2>1, <3>1, EndedType, RestsWell
    <3>2. CASE op' = [op EXCEPT !.pc = "dropPg"]
      BY <2>1, <3>2, GoesWell DEF Goto, Steps, Publishing, Removing
    <3> QED BY <1>4, <3>1, <3>2 DEF DropEs, DropPg
  <2>4. torn' \subseteq Sources /\ last' \in [Sources -> Docs \cup {Nothing}]
    BY <1>4, <2>1, TearType DEF DropEs, DropPg, TearIf
  <2> QED BY <1>4, <2>2, <2>3, <2>4 DEF DropEs, DropPg
<1> HIDE DEF TypeInv, TypeOK
<1> QED BY <1>1, <1>2, <1>3, <1>4, SwitchStepType DEF IndexStep

LEMMA FileStepsType ==
  ASSUME TypeInv,
         \/ WriteManifest \/ WriteChunks \/ WriteState
         \/ RemoveManifest \/ RemoveChunks \/ RemoveState \/ RemoveRaw
  PROVE  TypeInv'
<1> USE DEF TypeInv, TypeOK
<1>1. ASSUME WriteManifest \/ WriteChunks \/ WriteState PROVE TypeInv'
  <2>1. S \in Sources /\ op.doc \in Docs /\ op.hash \in Bodies /\ op.gen \in Gens
    BY <1>1 DEF WriteManifest, WriteChunks, WriteState, FileStep, At, WellFormed, IsPublication, Publishing
  <2>2. op.doc.meta \in Metas /\ [hash |-> op.hash, layout |-> op.doc.body, gen |-> op.gen] \in Entry
    BY <2>1 DEF Docs, Entry
  <2>3. /\ [files EXCEPT !.manifest[S] = op.doc.meta] \in Files
        /\ [files EXCEPT !.chunks[S] = op.doc] \in Files
        /\ [files EXCEPT !.state[S] = [hash |-> op.hash, layout |-> op.doc.body, gen |-> op.gen]] \in Files
    BY <2>1, <2>2, FilesType
  <2> HIDE DEF TypeInv, TypeOK
  <2> QED BY <1>1, <2>3, FileStepType
          DEF WriteManifest, WriteChunks, WriteState, FileStep, At, Steps, Publishing, Removing
<1>2. ASSUME RemoveManifest \/ RemoveChunks \/ RemoveState \/ RemoveRaw PROVE TypeInv'
  <2>1. S \in Sources
    BY <1>2 DEF RemoveManifest, RemoveChunks, RemoveState, RemoveRaw, FileStep, At, WellFormed, Removing
  <2>2. /\ [files EXCEPT !.manifest[S] = Nothing] \in Files
        /\ [files EXCEPT !.chunks[S] = Nothing] \in Files
        /\ [files EXCEPT !.state[S] = Nothing] \in Files
        /\ [files EXCEPT !.raw[S] = Nothing, !.temps[S] = {}] \in Files
    BY <2>1, FilesType
  <2> HIDE DEF TypeInv, TypeOK
  <2> QED BY <1>2, <2>2, FileStepType
          DEF RemoveManifest, RemoveChunks, RemoveState, RemoveRaw, FileStep, At, Steps, Publishing, Removing
<1> HIDE DEF TypeInv, TypeOK
<1> QED BY <1>1, <1>2

LEMMA WriteRawType == TypeInv /\ WriteRaw => TypeInv'
<1> SUFFICES ASSUME TypeInv, WriteRaw PROVE TypeInv'
  OBVIOUS
<1> USE DEF TypeInv, TypeOK
<1>1. /\ S \in Sources /\ op.doc \in Docs /\ op.pc \in Publishing /\ ~At("embed") /\ op.pc = "raw"
  BY DEF WriteRaw, At, WellFormed, IsPublication, Publishing
<1>2. files' \in Files
  <2>1. [files EXCEPT !.raw[S] = op.doc.body, !.temps[S] = {}] \in Files
    BY <1>1, FilesType, ZenonT(60) DEF Docs
  <2> QED BY <2>1 DEF WriteRaw
<1>3. op' \in Op /\ WellFormed'
  <2>1. CASE op' = Ended
    BY <1>1, <2>1, EndedType, RestsWell
  <2>2. CASE op' = [op EXCEPT !.pc = "dropEs"]
    BY <1>1, <2>2, GoesWell DEF Goto, Steps, Publishing, Removing
  <2>3. CASE op' = Raise
    BY <1>1, <2>3, RaisesWell
  <2> QED BY <2>1, <2>2, <2>3 DEF WriteRaw
<1>4. torn' \subseteq Sources /\ last' \in [Sources -> Docs \cup {Nothing}]
  <2>1. torn' = torn \/ torn' = torn \ {S}
    BY DEF WriteRaw
  <2>2. last' = last \/ last' = [last EXCEPT ![S] = op.doc]
    BY DEF WriteRaw
  <2> QED BY <1>1, <2>1, <2>2
<1> QED BY <1>2, <1>3, <1>4 DEF WriteRaw

LEMMA RestoreFilesType == TypeInv /\ RestoreFiles => TypeInv'
<1> SUFFICES ASSUME TypeInv, RestoreFiles PROVE TypeInv'
  OBVIOUS
<1> USE DEF TypeInv, TypeOK
<1>1. S \in Sources /\ op.snap \in Files /\ ~At("embed") /\ op.pc = "restore" /\ op.pc \notin Removing
  BY DEF RestoreFiles, At, WellFormed, Removing
<1>2. files' \in Files
  BY <1>1 DEF RestoreFiles
<1>3. op' \in Op /\ WellFormed'
  <2>1. CASE op' \in {Ended, EndedFailing}
    BY <1>1, <2>1, EndedType, RestsWell
  <2>2. CASE /\ op.undo = "switch"
             /\ op' = [op EXCEPT !.pc = "esOff", !.target = op.old, !.prev = Searched]
    <3>1. op.old \in Gens \cup {NoGen}
      BY DEF Op
    <3>2. op' \in Op
      BY <1>1, <2>2, <3>1, SearchedType, SwitchType, ZenonT(60) DEF Steps
    <3>3. /\ op'.pc = "esOff" /\ op'.kind = op.kind /\ op'.source = op.source /\ op'.doc = op.doc
          /\ op'.hash = op.hash /\ op'.gen = op.gen /\ op'.snap = op.snap
      BY <2>2 DEF Op
    <3>4. op.kind # "trash"
      BY <1>1, <2>2 DEF WellFormed, At
    <3> QED BY <1>1, <3>2, <3>3, <3>4, CarriesWell DEF IsPublication, At, Removing
  <2>3. CASE op.undo = "drop" /\ op' = [op EXCEPT !.pc = "dropEs"]
    <3>2. op' \in Op
      BY <2>3, PcType DEF Steps
    <3>3. /\ op'.pc = "dropEs" /\ op'.kind = op.kind /\ op'.source = op.source /\ op'.doc = op.doc
          /\ op'.hash = op.hash /\ op'.gen = op.gen /\ op'.snap = op.snap
      BY <2>3 DEF Op
    <3>4. op.kind # "trash"
      BY <1>1, <2>3 DEF WellFormed, At
    <3> QED BY <1>1, <3>2, <3>3, <3>4, CarriesWell DEF IsPublication, At, Removing
  <2> QED BY <2>1, <2>2, <2>3 DEF RestoreFiles
<1>4. torn' \subseteq Sources /\ last' \in [Sources -> Docs \cup {Nothing}]
  BY TearType DEF RestoreFiles
<1> QED BY <1>2, <1>3, <1>4 DEF RestoreFiles

LEMMA RemovalType == TypeInv /\ (DeleteEs \/ DeletePg) => TypeInv'
<1> SUFFICES ASSUME TypeInv, DeleteEs \/ DeletePg PROVE TypeInv'
  OBVIOUS
<1> USE DEF TypeInv, TypeOK
<1>1. S \in Sources /\ op.pc \in Removing /\ ~At("embed")
  BY DEF DeleteEs, DeletePg, At, WellFormed, Removing
<1>2. /\ rows' \in [Stores -> [Sources -> SUBSET Gens]]
      /\ on' \in [Stores -> [Sources -> SUBSET Gens]]
  <2>1. ASSUME NEW store \in Stores, NEW gens, Delete(store, gens)
        PROVE  /\ rows' \in [Stores -> [Sources -> SUBSET Gens]]
               /\ on' \in [Stores -> [Sources -> SUBSET Gens]]
    BY <2>1, DeletedType DEF Delete
  <2>2. \/ UNCHANGED <<rows, on>>
        \/ Delete("es", rows["es"][S])
        \/ Delete("pg", rows["pg"][S])
    BY DEF DeleteEs, DeletePg
  <2> QED BY <2>1, <2>2 DEF Stores
<1>3. op' \in Op /\ WellFormed'
  <2>1. CASE op' = NoOp
    BY <2>1, NoOpType, RestsWell DEF NoOp
  <2>2. CASE op' = [op EXCEPT !.pc = "delPg"]
    BY <1>1, <2>2, GoesWell DEF Goto, Steps, Publishing, Removing
  <2>3. CASE op' = Raise
    BY <1>1, <2>3, RaisesWell
  <2> QED BY <2>1, <2>2, <2>3 DEF DeleteEs, DeletePg
<1>4. torn' \subseteq Sources /\ last' \in [Sources -> Docs \cup {Nothing}]
  BY <1>1, TearType DEF DeleteEs, DeletePg, TearIf
<1> QED BY <1>2, <1>3, <1>4 DEF DeleteEs, DeletePg

LEMMA EndType == TypeInv /\ (Unarchive \/ Die) => TypeInv'
<1> SUFFICES ASSUME TypeInv, Unarchive \/ Die PROVE TypeInv'
  OBVIOUS
<1> USE DEF TypeInv, TypeOK
<1>1. op' = NoOp /\ op' \in Op /\ WellFormed'
  <2>1. op' = NoOp /\ NoOp.pc = "idle" /\ NoOp.failing = FALSE
    BY DEF Unarchive, Die, NoOp
  <2> QED BY <2>1, NoOpType, RestsWell
<1>2. files' \in Files
  BY LostFilesType DEF Unarchive, Die
<1>3. torn' \subseteq Sources /\ last' \in [Sources -> Docs \cup {Nothing}]
  <2>1. CASE Die
    <3>1. HalfDone => S \in Sources
      BY DEF WellFormed, HalfDone, Touched, Publishing, Removing
    <3>2. CASE Tear(Sources)
      BY <3>2, TearType
    <3>3. CASE TearIf(HalfDone)
      <4>1. (IF HalfDone THEN {S} ELSE {}) \in SUBSET Sources
        BY <3>1
      <4> QED BY <3>3, <4>1, TearType DEF TearIf
    <3> QED BY <2>1, <3>2, <3>3 DEF Die
  <2>2. CASE Unarchive
    BY <2>2 DEF Unarchive
  <2> QED BY <2>1, <2>2
<1>4. trash' \in [Slots -> Archive \cup {Nothing}]
  BY DEF Unarchive, Die
<1> QED BY <1>1, <1>2, <1>3, <1>4 DEF Unarchive, Die

LEMMA TypeStep == TypeInv /\ [Next]_vars => TypeInv'
<1> SUFFICES ASSUME TypeInv, [Next]_vars PROVE TypeInv'
  OBVIOUS
<1>1. CASE UNCHANGED vars
  BY <1>1 DEF vars, TypeInv, TypeOK, WellFormed, IsPublication, At, S
<1>2. CASE Next
  BY <1>2, OperationType, IndexStepType, FileStepsType, WriteRawType, RestoreFilesType, RemovalType,
     EndType DEF Next
<1> QED BY <1>1, <1>2

(* The files, the stores, the recycle bin and the running operation keep   *)
(* their types.                                                            *)
THEOREM TypeCorrect == Spec => []TypeOK
<1>1. TypeInv => TypeOK
  BY DEF TypeInv
<1> QED BY <1>1, TypeInit, TypeStep, PTL DEF Spec

-----------------------------------------------------------------------------
(* What retrieval finds.                                                   *)

(* Nothing is switched yet, nor to be switched back.                       *)
Early == {"embed", "stagePg", "stageEs", "verify"}

(* The generations an operation may switch on were verified, and a store   *)
(* is emptied before one is switched on in it.                             *)
SwitchesVerified ==
  /\ op.old \in verified \cup {NoGen} /\ op.prev \in verified \cup {NoGen}
  /\ op.undo = "switch" => op.old # NoGen
  /\ op.pc \in Early => op.undo = "nothing"
  /\ op.pc \in {"esOff", "esOn", "pgSwitch"} => op.target \in verified
  /\ op.pc \in {"esOn", "backOn"} => on["es"][S] = {}

FoundInv == TypeInv /\ SwitchesVerified /\ OnlyVerifiedFound

LEMMA FoundInit == Init => SwitchesVerified /\ OnlyVerifiedFound
BY DEF Init, SwitchesVerified, OnlyVerifiedFound, NoOp, NoGen, Stores, Early

(* Rows and switches of the stores are left alone or taken away.           *)
LEMMA FewerFound ==
  ASSUME OnlyVerifiedFound, verified' = verified,
         \A store \in Stores : \A t \in Sources :
           /\ on'[store][t] \subseteq on[store][t]
           /\ rows[store][t] \cap on'[store][t] \subseteq rows'[store][t]
  PROVE  OnlyVerifiedFound'
BY DEF OnlyVerifiedFound

(* An operation is ended or goes on as it was, with nothing to switch.     *)
LEMMA SameSwitches ==
  ASSUME SwitchesVerified, verified \subseteq verified',
         op'.pc \notin {"esOff", "esOn", "pgSwitch", "backOn"},
         op'.pc \in Early => (op.pc \in Early /\ op'.undo = op.undo) \/ op'.undo = "nothing",
         \/ op'.old = NoGen /\ op'.prev = NoGen /\ op'.undo = "nothing"
         \/ op'.old = op.old /\ op'.prev = op.prev /\ op'.undo \in {"nothing", "drop"}
         \/ op'.old = op.old /\ op'.prev = op.prev /\ op'.undo = "switch" /\ op.old # NoGen
         \/ op'.old = op.old /\ op'.prev = op.prev /\ op'.undo = op.undo
  PROVE  SwitchesVerified'
BY DEF SwitchesVerified, NoGen

LEMMA EndedKeeps ==
  ASSUME op \in Op, op' \in {NoOp, Ended, EndedFailing, Raise}
  PROVE  /\ op'.pc \notin {"esOff", "esOn", "pgSwitch", "backOn"} \cup Early
         /\ \/ op'.old = NoGen /\ op'.prev = NoGen /\ op'.undo = "nothing"
            \/ op'.old = op.old /\ op'.prev = op.prev /\ op'.undo \in {"nothing", "drop"}
            \/ op'.old = op.old /\ op'.prev = op.prev /\ op'.undo = "switch" /\ op.old # NoGen
            \/ op'.old = op.old /\ op'.prev = op.prev /\ op'.undo = op.undo
<1>1. CASE op' = NoOp
  BY <1>1 DEF NoOp, Early
<1>2. CASE op' \in {[op EXCEPT !.pc = "unarchive"], [op EXCEPT !.pc = "unarchive", !.failing = TRUE]}
  BY <1>2 DEF Op, Early
<1>3. CASE op' = [op EXCEPT !.pc = "restore", !.failing = TRUE, !.undo = UndoAt(op.pc)]
  <2>1. op'.pc = "restore" /\ op'.old = op.old /\ op'.prev = op.prev /\ op'.undo = UndoAt(op.pc)
    BY <1>3 DEF Op
  <2>2. UndoAt(op.pc) \in {"nothing", "drop"} \/ (UndoAt(op.pc) = "switch" /\ op.old # NoGen)
    BY DEF UndoAt
  <2> QED BY <2>1, <2>2 DEF Early
<1> QED BY <1>1, <1>2, <1>3 DEF Ended, EndedFailing, Raise

LEMMA EndedSwitches ==
  ASSUME FoundInv, op' \in {NoOp, Ended, EndedFailing, Raise}, verified' = verified
  PROVE  SwitchesVerified'
<1>1. op \in Op /\ SwitchesVerified
  BY DEF FoundInv, TypeInv, TypeOK
<1>2. verified \subseteq verified'
  OBVIOUS
<1> QED BY <1>1, <1>2, EndedKeeps, SameSwitches

LEMMA GotoKeeps ==
  ASSUME op \in Op, NEW step, Goto(step), step \notin {"esOff", "esOn", "pgSwitch", "backOn"}
  PROVE  /\ op'.pc = step /\ op'.pc \notin {"esOff", "esOn", "pgSwitch", "backOn"}
         /\ op'.old = op.old /\ op'.prev = op.prev /\ op'.undo = op.undo
BY DEF Goto, Op

LEMMA SearchedVerified == OnlyVerifiedFound /\ S \in Sources => Searched \in verified \cup {NoGen}
BY DEF OnlyVerifiedFound, Searched, Stores

(* Operations that leave the stores alone.                                 *)
LEMMA AloneFound ==
  ASSUME FoundInv, rows' = rows, on' = on, verified' = verified
  PROVE  OnlyVerifiedFound'
BY FewerFound DEF FoundInv

LEMMA OperationFound ==
  ASSUME FoundInv,
         \/ \E t \in Sources : \E doc \in Docs : Import(t, doc)
         \/ \E t \in Sources : \E meta \in Metas : Edit(t, meta)
         \/ \E slot \in Slots : Restore(slot) \/ \E t \in Sources : Trash(t, slot)
  PROVE  SwitchesVerified' /\ OnlyVerifiedFound'
<1> DEFINE Fresh == /\ op'.pc \notin {"esOff", "esOn", "pgSwitch", "backOn"}
                    /\ op'.old = NoGen /\ op'.prev = NoGen /\ op'.undo = "nothing"
<1>1. rows' = rows /\ on' = on /\ verified' = verified
  BY DEF Import, Edit, Restore, Trash, Begin
<1>2. ASSUME NEW kind, NEW t, NEW doc, NEW hash, NEW slot, Begin(kind, t, doc, hash, slot)
      PROVE  Fresh
  BY <1>2 DEF Begin, NoOp
<1>3. Fresh
  <2>1. CASE \E slot \in Slots :
               op' = [NoOp EXCEPT !.kind = "restore", !.pc = "unarchive", !.slot = slot]
    BY <2>1 DEF NoOp
  <2>2. CASE \E slot \in Slots : \E t \in Sources : Trash(t, slot)
    <3>1. PICK slot \in Slots, t \in Sources : Trash(t, slot)
      BY <2>2
    <3> QED BY <3>1 DEF Trash, NoOp
  <2> HIDE DEF Fresh
  <2> QED BY <1>2, <2>1, <2>2 DEF Import, Edit, Restore
<1>4. SwitchesVerified'
  BY <1>1, <1>3, SameSwitches DEF FoundInv
<1> QED BY <1>1, <1>4, AloneFound

(* Steps on the files, and the end of an operation.                        *)
LEMMA FilesFound ==
  ASSUME FoundInv,
         \/ WriteManifest \/ WriteChunks \/ WriteState \/ WriteRaw \/ RestoreFiles
         \/ RemoveManifest \/ RemoveChunks \/ RemoveState \/ RemoveRaw
         \/ Unarchive \/ Die \/ EmbedEnds
  PROVE  SwitchesVerified' /\ OnlyVerifiedFound'
<1>0. op \in Op
  BY DEF FoundInv, TypeInv, TypeOK
<1>1. rows' = rows /\ on' = on /\ verified' = verified
  BY DEF WriteManifest, WriteChunks, WriteState, WriteRaw, RestoreFiles, RemoveManifest, RemoveChunks,
         RemoveState, RemoveRaw, Unarchive, Die, EmbedEnds, FileStep
<1>2. ASSUME op' \in {NoOp, Ended, EndedFailing, Raise} PROVE SwitchesVerified'
  BY <1>1, <1>2, EndedSwitches
<1>3. ASSUME NEW step \in {"chunks", "state", "raw", "dropEs", "rmChunks", "rmState", "rmRaw", "delEs"},
             Goto(step)
      PROVE  SwitchesVerified'
  BY <1>0, <1>1, <1>3, GotoKeeps, SameSwitches DEF FoundInv, Early
<1>4. ASSUME At("embed"), op' = [op EXCEPT !.pc = "stagePg", !.gen = Len(made) + 1]
      PROVE  SwitchesVerified'
  <2>1. op'.pc = "stagePg" /\ op'.old = op.old /\ op'.prev = op.prev /\ op'.undo = op.undo
    BY <1>0, <1>4 DEF Op
  <2>2. SwitchesVerified /\ verified \subseteq verified'
    BY <1>1 DEF FoundInv
  <2> QED BY <1>4, <2>1, <2>2, SameSwitches DEF At, Early
<1>5. ASSUME At("restore"), op.undo = "switch",
             op' = [op EXCEPT !.pc = "esOff", !.target = op.old, !.prev = Searched]
      PROVE  SwitchesVerified'
  <2>1. /\ op'.pc = "esOff" /\ op'.old = op.old /\ op'.prev = Searched /\ op'.target = op.old
        /\ op'.undo = op.undo
    BY <1>0, <1>5 DEF Op
  <2>2. Searched \in verified \cup {NoGen}
    BY <1>5, SearchedVerified DEF FoundInv, TypeInv, WellFormed, At
  <2>3. op.old \in verified /\ op.old # NoGen
    BY <1>5 DEF FoundInv, SwitchesVerified
  <2> QED BY <1>1, <1>5, <2>1, <2>2, <2>3 DEF SwitchesVerified, Early
<1>6. SwitchesVerified'
  BY <1>2, <1>3, <1>4, <1>5 DEF WriteManifest, WriteChunks, WriteState, WriteRaw, RestoreFiles,
     RemoveManifest, RemoveChunks, RemoveState, RemoveRaw, Unarchive, Die, EmbedEnds, FileStep, Goto
<1> QED BY <1>1, <1>6, AloneFound

(* Rows are staged switched off; deleting takes rows and switches away.    *)
LEMMA RowsFound ==
  ASSUME FoundInv, StagePg \/ StageEs \/ DropEs \/ DropPg \/ DeleteEs \/ DeletePg
  PROVE  SwitchesVerified' /\ OnlyVerifiedFound'
<1>0. op \in Op /\ rows \in [Stores -> [Sources -> SUBSET Gens]] /\ on \in [Stores -> [Sources -> SUBSET Gens]]
  BY DEF FoundInv, TypeInv, TypeOK
<1>1. verified' = verified
  BY DEF StagePg, StageEs, Stage, DropEs, DropPg, DeleteEs, DeletePg
<1>2. ASSUME op' \in {NoOp, Ended, EndedFailing, Raise} PROVE SwitchesVerified'
  BY <1>1, <1>2, EndedSwitches
<1>3. ASSUME NEW step \in {"stageEs", "verify", "dropPg", "delPg"}, Goto(step),
             step \in Early => op.pc \in Early
      PROVE  SwitchesVerified'
  BY <1>0, <1>1, <1>3, GotoKeeps, SameSwitches DEF FoundInv, Early
<1>4. SwitchesVerified'
  BY <1>2, <1>3 DEF StagePg, StageEs, Stage, DropEs, DropPg, DeleteEs, DeletePg, Goto, At, Early
<1>5. ASSUME NEW store \in Stores, NEW gens, Delete(store, gens)
      PROVE  OnlyVerifiedFound'
  BY <1>0, <1>1, <1>5, FewerFound DEF FoundInv, Delete
<1>6. ASSUME NEW store \in Stores, NEW next, Stage(store, next)
      PROVE  OnlyVerifiedFound'
  BY <1>0, <1>1, <1>6, FewerFound DEF FoundInv, Stage
<1>7. ASSUME rows' = rows, on' = on PROVE OnlyVerifiedFound'
  BY <1>1, <1>7, AloneFound
<1>8. OnlyVerifiedFound'
  <2>1. \/ UNCHANGED <<rows, on>>
        \/ Stage("pg", "stageEs") \/ Stage("es", "verify")
        \/ Delete("es", {Dropped}) \/ Delete("pg", {Dropped})
        \/ Delete("es", rows["es"][S]) \/ Delete("pg", rows["pg"][S])
    BY DEF StagePg, StageEs, DropEs, DropPg, DeleteEs, DeletePg
  <2> QED BY <1>5, <1>6, <1>7, <2>1 DEF Stores
<1> QED BY <1>4, <1>8

(* One store of one source is switched to a verified generation it has.    *)
LEMMA SwitchFound ==
  ASSUME FoundInv, rows' = rows, verified' = verified, NEW store \in Stores, NEW g \in verified,
         S \in Sources,
         \/ on' = [on EXCEPT ![store][S] = rows[store][S] \cap {g}]
         \/ on' = [on EXCEPT ![store][S] = @ \cup (rows[store][S] \cap {g})] /\ on[store][S] = {}
  PROVE  OnlyVerifiedFound'
<1>0. /\ rows \in [Stores -> [Sources -> SUBSET Gens]] /\ on \in [Stores -> [Sources -> SUBSET Gens]]
      /\ OnlyVerifiedFound
  BY DEF FoundInv, TypeInv, TypeOK
<1>1. on'[store][S] = rows[store][S] \cap {g}
  BY <1>0
<1>2. \A x \in Stores : \A t \in Sources : x # store \/ t # S => on'[x][t] = on[x][t]
  BY <1>0
<1> QED BY <1>0, <1>1, <1>2 DEF OnlyVerifiedFound

LEMMA SwitchStepFound ==
  ASSUME FoundInv, Verify \/ EsOff \/ EsOn \/ PgSwitch \/ BackOff \/ BackOn
  PROVE  SwitchesVerified' /\ OnlyVerifiedFound'
<1>0. /\ op \in Op /\ SwitchesVerified /\ OnlyVerifiedFound
      /\ rows \in [Stores -> [Sources -> SUBSET Gens]] /\ on \in [Stores -> [Sources -> SUBSET Gens]]
      /\ "es" \in Stores /\ "pg" \in Stores
  BY DEF FoundInv, TypeInv, TypeOK, Stores
<1>1. S \in Sources
  BY DEF FoundInv, TypeInv, WellFormed, Verify, EsOff, EsOn, PgSwitch, BackOff, BackOn, At, Publishing
<1>2. CASE Verify
  <2>1. rows' = rows /\ on' = on /\ verified \subseteq verified'
    BY <1>2 DEF Verify
  <2>2. OnlyVerifiedFound'
    BY <1>0, <2>1 DEF OnlyVerifiedFound
  <2>3. ASSUME op' = Raise PROVE SwitchesVerified'
    BY <1>0, <2>1, <2>3, EndedKeeps, SameSwitches
  <2>4. ASSUME verified' = verified \cup {op.gen},
               op' = [op EXCEPT !.pc = "esOff", !.target = op.gen, !.prev = Searched, !.old = Searched]
        PROVE  SwitchesVerified'
    <3>1. /\ op'.pc = "esOff" /\ op'.old = Searched /\ op'.prev = Searched /\ op'.target = op.gen
          /\ op'.undo = op.undo
      BY <1>0, <2>4 DEF Op
    <3>2. Searched \in verified \cup {NoGen}
      BY <1>0, <1>1, SearchedVerified
    <3>3. op.undo # "switch"
      BY <1>0, <1>2 DEF Verify, At, SwitchesVerified, Early
    <3> QED BY <2>4, <3>1, <3>2, <3>3 DEF SwitchesVerified, Early
  <2> QED BY <1>2, <2>2, <2>3, <2>4 DEF Verify
<1>3. CASE EsOff
  <2>1. rows' = rows /\ verified' = verified
    BY <1>3 DEF EsOff
  <2>2. OnlyVerifiedFound'
    BY <1>0, <1>3, <2>1, FewerFound DEF EsOff
  <2>3. op'.old = op.old /\ op'.prev = op.prev /\ op'.undo = op.undo /\ op'.target = op.target
        /\ op'.source = op.source
    BY <1>0, <1>3 DEF EsOff, Goto, Op
  <2>4. op'.pc \in {"esOn", "backOff"} /\ (op'.pc = "esOn" => on'["es"][S] = {})
    BY <1>0, <1>1, <1>3 DEF EsOff, Goto, Outcomes, Op
  <2> QED BY <1>0, <1>3, <2>1, <2>2, <2>3, <2>4 DEF EsOff, At, SwitchesVerified, S, Early
<1>4. CASE EsOn
  <2>1. rows' = rows /\ verified' = verified /\ op.target \in verified /\ on["es"][S] = {}
    BY <1>0, <1>4 DEF EsOn, At, SwitchesVerified
  <2>2. OnlyVerifiedFound'
    BY <1>0, <1>1, <1>4, <2>1, SwitchFound, FewerFound DEF EsOn
  <2>3. op'.old = op.old /\ op'.prev = op.prev /\ op'.undo = op.undo /\ op'.target = op.target
    BY <1>0, <1>4 DEF EsOn, Goto, Op
  <2>4. op'.pc \in {"pgSwitch", "backOff"}
    BY <1>0, <1>4 DEF EsOn, Goto, Op
  <2> QED BY <1>0, <2>1, <2>2, <2>3, <2>4 DEF SwitchesVerified, Early
<1>5. CASE PgSwitch
  <2>1. rows' = rows /\ verified' = verified /\ op.target \in verified
    BY <1>0, <1>5 DEF PgSwitch, At, SwitchesVerified
  <2>2. OnlyVerifiedFound'
    BY <1>0, <1>1, <1>5, <2>1, SwitchFound, FewerFound DEF PgSwitch
  <2>3. /\ op'.old = op.old /\ op'.prev = op.prev /\ op'.undo = op.undo
        /\ op'.pc \in {"backOff", "dropEs", "manifest"}
    BY <1>0, <1>5 DEF PgSwitch, Goto, Op
  <2> QED BY <1>0, <2>1, <2>2, <2>3 DEF SwitchesVerified, Early
<1>6. CASE BackOff
  <2>1. rows' = rows /\ verified' = verified
    BY <1>6 DEF BackOff
  <2>2. OnlyVerifiedFound'
    BY <1>0, <1>6, <2>1, FewerFound DEF BackOff
  <2>3. ASSUME op' = Raise PROVE SwitchesVerified'
    BY <2>1, <2>3, EndedSwitches
  <2>4. ASSUME on' = [on EXCEPT !["es"][S] = {}], op' = [op EXCEPT !.pc = "backOn"]
        PROVE  SwitchesVerified'
    <3>1. /\ op'.pc = "backOn" /\ op'.old = op.old /\ op'.prev = op.prev /\ op'.undo = op.undo
          /\ op'.source = op.source
      BY <1>0, <2>4 DEF Op
    <3>2. on'["es"][S] = {}
      BY <1>0, <1>1, <2>4
    <3> QED BY <1>0, <2>1, <3>1, <3>2 DEF SwitchesVerified, S, Early
  <2> QED BY <1>6, <2>2, <2>3, <2>4 DEF BackOff, Outcomes
<1>7. CASE BackOn
  <2>1. rows' = rows /\ verified' = verified /\ op.prev \in verified \cup {NoGen} /\ on["es"][S] = {}
    BY <1>0, <1>7 DEF BackOn, At, SwitchesVerified
  <2>2. CASE on' = on
    BY <1>0, <1>7, <2>1, <2>2, EndedSwitches, AloneFound DEF BackOn
  <2>3. CASE on' = [on EXCEPT !["es"][S] = @ \cup (rows["es"][S] \cap {op.prev})]
    <3>1. CASE op.prev \in verified
      BY <1>0, <1>1, <1>7, <2>1, <2>3, <3>1, EndedSwitches, SwitchFound DEF BackOn
    <3>2. CASE op.prev = NoGen
      <4>1. NoGen \notin rows["es"][S]
        BY <1>0, <1>1, ValuesAssumption DEF Gens, NoGen
      <4>2. on' = on
        BY <1>0, <2>3, <3>2, <4>1
      <4> QED BY <1>0, <1>7, <2>1, <4>2, EndedSwitches, AloneFound DEF BackOn
    <3> QED BY <2>1, <3>1, <3>2
  <2> QED BY <1>7, <2>2, <2>3 DEF BackOn
<1> QED BY <1>2, <1>3, <1>4, <1>5, <1>6, <1>7

LEMMA FoundStep == FoundInv /\ [Next]_vars => FoundInv'
<1> SUFFICES ASSUME FoundInv, [Next]_vars PROVE SwitchesVerified' /\ OnlyVerifiedFound'
  BY TypeStep DEF FoundInv
<1>1. CASE UNCHANGED vars
  BY <1>1 DEF vars, FoundInv, SwitchesVerified, OnlyVerifiedFound, S
<1>2. CASE Next
  BY <1>2, OperationFound, FilesFound, RowsFound, SwitchStepFound DEF Next, IndexStep
<1> QED BY <1>1, <1>2

(* Retrieval finds at most one generation of a source in each store, and   *)
(* only generations that were complete in both, whatever fails.            *)
THEOREM OnlyVerifiedFoundHolds == Spec => []OnlyVerifiedFound
<1>1. Init => FoundInv
  BY TypeInit, FoundInit DEF FoundInv
<1>2. FoundInv => OnlyVerifiedFound
  BY DEF FoundInv
<1> QED BY <1>1, <1>2, FoundStep, PTL DEF Spec

(* The files and the stores of a source.                                   *)

Switching == {"esOff", "esOn", "pgSwitch", "backOff", "backOn"}
Activating == {"esOff", "esOn", "pgSwitch"}
Writing == {"manifest", "chunks", "state", "raw"}

Whole == S \notin torn

(* The four files of t, in f, were made of one published document.         *)
Filed(f, t) ==
  IF f.state[t] = Nothing
    THEN f.manifest[t] = Nothing /\ f.chunks[t] = Nothing /\ f.raw[t] = Nothing
    ELSE /\ f.manifest[t] = f.chunks[t].meta
         /\ f.raw[t] = f.chunks[t].body
         /\ f.state[t].hash = f.chunks[t].body
         /\ f.state[t].layout = f.chunks[t].body
         /\ f.state[t].gen \in 1 .. Len(made)
         /\ made[f.state[t].gen] = [source |-> t, doc |-> f.chunks[t]]

(* What the stores should find, by the files.                              *)
Wanted(f, t) == IF f.state[t] = Nothing THEN {} ELSE {f.state[t].gen}

Agree(t) == Filed(files, t) /\ \A store \in Stores : on[store][t] = Wanted(files, t)

SameFiles(t) ==
  /\ files.manifest[t] = op.snap.manifest[t] /\ files.chunks[t] = op.snap.chunks[t]
  /\ files.state[t] = op.snap.state[t] /\ files.raw[t] = op.snap.raw[t]

Before == Wanted(op.snap, S)
Es == on["es"][S]
Pg == on["pg"][S]

(* Sources no operation is at, or is still at.                             *)
OthersAgree == \A t \in Sources \ torn : AtRest \/ t # S => Agree(t)

(* The generation that is published.                                       *)
GenOK ==
  /\ verified \subseteq 1 .. Len(made)
  /\ op.pc \in Early \cup Writing \cup Removing => ~op.failing
  /\ At("restore") => op.failing
  /\ op.pc \in Early \cup Removing => op.old = NoGen
  /\ IsPublication /\ op.kind # "edit" => op.hash = op.doc.body
  /\ IsPublication /\ ~At("embed") =>
       /\ op.gen \in 1 .. Len(made)
       /\ made[op.gen] = [source |-> S, doc |-> op.doc]
       /\ op.old # op.gen
  /\ op.pc \in {"stagePg", "stageEs", "verify"} => op.gen \notin verified
  /\ At("stageEs") => op.gen \in rows["pg"][S]
  /\ At("verify") \/ (op.pc \in Activating /\ ~op.failing) => op.gen \in rows["pg"][S] \cap rows["es"][S]
  /\ op.pc \in Activating => op.target = IF op.failing THEN op.old ELSE op.gen

(* What is done of a publication, and of a removal.                        *)
PublishedOK ==
  /\ At("pgSwitch") /\ ~op.failing => Es = {op.gen}
  /\ op.pc \in Writing => Es = {op.gen} /\ Pg = {op.gen}
  /\ op.pc \in {"chunks", "state", "raw"} =>
       files.manifest[S] = op.doc.meta /\ files.raw[S] = op.snap.raw[S]
  /\ op.pc \in {"state", "raw"} => files.chunks[S] = op.doc
  /\ At("raw") => files.state[S] = [hash |-> op.hash, layout |-> op.doc.body, gen |-> op.gen]

RemovedOK ==
  /\ op.pc \in Removing \ {"rmManifest"} => files.manifest[S] = Nothing
  /\ op.pc \in {"rmState", "rmRaw", "delEs", "delPg"} => files.chunks[S] = Nothing
  /\ op.pc \in {"rmRaw", "delEs", "delPg"} => files.state[S] = Nothing
  /\ op.pc \in {"delEs", "delPg"} => files.raw[S] = Nothing
  /\ At("delPg") => Es = {}

(* The files are as they were but for what the operation has written, and  *)
(* it writes its own source only.                                          *)
FilesOK ==
  /\ ~AtRest => \A t \in Sources : t # S => SameFiles(t)
  /\ op.pc \in Early \cup Switching \cup {"manifest", "rmManifest"}
       \/ (op.failing /\ op.pc \in Dropping)
       \/ (At("restore") /\ op.kind # "trash" /\ op.undo = "nothing")
     => SameFiles(S)
  /\ IsPublication => files.manifest[S] = op.snap.manifest[S] \/ files.manifest[S] # Nothing
  /\ ~AtRest /\ op.kind = "trash" => op.snap.manifest[S] # Nothing

(* What the stores find while a whole source is worked on.                 *)
EarlyOK ==
  /\ ~AtRest /\ ~Finishing => Filed(op.snap, S)
  /\ IsPublication /\ op.kind = "edit" =>
       op.hash = op.doc.body /\ op.snap.raw[S] = op.doc.body /\ op.snap.state[S] # Nothing
  /\ op.pc \in Early => Es = Before /\ Pg = Before
  /\ IsPublication /\ ~At("embed") /\ ~Finishing => op.gen \notin Before

SwitchOK ==
  /\ op.pc \in Switching \cup Writing \/ (~AtRest /\ op.failing /\ op.old # NoGen) =>
       /\ Before = {op.old} \ {NoGen}
       /\ Before \subseteq rows["es"][S] \cap rows["pg"][S]
  /\ op.pc \in Switching => Pg = IF op.failing THEN {op.gen} ELSE Before
  /\ At("pgSwitch") /\ op.failing => Es = Before
  /\ op.pc \in Switching /\ ~op.failing => op.prev = op.old
  /\ At("backOn") => ~op.failing

UndoOK ==
  /\ At("restore") /\ op.undo = "nothing" => Es = Before /\ Pg = Before
  /\ At("restore") /\ op.undo = "drop" =>
       /\ Es \ {op.gen} = Before /\ Pg \ {op.gen} = Before
       /\ SameFiles(S) \/ Pg = {op.gen}
  /\ At("restore") /\ op.undo = "switch" => Es = {op.gen} /\ Pg = {op.gen}
  /\ op.failing /\ At("dropEs") => Es \ {op.gen} = Before /\ Pg \ {op.gen} = Before
  /\ op.failing /\ At("dropPg") => Es = Before /\ Pg \ {op.gen} = Before
  /\ ~op.failing /\ op.pc \in Dropping => Agree(S) /\ files.state[S].gen = op.gen /\ files.state[S] # Nothing
  /\ op.pc \in Removing \ {"delPg"} => Es = Before /\ Pg = Before

WholeOK == Whole => EarlyOK /\ SwitchOK /\ UndoOK

AgreeInv == FoundInv /\ OthersAgree /\ GenOK /\ PublishedOK /\ RemovedOK /\ FilesOK /\ WholeOK


-----------------------------------------------------------------------------
(* What every step of an operation leaves as it is.                        *)

Carried ==
  /\ op'.kind = op.kind /\ op'.source = op.source /\ op'.doc = op.doc /\ op'.hash = op.hash
  /\ op'.slot = op.slot /\ op'.snap = op.snap /\ op'.gen = op.gen

Kept(t) ==
  /\ files'.manifest[t] = files.manifest[t] /\ files'.chunks[t] = files.chunks[t]
  /\ files'.state[t] = files.state[t] /\ files'.raw[t] = files.raw[t]

OthersKept ==
  /\ made' = made /\ torn \subseteq torn' \cup {S}
  /\ \A t \in Sources : t # S /\ t \notin torn' =>
       Kept(t) /\ \A store \in Stores : on'[store][t] = on[store][t]

LEMMA GoesOn ==
  ASSUME op \in Op, NEW step, Goto(step)
  PROVE  /\ op'.pc = step /\ Carried
         /\ op'.old = op.old /\ op'.target = op.target /\ op'.prev = op.prev
         /\ op'.failing = op.failing /\ op'.undo = op.undo
BY DEF Goto, Op, Carried

LEMMA RaisesFirst ==
  ASSUME op \in Op, ~op.failing, op' = Raise
  PROVE  /\ op'.pc = "restore" /\ Carried
         /\ op'.old = op.old /\ op'.target = op.target /\ op'.prev = op.prev
         /\ op'.failing /\ op'.undo = UndoAt(op.pc)
<1>1. op' = [op EXCEPT !.pc = "restore", !.failing = TRUE, !.undo = UndoAt(op.pc)]
  BY DEF Raise
<1> HIDE DEF UndoAt
<1> QED BY <1>1 DEF Op, Carried

LEMMA EndsAtRest ==
  ASSUME op \in Op, op' \in {NoOp, Ended, EndedFailing} \/ (op.failing /\ op' = Raise)
  PROVE  AtRest'
<1>1. CASE op' = NoOp
  BY <1>1 DEF NoOp, AtRest
<1>2. CASE op' = Ended \/ op' = EndedFailing
  BY <1>2, EndedType DEF AtRest
<1> QED BY <1>1, <1>2 DEF Raise

LEMMA RestOrNot ==
  ASSUME op \in Op
  PROVE  ~AtRest <=> op.pc \in Publishing \cup Removing \cup {"restore"}
BY DEF AtRest, Op, Steps, Publishing, Removing

LEMMA KeepsAgree ==
  ASSUME NEW t, Agree(t), made' = made, Kept(t), \A store \in Stores : on'[store][t] = on[store][t]
  PROVE  Agree(t)'
<1> QED BY DEF Agree, Filed, Wanted, Kept

LEMMA OthersStill ==
  ASSUME OthersAgree, OthersKept, NEW t \in Sources \ torn', t # S
  PROVE  Agree(t)'
<1>1. Agree(t)
  BY DEF OthersAgree, OthersKept
<1> QED BY <1>1, KeepsAgree DEF OthersKept

(* The operation ends.                                                     *)
LEMMA RestsAgree ==
  ASSUME AgreeInv, FoundInv', AtRest', OthersKept, verified' = verified,
         \A t \in Sources \ torn' : t = S => Agree(t)'
  PROVE  AgreeInv'
<1>1. OthersAgree'
  <2>1. ASSUME NEW t \in Sources \ torn' PROVE Agree(t)'
    BY <2>1, OthersStill DEF AgreeInv
  <2> QED BY <2>1 DEF OthersAgree
<1>2. GenOK' /\ PublishedOK' /\ RemovedOK' /\ FilesOK' /\ WholeOK'
  <2>1. op'.pc \in {"idle", "unarchive"} /\ ~IsPublication'
    BY DEF AtRest, IsPublication, At, Publishing
  <2>2. GenOK'
    BY <2>1 DEF AgreeInv, GenOK, At, Early, Writing, Removing, Activating, OthersKept
  <2>3. PublishedOK' /\ RemovedOK'
    BY <2>1 DEF PublishedOK, RemovedOK, At, Writing, Removing
  <2>4. FilesOK'
    BY <2>1 DEF FilesOK, AtRest, At, Early, Switching, Dropping
  <2>5. EarlyOK' /\ SwitchOK' /\ UndoOK'
    BY <2>1 DEF EarlyOK, SwitchOK, UndoOK, AtRest, At, Early, Switching, Writing, Dropping, Removing
  <2> QED BY <2>2, <2>3, <2>4, <2>5 DEF WholeOK
<1> QED BY <1>1, <1>2 DEF AgreeInv

(* The operation goes on: the sources it is not at.                        *)
LEMMA GoesAgree ==
  ASSUME AgreeInv, ~AtRest, ~AtRest', Carried, OthersKept, \A t \in Sources : t # S => Kept(t)
  PROVE  /\ OthersAgree'
         /\ \A t \in Sources : t # S => SameFiles(t)'
<1>1. ASSUME NEW t \in Sources \ torn', t # S PROVE Agree(t)'
  BY <1>1, OthersStill DEF AgreeInv
<1>2. OthersAgree'
  BY <1>1 DEF OthersAgree, Carried, S
<1>3. \A t \in Sources : t # S => SameFiles(t)'
  BY DEF AgreeInv, FilesOK, SameFiles, Kept, Carried
<1> QED BY <1>2, <1>3

(* An exception that is to be compensated.                                 *)
LEMMA RaisesAgree ==
  ASSUME AgreeInv, FoundInv', op.pc \in (Publishing \cup Removing) \ ({"embed"} \cup Dropping),
         ~op.failing, op' = Raise, files' = files, made' = made, verified' = verified,
         torn \subseteq torn',
         \A store \in Stores : \A t \in Sources : t # S => on'[store][t] = on[store][t],
         op.old # NoGen => rows' = rows,
         S \notin torn' /\ UndoAt(op.pc) = "nothing" => on'["es"][S] = Before /\ on'["pg"][S] = Before,
         S \notin torn' /\ UndoAt(op.pc) = "drop" =>
           /\ on'["es"][S] \ {op.gen} = Before /\ on'["pg"][S] \ {op.gen} = Before
           /\ SameFiles(S) \/ on'["pg"][S] = {op.gen},
         S \notin torn' /\ UndoAt(op.pc) = "switch" =>
           on'["es"][S] = {op.gen} /\ on'["pg"][S] = {op.gen}
  PROVE  AgreeInv'
<1>0. op \in Op /\ WellFormed
  BY DEF AgreeInv, FoundInv, TypeInv, TypeOK
<1>1. /\ op'.pc = "restore" /\ Carried /\ op'.old = op.old /\ op'.target = op.target
      /\ op'.prev = op.prev /\ op'.failing /\ op'.undo = UndoAt(op.pc)
  BY <1>0, RaisesFirst
<1>2. /\ ~AtRest /\ ~AtRest' /\ S \in Sources
      /\ IsPublication' => IsPublication /\ op.pc \in Publishing
  BY <1>0, <1>1 DEF AtRest, WellFormed, IsPublication, At, Publishing, Removing, Carried
<1>3. OthersAgree' /\ \A t \in Sources : t # S => SameFiles(t)'
  BY <1>1, <1>2, GoesAgree DEF OthersKept, Kept
<1>4. GenOK'
  BY <1>1, <1>2 DEF AgreeInv, GenOK, At, Early, Writing, Removing, Activating, Carried, S
<1>5. PublishedOK' /\ RemovedOK'
  BY <1>1 DEF PublishedOK, RemovedOK, At, Writing, Removing
<1>6. op.pc \in Publishing /\ UndoAt(op.pc) = "nothing" => op.pc \in Early
  BY DEF UndoAt, Publishing, Early
<1>7. op.kind = "trash" <=> op.pc \in Removing
  BY <1>0 DEF WellFormed, IsPublication, Publications, Publishing, Removing
<1> HIDE DEF UndoAt
<1>8. FilesOK'
  <2>1. IsPublication => SameFiles(S) \/ UndoAt(op.pc) # "nothing"
    BY <1>6, <1>7 DEF AgreeInv, FilesOK, IsPublication, At
  <2>2. At("restore")' /\ op'.kind # "trash" => IsPublication
    BY <1>1, <1>2 DEF IsPublication, At
  <2>3. SameFiles(S)' <=> SameFiles(S)
    BY <1>1 DEF SameFiles, Carried, S
  <2>4. IsPublication' => files'.manifest[S'] = op'.snap.manifest[S'] \/ files'.manifest[S'] # Nothing
    BY <1>1, <1>2 DEF AgreeInv, FilesOK, Carried, S
  <2>5. op'.kind = "trash" => op'.snap.manifest[S'] # Nothing
    BY <1>1, <1>2 DEF AgreeInv, FilesOK, Carried, S
  <2>6. S' = S
    BY <1>1 DEF Carried, S
  <2> QED BY <1>1, <1>3, <2>1, <2>2, <2>3, <2>4, <2>5, <2>6
         DEF FilesOK, At, Early, Switching, Dropping
<1>9. WholeOK'
  <2> SUFFICES ASSUME Whole' PROVE EarlyOK' /\ SwitchOK' /\ UndoOK'
    BY DEF WholeOK
  <2>1. S \notin torn' /\ EarlyOK /\ SwitchOK /\ UndoOK
    BY <1>1, <1>2 DEF AgreeInv, WholeOK, Whole, Carried, S
  <2>2. EarlyOK'
    BY <1>1, <1>2, <2>1, SMTT(30) DEF EarlyOK, Finishing, Filed, Wanted, Before, At, Early, Carried, S, Dropping
  <2>3. SwitchOK'
    <3>1. op.old = NoGen \/ op.pc \in Switching \cup Writing
      BY DEF AgreeInv, GenOK, Publishing, Removing, Early, Switching, Writing, Dropping
    <3>2. op.old # NoGen => Before = {op.old} \ {NoGen} /\ Before \subseteq rows["es"][S] \cap rows["pg"][S]
      BY <2>1, <3>1 DEF SwitchOK
    <3>3. Before' = Before
      BY <1>1 DEF Before, Wanted, Carried, S
    <3> QED BY <1>1, <3>2, <3>3 DEF SwitchOK, Switching, Writing, At, Carried, S
  <2>4. UndoOK'
    <3>1. Before' = Before /\ (SameFiles(S)' <=> SameFiles(S)) /\ S' = S
      BY <1>1 DEF Before, Wanted, SameFiles, Carried, S
    <3> QED BY <1>1, <2>1, <3>1 DEF UndoOK, At, Dropping, Removing, Es, Pg, Carried
  <2> QED BY <2>2, <2>3, <2>4
<1> QED BY <1>3, <1>4, <1>5, <1>8, <1>9 DEF AgreeInv

LEMMA AgreeInit == Init => AgreeInv
<1> SUFFICES ASSUME Init PROVE AgreeInv
  OBVIOUS
<1>0. FoundInv
  BY TypeInit, FoundInit DEF FoundInv
<1>1. op.pc = "idle" /\ ~op.failing /\ ~IsPublication /\ AtRest
  BY DEF Init, NoOp, IsPublication, At, Publishing, AtRest
<1>2. OthersAgree
  BY DEF Init, OthersAgree, Agree, Filed, Wanted
<1>3. GenOK
  BY <1>1 DEF Init, GenOK, At, Early, Writing, Removing, Activating
<1>4. PublishedOK /\ RemovedOK /\ FilesOK
  BY <1>1 DEF PublishedOK, RemovedOK, FilesOK, At, Writing, Removing, Early, Switching, Dropping
<1>5. EarlyOK /\ SwitchOK /\ UndoOK
  BY <1>1 DEF EarlyOK, SwitchOK, UndoOK, At, Early, Switching, Writing, Dropping, Removing
<1> QED BY <1>0, <1>2, <1>3, <1>4, <1>5 DEF AgreeInv, WholeOK

(* A source at rest: what an operation on it starts from.                  *)
LEMMA BeginAgree ==
  ASSUME AgreeInv, FoundInv', At("idle"), NEW kind \in Publications, NEW t \in Sources, NEW doc, NEW hash,
         NEW slot, Begin(kind, t, doc, hash, slot),
         kind # "edit" => hash = doc.body,
         t \notin torn /\ kind = "edit" =>
           hash = doc.body /\ files.raw[t] = doc.body /\ files.state[t] # Nothing
  PROVE  AgreeInv'
<1>1. op' = [kind |-> kind, pc |-> "embed", source |-> t, doc |-> doc, hash |-> hash, slot |-> slot,
             gen |-> NoGen, old |-> NoGen, target |-> NoGen, prev |-> NoGen,
             failing |-> FALSE, undo |-> "nothing", snap |-> files]
  BY DEF Begin, NoOp
<1>2. /\ op'.pc = "embed" /\ op'.source = t /\ op'.doc = doc /\ op'.hash = hash /\ op'.kind = kind
      /\ op'.old = NoGen /\ ~op'.failing /\ op'.snap = files
  BY <1>1
<1>3. /\ UNCHANGED <<rows, on, trash, made, verified, torn, last>>
      /\ \A u \in Sources : Kept(u)
  BY DEF Begin, Kept
<1>4. AtRest /\ ~AtRest' /\ S' = t
  BY <1>2 DEF At, AtRest, S
<1>5. \A u \in Sources \ torn : Agree(u)
  BY <1>4 DEF AgreeInv, OthersAgree
<1>6. OthersAgree'
  <2>1. ASSUME NEW u \in Sources \ torn' PROVE Agree(u)'
    BY <1>3, <1>5, <2>1, KeepsAgree
  <2> QED BY <2>1 DEF OthersAgree
<1>7. GenOK'
  BY <1>2, <1>3 DEF AgreeInv, GenOK, At, Early, Writing, Removing, Activating
<1>8. PublishedOK' /\ RemovedOK'
  BY <1>2 DEF PublishedOK, RemovedOK, At, Writing, Removing
<1>9. FilesOK'
  <2>1. \A u \in Sources : SameFiles(u)'
    BY <1>2, <1>3 DEF SameFiles, Kept
  <2>2. op'.kind # "trash" /\ files'.manifest[t] = op'.snap.manifest[t]
    BY <1>2, <1>3 DEF Publications, Kept
  <2> QED BY <1>4, <2>1, <2>2 DEF FilesOK
<1>10. WholeOK'
  <2> SUFFICES ASSUME t \notin torn PROVE EarlyOK' /\ SwitchOK' /\ UndoOK'
    BY <1>3, <1>4 DEF WholeOK, Whole
  <2>1. Agree(t)
    BY <1>5
  <2>2. EarlyOK'
    BY <1>2, <1>3, <1>4, <2>1
    DEF EarlyOK, Agree, Filed, Wanted, Before, Es, Pg, Stores, At, Early, Finishing
  <2>3. SwitchOK' /\ UndoOK'
    BY <1>2 DEF SwitchOK, UndoOK, At, Switching, Writing, Dropping, Removing
  <2> QED BY <2>2, <2>3
<1> QED BY <1>6, <1>7, <1>8, <1>9, <1>10 DEF AgreeInv

LEMMA TrashAgree ==
  ASSUME AgreeInv, FoundInv', NEW t \in Sources, NEW slot, Trash(t, slot)
  PROVE  AgreeInv'
<1>1. op' = [kind |-> "trash", pc |-> "rmManifest", source |-> t, doc |-> Nothing,
             hash |-> Nothing, slot |-> slot, gen |-> NoGen, old |-> NoGen, target |-> NoGen,
             prev |-> NoGen, failing |-> FALSE, undo |-> "nothing", snap |-> files]
  BY DEF Trash, NoOp
<1>2. /\ op'.pc = "rmManifest" /\ op'.source = t /\ op'.kind = "trash"
      /\ op'.old = NoGen /\ ~op'.failing /\ op'.snap = files
  BY <1>1
<1>3. UNCHANGED <<files, rows, on, made, verified, torn, last>> /\ files.manifest[t] # Nothing
  BY DEF Trash
<1>4. AtRest /\ ~AtRest' /\ S' = t /\ ~IsPublication'
  BY <1>2 DEF At, AtRest, S, Trash, IsPublication, Publishing
<1>5. \A u \in Sources \ torn : Agree(u)
  BY <1>4 DEF AgreeInv, OthersAgree
<1>6. OthersAgree'
  <2>1. ASSUME NEW u \in Sources \ torn' PROVE Agree(u)'
    BY <1>3, <1>5, <2>1, KeepsAgree DEF Kept
  <2> QED BY <2>1 DEF OthersAgree
<1>7. GenOK'
  BY <1>2, <1>3, <1>4 DEF AgreeInv, GenOK, At, Early, Writing, Removing, Activating
<1>8. PublishedOK' /\ RemovedOK'
  BY <1>2 DEF PublishedOK, RemovedOK, At, Writing, Removing
<1>9. FilesOK'
  <2>1. \A u \in Sources : SameFiles(u)'
    BY <1>2, <1>3 DEF SameFiles
  <2> QED BY <1>2, <1>3, <1>4, <2>1 DEF FilesOK
<1>10. WholeOK'
  <2> SUFFICES ASSUME t \notin torn PROVE EarlyOK' /\ SwitchOK' /\ UndoOK'
    BY <1>3, <1>4 DEF WholeOK, Whole
  <2>1. Agree(t)
    BY <1>5
  <2>2. EarlyOK'
    BY <1>2, <1>3, <1>4, <2>1 DEF EarlyOK, Agree, Filed, Early
  <2>3. SwitchOK'
    BY <1>2 DEF SwitchOK, At, Switching, Writing
  <2>4. UndoOK'
    BY <1>2, <1>3, <1>4, <2>1 DEF UndoOK, Agree, Wanted, Before, Es, Pg, Stores, At, Dropping, Removing
  <2> QED BY <2>2, <2>3, <2>4
<1> QED BY <1>6, <1>7, <1>8, <1>9, <1>10 DEF AgreeInv

LEMMA OperationAgree ==
  ASSUME AgreeInv, FoundInv',
         \/ \E t \in Sources : \E doc \in Docs : Import(t, doc)
         \/ \E t \in Sources : \E meta \in Metas : Edit(t, meta)
         \/ \E slot \in Slots : Restore(slot) \/ \E t \in Sources : Trash(t, slot)
  PROVE  AgreeInv'
<1>1. ASSUME NEW t \in Sources, NEW doc \in Docs, Import(t, doc) PROVE AgreeInv'
  BY <1>1, BeginAgree DEF Import, Publications
<1>2. ASSUME NEW t \in Sources, NEW meta \in Metas, Edit(t, meta) PROVE AgreeInv'
  <2>1. t \notin torn => Agree(t)
    BY <1>2 DEF AgreeInv, OthersAgree, Edit, At, AtRest
  <2>2. t \notin torn => files.state[t].hash = files.chunks[t].body /\ files.raw[t] = files.chunks[t].body
    BY <1>2, <2>1 DEF Edit, Agree, Filed
  <2> QED BY <1>2, <2>2, BeginAgree DEF Edit, Publications
<1>3. ASSUME NEW slot \in Slots, Restore(slot) PROVE AgreeInv'
  <2> DEFINE doc == [body |-> trash[slot].body, meta |-> trash[slot].meta]
  <2>0. At("idle") /\ AtRest /\ trash[slot].source \in Sources
    BY <1>3 DEF Restore, At, AtRest, AgreeInv, FoundInv, TypeInv, TypeOK, Archive
  <2>1. CASE Begin("restore", trash[slot].source, doc, doc.body, slot)
    BY <2>0, <2>1, BeginAgree DEF Publications
  <2>2. CASE /\ op' = [NoOp EXCEPT !.kind = "restore", !.pc = "unarchive", !.slot = slot]
             /\ UNCHANGED <<files, rows, on, trash, made, verified, torn, last>>
    <3>1. AtRest'
      BY <2>2 DEF AtRest, NoOp
    <3>2. ASSUME NEW t \in Sources \ torn' PROVE Agree(t)'
      BY <2>0, <2>2, <3>2, KeepsAgree DEF Kept, AgreeInv, OthersAgree
    <3> QED BY <2>2, <3>1, <3>2, RestsAgree DEF OthersKept, Kept
  <2> QED BY <1>3, <2>1, <2>2 DEF Restore
<1>4. ASSUME NEW slot \in Slots, NEW t \in Sources, Trash(t, slot) PROVE AgreeInv'
  BY <1>4, TrashAgree
<1> QED BY <1>1, <1>2, <1>3, <1>4

-----------------------------------------------------------------------------
(* The stores and the files agree, step by step.                           *)

LEMMA CarriedSame ==
  ASSUME Carried
  PROVE  /\ S' = S /\ Before' = Before
         /\ Kept(S) => (SameFiles(S)' <=> SameFiles(S))
         /\ made' = made => (Filed(op.snap, S)' <=> Filed(op.snap, S))
<1>1. S' = S
  BY DEF Carried, S
<1>2. Before' = Before
  BY <1>1 DEF Before, Wanted, Carried
<1>3. Kept(S) => (SameFiles(S)' <=> SameFiles(S))
  BY <1>1 DEF SameFiles, Kept, Carried
<1>4. made' = made => (Filed(op.snap, S)' <=> Filed(op.snap, S))
  BY <1>1 DEF Filed, Carried
<1> QED BY <1>1, <1>2, <1>3, <1>4

(* Before the switch, the source is as it was.                             *)
LEMMA EarlyAgree ==
  ASSUME AgreeInv, op.pc \in Early, S \notin torn, S \in Sources
  PROVE  Agree(S) /\ SameFiles(S) /\ Es = Before /\ Pg = Before
<1>1. EarlyOK /\ SameFiles(S)
  BY DEF AgreeInv, WholeOK, Whole, FilesOK
<1>2. ~AtRest /\ ~Finishing
  BY DEF Early, AtRest, Finishing, Dropping
<1> QED BY <1>1, <1>2 DEF EarlyOK, Agree, Filed, Wanted, SameFiles, Before, Es, Pg, Stores

LEMMA EmbedAgree ==
  ASSUME AgreeInv, FoundInv', EmbedEnds
  PROVE  AgreeInv'
<1>0. op \in Op /\ S \in Sources /\ op.pc = "embed" /\ IsPublication /\ op.pc \in Early
      /\ made \in Seq([source : Sources, doc : Docs]) /\ op.doc \in Docs
  BY DEF EmbedEnds, AgreeInv, FoundInv, TypeInv, TypeOK, WellFormed, At, Publishing, IsPublication, Early
<1>1. UNCHANGED <<files, rows, on, trash, verified, torn, last>>
  BY DEF EmbedEnds
<1>2. CASE op' = NoOp /\ made' = made
  <2>1. AtRest'
    BY <1>2 DEF NoOp, AtRest
  <2>2. ASSUME S \notin torn PROVE Agree(S)
    BY <1>0, <2>2, EarlyAgree
  <2>3. ASSUME NEW t \in Sources \ torn', t = S PROVE Agree(t)'
    BY <1>1, <1>2, <2>2, <2>3, KeepsAgree DEF Kept
  <2> QED BY <1>1, <1>2, <2>1, <2>3, RestsAgree DEF OthersKept, Kept
<1>3. CASE /\ op' = [op EXCEPT !.pc = "stagePg", !.gen = Len(made) + 1]
           /\ made' = Append(made, [source |-> S, doc |-> op.doc])
  <2>1. /\ op'.pc = "stagePg" /\ op'.kind = op.kind /\ op'.source = op.source /\ op'.doc = op.doc
        /\ op'.hash = op.hash /\ op'.snap = op.snap /\ op'.gen = Len(made) + 1 /\ op'.old = op.old
        /\ op'.failing = op.failing
    BY <1>0, <1>3 DEF Op
  <2>2. /\ Len(made) \in Nat /\ Len(made') = Len(made) + 1
        /\ made'[Len(made) + 1] = [source |-> S, doc |-> op.doc]
        /\ \A g \in 1 .. Len(made) : made'[g] = made[g] /\ g \in 1 .. Len(made')
    BY <1>0, <1>3
  <2>3. S' = S /\ ~AtRest /\ ~AtRest'
    BY <1>0, <2>1 DEF S, AtRest
  <2>4. ASSUME NEW f, NEW t, Filed(f, t) PROVE Filed(f, t)'
    BY <2>2, <2>4 DEF Filed
  <2>5. ASSUME NEW t \in Sources, t # S, t \notin torn PROVE Agree(t)'
    <3>1. Agree(t)
      BY <2>5 DEF AgreeInv, OthersAgree
    <3> QED BY <1>1, <2>2, <3>1 DEF Agree, Filed, Wanted
  <2>6. OthersAgree'
    BY <1>1, <2>3, <2>5 DEF OthersAgree
  <2>7. GenOK'
    <3>1. verified' \subseteq 1 .. Len(made) /\ verified' \subseteq 1 .. Len(made')
      BY <1>1, <2>2 DEF AgreeInv, GenOK
    <3>2. op'.gen \in 1 .. Len(made') /\ op'.gen \notin verified' /\ op'.gen # NoGen
      BY <2>1, <2>2, <3>1 DEF NoGen
    <3>3. op.old = NoGen /\ ~op.failing /\ (op.kind # "edit" => op.hash = op.doc.body)
      BY <1>0 DEF AgreeInv, GenOK
    <3> QED BY <2>1, <2>2, <2>3, <3>1, <3>2, <3>3
           DEF GenOK, At, Early, Writing, Removing, Activating
  <2>8. PublishedOK' /\ RemovedOK'
    BY <2>1 DEF PublishedOK, RemovedOK, At, Writing, Removing
  <2>9. FilesOK'
    <3>1. \A t \in Sources : t # S => SameFiles(t)
      BY <2>3 DEF AgreeInv, FilesOK
    <3>2. SameFiles(S) /\ op.kind # "trash"
      BY <1>0 DEF AgreeInv, FilesOK, FoundInv, TypeInv, WellFormed, Publications
    <3>3. \A t \in Sources : SameFiles(t)'
      BY <1>1, <2>1, <3>1, <3>2 DEF SameFiles
    <3> QED BY <1>0, <2>1, <2>3, <3>2, <3>3 DEF FilesOK, SameFiles
  <2>10. WholeOK'
    <3> SUFFICES ASSUME S \notin torn PROVE EarlyOK' /\ SwitchOK' /\ UndoOK'
      BY <1>1, <2>3 DEF WholeOK, Whole
    <3>1. EarlyOK /\ Es = Before /\ Pg = Before /\ Filed(op.snap, S)
      BY <1>0, <2>3 DEF AgreeInv, WholeOK, Whole, EarlyOK, Finishing, Dropping
    <3>2. Filed(op.snap, S)'
      BY <2>1, <2>2, <2>3, <3>1 DEF Filed
    <3>3. Before' = Before
      BY <2>1, <2>3 DEF Before, Wanted
    <3>4. op'.gen \notin Before
      BY <2>1, <2>2, <3>1 DEF Filed, Before, Wanted
    <3>5. EarlyOK'
      <4>1. Es' = Before /\ Pg' = Before
        BY <1>1, <2>3, <3>1 DEF Es, Pg
      <4>2. op.kind = "edit" => op.hash = op.doc.body /\ op.snap.raw[S] = op.doc.body /\ op.snap.state[S] # Nothing
        BY <1>0, <3>1 DEF EarlyOK
      <4> QED BY <2>1, <2>3, <3>2, <3>3, <3>4, <4>1, <4>2 DEF EarlyOK
    <3>6. SwitchOK' /\ UndoOK'
      <4>1. ~op.failing
        BY <1>0 DEF AgreeInv, GenOK
      <4> QED BY <2>1, <4>1 DEF SwitchOK, UndoOK, At, Switching, Writing, Dropping, Removing
    <3> QED BY <3>5, <3>6
  <2> QED BY <2>6, <2>7, <2>8, <2>9, <2>10 DEF AgreeInv
<1> QED BY <1>2, <1>3 DEF EmbedEnds

(* Rows are staged: the source is not touched.                             *)
LEMMA StageAgree ==
  ASSUME AgreeInv, FoundInv', StagePg \/ StageEs
  PROVE  AgreeInv'
<1>0. op \in Op /\ S \in Sources /\ op.pc \in {"stagePg", "stageEs"} /\ op.pc \in Early
      /\ rows \in [Stores -> [Sources -> SUBSET Gens]]
  BY DEF StagePg, StageEs, AgreeInv, FoundInv, TypeInv, TypeOK, WellFormed, At, Publishing, Early
<1>1. UNCHANGED <<files, on, trash, made, verified, torn, last>>
  BY DEF StagePg, StageEs, Stage
<1>2. ~AtRest /\ ~op.failing /\ op.old = NoGen
  BY <1>0 DEF AtRest, AgreeInv, GenOK
<1>3. CASE op' = Raise
  <2>1. S \notin torn' => Es = Before /\ Pg = Before
    BY <1>0, <1>1, EarlyAgree
  <2>2. S \notin torn' => on'["es"][S] = Before /\ on'["pg"][S] = Before
    BY <1>1, <2>1 DEF Es, Pg
  <2>3. UndoAt(op.pc) = "nothing"
    BY <1>0 DEF UndoAt
  <2> HIDE DEF UndoAt
  <2> QED BY <1>0, <1>1, <1>2, <1>3, <2>2, <2>3, RaisesAgree DEF Publishing, Dropping
<1>4. CASE op' # Raise
  <2>0. \/ /\ op.pc = "stagePg" /\ Goto("stageEs")
           /\ rows' = [rows EXCEPT !["pg"][S] = @ \cup {op.gen}]
        \/ /\ op.pc = "stageEs" /\ Goto("verify")
           /\ rows' = [rows EXCEPT !["es"][S] = @ \cup {op.gen}]
    BY <1>4 DEF StagePg, StageEs, Stage, At, Goto
  <2>1. /\ Carried /\ op'.old = op.old /\ op'.target = op.target /\ op'.prev = op.prev
        /\ op'.failing = op.failing /\ op'.undo = op.undo
        /\ \/ op.pc = "stagePg" /\ op'.pc = "stageEs" /\ op.gen \in rows'["pg"][S]
           \/ /\ op.pc = "stageEs" /\ op'.pc = "verify"
              /\ op.gen \in rows'["es"][S] /\ rows'["pg"][S] = rows["pg"][S]
    <3>1. \A step \in {"stageEs", "verify"} : Goto(step) =>
            /\ op'.pc = step /\ Carried
            /\ op'.old = op.old /\ op'.target = op.target /\ op'.prev = op.prev
            /\ op'.failing = op.failing /\ op'.undo = op.undo
      BY <1>0, GoesOn
    <3>2. /\ "pg" \in Stores /\ "es" \in Stores
          /\ [rows EXCEPT !["pg"][S] = @ \cup {op.gen}]["pg"][S] = rows["pg"][S] \cup {op.gen}
          /\ [rows EXCEPT !["es"][S] = @ \cup {op.gen}]["es"][S] = rows["es"][S] \cup {op.gen}
          /\ [rows EXCEPT !["es"][S] = @ \cup {op.gen}]["pg"][S] = rows["pg"][S]
      BY <1>0 DEF Stores
    <3> QED BY <2>0, <3>1, <3>2
  <2>2. ~AtRest' /\ IsPublication /\ IsPublication' /\ S' = S /\ Before' = Before
        /\ (SameFiles(S)' <=> SameFiles(S)) /\ (Filed(op.snap, S)' <=> Filed(op.snap, S))
    BY <1>0, <1>1, <2>1, CarriedSame DEF AtRest, IsPublication, Publishing, Kept
  <2>3. OthersAgree' /\ \A t \in Sources : t # S => SameFiles(t)'
    BY <1>1, <1>2, <2>1, <2>2, GoesAgree DEF OthersKept, Kept
  <2>4. GenOK'
    BY <1>0, <1>1, <1>2, <2>1, <2>2 DEF AgreeInv, GenOK, At, Early, Writing, Removing, Activating, Carried
  <2>5. PublishedOK' /\ RemovedOK'
    BY <2>1 DEF PublishedOK, RemovedOK, At, Writing, Removing
  <2>6. FilesOK'
    BY <1>0, <1>1, <1>2, <2>1, <2>2, <2>3 DEF AgreeInv, FilesOK, Carried
  <2>7. WholeOK'
    <3> SUFFICES ASSUME S \notin torn PROVE EarlyOK' /\ SwitchOK' /\ UndoOK'
      BY <1>1, <2>2 DEF WholeOK, Whole
    <3>1. EarlyOK
      BY DEF AgreeInv, WholeOK, Whole
    <3>2. EarlyOK'
      BY <1>0, <1>1, <1>2, <2>1, <2>2, <3>1 DEF EarlyOK, Es, Pg, Finishing, At, Dropping, Carried
    <3>3. SwitchOK' /\ UndoOK'
      BY <1>2, <2>1 DEF SwitchOK, UndoOK, At, Switching, Writing, Dropping, Removing
    <3> QED BY <3>2, <3>3
  <2> QED BY <2>3, <2>4, <2>5, <2>6, <2>7 DEF AgreeInv
<1> QED BY <1>3, <1>4

LEMMA VerifyAgree ==
  ASSUME AgreeInv, FoundInv', Verify
  PROVE  AgreeInv'
<1>0. /\ op \in Op /\ S \in Sources /\ op.pc = "verify" /\ op.pc \in Early /\ IsPublication
      /\ on \in [Stores -> [Sources -> SUBSET Gens]] /\ OnlyVerifiedFound /\ op.gen \in Gens
  BY DEF Verify, AgreeInv, FoundInv, TypeInv, TypeOK, WellFormed, At, Publishing, IsPublication, Early
<1>1. UNCHANGED <<files, rows, on, trash, made, torn, last>>
  BY DEF Verify
<1>2. ~AtRest /\ ~op.failing /\ op.old = NoGen /\ ~Finishing
  BY <1>0 DEF AtRest, AgreeInv, GenOK, Finishing, Dropping
<1>3. CASE op' = Raise /\ verified' = verified
  <2>1. S \notin torn' => Es = Before /\ Pg = Before /\ SameFiles(S) /\ op.gen \notin Before
    BY <1>0, <1>1, <1>2, EarlyAgree DEF AgreeInv, WholeOK, Whole, EarlyOK, At
  <2>2. S \notin torn' => on'["es"][S] \ {op.gen} = Before /\ on'["pg"][S] \ {op.gen} = Before
    BY <1>1, <2>1 DEF Es, Pg
  <2>3. UndoAt(op.pc) = "drop"
    BY <1>0 DEF UndoAt
  <2> HIDE DEF UndoAt
  <2> QED BY <1>0, <1>1, <1>2, <1>3, <2>1, <2>2, <2>3, RaisesAgree DEF Publishing, Dropping
<1>4. CASE /\ verified' = verified \cup {op.gen}
           /\ op' = [op EXCEPT !.pc = "esOff", !.target = op.gen, !.prev = Searched, !.old = Searched]
  <2>1. /\ op'.pc = "esOff" /\ Carried /\ op'.old = Searched /\ op'.prev = Searched
        /\ op'.target = op.gen /\ op'.failing = op.failing /\ op'.undo = op.undo
    BY <1>0, <1>4 DEF Op, Carried
  <2>2. ~AtRest' /\ IsPublication /\ IsPublication' /\ S' = S /\ Before' = Before
        /\ (SameFiles(S)' <=> SameFiles(S)) /\ (Filed(op.snap, S)' <=> Filed(op.snap, S))
    BY <1>0, <1>1, <2>1, CarriedSame DEF AtRest, IsPublication, Publishing, Kept
  <2>3. OthersAgree' /\ \A t \in Sources : t # S => SameFiles(t)'
    BY <1>1, <1>2, <2>1, <2>2, GoesAgree DEF OthersKept, Kept
  <2>4. op.gen \notin verified /\ Searched # op.gen
    <3>1. op.gen \notin verified
      BY <1>0 DEF AgreeInv, GenOK
    <3>2. Searched \in verified \cup {NoGen}
      BY <1>0, SearchedVerified
    <3>3. op.gen # NoGen
      BY <1>0 DEF Gens, NoGen
    <3> QED BY <3>1, <3>2, <3>3
  <2>5. GenOK'
    BY <1>0, <1>1, <1>2, <1>4, <2>1, <2>2, <2>4
    DEF AgreeInv, GenOK, At, Early, Writing, Removing, Activating, Carried
  <2>6. PublishedOK' /\ RemovedOK'
    BY <2>1 DEF PublishedOK, RemovedOK, At, Writing, Removing
  <2>7. FilesOK'
    BY <1>0, <1>1, <1>2, <2>1, <2>2, <2>3 DEF AgreeInv, FilesOK, Carried
  <2>8. WholeOK'
    <3> SUFFICES ASSUME S \notin torn PROVE EarlyOK' /\ SwitchOK' /\ UndoOK'
      BY <1>1, <2>2 DEF WholeOK, Whole
    <3>1. EarlyOK
      BY DEF AgreeInv, WholeOK, Whole
    <3>2. EarlyOK'
      BY <1>0, <1>1, <1>2, <2>1, <2>2, <3>1 DEF EarlyOK, Es, Pg, Finishing, At, Dropping, Carried, Early
    <3>3. Pg = Before /\ Es = Before
      BY <1>0, <3>1 DEF EarlyOK
    <3>4. Before = {Searched} \ {NoGen}
      <4>1. on["pg"][S] \subseteq Gens /\ \A g, h \in on["pg"][S] : g = h
        BY <1>0 DEF OnlyVerifiedFound, Stores
      <4>2. NoGen \notin Gens
        BY DEF Gens, NoGen
      <4> QED BY <3>3, <4>1, <4>2 DEF Pg, Searched
    <3>5. Before \subseteq rows["es"][S] \cap rows["pg"][S]
      BY <1>0, <3>3 DEF OnlyVerifiedFound, Es, Pg, Stores
    <3>6. SwitchOK'
      BY <1>1, <1>2, <2>1, <2>2, <3>3, <3>4, <3>5 DEF SwitchOK, At, Pg
    <3>7. UndoOK'
      BY <1>2, <2>1 DEF UndoOK, At, Dropping, Removing
    <3> QED BY <3>2, <3>6, <3>7
  <2> QED BY <2>3, <2>5, <2>6, <2>7, <2>8 DEF AgreeInv
<1> QED BY <1>3, <1>4 DEF Verify

(* A call of the switch that another one follows.                          *)
LEMMA SwitchingAgree ==
  ASSUME AgreeInv, FoundInv', op.pc \in Switching, NEW step \in Switching, Goto(step),
         UNCHANGED <<files, rows, made, verified>>, torn \subseteq torn',
         \A store \in Stores : \A t \in Sources : t # S => on'[store][t] = on[store][t],
         step \in Activating => op.pc \in Activating,
         S \notin torn' => on'["pg"][S] = on["pg"][S],
         step = "pgSwitch" /\ ~op.failing => on'["es"][S] = {op.gen},
         S \notin torn' /\ step = "pgSwitch" /\ op.failing => on'["es"][S] = Before,
         S \notin torn' /\ step = "backOn" => ~op.failing
  PROVE  AgreeInv'
<1>0. op \in Op /\ S \in Sources /\ IsPublication /\ ~AtRest /\ ~Finishing
  BY DEF AgreeInv, FoundInv, TypeInv, TypeOK, WellFormed, Switching, Publishing, IsPublication, AtRest,
         Finishing, Dropping
<1>1. /\ op'.pc = step /\ Carried
      /\ op'.old = op.old /\ op'.target = op.target /\ op'.prev = op.prev
      /\ op'.failing = op.failing /\ op'.undo = op.undo
  BY <1>0, GoesOn
<1>2. ~AtRest' /\ ~Finishing' /\ IsPublication' /\ S' = S /\ Before' = Before
      /\ (SameFiles(S)' <=> SameFiles(S)) /\ (Filed(op.snap, S)' <=> Filed(op.snap, S))
  BY <1>1, CarriedSame DEF AtRest, IsPublication, Publishing, Kept, Switching, Finishing, Dropping
<1>3. OthersAgree' /\ \A t \in Sources : t # S => SameFiles(t)'
  BY <1>0, <1>1, <1>2, GoesAgree DEF OthersKept, Kept
<1>4. GenOK'
  BY <1>0, <1>1, <1>2 DEF AgreeInv, GenOK, At, Early, Writing, Removing, Activating, Switching, Carried
<1>5. PublishedOK' /\ RemovedOK'
  BY <1>1, <1>2 DEF PublishedOK, RemovedOK, At, Writing, Removing, Switching, Es, Carried
<1>6. FilesOK'
  BY <1>0, <1>1, <1>2, <1>3 DEF AgreeInv, FilesOK, Carried
<1>7. WholeOK'
  <2> SUFFICES ASSUME S \notin torn' PROVE EarlyOK' /\ SwitchOK' /\ UndoOK'
    BY <1>2 DEF WholeOK, Whole
  <2>1. EarlyOK /\ SwitchOK
    BY DEF AgreeInv, WholeOK, Whole
  <2>2. EarlyOK'
    BY <1>0, <1>1, <1>2, <2>1 DEF EarlyOK, At, Early, Switching, Carried
  <2>3. SwitchOK'
    <3>1. Before = {op.old} \ {NoGen} /\ Before \subseteq rows["es"][S] \cap rows["pg"][S]
      BY <2>1 DEF SwitchOK
    <3>2. Pg' = Pg
      BY <1>2 DEF Pg
    <3>3. Pg = IF op.failing THEN {op.gen} ELSE Before
      BY <2>1 DEF SwitchOK
    <3>4. At("pgSwitch")' /\ op'.failing => Es' = Before
      BY <1>1, <1>2 DEF At, Es
    <3>5. (~op.failing => op.prev = op.old) /\ (At("backOn")' => ~op.failing)
      BY <1>1, <2>1 DEF SwitchOK, At
    <3> QED BY <1>1, <1>2, <3>1, <3>2, <3>3, <3>4, <3>5 DEF SwitchOK, Carried
  <2>4. UndoOK'
    BY <1>1 DEF UndoOK, At, Dropping, Removing, Switching
  <2> QED BY <2>2, <2>3, <2>4
<1> QED BY <1>3, <1>4, <1>5, <1>6, <1>7 DEF AgreeInv

(* What holds of a source that is being switched.                          *)
LEMMA SwitchingHas ==
  ASSUME AgreeInv, op.pc \in Switching
  PROVE  /\ op \in Op /\ S \in Sources /\ IsPublication /\ ~AtRest /\ ~Finishing
         /\ op.pc \in Publishing /\ ~At("embed") /\ op.pc \notin Dropping
         /\ on \in [Stores -> [Sources -> SUBSET Gens]] /\ rows \in [Stores -> [Sources -> SUBSET Gens]]
         /\ SameFiles(S) /\ "es" \in Stores /\ "pg" \in Stores
         /\ op.gen # op.old /\ op.gen # NoGen
         /\ op.pc \in Activating => op.target = IF op.failing THEN op.old ELSE op.gen
         /\ op.pc \in Activating /\ ~op.failing => op.gen \in rows["pg"][S] \cap rows["es"][S]
         /\ S \notin torn => /\ Filed(op.snap, S) /\ op.gen \notin Before
                             /\ Before = {op.old} \ {NoGen}
                             /\ Before \subseteq rows["es"][S] \cap rows["pg"][S]
                             /\ Pg = IF op.failing THEN {op.gen} ELSE Before
                             /\ ~op.failing => op.prev = op.old
<1>1. /\ op \in Op /\ S \in Sources /\ IsPublication /\ ~AtRest /\ ~Finishing
      /\ op.pc \in Publishing /\ ~At("embed") /\ op.pc \notin Dropping
      /\ on \in [Stores -> [Sources -> SUBSET Gens]] /\ rows \in [Stores -> [Sources -> SUBSET Gens]]
      /\ "es" \in Stores /\ "pg" \in Stores /\ op.gen \in Gens
  BY DEF AgreeInv, FoundInv, TypeInv, TypeOK, WellFormed, Switching, Publishing, IsPublication, AtRest,
         Finishing, Dropping, Stores, At
<1>2. /\ op.gen # op.old /\ op.gen # NoGen
      /\ op.pc \in Activating => op.target = IF op.failing THEN op.old ELSE op.gen
      /\ op.pc \in Activating /\ ~op.failing => op.gen \in rows["pg"][S] \cap rows["es"][S]
  BY <1>1 DEF AgreeInv, GenOK, Gens, NoGen
<1>3. SameFiles(S)
  BY DEF AgreeInv, FilesOK
<1>4. S \notin torn => EarlyOK /\ SwitchOK
  BY DEF AgreeInv, WholeOK, Whole
<1>5. S \notin torn => /\ Filed(op.snap, S) /\ op.gen \notin Before
                       /\ Before = {op.old} \ {NoGen}
                       /\ Before \subseteq rows["es"][S] \cap rows["pg"][S]
                       /\ Pg = IF op.failing THEN {op.gen} ELSE Before
                       /\ ~op.failing => op.prev = op.old
  BY <1>1, <1>4 DEF EarlyOK, SwitchOK
<1> QED BY <1>1, <1>2, <1>3, <1>5

LEMMA EsOffAgree ==
  ASSUME AgreeInv, FoundInv', EsOff
  PROVE  AgreeInv'
<1>1. op.pc = "esOff" /\ op.pc \in Switching /\ op.pc \in Activating
  BY DEF EsOff, At, Switching, Activating
<1>2. op \in Op /\ S \in Sources /\ on \in [Stores -> [Sources -> SUBSET Gens]]
  BY <1>1, SwitchingHas
<1>3. UNCHANGED <<files, rows, made, verified, torn>> /\ (Goto("esOn") \/ Goto("backOff"))
  BY DEF EsOff
<1>4. /\ \A store \in Stores : \A t \in Sources : t # S => on'[store][t] = on[store][t]
      /\ on'["pg"][S] = on["pg"][S]
  BY <1>2 DEF EsOff, Stores
<1> QED BY <1>1, <1>3, <1>4, SwitchingAgree DEF Switching, Activating

LEMMA EsOnAgree ==
  ASSUME AgreeInv, FoundInv', EsOn
  PROVE  AgreeInv'
<1>1. op.pc = "esOn" /\ op.pc \in Switching /\ op.pc \in Activating
  BY DEF EsOn, At, Switching, Activating
<1>2. op \in Op /\ S \in Sources /\ on \in [Stores -> [Sources -> SUBSET Gens]] /\ on["es"][S] = {}
  BY <1>1, SwitchingHas DEF AgreeInv, FoundInv, SwitchesVerified
<1>3. UNCHANGED <<files, rows, made, verified, torn>>
  BY DEF EsOn
<1>4. /\ \A store \in Stores : \A t \in Sources : t # S => on'[store][t] = on[store][t]
      /\ on'["pg"][S] = on["pg"][S]
  BY <1>2 DEF EsOn, Stores
<1>5. CASE Goto("backOff")
  BY <1>1, <1>3, <1>4, <1>5, SwitchingAgree DEF Switching, Activating
<1>6. CASE Goto("pgSwitch") /\ on' = [on EXCEPT !["es"][S] = @ \cup (rows["es"][S] \cap {op.target})]
  <2>1. on'["es"][S] = rows["es"][S] \cap {op.target}
    BY <1>2, <1>6 DEF Stores
  <2>2. ~op.failing => on'["es"][S] = {op.gen}
    BY <1>1, <2>1, SwitchingHas
  <2>3. S \notin torn' /\ op.failing => on'["es"][S] = Before
    <3>1. ASSUME S \notin torn', op.failing
          PROVE  /\ op.target = op.old /\ Before = {op.old} \ {NoGen} /\ Before \subseteq rows["es"][S]
                 /\ NoGen \notin rows["es"][S]
      <4>1. NoGen \notin rows["es"][S]
        BY <1>1, <1>2, SwitchingHas DEF Gens, NoGen
      <4> QED BY <1>1, <1>3, <3>1, <4>1, SwitchingHas
    <3> QED BY <2>1, <3>1
  <2> QED BY <1>1, <1>3, <1>4, <1>6, <2>2, <2>3, SwitchingAgree DEF Switching, Activating
<1> QED BY <1>5, <1>6 DEF EsOn, Outcomes

LEMMA PgSwitchAgree ==
  ASSUME AgreeInv, FoundInv', PgSwitch
  PROVE  AgreeInv'
<1>1. op.pc = "pgSwitch" /\ op.pc \in Switching /\ op.pc \in Activating
  BY DEF PgSwitch, At, Switching, Activating
<1>2. /\ op \in Op /\ S \in Sources /\ IsPublication /\ ~AtRest
      /\ on \in [Stores -> [Sources -> SUBSET Gens]]
  BY <1>1, SwitchingHas
<1>3. UNCHANGED <<files, rows, made, verified>> /\ torn \subseteq torn'
  BY DEF PgSwitch, TearIf, Tear
<1>4. /\ \A store \in Stores : \A t \in Sources : t # S => on'[store][t] = on[store][t]
      /\ on'["es"][S] = on["es"][S]
  BY <1>2 DEF PgSwitch, Stores
<1>5. CASE Goto("backOff") /\ (S \notin torn' => on' = on)
  BY <1>1, <1>3, <1>4, <1>5, SwitchingAgree DEF Switching, Activating
<1>6. CASE /\ on' = [on EXCEPT !["pg"][S] = rows["pg"][S] \cap {op.target}]
           /\ Goto(IF op.failing THEN "dropEs" ELSE "manifest") /\ torn' = torn
  <2> DEFINE step == IF op.failing THEN "dropEs" ELSE "manifest"
  <2>0. /\ op'.pc = step /\ Carried
        /\ op'.old = op.old /\ op'.target = op.target /\ op'.prev = op.prev
        /\ op'.failing = op.failing /\ op'.undo = op.undo
    BY <1>2, <1>6, GoesOn
  <2>1. on'["pg"][S] = rows["pg"][S] \cap {op.target}
    BY <1>2, <1>6 DEF Stores
  <2>2. ~AtRest' /\ IsPublication' /\ S' = S /\ Before' = Before /\ ~Finishing'
        /\ (SameFiles(S)' <=> SameFiles(S)) /\ (Filed(op.snap, S)' <=> Filed(op.snap, S))
    BY <1>3, <2>0, CarriedSame DEF AtRest, IsPublication, Publishing, Kept, Finishing, Dropping
  <2>3. OthersAgree' /\ \A t \in Sources : t # S => SameFiles(t)'
    BY <1>2, <1>3, <1>4, <2>0, <2>2, GoesAgree DEF OthersKept, Kept
  <2>4. GenOK'
    BY <1>1, <1>2, <1>3, <2>0, <2>2, SwitchingHas
    DEF AgreeInv, GenOK, At, Early, Writing, Removing, Activating, Carried
  <2>5. ~op.failing => Es' = {op.gen} /\ Pg' = {op.gen}
    <3>1. ~op.failing => Es = {op.gen}
      BY <1>1 DEF AgreeInv, PublishedOK, At
    <3>2. ~op.failing => rows["pg"][S] \cap {op.target} = {op.gen}
      BY <1>1, SwitchingHas
    <3> QED BY <1>4, <2>1, <2>2, <3>1, <3>2 DEF Es, Pg
  <2>6. PublishedOK' /\ RemovedOK'
    BY <2>0, <2>5 DEF PublishedOK, RemovedOK, At, Writing, Removing, Carried
  <2>7. FilesOK'
    BY <1>1, <1>2, <1>3, <2>0, <2>2, <2>3, SwitchingHas DEF AgreeInv, FilesOK, Carried
  <2>8. WholeOK'
    <3> SUFFICES ASSUME S \notin torn PROVE EarlyOK' /\ SwitchOK' /\ UndoOK'
      BY <1>6, <2>2 DEF WholeOK, Whole
    <3>1. EarlyOK /\ SwitchOK
      BY DEF AgreeInv, WholeOK, Whole
    <3>2. EarlyOK'
      BY <1>1, <1>2, <2>0, <2>2, <3>1, SwitchingHas DEF EarlyOK, At, Early, Carried
    <3>3. SwitchOK'
      <4>1. Before = {op.old} \ {NoGen} /\ Before \subseteq rows["es"][S] \cap rows["pg"][S]
        BY <1>1, SwitchingHas
      <4> QED BY <1>3, <2>0, <2>2, <4>1 DEF SwitchOK, At, Switching
    <3>4. op.failing => Es' = Before /\ Pg' = Before /\ op.gen \notin Before
      <4>1. op.failing => Es = Before
        BY <1>1, <3>1 DEF SwitchOK, At
      <4>2. NoGen \notin rows["pg"][S]
        BY <1>1, SwitchingHas DEF Gens, NoGen
      <4>3. op.failing => rows["pg"][S] \cap {op.target} = Before
        BY <1>1, <4>2, SwitchingHas
      <4> QED BY <1>1, <1>4, <2>1, <2>2, <4>1, <4>3, SwitchingHas DEF Es, Pg
    <3>5. UndoOK'
      BY <2>0, <2>2, <3>4 DEF UndoOK, At, Dropping, Removing, Carried
    <3> QED BY <3>2, <3>3, <3>5
  <2> QED BY <2>3, <2>4, <2>6, <2>7, <2>8 DEF AgreeInv
<1> QED BY <1>5, <1>6, <1>2 DEF PgSwitch, Outcomes, TearIf, Tear

LEMMA SwitchBackAgree ==
  ASSUME AgreeInv, FoundInv', BackOff \/ BackOn
  PROVE  AgreeInv'
<1>1. op.pc \in {"backOff", "backOn"} /\ op.pc \in Switching
  BY DEF BackOff, BackOn, At, Switching
<1>2. /\ op \in Op /\ S \in Sources /\ IsPublication /\ ~AtRest /\ op.pc \in Publishing
      /\ ~At("embed") /\ op.pc \notin Dropping /\ on \in [Stores -> [Sources -> SUBSET Gens]]
  BY <1>1, SwitchingHas
<1>3. /\ UNCHANGED <<files, rows, made, verified>> /\ torn \subseteq torn' /\ torn' \subseteq torn \cup {S}
      /\ S \notin torn' => ~op.failing
  BY DEF BackOff, BackOn, TearIf, Tear
<1>4. /\ \A store \in Stores : \A t \in Sources : t # S => on'[store][t] = on[store][t]
      /\ on'["pg"][S] = on["pg"][S]
  BY <1>2 DEF BackOff, BackOn, Stores
<1>5. CASE Goto("backOn")
  BY <1>1, <1>3, <1>4, <1>5, SwitchingAgree DEF Switching, Activating
<1>6. CASE op' = Raise /\ op.failing
  <2>1. AtRest'
    BY <1>2, <1>6, EndsAtRest
  <2> QED BY <1>3, <1>4, <1>6, <2>1, RestsAgree DEF OthersKept, Kept
<1>7. CASE op' = Raise /\ ~op.failing
  <2>1. UndoAt(op.pc) = "drop"
    BY <1>1 DEF UndoAt
  <2>2. ASSUME S \notin torn' PROVE on'["es"][S] = Before
    <3>1. Before = {op.old} \ {NoGen} /\ Before \subseteq rows["es"][S] /\ op.prev = op.old
      BY <1>1, <1>3, <1>7, <2>2, SwitchingHas
    <3>2. CASE BackOff
      <4>0. op' # [op EXCEPT !.pc = "backOn"]
        <5>1. op'.pc = "restore"
          BY <1>2, <1>7, RaisesFirst
        <5>2. [op EXCEPT !.pc = "backOn"].pc = "backOn"
          BY <1>2 DEF Op
        <5> QED BY <5>1, <5>2
      <4>1. op.prev = NoGen /\ on' = [on EXCEPT !["es"][S] = {}]
        BY <2>2, <3>2, <4>0 DEF BackOff, TearIf, Tear
      <4>2. on'["es"][S] = {}
        BY <1>2, <4>1 DEF Stores
      <4> QED BY <3>1, <4>1, <4>2
    <3>3. CASE BackOn
      <4>1. on' = [on EXCEPT !["es"][S] = @ \cup (rows["es"][S] \cap {op.prev})] /\ on["es"][S] = {}
        BY <2>2, <3>3 DEF BackOn, TearIf, Tear, At, Outcomes, AgreeInv, FoundInv, SwitchesVerified
      <4>2. on'["es"][S] = rows["es"][S] \cap {op.prev}
        BY <1>2, <4>1 DEF Stores
      <4>3. NoGen \notin rows["es"][S]
        BY <1>1, SwitchingHas DEF Gens, NoGen
      <4> QED BY <3>1, <4>2, <4>3
    <3> QED BY <3>2, <3>3
  <2>3. S \notin torn' => on'["pg"][S] = Before /\ SameFiles(S) /\ op.gen \notin Before
    BY <1>1, <1>3, <1>4, <1>7, SwitchingHas DEF Pg
  <2>4. S \notin torn' => on'["es"][S] \ {op.gen} = Before /\ on'["pg"][S] \ {op.gen} = Before
    BY <2>2, <2>3
  <2> HIDE DEF UndoAt
  <2> QED BY <1>2, <1>3, <1>4, <1>7, <2>1, <2>3, <2>4, RaisesAgree DEF At
<1> QED BY <1>5, <1>6, <1>7 DEF BackOff, BackOn, Goto

(* A source found as it was before.                                        *)
LEMMA BackAgree ==
  ASSUME NEW t, t = S, made' = made, Kept(t), SameFiles(t), Filed(op.snap, t),
         \A store \in Stores : on'[store][t] = Before
  PROVE  Agree(t)'
<1>1. /\ files'.manifest[t] = op.snap.manifest[t] /\ files'.chunks[t] = op.snap.chunks[t]
      /\ files'.state[t] = op.snap.state[t] /\ files'.raw[t] = op.snap.raw[t]
  BY DEF Kept, SameFiles
<1>2. Filed(files, t)'
  BY <1>1 DEF Filed
<1>3. Wanted(files, t)' = Before
  BY <1>1 DEF Wanted, Before
<1> QED BY <1>2, <1>3 DEF Agree

LEMMA DroppingHas ==
  ASSUME AgreeInv, op.pc \in Dropping
  PROVE  /\ op \in Op /\ S \in Sources /\ IsPublication /\ ~AtRest /\ Finishing = ~op.failing
         /\ op.pc \in Publishing /\ ~At("embed") /\ "es" \in Stores /\ "pg" \in Stores
         /\ on \in [Stores -> [Sources -> SUBSET Gens]] /\ rows \in [Stores -> [Sources -> SUBSET Gens]]
         /\ op.gen # op.old
         /\ op.failing => SameFiles(S)
         /\ S \notin torn /\ op.failing =>
              /\ Filed(op.snap, S) /\ op.gen \notin Before
              /\ Es \ {op.gen} = Before /\ Pg \ {op.gen} = Before
              /\ At("dropPg") => Es = Before
              /\ op.old # NoGen => /\ Es = Before /\ Pg = Before /\ Before = {op.old} \ {NoGen}
                                   /\ Before \subseteq rows["es"][S] \cap rows["pg"][S]
         /\ S \notin torn /\ ~op.failing =>
              Agree(S) /\ files.state[S] # Nothing /\ files.state[S].gen = op.gen
<1>1. /\ op \in Op /\ S \in Sources /\ IsPublication /\ ~AtRest /\ Finishing = ~op.failing
      /\ op.pc \in Publishing /\ ~At("embed") /\ "es" \in Stores /\ "pg" \in Stores
      /\ on \in [Stores -> [Sources -> SUBSET Gens]] /\ rows \in [Stores -> [Sources -> SUBSET Gens]]
      /\ OnlyVerifiedFound
  BY DEF AgreeInv, FoundInv, TypeInv, TypeOK, WellFormed, Publishing, IsPublication, AtRest,
         Finishing, Dropping, Stores, At
<1>2. op.gen # op.old /\ (op.failing => SameFiles(S))
  BY <1>1 DEF AgreeInv, GenOK, FilesOK
<1>3. S \notin torn => EarlyOK /\ SwitchOK /\ UndoOK
  BY DEF AgreeInv, WholeOK, Whole
<1>4. ASSUME S \notin torn, op.failing
      PROVE  /\ Filed(op.snap, S) /\ op.gen \notin Before
             /\ Es \ {op.gen} = Before /\ Pg \ {op.gen} = Before
             /\ At("dropPg") => Es = Before
             /\ op.old # NoGen => Before = {op.old} \ {NoGen}
                                  /\ Before \subseteq rows["es"][S] \cap rows["pg"][S]
  <2>1. Filed(op.snap, S) /\ op.gen \notin Before
    BY <1>1, <1>3, <1>4 DEF EarlyOK
  <2>2. /\ Es \ {op.gen} = Before /\ Pg \ {op.gen} = Before
        /\ At("dropPg") => Es = Before
    BY <1>3, <1>4, <2>1 DEF UndoOK, At, Dropping
  <2>3. op.old # NoGen => Before = {op.old} \ {NoGen}
                          /\ Before \subseteq rows["es"][S] \cap rows["pg"][S]
    BY <1>1, <1>3, <1>4 DEF SwitchOK
  <2> QED BY <2>1, <2>2, <2>3
<1>5. ASSUME S \notin torn, op.failing, op.old # NoGen PROVE Es = Before /\ Pg = Before
  <2>1. /\ \A g, h \in on["es"][S] : g = h
        /\ \A g, h \in on["pg"][S] : g = h
    BY <1>1 DEF OnlyVerifiedFound
  <2>2. Before = {op.old} /\ op.old \in Es /\ op.old \in Pg
    BY <1>4, <1>5
  <2>3. Es = {op.old} /\ Pg = {op.old}
    BY <2>1, <2>2 DEF Es, Pg
  <2> QED BY <2>2, <2>3
<1>6. S \notin torn /\ ~op.failing => Agree(S) /\ files.state[S] # Nothing /\ files.state[S].gen = op.gen
  BY <1>3 DEF UndoOK
<1> QED BY <1>1, <1>2, <1>4, <1>5, <1>6

(* A deleted generation, or a call that failed, and the operation ends.    *)
LEMMA DroppedRest ==
  ASSUME AgreeInv, FoundInv', op.pc \in Dropping, op' = Ended,
         UNCHANGED <<files, made, verified>>, torn \subseteq torn', torn' \subseteq torn \cup {S},
         \A store \in Stores : \A t \in Sources : t # S => on'[store][t] = on[store][t],
         \A store \in Stores : on'[store][S] \in {on[store][S], on[store][S] \ {Dropped}},
         S \notin torn' /\ op.failing /\ op.old = NoGen =>
           At("dropPg") /\ on'["es"][S] = on["es"][S] /\ on'["pg"][S] = on["pg"][S] \ {Dropped}
  PROVE  AgreeInv'
<1>0. op \in Op /\ S \in Sources
  BY DroppingHas
<1>1. AtRest'
  BY <1>0, EndsAtRest
<1>2. ASSUME NEW t \in Sources \ torn', t = S PROVE Agree(t)'
  <2>0. S \notin torn /\ S \notin torn' /\ Kept(t) /\ made' = made
    BY <1>2 DEF Kept
  <2>1. CASE ~op.failing
    <3>1. Agree(S) /\ files.state[S] # Nothing /\ files.state[S].gen = op.gen /\ op.gen # op.old
      BY <2>0, <2>1, DroppingHas
    <3>2. \A store \in Stores : on[store][S] = {op.gen}
      BY <3>1 DEF Agree, Wanted
    <3>3. \A store \in Stores : on'[store][t] = on[store][t]
      BY <1>2, <2>1, <3>1, <3>2 DEF Dropped
    <3> QED BY <1>2, <2>0, <3>1, <3>3, KeepsAgree
  <2>2. CASE op.failing
    <3>1. SameFiles(t) /\ Filed(op.snap, t)
      BY <1>2, <2>0, <2>2, DroppingHas
    <3>2. \A store \in Stores : on'[store][t] = Before
      <4>1. CASE op.old = NoGen
        <5>1. on'["es"][S] = Es /\ on'["pg"][S] = Pg \ {op.gen}
          BY <2>0, <2>2, <4>1 DEF Es, Pg, Dropped
        <5>2. Es = Before /\ Pg \ {op.gen} = Before
          BY <2>0, <2>2, <4>1, DroppingHas
        <5> QED BY <1>2, <5>1, <5>2 DEF Stores
      <4>2. CASE op.old # NoGen
        <5>1. Es = Before /\ Pg = Before /\ op.gen \notin Before
          BY <2>0, <2>2, <4>2, DroppingHas
        <5>2. \A store \in Stores : on[store][S] = Before
          BY <5>1 DEF Es, Pg, Stores
        <5>3. Before \ {Dropped} = Before
          BY <2>2, <5>1 DEF Dropped
        <5> HIDE DEF Before
        <5> QED BY <1>2, <5>2, <5>3
      <4> QED BY <4>1, <4>2
    <3> QED BY <1>2, <2>0, <3>1, <3>2, BackAgree
  <2> QED BY <2>1, <2>2
<1>3. OthersKept
  BY DEF OthersKept, Kept
<1> QED BY <1>1, <1>2, <1>3, RestsAgree

LEMMA DropEsAgree ==
  ASSUME AgreeInv, FoundInv', DropEs
  PROVE  AgreeInv'
<1>0. /\ op.pc = "dropEs" /\ op.pc \in Dropping /\ op \in Op /\ S \in Sources /\ IsPublication /\ ~AtRest
      /\ on \in [Stores -> [Sources -> SUBSET Gens]] /\ rows \in [Stores -> [Sources -> SUBSET Gens]]
      /\ op.gen # op.old
  BY DroppingHas DEF DropEs, At, Dropping
<1>1. /\ UNCHANGED <<files, trash, made, verified>> /\ torn \subseteq torn' /\ torn' \subseteq torn \cup {S}
  BY DEF DropEs, TearIf, Tear
<1>2. /\ \A store \in Stores : \A t \in Sources : t # S => on'[store][t] = on[store][t]
      /\ on'["pg"][S] = on["pg"][S]
      /\ on'["es"][S] \in {on["es"][S], on["es"][S] \ {Dropped}}
  BY <1>0 DEF DropEs, Delete, Stores
<1>3. CASE op' = Ended /\ TearIf(op.failing /\ op.old = NoGen)
  <2>1. S \notin torn' => ~(op.failing /\ op.old = NoGen)
    BY <1>3 DEF TearIf, Tear
  <2> QED BY <1>0, <1>1, <1>2, <1>3, <2>1, DroppedRest DEF Stores
<1>4. CASE Goto("dropPg") /\ Delete("es", {Dropped}) /\ torn' = torn
  <2>1. /\ op'.pc = "dropPg" /\ Carried
        /\ op'.old = op.old /\ op'.target = op.target /\ op'.prev = op.prev
        /\ op'.failing = op.failing /\ op'.undo = op.undo
    BY <1>0, <1>4, GoesOn
  <2>2. ~AtRest' /\ IsPublication' /\ S' = S /\ Before' = Before /\ (Finishing' <=> Finishing)
        /\ (SameFiles(S)' <=> SameFiles(S)) /\ (Filed(op.snap, S)' <=> Filed(op.snap, S))
    BY <1>0, <1>1, <2>1, CarriedSame DEF AtRest, IsPublication, Publishing, Kept, Finishing, Dropping
  <2>3. OthersAgree' /\ \A t \in Sources : t # S => SameFiles(t)'
    BY <1>0, <1>1, <1>2, <2>1, <2>2, GoesAgree DEF OthersKept, Kept
  <2>4. /\ on'["es"][S] = on["es"][S] \ {Dropped}
        /\ rows'["es"][S] = rows["es"][S] \ {Dropped} /\ rows'["pg"][S] = rows["pg"][S]
    BY <1>0, <1>4 DEF Delete, Stores
  <2>5. GenOK'
    BY <1>0, <1>1, <2>1, <2>2 DEF AgreeInv, GenOK, At, Early, Writing, Removing, Activating, Carried
  <2>6. PublishedOK' /\ RemovedOK'
    BY <2>1 DEF PublishedOK, RemovedOK, At, Writing, Removing
  <2>7. FilesOK'
    BY <1>0, <1>1, <2>1, <2>2, <2>3, DroppingHas
    DEF AgreeInv, FilesOK, Carried, At, Dropping, Early, Switching
  <2>8. WholeOK'
    <3> SUFFICES ASSUME S \notin torn PROVE EarlyOK' /\ SwitchOK' /\ UndoOK'
      BY <1>4, <2>2 DEF WholeOK, Whole
    <3>1. EarlyOK
      BY DEF AgreeInv, WholeOK, Whole
    <3>2. EarlyOK'
      BY <1>0, <2>1, <2>2, <3>1 DEF EarlyOK, At, Early, Carried
    <3>3. SwitchOK'
      <4>1. op.failing /\ op.old # NoGen =>
              /\ Before = {op.old} \ {NoGen} /\ op.gen \notin Before
              /\ Before \subseteq rows["es"][S] \cap rows["pg"][S]
        BY <1>0, DroppingHas
      <4>2. op.failing => Dropped = op.gen
        BY DEF Dropped
      <4> QED BY <2>1, <2>2, <2>4, <4>1, <4>2 DEF SwitchOK, At, Switching, Writing
    <3>4. op.failing => Es' = Before /\ Pg' \ {op.gen} = Before
      BY <1>0, <1>2, <2>2, <2>4, DroppingHas DEF Es, Pg, Dropped
    <3>5. ~op.failing => Agree(S)' /\ files'.state[S] # Nothing /\ files'.state[S].gen = op.gen
      <4>1. ~op.failing => Agree(S) /\ files.state[S] # Nothing /\ files.state[S].gen = op.gen
        BY <1>0, DroppingHas
      <4>2. ~op.failing => \A store \in Stores : on'[store][S] = on[store][S]
        <5>1. ~op.failing => on["es"][S] = {op.gen} /\ Dropped = op.old
          BY <4>1 DEF Agree, Wanted, Dropped, Stores
        <5>2. ~op.failing => on'["es"][S] = on["es"][S]
          BY <1>0, <2>4, <5>1
        <5> QED BY <1>2, <5>2 DEF Stores
      <4>3. ASSUME NEW t, t = S, ~op.failing PROVE Agree(t)'
        BY <1>1, <4>1, <4>2, <4>3, KeepsAgree DEF Kept
      <4>4. ~op.failing => Agree(S)'
        BY <2>2, <4>3 DEF Agree, Filed, Wanted
      <4> QED BY <1>1, <4>1, <4>4
    <3>6. UndoOK'
      BY <1>0, <2>1, <2>2, <3>4, <3>5 DEF UndoOK, At, Dropping, Removing, Carried
    <3> QED BY <3>2, <3>3, <3>6
  <2> QED BY <2>3, <2>5, <2>6, <2>7, <2>8 DEF AgreeInv
<1> QED BY <1>3, <1>4 DEF DropEs, Outcomes, Goto, TearIf, Tear

LEMMA DropPgAgree ==
  ASSUME AgreeInv, FoundInv', DropPg
  PROVE  AgreeInv'
<1>0. /\ op.pc = "dropPg" /\ op.pc \in Dropping /\ op \in Op /\ S \in Sources
      /\ on \in [Stores -> [Sources -> SUBSET Gens]] /\ rows \in [Stores -> [Sources -> SUBSET Gens]]
  BY DroppingHas DEF DropPg, At, Dropping
<1>1. /\ UNCHANGED <<files, trash, made, verified>> /\ torn \subseteq torn' /\ torn' \subseteq torn \cup {S}
  BY DEF DropPg, TearIf, Tear
<1>2. /\ \A store \in Stores : \A t \in Sources : t # S => on'[store][t] = on[store][t]
      /\ on'["es"][S] = on["es"][S]
      /\ on'["pg"][S] \in {on["pg"][S], on["pg"][S] \ {Dropped}}
      /\ S \notin torn' /\ op.failing /\ op.old = NoGen => on'["pg"][S] = on["pg"][S] \ {Dropped}
  BY <1>0 DEF DropPg, Delete, Stores, TearIf, Tear
<1>3. op' = Ended
  BY DEF DropPg
<1> QED BY <1>0, <1>1, <1>2, <1>3, DroppedRest DEF Stores, At

LEMMA WritingHas ==
  ASSUME AgreeInv, op.pc \in Writing
  PROVE  /\ op \in Op /\ S \in Sources /\ IsPublication /\ ~AtRest /\ ~Finishing /\ ~op.failing
         /\ op.pc \in Publishing /\ ~At("embed") /\ op.pc \notin Dropping
         /\ files \in Files /\ op.doc \in Docs /\ op.kind # "trash"
         /\ Es = {op.gen} /\ Pg = {op.gen} /\ op.gen # op.old
         /\ op.gen \in 1 .. Len(made) /\ made[op.gen] = [source |-> S, doc |-> op.doc]
         /\ op.kind # "edit" => op.hash = op.doc.body
         /\ S \notin torn => /\ Filed(op.snap, S) /\ op.gen \notin Before
                             /\ Before = {op.old} \ {NoGen}
                             /\ Before \subseteq rows["es"][S] \cap rows["pg"][S]
                             /\ op.kind = "edit" => op.hash = op.doc.body /\ op.snap.raw[S] = op.doc.body
<1>1. /\ op \in Op /\ S \in Sources /\ IsPublication /\ ~AtRest /\ ~Finishing
      /\ op.pc \in Publishing /\ ~At("embed") /\ op.pc \notin Dropping
      /\ files \in Files /\ op.doc \in Docs /\ op.kind # "trash"
  BY DEF AgreeInv, FoundInv, TypeInv, TypeOK, WellFormed, Writing, Publishing, IsPublication, AtRest,
         Finishing, Dropping, At, Publications
<1>2. /\ op.gen # op.old /\ op.gen \in 1 .. Len(made) /\ made[op.gen] = [source |-> S, doc |-> op.doc]
      /\ ~op.failing /\ (op.kind # "edit" => op.hash = op.doc.body)
  BY <1>1 DEF AgreeInv, GenOK
<1>3. Es = {op.gen} /\ Pg = {op.gen}
  BY DEF AgreeInv, PublishedOK
<1>4. S \notin torn => EarlyOK /\ SwitchOK
  BY DEF AgreeInv, WholeOK, Whole
<1>5. S \notin torn => /\ Filed(op.snap, S) /\ op.gen \notin Before
                       /\ Before = {op.old} \ {NoGen}
                       /\ Before \subseteq rows["es"][S] \cap rows["pg"][S]
                       /\ op.kind = "edit" => op.hash = op.doc.body /\ op.snap.raw[S] = op.doc.body
  BY <1>1, <1>4 DEF EarlyOK, SwitchOK
<1> QED BY <1>1, <1>2, <1>3, <1>5

(* A file cannot be written.                                               *)
LEMMA WriteRaises ==
  ASSUME AgreeInv, FoundInv', op.pc \in Writing, op' = Raise,
         UNCHANGED <<files, rows, on, made, verified, torn>>
  PROVE  AgreeInv'
<1>1. UndoAt(op.pc) = IF op.old # NoGen THEN "switch" ELSE "drop"
  BY DEF UndoAt, Writing
<1>2. on'["es"][S] = {op.gen} /\ on'["pg"][S] = {op.gen}
  BY WritingHas DEF Es, Pg
<1>3. S \notin torn' /\ op.old = NoGen => Before = {}
  BY WritingHas
<1>4. op.pc \in (Publishing \cup Removing) \ ({"embed"} \cup Dropping) /\ ~op.failing
  BY WritingHas DEF At
<1> HIDE DEF UndoAt
<1> QED BY <1>1, <1>2, <1>3, <1>4, RaisesAgree

(* A file is written.                                                      *)
LEMMA WriteGoes ==
  ASSUME AgreeInv, FoundInv', op.pc \in Writing, NEW step \in {"chunks", "state", "raw"}, Goto(step),
         UNCHANGED <<rows, on, made, verified, torn>>,
         \A t \in Sources : t # S => Kept(t),
         files'.manifest[S] = op.doc.meta, files'.raw[S] = op.snap.raw[S],
         step \in {"state", "raw"} => files'.chunks[S] = op.doc,
         step = "raw" => files'.state[S] = [hash |-> op.hash, layout |-> op.doc.body, gen |-> op.gen]
  PROVE  AgreeInv'
<1>0. op \in Op /\ S \in Sources /\ IsPublication /\ ~AtRest /\ ~op.failing /\ op.doc \in Docs
      /\ ~At("embed") /\ ~Finishing
  BY WritingHas
<1>1. /\ op'.pc = step /\ Carried
      /\ op'.old = op.old /\ op'.target = op.target /\ op'.prev = op.prev
      /\ op'.failing = op.failing /\ op'.undo = op.undo
  BY <1>0, GoesOn
<1>2. ~AtRest' /\ IsPublication' /\ S' = S /\ Before' = Before /\ ~Finishing' /\ Es' = Es /\ Pg' = Pg
      /\ (Filed(op.snap, S)' <=> Filed(op.snap, S))
  BY <1>1, CarriedSame DEF AtRest, IsPublication, Publishing, Finishing, Dropping, Es, Pg
<1>3. OthersAgree' /\ \A t \in Sources : t # S => SameFiles(t)'
  BY <1>0, <1>1, <1>2, GoesAgree DEF OthersKept
<1>4. GenOK'
  BY <1>0, <1>1, <1>2 DEF AgreeInv, GenOK, At, Early, Writing, Removing, Activating, Carried
<1>5. PublishedOK' /\ RemovedOK'
  <2>1. Es' = {op.gen} /\ Pg' = {op.gen}
    BY <1>2, WritingHas
  <2> QED BY <1>1, <1>2, <2>1 DEF PublishedOK, RemovedOK, At, Writing, Removing, Carried
<1>6. FilesOK'
  <2>1. op.doc.meta # Nothing
    BY <1>0, ValuesAssumption DEF Docs
  <2>2. op.kind # "trash"
    BY WritingHas
  <2> QED BY <1>1, <1>2, <1>3, <2>1, <2>2 DEF FilesOK, Carried, At, Early, Switching, Dropping
<1>7. WholeOK'
  <2> SUFFICES ASSUME S \notin torn PROVE EarlyOK' /\ SwitchOK' /\ UndoOK'
    BY <1>2 DEF WholeOK, Whole
  <2>1. EarlyOK
    BY DEF AgreeInv, WholeOK, Whole
  <2>2. EarlyOK'
    BY <1>0, <1>1, <1>2, <2>1 DEF EarlyOK, At, Early, Carried
  <2>3. SwitchOK'
    <3>1. Before = {op.old} \ {NoGen} /\ Before \subseteq rows["es"][S] \cap rows["pg"][S]
      BY WritingHas
    <3> QED BY <1>0, <1>1, <1>2, <3>1 DEF SwitchOK, At, Switching
  <2>4. UndoOK'
    BY <1>1 DEF UndoOK, At, Dropping, Removing
  <2> QED BY <2>2, <2>3, <2>4
<1> QED BY <1>3, <1>4, <1>5, <1>6, <1>7 DEF AgreeInv

LEMMA WriteAgree ==
  ASSUME AgreeInv, FoundInv', WriteManifest \/ WriteChunks \/ WriteState
  PROVE  AgreeInv'
<1>0. op.pc \in Writing
  BY DEF WriteManifest, WriteChunks, WriteState, FileStep, At, Writing
<1>1. S \in Sources /\ files \in Files
  BY <1>0, WritingHas
<1>2. UNCHANGED <<rows, on, trash, made, verified, torn, last>>
  BY DEF WriteManifest, WriteChunks, WriteState, FileStep
<1>3. CASE files' = files /\ op' = Raise
  BY <1>0, <1>2, <1>3, WriteRaises
<1>4. CASE /\ At("manifest") /\ Goto("chunks") /\ files' = [files EXCEPT !.manifest[S] = op.doc.meta]
  <2>1. \A t \in Sources : t # S => Kept(t)
    BY <1>1, <1>4 DEF Kept, Files
  <2>2. files'.manifest[S] = op.doc.meta /\ files'.raw = files.raw
    BY <1>1, <1>4 DEF Files
  <2>3. files.raw[S] = op.snap.raw[S]
    BY <1>4 DEF AgreeInv, FilesOK, SameFiles, At
  <2> QED BY <1>0, <1>2, <1>4, <2>1, <2>2, <2>3, WriteGoes
<1>5. CASE /\ At("chunks") /\ Goto("state") /\ files' = [files EXCEPT !.chunks[S] = op.doc]
  <2>1. \A t \in Sources : t # S => Kept(t)
    BY <1>1, <1>5 DEF Kept, Files
  <2>2. files'.chunks[S] = op.doc /\ files'.raw = files.raw /\ files'.manifest = files.manifest
    BY <1>1, <1>5 DEF Files
  <2>3. files.raw[S] = op.snap.raw[S] /\ files.manifest[S] = op.doc.meta
    BY <1>5 DEF AgreeInv, PublishedOK, At
  <2> QED BY <1>0, <1>2, <1>5, <2>1, <2>2, <2>3, WriteGoes
<1>6. CASE /\ At("state") /\ Goto("raw")
           /\ files' = [files EXCEPT !.state[S] = [hash |-> op.hash, layout |-> op.doc.body, gen |-> op.gen]]
  <2>1. \A t \in Sources : t # S => Kept(t)
    BY <1>1, <1>6 DEF Kept, Files
  <2>2. /\ files'.state[S] = [hash |-> op.hash, layout |-> op.doc.body, gen |-> op.gen]
        /\ files'.chunks = files.chunks /\ files'.raw = files.raw /\ files'.manifest = files.manifest
    BY <1>1, <1>6 DEF Files
  <2>3. /\ files.raw[S] = op.snap.raw[S] /\ files.manifest[S] = op.doc.meta
        /\ files.chunks[S] = op.doc
    BY <1>6 DEF AgreeInv, PublishedOK, At
  <2> QED BY <1>0, <1>2, <1>6, <2>1, <2>2, <2>3, WriteGoes
<1> QED BY <1>3, <1>4, <1>5, <1>6 DEF WriteManifest, WriteChunks, WriteState, FileStep

(* The original is put in place and the source is published.               *)
LEMMA WriteRawAgree ==
  ASSUME AgreeInv, FoundInv', WriteRaw
  PROVE  AgreeInv'
<1>0. op.pc = "raw" /\ op.pc \in Writing
  BY DEF WriteRaw, At, Writing
<1>1. /\ op \in Op /\ S \in Sources /\ files \in Files /\ op.doc \in Docs /\ ~AtRest /\ IsPublication
      /\ ~op.failing /\ ~At("embed") /\ op.gen # op.old
  BY <1>0, WritingHas
<1>2. UNCHANGED <<rows, on, trash, made, verified>>
  BY DEF WriteRaw
<1>3. CASE files' = files /\ op' = Raise /\ UNCHANGED <<torn, last>>
  BY <1>0, <1>2, <1>3, WriteRaises
<1>4. CASE /\ files' = IF op.kind = "edit" THEN files
                         ELSE [files EXCEPT !.raw[S] = op.doc.body, !.temps[S] = {}]
           /\ op' = IF op.old = NoGen THEN Ended ELSE [op EXCEPT !.pc = "dropEs"]
           /\ torn' = IF op.kind = "edit" THEN torn ELSE torn \ {S}
  <2>1. /\ \A t \in Sources : t # S => Kept(t)
        /\ files'.manifest = files.manifest /\ files'.chunks = files.chunks /\ files'.state = files.state
        /\ files'.raw[S] = IF op.kind = "edit" THEN files.raw[S] ELSE op.doc.body
    BY <1>1, <1>4 DEF Kept, Files
  <2>2. /\ files.raw[S] = op.snap.raw[S] /\ files.manifest[S] = op.doc.meta
        /\ files.chunks[S] = op.doc
        /\ files.state[S] = [hash |-> op.hash, layout |-> op.doc.body, gen |-> op.gen]
    BY <1>0 DEF AgreeInv, PublishedOK, At
  <2>3. files'.state[S] # Nothing
    <3>1. files.state[S] \in Entry
      <4>1. op.hash \in Bodies /\ op.gen \in Gens
        BY <1>1 DEF AgreeInv, FoundInv, TypeInv, WellFormed
      <4> QED BY <1>1, <2>2, <4>1 DEF Entry, Docs
    <3> QED BY <2>1, <3>1, ValuesAssumption
  <2>4. ASSUME NEW t, t = S, S \notin torn' PROVE Agree(t)'
    <3>1. files'.raw[S] = op.doc.body /\ op.hash = op.doc.body
      BY <1>0, <1>4, <2>1, <2>2, <2>4, WritingHas
    <3>2. op.gen \in 1 .. Len(made) /\ made[op.gen] = [source |-> S, doc |-> op.doc]
      BY <1>0, WritingHas
    <3>3. \A store \in Stores : on'[store][S] = {op.gen}
      BY <1>0, <1>2, WritingHas DEF Es, Pg, Stores
    <3>4. /\ files'.manifest[t] = op.doc.meta /\ files'.chunks[t] = op.doc
          /\ files'.raw[t] = op.doc.body /\ files'.state[t] # Nothing
          /\ files'.state[t].hash = op.doc.body /\ files'.state[t].layout = op.doc.body
          /\ files'.state[t].gen = op.gen
      BY <2>1, <2>2, <2>3, <2>4, <3>1
    <3>5. Filed(files, t)'
      BY <1>2, <2>4, <3>2, <3>4 DEF Filed
    <3>6. Wanted(files, t)' = {op.gen}
      BY <3>4 DEF Wanted
    <3> QED BY <2>4, <3>3, <3>5, <3>6 DEF Agree
  <2>5. OthersKept
    BY <1>2, <1>4, <2>1 DEF OthersKept
  <2>6. CASE op.old = NoGen
    <3>1. AtRest'
      BY <1>1, <1>4, <2>6, EndsAtRest
    <3> QED BY <1>2, <2>4, <2>5, <3>1, RestsAgree
  <2>7. CASE op.old # NoGen
    <3>1. /\ op'.pc = "dropEs" /\ Carried
          /\ op'.old = op.old /\ op'.target = op.target /\ op'.prev = op.prev
          /\ op'.failing = op.failing /\ op'.undo = op.undo
      BY <1>1, <1>4, <2>7, GoesOn DEF Goto
    <3>2. ~AtRest' /\ IsPublication' /\ S' = S /\ Finishing'
      BY <1>1, <3>1, CarriedSame DEF AtRest, IsPublication, Publishing, Finishing, Dropping
    <3>3. OthersAgree' /\ \A t \in Sources : t # S => SameFiles(t)'
      BY <1>1, <2>1, <2>5, <3>1, <3>2, GoesAgree
    <3>4. GenOK'
      BY <1>1, <1>2, <3>1, <3>2 DEF AgreeInv, GenOK, At, Early, Writing, Removing, Activating, Carried
    <3>5. PublishedOK' /\ RemovedOK'
      BY <3>1 DEF PublishedOK, RemovedOK, At, Writing, Removing
    <3>6. FilesOK'
      <4>1. op.doc.meta # Nothing /\ files'.manifest[S] = op.doc.meta
        BY <1>1, <2>1, <2>2, ValuesAssumption DEF Docs
      <4>2. op.kind # "trash"
        BY <1>0, WritingHas
      <4> QED BY <1>1, <3>1, <3>2, <3>3, <4>1, <4>2 DEF FilesOK, Carried, At, Early, Switching, Dropping
    <3>7. WholeOK'
      <4> SUFFICES ASSUME S \notin torn' PROVE EarlyOK' /\ SwitchOK' /\ UndoOK'
        BY <3>2 DEF WholeOK, Whole
      <4>1. EarlyOK'
        <5>1. op.kind = "edit" => EarlyOK
          BY <1>4 DEF AgreeInv, WholeOK, Whole
        <5> QED BY <1>1, <3>1, <3>2, <5>1 DEF EarlyOK, At, Early, Carried
      <4>2. SwitchOK'
        BY <1>1, <3>1 DEF SwitchOK, At, Switching, Writing
      <4>3. Agree(S)'
        <5>1. PICK t : t = S
          OBVIOUS
        <5>2. Agree(t)'
          BY <2>4, <5>1
        <5> QED BY <3>2, <5>1, <5>2 DEF Agree, Filed, Wanted
      <4>4. files'.state[S].gen = op.gen
        BY <2>1, <2>2
      <4>5. UndoOK'
        BY <1>1, <2>3, <3>1, <3>2, <4>3, <4>4 DEF UndoOK, At, Dropping, Removing, Carried
      <4> QED BY <4>1, <4>2, <4>5
    <3> QED BY <3>3, <3>4, <3>5, <3>6, <3>7 DEF AgreeInv
  <2> QED BY <2>6, <2>7
<1> QED BY <1>3, <1>4 DEF WriteRaw

(* The files are put back.                                                 *)
LEMMA RestoreAgree ==
  ASSUME AgreeInv, FoundInv', RestoreFiles
  PROVE  AgreeInv'
<1>0. /\ op \in Op /\ S \in Sources /\ op.pc = "restore" /\ ~AtRest /\ op.failing /\ ~Finishing
      /\ OnlyVerifiedFound /\ on \in [Stores -> [Sources -> SUBSET Gens]]
  BY DEF RestoreFiles, AgreeInv, FoundInv, TypeInv, TypeOK, WellFormed, At, AtRest, GenOK, Finishing, Dropping
<1>1. UNCHANGED <<rows, on, trash, made, verified>>
  BY DEF RestoreFiles
<1>2. S \notin torn => EarlyOK /\ SwitchOK /\ UndoOK
  BY DEF AgreeInv, WholeOK, Whole
<1>3. CASE op' = EndedFailing /\ torn' = torn \cup Sources
  <2>1. AtRest'
    BY <1>0, <1>3, EndsAtRest
  <2> QED BY <1>1, <1>3, <2>1, RestsAgree DEF OthersKept
<1>4. CASE /\ files' = op.snap /\ torn' = torn /\ last' = last
           /\ op' = CASE op.undo = "switch" -> [op EXCEPT !.pc = "esOff", !.target = op.old, !.prev = Searched]
                      [] op.undo = "drop" -> [op EXCEPT !.pc = "dropEs"]
                      [] OTHER -> Ended
  <2>1. /\ \A t \in Sources : t # S => Kept(t)
        /\ files'.manifest[S] = op.snap.manifest[S] /\ files'.chunks[S] = op.snap.chunks[S]
        /\ files'.state[S] = op.snap.state[S] /\ files'.raw[S] = op.snap.raw[S]
    BY <1>0, <1>4 DEF AgreeInv, FilesOK, SameFiles, Kept
  <2>2. OthersKept
    BY <1>1, <1>4, <2>1 DEF OthersKept
  <2>3. CASE op.undo \notin {"switch", "drop"} /\ op' = Ended
    <3>1. AtRest'
      BY <1>0, <2>3, EndsAtRest
    <3>2. ASSUME NEW t \in Sources \ torn', t = S PROVE Agree(t)'
      <4>1. op.undo = "nothing"
        BY <1>0, <2>3 DEF Op, Undos
      <4>2. Es = Before /\ Pg = Before /\ Filed(op.snap, S)
        BY <1>0, <1>2, <1>4, <3>2, <4>1 DEF UndoOK, EarlyOK, At
      <4>3. Filed(files, t)'
        BY <1>1, <2>1, <3>2, <4>2 DEF Filed
      <4>4. Wanted(files, t)' = Before
        BY <2>1, <3>2 DEF Wanted, Before
      <4>5. \A store \in Stores : on'[store][t] = Before
        BY <1>1, <3>2, <4>2 DEF Es, Pg, Stores
      <4> QED BY <4>3, <4>4, <4>5 DEF Agree
    <3> QED BY <1>1, <2>2, <3>1, <3>2, RestsAgree
  <2>4. CASE \/ op.undo = "switch" /\ op' = [op EXCEPT !.pc = "esOff", !.target = op.old, !.prev = Searched]
             \/ op.undo = "drop" /\ op' = [op EXCEPT !.pc = "dropEs"]
    <3>1. /\ Carried /\ op'.old = op.old /\ op'.failing /\ op'.undo = op.undo
          /\ \/ op.undo = "switch" /\ op'.pc = "esOff" /\ op'.target = op.old
             \/ op.undo = "drop" /\ op'.pc = "dropEs"
      BY <1>0, <2>4 DEF Op, Carried
    <3>2. op.kind # "trash"
      BY <1>0, <2>4 DEF AgreeInv, FoundInv, TypeInv, WellFormed, At
    <3>3. ~AtRest' /\ IsPublication /\ IsPublication' /\ S' = S /\ Before' = Before /\ ~Finishing'
          /\ (Filed(op.snap, S)' <=> Filed(op.snap, S)) /\ SameFiles(S)'
      BY <1>0, <1>1, <2>1, <3>1, <3>2, CarriedSame
      DEF AtRest, IsPublication, Publishing, At, Finishing, SameFiles, Carried
    <3>4. OthersAgree' /\ \A t \in Sources : t # S => SameFiles(t)'
      BY <1>0, <2>1, <2>2, <3>1, <3>3, GoesAgree
    <3>5. GenOK'
      BY <1>0, <1>1, <3>1, <3>3 DEF AgreeInv, GenOK, At, Early, Writing, Removing, Activating, Carried
    <3>6. PublishedOK' /\ RemovedOK'
      BY <3>1 DEF PublishedOK, RemovedOK, At, Writing, Removing
    <3>7. FilesOK'
      BY <3>1, <3>2, <3>3, <3>4 DEF FilesOK, Carried, SameFiles
    <3>8. WholeOK'
      <4> SUFFICES ASSUME S \notin torn PROVE EarlyOK' /\ SwitchOK' /\ UndoOK'
        BY <1>4, <3>3 DEF WholeOK, Whole
      <4>1. EarlyOK'
        BY <1>0, <1>2, <3>1, <3>3 DEF EarlyOK, At, Early, Carried
      <4>2. SwitchOK'
        <5>1. op.old # NoGen => /\ Before = {op.old} \ {NoGen}
                                /\ Before \subseteq rows["es"][S] \cap rows["pg"][S]
          BY <1>0, <1>2 DEF SwitchOK
        <5>2. op.undo = "switch" => op.old # NoGen
          BY DEF AgreeInv, FoundInv, SwitchesVerified
        <5>3. op.undo = "switch" => Pg = {op.gen}
          BY <1>0, <1>2 DEF UndoOK, At
        <5>4. Pg' = Pg
          BY <1>1, <3>3 DEF Pg
        <5> QED BY <1>1, <3>1, <3>3, <5>1, <5>2, <5>3, <5>4
               DEF SwitchOK, At, Switching, Writing, Carried
      <4>3. UndoOK'
        <5>1. op.undo = "drop" => Es \ {op.gen} = Before /\ Pg \ {op.gen} = Before
          BY <1>0, <1>2 DEF UndoOK, At
        <5>2. Pg' = Pg /\ Es' = Es
          BY <1>1, <3>3 DEF Pg, Es
        <5> QED BY <3>1, <3>3, <5>1, <5>2 DEF UndoOK, At, Dropping, Removing, Carried
      <4> QED BY <4>1, <4>2, <4>3
    <3> QED BY <3>4, <3>5, <3>6, <3>7, <3>8 DEF AgreeInv
  <2> QED BY <1>4, <2>3, <2>4
<1> QED BY <1>3, <1>4 DEF RestoreFiles, Tear

LEMMA RemovingHas ==
  ASSUME AgreeInv, op.pc \in Removing
  PROVE  /\ op \in Op /\ S \in Sources /\ ~IsPublication /\ ~AtRest /\ ~Finishing /\ ~op.failing
         /\ op.pc \in (Publishing \cup Removing) \ ({"embed"} \cup Dropping) /\ UndoAt(op.pc) = "nothing"
         /\ files \in Files /\ op.kind = "trash" /\ op.old = NoGen
         /\ on \in [Stores -> [Sources -> SUBSET Gens]] /\ rows \in [Stores -> [Sources -> SUBSET Gens]]
         /\ op.snap.manifest[S] # Nothing
         /\ S \notin torn => Filed(op.snap, S) /\ (op.pc # "delPg" => Es = Before /\ Pg = Before)
<1>1. /\ op \in Op /\ S \in Sources /\ ~IsPublication /\ ~AtRest /\ ~Finishing
      /\ op.pc \in (Publishing \cup Removing) \ ({"embed"} \cup Dropping)
      /\ files \in Files /\ op.kind = "trash"
      /\ on \in [Stores -> [Sources -> SUBSET Gens]] /\ rows \in [Stores -> [Sources -> SUBSET Gens]]
  BY DEF AgreeInv, FoundInv, TypeInv, TypeOK, WellFormed, Publishing, Removing, IsPublication, AtRest,
         Finishing, Dropping, At
<1>2. ~op.failing /\ op.old = NoGen /\ op.snap.manifest[S] # Nothing
  BY <1>1 DEF AgreeInv, GenOK, FilesOK
<1>3. UndoAt(op.pc) = "nothing"
  BY DEF UndoAt, Removing
<1>4. S \notin torn => Filed(op.snap, S) /\ (op.pc # "delPg" => Es = Before /\ Pg = Before)
  BY <1>1 DEF AgreeInv, WholeOK, Whole, EarlyOK, UndoOK
<1> HIDE DEF UndoAt
<1> QED BY <1>1, <1>2, <1>3, <1>4

(* The next step of a removal.                                             *)
LEMMA RemoveGoes ==
  ASSUME AgreeInv, FoundInv', op.pc \in Removing, NEW step \in Removing \ {"rmManifest"}, Goto(step),
         UNCHANGED <<made, verified, torn>>,
         \A t \in Sources : t # S => Kept(t) /\ \A store \in Stores : on'[store][t] = on[store][t],
         on'["pg"][S] = on["pg"][S],
         on'["es"][S] = IF step = "delPg" THEN {} ELSE on["es"][S],
         step # "delPg" => op.pc # "delPg",
         files'.manifest[S] = Nothing,
         step \in {"rmState", "rmRaw", "delEs", "delPg"} => files'.chunks[S] = Nothing,
         step \in {"rmRaw", "delEs", "delPg"} => files'.state[S] = Nothing,
         step \in {"delEs", "delPg"} => files'.raw[S] = Nothing
  PROVE  AgreeInv'
<1>0. op \in Op /\ S \in Sources /\ ~IsPublication /\ ~AtRest /\ ~op.failing /\ op.kind = "trash"
      /\ op.old = NoGen /\ op.snap.manifest[S] # Nothing /\ ~Finishing
  BY RemovingHas
<1>1. /\ op'.pc = step /\ Carried
      /\ op'.old = op.old /\ op'.target = op.target /\ op'.prev = op.prev
      /\ op'.failing = op.failing /\ op'.undo = op.undo
  BY <1>0, GoesOn
<1>2. ~AtRest' /\ ~IsPublication' /\ S' = S /\ Before' = Before /\ ~Finishing'
      /\ (Filed(op.snap, S)' <=> Filed(op.snap, S))
  BY <1>1, CarriedSame DEF AtRest, IsPublication, Publishing, Removing, At, Finishing, Dropping
<1>3. OthersAgree' /\ \A t \in Sources : t # S => SameFiles(t)'
  BY <1>0, <1>1, <1>2, GoesAgree DEF OthersKept
<1>4. GenOK'
  BY <1>0, <1>1, <1>2 DEF AgreeInv, GenOK, At, Early, Writing, Removing, Activating, Carried
<1>5. PublishedOK' /\ RemovedOK'
  BY <1>1, <1>2 DEF PublishedOK, RemovedOK, At, Writing, Removing, Es
<1>6. FilesOK'
  BY <1>0, <1>1, <1>2, <1>3 DEF FilesOK, Carried, At, Early, Switching, Dropping, Removing
<1>7. WholeOK'
  <2> SUFFICES ASSUME S \notin torn PROVE EarlyOK' /\ SwitchOK' /\ UndoOK'
    BY <1>2 DEF WholeOK, Whole
  <2>1. Filed(op.snap, S) /\ (op.pc # "delPg" => Es = Before /\ Pg = Before)
    BY RemovingHas
  <2>2. EarlyOK'
    BY <1>0, <1>1, <1>2, <2>1 DEF EarlyOK, At, Early, Removing
  <2>3. SwitchOK'
    BY <1>0, <1>1, <1>2 DEF SwitchOK, At, Switching, Writing, Removing
  <2>4. UndoOK'
    BY <1>0, <1>1, <1>2, <2>1 DEF UndoOK, At, Dropping, Removing, Es, Pg
  <2> QED BY <2>2, <2>3, <2>4
<1> QED BY <1>3, <1>4, <1>5, <1>6, <1>7 DEF AgreeInv

LEMMA RemoveAgree ==
  ASSUME AgreeInv, FoundInv', RemoveManifest \/ RemoveChunks \/ RemoveState \/ RemoveRaw
  PROVE  AgreeInv'
<1>0. op.pc \in Removing /\ op.pc # "delPg"
  BY DEF RemoveManifest, RemoveChunks, RemoveState, RemoveRaw, FileStep, At, Removing
<1>1. S \in Sources /\ files \in Files
  BY <1>0, RemovingHas
<1>2. UNCHANGED <<rows, on, trash, made, verified, torn, last>>
  BY DEF RemoveManifest, RemoveChunks, RemoveState, RemoveRaw, FileStep
<1>3. CASE files' = files /\ op' = Raise
  <2>1. S \notin torn' => on'["es"][S] = Before /\ on'["pg"][S] = Before
    BY <1>0, <1>2, RemovingHas DEF Es, Pg
  <2>2. /\ op.pc \in (Publishing \cup Removing) \ ({"embed"} \cup Dropping) /\ ~op.failing
        /\ UndoAt(op.pc) = "nothing"
    BY <1>0, RemovingHas
  <2> HIDE DEF UndoAt
  <2> QED BY <1>2, <1>3, <2>1, <2>2, RaisesAgree
<1>4. ASSUME NEW step \in Removing \ {"rmManifest", "delPg"}, Goto(step),
             \A t \in Sources : t # S => Kept(t),
             files'.manifest[S] = Nothing,
             step \in {"rmState", "rmRaw", "delEs"} => files'.chunks[S] = Nothing,
             step \in {"rmRaw", "delEs"} => files'.state[S] = Nothing,
             step = "delEs" => files'.raw[S] = Nothing
      PROVE  AgreeInv'
  BY <1>0, <1>2, <1>4, RemoveGoes
<1>5. /\ op.pc # "rmManifest" => files.manifest[S] = Nothing
      /\ op.pc \in {"rmState", "rmRaw"} => files.chunks[S] = Nothing
      /\ op.pc = "rmRaw" => files.state[S] = Nothing
  BY <1>0 DEF AgreeInv, RemovedOK
<1>6. CASE At("rmManifest") /\ Goto("rmChunks") /\ files' = [files EXCEPT !.manifest[S] = Nothing]
  <2>1. (\A t \in Sources : t # S => Kept(t)) /\ files'.manifest[S] = Nothing
    BY <1>1, <1>6 DEF Kept, Files
  <2> QED BY <1>4, <1>6, <2>1 DEF Removing
<1>7. CASE At("rmChunks") /\ Goto("rmState") /\ files' = [files EXCEPT !.chunks[S] = Nothing]
  <2>1. /\ \A t \in Sources : t # S => Kept(t)
        /\ files'.chunks[S] = Nothing /\ files'.manifest = files.manifest
    BY <1>1, <1>7 DEF Kept, Files
  <2> QED BY <1>4, <1>5, <1>7, <2>1 DEF Removing, At
<1>8. CASE At("rmState") /\ Goto("rmRaw") /\ files' = [files EXCEPT !.state[S] = Nothing]
  <2>1. /\ \A t \in Sources : t # S => Kept(t)
        /\ files'.state[S] = Nothing /\ files'.manifest = files.manifest /\ files'.chunks = files.chunks
    BY <1>1, <1>8 DEF Kept, Files
  <2> QED BY <1>4, <1>5, <1>8, <2>1 DEF Removing, At
<1>9. CASE At("rmRaw") /\ Goto("delEs") /\ files' = [files EXCEPT !.raw[S] = Nothing, !.temps[S] = {}]
  <2>1. /\ \A t \in Sources : t # S => Kept(t)
        /\ files'.raw[S] = Nothing /\ files'.manifest = files.manifest /\ files'.chunks = files.chunks
        /\ files'.state = files.state
    BY <1>1, <1>9 DEF Kept, Files
  <2> QED BY <1>4, <1>5, <1>9, <2>1 DEF Removing, At
<1> QED BY <1>3, <1>6, <1>7, <1>8, <1>9
       DEF RemoveManifest, RemoveChunks, RemoveState, RemoveRaw, FileStep

LEMMA DeleteAgree ==
  ASSUME AgreeInv, FoundInv', DeleteEs \/ DeletePg
  PROVE  AgreeInv'
<1>0. op.pc \in Removing /\ op.pc \in {"delEs", "delPg"}
  BY DEF DeleteEs, DeletePg, At, Removing
<1>1. /\ op \in Op /\ S \in Sources /\ op.old = NoGen /\ ~op.failing /\ UndoAt(op.pc) = "nothing"
      /\ op.pc \in (Publishing \cup Removing) \ ({"embed"} \cup Dropping)
      /\ on \in [Stores -> [Sources -> SUBSET Gens]] /\ rows \in [Stores -> [Sources -> SUBSET Gens]]
      /\ "es" \in Stores /\ "pg" \in Stores
  BY <1>0, RemovingHas DEF Stores
<1>2. /\ UNCHANGED <<files, trash, made, verified>>
      /\ \A store \in Stores : \A t \in Sources : t # S => on'[store][t] = on[store][t]
  BY <1>1 DEF DeleteEs, DeletePg, Delete
<1>3. \A store \in Stores : on[store][S] \ rows[store][S] = {}
  BY <1>1 DEF AgreeInv, FoundInv, OnlyVerifiedFound
<1>4. /\ files.manifest[S] = Nothing /\ files.chunks[S] = Nothing
      /\ files.state[S] = Nothing /\ files.raw[S] = Nothing
  BY <1>0 DEF AgreeInv, RemovedOK, Removing
<1>5. CASE op' = Raise /\ torn \subseteq torn' /\ (S \notin torn' => DeleteEs /\ on' = on)
  <2>1. S \notin torn' => on'["es"][S] = Before /\ on'["pg"][S] = Before
    BY <1>0, <1>5, RemovingHas DEF Es, Pg, DeleteEs, At
  <2> HIDE DEF UndoAt
  <2> QED BY <1>1, <1>2, <1>5, <2>1, RaisesAgree
<1>6. CASE Goto("delPg") /\ Delete("es", rows["es"][S]) /\ torn' = torn /\ DeleteEs
  <2>1. on'["es"][S] = {} /\ on'["pg"][S] = on["pg"][S]
    BY <1>1, <1>3, <1>6 DEF Delete
  <2> QED BY <1>0, <1>2, <1>4, <1>6, <2>1, RemoveGoes DEF Removing, Kept
<1>7. CASE op' = NoOp /\ Delete("pg", rows["pg"][S]) /\ torn' = torn \ {S} /\ DeletePg
  <2>1. on["es"][S] = {}
    BY <1>7 DEF AgreeInv, RemovedOK, DeletePg, At, Es
  <2>2. on'["pg"][S] = {} /\ on'["es"][S] = {}
    BY <1>1, <1>3, <1>7, <2>1 DEF Delete
  <2>3. AtRest'
    BY <1>1, <1>7, EndsAtRest
  <2>4. ASSUME NEW t, t = S PROVE Agree(t)'
    BY <1>2, <1>4, <2>2, <2>4 DEF Agree, Filed, Wanted, Stores
  <2>5. OthersKept
    BY <1>2, <1>7 DEF OthersKept, Kept
  <2> QED BY <1>2, <2>3, <2>4, <2>5, RestsAgree
<1> QED BY <1>5, <1>6, <1>7 DEF DeleteEs, DeletePg, Outcomes, Goto, TearIf, Tear

LEMMA EndAgree ==
  ASSUME AgreeInv, FoundInv', Unarchive \/ Die
  PROVE  AgreeInv'
<1>0. op \in Op /\ op' = NoOp /\ UNCHANGED <<rows, on, made, verified>>
  BY DEF Unarchive, Die, AgreeInv, FoundInv, TypeInv, TypeOK
<1>1. AtRest'
  BY <1>0, EndsAtRest
<1>2. CASE \E ts \in {{}, {S}} : files' = files /\ torn' = torn \cup ts
           /\ (S \in Sources \ torn' => op.pc \notin Touched /\ (AtRest \/ ~op.failing))
  <2>1. ASSUME NEW t \in Sources \ torn', t = S PROVE Agree(t)
    <3>1. op.pc \in Early \/ Finishing \/ AtRest
      BY <1>0, <1>2, <2>1 DEF Early, Finishing, AtRest, Dropping, Touched, Op, Steps
    <3>2. CASE op.pc \in Early
      BY <1>2, <2>1, <3>2, EarlyAgree
    <3>3. CASE Finishing
      BY <1>2, <2>1, <3>3, DroppingHas DEF Finishing
    <3>4. CASE AtRest
      BY <1>2, <2>1, <3>4 DEF AgreeInv, OthersAgree
    <3> QED BY <3>1, <3>2, <3>3, <3>4
  <2>2. ASSUME NEW t \in Sources \ torn', t = S PROVE Agree(t)'
    BY <1>0, <1>2, <2>1, <2>2, KeepsAgree DEF Kept
  <2>3. OthersKept
    BY <1>0, <1>2 DEF OthersKept, Kept
  <2> QED BY <1>0, <1>1, <2>2, <2>3, RestsAgree
<1>3. CASE torn' = torn \cup Sources
  BY <1>0, <1>1, <1>3, RestsAgree DEF OthersKept
<1>4. CASE Unarchive
  BY <1>2, <1>4 DEF Unarchive, At, AtRest, Touched
<1>5. CASE Die
  <2>1. CASE files' = files /\ TearIf(HalfDone)
    <3>1. torn' = torn \cup (IF HalfDone THEN {S} ELSE {})
      BY <2>1 DEF TearIf, Tear
    <3>2. S \in Sources \ torn' => op.pc \notin Touched /\ (AtRest \/ ~op.failing)
      BY <3>1 DEF HalfDone, At, AtRest
    <3> QED BY <1>2, <2>1, <3>1, <3>2
  <2> QED BY <1>3, <1>5, <2>1 DEF Die, Tear
<1> QED BY <1>4, <1>5

LEMMA AgreeStep == AgreeInv /\ [Next]_vars => AgreeInv'
<1> SUFFICES ASSUME AgreeInv, [Next]_vars PROVE AgreeInv'
  OBVIOUS
<1>1. FoundInv'
  BY FoundStep DEF AgreeInv
<1>2. CASE UNCHANGED vars
  <2>1. op' = op /\ files' = files /\ on' = on /\ rows' = rows /\ made' = made /\ torn' = torn
        /\ verified' = verified
    BY <1>2 DEF vars
  <2>2. OthersAgree'
    BY <2>1 DEF AgreeInv, OthersAgree, Agree, Filed, Wanted, AtRest, S
  <2>3. GenOK'
    BY <2>1 DEF AgreeInv, GenOK, S, At, IsPublication
  <2>4. PublishedOK' /\ RemovedOK'
    BY <2>1 DEF AgreeInv, PublishedOK, RemovedOK, S, At, Es, Pg
  <2>5. FilesOK'
    BY <2>1 DEF AgreeInv, FilesOK, SameFiles, AtRest, S, At, IsPublication
  <2>6. EarlyOK' <=> EarlyOK
    BY <2>1 DEF EarlyOK, Filed, Wanted, Before, Es, Pg, Finishing, AtRest, S, At, IsPublication
  <2>7. SwitchOK' <=> SwitchOK
    BY <2>1 DEF SwitchOK, Wanted, Before, Es, Pg, AtRest, S, At
  <2>8. UndoOK' <=> UndoOK
    <3>1. S' = S /\ Before' = Before /\ Es' = Es /\ Pg' = Pg
      BY <2>1 DEF S, Before, Wanted, Es, Pg
    <3>2. (SameFiles(S)' <=> SameFiles(S)) /\ (Agree(S)' <=> Agree(S))
      BY <2>1, <3>1 DEF SameFiles, Agree, Filed, Wanted
    <3> QED BY <2>1, <3>1, <3>2 DEF UndoOK, At
  <2>9. WholeOK'
    BY <2>1, <2>6, <2>7, <2>8 DEF AgreeInv, WholeOK, Whole, S
  <2> QED BY <1>1, <2>2, <2>3, <2>4, <2>5, <2>9 DEF AgreeInv
<1>3. CASE Next
  BY <1>1, <1>3, OperationAgree, EmbedAgree, StageAgree, VerifyAgree, EsOffAgree, EsOnAgree, PgSwitchAgree,
     SwitchBackAgree, DropEsAgree, DropPgAgree, WriteAgree, WriteRawAgree, RestoreAgree, RemoveAgree,
     DeleteAgree, EndAgree
  DEF Next, IndexStep
<1> QED BY <1>2, <1>3

(* The stores and the files of a source agree whenever no operation runs.  *)
THEOREM StoresAndFilesAgree == Spec => []StoresAgree
<1>1. AgreeInv => StoresAgree
  BY DEF AgreeInv, OthersAgree, AtRest, At, Agree, Filed, Wanted, StoresAgree
<1> QED BY <1>1, AgreeInit, AgreeStep, PTL DEF Spec

(* PostgreSQL finds a published source at every moment.                    *)
LEMMA AgreeFindable == AgreeInv => AlwaysFindable
<1> SUFFICES ASSUME AgreeInv, NEW t \in Sources \ torn, files.state[t] # Nothing,
                    op.kind = "trash" => op.source # t
             PROVE  on["pg"][t] # {}
  BY DEF AlwaysFindable
<1>0. op \in Op /\ WellFormed /\ "pg" \in Stores
  BY DEF AgreeInv, FoundInv, TypeInv, TypeOK, Stores
<1>1. CASE AtRest \/ t # S
  <2>1. Agree(t)
    BY <1>1 DEF AgreeInv, OthersAgree
  <2> QED BY <1>0, <2>1 DEF Agree, Wanted
<1>2. CASE ~AtRest /\ t = S
  <2>0. EarlyOK /\ SwitchOK /\ UndoOK /\ FilesOK /\ PublishedOK
    BY <1>2 DEF AgreeInv, WholeOK, Whole
  <2>1. op.pc \in Publishing \cup {"restore"} /\ IsPublication /\ op.kind # "trash"
    BY <1>0, <1>2, RestOrNot DEF WellFormed, IsPublication, At, S
  <2>2. SameFiles(S) /\ Pg = Before => Pg # {}
    BY <1>2 DEF SameFiles, Before, Wanted
  <2>3. CASE op.pc \in Early
    BY <1>2, <2>0, <2>2, <2>3 DEF EarlyOK, FilesOK, Pg
  <2>4. CASE op.pc \in Switching
    <3>1. Pg = {op.gen} \/ (SameFiles(S) /\ Pg = Before)
      BY <2>0, <2>4 DEF SwitchOK, FilesOK
    <3> QED BY <1>2, <2>2, <3>1 DEF Pg
  <2>5. CASE op.pc \in Writing
    BY <1>2, <2>0, <2>5 DEF PublishedOK, Pg
  <2>6. ASSUME SameFiles(S), Pg \ {op.gen} = Before PROVE Pg # {}
    BY <1>2, <2>6 DEF SameFiles, Before, Wanted
  <2>7. CASE op.pc \in Dropping
    <3>1. CASE op.failing
      <4>1. Pg \ {op.gen} = Before /\ SameFiles(S)
        BY <2>0, <2>7, <3>1 DEF UndoOK, FilesOK, At, Dropping
      <4> QED BY <1>2, <2>6, <4>1 DEF Pg
    <3>2. CASE ~op.failing
      <4>1. Agree(S)
        BY <2>0, <2>7, <3>2 DEF UndoOK
      <4> QED BY <1>0, <1>2, <4>1 DEF Agree, Wanted
    <3> QED BY <3>1, <3>2
  <2>8. CASE op.pc = "restore"
    <3>1. CASE op.undo = "nothing"
      <4>1. Pg = Before /\ SameFiles(S)
        BY <2>0, <2>1, <2>8, <3>1 DEF UndoOK, FilesOK, At
      <4> QED BY <1>2, <2>2, <4>1 DEF Pg
    <3>2. CASE op.undo = "drop"
      <4>1. Pg \ {op.gen} = Before /\ (SameFiles(S) \/ Pg = {op.gen})
        BY <2>0, <2>8, <3>2 DEF UndoOK, At
      <4> QED BY <1>2, <2>6, <4>1 DEF Pg
    <3>3. CASE op.undo = "switch"
      BY <1>2, <2>0, <2>8, <3>3 DEF UndoOK, At, Pg
    <3> QED BY <1>0, <3>1, <3>2, <3>3 DEF Op, Undos
  <2> QED BY <2>1, <2>3, <2>4, <2>5, <2>7, <2>8 DEF Publishing, Early, Switching, Writing, Dropping
<1> QED BY <1>1, <1>2

(* A published source can be found while it is replaced, whatever fails.   *)
THEOREM PublishedStaysFindable == Spec => []AlwaysFindable
BY AgreeInit, AgreeStep, AgreeFindable, PTL DEF Spec

-----------------------------------------------------------------------------
(* What was last published.                                                *)

Archived(t) ==
  \E slot \in Slots, b \in {last[t].body} \cup {c \in Bodies : <<c, last[t].body>> \in Shadows} :
    trash[slot] = [source |-> t, body |-> b, meta |-> last[t].meta]

(* By the files in f, t is in the corpus or in the recycle bin.            *)
KeptIn(f, t) ==
  last[t] # Nothing =>
    IF f.state[t] = Nothing THEN Archived(t)
    ELSE f.manifest[t] = last[t].meta /\ f.raw[t] = last[t].body

(* The source at work is kept by the files as they were, which may be put  *)
(* back, until it is published; a removed one is archived first, and an    *)
(* archive is cleared only of a source that is in the corpus.              *)
LastOf(t) ==
  /\ last[t] # Nothing => t \notin torn
  /\ AtRest \/ t # S \/ Finishing => KeptIn(files, t)
  /\ ~AtRest /\ ~Finishing /\ t = S => KeptIn(op.snap, t)
  /\ ~AtRest /\ op.kind = "trash" /\ t = S /\ last[t] # Nothing => Archived(t)
  /\ At("unarchive") /\ trash[op.slot] # Nothing /\ t = trash[op.slot].source /\ last[t] # Nothing =>
       files.state[t] # Nothing

SlotOK ==
  ~AtRest /\ op.kind \in {"trash", "restore"} /\ trash[op.slot] # Nothing => trash[op.slot].source = S

LastOK == SlotOK /\ \A t \in Sources : LastOf(t)

LastInv == AgreeInv /\ LastOK

LEMMA LastInit == Init => LastOK
BY DEF Init, NoOp, LastOK, SlotOK, LastOf, AtRest, At, KeptIn

LEMMA ArchivedStill ==
  ASSUME NEW t, Archived(t), trash' = trash, last'[t] = last[t]
  PROVE  Archived(t)'
BY DEF Archived

(* Nothing was published, and the bin is as it was.                        *)
LastKept(t) == last'[t] \in {last[t], Nothing} /\ (last'[t] # Nothing => t \notin torn')

LEMMA KeptStill ==
  ASSUME NEW t, KeptIn(files, t), trash' = trash, LastKept(t), last'[t] # Nothing => Kept(t)
  PROVE  KeptIn(files, t)'
<1>1. Archived(t) /\ last'[t] # Nothing => Archived(t)'
  BY ArchivedStill DEF LastKept
<1> QED BY <1>1 DEF KeptIn, LastKept, Kept

LEMMA SnapKept ==
  ASSUME NEW t, KeptIn(op.snap, t), trash' = trash, LastKept(t), op'.snap = op.snap
  PROVE  KeptIn(op.snap, t)'
<1>1. Archived(t) /\ last'[t] # Nothing => Archived(t)'
  BY ArchivedStill DEF LastKept
<1> QED BY <1>1 DEF KeptIn, LastKept

LEMMA LastGoes ==
  ASSUME LastInv, ~AtRest, ~AtRest', trash' = trash,
         op'.source = op.source, op'.kind = op.kind, op'.slot = op.slot, op'.snap = op.snap,
         \A t \in Sources : LastKept(t),
         \A t \in Sources : t # S \/ Finishing => Kept(t),
         Finishing' <=> Finishing
  PROVE  LastOK'
<1>1. S' = S
  BY DEF S
<1>2. SlotOK'
  BY <1>1 DEF LastInv, LastOK, SlotOK
<1>3. ASSUME NEW t \in Sources PROVE LastOf(t)'
  <2>1. LastOf(t) /\ LastKept(t)
    BY DEF LastInv, LastOK
  <2>2. t # S \/ Finishing => KeptIn(files, t)'
    BY <2>1, KeptStill DEF LastOf
  <2>3. ~Finishing /\ t = S => KeptIn(op.snap, t)'
    BY <2>1, SnapKept DEF LastOf
  <2>4. op.kind = "trash" /\ t = S /\ last'[t] # Nothing => Archived(t)'
    BY <2>1, ArchivedStill DEF LastOf, LastKept
  <2>5. last'[t] # Nothing => t \notin torn'
    BY <2>1 DEF LastKept
  <2>6. ~At("unarchive")'
    BY DEF AtRest, At
  <2> QED BY <1>1, <2>2, <2>3, <2>4, <2>5, <2>6 DEF LastOf
<1> QED BY <1>2, <1>3 DEF LastOK

LEMMA LastRests ==
  ASSUME LastInv, ~AtRest, AtRest', trash' = trash,
         \A t \in Sources : t # S => LastKept(t) /\ (last'[t] # Nothing => Kept(t)),
         \A t \in Sources : t = S => KeptIn(files, t)' /\ (last'[t] # Nothing => t \notin torn'),
         op'.pc = "unarchive" => /\ op'.slot = op.slot /\ op.kind \in {"trash", "restore"}
                                 /\ last'[S] # Nothing => files'.state[S] # Nothing
  PROVE  LastOK'
<1>1. SlotOK'
  BY DEF SlotOK
<1>2. ASSUME NEW t \in Sources PROVE LastOf(t)'
  <2>1. LastOf(t) /\ SlotOK
    BY DEF LastInv, LastOK
  <2>2. KeptIn(files, t)'
    BY <2>1, KeptStill DEF LastOf
  <2>3. last'[t] # Nothing => t \notin torn'
    BY DEF LastKept
  <2>4. op'.pc = "unarchive" /\ trash'[op'.slot] # Nothing /\ t = trash'[op'.slot].source
          /\ last'[t] # Nothing => files'.state[t] # Nothing
    BY <2>1 DEF SlotOK
  <2> QED BY <2>2, <2>3, <2>4 DEF LastOf, At
<1> QED BY <1>1, <1>2 DEF LastOK

(* Where an operation ends.                                                *)
LEMMA EndsWhere ==
  ASSUME op \in Op, op' \in {NoOp, Ended, EndedFailing}, op'.pc = "unarchive"
  PROVE  /\ op'.slot = op.slot /\ op.kind \in {"trash", "restore"}
         /\ op' = Ended => op.kind = IF op.failing THEN "trash" ELSE "restore"
         /\ op' = EndedFailing => op.kind = "trash"
<1>1. op' # NoOp
  BY DEF NoOp
<1>2. /\ op' = Ended => op.kind = (IF op.failing THEN "trash" ELSE "restore")
                        /\ op' = [op EXCEPT !.pc = "unarchive"]
      /\ op' = EndedFailing => op.kind = "trash" /\ op' = [op EXCEPT !.pc = "unarchive", !.failing = TRUE]
  BY <1>1 DEF Ended, EndedFailing
<1> QED BY <1>1, <1>2 DEF Op

LEMMA BeginLast ==
  ASSUME LastInv, AtRest, NEW kind \in Publications, NEW t \in Sources, NEW doc, NEW hash, NEW slot,
         Begin(kind, t, doc, hash, slot),
         kind = "restore" => trash[slot].source = t
  PROVE  LastOK'
<1>1. op' = [kind |-> kind, pc |-> "embed", source |-> t, doc |-> doc, hash |-> hash, slot |-> slot,
             gen |-> NoGen, old |-> NoGen, target |-> NoGen, prev |-> NoGen,
             failing |-> FALSE, undo |-> "nothing", snap |-> files]
  BY DEF Begin, NoOp
<1>2. /\ op'.pc = "embed" /\ op'.source = t /\ op'.kind = kind /\ op'.slot = slot /\ op'.snap = files
      /\ S' = t /\ ~AtRest' /\ ~Finishing' /\ ~At("unarchive")'
  BY <1>1 DEF S, AtRest, Finishing, Dropping, At
<1>3. UNCHANGED <<rows, on, trash, made, verified, torn, last>> /\ \A u \in Sources : Kept(u)
  BY DEF Begin, Kept
<1>4. SlotOK'
  BY <1>2, <1>3 DEF SlotOK, Publications
<1>5. ASSUME NEW u \in Sources PROVE LastOf(u)'
  <2>1. KeptIn(files, u) /\ LastKept(u)
    BY <1>3 DEF LastInv, LastOK, LastOf, LastKept
  <2>2. KeptIn(files, u)'
    BY <1>3, <2>1, KeptStill
  <2>3. Archived(u) => Archived(u)'
    BY <1>3, ArchivedStill
  <2>4. KeptIn(op.snap, u)'
    BY <1>2, <1>3, <2>1, <2>3 DEF KeptIn
  <2>5. op'.kind # "trash"
    BY <1>2 DEF Publications
  <2> QED BY <1>2, <2>1, <2>2, <2>4, <2>5 DEF LastOf, LastKept
<1> QED BY <1>4, <1>5 DEF LastOK

(* A removal archives the record and the original first.                   *)
LEMMA TrashLast ==
  ASSUME LastInv, NEW t \in Sources, NEW slot \in Slots, Trash(t, slot)
  PROVE  LastOK'
<1>1. op' = [kind |-> "trash", pc |-> "rmManifest", source |-> t, doc |-> Nothing,
             hash |-> Nothing, slot |-> slot, gen |-> NoGen, old |-> NoGen, target |-> NoGen,
             prev |-> NoGen, failing |-> FALSE, undo |-> "nothing", snap |-> files]
  BY DEF Trash, NoOp
<1>2. /\ op'.pc = "rmManifest" /\ op'.source = t /\ op'.kind = "trash" /\ op'.slot = slot
      /\ op'.snap = files /\ S' = t /\ ~AtRest' /\ ~Finishing' /\ ~At("unarchive")' /\ AtRest
  BY <1>1 DEF S, AtRest, Finishing, Dropping, At, Trash
<1>3. /\ UNCHANGED <<files, rows, on, made, verified, torn, last>>
      /\ files.manifest[t] # Nothing /\ trash[slot] = Nothing
      /\ trash' = [trash EXCEPT ![slot] = [source |-> t, body |-> Served(t), meta |-> files.manifest[t]]]
  BY DEF Trash
<1>4. /\ trash \in [Slots -> Archive \cup {Nothing}] /\ last \in [Sources -> Docs \cup {Nothing}]
      /\ files \in Files
  BY DEF LastInv, AgreeInv, FoundInv, TypeInv, TypeOK
<1>5. trash'[slot] = [source |-> t, body |-> Served(t), meta |-> files.manifest[t]]
      /\ \A k \in Slots : k # slot => trash'[k] = trash[k]
  BY <1>3, <1>4
<1>6. SlotOK'
  BY <1>2, <1>5 DEF SlotOK
<1>7. ASSUME NEW u \in Sources, last[u] # Nothing, Archived(u) PROVE Archived(u)'
  <2>1. last[u] \in Docs /\ last'[u] = last[u]
    BY <1>3, <1>4, <1>7
  <2>2. PICK k \in Slots, b \in {last[u].body} \cup {c \in Bodies : <<c, last[u].body>> \in Shadows} :
          trash[k] = [source |-> u, body |-> b, meta |-> last[u].meta]
    BY <1>7 DEF Archived
  <2>3. [source |-> u, body |-> b, meta |-> last[u].meta] \in Archive
    BY <2>1 DEF Archive, Docs
  <2>4. k # slot
    BY <1>3, <2>2, <2>3, ValuesAssumption
  <2> QED BY <1>5, <2>1, <2>2, <2>4 DEF Archived
<1>8. ASSUME last[t] # Nothing PROVE Archived(t)'
  <2>1. last[t] \in Docs /\ last'[t] = last[t]
    BY <1>3, <1>4, <1>8
  <2>2. t \notin torn /\ KeptIn(files, t)
    BY <1>2, <1>8 DEF LastInv, LastOK, LastOf
  <2>3. files.state[t] # Nothing
    BY <1>2, <1>3, <2>2 DEF LastInv, AgreeInv, OthersAgree, Agree, Filed
  <2>4. files.manifest[t] = last[t].meta /\ files.raw[t] = last[t].body
    BY <1>8, <2>2, <2>3 DEF KeptIn
  <2>5. last[t].body # Nothing
    BY <2>1, ValuesAssumption DEF Docs
  <2>6. Served(t) \in {last[t].body} \cup {c \in Bodies : <<c, last[t].body>> \in Shadows}
    <3> DEFINE first == {b \in files.temps[t] : files.raw[t] = Nothing \/ <<b, files.raw[t]>> \in Shadows}
    <3>1. first \subseteq {c \in Bodies : <<c, last[t].body>> \in Shadows}
      BY <1>4, <2>4, <2>5 DEF Files
    <3>2. Served(t) = IF first = {} THEN files.raw[t] ELSE CHOOSE b \in first : TRUE
      BY DEF Served
    <3>3. first # {} => (CHOOSE b \in first : TRUE) \in first
      OBVIOUS
    <3> HIDE DEF first
    <3> QED BY <2>4, <3>1, <3>2, <3>3
  <2> QED BY <1>5, <2>1, <2>4, <2>6 DEF Archived
<1>9. ASSUME NEW u \in Sources PROVE LastOf(u)'
  <2>1. KeptIn(files, u) /\ (last[u] # Nothing => u \notin torn)
    BY <1>2 DEF LastInv, LastOK, LastOf
  <2>2. KeptIn(files, u)' /\ KeptIn(op.snap, u)'
    BY <1>2, <1>3, <1>7, <2>1 DEF KeptIn
  <2> QED BY <1>2, <1>3, <1>8, <2>1, <2>2 DEF LastOf
<1> QED BY <1>6, <1>9 DEF LastOK

LEMMA OperationLast ==
  ASSUME LastInv,
         \/ \E t \in Sources : \E doc \in Docs : Import(t, doc)
         \/ \E t \in Sources : \E meta \in Metas : Edit(t, meta)
         \/ \E slot \in Slots : Restore(slot) \/ \E t \in Sources : Trash(t, slot)
  PROVE  LastOK'
<1>1. ASSUME NEW t \in Sources, NEW doc \in Docs, Import(t, doc) PROVE LastOK'
  BY <1>1, BeginLast DEF Import, Publications, At, AtRest
<1>2. ASSUME NEW t \in Sources, NEW meta \in Metas, Edit(t, meta) PROVE LastOK'
  BY <1>2, BeginLast DEF Edit, Publications, At, AtRest
<1>3. ASSUME NEW slot \in Slots, Restore(slot) PROVE LastOK'
  <2> DEFINE doc == [body |-> trash[slot].body, meta |-> trash[slot].meta]
  <2>0. AtRest /\ trash[slot].source \in Sources
    BY <1>3 DEF Restore, At, AtRest, LastInv, AgreeInv, FoundInv, TypeInv, TypeOK, Archive
  <2>1. CASE Begin("restore", trash[slot].source, doc, doc.body, slot)
    BY <2>0, <2>1, BeginLast DEF Publications
  <2>2. CASE /\ Current(trash[slot].source, doc)
             /\ op' = [NoOp EXCEPT !.kind = "restore", !.pc = "unarchive", !.slot = slot]
             /\ UNCHANGED <<files, rows, on, trash, made, verified, torn, last>>
    <3>1. AtRest' /\ op'.pc = "unarchive" /\ op'.slot = slot
      BY <2>2 DEF AtRest, NoOp
    <3>2. ASSUME NEW u \in Sources PROVE LastOf(u)'
      <4>1. KeptIn(files, u) /\ LastKept(u) /\ Kept(u)
        BY <2>0, <2>2 DEF LastInv, LastOK, LastOf, LastKept, Kept
      <4>2. KeptIn(files, u)'
        BY <2>2, <4>1, KeptStill
      <4>3. u = trash[slot].source => files.state[u] # Nothing
        BY <2>2 DEF Current
      <4> QED BY <2>2, <3>1, <4>1, <4>2, <4>3 DEF LastOf, LastKept
    <3> QED BY <3>1, <3>2 DEF LastOK, SlotOK
  <2> QED BY <1>3, <2>1, <2>2 DEF Restore
<1>4. ASSUME NEW slot \in Slots, NEW t \in Sources, Trash(t, slot) PROVE LastOK'
  BY <1>4, TrashLast
<1> QED BY <1>1, <1>2, <1>3, <1>4

LEMMA TearKept ==
  ASSUME LastInv, \/ UNCHANGED <<torn, last>>
                  \/ \E ts \in SUBSET Sources : Tear(ts)
  PROVE  \A t \in Sources : LastKept(t)
<1>1. \A t \in Sources : last[t] # Nothing => t \notin torn
  BY DEF LastInv, LastOK, LastOf
<1> QED BY <1>1 DEF LastKept, Tear

(* The files are put back, or still are, as they were.                     *)
LEMMA BackKept ==
  ASSUME NEW t, KeptIn(op.snap, t), trash' = trash, LastKept(t),
         files'.manifest[t] = op.snap.manifest[t], files'.state[t] = op.snap.state[t],
         files'.raw[t] = op.snap.raw[t]
  PROVE  KeptIn(files, t)'
<1>1. Archived(t) /\ last'[t] # Nothing => Archived(t)'
  BY ArchivedStill DEF LastKept
<1> QED BY <1>1 DEF KeptIn, LastKept

LEMMA StoresLast ==
  ASSUME LastInv, EmbedEnds \/ StagePg \/ StageEs \/ Verify \/ EsOff \/ EsOn \/ PgSwitch \/ BackOff \/ BackOn
  PROVE  LastOK'
<1>0. /\ op \in Op /\ S \in Sources /\ ~AtRest /\ ~Finishing /\ op.pc \in Early \cup Switching
      /\ op.pc \in Early => ~op.failing
      /\ op.kind \in Publications
  BY DEF EmbedEnds, StagePg, StageEs, Verify, EsOff, EsOn, PgSwitch, BackOff, BackOn, At, LastInv, AgreeInv,
         FoundInv, TypeInv, TypeOK, WellFormed, IsPublication, Publishing, AtRest, Finishing, Dropping, Early,
         Switching, GenOK
<1>1. files' = files /\ trash' = trash
  BY DEF EmbedEnds, StagePg, StageEs, Stage, Verify, EsOff, EsOn, PgSwitch, BackOff, BackOn
<1>2. \A t \in Sources : LastKept(t)
  <2>1. \/ UNCHANGED <<torn, last>>
        \/ \E ts \in SUBSET Sources : Tear(ts)
    <3>1. \A lost \in BOOLEAN : (IF lost THEN {S} ELSE {}) \in SUBSET Sources
      BY <1>0
    <3> QED BY <3>1 DEF EmbedEnds, StagePg, StageEs, Stage, Verify, EsOff, EsOn, PgSwitch, BackOff, BackOn,
                        TearIf
  <2> QED BY <2>1, TearKept
<1>3. \/ op' = NoOp /\ op.pc = "embed"
      \/ op' = Raise /\ op.failing /\ last'[S] = Nothing
      \/ op' = Raise /\ ~op.failing
      \/ \E step \in {"stageEs", "verify", "esOn", "pgSwitch", "backOff", "backOn", "manifest"} : Goto(step)
      \/ op.failing /\ Goto("dropEs")
      \/ op' = [op EXCEPT !.pc = "stagePg", !.gen = Len(made) + 1]
      \/ op' = [op EXCEPT !.pc = "esOff", !.target = op.gen, !.prev = Searched, !.old = Searched]
  <2>1. CASE BackOff
    BY <1>0, <2>1 DEF BackOff, Goto, TearIf, Tear
  <2>2. CASE BackOn
    BY <1>0, <2>2 DEF BackOn, TearIf, Tear
  <2>3. CASE EmbedEnds
    BY <2>3 DEF EmbedEnds, At
  <2>4. CASE StagePg \/ StageEs \/ Verify
    BY <1>0, <2>4 DEF StagePg, StageEs, Stage, Verify, At, Early, Goto
  <2>5. CASE EsOff \/ EsOn \/ PgSwitch
    BY <2>5 DEF EsOff, EsOn, PgSwitch, Outcomes, Goto
  <2> QED BY <2>1, <2>2, <2>3, <2>4, <2>5
<1>4. ASSUME AtRest', op'.pc = "idle", op.pc = "embed" \/ last'[S] = Nothing PROVE LastOK'
  <2>1. ASSUME NEW t \in Sources, t = S PROVE KeptIn(files, t)'
    <3>1. CASE op.pc = "embed"
      <4>1. KeptIn(op.snap, t) /\ SameFiles(t)
        BY <1>0, <2>1, <3>1 DEF LastInv, LastOK, LastOf, AgreeInv, FilesOK, Early
      <4> QED BY <1>1, <1>2, <4>1, BackKept DEF SameFiles
    <3>2. CASE last'[S] = Nothing
      BY <2>1, <3>2 DEF KeptIn
    <3> QED BY <1>4, <3>1, <3>2
  <2> QED BY <1>0, <1>1, <1>2, <1>4, <2>1, LastRests DEF Kept, LastKept
<1>5. ASSUME ~AtRest', ~Finishing', op'.source = op.source, op'.kind = op.kind, op'.slot = op.slot,
             op'.snap = op.snap
      PROVE  LastOK'
  BY <1>0, <1>1, <1>2, <1>5, LastGoes DEF Kept
<1>6. CASE op' = NoOp /\ op.pc = "embed"
  BY <1>4, <1>6 DEF NoOp, AtRest
<1>7. CASE op' = Raise /\ op.failing /\ last'[S] = Nothing
  <2>1. op' = NoOp
    BY <1>0, <1>7 DEF Raise, EndedFailing, Publications
  <2> QED BY <1>4, <1>7, <2>1 DEF NoOp, AtRest
<1>8. CASE op' = Raise /\ ~op.failing
  BY <1>0, <1>5, <1>8, RaisesFirst DEF AtRest, Finishing, Carried, Dropping
<1>9. CASE \E step \in {"stageEs", "verify", "esOn", "pgSwitch", "backOff", "backOn", "manifest"} : Goto(step)
  BY <1>0, <1>5, <1>9, GoesOn DEF AtRest, Finishing, Carried, Dropping
<1>10. CASE op.failing /\ Goto("dropEs")
  <2>1. op'.pc = "dropEs" /\ op'.failing = op.failing /\ Carried
    BY <1>0, <1>10, GoesOn
  <2> QED BY <1>5, <1>10, <2>1 DEF AtRest, Finishing, Carried
<1>11. CASE op' = [op EXCEPT !.pc = "stagePg", !.gen = Len(made) + 1]
  BY <1>0, <1>5, <1>11 DEF AtRest, Finishing, Dropping, Op
<1>12. CASE op' = [op EXCEPT !.pc = "esOff", !.target = op.gen, !.prev = Searched, !.old = Searched]
  BY <1>0, <1>5, <1>12 DEF AtRest, Finishing, Dropping, Op
<1> QED BY <1>3, <1>6, <1>7, <1>8, <1>9, <1>10, <1>11, <1>12

LEMMA FilesLast ==
  ASSUME LastInv,
         \/ WriteManifest \/ WriteChunks \/ WriteState
         \/ RemoveManifest \/ RemoveChunks \/ RemoveState \/ RemoveRaw
  PROVE  LastOK'
<1>0. op.pc \in Writing \cup Removing
  BY DEF WriteManifest, WriteChunks, WriteState, RemoveManifest, RemoveChunks, RemoveState, RemoveRaw,
         FileStep, At, Writing, Removing
<1>1. op \in Op /\ S \in Sources /\ ~AtRest /\ ~Finishing /\ ~op.failing /\ files \in Files
  BY <1>0, WritingHas, RemovingHas DEF LastInv
<1>2. UNCHANGED <<trash, torn, last>>
  BY DEF WriteManifest, WriteChunks, WriteState, RemoveManifest, RemoveChunks, RemoveState, RemoveRaw, FileStep
<1>3. \A t \in Sources : t # S => Kept(t)
  <2>1. CASE files' = files
    BY <2>1 DEF Kept
  <2>2. CASE \E x : files' \in {[files EXCEPT !.manifest[S] = x], [files EXCEPT !.chunks[S] = x],
                                [files EXCEPT !.state[S] = x]}
    BY <1>1, <2>2 DEF Kept, Files
  <2>3. CASE files' = [files EXCEPT !.raw[S] = Nothing, !.temps[S] = {}]
    BY <1>1, <2>3 DEF Kept, Files
  <2> QED BY <2>1, <2>2, <2>3 DEF WriteManifest, WriteChunks, WriteState, RemoveManifest, RemoveChunks,
             RemoveState, RemoveRaw, FileStep
<1>4. op' = Raise \/ \E step \in {"chunks", "state", "raw", "rmChunks", "rmState", "rmRaw", "delEs"} : Goto(step)
  BY DEF WriteManifest, WriteChunks, WriteState, RemoveManifest, RemoveChunks, RemoveState, RemoveRaw, FileStep
<1>5. ~AtRest' /\ ~Finishing' /\ op'.source = op.source /\ op'.kind = op.kind /\ op'.slot = op.slot
      /\ op'.snap = op.snap
  BY <1>1, <1>4, RaisesFirst, GoesOn DEF AtRest, Finishing, Dropping, Carried
<1>6. \A t \in Sources : LastKept(t)
  BY <1>2, TearKept
<1> QED BY <1>1, <1>2, <1>3, <1>5, <1>6, LastGoes

LEMMA WriteRawLast ==
  ASSUME LastInv, WriteRaw
  PROVE  LastOK'
<1>0. op.pc = "raw" /\ op.pc \in Writing
  BY DEF WriteRaw, At, Writing
<1>1. /\ op \in Op /\ S \in Sources /\ ~AtRest /\ ~Finishing /\ ~op.failing /\ files \in Files
      /\ op.doc \in Docs /\ op.kind # "trash" /\ last \in [Sources -> Docs \cup {Nothing}]
  BY <1>0, WritingHas DEF LastInv, AgreeInv, FoundInv, TypeInv, TypeOK
<1>2. trash' = trash
  BY DEF WriteRaw
<1>3. CASE files' = files /\ op' = Raise /\ UNCHANGED <<torn, last>>
  <2>1. ~AtRest' /\ ~Finishing' /\ op'.source = op.source /\ op'.kind = op.kind /\ op'.slot = op.slot
        /\ op'.snap = op.snap
    BY <1>1, <1>3, RaisesFirst DEF AtRest, Finishing, Dropping, Carried
  <2>2. \A t \in Sources : LastKept(t)
    BY <1>3, TearKept
  <2> QED BY <1>1, <1>2, <1>3, <2>1, <2>2, LastGoes DEF Kept
<1>4. CASE /\ files' = IF op.kind = "edit" THEN files
                         ELSE [files EXCEPT !.raw[S] = op.doc.body, !.temps[S] = {}]
           /\ op' = IF op.old = NoGen THEN Ended ELSE [op EXCEPT !.pc = "dropEs"]
           /\ torn' = IF op.kind = "edit" THEN torn ELSE torn \ {S}
           /\ last' = IF S \in torn' THEN last ELSE [last EXCEPT ![S] = op.doc]
  <2>1. /\ \A t \in Sources : t # S => Kept(t)
        /\ files'.manifest = files.manifest /\ files'.state = files.state
        /\ files'.raw[S] = IF op.kind = "edit" THEN files.raw[S] ELSE op.doc.body
    BY <1>1, <1>4 DEF Kept, Files
  <2>2. /\ files.raw[S] = op.snap.raw[S] /\ files.manifest[S] = op.doc.meta
        /\ files.state[S] = [hash |-> op.hash, layout |-> op.doc.body, gen |-> op.gen]
    BY <1>0 DEF LastInv, AgreeInv, PublishedOK, At
  <2>3. files'.state[S] # Nothing
    <3>1. files.state[S] \in Entry
      <4>1. op.hash \in Bodies /\ op.gen \in Gens
        BY <1>0 DEF LastInv, AgreeInv, FoundInv, TypeInv, WellFormed, IsPublication, Publishing, At
      <4> QED BY <1>1, <2>2, <4>1 DEF Entry, Docs
    <3> QED BY <2>1, <3>1, ValuesAssumption
  <2>4. \A t \in Sources : t # S => LastKept(t)
    <3>1. \A t \in Sources : last[t] # Nothing => t \notin torn
      BY DEF LastInv, LastOK, LastOf
    <3> QED BY <1>1, <1>4, <3>1 DEF LastKept
  <2>5. ASSUME NEW t \in Sources, t = S PROVE KeptIn(files, t)' /\ (last'[t] # Nothing => t \notin torn')
    <3>1. CASE S \in torn'
      <4>1. last'[t] = Nothing
        <5>1. t \in torn /\ last' = last
          BY <1>4, <2>5, <3>1
        <5> QED BY <5>1 DEF LastInv, LastOK, LastOf
      <4> QED BY <4>1 DEF KeptIn
    <3>2. CASE S \notin torn'
      <4>1. last'[t] = op.doc
        BY <1>1, <1>4, <2>5, <3>2
      <4>2. files'.raw[S] = op.doc.body
        BY <1>0, <1>4, <2>1, <2>2, <3>2, WritingHas DEF LastInv
      <4> QED BY <2>1, <2>2, <2>3, <2>5, <3>2, <4>1, <4>2 DEF KeptIn
    <3> QED BY <3>1, <3>2
  <2>6. CASE op.old = NoGen
    <3>1. op' = Ended /\ AtRest'
      BY <1>1, <1>4, <2>6, EndsAtRest
    <3> QED BY <1>1, <1>2, <2>1, <2>3, <2>4, <2>5, <3>1, EndsWhere, LastRests
  <2>7. CASE op.old # NoGen
    <3>1. /\ op'.pc = "dropEs" /\ op'.source = op.source /\ op'.kind = op.kind /\ op'.slot = op.slot
          /\ op'.snap = op.snap /\ ~op'.failing
      BY <1>1, <1>4, <2>7 DEF Op
    <3>2. ~AtRest' /\ Finishing' /\ S' = S
      BY <3>1 DEF AtRest, Finishing, Dropping, S
    <3>3. SlotOK'
      BY <1>1, <1>2, <3>1, <3>2 DEF LastInv, LastOK, SlotOK
    <3>4. ASSUME NEW t \in Sources PROVE LastOf(t)'
      <4>1. KeptIn(files, t)'
        <5>1. CASE t = S
          BY <2>5, <5>1
        <5>2. CASE t # S
          <6>1. KeptIn(files, t)
            BY <5>2 DEF LastInv, LastOK, LastOf
          <6> QED BY <1>2, <2>1, <2>4, <5>2, <6>1, KeptStill
        <5> QED BY <5>1, <5>2
      <4>2. last'[t] # Nothing => t \notin torn'
        BY <2>4, <2>5 DEF LastKept
      <4> QED BY <1>1, <3>1, <3>2, <4>1, <4>2 DEF LastOf, At
    <3> QED BY <3>3, <3>4 DEF LastOK
  <2> QED BY <2>6, <2>7
<1> QED BY <1>3, <1>4 DEF WriteRaw

LEMMA RestoreLast ==
  ASSUME LastInv, RestoreFiles
  PROVE  LastOK'
<1>0. /\ op \in Op /\ S \in Sources /\ op.pc = "restore" /\ ~AtRest /\ op.failing /\ ~Finishing
      /\ trash' = trash /\ op.undo \in Undos
  BY DEF RestoreFiles, LastInv, AgreeInv, FoundInv, TypeInv, TypeOK, WellFormed, At, AtRest, GenOK,
         Finishing, Dropping, Op
<1>1. CASE op' = EndedFailing /\ Tear(Sources)
  <2>1. AtRest' /\ \A t \in Sources : last'[t] = Nothing
    BY <1>0, <1>1, EndsAtRest DEF Tear
  <2> QED BY <1>0, <1>1, <2>1, EndsWhere, LastRests DEF KeptIn, LastKept
<1>2. CASE /\ files' = op.snap /\ torn' = torn /\ last' = last
           /\ op' = CASE op.undo = "switch" -> [op EXCEPT !.pc = "esOff", !.target = op.old, !.prev = Searched]
                      [] op.undo = "drop" -> [op EXCEPT !.pc = "dropEs"]
                      [] OTHER -> Ended
  <2>1. \A t \in Sources : LastKept(t)
    BY <1>2, TearKept
  <2>2. \A t \in Sources : t # S => Kept(t)
    BY <1>0, <1>2 DEF LastInv, AgreeInv, FilesOK, SameFiles, Kept
  <2>3. CASE op.undo = "nothing"
    <3>1. op' = Ended /\ AtRest'
      BY <1>0, <1>2, <2>3, EndsAtRest
    <3>2. ASSUME NEW t \in Sources, t = S PROVE KeptIn(files, t)'
      <4>1. KeptIn(op.snap, t)
        BY <1>0, <3>2 DEF LastInv, LastOK, LastOf
      <4> QED BY <1>0, <1>2, <2>1, <4>1, BackKept
    <3>3. op'.pc = "unarchive" => op.kind = "trash" /\ op'.slot = op.slot
      BY <1>0, <3>1, EndsWhere
    <3>4. op.kind = "trash" /\ last'[S] # Nothing => files'.state[S] # Nothing
      <4>1. op.kind = "trash" => op.snap.manifest[S] # Nothing
        BY <1>0 DEF LastInv, AgreeInv, FilesOK
      <4>2. last[S] # Nothing => Filed(op.snap, S)
        BY <1>0 DEF LastInv, LastOK, LastOf, AgreeInv, WholeOK, Whole, EarlyOK
      <4> QED BY <1>2, <4>1, <4>2 DEF Filed
    <3> QED BY <1>0, <2>1, <2>2, <3>1, <3>2, <3>3, <3>4, LastRests DEF LastKept
  <2>4. CASE op.undo # "nothing"
    <3>1. /\ op'.source = op.source /\ op'.kind = op.kind /\ op'.slot = op.slot /\ op'.snap = op.snap
          /\ op'.failing = op.failing /\ op'.pc \in {"esOff", "dropEs"}
      BY <1>0, <1>2, <2>4 DEF Op, Undos
    <3>2. ~AtRest' /\ ~Finishing'
      BY <1>0, <3>1 DEF AtRest, Finishing
    <3> QED BY <1>0, <2>1, <2>2, <3>1, <3>2, LastGoes
  <2> QED BY <2>3, <2>4
<1> QED BY <1>1, <1>2 DEF RestoreFiles

LEMMA DropLast ==
  ASSUME LastInv, DropEs \/ DropPg
  PROVE  LastOK'
<1>0. op.pc \in Dropping
  BY DEF DropEs, DropPg, At, Dropping
<1>1. /\ op \in Op /\ S \in Sources /\ ~AtRest /\ Finishing = ~op.failing /\ op.kind # "trash"
      /\ op.failing => SameFiles(S)
      /\ S \notin torn /\ ~op.failing => files.state[S] # Nothing
  <2>1. op.kind # "trash"
    BY <1>0 DEF LastInv, AgreeInv, FoundInv, TypeInv, WellFormed, IsPublication, Publishing, Dropping,
                Publications
  <2> QED BY <1>0, <2>1, DroppingHas DEF LastInv
<1>2. files' = files /\ trash' = trash
  BY DEF DropEs, DropPg
<1>3. \A t \in Sources : LastKept(t)
  <2>1. \A lost \in BOOLEAN : (IF lost THEN {S} ELSE {}) \in SUBSET Sources
    BY <1>1
  <2>2. \E ts \in SUBSET Sources : Tear(ts)
    BY <2>1 DEF DropEs, DropPg, TearIf
  <2> QED BY <2>2, TearKept
<1>4. CASE op' = Ended
  <2>1. AtRest'
    BY <1>1, <1>4, EndsAtRest
  <2>2. ASSUME NEW t \in Sources, t = S PROVE KeptIn(files, t)'
    <3>1. CASE Finishing
      <4>1. KeptIn(files, t)
        BY <3>1 DEF LastInv, LastOK, LastOf
      <4> QED BY <1>2, <1>3, <4>1, KeptStill DEF Kept
    <3>2. CASE ~Finishing
      <4>1. KeptIn(op.snap, t) /\ SameFiles(t)
        BY <1>1, <2>2, <3>2 DEF LastInv, LastOK, LastOf
      <4> QED BY <1>2, <1>3, <4>1, BackKept DEF SameFiles
    <3> QED BY <3>1, <3>2
  <2>3. op'.pc = "unarchive" => /\ op'.slot = op.slot /\ op.kind \in {"trash", "restore"}
                                /\ last'[S] # Nothing => files'.state[S] # Nothing
    <3>1. op'.pc = "unarchive" => op'.slot = op.slot /\ op.kind = "restore" /\ ~op.failing
      BY <1>1, <1>4, EndsWhere
    <3>2. last'[S] # Nothing => S \notin torn
      BY <1>1, <1>3 DEF LastKept, LastInv, LastOK, LastOf
    <3> QED BY <1>1, <1>2, <3>1, <3>2
  <2> QED BY <1>1, <1>2, <1>3, <2>1, <2>2, <2>3, LastRests DEF Kept, LastKept
<1>5. CASE Goto("dropPg")
  <2>1. op'.pc = "dropPg" /\ op'.failing = op.failing /\ Carried
    BY <1>1, <1>5, GoesOn
  <2>2. ~AtRest' /\ (Finishing' <=> Finishing)
    BY <1>0, <2>1 DEF AtRest, Finishing, Dropping
  <2> QED BY <1>1, <1>2, <1>3, <2>1, <2>2, LastGoes DEF Kept, Carried
<1> QED BY <1>4, <1>5 DEF DropEs, DropPg, Goto

LEMMA DeleteLast ==
  ASSUME LastInv, DeleteEs \/ DeletePg
  PROVE  LastOK'
<1>0. op.pc \in Removing /\ op.pc \in {"delEs", "delPg"}
  BY DEF DeleteEs, DeletePg, At, Removing
<1>1. op \in Op /\ S \in Sources /\ ~AtRest /\ ~Finishing /\ ~op.failing /\ op.kind = "trash"
  BY <1>0, RemovingHas DEF LastInv
<1>2. files' = files /\ trash' = trash /\ files.state[S] = Nothing
  BY <1>0 DEF DeleteEs, DeletePg, LastInv, AgreeInv, RemovedOK
<1>3. \A t \in Sources : LastKept(t)
  <2>1. CASE \E ts \in {{}, {S}} : Tear(ts)
    BY <1>1, <2>1, TearKept
  <2>2. CASE torn' = torn \ {S} /\ last' = last
    BY <2>2 DEF LastKept, LastInv, LastOK, LastOf
  <2> QED BY <2>1, <2>2 DEF DeleteEs, DeletePg, TearIf
<1>4. CASE op' = NoOp
  <2>1. AtRest' /\ op'.pc = "idle"
    BY <1>4 DEF NoOp, AtRest
  <2>2. ASSUME NEW t \in Sources, t = S PROVE KeptIn(files, t)'
    <3>1. last[t] # Nothing => Archived(t)
      BY <1>1, <2>2 DEF LastInv, LastOK, LastOf
    <3>2. Archived(t) /\ last'[t] # Nothing => Archived(t)'
      BY <1>2, <1>3, ArchivedStill DEF LastKept
    <3> QED BY <1>2, <1>3, <2>2, <3>1, <3>2 DEF KeptIn, LastKept
  <2> QED BY <1>1, <1>2, <1>3, <2>1, <2>2, LastRests DEF Kept, LastKept
<1>5. CASE op' = Raise \/ Goto("delPg")
  <2>1. ~AtRest' /\ ~Finishing' /\ Carried
    BY <1>1, <1>5, RaisesFirst, GoesOn DEF AtRest, Finishing, Dropping
  <2> QED BY <1>1, <1>2, <1>3, <2>1, LastGoes DEF Kept, Carried
<1> QED BY <1>4, <1>5 DEF DeleteEs, DeletePg, Goto

(* An archive is cleared of a source that is in the corpus.                *)
LEMMA UnarchiveLast ==
  ASSUME LastInv, Unarchive
  PROVE  LastOK'
<1>0. /\ At("unarchive") /\ AtRest /\ UNCHANGED <<files, torn, last>> /\ op' = NoOp
      /\ trash \in [Slots -> Archive \cup {Nothing}]
  BY DEF Unarchive, At, AtRest, LastInv, AgreeInv, FoundInv, TypeInv, TypeOK
<1>1. AtRest' /\ ~At("unarchive")'
  BY <1>0 DEF NoOp, AtRest, At
<1>2. ASSUME NEW t \in Sources PROVE KeptIn(files, t)'
  <2>1. LastOf(t) /\ KeptIn(files, t)
    BY <1>0 DEF LastInv, LastOK, LastOf
  <2>2. CASE trash' = trash
    BY <1>0, <2>1, <2>2, KeptStill DEF Kept, LastKept, LastOf
  <2>3. CASE trash' = [trash EXCEPT ![op.slot] = Nothing] /\ trash[op.slot] # Nothing
    <3>1. CASE t = trash[op.slot].source
      BY <1>0, <2>1, <2>3, <3>1 DEF LastOf, KeptIn
    <3>2. CASE t # trash[op.slot].source
      <4>1. \A k \in Slots : trash[k] # Nothing /\ trash[k].source = t => trash'[k] = trash[k]
        BY <1>0, <2>3, <3>2
      <4>2. ASSUME last[t] # Nothing, Archived(t) PROVE Archived(t)'
        <5>1. last[t] \in Docs /\ last'[t] = last[t]
          BY <1>0, <4>2 DEF LastInv, AgreeInv, FoundInv, TypeInv, TypeOK
        <5>2. PICK k \in Slots, b \in {last[t].body} \cup {c \in Bodies : <<c, last[t].body>> \in Shadows} :
                trash[k] = [source |-> t, body |-> b, meta |-> last[t].meta]
          BY <4>2 DEF Archived
        <5>3. [source |-> t, body |-> b, meta |-> last[t].meta] \in Archive
          BY <5>1 DEF Archive, Docs
        <5>4. trash'[k] = trash[k]
          BY <4>1, <5>2, <5>3, ValuesAssumption
        <5> QED BY <5>1, <5>2, <5>4 DEF Archived
      <4> QED BY <1>0, <2>1, <4>2 DEF KeptIn
    <3> QED BY <3>1, <3>2
  <2>4. trash[op.slot] = Nothing => [trash EXCEPT ![op.slot] = Nothing] = trash
    BY <1>0
  <2> QED BY <2>2, <2>3, <2>4 DEF Unarchive
<1>3. ASSUME NEW t \in Sources PROVE LastOf(t)'
  BY <1>0, <1>1, <1>2 DEF LastOf, LastInv, LastOK
<1> QED BY <1>1, <1>3 DEF LastOK, SlotOK

LEMMA DieLast ==
  ASSUME LastInv, Die
  PROVE  LastOK'
<1>0. /\ op \in Op /\ op' = NoOp /\ trash' = trash /\ AtRest' /\ op'.pc = "idle"
  BY DEF Die, LastInv, AgreeInv, FoundInv, TypeInv, TypeOK, NoOp, AtRest
<1>1. CASE Tear(Sources)
  <2>1. \A t \in Sources : last'[t] = Nothing
    BY <1>1 DEF Tear
  <2> QED BY <1>0, <2>1 DEF LastOK, SlotOK, LastOf, KeptIn, At
<1>2. CASE files' = files /\ TearIf(HalfDone)
  <2>1. HalfDone => S \in Sources
    BY DEF LastInv, AgreeInv, FoundInv, TypeInv, WellFormed, HalfDone, Touched, Publishing, Removing
  <2>2. \A t \in Sources : LastKept(t)
    <3>1. (IF HalfDone THEN {S} ELSE {}) \in SUBSET Sources
      BY <2>1
    <3> QED BY <1>2, <3>1, TearKept DEF TearIf
  <2>3. ASSUME NEW t \in Sources PROVE KeptIn(files, t)'
    <3>1. CASE AtRest \/ t # S \/ Finishing
      <4>1. KeptIn(files, t)
        BY <3>1 DEF LastInv, LastOK, LastOf
      <4> QED BY <1>0, <1>2, <2>2, <4>1, KeptStill DEF Kept
    <3>2. CASE ~AtRest /\ t = S /\ ~Finishing /\ op.pc \in Early
      <4>1. KeptIn(op.snap, t) /\ SameFiles(t)
        BY <3>2 DEF LastInv, LastOK, LastOf, AgreeInv, FilesOK
      <4> QED BY <1>0, <1>2, <2>2, <4>1, BackKept DEF SameFiles
    <3>3. CASE ~AtRest /\ t = S /\ ~Finishing /\ op.pc \notin Early
      <4>1. HalfDone
        BY <1>0, <3>3 DEF AtRest, HalfDone, At, Finishing, Early, Touched, Dropping, Op, Steps
      <4>2. last'[t] = Nothing
        BY <1>2, <3>3, <4>1 DEF TearIf, Tear
      <4> QED BY <4>2 DEF KeptIn
    <3> QED BY <3>1, <3>2, <3>3
  <2>4. ASSUME NEW t \in Sources PROVE LastOf(t)'
    BY <1>0, <2>2, <2>3 DEF LastOf, LastKept, At
  <2> QED BY <1>0, <2>4 DEF LastOK, SlotOK
<1> QED BY <1>1, <1>2 DEF Die

LEMMA LastStep == LastInv /\ [Next]_vars => LastInv'
<1> SUFFICES ASSUME LastInv, [Next]_vars PROVE LastOK'
  BY AgreeStep DEF LastInv
<1>1. CASE UNCHANGED vars
  <2>1. op' = op /\ files' = files /\ trash' = trash /\ torn' = torn /\ last' = last
    BY <1>1 DEF vars
  <2>2. ASSUME NEW t \in Sources PROVE LastOf(t)'
    <3>1. LastOf(t)
      BY DEF LastInv, LastOK
    <3> QED BY <2>1, <3>1 DEF LastOf, KeptIn, Archived, AtRest, Finishing, At, S
  <2>3. SlotOK'
    BY <2>1 DEF LastInv, LastOK, SlotOK, AtRest, S
  <2> QED BY <2>2, <2>3 DEF LastOK
<1>2. CASE Next
  BY <1>2, OperationLast, StoresLast, FilesLast, WriteRawLast, RestoreLast, DropLast, DeleteLast,
     UnarchiveLast, DieLast
  DEF Next, IndexStep
<1> QED BY <1>1, <1>2

LEMMA LastMeans == LastInv => NothingLost
<1> SUFFICES ASSUME LastInv, NEW t \in Sources, last[t] # Nothing
             PROVE  files.manifest[t] # Nothing \/ Archived(t)
  BY DEF NothingLost, Archived
<1>0. op \in Op /\ WellFormed /\ last[t].meta # Nothing
  BY ValuesAssumption DEF LastInv, AgreeInv, FoundInv, TypeInv, TypeOK, Docs
<1>1. LastOf(t) /\ FilesOK
  BY DEF LastInv, LastOK, AgreeInv
<1>2. CASE AtRest \/ t # S \/ Finishing
  BY <1>0, <1>1, <1>2 DEF LastOf, KeptIn
<1>3. CASE ~AtRest /\ t = S /\ ~Finishing /\ op.kind = "trash"
  BY <1>1, <1>3 DEF LastOf
<1>4. CASE ~AtRest /\ t = S /\ ~Finishing /\ op.kind # "trash"
  <2>1. IsPublication
    BY <1>0, <1>4, RestOrNot DEF WellFormed, IsPublication, At
  <2> QED BY <1>0, <1>1, <1>4, <2>1 DEF LastOf, KeptIn, FilesOK
<1> QED BY <1>2, <1>3, <1>4

(* What was last published of a source is in the corpus or can be restored *)
(* from the recycle bin, through failed removals and restores.             *)
THEOREM PublishedIsNotLost == Spec => []NothingLost
<1>1. Init => LastInv
  BY AgreeInit, LastInit DEF LastInv
<1> QED BY <1>1, LastStep, LastMeans, PTL DEF Spec

(***************************************************************************)
(* Publishing as those who search see it: the promise of PublishedCorpus   *)
(***************************************************************************)

(* What the stores find where AgreeInv has no need to know it.             *)
SightOK ==
  /\ Finishing => Es = {op.gen} /\ Pg = {op.gen}
  /\ Whole /\ op.pc \in {"esOff", "backOff"} => Es \subseteq Before \cup {op.gen}
  /\ Whole /\ At("delPg") => Pg = Before

CorpusInv == AgreeInv /\ SightOK

LEMMA SightElsewhere ==
  ASSUME op'.pc \notin Dropping \cup {"esOff", "backOff", "delPg"}
  PROVE  SightOK'
BY DEF SightOK, Finishing, At

LEMMA RaiseElsewhere ==
  ASSUME op \in Op, op' \in {NoOp, Ended, EndedFailing, Raise}
  PROVE  op'.pc \notin Dropping \cup {"esOff", "backOff", "delPg"}
<1>1. CASE op' = Raise /\ ~op.failing
  BY <1>1, RaisesFirst DEF Dropping
<1>2. CASE op' \in {NoOp, Ended, EndedFailing} \/ (op.failing /\ op' = Raise)
  BY <1>2, EndsAtRest DEF AtRest, Dropping
<1> QED BY <1>1, <1>2

LEMMA SightStep == CorpusInv /\ [Next]_vars => SightOK'
<1> SUFFICES ASSUME CorpusInv, [Next]_vars PROVE SightOK'
  OBVIOUS
<1>0. /\ AgreeInv /\ SightOK /\ AgreeInv' /\ op \in Op
      /\ on \in [Stores -> [Sources -> SUBSET Gens]] /\ "es" \in Stores /\ "pg" \in Stores
  BY AgreeStep DEF CorpusInv, AgreeInv, FoundInv, TypeInv, TypeOK, Stores
<1>1. CASE UNCHANGED vars
  BY <1>0, <1>1 DEF vars, SightOK, Finishing, Es, Pg, S, Whole, Before, At
<1>2. CASE \/ \E t \in Sources : \E doc \in Docs : Import(t, doc)
           \/ \E t \in Sources : \E meta \in Metas : Edit(t, meta)
           \/ \E slot \in Slots : Restore(slot) \/ \E t \in Sources : Trash(t, slot)
  <2>1. ASSUME NEW kind, NEW t, NEW doc, NEW hash, NEW slot, Begin(kind, t, doc, hash, slot)
        PROVE  op'.pc = "embed"
    BY <2>1 DEF Begin, NoOp
  <2>2. ASSUME NEW t, NEW slot, Trash(t, slot) PROVE op'.pc = "rmManifest"
    BY <2>2 DEF Trash, NoOp
  <2>3. ASSUME NEW slot, Restore(slot) PROVE op'.pc \in {"embed", "unarchive"}
    BY <2>1, <2>3 DEF Restore, NoOp
  <2>4. op'.pc \in {"embed", "rmManifest", "unarchive"}
    BY <1>2, <2>1, <2>2, <2>3 DEF Import, Edit
  <2> QED BY <2>4, SightElsewhere DEF Dropping
<1>3. CASE EmbedEnds \/ StagePg \/ StageEs \/ WriteManifest \/ WriteChunks \/ WriteState
           \/ RemoveManifest \/ RemoveChunks \/ RemoveState \/ RemoveRaw \/ Unarchive \/ Die
  <2>1. \/ op' \in {NoOp, Raise}
        \/ op'.pc = "stagePg"
        \/ \E step \in {"stageEs", "verify", "chunks", "state", "raw", "rmChunks", "rmState", "rmRaw",
                        "delEs"} : op'.pc = step
    BY <1>0, <1>3 DEF EmbedEnds, StagePg, StageEs, Stage, WriteManifest, WriteChunks, WriteState,
       RemoveManifest, RemoveChunks, RemoveState, RemoveRaw, FileStep, Unarchive, Die, Goto, Op
  <2> QED BY <1>0, <2>1, RaiseElsewhere, SightElsewhere DEF Dropping
<1>4. CASE Verify
  <2>1. CASE op' = Raise
    BY <1>0, <2>1, RaiseElsewhere, SightElsewhere
  <2>2. CASE op' = [op EXCEPT !.pc = "esOff", !.target = op.gen, !.prev = Searched, !.old = Searched]
    <3>1. op'.pc = "esOff" /\ op'.source = op.source /\ op'.snap = op.snap /\ op'.gen = op.gen
      BY <1>0, <2>2 DEF Op
    <3>2. on' = on /\ torn' = torn /\ op.pc \in Early
      BY <1>4 DEF Verify, At, Early
    <3>3. Whole => Es = Before
      BY <1>0, <3>2 DEF AgreeInv, WholeOK, EarlyOK
    <3> QED BY <3>1, <3>2, <3>3 DEF SightOK, Finishing, Dropping, Es, Pg, S, Whole, Before, At
  <2> QED BY <1>4, <2>1, <2>2 DEF Verify
<1>5. CASE EsOff \/ EsOn \/ PgSwitch
  <2>1. PICK step \in {"esOn", "pgSwitch", "backOff", "dropEs", "manifest"} : Goto(step)
    BY <1>5 DEF EsOff, EsOn, PgSwitch
  <2>2. /\ op'.pc = step /\ op'.source = op.source /\ op'.snap = op.snap /\ op'.gen = op.gen
        /\ op'.failing = op.failing
    BY <1>0, <2>1, GoesOn DEF Carried
  <2>3. step = "dropEs" => op.failing
    <3>1. ~op.failing => \E other \in {"esOn", "pgSwitch", "backOff", "manifest"} : Goto(other)
      BY <1>5 DEF EsOff, EsOn, PgSwitch
    <3>2. ~op.failing => op'.pc # "dropEs"
      BY <1>0, <3>1, GoesOn
    <3> QED BY <2>2, <3>2
  <2>4. CASE step # "backOff"
    BY <2>1, <2>2, <2>3, <2>4 DEF SightOK, Finishing, Dropping, At
  <2>5. CASE step = "backOff" /\ S \notin torn'
    <3>1. torn \subseteq torn' /\ op.pc \in Switching
      BY <1>5 DEF EsOff, EsOn, PgSwitch, TearIf, Tear, Switching, At
    <3>2. /\ S \in Sources /\ Before = {op.old} \ {NoGen} /\ S \notin torn
          /\ op.pc \in Activating => op.target = IF op.failing THEN op.old ELSE op.gen
      BY <1>0, <2>5, <3>1, SwitchingHas
    <3>3. on'["es"][S] \subseteq Before \cup {op.gen}
      <4>1. CASE EsOff
        BY <1>0, <3>2, <4>1 DEF EsOff, At, SightOK, Whole, Es
      <4>2. CASE EsOn
        <5>1. on["es"][S] = {} /\ on'["es"][S] \subseteq {op.target} /\ NoGen \notin on'["es"][S]
          BY <1>0, <3>2, <4>2 DEF EsOn, At, AgreeInv, FoundInv, TypeInv, TypeOK, SwitchesVerified, Gens, NoGen
        <5> QED BY <3>2, <4>2, <5>1 DEF EsOn, At, Activating
      <4>3. CASE PgSwitch
        <5>1. on'["es"][S] = on["es"][S]
          BY <1>0, <3>2, <4>3 DEF PgSwitch
        <5>2. on["es"][S] = IF op.failing THEN Before ELSE {op.gen}
          BY <1>0, <3>2, <4>3 DEF PgSwitch, AgreeInv, PublishedOK, WholeOK, SwitchOK, Whole, At, Es
        <5> QED BY <5>1, <5>2
      <4> QED BY <1>5, <4>1, <4>2, <4>3
    <3> QED BY <2>2, <2>5, <3>3 DEF SightOK, Finishing, Dropping, Es, S, Before, At
  <2>6. CASE step = "backOff" /\ S \in torn'
    BY <2>2, <2>6 DEF SightOK, Finishing, Dropping, S, Whole, At
  <2> QED BY <2>4, <2>5, <2>6
<1>6. CASE BackOff \/ BackOn
  <2>1. op' = Raise \/ op' = [op EXCEPT !.pc = "backOn"]
    BY <1>6 DEF BackOff, BackOn
  <2>2. op' = [op EXCEPT !.pc = "backOn"] => op'.pc = "backOn"
    BY <1>0 DEF Op
  <2> QED BY <1>0, <2>1, <2>2, RaiseElsewhere, SightElsewhere DEF Dropping
<1>7. CASE DropEs \/ DropPg
  <2>1. op' = Ended \/ (Goto("dropPg") /\ DropEs)
    BY <1>7 DEF DropEs, DropPg, Goto
  <2>2. CASE Goto("dropPg") /\ DropEs
    <3>1. /\ op'.pc = "dropPg" /\ op'.source = op.source /\ op'.gen = op.gen /\ op'.failing = op.failing
      BY <1>0, <2>2, GoesOn DEF Carried
    <3>2. S \in Sources /\ op.gen # op.old /\ op.pc \in Dropping
      BY <1>0, <2>2, DroppingHas DEF DropEs, At, Dropping
    <3>3. ~op.failing => on'["es"][S] = {op.gen} /\ on'["pg"][S] = {op.gen}
      BY <1>0, <2>2, <3>2 DEF DropEs, Delete, Dropped, SightOK, Finishing, Es, Pg
    <3> QED BY <3>1, <3>3 DEF SightOK, Finishing, Es, Pg, S, At
  <2> QED BY <1>0, <2>1, <2>2, RaiseElsewhere, SightElsewhere
<1>8. CASE WriteRaw
  <2>1. CASE op' \in {Ended, Raise}
    BY <1>0, <2>1, RaiseElsewhere, SightElsewhere
  <2>2. CASE op' = [op EXCEPT !.pc = "dropEs"]
    <3>1. op'.pc = "dropEs" /\ op'.source = op.source /\ op'.gen = op.gen /\ on' = on
      BY <1>0, <1>8, <2>2 DEF Op, WriteRaw
    <3>2. Es = {op.gen} /\ Pg = {op.gen}
      BY <1>0, <1>8, WritingHas DEF WriteRaw, At, Writing
    <3> QED BY <3>1, <3>2 DEF SightOK, Es, Pg, S, At
  <2> QED BY <1>8, <2>1, <2>2 DEF WriteRaw
<1>9. CASE RestoreFiles
  <2>1. CASE op' \in {Ended, EndedFailing}
    BY <1>0, <2>1, RaiseElsewhere, SightElsewhere
  <2>2. CASE op' = [op EXCEPT !.pc = "dropEs"]
    <3>1. op'.pc = "dropEs" /\ op'.failing
      BY <1>0, <1>9, <2>2 DEF Op, RestoreFiles, AgreeInv, GenOK
    <3> QED BY <3>1 DEF SightOK, Finishing, At
  <2>3. CASE /\ op' = [op EXCEPT !.pc = "esOff", !.target = op.old, !.prev = Searched]
             /\ op.undo = "switch" /\ torn' = torn
    <3>1. op'.pc = "esOff" /\ op'.source = op.source /\ op'.snap = op.snap /\ op'.gen = op.gen /\ on' = on
      BY <1>0, <1>9, <2>3 DEF Op, RestoreFiles
    <3>2. Whole => Es = {op.gen}
      BY <1>0, <1>9, <2>3 DEF RestoreFiles, AgreeInv, WholeOK, UndoOK
    <3> QED BY <2>3, <3>1, <3>2 DEF SightOK, Finishing, Dropping, Es, Pg, S, Whole, Before, At
  <2> QED BY <1>9, <2>1, <2>2, <2>3 DEF RestoreFiles
<1>10. CASE DeleteEs \/ DeletePg
  <2>1. op' \in {NoOp, Raise} \/ (Goto("delPg") /\ DeleteEs)
    BY <1>10 DEF DeleteEs, DeletePg, Goto
  <2>2. CASE Goto("delPg") /\ DeleteEs
    <3>1. op'.pc = "delPg" /\ op'.source = op.source /\ op'.snap = op.snap
      BY <1>0, <2>2, GoesOn DEF Carried
    <3>2. S \in Sources /\ (S \notin torn => Pg = Before) /\ torn \subseteq torn'
      BY <1>0, <2>2, RemovingHas DEF DeleteEs, At, Removing, TearIf, Tear
    <3>3. on'["pg"][S] = on["pg"][S]
      BY <1>0, <2>2, <3>2 DEF DeleteEs, Delete
    <3> QED BY <3>1, <3>2, <3>3 DEF SightOK, Finishing, Dropping, Pg, S, Whole, Before, At
  <2> QED BY <1>0, <2>1, <2>2, RaiseElsewhere, SightElsewhere
<1> QED BY <1>1, <1>2, <1>3, <1>4, <1>5, <1>6, <1>7, <1>8, <1>9, <1>10 DEF Next, IndexStep

-----------------------------------------------------------------------------
(* What is found, by what the generations were made of.                    *)

LEMMA FoundType ==
  ASSUME FoundInv
  PROVE  /\ on \in [Stores -> [Sources -> SUBSET Gens]] /\ made \in Seq([source : Sources, doc : Docs])
         /\ \A store \in Stores : \A t \in Sources : \A g \in on[store][t] : g \in verified
         /\ Found = [store \in Stores |-> [t \in Sources |-> {made[g].doc : g \in on[store][t]}]]
<1>1. \A store \in Stores : \A t \in Sources : \A g \in on[store][t] : g \in verified
  BY DEF FoundInv, OnlyVerifiedFound
<1> QED BY <1>1 DEF FoundInv, TypeInv, TypeOK, Found

LEMMA SeqElement == \A R : \A s \in Seq(R) : \A i \in 1 .. Len(s) : s[i] \in R
OBVIOUS

LEMMA MadeType ==
  ASSUME made \in Seq([source : Sources, doc : Docs]), NEW g \in 1 .. Len(made)
  PROVE  made[g].doc \in Docs
<1>1. made[g] \in [source : Sources, doc : Docs]
  BY SeqElement
<1> QED BY <1>1

LEMMA FoundTyped ==
  ASSUME AgreeInv
  PROVE  Found \in [Stores -> [Sources -> SUBSET Docs]]
<1>1. FoundInv /\ verified \subseteq 1 .. Len(made)
  BY DEF AgreeInv, GenOK
<1>2. ASSUME NEW store \in Stores, NEW t \in Sources, NEW g \in on[store][t]
      PROVE  made[g].doc \in Docs
  <2>1. g \in 1 .. Len(made) /\ made \in Seq([source : Sources, doc : Docs])
    BY <1>1, FoundType
  <2> QED BY <2>1, MadeType
<1>3. \A store \in Stores : \A t \in Sources : {made[g].doc : g \in on[store][t]} \in SUBSET Docs
  BY <1>2
<1> QED BY <1>3 DEF Found

(* Generations that were made stay what they were made of.                 *)
LEMMA FoundStill ==
  ASSUME AgreeInv, made' = made \/ \E m : made' = Append(made, m),
         NEW store \in Stores, NEW t \in Sources, on'[store][t] = on[store][t]
  PROVE  Found'[store][t] = Found[store][t]
<1>1. FoundInv /\ verified \subseteq 1 .. Len(made)
  BY DEF AgreeInv, GenOK
<1>2. ASSUME NEW g \in on[store][t] PROVE made'[g] = made[g]
  <2>1. g \in 1 .. Len(made) /\ made \in Seq([source : Sources, doc : Docs])
    BY <1>1, FoundType
  <2>2. ASSUME NEW m PROVE Append(made, m)[g] = made[g]
    BY <2>1
  <2> QED BY <2>2
<1>3. {made'[g].doc : g \in on'[store][t]} = {made[g].doc : g \in on[store][t]}
  BY <1>2
<1> QED BY <1>3 DEF Found

LEMMA FoundOf ==
  ASSUME NEW store \in Stores, NEW t \in Sources
  PROVE  Found[store][t] = {made[g].doc : g \in on[store][t]}
BY DEF Found

(* A source whose files and stores agree is found as its files have it.    *)
LEMMA AgreedFound ==
  ASSUME AgreeInv, NEW t \in Sources, Agree(t), NEW store \in Stores
  PROVE  Found[store][t] = Promise!Copies(files.chunks[t])
<1>1. Found[store][t] = {made[g].doc : g \in Wanted(files, t)}
  BY FoundOf DEF Agree
<1>2. CASE files.state[t] = Nothing
  BY <1>1, <1>2 DEF Agree, Filed, Wanted, Promise!Copies
<1>3. CASE files.state[t] # Nothing
  <2>1. files.chunks[t] = made[files.state[t].gen].doc /\ files.state[t].gen \in 1 .. Len(made)
    BY <1>3 DEF Agree, Filed
  <2>2. made[files.state[t].gen].doc \in Docs
    BY <2>1, MadeType DEF AgreeInv, FoundInv, TypeInv, TypeOK
  <2>3. files.chunks[t] # Nothing
    BY <2>1, <2>2, ValuesAssumption
  <2>4. Found[store][t] = {files.chunks[t]}
    BY <1>1, <1>3, <2>1 DEF Wanted
  <2> QED BY <2>3, <2>4 DEF Promise!Copies
<1> QED BY <1>2, <1>3

(* While a whole source is worked on, the old or the new is found.         *)
LEMMA OldOrNew ==
  ASSUME CorpusInv, Working, S \notin torn, NEW store \in Stores
  PROVE  Found[store][S] \subseteq {op.snap.chunks[S], Wish}
<1>0. /\ AgreeInv /\ SightOK /\ op \in Op /\ ~AtRest /\ ~Finishing /\ WholeOK /\ GenOK /\ Whole
      /\ PublishedOK /\ RemovedOK
  BY DEF CorpusInv, AgreeInv, FoundInv, TypeInv, TypeOK, Working, WholeOK, Whole
<1>1. EarlyOK /\ SwitchOK /\ UndoOK
  BY <1>0 DEF WholeOK
<1>2. op.pc \in Publishing \cup Removing \cup {"restore"} /\ S \in Sources
  BY <1>0, RestOrNot DEF AgreeInv, FoundInv, TypeInv, WellFormed
<1>3. \A g \in Before : made[g].doc = op.snap.chunks[S]
  BY <1>0, <1>1 DEF EarlyOK, Filed, Before, Wanted
<1>4. CASE IsPublication
  <2>1. op.kind # "trash"
    BY <1>0, <1>4 DEF AgreeInv, FoundInv, TypeInv, WellFormed, Publications
  <2>2. CASE At("embed")
    <3>1. on[store][S] = Before
      BY <1>1, <2>2 DEF EarlyOK, Early, Es, Pg, At, Stores
    <3> QED BY <1>2, <1>3, <3>1, FoundOf
  <2>3. CASE ~At("embed")
    <3>1. made[op.gen].doc = Wish
      BY <1>0, <1>4, <2>1, <2>3 DEF GenOK, Wish
    <3>2. Es \subseteq Before \cup {op.gen} /\ Pg \subseteq Before \cup {op.gen}
      <4>1. CASE op.pc \in Early
        BY <1>1, <4>1 DEF EarlyOK
      <4>2. CASE op.pc \in Switching
        <5>1. op.pc \in {"esOn", "backOn"} => Es = {}
          BY <1>0 DEF AgreeInv, FoundInv, SwitchesVerified, Es
        <5> QED BY <1>0, <1>1, <4>2, <5>1 DEF SwitchOK, PublishedOK, SightOK, Switching, At
      <4>3. CASE op.pc \in Writing
        BY <1>0, <4>3 DEF PublishedOK
      <4>4. CASE op.pc \in Dropping \cup {"restore"}
        <5>1. op.pc \in Dropping => op.failing
          BY <1>0 DEF Finishing
        <5>2. At("restore") => op.undo \in {"nothing", "drop", "switch"}
          BY <1>0 DEF Op, Undos
        <5>3. op.pc \in Dropping => Es \ {op.gen} \subseteq Before /\ Pg \ {op.gen} \subseteq Before
          BY <1>1, <5>1 DEF UndoOK, At, Dropping
        <5>4. At("restore") => Es \ {op.gen} \subseteq Before /\ Pg \ {op.gen} \subseteq Before
          BY <1>1, <5>2 DEF UndoOK
        <5> QED BY <4>4, <5>3, <5>4 DEF At
      <4> QED BY <1>2, <1>4, <4>1, <4>2, <4>3, <4>4 DEF IsPublication, Publishing, Early, Switching, Writing, Dropping, At
    <3>3. on[store][S] \subseteq Before \cup {op.gen}
      BY <3>2 DEF Es, Pg, Stores
    <3> QED BY <1>2, <1>3, <3>1, <3>3, FoundOf
  <2> QED BY <2>2, <2>3
<1>5. CASE ~IsPublication
  <2>1. on[store][S] \subseteq Before
    <3>1. CASE At("restore")
      <4>1. op.undo = "nothing"
        BY <1>0, <1>5, <3>1 DEF IsPublication, AgreeInv, FoundInv, TypeInv, WellFormed
      <4> QED BY <1>1, <3>1, <4>1 DEF UndoOK, Es, Pg, Stores
    <3>2. CASE op.pc \in Removing
      BY <1>0, <1>1, <3>2 DEF UndoOK, RemovedOK, SightOK, Removing, At, Es, Pg, Stores
    <3> QED BY <1>2, <1>5, <3>1, <3>2 DEF IsPublication, At
  <2> QED BY <1>2, <1>3, <2>1, FoundOf
<1> QED BY <1>4, <1>5

(* All of this, in one state and in the next.                              *)
Seen ==
  /\ Found \in [Stores -> [Sources -> SUBSET Docs]]
  /\ \A t \in Sources : \A store \in Stores :
       Agree(t) => Found[store][t] = Promise!Copies(files.chunks[t])
  /\ Working => \A t \in Sources : t = S /\ t \notin torn =>
       \A store \in Stores : Found[store][t] \subseteq {op.snap.chunks[t], Wish}

LEMMA SeenNow == CorpusInv => Seen
BY FoundTyped, AgreedFound, OldOrNew DEF CorpusInv, Seen

LEMMA SeenNext == CorpusInv' => Seen'
BY SeenNow, PTL

LEMMA FoundAfter ==
  ASSUME CorpusInv'
  PROVE  /\ Found' \in [Stores -> [Sources -> SUBSET Docs]]
         /\ \A t \in Sources : \A store \in Stores :
              Agree(t)' => Found'[store][t] = Promise!Copies(files'.chunks[t])
         /\ Working' => \A t \in Sources : t = S' /\ t \notin torn' =>
              \A store \in Stores : Found'[store][t] \subseteq {op'.snap.chunks[t], Wish'}
BY SeenNext DEF Seen, Promise!Copies

(* What every step of an operation keeps of the other sources, the sources *)
(* it breaks being ts.                                                     *)
OthersFound(ts) ==
  /\ made' = made \/ \E m : made' = Append(made, m)
  /\ \A store \in Stores : \A t \in Sources : t # S => on'[store][t] = on[store][t]
  /\ torn' = torn \cup ts
  /\ \A t \in Sources : t # S /\ t \notin torn' => files'.chunks[t] = files.chunks[t]

LEMMA WorkingType ==
  ASSUME AgreeInv, Working
  PROVE  op \in Op /\ S \in Sources /\ UnderWay = [source |-> S, doc |-> Wish] /\ UnderWay # Promise!Free
<1>1. op \in Op /\ S \in Sources
  BY RestOrNot DEF AgreeInv, FoundInv, TypeInv, TypeOK, WellFormed, Working
<1>2. S # Nothing
  BY <1>1, ValuesAssumption
<1>3. UnderWay = [source |-> S, doc |-> Wish]
  BY DEF UnderWay
<1> QED BY <1>1, <1>2, <1>3 DEF Promise!Free

LEMMA OthersSeen ==
  ASSUME CorpusInv, CorpusInv', Working, OthersFound({}) \/ OthersFound({S}) \/ OthersFound(Sources)
  PROVE  Promise!AtWork
<1>1. AgreeInv /\ UnderWay # Promise!Free /\ UnderWay.source = S
  BY WorkingType DEF CorpusInv
<1>2. \A store \in Stores : \A t \in Sources \ {S} : Found'[store][t] = Found[store][t]
  BY <1>1, FoundStill DEF OthersFound
<1> QED BY <1>1, <1>2, FoundAfter DEF Promise!AtWork

(* The operation goes on with the same work.                               *)
SameWork == op'.kind = op.kind /\ op'.source = op.source /\ op'.doc = op.doc /\ op'.snap = op.snap

(* A step of the operation under way that commits nothing.                 *)
LEMMA StillBusy ==
  ASSUME CorpusInv, CorpusInv', Working, Working', SameWork,
         NEW ts \in {{}, {S}, Sources}, OthersFound(ts)
  PROVE  Promise!Next
<1>1. /\ op \in Op /\ S \in Sources /\ UnderWay = [source |-> S, doc |-> Wish]
      /\ Promise!AtWork /\ S' = S /\ Wish' = Wish /\ UnderWay' = UnderWay
      /\ torn' = torn \cup ts
  BY WorkingType, OthersSeen DEF CorpusInv, SameWork, S, Wish, UnderWay, OthersFound
<1>2. InCorpus = [t \in Sources |-> IF t \in torn THEN Nothing
                                    ELSE IF t = S THEN op.snap.chunks[t] ELSE files.chunks[t]]
  BY DEF InCorpus
<1>3. InCorpus' = [t \in Sources |-> IF t \in torn' THEN Nothing
                                     ELSE IF t = S THEN op.snap.chunks[t] ELSE files'.chunks[t]]
  BY <1>1 DEF InCorpus, SameWork
<1>4. InCorpus' = [t \in Sources |-> IF t \in ts THEN Nothing ELSE InCorpus[t]]
  BY <1>1, <1>2, <1>3 DEF OthersFound
<1>5. CASE ts = {}
  <2>1. InCorpus' = InCorpus /\ torn' = torn
    BY <1>1, <1>2, <1>4, <1>5
  <2>2. S \notin torn => \A store \in Stores : Found'[store][S] \subseteq {InCorpus[S], Wish}
    <3>1. ASSUME NEW t \in Sources, t = S, t \notin torn, NEW store \in Stores
          PROVE  Found'[store][t] \subseteq {InCorpus[t], Wish}
      <4>1. Found'[store][t] \subseteq {op'.snap.chunks[t], Wish'}
        BY <1>1, <2>1, <3>1, FoundAfter
      <4> QED BY <1>1, <1>2, <3>1, <4>1 DEF SameWork
    <3> QED BY <1>1, <3>1
  <2>3. Promise!Switch
    BY <1>1, <2>1, <2>2 DEF Promise!Switch
  <2> QED BY <2>3 DEF Promise!Next
<1>6. CASE ts # {}
  <2>1. ts \in {{UnderWay.source}, Sources} /\ UnderWay.source \in ts
    BY <1>1, <1>6
  <2>2. Promise!Break(ts)
    BY <1>1, <1>4, <2>1 DEF Promise!Break
  <2> QED BY <2>1, <2>2 DEF Promise!Next
<1> QED BY <1>5, <1>6

(* No source is worked on: the files and the stores agree.                 *)
AllAgree == ~Working => \A t \in Sources \ torn : Agree(t)

LEMMA AllAgreeNow == CorpusInv => AllAgree
<1> SUFFICES ASSUME CorpusInv, ~Working, NEW t \in Sources \ torn PROVE Agree(t)
  BY DEF AllAgree
<1>1. CASE AtRest \/ t # S
  BY <1>1 DEF CorpusInv, AgreeInv, OthersAgree
<1>2. CASE ~AtRest /\ t = S
  BY <1>2, DroppingHas DEF CorpusInv, Working, Finishing
<1> QED BY <1>1, <1>2

LEMMA AllAgreeNext == CorpusInv' => AllAgree'
BY AllAgreeNow, PTL

(* The operation ends without a commit.                                    *)
LEMMA EndsGivenUp ==
  ASSUME CorpusInv, CorpusInv', Working, ~Working',
         NEW ts \in {{}, {S}, Sources}, OthersFound(ts),
         S \notin torn' => files'.chunks[S] = op.snap.chunks[S]
  PROVE  Promise!Next
<1>1. /\ op \in Op /\ S \in Sources /\ UnderWay = [source |-> S, doc |-> Wish]
      /\ Promise!AtWork /\ UnderWay' = Promise!Free /\ torn' = torn \cup ts
  BY WorkingType, OthersSeen DEF CorpusInv, UnderWay, OthersFound, Promise!Free
<1>2. InCorpus = [t \in Sources |-> IF t \in torn THEN Nothing
                                    ELSE IF t = S THEN op.snap.chunks[t] ELSE files.chunks[t]]
  BY DEF InCorpus
<1>3. InCorpus' = [t \in Sources |-> IF t \in torn' THEN Nothing ELSE files'.chunks[t]]
  BY DEF InCorpus
<1>4. InCorpus' = [t \in Sources |-> IF t \in ts THEN Nothing ELSE InCorpus[t]]
  BY <1>1, <1>2, <1>3 DEF OthersFound
<1>5. CASE ts = {}
  <2>1. InCorpus' = InCorpus /\ torn' = torn
    BY <1>1, <1>2, <1>4, <1>5
  <2>2. S \notin torn => \A store \in Stores : Found'[store][S] = Promise!Copies(InCorpus[S])
    <3>1. ASSUME NEW t \in Sources, t = S, t \notin torn, NEW store \in Stores
          PROVE  Found'[store][t] = Promise!Copies(InCorpus[t])
      <4>1. Agree(t)'
        BY <2>1, <3>1, AllAgreeNext DEF AllAgree
      <4>2. Found'[store][t] = Promise!Copies(files'.chunks[t])
        BY <3>1, <4>1, FoundAfter
      <4>3. files'.chunks[t] = InCorpus[t]
        BY <1>2, <2>1, <3>1
      <4> QED BY <4>2, <4>3
    <3> QED BY <1>1, <3>1
  <2>3. Promise!GiveUp
    BY <1>1, <2>1, <2>2 DEF Promise!GiveUp
  <2> QED BY <2>3 DEF Promise!Next
<1>6. CASE ts # {}
  <2>1. ts \in {{UnderWay.source}, Sources} /\ UnderWay.source \in ts
    BY <1>1, <1>6
  <2>2. Promise!Break(ts)
    BY <1>1, <1>4, <2>1 DEF Promise!Break
  <2> QED BY <2>1, <2>2 DEF Promise!Next
<1> QED BY <1>5, <1>6

(* The new document is found, and its files say so.                        *)
LEMMA Commits ==
  ASSUME CorpusInv, CorpusInv', Working, ~Working', torn' = torn \ {S}, made' = made,
         \A store \in Stores : \A t \in Sources : t # S => on'[store][t] = on[store][t],
         \A t \in Sources : t # S /\ t \notin torn' => files'.chunks[t] = files.chunks[t],
         files'.chunks[S] = Wish
  PROVE  Promise!Next
<1>1. /\ op \in Op /\ S \in Sources /\ UnderWay = [source |-> S, doc |-> Wish]
      /\ UnderWay # Promise!Free /\ UnderWay' = Promise!Free
  BY WorkingType DEF CorpusInv, UnderWay, Promise!Free
<1>2. Promise!AtWork
  <2>1. \A store \in Stores : \A t \in Sources \ {S} : Found'[store][t] = Found[store][t]
    BY FoundStill DEF CorpusInv
  <2> QED BY <1>1, <2>1, FoundAfter DEF Promise!AtWork
<1>3. InCorpus' = [InCorpus EXCEPT ![S] = Wish]
  <2>1. InCorpus = [t \in Sources |-> IF t \in torn THEN Nothing
                                      ELSE IF t = S THEN op.snap.chunks[t] ELSE files.chunks[t]]
    BY DEF InCorpus
  <2>2. InCorpus' = [t \in Sources |-> IF t \in torn' THEN Nothing ELSE files'.chunks[t]]
    BY DEF InCorpus
  <2> QED BY <1>1, <2>1, <2>2
<1>4. \A store \in Stores : Found'[store][S] = Promise!Copies(Wish)
  <2>1. \A t \in Sources \ torn' : Agree(t)'
    BY AllAgreeNext DEF AllAgree
  <2>2. S \in Sources \ torn'
    BY <1>1
  <2>3. ASSUME NEW t \in Sources \ torn', t = S, NEW store \in Stores
        PROVE  Found'[store][t] = Promise!Copies(Wish)
    BY <2>1, <2>3, FoundAfter
  <2> QED BY <2>2, <2>3
<1>5. Promise!Commit
  BY <1>1, <1>2, <1>3, <1>4 DEF Promise!Commit
<1> QED BY <1>5 DEF Promise!Next

-----------------------------------------------------------------------------
(* Action by action.                                                       *)

(* What a step that commits nothing has to keep.                           *)
Bears(ts) ==
  /\ OthersFound(ts)
  /\ Working' => SameWork
  /\ ~Working' /\ S \notin torn' => files'.chunks[S] = op.snap.chunks[S]

LEMMA BearsOut ==
  ASSUME CorpusInv, CorpusInv', Working, NEW ts \in {{}, {S}, Sources}, Bears(ts)
  PROVE  Promise!Next
BY StillBusy, EndsGivenUp DEF Bears

LEMMA GoesWorking ==
  ASSUME op \in Op, NEW step,
         step \notin Dropping \cup {"idle", "unarchive"} \/ (op.failing /\ step \in Dropping),
         \/ Goto(step) \/ op' = [op EXCEPT !.pc = step, !.gen = Len(made) + 1]
         \/ op' = [op EXCEPT !.pc = step, !.target = op.gen, !.prev = Searched, !.old = Searched]
         \/ op' = [op EXCEPT !.pc = step, !.target = op.old, !.prev = Searched]
  PROVE  Working' /\ SameWork
<1>1. op'.pc = step /\ op'.failing = op.failing /\ SameWork
  <2>1. CASE Goto(step)
    BY <2>1 DEF Goto, Op, SameWork
  <2>2. CASE op' = [op EXCEPT !.pc = step, !.gen = Len(made) + 1]
    BY <2>2 DEF Op, SameWork
  <2>3. CASE op' = [op EXCEPT !.pc = step, !.target = op.gen, !.prev = Searched, !.old = Searched]
    BY <2>3 DEF Op, SameWork
  <2>4. CASE op' = [op EXCEPT !.pc = step, !.target = op.old, !.prev = Searched]
    BY <2>4 DEF Op, SameWork
  <2> QED BY <2>1, <2>2, <2>3, <2>4
<1> QED BY <1>1 DEF Working, AtRest, Finishing, Dropping

LEMMA RaiseWorks ==
  ASSUME op \in Op, op' = Raise
  PROVE  /\ ~op.failing => Working' /\ SameWork
         /\ op.failing => AtRest'
<1>1. ~op.failing => op'.pc = "restore" /\ SameWork
  BY RaisesFirst DEF Carried, SameWork
<1> QED BY <1>1, EndsAtRest DEF Working, AtRest, Finishing, Dropping

LEMMA RestsNot ==
  ASSUME AtRest'
  PROVE  ~Working'
BY DEF Working

LEMMA StagingBears ==
  ASSUME CorpusInv, EmbedEnds \/ StagePg \/ StageEs \/ Verify
  PROVE  Working /\ Bears({})
<1>1. /\ op.pc \in Early /\ AgreeInv /\ op \in Op /\ ~op.failing /\ SameFiles(S)
      /\ files' = files /\ on' = on /\ torn' = torn
  BY DEF EmbedEnds, StagePg, StageEs, Stage, Verify, At, Early, CorpusInv, AgreeInv, FoundInv, TypeInv,
     TypeOK, GenOK, FilesOK
<1>2. Working
  BY <1>1 DEF Working, AtRest, Finishing, Early, Dropping
<1>3. OthersFound({})
  BY <1>1 DEF OthersFound, EmbedEnds, StagePg, StageEs, Stage, Verify
<1>4. \/ op' = NoOp \/ op' = Raise
      \/ op' = [op EXCEPT !.pc = "stagePg", !.gen = Len(made) + 1]
      \/ \E step \in {"stageEs", "verify"} : Goto(step)
      \/ op' = [op EXCEPT !.pc = "esOff", !.target = op.gen, !.prev = Searched, !.old = Searched]
  BY DEF EmbedEnds, StagePg, StageEs, Stage, Verify, Goto
<1>5. (Working' /\ SameWork) \/ AtRest'
  <2>1. CASE op' = NoOp
    BY <1>1, <2>1, EndsAtRest
  <2>2. CASE op' = Raise
    BY <1>1, <2>2, RaiseWorks
  <2>3. CASE ~(op' = NoOp \/ op' = Raise)
    <3>1. PICK step \in {"stagePg", "stageEs", "verify", "esOff"} :
            \/ Goto(step) \/ op' = [op EXCEPT !.pc = step, !.gen = Len(made) + 1]
            \/ op' = [op EXCEPT !.pc = step, !.target = op.gen, !.prev = Searched, !.old = Searched]
      BY <1>4, <2>3
    <3>2. step \notin Dropping \cup {"idle", "unarchive"}
      BY <3>1 DEF Dropping
    <3> QED BY <1>1, <3>1, <3>2, GoesWorking
  <2> QED BY <2>1, <2>2, <2>3
<1>6. files'.chunks[S] = op.snap.chunks[S]
  BY <1>1 DEF SameFiles
<1> QED BY <1>2, <1>3, <1>5, <1>6, RestsNot DEF Bears

LEMMA SwitchingBears ==
  ASSUME CorpusInv, EsOff \/ EsOn \/ PgSwitch \/ BackOff \/ BackOn
  PROVE  Working /\ \E ts \in {{}, {S}, Sources} : Bears(ts)
<1>1. op.pc \in Switching /\ AgreeInv /\ files' = files /\ made' = made
  BY DEF EsOff, EsOn, PgSwitch, BackOff, BackOn, At, Switching, CorpusInv
<1>2. /\ op \in Op /\ Working /\ SameFiles(S) /\ S \in Sources
      /\ on \in [Stores -> [Sources -> SUBSET Gens]] /\ "es" \in Stores /\ "pg" \in Stores
  BY <1>1, SwitchingHas DEF Working
<1>3. PICK ts \in {{}, {S}} : torn' = torn \cup ts
  BY DEF EsOff, EsOn, PgSwitch, BackOff, BackOn, TearIf, Tear
<1>4. \A store \in Stores : \A t \in Sources : t # S => on'[store][t] = on[store][t]
  BY <1>2 DEF EsOff, EsOn, PgSwitch, BackOff, BackOn
<1>5. (Working' /\ SameWork) \/ AtRest'
  <2>1. CASE op' = Raise
    BY <1>2, <2>1, RaiseWorks
  <2>2. CASE op' # Raise
    <3>1. PICK step \in {"esOn", "pgSwitch", "backOff", "backOn", "manifest"} \cup {"dropEs"} :
            Goto(step) /\ (step = "dropEs" => op.failing)
      BY <2>2 DEF EsOff, EsOn, PgSwitch, BackOff, BackOn, Goto
    <3> QED BY <1>2, <3>1, GoesWorking DEF Dropping
  <2> QED BY <2>1, <2>2
<1>6. files'.chunks[S] = op.snap.chunks[S]
  BY <1>1, <1>2 DEF SameFiles
<1>7. OthersFound(ts)
  BY <1>1, <1>3, <1>4 DEF OthersFound
<1> QED BY <1>2, <1>3, <1>5, <1>6, <1>7, RestsNot DEF Bears

LEMMA DroppingBears ==
  ASSUME CorpusInv, Working, DropEs \/ DropPg
  PROVE  \E ts \in {{}, {S}, Sources} : Bears(ts)
<1>1. op.pc \in Dropping /\ AgreeInv /\ files' = files /\ made' = made
  BY DEF DropEs, DropPg, At, Dropping, CorpusInv
<1>2. /\ op \in Op /\ op.failing /\ SameFiles(S) /\ S \in Sources
      /\ on \in [Stores -> [Sources -> SUBSET Gens]] /\ "es" \in Stores /\ "pg" \in Stores
  BY <1>1, DroppingHas DEF Working
<1>3. PICK ts \in {{}, {S}} : torn' = torn \cup ts
  BY DEF DropEs, DropPg, TearIf, Tear
<1>4. \A store \in Stores : \A t \in Sources : t # S => on'[store][t] = on[store][t]
  BY <1>2 DEF DropEs, DropPg, Delete
<1>5. (Working' /\ SameWork) \/ AtRest'
  <2>1. op' = Ended \/ Goto("dropPg")
    BY DEF DropEs, DropPg, Goto
  <2>2. CASE op' = Ended
    BY <1>2, <2>2, EndsAtRest
  <2>3. CASE Goto("dropPg")
    BY <1>2, <2>3, GoesWorking DEF Dropping
  <2> QED BY <2>1, <2>2, <2>3
<1>6. files'.chunks[S] = op.snap.chunks[S]
  BY <1>1, <1>2 DEF SameFiles
<1>7. OthersFound(ts)
  BY <1>1, <1>3, <1>4 DEF OthersFound
<1> QED BY <1>3, <1>5, <1>6, <1>7, RestsNot DEF Bears

LEMMA FilingBears ==
  ASSUME CorpusInv,
         \/ WriteManifest \/ WriteChunks \/ WriteState
         \/ RemoveManifest \/ RemoveChunks \/ RemoveState \/ RemoveRaw
  PROVE  Working /\ Bears({})
<1>1. op.pc \in Writing \cup Removing /\ AgreeInv /\ made' = made /\ torn' = torn /\ on' = on
  BY DEF WriteManifest, WriteChunks, WriteState, RemoveManifest, RemoveChunks, RemoveState, RemoveRaw,
     FileStep, At, Writing, Removing, CorpusInv
<1>2. op \in Op /\ Working /\ ~op.failing /\ files \in Files /\ S \in Sources
  BY <1>1, WritingHas, RemovingHas DEF Working
<1>3. \A t \in Sources : t # S => files'.chunks[t] = files.chunks[t]
  BY <1>2 DEF WriteManifest, WriteChunks, WriteState, RemoveManifest, RemoveChunks, RemoveState,
     RemoveRaw, FileStep, Files
<1>4. Working' /\ SameWork
  <2>1. CASE op' = Raise
    BY <1>2, <2>1, RaiseWorks
  <2>2. CASE op' # Raise
    <3>1. PICK step \in {"chunks", "state", "raw", "rmChunks", "rmState", "rmRaw", "delEs"} : Goto(step)
      BY <2>2 DEF WriteManifest, WriteChunks, WriteState, RemoveManifest, RemoveChunks, RemoveState,
         RemoveRaw, FileStep
    <3>2. step \notin Dropping \cup {"idle", "unarchive"}
      BY <3>1 DEF Dropping
    <3> QED BY <1>2, <3>1, <3>2, GoesWorking
  <2> QED BY <2>1, <2>2
<1>5. OthersFound({})
  BY <1>1, <1>3 DEF OthersFound
<1> QED BY <1>2, <1>4, <1>5 DEF Bears

LEMMA RestoringBears ==
  ASSUME CorpusInv, RestoreFiles
  PROVE  Working /\ \E ts \in {{}, {S}, Sources} : Bears(ts)
<1>1. /\ At("restore") /\ AgreeInv /\ made' = made /\ on' = on /\ op \in Op /\ op.failing
      /\ \A t \in Sources : t # S => SameFiles(t)
  BY DEF RestoreFiles, CorpusInv, AgreeInv, FoundInv, TypeInv, TypeOK, GenOK, FilesOK, At, AtRest
<1>2. Working
  BY <1>1 DEF Working, At, AtRest, Finishing, Dropping
<1>3. CASE /\ files' = op.snap /\ torn' = torn
           /\ op' = CASE op.undo = "switch" -> [op EXCEPT !.pc = "esOff", !.target = op.old, !.prev = Searched]
                      [] op.undo = "drop" -> [op EXCEPT !.pc = "dropEs"]
                      [] OTHER -> Ended
  <2>1. (Working' /\ SameWork) \/ AtRest'
    <3>1. CASE op.undo = "switch"
      <4>1. op' = [op EXCEPT !.pc = "esOff", !.target = op.old, !.prev = Searched]
        BY <1>3, <3>1
      <4>2. "esOff" \notin Dropping \cup {"idle", "unarchive"}
        BY DEF Dropping
      <4> QED BY <1>1, <4>1, <4>2, GoesWorking
    <3>2. CASE op.undo = "drop"
      <4>1. Goto("dropEs")
        BY <1>3, <3>2 DEF Goto
      <4> QED BY <1>1, <4>1, GoesWorking DEF Dropping
    <3>3. CASE op.undo \notin {"switch", "drop"}
      <4>1. op' = Ended
        BY <1>3, <3>3
      <4> QED BY <1>1, <4>1, EndsAtRest
    <3> QED BY <3>1, <3>2, <3>3
  <2>2. OthersFound({})
    BY <1>1, <1>3 DEF OthersFound, SameFiles
  <2> QED BY <1>2, <1>3, <2>1, <2>2, RestsNot DEF Bears
<1>4. CASE op' = EndedFailing /\ Tear(Sources)
  <2>1. AtRest' /\ torn' = torn \cup Sources /\ S \in Sources
    BY <1>1, <1>2, <1>4, EndsAtRest, WorkingType DEF Tear
  <2>2. OthersFound(Sources)
    BY <1>1, <2>1 DEF OthersFound
  <2> QED BY <1>2, <2>1, <2>2, RestsNot DEF Bears
<1> QED BY <1>3, <1>4 DEF RestoreFiles

LEMMA DyingBears ==
  ASSUME CorpusInv, Working, Die
  PROVE  \E ts \in {{}, {S}, Sources} : Bears(ts)
<1>1. /\ AgreeInv /\ made' = made /\ on' = on /\ op \in Op /\ AtRest' /\ S \in Sources
  BY EndsAtRest, WorkingType DEF Die, CorpusInv
<1>2. CASE files' = files /\ TearIf(HalfDone)
  <2>1. PICK ts \in {{}, {S}} : torn' = torn \cup ts /\ (HalfDone => ts = {S})
    BY <1>2 DEF TearIf, Tear
  <2>2. OthersFound(ts)
    BY <1>1, <1>2, <2>1 DEF OthersFound
  <2>3. ~HalfDone => SameFiles(S)
    <3>1. ~HalfDone => op.pc \in Early
      BY <1>1 DEF HalfDone, Touched, Op, Steps, Early, Working, AtRest, Finishing, Dropping, At
    <3> QED BY <1>1, <3>1 DEF AgreeInv, FilesOK
  <2>4. S \notin torn' => files'.chunks[S] = op.snap.chunks[S]
    BY <1>2, <2>1, <2>3 DEF SameFiles
  <2> QED BY <1>1, <2>1, <2>2, <2>4, RestsNot DEF Bears
<1>3. CASE Tear(Sources)
  <2>1. torn' = torn \cup Sources
    BY <1>3 DEF Tear
  <2>2. OthersFound(Sources)
    BY <1>1, <2>1 DEF OthersFound
  <2> QED BY <1>1, <2>1, <2>2, RestsNot DEF Bears
<1> QED BY <1>2, <1>3 DEF Die

LEMMA RemovedBears ==
  ASSUME CorpusInv, DeleteEs
  PROVE  Working /\ \E ts \in {{}, {S}, Sources} : Bears(ts)
<1>1. op.pc \in Removing /\ AgreeInv /\ made' = made /\ files' = files
  BY DEF DeleteEs, At, Removing, CorpusInv
<1>2. /\ op \in Op /\ Working /\ ~op.failing /\ S \in Sources
      /\ on \in [Stores -> [Sources -> SUBSET Gens]] /\ "es" \in Stores
  BY <1>1, RemovingHas DEF Working, Stores
<1>3. PICK ts \in {{}, {S}} : torn' = torn \cup ts
  BY DEF DeleteEs, TearIf, Tear
<1>4. \A store \in Stores : \A t \in Sources : t # S => on'[store][t] = on[store][t]
  BY <1>2 DEF DeleteEs, Delete
<1>5. Working' /\ SameWork
  <2>1. op' = Raise \/ Goto("delPg")
    BY DEF DeleteEs, Goto
  <2>2. "delPg" \notin Dropping \cup {"idle", "unarchive"}
    BY DEF Dropping
  <2> QED BY <1>2, <2>1, <2>2, RaiseWorks, GoesWorking
<1>6. OthersFound(ts)
  BY <1>1, <1>3, <1>4 DEF OthersFound
<1> QED BY <1>2, <1>3, <1>5, <1>6 DEF Bears

(* The last file of a publication.                                         *)
LEMMA WriteRawSeen ==
  ASSUME CorpusInv, CorpusInv', WriteRaw
  PROVE  Promise!Next
<1>1. At("raw") /\ op.pc \in Writing /\ AgreeInv /\ made' = made /\ on' = on
  BY DEF WriteRaw, At, Writing, CorpusInv
<1>2. /\ op \in Op /\ Working /\ ~op.failing /\ files \in Files /\ S \in Sources /\ op.kind # "trash"
      /\ files.chunks[S] = op.doc /\ Wish = op.doc
  BY <1>1, WritingHas DEF Working, AgreeInv, PublishedOK, At, Wish
<1>3. CASE op' = Raise /\ files' = files /\ torn' = torn
  <2>1. OthersFound({}) /\ Working' /\ SameWork
    BY <1>1, <1>2, <1>3, RaiseWorks DEF OthersFound
  <2> QED BY <1>2, <2>1, BearsOut DEF Bears
<1>4. CASE ~(op' = Raise /\ files' = files /\ torn' = torn)
  <2>1. /\ op' = IF op.old = NoGen THEN Ended ELSE [op EXCEPT !.pc = "dropEs"]
        /\ torn' = IF op.kind = "edit" THEN torn ELSE torn \ {S}
        /\ files'.chunks = files.chunks
    BY <1>2, <1>4 DEF WriteRaw, Files
  <2>2. ~Working'
    <3>1. CASE op.old = NoGen
      BY <1>2, <2>1, <3>1, EndsAtRest, RestsNot
    <3>2. CASE op.old # NoGen
      <4>1. op'.pc = "dropEs" /\ op'.failing = op.failing
        BY <1>2, <2>1, <3>2 DEF Op
      <4> QED BY <1>2, <4>1 DEF Working, Finishing, Dropping
    <3> QED BY <3>1, <3>2
  <2>3. CASE S \in torn'
    <3>1. OthersFound({})
      BY <1>1, <2>1, <2>3 DEF OthersFound
    <3> QED BY <1>2, <2>2, <2>3, <3>1, BearsOut DEF Bears
  <2>4. CASE S \notin torn'
    <3>1. torn' = torn \ {S}
      BY <2>1, <2>4
    <3> QED BY <1>1, <1>2, <2>1, <2>2, <3>1, Commits
  <2> QED BY <2>3, <2>4
<1> QED BY <1>3, <1>4

(* The last call of a removal.                                             *)
LEMMA DeletePgSeen ==
  ASSUME CorpusInv, CorpusInv', DeletePg
  PROVE  Promise!Next
<1>1. At("delPg") /\ op.pc \in Removing /\ AgreeInv /\ made' = made /\ files' = files
  BY DEF DeletePg, At, Removing, CorpusInv
<1>2. /\ op \in Op /\ Working /\ ~op.failing /\ S \in Sources /\ op.kind = "trash"
      /\ files.chunks[S] = Nothing /\ Wish = Nothing
      /\ on \in [Stores -> [Sources -> SUBSET Gens]] /\ "pg" \in Stores
  BY <1>1, RemovingHas DEF Working, AgreeInv, RemovedOK, At, Wish, Stores
<1>3. \A store \in Stores : \A t \in Sources : t # S => on'[store][t] = on[store][t]
  BY <1>2 DEF DeletePg, Delete
<1>4. CASE op' = Raise /\ Tear({S})
  <2>1. OthersFound({S}) /\ Working' /\ SameWork
    BY <1>1, <1>2, <1>3, <1>4, RaiseWorks DEF OthersFound, Tear
  <2> QED BY <1>2, <2>1, BearsOut DEF Bears
<1>5. CASE op' = NoOp /\ torn' = torn \ {S}
  <2>1. ~Working'
    BY <1>2, <1>5, EndsAtRest, RestsNot
  <2> QED BY <1>1, <1>2, <1>3, <1>5, <2>1, Commits
<1> QED BY <1>4, <1>5 DEF DeletePg

-----------------------------------------------------------------------------
(* No source is worked on.                                                 *)

(* A new operation takes the lock.                                         *)
LEMMA BeginSeen ==
  ASSUME CorpusInv, CorpusInv', ~Working, NEW t \in Sources, op'.source = t, op'.snap = files,
         op'.pc \in {"embed", "rmManifest"}, files'.chunks = files.chunks,
         on' = on, made' = made, torn' = torn
  PROVE  Promise!Next
<1>1. op' \in Op
  BY DEF CorpusInv, AgreeInv, FoundInv, TypeInv, TypeOK
<1>2. Working' /\ UnderWay = Promise!Free /\ UnderWay' = [source |-> t, doc |-> Wish']
  BY DEF Working, AtRest, Finishing, Dropping, UnderWay, Promise!Free, S
<1>3. Wish' \in Docs \cup {Nothing}
  BY <1>1 DEF Wish, Op
<1>4. InCorpus' = InCorpus /\ Found' = Found
  BY <1>2 DEF InCorpus, Found, S
<1>5. Promise!Begin(t, Wish')
  BY <1>2, <1>4 DEF Promise!Begin
<1> QED BY <1>3, <1>5 DEF Promise!Next

LEMMA OperationSeen ==
  ASSUME CorpusInv, CorpusInv',
         \/ \E t \in Sources : \E doc \in Docs : Import(t, doc)
         \/ \E t \in Sources : \E meta \in Metas : Edit(t, meta)
         \/ \E slot \in Slots : Restore(slot) \/ \E t \in Sources : Trash(t, slot)
  PROVE  Promise!Next \/ UNCHANGED Promise!vars
<1>1. At("idle") /\ ~Working /\ files \in Files /\ trash \in [Slots -> Archive \cup {Nothing}]
  BY DEF Import, Edit, Restore, Trash, At, Working, AtRest, CorpusInv, AgreeInv, FoundInv, TypeInv, TypeOK
<1>2. ASSUME NEW kind, NEW t \in Sources, NEW doc, NEW hash, NEW slot, Begin(kind, t, doc, hash, slot)
      PROVE  Promise!Next
  BY <1>1, <1>2, BeginSeen DEF Begin, NoOp, Files
<1>3. ASSUME NEW t \in Sources, NEW slot, Trash(t, slot) PROVE Promise!Next
  BY <1>1, <1>3, BeginSeen DEF Trash, NoOp
<1>4. ASSUME NEW slot \in Slots, Restore(slot) PROVE Promise!Next \/ UNCHANGED Promise!vars
  <2>1. trash[slot].source \in Sources
    BY <1>1, <1>4 DEF Restore, Archive
  <2>2. CASE /\ op' = [NoOp EXCEPT !.kind = "restore", !.pc = "unarchive", !.slot = slot]
             /\ UNCHANGED <<files, rows, on, trash, made, verified, torn, last>>
    <3>1. ~Working'
      BY <2>2 DEF NoOp, Working, AtRest
    <3> QED BY <1>1, <2>2, <3>1 DEF Promise!vars, InCorpus, Found, UnderWay
  <2> QED BY <1>2, <1>4, <2>1, <2>2 DEF Restore
<1> QED BY <1>2, <1>3, <1>4 DEF Import, Edit

(* An archive is cleared, an old generation deleted, the process dies.     *)
LEMMA SettledSeen ==
  ASSUME CorpusInv, CorpusInv', ~Working, Unarchive \/ DropEs \/ DropPg \/ Die
  PROVE  UNCHANGED Promise!vars
<1>1. op \in Op /\ AgreeInv
  BY DEF CorpusInv, AgreeInv, FoundInv, TypeInv, TypeOK
<1>2. files' = files /\ made' = made /\ torn' = torn /\ ~Working'
  <2>1. CASE Unarchive
    BY <1>1, <2>1, EndsAtRest, RestsNot DEF Unarchive
  <2>2. CASE DropEs \/ DropPg
    <3>1. ~op.failing
      BY <2>2 DEF Working, AtRest, Finishing, DropEs, DropPg, At
    <3>2. op' = Ended \/ Goto("dropPg")
      BY <2>2 DEF DropEs, DropPg, Goto
    <3>3. Goto("dropPg") => ~Working'
      BY <1>1, <3>1, GoesOn DEF Working, Finishing, Dropping
    <3>4. op' = Ended => ~Working'
      BY <1>1, EndsAtRest, RestsNot
    <3> QED BY <2>2, <3>1, <3>2, <3>3, <3>4 DEF DropEs, DropPg, TearIf, Tear
  <2>3. CASE Die
    <3>1. op.pc \in {"unarchive"} \cup Dropping /\ ~HalfDone
      BY <2>3 DEF Die, Working, AtRest, Finishing, HalfDone, Touched, Dropping, At
    <3> QED BY <1>1, <2>3, <3>1, EndsAtRest, RestsNot DEF Die, TearIf, Tear, Dropping
  <2> QED BY <2>1, <2>2, <2>3
<1>3. on' = on
  <2>1. CASE DropEs \/ DropPg
    <3>1. op.pc \in Dropping /\ ~op.failing
      BY <2>1 DEF Working, AtRest, Finishing, DropEs, DropPg, At, Dropping
    <3>2. /\ Es = {op.gen} /\ Pg = {op.gen} /\ op.gen # op.old
          /\ on \in [Stores -> [Sources -> SUBSET Gens]] /\ S \in Sources
          /\ "es" \in Stores /\ "pg" \in Stores
      BY <1>1, <3>1, DroppingHas DEF CorpusInv, SightOK, Finishing
    <3>3. Dropped = op.old /\ Es \ {Dropped} = Es /\ Pg \ {Dropped} = Pg
      BY <3>1, <3>2 DEF Dropped
    <3>4. PICK store \in Stores : on' \in {on, [on EXCEPT ![store][S] = on[store][S] \ {Dropped}]}
      BY <2>1, <3>2 DEF DropEs, DropPg, Delete
    <3>5. on[store][S] \ {Dropped} = on[store][S]
      BY <3>3 DEF Stores, Es, Pg
    <3>6. [on EXCEPT ![store][S] = on[store][S]] = on
      <4>1. [on[store] EXCEPT ![S] = on[store][S]] = on[store] /\ on = [on EXCEPT ![store] = on[store]]
        BY <3>2
      <4> QED BY <4>1
    <3> QED BY <3>4, <3>5, <3>6
  <2> QED BY <2>1 DEF Unarchive, Die
<1> QED BY <1>2, <1>3 DEF Promise!vars, InCorpus, Found, UnderWay

-----------------------------------------------------------------------------

LEMMA CorpusInit == Init => CorpusInv
<1>1. ASSUME Init PROVE SightOK
  BY <1>1 DEF Init, NoOp, SightOK, Finishing, Dropping, At
<1> QED BY <1>1, AgreeInit DEF CorpusInv

LEMMA CorpusStep == CorpusInv /\ [Next]_vars => CorpusInv'
BY AgreeStep, SightStep DEF CorpusInv

LEMMA PromiseInit == Init => Promise!Init
BY DEF Init, NoOp, Promise!Init, Promise!Free, InCorpus, Found, UnderWay, Working, AtRest

LEMMA PromiseStep == CorpusInv /\ [Next]_vars => [Promise!Next]_(Promise!vars)
<1> SUFFICES ASSUME CorpusInv, [Next]_vars PROVE Promise!Next \/ UNCHANGED Promise!vars
  OBVIOUS
<1>0. CorpusInv'
  BY CorpusStep
<1>1. CASE UNCHANGED vars
  BY <1>1 DEF vars, Promise!vars, InCorpus, Found, UnderWay, Wish, Working, AtRest, Finishing, S
<1>2. CASE \/ \E t \in Sources : \E doc \in Docs : Import(t, doc)
           \/ \E t \in Sources : \E meta \in Metas : Edit(t, meta)
           \/ \E slot \in Slots : Restore(slot) \/ \E t \in Sources : Trash(t, slot)
  BY <1>0, <1>2, OperationSeen
<1>3. CASE EmbedEnds \/ StagePg \/ StageEs \/ Verify
  BY <1>0, <1>3, StagingBears, BearsOut
<1>4. CASE EsOff \/ EsOn \/ PgSwitch \/ BackOff \/ BackOn
  BY <1>0, <1>4, SwitchingBears, BearsOut
<1>5. CASE DropEs \/ DropPg
  BY <1>0, <1>5, DroppingBears, BearsOut, SettledSeen
<1>6. CASE \/ WriteManifest \/ WriteChunks \/ WriteState
           \/ RemoveManifest \/ RemoveChunks \/ RemoveState \/ RemoveRaw
  BY <1>0, <1>6, FilingBears, BearsOut
<1>7. CASE WriteRaw \/ DeletePg
  BY <1>0, <1>7, WriteRawSeen, DeletePgSeen
<1>8. CASE RestoreFiles
  BY <1>0, <1>8, RestoringBears, BearsOut
<1>9. CASE DeleteEs
  BY <1>0, <1>9, RemovedBears, BearsOut
<1>10. CASE Unarchive
  <2>1. ~Working
    BY <1>10 DEF Unarchive, At, Working, AtRest
  <2> QED BY <1>0, <1>10, <2>1, SettledSeen
<1>11. CASE Die
  BY <1>0, <1>11, DyingBears, BearsOut, SettledSeen
<1> QED BY <1>1, <1>2, <1>3, <1>4, <1>5, <1>6, <1>7, <1>8, <1>9, <1>10, <1>11 DEF Next, IndexStep

(* Whatever fails and whenever the process dies, whoever searches sees a   *)
(* source published, edited, removed or restored as a whole or not at all  *)
(* (docs/SERVICE_STACK.md:71, kb/service_index.py, kb/service.py).         *)
THEOREM PublishingImplementsCorpus == Spec => ImplementsCorpus
BY CorpusInit, CorpusStep, PromiseInit, PromiseStep, PTL DEF Spec, ImplementsCorpus, Promise!Spec

(***************************************************************************)
(* Pages found on the web: the sources behind rechecks, the rechecks       *)
(* themselves, and the outcomes of jobs                                    *)
(***************************************************************************)

(* A source is in the knowledge base before anything says that it is.      *)
SourcesOK ==
  /\ \A w \in Workers : worker[w].ingested =>
       worker[w].job # NoJob /\ UrlOf[worker[w].job] \in kb
  /\ \A j \in Jobs : job[j].status \in Settled => UrlOf[j] \in kb
  /\ \A c \in Cases : review[c].pc = "marking" =>
       \A j \in review[c].seen : UrlOf[j] \in kb
  /\ RecheckRestsOnSource

(* What mark_impact in flight will leave waiting does wait, or was raced.  *)
WaitsOK ==
  /\ \A l \in Links : link[l].material => link[l].recheck # "not_required"
  /\ \A c \in Cases, j \in Jobs :
       /\ review[c].pc = "marking" /\ j \notin review[c].seen
       /\ job[j].status \in Settled
       => <<j, c>> \in raced
  /\ NoRecheckForgotten

(* A worker within its lease has its job to itself, unless one beyond its  *)
(* lease wrote it.                                                         *)
HoldersOK ==
  \A w \in Workers :
    worker[w].job # NoJob /\ ~worker[w].late /\ worker[w].job \notin late =>
      /\ job[worker[w].job].status = "running" /\ job[worker[w].job].lease = "live"
      /\ \A v \in Workers : worker[v].job = worker[w].job /\ ~worker[v].late => v = w

Inv == JobsTypeOK /\ SourcesOK /\ WaitsOK /\ HoldersOK /\ RecheckIsInHistory

-----------------------------------------------------------------------------

LEMMA LinkPairs ==
  /\ \A l \in Links : l[1] \in Jobs /\ l[2] \in Cases /\ l = <<l[1], l[2]>>
  /\ \A j \in Jobs, c \in Cases : <<j, c>> \in Links
BY DEF Links

Workspace == [job : Jobs \cup {NoJob}, source : BOOLEAN, attempt : 0 .. Retries,
              ingested : BOOLEAN, late : BOOLEAN, notices : SUBSET Links]

LEMMA FieldsTyped ==
  ASSUME JobsTypeOK
  PROVE  /\ \A j \in Jobs :
              /\ job[j] \in Job /\ job[j].status \in JobStatus
              /\ job[j].attempt \in 0 .. Retries
              /\ job[j].lease \in Leases /\ job[j].source \in BOOLEAN
         /\ \A l \in Links :
              /\ link[l] \in Link /\ link[l].task \in 0 .. MaxReviews
              /\ link[l].material \in BOOLEAN
              /\ link[l].recheck \in {"not_required", "waiting_source", "pending"}
              /\ link[l].notice \in {"not_required", "pending", "sending", "sent"}
              /\ link[l].lease \in Leases
         /\ \A w \in Workers : worker[w] \in Workspace
<1>1. \A j \in Jobs : job[j] \in Job
  BY DEF JobsTypeOK
<1>2. \A l \in Links : link[l] \in Link
  BY DEF JobsTypeOK
<1>3. \A w \in Workers : worker[w] \in Workspace
  BY DEF JobsTypeOK, Workspace
<1>4. \A j \in Jobs :
              /\ job[j].status \in JobStatus /\ job[j].attempt \in 0 .. Retries
              /\ job[j].lease \in Leases /\ job[j].source \in BOOLEAN
  BY <1>1 DEF Job
<1>5. \A l \in Links :
              /\ link[l].task \in 0 .. MaxReviews /\ link[l].material \in BOOLEAN
              /\ link[l].recheck \in {"not_required", "waiting_source", "pending"}
              /\ link[l].notice \in {"not_required", "pending", "sending", "sent"}
              /\ link[l].lease \in Leases
  BY <1>2 DEF Link
<1> QED BY <1>1, <1>2, <1>3, <1>4, <1>5

LEMMA InitInv == JobsInit => Inv
<1> SUFFICES ASSUME JobsInit PROVE Inv
  OBVIOUS
<1>1. JobsTypeOK
  <2>1. [NewJob EXCEPT !.status = "absent"] \in Job
    <3>1. NewJob \in Job
      BY DEF NewJob, Job, JobStatus, Leases, Retries
    <3>2. "absent" \in JobStatus
      BY DEF JobStatus
    <3> QED BY <3>1, <3>2 DEF Job
  <2>2. NewLink \in Link
    BY ReviewsAssumption DEF NewLink, Link, Leases
  <2>3. NoReview \in [pc : {"idle", "running", "marking"}, task : 0 .. MaxReviews,
                      urls : SUBSET Urls, seen : SUBSET Jobs]
    BY ReviewsAssumption DEF NoReview
  <2>4. Idle \in Workspace
    BY DEF Idle, Workspace, Retries
  <2> QED BY <2>1, <2>2, <2>3, <2>4 DEF JobsInit, JobsTypeOK, Workspace
<1>2. SourcesOK
  BY LinkPairs DEF JobsInit, SourcesOK, RecheckRestsOnSource, NewJob, NewLink, NoReview, Idle, Settled
<1>3. WaitsOK
  BY LinkPairs DEF JobsInit, WaitsOK, NoRecheckForgotten, NewJob, NewLink, NoReview, Settled
<1>4. HoldersOK
  BY DEF JobsInit, HoldersOK, Idle
<1>5. RecheckIsInHistory
  BY DEF JobsInit, RecheckIsInHistory, NewLink
<1> QED BY <1>1, <1>2, <1>3, <1>4, <1>5 DEF Inv

-----------------------------------------------------------------------------
(* The reviews.                                                            *)

LEMMA StartReviewInv ==
  ASSUME Inv, NEW c \in Cases, StartReview(c) \/ NoImpact(c)
  PROVE  Inv'
<1>1. \A d \in Cases : /\ review'[d].seen = review[d].seen
                       /\ review'[d].pc = "marking" => review[d].pc = "marking"
  BY DEF Inv, JobsTypeOK, StartReview, NoImpact
<1>2. JobsTypeOK'
  <2>1. review'[c] \in [pc : {"idle", "running", "marking"}, task : 0 .. MaxReviews,
                        urls : SUBSET Urls, seen : SUBSET Jobs]
    BY ReviewsAssumption DEF Inv, JobsTypeOK, StartReview, NoImpact
  <2> QED BY <2>1 DEF Inv, JobsTypeOK, StartReview, NoImpact
<1> USE DEF StartReview, NoImpact
<1>3. SourcesOK'
  BY <1>1 DEF Inv, SourcesOK, RecheckRestsOnSource
<1>4. WaitsOK'
  BY <1>1 DEF Inv, WaitsOK, NoRecheckForgotten
<1>5. HoldersOK' /\ RecheckIsInHistory'
  BY DEF Inv, HoldersOK, RecheckIsInHistory
<1> QED BY <1>2, <1>3, <1>4, <1>5 DEF Inv

LEMMA EnqueueInv ==
  ASSUME Inv, NEW c \in Cases, NEW j \in Jobs, Enqueue(c, j)
  PROVE  Inv'
<1>1. <<j, c>> \in Links
  BY LinkPairs
<1>2. \A l \in Links : /\ link'[l].material = link[l].material
                       /\ link'[l].recheck = link[l].recheck
  BY <1>1 DEF Inv, JobsTypeOK, Enqueue
<1>3. \A i \in Jobs : job'[i].status \in Settled \cup {"running"} => job'[i] = job[i]
  BY DEF Inv, JobsTypeOK, Enqueue, NewJob, Settled
<1>4. \A i \in Jobs : job[i].status = "running" => job'[i] = job[i]
  BY DEF Inv, JobsTypeOK, Enqueue
<1>5. JobsTypeOK'
  <2>1. NewJob \in Job
    BY DEF NewJob, Job, JobStatus, Leases, Retries
  <2>2. [link[<<j, c>>] EXCEPT !.task = review[c].task] \in Link
    <3>1. review[c].task \in 0 .. MaxReviews
      BY DEF Inv, JobsTypeOK
    <3> QED BY <1>1, <3>1, FieldsTyped DEF Inv, Link
  <2> QED BY <1>1, <2>1, <2>2 DEF Inv, JobsTypeOK, Enqueue
<1> USE DEF Enqueue
<1>6. SourcesOK'
  BY <1>2, <1>3 DEF Inv, SourcesOK, RecheckRestsOnSource
<1>7. WaitsOK'
  BY <1>2, <1>3, LinkPairs DEF Inv, WaitsOK, NoRecheckForgotten
<1>8. HoldersOK'
  BY <1>4 DEF Inv, JobsTypeOK, HoldersOK
<1>9. RecheckIsInHistory'
  BY <1>2 DEF Inv, RecheckIsInHistory
<1> QED BY <1>5, <1>6, <1>7, <1>8, <1>9 DEF Inv

LEMMA MarkImpactInv ==
  ASSUME Inv, NEW c \in Cases, NEW urls \in SUBSET Urls, MarkImpact(c, urls)
  PROVE  Inv'
<1>1. \A d \in Cases : d # c => review'[d] = review[d]
  BY DEF Inv, JobsTypeOK, MarkImpact
<1>2. review'[c].pc = "marking" /\ review'[c].seen = {j \in Jobs : job[j].status \in Settled}
  BY DEF Inv, JobsTypeOK, MarkImpact
<1>3. JobsTypeOK'
  <2>1. review'[c] \in [pc : {"idle", "running", "marking"}, task : 0 .. MaxReviews,
                        urls : SUBSET Urls, seen : SUBSET Jobs]
    BY ZenonT(60) DEF Inv, JobsTypeOK, MarkImpact
  <2> QED BY <2>1 DEF Inv, JobsTypeOK, MarkImpact
<1> USE DEF MarkImpact
<1>4. SourcesOK'
  BY <1>1, <1>2 DEF Inv, SourcesOK, RecheckRestsOnSource
<1>5. WaitsOK'
  BY <1>1, <1>2 DEF Inv, WaitsOK, NoRecheckForgotten
<1>6. HoldersOK' /\ RecheckIsInHistory'
  BY DEF Inv, HoldersOK, RecheckIsInHistory
<1> QED BY <1>3, <1>4, <1>5, <1>6 DEF Inv

(* What mark_impact leaves waiting is a link whose job had not settled, or *)
(* one that was raced.                                                     *)
LEMMA MarkCommitInv ==
  ASSUME Inv, NEW c \in Cases, MarkCommit(c)
  PROVE  Inv'
<1>1. \A d \in Cases : d # c => review'[d] = review[d]
  BY DEF Inv, JobsTypeOK, MarkCommit
<1>2. review'[c].pc = "idle" /\ review'[c].seen = {} /\ review'[c].urls = {}
      /\ review'[c].task = review[c].task
  BY DEF Inv, JobsTypeOK, MarkCommit, NoReview
<1>3. \A l \in Links : link'[l] = IF Impacted(c, l) THEN Marked(c, l) ELSE link[l]
  BY DEF MarkCommit
<1>4. \A l \in Links : Marked(c, l) \in Link
  BY FieldsTyped DEF Inv, Marked, Link
<1>5. JobsTypeOK'
  <2>1. link' \in [Links -> Link]
    BY <1>4 DEF Inv, JobsTypeOK, MarkCommit
  <2>2. review'[c] \in [pc : {"idle", "running", "marking"}, task : 0 .. MaxReviews,
                        urls : SUBSET Urls, seen : SUBSET Jobs]
    BY DEF Inv, JobsTypeOK, MarkCommit, NoReview
  <2> QED BY <2>1, <2>2 DEF Inv, JobsTypeOK, MarkCommit, Announced
<1>6. \A l \in Links : /\ Marked(c, l).material
                       /\ Marked(c, l).recheck = IF l[1] \in review[c].seen
                                                 THEN "pending" ELSE "waiting_source"
  BY FieldsTyped DEF Inv, Marked, Link
<1>7. \A l \in Links : Impacted(c, l) => l[2] = c /\ link[l].recheck # "pending"
  BY DEF Impacted
<1>8. review[c].pc = "marking" /\ UNCHANGED <<job, kb, worker, raced, late>>
  BY DEF MarkCommit
<1>9. SourcesOK'
  <2>1. RecheckRestsOnSource'
    BY <1>3, <1>6, <1>7, <1>8, LinkPairs DEF Inv, SourcesOK, RecheckRestsOnSource
  <2> QED BY <1>1, <1>2, <1>8, <2>1 DEF Inv, SourcesOK
<1>10. WaitsOK'
  <2>1. NoRecheckForgotten'
    BY <1>3, <1>6, <1>7, <1>8, LinkPairs DEF Inv, WaitsOK, NoRecheckForgotten
  <2>2. \A l \in Links : link'[l].material => link'[l].recheck # "not_required"
    BY <1>3, <1>6 DEF Inv, WaitsOK
  <2> QED BY <1>1, <1>2, <1>8, <2>1, <2>2 DEF Inv, WaitsOK
<1>11. HoldersOK'
  BY <1>8 DEF Inv, HoldersOK
<1>12. RecheckIsInHistory'
  BY <1>3, <1>6, <1>7 DEF Inv, RecheckIsInHistory, MarkCommit, Announced
<1> QED BY <1>5, <1>9, <1>10, <1>11, <1>12 DEF Inv

-----------------------------------------------------------------------------
(* The curators decide nothing that a worker within its lease holds.       *)

LEMMA DecideInv ==
  ASSUME Inv, NEW j \in Jobs, Approve(j) \/ Reject(j) \/ Retry(j)
  PROVE  Inv'
<1>1. /\ job[j].status \in {"awaiting_review", "failed"}
      /\ job'[j].status \in {"approved", "rejected", "queued"}
      /\ \A i \in Jobs : i # j => job'[i] = job[i]
      /\ UNCHANGED <<link, events, kb, review, worker, told, raced, late>>
  <2>1. CASE Approve(j)
    BY <2>1, FieldsTyped DEF Inv, JobsTypeOK, Approve, Decide, Job
  <2>2. CASE Reject(j)
    BY <2>2, FieldsTyped DEF Inv, JobsTypeOK, Reject, Decide, Job
  <2>3. CASE Retry(j)
    BY <2>3, FieldsTyped DEF Inv, JobsTypeOK, Retry, Decide, Job
  <2> QED BY <2>1, <2>2, <2>3
<1>2. JobsTypeOK'
  <2>1. job' \in [Jobs -> Job]
    <3>1. ASSUME NEW s \in JobStatus
          PROVE  /\ [job[j] EXCEPT !.status = s] \in Job
                 /\ [job[j] EXCEPT !.status = s, !.source = TRUE] \in Job
      BY FieldsTyped DEF Inv, Job
    <3>2. {"approved", "rejected", "queued"} \subseteq JobStatus
      BY DEF JobStatus
    <3> QED BY <3>1, <3>2 DEF Inv, JobsTypeOK, Approve, Reject, Retry, Decide
  <2> QED BY <1>1, <2>1 DEF Inv, JobsTypeOK
<1>3. \A i \in Jobs : job'[i].status \in Settled => job'[i] = job[i]
  BY <1>1 DEF Settled
<1>4. SourcesOK'
  BY <1>1, <1>3 DEF Inv, SourcesOK, RecheckRestsOnSource
<1>5. WaitsOK'
  BY <1>1, <1>3, LinkPairs DEF Inv, WaitsOK, NoRecheckForgotten
<1>6. HoldersOK'
  BY <1>1 DEF Inv, JobsTypeOK, HoldersOK
<1>7. RecheckIsInHistory'
  BY <1>1 DEF Inv, RecheckIsInHistory
<1> QED BY <1>2, <1>4, <1>5, <1>6, <1>7 DEF Inv

-----------------------------------------------------------------------------
(* The workers.                                                            *)

LEMMA ClaimInv ==
  ASSUME Inv, NEW w \in Workers, Claim(w)
  PROVE  Inv'
<1> PICK j \in Jobs :
      /\ Claimable(j)
      /\ job' = [job EXCEPT ![j].status = "running", ![j].lease = "live",
                            ![j].attempt = IF @ < Retries THEN @ + 1 ELSE @]
      /\ worker' = [worker EXCEPT ![w].job = j, ![w].source = job[j].source,
                                  ![w].attempt = job[j].attempt]
  BY DEF Claim
<1>1. UNCHANGED <<link, events, kb, review, told, raced, late>> /\ worker[w].job = NoJob
  BY DEF Claim
<1>2. /\ job'[j].status = "running" /\ job'[j].lease = "live"
      /\ \A i \in Jobs : i # j => job'[i] = job[i]
  BY DEF Inv, JobsTypeOK, Job
<1>3. /\ worker'[w].job = j /\ worker'[w].ingested = worker[w].ingested
      /\ worker'[w].late = worker[w].late
      /\ \A v \in Workers : v # w => worker'[v] = worker[v]
  BY DEF Inv, JobsTypeOK
<1>4. JobsTypeOK'
  <2>1. job'[j] \in Job
    <3>1. (IF job[j].attempt < Retries THEN job[j].attempt + 1 ELSE job[j].attempt) \in 0 .. Retries
      BY FieldsTyped DEF Inv, Retries
    <3>2. "running" \in JobStatus /\ "live" \in Leases
      BY DEF JobStatus, Leases
    <3> QED BY <3>1, <3>2, FieldsTyped, ZenonT(60) DEF Inv, JobsTypeOK, Job
  <2>2. worker'[w] \in [job : Jobs \cup {NoJob}, source : BOOLEAN, attempt : 0 .. Retries,
                        ingested : BOOLEAN, late : BOOLEAN, notices : SUBSET Links]
    BY ZenonT(60) DEF Inv, JobsTypeOK, Job
  <2> QED BY <1>1, <2>1, <2>2 DEF Inv, JobsTypeOK
<1>5. job[j].status # "running" \/ job[j].lease = "lapsed"
  BY DEF Claimable
<1>6. SourcesOK'
  <2>1. ~worker[w].ingested
    BY <1>1 DEF Inv, SourcesOK
  <2>2. \A v \in Workers : worker'[v].ingested =>
          worker'[v].job # NoJob /\ UrlOf[worker'[v].job] \in kb
    BY <1>3, <2>1 DEF Inv, SourcesOK
  <2>3. \A i \in Jobs : job'[i].status \in Settled => UrlOf[i] \in kb
    BY <1>2 DEF Inv, SourcesOK, Settled
  <2> QED BY <1>1, <2>2, <2>3 DEF Inv, SourcesOK, RecheckRestsOnSource
<1>7. WaitsOK'
  BY <1>1, <1>2, LinkPairs DEF Inv, WaitsOK, NoRecheckForgotten, Settled
<1>8. HoldersOK'
  <2>1. \A v \in Workers : v # w /\ worker[v].job = j /\ ~worker[v].late => j \in late
    BY <1>5, NoJobAssumption DEF Inv, HoldersOK
  <2> SUFFICES ASSUME NEW v \in Workers, worker'[v].job # NoJob, ~worker'[v].late,
                      worker'[v].job \notin late
               PROVE  /\ job'[worker'[v].job].status = "running"
                      /\ job'[worker'[v].job].lease = "live"
                      /\ \A u \in Workers : worker'[u].job = worker'[v].job /\ ~worker'[u].late
                           => u = v
    BY <1>1 DEF HoldersOK
  <2>2. CASE v = w
    <3>1. worker'[v].job = j /\ j \notin late
      BY <1>3, <2>2
    <3>2. \A u \in Workers : worker'[u].job = j /\ ~worker'[u].late => u = w
      BY <1>3, <2>1, <3>1
    <3> QED BY <1>2, <2>2, <3>1, <3>2
  <2>3. CASE v # w
    <3>1. worker[v].job # j
      BY <1>3, <2>1, <2>3
    <3>2. worker[v].job \in Jobs
      BY <1>3, <2>3 DEF Inv, JobsTypeOK
    <3>3. worker'[v] = worker[v]
      BY <1>3, <2>3
    <3>4. /\ job[worker[v].job].status = "running" /\ job[worker[v].job].lease = "live"
          /\ \A u \in Workers : worker[u].job = worker[v].job /\ ~worker[u].late => u = v
      BY <3>2, <3>3, NoJobAssumption DEF Inv, HoldersOK
    <3>5. job'[worker[v].job] = job[worker[v].job]
      BY <1>2, <3>1, <3>2
    <3>6. \A u \in Workers : worker'[u].job = worker[v].job => u # w
      BY <1>3, <3>1
    <3> QED BY <1>3, <3>3, <3>4, <3>5, <3>6
  <2> QED BY <2>2, <2>3
<1>9. RecheckIsInHistory'
  BY <1>1 DEF Inv, RecheckIsInHistory
<1> QED BY <1>4, <1>6, <1>7, <1>8, <1>9 DEF Inv

LEMMA IngestInv ==
  ASSUME Inv, NEW w \in Workers, Ingest(w)
  PROVE  Inv'
<1>1. /\ UNCHANGED <<job, link, events, review, told, raced, late>>
      /\ worker[w].job # NoJob /\ kb' = kb \cup {UrlOf[worker[w].job]}
      /\ \A v \in Workers : worker'[v].job = worker[v].job /\ worker'[v].late = worker[v].late
      /\ \A v \in Workers : v # w => worker'[v] = worker[v]
  BY DEF Inv, JobsTypeOK, Ingest, Undecided
<1>2. JobsTypeOK'
  <2>1. worker[w].job \in Jobs
    BY <1>1 DEF Inv, JobsTypeOK
  <2>2. worker' \in [Workers -> [job : Jobs \cup {NoJob}, source : BOOLEAN, attempt : 0 .. Retries,
                        ingested : BOOLEAN, late : BOOLEAN, notices : SUBSET Links]]
    BY DEF Inv, JobsTypeOK, Ingest
  <2> QED BY <1>1, <2>1, <2>2, UrlAssumption DEF Inv, JobsTypeOK
<1>3. SourcesOK'
  BY <1>1 DEF Inv, SourcesOK, RecheckRestsOnSource
<1>4. WaitsOK'
  BY <1>1 DEF Inv, WaitsOK, NoRecheckForgotten
<1>5. HoldersOK'
  BY <1>1 DEF Inv, HoldersOK
<1>6. RecheckIsInHistory'
  BY <1>1 DEF Inv, RecheckIsInHistory
<1> QED BY <1>2, <1>3, <1>4, <1>5, <1>6 DEF Inv

-----------------------------------------------------------------------------
(* A transition is reached with the source in the knowledge base.          *)
LEMMA FinishIsTransition ==
  ASSUME Inv, NEW w \in Workers, Finish(w)
  PROVE  /\ worker[w].job \in Jobs
         /\ \E status \in JobStatus, source \in BOOLEAN :
              /\ Transition(w, status, source) /\ status # "running"
              /\ status \in Settled => UrlOf[worker[w].job] \in kb
<1>1. worker[w].job \in Jobs
  BY DEF Inv, JobsTypeOK, Finish, Unchanged, Unsure, Publish, Fail, Transition
<1>2. CASE Unchanged(w)
  BY <1>1, <1>2 DEF Unchanged, JobStatus
<1>3. CASE Unsure(w)
  BY <1>1, <1>3 DEF Unsure, JobStatus, Settled
<1>4. CASE Publish(w)
  BY <1>1, <1>4 DEF Publish, JobStatus, Inv, SourcesOK
<1>5. CASE Fail(w)
  BY <1>1, <1>5 DEF Fail, JobStatus, Settled
<1> QED BY <1>1, <1>2, <1>3, <1>4, <1>5 DEF Finish

LEMMA TransitionInv ==
  ASSUME Inv, NEW w \in Workers, worker[w].job \in Jobs,
         NEW status \in JobStatus, NEW source \in BOOLEAN, Transition(w, status, source),
         status # "running", status \in Settled => UrlOf[worker[w].job] \in kb
  PROVE  Inv'
<1> DEFINE j == worker[w].job
<1>1. /\ job'[j].status = status
      /\ \A i \in Jobs : i # j => job'[i] = job[i]
  <2>1. job' = [job EXCEPT ![j].status = status, ![j].lease = "none", ![j].source = source]
    BY DEF Transition
  <2> QED BY <2>1, FieldsTyped DEF Inv, JobsTypeOK, Job
<1>0. \A l \in Links :
        link'[l] = IF Released(j, status, l)
                   THEN [link[l] EXCEPT !.recheck = "pending", !.notice = "pending"]
                   ELSE link[l]
  BY DEF Transition
<1>2. \A l \in Links : /\ link'[l].material = link[l].material
                       /\ link'[l].recheck = IF Released(j, status, l) THEN "pending"
                                             ELSE link[l].recheck
  BY <1>0, FieldsTyped DEF Inv, Link
<1>3. /\ worker'[w] = Idle /\ \A v \in Workers : v # w => worker'[v] = worker[v]
      /\ UNCHANGED <<kb, review, told>>
  BY DEF Inv, JobsTypeOK, Transition
<1>4. /\ raced \subseteq raced'
      /\ status \in Settled =>
           \A c \in Cases : review[c].pc = "marking" /\ j \notin review[c].seen
                              => <<j, c>> \in raced'
  BY LinkPairs DEF Transition
<1>5. late' = IF worker[w].late THEN late \cup {j} ELSE late
  BY DEF Transition
<1>6. \A l \in Links : Released(j, status, l) <=>
        l[1] = j /\ status \in Settled /\ link[l].material /\ link[l].recheck = "waiting_source"
  BY DEF Released
<1>7. JobsTypeOK'
  <2>1. job' \in [Jobs -> Job]
    <3>1. [job[j] EXCEPT !.status = status, !.lease = "none", !.source = source] \in Job
      BY FieldsTyped DEF Inv, Job, Leases
    <3> QED BY <3>1 DEF Inv, JobsTypeOK, Transition
  <2>2. link' \in [Links -> Link]
    <3>1. \A l \in Links :
            [link[l] EXCEPT !.recheck = "pending", !.notice = "pending"] \in Link
      BY FieldsTyped DEF Inv, Link
    <3> QED BY <3>1 DEF Inv, JobsTypeOK, Transition
  <2>3. Idle \in [job : Jobs \cup {NoJob}, source : BOOLEAN, attempt : 0 .. Retries,
                  ingested : BOOLEAN, late : BOOLEAN, notices : SUBSET Links]
    BY DEF Idle, Retries
  <2>4. events' \subseteq Links /\ raced' \subseteq Links /\ late' \subseteq Jobs
    BY DEF Inv, JobsTypeOK, Transition, Announced
  <2>5. worker' = [worker EXCEPT ![w] = Idle]
    BY DEF Transition
  <2> QED BY <1>3, <2>1, <2>2, <2>3, <2>4, <2>5 DEF Inv, JobsTypeOK
<1>8. RecheckIsInHistory'
  <2>1. events' = events \cup {l \in Links : /\ status \in Settled /\ l[1] = j
                                             /\ link'[l].recheck = "pending"}
    BY DEF Transition, Announced
  <2> QED BY <1>2, <1>6, <2>1 DEF Inv, RecheckIsInHistory
<1> HIDE DEF j
<1>9. SourcesOK'
  <2>1. RecheckRestsOnSource'
    BY <1>2, <1>3, <1>6 DEF Inv, SourcesOK, RecheckRestsOnSource, j
  <2>2. \A i \in Jobs : job'[i].status \in Settled => UrlOf[i] \in kb
    BY <1>1 DEF Inv, SourcesOK, j
  <2>3. \A v \in Workers : worker'[v].ingested =>
          worker'[v].job # NoJob /\ UrlOf[worker'[v].job] \in kb
    BY <1>3 DEF Inv, SourcesOK, Idle
  <2> QED BY <1>3, <2>1, <2>2, <2>3 DEF Inv, SourcesOK
<1>10. WaitsOK'
  <2>1. NoRecheckForgotten'
    BY <1>1, <1>2, <1>4, <1>6, LinkPairs DEF Inv, JobsTypeOK, Link, WaitsOK, NoRecheckForgotten
  <2>2. \A l \in Links : link'[l].material => link'[l].recheck # "not_required"
    BY <1>2 DEF Inv, WaitsOK
  <2>3. \A c \in Cases, i \in Jobs :
          review[c].pc = "marking" /\ i \notin review[c].seen /\ job'[i].status \in Settled
            => <<i, c>> \in raced'
    BY <1>1, <1>4 DEF Inv, WaitsOK
  <2> QED BY <1>3, <2>1, <2>2, <2>3 DEF WaitsOK
<1>11. HoldersOK'
  <2> SUFFICES ASSUME NEW v \in Workers, worker'[v].job # NoJob, ~worker'[v].late,
                      worker'[v].job \notin late'
               PROVE  /\ job'[worker'[v].job].status = "running"
                      /\ job'[worker'[v].job].lease = "live"
                      /\ \A u \in Workers : worker'[u].job = worker'[v].job /\ ~worker'[u].late
                           => u = v
    BY DEF HoldersOK
  <2>1. v # w
    BY <1>3 DEF Idle
  <2>2. worker'[v] = worker[v] /\ worker[v].job \in Jobs /\ worker[v].job \notin late
    BY <1>3, <1>5, <2>1 DEF Inv, JobsTypeOK
  <2>3. worker[v].job # j
    BY <1>5, <2>1, <2>2 DEF Inv, HoldersOK, j
  <2> QED BY <1>1, <1>3, <2>1, <2>2, <2>3 DEF Inv, HoldersOK, Idle
<1> QED BY <1>7, <1>8, <1>9, <1>10, <1>11 DEF Inv

LEMMA FinishInv ==
  ASSUME Inv, NEW w \in Workers, Finish(w)
  PROVE  Inv'
BY FinishIsTransition, TransitionInv

-----------------------------------------------------------------------------
(* The notices, and time.  None of it concerns jobs, sources or rechecks.  *)

LEMMA NoticeFrame ==
  ASSUME Inv, UNCHANGED <<job, events, kb, review, raced, late>>,
         link' \in [Links -> Link], worker' \in [Workers -> Workspace], told' \subseteq Links,
         \A l \in Links : /\ link'[l].material = link[l].material
                          /\ link'[l].recheck = link[l].recheck,
         \A w \in Workers : /\ worker'[w].job = worker[w].job
                            /\ worker'[w].late = worker[w].late
                            /\ worker'[w].ingested = worker[w].ingested
  PROVE  Inv'
<1>1. JobsTypeOK'
  BY DEF Inv, JobsTypeOK, Workspace
<1>2. SourcesOK'
  BY DEF Inv, SourcesOK, RecheckRestsOnSource
<1>3. WaitsOK'
  BY DEF Inv, WaitsOK, NoRecheckForgotten
<1>4. HoldersOK'
  BY DEF Inv, HoldersOK
<1>5. RecheckIsInHistory'
  BY DEF Inv, RecheckIsInHistory
<1> QED BY <1>1, <1>2, <1>3, <1>4, <1>5 DEF Inv

(* A notice and its lease rewritten, and a batch of notices taken up.      *)
LEMMA NoticeRewritten ==
  ASSUME JobsTypeOK, NEW l \in Links,
         NEW notice \in {"not_required", "pending", "sending", "sent"}, NEW lease \in Leases
  PROVE  /\ [link[l] EXCEPT !.notice = notice, !.lease = lease] \in Link
         /\ [link[l] EXCEPT !.notice = notice, !.lease = lease].material = link[l].material
         /\ [link[l] EXCEPT !.notice = notice, !.lease = lease].recheck = link[l].recheck
BY FieldsTyped DEF Link

LEMMA BatchRewritten ==
  ASSUME JobsTypeOK, NEW w \in Workers, NEW ls \in SUBSET Links
  PROVE  /\ [worker[w] EXCEPT !.notices = ls] \in Workspace
         /\ [worker[w] EXCEPT !.notices = ls].job = worker[w].job
         /\ [worker[w] EXCEPT !.notices = ls].late = worker[w].late
         /\ [worker[w] EXCEPT !.notices = ls].ingested = worker[w].ingested
BY FieldsTyped DEF Workspace

LEMMA ClaimNoticesInv ==
  ASSUME Inv, NEW w \in Workers, NEW ls \in SUBSET Links, ClaimNotices(w, ls)
  PROVE  Inv'
<1>1. \A l \in Links :
        link'[l] = IF l \in ls THEN [link[l] EXCEPT !.notice = "sending", !.lease = "live"]
                   ELSE link[l]
  BY DEF ClaimNotices
<1>2. "live" \in Leases
  BY DEF Leases
<1>3. \A l \in Links : /\ link'[l] \in Link /\ link'[l].material = link[l].material
                       /\ link'[l].recheck = link[l].recheck
  <2> SUFFICES ASSUME NEW l \in Links
               PROVE  /\ link'[l] \in Link /\ link'[l].material = link[l].material
                      /\ link'[l].recheck = link[l].recheck
    OBVIOUS
  <2>1. JobsTypeOK /\ link[l] \in Link
    BY FieldsTyped DEF Inv
  <2>2. [link[l] EXCEPT !.notice = "sending", !.lease = "live"] \in Link
    BY <1>2, <2>1, NoticeRewritten
  <2>3. /\ [link[l] EXCEPT !.notice = "sending", !.lease = "live"].material = link[l].material
        /\ [link[l] EXCEPT !.notice = "sending", !.lease = "live"].recheck = link[l].recheck
    BY <1>2, <2>1, NoticeRewritten
  <2> QED BY <1>1, <2>1, <2>2, <2>3
<1>4. link' \in [Links -> Link]
  BY <1>3 DEF ClaimNotices
<1>5. \A v \in Workers : v # w => worker'[v] = worker[v]
  BY DEF Inv, JobsTypeOK, ClaimNotices
<1>6. worker'[w] = [worker[w] EXCEPT !.notices = ls]
  BY DEF Inv, JobsTypeOK, ClaimNotices
<1>7. \A v \in Workers : /\ worker'[v] \in Workspace /\ worker'[v].job = worker[v].job
                         /\ worker'[v].late = worker[v].late
                         /\ worker'[v].ingested = worker[v].ingested
  <2>1. JobsTypeOK /\ \A v \in Workers : worker[v] \in Workspace
    BY FieldsTyped DEF Inv
  <2>2. worker'[w] \in Workspace
    BY <1>6, <2>1, BatchRewritten
  <2>3. /\ worker'[w].job = worker[w].job /\ worker'[w].late = worker[w].late
        /\ worker'[w].ingested = worker[w].ingested
    BY <1>6, <2>1, BatchRewritten
  <2> QED BY <1>5, <2>1, <2>2, <2>3
<1>8. worker' \in [Workers -> Workspace]
  BY <1>7 DEF ClaimNotices, Inv, JobsTypeOK
<1>9. UNCHANGED <<job, events, kb, review, told, raced, late>>
  BY DEF ClaimNotices
<1> QED BY <1>3, <1>4, <1>7, <1>8, <1>9, NoticeFrame DEF Inv, JobsTypeOK

LEMMA NotifyInv ==
  ASSUME Inv, NEW w \in Workers, NEW l \in Links, NEW notice \in {"pending", "sent"},
         NEW reached \in BOOLEAN, Notify(w, l, notice, reached)
  PROVE  Inv'
<1>1. \A k \in Links : k # l => link'[k] = link[k]
  BY DEF Inv, JobsTypeOK, Notify
<1>2. link'[l] = [link[l] EXCEPT !.notice = notice, !.lease = "none"]
  BY DEF Inv, JobsTypeOK, Notify
<1>3. "none" \in Leases
  BY DEF Leases
<1>4. \A k \in Links : /\ link'[k] \in Link /\ link'[k].material = link[k].material
                       /\ link'[k].recheck = link[k].recheck
  <2>0. notice \in {"not_required", "pending", "sending", "sent"}
    OBVIOUS
  <2>1. JobsTypeOK /\ \A k \in Links : link[k] \in Link
    BY FieldsTyped DEF Inv
  <2>2. [link[l] EXCEPT !.notice = notice, !.lease = "none"] \in Link
    BY <1>3, <2>0, <2>1, NoticeRewritten
  <2>3. /\ [link[l] EXCEPT !.notice = notice, !.lease = "none"].material = link[l].material
        /\ [link[l] EXCEPT !.notice = notice, !.lease = "none"].recheck = link[l].recheck
    BY <1>3, <2>0, <2>1, NoticeRewritten, ZenonT(60)
  <2> QED BY <1>1, <1>2, <2>1, <2>2, <2>3
<1>5. link' \in [Links -> Link]
  BY <1>4 DEF Notify, Inv, JobsTypeOK
<1>6. \A v \in Workers : v # w => worker'[v] = worker[v]
  BY DEF Inv, JobsTypeOK, Notify
<1>7. worker'[w] = [worker[w] EXCEPT !.notices = worker[w].notices \ {l}]
  BY DEF Inv, JobsTypeOK, Notify
<1>8. worker[w].notices \ {l} \in SUBSET Links
  BY FieldsTyped DEF Inv, Workspace
<1>9. \A v \in Workers : /\ worker'[v] \in Workspace /\ worker'[v].job = worker[v].job
                         /\ worker'[v].late = worker[v].late
                         /\ worker'[v].ingested = worker[v].ingested
  <2>1. JobsTypeOK /\ \A v \in Workers : worker[v] \in Workspace
    BY FieldsTyped DEF Inv
  <2>2. worker'[w] \in Workspace
    BY <1>7, <1>8, <2>1, BatchRewritten
  <2>3. /\ worker'[w].job = worker[w].job /\ worker'[w].late = worker[w].late
        /\ worker'[w].ingested = worker[w].ingested
    BY <1>7, <1>8, <2>1, BatchRewritten
  <2> QED BY <1>6, <2>1, <2>2, <2>3
<1>10. worker' \in [Workers -> Workspace]
  BY <1>9 DEF Notify, Inv, JobsTypeOK
<1>11. UNCHANGED <<job, events, kb, review, raced, late>> /\ told' \subseteq Links
  BY DEF Notify, Inv, JobsTypeOK
<1> QED BY <1>4, <1>5, <1>9, <1>10, <1>11, NoticeFrame

LEMMA NoticeLapsesInv ==
  ASSUME Inv, NEW l \in Links, NoticeLapses(l)
  PROVE  Inv'
<1>1. \A k \in Links : k # l => link'[k] = link[k]
  BY DEF Inv, JobsTypeOK, NoticeLapses
<1>2. link'[l] = [link[l] EXCEPT !.lease = "lapsed"]
  BY DEF Inv, JobsTypeOK, NoticeLapses
<1>3. /\ link'[l] \in Link /\ link'[l].material = link[l].material
      /\ link'[l].recheck = link[l].recheck
  BY <1>2, FieldsTyped DEF Inv, Link, Leases
<1>4. link' \in [Links -> Link]
  BY <1>3 DEF NoticeLapses, Inv, JobsTypeOK
<1>5. UNCHANGED <<job, events, kb, review, worker, told, raced, late>>
  BY DEF NoticeLapses
<1> QED BY <1>1, <1>3, <1>4, <1>5, NoticeFrame, FieldsTyped DEF Inv, JobsTypeOK, Workspace

LEMMA DieInv ==
  ASSUME Inv, NEW w \in Workers, WorkerDies(w)
  PROVE  Inv'
<1>1. /\ worker'[w] = Idle /\ \A v \in Workers : v # w => worker'[v] = worker[v]
      /\ UNCHANGED <<job, link, events, kb, review, told, raced, late>>
  BY DEF Inv, JobsTypeOK, WorkerDies
<1>2. JobsTypeOK'
  <2>1. Idle \in [job : Jobs \cup {NoJob}, source : BOOLEAN, attempt : 0 .. Retries,
                  ingested : BOOLEAN, late : BOOLEAN, notices : SUBSET Links]
    BY DEF Idle, Retries
  <2> QED BY <1>1, <2>1 DEF Inv, JobsTypeOK, WorkerDies
<1>3. SourcesOK'
  BY <1>1 DEF Inv, SourcesOK, RecheckRestsOnSource, Idle
<1>4. WaitsOK'
  BY <1>1 DEF Inv, WaitsOK, NoRecheckForgotten
<1>5. HoldersOK'
  BY <1>1 DEF Inv, HoldersOK, Idle
<1>6. RecheckIsInHistory'
  BY <1>1 DEF Inv, RecheckIsInHistory
<1> QED BY <1>2, <1>3, <1>4, <1>5, <1>6 DEF Inv

LEMMA JobLapsesInv ==
  ASSUME Inv, NEW j \in Jobs, JobLapses(j)
  PROVE  Inv'
<1>1. /\ \A i \in Jobs : job'[i].status = job[i].status
      /\ \A i \in Jobs : i # j => job'[i] = job[i]
      /\ UNCHANGED <<link, events, kb, review, told, raced, late>>
  BY DEF Inv, JobsTypeOK, Job, JobLapses
<1>2. \A w \in Workers : /\ worker'[w].job = worker[w].job
                         /\ worker'[w].ingested = worker[w].ingested
                         /\ worker[w].job = j => worker'[w].late
                         /\ worker[w].job # j => worker'[w] = worker[w]
  BY DEF Inv, JobsTypeOK, JobLapses
<1>3. JobsTypeOK'
  <2>1. job' \in [Jobs -> Job]
    BY DEF Inv, JobsTypeOK, Job, Leases, JobLapses
  <2>2. \A w \in Workers : [worker[w] EXCEPT !.late = TRUE] \in Workspace
    BY FieldsTyped DEF Inv, Workspace
  <2>3. worker' \in [Workers -> Workspace]
    BY <2>2, FieldsTyped DEF Inv, JobLapses
  <2> QED BY <1>1, <2>1, <2>3 DEF Inv, JobsTypeOK, Workspace
<1>4. SourcesOK'
  BY <1>1, <1>2 DEF Inv, SourcesOK, RecheckRestsOnSource
<1>5. WaitsOK'
  BY <1>1, LinkPairs DEF Inv, WaitsOK, NoRecheckForgotten
<1>6. HoldersOK'
  BY <1>1, <1>2 DEF Inv, JobsTypeOK, HoldersOK
<1>7. RecheckIsInHistory'
  BY <1>1 DEF Inv, RecheckIsInHistory
<1> QED BY <1>3, <1>4, <1>5, <1>6, <1>7 DEF Inv

-----------------------------------------------------------------------------

LEMMA NextInv == Inv /\ [JobsNext]_jobsVars => Inv'
<1> SUFFICES ASSUME Inv, [JobsNext]_jobsVars PROVE Inv'
  OBVIOUS
<1>1. CASE \E c \in Cases : StartReview(c) \/ NoImpact(c) \/ MarkCommit(c)
  BY <1>1, StartReviewInv, MarkCommitInv
<1>2. CASE \E c \in Cases, j \in Jobs : Enqueue(c, j)
  BY <1>2, EnqueueInv
<1>3. CASE \E c \in Cases, urls \in SUBSET Urls : MarkImpact(c, urls)
  BY <1>3, MarkImpactInv
<1>4. CASE \E j \in Jobs : Approve(j) \/ Reject(j) \/ Retry(j) \/ JobLapses(j)
  BY <1>4, DecideInv, JobLapsesInv
<1>5. CASE \E w \in Workers : Claim(w) \/ Ingest(w) \/ Finish(w) \/ WorkerDies(w)
  BY <1>5, ClaimInv, IngestInv, FinishInv, DieInv
<1>6. CASE \/ \E w \in Workers, ls \in SUBSET Links : ClaimNotices(w, ls)
           \/ \E w \in Workers, l \in Links : Sent(w, l) \/ NotSent(w, l)
           \/ \E l \in Links : NoticeLapses(l)
  BY <1>6, ClaimNoticesInv, NotifyInv, NoticeLapsesInv DEF Sent, NotSent
<1>7. CASE UNCHANGED jobsVars
  BY <1>7 DEF jobsVars, Inv, JobsTypeOK, SourcesOK, RecheckRestsOnSource, WaitsOK, NoRecheckForgotten,
     HoldersOK, RecheckIsInHistory
<1> QED BY <1>1, <1>2, <1>3, <1>4, <1>5, <1>6, <1>7 DEF JobsNext

LEMMA Invariance == JobsSpec => []Inv
BY InitInv, NextInv, PTL DEF JobsSpec

(* Jobs, links, reviews and workers keep their types.                      *)
THEOREM JobsTypeCorrect == JobsSpec => []JobsTypeOK
<1>1. Inv => JobsTypeOK
  BY DEF Inv
<1> QED BY <1>1, Invariance, PTL

(* No case is told to be rechecked before the page is a published source.  *)
THEOREM RecheckRestsOnSourceHolds == JobsSpec => []RecheckRestsOnSource
<1>1. Inv => RecheckRestsOnSource
  BY DEF Inv, SourcesOK
<1> QED BY <1>1, Invariance, PTL

(* A recheck waiting for its source is released when the job settles: the  *)
(* overlap with mark_impact is the only way to lose it.                    *)
THEOREM NoRecheckForgottenHolds == JobsSpec => []NoRecheckForgotten
<1>1. Inv => NoRecheckForgotten
  BY DEF Inv, WaitsOK
<1> QED BY <1>1, Invariance, PTL

(* The history of a case shows the rechecks it has to make, and no other.  *)
THEOREM RecheckIsInHistoryHolds == JobsSpec => []RecheckIsInHistory
<1>1. Inv => RecheckIsInHistory
  BY DEF Inv
<1> QED BY <1>1, Invariance, PTL

LEMMA OutcomeStep ==
  ASSUME Inv, [JobsNext]_jobsVars, NEW j \in Jobs, job[j].status \in Settled \cup {"rejected"}
  PROVE  job'[j].status = job[j].status \/ j \in late'
<1> USE DEF Settled
<1>1. CASE job' = job
  BY <1>1
<1>2. CASE \E c \in Cases, i \in Jobs : Enqueue(c, i)
  BY <1>2 DEF Enqueue, Inv, JobsTypeOK
<1>3. CASE \E i \in Jobs : Approve(i) \/ Reject(i) \/ Retry(i)
  BY <1>3 DEF Approve, Reject, Retry, Decide, Inv, JobsTypeOK
<1>4. CASE \E i \in Jobs : JobLapses(i)
  BY <1>4 DEF JobLapses, Inv, JobsTypeOK
<1>5. CASE \E w \in Workers : Claim(w)
  <2>1. ASSUME NEW i \in Jobs, Claimable(i) PROVE i # j
    BY <2>1 DEF Claimable
  <2> QED BY <1>5, <2>1 DEF Claim, Inv, JobsTypeOK
<1>6. CASE \E w \in Workers : Finish(w)
  <2> PICK w \in Workers : Finish(w)
    BY <1>6
  <2>1. PICK status \in JobStatus, source \in BOOLEAN : Transition(w, status, source)
    BY FinishIsTransition
  <2>2. CASE worker[w].job # j
    BY <2>1, <2>2 DEF Transition, Inv, JobsTypeOK
  <2>3. CASE worker[w].job = j
    <3>1. worker[w].late \/ j \in late
      BY <2>3, NoJobAssumption DEF Inv, HoldersOK
    <3> QED BY <2>1, <2>3, <3>1 DEF Transition
  <2> QED BY <2>2, <2>3
<1> QED
  BY <1>1, <1>2, <1>3, <1>4, <1>5, <1>6
  DEF JobsNext, jobsVars, StartReview, NoImpact, MarkCommit, MarkImpact, Ingest, WorkerDies, ClaimNotices,
      Sent, NotSent, Notify, NoticeLapses

(* What was published or rejected is overwritten only by a worker that     *)
(* kept its job beyond the lease.                                          *)
THEOREM OutcomeStandsHolds == JobsSpec => OutcomeStandsUnlessLate
<1>1. Inv /\ [JobsNext]_jobsVars =>
        [\A j \in Jobs :
           job[j].status \in Settled \cup {"rejected"} =>
             job'[j].status = job[j].status \/ j \in late']_jobsVars
  BY OutcomeStep
<1> QED BY <1>1, Invariance, PTL DEF JobsSpec, OutcomeStandsUnlessLate

================================================================================
