------------------------ MODULE KnowledgePublishing ------------------------
(***************************************************************************)
(* Publishing a source of the knowledge base, and taking it back           *)
(* (kb/service.py, kb/service_index.py, kb/admin.py).                      *)
(*                                                                         *)
(* A source lives in five places that no transaction spans: the corpus     *)
(* files (manifest, chunks, state, originals), the rows of Elasticsearch,  *)
(* the rows of PostgreSQL, and the recycle bin.  The rows of a new         *)
(* generation are staged, verified, and then switched on in both stores;   *)
(* the files follow, and the old generation is deleted last.  A failure is *)
(* compensated by more calls that may fail themselves, and the process may *)
(* die at any point.  The advisory lock lets one operation run at a time.  *)
(***************************************************************************)
EXTENDS Integers, Sequences, FiniteSets

CONSTANTS
  Sources,      \* source_id
  Bodies,       \* texts of a source, with the chunks made of it
  Metas,        \* manifest records of a source
  Nothing,      \* an absent record, file or entry
  Shadows,      \* <<b, c>>: a temporary copy of b is found before c's original
  Slots,        \* bound: archives in the recycle bin at a time
  MaxGens       \* bound: generations made

VARIABLES
  files,        \* the corpus directory
  rows,         \* the generations each store has rows of
  on,           \* those of them with retrieval_enabled = true
  trash,        \* .knowledge_base_trash
  op,           \* the operation that holds the lock
  made,         \* history: what each generation was made of
  verified,     \* history: generations found complete in both stores
  torn,         \* history: sources a death or a failed compensation left half done
  last          \* history: what was last published of each source not torn since

vars == <<files, rows, on, trash, op, made, verified, torn, last>>

-----------------------------------------------------------------------------

Stores == {"es", "pg"}
Gens == 1 .. MaxGens
NoGen == 0
Docs == [body : Bodies, meta : Metas]
Entry == [hash : Bodies, layout : Bodies, gen : Gens]
Archive == [source : Sources, body : Bodies \cup {Nothing}, meta : Metas]

ASSUME ValuesAssumption ==
  /\ Nothing \notin Sources \cup Bodies \cup Metas \cup Docs \cup Entry \cup Archive
  /\ Shadows \subseteq Bodies \X Bodies
  /\ MaxGens \in Nat

(* temps: copies staged beside the original and not yet renamed.           *)
Files == [manifest : [Sources -> Metas \cup {Nothing}],
          chunks : [Sources -> Docs \cup {Nothing}],
          state : [Sources -> Entry \cup {Nothing}],
          raw : [Sources -> Bodies \cup {Nothing}],
          temps : [Sources -> SUBSET Bodies]]

Steps == {"idle", "embed", "stagePg", "stageEs", "verify", "esOff", "esOn", "pgSwitch",
          "backOff", "backOn", "manifest", "chunks", "state", "raw", "dropEs", "dropPg",
          "rmManifest", "rmChunks", "rmState", "rmRaw", "delEs", "delPg", "restore", "unarchive"}
Undos == {"nothing", "drop", "switch"}

(* gen: the generation published; old: the one it replaces; target, prev:  *)
(* the one being switched on and the one to switch back to; failing: an    *)
(* exception is being compensated, and undo says how far; snap: the files  *)
(* as they were.                                                           *)
Op == [kind : {"none", "import", "edit", "restore", "trash"}, pc : Steps,
       source : Sources \cup {Nothing}, doc : Docs \cup {Nothing}, hash : Bodies \cup {Nothing},
       slot : Slots \cup {Nothing}, gen : Gens \cup {NoGen}, old : Gens \cup {NoGen},
       target : Gens \cup {NoGen}, prev : Gens \cup {NoGen},
       failing : BOOLEAN, undo : Undos, snap : Files \cup {Nothing}]
NoOp == [kind |-> "none", pc |-> "idle", source |-> Nothing, doc |-> Nothing, hash |-> Nothing,
         slot |-> Nothing, gen |-> NoGen, old |-> NoGen, target |-> NoGen, prev |-> NoGen,
         failing |-> FALSE, undo |-> "nothing", snap |-> Nothing]

(* How a call ends: it is done; it had its effect and raised; it raised.   *)
Outcomes == {"done", "lost", "failed"}

At(step) == op.pc = step
Goto(step) == op' = [op EXCEPT !.pc = step]
S == op.source

(* The generation PostgreSQL searches.                                     *)
Searched == IF on["pg"][S] = {} THEN NoGen ELSE CHOOSE g \in on["pg"][S] : TRUE

(* The original readers get: the first source.* in the directory.          *)
Served(t) ==
  LET first == {b \in files.temps[t] : files.raw[t] = Nothing \/ <<b, files.raw[t]>> \in Shadows}
  IN IF first = {} THEN files.raw[t] ELSE CHOOSE b \in first : TRUE

(* _is_current: the same text, chunks and record were published before.    *)
Current(t, doc) ==
  /\ files.state[t] # Nothing /\ files.manifest[t] # Nothing
  /\ files.state[t].hash = doc.body /\ files.state[t].layout = doc.body
  /\ files.manifest[t] = doc.meta

Init ==
  /\ files = [manifest |-> [t \in Sources |-> Nothing], chunks |-> [t \in Sources |-> Nothing],
              state |-> [t \in Sources |-> Nothing], raw |-> [t \in Sources |-> Nothing],
              temps |-> [t \in Sources |-> {}]]
  /\ rows = [store \in Stores |-> [t \in Sources |-> {}]]
  /\ on = [store \in Stores |-> [t \in Sources |-> {}]]
  /\ trash = [slot \in Slots |-> Nothing]
  /\ op = NoOp
  /\ made = <<>> /\ verified = {} /\ torn = {}
  /\ last = [t \in Sources |-> Nothing]
-----------------------------------------------------------------------------
(* Operations begin: the lock is taken.                                    *)

(* The files are saved and, with a file to import, a copy of it is put     *)
(* beside the original.                                                    *)
Begin(kind, t, doc, hash, slot) ==
  /\ Len(made) < MaxGens
  /\ files' = IF kind = "edit" THEN files ELSE [files EXCEPT !.temps[t] = @ \cup {doc.body}]
  /\ op' = [NoOp EXCEPT !.kind = kind, !.pc = "embed", !.source = t, !.doc = doc, !.hash = hash,
                        !.slot = slot, !.snap = files]
  /\ UNCHANGED <<rows, on, trash, made, verified, torn, last>>

(* ingest_prepared; a duplicate is skipped.                                *)
Import(t, doc) ==
  /\ At("idle") /\ ~Current(t, doc)
  /\ Begin("import", t, doc, doc.body, Nothing)

(* update_source_metadata: the stored chunks under another record, with no *)
(* look for a duplicate and no original.                                   *)
Edit(t, meta) ==
  /\ At("idle")
  /\ files.manifest[t] # Nothing /\ files.state[t] # Nothing /\ files.chunks[t] # Nothing
  /\ Begin("edit", t, [body |-> files.chunks[t].body, meta |-> meta], files.state[t].hash, Nothing)

(* restore_source: one of the archives is imported again.                  *)
Restore(slot) ==
  /\ At("idle")
  /\ trash[slot] # Nothing /\ trash[slot].body # Nothing
  /\ LET doc == [body |-> trash[slot].body, meta |-> trash[slot].meta]
     IN  IF Current(trash[slot].source, doc)
           THEN /\ op' = [NoOp EXCEPT !.kind = "restore", !.pc = "unarchive", !.slot = slot]
                /\ UNCHANGED <<files, rows, on, trash, made, verified, torn, last>>
           ELSE Begin("restore", trash[slot].source, doc, doc.body, slot)

(* trash_source: the record and the original readers get are archived.     *)
Trash(t, slot) ==
  /\ At("idle")
  /\ files.manifest[t] # Nothing
  /\ trash[slot] = Nothing
  /\ trash' = [trash EXCEPT ![slot] = [source |-> t, body |-> Served(t), meta |-> files.manifest[t]]]
  /\ op' = [NoOp EXCEPT !.kind = "trash", !.pc = "rmManifest", !.source = t, !.slot = slot,
                        !.snap = files]
  /\ UNCHANGED <<files, rows, on, made, verified, torn, last>>

-----------------------------------------------------------------------------
(* Exceptions.                                                             *)

(* Mutant: a failure after the switch is not switched back.                *)
UndoWithoutSwitch(step) ==
  IF step \in {"stagePg", "stageEs", "rmManifest", "rmChunks", "rmState", "rmRaw", "delEs", "delPg"}
    THEN "nothing" ELSE "drop"

(* What the compensation has to do, by where it starts.                    *)
UndoAt(step) ==
  CASE step \in {"manifest", "chunks", "state", "raw"} /\ op.old # NoGen -> "switch"
    [] step \in {"stagePg", "stageEs", "rmManifest", "rmChunks", "rmState", "rmRaw", "delEs", "delPg"}
         -> "nothing"
    [] OTHER -> "drop"

(* Mutant: a restore that failed clears the archive, too.                  *)
EndedClearing == IF op.kind \in {"trash", "restore"} THEN [op EXCEPT !.pc = "unarchive"] ELSE NoOp

(* The lock is released; restore and a failed removal clear the archive.   *)
Ended == IF op.kind = IF op.failing THEN "trash" ELSE "restore"
           THEN [op EXCEPT !.pc = "unarchive"] ELSE NoOp
EndedFailing == IF op.kind = "trash" THEN [op EXCEPT !.pc = "unarchive", !.failing = TRUE] ELSE NoOp

(* A first exception is compensated; one in a compensation goes through.   *)
Raise == IF op.failing THEN EndedFailing
                       ELSE [op EXCEPT !.pc = "restore", !.failing = TRUE, !.undo = UndoAt(op.pc)]

(* Sources are left half done.                                             *)
Tear(ts) ==
  /\ torn' = torn \cup ts
  /\ last' = [t \in Sources |-> IF t \in ts THEN Nothing ELSE last[t]]
TearIf(lost) == Tear(IF lost THEN {S} ELSE {})

(* The embedding provider fails before anything that is compensated.       *)
EmbedEnds ==
  /\ At("embed")
  /\ \/ /\ op' = [op EXCEPT !.pc = "stagePg", !.gen = Len(made) + 1]
        /\ made' = Append(made, [source |-> S, doc |-> op.doc])
     \/ op' = NoOp /\ made' = made
  /\ UNCHANGED <<files, rows, on, trash, verified, torn, last>>

-----------------------------------------------------------------------------
(* ServiceGenerationIndex: one action for each call of a store.            *)

(* Mutant: rows are staged ready to be found.                              *)
StageEnabled(store, next) ==
  /\ \E outcome \in Outcomes :
       /\ IF outcome = "failed" THEN UNCHANGED <<rows, on>>
            ELSE /\ rows' = [rows EXCEPT ![store][S] = @ \cup {op.gen}]
                 /\ on' = [on EXCEPT ![store][S] = @ \cup {op.gen}]
       /\ op' = IF outcome = "done" THEN [op EXCEPT !.pc = next] ELSE Raise
  /\ UNCHANGED <<files, trash, made, verified, torn, last>>

Stage(store, next) ==
  /\ \E outcome \in Outcomes :
       /\ rows' = IF outcome = "failed" THEN rows ELSE [rows EXCEPT ![store][S] = @ \cup {op.gen}]
       /\ op' = IF outcome = "done" THEN [op EXCEPT !.pc = next] ELSE Raise
  /\ UNCHANGED <<files, on, trash, made, verified, torn, last>>

StagePg == At("stagePg") /\ Stage("pg", "stageEs")
StageEs == At("stageEs") /\ Stage("es", "verify")

(* verify, and the query activate begins with.                             *)
Verify ==
  /\ At("verify")
  /\ \E ok \in BOOLEAN :
       /\ verified' = IF ok THEN verified \cup {op.gen} ELSE verified
       /\ op' = IF ok THEN [op EXCEPT !.pc = "esOff", !.target = op.gen, !.prev = Searched,
                                      !.old = Searched] ELSE Raise
  /\ UNCHANGED <<files, rows, on, trash, made, torn, last>>

(* activate: Elasticsearch in two calls, then PostgreSQL in a transaction. *)
EsOff ==
  /\ At("esOff")
  /\ \E outcome \in Outcomes :
       /\ on' = IF outcome = "failed" THEN on ELSE [on EXCEPT !["es"][S] = {}]
       /\ Goto(IF outcome = "done" THEN "esOn" ELSE "backOff")
  /\ UNCHANGED <<files, rows, trash, made, verified, torn, last>>

EsOn ==
  /\ At("esOn")
  /\ \E outcome \in Outcomes :
       /\ on' = IF outcome = "failed" THEN on
                  ELSE [on EXCEPT !["es"][S] = @ \cup (rows["es"][S] \cap {op.target})]
       /\ Goto(IF outcome = "done" THEN "pgSwitch" ELSE "backOff")
  /\ UNCHANGED <<files, rows, trash, made, verified, torn, last>>

PgSwitch ==
  /\ At("pgSwitch")
  /\ \E outcome \in Outcomes :
       /\ on' = IF outcome = "failed" THEN on
                  ELSE [on EXCEPT !["pg"][S] = rows["pg"][S] \cap {op.target}]
       /\ Goto(CASE outcome # "done" -> "backOff"
                 [] outcome = "done" /\ op.failing -> "dropEs"
                 [] OTHER -> "manifest")
       /\ TearIf(outcome = "lost")
  /\ UNCHANGED <<files, rows, trash, made, verified>>

(* A failed switch: Elasticsearch goes back to what PostgreSQL searches.   *)
BackOff ==
  /\ At("backOff")
  /\ \E outcome \in Outcomes :
       /\ on' = IF outcome = "failed" THEN on ELSE [on EXCEPT !["es"][S] = {}]
       /\ op' = IF outcome = "done" /\ op.prev # NoGen THEN [op EXCEPT !.pc = "backOn"] ELSE Raise
       /\ TearIf(outcome # "done" \/ op.failing)
  /\ UNCHANGED <<files, rows, trash, made, verified>>

BackOn ==
  /\ At("backOn")
  /\ \E outcome \in Outcomes :
       /\ on' = IF outcome = "failed" THEN on
                  ELSE [on EXCEPT !["es"][S] = @ \cup (rows["es"][S] \cap {op.prev})]
       /\ op' = Raise
       /\ TearIf(outcome # "done" \/ op.failing)
  /\ UNCHANGED <<files, rows, trash, made, verified>>

(* Mutant: a generation is deleted with the others of its source.          *)
DeleteAll(store, gens) ==
  /\ rows' = [rows EXCEPT ![store][S] = {}]
  /\ on' = [on EXCEPT ![store][S] = {}]

(* Mutant: the two swapped.                                                *)
DroppedSwapped == IF op.failing THEN op.old ELSE op.gen

(* delete_generation: the old one when all went well, the new one when not.*)
Dropped == IF op.failing THEN op.gen ELSE op.old

Delete(store, gens) ==
  /\ rows' = [rows EXCEPT ![store][S] = @ \ gens]
  /\ on' = [on EXCEPT ![store][S] = @ \ gens]

DropEs ==
  /\ At("dropEs")
  /\ \E outcome \in Outcomes :
       /\ IF outcome = "failed" THEN UNCHANGED <<rows, on>> ELSE Delete("es", {Dropped})
       /\ op' = IF outcome = "done" THEN [op EXCEPT !.pc = "dropPg"] ELSE Ended
       /\ TearIf(outcome # "done" /\ op.failing /\ op.old = NoGen)
  /\ UNCHANGED <<files, trash, made, verified>>

DropPg ==
  /\ At("dropPg")
  /\ \E outcome \in Outcomes :
       /\ IF outcome = "failed" THEN UNCHANGED <<rows, on>> ELSE Delete("pg", {Dropped})
       /\ op' = Ended
       /\ TearIf(outcome = "failed" /\ op.failing /\ op.old = NoGen)
  /\ UNCHANGED <<files, trash, made, verified>>
-----------------------------------------------------------------------------
(* The files of a publication, one action for each file written.           *)

FileStep(step, next, changed) ==
  /\ At(step)
  /\ \/ files' = changed /\ Goto(next)
     \/ files' = files /\ op' = Raise
  /\ UNCHANGED <<rows, on, trash, made, verified, torn, last>>

WriteManifest == FileStep("manifest", "chunks", [files EXCEPT !.manifest[S] = op.doc.meta])
WriteChunks == FileStep("chunks", "state", [files EXCEPT !.chunks[S] = op.doc])
WriteState == FileStep("state", "raw", [files EXCEPT
  !.state[S] = [hash |-> op.hash, layout |-> op.doc.body, gen |-> op.gen]])

(* The staged copy becomes the original, and the other files go; then the  *)
(* source is published.                                                    *)
WriteRaw ==
  /\ At("raw")
  /\ \/ /\ files' = IF op.kind = "edit" THEN files
                      ELSE [files EXCEPT !.raw[S] = op.doc.body, !.temps[S] = {}]
        /\ op' = IF op.old = NoGen THEN Ended ELSE [op EXCEPT !.pc = "dropEs"]
        /\ torn' = IF op.kind = "edit" THEN torn ELSE torn \ {S}
        /\ last' = IF S \in torn' THEN last ELSE [last EXCEPT ![S] = op.doc]
     \/ files' = files /\ op' = Raise /\ UNCHANGED <<torn, last>>
  /\ UNCHANGED <<rows, on, trash, made, verified>>

(* _restore_current_artifacts: files are replaced whole.                   *)
RestoreFiles ==
  /\ At("restore")
  /\ \/ /\ files' = op.snap
        /\ op' = CASE op.undo = "switch" -> [op EXCEPT !.pc = "esOff", !.target = op.old, !.prev = Searched]
                   [] op.undo = "drop" -> [op EXCEPT !.pc = "dropEs"]
                   [] OTHER -> Ended
        /\ UNCHANGED <<torn, last>>
     \/ files' \in {files, op.snap} /\ op' = EndedFailing /\ Tear(Sources)
  /\ UNCHANGED <<rows, on, trash, made, verified>>

-----------------------------------------------------------------------------
(* remove_source, for the recycle bin: the files, then the stores.         *)

RemoveManifest == FileStep("rmManifest", "rmChunks", [files EXCEPT !.manifest[S] = Nothing])
RemoveChunks == FileStep("rmChunks", "rmState", [files EXCEPT !.chunks[S] = Nothing])
RemoveState == FileStep("rmState", "rmRaw", [files EXCEPT !.state[S] = Nothing])
RemoveRaw == FileStep("rmRaw", "delEs", [files EXCEPT !.raw[S] = Nothing, !.temps[S] = {}])

DeleteEs ==
  /\ At("delEs")
  /\ \E outcome \in Outcomes :
       /\ IF outcome = "failed" THEN UNCHANGED <<rows, on>> ELSE Delete("es", rows["es"][S])
       /\ op' = IF outcome = "done" THEN [op EXCEPT !.pc = "delPg"] ELSE Raise
       /\ TearIf(outcome = "lost")
  /\ UNCHANGED <<files, trash, made, verified>>

DeletePg ==
  /\ At("delPg")
  /\ \E outcome \in Outcomes :
       /\ IF outcome = "failed" THEN UNCHANGED <<rows, on>> ELSE Delete("pg", rows["pg"][S])
       /\ op' = IF outcome = "done" THEN NoOp ELSE Raise
       /\ IF outcome = "done" THEN torn' = torn \ {S} /\ last' = last ELSE Tear({S})
  /\ UNCHANGED <<files, trash, made, verified>>

(* The archive is cleared; an error is ignored.                            *)
Unarchive ==
  /\ At("unarchive")
  /\ \/ trash' = [trash EXCEPT ![op.slot] = Nothing]
     \/ trash' = trash
  /\ op' = NoOp
  /\ UNCHANGED <<files, rows, on, made, verified, torn, last>>

-----------------------------------------------------------------------------
(* The process dies and the lock is free.  A manifest or a chunk file that *)
(* was being written in place is left empty, for every source.             *)

Touched == {"esOff", "esOn", "pgSwitch", "backOff", "backOn", "manifest", "chunks", "state", "raw",
            "rmManifest", "rmChunks", "rmState", "rmRaw", "delEs", "delPg", "restore"}

HalfDone == op.pc \in Touched \/ (op.failing /\ ~At("unarchive"))

Die ==
  /\ ~At("idle")
  /\ op' = NoOp
  /\ \/ files' = files /\ TearIf(HalfDone)
     \/ /\ op.pc \in {"manifest", "rmManifest"}
        /\ files' = [files EXCEPT !.manifest = [t \in Sources |-> Nothing]]
        /\ Tear(Sources)
     \/ /\ op.pc \in {"chunks", "rmChunks"}
        /\ files' = [files EXCEPT !.chunks = [t \in Sources |-> Nothing]]
        /\ Tear(Sources)
  /\ UNCHANGED <<rows, on, trash, made, verified>>

IndexStep ==
  \/ EmbedEnds \/ StagePg \/ StageEs \/ Verify \/ EsOff \/ EsOn \/ PgSwitch
  \/ BackOff \/ BackOn \/ DropEs \/ DropPg

Next ==
  \/ \E t \in Sources : \E doc \in Docs : Import(t, doc)
  \/ \E t \in Sources : \E meta \in Metas : Edit(t, meta)
  \/ \E slot \in Slots : Restore(slot) \/ \E t \in Sources : Trash(t, slot)
  \/ IndexStep
  \/ WriteManifest \/ WriteChunks \/ WriteState \/ WriteRaw \/ RestoreFiles
  \/ RemoveManifest \/ RemoveChunks \/ RemoveState \/ RemoveRaw
  \/ DeleteEs \/ DeletePg \/ Unarchive \/ Die

Spec == Init /\ [][Next]_vars
-----------------------------------------------------------------------------
(* Properties.                                                             *)

(* The type of the state.                                                  *)
TypeOK ==
  /\ files \in Files /\ op \in Op
  /\ rows \in [Stores -> [Sources -> SUBSET Gens]]
  /\ on \in [Stores -> [Sources -> SUBSET Gens]]
  /\ trash \in [Slots -> Archive \cup {Nothing}]
  /\ made \in Seq([source : Sources, doc : Docs]) /\ Len(made) <= MaxGens
  /\ verified \subseteq Gens /\ torn \subseteq Sources
  /\ last \in [Sources -> Docs \cup {Nothing}]

(* Retrieval never finds two generations of a source in one store, nor one *)
(* that was not verified complete in both, whatever fails and whenever the *)
(* process dies.                                                           *)
OnlyVerifiedFound ==
  \A store \in Stores : \A t \in Sources :
    /\ \A g, h \in on[store][t] : g = h
    /\ on[store][t] \subseteq verified \cap rows[store][t]

(* The two stores and the four files of a source, written one after the    *)
(* other, agree whenever no operation runs, after failures too, unless a   *)
(* death or a failing compensation left the source half done; publishing   *)
(* its file again, or removing it, makes that good.                        *)
StoresAgree ==
  At("idle") => \A t \in Sources \ torn :
    IF files.state[t] = Nothing
      THEN /\ files.manifest[t] = Nothing /\ files.chunks[t] = Nothing /\ files.raw[t] = Nothing
           /\ \A store \in Stores : on[store][t] = {}
      ELSE /\ files.manifest[t] = files.chunks[t].meta
           /\ files.raw[t] = files.chunks[t].body
           /\ files.state[t].hash = files.chunks[t].body
           /\ files.state[t].layout = files.chunks[t].body
           /\ made[files.state[t].gen] = [source |-> t, doc |-> files.chunks[t]]
           /\ \A store \in Stores : on[store][t] = {files.state[t].gen}

(* A published source can be found at every moment while it is replaced,   *)
(* or a replacement fails: Elasticsearch is switched in two calls, and     *)
(* PostgreSQL searches one generation all along.                           *)
AlwaysFindable ==
  \A t \in Sources \ torn :
    files.state[t] # Nothing /\ (op.kind = "trash" => op.source # t) => on["pg"][t] # {}

(* What was last published of a source is in the corpus or can be restored *)
(* from the recycle bin as it was, through failed removals and restores;   *)
(* only the copy a failed import left behind may be archived in its place. *)
NothingLost ==
  \A t \in Sources : last[t] # Nothing =>
    \/ files.manifest[t] # Nothing
    \/ \E slot \in Slots, b \in {last[t].body} \cup {c \in Bodies : <<c, last[t].body>> \in Shadows} :
         trash[slot] = [source |-> t, body |-> b, meta |-> last[t].meta]

-----------------------------------------------------------------------------
(* The promise stated in PublishedCorpus.  No source is worked on any more *)
(* while an archive is cleared or an old generation deleted; until then    *)
(* the corpus is what the files were made of when the operation began.     *)
AtRest == op.pc \in {"idle", "unarchive"}
Dropping == {"dropEs", "dropPg"}
Finishing == op.pc \in Dropping /\ ~op.failing
Working == ~AtRest /\ ~Finishing

InCorpus ==
  [t \in Sources |-> IF t \in torn THEN Nothing
                     ELSE IF Working /\ t = S THEN op.snap.chunks[t] ELSE files.chunks[t]]
Found == [store \in Stores |-> [t \in Sources |-> {made[g].doc : g \in on[store][t]}]]
Wish == IF op.kind = "trash" THEN Nothing ELSE op.doc
UnderWay == IF Working THEN [source |-> S, doc |-> Wish]
                       ELSE [source |-> Nothing, doc |-> Nothing]

Promise == INSTANCE PublishedCorpus WITH
  corpus <- InCorpus, broken <- torn, found <- Found, work <- UnderWay

(* Publishing, editing, removing or restoring a source happens as a whole  *)
(* or not at all for whoever searches, over failures and lost answers.     *)
ImplementsCorpus == Promise!Spec
=============================================================================
