--------------------------- MODULE PublishedCorpus ---------------------------
(***************************************************************************)
(* What publishing promises those who search (docs/SERVICE_STACK.md: a new *)
(* text is not found at first, and switched to in one step when it is      *)
(* complete), without generations, files, compensation or a recycle bin:   *)
(* the corpus holds one document of a source, the one found in both        *)
(* stores; one source is worked on at a time; the work is committed when   *)
(* both stores find the new document, or given up when both find the old   *)
(* one again; until then a store finds the old, the new or none.  A source *)
(* may be left broken, of which nothing is promised until it is published  *)
(* or removed again.                                                       *)
(***************************************************************************)

CONSTANTS Sources, Docs, Stores, Nothing

VARIABLES
  corpus,  \* the document of each source, or Nothing
  broken,  \* sources left half done
  found,   \* the documents each store finds of each source
  work     \* the source worked on and the document it is to have

vars == <<corpus, broken, found, work>>

Free == [source |-> Nothing, doc |-> Nothing]
Copies(doc) == {doc} \ {Nothing}

Init ==
  /\ corpus = [t \in Sources |-> Nothing]
  /\ broken = {}
  /\ found = [store \in Stores |-> [t \in Sources |-> {}]]
  /\ work = Free

(* Nothing as doc asks for a removal.                                      *)
Begin(t, doc) ==
  /\ work = Free
  /\ work' = [source |-> t, doc |-> doc]
  /\ UNCHANGED <<corpus, broken, found>>

(* Whatever is done to a source, the others are found as before.           *)
AtWork ==
  /\ work # Free
  /\ found' \in [Stores -> [Sources -> SUBSET Docs]]
  /\ \A store \in Stores : \A t \in Sources \ {work.source} : found'[store][t] = found[store][t]

Switch ==
  /\ AtWork
  /\ work.source \notin broken =>
       \A store \in Stores : found'[store][work.source] \subseteq {corpus[work.source], work.doc}
  /\ UNCHANGED <<corpus, broken, work>>

Commit ==
  /\ AtWork
  /\ \A store \in Stores : found'[store][work.source] = Copies(work.doc)
  /\ corpus' = [corpus EXCEPT ![work.source] = work.doc]
  /\ broken' = broken \ {work.source}
  /\ work' = Free

GiveUp ==
  /\ AtWork
  /\ work.source \notin broken =>
       \A store \in Stores : found'[store][work.source] = Copies(corpus[work.source])
  /\ work' = Free
  /\ UNCHANGED <<corpus, broken>>

Break(ts) ==
  /\ AtWork
  /\ work.source \in ts
  /\ corpus' = [t \in Sources |-> IF t \in ts THEN Nothing ELSE corpus[t]]
  /\ broken' = broken \cup ts
  /\ work' \in {work, Free}

Next ==
  \/ \E t \in Sources, doc \in Docs \cup {Nothing} : Begin(t, doc)
  \/ Switch \/ Commit \/ GiveUp
  \/ \E ts \in {{work.source}, Sources} : Break(ts)

Spec == Init /\ [][Next]_vars
=============================================================================
