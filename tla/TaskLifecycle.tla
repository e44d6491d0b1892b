---------------------------- MODULE TaskLifecycle ----------------------------
(***************************************************************************)
(* What the review-task queue promises its callers, without leases, rows   *)
(* or checkpoints: a task moves through                                    *)
(*   queued -> running -> waiting_input -> (queued again) ->               *)
(*   succeeded / failed / superseded                                       *)
(* (docs/architecture.md), a worker needs a grant to run it, every grant   *)
(* carries a token never used before for that task, and only the grant     *)
(* with the newest token may end a run.  Taking a grant away tells nobody: *)
(* its holder goes on until its next write.                                *)
(***************************************************************************)
EXTENDS Naturals

CONSTANTS Tasks, Workers, NoTask

VARIABLES
  phase,   \* status of each task
  token,   \* newest token of each task
  grant    \* the task and token each worker believes it holds

vars == <<phase, token, grant>>

NoGrant == [task |-> NoTask, token |-> 0]

Init ==
  /\ phase = [t \in Tasks |-> "absent"]
  /\ token = [t \in Tasks |-> 0]
  /\ grant = [w \in Workers |-> NoGrant]

(* Some runs are taken from their holders, for good or to be run again.    *)
Revoked(S, new) ==
  /\ \A t \in S : phase[t] = "running" /\ new[t] \in {"queued", "failed"}
  /\ \A t \in Tasks \ S : new[t] = phase[t]

Submit(t) ==
  /\ phase[t] = "absent"
  /\ phase' = [phase EXCEPT ![t] = "queued"]
  /\ UNCHANGED <<token, grant>>

Revoke ==
  /\ phase' \in [Tasks -> {"absent", "queued", "running", "waiting_input",
                           "succeeded", "failed", "superseded"}]
  /\ \E S \in SUBSET Tasks : Revoked(S, phase')
  /\ UNCHANGED <<token, grant>>

(* A grant is given in the transaction that takes expired ones away.       *)
Give(w, t) ==
  /\ grant[w] = NoGrant
  /\ \E S \in SUBSET Tasks, new \in [Tasks -> {"absent", "queued", "running", "waiting_input",
                                               "succeeded", "failed", "superseded"}] :
       /\ Revoked(S, new)
       /\ new[t] = "queued"
       /\ phase' = [new EXCEPT ![t] = "running"]
  /\ token' = [token EXCEPT ![t] = @ + 1]
  /\ grant' = [grant EXCEPT ![w] = [task |-> t, token |-> token[t] + 1]]

Holds(w, t) == grant[w] = [task |-> t, token |-> token[t]] /\ phase[t] = "running"

Settle(w, t) ==
  /\ Holds(w, t)
  /\ \E outcome \in {"waiting_input", "succeeded", "failed"} :
       phase' = [phase EXCEPT ![t] = outcome]
  /\ grant' = [grant EXCEPT ![w] = NoGrant]
  /\ UNCHANGED token

Drop(w) ==
  /\ grant[w] # NoGrant
  /\ grant' = [grant EXCEPT ![w] = NoGrant]
  /\ UNCHANGED <<phase, token>>

Reopen(t) ==
  /\ phase[t] \in {"waiting_input", "succeeded", "failed"}
  /\ phase' = [phase EXCEPT ![t] = "queued"]
  /\ UNCHANGED <<token, grant>>

Close(S) ==
  /\ \A t \in S : phase[t] = "waiting_input"
  /\ phase' = [t \in Tasks |-> IF t \in S THEN "superseded" ELSE phase[t]]
  /\ UNCHANGED <<token, grant>>

Next ==
  \/ \E t \in Tasks : Submit(t) \/ Reopen(t)
  \/ \E w \in Workers : Drop(w) \/ (\E t \in Tasks : Give(w, t) \/ Settle(w, t))
  \/ \E S \in SUBSET Tasks : Close(S)
  \/ Revoke

Spec == Init /\ [][Next]_vars
=============================================================================
