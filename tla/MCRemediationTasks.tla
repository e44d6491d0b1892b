------------------------ MODULE MCRemediationTasks ------------------------
(***************************************************************************)
(* RemediationTasks with a fact to confirm (f1), a recommendation to work  *)
(* on after the approval (p1) and a task planned by hand (m1).             *)
(***************************************************************************)
EXTENDS RemediationTasks

CONSTANTS f1, p1, m1
=============================================================================
