-------------------------- MODULE MCQAConversations ---------------------------
(* Two conversations; the second only brings the work of others.           *)
EXTENDS QAConversations, TLC

CONSTANTS c1, c2, q1, q2, q3

MCConvOf == q1 :> c1 @@ q2 :> c1 @@ q3 :> c2
====
