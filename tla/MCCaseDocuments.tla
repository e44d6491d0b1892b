--------------------------- MODULE MCCaseDocuments ---------------------------
(* One material with two passages: each has an issue of the review, and one *)
(* of them an annotation as well.                                           *)
EXTENDS CaseDocuments, TLC

CONSTANTS m1, s1, s2, f1, f2, a1

MCPlaceOf == f1 :> <<m1, s1>> @@ f2 :> <<m1, s2>> @@ a1 :> <<m1, s2>>

(* Nothing tells one row of revision_proposals from another.                *)
ProposalSymmetry == Permutations(Proposals)
=============================================================================
