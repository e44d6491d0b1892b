---------------------------- MODULE MCReviewCase ----------------------------
EXTENDS ReviewCase

CONSTANTS v1, v2

MCFacts == {v1, v2}
MCInputs == MCFacts \X (0 .. MaxFrozen - 1)

(* Nothing tells one content of an intake, or one worker, from another.    *)
CaseSymmetry == Permutations(MCFacts) \cup Permutations(Workers)
=============================================================================
