----------------------- MODULE MCKnowledgePublishing -----------------------
EXTENDS KnowledgePublishing, TLC

CONSTANTS b1, b2

MCShadows == {<<b2, b1>>}

(* No choice in the model looks at which source it is.                     *)
SourcesAlike == Permutations(Sources)
=============================================================================
