--------------------------- MODULE MCEnrichmentJobs ---------------------------
EXTENDS EnrichmentJobs, TLC

CONSTANTS j1, u1

MCUrlOf == j1 :> u1
====
