---- MODULE MCReviewTasks ----
EXTENDS ReviewTasks
====
