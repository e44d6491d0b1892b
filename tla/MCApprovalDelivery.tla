---- MODULE MCApprovalDelivery ----
EXTENDS ApprovalDelivery
====
