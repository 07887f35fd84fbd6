------------------------- MODULE MCWorkflowHomeLock -------------------------
(* Model values for TLC runs of WorkflowHomeLock. *)
EXTENDS WorkflowHomeLock, TLC

CONSTANTS s1, s2, s3
=============================================================================
