-------------------------- MODULE MCTargetDelivery --------------------------
(***************************************************************************)
(* TargetDelivery on two homes that deliver two workflows.                 *)
(***************************************************************************)
EXTENDS TargetDelivery, TLC

CONSTANTS h1, h2

MCWorkflowOf == h1 :> 1 @@ h2 :> 2
MCOneWorkflow == h1 :> 1
MCSha == 1..(1 + MaxFaults + Cardinality(Workflow))
=============================================================================
