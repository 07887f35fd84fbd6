------------------------ MODULE MCTargetBranchQueue ------------------------
(* Model values for TLC runs of TargetBranchQueue. *)
EXTENDS TargetBranchQueue, TLC

CONSTANTS a1, a2, b1

\* One home, one home for each of two workflows, and two homes of one workflow.
OneHome == a1 :> 1
OneHomeEach == (a1 :> 1) @@ (b1 :> 2)
TwoHomes == (a1 :> 1) @@ (a2 :> 1)

AllCommands == {c \in Command : c.kind = "record-failure" => c.reason # LeaseExpired}
\* What moves a candidate through the queue.
DeliveryCommands ==
  {c \in Command :
     \/ c.kind = "observe-pr-checks" /\ c.status # "failure"
     \/ c.kind = "acquire-phase"
     \/ c.kind = "release-for-pr-checks" /\ c.prFreshness = NoFreshness}
=============================================================================
