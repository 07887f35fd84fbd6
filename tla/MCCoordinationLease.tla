------------------------ MODULE MCCoordinationLease ------------------------
(* Model values for TLC runs of CoordinationLease. *)
EXTENDS CoordinationLease, TLC

HomeSymmetry == Permutations(Home)
=============================================================================
