----------------------------- MODULE MCIndexJobs -----------------------------
(* Two jobs of one kind, two workers, two attempts each.  The lease runs   *)
(* out before the deadline, so leases expire, are renewed and clamped.     *)
EXTENDS IndexJobs

CONSTANTS w1, w2

MCKindOf == [j \in Jobs |-> "repository_graph"]
=============================================================================
