------------------------------ MODULE MCBilling -----------------------------
(* Constants of the TLC runs of Billing.                                   *)
EXTENDS Billing, TLC

RenewOps == {"ready", "approve"}
ReserveOps == {"cancelAtEnd"}
OverlapOps == {"cancelAtEnd", "withdraw"}

Symmetry == Permutations(Requests) \cup Permutations(Batches)
=============================================================================
