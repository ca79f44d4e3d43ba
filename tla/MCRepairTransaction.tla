------------------------ MODULE MCRepairTransaction ------------------------
(* Instances of RepairTransaction: who repairs which thread. *)
EXTENDS RepairTransaction, TLC

CONSTANTS t1, t2, r1, r2

SingleTarget == r1 :> t1
OwnTargets   == r1 :> t1 @@ r2 :> t2
=============================================================================
