--------------------------- MODULE MCDeliveryJobs ---------------------------
(***************************************************************************)
(* Instances of DeliveryJobs for TLC.  The functions the constants need    *)
(* are built from the model values of each configuration.                  *)
(***************************************************************************)
EXTENDS DeliveryJobs, TLC

CONSTANTS s1, s2, w1, w2, j1, j2, l1, l2, i1, t1, t2, e1

OneInstallation == [l \in Leases |-> i1]
OneServer == [w \in Workers |-> s1]
ServerEach == [w \in Workers |-> IF w = w1 THEN s1 ELSE s2]

JobSymmetry == Permutations(JobIds)
TokenSymmetry == Permutations(Tokens)
=============================================================================
