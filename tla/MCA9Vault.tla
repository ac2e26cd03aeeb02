----------------------------- MODULE MCA9Vault -----------------------------
(* A9Vault with one assertion, renewed while its binding is routed, and the *)
(* retention sweep, for TLC.                                                *)
EXTENDS A9Vault, TLC

CONSTANTS b1, e1

RenewControls == {[epoch |-> e1, seq |-> n, action |-> "upsert", binding |-> b1, version |-> n] :
                     n \in {1, 2}}
RenewMarks == {[epoch |-> e1, seq |-> 1, committed |-> 1, status |-> "current"]}
RenewRequests == {[epoch |-> e1, generation |-> 1, subs |-> b1 :> 1, identity |-> "i"]}
============================================================================
