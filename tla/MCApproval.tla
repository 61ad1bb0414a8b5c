----------------------------- MODULE MCApproval -----------------------------
(* Small instances of Approval: which intent each slot's requests carry.   *)
EXTENDS Approval

CONSTANTS c1, c2, c3, n1, i1, i2

SameIntent  == [c \in Calls |-> i1]
MixedIntent == [c \in Calls |-> IF c = c3 THEN i2 ELSE i1]
=============================================================================
