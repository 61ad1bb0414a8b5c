----------------------------- MODULE MCDispatch -----------------------------
(* Small instances of Dispatch: who carries which arguments, what the      *)
(* signed policy decides on which facts.                                   *)
EXTENDS Dispatch, TLC

CONSTANTS a1, a2, a3, a4, o1, i1, i2, s1, s2, s3

SameInput  == [a \in Attempts |-> i1]
MixedInput == [a \in Attempts |-> IF a = a2 THEN i2 ELSE i1]
(* Attempts with the same arguments are interchangeable.                    *)
AttemptSymmetry == Permutations({a1, a3, a4})

Allows     == [s \in Safes |-> "allow"]
Escalates  == [s \in Safes |-> "escalate"]
Varies     == [s \in Safes |->
                 CASE s = s1 -> "allow" [] s = s2 -> "escalate" [] OTHER -> "deny"]
=============================================================================
