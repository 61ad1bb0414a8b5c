------------------------------ MODULE Promotion ------------------------------
(***************************************************************************)
(* What a release promises of every candidate, with its commands atomic:   *)
(* it is received, claimed and promoted, in this order and each once, and  *)
(* only a candidate that was promoted is ever let serve.                   *)
(*                                                                         *)
(* The release runner (Release) is shown to implement it.                  *)
(***************************************************************************)
EXTENDS Naturals

CONSTANT Runs       \* each run releases one candidate

VARIABLES
    rung,           \* how far each candidate is
    serving         \* the candidates admission was opened for

Received == 1
Claimed == 2
Promoted == 3

Init == rung = [r \in Runs |-> 0] /\ serving = {}

Climb(r) ==
    /\ rung[r] < Promoted
    /\ rung' = [rung EXCEPT ![r] = @ + 1]
    /\ UNCHANGED serving

Open(r) ==
    /\ rung[r] = Promoted
    /\ serving' = {r}
    /\ UNCHANGED rung

Stop == serving' = {} /\ UNCHANGED rung

Next == Stop \/ \E r \in Runs : Climb(r) \/ Open(r)
Spec == Init /\ [][Next]_<<rung, serving>>

(* Whatever serves was promoted. *)
OnlyPromotedServes == \A r \in serving : rung[r] = Promoted
=============================================================================
