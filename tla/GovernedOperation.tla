------------------------- MODULE GovernedOperation --------------------------
(***************************************************************************)
(* What the gateway promises about one governed operation, whoever asks    *)
(* for it and however often: it may wait for humans, is rejected or        *)
(* reserved once, and its business effect runs at most once, only after    *)
(* the reservation; the recorded outcome is what happened to the effect.   *)
(***************************************************************************)
VARIABLES phase,    \* the operation as the ledger shows it
          effect    \* the business effect: "clean", "executed" or "fenced"

vars == <<phase, effect>>

Init == phase = "open" /\ effect = "clean"

Wait    == phase \in {"open", "waiting"} /\ phase' = "waiting" /\ UNCHANGED effect
Reject  == phase = "waiting" /\ phase' = "rejected" /\ UNCHANGED effect
Reserve == phase \in {"open", "waiting"} /\ phase' = "reserved" /\ UNCHANGED effect

(* The effect runs, or is made impossible, only while reserved.            *)
Settle  == /\ phase = "reserved" /\ effect = "clean"
           /\ effect' \in {"executed", "fenced"} /\ UNCHANGED phase
Record  == /\ phase = "reserved"
           /\ \/ effect = "executed" /\ phase' = "done"
              \/ effect = "fenced" /\ phase' = "fenced"
           /\ UNCHANGED effect

Next == Wait \/ Reject \/ Reserve \/ Settle \/ Record
Spec == Init /\ [][Next]_vars

-----------------------------------------------------------------------------
(* What its readers rely on: an operation that is open, waits or was       *)
(* rejected has had no effect, and a recorded outcome is what happened.    *)
OutcomeIsEffect ==
  /\ phase \in {"open", "waiting", "rejected"} => effect = "clean"
  /\ phase = "done" => effect = "executed"
  /\ phase = "fenced" => effect = "fenced"

(* What happened to the effect stands, and an operation that ended stays   *)
(* as it is: nothing runs after a rejection or a fence, or a second time.  *)
Ends == /\ effect # "clean" => UNCHANGED effect
        /\ phase \in {"rejected", "done", "fenced"} => UNCHANGED vars
EndsForGood == [][Ends]_vars
=============================================================================
