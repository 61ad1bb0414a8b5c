------------------------------- MODULE OneUse -------------------------------
(***************************************************************************)
(* What a store of one-use human authorities promises: an authority is     *)
(* requested once, decided once by a human, and spent at most once, and    *)
(* neither a decision nor a consumption is ever undone or replaced.        *)
(*                                                                         *)
(* Reviewer grants (one per approval nonce) and requesting-user            *)
(* confirmations (one per confirmation id) both promise this.  Dispatch    *)
(* uses the actions below as the atomic effect of a control-plane call;    *)
(* Approval and Confirmation show that the control plane's concurrent      *)
(* read-then-CAS handlers implement them.                                  *)
(***************************************************************************)
CONSTANT Ids                  \* approval nonces, or confirmation ids

VARIABLE use                  \* [Ids -> the authority's record]

Phases == {"none", "pending", "decided", "consumed"}
Authority == [phase : Phases, approved : BOOLEAN]
Absent == [phase |-> "none", approved |-> FALSE]

TypeOK == use \in [Ids -> Authority]
Init == use = [i \in Ids |-> Absent]

(* Creating an authority that exists already changes nothing.              *)
Request(i) ==
  IF use[i].phase = "none" THEN use' = [use EXCEPT ![i].phase = "pending"]
                           ELSE UNCHANGED use

Decide(i, ok) ==
  /\ use[i].phase = "pending"
  /\ use' = [use EXCEPT ![i] = [phase |-> "decided", approved |-> ok]]

Consume(i) ==
  /\ use[i].phase = "decided"
  /\ use' = [use EXCEPT ![i].phase = "consumed"]

Granted(i) == use[i] = [phase |-> "consumed", approved |-> TRUE]

Next == \E i \in Ids : Request(i) \/ Consume(i) \/ \E ok \in BOOLEAN : Decide(i, ok)
Spec == Init /\ [][Next]_use

(* What the holders of an authority rely on: it is not forgotten, the      *)
(* human's answer is not changed, and a consumption is not taken back.     *)
Stays(i) ==
  /\ use[i].phase # "none" => use'[i].phase # "none"
  /\ use[i].phase = "decided" => /\ use'[i].phase \in {"decided", "consumed"}
                                 /\ use'[i].approved = use[i].approved
  /\ use[i].phase = "consumed" => use'[i] = use[i]
NeverUndone == [][\A i \in Ids : Stays(i)]_use
=============================================================================
