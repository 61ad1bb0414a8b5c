----------------------------- MODULE DecideOnce -----------------------------
(***************************************************************************)
(* What a create-only or compare-and-set slot promises its users: of all   *)
(* the values proposed one is chosen, whole and for good, and whoever is   *)
(* told an outcome is told that one.                                       *)
(*                                                                         *)
(* The publication of a bootstrap record (Bootstrap), the decision of an   *)
(* approval (Approval) and the binding of a context to one confirmation    *)
(* (Confirmation) are shown to implement it.                               *)
(***************************************************************************)
CONSTANTS
    Values,     \* what may be chosen
    Learners    \* who is told what was chosen

VARIABLES
    chosen,     \* the values chosen
    learned     \* [Learners -> what each was told]

Init == chosen = {} /\ learned = [l \in Learners |-> {}]

Choose ==
    /\ chosen = {}
    /\ \E v \in Values : chosen' = {v}
    /\ UNCHANGED learned

Learn(l) ==
    /\ chosen # {}
    /\ learned' = [learned EXCEPT ![l] = chosen]
    /\ UNCHANGED chosen

Next == Choose \/ \E l \in Learners : Learn(l)
Spec == Init /\ [][Next]_<<chosen, learned>>

(* No two learners, and no learner at two times, are told different values. *)
Agreement == \A l \in Learners : \A v \in learned[l] : chosen = {v}

(* The choice is never withdrawn or replaced. *)
ChosenForGood == [][chosen # {} => chosen' = chosen]_<<chosen, learned>>
=============================================================================
