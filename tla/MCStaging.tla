----------------------------- MODULE MCStaging ------------------------------
(***************************************************************************)
(* What tries a candidate before it serves: the live governance probe and  *)
(* the release runner.  They share no state, so a behaviour is one of      *)
(* either (the variable part says of which).  Calls and runs are           *)
(* interchangeable.                                                        *)
(***************************************************************************)
EXTENDS Probe, TLC

CONSTANTS c1, c2, c3, r1, r2, CIRuns, Operator

ASSUME DistinctActors ==
    /\ Operator \notin CIRuns /\ None \notin CIRuns \cup {Operator}
    /\ None \notin [actor : CIRuns \cup {Operator},
                    does : {"prepare", "promote", "stop", "open"}, expected : Nat]

VARIABLES part, step, call, line, live, admission, op, receipts, claimed, over, promoted, moved

releasing == <<step, call, line, live, admission, op, receipts, claimed, over, promoted, moved>>

Releases == INSTANCE Release WITH Runs <- CIRuns, pc <- step, wire <- line

StagingInit == part \in {"probe", "release"} /\ Init /\ Releases!Init

StagingNext ==
    \/ part = "probe" /\ Next /\ UNCHANGED <<part, releasing>>
    \/ part = "release" /\ Releases!Next /\ UNCHANGED <<part, vars>>

StagingSpec == StagingInit /\ [][StagingNext]_<<part, vars, releasing>>

StagingSymmetry == Permutations(Calls) \cup Permutations(CIRuns)

-----------------------------------------------------------------------------
(* What a run is released on describes one deployment (Release). *)
EvidenceIsOfOneDeployment == Releases!EvidenceIsOfOneDeployment

(* No run is promoted twice (Release). *)
PromotedOnce == Releases!PromotedOnce

(* Receipt, claim and promotion in order and once, admission last          *)
(* (Release). *)
ImplementsPromotion == Releases!ImplementsPromotion

(* Admission stays stopped (Release). *)
StoppedStaysStopped == Releases!StoppedStaysStopped
=============================================================================
