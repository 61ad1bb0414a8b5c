------------------------------ MODULE MCPilot -------------------------------
(***************************************************************************)
(* What runs beside the governed agent of a pilot: the delivery of its     *)
(* audit receipts, the receivers that invoke it, and the orchestrator that *)
(* drives its workspace.  They share no state, so a behaviour is one of    *)
(* any (the variable part says of which).                                  *)
(***************************************************************************)
EXTENDS AuditSpool

CONSTANTS m1, m2, r1, r2, Messages, Pulled, Replicas, MaxDelivery, Contents, Observed, MaxFaults

ASSUME ReceiversAssumption ==
    Pulled \subseteq Messages /\ None \notin Messages \cup Replicas /\ MaxDelivery \in Nat \ {0}
(* 0 stands for contents that are not there, and the hashes of no two are  *)
(* the same.                                                               *)
ASSUME ContentsAssumption == Contents \cup Observed \subseteq Nat \ {0}
ASSUME FaultsAssumption == MaxFaults \in Nat

VARIABLES
    part,
    messages, lock, deliveries, marks, work, effects,
    inputs, outputs, inventoried, ledger, checkpoint, package, attempt, collection, safe, invoked,
    world, run, manual, meanwhile, faults

receiving == <<messages, lock, deliveries, marks, work, effects>>
driving == <<inputs, outputs, inventoried, ledger, checkpoint, package, attempt, collection, safe,
             invoked, world, run, manual, meanwhile, faults>>

Receivers == INSTANCE Receiver WITH queue <- messages
Driver == INSTANCE Orchestrator

PilotInit ==
    /\ part \in {"audit", "receiver", "orchestrator"}
    /\ Init /\ Receivers!Init /\ Driver!Init

PilotNext ==
    \/ part = "audit" /\ Next /\ UNCHANGED <<part, receiving, driving>>
    \/ part = "receiver" /\ Receivers!Next /\ UNCHANGED <<part, vars, driving>>
    \/ part = "orchestrator" /\ Driver!Next /\ UNCHANGED <<part, vars, receiving>>

(* Each part's own fairness, for the behaviours of that part. *)
PilotSpec ==
    /\ PilotInit /\ [][PilotNext]_<<part, vars, receiving, driving>>
    /\ WF_vars(part = "audit" /\ Sweep)
    /\ SF_vars(part = "audit" /\ \E r \in Receipts : Visit(r))
    /\ \A r \in Receipts : WF_vars(part = "audit" /\ ExportFails(r))
    /\ \A r \in Receipts \ Poisoned :
            /\ SF_vars(part = "audit" /\ Post(r))
            /\ SF_vars(part = "audit" /\ Waits(r) /\ Store(r))
            /\ SF_vars(part = "audit" /\ Deliver(r))
    /\ WF_driving(part = "orchestrator" /\ Driver!Executes)

-----------------------------------------------------------------------------
(* No message leaves its queue before the agent acted on it (Receiver). *)
NoMessageLost == Receivers!NoMessageLost

(* A succeeded attempt is live and deployed the inputs it was authorised   *)
(* for, unless they were put back under it (Orchestrator).                                                         *)
SucceededIsAuthorized == Driver!SucceededIsAuthorized

(* Downstream stages only on a proved deployment (Orchestrator). *)
DownstreamOnProof == Driver!DownstreamOnProof

(* Undisturbed, execute completes the pilot (Orchestrator). *)
Recovers == part = "orchestrator" => Driver!Recovers
=============================================================================
