------------------------------ MODULE Release -------------------------------
(***************************************************************************)
(* The release runner: a CI run validates a candidate on a shared target,  *)
(* promotes it once, and opens production admission after the post-checks. *)
(* Several runs, and an operator who reconciles, may be at work at once; a *)
(* command the runner gave up on may still land.                           *)
(*                                                                         *)
(* release_runner.py, returns_release.py (the selected application) and    *)
(* returns_gateway_operator.py; the deployment commands are external.      *)
(***************************************************************************)
EXTENDS Naturals

CONSTANTS
    Runs,           \* CI attempts; each builds a version of its own
    Operator,       \* whoever runs the reconcile command
    None

Actors == Runs \cup {Operator}
Targets == {"validation", "production"}

VARIABLES
    pc,         \* where each actor stands
    call,       \* the command each actor waits for, or None
    wire,       \* commands on their way, also those nobody waits for
    live,       \* target -> the run whose version is deployed there
    admission,  \* the gateway's admission record; rev stands for its hash
    op,         \* the durable promotion record of each run
    receipts,   \* runs with a candidate receipt
    claimed,    \* runs with a promotion state file
    over,       \* runs that had ended when the operator began
    promoted,   \* history: promotions executed per run
    moved       \* history: runs whose target changed under their evidence

remote == <<live, admission, op, promoted, moved>>
files == <<receipts, claimed, over>>
vars == <<pc, call, wire, remote, files>>

(* What follows each step that succeeds. *)
Then == [prepare |-> "prepared", prepared |-> "evals", evals |-> "redteam", redteam |-> "mcp",
         mcp |-> "final", final |-> "validated",
         stop |-> "closed", closed |-> "operation", promote |-> "unmoved", unmoved |-> "observe",
         observe |-> "complete", complete |-> "postcheck", postcheck |-> "reobserve",
         reobserve |-> "recheck", recheck |-> "admit", admit |-> "readback", readback |-> "done",
         abort |-> "aborting", aborting |-> "aborted",
         reconcile |-> "reconciling", reconciling |-> "reconciled"]

Commands == [prepare |-> "prepare", promote |-> "promote", admit |-> "open",
             stop |-> "stop", abort |-> "stop", reconcile |-> "stop"]
Completion == {"complete", "postcheck", "reobserve", "recheck", "admit", "readback"}
Closing == {"closed", "unmoved", "complete", "recheck", "aborting", "reconciling"}
Collecting == [validation |-> {"evals", "redteam", "mcp", "final"},
               production |-> {"complete", "postcheck", "reobserve"}]
Ended == {"failed", "aborted", "done"}

Init ==
    /\ pc = [a \in Actors |-> "idle"]
    /\ call = [a \in Actors |-> None]
    /\ wire = {}
    /\ live = [t \in Targets |-> None]
    /\ admission = [state |-> "open", rev |-> 0, by |-> None]
    /\ op = [r \in Runs |-> "absent"]
    /\ receipts = {}
    /\ claimed = {}
    /\ over = {}
    /\ promoted = [r \in Runs |-> 0]
    /\ moved = {}

Goto(a, label) == pc' = [pc EXCEPT ![a] = label]
Advance(a) == Goto(a, Then[pc[a]])
ReadOnly == UNCHANGED <<call, wire, remote, files>>

-----------------------------------------------------------------------------
(* execute: the command leaves, and is waited for until the timeout.       *)
Execute(a) ==
    /\ pc[a] \in DOMAIN Commands
    /\ call[a] = None
    /\ call' = [call EXCEPT ![a] =
           [actor |-> a, does |-> Commands[pc[a]], expected |-> admission.rev]]
    /\ wire' = wire \cup {call'[a]}
    /\ UNCHANGED <<pc, remote, files>>

(* The answer reaches its actor unless the actor gave up. *)
Answer(m, label) ==
    IF call[m.actor] = m
    THEN Goto(m.actor, label) /\ call' = [call EXCEPT ![m.actor] = None]
    ELSE UNCHANGED <<pc, call>>

(* A deployment lands: the target runs this run's version from now on. *)
Deploy(m) ==
    LET t == IF m.does = "prepare" THEN "validation" ELSE "production" IN
        /\ m.does \in {"prepare", "promote"}
        /\ wire' = wire \ {m}
        /\ live' = [live EXCEPT ![t] = m.actor]
        /\ moved' = moved \cup {r \in Runs : pc[r] \in Collecting[t] /\ live[t] = r}
        /\ IF m.does = "promote"
           THEN /\ op' = [op EXCEPT ![m.actor] = "prepared"]
                /\ promoted' = [promoted EXCEPT ![m.actor] = @ + 1]
           ELSE UNCHANGED <<op, promoted>>
        /\ Answer(m, Then[m.does])
        /\ UNCHANGED <<admission, files>>

(* The gateway writes admission only over the record the command inspected. *)
BlindlyAgrees(m) == TRUE                       \* bug: the record is overwritten
Agrees(m) == m.expected = admission.rev

Admission(m) ==
    /\ m.does \in {"stop", "open"}
    /\ wire' = wire \ {m}
    /\ IF Agrees(m)
       THEN admission' = [state |-> IF m.does = "open" THEN "open" ELSE "stopped",
                          rev |-> admission.rev + 1, by |-> m.actor]
       ELSE UNCHANGED admission
    /\ Answer(m, IF Agrees(m) THEN Then[pc[m.actor]]
                 ELSE IF m.does = "open" THEN "abort" ELSE "failed")
    /\ UNCHANGED <<live, op, promoted, moved, files>>

(* A refusal, a timeout or a lost runner.  A failure while an application  *)
(* is being completed, unless the runner is lost, first stops admission.   *)
Fail(a) ==
    /\ pc[a] \notin Ended \cup {"idle", "validated", "reconciled"}
    /\ \E label \in {"failed"} \cup (IF pc[a] \in Completion THEN {"abort"} ELSE {}) :
           Goto(a, label)
    /\ call' = [call EXCEPT ![a] = None]
    /\ UNCHANGED <<wire, remote, files>>

-----------------------------------------------------------------------------
(* The steps of a run that only read.                                      *)

Begin(r) ==
    /\ pc[r] = "idle"
    /\ Goto(r, "prepare")
    /\ ReadOnly

(* The observer has to report this run's own source, image and version. *)
ObservedOnce(r, t) == pc[r] \in {"prepared", "observe"} => live[t] = r \* bug: only observed before
Observed(r, t) == live[t] = r

(* The candidate before and after the evidence, production after promotion *)
(* and again after the post-checks; the receipt follows the second.        *)
Observe(r) ==
    /\ pc[r] \in {"prepared", "final", "observe", "reobserve"}
    /\ Observed(r, IF pc[r] \in {"prepared", "final"} THEN "validation" ELSE "production")
    /\ Advance(r)
    /\ receipts' = receipts \cup (IF pc[r] = "final" THEN {r} ELSE {})
    /\ UNCHANGED <<call, wire, remote, claimed, over>>

(* A producer's evidence, or the post-checks. *)
Collect(r) ==
    /\ pc[r] \in {"evals", "redteam", "mcp", "postcheck"}
    /\ Advance(r)
    /\ ReadOnly

(* promote may be started again, by hand, on the same receipt; the state   *)
(* file is created and never reopened.                                     *)
AlwaysClaimable(r) == TRUE                     \* bug: the state file is opened again
Claimable(r) == r \notin claimed

Claim(r) ==
    /\ pc[r] \in Ended \cup {"validated"}
    /\ r \in receipts
    /\ Claimable(r)
    /\ claimed' = claimed \cup {r}
    /\ Goto(r, "stop")
    /\ UNCHANGED <<call, wire, remote, receipts, over>>

(* The durable record decides whether the promotion is still to be run. *)
Operation(r) ==
    /\ pc[r] = "operation"
    /\ Goto(r, IF op[r] = "absent" THEN "promote" ELSE "unmoved")
    /\ ReadOnly

Closed(a) ==
    /\ pc[a] \in Closing
    /\ admission.state = "stopped"
    /\ Advance(a)
    /\ ReadOnly

Readback(r) ==
    /\ pc[r] = "readback"
    /\ admission.state = "open" /\ admission.by = r
    /\ Advance(r)
    /\ ReadOnly

(* reconcile stops, reads and reports; it never promotes or opens.  One    *)
(* reconciliation, at any time: each adds a revision.                      *)
Reconcile ==
    /\ pc[Operator] = "idle"
    /\ Goto(Operator, "reconcile")
    /\ over' = {r \in Runs : pc[r] \in Ended}
    /\ UNCHANGED <<call, wire, remote, receipts, claimed>>

Run(r) ==
    Begin(r) \/ Observe(r) \/ Collect(r) \/ Claim(r) \/ Operation(r) \/ Readback(r)

Next ==
    \/ \E r \in Runs : Run(r)
    \/ \E a \in Actors : Execute(a) \/ Closed(a) \/ Fail(a)
    \/ \E m \in wire : Deploy(m) \/ Admission(m)
    \/ Reconcile

Spec == Init /\ [][Next]_vars

-----------------------------------------------------------------------------
TypeOK ==
    /\ pc \in [Actors -> DOMAIN Then \cup Ended \cup {"idle", "operation", "validated", "reconciled"}]
    /\ wire \subseteq [actor : Actors, does : {"prepare", "promote", "stop", "open"}, expected : Nat]
    /\ \A a \in Actors : call[a] # None => call[a].actor = a /\ call[a].does = Commands[pc[a]]
    /\ live \in [Targets -> Runs \cup {None}]
    /\ admission \in [state : {"open", "stopped"}, rev : Nat, by : Actors \cup {None}]
    /\ op \in [Runs -> {"absent", "prepared"}]
    /\ receipts \cup claimed \cup over \cup moved \subseteq Runs
    /\ claimed \subseteq receipts
    /\ promoted \in [Runs -> Nat]

(* The candidate of a receipt stayed deployed on the shared validation     *)
(* target while its evidence was produced, and production stayed the run's *)
(* own while it was post-checked, before the run opens admission, whatever *)
(* other runs and late commands did.                                       *)
EvidenceIsOfOneDeployment ==
    /\ \A r \in receipts : r \in moved => r \in claimed
    /\ admission.state = "open" => admission.by \notin moved

(* A promotion of unknown outcome is not executed a second time, neither   *)
(* by starting the run again nor by reconciling it.                        *)
PromotedOnce == \A r \in Runs : promoted[r] <= 1

(* Every candidate is received, claimed and promoted in this order, each   *)
(* once, and admission is opened only for one that was promoted, although  *)
(* commands land late, are repeated by hand and race other runs' ones.     *)
Ladder == INSTANCE Promotion WITH
    rung <- [r \in Runs |-> IF r \in claimed THEN 2 + promoted[r]
                            ELSE IF r \in receipts THEN 1 ELSE 0],
    serving <- {r \in Runs : admission.state = "open" /\ admission.by = r}
ImplementsPromotion == Ladder!Spec

(* A run that reported its admission stopped does not open it any more,    *)
(* nor does, after a reconciliation, any run that had ended before: an     *)
(* open still on its way finds another record than the one it inspected.   *)
StoppedStaysStopped ==
    admission.state = "open" /\ admission.by # None =>
        /\ pc[admission.by] # "aborted"
        /\ pc[Operator] = "reconciled" => admission.by \notin over
=============================================================================
