---------------------------- MODULE Orchestrator ----------------------------
(***************************************************************************)
(* threadlight-auto driving a governed pilot: a stage runs unless evidence *)
(* in the workspace says it may be skipped, and a deployment is authorised *)
(* and then proved by evidence bound to its exact attempt.  The workspace  *)
(* is edited between any two steps, also back to what it was, workers      *)
(* fail, execute is interrupted and run again, and collections and first   *)
(* deployments are also made by hand.                                      *)
(*                                                                         *)
(* orchestrator.py; the stages' workers, azd and what is live are external.*)
(***************************************************************************)
EXTENDS Naturals, Sequences, FiniteSetsExt

CONSTANTS
    Contents,       \* what the files under the gate fingerprint may contain
    Observed,       \* what the azd outputs and the deployment manifest may contain
    MaxFaults       \* edits, interruptions, failures and work done by hand

(* Preflight and design come before these; cost, agentops, evals and       *)
(* redteam are downstream as invoke is.                                    *)
Stages == <<"govern", "gate", "deploy", "probe", "safe_check", "invoke">>
StageSet == {Stages[i] : i \in 1..Len(Stages)}
Downstream == {"safe_check", "invoke"}

VARIABLES
    inputs,         \* contents that the gate fingerprint hashes
    outputs,        \* azd outputs and deployment manifest, 0 without AGENT_FQDN
    inventoried,    \* the binding inventory matches the contract
    ledger,         \* the governed-actions manifest
    checkpoint,     \* inputs the gate was recorded for
    package,        \* the Foundry package manifest is complete
    attempt,        \* deploy and probe of the execution state
    collection,     \* governance-live.json
    safe,           \* outputs the safe-check evidence names
    invoked,        \* the deployment that the invoke evidence used
    world,          \* what is deployed
    run,            \* the execute in progress
    manual,         \* a collection taken by hand
    meanwhile,      \* history: the inputs while the latest attempt's worker ran
    faults

files == <<inputs, outputs, inventoried, ledger, checkpoint, package>>
evidence == <<attempt, collection, safe, invoked>>
vars == <<files, evidence, world, run, manual, meanwhile, faults>>

Nothing == [inputs |-> 0, attempt |-> 0]

Init ==
    /\ inputs \in Contents /\ outputs = 0
    /\ package = TRUE
    /\ inventoried = FALSE /\ ledger = "none" /\ checkpoint = 0
    /\ attempt = [n |-> 0, status |-> "none", authorized |-> 0, fingerprint |-> <<0, 0>>,
                  prior |-> 0, probe |-> <<<<0, 0>>, 0>>]
    /\ collection = [id |-> 0, after |-> 0, saw |-> Nothing, pass |-> FALSE]
    /\ safe = 0 /\ invoked = Nothing /\ world = Nothing
    /\ run = [at |-> "idle", executed |-> {}, prior |-> 0, after |-> 0]
    /\ manual = {} /\ meanwhile = "unchanged"
    /\ faults = 0

-----------------------------------------------------------------------------
(* What the evidence in the workspace says.                                *)

DeploymentFingerprint == <<inputs, outputs>>
Succeeded == attempt.status = "succeeded"

DeployRetryRequired ==
    attempt.status # "none" /\ ~(/\ Succeeded
                                 /\ attempt.authorized = inputs
                                 /\ attempt.fingerprint = DeploymentFingerprint)

CompletedDeploymentChanged ==
    /\ Succeeded /\ attempt.authorized = checkpoint
    /\ attempt.fingerprint # DeploymentFingerprint

GateCurrent == ledger = "pass" /\ checkpoint = inputs /\ ~CompletedDeploymentChanged

EverDeployed == outputs # 0                    \* bug: an earlier deployment counts
DeployCurrent == ~DeployRetryRequired /\ outputs # 0

(* The collection began after this attempt had finished, and the workspace *)
(* is still what the attempt left.                                         *)
UnorderedProof ==                              \* bug: a collection from before the attempt counts
    /\ Succeeded
    /\ attempt.fingerprint = DeploymentFingerprint /\ attempt.authorized = inputs
DeploymentProof ==
    /\ Succeeded /\ attempt.n <= collection.after
    /\ attempt.fingerprint = DeploymentFingerprint /\ attempt.authorized = inputs
    /\ attempt.prior # collection.id

Unrecorded == attempt.status = "none"          \* no execution state: nothing to match
Binding == <<attempt.fingerprint, collection.id>>
ProbeCurrent ==
    /\ Unrecorded \/ (DeploymentProof /\ attempt.probe = Binding)
    /\ collection.pass

Current(stage) ==
    CASE stage = "govern" -> inventoried
      [] stage = "gate" -> GateCurrent
      [] stage = "deploy" -> DeployCurrent
      [] stage = "probe" -> ProbeCurrent
      [] stage = "safe_check" -> safe # 0 /\ safe = outputs
      [] stage = "invoke" -> invoked # Nothing

(* decide: the first stage whose evidence fails, and all that follow it.   *)
StagesToRun == {i \in 1..Len(Stages) : \E k \in 1..i : ~Current(Stages[k])}
Pending == {i \in StagesToRun : Stages[i] \notin run.executed}

Guarded(stage) ==
    CASE stage = "deploy" -> inventoried /\ GateCurrent
      [] stage = "probe" -> ~DeployRetryRequired
      [] stage \in Downstream -> ProbeCurrent
      [] OTHER -> TRUE

-----------------------------------------------------------------------------
(* execute                                                                 *)

Ends == {"idle", "blocked", "incomplete", "complete"}
Moves(at) == run' = [run EXCEPT !.at = at]
Returns(at) == run' = [run EXCEPT !.at = at, !.executed = @ \cup {run.at}]
Fault == faults < MaxFaults /\ faults' = faults + 1

Execute ==
    /\ run.at \in Ends
    /\ run' = [run EXCEPT !.at = "decide", !.executed = {}]
    /\ UNCHANGED <<files, evidence, world, manual, meanwhile, faults>>

(* A collection begins after the attempts that have finished by then. *)
Finished == IF attempt.status \in {"started", "failed"} THEN attempt.n - 1 ELSE attempt.n

RunStage ==
    /\ run.at = "decide" /\ Pending # {}
    /\ LET stage == Stages[Min(Pending)] IN
        IF Guarded(stage)
        THEN run' = [run EXCEPT !.at = IF stage = "deploy" THEN "authorize" ELSE stage,
                                !.prior = collection.id,
                                !.after = IF stage = "probe" THEN Finished ELSE 0]
        ELSE Moves("blocked")
    /\ UNCHANGED <<files, evidence, world, manual, meanwhile, faults>>

Complete ==
    /\ run.at = "decide" /\ Pending = {}
    /\ Moves(IF ~(inventoried /\ GateCurrent /\ ProbeCurrent) THEN "blocked"
             ELSE IF package THEN "complete" ELSE "incomplete")
    /\ UNCHANGED <<files, evidence, world, manual, meanwhile, faults>>

(* The state says started before the worker runs: what an interruption     *)
(* leaves is no proof.                                                     *)
Started(authorized) ==
    attempt' = [n |-> attempt.n + 1, status |-> "started", authorized |-> authorized,
                fingerprint |-> <<0, 0>>, prior |-> collection.id, probe |-> <<<<0, 0>>, 0>>]

RecordDeployStarted ==
    /\ run.at = "authorize"
    /\ Started(IF GateCurrent THEN inputs ELSE 0)
    /\ Moves(IF GateCurrent THEN "deploy" ELSE "blocked")
    /\ meanwhile' = "unchanged"
    /\ UNCHANGED <<files, collection, safe, invoked, world, manual, faults>>

(* The deploy worker reads the source file by file while it runs: of a     *)
(* source that was edited it deploys any mixture.  Its outputs may be what *)
(* they were.                                                              *)
DeployLands ==
    /\ run.at = "deploy" /\ world.attempt # attempt.n
    /\ \E v \in IF meanwhile = "unchanged" THEN {inputs} ELSE Contents :
            world' = [inputs |-> v, attempt |-> attempt.n]
    /\ outputs' \in Observed
    /\ UNCHANGED <<inputs, inventoried, ledger, checkpoint, package, evidence, run, manual, meanwhile, faults>>

UncheckedInputs == attempt.status = "started"  \* bug: the inputs are not read again
AuthorizedInputs == attempt.status = "started" /\ attempt.authorized = inputs

RecordDeployCompleted ==
    /\ run.at = "deploy" /\ world.attempt = attempt.n
    /\ IF AuthorizedInputs
       THEN /\ attempt' = [attempt EXCEPT !.status = "succeeded",
                                          !.fingerprint = DeploymentFingerprint]
            /\ Returns("decide")
       ELSE Returns("blocked") /\ UNCHANGED attempt
    /\ UNCHANGED <<files, collection, safe, invoked, world, manual, meanwhile, faults>>

(* The gate's worker writes the ledger, which the fingerprint covers. *)
Assess ==
    /\ run.at = "gate"
    /\ \/ ledger' = "pass" /\ UNCHANGED faults
       \/ ledger' = "fail" /\ Fault
    /\ inputs' \in Contents
    /\ Returns("record_gate")
    /\ UNCHANGED <<outputs, inventoried, checkpoint, package, evidence, world, manual, meanwhile>>

Superseded ==
    attempt' = IF Succeeded /\ attempt.fingerprint # DeploymentFingerprint
               THEN [attempt EXCEPT !.status = "superseded", !.probe = <<<<0, 0>>, 0>>]
               ELSE attempt

RecordGate ==
    /\ run.at = "record_gate"
    /\ IF ledger = "pass"
       THEN Superseded /\ checkpoint' = inputs /\ Moves("decide")
       ELSE Moves("blocked") /\ UNCHANGED <<attempt, checkpoint>>
    /\ UNCHANGED <<inputs, outputs, inventoried, ledger, package, collection, safe, invoked, world,
                   manual, meanwhile, faults>>

(* A collection passes on something live, if at all. *)
Collected(after, saw) ==
    /\ \E pass \in IF saw = Nothing THEN {FALSE} ELSE BOOLEAN :
        collection' = [id |-> collection.id + 1, after |-> after, saw |-> saw, pass |-> pass]
    /\ IF collection'.pass THEN UNCHANGED faults ELSE Fault

Probe ==
    /\ run.at = "probe"
    /\ Collected(run.after, world)
    /\ Returns("record_probe")
    /\ UNCHANGED <<files, attempt, safe, invoked, world, manual, meanwhile>>

(* The binding is written once the published collection passes, to the     *)
(* execution state if there is one.                                        *)
RecordGovernanceProbe ==
    /\ run.at = "record_probe"
    /\ IF run.prior # collection.id /\ (Unrecorded \/ DeploymentProof) /\ collection.pass
       THEN /\ attempt' = IF Unrecorded THEN attempt ELSE [attempt EXCEPT !.probe = Binding]
            /\ Moves("decide")
       ELSE Moves("blocked") /\ UNCHANGED attempt
    /\ UNCHANGED <<files, collection, safe, invoked, world, manual, meanwhile, faults>>

(* The other workers leave their evidence; nothing checks it afterwards. *)
OtherStage ==
    /\ \/ run.at = "govern" /\ inventoried' = TRUE /\ UNCHANGED <<safe, invoked>>
       \/ run.at = "safe_check" /\ safe' = outputs /\ UNCHANGED <<inventoried, invoked>>
       \/ run.at = "invoke" /\ invoked' = world /\ UNCHANGED <<inventoried, safe>>
    /\ Returns("decide")
    /\ UNCHANGED <<inputs, outputs, ledger, checkpoint, package, attempt, collection, world, manual,
                   meanwhile, faults>>

WorkerFails ==
    /\ Fault
    /\ run.at \in StageSet
    /\ attempt' = IF run.at = "deploy" THEN [attempt EXCEPT !.status = "failed"] ELSE attempt
    /\ Returns("blocked")
    /\ UNCHANGED <<files, collection, safe, invoked, world, manual, meanwhile>>

Interrupt ==
    /\ Fault
    /\ run.at \notin Ends
    /\ Moves("idle")
    /\ UNCHANGED <<files, evidence, world, manual, meanwhile>>

-----------------------------------------------------------------------------
(* The workspace's other users.                                            *)

(* An edit writes other contents or puts earlier ones back, may touch the  *)
(* contract and the ledger, and may be committed.                          *)
Edit ==
    /\ Fault
    /\ inputs' \in Contents \ {inputs}
    /\ inventoried' \in {inventoried, FALSE}
    /\ ledger' \in {ledger, "none"}
    /\ meanwhile' = IF run.at # "deploy" THEN meanwhile
                    ELSE IF inputs' = attempt.authorized THEN "restored" ELSE "changed"
    /\ UNCHANGED <<outputs, checkpoint, package, evidence, world, run, manual>>

(* What a deployment left is changed, removed or put back. *)
EditOutputs ==
    /\ Fault
    /\ world # Nothing
    /\ outputs' \in {0} \cup Observed
    /\ UNCHANGED <<inputs, inventoried, ledger, checkpoint, package, evidence, world, run, manual, meanwhile>>

(* No stage is asked for the package's evidence: it comes and goes by hand. *)
EditPackage ==
    /\ Fault
    /\ package' = ~package
    /\ UNCHANGED <<inputs, outputs, inventoried, ledger, checkpoint, evidence, world, run, manual, meanwhile>>

(* azd up by hand, where the driver has not recorded an attempt yet. *)
DeployByHand ==
    /\ Fault
    /\ Unrecorded
    /\ world' = [inputs |-> inputs, attempt |-> 0]
    /\ outputs' \in Observed
    /\ UNCHANGED <<inputs, inventoried, ledger, checkpoint, package, evidence, run, manual, meanwhile>>

BeginCollection ==
    /\ Fault
    /\ manual = {}
    /\ manual' = {[after |-> Finished, saw |-> world]}
    /\ UNCHANGED <<files, evidence, world, run, meanwhile>>

EndCollection ==
    \E c \in manual :
        /\ \E saw \in {c.saw, world} : Collected(c.after, saw)
        /\ manual' = {}
        /\ UNCHANGED <<files, attempt, safe, invoked, world, run, meanwhile>>

(* Time passes: the collection counts for ten minutes, the evidence of the *)
(* downstream stages for a day, each from its own making.                  *)
CollectionAges ==
    \E pass \in {collection.pass, FALSE} : collection' = [collection EXCEPT !.pass = pass]

Lapse ==
    /\ Fault
    /\ safe' \in {safe, 0} /\ invoked' \in {invoked, Nothing}
    /\ CollectionAges
    /\ UNCHANGED <<files, attempt, world, run, manual, meanwhile>>

Executes ==
    \/ Execute \/ RunStage \/ Complete \/ RecordDeployStarted \/ DeployLands
    \/ RecordDeployCompleted \/ Assess \/ RecordGate \/ Probe
    \/ RecordGovernanceProbe \/ OtherStage
Disturbs ==
    \/ WorkerFails \/ Interrupt \/ Edit \/ EditOutputs \/ EditPackage
    \/ DeployByHand \/ BeginCollection \/ EndCollection \/ Lapse
Next == Executes \/ Disturbs

Spec == Init /\ [][Next]_vars

(* The operator runs execute again, and workers end. *)
LiveSpec == Spec /\ WF_vars(Executes)

-----------------------------------------------------------------------------
Deployment == [inputs : Contents \cup {0}, attempt : Nat]
Fingerprint == (Contents \cup {0}) \X (Observed \cup {0})
TypeOK ==
    /\ inputs \in Contents /\ outputs \in Observed \cup {0} /\ checkpoint \in Contents \cup {0}
    /\ inventoried \in BOOLEAN /\ ledger \in {"none", "fail", "pass"} /\ package \in BOOLEAN
    /\ attempt \in [n : Nat, status : {"none", "started", "succeeded", "failed", "superseded"},
                    authorized : Contents \cup {0}, fingerprint : Fingerprint, prior : Nat,
                    probe : Fingerprint \X Nat]
    /\ collection \in [id : Nat, after : Nat, saw : Deployment, pass : BOOLEAN]
    /\ safe \in Observed \cup {0} /\ invoked \in Deployment
    /\ world \in Deployment
    /\ run \in [at : StageSet \cup Ends \cup {"decide", "authorize", "record_gate", "record_probe"},
                executed : SUBSET StageSet, prior : Nat, after : Nat]
    /\ manual \subseteq [after : Nat, saw : Deployment]
    /\ meanwhile \in {"unchanged", "changed", "restored"}
    /\ faults \in 0..MaxFaults

(* An attempt that the state calls succeeded is the one that is live, and  *)
(* it deployed the inputs it was authorised for, unless somebody edited    *)
(* them while the worker ran and had put them back before it returned:     *)
(* record_deploy_completed compares what is there then, by its hash.       *)
SucceededIsAuthorized ==
    Succeeded => /\ world.attempt = attempt.n
                 /\ world.inputs = attempt.authorized \/ meanwhile = "restored"

(* What a recorded deployment is proved by: a passing collection that saw  *)
(* it live, of the inputs that are in the workspace (but for contents put  *)
(* back under the worker).                                                 *)
Proved ==
    /\ collection.pass
    /\ ~Unrecorded => /\ collection.saw = world /\ world.attempt = attempt.n
                      /\ world.inputs = inputs \/ meanwhile = "restored"

(* Whenever the files call the probe current, the deployment is proved:    *)
(* the evidence never outlives what it is about.  A deployment without an  *)
(* execution record has only the collection to show.                       *)
ProofIsOfWorld == ProbeCurrent => Proved

(* A downstream stage starts, and a pilot is called complete, only on a    *)
(* proved deployment: never on a proof of an earlier attempt, of one that  *)
(* did not finish, or of other inputs than the workspace's.                *)
DownstreamOnProof ==
    [][(run.at = "decide" /\ run'.at \in Downstream \cup {"incomplete", "complete"}) => Proved]_vars

(* Once nobody disturbs it, running execute again completes the pilot      *)
(* wherever the disturbances left the workspace, or ends in incomplete for *)
(* as long as the Foundry package, which no stage repairs, is not whole.   *)
Recovers == []<>(run.at = IF package THEN "complete" ELSE "incomplete")

(* When a stage re-runs, all downstream stages re-run: a pilot is complete *)
(* only with invoke evidence of the attempt that is live (until that       *)
(* evidence lapses).                                                       *)
RerunReachesDownstream ==
    run.at = "complete" /\ invoked # Nothing => invoked.attempt = world.attempt
=============================================================================
