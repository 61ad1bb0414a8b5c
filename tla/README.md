# A formal model of Threadlight's protocols

Threadlight is a library of skills for building agent pilots. Most of it is
instructions, generators and validators: functions from files to files. What has
to be right under concurrency and failure is what this directory models in
TLA+, model-checks with TLC and proves with TLAPS:

* **action governance**, the core: a gateway that lets an agent's tool call reach
  a business backend at most once, only after the humans a signed policy names
  have agreed, with durable evidence of every step
  (`src/skills/threadlight-govern/references/`, called G below);
* **staging**: the live probe of that governance, and the CI runs that validate,
  promote and open a release;
* **hosting**: creating and routing a hosted agent's version, its signed
  bootstrap, and the canvas that shows the workspace it comes from;
* **the pilot at work**: the delivery of audit receipts, the receivers that invoke
  the agent, and the orchestrator that drives the workspace.

## The system

```
 agent ──call(idempotency key)──▶ gateway: GovernedDispatcher.dispatch ──POST──▶ business backend
   ▲  │                            │  ledger (Cosmos, etags)   ▲ admission, reconcile
   │  │ audit spool                │                           └── operators: operations.operate
   │  └──────────▶ control plane ◀─┼─ approval: request/resolve/consume ─▶ Outlook workflow ─▶ reviewer
   │                               ├─ confirmation: request/consume/validate ─▶ messenger ─▶ requesting user
   │                               └─ probes, receipts (durable)
   ├── receivers ◀── queue (at least once)
   ├── bootstrap gate ◀── record and chunks ◀── publication command
   └── version and route ◀── lifecycle commands        CI runs ──▶ validation and production targets
 orchestrator ──▶ the stages of a pilot's workspace    canvas ──▶ shows that workspace
```

| Component (source) | State | Operations | What is hard |
|---|---|---|---|
| Gateway dispatcher (`G/gateway/dispatcher.py`) | one ledger record per operation: missing, awaiting_confirmation, awaiting_approval, rejected, pending, completed, not_executed; receipts | `dispatch`: replay, admit, evaluate policy, confirm, review, reserve, consume, audit, link, recheck, POST, complete | thirty awaits; another attempt, an operator, an expiry or a crash between any two |
| Operator operations (`G/gateway/operations.py`) | admission record with a lease | open, stop, reconcile, inspect | a stop racing an attempt in flight; reconciliation racing a POST still on the wire |
| Approval authority (`G/control-plane/app.py`, `storage.py`, `client.py`) | `approval:<nonce>`: pending, decided, consumed, one grant | request, resolve, decide, consume | read, check, replace under the etag; expiry during the write |
| Native Outlook (`G/control-plane/outlook.py`, `review.py`) | outbox in the same record: prepared, sending, sent, run id | claim, POST, record the run, recover it, poll the answer | lost POSTs and lost acknowledgements |
| Confirmation (`G/control-plane/confirmation*.py`) | `context:<ref>` bound to one id; `confirmation:<id>` with its notification | register, request, resolve, decide, consume, validate | two records written in order; two ids for one operation; lost notifications |
| Probes (`G/control-plane/probes.py`, `probe-fixture/app.py`, `threadlight-safe-check/.../governance_probe.py`) | one document per run and service | register, begin, intercept, dispatch, effect, complete; poll, evaluate | two services written by one call and polled one after the other |
| Hosted lifecycle (`G/control-plane/hosted_lifecycle.py`) | an attempt file, the service's versions, the endpoint | create once, observe, configure | crash between the intent and the acknowledgement; late requests |
| Bootstrap (`G/control-plane/bootstrap*.py`) | asset chunks and one record per reference; the host's gate | publish or recover; activate, authorize, exchange, close | publications interleaved and half done; an authority that comes and goes |
| Release runner (`threadlight-cicd/scripts/release_runner.py`, `returns_*.py`) | receipts, promotion state, the durable operation, admission | validate, promote, complete, abort, reconcile | two runs share the targets; a command given up on lands late |
| Audit delivery (`threadlight-deploy/.../audit_delivery.py`, `runtime/evidence.py`) | a spool of files, a worker, the control plane's receipts | append, submit, replay, close | timeouts with the answer still coming, restarts, poisoned files |
| Event-trigger receivers (`threadlight-event-triggers/.../receiver*.py`) | processed keys with a window | check, invoke, mark, settle | at-least-once delivery, non-atomic check and mark |
| Orchestrator (`threadlight-auto/references/orchestrator.py`) | evidence files, the record of the deploy attempt and its probe | decide, execute, record start and completion | edits and interruptions between any two records |
| Lifecycle canvas (`.github/extensions/threadlight-lifecycle/lib/`) | the open instance, its server, watcher, timer and model | open, refresh, watch, close | overlapping opens, a close that waits, events during a projection |
| Gateway server, Citadel, auth, attestations, models | none | parse, authenticate, verify | stateless |
| Runtime hooks (`G/runtime/`) | none of their own | intercept one tool call | what they wait for is above |
| Quickstart approvals (`threadlight_quickstart/approvals.py`) | one turn | run, continue | a bounded sequential loop |
| Assessments, reports, validators, skills, docs, site, examples | files | batch functions | nothing concurrent |

`PROJECT.json` lists every component with its status, and every hazard with the
line where it bites and the properties that cover it.

## The modules

| Module | What it is |
|---|---|
| `OneUse` | abstract: a set of one-use human authorities, each requested, decided once, spent once |
| `GovernedOperation` | abstract: one operation that waits, is rejected or reserved once, and whose effect runs, or is fenced, at most once |
| `DecideOnce` | abstract: a slot in which one of the proposed values is chosen, whole and for good, and everybody is told that one |
| `Promotion` | abstract: candidates that are received, claimed and promoted in this order, each once, and serve only after that |
| `Dispatch` | the gateway: attempts at one idempotency key, the operators, the backend. Uses `OneUse` twice (reviewers, confirmations), implements `GovernedOperation` |
| `Approval` | the control plane for one approval nonce, with the native Outlook outbox. Implements `OneUse` and `DecideOnce` |
| `Confirmation` | the control plane for one requesting user's context and all confirmation ids minted under it. Implements `OneUse`, and `DecideOnce` in what the context is bound to |
| `Probe` | the two probe runs, their documents at both services, the calls and the collector |
| `Release` | CI runs, the operator, and the commands on their way to the targets and the gateway. Implements `Promotion` |
| `Hosted` | lifecycle commands, attempt files, the agent service |
| `Bootstrap` | publication of the record and its chunks; the gate. The publication implements `DecideOnce` |
| `Canvas` | the opens of one canvas instance with watcher, timer, server and projections |
| `AuditSpool` | spool, appends, the replaying worker, the control plane's receipts |
| `Receiver` | receivers over a queue with locks, a delivery count and dead-lettering |
| `Orchestrator` | decide and execute over the governed chain of stages, and the workspace's other users |
| `MC*` and `.cfg` | small instances for TLC |
| `*_proofs` | theorems and proofs for all values of the constants |

Two ways of composing are used. Components that interact are composed by the
abstract authorities of `OneUse`: `Dispatch` takes `OneUse!Request`, `Decide` and `Consume` as
the atomic effect of a control-plane call; `Approval` and `Confirmation` show
that the concurrent read-then-replace handlers behave like that, and `Dispatch`
is proved to use nothing else of them. Components
that share no state are only *checked* together: `MCStaging`, `MCHosting` and
`MCPilot` instantiate two or three of them, and a behaviour is one of either,
chosen once by the variable `part`. Each part keeps its own specification,
properties and proofs; nothing is claimed of a product that does not exist.

### Dispatch

An *attempt* is one call of `dispatch` with the key: the same caller retrying, a
resume after a human answered, or a second worker. All of them share the ledger
record (`ledger`, with `version` as its etag). `pc[a]` names the next await of
attempt a; each action is the code from one await to the next, with the guard
from its checks and early returns, and `Fail(a)` is any await that raises: lost
acknowledgement, timeout, crash. What an attempt read before an await
it keeps in `ex`, `etag`, `seen` (the facts its decision was made on) and `grant`,
as the Python locals do, so stale reads are real in the model. `found` records the
facts its effect check found when it recomputed them (a history variable): the
authorities must have been asked for on those.

| Code | Actions |
|---|---|
| 583-650 read, replay, admit | `Read`, `Replay`, `Admit` |
| 651-715 policy | `Evaluate`, `AuditPolicyDeny` |
| 716-769 confirmation | `CreateConfirmation`, `RereadConfirmation`, `ResolveConfirmation`, `AuditConfirmationDenied`, `RejectConfirmation` |
| 770-859 review, inline and deferred | `StoreApproval`, `RereadApproval`, `RequestApproval`, `AdmitApproved`, `VerifyApproval`, `AuditApprovalDenied`, `RejectApproval` |
| 861-894 reserve, consume, audit, link | `Reserve`, `ConsumeConfirmation`, `AuditAllow`, `ReadReserved`, `LinkReceipt` |
| 895-937, 377-409 last checks and POST | `EffectCheck`, `LastAdmit`, `Send`, `ReceiveReply` |
| 938-950 completion | `ReadLinked`, `Complete` |
| `operations.py` 99-234 | `ReconcileRead`, `Recover`, `RecoverAudit`, `RecoverWrite`, `AdmissionRead`, `AdmissionAudit`, `OpenWrite`, `StopWrite` |

The backend is external: `Deliver` runs a keyed POST some time after it was sent
(or never), and `Recover` asks for the outcome, which fences an effect that has
not run, as the recovery contract used by `operations.py` requires.

Coarser than the code: consecutive read-only rechecks before the POST are one
step (`EffectCheck`); the transport's own early recheck can only abort and is
covered by `Fail`; signed evidence, probes and the transform decision ride along
as data. Admission is written at most `MaxAdmission` times.

### Approval and Confirmation

A call slot serves one request after another without bound: what a nonce goes
through is at most five writes, so the state space is finite without a bound on
requests. In `Approval`, `Read`, `Create`, `Reread`, `Consider` are the handler up
to its decision; `Decide`, `Consume`, `Claim`, `StoreRun`, `StoreRecovered` and
`StoreResponse` are its replaces, all through `Replace`, which succeeds only
under the etag read. The workflow run is external: it starts late or never, and
ends approved, rejected or failed. `Native` selects the Outlook requester or the
portal; `Expire` is the clock. A grant's provenance uuid is the number of the
write that made it.

In `Confirmation`, `ReadContext`, `Bind` and `Create` keep the order of the code:
the context is bound by a replace to the first id asked, then that id's record is
created. `Claim`, `Notify`, `Notified` and `StoreSent` are `notify`; `Review` reads
the reviewer's approval before `Consume`.

### Probe and Release

In `Probe` a load of a document, its checks and the replace under the loaded etag
are one step: the store refuses the replace when the document moved, so a call
that lost the race starts over or fails. Between the steps of one call anything
may happen: `Send` puts the request on the wire and `Effect` takes it off, late or
never; `Fail` is a lost answer. The collector (`Baseline`, `Poll`, `Recheck`,
`Report`) reads one document of one service at a time, as the code polls.

In `Release` a command that was given up on stays on its way (`wire`) and lands in
`Deploy` or `Admission`, whether or not its run still waits (`Answer`). The
admission record's hash is `rev`; a command carries the one it inspected. The
table `Then` is the order of the steps, `Observe`, `Collect`, `Claim`, `Operation`,
`Closed` and `Readback` the checks between them.

### Hosted, Bootstrap and Canvas

In `Hosted` a command writes its intent (`Persist`), sends the request (`Send`) and
records the version (`Record`); the service serves what is on the wire whenever it
likes (`Create`, `Update`), also for a command that died. The endpoint has an etag or not
(`None`), for good: with one, a route request is served only under the etag it
carries (If-Match); without, unconditionally, as `configure_endpoint` then sends no
condition. `overlapped` records that, without an etag, a command began to route the
endpoint while another had not ended or its request was still on its way, which the
deploy governance README (lines 307-308) asks the operator to prevent. A command is
a shell that runs the tool again and again.

In `Bootstrap` the publication is `Lookup`, `Check` and `Upload` for each chunk,
`Create`, `Publish`, `Recover`; the gate is `Authenticate`, `Prepare`, `Initialize`,
`Activate`, `Close`, and a request `Arrive`, `Authorize`, `Exchange`, `Serve`. The
variable `authority` stands for the live checks (key, policies), which may fail and
hold again at any time, and for the record's lease, which ends for good. The local check of
`Arrive` and `Exchange`, and the first one of `authorize`, refuse a request without
shutting the gate; the failing live check inside `authorize` shuts it.

In `Canvas` one thread runs and every await lets the others in: `Open`,
`Projected`, `Serve`, `Attach`, `Opened` are the awaits of one open; `Schedule`,
`Fire`, `Shows` and `Fails` the debounced projection; a projection is the number of
edits it includes. An `lstat` error other than a missing file, which ends the
extension's process, is not modelled.

### AuditSpool, Receiver and Orchestrator

In `AuditSpool` the agent's thread (`AppendReceipt`, `Submit`, `GiveUp`, `Take`), the
worker's loop (`Sweep`, `Visit`, `Post`, `Deliver`, `RestOfSweep`) and the control
plane (`Store`, `Lose`) interleave; `Restart` keeps the spool on a plain host and
loses it with a container. A receipt is poisoned when its stored body no longer
matches its fields, so that no export of it can succeed.

In `Receiver`, `IsAlreadyProcessed`, `Invoke`, `Answer`, `MarkProcessed`,
`CompleteMessage` and `DeadLetter` are the handler; the broker's lock expires while
its replica goes on, a replica crashes anywhere, a mark is forgotten when its
window ends. `Pulled` tells the ACA consumer, which settles its own messages, from
the Functions host.

In `Orchestrator`, `StagesToRun` and `Pending` are the decision, computed anew
after every stage as `execute` does, and `RecordDeployStarted`, `DeployLands`,
`RecordDeployCompleted`, `Assess`, `RecordGate`, `Probe` and `RecordGovernanceProbe`
the durable records. What the code hashes is a member of `Contents` or `Observed`, and
two states with the same member have the same hash: `Edit` may put earlier contents
back. While the deploy worker runs it reads any mixture of what was there, and
`meanwhile` records whether it was edited and whether the edit was undone. `Edit`,
`EditOutputs`, `EditPackage` (the Foundry package is whole or not), `DeployByHand`
(azd before any attempt is recorded), `BeginCollection` (a collection by hand),
`Lapse` (ten minutes for a collection, a day for other evidence), `Interrupt` and
`WorkerFails` may come between any two, together at most `MaxFaults` times.

## The runs

| Run | Instance | Question |
|---|---|---|
| `inline` | 2 attempts, inline review always, facts that change between allowed, escalated and denied; 1 operator, 1 admission write | Does one POST win when nothing is stored before the reservation, and reconciliation and retries race? |
| `consent` | 4 attempts, 2 inputs, deferred review always, confirmation when the facts escalate; symmetry | Does a key reused for other arguments, changed facts or a lost consume spend or borrow consent? Does a receipt stay linked and nothing reopen, not even an approval spent by an attempt that died? |
| `operators` | 2 attempts, 1 operator, 3 admission writes, fairness | Do reconciliation, a stop and late POSTs leave record, answers and refinement true, and is every linked reservation resolved? |
| `portal` | 3 calls, 2 intents, decided by people | Do racing handlers implement the one-use authority? |
| `native` | 2 calls, Outlook, fairness | Is the reviewer asked once, is the decision the recorded run's answer, and does an answer become the decision? |
| `asked` | 2 calls, 2 ids, review required | Is the user asked once, and consent spent once, approved and reviewed? |
| `bound` | 2 calls, 1 id, fairness | Does a crash between binding and creating strand the context? |
| `staging` | probe: 2 calls, 2 runs; release: 2 CI runs and an operator; symmetry | Is the probe's report true? Is a release promoted once and before it serves, on evidence of one deployment, and does a stop hold? |
| `hosting` | bootstrap: 2 operators, 2 contents, 2 chunks, 2 requests; lifecycle: 2 shells that run any number of commands, 2 attempt files, 2 versions, with and without etags; canvas: 2 opens, 1 edit; fairness | Is one whole record chosen and the gate shut for good? Is one version made and its route kept? Is an open canvas served, and does it show the edit? |
| `pilot` | audit: 2 receipts, 1 poisoned; receivers: 2 messages, 2 replicas, 2 deliveries; orchestrator: 2 contents, 2 outputs, 2 disturbances; fairness | Is an effect permitted only on record? Is a message lost? Does a pilot rest on what is live, and does it recover? |
| `exactly_once` | 1 message, 2 replicas, 2 deliveries | finding: the agent acts twice on one message |
| `rerun` | 2 disturbances | finding: a redeployed pilot completes on an old invocation |

Why the bounds suffice. For the gateway, two attempts are enough for every race
on the record; with four one stores, one resumes and dies, one tries again and one
interferes with other arguments. (A fifth would be needed for that history to pass
through a confirmation too; those states take TLC too long, and the theorems do not
depend on it.) Two inputs and
the fact values distinguish same from other. Two operators would race each other
only through the same etag. Three admission writes are an opening, a stop and the
reopening after it. Attempts run once: a retry is another
attempt. For the control plane, three calls give a writer, a racer and a later
reader, and slots are reused for ever. Two probe calls give the one that is reported
on and one that competes for its run or arrives late. Two CI runs
share the targets, and the operator is the third party. Two shells run lifecycle
commands one after the other without bound, so that a command, its restart and one of
the other attempt, which contest a route, are among the behaviours. Two contents tell
an edit from its undoing. Two chunks make half a publication. Two opens overlap, and an open that
comes after a close is the second. Two deliveries reach the dead-letter queue.
Two disturbances give an interruption and an edit of what it left, or an edit and its undoing. The theorems
drop these bounds: they hold for any number of each.

`CHECK_DEADLOCK FALSE` in all runs but `rerun`: attempts, requests and messages
are finite, and a spent, lapsed or finished protocol rightly lets nothing more
happen. Symmetric are the calls and CI runs of `staging`, and the attempts of
`consent` that carry the same arguments: no constant or property tells them apart,
and both runs check safety only.

### Properties

Each is stated and explained where it is defined.

* Gateway: `AtMostOnePost`, `PostIsLinked`, `PostIsAuthorized`,
  `ConsentSpentAfterReservation` say what must be true of a POST, whoever sends
  it; `AtMostOnePost` is checked under inline review, and implied by
  `ImplementsOperation` in `operators`. The gateway's README promises that CAS reserves before one-use consent is
  spent, that the receipt is acknowledged before the effect, and that nothing is
  blindly resent. `OutcomeIsTrue`, `AnswersAreTrue`: record and answers agree with
  the effect, although recovery and late POSTs race. `NeverReopened`, `StopBars`:
  action properties over the ledger's life and over the operator's stop.
  `AbandonedForGood`: an operation whose approval is spent while nobody carries it
  stays as it is (the gateway's README: a crash after consumption never reopens).
  `ImplementsOperation`: the whole is one `GovernedOperation`.
* Control plane: `NotifiedOnce`, `DecisionIsResponse`, `GrantsAgree`, `AskedOnce`,
  `SpentIsJustified`, `ImplementsOneUse`.
* Staging: `EffectWasDispatched`, `ReportIsTrue`; `EvidenceIsOfOneDeployment`,
  `ImplementsPromotion`, `StoppedStaysStopped`.
* Hosting: `ImplementsDecision`, `InvalidForGood`; `CreatedOnce`;
  `RouteFixedOnce`, which without an etag claims nothing once writers overlap;
  `OpenIsServed`.
* Pilot: `PermittedIsRecorded`; `NoMessageLost`; `SucceededIsAuthorized`,
  `DownstreamOnProof`, both but for an edit undone under the deploy worker, and the
  latter about the attempt on record, if there is one.
* Liveness: `LinkedIsResolved`, `ResponseLands`, `BoundIsCreated`, `GateOpens`,
  `EditIsShown`, `PendingIsDelivered`, `Recovers`.

Each has a mutant in `PROJECT.json`: a plausible bug in a mapped definition (an
upsert for a conditional write, a stale admission read, a consume before the
reserve, a resent notification, an intent written over another, a sweep that
stops at a bad file) under which TLC finds it violated. The mutated operators
stand beside the originals, marked `bug:`; no action uses them.

### Fairness

* `operators`: weak fairness of `OpFail` (every operator's call ends,
  `asyncio.timeout` in `dispatcher.py` 526) and strong fairness of the four
  reconciliation steps: an operator re-runs `reconcile` until it succeeds; each call
  may fail any number of times, but not for ever. Attempts get no fairness: they
  may die.
* `native`: weak fairness of `Fail` (every request ends, `asyncio.timeout` in
  `app.py` 437), strong fairness of the resolve path: the gateway's caller
  resolves again on every resume, and its calls do not fail for ever.
* `bound`: the same for the gateway asking again for the id its ledger names.
* `hosting`: weak fairness of the gate's own steps (its activation task polls until
  it is activated or closed), and of the canvas's event loop: an event
  handler runs, a timer fires, a projection that the watcher began ends (a refresh may
  hang). Opens, closes and edits get none.
* `pilot`: the audit worker's loop runs (weak fairness of `Sweep`), every pending
  file keeps being visited, and the export of a good receipt does not fail
  for ever (strong fairness of `Post`, `Store`, `Deliver`, each of which a restart or a
  held lock may disable). `execute` is run again and its workers end (weak
  fairness of `Executes`); the disturbances are finitely many. `Recovers` says
  complete when the Foundry package is whole and incomplete otherwise, since no stage
  makes the package.

## Findings

* `exactly_once`: `function-servicebus/README.md:38-39` says that "the gate makes
  processing exactly-once". The handler reads the idempotency store before it
  invokes the agent and writes it after: a lock that expires meanwhile, or a
  crash before the mark, has the agent act twice.
* `rerun`: `threadlight-auto/SKILL.md:418-419` says that a stage that re-runs takes
  all its downstream stages with it. `execute` decides again after every stage and
  forgets the cascade: once deploy, probe and safe-check are current, an invoke
  result of an earlier deployment, younger than a day, is skipped.

## What is proved

Every safety and action property of a passing run, and every refinement it checks,
is a theorem, for any sets of attempts, operators, calls, ids, runs, commands,
chunks, requests, opens, messages and receipts, and any values of the other
constants. So is the type invariant of every component. Properties marked + are
checked by no run of their own: the proof is what shows them.

| Module | Theorems |
|---|---|
| `OneUse_proofs` | types; `NeverUndone`+: a decision is not changed and a consumption not taken back |
| `Dispatch_proofs` | types, all its safety and action properties; `EffectIsGoverned`+; `Spec => ImplementsOperation` |
| | the dispatcher's steps are steps of the two one-use authorities it is given (`DispatchUsesOneUse`), so `NeverUndone`+ holds of both |
| | `DispatchEndsForGood`: `GovernedOperation`'s own promises `OutcomeIsEffect`+ and `EndsForGood`+, carried over by the refinement |
| `Approval_proofs` | types, `NotifiedOnce`, `GrantsAgree`, `ConsumedOnce`+, `DecisionIsResponse`; `Spec => ImplementsOneUse` and hence `NeverUndone`+; `Spec => ImplementsDecision`+ and hence `Agreement`+, `ChosenForGood`+ |
| `Confirmation_proofs` | types, `AskedOnce`, `SpentIsJustified`; `Spec => ImplementsOneUse` and hence `NeverUndone`+; `Spec => ImplementsDecision`+ and hence `Agreement`+, `ChosenForGood`+ |
| `Probe_proofs` | types, `EffectWasDispatched`, `ReportIsTrue` |
| `Release_proofs` | types, `EvidenceIsOfOneDeployment`, `StoppedStaysStopped`, `PromotedOnce`+; `Releases!Spec => ImplementsPromotion` and hence `OnlyPromotedServes`+; `StagingIsCorrect` |
| `Hosting_proofs` | types; `CreatedOnce`, `RouteFixedOnce`, `RoutedIsRecorded`+; `RecordIsWhole`+, `OneRecord`+, `InvalidForGood`, `Spec => ImplementsDecision` and hence `Agreement`+, `ChosenForGood`+; `OpenIsServed`; `HostingIsCorrect` |
| `Pilot_proofs` | types; `PermittedIsRecorded`; `NoMessageLost`, `InvokedPerDelivery`+; `SucceededIsAuthorized`, `ProofIsOfWorld`+, `DownstreamOnProof`; `PilotIsCorrect` |

How the gateway's guarantee comes about. `Approval` and `Confirmation` are shown to
implement `OneUse`; `Dispatch`, written over two instances of `OneUse`, is shown to take
only their steps and to implement `GovernedOperation`. What a reader of either
abstract module may rely on (`NeverUndone`, `OutcomeIsEffect`, `EndsForGood`) is proved
of the abstract module and carried over to whatever implements it. `DecideOnce`, which
three components implement, and `Promotion` are used in the same way.
`Approval!ImplementsDecision` is a theorem only: the set of grants is infinite, and TLC
cannot enumerate the values to choose from.

`StagingIsCorrect`, `HostingIsCorrect` and `PilotIsCorrect` conclude from the composed
specification all that the runs on `MCStaging`, `MCHosting` and `MCPilot` check except
their liveness. They rest on `StagingIsBoth`, `HostingIsAll` and `PilotIsAll`: a behaviour
of the composition is one of each part.

The proofs about parts of `MCStaging`, `MCHosting` and `MCPilot` are of each
part's own specification (`Releases!Spec`, `Lifecycle!Spec`, `Canvases!Spec`,
`Receivers!Spec`, `Driver!Spec`, and the extended module's `Spec`), so they do not
depend on the choice of `part`. The only assumptions are the named `ASSUME`s on
constants: None is not a value, the parameters have their types, actors are
distinct. TLC evaluates all of them in the runs.

Of these only `PermittedIsRecorded` is inductive as it stands. The strengthenings of
the others, in named parts:

* `Dispatch!IInv`: `EtagInv` (an etag never runs ahead, and who holds the current
  one holds the current record), `OwnerInv` (one owner of a reservation, past the
  write that made it), `PostInv` and `OperatorInv` (what a POST on the wire or a
  proof in an operator's hand implies), `StoredInv` and `KeptInv` (stored intents
  stay those of the attempt that minted them), `AuditInv`, `AnswerInv`, `BarInv`,
  `ConsentInv` and `ReviewInv`; `FoundInv` (past its effect check an attempt found
  the facts it had decided on); `CarriedInv` (who carries a grant got it for the record
  it read, and an answered confirmation stands behind a record that went on to the
  reviewer), which `AbandonedForGood` needs, since the writes an abandoned record must be
  safe from are those of attempts that read it earlier; `PostedInv` (only a POST makes the
  effect run). Each step is shown to preserve each part in a lemma.
* `Approval!IInv`: what a call's copy of the record says about the stored one
  (`Holding`, `GrantKept`), one call can acknowledge a consumption (`SpentInv`), one
  holds the claim (`ClaimInv`), named runs exist and answers are final (`RunInv`).
* `Confirmation!IInv`: the same of a call's copy (`Held`), a context found free and
  not written since is still free, so that the binding is written once and only
  the bound id gets a record (`BindInv`), one claimant per notification
  (`ClaimInv`), one acknowledgement per consumption (`SpentInv`).
* `Probe!IInv`: the order of the producer's events, the calls' and the fixture's
  (`ProducerInOrder`, `CallsInOrder`, `FixtureInOrder`), and what the collector has
  seen is a past of what there is (`CollectorInOrder`).
* `ReleaseInv`: whoever waits waits for its own step's command (`Waiting`); what a
  run's files say of how far it may be (`Phase`); a deployment still on the line
  means it was not executed yet (`Prepares`, `Promotes`); a run whose target moved
  gets no further than its next observation (`Unmoved`); who opened has collected
  all (`Opens`), and a run that stopped has no open left that could agree (`Bars`).
  `PromotedInv`, on top of it: a run past its promotion, or with an open on the
  line or in force, was promoted; it makes the ladder of `Promotion` a refinement.
* `LifecycleInv`: one create request per attempt, about to be sent, on its way or
  served (`OneRequest`); no route request that agrees with a fixed route
  (`RoutedFromLatest`), or, without an etag and while writers do not overlap, one
  writer whose request is the only one (`OneWriter`); `Filed`: the version in
  an attempt file was made for that attempt, and it is what every route request and the
  route name. `BootstrapInv`: a chunk being uploaded is not relied on yet
  (`Uploads`, `Publishes`), the gate's stages and the requests (`GateInOrder`).
  `CanvasInv`: an open past a stage has what that stage made.
* `ReceiverInv`: a receiver past the agent's answer has an effect (`WorkInOrder`), and
  so has a mark or a completed message (`MarkedOrGone`). `DeliveryInv`: the effects on a
  message, plus the replicas of any finite set that hold it and have not invoked yet,
  are covered by its deliveries; the sum over all replicas would need a finite set of
  them, which nothing requires. `DriverInv`: attempts are
  numbered (`Numbered`), what is live belongs to the attempt that says so, and is what
  it was authorised for unless `meanwhile` tells of an edit (`Deploys`), a collection
  that counts saw what that attempt deployed (`Observes`).

TLC found each invariant of the instance of a run as well, the parts that are stated in
the proof modules included.

Only model-checked: the seven liveness properties (`LinkedIsResolved`, `ResponseLands`,
`BoundIsCreated`, `GateOpens`, `EditIsShown`, `PendingIsDelivered`, `Recovers`), since
liveness under fairness and ENABLED are out of the prover's reach, and the two findings,
which are counterexamples.

## Not modelled, and why

* The native email profile of confirmation runs the outbox protocol of
  `Approval` inside `resolve`: both halves are modelled, their composition is not.
  The Entra provider checks claims and keeps no state.
* `Receiver` leaves out the HTTP, Event Grid and job receivers, which run the same
  check, invoke and mark without a broker's lock.
* `Orchestrator` leaves out preflight, design and cost, which come before the
  governed chain, and agentops, evals and red team, which are downstream as invoke
  is; the presenter profile and the hard stops.
* What the orchestrator's code does not look at is left open in its model and stated in
  the properties: `record_deploy_completed` compares a hash taken before and after the
  worker, so an edit that is undone in between is not noticed; a deployment without an
  execution record needs nothing but a passing collection. Not modelled: a deployment
  made by hand once an attempt is on record (`threadlight-auto/SKILL.md`, line 165: each
  actual attempt is to be recorded), which no file would show, and edits that
  make the contract itself invalid.
* That the route of an endpoint without an etag stays fixed when writers overlap does
  not hold, and the deploy governance README says so; the model lets them overlap, and
  the property does not cover it.
* `Receiver` identifies a message by its idempotency key: two messages to which a body field
  gives one key (`function-servicebus/receiver_core.py:39`) are one to the code.
* `Release` leaves out the provenance of the CI job and the contents of the evidence;
  the deployment commands are external.
* `Bootstrap` leaves out the buffering of request bodies; `Canvas` the intent broker,
  the web client and what a projection contains; `Probe` the limit of eight
  conditional writes, which shows only as `Fail`.
* That an operation whose approval was consumed by an attempt that died before the
  reservation ever gets a terminal record is not promised by the code and does not hold:
  `AbandonedForGood` is what does.
* Parsing, signatures and authentication matter here only as refusals.
* The quickstart's approval loop is sequential. Assessments, reports, validators,
  the site, documentation and examples are functions from files to files: most
  of the repository's lines, without protocol state.
