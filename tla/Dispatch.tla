------------------------------ MODULE Dispatch ------------------------------
(***************************************************************************)
(* The governed dispatcher of the gateway: every attempt (one call of      *)
(* GovernedDispatcher.dispatch) to run ONE operation, identified by its    *)
(* idempotency key, against the durable ledger record of that key, the     *)
(* control plane's one-use authorities, the audit receipts, the admission  *)
(* record, the backend that runs the business effect, and the operators    *)
(* that recover the operation or stop and open admission.                  *)
(*                                                                         *)
(* Attempts interleave at every await.  An attempt may fail at any await   *)
(* (deadline, lost acknowledgement, unavailable service, expired token or  *)
(* policy, crash): Fail.  A write whose acknowledgement is lost is the     *)
(* write followed by Fail.                                                 *)
(***************************************************************************)
EXTENDS Naturals

CONSTANTS
  Attempts,            \* calls of dispatch with this idempotency key
  Operators,           \* calls of operate
  None,                \* the null of a stored field
  Inputs,              \* values of input_hash
  Input,               \* [Attempts -> Inputs]: the arguments each call carries
  Safes,               \* values of the trusted facts' safe snapshot
  Decision,            \* [Safes -> decision]: the signed policy
  ApprovalMode,        \* "none" (no approval_roles), "inline" or "deferred"
  ReviewAlways,        \* approval_requirement = "always"
  Trigger,             \* confirmation trigger: "none", "always" or "escalate"
  OperationsRequired,  \* BOOLEAN: admission is checked
  MaxAdmission         \* bound: writes of the admission record

ASSUME ConstantsAssumption ==
  /\ None \notin Attempts \cup Operators \cup Inputs \cup Safes
  /\ Attempts \cap Operators = {}
  /\ Input \in [Attempts -> Inputs]
  /\ Decision \in [Safes -> {"allow", "deny", "escalate"}]
  /\ ApprovalMode \in {"none", "inline", "deferred"}
  /\ Trigger \in {"none", "always", "escalate"}
  /\ Trigger # "none" => ApprovalMode # "inline"     \* combined_confirmation_requires_deferred_review
  /\ ReviewAlways \in BOOLEAN /\ OperationsRequired \in BOOLEAN
  /\ MaxAdmission \in Nat

VARIABLES
  ledger,        \* the operation's record in the idempotency store
  version,       \* its etag: the number of writes so far
  approval,      \* reviewer authorities, by the attempt that minted the nonce
  confirmation,  \* requesting-user authorities, by the attempt that minted the id
  lapsed,        \* intents <<kind, id>> past their expires_at
  receipts,      \* durable audit receipts <<author, decision>>
  admission,     \* the admission record: state, lease and number of writes
  safe,          \* the safe snapshot the host would return now
  backend,       \* the business backend: who ran the effect, or its fence
  wire,          \* POSTs handed to the transport and not yet delivered
  replied,       \* attempts whose POST was answered 200
  sent,          \* history: attempts that handed their POST to the transport
  found,         \* history: the safe snapshot each attempt's effect check found
  barred,        \* history: attempts the last stop or lapse found not yet cleared
  pc, result,    \* per attempt: next await, and the answer given to the caller
  ex, etag,      \* per attempt: the ledger record and etag it read
  seen,          \* per attempt: the safe snapshot its decision was made on
  grant,         \* per attempt: the nonce of the reviewer grant it holds
  opPc, opEx, opEtag, proof   \* per operator: the same, and the backend's proof

store     == <<ledger, version>>
services  == <<approval, confirmation, lapsed, receipts>>
world     == <<admission, safe, barred>>
effects   == <<backend, wire, replied, sent, found>>
local     == <<ex, etag, seen, grant>>
operators == <<opPc, opEx, opEtag, proof>>
vars == <<store, services, world, effects, pc, result, local, operators>>

Approvals     == INSTANCE OneUse WITH Ids <- Attempts, use <- approval
Confirmations == INSTANCE OneUse WITH Ids <- Attempts, use <- confirmation

-----------------------------------------------------------------------------
(* The ledger record: one per idempotency key, written only by create      *)
(* (when missing) and by replace under the etag it was read with.          *)

States == {"missing", "awaiting_confirmation", "awaiting_approval", "pending",
           "completed", "rejected", "not_executed"}
Terminal == {"completed", "rejected", "not_executed"}
Id == Attempts \cup {None}
Outcome == Attempts \cup Operators \cup {None}     \* receipt ids of the backend

Record ==
  [state : States, input : Inputs \cup {None}, safe : Safes \cup {None},
   confirm : Id,            \* confirmation_intent
   reviewer : BOOLEAN,      \* confirmation_intent.reviewer_required
   nonce : Id,              \* approval_intent
   receipt : Id,            \* receipt_id
   outcome : Outcome]       \* outcome_reference

Missing ==
  [state |-> "missing", input |-> None, safe |-> None, confirm |-> None,
   reviewer |-> FALSE, nonce |-> None, receipt |-> None, outcome |-> None]

Untouched == [state |-> "clean", by |-> None]      \* the backend before any effect
Effect == [state : {"clean", "executed", "fenced"}, by : Outcome]

Write(rec) == ledger' = rec /\ version' = version + 1

-----------------------------------------------------------------------------
(* What follows from the record an attempt read and the snapshot it took.  *)

Deferred == ApprovalMode = "deferred"
AdmissionOpen == OperationsRequired => admission.state = "open" /\ admission.live

confirmation_active(rec, s) ==
  /\ Trigger # "none"
  /\ Trigger = "always" \/ Decision[s] = "escalate" \/ rec.confirm # None

review_required(rec, s) ==
  \/ ApprovalMode # "none" /\ (Decision[s] = "escalate" \/ ReviewAlways)
  \/ rec.state = "awaiting_approval"

Review(a)  == review_required(ex[a], seen[a])
Confirm(a) == confirmation_active(ex[a], seen[a])

(* The reviewer intent an attempt asks about: the stored one if deferred.  *)
nonce(a) == IF Deferred THEN ex[a].nonce ELSE a

(* The transport ticket carries effect_check, not only effect_guard.       *)
Rechecked(a) == (Deferred /\ Review(a)) \/ Trigger # "none" \/ OperationsRequired

awaiting_confirmation(a) ==
  [Missing EXCEPT !.state = "awaiting_confirmation", !.input = Input[a],
                  !.safe = seen[a], !.confirm = a, !.reviewer = Review(a)]
awaiting_approval(a) ==
  [ex[a] EXCEPT !.state = "awaiting_approval", !.input = Input[a],
                !.safe = seen[a], !.nonce = a]
pending(a) == [Missing EXCEPT !.state = "pending", !.input = Input[a]]
reserved_again(a) == pending(a)            \* bug: the linkage drops the receipt
linked(a)  == [pending(a) EXCEPT !.receipt = a]

(* The next stage once the confirmation obligation is met or absent.       *)
AfterConfirmation(rec, s) ==
  IF ~review_required(rec, s) THEN "reserve"
  ELSE IF Deferred /\ rec.state # "awaiting_approval" THEN "approval_write"
  ELSE "approval_request"

AfterPolicy(rec, s) ==
  IF ~confirmation_active(rec, s) THEN AfterConfirmation(rec, s)
  ELSE IF rec.state = "missing" THEN "confirm_write" ELSE "confirm_request"

-----------------------------------------------------------------------------
Init ==
  /\ ledger = Missing /\ version = 0
  /\ Approvals!Init /\ Confirmations!Init
  /\ lapsed = {} /\ receipts = {}
  /\ admission = [state |-> "missing", live |-> FALSE, writes |-> 0]
  /\ safe \in Safes
  /\ backend = Untouched
  /\ wire = {} /\ replied = {} /\ sent = {} /\ barred = {}
  /\ found = [a \in Attempts |-> None]
  /\ pc = [a \in Attempts |-> "read"] /\ result = [a \in Attempts |-> "none"]
  /\ ex = [a \in Attempts |-> Missing] /\ etag = [a \in Attempts |-> 0]
  /\ seen = [a \in Attempts |-> None] /\ grant = [a \in Attempts |-> None]
  /\ opPc = [o \in Operators |-> "idle"] /\ opEx = [o \in Operators |-> Missing]
  /\ opEtag = [o \in Operators |-> 0] /\ proof = [o \in Operators |-> Untouched]

Go(a, next) == pc' = [pc EXCEPT ![a] = next] /\ UNCHANGED result
Finish(a, answer) ==
  /\ pc' = [pc EXCEPT ![a] = "done"]
  /\ result' = [result EXCEPT ![a] = answer]

(* An answer after a write: its acknowledgement may be lost instead.       *)
Respond(a, answer) == Finish(a, answer) \/ Finish(a, "unavailable")

At(a, here) == pc[a] = here /\ UNCHANGED operators

(***************************************************************************)
(* Reading the record, and the answers that need nothing else.             *)
(***************************************************************************)
Conflicts(a) == ledger.input # Input[a]

Read(a) ==
  /\ At(a, "read")
  /\ ex' = [ex EXCEPT ![a] = ledger] /\ etag' = [etag EXCEPT ![a] = version]
  /\ \/ ledger.state = "missing" /\ Go(a, "admit")
     \/ /\ ledger.state # "missing" /\ Conflicts(a)
        /\ Finish(a, "conflict")
     \/ /\ ledger.state # "missing" /\ ~Conflicts(a)
        /\ \/ ledger.state = "rejected" /\ Finish(a, "rejected")
           \/ ledger.state = "not_executed" /\ Finish(a, "fenced")
           \/ ledger.state = "pending" /\ Finish(a, "outcome_unknown")
           \/ ledger.state = "awaiting_approval" /\ ~Deferred /\ Finish(a, "outcome_unknown")
           \/ ledger.state = "completed" /\ Go(a, "replay")
           \/ ledger.state = "awaiting_confirmation" /\ Go(a, "admit")
           \/ ledger.state = "awaiting_approval" /\ Deferred /\ Go(a, "admit")
  /\ UNCHANGED <<store, services, world, effects, seen, grant>>

(* A completed operation is answered from the backend's stored outcome.    *)
Replay(a) ==
  /\ At(a, "replay")
  /\ IF Decision[safe] = "deny" THEN Finish(a, "blocked")
     ELSE IF backend.state = "executed" /\ backend.by = ex[a].outcome
          THEN \E answer \in {"completed", "output_denied"} : Finish(a, answer)
          ELSE Finish(a, "outcome_unknown")
  /\ UNCHANGED <<store, services, world, effects, local>>

Admit(a) ==
  /\ At(a, "admit")
  /\ IF AdmissionOpen THEN Go(a, "evaluate") ELSE Finish(a, "blocked")
  /\ UNCHANGED <<store, services, world, effects, local>>

Evaluate(a) ==
  /\ At(a, "evaluate")
  /\ seen' = [seen EXCEPT ![a] = safe]
  /\ \/ Decision[safe] = "deny" /\ Go(a, "deny")
     \/ /\ Decision[safe] # "deny"
        /\ IF /\ Decision[safe] = "escalate" /\ ApprovalMode = "none"
              /\ ~confirmation_active(ex[a], safe)
           THEN Finish(a, "unavailable")
           ELSE Go(a, AfterPolicy(ex[a], safe))
  /\ UNCHANGED <<store, services, world, effects, ex, etag, grant>>

Audit(who, verdict) == receipts' = receipts \cup {<<who, verdict>>}

AuditPolicyDeny(a) ==
  /\ At(a, "deny")
  /\ Audit(a, "deny") /\ Respond(a, "blocked")
  /\ UNCHANGED <<store, approval, confirmation, lapsed, world, effects, local>>

(***************************************************************************)
(* A conditional replace by an attempt wins iff nobody wrote since it read. *)
(***************************************************************************)
Upsert(a) == TRUE                          \* bug: the writes are unconditional
Current(a) == version = etag[a]

(***************************************************************************)
(* Waiting records.  The write is a create when the attempt read nothing   *)
(* and otherwise a replace under the etag it read; either conflicts if the *)
(* record was written since.  It is then read back and must be the same.   *)
(***************************************************************************)
BlindWriteWaiting(a, here, rec, next) ==   \* bug: create overwrites what it finds
  /\ At(a, here)
  /\ Write(rec) /\ ex' = [ex EXCEPT ![a] = rec] /\ Go(a, next)
  /\ UNCHANGED <<services, world, effects, etag, seen, grant>>
WriteWaiting(a, here, rec, next) ==
  /\ At(a, here)
  /\ \/ /\ Current(a)
        /\ Write(rec)
        /\ ex' = [ex EXCEPT ![a] = rec]
        /\ Go(a, next)
     \/ /\ ~Current(a)
        /\ Finish(a, "outcome_unknown")
        /\ UNCHANGED <<store, ex>>
  /\ UNCHANGED <<services, world, effects, etag, seen, grant>>

ReadBack(a, here, next) ==
  /\ At(a, here)
  /\ \/ /\ ledger = ex[a]
        /\ etag' = [etag EXCEPT ![a] = version]
        /\ Go(a, next)
     \/ ledger # ex[a] /\ Finish(a, "outcome_unknown") /\ UNCHANGED etag
  /\ UNCHANGED <<store, services, world, effects, ex, seen, grant>>

CreateConfirmation(a) ==
  WriteWaiting(a, "confirm_write", awaiting_confirmation(a), "confirm_read")
RereadConfirmation(a) == ReadBack(a, "confirm_read", "confirm_request")
StoreApproval(a) ==
  WriteWaiting(a, "approval_write", awaiting_approval(a), "approval_read")
RereadApproval(a) == ReadBack(a, "approval_read", "approval_request")

(* A stored rejection: a replace under the etag the attempt last read.     *)
WriteRejected(a, here) ==
  /\ At(a, here)
  /\ \/ Current(a) /\ Write([ex[a] EXCEPT !.state = "rejected"]) /\ Respond(a, "rejected")
     \/ ~Current(a) /\ Finish(a, "unavailable") /\ UNCHANGED store
  /\ UNCHANGED <<services, world, effects, local>>

AuditDenied(a, here, next) ==
  /\ At(a, here)
  /\ Audit(a, "deny")
  /\ IF next = "done" THEN Respond(a, "rejected") ELSE Go(a, next)
  /\ UNCHANGED <<store, approval, confirmation, lapsed, world, effects, local>>

(***************************************************************************)
(* The requesting user's confirmation.                                     *)
(***************************************************************************)
ConfirmationBound(a) ==
  /\ ex[a].safe = seen[a]
  /\ ex[a].reviewer = Review(a)
  /\ <<"confirm", ex[a].confirm>> \notin lapsed

ResolveConfirmation(a) ==
  /\ At(a, "confirm_request")
  /\ \/ ex[a].confirm = None /\ Finish(a, "unavailable") /\ UNCHANGED confirmation
     \/ /\ ex[a].confirm # None /\ ~ConfirmationBound(a)
        /\ Finish(a, "blocked") /\ UNCHANGED confirmation
     \/ /\ ex[a].confirm # None /\ ConfirmationBound(a)
        /\ LET c == ex[a].confirm
           IN  /\ Confirmations!Request(c)
               /\ \/ confirmation[c].phase \in {"none", "pending"} /\ Respond(a, "pending")
                  \/ confirmation[c].phase = "consumed" /\ Finish(a, "unavailable")
                  \/ /\ confirmation[c].phase = "decided"
                     /\ Go(a, IF confirmation[c].approved
                              THEN AfterConfirmation(ex[a], seen[a]) ELSE "confirm_deny")
  /\ UNCHANGED <<store, approval, lapsed, receipts, world, effects, local>>

AuditConfirmationDenied(a) == AuditDenied(a, "confirm_deny", "confirm_reject")
RejectConfirmation(a) == WriteRejected(a, "confirm_reject")

(***************************************************************************)
(* The independent reviewer.  Deferred: one exchange, then pending.        *)
(* Inline: the call polls until the decision or its own deadline.          *)
(***************************************************************************)
ApprovalBound(a) ==
  /\ Deferred => ex[a].safe = seen[a]
  /\ <<"approval", nonce(a)>> \notin lapsed

RequestApproval(a) ==
  /\ At(a, "approval_request")
  /\ \/ /\ ~ApprovalBound(a) /\ UNCHANGED <<approval, grant>>
        /\ Finish(a, IF Deferred THEN "blocked" ELSE "unavailable")
     \/ /\ ApprovalBound(a)
        /\ Approvals!Request(nonce(a))
        /\ LET phase == approval[nonce(a)].phase
           IN  \/ /\ phase \in {"none", "pending"} /\ UNCHANGED grant
                  /\ IF Deferred THEN Respond(a, "pending") ELSE Go(a, "approval_request")
               \/ phase = "consumed" /\ Finish(a, "unavailable") /\ UNCHANGED grant
               \/ /\ phase = "decided"
                  /\ grant' = [grant EXCEPT ![a] = nonce(a)]
                  /\ Go(a, "approval_admit")
  /\ UNCHANGED <<store, confirmation, lapsed, receipts, world, effects, ex, etag, seen>>

AdmitApproved(a) ==
  /\ At(a, "approval_admit")
  /\ IF AdmissionOpen THEN Go(a, "verify") ELSE Finish(a, "blocked")
  /\ UNCHANGED <<store, services, world, effects, local>>

VerifiesAgain(a) ==                        \* bug: a grant that is spent verifies again
  /\ At(a, "verify") /\ approval[grant[a]].approved /\ Go(a, "reserve")
  /\ approval' = [approval EXCEPT ![grant[a]].phase = "consumed"]
  /\ UNCHANGED <<store, confirmation, lapsed, receipts, world, effects, local>>
VerifyThenConsume(a) ==                    \* bug: consent is spent ahead of the CAS
  /\ At(a, "verify") /\ Approvals!Consume(grant[a]) /\ approval[grant[a]].approved
  /\ Go(a, IF Confirm(a) THEN "confirm_consume" ELSE "reserve")
  /\ UNCHANGED <<store, confirmation, lapsed, receipts, world, effects, local>>
(* verify is the one-use consumption; a nonce already spent verifies false. *)
VerifyApproval(a) ==
  /\ At(a, "verify")
  /\ \/ /\ Approvals!Consume(grant[a]) /\ <<"approval", grant[a]>> \notin lapsed
        /\ Go(a, IF approval[grant[a]].approved THEN "reserve" ELSE "approval_deny")
     \/ /\ approval[grant[a]].phase # "decided" \/ <<"approval", grant[a]>> \in lapsed
        /\ Finish(a, "unavailable") /\ UNCHANGED approval
  /\ UNCHANGED <<store, confirmation, lapsed, receipts, world, effects, local>>

AuditApprovalDenied(a) ==
  AuditDenied(a, "approval_deny", IF Deferred THEN "approval_reject" ELSE "done")
RejectApproval(a) == WriteRejected(a, "approval_reject")

(***************************************************************************)
(* Reservation, consumption, audit and linkage, all before the effect.     *)
(***************************************************************************)
Unchecked(a) == TRUE                       \* bug: the reservation is an upsert
Unwritten(a) ==        \* the conditional write of the reservation succeeds
  IF (Deferred /\ Review(a)) \/ Confirm(a) THEN Current(a)
                                         ELSE ledger.state = "missing"
Reserve(a) ==
  /\ At(a, "reserve")
  /\ \/ /\ Unwritten(a) /\ Write(pending(a))
        /\ Go(a, IF Confirm(a) THEN "confirm_consume" ELSE "audit")
     \/ ~Unwritten(a) /\ Finish(a, "outcome_unknown") /\ UNCHANGED store
  /\ UNCHANGED <<services, world, effects, local>>

ConfirmationUsable(a) ==
  /\ confirmation[ex[a].confirm].approved
  /\ <<"confirm", ex[a].confirm>> \notin lapsed
  /\ ex[a].reviewer => grant[a] # None
  /\ grant[a] # None => Approvals!Granted(grant[a]) /\ <<"approval", grant[a]>> \notin lapsed

ConsumeConfirmation(a) ==
  /\ At(a, "confirm_consume")
  /\ \/ ConfirmationUsable(a) /\ Confirmations!Consume(ex[a].confirm) /\ Go(a, "audit")
     \/ /\ ~ConfirmationUsable(a) \/ confirmation[ex[a].confirm].phase # "decided"
        /\ Finish(a, "unavailable") /\ UNCHANGED confirmation
  /\ UNCHANGED <<store, approval, lapsed, receipts, world, effects, local>>

AuditAllow(a) ==
  /\ At(a, "audit")
  /\ Audit(a, "allow") /\ Go(a, "link_read")
  /\ UNCHANGED <<store, approval, confirmation, lapsed, world, effects, local>>

(* Read the record, compare it with what was reserved, keep its etag.      *)
ReadOwn(a, here, expected, next) ==
  /\ At(a, here)
  /\ \/ ledger = expected /\ etag' = [etag EXCEPT ![a] = version] /\ Go(a, next)
     \/ ledger # expected /\ Finish(a, "outcome_unknown") /\ UNCHANGED etag
  /\ UNCHANGED <<store, services, world, effects, ex, seen, grant>>

ReadReserved(a) == ReadOwn(a, "link_read", pending(a), "link_write")

LinkReceipt(a) ==
  /\ At(a, "link_write")
  /\ \/ Current(a) /\ Write(linked(a)) /\ Go(a, "check")
     \/ ~Current(a) /\ Finish(a, "unavailable") /\ UNCHANGED store
  /\ UNCHANGED <<services, world, effects, local>>
(***************************************************************************)
(* The effect.  Every pass of the transport's check() before the last only *)
(* aborts; the last one is: validate everything, read admission once more, *)
(* and then, with no await in between, test expiry and put the POST out.   *)
(***************************************************************************)
Unexpired(a) ==
  /\ grant[a] # None => <<"approval", grant[a]>> \notin lapsed
  /\ Confirm(a) => <<"confirm", ex[a].confirm>> \notin lapsed

FactsTrusted(a) == TRUE                    \* bug: the facts are not looked at again
FactsHold(a) == Rechecked(a) => safe = seen[a]

EffectCheck(a) ==
  /\ At(a, "check")
  /\ found' = [found EXCEPT ![a] = safe]
  /\ IF /\ Unexpired(a)
        /\ FactsHold(a)
        /\ Confirm(a) => Confirmations!Granted(ex[a].confirm)
     THEN Go(a, IF Rechecked(a) THEN "last_admit" ELSE "send")
     ELSE \E answer \in {"blocked", "unavailable"} : Finish(a, answer)
  /\ UNCHANGED <<store, services, world, backend, wire, replied, sent, local>>

LastAdmitCached(a) ==                      \* bug: the first admission read is trusted
  /\ At(a, "last_admit") /\ Go(a, "send")
  /\ UNCHANGED <<store, services, world, effects, local>>
LastAdmit(a) ==
  /\ At(a, "last_admit")
  /\ IF AdmissionOpen THEN Go(a, "send") ELSE Finish(a, "blocked")
  /\ UNCHANGED <<store, services, world, effects, local>>

Send(a) ==
  /\ At(a, "send")
  /\ \/ /\ Unexpired(a) /\ Go(a, "reply")
        /\ sent' = sent \cup {a} /\ wire' = wire \cup {a}
     \/ ~Unexpired(a) /\ Finish(a, "unavailable") /\ UNCHANGED <<sent, wire>>
  /\ UNCHANGED <<store, services, world, backend, replied, found, local>>

(* The backend runs the first POST of the operation unless it was fenced,  *)
(* and answers a duplicate from its stored outcome.                        *)
Deliver(a) ==
  /\ a \in wire
  /\ wire' = wire \ {a}
  /\ backend' = IF backend.state = "clean" THEN [state |-> "executed", by |-> a] ELSE backend
  /\ replied' = IF backend.state = "fenced" THEN replied ELSE replied \cup {a}
  /\ UNCHANGED <<store, services, world, sent, found, pc, result, local, operators>>

ReceiveReply(a) ==
  /\ At(a, "reply") /\ a \in replied
  /\ Go(a, "done_read")
  /\ UNCHANGED <<store, services, world, effects, local>>

ReadLinked(a) == ReadOwn(a, "done_read", linked(a), "done_write")

Complete(a) ==
  /\ At(a, "done_write")
  /\ \/ /\ Current(a)
        /\ Write([linked(a) EXCEPT !.state = "completed", !.outcome = backend.by])
        /\ \E answer \in {"completed", "output_denied", "unavailable", "outcome_unknown"} :
             Finish(a, answer)
     \/ ~Current(a) /\ Finish(a, "outcome_unknown") /\ UNCHANGED store
  /\ UNCHANGED <<services, world, effects, local>>

(* Any await raises.  Once the POST was attempted the effect is unknown.   *)
Attempted(a) == pc[a] \in {"check", "last_admit", "send", "reply", "done_read", "done_write"}
Fail(a) ==
  /\ pc[a] # "done" /\ UNCHANGED operators
  /\ \/ Finish(a, "unavailable")
     \/ Attempted(a) /\ Finish(a, "outcome_unknown")
  /\ UNCHANGED <<store, services, world, effects, local>>

-----------------------------------------------------------------------------
(* Operators: reconcile one linked reservation against the backend, or     *)
(* open and stop admission.  An operator reads, audits, writes under the   *)
(* etag read, and may fail at any await.                                   *)

OpAt(o, here, next) ==
  /\ opPc[o] = here
  /\ opPc' = [opPc EXCEPT ![o] = next]
  /\ UNCHANGED <<pc, result, local, approval, confirmation, lapsed, safe, wire, replied, sent,
                 found>>

(* The call returns and its locals go out of scope.                        *)
OpReturn(o, here) ==
  /\ OpAt(o, here, "idle")
  /\ opEx' = [opEx EXCEPT ![o] = Missing] /\ opEtag' = [opEtag EXCEPT ![o] = 0]
  /\ proof' = [proof EXCEPT ![o] = Untouched]

ReconcileRead(o) ==
  /\ OpAt(o, "idle", "recover") /\ OperationsRequired
  /\ ledger.state = "pending" /\ ledger.receipt # None
  /\ opEx' = [opEx EXCEPT ![o] = ledger] /\ opEtag' = [opEtag EXCEPT ![o] = version]
  /\ UNCHANGED <<store, receipts, admission, barred, backend, proof>>

(* The backend proves the effect, or first fences it for good.             *)
RecoverWithoutFence(o) ==                  \* bug: "not executed yet" is taken as proof
  /\ OpAt(o, "recover", "recover_audit") /\ Decision[safe] # "deny"
  /\ proof' = [proof EXCEPT ![o] = backend]
  /\ UNCHANGED <<store, receipts, admission, barred, backend, opEx, opEtag>>
RecoverWhenExecuted(o) ==                  \* bug: recovery waits for an execution
  RecoverWithoutFence(o) /\ backend.state # "clean"
Recover(o) ==
  /\ OpAt(o, "recover", "recover_audit")
  /\ Decision[safe] # "deny"
  /\ backend' = IF backend.state = "clean" THEN [state |-> "fenced", by |-> o] ELSE backend
  /\ proof' = [proof EXCEPT ![o] = backend']
  /\ UNCHANGED <<store, receipts, admission, barred, opEx, opEtag>>

RecoverAudit(o) ==
  /\ OpAt(o, "recover_audit", "recover_write")
  /\ Audit(o, IF proof[o].state = "executed" THEN "allow" ELSE "deny")
  /\ UNCHANGED <<store, admission, barred, backend, opEx, opEtag, proof>>

RecoverWrite(o) ==
  /\ OpReturn(o, "recover_write")
  /\ IF version = opEtag[o]
     THEN Write([opEx[o] EXCEPT
                   !.state = IF proof[o].state = "executed" THEN "completed" ELSE "not_executed",
                   !.outcome = proof[o].by])
     ELSE UNCHANGED store
  /\ UNCHANGED <<receipts, admission, barred, backend>>

AdmissionRead(o, target) ==
  /\ OpAt(o, "idle", target)
  /\ OperationsRequired /\ admission.writes < MaxAdmission
  /\ opEtag' = [opEtag EXCEPT ![o] = admission.writes]
  /\ UNCHANGED <<store, receipts, admission, barred, backend, opEx, proof>>

AdmissionAudit(o, target) ==
  /\ OpAt(o, target, IF target = "open" THEN "open_write" ELSE "stop_write")
  /\ Audit(o, IF target = "open" THEN "allow" ELSE "deny")
  /\ UNCHANGED <<store, admission, barred, backend, opEx, opEtag, proof>>

NotCleared == {a \in Attempts : pc[a] # "send"}

OpenWrite(o) ==
  /\ OpReturn(o, "open_write")
  /\ IF admission.writes = opEtag[o]
     THEN /\ admission' = [state |-> "open", live |-> TRUE, writes |-> admission.writes + 1]
          /\ barred' = {}
     ELSE UNCHANGED <<admission, barred>>
  /\ UNCHANGED <<store, receipts, backend>>

StopWrite(o) ==
  /\ OpReturn(o, "stop_write")
  /\ IF admission.writes = opEtag[o]
     THEN /\ admission' = [state |-> "stopped", live |-> FALSE, writes |-> admission.writes + 1]
          /\ barred' = NotCleared
     ELSE UNCHANGED <<admission, barred>>
  /\ UNCHANGED <<store, receipts, backend>>

OpFail(o) ==
  /\ opPc[o] # "idle" /\ OpReturn(o, opPc[o])
  /\ UNCHANGED <<store, receipts, admission, barred, backend>>

-----------------------------------------------------------------------------
(* The environment: humans decide, intents and leases lapse, facts change. *)

Env == UNCHANGED <<store, receipts, effects, pc, result, local, operators>>

DecideApproval(n, ok) ==
  /\ <<"approval", n>> \notin lapsed /\ Approvals!Decide(n, ok)
  /\ Env /\ UNCHANGED <<confirmation, lapsed, world>>

DecideConfirmation(c, ok) ==
  /\ <<"confirm", c>> \notin lapsed /\ Confirmations!Decide(c, ok)
  /\ Env /\ UNCHANGED <<approval, lapsed, world>>

Lapse(kind, a) ==
  /\ IF kind = "approval" THEN approval[a].phase # "none" ELSE confirmation[a].phase # "none"
  /\ lapsed' = lapsed \cup {<<kind, a>>}
  /\ Env /\ UNCHANGED <<approval, confirmation, world>>

LeaseLapses ==
  /\ admission.live
  /\ admission' = [admission EXCEPT !.live = FALSE] /\ barred' = NotCleared
  /\ Env /\ UNCHANGED <<approval, confirmation, lapsed, safe>>

FactsChange ==
  /\ safe' \in Safes
  /\ Env /\ UNCHANGED <<approval, confirmation, lapsed, admission, barred>>

-----------------------------------------------------------------------------
Attempt(a) ==
  \/ Read(a) \/ Replay(a) \/ Admit(a) \/ Evaluate(a) \/ AuditPolicyDeny(a)
  \/ CreateConfirmation(a) \/ RereadConfirmation(a) \/ ResolveConfirmation(a)
  \/ AuditConfirmationDenied(a) \/ RejectConfirmation(a)
  \/ StoreApproval(a) \/ RereadApproval(a) \/ RequestApproval(a) \/ AdmitApproved(a)
  \/ VerifyApproval(a) \/ AuditApprovalDenied(a) \/ RejectApproval(a)
  \/ Reserve(a) \/ ConsumeConfirmation(a) \/ AuditAllow(a) \/ ReadReserved(a) \/ LinkReceipt(a)
  \/ EffectCheck(a) \/ LastAdmit(a) \/ Send(a) \/ ReceiveReply(a) \/ ReadLinked(a) \/ Complete(a)

Reconcile(o) == ReconcileRead(o) \/ Recover(o) \/ RecoverAudit(o) \/ RecoverWrite(o)
Admission(o) ==
  \/ \E target \in {"open", "stop"} : AdmissionRead(o, target) \/ AdmissionAudit(o, target)
  \/ OpenWrite(o) \/ StopWrite(o)

Environment ==
  \/ \E a \in Attempts, ok \in BOOLEAN : DecideApproval(a, ok) \/ DecideConfirmation(a, ok)
  \/ \E a \in Attempts, kind \in {"approval", "confirm"} : Lapse(kind, a)
  \/ LeaseLapses \/ FactsChange

Next ==
  \/ \E a \in Attempts : Attempt(a) \/ Deliver(a) \/ Fail(a)
  \/ \E o \in Operators : Reconcile(o) \/ Admission(o) \/ OpFail(o)
  \/ Environment

Spec == Init /\ [][Next]_vars

(* Operators are scheduled, their calls end, and do not fail for ever.     *)
FairSpec ==
  /\ Spec
  /\ \A o \in Operators : /\ WF_vars(OpFail(o))
                          /\ SF_vars(ReconcileRead(o)) /\ SF_vars(Recover(o))
                          /\ SF_vars(RecoverAudit(o)) /\ SF_vars(RecoverWrite(o))

-----------------------------------------------------------------------------
Pcs == {"read", "replay", "admit", "evaluate", "deny", "confirm_write", "confirm_read",
        "confirm_request", "confirm_deny", "confirm_reject", "approval_write",
        "approval_read", "approval_request", "approval_admit", "verify",
        "approval_deny", "approval_reject", "reserve", "confirm_consume", "audit",
        "link_read", "link_write", "check", "last_admit", "send", "reply",
        "done_read", "done_write", "done"}
Answers == {"none", "completed", "output_denied", "pending", "conflict", "rejected",
            "fenced", "blocked", "unavailable", "outcome_unknown"}
OpPcs == {"idle", "recover", "recover_audit", "recover_write",
          "open", "stop", "open_write", "stop_write"}

(* Every variable keeps the shape of the value the code stores in it.      *)
TypeOK ==
  /\ ledger \in Record /\ version \in Nat
  /\ Approvals!TypeOK /\ Confirmations!TypeOK
  /\ lapsed \subseteq {"approval", "confirm"} \X Attempts
  /\ receipts \subseteq (Attempts \cup Operators) \X {"allow", "deny"}
  /\ admission \in [state : {"missing", "open", "stopped"}, live : BOOLEAN, writes : Nat]
  /\ safe \in Safes
  /\ backend \in Effect
  /\ wire \subseteq Attempts /\ replied \subseteq Attempts
  /\ sent \subseteq Attempts /\ barred \subseteq Attempts
  /\ found \in [Attempts -> Safes \cup {None}]
  /\ pc \in [Attempts -> Pcs] /\ result \in [Attempts -> Answers]
  /\ ex \in [Attempts -> Record] /\ etag \in [Attempts -> Nat]
  /\ seen \in [Attempts -> Safes \cup {None}] /\ grant \in [Attempts -> Id]
  /\ opPc \in [Operators -> OpPcs] /\ opEx \in [Operators -> Record]
  /\ opEtag \in [Operators -> Nat]
  /\ proof \in [Operators -> Effect]

Reserved == {"pending", "completed", "not_executed"}

(* However many attempts race, restart and retry under one idempotency     *)
(* key, the gateway hands at most one POST to the transport, whatever the  *)
(* backend does about duplicates.                                          *)
AtMostOnePost == \A a, b \in sent : a = b

(* The audit linkage is durable before the HTTP boundary and is never      *)
(* lost: the record names the receipt of the attempt whose POST is out.    *)
PostIsLinked ==
  \A a \in sent : /\ <<a, "allow">> \in receipts
                  /\ ledger.state \in Reserved /\ ledger.receipt = a

(* An effect that policy puts under an independent reviewer is sent only   *)
(* with a spent, approving grant for the same arguments, and one under the *)
(* user's confirmation only with a spent, approving confirmation of the    *)
(* same arguments.  The facts that the confirmation, or a deferred grant,  *)
(* was asked for, by whichever attempt, are the ones the check at the      *)
(* effect found again, after every wait in between.                        *)
PostIsAuthorized ==
  \A a \in sent :
    /\ ApprovalMode # "none" /\ (ReviewAlways \/ Decision[seen[a]] = "escalate") =>
         /\ grant[a] # None /\ Approvals!Granted(grant[a])
         /\ Input[grant[a]] = Input[a]
         /\ Deferred => seen[grant[a]] = found[a]
    /\ Trigger # "none" /\ (Trigger = "always" \/ Decision[seen[a]] = "escalate") =>
         \E c \in Attempts : /\ Confirmations!Granted(c)
                             /\ Input[c] = Input[a] /\ seen[c] = found[a]

(* CAS reserves the operation before one-use consent is spent, so a lost   *)
(* consume acknowledgement can never reopen the operation.                 *)
ConsentSpentAfterReservation ==
  \A c \in Attempts : confirmation[c].phase = "consumed" => ledger.state \in Reserved

(* End to end: whatever effect ran was posted by an attempt whose receipt  *)
(* is durable, linked for good, and not recorded as anything but done.     *)
EffectIsGoverned ==
  backend.state = "executed" =>
    /\ backend.by \in sent /\ <<backend.by, "allow">> \in receipts
    /\ ledger.receipt = backend.by /\ ledger.state \in {"pending", "completed"}

(* A terminal record tells the truth about the business effect, however    *)
(* the operator's reconciliation raced the dispatcher and its late POST.   *)
OutcomeIsTrue ==
  /\ ledger.state = "completed" => backend.state = "executed" /\ ledger.outcome = backend.by
  /\ ledger.state = "not_executed" => backend.state = "fenced"
  /\ ledger.state = "rejected" => backend.state = "clean" /\ sent = {}

(* The answer given to a caller is true when it is given and stays true:   *)
(* success means a durable outcome; a refusal means that this call never   *)
(* put its request out; fenced means nobody's request will ever run.       *)
AnswersAreTrue ==
  \A a \in Attempts :
    /\ result[a] = "completed" => backend.state = "executed" /\ ledger.state = "completed"
    /\ result[a] \in {"blocked", "rejected", "conflict", "pending"} => a \notin sent
    /\ result[a] = "fenced" => backend.state = "fenced"

(* A reservation is never reopened and a terminal record never rewritten.  *)
NeverReopened ==
  [][/\ ledger.state \in Terminal => ledger' = ledger
     /\ ledger.state = "pending" => ledger'.state \in Reserved
     /\ ledger.receipt # None => ledger'.receipt = ledger.receipt]_ledger

(* A stored operation whose reviewer's grant is spent while nobody carries *)
(* that grant to the record any more.                                      *)
Carrying == {"reserve", "approval_deny", "approval_reject"}
Abandoned ==
  /\ ledger.state = "awaiting_approval"
  /\ approval[ledger.nonce].phase = "consumed"
  /\ \A a \in Attempts : grant[a] = ledger.nonce => pc[a] \notin Carrying

(* A crash between the consumption of the grant and the reservation closes *)
(* the operation for good: no retry, later decision or other attempt takes *)
(* it up again or posts for it.                                            *)
AbandonedForGood == [][Abandoned => Abandoned' /\ UNCHANGED <<ledger, sent>>]_vars

(* Consumers of the ledger may read it as one operation that waits, is     *)
(* reserved once, and whose effect runs at most once and only then.        *)
Operation == INSTANCE GovernedOperation WITH
  phase  <- CASE ledger.state = "missing" -> "open"
              [] ledger.state \in {"awaiting_confirmation", "awaiting_approval"} -> "waiting"
              [] ledger.state = "pending" -> "reserved"
              [] ledger.state = "completed" -> "done"
              [] ledger.state = "not_executed" -> "fenced"
              [] ledger.state = "rejected" -> "rejected",
  effect <- backend.state
ImplementsOperation == Operation!Spec

(* Once a stop (or the lapse of the lease) is durable, no attempt that has *)
(* not passed its last admission read sends, until admission is reopened.  *)
StopBars == [][\A a \in barred : a \in sent' => a \in sent]_vars

(* A reservation linked to its receipt is eventually resolved by a working *)
(* operator and backend, whatever became of the attempt that made it.      *)
LinkedIsResolved ==
  (ledger.state = "pending" /\ ledger.receipt # None) ~> (ledger.state \in Terminal)

-----------------------------------------------------------------------------
(* The inductive invariant behind the safety properties above.             *)

(* An attempt that reserved the operation and has not answered yet.        *)
Owning == {"confirm_consume", "audit", "link_read", "link_write", "check",
           "last_admit", "send", "reply", "done_read", "done_write"}
Linking == {"check", "last_admit", "send", "reply", "done_read", "done_write"}
Waiting == {"missing", "awaiting_confirmation", "awaiting_approval"}
Reading == {"admit", "evaluate", "deny", "confirm_write", "confirm_request", "confirm_deny",
            "confirm_reject", "approval_write", "approval_request", "approval_admit",
            "verify", "approval_deny", "approval_reject", "reserve"}

(* Etags never run ahead, and an attempt whose etag is current still has   *)
(* the record it read; while it rereads its own write its etag is stale.   *)
Etagged(a) ==
  /\ etag[a] <= version
  /\ pc[a] \in Reading => ex[a].state \in Waiting
  /\ pc[a] \in Reading /\ etag[a] = version => ledger = ex[a]
  /\ pc[a] \in {"confirm_read", "approval_read"} =>
       etag[a] < version /\ ex[a].state \in Waiting
  /\ pc[a] = "link_write" /\ etag[a] = version => ledger = pending(a)
  /\ pc[a] = "done_write" /\ etag[a] = version => ledger = linked(a)
EtagInv == \A a \in Attempts : Etagged(a)

(* At most one attempt owns the operation, and it is reserved for good.    *)
OwnerInv ==
  /\ \A a, b \in Attempts : pc[a] \in Owning /\ pc[b] \in Owning => a = b
  /\ \A a \in Attempts : pc[a] \in Owning => ledger.state \in Reserved
  /\ \A a \in Attempts : pc[a] \in Linking => ledger.receipt = a
  /\ ledger.state \in Waiting => ledger.receipt = None

PostInv ==
  /\ wire \subseteq sent /\ replied \subseteq sent
  /\ \A a \in sent : /\ pc[a] \in {"reply", "done_read", "done_write", "done"}
                     /\ ledger.state \in Reserved /\ ledger.receipt = a
  /\ \A a \in Attempts : pc[a] \in {"done_read", "done_write"} => a \in replied
  /\ replied # {} => backend.state = "executed"
  /\ backend.state = "clean" <=> backend = Untouched
  /\ backend.state # "clean" => ledger.state \in Reserved

OperatorInv ==
  \A o \in Operators :
    /\ opPc[o] \in {"recover", "recover_audit", "recover_write"} =>
         /\ opEtag[o] <= version /\ ledger.state \in Reserved
         /\ opEx[o].state = "pending" /\ opEx[o].receipt # None
         /\ opEtag[o] = version => ledger = opEx[o]
    /\ opPc[o] \in {"recover_audit", "recover_write"} =>
         backend.state # "clean" /\ proof[o] = backend

CoreInv == TypeOK /\ EtagInv /\ OwnerInv /\ PostInv /\ OperatorInv /\ OutcomeIsTrue

(* A stored rejection follows a stored waiting record.                     *)
Reviewing == {"approval_read", "approval_request", "approval_admit", "verify", "approval_deny",
              "approval_reject"}
Stored(a) ==
  /\ pc[a] \in {"confirm_read", "confirm_request", "confirm_deny", "confirm_reject"} =>
       ex[a].state # "missing"
  /\ pc[a] \in Reviewing /\ Deferred => ex[a].state = "awaiting_approval"
  /\ pc[a] = "approval_reject" => Deferred
StoredInv == \A a \in Attempts : Stored(a)

(* Nothing is linked or sent before the decision to allow is on record.    *)
AuditInv ==
  \A a \in Attempts : pc[a] \in Linking \cup {"link_read", "link_write"} \/ a \in sent =>
    <<a, "allow">> \in receipts

Answered(a) ==
  /\ result[a] = "completed" => backend.state = "executed" /\ ledger.state = "completed"
  /\ result[a] \in {"blocked", "rejected", "conflict", "pending"} => a \notin sent
  /\ result[a] = "fenced" => backend.state = "fenced"
  /\ result[a] # "none" => pc[a] = "done"
  /\ pc[a] = "replay" => ledger.state = "completed"
AnswerInv == \A a \in Attempts : Answered(a)

(* What a stop found not cleared cannot be cleared while admission is shut. *)
BarInv ==
  /\ barred # {} => ~AdmissionOpen
  /\ \A a \in barred : pc[a] # "send"
  /\ admission.live => OperationsRequired
  /\ \A o \in Operators : opPc[o] # "idle" => OperationsRequired

(* An identifier kept in a record stands for the arguments and facts of    *)
(* the attempt that minted it, whose snapshot is taken and stays.          *)
Minted(n, input, s) ==
  /\ n \in Attempts /\ Input[n] = input /\ seen[n] = s
  /\ pc[n] \notin {"read", "admit", "evaluate"}
Kept(r) ==
  /\ r.nonce # None => Minted(r.nonce, r.input, r.safe)
  /\ r.confirm # None => Trigger # "none" /\ Minted(r.confirm, r.input, r.safe)
  /\ r.state = "awaiting_confirmation" => r.confirm # None
  /\ r.state = "awaiting_approval" => r.nonce # None
Keeping(a) ==
  /\ Kept(ex[a])
  /\ ex[a].state # "missing" /\ pc[a] # "done" => ex[a].input = Input[a]
  /\ pc[a] \in {"read", "admit", "evaluate"} => grant[a] = None
  /\ pc[a] = "confirm_write" => Trigger # "none"
KeptInv == Kept(ledger) /\ \A a \in Attempts : Keeping(a)

(* What an attempt has shown for each obligation by the time it is here.   *)
Confirmed == {"approval_write", "reserve"} \cup Reviewing \cup Owning
Consented(a) ==
  /\ (pc[a] \in Confirmed \/ a \in sent) /\ Confirm(a) =>
       ex[a].confirm # None /\ ex[a].safe = seen[a] /\ ex[a].input = Input[a]
  /\ (pc[a] \in Owning \ {"confirm_consume"} \/ a \in sent) /\ Confirm(a) =>
       Confirmations!Granted(ex[a].confirm)
ConsentInv == \A a \in Attempts : Consented(a)

Reviewed(a) ==
  /\ grant[a] # None => /\ grant[a] \in Attempts /\ Input[grant[a]] = Input[a]
                        /\ Deferred => Minted(grant[a], Input[a], seen[a])
  /\ pc[a] \in {"approval_admit", "verify"} => grant[a] # None
  /\ (pc[a] \in {"reserve"} \cup Owning \/ a \in sent) /\ Review(a) =>
       grant[a] # None /\ Approvals!Granted(grant[a])
ReviewInv == \A a \in Attempts : Reviewed(a)

(* Who carries a grant got it for the record it read, and what the user    *)
(* answered stands behind every record that went on to the reviewer.       *)
Approved(c) == confirmation[c].phase \in {"decided", "consumed"} /\ confirmation[c].approved
Declined(c) == confirmation[c].phase \in {"decided", "consumed"} /\ ~confirmation[c].approved
Sanctioned(r) ==
  r.state = "awaiting_approval" => Deferred /\ (r.confirm # None => Approved(r.confirm))
Carried(a) ==
  /\ grant[a] # None => pc[a] \in {"approval_admit", "verify", "done"} \cup Carrying \cup Owning
  /\ Deferred /\ pc[a] \in {"approval_admit", "verify", "approval_deny", "approval_reject"} =>
       grant[a] = ex[a].nonce
  /\ Deferred /\ pc[a] = "reserve" /\ Review(a) => grant[a] = ex[a].nonce
  /\ pc[a] = "confirm_write" => ex[a].state = "missing"
  /\ pc[a] \in {"confirm_deny", "confirm_reject"} =>
       ex[a].confirm # None /\ Declined(ex[a].confirm)
  /\ pc[a] = "approval_write" =>
       /\ Deferred /\ ex[a].state # "awaiting_approval"
       /\ ex[a].confirm # None => Approved(ex[a].confirm)
  /\ pc[a] = "confirm_consume" => Confirm(a)
  /\ Sanctioned(ex[a])
CarriedInv == Sanctioned(ledger) /\ \A a \in Attempts : Carried(a)

(* An attempt that is cleared found its own facts once more.               *)
Refound(a) ==
  (pc[a] \in {"last_admit", "send"} \/ a \in sent) /\ Rechecked(a) => found[a] = seen[a]
FoundInv == \A a \in Attempts : Refound(a)

(* Only a POST makes the effect run.                                       *)
PostedInv == backend.state = "executed" => backend.by \in sent

IInv == /\ CoreInv /\ StoredInv /\ AuditInv /\ AnswerInv /\ BarInv
        /\ ConsentSpentAfterReservation /\ KeptInv /\ ConsentInv /\ ReviewInv /\ CarriedInv
        /\ FoundInv /\ PostedInv
=============================================================================
