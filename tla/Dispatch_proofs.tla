--------------------------- MODULE Dispatch_proofs ---------------------------
(* Proofs about the governed dispatcher.                                     *)
EXTENDS Dispatch, TLAPS

USE DEF store, services, world, effects, local, operators

-----------------------------------------------------------------------------
(* Type correctness.                                                         *)

LEMMA RecordTypes ==
  ASSUME TypeOK, NEW a \in Attempts
  PROVE  /\ Missing \in Record /\ pending(a) \in Record /\ linked(a) \in Record
         /\ awaiting_confirmation(a) \in Record /\ awaiting_approval(a) \in Record
<1>1. Missing \in Record
  BY ConstantsAssumption DEF Missing, Record, States, Id, Outcome
<1>2. pending(a) \in Record /\ linked(a) \in Record
  BY <1>1, ConstantsAssumption DEF pending, linked, Record, States, Id
<1>3. awaiting_confirmation(a) \in Record
  BY <1>1, ConstantsAssumption
  DEF awaiting_confirmation, Record, States, Id, TypeOK, Review, review_required
<1>4. awaiting_approval(a) \in Record
  BY <1>1, ConstantsAssumption DEF awaiting_approval, Record, States, Id, TypeOK
<1>. QED BY <1>1, <1>2, <1>3, <1>4

LEMMA UpdateTypes ==
  ASSUME NEW r \in Record, NEW s \in States, NEW out \in Outcome
  PROVE  /\ [r EXCEPT !.state = s] \in Record
         /\ [r EXCEPT !.state = s, !.outcome = out] \in Record
  BY DEF Record

(* A call to an authority store keeps its records typed, whatever it names.  *)
LEMMA UseTypes ==
  ASSUME TypeOK, NEW n
  PROVE  /\ Approvals!Request(n) \/ Approvals!Consume(n) => Approvals!TypeOK'
         /\ Confirmations!Request(n) \/ Confirmations!Consume(n) => Confirmations!TypeOK'
<1>1. ASSUME NEW p \in Approvals!Phases
      PROVE  [approval EXCEPT ![n].phase = p] \in [Attempts -> Approvals!Authority]
  BY <1>1 DEF TypeOK, Approvals!TypeOK, Approvals!Authority
<1>2. ASSUME NEW p \in Confirmations!Phases
      PROVE  [confirmation EXCEPT ![n].phase = p] \in [Attempts -> Confirmations!Authority]
  BY <1>2 DEF TypeOK, Confirmations!TypeOK, Confirmations!Authority
<1>3. Approvals!Request(n) \/ Approvals!Consume(n) => Approvals!TypeOK'
  BY <1>1 DEF TypeOK, Approvals!Request, Approvals!Consume, Approvals!TypeOK, Approvals!Phases
<1>4. Confirmations!Request(n) \/ Confirmations!Consume(n) => Confirmations!TypeOK'
  BY <1>2 DEF TypeOK, Confirmations!Request, Confirmations!Consume, Confirmations!TypeOK,
              Confirmations!Phases
<1>. QED  BY <1>3, <1>4

LEMMA DecideTypes ==
  ASSUME TypeOK, NEW n, NEW ok \in BOOLEAN
  PROVE  /\ Approvals!Decide(n, ok) => Approvals!TypeOK'
         /\ Confirmations!Decide(n, ok) => Confirmations!TypeOK'
<1>1. [phase |-> "decided", approved |-> ok] \in Approvals!Authority
  BY DEF Approvals!Authority, Approvals!Phases
<1>2. [phase |-> "decided", approved |-> ok] \in Confirmations!Authority
  BY DEF Confirmations!Authority, Confirmations!Phases
<1>3. Approvals!Decide(n, ok) => Approvals!TypeOK'
  BY <1>1 DEF TypeOK, Approvals!Decide, Approvals!TypeOK
<1>4. Confirmations!Decide(n, ok) => Confirmations!TypeOK'
  BY <1>2 DEF TypeOK, Confirmations!Decide, Confirmations!TypeOK
<1>. QED  BY <1>3, <1>4

LEMMA TypeInit == Init => TypeOK
  BY ConstantsAssumption
  DEF Init, TypeOK, Missing, Record, States, Id, Outcome, Untouched, Effect, Pcs, Answers,
      OpPcs, Approvals!Init, Approvals!TypeOK, Approvals!Absent, Approvals!Authority,
      Approvals!Phases, Confirmations!Init, Confirmations!TypeOK, Confirmations!Absent,
      Confirmations!Authority, Confirmations!Phases

LEMMA TypeAttempt ==
  ASSUME TypeOK, NEW a \in Attempts, Attempt(a) \/ Deliver(a) \/ Fail(a)
  PROVE  TypeOK'
<1>. USE DEF TypeOK, At, Go, Finish, Respond, Pcs, Answers, Approvals!TypeOK,
             Confirmations!TypeOK
<1>1. CASE Read(a)                      BY <1>1 DEF Read
<1>2. CASE Replay(a)                    BY <1>2 DEF Replay
<1>3. CASE Admit(a)                     BY <1>3 DEF Admit
<1>4. CASE Evaluate(a)
  <2>. AfterPolicy(ex[a], safe) \in Pcs
    BY DEF AfterPolicy, AfterConfirmation
  <2>. QED BY <1>4 DEF Evaluate
<1>5. CASE AuditPolicyDeny(a)           BY <1>5 DEF AuditPolicyDeny, Audit
<1>6. CASE CreateConfirmation(a)
  BY <1>6, RecordTypes DEF CreateConfirmation, WriteWaiting, Write
<1>7. CASE RereadConfirmation(a)        BY <1>7 DEF RereadConfirmation, ReadBack
<1>8. CASE ResolveConfirmation(a)
  <2>1. confirmation' = confirmation \/ Confirmations!Request(ex[a].confirm)
    BY <1>8 DEF ResolveConfirmation
  <2>2. Confirmations!TypeOK'           BY <2>1, UseTypes
  <2>3. pc' \in [Attempts -> Pcs] /\ result' \in [Attempts -> Answers]
    BY <1>8 DEF ResolveConfirmation, AfterConfirmation
  <2>. QED BY <1>8, <2>2, <2>3 DEF ResolveConfirmation
<1>9. CASE AuditConfirmationDenied(a)   BY <1>9 DEF AuditConfirmationDenied, AuditDenied, Audit
<1>10. CASE RejectConfirmation(a)
  <2>. [ex[a] EXCEPT !.state = "rejected"] \in Record
    BY DEF Record, States
  <2>. QED BY <1>10 DEF RejectConfirmation, WriteRejected, Write
<1>11. CASE StoreApproval(a)
  BY <1>11, RecordTypes DEF StoreApproval, WriteWaiting, Write
<1>12. CASE RereadApproval(a)           BY <1>12 DEF RereadApproval, ReadBack
<1>13. CASE RequestApproval(a)
  <2>1. approval' = approval \/ Approvals!Request(nonce(a))
    BY <1>13 DEF RequestApproval
  <2>2. nonce(a) \in Id
    BY DEF nonce, Record, Id
  <2>3. Approvals!TypeOK'               BY <2>1, UseTypes
  <2>4. grant' \in [Attempts -> Id]     BY <1>13, <2>2 DEF RequestApproval
  <2>5. pc' \in [Attempts -> Pcs] /\ result' \in [Attempts -> Answers]
    BY <1>13 DEF RequestApproval
  <2>. QED BY <1>13, <2>3, <2>4, <2>5 DEF RequestApproval
<1>14. CASE AdmitApproved(a)            BY <1>14 DEF AdmitApproved
<1>15. CASE VerifyApproval(a)
  <2>1. approval' = approval \/ Approvals!Consume(grant[a])
    BY <1>15 DEF VerifyApproval
  <2>2. Approvals!TypeOK'               BY <2>1, UseTypes
  <2>. QED BY <1>15, <2>2 DEF VerifyApproval
<1>16. CASE AuditApprovalDenied(a)      BY <1>16 DEF AuditApprovalDenied, AuditDenied, Audit
<1>17. CASE RejectApproval(a)
  <2>. [ex[a] EXCEPT !.state = "rejected"] \in Record
    BY DEF Record, States
  <2>. QED BY <1>17 DEF RejectApproval, WriteRejected, Write
<1>18. CASE Reserve(a)                  BY <1>18, RecordTypes DEF Reserve, Write
<1>19. CASE ConsumeConfirmation(a)
  <2>1. confirmation' = confirmation \/ Confirmations!Consume(ex[a].confirm)
    BY <1>19 DEF ConsumeConfirmation
  <2>2. Confirmations!TypeOK'           BY <2>1, UseTypes
  <2>. QED BY <1>19, <2>2 DEF ConsumeConfirmation
<1>20. CASE AuditAllow(a)               BY <1>20 DEF AuditAllow, Audit
<1>21. CASE ReadReserved(a)             BY <1>21 DEF ReadReserved, ReadOwn
<1>22. CASE LinkReceipt(a)              BY <1>22, RecordTypes DEF LinkReceipt, Write
<1>23. CASE EffectCheck(a)              BY <1>23 DEF EffectCheck
<1>24. CASE LastAdmit(a)                BY <1>24 DEF LastAdmit
<1>25. CASE Send(a)                     BY <1>25 DEF Send
<1>26. CASE ReceiveReply(a)             BY <1>26 DEF ReceiveReply
<1>27. CASE ReadLinked(a)               BY <1>27 DEF ReadLinked, ReadOwn
<1>28. CASE Complete(a)
  <2>. [linked(a) EXCEPT !.state = "completed", !.outcome = backend.by] \in Record
    BY RecordTypes, UpdateTypes DEF States, Effect
  <2>. QED BY <1>28 DEF Complete, Write
<1>29. CASE Deliver(a)
  BY <1>29 DEF Deliver, Effect, Outcome
<1>30. CASE Fail(a)                     BY <1>30 DEF Fail
<1>. QED
  BY <1>1, <1>2, <1>3, <1>4, <1>5, <1>6, <1>7, <1>8, <1>9, <1>10, <1>11, <1>12, <1>13, <1>14,
     <1>15, <1>16, <1>17, <1>18, <1>19, <1>20, <1>21, <1>22, <1>23, <1>24, <1>25, <1>26,
     <1>27, <1>28, <1>29, <1>30
  DEF Attempt

LEMMA TypeOperator ==
  ASSUME TypeOK, NEW o \in Operators, Reconcile(o) \/ Admission(o) \/ OpFail(o)
  PROVE  TypeOK'
<1>. USE DEF TypeOK, OpAt, OpPcs, Approvals!TypeOK, Confirmations!TypeOK
<1>0. Untouched \in Effect /\ Missing \in Record
  BY ConstantsAssumption
  DEF Untouched, Effect, Outcome, Missing, Record, States, Id
<1>1. CASE ReconcileRead(o)             BY <1>1 DEF ReconcileRead
<1>2. CASE Recover(o)
  <2>1. backend' \in Effect             BY <1>2 DEF Recover, Effect, Outcome
  <2>. QED BY <1>2, <2>1 DEF Recover
<1>3. CASE RecoverAudit(o)              BY <1>3 DEF RecoverAudit, Audit
<1>4. CASE RecoverWrite(o)
  <2>. DEFINE end == IF proof[o].state = "executed" THEN "completed" ELSE "not_executed"
  <2>1. [opEx[o] EXCEPT !.state = end, !.outcome = proof[o].by] \in Record
    BY UpdateTypes DEF Effect, States
  <2>. HIDE DEF end
  <2>2. ledger' \in Record /\ version' \in Nat
    BY <1>4, <2>1 DEF RecoverWrite, Write, end
  <2>. QED BY <1>0, <1>4, <2>2 DEF RecoverWrite, OpReturn
<1>5. CASE \E target \in {"open", "stop"} : AdmissionRead(o, target)
  BY <1>5 DEF AdmissionRead
<1>6. CASE \E target \in {"open", "stop"} : AdmissionAudit(o, target)
  BY <1>6 DEF AdmissionAudit, Audit
<1>7. CASE OpenWrite(o) \/ StopWrite(o)
  <2>. DEFINE Admissions ==
         [state : {"missing", "open", "stopped"}, live : BOOLEAN, writes : Nat]
  <2>1. ASSUME NEW s \in {"open", "stopped"}, NEW live \in BOOLEAN
        PROVE  [state |-> s, live |-> live, writes |-> admission.writes + 1] \in Admissions
    OBVIOUS
  <2>2. admission \in Admissions        OBVIOUS
  <2>. HIDE DEF Admissions
  <2>3. admission' \in Admissions
    BY <1>7, <2>1, <2>2 DEF OpenWrite, StopWrite
  <2>. USE DEF Admissions
  <2>. QED BY <1>0, <1>7, <2>3 DEF OpenWrite, StopWrite, OpReturn, NotCleared
<1>9. CASE OpFail(o)                    BY <1>0, <1>9 DEF OpFail, OpReturn
<1>. QED
  BY <1>1, <1>2, <1>3, <1>4, <1>5, <1>6, <1>7, <1>9 DEF Reconcile, Admission

LEMMA TypeEnvironment ==
  ASSUME TypeOK, Environment
  PROVE  TypeOK'
<1>. USE DEF TypeOK, Env
<1>1. ASSUME NEW a \in Attempts, NEW ok \in BOOLEAN,
             DecideApproval(a, ok) \/ DecideConfirmation(a, ok)
      PROVE  TypeOK'
  <2>1. Approvals!TypeOK' /\ Confirmations!TypeOK'
    <3>1. CASE DecideApproval(a, ok)
      <4>1. Approvals!Decide(a, ok) /\ UNCHANGED confirmation
        BY <3>1 DEF DecideApproval
      <4>2. Approvals!TypeOK'           BY <4>1, DecideTypes
      <4>3. Confirmations!TypeOK'       BY <4>1 DEF Confirmations!TypeOK
      <4>. QED  BY <4>2, <4>3
    <3>2. CASE DecideConfirmation(a, ok)
      <4>1. Confirmations!Decide(a, ok) /\ UNCHANGED approval
        BY <3>2 DEF DecideConfirmation
      <4>2. Confirmations!TypeOK'       BY <4>1, DecideTypes
      <4>3. Approvals!TypeOK'           BY <4>1 DEF Approvals!TypeOK
      <4>. QED  BY <4>2, <4>3
    <3>. QED  BY <1>1, <3>1, <3>2
  <2>. QED BY <1>1, <2>1 DEF DecideApproval, DecideConfirmation
<1>2. ASSUME NEW a \in Attempts, NEW kind \in {"approval", "confirm"}, Lapse(kind, a)
      PROVE  TypeOK'
  BY <1>2 DEF Lapse, Approvals!TypeOK, Confirmations!TypeOK
<1>3. CASE LeaseLapses
  BY <1>3 DEF LeaseLapses, NotCleared, Approvals!TypeOK, Confirmations!TypeOK
<1>4. CASE FactsChange
  BY <1>4 DEF FactsChange, Approvals!TypeOK, Confirmations!TypeOK
<1>. QED  BY <1>1, <1>2, <1>3, <1>4 DEF Environment

LEMMA TypeStep == TypeOK /\ [Next]_vars => TypeOK'
<1>1. CASE UNCHANGED vars
  BY <1>1 DEF vars, TypeOK, Approvals!TypeOK, Confirmations!TypeOK
<1>. QED  BY <1>1, TypeAttempt, TypeOperator, TypeEnvironment DEF Next

(* Every variable keeps the shape of the value the code stores in it.        *)
THEOREM DispatchTypeOK == Spec => []TypeOK
  BY TypeInit, TypeStep, PTL DEF Spec

-----------------------------------------------------------------------------
(* The inductive invariant.  Most steps are quiet: they leave the record,    *)
(* the backend and everybody's etags alone and only move one attempt.        *)

record == <<ledger, version, backend, wire, replied, sent, operators>>

LEMMA InvInit == Init => CoreInv
<1>. SUFFICES ASSUME Init PROVE CoreInv
  OBVIOUS
<1>1. TypeOK
  BY TypeInit
<1>2. EtagInv /\ OwnerInv
  BY DEF Init, EtagInv, Etagged, OwnerInv, Reading, Owning, Linking, Waiting, Reserved, Missing
<1>3. PostInv /\ OperatorInv /\ OutcomeIsTrue
  BY DEF Init, PostInv, OperatorInv, OutcomeIsTrue, Missing, Untouched
<1>. QED  BY <1>1, <1>2, <1>3 DEF CoreInv

LEMMA FrameStep ==
  ASSUME CoreInv, TypeOK', UNCHANGED <<record, pc, ex, etag>>
  PROVE  CoreInv'
  BY DEF record, CoreInv, EtagInv, Etagged, OwnerInv, PostInv, OperatorInv, OutcomeIsTrue,
         pending, linked, Missing

LEMMA QuietStep ==
  ASSUME CoreInv, TypeOK', NEW a \in Attempts, NEW next,
         UNCHANGED <<record, ex, etag>>, pc' = [pc EXCEPT ![a] = next],
         \/ next = "done"
         \/ pc[a] \in Reading /\ next \in Reading
         \/ pc[a] \in {"confirm_consume", "audit"} /\ next \in {"audit", "link_read"}
         \/ pc[a] \in {"check", "last_admit"} /\ next \in {"last_admit", "send"}
         \/ pc[a] = "reply" /\ next = "done_read" /\ a \in replied
  PROVE  CoreInv'
<1>. USE DEF CoreInv, record
<1>. pc \in [Attempts -> Pcs]
  BY DEF TypeOK
<1>1. EtagInv'
  BY DEF EtagInv, Etagged, Reading, pending, linked, Missing
<1>2. OwnerInv'
  BY DEF OwnerInv, Reading, Owning, Linking
<1>3. PostInv'
  BY DEF PostInv, Reading
<1>4. OperatorInv' /\ OutcomeIsTrue'
  BY DEF OperatorInv, OutcomeIsTrue
<1>. QED  BY <1>1, <1>2, <1>3, <1>4

(* The quiet attempts: everything but the reads and writes of the record,    *)
(* the POST and its delivery.                                                *)
LEMMA QuietAttempt ==
  ASSUME CoreInv, TypeOK', NEW a \in Attempts,
         \/ Replay(a) \/ Admit(a) \/ Evaluate(a) \/ AuditPolicyDeny(a)
         \/ ResolveConfirmation(a) \/ AuditConfirmationDenied(a)
         \/ RequestApproval(a) \/ AdmitApproved(a) \/ VerifyApproval(a)
         \/ AuditApprovalDenied(a) \/ ConsumeConfirmation(a) \/ AuditAllow(a)
         \/ EffectCheck(a) \/ LastAdmit(a) \/ ReceiveReply(a) \/ Fail(a)
  PROVE  CoreInv'
<1>. DEFINE Moves(next) ==
       /\ UNCHANGED <<record, ex, etag>> /\ pc' = [pc EXCEPT ![a] = next]
       /\ \/ next = "done"
          \/ pc[a] \in Reading /\ next \in Reading
          \/ pc[a] \in {"confirm_consume", "audit"} /\ next \in {"audit", "link_read"}
          \/ pc[a] \in {"check", "last_admit"} /\ next \in {"last_admit", "send"}
          \/ pc[a] = "reply" /\ next = "done_read" /\ a \in replied
<1>. SUFFICES \E next : Moves(next)
  BY QuietStep
<1>. USE DEF record, At, Go, Finish, Respond, Reading
<1>1. CASE Replay(a)                    BY <1>1 DEF Replay
<1>2. CASE Admit(a)                     BY <1>2 DEF Admit
<1>3. CASE Evaluate(a)
  BY <1>3 DEF Evaluate, AfterPolicy, AfterConfirmation
<1>4. CASE AuditPolicyDeny(a)           BY <1>4 DEF AuditPolicyDeny
<1>5. CASE ResolveConfirmation(a)
  BY <1>5 DEF ResolveConfirmation, AfterConfirmation
<1>6. CASE AuditConfirmationDenied(a)   BY <1>6 DEF AuditConfirmationDenied, AuditDenied
<1>7. CASE RequestApproval(a)           BY <1>7 DEF RequestApproval
<1>8. CASE AdmitApproved(a)             BY <1>8 DEF AdmitApproved
<1>9. CASE VerifyApproval(a)            BY <1>9 DEF VerifyApproval
<1>10. CASE AuditApprovalDenied(a)      BY <1>10 DEF AuditApprovalDenied, AuditDenied
<1>11. CASE ConsumeConfirmation(a)      BY <1>11 DEF ConsumeConfirmation
<1>12. CASE AuditAllow(a)               BY <1>12 DEF AuditAllow
<1>13. CASE EffectCheck(a)              BY <1>13 DEF EffectCheck
<1>14. CASE LastAdmit(a)                BY <1>14 DEF LastAdmit
<1>15. CASE ReceiveReply(a)             BY <1>15 DEF ReceiveReply
<1>16. CASE Fail(a)                     BY <1>16 DEF Fail
<1>. QED
  BY <1>1, <1>2, <1>3, <1>4, <1>5, <1>6, <1>7, <1>8, <1>9, <1>10, <1>11, <1>12, <1>13,
     <1>14, <1>15, <1>16

(* Reads: the attempt's record and etag are those of the ledger now.         *)
LEMMA InvRead ==
  ASSUME CoreInv, TypeOK', NEW a \in Attempts, Read(a)
  PROVE  CoreInv'
<1>. USE DEF CoreInv
<1>0. TypeOK /\ pc[a] = "read"
  BY DEF Read, At
<1>1. \/ pc' = [pc EXCEPT ![a] = "done"]
      \/ pc' = [pc EXCEPT ![a] = "replay"]
      \/ pc' = [pc EXCEPT ![a] = "admit"] /\ ledger.state \in Waiting
  BY DEF Read, Go, Finish, Waiting
<1>2. /\ UNCHANGED record
      /\ ex' = [ex EXCEPT ![a] = ledger] /\ etag' = [etag EXCEPT ![a] = version]
  BY DEF Read, At, record
<1>3. EtagInv'
  <2>. SUFFICES ASSUME NEW b \in Attempts PROVE Etagged(b)'
    BY DEF EtagInv
  <2>1. CASE b = a
    BY <1>0, <1>1, <1>2, <2>1 DEF Etagged, TypeOK, Reading, record
  <2>2. CASE b # a
    BY <1>0, <1>1, <1>2, <2>2 DEF EtagInv, Etagged, TypeOK, record, pending, linked, Missing
  <2>. QED  BY <2>1, <2>2
<1>4. OwnerInv'
  BY <1>0, <1>1, <1>2 DEF OwnerInv, TypeOK, Owning, Linking, record
<1>5. PostInv'
  BY <1>0, <1>1, <1>2 DEF PostInv, TypeOK, record
<1>6. OperatorInv' /\ OutcomeIsTrue'
  BY <1>2 DEF OperatorInv, OutcomeIsTrue, record
<1>. QED  BY <1>3, <1>4, <1>5, <1>6

LEMMA InvReadBack ==
  ASSUME CoreInv, TypeOK', NEW a \in Attempts, RereadConfirmation(a) \/ RereadApproval(a)
  PROVE  CoreInv'
<1>. USE DEF CoreInv
<1>0. TypeOK /\ pc[a] \in {"confirm_read", "approval_read"}
  BY DEF RereadConfirmation, RereadApproval, ReadBack, At
<1>1. CASE pc' = [pc EXCEPT ![a] = "done"] /\ UNCHANGED etag
  BY <1>1, QuietStep DEF RereadConfirmation, RereadApproval, ReadBack, At, record
<1>2. ASSUME NEW next \in {"confirm_request", "approval_request"},
             pc' = [pc EXCEPT ![a] = next], ledger = ex[a],
             etag' = [etag EXCEPT ![a] = version]
      PROVE  CoreInv'
  <2>1. UNCHANGED <<record, ex>>
    BY DEF RereadConfirmation, RereadApproval, ReadBack, At, record
  <2>2. EtagInv'
    <3>. SUFFICES ASSUME NEW b \in Attempts PROVE Etagged(b)'
      BY DEF EtagInv
    <3>1. CASE b = a
      BY <1>0, <1>2, <2>1, <3>1 DEF EtagInv, Etagged, TypeOK, Reading, record
    <3>2. CASE b # a
      BY <1>0, <1>2, <2>1, <3>2 DEF EtagInv, Etagged, TypeOK, record, pending, linked, Missing
    <3>. QED  BY <3>1, <3>2
  <2>3. OwnerInv'
    BY <1>0, <1>2, <2>1 DEF OwnerInv, TypeOK, Owning, Linking, record
  <2>4. PostInv'
    BY <1>0, <1>2, <2>1 DEF PostInv, TypeOK, record
  <2>5. OperatorInv' /\ OutcomeIsTrue'
    BY <2>1 DEF OperatorInv, OutcomeIsTrue, record
  <2>. QED  BY <2>2, <2>3, <2>4, <2>5
<1>. QED
  BY <1>1, <1>2 DEF RereadConfirmation, RereadApproval, ReadBack, Go, Finish

(* A write by an attempt leaves no etag current.                             *)
LEMMA WriteEtags ==
  ASSUME CoreInv, NEW a \in Attempts, NEW rec \in Record,
         NEW next \in {"done", "confirm_read", "approval_read", "confirm_consume", "audit", "check"},
         version' = version + 1, UNCHANGED etag, pc' = [pc EXCEPT ![a] = next],
         \/ UNCHANGED ex /\ next \notin {"confirm_read", "approval_read"}
         \/ ex' = [ex EXCEPT ![a] = rec] /\ rec.state \in Waiting
  PROVE  EtagInv'
<1>. SUFFICES ASSUME NEW b \in Attempts PROVE Etagged(b)'
  BY DEF EtagInv
<1>1. version \in Nat /\ etag \in [Attempts -> Nat] /\ pc \in [Attempts -> Pcs]
      /\ ex \in [Attempts -> Record]
  BY DEF CoreInv, TypeOK
<1>2. Etagged(b) /\ etag'[b] < version'
  BY <1>1 DEF CoreInv, EtagInv, Etagged
<1>3. CASE b = a
  BY <1>1, <1>2, <1>3 DEF Etagged, Reading
<1>4. CASE b # a
  BY <1>1, <1>2, <1>4 DEF Etagged
<1>. QED  BY <1>3, <1>4

(* While the record waits nobody owns the operation, nothing was sent, and   *)
(* no operator is recovering it.                                             *)
LEMMA WaitingQuiet ==
  ASSUME CoreInv, ledger.state \in Waiting
  PROVE  /\ ledger.receipt = None /\ sent = {} /\ backend = Untouched
         /\ \A a \in Attempts : pc[a] \notin Owning
         /\ \A o \in Operators : opPc[o] \notin {"recover", "recover_audit", "recover_write"}
  BY DEF CoreInv, TypeOK, OwnerInv, PostInv, OperatorInv, Waiting, Reserved

(* A waiting or a rejected record replaces a waiting one.                    *)
LEMMA InvWaitingWrite ==
  ASSUME CoreInv, TypeOK', NEW a \in Attempts, NEW rec \in Record, NEW next,
         ledger.state \in Waiting, Write(rec), rec.receipt = None,
         UNCHANGED <<backend, wire, replied, sent, etag, operators>>,
         pc' = [pc EXCEPT ![a] = next],
         \/ /\ rec.state \in Waiting /\ ex' = [ex EXCEPT ![a] = rec]
            /\ next \in {"confirm_read", "approval_read"}
         \/ rec.state = "rejected" /\ UNCHANGED ex /\ next = "done"
  PROVE  CoreInv'
<1>. USE WaitingQuiet
<1>1. EtagInv'
  BY WriteEtags DEF Write
<1>2. OwnerInv'
  BY DEF CoreInv, TypeOK, OwnerInv, Write, Owning, Linking, Waiting, Reserved
<1>3. PostInv'
  BY DEF CoreInv, TypeOK, PostInv, Write, Untouched
<1>4. OperatorInv' /\ OutcomeIsTrue'
  BY DEF OperatorInv, OutcomeIsTrue, Write, Untouched, Waiting
<1>. QED  BY <1>1, <1>2, <1>3, <1>4 DEF CoreInv

LEMMA InvWaiting ==
  ASSUME CoreInv, TypeOK', NEW a \in Attempts, CreateConfirmation(a) \/ StoreApproval(a)
  PROVE  CoreInv'
<1>1. CASE ~Current(a)
  BY <1>1, QuietStep
  DEF CreateConfirmation, StoreApproval, WriteWaiting, Finish, At, record
<1>2. CASE Current(a)
  <2>1. pc[a] \in Reading /\ ledger = ex[a] /\ ledger.state \in Waiting
    BY <1>2 DEF Current, CoreInv, EtagInv, Etagged, CreateConfirmation, StoreApproval,
                WriteWaiting, At, Reading
  <2>2. CASE CreateConfirmation(a)
    <3>1. /\ awaiting_confirmation(a) \in Record
          /\ awaiting_confirmation(a).receipt = None
          /\ awaiting_confirmation(a).state = "awaiting_confirmation"
      BY RecordTypes DEF CoreInv, awaiting_confirmation, Missing
    <3>. QED
      BY <1>2, <2>1, <2>2, <3>1, InvWaitingWrite
      DEF CreateConfirmation, WriteWaiting, At, Go, Waiting, Write
  <2>3. CASE StoreApproval(a)
    <3>1. /\ awaiting_approval(a) \in Record
          /\ awaiting_approval(a).receipt = None
          /\ awaiting_approval(a).state = "awaiting_approval"
      BY <2>1, RecordTypes, WaitingQuiet DEF CoreInv, TypeOK, awaiting_approval, Record
    <3>. QED
      BY <1>2, <2>1, <2>3, <3>1, InvWaitingWrite
      DEF StoreApproval, WriteWaiting, At, Go, Waiting, Write
  <2>. QED  BY <2>2, <2>3
<1>. QED  BY <1>1, <1>2

LEMMA InvReject ==
  ASSUME CoreInv, TypeOK', NEW a \in Attempts, RejectConfirmation(a) \/ RejectApproval(a)
  PROVE  CoreInv'
<1>1. CASE ~Current(a)
  BY <1>1, QuietStep
  DEF RejectConfirmation, RejectApproval, WriteRejected, Finish, At, record
<1>2. CASE Current(a)
  <2>. DEFINE rec == [ex[a] EXCEPT !.state = "rejected"]
  <2>1. ledger = ex[a] /\ ledger.state \in Waiting
    BY <1>2 DEF Current, CoreInv, EtagInv, Etagged, RejectConfirmation, RejectApproval,
                WriteRejected, At, Reading
  <2>2. rec \in Record /\ rec.state = "rejected" /\ rec.receipt = None
    BY <2>1, WaitingQuiet DEF CoreInv, TypeOK, Record, States
  <2>3. /\ Write(rec) /\ pc' = [pc EXCEPT ![a] = "done"]
        /\ UNCHANGED <<backend, wire, replied, sent, etag, operators, ex>>
    BY <1>2 DEF RejectConfirmation, RejectApproval, WriteRejected, At, Respond, Finish
  <2>. HIDE DEF rec
  <2>. QED  BY <2>1, <2>2, <2>3, InvWaitingWrite
<1>. QED  BY <1>1, <1>2

LEMMA InvReserve ==
  ASSUME CoreInv, TypeOK', NEW a \in Attempts, Reserve(a)
  PROVE  CoreInv'
<1>1. CASE ~Unwritten(a)
  BY <1>1, QuietStep DEF Reserve, Finish, At, record
<1>2. CASE Unwritten(a)
  <2>1. ledger.state \in Waiting
    BY <1>2 DEF Unwritten, Current, CoreInv, EtagInv, Etagged, Reserve, At, Reading, Waiting
  <2>2. PICK next \in {"confirm_consume", "audit"} :
          /\ Write(pending(a)) /\ pc' = [pc EXCEPT ![a] = next]
          /\ UNCHANGED <<backend, wire, replied, sent, etag, operators, ex>>
    BY <1>2 DEF Reserve, At, Go
  <2>3. pending(a) \in Record /\ pending(a).state = "pending" /\ pending(a).receipt = None
    BY RecordTypes DEF CoreInv, pending, Missing
  <2>. USE <2>1, <2>2, <2>3, WaitingQuiet
  <2>4. EtagInv'
    BY WriteEtags DEF Write
  <2>5. OwnerInv'
    BY DEF CoreInv, TypeOK, OwnerInv, Write, Owning, Linking, Waiting, Reserved
  <2>6. PostInv'
    BY DEF CoreInv, TypeOK, PostInv, Write, Untouched
  <2>7. OperatorInv' /\ OutcomeIsTrue'
    BY DEF OperatorInv, OutcomeIsTrue, Write
  <2>. QED  BY <2>4, <2>5, <2>6, <2>7 DEF CoreInv
<1>. QED  BY <1>1, <1>2

(* The reads before a write under the etag they return.                      *)
LEMMA InvReadOwn ==
  ASSUME CoreInv, TypeOK', NEW a \in Attempts, ReadReserved(a) \/ ReadLinked(a)
  PROVE  CoreInv'
<1>. USE DEF CoreInv
<1>0. TypeOK /\ pc[a] \in {"link_read", "done_read"}
  BY DEF ReadReserved, ReadLinked, ReadOwn, At
<1>1. CASE pc' = [pc EXCEPT ![a] = "done"] /\ UNCHANGED etag
  BY <1>1, QuietStep DEF ReadReserved, ReadLinked, ReadOwn, At, record
<1>2. ASSUME etag' = [etag EXCEPT ![a] = version],
             \/ /\ pc[a] = "link_read" /\ pc' = [pc EXCEPT ![a] = "link_write"]
                /\ ledger = pending(a)
             \/ /\ pc[a] = "done_read" /\ pc' = [pc EXCEPT ![a] = "done_write"]
                /\ ledger = linked(a)
      PROVE  CoreInv'
  <2>1. UNCHANGED <<record, ex>>
    BY DEF ReadReserved, ReadLinked, ReadOwn, At, record
  <2>2. EtagInv'
    <3>. SUFFICES ASSUME NEW b \in Attempts PROVE Etagged(b)'
      BY DEF EtagInv
    <3>1. CASE b = a
      BY <1>2, <2>1, <3>1, <1>0 DEF Etagged, TypeOK, Reading, record, pending, linked, Missing
    <3>2. CASE b # a
      BY <1>0, <1>2, <2>1, <3>2 DEF EtagInv, Etagged, TypeOK, record, pending, linked, Missing
    <3>. QED  BY <3>1, <3>2
  <2>3. OwnerInv'
    BY <1>0, <1>2, <2>1 DEF OwnerInv, TypeOK, Owning, Linking, record
  <2>4. PostInv'
    BY <1>0, <1>2, <2>1 DEF PostInv, TypeOK, record
  <2>5. OperatorInv' /\ OutcomeIsTrue'
    BY <2>1 DEF OperatorInv, OutcomeIsTrue, record
  <2>. QED  BY <2>2, <2>3, <2>4, <2>5
<1>. QED
  BY <1>1, <1>2 DEF ReadReserved, ReadLinked, ReadOwn, At, Go, Finish

LEMMA InvLink ==
  ASSUME CoreInv, TypeOK', NEW a \in Attempts, LinkReceipt(a)
  PROVE  CoreInv'
<1>1. CASE ~Current(a)
  BY <1>1, QuietStep DEF LinkReceipt, Finish, At, record
<1>2. CASE Current(a)
  <2>1. ledger = pending(a) /\ pc[a] = "link_write"
    BY <1>2 DEF Current, CoreInv, EtagInv, Etagged, LinkReceipt, At
  <2>2. /\ Write(linked(a)) /\ pc' = [pc EXCEPT ![a] = "check"]
        /\ UNCHANGED <<backend, wire, replied, sent, etag, operators, ex>>
    BY <1>2 DEF LinkReceipt, At, Go
  <2>3. /\ linked(a) \in Record /\ linked(a).state = "pending" /\ linked(a).receipt = a
        /\ ledger.state = "pending" /\ ledger.receipt = None
    BY <2>1, RecordTypes DEF CoreInv, pending, linked, Missing
  <2>4. sent = {} /\ \A b \in Attempts : pc[b] \notin Linking
    BY <2>3, ConstantsAssumption DEF CoreInv, TypeOK, PostInv, OwnerInv
  <2>. USE <2>1, <2>2, <2>3, <2>4
  <2>5. EtagInv'
    BY WriteEtags DEF Write
  <2>6. OwnerInv'
    BY DEF CoreInv, TypeOK, OwnerInv, Write, Owning, Linking, Waiting, Reserved
  <2>7. PostInv'
    BY DEF CoreInv, TypeOK, PostInv, Write, Reserved
  <2>8. OperatorInv' /\ OutcomeIsTrue'
    BY DEF CoreInv, TypeOK, OperatorInv, OutcomeIsTrue, Write, Reserved
  <2>. QED  BY <2>5, <2>6, <2>7, <2>8 DEF CoreInv
<1>. QED  BY <1>1, <1>2

LEMMA InvSend ==
  ASSUME CoreInv, TypeOK', NEW a \in Attempts, Send(a)
  PROVE  CoreInv'
<1>1. CASE ~Unexpired(a)
  BY <1>1, QuietStep DEF Send, Finish, At, record
<1>2. CASE Unexpired(a)
  <2>. USE DEF CoreInv, TypeOK
  <2>1. /\ pc[a] = "send" /\ pc' = [pc EXCEPT ![a] = "reply"]
        /\ sent' = sent \cup {a} /\ wire' = wire \cup {a}
        /\ UNCHANGED <<ledger, version, backend, replied, etag, operators, ex>>
    BY <1>2 DEF Send, At, Go
  <2>2. EtagInv'
    BY <2>1 DEF EtagInv, Etagged, Reading, pending, linked, Missing
  <2>3. OwnerInv'
    BY <2>1 DEF OwnerInv, Owning, Linking
  <2>4. PostInv'
    BY <2>1 DEF PostInv, OwnerInv, Owning, Linking
  <2>5. OperatorInv' /\ OutcomeIsTrue'
    BY <2>1 DEF OperatorInv, OutcomeIsTrue, OwnerInv, Owning, Reserved
  <2>. QED  BY <2>2, <2>3, <2>4, <2>5
<1>. QED  BY <1>1, <1>2

LEMMA InvDeliver ==
  ASSUME CoreInv, TypeOK', NEW a \in Attempts, Deliver(a)
  PROVE  CoreInv'
<1>. USE DEF CoreInv, TypeOK
<1>1. /\ a \in sent /\ wire' \subseteq wire /\ UNCHANGED <<ledger, version, sent, pc, etag, ex, operators>>
      /\ ledger.state \in Reserved /\ ledger.receipt = a
  BY DEF Deliver, PostInv
<1>2. /\ backend.state # "clean" => backend' = backend
      /\ backend'.state # "clean"
      /\ replied' \subseteq sent
      /\ replied \subseteq replied'
      /\ replied' # {} => backend'.state = "executed"
  BY <1>1 DEF Deliver, PostInv, Effect
<1>3. EtagInv' /\ OwnerInv'
  BY <1>1 DEF EtagInv, Etagged, OwnerInv, pending, linked, Missing
<1>4. PostInv'
  BY <1>1, <1>2 DEF PostInv, Untouched
<1>5. OperatorInv'
  BY <1>1, <1>2 DEF OperatorInv
<1>6. OutcomeIsTrue'
  BY <1>1, <1>2 DEF OutcomeIsTrue
<1>. QED  BY <1>3, <1>4, <1>5, <1>6

LEMMA InvComplete ==
  ASSUME CoreInv, TypeOK', NEW a \in Attempts, Complete(a)
  PROVE  CoreInv'
<1>1. CASE ~Current(a)
  BY <1>1, QuietStep DEF Complete, Finish, At, record
<1>2. CASE Current(a)
  <2>. DEFINE rec == [linked(a) EXCEPT !.state = "completed", !.outcome = backend.by]
  <2>1. ledger = linked(a) /\ pc[a] = "done_write" /\ a \in replied
    BY <1>2 DEF Current, CoreInv, EtagInv, Etagged, PostInv, Complete, At
  <2>2. /\ Write(rec) /\ pc' = [pc EXCEPT ![a] = "done"]
        /\ UNCHANGED <<backend, wire, replied, sent, etag, operators, ex>>
    BY <1>2 DEF Complete, At, Finish
  <2>3. /\ rec \in Record /\ rec.state = "completed" /\ rec.receipt = a
        /\ rec.outcome = backend.by /\ ledger.state = "pending" /\ ledger.receipt = a
        /\ backend.state = "executed"
    <3>1. linked(a) \in Record /\ backend.by \in Outcome
      BY RecordTypes DEF CoreInv, TypeOK, Effect
    <3>2. linked(a).state = "pending" /\ linked(a).receipt = a
      BY DEF pending, linked, Missing
    <3>3. rec \in Record
      BY <3>1, UpdateTypes DEF States
    <3>4. rec.state = "completed" /\ rec.receipt = a /\ rec.outcome = backend.by
      BY <3>1, <3>2 DEF Record
    <3>. QED  BY <2>1, <3>2, <3>3, <3>4 DEF CoreInv, PostInv
  <2>. HIDE DEF rec
  <2>. USE <2>1, <2>2, <2>3
  <2>5. EtagInv'
    BY WriteEtags DEF Write
  <2>6. OwnerInv'
    BY DEF CoreInv, TypeOK, OwnerInv, Write, Owning, Linking, Waiting, Reserved
  <2>7. PostInv'
    BY DEF CoreInv, TypeOK, PostInv, Write, Reserved
  <2>8. OperatorInv' /\ OutcomeIsTrue'
    BY DEF CoreInv, TypeOK, OperatorInv, OutcomeIsTrue, Write, Reserved
  <2>. QED  BY <2>5, <2>6, <2>7, <2>8 DEF CoreInv
<1>. QED  BY <1>1, <1>2

LEMMA InvAttempt ==
  ASSUME CoreInv, TypeOK', NEW a \in Attempts, Attempt(a) \/ Deliver(a) \/ Fail(a)
  PROVE  CoreInv'
  BY QuietAttempt, InvRead, InvWaiting, InvReadBack, InvReject, InvReserve, InvReadOwn,
     InvLink, InvSend, InvDeliver, InvComplete
  DEF Attempt

(* Operators.  Recovery settles the backend before it touches the record.    *)
LEMMA InvOperator ==
  ASSUME CoreInv, TypeOK', NEW o \in Operators, Reconcile(o) \/ Admission(o) \/ OpFail(o)
  PROVE  CoreInv'
<1>. USE DEF CoreInv, TypeOK, OpAt
<1>0. UNCHANGED <<pc, ex, etag, wire, replied, sent>>
  BY DEF Reconcile, ReconcileRead, Recover, RecoverAudit, RecoverWrite, Admission,
         AdmissionRead, AdmissionAudit, OpenWrite, StopWrite, OpFail, OpReturn
<1>1. ASSUME UNCHANGED <<ledger, version, backend>>, OperatorInv'
      PROVE  CoreInv'
  BY <1>0, <1>1
  DEF EtagInv, Etagged, OwnerInv, PostInv, OutcomeIsTrue, pending, linked, Missing
<1>2. CASE ReconcileRead(o)
  <2>1. OperatorInv'
    BY <1>2 DEF ReconcileRead, OperatorInv, Reserved
  <2>. QED  BY <1>1, <1>2, <2>1 DEF ReconcileRead
<1>3. CASE Recover(o)
  <2>1. /\ ledger.state \in Reserved /\ UNCHANGED <<ledger, version, opEx, opEtag>>
        /\ backend.state # "clean" => backend' = backend
        /\ backend'.state # "clean"
        /\ replied # {} => backend'.state = "executed"
    BY <1>3 DEF Recover, OperatorInv, PostInv
  <2>2. OperatorInv'
    BY <1>3, <2>1 DEF Recover, OperatorInv
  <2>3. PostInv'
    BY <1>0, <2>1 DEF PostInv, Untouched
  <2>4. EtagInv' /\ OwnerInv'
    BY <1>0, <2>1 DEF EtagInv, Etagged, OwnerInv, pending, linked, Missing
  <2>5. OutcomeIsTrue'
    BY <1>0, <2>1 DEF OutcomeIsTrue, Reserved
  <2>. QED  BY <2>2, <2>3, <2>4, <2>5
<1>4. CASE RecoverAudit(o)
  <2>1. OperatorInv'
    BY <1>4 DEF RecoverAudit, OperatorInv
  <2>. QED  BY <1>1, <1>4, <2>1 DEF RecoverAudit
<1>5. CASE RecoverWrite(o) /\ version # opEtag[o]
  <2>1. OperatorInv'
    BY <1>5 DEF RecoverWrite, OpReturn, OperatorInv
  <2>. QED  BY <1>1, <1>5, <2>1 DEF RecoverWrite
<1>6. CASE RecoverWrite(o) /\ version = opEtag[o]
  <2>. DEFINE end == IF proof[o].state = "executed" THEN "completed" ELSE "not_executed"
              rec == [ledger EXCEPT !.state = end, !.outcome = backend.by]
  <2>1. /\ Write(rec) /\ UNCHANGED backend /\ proof[o] = backend
        /\ ledger.state = "pending" /\ ledger.receipt # None /\ backend.state # "clean"
    BY <1>6 DEF RecoverWrite, OpReturn, OperatorInv
  <2>2. /\ rec.receipt = ledger.receipt /\ rec.outcome = backend.by
        /\ rec.state = IF backend.state = "executed" THEN "completed" ELSE "not_executed"
    BY <2>1 DEF Record
  <2>. HIDE DEF rec, end
  <2>3. EtagInv'
    <3>. SUFFICES ASSUME NEW b \in Attempts PROVE Etagged(b)'
      BY DEF EtagInv
    <3>. QED  BY <1>0, <2>1 DEF EtagInv, Etagged, Write
  <2>4. OwnerInv'
    BY <1>0, <2>1, <2>2 DEF OwnerInv, Write, Waiting, Reserved
  <2>5. PostInv'
    BY <1>0, <2>1, <2>2 DEF PostInv, Write, Reserved
  <2>6. OperatorInv'
    BY <1>6, <2>1, <2>2 DEF RecoverWrite, OpReturn, OperatorInv, Write, Reserved
  <2>7. OutcomeIsTrue'
    BY <2>1, <2>2 DEF OutcomeIsTrue, Write, Effect
  <2>. QED  BY <2>3, <2>4, <2>5, <2>6, <2>7
<1>7. CASE Admission(o)
  <2>1. OperatorInv'
    BY <1>7 DEF Admission, AdmissionRead, AdmissionAudit, OpenWrite, StopWrite, OpReturn,
                OperatorInv
  <2>. QED
    BY <1>1, <1>7, <2>1 DEF Admission, AdmissionRead, AdmissionAudit, OpenWrite, StopWrite
<1>8. CASE OpFail(o)
  <2>1. OperatorInv'
    BY <1>8 DEF OpFail, OpReturn, OperatorInv
  <2>. QED  BY <1>1, <1>8, <2>1 DEF OpFail
<1>. QED  BY <1>2, <1>3, <1>4, <1>5, <1>6, <1>7, <1>8 DEF Reconcile

LEMMA InvStep == CoreInv /\ [Next]_vars => CoreInv'
<1>. SUFFICES ASSUME CoreInv, [Next]_vars PROVE CoreInv'
  OBVIOUS
<1>0. TypeOK'
  BY TypeStep DEF CoreInv
<1>1. CASE UNCHANGED vars
  BY <1>0, <1>1, FrameStep DEF vars, record
<1>2. CASE Environment
  BY <1>0, <1>2, FrameStep
  DEF Environment, DecideApproval, DecideConfirmation, Lapse, LeaseLapses, FactsChange, Env,
      record
<1>. QED  BY <1>0, <1>1, <1>2, InvAttempt, InvOperator DEF Next

LEMMA CoreInvariant == Spec => []CoreInv
  BY InvInit, InvStep, PTL DEF Spec

-----------------------------------------------------------------------------
(* Who may write the record, and what: the only ways it changes.             *)
Waits    == ledger.state \in Waiting /\ ledger'.state \in Waiting \ {"missing"}
Rejects  == /\ ledger.state \in Waiting \ {"missing"} /\ ledger'.state = "rejected"
Reserves == ledger.state \in Waiting /\ ledger'.state = "pending"
Links    == /\ ledger.state = "pending" /\ ledger.receipt = None
            /\ ledger'.state = "pending"
Records  == /\ ledger.state = "pending" /\ ledger'.receipt = ledger.receipt
            /\ \/ ledger'.state = "completed" /\ backend.state = "executed"
               \/ ledger'.state = "not_executed" /\ backend.state = "fenced"
LedgerStep ==
  \/ UNCHANGED ledger
  \/ (Waits \/ Rejects \/ Reserves \/ Links \/ Records) /\ UNCHANGED backend

LEMMA WritesAreSteps == CoreInv /\ StoredInv /\ [Next]_vars => LedgerStep
<1>. SUFFICES ASSUME CoreInv, StoredInv, [Next]_vars PROVE LedgerStep
  OBVIOUS
<1>. USE DEF LedgerStep
<1>1. CASE UNCHANGED vars
  BY <1>1 DEF vars
<1>2. CASE Environment
  BY <1>2
  DEF Environment, DecideApproval, DecideConfirmation, Lapse, LeaseLapses, FactsChange, Env
<1>3. ASSUME NEW o \in Operators, Reconcile(o) \/ Admission(o) \/ OpFail(o)
      PROVE  LedgerStep
  <2>1. CASE RecoverWrite(o) /\ version = opEtag[o]
    <3>1. /\ ledger' = [ledger EXCEPT
               !.state = IF backend.state = "executed" THEN "completed" ELSE "not_executed",
               !.outcome = backend.by]
          /\ ledger.state = "pending" /\ backend.state # "clean" /\ UNCHANGED backend
      BY <2>1 DEF RecoverWrite, OpReturn, OpAt, Write, CoreInv, OperatorInv
    <3>. QED  BY <3>1 DEF Records, CoreInv, TypeOK, Record, Effect
  <2>2. CASE RecoverWrite(o) /\ version # opEtag[o]
    BY <2>2 DEF RecoverWrite
  <2>. QED
    BY <1>3, <2>1, <2>2 DEF Reconcile, ReconcileRead, Recover, RecoverAudit, Admission,
       AdmissionRead, AdmissionAudit, OpenWrite, StopWrite, OpFail
<1>4. ASSUME NEW a \in Attempts, Attempt(a) \/ Deliver(a) \/ Fail(a)
      PROVE  LedgerStep
  <2>. USE DEF CoreInv, TypeOK, EtagInv, Etagged, Current, At, Write, Reading, Waiting, Missing
  <2>1. CASE CreateConfirmation(a)
    BY <2>1 DEF CreateConfirmation, WriteWaiting, Waits, awaiting_confirmation
  <2>2. CASE StoreApproval(a)
    BY <2>2 DEF StoreApproval, WriteWaiting, Waits, awaiting_approval, Record
  <2>3. CASE RejectConfirmation(a) \/ RejectApproval(a)
    <3>1. pc[a] \in {"confirm_reject", "approval_reject"}
      BY <2>3 DEF RejectConfirmation, RejectApproval, WriteRejected
    <3>2. \/ UNCHANGED ledger
          \/ /\ etag[a] = version /\ UNCHANGED backend
             /\ ledger' = [ex[a] EXCEPT !.state = "rejected"]
      BY <2>3 DEF RejectConfirmation, RejectApproval, WriteRejected
    <3>3. etag[a] = version => ledger = ex[a] /\ ledger.state \in Waiting
      BY <3>1
    <3>4. ex[a].state # "missing"
      BY <3>1 DEF StoredInv, Stored, Reviewing, Deferred
    <3>. QED  BY <3>2, <3>3, <3>4 DEF Rejects, Record
  <2>4. CASE Reserve(a)
    BY <2>4 DEF Reserve, Unwritten, Reserves, pending
  <2>5. CASE LinkReceipt(a)
    BY <2>5 DEF LinkReceipt, Links, pending, linked
  <2>6. CASE Complete(a)
    <3>1. \/ UNCHANGED ledger
          \/ /\ ledger = linked(a) /\ UNCHANGED backend /\ a \in replied
             /\ ledger' = [linked(a) EXCEPT !.state = "completed", !.outcome = backend.by]
      BY <2>6 DEF Complete, PostInv
    <3>2. linked(a).state = "pending" /\ linked(a) \in Record
      BY RecordTypes DEF pending, linked
    <3>3. a \in replied => backend.state = "executed"
      BY DEF PostInv
    <3>4. /\ [linked(a) EXCEPT !.state = "completed", !.outcome = backend.by].state = "completed"
          /\ [linked(a) EXCEPT !.state = "completed", !.outcome = backend.by].receipt
               = linked(a).receipt
      BY <3>2 DEF Record
    <3>. HIDE DEF CoreInv, TypeOK
    <3>. QED  BY <3>1, <3>2, <3>3, <3>4 DEF Records
  <2>. QED
    BY <1>4, <2>1, <2>2, <2>3, <2>4, <2>5, <2>6
    DEF Attempt, Read, Replay, Admit, Evaluate, AuditPolicyDeny, RereadConfirmation,
        ReadBack, ResolveConfirmation, AuditConfirmationDenied, AuditDenied, RereadApproval,
        RequestApproval, AdmitApproved, VerifyApproval, AuditApprovalDenied,
        ConsumeConfirmation, AuditAllow, ReadReserved, ReadOwn, EffectCheck, LastAdmit,
        Send, ReceiveReply, ReadLinked, Deliver, Fail
<1>. QED  BY <1>1, <1>2, <1>3, <1>4 DEF Next

-----------------------------------------------------------------------------
(* The rest of the inductive invariant: what an attempt has behind it.       *)

(* Nobody but an attempt itself moves it or changes what it holds.           *)
LEMMA OthersStay ==
  ASSUME TypeOK, NEW a \in Attempts, Attempt(a) \/ Deliver(a) \/ Fail(a),
         NEW b \in Attempts, b # a
  PROVE  /\ pc'[b] = pc[b] /\ result'[b] = result[b] /\ ex'[b] = ex[b]
         /\ seen'[b] = seen[b] /\ grant'[b] = grant[b] /\ (b \in sent' <=> b \in sent)
         /\ found'[b] = found[b]
<1>. USE DEF TypeOK, At, Go, Finish, Respond
<1>1. CASE Read(a) \/ Replay(a) \/ Admit(a) \/ Evaluate(a) \/ AuditPolicyDeny(a)
  BY <1>1 DEF Read, Replay, Admit, Evaluate, AuditPolicyDeny
<1>2. CASE \/ CreateConfirmation(a) \/ RereadConfirmation(a) \/ StoreApproval(a)
           \/ RereadApproval(a) \/ RejectConfirmation(a) \/ RejectApproval(a)
  BY <1>2 DEF CreateConfirmation, RereadConfirmation, StoreApproval, RereadApproval,
     RejectConfirmation, RejectApproval, WriteWaiting, ReadBack, WriteRejected
<1>3. CASE \/ ResolveConfirmation(a) \/ AuditConfirmationDenied(a) \/ RequestApproval(a)
           \/ AdmitApproved(a) \/ VerifyApproval(a) \/ AuditApprovalDenied(a)
  BY <1>3 DEF ResolveConfirmation, AuditConfirmationDenied, RequestApproval, AdmitApproved,
     VerifyApproval, AuditApprovalDenied, AuditDenied
<1>4. CASE \/ Reserve(a) \/ ConsumeConfirmation(a) \/ AuditAllow(a) \/ ReadReserved(a)
           \/ LinkReceipt(a) \/ EffectCheck(a) \/ LastAdmit(a)
  BY <1>4 DEF Reserve, ConsumeConfirmation, AuditAllow, ReadReserved, ReadOwn, LinkReceipt,
     EffectCheck, LastAdmit
<1>5. CASE \/ Send(a) \/ ReceiveReply(a) \/ ReadLinked(a) \/ Complete(a) \/ Deliver(a)
           \/ Fail(a)
  BY <1>5 DEF Send, ReceiveReply, ReadLinked, ReadOwn, Complete, Deliver, Fail
<1>. QED  BY <1>1, <1>2, <1>3, <1>4, <1>5 DEF Attempt

(* Operators and the environment move no attempt.                            *)
LEMMA AttemptsStay ==
  ASSUME \/ Environment \/ UNCHANGED vars
         \/ \E o \in Operators : Reconcile(o) \/ Admission(o) \/ OpFail(o)
  PROVE  UNCHANGED <<pc, result, local, wire, replied, sent, found>>
  BY DEF Environment, DecideApproval, DecideConfirmation, Lapse, LeaseLapses, FactsChange,
     Env, vars, Reconcile, ReconcileRead, Recover, RecoverAudit, RecoverWrite, Admission,
     AdmissionRead, AdmissionAudit, OpenWrite, StopWrite, OpFail, OpReturn, OpAt

LEMMA StoredStep == CoreInv /\ StoredInv /\ [Next]_vars => StoredInv'
<1>. SUFFICES ASSUME CoreInv, StoredInv, [Next]_vars, NEW b \in Attempts PROVE Stored(b)'
  BY DEF StoredInv
<1>. USE DEF CoreInv, TypeOK, StoredInv, Stored, Deferred
<1>1. CASE pc'[b] = pc[b] /\ ex'[b] = ex[b]
  BY <1>1
<1>2. ASSUME Attempt(b) \/ Deliver(b) \/ Fail(b)
      PROVE  Stored(b)'
  <2>. USE DEF At, Go, Finish, Respond, Reviewing
  <2>1. CASE Read(b) \/ Replay(b) \/ Admit(b) \/ AuditPolicyDeny(b)
    BY <2>1 DEF Read, Replay, Admit, AuditPolicyDeny
  <2>2. CASE Evaluate(b)
    BY <2>2 DEF Evaluate, AfterPolicy, AfterConfirmation
  <2>3. CASE CreateConfirmation(b) \/ StoreApproval(b)
    <3>1. /\ awaiting_confirmation(b).state = "awaiting_confirmation"
          /\ awaiting_approval(b).state = "awaiting_approval"
      BY DEF awaiting_confirmation, awaiting_approval, Missing, Record
    <3>. QED  BY <2>3, <3>1 DEF CreateConfirmation, StoreApproval, WriteWaiting
  <2>4. CASE RereadConfirmation(b) \/ RereadApproval(b)
    BY <2>4 DEF RereadConfirmation, RereadApproval, ReadBack
  <2>5. CASE ResolveConfirmation(b)
    BY <2>5 DEF ResolveConfirmation, AfterConfirmation
  <2>6. CASE \/ AuditConfirmationDenied(b) \/ RejectConfirmation(b) \/ RequestApproval(b)
             \/ AdmitApproved(b) \/ VerifyApproval(b)
    BY <2>6 DEF AuditConfirmationDenied, AuditDenied, RejectConfirmation, WriteRejected,
       RequestApproval, AdmitApproved, VerifyApproval
  <2>7. CASE AuditApprovalDenied(b) \/ RejectApproval(b)
    BY <2>7 DEF AuditApprovalDenied, AuditDenied, RejectApproval, WriteRejected
  <2>8. CASE \/ Reserve(b) \/ ConsumeConfirmation(b) \/ AuditAllow(b) \/ ReadReserved(b)
             \/ LinkReceipt(b) \/ EffectCheck(b) \/ LastAdmit(b)
    BY <2>8 DEF Reserve, ConsumeConfirmation, AuditAllow, ReadReserved, ReadOwn, LinkReceipt,
       EffectCheck, LastAdmit
  <2>9. CASE \/ Send(b) \/ ReceiveReply(b) \/ ReadLinked(b) \/ Complete(b) \/ Deliver(b)
             \/ Fail(b)
    BY <2>9 DEF Send, ReceiveReply, ReadLinked, ReadOwn, Complete, Deliver, Fail
  <2>. QED  BY <1>2, <2>1, <2>2, <2>3, <2>4, <2>5, <2>6, <2>7, <2>8, <2>9 DEF Attempt
<1>. QED  BY <1>1, <1>2, OthersStay, AttemptsStay DEF Next

LEMMA AuditStep == CoreInv /\ AuditInv /\ [Next]_vars => AuditInv'
<1>. SUFFICES ASSUME CoreInv, AuditInv, [Next]_vars, NEW b \in Attempts,
                     pc'[b] \in Linking \cup {"link_read", "link_write"} \/ b \in sent'
              PROVE  <<b, "allow">> \in receipts'
  BY DEF AuditInv
<1>. USE DEF CoreInv, TypeOK, AuditInv
<1>0. receipts \subseteq receipts'
  <2>1. CASE UNCHANGED vars             BY <2>1 DEF vars
  <2>2. CASE Environment
    BY <2>2 DEF Environment, DecideApproval, DecideConfirmation, Lapse, LeaseLapses,
       FactsChange, Env
  <2>3. ASSUME NEW o \in Operators, Reconcile(o) \/ Admission(o) \/ OpFail(o)
        PROVE  receipts \subseteq receipts'
    BY <2>3 DEF Reconcile, ReconcileRead, Recover, RecoverAudit, RecoverWrite, Admission,
       AdmissionRead, AdmissionAudit, OpenWrite, StopWrite, OpFail, Audit
  <2>4. ASSUME NEW a \in Attempts, Attempt(a) \/ Deliver(a) \/ Fail(a)
        PROVE  receipts \subseteq receipts'
    <3>1. CASE AuditPolicyDeny(a) \/ AuditConfirmationDenied(a) \/ AuditApprovalDenied(a)
               \/ AuditAllow(a)
      BY <3>1 DEF AuditPolicyDeny, AuditConfirmationDenied, AuditApprovalDenied, AuditDenied,
         AuditAllow, Audit
    <3>. QED
      BY <2>4, <3>1 DEF Attempt, Read, Replay, Admit, Evaluate, CreateConfirmation,
         RereadConfirmation, StoreApproval, RereadApproval, RejectConfirmation,
         RejectApproval, WriteWaiting, ReadBack, WriteRejected, ResolveConfirmation,
         RequestApproval, AdmitApproved, VerifyApproval, Reserve, ConsumeConfirmation,
         ReadReserved, ReadOwn, LinkReceipt, EffectCheck, LastAdmit, Send, ReceiveReply,
         ReadLinked, Complete, Deliver, Fail
  <2>. QED  BY <2>1, <2>2, <2>3, <2>4 DEF Next
<1>1. CASE pc[b] \in Linking \cup {"link_read", "link_write"} \/ b \in sent
  BY <1>0, <1>1
<1>2. CASE AuditAllow(b)
  BY <1>2 DEF AuditAllow, Audit
<1>3. ASSUME pc[b] \notin Linking \cup {"link_read", "link_write"}, b \notin sent,
             Attempt(b) \/ Deliver(b) \/ Fail(b), ~AuditAllow(b)
      PROVE  FALSE
  <2>1. pc'[b] \notin Linking \cup {"link_read", "link_write"}
    <3>. USE DEF At, Go, Finish, Respond, Linking
    <3>1. CASE Evaluate(b) \/ ResolveConfirmation(b)
      BY <3>1 DEF Evaluate, ResolveConfirmation, AfterPolicy, AfterConfirmation
    <3>2. CASE \/ Read(b) \/ Replay(b) \/ Admit(b) \/ AuditPolicyDeny(b)
               \/ CreateConfirmation(b) \/ RereadConfirmation(b) \/ StoreApproval(b)
               \/ RereadApproval(b) \/ RejectConfirmation(b) \/ RejectApproval(b)
      BY <3>2 DEF Read, Replay, Admit, AuditPolicyDeny, CreateConfirmation,
         RereadConfirmation, StoreApproval, RereadApproval, RejectConfirmation,
         RejectApproval, WriteWaiting, ReadBack, WriteRejected
    <3>3. CASE \/ AuditConfirmationDenied(b) \/ RequestApproval(b) \/ AdmitApproved(b)
               \/ VerifyApproval(b) \/ AuditApprovalDenied(b) \/ Reserve(b)
               \/ ConsumeConfirmation(b)
      BY <3>3 DEF AuditConfirmationDenied, RequestApproval, AdmitApproved, VerifyApproval,
         AuditApprovalDenied, AuditDenied, Reserve, ConsumeConfirmation
    <3>4. CASE \/ ReadReserved(b) \/ LinkReceipt(b) \/ EffectCheck(b) \/ LastAdmit(b)
               \/ Send(b) \/ ReceiveReply(b) \/ ReadLinked(b) \/ Complete(b) \/ Deliver(b)
               \/ Fail(b)
      BY <1>3, <3>4 DEF ReadReserved, LinkReceipt, EffectCheck, LastAdmit, Send,
         ReceiveReply, ReadLinked, ReadOwn, Complete, Deliver, Fail
    <3>. QED  BY <1>3, <3>1, <3>2, <3>3, <3>4 DEF Attempt
  <2>2. b \notin sent'
    BY <1>3 DEF Attempt, Read, Replay, Admit, Evaluate, AuditPolicyDeny, CreateConfirmation,
       RereadConfirmation, StoreApproval, RereadApproval, RejectConfirmation,
       RejectApproval, WriteWaiting, ReadBack, WriteRejected, ResolveConfirmation,
       AuditConfirmationDenied, AuditApprovalDenied, AuditDenied, RequestApproval,
       AdmitApproved, VerifyApproval, Reserve, ConsumeConfirmation, ReadReserved, ReadOwn,
       LinkReceipt, EffectCheck, LastAdmit, Send, ReceiveReply, ReadLinked, Complete,
       Deliver, Fail, At, Linking
  <2>. QED  BY <2>1, <2>2
<1>. QED  BY <1>1, <1>2, <1>3, OthersStay, AttemptsStay DEF Next

(* Only the delivery of a POST and an operator's recovery reach the backend. *)
LEMMA EffectMakers ==
  ASSUME [Next]_vars
  PROVE  \/ UNCHANGED backend
         \/ \E a \in Attempts : Deliver(a)
         \/ \E o \in Operators : Recover(o)
<1>1. CASE UNCHANGED vars               BY <1>1 DEF vars
<1>2. CASE Environment
  BY <1>2 DEF Environment, DecideApproval, DecideConfirmation, Lapse, LeaseLapses,
     FactsChange, Env
<1>3. ASSUME NEW o \in Operators, Reconcile(o) \/ Admission(o) \/ OpFail(o), ~Recover(o)
      PROVE  UNCHANGED backend
  BY <1>3 DEF Reconcile, ReconcileRead, RecoverAudit, RecoverWrite, Admission,
     AdmissionRead, AdmissionAudit, OpenWrite, StopWrite, OpFail
<1>4. ASSUME NEW a \in Attempts, Attempt(a) \/ Fail(a)
      PROVE  UNCHANGED backend
  BY <1>4 DEF Attempt, Read, Replay, Admit, Evaluate, AuditPolicyDeny, CreateConfirmation,
     RereadConfirmation, StoreApproval, RereadApproval, RejectConfirmation,
     RejectApproval, WriteWaiting, ReadBack, WriteRejected, ResolveConfirmation,
     AuditConfirmationDenied, AuditApprovalDenied, AuditDenied, RequestApproval,
     AdmitApproved, VerifyApproval, Reserve, ConsumeConfirmation, AuditAllow, ReadReserved,
     ReadOwn, LinkReceipt, EffectCheck, LastAdmit, Send, ReceiveReply, ReadLinked, Complete,
     Fail
<1>. QED  BY <1>1, <1>2, <1>3, <1>4 DEF Next

(* What happened to the effect stays: executed, or fenced.                   *)
LEMMA BackendStays ==
  CoreInv /\ [Next]_vars => backend.state = "clean" \/ UNCHANGED backend
  BY EffectMakers DEF Deliver, Recover

LEMMA AnswerStep == CoreInv /\ StoredInv /\ AnswerInv /\ [Next]_vars => AnswerInv'
<1>. SUFFICES ASSUME CoreInv, StoredInv, AnswerInv, [Next]_vars, NEW b \in Attempts
              PROVE  Answered(b)'
  BY DEF AnswerInv
<1>0. Answered(b)
  BY DEF AnswerInv
<1>1. /\ ledger.state = "completed" => ledger'.state = "completed"
      /\ backend.state # "clean" => backend' = backend
  BY WritesAreSteps, BackendStays
  DEF LedgerStep, Waits, Rejects, Reserves, Links, Records, Waiting
<1>2. CASE result'[b] = result[b] /\ pc'[b] = pc[b] /\ (b \in sent' <=> b \in sent)
  BY <1>0, <1>1, <1>2 DEF Answered
<1>3. ASSUME Attempt(b) \/ Deliver(b) \/ Fail(b)
      PROVE  Answered(b)'
  <2>. USE <1>0, <1>1 DEF Answered, CoreInv, TypeOK, At, Go, Finish, Respond
  <2>1. CASE Read(b)
    BY <2>1 DEF Read, OutcomeIsTrue, PostInv
  <2>2. CASE Replay(b)
    BY <2>2 DEF Replay, PostInv
  <2>3. CASE \/ Admit(b) \/ AuditPolicyDeny(b) \/ CreateConfirmation(b)
             \/ RereadConfirmation(b) \/ AuditConfirmationDenied(b) \/ RejectConfirmation(b)
    BY <2>3 DEF Admit, AuditPolicyDeny, CreateConfirmation, RereadConfirmation,
       WriteWaiting, ReadBack, AuditConfirmationDenied, AuditDenied, RejectConfirmation,
       WriteRejected, PostInv
  <2>4. CASE Evaluate(b) \/ ResolveConfirmation(b)
    BY <2>4 DEF Evaluate, ResolveConfirmation, AfterPolicy, AfterConfirmation, PostInv
  <2>5. CASE \/ StoreApproval(b) \/ RereadApproval(b) \/ RequestApproval(b)
             \/ AdmitApproved(b) \/ VerifyApproval(b) \/ AuditApprovalDenied(b)
             \/ RejectApproval(b)
    BY <2>5 DEF StoreApproval, RereadApproval, WriteWaiting, ReadBack, RequestApproval,
       AdmitApproved, VerifyApproval, AuditApprovalDenied, AuditDenied, RejectApproval,
       WriteRejected, PostInv
  <2>6. CASE \/ Reserve(b) \/ ConsumeConfirmation(b) \/ AuditAllow(b) \/ ReadReserved(b)
             \/ LinkReceipt(b) \/ EffectCheck(b) \/ LastAdmit(b)
    BY <2>6 DEF Reserve, ConsumeConfirmation, AuditAllow, ReadReserved, ReadOwn,
       LinkReceipt, EffectCheck, LastAdmit, PostInv
  <2>7. CASE \/ Send(b) \/ ReceiveReply(b) \/ ReadLinked(b) \/ Deliver(b) \/ Fail(b)
    BY <2>7 DEF Send, ReceiveReply, ReadLinked, ReadOwn, Deliver, Fail
  <2>8. CASE Complete(b)
    <3>1. backend.state = "executed" /\ UNCHANGED backend
      BY <2>8 DEF Complete, PostInv
    <3>2. Current(b) => ledger'.state = "completed"
      <4>1. linked(b) \in Record
        BY RecordTypes
      <4>. QED  BY <2>8, <4>1 DEF Complete, Write, Record
    <3>. QED  BY <2>8, <3>1, <3>2 DEF Complete
  <2>. QED  BY <1>3, <2>1, <2>2, <2>3, <2>4, <2>5, <2>6, <2>7, <2>8 DEF Attempt
<1>. QED  BY <1>2, <1>3, OthersStay, AttemptsStay DEF Next, CoreInv

LEMMA BarStep == CoreInv /\ BarInv /\ [Next]_vars => BarInv'
<1>. SUFFICES ASSUME CoreInv, BarInv, [Next]_vars PROVE BarInv'
  OBVIOUS
<1>. USE DEF CoreInv, TypeOK, BarInv, AdmissionOpen
<1>1. CASE UNCHANGED vars               BY <1>1 DEF vars
<1>2. CASE Environment
  <2>1. CASE LeaseLapses
    BY <2>1 DEF LeaseLapses, Env, NotCleared
  <2>. QED
    BY <1>2, <2>1 DEF Environment, DecideApproval, DecideConfirmation, Lapse, FactsChange,
       Env
<1>3. ASSUME NEW o \in Operators, Reconcile(o) \/ Admission(o) \/ OpFail(o)
      PROVE  BarInv'
  <2>. USE DEF OpAt, OpReturn
  <2>1. CASE OpenWrite(o)               BY <2>1 DEF OpenWrite
  <2>2. CASE StopWrite(o)               BY <2>2 DEF StopWrite, NotCleared
  <2>3. CASE \E target \in {"open", "stop"} : AdmissionRead(o, target) \/ AdmissionAudit(o, target)
    BY <2>3 DEF AdmissionRead, AdmissionAudit
  <2>4. CASE Reconcile(o)
    BY <2>4 DEF Reconcile, ReconcileRead, Recover, RecoverAudit, RecoverWrite
  <2>5. CASE OpFail(o)                  BY <2>5 DEF OpFail
  <2>. QED  BY <1>3, <2>1, <2>2, <2>3, <2>4, <2>5 DEF Admission
<1>4. ASSUME NEW a \in Attempts, Attempt(a) \/ Deliver(a) \/ Fail(a)
      PROVE  BarInv'
  <2>1. UNCHANGED <<world, operators>>
    BY <1>4 DEF Attempt, Read, Replay, Admit, Evaluate, AuditPolicyDeny, CreateConfirmation,
       RereadConfirmation, StoreApproval, RereadApproval, RejectConfirmation,
       RejectApproval, WriteWaiting, ReadBack, WriteRejected, ResolveConfirmation,
       AuditConfirmationDenied, AuditApprovalDenied, AuditDenied, RequestApproval,
       AdmitApproved, VerifyApproval, Reserve, ConsumeConfirmation, AuditAllow,
       ReadReserved, ReadOwn, LinkReceipt, EffectCheck, LastAdmit, Send, ReceiveReply,
       ReadLinked, Complete, Deliver, Fail, At
  <2>2. barred # {} => pc'[a] # "send" \/ pc[a] = "send"
    <3>. USE DEF At, Go, Finish, Respond
    <3>1. CASE Evaluate(a) \/ ResolveConfirmation(a)
      BY <3>1 DEF Evaluate, ResolveConfirmation, AfterPolicy, AfterConfirmation
    <3>2. CASE EffectCheck(a) \/ LastAdmit(a)
      BY <3>2 DEF EffectCheck, LastAdmit, Rechecked
    <3>3. CASE \/ Read(a) \/ Replay(a) \/ Admit(a) \/ AuditPolicyDeny(a)
               \/ CreateConfirmation(a) \/ RereadConfirmation(a) \/ StoreApproval(a)
               \/ RereadApproval(a) \/ RejectConfirmation(a) \/ RejectApproval(a)
      BY <3>3 DEF Read, Replay, Admit, AuditPolicyDeny, CreateConfirmation,
         RereadConfirmation, StoreApproval, RereadApproval, RejectConfirmation,
         RejectApproval, WriteWaiting, ReadBack, WriteRejected
    <3>4. CASE \/ AuditConfirmationDenied(a) \/ RequestApproval(a) \/ AdmitApproved(a)
               \/ VerifyApproval(a) \/ AuditApprovalDenied(a) \/ Reserve(a)
               \/ ConsumeConfirmation(a) \/ AuditAllow(a)
      BY <3>4 DEF AuditConfirmationDenied, RequestApproval, AdmitApproved, VerifyApproval,
         AuditApprovalDenied, AuditDenied, Reserve, ConsumeConfirmation, AuditAllow
    <3>5. CASE \/ ReadReserved(a) \/ LinkReceipt(a) \/ Send(a) \/ ReceiveReply(a)
               \/ ReadLinked(a) \/ Complete(a) \/ Deliver(a) \/ Fail(a)
      BY <3>5 DEF ReadReserved, LinkReceipt, Send, ReceiveReply, ReadLinked, ReadOwn,
         Complete, Deliver, Fail
    <3>. QED  BY <1>4, <3>1, <3>2, <3>3, <3>4, <3>5 DEF Attempt
  <2>3. ASSUME NEW b \in barred PROVE pc'[b] # "send"
    BY <1>4, <2>2, <2>3, OthersStay
  <2>. QED  BY <2>1, <2>3
<1>. QED  BY <1>1, <1>2, <1>3, <1>4 DEF Next

(* Which call each step makes to the stores of the human authorities.        *)
LEMMA HumansDecide ==
  ASSUME Environment
  PROVE  \/ UNCHANGED <<approval, confirmation>>
         \/ \E a \in Attempts, ok \in BOOLEAN :
              \/ Approvals!Decide(a, ok) /\ UNCHANGED confirmation
              \/ Confirmations!Decide(a, ok) /\ UNCHANGED approval
<1>1. ASSUME NEW a \in Attempts, NEW ok \in BOOLEAN, DecideApproval(a, ok)
      PROVE  Approvals!Decide(a, ok) /\ UNCHANGED confirmation
  BY <1>1 DEF DecideApproval
<1>2. ASSUME NEW a \in Attempts, NEW ok \in BOOLEAN, DecideConfirmation(a, ok)
      PROVE  Confirmations!Decide(a, ok) /\ UNCHANGED approval
  BY <1>2 DEF DecideConfirmation
<1>3. ASSUME \/ \E a \in Attempts, kind \in {"approval", "confirm"} : Lapse(kind, a)
             \/ LeaseLapses \/ FactsChange
      PROVE  UNCHANGED <<approval, confirmation>>
  BY <1>3 DEF Lapse, LeaseLapses, FactsChange, Env
<1>. QED  BY <1>1, <1>2, <1>3 DEF Environment

LEMMA OperatorsSpendNothing ==
  ASSUME NEW o \in Operators, Reconcile(o) \/ Admission(o) \/ OpFail(o)
  PROVE  UNCHANGED <<approval, confirmation>>
  BY DEF Reconcile, ReconcileRead, Recover, RecoverAudit, RecoverWrite, Admission,
     AdmissionRead, AdmissionAudit, OpenWrite, StopWrite, OpFail, OpReturn, OpAt

LEMMA AttemptCalls ==
  ASSUME NEW a \in Attempts, Attempt(a) \/ Deliver(a) \/ Fail(a)
  PROVE  \/ UNCHANGED <<approval, confirmation>>
         \/ /\ Approvals!Request(nonce(a)) /\ UNCHANGED confirmation
            /\ RequestApproval(a)
         \/ /\ Approvals!Consume(grant[a]) /\ UNCHANGED confirmation
            /\ VerifyApproval(a)
         \/ /\ Confirmations!Request(ex[a].confirm) /\ UNCHANGED approval
            /\ ex[a].confirm # None /\ ResolveConfirmation(a)
         \/ /\ Confirmations!Consume(ex[a].confirm) /\ UNCHANGED approval
            /\ ConsumeConfirmation(a)
<1>1. CASE ResolveConfirmation(a)       BY <1>1 DEF ResolveConfirmation
<1>2. CASE RequestApproval(a)           BY <1>2 DEF RequestApproval
<1>3. CASE VerifyApproval(a)            BY <1>3 DEF VerifyApproval
<1>4. CASE ConsumeConfirmation(a)       BY <1>4 DEF ConsumeConfirmation
<1>. QED
  BY <1>1, <1>2, <1>3, <1>4
  DEF Attempt, Read, Replay, Admit, Evaluate, AuditPolicyDeny, CreateConfirmation,
      RereadConfirmation, StoreApproval, RereadApproval, RejectConfirmation,
      RejectApproval, WriteWaiting, ReadBack, WriteRejected, AuditConfirmationDenied,
      AuditApprovalDenied, AuditDenied, AdmitApproved, Reserve, AuditAllow,
      ReadReserved, ReadOwn, LinkReceipt, EffectCheck, LastAdmit, Send, ReceiveReply,
      ReadLinked, Complete, Deliver, Fail

(* A spent authority stays spent, with the answer it was spent with, and is  *)
(* spent only by the attempt holding it.                                     *)
LEMMA AuthoritiesStay ==
  ASSUME CoreInv, [Next]_vars, NEW n \in Attempts
  PROVE  /\ Approvals!Granted(n) => Approvals!Granted(n)'
         /\ Confirmations!Granted(n) => Confirmations!Granted(n)'
         /\ confirmation'[n].phase = "consumed" =>
              \/ confirmation[n].phase = "consumed"
              \/ \E a \in Attempts : ConsumeConfirmation(a)
<1>1. /\ approval \in [Attempts -> Approvals!Authority]
      /\ confirmation \in [Attempts -> Confirmations!Authority]
  BY DEF CoreInv, TypeOK, Approvals!TypeOK, Confirmations!TypeOK
<1>2. ASSUME NEW m, UNCHANGED confirmation,
             \/ Approvals!Request(m) \/ Approvals!Consume(m)
             \/ \E ok \in BOOLEAN : Approvals!Decide(m, ok)
      PROVE  Approvals!Granted(n) => Approvals!Granted(n)'
  <2>1. CASE m = n
    BY <1>1, <1>2, <2>1
    DEF Approvals!Request, Approvals!Consume, Approvals!Decide, Approvals!Granted
  <2>2. CASE m # n
    BY <1>1, <1>2, <2>2
    DEF Approvals!Request, Approvals!Consume, Approvals!Decide, Approvals!Granted
  <2>. QED  BY <2>1, <2>2
<1>3. ASSUME NEW m, UNCHANGED approval,
             \/ Confirmations!Request(m)
             \/ \E ok \in BOOLEAN : Confirmations!Decide(m, ok)
      PROVE  /\ Confirmations!Granted(n) => Confirmations!Granted(n)'
             /\ confirmation'[n].phase = "consumed" => confirmation[n].phase = "consumed"
  <2>1. CASE m = n
    <3>1. CASE Confirmations!Request(n)
      <4>1. CASE confirmation[n].phase = "none"
        BY <1>1, <3>1, <4>1
        DEF Confirmations!Request, Confirmations!Granted, Confirmations!Authority
      <4>2. CASE confirmation[n].phase # "none"
        BY <3>1, <4>2 DEF Confirmations!Request, Confirmations!Granted
      <4>. QED  BY <4>1, <4>2
    <3>2. CASE \E ok \in BOOLEAN : Confirmations!Decide(n, ok)
      BY <1>1, <3>2 DEF Confirmations!Decide, Confirmations!Granted
    <3>. QED  BY <1>3, <2>1, <3>1, <3>2
  <2>2. CASE m # n
    BY <1>1, <1>3, <2>2
    DEF Confirmations!Request, Confirmations!Decide, Confirmations!Granted
  <2>. QED  BY <2>1, <2>2
<1>4. ASSUME NEW m, UNCHANGED approval, Confirmations!Consume(m)
      PROVE  Confirmations!Granted(n) => Confirmations!Granted(n)'
  <2>1. CASE m = n
    BY <1>1, <1>4, <2>1 DEF Confirmations!Consume, Confirmations!Granted
  <2>2. CASE m # n
    BY <1>1, <1>4, <2>2 DEF Confirmations!Consume, Confirmations!Granted
  <2>. QED  BY <2>1, <2>2
<1>5. CASE Environment
  <2>1. CASE UNCHANGED <<approval, confirmation>>
    BY <2>1 DEF Approvals!Granted, Confirmations!Granted
  <2>2. CASE \E a \in Attempts, ok \in BOOLEAN :
               Approvals!Decide(a, ok) /\ UNCHANGED confirmation
    BY <1>2, <2>2 DEF Confirmations!Granted
  <2>3. CASE \E a \in Attempts, ok \in BOOLEAN :
               Confirmations!Decide(a, ok) /\ UNCHANGED approval
    BY <1>3, <2>3 DEF Approvals!Granted
  <2>. QED  BY <1>5, <2>1, <2>2, <2>3, HumansDecide
<1>6. ASSUME NEW o \in Operators, Reconcile(o) \/ Admission(o) \/ OpFail(o)
      PROVE  UNCHANGED <<approval, confirmation>>
  BY <1>6, OperatorsSpendNothing
<1>8. CASE UNCHANGED <<approval, confirmation>>
  BY <1>8 DEF Approvals!Granted, Confirmations!Granted
<1>9. ASSUME NEW a \in Attempts, Attempt(a) \/ Deliver(a) \/ Fail(a)
      PROVE  /\ Approvals!Granted(n) => Approvals!Granted(n)'
             /\ Confirmations!Granted(n) => Confirmations!Granted(n)'
             /\ confirmation'[n].phase = "consumed" =>
                  confirmation[n].phase = "consumed" \/ ConsumeConfirmation(a)
  <2>1. CASE Approvals!Request(nonce(a)) /\ UNCHANGED confirmation
    BY <1>2, <2>1 DEF Confirmations!Granted
  <2>2. CASE Approvals!Consume(grant[a]) /\ UNCHANGED confirmation
    BY <1>2, <2>2 DEF Confirmations!Granted
  <2>3. CASE Confirmations!Request(ex[a].confirm) /\ UNCHANGED approval
    BY <1>3, <2>3 DEF Approvals!Granted
  <2>4. CASE Confirmations!Consume(ex[a].confirm) /\ UNCHANGED approval
             /\ ConsumeConfirmation(a)
    BY <1>4, <2>4 DEF Approvals!Granted
  <2>. QED  BY <1>8, <1>9, <2>1, <2>2, <2>3, <2>4, AttemptCalls
<1>10. CASE UNCHANGED vars
  BY <1>8, <1>10 DEF vars
<1>. QED  BY <1>5, <1>6, <1>8, <1>9, <1>10 DEF Next

LEMMA ConsentSpentStep ==
  CoreInv /\ StoredInv /\ ConsentSpentAfterReservation /\ [Next]_vars
    => ConsentSpentAfterReservation'
<1>. SUFFICES ASSUME CoreInv, StoredInv, ConsentSpentAfterReservation, [Next]_vars,
                     NEW c \in Attempts, confirmation'[c].phase = "consumed"
              PROVE  ledger'.state \in Reserved
  BY DEF ConsentSpentAfterReservation
<1>1. ledger.state \in Reserved
  <2>1. CASE confirmation[c].phase = "consumed"
    BY <2>1 DEF ConsentSpentAfterReservation
  <2>2. ASSUME NEW a \in Attempts, ConsumeConfirmation(a)
        PROVE  ledger.state \in Reserved
    BY <2>2 DEF ConsumeConfirmation, At, CoreInv, OwnerInv, Owning
  <2>. QED  BY <2>1, <2>2, AuthoritiesStay
<1>2. LedgerStep
  BY WritesAreSteps
<1>. QED  BY <1>1, <1>2 DEF LedgerStep, Waits, Rejects, Reserves, Links, Records, Waiting, Reserved

(* A snapshot, once evaluated, stays the attempt's own.                      *)
LEMMA SnapshotsStay ==
  ASSUME CoreInv, [Next]_vars, NEW n \in Attempts,
         pc[n] \notin {"read", "admit", "evaluate"}
  PROVE  seen'[n] = seen[n] /\ pc'[n] \notin {"read", "admit", "evaluate"}
<1>. USE DEF CoreInv, TypeOK
<1>1. ASSUME Attempt(n) \/ Deliver(n) \/ Fail(n)
      PROVE  seen'[n] = seen[n] /\ pc'[n] \notin {"read", "admit", "evaluate"}
  <2>. USE DEF At, Go, Finish, Respond
  <2>1. CASE Read(n) \/ Admit(n) \/ Evaluate(n)
    BY <2>1 DEF Read, Admit, Evaluate
  <2>2. CASE ResolveConfirmation(n)
    BY <2>2 DEF ResolveConfirmation, AfterConfirmation
  <2>3. CASE \/ Replay(n) \/ AuditPolicyDeny(n) \/ CreateConfirmation(n)
             \/ RereadConfirmation(n) \/ StoreApproval(n) \/ RereadApproval(n)
             \/ RejectConfirmation(n) \/ RejectApproval(n)
    BY <2>3 DEF Replay, AuditPolicyDeny, CreateConfirmation, RereadConfirmation,
       StoreApproval, RereadApproval, RejectConfirmation, RejectApproval, WriteWaiting,
       ReadBack, WriteRejected
  <2>4. CASE \/ AuditConfirmationDenied(n) \/ RequestApproval(n) \/ AdmitApproved(n)
             \/ VerifyApproval(n) \/ AuditApprovalDenied(n) \/ Reserve(n)
             \/ ConsumeConfirmation(n) \/ AuditAllow(n)
    BY <2>4 DEF AuditConfirmationDenied, RequestApproval, AdmitApproved, VerifyApproval,
       AuditApprovalDenied, AuditDenied, Reserve, ConsumeConfirmation, AuditAllow
  <2>5. CASE \/ ReadReserved(n) \/ LinkReceipt(n) \/ EffectCheck(n) \/ LastAdmit(n)
             \/ Send(n) \/ ReceiveReply(n) \/ ReadLinked(n) \/ Complete(n) \/ Deliver(n)
             \/ Fail(n)
    BY <2>5 DEF ReadReserved, LinkReceipt, EffectCheck, LastAdmit, Send, ReceiveReply,
       ReadLinked, ReadOwn, Complete, Deliver, Fail
  <2>. QED  BY <1>1, <2>1, <2>2, <2>3, <2>4, <2>5 DEF Attempt
<1>. QED  BY <1>1, OthersStay, AttemptsStay DEF Next

LEMMA MintedStays ==
  ASSUME CoreInv, [Next]_vars, NEW n, NEW input, NEW s, Minted(n, input, s)
  PROVE  Minted(n, input, s)'
  BY SnapshotsStay DEF Minted

LEMMA KeptStays ==
  ASSUME CoreInv, [Next]_vars, NEW r, Kept(r)
  PROVE  Kept(r)'
  BY MintedStays DEF Kept

(* The records an attempt writes keep what they must.                        *)
LEMMA WrittenKept ==
  ASSUME CoreInv, StoredInv, KeptInv, ConsentInv, [Next]_vars, NEW a \in Attempts,
         CreateConfirmation(a) \/ StoreApproval(a)
  PROVE  /\ Kept(ledger)' /\ Keeping(a)'
<1>. USE DEF CoreInv, TypeOK
<1>0. CASE ~Current(a)
  <2>. PICK r, s : r = ledger /\ s = ex[a]
    OBVIOUS
  <2>1. ledger' = r /\ ex'[a] = s /\ pc'[a] = "done"
    BY <1>0 DEF CreateConfirmation, StoreApproval, WriteWaiting, Finish, At
  <2>2. Kept(r)' /\ Kept(s)'
    BY KeptStays DEF KeptInv, Keeping
  <2>. QED  BY <2>1, <2>2 DEF Keeping, Kept, Minted
<1>1. CASE CreateConfirmation(a) /\ Current(a)
  <2>. PICK r : r = awaiting_confirmation(a)
    OBVIOUS
  <2>1. pc[a] = "confirm_write" /\ Trigger # "none"
    BY <1>1 DEF CreateConfirmation, WriteWaiting, At, KeptInv, Keeping
  <2>2. /\ r.nonce = None /\ r.confirm = a /\ r.input = Input[a] /\ r.safe = seen[a]
        /\ r.state = "awaiting_confirmation"
    BY DEF awaiting_confirmation, Missing
  <2>3. Minted(a, Input[a], seen[a])
    BY <2>1 DEF Minted
  <2>4. Kept(r)
    BY <2>1, <2>2, <2>3, ConstantsAssumption DEF Kept
  <2>5. ledger' = r /\ ex'[a] = r /\ pc'[a] = "confirm_read"
    BY <1>1 DEF CreateConfirmation, WriteWaiting, Write, Go
  <2>6. Kept(r)'                        BY <2>4, KeptStays
  <2>. QED  BY <2>2, <2>5, <2>6 DEF Keeping, Kept, Minted
<1>2. CASE StoreApproval(a) /\ Current(a)
  <2>. PICK r : r = awaiting_approval(a)
    OBVIOUS
  <2>1. pc[a] = "approval_write" /\ Kept(ex[a])
    BY <1>2 DEF StoreApproval, WriteWaiting, At, KeptInv, Keeping
  <2>2. /\ r.nonce = a /\ r.confirm = ex[a].confirm /\ r.input = Input[a]
        /\ r.safe = seen[a] /\ r.state = "awaiting_approval"
    BY DEF awaiting_approval, Record
  <2>3. Minted(a, Input[a], seen[a])
    BY <2>1 DEF Minted
  <2>4. ex[a].confirm # None => Confirm(a)
    BY <2>1 DEF Kept, Confirm, confirmation_active
  <2>5. ex[a].confirm # None => ex[a].safe = seen[a] /\ ex[a].input = Input[a]
    BY <2>1, <2>4 DEF ConsentInv, Consented, Confirmed
  <2>6. Kept(r)
    BY <2>1, <2>2, <2>3, <2>5, ConstantsAssumption DEF Kept
  <2>7. ledger' = r /\ ex'[a] = r /\ pc'[a] = "approval_read"
    BY <1>2 DEF StoreApproval, WriteWaiting, Write, Go
  <2>8. Kept(r)'                        BY <2>6, KeptStays
  <2>. QED  BY <2>2, <2>7, <2>8 DEF Keeping, Kept, Minted
<1>. QED  BY <1>0, <1>1, <1>2

LEMMA KeptStep ==
  CoreInv /\ StoredInv /\ KeptInv /\ ConsentInv /\ [Next]_vars => KeptInv'
<1>. SUFFICES ASSUME CoreInv, StoredInv, KeptInv, ConsentInv, [Next]_vars
              PROVE  Kept(ledger)' /\ \A b \in Attempts : Keeping(b)'
  BY DEF KeptInv
<1>. USE DEF CoreInv, TypeOK
<1>1. ASSUME NEW r, r = ledger PROVE Kept(r)'
  BY <1>1, KeptStays DEF KeptInv
<1>2. ASSUME NEW b \in Attempts, NEW r, r = ex[b] PROVE Kept(r)'
  BY <1>2, KeptStays DEF KeptInv, Keeping
<1>3. ASSUME UNCHANGED ledger
      PROVE  Kept(ledger)'
  <2>. PICK r : r = ledger
    OBVIOUS
  <2>. QED  BY <1>1, <1>3 DEF Kept, Minted
<1>4. ASSUME NEW b \in Attempts, ex'[b] = ex[b]
      PROVE  Kept(ex[b])'
  <2>. PICK r : r = ex[b]
    OBVIOUS
  <2>. QED  BY <1>2, <1>4 DEF Kept, Minted
<1>5. ASSUME ledger'.nonce = ledger.nonce, ledger'.confirm = ledger.confirm,
             ledger'.input = ledger.input, ledger'.safe = ledger.safe,
             ledger'.state \in {"rejected", "completed", "not_executed"}
      PROVE  Kept(ledger)'
  <2>. PICK r : r = ledger
    OBVIOUS
  <2>1. Kept(r)'
    BY <1>1
  <2>. QED  BY <1>5, <2>1 DEF Kept, Minted
<1>6. ASSUME ledger'.nonce = None, ledger'.confirm = None,
             ledger'.state \in {"pending", "completed"}
      PROVE  Kept(ledger)'
  BY <1>6 DEF Kept
<1>7. ASSUME NEW b \in Attempts, pc'[b] = pc[b], ex'[b] = ex[b], grant'[b] = grant[b]
      PROVE  Keeping(b)'
  <2>1. Kept(ex[b])'
    BY <1>4, <1>7
  <2>. QED  BY <1>7, <2>1 DEF Keeping, KeptInv
<1>8. ASSUME Environment \/ UNCHANGED vars
      PROVE  Kept(ledger)' /\ \A b \in Attempts : Keeping(b)'
  <2>1. UNCHANGED ledger
    BY <1>8 DEF Environment, DecideApproval, DecideConfirmation, Lapse, LeaseLapses,
       FactsChange, Env, vars
  <2>. QED  BY <1>3, <1>7, <1>8, <2>1, AttemptsStay
<1>9. ASSUME NEW o \in Operators, Reconcile(o) \/ Admission(o) \/ OpFail(o)
      PROVE  Kept(ledger)' /\ \A b \in Attempts : Keeping(b)'
  <2>1. CASE RecoverWrite(o) /\ version = opEtag[o]
    <3>1. ledger = opEx[o]
      BY <2>1 DEF RecoverWrite, OpReturn, OpAt, OperatorInv
    <3>2. /\ ledger'.nonce = ledger.nonce /\ ledger'.confirm = ledger.confirm
          /\ ledger'.input = ledger.input /\ ledger'.safe = ledger.safe
          /\ ledger'.state \in {"completed", "not_executed"}
      BY <2>1, <3>1 DEF RecoverWrite, Write, Record
    <3>3. Kept(ledger)'
      BY <1>5, <3>2
    <3>. QED  BY <1>7, <1>9, <3>3, AttemptsStay
  <2>2. CASE ~(RecoverWrite(o) /\ version = opEtag[o])
    <3>1. UNCHANGED ledger
      BY <1>9, <2>2 DEF Reconcile, ReconcileRead, Recover, RecoverAudit, RecoverWrite,
         Admission, AdmissionRead, AdmissionAudit, OpenWrite, StopWrite, OpFail
    <3>. QED  BY <1>3, <1>7, <1>9, <3>1, AttemptsStay
  <2>. QED  BY <2>1, <2>2
<1>10. ASSUME NEW a \in Attempts, Attempt(a) \/ Deliver(a) \/ Fail(a)
       PROVE  Kept(ledger)' /\ Keeping(a)'
  <2>. USE DEF At, Go, Finish, Respond
  <2>1. CASE CreateConfirmation(a) \/ StoreApproval(a)
    BY <2>1, WrittenKept
  <2>2. CASE Read(a)
    <3>. PICK r : r = ledger
      OBVIOUS
    <3>1. Kept(r)'
      BY <1>1
    <3>2. /\ ledger' = r /\ ex'[a] = r /\ grant'[a] = grant[a] /\ pc[a] = "read"
          /\ pc'[a] \in {"admit", "replay", "done"}
          /\ pc'[a] # "done" /\ r.state # "missing" => r.input = Input[a]
      BY <2>2 DEF Read, Conflicts
    <3>. QED  BY <3>1, <3>2 DEF Kept, Minted, Keeping, KeptInv
  <2>3. ASSUME UNCHANGED <<ledger, ex>>, UNCHANGED grant \/ RequestApproval(a),
               pc'[a] \in {"read", "admit", "evaluate"} => pc[a] \in {"read", "admit"},
               pc'[a] = "confirm_write" => Trigger # "none",
               pc[a] # "done"
        PROVE  Kept(ledger)' /\ Keeping(a)'
    <3>1. Kept(ledger)' /\ Kept(ex[a])'
      BY <1>3, <1>4, <2>3
    <3>2. RequestApproval(a) => pc[a] = "approval_request"
      BY DEF RequestApproval
    <3>3. pc'[a] \in {"read", "admit", "evaluate"} => grant'[a] = None
      BY <2>3, <3>2 DEF Keeping, KeptInv
    <3>4. ex'[a].state # "missing" => ex'[a].input = Input[a]
      BY <2>3 DEF Keeping, KeptInv
    <3>. QED  BY <2>3, <3>1, <3>3, <3>4 DEF Keeping
  <2>4. CASE Evaluate(a)
    BY <2>3, <2>4 DEF Evaluate, AfterPolicy, AfterConfirmation, confirmation_active
  <2>5. CASE ResolveConfirmation(a)
    BY <2>3, <2>5 DEF ResolveConfirmation, AfterConfirmation
  <2>6. CASE \/ Replay(a) \/ Admit(a) \/ AuditPolicyDeny(a) \/ RereadConfirmation(a)
             \/ RereadApproval(a) \/ AuditConfirmationDenied(a)
    BY <2>3, <2>6 DEF Replay, Admit, AuditPolicyDeny, RereadConfirmation, RereadApproval,
       ReadBack, AuditConfirmationDenied, AuditDenied
  <2>7. CASE \/ RequestApproval(a) \/ AdmitApproved(a) \/ VerifyApproval(a)
             \/ AuditApprovalDenied(a) \/ ConsumeConfirmation(a) \/ AuditAllow(a)
    BY <2>3, <2>7 DEF RequestApproval, AdmitApproved, VerifyApproval, AuditApprovalDenied,
       AuditDenied, ConsumeConfirmation, AuditAllow
  <2>8. CASE \/ ReadReserved(a) \/ EffectCheck(a) \/ LastAdmit(a) \/ Send(a)
             \/ ReceiveReply(a) \/ ReadLinked(a) \/ Fail(a)
    BY <2>3, <2>8 DEF ReadReserved, EffectCheck, LastAdmit, Send, ReceiveReply, ReadLinked,
       ReadOwn, Fail
  <2>9. CASE RejectConfirmation(a) \/ RejectApproval(a)
    <3>0. UNCHANGED ledger \/ ledger' = [ledger EXCEPT !.state = "rejected"]
      BY <2>9 DEF RejectConfirmation, RejectApproval, WriteRejected, Write, Current, EtagInv,
         Etagged, Reading
    <3>1. \/ UNCHANGED ledger
          \/ /\ ledger'.nonce = ledger.nonce /\ ledger'.confirm = ledger.confirm
             /\ ledger'.input = ledger.input /\ ledger'.safe = ledger.safe
             /\ ledger'.state = "rejected"
      BY <3>0 DEF Record
    <3>2. /\ ex'[a] = ex[a] /\ grant'[a] = grant[a] /\ pc'[a] = "done"
      BY <2>9 DEF RejectConfirmation, RejectApproval, WriteRejected
    <3>3. Kept(ex[a])'
      BY <1>4, <3>2
    <3>. QED  BY <1>3, <1>5, <3>1, <3>2, <3>3 DEF Keeping
  <2>10. CASE Reserve(a) \/ LinkReceipt(a) \/ Complete(a)
    <3>1. pending(a) \in Record /\ linked(a) \in Record
      BY RecordTypes
    <3>2. /\ pending(a).nonce = None /\ pending(a).confirm = None
          /\ pending(a).state = "pending"
          /\ linked(a).nonce = None /\ linked(a).confirm = None /\ linked(a).state = "pending"
      BY DEF pending, linked, Missing
    <3>3. UNCHANGED ledger \/ /\ ledger'.nonce = None /\ ledger'.confirm = None
                              /\ ledger'.state \in {"pending", "completed"}
      <4>1. CASE Reserve(a)             BY <3>2, <4>1 DEF Reserve, Write
      <4>2. CASE LinkReceipt(a)         BY <3>2, <4>2 DEF LinkReceipt, Write
      <4>3. CASE Complete(a)            BY <3>1, <3>2, <4>3 DEF Complete, Write, Record
      <4>. QED  BY <2>10, <4>1, <4>2, <4>3
    <3>4. /\ ex'[a] = ex[a] /\ grant'[a] = grant[a]
          /\ pc'[a] \in {"confirm_consume", "audit", "check", "done"}
      BY <2>10 DEF Reserve, LinkReceipt, Complete
    <3>5. Kept(ex[a])'
      BY <1>4, <3>4
    <3>. QED  BY <1>3, <1>6, <2>10, <3>3, <3>4, <3>5 DEF Keeping, KeptInv, Reserve, LinkReceipt, Complete
  <2>11. CASE Deliver(a)
    BY <1>3, <1>7, <2>11 DEF Deliver
  <2>. QED
    BY <1>10, <2>1, <2>2, <2>4, <2>5, <2>6, <2>7, <2>8, <2>9, <2>10, <2>11 DEF Attempt
<1>11. ASSUME NEW a \in Attempts, Attempt(a) \/ Deliver(a) \/ Fail(a)
       PROVE  \A b \in Attempts : Keeping(b)'
  BY <1>7, <1>10, <1>11, OthersStay
<1>. QED  BY <1>8, <1>9, <1>10, <1>11 DEF Next

(* The user's obligation, once met, stays met until the request is out.      *)
LEMMA ConsentStep ==
  CoreInv /\ StoredInv /\ KeptInv /\ ConsentInv /\ [Next]_vars => ConsentInv'
<1>. SUFFICES ASSUME CoreInv, StoredInv, KeptInv, ConsentInv, [Next]_vars, NEW b \in Attempts
              PROVE  Consented(b)'
  BY DEF ConsentInv
<1>. USE DEF CoreInv, TypeOK
<1>1. ASSUME NEW c \in Attempts, Confirmations!Granted(c) PROVE Confirmations!Granted(c)'
  BY <1>1, AuthoritiesStay
<1>2. ex[b].confirm \in Attempts \cup {None}
  BY DEF Record, Id
<1>3. ASSUME ex'[b] = ex[b], ex[b].confirm # None, Confirmations!Granted(ex[b].confirm)
      PROVE  Confirmations!Granted(ex[b].confirm)'
  <2>. PICK c : c = ex[b].confirm
    OBVIOUS
  <2>1. Confirmations!Granted(c)'
    BY <1>1, <1>2, <1>3
  <2>. QED  BY <1>3, <2>1 DEF Confirmations!Granted
<1>4. ASSUME ex'[b] = ex[b], seen'[b] = seen[b],
             pc'[b] \in Confirmed \/ b \in sent' => pc[b] \in Confirmed \/ b \in sent,
             pc'[b] \in Owning \ {"confirm_consume"} \/ b \in sent' =>
               \/ pc[b] \in Owning \ {"confirm_consume"} \/ b \in sent
               \/ ~Confirm(b)
      PROVE  Consented(b)'
  <2>1. Confirm(b)' <=> Confirm(b)
    BY <1>4 DEF Confirm, confirmation_active
  <2>. QED
    BY <1>3, <1>4, <2>1 DEF ConsentInv, Consented, Confirmed, Owning
<1>5. ASSUME pc'[b] \notin Confirmed, b \notin sent'
      PROVE  Consented(b)'
  BY <1>5 DEF Consented, Confirmed
<1>6. pc[b] \in {"read", "admit", "evaluate", "confirm_write", "confirm_read", "confirm_request"}
        => b \notin sent
  BY DEF PostInv
<1>7. ASSUME Attempt(b) \/ Deliver(b) \/ Fail(b)
      PROVE  Consented(b)'
  <2>. USE DEF At, Go, Finish, Respond
  <2>1. CASE \/ Read(b) \/ Admit(b) \/ CreateConfirmation(b) \/ RereadConfirmation(b)
    BY <1>5, <1>6, <2>1 DEF Read, Admit, CreateConfirmation, RereadConfirmation,
       WriteWaiting, ReadBack, Confirmed, Reviewing, Owning
  <2>2. CASE Evaluate(b)
    <3>1. pc'[b] \in Confirmed => ~confirmation_active(ex[b], safe)
      BY <2>2 DEF Evaluate, AfterPolicy, Confirmed, Reviewing, Owning
    <3>2. ex'[b] = ex[b] /\ seen'[b] = safe /\ b \notin sent'
      BY <1>6, <2>2 DEF Evaluate
    <3>. QED  BY <3>1, <3>2 DEF Consented, Confirm, confirmation_active, Confirmed
  <2>3. CASE ResolveConfirmation(b)
    <3>1. /\ ex'[b] = ex[b] /\ seen'[b] = seen[b] /\ b \notin sent'
          /\ ex[b].state # "missing" /\ pc[b] # "done"
      BY <1>6, <2>3 DEF ResolveConfirmation, StoredInv, Stored
    <3>2. ex[b].input = Input[b]
      BY <3>1 DEF KeptInv, Keeping
    <3>3. pc'[b] \in Confirmed => ex[b].confirm # None /\ ex[b].safe = seen[b]
      BY <2>3 DEF ResolveConfirmation, ConfirmationBound, Confirmed, Reviewing, Owning
    <3>4. pc'[b] \notin Owning
      BY <2>3 DEF ResolveConfirmation, AfterConfirmation, Owning
    <3>. QED  BY <3>1, <3>2, <3>3, <3>4 DEF Consented
  <2>4. CASE StoreApproval(b)
    <3>1. CASE ~Current(b)
      BY <1>5, <2>4, <3>1 DEF StoreApproval, WriteWaiting, Confirmed, Reviewing, Owning, PostInv
    <3>2. CASE Current(b)
      <4>1. /\ ex'[b] = awaiting_approval(b) /\ seen'[b] = seen[b] /\ sent' = sent
            /\ pc[b] = "approval_write" /\ pc'[b] = "approval_read"
        BY <2>4, <3>2 DEF StoreApproval, WriteWaiting
      <4>2. b \notin sent
        BY <4>1 DEF PostInv
      <4>3. /\ awaiting_approval(b).confirm = ex[b].confirm
            /\ awaiting_approval(b).safe = seen[b]
            /\ awaiting_approval(b).input = Input[b]
        BY DEF awaiting_approval, Record
      <4>4. Confirm(b)' <=> Confirm(b)
        BY <4>1, <4>3 DEF Confirm, confirmation_active
      <4>5. Confirm(b) => ex[b].confirm # None
        BY <4>1 DEF ConsentInv, Consented, Confirmed
      <4>. QED  BY <4>1, <4>2, <4>3, <4>4, <4>5 DEF Consented, Owning
    <3>. QED  BY <3>1, <3>2
  <2>5. CASE ConsumeConfirmation(b) /\ pc'[b] = "audit"
    <3>1. /\ ex'[b] = ex[b] /\ seen'[b] = seen[b] /\ pc[b] = "confirm_consume"
          /\ Confirmations!Consume(ex[b].confirm) /\ confirmation[ex[b].confirm].approved
      BY <2>5 DEF ConsumeConfirmation, ConfirmationUsable
    <3>2. Confirm(b)' <=> Confirm(b)
      BY <3>1 DEF Confirm, confirmation_active
    <3>3. Confirm(b) => /\ ex[b].confirm # None /\ ex[b].safe = seen[b]
                        /\ ex[b].input = Input[b]
      BY <3>1 DEF ConsentInv, Consented, Confirmed, Owning
    <3>4. confirmation \in [Attempts -> Confirmations!Authority]
      BY DEF Confirmations!TypeOK
    <3>5. ASSUME ex[b].confirm # None PROVE Confirmations!Granted(ex[b].confirm)'
      <4>. PICK c : c = ex[b].confirm
        OBVIOUS
      <4>1. /\ c \in Attempts /\ confirmation[c].approved
            /\ confirmation' = [confirmation EXCEPT ![c].phase = "consumed"]
        BY <1>2, <3>1, <3>5 DEF Confirmations!Consume
      <4>2. confirmation'[c] = [phase |-> "consumed", approved |-> TRUE]
        BY <3>4, <4>1 DEF Confirmations!Authority
      <4>. QED  BY <3>1, <4>2 DEF Confirmations!Granted
    <3>. QED  BY <3>1, <3>2, <3>3, <3>5 DEF Consented
  <2>6. CASE ConsumeConfirmation(b) /\ pc'[b] # "audit"
    BY <1>4, <2>6 DEF ConsumeConfirmation, Confirmed, Owning
  <2>7. CASE Reserve(b)
    BY <1>4, <2>7 DEF Reserve, Confirmed, Owning
  <2>8. CASE \/ Replay(b) \/ AuditPolicyDeny(b) \/ RejectConfirmation(b)
             \/ RejectApproval(b) \/ AuditConfirmationDenied(b) \/ AuditApprovalDenied(b)
    BY <1>4, <2>8 DEF Replay, AuditPolicyDeny, RejectConfirmation, RejectApproval,
       WriteRejected, AuditConfirmationDenied, AuditApprovalDenied, AuditDenied, Confirmed,
       Owning, Reviewing
  <2>9. CASE RereadApproval(b) \/ RequestApproval(b) \/ AdmitApproved(b) \/ VerifyApproval(b)
    BY <1>4, <2>9 DEF RereadApproval, ReadBack, RequestApproval, AdmitApproved,
       VerifyApproval, Confirmed, Owning, Reviewing
  <2>10. CASE \/ AuditAllow(b) \/ ReadReserved(b) \/ LinkReceipt(b) \/ EffectCheck(b)
              \/ LastAdmit(b) \/ Send(b)
    BY <1>4, <2>10 DEF AuditAllow, ReadReserved, ReadOwn, LinkReceipt, EffectCheck,
       LastAdmit, Send, Confirmed, Owning
  <2>11. CASE \/ ReceiveReply(b) \/ ReadLinked(b) \/ Complete(b) \/ Deliver(b) \/ Fail(b)
    BY <1>4, <2>11 DEF ReceiveReply, ReadLinked, ReadOwn, Complete, Deliver, Fail,
       Confirmed, Owning, Reviewing
  <2>. QED
    BY <1>7, <2>1, <2>2, <2>3, <2>4, <2>5, <2>6, <2>7, <2>8, <2>9, <2>10, <2>11 DEF Attempt
<1>8. ASSUME pc'[b] = pc[b], ex'[b] = ex[b], seen'[b] = seen[b], b \in sent' <=> b \in sent
      PROVE  Consented(b)'
  BY <1>4, <1>8
<1>. QED  BY <1>7, <1>8, OthersStay, AttemptsStay DEF Next

(* A reviewer grant is for the attempt's own arguments and facts, and by the  *)
(* time the operation is reserved it is spent and approves.                  *)
LEMMA ReviewStep ==
  CoreInv /\ StoredInv /\ KeptInv /\ ReviewInv /\ [Next]_vars => ReviewInv'
<1>. SUFFICES ASSUME CoreInv, StoredInv, KeptInv, ReviewInv, [Next]_vars, NEW b \in Attempts
              PROVE  Reviewed(b)'
  BY DEF ReviewInv
<1>. USE DEF CoreInv, TypeOK
<1>1. ASSUME NEW n \in Attempts
      PROVE  /\ Approvals!Granted(n) => Approvals!Granted(n)'
             /\ \A input, s : Minted(n, input, s) => Minted(n, input, s)'
  BY <1>1, AuthoritiesStay, MintedStays
<1>2. ASSUME grant'[b] = grant[b], grant[b] # None, seen'[b] = seen[b]
      PROVE  /\ grant'[b] \in Attempts /\ Input[grant'[b]] = Input[b]
             /\ Deferred => Minted(grant[b], Input[b], seen[b])'
             /\ Approvals!Granted(grant[b]) => Approvals!Granted(grant[b])'
  <2>. PICK n, s : n = grant[b] /\ s = seen[b]
    OBVIOUS
  <2>1. n \in Attempts /\ Input[n] = Input[b] /\ (Deferred => Minted(n, Input[b], s))
    BY <1>2 DEF ReviewInv, Reviewed
  <2>2. Deferred => Minted(n, Input[b], s)'
    BY <1>1, <2>1
  <2>3. Approvals!Granted(n) => Approvals!Granted(n)'
    BY <1>1, <2>1
  <2>. QED  BY <1>2, <2>1, <2>2, <2>3 DEF Minted, Approvals!Granted
<1>3. ASSUME ex'[b] = ex[b], seen'[b] = seen[b], grant'[b] = grant[b],
             pc'[b] \in {"approval_admit", "verify"} => pc[b] \in {"approval_admit", "verify"},
             pc'[b] \in {"reserve"} \cup Owning \/ b \in sent' =>
               pc[b] \in {"reserve"} \cup Owning \/ b \in sent \/ ~Review(b)
      PROVE  Reviewed(b)'
  <2>1. Review(b)' <=> Review(b)
    BY <1>3 DEF Review, review_required
  <2>2. CASE grant[b] = None
    BY <1>3, <2>1, <2>2 DEF ReviewInv, Reviewed
  <2>3. CASE grant[b] # None
    BY <1>2, <1>3, <2>1, <2>3 DEF ReviewInv, Reviewed, Deferred
  <2>. QED  BY <2>2, <2>3
<1>4. pc[b] \notin {"reply", "done_read", "done_write", "done"} => b \notin sent
  BY DEF PostInv
<1>5. pc[b] \in {"read", "admit", "evaluate"} => grant[b] = None
  BY DEF KeptInv, Keeping
<1>6. ASSUME Attempt(b) \/ Deliver(b) \/ Fail(b)
      PROVE  Reviewed(b)'
  <2>. USE DEF At, Go, Finish, Respond
  <2>1. CASE Read(b)
    BY <1>4, <1>5, <2>1 DEF Read, Reviewed, Owning
  <2>2. CASE Evaluate(b)
    <3>1. grant'[b] = None /\ ex'[b] = ex[b] /\ seen'[b] = safe /\ b \notin sent'
      BY <1>4, <1>5, <2>2 DEF Evaluate
    <3>2. pc'[b] \notin Owning \cup {"approval_admit", "verify"}
      BY <2>2 DEF Evaluate, AfterPolicy, AfterConfirmation, Owning
    <3>3. pc'[b] = "reserve" => ~review_required(ex[b], safe)
      BY <2>2 DEF Evaluate, AfterPolicy, AfterConfirmation
    <3>. QED  BY <3>1, <3>2, <3>3 DEF Reviewed, Review
  <2>3. CASE ResolveConfirmation(b)
    <3>1. pc'[b] \notin Owning \cup {"approval_admit", "verify"}
      BY <2>3 DEF ResolveConfirmation, AfterConfirmation, Owning
    <3>2. pc'[b] = "reserve" => ~Review(b)
      BY <2>3 DEF ResolveConfirmation, AfterConfirmation, Review
    <3>. QED  BY <1>3, <1>4, <2>3, <3>1, <3>2 DEF ResolveConfirmation
  <2>4. CASE CreateConfirmation(b) \/ StoreApproval(b)
    <3>1. /\ seen'[b] = seen[b] /\ grant'[b] = grant[b] /\ b \notin sent'
          /\ pc'[b] \notin Owning \cup {"approval_admit", "verify", "reserve"}
      BY <1>4, <2>4 DEF CreateConfirmation, StoreApproval, WriteWaiting, Owning
    <3>. QED  BY <1>2, <3>1 DEF Reviewed, Deferred
  <2>5. CASE RequestApproval(b) /\ pc'[b] # "approval_admit"
    <3>1. pc'[b] \notin Owning \cup {"approval_admit", "verify", "reserve"} \/ pc'[b] = pc[b]
      BY <2>5 DEF RequestApproval, Owning
    <3>. QED  BY <1>3, <1>4, <2>5, <3>1 DEF RequestApproval
  <2>6. CASE RequestApproval(b) /\ pc'[b] = "approval_admit"
    <3>1. /\ pc[b] = "approval_request" /\ pc'[b] = "approval_admit" /\ ApprovalBound(b)
          /\ grant'[b] = nonce(b) /\ seen'[b] = seen[b] /\ b \notin sent'
      BY <1>4, <2>6 DEF RequestApproval
    <3>2. CASE ~Deferred
      BY <3>1, <3>2, ConstantsAssumption DEF Reviewed, nonce, Owning, Deferred
    <3>3. CASE Deferred
      <4>1. ex[b].state = "awaiting_approval"
        BY <3>1, <3>3 DEF StoredInv, Stored, Reviewing
      <4>2. /\ ex[b].nonce # None /\ ex[b].safe = seen[b] /\ ex[b].input = Input[b]
            /\ Minted(ex[b].nonce, ex[b].input, ex[b].safe)
        BY <3>1, <3>3, <4>1 DEF KeptInv, Keeping, Kept, ApprovalBound
      <4>. PICK n, s : n = ex[b].nonce /\ s = seen[b]
        OBVIOUS
      <4>3. n \in Attempts /\ Input[n] = Input[b]
        BY <4>2 DEF Minted
      <4>4. Minted(n, Input[b], s)'
        BY <1>1, <4>2, <4>3
      <4>5. grant'[b] = n /\ seen'[b] = s
        BY <3>1, <3>3 DEF nonce
      <4>. QED
        BY <3>1, <4>2, <4>3, <4>4, <4>5 DEF Reviewed, Owning, Minted
    <3>. QED  BY <3>2, <3>3
  <2>7. CASE VerifyApproval(b) /\ pc'[b] = "reserve"
    <3>1. /\ ex'[b] = ex[b] /\ seen'[b] = seen[b] /\ grant'[b] = grant[b] /\ pc[b] = "verify"
          /\ Approvals!Consume(grant[b]) /\ approval[grant[b]].approved
      BY <2>7 DEF VerifyApproval
    <3>2. grant[b] # None /\ grant[b] \in Attempts
      BY <3>1 DEF ReviewInv, Reviewed
    <3>3. Approvals!Granted(grant[b])'
      <4>. PICK n : n = grant[b]
        OBVIOUS
      <4>1. /\ n \in Attempts /\ approval[n].approved
            /\ approval' = [approval EXCEPT ![n].phase = "consumed"]
            /\ approval \in [Attempts -> Approvals!Authority]
        BY <3>1, <3>2 DEF Approvals!Consume, Approvals!TypeOK
      <4>2. approval'[n] = [phase |-> "consumed", approved |-> TRUE]
        BY <4>1 DEF Approvals!Authority
      <4>. QED  BY <3>1, <4>2 DEF Approvals!Granted
    <3>. QED  BY <1>2, <3>1, <3>2, <3>3 DEF Reviewed, Deferred
  <2>8. CASE VerifyApproval(b) /\ pc'[b] # "reserve"
    BY <1>3, <2>8 DEF VerifyApproval, Owning
  <2>9. CASE Replay(b) \/ Admit(b) \/ AuditPolicyDeny(b) \/ RejectConfirmation(b) \/ RejectApproval(b)
    BY <1>3, <2>9 DEF Replay, Admit, AuditPolicyDeny, RejectConfirmation, RejectApproval,
       WriteRejected, Owning
  <2>10. CASE \/ AuditConfirmationDenied(b) \/ AuditApprovalDenied(b) \/ AdmitApproved(b)
              \/ RereadConfirmation(b) \/ RereadApproval(b)
    BY <1>3, <2>10 DEF AuditConfirmationDenied, AuditApprovalDenied, AuditDenied,
       AdmitApproved, RereadConfirmation, RereadApproval, ReadBack, Owning
  <2>11. CASE \/ Reserve(b) \/ ConsumeConfirmation(b) \/ AuditAllow(b) \/ ReadReserved(b)
              \/ LinkReceipt(b) \/ EffectCheck(b) \/ LastAdmit(b) \/ Send(b)
    BY <1>3, <2>11 DEF Reserve, ConsumeConfirmation, AuditAllow, ReadReserved, ReadOwn,
       LinkReceipt, EffectCheck, LastAdmit, Send, Owning
  <2>12. CASE \/ ReceiveReply(b) \/ ReadLinked(b) \/ Complete(b) \/ Deliver(b) \/ Fail(b)
    BY <1>3, <2>12 DEF ReceiveReply, ReadLinked, ReadOwn, Complete, Deliver, Fail, Owning
  <2>. QED
    BY <1>6, <2>1, <2>2, <2>3, <2>4, <2>5, <2>6, <2>7, <2>8, <2>9, <2>10, <2>11, <2>12
    DEF Attempt
<1>7. ASSUME pc'[b] = pc[b], ex'[b] = ex[b], seen'[b] = seen[b], grant'[b] = grant[b],
             b \in sent' <=> b \in sent
      PROVE  Reviewed(b)'
  BY <1>3, <1>7
<1>. QED  BY <1>6, <1>7, OthersStay, AttemptsStay DEF Next

-----------------------------------------------------------------------------
(* The dispatcher uses the two stores of human authorities through their     *)
(* atomic calls only, for identifiers that attempts minted.                  *)
ApprovalUse     == INSTANCE OneUse_proofs WITH Ids <- Attempts, use <- approval
ConfirmationUse == INSTANCE OneUse_proofs WITH Ids <- Attempts, use <- confirmation

HumanInv == StoredInv /\ KeptInv /\ ConsentInv /\ ReviewInv /\ CarriedInv

LEMMA AuthoritySteps ==
  ASSUME CoreInv, HumanInv, [Next]_vars
  PROVE  [Approvals!Next]_approval /\ [Confirmations!Next]_confirmation
<1>. USE DEF HumanInv
<1>1. CASE Environment
  BY <1>1, HumansDecide DEF Approvals!Next, Confirmations!Next
<1>2. ASSUME NEW a \in Attempts, Attempt(a) \/ Deliver(a) \/ Fail(a)
      PROVE  [Approvals!Next]_approval /\ [Confirmations!Next]_confirmation
  <2>1. CASE UNCHANGED <<approval, confirmation>>
    BY <2>1
  <2>2. CASE /\ Approvals!Request(nonce(a)) /\ UNCHANGED confirmation
             /\ RequestApproval(a)
    <3>1. nonce(a) \in Attempts
      <4>1. Deferred => ex[a].state = "awaiting_approval"
        BY <2>2 DEF RequestApproval, At, StoredInv, Stored, Reviewing
      <4>. QED  BY <4>1 DEF nonce, KeptInv, Keeping, Kept, Minted
    <3>. QED  BY <2>2, <3>1 DEF Approvals!Next
  <2>3. CASE /\ Approvals!Consume(grant[a]) /\ UNCHANGED confirmation
             /\ VerifyApproval(a)
    <3>1. grant[a] \in Attempts
      BY <2>3 DEF VerifyApproval, At, ReviewInv, Reviewed
    <3>. QED  BY <2>3, <3>1 DEF Approvals!Next
  <2>4. CASE /\ Confirmations!Request(ex[a].confirm) /\ UNCHANGED approval
             /\ ex[a].confirm # None /\ ResolveConfirmation(a)
    <3>1. ex[a].confirm \in Attempts
      BY <2>4 DEF KeptInv, Keeping, Kept, Minted
    <3>. QED  BY <2>4, <3>1 DEF Confirmations!Next
  <2>5. CASE /\ Confirmations!Consume(ex[a].confirm) /\ UNCHANGED approval
             /\ ConsumeConfirmation(a)
    <3>1. pc[a] = "confirm_consume" /\ Confirm(a)
      BY <2>5 DEF ConsumeConfirmation, At, CarriedInv, Carried
    <3>2. ex[a].confirm # None
      BY <3>1 DEF ConsentInv, Consented, Confirmed, Owning
    <3>3. ex[a].confirm \in Attempts
      BY <3>2 DEF KeptInv, Keeping, Kept, Minted
    <3>. QED  BY <2>5, <3>3 DEF Confirmations!Next
  <2>. QED  BY <1>2, <2>1, <2>2, <2>3, <2>4, <2>5, AttemptCalls
<1>. QED  BY <1>1, <1>2, OperatorsSpendNothing DEF Next, vars

(* So neither store takes back what an earlier call achieved.                *)
LEMMA HumansStay ==
  ASSUME CoreInv, HumanInv, [Next]_vars, NEW n \in Attempts
  PROVE  Approvals!Stays(n) /\ Confirmations!Stays(n)
<1>. USE AuthoritySteps DEF CoreInv, TypeOK
<1>1. Approvals!Stays(n)
  <2>1. [ApprovalUse!Next]_approval
    BY DEF Approvals!Next, Approvals!Request, Approvals!Decide, Approvals!Consume,
       ApprovalUse!Next, ApprovalUse!Request, ApprovalUse!Decide, ApprovalUse!Consume
  <2>2. ApprovalUse!TypeOK
    BY DEF Approvals!TypeOK, Approvals!Authority, Approvals!Phases,
       ApprovalUse!TypeOK, ApprovalUse!Authority, ApprovalUse!Phases
  <2>. QED  BY <2>1, <2>2, ApprovalUse!UseStays DEF ApprovalUse!Stays, Approvals!Stays
<1>2. Confirmations!Stays(n)
  <2>1. [ConfirmationUse!Next]_confirmation
    BY DEF Confirmations!Next, Confirmations!Request, Confirmations!Decide,
       Confirmations!Consume, ConfirmationUse!Next, ConfirmationUse!Request,
       ConfirmationUse!Decide, ConfirmationUse!Consume
  <2>2. ConfirmationUse!TypeOK
    BY DEF Confirmations!TypeOK, Confirmations!Authority, Confirmations!Phases,
       ConfirmationUse!TypeOK, ConfirmationUse!Authority, ConfirmationUse!Phases
  <2>. QED
    BY <2>1, <2>2, ConfirmationUse!UseStays DEF ConfirmationUse!Stays, Confirmations!Stays
<1>. QED  BY <1>1, <1>2

(* A record that waits for the reviewer was put there by StoreApproval.      *)
LEMMA AwaitsApproval ==
  ASSUME CoreInv, [Next]_vars, ledger'.state = "awaiting_approval", ledger' # ledger
  PROVE  \E a \in Attempts : StoreApproval(a) /\ Current(a)
<1>. USE DEF CoreInv, TypeOK
<1>1. CASE Environment \/ UNCHANGED vars
  BY <1>1
  DEF Environment, DecideApproval, DecideConfirmation, Lapse, LeaseLapses, FactsChange, Env,
      vars
<1>2. ASSUME NEW o \in Operators, Reconcile(o) \/ Admission(o) \/ OpFail(o)
      PROVE  FALSE
  <2>1. CASE RecoverWrite(o) /\ version = opEtag[o]
    <3>1. ledger'.state \in {"completed", "not_executed"}
      BY <2>1 DEF RecoverWrite, OpReturn, OpAt, Write, OperatorInv, Record
    <3>. QED  BY <3>1
  <2>. QED
    BY <1>2, <2>1 DEF Reconcile, ReconcileRead, Recover, RecoverAudit, RecoverWrite,
       Admission, AdmissionRead, AdmissionAudit, OpenWrite, StopWrite, OpFail
<1>3. ASSUME NEW a \in Attempts, Attempt(a) \/ Deliver(a) \/ Fail(a),
             ~(StoreApproval(a) /\ Current(a))
      PROVE  FALSE
  <2>. USE DEF Write, At
  <2>1. CASE CreateConfirmation(a)
    BY <2>1 DEF CreateConfirmation, WriteWaiting, awaiting_confirmation, Missing
  <2>2. CASE StoreApproval(a)
    BY <1>3, <2>2 DEF StoreApproval, WriteWaiting
  <2>3. CASE RejectConfirmation(a) \/ RejectApproval(a)
    BY <2>3 DEF RejectConfirmation, RejectApproval, WriteRejected, Record
  <2>4. CASE Reserve(a) \/ LinkReceipt(a)
    BY <2>4 DEF Reserve, LinkReceipt, pending, linked, Missing
  <2>5. CASE Complete(a)
    BY <2>5, RecordTypes DEF Complete, Record
  <2>. QED
    BY <1>3, <2>1, <2>2, <2>3, <2>4, <2>5
    DEF Attempt, Read, Replay, Admit, Evaluate, AuditPolicyDeny, RereadConfirmation,
        ReadBack, ResolveConfirmation, AuditConfirmationDenied, AuditDenied, RereadApproval,
        RequestApproval, AdmitApproved, VerifyApproval, AuditApprovalDenied,
        ConsumeConfirmation, AuditAllow, ReadReserved, ReadOwn, EffectCheck, LastAdmit,
        Send, ReceiveReply, ReadLinked, Deliver, Fail
<1>. QED  BY <1>1, <1>2, <1>3 DEF Next

LEMMA CarriedStep ==
  ASSUME CoreInv, HumanInv, [Next]_vars
  PROVE  CarriedInv'
<1>. USE DEF CoreInv, TypeOK, HumanInv
<1>1. ASSUME NEW c \in Attempts
      PROVE  (Approved(c) => Approved(c)') /\ (Declined(c) => Declined(c)')
  <2>1. confirmation \in [Attempts -> Confirmations!Authority]
    BY DEF Confirmations!TypeOK
  <2>2. Confirmations!Stays(c)
    BY HumansStay
  <2>. QED  BY <2>1, <2>2 DEF Confirmations!Stays, Confirmations!Authority, Approved, Declined
<1>2. ASSUME NEW r, Kept(r), Sanctioned(r) PROVE Sanctioned(r)'
  BY <1>1, <1>2 DEF Kept, Minted, Sanctioned
<1>3. ASSUME NEW a \in Attempts, StoreApproval(a), Current(a), NEW r, r = awaiting_approval(a)
      PROVE  Sanctioned(r)'
  <2>. PICK c : c = ex[a].confirm
    OBVIOUS
  <2>1. pc[a] = "approval_write" /\ UNCHANGED confirmation
    BY <1>3 DEF StoreApproval, WriteWaiting, At
  <2>2. Deferred /\ (c # None => Approved(c)) /\ r.confirm = c
    BY <1>3, <2>1 DEF CarriedInv, Carried, awaiting_approval, Record
  <2>. QED  BY <2>1, <2>2 DEF Sanctioned, Approved
<1>4. Sanctioned(ledger)'
  <2>1. CASE UNCHANGED ledger
    <3>. PICK r : r = ledger
      OBVIOUS
    <3>1. Sanctioned(r)'
      BY <1>2 DEF KeptInv, CarriedInv
    <3>. QED  BY <2>1, <3>1 DEF Sanctioned, Approved
  <2>2. CASE ledger'.state # "awaiting_approval"
    BY <2>2 DEF Sanctioned
  <2>3. ASSUME NEW a \in Attempts, StoreApproval(a), Current(a)
        PROVE  Sanctioned(ledger)'
    <3>. PICK r : r = awaiting_approval(a)
      OBVIOUS
    <3>1. Sanctioned(r)'
      BY <1>3, <2>3
    <3>2. ledger' = r
      BY <2>3 DEF StoreApproval, WriteWaiting, Write
    <3>. QED  BY <3>1, <3>2 DEF Sanctioned, Approved
  <2>. QED  BY <2>1, <2>2, <2>3, AwaitsApproval
<1>. SUFFICES ASSUME NEW b \in Attempts PROVE Carried(b)'
  BY <1>4 DEF CarriedInv
<1>5. ASSUME ex'[b] = ex[b]
      PROVE  /\ Sanctioned(ex[b])'
             /\ ex[b].confirm # None => (Approved(ex[b].confirm) => Approved(ex[b].confirm)')
             /\ ex[b].confirm # None => (Declined(ex[b].confirm) => Declined(ex[b].confirm)')
  <2>. PICK r, c : r = ex[b] /\ c = ex[b].confirm
    OBVIOUS
  <2>1. Kept(r) /\ Sanctioned(r)
    BY DEF KeptInv, Keeping, CarriedInv, Carried
  <2>2. Sanctioned(r)' /\ (c # None => c \in Attempts)
    BY <1>2, <2>1 DEF Kept, Minted
  <2>3. c # None => (Approved(c) => Approved(c)') /\ (Declined(c) => Declined(c)')
    BY <1>1, <2>2
  <2>. QED  BY <1>5, <2>2, <2>3 DEF Sanctioned, Approved, Declined
<1>6. ASSUME ex'[b] = ex[b], seen'[b] = seen[b], grant'[b] = grant[b],
             pc'[b] = pc[b] \/ pc'[b] \in {"done", "audit", "approval_request"} \cup Linking
               \cup {"link_read", "link_write"},
             pc'[b] = "approval_request" => grant[b] = None
      PROVE  Carried(b)'
  <2>1. (Review(b)' <=> Review(b)) /\ (Confirm(b)' <=> Confirm(b)) /\ (Deferred' <=> Deferred)
    BY <1>6 DEF Review, review_required, Confirm, confirmation_active, Deferred
  <2>2. Carried(b)
    BY DEF CarriedInv
  <2>. QED  BY <1>5, <1>6, <2>1, <2>2 DEF Carried, Owning, Linking, Carrying
<1>7. ASSUME pc'[b] = pc[b], ex'[b] = ex[b], seen'[b] = seen[b], grant'[b] = grant[b]
      PROVE  Carried(b)'
  <2>1. pc[b] = "approval_request" => grant[b] = None
    BY DEF CarriedInv, Carried, Carrying, Owning
  <2>. QED  BY <1>6, <1>7, <2>1
<1>8. ASSUME Attempt(b) \/ Deliver(b) \/ Fail(b)
      PROVE  Carried(b)'
  <2>. USE DEF At, Go, Finish, Respond
  <2>0. Carried(b) /\ Keeping(b)
    BY DEF CarriedInv, KeptInv
  <2>1. CASE Read(b)
    <3>. PICK r : r = ledger
      OBVIOUS
    <3>1. Sanctioned(r)'
      BY <1>2 DEF KeptInv, CarriedInv
    <3>2. ex'[b] = r /\ grant'[b] = None /\ pc'[b] \in {"admit", "replay", "done"}
      BY <2>0, <2>1 DEF Read, Keeping
    <3>3. Sanctioned(ex[b])'
      BY <3>1, <3>2 DEF Sanctioned, Approved
    <3>. QED  BY <3>2, <3>3 DEF Carried
  <2>2. CASE Evaluate(b)
    <3>1. ex'[b] = ex[b] /\ seen'[b] = safe /\ grant'[b] = None /\ UNCHANGED confirmation
      BY <2>0, <2>2 DEF Evaluate, Keeping
    <3>2. /\ pc'[b] \in {"deny", "done", "confirm_write", "confirm_request", "reserve",
                         "approval_write", "approval_request"}
          /\ pc'[b] = "confirm_write" => ex[b].state = "missing"
          /\ pc'[b] = "reserve" => ~review_required(ex[b], safe)
          /\ pc'[b] = "approval_write" => /\ Deferred /\ ex[b].state # "awaiting_approval"
                                          /\ ~confirmation_active(ex[b], safe)
      BY <2>2 DEF Evaluate, AfterPolicy, AfterConfirmation
    <3>3. ex[b].confirm # None => confirmation_active(ex[b], safe)
      BY <2>0 DEF Keeping, Kept, confirmation_active
    <3>. QED  BY <1>5, <3>1, <3>2, <3>3 DEF Carried, Review, Deferred
  <2>3. CASE ResolveConfirmation(b)
    <3>1. /\ ex'[b] = ex[b] /\ seen'[b] = seen[b] /\ grant'[b] = grant[b]
          /\ grant[b] = None
      BY <2>0, <2>3 DEF ResolveConfirmation, Carried, Carrying, Owning
    <3>2. CASE pc'[b] = "done"
      BY <1>5, <3>1, <3>2 DEF Carried
    <3>3. CASE pc'[b] # "done"
      <4>1. /\ ex[b].confirm # None /\ confirmation[ex[b].confirm].phase = "decided"
            /\ UNCHANGED confirmation
            /\ pc'[b] = IF confirmation[ex[b].confirm].approved
                        THEN AfterConfirmation(ex[b], seen[b]) ELSE "confirm_deny"
        BY <2>3, <3>3 DEF ResolveConfirmation, Confirmations!Request
      <4>2. confirmation[ex[b].confirm].approved <=> Approved(ex[b].confirm)
        BY <4>1 DEF Approved
      <4>3. /\ pc'[b] \in {"confirm_deny", "reserve", "approval_write", "approval_request"}
            /\ pc'[b] = "confirm_deny" => Declined(ex[b].confirm)
            /\ pc'[b] = "reserve" => ~Review(b)
            /\ pc'[b] = "approval_write" => /\ Deferred /\ ex[b].state # "awaiting_approval"
                                            /\ Approved(ex[b].confirm)
        BY <4>1 DEF AfterConfirmation, Review, Approved, Declined
      <4>. QED  BY <1>5, <3>1, <4>1, <4>3 DEF Carried, Review, Deferred
    <3>. QED  BY <3>2, <3>3
  <2>4. CASE CreateConfirmation(b) \/ StoreApproval(b)
    <3>1. /\ grant'[b] = None /\ seen'[b] = seen[b] /\ UNCHANGED confirmation
          /\ pc'[b] \in {"confirm_read", "approval_read", "done"}
      BY <2>0, <2>4
      DEF CreateConfirmation, StoreApproval, WriteWaiting, Carried, Carrying, Owning
    <3>2. Sanctioned(ex[b])'
      <4>1. CASE ex'[b] = ex[b]
        BY <1>5, <4>1
      <4>2. CASE CreateConfirmation(b) /\ ex'[b] = awaiting_confirmation(b)
        BY <4>2 DEF Sanctioned, awaiting_confirmation, Missing
      <4>3. CASE StoreApproval(b) /\ Current(b) /\ ex'[b] = awaiting_approval(b)
        <5>. PICK r : r = awaiting_approval(b)
          OBVIOUS
        <5>1. Sanctioned(r)' /\ ex'[b] = r
          BY <1>3, <4>3
        <5>. QED  BY <5>1 DEF Sanctioned, Approved
      <4>. QED
        BY <2>4, <4>1, <4>2, <4>3 DEF CreateConfirmation, StoreApproval, WriteWaiting
    <3>. QED  BY <3>1, <3>2 DEF Carried
  <2>5. CASE RequestApproval(b)
    <3>1. /\ ex'[b] = ex[b] /\ seen'[b] = seen[b] /\ grant[b] = None
          /\ \/ pc'[b] \in {"done", "approval_request"} /\ grant'[b] = grant[b]
             \/ pc'[b] = "approval_admit" /\ grant'[b] = nonce(b)
      BY <2>0, <2>5 DEF RequestApproval, Carried, Carrying, Owning
    <3>. QED  BY <1>5, <3>1 DEF Carried, nonce, Deferred, Carrying, Owning
  <2>6. ASSUME ex'[b] = ex[b], seen'[b] = seen[b], grant'[b] = grant[b],
               \/ pc[b] = "approval_admit" /\ pc'[b] = "verify"
               \/ pc[b] = "verify" /\ pc'[b] \in {"reserve", "approval_deny"}
               \/ pc[b] = "approval_deny" /\ pc'[b] = "approval_reject"
               \/ pc[b] = "confirm_deny" /\ pc'[b] = "confirm_reject"
               \/ pc[b] = "reserve" /\ pc'[b] = "confirm_consume" /\ Confirm(b)
               \/ pc[b] = "admit" /\ pc'[b] = "evaluate"
               \/ pc[b] = "confirm_read" /\ pc'[b] = "confirm_request"
        PROVE  Carried(b)'
    <3>1. /\ Review(b)' <=> Review(b)
          /\ Confirm(b)' <=> Confirm(b)
          /\ Deferred' <=> Deferred
      BY <2>6 DEF Review, review_required, Confirm, confirmation_active, Deferred
    <3>. QED  BY <1>5, <2>0, <2>6, <3>1 DEF Carried, Carrying, Owning
  <2>7. CASE Admit(b) \/ AdmitApproved(b) \/ VerifyApproval(b) \/ Reserve(b)
    BY <1>6, <2>6, <2>7 DEF Admit, AdmitApproved, VerifyApproval, Reserve
  <2>8. CASE RereadConfirmation(b) \/ RereadApproval(b)
    <3>1. pc[b] = "approval_read" => grant[b] = None
      BY <2>0 DEF Carried, Carrying, Owning
    <3>. QED
      BY <1>6, <2>6, <2>8, <3>1 DEF RereadConfirmation, RereadApproval, ReadBack
  <2>9. CASE AuditConfirmationDenied(b) \/ AuditApprovalDenied(b)
    BY <1>6, <2>6, <2>9 DEF AuditConfirmationDenied, AuditApprovalDenied, AuditDenied
  <2>10. CASE \/ Replay(b) \/ AuditPolicyDeny(b) \/ RejectConfirmation(b) \/ RejectApproval(b)
              \/ ConsumeConfirmation(b) \/ AuditAllow(b)
    BY <1>6, <2>10 DEF Replay, AuditPolicyDeny, RejectConfirmation, RejectApproval,
       WriteRejected, ConsumeConfirmation, AuditAllow
  <2>11. CASE \/ ReadReserved(b) \/ LinkReceipt(b) \/ EffectCheck(b) \/ LastAdmit(b)
              \/ Send(b) \/ ReceiveReply(b) \/ ReadLinked(b) \/ Complete(b) \/ Fail(b)
    BY <1>6, <2>11 DEF ReadReserved, LinkReceipt, EffectCheck, LastAdmit, Send, ReceiveReply,
       ReadLinked, ReadOwn, Complete, Fail, Linking
  <2>12. CASE Deliver(b)
    BY <1>7, <2>12 DEF Deliver
  <2>. QED
    BY <1>8, <2>1, <2>2, <2>3, <2>4, <2>5, <2>7, <2>8, <2>9, <2>10, <2>11, <2>12 DEF Attempt
<1>. QED  BY <1>7, <1>8, OthersStay, AttemptsStay DEF Next

(* Only the delivery of a POST makes the effect run, and POSTs stay made.    *)
LEMMA SentGrows == CoreInv /\ [Next]_vars => sent \subseteq sent'
<1>. SUFFICES ASSUME CoreInv, [Next]_vars, NEW b \in sent PROVE b \in sent'
  OBVIOUS
<1>1. b \in Attempts
  BY DEF CoreInv, TypeOK
<1>2. CASE Attempt(b) \/ Deliver(b) \/ Fail(b)
  BY <1>2 DEF Attempt, Read, Replay, Admit, Evaluate, AuditPolicyDeny, CreateConfirmation,
     RereadConfirmation, StoreApproval, RereadApproval, RejectConfirmation,
     RejectApproval, WriteWaiting, ReadBack, WriteRejected, ResolveConfirmation,
     AuditConfirmationDenied, AuditApprovalDenied, AuditDenied, RequestApproval,
     AdmitApproved, VerifyApproval, Reserve, ConsumeConfirmation, AuditAllow, ReadReserved,
     ReadOwn, LinkReceipt, EffectCheck, LastAdmit, Send, ReceiveReply, ReadLinked, Complete,
     Deliver, Fail
<1>. QED  BY <1>1, <1>2, OthersStay, AttemptsStay DEF CoreInv, Next

LEMMA PostedStep ==
  ASSUME CoreInv, PostedInv, [Next]_vars
  PROVE  PostedInv'
<1>. USE DEF CoreInv, TypeOK
<1>1. sent \subseteq sent'
  BY SentGrows
<1>2. CASE UNCHANGED backend
  BY <1>1, <1>2 DEF PostedInv
<1>3. ASSUME NEW a \in Attempts, Deliver(a) PROVE PostedInv'
  BY <1>1, <1>3 DEF Deliver, PostedInv, PostInv
<1>4. ASSUME NEW o \in Operators, Recover(o) PROVE PostedInv'
  BY <1>1, <1>4 DEF Recover, PostedInv
<1>5. \/ UNCHANGED backend \/ \E a \in Attempts : Deliver(a)
      \/ \E o \in Operators : Recover(o)
  BY EffectMakers
<1>. QED  BY <1>2, <1>3, <1>4, <1>5

(* What the check at the effect found stays what the attempt decided on.     *)
LEMMA FoundStep == CoreInv /\ FoundInv /\ [Next]_vars => FoundInv'
<1>. SUFFICES ASSUME CoreInv, FoundInv, [Next]_vars, NEW b \in Attempts PROVE Refound(b)'
  BY DEF FoundInv
<1>. USE DEF CoreInv, TypeOK, Rechecked, Review, review_required, Deferred
<1>0. Refound(b) /\ (b \in sent => pc[b] \in {"reply", "done_read", "done_write", "done"})
  BY DEF FoundInv, PostInv
<1>1. CASE /\ UNCHANGED <<ex[b], seen[b], found[b]>> /\ (b \in sent' => b \in sent)
           /\ pc'[b] \in {"last_admit", "send"} => pc[b] \in {"last_admit", "send"}
  BY <1>0, <1>1 DEF Refound
<1>2. ASSUME Attempt(b) \/ Deliver(b) \/ Fail(b) PROVE Refound(b)'
  <2>. USE DEF At, Go, Finish, Respond
  <2>1. CASE Read(b) \/ Evaluate(b)
    <3>1. pc[b] \in {"read", "evaluate"} /\ UNCHANGED sent /\ pc'[b] \notin {"last_admit", "send"}
      BY <2>1 DEF Read, Evaluate, AfterPolicy, AfterConfirmation
    <3>. QED  BY <1>0, <3>1 DEF Refound
  <2>2. CASE CreateConfirmation(b) \/ StoreApproval(b)
    <3>1. /\ pc[b] \in {"confirm_write", "approval_write"} /\ UNCHANGED sent
          /\ pc'[b] \notin {"last_admit", "send"}
      BY <2>2 DEF CreateConfirmation, StoreApproval, WriteWaiting
    <3>. QED  BY <1>0, <3>1 DEF Refound
  <2>3. CASE Replay(b) \/ Admit(b) \/ AuditPolicyDeny(b) \/ RereadConfirmation(b) \/ RereadApproval(b)
             \/ RejectConfirmation(b) \/ RejectApproval(b)
    BY <1>1, <2>3 DEF Replay, Admit, AuditPolicyDeny, RereadConfirmation, RereadApproval, ReadBack,
       RejectConfirmation, RejectApproval, WriteRejected
  <2>4. CASE ResolveConfirmation(b) \/ AuditConfirmationDenied(b) \/ RequestApproval(b)
             \/ AdmitApproved(b) \/ VerifyApproval(b) \/ AuditApprovalDenied(b)
    BY <1>1, <2>4 DEF ResolveConfirmation, AfterConfirmation, AuditConfirmationDenied, RequestApproval,
       AdmitApproved, VerifyApproval, AuditApprovalDenied, AuditDenied
  <2>5. CASE Reserve(b) \/ ConsumeConfirmation(b) \/ AuditAllow(b) \/ ReadReserved(b)
             \/ LinkReceipt(b) \/ LastAdmit(b)
    BY <1>1, <2>5 DEF Reserve, ConsumeConfirmation, AuditAllow, ReadReserved, ReadOwn, LinkReceipt,
       LastAdmit
  <2>6. CASE EffectCheck(b)
    <3>1. pc[b] = "check" /\ found'[b] = safe /\ UNCHANGED <<ex, seen, sent>>
      BY <2>6 DEF EffectCheck
    <3>2. pc'[b] \in {"last_admit", "send"} => FactsHold(b)
      BY <2>6 DEF EffectCheck
    <3>. QED  BY <1>0, <3>1, <3>2 DEF Refound, FactsHold
  <2>7. CASE Send(b)
    <3>1. pc[b] = "send" /\ UNCHANGED <<ex, seen, found>>
      BY <2>7 DEF Send
    <3>. QED  BY <1>0, <3>1 DEF Refound
  <2>8. CASE ReceiveReply(b) \/ ReadLinked(b) \/ Complete(b) \/ Deliver(b) \/ Fail(b)
    BY <1>1, <2>8 DEF ReceiveReply, ReadLinked, ReadOwn, Complete, Deliver, Fail
  <2>. QED
    BY <1>2, <2>1, <2>2, <2>3, <2>4, <2>5, <2>6, <2>7, <2>8 DEF Attempt
<1>. QED  BY <1>1, <1>2, OthersStay, AttemptsStay DEF Next

-----------------------------------------------------------------------------
(* The whole inductive invariant.                                            *)

LEMMA WholeInit == Init => IInv
<1>. SUFFICES ASSUME Init PROVE IInv
  OBVIOUS
<1>1. CoreInv
  BY InvInit
<1>2. Kept(ledger) /\ KeptInv
  BY ConstantsAssumption DEF Init, KeptInv, Keeping, Kept, Missing
<1>3. ConsentSpentAfterReservation
  BY DEF Init, ConsentSpentAfterReservation, Confirmations!Init, Confirmations!Absent
<1>4. StoredInv /\ AuditInv /\ AnswerInv
  BY DEF Init, StoredInv, Stored, AuditInv, AnswerInv, Answered, Linking, Reviewing
<1>5. BarInv
  BY DEF Init, BarInv
<1>6. ConsentInv /\ ReviewInv
  BY DEF Init, ConsentInv, Consented, Confirmed, Reviewing, Owning, ReviewInv, Reviewed
<1>7. CarriedInv
  BY DEF Init, CarriedInv, Carried, Sanctioned, Missing, Carrying, Owning
<1>8. FoundInv /\ PostedInv
  BY DEF Init, FoundInv, Refound, PostedInv, Untouched
<1>. QED  BY <1>1, <1>2, <1>3, <1>4, <1>5, <1>6, <1>7, <1>8 DEF IInv

LEMMA WholeStep == IInv /\ [Next]_vars => IInv'
  BY InvStep, StoredStep, AuditStep, AnswerStep, BarStep, ConsentSpentStep, KeptStep,
     ConsentStep, ReviewStep, CarriedStep, FoundStep, PostedStep
  DEF IInv, HumanInv

(* Every reachable state satisfies the inductive invariant: who owns the     *)
(* operation, what each attempt has read, shown and audited, and that the    *)
(* record, the backend and the answers agree.                                *)
THEOREM DispatchInvariant == Spec => []IInv
<1>1. Init => IInv
  BY WholeInit
<1>2. IInv /\ [Next]_vars => IInv'
  BY WholeStep
<1>. QED  BY <1>1, <1>2, PTL DEF Spec

-----------------------------------------------------------------------------
(* What the invariant and the steps promise to callers and operators.        *)

(* However many attempts race, restart and retry under one idempotency key,  *)
(* dispatch hands at most one POST to the transport.                         *)
THEOREM DispatchAtMostOnePost == Spec => []AtMostOnePost
<1>1. IInv => AtMostOnePost
  BY DEF IInv, CoreInv, PostInv, AtMostOnePost
<1>. QED  BY <1>1, DispatchInvariant, PTL

(* The receipt is linked in the ledger before the HTTP boundary, and stays.  *)
THEOREM DispatchPostIsLinked == Spec => []PostIsLinked
<1>1. IInv => PostIsLinked
  BY DEF IInv, CoreInv, TypeOK, PostInv, AuditInv, PostIsLinked
<1>. QED  BY <1>1, DispatchInvariant, PTL

(* The effect is sent only with the human authorities policy puts it under,  *)
(* spent, approving, and given for the same arguments; the facts that the    *)
(* confirmation or a deferred grant was asked for are the ones that the      *)
(* check at the effect found again.                                          *)
THEOREM DispatchPostIsAuthorized == Spec => []PostIsAuthorized
<1>1. IInv => PostIsAuthorized
  <2>. SUFFICES ASSUME IInv, NEW a \in sent
                PROVE  /\ ApprovalMode # "none" /\ (ReviewAlways \/ Decision[seen[a]] = "escalate") =>
                            /\ grant[a] # None /\ Approvals!Granted(grant[a])
                            /\ Input[grant[a]] = Input[a]
                            /\ Deferred => seen[grant[a]] = found[a]
                       /\ Trigger # "none" /\ (Trigger = "always" \/ Decision[seen[a]] = "escalate") =>
                            \E c \in Attempts : /\ Confirmations!Granted(c)
                                                /\ Input[c] = Input[a] /\ seen[c] = found[a]
    BY DEF PostIsAuthorized
  <2>1. a \in Attempts /\ (Rechecked(a) => found[a] = seen[a])
    BY DEF IInv, CoreInv, TypeOK, FoundInv, Refound
  <2>2. ASSUME ApprovalMode # "none", ReviewAlways \/ Decision[seen[a]] = "escalate"
        PROVE  /\ grant[a] # None /\ Approvals!Granted(grant[a])
               /\ Input[grant[a]] = Input[a]
               /\ Deferred => seen[grant[a]] = found[a]
    <3>1. Review(a)
      BY <2>2 DEF Review, review_required
    <3>2. /\ grant[a] # None /\ Approvals!Granted(grant[a])
          /\ Input[grant[a]] = Input[a]
          /\ Deferred => seen[grant[a]] = seen[a]
      BY <2>1, <3>1 DEF IInv, ReviewInv, Reviewed, Minted
    <3>. QED  BY <2>1, <3>1, <3>2 DEF Rechecked
  <2>3. ASSUME Trigger # "none", Trigger = "always" \/ Decision[seen[a]] = "escalate"
        PROVE  \E c \in Attempts : /\ Confirmations!Granted(c)
                                   /\ Input[c] = Input[a] /\ seen[c] = found[a]
    <3>1. Confirm(a)
      BY <2>3 DEF Confirm, confirmation_active
    <3>2. /\ ex[a].confirm # None /\ ex[a].safe = seen[a] /\ ex[a].input = Input[a]
          /\ Confirmations!Granted(ex[a].confirm)
      BY <2>1, <3>1 DEF IInv, ConsentInv, Consented
    <3>3. Minted(ex[a].confirm, ex[a].input, ex[a].safe)
      BY <2>1, <3>2 DEF IInv, KeptInv, Keeping, Kept
    <3>4. found[a] = seen[a]
      BY <2>1, <2>3 DEF Rechecked
    <3>. QED  BY <3>2, <3>3, <3>4 DEF Minted
  <2>. QED  BY <2>2, <2>3
<1>. QED  BY <1>1, DispatchInvariant, PTL

(* The one-use confirmation is spent only once the operation is reserved.    *)
THEOREM DispatchConsentSpentAfterReservation == Spec => []ConsentSpentAfterReservation
<1>1. IInv => ConsentSpentAfterReservation
  BY DEF IInv
<1>. QED  BY <1>1, DispatchInvariant, PTL

(* A terminal record says what really happened to the business effect.       *)
THEOREM DispatchOutcomeIsTrue == Spec => []OutcomeIsTrue
<1>1. IInv => OutcomeIsTrue
  BY DEF IInv, CoreInv
<1>. QED  BY <1>1, DispatchInvariant, PTL

(* The answer given to a caller is true, and stays true.                     *)
THEOREM DispatchAnswersAreTrue == Spec => []AnswersAreTrue
<1>1. IInv => AnswersAreTrue
  BY DEF IInv, AnswerInv, Answered, AnswersAreTrue
<1>. QED  BY <1>1, DispatchInvariant, PTL

(* A reservation is never reopened and a terminal record never rewritten.    *)
THEOREM DispatchNeverReopened == Spec => NeverReopened
<1>1. IInv /\ [Next]_vars =>
        [/\ ledger.state \in Terminal => ledger' = ledger
         /\ ledger.state = "pending" => ledger'.state \in Reserved
         /\ ledger.receipt # None => ledger'.receipt = ledger.receipt]_ledger
  <2>. SUFFICES ASSUME IInv, [Next]_vars
                PROVE  [/\ ledger.state \in Terminal => ledger' = ledger
                        /\ ledger.state = "pending" => ledger'.state \in Reserved
                        /\ ledger.receipt # None => ledger'.receipt = ledger.receipt]_ledger
    OBVIOUS
  <2>1. LedgerStep
    BY WritesAreSteps DEF IInv
  <2>2. ledger.state \in Waiting => ledger.receipt = None
    BY DEF IInv, CoreInv, OwnerInv
  <2>. QED
    BY <2>1, <2>2
    DEF LedgerStep, Waits, Rejects, Reserves, Links, Records, Waiting, Reserved, Terminal
<1>. QED  BY <1>1, DispatchInvariant, PTL DEF Spec, NeverReopened

(* Whatever effect ran was posted by an attempt with a durable receipt that  *)
(* the record names, and the record never says anything but that it ran.     *)
THEOREM DispatchEffectIsGoverned == Spec => []EffectIsGoverned
<1>1. IInv => EffectIsGoverned
  BY DEF IInv, CoreInv, TypeOK, PostInv, AuditInv, PostedInv, OutcomeIsTrue, Reserved,
         EffectIsGoverned
<1>. QED  BY <1>1, DispatchInvariant, PTL

(* The dispatcher touches the reviewer grants and the user confirmations     *)
(* only as one-use authorities: through the atomic calls that Approval and   *)
(* Confirmation show the control plane's handlers to implement.              *)
THEOREM DispatchUsesOneUse == Spec => Approvals!Spec /\ Confirmations!Spec
<1>1. Init => Approvals!Init /\ Confirmations!Init
  BY DEF Init
<1>2. IInv /\ [Next]_vars => [Approvals!Next]_approval /\ [Confirmations!Next]_confirmation
  BY AuthoritySteps DEF IInv, HumanInv
<1>. QED  BY <1>1, <1>2, DispatchInvariant, PTL DEF Spec, Approvals!Spec, Confirmations!Spec

(* No attempt, retry or crash makes a human decision or its consumption      *)
(* undone or changed.                                                        *)
THEOREM DispatchDecisionsNeverUndone ==
  Spec => Approvals!NeverUndone /\ Confirmations!NeverUndone
<1>1. IInv /\ [Next]_vars =>
        /\ [\A i \in Attempts : Approvals!Stays(i)]_approval
        /\ [\A i \in Attempts : Confirmations!Stays(i)]_confirmation
  BY HumansStay DEF IInv, HumanInv
<1>. QED
  BY <1>1, DispatchInvariant, PTL
  DEF Spec, Approvals!NeverUndone, Confirmations!NeverUndone

(* Once a stop is durable nothing that was not already cleared is sent.      *)
THEOREM DispatchStopBars == Spec => StopBars
<1>1. IInv /\ [Next]_vars => [\A a \in barred : a \in sent' => a \in sent]_vars
  <2>. SUFFICES ASSUME IInv, [Next]_vars, NEW a \in barred, a \in sent' PROVE a \in sent
    OBVIOUS
  <2>1. a \in Attempts /\ TypeOK /\ pc[a] # "send"
    BY DEF IInv, CoreInv, TypeOK, BarInv
  <2>2. CASE Attempt(a) \/ Deliver(a) \/ Fail(a)
    BY <2>1, <2>2
    DEF At, Attempt, Read, Replay, Admit, Evaluate, AuditPolicyDeny, CreateConfirmation,
        RereadConfirmation, StoreApproval, RereadApproval, RejectConfirmation,
        RejectApproval, WriteWaiting, ReadBack, WriteRejected, ResolveConfirmation,
        AuditConfirmationDenied, AuditApprovalDenied, AuditDenied, RequestApproval,
        AdmitApproved, VerifyApproval, Reserve, ConsumeConfirmation, AuditAllow,
        ReadReserved, ReadOwn, LinkReceipt, EffectCheck, LastAdmit, Send, ReceiveReply,
        ReadLinked, Complete, Deliver, Fail
  <2>. QED  BY <2>1, <2>2, OthersStay, AttemptsStay DEF Next
<1>. QED  BY <1>1, DispatchInvariant, PTL DEF Spec, StopBars

(* Nobody who could still write a record whose grant is spent and lost       *)
(* carries that grant, so nobody writes it.                                  *)
LEMMA AbandonedRecord ==
  ASSUME IInv, [Next]_vars, Abandoned
  PROVE  UNCHANGED <<ledger, sent>>
<1>. USE DEF IInv, CoreInv, TypeOK, Abandoned
<1>1. /\ ledger.state \in Waiting /\ ledger.state # "missing" /\ Deferred
      /\ ledger.nonce # None
      /\ ledger.confirm # None => Approved(ledger.confirm)
  BY DEF Waiting, CarriedInv, Sanctioned, KeptInv, Kept
<1>2. /\ \A a \in Attempts : pc[a] \notin Owning
      /\ \A o \in Operators : opPc[o] \notin {"recover", "recover_audit", "recover_write"}
  BY <1>1, WaitingQuiet
<1>3. CASE Environment \/ UNCHANGED vars
  BY <1>3
  DEF Environment, DecideApproval, DecideConfirmation, Lapse, LeaseLapses, FactsChange, Env,
      vars
<1>4. ASSUME NEW o \in Operators, Reconcile(o) \/ Admission(o) \/ OpFail(o)
      PROVE  UNCHANGED <<ledger, sent>>
  BY <1>2, <1>4
  DEF Reconcile, ReconcileRead, Recover, RecoverAudit, RecoverWrite, Admission,
      AdmissionRead, AdmissionAudit, OpenWrite, StopWrite, OpFail, OpReturn, OpAt
<1>5. ASSUME NEW a \in Attempts, Attempt(a) \/ Deliver(a) \/ Fail(a)
      PROVE  UNCHANGED <<ledger, sent>>
  <2>. USE DEF At
  <2>1. pc[a] \in Reading /\ Current(a) => ledger = ex[a]
    BY DEF EtagInv, Etagged, Current
  <2>2. Carried(a)
    BY DEF CarriedInv
  <2>3. CASE CreateConfirmation(a) \/ StoreApproval(a)
    <3>1. /\ pc[a] \in Reading
          /\ pc[a] = "confirm_write" => ex[a].state = "missing"
          /\ pc[a] = "approval_write" => ex[a].state # "awaiting_approval"
          /\ pc[a] \in {"confirm_write", "approval_write"}
      BY <2>2, <2>3
      DEF CreateConfirmation, StoreApproval, WriteWaiting, Reading, Carried
    <3>2. ~Current(a)
      BY <2>1, <3>1
    <3>. QED  BY <2>3, <3>2 DEF CreateConfirmation, StoreApproval, WriteWaiting
  <2>4. CASE RejectConfirmation(a)
    <3>1. pc[a] = "confirm_reject"
      BY <2>4 DEF RejectConfirmation, WriteRejected
    <3>2. ~Current(a)
      BY <1>1, <2>1, <2>2, <3>1 DEF Reading, Carried, Declined, Approved
    <3>. QED  BY <2>4, <3>2 DEF RejectConfirmation, WriteRejected
  <2>5. CASE RejectApproval(a)
    <3>1. pc[a] = "approval_reject"
      BY <2>5 DEF RejectApproval, WriteRejected
    <3>2. ~Current(a)
      BY <1>1, <2>1, <2>2, <3>1 DEF Reading, Carried, Carrying
    <3>. QED  BY <2>5, <3>2 DEF RejectApproval, WriteRejected
  <2>6. CASE Reserve(a)
    <3>1. pc[a] = "reserve"
      BY <2>6 DEF Reserve
    <3>2. ~Unwritten(a)
      <4>1. SUFFICES ASSUME Current(a) PROVE FALSE
        BY <1>1 DEF Unwritten
      <4>2. ex[a] = ledger
        BY <2>1, <3>1, <4>1 DEF Reading
      <4>3. Review(a)
        BY <4>2 DEF Review, review_required
      <4>. QED  BY <1>1, <2>2, <3>1, <4>2, <4>3 DEF Carried, Carrying
    <3>. QED  BY <2>6, <3>2 DEF Reserve
  <2>7. CASE LinkReceipt(a) \/ Complete(a) \/ Send(a)
    BY <1>2, <2>7 DEF LinkReceipt, Complete, Send, Owning
  <2>. QED
    BY <1>5, <2>3, <2>4, <2>5, <2>6, <2>7
    DEF Attempt, Read, Replay, Admit, Evaluate, AuditPolicyDeny, RereadConfirmation,
        ReadBack, ResolveConfirmation, AuditConfirmationDenied, AuditDenied, RereadApproval,
        RequestApproval, AdmitApproved, VerifyApproval, AuditApprovalDenied,
        ConsumeConfirmation, AuditAllow, ReadReserved, ReadOwn, EffectCheck, LastAdmit,
        ReceiveReply, ReadLinked, Deliver, Fail
<1>. QED  BY <1>3, <1>4, <1>5 DEF Next

(* And nobody gets hold of a grant that is spent.                            *)
LEMMA AbandonedGrant ==
  ASSUME IInv, [Next]_vars, Abandoned
  PROVE  Abandoned'
<1>. USE DEF IInv, CoreInv, TypeOK
<1>. PICK n : n = ledger.nonce
  OBVIOUS
<1>1. n \in Attempts /\ n # None /\ approval[n].phase = "consumed"
  BY ConstantsAssumption DEF Abandoned, KeptInv, Kept, Minted
<1>2. UNCHANGED ledger
  BY AbandonedRecord
<1>3. approval'[n].phase = "consumed"
  <2>1. Approvals!Stays(n)
    BY <1>1, HumansStay DEF HumanInv
  <2>. QED  BY <1>1, <2>1 DEF Approvals!Stays
<1>4. ASSUME NEW a \in Attempts, grant'[a] = n
      PROVE  pc'[a] \notin Carrying
  <2>0. grant[a] = n => pc[a] \notin Carrying
    BY DEF Abandoned
  <2>1. CASE Attempt(a) \/ Deliver(a) \/ Fail(a)
    <3>. USE DEF At, Go, Finish, Respond, Carrying
    <3>1. CASE Read(a) \/ Evaluate(a) \/ ResolveConfirmation(a)
      <4>1. grant[a] = None
        BY <3>1 DEF Read, Evaluate, ResolveConfirmation, KeptInv, Keeping, CarriedInv, Carried,
           Owning
      <4>. QED  BY <1>1, <1>4, <3>1, <4>1 DEF Read, Evaluate, ResolveConfirmation
    <3>2. CASE RequestApproval(a)
      BY <3>2 DEF RequestApproval
    <3>3. CASE VerifyApproval(a)
      BY <1>1, <1>4, <3>3 DEF VerifyApproval, Approvals!Consume
    <3>4. CASE AuditApprovalDenied(a) \/ AuditConfirmationDenied(a)
      BY <1>4, <2>0, <3>4 DEF AuditApprovalDenied, AuditConfirmationDenied, AuditDenied
    <3>5. CASE \/ Replay(a) \/ Admit(a) \/ AuditPolicyDeny(a) \/ CreateConfirmation(a)
               \/ RereadConfirmation(a) \/ StoreApproval(a) \/ RereadApproval(a)
               \/ RejectConfirmation(a) \/ RejectApproval(a) \/ AdmitApproved(a)
      BY <3>5 DEF Replay, Admit, AuditPolicyDeny, CreateConfirmation, RereadConfirmation,
         StoreApproval, RereadApproval, RejectConfirmation, RejectApproval, WriteWaiting,
         ReadBack, WriteRejected, AdmitApproved
    <3>6. CASE \/ Reserve(a) \/ ConsumeConfirmation(a) \/ AuditAllow(a) \/ ReadReserved(a)
               \/ LinkReceipt(a) \/ EffectCheck(a) \/ LastAdmit(a) \/ Send(a)
      BY <3>6 DEF Reserve, ConsumeConfirmation, AuditAllow, ReadReserved, ReadOwn,
         LinkReceipt, EffectCheck, LastAdmit, Send
    <3>7. CASE ReceiveReply(a) \/ ReadLinked(a) \/ Complete(a) \/ Deliver(a) \/ Fail(a)
      BY <1>4, <2>0, <3>7 DEF ReceiveReply, ReadLinked, ReadOwn, Complete, Deliver, Fail
    <3>. QED  BY <2>1, <3>1, <3>2, <3>3, <3>4, <3>5, <3>6, <3>7 DEF Attempt
  <2>2. CASE pc'[a] = pc[a] /\ grant'[a] = grant[a]
    BY <1>4, <2>0, <2>2
  <2>. QED  BY <2>1, <2>2, OthersStay, AttemptsStay DEF Next
<1>. QED  BY <1>2, <1>3, <1>4 DEF Abandoned

(* A crash between the consumption of the reviewer's grant and the           *)
(* reservation closes the stored operation for good: no retry, no later      *)
(* decision and no operator takes it up again or posts for it.               *)
THEOREM DispatchAbandonedForGood == Spec => AbandonedForGood
<1>1. IInv /\ [Next]_vars => [Abandoned => Abandoned' /\ UNCHANGED <<ledger, sent>>]_vars
  BY AbandonedRecord, AbandonedGrant
<1>. QED  BY <1>1, DispatchInvariant, PTL DEF Spec, AbandonedForGood

-----------------------------------------------------------------------------
(* The dispatcher, its operators and the backend implement one governed      *)
(* operation.                                                                *)

(* The effect runs or is fenced only while the operation is reserved.        *)
LEMMA EffectStep ==
  ASSUME CoreInv, [Next]_vars
  PROVE  \/ UNCHANGED backend
         \/ /\ UNCHANGED ledger /\ ledger.state = "pending" /\ backend.state = "clean"
            /\ backend'.state \in {"executed", "fenced"}
<1>. USE DEF CoreInv, TypeOK
<1>1. ledger.state \in Reserved /\ backend.state = "clean" => ledger.state = "pending"
  BY DEF OutcomeIsTrue, Reserved
<1>2. ASSUME NEW o \in Operators, Recover(o), backend.state = "clean"
      PROVE  /\ UNCHANGED ledger /\ ledger.state = "pending"
             /\ backend'.state \in {"executed", "fenced"}
  <2>1. ledger.state \in Reserved
    BY <1>2 DEF Recover, OpAt, OperatorInv
  <2>. QED  BY <1>1, <1>2, <2>1 DEF Recover
<1>3. ASSUME NEW a \in Attempts, Deliver(a), backend.state = "clean"
      PROVE  /\ UNCHANGED ledger /\ ledger.state = "pending"
             /\ backend'.state \in {"executed", "fenced"}
  <2>1. ledger.state \in Reserved
    BY <1>3 DEF Deliver, PostInv
  <2>. QED  BY <1>1, <1>3, <2>1 DEF Deliver
<1>. QED  BY <1>2, <1>3, BackendStays, EffectMakers

(* Readers of the ledger may take the whole machinery for one operation that *)
(* waits, is reserved once, and whose effect runs at most once and only then. *)
THEOREM DispatchImplementsOperation == Spec => ImplementsOperation
<1>1. Init => Operation!Init
  BY DEF Init, Operation!Init, Missing, Untouched
<1>2. IInv /\ [Next]_vars => [Operation!Next]_Operation!vars
  <2>. SUFFICES ASSUME IInv, [Next]_vars PROVE [Operation!Next]_Operation!vars
    OBVIOUS
  <2>. USE DEF Operation!vars, Operation!Next
  <2>1. CoreInv /\ StoredInv
    BY DEF IInv
  <2>2. LedgerStep
    BY <2>1, WritesAreSteps
  <2>3. CASE UNCHANGED <<ledger, backend>>
    BY <2>3
  <2>4. CASE UNCHANGED ledger /\ ~UNCHANGED backend
    BY <2>1, <2>4, EffectStep DEF Operation!Settle
  <2>5. CASE ~UNCHANGED ledger
    <3>1. UNCHANGED backend /\ (Waits \/ Rejects \/ Reserves \/ Links \/ Records)
      BY <2>2, <2>5 DEF LedgerStep
    <3>2. CASE Waits
      BY <3>1, <3>2 DEF Waits, Waiting, Operation!Wait
    <3>3. CASE Rejects
      BY <3>1, <3>3 DEF Rejects, Waiting, Operation!Reject
    <3>4. CASE Reserves
      BY <3>1, <3>4 DEF Reserves, Waiting, Operation!Reserve
    <3>5. CASE Links
      BY <3>1, <3>5 DEF Links
    <3>6. CASE Records
      BY <3>1, <3>6 DEF Records, Operation!Record
    <3>. QED  BY <3>1, <3>2, <3>3, <3>4, <3>5, <3>6
  <2>. QED  BY <2>3, <2>4, <2>5
<1>. QED  BY <1>1, <1>2, DispatchInvariant, PTL DEF Spec, ImplementsOperation, Operation!Spec

(* What the abstract operation is for: its phase tells what became of the    *)
(* effect, and both stand once they are settled.                             *)
LEMMA OperationEnds ==
    Operation!Spec => []Operation!OutcomeIsEffect /\ Operation!EndsForGood
<1>. USE DEF Operation!vars, Operation!OutcomeIsEffect, Operation!Ends
<1>1. Operation!Init => Operation!OutcomeIsEffect
  BY DEF Operation!Init
<1>2. ASSUME Operation!OutcomeIsEffect, [Operation!Next]_Operation!vars
      PROVE  Operation!OutcomeIsEffect' /\ [Operation!Ends]_Operation!vars
  <2>1. CASE Operation!Wait \/ Operation!Reject
    BY <1>2, <2>1 DEF Operation!Wait, Operation!Reject
  <2>2. CASE Operation!Reserve
    BY <1>2, <2>2 DEF Operation!Reserve
  <2>3. CASE Operation!Settle
    BY <1>2, <2>3 DEF Operation!Settle
  <2>4. CASE Operation!Record
    BY <1>2, <2>4 DEF Operation!Record
  <2>5. CASE UNCHANGED Operation!vars
    BY <1>2, <2>5
  <2>. QED  BY <1>2, <2>1, <2>2, <2>3, <2>4, <2>5 DEF Operation!Next
<1>. QED  BY <1>1, <1>2, PTL DEF Operation!Spec, Operation!EndsForGood

(* So it is for the gateway: after a rejection or a fence no effect runs, a  *)
(* second one never, and a terminal record tells what happened (dispatcher). *)
THEOREM DispatchEndsForGood == Spec => []Operation!OutcomeIsEffect /\ Operation!EndsForGood
  BY DispatchImplementsOperation, OperationEnds, PTL DEF ImplementsOperation
=============================================================================
