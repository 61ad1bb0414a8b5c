--------------------------- MODULE Approval_proofs ---------------------------
(* Proofs about the control plane's approval authority.                      *)
EXTENDS Approval, TLAPS

USE DEF stored, locals

-----------------------------------------------------------------------------
LEMMA RecordTypes ==
  ASSUME TypeOK, NEW c \in Calls
  PROVE  /\ Missing \in Record /\ Pending(c) \in Record /\ Claimed(rec[c]) \in Record
         /\ \A i \in Nat : Sent(rec[c], i) \in Record
         /\ \A ok \in BOOLEAN : Decided(c, ok) \in Record
         /\ [rec[c] EXCEPT !.state = "consumed"] \in Record
<1>1. Intent[c] \in Intents
  BY ConstantsAssumption
<1>2. rec[c] \in Record /\ version + 1 \in Nat
  BY DEF TypeOK
<1>3. Missing \in Record
  BY DEF Missing, Record
<1>4. Pending(c) \in Record
  <2>1. CASE Native                     BY <1>1, <2>1 DEF Pending, Missing, Record
  <2>2. CASE ~Native                    BY <1>1, <2>2 DEF Pending, Missing, Record
  <2>. QED  BY <2>1, <2>2
<1>5. \A ok \in BOOLEAN : Decided(c, ok) \in Record
  <2>1. \A ok \in BOOLEAN : [by |-> version + 1, approved |-> ok] \in Grant
    BY <1>2 DEF Grant
  <2>. QED  BY <1>2, <2>1 DEF Decided, Record
<1>6. /\ Claimed(rec[c]) \in Record /\ \A i \in Nat : Sent(rec[c], i) \in Record
      /\ [rec[c] EXCEPT !.state = "consumed"] \in Record
  BY <1>2 DEF Claimed, Sent, Record
<1>. QED  BY <1>3, <1>4, <1>5, <1>6

(* The fields of the records a call writes.                                  *)
LEMMA RecordFields ==
  ASSUME TypeOK, NEW c \in Calls, NEW r \in Record
  PROVE  /\ Pending(c).state = "pending" /\ Pending(c).grant = None
         /\ Pending(c).dispatch \in {"none", "prepared"}
         /\ Claimed(r).state = r.state /\ Claimed(r).grant = r.grant
         /\ Claimed(r).dispatch = "sending"
         /\ \A i : /\ Sent(r, i).state = r.state /\ Sent(r, i).grant = r.grant
                   /\ Sent(r, i).dispatch = "sent" /\ Sent(r, i).run = i
         /\ \A ok \in BOOLEAN :
              /\ Decided(c, ok).state = "decided"
              /\ Decided(c, ok).grant = [by |-> version + 1, approved |-> ok]
              /\ Decided(c, ok).dispatch = rec[c].dispatch /\ Decided(c, ok).run = rec[c].run
         /\ [r EXCEPT !.state = "consumed"].state = "consumed"
         /\ [r EXCEPT !.state = "consumed"].grant = r.grant
         /\ [r EXCEPT !.state = "consumed"].dispatch = r.dispatch
         /\ [r EXCEPT !.state = "consumed"].run = r.run
  BY DEF TypeOK, Missing, Pending, Claimed, Sent, Decided, Record

LEMMA WholeInit == Init => IInv
<1>. SUFFICES ASSUME Init PROVE IInv
  OBVIOUS
<1>1. TypeOK
  <2>1. Missing \in Record /\ runs \in Seq(RunStates)
    BY DEF Init, Missing, Record
  <2>. QED  BY <2>1 DEF Init, TypeOK, Pcs
<1>2. ASSUME NEW c \in Calls PROVE Holding(c) /\ Named(c) /\ GrantKept(rec[c])
  <2>1. /\ pc[c] = "idle" /\ op[c] = "request" /\ rec[c].state = "missing" /\ etag[c] = 0
        /\ version = 0
    BY DEF Init, Missing
  <2>. QED  BY <2>1 DEF Holding, Named, GrantKept, Final, Asking, Writing, Written
<1>3. /\ GrantInv /\ SpentInv /\ ClaimInv /\ RunInv /\ ConsumedOnce /\ NotifiedOnce /\ GrantsAgree
      /\ DecisionIsResponse
  BY <1>2 DEF Init, GrantInv, SpentInv, ClaimInv, RunInv, ConsumedOnce, NotifiedOnce,
     GrantsAgree, DecisionIsResponse, Missing, Final, Claiming
<1>. QED  BY <1>1, <1>2, <1>3 DEF IInv

-----------------------------------------------------------------------------
(* The ways a call writes the record.                                        *)

Writes(c, from, to, new) ==
  /\ pc[c] = from /\ pc' = [pc EXCEPT ![c] = to] /\ Current(c)
  /\ record' = new /\ version' = version + 1 /\ rec' = [rec EXCEPT ![c] = new]
  /\ UNCHANGED <<expired, runs, given, accepted, op, etag, grant, found>>

Creates(c) ==
  /\ pc[c] = "create" /\ pc' = [pc EXCEPT ![c] = "reread"]
  /\ record.state = "missing" /\ record' = Pending(c) /\ version' = version + 1
  /\ UNCHANGED <<expired, runs, given, accepted, locals>>
Decides(c) ==
  \E ok \in BOOLEAN :
    \/ op[c] = "decide" /\ Writes(c, "replace", "decided", Decided(c, ok))
    \/ ok = (runs[rec[c].run] = "approved") /\ Writes(c, "responded", "decided", Decided(c, ok))
Consumes(c) ==
  op[c] = "consume" /\ Writes(c, "replace", "consumed", [rec[c] EXCEPT !.state = "consumed"])
Claims(c) == Writes(c, "claim", "claim_read", Claimed(rec[c]))
StoresRun(c) ==
  \/ Writes(c, "sent_write", "sent_read", Sent(rec[c], found[c]))
  \/ Writes(c, "recover_write", "recover_read", Sent(rec[c], found[c]))

(* The other steps of a call: it moves, reads and answers.                   *)
Moves(c) ==
  \/ Begin(c) \/ Read(c) \/ Reread(c) \/ ValidateAuthority(c) \/ Answer(c) \/ AnswerDecided(c)
  \/ AnswerConsumed(c) \/ RereadClaim(c) \/ RereadRun(c) \/ RereadRecovered(c) \/ Notify(c)
  \/ Notified(c) \/ Recover(c) \/ Poll(c) \/ Fail(c)

LEMMA CallSteps ==
  ASSUME NEW c \in Calls, Call(c) \/ Fail(c)
  PROVE  \/ Creates(c) \/ Decides(c) \/ Consumes(c) \/ Claims(c) \/ StoresRun(c)
         \/ Moves(c) /\ UNCHANGED stored
         \/ /\ pc[c] = "create" /\ pc' = [pc EXCEPT ![c] = "reread"]
            /\ UNCHANGED <<stored, expired, runs, given, accepted, locals>>
<1>. USE DEF Replace, Writes, Go
<1>1. CASE Create(c)                    BY <1>1 DEF Create, Creates
<1>2. CASE Decide(c)                    BY <1>2 DEF Decide, Decides
<1>3. CASE StoreResponse(c)
  BY <1>3 DEF StoreResponse, Decides
<1>4. CASE Consume(c)                   BY <1>4 DEF Consume, Consumes
<1>5. CASE Claim(c)                     BY <1>5 DEF Claim, Claims
<1>6. CASE StoreRun(c)                  BY <1>6 DEF StoreRun, StoresRun
<1>7. CASE StoreRecovered(c)            BY <1>7 DEF StoreRecovered, StoresRun
<1>8. CASE Moves(c)
  BY <1>8 DEF Moves, Begin, Read, Reread, Consider, ValidateAuthority, Answer, AnswerDecided,
     AnswerConsumed, RereadClaim, RereadRun, RereadRecovered, ReadBack, Notify, Notified,
     Recover, Poll, Fail, Quiet
<1>. QED  BY <1>1, <1>2, <1>3, <1>4, <1>5, <1>6, <1>7, <1>8 DEF Call, Moves

(* A call that writes holds the current record.                              *)
LEMMA WritersCurrent ==
  ASSUME IInv, NEW c \in Calls, Current(c), pc[c] \in Writing
  PROVE  record = rec[c]
  BY DEF IInv, Holding, Current

(* What a write makes of the record, whoever writes.                         *)
WriteStep ==
  /\ version' = version + 1
  /\ UNCHANGED <<expired, runs, given, accepted, op, etag, grant, found>>
  /\ record' \in Record /\ rec' \in [Calls -> Record]
Created == /\ record.state = "missing" /\ record'.state = "pending"
           /\ record'.grant = None /\ record'.dispatch \in {"none", "prepared"}
DecidedBy == /\ record.state = "pending" /\ record'.state = "decided" /\ record'.grant \in Grant
             /\ record'.dispatch = record.dispatch /\ record'.run = record.run
ConsumedBy == /\ record.state = "decided" /\ record'.state = "consumed"
              /\ record'.grant = record.grant
              /\ record'.dispatch = record.dispatch /\ record'.run = record.run
ClaimedBy == /\ record.state = "pending" /\ record'.state = "pending"
             /\ record'.grant = record.grant
             /\ record.dispatch = "prepared" /\ record'.dispatch = "sending"
SentBy(i) == /\ record.state = "pending" /\ record'.state = "pending"
             /\ record'.grant = record.grant
             /\ record.dispatch \in {"sending", "sent"} /\ record'.dispatch = "sent"
             /\ record'.run = i

LEMMA WriteSteps ==
  ASSUME IInv, NEW c \in Calls
  PROVE  /\ Creates(c) => WriteStep /\ Created /\ UNCHANGED rec
         /\ Decides(c) => WriteStep /\ DecidedBy /\ rec[c] = record
         /\ Consumes(c) => WriteStep /\ ConsumedBy /\ rec[c] = record
         /\ Claims(c) => WriteStep /\ ClaimedBy /\ rec[c] = record
         /\ StoresRun(c) => WriteStep /\ SentBy(found[c]) /\ rec[c] = record /\ found[c] \in Nat
<1>. USE DEF WriteStep, Writes
<1>1. TypeOK /\ Holding(c) /\ Named(c)
  BY DEF IInv, RunInv
<1>2. rec[c] \in Record /\ rec \in [Calls -> Record] /\ version + 1 \in Nat
  BY <1>1 DEF TypeOK
<1>3. ASSUME Creates(c) PROVE WriteStep /\ Created /\ UNCHANGED rec
  <2>1. Pending(c) \in Record
    BY <1>1, RecordTypes
  <2>2. /\ Pending(c).state = "pending" /\ Pending(c).grant = None
        /\ Pending(c).dispatch \in {"none", "prepared"}
    BY <1>1, <1>2, RecordFields
  <2>. QED  BY <1>2, <1>3, <2>1, <2>2 DEF Creates, Created
<1>4. ASSUME Decides(c) PROVE WriteStep /\ DecidedBy /\ rec[c] = record
  <2>1. PICK ok \in BOOLEAN :
          /\ pc[c] \in {"replace", "responded"} /\ Current(c) /\ record' = Decided(c, ok)
          /\ pc[c] = "replace" => op[c] = "decide"
          /\ rec' = [rec EXCEPT ![c] = Decided(c, ok)] /\ version' = version + 1
          /\ UNCHANGED <<expired, runs, given, accepted, op, etag, grant, found>>
    BY <1>4 DEF Decides
  <2>2. rec[c] = record
    BY <2>1, WritersCurrent DEF Writing
  <2>3. rec[c].state = "pending"
    BY <1>1, <2>1 DEF Holding, Asking
  <2>4. [by |-> version + 1, approved |-> ok] \in Grant
    BY <1>2 DEF Grant
  <2>5. Decided(c, ok) \in Record
    BY <1>1, RecordTypes
  <2>6. /\ Decided(c, ok).state = "decided"
        /\ Decided(c, ok).grant = [by |-> version + 1, approved |-> ok]
        /\ Decided(c, ok).dispatch = rec[c].dispatch /\ Decided(c, ok).run = rec[c].run
    BY <1>1, <1>2, RecordFields
  <2>. QED  BY <1>2, <2>1, <2>2, <2>3, <2>4, <2>5, <2>6 DEF DecidedBy
<1>5. ASSUME Consumes(c) PROVE WriteStep /\ ConsumedBy /\ rec[c] = record
  <2>1. rec[c] = record
    BY <1>5, WritersCurrent DEF Consumes, Writing
  <2>2. rec[c].state = "decided"
    BY <1>1, <1>5 DEF Consumes, Holding
  <2>. QED  BY <1>1, <1>2, <1>5, <2>1, <2>2, RecordTypes, RecordFields DEF Consumes, ConsumedBy
<1>6. ASSUME Claims(c) PROVE WriteStep /\ ClaimedBy /\ rec[c] = record
  <2>1. rec[c] = record
    BY <1>6, WritersCurrent DEF Claims, Writing
  <2>2. rec[c].state = "pending" /\ rec[c].dispatch = "prepared"
    BY <1>1, <1>6 DEF Claims, Holding, Named, Asking
  <2>. QED  BY <1>1, <1>2, <1>6, <2>1, <2>2, RecordTypes, RecordFields DEF Claims, ClaimedBy
<1>7. ASSUME StoresRun(c)
      PROVE  WriteStep /\ SentBy(found[c]) /\ rec[c] = record /\ found[c] \in Nat
  <2>1. pc[c] \in {"sent_write", "recover_write"} /\ Current(c)
    BY <1>7 DEF StoresRun
  <2>2. rec[c] = record
    BY <2>1, WritersCurrent DEF Writing
  <2>3. rec[c].state = "pending" /\ rec[c].dispatch \in {"sending", "sent"} /\ found[c] \in DOMAIN runs
    BY <1>1, <2>1 DEF Holding, Named, Asking
  <2>4. found[c] \in Nat
    BY <1>1, <2>3 DEF TypeOK
  <2>5. Sent(rec[c], found[c]) \in Record
    BY <1>1, <2>4, RecordTypes
  <2>6. /\ Sent(rec[c], found[c]).state = rec[c].state
        /\ Sent(rec[c], found[c]).grant = rec[c].grant
        /\ Sent(rec[c], found[c]).dispatch = "sent" /\ Sent(rec[c], found[c]).run = found[c]
    BY <1>1, <1>2, RecordFields
  <2>. QED  BY <1>2, <1>7, <2>2, <2>3, <2>4, <2>5, <2>6 DEF StoresRun, SentBy
<1>. QED  BY <1>3, <1>4, <1>5, <1>6, <1>7

(* Nobody but a call itself moves it or changes what it holds.               *)
LEMMA OthersStay ==
  ASSUME IInv, NEW c \in Calls, Call(c) \/ Fail(c), NEW d \in Calls, d # c
  PROVE  /\ pc'[d] = pc[d] /\ op'[d] = op[d] /\ rec'[d] = rec[d] /\ etag'[d] = etag[d]
         /\ found'[d] = found[d]
<1>. USE DEF IInv, TypeOK
<1>1. CASE Creates(c)                   BY <1>1 DEF Creates
<1>2. CASE Decides(c) \/ Consumes(c)    BY <1>2 DEF Decides, Consumes, Writes
<1>3. CASE Claims(c) \/ StoresRun(c)    BY <1>3 DEF Claims, StoresRun, Writes
<1>4. CASE Begin(c) \/ Read(c) \/ Reread(c) \/ ValidateAuthority(c)
  BY <1>4 DEF Begin, Read, Reread, Consider, ValidateAuthority, Go
<1>5. CASE Answer(c) \/ AnswerDecided(c) \/ AnswerConsumed(c) \/ Fail(c)
  BY <1>5 DEF Answer, AnswerDecided, AnswerConsumed, Fail, Return, Go
<1>6. CASE RereadClaim(c) \/ RereadRun(c) \/ RereadRecovered(c)
  BY <1>6 DEF RereadClaim, RereadRun, RereadRecovered, ReadBack, Go
<1>7. CASE Notify(c) \/ Notified(c) \/ Recover(c) \/ Poll(c)
  BY <1>7 DEF Notify, Notified, Recover, Poll, Go
<1>. QED  BY <1>1, <1>2, <1>3, <1>4, <1>5, <1>6, <1>7, CallSteps DEF Moves

(* The world around the calls: the workflow and the clock.                   *)
Around == \/ Workflow \/ Expire \/ UNCHANGED vars

LEMMA AroundSteps ==
  ASSUME IInv, Around
  PROVE  /\ UNCHANGED <<stored, given, accepted, pc, locals>>
         /\ expired' \in BOOLEAN /\ runs' \in Seq(RunStates) /\ Len(runs') = Len(runs)
         /\ DOMAIN runs' = DOMAIN runs
         /\ \A i \in DOMAIN runs : runs[i] \in {"approved", "rejected"} => runs'[i] = runs[i]
<1>. USE DEF IInv, TypeOK
<1>1. CASE Workflow
  <2>1. PICK i \in DOMAIN runs, end \in RunStates :
          /\ runs[i] \in {"out", "waiting"} /\ runs' = [runs EXCEPT ![i] = end]
    BY <1>1 DEF Workflow, RunStarts, RunEnds, RunStates
  <2>. QED  BY <1>1, <2>1 DEF Workflow
<1>2. CASE Expire                       BY <1>2 DEF Expire
<1>3. CASE UNCHANGED vars               BY <1>3 DEF vars
<1>. QED  BY <1>1, <1>2, <1>3 DEF Around

-----------------------------------------------------------------------------
(* The parts of the inductive invariant, one after another.                  *)

LEMMA TypeStep ==
  ASSUME IInv, NEW c \in Calls, Call(c) \/ Fail(c)
  PROVE  TypeOK'
<1>. USE DEF TypeOK, Pcs, Go
<1>0. TypeOK /\ Holding(c) /\ GrantKept(rec[c]) /\ GrantInv /\ Named(c)
  BY DEF IInv, GrantInv, RunInv
<1>1. CASE Creates(c)
  <2>1. WriteStep
    BY <1>1, WriteSteps
  <2>. QED  BY <1>0, <1>1, <2>1 DEF Creates, WriteStep
<1>2. CASE Decides(c)
  <2>1. WriteStep
    BY <1>2, WriteSteps
  <2>2. pc' \in [Calls -> Pcs]
    BY <1>0, <1>2 DEF Decides, Writes
  <2>. QED  BY <1>0, <2>1, <2>2 DEF WriteStep
<1>3. CASE Consumes(c)
  <2>1. WriteStep
    BY <1>3, WriteSteps
  <2>. QED  BY <1>0, <1>3, <2>1 DEF Consumes, Writes, WriteStep
<1>4. CASE Claims(c)
  <2>1. WriteStep
    BY <1>4, WriteSteps
  <2>. QED  BY <1>0, <1>4, <2>1 DEF Claims, Writes, WriteStep
<1>5. CASE StoresRun(c)
  <2>1. WriteStep
    BY <1>5, WriteSteps
  <2>2. pc' \in [Calls -> Pcs]
    BY <1>0, <1>5 DEF StoresRun, Writes
  <2>. QED  BY <1>0, <2>1, <2>2 DEF WriteStep
<1>6. CASE Begin(c)                     BY <1>0, <1>6 DEF Begin, Quiet
<1>7. CASE Read(c) \/ Reread(c)
  <2>1. Stage(c) \in Pcs
    BY <1>0 DEF Stage, Stages, Record
  <2>2. CASE Consider(c)                BY <1>0, <2>1, <2>2 DEF Consider, Quiet
  <2>3. CASE ~Consider(c)               BY <1>0, <1>7, <2>3 DEF Read, Reread, Quiet
  <2>. QED  BY <2>2, <2>3
<1>8. CASE Answer(c) \/ AnswerDecided(c) \/ AnswerConsumed(c) \/ Fail(c)
  <2>1. Missing \in Record
    BY <1>0, RecordTypes
  <2>2. rec[c].state \in Final => rec[c].grant \in Grant
    <3>1. record.grant = None \/ record.grant \in Grant
      BY <1>0 DEF Record
    <3>. QED  BY <1>0, <3>1 DEF GrantKept, GrantInv
  <2>3. pc[c] \in {"answer", "decided"} => rec[c].state = "pending" \/ rec[c].grant \in Grant
    BY <1>0, <2>2 DEF Holding, Final
  <2>4. Answer(c) \/ AnswerDecided(c) => given' \subseteq Grant
    <3>1. CASE Answer(c)                BY <1>0, <2>3, <3>1 DEF Answer
    <3>2. CASE AnswerDecided(c)         BY <1>0, <2>2, <3>2 DEF AnswerDecided, Holding, Final
    <3>. QED  BY <3>1, <3>2
  <2>5. UNCHANGED <<stored, expired, runs>> /\ Return(c)
    BY <1>8 DEF Answer, AnswerDecided, AnswerConsumed, Fail, Quiet
  <2>6. given' \subseteq Grant /\ accepted' \in Nat
    BY <1>0, <1>8, <2>4 DEF AnswerConsumed, Fail, Quiet, Answer, AnswerDecided
  <2>. QED  BY <1>0, <2>1, <2>5, <2>6 DEF Return
<1>9. CASE RereadClaim(c) \/ RereadRun(c) \/ RereadRecovered(c)
  BY <1>0, <1>9 DEF RereadClaim, RereadRun, RereadRecovered, ReadBack, Quiet
<1>10. CASE Notify(c)
  <2>1. Append(runs, "out") \in Seq(RunStates) /\ Len(runs) + 1 \in Nat
    BY <1>0 DEF RunStates
  <2>. QED  BY <1>0, <1>10, <2>1 DEF Notify
<1>11. CASE Recover(c)
  <2>1. DOMAIN runs \subseteq Nat
    BY <1>0
  <2>. QED  BY <1>0, <1>11, <2>1 DEF Recover, Quiet
<1>12. CASE ValidateAuthority(c) \/ Notified(c) \/ Poll(c)
  BY <1>0, <1>12 DEF ValidateAuthority, Notified, Poll, Quiet
<1>13. CASE pc[c] = "create" /\ pc' = [pc EXCEPT ![c] = "reread"]
            /\ UNCHANGED <<stored, expired, runs, given, accepted, locals>>
  BY <1>0, <1>13
<1>. QED
  BY <1>1, <1>2, <1>3, <1>4, <1>5, <1>6, <1>7, <1>8, <1>9, <1>10, <1>11, <1>12, <1>13, CallSteps
  DEF Moves

(* A call that acts still holds what it should.                              *)
LEMMA HoldOwn ==
  ASSUME IInv, NEW c \in Calls, Call(c) \/ Fail(c)
  PROVE  Holding(c)'
<1>. USE DEF TypeOK, Go, Asking, Writing, Written
<1>0. TypeOK /\ Holding(c)
  BY DEF IInv
<1>1. CASE Creates(c)                   BY <1>0, <1>1 DEF Creates, Holding
<1>2. CASE Decides(c)
  <2>1. PICK ok \in BOOLEAN :
          /\ pc' = [pc EXCEPT ![c] = "decided"] /\ rec' = [rec EXCEPT ![c] = Decided(c, ok)]
          /\ etag[c] = version /\ version' = version + 1 /\ UNCHANGED <<op, etag>>
    BY <1>2 DEF Decides, Writes, Current
  <2>2. Decided(c, ok).state = "decided"
    <3>1. rec[c] \in Record
      BY <1>0
    <3>. QED  BY <3>1 DEF Decided, Record
  <2>. QED  BY <1>0, <2>1, <2>2 DEF Holding
<1>3. CASE Consumes(c)
  <2>1. [rec[c] EXCEPT !.state = "consumed"].state = "consumed"
    BY <1>0, RecordFields
  <2>. QED  BY <1>0, <1>3, <2>1 DEF Consumes, Writes, Current, Holding
<1>4. CASE Claims(c) \/ StoresRun(c)
  <2>1. Claimed(rec[c]).state = rec[c].state /\ Sent(rec[c], found[c]).state = rec[c].state
    BY <1>0, RecordFields
  <2>. QED  BY <1>0, <1>4, <2>1 DEF Claims, StoresRun, Writes, Current, Holding
<1>5. CASE Begin(c)                     BY <1>0, <1>5 DEF Begin, Quiet, Holding
<1>6. CASE (Read(c) \/ Reread(c)) /\ Consider(c)
  <2>0. record.state # "missing"
    <3>1. record.intent \in Intents
      BY <1>6, ConstantsAssumption DEF Consider, Refusable
    <3>. QED  BY <3>1, ConstantsAssumption DEF IInv, GrantInv, Missing
  <2>1. /\ pc'[c] = Stage(c)
        /\ rec'[c] = record /\ etag'[c] = version /\ UNCHANGED <<stored, op>>
        /\ op[c] = "decide" => record.state = "pending"
        /\ op[c] = "consume" => record.state = "decided"
        /\ record.state \in {"pending", "decided"}
    BY <1>0, <1>6, <2>0 DEF Consider, Refusable, Quiet, Record
  <2>. QED  BY <1>0, <2>1 DEF Stage, Stages, Holding, Record
<1>7. CASE Read(c) /\ ~Consider(c)      BY <1>0, <1>7 DEF Read, Quiet, Holding
<1>8. CASE Answer(c) \/ AnswerDecided(c) \/ AnswerConsumed(c) \/ Fail(c)
  BY <1>0, <1>8 DEF Answer, AnswerDecided, AnswerConsumed, Fail, Return, Quiet, Holding
<1>9. CASE RereadClaim(c) \/ RereadRun(c) \/ RereadRecovered(c)
  BY <1>0, <1>9 DEF RereadClaim, RereadRun, RereadRecovered, ReadBack, Quiet, Holding
<1>10. CASE Notify(c) \/ Recover(c) \/ ValidateAuthority(c) \/ Notified(c) \/ Poll(c)
  BY <1>0, <1>10 DEF Notify, Recover, ValidateAuthority, Notified, Poll, Quiet, Holding
<1>11. CASE pc[c] = "create" /\ pc' = [pc EXCEPT ![c] = "reread"]
            /\ UNCHANGED <<stored, expired, runs, given, accepted, locals>>
  BY <1>0, <1>11 DEF Holding
<1>. QED
  BY <1>1, <1>2, <1>3, <1>4, <1>5, <1>6, <1>7, <1>8, <1>9, <1>10, <1>11, CallSteps
  DEF Moves, Reread

(* Other calls' records stay behind what others write.                       *)
LEMMA HoldStep ==
  ASSUME IInv, NEW c \in Calls, Call(c) \/ Fail(c), NEW b \in Calls
  PROVE  Holding(b)'
<1>1. CASE b = c                        BY <1>1, HoldOwn
<1>2. CASE b # c
  <2>1. /\ pc'[b] = pc[b] /\ op'[b] = op[b] /\ rec'[b] = rec[b] /\ etag'[b] = etag[b]
    BY <1>2, OthersStay
  <2>2. UNCHANGED stored \/ version' = version + 1
    BY CallSteps DEF Creates, Decides, Consumes, Claims, StoresRun, Writes
  <2>3. Holding(b) /\ etag[b] \in Nat /\ version \in Nat
    BY DEF IInv, TypeOK
  <2>. QED  BY <2>1, <2>2, <2>3 DEF Holding
<1>. QED  BY <1>1, <1>2

(* Every step of a call is one of the writes, or leaves the record alone.    *)
LEMMA StoredSteps ==
  ASSUME IInv, NEW c \in Calls, Call(c) \/ Fail(c)
  PROVE  \/ UNCHANGED stored
         \/ /\ WriteStep /\ rec' = [rec EXCEPT ![c] = rec'[c]]
            /\ \/ Created /\ UNCHANGED rec
               \/ rec[c] = record /\ rec'[c] = record'
                  /\ (DecidedBy \/ ConsumedBy \/ ClaimedBy \/ SentBy(found[c]))
<1>1. c \in Calls /\ rec \in [Calls -> Record]
  BY DEF IInv, TypeOK
<1>2. CASE Creates(c)
  <2>1. WriteStep /\ Created /\ UNCHANGED rec
    BY <1>2, WriteSteps
  <2>. QED  BY <1>1, <2>1
<1>3. CASE Decides(c) \/ Consumes(c) \/ Claims(c) \/ StoresRun(c)
  <2>1. WriteStep /\ rec[c] = record
        /\ (DecidedBy \/ ConsumedBy \/ ClaimedBy \/ SentBy(found[c]))
    BY <1>3, WriteSteps
  <2>2. rec' = [rec EXCEPT ![c] = record']
    BY <1>3 DEF Decides, Consumes, Claims, StoresRun, Writes
  <2>. QED  BY <1>1, <2>1, <2>2
<1>. QED  BY <1>2, <1>3, CallSteps

LEMMA GrantStep ==
  ASSUME IInv, NEW c \in Calls, Call(c) \/ Fail(c)
  PROVE  GrantInv'
<1>. USE DEF Final
<1>0. TypeOK /\ GrantInv
  BY DEF IInv
<1>1. CASE UNCHANGED stored
  <2>1. ASSUME NEW b \in Calls PROVE GrantKept(rec[b])'
    <3>1. rec'[b] = rec[b] \/ rec'[b] = record \/ rec'[b] = Missing
      <4>1. CASE b # c                  BY <4>1, OthersStay
      <4>2. CASE b = c
        <5>. USE DEF TypeOK
        <5>1. CASE Moves(c)
          BY <1>0, <4>2, <5>1 DEF Moves, Begin, Read, Reread, Consider, ValidateAuthority, Answer,
             AnswerDecided, AnswerConsumed, RereadClaim, RereadRun, RereadRecovered, ReadBack,
             Notify, Notified, Recover, Poll, Fail, Return, Quiet
        <5>2. CASE Creates(c)           BY <4>2, <5>2 DEF Creates
        <5>3. version' = version + 1 => ~UNCHANGED stored
          BY <1>0
        <5>. QED
          BY <1>0, <1>1, <4>2, <5>1, <5>2, <5>3, CallSteps
          DEF Decides, Consumes, Claims, StoresRun, Writes
      <4>. QED  BY <4>1, <4>2
    <3>2. GrantKept(rec[b])
      BY <1>0 DEF GrantInv
    <3>3. Missing.state \notin Final
      BY DEF Missing
    <3>. QED  BY <1>1, <3>1, <3>2, <3>3 DEF GrantKept
  <2>. QED  BY <1>0, <1>1, <2>1 DEF GrantInv
<1>2. CASE WriteStep /\ Created /\ UNCHANGED rec
  <2>1. \A b \in Calls : rec[b].state \notin Final
    BY <1>0, <1>2 DEF GrantInv, GrantKept, Created
  <2>. QED  BY <1>0, <1>2, <2>1 DEF GrantInv, GrantKept, Created
<1>3. CASE /\ WriteStep /\ rec' = [rec EXCEPT ![c] = rec'[c]]
           /\ rec[c] = record /\ rec'[c] = record'
           /\ (DecidedBy \/ ConsumedBy \/ ClaimedBy \/ SentBy(found[c]))
  <2>1. /\ record'.state # "missing"
        /\ record'.grant = None <=> record'.state \notin Final
        /\ record.state \in Final => record'.state \in Final /\ record'.grant = record.grant
    BY <1>0, <1>3, ConstantsAssumption
    DEF GrantInv, DecidedBy, ConsumedBy, ClaimedBy, SentBy, Grant
  <2>2. ASSUME NEW b \in Calls PROVE GrantKept(rec[b])'
    <3>1. CASE b = c                    BY <1>3, <3>1 DEF GrantKept
    <3>2. CASE b # c
      <4>1. rec'[b] = rec[b]
        BY <3>2, OthersStay
      <4>. QED  BY <1>0, <2>1, <4>1 DEF GrantInv, GrantKept
    <3>. QED  BY <3>1, <3>2
  <2>. QED  BY <2>1, <2>2 DEF GrantInv
<1>. QED  BY <1>1, <1>2, <1>3, StoredSteps

(* Consumption: one write, by one call, acknowledged at most once.           *)
LEMMA SpentStep ==
  ASSUME IInv, NEW c \in Calls, Call(c) \/ Fail(c)
  PROVE  SpentInv' /\ ConsumedOnce'
<1>. USE DEF TypeOK
<1>0. TypeOK /\ SpentInv /\ ConsumedOnce
  BY DEF IInv
<1>1. CASE Consumes(c)
  <2>1. record.state = "decided" /\ record'.state = "consumed" /\ UNCHANGED accepted
    BY <1>1, WriteSteps DEF ConsumedBy, WriteStep
  <2>2. pc' = [pc EXCEPT ![c] = "consumed"]
    BY <1>1 DEF Consumes, Writes
  <2>3. accepted = 0 /\ \A d \in Calls : pc[d] # "consumed"
    BY <1>0, <2>1 DEF SpentInv
  <2>. QED  BY <1>0, <2>1, <2>2, <2>3 DEF SpentInv, ConsumedOnce
<1>2. ASSUME ~Consumes(c)
      PROVE  pc'[c] # "consumed" /\ (record.state = "consumed" => record'.state = "consumed")
  <2>1. pc'[c] # "consumed"
    <3>1. CASE Creates(c) \/ Decides(c) \/ Claims(c) \/ StoresRun(c)
      BY <1>0, <3>1 DEF Creates, Decides, Claims, StoresRun, Writes
    <3>2. CASE Read(c) \/ Reread(c)
      BY <1>0, <3>2 DEF Read, Reread, Consider, Stage, Stages, Record, Go
    <3>3. CASE \/ Begin(c) \/ ValidateAuthority(c) \/ RereadClaim(c) \/ RereadRun(c)
               \/ RereadRecovered(c) \/ Notify(c) \/ Notified(c) \/ Recover(c) \/ Poll(c)
      BY <1>0, <3>3 DEF Begin, ValidateAuthority, RereadClaim, RereadRun, RereadRecovered,
         ReadBack, Notify, Notified, Recover, Poll, Go
    <3>4. CASE Answer(c) \/ AnswerDecided(c) \/ AnswerConsumed(c) \/ Fail(c)
      BY <1>0, <3>4 DEF Answer, AnswerDecided, AnswerConsumed, Fail, Return, Go
    <3>. QED  BY <1>0, <1>2, <3>1, <3>2, <3>3, <3>4, CallSteps DEF Moves
  <2>2. record.state = "consumed" => record'.state = "consumed"
    BY StoredSteps DEF Created, DecidedBy, ConsumedBy, ClaimedBy, SentBy
  <2>. QED  BY <2>1, <2>2
<1>3. CASE AnswerConsumed(c)
  <2>1. pc[c] = "consumed" /\ accepted' = accepted + 1 /\ UNCHANGED record
    BY <1>3 DEF AnswerConsumed
  <2>2. accepted = 0 /\ record.state = "consumed" /\ \A d \in Calls : pc[d] = "consumed" => d = c
    BY <1>0, <2>1 DEF SpentInv
  <2>3. ~Consumes(c)
    BY <2>1 DEF Consumes, Writes
  <2>4. \A d \in Calls : pc'[d] # "consumed"
    BY <1>2, <2>2, <2>3, OthersStay
  <2>. QED  BY <1>0, <2>1, <2>2, <2>4 DEF SpentInv, ConsumedOnce
<1>4. CASE ~Consumes(c) /\ ~AnswerConsumed(c)
  <2>1. UNCHANGED accepted
    BY <1>4, CallSteps
    DEF Creates, Decides, Claims, StoresRun, Writes, Moves, Begin, Read, Reread, Consider,
        ValidateAuthority, Answer, AnswerDecided, RereadClaim,
        RereadRun, RereadRecovered, ReadBack, Notify, Notified, Recover, Poll, Fail, Quiet
  <2>2. \A d \in Calls : pc'[d] = "consumed" => pc[d] = "consumed"
    BY <1>2, <1>4, OthersStay
  <2>. QED  BY <1>0, <1>2, <1>4, <2>1, <2>2, StoredSteps
            DEF SpentInv, ConsumedOnce, Created, DecidedBy, ConsumedBy, ClaimedBy, SentBy
<1>. QED  BY <1>1, <1>3, <1>4

(* The notification: one claim, one POST.                                    *)
LEMMA ClaimStep ==
  ASSUME IInv, NEW c \in Calls, Call(c) \/ Fail(c)
  PROVE  ClaimInv' /\ NotifiedOnce'
<1>. USE DEF TypeOK, Claiming
<1>0. TypeOK /\ ClaimInv /\ NotifiedOnce
  BY DEF IInv
<1>1. CASE Claims(c)
  <2>1. record.dispatch = "prepared" /\ record'.dispatch = "sending" /\ UNCHANGED runs
    BY <1>1, WriteSteps DEF ClaimedBy, WriteStep
  <2>2. pc' = [pc EXCEPT ![c] = "claim_read"]
    BY <1>1 DEF Claims, Writes
  <2>3. runs = <<>> /\ \A d \in Calls : pc[d] \notin Claiming
    BY <1>0, <2>1 DEF ClaimInv
  <2>. QED  BY <1>0, <2>1, <2>2, <2>3 DEF ClaimInv, NotifiedOnce
<1>2. ASSUME ~Claims(c)
      PROVE  pc'[c] \in Claiming => pc[c] \in Claiming
  BY <1>0, <1>2, CallSteps
  DEF Creates, Decides, Consumes, StoresRun, Writes, Moves, Begin, Read, Reread, Consider,
      Stage, Stages, ValidateAuthority, Answer, AnswerDecided, AnswerConsumed, RereadClaim,
      RereadRun, RereadRecovered, ReadBack, Notify, Notified, Recover, Poll, Fail, Return,
      Go, Record
<1>3. CASE Notify(c)
  <2>1. /\ pc[c] = "notify" /\ pc'[c] = "notified" /\ runs' = Append(runs, "out")
        /\ UNCHANGED record
    BY <1>0, <1>3 DEF Notify, Go
  <2>2. /\ runs = <<>> /\ record.dispatch \notin {"none", "prepared"}
        /\ \A d \in Calls : pc[d] \in Claiming => d = c
    BY <1>0, <2>1 DEF ClaimInv
  <2>3. Len(runs') = 1
    BY <2>1, <2>2
  <2>4. \A d \in Calls : pc'[d] \notin Claiming
    BY <2>1, <2>2, OthersStay
  <2>. QED  BY <2>1, <2>2, <2>3, <2>4 DEF ClaimInv, NotifiedOnce
<1>4. CASE ~Claims(c) /\ ~Notify(c)
  <2>1. UNCHANGED runs
    BY <1>4, CallSteps
    DEF Creates, Decides, Consumes, StoresRun, Writes, Moves, Begin, Read, Reread, Consider,
        ValidateAuthority, Answer, AnswerDecided, AnswerConsumed, RereadClaim,
        RereadRun, RereadRecovered, ReadBack, Notified, Recover, Poll, Fail, Quiet
  <2>2. \A d \in Calls : pc'[d] \in Claiming => pc[d] \in Claiming
    BY <1>2, <1>4, OthersStay
  <2>3. record'.dispatch \in {"none", "prepared"} => record.dispatch \in {"none", "prepared"}
    <3>1. record.state = "missing" => record.dispatch \in {"none", "prepared"}
      BY DEF IInv, GrantInv, Missing
    <3>. QED  BY <1>0, <3>1, StoredSteps DEF Created, DecidedBy, ConsumedBy, ClaimedBy, SentBy
  <2>. QED  BY <1>0, <2>1, <2>2, <2>3 DEF ClaimInv, NotifiedOnce
<1>. QED  BY <1>1, <1>3, <1>4

(* The runs that calls and the record name.                                  *)
LEMMA RunsGrow ==
  ASSUME IInv, NEW c \in Calls, Call(c) \/ Fail(c)
  PROVE  /\ DOMAIN runs \subseteq DOMAIN runs'
         /\ \A i \in DOMAIN runs : runs'[i] = runs[i]
<1>1. CASE Notify(c)
  <2>1. runs' = Append(runs, "out") /\ runs \in Seq(RunStates)
    BY <1>1 DEF Notify, IInv, TypeOK
  <2>. QED  BY <2>1
<1>2. CASE ~Notify(c)
  <2>1. UNCHANGED runs
    BY <1>2, CallSteps
    DEF Creates, Decides, Consumes, Claims, StoresRun, Writes, Moves, Begin, Read, Reread,
        Consider, ValidateAuthority, Answer, AnswerDecided, AnswerConsumed, RereadClaim,
        RereadRun, RereadRecovered, ReadBack, Notified, Recover, Poll, Fail, Quiet
  <2>. QED  BY <2>1
<1>. QED  BY <1>1, <1>2

LEMMA NamedStep ==
  ASSUME IInv, NEW c \in Calls, Call(c) \/ Fail(c), NEW b \in Calls
  PROVE  Named(b)'
<1>. USE DEF TypeOK, Asking, Go
<1>0. /\ TypeOK /\ Named(b) /\ Named(c) /\ Holding(c)
      /\ (record.dispatch = "sent" => record.run \in DOMAIN runs)
  BY DEF IInv, RunInv
<1>1. CASE b # c
  <2>1. pc'[b] = pc[b] /\ rec'[b] = rec[b] /\ found'[b] = found[b]
    BY <1>1, OthersStay
  <2>. QED  BY <1>0, <2>1, RunsGrow DEF Named
<1>2. CASE b = c
  <2>1. CASE Creates(c) \/ Decides(c) \/ Consumes(c)
    <3>1. pc'[c] \in {"reread", "decided", "consumed"}
      BY <1>0, <2>1 DEF Creates, Decides, Consumes, Writes
    <3>. QED  BY <1>2, <3>1 DEF Named
  <2>2. CASE Claims(c)
    <3>1. pc'[c] = "claim_read" /\ rec'[c].dispatch = "sending"
      <4>1. Claimed(rec[c]).dispatch = "sending"
        BY <1>0 DEF Claimed, Record
      <4>. QED  BY <1>0, <2>2, <4>1 DEF Claims, Writes
    <3>. QED  BY <1>2, <3>1 DEF Named
  <2>3. CASE StoresRun(c)
    <3>1. /\ pc[c] \in {"sent_write", "recover_write"} /\ pc'[c] \in {"sent_read", "recover_read"}
          /\ rec'[c] = Sent(rec[c], found[c]) /\ UNCHANGED <<runs, found>>
      BY <1>0, <2>3 DEF StoresRun, Writes
    <3>2. Sent(rec[c], found[c]).dispatch = "sent" /\ Sent(rec[c], found[c]).run = found[c]
      BY <1>0 DEF Sent, Record
    <3>. QED  BY <1>0, <1>2, <3>1, <3>2 DEF Named
  <2>4. CASE (Read(c) \/ Reread(c)) /\ Consider(c)
    <3>1. pc'[c] = Stage(c) /\ rec'[c] = record /\ UNCHANGED <<runs, found>>
      BY <1>0, <2>4 DEF Consider, Quiet
    <3>. QED  BY <1>0, <1>2, <3>1 DEF Named, Stage, Stages, Record
  <2>5. CASE Read(c) /\ ~Consider(c)
    BY <1>0, <1>2, <2>5 DEF Read, Quiet, Named
  <2>6. CASE Notify(c)
    <3>1. /\ pc'[c] = "notified" /\ rec'[c] = rec[c] /\ found'[c] = Len(runs) + 1
          /\ runs' = Append(runs, "out") /\ pc[c] = "notify"
      BY <1>0, <2>6 DEF Notify
    <3>2. Len(runs) + 1 \in DOMAIN runs'
      BY <1>0, <3>1
    <3>. QED  BY <1>0, <1>2, <3>1, <3>2 DEF Named
  <2>7. CASE Begin(c) \/ ValidateAuthority(c) \/ Notified(c) \/ Recover(c) \/ Poll(c)
    BY <1>0, <1>2, <2>7 DEF Begin, ValidateAuthority, Notified, Recover, Poll, Quiet, Named
  <2>8. CASE RereadClaim(c) \/ RereadRun(c) \/ RereadRecovered(c)
    BY <1>0, <1>2, <2>8 DEF RereadClaim, RereadRun, RereadRecovered, ReadBack, Quiet, Named
  <2>9. CASE Answer(c) \/ AnswerDecided(c) \/ AnswerConsumed(c) \/ Fail(c)
    <3>1. pc'[c] = "idle"
      BY <1>0, <2>9 DEF Answer, AnswerDecided, AnswerConsumed, Fail, Return
    <3>. QED  BY <1>2, <3>1 DEF Named
  <2>10. CASE pc[c] = "create" /\ pc' = [pc EXCEPT ![c] = "reread"]
    BY <1>0, <1>2, <2>10 DEF Named
  <2>. QED
    BY <2>1, <2>2, <2>3, <2>4, <2>5, <2>6, <2>7, <2>8, <2>9, <2>10, CallSteps DEF Moves, Reread
<1>. QED  BY <1>1, <1>2

LEMMA RunStep ==
  ASSUME IInv, NEW c \in Calls, Call(c) \/ Fail(c)
  PROVE  RunInv'
<1>1. record'.dispatch = "sent" => record'.run \in DOMAIN runs'
  <2>0. TypeOK /\ RunInv /\ GrantInv
    BY DEF IInv
  <2>1. CASE UNCHANGED stored
    BY <2>0, <2>1, RunsGrow DEF RunInv
  <2>2. CASE Created                    BY <2>2 DEF Created
  <2>3. CASE DecidedBy \/ ConsumedBy
    BY <2>0, <2>3, RunsGrow DEF DecidedBy, ConsumedBy, RunInv
  <2>4. CASE ClaimedBy                  BY <2>4 DEF ClaimedBy
  <2>5. CASE StoresRun(c)
    <3>1. pc[c] \in {"sent_write", "recover_write"}
      BY <2>5 DEF StoresRun, Writes
    <3>2. found[c] \in DOMAIN runs
      BY <2>0, <3>1 DEF RunInv, Named
    <3>3. record'.run = found[c]
      BY <2>5, WriteSteps DEF SentBy
    <3>. QED  BY <3>2, <3>3, RunsGrow
  <2>. QED  BY <2>1, <2>2, <2>3, <2>4, <2>5, CallSteps, WriteSteps
<1>. QED  BY <1>1, NamedStep DEF RunInv

(* Whoever is handed a grant is handed the one a final record holds.         *)
LEMMA GivenSteps ==
  ASSUME IInv, NEW c \in Calls, Call(c) \/ Fail(c)
  PROVE  \/ UNCHANGED given
         \/ /\ UNCHANGED record /\ record.state \in Final
            /\ given' = given \cup {record.grant}
<1>0. Holding(c) /\ GrantKept(rec[c])
  BY DEF IInv, GrantInv
<1>1. CASE Answer(c)
  <2>1. /\ rec[c].state \in {"pending", "decided"}
        /\ given' = IF rec[c].state = "pending" THEN given ELSE given \cup {rec[c].grant}
    BY <1>0, <1>1 DEF Answer, Holding
  <2>2. CASE rec[c].state = "pending"   BY <2>1, <2>2
  <2>3. CASE rec[c].state = "decided"   BY <1>0, <1>1, <2>1, <2>3 DEF Answer, GrantKept, Final
  <2>. QED  BY <2>1, <2>2, <2>3
<1>2. CASE AnswerDecided(c)
  BY <1>0, <1>2 DEF AnswerDecided, Holding, GrantKept, Final
<1>3. CASE ~Answer(c) /\ ~AnswerDecided(c)
  BY <1>3, CallSteps
  DEF Creates, Decides, Consumes, Claims, StoresRun, Writes, Moves, Begin, Read, Reread,
      Consider, ValidateAuthority, AnswerConsumed, RereadClaim, RereadRun, RereadRecovered,
      ReadBack, Notify, Notified, Recover, Poll, Fail, Quiet
<1>. QED  BY <1>1, <1>2, <1>3

(* The grants handed out are the one on record.                              *)
LEMMA GivenStep ==
  ASSUME IInv, NEW c \in Calls, Call(c) \/ Fail(c)
  PROVE  GrantsAgree'
<1>1. GrantsAgree
  BY DEF IInv
<1>2. record.state \in Final => record'.state \in Final /\ record'.grant = record.grant
  BY StoredSteps DEF Created, DecidedBy, ConsumedBy, ClaimedBy, SentBy, Final
<1>. QED  BY <1>1, <1>2, GivenSteps DEF GrantsAgree, Final

(* A native decision is stored from the run's final answer.                  *)
LEMMA ResponseStep ==
  ASSUME IInv, NEW c \in Calls, Call(c) \/ Fail(c)
  PROVE  DecisionIsResponse'
<1>0. TypeOK /\ DecisionIsResponse /\ Holding(c) /\ Named(c)
  BY DEF IInv, RunInv
<1>1. CASE Decides(c)
  <2>1. PICK ok \in BOOLEAN :
          /\ \/ op[c] = "decide"
             \/ pc[c] = "responded" /\ ok = (runs[rec[c].run] = "approved")
          /\ record' = Decided(c, ok) /\ UNCHANGED runs
    BY <1>1 DEF Decides, Writes
  <2>2. CASE op[c] = "decide"
    BY <1>0, <2>2 DEF Holding, DecisionIsResponse
  <2>3. CASE pc[c] = "responded" /\ ok = (runs[rec[c].run] = "approved")
    <3>1. rec[c].run \in DOMAIN runs /\ runs[rec[c].run] \in {"approved", "rejected"}
      BY <1>0, <2>3 DEF Named
    <3>2. /\ Decided(c, ok).grant = [by |-> version + 1, approved |-> ok]
          /\ Decided(c, ok).run = rec[c].run
      BY <1>0 DEF TypeOK, Decided, Record
    <3>3. record'.grant.approved = ok /\ record'.run = rec[c].run
      BY <2>1, <3>2
    <3>. QED  BY <2>1, <2>3, <3>1, <3>3 DEF DecisionIsResponse
  <2>. QED  BY <2>1, <2>2, <2>3
<1>2. CASE Consumes(c)
  <2>1. ConsumedBy /\ UNCHANGED runs
    BY <1>2, WriteSteps DEF WriteStep
  <2>. QED  BY <1>0, <2>1 DEF ConsumedBy, DecisionIsResponse
<1>3. CASE Creates(c) \/ Claims(c) \/ StoresRun(c)
  <2>1. record'.state = "pending"
    BY <1>3, WriteSteps DEF Created, ClaimedBy, SentBy
  <2>. QED  BY <2>1 DEF DecisionIsResponse
<1>4. CASE UNCHANGED stored
  BY <1>0, <1>4, RunsGrow DEF DecisionIsResponse
<1>. QED  BY <1>1, <1>2, <1>3, <1>4, CallSteps

LEMMA AroundKeeps == IInv /\ Around => IInv'
<1>. SUFFICES ASSUME IInv, Around PROVE IInv'
  OBVIOUS
<1>0. /\ UNCHANGED <<stored, given, accepted, pc, locals>>
      /\ expired' \in BOOLEAN /\ runs' \in Seq(RunStates) /\ Len(runs') = Len(runs)
      /\ DOMAIN runs' = DOMAIN runs
      /\ \A i \in DOMAIN runs : runs[i] \in {"approved", "rejected"} => runs'[i] = runs[i]
  BY AroundSteps
<1>1. TypeOK'
  BY <1>0 DEF IInv, TypeOK
<1>2. \A c \in Calls : Holding(c)' /\ GrantKept(rec[c])'
  BY <1>0 DEF IInv, Holding, GrantInv, GrantKept
<1>3. GrantInv' /\ SpentInv' /\ ConsumedOnce' /\ NotifiedOnce' /\ GrantsAgree'
  BY <1>0, <1>2 DEF IInv, GrantInv, SpentInv, ConsumedOnce, NotifiedOnce, GrantsAgree
<1>4. ClaimInv'
  <2>1. runs' = <<>> <=> runs = <<>>
    BY <1>0 DEF IInv, TypeOK
  <2>. QED  BY <1>0, <2>1 DEF IInv, ClaimInv
<1>5. RunInv'
  BY <1>0 DEF IInv, RunInv, Named
<1>6. DecisionIsResponse'
  BY <1>0 DEF IInv, DecisionIsResponse
<1>. QED  BY <1>1, <1>2, <1>3, <1>4, <1>5, <1>6 DEF IInv

LEMMA WholeStep == IInv /\ [Next]_vars => IInv'
<1>. SUFFICES ASSUME IInv, [Next]_vars PROVE IInv'
  OBVIOUS
<1>1. ASSUME NEW c \in Calls, Call(c) \/ Fail(c) PROVE IInv'
  BY <1>1, TypeStep, HoldStep, GrantStep, SpentStep, ClaimStep, RunStep, GivenStep, ResponseStep
  DEF IInv
<1>. QED  BY <1>1, AroundKeeps DEF Next, Around

(* Every reachable state satisfies the inductive invariant: what each call   *)
(* holds, who may claim and consume, and that grants and runs are final.     *)
THEOREM ApprovalInvariant == Spec => []IInv
  BY WholeInit, WholeStep, PTL DEF Spec

(* Every variable of the approval authority and its callers keeps its type. *)
THEOREM ApprovalTypeOK == Spec => []TypeOK
<1>1. IInv => TypeOK
  BY DEF IInv
<1>. QED  BY <1>1, ApprovalInvariant, PTL

(* One notification per nonce, however many requests race and are retried.   *)
THEOREM ApprovalNotifiedOnce == Spec => []NotifiedOnce
<1>1. IInv => NotifiedOnce
  BY DEF IInv
<1>. QED  BY <1>1, ApprovalInvariant, PTL

(* No two callers are ever handed different grants for one nonce.            *)
THEOREM ApprovalGrantsAgree == Spec => []GrantsAgree
<1>1. IInv => GrantsAgree
  BY DEF IInv
<1>. QED  BY <1>1, ApprovalInvariant, PTL

(* One consumption is acknowledged.                                          *)
THEOREM ApprovalConsumedOnce == Spec => []ConsumedOnce
<1>1. IInv => ConsumedOnce
  BY DEF IInv
<1>. QED  BY <1>1, ApprovalInvariant, PTL

(* A native decision is the answer of the run the record names.              *)
THEOREM ApprovalDecisionIsResponse == Spec => []DecisionIsResponse
<1>1. IInv => DecisionIsResponse
  BY DEF IInv
<1>. QED  BY <1>1, ApprovalInvariant, PTL

-----------------------------------------------------------------------------
(* The concurrent read-then-CAS handlers implement the one-use authority     *)
(* that the dispatcher relies on.                                            *)

Shown(r) == [phase |-> IF r.state = "missing" THEN "none" ELSE r.state,
             approved |-> r.grant # None /\ r.grant.approved]

LEMMA ShownSteps ==
  ASSUME IInv, [Next]_vars
  PROVE  \/ Shown(record)' = Shown(record)
         \/ record.state = "missing" /\ Shown(record)' = [Shown(record) EXCEPT !.phase = "pending"]
         \/ /\ record.state = "pending"
            /\ \E ok \in BOOLEAN : Shown(record)' = [phase |-> "decided", approved |-> ok]
         \/ /\ record.state = "decided"
            /\ Shown(record)' = [Shown(record) EXCEPT !.phase = "consumed"]
<1>0. record \in Record /\ (record.state = "missing" => record.grant = None)
      /\ (record.state = "pending" => record.grant = None)
  BY DEF IInv, TypeOK, GrantInv, Final
<1>1. CASE UNCHANGED record             BY <1>1 DEF Shown
<1>2. CASE Created                      BY <1>0, <1>2 DEF Created, Shown
<1>3. CASE DecidedBy
  <2>1. record'.grant # None /\ record'.grant.approved \in BOOLEAN
    BY <1>3, ConstantsAssumption DEF DecidedBy, Grant
  <2>. QED  BY <1>3, <2>1 DEF DecidedBy, Shown
<1>4. CASE ConsumedBy                   BY <1>0, <1>4 DEF ConsumedBy, Shown
<1>5. ASSUME NEW i, ClaimedBy \/ SentBy(i)
      PROVE  Shown(record)' = Shown(record)
  BY <1>0, <1>5 DEF ClaimedBy, SentBy, Shown
<1>6. CASE Around
  BY <1>1, <1>6, AroundSteps
<1>. QED  BY <1>1, <1>2, <1>3, <1>4, <1>5, <1>6, StoredSteps DEF Next, Around

(* request, decide and consume, raced and retried and cut off anywhere,      *)
(* behave as one human authority, decided once and spent at most once.       *)
THEOREM ApprovalImplementsOneUse == Spec => ImplementsOneUse
<1>. DEFINE use == [n \in {Nonce} |-> Shown(record)]
<1>1. Init => Authority!Init
  <2>. SUFFICES ASSUME Init PROVE Authority!Init
    OBVIOUS
  <2>1. record.state = "missing" /\ record.grant = None
    BY DEF Init, Missing
  <2>. QED  BY <2>1 DEF Authority!Init, Authority!Absent
<1>2. IInv /\ [Next]_vars => [Authority!Next]_use
  <2>. SUFFICES ASSUME IInv, [Next]_vars PROVE [Authority!Next]_use
    OBVIOUS
  <2>1. CASE Shown(record)' = Shown(record)
    BY <2>1
  <2>2. CASE record.state = "missing" /\ Shown(record)' = [Shown(record) EXCEPT !.phase = "pending"]
    BY <2>2 DEF Shown, Authority!Next, Authority!Request
  <2>3. CASE record.state = "pending"
             /\ \E ok \in BOOLEAN : Shown(record)' = [phase |-> "decided", approved |-> ok]
    BY <2>3 DEF Shown, Authority!Next, Authority!Decide
  <2>4. CASE record.state = "decided" /\ Shown(record)' = [Shown(record) EXCEPT !.phase = "consumed"]
    BY <2>4 DEF Shown, Authority!Next, Authority!Consume
  <2>. QED  BY <2>1, <2>2, <2>3, <2>4, ShownSteps
<1>. QED
  BY <1>1, <1>2, ApprovalInvariant, PTL DEF Spec, ImplementsOneUse, Authority!Spec, Shown

-----------------------------------------------------------------------------
(* So what every store of one-use authorities promises holds of this one.    *)
AuthorityUse == INSTANCE OneUse_proofs WITH
  Ids <- {Nonce}, use <- [n \in {Nonce} |-> Shown(record)]

(* A decision is not changed and a consumption is not taken back, by any     *)
(* call that was under way when it was written, or by any retry.             *)
THEOREM ApprovalNeverUndone == Spec => Authority!NeverUndone
<1>. DEFINE use == [n \in {Nonce} |-> Shown(record)]
<1>1. Authority!Init => AuthorityUse!Init
  BY DEF Authority!Init, Authority!Absent, AuthorityUse!Init, AuthorityUse!Absent, Shown
<1>2. [Authority!Next]_use => [AuthorityUse!Next]_use
  BY DEF Authority!Next, Authority!Request, Authority!Decide, Authority!Consume, Shown,
     AuthorityUse!Next, AuthorityUse!Request, AuthorityUse!Decide, AuthorityUse!Consume
<1>3. [\A i \in {Nonce} : AuthorityUse!Stays(i)]_use => [\A i \in {Nonce} : Authority!Stays(i)]_use
  BY DEF Authority!Stays, AuthorityUse!Stays, Shown
<1>. QED
  BY <1>1, <1>2, <1>3, ApprovalImplementsOneUse, AuthorityUse!OneUseNeverUndone, PTL
  DEF ImplementsOneUse, Authority!Spec, Authority!NeverUndone, AuthorityUse!Spec,
      AuthorityUse!NeverUndone, Shown

-----------------------------------------------------------------------------
(* The grant is a choice made once (DecideOnce).                             *)

LEMMA GrantOnRecord ==
  IInv => /\ GrantsAgree
          /\ record.grant \in Grant \cup {None}
          /\ record.grant = None <=> record.state \notin Final
  BY DEF IInv, TypeOK, Record, GrantInv

LEMMA GrantSteps ==
  ASSUME IInv, [Next]_vars
  PROVE  [Decision!Next]_<<{record.grant} \ {None}, [n \in {Nonce} |-> given]>>
<1>0. /\ GrantsAgree /\ record.grant \in Grant \cup {None}
      /\ record.grant = None <=> record.state \notin Final
  BY GrantOnRecord
<1>1. ASSUME NEW c \in Calls, Call(c) \/ Fail(c)
      PROVE  \/ UNCHANGED <<record.grant, given>>
             \/ record.grant = None /\ record'.grant \in Grant /\ UNCHANGED given
             \/ UNCHANGED record /\ record.grant # None /\ given' = {record.grant}
  <2>1. CASE UNCHANGED given
    <3>1. \/ record'.grant = record.grant
          \/ record.grant = None /\ record'.grant \in Grant
      BY <1>0, <1>1, StoredSteps
      DEF Created, DecidedBy, ConsumedBy, ClaimedBy, SentBy, Final
    <3>. QED  BY <2>1, <3>1
  <2>2. CASE UNCHANGED record /\ record.state \in Final /\ given' = given \cup {record.grant}
    BY <1>0, <2>2 DEF GrantsAgree, Final
  <2>. QED  BY <1>1, <2>1, <2>2, GivenSteps
<1>2. CASE UNCHANGED <<record.grant, given>>
  BY <1>2
<1>3. CASE record.grant = None /\ record'.grant \in Grant /\ UNCHANGED given
  BY <1>3, ConstantsAssumption DEF Decision!Next, Decision!Choose, Grant
<1>4. CASE UNCHANGED record /\ record.grant # None /\ given' = {record.grant}
  <2>1. Decision!Learn(Nonce)
    BY <1>4 DEF Decision!Learn
  <2>. QED  BY <2>1 DEF Decision!Next
<1>5. CASE Around
  BY <1>2, <1>5, AroundSteps
<1>. QED  BY <1>1, <1>2, <1>3, <1>4, <1>5 DEF Next, Around

(* Whatever races, is retried or is cut off, one grant is chosen for the     *)
(* nonce and every caller that is answered is answered with it.              *)
THEOREM ApprovalImplementsDecision == Spec => ImplementsDecision
<1>1. Init => Decision!Init
  <2>. SUFFICES ASSUME Init PROVE Decision!Init
    OBVIOUS
  <2>. QED  BY DEF Init, Missing, Decision!Init
<1>. QED
  BY <1>1, GrantSteps, ApprovalInvariant, PTL DEF Spec, ImplementsDecision, Decision!Spec

(* So the grant stands for good, and no caller was ever told another.        *)
THEOREM ApprovalStandsForGood == Spec => []Decision!Agreement /\ Decision!ChosenForGood
<1>. DEFINE chosen == {record.grant} \ {None}
            told == [n \in {Nonce} |-> given]
<1>1. IInv => Decision!Agreement
  BY GrantOnRecord DEF GrantsAgree, Final, Decision!Agreement
<1>2. [Decision!Next]_<<chosen, told>> => [chosen # {} => chosen' = chosen]_<<chosen, told>>
  BY DEF Decision!Next, Decision!Choose, Decision!Learn
<1>. QED
  BY <1>1, <1>2, ApprovalInvariant, ApprovalImplementsDecision, PTL
  DEF ImplementsDecision, Decision!Spec, Decision!ChosenForGood
=============================================================================
