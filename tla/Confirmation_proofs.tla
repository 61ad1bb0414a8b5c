------------------------- MODULE Confirmation_proofs -------------------------
(* Proofs about the control plane's confirmation authority.                  *)
EXTENDS Confirmation, TLAPS

USE DEF stored, outside, locals

-----------------------------------------------------------------------------
LEMMA Types ==
  ASSUME TypeOK, NEW c \in Calls
  PROVE  /\ rec[c] \in Record /\ etag[c] \in Nat /\ pc[c] \in Pcs /\ op[c] \in Operations
         /\ ctx[c] \in Ids \cup {None} /\ ctxEtag[c] \in Nat /\ id[c] \in Ids \cup {None}
         /\ pc[c] # "idle" => /\ id[c] \in Ids /\ record[id[c]] \in Record
                              /\ version[id[c]] \in Nat /\ posts[id[c]] \in Nat
  BY DEF TypeOK

LEMMA RecordTypes ==
  /\ Missing \in Record /\ Prepared \in Record
  /\ \A r \in Record, n \in {"sending", "sent"} : [r EXCEPT !.notification = n] \in Record
  /\ \A r \in Record : [r EXCEPT !.state = "consumed"] \in Record
  /\ \A r \in Record, ok \in BOOLEAN :
       [r EXCEPT !.state = "decided", !.approved = ok] \in Record
  BY DEF Missing, Prepared, Record

LEMMA WholeInit == Init => IInv
<1>. SUFFICES ASSUME Init PROVE IInv
  OBVIOUS
<1>1. TypeOK
  BY RecordTypes DEF Init, TypeOK, Pcs, Operations
<1>2. ASSUME NEW c \in Calls PROVE Held(c) /\ Bound(c) /\ ~Acking(c) /\ pc[c] = "idle"
  BY <1>2 DEF Init, Held, Bound, Acking, Claiming
<1>3. BindInv /\ ClaimInv /\ SpentInv
  BY <1>2 DEF Init, BindInv, ClaimInv, SpentInv, Missing, Claiming
<1>. QED  BY <1>1, <1>2, <1>3 DEF IInv

-----------------------------------------------------------------------------
(* The five writes of a confirmation, and what they find and leave.          *)

Asked == [Prepared EXCEPT !.notification = "sending"]
Told == [Prepared EXCEPT !.notification = "sent"]
Wrote(c, old, new) ==
  /\ id[c] \in Ids /\ record[id[c]] = old /\ new \in Record
  /\ record' = [record EXCEPT ![id[c]] = new]
  /\ version' = [version EXCEPT ![id[c]] = @ + 1]
  /\ UNCHANGED <<context, bindings, outside, op, id, ctx, ctxEtag, etag>>
Moved(c, from, to) == pc[c] = from /\ pc' = [pc EXCEPT ![c] = to]

LEMMA WriterCurrent ==
  ASSUME IInv, NEW c \in Calls, Current(c), pc[c] \in {"claim", "decide", "consume"}
  PROVE  record[id[c]] = rec[c]
  BY DEF IInv, Held, Current

LEMMA WriteSteps ==
  ASSUME IInv, NEW c \in Calls
  PROVE  /\ Create(c) => Wrote(c, Missing, Prepared) /\ Moved(c, "create", "reread") /\ UNCHANGED rec
         /\ Claim(c) => /\ Wrote(c, Prepared, Asked) /\ Moved(c, "claim", "notify")
                        /\ rec' = [rec EXCEPT ![c] = Asked]
         /\ StoreSent(c) => Wrote(c, Asked, Told) /\ Moved(c, "sent", "answer") /\ UNCHANGED rec
         /\ Decide(c) => /\ rec[c].state = "pending" /\ rec[c].notification = "sent"
                         /\ \E ok \in BOOLEAN :
                              Wrote(c, rec[c], [rec[c] EXCEPT !.state = "decided", !.approved = ok])
                         /\ Moved(c, "decide", "answer") /\ UNCHANGED rec
         /\ Consume(c) => /\ rec[c].state = "decided" /\ rec[c].approved
                          /\ Wrote(c, rec[c], [rec[c] EXCEPT !.state = "consumed"])
                          /\ Moved(c, "consume", "answer") /\ UNCHANGED rec
<1>. USE DEF Go, Moved
<1>0. TypeOK /\ Held(c) /\ ClaimInv
  BY DEF IInv
<1>1. pc[c] # "idle" => id[c] \in Ids /\ rec[c] \in Record
  BY <1>0, Types
<1>2. ASSUME Create(c)
      PROVE  Wrote(c, Missing, Prepared) /\ Moved(c, "create", "reread") /\ UNCHANGED rec
  <2>1. id[c] \in Ids /\ record[id[c]] = Missing
    BY <1>0, <1>1, <1>2 DEF Create, ClaimInv
  <2>. QED  BY <1>2, <2>1, RecordTypes DEF Create, Write, Wrote
<1>3. ASSUME Claim(c)
      PROVE  /\ Wrote(c, Prepared, Asked) /\ Moved(c, "claim", "notify")
             /\ rec' = [rec EXCEPT ![c] = Asked]
  <2>1. record[id[c]] = rec[c] /\ rec[c] = Prepared /\ id[c] \in Ids
    BY <1>0, <1>1, <1>3, WriterCurrent DEF Claim, Held
  <2>2. Sending(c) = Asked /\ Asked \in Record
    BY <2>1, RecordTypes DEF Sending, Asked
  <2>. QED  BY <1>3, <2>1, <2>2 DEF Claim, Write, Wrote
<1>4. ASSUME StoreSent(c)
      PROVE  Wrote(c, Asked, Told) /\ Moved(c, "sent", "answer") /\ UNCHANGED rec
  <2>1. record[id[c]] = rec[c] /\ rec[c] = Asked /\ id[c] \in Ids
    BY <1>0, <1>1, <1>4 DEF StoreSent, Held, Claiming, Asked
  <2>2. [rec[c] EXCEPT !.notification = "sent"] = Told /\ Told \in Record
    BY <2>1, RecordTypes DEF Asked, Told, Prepared
  <2>. QED  BY <1>4, <2>1, <2>2 DEF StoreSent, Write, Wrote
<1>5. ASSUME Decide(c)
      PROVE  /\ rec[c].state = "pending" /\ rec[c].notification = "sent"
             /\ \E ok \in BOOLEAN :
                  Wrote(c, rec[c], [rec[c] EXCEPT !.state = "decided", !.approved = ok])
             /\ Moved(c, "decide", "answer") /\ UNCHANGED rec
  <2>1. /\ record[id[c]] = rec[c] /\ id[c] \in Ids /\ rec[c] \in Record
        /\ rec[c].state = "pending" /\ rec[c].notification = "sent"
    BY <1>0, <1>1, <1>5, WriterCurrent DEF Decide, Held
  <2>2. PICK ok \in BOOLEAN : Write(id[c], [rec[c] EXCEPT !.state = "decided", !.approved = ok])
    BY <1>5 DEF Decide
  <2>. QED  BY <1>5, <2>1, <2>2, RecordTypes DEF Decide, Write, Wrote
<1>6. ASSUME Consume(c)
      PROVE  /\ rec[c].state = "decided" /\ rec[c].approved
             /\ Wrote(c, rec[c], [rec[c] EXCEPT !.state = "consumed"])
             /\ Moved(c, "consume", "answer") /\ UNCHANGED rec
  <2>1. /\ record[id[c]] = rec[c] /\ id[c] \in Ids /\ rec[c] \in Record
        /\ rec[c].state = "decided" /\ rec[c].approved
    BY <1>0, <1>1, <1>6, WriterCurrent DEF Consume, Held
  <2>. QED  BY <1>6, <2>1, RecordTypes DEF Consume, Write, Wrote
<1>. QED  BY <1>2, <1>3, <1>4, <1>5, <1>6

(* How a step of call c changes the record of an id.                         *)
Becomes(c, i) ==
  \/ record'[i] = record[i] /\ version'[i] = version[i]
  \/ /\ version'[i] = version[i] + 1 /\ id[c] = i
     /\ \/ pc[c] = "create" /\ record[i] = Missing /\ record'[i] = Prepared
        \/ pc[c] = "claim" /\ record[i] = Prepared /\ record'[i] = Asked
        \/ pc[c] = "sent" /\ record[i] = Asked /\ record'[i] = Told
        \/ /\ pc[c] = "decide" /\ record[i].state = "pending" /\ record[i].notification = "sent"
           /\ record'[i].state = "decided" /\ record'[i].notification = "sent"
        \/ /\ pc[c] = "consume" /\ record[i].state = "decided" /\ record[i].approved
           /\ record'[i] = [record[i] EXCEPT !.state = "consumed"]

(* The steps of a call that leave the confirmations alone.                   *)
Moves(c) ==
  Begin(c) \/ ReadContext(c) \/ Read(c) \/ Bind(c) \/ Reread(c) \/ Notify(c) \/ Notified(c)
    \/ Answer(c) \/ Review(c) \/ Fail(c)

LEMMA MovesKeep ==
  ASSUME NEW c \in Calls, Moves(c)
  PROVE  UNCHANGED <<record, version>> /\ UNCHANGED <<delivered, reviewed, lapsed>>
  BY DEF Moves, Begin, ReadContext, Read, Consider, Bind, Reread, Notify, Notified, Answer,
     Review, Fail, Quiet

LEMMA RecordSteps ==
  ASSUME IInv, NEW c \in Calls, Call(c) \/ Fail(c), NEW i \in Ids
  PROVE  Becomes(c, i)
<1>0. TypeOK
  BY DEF IInv
<1>1. CASE Moves(c)                     BY <1>1, MovesKeep DEF Becomes
<1>2. CASE Create(c)
  <2>1. Wrote(c, Missing, Prepared) /\ Moved(c, "create", "reread")
    BY <1>2, WriteSteps
  <2>2. \/ record'[i] = record[i] /\ version'[i] = version[i]
        \/ version'[i] = version[i] + 1 /\ id[c] = i /\ record[i] = Missing /\ record'[i] = Prepared
    BY <1>0, <2>1 DEF Wrote, TypeOK
  <2>3. pc[c] = "create"
    BY <2>1 DEF Moved
  <2>. QED  BY <2>2, <2>3 DEF Becomes
<1>3. CASE Claim(c)
  <2>1. Wrote(c, Prepared, Asked) /\ Moved(c, "claim", "notify")
    BY <1>3, WriteSteps
  <2>2. \/ record'[i] = record[i] /\ version'[i] = version[i]
        \/ version'[i] = version[i] + 1 /\ id[c] = i /\ record[i] = Prepared /\ record'[i] = Asked
    BY <1>0, <2>1 DEF Wrote, TypeOK
  <2>3. pc[c] = "claim"
    BY <2>1 DEF Moved
  <2>. QED  BY <2>2, <2>3 DEF Becomes
<1>4. CASE StoreSent(c)
  <2>1. Wrote(c, Asked, Told) /\ Moved(c, "sent", "answer")
    BY <1>4, WriteSteps
  <2>2. \/ record'[i] = record[i] /\ version'[i] = version[i]
        \/ version'[i] = version[i] + 1 /\ id[c] = i /\ record[i] = Asked /\ record'[i] = Told
    BY <1>0, <2>1 DEF Wrote, TypeOK
  <2>3. pc[c] = "sent"
    BY <2>1 DEF Moved
  <2>. QED  BY <2>2, <2>3 DEF Becomes
<1>5. CASE Decide(c)
  <2>1. PICK ok \in BOOLEAN : Wrote(c, rec[c], [rec[c] EXCEPT !.state = "decided", !.approved = ok])
    BY <1>5, WriteSteps
  <2>2. rec[c] \in Record /\ rec[c].state = "pending" /\ rec[c].notification = "sent"
        /\ pc[c] = "decide"
    BY <1>0, <1>5, WriteSteps, Types DEF Moved
  <2>3. LET new == [rec[c] EXCEPT !.state = "decided", !.approved = ok]
        IN  new.state = "decided" /\ new.notification = "sent"
    BY <2>2 DEF Record
  <2>4. \/ record'[i] = record[i] /\ version'[i] = version[i]
        \/ /\ version'[i] = version[i] + 1 /\ id[c] = i /\ record[i] = rec[c]
           /\ record'[i] = [rec[c] EXCEPT !.state = "decided", !.approved = ok]
    BY <1>0, <2>1 DEF Wrote, TypeOK
  <2>. QED  BY <2>2, <2>3, <2>4 DEF Becomes
<1>6. CASE Consume(c)
  <2>1. /\ Wrote(c, rec[c], [rec[c] EXCEPT !.state = "consumed"])
        /\ rec[c].state = "decided" /\ rec[c].approved /\ Moved(c, "consume", "answer")
    BY <1>6, WriteSteps
  <2>2. \/ record'[i] = record[i] /\ version'[i] = version[i]
        \/ /\ version'[i] = version[i] + 1 /\ id[c] = i /\ record[i] = rec[c]
           /\ record'[i] = [rec[c] EXCEPT !.state = "consumed"]
    BY <1>0, <2>1 DEF Wrote, TypeOK
  <2>3. pc[c] = "consume"
    BY <2>1 DEF Moved
  <2>. QED  BY <2>1, <2>2, <2>3 DEF Becomes
<1>. QED  BY <1>1, <1>2, <1>3, <1>4, <1>5, <1>6 DEF Call, Moves

(* Nobody but a call itself moves it or changes what it holds.               *)
LEMMA OthersStay ==
  ASSUME IInv, NEW c \in Calls, Call(c) \/ Fail(c), NEW d \in Calls, d # c
  PROVE  /\ pc'[d] = pc[d] /\ op'[d] = op[d] /\ id'[d] = id[d] /\ rec'[d] = rec[d]
         /\ etag'[d] = etag[d] /\ ctx'[d] = ctx[d] /\ ctxEtag'[d] = ctxEtag[d]
<1>. USE DEF IInv, TypeOK, Go
<1>1. CASE Begin(c) \/ ReadContext(c) \/ Bind(c) \/ Review(c)
  BY <1>1 DEF Begin, ReadContext, Bind, Review, Quiet
<1>2. CASE Read(c) \/ Reread(c)         BY <1>2 DEF Read, Reread, Consider
<1>3. CASE Notify(c) \/ Notified(c)     BY <1>3 DEF Notify, Notified
<1>4. CASE Answer(c) \/ Fail(c)         BY <1>4 DEF Answer, Fail, Return
<1>5. CASE Create(c) \/ Claim(c) \/ StoreSent(c) \/ Decide(c) \/ Consume(c)
  BY <1>5 DEF Create, Claim, StoreSent, Decide, Consume
<1>. QED  BY <1>1, <1>2, <1>3, <1>4, <1>5 DEF Call

-----------------------------------------------------------------------------
(* The parts of the inductive invariant, one after another.                  *)

LEMMA TypeStep ==
  ASSUME IInv, NEW c \in Calls, Call(c) \/ Fail(c)
  PROVE  TypeOK'
<1>. USE DEF TypeOK, Pcs, Go
<1>0. TypeOK
  BY DEF IInv
<1>1. CASE Begin(c)                     BY <1>0, <1>1 DEF Begin, Quiet
<1>2. CASE ReadContext(c)               BY <1>0, <1>2 DEF ReadContext, Quiet
<1>3. CASE Read(c) \/ Reread(c)
  <2>1. Stage(c) \in {"review", "decide", "claim", "answer"}
    BY <1>0 DEF Stage, Operations
  <2>2. pc[c] # "idle" /\ id[c] \in Ids
    BY <1>0, <1>3 DEF Read, Reread
  <2>3. CASE Consider(c)                BY <1>0, <2>1, <2>2, <2>3 DEF Consider, Quiet
  <2>4. CASE ~Consider(c)               BY <1>0, <1>3, <2>2, <2>4 DEF Read, Reread, Quiet
  <2>. QED  BY <2>3, <2>4
<1>4. CASE Bind(c)                      BY <1>0, <1>4 DEF Bind
<1>5. CASE Notify(c) \/ Notified(c)     BY <1>0, <1>5 DEF Notify, Notified, Quiet
<1>6. CASE Review(c)                    BY <1>0, <1>6 DEF Review, Quiet
<1>7. CASE Answer(c) \/ Fail(c)
  <2>1. Return(c) /\ UNCHANGED <<stored, posts, delivered, reviewed, lapsed>>
    BY <1>7 DEF Answer, Fail, Quiet
  <2>2. spent' \in [Ids -> Nat]
    BY <1>0, <1>7 DEF Answer, Fail, Quiet
  <2>3. "resolve" \in Operations /\ Missing \in Record
    BY RecordTypes DEF Operations
  <2>. QED  BY <1>0, <2>1, <2>2, <2>3 DEF Return
<1>8. ASSUME NEW old, NEW new, Wrote(c, old, new),
             pc' \in [Calls -> Pcs], rec' \in [Calls -> Record]
      PROVE  TypeOK'
  <2>1. \A d \in Calls : pc'[d] # "idle" => id[d] \in Ids
    <3>1. pc'[c] # "idle" => id[c] \in Ids
      BY <1>8 DEF Wrote
    <3>. QED  BY <1>0, <1>8, <3>1, OthersStay
  <2>. QED  BY <1>0, <1>8, <2>1 DEF Wrote
<1>9. CASE Create(c)
  <2>1. Wrote(c, Missing, Prepared) /\ Moved(c, "create", "reread") /\ UNCHANGED rec
    BY <1>9, WriteSteps
  <2>. QED  BY <1>0, <1>8, <2>1 DEF Moved
<1>10. CASE Claim(c)
  <2>1. /\ Wrote(c, Prepared, Asked) /\ Moved(c, "claim", "notify")
        /\ rec' = [rec EXCEPT ![c] = Asked]
    BY <1>10, WriteSteps
  <2>2. Asked \in Record
    BY RecordTypes DEF Asked
  <2>. QED  BY <1>0, <1>8, <2>1, <2>2 DEF Moved
<1>11. CASE StoreSent(c)
  <2>1. Wrote(c, Asked, Told) /\ Moved(c, "sent", "answer") /\ UNCHANGED rec
    BY <1>11, WriteSteps
  <2>. QED  BY <1>0, <1>8, <2>1 DEF Moved
<1>12. CASE Decide(c)
  <2>1. Moved(c, "decide", "answer") /\ UNCHANGED rec
    BY <1>12, WriteSteps
  <2>2. PICK ok \in BOOLEAN : Wrote(c, rec[c], [rec[c] EXCEPT !.state = "decided", !.approved = ok])
    BY <1>12, WriteSteps
  <2>. QED  BY <1>0, <1>8, <2>1, <2>2 DEF Moved
<1>13. CASE Consume(c)
  <2>1. /\ Wrote(c, rec[c], [rec[c] EXCEPT !.state = "consumed"])
        /\ Moved(c, "consume", "answer") /\ UNCHANGED rec
    BY <1>13, WriteSteps
  <2>. QED  BY <1>0, <1>8, <2>1 DEF Moved
<1>. QED
  BY <1>1, <1>2, <1>3, <1>4, <1>5, <1>6, <1>7, <1>9, <1>10, <1>11, <1>12, <1>13 DEF Call

(* What the world remembers of an id only grows.                             *)
LEMMA Grows ==
  ASSUME IInv, NEW c \in Calls, Call(c) \/ Fail(c)
  PROVE  /\ reviewed' = reviewed /\ delivered' = delivered /\ lapsed' = lapsed
         /\ \A i \in Ids : /\ version[i] <= version'[i]
                           /\ version'[i] = version[i] => record'[i] = record[i]
<1>0. TypeOK
  BY DEF IInv
<1>1. \A i \in Ids : version[i] \in Nat /\ Becomes(c, i)
  BY <1>0, RecordSteps DEF TypeOK
<1>2. reviewed' = reviewed /\ delivered' = delivered /\ lapsed' = lapsed
  <2>1. CASE Moves(c)                   BY <2>1, MovesKeep
  <2>2. CASE ~Moves(c)
    BY <2>2 DEF Call, Moves, Create, Claim, StoreSent, Decide, Consume
  <2>. QED  BY <2>1, <2>2
<1>3. \A i \in Ids : /\ version[i] <= version'[i]
                     /\ version'[i] = version[i] => record'[i] = record[i]
  <2>. TAKE i \in Ids
  <2>1. version[i] \in Nat /\ Becomes(c, i)
    BY <1>1
  <2>2. \/ version'[i] = version[i] /\ record'[i] = record[i]
        \/ version'[i] = version[i] + 1
    BY <2>1 DEF Becomes
  <2>. QED  BY <2>1, <2>2
<1>. QED  BY <1>2, <1>3

LEMMA HeldOthers ==
  ASSUME IInv, NEW c \in Calls, Call(c) \/ Fail(c), NEW b \in Calls, b # c
  PROVE  Held(b)'
<1>0. TypeOK /\ Held(b) /\ ClaimInv
  BY DEF IInv
<1>1. /\ pc'[b] = pc[b] /\ op'[b] = op[b] /\ id'[b] = id[b] /\ rec'[b] = rec[b] /\ etag'[b] = etag[b]
  BY OthersStay
<1>2. CASE id[b] \in Ids
  <2>1. /\ version[id[b]] <= version'[id[b]] /\ reviewed' = reviewed
        /\ version'[id[b]] = version[id[b]] => record'[id[b]] = record[id[b]]
        /\ version[id[b]] \in Nat /\ version'[id[b]] \in Nat /\ etag[b] \in Nat
    BY <1>0, <1>2, Grows, TypeStep DEF TypeOK
  <2>2. pc[b] \in Claiming => record'[id[b]] = record[id[b]]
    <3>. SUFFICES ASSUME pc[b] \in Claiming PROVE record'[id[b]] = record[id[b]]
      OBVIOUS
    <3>1. record[id[b]] = Asked /\ Becomes(c, id[b])
      BY <1>0, <1>2, RecordSteps DEF Held, Asked
    <3>2. ~(pc[c] = "sent" /\ id[c] = id[b])
      BY <1>0 DEF ClaimInv, Claiming
    <3>3. Asked # Missing /\ Asked # Prepared /\ Asked.state = "pending" /\ Asked.notification = "sending"
      BY DEF Asked, Missing, Prepared
    <3>. QED  BY <3>1, <3>2, <3>3 DEF Becomes
  <2>3. etag'[b] <= version'[id'[b]]
    BY <1>0, <1>1, <1>2, <2>1 DEF Held
  <2>4. etag'[b] = version'[id'[b]] => etag[b] = version[id[b]] /\ record'[id'[b]] = record[id[b]]
    BY <1>0, <1>1, <1>2, <2>1 DEF Held
  <2>. QED  BY <1>0, <1>1, <2>1, <2>2, <2>3, <2>4 DEF Held
<1>3. CASE id[b] \notin Ids
  <2>1. pc[b] = "idle"
    BY <1>0, <1>3 DEF TypeOK
  <2>. QED  BY <1>0, <1>1, <1>3, <2>1 DEF Held, Claiming
<1>. QED  BY <1>2, <1>3

LEMMA HeldSelf ==
  ASSUME IInv, NEW c \in Calls, Call(c) \/ Fail(c)
  PROVE  Held(c)'
<1>. USE DEF Go
<1>0. TypeOK /\ Held(c) /\ ClaimInv /\ TypeOK'
  BY TypeStep DEF IInv
<1>1. /\ rec[c] \in Record /\ etag[c] \in Nat /\ pc[c] \in Pcs /\ op[c] \in Operations
      /\ pc[c] # "idle" => /\ id[c] \in Ids /\ record[id[c]] \in Record /\ version[id[c]] \in Nat
  BY <1>0, Types
<1>2. /\ c \in DOMAIN pc /\ c \in DOMAIN rec /\ c \in DOMAIN etag /\ c \in DOMAIN op
      /\ c \in DOMAIN id
  BY <1>0 DEF TypeOK
<1>3. CASE Begin(c)
  <2>1. /\ pc'[c] \in {"read", "context"} /\ rec'[c] = rec[c] /\ etag'[c] = etag[c]
        /\ version' = version
    BY <1>2, <1>3 DEF Begin, Quiet
  <2>2. etag[c] = 0
    BY <1>0, <1>3 DEF Begin, Held
  <2>3. id'[c] \in Ids => version'[id'[c]] \in Nat
    BY <1>0 DEF TypeOK
  <2>. QED  BY <2>1, <2>2, <2>3 DEF Held, Claiming
<1>4. CASE Read(c) \/ Reread(c)
  <2>0. id[c] \in Ids /\ pc[c] # "idle"
    BY <1>1, <1>4 DEF Read, Reread
  <2>1. CASE Consider(c)
    <3>1. /\ pc'[c] = Stage(c) /\ rec'[c] = record[id[c]] /\ etag'[c] = version[id[c]]
          /\ op'[c] = op[c] /\ id'[c] = id[c] /\ UNCHANGED <<record, version, reviewed>>
      BY <1>2, <2>1 DEF Consider, Quiet
    <3>2. Stage(c) \in {"review", "decide", "claim", "answer"}
      BY <1>1 DEF Stage, Operations
    <3>3. Stage(c) = "claim" => record[id[c]] = Prepared /\ op[c] # "consume"
      <4>. SUFFICES ASSUME Stage(c) = "claim"
                    PROVE  record[id[c]] = Prepared /\ op[c] # "consume"
        OBVIOUS
      <4>1. op[c] \in {"request", "resolve"} /\ record[id[c]].notification = "prepared"
        BY <1>1 DEF Stage, Operations
      <4>2. record[id[c]].state = "pending"
        BY <1>0, <1>1, <2>0, <2>1, <4>1 DEF ClaimInv, Consider, Expected, Missing, Record
      <4>3. record[id[c]].approved = FALSE
        BY <1>0, <1>1, <2>0, <4>2 DEF ClaimInv, Record
      <4>. QED  BY <1>1, <2>0, <4>1, <4>2, <4>3 DEF Prepared, Record
    <3>4. Stage(c) = "decide" => /\ op[c] = "decide" /\ record[id[c]].state = "pending"
                                 /\ record[id[c]].notification = "sent"
      BY <1>1, <2>1 DEF Stage, Operations, Consider, Expected
    <3>5. Stage(c) = "review" /\ op[c] = "consume" =>
            record[id[c]].state = "decided" /\ record[id[c]].approved
      BY <2>1 DEF Consider, Expected
    <3>6. version[id[c]] <= version[id[c]]
      BY <1>1, <2>0
    <3>. QED  BY <3>1, <3>2, <3>3, <3>4, <3>5, <3>6 DEF Held, Claiming
  <2>2. CASE ~Consider(c)
    <3>1. pc[c] = "read" /\ pc'[c] \in {"bind", "create"} /\ op[c] = "request"
          /\ UNCHANGED <<locals, record, version, reviewed>>
      BY <1>2, <1>4, <2>2 DEF Read, Reread, Quiet
    <3>. QED  BY <1>0, <3>1 DEF Held, Claiming
  <2>. QED  BY <2>1, <2>2
<1>5. CASE ReadContext(c) \/ Bind(c)
  <2>1. /\ pc'[c] \in {"read", "create"} /\ (pc'[c] = "create" => pc[c] = "bind")
        /\ UNCHANGED <<op, id, rec, etag, record, version, reviewed>>
    BY <1>2, <1>5 DEF ReadContext, Bind, Quiet
  <2>. QED  BY <1>0, <2>1 DEF Held, Claiming
<1>6. CASE Review(c)
  <2>1. /\ pc[c] = "review" /\ pc'[c] = (IF op[c] = "consume" THEN "consume" ELSE "answer")
        /\ Reviewed(c) /\ UNCHANGED <<locals, record, version, reviewed>>
    BY <1>2, <1>6 DEF Review, Quiet
  <2>. QED  BY <1>0, <2>1 DEF Held, Claiming, Reviewed
<1>7. CASE Notify(c)
  <2>1. pc[c] = "notify" /\ pc'[c] = "notified" /\ UNCHANGED <<locals, record, version, reviewed>>
    BY <1>2, <1>7 DEF Notify
  <2>. QED  BY <1>0, <2>1 DEF Held, Claiming
<1>8. CASE Notified(c)
  <2>1. /\ pc[c] = "notified" /\ pc'[c] = "sent" /\ etag'[c] = version[id[c]]
        /\ UNCHANGED <<op, id, rec, record, version, reviewed>>
    BY <1>2, <1>8 DEF Notified, Quiet
  <2>2. version[id[c]] <= version[id[c]]
    BY <1>1, <2>1
  <2>. QED  BY <1>0, <2>1, <2>2 DEF Held, Claiming
<1>9. CASE Answer(c) \/ Fail(c)
  <2>1. pc'[c] = "idle" /\ etag'[c] = 0 /\ id'[c] = None
    BY <1>2, <1>9 DEF Answer, Fail, Return
  <2>. QED  BY <2>1, ConstantsAssumption DEF Held, Claiming
<1>10. CASE Claim(c)
  <2>1. /\ Wrote(c, Prepared, Asked) /\ Moved(c, "claim", "notify")
        /\ rec' = [rec EXCEPT ![c] = Asked]
    BY <1>10, WriteSteps
  <2>2. /\ pc'[c] = "notify" /\ rec'[c] = Asked /\ record'[id[c]] = Asked /\ op[c] # "consume"
        /\ id'[c] = id[c] /\ etag'[c] = etag[c] /\ op'[c] = op[c]
        /\ version'[id[c]] = version[id[c]] + 1 /\ id[c] \in Ids
    BY <1>0, <1>2, <2>1 DEF Wrote, Moved, Held, TypeOK
  <2>3. etag[c] <= version[id[c]] + 1
    BY <1>0, <1>1, <2>1, <2>2 DEF Held, Moved
  <2>. QED  BY <2>2, <2>3 DEF Held, Claiming, Asked
<1>11. CASE Create(c) \/ StoreSent(c) \/ Decide(c) \/ Consume(c)
  <2>1. /\ pc[c] \in {"create", "sent", "decide", "consume"} /\ pc'[c] \in {"reread", "answer"}
        /\ (pc'[c] = "reread" => pc[c] = "create") /\ UNCHANGED locals
    BY <1>2, <1>11 DEF Create, StoreSent, Decide, Consume
  <2>2. id[c] \in Ids => version[id[c]] <= version'[id[c]] /\ version'[id[c]] \in Nat
    BY <1>0, Grows DEF TypeOK
  <2>3. id[c] \in Ids => etag[c] <= version'[id[c]]
    BY <1>0, <1>1, <2>1, <2>2 DEF Held
  <2>. QED  BY <1>0, <2>1, <2>3 DEF Held, Claiming
<1>. QED
  BY <1>3, <1>4, <1>5, <1>6, <1>7, <1>8, <1>9, <1>10, <1>11 DEF Call

(* The binding is written once, by a call that found the context free.       *)
LEMMA BindSteps ==
  ASSUME IInv, NEW c \in Calls, Call(c) \/ Fail(c)
  PROVE  \/ UNCHANGED <<context, bindings>>
         \/ /\ Bind(c) /\ pc[c] = "bind" /\ context = None /\ context' = id[c] /\ id[c] \in Ids
            /\ bindings' = bindings + 1
<1>1. CASE Bind(c)
  <2>1. TypeOK /\ Bound(c)
    BY DEF IInv, BindInv
  <2>. QED  BY <1>1, <2>1, Types DEF Bind, Bindable, Bound
<1>2. CASE ~Bind(c)
  <2>1. CASE Read(c) \/ Reread(c)       BY <2>1 DEF Read, Reread, Consider, Quiet
  <2>2. CASE Begin(c) \/ ReadContext(c) \/ Notify(c) \/ Notified(c) \/ Answer(c) \/ Review(c) \/ Fail(c)
    BY <2>2 DEF Begin, ReadContext, Notify, Notified, Answer, Review, Fail, Quiet
  <2>3. CASE Create(c) \/ Claim(c) \/ StoreSent(c) \/ Decide(c) \/ Consume(c)
    BY <2>3 DEF Create, Claim, StoreSent, Decide, Consume, Write
  <2>. QED  BY <1>2, <2>1, <2>2, <2>3 DEF Call
<1>. QED  BY <1>1, <1>2

LEMMA BoundOthers ==
  ASSUME IInv, NEW c \in Calls, Call(c) \/ Fail(c), NEW b \in Calls, b # c
  PROVE  Bound(b)'
<1>0. TypeOK /\ Bound(b)
  BY DEF IInv, BindInv
<1>1. /\ pc'[b] = pc[b] /\ op'[b] = op[b] /\ id'[b] = id[b] /\ ctx'[b] = ctx[b]
      /\ ctxEtag'[b] = ctxEtag[b]
  BY OthersStay
<1>2. CASE UNCHANGED <<context, bindings>>
  BY <1>0, <1>1, <1>2 DEF Bound
<1>3. CASE context = None /\ context' \in Ids /\ bindings' = bindings + 1
  <2>1. ctxEtag[b] \in Nat /\ bindings \in Nat /\ (pc[b] # "idle" => id[b] \in Ids)
    BY <1>0 DEF TypeOK
  <2>2. ctx[b] = None /\ pc[b] # "create"
    BY <1>0, <1>3, <2>1, ConstantsAssumption DEF Bound
  <2>. QED  BY <1>0, <1>1, <1>3, <2>1, <2>2 DEF Bound
<1>. QED  BY <1>2, <1>3, BindSteps

LEMMA BoundSelf ==
  ASSUME IInv, NEW c \in Calls, Call(c) \/ Fail(c)
  PROVE  Bound(c)'
<1>. USE DEF Go
<1>0. TypeOK /\ Bound(c) /\ Held(c) /\ TypeOK'
  BY TypeStep DEF IInv, BindInv
<1>1. /\ ctxEtag[c] \in Nat /\ bindings \in Nat /\ op[c] \in Operations
      /\ pc[c] # "idle" => id[c] \in Ids
  BY <1>0 DEF TypeOK
<1>2. /\ c \in DOMAIN pc /\ c \in DOMAIN ctx /\ c \in DOMAIN ctxEtag /\ c \in DOMAIN op
      /\ c \in DOMAIN id
  BY <1>0 DEF TypeOK
<1>3. CASE Begin(c)
  <2>1. PICK asked \in Operations, i \in Ids :
          /\ pc'[c] = IF asked = "decide" THEN "read" ELSE "context"
          /\ op'[c] = asked
    BY <1>2, <1>3 DEF Begin
  <2>2. UNCHANGED <<ctx, ctxEtag, context, bindings>> /\ pc[c] = "idle"
    BY <1>3 DEF Begin, Quiet
  <2>3. ctx[c] = None
    BY <1>0, <2>2 DEF Bound, Held
  <2>. QED  BY <1>0, <1>1, <2>1, <2>2, <2>3 DEF Bound
<1>4. CASE ReadContext(c)
  <2>1. /\ pc'[c] = "read" /\ ctx'[c] = context /\ ctxEtag'[c] = bindings
        /\ UNCHANGED <<op, id, context, bindings>> /\ context \in {None, id[c]}
    BY <1>2, <1>4 DEF ReadContext, Quiet, Usable
  <2>2. bindings <= bindings
    BY <1>1
  <2>. QED  BY <2>1, <2>2 DEF Bound
<1>5. CASE Read(c) \/ Reread(c)
  <2>1. CASE Consider(c)
    <3>1. /\ pc'[c] = Stage(c) /\ UNCHANGED <<op, id, ctx, ctxEtag, context, bindings>>
      BY <1>2, <2>1 DEF Consider, Quiet
    <3>2. Stage(c) \in {"review", "decide", "claim", "answer"}
      BY <1>1 DEF Stage, Operations
    <3>. QED  BY <1>0, <3>1, <3>2 DEF Bound
  <2>2. CASE ~Consider(c)
    <3>1. /\ pc[c] = "read" /\ pc'[c] = (IF ctx[c] = None THEN "bind" ELSE "create")
          /\ op[c] = "request" /\ UNCHANGED <<locals, context, bindings>>
      BY <1>2, <1>5, <2>2 DEF Read, Reread, Quiet
    <3>. QED  BY <1>0, <3>1 DEF Bound
  <2>. QED  BY <2>1, <2>2
<1>6. CASE Bind(c)
  <2>1. /\ bindings' = bindings + 1 /\ context' = id[c] /\ pc'[c] = "create"
        /\ pc[c] = "bind" /\ UNCHANGED locals
    BY <1>2, <1>6 DEF Bind
  <2>2. ctx[c] = None
    BY <1>0, <2>1 DEF Bound
  <2>. QED  BY <1>0, <1>1, <2>1, <2>2 DEF Bound
<1>7. CASE Answer(c) \/ Fail(c)
  <2>1. /\ pc'[c] = "idle" /\ ctx'[c] = None /\ ctxEtag'[c] = 0
        /\ UNCHANGED <<context, bindings>>
    BY <1>2, <1>7 DEF Answer, Fail, Return, Quiet
  <2>. QED  BY <1>1, <2>1 DEF Bound
<1>8. CASE Notify(c) \/ Notified(c) \/ Review(c)
  <2>1. /\ pc'[c] \in {"notified", "sent", "consume", "answer"}
        /\ UNCHANGED <<op, id, ctx, ctxEtag, context, bindings>>
    BY <1>2, <1>8 DEF Notify, Notified, Review, Quiet
  <2>. QED  BY <1>0, <2>1 DEF Bound
<1>9. CASE Create(c) \/ Claim(c) \/ StoreSent(c) \/ Decide(c) \/ Consume(c)
  <2>1. /\ pc'[c] \in {"reread", "notify", "answer"}
        /\ UNCHANGED <<op, id, ctx, ctxEtag, context, bindings>>
    BY <1>2, <1>9 DEF Create, Claim, StoreSent, Decide, Consume, Write
  <2>. QED  BY <1>0, <2>1 DEF Bound
<1>. QED
  BY <1>3, <1>4, <1>5, <1>6, <1>7, <1>8, <1>9 DEF Call

LEMMA BindStep ==
  ASSUME IInv, NEW c \in Calls, Call(c) \/ Fail(c)
  PROVE  BindInv'
<1>0. TypeOK /\ Bound(c) /\ BindInv
  BY DEF IInv, BindInv
<1>1. ASSUME NEW i \in Ids, record'[i].state # "missing"
      PROVE  context' = i
  <2>1. context = i
    <3>1. Becomes(c, i)
      BY RecordSteps
    <3>2. \/ record[i].state # "missing"
          \/ pc[c] = "create" /\ id[c] = i
      BY <1>1, <3>1 DEF Becomes, Prepared, Asked, Told
    <3>. QED  BY <1>0, <3>2 DEF Bound, BindInv
  <2>. QED  BY <2>1, BindSteps, ConstantsAssumption
<1>2. \A b \in Calls : Bound(b)'
  BY BoundSelf, BoundOthers
<1>. QED  BY <1>1, <1>2 DEF BindInv

(* Notifying is the claimant's alone, and nobody else posts or claims.       *)
LEMMA ClaimantSteps ==
  ASSUME IInv, NEW c \in Calls, Call(c) \/ Fail(c)
  PROVE  /\ \/ posts' = posts /\ (pc'[c] \in {"notified", "sent"} => pc[c] \in {"notified", "sent"})
            \/ /\ pc[c] = "notify" /\ pc'[c] = "notified" /\ id'[c] = id[c] /\ UNCHANGED record
               /\ posts' = [posts EXCEPT ![id[c]] = 1]
         /\ pc'[c] = "notify" => pc[c] = "claim" /\ record[id[c]] = Prepared
         /\ pc'[c] = "sent" => pc[c] = "notified" /\ delivered[id[c]] = posts[id[c]]
         /\ pc'[c] \in Claiming => id'[c] = id[c] /\ id[c] \in Ids
         /\ pc'[c] \in Claiming => pc[c] \in Claiming \/ pc[c] = "claim"
         /\ pc'[c] \in Claiming => record'[id[c]].notification = "sending"
<1>. USE DEF Go
<1>0. TypeOK /\ Held(c) /\ ClaimInv /\ op[c] \in Operations
  BY DEF IInv, TypeOK
<1>1. /\ c \in DOMAIN pc /\ c \in DOMAIN id /\ (pc[c] # "idle" => id[c] \in Ids)
  BY <1>0 DEF TypeOK
<1>2. pc'[c] \in Claiming => record'[id[c]].notification = "sending"
  <2>1. Held(c)'
    BY HeldSelf
  <2>2. pc'[c] \in Claiming => id'[c] = id[c]
    <3>1. CASE Begin(c) \/ Answer(c) \/ Fail(c)
      BY <1>1, <3>1 DEF Begin, Answer, Fail, Return, Claiming
    <3>2. CASE ~(Begin(c) \/ Answer(c) \/ Fail(c))
      BY <3>2 DEF Call, ReadContext, Read, Consider, Bind, Create, Reread, Claim, Notify, Notified,
         StoreSent, Review, Consume, Decide
    <3>. QED  BY <3>1, <3>2
  <2>. QED  BY <2>1, <2>2 DEF Held, Prepared
<1>3. CASE Read(c) \/ Reread(c)
  <2>1. Stage(c) \in {"review", "decide", "claim", "answer"}
    BY <1>0 DEF Stage, Operations
  <2>2. pc'[c] \notin Claiming /\ posts' = posts
    BY <1>1, <1>3, <2>1 DEF Read, Reread, Consider, Quiet, Claiming
  <2>. QED  BY <2>2 DEF Claiming
<1>4. CASE Begin(c) \/ ReadContext(c) \/ Bind(c) \/ Review(c) \/ Answer(c) \/ Fail(c)
  <2>1. pc'[c] \notin Claiming /\ posts' = posts
    BY <1>1, <1>4 DEF Begin, ReadContext, Bind, Review, Answer, Fail, Return, Quiet, Claiming
  <2>. QED  BY <2>1 DEF Claiming
<1>5. CASE Create(c) \/ StoreSent(c) \/ Decide(c) \/ Consume(c)
  <2>1. pc'[c] \notin Claiming /\ posts' = posts
    BY <1>1, <1>5 DEF Create, StoreSent, Decide, Consume, Claiming
  <2>. QED  BY <2>1 DEF Claiming
<1>6. CASE Claim(c)
  <2>1. Wrote(c, Prepared, Asked) /\ pc[c] = "claim" /\ pc'[c] = "notify"
    BY <1>1, <1>6, WriteSteps DEF Moved
  <2>. QED  BY <1>1, <1>2, <2>1 DEF Wrote, Claiming
<1>7. CASE Notify(c)
  <2>1. /\ pc[c] = "notify" /\ pc'[c] = "notified" /\ UNCHANGED <<id, record>>
        /\ posts' = [posts EXCEPT ![id[c]] = @ + 1] /\ posts[id[c]] = 0
    BY <1>0, <1>1, <1>7 DEF Notify, ClaimInv
  <2>2. posts' = [posts EXCEPT ![id[c]] = 1]
    BY <2>1
  <2>. QED  BY <1>1, <1>2, <2>1, <2>2 DEF Claiming
<1>8. CASE Notified(c)
  <2>1. /\ pc[c] = "notified" /\ pc'[c] = "sent" /\ UNCHANGED <<id, posts>>
        /\ delivered[id[c]] = posts[id[c]]
    BY <1>1, <1>8 DEF Notified, Quiet
  <2>. QED  BY <1>1, <1>2, <2>1 DEF Claiming
<1>. QED  BY <1>3, <1>4, <1>5, <1>6, <1>7, <1>8 DEF Call

LEMMA ClaimRecords ==
  ASSUME IInv, NEW c \in Calls, Call(c) \/ Fail(c), NEW i \in Ids
  PROVE  /\ record'[i].state = "missing" => record'[i] = Missing
         /\ record'[i].state = "pending" => ~record'[i].approved
         /\ record'[i].state \in {"decided", "consumed"} => record'[i].notification = "sent"
         /\ record'[i].notification \in {"none", "prepared"} =>
              record[i].notification \in {"none", "prepared"}
         /\ record'[i].notification = "sent" =>
              \/ record[i].notification = "sent"
              \/ pc[c] = "sent" /\ id[c] = i
<1>1. TypeOK /\ ClaimInv /\ Becomes(c, i) /\ record[i] \in Record
  BY RecordSteps DEF IInv, TypeOK
<1>2. CASE record'[i] = record[i]       BY <1>1, <1>2 DEF ClaimInv
<1>3. CASE record'[i] \in {Prepared, Asked, Told}
  <2>1. /\ Prepared.state = "pending" /\ ~Prepared.approved
        /\ Asked.state = "pending" /\ ~Asked.approved
        /\ Told.state = "pending" /\ ~Told.approved
        /\ Prepared.notification = "prepared" /\ Asked.notification = "sending"
        /\ Told.notification = "sent" /\ Missing.notification = "none"
    BY DEF Prepared, Asked, Told, Missing
  <2>2. \/ record[i] = Missing /\ record'[i] = Prepared
        \/ record[i] = Prepared /\ record'[i] = Asked
        \/ record'[i] = Told /\ pc[c] = "sent" /\ id[c] = i
        \/ record'[i] = record[i]
        \/ record'[i].state # "pending"
    BY <1>1 DEF Becomes, Record
  <2>. QED  BY <1>2, <1>3, <2>1, <2>2
<1>4. CASE record'[i].state = "decided" /\ record'[i].notification = "sent"
                /\ record[i].notification = "sent"
  BY <1>4
<1>5. CASE record[i].state = "decided" /\ record'[i] = [record[i] EXCEPT !.state = "consumed"]
  <2>1. record[i].notification = "sent"
    BY <1>1, <1>5 DEF ClaimInv
  <2>. QED  BY <1>1, <1>5, <2>1 DEF Record
<1>. QED  BY <1>1, <1>2, <1>3, <1>4, <1>5 DEF Becomes

LEMMA ClaimStep ==
  ASSUME IInv, NEW c \in Calls, Call(c) \/ Fail(c)
  PROVE  ClaimInv'
<1>0. TypeOK /\ ClaimInv /\ delivered' = delivered /\ id[c] \in Ids \cup {None}
  BY Grows DEF IInv, TypeOK
<1>1. \A b \in Calls : b # c => pc'[b] = pc[b] /\ id'[b] = id[b]
  BY OthersStay
<1>2. \A b \in Calls : pc[b] # "idle" => id[b] \in Ids
  BY <1>0 DEF TypeOK
<1>3. ASSUME NEW b \in Calls, pc'[b] \in Claiming
      PROVE  /\ id'[b] = id[b] /\ id[b] \in Ids
             /\ pc[b] \in Claiming \/ (b = c /\ pc[c] = "claim" /\ record[id[c]] = Prepared)
             /\ record'[id[b]].notification = "sending"
  <2>1. CASE b = c
    BY <1>3, <2>1, ClaimantSteps DEF Claiming
  <2>2. CASE b # c
    <3>1. Held(b)' /\ pc[b] \in Claiming /\ id'[b] = id[b]
      BY <1>1, <1>3, <2>2, HeldOthers
    <3>2. rec'[b].notification = "sending" /\ record'[id[b]] = rec'[b]
      BY <1>3, <3>1 DEF Held, Prepared
    <3>. QED  BY <1>2, <3>1, <3>2 DEF Claiming
  <2>. QED  BY <2>1, <2>2
<1>4. ASSUME NEW b \in Calls, NEW d \in Calls,
             pc'[b] \in Claiming, pc'[d] \in Claiming, id'[b] = id'[d]
      PROVE  b = d
  <2>1. Prepared.notification = "prepared"
    BY DEF Prepared
  <2>. QED  BY <1>0, <1>3, <1>4, <2>1 DEF ClaimInv
<1>5. ASSUME NEW i \in Ids
      PROVE  /\ record'[i].notification \in {"none", "prepared"} =>
                  posts'[i] = 0 /\ \A b \in Calls : pc'[b] \in Claiming => id'[b] # i
             /\ posts'[i] <= 1 /\ delivered'[i] <= posts'[i]
             /\ record'[i].notification = "sent" => delivered'[i] = 1
  <2>0. posts[i] \in Nat /\ delivered[i] \in Nat /\ posts[i] <= 1 /\ delivered[i] <= posts[i]
    BY <1>0 DEF TypeOK, ClaimInv
  <2>1. \/ posts'[i] = posts[i]
        \/ /\ posts'[i] = 1 /\ pc[c] = "notify" /\ pc'[c] = "notified" /\ id[c] = i
           /\ record'[i] = record[i]
    BY <1>0, ClaimantSteps DEF TypeOK
  <2>2. pc[c] = "notify" /\ id[c] = i => record[i].notification = "sending"
    BY DEF IInv, Held, Claiming, Prepared
  <2>3. ASSUME NEW b \in Calls, pc'[b] \in Claiming
        PROVE  id'[b] = i => record'[i].notification = "sending"
    BY <1>3, <2>3
  <2>4. record'[i].notification = "sent" => delivered'[i] = 1
    BY <1>0, ClaimRecords DEF ClaimInv
  <2>5. record'[i].notification \in {"none", "prepared"} => posts'[i] = 0
    BY <1>0, <2>1, <2>2, ClaimRecords DEF ClaimInv
  <2>6. posts'[i] <= 1 /\ delivered'[i] <= posts'[i]
    BY <1>0, <2>0, <2>1
  <2>. QED  BY <2>3, <2>4, <2>5, <2>6
<1>6. ASSUME NEW b \in Calls
      PROVE  /\ pc'[b] = "notify" => posts'[id'[b]] = 0
             /\ pc'[b] \in {"notified", "sent"} => posts'[id'[b]] = 1
             /\ pc'[b] = "sent" => delivered'[id'[b]] = 1
  <2>1. CASE pc'[b] \notin Claiming     BY <2>1 DEF Claiming
  <2>2. CASE pc'[b] \in Claiming /\ b # c
    <3>1. pc[b] = pc'[b] /\ id'[b] = id[b] /\ id[b] \in Ids /\ posts'[id[b]] = posts[id[b]]
      <4>1. pc[c] = "notify" => id[c] # id[b]
        BY <1>0, <1>1, <2>2 DEF ClaimInv, Claiming
      <4>. QED  BY <1>0, <1>1, <1>3, <2>2, <4>1, ClaimantSteps DEF TypeOK
    <3>. QED  BY <1>0, <3>1 DEF ClaimInv
  <2>3. CASE pc'[b] \in Claiming /\ b = c
    <3>1. id'[c] = id[c] /\ id[c] \in Ids
      BY <1>3, <2>3
    <3>2. CASE pc'[c] = "notify"
      <4>1. posts[id[c]] = 0
        BY <1>0, <3>1, <3>2, ClaimantSteps DEF ClaimInv, Prepared
      <4>2. posts' = posts
        BY <3>2, ClaimantSteps
      <4>. QED  BY <2>3, <3>1, <3>2, <4>1, <4>2
    <3>3. CASE pc'[c] \in {"notified", "sent"}
      <4>1. \/ posts' = posts /\ pc[c] \in {"notified", "sent"}
            \/ posts'[id[c]] = 1
        BY <1>0, <3>1, <3>3, ClaimantSteps DEF TypeOK
      <4>2. posts'[id[c]] = 1
        BY <1>0, <4>1 DEF ClaimInv
      <4>3. pc'[c] = "sent" => delivered[id[c]] = 1
        <5>. SUFFICES ASSUME pc'[c] = "sent" PROVE delivered[id[c]] = 1
          OBVIOUS
        <5>1. pc[c] = "notified" /\ delivered[id[c]] = posts[id[c]]
          BY ClaimantSteps
        <5>. QED  BY <1>0, <5>1 DEF ClaimInv
      <4>. QED  BY <1>0, <2>3, <3>1, <3>3, <4>2, <4>3
    <3>. QED  BY <2>3, <3>2, <3>3 DEF Claiming
  <2>. QED  BY <2>1, <2>2, <2>3
<1>. QED  BY <1>4, <1>5, <1>6, ClaimRecords DEF ClaimInv

(* Only a consumption's write leads to its acknowledgement.                  *)
LEMMA AckSteps ==
  ASSUME IInv, NEW c \in Calls, Call(c) \/ Fail(c)
  PROVE  /\ Acking(c)' => /\ pc[c] = "consume" /\ id[c] \in Ids /\ id'[c] = id[c]
                          /\ record[id[c]].state = "decided" /\ record'[id[c]].state = "consumed"
         /\ \/ spent' = spent
            \/ /\ Acking(c) /\ UNCHANGED record /\ id[c] \in Ids
               /\ spent' = [spent EXCEPT ![id[c]] = @ + 1]
<1>. USE DEF Go
<1>0. TypeOK /\ Held(c) /\ op[c] \in Operations
  BY DEF IInv, TypeOK
<1>1. /\ c \in DOMAIN pc /\ c \in DOMAIN op /\ (pc[c] # "idle" => id[c] \in Ids)
  BY <1>0 DEF TypeOK
<1>2. CASE Read(c) \/ Reread(c)
  <2>1. Stage(c) \in {"review", "decide", "claim", "answer"} /\ (Stage(c) = "answer" => op[c] # "consume")
    BY <1>0 DEF Stage, Operations
  <2>2. UNCHANGED <<op, spent>> /\ (pc'[c] = "answer" => op[c] # "consume")
    BY <1>1, <1>2, <2>1 DEF Read, Reread, Consider, Quiet
  <2>. QED  BY <2>2 DEF Acking
<1>3. CASE Begin(c) \/ ReadContext(c) \/ Bind(c) \/ Create(c) \/ Claim(c) \/ Notify(c) \/ Notified(c)
           \/ Fail(c)
  <2>1. pc'[c] # "answer" /\ spent' = spent
    BY <1>1, <1>3 DEF Begin, ReadContext, Bind, Create, Claim, Notify, Notified, Fail, Return, Quiet
  <2>. QED  BY <2>1 DEF Acking
<1>4. CASE Review(c) \/ StoreSent(c) \/ Decide(c)
  <2>1. UNCHANGED <<op, spent>> /\ (pc'[c] = "answer" => op[c] # "consume")
    BY <1>0, <1>1, <1>4 DEF Review, StoreSent, Decide, Quiet, Held, Claiming
  <2>. QED  BY <2>1 DEF Acking
<1>5. CASE Answer(c)
  <2>1. /\ pc[c] = "answer" /\ pc'[c] = "idle" /\ UNCHANGED record
        /\ spent' = IF op[c] = "consume" THEN [spent EXCEPT ![id[c]] = @ + 1] ELSE spent
    BY <1>1, <1>5 DEF Answer, Return
  <2>. QED  BY <1>1, <2>1 DEF Acking
<1>6. CASE Consume(c)
  <2>1. /\ Wrote(c, rec[c], [rec[c] EXCEPT !.state = "consumed"]) /\ rec[c].state = "decided"
        /\ pc[c] = "consume" /\ rec[c] \in Record
    BY <1>0, <1>6, WriteSteps, Types DEF Moved
  <2>. QED  BY <1>0, <1>1, <2>1 DEF Wrote, TypeOK, Record
<1>. QED  BY <1>2, <1>3, <1>4, <1>5, <1>6 DEF Call

LEMMA SpentStep ==
  ASSUME IInv, NEW c \in Calls, Call(c) \/ Fail(c)
  PROVE  SpentInv'
<1>0. TypeOK /\ SpentInv /\ Held(c) /\ reviewed' = reviewed
  BY Grows DEF IInv
<1>1. ASSUME NEW b \in Calls, Acking(b)'
      PROVE  /\ id'[b] = id[b] /\ id[b] \in Ids /\ record'[id[b]].state = "consumed"
             /\ \/ Acking(b) /\ b # c
                \/ b = c /\ record[id[b]].state = "decided"
  <2>1. CASE b = c                      BY <1>1, <2>1, AckSteps
  <2>2. CASE b # c
    <3>1. Acking(b) /\ id'[b] = id[b]
      BY <1>1, <2>2, OthersStay DEF Acking
    <3>2. id[b] \in Ids /\ record[id[b]].state = "consumed"
      BY <1>0, <3>1 DEF Acking, TypeOK, SpentInv
    <3>3. Becomes(c, id[b])
      BY <3>2, RecordSteps
    <3>. QED  BY <2>2, <3>1, <3>2, <3>3 DEF Becomes, Missing, Prepared, Asked
  <2>. QED  BY <2>1, <2>2
<1>2. ASSUME NEW b \in Calls, NEW d \in Calls, Acking(b)', Acking(d)', id'[b] = id'[d]
      PROVE  b = d
  BY <1>0, <1>1, <1>2 DEF SpentInv
<1>3. ASSUME NEW i \in Ids
      PROVE  /\ record'[i].state # "consumed" =>
                  spent'[i] = 0 /\ \A b \in Calls : Acking(b)' => id'[b] # i
             /\ spent'[i] # 0 => \A b \in Calls : Acking(b)' => id'[b] # i
             /\ spent'[i] <= 1
             /\ record'[i].state = "consumed" =>
                  record'[i].approved /\ (ReviewRequired => i \in reviewed')
  <2>0. Becomes(c, i) /\ spent[i] \in Nat /\ record[i] \in Record
    BY <1>0, RecordSteps DEF TypeOK
  <2>1. record[i].state = "consumed" => record'[i] = record[i]
    BY <2>0 DEF Becomes, Missing, Prepared, Asked
  <2>2. \/ spent'[i] = spent[i]
        \/ Acking(c) /\ id[c] = i /\ record' = record /\ spent'[i] = spent[i] + 1
    BY <1>0, AckSteps DEF TypeOK
  <2>3. Acking(c) /\ id[c] = i => record[i].state = "consumed" /\ spent[i] = 0
    BY <1>0 DEF SpentInv
  <2>4. record'[i].state # "consumed" => spent'[i] = 0
    BY <1>0, <2>1, <2>2, <2>3 DEF SpentInv
  <2>5. spent'[i] <= 1
    BY <1>0, <2>0, <2>2, <2>3 DEF SpentInv
  <2>6. \A b \in Calls : Acking(b)' => (id'[b] = i => record'[i].state = "consumed")
    BY <1>1
  <2>7. ASSUME NEW b \in Calls, Acking(b)', id'[b] = i PROVE spent'[i] = 0
    <3>1. spent[i] = 0
      BY <1>0, <1>1, <2>7 DEF SpentInv
    <3>2. ~(Acking(c) /\ id[c] = i)
      BY <1>0, <1>1, <2>3, <2>7 DEF SpentInv
    <3>. QED  BY <2>2, <3>1, <3>2
  <2>8. record'[i].state = "consumed" => record'[i].approved /\ (ReviewRequired => i \in reviewed')
    <3>. SUFFICES ASSUME record'[i].state = "consumed"
                  PROVE  record'[i].approved /\ (ReviewRequired => i \in reviewed')
      OBVIOUS
    <3>1. CASE record'[i] = record[i]
      BY <1>0, <3>1 DEF SpentInv
    <3>2. CASE /\ pc[c] = "consume" /\ id[c] = i /\ record[i].approved
               /\ record'[i] = [record[i] EXCEPT !.state = "consumed"]
      BY <1>0, <2>0, <3>2 DEF Held, Record
    <3>. QED  BY <2>0, <3>1, <3>2 DEF Becomes, Prepared, Asked, Told
  <2>. QED  BY <2>4, <2>5, <2>6, <2>7, <2>8
<1>. QED  BY <1>2, <1>3 DEF SpentInv

-----------------------------------------------------------------------------
(* The messenger, the reviewer's spent grant and the clock.                  *)
Around == (\E i \in Ids : Deliver(i) \/ ReviewSpent(i) \/ Lapse(i)) \/ UNCHANGED vars

LEMMA AroundKeeps == IInv /\ Around => IInv'
<1>. SUFFICES ASSUME IInv, Around PROVE IInv'
  OBVIOUS
<1>0. /\ UNCHANGED <<stored, posts, spent, pc, locals>> /\ reviewed \subseteq reviewed'
      /\ reviewed' \subseteq Ids /\ lapsed' \subseteq Ids
      /\ \/ delivered' = delivered
         \/ \E i \in Ids : /\ delivered[i] < posts[i]
                            /\ delivered' = [delivered EXCEPT ![i] = @ + 1]
  BY DEF Around, Deliver, ReviewSpent, Lapse, vars, IInv, TypeOK
<1>1. \A i \in Ids : /\ delivered[i] \in Nat /\ posts[i] \in Nat /\ posts[i] <= 1
                     /\ delivered[i] <= posts[i] /\ delivered'[i] \in Nat
                     /\ delivered[i] <= delivered'[i] /\ delivered'[i] <= posts[i]
  <2>. TAKE i \in Ids
  <2>1. /\ delivered[i] \in Nat /\ posts[i] \in Nat /\ posts[i] <= 1
        /\ delivered[i] <= posts[i]
    BY DEF IInv, TypeOK, ClaimInv
  <2>2. \/ delivered'[i] = delivered[i]
        \/ delivered[i] < posts[i] /\ delivered'[i] = delivered[i] + 1
    BY <1>0 DEF IInv, TypeOK
  <2>. QED  BY <2>1, <2>2
<1>2. TypeOK'
  <2>1. delivered' \in [Ids -> Nat]
    BY <1>0 DEF IInv, TypeOK
  <2>. QED  BY <1>0, <2>1 DEF IInv, TypeOK
<1>3. \A c \in Calls : Held(c)' /\ Bound(c)'
  BY <1>0 DEF IInv, BindInv, Held, Bound
<1>4. BindInv' /\ SpentInv'
  BY <1>0, <1>3 DEF IInv, BindInv, SpentInv, Acking
<1>5. ClaimInv'
  <2>1. \A i \in Ids : delivered[i] = 1 => delivered'[i] = 1
    BY <1>1
  <2>2. \A c \in Calls : pc[c] = "sent" => id[c] \in Ids
    BY DEF IInv, TypeOK
  <2>. QED  BY <1>0, <1>1, <2>1, <2>2 DEF IInv, ClaimInv
<1>. QED  BY <1>2, <1>3, <1>4, <1>5 DEF IInv

LEMMA WholeStep == IInv /\ [Next]_vars => IInv'
<1>. SUFFICES ASSUME IInv, [Next]_vars PROVE IInv'
  OBVIOUS
<1>1. ASSUME NEW c \in Calls, Call(c) \/ Fail(c) PROVE IInv'
  <2>1. \A b \in Calls : Held(b)'
    BY <1>1, HeldSelf, HeldOthers
  <2>. QED  BY <1>1, <2>1, TypeStep, BindStep, ClaimStep, SpentStep DEF IInv
<1>. QED  BY <1>1, AroundKeeps DEF Next, Around

(* Every reachable state satisfies the inductive invariant: the binding, the *)
(* one claimant and the one acknowledgement behind the properties below.     *)
THEOREM ConfirmationInvariant == Spec => []IInv
  BY WholeInit, WholeStep, PTL DEF Spec

(* Every variable of the confirmations and their callers keeps its type.    *)
THEOREM ConfirmationTypeOK == Spec => []TypeOK
<1>1. IInv => TypeOK
  BY DEF IInv
<1>. QED  BY <1>1, ConfirmationInvariant, PTL

(* One message asks the user, whatever ids, calls and retries there are.     *)
THEOREM ConfirmationAskedOnce == Spec => []AskedOnce
<1>1. IInv => AskedOnce
  <2>. SUFFICES ASSUME IInv, NEW i \in Ids, NEW j \in Ids, posts[i] > 0, posts[j] > 0
                PROVE  i = j /\ posts[i] = 1
    BY DEF AskedOnce
  <2>1. \A k \in Ids : posts[k] > 0 => context = k /\ posts[k] = 1
    <3>. SUFFICES ASSUME NEW k \in Ids, posts[k] > 0 PROVE context = k /\ posts[k] = 1
      OBVIOUS
    <3>1. posts[k] \in Nat /\ posts[k] <= 1
      BY DEF IInv, TypeOK, ClaimInv
    <3>2. record[k].state # "missing"
      BY <3>1 DEF IInv, ClaimInv, Missing
    <3>. QED  BY <3>1, <3>2 DEF IInv, BindInv
  <2>. QED  BY <2>1
<1>. QED  BY <1>1, ConfirmationInvariant, PTL

(* A confirmation is spent once, by approval of a user who was asked, with   *)
(* the reviewer's grant spent where one is required.                         *)
THEOREM ConfirmationSpentIsJustified == Spec => []SpentIsJustified
<1>1. IInv => SpentIsJustified
  <2>. SUFFICES ASSUME IInv, NEW i \in Ids
                PROVE  /\ spent[i] <= 1
                       /\ record[i].state = "consumed" =>
                            /\ record[i].approved /\ context = i /\ delivered[i] > 0
                            /\ ReviewRequired => i \in reviewed
    BY DEF SpentIsJustified
  <2>1. record[i].state = "consumed" => delivered[i] = 1 /\ context = i
    BY DEF IInv, ClaimInv, BindInv
  <2>. QED  BY <2>1 DEF IInv, SpentInv
<1>. QED  BY <1>1, ConfirmationInvariant, PTL

-----------------------------------------------------------------------------
(* The confirmations implement the one-use authorities of the dispatcher.    *)

Shown(r) == [phase |-> IF r.state = "missing" THEN "none" ELSE r.state, approved |-> r.approved]
ShownRequested(i) ==
  record[i].state = "missing" /\ Shown(record'[i]) = [Shown(record[i]) EXCEPT !.phase = "pending"]
ShownDecided(i) ==
  /\ record[i].state = "pending"
  /\ \E ok \in BOOLEAN : Shown(record'[i]) = [phase |-> "decided", approved |-> ok]
ShownConsumed(i) ==
  record[i].state = "decided" /\ Shown(record'[i]) = [Shown(record[i]) EXCEPT !.phase = "consumed"]

LEMMA ShownSteps ==
  ASSUME IInv, NEW c \in Calls, Call(c) \/ Fail(c), NEW i \in Ids
  PROVE  \/ Shown(record'[i]) = Shown(record[i])
         \/ id[c] = i /\ (ShownRequested(i) \/ ShownDecided(i) \/ ShownConsumed(i))
<1>0. Becomes(c, i) /\ record'[i] \in Record /\ record[i] \in Record
  BY RecordSteps, TypeStep DEF IInv, TypeOK
<1>1. CASE record'[i] = record[i]
  BY <1>1
<1>2. CASE id[c] = i /\ record[i] = Missing /\ record'[i] = Prepared
  <2>1. /\ record[i].state = "missing" /\ record'[i].state = "pending"
        /\ record'[i].approved = record[i].approved
    BY <1>2 DEF Missing, Prepared
  <2>. QED  BY <1>0, <1>2, <2>1 DEF ShownRequested, Shown, Record
<1>3. CASE \/ record[i] = Prepared /\ record'[i] = Asked
           \/ record[i] = Asked /\ record'[i] = Told
  BY <1>3 DEF Shown, Prepared, Asked, Told
<1>4. CASE id[c] = i /\ record[i].state = "pending" /\ record'[i].state = "decided"
  <2>1. record'[i].approved \in BOOLEAN
    BY <1>0 DEF Record
  <2>. QED  BY <1>4, <2>1 DEF ShownDecided, Shown
<1>5. CASE /\ id[c] = i /\ record[i].state = "decided"
           /\ record'[i] = [record[i] EXCEPT !.state = "consumed"]
  BY <1>0, <1>5 DEF ShownConsumed, Shown, Record
<1>. QED  BY <1>0, <1>1, <1>2, <1>3, <1>4, <1>5 DEF Becomes

(* request, resolve, decide and consume, raced, retried and cut off, are the *)
(* atomic request, decision and consumption of one-use authorities.          *)
THEOREM ConfirmationImplementsOneUse == Spec => ImplementsOneUse
<1>. DEFINE use == [i \in Ids |-> Shown(record[i])]
<1>1. Init => Authorities!Init
  BY DEF Init, Missing, Authorities!Init, Authorities!Absent
<1>2. IInv /\ [Next]_vars => [Authorities!Next]_use
  <2>. SUFFICES ASSUME IInv, [Next]_vars PROVE [Authorities!Next]_use
    OBVIOUS
  <2>1. CASE Around
    <3>1. UNCHANGED record
      BY <2>1 DEF Around, Deliver, ReviewSpent, Lapse, vars
    <3>. QED  BY <3>1
  <2>2. ASSUME NEW c \in Calls, Call(c) \/ Fail(c) PROVE [Authorities!Next]_use
    <3>1. CASE \A i \in Ids : Shown(record'[i]) = Shown(record[i])
      BY <3>1
    <3>2. ASSUME NEW i \in Ids, Shown(record'[i]) # Shown(record[i])
          PROVE  [Authorities!Next]_use
      <4>1. /\ id[c] = i /\ (ShownRequested(i) \/ ShownDecided(i) \/ ShownConsumed(i))
            /\ \A j \in Ids : j # i => Shown(record'[j]) = Shown(record[j])
        BY <2>2, <3>2, ShownSteps
      <4>2. use' = [use EXCEPT ![i] = Shown(record'[i])]
        BY <4>1
      <4>3. CASE ShownRequested(i)
        BY <4>2, <4>3 DEF ShownRequested, Shown, Authorities!Next, Authorities!Request
      <4>4. CASE ShownDecided(i)
        BY <4>2, <4>4 DEF ShownDecided, Shown, Authorities!Next, Authorities!Decide
      <4>5. CASE ShownConsumed(i)
        BY <4>2, <4>5 DEF ShownConsumed, Shown, Authorities!Next, Authorities!Consume
      <4>. QED  BY <4>1, <4>3, <4>4, <4>5
    <3>. QED  BY <3>1, <3>2
  <2>. QED  BY <2>1, <2>2 DEF Next, Around
<1>. QED
  BY <1>1, <1>2, ConfirmationInvariant, PTL DEF Spec, ImplementsOneUse, Authorities!Spec, Shown

(* So what every store of one-use authorities promises holds of this one.    *)
AuthorityUse == INSTANCE OneUse_proofs WITH use <- [i \in Ids |-> Shown(record[i])]

(* The user's answer is not changed and its consumption is not taken back,   *)
(* by any call that was under way when it was written, or by any retry.      *)
THEOREM ConfirmationNeverUndone == Spec => Authorities!NeverUndone
<1>. DEFINE use == [i \in Ids |-> Shown(record[i])]
<1>1. Authorities!Init => AuthorityUse!Init
  BY DEF Authorities!Init, Authorities!Absent, AuthorityUse!Init, AuthorityUse!Absent, Shown
<1>2. [Authorities!Next]_use => [AuthorityUse!Next]_use
  BY DEF Authorities!Next, Authorities!Request, Authorities!Decide, Authorities!Consume, Shown,
     AuthorityUse!Next, AuthorityUse!Request, AuthorityUse!Decide, AuthorityUse!Consume
<1>3. [\A i \in Ids : AuthorityUse!Stays(i)]_use => [\A i \in Ids : Authorities!Stays(i)]_use
  BY DEF Authorities!Stays, AuthorityUse!Stays, Shown
<1>. QED
  BY <1>1, <1>2, <1>3, ConfirmationImplementsOneUse, AuthorityUse!OneUseNeverUndone, PTL
  DEF ImplementsOneUse, Authorities!Spec, Authorities!NeverUndone, AuthorityUse!Spec,
      AuthorityUse!NeverUndone, Shown

-----------------------------------------------------------------------------
(* The context is bound by a choice made once (DecideOnce).                  *)

Posted == {i \in Ids : posts[i] > 0}

LEMMA PostedIsBound ==
  ASSUME IInv, NEW i \in Ids, posts[i] > 0
  PROVE  context = i
<1>1. posts[i] \in Nat
  BY DEF IInv, TypeOK
<1>2. record[i].state # "missing"
  BY <1>1 DEF IInv, ClaimInv, Missing
<1>. QED  BY <1>2 DEF IInv, BindInv

LEMMA BindingSteps ==
  ASSUME IInv, [Next]_vars
  PROVE  \/ UNCHANGED <<context, posts>>
         \/ context = None /\ context' \in Ids /\ UNCHANGED posts
         \/ /\ context \in Ids /\ UNCHANGED context
            /\ posts' = [posts EXCEPT ![context] = 1]
<1>1. ASSUME NEW c \in Calls, Call(c) \/ Fail(c), posts' = [posts EXCEPT ![id[c]] = 1],
             pc[c] = "notify"
      PROVE  context \in Ids /\ UNCHANGED context /\ posts' = [posts EXCEPT ![context] = 1]
  <2>1. id[c] \in Ids /\ record[id[c]].state = "pending"
    BY <1>1 DEF IInv, TypeOK, Held, Claiming, Prepared
  <2>2. context = id[c]
    BY <2>1 DEF IInv, BindInv
  <2>. QED  BY <1>1, <2>1, <2>2, BindSteps
<1>2. ASSUME NEW c \in Calls, Call(c) \/ Fail(c), UNCHANGED posts
      PROVE  \/ UNCHANGED <<context, posts>>
             \/ context = None /\ context' \in Ids /\ UNCHANGED posts
  BY <1>2, BindSteps
<1>3. CASE Around
  BY <1>3 DEF Around, Deliver, ReviewSpent, Lapse, vars
<1>. QED  BY <1>1, <1>2, <1>3, ClaimantSteps DEF Next, Around

LEMMA ChoiceSteps ==
  ASSUME IInv, [Next]_vars
  PROVE  [Binding!Next]_<<{context} \ {None}, [u \in {"user"} |-> Posted]>>
<1>0. posts \in [Ids -> Nat] /\ context \in Ids \cup {None} /\ None \notin Ids
  BY ConstantsAssumption DEF IInv, TypeOK
<1>1. CASE UNCHANGED <<context, posts>>
  BY <1>1 DEF Posted
<1>2. CASE context = None /\ context' \in Ids /\ UNCHANGED posts
  <2>1. Binding!Choose
    BY <1>0, <1>2 DEF Binding!Choose
  <2>. QED  BY <2>1 DEF Binding!Next
<1>3. CASE context \in Ids /\ UNCHANGED context /\ posts' = [posts EXCEPT ![context] = 1]
  <2>1. \A i \in Ids : i # context => ~(posts[i] > 0)
    BY PostedIsBound
  <2>2. \A i \in Ids : posts'[i] > 0 <=> i = context
    BY <1>0, <1>3, <2>1
  <2>3. Posted' = {context}
    BY <1>3, <2>2 DEF Posted
  <2>4. Binding!Learn("user")
    BY <1>0, <1>3, <2>3 DEF Binding!Learn, Posted
  <2>. QED  BY <2>4 DEF Binding!Next
<1>. QED  BY <1>1, <1>2, <1>3, BindingSteps

(* Whatever ids attempts mint and however binding races retry, one of them   *)
(* is chosen for the context, and the user is asked to confirm only that.    *)
THEOREM ConfirmationImplementsDecision == Spec => ImplementsDecision
<1>1. Init => Binding!Init
  BY DEF Init, Binding!Init
<1>. QED
  BY <1>1, ChoiceSteps, ConfirmationInvariant, PTL
  DEF Spec, ImplementsDecision, Binding!Spec, Posted

(* So a context is never bound again, nor the user asked about another id.   *)
THEOREM ConfirmationStandsForGood == Spec => []Binding!Agreement /\ Binding!ChosenForGood
<1>. DEFINE chosen == {context} \ {None}
            told == [u \in {"user"} |-> Posted]
<1>1. IInv => Binding!Agreement
  <2>1. IInv => \A i \in Ids : posts[i] > 0 => context = i
    BY PostedIsBound
  <2>. QED  BY <2>1, ConstantsAssumption DEF Binding!Agreement
<1>2. [Binding!Next]_<<chosen, told>> => [chosen # {} => chosen' = chosen]_<<chosen, told>>
  BY DEF Binding!Next, Binding!Choose, Binding!Learn, Posted
<1>. QED
  BY <1>1, <1>2, ConfirmationInvariant, ConfirmationImplementsDecision, PTL
  DEF ImplementsDecision, Binding!Spec, Binding!ChosenForGood, Posted
=============================================================================
