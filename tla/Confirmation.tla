---------------------------- MODULE Confirmation ----------------------------
(***************************************************************************)
(* The control plane's authority for the confirmations of ONE requesting   *)
(* user's context: concurrent calls of ConfirmationService.resolve (the    *)
(* gateway's request, resolve, consume and validate) and decide (the       *)
(* user's answer) under a profile that notifies the user by a POST.        *)
(*                                                                         *)
(* A context is bound by a replace to the first confirmation asked under   *)
(* it, before that confirmation's record is created.  A call that is       *)
(* refused, or fails at an await, writes nothing more and returns: Fail.   *)
(***************************************************************************)
EXTENDS Naturals, FiniteSets

CONSTANTS
  Calls,           \* requests the service handles at a time
  Ids,             \* confirmation ids minted for this context's operation
  None,            \* the null of a stored field
  ReviewRequired   \* BOOLEAN: an independent reviewer must have approved too

ASSUME ConstantsAssumption ==
  None \notin Ids /\ IsFiniteSet(Ids) /\ ReviewRequired \in BOOLEAN

VARIABLES
  context, bindings,  \* the confirmation the context is bound to, and its etag
  record, version,    \* per id: the stored confirmation and its etag
  posts,              \* history, per id: notifications posted
  delivered,          \* per id: those the user's messenger has delivered
  reviewed,           \* ids whose reviewer grant was spent
  lapsed,             \* ids past their expiry, or whose context or policy is
  spent,              \* history, per id: consumptions acknowledged
  pc, op, id,         \* per call: next await, operation asked, confirmation id
  ctx, ctxEtag,       \* per call: the binding it read and its etag
  rec, etag           \* per call: the record it read and its etag

stored == <<context, bindings, record, version>>
outside == <<posts, delivered, reviewed, lapsed, spent>>
locals == <<op, id, ctx, ctxEtag, rec, etag>>
vars == <<stored, outside, pc, locals>>

Operations == {"request", "resolve", "consume", "validate", "decide"}
Record == [state : {"missing", "pending", "decided", "consumed"},
           notification : {"none", "prepared", "sending", "sent"}, approved : BOOLEAN]
Missing == [state |-> "missing", notification |-> "none", approved |-> FALSE]
Prepared == [state |-> "pending", notification |-> "prepared", approved |-> FALSE]

Init ==
  /\ context = None /\ bindings = 0
  /\ record = [i \in Ids |-> Missing] /\ version = [i \in Ids |-> 0]
  /\ posts = [i \in Ids |-> 0] /\ delivered = [i \in Ids |-> 0]
  /\ reviewed = {} /\ lapsed = {}
  /\ spent = [i \in Ids |-> 0]
  /\ pc = [c \in Calls |-> "idle"] /\ op = [c \in Calls |-> "resolve"]
  /\ id = [c \in Calls |-> None] /\ ctx = [c \in Calls |-> None]
  /\ ctxEtag = [c \in Calls |-> 0] /\ rec = [c \in Calls |-> Missing]
  /\ etag = [c \in Calls |-> 0]

Go(c, next) == pc' = [pc EXCEPT ![c] = next]
Live(c) == id[c] \notin lapsed
Quiet == UNCHANGED <<stored, outside>>

(* The answer leaves the handler, whose locals go out of scope.            *)
Return(c) ==
  /\ Go(c, "idle")
  /\ op' = [op EXCEPT ![c] = "resolve"] /\ id' = [id EXCEPT ![c] = None]
  /\ ctx' = [ctx EXCEPT ![c] = None] /\ ctxEtag' = [ctxEtag EXCEPT ![c] = 0]
  /\ rec' = [rec EXCEPT ![c] = Missing] /\ etag' = [etag EXCEPT ![c] = 0]

(* The gateway's call starts from the context, the user's from the record. *)
Begin(c) ==
  /\ pc[c] = "idle"
  /\ \E asked \in Operations, i \in Ids \ lapsed :
       /\ op' = [op EXCEPT ![c] = asked] /\ id' = [id EXCEPT ![c] = i]
       /\ Go(c, IF asked = "decide" THEN "read" ELSE "context")
  /\ Quiet /\ UNCHANGED <<ctx, ctxEtag, rec, etag>>

UsableWhenFree(c) == context = None        \* bug: its own binding refuses a retry
Usable(c) == context \in {None, id[c]}

ReadContext(c) ==
  /\ pc[c] = "context" /\ Live(c) /\ Usable(c)
  /\ ctx' = [ctx EXCEPT ![c] = context] /\ ctxEtag' = [ctxEtag EXCEPT ![c] = bindings]
  /\ Go(c, "read")
  /\ Quiet /\ UNCHANGED <<op, id, rec, etag>>

(* What resolve and decide do with the record in hand.                     *)
Expected(c) == LET r == record[id[c]] IN
  CASE op[c] \in {"request", "resolve"} -> r.state # "consumed" /\ r.notification # "sending"
    [] op[c] = "consume"  -> r.state = "decided" /\ r.approved
    [] op[c] = "validate" -> r.state = "consumed" /\ r.approved
    [] op[c] = "decide"   -> r.state = "pending" /\ r.notification = "sent"

Stage(c) ==
  CASE op[c] \in {"consume", "validate"} -> "review"
    [] op[c] = "decide" -> "decide"
    [] op[c] \in {"request", "resolve"} ->
         IF record[id[c]].notification = "prepared" THEN "claim" ELSE "answer"

Consider(c) ==
  /\ Expected(c)
  /\ rec' = [rec EXCEPT ![c] = record[id[c]]] /\ etag' = [etag EXCEPT ![c] = version[id[c]]]
  /\ Go(c, Stage(c))
  /\ Quiet /\ UNCHANGED <<op, id, ctx, ctxEtag>>

Read(c) ==
  /\ pc[c] = "read" /\ Live(c)
  /\ \/ record[id[c]].state # "missing" /\ Consider(c)
     \/ /\ record[id[c]].state = "missing" /\ op[c] = "request"
        /\ Go(c, IF ctx[c] = None THEN "bind" ELSE "create")
        /\ Quiet /\ UNCHANGED locals

(* The binding is a replace under the etag the context was read with.      *)
BoundAnyway(c) == TRUE                     \* bug: the binding is an upsert
Bindable(c) == bindings = ctxEtag[c]

Bind(c) ==
  /\ pc[c] = "bind" /\ Bindable(c)
  /\ context' = id[c] /\ bindings' = bindings + 1
  /\ Go(c, "create") /\ UNCHANGED <<record, version, outside, locals>>

Write(i, new) ==
  /\ record' = [record EXCEPT ![i] = new] /\ version' = [version EXCEPT ![i] = @ + 1]
  /\ UNCHANGED <<context, bindings>>

Create(c) ==
  /\ pc[c] = "create" /\ record[id[c]].state = "missing"
  /\ Write(id[c], Prepared)
  /\ Go(c, "reread") /\ UNCHANGED <<outside, locals>>

Reread(c) == pc[c] = "reread" /\ Consider(c)

Upsert(c) == TRUE                          \* bug: the etag is not a condition
Current(c) == version[id[c]] = etag[c]

(* The claim comes first: a lost acknowledgement remains "sending".        *)
Sending(c) == [rec[c] EXCEPT !.notification = "sending"]
Claim(c) ==
  /\ pc[c] = "claim" /\ Current(c)
  /\ Write(id[c], Sending(c))
  /\ rec' = [rec EXCEPT ![c] = Sending(c)]
  /\ Go(c, "notify") /\ UNCHANGED <<outside, op, id, ctx, ctxEtag, etag>>

Notify(c) ==
  /\ pc[c] = "notify" /\ Live(c)
  /\ posts' = [posts EXCEPT ![id[c]] = @ + 1]
  /\ Go(c, "notified")
  /\ UNCHANGED <<stored, delivered, reviewed, lapsed, spent, locals>>

(* 200 with the confirmation id; the claim is then read back.              *)
Notified(c) ==
  /\ pc[c] = "notified" /\ delivered[id[c]] = posts[id[c]] /\ Live(c)
  /\ record[id[c]] = rec[c]
  /\ etag' = [etag EXCEPT ![c] = version[id[c]]]
  /\ Go(c, "sent") /\ Quiet /\ UNCHANGED <<op, id, ctx, ctxEtag, rec>>

StoreSent(c) ==
  /\ pc[c] = "sent" /\ Current(c)
  /\ Write(id[c], [rec[c] EXCEPT !.notification = "sent"])
  /\ Go(c, "answer") /\ UNCHANGED <<outside, locals>>

(* request, resolve and validate write nothing more; decide and consume    *)
(* have just written what they report.                                     *)
Answer(c) ==
  /\ pc[c] = "answer" /\ Live(c) /\ Return(c)
  /\ spent' = IF op[c] = "consume" THEN [spent EXCEPT ![id[c]] = @ + 1] ELSE spent
  /\ UNCHANGED <<stored, posts, delivered, reviewed, lapsed>>

(* A grant the caller holds is no review: the approval's record must be    *)
(* spent, and it is read here.                                             *)
NoReview(c) == TRUE                        \* bug: the caller's grant is enough
Reviewed(c) == ReviewRequired => id[c] \in reviewed

Review(c) ==
  /\ pc[c] = "review" /\ Reviewed(c) /\ Live(c)
  /\ Go(c, IF op[c] = "consume" THEN "consume" ELSE "answer")
  /\ Quiet /\ UNCHANGED locals

Consume(c) ==
  /\ pc[c] = "consume" /\ Current(c)
  /\ Write(id[c], [rec[c] EXCEPT !.state = "consumed"])
  /\ Go(c, "answer") /\ UNCHANGED <<outside, locals>>

Decide(c) ==
  /\ pc[c] = "decide" /\ Live(c) /\ Current(c)
  /\ \E ok \in BOOLEAN : Write(id[c], [rec[c] EXCEPT !.state = "decided", !.approved = ok])
  /\ Go(c, "answer") /\ UNCHANGED <<outside, locals>>

Fail(c) == pc[c] # "idle" /\ Return(c) /\ Quiet

-----------------------------------------------------------------------------
(* The messenger, the reviewer's spent grant and the clock.                *)
Deliver(i) ==
  /\ delivered[i] < posts[i] /\ delivered' = [delivered EXCEPT ![i] = @ + 1]
  /\ UNCHANGED <<stored, posts, reviewed, lapsed, spent, pc, locals>>
ReviewSpent(i) ==
  /\ ReviewRequired /\ i \notin reviewed /\ reviewed' = reviewed \cup {i}
  /\ UNCHANGED <<stored, posts, delivered, lapsed, spent, pc, locals>>
Lapse(i) ==
  /\ i \notin lapsed /\ lapsed' = lapsed \cup {i}
  /\ UNCHANGED <<stored, posts, delivered, reviewed, spent, pc, locals>>

Call(c) ==
  \/ Begin(c) \/ ReadContext(c) \/ Read(c) \/ Bind(c) \/ Create(c) \/ Reread(c)
  \/ Claim(c) \/ Notify(c) \/ Notified(c) \/ StoreSent(c) \/ Answer(c)
  \/ Review(c) \/ Consume(c) \/ Decide(c)
Next ==
  \/ \E c \in Calls : Call(c) \/ Fail(c)
  \/ \E i \in Ids : Deliver(i) \/ ReviewSpent(i) \/ Lapse(i)
Spec == Init /\ [][Next]_vars

(* Every request ends by its deadline; the gateway asks again for the      *)
(* confirmation its ledger names, and its requests do not fail for ever.   *)
Asks(c, i) == op[c] = "request" /\ id[c] = i
FairSpec ==
  /\ Spec
  /\ \A c \in Calls :
       /\ WF_vars(Fail(c)) /\ SF_vars(Create(c))
       /\ \A i \in Ids : /\ SF_vars(Begin(c) /\ Asks(c, i)')
                         /\ SF_vars(ReadContext(c) /\ Asks(c, i))
                         /\ SF_vars(Read(c) /\ Asks(c, i))

-----------------------------------------------------------------------------
Pcs == {"idle", "context", "read", "bind", "create", "reread", "claim", "notify",
        "notified", "sent", "answer", "review", "consume", "decide"}

(* Every variable keeps the shape of the value the code stores in it.      *)
TypeOK ==
  /\ context \in Ids \cup {None} /\ bindings \in Nat
  /\ record \in [Ids -> Record] /\ version \in [Ids -> Nat]
  /\ posts \in [Ids -> Nat] /\ delivered \in [Ids -> Nat]
  /\ reviewed \subseteq Ids /\ lapsed \subseteq Ids /\ spent \in [Ids -> Nat]
  /\ pc \in [Calls -> Pcs] /\ op \in [Calls -> Operations]
  /\ id \in [Calls -> Ids \cup {None}] /\ ctx \in [Calls -> Ids \cup {None}]
  /\ ctxEtag \in [Calls -> Nat] /\ rec \in [Calls -> Record] /\ etag \in [Calls -> Nat]
  /\ \A c \in Calls : pc[c] # "idle" => id[c] \in Ids

(* The user is asked once for one operation: of all the confirmation ids   *)
(* attempts mint under a context, and of all retries, one message is sent. *)
AskedOnce ==
  \A i, j \in Ids : posts[i] > 0 /\ posts[j] > 0 => i = j /\ posts[i] = 1

(* A confirmation is spent once, for a user who was asked and approved,    *)
(* and, where the policy wants one, after the reviewer's grant was spent.  *)
SpentIsJustified ==
  \A i \in Ids : /\ spent[i] <= 1
                 /\ record[i].state = "consumed" =>
                      /\ record[i].approved /\ context = i /\ delivered[i] > 0
                      /\ ReviewRequired => i \in reviewed

(* The confirmations of a context implement one-use human authorities.     *)
Authorities == INSTANCE OneUse WITH
  use <- [i \in Ids |->
            [phase |-> IF record[i].state = "missing" THEN "none" ELSE record[i].state,
             approved |-> record[i].approved]]
ImplementsOneUse == Authorities!Spec

(* Of all the confirmation ids minted for it a context chooses one, once,  *)
(* and whatever the user is asked to confirm is that one.                  *)
Binding == INSTANCE DecideOnce WITH
  Values <- Ids, Learners <- {"user"},
  chosen <- {context} \ {None},
  learned <- [u \in {"user"} |-> {i \in Ids : posts[i] > 0}]
ImplementsDecision == Binding!Spec

(* A context bound to a confirmation whose creation was cut off is not     *)
(* stranded: asking again for that confirmation creates it.                *)
BoundIsCreated ==
  \A i \in Ids : context = i ~> (record[i].state # "missing" \/ i \in lapsed)

-----------------------------------------------------------------------------
(* The inductive invariant behind the safety properties above.             *)

(* What the record a call holds looks like at each of its awaits.          *)
Claiming == {"notify", "notified", "sent"}
Held(c) ==
  /\ pc[c] = "idle" => id[c] = None /\ etag[c] = 0
  /\ id[c] \in Ids => etag[c] <= version[id[c]]
  /\ pc[c] \in {"claim", "decide", "review", "consume"} /\ etag[c] = version[id[c]] =>
       rec[c] = record[id[c]]
  /\ pc[c] = "claim" => rec[c] = Prepared
  /\ pc[c] \in Claiming =>
       rec[c] = [Prepared EXCEPT !.notification = "sending"] /\ record[id[c]] = rec[c]
  /\ pc[c] = "decide" => rec[c].state = "pending" /\ rec[c].notification = "sent"
  /\ pc[c] \in {"review", "consume"} /\ op[c] = "consume" =>
       rec[c].state = "decided" /\ rec[c].approved
  /\ pc[c] = "consume" => op[c] = "consume" /\ (ReviewRequired => id[c] \in reviewed)
  /\ pc[c] \in {"create", "reread", "bind", "claim", "decide"} \cup Claiming => op[c] # "consume"

(* A context is bound once, and only the id it is bound to has a record.   *)
Bound(c) ==
  /\ ctxEtag[c] <= bindings
  /\ pc[c] \in {"read", "bind"} /\ op[c] = "request" /\ ctxEtag[c] = bindings =>
       ctx[c] = context
  /\ pc[c] = "bind" => op[c] = "request" /\ ctx[c] = None
  /\ ctx[c] # None => ctx[c] = id[c] /\ context = id[c]
  /\ pc[c] = "create" => context = id[c]
BindInv ==
  /\ \A c \in Calls : Bound(c)
  /\ \A i \in Ids : record[i].state # "missing" => context = i

(* One call claims the notification, and only its maker posts it.          *)
ClaimInv ==
  /\ \A i \in Ids :
       /\ record[i].state = "missing" => record[i] = Missing
       /\ record[i].state = "pending" => ~record[i].approved
       /\ record[i].state \in {"decided", "consumed"} => record[i].notification = "sent"
       /\ record[i].notification \in {"none", "prepared"} =>
            posts[i] = 0 /\ \A c \in Calls : pc[c] \in Claiming => id[c] # i
       /\ posts[i] <= 1 /\ delivered[i] <= posts[i]
       /\ record[i].notification = "sent" => delivered[i] = 1
  /\ \A c \in Calls : /\ pc[c] = "notify" => posts[id[c]] = 0
                      /\ pc[c] \in {"notified", "sent"} => posts[id[c]] = 1
                      /\ pc[c] = "sent" => delivered[id[c]] = 1
  /\ \A c, d \in Calls : pc[c] \in Claiming /\ pc[d] \in Claiming /\ id[c] = id[d] => c = d

(* One acknowledged consumption, or one call about to acknowledge it.      *)
Acking(c) == pc[c] = "answer" /\ op[c] = "consume"
SpentInv ==
  /\ \A i \in Ids :
       /\ record[i].state # "consumed" =>
            spent[i] = 0 /\ \A c \in Calls : Acking(c) => id[c] # i
       /\ spent[i] # 0 => \A c \in Calls : Acking(c) => id[c] # i
       /\ spent[i] <= 1
       /\ record[i].state = "consumed" =>
            record[i].approved /\ (ReviewRequired => i \in reviewed)
  /\ \A c, d \in Calls : Acking(c) /\ Acking(d) /\ id[c] = id[d] => c = d

IInv == TypeOK /\ (\A c \in Calls : Held(c)) /\ BindInv /\ ClaimInv /\ SpentInv
=============================================================================
