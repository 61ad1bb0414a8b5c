------------------------------ MODULE Approval ------------------------------
(***************************************************************************)
(* The control plane's authority for ONE approval nonce: concurrent calls  *)
(* of ControlPlane.approval (request, resolve, decide, consume), each a    *)
(* read of the record, checks, and at most one replace under the etag it   *)
(* read, and, when the approval is native Outlook, the outbox that asks    *)
(* the workflow to send the reviewer's email and later fetches the answer. *)
(*                                                                         *)
(* A call slot serves one request after another.  A call that is refused,  *)
(* or fails at an await (deadline, crash, lost acknowledgement, service    *)
(* unavailable), writes nothing more and returns: Fail.                    *)
(***************************************************************************)
EXTENDS Naturals, Sequences

CONSTANTS
  Calls,      \* requests the service handles at a time
  Nonce,      \* the approval nonce all of them name
  None,       \* the null of a stored field
  Intents,    \* approval intents carrying this nonce
  Intent,     \* [Calls -> Intents]: the intent each slot's requests carry
  Native      \* BOOLEAN: the intent's principal is an Outlook requester

ASSUME ConstantsAssumption ==
  /\ Intent \in [Calls -> Intents] /\ Native \in BOOLEAN
  /\ None \notin Intents /\ None \notin [by : Nat, approved : BOOLEAN] /\ None \notin Nat

VARIABLES
  record, version,   \* the stored approval and its etag (number of writes)
  expired,           \* the intent or its policy has expired
  runs,              \* workflow runs this nonce's notifications started
  given,             \* history: grants handed to callers
  accepted,          \* history: consumptions acknowledged to callers
  pc, op,            \* per call: its next await and the operation asked
  rec, etag,         \* per call: the record and the etag it read
  grant,             \* per call: the grant presented to consume
  found              \* per call: the workflow run it was told of

stored == <<record, version>>
locals == <<op, rec, etag, grant, found>>
vars == <<stored, expired, runs, given, accepted, pc, locals>>

Grant == [by : Nat, approved : BOOLEAN]     \* by: the write that made it, as its uuid
RunStates == {"out", "waiting", "approved", "rejected", "failed"}
Record ==
  [state : {"missing", "pending", "decided", "consumed"}, intent : Intents \cup {None},
   grant : Grant \cup {None},
   dispatch : {"none", "prepared", "sending", "sent"},   \* outlook.dispatch_state
   run : Nat \cup {None}]                                \* outlook.run_id
Missing == [state |-> "missing", intent |-> None, grant |-> None,
            dispatch |-> "none", run |-> None]
Pending(c) == [Missing EXCEPT !.state = "pending", !.intent = Intent[c],
                              !.dispatch = IF Native THEN "prepared" ELSE "none"]
Claimed(r) == [r EXCEPT !.dispatch = "sending"]
Sent(r, i) == [r EXCEPT !.dispatch = "sent", !.run = i]

Init ==
  /\ record = Missing /\ version = 0 /\ expired = FALSE
  /\ runs = <<>> /\ given = {} /\ accepted = 0
  /\ pc = [c \in Calls |-> "idle"] /\ op = [c \in Calls |-> "request"]
  /\ rec = [c \in Calls |-> Missing] /\ etag = [c \in Calls |-> 0]
  /\ grant = [c \in Calls |-> None] /\ found = [c \in Calls |-> None]

Go(c, next) == pc' = [pc EXCEPT ![c] = next]

(* The answer leaves the handler, whose locals go out of scope.            *)
Return(c) ==
  /\ Go(c, "idle")
  /\ op' = [op EXCEPT ![c] = "request"] /\ rec' = [rec EXCEPT ![c] = Missing]
  /\ etag' = [etag EXCEPT ![c] = 0] /\ grant' = [grant EXCEPT ![c] = None]
  /\ found' = [found EXCEPT ![c] = None]

Quiet == UNCHANGED <<stored, expired, runs, given, accepted>>

(* Only an unexpired intent under a live policy gets as far as the record. *)
Begin(c) ==
  /\ pc[c] = "idle" /\ ~expired
  /\ \/ \E asked \in {"request", "resolve", "decide"} :
          /\ asked = "decide" => ~Native
          /\ op' = [op EXCEPT ![c] = asked] /\ UNCHANGED grant
     \/ \E g \in given : /\ op' = [op EXCEPT ![c] = "consume"]
                         /\ grant' = [grant EXCEPT ![c] = g]
  /\ Go(c, "read")
  /\ Quiet /\ UNCHANGED <<rec, etag, found>>

(* What the handler does with the record in hand.                          *)
RefusableOnResolve(c) ==                   \* bug: only a first request is answered
  record.intent # Intent[c] \/ record.state = "consumed" \/ op[c] # "request"
Refusable(c) ==
  \/ record.intent # Intent[c] \/ record.state = "consumed"
  \/ op[c] = "decide" /\ record.state # "pending"
  \/ op[c] = "consume" /\ (record.state # "decided" \/ record.grant # grant[c])

ResendingStages == [none |-> "answer", prepared |-> "claim",   \* bug: a claim of unknown
                    sending |-> "claim", sent |-> "poll"]      \* outcome is sent again
Stages == [none |-> "answer", prepared |-> "claim", sending |-> "recover", sent |-> "poll"]

Stage(c) ==
  IF op[c] \in {"decide", "consume"} THEN (IF Native THEN "authority" ELSE "replace")
  ELSE IF record.state = "decided" THEN (IF Native THEN "authority" ELSE "answer")
  ELSE Stages[record.dispatch]

Consider(c) ==
  /\ ~Refusable(c)
  /\ rec' = [rec EXCEPT ![c] = record] /\ etag' = [etag EXCEPT ![c] = version]
  /\ Go(c, Stage(c))
  /\ Quiet /\ UNCHANGED <<op, grant, found>>

Read(c) ==
  /\ pc[c] = "read"
  /\ \/ record.state # "missing" /\ Consider(c)
     \/ /\ record.state = "missing" /\ op[c] = "request" /\ Go(c, "create")
        /\ Quiet /\ UNCHANGED locals

(* Creating a record that exists already conflicts, and it is then read.   *)
Create(c) ==
  /\ pc[c] = "create"
  /\ IF record.state = "missing" THEN record' = Pending(c) /\ version' = version + 1
                                 ELSE UNCHANGED stored
  /\ Go(c, "reread")
  /\ UNCHANGED <<expired, runs, given, accepted, locals>>

Reread(c) == pc[c] = "reread" /\ ~expired /\ Consider(c)

(* The stored authority of a native decision is checked against Outlook.   *)
ValidateAuthority(c) ==
  /\ pc[c] = "authority" /\ ~expired
  /\ Go(c, IF op[c] = "consume" THEN "replace" ELSE "answer")
  /\ Quiet /\ UNCHANGED locals

(* request and resolve: the grant, or that it is still pending.            *)
Answer(c) ==
  /\ pc[c] = "answer" /\ ~expired /\ Return(c)
  /\ given' = IF rec[c].state = "pending" THEN given ELSE given \cup {rec[c].grant}
  /\ UNCHANGED <<stored, expired, runs, accepted>>

(* A replace under the etag the record was read with, by an unexpired call. *)
Upsert(c) == ~expired                     \* bug: the etag is not a condition
Current(c) == ~expired /\ version = etag[c]

Replace(c, here, next, new) ==
  /\ pc[c] = here /\ Current(c)
  /\ record' = new /\ version' = version + 1
  /\ rec' = [rec EXCEPT ![c] = new]
  /\ Go(c, next)
  /\ UNCHANGED <<expired, runs, given, accepted, op, etag, grant, found>>

Decided(c, ok) ==
  [rec[c] EXCEPT !.state = "decided", !.grant = [by |-> version + 1, approved |-> ok]]

Decide(c) ==
  op[c] = "decide" /\ \E ok \in BOOLEAN : Replace(c, "replace", "decided", Decided(c, ok))
Consume(c) ==
  op[c] = "consume" /\ Replace(c, "replace", "consumed", [rec[c] EXCEPT !.state = "consumed"])

(* Acknowledged: if expiry raced the write, the nonce is burned instead.   *)
AnswerDecided(c) ==
  /\ pc[c] = "decided" /\ ~expired /\ Return(c)
  /\ given' = given \cup {rec[c].grant}
  /\ UNCHANGED <<stored, expired, runs, accepted>>

AnswerConsumed(c) ==
  /\ pc[c] = "consumed" /\ ~expired /\ Return(c)
  /\ accepted' = accepted + 1
  /\ UNCHANGED <<stored, expired, runs, given>>

-----------------------------------------------------------------------------
(* Native Outlook: claim the notification, post it, remember its run, and  *)
(* fetch the responder's answer.  persist is a replace and a read back.    *)

ReadBack(c, here, next) ==
  /\ pc[c] = here /\ ~expired /\ record = rec[c]
  /\ etag' = [etag EXCEPT ![c] = version] /\ Go(c, next)
  /\ Quiet /\ UNCHANGED <<op, rec, grant, found>>

Claim(c) == Replace(c, "claim", "claim_read", Claimed(rec[c]))
RereadClaim(c) == ReadBack(c, "claim_read", "notify")

Notify(c) ==
  /\ pc[c] = "notify" /\ ~expired
  /\ runs' = Append(runs, "out")
  /\ found' = [found EXCEPT ![c] = Len(runs) + 1]
  /\ Go(c, "notified")
  /\ UNCHANGED <<stored, expired, given, accepted, op, rec, etag, grant>>

(* 202 with the id of the run the workflow started.                        *)
Notified(c) ==
  /\ pc[c] = "notified" /\ runs[found[c]] # "out" /\ ~expired
  /\ Go(c, "sent_write") /\ Quiet /\ UNCHANGED locals

StoreRun(c) == Replace(c, "sent_write", "sent_read", Sent(rec[c], found[c]))
RereadRun(c) == ReadBack(c, "sent_read", "answer")

(* A claim of unknown outcome: exactly one run carries the nonce, or none  *)
(* is trusted.                                                             *)
Recover(c) ==
  /\ pc[c] = "recover" /\ ~expired
  /\ \E i \in DOMAIN runs : /\ {j \in DOMAIN runs : runs[j] # "out"} = {i}
                            /\ found' = [found EXCEPT ![c] = i]
  /\ Go(c, "recover_write")
  /\ Quiet /\ UNCHANGED <<op, rec, etag, grant>>

StoreRecovered(c) == Replace(c, "recover_write", "recover_read", Sent(rec[c], found[c]))
RereadRecovered(c) == ReadBack(c, "recover_read", "poll")

(* A run that is still waiting leaves the approval pending; its answer is  *)
(* bound to the responder and the policy again before it is stored.        *)
PollAnyEnd(c) ==                           \* bug: a run that failed counts as answered
  /\ pc[c] = "poll" /\ ~expired
  /\ runs[rec[c].run] \in {"approved", "rejected", "failed"} /\ Go(c, "responded")
  /\ Quiet /\ UNCHANGED locals
Poll(c) ==
  /\ pc[c] = "poll" /\ ~expired
  /\ \/ runs[rec[c].run] = "waiting" /\ Go(c, "answer")
     \/ runs[rec[c].run] \in {"approved", "rejected"} /\ Go(c, "responded")
  /\ Quiet /\ UNCHANGED locals

StoreResponse(c) ==
  Replace(c, "responded", "decided", Decided(c, runs[rec[c].run] = "approved"))

-----------------------------------------------------------------------------
Fail(c) == pc[c] # "idle" /\ Return(c) /\ Quiet

(* The workflow accepts the POST, late or never, and the reviewer answers. *)
RunStarts(i) == runs[i] = "out" /\ runs' = [runs EXCEPT ![i] = "waiting"]
RunEnds(i) ==
  /\ runs[i] = "waiting"
  /\ \E end \in {"approved", "rejected", "failed"} : runs' = [runs EXCEPT ![i] = end]
Workflow ==
  /\ \E i \in DOMAIN runs : RunStarts(i) \/ RunEnds(i)
  /\ UNCHANGED <<stored, expired, given, accepted, pc, locals>>

Expire ==
  /\ ~expired /\ expired' = TRUE
  /\ UNCHANGED <<stored, runs, given, accepted, pc, locals>>

Call(c) ==
  \/ Begin(c) \/ Read(c) \/ Create(c) \/ Reread(c) \/ ValidateAuthority(c) \/ Answer(c)
  \/ Decide(c) \/ Consume(c) \/ AnswerDecided(c) \/ AnswerConsumed(c)
  \/ Claim(c) \/ RereadClaim(c) \/ Notify(c) \/ Notified(c) \/ StoreRun(c) \/ RereadRun(c)
  \/ Recover(c) \/ StoreRecovered(c) \/ RereadRecovered(c) \/ Poll(c) \/ StoreResponse(c)
Next == (\E c \in Calls : Call(c) \/ Fail(c)) \/ Workflow \/ Expire
Spec == Init /\ [][Next]_vars

(* Every request ends by its deadline; a caller asks again until the       *)
(* decision is there, and its requests do not fail for ever.               *)
FairSpec ==
  /\ Spec
  /\ \A c \in Calls : /\ WF_vars(Fail(c)) /\ SF_vars(Begin(c) /\ op'[c] = "resolve")
                      /\ SF_vars(Read(c)) /\ SF_vars(Poll(c)) /\ SF_vars(StoreResponse(c))

-----------------------------------------------------------------------------
Pcs == {"idle", "read", "create", "reread", "authority", "answer", "replace", "decided",
        "consumed", "claim", "claim_read", "notify", "notified", "sent_write", "sent_read",
        "recover", "recover_write", "recover_read", "poll", "responded"}

(* Every variable keeps the shape of the value the code stores in it.      *)
TypeOK ==
  /\ record \in Record /\ version \in Nat /\ expired \in BOOLEAN
  /\ runs \in Seq(RunStates) /\ given \subseteq Grant /\ accepted \in Nat
  /\ pc \in [Calls -> Pcs] /\ op \in [Calls -> {"request", "resolve", "decide", "consume"}]
  /\ rec \in [Calls -> Record] /\ etag \in [Calls -> Nat]
  /\ grant \in [Calls -> Grant \cup {None}] /\ found \in [Calls -> Nat \cup {None}]

(* However many requests race, fail and are retried, the reviewer is asked *)
(* at most once: one POST to the workflow for a nonce, not one per retry.  *)
NotifiedOnce == Len(runs) <= 1

(* Every grant ever handed out is the one on record: racing decisions      *)
(* never leave two callers with different answers for one nonce.           *)
GrantsAgree == \A g \in given : record.state \in {"decided", "consumed"} /\ record.grant = g

(* One consumption is acknowledged, whatever is retried after it.          *)
ConsumedOnce == accepted <= 1

(* A native decision is the answer of the run the record names.            *)
DecisionIsResponse ==
  Native /\ record.state \in {"decided", "consumed"} =>
    /\ record.run \in DOMAIN runs
    /\ runs[record.run] = IF record.grant.approved THEN "approved" ELSE "rejected"

(* The handlers implement a one-use human authority.                       *)
Authority == INSTANCE OneUse WITH
  Ids <- {Nonce},
  use <- [n \in {Nonce} |->
            [phase |-> IF record.state = "missing" THEN "none" ELSE record.state,
             approved |-> record.grant # None /\ record.grant.approved]]
ImplementsOneUse == Authority!Spec

(* The grant of a nonce is a choice made once, and every caller that is    *)
(* told an outcome is told that grant.                                     *)
Decision == INSTANCE DecideOnce WITH
  Values <- Grant, Learners <- {Nonce},
  chosen <- {record.grant} \ {None}, learned <- [n \in {Nonce} |-> given]
ImplementsDecision == Decision!Spec

(* An answer in the mailbox becomes the decision, unless the intent expires. *)
ResponseLands ==
  (/\ record.state = "pending" /\ record.dispatch = "sent"
   /\ runs[record.run] \in {"approved", "rejected"})
    ~> (record.state # "pending" \/ expired)

-----------------------------------------------------------------------------
(* The inductive invariant behind the safety properties above.             *)

(* What the record a call holds looks like at each of its awaits.          *)
Asking == {"claim", "claim_read", "notify", "notified", "sent_write", "sent_read",
           "recover", "recover_write", "recover_read", "poll", "responded"}
Writing == {"authority", "replace", "claim", "notify", "notified", "sent_write",
            "recover", "recover_write", "poll", "responded"}
Written == {"decided", "consumed", "claim_read", "sent_read", "recover_read"}

Holding(c) ==
  /\ etag[c] <= version
  /\ pc[c] \in Writing /\ etag[c] = version => record = rec[c]
  /\ pc[c] \in Written => etag[c] < version
  /\ pc[c] \in Asking => rec[c].state = "pending"
  /\ pc[c] = "answer" => rec[c].state \in {"pending", "decided"}
  /\ pc[c] \in {"authority", "decided"} => rec[c].state = "decided"
  /\ pc[c] = "authority" => op[c] # "decide"
  /\ pc[c] = "replace" => \/ op[c] = "consume" /\ rec[c].state = "decided"
                          \/ op[c] = "decide" /\ rec[c].state = "pending"
  /\ pc[c] = "consumed" => rec[c].state = "consumed"
  /\ op[c] = "decide" => ~Native

(* A grant, once on record, is the grant.                                  *)
Final == {"decided", "consumed"}
GrantKept(r) == r.state \in Final => record.state \in Final /\ record.grant = r.grant
GrantInv ==
  /\ record.state = "missing" => record = Missing
  /\ record.grant = None <=> record.state \notin Final
  /\ \A c \in Calls : GrantKept(rec[c])

(* One acknowledged consumption, or one call about to acknowledge it.      *)
SpentInv ==
  /\ record.state # "consumed" => accepted = 0 /\ \A c \in Calls : pc[c] # "consumed"
  /\ accepted # 0 => \A c \in Calls : pc[c] # "consumed"
  /\ \A c, d \in Calls : pc[c] = "consumed" /\ pc[d] = "consumed" => c = d

(* One claim is ever made, and only its maker asks the workflow.           *)
Claiming == {"claim_read", "notify"}
ClaimInv ==
  /\ record.dispatch \in {"none", "prepared"} =>
       runs = <<>> /\ \A c \in Calls : pc[c] \notin Claiming
  /\ runs # <<>> => \A c \in Calls : pc[c] \notin Claiming
  /\ \A c, d \in Calls : pc[c] \in Claiming /\ pc[d] \in Claiming => c = d

(* Every run a record or a call names exists, and an answer used is final. *)
Named(c) ==
  /\ pc[c] \in {"notified", "sent_write", "recover_write"} => found[c] \in DOMAIN runs
  /\ pc[c] = "claim" => rec[c].dispatch = "prepared"
  /\ pc[c] \in Asking \ {"claim"} => rec[c].dispatch \in {"sending", "sent"}
  /\ pc[c] \in {"sent_read", "recover_read", "poll", "responded"} =>
       rec[c].run \in DOMAIN runs
  /\ pc[c] = "responded" => runs[rec[c].run] \in {"approved", "rejected"}
RunInv ==
  /\ record.dispatch = "sent" => record.run \in DOMAIN runs
  /\ \A c \in Calls : Named(c)

IInv ==
  /\ TypeOK /\ (\A c \in Calls : Holding(c)) /\ GrantInv /\ SpentInv /\ ClaimInv /\ RunInv
  /\ ConsumedOnce /\ NotifiedOnce /\ GrantsAgree /\ DecisionIsResponse
=============================================================================
