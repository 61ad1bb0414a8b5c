----------------------------- MODULE Bootstrap ------------------------------
(***************************************************************************)
(* The signed bootstrap of a hosted agent.  Operators publish, create-only *)
(* and in chunks, one record per reference; the host's gate polls for it,  *)
(* initializes the application once and authorizes every request against   *)
(* the record and the live authority (signing key, policies, expiry).      *)
(*                                                                         *)
(* bootstrap.py, bootstrap_assets.py, hosted_lifecycle.publish_or_recover. *)
(***************************************************************************)
EXTENDS Naturals

CONSTANTS
    Operators,      \* runs of the publication command
    Contents,       \* what bindings may declare, lifetime left out
    Chunks,         \* number of asset chunks
    Requests,       \* requests to the hosted agent
    None

ASSUME ChunksAssumption ==
    Chunks \in Nat \ {0} /\ None \notin Contents \cup [content : Contents, by : Operators]

VARIABLES
    authority,  \* "live", "out" (key, policies or record not to be had) or "expired"
    chunk,      \* the asset chunks stored
    record,     \* the published record: its content and who signed it
    pub,        \* where each operator stands
    want,       \* the content each operator publishes
    at,         \* the next chunk of each operator
    got,        \* what each operator's command returned
    gate,       \* the host's gate
    inits,      \* history: how often the application was initialized
    req,        \* where each request stands
    late        \* history: requests that arrived at an invalid gate, or after the lease

store == <<chunk, record>>
publishers == <<pub, want, at, got>>
host == <<gate, inits, req, late>>
vars == <<authority, store, publishers, host>>

Init ==
    /\ authority = "live"
    /\ chunk = [i \in 1..Chunks |-> None]
    /\ record = None
    /\ pub = [p \in Operators |-> "idle"]
    /\ want = [p \in Operators |-> None]
    /\ at = [p \in Operators |-> 1]
    /\ got = [p \in Operators |-> None]
    /\ gate = [stage |-> "pending", active |-> FALSE, invalid |-> FALSE, closed |-> FALSE]
    /\ inits = 0
    /\ req = [q \in Requests |-> "new"]
    /\ late = {}

(* An outage or a revocation, which may pass, or the end of the published  *)
(* record's lifetime, which does not.                                      *)
Authority ==
    /\ authority # "expired"
    /\ \/ authority' = IF authority = "live" THEN "out" ELSE "live"
       \/ record # None /\ authority' = "expired"
    /\ UNCHANGED <<store, publishers, host>>

-----------------------------------------------------------------------------
(* publish_or_recover: the same content recovers the stored record, and a  *)
(* command that failed may be started again.                               *)

To(p, label) == pub' = [pub EXCEPT ![p] = label]

Start(p) ==
    /\ pub[p] \in {"idle", "failed"}
    /\ \E c \in Contents : want' = [want EXCEPT ![p] = c]
    /\ at' = [at EXCEPT ![p] = 1]
    /\ To(p, "read")
    /\ UNCHANGED <<authority, store, got, host>>

Lookup(p) ==
    /\ pub[p] = "read"
    /\ To(p, IF record = None THEN "chain"
             ELSE IF record.content = want[p] THEN "recover" ELSE "failed")
    /\ UNCHANGED <<authority, store, want, at, got, host>>

Recover(p) ==
    /\ pub[p] = "recover"
    /\ authority = "live"
    /\ got' = [got EXCEPT ![p] = record]
    /\ To(p, "done")
    /\ UNCHANGED <<authority, store, want, at, host>>

(* Freshness of its own binding, both policies and the signature, before   *)
(* and after the assets.                                                   *)
Check(p) ==
    /\ pub[p] \in {"chain", "seal"}
    /\ authority # "out"
    /\ To(p, IF pub[p] = "chain" THEN "assets" ELSE "create")
    /\ UNCHANGED <<authority, store, want, at, got, host>>

(* An identical chunk of a partial publication is reused. *)
AnyChunk(p) == TRUE                            \* bug: whatever chunk is there is taken
Reusable(p) == chunk[at[p]] \in {None, want[p]}

Upload(p) ==
    /\ pub[p] = "assets"
    /\ IF Reusable(p)
       THEN /\ chunk' = [chunk EXCEPT ![at[p]] = IF @ = None THEN want[p] ELSE @]
            /\ at' = [at EXCEPT ![p] = @ + 1]
            /\ To(p, IF at[p] = Chunks THEN "seal" ELSE "assets")
       ELSE To(p, "failed") /\ UNCHANGED <<chunk, at>>
    /\ UNCHANGED <<authority, record, want, got, host>>

Creatable(p) == record = None

Create(p) ==
    /\ pub[p] = "create"
    /\ IF Creatable(p)
       THEN record' = [content |-> want[p], by |-> p] /\ To(p, "created")
       ELSE To(p, "failed") /\ UNCHANGED record
    /\ UNCHANGED <<authority, chunk, want, at, got, host>>

Publish(p) ==
    /\ pub[p] = "created"
    /\ authority # "expired"
    /\ got' = [got EXCEPT ![p] = [content |-> want[p], by |-> p]]
    /\ To(p, "done")
    /\ UNCHANGED <<authority, store, want, at, host>>

Fail(p) ==
    /\ pub[p] \notin {"idle", "failed", "done"}
    /\ To(p, "failed")
    /\ UNCHANGED <<authority, store, want, at, got, host>>

-----------------------------------------------------------------------------
(* The gate.  poll activates again after every dependency error.           *)

Stage(s) == gate' = [gate EXCEPT !.stage = s]
Invalidate == gate' = [gate EXCEPT !.invalid = TRUE, !.active = FALSE, !.stage = "pending"]
OpenAgain == ~gate.closed                      \* bug: a refusal does not latch
Open == ~gate.invalid /\ ~gate.closed
Leased == Open /\ authority # "expired"

Authenticate ==
    /\ gate.stage = "pending" /\ Open
    /\ record # None /\ authority = "live"
    /\ Stage("fetched")
    /\ UNCHANGED <<authority, store, publishers, inits, req, late>>

(* The assets are downloaded and verified; what fails is polled again. *)
Prepare ==
    /\ gate.stage = "fetched" /\ Open
    /\ Stage(IF authority = "live" /\ \A i \in 1..Chunks : chunk[i] = record.content
             THEN "prepared" ELSE "pending")
    /\ UNCHANGED <<authority, store, publishers, inits, req, late>>

Initialize ==
    /\ gate.stage = "prepared" /\ Open
    /\ inits' = inits + 1
    /\ Stage("initialized") \/ Invalidate
    /\ UNCHANGED <<authority, store, publishers, req, late>>

Activate ==
    /\ gate.stage = "initialized" /\ Open
    /\ IF authority = "live" THEN gate' = [gate EXCEPT !.stage = "ready", !.active = TRUE]
       ELSE Invalidate
    /\ UNCHANGED <<authority, store, publishers, inits, req, late>>

Close ==
    /\ ~gate.closed
    /\ gate' = [gate EXCEPT !.closed = TRUE, !.active = FALSE]
    /\ UNCHANGED <<authority, store, publishers, inits, req, late>>

Answer(q, label) == req' = [req EXCEPT ![q] = label]

(* A request is checked against the lease, which refuses without a trace,  *)
(* and then asks the authority, across awaits.                             *)
Arrive(q) ==
    /\ req[q] = "new"
    /\ Answer(q, IF gate.active /\ Leased THEN "asking" ELSE "denied")
    /\ late' = late \cup (IF gate.invalid \/ authority = "expired" THEN {q} ELSE {})
    /\ UNCHANGED <<authority, store, publishers, gate, inits>>

(* A refusal by the authority, or by the lease as it is now, invalidates   *)
(* the gate for good.                                                      *)
Authorize(q) ==
    /\ req[q] \in {"asking", "again"}
    /\ IF authority = "live" /\ Open
       THEN Answer(q, IF req[q] = "asking" THEN "reading" ELSE "exchanged") /\ UNCHANGED gate
       ELSE Answer(q, "denied") /\ Invalidate
    /\ UNCHANGED <<authority, store, publishers, inits, late>>

(* The body has been read: a bootstrap exchange authorizes once more, any  *)
(* other request goes to the application.                                  *)
Exchange(q) ==
    /\ req[q] = "reading"
    /\ Answer(q, IF Leased THEN "again" ELSE "denied")
    /\ UNCHANGED <<authority, store, publishers, gate, inits, late>>

Serve(q) ==
    /\ req[q] = "reading"
    /\ Answer(q, IF gate.closed THEN "failed" ELSE "served")
    /\ UNCHANGED <<authority, store, publishers, gate, inits, late>>

Gate == Authenticate \/ Prepare \/ Initialize \/ Activate

Next ==
    \/ Authority \/ Gate \/ Close
    \/ \E p \in Operators : Start(p) \/ Lookup(p) \/ Recover(p) \/ Check(p) \/ Upload(p)
                            \/ Create(p) \/ Publish(p) \/ Fail(p)
    \/ \E q \in Requests : Arrive(q) \/ Authorize(q) \/ Exchange(q) \/ Serve(q)

Spec == Init /\ [][Next]_vars

(* poll runs until the gate is active, invalid or closed. *)
LiveSpec == Spec /\ WF_vars(Gate)

-----------------------------------------------------------------------------
Records == [content : Contents, by : Operators]

TypeOK ==
    /\ authority \in {"live", "out", "expired"}
    /\ chunk \in [1..Chunks -> Contents \cup {None}]
    /\ record \in Records \cup {None}
    /\ pub \in [Operators -> {"idle", "read", "recover", "chain", "assets", "seal", "create",
                              "created", "done", "failed"}]
    /\ want \in [Operators -> Contents \cup {None}]
    /\ at \in [Operators -> 1..(Chunks + 1)]
    /\ got \in [Operators -> Records \cup {None}]
    /\ gate \in [stage : {"pending", "fetched", "prepared", "initialized", "ready"},
                 active : BOOLEAN, invalid : BOOLEAN, closed : BOOLEAN]
    /\ inits \in Nat
    /\ req \in [Requests -> {"new", "asking", "reading", "again", "exchanged", "served",
                             "denied", "failed"}]
    /\ late \subseteq Requests

(* A published record is whole: every chunk it declares is stored with its *)
(* content, although commands for other contents were interleaved, failed  *)
(* half-way and were started again.                                        *)
RecordIsWhole == record # None => \A i \in 1..Chunks : chunk[i] = record.content

(* Every command that succeeded returned the one record there is, also the *)
(* ones that lost the race or recovered an earlier publication.            *)
OneRecord == \A p \in Operators : got[p] # None => got[p] = record

(* The interleaved commands, cut off anywhere and started again, choose    *)
(* one publication: a record together with the chunks it declares.  It is  *)
(* never replaced, completed or mixed afterwards, and every command that   *)
(* succeeds returns it.                                                    *)
Whole(r) == [record |-> r, assets |-> [i \in 1..Chunks |-> r.content]]
Decision == INSTANCE DecideOnce WITH
    Values <- {Whole(r) : r \in Records},
    Learners <- Operators,
    chosen <- {[record |-> r, assets |-> chunk] : r \in {record} \ {None}},
    learned <- [p \in Operators |-> {Whole(r) : r \in {got[p]} \ {None}}]
ImplementsDecision == Decision!Spec

(* Once the authority refused one request, or the record's lifetime ended, *)
(* no later request reaches the application, whatever comes back, and the  *)
(* application is never initialized again.                                 *)
InvalidForGood ==
    /\ inits <= 1
    /\ \A q \in late : req[q] # "served"

(* A host whose record is published and whose authority holds from some    *)
(* time on gets its gate open, or says why not.                            *)
GateOpens ==
    <>[](record # None /\ authority = "live") => <>(gate.active \/ gate.invalid \/ gate.closed)
=============================================================================
