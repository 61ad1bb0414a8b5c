----------------------------- MODULE AuditSpool -----------------------------
(***************************************************************************)
(* The hosted agent's audit delivery.  A receipt is written to a local     *)
(* spool and, where the audit is required, acknowledged by the control     *)
(* plane before its effect is permitted; a worker replays what is pending. *)
(* Requests and answers are lost or late, callers time out, the process    *)
(* restarts, and a hosted container loses its files.                       *)
(*                                                                         *)
(* audit_delivery.py, runtime/evidence.py (DurableSpool); the control      *)
(* plane's receipt service (app.py, record_receipt) as the client sees it. *)
(***************************************************************************)
EXTENDS Naturals

CONSTANTS
    Receipts,       \* audit ids, in the order of their file names
    Poisoned,       \* receipts whose stored body no longer matches its fields
    Required,       \* whether an effect waits for the acknowledgement
    None

ASSUME ReceiptsAssumption ==
    /\ Receipts \subseteq Nat /\ Poisoned \subseteq Receipts
    /\ Required \in BOOLEAN /\ None \notin Receipts

VARIABLES
    file,       \* the spool's file of each receipt
    call,       \* where the append of each receipt stands
    worker,     \* the worker thread
    queue,      \* submitted exports that wait for the exports lock
    export,     \* the export that holds the lock
    sweep,      \* what the current replay has yet to visit
    wire,       \* receipts on their way to the control plane
    remote      \* receipts the control plane stores

tasks == <<queue, export, sweep>>
service == <<wire, remote>>
vars == <<file, call, worker, tasks, service>>

Init ==
    /\ file = [r \in Receipts |-> "none"]
    /\ call = [r \in Receipts |-> "new"]
    /\ worker = "down"
    /\ queue = {}
    /\ export = None
    /\ sweep = {}
    /\ wire = {}
    /\ remote = {}

Returns(r, label) == call' = [call EXCEPT ![r] = label]
Spooled(status) == {r \in Receipts : file[r] = status}

-----------------------------------------------------------------------------
(* append, on the agent's thread.                                          *)

(* The file is pending and durable before anything is sent. *)
AppendReceipt(r) ==
    /\ call[r] = "new"
    /\ IF Required /\ worker # "up"
       THEN Returns(r, "refused") /\ UNCHANGED file
       ELSE /\ file' = [file EXCEPT ![r] = "pending"]
            /\ Returns(r, IF Required THEN "written" ELSE "permitted")
    /\ UNCHANGED <<worker, tasks, service>>

Submit(r) ==
    /\ call[r] = "written"
    /\ IF worker = "up"
       THEN queue' = queue \cup {r} /\ Returns(r, "waiting")
       ELSE Returns(r, "refused") /\ UNCHANGED queue
    /\ UNCHANGED <<file, worker, export, sweep, service>>

(* The caller times out; its export is cancelled a moment later. *)
GiveUp(r) ==
    /\ call[r] = "waiting"
    /\ Returns(r, "refused")
    /\ UNCHANGED <<file, worker, tasks, service>>

-----------------------------------------------------------------------------
(* The worker's loop: one export at a time.                                *)

Holds(r, for) == [receipt |-> r, for |-> for, sent |-> FALSE]

(* What an export tells the append that waits for it, if it still does. *)
Reports(r, label) ==
    IF call[r] = "waiting" THEN Returns(r, label) ELSE UNCHANGED call

Take(r) ==
    /\ r \in queue
    /\ export = None
    /\ queue' = queue \ {r}
    /\ IF file[r] = "delivered"
       THEN Reports(r, "permitted") /\ UNCHANGED export
       ELSE export' = Holds(r, "append") /\ UNCHANGED call
    /\ UNCHANGED <<file, worker, sweep, service>>

Replaying == export # None /\ export.for = "replay"

(* _replay visits the files in order; each failure is left for next time. *)
Sweep ==
    /\ worker = "up"
    /\ sweep = {} /\ Spooled("pending") # {}
    /\ ~Replaying
    /\ sweep' = Spooled("pending")
    /\ UNCHANGED <<file, call, worker, queue, export, service>>

Visit(r) ==
    /\ r \in sweep /\ \A s \in sweep : r <= s
    /\ export = None
    /\ sweep' = sweep \ {r}
    /\ export' = IF file[r] = "pending" THEN Holds(r, "replay") ELSE None
    /\ UNCHANGED <<file, call, worker, queue, service>>

Post(r) ==
    /\ export = Holds(r, "append") \/ export = Holds(r, "replay")
    /\ r \notin Poisoned
    /\ wire' = wire \cup {r}
    /\ export' = [export EXCEPT !.sent = TRUE]
    /\ UNCHANGED <<file, call, worker, queue, sweep, remote>>

Unacknowledged(r) == export.sent               \* bug: sent counts as delivered
Acknowledged(r) == export.sent /\ r \notin wire /\ r \in remote

Deliver(r) ==
    /\ export # None /\ export.receipt = r
    /\ Acknowledged(r)
    /\ file' = [file EXCEPT ![r] = "delivered"]
    /\ export' = None
    /\ IF export.for = "append" THEN Reports(r, "permitted") ELSE UNCHANGED call
    /\ UNCHANGED <<worker, queue, sweep, service>>

(* A refusal, a mismatch, a timeout or a cancellation ends an export;      *)
(* waiting for the lock counts towards its time.                           *)
StopSweep == {}                                \* bug: a file that fails ends the sweep
RestOfSweep == sweep

ExportFails(r) ==
    /\ export # None /\ export.receipt = r
    /\ export' = None
    /\ IF export.for = "append"
       THEN Reports(r, "refused") /\ UNCHANGED sweep
       ELSE sweep' = RestOfSweep /\ UNCHANGED call
    /\ UNCHANGED <<file, worker, queue, service>>

WaitFails(r) ==
    /\ export # None
    /\ \/ r \in queue /\ queue' = queue \ {r} /\ Reports(r, "refused") /\ UNCHANGED sweep
       \/ /\ r \in sweep /\ (\A s \in sweep : r <= s) /\ ~Replaying
          /\ sweep' = sweep \ {r}
          /\ UNCHANGED <<queue, call>>
    /\ UNCHANGED <<file, worker, export, service>>

-----------------------------------------------------------------------------
(* The process.                                                            *)

Enter ==
    /\ worker = "down"
    /\ worker' = "up"
    /\ UNCHANGED <<file, call, tasks, service>>

(* The event loop ends: whoever waits is refused. *)
LoopEnds(label) ==
    /\ worker' = label
    /\ queue' = {} /\ sweep' = {} /\ export' = None
    /\ call' = [r \in Receipts |-> IF call[r] \in {"written", "waiting"} THEN "refused" ELSE call[r]]

Close ==
    /\ worker = "up"
    /\ LoopEnds("closed")
    /\ UNCHANGED <<file, service>>

(* A restarted process finds its spool, unless its container is new. *)
Restart ==
    /\ LoopEnds("down")
    /\ file' = file \/ file' = [r \in Receipts |-> "none"]
    /\ UNCHANGED service

(* The control plane stores a receipt once, whoever sends it again. *)
Store(r) ==
    /\ r \in wire
    /\ wire' = wire \ {r}
    /\ remote' = remote \cup {r}
    /\ UNCHANGED <<file, call, worker, tasks>>

Lose(r) ==
    /\ r \in wire
    /\ wire' = wire \ {r}
    /\ UNCHANGED <<file, call, worker, tasks, remote>>

Next ==
    \/ \E r \in Receipts : \/ AppendReceipt(r) \/ Submit(r) \/ GiveUp(r)
                           \/ Take(r) \/ Visit(r) \/ Post(r) \/ Deliver(r)
                           \/ ExportFails(r) \/ WaitFails(r)
                           \/ Store(r) \/ Lose(r)
    \/ Sweep \/ Enter \/ Close \/ Restart

Spec == Init /\ [][Next]_vars

(* The retry loop runs, an export ends by its timeout, and the control     *)
(* plane does not fail to store and to answer within it for ever.          *)
Waits(r) == export # None /\ export.receipt = r /\ export.sent
Fairness ==
    /\ WF_vars(Sweep) /\ SF_vars(\E r \in Receipts : Visit(r))
    /\ \A r \in Receipts : WF_vars(ExportFails(r))
    /\ \A r \in Receipts \ Poisoned :
            SF_vars(Post(r)) /\ SF_vars(Waits(r) /\ Store(r)) /\ SF_vars(Deliver(r))
LiveSpec == Spec /\ Fairness

-----------------------------------------------------------------------------
TypeOK ==
    /\ file \in [Receipts -> {"none", "pending", "delivered"}]
    /\ call \in [Receipts -> {"new", "written", "waiting", "permitted", "refused"}]
    /\ worker \in {"down", "up", "closed"}
    /\ queue \subseteq Receipts /\ sweep \subseteq Receipts
    /\ export \in [receipt : Receipts, for : {"append", "replay"}, sent : BOOLEAN] \cup {None}
    /\ wire \subseteq Receipts /\ remote \subseteq Receipts

(* Where the audit is required, an effect was permitted only if the        *)
(* control plane has its receipt, whatever became of the spool, of the     *)
(* caller's own export or of the replay that overtook it; and the spool    *)
(* calls a receipt delivered only if that is so.                           *)
PermittedIsRecorded ==
    \A r \in Receipts : file[r] = "delivered" \/ (Required /\ call[r] = "permitted")
                            => r \in remote

(* A pending receipt is delivered unless the process ends first, although  *)
(* another file of the spool can never be exported.                        *)
PendingIsDelivered ==
    \A r \in Receipts \ Poisoned :
        file[r] = "pending" ~> (file[r] = "delivered" \/ worker # "up")
=============================================================================
