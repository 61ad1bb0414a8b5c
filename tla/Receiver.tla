------------------------------ MODULE Receiver ------------------------------
(***************************************************************************)
(* The queue-triggered receivers: a message is looked up in the            *)
(* idempotency store, given to the agent, marked, and settled at the       *)
(* broker.  The broker delivers at least once: a lock expires while its    *)
(* replica goes on, a replica crashes between two steps, and a mark is     *)
(* forgotten when its window ends.                                         *)
(*                                                                         *)
(* aca-consumer/receiver.py settles its messages itself; in                *)
(* function-servicebus/receiver_core.py the Functions host does.           *)
(***************************************************************************)
EXTENDS Naturals

CONSTANTS
    Messages,
    Pulled,         \* messages of a queue that an ACA consumer pulls from
    Replicas,
    MaxDelivery,    \* maxDeliveryCount of the queue
    None

VARIABLES
    queue,          \* what the broker holds
    lock,           \* the replica whose delivery is current
    deliveries,
    marks,          \* keys the store remembers
    work,           \* what each replica is doing, and for which message
    effects         \* invocations that reached the agent

broker == <<queue, lock, deliveries>>
vars == <<broker, marks, work, effects>>

Idle == [at |-> "idle", message |-> None]

Init ==
    /\ queue = [m \in Messages |-> "ready"]
    /\ lock = [m \in Messages |-> None]
    /\ deliveries = [m \in Messages |-> 0]
    /\ marks = {}
    /\ work = [r \in Replicas |-> Idle]
    /\ effects = [m \in Messages |-> 0]

Is(r, at) == work[r].at = at
Goes(r, at) == work' = [work EXCEPT ![r].at = at]
Ends(r) == work' = [work EXCEPT ![r] = Idle]

(* The broker settles a message for the replica that still has its lock.   *)
Settled(m, as) ==
    /\ queue' = [queue EXCEPT ![m] = as]
    /\ lock' = [lock EXCEPT ![m] = None]
Abandoned(m) == Settled(m, IF deliveries[m] < MaxDelivery THEN "ready" ELSE "dead")
IfHeld(r, m, settled) ==
    IF lock[m] = r THEN settled ELSE UNCHANGED <<queue, lock>>

-----------------------------------------------------------------------------
(* handle, and the loop or the host around it.                             *)

Receive(r, m) ==
    /\ Is(r, "idle") /\ queue[m] = "ready"
    /\ queue' = [queue EXCEPT ![m] = "locked"]
    /\ lock' = [lock EXCEPT ![m] = r]
    /\ deliveries' = [deliveries EXCEPT ![m] = @ + 1]
    /\ work' = [work EXCEPT ![r] = [at |-> "check", message |-> m]]
    /\ UNCHANGED <<marks, effects>>

ClaimsAtOnce(m) == marks' = marks \cup {m}     \* bug: marked before the agent acted
ReadsOnly(m) == UNCHANGED marks

IsAlreadyProcessed(r) ==
    LET m == work[r].message IN
    /\ Is(r, "check")
    /\ Goes(r, IF m \in marks THEN "complete" ELSE "invoke")
    /\ ReadsOnly(m)
    /\ UNCHANGED <<broker, effects>>

Invoke(r) ==
    LET m == work[r].message IN
    /\ Is(r, "invoke")
    /\ effects' = [effects EXCEPT ![m] = @ + 1]
    /\ Goes(r, "answer")
    /\ UNCHANGED <<broker, marks>>

Answer(r) ==
    /\ Is(r, "answer")
    /\ Goes(r, "mark")
    /\ UNCHANGED <<broker, marks, effects>>

(* The call fails before or after the agent acted. *)
InvokeFails(r) ==
    /\ Is(r, "invoke") \/ Is(r, "answer")
    /\ Goes(r, "dead_letter")
    /\ UNCHANGED <<broker, marks, effects>>

MarkProcessed(r) ==
    /\ Is(r, "mark")
    /\ marks' = marks \cup {work[r].message}
    /\ Goes(r, "complete")
    /\ UNCHANGED <<broker, effects>>

(* Without the lock the settlement raises, and the consumer starts again.  *)
CompleteMessage(r) ==
    LET m == work[r].message IN
    /\ Is(r, "complete")
    /\ IfHeld(r, m, Settled(m, "gone"))
    /\ Ends(r)
    /\ UNCHANGED <<deliveries, marks, effects>>

DeadLetter(r) ==
    LET m == work[r].message IN
    /\ Is(r, "dead_letter")
    /\ IfHeld(r, m, IF m \in Pulled THEN Settled(m, "dead") ELSE Abandoned(m))
    /\ Ends(r)
    /\ UNCHANGED <<deliveries, marks, effects>>

(* The process ends, or the store raises. *)
Crash(r) ==
    /\ ~Is(r, "idle")
    /\ Ends(r)
    /\ UNCHANGED <<broker, marks, effects>>

LockExpires(m) ==
    /\ lock[m] # None
    /\ Abandoned(m)
    /\ UNCHANGED <<deliveries, marks, work, effects>>

Forget(m) ==
    /\ m \in marks
    /\ marks' = marks \ {m}
    /\ UNCHANGED <<broker, work, effects>>

Next ==
    \/ \E r \in Replicas : \/ \E m \in Messages : Receive(r, m)
                           \/ IsAlreadyProcessed(r) \/ Invoke(r) \/ Answer(r)
                           \/ InvokeFails(r) \/ MarkProcessed(r)
                           \/ CompleteMessage(r) \/ DeadLetter(r) \/ Crash(r)
    \/ \E m \in Messages : LockExpires(m) \/ Forget(m)

Spec == Init /\ [][Next]_vars

-----------------------------------------------------------------------------
TypeOK ==
    /\ queue \in [Messages -> {"ready", "locked", "gone", "dead"}]
    /\ lock \in [Messages -> Replicas \cup {None}]
    /\ deliveries \in [Messages -> 0..MaxDelivery]
    /\ marks \subseteq Messages
    /\ work \in [Replicas -> {Idle} \cup
                    [at : {"check", "invoke", "answer", "mark", "complete", "dead_letter"},
                     message : Messages]]
    /\ effects \in [Messages -> 0..MaxDelivery]

(* A message leaves the queue for good only after the agent has acted on   *)
(* it: a failed call, a crash or a duplicate that overtakes its original   *)
(* never discards it; it is delivered again or dead-lettered.              *)
NoMessageLost == \A m \in Messages : queue[m] = "gone" => effects[m] > 0

(* What the broker's count of deliveries bounds: the agent is invoked for  *)
(* a message at most once per delivery, whatever expired, crashed or was   *)
(* forgotten, and a message is not delivered without end.                  *)
InvokedPerDelivery ==
    \A m \in Messages : effects[m] <= deliveries[m] /\ deliveries[m] <= MaxDelivery

(* "The gate makes processing exactly-once", although duplicates are       *)
(* expected (function-servicebus/README.md).                               *)
ProcessedOnce == \A m \in Messages : effects[m] <= 1
=============================================================================
