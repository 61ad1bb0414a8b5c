---------------------------- MODULE Pilot_proofs ----------------------------
(***************************************************************************)
(* Proofs about what runs beside a pilot's governed agent: audit delivery  *)
(* (AuditSpool), the queue receivers (Receiver) and the orchestrator       *)
(* (Orchestrator).  Each theorem is about the component's own              *)
(* specification, for any number of receipts, messages, replicas,          *)
(* deliveries and faults.                                                  *)
(***************************************************************************)
EXTENDS MCPilot, Integers, FiniteSets, FiniteSetTheorems, TLAPS

(* AuditSpool.                                                             *)

USE DEF vars, tasks, service

SpoolInv ==
    /\ DOMAIN file = Receipts /\ DOMAIN call = Receipts
    /\ PermittedIsRecorded

LEMMA SpoolStep == SpoolInv /\ [Next]_vars => SpoolInv'
<1>. SUFFICES ASSUME SpoolInv, [Next]_vars PROVE SpoolInv'
  OBVIOUS
<1>. USE DEF SpoolInv, PermittedIsRecorded, Returns
<1>1. ASSUME NEW r \in Receipts, AppendReceipt(r) \/ Submit(r) \/ GiveUp(r) PROVE SpoolInv'
  BY <1>1 DEF AppendReceipt, Submit, GiveUp
<1>2. ASSUME NEW r \in Receipts, Take(r) PROVE SpoolInv'
  BY <1>2 DEF Take, Reports
<1>3. ASSUME NEW r \in Receipts, Visit(r) \/ Post(r) PROVE SpoolInv'
  BY <1>3 DEF Visit, Post
<1>4. ASSUME NEW r \in Receipts, Deliver(r) PROVE SpoolInv'
  BY <1>4 DEF Deliver, Acknowledged, Reports
<1>5. ASSUME NEW r \in Receipts, ExportFails(r) \/ WaitFails(r) PROVE SpoolInv'
  BY <1>5 DEF ExportFails, WaitFails, Reports
<1>6. ASSUME NEW r \in Receipts, Store(r) \/ Lose(r) PROVE SpoolInv'
  BY <1>6 DEF Store, Lose
<1>7. CASE Close \/ Restart
  BY <1>7 DEF Close, Restart, LoopEnds
<1>8. CASE Sweep \/ Enter \/ UNCHANGED vars
  BY <1>8 DEF Sweep, Enter
<1>. QED
  BY <1>1, <1>2, <1>3, <1>4, <1>5, <1>6, <1>7, <1>8 DEF Next

(* An effect that waited for its receipt was permitted only if the control *)
(* plane has it, and the spool calls no other receipt delivered.           *)
THEOREM SpoolPermittedIsRecorded == Spec => []PermittedIsRecorded
<1>1. Init => SpoolInv
  BY DEF Init, SpoolInv, PermittedIsRecorded
<1>2. SpoolInv => PermittedIsRecorded
  BY DEF SpoolInv
<1>. QED  BY <1>1, <1>2, SpoolStep, PTL DEF Spec

(* Every variable of the spool, its worker and the control plane keeps its *)
(* type (audit_delivery.py).                                               *)
THEOREM SpoolTypeOK == Spec => []TypeOK
<1>. USE ReceiptsAssumption DEF TypeOK, Returns, Reports
<1>1. Init => TypeOK
  BY DEF Init
<1>2. TypeOK /\ [Next]_vars => TypeOK'
  <2>. SUFFICES ASSUME TypeOK, [Next]_vars PROVE TypeOK'
    OBVIOUS
  <2>1. ASSUME NEW r \in Receipts, AppendReceipt(r) \/ Submit(r) \/ GiveUp(r) PROVE TypeOK'
    BY <2>1 DEF AppendReceipt, Submit, GiveUp
  <2>2. ASSUME NEW r \in Receipts, Take(r) PROVE TypeOK'
    <3>1. Holds(r, "append") \in [receipt : Receipts, for : {"append", "replay"}, sent : BOOLEAN]
      BY DEF Holds
    <3>2. CASE file[r] = "delivered"
      BY <2>2, <3>2 DEF Take
    <3>3. CASE file[r] # "delivered"
      BY <2>2, <3>1, <3>3 DEF Take
    <3>. QED  BY <3>2, <3>3
  <2>3. ASSUME NEW r \in Receipts, Visit(r) PROVE TypeOK'
    BY <2>3 DEF Visit, Holds
  <2>4. ASSUME NEW r \in Receipts, Post(r) PROVE TypeOK'
    <3>1. PICK for \in {"append", "replay"} : export = Holds(r, for)
      BY <2>4 DEF Post
    <3>2. [export EXCEPT !.sent = TRUE]
              \in [receipt : Receipts, for : {"append", "replay"}, sent : BOOLEAN]
      BY <3>1 DEF Holds
    <3>. QED  BY <2>4, <3>2 DEF Post
  <2>5. ASSUME NEW r \in Receipts, Deliver(r) \/ ExportFails(r) PROVE TypeOK'
    BY <2>5 DEF Deliver, ExportFails, RestOfSweep
  <2>6. ASSUME NEW r \in Receipts, WaitFails(r) PROVE TypeOK'
    BY <2>6 DEF WaitFails
  <2>7. ASSUME NEW r \in Receipts, Store(r) \/ Lose(r) PROVE TypeOK'
    BY <2>7 DEF Store, Lose
  <2>8. CASE Sweep
    BY <2>8 DEF Sweep, Spooled
  <2>9. CASE Close \/ Restart
    BY <2>9 DEF Close, Restart, LoopEnds
  <2>10. CASE Enter \/ UNCHANGED vars
    BY <2>10 DEF Enter
  <2>. QED  BY <2>1, <2>2, <2>3, <2>4, <2>5, <2>6, <2>7, <2>8, <2>9, <2>10 DEF Next
<1>. QED  BY <1>1, <1>2, PTL DEF Spec

-----------------------------------------------------------------------------
(* Receiver.                                                               *)

USE DEF Receivers!vars, Receivers!broker

(* A message a replica settles, and one it has marked, has been acted on.  *)
Labels == {"idle", "check", "invoke", "answer", "mark", "complete", "dead_letter"}
Work == [at : Labels, message : Messages \cup {None}]
Works == [Replicas -> Work]
WorkInOrder(r) ==
    /\ work[r].at # "idle" => work[r].message \in Messages
    /\ work[r].at \in {"answer", "mark", "complete"} => effects[work[r].message] > 0

MarkedOrGone == \A m \in Messages : m \in marks \/ messages[m] = "gone" => effects[m] > 0

ReceiverInv ==
    /\ DOMAIN messages = Messages /\ effects \in [Messages -> Nat]
    /\ work \in Works
    /\ \A r \in Replicas : WorkInOrder(r)
    /\ MarkedOrGone

LEMMA WorkGoes ==
    ASSUME work \in Works, NEW r \in Replicas, NEW label \in Labels, Receivers!Goes(r, label)
    PROVE  /\ work' \in Works
           /\ work'[r].at = label /\ work'[r].message = work[r].message
           /\ \A q \in Replicas : q # r => work'[q] = work[q]
BY DEF Receivers!Goes, Works, Work

LEMMA WorkEnds ==
    ASSUME work \in Works, NEW r \in Replicas, Receivers!Ends(r)
    PROVE  /\ work' \in Works
           /\ work'[r].at = "idle"
           /\ \A q \in Replicas : q # r => work'[q] = work[q]
<1>1. Receivers!Idle \in Work /\ Receivers!Idle.at = "idle"
  BY DEF Receivers!Idle, Work, Labels
<1>. QED  BY <1>1 DEF Receivers!Ends, Works

(* Whoever is not moved stays in order: effects only grow.                 *)
LEMMA OthersInOrder ==
    ASSUME ReceiverInv, NEW r \in Replicas,
           \A m \in Messages : effects[m] > 0 => effects'[m] > 0,
           \A q \in Replicas : q # r => work'[q] = work[q]
    PROVE  \A q \in Replicas : q # r => WorkInOrder(q)'
BY DEF ReceiverInv, WorkInOrder

LEMMA BrokerSettles ==
    ASSUME ReceiverInv, NEW m \in Messages, NEW as,
           Receivers!Settled(m, as) \/ UNCHANGED <<messages, lock>>,
           as = "gone" => effects[m] > 0, UNCHANGED <<marks, effects>>
    PROVE  DOMAIN messages' = Messages /\ MarkedOrGone'
BY DEF ReceiverInv, MarkedOrGone, Receivers!Settled

LEMMA ReceiverStep == ReceiverInv /\ [Receivers!Next]_Receivers!vars => ReceiverInv'
<1>. SUFFICES ASSUME ReceiverInv, [Receivers!Next]_Receivers!vars PROVE ReceiverInv'
  OBVIOUS
<1>0. /\ DOMAIN messages = Messages /\ effects \in [Messages -> Nat] /\ work \in Works
      /\ \A r \in Replicas : WorkInOrder(r)
      /\ MarkedOrGone
  BY DEF ReceiverInv
<1>1. ASSUME NEW r \in Replicas, NEW m \in Messages, Receivers!Receive(r, m) PROVE ReceiverInv'
  <2>1. /\ work' = [work EXCEPT ![r] = [at |-> "check", message |-> m]]
        /\ messages' = [messages EXCEPT ![m] = "locked"] /\ UNCHANGED <<marks, effects>>
    BY <1>1 DEF Receivers!Receive
  <2>2. work' \in Works /\ work'[r] = [at |-> "check", message |-> m]
        /\ \A q \in Replicas : q # r => work'[q] = work[q]
    <3>1. [at |-> "check", message |-> m] \in Work
      BY DEF Work, Labels
    <3>. QED  BY <1>0, <2>1, <3>1 DEF Works
  <2>3. WorkInOrder(r)'
    BY <2>2 DEF WorkInOrder
  <2>4. \A q \in Replicas : q # r => WorkInOrder(q)'
    BY <2>1, <2>2, OthersInOrder
  <2>5. DOMAIN messages' = Messages /\ MarkedOrGone'
    BY <1>0, <2>1 DEF MarkedOrGone
  <2>. QED  BY <1>0, <2>1, <2>2, <2>3, <2>4, <2>5 DEF ReceiverInv
<1>2. ASSUME NEW r \in Replicas,
             Receivers!IsAlreadyProcessed(r) \/ Receivers!Answer(r) \/ Receivers!InvokeFails(r)
                \/ Receivers!MarkProcessed(r)
      PROVE  ReceiverInv'
  <2>1. UNCHANGED <<messages, effects>> /\ marks' \in {marks, marks \cup {work[r].message}}
        /\ work[r].at \in {"check", "invoke", "answer", "mark"}
    BY <1>2 DEF Receivers!IsAlreadyProcessed, Receivers!Answer, Receivers!InvokeFails,
                Receivers!MarkProcessed, Receivers!ReadsOnly, Receivers!Is
  <2>2. PICK label \in Labels :
            /\ Receivers!Goes(r, label)
            /\ label \in {"answer", "mark", "complete"} /\ work[r].at = "check" => work[r].message \in marks
            /\ label \in {"answer", "mark", "complete"} => work[r].at \in {"check", "answer", "mark"}
            /\ marks' # marks => work[r].at = "mark"
    <3>1. CASE Receivers!IsAlreadyProcessed(r)
      <4>1. CASE work[r].message \in marks
        BY <3>1, <4>1 DEF Receivers!IsAlreadyProcessed, Receivers!ReadsOnly, Receivers!Is, Labels
      <4>2. CASE work[r].message \notin marks
        BY <3>1, <4>2 DEF Receivers!IsAlreadyProcessed, Receivers!ReadsOnly, Receivers!Is, Labels
      <4>. QED  BY <4>1, <4>2
    <3>2. CASE Receivers!Answer(r)
      BY <3>2 DEF Receivers!Answer, Receivers!Is, Labels
    <3>3. CASE Receivers!InvokeFails(r)
      BY <3>3 DEF Receivers!InvokeFails, Receivers!Is, Labels
    <3>4. CASE Receivers!MarkProcessed(r)
      BY <3>4 DEF Receivers!MarkProcessed, Receivers!Is, Labels
    <3>. QED  BY <1>2, <3>1, <3>2, <3>3, <3>4
  <2>3. /\ work' \in Works
        /\ work'[r].at = label /\ work'[r].message = work[r].message
        /\ \A q \in Replicas : q # r => work'[q] = work[q]
    BY <1>0, <2>2, WorkGoes
  <2>4. work[r].message \in Messages
    BY <1>0, <2>1 DEF WorkInOrder
  <2>5. label \in {"answer", "mark", "complete"} => effects[work[r].message] > 0
    BY <1>0, <2>2, <2>4 DEF WorkInOrder, MarkedOrGone
  <2>6. WorkInOrder(r)'
    BY <2>1, <2>3, <2>4, <2>5 DEF WorkInOrder
  <2>7. \A q \in Replicas : q # r => WorkInOrder(q)'
    BY <2>1, <2>3, OthersInOrder
  <2>8. MarkedOrGone'
    BY <1>0, <2>1, <2>2, <2>4 DEF MarkedOrGone, WorkInOrder
  <2>. QED  BY <1>0, <2>1, <2>3, <2>6, <2>7, <2>8 DEF ReceiverInv
<1>3. ASSUME NEW r \in Replicas, Receivers!Invoke(r) PROVE ReceiverInv'
  <2>1. /\ work[r].at = "invoke" /\ Receivers!Goes(r, "answer")
        /\ effects' = [effects EXCEPT ![work[r].message] = @ + 1]
        /\ UNCHANGED <<messages, marks>>
    BY <1>3 DEF Receivers!Invoke, Receivers!Is
  <2>2. work[r].message \in Messages
    BY <1>0, <2>1 DEF WorkInOrder
  <2>3. /\ work' \in Works
        /\ work'[r].at = "answer" /\ work'[r].message = work[r].message
        /\ \A q \in Replicas : q # r => work'[q] = work[q]
    BY <1>0, <2>1, WorkGoes DEF Labels
  <2>4. /\ effects' \in [Messages -> Nat] /\ effects'[work[r].message] > 0
        /\ \A m \in Messages : effects[m] > 0 => effects'[m] > 0
    BY <1>0, <2>1, <2>2
  <2>5. WorkInOrder(r)'
    BY <2>2, <2>3, <2>4 DEF WorkInOrder
  <2>6. \A q \in Replicas : q # r => WorkInOrder(q)'
    BY <2>3, <2>4, OthersInOrder
  <2>7. MarkedOrGone'
    BY <1>0, <2>1, <2>4 DEF MarkedOrGone
  <2>. QED  BY <1>0, <2>1, <2>3, <2>4, <2>5, <2>6, <2>7 DEF ReceiverInv
<1>4. ASSUME NEW r \in Replicas, Receivers!CompleteMessage(r) \/ Receivers!DeadLetter(r)
      PROVE  ReceiverInv'
  <2>1. UNCHANGED <<marks, effects>> /\ Receivers!Ends(r)
        /\ work[r].at \in {"complete", "dead_letter"}
    BY <1>4 DEF Receivers!CompleteMessage, Receivers!DeadLetter, Receivers!Is
  <2>2. work[r].message \in Messages /\ (work[r].at = "complete" => effects[work[r].message] > 0)
    BY <1>0, <2>1 DEF WorkInOrder
  <2>3. \E as : /\ Receivers!Settled(work[r].message, as) \/ UNCHANGED <<messages, lock>>
                /\ as = "gone" => work[r].at = "complete"
    BY <1>4 DEF Receivers!CompleteMessage, Receivers!DeadLetter, Receivers!Is, Receivers!IfHeld,
                Receivers!Abandoned
  <2>4. DOMAIN messages' = Messages /\ MarkedOrGone'
    BY <2>1, <2>2, <2>3, BrokerSettles
  <2>5. /\ work' \in Works /\ work'[r].at = "idle"
        /\ \A q \in Replicas : q # r => work'[q] = work[q]
    BY <1>0, <2>1, WorkEnds
  <2>6. \A q \in Replicas : WorkInOrder(q)'
    <3>1. WorkInOrder(r)'
      BY <2>5 DEF WorkInOrder
    <3>. QED  BY <2>1, <2>5, <3>1, OthersInOrder
  <2>. QED  BY <1>0, <2>1, <2>4, <2>5, <2>6 DEF ReceiverInv
<1>5. ASSUME NEW r \in Replicas, Receivers!Crash(r) PROVE ReceiverInv'
  <2>1. UNCHANGED <<messages, marks, effects>> /\ Receivers!Ends(r)
    BY <1>5 DEF Receivers!Crash
  <2>2. /\ work' \in Works /\ work'[r].at = "idle"
        /\ \A q \in Replicas : q # r => work'[q] = work[q]
    BY <1>0, <2>1, WorkEnds
  <2>3. WorkInOrder(r)'
    BY <2>2 DEF WorkInOrder
  <2>4. \A q \in Replicas : q # r => WorkInOrder(q)'
    BY <2>1, <2>2, OthersInOrder
  <2>5. MarkedOrGone'
    BY <1>0, <2>1 DEF MarkedOrGone
  <2>. QED  BY <1>0, <2>1, <2>2, <2>3, <2>4, <2>5 DEF ReceiverInv
<1>6. ASSUME NEW m \in Messages, Receivers!LockExpires(m) PROVE ReceiverInv'
  <2>1. UNCHANGED <<marks, work, effects>>
    BY <1>6 DEF Receivers!LockExpires
  <2>2. PICK as : Receivers!Settled(m, as) /\ as # "gone"
    BY <1>6 DEF Receivers!LockExpires, Receivers!Abandoned
  <2>3. DOMAIN messages' = Messages /\ MarkedOrGone'
    BY <1>0, <2>1, <2>2 DEF MarkedOrGone, Receivers!Settled
  <2>. QED  BY <1>0, <2>1, <2>3 DEF ReceiverInv, WorkInOrder
<1>7. ASSUME NEW m \in Messages, Receivers!Forget(m) PROVE ReceiverInv'
  BY <1>0, <1>7 DEF Receivers!Forget, ReceiverInv, WorkInOrder, MarkedOrGone
<1>8. CASE UNCHANGED Receivers!vars
  BY <1>0, <1>8 DEF ReceiverInv, WorkInOrder, MarkedOrGone
<1>. QED
  BY <1>1, <1>2, <1>3, <1>4, <1>5, <1>6, <1>7, <1>8 DEF Receivers!Next

(* A message that left its queue for good was acted on.                    *)
THEOREM ReceiverNoMessageLost == Receivers!Spec => []NoMessageLost
<1>1. Receivers!Init => ReceiverInv
  BY DEF Receivers!Init, ReceiverInv, Receivers!Idle, Work, Works, Labels, WorkInOrder, MarkedOrGone
<1>2. ReceiverInv => NoMessageLost
  BY DEF ReceiverInv, MarkedOrGone, NoMessageLost, Receivers!NoMessageLost
<1>. QED  BY <1>1, <1>2, ReceiverStep, PTL DEF Receivers!Spec

(* What the deliveries of a message still allow: a replica that looked the *)
(* message up and has not invoked the agent yet stands for a delivery of   *)
(* its own.  However many such replicas there are, every finite set of     *)
(* them is covered, together with the invocations so far.                  *)
Unspent(m) == {r \in Replicas : work[r].message = m /\ work[r].at \in {"check", "invoke"}}
Covered(m) ==
    \A S \in SUBSET Unspent(m) : IsFiniteSet(S) => effects[m] + Cardinality(S) <= deliveries[m]

BrokerTypes ==
    /\ messages \in [Messages -> {"ready", "locked", "gone", "dead"}]
    /\ lock \in [Messages -> Replicas \cup {None}]
    /\ deliveries \in [Messages -> 0..MaxDelivery]
    /\ marks \subseteq Messages
    /\ \A m \in Messages : messages[m] = "ready" => deliveries[m] < MaxDelivery
IdleIsIdle == \A r \in Replicas : work[r].at = "idle" => work[r] = Receivers!Idle
DeliveryInv == BrokerTypes /\ IdleIsIdle /\ \A m \in Messages : Covered(m)

LEMMA CoveredStays ==
    ASSUME NEW m \in Messages, Covered(m), Unspent(m)' \subseteq Unspent(m),
           effects'[m] = effects[m], deliveries'[m] = deliveries[m]
    PROVE  Covered(m)'
BY DEF Covered

LEMMA CoveredByDelivery ==
    ASSUME NEW m \in Messages, NEW r, Covered(m), Unspent(m)' \subseteq Unspent(m) \cup {r},
           effects[m] \in Nat, effects'[m] = effects[m],
           deliveries[m] \in Nat, deliveries'[m] = deliveries[m] + 1
    PROVE  Covered(m)'
<1>. SUFFICES ASSUME NEW S \in SUBSET Unspent(m)', IsFiniteSet(S)
              PROVE  effects'[m] + Cardinality(S) <= deliveries'[m]
  BY DEF Covered
<1>1. S \ {r} \in SUBSET Unspent(m)
  OBVIOUS
<1>2. /\ IsFiniteSet(S \ {r})
      /\ Cardinality(S) \in Nat /\ Cardinality(S \ {r}) \in Nat
      /\ Cardinality(S) <= Cardinality(S \ {r}) + 1
  <2>1. /\ IsFiniteSet(S \ {r})
        /\ Cardinality(S \ {r}) = IF r \in S THEN Cardinality(S) - 1 ELSE Cardinality(S)
    BY FS_RemoveElement
  <2>2. Cardinality(S) \in Nat /\ Cardinality(S \ {r}) \in Nat
    BY <2>1, FS_CardinalityType
  <2>. QED  BY <2>1, <2>2
<1>3. effects[m] + Cardinality(S \ {r}) <= deliveries[m]
  BY <1>1, <1>2 DEF Covered
<1>. QED  BY <1>2, <1>3

LEMMA CoveredBySpending ==
    ASSUME NEW m \in Messages, NEW r \in Unspent(m), Covered(m),
           Unspent(m)' \subseteq Unspent(m) \ {r},
           effects[m] \in Nat, effects'[m] = effects[m] + 1,
           deliveries[m] \in Nat, deliveries'[m] = deliveries[m]
    PROVE  Covered(m)'
<1>. SUFFICES ASSUME NEW S \in SUBSET Unspent(m)', IsFiniteSet(S)
              PROVE  effects'[m] + Cardinality(S) <= deliveries'[m]
  BY DEF Covered
<1>1. S \cup {r} \in SUBSET Unspent(m) /\ r \notin S
  OBVIOUS
<1>2. /\ IsFiniteSet(S \cup {r})
      /\ Cardinality(S) \in Nat
      /\ Cardinality(S \cup {r}) = Cardinality(S) + 1
  BY <1>1, FS_AddElement, FS_CardinalityType
<1>3. effects[m] + Cardinality(S \cup {r}) <= deliveries[m]
  BY <1>1, <1>2 DEF Covered
<1>. QED  BY <1>2, <1>3

LEMMA SettlementsType ==
    ASSUME BrokerTypes, NEW m \in Messages, NEW as \in {"ready", "gone", "dead"},
           as = "ready" => deliveries[m] < MaxDelivery,
           Receivers!Settled(m, as) \/ UNCHANGED <<messages, lock>>,
           UNCHANGED <<deliveries, marks>>
    PROVE  BrokerTypes'
BY DEF BrokerTypes, Receivers!Settled

(* A replica that only moves on, to a place where nothing more is to be    *)
(* invoked or from check to invoke, leaves every message covered.          *)
LEMMA CoveredWhenMoving ==
    ASSUME DeliveryInv, NEW r \in Replicas, UNCHANGED <<deliveries, effects>>,
           \A q \in Replicas : q # r => work'[q] = work[q],
           work'[r].at \in {"check", "invoke"} =>
               work[r].at \in {"check", "invoke"} /\ work'[r].message = work[r].message
    PROVE  \A m \in Messages : Covered(m)'
<1>. SUFFICES ASSUME NEW m \in Messages PROVE Covered(m)'
  OBVIOUS
<1>1. Unspent(m)' \subseteq Unspent(m)
  BY DEF Unspent
<1>. QED  BY <1>1, CoveredStays DEF DeliveryInv

LEMMA DeliveryStep ==
    ReceiverInv /\ DeliveryInv /\ [Receivers!Next]_Receivers!vars => DeliveryInv'
<1>. SUFFICES ASSUME ReceiverInv, DeliveryInv, [Receivers!Next]_Receivers!vars
              PROVE  DeliveryInv'
  OBVIOUS
<1>0. /\ effects \in [Messages -> Nat] /\ work \in Works /\ work' \in Works
      /\ \A r \in Replicas : WorkInOrder(r)
      /\ BrokerTypes /\ IdleIsIdle /\ \A m \in Messages : Covered(m)
      /\ MaxDelivery \in Nat \ {0} /\ None \notin Messages
  BY ReceiverStep, ReceiversAssumption DEF ReceiverInv, DeliveryInv
<1>1. ASSUME NEW r \in Replicas, NEW m \in Messages, Receivers!Receive(r, m) PROVE DeliveryInv'
  <2>1. /\ work[r].at = "idle" /\ messages[m] = "ready"
        /\ messages' = [messages EXCEPT ![m] = "locked"]
        /\ lock' = [lock EXCEPT ![m] = r]
        /\ deliveries' = [deliveries EXCEPT ![m] = @ + 1]
        /\ work' = [work EXCEPT ![r] = [at |-> "check", message |-> m]]
        /\ UNCHANGED <<marks, effects>>
    BY <1>1 DEF Receivers!Receive, Receivers!Is
  <2>2. deliveries[m] < MaxDelivery
    BY <1>0, <2>1 DEF BrokerTypes
  <2>3. BrokerTypes'
    BY <1>0, <2>1, <2>2 DEF BrokerTypes
  <2>4. /\ work'[r] = [at |-> "check", message |-> m]
        /\ \A q \in Replicas : q # r => work'[q] = work[q]
    BY <1>0, <2>1 DEF Works
  <2>5. IdleIsIdle'
    BY <1>0, <2>4 DEF IdleIsIdle
  <2>6. ASSUME NEW n \in Messages PROVE Covered(n)'
    <3>1. CASE n = m
      <4>1. Unspent(m)' \subseteq Unspent(m) \cup {r}
        BY <2>4 DEF Unspent
      <4>2. deliveries[m] \in Nat /\ deliveries'[m] = deliveries[m] + 1
        BY <1>0, <2>1 DEF BrokerTypes
      <4>. QED  BY <1>0, <2>1, <3>1, <4>1, <4>2, CoveredByDelivery
    <3>2. CASE n # m
      <4>1. Unspent(n)' \subseteq Unspent(n)
        BY <2>4, <3>2 DEF Unspent
      <4>2. deliveries'[n] = deliveries[n]
        BY <1>0, <2>1, <3>2 DEF BrokerTypes
      <4>. QED  BY <1>0, <2>1, <4>1, <4>2, CoveredStays
    <3>. QED  BY <3>1, <3>2
  <2>. QED  BY <2>3, <2>5, <2>6 DEF DeliveryInv
<1>2. ASSUME NEW r \in Replicas,
             \/ Receivers!IsAlreadyProcessed(r) \/ Receivers!Answer(r)
             \/ Receivers!InvokeFails(r) \/ Receivers!MarkProcessed(r)
      PROVE  DeliveryInv'
  <2>1. /\ UNCHANGED <<messages, lock, deliveries, effects>>
        /\ marks' \in {marks, marks \cup {work[r].message}} /\ work[r].at # "idle"
    BY <1>2 DEF Receivers!IsAlreadyProcessed, Receivers!Answer, Receivers!InvokeFails,
                Receivers!MarkProcessed, Receivers!ReadsOnly, Receivers!Is
  <2>2. PICK label \in Labels \ {"idle", "check"} :
            /\ Receivers!Goes(r, label)
            /\ label = "invoke" => work[r].at = "check"
    <3>1. CASE Receivers!IsAlreadyProcessed(r)
      <4>1. CASE work[r].message \in marks
        BY <3>1, <4>1 DEF Receivers!IsAlreadyProcessed, Labels
      <4>2. CASE work[r].message \notin marks
        BY <3>1, <4>2 DEF Receivers!IsAlreadyProcessed, Receivers!Is, Labels
      <4>. QED  BY <4>1, <4>2
    <3>. QED
      BY <1>2, <3>1
      DEF Receivers!Answer, Receivers!InvokeFails, Receivers!MarkProcessed, Labels
  <2>3. /\ work'[r].at = label /\ work'[r].message = work[r].message
        /\ \A q \in Replicas : q # r => work'[q] = work[q]
    BY <1>0, <2>2, WorkGoes
  <2>4. BrokerTypes'
    BY <1>0, <2>1 DEF BrokerTypes, WorkInOrder
  <2>5. IdleIsIdle'
    BY <1>0, <2>3 DEF IdleIsIdle
  <2>6. \A m \in Messages : Covered(m)'
    BY <2>1, <2>2, <2>3, CoveredWhenMoving
  <2>. QED  BY <2>4, <2>5, <2>6 DEF DeliveryInv
<1>3. ASSUME NEW r \in Replicas, Receivers!Invoke(r) PROVE DeliveryInv'
  <2>. DEFINE m == work[r].message
  <2>1. /\ work[r].at = "invoke" /\ Receivers!Goes(r, "answer")
        /\ effects' = [effects EXCEPT ![m] = @ + 1]
        /\ UNCHANGED <<messages, lock, deliveries, marks>>
    BY <1>3 DEF Receivers!Invoke, Receivers!Is
  <2>2. m \in Messages
    BY <1>0, <2>1 DEF WorkInOrder
  <2>3. /\ work'[r].at = "answer"
        /\ \A q \in Replicas : q # r => work'[q] = work[q]
    BY <1>0, <2>1, WorkGoes DEF Labels
  <2>4. BrokerTypes' /\ IdleIsIdle'
    BY <1>0, <2>1, <2>3 DEF BrokerTypes, IdleIsIdle
  <2>5. ASSUME NEW n \in Messages PROVE Covered(n)'
    <3>1. CASE n = m
      <4>1. r \in Unspent(n) /\ Unspent(n)' \subseteq Unspent(n) \ {r}
        BY <2>1, <2>3, <3>1 DEF Unspent
      <4>2. effects[n] \in Nat /\ effects'[n] = effects[n] + 1
        BY <1>0, <2>1, <2>2, <3>1
      <4>3. deliveries[n] \in Nat /\ deliveries'[n] = deliveries[n]
        BY <1>0, <2>1 DEF BrokerTypes
      <4>. HIDE DEF m
      <4>. QED  BY <1>0, <4>1, <4>2, <4>3, CoveredBySpending
    <3>2. CASE n # m
      <4>1. Unspent(n)' \subseteq Unspent(n)
        BY <2>3 DEF Unspent
      <4>2. effects'[n] = effects[n]
        BY <1>0, <2>1, <3>2
      <4>. QED  BY <1>0, <2>1, <4>1, <4>2, CoveredStays
    <3>. QED  BY <3>1, <3>2
  <2>. QED  BY <2>4, <2>5 DEF DeliveryInv
<1>4. ASSUME NEW r \in Replicas,
             Receivers!CompleteMessage(r) \/ Receivers!DeadLetter(r) \/ Receivers!Crash(r)
      PROVE  DeliveryInv'
  <2>1. /\ UNCHANGED <<deliveries, marks, effects>> /\ Receivers!Ends(r)
        /\ work[r].at # "idle"
    BY <1>4 DEF Receivers!CompleteMessage, Receivers!DeadLetter, Receivers!Crash, Receivers!Is
  <2>2. /\ work'[r] = Receivers!Idle /\ work'[r].at = "idle"
        /\ \A q \in Replicas : q # r => work'[q] = work[q]
    BY <1>0, <2>1, WorkEnds DEF Receivers!Ends, Works
  <2>3. work[r].message \in Messages
    BY <1>0, <2>1 DEF WorkInOrder
  <2>4. BrokerTypes'
    <3>1. PICK as \in {"ready", "gone", "dead"} :
              /\ as = "ready" => deliveries[work[r].message] < MaxDelivery
              /\ Receivers!Settled(work[r].message, as) \/ UNCHANGED <<messages, lock>>
      BY <1>4
      DEF Receivers!CompleteMessage, Receivers!DeadLetter, Receivers!Crash, Receivers!IfHeld,
          Receivers!Abandoned
    <3>. QED  BY <1>0, <2>1, <2>3, <3>1, SettlementsType
  <2>5. IdleIsIdle'
    BY <1>0, <2>2 DEF IdleIsIdle
  <2>6. \A m \in Messages : Covered(m)'
    BY <2>1, <2>2, CoveredWhenMoving
  <2>. QED  BY <2>4, <2>5, <2>6 DEF DeliveryInv
<1>5. ASSUME NEW m \in Messages, Receivers!LockExpires(m) PROVE DeliveryInv'
  <2>1. UNCHANGED <<deliveries, marks, work, effects>>
    BY <1>5 DEF Receivers!LockExpires
  <2>2. PICK as \in {"ready", "dead"} :
            Receivers!Settled(m, as) /\ (as = "ready" => deliveries[m] < MaxDelivery)
    BY <1>5 DEF Receivers!LockExpires, Receivers!Abandoned
  <2>3. BrokerTypes'
    BY <1>0, <2>1, <2>2, SettlementsType
  <2>. QED  BY <1>0, <2>1, <2>3 DEF DeliveryInv, IdleIsIdle, Covered, Unspent
<1>6. ASSUME NEW m \in Messages, Receivers!Forget(m) PROVE DeliveryInv'
  BY <1>0, <1>6 DEF Receivers!Forget, DeliveryInv, BrokerTypes, IdleIsIdle, Covered, Unspent
<1>7. CASE UNCHANGED Receivers!vars
  BY <1>0, <1>7 DEF DeliveryInv, BrokerTypes, IdleIsIdle, Covered, Unspent
<1>. QED
  BY <1>1, <1>2, <1>3, <1>4, <1>5, <1>6, <1>7 DEF Receivers!Next

LEMMA DeliveryInvariant == Receivers!Spec => [](ReceiverInv /\ DeliveryInv)
<1>1. Receivers!Init => DeliveryInv
  <2>. SUFFICES ASSUME Receivers!Init PROVE DeliveryInv
    OBVIOUS
  <2>1. BrokerTypes /\ IdleIsIdle
    BY ReceiversAssumption DEF Receivers!Init, Receivers!Idle, BrokerTypes, IdleIsIdle
  <2>2. ASSUME NEW m \in Messages PROVE Covered(m)
    <3>1. Unspent(m) = {}
      BY DEF Receivers!Init, Receivers!Idle, Unspent
    <3>2. effects[m] + Cardinality({}) <= deliveries[m]
      BY FS_EmptySet DEF Receivers!Init
    <3>. QED  BY <3>1, <3>2 DEF Covered
  <2>. QED  BY <2>1, <2>2 DEF DeliveryInv
<1>2. Receivers!Init => ReceiverInv
  BY DEF Receivers!Init, ReceiverInv, Receivers!Idle, Work, Works, Labels, WorkInOrder, MarkedOrGone
<1>. QED  BY <1>1, <1>2, ReceiverStep, DeliveryStep, PTL DEF Receivers!Spec

(* However often locks expire, replicas crash and marks are forgotten, the *)
(* agent is invoked for a message at most once per delivery, and delivered *)
(* at most maxDeliveryCount times (receiver.py, receiver_core.py).         *)
THEOREM ReceiverInvokedPerDelivery == Receivers!Spec => []Receivers!InvokedPerDelivery
<1>1. ASSUME ReceiverInv, DeliveryInv, NEW m \in Messages
      PROVE  effects[m] <= deliveries[m] /\ deliveries[m] <= MaxDelivery
  <2>1. effects[m] \in Nat /\ deliveries[m] \in 0..MaxDelivery /\ Covered(m)
    BY <1>1 DEF ReceiverInv, DeliveryInv, BrokerTypes
  <2>2. effects[m] + Cardinality({}) <= deliveries[m]
    BY <2>1, FS_EmptySet DEF Covered
  <2>. QED  BY <2>1, <2>2, FS_EmptySet, ReceiversAssumption
<1>2. ReceiverInv /\ DeliveryInv => Receivers!InvokedPerDelivery
  BY <1>1 DEF Receivers!InvokedPerDelivery
<1>. QED  BY <1>2, DeliveryInvariant, PTL

(* Every variable of the receivers and their broker keeps its type.        *)
THEOREM ReceiverTypeOK == Receivers!Spec => []Receivers!TypeOK
<1>1. ASSUME ReceiverInv, DeliveryInv, Receivers!InvokedPerDelivery PROVE Receivers!TypeOK
  <2>1. /\ effects \in [Messages -> Nat] /\ work \in Works /\ \A r \in Replicas : WorkInOrder(r)
        /\ BrokerTypes /\ IdleIsIdle
    BY <1>1 DEF ReceiverInv, DeliveryInv
  <2>2. effects \in [Messages -> 0..MaxDelivery]
    BY <1>1, <2>1, ReceiversAssumption DEF Receivers!InvokedPerDelivery, BrokerTypes
  <2>3. ASSUME NEW r \in Replicas
        PROVE  work[r] \in {Receivers!Idle} \cup
                   [at : {"check", "invoke", "answer", "mark", "complete", "dead_letter"},
                    message : Messages]
    <3>1. CASE work[r].at = "idle"
      BY <2>1, <3>1 DEF IdleIsIdle
    <3>2. CASE work[r].at # "idle"
      BY <2>1, <3>2 DEF Works, Work, Labels, WorkInOrder
    <3>. QED  BY <3>1, <3>2
  <2>4. work \in [Replicas -> {Receivers!Idle} \cup
                   [at : {"check", "invoke", "answer", "mark", "complete", "dead_letter"},
                    message : Messages]]
    BY <2>1, <2>3 DEF Works
  <2>. QED  BY <2>1, <2>2, <2>4 DEF BrokerTypes, Receivers!TypeOK
<1>. QED  BY <1>1, DeliveryInvariant, ReceiverInvokedPerDelivery, PTL

-----------------------------------------------------------------------------
(* Orchestrator.                                                           *)

USE DEF Driver!vars, Driver!files, Driver!evidence

Ended == {"none", "succeeded", "superseded"}
AttemptType == [n : Nat, status : {"none", "started", "succeeded", "failed", "superseded"},
                authorized : Contents \cup {0}, fingerprint : Driver!Fingerprint, prior : Nat,
                probe : Driver!Fingerprint \X Nat]
CollectionType == [id : Nat, after : Nat, saw : Driver!Deployment, pass : BOOLEAN]
Places == {"govern", "gate", "deploy", "probe", "safe_check", "invoke", "idle", "decide", "authorize",
           "record_gate", "record_probe", "blocked", "incomplete", "complete"}
RunType == [at : Places, executed : SUBSET Places, prior : Nat, after : Nat]

DriverTypes ==
    /\ inputs \in Contents /\ outputs \in Observed \cup {0}
    /\ attempt \in AttemptType
    /\ collection \in CollectionType
    /\ world \in Driver!Deployment
    /\ run \in RunType
    /\ manual \subseteq [after : Nat, saw : Driver!Deployment]
    /\ meanwhile \in {"unchanged", "changed", "restored"}

(* Attempts are numbered from 1; what is deployed belongs to one of them,  *)
(* or to none when it was deployed by hand.                                *)
Numbered ==
    /\ attempt.status = "none" <=> attempt.n = 0
    /\ world.attempt <= attempt.n
    /\ run.at = "deploy" => attempt.n > 0

(* What the worker of the attempt that has started reads: the inputs it    *)
(* was authorised for, for as long as nobody changes them.                 *)
Deploys ==
    /\ run.at = "deploy" =>
        /\ attempt.status = "started"
        /\ meanwhile = "unchanged" => inputs = attempt.authorized
        /\ meanwhile = "changed" => inputs # attempt.authorized
        /\ world.attempt = attempt.n /\ meanwhile = "unchanged" => world.inputs = attempt.authorized
    /\ Driver!SucceededIsAuthorized

(* A collection that began after the latest attempt saw what it deployed.  *)
Saw(after, saw) ==
    /\ after <= attempt.n
    /\ attempt.n > 0 /\ after = attempt.n => attempt.status \in Ended /\ saw = world

Observes ==
    /\ Saw(collection.after, collection.saw)
    /\ \A c \in manual : Saw(c.after, c.saw)
    /\ run.at = "probe" => Saw(run.after, world)

DriverInv == DriverTypes /\ Numbered /\ Deploys /\ Observes

LEMMA DriverInit == Driver!Init => DriverInv
<1>. SUFFICES ASSUME Driver!Init PROVE DriverInv
  OBVIOUS
<1>. USE DEF Driver!Init
<1>1. DriverTypes
  BY DEF DriverTypes, AttemptType, CollectionType, Driver!Deployment, Driver!Fingerprint,
         Driver!Nothing, RunType, Places
<1>2. Numbered
  BY DEF Numbered, Driver!Nothing
<1>3. Deploys
  BY DEF Deploys, Driver!SucceededIsAuthorized, Driver!Succeeded
<1>4. Observes
  BY DEF Observes, Saw
<1>. QED  BY <1>1, <1>2, <1>3, <1>4 DEF DriverInv

(* How the steps of execute move its record.                               *)
LEMMA RunFields ==
    ASSUME run \in RunType, NEW at \in Places, Driver!Moves(at) \/ Driver!Returns(at)
    PROVE  /\ run' \in RunType
           /\ run'.at = at /\ run'.after = run.after
           /\ run'.prior = run.prior
           /\ run'.executed \in {run.executed, run.executed \cup {run.at}}
<1>1. CASE Driver!Moves(at)
  BY <1>1 DEF Driver!Moves, RunType
<1>2. CASE Driver!Returns(at)
  BY <1>2 DEF Driver!Returns, RunType
<1>. QED  BY <1>1, <1>2

(* A step of execute, or a disturbance, that leaves the attempt, what is   *)
(* deployed and the collections alone.                                     *)
LEMMA DriverFrame ==
    ASSUME DriverInv,
           UNCHANGED <<attempt, world, collection, manual, meanwhile>>,
           inputs' \in Contents, outputs' \in Observed \cup {0},
           run' \in RunType,
           run'.at \notin {"deploy", "probe"}
    PROVE  DriverInv'
<1>1. DriverTypes'
  BY DEF DriverInv, DriverTypes
<1>2. Numbered'
  BY DEF DriverInv, Numbered
<1>3. Deploys'
  BY DEF DriverInv, Deploys, Driver!SucceededIsAuthorized, Driver!Succeeded
<1>4. Observes'
  BY DEF DriverInv, Observes, Saw
<1>. QED  BY <1>1, <1>2, <1>3, <1>4 DEF DriverInv

LEMMA StagesAre ==
    /\ Driver!Len(Driver!Stages) = 6
    /\ Driver!Stages[1] = "govern" /\ Driver!Stages[2] = "gate" /\ Driver!Stages[3] = "deploy"
    /\ Driver!Stages[4] = "probe" /\ Driver!Stages[5] = "safe_check" /\ Driver!Stages[6] = "invoke"
BY DEF Driver!Stages

LEMMA FirstPending ==
    ASSUME Driver!Pending # {}
    PROVE  /\ Driver!Min(Driver!Pending) \in Driver!Pending
           /\ \A k \in Driver!Pending : Driver!Min(Driver!Pending) <= k
<1>1. Driver!Pending \subseteq 1..6
  BY StagesAre DEF Driver!Pending, Driver!StagesToRun
<1>2. \A S \in SUBSET (1..6) : S # {} => \E x \in S : \A y \in S : x <= y
  <2>. SUFFICES ASSUME NEW S \in SUBSET (1..6), S # {} PROVE \E x \in S : \A y \in S : x <= y
    OBVIOUS
  <2>0. \A x \in S : x \in {1, 2, 3, 4, 5, 6}
    OBVIOUS
  <2>1. CASE 1 \in S
    BY <2>1
  <2>2. CASE 1 \notin S /\ 2 \in S
    BY <2>0, <2>2
  <2>3. CASE 1 \notin S /\ 2 \notin S /\ 3 \in S
    BY <2>0, <2>3
  <2>4. CASE 1 \notin S /\ 2 \notin S /\ 3 \notin S /\ 4 \in S
    BY <2>0, <2>4
  <2>5. CASE 1 \notin S /\ 2 \notin S /\ 3 \notin S /\ 4 \notin S /\ 5 \in S
    BY <2>0, <2>5
  <2>6. CASE 1 \notin S /\ 2 \notin S /\ 3 \notin S /\ 4 \notin S /\ 5 \notin S
    <3>1. \A x \in S : x = 6
      BY <2>0, <2>6
    <3>2. PICK x \in S : TRUE
      OBVIOUS
    <3>. QED  BY <3>1, <3>2
  <2>. QED  BY <2>1, <2>2, <2>3, <2>4, <2>5, <2>6
<1>3. \E x \in Driver!Pending : \A y \in Driver!Pending : x <= y
  BY <1>1, <1>2
<1>. QED  BY <1>3 DEF Driver!Min

(* The attempts that have ended when a collection begins.                  *)
LEMMA FinishedIs ==
    ASSUME DriverInv PROVE Driver!Finished \in Nat /\ Saw(Driver!Finished, world)
BY DEF DriverInv, DriverTypes, AttemptType, Numbered, Driver!Finished, Saw, Ended

(* The stage that runs next.                                               *)
LEMMA RunStageIs ==
    ASSUME DriverInv, Driver!RunStage
    PROVE  \E stage \in Places :
        /\ stage \in {"govern", "gate", "deploy", "probe", "safe_check", "invoke"}
        /\ run'.at \in {IF stage = "deploy" THEN "authorize" ELSE stage, "blocked"}
        /\ run'.at # "blocked" => Driver!Guarded(stage)
        /\ run' \in RunType /\ run'.executed = run.executed
        /\ run'.at = "probe" => run'.after = Driver!Finished
<1>. DEFINE i == Driver!Min(Driver!Pending)
            stage == Driver!Stages[i]
<1>1. i \in Driver!Pending /\ \A k \in Driver!Pending : i <= k
  BY FirstPending DEF Driver!RunStage
<1>2. i \in 1..6
  BY <1>1, StagesAre DEF Driver!Pending, Driver!StagesToRun
<1>3. stage \in {"govern", "gate", "deploy", "probe", "safe_check", "invoke"}
  BY <1>2, StagesAre
<1>5. run \in RunType /\ collection.id \in Nat /\ Driver!Finished \in Nat
  BY FinishedIs DEF DriverInv, DriverTypes, CollectionType
<1>. HIDE DEF stage, i
<1>6. CASE Driver!Guarded(stage)
  <2>1. run' = [run EXCEPT !.at = IF stage = "deploy" THEN "authorize" ELSE stage,
                           !.prior = collection.id,
                           !.after = IF stage = "probe" THEN Driver!Finished ELSE 0]
    BY <1>6 DEF Driver!RunStage, stage, i
  <2>2. PICK at \in Places : at = IF stage = "deploy" THEN "authorize" ELSE stage
    BY <1>3 DEF Places
  <2>3. PICK after \in Nat : after = IF stage = "probe" THEN Driver!Finished ELSE 0
    BY <1>5
  <2>4. run' = [run EXCEPT !.at = at, !.prior = collection.id, !.after = after]
    BY <2>1, <2>2, <2>3
  <2>5. run' \in RunType /\ run'.at = at /\ run'.after = after /\ run'.executed = run.executed
    BY <1>5, <2>4 DEF RunType
  <2>6. stage \in Places
    BY <1>3 DEF Places
  <2>. QED  BY <1>3, <1>6, <2>2, <2>3, <2>5, <2>6
<1>7. CASE ~Driver!Guarded(stage)
  <2>1. run' = [run EXCEPT !.at = "blocked"]
    BY <1>7 DEF Driver!RunStage, Driver!Moves, stage, i
  <2>2. run' \in RunType /\ run'.at = "blocked" /\ run'.executed = run.executed
    BY <1>5, <2>1 DEF RunType, Places
  <2>3. stage \in Places
    BY <1>3 DEF Places
  <2>. QED  BY <1>3, <2>2, <2>3
<1>. QED  BY <1>6, <1>7

LEMMA RunStageStep ==
    ASSUME DriverInv, Driver!RunStage PROVE DriverInv'
<1>1. PICK stage \in Places :
        /\ run'.at \in {IF stage = "deploy" THEN "authorize" ELSE stage, "blocked"}
        /\ run' \in RunType
        /\ run'.at = "probe" => run'.after = Driver!Finished
  BY RunStageIs
<1>2. UNCHANGED <<inputs, outputs, attempt, world, collection, manual, meanwhile>>
  BY DEF Driver!RunStage
<1>3. run'.at # "deploy" /\ inputs \in Contents /\ outputs \in Observed \cup {0}
  BY <1>1 DEF DriverInv, DriverTypes
<1>4. CASE run'.at # "probe"
  BY <1>1, <1>2, <1>3, <1>4, DriverFrame
<1>5. CASE run'.at = "probe"
  <2>1. DriverTypes' /\ Numbered'
    BY <1>1, <1>2, <1>3 DEF DriverInv, DriverTypes, Numbered
  <2>2. Deploys'
    BY <1>2, <1>3 DEF DriverInv, Deploys, Driver!SucceededIsAuthorized, Driver!Succeeded
  <2>3. Saw(run'.after, world)
    BY <1>1, <1>5, FinishedIs
  <2>4. Observes'
    BY <1>2, <2>3 DEF DriverInv, Observes, Saw
  <2>. QED  BY <2>1, <2>2, <2>4 DEF DriverInv
<1>. QED  BY <1>4, <1>5

(* The steps that write neither the attempt nor a collection.              *)
LEMMA PlainSteps ==
    ASSUME DriverInv,
           \/ Driver!Execute \/ Driver!Complete \/ Driver!Assess \/ Driver!OtherStage
           \/ Driver!Interrupt
    PROVE  DriverInv'
<1>1. run \in RunType /\ inputs \in Contents /\ outputs \in Observed \cup {0}
  BY DEF DriverInv, DriverTypes
<1>2. /\ UNCHANGED <<attempt, world, collection, manual, meanwhile, outputs>>
      /\ inputs' \in Contents
  BY <1>1 DEF Driver!Execute, Driver!Complete, Driver!Assess, Driver!OtherStage, Driver!Interrupt
<1>3. CASE Driver!Execute
  <2>1. run' = [run EXCEPT !.at = "decide", !.executed = {}]
    BY <1>3 DEF Driver!Execute
  <2>2. run' \in RunType /\ run'.at = "decide" /\ run'.executed = {}
    BY <1>1, <2>1 DEF RunType, Places
  <2>. QED  BY <1>1, <1>2, <2>2, DriverFrame
<1>4. CASE \/ Driver!Complete \/ Driver!Assess \/ Driver!OtherStage \/ Driver!Interrupt
  <2>1. PICK at \in Places : at \notin {"deploy", "probe"} /\ (Driver!Moves(at) \/ Driver!Returns(at))
    <3>1. CASE Driver!Complete
      BY <3>1 DEF Driver!Complete, Places
    <3>2. CASE Driver!Assess
      BY <3>2 DEF Driver!Assess, Places
    <3>3. CASE Driver!OtherStage
      BY <3>3 DEF Driver!OtherStage, Places
    <3>4. CASE Driver!Interrupt
      BY <3>4 DEF Driver!Interrupt, Places
    <3>. QED  BY <1>4, <3>1, <3>2, <3>3, <3>4
  <2>. QED  BY <1>1, <1>2, <2>1, RunFields, DriverFrame
<1>. QED  BY <1>3, <1>4

(* An attempt starts.                                                      *)
LEMMA StartStep ==
    ASSUME DriverInv, Driver!RecordDeployStarted PROVE DriverInv'
<1>. DEFINE authorized == IF Driver!GateCurrent THEN inputs ELSE 0
<1>1. /\ run \in RunType /\ inputs \in Contents /\ attempt \in AttemptType /\ attempt.n \in Nat
      /\ collection \in CollectionType /\ collection.id \in Nat
      /\ UNCHANGED <<inputs, outputs, collection, world, manual>>
  BY DEF DriverInv, DriverTypes, AttemptType, CollectionType, Driver!RecordDeployStarted
<1>2. attempt' = [n |-> attempt.n + 1, status |-> "started", authorized |-> authorized,
                 fingerprint |-> <<0, 0>>, prior |-> collection.id, probe |-> <<<<0, 0>>, 0>>]
  BY DEF Driver!RecordDeployStarted, Driver!Started
<1>3. authorized \in Contents \cup {0}
  BY <1>1
<1>4. /\ attempt' \in AttemptType
      /\ attempt'.n = attempt.n + 1 /\ attempt'.status = "started" /\ attempt'.authorized = authorized
  <2>. HIDE DEF authorized
  <2>. QED  BY <1>1, <1>2, <1>3 DEF AttemptType, Driver!Fingerprint
<1>5. /\ run' \in RunType /\ run'.at \in {"deploy", "blocked"}
      /\ run'.at = "deploy" => Driver!GateCurrent
  <2>1. CASE Driver!GateCurrent
    <3>1. Driver!Moves("deploy")
      BY <2>1 DEF Driver!RecordDeployStarted
    <3>. QED  BY <1>1, <2>1, <3>1, RunFields DEF Places
  <2>2. CASE ~Driver!GateCurrent
    <3>1. Driver!Moves("blocked")
      BY <2>2 DEF Driver!RecordDeployStarted
    <3>. QED  BY <1>1, <3>1, RunFields DEF Places
  <2>. QED  BY <2>1, <2>2
<1>6. world.attempt \in Nat /\ world.attempt <= attempt.n
  BY DEF DriverInv, DriverTypes, Numbered, Driver!Deployment
<1>7. DriverTypes' /\ meanwhile' = "unchanged"
  BY <1>1, <1>4, <1>5 DEF DriverInv, DriverTypes, Driver!RecordDeployStarted
<1>8. Numbered'
  BY <1>1, <1>4, <1>5, <1>6 DEF DriverInv, Numbered
<1>9. Deploys'
  BY <1>1, <1>4, <1>5, <1>6, <1>7 DEF Deploys, Driver!SucceededIsAuthorized, Driver!Succeeded
<1>10. ASSUME NEW after \in Nat, NEW saw, Saw(after, saw)
       PROVE  after <= attempt'.n /\ after # attempt'.n
  BY <1>1, <1>4, <1>10 DEF Saw
<1>11. collection.after \in Nat /\ \A c \in manual : c.after \in Nat
  BY DEF DriverInv, DriverTypes, CollectionType
<1>12. Observes'
  BY <1>1, <1>4, <1>5, <1>10, <1>11 DEF DriverInv, Observes, Saw
<1>. QED  BY <1>7, <1>8, <1>9, <1>12 DEF DriverInv

LEMMA LandsStep ==
    ASSUME DriverInv, Driver!DeployLands PROVE DriverInv'
<1>1. /\ inputs \in Contents /\ attempt.n \in Nat /\ outputs' \in Observed \cup {0}
      /\ UNCHANGED <<inputs, attempt, collection, run, manual, meanwhile>>
  BY DEF DriverInv, DriverTypes, AttemptType, Driver!DeployLands
<1>2. /\ run.at = "deploy" /\ attempt.n > 0 /\ attempt.status = "started"
      /\ meanwhile = "unchanged" => inputs = attempt.authorized
  BY DEF DriverInv, Numbered, Deploys, Driver!DeployLands
<1>3. PICK v \in Contents :
        /\ world' = [inputs |-> v, attempt |-> attempt.n]
        /\ meanwhile = "unchanged" => v = inputs
  BY <1>1 DEF Driver!DeployLands
<1>4. world' \in Driver!Deployment /\ world'.inputs = v /\ world'.attempt = attempt.n
  <2>1. v \in Contents \cup {0}
    OBVIOUS
  <2>. QED  BY <1>1, <1>3, <2>1 DEF Driver!Deployment
<1>5. DriverTypes'
  BY <1>1, <1>4 DEF DriverInv, DriverTypes
<1>6. Numbered'
  BY <1>1, <1>2, <1>4 DEF DriverInv, Numbered
<1>7. Deploys'
  BY <1>1, <1>2, <1>3, <1>4 DEF DriverInv, Deploys, Driver!SucceededIsAuthorized, Driver!Succeeded
<1>8. Observes'
  BY <1>1, <1>2 DEF DriverInv, Observes, Saw, Ended
<1>. QED  BY <1>5, <1>6, <1>7, <1>8 DEF DriverInv

(* The attempt of a deployment changes its status, when it ends or when    *)
(* its gate is recorded again.                                             *)
Lands == /\ world.attempt = attempt.n
         /\ world.inputs = attempt.authorized \/ meanwhile = "restored"

LEMMA StatusStep ==
    ASSUME DriverInv,
           UNCHANGED <<inputs, outputs, collection, world, manual, meanwhile>>,
           attempt' \in AttemptType,
           attempt'.n = attempt.n, attempt.n > 0, attempt'.authorized = attempt.authorized,
           attempt'.status # "none",
           attempt.status \in Ended => attempt'.status \in Ended,
           attempt'.status = "succeeded" => attempt.status = "succeeded" \/ Lands,
           run' \in RunType, run'.at \notin {"deploy", "probe"}
    PROVE  DriverInv'
<1>1. attempt.n \in Nat
  BY DEF DriverInv, DriverTypes, AttemptType
<1>2. DriverTypes'
  BY DEF DriverInv, DriverTypes
<1>3. Numbered'
  BY <1>1 DEF DriverInv, Numbered
<1>4. Deploys'
  BY DEF DriverInv, Deploys, Lands, Driver!SucceededIsAuthorized, Driver!Succeeded
<1>5. Observes'
  BY <1>1 DEF DriverInv, Observes, Saw
<1>. QED  BY <1>2, <1>3, <1>4, <1>5 DEF DriverInv

LEMMA CompletedStep ==
    ASSUME DriverInv, Driver!RecordDeployCompleted PROVE DriverInv'
<1>1. /\ inputs \in Contents /\ outputs \in Observed \cup {0}
      /\ attempt \in AttemptType /\ run \in RunType
      /\ world \in Driver!Deployment
      /\ UNCHANGED <<inputs, outputs, collection, world, manual, meanwhile>>
  BY DEF DriverInv, DriverTypes, Driver!RecordDeployCompleted
<1>2. /\ run.at = "deploy" /\ world.attempt = attempt.n
      /\ attempt.n > 0 /\ attempt.status = "started"
      /\ meanwhile = "changed" => inputs # attempt.authorized
      /\ meanwhile = "unchanged" => world.inputs = attempt.authorized
  BY DEF DriverInv, Numbered, Deploys, Driver!RecordDeployCompleted
<1>3. run' \in RunType /\ run'.at \in {"decide", "blocked"}
  <2>1. PICK at \in {"decide", "blocked"} : Driver!Returns(at)
    BY DEF Driver!RecordDeployCompleted
  <2>. QED  BY <1>1, <2>1, RunFields DEF Places
<1>4. CASE Driver!AuthorizedInputs
  <2>1. attempt' = [attempt EXCEPT !.status = "succeeded",
                                   !.fingerprint = Driver!DeploymentFingerprint]
    BY <1>4 DEF Driver!RecordDeployCompleted
  <2>2. Driver!DeploymentFingerprint \in Driver!Fingerprint
    BY <1>1 DEF Driver!DeploymentFingerprint, Driver!Fingerprint
  <2>3. /\ attempt' \in AttemptType /\ attempt'.n = attempt.n /\ attempt'.status = "succeeded"
        /\ attempt'.authorized = attempt.authorized
    BY <1>1, <2>1, <2>2 DEF AttemptType
  <2>4. Lands
    BY <1>2, <1>4 DEF Driver!AuthorizedInputs, Lands, DriverInv, DriverTypes
  <2>. QED  BY <1>1, <1>2, <1>3, <2>3, <2>4, StatusStep DEF Ended
<1>5. CASE ~Driver!AuthorizedInputs
  <2>1. UNCHANGED attempt
    BY <1>5 DEF Driver!RecordDeployCompleted
  <2>. QED  BY <1>1, <1>2, <1>3, <2>1, StatusStep
<1>. QED  BY <1>4, <1>5

LEMMA FailsStep ==
    ASSUME DriverInv, Driver!WorkerFails PROVE DriverInv'
<1>1. /\ inputs \in Contents /\ outputs \in Observed \cup {0}
      /\ attempt \in AttemptType /\ run \in RunType
      /\ UNCHANGED <<inputs, outputs, collection, world, manual, meanwhile>>
  BY DEF DriverInv, DriverTypes, Driver!WorkerFails
<1>2. run' \in RunType /\ run'.at = "blocked" /\ run'.executed \in {run.executed, run.executed \cup {run.at}}
  BY <1>1, RunFields DEF Places, Driver!WorkerFails
<1>3. CASE run.at = "deploy"
  <2>1. attempt' = [attempt EXCEPT !.status = "failed"]
    BY <1>3 DEF Driver!WorkerFails
  <2>2. /\ attempt' \in AttemptType /\ attempt'.n = attempt.n /\ attempt'.status = "failed"
        /\ attempt'.authorized = attempt.authorized
    BY <1>1, <2>1 DEF AttemptType
  <2>3. attempt.n > 0 /\ attempt.status = "started"
    BY <1>3 DEF DriverInv, Numbered, Deploys
  <2>. QED  BY <1>1, <1>2, <2>2, <2>3, StatusStep DEF Ended
<1>4. CASE run.at # "deploy"
  <2>1. UNCHANGED attempt
    BY <1>4 DEF Driver!WorkerFails
  <2>. QED  BY <1>1, <1>2, <2>1, DriverFrame
<1>. QED  BY <1>3, <1>4

LEMMA RecordGateStep ==
    ASSUME DriverInv, Driver!RecordGate PROVE DriverInv'
<1>1. /\ inputs \in Contents /\ outputs \in Observed \cup {0}
      /\ attempt \in AttemptType /\ run \in RunType
      /\ UNCHANGED <<inputs, outputs, collection, world, manual, meanwhile>>
      /\ run.at = "record_gate"
  BY DEF DriverInv, DriverTypes, Driver!RecordGate
<1>2. /\ run' \in RunType /\ run'.at \in {"decide", "blocked"}
      /\ run'.executed \in {run.executed, run.executed \cup {run.at}}
  <2>1. PICK at \in {"decide", "blocked"} : Driver!Moves(at)
    BY DEF Driver!RecordGate
  <2>. QED  BY <1>1, <2>1, RunFields DEF Places
<1>3. CASE attempt' = attempt
  BY <1>1, <1>2, <1>3, DriverFrame
<1>4. CASE attempt' # attempt
  <2>1. /\ Driver!Succeeded
        /\ attempt' = [attempt EXCEPT !.status = "superseded", !.probe = <<<<0, 0>>, 0>>]
    BY <1>4 DEF Driver!RecordGate, Driver!Superseded
  <2>2. <<<<0, 0>>, 0>> \in Driver!Fingerprint \X Nat
    BY DEF Driver!Fingerprint
  <2>4. /\ attempt' \in AttemptType /\ attempt'.n = attempt.n /\ attempt'.status = "superseded"
        /\ attempt'.authorized = attempt.authorized
    BY <1>1, <2>1, <2>2 DEF AttemptType
  <2>3. attempt.n > 0
    BY <1>1, <2>1 DEF DriverInv, Numbered, Driver!Succeeded, AttemptType
  <2>. QED  BY <1>1, <1>2, <2>3, <2>4, StatusStep DEF Ended
<1>. QED  BY <1>3, <1>4

(* A collection is recorded, with what it saw and when it began.           *)
LEMMA CollectedStep ==
    ASSUME DriverInv,
           UNCHANGED <<inputs, outputs, attempt, world, meanwhile>>,
           NEW after \in Nat, NEW saw \in Driver!Deployment, NEW pass \in BOOLEAN,
           collection' = [id |-> collection.id + 1, after |-> after, saw |-> saw, pass |-> pass],
           Saw(after, saw),
           manual' \in {manual, {}},
           run' \in RunType, run'.at \in {"record_probe"} \/ run' = run
    PROVE  DriverInv'
<1>1. collection.id \in Nat
  BY DEF DriverInv, DriverTypes, CollectionType
<1>2. collection' \in CollectionType /\ collection'.after = after /\ collection'.saw = saw
  BY <1>1 DEF CollectionType
<1>3. DriverTypes'
  BY <1>2 DEF DriverInv, DriverTypes
<1>4. Numbered'
  BY DEF DriverInv, Numbered
<1>5. Deploys'
  BY DEF DriverInv, Deploys, Driver!SucceededIsAuthorized, Driver!Succeeded
<1>6. Observes'
  BY <1>2 DEF DriverInv, Observes, Saw
<1>. QED  BY <1>3, <1>4, <1>5, <1>6 DEF DriverInv

LEMMA ProbeStep ==
    ASSUME DriverInv, Driver!Probe PROVE DriverInv'
<1>1. /\ run \in RunType /\ run.after \in Nat /\ world \in Driver!Deployment /\ run.at = "probe"
      /\ UNCHANGED <<inputs, outputs, attempt, world, manual, meanwhile>>
  BY DEF DriverInv, DriverTypes, RunType, Driver!Probe
<1>2. PICK pass \in BOOLEAN :
        collection' = [id |-> collection.id + 1, after |-> run.after, saw |-> world, pass |-> pass]
  BY DEF Driver!Probe, Driver!Collected
<1>3. Saw(run.after, world)
  BY <1>1 DEF DriverInv, Observes
<1>4. run' \in RunType /\ run'.at = "record_probe"
  BY <1>1, RunFields DEF Driver!Probe, Places
<1>. QED  BY <1>1, <1>2, <1>3, <1>4, CollectedStep

LEMMA EndCollectionStep ==
    ASSUME DriverInv, Driver!EndCollection PROVE DriverInv'
<1>1. PICK c \in manual :
        /\ \E saw \in {c.saw, world} : Driver!Collected(c.after, saw)
        /\ manual' = {}
        /\ UNCHANGED <<inputs, outputs, attempt, world, run, meanwhile>>
  BY DEF Driver!EndCollection
<1>2. PICK saw \in {c.saw, world}, pass \in BOOLEAN :
        collection' = [id |-> collection.id + 1, after |-> c.after, saw |-> saw, pass |-> pass]
  BY <1>1 DEF Driver!Collected
<1>3. /\ c.after \in Nat /\ saw \in Driver!Deployment /\ run \in RunType
      /\ Saw(c.after, c.saw)
  BY <1>2 DEF DriverInv, DriverTypes, AttemptType, Observes
<1>4. Saw(c.after, saw)
  BY <1>2, <1>3 DEF Saw
<1>. QED  BY <1>1, <1>2, <1>3, <1>4, CollectedStep

LEMMA BeginCollectionStep ==
    ASSUME DriverInv, Driver!BeginCollection PROVE DriverInv'
<1>1. /\ UNCHANGED <<inputs, outputs, attempt, collection, world, run, meanwhile>>
      /\ manual' = {[after |-> Driver!Finished, saw |-> world]}
  BY DEF Driver!BeginCollection
<1>2. world \in Driver!Deployment /\ Driver!Finished \in Nat /\ Saw(Driver!Finished, world)
  BY FinishedIs DEF DriverInv, DriverTypes
<1>4. DriverTypes'
  BY <1>1, <1>2 DEF DriverInv, DriverTypes
<1>5. Numbered' /\ Deploys'
  BY <1>1 DEF DriverInv, Numbered, Deploys, Driver!SucceededIsAuthorized, Driver!Succeeded
<1>6. \A c \in manual' : Saw(c.after, c.saw)'
  BY <1>1, <1>2 DEF Saw
<1>7. Observes'
  BY <1>1, <1>6 DEF DriverInv, Observes, Saw
<1>. QED  BY <1>4, <1>5, <1>7 DEF DriverInv

LEMMA RecordProbeStep ==
    ASSUME DriverInv, Driver!RecordGovernanceProbe PROVE DriverInv'
<1>1. /\ inputs \in Contents /\ outputs \in Observed \cup {0}
      /\ attempt \in AttemptType /\ run \in RunType /\ collection \in CollectionType
      /\ UNCHANGED <<inputs, outputs, collection, world, manual, meanwhile>>
      /\ run.at = "record_probe"
  BY DEF DriverInv, DriverTypes, Driver!RecordGovernanceProbe
<1>2. /\ run' \in RunType /\ run'.at \in {"decide", "blocked"}
      /\ run'.executed \in {run.executed, run.executed \cup {run.at}}
  <2>1. PICK at \in {"decide", "blocked"} : Driver!Moves(at)
    BY DEF Driver!RecordGovernanceProbe
  <2>. QED  BY <1>1, <2>1, RunFields DEF Places
<1>3. CASE attempt' = attempt
  BY <1>1, <1>2, <1>3, DriverFrame
<1>4. CASE attempt' # attempt
  <2>1. Driver!Succeeded /\ attempt' = [attempt EXCEPT !.probe = Driver!Binding]
    BY <1>4 DEF Driver!RecordGovernanceProbe, Driver!DeploymentProof
  <2>2. Driver!Binding \in Driver!Fingerprint \X Nat
    BY <1>1 DEF Driver!Binding, AttemptType, CollectionType
  <2>3. /\ attempt' \in AttemptType /\ attempt'.n = attempt.n /\ attempt'.status = attempt.status
        /\ attempt'.authorized = attempt.authorized
    <3>. HIDE DEF Driver!Binding
    <3>. QED  BY <1>1, <2>1, <2>2 DEF AttemptType
  <2>4. attempt.n > 0
    BY <1>1, <2>1 DEF DriverInv, Numbered, Driver!Succeeded, AttemptType
  <2>. QED  BY <1>1, <1>2, <2>1, <2>3, <2>4, StatusStep DEF Driver!Succeeded
<1>. QED  BY <1>3, <1>4

LEMMA WorkspaceStep ==
    ASSUME DriverInv, Driver!EditOutputs \/ Driver!EditPackage \/ Driver!Lapse PROVE DriverInv'
<1>1. /\ inputs \in Contents /\ outputs \in Observed \cup {0}
      /\ outputs' \in {outputs, 0} \cup Observed
      /\ UNCHANGED <<inputs, attempt, world, run, manual, meanwhile>>
  BY DEF DriverInv, DriverTypes, Driver!EditOutputs, Driver!EditPackage, Driver!Lapse, Driver!CollectionAges
<1>2. /\ collection' \in CollectionType
      /\ collection'.after = collection.after /\ collection'.saw = collection.saw
  <2>1. CASE UNCHANGED collection
    BY <2>1 DEF DriverInv, DriverTypes
  <2>2. CASE \E pass \in {collection.pass, FALSE} : collection' = [collection EXCEPT !.pass = pass]
    BY <2>2 DEF DriverInv, DriverTypes, CollectionType
  <2>. QED  BY <2>1, <2>2 DEF Driver!EditOutputs, Driver!EditPackage, Driver!Lapse, Driver!CollectionAges
<1>3. DriverTypes'
  BY <1>1, <1>2 DEF DriverInv, DriverTypes
<1>4. Numbered'
  BY <1>1 DEF DriverInv, Numbered
<1>5. Deploys'
  BY <1>1 DEF DriverInv, Deploys, Driver!SucceededIsAuthorized, Driver!Succeeded
<1>6. Observes'
  BY <1>1, <1>2 DEF DriverInv, Observes, Saw
<1>. QED  BY <1>3, <1>4, <1>5, <1>6 DEF DriverInv

(* The inputs change, also under the deploy worker.                        *)
LEMMA EditStep ==
    ASSUME DriverInv, Driver!Edit PROVE DriverInv'
<1>1. /\ inputs' \in Contents /\ inputs' # inputs
      /\ UNCHANGED <<outputs, attempt, collection, world, run, manual>>
      /\ meanwhile' = IF run.at # "deploy" THEN meanwhile
                      ELSE IF inputs' = attempt.authorized THEN "restored" ELSE "changed"
  BY DEF Driver!Edit
<1>2. DriverTypes' /\ Numbered' /\ Observes'
  BY <1>1 DEF DriverInv, DriverTypes, Numbered, Observes, Saw
<1>3. Deploys'
  <2>1. CASE run.at = "deploy"
    <3>1. attempt.status = "started" /\ meanwhile' # "unchanged"
      BY <1>1, <2>1 DEF DriverInv, Deploys
    <3>2. meanwhile' = "changed" => inputs' # attempt.authorized
      BY <1>1, <2>1
    <3>. QED  BY <1>1, <3>1, <3>2 DEF Deploys, Driver!SucceededIsAuthorized, Driver!Succeeded
  <2>2. CASE run.at # "deploy"
    BY <1>1, <2>2 DEF DriverInv, Deploys, Driver!SucceededIsAuthorized, Driver!Succeeded
  <2>. QED  BY <2>1, <2>2
<1>. QED  BY <1>2, <1>3 DEF DriverInv

(* A deployment by hand, before the driver recorded any.                   *)
LEMMA ByHandStep ==
    ASSUME DriverInv, Driver!DeployByHand PROVE DriverInv'
<1>1. /\ UNCHANGED <<inputs, attempt, collection, run, manual, meanwhile>>
      /\ outputs' \in Observed \cup {0}
      /\ world' = [inputs |-> inputs, attempt |-> 0]
  BY DEF Driver!DeployByHand
<1>2. attempt.status = "none" /\ attempt.n = 0 /\ run.at # "deploy"
  BY DEF DriverInv, Numbered, Driver!DeployByHand, Driver!Unrecorded
<1>3. world' \in Driver!Deployment /\ world'.attempt = 0
  BY <1>1 DEF Driver!Deployment, DriverInv, DriverTypes
<1>4. DriverTypes' /\ Numbered'
  BY <1>1, <1>2, <1>3 DEF DriverInv, DriverTypes, Numbered
<1>5. Deploys'
  BY <1>1, <1>2 DEF Deploys, Driver!SucceededIsAuthorized, Driver!Succeeded
<1>6. Observes'
  BY <1>1, <1>2 DEF DriverInv, Observes, Saw
<1>. QED  BY <1>4, <1>5, <1>6 DEF DriverInv

LEMMA DriverStep == DriverInv /\ [Driver!Next]_Driver!vars => DriverInv'
<1>. SUFFICES ASSUME DriverInv, [Driver!Next]_Driver!vars PROVE DriverInv'
  OBVIOUS
<1>1. CASE UNCHANGED Driver!vars
  BY <1>1 DEF DriverInv, DriverTypes, Numbered, Deploys, Observes, Saw,
              Driver!SucceededIsAuthorized, Driver!Succeeded
<1>2. CASE Driver!Executes
  BY <1>2, RunStageStep, PlainSteps, StartStep, LandsStep, CompletedStep, RecordGateStep, ProbeStep,
     RecordProbeStep
  DEF Driver!Executes
<1>3. CASE Driver!Disturbs
  BY <1>3, PlainSteps, FailsStep, EditStep, ByHandStep, WorkspaceStep, BeginCollectionStep,
     EndCollectionStep
  DEF Driver!Disturbs
<1>. QED  BY <1>1, <1>2, <1>3 DEF Driver!Next

(* The inductive invariant of the orchestrator: the worker of an attempt   *)
(* reads what it was authorised for until somebody changes it, and a       *)
(* collection that counts for an attempt saw what that attempt deployed    *)
(* (orchestrator.py).                                                      *)
THEOREM DriverInvariant == Driver!Spec => []DriverInv
BY DriverInit, DriverStep, PTL DEF Driver!Spec

(* A succeeded attempt is the one that is live, and deployed the inputs it *)
(* was authorised for unless they were edited and put back while its       *)
(* worker ran (record_deploy_completed).                                   *)
THEOREM DriverSucceededIsAuthorized == Driver!Spec => []SucceededIsAuthorized
<1>1. DriverInv => SucceededIsAuthorized
  BY DEF DriverInv, Deploys, SucceededIsAuthorized
<1>. QED  BY <1>1, DriverInvariant, PTL

(* What ProbeCurrent reads from the files is true of the world.            *)
LEMMA ProbeIsOfWorld ==
    ASSUME DriverInv, Driver!ProbeCurrent
    PROVE  Driver!Proved
<1>1. attempt.n \in Nat /\ collection.after \in Nat /\ collection.pass
  BY DEF DriverInv, DriverTypes, AttemptType, CollectionType, Driver!ProbeCurrent
<1>. SUFFICES ASSUME ~Driver!Unrecorded
              PROVE  /\ collection.saw = world /\ world.attempt = attempt.n
                     /\ world.inputs = inputs \/ meanwhile = "restored"
  BY <1>1 DEF Driver!Proved
<1>2. attempt.n > 0
  BY <1>1 DEF DriverInv, Numbered, Driver!Unrecorded
<1>3. Driver!Succeeded /\ attempt.n <= collection.after /\ attempt.authorized = inputs
  BY DEF Driver!ProbeCurrent, Driver!DeploymentProof
<1>4. world.attempt = attempt.n /\ (world.inputs = attempt.authorized \/ meanwhile = "restored")
  BY <1>3 DEF DriverInv, Deploys, Driver!SucceededIsAuthorized
<1>5. collection.saw = world
  BY <1>1, <1>2, <1>3 DEF DriverInv, Observes, Saw
<1>. QED  BY <1>3, <1>4, <1>5

(* A downstream stage starts, and a pilot is called complete, only on a    *)
(* passing collection, and where the driver recorded the deployment only   *)
(* on one that saw the latest attempt live, of the workspace's inputs (but *)
(* for contents put back under its worker).                                *)
THEOREM DriverDownstreamOnProof == Driver!Spec => DownstreamOnProof
<1>. DEFINE Downstream == {"safe_check", "invoke", "incomplete", "complete"}
<1>1. DriverInv /\ [Driver!Next]_Driver!vars
        => [run.at = "decide" /\ run'.at \in Driver!Downstream \cup {"incomplete", "complete"}
                => Driver!Proved]_Driver!vars
  <2>. SUFFICES ASSUME DriverInv, Driver!Next,
                       run.at = "decide", run'.at \in Downstream
                PROVE  Driver!Proved
    BY DEF Driver!Downstream
  <2>1. CASE Driver!RunStage
    <3>1. PICK stage \in Places :
            /\ stage \in {"govern", "gate", "deploy", "probe", "safe_check", "invoke"}
            /\ run'.at \in {IF stage = "deploy" THEN "authorize" ELSE stage, "blocked"}
            /\ run'.at # "blocked" => Driver!Guarded(stage)
      BY <2>1, RunStageIs
    <3>2. stage \in {"safe_check", "invoke"} /\ Driver!Guarded(stage)
      BY <3>1
    <3>3. Driver!ProbeCurrent
      BY <3>2 DEF Driver!Guarded, Driver!Downstream
    <3>. QED  BY <3>3, ProbeIsOfWorld
  <2>2. CASE Driver!Complete
    <3>1. run'.at # "blocked"
      OBVIOUS
    <3>2. CASE Driver!ProbeCurrent
      BY <3>2, ProbeIsOfWorld
    <3>3. CASE ~Driver!ProbeCurrent
      <4>1. Driver!Moves("blocked") /\ run \in RunType
        BY <2>2, <3>3 DEF Driver!Complete, DriverInv, DriverTypes
      <4>2. run'.at = "blocked"
        BY <4>1, RunFields DEF Places
      <4>. QED  BY <3>1, <4>2
    <3>. QED  BY <3>2, <3>3
  <2>3. CASE Driver!Interrupt
    <3>1. Driver!Moves("idle") /\ run \in RunType
      BY <2>3 DEF Driver!Interrupt, DriverInv, DriverTypes
    <3>2. run'.at = "idle"
      BY <3>1, RunFields DEF Places
    <3>. QED  BY <3>2
  <2>4. CASE run' = run
    BY <2>4
  <2>5. \/ Driver!RunStage \/ Driver!Complete \/ Driver!Interrupt \/ run' = run
    <3>1. "decide" \notin Driver!StageSet
      BY StagesAre DEF Driver!StageSet
    <3>2. ~Driver!WorkerFails
      BY <3>1 DEF Driver!WorkerFails
    <3>3. ~Driver!Execute /\ ~Driver!RecordDeployStarted /\ ~Driver!DeployLands
          /\ ~Driver!RecordDeployCompleted /\ ~Driver!Assess /\ ~Driver!RecordGate
      BY DEF Driver!Execute, Driver!Ends, Driver!RecordDeployStarted, Driver!DeployLands,
             Driver!RecordDeployCompleted, Driver!Assess, Driver!RecordGate
    <3>4. ~Driver!Probe /\ ~Driver!RecordGovernanceProbe /\ ~Driver!OtherStage
      BY DEF Driver!Probe, Driver!RecordGovernanceProbe, Driver!OtherStage
    <3>5. Driver!Edit \/ Driver!EditOutputs \/ Driver!EditPackage \/ Driver!DeployByHand
              \/ Driver!BeginCollection \/ Driver!EndCollection \/ Driver!Lapse => run' = run
      BY DEF Driver!Edit, Driver!EditOutputs, Driver!EditPackage, Driver!DeployByHand,
             Driver!BeginCollection, Driver!EndCollection, Driver!Lapse
    <3>. QED  BY <3>2, <3>3, <3>4, <3>5 DEF Driver!Next, Driver!Executes, Driver!Disturbs
  <2>. QED  BY <2>1, <2>2, <2>3, <2>4, <2>5
<1>. QED
  BY <1>1, DriverInvariant, PTL DEF Driver!Spec, DownstreamOnProof, Driver!DownstreamOnProof

(* The evidence that calls the probe current is never out of date, where   *)
(* there is an execution record (_deployment_proof).                       *)
THEOREM DriverProofIsOfWorld == Driver!Spec => []Driver!ProofIsOfWorld
<1>1. DriverInv => Driver!ProofIsOfWorld
  BY ProbeIsOfWorld DEF Driver!ProofIsOfWorld
<1>. QED  BY <1>1, DriverInvariant, PTL

(* What the invariant leaves out of the orchestrator's types.              *)
StageNames == {"govern", "gate", "deploy", "probe", "safe_check", "invoke"}
DriverRest ==
    /\ checkpoint \in Contents \cup {0} /\ inventoried \in BOOLEAN /\ package \in BOOLEAN
    /\ ledger \in {"none", "fail", "pass"}
    /\ safe \in Observed \cup {0} /\ invoked \in Driver!Deployment /\ faults \in 0..MaxFaults
    /\ run.executed \subseteq StageNames

LEMMA StageSetIs == Driver!StageSet = StageNames
<1>1. 1..6 = {1, 2, 3, 4, 5, 6}
  OBVIOUS
<1>. QED  BY <1>1, StagesAre DEF Driver!StageSet, StageNames

LEMMA DriverRestStep == DriverInv /\ DriverRest /\ [Driver!Next]_Driver!vars => DriverRest'
<1>. SUFFICES ASSUME DriverInv, DriverRest, [Driver!Next]_Driver!vars PROVE DriverRest'
  OBVIOUS
<1>0. /\ DriverTypes /\ DriverTypes'
      /\ run \in RunType /\ run' \in RunType
      /\ inputs \in Contents /\ outputs \in Observed \cup {0} /\ inputs' \in Contents
      /\ collection \in CollectionType /\ world \in Driver!Deployment /\ MaxFaults \in Nat
      /\ Driver!Nothing \in Driver!Deployment
  BY DriverStep, FaultsAssumption DEF DriverInv, DriverTypes, Driver!Nothing, Driver!Deployment
<1>. USE DEF DriverRest
<1>1. ASSUME UNCHANGED <<checkpoint, inventoried, package, ledger, safe, invoked, faults>>,
             run'.executed \subseteq StageNames
      PROVE  DriverRest'
  BY <1>1
<1>2. ASSUME NEW at \in Places,
             \/ Driver!Moves(at)
             \/ Driver!Returns(at) /\ run.at \in StageNames
      PROVE  run'.executed \subseteq StageNames
  <2>1. CASE Driver!Moves(at)
    BY <1>0, <2>1 DEF Driver!Moves, RunType
  <2>2. CASE Driver!Returns(at) /\ run.at \in StageNames
    BY <1>0, <2>2 DEF Driver!Returns, RunType
  <2>. QED  BY <1>2, <2>1, <2>2
<1>3. CASE Driver!Execute
  BY <1>0, <1>3 DEF Driver!Execute, RunType
<1>4. CASE Driver!RunStage
  <2>1. run'.executed = run.executed
    BY <1>0, <1>4, RunStageIs
  <2>. QED  BY <1>1, <1>4, <2>1 DEF Driver!RunStage
<1>5. CASE Driver!Complete
  <2>1. PICK at \in Places : Driver!Moves(at)
    BY <1>5 DEF Driver!Complete, Places
  <2>. QED  BY <1>1, <1>2, <1>5, <2>1 DEF Driver!Complete
<1>6. CASE Driver!RecordDeployStarted
  <2>1. PICK at \in Places : Driver!Moves(at)
    BY <1>6 DEF Driver!RecordDeployStarted, Places
  <2>. QED  BY <1>1, <1>2, <1>6, <2>1 DEF Driver!RecordDeployStarted
<1>7. CASE Driver!DeployLands
  BY <1>7 DEF Driver!DeployLands
<1>8. CASE Driver!RecordDeployCompleted
  <2>1. PICK at \in Places : Driver!Returns(at) /\ run.at \in StageNames
    BY <1>8 DEF Driver!RecordDeployCompleted, Places, StageNames
  <2>. QED  BY <1>1, <1>2, <1>8, <2>1 DEF Driver!RecordDeployCompleted
<1>9. CASE Driver!Assess
  <2>1. run'.executed \subseteq StageNames
    BY <1>2, <1>9 DEF Driver!Assess, Places, StageNames
  <2>. QED  BY <1>0, <1>9, <2>1 DEF Driver!Assess, Driver!Fault
<1>10. CASE Driver!RecordGate
  <2>1. PICK at \in Places : Driver!Moves(at)
    BY <1>10 DEF Driver!RecordGate, Places
  <2>2. run'.executed \subseteq StageNames
    BY <1>2, <2>1
  <2>. QED  BY <1>0, <1>10, <2>2 DEF Driver!RecordGate
<1>11. ASSUME NEW after, NEW saw, Driver!Collected(after, saw)
       PROVE  faults' \in 0..MaxFaults
  BY <1>0, <1>11 DEF Driver!Collected, Driver!Fault
<1>12. CASE Driver!Probe
  <2>1. run'.executed \subseteq StageNames
    BY <1>2, <1>12 DEF Driver!Probe, Places, StageNames
  <2>2. faults' \in 0..MaxFaults
    BY <1>11, <1>12 DEF Driver!Probe
  <2>. QED  BY <1>12, <2>1, <2>2 DEF Driver!Probe
<1>13. CASE Driver!RecordGovernanceProbe
  <2>1. PICK at \in Places : Driver!Moves(at)
    BY <1>13 DEF Driver!RecordGovernanceProbe, Places
  <2>. QED  BY <1>1, <1>2, <1>13, <2>1 DEF Driver!RecordGovernanceProbe
<1>14. CASE Driver!OtherStage
  <2>1. run'.executed \subseteq StageNames
    BY <1>2, <1>14 DEF Driver!OtherStage, Places, StageNames
  <2>. QED  BY <1>0, <1>14, <2>1 DEF Driver!OtherStage
<1>15. CASE Driver!WorkerFails
  <2>1. run'.executed \subseteq StageNames
    BY <1>2, <1>15, StageSetIs DEF Driver!WorkerFails, Places
  <2>. QED  BY <1>0, <1>15, <2>1 DEF Driver!WorkerFails, Driver!Fault
<1>16. CASE Driver!Interrupt
  <2>1. run'.executed \subseteq StageNames
    BY <1>2, <1>16 DEF Driver!Interrupt, Places
  <2>. QED  BY <1>0, <1>16, <2>1 DEF Driver!Interrupt, Driver!Fault
<1>17. CASE Driver!Edit \/ Driver!EditOutputs \/ Driver!EditPackage \/ Driver!DeployByHand
  <2>1. inventoried' \in BOOLEAN /\ package' \in BOOLEAN
    BY <1>17 DEF Driver!Edit, Driver!EditOutputs, Driver!EditPackage, Driver!DeployByHand
  <2>2. faults' \in 0..MaxFaults
    <3>1. Driver!Fault
      BY <1>17 DEF Driver!Edit, Driver!EditOutputs, Driver!EditPackage, Driver!DeployByHand
    <3>. QED  BY <1>0, <3>1 DEF Driver!Fault
  <2>3. ledger' \in {"none", "fail", "pass"}
    BY <1>17 DEF Driver!Edit, Driver!EditOutputs, Driver!EditPackage, Driver!DeployByHand
  <2>4. UNCHANGED <<checkpoint, safe, invoked, run>>
    BY <1>17 DEF Driver!Edit, Driver!EditOutputs, Driver!EditPackage, Driver!DeployByHand
  <2>. QED  BY <2>1, <2>2, <2>3, <2>4
<1>18. CASE Driver!BeginCollection
  BY <1>0, <1>18 DEF Driver!BeginCollection, Driver!Fault
<1>19. CASE Driver!EndCollection
  <2>1. PICK c \in manual : \E saw \in {c.saw, world} : Driver!Collected(c.after, saw)
    BY <1>19 DEF Driver!EndCollection
  <2>2. faults' \in 0..MaxFaults
    BY <1>11, <2>1
  <2>. QED  BY <1>19, <2>2 DEF Driver!EndCollection
<1>20. CASE Driver!Lapse
  BY <1>0, <1>20 DEF Driver!Lapse, Driver!CollectionAges, Driver!Fault
<1>21. CASE UNCHANGED Driver!vars
  BY <1>21
<1>. QED
  BY <1>3, <1>4, <1>5, <1>6, <1>7, <1>8, <1>9, <1>10, <1>12, <1>13, <1>14, <1>15, <1>16, <1>17,
     <1>18, <1>19, <1>20, <1>21
  DEF Driver!Next, Driver!Executes, Driver!Disturbs

(* Every variable of the orchestrator keeps its type (orchestrator.py).    *)
THEOREM DriverTypeOK == Driver!Spec => []Driver!TypeOK
<1>1. Driver!Init => DriverRest
  <2>. SUFFICES ASSUME Driver!Init PROVE DriverRest
    OBVIOUS
  <2>1. run = [at |-> "idle", executed |-> {}, prior |-> 0, after |-> 0]
    BY DEF Driver!Init
  <2>2. run.executed = {}
    BY <2>1
  <2>3. /\ checkpoint \in Contents \cup {0} /\ safe \in Observed \cup {0} /\ package \in BOOLEAN
        /\ inventoried \in BOOLEAN /\ ledger \in {"none", "fail", "pass"}
    BY DEF Driver!Init
  <2>4. faults \in 0..MaxFaults
    BY FaultsAssumption DEF Driver!Init
  <2>5. invoked \in Driver!Deployment
    BY DEF Driver!Init, Driver!Nothing, Driver!Deployment
  <2>. QED  BY <2>2, <2>3, <2>4, <2>5 DEF DriverRest
<1>2. ASSUME DriverInv, DriverRest PROVE Driver!TypeOK
  <2>1. DriverTypes /\ DriverRest
    BY <1>2 DEF DriverInv
  <2>2. run.at \in Driver!StageSet \cup Driver!Ends
                     \cup {"decide", "authorize", "record_gate", "record_probe"}
    BY <2>1, StageSetIs DEF DriverTypes, RunType, Places, StageNames, Driver!Ends
  <2>3. run \in [at : Driver!StageSet \cup Driver!Ends
                        \cup {"decide", "authorize", "record_gate", "record_probe"},
                 executed : SUBSET Driver!StageSet, prior : Nat, after : Nat]
    BY <2>1, <2>2, StageSetIs DEF DriverTypes, DriverRest, RunType
  <2>. QED
    BY <2>1, <2>3 DEF DriverTypes, DriverRest, AttemptType, CollectionType, Driver!TypeOK
<1>. QED  BY <1>1, <1>2, DriverInvariant, DriverRestStep, PTL DEF Driver!Spec

-----------------------------------------------------------------------------
(* What runs beside the agent is each of the three, whichever moves: none  *)
(* reads or writes what is another's.                                      *)
THEOREM PilotIsAll == PilotSpec => Spec /\ Receivers!Spec /\ Driver!Spec
<1>1. PilotInit => Init /\ Receivers!Init /\ Driver!Init
  BY DEF PilotInit
<1>2. [PilotNext]_<<part, vars, receiving, driving>>
        => [Next]_vars /\ [Receivers!Next]_Receivers!vars /\ [Driver!Next]_Driver!vars
  BY DEF PilotNext, receiving, driving
<1>. QED  BY <1>1, <1>2, PTL DEF PilotSpec, Spec, Receivers!Spec, Driver!Spec

(* Everything the run on MCPilot checks except its liveness, for any       *)
(* number of receipts, messages, replicas, deliveries and faults           *)
(* (audit_delivery.py, receiver.py, receiver_core.py, orchestrator.py).    *)
THEOREM PilotIsCorrect ==
    PilotSpec =>
        /\ [](PermittedIsRecorded /\ NoMessageLost /\ SucceededIsAuthorized)
        /\ DownstreamOnProof
<1>. QED
  BY PilotIsAll, SpoolPermittedIsRecorded, ReceiverNoMessageLost, DriverSucceededIsAuthorized,
     DriverDownstreamOnProof, PTL
=============================================================================
