---------------------------- MODULE Probe_proofs ----------------------------
(* Proofs about the live governance probe, for any set of noop calls.      *)
EXTENDS Probe, TLAPS

USE DEF services, callers, collector, vars

-----------------------------------------------------------------------------
(* A registered document is a document.                                    *)
LEMMA RegisteredType == Registered \in Docs /\ Registered # None
  BY NoneIsNoValue DEF Registered, Docs, Phases

(* What counting a phase does to a document.                               *)
LEMMA EventFields ==
  ASSUME NEW p \in Docs, NEW phase \in Phases
  PROVE  LET e == Event(p, phase) IN
         /\ e \in Docs /\ e.counts = p.counts \cup {phase}
         /\ e.context = p.context /\ e.decision = p.decision /\ e.terminal = p.terminal
  BY DEF Event, Docs

(* The parts of the invariant that hold of one run, one call, one reading. *)
ProducerRun(r) ==
    doc["producer"][r] # None =>
        LET p == doc["producer"][r] IN
            /\ "effect" \notin p.counts
            /\ "received" \in p.counts <=> p.context # None
            /\ "intercepted" \in p.counts <=> p.decision # None
            /\ "completed" \in p.counts <=> p.terminal # None
            /\ p.context = None => p = Registered
            /\ p.context # None => arg[p.context] # None /\ arg[p.context].run = r
                                   /\ pc[p.context] \notin {"idle", "asked"}
            /\ p.decision # None => verdict[p.context] = p.decision
            /\ "dispatch" \in p.counts => p.decision = "allow"
            /\ p.terminal = "denied" => "dispatch" \notin p.counts

CallRecorded(c) ==
    /\ pc[c] # "idle" => arg[c] # None
    /\ pc[c] \in {"decided", "allowed", "denied"} => verdict[c] # None
    /\ pc[c] \in {"begun", "decided"} =>
           Own(c) # None /\ Own(c).context = c /\ "intercepted" \notin Own(c).counts
    /\ pc[c] \in {"dispatched", "waiting", "replied"} \/ c \in wire =>
           /\ pc[c] # "idle"
           /\ Own(c) # None /\ Own(c).context = c
           /\ {"received", "intercepted", "dispatch"} \subseteq Own(c).counts

LEMMA Parts ==
  /\ ProducerInOrder <=> \A r \in Runs : ProducerRun(r)
  /\ CallsInOrder <=> \A c \in Calls : CallRecorded(c)
  /\ ProducerInOrder' <=> \A r \in Runs : ProducerRun(r)'
  /\ CallsInOrder' <=> \A c \in Calls : CallRecorded(c)'
  BY DEF ProducerInOrder, CallsInOrder, ProducerRun, CallRecorded

LEMMA WholeInit == Init => IInv
<1>. SUFFICES ASSUME Init PROVE IInv
  OBVIOUS
<1>1. TypeOK
  BY DEF Init, TypeOK
<1>2. ProducerInOrder /\ CallsInOrder /\ FixtureInOrder /\ EffectWasDispatched
  BY DEF Init, ProducerInOrder, CallsInOrder, FixtureInOrder, EffectWasDispatched, Runs, Variants,
         Services, Own
<1>3. CollectorInOrder
  BY DEF Init, CollectorInOrder
<1>. QED  BY <1>1, <1>2, <1>3 DEF IInv

-----------------------------------------------------------------------------
(* What every conditional replace of a producer's document preserves: the  *)
(* new document d of run r keeps what the old one said.                    *)
LEMMA Saved ==
  ASSUME IInv, NEW c \in Calls, NEW r \in Runs, NEW d \in Docs,
         arg[c] # None, arg[c].run = r, doc["producer"][r] # None,
         doc["producer"][r].terminal = None,
         doc["producer"][r].counts \subseteq d.counts,
         doc["producer"][r].context # None => d.context = doc["producer"][r].context,
         Save(c, d), UNCHANGED <<wire, verdict, collector, effects>>
  PROVE  /\ doc' \in [Services -> [Runs -> Docs \cup {None}]]
         /\ doc'["fixture"] = doc["fixture"]
         /\ doc'["producer"] = [doc["producer"] EXCEPT ![r] = d]
         /\ CollectorInOrder' /\ FixtureInOrder' /\ EffectWasDispatched'
<1>1. d # None
  BY NoneIsNoValue
<1>2. /\ doc' \in [Services -> [Runs -> Docs \cup {None}]]
      /\ doc'["fixture"] = doc["fixture"]
      /\ doc'["producer"] = [doc["producer"] EXCEPT ![r] = d]
  BY DEF IInv, TypeOK, Save, Services
<1>3. FixtureInOrder'
  BY <1>2 DEF IInv, FixtureInOrder
<1>4. EffectWasDispatched'
  BY <1>1, <1>2 DEF IInv, TypeOK, EffectWasDispatched, Services
<1>5. CollectorInOrder'
  <2>1. ASSUME NEW s \in Services, NEW q \in Runs, seen[s][q] # None
        PROVE  Advances(seen[s][q], doc'[s][q])
    <3>1. Advances(seen[s][q], doc[s][q])
      BY <2>1 DEF IInv, CollectorInOrder
    <3>2. CASE s = "producer" /\ q = r
      <4>1. doc'[s][q] = d
        BY <1>2, <3>2 DEF IInv, TypeOK, Services
      <4>2. seen[s][q].terminal = None
        BY <3>1, <3>2 DEF Advances
      <4>. QED  BY <1>1, <3>1, <3>2, <4>1, <4>2 DEF Advances
    <3>3. CASE ~(s = "producer" /\ q = r)
      <4>1. doc'[s][q] = doc[s][q]
        BY <1>2, <3>3 DEF IInv, TypeOK, Services
      <4>. QED  BY <3>1, <4>1
    <3>. QED  BY <3>2, <3>3
  <2>. QED  BY <2>1 DEF IInv, CollectorInOrder, Passes, ProducerPasses, FixturePasses
<1>. QED  BY <1>2, <1>3, <1>4, <1>5

(* The other runs and the other calls are not concerned by such a replace, *)
(* by the call that owns the run or the first to take it.                  *)
LEMMA SavedOthers ==
  ASSUME IInv, NEW c \in Calls, NEW r \in Runs, NEW d \in Docs, NEW label,
         arg[c] # None, arg[c].run = r, doc["producer"][r] # None,
         doc["producer"][r].context \in {None, c},
         doc'["producer"] = [doc["producer"] EXCEPT ![r] = d],
         At(c, label), label \notin {"idle", "asked"}, UNCHANGED <<arg, verdict, wire>>
  PROVE  /\ \A q \in Runs \ {r} : ProducerRun(q)'
         /\ \A k \in Calls \ {c} : CallRecorded(k)'
<1>1. ASSUME NEW q \in Runs \ {r} PROVE ProducerRun(q)'
  <2>1. doc'["producer"][q] = doc["producer"][q] /\ ProducerRun(q)
    BY Parts DEF IInv, TypeOK, Services
  <2>2. \A k \in Calls : pc'[k] = pc[k] \/ pc'[k] = label
    BY DEF IInv, TypeOK, At
  <2>3. doc["producer"][q] # None => doc["producer"][q].context \in Calls \cup {None}
    BY DEF IInv, TypeOK, Services, Docs
  <2>. QED  BY <2>1, <2>2, <2>3 DEF ProducerRun
<1>2. ASSUME NEW k \in Calls \ {c} PROVE CallRecorded(k)'
  <2>1. pc'[k] = pc[k] /\ CallRecorded(k)
    BY Parts DEF IInv, TypeOK, At
  <2>2. CASE arg[k] # None /\ arg[k].run = r
    <3>1. Own(k) = doc["producer"][r] /\ Own(k).context # k
      BY <2>2, NoneIsNoValue DEF Own
    <3>. QED  BY <2>1, <3>1, <2>2 DEF CallRecorded
  <2>3. CASE arg[k] # None /\ arg[k].run # r
    <3>1. Own(k)' = Own(k)
      BY <2>3 DEF IInv, TypeOK, Own, Services, Args
    <3>. QED  BY <2>1, <3>1, <2>3 DEF CallRecorded
  <2>4. CASE arg[k] = None
    BY <2>1, <2>4 DEF CallRecorded
  <2>. QED  BY <2>2, <2>3, <2>4
<1>. QED  BY <1>1, <1>2

-----------------------------------------------------------------------------
(* The producer.                                                           *)

LEMMA BeginStep == ASSUME IInv, NEW c \in Calls, Begin(c) PROVE IInv'
<1>1. PICK r \in Runs : arg[c] # None /\ arg[c].run = r
  BY Parts DEF IInv, TypeOK, Begin, Args, CallRecorded
<1> DEFINE p == doc["producer"][r]
           d == [Event(p, "received") EXCEPT !.context = c]
<1>2. /\ pc[c] = "asked" /\ p # None /\ p \in Docs /\ p.context = None
      /\ Save(c, d) /\ At(c, "begun") /\ UNCHANGED <<expired, arg, verdict, wire, collector, effects>>
  BY <1>1 DEF IInv, TypeOK, Begin, Own, Services
<1>3. p = Registered
  BY <1>2, Parts DEF IInv, ProducerRun
<1>4. /\ Event(p, "received") \in Docs /\ Event(p, "received").counts = {"received"}
      /\ Event(p, "received").decision = None /\ Event(p, "received").terminal = None
  <2>1. "received" \in Phases /\ p.counts = {} /\ p.decision = None /\ p.terminal = None
    BY <1>3 DEF Phases, Registered
  <2>. QED  BY <1>2, <2>1, EventFields
<1>5. /\ d \in Docs /\ d.counts = {"received"} /\ d.context = c
      /\ d.decision = None /\ d.terminal = None
  BY <1>4 DEF Docs
<1>6. d # None /\ p.terminal = None /\ p.counts \subseteq d.counts
  BY <1>3, <1>5, NoneIsNoValue DEF Registered
<1>. HIDE DEF d
<1>7. /\ doc' \in [Services -> [Runs -> Docs \cup {None}]]
      /\ doc'["producer"] = [doc["producer"] EXCEPT ![r] = d]
      /\ CollectorInOrder' /\ FixtureInOrder' /\ EffectWasDispatched'
  BY <1>1, <1>2, <1>5, <1>6, Saved
<1>8. /\ \A q \in Runs \ {r} : ProducerRun(q)'
      /\ \A k \in Calls \ {c} : CallRecorded(k)'
  BY <1>1, <1>2, <1>5, <1>7, SavedOthers
<1>9. doc'["producer"][r] = d /\ pc'[c] = "begun" /\ arg'[c] = arg[c]
  BY <1>1, <1>2, <1>7 DEF IInv, TypeOK, Services, At
<1>10. ProducerRun(r)'
  BY <1>1, <1>5, <1>6, <1>9, NoneIsNoValue DEF ProducerRun
<1>11. CallRecorded(c)'
  <2>1. c \notin wire
    BY <1>1, <1>2, NoneIsNoValue, Parts DEF IInv, CallRecorded, Own
  <2>. QED  BY <1>1, <1>2, <1>5, <1>6, <1>9, <2>1 DEF CallRecorded, Own
<1>12. TypeOK'
  BY <1>2, <1>7 DEF IInv, TypeOK, At
<1>13. ProducerInOrder' /\ CallsInOrder'
  BY <1>8, <1>10, <1>11, Parts
<1>. QED  BY <1>7, <1>12, <1>13 DEF IInv

(* An update by the call c that owns run r, whose new document d and next  *)
(* label are what the invariant expects of them.                           *)
LEMMA UpdateStep ==
  ASSUME IInv, NEW c \in Calls, NEW r \in Runs, NEW d \in Docs,
         NEW label \in {"allowed", "denied", "dispatched", "done"},
         arg[c] # None, arg[c].run = r, pc[c] \notin {"idle", "asked"},
         Updatable(c, "none"),
         doc["producer"][r].counts \subseteq d.counts, d.context = c,
         Save(c, d), At(c, label), UNCHANGED <<expired, arg, verdict, wire, collector, effects>>,
         "effect" \notin d.counts, "received" \in d.counts,
         "intercepted" \in d.counts <=> d.decision # None,
         "completed" \in d.counts <=> d.terminal # None,
         d.decision # None => verdict[c] = d.decision,
         "dispatch" \in d.counts => d.decision = "allow",
         d.terminal = "denied" => "dispatch" \notin d.counts,
         label \in {"allowed", "denied"} => verdict[c] # None,
         label = "dispatched" => {"intercepted", "dispatch"} \subseteq d.counts
  PROVE  IInv'
<1>1. /\ doc["producer"][r] # None /\ doc["producer"][r].context = c
      /\ doc["producer"][r].terminal = None /\ d # None /\ c # None
  BY NoneIsNoValue DEF Updatable, Own
<1>2. /\ doc' \in [Services -> [Runs -> Docs \cup {None}]]
      /\ doc'["producer"] = [doc["producer"] EXCEPT ![r] = d]
      /\ CollectorInOrder' /\ FixtureInOrder' /\ EffectWasDispatched'
  BY <1>1, Saved
<1>3. /\ \A q \in Runs \ {r} : ProducerRun(q)'
      /\ \A k \in Calls \ {c} : CallRecorded(k)'
  BY <1>1, <1>2, SavedOthers
<1>4. doc'["producer"][r] = d /\ pc'[c] = label /\ arg'[c] = arg[c] /\ verdict'[c] = verdict[c]
  BY <1>2 DEF IInv, TypeOK, Services, At
<1>5. ProducerRun(r)'
  BY <1>1, <1>4 DEF ProducerRun
<1>6. CallRecorded(c)'
  <2>1. c \in wire => {"received", "intercepted", "dispatch"} \subseteq d.counts
    BY Parts DEF IInv, CallRecorded, Own
  <2>. QED  BY <1>1, <1>4, <2>1 DEF CallRecorded, Own
<1>7. TypeOK'
  BY <1>2 DEF IInv, TypeOK, At
<1>8. ProducerInOrder' /\ CallsInOrder'
  BY <1>3, <1>5, <1>6, Parts
<1>. QED  BY <1>2, <1>7, <1>8 DEF IInv

(* What the acting call knows of the document it loaded.                   *)
LEMMA Loaded ==
  ASSUME IInv, NEW c \in Calls, NEW phase \in Phases, Updatable(c, phase), pc[c] # "idle"
  PROVE  /\ arg[c] # None /\ arg[c].run \in Runs
         /\ Updatable(c, "none")
         /\ Own(c) \in Docs
         /\ "effect" \notin Own(c).counts /\ "received" \in Own(c).counts
         /\ "intercepted" \in Own(c).counts <=> Own(c).decision # None
         /\ "completed" \notin Own(c).counts
         /\ Own(c).decision # None => verdict[c] = Own(c).decision
         /\ "dispatch" \in Own(c).counts => Own(c).decision = "allow"
<1>1. arg[c] # None /\ arg[c].run \in Runs
  BY Parts DEF IInv, TypeOK, CallRecorded, Args
<1>2. PICK r \in Runs : r = arg[c].run
  BY <1>1
<1>3. /\ Own(c) = doc["producer"][r] /\ Own(c) # None /\ Own(c).context = c
      /\ Own(c).terminal = None /\ Own(c) \in Docs /\ c # None
  BY <1>2, NoneIsNoValue DEF Updatable, Own, IInv, TypeOK, Services
<1>4. ProducerRun(r)
  BY Parts DEF IInv
<1>5. "none" \notin Own(c).counts
  BY <1>3 DEF Docs, Phases
<1>. QED  BY <1>1, <1>3, <1>4, <1>5 DEF ProducerRun, Updatable

LEMMA InterceptStep == ASSUME IInv, NEW c \in Calls, Intercept(c) PROVE IInv'
<1> DEFINE p == Own(c)
           e == Event(p, "intercepted")
           d == [e EXCEPT !.decision = verdict[c]]
           label == IF verdict[c] = "deny" THEN "denied" ELSE "allowed"
<1>1. /\ pc[c] = "decided" /\ Updatable(c, "intercepted") /\ "intercepted" \in Phases
      /\ Save(c, d) /\ At(c, label) /\ UNCHANGED <<expired, arg, verdict, wire, collector, effects>>
  BY DEF Intercept, Phases
<1>2. verdict[c] \in Variants /\ verdict[c] # None
  BY <1>1, Parts DEF IInv, TypeOK, CallRecorded
<1>3. /\ arg[c] # None /\ arg[c].run \in Runs /\ Updatable(c, "none") /\ p \in Docs
      /\ "effect" \notin p.counts /\ "received" \in p.counts
      /\ "completed" \notin p.counts
      /\ "dispatch" \in p.counts => p.decision = "allow"
      /\ "intercepted" \in p.counts <=> p.decision # None
  BY <1>1, Loaded
<1>4. p.context = c /\ p.terminal = None /\ "intercepted" \notin p.counts
  BY <1>1 DEF Updatable
<1>5. "dispatch" \notin p.counts
  BY <1>3, <1>4, NoneIsNoValue DEF Variants
<1>6. /\ e \in Docs /\ e.counts = p.counts \cup {"intercepted"}
      /\ e.context = p.context /\ e.terminal = p.terminal
  BY <1>1, <1>3, EventFields
<1>. HIDE DEF e
<1>7. /\ d \in Docs /\ d.counts = e.counts /\ d.context = e.context /\ d.terminal = e.terminal
      /\ d.decision = verdict[c]
  BY <1>2, <1>6 DEF Docs
<1>8. p.counts \subseteq d.counts /\ p = doc["producer"][arg[c].run]
  BY <1>6, <1>7 DEF Own
<1>9. label \in {"allowed", "denied"}
  OBVIOUS
<1>. HIDE DEF d, p, label
<1>10. PICK r \in Runs : r = arg[c].run
  BY <1>3
<1>. QED  BY <1>1, <1>2, <1>3, <1>4, <1>5, <1>6, <1>7, <1>8, <1>9, <1>10, UpdateStep

LEMMA CompleteDeniedStep == ASSUME IInv, NEW c \in Calls, CompleteDenied(c) PROVE IInv'
<1> DEFINE p == Own(c)
           e == Event(p, "completed")
           d == [e EXCEPT !.terminal = "denied"]
<1>1. /\ pc[c] = "denied" /\ Updatable(c, "completed") /\ "completed" \in Phases
      /\ p.decision = "deny" /\ "dispatch" \notin p.counts
      /\ Save(c, d) /\ At(c, "done") /\ UNCHANGED <<expired, arg, verdict, wire, collector, effects>>
  BY DEF CompleteDenied, Phases
<1>2. /\ arg[c] # None /\ arg[c].run \in Runs /\ Updatable(c, "none") /\ p \in Docs
      /\ "effect" \notin p.counts /\ "received" \in p.counts /\ "completed" \notin p.counts
      /\ "intercepted" \in p.counts <=> p.decision # None
      /\ p.decision # None => verdict[c] = p.decision
      /\ "dispatch" \in p.counts => p.decision = "allow"
  BY <1>1, Loaded
<1>3. p.context = c /\ p.terminal = None
  BY <1>1 DEF Updatable
<1>4. /\ e \in Docs /\ e.counts = p.counts \cup {"completed"} /\ e.context = p.context
      /\ e.decision = p.decision /\ e.terminal = p.terminal
  BY <1>1, <1>2, EventFields
<1>. HIDE DEF e
<1>5. /\ d \in Docs /\ d.counts = e.counts /\ d.context = e.context /\ d.decision = e.decision
      /\ d.terminal = "denied"
  BY <1>4 DEF Docs
<1>6. p.counts \subseteq d.counts /\ p = doc["producer"][arg[c].run]
  BY <1>4, <1>5 DEF Own
<1>. HIDE DEF d, p
<1>7. PICK r \in Runs : r = arg[c].run
  BY <1>2
<1>. QED  BY <1>1, <1>2, <1>3, <1>4, <1>5, <1>6, <1>7, UpdateStep, NoneIsNoValue DEF Variants

LEMMA DispatchStep == ASSUME IInv, NEW c \in Calls, Dispatch(c) PROVE IInv'
<1> DEFINE p == Own(c)
           e == Event(p, "dispatch")
           d == e
<1>1. /\ pc[c] = "allowed" /\ Updatable(c, "dispatch") /\ "dispatch" \in Phases
      /\ p.decision = "allow"
      /\ Save(c, d) /\ At(c, "dispatched") /\ UNCHANGED <<expired, arg, verdict, wire, collector, effects>>
  BY DEF Dispatch, Phases
<1>2. /\ arg[c] # None /\ arg[c].run \in Runs /\ Updatable(c, "none") /\ p \in Docs
      /\ "effect" \notin p.counts /\ "received" \in p.counts /\ "completed" \notin p.counts
      /\ "intercepted" \in p.counts <=> p.decision # None
      /\ p.decision # None => verdict[c] = p.decision
      /\ "dispatch" \in p.counts => p.decision = "allow"
  BY <1>1, Loaded
<1>3. p.context = c /\ p.terminal = None
  BY <1>1 DEF Updatable
<1>4. /\ e \in Docs /\ e.counts = p.counts \cup {"dispatch"} /\ e.context = p.context
      /\ e.decision = p.decision /\ e.terminal = p.terminal
  BY <1>1, <1>2, EventFields
<1>5. /\ d \in Docs /\ d.counts = e.counts /\ d.context = e.context /\ d.decision = e.decision
      /\ d.terminal = e.terminal
  BY <1>4 DEF Docs
<1>6. p.counts \subseteq d.counts /\ p = doc["producer"][arg[c].run]
  BY <1>4, <1>5 DEF Own
<1>. HIDE DEF d, p
<1>7. PICK r \in Runs : r = arg[c].run
  BY <1>2
<1>. QED  BY <1>1, <1>2, <1>3, <1>4, <1>5, <1>6, <1>7, UpdateStep, NoneIsNoValue DEF Variants

LEMMA CompleteAllowedStep == ASSUME IInv, NEW c \in Calls, CompleteAllowed(c) PROVE IInv'
<1> DEFINE p == Own(c)
           e == Event(p, "completed")
           d == [e EXCEPT !.terminal = "completed"]
<1>1. /\ pc[c] = "replied" /\ Updatable(c, "completed") /\ "completed" \in Phases
      /\ "dispatch" \in p.counts
      /\ Save(c, d) /\ At(c, "done") /\ UNCHANGED <<expired, arg, verdict, wire, collector, effects>>
  BY DEF CompleteAllowed, Phases
<1>2. /\ arg[c] # None /\ arg[c].run \in Runs /\ Updatable(c, "none") /\ p \in Docs
      /\ "effect" \notin p.counts /\ "received" \in p.counts /\ "completed" \notin p.counts
      /\ "intercepted" \in p.counts <=> p.decision # None
      /\ p.decision # None => verdict[c] = p.decision
      /\ "dispatch" \in p.counts => p.decision = "allow"
  BY <1>1, Loaded
<1>3. p.context = c /\ p.terminal = None
  BY <1>1 DEF Updatable
<1>4. /\ e \in Docs /\ e.counts = p.counts \cup {"completed"} /\ e.context = p.context
      /\ e.decision = p.decision /\ e.terminal = p.terminal
  BY <1>1, <1>2, EventFields
<1>. HIDE DEF e
<1>5. /\ d \in Docs /\ d.counts = e.counts /\ d.context = e.context /\ d.decision = e.decision
      /\ d.terminal = "completed"
  BY <1>4 DEF Docs
<1>6. p.counts \subseteq d.counts /\ p = doc["producer"][arg[c].run]
  BY <1>4, <1>5 DEF Own
<1>. HIDE DEF d, p
<1>7. PICK r \in Runs : r = arg[c].run
  BY <1>2
<1>. QED  BY <1>1, <1>2, <1>3, <1>4, <1>5, <1>6, <1>7, UpdateStep, NoneIsNoValue DEF Variants

(* Steps that leave the documents and the collector alone.                 *)
LEMMA DocsKept ==
  ASSUME IInv, UNCHANGED <<doc, collector, effects>>
  PROVE  CollectorInOrder' /\ FixtureInOrder'
<1>1. CollectorInOrder'
  BY DEF IInv, CollectorInOrder, Advances, Passes, ProducerPasses, FixturePasses
<1>2. FixtureInOrder'
  BY DEF IInv, FixtureInOrder
<1>. QED  BY <1>1, <1>2

LEMMA InvokeStep == ASSUME IInv, NEW c \in Calls, Invoke(c) PROVE IInv'
<1>1. /\ pc[c] = "idle" /\ At(c, "asked") /\ UNCHANGED <<services, verdict, wire, collector, effects>>
      /\ \E a \in Args : arg' = [arg EXCEPT ![c] = a]
  BY DEF Invoke, Known, Args
<1>2. TypeOK'
  BY <1>1 DEF IInv, TypeOK, At
<1>3. EffectWasDispatched'
  BY <1>1 DEF IInv, EffectWasDispatched
<1>4. ASSUME NEW r \in Runs PROVE ProducerRun(r)'
  <2>1. ProducerRun(r) /\ doc' = doc /\ verdict' = verdict
    BY <1>1, Parts DEF IInv
  <2>2. \A k \in Calls : pc[k] \notin {"idle", "asked"} => pc'[k] = pc[k] /\ arg'[k] = arg[k]
    BY <1>1 DEF IInv, TypeOK, At
  <2>3. doc["producer"][r] # None => doc["producer"][r].context \in Calls \cup {None}
    BY DEF IInv, TypeOK, Services, Docs
  <2>. QED  BY <2>1, <2>2, <2>3 DEF ProducerRun
<1>5. ASSUME NEW k \in Calls PROVE CallRecorded(k)'
  <2>1. CallRecorded(k)
    BY Parts DEF IInv
  <2>2. CASE k = c
    <3>1. pc'[k] = "asked" /\ arg'[k] # None /\ k \notin wire
      BY <1>1, <2>1, <2>2, NoneIsNoValue DEF IInv, TypeOK, At, CallRecorded
    <3>. QED  BY <1>1, <3>1 DEF CallRecorded
  <2>3. CASE k # c
    <3>1. pc'[k] = pc[k] /\ arg'[k] = arg[k] /\ Own(k)' = Own(k)
      BY <1>1, <2>3 DEF IInv, TypeOK, At, Own
    <3>. QED  BY <1>1, <2>1, <3>1 DEF CallRecorded
  <2>. QED  BY <2>2, <2>3
<1>. QED  BY <1>1, <1>2, <1>3, <1>4, <1>5, DocsKept, Parts DEF IInv

LEMMA DecideStep == ASSUME IInv, NEW c \in Calls, Decide(c) PROVE IInv'
<1>1. /\ pc[c] = "begun" /\ At(c, "decided") /\ UNCHANGED <<services, arg, wire, collector, effects>>
      /\ \E v \in Variants : verdict' = [verdict EXCEPT ![c] = v]
  BY DEF Decide
<1>2. TypeOK'
  BY <1>1 DEF IInv, TypeOK, At
<1>3. /\ \A k \in Calls \ {c} : pc'[k] = pc[k] /\ verdict'[k] = verdict[k]
      /\ pc'[c] = "decided" /\ verdict'[c] \in Variants
      /\ \A k \in Calls : Own(k)' = Own(k)
  BY <1>1 DEF IInv, TypeOK, At, Own
<1>4. Own(c) # None /\ Own(c).context = c /\ "intercepted" \notin Own(c).counts
  BY <1>1, Parts DEF IInv, CallRecorded
<1>5. ASSUME NEW r \in Runs PROVE ProducerRun(r)'
  <2>1. ProducerRun(r) /\ doc' = doc /\ arg' = arg
    BY <1>1, Parts DEF IInv
  <2>2. doc["producer"][r] # None => doc["producer"][r].context \in Calls \cup {None}
    BY DEF IInv, TypeOK, Services, Docs
  <2>3. doc["producer"][r] # None /\ doc["producer"][r].context = c => doc["producer"][r] = Own(c)
    BY <2>1, NoneIsNoValue DEF ProducerRun, Own
  <2>4. CASE doc["producer"][r] = None
    BY <2>1, <2>4 DEF ProducerRun
  <2>5. CASE doc["producer"][r] # None /\ doc["producer"][r].context = None
    BY <2>1, <2>5 DEF ProducerRun, Registered
  <2>6. CASE doc["producer"][r] # None /\ doc["producer"][r].context = c
    <3>1. doc["producer"][r].decision = None
      BY <1>4, <2>1, <2>3, <2>6 DEF ProducerRun
    <3>. QED  BY <1>3, <2>1, <2>6, <3>1 DEF ProducerRun
  <2>7. CASE doc["producer"][r] # None /\ doc["producer"][r].context \in Calls \ {c}
    BY <1>3, <2>1, <2>7 DEF ProducerRun
  <2>. QED  BY <2>2, <2>4, <2>5, <2>6, <2>7
<1>6. ASSUME NEW k \in Calls PROVE CallRecorded(k)'
  <2>1. CallRecorded(k)
    BY Parts DEF IInv
  <2>2. CASE k = c
    BY <1>1, <1>3, <1>4, <2>1, <2>2, NoneIsNoValue DEF CallRecorded
  <2>3. CASE k # c
    BY <1>1, <1>3, <2>1, <2>3 DEF CallRecorded
  <2>. QED  BY <2>2, <2>3
<1>7. EffectWasDispatched'
  <2>1. ASSUME NEW r \in Runs, doc["producer"][r] # None, doc["producer"][r].context = c
        PROVE  "intercepted" \notin doc["producer"][r].counts
    <3>1. doc["producer"][r] = Own(c)
      BY <2>1, NoneIsNoValue, Parts DEF IInv, ProducerRun, Own
    <3>. QED  BY <1>4, <3>1
  <2>2. \A r \in Runs : doc["fixture"][r] # None =>
            doc["fixture"][r].context \in Calls \cup {None}
    BY DEF IInv, TypeOK, Services, Docs
  <2>. QED  BY <1>1, <1>3, <2>1, <2>2 DEF IInv, EffectWasDispatched
<1>. QED  BY <1>1, <1>2, <1>5, <1>6, <1>7, DocsKept, Parts DEF IInv

(* Sending, and failing anywhere.                                          *)
LEMMA SendOrFail == ASSUME IInv, NEW c \in Calls, Send(c) \/ Fail(c) PROVE IInv'
<1>1. /\ UNCHANGED <<services, arg, verdict, collector, effects>>
      /\ pc[c] \notin {"idle", "done"}
      /\ \/ At(c, "done") /\ wire' = wire
         \/ pc[c] = "dispatched" /\ At(c, "waiting") /\ wire' = wire \cup {c}
  BY DEF Send, Sendable, Fail
<1>2. TypeOK'
  BY <1>1 DEF IInv, TypeOK, At
<1>3. /\ \A k \in Calls \ {c} : pc'[k] = pc[k]
      /\ pc'[c] \in {"done", "waiting"}
      /\ \A k \in Calls : Own(k)' = Own(k)
  BY <1>1 DEF IInv, TypeOK, At, Own
<1>4. ASSUME NEW r \in Runs PROVE ProducerRun(r)'
  <2>1. ProducerRun(r) /\ doc' = doc /\ verdict' = verdict /\ arg' = arg
    BY <1>1, Parts DEF IInv
  <2>2. doc["producer"][r] # None => doc["producer"][r].context \in Calls \cup {None}
    BY DEF IInv, TypeOK, Services, Docs
  <2>. QED  BY <1>3, <2>1, <2>2 DEF ProducerRun
<1>5. ASSUME NEW k \in Calls PROVE CallRecorded(k)'
  <2>1. CallRecorded(k)
    BY Parts DEF IInv
  <2>2. CASE k = c
    <3>1. pc'[k] = "waiting" => pc[k] = "dispatched"
      BY <1>1, <2>2 DEF IInv, TypeOK, At
    <3>2. k \in wire' => k \in wire \/ pc[k] = "dispatched"
      BY <1>1, <2>2
    <3>. QED  BY <1>1, <1>3, <2>1, <2>2, <3>1, <3>2 DEF CallRecorded
  <2>3. CASE k # c
    BY <1>1, <1>3, <2>1, <2>3 DEF CallRecorded
  <2>. QED  BY <2>2, <2>3
<1>6. EffectWasDispatched'
  BY <1>1 DEF IInv, EffectWasDispatched
<1>. QED  BY <1>1, <1>2, <1>4, <1>5, <1>6, DocsKept, Parts DEF IInv

-----------------------------------------------------------------------------
(* The services.                                                           *)

LEMMA RegisterStep ==
  ASSUME IInv, NEW s \in Services, NEW r \in Runs, Register(s, r) PROVE IInv'
<1>1. /\ doc[s][r] = None /\ doc' = [doc EXCEPT ![s][r] = Registered]
      /\ UNCHANGED <<expired, callers, collector, effects>>
  BY DEF Register, Registers
<1>2. /\ doc'[s][r] = Registered
      /\ \A t \in Services, q \in Runs : t # s \/ q # r => doc'[t][q] = doc[t][q]
  BY <1>1 DEF IInv, TypeOK
<1>3. TypeOK'
  BY <1>1, RegisteredType DEF IInv, TypeOK
<1>4. ASSUME NEW q \in Runs PROVE ProducerRun(q)'
  <2>1. ProducerRun(q)
    BY Parts DEF IInv
  <2>2. CASE s = "producer" /\ q = r
    BY <1>2, <2>2, RegisteredType, NoneIsNoValue DEF ProducerRun, Registered
  <2>3. CASE s # "producer" \/ q # r
    BY <1>1, <1>2, <2>1, <2>3 DEF ProducerRun, Services
  <2>. QED  BY <2>2, <2>3
<1>5. ASSUME NEW c \in Calls PROVE CallRecorded(c)'
  <2>1. CallRecorded(c)
    BY Parts DEF IInv
  <2>2. CASE arg[c] = None
    BY <1>1, <2>1, <2>2 DEF CallRecorded
  <2>3. CASE arg[c] # None
    <3>1. arg[c].run \in Runs /\ (Own(c) # None => Own(c)' = Own(c))
      BY <1>1, <1>2, <2>3 DEF IInv, TypeOK, Own, Args, Services
    <3>. QED  BY <1>1, <2>1, <2>3, <3>1 DEF CallRecorded
  <2>. QED  BY <2>2, <2>3
<1>6. FixtureInOrder'
  <2>1. "effect" \notin Registered.counts
    BY DEF Registered
  <2>. QED  BY <1>1, <1>2, <2>1 DEF IInv, FixtureInOrder, Services
<1>7. EffectWasDispatched'
  <2>1. "effect" \notin Registered.counts
    BY DEF Registered
  <2>. QED  BY <1>1, <1>2, <2>1 DEF IInv, EffectWasDispatched, Services
<1>8. CollectorInOrder'
  <2>1. ASSUME NEW t \in Services, NEW q \in Runs, seen[t][q] # None
        PROVE  Advances(seen[t][q], doc'[t][q])
    <3>1. Advances(seen[t][q], doc[t][q])
      BY <2>1 DEF IInv, CollectorInOrder
    <3>2. doc[t][q] # None
      BY <3>1 DEF Advances
    <3>. QED  BY <1>1, <1>2, <3>1, <3>2
  <2>. QED  BY <1>1, <2>1 DEF IInv, CollectorInOrder, Passes, ProducerPasses, FixturePasses
<1>. QED  BY <1>3, <1>4, <1>5, <1>6, <1>7, <1>8, Parts DEF IInv

LEMMA EffectStep == ASSUME IInv, NEW c \in Calls, Effect(c) PROVE IInv'
<1>1. PICK r \in Runs : arg[c] # None /\ arg[c].run = r /\ c \in wire
  BY Parts DEF IInv, TypeOK, Effect, CallRecorded, Args
<1> DEFINE f == doc["fixture"][r]
           new == [counts |-> {"received", "effect", "completed"}, context |-> c,
                   decision |-> None, terminal |-> "completed"]
<1>2. /\ Own(c) = doc["producer"][r] /\ Own(c) # None /\ Own(c).context = c
      /\ {"received", "intercepted", "dispatch"} \subseteq Own(c).counts
  BY <1>1, Parts DEF IInv, CallRecorded, Own
<1>3. /\ UNCHANGED <<expired, arg, verdict, collector>> /\ wire' \subseteq wire
      /\ \A k \in Calls : pc'[k] = pc[k] \/ (pc[k] = "waiting" /\ pc'[k] \in {"replied", "done"})
      /\ pc' \in [Calls -> {"idle", "asked", "begun", "decided", "denied", "allowed",
                             "dispatched", "waiting", "replied", "done"}]
  BY DEF Effect, IInv, TypeOK
<1>4. doc'["producer"] = doc["producer"]
  BY DEF Effect, IInv, TypeOK, Services
<1>5. ASSUME NEW q \in Runs PROVE ProducerRun(q)'
  <2>1. ProducerRun(q)
    BY Parts DEF IInv
  <2>2. doc["producer"][q] # None => doc["producer"][q].context \in Calls \cup {None}
    BY DEF IInv, TypeOK, Services, Docs
  <2>. QED  BY <1>3, <1>4, <2>1, <2>2 DEF ProducerRun
<1>6. ASSUME NEW k \in Calls PROVE CallRecorded(k)'
  <2>1. CallRecorded(k) /\ Own(k)' = Own(k)
    BY <1>3, <1>4, Parts DEF IInv, Own
  <2>. QED  BY <1>3, <2>1 DEF CallRecorded
<1>7. CASE UNCHANGED <<doc, effects>>
  <2>1. TypeOK'
    BY <1>3, <1>7 DEF IInv, TypeOK
  <2>2. EffectWasDispatched'
    BY <1>3, <1>7 DEF IInv, EffectWasDispatched
  <2>. QED  BY <1>3, <1>5, <1>6, <1>7, <2>1, <2>2, DocsKept, Parts DEF IInv
<1>8. CASE /\ f # None /\ "effect" \notin f.counts
           /\ doc' = [doc EXCEPT !["fixture"][r] = new]
           /\ effects' = [effects EXCEPT ![r] = @ + 1]
  <2>1. new \in Docs /\ new # None
    BY NoneIsNoValue DEF Docs, Phases
  <2>2. f = Registered /\ effects[r] = 0
    BY <1>8 DEF IInv, FixtureInOrder
  <2>3. /\ doc'["fixture"][r] = new /\ effects'[r] = 1
        /\ \A q \in Runs \ {r} : doc'["fixture"][q] = doc["fixture"][q] /\ effects'[q] = effects[q]
    BY <1>8, <2>2 DEF IInv, TypeOK, Services
  <2>4. TypeOK'
    <3>1. doc' \in [Services -> [Runs -> Docs \cup {None}]]
      BY <1>8, <2>1 DEF IInv, TypeOK, Services
    <3>2. effects' \in [Runs -> Nat]
      BY <1>8, <2>2 DEF IInv, TypeOK
    <3>. QED  BY <1>3, <3>1, <3>2 DEF IInv, TypeOK
  <2>5. FixtureInOrder'
    <3>1. new # None /\ "effect" \in new.counts /\ new.terminal = "completed"
      BY <2>1
    <3>. HIDE DEF new
    <3>. QED  BY <2>3, <3>1 DEF IInv, FixtureInOrder
  <2>6. verdict[c] = "allow" /\ c # None
    BY <1>2, NoneIsNoValue, Parts DEF IInv, ProducerRun, Variants
  <2>7. EffectWasDispatched'
    BY <1>2, <1>3, <1>4, <2>3, <2>6 DEF IInv, EffectWasDispatched
  <2>8. CollectorInOrder'
    <3>1. ASSUME NEW t \in Services, NEW q \in Runs, seen[t][q] # None
          PROVE  Advances(seen[t][q], doc'[t][q])
      <4>1. Advances(seen[t][q], doc[t][q])
        BY <3>1 DEF IInv, CollectorInOrder
      <4>2. CASE t = "fixture" /\ q = r
        <5>1. doc[t][q] = Registered /\ doc'[t][q] = new
          BY <2>2, <2>3, <4>2
        <5>2. seen[t][q].counts = {} /\ seen[t][q].context = None /\ seen[t][q].terminal = None
          BY <4>1, <5>1 DEF Advances, Registered
        <5>. QED  BY <2>1, <5>1, <5>2 DEF Advances
      <4>3. CASE t = "producer" \/ q # r
        BY <1>4, <2>3, <4>1, <4>3 DEF Services
      <4>. QED  BY <4>2, <4>3 DEF Services
    <3>. QED  BY <1>3, <3>1 DEF IInv, CollectorInOrder, Passes, ProducerPasses, FixturePasses
  <2>. QED  BY <1>5, <1>6, <2>4, <2>5, <2>7, <2>8, Parts DEF IInv
<1>. QED  BY <1>1, <1>7, <1>8 DEF Effect, Accepts

-----------------------------------------------------------------------------
(* The collector reads: nothing but its own state changes.                 *)

LEMMA ServicesKept ==
  ASSUME IInv, UNCHANGED <<services, callers, effects>>
  PROVE  ProducerInOrder' /\ CallsInOrder' /\ FixtureInOrder' /\ EffectWasDispatched'
<1>1. ProducerInOrder'
  BY DEF IInv, ProducerInOrder
<1>2. CallsInOrder'
  BY DEF IInv, CallsInOrder, Own
<1>3. FixtureInOrder'
  BY DEF IInv, FixtureInOrder
<1>4. EffectWasDispatched'
  BY DEF IInv, EffectWasDispatched
<1>. QED  BY <1>1, <1>2, <1>3, <1>4

(* A document extends itself. *)
LEMMA AdvancesItself == ASSUME NEW d, d # None PROVE Advances(d, d)
  BY DEF Advances

LEMMA BaselineStep == ASSUME IInv, NEW r \in Runs, Baseline(r) PROVE IInv'
<1>1. /\ UNCHANGED <<services, callers, checked, report, effects>> /\ report = "open"
      /\ \A s \in Services : doc[s][r] = Registered
      /\ seen' = [s \in Services |-> [seen[s] EXCEPT ![r] = doc[s][r]]]
      /\ stage[r] = "new" /\ stage' = [stage EXCEPT ![r] = "producer"]
  BY DEF Baseline
<1>2. TypeOK'
  BY <1>1, RegisteredType DEF IInv, TypeOK
<1>3. /\ \A s \in Services : seen'[s][r] = Registered
      /\ \A s \in Services, q \in Runs \ {r} : seen'[s][q] = seen[s][q] /\ stage'[q] = stage[q]
      /\ stage'[r] = "producer" /\ checked = {}
  BY <1>1 DEF IInv, TypeOK, CollectorInOrder
<1>4. CollectorInOrder'
  <2>1. ASSUME NEW s \in Services, NEW q \in Runs
        PROVE  /\ stage'[q] # "new" => seen'[s][q] # None
               /\ seen'[s][q] # None => Advances(seen'[s][q], doc'[s][q])
    <3>1. CASE q = r
      BY <1>1, <1>3, <3>1, RegisteredType, AdvancesItself
    <3>2. CASE q # r
      BY <1>1, <1>3, <3>2 DEF IInv, CollectorInOrder
    <3>. QED  BY <3>1, <3>2
  <2>. QED  BY <1>1, <1>3, <2>1 DEF CollectorInOrder
<1>. QED  BY <1>1, <1>2, <1>4, ServicesKept DEF IInv

LEMMA PollStep == ASSUME IInv, NEW s \in Services, NEW r \in Runs, Poll(s, r) PROVE IInv'
<1>1. /\ UNCHANGED <<services, callers, checked, report, effects>> /\ report = "open"
      /\ Advances(seen[s][r], doc[s][r])
      /\ seen' = [seen EXCEPT ![s][r] = doc[s][r]]
      /\ stage[r] = s
      /\ \E l \in {"producer", "fixture", "done"} : stage' = [stage EXCEPT ![r] = l]
  BY DEF Poll
<1>2. doc[s][r] # None
  BY <1>1 DEF Advances
<1>3. TypeOK'
  BY <1>1 DEF IInv, TypeOK
<1>4. /\ seen'[s][r] = doc[s][r] /\ checked = {}
      /\ \A t \in Services, q \in Runs : t # s \/ q # r => seen'[t][q] = seen[t][q]
      /\ \A q \in Runs : stage'[q] # "new" => stage[q] # "new"
  BY <1>1 DEF IInv, TypeOK, CollectorInOrder, Services
<1>5. CollectorInOrder'
  <2>1. ASSUME NEW t \in Services, NEW q \in Runs
        PROVE  /\ stage'[q] # "new" => seen'[t][q] # None
               /\ seen'[t][q] # None => Advances(seen'[t][q], doc'[t][q])
    <3>1. CASE t = s /\ q = r
      BY <1>1, <1>2, <1>4, <3>1, AdvancesItself
    <3>2. CASE t # s \/ q # r
      BY <1>1, <1>4, <3>2 DEF IInv, CollectorInOrder
    <3>. QED  BY <3>1, <3>2
  <2>. QED  BY <1>1, <1>4, <2>1 DEF CollectorInOrder
<1>. QED  BY <1>1, <1>3, <1>5, ServicesKept DEF IInv

LEMMA RecheckStep == ASSUME IInv, NEW s \in Services, NEW r \in Runs, Recheck(s, r) PROVE IInv'
<1>1. /\ UNCHANGED <<services, callers, stage, seen, report, effects>>
      /\ \A q \in Runs : stage[q] = "done"
      /\ checked' = checked \cup {<<s, r>>}
  BY DEF Recheck
<1>2. TypeOK'
  BY <1>1 DEF IInv, TypeOK
<1>3. CollectorInOrder'
  BY <1>1 DEF IInv, CollectorInOrder, Passes, ProducerPasses, FixturePasses
<1>. QED  BY <1>1, <1>2, <1>3, ServicesKept DEF IInv

LEMMA ReportStep == ASSUME IInv, Report \/ GiveUp PROVE IInv'
<1>1. /\ UNCHANGED <<services, callers, stage, seen, checked, effects>>
      /\ report' \in {"pass", "gap"}
      /\ report' = "pass" => checked = Services \X Runs /\ \A r \in Runs : Passes(r)
  BY DEF Report, GiveUp
<1>2. TypeOK'
  BY <1>1 DEF IInv, TypeOK
<1>3. report' = "pass" => \A r \in Runs : stage[r] # "new"
  <2>1. <<"producer", "allow">> \in Services \X Runs
    BY DEF Services, Runs, Variants
  <2>. QED  BY <1>1, <2>1 DEF IInv, CollectorInOrder
<1>4. CollectorInOrder'
  BY <1>1, <1>3 DEF IInv, CollectorInOrder, Passes, ProducerPasses, FixturePasses
<1>. QED  BY <1>1, <1>2, <1>4, ServicesKept DEF IInv

LEMMA StutterStep == ASSUME IInv, UNCHANGED <<services, callers, collector, effects>> \/ (\E r \in Runs : Expire(r))
                     PROVE  IInv'
<1>1. UNCHANGED <<doc, callers, collector, effects>> /\ expired' \subseteq Runs
  BY DEF Expire, IInv, TypeOK
<1>2. TypeOK'
  BY <1>1 DEF IInv, TypeOK
<1>3. ProducerInOrder'
  BY <1>1 DEF IInv, ProducerInOrder
<1>4. CallsInOrder'
  BY <1>1 DEF IInv, CallsInOrder, Own
<1>5. EffectWasDispatched'
  BY <1>1 DEF IInv, EffectWasDispatched
<1>. QED  BY <1>1, <1>2, <1>3, <1>4, <1>5, DocsKept DEF IInv

-----------------------------------------------------------------------------
LEMMA ProbeStep == IInv /\ [Next]_vars => IInv'
<1>. SUFFICES ASSUME IInv, [Next]_vars PROVE IInv'
  OBVIOUS
<1>1. ASSUME NEW c \in Calls, Call(c) PROVE IInv'
  BY <1>1, InvokeStep, BeginStep, DecideStep, InterceptStep, CompleteDeniedStep, DispatchStep,
     SendOrFail, CompleteAllowedStep, EffectStep DEF Call
<1>2. ASSUME Collect PROVE IInv'
  BY <1>2, BaselineStep, PollStep, RecheckStep, ReportStep DEF Collect
<1>3. ASSUME \E s \in Services, r \in Runs : Register(s, r) PROVE IInv'
  BY <1>3, RegisterStep
<1>4. ASSUME (\E r \in Runs : Expire(r)) \/ UNCHANGED vars PROVE IInv'
  BY <1>4, StutterStep
<1>. QED  BY <1>1, <1>2, <1>3, <1>4 DEF Next

(* The documents, the calls and the collector's readings agree in every    *)
(* reachable state, for any number of noop calls.                          *)
THEOREM ProbeInvariant == Spec => []IInv
  BY WholeInit, ProbeStep, PTL DEF Spec

(* Every variable of the probe's services, callers and collector keeps its *)
(* type.                                                                   *)
THEOREM ProbeTypeOK == Spec => []TypeOK
<1>1. IInv => TypeOK
  BY DEF IInv
<1>. QED  BY <1>1, ProbeInvariant, PTL

(* Nothing has an effect at the fixture that the producer had not recorded *)
(* as dispatched for that call.                                            *)
THEOREM ProbeEffectWasDispatched == Spec => []EffectWasDispatched
<1>1. IInv => EffectWasDispatched
  BY DEF IInv
<1>. QED  BY <1>1, ProbeInvariant, PTL

(* What the collector read of a run it passed is still so: a terminal      *)
(* producer's document is never changed, and a denied run has no effect.   *)
LEMMA PassIsTrue ==
  ASSUME IInv, report = "pass", NEW r \in Runs
  PROVE  /\ doc["producer"][r] # None /\ doc["producer"][r].context # None
         /\ verdict[doc["producer"][r].context] = r
         /\ effects[r] = (IF r = "allow" THEN 1 ELSE 0)
<1> DEFINE p == doc["producer"][r]
           f == doc["fixture"][r]
<1>1. /\ ProducerPasses(r) /\ FixturePasses(r)
      /\ Advances(seen["producer"][r], p) /\ Advances(seen["fixture"][r], f)
  BY DEF IInv, CollectorInOrder, Passes, Services
<1>2. p = seen["producer"][r] /\ p # None /\ f # None
  BY <1>1, NoneIsNoValue DEF Advances, ProducerPasses
<1>3. /\ p.decision = r /\ "received" \in p.counts /\ "intercepted" \in p.counts
      /\ p.terminal = (IF r = "allow" THEN "completed" ELSE "denied")
  BY <1>1, <1>2 DEF ProducerPasses
<1>4. ProducerRun(r)
  BY Parts DEF IInv
<1>5. p.context # None /\ verdict[p.context] = r
  BY <1>2, <1>3, <1>4, NoneIsNoValue DEF ProducerRun, Runs, Variants
<1>6. effects[r] = (IF "effect" \in f.counts THEN 1 ELSE 0)
  BY <1>2 DEF IInv, FixtureInOrder
<1>7. CASE r = "allow"
  <2>1. "effect" \in f.counts
    BY <1>1, <1>7 DEF FixturePasses, Advances
  <2>. QED  BY <1>2, <1>5, <1>6, <1>7, <2>1
<1>8. CASE r # "allow"
  <2>1. "dispatch" \notin p.counts
    BY <1>2, <1>3, <1>4, <1>8 DEF ProducerRun
  <2>2. "effect" \notin f.counts
    BY <1>2, <2>1 DEF IInv, EffectWasDispatched
  <2>. QED  BY <1>2, <1>5, <1>6, <1>8, <2>2
<1>. QED  BY <1>7, <1>8

(* A report that passed is true and stays true, whatever still runs.       *)
THEOREM ProbeReportIsTrue == Spec => []ReportIsTrue
<1>1. IInv => ReportIsTrue
  BY PassIsTrue DEF ReportIsTrue
<1>. QED  BY <1>1, ProbeInvariant, PTL
=============================================================================
