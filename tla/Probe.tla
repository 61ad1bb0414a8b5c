------------------------------- MODULE Probe --------------------------------
(***************************************************************************)
(* The live governance probe: two single-use runs, one the policy has to   *)
(* allow and one it has to deny.  A producer (the gateway's dispatcher or  *)
(* the native hook) and the fixture that owns the noop effect keep one     *)
(* durable document per run each; a collector registers the runs, has the  *)
(* hosted agent invoked, polls both services and writes the report.        *)
(*                                                                         *)
(* probes.py, probe_telemetry.py, dispatcher.py (its probe branch),        *)
(* probe-fixture/app.py, governance_probe.py and probe_evidence.py.        *)
(*                                                                         *)
(* A load, its checks and the replace that carries the loaded etag are one *)
(* step: the store refuses the replace when the document moved, so a call  *)
(* that lost the race either starts over or fails (Fail).  A write whose   *)
(* answer is lost is the write followed by Fail.                           *)
(***************************************************************************)
EXTENDS Naturals, FiniteSets

CONSTANTS
    Calls,      \* noop calls the hosted agent may make, with any known run
    None

Variants == {"allow", "deny"}
Runs == Variants                  \* the collector makes one run per variant
Services == {"producer", "fixture"}
Phases == {"received", "intercepted", "dispatch", "effect", "completed"}

VARIABLES
    doc,        \* service -> run -> its stored State, or None
    expired,    \* runs past expires_at
    pc,         \* where each call stands
    arg,        \* the run and the variant each call was made with
    verdict,    \* what the policy decided for the call
    wire,       \* calls whose request is on its way to the fixture
    stage,      \* how far the collector is with each run
    seen,       \* service -> run -> the last document the collector read
    checked,    \* documents compared in the collector's last pass
    report,     \* the collector's report
    effects     \* history: noop effects accepted per run

services == <<doc, expired>>
callers == <<pc, arg, verdict, wire>>
collector == <<stage, seen, checked, report>>
vars == <<services, callers, collector, effects>>

(* A registered document nothing happened to; counts is the set of phases  *)
(* whose count is 1.  The fixture's context stands for its effect_key,     *)
(* which the call's signed receipt makes unique to the call.               *)
Registered == [counts |-> {}, context |-> None, decision |-> None, terminal |-> None]

Docs == [counts : SUBSET Phases, context : Calls \cup {None},
         decision : Variants \cup {None}, terminal : {"denied", "completed", None}]

Args == [run : Runs, variant : Variants]

ASSUME NoneIsNoValue == None \notin Calls \cup Variants \cup {"denied", "completed"} \cup Docs \cup Args

Known == {r \in Runs : stage[r] # "new"}   \* run ids the agent was told

Init ==
    /\ doc = [s \in Services |-> [r \in Runs |-> None]]
    /\ expired = {}
    /\ pc = [c \in Calls |-> "idle"]
    /\ arg = [c \in Calls |-> None]
    /\ verdict = [c \in Calls |-> None]
    /\ wire = {}
    /\ stage = [r \in Runs |-> "new"]
    /\ seen = [s \in Services |-> [r \in Runs |-> None]]
    /\ checked = {}
    /\ report = "open"
    /\ effects = [r \in Runs |-> 0]

-----------------------------------------------------------------------------
(* The control endpoint: a run is registered once and never reset.         *)
RegistersAgain(s, r) == TRUE                   \* bug: a registration resets the run
Registers(s, r) == doc[s][r] = None

Register(s, r) ==
    /\ Registers(s, r)
    /\ doc' = [doc EXCEPT ![s][r] = Registered]
    /\ UNCHANGED <<expired, callers, collector, effects>>

Expire(r) ==
    /\ r \notin expired
    /\ expired' = expired \cup {r}
    /\ UNCHANGED <<doc, callers, collector, effects>>

-----------------------------------------------------------------------------
(* The producer.                                                           *)

At(c, p) == pc' = [pc EXCEPT ![c] = p]

(* One event of a run: a phase is counted once. *)
Event(d, phase) == [d EXCEPT !.counts = @ \cup {phase}]

Save(c, d) == doc' = [doc EXCEPT !["producer"][arg[c].run] = d]

Own(c) == doc["producer"][arg[c].run]

(* What every update checks on the document it loaded. *)
Updatable(c, phase) ==
    /\ Own(c) # None
    /\ Own(c).context = c
    /\ Own(c).terminal = None
    /\ phase \notin Own(c).counts

Invoke(c) ==
    /\ pc[c] = "idle"
    /\ \E r \in Known, v \in Variants : arg' = [arg EXCEPT ![c] = [run |-> r, variant |-> v]]
    /\ At(c, "asked")
    /\ UNCHANGED <<services, verdict, wire, collector, effects>>

(* begin: the first call with the registered variant takes the run. *)
Begin(c) ==
    /\ pc[c] = "asked"
    /\ Own(c) # None
    /\ arg[c].variant = arg[c].run
    /\ arg[c].run \notin expired
    /\ Own(c).context = None
    /\ "received" \notin Own(c).counts
    /\ Save(c, [Event(Own(c), "received") EXCEPT !.context = c])
    /\ At(c, "begun")
    /\ UNCHANGED <<expired, arg, verdict, wire, collector, effects>>

(* The policy's decision and the audited receipt.  Whether the policy      *)
(* decides what the run's variant calls for is what the probe is to find   *)
(* out, so either decision may come.                                       *)
Decide(c) ==
    /\ pc[c] = "begun"
    /\ \E d \in Variants : verdict' = [verdict EXCEPT ![c] = d]
    /\ At(c, "decided")
    /\ UNCHANGED <<services, arg, wire, collector, effects>>

Intercept(c) ==
    /\ pc[c] = "decided"
    /\ Updatable(c, "intercepted")
    /\ "received" \in Own(c).counts
    /\ Save(c, [Event(Own(c), "intercepted") EXCEPT !.decision = verdict[c]])
    /\ At(c, IF verdict[c] = "deny" THEN "denied" ELSE "allowed")
    /\ UNCHANGED <<expired, arg, verdict, wire, collector, effects>>

CompleteDenied(c) ==
    /\ pc[c] = "denied"
    /\ Updatable(c, "completed")
    /\ Own(c).decision = "deny"
    /\ "dispatch" \notin Own(c).counts
    /\ Save(c, [Event(Own(c), "completed") EXCEPT !.terminal = "denied"])
    /\ At(c, "done")
    /\ UNCHANGED <<expired, arg, verdict, wire, collector, effects>>

(* on_dispatch is awaited before the transport lets the request out. *)
Dispatch(c) ==
    /\ pc[c] = "allowed"
    /\ Updatable(c, "dispatch")
    /\ Own(c).decision = "allow"
    /\ Save(c, Event(Own(c), "dispatch"))
    /\ At(c, "dispatched")
    /\ UNCHANGED <<expired, arg, verdict, wire, collector, effects>>

SendableUnrecorded(c) == pc[c] \in {"allowed", "dispatched"} \* bug: the dispatch is not recorded first
Sendable(c) == pc[c] = "dispatched"

Send(c) ==
    /\ Sendable(c)
    /\ wire' = wire \cup {c}
    /\ At(c, "waiting")
    /\ UNCHANGED <<services, arg, verdict, collector, effects>>

CompleteAllowed(c) ==
    /\ pc[c] = "replied"
    /\ Updatable(c, "completed")
    /\ "dispatch" \in Own(c).counts
    /\ Save(c, [Event(Own(c), "completed") EXCEPT !.terminal = "completed"])
    /\ At(c, "done")
    /\ UNCHANGED <<expired, arg, verdict, wire, collector, effects>>

(* A refusal, a timeout, a store error or a crash ends the call wherever   *)
(* it stands.  What it sent stays on the wire; nothing is retried.         *)
Fail(c) ==
    /\ pc[c] \notin {"idle", "done"}
    /\ At(c, "done")
    /\ UNCHANGED <<services, arg, verdict, wire, collector, effects>>

-----------------------------------------------------------------------------
(* The fixture: one atomic acceptance is the whole effect.  The same call  *)
(* gets the same answer again, any other call a refusal.                   *)

Accepts(c) ==
    LET d == doc["fixture"][arg[c].run] IN
        /\ d # None
        /\ arg[c].variant = arg[c].run
        /\ IF "effect" \in d.counts THEN d.context = c ELSE arg[c].run \notin expired

Effect(c) ==
    LET r == arg[c].run  d == doc["fixture"][r] IN
        /\ c \in wire
        /\ wire' = wire \ {c}
        /\ pc' = [pc EXCEPT ![c] = IF @ # "waiting" THEN @
                                   ELSE IF Accepts(c) THEN "replied" ELSE "done"]
        /\ IF Accepts(c) /\ "effect" \notin d.counts
           THEN /\ doc' = [doc EXCEPT !["fixture"][r] =
                       [counts |-> {"received", "effect", "completed"}, context |-> c,
                        decision |-> None, terminal |-> "completed"]]
                /\ effects' = [effects EXCEPT ![r] = @ + 1]
           ELSE UNCHANGED <<doc, effects>>
        /\ UNCHANGED <<expired, arg, verdict, collector>>

-----------------------------------------------------------------------------
(* The collector: the allow run first, the deny run once it is done.       *)

Turn(r) == r = "deny" => stage["allow"] = "done"

(* Both services show the empty document that was registered. *)
Baseline(r) ==
    /\ report = "open"
    /\ stage[r] = "new"
    /\ Turn(r)
    /\ \A s \in Services : doc[s][r] = Registered
    /\ r \notin expired
    /\ seen' = [s \in Services |-> [seen[s] EXCEPT ![r] = doc[s][r]]]
    /\ stage' = [stage EXCEPT ![r] = "producer"]
    /\ UNCHANGED <<services, callers, checked, report, effects>>

(* advance: nothing the collector has seen may be taken back. *)
Advances(old, new) ==
    /\ new # None
    /\ old.counts \subseteq new.counts
    /\ old.context # None => new.context = old.context
    /\ old.terminal # None => new = old

(* One poll reads the producer, then the fixture; polling ends when the    *)
(* producer's document it read is terminal.                                *)
Poll(s, r) ==
    /\ report = "open"
    /\ stage[r] = s
    /\ Advances(seen[s][r], doc[s][r])
    /\ seen' = [seen EXCEPT ![s][r] = doc[s][r]]
    /\ stage' = [stage EXCEPT ![r] =
           IF s = "producer" THEN "fixture"
           ELSE IF seen["producer"][r].terminal = None THEN "producer" ELSE "done"]
    /\ UNCHANGED <<services, callers, checked, report, effects>>

(* After both receipts every document is read once more. *)
Recheck(s, r) ==
    /\ report = "open"
    /\ \A q \in Runs : stage[q] = "done"
    /\ <<s, r>> \notin checked
    /\ doc[s][r] = seen[s][r]
    /\ checked' = checked \cup {<<s, r>>}
    /\ UNCHANGED <<services, callers, stage, seen, report, effects>>

(* evaluate_pair on one record. *)
ProducerPasses(r) ==
    LET p == seen["producer"][r] IN
        /\ p.counts = {"received", "intercepted", "completed"}
                      \cup (IF r = "allow" THEN {"dispatch"} ELSE {})
        /\ p.terminal = (IF r = "allow" THEN "completed" ELSE "denied")
        /\ p.decision = r

FixturePasses(r) ==
    LET f == seen["fixture"][r] IN
        IF r = "allow"
        THEN /\ f.counts = {"received", "effect", "completed"}
             /\ f.context = seen["producer"][r].context
        ELSE f = Registered

Passes(r) == ProducerPasses(r) /\ FixturePasses(r)

Report ==
    /\ report = "open"
    /\ checked = Services \X Runs
    /\ report' = IF (\A r \in Runs : Passes(r)) /\ expired = {} THEN "pass" ELSE "gap"
    /\ UNCHANGED <<services, callers, stage, seen, checked, effects>>

(* A failed check, a read that failed or the timeout leaves a gap. *)
GiveUp ==
    /\ report = "open"
    /\ report' = "gap"
    /\ UNCHANGED <<services, callers, stage, seen, checked, effects>>

-----------------------------------------------------------------------------
Call(c) ==
    \/ Invoke(c) \/ Begin(c) \/ Decide(c) \/ Intercept(c) \/ CompleteDenied(c)
    \/ Dispatch(c) \/ Send(c) \/ CompleteAllowed(c) \/ Fail(c) \/ Effect(c)

Collect ==
    \/ \E r \in Runs : Baseline(r)
    \/ \E s \in Services, r \in Runs : Poll(s, r) \/ Recheck(s, r)
    \/ Report \/ GiveUp

Next ==
    \/ \E s \in Services, r \in Runs : Register(s, r)
    \/ \E r \in Runs : Expire(r)
    \/ \E c \in Calls : Call(c)
    \/ Collect

Spec == Init /\ [][Next]_vars

-----------------------------------------------------------------------------
TypeOK ==
    /\ doc \in [Services -> [Runs -> Docs \cup {None}]]
    /\ expired \subseteq Runs
    /\ pc \in [Calls -> {"idle", "asked", "begun", "decided", "denied", "allowed",
                         "dispatched", "waiting", "replied", "done"}]
    /\ arg \in [Calls -> Args \cup {None}]
    /\ verdict \in [Calls -> Variants \cup {None}]
    /\ wire \subseteq Calls
    /\ stage \in [Runs -> {"new", "producer", "fixture", "done"}]
    /\ seen \in [Services -> [Runs -> Docs \cup {None}]]
    /\ checked \subseteq Services \X Runs
    /\ report \in {"open", "pass", "gap"}
    /\ effects \in [Runs -> Nat]

(* No effect reaches the fixture that the producer had not recorded as     *)
(* dispatched, for the one call the run belongs to and that the policy     *)
(* allowed, whatever failed, arrived late or ran beside it.                *)
EffectWasDispatched ==
    \A r \in Runs : doc["fixture"][r] # None /\ "effect" \in doc["fixture"][r].counts =>
        LET c == doc["fixture"][r].context  p == doc["producer"][r] IN
            /\ p # None
            /\ p.context = c
            /\ {"received", "intercepted", "dispatch"} \subseteq p.counts
            /\ c # None /\ verdict[c] = "allow"

(* What a producer's document says about itself: the phases come in their  *)
(* order and the decision is the policy's for the call that owns the run.  *)
ProducerInOrder ==
    \A r \in Runs : doc["producer"][r] # None =>
        LET p == doc["producer"][r] IN
            /\ "effect" \notin p.counts
            /\ "received" \in p.counts <=> p.context # None
            /\ "intercepted" \in p.counts <=> p.decision # None
            /\ "completed" \in p.counts <=> p.terminal # None
            /\ p.context = None => p = Registered
            /\ p.context # None => arg[p.context] # None /\ arg[p.context].run = r
                                   /\ pc[p.context] \notin {"idle", "asked"}
            /\ p.decision # None => verdict[p.context] = p.decision
            /\ "dispatch" \in p.counts => p.decision = "allow"
            /\ p.terminal = "denied" => "dispatch" \notin p.counts

(* What a call that got as far as p has recorded before. *)
CallsInOrder ==
    \A c \in Calls :
        /\ pc[c] # "idle" => arg[c] # None
        /\ pc[c] \in {"decided", "allowed", "denied"} => verdict[c] # None
        /\ pc[c] \in {"begun", "decided"} =>
               Own(c) # None /\ Own(c).context = c /\ "intercepted" \notin Own(c).counts
        /\ pc[c] \in {"dispatched", "waiting", "replied"} \/ c \in wire =>
               /\ pc[c] # "idle"
               /\ Own(c) # None /\ Own(c).context = c
               /\ {"received", "intercepted", "dispatch"} \subseteq Own(c).counts

FixtureInOrder ==
    \A r \in Runs :
        /\ doc["fixture"][r] # None /\ "effect" \notin doc["fixture"][r].counts =>
               doc["fixture"][r] = Registered
        /\ doc["fixture"][r] # None /\ "effect" \in doc["fixture"][r].counts =>
               doc["fixture"][r].terminal = "completed"
        /\ effects[r] = IF doc["fixture"][r] # None /\ "effect" \in doc["fixture"][r].counts
                        THEN 1 ELSE 0

CollectorInOrder ==
    /\ \A s \in Services, r \in Runs :
           /\ stage[r] # "new" => seen[s][r] # None
           /\ seen[s][r] # None => Advances(seen[s][r], doc[s][r])
    /\ checked # {} => \A r \in Runs : stage[r] = "done"
    /\ report = "pass" => \A r \in Runs : stage[r] # "new" /\ Passes(r)

(* A report that passed is true, and stays true whatever still runs: the   *)
(* policy really decided the run's variant for the call that owns it, the  *)
(* allowed run had its effect once and the denied run has none, ever.      *)
ReportIsTrue ==
    report = "pass" => \A r \in Runs :
        /\ doc["producer"][r] # None /\ doc["producer"][r].context # None
        /\ verdict[doc["producer"][r].context] = r
        /\ effects[r] = (IF r = "allow" THEN 1 ELSE 0)

(* The inductive invariant of the probe: each document, call and reading   *)
(* agrees with what was recorded before it.                                *)
IInv ==
    /\ TypeOK
    /\ ProducerInOrder
    /\ CallsInOrder
    /\ FixtureInOrder
    /\ CollectorInOrder
    /\ EffectWasDispatched
=============================================================================
