--------------------------- MODULE Release_proofs ---------------------------
(***************************************************************************)
(* Proofs about the release runner (Release): for any number of CI runs    *)
(* that share both targets, with commands that land late or never and an   *)
(* operator who reconciles at any time.  At the end, what tries a candidate *)
(* as a whole (MCStaging): this runner beside the probe (Probe_proofs).    *)
(***************************************************************************)
EXTENDS MCStaging, Probe_proofs

USE DEF Releases!vars, Releases!remote, Releases!files, Releases!ReadOnly, Releases!Actors,
        Releases!Goto

Candidate == {"idle", "prepare", "prepared", "evals", "redteam", "mcp", "final"}
Releasing == {"stop", "closed", "operation", "promote", "unmoved", "observe", "complete",
              "postcheck", "reobserve", "recheck", "admit", "readback", "done",
              "abort", "aborting", "aborted", "failed"}
Labels == Candidate \cup Releasing \cup {"validated", "reconcile", "reconciling", "reconciled"}
Message == [actor : Releases!Actors, does : {"prepare", "promote", "stop", "open"}, expected : Nat]

LEMMA Tables ==
    /\ Releases!Then["prepare"] = "prepared" /\ Releases!Then["prepared"] = "evals"
    /\ Releases!Then["evals"] = "redteam" /\ Releases!Then["redteam"] = "mcp"
    /\ Releases!Then["mcp"] = "final" /\ Releases!Then["final"] = "validated"
    /\ Releases!Then["stop"] = "closed" /\ Releases!Then["closed"] = "operation"
    /\ Releases!Then["promote"] = "unmoved" /\ Releases!Then["unmoved"] = "observe"
    /\ Releases!Then["observe"] = "complete" /\ Releases!Then["complete"] = "postcheck"
    /\ Releases!Then["postcheck"] = "reobserve" /\ Releases!Then["reobserve"] = "recheck"
    /\ Releases!Then["recheck"] = "admit" /\ Releases!Then["admit"] = "readback"
    /\ Releases!Then["readback"] = "done" /\ Releases!Then["abort"] = "aborting"
    /\ Releases!Then["aborting"] = "aborted" /\ Releases!Then["reconcile"] = "reconciling"
    /\ Releases!Then["reconciling"] = "reconciled"
BY DEF Releases!Then

LEMMA CommandsAre ==
    /\ DOMAIN Releases!Commands = {"prepare", "promote", "admit", "stop", "abort", "reconcile"}
    /\ Releases!Commands["prepare"] = "prepare" /\ Releases!Commands["promote"] = "promote"
    /\ Releases!Commands["admit"] = "open" /\ Releases!Commands["stop"] = "stop"
    /\ Releases!Commands["abort"] = "stop" /\ Releases!Commands["reconcile"] = "stop"
BY DEF Releases!Commands

LEMMA CollectingAre ==
    /\ Releases!Collecting["validation"] = {"evals", "redteam", "mcp", "final"}
    /\ Releases!Collecting["production"] = {"complete", "postcheck", "reobserve"}
BY DEF Releases!Collecting

ReleaseTypes ==
    /\ step \in [Releases!Actors -> Labels]
    /\ call \in [Releases!Actors -> Message \cup {None}]
    /\ line \subseteq Message
    /\ live \in [Releases!Targets -> CIRuns \cup {None}]
    /\ admission \in [state : {"open", "stopped"}, rev : Nat, by : Releases!Actors \cup {None}]
    /\ op \in [CIRuns -> {"absent", "prepared"}]
    /\ receipts \subseteq CIRuns /\ claimed \subseteq receipts
    /\ over \subseteq CIRuns /\ moved \subseteq CIRuns
    /\ promoted \in [CIRuns -> Nat]

(* Whoever waits, waits for the command of its step; and commands were     *)
(* written against a record that was there.                                *)
Waiting ==
    /\ \A a \in Releases!Actors : call[a] # None =>
        /\ call[a].actor = a
        /\ step[a] \in DOMAIN Releases!Commands
        /\ call[a].does = Releases!Commands[step[a]]
    /\ \A m \in line : m.expected <= admission.rev
    /\ \A m \in line : m.actor = Operator => m.does = "stop"
    /\ step[Operator] \in {"idle", "reconcile", "reconciling", "reconciled", "failed"}

Sent(r, m, does) == m \in line /\ m.actor = r /\ m.does = does

(* The files of a run tell how far it may be. *)
Phase(r) ==
    /\ r \notin receipts => step[r] \in Candidate \cup {"failed"}
    /\ r \in receipts \ claimed => step[r] = "validated"
    /\ r \in claimed => step[r] \in Releasing
    /\ r \in over => step[r] \in Releases!Ended

(* The candidate is deployed once, and then its request is gone. *)
Prepares(r) ==
    \A m \in line : Sent(r, m, "prepare") =>
        /\ r \notin receipts
        /\ step[r] \in {"prepare", "failed"}
        /\ step[r] = "prepare" => call[r] = m

(* A run is promoted once, and then its request is gone. *)
Unpromoted(r) ==
    \/ r \notin claimed
    \/ step[r] \in {"stop", "closed", "operation"}
    \/ step[r] = "promote" /\ call[r] = None

Promotes(r) ==
    /\ promoted[r] <= 1
    /\ op[r] = "prepared" => promoted[r] = 1
    /\ Unpromoted(r) => promoted[r] = 0 /\ \A m \in line : ~Sent(r, m, "promote")
    /\ \A m \in line : Sent(r, m, "promote") =>
        /\ promoted[r] = 0
        /\ step[r] \notin {"unmoved", "observe", "complete", "postcheck", "reobserve"}
        /\ step[r] = "promote" => call[r] = m
    /\ \A m, n \in line : Sent(r, m, "promote") /\ Sent(r, n, "promote") => m = n

(* A run whose target changed under its evidence gets no further than to   *)
(* its next observation.                                                   *)
Unmoved(r) ==
    r \in moved =>
        /\ step[r] \in {"evals", "redteam", "mcp", "final", "complete", "postcheck", "reobserve",
                        "failed", "abort", "aborting", "aborted"}
        /\ step[r] \in {"evals", "redteam", "mcp", "final"} => live["validation"] # r
        /\ step[r] \in {"complete", "postcheck", "reobserve"} => live["production"] # r

(* A run that opens admission, or asked for it, has collected everything.  *)
Opens(r) ==
    \/ \E m \in line : Sent(r, m, "open")
    \/ admission.state = "open" /\ admission.by = r
    => /\ r \in claimed /\ r \notin moved
       /\ step[r] \in {"admit", "readback", "done", "abort", "aborting", "aborted", "failed"}

(* A run is barred when no request of its own can open admission any more. *)
Barred(r) ==
    /\ ~(admission.state = "open" /\ admission.by = r)
    /\ \A m \in line : Sent(r, m, "open") => m.expected < admission.rev

Bars(r) ==
    \/ step[r] \in {"aborting", "aborted"}
    \/ step[Operator] \in {"reconciling", "reconciled"} /\ r \in over
    => Barred(r)

RunInv(r) == Phase(r) /\ Prepares(r) /\ Promotes(r) /\ Unmoved(r) /\ Opens(r) /\ Bars(r)

ReleaseInv ==
    /\ ReleaseTypes
    /\ Waiting
    /\ \A r \in CIRuns : RunInv(r)

LEMMA NoneIsNoMessage == None \notin Message
BY DistinctActors DEF Message

LEMMA ReleaseInit == Releases!Init => ReleaseInv
<1>. SUFFICES ASSUME Releases!Init PROVE ReleaseInv
  OBVIOUS
<1>. USE DistinctActors DEF Releases!Init
<1>1. ReleaseTypes
  BY DEF ReleaseTypes, Labels, Candidate, Releases!Targets
<1>2. Waiting
  BY DEF Waiting
<1>3. ASSUME NEW r \in CIRuns PROVE RunInv(r)
  BY DEF RunInv, Phase, Prepares, Promotes, Unpromoted, Unmoved, Opens, Bars, Barred, Candidate, Releases!Ended
<1>. QED  BY <1>1, <1>2, <1>3 DEF ReleaseInv

(* A step of one actor that sends nothing and changes no target, record or *)
(* gateway: where it may go from where.                                    *)
Edge(a, to) ==
    \/ step[a] = "idle" /\ to = "prepare" /\ a \in CIRuns
    \/ step[a] = "prepared" /\ to = "evals" /\ live["validation"] = a
    \/ step[a] = "evals" /\ to = "redteam"
    \/ step[a] = "redteam" /\ to = "mcp"
    \/ step[a] = "mcp" /\ to = "final"
    \/ step[a] = "closed" /\ to = "operation"
    \/ step[a] = "operation" /\ to = (IF op[a] = "absent" THEN "promote" ELSE "unmoved")
    \/ step[a] = "unmoved" /\ to = "observe"
    \/ step[a] = "observe" /\ to = "complete"
    \/ step[a] = "complete" /\ to = "postcheck"
    \/ step[a] = "postcheck" /\ to = "reobserve"
    \/ step[a] = "reobserve" /\ to = "recheck" /\ live["production"] = a
    \/ step[a] = "recheck" /\ to = "admit"
    \/ step[a] = "readback" /\ to = "done"
    \/ step[a] = "aborting" /\ to = "aborted"
    \/ step[a] = "reconciling" /\ to = "reconciled"
    \/ step[a] \notin Releases!Ended \cup {"idle", "validated", "reconciled"} /\ to = "failed"
    \/ step[a] \in Releases!Completion /\ to = "abort"

Steps(a, to) ==
    /\ step' = [step EXCEPT ![a] = to]
    /\ UNCHANGED <<line, live, admission, op, promoted, moved, claimed, over>>

LEMMA CallsOnlyWait ==
    ASSUME ReleaseInv, NEW a \in Releases!Actors, step[a] \notin DOMAIN Releases!Commands
    PROVE  call[a] = None
BY DEF ReleaseInv, Waiting

LEMMA EdgeStep ==
    ASSUME ReleaseInv, NEW a \in Releases!Actors, NEW to \in Labels, Edge(a, to), Steps(a, to),
           call' = [call EXCEPT ![a] = None], UNCHANGED receipts
    PROVE  ReleaseInv'
<1>. USE DistinctActors
<1>1. /\ ReleaseTypes /\ Waiting /\ \A r \in CIRuns : RunInv(r)
      /\ step'[a] = to /\ call'[a] = None
      /\ \A q \in Releases!Actors : q # a => step'[q] = step[q] /\ call'[q] = call[q]
  BY DEF ReleaseInv, ReleaseTypes, Steps
<1>2. ReleaseTypes'
  BY <1>1 DEF ReleaseTypes, Steps
<1>3. Waiting'
  <2>1. step[a] \in {"idle", "reconciling"} \/ to # "prepare"
    BY DEF Edge
  <2>2. step'[Operator] \in {"idle", "reconcile", "reconciling", "reconciled", "failed"}
    BY <1>1 DEF Waiting, Edge, Releases!Completion
  <2>. QED  BY <1>1, <2>2 DEF Waiting, Steps
<1>4. ASSUME NEW r \in CIRuns PROVE RunInv(r)'
  <2>0. RunInv(r)
    BY <1>1
  <2>1. CASE r # a
    <3>1. step'[r] = step[r] /\ call'[r] = call[r]
      BY <1>1, <2>1
    <3>2. step'[Operator] \in {"reconciling", "reconciled"} => step[Operator] \in {"reconciling", "reconciled"}
      BY <1>1 DEF Edge, Waiting, Releases!Completion
    <3>3. Phase(r)' /\ Prepares(r)' /\ Promotes(r)' /\ Unmoved(r)' /\ Opens(r)'
      BY <2>0, <3>1 DEF RunInv, Steps, Phase, Prepares, Promotes, Unpromoted, Unmoved, Opens, Sent
    <3>4. Bars(r)'
      BY <2>0, <3>1, <3>2 DEF RunInv, Steps, Bars, Barred, Sent
    <3>. QED  BY <3>3, <3>4 DEF RunInv
  <2>2. CASE r = a
    <3>1. Phase(r)'
      BY <1>1, <2>0, <2>2
      DEF RunInv, Steps, Phase, Edge, Candidate, Releasing, Releases!Ended, Releases!Completion
    <3>2. Prepares(r)'
      BY <1>1, <2>0, <2>2 DEF RunInv, Steps, Prepares, Edge, Sent, Releases!Completion
    <3>3. Promotes(r)'
      BY <1>1, <2>0, <2>2
      DEF RunInv, Steps, Phase, Promotes, Unpromoted, Edge, Sent, Candidate, Releases!Completion
    <3>4. Unmoved(r)'
      BY <1>1, <2>0, <2>2 DEF RunInv, Steps, Unmoved, Edge, Releases!Completion
    <3>5. Opens(r)'
      BY <1>1, <2>0, <2>2 DEF RunInv, Steps, Opens, Edge, Sent, Releases!Completion
    <3>6. step'[Operator] = step[Operator]
      BY <1>1, <2>2
    <3>7. Bars(r)'
      BY <1>1, <2>0, <2>2, <3>6 DEF RunInv, Steps, Bars, Barred, Edge, Sent, Releases!Completion
    <3>. QED  BY <3>1, <3>2, <3>3, <3>4, <3>5, <3>7 DEF RunInv
  <2>. QED  BY <2>1, <2>2
<1>. QED  BY <1>2, <1>3, <1>4 DEF ReleaseInv

LEMMA SilentStep ==
    ASSUME ReleaseInv, NEW a \in Releases!Actors, NEW to \in Labels, Edge(a, to), Steps(a, to),
           step[a] \notin DOMAIN Releases!Commands, UNCHANGED <<call, receipts>>
    PROVE  ReleaseInv'
<1>1. call[a] = None /\ call \in [Releases!Actors -> Message \cup {None}]
  BY CallsOnlyWait DEF ReleaseInv, ReleaseTypes
<1>2. call' = [call EXCEPT ![a] = None]
  BY <1>1
<1>. QED  BY <1>2, EdgeStep

LEMMA AdvanceStep ==
    ASSUME ReleaseInv, NEW a \in Releases!Actors, Releases!Advance(a),
           Edge(a, Releases!Then[step[a]]), Releases!Then[step[a]] \in Labels,
           step[a] \notin DOMAIN Releases!Commands,
           UNCHANGED <<call, line, live, admission, op, promoted, moved, receipts, claimed, over>>
    PROVE  ReleaseInv'
BY SilentStep DEF Releases!Advance, Steps

LEMMA ObserveStep ==
    ASSUME ReleaseInv, NEW r \in CIRuns, Releases!Observe(r), step[r] # "final"
    PROVE  ReleaseInv'
<1>1. UNCHANGED <<line, live, admission, op, promoted, moved, claimed, over, call, receipts>>
  BY DEF Releases!Observe
<1>2. Edge(r, Releases!Then[step[r]]) /\ Releases!Then[step[r]] \in Labels
  BY Tables DEF Releases!Observe, Releases!Observed, Edge, Labels, Candidate, Releasing
<1>3. step[r] \notin DOMAIN Releases!Commands
  BY CommandsAre DEF Releases!Observe
<1>4. Releases!Advance(r)
  BY DEF Releases!Observe
<1>. QED  BY <1>1, <1>2, <1>3, <1>4, AdvanceStep

LEMMA SilentSteps ==
    ASSUME ReleaseInv, NEW a \in Releases!Actors,
           \/ a \in CIRuns /\ (Releases!Begin(a) \/ Releases!Operation(a))
           \/ a \in CIRuns /\ (Releases!Collect(a) \/ Releases!Readback(a))
           \/ Releases!Closed(a)
    PROVE  ReleaseInv'
<1>1. CASE a \in CIRuns /\ (Releases!Begin(a) \/ Releases!Operation(a))
  BY <1>1, SilentStep, CommandsAre
  DEF Releases!Begin, Releases!Operation, Edge, Steps, Labels, Candidate, Releasing
<1>2. CASE Releases!Collect(a) \/ Releases!Readback(a) \/ Releases!Closed(a)
  <2>1. Edge(a, Releases!Then[step[a]]) /\ Releases!Then[step[a]] \in Labels
    BY <1>2, Tables DEF Releases!Collect, Releases!Readback, Releases!Closed, Releases!Closing,
                        Edge, Labels, Candidate, Releasing
  <2>2. step[a] \notin DOMAIN Releases!Commands
    BY <1>2, CommandsAre
    DEF Releases!Collect, Releases!Readback, Releases!Closed, Releases!Closing
  <2>3. /\ Releases!Advance(a)
        /\ UNCHANGED <<call, line, live, admission, op, promoted, moved, receipts, claimed, over>>
    BY <1>2 DEF Releases!Collect, Releases!Readback, Releases!Closed
  <2>. QED  BY <2>1, <2>2, <2>3, AdvanceStep
<1>. QED  BY <1>1, <1>2

LEMMA FailStep ==
    ASSUME ReleaseInv, NEW a \in Releases!Actors, Releases!Fail(a)
    PROVE  ReleaseInv'
BY EdgeStep DEF Releases!Fail, Edge, Steps, Labels, Releasing

(* The receipt of a run, and its promotion state file. *)
LEMMA FinalStep ==
    ASSUME ReleaseInv, NEW q \in CIRuns, Releases!Observe(q), step[q] = "final"
    PROVE  ReleaseInv'
<1>. USE DistinctActors
<1>1. /\ ReleaseTypes /\ Waiting /\ \A r \in CIRuns : RunInv(r)
      /\ step' = [step EXCEPT ![q] = "validated"] /\ receipts' = receipts \cup {q}
      /\ live["validation"] = q
      /\ UNCHANGED <<call, line, live, admission, op, promoted, moved, claimed, over>>
  BY Tables DEF ReleaseInv, Releases!Observe, Releases!Observed, Releases!Advance
<1>2. /\ step'[q] = "validated" /\ call[q] = None
      /\ \A r \in Releases!Actors : r # q => step'[r] = step[r]
  BY <1>1, CallsOnlyWait, CommandsAre DEF ReleaseTypes
<1>3. q \notin receipts /\ q \notin moved /\ q \notin over
  BY <1>1 DEF RunInv, Phase, Unmoved, Releasing, Releases!Ended
<1>4. ReleaseTypes' /\ Waiting'
  BY <1>1, <1>2 DEF ReleaseTypes, Waiting, Labels
<1>5. ASSUME NEW r \in CIRuns PROVE RunInv(r)'
  <2>0. RunInv(r)
    BY <1>1
  <2>1. CASE r # q
    <3>. step'[r] = step[r] /\ (r \in receipts' <=> r \in receipts) /\ step'[Operator] = step[Operator]
      BY <1>1, <1>2, <2>1
    <3>. QED  BY <1>1, <2>0, <2>1 DEF RunInv, Phase, Prepares, Promotes, Unpromoted, Unmoved, Opens, Bars, Barred, Sent
  <2>2. CASE r = q
    <3>. step'[Operator] = step[Operator]
      BY <1>2
    <3>. QED  BY <1>1, <1>2, <1>3, <2>0, <2>2
      DEF RunInv, Phase, Prepares, Promotes, Unpromoted, Unmoved, Opens, Bars, Barred, Sent, ReleaseTypes
  <2>. QED  BY <2>1, <2>2
<1>. QED  BY <1>4, <1>5 DEF ReleaseInv

LEMMA ClaimStep ==
    ASSUME ReleaseInv, NEW q \in CIRuns, Releases!Claim(q)
    PROVE  ReleaseInv'
<1>. USE DistinctActors
<1>1. /\ ReleaseTypes /\ Waiting /\ \A r \in CIRuns : RunInv(r)
      /\ step' = [step EXCEPT ![q] = "stop"] /\ claimed' = claimed \cup {q}
      /\ q \in receipts /\ q \notin claimed
      /\ UNCHANGED <<call, line, live, admission, op, promoted, moved, receipts, over>>
  BY DEF ReleaseInv, Releases!Claim, Releases!Claimable
<1>2. step[q] = "validated"
  BY <1>1 DEF RunInv, Phase
<1>3. /\ step'[q] = "stop" /\ call[q] = None
      /\ \A r \in Releases!Actors : r # q => step'[r] = step[r]
  BY <1>1, <1>2, CallsOnlyWait, CommandsAre DEF ReleaseTypes
<1>4. q \notin moved /\ q \notin over
  BY <1>1, <1>2 DEF RunInv, Phase, Unmoved, Releases!Ended
<1>5. ReleaseTypes' /\ Waiting'
  BY <1>1, <1>3 DEF ReleaseTypes, Waiting, Labels, Releasing
<1>6. ASSUME NEW r \in CIRuns PROVE RunInv(r)'
  <2>0. RunInv(r) /\ step'[Operator] = step[Operator]
    BY <1>1, <1>3
  <2>1. CASE r # q
    <3>. step'[r] = step[r] /\ (r \in claimed' <=> r \in claimed)
      BY <1>1, <1>3, <2>1
    <3>. QED  BY <1>1, <2>0, <2>1 DEF RunInv, Phase, Prepares, Promotes, Unpromoted, Unmoved, Opens, Bars, Barred, Sent
  <2>2. CASE r = q
    BY <1>1, <1>2, <1>3, <1>4, <2>0, <2>2
    DEF RunInv, Phase, Prepares, Promotes, Unpromoted, Unmoved, Opens, Bars, Barred, Sent, ReleaseTypes, Releasing
  <2>. QED  BY <2>1, <2>2
<1>. QED  BY <1>5, <1>6 DEF ReleaseInv

LEMMA ReconcileStep ==
    ASSUME ReleaseInv, Releases!Reconcile
    PROVE  ReleaseInv'
<1>. USE DistinctActors
<1>1. /\ ReleaseTypes /\ Waiting /\ \A r \in CIRuns : RunInv(r)
      /\ step[Operator] = "idle" /\ step' = [step EXCEPT ![Operator] = "reconcile"]
      /\ over' = {r \in CIRuns : step[r] \in Releases!Ended}
      /\ UNCHANGED <<call, line, live, admission, op, promoted, moved, receipts, claimed>>
  BY DEF ReleaseInv, Releases!Reconcile
<1>2. /\ step'[Operator] = "reconcile" /\ call[Operator] = None
      /\ \A r \in CIRuns : step'[r] = step[r]
  BY <1>1, CallsOnlyWait, CommandsAre DEF ReleaseTypes
<1>3. ReleaseTypes' /\ Waiting'
  BY <1>1, <1>2 DEF ReleaseTypes, Waiting, Labels
<1>4. ASSUME NEW r \in CIRuns PROVE RunInv(r)'
  BY <1>1, <1>2 DEF RunInv, Phase, Prepares, Promotes, Unpromoted, Unmoved, Opens, Bars, Barred, Sent
<1>. QED  BY <1>3, <1>4 DEF ReleaseInv

(* A command leaves: the only step that adds to the line. *)
LEMMA ExecuteStep ==
    ASSUME ReleaseInv, NEW a \in Releases!Actors, Releases!Execute(a)
    PROVE  ReleaseInv'
<1>. USE DistinctActors
<1>. DEFINE m == [actor |-> a, does |-> Releases!Commands[step[a]], expected |-> admission.rev]
<1>1. /\ ReleaseTypes /\ Waiting /\ \A r \in CIRuns : RunInv(r)
      /\ step[a] \in {"prepare", "promote", "admit", "stop", "abort", "reconcile"} /\ call[a] = None
      /\ call' = [call EXCEPT ![a] = m] /\ line' = line \cup {call'[a]}
      /\ UNCHANGED <<step, live, admission, op, promoted, moved, receipts, claimed, over>>
  BY CommandsAre DEF ReleaseInv, Releases!Execute
<1>2. /\ m.actor = a /\ m.expected = admission.rev
      /\ m.does = Releases!Commands[step[a]]
      /\ m.does = "prepare" <=> step[a] = "prepare"
      /\ m.does = "promote" <=> step[a] = "promote"
      /\ m.does = "open" <=> step[a] = "admit"
      /\ a = Operator => m.does = "stop"
      /\ m \in Message
  <2>1. m.does \in {"prepare", "promote", "stop", "open"} /\ admission.rev \in Nat
    BY <1>1, CommandsAre DEF ReleaseTypes
  <2>2. m \in Message
    BY <2>1 DEF Message
  <2>. QED  BY <1>1, <2>2, CommandsAre DEF Waiting
<1>. HIDE DEF m
<1>3. /\ call'[a] = m /\ line' = line \cup {m}
      /\ \A r \in Releases!Actors : r # a => call'[r] = call[r]
      /\ None \notin Message
  BY <1>1, NoneIsNoMessage DEF ReleaseTypes
<1>4. ReleaseTypes'
  BY <1>1, <1>2, <1>3 DEF ReleaseTypes
<1>5. Waiting'
  BY <1>1, <1>2, <1>3, CommandsAre DEF Waiting, ReleaseTypes
<1>6. ASSUME NEW r \in CIRuns PROVE RunInv(r)'
  <2>0. RunInv(r) /\ line \subseteq Message
    BY <1>1 DEF ReleaseTypes
  <2>1. CASE r # a
    <3>1. call'[r] = call[r] /\ \A n \in line', d \in {"prepare", "promote", "open"} :
              Sent(r, n, d)' => Sent(r, n, d)
      BY <1>2, <1>3, <2>1 DEF Sent
    <3>. QED  BY <1>1, <1>3, <2>0, <3>1
      DEF RunInv, Phase, Prepares, Promotes, Unpromoted, Unmoved, Opens, Bars, Barred, Sent
  <2>2. CASE r = a
    <3>1. Phase(r)' /\ Unmoved(r)'
      BY <1>1, <2>0 DEF RunInv, Phase, Unmoved
    <3>2. Prepares(r)'
      BY <1>1, <1>2, <1>3, <2>0, <2>2 DEF RunInv, Phase, Prepares, Sent, Releasing, ReleaseTypes
    <3>3. Promotes(r)'
      BY <1>1, <1>2, <1>3, <2>0, <2>2
      DEF RunInv, Phase, Promotes, Unpromoted, Sent, Candidate, ReleaseTypes
    <3>4. Opens(r)'
      BY <1>1, <1>2, <1>3, <2>0, <2>2 DEF RunInv, Phase, Opens, Unmoved, Sent, Candidate
    <3>5. Bars(r)'
      <4>1. ~Bars(r)!1
        BY <1>1, <2>0, <2>2 DEF RunInv, Phase, Releases!Ended
      <4>. QED  BY <1>1, <4>1 DEF Bars
    <3>. QED  BY <3>1, <3>2, <3>3, <3>4, <3>5 DEF RunInv
  <2>. QED  BY <2>1, <2>2
<1>. QED  BY <1>4, <1>5, <1>6 DEF ReleaseInv

(* A command on the line that leaves it: what its answer does to the step  *)
(* and the wait of its actor.                                              *)
LEMMA AnswerIs ==
    ASSUME ReleaseInv, NEW m \in line, NEW label \in Labels, Releases!Answer(m, label)
    PROVE  /\ m \in Message /\ m.actor \in Releases!Actors /\ m # None
           /\ \A a \in Releases!Actors : a # m.actor => step'[a] = step[a] /\ call'[a] = call[a]
           /\ \/ call[m.actor] = m /\ step'[m.actor] = label /\ call'[m.actor] = None
              \/ call[m.actor] # m /\ step'[m.actor] = step[m.actor] /\ call'[m.actor] = call[m.actor]
           /\ step' \in [Releases!Actors -> Labels]
           /\ call' \in [Releases!Actors -> Message \cup {None}]
<1>1. /\ m \in Message /\ m.actor \in Releases!Actors
      /\ step \in [Releases!Actors -> Labels] /\ call \in [Releases!Actors -> Message \cup {None}]
  BY DEF ReleaseInv, ReleaseTypes, Message
<1>2. m # None
  BY <1>1, NoneIsNoMessage
<1>3. CASE call[m.actor] = m
  BY <1>1, <1>2, <1>3 DEF Releases!Answer
<1>4. CASE call[m.actor] # m
  BY <1>1, <1>2, <1>4 DEF Releases!Answer
<1>. QED  BY <1>3, <1>4

(* The candidate, deployed. *)
LEMMA PrepareLands ==
    ASSUME ReleaseInv, NEW m \in line, Releases!Deploy(m), m.does = "prepare"
    PROVE  ReleaseInv'
<1>. USE DistinctActors
<1>. DEFINE q == m.actor
<1>1. /\ ReleaseTypes /\ Waiting /\ \A r \in CIRuns : RunInv(r)
      /\ line' = line \ {m} /\ live' = [live EXCEPT !["validation"] = q]
      /\ moved' = moved \cup {r \in CIRuns : step[r] \in {"evals", "redteam", "mcp", "final"}
                                           /\ live["validation"] = r}
      /\ Releases!Answer(m, "prepared")
      /\ UNCHANGED <<op, promoted, admission, receipts, claimed, over>>
  BY Tables, CollectingAre DEF ReleaseInv, Releases!Deploy
<1>2. /\ m \in Message /\ q \in CIRuns
      /\ \A a \in Releases!Actors : a # q => step'[a] = step[a] /\ call'[a] = call[a]
      /\ \/ call[q] = m /\ step'[q] = "prepared" /\ call'[q] = None
         \/ call[q] # m /\ step'[q] = step[q] /\ call'[q] = call[q]
      /\ step' \in [Releases!Actors -> Labels] /\ call' \in [Releases!Actors -> Message \cup {None}]
      /\ step'[Operator] = step[Operator]
  <2>1. "prepared" \in Labels
    BY DEF Labels, Candidate
  <2>2. q # Operator
    BY <1>1 DEF Waiting
  <2>. QED  BY <1>1, <2>1, <2>2, AnswerIs
<1>3. /\ q \notin receipts /\ step[q] \in {"prepare", "failed"}
      /\ step[q] = "prepare" => call[q] = m
      /\ call[q] = m => step[q] = "prepare"
  BY <1>1, <1>2, CommandsAre, NoneIsNoMessage DEF RunInv, Prepares, Sent, Waiting
<1>. HIDE DEF q
<1>4. /\ live'["validation"] = q /\ live'["production"] = live["production"]
      /\ live' \in [Releases!Targets -> CIRuns \cup {None}]
  BY <1>1, <1>2 DEF ReleaseTypes, Releases!Targets
<1>5. ReleaseTypes'
  BY <1>1, <1>2, <1>4 DEF ReleaseTypes
<1>6. Waiting'
  BY <1>1, <1>2, <1>3, CommandsAre DEF Waiting
<1>7. ASSUME NEW r \in CIRuns PROVE RunInv(r)'
  <2>0. RunInv(r) /\ line' \subseteq line
    BY <1>1
  <2>1. CASE r # q
    <3>1. step'[r] = step[r] /\ call'[r] = call[r]
      BY <1>2, <2>1
    <3>2. r \in moved' => \/ r \in moved
                          \/ step[r] \in {"evals", "redteam", "mcp", "final"}
      BY <1>1
    <3>3. Phase(r)' /\ Prepares(r)' /\ Promotes(r)' /\ Bars(r)'
      BY <1>1, <1>2, <2>0, <3>1
      DEF RunInv, Phase, Prepares, Promotes, Unpromoted, Bars, Barred, Sent
    <3>4. Unmoved(r)'
      BY <1>4, <2>0, <2>1, <3>1, <3>2 DEF RunInv, Unmoved
    <3>5. Opens(r)'
      BY <1>1, <2>0, <3>1, <3>2 DEF RunInv, Opens, Sent
    <3>. QED  BY <3>3, <3>4, <3>5 DEF RunInv
  <2>2. CASE r = q
    <3>1. r \in moved' => r \in moved
      BY <1>1, <1>3, <2>2
    <3>2. r \notin claimed
      BY <1>1, <1>3, <2>2 DEF ReleaseTypes
    <3>3. Phase(r)' /\ Promotes(r)' /\ Bars(r)'
      BY <1>1, <1>2, <1>3, <2>0, <2>2, <3>2
      DEF RunInv, Phase, Promotes, Unpromoted, Bars, Barred, Sent, Candidate, Releases!Ended
    <3>4. Prepares(r)'
      BY <1>1, <1>2, <1>3, <2>0, <2>2 DEF RunInv, Prepares, Sent
    <3>5. Unmoved(r)'
      BY <1>2, <1>3, <2>0, <2>2, <3>1 DEF RunInv, Unmoved
    <3>6. Opens(r)'
      BY <1>1, <2>0, <3>2 DEF RunInv, Opens, Sent
    <3>. QED  BY <3>3, <3>4, <3>5, <3>6 DEF RunInv
  <2>. QED  BY <2>1, <2>2
<1>. QED  BY <1>5, <1>6, <1>7 DEF ReleaseInv

(* The promotion, executed. *)
LEMMA PromoteLands ==
    ASSUME ReleaseInv, NEW m \in line, Releases!Deploy(m), m.does = "promote"
    PROVE  ReleaseInv'
<1>. USE DistinctActors
<1>. DEFINE q == m.actor
<1>1. /\ ReleaseTypes /\ Waiting /\ \A r \in CIRuns : RunInv(r)
      /\ line' = line \ {m} /\ live' = [live EXCEPT !["production"] = q]
      /\ moved' = moved \cup {r \in CIRuns : step[r] \in {"complete", "postcheck", "reobserve"}
                                           /\ live["production"] = r}
      /\ op' = [op EXCEPT ![q] = "prepared"] /\ promoted' = [promoted EXCEPT ![q] = promoted[q] + 1]
      /\ Releases!Answer(m, "unmoved")
      /\ UNCHANGED <<admission, receipts, claimed, over>>
  BY Tables, CollectingAre DEF ReleaseInv, Releases!Deploy
<1>2. /\ m \in Message /\ q \in CIRuns
      /\ \A a \in Releases!Actors : a # q => step'[a] = step[a] /\ call'[a] = call[a]
      /\ \/ call[q] = m /\ step'[q] = "unmoved" /\ call'[q] = None
         \/ call[q] # m /\ step'[q] = step[q] /\ call'[q] = call[q]
      /\ step' \in [Releases!Actors -> Labels] /\ call' \in [Releases!Actors -> Message \cup {None}]
      /\ step'[Operator] = step[Operator]
  <2>1. "unmoved" \in Labels
    BY DEF Labels, Releasing
  <2>2. q # Operator
    BY <1>1 DEF Waiting
  <2>. QED  BY <1>1, <2>1, <2>2, AnswerIs
<1>3. /\ q \in claimed /\ promoted[q] = 0
      /\ step[q] \notin {"stop", "closed", "operation", "unmoved", "observe", "complete",
                        "postcheck", "reobserve"}
      /\ step[q] = "promote" => call[q] = m
      /\ call[q] = m => step[q] = "promote"
      /\ \A n \in line : Sent(q, n, "promote") => n = m
  <2>1. Sent(q, m, "promote") /\ RunInv(q)
    BY <1>1, <1>2 DEF Sent
  <2>2. ~Unpromoted(q)
    BY <2>1 DEF RunInv, Promotes
  <2>3. call[q] = m => step[q] = "promote"
    BY <1>1, <1>2, CommandsAre, NoneIsNoMessage DEF Waiting
  <2>. QED  BY <2>1, <2>2, <2>3 DEF RunInv, Promotes, Unpromoted
<1>. HIDE DEF q
<1>4. /\ live'["production"] = q /\ live'["validation"] = live["validation"]
      /\ live' \in [Releases!Targets -> CIRuns \cup {None}]
      /\ op'[q] = "prepared" /\ promoted'[q] = 1
      /\ op' \in [CIRuns -> {"absent", "prepared"}] /\ promoted' \in [CIRuns -> Nat]
      /\ \A r \in CIRuns : r # q => op'[r] = op[r] /\ promoted'[r] = promoted[r]
  BY <1>1, <1>2, <1>3 DEF ReleaseTypes, Releases!Targets
<1>5. ReleaseTypes'
  BY <1>1, <1>2, <1>4 DEF ReleaseTypes
<1>6. Waiting'
  BY <1>1, <1>2, <1>3, CommandsAre DEF Waiting
<1>7. ASSUME NEW r \in CIRuns PROVE RunInv(r)'
  <2>0. RunInv(r) /\ line' \subseteq line
    BY <1>1
  <2>1. CASE r # q
    <3>1. step'[r] = step[r] /\ call'[r] = call[r]
      BY <1>2, <2>1
    <3>2. r \in moved' => \/ r \in moved
                          \/ step[r] \in {"complete", "postcheck", "reobserve"}
      BY <1>1
    <3>3. Phase(r)' /\ Prepares(r)' /\ Promotes(r)' /\ Bars(r)'
      BY <1>1, <1>2, <1>4, <2>0, <2>1, <3>1
      DEF RunInv, Phase, Prepares, Promotes, Unpromoted, Bars, Barred, Sent
    <3>4. Unmoved(r)'
      BY <1>4, <2>0, <2>1, <3>1, <3>2 DEF RunInv, Unmoved
    <3>5. Opens(r)'
      BY <1>1, <2>0, <3>1, <3>2 DEF RunInv, Opens, Sent
    <3>. QED  BY <3>3, <3>4, <3>5 DEF RunInv
  <2>2. CASE r = q
    <3>1. r \in moved' => r \in moved
      BY <1>1, <1>3, <2>2
    <3>2. \A n \in line' : ~Sent(r, n, "promote")'
      BY <1>1, <1>3, <2>2 DEF Sent
    <3>3. Phase(r)' /\ Prepares(r)' /\ Bars(r)'
      BY <1>1, <1>2, <1>3, <2>0, <2>2
      DEF RunInv, Phase, Prepares, Bars, Barred, Sent, Releasing, Releases!Ended, ReleaseTypes
    <3>4. ~Unpromoted(r)'
      BY <1>1, <1>2, <1>3, <2>2 DEF Unpromoted
    <3>5. Promotes(r)'
      BY <1>4, <2>2, <3>2, <3>4 DEF Promotes, Sent
    <3>6. Unmoved(r)'
      BY <1>2, <1>3, <1>4, <2>0, <2>2, <3>1 DEF RunInv, Unmoved
    <3>7. Opens(r)'
      BY <1>1, <1>2, <1>3, <2>0, <2>2, <3>1 DEF RunInv, Opens, Sent
    <3>. QED  BY <3>3, <3>5, <3>6, <3>7 DEF RunInv
  <2>. QED  BY <2>1, <2>2
<1>. QED  BY <1>5, <1>6, <1>7 DEF ReleaseInv

(* Admission, written or refused. *)
LEMMA AdmissionLands ==
    ASSUME ReleaseInv, NEW m \in line, Releases!Admission(m)
    PROVE  ReleaseInv'
<1>. USE DistinctActors
<1>. DEFINE q == m.actor
            label == IF m.expected = admission.rev THEN Releases!Then[step[q]]
                     ELSE IF m.does = "open" THEN "abort" ELSE "failed"
<1>1. /\ ReleaseTypes /\ Waiting /\ \A r \in CIRuns : RunInv(r)
      /\ m.does \in {"stop", "open"} /\ line' = line \ {m}
      /\ Releases!Answer(m, label)
      /\ \/ /\ m.expected = admission.rev
            /\ admission' = [state |-> IF m.does = "open" THEN "open" ELSE "stopped",
                             rev |-> admission.rev + 1, by |-> q]
         \/ m.expected # admission.rev /\ admission' = admission
      /\ UNCHANGED <<live, op, promoted, moved, receipts, claimed, over>>
  BY DEF ReleaseInv, Releases!Admission, Releases!Agrees
<1>2. /\ m \in Message /\ q \in Releases!Actors /\ m # None
      /\ q = Operator => m.does = "stop"
      /\ m.expected \in Nat /\ m.expected <= admission.rev
      /\ admission.rev \in Nat /\ admission.state \in {"open", "stopped"}
  BY <1>1 DEF ReleaseTypes, Waiting, Message
<1>3. call[q] = m =>
        \/ step[q] \in {"stop", "abort", "reconcile"} /\ m.does = "stop"
        \/ step[q] = "admit" /\ m.does = "open"
  BY <1>1, <1>2, CommandsAre DEF Waiting
<1>4. call[q] = m =>
        /\ label \in Labels
        /\ \/ label = "failed"
           \/ label = "abort" /\ step[q] = "admit"
           \/ m.expected = admission.rev /\ \/ step[q] = "admit" /\ label = "readback"
                                            \/ step[q] = "stop" /\ label = "closed"
                                            \/ step[q] = "abort" /\ label = "aborting"
                                            \/ step[q] = "reconcile" /\ label = "reconciling"
  <2>0. /\ step[q] = "stop" => Releases!Then[step[q]] = "closed"
        /\ step[q] = "abort" => Releases!Then[step[q]] = "aborting"
        /\ step[q] = "reconcile" => Releases!Then[step[q]] = "reconciling"
        /\ step[q] = "admit" => Releases!Then[step[q]] = "readback"
    BY Tables
  <2>1. CASE m.expected = admission.rev
    <3>1. label = Releases!Then[step[q]]
      BY <2>1
    <3>. HIDE DEF label
    <3>2. ASSUME call[q] = m
          PROVE  \/ step[q] = "admit" /\ label = "readback"
                 \/ step[q] = "stop" /\ label = "closed"
                 \/ step[q] = "abort" /\ label = "aborting"
                 \/ step[q] = "reconcile" /\ label = "reconciling"
      BY <1>3, <2>0, <3>1, <3>2
    <3>. QED  BY <2>1, <3>2 DEF Labels, Releasing
  <2>2. CASE m.expected # admission.rev
    <3>1. label = IF m.does = "open" THEN "abort" ELSE "failed"
      BY <2>2
    <3>. HIDE DEF label
    <3>. QED  BY <1>3, <3>1 DEF Labels, Releasing
  <2>. QED  BY <2>1, <2>2
<1>. HIDE DEF label
<1>5. /\ \A a \in Releases!Actors : a # q => step'[a] = step[a] /\ call'[a] = call[a]
      /\ \/ call[q] = m /\ step'[q] = label /\ call'[q] = None
         \/ call[q] # m /\ step'[q] = step[q] /\ call'[q] = call[q]
      /\ step' \in [Releases!Actors -> Labels] /\ call' \in [Releases!Actors -> Message \cup {None}]
  <2>1. CASE call[q] = m
    BY <1>1, <1>4, <2>1, AnswerIs
  <2>2. CASE call[q] # m
    BY <1>1, <1>2, <2>2 DEF Releases!Answer, ReleaseTypes
  <2>. QED  BY <2>1, <2>2
<1>6. /\ admission' \in [state : {"open", "stopped"}, rev : Nat, by : Releases!Actors \cup {None}]
      /\ admission'.rev \in Nat /\ admission.rev <= admission'.rev
      /\ \/ /\ m.expected = admission.rev /\ admission'.rev = admission.rev + 1
            /\ admission'.by = q
            /\ admission'.state = "open" => m.does = "open"
         \/ m.expected # admission.rev /\ admission' = admission
  BY <1>1, <1>2 DEF ReleaseTypes
<1>7. ReleaseTypes'
  BY <1>1, <1>5, <1>6 DEF ReleaseTypes
<1>8. Waiting'
  <2>1. \A n \in line' : n.expected <= admission'.rev
    BY <1>1, <1>6 DEF Waiting, ReleaseTypes, Message
  <2>2. \A a \in Releases!Actors : call'[a] # None =>
          call'[a].actor = a /\ step'[a] \in DOMAIN Releases!Commands /\ call'[a].does = Releases!Commands[step'[a]]
    BY <1>1, <1>5 DEF Waiting
  <2>3. step'[Operator] \in {"idle", "reconcile", "reconciling", "reconciled", "failed"}
    BY <1>1, <1>2, <1>3, <1>4, <1>5 DEF Waiting
  <2>. QED  BY <1>1, <2>1, <2>2, <2>3 DEF Waiting
(* Whoever now has stopped it made every open on the line stale. *)
<1>9. ASSUME NEW r \in CIRuns,
             \/ Barred(r)
             \/ m.expected = admission.rev /\ m.does = "stop"
      PROVE  Barred(r)'
  <2>1. ~(admission'.state = "open" /\ admission'.by = r)
    BY <1>1, <1>2, <1>6, <1>9 DEF Barred, Sent
  <2>2. ASSUME NEW n \in line', Sent(r, n, "open")' PROVE n.expected < admission'.rev
    <3>1. n \in line /\ Sent(r, n, "open") /\ n.expected \in Nat /\ n.expected <= admission.rev
      BY <1>1, <2>2 DEF Sent, Waiting, ReleaseTypes, Message
    <3>. QED  BY <1>2, <1>6, <1>9, <3>1 DEF Barred
  <2>. QED  BY <2>1, <2>2 DEF Barred
<1>10. ASSUME NEW r \in CIRuns PROVE RunInv(r)'
  <2>0. RunInv(r) /\ line' \subseteq line
    BY <1>1
  <2>1. \/ step'[r] = step[r] /\ call'[r] = call[r]
        \/ r = q /\ call[r] = m /\ step'[r] = label /\ call'[r] = None
    <3>1. CASE r = q
      BY <1>5, <3>1
    <3>2. CASE r # q
      BY <1>5, <3>2
    <3>. QED  BY <3>1, <3>2
  <2>2. Phase(r)' /\ Prepares(r)' /\ Unmoved(r)'
    <3>1. CASE step'[r] = step[r] /\ call'[r] = call[r]
      BY <1>1, <2>0, <3>1 DEF RunInv, Phase, Prepares, Unmoved, Sent
    <3>2. CASE r = q /\ call[r] = m /\ step'[r] = label /\ call'[r] = None
      BY <1>1, <1>3, <1>4, <2>0, <3>2
      DEF RunInv, Phase, Prepares, Unmoved, Sent, Candidate, Releasing, Releases!Ended
    <3>. QED  BY <2>1, <3>1, <3>2
  <2>3. Promotes(r)'
    <3>1. CASE step'[r] = step[r] /\ call'[r] = call[r]
      BY <1>1, <2>0, <3>1 DEF RunInv, Promotes, Unpromoted, Sent
    <3>2. CASE r = q /\ call[r] = m /\ step'[r] = label /\ call'[r] = None
      BY <1>1, <1>3, <1>4, <2>0, <3>2 DEF RunInv, Promotes, Unpromoted, Sent
    <3>. QED  BY <2>1, <3>1, <3>2
  <2>4. Opens(r)'
    <3>1. Opens(r)!1' => Opens(r)!1
      BY <1>1, <1>6 DEF Sent
    <3>2. Opens(r)!1 => step'[r] \in {"admit", "readback", "done", "abort", "aborting", "aborted", "failed"}
      BY <1>3, <1>4, <2>0, <2>1 DEF RunInv, Opens
    <3>. QED  BY <1>1, <2>0, <3>1, <3>2 DEF RunInv, Opens
  <2>5. Bars(r)'
    <3>1. Bars(r)!1' =>
            \/ Bars(r)!1
            \/ m.expected = admission.rev /\ m.does = "stop"
      <4>1. step'[r] \in {"aborting", "aborted"} =>
              \/ step[r] \in {"aborting", "aborted"}
              \/ m.expected = admission.rev /\ m.does = "stop"
        BY <1>3, <1>4, <2>1
      <4>2. step'[Operator] \in {"reconciling", "reconciled"} =>
              \/ step[Operator] \in {"reconciling", "reconciled"}
              \/ m.expected = admission.rev /\ m.does = "stop"
        <5>1. CASE q = Operator
          <6>1. CASE call[q] = m /\ step'[q] = label
            BY <1>3, <1>4, <5>1, <6>1
          <6>2. CASE step'[q] = step[q]
            BY <5>1, <6>2
          <6>. QED  BY <1>5, <6>1, <6>2
        <5>2. CASE q # Operator
          BY <1>5, <5>2
        <5>. QED  BY <5>1, <5>2
      <4>. QED  BY <1>1, <4>1, <4>2
    <3>. QED  BY <1>9, <2>0, <3>1 DEF RunInv, Bars
  <2>. QED  BY <2>2, <2>3, <2>4, <2>5 DEF RunInv
<1>. QED  BY <1>7, <1>8, <1>10 DEF ReleaseInv

-----------------------------------------------------------------------------
LEMMA ReleaseStutters ==
    ASSUME ReleaseInv, UNCHANGED Releases!vars
    PROVE  ReleaseInv'
<1>. /\ UNCHANGED <<step, call, line, live, admission, op, promoted, moved, receipts, claimed, over>>
     /\ ReleaseTypes /\ Waiting /\ \A r \in CIRuns : RunInv(r)
  BY DEF ReleaseInv
<1>1. ReleaseTypes' /\ Waiting'
  BY DEF ReleaseTypes, Waiting
<1>2. ASSUME NEW r \in CIRuns PROVE RunInv(r)'
  BY DEF RunInv, Phase, Prepares, Promotes, Unpromoted, Unmoved, Opens, Bars, Barred, Sent
<1>. QED  BY <1>1, <1>2 DEF ReleaseInv

(* No step of a run, of the operator or of a command landing late disturbs *)
(* the invariant (release_runner.py).                                      *)
THEOREM ReleaseStep == ReleaseInv /\ [Releases!Next]_Releases!vars => ReleaseInv'
<1>. SUFFICES ASSUME ReleaseInv, [Releases!Next]_Releases!vars PROVE ReleaseInv'
  OBVIOUS
<1>1. ASSUME NEW r \in CIRuns, Releases!Run(r) PROVE ReleaseInv'
  <2>. r \in Releases!Actors
    OBVIOUS
  <2>1. CASE Releases!Observe(r)
    BY <2>1, ObserveStep, FinalStep
  <2>2. CASE Releases!Claim(r)
    BY <2>2, ClaimStep
  <2>. QED  BY <1>1, <2>1, <2>2, SilentSteps DEF Releases!Run
<1>2. ASSUME NEW a \in Releases!Actors,
             Releases!Execute(a) \/ Releases!Closed(a) \/ Releases!Fail(a)
      PROVE  ReleaseInv'
  BY <1>2, ExecuteStep, SilentSteps, FailStep
<1>3. ASSUME NEW m \in line, Releases!Deploy(m) \/ Releases!Admission(m) PROVE ReleaseInv'
  <2>1. CASE Releases!Deploy(m)
    BY <2>1, PrepareLands, PromoteLands DEF Releases!Deploy
  <2>2. CASE Releases!Admission(m)
    BY <2>2, AdmissionLands
  <2>. QED  BY <1>3, <2>1, <2>2
<1>. QED  BY <1>1, <1>2, <1>3, ReconcileStep, ReleaseStutters DEF Releases!Next

(* The invariant holds in every state of the release runner. *)
THEOREM ReleaseInvariant == Releases!Spec => []ReleaseInv
<1>. QED  BY ReleaseInit, ReleaseStep, PTL DEF Releases!Spec

(* Every variable keeps its type, and whoever waits for a command waits    *)
(* for the one its step sends (release_runner.py).                         *)
THEOREM ReleaseTypeOK == Releases!Spec => []Releases!TypeOK
<1>1. ASSUME ReleaseInv PROVE Releases!TypeOK
  <2>0. ReleaseTypes /\ Waiting
    BY <1>1 DEF ReleaseInv
  <2>1. Labels \subseteq DOMAIN Releases!Then
            \cup Releases!Ended \cup {"idle", "operation", "validated", "reconciled"}
    BY DEF Labels, Candidate, Releasing, Releases!Then, Releases!Ended
  <2>2. step \in [Releases!Actors -> DOMAIN Releases!Then
            \cup Releases!Ended \cup {"idle", "operation", "validated", "reconciled"}]
    BY <2>0, <2>1 DEF ReleaseTypes
  <2>3. \A a \in Releases!Actors : call[a] # None =>
            call[a].actor = a /\ call[a].does = Releases!Commands[step[a]]
    BY <2>0 DEF Waiting
  <2>. QED  BY <2>0, <2>2, <2>3 DEF ReleaseTypes, Message, Releases!TypeOK
<1>. QED  BY <1>1, ReleaseInvariant, PTL

(* A run is promoted at most once, for any number of runs, however late    *)
(* its promotion lands (returns_release.py, the durable operation record). *)
THEOREM ReleasePromotedOnce == Releases!Spec => []PromotedOnce
<1>1. ReleaseInv => PromotedOnce
  BY DEF ReleaseInv, RunInv, Promotes, PromotedOnce, Releases!PromotedOnce
<1>. QED  BY <1>1, ReleaseInvariant, PTL

(* The evidence of a run that got its receipt, or opened admission, is of  *)
(* one deployment: no other run was deployed meanwhile (release_runner.py, *)
(* the observation before and after).                                      *)
THEOREM ReleaseEvidenceIsOfOneDeployment == Releases!Spec => []EvidenceIsOfOneDeployment
<1>1. ASSUME ReleaseInv PROVE EvidenceIsOfOneDeployment
  <2>1. ReleaseTypes /\ Waiting /\ \A r \in CIRuns : RunInv(r)
    BY <1>1 DEF ReleaseInv
  <2>2. ASSUME NEW r \in receipts, r \in moved PROVE r \in claimed
    BY <2>1, <2>2 DEF RunInv, Phase, Unmoved, ReleaseTypes
  <2>3. admission.state = "open" => admission.by \notin moved
    BY <2>1 DEF RunInv, Opens, ReleaseTypes
  <2>. QED  BY <2>2, <2>3 DEF EvidenceIsOfOneDeployment, Releases!EvidenceIsOfOneDeployment
<1>. QED  BY <1>1, ReleaseInvariant, PTL

(* A run that reported admission stopped, and every run that had ended     *)
(* before a reconciliation, opens it no more (release_runner.py, the abort *)
(* and the reconcile command; returns_gateway_operator.py).                *)
THEOREM ReleaseStoppedStaysStopped == Releases!Spec => []StoppedStaysStopped
<1>1. ASSUME ReleaseInv PROVE StoppedStaysStopped
  <2>1. ReleaseTypes /\ Waiting /\ \A r \in CIRuns : RunInv(r)
    BY <1>1 DEF ReleaseInv
  <2>2. CASE admission.by \in CIRuns
    BY <2>1, <2>2 DEF RunInv, Bars, Barred, StoppedStaysStopped, Releases!StoppedStaysStopped
  <2>3. CASE admission.by = Operator
    BY <2>1, <2>3, DistinctActors DEF Waiting, ReleaseTypes, StoppedStaysStopped, Releases!StoppedStaysStopped
  <2>4. CASE admission.by = None
    BY <2>4 DEF StoppedStaysStopped, Releases!StoppedStaysStopped
  <2>. QED  BY <2>1, <2>2, <2>3, <2>4 DEF ReleaseTypes
<1>. QED  BY <1>1, ReleaseInvariant, PTL

-----------------------------------------------------------------------------
(* The release runner implements Promotion.                                *)

(* Where a run may be only if its promotion was executed. *)
AfterPromotion == {"unmoved", "observe", "complete", "postcheck", "reobserve", "recheck", "admit",
                   "readback", "done", "abort", "aborting", "aborted"}
MayServe(r) ==
    \/ step[r] \in AfterPromotion
    \/ \E m \in line : Sent(r, m, "open")
    \/ admission.state = "open" /\ admission.by = r
PromotedInv == \A r \in CIRuns : MayServe(r) => promoted[r] = 1

LEMMA PromotionsAreKept ==
    ASSUME ReleaseInv, [Releases!Next]_Releases!vars, NEW r \in CIRuns
    PROVE  promoted[r] = 1 => promoted'[r] = 1
<1>1. /\ promoted \in [CIRuns -> Nat] /\ promoted' \in [CIRuns -> Nat]
      /\ promoted'[r] <= 1
  BY ReleaseStep DEF ReleaseInv, ReleaseTypes, RunInv, Promotes
<1>2. promoted' = promoted \/ \E a : promoted' = [promoted EXCEPT ![a] = @ + 1]
  <2>1. ASSUME NEW q \in CIRuns, Releases!Run(q) PROVE promoted' = promoted
    BY <2>1 DEF Releases!Run, Releases!Begin, Releases!Observe, Releases!Collect, Releases!Claim,
                Releases!Operation, Releases!Readback
  <2>2. ASSUME NEW a \in Releases!Actors,
               Releases!Execute(a) \/ Releases!Closed(a) \/ Releases!Fail(a)
        PROVE  promoted' = promoted
    BY <2>2 DEF Releases!Execute, Releases!Closed, Releases!Fail
  <2>3. ASSUME NEW m \in line, Releases!Deploy(m) \/ Releases!Admission(m)
        PROVE  promoted' = promoted \/ \E a : promoted' = [promoted EXCEPT ![a] = @ + 1]
    BY <2>3 DEF Releases!Deploy, Releases!Admission
  <2>. QED  BY <2>1, <2>2, <2>3 DEF Releases!Next, Releases!Reconcile
<1>. QED  BY <1>1, <1>2

(* A run gets where it may serve only from there, or by its promotion.     *)
LEMMA MayServeSteps ==
    ASSUME ReleaseInv, [Releases!Next]_Releases!vars, NEW r \in CIRuns, MayServe(r)'
    PROVE  MayServe(r) \/ op[r] = "prepared" \/ promoted'[r] = 1
<1>0. /\ ReleaseTypes /\ Waiting /\ RunInv(r) /\ ReleaseTypes' /\ RunInv(r)'
      /\ r \in Releases!Actors
  BY ReleaseStep DEF ReleaseInv
<1>. USE DEF MayServe, AfterPromotion
<1>1. ASSUME NEW a \in Releases!Actors, NEW label, Releases!Goto(a, label),
             UNCHANGED <<line, admission>>,
             a = r /\ label \in AfterPromotion => step[r] \in AfterPromotion \/ op[r] = "prepared"
      PROVE  MayServe(r) \/ op[r] = "prepared"
  BY <1>0, <1>1 DEF ReleaseTypes, Sent
<1>2. ASSUME NEW q \in CIRuns, Releases!Run(q) PROVE MayServe(r) \/ op[r] = "prepared"
  <2>1. CASE Releases!Begin(q) \/ Releases!Claim(q)
    BY <1>0, <1>1, <2>1 DEF Releases!Begin, Releases!Claim
  <2>2. CASE Releases!Observe(q)
    BY <1>0, <1>1, <2>2, Tables DEF Releases!Observe, Releases!Advance
  <2>3. CASE Releases!Collect(q)
    BY <1>0, <1>1, <2>3, Tables DEF Releases!Collect, Releases!Advance
  <2>4. CASE Releases!Operation(q)
    BY <1>0, <1>1, <2>4 DEF Releases!Operation, ReleaseTypes
  <2>5. CASE Releases!Readback(q)
    BY <1>0, <1>1, <2>5, Tables DEF Releases!Readback, Releases!Advance
  <2>. QED  BY <1>2, <2>1, <2>2, <2>3, <2>4, <2>5 DEF Releases!Run
<1>3. ASSUME NEW a \in Releases!Actors, Releases!Closed(a) PROVE MayServe(r) \/ op[r] = "prepared"
  <2>1. /\ step[a] \in Releases!Closing /\ Releases!Goto(a, Releases!Then[step[a]])
        /\ UNCHANGED <<line, admission>>
    BY <1>3 DEF Releases!Closed, Releases!Advance
  <2>2. Releases!Then[step[a]] \in AfterPromotion => step[a] \in AfterPromotion
    BY <2>1, Tables DEF Releases!Closing
  <2>. HIDE DEF Releases!Goto
  <2>. QED  BY <1>1, <2>1, <2>2
<1>4. ASSUME NEW a \in Releases!Actors, Releases!Fail(a) PROVE MayServe(r) \/ op[r] = "prepared"
  BY <1>0, <1>1, <1>4 DEF Releases!Fail, Releases!Completion
<1>5. CASE Releases!Reconcile
  <2>1. r # Operator
    BY DistinctActors
  <2>. QED  BY <1>0, <1>1, <1>5, <2>1 DEF Releases!Reconcile
<1>6. ASSUME NEW a \in Releases!Actors, Releases!Execute(a) PROVE MayServe(r)
  <2>1. /\ line' = line \cup {[actor |-> a, does |-> Releases!Commands[step[a]],
                                expected |-> admission.rev]}
        /\ step[a] \in DOMAIN Releases!Commands /\ UNCHANGED <<step, admission>>
    BY <1>0, <1>6 DEF Releases!Execute, ReleaseTypes
  <2>2. Releases!Commands[step[a]] = "open" => step[a] = "admit"
    BY <2>1, CommandsAre
  <2>. QED  BY <2>1, <2>2 DEF Sent
<1>7. ASSUME NEW m \in line, Releases!Deploy(m)
      PROVE  MayServe(r) \/ promoted'[r] = 1
  <2>1. line' \subseteq line /\ UNCHANGED admission
    BY <1>7 DEF Releases!Deploy
  <2>2. CASE step'[r] = step[r]
    BY <2>1, <2>2 DEF Sent
  <2>3. CASE step'[r] # step[r]
    <3>1. m.actor = r /\ step' = [step EXCEPT ![r] = Releases!Then[m.does]]
      BY <1>0, <1>7, <2>3 DEF Releases!Deploy, Releases!Answer, ReleaseTypes
    <3>2. CASE m.does = "prepare"
      BY <1>0, <2>1, <3>1, <3>2, Tables DEF ReleaseTypes, Sent
    <3>3. CASE m.does = "promote"
      <4>1. promoted' = [promoted EXCEPT ![r] = @ + 1] /\ promoted[r] = 0
        BY <1>0, <1>7, <3>1, <3>3 DEF Releases!Deploy, RunInv, Promotes, Sent
      <4>. QED  BY <1>0, <4>1 DEF ReleaseTypes
    <3>. QED  BY <1>7, <3>2, <3>3 DEF Releases!Deploy
  <2>. QED  BY <2>2, <2>3
<1>8. ASSUME NEW m \in line, Releases!Admission(m) PROVE MayServe(r)
  <2>1. m \in Message /\ line' \subseteq line
    BY <1>0, <1>8 DEF Releases!Admission, ReleaseTypes
  <2>2. admission'.state = "open" /\ admission'.by = r =>
            \/ admission.state = "open" /\ admission.by = r
            \/ Sent(r, m, "open")
    BY <1>8 DEF Releases!Admission, Sent
  <2>3. step'[r] \in AfterPromotion => step[r] \in AfterPromotion
    <3>1. CASE step'[r] = step[r]
      BY <3>1
    <3>2. CASE step'[r] # step[r]
      <4>1. /\ m.actor = r /\ call[r] = m
            /\ step'[r] = IF Releases!Agrees(m) THEN Releases!Then[step[r]]
                          ELSE IF m.does = "open" THEN "abort" ELSE "failed"
        BY <1>0, <1>8, <3>2 DEF Releases!Admission, Releases!Answer, ReleaseTypes
      <4>2. step[r] \in DOMAIN Releases!Commands /\ m.does = Releases!Commands[step[r]]
        BY <1>0, <2>1, <4>1, NoneIsNoMessage DEF Waiting
      <4>3. m.does \in {"stop", "open"}
        BY <1>8 DEF Releases!Admission
      <4>. QED  BY <4>1, <4>2, <4>3, Tables, CommandsAre
    <3>. QED  BY <3>1, <3>2
  <2>. QED  BY <2>1, <2>2, <2>3 DEF Sent
<1>9. CASE UNCHANGED Releases!vars
  BY <1>9 DEF Sent
<1>. QED
  BY <1>2, <1>3, <1>4, <1>5, <1>6, <1>7, <1>8, <1>9 DEF Releases!Next

LEMMA PromotedStep ==
    ReleaseInv /\ PromotedInv /\ [Releases!Next]_Releases!vars => PromotedInv'
<1>. SUFFICES ASSUME ReleaseInv, PromotedInv, [Releases!Next]_Releases!vars,
                     NEW r \in CIRuns, MayServe(r)'
              PROVE  promoted'[r] = 1
  BY DEF PromotedInv
<1>1. op[r] = "prepared" => promoted[r] = 1
  BY DEF ReleaseInv, RunInv, Promotes
<1>. QED  BY <1>1, MayServeSteps, PromotionsAreKept DEF PromotedInv

Rungs == [r \in CIRuns |-> IF r \in claimed THEN 2 + promoted[r] ELSE IF r \in receipts THEN 1 ELSE 0]
Admitted == {r \in CIRuns : admission.state = "open" /\ admission.by = r}

LEMMA RungsAre ==
    ReleaseInv => \A r \in CIRuns :
        /\ promoted[r] \in {0, 1}
        /\ r \notin claimed => promoted[r] = 0
        /\ r \in claimed => r \in receipts
<1>. SUFFICES ASSUME ReleaseInv, NEW r \in CIRuns
              PROVE  /\ promoted[r] \in {0, 1}
                     /\ r \notin claimed => promoted[r] = 0
                     /\ r \in claimed => r \in receipts
  OBVIOUS
<1>. QED  BY DEF ReleaseInv, ReleaseTypes, RunInv, Promotes, Unpromoted

(* A step takes one candidate one rung up, or opens or stops admission.    *)
LEMMA RungSteps ==
    ASSUME ReleaseInv, [Releases!Next]_Releases!vars
    PROVE  \/ UNCHANGED <<receipts, claimed, promoted, admission>>
           \/ /\ UNCHANGED <<claimed, promoted, admission>>
              /\ \E r \in CIRuns : r \notin receipts /\ receipts' = receipts \cup {r}
           \/ /\ UNCHANGED <<receipts, promoted, admission>>
              /\ \E r \in receipts \ claimed : claimed' = claimed \cup {r}
           \/ /\ UNCHANGED <<receipts, claimed, admission>>
              /\ \E r \in claimed : promoted[r] = 0 /\ promoted' = [promoted EXCEPT ![r] = 1]
           \/ /\ UNCHANGED <<receipts, claimed, promoted>>
              /\ \/ admission'.state = "stopped"
                 \/ admission'.state = "open" /\ admission'.by \in CIRuns
<1>0. ReleaseTypes /\ Waiting /\ \A r \in CIRuns : RunInv(r)
  BY DEF ReleaseInv
<1>1. ASSUME NEW r \in CIRuns, Releases!Observe(r)
      PROVE  /\ UNCHANGED <<claimed, promoted, admission>>
             /\ \/ receipts' = receipts
                \/ r \notin receipts /\ receipts' = receipts \cup {r}
  <2>1. UNCHANGED <<claimed, promoted, admission>>
    BY <1>1 DEF Releases!Observe
  <2>2. receipts' = receipts \/ receipts' = receipts \cup {r}
    BY <1>1 DEF Releases!Observe
  <2>3. r \in receipts => receipts \cup {r} = receipts
    OBVIOUS
  <2>. QED  BY <2>1, <2>2, <2>3
<1>2. ASSUME NEW r \in CIRuns, Releases!Claim(r)
      PROVE  /\ UNCHANGED <<receipts, promoted, admission>>
             /\ r \in receipts \ claimed /\ claimed' = claimed \cup {r}
  BY <1>2 DEF Releases!Claim, Releases!Claimable
<1>3. ASSUME NEW m \in line, Releases!Deploy(m)
      PROVE  /\ UNCHANGED <<receipts, claimed, admission>>
             /\ \/ UNCHANGED promoted
                \/ \E r \in claimed : promoted[r] = 0 /\ promoted' = [promoted EXCEPT ![r] = 1]
  <2>1. CASE m.does = "prepare"
    BY <1>3, <2>1 DEF Releases!Deploy
  <2>2. CASE m.does = "promote"
    <3>1. m \in Message /\ m.actor \in CIRuns
      BY <1>0, <2>2 DEF Waiting, ReleaseTypes, Message
    <3>2. m.actor \in claimed /\ promoted[m.actor] = 0
      BY <1>0, <2>2, <3>1 DEF RunInv, Promotes, Unpromoted, Sent
    <3>3. promoted' = [promoted EXCEPT ![m.actor] = @ + 1]
      BY <1>3, <2>2 DEF Releases!Deploy
    <3>4. promoted' = [promoted EXCEPT ![m.actor] = 1]
      BY <1>0, <3>1, <3>2, <3>3 DEF ReleaseTypes
    <3>. QED  BY <1>3, <3>2, <3>4 DEF Releases!Deploy
  <2>. QED  BY <1>3, <2>1, <2>2 DEF Releases!Deploy
<1>4. ASSUME NEW m \in line, Releases!Admission(m)
      PROVE  /\ UNCHANGED <<receipts, claimed, promoted>>
             /\ \/ UNCHANGED admission
                \/ admission'.state = "stopped"
                \/ admission'.state = "open" /\ admission'.by \in CIRuns
  <2>1. m.does = "open" => m.actor \in CIRuns
    BY <1>0 DEF Waiting, ReleaseTypes, Message
  <2>. QED  BY <1>4, <2>1 DEF Releases!Admission
<1>5. ASSUME NEW r \in CIRuns,
             \/ Releases!Begin(r) \/ Releases!Collect(r) \/ Releases!Operation(r)
             \/ Releases!Readback(r)
      PROVE  UNCHANGED <<receipts, claimed, promoted, admission>>
  BY <1>5 DEF Releases!Begin, Releases!Collect, Releases!Operation, Releases!Readback
<1>6. ASSUME NEW a \in Releases!Actors,
             Releases!Execute(a) \/ Releases!Closed(a) \/ Releases!Fail(a)
      PROVE  UNCHANGED <<receipts, claimed, promoted, admission>>
  BY <1>6 DEF Releases!Execute, Releases!Closed, Releases!Fail
<1>7. Releases!Reconcile => UNCHANGED <<receipts, claimed, promoted, admission>>
  BY DEF Releases!Reconcile
<1>. QED
  BY <1>1, <1>2, <1>3, <1>4, <1>5, <1>6, <1>7 DEF Releases!Next, Releases!Run

LEMMA LadderStep ==
    ASSUME ReleaseInv, PromotedInv, [Releases!Next]_Releases!vars
    PROVE  [Releases!Ladder!Next]_<<Rungs, Admitted>>
<1>. DEFINE Climbs(r) == Rungs[r] < 3 /\ Rungs' = [Rungs EXCEPT ![r] = @ + 1] /\ UNCHANGED Admitted
<1>0. /\ ReleaseInv' /\ PromotedInv'
      /\ receipts \subseteq CIRuns /\ claimed \subseteq receipts
  BY ReleaseStep, PromotedStep DEF ReleaseInv, ReleaseTypes
<1>1. \A r \in CIRuns : /\ promoted[r] \in {0, 1}
                        /\ r \notin claimed => promoted[r] = 0
                        /\ r \in claimed => r \in receipts
  BY RungsAre
<1>2. ASSUME NEW r \in CIRuns, Climbs(r) PROVE Releases!Ladder!Next
  BY <1>2 DEF Releases!Ladder!Next, Releases!Ladder!Climb, Releases!Ladder!Promoted, Rungs, Admitted
<1>3. CASE UNCHANGED <<receipts, claimed, promoted, admission>>
  BY <1>3 DEF Rungs, Admitted
<1>4. ASSUME UNCHANGED <<claimed, promoted, admission>>,
             NEW r \in CIRuns, r \notin receipts, receipts' = receipts \cup {r}
      PROVE  Climbs(r)
  <2>1. Rungs[r] = 0 /\ UNCHANGED Admitted
    BY <1>0, <1>1, <1>4 DEF Rungs, Admitted
  <2>2. Rungs' = [Rungs EXCEPT ![r] = 1]
    BY <1>0, <1>1, <1>4 DEF Rungs
  <2>. QED  BY <2>1, <2>2
<1>5. ASSUME UNCHANGED <<receipts, promoted, admission>>,
             NEW r \in receipts \ claimed, claimed' = claimed \cup {r}
      PROVE  Climbs(r)
  BY <1>0, <1>1, <1>5 DEF Rungs, Admitted
<1>6. ASSUME UNCHANGED <<receipts, claimed, admission>>,
             NEW r \in claimed, promoted[r] = 0, promoted' = [promoted EXCEPT ![r] = 1]
      PROVE  Climbs(r)
  <2>1. promoted \in [CIRuns -> Nat]
    BY DEF ReleaseInv, ReleaseTypes
  <2>. QED  BY <1>0, <1>1, <1>6, <2>1 DEF Rungs, Admitted
<1>7. ASSUME UNCHANGED <<receipts, claimed, promoted>>, admission'.state = "stopped"
      PROVE  Releases!Ladder!Next
  BY <1>7 DEF Rungs, Admitted, Releases!Ladder!Next, Releases!Ladder!Stop
<1>8. ASSUME UNCHANGED <<receipts, claimed, promoted>>,
             admission'.state = "open", admission'.by \in CIRuns
      PROVE  Releases!Ladder!Next
  <2>. DEFINE r == admission'.by
  <2>1. Admitted' = {r} /\ UNCHANGED Rungs
    BY <1>8 DEF Admitted, Rungs
  <2>2. promoted[r] = 1
    BY <1>0, <1>8 DEF PromotedInv, MayServe
  <2>3. Rungs[r] = 3
    BY <1>1, <1>8, <2>2 DEF Rungs
  <2>. QED
    BY <1>8, <2>1, <2>3
    DEF Releases!Ladder!Next, Releases!Ladder!Open, Releases!Ladder!Promoted, Rungs, Admitted
<1>. HIDE DEF Climbs
<1>. QED  BY <1>0, <1>2, <1>3, <1>4, <1>5, <1>6, <1>7, <1>8, RungSteps

(* Whatever lands late, is repeated by hand or races another run, every    *)
(* candidate is received, claimed and promoted once and in this order, and *)
(* admission is opened only for one that was promoted (release_runner.py). *)
THEOREM ReleaseImplementsPromotion == Releases!Spec => ImplementsPromotion
<1>1. Releases!Init => PromotedInv /\ Releases!Ladder!Init
  BY DistinctActors
  DEF Releases!Init, PromotedInv, MayServe, AfterPromotion, Releases!Ladder!Init
<1>2. ReleaseInv /\ PromotedInv /\ [Releases!Next]_Releases!vars
        => PromotedInv' /\ [Releases!Ladder!Next]_<<Rungs, Admitted>>
  BY PromotedStep, LadderStep
<1>. QED
  BY <1>1, <1>2, ReleaseInvariant, PTL
  DEF Releases!Spec, ImplementsPromotion, Releases!ImplementsPromotion, Releases!Ladder!Spec,
      Rungs, Admitted

(* Admission is open only for a run that was promoted, in every state of   *)
(* any number of runs (release_runner.py; returns_gateway_operator.py).    *)
THEOREM ReleaseOnlyPromotedServes == Releases!Spec => []Releases!Ladder!OnlyPromotedServes
<1>1. Releases!Init => PromotedInv
  BY DistinctActors DEF Releases!Init, PromotedInv, MayServe, AfterPromotion
<1>2. ReleaseInv /\ PromotedInv => Releases!Ladder!OnlyPromotedServes
  <2>. SUFFICES ASSUME ReleaseInv, PromotedInv, NEW r \in Admitted PROVE Rungs[r] = 3
    BY DEF Releases!Ladder!OnlyPromotedServes, Releases!Ladder!Promoted, Rungs, Admitted
  <2>1. r \in CIRuns /\ promoted[r] = 1
    BY DEF Admitted, PromotedInv, MayServe
  <2>. QED  BY <2>1, RungsAre DEF Rungs
<1>. QED  BY <1>1, <1>2, PromotedStep, ReleaseInvariant, PTL DEF Releases!Spec

-----------------------------------------------------------------------------
(* What tries a candidate is the probe and the release runner, whichever   *)
(* of the two moves: neither reads or writes what is the other's.          *)
THEOREM StagingIsBoth == StagingSpec => Spec /\ Releases!Spec
<1>1. StagingInit => Init /\ Releases!Init
  BY DEF StagingInit
<1>2. [StagingNext]_<<part, vars, releasing>> => [Next]_vars /\ [Releases!Next]_Releases!vars
  BY DEF StagingNext, releasing
<1>. QED  BY <1>1, <1>2, PTL DEF StagingSpec, Spec, Releases!Spec

(* Everything the run on MCStaging checks, for any number of calls, runs   *)
(* and late commands (probes.py and the release scripts).                  *)
THEOREM StagingIsCorrect ==
    StagingSpec =>
        /\ [](/\ EffectWasDispatched /\ ReportIsTrue
              /\ EvidenceIsOfOneDeployment /\ StoppedStaysStopped)
        /\ ImplementsPromotion
<1>. QED
  BY StagingIsBoth, ProbeEffectWasDispatched, ProbeReportIsTrue, ReleaseEvidenceIsOfOneDeployment,
     ReleaseStoppedStaysStopped, ReleaseImplementsPromotion, PTL
=============================================================================
