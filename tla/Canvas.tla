------------------------------- MODULE Canvas -------------------------------
(***************************************************************************)
(* The lifecycle canvas of one instance id: open projects the workspace,   *)
(* serves the model and watches for changes; edits are debounced and       *)
(* projected again, by the watcher and by the refresh action; close takes  *)
(* it all down.  One thread, but every await lets the others in.           *)
(*                                                                         *)
(* canvas-provider.mjs, workspace-watcher.mjs, http-server.mjs (close).    *)
(***************************************************************************)
EXTENDS Naturals

CONSTANTS
    Opens,      \* calls of open, numbered as they come; each may make an instance
    MaxEdits,   \* bound: edits of the workspace
    None

VARIABLES
    edits,      \* the workspace: how often it was edited
    instances,  \* the open instance, or None
    at,         \* the next await of each open
    model,      \* what each instance shows: the edits it includes
    failed,     \* whether it shows a failed refresh
    server,     \* its loopback server
    watcher,    \* whether roots of the workspace are watched for it
    event,      \* an event is looked at
    timer,      \* the debounce timer runs
    running     \* projections under way: the edits they found, and for whom

view == <<model, failed>>
watch == <<watcher, event, timer, running>>
vars == <<edits, instances, at, view, server, watch>>

Versions == 0..MaxEdits

Init ==
    /\ edits = 0
    /\ instances = None
    /\ at = [o \in Opens |-> "idle"]
    /\ model = [o \in Opens |-> 0]
    /\ failed = [o \in Opens |-> FALSE]
    /\ server = [o \in Opens |-> "none"]
    /\ watcher = [o \in Opens |-> FALSE]
    /\ event = [o \in Opens |-> FALSE]
    /\ timer = [o \in Opens |-> FALSE]
    /\ running = [o \in Opens |-> {}]

Goes(o, label) == at' = [at EXCEPT ![o] = label]

-----------------------------------------------------------------------------
(* open: an instance that is there is reused.                              *)
Open(o) ==
    /\ at[o] = "idle" /\ \A q \in Opens : q < o => at[q] # "idle"
    /\ IF instances # None
       THEN Goes(o, "reused") /\ UNCHANGED model
       ELSE Goes(o, "projecting") /\ model' = [model EXCEPT ![o] = edits]
    /\ UNCHANGED <<edits, instances, failed, server, watch>>

Projected(o) ==
    /\ at[o] = "projecting"
    /\ \E v \in model[o]..edits : model' = [model EXCEPT ![o] = v]
    /\ Goes(o, "serving")
    /\ UNCHANGED <<edits, instances, failed, server, watch>>

Serve(o) ==
    /\ at[o] = "serving"
    /\ server' = [server EXCEPT ![o] = "up"]
    /\ Goes(o, "attaching")
    /\ UNCHANGED <<edits, instances, view, watch>>

(* attachRoots; events may come before it ends. *)
Attach(o) ==
    /\ at[o] = "attaching"
    /\ watcher' = [watcher EXCEPT ![o] = TRUE]
    /\ Goes(o, "watching")
    /\ UNCHANGED <<edits, instances, view, server, event, timer, running>>

Opened(o) ==
    /\ at[o] = "watching"
    /\ instances' = o
    /\ Goes(o, "opened")
    /\ UNCHANGED <<edits, view, server, watch>>

(* The projection or the server fails; or the watcher, whose server is     *)
(* closed and whose roots so far stay attached.                            *)
OpenFails(o) ==
    /\ at[o] \in {"projecting", "serving", "attaching", "watching"}
    /\ server' = [server EXCEPT ![o] = IF @ = "up" THEN "closing" ELSE @]
    /\ Goes(o, "failed")
    /\ UNCHANGED <<edits, instances, view, watch>>

-----------------------------------------------------------------------------
(* onClose: the instance is forgotten first, in the step that closes its   *)
(* watcher; its server takes a while.                                      *)
ForgetsLast(o) == UNCHANGED instances          \* bug: the instance stays registered
Forgets(o) == instances' = None

Close(o) ==
    /\ instances = o /\ server[o] = "up"
    /\ Forgets(o)
    /\ watcher' = [watcher EXCEPT ![o] = FALSE]
    /\ timer' = [timer EXCEPT ![o] = FALSE]
    /\ server' = [server EXCEPT ![o] = "closing"]
    /\ UNCHANGED <<edits, at, view, event, running>>

Closed(o) ==
    /\ server[o] = "closing"
    /\ server' = [server EXCEPT ![o] = "closed"]
    /\ UNCHANGED <<edits, instances, at, view, watch>>

-----------------------------------------------------------------------------
(* The workspace changes, and whoever watches has an event. *)
Edit ==
    /\ edits < MaxEdits
    /\ edits' = edits + 1
    /\ event' = [o \in Opens |-> event[o] \/ watcher[o]]
    /\ UNCHANGED <<instances, at, view, server, watcher, timer, running>>

(* schedule: an event restarts the timer, also one looked at when close    *)
(* came.                                                                   *)
IgnoresWhileRunning(o) == timer[o] \/ running[o] = {} \* bug: an event during a projection is lost
Restarts(o) == TRUE

Schedule(o) ==
    /\ event[o]
    /\ event' = [event EXCEPT ![o] = FALSE]
    /\ timer' = [timer EXCEPT ![o] = Restarts(o)]
    /\ UNCHANGED <<edits, instances, at, view, server, watcher, running>>

Starts(o, by) == running' = [running EXCEPT ![o] = @ \cup {[from |-> edits, by |-> by]}]

(* The timer: new roots are attached, then the workspace is projected. *)
Fire(o) ==
    /\ timer[o]
    /\ timer' = [timer EXCEPT ![o] = FALSE]
    /\ watcher' = [watcher EXCEPT ![o] = TRUE]
    /\ Starts(o, "watcher")
    /\ UNCHANGED <<edits, instances, at, view, server, event>>

Refresh(o) ==
    /\ instances = o
    /\ Starts(o, "refresh")
    /\ UNCHANGED <<edits, instances, at, view, server, watcher, event, timer>>

(* Another projection may have started on the same edits. *)
Ends(o, p) ==
    /\ p \in running[o]
    /\ running' = [running EXCEPT ![o] = @ \ {p}] \/ UNCHANGED running

(* A projection reads one file after the other: it includes at least the   *)
(* edits it found.                                                         *)
Shows(o, p) ==
    /\ Ends(o, p)
    /\ \E v \in p.from..edits : model' = [model EXCEPT ![o] = v]
    /\ failed' = [failed EXCEPT ![o] = FALSE]
    /\ UNCHANGED <<edits, instances, at, server, watcher, event, timer>>

(* A failed projection of the watcher is shown; the refresh action's is    *)
(* told its caller.                                                        *)
Fails(o, p) ==
    /\ Ends(o, p)
    /\ failed' = [failed EXCEPT ![o] = @ \/ p.by = "watcher"]
    /\ UNCHANGED <<edits, instances, at, model, server, watcher, event, timer>>

-----------------------------------------------------------------------------
Next ==
    \/ \E o \in Opens :
          \/ Open(o) \/ Projected(o) \/ Serve(o) \/ Attach(o) \/ Opened(o) \/ OpenFails(o)
          \/ Close(o) \/ Closed(o) \/ Schedule(o) \/ Fire(o) \/ Refresh(o)
          \/ \E p \in running[o] : Shows(o, p) \/ Fails(o, p)
    \/ Edit

Spec == Init /\ [][Next]_vars

Projections == [from : Versions, by : {"watcher", "refresh"}]

(* The event loop runs: handlers are resumed, timers fire, and what the    *)
(* watcher reads comes to an end; a refresh may hang.                      *)
Reads(o, v) == LET p == [from |-> v, by |-> "watcher"] IN Shows(o, p) \/ Fails(o, p)
LiveSpec ==
    /\ Spec
    /\ \A o \in Opens : WF_vars(Schedule(o)) /\ WF_vars(Fire(o))
    /\ \A o \in Opens, v \in Versions : WF_vars(Reads(o, v))

-----------------------------------------------------------------------------
TypeOK ==
    /\ edits \in Versions /\ instances \in Opens \cup {None}
    /\ at \in [Opens -> {"idle", "reused", "projecting", "serving", "attaching", "watching",
                         "opened", "failed"}]
    /\ model \in [Opens -> Versions] /\ failed \in [Opens -> BOOLEAN]
    /\ server \in [Opens -> {"none", "up", "closing", "closed"}]
    /\ watcher \in [Opens -> BOOLEAN] /\ event \in [Opens -> BOOLEAN] /\ timer \in [Opens -> BOOLEAN]
    /\ running \in [Opens -> SUBSET Projections]

(* What open hands out is served and watched, although opens overlap, a    *)
(* close is still waiting for its server, and timers outlive their canvas. *)
OpenIsServed == instances # None => server[instances] = "up" /\ watcher[instances]

(* An edit the watcher reports reaches the model, or the canvas says that  *)
(* it could not be read, unless it is closed first: events that come while *)
(* a timer or a projection is under way are not swallowed.                 *)
EditIsShown ==
    \A o \in Opens, v \in Versions \ {0} :
        event[o] /\ edits = v ~> (model[o] >= v \/ failed[o] \/ instances # o)
=============================================================================
