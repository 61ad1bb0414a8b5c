----------------------------- MODULE MCHosting ------------------------------
(***************************************************************************)
(* What comes up and is taken down: a hosted agent's bootstrap, the        *)
(* commands that create and route its version, and the canvas that shows   *)
(* the workspace it comes from.  They share no state, so a behaviour is    *)
(* one of any (the variable part says of which).                           *)
(***************************************************************************)
EXTENDS Bootstrap

CONSTANTS
    p1, p2, a, b, q1, q2, c1, c2, f1, f2,
    Commands, Attempts, MaxVersions, Opens, MaxEdits

ASSUME NoneIsNoAttempt == None \notin Attempts \cup Nat
ASSUME VersionsAssumption == MaxVersions \in Nat
ASSUME CanvasAssumption == MaxEdits \in Nat /\ Opens \subseteq Nat

VARIABLES part, pc, attempt, file, wire, latest, maker, route, snap, overlapped,
          edits, instances, opening, model, failed, server, watcher, event, timer, running

lifecycle == <<pc, attempt, file, wire, latest, maker, route, snap, overlapped>>
showing == <<edits, instances, opening, model, failed, server, watcher, event, timer, running>>

Lifecycle == INSTANCE Hosted
Canvases == INSTANCE Canvas WITH at <- opening

HostingInit == part \in {"bootstrap", "lifecycle", "canvas"} /\ Init /\ Lifecycle!Init /\ Canvases!Init

HostingNext ==
    \/ part = "bootstrap" /\ Next /\ UNCHANGED <<part, lifecycle, showing>>
    \/ part = "lifecycle" /\ Lifecycle!Next /\ UNCHANGED <<part, vars, showing>>
    \/ part = "canvas" /\ Canvases!Next /\ UNCHANGED <<part, vars, lifecycle>>

HostingSpec ==
    /\ HostingInit /\ [][HostingNext]_<<part, vars, lifecycle, showing>>
    /\ WF_vars(part = "bootstrap" /\ Gate)
    /\ \A o \in Opens :
            /\ WF_showing(part = "canvas" /\ Canvases!Schedule(o))
            /\ WF_showing(part = "canvas" /\ Canvases!Fire(o))
            /\ \A v \in Canvases!Versions : WF_showing(part = "canvas" /\ Canvases!Reads(o, v))

-----------------------------------------------------------------------------
(* One attempt file never makes two versions (Hosted). *)
CreatedOnce == Lifecycle!CreatedOnce

(* A route that was fixed is not taken over, by etag or by one writer at a *)
(* time (Hosted).                                                          *)
RouteFixedOnce == Lifecycle!RouteFixedOnce

(* An open canvas is served and watched (Canvas). *)
OpenIsServed == Canvases!OpenIsServed

(* What the watcher reports is shown (Canvas). *)
EditIsShown == part = "canvas" => Canvases!EditIsShown
=============================================================================
