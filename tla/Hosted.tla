------------------------------- MODULE Hosted -------------------------------
(***************************************************************************)
(* The hosted agent's lifecycle commands.  An attempt file holds the       *)
(* intent to create one immutable agent version and then the version; the  *)
(* endpoint is routed to that version under the etag it was read with, or  *)
(* under no condition where the service gives the endpoint no etag: then   *)
(* the operator has to let its writers run one at a time.  Commands crash  *)
(* anywhere and are started again, several run at once, and a request of a *)
(* dead command may still be served.                                       *)
(*                                                                         *)
(* hosted_lifecycle.py; the agent service is external.                     *)
(***************************************************************************)
EXTENDS Naturals

CONSTANTS
    Commands,       \* shells that run the command line tool, one command after the other
    Attempts,       \* attempt files
    MaxVersions,    \* bound: versions the service makes
    None

VARIABLES
    pc,         \* where each command stands
    attempt,    \* the attempt file each command was given
    file,       \* attempt file -> None, Creating or the version created
    wire,       \* requests on their way to the agent service
    latest,     \* the service's latest version
    maker,      \* version -> the attempt it was created for
    route,      \* the endpoint's route and its etag, None for a service that gives none
    snap,       \* the endpoint each command read first
    overlapped  \* history: without an etag, a writer was started before another had ended

service == <<wire, latest, maker, route>>
vars == <<pc, attempt, file, service, snap, overlapped>>

Versions == 1..MaxVersions
Creating == 0                          \* an attempt that names no version yet
Latest == 0                            \* a route to whatever version is latest
Etags == Nat \cup {None}
Route == [to : Versions \cup {Latest}, etag : Etags]

Init ==
    /\ pc = [c \in Commands |-> "idle"]
    /\ attempt = [c \in Commands |-> None]
    /\ file = [f \in Attempts |-> None]
    /\ wire = {}
    /\ latest = 0
    /\ maker = [v \in Versions |-> None]
    /\ \E etag \in {0, None} : route = [to |-> Latest, etag |-> etag]
    /\ snap = [c \in Commands |-> None]
    /\ overlapped = FALSE

To(c, label) == pc' = [pc EXCEPT ![c] = label]
State(c) == file[attempt[c]]

(* A command that may still write the endpoint, and a write on its way.    *)
Writing == \/ \E c \in Commands : pc[c] \in {"configure", "reread", "routed"}
           \/ \E m \in wire : m.does = "route"

-----------------------------------------------------------------------------
(* Whoever ran a command runs the next. *)
Start(c) ==
    /\ pc[c] \in {"idle", "failed", "done"}
    /\ \E f \in Attempts : attempt' = [attempt EXCEPT ![c] = f]
    /\ \/ To(c, "create") /\ UNCHANGED overlapped
       \/ To(c, "configure") /\ overlapped' = (overlapped \/ (route.etag = None /\ Writing))
    /\ UNCHANGED <<file, service, snap>>

(* creation_state: a file that does not name its version is an ambiguous   *)
(* create and ends the command.                                            *)
CreationState(c) ==
    /\ pc[c] = "create"
    /\ To(c, CASE State(c) = None -> "intend"
               [] State(c) = Creating -> "failed"
               [] OTHER -> "done")
    /\ UNCHANGED <<attempt, file, service, snap, overlapped>>

(* The intent is durable before the request leaves; the file is created    *)
(* exclusively.                                                            *)
Overwrites(c) == TRUE                          \* bug: the intent overwrites another
Exclusive(c) == State(c) = None

Persist(c) ==
    /\ pc[c] = "intend"
    /\ IF Exclusive(c)
       THEN file' = [file EXCEPT ![attempt[c]] = Creating] /\ To(c, "send")
       ELSE To(c, "failed") /\ UNCHANGED file
    /\ UNCHANGED <<attempt, service, snap, overlapped>>

Send(c) ==
    /\ pc[c] = "send"
    /\ wire' = wire \cup {[does |-> "create", by |-> c, attempt |-> attempt[c], etag |-> 0, to |-> 0]}
    /\ To(c, "created")
    /\ UNCHANGED <<attempt, file, latest, maker, route, snap, overlapped>>

(* The acknowledgement names the version, and replaces the intent. *)
Record(c) ==
    /\ pc[c] = "created"
    /\ \E v \in Versions :
           /\ maker[v] = attempt[c]
           /\ file' = [file EXCEPT ![attempt[c]] = v]
    /\ To(c, "done")
    /\ UNCHANGED <<attempt, service, snap, overlapped>>

-----------------------------------------------------------------------------
(* _endpoint_snapshot: the version is the attempt's own and the latest,    *)
(* and the endpoint leads to it or to the latest.                          *)
Snapshot(c) ==
    /\ State(c) \in Versions
    /\ maker[State(c)] = attempt[c]
    /\ latest = State(c)
    /\ route.to \in {State(c), Latest}

ReadEndpoint(c) ==
    /\ pc[c] = "configure"
    /\ Snapshot(c)
    /\ snap' = [snap EXCEPT ![c] = route]
    /\ To(c, "reread")
    /\ UNCHANGED <<attempt, file, service, overlapped>>

(* The If-Match of a write is the etag that was read, and there is none    *)
(* where there was no etag to read.                                        *)
NoIfMatch(etag) == None                        \* bug: the etag that was read is not sent
IfMatch(etag) == etag

(* Both snapshots agree; what is configured already is left alone. *)
RereadEndpoint(c) ==
    /\ pc[c] = "reread"
    /\ Snapshot(c)
    /\ snap[c] = route
    /\ IF route.to = State(c)
       THEN To(c, "done") /\ UNCHANGED wire
       ELSE /\ wire' = wire \cup {[does |-> "route", by |-> c, attempt |-> attempt[c],
                                   etag |-> IfMatch(route.etag), to |-> State(c)]}
            /\ To(c, "routed")
    /\ UNCHANGED <<attempt, file, latest, maker, route, snap, overlapped>>

(* The result is read back, not taken from the acknowledgement. *)
Observe(c) ==
    /\ pc[c] = "routed"
    /\ Snapshot(c)
    /\ route.to = State(c)
    /\ To(c, "done")
    /\ UNCHANGED <<attempt, file, service, snap, overlapped>>

(* A refusal, a lost answer or a crash. *)
Fail(c) ==
    /\ pc[c] \notin {"idle", "failed", "done"}
    /\ To(c, "failed")
    /\ UNCHANGED <<attempt, file, service, snap, overlapped>>

-----------------------------------------------------------------------------
(* The agent service, as the tool relies on it. *)

Create(m) ==
    /\ m.does = "create"
    /\ latest < MaxVersions
    /\ wire' = wire \ {m}
    /\ latest' = latest + 1
    /\ maker' = [maker EXCEPT ![latest + 1] = m.attempt]
    /\ UNCHANGED <<pc, attempt, file, route, snap, overlapped>>

(* A write without If-Match replaces whatever route there is. *)
Matches(m) == m.etag \in {None, route.etag}

Update(m) ==
    /\ m.does = "route"
    /\ wire' = wire \ {m}
    /\ IF Matches(m)
       THEN route' = [to |-> m.to, etag |-> IF route.etag = None THEN None ELSE route.etag + 1]
       ELSE UNCHANGED <<route>>
    /\ UNCHANGED <<pc, attempt, file, latest, maker, snap, overlapped>>

Next ==
    \/ \E c \in Commands : Start(c) \/ CreationState(c) \/ Persist(c) \/ Send(c) \/ Record(c)
                           \/ ReadEndpoint(c) \/ RereadEndpoint(c) \/ Observe(c) \/ Fail(c)
    \/ \E m \in wire : Create(m) \/ Update(m)

Spec == Init /\ [][Next]_vars

-----------------------------------------------------------------------------
TypeOK ==
    /\ pc \in [Commands -> {"idle", "create", "intend", "send", "created", "configure",
                            "reread", "routed", "done", "failed"}]
    /\ attempt \in [Commands -> Attempts \cup {None}]
    /\ file \in [Attempts -> Versions \cup {None, Creating}]
    /\ wire \subseteq [does : {"create", "route"}, by : Commands, attempt : Attempts,
                       etag : Etags, to : Nat]
    /\ latest \in 0..MaxVersions
    /\ maker \in [Versions -> Attempts \cup {None}]
    /\ route \in Route
    /\ snap \in [Commands -> Route \cup {None}]
    /\ overlapped \in BOOLEAN

(* One attempt file never makes two versions, however often its command    *)
(* is started, races itself, or dies after the intent or the request.      *)
CreatedOnce == \A v, w \in Versions : maker[v] = maker[w] /\ maker[v] # None => v = w

(* A route that was fixed to one attempt's version is not taken over by    *)
(* another attempt, nor written again, by anything still on its way: where *)
(* the service gives the endpoint an etag, whatever overlaps; where it     *)
(* gives none, as long as the operator has run one writer at a time.       *)
RouteFixedOnce ==
    [][route.to \in Versions /\ (route.etag = None => ~overlapped) => UNCHANGED route]_vars

(* An endpoint that is fixed serves the very version an attempt file       *)
(* records, and the service made that version for this attempt, whichever  *)
(* commands died between the create, the record and the route.             *)
RoutedIsRecorded ==
    route.to \in Versions => \E f \in Attempts : file[f] = route.to /\ maker[route.to] = f
=============================================================================
