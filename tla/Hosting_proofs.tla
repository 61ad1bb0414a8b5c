--------------------------- MODULE Hosting_proofs ---------------------------
(***************************************************************************)
(* Proofs about the hosted agent's lifecycle (Hosted), its bootstrap       *)
(* (Bootstrap) and the canvas (Canvas).  Each theorem is about the         *)
(* component's own specification, for any number of commands, attempt      *)
(* files, operators, contents, chunks, requests and opens.                 *)
(***************************************************************************)
EXTENDS MCHosting, TLAPS

USE DEF Lifecycle!vars, Lifecycle!service

LEMMA LifecycleBounds ==
    /\ Lifecycle!Versions \subseteq Nat /\ Lifecycle!Creating \in Nat
    /\ None \notin Lifecycle!Versions /\ None # Lifecycle!Creating
    /\ Lifecycle!Latest \notin Lifecycle!Versions
BY NoneIsNoAttempt DEF Lifecycle!Versions, Lifecycle!Creating, Lifecycle!Latest

(* Whether the create request of an attempt may exist at all: it is about  *)
(* to be sent, on its way, or served.                                      *)
Sends(c, f) == pc[c] = "send" /\ attempt[c] = f
IsCreate(m, f) == m \in wire /\ m.does = "create" /\ m.attempt = f
Made(v, f) == v \in Lifecycle!Versions /\ maker[v] = f

(* Of one attempt there is at most one of these, and its file says so.     *)
OneRequest(f) ==
    /\ file[f] = None =>
            /\ \A c \in Commands : ~Sends(c, f)
            /\ \A m \in wire : ~IsCreate(m, f)
            /\ \A v \in Lifecycle!Versions : ~Made(v, f)
    /\ \A c, d \in Commands : Sends(c, f) /\ Sends(d, f) => c = d
    /\ \A c \in Commands, m \in wire : ~(Sends(c, f) /\ IsCreate(m, f))
    /\ \A c \in Commands, v \in Lifecycle!Versions : ~(Sends(c, f) /\ Made(v, f))
    /\ \A m, n \in wire : IsCreate(m, f) /\ IsCreate(n, f) => m = n
    /\ \A m \in wire, v \in Lifecycle!Versions : ~(IsCreate(m, f) /\ Made(v, f))
    /\ \A v, w \in Lifecycle!Versions : Made(v, f) /\ Made(w, f) => v = w

(* A request to route the endpoint names an etag if the endpoint has one,  *)
(* and was written when the endpoint led to the latest version.            *)
RoutedFromLatest ==
    \A m \in wire : m.does = "route" =>
        /\ m.etag = None <=> route.etag = None
        /\ route.etag # None => m.etag <= route.etag
        /\ route.etag # None /\ m.etag = route.etag => route.to \notin Lifecycle!Versions

(* Without an etag, but one writer at a time: there is one request to      *)
(* route the endpoint at most, its writer waits, and the endpoint has not  *)
(* been fixed yet.                                                         *)
Writes(c) == pc[c] \in {"configure", "reread", "routed"}
IsRoute(m) == m \in wire /\ m.does = "route"

OneWriter ==
    route.etag = None /\ ~overlapped =>
        /\ \A c, d \in Commands : Writes(c) /\ Writes(d) => c = d
        /\ \A m, n \in wire : IsRoute(m) /\ IsRoute(n) => m = n
        /\ \A m \in wire, c \in Commands : IsRoute(m) /\ Writes(c) => pc[c] = "routed"
        /\ \A m \in wire : IsRoute(m) => route.to \notin Lifecycle!Versions

LifecycleTypes ==
    /\ Lifecycle!TypeOK
    /\ \A c \in Commands : pc[c] # "idle" => attempt[c] \in Attempts
    /\ \A m \in wire : m.does = "route" => m.to \in Lifecycle!Versions

LifecycleInv ==
    /\ LifecycleTypes
    /\ \A f \in Attempts : OneRequest(f)
    /\ RoutedFromLatest
    /\ OneWriter

LEMMA LifecycleInit == Lifecycle!Init => LifecycleInv
<1>. SUFFICES ASSUME Lifecycle!Init PROVE LifecycleInv
  OBVIOUS
<1>. USE DEF Lifecycle!Init
<1>1. Lifecycle!TypeOK
  <2>1. route \in Lifecycle!Route
    <3>1. 0 \in Lifecycle!Etags /\ None \in Lifecycle!Etags
      BY DEF Lifecycle!Etags
    <3>. QED  BY <3>1 DEF Lifecycle!Route
  <2>2. latest \in 0..MaxVersions
    BY VersionsAssumption
  <2>3. overlapped \in BOOLEAN
    OBVIOUS
  <2>4. snap \in [Commands -> Lifecycle!Route \cup {None}]
    OBVIOUS
  <2>5. /\ wire = {} /\ attempt \in [Commands -> Attempts \cup {None}]
        /\ file \in [Attempts -> Lifecycle!Versions \cup {None, Lifecycle!Creating}]
        /\ maker \in [Lifecycle!Versions -> Attempts \cup {None}]
    OBVIOUS
  <2>. QED  BY <2>1, <2>2, <2>3, <2>4, <2>5 DEF Lifecycle!TypeOK
<1>2. \A f \in Attempts : OneRequest(f)
  BY NoneIsNoAttempt DEF OneRequest, Sends, IsCreate, Made
<1>3. OneWriter
  BY DEF OneWriter, Writes, IsRoute
<1>. QED  BY <1>1, <1>2, <1>3 DEF LifecycleInv, LifecycleTypes, RoutedFromLatest

LEMMA LifecycleTypesStep ==
    LifecycleTypes /\ [Lifecycle!Next]_Lifecycle!vars => LifecycleTypes'
<1>. SUFFICES ASSUME LifecycleTypes, [Lifecycle!Next]_Lifecycle!vars PROVE LifecycleTypes'
  OBVIOUS
<1>. USE LifecycleBounds DEF LifecycleTypes, Lifecycle!TypeOK, Lifecycle!To
<1>1. ASSUME NEW c \in Commands, Lifecycle!Start(c) PROVE LifecycleTypes'
  <2>1. overlapped' \in BOOLEAN
    BY <1>1 DEF Lifecycle!Start
  <2>. QED  BY <1>1, <2>1 DEF Lifecycle!Start
<1>2. ASSUME NEW c \in Commands, Lifecycle!CreationState(c) PROVE LifecycleTypes'
  BY <1>2 DEF Lifecycle!CreationState
<1>3. ASSUME NEW c \in Commands, Lifecycle!Persist(c) PROVE LifecycleTypes'
  BY <1>3 DEF Lifecycle!Persist
<1>4. ASSUME NEW c \in Commands, Lifecycle!Send(c) PROVE LifecycleTypes'
  BY <1>4 DEF Lifecycle!Send, Lifecycle!Etags
<1>5. ASSUME NEW c \in Commands, Lifecycle!Record(c) PROVE LifecycleTypes'
  BY <1>5 DEF Lifecycle!Record
<1>6. ASSUME NEW c \in Commands, Lifecycle!ReadEndpoint(c) PROVE LifecycleTypes'
  BY <1>6 DEF Lifecycle!ReadEndpoint
<1>7. ASSUME NEW c \in Commands, Lifecycle!RereadEndpoint(c) PROVE LifecycleTypes'
  BY <1>7 DEF Lifecycle!RereadEndpoint, Lifecycle!IfMatch, Lifecycle!Snapshot, Lifecycle!Route
<1>8. ASSUME NEW c \in Commands, Lifecycle!Observe(c) PROVE LifecycleTypes'
  BY <1>8 DEF Lifecycle!Observe
<1>9. ASSUME NEW c \in Commands, Lifecycle!Fail(c) PROVE LifecycleTypes'
  BY <1>9 DEF Lifecycle!Fail
<1>10. ASSUME NEW m \in wire, Lifecycle!Create(m) PROVE LifecycleTypes'
  BY <1>10, VersionsAssumption DEF Lifecycle!Create, Lifecycle!Versions
<1>11. ASSUME NEW m \in wire, Lifecycle!Update(m) PROVE LifecycleTypes'
  <2>1. route'.to \in Lifecycle!Versions \cup {Lifecycle!Latest} /\ route'.etag \in Lifecycle!Etags
        /\ route' = [to |-> route'.to, etag |-> route'.etag]
    BY <1>11, NoneIsNoAttempt DEF Lifecycle!Update, Lifecycle!Route, Lifecycle!Etags
  <2>. QED  BY <1>11, <2>1 DEF Lifecycle!Update, Lifecycle!Route
<1>12. CASE UNCHANGED Lifecycle!vars
  BY <1>12
<1>. QED
  BY <1>1, <1>2, <1>3, <1>4, <1>5, <1>6, <1>7, <1>8, <1>9, <1>10, <1>11, <1>12
  DEF Lifecycle!Next

(* Nothing new of an attempt: its request is no more than it was.          *)
LEMMA NoNewRequest ==
    ASSUME NEW f \in Attempts, OneRequest(f),
           file'[f] = None => file[f] = None,
           \A c \in Commands : Sends(c, f)' => Sends(c, f),
           \A m \in wire' : IsCreate(m, f)' => IsCreate(m, f),
           \A v \in Lifecycle!Versions : Made(v, f)' => Made(v, f)
    PROVE  OneRequest(f)'
<1>1. \A m \in wire' : IsCreate(m, f)' => m \in wire /\ IsCreate(m, f)
  BY DEF IsCreate
<1>. QED  BY <1>1 DEF OneRequest

LEMMA OneRequestStep ==
    ASSUME LifecycleTypes, [Lifecycle!Next]_Lifecycle!vars,
           NEW f \in Attempts, OneRequest(f)
    PROVE  OneRequest(f)'
<1>. USE DEF Lifecycle!To, Lifecycle!State
<1>0. pc \in [Commands -> {"idle", "create", "intend", "send", "created", "configure",
                           "reread", "routed", "done", "failed"}]
      /\ attempt \in [Commands -> Attempts \cup {None}]
      /\ file \in [Attempts -> Lifecycle!Versions \cup {None, Lifecycle!Creating}]
      /\ maker \in [Lifecycle!Versions -> Attempts \cup {None}]
      /\ latest \in 0..MaxVersions
  BY DEF LifecycleTypes, Lifecycle!TypeOK
<1>1. ASSUME NEW c \in Commands,
             \/ Lifecycle!Start(c) \/ Lifecycle!CreationState(c) \/ Lifecycle!ReadEndpoint(c)
             \/ Lifecycle!Observe(c) \/ Lifecycle!Fail(c)
      PROVE  OneRequest(f)'
  <2>1. UNCHANGED <<file, wire, maker>>
    BY <1>1 DEF Lifecycle!Start, Lifecycle!CreationState, Lifecycle!ReadEndpoint,
                Lifecycle!Observe, Lifecycle!Fail
  <2>2. \A d \in Commands : Sends(d, f)' => Sends(d, f)
    BY <1>0, <1>1 DEF Sends, Lifecycle!Start, Lifecycle!CreationState, Lifecycle!ReadEndpoint,
                      Lifecycle!Observe, Lifecycle!Fail
  <2>. QED  BY <2>1, <2>2, NoNewRequest DEF IsCreate, Made
<1>2. ASSUME NEW c \in Commands, Lifecycle!Persist(c) PROVE OneRequest(f)'
  <2>1. UNCHANGED <<attempt, wire, maker>> /\ pc[c] = "intend"
    BY <1>2 DEF Lifecycle!Persist
  <2>2. CASE file[attempt[c]] = None /\ attempt[c] = f
    <3>1. file'[f] # None /\ \A d \in Commands : Sends(d, f)' => d = c
      BY <1>0, <1>2, <2>2, LifecycleBounds DEF Lifecycle!Persist, Lifecycle!Exclusive, OneRequest, Sends
    <3>2. /\ \A m \in wire' : ~IsCreate(m, f)'
          /\ \A v \in Lifecycle!Versions : ~Made(v, f)'
      BY <2>1, <2>2 DEF OneRequest, IsCreate, Made
    <3>. QED  BY <3>1, <3>2 DEF OneRequest
  <2>3. CASE ~(file[attempt[c]] = None /\ attempt[c] = f)
    <3>1. file'[f] = file[f] /\ \A d \in Commands : Sends(d, f)' => Sends(d, f)
      BY <1>0, <1>2, <2>3 DEF Lifecycle!Persist, Lifecycle!Exclusive, Sends
    <3>. QED  BY <2>1, <3>1, NoNewRequest DEF IsCreate, Made
  <2>. QED  BY <2>2, <2>3
<1>3. ASSUME NEW c \in Commands, Lifecycle!Send(c) PROVE OneRequest(f)'
  <2>1. UNCHANGED <<file, maker>>
    BY <1>3 DEF Lifecycle!Send
  <2>2. \A d \in Commands : Sends(d, f)' <=> Sends(d, f) /\ d # c
    BY <1>0, <1>3 DEF Lifecycle!Send, Sends
  <2>3. PICK m : /\ m = [does |-> "create", by |-> c, attempt |-> attempt[c], etag |-> 0, to |-> 0]
                 /\ wire' = wire \cup {m}
    BY <1>3 DEF Lifecycle!Send
  <2>4. pc[c] = "send"
    BY <1>3 DEF Lifecycle!Send
  <2>5. CASE attempt[c] # f
    BY <2>1, <2>2, <2>3, <2>5, NoNewRequest DEF IsCreate, Made
  <2>6. CASE attempt[c] = f
    <3>1. Sends(c, f)
      BY <2>4, <2>6 DEF Sends
    <3>2. file[f] # None /\ \A d \in Commands : ~Sends(d, f)'
      BY <2>2, <3>1 DEF OneRequest
    <3>3. \A n \in wire' : IsCreate(n, f)' => n = m
      BY <2>3, <3>1 DEF OneRequest, IsCreate
    <3>4. \A v \in Lifecycle!Versions : ~Made(v, f)'
      BY <2>1, <3>1 DEF OneRequest, Made
    <3>. QED  BY <2>1, <3>2, <3>3, <3>4 DEF OneRequest
  <2>. QED  BY <2>5, <2>6
<1>4. ASSUME NEW c \in Commands, Lifecycle!Record(c) PROVE OneRequest(f)'
  <2>1. UNCHANGED <<wire, maker>> /\ (file'[f] = None => file[f] = None)
    BY <1>0, <1>4, LifecycleBounds DEF Lifecycle!Record
  <2>2. \A d \in Commands : Sends(d, f)' => Sends(d, f)
    BY <1>0, <1>4 DEF Sends, Lifecycle!Record
  <2>. QED  BY <2>1, <2>2, NoNewRequest DEF IsCreate, Made
<1>5. ASSUME NEW c \in Commands, Lifecycle!RereadEndpoint(c) PROVE OneRequest(f)'
  <2>1. UNCHANGED <<file, maker>> /\ \A d \in Commands : Sends(d, f)' => Sends(d, f)
    BY <1>0, <1>5 DEF Sends, Lifecycle!RereadEndpoint
  <2>2. \A m \in wire' : m \in wire \/ m.does = "route"
    BY <1>5 DEF Lifecycle!RereadEndpoint
  <2>. QED  BY <2>1, <2>2, NoNewRequest DEF IsCreate, Made
<1>6. ASSUME NEW m \in wire, Lifecycle!Create(m) PROVE OneRequest(f)'
  <2>1. /\ UNCHANGED <<pc, attempt, file>> /\ wire' = wire \ {m} /\ m.does = "create"
        /\ latest + 1 \in Lifecycle!Versions
        /\ maker' = [maker EXCEPT ![latest + 1] = m.attempt]
    BY VersionsAssumption, <1>0, <1>6 DEF Lifecycle!Create, Lifecycle!Versions
  <2>2. CASE m.attempt # f
    BY <1>0, <2>1, <2>2, NoNewRequest DEF IsCreate, Made, Sends
  <2>3. CASE m.attempt = f
    <3>1. IsCreate(m, f)
      BY <2>1, <2>3 DEF IsCreate
    <3>2. file[f] # None /\ \A d \in Commands : ~Sends(d, f)'
      BY <2>1, <3>1 DEF OneRequest, Sends
    <3>3. \A n \in wire' : ~IsCreate(n, f)'
      BY <2>1, <3>1 DEF OneRequest, IsCreate
    <3>4. \A v \in Lifecycle!Versions : Made(v, f)' => v = latest + 1
      BY <1>0, <2>1, <3>1 DEF OneRequest, Made
    <3>. QED  BY <2>1, <3>2, <3>3, <3>4 DEF OneRequest
  <2>. QED  BY <2>2, <2>3
<1>7. ASSUME NEW m \in wire, Lifecycle!Update(m) PROVE OneRequest(f)'
  BY <1>7, NoNewRequest DEF Lifecycle!Update, IsCreate, Made, Sends
<1>8. CASE UNCHANGED Lifecycle!vars
  BY <1>8, NoNewRequest DEF IsCreate, Made, Sends
<1>. QED
  BY <1>1, <1>2, <1>3, <1>4, <1>5, <1>6, <1>7, <1>8 DEF Lifecycle!Next

(* Only a served update moves the route, and only a writer asks for one.   *)
LEMMA RouteMoves ==
    ASSUME LifecycleTypes, [Lifecycle!Next]_Lifecycle!vars
    PROVE  \/ UNCHANGED route /\ \A n \in wire' : n.does = "route" => n \in wire
           \/ \E c \in Commands : Lifecycle!RereadEndpoint(c)
           \/ \E m \in wire : Lifecycle!Update(m)
<1>1. ASSUME NEW c \in Commands,
             \/ Lifecycle!Start(c) \/ Lifecycle!CreationState(c) \/ Lifecycle!Persist(c)
             \/ Lifecycle!Record(c) \/ Lifecycle!ReadEndpoint(c)
             \/ Lifecycle!Observe(c) \/ Lifecycle!Fail(c)
      PROVE  UNCHANGED <<route, wire>>
  BY <1>1 DEF Lifecycle!Start, Lifecycle!CreationState, Lifecycle!Persist, Lifecycle!Record,
              Lifecycle!ReadEndpoint, Lifecycle!Observe, Lifecycle!Fail
<1>2. ASSUME NEW c \in Commands, Lifecycle!Send(c)
      PROVE  UNCHANGED route /\ \A n \in wire' : n.does = "route" => n \in wire
  BY <1>2 DEF Lifecycle!Send
<1>3. ASSUME NEW m \in wire, Lifecycle!Create(m)
      PROVE  UNCHANGED route /\ \A n \in wire' : n.does = "route" => n \in wire
  BY <1>3 DEF Lifecycle!Create
<1>. QED  BY <1>1, <1>2, <1>3 DEF Lifecycle!Next

LEMMA EtagTypes ==
    LifecycleTypes => /\ route.etag \in Nat \cup {None}
                      /\ \A m \in wire : m.etag \in Nat \cup {None}
                      /\ None \notin Nat
BY NoneIsNoAttempt DEF LifecycleTypes, Lifecycle!TypeOK, Lifecycle!Route, Lifecycle!Etags

LEMMA RoutedFromLatestStep ==
    LifecycleTypes /\ RoutedFromLatest /\ [Lifecycle!Next]_Lifecycle!vars => RoutedFromLatest'
<1>. SUFFICES ASSUME LifecycleTypes, RoutedFromLatest, [Lifecycle!Next]_Lifecycle!vars,
                     NEW n \in wire', n.does = "route"
              PROVE  /\ n.etag = None <=> route'.etag = None
                     /\ route'.etag # None => n.etag <= route'.etag
                     /\ route'.etag # None /\ n.etag = route'.etag
                            => route'.to \notin Lifecycle!Versions
  BY DEF RoutedFromLatest
<1>1. CASE n \in wire /\ UNCHANGED route
  BY <1>1 DEF RoutedFromLatest
<1>2. ASSUME NEW c \in Commands, Lifecycle!RereadEndpoint(c), n \notin wire
      PROVE  UNCHANGED route /\ n.etag = route.etag /\ route.to \notin Lifecycle!Versions
  BY <1>2, LifecycleBounds DEF Lifecycle!RereadEndpoint, Lifecycle!IfMatch, Lifecycle!Snapshot
<1>3. ASSUME NEW c \in Commands, Lifecycle!RereadEndpoint(c) PROVE UNCHANGED route
  BY <1>3 DEF Lifecycle!RereadEndpoint
<1>4. CASE \E c \in Commands : Lifecycle!RereadEndpoint(c)
  BY <1>1, <1>2, <1>3, <1>4, EtagTypes
<1>5. ASSUME NEW m \in wire, Lifecycle!Update(m), route' # route
      PROVE  /\ n.etag = None <=> route'.etag = None
             /\ route'.etag # None => n.etag <= route'.etag /\ n.etag # route'.etag
  <2>1. n \in wire /\ route'.etag = IF route.etag = None THEN None ELSE route.etag + 1
    BY <1>5 DEF Lifecycle!Update
  <2>2. CASE route.etag = None
    BY <2>1, <2>2 DEF RoutedFromLatest
  <2>3. CASE route.etag # None
    <3>1. n.etag # None /\ n.etag <= route.etag
      BY <2>1, <2>3 DEF RoutedFromLatest
    <3>2. n.etag \in Nat /\ route.etag \in Nat
      BY <2>1, <2>3, <3>1, EtagTypes
    <3>. QED  BY <2>1, <2>3, <3>1, <3>2, EtagTypes
  <2>. QED  BY <2>2, <2>3
<1>6. ASSUME NEW m \in wire, Lifecycle!Update(m) PROVE n \in wire
  BY <1>6 DEF Lifecycle!Update
<1>7. CASE \E m \in wire : Lifecycle!Update(m)
  BY <1>1, <1>5, <1>6, <1>7
<1>. QED  BY <1>1, <1>4, <1>7, RouteMoves

LEMMA OneWriterStep ==
    LifecycleTypes /\ RoutedFromLatest /\ OneWriter /\ [Lifecycle!Next]_Lifecycle!vars => OneWriter'
<1>. SUFFICES ASSUME LifecycleTypes, RoutedFromLatest, OneWriter, [Lifecycle!Next]_Lifecycle!vars,
                     route'.etag = None, ~overlapped'
              PROVE  OneWriter'
  BY DEF OneWriter
<1>0. pc \in [Commands -> {"idle", "create", "intend", "send", "created", "configure",
                           "reread", "routed", "done", "failed"}]
  BY DEF LifecycleTypes, Lifecycle!TypeOK
<1>1. route.etag = None
  <2>1. ASSUME NEW m \in wire, Lifecycle!Update(m), route.etag # None PROVE FALSE
    BY <2>1, EtagTypes DEF Lifecycle!Update
  <2>2. ASSUME NEW c \in Commands, Lifecycle!RereadEndpoint(c) PROVE UNCHANGED route
    BY <2>2 DEF Lifecycle!RereadEndpoint
  <2>. QED  BY <2>1, <2>2, RouteMoves
<1>2. ~overlapped
  BY DEF Lifecycle!Next, Lifecycle!Start, Lifecycle!CreationState, Lifecycle!Persist, Lifecycle!Send,
         Lifecycle!Record, Lifecycle!ReadEndpoint, Lifecycle!RereadEndpoint, Lifecycle!Observe,
         Lifecycle!Fail, Lifecycle!Create, Lifecycle!Update
<1>3. /\ \A c, d \in Commands : Writes(c) /\ Writes(d) => c = d
      /\ \A m, n \in wire : IsRoute(m) /\ IsRoute(n) => m = n
      /\ \A m \in wire, c \in Commands : IsRoute(m) /\ Writes(c) => pc[c] = "routed"
      /\ \A m \in wire : IsRoute(m) => route.to \notin Lifecycle!Versions
  BY <1>1, <1>2 DEF OneWriter
(* A step that starts no writer, asks for nothing and leaves the route.    *)
<1>4. ASSUME UNCHANGED route, \A n \in wire' : n.does = "route" => n \in wire,
             \A d \in Commands : Writes(d)' => Writes(d) /\ (pc[d] = "routed" => pc'[d] = "routed")
      PROVE  OneWriter'
  <2>1. \A n \in wire' : IsRoute(n)' => n \in wire /\ IsRoute(n)
    BY <1>4 DEF IsRoute
  <2>. QED  BY <1>3, <1>4, <2>1 DEF OneWriter
<1>5. ASSUME NEW c \in Commands, Lifecycle!Start(c) PROVE OneWriter'
  <2>1. UNCHANGED <<wire, route>>
    BY <1>5 DEF Lifecycle!Start
  <2>2. CASE Lifecycle!To(c, "create")
    BY <1>0, <1>4, <2>1, <2>2 DEF Writes, Lifecycle!To
  <2>3. CASE ~Lifecycle!Writing /\ Lifecycle!To(c, "configure")
    <3>1. \A d \in Commands : Writes(d)' => d = c
      BY <1>0, <2>3 DEF Writes, Lifecycle!To, Lifecycle!Writing
    <3>2. \A n \in wire' : ~IsRoute(n)'
      BY <2>1, <2>3 DEF IsRoute, Lifecycle!Writing
    <3>. QED  BY <3>1, <3>2 DEF OneWriter
  <2>. QED  BY <1>1, <1>5, <2>2, <2>3 DEF Lifecycle!Start
<1>6. ASSUME NEW c \in Commands,
             \/ Lifecycle!CreationState(c) \/ Lifecycle!Persist(c) \/ Lifecycle!Send(c)
             \/ Lifecycle!Record(c) \/ Lifecycle!ReadEndpoint(c)
             \/ Lifecycle!Observe(c) \/ Lifecycle!Fail(c)
      PROVE  OneWriter'
  <2>1. UNCHANGED route /\ \A n \in wire' : n.does = "route" => n \in wire
    BY <1>6 DEF Lifecycle!CreationState, Lifecycle!Persist, Lifecycle!Send, Lifecycle!Record,
                Lifecycle!ReadEndpoint, Lifecycle!Observe, Lifecycle!Fail
  <2>2. \A d \in Commands : Writes(d)' => Writes(d) /\ (pc[d] = "routed" => pc'[d] = "routed")
    BY <1>0, <1>6 DEF Writes, Lifecycle!To, Lifecycle!CreationState, Lifecycle!Persist, Lifecycle!Send,
                Lifecycle!Record, Lifecycle!ReadEndpoint, Lifecycle!Observe, Lifecycle!Fail
  <2>. QED  BY <1>4, <2>1, <2>2
<1>7. ASSUME NEW c \in Commands, Lifecycle!RereadEndpoint(c) PROVE OneWriter'
  <2>1. UNCHANGED route /\ pc[c] = "reread" /\ Writes(c)
    BY <1>7 DEF Lifecycle!RereadEndpoint, Writes
  <2>2. \A n \in wire : ~IsRoute(n)
    BY <1>3, <2>1
  <2>3. CASE Lifecycle!To(c, "done") /\ UNCHANGED wire
    BY <1>0, <1>4, <2>1, <2>3 DEF Writes, Lifecycle!To
  <2>4. CASE Lifecycle!To(c, "routed") /\ route.to # Lifecycle!State(c)
    <3>1. \A d \in Commands : Writes(d)' => d = c
      BY <1>0, <1>3, <2>1, <2>4 DEF Writes, Lifecycle!To
    <3>2. pc'[c] = "routed"
      BY <1>0, <2>4 DEF Lifecycle!To
    <3>3. route.to \notin Lifecycle!Versions
      BY <1>7, <2>4, LifecycleBounds DEF Lifecycle!RereadEndpoint, Lifecycle!Snapshot
    <3>4. \A m, n \in wire' : IsRoute(m)' /\ IsRoute(n)' => m = n
      BY <1>7, <2>2 DEF Lifecycle!RereadEndpoint, IsRoute
    <3>. QED  BY <2>1, <3>1, <3>2, <3>3, <3>4 DEF OneWriter
  <2>. QED  BY <1>7, <2>3, <2>4 DEF Lifecycle!RereadEndpoint
<1>8. ASSUME NEW m \in wire, Lifecycle!Create(m) PROVE OneWriter'
  BY <1>4, <1>8 DEF Lifecycle!Create, Writes
<1>9. ASSUME NEW m \in wire, Lifecycle!Update(m) PROVE OneWriter'
  <2>1. /\ UNCHANGED pc /\ wire' = wire \ {m} /\ IsRoute(m)
    BY <1>9 DEF Lifecycle!Update, IsRoute
  <2>2. \A n \in wire' : ~IsRoute(n)'
    BY <1>3, <2>1 DEF IsRoute
  <2>. QED  BY <1>3, <2>1, <2>2 DEF OneWriter, Writes
<1>10. CASE UNCHANGED Lifecycle!vars
  BY <1>4, <1>10 DEF Writes
<1>. QED  BY <1>5, <1>6, <1>7, <1>8, <1>9, <1>10 DEF Lifecycle!Next

LEMMA LifecycleStep == LifecycleInv /\ [Lifecycle!Next]_Lifecycle!vars => LifecycleInv'
BY LifecycleTypesStep, OneRequestStep, RoutedFromLatestStep, OneWriterStep DEF LifecycleInv

(* The inductive invariant of the lifecycle commands and the agent         *)
(* service: one create request per attempt, wherever it is, and no route   *)
(* request that could still replace a fixed route.                         *)
THEOREM LifecycleInvariant == Lifecycle!Spec => []LifecycleInv
BY LifecycleInit, LifecycleStep, PTL DEF Lifecycle!Spec

(* Every variable of the lifecycle keeps its type; versions stay within    *)
(* what the service numbers (hosted_lifecycle.py).                   *)
THEOREM LifecycleTypeOK == Lifecycle!Spec => []Lifecycle!TypeOK
<1>1. LifecycleInv => Lifecycle!TypeOK
  BY DEF LifecycleInv, LifecycleTypes
<1>. QED  BY <1>1, LifecycleInvariant, PTL

(* One attempt file never makes two versions.                              *)
THEOREM LifecycleCreatedOnce == Lifecycle!Spec => []CreatedOnce
<1>1. LifecycleInv => CreatedOnce
  BY DEF LifecycleInv, LifecycleTypes, Lifecycle!TypeOK, OneRequest, Made, CreatedOnce,
         Lifecycle!CreatedOnce
<1>. QED  BY <1>1, LifecycleInvariant, PTL

(* A route that leads to one version stays as it is: by its etag, or else  *)
(* because no writer was started before another had ended.                 *)
THEOREM LifecycleRouteFixedOnce == Lifecycle!Spec => RouteFixedOnce
<1>. DEFINE Fixed == route.to \in Lifecycle!Versions /\ (route.etag = None => ~overlapped)
<1>1. LifecycleInv /\ [Lifecycle!Next]_Lifecycle!vars => [Fixed => UNCHANGED route]_Lifecycle!vars
  <2>. SUFFICES ASSUME LifecycleInv, [Lifecycle!Next]_Lifecycle!vars, Fixed
                PROVE  UNCHANGED route
    OBVIOUS
  <2>1. ASSUME NEW m \in wire, Lifecycle!Update(m), ~UNCHANGED route PROVE FALSE
    <3>1. m.does = "route" /\ Lifecycle!Matches(m)
      BY <2>1 DEF Lifecycle!Update
    <3>2. CASE route.etag = None
      BY <3>1, <3>2 DEF LifecycleInv, OneWriter, IsRoute
    <3>3. CASE route.etag # None
      BY <3>1, <3>3 DEF LifecycleInv, RoutedFromLatest, Lifecycle!Matches
    <3>. QED  BY <3>2, <3>3
  <2>2. ASSUME NEW c \in Commands, Lifecycle!RereadEndpoint(c) PROVE UNCHANGED route
    BY <2>2 DEF Lifecycle!RereadEndpoint
  <2>. QED  BY <2>1, <2>2, RouteMoves DEF LifecycleInv
<1>. QED  BY <1>1, LifecycleInvariant, PTL DEF Lifecycle!Spec, RouteFixedOnce, Lifecycle!RouteFixedOnce

(* Versions are made in order, an attempt file names a version made for    *)
(* it, and routes lead, or are asked to lead, to versions that are named.  *)
Filed ==
    /\ \A v \in Lifecycle!Versions : maker[v] # None => v <= latest
    /\ \A f \in Attempts : file[f] \in Lifecycle!Versions => maker[file[f]] = f
    /\ \A m \in wire : m.does = "route" => file[m.attempt] = m.to
    /\ route.to \in Lifecycle!Versions => \E f \in Attempts : file[f] = route.to

LEMMA FiledStep ==
    LifecycleInv /\ Filed /\ [Lifecycle!Next]_Lifecycle!vars => Filed'
<1>. SUFFICES ASSUME LifecycleInv, Filed, [Lifecycle!Next]_Lifecycle!vars PROVE Filed'
  OBVIOUS
<1>0. /\ file \in [Attempts -> Lifecycle!Versions \cup {None, Lifecycle!Creating}]
      /\ maker \in [Lifecycle!Versions -> Attempts \cup {None}]
      /\ attempt \in [Commands -> Attempts \cup {None}]
      /\ \A c \in Commands : pc[c] # "idle" => attempt[c] \in Attempts
      /\ latest \in 0..MaxVersions /\ Lifecycle!Versions = 1..MaxVersions /\ MaxVersions \in Nat
      /\ \A m \in wire : /\ m.attempt \in Attempts
                         /\ m.does = "route" => m.to \in Lifecycle!Versions
      /\ CreatedOnce /\ None \notin Attempts
  BY NoneIsNoAttempt, VersionsAssumption
  DEF LifecycleInv, LifecycleTypes, Lifecycle!TypeOK, Lifecycle!Versions, OneRequest, Made,
      CreatedOnce, Lifecycle!CreatedOnce
<1>. USE DEF Filed
<1>1. ASSUME UNCHANGED <<maker, latest, route>>,
             \A m \in wire' : m \in wire \/ m.does # "route",
             \A f \in Attempts : /\ file[f] \in Lifecycle!Versions => file'[f] = file[f]
                                 /\ file'[f] \in Lifecycle!Versions => maker[file'[f]] = f
      PROVE  Filed'
  <2>1. \A m \in wire' : m.does = "route" => file'[m.attempt] = m.to
    BY <1>0, <1>1
  <2>2. route'.to \in Lifecycle!Versions => \E f \in Attempts : file'[f] = route'.to
    <3>. SUFFICES ASSUME route.to \in Lifecycle!Versions
                  PROVE  \E f \in Attempts : file'[f] = route.to
      BY <1>1
    <3>1. PICK f \in Attempts : file[f] = route.to
      OBVIOUS
    <3>. QED  BY <1>1, <3>1
  <2>3. \A f \in Attempts : file'[f] \in Lifecycle!Versions => maker'[file'[f]] = f
    BY <1>1
  <2>4. \A v \in Lifecycle!Versions : maker'[v] # None => v <= latest'
    BY <1>1
  <2>. QED  BY <2>1, <2>2, <2>3, <2>4
<1>2. ASSUME NEW c \in Commands,
             \/ Lifecycle!Start(c) \/ Lifecycle!CreationState(c) \/ Lifecycle!Send(c)
             \/ Lifecycle!ReadEndpoint(c) \/ Lifecycle!Observe(c) \/ Lifecycle!Fail(c)
      PROVE  Filed'
  <2>1. UNCHANGED <<maker, latest, route, file>>
    BY <1>2 DEF Lifecycle!Start, Lifecycle!CreationState, Lifecycle!Send, Lifecycle!ReadEndpoint,
                Lifecycle!Observe, Lifecycle!Fail
  <2>2. \A m \in wire' : m \in wire \/ m.does # "route"
    BY <1>2 DEF Lifecycle!Start, Lifecycle!CreationState, Lifecycle!Send, Lifecycle!ReadEndpoint,
                Lifecycle!Observe, Lifecycle!Fail
  <2>. QED  BY <1>1, <2>1, <2>2
<1>3. ASSUME NEW c \in Commands, Lifecycle!Persist(c) PROVE Filed'
  <2>1. /\ UNCHANGED <<maker, latest, route, wire>> /\ attempt[c] \in Attempts
        /\ \/ UNCHANGED file
           \/ /\ file[attempt[c]] = None
              /\ file' = [file EXCEPT ![attempt[c]] = Lifecycle!Creating]
    BY <1>0, <1>3 DEF Lifecycle!Persist, Lifecycle!Exclusive, Lifecycle!State
  <2>2. None \notin Lifecycle!Versions /\ Lifecycle!Creating \notin Lifecycle!Versions
    BY LifecycleBounds DEF Lifecycle!Creating, Lifecycle!Versions
  <2>. QED  BY <1>0, <1>1, <2>1, <2>2
<1>4. ASSUME NEW c \in Commands, Lifecycle!Record(c) PROVE Filed'
  <2>1. PICK v \in Lifecycle!Versions :
            maker[v] = attempt[c] /\ file' = [file EXCEPT ![attempt[c]] = v]
    BY <1>4 DEF Lifecycle!Record
  <2>2. UNCHANGED <<maker, latest, route, wire>> /\ attempt[c] \in Attempts
    BY <1>0, <1>4 DEF Lifecycle!Record
  <2>3. file[attempt[c]] \in Lifecycle!Versions => file[attempt[c]] = v
    BY <1>0, <2>1, <2>2 DEF CreatedOnce, Lifecycle!CreatedOnce
  <2>. QED  BY <1>0, <1>1, <2>1, <2>2, <2>3
<1>5. ASSUME NEW c \in Commands, Lifecycle!RereadEndpoint(c) PROVE Filed'
  <2>1. /\ UNCHANGED <<file, maker, latest, route>>
        /\ \A m \in wire' : m \in wire \/ (m.attempt = attempt[c] /\ m.to = file[attempt[c]])
    BY <1>5 DEF Lifecycle!RereadEndpoint, Lifecycle!State
  <2>. QED  BY <1>0, <2>1
<1>6. ASSUME NEW m \in wire, Lifecycle!Create(m) PROVE Filed'
  <2>1. /\ UNCHANGED <<file, route>> /\ wire' = wire \ {m} /\ latest' = latest + 1
        /\ latest < MaxVersions /\ maker' = [maker EXCEPT ![latest + 1] = m.attempt]
    BY <1>6 DEF Lifecycle!Create
  <2>2. \A f \in Attempts : file[f] \in Lifecycle!Versions => file[f] <= latest
    BY <1>0
  <2>3. \A v \in Lifecycle!Versions : v <= latest => maker'[v] = maker[v]
    BY <1>0, <2>1
  <2>4. \A f \in Attempts : file'[f] \in Lifecycle!Versions => maker'[file'[f]] = f
    BY <1>0, <2>1, <2>2, <2>3
  <2>5. \A v \in Lifecycle!Versions : maker'[v] # None => v <= latest'
    BY <1>0, <2>1
  <2>. QED  BY <2>1, <2>4, <2>5
<1>7. ASSUME NEW m \in wire, Lifecycle!Update(m) PROVE Filed'
  <2>1. /\ UNCHANGED <<file, maker, latest>> /\ wire' \subseteq wire /\ m.does = "route"
        /\ route'.to \in {route.to, m.to}
    BY <1>7 DEF Lifecycle!Update
  <2>2. file[m.attempt] = m.to /\ m.attempt \in Attempts
    BY <1>0, <2>1
  <2>. QED  BY <2>1, <2>2
<1>8. CASE UNCHANGED Lifecycle!vars
  BY <1>8
<1>. QED
  BY <1>2, <1>3, <1>4, <1>5, <1>6, <1>7, <1>8 DEF Lifecycle!Next

(* A fixed endpoint serves the version that some attempt file records and  *)
(* that was made for this attempt.                                         *)
THEOREM LifecycleRoutedIsRecorded == Lifecycle!Spec => []Lifecycle!RoutedIsRecorded
<1>1. Lifecycle!Init => Filed
  BY LifecycleBounds DEF Lifecycle!Init, Filed
<1>2. Filed => Lifecycle!RoutedIsRecorded
  BY DEF Filed, Lifecycle!RoutedIsRecorded
<1>. QED  BY <1>1, <1>2, FiledStep, LifecycleInvariant, PTL DEF Lifecycle!Spec

-----------------------------------------------------------------------------
(* Bootstrap.                                                              *)

USE DEF vars, store, publishers, host

(* Where an operator stands in its upload: all chunks before at[p] hold    *)
(* its content, and after the upload that is all of them.                  *)
Uploading == {"read", "chain", "assets"}
Uploaded == {"seal", "create", "created"}

Uploads(p) ==
    pub[p] \in Uploading \cup Uploaded =>
        /\ want[p] \in Contents
        /\ at[p] = Chunks + 1 <=> pub[p] \in Uploaded
        /\ \A i \in 1..Chunks : i < at[p] => chunk[i] = want[p]

Publishes(p) ==
    /\ pub[p] = "created" => record = [content |-> want[p], by |-> p]
    /\ pub[p] = "recover" => record # None

(* The application is initialized on the way to a gate that opens, or to   *)
(* one that is invalid.                                                    *)
GateInOrder ==
    /\ inits \in {0, 1}
    /\ inits = 1 => gate.stage \in {"initialized", "ready"} \/ gate.invalid
    /\ gate.invalid => ~gate.active
    /\ \A q \in late : req[q] = "denied"

BootstrapInv ==
    /\ TypeOK
    /\ \A p \in Operators : Uploads(p) /\ Publishes(p)
    /\ RecordIsWhole /\ OneRecord
    /\ GateInOrder

LEMMA BootstrapInit == Init => BootstrapInv
<1>. SUFFICES ASSUME Init PROVE BootstrapInv
  OBVIOUS
<1>. USE ChunksAssumption DEF Init
<1>1. TypeOK
  BY DEF TypeOK
<1>2. \A p \in Operators : Uploads(p) /\ Publishes(p)
  BY DEF Uploads, Uploading, Uploaded, Publishes
<1>3. RecordIsWhole /\ OneRecord /\ GateInOrder
  BY DEF RecordIsWhole, OneRecord, GateInOrder
<1>. QED  BY <1>1, <1>2, <1>3 DEF BootstrapInv

LEMMA UploadingOne ==
    ASSUME TypeOK, NEW p \in Operators, Uploads(p), Upload(p)
    PROVE  /\ at[p] \in 1..Chunks /\ want[p] \in Contents
           /\ \A i \in 1..Chunks : i < at[p] => chunk[i] = want[p]
<1>1. pub[p] = "assets"
  BY DEF Upload
<1>2. at[p] \in 1..(Chunks + 1)
  BY DEF TypeOK
<1>3. at[p] # Chunks + 1 /\ want[p] \in Contents
      /\ \A i \in 1..Chunks : i < at[p] => chunk[i] = want[p]
  BY <1>1 DEF Uploads, Uploading, Uploaded
<1>. QED  BY <1>2, <1>3, ChunksAssumption

LEMMA BootstrapTypes == BootstrapInv /\ [Next]_vars => TypeOK'
<1>. SUFFICES ASSUME BootstrapInv, [Next]_vars PROVE TypeOK'
  OBVIOUS
<1>. USE ChunksAssumption DEF TypeOK
<1>0. TypeOK /\ \A p \in Operators : Uploads(p) /\ Publishes(p)
  BY DEF BootstrapInv
<1>1. CASE Authority
  BY <1>0, <1>1 DEF Authority
<1>2. CASE Gate
  <2>1. UNCHANGED <<authority, store, publishers, req, late>> /\ inits' \in Nat
    BY <1>0, <1>2 DEF Gate, Authenticate, Prepare, Initialize, Activate
  <2>2. gate' \in [stage : {"pending", "fetched", "prepared", "initialized", "ready"},
                  active : BOOLEAN, invalid : BOOLEAN, closed : BOOLEAN]
    <3>1. CASE Authenticate
      BY <1>0, <3>1 DEF Authenticate, Stage
    <3>2. CASE Prepare
      BY <1>0, <3>2 DEF Prepare, Stage
    <3>3. CASE Initialize
      BY <1>0, <3>3 DEF Initialize, Stage, Invalidate
    <3>4. CASE Activate
      BY <1>0, <3>4 DEF Activate, Invalidate
    <3>. QED  BY <1>2, <3>1, <3>2, <3>3, <3>4 DEF Gate
  <2>. QED  BY <1>0, <2>1, <2>2
<1>3. CASE Close
  BY <1>0, <1>3 DEF Close
<1>4. ASSUME NEW p \in Operators, Start(p) PROVE TypeOK'
  BY <1>0, <1>4 DEF Start, To
<1>5. ASSUME NEW p \in Operators, Lookup(p) \/ Check(p) \/ Fail(p) PROVE TypeOK'
  BY <1>0, <1>5 DEF Lookup, Check, Fail, To
<1>6. ASSUME NEW p \in Operators, Recover(p) PROVE TypeOK'
  BY <1>0, <1>6 DEF Recover, To
<1>7. ASSUME NEW p \in Operators, Upload(p) PROVE TypeOK'
  <2>1. at[p] \in 1..Chunks /\ want[p] \in Contents
    BY <1>0, <1>7, UploadingOne
  <2>2. UNCHANGED <<authority, record, want, got, host>>
    BY <1>7 DEF Upload
  <2>7. pub' \in [Operators -> {"idle", "read", "recover", "chain", "assets", "seal", "create",
                               "created", "done", "failed"}]
    <3>1. PICK label \in {"seal", "assets", "failed"} : To(p, label)
      BY <1>7 DEF Upload
    <3>. QED  BY <1>0, <3>1 DEF To
  <2>6. at[p] + 1 \in 1..(Chunks + 1)
    BY <2>1
  <2>3. at' \in [Operators -> 1..(Chunks + 1)]
    <3>1. at \in [Operators -> 1..(Chunks + 1)] /\ at' \in {at, [at EXCEPT ![p] = @ + 1]}
      BY <1>0, <1>7 DEF Upload
    <3>. HIDE DEF TypeOK
    <3>. QED  BY <2>6, <3>1
  <2>4. chunk' \in [1..Chunks -> Contents \cup {None}]
    <3>1. /\ chunk \in [1..Chunks -> Contents \cup {None}]
          /\ chunk' \in {chunk, [chunk EXCEPT ![at[p]] = IF @ = None THEN want[p] ELSE @]}
      BY <1>0, <1>7 DEF Upload
    <3>. HIDE DEF TypeOK
    <3>. QED  BY <2>1, <3>1
  <2>. QED  BY <1>0, <2>2, <2>3, <2>4, <2>7
<1>8. ASSUME NEW p \in Operators, Create(p) \/ Publish(p) PROVE TypeOK'
  <2>1. want[p] \in Contents
    BY <1>0, <1>8 DEF Create, Publish, Uploads, Uploaded
  <2>2. [content |-> want[p], by |-> p] \in Records
    BY <2>1 DEF Records
  <2>3. CASE Create(p)
    BY <1>0, <2>2, <2>3 DEF Create, To
  <2>4. CASE Publish(p)
    BY <1>0, <2>2, <2>4 DEF Publish, To
  <2>. QED  BY <1>8, <2>3, <2>4
<1>9. ASSUME NEW q \in Requests, Arrive(q) \/ Authorize(q) \/ Exchange(q) \/ Serve(q)
      PROVE  TypeOK'
  BY <1>0, <1>9 DEF Arrive, Authorize, Exchange, Serve, Answer, Invalidate
<1>10. CASE UNCHANGED vars
  BY <1>0, <1>10
<1>. QED
  BY <1>1, <1>2, <1>3, <1>4, <1>5, <1>6, <1>7, <1>8, <1>9, <1>10 DEF Next

LEMMA BootstrapGate == BootstrapInv /\ [Next]_vars => GateInOrder'
<1>. SUFFICES ASSUME BootstrapInv, [Next]_vars PROVE GateInOrder'
  OBVIOUS
<1>. USE DEF GateInOrder
<1>0. /\ GateInOrder
      /\ gate \in [stage : {"pending", "fetched", "prepared", "initialized", "ready"},
                   active : BOOLEAN, invalid : BOOLEAN, closed : BOOLEAN]
      /\ late \subseteq Requests
      /\ req \in [Requests -> {"new", "asking", "reading", "again", "exchanged", "served",
                               "denied", "failed"}]
  BY DEF BootstrapInv, TypeOK
<1>1. CASE Authenticate \/ Prepare
  BY <1>0, <1>1 DEF Authenticate, Prepare, Stage, Open
<1>2. CASE Initialize
  <2>1. inits = 0
    BY <1>0, <1>2 DEF Initialize, Open
  <2>2. inits' = 1 /\ UNCHANGED <<req, late>>
    BY <2>1, <1>2 DEF Initialize
  <2>3. CASE Stage("initialized")
    BY <1>0, <2>2, <2>3 DEF Stage
  <2>4. CASE Invalidate
    BY <1>0, <2>2, <2>4 DEF Invalidate
  <2>. QED  BY <1>2, <2>3, <2>4 DEF Initialize
<1>3. CASE Activate
  BY <1>0, <1>3 DEF Activate, Invalidate, Open
<1>4. CASE Close
  BY <1>0, <1>4 DEF Close
<1>5. ASSUME NEW q \in Requests, Arrive(q) PROVE GateInOrder'
  <2>1. UNCHANGED <<gate, inits>> /\ late' \subseteq late \cup {q}
    BY <1>5 DEF Arrive
  <2>2. q \in late' => req'[q] = "denied"
    BY <1>0, <1>5 DEF Arrive, Answer, Leased, Open
  <2>3. \A r \in Requests : r # q => req'[r] = req[r]
    BY <1>0, <1>5 DEF Arrive, Answer
  <2>. QED  BY <1>0, <2>1, <2>2, <2>3
<1>6. ASSUME NEW q \in Requests, Authorize(q) \/ Exchange(q) \/ Serve(q) PROVE GateInOrder'
  BY <1>0, <1>6 DEF Authorize, Exchange, Serve, Answer, Invalidate
<1>7. CASE UNCHANGED host
  BY <1>0, <1>7
<1>8. ASSUME NEW p \in Operators,
             \/ Start(p) \/ Lookup(p) \/ Recover(p) \/ Check(p) \/ Upload(p)
             \/ Create(p) \/ Publish(p) \/ Fail(p)
      PROVE  UNCHANGED host
  BY <1>8 DEF Start, Lookup, Recover, Check, Upload, Create, Publish, Fail
<1>. QED
  BY <1>1, <1>2, <1>3, <1>4, <1>5, <1>6, <1>7, <1>8 DEF Next, Gate, Authority

(* What the publication may promise while anybody takes a step.            *)
Publication ==
    /\ \A p \in Operators : Uploads(p) /\ Publishes(p)
    /\ RecordIsWhole /\ OneRecord

LEMMA OthersUnmoved ==
    ASSUME TypeOK, Publication, UNCHANGED record,
           \A i \in 1..Chunks : chunk[i] # None => chunk'[i] = chunk[i],
           NEW p \in Operators, UNCHANGED <<pub[p], want[p], at[p]>>
    PROVE  Uploads(p)' /\ Publishes(p)'
<1>1. Uploads(p)'
  BY ChunksAssumption DEF Publication, Uploads
<1>. QED  BY <1>1 DEF Publication, Publishes

LEMMA BootstrapPublication ==
    ASSUME BootstrapInv, [Next]_vars PROVE Publication'
<1>. USE ChunksAssumption
<1>0. TypeOK /\ Publication
  BY DEF BootstrapInv, Publication
<1>. DEFINE Moves(p) == \A q \in Operators : q # p => UNCHANGED <<pub[q], want[q], at[q], got[q]>>
<1>1. ASSUME UNCHANGED <<store, publishers>> PROVE Publication'
  BY <1>0, <1>1 DEF Publication, Uploads, Publishes, RecordIsWhole, OneRecord
<1>2. ASSUME NEW p \in Operators, Start(p) \/ Lookup(p) \/ Check(p) \/ Fail(p) PROVE Publication'
  <2>1. UNCHANGED <<store, got>> /\ Moves(p)
    BY <1>0, <1>2 DEF Start, Lookup, Check, Fail, To, TypeOK
  <2>2. Uploads(p)' /\ Publishes(p)'
    BY <1>0, <1>2, <2>1
    DEF Start, Lookup, Check, Fail, To, TypeOK, Publication, Uploads, Uploading, Uploaded, Publishes
  <2>3. \A q \in Operators : q # p => Uploads(q)' /\ Publishes(q)'
    BY <1>0, <2>1, OthersUnmoved
  <2>. QED  BY <1>0, <2>1, <2>2, <2>3 DEF Publication, RecordIsWhole, OneRecord
<1>3. ASSUME NEW p \in Operators, Recover(p) \/ Publish(p) PROVE Publication'
  <2>1. UNCHANGED store /\ Moves(p) /\ got'[p] = record /\ pub'[p] = "done"
    BY <1>0, <1>3 DEF Recover, Publish, To, TypeOK, Publication, Publishes
  <2>2. Uploads(p)' /\ Publishes(p)'
    BY <2>1 DEF Uploads, Uploading, Uploaded, Publishes
  <2>3. \A q \in Operators : q # p => Uploads(q)' /\ Publishes(q)'
    BY <1>0, <2>1, OthersUnmoved
  <2>. QED  BY <1>0, <2>1, <2>2, <2>3 DEF Publication, RecordIsWhole, OneRecord
<1>4. ASSUME NEW p \in Operators, Upload(p) PROVE Publication'
  <2>1. /\ at[p] \in 1..Chunks /\ want[p] \in Contents
        /\ \A i \in 1..Chunks : i < at[p] => chunk[i] = want[p]
    BY <1>0, <1>4, UploadingOne DEF Publication
  <2>2. UNCHANGED <<record, want, got>> /\ Moves(p)
    BY <1>0, <1>4 DEF Upload, To, TypeOK
  <2>3. \A i \in 1..Chunks : chunk[i] # None => chunk'[i] = chunk[i]
    BY <1>0, <1>4, <2>1 DEF Upload, TypeOK
  <2>4. Uploads(p)' /\ Publishes(p)'
    <3>1. CASE Reusable(p)
      <4>1. \A i \in 1..Chunks : i < at[p] + 1 => chunk'[i] = want[p]
        <5>1. chunk' = [chunk EXCEPT ![at[p]] = IF @ = None THEN want[p] ELSE @]
          BY <1>4, <3>1 DEF Upload
        <5>2. chunk'[at[p]] = want[p]
          BY <1>0, <2>1, <3>1, <5>1 DEF Reusable, TypeOK
        <5>3. ASSUME NEW i \in 1..Chunks, i < at[p] PROVE chunk'[i] = want[p]
          BY <1>0, <2>1, <5>1, <5>3 DEF TypeOK
        <5>4. at[p] \in Nat
          BY <2>1
        <5>. QED  BY <5>2, <5>3, <5>4
      <4>2. at'[p] = at[p] + 1 /\ pub'[p] = IF at[p] = Chunks THEN "seal" ELSE "assets"
        BY <1>0, <1>4, <3>1 DEF Upload, To, TypeOK
      <4>. QED  BY <2>1, <2>2, <4>1, <4>2 DEF Uploads, Uploading, Uploaded, Publishes
    <3>2. CASE ~Reusable(p)
      BY <1>0, <1>4, <3>2 DEF Upload, To, TypeOK, Uploads, Uploading, Uploaded, Publishes
    <3>. QED  BY <3>1, <3>2
  <2>5. \A q \in Operators : q # p => Uploads(q)' /\ Publishes(q)'
    BY <1>0, <2>2, <2>3, OthersUnmoved
  <2>6. RecordIsWhole'
    BY <1>0, <2>2, <2>3 DEF Publication, RecordIsWhole, TypeOK, Records
  <2>. QED  BY <1>0, <2>2, <2>4, <2>5, <2>6 DEF Publication, OneRecord
<1>5. ASSUME NEW p \in Operators, Create(p) PROVE Publication'
  <2>1. UNCHANGED <<chunk, want, at, got>> /\ Moves(p) /\ pub[p] = "create"
    BY <1>0, <1>5 DEF Create, To, TypeOK
  <2>2. CASE record # None
    <3>1. UNCHANGED record /\ pub'[p] = "failed"
      BY <1>0, <1>5, <2>2 DEF Create, Creatable, To, TypeOK
    <3>2. \A q \in Operators : q # p => Uploads(q)' /\ Publishes(q)'
      BY <1>0, <2>1, <3>1, OthersUnmoved
    <3>. QED
      BY <1>0, <2>1, <3>1, <3>2
      DEF Publication, Uploads, Uploading, Uploaded, Publishes, RecordIsWhole, OneRecord
  <2>3. CASE record = None
    <3>1. record' = [content |-> want[p], by |-> p] /\ pub'[p] = "created"
      BY <1>0, <1>5, <2>3 DEF Create, Creatable, To, TypeOK
    <3>2. want[p] \in Contents /\ \A i \in 1..Chunks : chunk[i] = want[p]
      BY <1>0, <2>1 DEF Publication, Uploads, Uploaded, TypeOK
    <3>3. record' # None /\ \A q \in Operators : got[q] = None /\ pub[q] \notin {"created", "recover"}
      BY <1>0, <2>3, <3>1, <3>2 DEF Publication, OneRecord, Publishes, Uploads, Uploaded
    <3>4. \A q \in Operators : Uploads(q)' /\ Publishes(q)'
      BY <1>0, <2>1, <3>1, <3>3 DEF Publication, Uploads, Uploading, Uploaded, Publishes
    <3>. QED  BY <2>1, <3>1, <3>2, <3>3, <3>4 DEF Publication, RecordIsWhole, OneRecord
  <2>. QED  BY <2>2, <2>3
<1>6. Authority \/ Gate \/ Close => UNCHANGED <<store, publishers>>
  BY DEF Authority, Gate, Authenticate, Prepare, Initialize, Activate, Close
<1>7. ASSUME NEW q \in Requests, Arrive(q) \/ Authorize(q) \/ Exchange(q) \/ Serve(q)
      PROVE  UNCHANGED <<store, publishers>>
  BY <1>7 DEF Arrive, Authorize, Exchange, Serve
<1>. QED
  BY <1>1, <1>2, <1>3, <1>4, <1>5, <1>6, <1>7 DEF Next

LEMMA BootstrapStep == BootstrapInv /\ [Next]_vars => BootstrapInv'
  BY BootstrapTypes, BootstrapGate, BootstrapPublication DEF BootstrapInv, Publication

(* The inductive invariant of the publication and the gate.                *)
THEOREM BootstrapInvariant == Spec => []BootstrapInv
  BY BootstrapInit, BootstrapStep, PTL DEF Spec

(* Every variable of the bootstrap keeps its type (bootstrap_assets.py,    *)
(* bootstrap.py).                                                          *)
THEOREM BootstrapTypeOK == Spec => []TypeOK
<1>1. BootstrapInv => TypeOK
  BY DEF BootstrapInv
<1>. QED  BY <1>1, BootstrapInvariant, PTL

(* A published record has all its chunks, with its own content.            *)
THEOREM BootstrapRecordIsWhole == Spec => []RecordIsWhole
<1>1. BootstrapInv => RecordIsWhole
  BY DEF BootstrapInv
<1>. QED  BY <1>1, BootstrapInvariant, PTL

(* All operators that succeed return the one record there is.              *)
THEOREM BootstrapOneRecord == Spec => []OneRecord
<1>1. BootstrapInv => OneRecord
  BY DEF BootstrapInv
<1>. QED  BY <1>1, BootstrapInvariant, PTL

(* A gate that was refused stays shut, and initializes at most once.       *)
THEOREM BootstrapInvalidForGood == Spec => []InvalidForGood
<1>1. BootstrapInv => InvalidForGood
  BY DEF BootstrapInv, GateInOrder, InvalidForGood
<1>. QED  BY <1>1, BootstrapInvariant, PTL

-----------------------------------------------------------------------------
(* The publication implements a choice that is made once (DecideOnce).     *)

Chosen == {[record |-> r, assets |-> chunk] : r \in {record} \ {None}}
Told == [p \in Operators |-> {Whole(r) : r \in {got[p]} \ {None}}]

LEMMA PublishedIsWhole ==
    BootstrapInv /\ record # None => record \in Records /\ Chosen = {Whole(record)}
<1>. SUFFICES ASSUME BootstrapInv, record # None
     PROVE  record \in Records /\ Chosen = {Whole(record)}
  OBVIOUS
<1>1. record \in Records /\ chunk \in [1..Chunks -> Contents \cup {None}]
  BY DEF BootstrapInv, TypeOK
<1>2. chunk = [i \in 1..Chunks |-> record.content]
  BY <1>1 DEF BootstrapInv, RecordIsWhole
<1>. QED  BY <1>1, <1>2 DEF Chosen, Whole

(* A step publishes, tells one operator, or shows nothing new.             *)
LEMMA PublicationSteps ==
    ASSUME BootstrapInv, [Next]_vars
    PROVE  \/ UNCHANGED <<record, got>>
           \/ record = None /\ record' # None /\ UNCHANGED got
           \/ record # None /\ UNCHANGED record
              /\ \E p \in Operators : got' = [got EXCEPT ![p] = record]
<1>0. TypeOK /\ \A p \in Operators : Uploads(p) /\ Publishes(p)
  BY DEF BootstrapInv
<1>1. ASSUME NEW p \in Operators, Create(p)
      PROVE  \/ UNCHANGED <<record, got>>
             \/ record = None /\ record' # None /\ UNCHANGED got
  <2>1. want[p] \in Contents
    BY <1>0, <1>1 DEF Create, Uploads, Uploaded
  <2>2. [content |-> want[p], by |-> p] # None
    BY <2>1, ChunksAssumption
  <2>. QED  BY <1>1, <2>2 DEF Create, Creatable
<1>2. ASSUME NEW p \in Operators, Recover(p) \/ Publish(p)
      PROVE  record # None /\ UNCHANGED record /\ got' = [got EXCEPT ![p] = record]
  <2>1. CASE Recover(p)
    BY <1>0, <2>1 DEF Recover, Publishes
  <2>2. CASE Publish(p)
    <3>1. want[p] \in Contents /\ record = [content |-> want[p], by |-> p]
      BY <1>0, <2>2 DEF Publish, Publishes, Uploads, Uploaded
    <3>. QED  BY <2>2, <3>1, ChunksAssumption DEF Publish
  <2>. QED  BY <1>2, <2>1, <2>2
<1>3. ASSUME NEW p \in Operators, Start(p) \/ Lookup(p) \/ Check(p) \/ Upload(p) \/ Fail(p)
      PROVE  UNCHANGED <<record, got>>
  BY <1>3 DEF Start, Lookup, Check, Upload, Fail
<1>4. ASSUME Authority \/ Gate \/ Close \/ UNCHANGED vars PROVE UNCHANGED <<record, got>>
  BY <1>4 DEF Authority, Gate, Authenticate, Prepare, Initialize, Activate, Close
<1>5. ASSUME NEW q \in Requests, Arrive(q) \/ Authorize(q) \/ Exchange(q) \/ Serve(q)
      PROVE  UNCHANGED <<record, got>>
  BY <1>5 DEF Arrive, Authorize, Exchange, Serve
<1>. QED  BY <1>1, <1>2, <1>3, <1>4, <1>5 DEF Next

LEMMA DecisionStep ==
    ASSUME BootstrapInv, [Next]_vars
    PROVE  [Decision!Next]_<<Chosen, Told>>
<1>1. BootstrapInv'
  BY BootstrapStep
<1>2. /\ record = None => Chosen = {}
      /\ record # None => record \in Records /\ Chosen = {Whole(record)}
      /\ record' = None => Chosen' = {}
      /\ record' # None => record' \in Records /\ Chosen' = {Whole(record')}
  <2>1. (BootstrapInv /\ record # None => record \in Records /\ Chosen = {Whole(record)})'
    BY PublishedIsWhole, PTL
  <2>. QED  BY <1>1, <2>1, PublishedIsWhole DEF Chosen, Whole
<1>3. CASE UNCHANGED <<record, got>>
  BY <1>2, <1>3 DEF Told
<1>4. CASE record = None /\ record' # None /\ UNCHANGED got
  <2>1. Chosen = {} /\ Chosen' = {Whole(record')} /\ record' \in Records /\ Told' = Told
    BY <1>2, <1>4 DEF Told
  <2>2. Decision!Choose
    BY <2>1 DEF Decision!Choose, Chosen, Told
  <2>. QED  BY <2>2 DEF Decision!Next
<1>5. ASSUME record # None, UNCHANGED record,
             NEW p \in Operators, got' = [got EXCEPT ![p] = record]
      PROVE  Decision!Learn(p)
  <2>1. Chosen' = Chosen /\ Chosen = {Whole(record)}
    BY <1>2, <1>5
  <2>2. got \in [Operators -> Records \cup {None}]
    BY DEF BootstrapInv, TypeOK
  <2>3. Told' = [Told EXCEPT ![p] = {Whole(record)}]
    BY <1>5, <2>2 DEF Told
  <2>. QED  BY <2>1, <2>3 DEF Decision!Learn, Chosen, Told
<1>. QED  BY <1>3, <1>4, <1>5, PublicationSteps DEF Decision!Next

(* Commands for different contents that interleave, fail and start again   *)
(* choose one whole publication, once, and all that succeed return it.     *)
THEOREM BootstrapImplementsDecision == Spec => ImplementsDecision
<1>1. Init => Decision!Init
  BY DEF Init, Decision!Init
<1>2. BootstrapInv /\ [Next]_vars => [Decision!Next]_<<Chosen, Told>>
  BY DecisionStep
<1>. QED
  BY <1>1, <1>2, BootstrapInvariant, PTL DEF Spec, ImplementsDecision, Decision!Spec, Chosen, Told

(* So no operator is ever told another publication than the one that       *)
(* stands, and it stands for good.                                         *)
THEOREM BootstrapStandsForGood == Spec => []Decision!Agreement /\ Decision!ChosenForGood
<1>1. BootstrapInv => Decision!Agreement
  BY PublishedIsWhole DEF BootstrapInv, OneRecord, Decision!Agreement, Chosen
<1>2. [Decision!Next]_<<Chosen, Told>> => [Chosen # {} => Chosen' = Chosen]_<<Chosen, Told>>
  BY DEF Decision!Next, Decision!Choose, Decision!Learn, Chosen, Told
<1>. QED
  BY <1>1, <1>2, BootstrapInvariant, BootstrapImplementsDecision, PTL
  DEF ImplementsDecision, Decision!Spec, Decision!ChosenForGood, Chosen, Told

-----------------------------------------------------------------------------
(* Canvas.                                                                 *)

USE DEF Canvases!vars, Canvases!view, Canvases!watch

(* What an open has set up so far, and what the instance therefore has.    *)
CanvasInv ==
    /\ server \in [Opens -> {"none", "up", "closing", "closed"}]
    /\ watcher \in [Opens -> BOOLEAN]
    /\ DOMAIN opening = Opens
    /\ \A o \in Opens :
        /\ opening[o] \in {"attaching", "watching"} => server[o] = "up"
        /\ opening[o] = "watching" => watcher[o]
        /\ instances = o => opening[o] = "opened" /\ server[o] = "up" /\ watcher[o]
    /\ instances \in Opens \cup {None}

LEMMA CanvasStep == CanvasInv /\ [Canvases!Next]_Canvases!vars => CanvasInv'
<1>. SUFFICES ASSUME CanvasInv, [Canvases!Next]_Canvases!vars PROVE CanvasInv'
  OBVIOUS
<1>. USE NoneIsNoAttempt, CanvasAssumption DEF CanvasInv, Canvases!Goes
<1>1. ASSUME NEW o \in Opens, Canvases!Open(o) \/ Canvases!Projected(o) PROVE CanvasInv'
  BY <1>1 DEF Canvases!Open, Canvases!Projected
<1>2. ASSUME NEW o \in Opens, Canvases!Serve(o) PROVE CanvasInv'
  BY <1>2 DEF Canvases!Serve
<1>3. ASSUME NEW o \in Opens, Canvases!Attach(o) PROVE CanvasInv'
  BY <1>3 DEF Canvases!Attach
<1>4. ASSUME NEW o \in Opens, Canvases!Opened(o) PROVE CanvasInv'
  BY <1>4 DEF Canvases!Opened
<1>5. ASSUME NEW o \in Opens, Canvases!OpenFails(o) PROVE CanvasInv'
  BY <1>5 DEF Canvases!OpenFails
<1>6. ASSUME NEW o \in Opens, Canvases!Close(o) PROVE CanvasInv'
  BY <1>6 DEF Canvases!Close, Canvases!Forgets
<1>7. ASSUME NEW o \in Opens, Canvases!Closed(o) PROVE CanvasInv'
  BY <1>7 DEF Canvases!Closed
<1>8. ASSUME NEW o \in Opens, Canvases!Fire(o) PROVE CanvasInv'
  BY <1>8 DEF Canvases!Fire
<1>9. ASSUME NEW o \in Opens,
             \/ Canvases!Schedule(o) \/ Canvases!Refresh(o)
             \/ \E p \in running[o] : Canvases!Shows(o, p) \/ Canvases!Fails(o, p)
      PROVE  CanvasInv'
  BY <1>9 DEF Canvases!Schedule, Canvases!Refresh, Canvases!Shows, Canvases!Fails
<1>10. CASE Canvases!Edit \/ UNCHANGED Canvases!vars
  BY <1>10 DEF Canvases!Edit
<1>. QED
  BY <1>1, <1>2, <1>3, <1>4, <1>5, <1>6, <1>7, <1>8, <1>9, <1>10 DEF Canvases!Next

(* A canvas that open hands out has a server that is up and a watcher, for *)
(* any number of overlapping opens.                                        *)
THEOREM CanvasOpenIsServed == Canvases!Spec => []OpenIsServed
<1>1. Canvases!Init => CanvasInv
  BY NoneIsNoAttempt, CanvasAssumption DEF Canvases!Init, CanvasInv
<1>2. CanvasInv => OpenIsServed
  BY DEF CanvasInv, OpenIsServed, Canvases!OpenIsServed
<1>. QED  BY <1>1, <1>2, CanvasStep, PTL DEF Canvases!Spec

(* What a canvas shows is a state of its workspace, and every variable     *)
(* keeps its type (canvas-provider.mjs, workspace-watcher.mjs).            *)
THEOREM CanvasTypeOK == Canvases!Spec => []Canvases!TypeOK
<1>. USE NoneIsNoAttempt, CanvasAssumption
     DEF Canvases!TypeOK, Canvases!Versions, Canvases!Projections, Canvases!Goes
<1>1. Canvases!Init => Canvases!TypeOK
  BY DEF Canvases!Init
<1>2. Canvases!TypeOK /\ [Canvases!Next]_Canvases!vars => Canvases!TypeOK'
  <2>. SUFFICES ASSUME Canvases!TypeOK, [Canvases!Next]_Canvases!vars PROVE Canvases!TypeOK'
    OBVIOUS
  <2>1. ASSUME NEW o \in Opens, Canvases!Open(o) \/ Canvases!Projected(o) PROVE Canvases!TypeOK'
    <3>1. CASE Canvases!Open(o)
      BY <3>1 DEF Canvases!Open
    <3>2. CASE Canvases!Projected(o)
      BY <3>2 DEF Canvases!Projected
    <3>. QED  BY <2>1, <3>1, <3>2
  <2>2. ASSUME NEW o \in Opens,
               \/ Canvases!Serve(o) \/ Canvases!Attach(o) \/ Canvases!Opened(o)
               \/ Canvases!OpenFails(o) \/ Canvases!Close(o) \/ Canvases!Closed(o)
        PROVE  Canvases!TypeOK'
    <3>1. CASE Canvases!Serve(o) \/ Canvases!Attach(o) \/ Canvases!Opened(o)
      BY <3>1 DEF Canvases!Serve, Canvases!Attach, Canvases!Opened
    <3>2. CASE Canvases!OpenFails(o)
      BY <3>2 DEF Canvases!OpenFails
    <3>3. CASE Canvases!Close(o) \/ Canvases!Closed(o)
      BY <3>3 DEF Canvases!Close, Canvases!Closed, Canvases!Forgets
    <3>. QED  BY <2>2, <3>1, <3>2, <3>3
  <2>3. ASSUME NEW o \in Opens, Canvases!Schedule(o) PROVE Canvases!TypeOK'
    BY <2>3 DEF Canvases!Schedule, Canvases!Restarts
  <2>4. ASSUME NEW o \in Opens, Canvases!Fire(o) PROVE Canvases!TypeOK'
    BY <2>4 DEF Canvases!Fire, Canvases!Starts
  <2>5. ASSUME NEW o \in Opens, Canvases!Refresh(o) PROVE Canvases!TypeOK'
    BY <2>5 DEF Canvases!Refresh, Canvases!Starts
  <2>6. ASSUME NEW o \in Opens, NEW q \in running[o], Canvases!Shows(o, q) PROVE Canvases!TypeOK'
    BY <2>6 DEF Canvases!Shows, Canvases!Ends
  <2>7. ASSUME NEW o \in Opens, NEW q \in running[o], Canvases!Fails(o, q) PROVE Canvases!TypeOK'
    BY <2>7 DEF Canvases!Fails, Canvases!Ends
  <2>8. CASE Canvases!Edit
    BY <2>8 DEF Canvases!Edit
  <2>9. CASE UNCHANGED Canvases!vars
    BY <2>9
  <2>. QED  BY <2>1, <2>2, <2>3, <2>4, <2>5, <2>6, <2>7, <2>8, <2>9 DEF Canvases!Next
<1>. QED  BY <1>1, <1>2, PTL DEF Canvases!Spec

-----------------------------------------------------------------------------
(* Coming up and being taken down is each of the three, whichever moves:   *)
(* none reads or writes what is another's.                                 *)
THEOREM HostingIsAll == HostingSpec => Spec /\ Lifecycle!Spec /\ Canvases!Spec
<1>1. HostingInit => Init /\ Lifecycle!Init /\ Canvases!Init
  BY DEF HostingInit
<1>2. [HostingNext]_<<part, vars, lifecycle, showing>>
        => [Next]_vars /\ [Lifecycle!Next]_Lifecycle!vars /\ [Canvases!Next]_Canvases!vars
  BY DEF HostingNext, lifecycle, showing
<1>. QED  BY <1>1, <1>2, PTL DEF HostingSpec, Spec, Lifecycle!Spec, Canvases!Spec

(* Everything the run on MCHosting checks except its liveness, for any     *)
(* number of operators, contents, chunks, requests, commands, attempt      *)
(* files, versions, opens and edits (bootstrap_assets.py, bootstrap.py,    *)
(* hosted_lifecycle.py, canvas-provider.mjs).                              *)
THEOREM HostingIsCorrect ==
    HostingSpec =>
        /\ [](InvalidForGood /\ CreatedOnce /\ OpenIsServed)
        /\ ImplementsDecision /\ RouteFixedOnce
<1>. QED
  BY HostingIsAll, BootstrapInvalidForGood, LifecycleCreatedOnce, CanvasOpenIsServed,
     BootstrapImplementsDecision, LifecycleRouteFixedOnce, PTL
=============================================================================
