---------------------------- MODULE ClusterStore -----------------------------
(***************************************************************************)
(* cluster.Store of one node, Self, for one provider: the heartbeats and   *)
(* health observations it receives from Peers, its own, and the health     *)
(* GetProviderHealth derives from them for the router.  Providers do not   *)
(* share state, so one stands for all.                                     *)
(*                                                                         *)
(* The bus (NATS) may deliver a published event late, twice or never, and  *)
(* not in the order of publication.  An event is its own EventID.          *)
(* Each subscription's callback runs in a goroutine of its own: it marks   *)
(* the event seen, and takes the lock again to store it (Receive, then     *)
(* SetNode or SetObservation); the cleanup loop and the clock run between. *)
(* A node's own publication is one step: nobody else has the event before  *)
(* Bus.Publish, the last thing it does.  Clocks are synchronised to the    *)
(* tick.                                                                   *)
(***************************************************************************)
EXTENDS Integers, FiniteSets

CONSTANTS
    Self, Peers,
    Statuses,         \* verdicts of the health observers, "UNKNOWN" among them
    ClusterSize,      \* CLUSTER_SIZE
    ObservationTTL, NodeTTL, SeenTTL,
    MaxTime,          \* bound on the clock
    MaxPublished      \* bound on the events of a behaviour

Nodes == Peers \cup {Self}

ASSUME StoreAssumption ==
    /\ Self \notin Peers
    /\ IsFiniteSet(Peers)
    /\ "UNKNOWN" \in Statuses
    /\ ClusterSize \in Nat \ {0}                  \* NewStore
    /\ {ObservationTTL, NodeTTL, SeenTTL, MaxTime, MaxPublished} \subseteq Nat

(* The constants at the head of store.go. *)
ASSUME TTLAssumption == ObservationTTL <= SeenTTL

Heartbeats == [kind : {"heartbeat"}, node : Nodes, timestamp : Nat, version : Nat]
Observations == [kind : {"health"}, node : Nodes, timestamp : Nat, version : Nat,
                 status : Statuses]
Events == Heartbeats \cup Observations
Kinds == {"heartbeat", "health"}

None == [kind |-> "none"]

VARIABLES
    now,
    version,            \* each node's event counter; lost in a restart
    published,          \* what the bus may deliver, again and again
    nodes,              \* LastSeen of each known node
    observations,       \* latest observation of each node, or None
    local,              \* SetLocalProviderHealth's status; "none" before
    seen,               \* events seen, with the time
    heartbeatEnabled,
    handling,           \* event each subscription is about to store, or None
    applied             \* history: events stored or compared so far

store == <<nodes, observations, local, seen, heartbeatEnabled>>
vars == <<now, version, published, store, handling, applied>>

Init ==
    /\ now = 0
    /\ version = [n \in Nodes |-> 0]
    /\ published = {}
    /\ nodes = [n \in {} |-> 0]
    /\ observations = [n \in Nodes |-> None]
    /\ local = "none"
    /\ seen = [e \in {} |-> 0]
    /\ heartbeatEnabled = TRUE
    /\ handling = [k \in Kinds |-> None]
    /\ applied = {}

-----------------------------------------------------------------------------
With(f, x, y) == [z \in DOMAIN f \cup {x} |-> IF z = x THEN y ELSE f[z]]

(* An event a node stamps now. *)
Heartbeat(n) == [kind |-> "heartbeat", node |-> n, timestamp |-> now,
                 version |-> version[n] + 1]
Observation(n, s) == [kind |-> "health", node |-> n, timestamp |-> now,
                      version |-> version[n] + 1, status |-> s]

Publish(e) ==
    /\ Cardinality(published) < MaxPublished
    /\ version' = [version EXCEPT ![e.node] = @ + 1]
    /\ published' = published \cup {e}

(* Slip: a node counts as seen when its heartbeat is handled. *)
NodesAfter_SeenNow(e) == With(nodes, e.node, now)

(* setNode: a heartbeat older than the last one is ignored. *)
NodesAfter(e) ==
    IF e.node \in DOMAIN nodes /\ e.timestamp < nodes[e.node]
    THEN nodes ELSE With(nodes, e.node, e.timestamp)

(* setObservation: so is an observation that is older than the stored one, *)
(* or as old without being a later version.                                *)
Supersedes(e, old) ==
    \/ old = None
    \/ e.timestamp > old.timestamp
    \/ e.timestamp = old.timestamp /\ e.version > old.version

(* Slip: the last observation to arrive is kept. *)
ObservationsAfter_LastArrived(e) == [observations EXCEPT ![e.node] = e]

ObservationsAfter(e) ==
    IF Supersedes(e, observations[e.node])
    THEN [observations EXCEPT ![e.node] = e] ELSE observations

-----------------------------------------------------------------------------
PublishHeartbeat ==
    LET e == Heartbeat(Self)
    IN  /\ heartbeatEnabled
        /\ Publish(e)
        /\ seen' = With(seen, e, now)
        /\ nodes' = NodesAfter(e)
        /\ applied' = applied \cup {e}
        /\ UNCHANGED <<now, observations, local, heartbeatEnabled, handling>>

SetHeartbeatEnabled ==
    /\ heartbeatEnabled' = ~heartbeatEnabled
    /\ UNCHANGED <<now, version, published, nodes, observations, local, seen,
                   handling, applied>>

SetLocalProviderHealth(s) ==
    /\ local' = s
    /\ UNCHANGED <<now, version, published, nodes, observations, seen,
                   heartbeatEnabled, handling, applied>>

(* The observer publishes what it has just set. *)
PublishProviderHealth ==
    LET e == Observation(Self, local)
    IN  /\ local # "none"
        /\ Publish(e)
        /\ seen' = With(seen, e, now)
        /\ observations' = ObservationsAfter(e)
        /\ applied' = applied \cup {e}
        /\ UNCHANGED <<now, nodes, local, heartbeatEnabled, handling>>

(* A peer does the same, as far as this node can tell.  A restart loses    *)
(* its counter and takes at least a tick.                                  *)
PeerPublishes(p) ==
    /\ \/ Publish(Heartbeat(p))
       \/ \E s \in Statuses : Publish(Observation(p, s))
    /\ UNCHANGED <<now, store, handling, applied>>

PeerRestarts(p) ==
    /\ \A e \in published : e.node = p => e.timestamp < now
    /\ version' = [version EXCEPT ![p] = 0]
    /\ UNCHANGED <<now, published, store, handling, applied>>

(* Slip: an expired observation is handled like any other. *)
Expired_Never(e) == FALSE

(* handleProviderHealth drops expired observations; handleHeartbeat does   *)
(* not.                                                                    *)
Expired(e) == e.kind = "health" /\ now - e.timestamp > ObservationTTL

(* The subscription's callback, up to the lock that stores the event.  A   *)
(* seen event has no effect.                                               *)
Receive(e) ==
    /\ handling[e.kind] = None
    /\ e \notin DOMAIN seen
    /\ seen' = With(seen, e, now)
    /\ handling' = IF Expired(e) THEN handling ELSE [handling EXCEPT ![e.kind] = e]
    /\ UNCHANGED <<now, version, published, nodes, observations, local,
                   heartbeatEnabled, applied>>

SetNode ==
    LET e == handling["heartbeat"]
    IN  /\ e # None
        /\ nodes' = NodesAfter(e)
        /\ handling' = [handling EXCEPT !["heartbeat"] = None]
        /\ applied' = applied \cup {e}
        /\ UNCHANGED <<now, version, published, observations, local, seen,
                       heartbeatEnabled>>

SetObservation ==
    LET e == handling["health"]
    IN  /\ e # None
        /\ observations' = ObservationsAfter(e)
        /\ handling' = [handling EXCEPT !["health"] = None]
        /\ applied' = applied \cup {e}
        /\ UNCHANGED <<now, version, published, nodes, local, seen, heartbeatEnabled>>

(* Slip: an observation is removed while the router may still count it. *)
Cleanup_Early ==
    /\ seen' = [e \in {x \in DOMAIN seen : now - seen[x] <= SeenTTL} |-> seen[e]]
    /\ observations' = [n \in Nodes |->
            IF observations[n] # None /\ now - observations[n].timestamp >= ObservationTTL
            THEN None ELSE observations[n]]
    /\ UNCHANGED <<now, version, published, nodes, local, heartbeatEnabled,
                   handling, applied>>

(* Nodes are never removed. *)
Cleanup ==
    /\ seen' = [e \in {x \in DOMAIN seen : now - seen[x] <= SeenTTL} |-> seen[e]]
    /\ observations' = [n \in Nodes |->
            IF observations[n] # None /\ now - observations[n].timestamp > ObservationTTL
            THEN None ELSE observations[n]]
    /\ UNCHANGED <<now, version, published, nodes, local, heartbeatEnabled,
                   handling, applied>>

Tick ==
    /\ now < MaxTime
    /\ now' = now + 1
    /\ UNCHANGED <<version, published, store, handling, applied>>

Next ==
    \/ PublishHeartbeat \/ SetHeartbeatEnabled \/ PublishProviderHealth
    \/ \E s \in Statuses : SetLocalProviderHealth(s)
    \/ \E p \in Peers : PeerPublishes(p) \/ PeerRestarts(p)
    \/ \E e \in published : Receive(e)
    \/ SetNode \/ SetObservation \/ Cleanup \/ Tick

Spec == Init /\ [][Next]_vars

-----------------------------------------------------------------------------
(* GetProviderHealth: the observations it counts, and its status; where Go *)
(* ranges over a map the choice is any.                                    *)
Alive(n) == n = Self \/ (n \in DOMAIN nodes /\ now - nodes[n] <= NodeTTL)

Recent == {n \in Nodes : /\ observations[n] # None
                         /\ now - observations[n].timestamp <= ObservationTTL
                         /\ Alive(n)}

Votes(s) == {n \in Recent : observations[n].status = s}
Required == ClusterSize \div 2 + 1
Majorities == {s \in Statuses \ {"UNKNOWN"} : Cardinality(Votes(s)) >= Required}
Latest == {n \in Recent :
              \A m \in Recent : observations[m].timestamp <= observations[n].timestamp}

HealthStatus ==
    IF Recent = {} THEN {IF local = "none" THEN "UNKNOWN" ELSE local}
    ELSE IF Majorities # {} THEN Majorities
    ELSE {observations[n].status : n \in Latest}

-----------------------------------------------------------------------------
TypeOK ==
    /\ now \in 0 .. MaxTime
    /\ version \in [Nodes -> Nat]
    /\ published \subseteq Events
    /\ DOMAIN nodes \subseteq Nodes
    /\ nodes \in [DOMAIN nodes -> Nat]
    /\ observations \in [Nodes -> Observations \cup {None}]
    /\ local \in Statuses \cup {"none"}
    /\ DOMAIN seen \subseteq published
    /\ \A e \in DOMAIN seen : seen[e] \in Nat
    /\ heartbeatEnabled \in BOOLEAN
    /\ handling \in [Kinds -> Events \cup {None}]
    /\ applied \subseteq published

(* No two events of a node are stamped alike: a counter restarts only when *)
(* the clock has moved on.                                                 *)
StampsUnique == \A e \in published :
    /\ e.timestamp <= now
    /\ e.timestamp = now => e.version <= version[e.node]

(* An observation this node has stored, or is about to, stays seen until   *)
(* it has expired, so its callback never runs a second time.               *)
SeenLongEnough == \A e \in applied \cup {handling["health"]} :
    (e.kind = "health" /\ now - e.timestamp <= ObservationTTL) => e \in DOMAIN seen
SeenAfterStamp == \A e \in DOMAIN seen : e.timestamp <= seen[e]
HandledOnce == \A k \in Kinds : LET e == handling[k] IN
    e # None => /\ e \in published /\ e.kind = k
                /\ k = "health" => e \notin applied

(* What was stored and has not expired is stored still, or superseded. *)
HeartbeatsKept == \A e \in applied : e.kind = "heartbeat" =>
    (e.node \in DOMAIN nodes /\ e.timestamp <= nodes[e.node])
ObservationsKept == \A e \in applied :
    (e.kind = "health" /\ now - e.timestamp <= ObservationTTL) =>
        (e = observations[e.node] \/ ~Supersedes(e, observations[e.node]))

(* What is stored was published. *)
HeartbeatsReal == \A n \in DOMAIN nodes : \E e \in published :
    e.kind = "heartbeat" /\ e.node = n /\ e.timestamp = nodes[n]
ObservationsReal == \A n \in Nodes :
    observations[n] # None => observations[n] \in published /\ observations[n].node = n

(* The invariant behind the properties below: handleHeartbeat,             *)
(* handleProviderHealth, cleanup and the node's own publications keep what *)
(* is stored, seen and in hand consistent between their locked sections.   *)
IndInv ==
    /\ TypeOK /\ StampsUnique
    /\ SeenAfterStamp /\ SeenLongEnough /\ HandledOnce
    /\ HeartbeatsKept /\ ObservationsKept
    /\ HeartbeatsReal /\ ObservationsReal

(* The router decides on the newest word of every node it counts: however  *)
(* late, doubled or reordered observations arrive, and whatever cleanup    *)
(* removes between a callback's two locks, no observation that has been    *)
(* superseded is counted again (failure-model.md, out-of-order events).    *)
NewestCounted == \A n \in Recent : \A e \in applied :
    (e.kind = "health" /\ e.node = n) =>
        (e = observations[n] \/ ~Supersedes(e, observations[n]))

(* "A dead node's observations are dropped the moment its heartbeat        *)
(* expires" (devpost.md): a peer is counted only if it sent a heartbeat    *)
(* within NodeTTL, however long the heartbeat travelled and however recent *)
(* its observations are.                                                   *)
DeadDropped == \A n \in Recent \ {Self} : \E e \in published :
    e.kind = "heartbeat" /\ e.node = n /\ now - e.timestamp <= NodeTTL

(* An event handled before changes nothing when it is handled again, also  *)
(* after its EventID was cleaned up (failure-model.md, duplicate events).  *)
ReplayHarmless ==
    [][ /\ (SetNode /\ handling["heartbeat"] \in applied) => nodes' = nodes
        /\ (SetObservation /\ handling["health"] \in applied)
              => observations' = observations ]_vars
=============================================================================
