------------------------- MODULE ClusterStoreProofs -------------------------
(***************************************************************************)
(* Proofs that IndInv of ClusterStore is inductive, and of what the router *)
(* may rely on because of it.                                              *)
(***************************************************************************)
EXTENDS ClusterStore, FiniteSetTheorems, TLAPS

(* The fields every event has, of either kind. *)
LEMMA EventFields ==
    ASSUME NEW e \in Events
    PROVE  /\ e.kind \in Kinds /\ e.node \in Nodes
           /\ e.timestamp \in Nat /\ e.version \in Nat /\ e # None
  BY DEF Events, Heartbeats, Observations, Kinds, None

(* The events a node stamps are events, of this tick and the next version. *)
LEMMA Stamped ==
    ASSUME TypeOK, NEW n \in Nodes, NEW s \in Statuses
    PROVE  /\ Heartbeat(n) \in Events /\ Observation(n, s) \in Events
           /\ Observation(n, s) \in Observations
           /\ Heartbeat(n).kind = "heartbeat" /\ Observation(n, s).kind = "health"
           /\ \A e \in {Heartbeat(n), Observation(n, s)} :
                  e.node = n /\ e.timestamp = now /\ e.version = version[n] + 1
  <1>1. now \in Nat /\ version[n] + 1 \in Nat
    BY DEF TypeOK
  <1> QED
    BY <1>1 DEF Heartbeat, Observation, Events, Heartbeats, Observations

(* setObservation's order: what does not supersede an observation does not *)
(* supersede one that does, nor does the observation itself.               *)
LEMMA Order ==
    ASSUME NEW a \in Events, NEW b \in Events, NEW old \in Events,
           Supersedes(b, old), a = old \/ ~Supersedes(a, old)
    PROVE  a = b \/ ~Supersedes(a, b)
  BY EventFields DEF Supersedes

-----------------------------------------------------------------------------
(* A new store satisfies it. *)
LEMMA IndInvInit == Init => IndInv
  <1> SUFFICES ASSUME Init PROVE IndInv
    OBVIOUS
  <1> USE StoreAssumption DEF Init
  <1>1. TypeOK
    BY DEF TypeOK
  <1>2. StampsUnique /\ SeenLongEnough /\ SeenAfterStamp /\ HandledOnce
    BY DEF StampsUnique, SeenLongEnough, SeenAfterStamp, HandledOnce, None, Kinds
  <1>3. HeartbeatsKept /\ ObservationsKept /\ HeartbeatsReal /\ ObservationsReal
    BY DEF HeartbeatsKept, ObservationsKept, HeartbeatsReal, ObservationsReal
  <1> QED
    BY <1>1, <1>2, <1>3 DEF IndInv

(* Storing an event that is typed and published keeps what was stored:     *)
(* setNode for a heartbeat.                                                *)
LEMMA NodesStep ==
    ASSUME IndInv, NEW e \in Events, e.kind = "heartbeat",
           nodes' = NodesAfter(e), applied' = applied \cup {e},
           e \in published', published \subseteq published'
    PROVE  /\ DOMAIN nodes' \subseteq Nodes
           /\ nodes' \in [DOMAIN nodes' -> Nat]
           /\ HeartbeatsKept' /\ HeartbeatsReal'
  <1> USE DEF IndInv
  <1>0. /\ e.node \in Nodes /\ e.timestamp \in Nat
        /\ DOMAIN nodes \subseteq Nodes
        /\ nodes \in [DOMAIN nodes -> Nat]
        /\ applied \subseteq Events
    BY EventFields DEF TypeOK
  <1>1. /\ DOMAIN nodes' = DOMAIN nodes \cup {e.node}
        /\ nodes'[e.node] \in Nat /\ e.timestamp <= nodes'[e.node]
        /\ \/ nodes'[e.node] = e.timestamp
           \/ e.node \in DOMAIN nodes /\ nodes'[e.node] = nodes[e.node]
        /\ \A z \in DOMAIN nodes : z # e.node => nodes'[z] = nodes[z]
        /\ e.node \in DOMAIN nodes => nodes[e.node] <= nodes'[e.node]
        /\ nodes' = [z \in DOMAIN nodes' |-> nodes'[z]]
    <2>1. CASE e.node \in DOMAIN nodes /\ e.timestamp < nodes[e.node]
      BY <2>1, <1>0 DEF NodesAfter
    <2>2. CASE ~(e.node \in DOMAIN nodes /\ e.timestamp < nodes[e.node])
      <3>1. nodes' = With(nodes, e.node, e.timestamp)
        BY <2>2 DEF NodesAfter
      <3>2. /\ DOMAIN nodes' = DOMAIN nodes \cup {e.node}
            /\ nodes'[e.node] = e.timestamp
            /\ \A z \in DOMAIN nodes : z # e.node => nodes'[z] = nodes[z]
            /\ nodes' = [z \in DOMAIN nodes' |-> nodes'[z]]
        BY <3>1 DEF With
      <3> QED
        BY <3>2, <2>2, <1>0
    <2> QED
      BY <2>1, <2>2
  <1>2. DOMAIN nodes' \subseteq Nodes /\ nodes' \in [DOMAIN nodes' -> Nat]
    <2>1. \A n \in DOMAIN nodes' : nodes'[n] \in Nat
      BY <1>0, <1>1
    <2> QED
      BY <1>0, <1>1, <2>1
  <1>3. HeartbeatsKept'
    <2> SUFFICES ASSUME NEW a \in applied', a.kind = "heartbeat"
                 PROVE  a.node \in DOMAIN nodes' /\ a.timestamp <= nodes'[a.node]
      BY DEF HeartbeatsKept
    <2>1. CASE a = e
      BY <2>1, <1>1
    <2>2. CASE a \in applied
      <3>1. a.timestamp \in Nat
        BY <2>2, <1>0, EventFields
      <3>2. a.node \in DOMAIN nodes /\ a.timestamp <= nodes[a.node]
        BY <2>2 DEF HeartbeatsKept
      <3> QED
        BY <3>1, <3>2, <1>0, <1>1, <1>2
    <2> QED
      BY <2>1, <2>2
  <1>4. HeartbeatsReal'
    <2> SUFFICES ASSUME NEW n \in DOMAIN nodes'
                 PROVE  \E a \in published' : /\ a.kind = "heartbeat" /\ a.node = n
                                              /\ a.timestamp = nodes'[n]
      BY DEF HeartbeatsReal
    <2>1. CASE n = e.node /\ nodes'[n] = e.timestamp
      BY <2>1
    <2>2. CASE n \in DOMAIN nodes /\ nodes'[n] = nodes[n]
      BY <2>2 DEF HeartbeatsReal
    <2> QED
      BY <2>1, <2>2, <1>1
  <1> QED
    BY <1>2, <1>3, <1>4

(* The same for setObservation. *)
LEMMA ObservationsStep ==
    ASSUME IndInv, NEW e \in Observations,
           observations' = ObservationsAfter(e), applied' = applied \cup {e},
           e \in published', published \subseteq published', now' = now
    PROVE  /\ observations' \in [Nodes -> Observations \cup {None}]
           /\ ObservationsKept' /\ ObservationsReal'
  <1> USE DEF IndInv
  <1>0. /\ e \in Events /\ e.node \in Nodes /\ e # None
        /\ observations \in [Nodes -> Observations \cup {None}]
        /\ Observations \subseteq Events /\ applied \subseteq Events
    BY EventFields DEF TypeOK, Events
  <1>1. /\ observations' \in [Nodes -> Observations \cup {None}]
        /\ observations'[e.node] =
              IF Supersedes(e, observations[e.node]) THEN e ELSE observations[e.node]
        /\ \A n \in Nodes : n # e.node => observations'[n] = observations[n]
    BY <1>0 DEF ObservationsAfter
  <1>2. ObservationsKept'
    <2> SUFFICES ASSUME NEW a \in applied', a.kind = "health",
                        now - a.timestamp <= ObservationTTL
                 PROVE  \/ a = observations'[a.node]
                        \/ ~Supersedes(a, observations'[a.node])
      BY DEF ObservationsKept
    <2>1. CASE a = e
      BY <2>1, <1>1
    <2>2. CASE a \in applied /\ a.node # e.node
      BY <2>2, <1>0, <1>1, EventFields DEF ObservationsKept
    <2>3. CASE a \in applied /\ a.node = e.node
      <3> DEFINE old == observations[e.node]
      <3>1. a = old \/ ~Supersedes(a, old)
        BY <2>3 DEF ObservationsKept
      <3>2. CASE ~Supersedes(e, old)
        BY <3>1, <3>2, <2>3, <1>1
      <3>3. CASE Supersedes(e, old)
        <4>1. old # None
          <5>1. a \in Events /\ a # None
            BY <2>3, <1>0, EventFields
          <5> QED
            BY <5>1, <3>1 DEF Supersedes
        <4>2. old \in Events
          BY <4>1, <1>0
        <4>3. a = e \/ ~Supersedes(a, e)
          BY <4>2, <3>1, <3>3, <2>3, <1>0, Order
        <4> QED
          BY <4>3, <3>3, <2>3, <1>1
      <3> QED
        BY <3>2, <3>3
    <2> QED
      BY <2>1, <2>2, <2>3
  <1>3. ObservationsReal'
    BY <1>0, <1>1 DEF ObservationsReal
  <1> QED
    BY <1>1, <1>2, <1>3

-----------------------------------------------------------------------------
(* A node's own event is new: nothing published bears its stamp. *)
LEMMA OwnEventNew ==
    ASSUME IndInv, NEW e \in Events, e.timestamp = now,
           e.version = version[e.node] + 1
    PROVE  e \notin published
  <1>1. version[e.node] \in Nat
    BY EventFields DEF IndInv, TypeOK
  <1> QED
    BY <1>1 DEF IndInv, StampsUnique

(* Publishing an event stamped now keeps stamps unique. *)
LEMMA PublishStep ==
    ASSUME IndInv, NEW e \in Events, e.timestamp = now,
           e.version = version[e.node] + 1, Publish(e), now' = now
    PROVE  /\ version' \in [Nodes -> Nat] /\ published' \subseteq Events
           /\ published \subseteq published' /\ e \in published'
           /\ StampsUnique'
  <1> USE DEF IndInv
  <1>1. /\ version \in [Nodes -> Nat] /\ e.node \in Nodes /\ now \in Nat
        /\ version' = [version EXCEPT ![e.node] = @ + 1]
        /\ published' = published \cup {e} /\ published \subseteq Events
    BY EventFields DEF TypeOK, Publish
  <1>2. version' \in [Nodes -> Nat] /\ published' \subseteq Events
    BY <1>1
  <1>3. StampsUnique'
    <2> SUFFICES ASSUME NEW a \in published'
                 PROVE  /\ a.timestamp <= now
                        /\ a.timestamp = now => a.version <= version'[a.node]
      BY DEF StampsUnique
    <2>1. a.timestamp \in Nat /\ a.version \in Nat /\ a.node \in Nodes
      BY <1>1, EventFields
    <2>2. version[a.node] <= version'[a.node] /\ version[a.node] \in Nat
      BY <1>1, <2>1
    <2>3. CASE a = e
      BY <2>3, <1>1
    <2>4. CASE a \in published
      BY <2>4, <2>1, <2>2, <1>2 DEF StampsUnique
    <2> QED
      BY <2>3, <2>4, <1>1
  <1> QED
    BY <1>1, <1>2, <1>3

(* More published events do no harm to what was stored. *)
LEMMA StoredStillReal ==
    ASSUME IndInv, published \subseteq published'
    PROVE  /\ UNCHANGED nodes => HeartbeatsReal'
           /\ UNCHANGED observations => ObservationsReal'
  BY DEF IndInv, HeartbeatsReal, ObservationsReal

(* publishHeartbeat keeps the invariant: the event is marked seen and       *)
(* stored, and its stamp is new.                                           *)
LEMMA PublishHeartbeatStep == ASSUME IndInv, PublishHeartbeat PROVE IndInv'
  <1> DEFINE e == Heartbeat(Self)
  <1>1. /\ Publish(e) /\ seen' = With(seen, e, now)
        /\ nodes' = NodesAfter(e) /\ applied' = applied \cup {e}
        /\ UNCHANGED <<now, observations, local, heartbeatEnabled, handling>>
    BY DEF PublishHeartbeat
  <1>2. /\ e \in Events /\ e.kind = "heartbeat" /\ e.node = Self
        /\ e.timestamp = now /\ e.version = version[e.node] + 1
    BY Stamped, StoreAssumption DEF IndInv, Nodes
  <1> HIDE DEF e
  <1>3. /\ version' \in [Nodes -> Nat] /\ published' \subseteq Events
        /\ published \subseteq published' /\ e \in published' /\ StampsUnique'
    BY <1>1, <1>2, PublishStep
  <1>4. /\ DOMAIN nodes' \subseteq Nodes
        /\ nodes' \in [DOMAIN nodes' -> Nat]
        /\ HeartbeatsKept' /\ HeartbeatsReal'
    BY <1>1, <1>2, <1>3, NodesStep
  <1>5. /\ DOMAIN seen' = DOMAIN seen \cup {e}
        /\ \A x \in DOMAIN seen' : seen'[x] = IF x = e THEN now ELSE seen[x]
    BY <1>1 DEF With
  <1>6. TypeOK'
    BY <1>1, <1>3, <1>4, <1>5 DEF IndInv, TypeOK
  <1>7. SeenAfterStamp' /\ SeenLongEnough'
    BY <1>1, <1>2, <1>5 DEF IndInv, TypeOK, SeenAfterStamp, SeenLongEnough
  <1>8. HandledOnce'
    BY <1>1, <1>2, <1>3 DEF IndInv, HandledOnce
  <1>9. ObservationsKept'
    BY <1>1, <1>2 DEF IndInv, ObservationsKept
  <1> QED
    BY <1>1, <1>3, <1>4, <1>6, <1>7, <1>8, <1>9, StoredStillReal DEF IndInv

(* PublishProviderHealth too; no callback can hold the new event yet. *)
LEMMA PublishProviderHealthStep ==
    ASSUME IndInv, PublishProviderHealth
    PROVE  IndInv'
  <1> DEFINE e == Observation(Self, local)
  <1>1. /\ local \in Statuses
        /\ Publish(e) /\ seen' = With(seen, e, now)
        /\ observations' = ObservationsAfter(e) /\ applied' = applied \cup {e}
        /\ UNCHANGED <<now, nodes, local, heartbeatEnabled, handling>>
    BY DEF PublishProviderHealth, IndInv, TypeOK
  <1>2. /\ e \in Events /\ e \in Observations /\ e.kind = "health" /\ e.node = Self
        /\ e.timestamp = now /\ e.version = version[e.node] + 1
    BY <1>1, Stamped, StoreAssumption DEF IndInv, Nodes
  <1> HIDE DEF e
  <1>3. /\ version' \in [Nodes -> Nat] /\ published' \subseteq Events
        /\ published \subseteq published' /\ e \in published' /\ StampsUnique'
    BY <1>1, <1>2, PublishStep
  <1>4. /\ observations' \in [Nodes -> Observations \cup {None}]
        /\ ObservationsKept' /\ ObservationsReal'
    BY <1>1, <1>2, <1>3, ObservationsStep
  <1>5. /\ DOMAIN seen' = DOMAIN seen \cup {e}
        /\ \A x \in DOMAIN seen' : seen'[x] = IF x = e THEN now ELSE seen[x]
    BY <1>1 DEF With
  <1>6. TypeOK'
    BY <1>1, <1>3, <1>4, <1>5 DEF IndInv, TypeOK
  <1>7. SeenAfterStamp' /\ SeenLongEnough'
    BY <1>1, <1>2, <1>5 DEF IndInv, TypeOK, SeenAfterStamp, SeenLongEnough
  <1>8. HandledOnce'
    <2>1. e \notin published
      BY <1>2, OwnEventNew
    <2> QED
      BY <2>1, <1>1, <1>3 DEF IndInv, HandledOnce
  <1>9. HeartbeatsKept'
    BY <1>1, <1>2 DEF IndInv, HeartbeatsKept
  <1> QED
    BY <1>1, <1>3, <1>4, <1>6, <1>7, <1>8, <1>9, StoredStillReal DEF IndInv

(* What a peer publishes touches nothing in this store. *)
LEMMA PeerPublishesStep ==
    ASSUME IndInv, NEW p \in Peers, PeerPublishes(p)
    PROVE  IndInv'
  <1>1. /\ p \in Nodes
        /\ UNCHANGED <<now, nodes, observations, local, seen, heartbeatEnabled,
                      handling, applied>>
    BY DEF PeerPublishes, store, Nodes
  <1>2. PICK e \in Events : /\ e.timestamp = now /\ e.version = version[e.node] + 1
                            /\ Publish(e)
    BY <1>1, Stamped, StoreAssumption DEF PeerPublishes, IndInv
  <1>3. /\ version' \in [Nodes -> Nat] /\ published' \subseteq Events
        /\ published \subseteq published' /\ StampsUnique'
    BY <1>1, <1>2, PublishStep
  <1>4. TypeOK'
    BY <1>1, <1>3 DEF IndInv, TypeOK
  <1>5. SeenAfterStamp' /\ SeenLongEnough' /\ HandledOnce'
    BY <1>1, <1>3 DEF IndInv, SeenAfterStamp, SeenLongEnough, HandledOnce
  <1>6. HeartbeatsKept' /\ ObservationsKept'
    BY <1>1 DEF IndInv, HeartbeatsKept, ObservationsKept
  <1> QED
    BY <1>1, <1>3, <1>4, <1>5, <1>6, StoredStillReal DEF IndInv

(* A peer that restarts forgets its counter, at a later time. *)
LEMMA PeerRestartsStep ==
    ASSUME IndInv, NEW p \in Peers, PeerRestarts(p)
    PROVE  IndInv'
  <1>1. /\ version' = [version EXCEPT ![p] = 0]
        /\ \A e \in published : e.node = p => e.timestamp < now
        /\ UNCHANGED <<now, published, nodes, observations, local, seen,
                      heartbeatEnabled, handling, applied>>
    BY DEF PeerRestarts, store
  <1>2. TypeOK'
    BY <1>1 DEF IndInv, TypeOK
  <1>3. StampsUnique'
    <2> SUFFICES ASSUME NEW a \in published, a.timestamp = now
                 PROVE  a.version <= version'[a.node]
      BY <1>1 DEF IndInv, StampsUnique
    <2>1. a.node # p /\ a.node \in Nodes /\ now \in Nat
      BY <1>1, EventFields DEF IndInv, TypeOK
    <2> QED
      BY <2>1, <1>1 DEF IndInv, TypeOK, StampsUnique
  <1>4. SeenAfterStamp' /\ SeenLongEnough' /\ HandledOnce'
    BY <1>1 DEF IndInv, SeenAfterStamp, SeenLongEnough, HandledOnce
  <1>5. HeartbeatsKept' /\ ObservationsKept'
    BY <1>1 DEF IndInv, HeartbeatsKept, ObservationsKept
  <1> QED
    BY <1>1, <1>2, <1>3, <1>4, <1>5, StoredStillReal DEF IndInv

(* A callback takes an event no other callback has stored or holds. *)
LEMMA ReceiveStep ==
    ASSUME IndInv, NEW e \in published, Receive(e)
    PROVE  IndInv'
  <1>1. /\ handling[e.kind] = None /\ e \notin DOMAIN seen
        /\ seen' = With(seen, e, now)
        /\ handling' = IF Expired(e) THEN handling ELSE [handling EXCEPT ![e.kind] = e]
        /\ UNCHANGED <<now, version, published, nodes, observations, local,
                      heartbeatEnabled, applied>>
    BY DEF Receive
  <1>2. /\ e \in Events /\ e.kind \in Kinds /\ e # None /\ e.timestamp <= now
        /\ now \in Nat /\ handling \in [Kinds -> Events \cup {None}]
    BY EventFields DEF IndInv, TypeOK, StampsUnique
  <1>3. /\ DOMAIN seen' = DOMAIN seen \cup {e}
        /\ \A x \in DOMAIN seen' : seen'[x] = IF x = e THEN now ELSE seen[x]
    BY <1>1 DEF With
  <1>4. /\ handling' \in [Kinds -> Events \cup {None}]
        /\ \A k \in Kinds : \/ handling'[k] = handling[k]
                            \/ k = e.kind /\ handling'[k] = e /\ ~Expired(e)
    BY <1>1, <1>2
  <1>5. TypeOK'
    BY <1>1, <1>2, <1>3, <1>4 DEF IndInv, TypeOK
  <1>6. SeenAfterStamp'
    BY <1>1, <1>2, <1>3 DEF IndInv, SeenAfterStamp
  <1>7. SeenLongEnough'
    BY <1>1, <1>3, <1>4 DEF IndInv, SeenLongEnough, Kinds
  <1>8. HandledOnce'
    <2> SUFFICES ASSUME NEW k \in Kinds, handling'[k] # None
                 PROVE  /\ handling'[k] \in published /\ handling'[k].kind = k
                        /\ k = "health" => handling'[k] \notin applied
      BY <1>1 DEF HandledOnce
    <2>1. CASE handling'[k] = handling[k]
      BY <2>1 DEF IndInv, HandledOnce
    <2>2. CASE k = e.kind /\ handling'[k] = e /\ ~Expired(e)
      <3>1. e.timestamp \in Nat /\ ObservationTTL \in Nat
        BY <1>2, EventFields, StoreAssumption
      <3>2. k = "health" => now - e.timestamp <= ObservationTTL
        BY <2>2, <3>1, <1>2 DEF Expired
      <3> QED
        BY <2>2, <3>2, <1>1 DEF IndInv, SeenLongEnough
    <2> QED
      BY <2>1, <2>2, <1>4
  <1>9. /\ StampsUnique' /\ HeartbeatsKept' /\ ObservationsKept'
        /\ HeartbeatsReal' /\ ObservationsReal'
    BY <1>1 DEF IndInv, StampsUnique, HeartbeatsKept, ObservationsKept,
                HeartbeatsReal, ObservationsReal
  <1> QED
    BY <1>5, <1>6, <1>7, <1>8, <1>9 DEF IndInv

(* Finishing a callback: the event leaves the subscription's hands. *)
LEMMA HandsEmptied ==
    ASSUME IndInv, NEW k \in Kinds, NEW e, e = handling[k], e # None,
           handling' = [handling EXCEPT ![k] = None], applied' = applied \cup {e},
           UNCHANGED <<now, published, seen>>
    PROVE  /\ e \in published /\ e \in Events /\ e.kind = k
           /\ handling' \in [Kinds -> Events \cup {None}] /\ applied' \subseteq published'
           /\ SeenAfterStamp' /\ SeenLongEnough' /\ HandledOnce'
  <1>1. /\ e \in published /\ e.kind = k /\ e \in Events
        /\ handling \in [Kinds -> Events \cup {None}]
    BY DEF IndInv, HandledOnce, TypeOK
  <1>2. handling' \in [Kinds -> Events \cup {None}] /\ applied' \subseteq published'
    BY <1>1 DEF IndInv, TypeOK
  <1>3. SeenAfterStamp'
    BY DEF IndInv, SeenAfterStamp
  <1>4. SeenLongEnough'
    <2> SUFFICES ASSUME NEW a \in applied' \cup {handling'["health"]},
                        a.kind = "health", now - a.timestamp <= ObservationTTL
                 PROVE  a \in DOMAIN seen
      BY DEF SeenLongEnough
    <2>1. a # None
      BY DEF None
    <2>2. CASE a = handling'["health"]
      <3>1. a = handling["health"]
        <4>1. "health" \in Kinds
          BY DEF Kinds
        <4> QED
          BY <2>1, <2>2, <4>1, <1>1
      <3> QED
        BY <3>1 DEF IndInv, SeenLongEnough
    <2>3. CASE a = e
      <3>1. a = handling["health"]
        BY <2>3, <1>1
      <3> QED
        BY <3>1 DEF IndInv, SeenLongEnough
    <2>4. CASE a \in applied
      BY <2>4 DEF IndInv, SeenLongEnough
    <2> QED
      BY <2>2, <2>3, <2>4
  <1>5. HandledOnce'
    BY <1>1 DEF IndInv, HandledOnce
  <1> QED
    BY <1>1, <1>2, <1>3, <1>4, <1>5

(* setNode, the second half of handleHeartbeat. *)
LEMMA SetNodeStep == ASSUME IndInv, SetNode PROVE IndInv'
  <1> DEFINE e == handling["heartbeat"]
  <1>1. /\ e # None /\ nodes' = NodesAfter(e) /\ applied' = applied \cup {e}
        /\ handling' = [handling EXCEPT !["heartbeat"] = None]
        /\ UNCHANGED <<now, version, published, observations, local, seen,
                      heartbeatEnabled>>
    BY DEF SetNode
  <1>2. /\ e \in published /\ e \in Events /\ e.kind = "heartbeat"
        /\ handling' \in [Kinds -> Events \cup {None}] /\ applied' \subseteq published'
        /\ SeenAfterStamp' /\ SeenLongEnough' /\ HandledOnce'
    BY <1>1, HandsEmptied DEF Kinds
  <1> HIDE DEF e
  <1>3. /\ DOMAIN nodes' \subseteq Nodes
        /\ nodes' \in [DOMAIN nodes' -> Nat]
        /\ HeartbeatsKept' /\ HeartbeatsReal'
    BY <1>1, <1>2, NodesStep
  <1>4. TypeOK'
    BY <1>1, <1>2, <1>3 DEF IndInv, TypeOK
  <1>5. StampsUnique' /\ ObservationsReal' /\ ObservationsKept'
    BY <1>1, <1>2 DEF IndInv, StampsUnique, ObservationsReal, ObservationsKept
  <1> QED
    BY <1>2, <1>3, <1>4, <1>5 DEF IndInv

(* setObservation, the second half of handleProviderHealth. *)
LEMMA SetObservationStep == ASSUME IndInv, SetObservation PROVE IndInv'
  <1> DEFINE e == handling["health"]
  <1>1. /\ e # None /\ observations' = ObservationsAfter(e)
        /\ applied' = applied \cup {e}
        /\ handling' = [handling EXCEPT !["health"] = None]
        /\ UNCHANGED <<now, version, published, nodes, local, seen, heartbeatEnabled>>
    BY DEF SetObservation
  <1>2. /\ e \in published /\ e \in Events /\ e.kind = "health"
        /\ handling' \in [Kinds -> Events \cup {None}] /\ applied' \subseteq published'
        /\ SeenAfterStamp' /\ SeenLongEnough' /\ HandledOnce'
    BY <1>1, HandsEmptied DEF Kinds
  <1>3. e \in Observations
    BY <1>2 DEF Events, Heartbeats
  <1> HIDE DEF e
  <1>4. /\ observations' \in [Nodes -> Observations \cup {None}]
        /\ ObservationsKept' /\ ObservationsReal'
    BY <1>1, <1>2, <1>3, ObservationsStep
  <1>5. TypeOK'
    BY <1>1, <1>2, <1>4 DEF IndInv, TypeOK
  <1>6. StampsUnique' /\ HeartbeatsReal' /\ HeartbeatsKept'
    BY <1>1, <1>2 DEF IndInv, StampsUnique, HeartbeatsReal, HeartbeatsKept
  <1> QED
    BY <1>2, <1>4, <1>5, <1>6 DEF IndInv

(* Cleanup forgets only what no longer matters: an observation or an       *)
(* EventID outlives every event it guards against.                         *)
LEMMA CleanupStep == ASSUME IndInv, Cleanup PROVE IndInv'
  <1> USE StoreAssumption, TTLAssumption
  <1>1. /\ DOMAIN seen' = {x \in DOMAIN seen : now - seen[x] <= SeenTTL}
        /\ \A x \in DOMAIN seen' : seen'[x] = seen[x]
        /\ UNCHANGED <<now, version, published, nodes, local, heartbeatEnabled,
                      handling, applied>>
    BY DEF Cleanup
  <1>2. /\ observations' \in [Nodes -> Observations \cup {None}]
        /\ \A n \in Nodes :
             \/ observations'[n] = observations[n]
             \/ /\ observations'[n] = None /\ observations[n] # None
                /\ now - observations[n].timestamp > ObservationTTL
    BY DEF Cleanup, IndInv, TypeOK
  <1>3. TypeOK'
    BY <1>1, <1>2 DEF IndInv, TypeOK
  <1>4. SeenAfterStamp'
    BY <1>1 DEF IndInv, SeenAfterStamp
  <1>5. SeenLongEnough'
    <2> SUFFICES ASSUME NEW a \in applied \cup {handling["health"]},
                        a.kind = "health", now - a.timestamp <= ObservationTTL
                 PROVE  now - seen[a] <= SeenTTL /\ a \in DOMAIN seen
      BY <1>1 DEF SeenLongEnough
    <2>1. a \in DOMAIN seen
      BY DEF IndInv, SeenLongEnough
    <2>2. a.timestamp <= seen[a] /\ seen[a] \in Nat /\ a.timestamp \in Nat /\ now \in Nat
      BY <2>1, EventFields DEF IndInv, SeenAfterStamp, TypeOK
    <2> QED
      BY <2>1, <2>2
  <1>6. ObservationsKept'
    <2> SUFFICES ASSUME NEW a \in applied, a.kind = "health",
                        now - a.timestamp <= ObservationTTL
                 PROVE  \/ a = observations'[a.node]
                        \/ ~Supersedes(a, observations'[a.node])
      BY <1>1 DEF ObservationsKept
    <2> DEFINE old == observations[a.node]
    <2>1. /\ a \in Events /\ a.node \in Nodes /\ a.timestamp \in Nat /\ now \in Nat
          /\ old \in Observations \cup {None}
      BY EventFields DEF IndInv, TypeOK
    <2>2. a = old \/ ~Supersedes(a, old)
      BY DEF IndInv, ObservationsKept
    <2>3. ASSUME old # None PROVE now - old.timestamp <= ObservationTTL
      <3>1. old.timestamp \in Nat
        BY <2>1, <2>3, EventFields DEF Events
      <3>2. a.timestamp <= old.timestamp
        BY <2>1, <2>2, <2>3, <3>1 DEF Supersedes
      <3> QED
        BY <2>1, <3>1, <3>2
    <2>4. observations'[a.node] = old
      BY <1>2, <2>1, <2>3, EventFields DEF Events
    <2> QED
      BY <2>2, <2>4
  <1>7. ObservationsReal'
    BY <1>1, <1>2 DEF IndInv, ObservationsReal
  <1>8. StampsUnique' /\ HandledOnce' /\ HeartbeatsKept' /\ HeartbeatsReal'
    BY <1>1 DEF IndInv, StampsUnique, HandledOnce, HeartbeatsKept, HeartbeatsReal
  <1> QED
    BY <1>3, <1>4, <1>5, <1>6, <1>7, <1>8 DEF IndInv

(* Time passing only makes events older. *)
LEMMA TickStep == ASSUME IndInv, Tick PROVE IndInv'
  <1> USE StoreAssumption
  <1>1. /\ now \in Nat /\ now' = now + 1 /\ now' \in 0 .. MaxTime
        /\ UNCHANGED <<version, published, nodes, observations, local, seen,
                      heartbeatEnabled, handling, applied>>
    BY DEF Tick, store, IndInv, TypeOK
  <1>2. TypeOK'
    BY <1>1 DEF IndInv, TypeOK
  <1>3. \A e \in published : e.timestamp \in Nat
    BY EventFields DEF IndInv, TypeOK
  <1>4. StampsUnique'
    BY <1>1, <1>3 DEF IndInv, StampsUnique
  <1>5. SeenLongEnough'
    <2> SUFFICES ASSUME NEW a \in applied \cup {handling["health"]},
                        a.kind = "health", now' - a.timestamp <= ObservationTTL
                 PROVE  a \in DOMAIN seen
      BY <1>1 DEF SeenLongEnough
    <2>1. a \in Events
      BY DEF IndInv, TypeOK, Kinds, None
    <2>2. now - a.timestamp <= ObservationTTL
      BY <2>1, <1>1, EventFields
    <2> QED
      BY <2>2 DEF IndInv, SeenLongEnough
  <1>6. ObservationsKept'
    <2> SUFFICES ASSUME NEW a \in applied, a.kind = "health",
                        now' - a.timestamp <= ObservationTTL
                 PROVE  now - a.timestamp <= ObservationTTL
      BY <1>1 DEF IndInv, ObservationsKept, Supersedes
    <2> QED
      BY <1>1, <1>3 DEF IndInv, TypeOK
  <1>7. /\ SeenAfterStamp' /\ HandledOnce' /\ HeartbeatsKept'
        /\ HeartbeatsReal' /\ ObservationsReal'
    BY <1>1 DEF IndInv, SeenAfterStamp, HandledOnce, HeartbeatsKept,
                HeartbeatsReal, ObservationsReal
  <1> QED
    BY <1>2, <1>4, <1>5, <1>6, <1>7 DEF IndInv

-----------------------------------------------------------------------------
(* IndInv holds of every step: the case split over Next. *)
LEMMA IndInvStep == IndInv /\ [Next]_vars => IndInv'
  <1> SUFFICES ASSUME IndInv, [Next]_vars PROVE IndInv'
    OBVIOUS
  <1>1. CASE PublishHeartbeat
    BY <1>1, PublishHeartbeatStep
  <1>2. CASE SetHeartbeatEnabled \/ \E s \in Statuses : SetLocalProviderHealth(s)
    <2>1. /\ local' \in Statuses \cup {"none"} /\ heartbeatEnabled' \in BOOLEAN
          /\ UNCHANGED <<now, version, published, nodes, observations, seen,
                        handling, applied>>
      BY <1>2 DEF SetHeartbeatEnabled, SetLocalProviderHealth, IndInv, TypeOK
    <2>2. TypeOK'
      BY <2>1 DEF IndInv, TypeOK
    <2> QED
      BY <2>1, <2>2 DEF IndInv, StampsUnique, SeenAfterStamp, SeenLongEnough,
            HandledOnce, HeartbeatsKept, ObservationsKept, HeartbeatsReal, ObservationsReal
  <1>3. CASE PublishProviderHealth
    BY <1>3, PublishProviderHealthStep
  <1>4. CASE \E p \in Peers : PeerPublishes(p) \/ PeerRestarts(p)
    BY <1>4, PeerPublishesStep, PeerRestartsStep
  <1>5. CASE \E e \in published : Receive(e)
    BY <1>5, ReceiveStep
  <1>6. CASE SetNode \/ SetObservation
    BY <1>6, SetNodeStep, SetObservationStep
  <1>7. CASE Cleanup \/ Tick
    BY <1>7, CleanupStep, TickStep
  <1>8. CASE UNCHANGED vars
    <2>1. TypeOK'
      BY <1>8 DEF vars, store, IndInv, TypeOK
    <2> QED
      BY <2>1, <1>8 DEF vars, store, IndInv, StampsUnique, SeenAfterStamp,
            SeenLongEnough, HandledOnce, HeartbeatsKept, ObservationsKept,
            HeartbeatsReal, ObservationsReal
  <1> QED
    BY <1>1, <1>2, <1>3, <1>4, <1>5, <1>6, <1>7, <1>8 DEF Next

(* The invariant of cluster.Store: between any two of its locked sections  *)
(* what is stored, seen and in hand is consistent, with any number of      *)
(* peers and events.                                                       *)
THEOREM StoreInvariant == Spec => []IndInv
  BY IndInvInit, IndInvStep, PTL DEF Spec

(* GetProviderHealth counts the newest observation of every live node,     *)
(* whatever the bus delays, doubles or reorders and cleanup removes.       *)
THEOREM NewestWins == Spec => []NewestCounted
  <1>1. IndInv => NewestCounted
    <2> SUFFICES ASSUME IndInv, NEW n \in Recent, NEW a \in applied,
                        a.kind = "health", a.node = n
                 PROVE  a = observations[n] \/ ~Supersedes(a, observations[n])
      BY DEF NewestCounted
    <2> DEFINE old == observations[n]
    <2>1. /\ n \in Nodes /\ old \in Observations
          /\ now - old.timestamp <= ObservationTTL
      BY DEF Recent, IndInv, TypeOK
    <2>2. /\ a.timestamp \in Nat /\ old.timestamp \in Nat /\ old # None
          /\ now \in Nat /\ ObservationTTL \in Nat
      BY <2>1, EventFields, StoreAssumption DEF IndInv, TypeOK, Events
    <2>3. CASE now - a.timestamp <= ObservationTTL
      BY <2>3 DEF IndInv, ObservationsKept
    <2>4. CASE ~(now - a.timestamp <= ObservationTTL)
      <3>1. a.timestamp < old.timestamp
        BY <2>1, <2>2, <2>4
      <3> QED
        BY <3>1, <2>2 DEF Supersedes
    <2> QED
      BY <2>3, <2>4
  <1> QED
    BY <1>1, StoreInvariant, PTL

(* GetProviderHealth counts a peer only while the peer has sent a          *)
(* heartbeat within NodeTTL: nodeAliveLocked is never fooled by one that   *)
(* arrived late.                                                           *)
THEOREM DeadNodesDropped == Spec => []DeadDropped
  <1>1. IndInv => DeadDropped
    BY DEF IndInv, HeartbeatsReal, DeadDropped, Recent, Alive
  <1> QED
    BY <1>1, StoreInvariant, PTL

(* setNode and setObservation do nothing with an event they have handled   *)
(* before, even when its EventID has been cleaned up in between.           *)
THEOREM ReplaysIgnored == Spec => ReplayHarmless
  <1> DEFINE Harmless ==
        /\ (SetNode /\ handling["heartbeat"] \in applied) => nodes' = nodes
        /\ (SetObservation /\ handling["health"] \in applied)
              => observations' = observations
  <1>1. IndInv /\ [Next]_vars => [Harmless]_vars
    <2> SUFFICES ASSUME IndInv PROVE Harmless
      OBVIOUS
    <2>1. ASSUME SetNode, handling["heartbeat"] \in applied PROVE nodes' = nodes
      <3> DEFINE e == handling["heartbeat"]
      <3>1. /\ e \in Events /\ e.kind = "heartbeat" /\ nodes' = NodesAfter(e)
            /\ nodes \in [DOMAIN nodes -> Nat]
        BY <2>1 DEF SetNode, HandledOnce, IndInv, TypeOK, Kinds
      <3> HIDE DEF e
      <3>2. e.node \in DOMAIN nodes /\ e.timestamp <= nodes[e.node]
        BY <2>1, <3>1 DEF IndInv, HeartbeatsKept, e
      <3>3. CASE e.timestamp < nodes[e.node]
        BY <3>1, <3>2, <3>3 DEF NodesAfter
      <3>4. CASE e.timestamp = nodes[e.node]
        <4>1. With(nodes, e.node, e.timestamp) = nodes
          BY <3>1, <3>2, <3>4 DEF With
        <4> QED
          BY <3>1, <3>2, <3>4, <4>1 DEF NodesAfter
      <3> QED
        BY <3>1, <3>2, <3>3, <3>4, EventFields
    <2>2. ASSUME SetObservation, handling["health"] \in applied
          PROVE  observations' = observations
      BY <2>2 DEF SetObservation, IndInv, HandledOnce, Kinds
    <2> QED
      BY <2>1, <2>2
  <1> QED
    BY <1>1, StoreInvariant, PTL DEF Spec, ReplayHarmless

-----------------------------------------------------------------------------
(* GetProviderHealth takes the first status of a map that a majority of    *)
(* the cluster holds: as long as the cluster has no more nodes than        *)
(* CLUSTER_SIZE says, no two statuses qualify, so the order in which Go    *)
(* ranges over the map decides nothing.                                    *)
THEOREM UniqueVerdict ==
    ASSUME TypeOK, Cardinality(Nodes) <= ClusterSize,
           NEW s \in Majorities, NEW t \in Majorities
    PROVE  s = t
  <1> SUFFICES ASSUME s # t PROVE FALSE
    OBVIOUS
  <1>1. IsFiniteSet(Nodes)
    BY StoreAssumption, FS_AddElement, Nodes = Peers \cup {Self} DEF Nodes
  <1>2. /\ Votes(s) \subseteq Nodes /\ Votes(t) \subseteq Nodes
        /\ Votes(s) \cap Votes(t) = {}
    BY DEF Votes, Recent
  <1>3. IsFiniteSet(Votes(s)) /\ IsFiniteSet(Votes(t))
    BY <1>1, <1>2, FS_Subset
  <1>4. /\ Cardinality(Votes(s) \cup Votes(t)) <= Cardinality(Nodes)
        /\ Cardinality(Votes(s) \cup Votes(t))
              = Cardinality(Votes(s)) + Cardinality(Votes(t)) - Cardinality({})
        /\ Cardinality({}) = 0
    <2>1. Votes(s) \cup Votes(t) \subseteq Nodes
      BY <1>2
    <2> QED
      BY <2>1, <1>1, <1>2, <1>3, FS_Subset, FS_Union, FS_EmptySet
  <1>5. /\ Cardinality(Votes(s)) \in Nat /\ Cardinality(Votes(t)) \in Nat
        /\ Cardinality(Nodes) \in Nat
    BY <1>1, <1>3, FS_CardinalityType
  <1>6. Cardinality(Votes(s)) >= Required /\ Cardinality(Votes(t)) >= Required
    BY DEF Majorities
  <1>7. Required \in Nat /\ Required + Required > ClusterSize
    BY StoreAssumption DEF Required
  <1> QED
    BY <1>4, <1>5, <1>6, <1>7, StoreAssumption
=============================================================================
