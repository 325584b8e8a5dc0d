-------------------------- MODULE ChaosEngineProofs --------------------------
(***************************************************************************)
(* Proofs of ChaosEngine's invariants, for any number of nodes, requests   *)
(* and ticks.                                                              *)
(***************************************************************************)
EXTENDS ChaosEngine, TLAPS

Sessions == {Idle} \cup [run : Runs, left : 0 .. Duration]

(* An engine numbers its scenarios in turn, and no timer that has fired is *)
(* of a later one.                                                         *)
Numbered == \A n \in Nodes :
    /\ runID[n] <= requests
    /\ active[n].run <= runID[n]
    /\ \A r \in pending[n] : r <= runID[n]

TypeInv == TypeOK /\ Numbered

(* A fired timer of the active scenario means that its time is up. *)
PendingDue == \A n \in Nodes : \A r \in pending[n] :
    active[n].run = r => active[n].left = 0

(* A failure mode some engine gave. *)
Failing(c) == c.by = "engine" /\ c # Normal

(* What engine p gave last is on its way to every other node n. *)
Coming(p, n, i) ==
    \/ active[p] # Idle
    \/ p # n /\ Normal \in sending[p]
    \/ \E j \in DOMAIN bus[p][n] : j > i /\ bus[p][n][j] = Normal

(* Every failure mode of a scenario, wherever it has got to, is followed   *)
(* by the restoration or by the end of a scenario that is active.          *)
FollowedUp ==
    /\ \A n \in Nodes : bus[n][n] = <<>>
    /\ \A p \in Nodes : \A c \in sending[p] : Failing(c) => active[p] # Idle
    /\ \A p, n \in Nodes : \A i \in DOMAIN bus[p][n] :
          Failing(bus[p][n][i]) => Coming(p, n, i)
    /\ \A n \in Nodes : Failing(provider[n]) => \E p \in Nodes : Coming(p, n, 0)

-----------------------------------------------------------------------------
LEMMA IdleFacts ==
    /\ Idle.run = 0
    /\ \A s \in [run : Runs, left : 0 .. Duration] :
          s # Idle /\ s.run \in Runs /\ s.left \in 0 .. Duration
    /\ \A s \in Sessions : s.run \in 0 .. MaxRequests /\ (s.run = 0 <=> s = Idle)
  BY ChaosAssumption DEF Idle, Runs, Sessions

LEMMA ModeFacts ==
    /\ Normal \in Commands
    /\ \A s \in DOMAIN ModeOf : [mode |-> ModeOf[s], by |-> "engine"] \in Commands
    /\ \A m \in Injected : [mode |-> m, by |-> "operator"] \in Commands
  BY ChaosAssumption DEF Normal, Commands, Modes, ModeOf

-----------------------------------------------------------------------------
(* Types and numbers: what PublishChaos and the end of a scenario keep.    *)
CommandTypes ==
    /\ provider \in [Nodes -> Commands]
    /\ sending \in [Nodes -> SUBSET Commands]
    /\ bus \in [Nodes -> [Nodes -> Seq(Commands)]]

EngineTypes ==
    /\ runID \in [Nodes -> 0 .. MaxRequests]
    /\ active \in [Nodes -> Sessions]
    /\ timer \in [Nodes -> 0 .. MaxRequests]
    /\ pending \in [Nodes -> SUBSET Runs]
    /\ load \in [Nodes -> BOOLEAN]
    /\ heartbeat \in [Nodes -> BOOLEAN]

CountTypes ==
    requests \in 0 .. MaxRequests /\ refused \in [Nodes -> SUBSET (0 .. MaxRequests)]

TimersOwn == \A n \in Nodes : timer[n] \in {0, active[n].run}

LEMMA TypeParts ==
    TypeOK <=> CommandTypes /\ EngineTypes /\ CountTypes /\ TimersOwn
  BY DEF TypeOK, CommandTypes, EngineTypes, CountTypes, TimersOwn, Sessions

LEMMA PublishType ==
    ASSUME CommandTypes, NEW n \in Nodes, NEW c \in Commands, PublishChaos(n, c)
    PROVE  CommandTypes'
  BY DEF CommandTypes, PublishChaos

LEMMA RestoredKeeps ==
    ASSUME TypeInv, NEW n \in Nodes, Restored(n)
    PROVE  /\ CommandTypes'
           /\ active' \in [Nodes -> Sessions] /\ timer' \in [Nodes -> 0 .. MaxRequests]
           /\ load' \in [Nodes -> BOOLEAN] /\ heartbeat' \in [Nodes -> BOOLEAN]
           /\ TimersOwn' /\ runID' = runID
           /\ \A m \in Nodes : active'[m].run <= runID[m]
  <1>1. CommandTypes /\ EngineTypes /\ CountTypes /\ TimersOwn
    BY TypeParts DEF TypeInv
  <1>2. CommandTypes'
    BY <1>1, PublishType, ModeFacts DEF Restored
  <1>3. /\ active' = [active EXCEPT ![n] = Idle] /\ timer' = [timer EXCEPT ![n] = 0]
        /\ load' = [load EXCEPT ![n] = FALSE]
        /\ heartbeat' = [heartbeat EXCEPT ![n] = TRUE]
        /\ runID' = runID
    BY DEF Restored, StopLocked
  <1>4. Idle \in Sessions /\ 0 \in 0 .. MaxRequests
    BY ChaosAssumption DEF Sessions
  <1>5. /\ active' \in [Nodes -> Sessions] /\ timer' \in [Nodes -> 0 .. MaxRequests]
        /\ load' \in [Nodes -> BOOLEAN] /\ heartbeat' \in [Nodes -> BOOLEAN]
    BY <1>1, <1>3, <1>4 DEF EngineTypes
  <1>6. TimersOwn'
    BY <1>1, <1>3 DEF TimersOwn, EngineTypes
  <1>7. \A m \in Nodes : active'[m].run <= runID[m]
    BY <1>1, <1>3, IdleFacts DEF TypeInv, Numbered, EngineTypes
  <1> QED
    BY <1>2, <1>3, <1>5, <1>6, <1>7

LEMMA TypeStep == TypeInv /\ [Next]_vars => TypeInv'
  <1> SUFFICES ASSUME TypeInv, [Next]_vars
               PROVE  TypeInv'
    OBVIOUS
  <1>1. CommandTypes /\ EngineTypes /\ CountTypes /\ TimersOwn /\ Numbered
    BY TypeParts DEF TypeInv
  <1> DEFINE Kept == /\ CommandTypes' /\ EngineTypes' /\ CountTypes'
                     /\ TimersOwn' /\ Numbered'
  <1> SUFFICES Kept
    <2>1. TypeOK' <=> CommandTypes' /\ EngineTypes' /\ CountTypes' /\ TimersOwn'
      BY DEF TypeOK, CommandTypes, EngineTypes, CountTypes, TimersOwn, Sessions
    <2> QED
      BY <2>1 DEF TypeInv
  <1>2. Request => /\ requests' \in 0 .. MaxRequests /\ requests' = requests + 1
                   /\ requests < MaxRequests
    BY <1>1, ChaosAssumption DEF Request, CountTypes
  <1>3. ASSUME NEW n \in Nodes, Restore(n)
        PROVE  Kept
    BY <1>1, <1>2, <1>3, RestoredKeeps
       DEF Restore, EngineTypes, CountTypes, Numbered
  <1>4. ASSUME NEW n \in Nodes, AutoRestore(n)
        PROVE  Kept
    <2>1. PICK r \in pending[n] :
             /\ pending' = [pending EXCEPT ![n] = @ \ {r}]
             /\ \/ Restored(n)
                \/ UNCHANGED <<runID, active, timer, load, heartbeat, commands>>
             /\ UNCHANGED <<requests, refused>>
      BY <1>4 DEF AutoRestore
    <2>2. /\ pending' \in [Nodes -> SUBSET Runs]
          /\ \A m \in Nodes : pending'[m] \subseteq pending[m]
      BY <1>1, <2>1 DEF EngineTypes
    <2>3. CASE Restored(n)
      BY <1>1, <2>1, <2>2, <2>3, RestoredKeeps
         DEF EngineTypes, CountTypes, Numbered
    <2>4. CASE UNCHANGED <<runID, active, timer, load, heartbeat, commands>>
      <3>1. CommandTypes' /\ CountTypes' /\ TimersOwn'
        BY <1>1, <2>1, <2>4 DEF commands, CommandTypes, CountTypes, TimersOwn
      <3>2. EngineTypes'
        BY <1>1, <2>2, <2>4 DEF EngineTypes
      <3>3. Numbered'
        <4>1. UNCHANGED <<requests, runID, active>>
          BY <2>1, <2>4
        <4> QED
          BY <1>1, <2>2, <4>1 DEF Numbered
      <3> QED
        BY <3>1, <3>2, <3>3
    <2> QED
      BY <2>1, <2>3, <2>4
  <1>5. ASSUME NEW n \in Nodes, NEW s \in Requests, Run(n, s)
        PROVE  Kept
    <2> DEFINE k == runID[n] + 1
               a == [run |-> k, left |-> Duration]
    <2>1. k \in Runs /\ k <= requests'
      <3>1. requests' = requests + 1 /\ requests < MaxRequests
        BY <1>2, <1>5 DEF Run
      <3>2. runID[n] \in Nat /\ requests \in Nat /\ runID[n] <= requests
        BY <1>1 DEF EngineTypes, CountTypes, Numbered
      <3> QED
        BY <3>1, <3>2, ChaosAssumption DEF Runs
    <2>2. a \in Sessions /\ a.run = k /\ k \in 0 .. MaxRequests
      BY <2>1, ChaosAssumption DEF Sessions, Runs
    <2>3. /\ runID' = [runID EXCEPT ![n] = k]
          /\ active' = [active EXCEPT ![n] = a]
          /\ timer' = [timer EXCEPT ![n] = k]
          /\ load' = [load EXCEPT ![n] = s \in LoadScenarios]
          /\ heartbeat' = [heartbeat EXCEPT ![n] = @ /\ s # "node-failure"]
          /\ UNCHANGED <<pending, refused>> /\ requests' = requests + 1
      BY <1>2, <1>5 DEF Run, Armed
    <2>4. CommandTypes'
      <3>1. CASE s \in DOMAIN ModeOf
        BY <1>1, <1>5, <3>1, ModeFacts, PublishType DEF Run
      <3>2. CASE s \notin DOMAIN ModeOf
        BY <1>1, <1>5, <3>2 DEF Run, commands, CommandTypes
      <3> QED
        BY <3>1, <3>2
    <2> HIDE DEF k, a
    <2>5. EngineTypes' /\ CountTypes'
      BY <1>1, <1>2, <1>5, <2>2, <2>3 DEF EngineTypes, CountTypes, Run
    <2>6. TimersOwn'
      BY <1>1, <2>2, <2>3 DEF EngineTypes, TimersOwn
    <2>7. Numbered'
      <3> USE DEF k
      <3>1. \A m \in Nodes : runID[m] \in Int /\ runID[m] <= runID'[m]
        BY <1>1, <2>3 DEF EngineTypes
      <3>2. \A m \in Nodes : runID'[m] <= requests'
        BY <1>1, <2>1, <2>3 DEF EngineTypes, CountTypes, Numbered
      <3>3. \A m \in Nodes : active'[m].run <= runID'[m]
        BY <1>1, <2>1, <2>2, <2>3 DEF EngineTypes, Numbered
      <3>4. \A m \in Nodes : \A r \in pending'[m] : r \in Int /\ r <= runID'[m]
        BY <1>1, <2>3, <3>1 DEF EngineTypes, Numbered, Runs
      <3> QED
        BY <3>2, <3>3, <3>4 DEF Numbered
    <2> QED
      BY <2>4, <2>5, <2>6, <2>7
  <1>6. ASSUME NEW n \in Nodes, NEW s \in Requests, Refuse(n, s)
        PROVE  Kept
    <2>1. active[n].run \in 0 .. MaxRequests
      BY <1>1, IdleFacts DEF EngineTypes
    <2>2. /\ requests' \in 0 .. MaxRequests /\ requests <= requests'
          /\ timer' = [timer EXCEPT ![n] = 0] /\ load' = [load EXCEPT ![n] = FALSE]
          /\ refused' = [refused EXCEPT ![n] = @ \cup {active[n].run}]
          /\ UNCHANGED <<runID, active, pending, heartbeat, commands>>
      BY <1>1, <1>2, <1>6 DEF Refuse, StopLocked, CountTypes
    <2>3. CommandTypes'
      BY <1>1, <2>2 DEF commands, CommandTypes
    <2>4. EngineTypes' /\ CountTypes'
      BY <1>1, <2>1, <2>2, ChaosAssumption DEF EngineTypes, CountTypes
    <2>5. TimersOwn'
      BY <1>1, <2>2 DEF EngineTypes, TimersOwn
    <2>6. Numbered'
      BY <1>1, <2>2 DEF EngineTypes, CountTypes, Numbered
    <2> QED
      BY <2>3, <2>4, <2>5, <2>6
  <1>7. ASSUME NEW n \in Nodes, TimerFires(n)
        PROVE  Kept
    <2>1. timer[n] \in Runs /\ timer[n] = active[n].run
      BY <1>1, <1>7 DEF TimerFires, EngineTypes, TimersOwn, Runs
    <2>2. /\ pending' = [pending EXCEPT ![n] = @ \cup {timer[n]}]
          /\ timer' = [timer EXCEPT ![n] = 0]
          /\ UNCHANGED <<runID, active, load, heartbeat, commands, requests, refused>>
      BY <1>7 DEF TimerFires
    <2>3. CommandTypes' /\ CountTypes'
      BY <1>1, <2>2 DEF commands, CommandTypes, CountTypes
    <2>4. EngineTypes'
      BY <1>1, <2>1, <2>2, ChaosAssumption DEF EngineTypes
    <2>5. TimersOwn'
      BY <1>1, <2>2 DEF EngineTypes, TimersOwn
    <2>6. Numbered'
      BY <1>1, <2>1, <2>2 DEF EngineTypes, Numbered
    <2> QED
      BY <2>3, <2>4, <2>5, <2>6
  <1>8. ASSUME NEW n \in Nodes, LoadEnds(n)
        PROVE  Kept
    BY <1>1, <1>8
       DEF LoadEnds, commands, CommandTypes, EngineTypes, CountTypes, TimersOwn, Numbered
  <1>9. ASSUME NEW n \in Nodes, NEW m \in Injected, Inject(n, m)
        PROVE  Kept
    <2>1. CommandTypes'
      BY <1>1, <1>9, ModeFacts, PublishType DEF Inject
    <2> QED
      BY <1>1, <1>2, <1>9, <2>1
         DEF Inject, engine, EngineTypes, CountTypes, TimersOwn, Numbered
  <1>10. ASSUME NEW n \in Nodes, Broadcast(n)
         PROVE  Kept
    <2>1. PICK c \in sending[n] :
             /\ sending' = [sending EXCEPT ![n] = @ \ {c}]
             /\ bus' = [bus EXCEPT ![n] =
                    [m \in Nodes |-> IF m = n THEN bus[n][m] ELSE Append(bus[n][m], c)]]
             /\ UNCHANGED <<engine, provider, requests, refused>>
      BY <1>1, <1>10 DEF Broadcast, CommandTypes
    <2>2. [m \in Nodes |-> IF m = n THEN bus[n][m] ELSE Append(bus[n][m], c)]
             \in [Nodes -> Seq(Commands)]
      BY <1>1 DEF CommandTypes
    <2>3. CommandTypes'
      BY <1>1, <2>1, <2>2 DEF CommandTypes
    <2> QED
      BY <1>1, <2>1, <2>3 DEF engine, EngineTypes, CountTypes, TimersOwn, Numbered
  <1>11. ASSUME NEW p \in Nodes, NEW n \in Nodes, HandleChaos(p, n)
         PROVE  Kept
    <2>1. bus[p][n] \in Seq(Commands) /\ bus[p][n] # <<>>
      BY <1>1, <1>11 DEF HandleChaos, CommandTypes
    <2>2. Head(bus[p][n]) \in Commands /\ Tail(bus[p][n]) \in Seq(Commands)
      BY <2>1
    <2>3. CommandTypes'
      BY <1>1, <1>11, <2>2 DEF HandleChaos, CommandTypes
    <2> QED
      BY <1>1, <1>11, <2>3
         DEF HandleChaos, engine, EngineTypes, CountTypes, TimersOwn, Numbered
  <1>12. CASE Tick
    <2>1. ASSUME NEW n \in Nodes
          PROVE  active'[n] \in Sessions /\ active'[n].run = active[n].run
      <3>1. CASE active[n] # Idle /\ active[n].left > 0
        <4>1. active[n] \in [run : Runs, left : 0 .. Duration]
          BY <1>1, <3>1 DEF EngineTypes, Sessions
        <4>2. active'[n] = [active[n] EXCEPT !.left = active[n].left - 1]
          BY <1>12, <3>1 DEF Tick
        <4>3. active[n].left - 1 \in 0 .. Duration
          BY <3>1, <4>1, ChaosAssumption
        <4> QED
          BY <4>1, <4>2, <4>3 DEF Sessions
      <3>2. CASE ~(active[n] # Idle /\ active[n].left > 0)
        BY <1>1, <1>12, <3>2 DEF Tick, EngineTypes
      <3> QED
        BY <3>1, <3>2
    <2>2. active' \in [Nodes -> Sessions]
      BY <1>12, <2>1 DEF Tick
    <2> QED
      BY <1>1, <1>12, <2>1, <2>2
         DEF Tick, commands, CommandTypes, EngineTypes, CountTypes, TimersOwn, Numbered
  <1>13. CASE UNCHANGED vars
    BY <1>1, <1>13
       DEF vars, engine, commands, CommandTypes, EngineTypes, CountTypes, TimersOwn, Numbered
  <1> QED
    BY <1>3, <1>4, <1>5, <1>6, <1>7, <1>8, <1>9, <1>10, <1>11, <1>12, <1>13 DEF Next

LEMMA TypeInit == Init => TypeInv
  <1> SUFFICES ASSUME Init
               PROVE  TypeInv
    OBVIOUS
  <1>1. CommandTypes
    BY ModeFacts DEF Init, CommandTypes
  <1>2. EngineTypes /\ CountTypes /\ TimersOwn
    BY ChaosAssumption, IdleFacts DEF Init, EngineTypes, CountTypes, TimersOwn, Sessions
  <1>3. Numbered
    <2>1. /\ requests = 0
          /\ \A n \in Nodes : runID[n] = 0 /\ active[n] = Idle /\ pending[n] = {}
      BY DEF Init
    <2>2. Idle.run = 0
      BY IdleFacts
    <2>3. ASSUME NEW n \in Nodes
          PROVE  /\ runID[n] <= requests /\ active[n].run <= runID[n]
                 /\ \A r \in pending[n] : r <= runID[n]
      BY <2>1, <2>2
    <2> QED
      BY <2>3 DEF Numbered
  <1> QED
    BY <1>1, <1>2, <1>3, TypeParts DEF TypeInv

(* Engines, timers, providers and the bus are well formed, and every armed *)
(* timer is the active scenario's own.                                     *)
THEOREM TypeCorrect == Spec => []TypeOK
  <1>1. TypeInv => TypeOK
    BY DEF TypeInv
  <1> QED
    BY <1>1, TypeInit, TypeStep, PTL DEF Spec

-----------------------------------------------------------------------------
(* Time does not end a scenario by itself. *)
LEMMA TickKeeps ==
    ASSUME EngineTypes, Tick, NEW n \in Nodes, active[n] # Idle
    PROVE  active'[n] # Idle
  <1>1. active[n] \in [run : Runs, left : 0 .. Duration]
    BY DEF EngineTypes, Sessions
  <1>2. active'[n] = active[n] \/ active'[n] = [active[n] EXCEPT !.left = active[n].left - 1]
    BY DEF Tick
  <1>3. active'[n].run # 0
    BY <1>1, <1>2 DEF Runs
  <1> QED
    BY <1>3 DEF Idle

LEMMA PristineStep == TypeInv /\ IdleIsPristine /\ [Next]_vars => IdleIsPristine'
  <1> SUFFICES ASSUME TypeInv, IdleIsPristine, [Next]_vars
               PROVE  IdleIsPristine'
    OBVIOUS
  <1>1. EngineTypes
    BY TypeParts DEF TypeInv
  <1>2. ASSUME NEW n \in Nodes, Restored(n)
        PROVE  IdleIsPristine'
    BY <1>1, <1>2 DEF Restored, StopLocked, EngineTypes, IdleIsPristine
  <1>3. ASSUME NEW n \in Nodes, NEW s \in Requests, Run(n, s)
        PROVE  IdleIsPristine'
    <2>1. [run |-> runID[n] + 1, left |-> Duration] # Idle
      BY <1>1 DEF EngineTypes, Idle
    <2> QED
      BY <1>1, <1>3, <2>1 DEF Run, EngineTypes, IdleIsPristine
  <1>4. ASSUME NEW n \in Nodes,
               \/ \E s \in Requests : Refuse(n, s)
               \/ TimerFires(n) \/ LoadEnds(n) \/ Broadcast(n)
               \/ \E m \in Injected : Inject(n, m)
               \/ \E p \in Nodes : HandleChaos(p, n)
        PROVE  IdleIsPristine'
    <2>1. UNCHANGED <<active, heartbeat>>
      BY <1>4 DEF Refuse, TimerFires, LoadEnds, Broadcast, Inject, HandleChaos, engine
    <2>2. load' = load \/ load' = [load EXCEPT ![n] = FALSE]
      BY <1>4 DEF Refuse, StopLocked, TimerFires, LoadEnds, Broadcast, Inject,
                  HandleChaos, engine
    <2>3. \A m \in Nodes : ~load[m] => ~load'[m]
      BY <1>1, <2>2 DEF EngineTypes
    <2> QED
      BY <2>1, <2>3 DEF IdleIsPristine
  <1>5. ASSUME NEW n \in Nodes, AutoRestore(n)
        PROVE  IdleIsPristine'
    BY <1>2, <1>5 DEF AutoRestore, IdleIsPristine
  <1>6. CASE Tick
    <2>1. \A n \in Nodes : active'[n] = Idle => active[n] = Idle
      BY <1>1, <1>6, TickKeeps
    <2> QED
      BY <1>6, <2>1 DEF Tick, IdleIsPristine
  <1>7. CASE UNCHANGED vars
    BY <1>7 DEF vars, engine, IdleIsPristine
  <1> QED
    BY <1>2, <1>3, <1>4, <1>5, <1>6, <1>7 DEF Next, Restore

(* However scenarios replaced one another, a node without one sends        *)
(* heartbeats and generates no load.                                       *)
THEOREM IdlePristine == Spec => []IdleIsPristine
  <1>1. Init => IdleIsPristine
    BY DEF Init, IdleIsPristine
  <1>2. TypeInv /\ IdleIsPristine /\ [Next]_vars => IdleIsPristine'
    BY PristineStep
  <1> QED
    BY <1>1, <1>2, TypeInit, TypeStep, PTL DEF Spec

-----------------------------------------------------------------------------
LEMMA DueStep == TypeInv /\ PendingDue /\ [Next]_vars => PendingDue'
  <1> SUFFICES ASSUME TypeInv, PendingDue, [Next]_vars
               PROVE  PendingDue'
    OBVIOUS
  <1>1. EngineTypes /\ TimersOwn /\ Numbered
    BY TypeParts DEF TypeInv
  <1>2. ASSUME NEW n \in Nodes, Restored(n),
               \A m \in Nodes : pending'[m] \subseteq pending[m]
        PROVE  PendingDue'
    <2>1. \A m \in Nodes : active'[m] = active[m] \/ active'[m].run = 0
      BY <1>1, <1>2, IdleFacts DEF Restored, EngineTypes
    <2>2. \A m \in Nodes : 0 \notin pending[m]
      BY <1>1 DEF EngineTypes, Runs
    <2> QED
      BY <1>2, <2>1, <2>2 DEF PendingDue
  <1>3. ASSUME NEW n \in Nodes, NEW s \in Requests, Run(n, s)
        PROVE  PendingDue'
    <2>1. runID[n] \in Int /\ \A r \in pending[n] : r \in Int /\ r <= runID[n]
      BY <1>1 DEF EngineTypes, Numbered, Runs
    <2>2. pending' = pending /\ active'[n].run = runID[n] + 1
          /\ \A m \in Nodes : m # n => active'[m] = active[m]
      BY <1>1, <1>3 DEF Run, EngineTypes
    <2> QED
      BY <2>1, <2>2 DEF PendingDue
  <1>4. ASSUME NEW n \in Nodes, TimerFires(n)
        PROVE  PendingDue'
    BY <1>1, <1>4 DEF TimerFires, EngineTypes, PendingDue
  <1>5. ASSUME NEW n \in Nodes,
               \/ \E s \in Requests : Refuse(n, s)
               \/ LoadEnds(n) \/ Broadcast(n)
               \/ \E m \in Injected : Inject(n, m)
               \/ \E p \in Nodes : HandleChaos(p, n)
        PROVE  PendingDue'
    <2>1. UNCHANGED <<active, pending>>
      BY <1>5 DEF Refuse, LoadEnds, Broadcast, Inject, HandleChaos, engine
    <2> QED
      BY <2>1 DEF PendingDue
  <1>6. ASSUME NEW n \in Nodes, AutoRestore(n)
        PROVE  PendingDue'
    <2>1. \A m \in Nodes : pending'[m] \subseteq pending[m]
      BY <1>1, <1>6 DEF AutoRestore, EngineTypes
    <2>2. Restored(n) \/ active' = active
      BY <1>6 DEF AutoRestore
    <2> QED
      BY <1>2, <2>1, <2>2 DEF PendingDue
  <1>7. CASE Tick
    <2>1. ASSUME NEW n \in Nodes, NEW r \in pending[n], active'[n].run = r
          PROVE  active'[n].left = 0
      <3>1. CASE active[n] # Idle /\ active[n].left > 0
        <4>1. active[n] \in [run : Runs, left : 0 .. Duration]
          BY <1>1, <3>1 DEF EngineTypes, Sessions
        <4>2. active'[n] = [active[n] EXCEPT !.left = active[n].left - 1]
          BY <1>7, <3>1 DEF Tick
        <4>3. active[n].run = r
          BY <2>1, <4>1, <4>2
        <4> QED
          BY <3>1, <4>3 DEF PendingDue
      <3>2. CASE ~(active[n] # Idle /\ active[n].left > 0)
        BY <1>7, <2>1, <3>2 DEF Tick, PendingDue
      <3> QED
        BY <3>1, <3>2
    <2> QED
      BY <1>7, <2>1 DEF Tick, PendingDue
  <1>8. CASE UNCHANGED vars
    BY <1>8 DEF vars, engine, PendingDue
  <1>9. ASSUME NEW n \in Nodes, Restore(n)
        PROVE  PendingDue'
    BY <1>2, <1>9 DEF Restore
  <1> QED
    BY <1>3, <1>4, <1>5, <1>6, <1>7, <1>8, <1>9 DEF Next

LEMMA NeverCutStep ==
    ASSUME TypeInv, PendingDue, [Next]_vars, NEW n \in Nodes,
           active[n] # Idle, active'[n] = Idle, requests' = requests
    PROVE  active[n].left = 0
  <1>1. EngineTypes /\ CountTypes
    BY TypeParts DEF TypeInv
  <1>2. ~ Request
    BY <1>1 DEF Request, CountTypes
  <1>3. CASE \E m \in Nodes : AutoRestore(m)
    <2>1. PICK m \in Nodes : AutoRestore(m)
      BY <1>3
    <2>2. PICK r \in pending[m] : (Current(m, r) /\ Restored(m)) \/ active' = active
      BY <2>1 DEF AutoRestore
    <2>3. Current(m, r) /\ m = n
      BY <1>1, <2>2 DEF Restored, EngineTypes
    <2> QED
      BY <2>3 DEF Current, PendingDue
  <1>4. CASE Tick
    <2>1. active'[n] # Idle
      BY <1>1, <1>4, TickKeeps
    <2> QED
      BY <2>1
  <1>5. CASE ~Tick /\ ~ \E m \in Nodes : AutoRestore(m)
    <2>1. active' = active
      BY <1>2, <1>5
         DEF Next, Restore, Run, Refuse, TimerFires, LoadEnds, Broadcast, Inject,
             HandleChaos, vars, engine
    <2> QED
      BY <2>1
  <1> QED
    BY <1>3, <1>4, <1>5

(* A scenario is ended only when its time is up or on request, whatever    *)
(* timers of its predecessors still wait for the mutex.                    *)
THEOREM NotCutShort == Spec => NeverCutShort
  <1>1. Init => PendingDue
    BY DEF Init, PendingDue
  <1>2. TypeInv /\ PendingDue /\ [Next]_vars
            => [\A n \in Nodes : active[n] # Idle /\ active'[n] = Idle
                   => active[n].left = 0 \/ requests' # requests]_vars
    BY NeverCutStep
  <1> QED
    BY <1>1, <1>2, TypeInit, TypeStep, DueStep, PTL DEF Spec, NeverCutShort

-----------------------------------------------------------------------------
LEMMA Positions ==
    ASSUME TypeInv
    PROVE  \A p, n \in Nodes : \A i \in DOMAIN bus[p][n] : i \in Nat
  <1>1. \A p, n \in Nodes : bus[p][n] \in Seq(Commands)
    BY TypeParts DEF TypeInv, CommandTypes
  <1>2. ASSUME NEW p \in Nodes, NEW n \in Nodes
        PROVE  \A i \in DOMAIN bus[p][n] : i \in Nat
    BY <1>1
  <1> QED
    BY <1>2

(* A step that ends no scenario and takes no command away.                 *)
LEMMA FollowedUpKept ==
    ASSUME TypeInv, FollowedUp, bus' = bus,
           \A p \in Nodes : /\ active[p] # Idle => active'[p] # Idle
                            /\ sending[p] \subseteq sending'[p]
                            /\ \A c \in sending'[p] :
                                  c \in sending[p] \/ ~Failing(c) \/ active'[p] # Idle,
           \A n \in Nodes : \/ provider'[n] = provider[n] \/ ~Failing(provider'[n])
                            \/ active'[n] # Idle
    PROVE  FollowedUp'
  <1>1. \A p, n \in Nodes : \A i \in Nat : Coming(p, n, i) => Coming(p, n, i)'
    BY DEF Coming
  <1>2. \A n \in Nodes : bus'[n][n] = <<>>
    BY DEF FollowedUp
  <1>3. \A p \in Nodes : \A c \in sending'[p] : Failing(c) => active'[p] # Idle
    BY DEF FollowedUp
  <1>4. \A p, n \in Nodes : \A i \in DOMAIN bus'[p][n] :
            Failing(bus'[p][n][i]) => Coming(p, n, i)'
    BY <1>1, Positions DEF FollowedUp
  <1>5. ASSUME NEW n \in Nodes, Failing(provider'[n])
        PROVE  \E p \in Nodes : Coming(p, n, 0)'
    <2>1. CASE provider'[n] = provider[n]
      BY <1>1, <1>5, <2>1 DEF FollowedUp
    <2>2. CASE active'[n] # Idle
      BY <2>2 DEF Coming
    <2> QED
      BY <1>5, <2>1, <2>2
  <1> QED
    BY <1>2, <1>3, <1>4, <1>5 DEF FollowedUp, Failing

(* The end of a scenario follows up what its engine gave.                  *)
LEMMA FollowedUpRestored ==
    ASSUME TypeInv, FollowedUp, NEW n \in Nodes, Unlocked(n), Restored(n)
    PROVE  FollowedUp'
  <1>1. CommandTypes /\ EngineTypes
    BY TypeParts DEF TypeInv
  <1>2. /\ bus' = bus
        /\ provider' = [provider EXCEPT ![n] = Normal]
        /\ sending' = [sending EXCEPT ![n] = sending[n] \cup {Normal}]
        /\ active' = [active EXCEPT ![n] = Idle]
    BY DEF Restored, PublishChaos
  <1>3. /\ Normal \in sending'[n] /\ provider'[n] = Normal
        /\ \A p \in Nodes : sending[p] \subseteq sending'[p]
        /\ \A p \in Nodes : p # n => /\ sending'[p] = sending[p]
                                     /\ provider'[p] = provider[p]
                                     /\ active'[p] = active[p]
    BY <1>1, <1>2 DEF CommandTypes, EngineTypes
  <1>4. \A p, m \in Nodes : \A i \in Nat :
            Coming(p, m, i) /\ ~(p = n /\ m = n) => Coming(p, m, i)'
    BY <1>2, <1>3 DEF Coming
  <1>5. \A m \in Nodes : bus'[m][m] = <<>>
    BY <1>2 DEF FollowedUp
  <1>6. \A p \in Nodes : \A c \in sending'[p] : Failing(c) => active'[p] # Idle
    <2>1. \A c \in sending'[n] : ~Failing(c)
      BY <1>1, <1>2 DEF CommandTypes, Unlocked, Failing
    <2> QED
      BY <1>3, <2>1 DEF FollowedUp
  <1>7. \A p, m \in Nodes : \A i \in DOMAIN bus'[p][m] :
            Failing(bus'[p][m][i]) => Coming(p, m, i)'
    <2>1. \A i \in DOMAIN bus'[n][n] : FALSE
      BY <1>5
    <2> QED
      BY <1>2, <1>4, <2>1, Positions DEF FollowedUp
  <1>8. ASSUME NEW m \in Nodes, Failing(provider'[m])
        PROVE  \E p \in Nodes : Coming(p, m, 0)'
    <2>1. m # n
      BY <1>3, <1>8 DEF Failing
    <2> QED
      BY <1>3, <1>4, <1>8, <2>1 DEF FollowedUp
  <1> QED
    BY <1>5, <1>6, <1>7, <1>8 DEF FollowedUp, Failing

(* A command that goes on the bus comes after those already on it.         *)
LEMMA FollowedUpBroadcast ==
    ASSUME TypeInv, FollowedUp, NEW n \in Nodes, Broadcast(n)
    PROVE  FollowedUp'
  <1>1. CommandTypes
    BY TypeParts DEF TypeInv
  <1>2. PICK c \in sending[n] :
           /\ sending' = [sending EXCEPT ![n] = sending[n] \ {c}]
           /\ bus' = [bus EXCEPT ![n] =
                  [m \in Nodes |-> IF m = n THEN bus[n][m] ELSE Append(bus[n][m], c)]]
           /\ provider' = provider /\ active' = active
    BY <1>1 DEF Broadcast, CommandTypes, engine
  <1>3. /\ bus'[n][n] = bus[n][n]
        /\ \A m \in Nodes : m # n => bus'[n][m] = Append(bus[n][m], c)
        /\ \A p \in Nodes : p # n => bus'[p] = bus[p] /\ sending'[p] = sending[p]
        /\ sending'[n] = sending[n] \ {c}
    BY <1>1, <1>2 DEF CommandTypes
  <1>4. \A m \in Nodes : m # n =>
           /\ DOMAIN bus'[n][m] = DOMAIN bus[n][m] \cup {Len(bus[n][m]) + 1}
           /\ DOMAIN bus[n][m] = 1 .. Len(bus[n][m]) /\ Len(bus[n][m]) \in Nat
           /\ bus'[n][m][Len(bus[n][m]) + 1] = c
           /\ \A i \in DOMAIN bus[n][m] : bus'[n][m][i] = bus[n][m][i]
    <2> SUFFICES ASSUME NEW m \in Nodes, m # n
                 PROVE  /\ DOMAIN bus'[n][m] = DOMAIN bus[n][m] \cup {Len(bus[n][m]) + 1}
                        /\ DOMAIN bus[n][m] = 1 .. Len(bus[n][m]) /\ Len(bus[n][m]) \in Nat
                        /\ bus'[n][m][Len(bus[n][m]) + 1] = c
                        /\ \A i \in DOMAIN bus[n][m] : bus'[n][m][i] = bus[n][m][i]
      OBVIOUS
    <2>1. bus[n][m] \in Seq(Commands) /\ c \in Commands
      BY <1>1 DEF CommandTypes
    <2>2. bus'[n][m] = Append(bus[n][m], c)
      BY <1>3
    <2> QED
      BY <2>1, <2>2
  <1>5. ASSUME NEW p \in Nodes, NEW m \in Nodes, NEW i \in {0} \cup DOMAIN bus[p][m],
               Coming(p, m, i)
        PROVE  Coming(p, m, i)'
    <2>1. CASE active[p] # Idle
      BY <1>2, <2>1 DEF Coming
    <2>2. CASE p # m /\ Normal \in sending[p]
      <3>1. CASE p = n /\ c = Normal
        BY <1>4, <2>2, <3>1 DEF Coming
      <3>2. CASE ~(p = n /\ c = Normal)
        BY <1>3, <2>2, <3>2 DEF Coming
      <3> QED
        BY <3>1, <3>2
    <2>3. CASE \E j \in DOMAIN bus[p][m] : j > i /\ bus[p][m][j] = Normal
      <3>1. CASE p = n /\ m # n
        BY <1>4, <2>3, <3>1 DEF Coming
      <3>2. CASE ~(p = n /\ m # n)
        BY <1>3, <2>3, <3>2 DEF Coming
      <3> QED
        BY <3>1, <3>2
    <2> QED
      BY <1>5, <2>1, <2>2, <2>3 DEF Coming
  <1>6. \A m \in Nodes : bus'[m][m] = <<>>
    BY <1>3 DEF FollowedUp
  <1>7. \A p \in Nodes : \A d \in sending'[p] : Failing(d) => active'[p] # Idle
    BY <1>2, <1>3 DEF FollowedUp
  <1>8. ASSUME NEW p \in Nodes, NEW m \in Nodes, NEW i \in DOMAIN bus'[p][m],
               Failing(bus'[p][m][i])
        PROVE  Coming(p, m, i)'
    <2>1. CASE i \in DOMAIN bus[p][m]
      <3>1. bus'[p][m][i] = bus[p][m][i]
        BY <1>3, <1>4, <2>1
      <3> QED
        BY <1>5, <1>8, <2>1, <3>1 DEF FollowedUp
    <2>2. CASE i \notin DOMAIN bus[p][m]
      <3>1. p = n /\ bus'[p][m][i] = c
        BY <1>3, <1>4, <2>2
      <3>2. active'[n] # Idle
        BY <1>2, <1>8, <3>1 DEF FollowedUp
      <3> QED
        BY <3>1, <3>2 DEF Coming
    <2> QED
      BY <2>1, <2>2
  <1>9. \A m \in Nodes : Failing(provider'[m]) => \E p \in Nodes : Coming(p, m, 0)'
    BY <1>2, <1>5 DEF FollowedUp
  <1> QED
    BY <1>6, <1>7, <1>8, <1>9 DEF FollowedUp, Failing

(* A command that is handled comes off the bus; those behind it move up.   *)
LEMMA FollowedUpHandled ==
    ASSUME TypeInv, FollowedUp, NEW p \in Nodes, NEW n \in Nodes, HandleChaos(p, n)
    PROVE  FollowedUp'
  <1> DEFINE q == bus[p][n]
  <1>1. CommandTypes
    BY TypeParts DEF TypeInv
  <1>2. /\ q # <<>> /\ q \in Seq(Commands)
        /\ provider' = [provider EXCEPT ![n] = Head(q)]
        /\ bus' = [bus EXCEPT ![p][n] = Tail(q)]
        /\ UNCHANGED <<active, sending>>
    BY <1>1 DEF HandleChaos, CommandTypes, engine
  <1>3. /\ bus'[p][n] = Tail(q)
        /\ \A r, m \in Nodes : ~(r = p /\ m = n) => bus'[r][m] = bus[r][m]
        /\ provider'[n] = Head(q)
        /\ \A m \in Nodes : m # n => provider'[m] = provider[m]
    BY <1>1, <1>2 DEF CommandTypes
  <1>4. /\ Len(q) \in Nat \ {0} /\ DOMAIN q = 1 .. Len(q)
        /\ Head(q) = q[1] /\ DOMAIN Tail(q) = 1 .. Len(q) - 1
        /\ \A i \in 1 .. Len(q) - 1 : Tail(q)[i] = q[i + 1]
    BY <1>2
  <1> HIDE DEF q
  <1>5. \A i \in Nat : Coming(p, n, i + 1) => Coming(p, n, i)'
    <2> SUFFICES ASSUME NEW i \in Nat, Coming(p, n, i + 1)
                 PROVE  Coming(p, n, i)'
      OBVIOUS
    <2>1. CASE active[p] # Idle \/ (p # n /\ Normal \in sending[p])
      BY <1>2, <2>1 DEF Coming
    <2>2. CASE \E j \in DOMAIN q : j > i + 1 /\ q[j] = Normal
      <3>1. PICK j \in DOMAIN q : j > i + 1 /\ q[j] = Normal
        BY <2>2
      <3>2. j - 1 \in DOMAIN Tail(q) /\ j - 1 > i /\ Tail(q)[j - 1] = Normal
        BY <1>4, <3>1
      <3> QED
        BY <1>3, <3>2 DEF Coming
    <2> QED
      BY <2>1, <2>2 DEF Coming, q
  <1>6. \A r, m \in Nodes : \A i \in Nat :
            Coming(r, m, i) /\ ~(r = p /\ m = n) => Coming(r, m, i)'
    BY <1>2, <1>3 DEF Coming
  <1>7. p # n
    BY <1>2 DEF FollowedUp, q
  <1>8. \A m \in Nodes : bus'[m][m] = <<>>
    BY <1>3, <1>7 DEF FollowedUp
  <1>9. \A r \in Nodes : \A c \in sending'[r] : Failing(c) => active'[r] # Idle
    BY <1>2 DEF FollowedUp
  <1>10. ASSUME NEW r \in Nodes, NEW m \in Nodes, NEW i \in DOMAIN bus'[r][m],
                Failing(bus'[r][m][i])
         PROVE  Coming(r, m, i)'
    <2>1. CASE r = p /\ m = n
      <3>1. i \in Nat /\ i + 1 \in DOMAIN q /\ bus'[r][m][i] = q[i + 1]
        BY <1>3, <1>4, <2>1
      <3>2. Coming(p, n, i + 1)
        BY <1>10, <3>1 DEF FollowedUp, q
      <3> QED
        BY <1>5, <2>1, <3>1, <3>2
    <2>2. CASE ~(r = p /\ m = n)
      <3>1. bus'[r][m] = bus[r][m]
        BY <1>3, <2>2
      <3>2. i \in Nat /\ Coming(r, m, i)
        BY <1>10, <3>1, Positions DEF FollowedUp
      <3> QED
        BY <1>6, <2>2, <3>2
    <2> QED
      BY <2>1, <2>2
  <1>11. ASSUME NEW m \in Nodes, Failing(provider'[m])
         PROVE  \E r \in Nodes : Coming(r, m, 0)'
    <2>1. CASE m = n
      <3>1. 1 \in DOMAIN q /\ Failing(q[1])
        BY <1>3, <1>4, <1>11, <2>1
      <3>2. Coming(p, n, 0 + 1)
        BY <3>1 DEF FollowedUp, q
      <3> QED
        BY <1>5, <2>1, <3>2
    <2>2. CASE m # n
      BY <1>3, <1>6, <1>11, <2>2 DEF FollowedUp
    <2> QED
      BY <2>1, <2>2
  <1> QED
    BY <1>8, <1>9, <1>10, <1>11 DEF FollowedUp, Failing

LEMMA FollowedUpStep == TypeInv /\ FollowedUp /\ [Next]_vars => FollowedUp'
  <1> SUFFICES ASSUME TypeInv, FollowedUp, [Next]_vars
               PROVE  FollowedUp'
    OBVIOUS
  <1>1. CommandTypes /\ EngineTypes
    BY TypeParts DEF TypeInv
  <1>2. ASSUME UNCHANGED <<active, commands>>
        PROVE  FollowedUp'
    BY <1>2, FollowedUpKept DEF commands
  <1>3. ASSUME NEW n \in Nodes, Restore(n)
        PROVE  FollowedUp'
    BY <1>3, FollowedUpRestored DEF Restore
  <1>4. ASSUME NEW n \in Nodes, AutoRestore(n)
        PROVE  FollowedUp'
    <2>1. \/ Unlocked(n) /\ Restored(n)
          \/ UNCHANGED <<active, commands>>
      BY <1>4 DEF AutoRestore
    <2> QED
      BY <1>2, <2>1, FollowedUpRestored
  <1>5. ASSUME NEW n \in Nodes, NEW s \in Requests, Run(n, s)
        PROVE  FollowedUp'
    <2>1. [run |-> runID[n] + 1, left |-> Duration] # Idle
      BY <1>1 DEF EngineTypes, Idle
    <2>2. active'[n] # Idle /\ \A p \in Nodes : p # n => active'[p] = active[p]
      BY <1>1, <1>5, <2>1 DEF Run, EngineTypes
    <2>3. /\ bus' = bus
          /\ \A p \in Nodes : sending[p] \subseteq sending'[p]
          /\ \A p \in Nodes :
                p # n => sending'[p] = sending[p] /\ provider'[p] = provider[p]
      BY <1>1, <1>5 DEF Run, PublishChaos, commands, CommandTypes
    <2> QED
      BY <2>2, <2>3, FollowedUpKept
  <1>6. ASSUME NEW n \in Nodes, NEW m \in Injected, Inject(n, m)
        PROVE  FollowedUp'
    <2> DEFINE c == [mode |-> m, by |-> "operator"]
    <2>1. ~Failing(c)
      BY DEF Failing
    <2>2. /\ bus' = bus /\ active' = active
          /\ provider' = [provider EXCEPT ![n] = c]
          /\ sending' = [sending EXCEPT ![n] = sending[n] \cup {c}]
      BY <1>6 DEF Inject, PublishChaos, engine
    <2> HIDE DEF c
    <2>3. /\ \A p \in Nodes : sending[p] \subseteq sending'[p]
          /\ \A p \in Nodes : \A d \in sending'[p] : d \in sending[p] \/ d = c
          /\ \A p \in Nodes : provider'[p] = provider[p] \/ provider'[p] = c
      BY <1>1, <2>2 DEF CommandTypes
    <2> QED
      BY <2>1, <2>2, <2>3, FollowedUpKept
  <1>7. CASE Tick
    <2>1. \A n \in Nodes : active[n] # Idle => active'[n] # Idle
      BY <1>1, <1>7, TickKeeps
    <2> QED
      BY <1>7, <2>1, FollowedUpKept DEF Tick, commands
  <1>8. ASSUME NEW n \in Nodes,
               TimerFires(n) \/ LoadEnds(n) \/ \E s \in Requests : Refuse(n, s)
        PROVE  FollowedUp'
    BY <1>2, <1>8 DEF TimerFires, LoadEnds, Refuse
  <1>9. CASE UNCHANGED vars
    BY <1>2, <1>9 DEF vars, engine
  <1> QED
    BY <1>3, <1>4, <1>5, <1>6, <1>7, <1>8, <1>9, FollowedUpBroadcast,
       FollowedUpHandled DEF Next

(* When all scenarios have ended and all commands have arrived, no node is *)
(* left with a failure mode a scenario gave it, however the commands of    *)
(* different engines overtook one another.                                 *)
THEOREM ScenariosUndone == Spec => []AllRestored
  <1>1. Init => FollowedUp
    <2> SUFFICES ASSUME Init
                 PROVE  FollowedUp
      OBVIOUS
    <2>1. /\ \A p, n \in Nodes : bus[p][n] = <<>>
          /\ \A n \in Nodes : sending[n] = {} /\ provider[n] = Normal
      BY DEF Init
    <2> QED
      BY <2>1 DEF FollowedUp, Failing
  <1>2. TypeInv /\ FollowedUp => AllRestored
    <2> SUFFICES ASSUME TypeInv, FollowedUp, Quiet, \A n \in Nodes : active[n] = Idle,
                        NEW n \in Nodes
                 PROVE  provider[n] = Normal \/ provider[n].by = "operator"
      BY DEF AllRestored
    <2>1. ASSUME NEW p \in Nodes
          PROVE  ~Coming(p, n, 0)
      <3>1. bus[p][n] = <<>> /\ sending[p] = {} /\ active[p] = Idle
        BY DEF Quiet
      <3>2. \A j \in DOMAIN bus[p][n] : FALSE
        BY <3>1
      <3> QED
        BY <3>1, <3>2 DEF Coming
    <2>2. ~Failing(provider[n])
      BY <2>1 DEF FollowedUp
    <2>3. provider[n] \in Commands
      <3>1. CommandTypes
        BY TypeParts DEF TypeInv
      <3> QED
        BY <3>1 DEF CommandTypes
    <2>4. provider[n].by \in {"engine", "operator"}
      BY <2>3 DEF Commands
    <2> QED
      BY <2>2, <2>4 DEF Failing
  <1> QED
    BY <1>1, <1>2, TypeInit, TypeStep, FollowedUpStep, PTL DEF Spec
=============================================================================
