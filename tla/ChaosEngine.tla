----------------------------- MODULE ChaosEngine ------------------------------
(***************************************************************************)
(* The chaos engines of the cluster's nodes, and the chaos commands by     *)
(* which they set the failure mode of every node's mock provider.          *)
(*                                                                         *)
(* An engine runs one scenario at a time, under its mutex, and ends it by  *)
(* a timer.  A timer that has fired is a goroutine waiting for the mutex   *)
(* (pending): Stop no longer reaches it.  store.PublishChaos applies a     *)
(* command to this node's provider and then gives it to the bus (sending); *)
(* the engine does so under its mutex, /debug/chaos/inject under none.     *)
(* The bus delivers each publisher's commands in order, while it stays     *)
(* connected; it does not order those of different publishers.             *)
(* The restore hook is CircuitBreaker's Restore and is not repeated here.  *)
(***************************************************************************)
EXTENDS Integers, Sequences

CONSTANTS
    Nodes,
    Requests,      \* scenario names the endpoint is called with
    Injected,      \* failure modes /debug/chaos/inject is called with
    Duration,      \* duration of a scenario, in ticks
    MaxRequests    \* bound on the operators' requests in a behaviour

(* commandForScenario, and the command Run makes for agent-loop. *)
ModeOf ==
    [s \in {"provider-outage", "semantic-degradation", "latency-spike", "agent-loop"} |->
        CASE s = "semantic-degradation" -> "contract"
          [] s = "latency-spike" -> "slow"
          [] OTHER -> "outage"]
LoadScenarios == {"traffic-spike", "agent-loop"}
Known == DOMAIN ModeOf \cup LoadScenarios \cup {"node-failure"}

Modes == {"normal", "outage", "contract", "slow"}

ASSUME ChaosAssumption ==
    /\ Injected \subseteq Modes
    /\ Duration \in Nat \ {0}
    /\ MaxRequests \in Nat

(* Who gave the command: nothing but the history distinguishes them. *)
Commands == [mode : Modes, by : {"engine", "operator"}]
Normal == [mode |-> "normal", by |-> "engine"]

Idle == [run |-> 0]

VARIABLES
    runID,       \* of each engine's last scenario
    active,      \* its scenario [run, left: ticks to EndsAt], or Idle
    timer,       \* run the armed timer is to end, or 0
    pending,     \* runs whose fired timer awaits the mutex
    load,        \* whether its load generator runs
    heartbeat,   \* whether the node sends heartbeats
    provider,    \* last command applied to the node's provider
    sending,     \* commands applied, and not yet on the bus
    bus,         \* bus[p][n]: commands of p that n has yet to handle
    requests,    \* requests made so far
    refused      \* history: runs that were active when a request was refused

engine == <<runID, active, timer, pending, load, heartbeat>>
commands == <<provider, sending, bus>>
vars == <<engine, commands, requests, refused>>

Init ==
    /\ runID = [n \in Nodes |-> 0]
    /\ active = [n \in Nodes |-> Idle]
    /\ timer = [n \in Nodes |-> 0]
    /\ pending = [n \in Nodes |-> {}]
    /\ load = [n \in Nodes |-> FALSE]
    /\ heartbeat = [n \in Nodes |-> TRUE]
    /\ provider = [n \in Nodes |-> Normal]
    /\ sending = [n \in Nodes |-> {}]
    /\ bus = [p \in Nodes |-> [n \in Nodes |-> <<>>]]
    /\ requests = 0
    /\ refused = [n \in Nodes |-> {}]

-----------------------------------------------------------------------------
Unlocked(n) == \A c \in sending[n] : c.by # "engine"

Request == requests < MaxRequests /\ requests' = requests + 1

(* PublishChaos, up to the bus. *)
PublishChaos(n, c) ==
    /\ provider' = [provider EXCEPT ![n] = c]
    /\ sending' = [sending EXCEPT ![n] = @ \cup {c}]
    /\ UNCHANGED bus

(* Slip: the load generator is left to its deadline. *)
StopLocked_TimerOnly(n) ==
    /\ timer' = [timer EXCEPT ![n] = 0]
    /\ UNCHANGED load

StopLocked(n) ==
    /\ timer' = [timer EXCEPT ![n] = 0]
    /\ load' = [load EXCEPT ![n] = FALSE]

(* Slip: only this node's provider is restored. *)
Restored_Locally(n) ==
    /\ StopLocked(n)
    /\ provider' = [provider EXCEPT ![n] = Normal]
    /\ heartbeat' = [heartbeat EXCEPT ![n] = TRUE]
    /\ active' = [active EXCEPT ![n] = Idle]
    /\ UNCHANGED <<runID, sending, bus>>

(* What Run does for "restore", and autoRestore. *)
Restored(n) ==
    /\ StopLocked(n)
    /\ PublishChaos(n, Normal)
    /\ heartbeat' = [heartbeat EXCEPT ![n] = TRUE]
    /\ active' = [active EXCEPT ![n] = Idle]
    /\ UNCHANGED runID

Restore(n) ==
    /\ Request
    /\ Unlocked(n)
    /\ Restored(n)
    /\ UNCHANGED <<pending, refused>>

(* Slip: the timer is armed with the run id before it was advanced. *)
Armed_Early(n) == runID[n]
Armed(n) == runID[n] + 1

(* Run of a known scenario, which replaces the one that is active; what    *)
(* that one did to heartbeats and providers stays.                         *)
Run(n, s) ==
    /\ Request
    /\ Unlocked(n)
    /\ runID' = [runID EXCEPT ![n] = @ + 1]
    /\ active' = [active EXCEPT ![n] = [run |-> runID[n] + 1, left |-> Duration]]
    /\ timer' = [timer EXCEPT ![n] = Armed(n)]
    /\ load' = [load EXCEPT ![n] = s \in LoadScenarios]
    /\ heartbeat' = [heartbeat EXCEPT ![n] = @ /\ s # "node-failure"]
    /\ IF s \in DOMAIN ModeOf
       THEN PublishChaos(n, [mode |-> ModeOf[s], by |-> "engine"])
       ELSE UNCHANGED commands
    /\ UNCHANGED <<pending, refused>>

(* Run of an unknown one: an error, after stopLocked; e.active is kept. *)
Refuse(n, s) ==
    /\ Request
    /\ Unlocked(n)
    /\ s \notin Known
    /\ StopLocked(n)
    /\ refused' = [refused EXCEPT ![n] = @ \cup {active[n].run}]
    /\ UNCHANGED <<runID, active, pending, heartbeat, commands>>

TimerFires(n) ==
    /\ timer[n] # 0
    /\ active[n].left = 0
    /\ pending' = [pending EXCEPT ![n] = @ \cup {timer[n]}]
    /\ timer' = [timer EXCEPT ![n] = 0]
    /\ UNCHANGED <<runID, active, load, heartbeat, commands, requests,
                   refused>>

(* Slip: whatever scenario is active is taken for the timer's own. *)
Current_AnyActive(n, r) == active[n] # Idle
Current(n, r) == active[n].run = r

AutoRestore(n) == \E r \in pending[n] :
    /\ Unlocked(n)
    /\ pending' = [pending EXCEPT ![n] = @ \ {r}]
    /\ \/ Current(n, r) /\ Restored(n)
       \/ /\ ~Current(n, r)
          /\ UNCHANGED <<runID, active, timer, load, heartbeat, commands>>
    /\ UNCHANGED <<requests, refused>>

(* The load generator stops by itself at the scenario's deadline. *)
LoadEnds(n) ==
    /\ load[n] /\ active[n].left = 0
    /\ load' = [load EXCEPT ![n] = FALSE]
    /\ UNCHANGED <<runID, active, timer, pending, heartbeat, commands, requests,
                   refused>>

(* /debug/chaos/inject; one such request of a node at a time. *)
Inject(n, m) ==
    /\ Request
    /\ \A c \in sending[n] : c.by # "operator"
    /\ PublishChaos(n, [mode |-> m, by |-> "operator"])
    /\ UNCHANGED <<engine, refused>>

Broadcast(n) == \E c \in sending[n] :
    /\ sending' = [sending EXCEPT ![n] = @ \ {c}]
    /\ bus' = [bus EXCEPT ![n] =
                   [m \in Nodes |-> IF m = n THEN @[m] ELSE Append(@[m], c)]]
    /\ UNCHANGED <<engine, provider, requests, refused>>

(* handleChaos at n.  Its own commands it has seen. *)
HandleChaos(p, n) ==
    /\ bus[p][n] # <<>>
    /\ provider' = [provider EXCEPT ![n] = Head(bus[p][n])]
    /\ bus' = [bus EXCEPT ![p][n] = Tail(@)]
    /\ UNCHANGED <<engine, sending, requests, refused>>

Tick ==
    /\ \E n \in Nodes : active[n] # Idle /\ active[n].left > 0
    /\ active' = [n \in Nodes |->
            IF active[n] # Idle /\ active[n].left > 0
            THEN [active[n] EXCEPT !.left = @ - 1] ELSE active[n]]
    /\ UNCHANGED <<runID, timer, pending, load, heartbeat, commands, requests,
                   refused>>

Next ==
    \/ \E n \in Nodes :
        \/ Restore(n) \/ TimerFires(n) \/ AutoRestore(n) \/ LoadEnds(n)
        \/ Broadcast(n)
        \/ \E s \in Requests \cap Known : Run(n, s)
        \/ \E s \in Requests : Refuse(n, s)
        \/ \E m \in Injected : Inject(n, m)
        \/ \E p \in Nodes : HandleChaos(p, n)
    \/ Tick

Spec == Init /\ [][Next]_vars

(* Time passes, due timers fire, and goroutines that wait get their turn;  *)
(* operators owe nothing.                                                  *)
Fairness ==
    /\ WF_vars(Tick)
    /\ \A n \in Nodes :
        /\ WF_vars(TimerFires(n)) /\ WF_vars(AutoRestore(n)) /\ WF_vars(Broadcast(n))
        /\ \A p \in Nodes : WF_vars(HandleChaos(p, n))

FairSpec == Spec /\ Fairness

-----------------------------------------------------------------------------
Runs == 1 .. MaxRequests

(* Besides the types: an armed timer is the active scenario's own. *)
TypeOK ==
    /\ runID \in [Nodes -> 0 .. MaxRequests]
    /\ active \in [Nodes -> {Idle} \cup [run : Runs, left : 0 .. Duration]]
    /\ timer \in [Nodes -> 0 .. MaxRequests]
    /\ \A n \in Nodes : timer[n] \in {0, active[n].run}
    /\ pending \in [Nodes -> SUBSET Runs]
    /\ load \in [Nodes -> BOOLEAN]
    /\ heartbeat \in [Nodes -> BOOLEAN]
    /\ provider \in [Nodes -> Commands]
    /\ sending \in [Nodes -> SUBSET Commands]
    /\ bus \in [Nodes -> [Nodes -> Seq(Commands)]]
    /\ requests \in 0 .. MaxRequests
    /\ refused \in [Nodes -> SUBSET (0 .. MaxRequests)]

Quiet == /\ \A n \in Nodes : sending[n] = {}
         /\ \A p, n \in Nodes : bus[p][n] = <<>>

(* A node without a scenario is pristine: however scenarios replaced one   *)
(* another, it sends heartbeats and generates no load.                     *)
IdleIsPristine ==
    \A n \in Nodes : active[n] = Idle => heartbeat[n] /\ ~load[n]

(* Once every engine has ended its scenarios and the commands have         *)
(* arrived, no provider is left in a failure mode a scenario gave it, in   *)
(* whatever order commands of different engines reached the nodes.         *)
AllRestored ==
    Quiet /\ (\A n \in Nodes : active[n] = Idle) =>
        \A n \in Nodes : provider[n] = Normal \/ provider[n].by = "operator"

(* A scenario runs for its duration unless the operator ends it: the timer *)
(* of a scenario that was replaced, which Stop came too late for, does not *)
(* end its successor.                                                      *)
NeverCutShort ==
    [][\A n \in Nodes :
         active[n] # Idle /\ active'[n] = Idle
            => active[n].left = 0 \/ requests' # requests]_vars

(* A scenario is ended, also when its timer races other requests for the   *)
(* mutex, unless a refused request has taken its timer away.               *)
EndsOnTime ==
    \A n \in Nodes, r \in Runs :
        active[n].run = r ~> (active[n].run # r \/ r \in refused[n])

(* "auto-restores after its duration" (engine.go): every scenario ends.    *)
AutoRestores ==
    \A n \in Nodes, r \in Runs : active[n].run = r ~> active[n].run # r
=============================================================================
