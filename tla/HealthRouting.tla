---------------------------- MODULE HealthRouting ----------------------------
(***************************************************************************)
(* How a provider's failures reach the choice of a provider: every node's  *)
(* health.Observer probes its providers, publishes what it computes from   *)
(* the recent probes, and router.Select scores the providers by all nodes' *)
(* figures.                                                                *)
(*                                                                         *)
(* Only the primary fails.  The local provider answers every probe in      *)
(* LocalMs, so its health is a constant.  A probe sees the mode its node's   *)
(* primary has when it begins; a chaos command may change it meanwhile.    *)
(* The nodes are alive, and see one another's observations at once: their  *)
(* delay and expiry are ClusterStore's.  Breakers are closed and budgets   *)
(* suffice: RequestPath has those.                                         *)
(*                                                                         *)
(* Shares and scores are integers: Full stands for 1, and is divisible by  *)
(* every number of probes in a window and of nodes.                        *)
(***************************************************************************)
EXTENDS Policy, Sequences, FiniteSetsExt

CONSTANTS
    Nodes,         \* CLUSTER_SIZE of them
    Window,        \* probes in the health window; one more if it is early
    Full,
    Requests,
    RequestOf,     \* riskLevel and policy of each request
    Price,         \* cost of a primary call
    LocalMs,       \* latency of the local provider's probes
    MaxCommands    \* bound on the chaos commands in a behaviour

PolicyOf == [r \in Requests |-> FromRequest(RequestOf[r])]

(* What a probe of the primary comes to in each mode.  One that takes too  *)
(* long is cut off by its timeout.                                         *)
ProbeTimeoutMs == 750
Probe == [normal   |-> [success |-> TRUE,  contract |-> FALSE, ms |-> 200],
          sluggish |-> [success |-> TRUE,  contract |-> FALSE, ms |-> 600],
          outage   |-> [success |-> FALSE, contract |-> FALSE, ms |-> 200],
          contract |-> [success |-> FALSE, contract |-> TRUE,  ms |-> 200],
          slow     |-> [success |-> FALSE, contract |-> FALSE, ms |-> ProbeTimeoutMs]]
Modes == DOMAIN Probe

ASSUME RoutingAssumption ==
    /\ IsFiniteSet(Nodes) /\ Nodes # {}
    /\ Window \in 1 .. 18
    /\ Full \in Nat \ {0}
    /\ \A k \in 1 .. Window + 1, m \in 1 .. Cardinality(Nodes) : Full % (k * m) = 0
    /\ \A r \in Requests : IsRequestPolicy(RequestOf[r].policy)
    /\ Price \in Nat \ {0}
    /\ LocalMs \in 0 .. ProbeTimeoutMs
    /\ MaxCommands \in Nat

VARIABLES
    mode,       \* failure mode of each node's primary
    probing,    \* mode the probe under way has met, "none" between probes
    results,    \* each node's recent probes, the last one last
    observed,   \* each node's observation of the primary, once it has one
    newest,     \* the node that observed last
    commands    \* chaos commands so far

vars == <<mode, probing, results, observed, newest, commands>>

Statuses == {"HEALTHY", "DEGRADED", "UNHEALTHY"}
Health == [status : Statuses, available : 0 .. Full, contract : 0 .. Full, p95 : Nat]

(* store.local as main sets it at the start, and the local provider's.     *)
AtStart == [status |-> "HEALTHY", available |-> Full, contract |-> 0, p95 |-> 0]
LocalHealth == [AtStart EXCEPT !.p95 = LocalMs]

Init ==
    /\ mode = [n \in Nodes |-> "normal"]
    /\ probing = [n \in Nodes |-> "none"]
    /\ results = [n \in Nodes |-> <<>>]
    /\ observed = [n \in {} |-> AtStart]
    /\ newest \in Nodes
    /\ commands = 0

-----------------------------------------------------------------------------
Latest(s, k) == IF Len(s) <= k THEN s ELSE SubSeq(s, Len(s) - k + 1, Len(s))

(* Of fewer than twenty latencies the 95th percentile is the greatest.     *)
P95(S) == CHOOSE ms \in S : \A other \in S : other <= ms

Share(w, outcome) ==
    Cardinality({i \in DOMAIN w : Probe[w[i]][outcome]}) * (Full \div Len(w))

(* Slip: only an outage of the whole window counts. *)
StatusOf_AllFailed(available, contract, p95) ==
    IF available = 0 THEN "UNHEALTHY"
    ELSE IF available < Full THEN "DEGRADED" ELSE "HEALTHY"

(* The thresholds: 50 and 95 %, 20 and 2 %, 1500 ms. *)
StatusOf(available, contract, p95) ==
    IF 2 * available < Full \/ 5 * contract > Full THEN "UNHEALTHY"
    ELSE IF 100 * available < 95 * Full \/ 50 * contract > Full \/ p95 > 1500
         THEN "DEGRADED" ELSE "HEALTHY"

ComputeHealth(w) ==
    LET available == Share(w, "success")
        contract == Share(w, "contract")
        p95 == P95({Probe[w[i]].ms : i \in DOMAIN w})
    IN  [status |-> StatusOf(available, contract, p95),
         available |-> available, contract |-> contract, p95 |-> p95]

(* The store: a majority's status, or the newest observation's, and the    *)
(* mean of all observations' figures.                                      *)
Mean(figure) ==
    SumFunctionOnSet([n \in DOMAIN observed |-> observed[n][figure]], DOMAIN observed)
        \div Cardinality(DOMAIN observed)

Voters(s) == {n \in DOMAIN observed : observed[n].status = s}
Majority(s) == Cardinality(Voters(s)) >= Cardinality(Nodes) \div 2 + 1

GetProviderHealth ==
    IF DOMAIN observed = {} THEN AtStart
    ELSE [status |-> IF \E s \in Statuses : Majority(s)
                     THEN CHOOSE s \in Statuses : Majority(s)
                     ELSE observed[newest].status,
          available |-> Mean("available"),
          contract |-> Mean("contract"),
          p95 |-> P95({observed[n].p95 : n \in DOMAIN observed})]

(* Router.Select for a request: the score of each eligible provider.       *)
HealthOf(p) == IF p = "local" THEN LocalHealth ELSE GetProviderHealth

Eligible(r) ==
    {p \in {"primary", "local"} :
        /\ p = "local" => PolicyOf[r].allowLocalFallback
        /\ HealthOf(p).status # "UNHEALTHY"
        /\ p = "primary" => ~(PolicyOf[r].maxCost > 0 /\ Price > PolicyOf[r].maxCost)}

HealthPoints(status) == CASE status = "HEALTHY" -> 25
                          [] status = "DEGRADED" -> 5
                          [] OTHER -> 0

CostPoints(r, p) == IF p = "local" THEN 10
                    ELSE IF PolicyOf[r].maxCost > 0 THEN 5 ELSE 0

FallbackPoints(r, p) == IF p = "primary" THEN 0
                        ELSE IF PolicyOf[r].riskLevel = "HIGH" THEN 20 ELSE 5

Score(r, p) ==
    LET h == HealthOf(p)
    IN  40 * (h.available - h.contract)
          + Full * ((IF h.p95 > PolicyOf[r].maxLatencyMs THEN -20 ELSE 20)
                    + HealthPoints(h.status) + CostPoints(r, p)
                    - FallbackPoints(r, p))

(* Slip: of equal scores the last wins. *)
Selected_LastWins(r) ==
    IF "local" \in Eligible(r)
       /\ ("primary" \in Eligible(r) => Score(r, "local") >= Score(r, "primary"))
    THEN "local" ELSE IF "primary" \in Eligible(r) THEN "primary" ELSE "none"

(* The first of the best, in the order of registration. *)
Selected(r) ==
    IF "primary" \in Eligible(r)
       /\ ("local" \in Eligible(r) => Score(r, "primary") >= Score(r, "local"))
    THEN "primary" ELSE IF "local" \in Eligible(r) THEN "local" ELSE "none"

-----------------------------------------------------------------------------
(* InjectFailure at one node, by a chaos command on its way round. *)
InjectFailure(n, m) ==
    /\ commands < MaxCommands
    /\ mode' = [mode EXCEPT ![n] = m]
    /\ commands' = commands + 1
    /\ UNCHANGED <<probing, results, observed, newest>>

(* Slip: a provider found unhealthy is not probed any more. *)
BeginProbe_Spared(n) ==
    /\ probing[n] = "none"
    /\ n \in DOMAIN observed => observed[n].status # "UNHEALTHY"
    /\ probing' = [probing EXCEPT ![n] = mode[n]]
    /\ UNCHANGED <<mode, results, observed, newest, commands>>

BeginProbe(n) ==
    /\ probing[n] = "none"
    /\ probing' = [probing EXCEPT ![n] = mode[n]]
    /\ UNCHANGED <<mode, results, observed, newest, commands>>

(* Slip: results are kept by number alone, and twice as many. *)
Kept_Twice(s) == Latest(s, 2 * Window)

(* record keeps 20 results, of which the window never reaches further.     *)
Kept(s) == Latest(s, Window + 1)

(* record, computeHealth and PublishProviderHealth. *)
EndProbe(n) ==
    /\ probing[n] # "none"
    /\ results' = [results EXCEPT ![n] = Kept(Append(@, probing[n]))]
    /\ \E k \in {Window, Window + 1} :
         observed' = [m \in DOMAIN observed \cup {n} |->
                        IF m = n THEN ComputeHealth(Latest(results'[n], k))
                        ELSE observed[m]]
    /\ newest' = n
    /\ probing' = [probing EXCEPT ![n] = "none"]
    /\ UNCHANGED <<mode, commands>>

Next == \E n \in Nodes :
    \/ \E m \in Modes : InjectFailure(n, m)
    \/ BeginProbe(n) \/ EndProbe(n)

Spec == Init /\ [][Next]_vars

(* The ticker ticks and probes end, by their timeout if need be. *)
FairSpec == Spec /\ \A n \in Nodes : WF_vars(BeginProbe(n) \/ EndProbe(n))

-----------------------------------------------------------------------------
TypeOK ==
    /\ mode \in [Nodes -> Modes]
    /\ probing \in [Nodes -> Modes \cup {"none"}]
    /\ results \in [Nodes -> Seq(Modes)]
    /\ \A n \in Nodes : Len(results[n]) <= Window + 1
    /\ DOMAIN observed \subseteq Nodes
    /\ \A n \in DOMAIN observed : observed[n] \in Health
    /\ newest \in Nodes
    /\ commands \in 0 .. MaxCommands

(* Whatever happened before, a primary whose last probes failed is         *)
(* UNHEALTHY once they are more than half of the longest window, and once  *)
(* they are more than a fifth if they violated the contract.  That holds   *)
(* for one that is only slow: it is cut off, not measured.                 *)
FailingNoticed == \A n \in DOMAIN observed :
    LET w == results[n]
        last(k) == {w[i] : i \in {j \in DOMAIN w : j > Len(w) - k}}
        half == (Window + 1) \div 2 + 1
        fifth == (Window + 1) \div 5 + 1
    IN  \/ Len(w) >= half /\ \A m \in last(half) : ~Probe[m].success
        \/ Len(w) >= fifth /\ \A m \in last(fifth) : Probe[m].contract
        => observed[n].status = "UNHEALTHY"

(* A request that may use the fallback, and whose latency limit the        *)
(* fallback keeps to, is sent to the primary exactly when no node has had  *)
(* one failed probe in its window, whatever the majority says, and the     *)
(* primary keeps to the request's limits.                                  *)
Flawless == \A n \in DOMAIN observed : observed[n].available = Full
WithinLimits(r) ==
    /\ Price <= PolicyOf[r].maxCost
    /\ \A n \in DOMAIN observed : observed[n].p95 <= PolicyOf[r].maxLatencyMs

PrimaryIffFlawless == \A r \in Requests :
    /\ PolicyOf[r].allowLocalFallback /\ PolicyOf[r].riskLevel # "HIGH"
    /\ LocalHealth.p95 <= PolicyOf[r].maxLatencyMs
    => (Selected(r) = "primary" <=> Flawless /\ WithinLimits(r))

(* When commands have ceased and left every primary in order, requests end *)
(* up at it again and stay.                                                *)
RoutingRecovers ==
    (<>[]\A n \in Nodes : mode[n] = "normal")
        => <>[](\A r \in Requests : Price <= PolicyOf[r].maxCost
                                       => Selected(r) = "primary")
=============================================================================
