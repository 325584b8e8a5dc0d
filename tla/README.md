# SignalMesh in TLA+

SignalMesh is a mesh of Go nodes that stand between AI agents and model
providers. A node admits a request, routes it to a provider behind a circuit
breaker, checks the answer, retries within policy, detects agents caught in a
loop, keeps budgets and escalates to a person. Nodes tell each other over NATS
what they observe of the providers, and can be put through chaos scenarios.

This directory models the parts of a node that decide something, checks them
with TLC on small instances and proves with TLAPS every safety property that
TLC finds to hold, for all values of the constants under the assumptions of
section 4. The load balancer in front of the nodes is modelled as well. Source
paths below are relative to `services/signalmesh-node/`.

## 1. Inventory

Each part: its state, its operations, who calls it, what makes it hard, and
what makes it correct.

| Part | State | Operations | Hard because | Correct when |
|---|---|---|---|---|
| Circuit breaker `internal/circuitbreaker` | state, consecutive failures and successes, probes handed out, time of the last change; one mutex | `Available`, `Allow`, `RecordSuccess`, `RecordFailure`, `Reset`, `Trip` | `Available` and `Allow` are separate calls; results of calls let through long ago land in whatever state the breaker is in; a probe is given back only by a result | a half-open provider sees only its probes; the breaker always leaves HALF_OPEN and OPEN again |
| Admission control `internal/admission` | per traffic class a buffered channel (semaphore) and a waiter count; node-wide active count; no lock | `Acquire`, `Release` | every atomic operation interleaves; timeouts race a free slot; deferred decrements | nothing leaks on any path; critical traffic depends on no other class |
| Request path `internal/proxy/handler.go`, `internal/escalation` | per request: attempt, deadline, last failure | `HandleChat`, `handleFailure`, `canRetry`, `writeSuccess`, `Escalator.Consider` | calls all shared components in turn and holds none of them; many exits | no blind retry of a risky action; a person is told; every request is answered |
| Router `internal/router` | none of its own | `Select` | what it reads may have changed when the handler acts on it; status and figures of one provider come from different nodes | offers only available, affordable, permitted providers; prefers the primary while it is in order |
| Loop detector `internal/loopdetector` | per fingerprint: count, last failure, notified | `RecordFailure`, `RecordSuccess`, `IsLooping` | check at the start of a request, count at its end | a failing agent is stopped after boundedly many calls |
| Budget manager `internal/budget` | spent, globally and per agent; limits | `Remaining`, `Record`, `SetAgentLimit` (`/debug/budget/set`) | read before the call, charged after it, nothing reserved; limits change meanwhile | overspending is bounded |
| Policy `internal/policy` | none | `FromRequest`, `Deadline` | pure | what the handler meets is normalised |
| Cluster store `internal/cluster/store.go` | nodes' last heartbeats, latest observation of each node, event ids seen, own version counter | publish and handle heartbeats, observations, chaos commands; `GetProviderHealth`; `Status`; cleanup | late, repeated, reordered events; handlers take the lock twice; restarts reset versions | the newest word of live nodes decides, once |
| Event bus `internal/events` (NATS) | connection | `Publish`, `Subscribe` | asynchronous delivery | – |
| Chaos engine `internal/chaos` | active scenario, its run id, timer, load generator; one mutex | `Run`, `autoRestore`, `stopLocked` | a fired timer waits for the mutex while scenarios replace each other; commands travel to other nodes | every scenario is undone, in time and not before |
| Providers `internal/providers` | mock's failure mode | `Generate`, `InjectFailure` | outcome and latency are anything | returns by the context's deadline |
| Health observer `internal/health` | each provider's last probes | `probeAll` at every tick: probe, record, compute, tell the store | a probe's timeout is below the latency threshold; the failure mode changes during a probe; old results stay in the window | a failing provider is found, a healthy one is found again |
| Response validator `internal/validator` | none | `Validate` | pure | – |
| Incident reporter `internal/incident` | recent incidents | `Report`, `List` | – | – |
| Node process `cmd/signalmesh` | – | wiring, HTTP endpoints, `/debug/chaos/*` | concurrent requests to one engine | – |
| Load balancer `cmd/signalmesh-lb` | atomic round-robin counter | `ServeHTTP`, `next` | concurrent requests share the counter; a lost connection does not tell whether the node acted | every request is answered; a live backend is tried; work is not done twice |
| Observability, benchmark, dashboard | counters, lists, displays | – | nothing decides by them | – |

How they interact: `HandleChat` calls `admission.Acquire`, `IsLooping`, and per
attempt `router.Select` (which reads each breaker's `Available`, the store's
`GetProviderHealth` and `budget.Remaining`), `breaker.Allow`,
`provider.Generate`, then `RecordSuccess` on breaker and detector and
`budget.Record`, or `RecordFailure` and `handleFailure` (detector, and on a
detected loop `breaker.Trip` and an incident); at the end the escalator and
`admission.Release`. The load balancer hands requests to the nodes in turn and
goes on to the next when a connection fails. The observer feeds the store, the store talks to other
stores over the bus. The chaos engine turns heartbeats off, generates load,
publishes commands which every node's store passes to its mock provider, and
resets breakers when a scenario ends.

The hazards, each at its line with the properties that watch it, are listed in
`PROJECT.json`.

## 2. Modules

| Module | Models | Correspondence |
|---|---|---|
| `BreakerOps` | every method of `Breaker` as an operator on a breaker value | one operator per method: the mutex makes each atomic. `elapsed` is `now.Sub(lastStateChange)` in ticks; it saturates at `Cooldown`, beyond which the code does not distinguish |
| `CircuitBreaker` | one breaker and any number of request goroutines, loop trips, chaos resets | `Select`/`Allow`/`Reject` are the two reads the handler makes; `Succeed`, `Fail`, `Trip`, `NoTrip` the ways a call ends; `Restore` the reset hook. `probing` is history |
| `ProviderGate` | abstract: what a breaker promises a provider | no code; `CircuitBreaker` and `RequestPath` implement it |
| `Admission` | `Acquire` and `Release`, one step per atomic or channel operation | `pc` is the place in `Acquire`; `sem` the length of the channel; `Expire` the context ending |
| `Bulkhead` | abstract: what one class may rely on | no code; `Admission` implements it for CRITICAL |
| `Policy` | `FromRequest` | operators; a request's own policy is a function on the fields it sets (`IsRequestPolicy`: any of them, to any value), which overrides the defaults before the result is normalised |
| `RequestPath` | `HandleChat` with router, two breakers (through `BreakerOps`), loop detector, budgets, escalation | one action per access to a shared object. `sent` is what the step answered or reported. `ReadBudget` is the handler's call of `Remaining`, kept in `remainingBudget` for `Select`; `Select` reads breakers and health in one step: it holds nothing afterwards, so the handler already meets any later change |
| `ClusterStore` | one node's store for one provider, peers as far as it can tell, the bus | `Receive` is a callback up to its second lock, `SetNode`/`SetObservation` the second; `HealthStatus` is the status of `GetProviderHealth` |
| `ChaosEngine` | all nodes' engines, mock providers' modes, chaos commands on the bus | `pending` are timers that fired and wait for the mutex; `sending` commands applied locally and not yet published, while which the engine keeps its mutex |
| `HealthRouting` | every node's observer, what it publishes, the figures and score by which `Select` chooses | `BeginProbe`/`EndProbe` are one probe of `probeAll`, with the failure mode read in between; `ComputeHealth`, `GetProviderHealth` and `Score` are the code's formulas on integers; `Selected` is the scan with its strict comparison |
| `LoadBalancer` | `ServeHTTP` for concurrent clients, and nodes that are killed, drained and restarted | `Pick` is `next` and the new request, `Connect`/`Refuse`, `Respond`, `TimeOut` the ways of `client.Do`; `Act` is the node's handler, `Leave` the client's context ending. `hist` is history |
| `MC*` | requests, classes, node sets for TLC | |
| `*Proofs` | theorems of `CircuitBreaker`, `Admission`, `RequestPath`, `ClusterStore`, `ChaosEngine`, `LoadBalancer`, `HealthRouting` | |
| `SharedLemmas` | the theorem about `Policy`; sums over finite sets | what the proofs about `RequestPath` and `HealthRouting` share |

`RequestPath` composes `BreakerOps` and `Policy` with the detector, budget and
escalator; `HealthRouting` composes observer, store and router.
`CircuitBreaker` is the same breaker with nothing around it, for the proofs.

Operators whose name ends in `_Something` (`CanRetry_OneMore`, ...) are
plausible slips, used to confirm that each property notices one; no
specification uses them.

### Abstractions worth knowing

* Time is discrete. A call to a provider ends no later than its context's
  deadline, so `Tick` waits for calls that are at theirs.
* Answers of providers, health figures and admission are nondeterministic in
  `RequestPath`; so is the order of eligible providers, which `HealthRouting`
  models. Of the validator only the scores matter: the mock's accepted answers
  have 98 %, the fallback's 72 or 75 %, one without the required fields 10 %,
  and one that is too long, which a model behind the fallback may give, nothing.
* `HealthRouting` sees observations of other nodes at once and all nodes alive:
  delay, expiry and death are `ClusterStore`'s. It counts shares in parts of
  `Full`, a common multiple of all window and cluster sizes, so no division is
  rounded. A probe's latency is one figure for each failure mode; the local
  provider's, `LocalMs`, is any up to the probes' timeout.
* `LoadBalancer` has no clock: the client's timeout may end any attempt. A dial
  may fail for any reason, a node that is up refusing it included. A request
  whose body cannot be read is answered before anything that is modelled.
* A request's deadline is its policy's `maxLatencyMs` in ticks of `TickMs`.
* In `RequestPath` a client sends one request after another, always the same
  one. That is what a looping agent does and is the case the detector is for.
* `RequestPath` counts an escalation as raised when the escalator stores it;
  its publication is best effort in the code as well.
* `ClusterStore` assumes clocks synchronised to its tick, and that a restarting
  process takes at least a tick. Its bus may delay, repeat, lose (never
  deliver) and reorder. Providers do not share state there, so one stands for
  all.
* `ChaosEngine`'s bus keeps each publisher's order and loses nothing, which
  NATS gives while connected. No code repairs a command lost on reconnection.
* Statistics nobody decides by, logs, formats and HTTP codes are left out.

## 3. Runs

| Run | Question | Bounds, and why they are enough |
|---|---|---|
| `circuit_breaker` | Is every probe accounted for, can the breaker wedge, does a straggler reach a half-open breaker, does the breaker implement the gate and always reopen? | 3 callers, 2 probes of which both must succeed, threshold 2, cooldown 3 > deadline 2: a straggler, two probes and a refused caller at once, and ticks for a call to outlive a trip |
| `admission` | Are the counters exact in every interleaving, is critical traffic isolated, is all given back? | 3 critical requests for 1 slot and 1 place in the queue beside a normal one; `GlobalMax` 1, so the shedder acts |
| `admission_queue_bound` | violation: is the queue bounded by `MaxQueue`? | 3 requests of a class, 1 slot, 1 place |
| `request_path` | How far are budgets overspent, when do loops stop, is a risky action repeated, is a person told, do gates hold? | a HIGH and a MEDIUM client of one agent with one fingerprint, 2 attempts each, both providers; a call costs the whole budget, which the operator may cut to half a call as in the budget-exhaustion scenario; threshold 2: both can be past every check when the other acts |
| `request_path_liveness` | Is every admitted request answered? | the same without budgets, which only end requests early, and with no retry for one client |
| `request_path_fallback` | violation: does the fallback's answer pass the gate of a policy that allows the fallback? | as `request_path`, with one MEDIUM client that leaves its policy to the defaults: its failed call opens the circuit, and its next attempt meets the fallback |
| `load_balancer` | Is every request answered, is a backend missed only because others drew it, is an answer ever retried? | 2 clients and 2 backends, either of which may be down: the other's turn can fall between a request's two, and then both attempts meet the same dead node |
| `load_balancer_redone` | violation: is a request handled by one node only? | 1 client, 2 backends |
| `health_routing` | Is a persistent failure found, when does traffic leave the primary, does it return? | 2 nodes, a window of 4 or 5 probes at which every threshold can be passed, 2 changes of the failure mode among 5; requests of each risk, one without a cost limit, one whose latency limit a sluggish primary misses and one whose limit even the fallback misses |
| `cluster_store` | Does the newest observation of live nodes decide, whatever the bus does? | one peer, 3 events, clock to 3 with TTLs of 1: observations expire, seen ids are cleaned up and come again; 3 events give two to reorder and a heartbeat that keeps the peer alive |
| `chaos_engine` | Is every scenario undone, in time, not before, and on all nodes? | 2 engines, 3 requests among a scenario of each kind of effect, an unknown one, restore and an injected mode: a scenario, its successor and a third while the first's timer waits |
| `chaos_auto_restore` | violation: does every scenario end by itself? | one engine, a scenario and an unknown name |

Bounds on behaviours, all in guards: `MaxTime` and `MaxPublished`
(`ClusterStore`), `MaxRequests` (`ChaosEngine`), `MaxCommands` (`HealthRouting`). In the other modules state is
finite as it stands once loops and retries are bounded by the code itself;
`elapsed`, `quiet` and `age` stop where the code stops comparing them.

`CHECK_DEADLOCK FALSE` stands where the system really may come to rest:
requests in `Admission` are answered once and then gone, operators in
`ChaosEngine` need not act, and the clock of `ClusterStore` stops at its bound.
`CircuitBreaker`, `RequestPath`, `HealthRouting` and `LoadBalancer` are checked
for deadlock.

### Properties

* `NoWedge`, `ProbeOutstanding`: a half-open breaker that refuses calls waits
  for a call that is still running. A path of the handler that forgets to
  report a result breaks this.
* `HalfOpenIsolated`, `ImplementsGate`, `ProvidersGated`: no straggler decides
  a half-open breaker's fate. This needs `Deadline < Cooldown`: it holds for
  the policies' own latencies (1500, 2000 and 3000 ms against 5 s), not for a
  request that asks for a longer deadline.
* `Recovers`: trips and stragglers cannot extend an outage.
* `Bookkeeping`, `ReleaseFindsToken`, `Quiesces`: the semaphore, waiter and
  active counts are exact at every step and return to zero.
* `CriticalIsolated`: admission implements `Bulkhead` for CRITICAL: a request in
  time is refused only after it found its own class's slots, and then its own
  class's queue, taken. TLC's instance has one normal request, which may take
  node-wide capacity but finds no one to wait for; that a queue of another
  class costs a critical request no place is the theorem's, for any requests.
* `OverspendBounded`: what clients have spent, have under way and may still
  choose by what they read of the budget grows only by such a read, and then
  not beyond the limit in force by more than one call per other client. So
  while a limit stays as it is, it bounds what is spent up to that; and a limit
  that is lowered holds for every later read. It does not hold for a request
  that read before: `Select` goes by the old number.
* `RunawayBounded`: failures counted for a fingerprint stay below the threshold
  plus one request's attempts for each client that sends it: those may be past
  `IsLooping` already.
* `NoBlindRetry`, `HumanTold`: the two promises about high-risk requests, over
  all exits. `Answered`: every request ends.
* `NewestCounted`, `DeadDropped`, `ReplayHarmless`: what the router is told of
  a provider is the newest word of nodes with a live heartbeat, and repeating an
  event has no effect, also after its id was forgotten.
* `MissedWentToOthers`: a request may come back to a backend it has tried and be
  answered 502 while another is alive, but only because other requests drew
  that other one meanwhile; alone, it reaches every backend.
  `RedoneOnlyIfLost`: no answer, whatever its status, is retried elsewhere.
  `Served`: `ServeHTTP` returns.
* `FailingNoticed`: enough failures in a row make the primary UNHEALTHY
  whatever came before, and one that is merely slow counts as failing.
  `PrimaryIffFlawless`: where the fallback is allowed, a single failed probe
  at a single node moves low and medium risk to the fallback (HEALTHY or not by
  majority), and nothing else but the request's own limits does. That needs a
  latency limit the fallback keeps to: below the fallback's own latency it
  loses its lead, and a tie goes to the primary.
  `RoutingRecovers`: they come back when the primary is in order.
* `IdleIsPristine`, `AllRestored`: nothing a scenario did outlives it, on any
  node. `NeverCutShort`, `EndsOnTime`: a late timer neither ends a successor nor
  is lost, unless a refused request took it away.

### Fairness

* `CircuitBreaker`: time passes, and a call that runs ends (`Generate` honours
  its context). Callers need not call.
* `Admission`: goroutines run, handlers end, contexts have deadlines.
* `RequestPath`: handler goroutines run and time passes; nothing else.
* `ChaosEngine`: time passes, due timers fire, goroutines waiting for the mutex
  and messages on the bus get their turn. Operators owe nothing.
* `LoadBalancer`: goroutines of `ServeHTTP` run, and a wait for an answer ends
  by the timeout at the latest. Nodes owe nothing, neither an answer nor a
  restart.
* `HealthRouting`: the ticker ticks and a probe ends within its timeout.
* All fairness is weak. `Admission` takes it for the whole of a request's
  `Step`, so a request in the queue is owed a slot or its timeout, not a slot.

### Disagreements found

1. `admission_queue_bound`: `Acquire` compares the waiter count and raises it
   in two steps; concurrent requests exceed `MaxQueue`.
2. `request_path_fallback`: by default MEDIUM requests may use the fallback and
   ask for 80 % quality; the fallback's answers score 72 or 75 %. In an outage of
   the primary they are turned down by the quality gate, against the "keeps
   serving" of `provider-outage` in `scenarios/README.md`. LOW requests, which
   ask for 70 %, are served.
3. `load_balancer_redone`: a request whose connection is lost after a node acted
   on it is sent to the next node, whatever its risk, against "do not blindly
   retry" of a timeout.
4. `chaos_auto_restore`: a request with an unknown scenario name stops the
   active scenario's timer, and nothing ends that scenario any more.

Also seen while reading the source, and not run:

* A probe is cut off after 750 ms, so the mock's 2000 ms of `latency-spike`
  look like an outage to the observer: the primary becomes UNHEALTHY, its p95
  never passes 750 ms, and DEGRADED by latency (1500 ms) is out of reach.
  `scenarios/README.md` expects `P95_LATENCY_EXCEEDED`, which only a request
  with a latency budget below that meets. `HealthRouting`'s mode `slow` has it.
* `GLOBAL_MAX` defaults to 200 and the classes' capacities add up to 160: a
  full node never sheds by that rule.
* A breaker that opens between `Select` and `Allow` turns the request away with
  503, though it has attempts left and the fallback is available: phase
  `circuit` is not retried (`RejectCircuit`, `CanRetry`).
* The consensus flag of `Status` counts recent observations, not agreement.
* `handleChaos` applies commands in the order of arrival and does not compare
  their timestamps, so two nodes that give commands at once may end in
  different failure modes.
* The balancer's write timeout (15 s) is shorter than two attempts of 10 s.

## 4. Proofs

All theorems about specifications are `Spec => ...` for every value of the
constants, from the `ASSUME`s of the module and the library's theorems on finite
sets, functions and well-founded relations.

**`SharedLemmas`.** `PoliciesNormalized`: whatever risk level a request names and
whichever fields its policy sets to whatever values, `FromRequest(req)` is in
`Policies`. The models of the handler and the router take every policy from it,
so their assumption is only that clients send well-typed fields. The rest is
about `SumFunctionOnSet`. The library states facts about folds with an operator
as parameter, which the provers cannot use; but the fold is a `CHOOSE` of a
recursive function on subsets, so its existence (`AddsExists`, one size of
subset after another) and uniqueness (`AddsAgree`) are proved for the sum
itself. Both, and the lemmas a reader would expect (`SumElement`, `SumMonotone`,
`SumGrows`, `SumConstant`), argue by a smallest counterexample: strict inclusion
is well founded on the subsets of a finite set (`MinimalSubset`, from the
library's `WFMin`), which takes the place of an induction rule.

**`CircuitBreakerProofs`.** `Spec => []IndInv` (`Inductive`). None of the three
properties is inductive alone. `ProbesAccounted` relates the counter of probes
to the calls that took them: probes handed out are still running or counted as
successes, and successes are below the limit. From it `NoWedge` follows with
`ProbesCanClose` (if no probe ran, the counter would be at most the successes,
below the number of probes). `OnlyProbesRun` needs `NothingEnteredSinceOpen`:
an open breaker has been open no longer than any call still running has been
running, so when the cooldown is over and deadlines are shorter, no call is
left; this gives `Isolation` and, step by step, `Refinement`
(`Spec => ImplementsGate`). The last two assume `Deadline < Cooldown`.
`ProbesCanClose` (as many probes as successes needed) is not enforced by
`New`; the default configuration, which the program uses, satisfies it.

**`AdmissionProofs`.** `Spec => []Bookkeeping` (`BooksKept`): each counter
equals the number of requests at certain places of `Acquire`. This is
inductive with the type invariant, and the work is in the cardinality of those
sets when one request enters or leaves. `ReleaseSound` follows: an active
request holds a token. `CriticalIsolation` maps each step to a `Bulkhead` step
or a stutter; it uses the exact counts to turn "the channel is full" and "the
waiter count is at `MaxQueue`" into "every slot of this class is taken" and "so
many of this class wait".

**`ClusterStoreProofs`.** `Spec => []IndInv` (`StoreInvariant`). The chain is:
stamps of a node are unique at a time (`StampsUnique`, versions restart only
when the clock has moved); what is stored, or in a callback's hand, stays in
`seen` until it has expired (`SeenLongEnough`, from `ObservationTTL <=
SeenTTL`), so no unexpired observation is stored twice (`HandledOnce`); hence
stored is stored or superseded (`ObservationsKept`, `HeartbeatsKept`), and what
is stored was published (`...Real`). `NewestWins`, `DeadNodesDropped` and
`ReplaysIgnored` follow. `UniqueVerdict`: in a cluster of at most
`CLUSTER_SIZE` nodes at most one status has a majority, so ranging over a Go
map does not matter there.

**`RequestPathProofs`.** `PathInv` (`TypeCorrect`) is the type invariant with
`Located`: where a request is in the handler says which of its variables are
set. A request at the provider has one, a failed one has a phase and it is not
`admission`, one just admitted is at its first attempt. Without it not even
types are inductive: `Allow` would look up a breaker for "none". `CanRetry`
bounds the attempts. `RetriesInformed` needs `Located` because the phases
`CanRetry` refuses leave "quality" only if the phase is one of a failure.
`HumansTold` is about single steps: each exit is looked at. `ProbesRunning`
strengthens `ProbeOutstanding` to `ProbesCovered`: probes handed out less
successes are at most the requests at the provider, and a half-open breaker
still misses a success. The lemma `OpsAnswer` gives what
each method does to that difference, so the proof is about how the handler
pairs `Allow` with a result. `ProbesCanClose` is used in the last step.
`GatesHold` (`Spec => ProvidersGated`) strengthens types with `GateInv`: an
open breaker has been open no longer than any call at its provider has been
running, so none is left when the cooldown is over, and the calls at a
half-open breaker's provider are at most the probes it handed out. `Calling`,
the requests really at a provider, are the gate's calls, so it is
`CircuitBreakerProofs`' refinement for the handler instead of an ideal caller.
It assumes that every deadline is below the cooldown. `BudgetRespected` takes
each step apart by what it does to the set of requests that have a primary call
under way or may still choose one by what they read (`SpendStep`): it loses
some, one is charged, or one joins by reading enough, which fits both limits
(`FitsLimits`). `Select` adds nobody, since it goes by that same number; a
change of a limit adds nobody either. Those there already are other clients,
at most one each (`CommitStep`). `RunawaysBounded`: a bound on the count is not
inductive, since it does not say how many failures are still to come.
`Contained` adds them: what is counted and what is `Ahead` of the requests past
`IsLooping` (the attempt under way and the ones left to it) stay together below
the bound. A failure moves one from the second to the first; a request may only
enter, and put its attempts ahead, while the count is below the threshold, and
what is ahead of all together is never more than all their attempts. When the
window has passed the count no longer matters, since the next failure starts it
again, so a stale entry owes only its own bound. `Begun` (attempts count from
one) keeps what is ahead from exceeding a request's attempts.

**`ChaosEngineProofs`.** `Numbered`: an engine numbers its scenarios in turn and
no timer or fired run has a later number, so a new scenario's number is fresh;
`PendingDue`: a fired timer of the active scenario means its time is up. From
these `NotCutShort`; `IdlePristine` only needs the types and numbers. `ScenariosUndone`
rests on `FollowedUp`: every failure mode of a scenario, in a provider, being
published or on the bus, is followed from the same engine by the restoration,
or that engine's scenario is still active. Order per publisher makes this
inductive; with everything quiet no such mode can be left.

**`LoadBalancerProofs`.** `DrawnInTurn`: since a request arrived, it and the
others have drawn at least as many *successive* values of the counter as it
made attempts. When the attempts are `N` those are all backends, which gives
`MissesNoneAlone`; the claim about the sets alone is not inductive, since it
says nothing before the last attempt. `ActsExact` (at most the current attempt
has acted, unless one was lost) gives `NoNeedlessRedo`.

**`HealthRoutingProofs`.** `RouteInv` says that what a node observes is computed
from the newest of its results, over one of the two windows. The rest is
arithmetic over it. `FailuresNoticed`: the last results reach back over more
than half (a fifth) of the longer window, so over more than that part of the one
used, whatever else is in it (`LastOnes`, `Counted`); `Full` is a multiple of the
window's length, so counting parts of it is exact (`ShareFacts`), and the
thresholds follow (`HalfFailed`, `FifthViolated`). `PrimaryOnlyFlawless`: with no
failed probe every node votes HEALTHY, and the figures are whole
(`FlawlessHealthy`); one failed probe at one node takes the sum of the nodes'
availability below the whole (`SumGrows`), and so its mean (`Means`), by at least
one part of `Full`. The fallback's score is one constant for a request that may
use it and whose limit it keeps to (`LocalScore`), which is the best score the
primary can have; it has it exactly with whole figures, status HEALTHY, a known
cost limit and every node's p95 within the latency limit (`PrimaryScore`), and
ties go to the primary. That `Window` is at most 18 makes the 95th percentile the
greatest latency, as in the code for fewer than twenty results.

**Model-checked only.** Liveness (`Recovers`, `Quiesces`, `Answered`, `Served`,
`EndsOnTime`, `RoutingRecovers`), since the prover has no rule for fairness
here. And, naturally, the four violations.

## 5. Not modelled

* Parsing: the validator's, the fingerprint's, the classification of requests;
  they are constants or choices where they feed a decision.
* Observability, benchmark, dashboard: nothing decides by them.
* Connection handling of NATS, HTTP, Ollama: libraries and I/O. So a chaos
  command lost on reconnection, which no code repairs, is not in `ChaosEngine`.
* Clocks that differ between nodes (`ClusterStore` compares stamps with its
  own), and the lengths of the balancer's timeouts.
* The providers' own request counters: only `GetHealth` reads them. `main` uses
  it once at start, and `Select` overwrites its value with the store's when
  there is a health source, which `main` always sets.

## 6. Order of the work, and what is left

`BreakerOps`, `CircuitBreaker`, `ProviderGate`; `Admission`, `Bulkhead`;
`RequestPath`, `Policy`; `ClusterStore`; `ChaosEngine`; `LoadBalancer`;
`HealthRouting`; each with its proofs.

Left: `ChaosEngine` with lost commands.
