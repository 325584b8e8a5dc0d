---------------------------- MODULE RequestPath -----------------------------
(***************************************************************************)
(* proxy.Handler.HandleChat with what it shares between requests: the      *)
(* router's two providers and their breakers, the loop detector, the       *)
(* budget manager, the escalator and the incident reporter.                *)
(*                                                                         *)
(* A member of Requests is a client that sends one request after another;  *)
(* its policy and fingerprint stay the same.  Each access to a shared      *)
(* object is a step of its own: what is left of the budget is read before  *)
(* Select, which goes by that number, and charged after the call.  Select  *)
(* reads the two breakers and the health in one step: nothing is held      *)
(* afterwards, so Allow already meets whatever changed since.              *)
(*                                                                         *)
(* A provider's answer, its health and admission are nondeterministic.     *)
(* The score that orders eligible providers is left to chance as well: it  *)
(* depends on health figures that may be anything here; HealthRouting has  *)
(* the figures and the score.                                              *)
(***************************************************************************)
EXTENDS BreakerOps, Policy, Integers, FiniteSetsExt

CONSTANTS
    Requests,
    RequestOf,       \* riskLevel, taskType and policy of each client's requests
    FingerprintOf,   \* loopdetector.Fingerprint of each client's requests
    AgentOf,         \* req.AgentID
    Price,           \* cost of a primary call; the fallback is free
    GlobalLimit,     \* budget.Manager limits; 0 means unlimited
    DefaultAgentLimit,
    AgentLimits,     \* limits /debug/budget/set may give an agent
    LoopThreshold,   \* failures that make a fingerprint a loop
    LoopWindow,      \* ticks without a failure after which one is forgotten
    TickMs           \* milliseconds in a tick

Providers == {"primary", "local"}
Fingerprints == {FingerprintOf[r] : r \in Requests}
Agents == {AgentOf[r] : r \in Requests}

PolicyOf == [r \in Requests |-> FromRequest(RequestOf[r])]

(* isCriticalTask: task types that contain one of these words. *)
CriticalTasks == {"financial", "payment", "refund", "trade", "compliance",
                  "medical", "security", "irreversible", "action"}

HighRisk(r) == PolicyOf[r].riskLevel = "HIGH"
Irreversible(r) == HighRisk(r) /\ ~PolicyOf[r].idempotent

(* Ticks from a request's arrival to its deadline. *)
Deadline(r) == PolicyOf[r].maxLatencyMs \div TickMs

ASSUME PathAssumption ==
    /\ IsFiniteSet(Requests)
    /\ \A r \in Requests : IsRequestPolicy(RequestOf[r].policy)
    /\ {Price, GlobalLimit, DefaultAgentLimit} \subseteq Nat
    /\ AgentLimits \subseteq Int
    /\ {LoopThreshold, LoopWindow, TickMs} \subseteq Nat \ {0}
    /\ \A r \in Requests : Deadline(r) > 0

VARIABLES
    breakers,     \* the breaker of each provider
    loops,        \* detector entry of each fingerprint; count 0: none
    globalSpent, agentSpent,
    agentLimit,   \* limit of each agent
    pc,           \* where each client's request is in the handler
    age,          \* ticks since it arrived
    attempt,
    remainingBudget,  \* what Remaining returned, until Select is done with it
    prov,         \* provider of the current attempt; "none" if none was found
    phase,        \* last.phase
    sent          \* what this step sent out: a response, an incident report

budgets == <<globalSpent, agentSpent, agentLimit>>
shared == <<breakers, loops, budgets>>
local == <<pc, age, attempt, remainingBudget, prov, phase>>
vars == <<shared, local, sent>>

FailurePhases == {"admission", "agent_loop", "no_provider", "budget", "circuit",
                  "generation", "timeout", "semantic", "quality", "cost"}

Nothing == [to |-> "none", phase |-> "none", escalated |-> FALSE, incident |-> "none"]
NoEntry == [count |-> 0, notified |-> FALSE, quiet |-> 0]

Init ==
    /\ breakers = [p \in Providers |-> NewBreaker]
    /\ loops = [f \in Fingerprints |-> NoEntry]
    /\ globalSpent = 0
    /\ agentSpent = [a \in Agents |-> 0]
    /\ agentLimit = [a \in Agents |-> DefaultAgentLimit]
    /\ pc = [r \in Requests |-> "idle"]
    /\ age = [r \in Requests |-> 0]
    /\ attempt = [r \in Requests |-> 0]
    /\ remainingBudget = [r \in Requests |-> 0]
    /\ prov = [r \in Requests |-> "none"]
    /\ phase = [r \in Requests |-> "none"]
    /\ sent = Nothing

-----------------------------------------------------------------------------
Move(r, l) == pc' = [pc EXCEPT ![r] = l]
GoTo(r, l) == Move(r, l) /\ sent' = Nothing

(* Detector: an entry not failed for more than the window counts no more. *)
Stale(e) == e.quiet > LoopWindow

(* Slip, for checking the properties: the detector notices one too late. *)
IsLooping_TooLate(r) ==
    LET e == loops[FingerprintOf[r]]
    IN  ~Stale(e) /\ e.count > LoopThreshold

IsLooping(r) ==
    LET e == loops[FingerprintOf[r]]
    IN  ~Stale(e) /\ e.count >= LoopThreshold

AfterLoopFailure(e) ==
    LET live == IF Stale(e) THEN NoEntry ELSE e
    IN  [count |-> live.count + 1, quiet |-> 0,
         notified |-> live.notified \/ live.count + 1 >= LoopThreshold]

(* Budget: what is left to an agent.  Unlimited is more than any call costs. *)
Unlimited == Price + 1
Left(limit, spent) == IF limit <= 0 THEN Unlimited ELSE limit - spent
Remaining(r) ==
    LET g == Left(GlobalLimit, globalSpent)
        a == Left(agentLimit[AgentOf[r]], agentSpent[AgentOf[r]])
    IN  IF g < a THEN g ELSE a

CostOf(p) == IF p = "primary" THEN Price ELSE 0

(* Router: the checks of Select in their order, for the providers that are *)
(* not among the sick ones.                                                *)
Usable(r, sick) == {p \in Providers \ sick :
    /\ Available(breakers[p])
    /\ p = "local" => PolicyOf[r].allowLocalFallback}

(* Slip: only the request's own limit is checked. *)
TooDear_RequestOnly(r, p) ==
    CostOf(p) > 0 /\ PolicyOf[r].maxCost > 0 /\ CostOf(p) > PolicyOf[r].maxCost

TooDear(r, p) ==
    /\ CostOf(p) > 0
    /\ \/ CostOf(p) > remainingBudget[r]
       \/ PolicyOf[r].maxCost > 0 /\ CostOf(p) > PolicyOf[r].maxCost

(* The validator: an accepted answer scores the confidence its provider    *)
(* claims, the local one less without its model than with it.  One without *)
(* the required fields, as only the primary is made to give, scores 0.1.   *)
(* The local one's can only be rejected as too long, which scores nothing. *)
AcceptedScores(p) == IF p = "primary" THEN {98} ELSE {72, 75}
RejectedScore == 10

(* Escalator.Consider: its confidence in a failed answer, and whether the  *)
(* failure needs a person.                                                 *)
Confidences(r, ph) ==
    CASE ph \in {"no_provider", "budget"} -> {0}
      [] ph = "semantic" /\ prov[r] = "primary" -> {RejectedScore}
      [] ph = "quality" -> {s \in AcceptedScores(prov[r]) :
                               s < PolicyOf[r].minimumQualityScore}
      [] OTHER -> {5}

Escalates(r, ph, confidence) ==
    \/ ph = "agent_loop" \/ PolicyOf[r].requiresHumanOnFailure
    \/ Irreversible(r) /\ ph \in {"timeout", "generation"}
    \/ RequestOf[r].taskType \in CriticalTasks /\ ph \in {"semantic", "quality"}
    \/ HighRisk(r) /\ ph \in {"no_provider", "budget"}
    \/ /\ HighRisk(r) /\ ph \in {"semantic", "quality", "generation", "timeout"}
       /\ confidence < PolicyOf[r].minimumQualityScore

(* The handler's answer: its phase, and an escalation if one was raised;   *)
(* a budget failure is also reported as an incident.                       *)
(* The request's own variables end with it.                                *)
Answer(r, ph, esc) ==
    /\ sent' = [to |-> r, phase |-> ph, escalated |-> esc,
                incident |-> IF ph = "budget" THEN "BUDGET_EXHAUSTED" ELSE "none"]
    /\ Move(r, "idle")
    /\ phase' = [phase EXCEPT ![r] = "none"]
    /\ age' = [age EXCEPT ![r] = 0]
    /\ attempt' = [attempt EXCEPT ![r] = 0]
    /\ remainingBudget' = [remainingBudget EXCEPT ![r] = 0]
    /\ prov' = [prov EXCEPT ![r] = "none"]

-----------------------------------------------------------------------------
Arrive(r) ==
    /\ pc[r] = "idle"
    /\ GoTo(r, "admitted")
    /\ attempt' = [attempt EXCEPT ![r] = 1]
    /\ UNCHANGED <<shared, age, remainingBudget, prov, phase>>

(* Acquire returned false: answered without asking the escalator. *)
RefuseAdmission(r) ==
    /\ pc[r] = "idle"
    /\ Answer(r, "admission", FALSE)
    /\ UNCHANGED shared

(* Slip: the early exit forgets to ask the escalator. *)
RejectLoop_Unescalated(r) ==
    /\ pc[r] = "admitted"
    /\ IsLooping(r)
    /\ Answer(r, "agent_loop", FALSE)
    /\ UNCHANGED shared

RejectLoop(r) ==
    /\ pc[r] = "admitted"
    /\ IsLooping(r)
    /\ Answer(r, "agent_loop", Escalates(r, "agent_loop", 5))
    /\ UNCHANGED shared

Enter(r) ==
    /\ pc[r] = "admitted"
    /\ ~IsLooping(r)
    /\ GoTo(r, "routing")
    /\ UNCHANGED <<shared, age, remainingBudget, attempt, prov, phase>>

(* budgets.Remaining, under a lock of its own: a limit may change, and     *)
(* other requests choose and be charged, before Select goes by the number. *)
ReadBudget(r) ==
    /\ pc[r] = "routing"
    /\ remainingBudget' = [remainingBudget EXCEPT ![r] = Remaining(r)]
    /\ GoTo(r, "choosing")
    /\ UNCHANGED <<shared, age, attempt, prov, phase>>

Select(r) ==
    /\ pc[r] = "choosing"
    /\ \E sick \in SUBSET Providers :
         \E p \in Usable(r, sick) :
            /\ ~TooDear(r, p)
            /\ prov' = [prov EXCEPT ![r] = p]
    /\ remainingBudget' = [remainingBudget EXCEPT ![r] = 0]
    /\ GoTo(r, "selected")
    /\ UNCHANGED <<shared, age, attempt, phase>>

(* No provider is left; one that only cost ruled out, or an empty budget,  *)
(* makes it a budget failure.                                              *)
SelectNone(r) ==
    /\ pc[r] = "choosing"
    /\ \E sick \in SUBSET Providers :
         /\ \A p \in Usable(r, sick) : TooDear(r, p)
         /\ phase' = [phase EXCEPT ![r] =
                        IF Usable(r, sick) # {} \/ remainingBudget[r] <= 0
                        THEN "budget" ELSE "no_provider"]
    /\ prov' = [prov EXCEPT ![r] = "none"]
    /\ remainingBudget' = [remainingBudget EXCEPT ![r] = 0]
    /\ GoTo(r, "failed")
    /\ UNCHANGED <<shared, age, attempt>>

(* Slip: the call is let through by Available, so no probe is counted. *)
Allow_Uncounted(r) ==
    /\ pc[r] = "selected"
    /\ Available(breakers[prov[r]])
    /\ GoTo(r, "calling")
    /\ UNCHANGED <<shared, age, remainingBudget, attempt, prov, phase>>

Allow(r) ==
    /\ pc[r] = "selected"
    /\ Available(breakers[prov[r]])
    /\ breakers' = [breakers EXCEPT ![prov[r]] = AfterAllow(@)]
    /\ GoTo(r, "calling")
    /\ UNCHANGED <<loops, budgets, age, remainingBudget, attempt, prov, phase>>

RejectCircuit(r) ==
    /\ pc[r] = "selected"
    /\ ~Available(breakers[prov[r]])
    /\ phase' = [phase EXCEPT ![r] = "circuit"]
    /\ GoTo(r, "failed")
    /\ UNCHANGED <<shared, age, remainingBudget, attempt, prov>>

(* Slip: a failure of the gates is not reported to the breaker. *)
CallFails_ErrorsOnly(r) ==
    /\ pc[r] = "calling"
    /\ \E ph \in {"generation", "semantic"} :
         /\ breakers' = IF ph = "semantic" THEN breakers
                        ELSE [breakers EXCEPT ![prov[r]] = AfterFailure(@)]
         /\ phase' = [phase EXCEPT ![r] = ph]
    /\ GoTo(r, "failed")
    /\ UNCHANGED <<loops, budgets, age, remainingBudget, attempt, prov>>

(* Generate failed, or its answer failed one of the gates.  A client that  *)
(* goes away cancels the call, of either provider: a generation error.     *)
(* Both answers may violate the contract, the local one's by its length.   *)
CallFails(r) ==
    /\ pc[r] = "calling"
    /\ breakers' = [breakers EXCEPT ![prov[r]] = AfterFailure(@)]
    /\ \E ph \in {"generation", "timeout", "semantic", "quality", "cost"} :
         /\ ph = "timeout" => age[r] = Deadline(r)
         /\ ph = "quality" => \E s \in AcceptedScores(prov[r]) :
                                 s < PolicyOf[r].minimumQualityScore
         /\ ph = "cost" => /\ PolicyOf[r].maxCost > 0
                           /\ CostOf(prov[r]) > PolicyOf[r].maxCost
         /\ phase' = [phase EXCEPT ![r] = ph]
    /\ GoTo(r, "failed")
    /\ UNCHANGED <<loops, budgets, age, remainingBudget, attempt, prov>>

CallSucceeds(r) ==
    /\ pc[r] = "calling"
    /\ \E s \in AcceptedScores(prov[r]) : s >= PolicyOf[r].minimumQualityScore
    /\ breakers' = [breakers EXCEPT ![prov[r]] = AfterSuccess(@)]
    /\ GoTo(r, "clearing")
    /\ UNCHANGED <<loops, budgets, age, remainingBudget, attempt, prov, phase>>

(* loopDetector.RecordSuccess deletes the entry. *)
ClearLoop(r) ==
    /\ pc[r] = "clearing"
    /\ loops' = [loops EXCEPT ![FingerprintOf[r]] = NoEntry]
    /\ GoTo(r, "charging")
    /\ UNCHANGED <<breakers, budgets, age, remainingBudget, attempt, prov, phase>>

(* budgets.Record: only an accepted answer is charged. *)
Charge(r) ==
    /\ pc[r] = "charging"
    /\ globalSpent' = globalSpent + CostOf(prov[r])
    /\ agentSpent' = [agentSpent EXCEPT ![AgentOf[r]] = @ + CostOf(prov[r])]
    /\ Answer(r, "accepted", FALSE)
    /\ UNCHANGED <<breakers, loops, agentLimit>>

(* handleFailure: count the failure; the first to reach the threshold goes *)
(* on to trip the provider's breaker and report.                           *)
CountFailure(r) ==
    LET f == FingerprintOf[r]
        e == AfterLoopFailure(loops[f])
        detected == e.notified /\ (Stale(loops[f]) \/ ~loops[f].notified)
    IN  /\ pc[r] = "failed"
        /\ loops' = [loops EXCEPT ![f] = e]
        /\ GoTo(r, IF detected THEN "tripping" ELSE "deciding")
        /\ UNCHANGED <<breakers, budgets, age, remainingBudget, attempt, prov, phase>>

(* Without a provider there is nothing to trip. *)
StopLoop(r) ==
    /\ pc[r] = "tripping"
    /\ breakers' = IF prov[r] = "none" THEN breakers
                   ELSE [breakers EXCEPT ![prov[r]] = AfterTrip(@)]
    /\ sent' = [Nothing EXCEPT !.incident = "AGENT_LOOP"]
    /\ phase' = [phase EXCEPT ![r] = "agent_loop"]
    /\ Move(r, "deciding")
    /\ UNCHANGED <<loops, budgets, age, remainingBudget, attempt, prov>>

(* Slips: one attempt too many; every risk alike. *)
CanRetry_OneMore(r) ==
    /\ attempt[r] <= PolicyOf[r].maxRetries + 1
    /\ age[r] < Deadline(r)
    /\ phase[r] \in {"timeout", "generation", "semantic", "quality"}
    /\ Irreversible(r) => phase[r] = "quality"

CanRetry_AnyRisk(r) ==
    /\ attempt[r] < PolicyOf[r].maxRetries + 1
    /\ age[r] < Deadline(r)
    /\ phase[r] \in {"timeout", "generation", "semantic", "quality"}

(* canRetry.  The last 100 ms before the deadline are the tick at it. *)
CanRetry(r) ==
    /\ attempt[r] < PolicyOf[r].maxRetries + 1
    /\ age[r] < Deadline(r)
    /\ phase[r] \notin {"budget", "cost", "no_provider", "circuit", "agent_loop"}
    /\ Irreversible(r) =>
           phase[r] \notin {"timeout", "generation", "semantic"}

(* Slip: the retry starts the request over. *)
Retry_Afresh(r) ==
    /\ pc[r] = "deciding"
    /\ phase[r] \in {"timeout", "generation", "semantic", "quality"}
    /\ attempt' = [attempt EXCEPT ![r] = 1]
    /\ GoTo(r, "routing")
    /\ UNCHANGED <<shared, age, remainingBudget, prov, phase>>

Retry(r) ==
    /\ pc[r] = "deciding"
    /\ CanRetry(r)
    /\ attempt' = [attempt EXCEPT ![r] = @ + 1]
    /\ GoTo(r, "routing")
    /\ UNCHANGED <<shared, age, remainingBudget, prov, phase>>

GiveUp(r) ==
    /\ pc[r] = "deciding"
    /\ ~CanRetry(r)
    /\ \E confidence \in Confidences(r, phase[r]) :
         Answer(r, phase[r], Escalates(r, phase[r], confidence))
    /\ UNCHANGED <<breakers, loops, budgets>>

(* /debug/budget/set *)
SetAgentLimit(a) ==
    /\ \E limit \in AgentLimits : agentLimit' = [agentLimit EXCEPT ![a] = limit]
    /\ sent' = Nothing
    /\ UNCHANGED <<breakers, loops, globalSpent, agentSpent, local>>

(* The chaos engine's restore hook resets the breakers one after another. *)
Restore ==
    /\ \E p \in Providers : breakers' = [breakers EXCEPT ![p] = AfterReset(@)]
    /\ sent' = Nothing
    /\ UNCHANGED <<loops, budgets, local>>

(* Time passes; Generate returns by its context's deadline.  Clocks stop   *)
(* where the code stops comparing them.                                    *)
Tick ==
    /\ \A r \in Requests : pc[r] = "calling" => age[r] < Deadline(r)
    /\ breakers' = [p \in Providers |-> AfterTick(breakers[p])]
    /\ loops' = [f \in Fingerprints |->
                   IF loops[f].count > 0 /\ ~Stale(loops[f])
                   THEN [loops[f] EXCEPT !.quiet = @ + 1] ELSE loops[f]]
    /\ age' = [r \in Requests |->
                 IF pc[r] # "idle" /\ age[r] < Deadline(r) THEN age[r] + 1 ELSE age[r]]
    /\ sent' = Nothing
    /\ UNCHANGED <<budgets, pc, attempt, remainingBudget, prov, phase>>

Handle(r) ==
    \/ RejectLoop(r) \/ Enter(r) \/ ReadBudget(r) \/ Select(r) \/ SelectNone(r)
    \/ Allow(r) \/ RejectCircuit(r) \/ CallFails(r) \/ CallSucceeds(r)
    \/ ClearLoop(r) \/ Charge(r) \/ CountFailure(r) \/ StopLoop(r)
    \/ Retry(r) \/ GiveUp(r)

Next ==
    \/ \E r \in Requests : Handle(r) \/ Arrive(r) \/ RefuseAdmission(r)
    \/ \E a \in Agents : SetAgentLimit(a)
    \/ Restore \/ Tick

Spec == Init /\ [][Next]_vars

(* Handler goroutines run, and Generate returns. *)
FairSpec == Spec /\ WF_vars(Tick) /\ \A r \in Requests : WF_vars(Handle(r))

-----------------------------------------------------------------------------
Entries == [count : Nat, notified : BOOLEAN, quiet : 0 .. LoopWindow + 1]
Locations == {"idle", "admitted", "routing", "choosing", "selected", "calling",
              "clearing", "charging", "failed", "tripping", "deciding"}
Messages == [to : Requests \cup {"none"}, escalated : BOOLEAN,
             phase : FailurePhases \cup {"none", "accepted"},
             incident : {"none", "AGENT_LOOP", "BUDGET_EXHAUSTED"}]

TypeOK ==
    /\ breakers \in [Providers -> Breakers]
    /\ loops \in [Fingerprints -> Entries]
    /\ globalSpent \in Nat
    /\ agentSpent \in [Agents -> Nat]
    /\ agentLimit \in [Agents -> AgentLimits \cup {DefaultAgentLimit}]
    /\ pc \in [Requests -> Locations]
    /\ age \in [Requests -> Nat] /\ \A r \in Requests : age[r] <= Deadline(r)
    /\ attempt \in [Requests -> Nat]
    /\ \A r \in Requests : attempt[r] <= PolicyOf[r].maxRetries + 1
    /\ remainingBudget \in [Requests -> Int]
    /\ prov \in [Requests -> Providers \cup {"none"}]
    /\ phase \in [Requests -> FailurePhases \cup {"none"}]
    /\ sent \in Messages

(* Remaining is read before the choice and long before Record charges, and *)
(* nothing is reserved.  So budgets are overspent, and a limit that is cut *)
(* does not stop those who have read what was left before.  But no read    *)
(* lets what clients have spent, the primary calls under way, and those    *)
(* that earlier reads still allow, exceed the limit in force by more than  *)
(* one call for each other client; and nothing but a read adds to them.    *)
Spending(clients) == {r \in clients :
    \/ pc[r] = "choosing" /\ remainingBudget[r] >= Price
    \/ /\ prov[r] = "primary"
       /\ pc[r] \in {"selected", "calling", "clearing", "charging"}}

Committed(spent, clients) == spent + Price * Cardinality(Spending(clients))

Respects(limit, spent, clients) ==
    limit > 0 /\ Committed(spent, clients)' > Committed(spent, clients) =>
        Committed(spent, clients)' <= limit + (Cardinality(clients) - 1) * Price

OverspendBounded ==
    [][ /\ Respects(GlobalLimit, globalSpent, Requests)
        /\ \A a \in Agents : Respects(agentLimit[a], agentSpent[a],
                                      {r \in Requests : AgentOf[r] = a}) ]_vars

(* However often an agent resends a failing request, the failures counted  *)
(* in one loop are those below the threshold plus the attempts of requests *)
(* already past IsLooping when it was reached.                             *)
MaxAttempts == [r \in Requests |-> PolicyOf[r].maxRetries + 1]
Senders(f) == {r \in Requests : FingerprintOf[r] = f}
RunawayBounded == \A f \in Fingerprints :
    loops[f].count < LoopThreshold + SumFunctionOnSet(MaxAttempts, Senders(f))

(* A high-risk action that is not idempotent is attempted again only after *)
(* a well-formed answer below the required quality, never after a timeout, *)
(* an error or a contract violation (failure-model.md).                    *)
NoBlindRetry == \A r \in Requests :
    (/\ Irreversible(r)
     /\ pc[r] \in {"routing", "choosing", "selected", "calling"}
     /\ attempt[r] > 1)
        => phase[r] = "quality"

(* Whichever of the handler's exits a request takes, one whose policy asks *)
(* for a human on failure is escalated unless it was never admitted; and a *)
(* request refused as a loop always is.                                    *)
HumanTold ==
    (/\ sent.phase \in FailurePhases \ {"admission"}
     /\ PolicyOf[sent.to].requiresHumanOnFailure \/ sent.phase = "agent_loop")
        => sent.escalated

(* Every path of the handler that let a call through reports its result:   *)
(* a half-open breaker that refuses calls has a probe still running.       *)
Calling(p) == {r \in Requests : pc[r] = "calling" /\ prov[r] = p}
ProbeOutstanding == \A p \in Providers :
    (breakers[p].state = "HALF_OPEN" /\ ~Available(breakers[p])) => Calling(p) # {}

(* Each provider is protected by an abstract gate, with the real handler,  *)
(* loop detector and retries around its breaker.                           *)
GateMode(p) == CASE breakers[p].state = "CLOSED" -> "closed"
                 [] breakers[p].state = "OPEN" -> "open"
                 [] breakers[p].state = "HALF_OPEN" -> "half"
CooledDown(p) == breakers[p].state = "OPEN" /\ breakers[p].elapsed >= Cooldown

PrimaryGate == INSTANCE ProviderGate WITH
    Callers <- Requests, MaxProbes <- HalfOpenMaxProbes,
    mode <- GateMode("primary"), calls <- Calling("primary"),
    rested <- CooledDown("primary")
LocalGate == INSTANCE ProviderGate WITH
    Callers <- Requests, MaxProbes <- HalfOpenMaxProbes,
    mode <- GateMode("local"), calls <- Calling("local"),
    rested <- CooledDown("local")

ProvidersGated == PrimaryGate!Spec /\ LocalGate!Spec

(* Every request is answered: retries are bounded and no step blocks. *)
Answered == \A r \in Requests : pc[r] # "idle" ~> pc[r] = "idle"

(* "Circuit opens, routes to zero-cost local fallback, keeps serving"      *)
(* (scenarios/README.md:19, provider-outage): once the primary's circuit   *)
(* is open, the answer of a fallback that the policy allows is not turned  *)
(* down by the same policy.                                                *)
FallbackKeepsServing == \A r \in Requests :
    breakers["primary"].state = "OPEN" /\ prov[r] = "local" => phase[r] # "quality"
=============================================================================
