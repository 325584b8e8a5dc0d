-------------------------- MODULE RequestPathProofs --------------------------
(***************************************************************************)
(* Proofs of RequestPath's invariants, for any number of clients with any  *)
(* policies, and any settings of breakers, detector and budgets.           *)
(***************************************************************************)
EXTENDS RequestPath, SharedLemmas, FiniteSetTheorems, TLAPS

SharedTypes ==
    /\ breakers \in [Providers -> Breakers]
    /\ loops \in [Fingerprints -> Entries]
    /\ globalSpent \in Nat
    /\ agentSpent \in [Agents -> Nat]
    /\ agentLimit \in [Agents -> AgentLimits \cup {DefaultAgentLimit}]

LocalTypes ==
    /\ pc \in [Requests -> Locations]
    /\ age \in [Requests -> Nat] /\ \A r \in Requests : age[r] <= Deadline(r)
    /\ attempt \in [Requests -> Nat]
    /\ \A r \in Requests : attempt[r] <= PolicyOf[r].maxRetries + 1
    /\ remainingBudget \in [Requests -> Int]
    /\ prov \in [Requests -> Providers \cup {"none"}]
    /\ phase \in [Requests -> FailurePhases \cup {"none"}]

(* Where a request is says which of its own variables are set. *)
Located == \A r \in Requests :
    /\ pc[r] = "admitted" => attempt[r] = 1
    /\ pc[r] \in {"selected", "calling", "clearing", "charging"} => prov[r] \in Providers
    /\ pc[r] \in {"failed", "tripping", "deciding"} => phase[r] \in FailurePhases \ {"admission"}

PathInv == SharedTypes /\ LocalTypes /\ sent \in Messages /\ Located

-----------------------------------------------------------------------------
(* Every method of the breaker keeps its fields within their ranges: no    *)
(* counter passes the threshold it is compared with.                       *)
LEMMA OpsTyped ==
    ASSUME NEW b \in Breakers
    PROVE  /\ NewBreaker \in Breakers
           /\ Available(b) => AfterAllow(b) \in Breakers
           /\ AfterSuccess(b) \in Breakers
           /\ AfterFailure(b) \in Breakers
           /\ AfterReset(b) \in Breakers
           /\ AfterTrip(b) \in Breakers
           /\ AfterTick(b) \in Breakers
  <1> USE ConfigAssumption DEF Breakers, BreakerStates, SetState
  <1>1. NewBreaker \in Breakers
    BY DEF NewBreaker
  <1>2. ASSUME Available(b) PROVE AfterAllow(b) \in Breakers
    BY <1>2 DEF Available, AfterAllow
  <1>3. AfterSuccess(b) \in Breakers
    BY DEF AfterSuccess
  <1>4. AfterFailure(b) \in Breakers
    BY DEF AfterFailure
  <1>5. AfterReset(b) \in Breakers /\ AfterTrip(b) \in Breakers
    BY DEF AfterReset, AfterTrip
  <1>6. AfterTick(b) \in Breakers
    BY DEF AfterTick
  <1> QED
    BY <1>1, <1>2, <1>3, <1>4, <1>5, <1>6

(* Probes of a half-open breaker that no success has answered.             *)
Unanswered(b) == IF b.state = "HALF_OPEN" THEN b.halfOpenProbes - b.successes ELSE 0

(* A breaker is half-open only while successes are missing. *)
Undecided(b) == b.state = "HALF_OPEN" => b.successes < HalfOpenSuccessThreshold

(* Every call let through adds at most one unanswered probe, every call    *)
(* that succeeds takes one off, and whatever else changes the state leaves *)
(* none.                                                                   *)
LEMMA OpsAnswer ==
    ASSUME NEW b \in Breakers, Undecided(b)
    PROVE  /\ Undecided(NewBreaker) /\ Unanswered(NewBreaker) = 0
           /\ Unanswered(b) \in Int
           /\ Available(b) => /\ Undecided(AfterAllow(b))
                              /\ Unanswered(AfterAllow(b)) <= Unanswered(b) + 1
           /\ Undecided(AfterSuccess(b))
           /\ \/ Unanswered(AfterSuccess(b)) <= 0
              \/ Unanswered(AfterSuccess(b)) <= Unanswered(b) - 1
           /\ Undecided(AfterFailure(b)) /\ Unanswered(AfterFailure(b)) = 0
           /\ Undecided(AfterReset(b)) /\ Unanswered(AfterReset(b)) = 0
           /\ Undecided(AfterTrip(b)) /\ Unanswered(AfterTrip(b)) = 0
           /\ Undecided(AfterTick(b)) /\ Unanswered(AfterTick(b)) = Unanswered(b)
  <1> USE ConfigAssumption DEF Breakers, BreakerStates, SetState, Undecided, Unanswered
  <1>1. /\ Undecided(NewBreaker) /\ Unanswered(NewBreaker) = 0
        /\ Unanswered(b) \in Int
    BY DEF NewBreaker
  <1>2. ASSUME Available(b)
        PROVE  Undecided(AfterAllow(b)) /\ Unanswered(AfterAllow(b)) <= Unanswered(b) + 1
    BY <1>2 DEF Available, AfterAllow
  <1>3. /\ Undecided(AfterSuccess(b))
        /\ \/ Unanswered(AfterSuccess(b)) <= 0
           \/ Unanswered(AfterSuccess(b)) <= Unanswered(b) - 1
    BY DEF AfterSuccess
  <1>4. Undecided(AfterFailure(b)) /\ Unanswered(AfterFailure(b)) = 0
    BY DEF AfterFailure
  <1>5. /\ Undecided(AfterReset(b)) /\ Unanswered(AfterReset(b)) = 0
        /\ Undecided(AfterTrip(b)) /\ Unanswered(AfterTrip(b)) = 0
    BY DEF AfterReset, AfterTrip
  <1>6. Undecided(AfterTick(b)) /\ Unanswered(AfterTick(b)) = Unanswered(b)
    BY DEF AfterTick
  <1> QED
    BY <1>1, <1>2, <1>3, <1>4, <1>5, <1>6

-----------------------------------------------------------------------------
LEMMA PolicyTypes ==
    ASSUME NEW r \in Requests
    PROVE  /\ Deadline(r) \in Nat /\ PolicyOf[r].maxRetries \in Nat
           /\ FingerprintOf[r] \in Fingerprints /\ AgentOf[r] \in Agents
  <1>1. PolicyOf[r] \in Policies
    BY PathAssumption, PoliciesNormalized DEF PolicyOf
  <1>2. Deadline(r) \in Int /\ Deadline(r) > 0
    BY <1>1, PathAssumption DEF Policies, Deadline
  <1>3. PolicyOf[r].maxRetries \in Nat
    BY <1>1 DEF Policies
  <1> QED
    BY <1>2, <1>3 DEF Fingerprints, Agents

LEMMA NothingType == Nothing \in Messages
  BY DEF Nothing, Messages

(* A request that moves without an answer, and one that is answered. *)
LEMMA GoToTypes ==
    ASSUME LocalTypes, NEW r \in Requests, NEW l \in Locations, GoTo(r, l)
    PROVE  /\ pc' \in [Requests -> Locations] /\ sent' \in Messages
           /\ pc'[r] = l /\ \A q \in Requests : q # r => pc'[q] = pc[q]
  BY NothingType DEF LocalTypes, GoTo, Move

LEMMA AnswerTypes ==
    ASSUME LocalTypes, Located, NEW r \in Requests,
           NEW ph \in FailurePhases \cup {"accepted"}, NEW esc \in BOOLEAN,
           Answer(r, ph, esc)
    PROVE  LocalTypes' /\ Located' /\ sent' \in Messages
  <1>1. sent' \in Messages
    BY DEF Answer, Messages
  <1>2. LocalTypes'
    BY PolicyTypes DEF LocalTypes, Answer, Move, Locations
  <1>3. Located'
    BY DEF LocalTypes, Answer, Move, Located
  <1> QED
    BY <1>1, <1>2, <1>3

LEMMA EscalatesType ==
    ASSUME NEW r, NEW ph, NEW confidence
    PROVE  Escalates(r, ph, confidence) \in BOOLEAN
  BY DEF Escalates

LEMMA CostType ==
    ASSUME NEW p
    PROVE  CostOf(p) \in Nat
  BY PathAssumption DEF CostOf

LEMMA ProviderFacts ==
    /\ {"primary", "local"} = Providers /\ "none" \notin Providers
    /\ \A r \in Requests : \A sick : Usable(r, sick) \subseteq Providers
  BY DEF Providers, Usable

(* What each step does to the breakers and the loop detector. *)
LEMMA BreakerUpdate ==
    ASSUME SharedTypes, NEW p \in Providers, NEW b \in Breakers
    PROVE  [breakers EXCEPT ![p] = b] \in [Providers -> Breakers]
  BY DEF SharedTypes

LEMMA EntryTypes ==
    /\ NoEntry \in Entries
    /\ \A e \in Entries : AfterLoopFailure(e) \in Entries
    /\ \A e \in Entries : ~Stale(e) => [e EXCEPT !.quiet = @ + 1] \in Entries
  BY PathAssumption DEF NoEntry, Entries, AfterLoopFailure, Stale

-----------------------------------------------------------------------------
(* Steps that move one request and set at most its provider and its phase. *)
LEMMA MoveLocal ==
    ASSUME LocalTypes, Located, NEW r \in Requests, NEW l \in Locations, GoTo(r, l),
           l # "admitted", UNCHANGED <<age, attempt>>,
           remainingBudget' \in [Requests -> Int],
           prov' \in [Requests -> Providers \cup {"none"}],
           phase' \in [Requests -> FailurePhases \cup {"none"}],
           \A q \in Requests : q # r => prov'[q] = prov[q] /\ phase'[q] = phase[q],
           l \in {"selected", "calling", "clearing", "charging"} => prov'[r] \in Providers,
           l \in {"failed", "tripping", "deciding"} =>
               phase'[r] \in FailurePhases \ {"admission"}
    PROVE  LocalTypes' /\ Located' /\ sent' \in Messages
  <1>1. /\ pc' \in [Requests -> Locations] /\ sent' \in Messages
        /\ pc'[r] = l /\ \A q \in Requests : q # r => pc'[q] = pc[q]
    BY GoToTypes
  <1>2. LocalTypes'
    BY <1>1 DEF LocalTypes
  <1>3. Located'
    BY <1>1 DEF Located
  <1> QED
    BY <1>1, <1>2, <1>3

(* Another attempt. *)
LEMMA RetryLocal ==
    ASSUME PathInv, NEW r \in Requests, Retry(r)
    PROVE  LocalTypes' /\ Located' /\ sent' \in Messages
  <1>1. LocalTypes /\ Located
    BY DEF PathInv
  <1>2. /\ pc' \in [Requests -> Locations] /\ sent' \in Messages
        /\ pc'[r] = "routing" /\ \A q \in Requests : q # r => pc'[q] = pc[q]
    BY <1>1, GoToTypes DEF Retry, Locations
  <1>3. /\ attempt[r] \in Nat /\ attempt[r] < PolicyOf[r].maxRetries + 1
        /\ PolicyOf[r].maxRetries \in Nat
        /\ attempt' = [attempt EXCEPT ![r] = attempt[r] + 1]
        /\ UNCHANGED <<age, remainingBudget, prov, phase>>
    BY <1>1, PolicyTypes DEF Retry, CanRetry, LocalTypes
  <1>4. attempt' \in [Requests -> Nat]
        /\ \A q \in Requests : attempt'[q] <= PolicyOf[q].maxRetries + 1
    BY <1>1, <1>3 DEF LocalTypes
  <1>5. LocalTypes'
    BY <1>1, <1>2, <1>3, <1>4 DEF LocalTypes
  <1>6. Located'
    BY <1>1, <1>2, <1>3 DEF Located, LocalTypes
  <1> QED
    BY <1>2, <1>5, <1>6

LEMMA ArriveLocal ==
    ASSUME PathInv, NEW r \in Requests, Arrive(r)
    PROVE  LocalTypes' /\ Located' /\ sent' \in Messages
  <1>1. LocalTypes /\ Located
    BY DEF PathInv
  <1>2. /\ pc' \in [Requests -> Locations] /\ sent' \in Messages
        /\ pc'[r] = "admitted" /\ \A q \in Requests : q # r => pc'[q] = pc[q]
    BY <1>1, GoToTypes DEF Arrive, Locations
  <1>3. /\ attempt' = [attempt EXCEPT ![r] = 1]
        /\ UNCHANGED <<age, remainingBudget, prov, phase>>
    BY DEF Arrive
  <1>4. LocalTypes'
    BY <1>1, <1>2, <1>3, PolicyTypes DEF LocalTypes
  <1>5. Located'
    BY <1>1, <1>2, <1>3 DEF Located, LocalTypes
  <1> QED
    BY <1>2, <1>4, <1>5

(* What is left of a budget is a number. *)
LEMMA BudgetTypes ==
    ASSUME PathInv
    PROVE  /\ IsFiniteSet(Requests) /\ GlobalLimit \in Int /\ Price \in Nat
           /\ globalSpent \in Nat /\ agentSpent \in [Agents -> Nat]
           /\ \A a \in Agents : agentLimit[a] \in Int
           /\ \A r \in Requests : AgentOf[r] \in Agents
  <1>1. IsFiniteSet(Requests) /\ GlobalLimit \in Int /\ Price \in Nat
    BY PathAssumption
  <1>2. AgentLimits \cup {DefaultAgentLimit} \subseteq Int
    <2>1. AgentLimits \subseteq Int /\ DefaultAgentLimit \in Nat
      BY PathAssumption
    <2> QED
      BY <2>1
  <1>3. SharedTypes
    BY DEF PathInv
  <1>4. \A a \in Agents : agentLimit[a] \in Int
    BY <1>2, <1>3 DEF SharedTypes
  <1> QED
    BY <1>1, <1>3, <1>4 DEF SharedTypes, Agents

LEMMA RemainingType ==
    ASSUME PathInv, NEW r \in Requests
    PROVE  Remaining(r) \in Int
  BY BudgetTypes DEF Remaining, Left, Unlimited

(* What a request's step leaves in its own variables. *)
LEMMA HandleLocal ==
    ASSUME PathInv, NEW r \in Requests, Handle(r)
    PROVE  LocalTypes' /\ Located' /\ sent' \in Messages
  <1>1. LocalTypes /\ Located
    BY DEF PathInv
  <1>2. CASE RejectLoop(r) \/ GiveUp(r)
    <2>1. \E ph \in FailurePhases \cup {"accepted"}, esc \in BOOLEAN : Answer(r, ph, esc)
      <3>1. CASE RejectLoop(r)
        BY <3>1, EscalatesType DEF RejectLoop, FailurePhases
      <3>2. CASE GiveUp(r)
        <4>1. phase[r] \in FailurePhases
          BY <1>1, <3>2 DEF GiveUp, Located
        <4> QED
          BY <3>2, <4>1, EscalatesType DEF GiveUp
      <3> QED
        BY <1>2, <3>1, <3>2
    <2> QED
      BY <1>1, <2>1, AnswerTypes
  <1>3. CASE Charge(r)
    BY <1>1, <1>3, AnswerTypes DEF Charge
  <1>4. CASE Enter(r) \/ Allow(r) \/ CallSucceeds(r) \/ ClearLoop(r)
    <2>1. UNCHANGED <<age, remainingBudget, attempt, prov, phase>>
      BY <1>4 DEF Enter, Allow, CallSucceeds, ClearLoop
    <2>2. PICK l \in {"routing", "calling", "clearing", "charging"} :
             GoTo(r, l) /\ (l # "routing" => prov[r] \in Providers)
      BY <1>1, <1>4 DEF Enter, Allow, CallSucceeds, ClearLoop, Located
    <2> QED
      BY <1>1, <2>1, <2>2, MoveLocal DEF LocalTypes, Locations
  <1>5. CASE Select(r)
    <2>1. PICK p \in Providers : prov' = [prov EXCEPT ![r] = p]
      BY <1>5, ProviderFacts DEF Select
    <2>2. /\ GoTo(r, "selected") /\ UNCHANGED <<age, attempt, phase>>
          /\ remainingBudget' = [remainingBudget EXCEPT ![r] = 0]
      BY <1>5 DEF Select
    <2>3. remainingBudget' \in [Requests -> Int]
      BY <1>1, <2>2 DEF LocalTypes
    <2> QED
      BY <1>1, <2>1, <2>2, <2>3, MoveLocal DEF LocalTypes, Locations
  <1>6. CASE SelectNone(r)
    <2>1. PICK ph \in {"budget", "no_provider"} : phase' = [phase EXCEPT ![r] = ph]
      BY <1>6 DEF SelectNone
    <2>2. /\ GoTo(r, "failed") /\ UNCHANGED <<age, attempt>>
          /\ prov' = [prov EXCEPT ![r] = "none"]
          /\ remainingBudget' = [remainingBudget EXCEPT ![r] = 0]
      BY <1>6 DEF SelectNone
    <2>3. ph \in FailurePhases \ {"admission"}
      BY DEF FailurePhases
    <2>4. remainingBudget' \in [Requests -> Int]
      BY <1>1, <2>2 DEF LocalTypes
    <2> QED
      BY <1>1, <2>1, <2>2, <2>3, <2>4, MoveLocal DEF LocalTypes, Locations
  <1>7. CASE RejectCircuit(r) \/ CallFails(r)
    <2>1. PICK ph \in {"circuit", "generation", "timeout", "semantic", "quality", "cost"} :
             phase' = [phase EXCEPT ![r] = ph]
      BY <1>7 DEF RejectCircuit, CallFails
    <2>2. GoTo(r, "failed") /\ UNCHANGED <<age, remainingBudget, attempt, prov>>
      BY <1>7 DEF RejectCircuit, CallFails
    <2>3. ph \in FailurePhases \ {"admission"}
      BY DEF FailurePhases
    <2> QED
      BY <1>1, <2>1, <2>2, <2>3, MoveLocal DEF LocalTypes, Locations
  <1>8. CASE CountFailure(r)
    <2>1. PICK l \in {"tripping", "deciding"} : GoTo(r, l)
      BY <1>8 DEF CountFailure
    <2>2. /\ UNCHANGED <<age, remainingBudget, attempt, prov, phase>>
          /\ phase[r] \in FailurePhases \ {"admission"}
      BY <1>1, <1>8 DEF CountFailure, Located
    <2> QED
      BY <1>1, <2>1, <2>2, MoveLocal DEF LocalTypes, Locations
  <1>9. CASE StopLoop(r)
    <2>1. /\ sent' = [Nothing EXCEPT !.incident = "AGENT_LOOP"]
          /\ phase' = [phase EXCEPT ![r] = "agent_loop"]
          /\ pc' = [pc EXCEPT ![r] = "deciding"]
          /\ UNCHANGED <<age, remainingBudget, attempt, prov>>
      BY <1>9 DEF StopLoop, Move
    <2>2. sent' \in Messages
      BY <2>1 DEF Nothing, Messages
    <2>3. LocalTypes'
      BY <1>1, <2>1 DEF LocalTypes, Locations, FailurePhases
    <2>4. Located'
      BY <1>1, <2>1 DEF LocalTypes, Located, FailurePhases
    <2> QED
      BY <2>2, <2>3, <2>4
  <1>10. CASE Retry(r)
    BY <1>10, RetryLocal
  <1>11. CASE ReadBudget(r)
    <2>1. /\ GoTo(r, "choosing") /\ UNCHANGED <<age, attempt, prov, phase>>
          /\ remainingBudget' = [remainingBudget EXCEPT ![r] = Remaining(r)]
      BY <1>11 DEF ReadBudget
    <2>2. remainingBudget' \in [Requests -> Int]
      BY <1>1, <2>1, RemainingType DEF LocalTypes
    <2> QED
      BY <1>1, <2>1, <2>2, MoveLocal DEF LocalTypes, Locations
  <1> QED
    BY <1>2, <1>3, <1>4, <1>5, <1>6, <1>7, <1>8, <1>9, <1>10, <1>11 DEF Handle

-----------------------------------------------------------------------------
(* What a request's step leaves in what requests share. *)
LEMMA HandleShared ==
    ASSUME PathInv, NEW r \in Requests, Handle(r)
    PROVE  SharedTypes'
  <1>1. SharedTypes /\ LocalTypes /\ Located
    BY DEF PathInv
  <1>2. CASE shared' = shared
    BY <1>1, <1>2 DEF shared, budgets, SharedTypes
  <1>3. CASE Allow(r) \/ CallFails(r) \/ CallSucceeds(r)
    <2>1. prov[r] \in Providers /\ breakers[prov[r]] \in Breakers
      BY <1>1, <1>3 DEF Allow, CallFails, CallSucceeds, Located, SharedTypes
    <2>2. PICK b \in Breakers : breakers' = [breakers EXCEPT ![prov[r]] = b]
      <3>1. CASE Allow(r)
        BY <2>1, <3>1, OpsTyped DEF Allow
      <3>2. CASE CallFails(r)
        BY <2>1, <3>2, OpsTyped DEF CallFails
      <3>3. CASE CallSucceeds(r)
        BY <2>1, <3>3, OpsTyped DEF CallSucceeds
      <3> QED
        BY <1>3, <3>1, <3>2, <3>3
    <2>3. UNCHANGED <<loops, budgets>>
      BY <1>3 DEF Allow, CallFails, CallSucceeds
    <2> QED
      BY <1>1, <2>1, <2>2, <2>3, BreakerUpdate DEF SharedTypes, budgets
  <1>4. CASE ClearLoop(r) \/ CountFailure(r)
    <2>1. loops[FingerprintOf[r]] \in Entries
      BY <1>1, PolicyTypes DEF SharedTypes
    <2>2. PICK e \in Entries : loops' = [loops EXCEPT ![FingerprintOf[r]] = e]
      BY <1>4, <2>1, EntryTypes DEF ClearLoop, CountFailure
    <2>3. UNCHANGED <<breakers, budgets>>
      BY <1>4 DEF ClearLoop, CountFailure
    <2> QED
      BY <1>1, <2>2, <2>3, PolicyTypes DEF SharedTypes, budgets
  <1>5. CASE Charge(r)
    <2>1. /\ globalSpent + CostOf(prov[r]) \in Nat
          /\ agentSpent[AgentOf[r]] + CostOf(prov[r]) \in Nat
      BY <1>1, CostType, PolicyTypes DEF SharedTypes
    <2> QED
      BY <1>1, <1>5, <2>1 DEF Charge, SharedTypes
  <1>6. CASE StopLoop(r)
    <2>1. breakers' \in [Providers -> Breakers]
      <3>1. CASE prov[r] = "none"
        BY <1>1, <1>6, <3>1 DEF StopLoop, SharedTypes
      <3>2. CASE prov[r] # "none"
        <4>1. prov[r] \in Providers /\ breakers[prov[r]] \in Breakers
          BY <1>1, <3>2 DEF SharedTypes, LocalTypes
        <4> QED
          BY <1>1, <1>6, <3>2, <4>1, OpsTyped, BreakerUpdate DEF StopLoop
      <3> QED
        BY <3>1, <3>2
    <2> QED
      BY <1>1, <1>6, <2>1 DEF StopLoop, SharedTypes, budgets
  <1> QED
    BY <1>2, <1>3, <1>4, <1>5, <1>6
       DEF Handle, RejectLoop, Enter, ReadBudget, Select, SelectNone, RejectCircuit,
           Retry, GiveUp, shared

LEMMA TickTypes ==
    ASSUME PathInv, Tick
    PROVE  PathInv'
  <1>1. SharedTypes /\ LocalTypes /\ Located
    BY DEF PathInv
  <1>2. breakers' \in [Providers -> Breakers]
    BY <1>1, OpsTyped DEF Tick, SharedTypes
  <1>3. loops' \in [Fingerprints -> Entries]
    BY <1>1, EntryTypes DEF Tick, SharedTypes
  <1>4. /\ age' \in [Requests -> Nat]
        /\ \A r \in Requests : age'[r] <= Deadline(r)
    BY <1>1, PolicyTypes DEF Tick, LocalTypes
  <1>5. UNCHANGED <<globalSpent, agentSpent, agentLimit, pc, attempt, remainingBudget,
                  prov, phase>>
    BY DEF Tick, budgets
  <1>6. sent' \in Messages
    BY NothingType DEF Tick
  <1> QED
    BY <1>1, <1>2, <1>3, <1>4, <1>5, <1>6 DEF PathInv, SharedTypes, LocalTypes, Located

LEMMA PathStep == PathInv /\ [Next]_vars => PathInv'
  <1> SUFFICES ASSUME PathInv, [Next]_vars
               PROVE  PathInv'
    OBVIOUS
  <1>1. SharedTypes /\ LocalTypes /\ Located
    BY DEF PathInv
  <1>2. ASSUME NEW r \in Requests, Handle(r)
        PROVE  PathInv'
    BY <1>2, HandleLocal, HandleShared DEF PathInv
  <1>3. ASSUME NEW r \in Requests, Arrive(r)
        PROVE  PathInv'
    <2>1. SharedTypes'
      BY <1>1, <1>3 DEF Arrive, shared, budgets, SharedTypes
    <2> QED
      BY <1>3, <2>1, ArriveLocal DEF PathInv
  <1>4. ASSUME NEW r \in Requests, RefuseAdmission(r)
        PROVE  PathInv'
    <2>1. SharedTypes'
      BY <1>1, <1>4 DEF RefuseAdmission, shared, budgets, SharedTypes
    <2>2. "admission" \in FailurePhases /\ Answer(r, "admission", FALSE)
      BY <1>4 DEF RefuseAdmission, FailurePhases
    <2> QED
      BY <1>1, <2>1, <2>2, AnswerTypes DEF PathInv
  <1>5. ASSUME NEW a \in Agents, SetAgentLimit(a)
        PROVE  PathInv'
    <2>1. agentLimit' \in [Agents -> AgentLimits \cup {DefaultAgentLimit}]
      BY <1>1, <1>5 DEF SetAgentLimit, SharedTypes
    <2> QED
      BY <1>1, <1>5, <2>1, NothingType
         DEF SetAgentLimit, local, PathInv, SharedTypes, LocalTypes, Located
  <1>6. CASE Restore
    <2>1. PICK p \in Providers : breakers' = [breakers EXCEPT ![p] = AfterReset(@)]
      BY <1>6 DEF Restore
    <2>2. AfterReset(breakers[p]) \in Breakers
      BY <1>1, OpsTyped DEF SharedTypes
    <2>3. breakers' \in [Providers -> Breakers]
      BY <1>1, <2>1, <2>2, BreakerUpdate
    <2> QED
      BY <1>1, <1>6, <2>3, NothingType
         DEF Restore, local, budgets, PathInv, SharedTypes, LocalTypes, Located
  <1>7. CASE Tick
    BY <1>7, TickTypes
  <1>8. CASE UNCHANGED vars
    BY <1>1, <1>8
       DEF vars, shared, local, budgets, PathInv, SharedTypes, LocalTypes, Located
  <1> QED
    BY <1>2, <1>3, <1>4, <1>5, <1>6, <1>7, <1>8 DEF Next

LEMMA PathInit == Init => PathInv
  <1> SUFFICES ASSUME Init
               PROVE  PathInv
    OBVIOUS
  <1>1. NewBreaker \in Breakers
    BY ConfigAssumption DEF NewBreaker, SetState, Breakers, BreakerStates
  <1>2. SharedTypes
    BY <1>1, EntryTypes, PathAssumption DEF Init, SharedTypes
  <1>3. LocalTypes
    BY PolicyTypes DEF Init, LocalTypes, Locations
  <1> QED
    BY <1>2, <1>3, NothingType DEF Init, PathInv, Located

(* What requests share and what each has of its own is well formed; no     *)
(* request is attempted more often than its policy says.                   *)
THEOREM TypeCorrect == Spec => []TypeOK
  <1>1. PathInv => TypeOK
    BY DEF PathInv, SharedTypes, LocalTypes, TypeOK
  <1> QED
    BY <1>1, PathInit, PathStep, PTL DEF Spec

-----------------------------------------------------------------------------
(* A high-risk action that is not idempotent is only repeated after a      *)
(* well-formed answer of too low a quality: the phase a retry starts from  *)
(* stays with the request until its next call has an outcome.              *)
THEOREM RetriesInformed == Spec => []NoBlindRetry
  <1>1. Init => NoBlindRetry
    BY DEF Init, NoBlindRetry
  <1>2. ASSUME PathInv, NoBlindRetry, NEW r \in Requests,
               Handle(r) \/ Arrive(r) \/ RefuseAdmission(r)
        PROVE  NoBlindRetry'
    <2>1. LocalTypes /\ Located
      BY <1>2 DEF PathInv
    <2>2. \A q \in Requests : q # r =>
             pc'[q] = pc[q] /\ attempt'[q] = attempt[q] /\ phase'[q] = phase[q]
      BY <1>2, <2>1 DEF LocalTypes, Handle, Arrive, RefuseAdmission, RejectLoop, Enter,
         ReadBudget, Select, SelectNone, Allow, RejectCircuit, CallFails, CallSucceeds, ClearLoop,
         Charge, CountFailure, StopLoop, Retry, GiveUp, Answer, GoTo, Move
    <2> SUFFICES ASSUME Irreversible(r), attempt'[r] > 1,
                        pc'[r] \in {"routing", "choosing", "selected", "calling"}
                 PROVE  phase'[r] = "quality"
      BY <1>2, <2>2 DEF NoBlindRetry, Irreversible, HighRisk
    <2>3. CASE Enter(r)
      BY <2>1, <2>3 DEF Enter, Located
    <2>4. CASE ReadBudget(r) \/ Select(r) \/ Allow(r)
      BY <1>2, <2>4 DEF ReadBudget, Select, Allow, NoBlindRetry
    <2>5. CASE Retry(r)
      BY <2>1, <2>5 DEF Retry, CanRetry, Located, FailurePhases
    <2>6. CASE RejectLoop(r) \/ RefuseAdmission(r) \/ Charge(r) \/ GiveUp(r)
      BY <2>1, <2>6
         DEF LocalTypes, RejectLoop, RefuseAdmission, Charge, GiveUp, Answer, Move
    <2>7. CASE \/ Arrive(r) \/ SelectNone(r) \/ RejectCircuit(r) \/ CallFails(r)
               \/ CallSucceeds(r) \/ ClearLoop(r) \/ CountFailure(r) \/ StopLoop(r)
      BY <2>1, <2>7
         DEF LocalTypes, Arrive, SelectNone, RejectCircuit, CallFails, CallSucceeds,
             ClearLoop, CountFailure, StopLoop, GoTo, Move
    <2> QED
      BY <1>2, <2>3, <2>4, <2>5, <2>6, <2>7 DEF Handle
  <1>3. ASSUME NoBlindRetry, UNCHANGED <<pc, attempt, phase>>
        PROVE  NoBlindRetry'
    BY <1>3 DEF NoBlindRetry, Irreversible, HighRisk
  <1>4. PathInv /\ NoBlindRetry /\ [Next]_vars => NoBlindRetry'
    BY <1>2, <1>3 DEF Next, SetAgentLimit, Restore, Tick, vars, local
  <1> QED
    BY <1>1, <1>4, PathInit, PathStep, PTL DEF Spec

-----------------------------------------------------------------------------
(* No exit of the handler forgets the person a policy asks for: the two    *)
(* that answer a failed request go through Escalates.                      *)
THEOREM HumansTold == Spec => []HumanTold
  <1>1. Init => HumanTold
    BY DEF Init, HumanTold, Nothing, FailurePhases
  <1>2. ASSUME sent'.phase \in {"none", "accepted", "admission"}
        PROVE  HumanTold'
    BY <1>2 DEF HumanTold, FailurePhases
  <1>3. Nothing.phase = "none" /\ [Nothing EXCEPT !.incident = "AGENT_LOOP"].phase = "none"
    BY DEF Nothing
  <1>4. ASSUME NEW r \in Requests, RejectLoop(r)
        PROVE  HumanTold'
    BY <1>4 DEF RejectLoop, Answer, Escalates, HumanTold
  <1>5. ASSUME NEW r \in Requests, GiveUp(r)
        PROVE  HumanTold'
    BY <1>5 DEF GiveUp, Answer, Escalates, HumanTold
  <1>6. ASSUME NEW r \in Requests, RefuseAdmission(r) \/ Charge(r)
        PROVE  HumanTold'
    BY <1>2, <1>6 DEF RefuseAdmission, Charge, Answer
  <1>7. ASSUME NEW r \in Requests, Handle(r) \/ Arrive(r) \/ RefuseAdmission(r)
        PROVE  HumanTold'
    <2>1. CASE StopLoop(r)
      BY <1>2, <1>3, <2>1 DEF StopLoop
    <2>2. CASE \/ Arrive(r) \/ Enter(r) \/ ReadBudget(r) \/ Select(r) \/ SelectNone(r)
               \/ Allow(r) \/ RejectCircuit(r) \/ CallFails(r) \/ CallSucceeds(r) \/ ClearLoop(r)
               \/ CountFailure(r) \/ Retry(r)
      BY <1>2, <1>3, <2>2
         DEF Arrive, Enter, ReadBudget, Select, SelectNone, Allow, RejectCircuit, CallFails,
             CallSucceeds, ClearLoop, CountFailure, Retry, GoTo
    <2> QED
      BY <1>4, <1>5, <1>6, <1>7, <2>1, <2>2 DEF Handle
  <1>8. HumanTold /\ [Next]_vars => HumanTold'
    <2>1. CASE (\E a \in Agents : SetAgentLimit(a)) \/ Restore \/ Tick
      BY <1>2, <1>3, <2>1 DEF SetAgentLimit, Restore, Tick
    <2>2. CASE UNCHANGED vars
      BY <2>2 DEF vars, HumanTold
    <2> QED
      BY <1>7, <2>1, <2>2 DEF Next
  <1> QED
    BY <1>1, <1>8, PTL DEF Spec

-----------------------------------------------------------------------------
(* What a step is to one provider's breaker and to the requests at it. *)
LetThrough(p, r) ==
    /\ r \notin Calling(p) /\ Calling(p)' = Calling(p) \cup {r}
    /\ Available(breakers[p]) /\ breakers'[p] = AfterAllow(breakers[p])
    /\ age' = age

Reported(p, r) ==
    /\ r \in Calling(p) /\ Calling(p)' = Calling(p) \ {r}
    /\ \/ breakers'[p] = AfterSuccess(breakers[p])
       \/ breakers'[p] = AfterFailure(breakers[p])
    /\ age' = age

Overridden(p) ==
    /\ Calling(p)' = Calling(p)
    /\ \/ breakers'[p] = breakers[p]
       \/ breakers'[p] = AfterTrip(breakers[p])
       \/ breakers'[p] = AfterReset(breakers[p])
    /\ \A r \in Calling(p) : age'[r] = age[r]

Aged(p) ==
    /\ Calling(p)' = Calling(p)
    /\ breakers'[p] = AfterTick(breakers[p])
    /\ \A r \in Calling(p) : age'[r] = age[r] + 1

StepAt(p) == \/ \E r \in Requests : LetThrough(p, r) \/ Reported(p, r)
             \/ Overridden(p) \/ Aged(p)

LEMMA CallsFinite ==
    ASSUME NEW p \in Providers
    PROVE  /\ IsFiniteSet(Calling(p)) /\ Cardinality(Calling(p)) \in Nat
           /\ Calling(p) \subseteq Requests
  <1>1. Calling(p) \in SUBSET Requests
    BY DEF Calling
  <1> QED
    BY <1>1, PathAssumption, FS_Subset, FS_CardinalityType

LEMMA AllowAt ==
    ASSUME PathInv, NEW r \in Requests, Allow(r), NEW p \in Providers
    PROVE  StepAt(p)
  <1>1. LocalTypes /\ breakers \in [Providers -> Breakers] /\ prov[r] \in Providers
    BY DEF PathInv, SharedTypes, Located, Allow
  <1>2. /\ breakers' = [breakers EXCEPT ![prov[r]] = AfterAllow(breakers[prov[r]])]
        /\ pc' = [pc EXCEPT ![r] = "calling"] /\ pc[r] = "selected"
        /\ Available(breakers[prov[r]]) /\ UNCHANGED <<prov, age>>
    BY DEF Allow, GoTo, Move
  <1>3. CASE p = prov[r]
    <2>1. LetThrough(p, r)
      BY <1>1, <1>2, <1>3 DEF Calling, LocalTypes, LetThrough
    <2> QED
      BY <2>1 DEF StepAt
  <1>4. CASE p # prov[r]
    BY <1>1, <1>2, <1>4 DEF Calling, LocalTypes, StepAt, Overridden
  <1> QED
    BY <1>3, <1>4

LEMMA OutcomeAt ==
    ASSUME PathInv, NEW r \in Requests, CallFails(r) \/ CallSucceeds(r),
           NEW p \in Providers
    PROVE  StepAt(p)
  <1>1. LocalTypes /\ breakers \in [Providers -> Breakers] /\ prov[r] \in Providers
    BY DEF PathInv, SharedTypes, Located, CallFails, CallSucceeds
  <1>2. /\ \/ breakers' = [breakers EXCEPT ![prov[r]] = AfterFailure(breakers[prov[r]])]
           \/ breakers' = [breakers EXCEPT ![prov[r]] = AfterSuccess(breakers[prov[r]])]
        /\ pc[r] = "calling" /\ UNCHANGED <<prov, age>>
    BY DEF CallFails, CallSucceeds
  <1>3. pc'[r] # "calling" /\ \A q \in Requests : q # r => pc'[q] = pc[q]
    BY <1>1 DEF CallFails, CallSucceeds, GoTo, Move, LocalTypes
  <1>4. CASE p = prov[r]
    <2>1. Reported(p, r)
      BY <1>1, <1>2, <1>3, <1>4 DEF Calling, Reported
    <2> QED
      BY <2>1 DEF StepAt
  <1>5. CASE p # prov[r]
    BY <1>1, <1>2, <1>3, <1>5 DEF Calling, StepAt, Overridden
  <1> QED
    BY <1>4, <1>5

LEMMA OtherAt ==
    ASSUME PathInv, NEW r \in Requests,
           Handle(r) \/ Arrive(r) \/ RefuseAdmission(r),
           ~Allow(r), ~CallFails(r), ~CallSucceeds(r),
           NEW p \in Providers
    PROVE  StepAt(p)
  <1>1. LocalTypes /\ breakers \in [Providers -> Breakers]
    BY DEF PathInv, SharedTypes
  <1>2. /\ pc[r] # "calling" /\ pc'[r] # "calling"
        /\ \A q \in Requests :
              q # r => pc'[q] = pc[q] /\ prov'[q] = prov[q] /\ age'[q] = age[q]
    <2>1. CASE RejectLoop(r) \/ RefuseAdmission(r) \/ Charge(r) \/ GiveUp(r)
      BY <1>1, <2>1 DEF LocalTypes, RejectLoop, RefuseAdmission, Charge, GiveUp, Answer, Move
    <2>2. CASE \/ Arrive(r) \/ Enter(r) \/ ReadBudget(r) \/ Select(r) \/ SelectNone(r)
               \/ RejectCircuit(r) \/ ClearLoop(r) \/ CountFailure(r) \/ StopLoop(r) \/ Retry(r)
      BY <1>1, <2>2
         DEF LocalTypes, Arrive, Enter, ReadBudget, Select, SelectNone, RejectCircuit,
             ClearLoop, CountFailure, StopLoop, Retry, GoTo, Move
    <2> QED
      BY <2>1, <2>2 DEF Handle
  <1>3. breakers'[p] \in {breakers[p], AfterTrip(breakers[p])}
    <2>1. CASE StopLoop(r)
      BY <1>1, <2>1 DEF StopLoop
    <2>2. CASE ~StopLoop(r)
      BY <2>2
         DEF Handle, Arrive, RefuseAdmission, RejectLoop, Enter, ReadBudget, Select,
             SelectNone, RejectCircuit, ClearLoop, Charge, CountFailure, Retry, GiveUp, shared
    <2> QED
      BY <2>1, <2>2
  <1> QED
    BY <1>2, <1>3 DEF Calling, StepAt, Overridden

LEMMA EveryStepAt ==
    ASSUME PathInv, [Next]_vars, NEW p \in Providers
    PROVE  StepAt(p)
  <1>1. LocalTypes /\ breakers \in [Providers -> Breakers]
    BY DEF PathInv, SharedTypes
  <1>2. CASE (\E a \in Agents : SetAgentLimit(a)) \/ Restore \/ UNCHANGED vars
    BY <1>1, <1>2
       DEF SetAgentLimit, Restore, vars, shared, local, Calling, StepAt, Overridden
  <1>3. CASE Tick
    BY <1>1, <1>3 DEF Tick, Calling, StepAt, Aged, LocalTypes
  <1> QED
    BY <1>2, <1>3, AllowAt, OutcomeAt, OtherAt DEF Next, Handle

-----------------------------------------------------------------------------
(* Whatever else calls them, breakers count no probe that is not running   *)
(* or answered.                                                            *)
ProbesCovered == \A p \in Providers :
    /\ Undecided(breakers[p])
    /\ Unanswered(breakers[p]) <= Cardinality(Calling(p))

LEMMA ProbesNow ==
    ASSUME PathInv, ProbesCovered, NEW p \in Providers
    PROVE  /\ breakers[p] \in Breakers /\ Undecided(breakers[p])
           /\ Unanswered(breakers[p]) \in Int
           /\ Unanswered(breakers[p]) <= Cardinality(Calling(p))
           /\ Cardinality(Calling(p)) \in Nat
  BY CallsFinite, OpsAnswer DEF PathInv, SharedTypes, ProbesCovered

LEMMA CoveredStep == PathInv /\ ProbesCovered /\ [Next]_vars => ProbesCovered'
  <1> SUFFICES ASSUME PathInv, ProbesCovered, [Next]_vars, NEW p \in Providers
               PROVE  /\ Undecided(breakers'[p])
                      /\ Unanswered(breakers'[p]) <= Cardinality(Calling(p)')
    BY DEF ProbesCovered
  <1>1. /\ breakers[p] \in Breakers /\ Undecided(breakers[p])
        /\ Unanswered(breakers[p]) \in Int
        /\ Unanswered(breakers[p]) <= Cardinality(Calling(p))
        /\ Cardinality(Calling(p)) \in Nat
    BY ProbesNow
  <1>2. ASSUME NEW r \in Requests, LetThrough(p, r)
        PROVE  /\ Undecided(breakers'[p])
               /\ Unanswered(breakers'[p]) <= Cardinality(Calling(p)')
    <2>1. Cardinality(Calling(p)') = Cardinality(Calling(p)) + 1
      BY <1>2, CallsFinite, FS_AddElement DEF LetThrough
    <2>2. /\ Undecided(breakers'[p])
          /\ Unanswered(breakers'[p]) <= Unanswered(breakers[p]) + 1
      BY <1>1, <1>2, OpsAnswer DEF LetThrough
    <2>3. Unanswered(breakers'[p]) \in Int
      BY <1>1, <1>2, <2>2, OpsTyped, OpsAnswer DEF LetThrough
    <2> QED
      BY <1>1, <2>1, <2>2, <2>3
  <1>3. ASSUME NEW r \in Requests, Reported(p, r)
        PROVE  /\ Undecided(breakers'[p])
               /\ Unanswered(breakers'[p]) <= Cardinality(Calling(p)')
    <2>1. /\ Cardinality(Calling(p)') = Cardinality(Calling(p)) - 1
          /\ Cardinality(Calling(p)') \in Nat
      BY <1>3, CallsFinite, FS_RemoveElement, FS_CardinalityType DEF Reported
    <2>2. CASE breakers'[p] = AfterSuccess(breakers[p])
      <3>1. /\ Undecided(breakers'[p]) /\ Unanswered(breakers'[p]) \in Int
            /\ \/ Unanswered(breakers'[p]) <= 0
               \/ Unanswered(breakers'[p]) <= Unanswered(breakers[p]) - 1
        BY <1>1, <2>2, OpsTyped, OpsAnswer
      <3> QED
        BY <1>1, <2>1, <3>1
    <2>3. CASE breakers'[p] = AfterFailure(breakers[p])
      BY <1>1, <2>1, <2>3, OpsAnswer
    <2> QED
      BY <1>3, <2>2, <2>3 DEF Reported
  <1>4. CASE Overridden(p) \/ Aged(p)
    <2>1. /\ Undecided(breakers'[p])
          /\ \/ Unanswered(breakers'[p]) = Unanswered(breakers[p])
             \/ Unanswered(breakers'[p]) = 0
      BY <1>1, <1>4, OpsAnswer DEF Overridden, Aged
    <2> QED
      BY <1>1, <1>4, <2>1 DEF Overridden, Aged
  <1> QED
    BY <1>2, <1>3, <1>4, EveryStepAt DEF StepAt

(* No path of the handler loses a probe: whatever trips, resets and other  *)
(* requests do, a half-open breaker that refuses calls still waits for one *)
(* that will report to it.                                                 *)
THEOREM ProbesRunning == Spec => []ProbeOutstanding
  <1>1. Init => ProbesCovered
    <2> SUFFICES ASSUME Init, NEW p \in Providers
                 PROVE  /\ Undecided(breakers[p])
                        /\ Unanswered(breakers[p]) <= Cardinality(Calling(p))
      BY DEF ProbesCovered
    <2>1. breakers[p] = NewBreaker
      BY DEF Init
    <2>2. Undecided(NewBreaker) /\ Unanswered(NewBreaker) = 0
      BY DEF NewBreaker, SetState, Undecided, Unanswered
    <2> QED
      BY <2>1, <2>2, CallsFinite
  <1>2. PathInv /\ ProbesCovered => ProbeOutstanding
    <2> SUFFICES ASSUME PathInv, ProbesCovered, NEW p \in Providers,
                        breakers[p].state = "HALF_OPEN", ~Available(breakers[p])
                 PROVE  Calling(p) # {}
      BY DEF ProbeOutstanding
    <2>1. Unanswered(breakers[p]) > 0
      BY ProbesNow, ConfigAssumption, ProbesCanClose
         DEF Available, Undecided, Unanswered, Breakers
    <2> QED
      BY <2>1, ProbesNow, FS_EmptySet
  <1> QED
    BY <1>1, <1>2, CoveredStep, PathInit, PathStep, PTL DEF Spec

-----------------------------------------------------------------------------
(* The gates.  No request is let through to an open breaker, so each call  *)
(* still running is at least as old as the opening; hence none is left     *)
(* when the cooldown is over, if deadlines are shorter, and all calls to a *)
(* half-open breaker are its probes.                                       *)
ShortCalls == \A r \in Requests : Deadline(r) < Cooldown

GateInv == \A p \in Providers :
    /\ breakers[p].state = "OPEN" =>
           \A r \in Calling(p) : breakers[p].elapsed <= age[r]
    /\ breakers[p].state = "HALF_OPEN" =>
           Cardinality(Calling(p)) <= breakers[p].halfOpenProbes

(* What each method does to the state of a breaker and its clock. *)
LEMMA OpsState ==
    ASSUME NEW b \in Breakers
    PROVE  /\ Available(b) =>
                 \/ b.state = "CLOSED" /\ AfterAllow(b) = b
                 \/ /\ b.state = "OPEN" /\ b.elapsed >= Cooldown
                    /\ AfterAllow(b).state = "HALF_OPEN" /\ AfterAllow(b).halfOpenProbes = 1
                 \/ /\ b.state = "HALF_OPEN" /\ b.halfOpenProbes < HalfOpenMaxProbes
                    /\ AfterAllow(b).state = "HALF_OPEN"
                    /\ AfterAllow(b).halfOpenProbes = b.halfOpenProbes + 1
           /\ \/ /\ AfterSuccess(b).state = b.state
                 /\ AfterSuccess(b).elapsed = b.elapsed
                 /\ AfterSuccess(b).halfOpenProbes = b.halfOpenProbes
              \/ b.state = "HALF_OPEN" /\ AfterSuccess(b).state = "CLOSED"
           /\ \/ /\ b.state \in {"CLOSED", "OPEN"}
                 /\ AfterFailure(b).state = b.state /\ AfterFailure(b).elapsed = b.elapsed
              \/ /\ b.state \in {"CLOSED", "HALF_OPEN"}
                 /\ AfterFailure(b).state = "OPEN" /\ AfterFailure(b).elapsed = 0
           /\ \/ AfterTrip(b) = b
              \/ b.state # "OPEN" /\ AfterTrip(b).state = "OPEN" /\ AfterTrip(b).elapsed = 0
           /\ \/ AfterReset(b) = b
              \/ b.state # "CLOSED" /\ AfterReset(b).state = "CLOSED"
           /\ AfterTick(b).state = b.state /\ AfterTick(b).halfOpenProbes = b.halfOpenProbes
           /\ AfterTick(b).elapsed \in {b.elapsed, b.elapsed + 1}
  <1> USE ConfigAssumption DEF Breakers, BreakerStates, SetState
  <1>1. Available(b) =>
            \/ b.state = "CLOSED" /\ AfterAllow(b) = b
            \/ /\ b.state = "OPEN" /\ b.elapsed >= Cooldown
               /\ AfterAllow(b).state = "HALF_OPEN" /\ AfterAllow(b).halfOpenProbes = 1
            \/ /\ b.state = "HALF_OPEN" /\ b.halfOpenProbes < HalfOpenMaxProbes
               /\ AfterAllow(b).state = "HALF_OPEN"
               /\ AfterAllow(b).halfOpenProbes = b.halfOpenProbes + 1
    BY DEF Available, AfterAllow
  <1>2. \/ /\ AfterSuccess(b).state = b.state
           /\ AfterSuccess(b).elapsed = b.elapsed
           /\ AfterSuccess(b).halfOpenProbes = b.halfOpenProbes
        \/ b.state = "HALF_OPEN" /\ AfterSuccess(b).state = "CLOSED"
    BY DEF AfterSuccess
  <1>3. \/ /\ b.state \in {"CLOSED", "OPEN"}
           /\ AfterFailure(b).state = b.state /\ AfterFailure(b).elapsed = b.elapsed
        \/ /\ b.state \in {"CLOSED", "HALF_OPEN"}
           /\ AfterFailure(b).state = "OPEN" /\ AfterFailure(b).elapsed = 0
    BY DEF AfterFailure
  <1>4. /\ \/ AfterTrip(b) = b
           \/ b.state # "OPEN" /\ AfterTrip(b).state = "OPEN" /\ AfterTrip(b).elapsed = 0
        /\ \/ AfterReset(b) = b
           \/ b.state # "CLOSED" /\ AfterReset(b).state = "CLOSED"
    BY DEF AfterTrip, AfterReset
  <1>5. /\ AfterTick(b).state = b.state /\ AfterTick(b).halfOpenProbes = b.halfOpenProbes
        /\ AfterTick(b).elapsed \in {b.elapsed, b.elapsed + 1}
    BY DEF AfterTick
  <1> QED
    BY <1>1, <1>2, <1>3, <1>4, <1>5

LEMMA GateNow ==
    ASSUME PathInv, GateInv, NEW p \in Providers
    PROVE  /\ breakers[p] \in Breakers /\ breakers[p].elapsed \in Nat
           /\ breakers[p].halfOpenProbes \in Nat
           /\ breakers[p].state \in BreakerStates
           /\ \A r \in Calling(p) :
                 r \in Requests /\ age[r] \in Nat /\ age[r] <= Deadline(r)
           /\ Cardinality(Calling(p)) \in Nat
           /\ breakers[p].state = "OPEN" =>
                 \A r \in Calling(p) : breakers[p].elapsed <= age[r]
           /\ breakers[p].state = "HALF_OPEN" =>
                 Cardinality(Calling(p)) <= breakers[p].halfOpenProbes
  <1>1. breakers[p] \in Breakers
    BY DEF PathInv, SharedTypes
  <1>2. /\ breakers[p].elapsed \in Nat /\ breakers[p].halfOpenProbes \in Nat
        /\ breakers[p].state \in BreakerStates
    BY <1>1, ConfigAssumption DEF Breakers
  <1>3. \A r \in Calling(p) : r \in Requests /\ age[r] \in Nat /\ age[r] <= Deadline(r)
    BY CallsFinite DEF PathInv, LocalTypes
  <1> QED
    BY <1>1, <1>2, <1>3, CallsFinite DEF GateInv

(* An open breaker that offers the provider again has no call left at it. *)
LEMMA RestedEmpty ==
    ASSUME PathInv, GateInv, ShortCalls, NEW p \in Providers,
           breakers[p].state = "OPEN", breakers[p].elapsed >= Cooldown
    PROVE  Calling(p) = {}
  <1> SUFFICES ASSUME NEW r \in Calling(p)
               PROVE  FALSE
    OBVIOUS
  <1>1. /\ r \in Requests /\ age[r] \in Nat /\ age[r] <= Deadline(r)
        /\ breakers[p].elapsed \in Nat /\ breakers[p].elapsed <= age[r]
    BY GateNow
  <1>2. Deadline(r) < Cooldown /\ Deadline(r) \in Nat /\ Cooldown \in Nat
    BY <1>1, PolicyTypes, ConfigAssumption DEF ShortCalls
  <1> QED
    BY <1>1, <1>2

(* The steps of ProviderGate, with a provider's state in place of its own: *)
(* those of one caller, and all.                                           *)
GateCall(p, r) ==
    \/ /\ GateMode(p) = "closed" /\ r \notin Calling(p)
       /\ Calling(p)' = Calling(p) \cup {r}
       /\ GateMode(p)' = GateMode(p) /\ CooledDown(p)' = CooledDown(p)
    \/ /\ GateMode(p) = "open" /\ CooledDown(p) /\ Calling(p) = {}
       /\ GateMode(p)' = "half" /\ CooledDown(p)' = FALSE
       /\ Calling(p)' = {r}
    \/ /\ GateMode(p) = "half" /\ r \notin Calling(p)
       /\ Cardinality(Calling(p)) < HalfOpenMaxProbes
       /\ Calling(p)' = Calling(p) \cup {r}
       /\ GateMode(p)' = GateMode(p) /\ CooledDown(p)' = CooledDown(p)
    \/ /\ r \in Calling(p) /\ Calling(p)' = Calling(p) \ {r}
       /\ \/ GateMode(p)' = GateMode(p)
          \/ GateMode(p) = "half" /\ GateMode(p)' = "closed"
       /\ CooledDown(p)' = CooledDown(p)
    \/ /\ r \in Calling(p) /\ Calling(p)' = Calling(p) \ {r}
       /\ \/ /\ GateMode(p) # "half"
             /\ GateMode(p)' = GateMode(p) /\ CooledDown(p)' = CooledDown(p)
          \/ GateMode(p) # "open" /\ GateMode(p)' = "open" /\ CooledDown(p)' = FALSE

GateStep(p) ==
    \/ \E r \in Requests : GateCall(p, r)
    \/ /\ GateMode(p) # "open" /\ GateMode(p)' = "open"
       /\ CooledDown(p)' = FALSE /\ Calling(p)' = Calling(p)
    \/ /\ GateMode(p) # "closed" /\ GateMode(p)' = "closed"
       /\ CooledDown(p)' = FALSE /\ Calling(p)' = Calling(p)
    \/ /\ GateMode(p) = "open" /\ ~CooledDown(p) /\ CooledDown(p)' = TRUE
       /\ GateMode(p)' = GateMode(p) /\ Calling(p)' = Calling(p)
    \/ /\ GateMode(p)' = GateMode(p) /\ Calling(p)' = Calling(p)
       /\ CooledDown(p)' = CooledDown(p)

(* What one step keeps of the invariant at p, and is of the gate there. *)
GateKept(p) ==
    /\ breakers'[p].state = "OPEN" =>
           \A r \in Calling(p)' : breakers'[p].elapsed <= age'[r]
    /\ breakers'[p].state = "HALF_OPEN" =>
           Cardinality(Calling(p)') <= breakers'[p].halfOpenProbes

LEMMA ThroughGate ==
    ASSUME PathInv, GateInv, ShortCalls, NEW p \in Providers, NEW r \in Requests,
           LetThrough(p, r)
    PROVE  GateKept(p) /\ GateStep(p)
  <1>1. /\ r \notin Calling(p) /\ Calling(p)' = Calling(p) \cup {r}
        /\ Available(breakers[p]) /\ breakers'[p] = AfterAllow(breakers[p])
    BY DEF LetThrough
  <1>2. Cardinality(Calling(p)') = Cardinality(Calling(p)) + 1
    BY <1>1, CallsFinite, FS_AddElement
  <1>3. CASE breakers[p].state = "CLOSED"
    <2>1. breakers'[p] = breakers[p]
      BY <1>1, <1>3, GateNow, OpsState
    <2> QED
      BY <1>1, <1>3, <2>1 DEF GateKept, GateStep, GateCall, GateMode, CooledDown
  <1>4. CASE breakers[p].state = "OPEN"
    <2>1. /\ breakers[p].elapsed >= Cooldown
          /\ breakers'[p].state = "HALF_OPEN" /\ breakers'[p].halfOpenProbes = 1
      BY <1>1, <1>4, GateNow, OpsState
    <2>2. Calling(p) = {} /\ Calling(p)' = {r}
      BY <1>1, <1>4, <2>1, RestedEmpty
    <2>3. Cardinality(Calling(p)') = 1
      BY <1>2, <2>2, FS_EmptySet
    <2> QED
      BY <1>4, <2>1, <2>2, <2>3 DEF GateKept, GateStep, GateCall, GateMode, CooledDown
  <1>5. CASE breakers[p].state = "HALF_OPEN"
    <2>1. /\ breakers[p].halfOpenProbes < HalfOpenMaxProbes
          /\ breakers'[p].state = "HALF_OPEN"
          /\ breakers'[p].halfOpenProbes = breakers[p].halfOpenProbes + 1
      BY <1>1, <1>5, GateNow, OpsState
    <2>2. /\ Cardinality(Calling(p)) < HalfOpenMaxProbes
          /\ Cardinality(Calling(p)') <= breakers'[p].halfOpenProbes
      BY <1>2, <1>5, <2>1, GateNow, ConfigAssumption
    <2> QED
      BY <1>1, <1>5, <2>1, <2>2 DEF GateKept, GateStep, GateCall, GateMode, CooledDown
  <1> QED
    BY <1>3, <1>4, <1>5, GateNow DEF BreakerStates

LEMMA ReportGate ==
    ASSUME PathInv, GateInv, NEW p \in Providers, NEW r \in Requests, Reported(p, r)
    PROVE  GateKept(p) /\ GateStep(p)
  <1>1. r \in Calling(p) /\ Calling(p)' = Calling(p) \ {r} /\ age' = age
    BY DEF Reported
  <1>2. /\ Cardinality(Calling(p)') = Cardinality(Calling(p)) - 1
        /\ Cardinality(Calling(p)') \in Nat
    BY <1>1, CallsFinite, FS_RemoveElement, FS_CardinalityType
  <1>3. CASE breakers'[p] = AfterSuccess(breakers[p])
    <2>1. CASE breakers[p].state = "HALF_OPEN" /\ breakers'[p].state = "CLOSED"
      BY <1>1, <2>1 DEF GateKept, GateStep, GateCall, GateMode, CooledDown
    <2>2. CASE /\ breakers'[p].state = breakers[p].state
               /\ breakers'[p].elapsed = breakers[p].elapsed
               /\ breakers'[p].halfOpenProbes = breakers[p].halfOpenProbes
      <3>1. GateKept(p)
        BY <1>1, <1>2, <2>2, GateNow DEF GateKept
      <3>2. GateMode(p)' = GateMode(p) /\ CooledDown(p)' = CooledDown(p)
        BY <2>2 DEF GateMode, CooledDown
      <3> QED
        BY <1>1, <3>1, <3>2 DEF GateStep, GateCall
    <2> QED
      BY <1>3, <2>1, <2>2, GateNow, OpsState
  <1>4. CASE breakers'[p] = AfterFailure(breakers[p])
    <2>1. CASE /\ breakers[p].state \in {"CLOSED", "OPEN"}
               /\ breakers'[p].state = breakers[p].state
               /\ breakers'[p].elapsed = breakers[p].elapsed
      <3>1. GateKept(p)
        BY <1>1, <2>1, GateNow DEF GateKept
      <3>2. /\ GateMode(p) # "half"
            /\ GateMode(p)' = GateMode(p) /\ CooledDown(p)' = CooledDown(p)
        BY <2>1 DEF GateMode, CooledDown
      <3> QED
        BY <1>1, <3>1, <3>2 DEF GateStep, GateCall
    <2>2. CASE /\ breakers[p].state \in {"CLOSED", "HALF_OPEN"}
               /\ breakers'[p].state = "OPEN" /\ breakers'[p].elapsed = 0
      <3>1. GateKept(p)
        BY <1>1, <2>2, GateNow DEF GateKept
      <3>2. GateMode(p) # "open" /\ GateMode(p)' = "open" /\ CooledDown(p)' = FALSE
        BY <2>2, ConfigAssumption DEF GateMode, CooledDown
      <3> QED
        BY <1>1, <3>1, <3>2 DEF GateStep, GateCall
    <2> QED
      BY <1>4, <2>1, <2>2, GateNow, OpsState
  <1> QED
    BY <1>3, <1>4 DEF Reported

LEMMA OverrideGate ==
    ASSUME PathInv, GateInv, NEW p \in Providers, Overridden(p)
    PROVE  GateKept(p) /\ GateStep(p)
  <1>1. Calling(p)' = Calling(p) /\ \A r \in Calling(p) : age'[r] = age[r]
    BY DEF Overridden
  <1>2. CASE breakers'[p] = breakers[p]
    <2>1. GateKept(p)
      BY <1>1, <1>2, GateNow DEF GateKept
    <2>2. GateMode(p)' = GateMode(p) /\ CooledDown(p)' = CooledDown(p)
      BY <1>2 DEF GateMode, CooledDown
    <2> QED
      BY <1>1, <2>1, <2>2 DEF GateStep, GateCall
  <1>3. CASE /\ breakers[p].state # "OPEN"
             /\ breakers'[p].state = "OPEN" /\ breakers'[p].elapsed = 0
    <2>1. GateKept(p)
      BY <1>1, <1>3, GateNow DEF GateKept
    <2>2. GateMode(p) # "open" /\ GateMode(p)' = "open" /\ CooledDown(p)' = FALSE
      BY <1>3, GateNow, ConfigAssumption DEF GateMode, CooledDown, BreakerStates
    <2> QED
      BY <1>1, <2>1, <2>2 DEF GateStep, GateCall
  <1>4. CASE breakers[p].state # "CLOSED" /\ breakers'[p].state = "CLOSED"
    <2>1. GateKept(p)
      BY <1>4 DEF GateKept
    <2>2. GateMode(p) # "closed" /\ GateMode(p)' = "closed" /\ CooledDown(p)' = FALSE
      BY <1>4, GateNow DEF GateMode, CooledDown, BreakerStates
    <2> QED
      BY <1>1, <2>1, <2>2 DEF GateStep, GateCall
  <1> QED
    BY <1>2, <1>3, <1>4, GateNow, OpsState DEF Overridden

LEMMA TickGate ==
    ASSUME PathInv, GateInv, NEW p \in Providers, Aged(p)
    PROVE  GateKept(p) /\ GateStep(p)
  <1>1. /\ Calling(p)' = Calling(p) /\ \A r \in Calling(p) : age'[r] = age[r] + 1
        /\ breakers'[p].state = breakers[p].state
        /\ breakers'[p].halfOpenProbes = breakers[p].halfOpenProbes
        /\ breakers'[p].elapsed \in {breakers[p].elapsed, breakers[p].elapsed + 1}
    BY GateNow, OpsState DEF Aged
  <1>2. GateKept(p)
    BY <1>1, GateNow DEF GateKept
  <1>3. /\ GateMode(p)' = GateMode(p)
        /\ \/ CooledDown(p)' = CooledDown(p)
           \/ GateMode(p) = "open" /\ ~CooledDown(p) /\ CooledDown(p)' = TRUE
    BY <1>1, GateNow, ConfigAssumption DEF GateMode, CooledDown
  <1> QED
    BY <1>1, <1>2, <1>3 DEF GateStep, GateCall

LEMMA GatesStep ==
    ASSUME PathInv, GateInv, ShortCalls, [Next]_vars
    PROVE  GateInv' /\ \A p \in Providers : GateStep(p)
  <1>1. ASSUME NEW p \in Providers
        PROVE  GateKept(p) /\ GateStep(p)
    BY EveryStepAt, ThroughGate, ReportGate, OverrideGate, TickGate DEF StepAt
  <1> QED
    BY <1>1 DEF GateInv, GateKept

(* With the real handler, detector and retries around their breakers, and  *)
(* every deadline below the cooldown, both providers are behind their      *)
(* abstract gates.                                                         *)
THEOREM GatesHold ==
    ASSUME \A r \in Requests : Deadline(r) < Cooldown
    PROVE  Spec => ProvidersGated
  <1>1. ShortCalls
    BY DEF ShortCalls
  <1>2. Init => GateInv /\ PrimaryGate!Init /\ LocalGate!Init
    <2> SUFFICES ASSUME Init
                 PROVE  GateInv /\ PrimaryGate!Init /\ LocalGate!Init
      OBVIOUS
    <2>1. \A p \in Providers :
             breakers[p].state = "CLOSED" /\ Calling(p) = {}
      BY DEF Init, NewBreaker, SetState, Calling
    <2>2. \A p \in Providers : GateMode(p) = "closed" /\ CooledDown(p) = FALSE
      BY <2>1 DEF GateMode, CooledDown
    <2>3. "primary" \in Providers /\ "local" \in Providers
      BY DEF Providers
    <2> QED
      BY <2>1, <2>2, <2>3 DEF GateInv, PrimaryGate!Init, LocalGate!Init
  <1>3. GateStep("primary") => [PrimaryGate!Next]_(PrimaryGate!gvars)
    <2>1. PrimaryGate!Cardinality(Calling("primary")) = Cardinality(Calling("primary"))
      BY Zenon DEF PrimaryGate!Cardinality, Cardinality
    <2>2. ASSUME NEW r \in Requests, GateCall("primary", r)
          PROVE  \/ PrimaryGate!Enter(r) \/ PrimaryGate!FirstProbe(r) \/ PrimaryGate!Probe(r)
                 \/ PrimaryGate!Succeed(r) \/ PrimaryGate!Fail(r)
      BY <2>1, <2>2 DEF GateCall, PrimaryGate!Enter, PrimaryGate!FirstProbe,
         PrimaryGate!Probe, PrimaryGate!Succeed, PrimaryGate!Fail
    <2> QED
      BY <2>2 DEF GateStep, PrimaryGate!Next, PrimaryGate!gvars, PrimaryGate!Trip,
         PrimaryGate!Reset, PrimaryGate!Rest
  <1>4. GateStep("local") => [LocalGate!Next]_(LocalGate!gvars)
    <2>1. LocalGate!Cardinality(Calling("local")) = Cardinality(Calling("local"))
      BY Zenon DEF LocalGate!Cardinality, Cardinality
    <2>2. ASSUME NEW r \in Requests, GateCall("local", r)
          PROVE  \/ LocalGate!Enter(r) \/ LocalGate!FirstProbe(r) \/ LocalGate!Probe(r)
                 \/ LocalGate!Succeed(r) \/ LocalGate!Fail(r)
      BY <2>1, <2>2 DEF GateCall, LocalGate!Enter, LocalGate!FirstProbe,
         LocalGate!Probe, LocalGate!Succeed, LocalGate!Fail
    <2> QED
      BY <2>2 DEF GateStep, LocalGate!Next, LocalGate!gvars, LocalGate!Trip,
         LocalGate!Reset, LocalGate!Rest
  <1>5. PathInv /\ GateInv /\ [Next]_vars =>
            /\ GateInv'
            /\ [PrimaryGate!Next]_(PrimaryGate!gvars)
            /\ [LocalGate!Next]_(LocalGate!gvars)
    BY <1>1, <1>3, <1>4, GatesStep DEF Providers
  <1> QED
    BY <1>2, <1>5, PathInit, PathStep, PTL
       DEF Spec, ProvidersGated, PrimaryGate!Spec, LocalGate!Spec

-----------------------------------------------------------------------------
(* The budget.  A step either takes requests out of the spending ones, or  *)
(* charges one of them, or lets one more read that enough for a primary    *)
(* call is left; Select only chooses the primary for one that has.         *)
Paid(r) == CostOf(prov[r])

SpendQuiet(clients) ==
    /\ Spending(clients)' \subseteq Spending(clients)
    /\ UNCHANGED <<globalSpent, agentSpent>>

SpendCharge(r, clients) ==
    /\ globalSpent' = globalSpent + Paid(r)
    /\ agentSpent' = [agentSpent EXCEPT ![AgentOf[r]] = agentSpent[AgentOf[r]] + Paid(r)]
    /\ Spending(clients)' = Spending(clients) \ {r}
    /\ r \in clients => (r \in Spending(clients) <=> prov[r] = "primary")

SpendJoin(r, clients) ==
    /\ r \in clients \ Spending(clients)
    /\ Spending(clients)' = Spending(clients) \cup {r}
    /\ Price > 0 => Price <= Remaining(r)
    /\ UNCHANGED <<globalSpent, agentSpent, agentLimit>>

LEMMA SpendStep ==
    ASSUME PathInv, [Next]_vars, NEW CONSTANT clients \in SUBSET Requests
    PROVE  \/ SpendQuiet(clients)
           \/ \E r \in Requests : SpendCharge(r, clients)
           \/ \E r \in Requests : SpendJoin(r, clients)
  <1>1. LocalTypes /\ Located /\ agentSpent \in [Agents -> Nat]
    BY DEF PathInv, SharedTypes
  <1>2. ASSUME NEW r \in Requests, Charge(r)
        PROVE  SpendCharge(r, clients)
    <2>1. \A q \in Requests : q # r => /\ pc'[q] = pc[q] /\ prov'[q] = prov[q]
                                      /\ remainingBudget'[q] = remainingBudget[q]
      BY <1>1, <1>2 DEF Charge, Answer, Move, LocalTypes
    <2>2. pc[r] = "charging" /\ pc'[r] = "idle"
      BY <1>1, <1>2 DEF Charge, Answer, Move, LocalTypes
    <2>3. Spending(clients)' = Spending(clients) \ {r}
      BY <2>1, <2>2 DEF Spending
    <2>4. r \in clients => (r \in Spending(clients) <=> prov[r] = "primary")
      BY <2>2 DEF Spending
    <2> QED
      BY <1>2, <2>3, <2>4 DEF Charge, SpendCharge, Paid
  <1>3. ASSUME NEW r \in Requests, ReadBudget(r)
        PROVE  SpendQuiet(clients) \/ SpendJoin(r, clients)
    <2>1. /\ pc[r] = "routing" /\ pc'[r] = "choosing" /\ remainingBudget'[r] = Remaining(r)
          /\ \A q \in Requests : q # r => /\ pc'[q] = pc[q]
                                         /\ remainingBudget'[q] = remainingBudget[q]
          /\ UNCHANGED <<globalSpent, agentSpent, agentLimit, prov>>
      BY <1>1, <1>3 DEF ReadBudget, GoTo, Move, LocalTypes, shared, budgets
    <2>2. CASE r \in clients /\ Remaining(r) >= Price
      <3>1. r \notin Spending(clients) /\ Spending(clients)' = Spending(clients) \cup {r}
        BY <2>1, <2>2 DEF Spending
      <3>2. Price <= Remaining(r)
        BY <2>2, RemainingType, PathAssumption
      <3> QED
        BY <2>1, <2>2, <3>1, <3>2 DEF SpendJoin
    <2>3. CASE ~(r \in clients /\ Remaining(r) >= Price)
      BY <2>1, <2>3 DEF Spending, SpendQuiet
    <2> QED
      BY <2>2, <2>3
  <1>4. ASSUME NEW r \in Requests, Select(r)
        PROVE  SpendQuiet(clients) \/ SpendJoin(r, clients)
    <2>1. PICK p \in Providers : ~TooDear(r, p) /\ prov' = [prov EXCEPT ![r] = p]
      BY <1>4, ProviderFacts DEF Select
    <2>2. /\ pc[r] = "choosing" /\ pc'[r] = "selected" /\ prov'[r] = p
          /\ \A q \in Requests : q # r => /\ pc'[q] = pc[q] /\ prov'[q] = prov[q]
                                         /\ remainingBudget'[q] = remainingBudget[q]
          /\ UNCHANGED <<globalSpent, agentSpent, agentLimit>>
      BY <1>1, <1>4, <2>1 DEF Select, GoTo, Move, LocalTypes, shared, budgets
    <2>3. p = "primary" /\ Price > 0 => remainingBudget[r] >= Price
      BY <1>1, <2>1, PathAssumption DEF TooDear, CostOf, LocalTypes
    <2>4. CASE r \in clients \ Spending(clients) /\ p = "primary"
      <3>1. Spending(clients)' = Spending(clients) \cup {r}
        BY <2>2, <2>4 DEF Spending
      <3>2. ~(Price > 0)
        BY <2>2, <2>3, <2>4 DEF Spending
      <3> QED
        BY <2>2, <2>4, <3>1, <3>2 DEF SpendJoin
    <2>5. CASE ~(r \in clients \ Spending(clients) /\ p = "primary")
      BY <2>2, <2>5 DEF Spending, SpendQuiet
    <2> QED
      BY <2>4, <2>5
  <1>5. ASSUME NEW r \in Requests,
               \/ Arrive(r) \/ RefuseAdmission(r) \/ RejectLoop(r) \/ Enter(r)
               \/ SelectNone(r) \/ Retry(r) \/ GiveUp(r) \/ RejectCircuit(r)
               \/ CallFails(r) \/ CountFailure(r) \/ StopLoop(r)
        PROVE  SpendQuiet(clients)
    <2>1. /\ \A q \in Requests : q # r => /\ pc'[q] = pc[q] /\ prov'[q] = prov[q]
                                         /\ remainingBudget'[q] = remainingBudget[q]
          /\ pc'[r] \notin {"choosing", "selected", "calling", "clearing", "charging"}
          /\ UNCHANGED <<globalSpent, agentSpent>>
      BY <1>1, <1>5 DEF Arrive, RefuseAdmission, RejectLoop, Enter, SelectNone, Retry,
         GiveUp, RejectCircuit, CallFails, CountFailure, StopLoop, Answer, GoTo, Move,
         LocalTypes, shared, budgets
    <2> QED
      BY <2>1 DEF Spending, SpendQuiet
  <1>6. ASSUME NEW r \in Requests, Allow(r) \/ CallSucceeds(r) \/ ClearLoop(r)
        PROVE  SpendQuiet(clients)
    <2>1. /\ \A q \in Requests : q # r => pc'[q] = pc[q]
          /\ pc[r] \in {"selected", "calling", "clearing"}
          /\ pc'[r] \in {"calling", "clearing", "charging"}
          /\ UNCHANGED <<globalSpent, agentSpent, remainingBudget, prov>>
      BY <1>1, <1>6 DEF Allow, CallSucceeds, ClearLoop, GoTo, Move, LocalTypes, budgets
    <2> QED
      BY <2>1 DEF Spending, SpendQuiet
  <1>7. CASE Restore \/ Tick \/ (\E a \in Agents : SetAgentLimit(a)) \/ UNCHANGED vars
    <2>1. UNCHANGED <<globalSpent, agentSpent, pc, remainingBudget, prov>>
      BY <1>7 DEF Restore, Tick, SetAgentLimit, vars, shared, local, budgets
    <2> QED
      BY <2>1 DEF Spending, SpendQuiet
  <1> QED
    BY <1>2, <1>3, <1>4, <1>5, <1>6, <1>7 DEF Next, Handle

(* A price within what Remaining returns fits both limits that are set. *)
LEMMA FitsLimits ==
    ASSUME PathInv, NEW r \in Requests, Price <= Remaining(r)
    PROVE  /\ GlobalLimit > 0 => Price <= GlobalLimit - globalSpent
           /\ agentLimit[AgentOf[r]] > 0 =>
                 Price <= agentLimit[AgentOf[r]] - agentSpent[AgentOf[r]]
  <1>1. /\ globalSpent \in Int /\ GlobalLimit \in Int /\ Price \in Int
        /\ agentSpent[AgentOf[r]] \in Int /\ agentLimit[AgentOf[r]] \in Int
    BY BudgetTypes
  <1> QED
    BY <1>1 DEF Remaining, Left, Unlimited

(* Arithmetic of what is committed. *)
LEMMA Scaled ==
    ASSUME NEW k \in Nat, NEW m \in Nat, NEW n \in Nat
    PROVE  /\ k * m \in Nat /\ k * (m + 1) = k * m + k
           /\ m <= n => k * m <= k * n
  <1>1. k * m \in Nat /\ k * (m + 1) = k * m + k
    OBVIOUS
  <1>2. ASSUME m <= n
        PROVE  k * m <= k * n
    <2>1. PICK d \in Nat : n = m + d
      BY <1>2
    <2>2. k * n = k * m + k * d /\ k * d \in Nat
      BY <2>1
    <2> QED
      BY <1>1, <2>2
  <1> QED
    BY <1>1, <1>2

LEMMA CommitStep ==
    ASSUME NEW clients, IsFiniteSet(clients), NEW limit \in Int,
           NEW s \in Nat, NEW t \in Nat,
           NEW S \in SUBSET clients, NEW T \in SUBSET clients,
           \/ t = s /\ T \subseteq S
           \/ \E r \in S : t = s + Price /\ T = S \ {r}
           \/ /\ \E r \in clients \ S : T = S \cup {r}
              /\ t = s /\ (limit > 0 /\ Price > 0 => Price <= limit - s),
           limit > 0, t + Price * Cardinality(T) > s + Price * Cardinality(S)
    PROVE  t + Price * Cardinality(T) <= limit + (Cardinality(clients) - 1) * Price
  <1>1. /\ IsFiniteSet(S) /\ IsFiniteSet(T)
        /\ Cardinality(S) \in Nat /\ Cardinality(T) \in Nat /\ Cardinality(clients) \in Nat
        /\ Price \in Nat
    BY FS_Subset, FS_CardinalityType, PathAssumption
  <1>2. CASE t = s /\ T \subseteq S
    <2>1. Cardinality(T) <= Cardinality(S)
      BY <1>1, <1>2, FS_Subset
    <2>2. Price * Cardinality(T) <= Price * Cardinality(S)
      BY <1>1, <2>1, Scaled
    <2> QED
      BY <1>1, <1>2, <2>2, Scaled
  <1>3. CASE \E r \in S : t = s + Price /\ T = S \ {r}
    <2>1. Cardinality(S) = Cardinality(T) + 1
      BY <1>1, <1>3, FS_RemoveElement
    <2>2. Price * Cardinality(S) = Price * Cardinality(T) + Price
      BY <1>1, <2>1, Scaled
    <2> QED
      BY <1>1, <1>3, <2>2, Scaled
  <1>4. CASE /\ \E r \in clients \ S : T = S \cup {r}
             /\ t = s /\ (Price > 0 => Price <= limit - s)
    <2>1. Cardinality(T) = Cardinality(S) + 1
      BY <1>1, <1>4, FS_AddElement
    <2>2. Cardinality(T) <= Cardinality(clients)
      BY FS_Subset
    <2>3. Cardinality(S) <= Cardinality(clients) - 1 /\ Cardinality(clients) - 1 \in Nat
      BY <1>1, <2>1, <2>2
    <2>4. Price * Cardinality(S) <= Price * (Cardinality(clients) - 1)
      BY <1>1, <2>3, Scaled
    <2>5. Price * (Cardinality(clients) - 1) = (Cardinality(clients) - 1) * Price
      BY <1>1, <2>3
    <2>6. Price * Cardinality(T) = Price * Cardinality(S) + Price
      BY <1>1, <2>1, Scaled
    <2>7. Price > 0
      BY <1>1, <1>4, <2>6, Scaled
    <2> HIDE DEF Cardinality
    <2> QED
      BY <1>1, <1>4, <2>4, <2>5, <2>6, <2>7, Scaled
  <1> QED
    BY <1>2, <1>3, <1>4

LEMMA RespectsStep ==
    ASSUME PathInv, [Next]_vars
    PROVE  /\ Respects(GlobalLimit, globalSpent, Requests)
           /\ \A a \in Agents : Respects(agentLimit[a], agentSpent[a],
                                         {r \in Requests : AgentOf[r] = a})
  <1>1. globalSpent' \in Nat /\ agentSpent' \in [Agents -> Nat]
    BY PathStep DEF PathInv, SharedTypes
  <1>2. /\ IsFiniteSet(Requests) /\ GlobalLimit \in Int
        /\ globalSpent \in Nat /\ globalSpent' \in Nat
        /\ agentSpent \in [Agents -> Nat] /\ agentSpent' \in [Agents -> Nat]
        /\ \A a \in Agents : agentLimit[a] \in Int
        /\ \A r \in Requests : AgentOf[r] \in Agents
    BY <1>1, BudgetTypes
  <1>3. \A r \in Requests : Paid(r) = (IF prov[r] = "primary" THEN Price ELSE 0)
    BY DEF Paid, CostOf
  <1>4. Respects(GlobalLimit, globalSpent, Requests)
    <2>1. /\ Spending(Requests) \in SUBSET Requests
          /\ Spending(Requests)' \in SUBSET Requests
      BY DEF Spending
    <2>2. \/ globalSpent' = globalSpent /\ Spending(Requests)' \subseteq Spending(Requests)
          \/ \E r \in Spending(Requests) :
                /\ globalSpent' = globalSpent + Price
                /\ Spending(Requests)' = Spending(Requests) \ {r}
          \/ /\ \E r \in Requests \ Spending(Requests) :
                   Spending(Requests)' = Spending(Requests) \cup {r}
             /\ globalSpent' = globalSpent
             /\ GlobalLimit > 0 /\ Price > 0 => Price <= GlobalLimit - globalSpent
      <3>1. CASE SpendQuiet(Requests)
        BY <3>1 DEF SpendQuiet
      <3>2. CASE \E r \in Requests : SpendCharge(r, Requests)
        BY <1>2, <1>3, <3>2 DEF SpendCharge
      <3>3. CASE \E r \in Requests : SpendJoin(r, Requests)
        BY <3>3, FitsLimits DEF SpendJoin
      <3> QED
        BY <3>1, <3>2, <3>3, SpendStep
    <2> QED
      BY <1>2, <2>1, <2>2, CommitStep DEF Respects, Committed
  <1>5. ASSUME NEW a \in Agents
        PROVE  Respects(agentLimit[a], agentSpent[a], {r \in Requests : AgentOf[r] = a})
    <2> DEFINE clients == {r \in Requests : AgentOf[r] = a}
    <2>1. /\ IsFiniteSet(clients) /\ clients \in SUBSET Requests
          /\ Spending(clients) \in SUBSET clients
          /\ Spending(clients)' \in SUBSET clients
          /\ agentSpent[a] \in Nat /\ agentSpent'[a] \in Nat /\ agentLimit[a] \in Int
      BY <1>2, FS_Subset DEF Spending
    <2>2. \/ agentSpent'[a] = agentSpent[a] /\ Spending(clients)' \subseteq Spending(clients)
          \/ \E r \in Spending(clients) :
                /\ agentSpent'[a] = agentSpent[a] + Price
                /\ Spending(clients)' = Spending(clients) \ {r}
          \/ /\ \E r \in clients \ Spending(clients) :
                   Spending(clients)' = Spending(clients) \cup {r}
             /\ agentSpent'[a] = agentSpent[a]
             /\ agentLimit[a] > 0 /\ Price > 0 => Price <= agentLimit[a] - agentSpent[a]
      <3>1. CASE SpendQuiet(clients)
        BY <3>1 DEF SpendQuiet
      <3>2. ASSUME NEW r \in Requests, SpendCharge(r, clients)
            PROVE  <2>2!1 \/ <2>2!2
        <4>1. CASE r \in clients
          <5>1. agentSpent'[a] = agentSpent[a] + Paid(r)
            BY <1>2, <3>2, <4>1 DEF SpendCharge
          <5>2. CASE prov[r] = "primary"
            BY <1>3, <3>2, <4>1, <5>1, <5>2 DEF SpendCharge
          <5>3. CASE prov[r] # "primary"
            BY <1>3, <2>1, <3>2, <5>1, <5>3 DEF SpendCharge
          <5> QED
            BY <5>2, <5>3
        <4>2. CASE r \notin clients
          BY <1>2, <2>1, <3>2, <4>2 DEF SpendCharge
        <4> QED
          BY <4>1, <4>2
      <3>3. ASSUME NEW r \in Requests, SpendJoin(r, clients)
            PROVE  <2>2!3
        BY <3>3, FitsLimits DEF SpendJoin
      <3> QED
        BY <2>1, <3>1, <3>2, <3>3, SpendStep
    <2> HIDE DEF clients
    <2>3. Respects(agentLimit[a], agentSpent[a], clients)
      BY <2>1, <2>2, CommitStep DEF Respects, Committed
    <2> QED
      BY <2>3 DEF clients
  <1> QED
    BY <1>4, <1>5

(* A budget is overspent by at most one primary call for each other client *)
(* that shares it: no read of what is left lets more than that be spent,   *)
(* whatever was spent, set or under way before.                            *)
THEOREM BudgetRespected == Spec => OverspendBounded
  <1> QED
    BY PathInit, PathStep, RespectsStep, PTL DEF Spec, OverspendBounded
-----------------------------------------------------------------------------
(* Failures a client's request may still count before IsLooping is asked   *)
(* again: those of the attempt under way, if it can fail, and of the ones  *)
(* its policy allows after that.                                           *)
Ahead == [r \in Requests |->
    CASE pc[r] \in {"routing", "choosing", "selected", "calling", "failed"} ->
            MaxAttempts[r] - attempt[r] + 1
      [] pc[r] \in {"tripping", "deciding"} -> MaxAttempts[r] - attempt[r]
      [] OTHER -> 0]

Most(f) == SumFunctionOnSet(MaxAttempts, Senders(f))
StillAhead(f) == SumFunctionOnSet(Ahead, Senders(f))

(* A request in the handler is at its first attempt or a later one.        *)
Begun == \A r \in Requests : pc[r] # "idle" => attempt[r] >= 1

(* RunawayBounded is not inductive: what has been counted and what is      *)
(* still ahead of the requests past IsLooping must stay below the bound    *)
(* together, unless the entry is stale, whose count the next failure drops.*)
Contained == \A f \in Fingerprints :
    loops[f].count + (IF Stale(loops[f]) THEN 0 ELSE StillAhead(f))
        < LoopThreshold + Most(f)

(* No request has more failures ahead than attempts, and one that has just *)
(* counted a failure has fewer.                                            *)
LEMMA AheadTypes ==
    ASSUME LocalTypes, Begun, NEW r \in Requests
    PROVE  /\ MaxAttempts[r] \in Nat \ {0} /\ Ahead[r] \in Nat
           /\ Ahead[r] <= MaxAttempts[r]
           /\ pc[r] \in {"tripping", "deciding"} => Ahead[r] < MaxAttempts[r]
  <1>1. MaxAttempts[r] = PolicyOf[r].maxRetries + 1 /\ PolicyOf[r].maxRetries \in Nat
    BY PolicyTypes DEF MaxAttempts
  <1>2. attempt[r] \in Nat /\ attempt[r] <= MaxAttempts[r]
        /\ (pc[r] # "idle" => attempt[r] >= 1)
    BY <1>1 DEF LocalTypes, Begun
  <1> HIDE DEF MaxAttempts
  <1>3. CASE pc[r] \in {"routing", "choosing", "selected", "calling", "failed"}
    <2>1. Ahead[r] = MaxAttempts[r] - attempt[r] + 1
      BY <1>3 DEF Ahead
    <2> QED
      BY <1>1, <1>2, <1>3, <2>1
  <1>4. CASE pc[r] \in {"tripping", "deciding"}
    <2>1. Ahead[r] = MaxAttempts[r] - attempt[r]
      BY <1>4 DEF Ahead
    <2> QED
      BY <1>1, <1>2, <1>4, <2>1
  <1>5. CASE pc[r] \notin {"routing", "choosing", "selected", "calling", "failed",
                           "tripping", "deciding"}
    <2>1. Ahead[r] = 0
      BY <1>5 DEF Ahead
    <2> QED
      BY <1>1, <1>2, <1>5, <2>1
  <1> QED
    BY <1>3, <1>4, <1>5

(* Those who send a text are among the finitely many clients. *)
LEMMA SendersFinite ==
    ASSUME NEW f
    PROVE  IsFiniteSet(Senders(f)) /\ Senders(f) \subseteq Requests
  BY PathAssumption, FS_Subset DEF Senders

(* The sums are numbers, and what is ahead is never more than the most.    *)
LEMMA AheadSums ==
    ASSUME LocalTypes, Begun, NEW f
    PROVE  Most(f) \in Int /\ StillAhead(f) \in Int /\ StillAhead(f) <= Most(f)
           /\ 0 <= StillAhead(f)
  <1>1. /\ IsFiniteSet(Senders(f))
        /\ \A r \in Senders(f) : /\ Ahead[r] \in Int /\ MaxAttempts[r] \in Int
                                 /\ 0 <= Ahead[r] /\ Ahead[r] <= MaxAttempts[r]
    BY SendersFinite, AheadTypes
  <1> HIDE DEF Ahead, MaxAttempts
  <1>2. Most(f) \in Int /\ StillAhead(f) \in Int /\ StillAhead(f) <= Most(f)
    BY <1>1, SumType, SumMonotone DEF Most, StillAhead
  <1>3. 0 <= StillAhead(f)
    <2> DEFINE zero == [r \in Senders(f) |-> 0]
    <2>1. SumFunctionOnSet(zero, Senders(f)) = Cardinality(Senders(f)) * 0
      BY <1>1, SumConstant
    <2>2. SumFunctionOnSet(zero, Senders(f)) <= StillAhead(f)
      <3>1. \A r \in Senders(f) : zero[r] = 0
        OBVIOUS
      <3> HIDE DEF zero
      <3> QED
        BY <1>1, <3>1, SumMonotone DEF StillAhead
    <2>3. Cardinality(Senders(f)) \in Nat
      BY <1>1, FS_CardinalityType
    <2> QED
      BY <2>1, <2>2, <2>3
  <1> QED
    BY <1>2, <1>3

(* A step of one request leaves the others where they are.                 *)
LEMMA OthersStay ==
    ASSUME PathInv, NEW r \in Requests, Handle(r) \/ Arrive(r) \/ RefuseAdmission(r),
           NEW q \in Requests, q # r
    PROVE  pc'[q] = pc[q] /\ attempt'[q] = attempt[q]
  <1>1. pc \in [Requests -> Locations] /\ attempt \in [Requests -> Nat]
    BY DEF PathInv, LocalTypes
  <1>2. CASE Handle(r)
    BY <1>1, <1>2
       DEF Handle, RejectLoop, Enter, ReadBudget, Select, SelectNone, Allow, RejectCircuit,
           CallFails, CallSucceeds, ClearLoop, Charge, CountFailure, StopLoop, Retry, GiveUp, GoTo,
           Move, Answer
  <1>3. CASE Arrive(r) \/ RefuseAdmission(r)
    BY <1>1, <1>3 DEF Arrive, RefuseAdmission, GoTo, Move, Answer
  <1> QED
    BY <1>2, <1>3

(* Where a request's step takes it, and the attempt it is then at.         *)
LEMMA StepTakes ==
    ASSUME PathInv, NEW r \in Requests, Handle(r) \/ Arrive(r) \/ RefuseAdmission(r)
    PROVE  \/ Arrive(r) /\ pc'[r] = "admitted" /\ attempt'[r] = 1
           \/ Enter(r) /\ pc'[r] = "routing" /\ attempt'[r] = attempt[r]
           \/ /\ CountFailure(r) /\ pc[r] = "failed" /\ attempt'[r] = attempt[r]
              /\ pc'[r] \in {"tripping", "deciding"}
           \/ /\ pc[r] = "deciding" /\ pc'[r] = "routing"
              /\ attempt'[r] = attempt[r] + 1
           \/ pc'[r] = "idle"
           \/ /\ pc[r] = "calling" /\ pc'[r] = "clearing" /\ attempt'[r] = attempt[r]
           \/ /\ pc[r] = "clearing" /\ pc'[r] = "charging" /\ attempt'[r] = attempt[r]
           \/ /\ pc[r] = "tripping" /\ pc'[r] = "deciding" /\ attempt'[r] = attempt[r]
           \/ /\ pc[r] \in {"routing", "choosing", "selected", "calling"}
              /\ pc'[r] \in {"choosing", "selected", "calling", "failed"}
              /\ attempt'[r] = attempt[r]
  <1>1. pc \in [Requests -> Locations] /\ attempt \in [Requests -> Nat]
    BY DEF PathInv, LocalTypes
  <1>2. CASE RejectLoop(r) \/ Charge(r) \/ GiveUp(r) \/ RefuseAdmission(r)
    <2>1. pc'[r] = "idle"
      BY <1>1, <1>2 DEF RejectLoop, Charge, GiveUp, RefuseAdmission, Answer, Move
    <2> QED
      BY <2>1
  <1>3. CASE Arrive(r)
    BY <1>1, <1>3 DEF Arrive, GoTo, Move
  <1>4. CASE Enter(r)
    BY <1>1, <1>4 DEF Enter, GoTo, Move
  <1>5. CASE CountFailure(r)
    BY <1>1, <1>5 DEF CountFailure, GoTo, Move
  <1>6. CASE Retry(r)
    BY <1>1, <1>6 DEF Retry, GoTo, Move
  <1>7. CASE CallSucceeds(r) \/ ClearLoop(r) \/ StopLoop(r)
    BY <1>1, <1>7 DEF CallSucceeds, ClearLoop, StopLoop, GoTo, Move
  <1>8. CASE \/ ReadBudget(r) \/ Select(r) \/ SelectNone(r) \/ Allow(r)
             \/ RejectCircuit(r) \/ CallFails(r)
    BY <1>1, <1>8 DEF ReadBudget, Select, SelectNone, Allow, RejectCircuit, CallFails, GoTo, Move
  <1> QED
    BY <1>2, <1>3, <1>4, <1>5, <1>6, <1>7, <1>8 DEF Handle

(* Arrive sets the first attempt, Retry the next one. *)
LEMMA BegunStep == PathInv /\ Begun /\ [Next]_vars => Begun'
  <1> SUFFICES ASSUME PathInv, Begun, [Next]_vars
               PROVE  Begun'
    OBVIOUS
  <1>1. ASSUME NEW r \in Requests, Handle(r) \/ Arrive(r) \/ RefuseAdmission(r)
        PROVE  Begun'
    <2>1. \A q \in Requests : q # r => pc'[q] = pc[q] /\ attempt'[q] = attempt[q]
      BY <1>1, OthersStay
    <2>2. pc'[r] # "idle" => attempt'[r] >= 1
      <3>1. attempt[r] \in Nat /\ (pc[r] # "idle" => attempt[r] >= 1)
            /\ (Enter(r) => pc[r] # "idle")
        BY DEF PathInv, LocalTypes, Begun, Enter
      <3> QED
        BY <1>1, <3>1, StepTakes
    <2> QED
      BY <2>1, <2>2 DEF Begun
  <1>2. CASE (\E a \in Agents : SetAgentLimit(a)) \/ Restore \/ Tick \/ UNCHANGED vars
    BY <1>2 DEF SetAgentLimit, Restore, Tick, vars, local, Begun
  <1> QED
    BY <1>1, <1>2 DEF Next

(* Only a request that enters has more ahead of it than before, and one    *)
(* whose failure is counted has one less.                                  *)
LEMMA AheadStep ==
    ASSUME PathInv, Begun, NEW r \in Requests,
           Handle(r) \/ Arrive(r) \/ RefuseAdmission(r)
    PROVE  /\ \A q \in Requests : q # r => Ahead'[q] = Ahead[q]
           /\ Ahead'[r] \in Int /\ Ahead'[r] <= MaxAttempts[r]
           /\ ~Enter(r) => Ahead'[r] <= Ahead[r]
           /\ CountFailure(r) => Ahead'[r] + 1 <= Ahead[r] /\ Ahead'[r] + 1 <= MaxAttempts[r]
  <1>1. MaxAttempts' = MaxAttempts
    BY DEF MaxAttempts
  <1>2. \A q \in Requests : q # r => Ahead'[q] = Ahead[q]
    BY <1>1, OthersStay DEF Ahead
  <1>3. /\ MaxAttempts[r] \in Nat /\ attempt[r] \in Nat
        /\ Ahead[r] \in Nat /\ Ahead[r] <= MaxAttempts[r]
        /\ Enter(r) => attempt[r] >= 1
    BY AheadTypes DEF PathInv, LocalTypes, Begun, Enter
  <1> DEFINE before == Ahead[r]
             after == Ahead'[r]
             l == pc[r]
             m == pc'[r]
  <1>4. /\ l \in {"routing", "choosing", "selected", "calling", "failed"} =>
               before = MaxAttempts[r] - attempt[r] + 1
        /\ l \in {"tripping", "deciding"} => before = MaxAttempts[r] - attempt[r]
    BY DEF Ahead
  <1>5. /\ m \in {"routing", "choosing", "selected", "calling", "failed"} =>
               after = MaxAttempts[r] - attempt'[r] + 1
        /\ m \in {"tripping", "deciding"} => after = MaxAttempts[r] - attempt'[r]
        /\ m \in {"idle", "admitted", "clearing", "charging"} => after = 0
    BY <1>1 DEF Ahead
  <1> HIDE DEF before, after, MaxAttempts
  <1>6. after \in Int /\ after <= MaxAttempts[r] /\ (~Enter(r) => after <= before)
    BY <1>3, <1>4, <1>5, StepTakes DEF before
  <1>7. CountFailure(r) => after + 1 <= before /\ after + 1 <= MaxAttempts[r]
    <2> SUFFICES ASSUME CountFailure(r)
                 PROVE  after + 1 <= before /\ after + 1 <= MaxAttempts[r]
      OBVIOUS
    <2>1. l = "failed" /\ attempt'[r] = attempt[r] /\ m \in {"tripping", "deciding"}
      BY DEF PathInv, LocalTypes, CountFailure, GoTo, Move
    <2> QED
      BY <1>3, <1>4, <1>5, <2>1 DEF before
  <1> QED
    BY <1>2, <1>6, <1>7 DEF before, after

(* So what is ahead of the senders of a text falls with each of theirs,    *)
(* and is never more than all their attempts.                              *)
LEMMA StillAheadStep ==
    ASSUME LocalTypes, Begun, NEW f, \A q \in Senders(f) : Ahead'[q] \in Int
    PROVE  /\ Most(f)' = Most(f) /\ StillAhead(f)' \in Int
           /\ (\A q \in Senders(f) : Ahead'[q] <= Ahead[q])
                  => StillAhead(f)' <= StillAhead(f)
           /\ (\A q \in Senders(f) : Ahead'[q] <= MaxAttempts[q])
                  => StillAhead(f)' <= Most(f)
           /\ (/\ \A q \in Senders(f) : Ahead'[q] <= Ahead[q]
               /\ \E r \in Senders(f) : Ahead'[r] + 1 <= Ahead[r])
                  => StillAhead(f)' + 1 <= StillAhead(f)
           /\ (/\ \A q \in Senders(f) : Ahead'[q] <= MaxAttempts[q]
               /\ \E r \in Senders(f) : Ahead'[r] + 1 <= MaxAttempts[r])
                  => StillAhead(f)' + 1 <= Most(f)
  <1>1. IsFiniteSet(Senders(f)) /\ Senders(f)' = Senders(f) /\ MaxAttempts' = MaxAttempts
    BY SendersFinite DEF Senders, MaxAttempts
  <1>2. \A q \in Senders(f) : Ahead[q] \in Int /\ MaxAttempts[q] \in Int
    BY SendersFinite, AheadTypes
  <1>3. Most(f)' = Most(f) /\ StillAhead(f)' = SumFunctionOnSet(Ahead', Senders(f))
    BY <1>1 DEF Most, StillAhead
  <1>4. SumFunctionOnSet(Ahead', Senders(f)) \in Int
    BY <1>1, SumType
  <1>5. ASSUME \A q \in Senders(f) : Ahead'[q] <= Ahead[q]
        PROVE  SumFunctionOnSet(Ahead', Senders(f)) <= StillAhead(f)
    BY <1>1, <1>2, <1>5, SumMonotone DEF StillAhead
  <1>6. ASSUME \A q \in Senders(f) : Ahead'[q] <= MaxAttempts[q]
        PROVE  SumFunctionOnSet(Ahead', Senders(f)) <= Most(f)
    BY <1>1, <1>2, <1>6, SumMonotone DEF Most
  <1>7. ASSUME \A q \in Senders(f) : Ahead'[q] <= Ahead[q],
               NEW r \in Senders(f), Ahead'[r] + 1 <= Ahead[r]
        PROVE  SumFunctionOnSet(Ahead', Senders(f)) + 1 <= StillAhead(f)
    BY <1>1, <1>2, <1>7, SumGrows DEF StillAhead
  <1>8. ASSUME \A q \in Senders(f) : Ahead'[q] <= MaxAttempts[q],
               NEW r \in Senders(f), Ahead'[r] + 1 <= MaxAttempts[r]
        PROVE  SumFunctionOnSet(Ahead', Senders(f)) + 1 <= Most(f)
    BY <1>1, <1>2, <1>8, SumGrows DEF Most
  <1> QED
    BY <1>3, <1>4, <1>5, <1>6, <1>7, <1>8

(* A failure counted: one more in the entry, one less ahead; in a stale    *)
(* entry it is the first, and its request has had an attempt.              *)
LEMMA ContainedFailure ==
    ASSUME PathInv, Begun, Contained, NEW r \in Requests, CountFailure(r)
    PROVE  Contained'
  <1>1. /\ SharedTypes /\ LocalTypes /\ Handle(r)
        /\ FingerprintOf[r] \in Fingerprints
    BY PolicyTypes DEF PathInv, Handle
  <1>2. /\ \A q \in Requests : q # r => Ahead'[q] = Ahead[q]
        /\ Ahead'[r] \in Int /\ Ahead'[r] <= MaxAttempts[r]
        /\ Ahead'[r] + 1 <= Ahead[r] /\ Ahead'[r] + 1 <= MaxAttempts[r]
    <2>1. ~Enter(r)
      BY DEF CountFailure, Enter
    <2> QED
      BY <1>1, <2>1, AheadStep
  <1>3. \A q \in Requests : /\ Ahead'[q] \in Int /\ Ahead[q] \in Int
                            /\ MaxAttempts[q] \in Int
                            /\ Ahead'[q] <= Ahead[q] /\ Ahead'[q] <= MaxAttempts[q]
    BY <1>1, <1>2, AheadTypes
  <1> SUFFICES ASSUME NEW f \in Fingerprints
               PROVE  loops'[f].count + (IF Stale(loops'[f]) THEN 0 ELSE StillAhead(f)')
                          < LoopThreshold + Most(f)'
    BY DEF Contained, Stale
  <1>4. /\ Most(f) \in Int /\ StillAhead(f) \in Int /\ 0 <= StillAhead(f)
        /\ loops[f] \in Entries /\ LoopThreshold \in Nat \ {0}
        /\ loops[f].count \in Nat
        /\ loops[f].count + (IF Stale(loops[f]) THEN 0 ELSE StillAhead(f))
               < LoopThreshold + Most(f)
    BY <1>1, AheadSums, PathAssumption DEF SharedTypes, Contained, Entries
  <1>5. Senders(f) \subseteq Requests
    BY SendersFinite
  <1>6. /\ Most(f)' = Most(f) /\ StillAhead(f)' \in Int
        /\ StillAhead(f)' <= StillAhead(f)
        /\ r \in Senders(f) => /\ StillAhead(f)' + 1 <= StillAhead(f)
                               /\ StillAhead(f)' + 1 <= Most(f)
    BY <1>1, <1>2, <1>3, <1>5, StillAheadStep
  <1>7. CASE FingerprintOf[r] = f
    <2>1. loops'[f] = AfterLoopFailure(loops[f]) /\ r \in Senders(f)
      BY <1>1, <1>7 DEF CountFailure, SharedTypes, Senders
    <2>2. /\ loops'[f].count = IF Stale(loops[f]) THEN 1 ELSE loops[f].count + 1
          /\ ~Stale(loops'[f])
      BY <1>4, <2>1, PathAssumption DEF AfterLoopFailure, NoEntry, Stale, Entries
    <2> QED
      BY <1>4, <1>6, <2>1, <2>2
  <1>8. CASE FingerprintOf[r] # f
    <2>1. loops'[f] = loops[f]
      BY <1>1, <1>8 DEF CountFailure, SharedTypes
    <2> QED
      BY <1>4, <1>6, <2>1
  <1> QED
    BY <1>7, <1>8

(* A request enters only below the threshold, or past a stale entry.       *)
LEMMA ContainedRequest ==
    ASSUME PathInv, Begun, Contained, NEW r \in Requests,
           Handle(r) \/ Arrive(r) \/ RefuseAdmission(r), ~CountFailure(r)
    PROVE  Contained'
  <1>1. /\ SharedTypes /\ LocalTypes
        /\ FingerprintOf[r] \in Fingerprints
    BY PolicyTypes DEF PathInv
  <1>2. /\ \A q \in Requests : q # r => Ahead'[q] = Ahead[q]
        /\ Ahead'[r] \in Int /\ Ahead'[r] <= MaxAttempts[r]
        /\ ~Enter(r) => Ahead'[r] <= Ahead[r]
    BY AheadStep
  <1>3. \A q \in Requests : /\ Ahead'[q] \in Int /\ Ahead[q] \in Int
                            /\ MaxAttempts[q] \in Int
                            /\ Ahead'[q] <= MaxAttempts[q]
                            /\ q # r \/ ~Enter(r) => Ahead'[q] <= Ahead[q]
    BY <1>1, <1>2, AheadTypes
  <1> SUFFICES ASSUME NEW f \in Fingerprints
               PROVE  loops'[f].count + (IF Stale(loops'[f]) THEN 0 ELSE StillAhead(f)')
                          < LoopThreshold + Most(f)'
    BY DEF Contained, Stale
  <1>4. /\ Most(f) \in Int /\ StillAhead(f) \in Int /\ 0 <= StillAhead(f)
        /\ loops[f].count \in Nat /\ LoopThreshold \in Nat \ {0}
        /\ loops[f].count + (IF Stale(loops[f]) THEN 0 ELSE StillAhead(f))
               < LoopThreshold + Most(f)
    BY <1>1, AheadSums, PathAssumption DEF SharedTypes, Contained, Entries
  <1>5. Senders(f) \subseteq Requests
    BY SendersFinite
  <1>6. /\ Most(f)' = Most(f) /\ StillAhead(f)' \in Int
        /\ StillAhead(f)' <= Most(f)
        /\ r \notin Senders(f) \/ ~Enter(r) => StillAhead(f)' <= StillAhead(f)
    BY <1>1, <1>3, <1>5, StillAheadStep
  <1>7. CASE ClearLoop(r) /\ FingerprintOf[r] = f
    <2>1. loops'[f].count = 0 /\ ~Stale(loops'[f])
      BY <1>1, <1>7, PathAssumption DEF ClearLoop, SharedTypes, NoEntry, Stale
    <2> QED
      BY <1>4, <1>6, <2>1
  <1>8. CASE ~ClearLoop(r) \/ FingerprintOf[r] # f
    <2>1. loops'[f] = loops[f]
      BY <1>1, <1>8
         DEF Handle, Arrive, RefuseAdmission, RejectLoop, Enter, ReadBudget, Select, SelectNone,
             Allow, RejectCircuit, CallFails, CallSucceeds, ClearLoop, Charge, StopLoop, Retry,
             GiveUp, shared, SharedTypes
    <2>2. CASE Enter(r) /\ r \in Senders(f)
      <3>1. FingerprintOf[r] = f
        BY <2>2 DEF Senders
      <3>2. Stale(loops[f]) \/ loops[f].count < LoopThreshold
        BY <1>4, <2>2, <3>1 DEF Enter, IsLooping
      <3> QED
        BY <1>4, <1>6, <2>1, <3>2
    <2>3. CASE ~(Enter(r) /\ r \in Senders(f))
      BY <1>4, <1>6, <2>1, <2>3
    <2> QED
      BY <2>2, <2>3
  <1> QED
    BY <1>7, <1>8

(* Time only makes an entry stale.                                         *)
LEMMA ContainedOthers ==
    ASSUME PathInv, Begun, Contained,
           (\E a \in Agents : SetAgentLimit(a)) \/ Restore \/ Tick \/ UNCHANGED vars
    PROVE  Contained'
  <1>1. SharedTypes /\ LocalTypes
    BY DEF PathInv
  <1>2. Ahead' = Ahead
    BY DEF SetAgentLimit, Restore, Tick, vars, local, Ahead, MaxAttempts
  <1> SUFFICES ASSUME NEW f \in Fingerprints
               PROVE  loops'[f].count + (IF Stale(loops'[f]) THEN 0 ELSE StillAhead(f)')
                          < LoopThreshold + Most(f)'
    BY DEF Contained, Stale
  <1>3. /\ Most(f) \in Int /\ StillAhead(f) \in Int /\ 0 <= StillAhead(f)
        /\ loops[f] \in Entries /\ loops[f].count \in Nat /\ LoopThreshold \in Nat
        /\ loops[f].count + (IF Stale(loops[f]) THEN 0 ELSE StillAhead(f))
               < LoopThreshold + Most(f)
    BY <1>1, AheadSums, PathAssumption DEF SharedTypes, Contained, Entries
  <1>4. Most(f)' = Most(f) /\ StillAhead(f)' = StillAhead(f)
    BY <1>2 DEF Most, StillAhead, Senders, MaxAttempts
  <1>5. loops'[f].count = loops[f].count /\ (loops'[f] = loops[f] \/ ~Stale(loops[f]))
    BY <1>1, <1>3 DEF SetAgentLimit, Restore, Tick, vars, shared, Entries
  <1> QED
    BY <1>3, <1>4, <1>5

(* However often agents resend a failing text, and whatever they send in   *)
(* between, the failures counted in one loop stay below the threshold plus *)
(* what was under way when it was reached: each client's attempts, once.   *)
THEOREM RunawaysBounded == Spec => []RunawayBounded
  <1>1. Init => Begun /\ Contained
    <2> SUFFICES ASSUME Init
                 PROVE  Begun /\ Contained
      OBVIOUS
    <2>1. Begun
      BY DEF Init, Begun
    <2>2. LocalTypes
      BY PathInit DEF PathInv
    <2>3. ASSUME NEW f \in Fingerprints
          PROVE  loops[f].count + (IF Stale(loops[f]) THEN 0 ELSE StillAhead(f))
                     < LoopThreshold + Most(f)
      <3>1. loops[f].count = 0
        BY DEF Init, NoEntry
      <3>2. /\ Most(f) \in Int /\ StillAhead(f) \in Int
            /\ 0 <= StillAhead(f) /\ StillAhead(f) <= Most(f)
        BY <2>1, <2>2, AheadSums
      <3> QED
        BY <3>1, <3>2, PathAssumption
    <2> QED
      BY <2>1, <2>3 DEF Contained
  <1>2. PathInv /\ Begun /\ Contained /\ [Next]_vars => Contained'
    BY ContainedFailure, ContainedRequest, ContainedOthers DEF Next
  <1>3. PathInv /\ Begun /\ Contained => RunawayBounded
    <2> SUFFICES ASSUME PathInv, Begun, Contained, NEW f \in Fingerprints
                 PROVE  loops[f].count < LoopThreshold + Most(f)
      BY DEF RunawayBounded, Most
    <2>1. /\ Most(f) \in Int /\ StillAhead(f) \in Int /\ 0 <= StillAhead(f)
          /\ loops[f].count \in Nat /\ LoopThreshold \in Nat
      BY AheadSums, PathAssumption DEF PathInv, SharedTypes, Entries
    <2> QED
      BY <2>1 DEF Contained
  <1> QED
    BY <1>1, <1>2, <1>3, PathInit, PathStep, BegunStep, PTL DEF Spec
=============================================================================
