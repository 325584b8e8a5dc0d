------------------------ MODULE CircuitBreakerProofs ------------------------
(***************************************************************************)
(* Proofs that IndInv of CircuitBreaker is inductive, what follows from    *)
(* it, and that the breaker implements ProviderGate.                       *)
(***************************************************************************)
EXTENDS CircuitBreaker, Integers, FiniteSetTheorems, TLAPS

(* Every method of the breaker keeps its fields within their ranges: no    *)
(* counter passes the threshold it is compared with.                       *)
LEMMA OpsTyped ==
    ASSUME NEW b \in Breakers
    PROVE  /\ NewBreaker \in Breakers
           /\ Available(b) => AfterAllow(b) \in Breakers
           /\ AfterSuccess(b) \in Breakers
           /\ AfterFailure(b) \in Breakers
           /\ AfterReset(b) \in Breakers
           /\ AfterTrip(b) \in Breakers
           /\ AfterTick(b) \in Breakers
  <1> USE ConfigAssumption DEF Breakers, BreakerStates, SetState
  <1>1. NewBreaker \in Breakers
    BY DEF NewBreaker
  <1>2. ASSUME Available(b) PROVE AfterAllow(b) \in Breakers
    BY <1>2 DEF Available, AfterAllow
  <1>3. AfterSuccess(b) \in Breakers
    BY DEF AfterSuccess
  <1>4. AfterFailure(b) \in Breakers
    BY DEF AfterFailure
  <1>5. AfterReset(b) \in Breakers /\ AfterTrip(b) \in Breakers
    BY DEF AfterReset, AfterTrip
  <1>6. AfterTick(b) \in Breakers
    BY DEF AfterTick
  <1> QED
    BY <1>1, <1>2, <1>3, <1>4, <1>5, <1>6

(* A set of calls is finite, and the probes with it. *)
LEMMA CallsFinite ==
    ASSUME TypeOK
    PROVE  /\ IsFiniteSet(Calling) /\ Cardinality(Calling) \in Nat
           /\ IsFiniteSet(probing) /\ Cardinality(probing) \in Nat
  <1>1. Calling \in SUBSET Callers /\ probing \in SUBSET Calling
    BY DEF TypeOK, Calling
  <1> QED
    BY <1>1, CallersAssumption, FS_Subset, FS_CardinalityType

(* A new breaker is closed and has no callers. *)
LEMMA IndInvInit == Init => IndInv
  <1> SUFFICES ASSUME Init PROVE IndInv
    OBVIOUS
  <1>1. breaker \in Breakers
    BY ConfigAssumption
    DEF Init, NewBreaker, SetState, Breakers, BreakerStates
  <1>2. breaker.state = "CLOSED" /\ probing = {}
    BY DEF Init, NewBreaker, SetState
  <1>3. TypeOK
    BY <1>1, <1>2, DeadlineAssumption DEF Init, TypeOK
  <1> QED
    BY <1>2, <1>3
    DEF IndInv, ProbesAccounted, NothingEnteredSinceOpen, OnlyProbesRun

-----------------------------------------------------------------------------
(* One lemma per group of actions; each follows the four parts of IndInv. *)

(* Steps that only look at the breaker change nothing IndInv speaks of. *)
LEMMA SelectStep ==
    ASSUME IndInv, NEW c \in Callers, Select(c) \/ Reject(c) \/ NoTrip(c)
    PROVE  IndInv'
  <1>1. /\ UNCHANGED <<breaker, age, probing>>
        /\ pc[c] # "calling"
        /\ \E s \in {"idle", "selected", "failed"} : pc' = [pc EXCEPT ![c] = s]
    BY DEF Select, Reject, NoTrip
  <1>2. Calling' = Calling
    BY <1>1 DEF IndInv, TypeOK, Calling
  <1>3. TypeOK'
    BY <1>1, <1>2 DEF IndInv, TypeOK
  <1> QED
    BY <1>1, <1>2, <1>3
    DEF IndInv, ProbesAccounted, NothingEnteredSinceOpen, OnlyProbesRun

(* Allow: the caller becomes a probe exactly when the breaker counts one. *)
LEMMA AllowStep ==
    ASSUME IndInv, NEW c \in Callers, Allow(c)
    PROVE  IndInv'
  <1> USE ConfigAssumption, DeadlineAssumption
  <1>1. /\ breaker' = AfterAllow(breaker) /\ Available(breaker)
        /\ pc' = [pc EXCEPT ![c] = "calling"] /\ pc[c] = "selected"
        /\ age' = [age EXCEPT ![c] = 0]
    BY DEF Allow
  <1>2. breaker \in Breakers /\ breaker' \in Breakers
    BY <1>1, OpsTyped DEF IndInv, TypeOK
  <1>3. Calling' = Calling \cup {c} /\ c \notin Calling /\ c \notin probing
    BY <1>1 DEF IndInv, TypeOK, Calling
  <1>4. /\ IsFiniteSet(probing) /\ Cardinality(probing) \in Nat
        /\ Cardinality(probing \cup {c}) = Cardinality(probing) + 1
        /\ Cardinality({c}) = 1
    BY <1>3, CallsFinite, FS_AddElement, FS_Singleton DEF IndInv
  <1>5. CASE breaker.state = "CLOSED"
    <2>1. breaker' = breaker /\ probing' = {} /\ probing = {}
      BY <1>1, <1>5 DEF AfterAllow, Allow, Probing, IndInv, ProbesAccounted
    <2> QED
      BY <1>1, <1>2, <1>3, <1>5, <2>1
      DEF IndInv, TypeOK, ProbesAccounted, NothingEnteredSinceOpen, OnlyProbesRun
  <1>6. CASE breaker.state = "OPEN"
    <2>1. /\ breaker'.state = "HALF_OPEN" /\ breaker'.halfOpenProbes = 1
          /\ breaker'.successes = 0
          /\ probing = {} /\ probing' = {c}
      BY <1>1, <1>6
      DEF AfterAllow, SetState, Allow, Probing, IndInv, ProbesAccounted
    <2>2. TypeOK'
      BY <1>1, <1>2, <1>3, <2>1 DEF IndInv, TypeOK
    <2>3. ProbesAccounted'
      BY <1>4, <2>1 DEF ProbesAccounted
    <2>4. ASSUME Deadline < Cooldown PROVE Calling = {}
      <3> SUFFICES ASSUME NEW d \in Calling PROVE FALSE
        OBVIOUS
      <3>1. breaker.elapsed >= Cooldown /\ breaker.elapsed <= age[d]
        BY <1>1, <1>6 DEF Available, IndInv, NothingEnteredSinceOpen
      <3>2. age[d] \in 0 .. Deadline /\ breaker.elapsed \in 0 .. Cooldown
        BY <1>2 DEF IndInv, TypeOK, Calling, Breakers
      <3> QED
        BY <2>4, <3>1, <3>2
    <2> QED
      BY <1>3, <2>1, <2>2, <2>3, <2>4
      DEF IndInv, NothingEnteredSinceOpen, OnlyProbesRun
  <1>7. CASE breaker.state = "HALF_OPEN"
    <2>1. /\ breaker'.state = "HALF_OPEN" /\ probing' = probing \cup {c}
          /\ breaker'.halfOpenProbes = breaker.halfOpenProbes + 1
          /\ breaker'.successes = breaker.successes
      BY <1>1, <1>2, <1>7 DEF AfterAllow, Allow, Probing, Breakers
    <2>2. TypeOK'
      BY <1>1, <1>2, <1>3, <2>1 DEF IndInv, TypeOK
    <2>3. ProbesAccounted'
      BY <1>2, <1>4, <1>7, <2>1 DEF IndInv, ProbesAccounted, Breakers
    <2> QED
      BY <1>3, <1>7, <2>1, <2>2, <2>3
      DEF IndInv, NothingEnteredSinceOpen, OnlyProbesRun
  <1> QED
    BY <1>2, <1>5, <1>6, <1>7 DEF Breakers, BreakerStates

(* RecordSuccess: a probe becomes a success, or the breaker closes. *)
LEMMA SucceedStep ==
    ASSUME IndInv, NEW c \in Callers, Succeed(c)
    PROVE  IndInv'
  <1> USE ConfigAssumption, DeadlineAssumption
  <1>1. /\ breaker' = AfterSuccess(breaker) /\ UNCHANGED age
        /\ pc' = [pc EXCEPT ![c] = "idle"] /\ pc[c] = "calling"
    BY DEF Succeed
  <1>2. breaker \in Breakers /\ breaker' \in Breakers
    BY <1>1, OpsTyped DEF IndInv, TypeOK
  <1>3. Calling' = Calling \ {c}
    BY <1>1 DEF IndInv, TypeOK, Calling
  <1>4. probing' = IF breaker'.state = "HALF_OPEN" THEN probing \ {c} ELSE {}
    BY DEF Succeed, Probing
  <1>5. TypeOK'
    BY <1>1, <1>2, <1>3, <1>4 DEF IndInv, TypeOK
  <1>6. /\ Cardinality(probing) \in Nat /\ Cardinality(probing \ {c}) \in Nat
        /\ Cardinality(probing \ {c}) \in {Cardinality(probing), Cardinality(probing) - 1}
    BY CallsFinite, FS_RemoveElement, FS_CardinalityType DEF IndInv
  <1>7. ASSUME breaker'.state = "HALF_OPEN"
        PROVE  /\ breaker.state = "HALF_OPEN"
               /\ breaker'.successes = breaker.successes + 1
               /\ breaker'.halfOpenProbes = breaker.halfOpenProbes
               /\ breaker'.successes < HalfOpenSuccessThreshold
    <2>1. breaker.state = "HALF_OPEN"
      BY <1>1, <1>2, <1>7 DEF AfterSuccess, SetState, Breakers, BreakerStates
    <2>2. breaker' = [breaker EXCEPT !.successes = @ + 1]
          /\ ~(breaker.successes + 1 >= HalfOpenSuccessThreshold)
      BY <1>1, <1>7, <2>1 DEF AfterSuccess, SetState
    <2> QED
      BY <1>2, <2>1, <2>2 DEF Breakers
  <1>8. ProbesAccounted'
    BY <1>2, <1>4, <1>6, <1>7 DEF IndInv, ProbesAccounted, Breakers
  <1>9. NothingEnteredSinceOpen'
    <2>1. ASSUME breaker'.state = "OPEN" PROVE breaker' = breaker
      BY <1>1, <1>2, <2>1 DEF AfterSuccess, SetState, Breakers, BreakerStates
    <2> QED
      BY <1>1, <1>3, <2>1 DEF IndInv, NothingEnteredSinceOpen
  <1>10. OnlyProbesRun'
    BY <1>3, <1>4, <1>7 DEF IndInv, OnlyProbesRun
  <1> QED
    BY <1>5, <1>8, <1>9, <1>10 DEF IndInv

(* RecordFailure: a failed probe opens the breaker again and ends probing. *)
LEMMA FailStep ==
    ASSUME IndInv, NEW c \in Callers, Fail(c)
    PROVE  IndInv'
  <1> USE ConfigAssumption, DeadlineAssumption
  <1>1. /\ breaker' = AfterFailure(breaker) /\ UNCHANGED age
        /\ pc' = [pc EXCEPT ![c] = "failed"] /\ pc[c] = "calling"
    BY DEF Fail
  <1>2. breaker \in Breakers /\ breaker' \in Breakers
    BY <1>1, OpsTyped DEF IndInv, TypeOK
  <1>3. Calling' = Calling \ {c}
    BY <1>1 DEF IndInv, TypeOK, Calling
  <1>4. breaker'.state # "HALF_OPEN"
    BY <1>1, <1>2 DEF AfterFailure, SetState, Breakers, BreakerStates
  <1>5. probing' = {}
    BY <1>4 DEF Fail, Probing
  <1>6. TypeOK'
    BY <1>1, <1>2, <1>3, <1>5 DEF IndInv, TypeOK
  <1>7. NothingEnteredSinceOpen'
    <2>1. ASSUME breaker'.state = "OPEN"
          PROVE  breaker' = breaker \/ breaker'.elapsed = 0
      BY <1>1, <1>2, <2>1 DEF AfterFailure, SetState, Breakers, BreakerStates
    <2>2. \A d \in Calling' : age'[d] \in Nat
      BY <1>6 DEF TypeOK, Calling
    <2> QED
      BY <1>1, <1>3, <2>1, <2>2 DEF IndInv, NothingEnteredSinceOpen
  <1> QED
    BY <1>4, <1>5, <1>6, <1>7 DEF IndInv, ProbesAccounted, OnlyProbesRun

(* Trip and Reset leave HALF_OPEN behind, whatever probes are out. *)
LEMMA OverrideStep ==
    ASSUME IndInv, (\E c \in Callers : Trip(c)) \/ Restore
    PROVE  IndInv'
  <1> USE ConfigAssumption, DeadlineAssumption
  <1>1. /\ breaker' \in {AfterTrip(breaker), AfterReset(breaker)}
        /\ Calling' = Calling /\ UNCHANGED age
        /\ pc' \in [Callers -> {"idle", "selected", "calling", "failed"}]
    BY DEF Trip, Restore, IndInv, TypeOK, Calling
  <1>2. breaker \in Breakers /\ breaker' \in Breakers
    BY <1>1, OpsTyped DEF IndInv, TypeOK
  <1>3. CASE breaker' = breaker
    <2>1. probing' = probing
      BY <1>3 DEF Trip, Restore, Probing, IndInv, ProbesAccounted
    <2> QED
      BY <1>1, <1>3, <2>1
      DEF IndInv, TypeOK, ProbesAccounted, NothingEnteredSinceOpen, OnlyProbesRun
  <1>4. CASE breaker' # breaker
    <2>1. breaker'.state # "HALF_OPEN" /\ breaker'.elapsed = 0
      BY <1>1, <1>4 DEF AfterTrip, AfterReset, SetState
    <2>2. probing' = {}
      BY <2>1 DEF Trip, Restore, Probing
    <2>3. TypeOK'
      BY <1>1, <1>2, <2>2 DEF IndInv, TypeOK
    <2>4. \A d \in Calling' : age'[d] \in Nat
      BY <2>3 DEF TypeOK, Calling
    <2> QED
      BY <2>1, <2>2, <2>3, <2>4
      DEF IndInv, ProbesAccounted, NothingEnteredSinceOpen, OnlyProbesRun
  <1> QED
    BY <1>3, <1>4

(* Time ages the open breaker and every running call alike. *)
LEMMA TickStep ==
    ASSUME IndInv, Tick
    PROVE  IndInv'
  <1> USE ConfigAssumption, DeadlineAssumption
  <1>1. /\ breaker' = AfterTick(breaker) /\ UNCHANGED <<pc, probing>>
        /\ age' = [c \in Callers |-> IF c \in Calling THEN age[c] + 1 ELSE age[c]]
        /\ \A c \in Calling : age[c] < Deadline
    BY DEF Tick
  <1>2. breaker \in Breakers /\ breaker' \in Breakers
    BY <1>1, OpsTyped DEF IndInv, TypeOK
  <1>3. Calling' = Calling
    BY <1>1 DEF Calling
  <1>4. /\ breaker'.state = breaker.state
        /\ breaker'.successes = breaker.successes
        /\ breaker'.halfOpenProbes = breaker.halfOpenProbes
        /\ breaker'.elapsed <= breaker.elapsed + 1
    BY <1>1, <1>2 DEF AfterTick, Breakers
  <1>5. TypeOK'
    <2>1. age' \in [Callers -> 0 .. Deadline]
      BY <1>1 DEF IndInv, TypeOK
    <2> QED
      BY <1>1, <1>2, <1>3, <2>1 DEF IndInv, TypeOK
  <1>6. NothingEnteredSinceOpen'
    <2> SUFFICES ASSUME breaker.state = "OPEN", NEW d \in Calling
                 PROVE  breaker'.elapsed <= age'[d]
      BY <1>3, <1>4 DEF NothingEnteredSinceOpen
    <2>1. breaker.elapsed <= age[d] /\ age[d] \in Nat /\ age'[d] = age[d] + 1
      BY <1>1 DEF IndInv, TypeOK, NothingEnteredSinceOpen, Calling
    <2> QED
      BY <1>2, <1>4, <2>1 DEF Breakers
  <1> QED
    BY <1>1, <1>3, <1>4, <1>5, <1>6 DEF IndInv, ProbesAccounted, OnlyProbesRun

-----------------------------------------------------------------------------
(* The bookkeeping behind the other theorems: whatever the interleaving of *)
(* callers, clock and operator, the breaker's fields stay in range, probes *)
(* are accounted for, and nothing enters an open breaker.                  *)
THEOREM Inductive == Spec => []IndInv
  <1>1. Init => IndInv
    BY IndInvInit
  <1>2. IndInv /\ [Next]_vars => IndInv'
    <2> SUFFICES ASSUME IndInv, [Next]_vars PROVE IndInv'
      OBVIOUS
    <2>1. ASSUME NEW c \in Callers, Caller(c) PROVE IndInv'
      BY <2>1, SelectStep, AllowStep, SucceedStep, FailStep, OverrideStep
      DEF Caller
    <2>2. CASE Restore
      BY <2>2, OverrideStep
    <2>3. CASE Tick
      BY <2>3, TickStep
    <2>4. CASE UNCHANGED vars
      BY <2>4
      DEF vars, IndInv, TypeOK, ProbesAccounted, NothingEnteredSinceOpen,
          OnlyProbesRun, Calling
    <2> QED
      BY <2>1, <2>2, <2>3, <2>4 DEF Next
  <1> QED
    BY <1>1, <1>2, PTL DEF Spec

(* A half-open breaker that refuses calls always has a probe at the        *)
(* provider whose answer moves it on, for every threshold and any number   *)
(* of interleaved callers.                                                 *)
THEOREM NeverWedged == Spec => []NoWedge
  <1>1. IndInv => NoWedge
    <2> SUFFICES ASSUME IndInv, breaker.state = "HALF_OPEN", ~Available(breaker)
                 PROVE  probing # {}
      BY DEF NoWedge
    <2>1. breaker \in Breakers
      BY DEF IndInv, TypeOK
    <2>2. /\ breaker.halfOpenProbes >= HalfOpenMaxProbes
          /\ breaker.halfOpenProbes <= Cardinality(probing) + breaker.successes
          /\ breaker.successes < HalfOpenSuccessThreshold
      BY <2>1, ConfigAssumption
      DEF IndInv, Available, ProbesAccounted, Breakers
    <2>3. Cardinality(probing) > 0
      BY <2>1, <2>2, ConfigAssumption, ProbesCanClose, CallsFinite
      DEF IndInv, Breakers
    <2> QED
      BY <2>3, FS_EmptySet
  <1> QED
    BY <1>1, Inductive, PTL

(* With deadlines below the cooldown, recovery is decided by at most       *)
(* HalfOpenMaxProbes calls and by no straggler.                            *)
THEOREM Isolation == Spec => []HalfOpenIsolated
  <1>1. IndInv => HalfOpenIsolated
    <2> SUFFICES ASSUME IndInv, Deadline < Cooldown, breaker.state = "HALF_OPEN"
                 PROVE  /\ Calling = probing
                        /\ Cardinality(Calling) <= HalfOpenMaxProbes
      BY DEF HalfOpenIsolated
    <2>1. Calling = probing
      BY DEF IndInv, TypeOK, OnlyProbesRun
    <2>2. /\ Cardinality(probing) <= breaker.halfOpenProbes
          /\ breaker.halfOpenProbes \in 0 .. HalfOpenMaxProbes
      BY DEF IndInv, TypeOK, ProbesAccounted, Breakers
    <2> QED
      BY <2>1, <2>2, CallsFinite, ConfigAssumption DEF IndInv
  <1> QED
    BY <1>1, Inductive, PTL

-----------------------------------------------------------------------------
(* Refinement: each step of the breaker is a step of the gate or none.     *)

(* A success leaves the gate as it is or closes a half-open one. *)
LEMMA GateSucceed ==
    ASSUME IndInv, NEW c \in Callers, Succeed(c)
    PROVE  Gate!Succeed(c)
  <1>1. /\ breaker' = AfterSuccess(breaker) /\ breaker \in Breakers
        /\ c \in Calling /\ Calling' = Calling \ {c}
    BY DEF Succeed, IndInv, TypeOK, Calling
  <1>2. \/ breaker'.state = breaker.state /\ breaker'.elapsed = breaker.elapsed
        \/ breaker.state = "HALF_OPEN" /\ breaker'.state = "CLOSED"
    BY <1>1 DEF AfterSuccess, SetState, Breakers, BreakerStates
  <1> QED
    BY <1>1, <1>2 DEF Gate!Succeed, GateMode, CooledDown

(* A failure leaves the gate as it is or opens it. *)
LEMMA GateFail ==
    ASSUME IndInv, NEW c \in Callers, Fail(c)
    PROVE  Gate!Fail(c)
  <1>1. /\ breaker' = AfterFailure(breaker) /\ breaker \in Breakers
        /\ c \in Calling /\ Calling' = Calling \ {c}
    BY DEF Fail, IndInv, TypeOK, Calling
  <1>2. \/ /\ breaker'.state = breaker.state /\ breaker'.elapsed = breaker.elapsed
           /\ breaker.state \in {"CLOSED", "OPEN"}
        \/ /\ breaker.state \in {"CLOSED", "HALF_OPEN"}
           /\ breaker'.state = "OPEN" /\ breaker'.elapsed = 0
    BY <1>1 DEF AfterFailure, SetState, Breakers, BreakerStates
  <1> QED
    BY <1>1, <1>2, ConfigAssumption DEF Gate!Fail, GateMode, CooledDown

(* An allowed call enters a closed gate, or probes one that has rested and *)
(* is empty, or one that is half-open with room for it.                    *)
LEMMA GateAllow ==
    ASSUME IndInv, Deadline < Cooldown, NEW c \in Callers, Allow(c)
    PROVE  Gate!Enter(c) \/ Gate!FirstProbe(c) \/ Gate!Probe(c)
  <1> USE ConfigAssumption
  <1>1. /\ breaker' = AfterAllow(breaker) /\ Available(breaker)
        /\ breaker \in Breakers
        /\ c \notin Calling /\ Calling' = Calling \cup {c}
    BY DEF Allow, IndInv, TypeOK, Calling
  <1>2. CASE breaker.state = "CLOSED"
    BY <1>1, <1>2 DEF AfterAllow, Gate!Enter, GateMode, CooledDown
  <1>3. CASE breaker.state = "OPEN"
    <2>1. breaker.elapsed >= Cooldown /\ breaker'.state = "HALF_OPEN"
      BY <1>1, <1>3 DEF Available, AfterAllow, SetState
    <2>2. Calling = {}
      <3> SUFFICES ASSUME NEW d \in Calling PROVE FALSE
        OBVIOUS
      <3>1. age[d] \in 0 .. Deadline /\ breaker.elapsed <= age[d]
        BY <1>3 DEF IndInv, TypeOK, Calling, NothingEnteredSinceOpen
      <3> QED
        BY <1>1, <2>1, <3>1, DeadlineAssumption DEF Breakers
    <2> QED
      BY <1>1, <1>3, <2>1, <2>2 DEF Gate!FirstProbe, GateMode, CooledDown
  <1>4. CASE breaker.state = "HALF_OPEN"
    <2>1. breaker'.state = "HALF_OPEN" /\ breaker.halfOpenProbes < HalfOpenMaxProbes
      BY <1>1, <1>4 DEF Available, AfterAllow, Breakers
    <2>2. Calling = probing /\ Cardinality(probing) <= breaker.halfOpenProbes
      BY <1>4 DEF IndInv, TypeOK, OnlyProbesRun, ProbesAccounted
    <2>3. Cardinality(Calling) < HalfOpenMaxProbes
      BY <1>1, <2>1, <2>2, CallsFinite DEF IndInv, Breakers
    <2>4. Gate!Cardinality(Calling) = Cardinality(Calling)
      BY Zenon DEF Gate!Cardinality, Cardinality
    <2> QED
      BY <1>1, <1>4, <2>1, <2>3, <2>4 DEF Gate!Probe, GateMode, CooledDown
  <1> QED
    BY <1>1, <1>2, <1>3, <1>4 DEF Breakers, BreakerStates

(* Trip and Reset are the gate's own, or change nothing. *)
LEMMA GateOverride ==
    ASSUME IndInv, (\E c \in Callers : Trip(c)) \/ Restore
    PROVE  Gate!Trip \/ Gate!Reset \/ UNCHANGED Gate!gvars
  <1>1. /\ breaker' \in {AfterTrip(breaker), AfterReset(breaker)}
        /\ breaker \in Breakers /\ Calling' = Calling
    BY DEF Trip, Restore, IndInv, TypeOK, Calling
  <1>2. CASE breaker' = breaker
    BY <1>1, <1>2 DEF Gate!gvars, GateMode, CooledDown
  <1>3. CASE breaker' # breaker
    <2>1. /\ breaker'.elapsed = 0
          /\ \/ breaker'.state = "OPEN" /\ breaker.state # "OPEN"
             \/ breaker'.state = "CLOSED" /\ breaker.state # "CLOSED"
      BY <1>1, <1>3 DEF AfterTrip, AfterReset, SetState
    <2> QED
      BY <1>1, <2>1, ConfigAssumption
      DEF Gate!Trip, Gate!Reset, GateMode, CooledDown, Breakers, BreakerStates
  <1> QED
    BY <1>2, <1>3

(* The gate sees of time only that an open breaker has cooled down. *)
LEMMA GateTick ==
    ASSUME IndInv, Tick
    PROVE  Gate!Rest \/ UNCHANGED Gate!gvars
  <1>1. /\ breaker' = AfterTick(breaker) /\ breaker \in Breakers
        /\ Calling' = Calling
    BY DEF Tick, IndInv, TypeOK, Calling
  <1>2. breaker'.state = breaker.state /\ breaker'.elapsed >= breaker.elapsed
    BY <1>1, ConfigAssumption DEF AfterTick, Breakers
  <1> QED
    BY <1>1, <1>2, ConfigAssumption, OpsTyped
    DEF Gate!Rest, Gate!gvars, GateMode, CooledDown, Breakers

(* The breaker with its counters, clock and racing callers implements the  *)
(* abstract gate, when every request deadline is below the cooldown.       *)
THEOREM Refinement ==
    ASSUME Deadline < Cooldown
    PROVE  Spec => ImplementsGate
  <1>1. Init => Gate!Init
    BY DEF Init, NewBreaker, SetState, Gate!Init, GateMode, CooledDown, Calling
  <1>2. IndInv /\ [Next]_vars => [Gate!Next]_(Gate!gvars)
    <2> SUFFICES ASSUME IndInv, [Next]_vars PROVE [Gate!Next]_(Gate!gvars)
      OBVIOUS
    <2>1. ASSUME NEW c \in Callers, Select(c) \/ Reject(c) \/ NoTrip(c)
          PROVE  UNCHANGED Gate!gvars
      BY <2>1
      DEF Select, Reject, NoTrip, Gate!gvars, GateMode, CooledDown, Calling,
          IndInv, TypeOK
    <2>2. ASSUME NEW c \in Callers, Caller(c) PROVE [Gate!Next]_(Gate!gvars)
      BY <2>1, <2>2, GateAllow, GateSucceed, GateFail, GateOverride
      DEF Caller, Gate!Next
    <2>3. CASE Restore
      BY <2>3, GateOverride DEF Gate!Next
    <2>4. CASE Tick
      BY <2>4, GateTick DEF Gate!Next
    <2>5. CASE UNCHANGED vars
      BY <2>5 DEF vars, Gate!gvars, GateMode, CooledDown, Calling
    <2> QED
      BY <2>2, <2>3, <2>4, <2>5 DEF Next
  <1> QED
    BY <1>1, <1>2, Inductive, PTL DEF Spec, Gate!Spec, ImplementsGate
=============================================================================
