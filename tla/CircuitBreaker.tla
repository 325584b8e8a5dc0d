--------------------------- MODULE CircuitBreaker ---------------------------
(***************************************************************************)
(* One provider's circuit breaker and the request goroutines that use it.  *)
(*                                                                         *)
(* A caller does what proxy.Handler.HandleChat does with router entry e:   *)
(*   router.Select reads e.Breaker.Available()         (Select)            *)
(*   HandleChat calls e.Breaker.Allow()                (Allow, Reject)     *)
(*   e.Provider.Generate(ctx) runs without any lock    (pc = "calling")    *)
(*   RecordSuccess / RecordFailure                     (Succeed, Fail)     *)
(*   handleFailure, which trips on a detected loop     (Trip, NoTrip)      *)
(* Restore is the chaos engine's restore hook resetting the breaker.       *)
(*                                                                         *)
(* Each step is atomic because the breaker's mutex makes it so, and the    *)
(* steps of different callers interleave freely.  A call ends no later     *)
(* than its context deadline, so time does not pass while a call is at it. *)
(***************************************************************************)
EXTENDS BreakerOps, FiniteSets

CONSTANTS
    Callers,   \* request goroutines
    Deadline   \* ticks a call may spend at the provider

ASSUME CallersAssumption == IsFiniteSet(Callers)
ASSUME DeadlineAssumption == Deadline \in Nat \ {0}

VARIABLES
    breaker,   \* the Breaker's fields
    pc,        \* where each caller is
    age,       \* ticks since the caller's call was allowed
    probing    \* history: calls allowed since the breaker became half-open

vars == <<breaker, pc, age, probing>>

Calling == {c \in Callers : pc[c] = "calling"}

Init ==
    /\ breaker = NewBreaker
    /\ pc = [c \in Callers |-> "idle"]
    /\ age = [c \in Callers |-> 0]
    /\ probing = {}

-----------------------------------------------------------------------------
(* A result leaves the set of probes; leaving HALF_OPEN empties it. *)
Probing(kept) == IF breaker'.state = "HALF_OPEN" THEN kept ELSE {}

Select(c) ==
    /\ pc[c] = "idle"
    /\ Available(breaker)
    /\ pc' = [pc EXCEPT ![c] = "selected"]
    /\ UNCHANGED <<breaker, age, probing>>

Allow(c) ==
    /\ pc[c] = "selected"
    /\ Available(breaker)
    /\ breaker' = AfterAllow(breaker)
    /\ pc' = [pc EXCEPT ![c] = "calling"]
    /\ age' = [age EXCEPT ![c] = 0]
    /\ probing' = Probing(probing \cup {c})

(* Allow() returned false although Available() had returned true. *)
Reject(c) ==
    /\ pc[c] = "selected"
    /\ ~Available(breaker)
    /\ pc' = [pc EXCEPT ![c] = "failed"]
    /\ UNCHANGED <<breaker, age, probing>>

Succeed(c) ==
    /\ pc[c] = "calling"
    /\ breaker' = AfterSuccess(breaker)
    /\ pc' = [pc EXCEPT ![c] = "idle"]
    /\ probing' = Probing(probing \ {c})
    /\ UNCHANGED age

Fail(c) ==
    /\ pc[c] = "calling"
    /\ breaker' = AfterFailure(breaker)
    /\ pc' = [pc EXCEPT ![c] = "failed"]
    /\ probing' = Probing(probing \ {c})
    /\ UNCHANGED age

(* handleFailure runs after RecordFailure released the mutex. *)
Trip(c) ==
    /\ pc[c] = "failed"
    /\ breaker' = AfterTrip(breaker)
    /\ pc' = [pc EXCEPT ![c] = "idle"]
    /\ probing' = Probing(probing)
    /\ UNCHANGED age

NoTrip(c) ==
    /\ pc[c] = "failed"
    /\ pc' = [pc EXCEPT ![c] = "idle"]
    /\ UNCHANGED <<breaker, age, probing>>

Restore ==
    /\ breaker' = AfterReset(breaker)
    /\ probing' = Probing(probing)
    /\ UNCHANGED <<pc, age>>

Tick ==
    /\ \A c \in Calling : age[c] < Deadline
    /\ breaker' = AfterTick(breaker)
    /\ age' = [c \in Callers |-> IF c \in Calling THEN age[c] + 1 ELSE age[c]]
    /\ UNCHANGED <<pc, probing>>

Caller(c) ==
    \/ Select(c) \/ Allow(c) \/ Reject(c)
    \/ Succeed(c) \/ Fail(c) \/ Trip(c) \/ NoTrip(c)

Next == (\E c \in Callers : Caller(c)) \/ Restore \/ Tick

Spec == Init /\ [][Next]_vars

(* Time passes, and a provider call ends: Generate honours its context. *)
Fairness ==
    /\ WF_vars(Tick)
    /\ \A c \in Callers : WF_vars(Succeed(c) \/ Fail(c))

FairSpec == Spec /\ Fairness

-----------------------------------------------------------------------------
TypeOK ==
    /\ breaker \in Breakers
    /\ pc \in [Callers -> {"idle", "selected", "calling", "failed"}]
    /\ age \in [Callers -> 0 .. Deadline]
    /\ probing \subseteq Calling

(* Half-open bookkeeping: every probe handed out is still at the provider  *)
(* or has been counted as a success, and the counters are below the limit  *)
(* at which the breaker would have closed.                                 *)
ProbesAccounted ==
    IF breaker.state = "HALF_OPEN"
    THEN /\ Cardinality(probing) <= breaker.halfOpenProbes
         /\ breaker.halfOpenProbes <= Cardinality(probing) + breaker.successes
         /\ breaker.successes < HalfOpenSuccessThreshold
    ELSE probing = {}

(* An open breaker has been open no longer than any call still running has *)
(* been running: nothing was let through after it opened.                  *)
NothingEnteredSinceOpen ==
    breaker.state = "OPEN" => \A c \in Calling : breaker.elapsed <= age[c]

(* Every call running while half-open is a probe, when calls are shorter   *)
(* than the cooldown.                                                      *)
OnlyProbesRun ==
    (Deadline < Cooldown /\ breaker.state = "HALF_OPEN") => Calling \subseteq probing

IndInv == TypeOK /\ ProbesAccounted /\ NothingEnteredSinceOpen /\ OnlyProbesRun

(* A half-open breaker that refuses calls is waiting for an answer: some   *)
(* probe is still at the provider, so the breaker can leave HALF_OPEN.     *)
(* Breaker.Allow consumes a probe that only RecordSuccess or RecordFailure *)
(* gives back, on whichever of the interleaved calls they land.            *)
NoWedge ==
    (breaker.state = "HALF_OPEN" /\ ~Available(breaker)) => probing # {}

(* While half-open the provider sees at most HalfOpenMaxProbes calls, and  *)
(* no straggler allowed before the breaker opened can decide its fate, as  *)
(* long as request deadlines stay below the cooldown.                      *)
HalfOpenIsolated ==
    (Deadline < Cooldown /\ breaker.state = "HALF_OPEN") =>
        /\ Calling = probing
        /\ Cardinality(Calling) <= HalfOpenMaxProbes

(* The breaker implements the abstract gate. *)
GateMode == CASE breaker.state = "CLOSED" -> "closed"
              [] breaker.state = "OPEN" -> "open"
              [] breaker.state = "HALF_OPEN" -> "half"

CooledDown == breaker.state = "OPEN" /\ breaker.elapsed >= Cooldown

Gate == INSTANCE ProviderGate WITH
    MaxProbes <- HalfOpenMaxProbes,
    mode <- GateMode, calls <- Calling, rested <- CooledDown

(* Behaviours of the breaker and its callers are behaviours of the gate,   *)
(* when request deadlines stay below the cooldown.                         *)
ImplementsGate == Gate!Spec

(* An unavailable provider is eventually offered again: neither trips in   *)
(* OPEN nor stragglers can keep extending the outage.                      *)
Recovers == ~Available(breaker) ~> Available(breaker)
=============================================================================
