----------------------------- MODULE BreakerOps -----------------------------
(***************************************************************************)
(* The methods of circuitbreaker.Breaker as operators on a breaker value.  *)
(* Every method runs under the breaker's mutex, so one operator is one     *)
(* atomic step.  The clock reading now.Sub(lastStateChange) is the field   *)
(* "elapsed", in ticks.  The code reads it only while OPEN and compares it *)
(* only with Cooldown, so it advances only then and saturates there.       *)
(***************************************************************************)
EXTENDS Naturals

CONSTANTS
    FailureThreshold,         \* consecutive failures that open a closed breaker
    Cooldown,                 \* ticks an open breaker refuses calls
    HalfOpenSuccessThreshold, \* successes that close a half-open breaker
    HalfOpenMaxProbes         \* calls a half-open breaker lets through

(* New() replaces every non-positive setting by a positive default. *)
ASSUME ConfigAssumption ==
    /\ FailureThreshold \in Nat \ {0}
    /\ Cooldown \in Nat \ {0}
    /\ HalfOpenSuccessThreshold \in Nat \ {0}
    /\ HalfOpenMaxProbes \in Nat \ {0}

(* New() does not enforce this; a half-open breaker that needs more        *)
(* successes than it lets probes through could never close.                *)
ASSUME ProbesCanClose == HalfOpenSuccessThreshold <= HalfOpenMaxProbes

BreakerStates == {"CLOSED", "OPEN", "HALF_OPEN"}

Breakers == [state : BreakerStates,
             failures : 0 .. FailureThreshold,
             successes : 0 .. HalfOpenSuccessThreshold,
             halfOpenProbes : 0 .. HalfOpenMaxProbes,
             elapsed : 0 .. Cooldown]

(* setState: every change of state restarts the clock and the counters. *)
SetState(s) == [state |-> s, failures |-> 0, successes |-> 0,
                halfOpenProbes |-> 0, elapsed |-> 0]

NewBreaker == SetState("CLOSED")

(* Plausible slips in the methods below, for checking that the properties  *)
(* of the modules that use them would notice.                              *)
Available_NoCooldown(b) ==
    b.state = "HALF_OPEN" => b.halfOpenProbes < HalfOpenMaxProbes

Available_OneMore(b) ==
    \/ b.state = "CLOSED"
    \/ b.state = "OPEN" /\ b.elapsed >= Cooldown
    \/ b.state = "HALF_OPEN" /\ b.halfOpenProbes <= HalfOpenMaxProbes

AfterAllow_FreeProbe(b) ==
    IF b.state = "OPEN"
    THEN [SetState("HALF_OPEN") EXCEPT !.halfOpenProbes = 1] ELSE b

AfterSuccess_Uncounted(b) ==
    CASE b.state = "CLOSED" -> [b EXCEPT !.failures = 0]
      [] b.state = "HALF_OPEN" /\ b.successes + 1 >= HalfOpenSuccessThreshold
            -> SetState("CLOSED")
      [] OTHER -> b

AfterFailure_ClosedOnly(b) ==
    IF b.state # "CLOSED" THEN b
    ELSE IF b.failures + 1 >= FailureThreshold THEN SetState("OPEN")
    ELSE [b EXCEPT !.failures = @ + 1]

-----------------------------------------------------------------------------
Available(b) ==
    \/ b.state = "CLOSED"
    \/ b.state = "OPEN" /\ b.elapsed >= Cooldown
    \/ b.state = "HALF_OPEN" /\ b.halfOpenProbes < HalfOpenMaxProbes

(* Allow returns true exactly when Available does, and then has this effect. *)
AfterAllow(b) ==
    CASE b.state = "CLOSED" -> b
      [] b.state = "OPEN" -> [SetState("HALF_OPEN") EXCEPT !.halfOpenProbes = 1]
      [] b.state = "HALF_OPEN" -> [b EXCEPT !.halfOpenProbes = @ + 1]

AfterSuccess(b) ==
    CASE b.state = "CLOSED" -> [b EXCEPT !.failures = 0]
      [] b.state = "OPEN" -> b
      [] b.state = "HALF_OPEN" ->
            IF b.successes + 1 >= HalfOpenSuccessThreshold
            THEN SetState("CLOSED")
            ELSE [b EXCEPT !.successes = @ + 1]

AfterFailure(b) ==
    CASE b.state = "CLOSED" ->
            IF b.failures + 1 >= FailureThreshold
            THEN SetState("OPEN")
            ELSE [b EXCEPT !.failures = @ + 1]
      [] b.state = "OPEN" -> b
      [] b.state = "HALF_OPEN" -> SetState("OPEN")

AfterReset(b) == IF b.state # "CLOSED" THEN SetState("CLOSED") ELSE b

(* Tripping an open breaker does not extend its cooldown. *)
AfterTrip(b) == IF b.state # "OPEN" THEN SetState("OPEN") ELSE b

AfterTick(b) ==
    IF b.state = "OPEN" /\ b.elapsed < Cooldown
    THEN [b EXCEPT !.elapsed = @ + 1] ELSE b
=============================================================================
