------------------------------- MODULE Policy --------------------------------
(***************************************************************************)
(* policy.FromRequest: the constraints a request is handled under, from    *)
(* its risk level and the fields of its own policy, if it brings any.      *)
(* Money is counted in units of $0.00005, quality scores in percent.       *)
(***************************************************************************)
EXTENDS Integers

RiskLevels == {"LOW", "MEDIUM", "HIGH"}

NormalizeRisk(raw) == CASE raw \in {"high", "critical"} -> "HIGH"
                        [] raw \in {"medium", "med"} -> "MEDIUM"
                        [] OTHER -> "LOW"

DefaultPolicy(risk) ==
    CASE risk = "HIGH" ->
            [riskLevel |-> risk, maxLatencyMs |-> 1500, maxCost |-> 1000,
             minimumQualityScore |-> 85, allowLocalFallback |-> FALSE,
             requiresHumanOnFailure |-> TRUE, maxRetries |-> 1, idempotent |-> FALSE]
      [] risk = "MEDIUM" ->
            [riskLevel |-> risk, maxLatencyMs |-> 2000, maxCost |-> 400,
             minimumQualityScore |-> 80, allowLocalFallback |-> TRUE,
             requiresHumanOnFailure |-> FALSE, maxRetries |-> 1, idempotent |-> TRUE]
      [] risk = "LOW" ->
            [riskLevel |-> risk, maxLatencyMs |-> 3000, maxCost |-> 200,
             minimumQualityScore |-> 70, allowLocalFallback |-> TRUE,
             requiresHumanOnFailure |-> FALSE, maxRetries |-> 2, idempotent |-> TRUE]

(* req.policy is a function on the names of the fields the request sets. *)
FieldTypes == [maxLatencyMs |-> Int, maxCost |-> Int, minimumQualityScore |-> Int,
               allowLocalFallback |-> BOOLEAN, requiresHumanOnFailure |-> BOOLEAN,
               maxRetries |-> Int, idempotent |-> BOOLEAN]

IsRequestPolicy(policy) ==
    /\ DOMAIN policy \subseteq DOMAIN FieldTypes
    /\ \A field \in DOMAIN policy : policy[field] \in FieldTypes[field]

Override(default, policy) ==
    [field \in DOMAIN default |->
        IF field \in DOMAIN policy THEN policy[field] ELSE default[field]]

FromRequest(req) ==
    LET asked == Override(DefaultPolicy(NormalizeRisk(req.riskLevel)), req.policy)
    IN  [field \in DOMAIN asked |->
            IF field = "maxLatencyMs" /\ asked[field] <= 0 THEN 3000
            ELSE IF field \in {"maxRetries", "minimumQualityScore"} /\ asked[field] < 0
                 THEN 0 ELSE asked[field]]

(* What every policy the handler meets satisfies. *)
Policies == [riskLevel : RiskLevels,
             maxLatencyMs : Nat \ {0},
             maxCost : Int,                \* no limit unless positive
             minimumQualityScore : Nat,
             allowLocalFallback : BOOLEAN,
             requiresHumanOnFailure : BOOLEAN,
             maxRetries : Nat,
             idempotent : BOOLEAN]
=============================================================================
