--------------------------- MODULE MCHealthRouting ---------------------------
(* Two nodes; requests of each risk, one without a cost limit, one whose   *)
(* latency budget a sluggish primary misses, and one whose budget even the *)
(* local provider misses.                                                  *)
EXTENDS HealthRouting

TwoNodes == {"a", "b"}
Asking(risk, policy) == [riskLevel |-> risk, policy |-> policy]
EachKind == {"high", "medium", "low", "unlimited", "hurried", "instant"}
Kinds == [high |-> Asking("high", <<>>), medium |-> Asking("medium", <<>>),
          low |-> Asking("low", <<>>),
          unlimited |-> Asking("low", [maxCost |-> 0]),
          hurried |-> Asking("low", [maxLatencyMs |-> 500]),
          instant |-> Asking("low", [maxLatencyMs |-> 10])]
=============================================================================
