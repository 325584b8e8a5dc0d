--------------------------- MODULE MCRequestPath ----------------------------
(* Clients and their requests for the runs of RequestPath. *)
EXTENDS RequestPath

NoPolicy == <<>>
Asking(risk, task, policy) == [riskLevel |-> risk, taskType |-> task, policy |-> policy]

(* Two clients of one agent that send the same text at different risk, the *)
(* first with the fallback allowed and retried, the second not retried;    *)
(* and the other way round.                                                *)
HighAndMediumClients == {"h", "m"}
HighAndMedium == [h |-> Asking("high", "financial", [allowLocalFallback |-> TRUE]),
                  m |-> Asking("medium", "qa", [maxRetries |-> 0])]
OnceAndMedium == [h |-> Asking("high", "financial",
                               [allowLocalFallback |-> TRUE, maxRetries |-> 0]),
                  m |-> Asking("medium", "qa", NoPolicy)]

(* A client that leaves its policy to the defaults of medium risk, which   *)
(* let it use the fallback.                                                *)
MediumClient == {"m"}
MediumByDefault == [m |-> Asking("medium", "qa", NoPolicy)]

SameText == [r \in {"h", "m"} |-> "f"]
SameAgent == [r \in {"h", "m"} |-> "a"]

(* The limit of the budget-exhaustion scenario: half a primary call. *)
HalfACall == {1}
Unchanged == {}
=============================================================================
