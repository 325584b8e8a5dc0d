--------------------------- MODULE MCLoadBalancer ----------------------------
(* Two clients whose requests share the counter. *)
EXTENDS LoadBalancer

TwoClients == {"c", "d"}
OneClient == {"c"}
=============================================================================
