---------------------------- MODULE MCChaosEngine -----------------------------
(* Two engines; a scenario of each kind of effect, and a misspelt one. *)
EXTENDS ChaosEngine

TwoNodes == {"a", "b"}
OneNode == {"a"}
EachEffect == {"provider-outage", "node-failure", "traffic-spike", "agent-loop", "node-failur"}
Misspelt == {"node-failure", "node-failur"}
NoInjection == {}
OneInjection == {"slow"}
=============================================================================
