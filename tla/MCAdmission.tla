---------------------------- MODULE MCAdmission -----------------------------
(* Requests, classes and capacities for the runs of Admission. *)
EXTENDS Admission

(* Three critical requests compete for one slot beside another class. *)
MostlyCritical == [c1 |-> "CRITICAL", c2 |-> "CRITICAL", c3 |-> "CRITICAL",
                   n1 |-> "NORMAL"]
MostlyCriticalRequests == DOMAIN MostlyCritical

(* Three sheddable requests compete for one slot and one place in a queue. *)
Normals == [n1 |-> "NORMAL", n2 |-> "NORMAL", n3 |-> "NORMAL"]
NormalsRequests == DOMAIN Normals

OnePerClass == [c \in Classes |-> 1]
=============================================================================
