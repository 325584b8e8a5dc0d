--------------------------- MODULE MCClusterStore ----------------------------
(* A node and one peer.  The order in which observations replace another   *)
(* does not depend on their verdicts, so one is enough for it.             *)
EXTENDS ClusterStore

OnePeer == {"peer"}
OneVerdict == {"UNKNOWN"}
Verdicts == {"UNKNOWN", "HEALTHY", "UNHEALTHY"}
=============================================================================
