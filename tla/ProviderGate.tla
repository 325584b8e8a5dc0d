---------------------------- MODULE ProviderGate ----------------------------
(***************************************************************************)
(* What a circuit breaker promises the provider behind it, without         *)
(* counters or clocks.  While the gate is open nothing enters.  It is      *)
(* tried again only after it has rested and when no call is left inside;   *)
(* a half-open gate never has more than MaxProbes calls inside, and any    *)
(* one of them failing shuts it again.                                     *)
(***************************************************************************)
EXTENDS Naturals, FiniteSets

CONSTANTS Callers, MaxProbes

VARIABLES
    mode,    \* "closed" (traffic flows), "open" (no traffic), "half" (probing)
    calls,   \* callers with a call at the provider
    rested   \* an open gate has waited out its cooldown

gvars == <<mode, calls, rested>>

Init == mode = "closed" /\ calls = {} /\ rested = FALSE

Enter(c) ==
    /\ mode = "closed" /\ c \notin calls
    /\ calls' = calls \cup {c}
    /\ UNCHANGED <<mode, rested>>

FirstProbe(c) ==
    /\ mode = "open" /\ rested /\ calls = {}
    /\ mode' = "half" /\ rested' = FALSE
    /\ calls' = {c}

Probe(c) ==
    /\ mode = "half" /\ c \notin calls
    /\ Cardinality(calls) < MaxProbes
    /\ calls' = calls \cup {c}
    /\ UNCHANGED <<mode, rested>>

Succeed(c) ==
    /\ c \in calls
    /\ calls' = calls \ {c}
    /\ \/ mode' = mode
       \/ mode = "half" /\ mode' = "closed"
    /\ UNCHANGED rested

Fail(c) ==
    /\ c \in calls
    /\ calls' = calls \ {c}
    /\ \/ mode # "half" /\ UNCHANGED <<mode, rested>>
       \/ mode # "open" /\ mode' = "open" /\ rested' = FALSE

Trip == mode # "open" /\ mode' = "open" /\ rested' = FALSE /\ UNCHANGED calls

Reset == mode # "closed" /\ mode' = "closed" /\ rested' = FALSE /\ UNCHANGED calls

Rest == mode = "open" /\ ~rested /\ rested' = TRUE /\ UNCHANGED <<mode, calls>>

Next ==
    \/ \E c \in Callers : \/ Enter(c) \/ FirstProbe(c) \/ Probe(c)
                          \/ Succeed(c) \/ Fail(c)
    \/ Trip \/ Reset \/ Rest

Spec == Init /\ [][Next]_gvars
=============================================================================
