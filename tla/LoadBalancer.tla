---------------------------- MODULE LoadBalancer -----------------------------
(***************************************************************************)
(* signalmesh-lb: LoadBalancer.ServeHTTP, run concurrently for every       *)
(* client's request, and the nodes behind it, which are killed, drained    *)
(* and restarted meanwhile.                                                *)
(*                                                                         *)
(* A node's handler is one step, Act: what it does then, a provider call   *)
(* say, stays done whatever becomes of the connection.  Its answer, of any *)
(* status, is forwarded as it is.  A node that is down refuses at once,    *)
(* and one that dies breaks its connections at once.                       *)
(*                                                                         *)
(* A request whose body cannot be read is answered 400 without a trace     *)
(* here: neither the counter nor a backend has been touched.               *)
(*                                                                         *)
(* The counter is taken modulo the number of backends: it would have to    *)
(* pass 2^64 for that to matter.  There is no clock: the client's timeout  *)
(* may end an attempt in flight at any moment.                             *)
(***************************************************************************)
EXTENDS Integers, FiniteSets

CONSTANTS
    Clients,
    N         \* number of backends

Backends == 0 .. N - 1

ASSUME BalancerAssumption == IsFiniteSet(Clients) /\ N \in Nat \ {0}

VARIABLES
    current,   \* the round-robin counter
    up,        \* whether each backend accepts connections
    req,       \* each client's request at the balancer
    hist       \* history of that request, for the properties

vars == <<current, up, req, hist>>

NoRequest == [at |-> "idle", backend |-> 0, tries |-> 0, gone |-> FALSE]

(* Backends it tried and backends other requests drew meanwhile; how many  *)
(* handlers acted (counted up to two); whether an attempt was lost.        *)
NoHistory == [tried |-> {}, others |-> {}, acts |-> 0, lost |-> FALSE]

Init ==
    /\ current = 0
    /\ up = [b \in Backends |-> TRUE]
    /\ req = [c \in Clients |-> NoRequest]
    /\ hist = [c \in Clients |-> NoHistory]

-----------------------------------------------------------------------------
InFlight(c) == req[c].at \in {"sent", "acted"}

Done(c) ==
    /\ req' = [req EXCEPT ![c] = NoRequest]
    /\ hist' = [hist EXCEPT ![c] = NoHistory]

(* client.Do failed: the loop goes on. *)
Failed(S) == [c \in Clients |->
    IF c \in S THEN [req[c] EXCEPT !.at = "trying"] ELSE req[c]]

Lost(S) == [c \in Clients |->
    IF c \in S THEN [hist[c] EXCEPT !.lost = TRUE] ELSE hist[c]]

Arrive(c) ==
    /\ req[c].at = "idle"
    /\ req' = [req EXCEPT ![c].at = "trying"]
    /\ UNCHANGED <<current, up, hist>>

(* Slip: one round too many. *)
Attempts_OneMore == N + 1
Attempts == N

(* lb.next modulo the number of backends: the counter is advanced and read *)
(* in one atomic step.                                                     *)
Following(b) == IF b = N - 1 THEN 0 ELSE b + 1

Dial(c, b) ==
    /\ req[c].at = "trying"
    /\ req[c].tries < Attempts
    /\ req' = [req EXCEPT ![c].at = "dialing", ![c].backend = b, ![c].tries = @ + 1]
    /\ hist' = [d \in Clients |->
          IF d = c THEN [hist[d] EXCEPT !.tried = @ \cup {b}]
          ELSE IF req[d].at # "idle"
               THEN [hist[d] EXCEPT !.others = @ \cup {b}] ELSE hist[d]]

(* Slip: the backend is chosen once, before the loop. *)
Pick_Once(c) ==
    /\ current' = IF req[c].tries = 0 THEN Following(current) ELSE current
    /\ Dial(c, IF req[c].tries = 0 THEN current' ELSE req[c].backend)
    /\ UNCHANGED up

Pick(c) ==
    /\ current' = Following(current)
    /\ Dial(c, current')
    /\ UNCHANGED up

Connect(c) ==
    /\ req[c].at = "dialing" /\ up[req[c].backend] /\ ~req[c].gone
    /\ req' = [req EXCEPT ![c].at = "sent"]
    /\ UNCHANGED <<current, up, hist>>

(* Slip: a refused connection is not counted as an attempt. *)
Refuse_Uncounted(c) ==
    /\ req[c].at = "dialing"
    /\ req' = [req EXCEPT ![c].at = "trying", ![c].tries = @ - 1]
    /\ UNCHANGED <<current, up, hist>>

(* The request cannot be built for this backend, the backend refuses or    *)
(* does not accept in time, or the client's context ends the dial.         *)
Refuse(c) ==
    /\ req[c].at = "dialing"
    /\ req' = Failed({c})
    /\ UNCHANGED <<current, up, hist>>

Act(c) ==
    /\ req[c].at = "sent"
    /\ req' = [req EXCEPT ![c].at = "acted"]
    /\ hist' = [hist EXCEPT ![c].acts = IF @ < 2 THEN @ + 1 ELSE @]
    /\ UNCHANGED <<current, up>>

(* Slip: an error status makes the balancer try the next backend. *)
Respond_RetryErrors(c) ==
    /\ req[c].at = "acted"
    /\ \/ Done(c)
       \/ req' = Failed({c}) /\ UNCHANGED hist
    /\ UNCHANGED <<current, up>>

(* The node answers, and ServeHTTP writes its answer and returns. *)
Respond(c) ==
    /\ req[c].at = "acted"
    /\ Done(c)
    /\ UNCHANGED <<current, up>>

(* The client's Timeout: the connection is closed, which cancels the       *)
(* node's handler.                                                         *)
TimeOut(c) ==
    /\ InFlight(c)
    /\ req' = Failed({c})
    /\ hist' = Lost({c})
    /\ UNCHANGED <<current, up>>

(* 502, all backends unavailable. *)
GiveUp(c) ==
    /\ req[c].at = "trying" /\ req[c].tries = Attempts
    /\ Done(c)
    /\ UNCHANGED <<current, up>>

(* The client disconnects: its context ends this attempt, and the loop     *)
(* takes its turns of the counter in vain.                                 *)
Leave(c) ==
    /\ req[c].at # "idle" /\ ~req[c].gone
    /\ req' = [req EXCEPT ![c].gone = TRUE,
                          ![c].at = IF InFlight(c) THEN "trying" ELSE @]
    /\ hist' = IF InFlight(c) THEN Lost({c}) ELSE hist
    /\ UNCHANGED <<current, up>>

AtBackend(b) == {c \in Clients : InFlight(c) /\ req[c].backend = b}

Kill(b) ==
    /\ up[b] \/ AtBackend(b) # {}
    /\ up' = [up EXCEPT ![b] = FALSE]
    /\ req' = Failed(AtBackend(b))
    /\ hist' = Lost(AtBackend(b))
    /\ UNCHANGED current

(* SIGTERM: srv.Shutdown refuses connections and lets handlers finish. *)
Shutdown(b) ==
    /\ up[b]
    /\ up' = [up EXCEPT ![b] = FALSE]
    /\ UNCHANGED <<current, req, hist>>

Restart(b) ==
    /\ ~up[b] /\ AtBackend(b) = {}
    /\ up' = [up EXCEPT ![b] = TRUE]
    /\ UNCHANGED <<current, req, hist>>

(* ServeHTTP's own steps.  A node owes no answer, the timeout ends the     *)
(* wait for it.                                                            *)
Serve(c) == \/ Pick(c) \/ Connect(c) \/ Refuse(c) \/ Respond(c)
            \/ TimeOut(c) \/ GiveUp(c)

Next ==
    \/ \E c \in Clients : Arrive(c) \/ Serve(c) \/ Act(c) \/ Leave(c)
    \/ \E b \in Backends : Kill(b) \/ Shutdown(b) \/ Restart(b)

Spec == Init /\ [][Next]_vars

(* Goroutines of ServeHTTP run, and timeouts end. *)
FairSpec == Spec /\ \A c \in Clients : WF_vars(Serve(c))

-----------------------------------------------------------------------------
RequestStates == [at : {"idle", "trying", "dialing", "sent", "acted"},
                  backend : Backends, tries : 0 .. N, gone : BOOLEAN]
Histories == [tried : SUBSET Backends, others : SUBSET Backends,
              acts : 0 .. 2, lost : BOOLEAN]

TypeOK ==
    /\ current \in Backends
    /\ up \in [Backends -> BOOLEAN]
    /\ req \in [Clients -> RequestStates]
    /\ hist \in [Clients -> Histories]

(* "It retries the next backend on connection errors" (main.go): requests  *)
(* share the counter, so one may come back to a backend it has tried and   *)
(* be answered 502 although another is alive; but a backend it missed has  *)
(* served as another request's turn meanwhile, and a request that is alone *)
(* reaches every backend.                                                  *)
MissedWentToOthers == \A c \in Clients :
    req[c].tries = N => Backends \ hist[c].tried \subseteq hist[c].others

(* A second node handles a request only if the connection to an earlier    *)
(* one was lost in flight: no answer, of whatever status, is retried.      *)
RedoneOnlyIfLost == \A c \in Clients : hist[c].acts > 1 => hist[c].lost

(* Whatever nodes and other clients do, ServeHTTP returns. *)
Served == \A c \in Clients : req[c].at # "idle" ~> req[c].at = "idle"

(* "We treat timeout on non-idempotent high-risk work as unknown state and *)
(* do not blindly retry" (judge-qa.md): no request is handled by two       *)
(* nodes.  The balancer does not look at the risk of what it resends.      *)
NotRedone == \A c \in Clients : hist[c].acts <= 1
=============================================================================
