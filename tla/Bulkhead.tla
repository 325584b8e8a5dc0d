------------------------------ MODULE Bulkhead ------------------------------
(***************************************************************************)
(* What admission control promises one traffic class, whatever the other   *)
(* classes do: at most Concurrency requests are inside, and a request that *)
(* has not run out of time is refused only if it found every slot of its   *)
(* own bulkhead taken and then MaxQueue others of its class in the queue.  *)
(* A request that looked and found a place may join later, when there is   *)
(* none left.                                                              *)
(***************************************************************************)
EXTENDS Naturals, FiniteSets

CONSTANTS Requests, Concurrency, MaxQueue

VARIABLES
    status,   \* "new", "full" (found no free slot), "waiting", "in", "out", "refused"
    queue,    \* requests counted as waiting
    expired   \* requests whose context is done

bvars == <<status, queue, expired>>

Inside == {r \in Requests : status[r] = "in"}

Init == status = [r \in Requests |-> "new"] /\ queue = {} /\ expired = {}

Become(r, s) == status' = [status EXCEPT ![r] = s] /\ UNCHANGED expired

Enter(r) == /\ status[r] \in {"new", "waiting"}
            /\ Cardinality(Inside) < Concurrency
            /\ Become(r, "in") /\ UNCHANGED queue

FindFull(r) == /\ status[r] = "new"
               /\ Cardinality(Inside) = Concurrency
               /\ Become(r, "full") /\ UNCHANGED queue

Join(r) == status[r] = "full" /\ Become(r, "waiting") /\ queue' = queue \cup {r}

Refuse(r) == /\ \/ status[r] \in {"new", "waiting"} /\ r \in expired
                \/ status[r] = "full" /\ Cardinality(queue) >= MaxQueue
             /\ Become(r, "refused") /\ UNCHANGED queue

(* A request that got in or gave up is counted until it leaves the queue.  *)
Depart(r) == /\ r \in queue /\ status[r] # "waiting"
             /\ queue' = queue \ {r} /\ UNCHANGED <<status, expired>>

Leave(r) == status[r] = "in" /\ Become(r, "out") /\ UNCHANGED queue

Expire(r) == expired' = expired \cup {r} /\ UNCHANGED <<status, queue>>

Next == \E r \in Requests :
            \/ Enter(r) \/ FindFull(r) \/ Join(r) \/ Refuse(r) \/ Depart(r)
            \/ Leave(r) \/ Expire(r)

Spec == Init /\ [][Next]_bvars
=============================================================================
