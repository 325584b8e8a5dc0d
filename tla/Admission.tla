----------------------------- MODULE Admission ------------------------------
(***************************************************************************)
(* admission.Manager: a counting semaphore (a buffered Go channel) per     *)
(* traffic class, a waiter count per class and node-wide counters.         *)
(*                                                                         *)
(* Every request goroutine runs Acquire, the handler, then Release.  The   *)
(* manager holds no lock across Acquire: each atomic load or add that      *)
(* another goroutine's decision depends on is a step of its own, and so is *)
(* each channel operation.  The statistics admitted, dropped and           *)
(* totalDropped, read by Status() only, are updated in the step they       *)
(* belong to.                                                              *)
(***************************************************************************)
EXTENDS Naturals, FiniteSets

CONSTANTS
    Requests,
    ClassOf,       \* traffic class of each request
    Concurrency,   \* capacity of each class's semaphore
    MaxQueue,      \* waiters each class admits
    GlobalMax      \* active requests above which other classes are shed; 0: off

Classes == {"CRITICAL", "NORMAL", "BACKGROUND"}

ASSUME RequestsAssumption == IsFiniteSet(Requests) /\ ClassOf \in [Requests -> Classes]
(* normalizeConfig *)
ASSUME CapacityAssumption ==
    /\ Concurrency \in [Classes -> Nat \ {0}]
    /\ MaxQueue \in [Classes -> Nat]
    /\ GlobalMax \in Nat

VARIABLES
    pc,            \* where each request is in Acquire and Release
    ctxDone,       \* requests whose context expired or was canceled
    sem,           \* tokens in each class's channel
    waiters,       \* each class's waiter count
    admitted, dropped, totalDropped,
    totalActive    \* admitted requests, node-wide

vars == <<pc, ctxDone, sem, waiters, admitted, dropped, totalDropped, totalActive>>

Locations == {"arrive", "passed", "try", "full", "room", "waiting", "leaving",
              "granted", "dequeued", "served", "active", "released",
              "done", "refused"}

Init ==
    /\ pc = [r \in Requests |-> "arrive"]
    /\ ctxDone = {}
    /\ sem = [c \in Classes |-> 0]
    /\ waiters = [c \in Classes |-> 0]
    /\ admitted = [c \in Classes |-> 0]
    /\ dropped = [c \in Classes |-> 0]
    /\ totalDropped = 0
    /\ totalActive = 0

-----------------------------------------------------------------------------
GoTo(r, l) == pc' = [pc EXCEPT ![r] = l]

Drop(r) ==
    /\ dropped' = [dropped EXCEPT ![ClassOf[r]] = @ + 1]
    /\ totalDropped' = totalDropped + 1
    /\ GoTo(r, "refused")

(* A slip: the gate forgets to exempt critical traffic. *)
Overloaded_AllClasses(r) == GlobalMax > 0 /\ totalActive >= GlobalMax

Overloaded(r) ==
    /\ GlobalMax > 0
    /\ ClassOf[r] # "CRITICAL"
    /\ totalActive >= GlobalMax

Shed(r) ==
    /\ pc[r] = "arrive"
    /\ Overloaded(r)
    /\ Drop(r)
    /\ UNCHANGED <<ctxDone, sem, waiters, admitted, totalActive>>

PassGate(r) ==
    /\ pc[r] = "arrive"
    /\ ~Overloaded(r)
    /\ GoTo(r, "passed")
    /\ UNCHANGED <<ctxDone, sem, waiters, admitted, dropped, totalDropped, totalActive>>

(* ctx.Err() is read once; a context that ends afterwards is not noticed. *)
CheckContext(r) ==
    /\ pc[r] = "passed"
    /\ GoTo(r, IF r \in ctxDone THEN "refused" ELSE "try")
    /\ UNCHANGED <<ctxDone, sem, waiters, admitted, dropped, totalDropped, totalActive>>

TakeSlot(r) ==
    /\ sem[ClassOf[r]] < Concurrency[ClassOf[r]]
    /\ sem' = [sem EXCEPT ![ClassOf[r]] = @ + 1]

AdmitAtOnce(r) ==
    /\ pc[r] = "try"
    /\ TakeSlot(r)
    /\ GoTo(r, "granted")
    /\ UNCHANGED <<ctxDone, waiters, admitted, dropped, totalDropped, totalActive>>

NoSlot(r) ==
    /\ pc[r] = "try"
    /\ sem[ClassOf[r]] = Concurrency[ClassOf[r]]
    /\ GoTo(r, "full")
    /\ UNCHANGED <<ctxDone, sem, waiters, admitted, dropped, totalDropped, totalActive>>

RejectQueueFull(r) ==
    /\ pc[r] = "full"
    /\ waiters[ClassOf[r]] >= MaxQueue[ClassOf[r]]
    /\ Drop(r)
    /\ UNCHANGED <<ctxDone, sem, waiters, admitted, totalActive>>

SeeRoom(r) ==
    /\ pc[r] = "full"
    /\ waiters[ClassOf[r]] < MaxQueue[ClassOf[r]]
    /\ GoTo(r, "room")
    /\ UNCHANGED <<ctxDone, sem, waiters, admitted, dropped, totalDropped, totalActive>>

Enqueue(r) ==
    /\ pc[r] = "room"
    /\ waiters' = [waiters EXCEPT ![ClassOf[r]] = @ + 1]
    /\ GoTo(r, "waiting")
    /\ UNCHANGED <<ctxDone, sem, admitted, dropped, totalDropped, totalActive>>

(* Plausible slips in the steps below: a wait that timed out reported as   *)
(* admitted; the waiter count lowered only on the way in; the node-wide    *)
(* count never lowered.                                                    *)
GiveUp_Admits(r) ==
    /\ pc[r] = "waiting"
    /\ r \in ctxDone
    /\ GoTo(r, "served")
    /\ UNCHANGED <<ctxDone, sem, waiters, admitted, dropped, totalDropped, totalActive>>

LeaveQueue_ServedOnly(r) ==
    /\ pc[r] \in {"served", "leaving"}
    /\ waiters' = [waiters EXCEPT ![ClassOf[r]] = IF pc[r] = "served" THEN @ - 1 ELSE @]
    /\ GoTo(r, IF pc[r] = "served" THEN "active" ELSE "refused")
    /\ UNCHANGED <<ctxDone, sem, admitted, dropped, totalDropped, totalActive>>

Uncount_Skipped(r) ==
    /\ pc[r] = "released"
    /\ GoTo(r, "done")
    /\ UNCHANGED <<ctxDone, sem, waiters, admitted, dropped, totalDropped, totalActive>>

(* The blocking select: when both cases are ready Go picks either. *)
AdmitFromQueue(r) ==
    /\ pc[r] = "waiting"
    /\ TakeSlot(r)
    /\ GoTo(r, "dequeued")
    /\ UNCHANGED <<ctxDone, waiters, admitted, dropped, totalDropped, totalActive>>

GiveUp(r) ==
    /\ pc[r] = "waiting"
    /\ r \in ctxDone
    /\ GoTo(r, "leaving")
    /\ UNCHANGED <<ctxDone, sem, waiters, admitted, dropped, totalDropped, totalActive>>

Count(r) ==
    /\ pc[r] \in {"granted", "dequeued"}
    /\ admitted' = [admitted EXCEPT ![ClassOf[r]] = @ + 1]
    /\ totalActive' = totalActive + 1
    /\ GoTo(r, IF pc[r] = "granted" THEN "active" ELSE "served")
    /\ UNCHANGED <<ctxDone, sem, waiters, dropped, totalDropped>>

(* The deferred waiters.Add(-1). *)
LeaveQueue(r) ==
    /\ pc[r] \in {"served", "leaving"}
    /\ waiters' = [waiters EXCEPT ![ClassOf[r]] = @ - 1]
    /\ GoTo(r, IF pc[r] = "served" THEN "active" ELSE "refused")
    /\ UNCHANGED <<ctxDone, sem, admitted, dropped, totalDropped, totalActive>>

(* Release: take a token back, then lower the node-wide count.  The        *)
(* select's default branch leaves both alone when the channel is empty.    *)
Release(r) ==
    /\ pc[r] = "active"
    /\ LET empty == sem[ClassOf[r]] = 0
       IN  /\ sem' = IF empty THEN sem ELSE [sem EXCEPT ![ClassOf[r]] = @ - 1]
           /\ GoTo(r, IF empty THEN "done" ELSE "released")
    /\ UNCHANGED <<ctxDone, waiters, admitted, dropped, totalDropped, totalActive>>

Uncount(r) ==
    /\ pc[r] = "released"
    /\ totalActive' = totalActive - 1
    /\ GoTo(r, "done")
    /\ UNCHANGED <<ctxDone, sem, waiters, admitted, dropped, totalDropped>>

(* The request's deadline passes or its client goes away.  Acquire does    *)
(* not look at the context of a request it has admitted.                   *)
Undecided == {"arrive", "passed", "try", "full", "room", "waiting"}

Expire(r) ==
    /\ r \notin ctxDone
    /\ pc[r] \in Undecided
    /\ ctxDone' = ctxDone \cup {r}
    /\ UNCHANGED <<pc, sem, waiters, admitted, dropped, totalDropped, totalActive>>

Step(r) ==
    \/ Shed(r) \/ PassGate(r) \/ CheckContext(r)
    \/ AdmitAtOnce(r) \/ NoSlot(r) \/ RejectQueueFull(r) \/ SeeRoom(r)
    \/ Enqueue(r) \/ AdmitFromQueue(r) \/ GiveUp(r)
    \/ Count(r) \/ LeaveQueue(r) \/ Release(r) \/ Uncount(r)

Next == \E r \in Requests : Step(r) \/ Expire(r)

Spec == Init /\ [][Next]_vars

(* Goroutines run, handlers end, and every context has a deadline. *)
Fairness == \A r \in Requests : WF_vars(Step(r)) /\ WF_vars(Expire(r))

FairSpec == Spec /\ Fairness

-----------------------------------------------------------------------------
Of(c) == {r \in Requests : ClassOf[r] = c}

(* Where a request holds a token, is counted as waiting, counted as active. *)
HoldingAt == {"granted", "dequeued", "served", "active"}
QueuedAt == {"waiting", "dequeued", "served", "leaving"}
CountedAt == {"served", "active", "released"}

Holders(c) == {r \in Of(c) : pc[r] \in HoldingAt}
Queued(c) == {r \in Of(c) : pc[r] \in QueuedAt}
Counted == {r \in Requests : pc[r] \in CountedAt}

TypeOK ==
    /\ pc \in [Requests -> Locations]
    /\ ctxDone \subseteq Requests
    /\ sem \in [Classes -> Nat]
    /\ waiters \in [Classes -> Nat]
    /\ admitted \in [Classes -> Nat]
    /\ dropped \in [Classes -> Nat]
    /\ totalDropped \in Nat
    /\ totalActive \in Nat

(* The channel holds one token per request inside the bulkhead, so no      *)
(* class runs more than Concurrency requests, whatever Acquire, timeouts   *)
(* and Release interleave.                                                 *)
SlotsExact == \A c \in Classes :
    /\ sem[c] = Cardinality(Holders(c))
    /\ sem[c] <= Concurrency[c]

(* The deferred decrement and every exit path keep the waiter count exact. *)
WaitersExact == \A c \in Classes : waiters[c] = Cardinality(Queued(c))

(* The node-wide count the load shedder reads is exact up to the steps     *)
(* between a channel operation and the counter's add.                      *)
ActiveExact == totalActive = Cardinality(Counted)

Bookkeeping == TypeOK /\ SlotsExact /\ WaitersExact /\ ActiveExact

(* Release's default branch "should not happen" (admission.go:182): a      *)
(* request that releases finds its class's channel non-empty.              *)
ReleaseFindsToken == \A r \in Requests : pc[r] = "active" => sem[ClassOf[r]] > 0

(* A critical request is served by its own bulkhead alone: whatever        *)
(* background and normal traffic do, it is refused only when out of time   *)
(* or after finding its own slots and then its own queue taken.            *)
CriticalStatus(l) ==
    CASE l \in {"arrive", "passed", "try"} -> "new"
      [] l \in {"full", "room"} -> "full"
      [] l = "waiting" -> "waiting"
      [] l \in {"granted", "dequeued", "served", "active"} -> "in"
      [] l \in {"released", "done"} -> "out"
      [] l \in {"leaving", "refused"} -> "refused"

Critical == INSTANCE Bulkhead WITH
    Requests <- Of("CRITICAL"),
    Concurrency <- Concurrency["CRITICAL"],
    MaxQueue <- MaxQueue["CRITICAL"],
    status <- [r \in Of("CRITICAL") |-> CriticalStatus(pc[r])],
    queue <- Queued("CRITICAL"),
    expired <- ctxDone \cap Of("CRITICAL")

CriticalIsolated == Critical!Spec

(* Every request is eventually refused or served, and then every token,    *)
(* waiter and active count has been given back: nothing leaks on any path. *)
Quiesces == <>[](/\ \A r \in Requests : pc[r] \in {"done", "refused"}
                 /\ \A c \in Classes : sem[c] = 0 /\ waiters[c] = 0
                 /\ totalActive = 0)

(* "bounded queues" (admission.go:39): at most MaxQueue requests wait.     *)
QueueBounded == \A c \in Classes : waiters[c] <= MaxQueue[c]
=============================================================================
