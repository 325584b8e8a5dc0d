-------------------------- MODULE AdmissionProofs ---------------------------
(***************************************************************************)
(* Proofs that the counters of Admission are exact and that a class is     *)
(* isolated in its bulkhead, for any number of requests and any capacity.  *)
(***************************************************************************)
EXTENDS Admission, FiniteSetTheorems, TLAPS

(* The sets of requests that the counters count are finite. *)
LEMMA Countable ==
    /\ Counted \in SUBSET Requests /\ IsFiniteSet(Counted)
    /\ Cardinality(Counted) \in Nat
    /\ \A c \in Classes :
          /\ Holders(c) \in SUBSET Requests /\ Queued(c) \in SUBSET Requests
          /\ IsFiniteSet(Holders(c)) /\ IsFiniteSet(Queued(c))
          /\ Cardinality(Holders(c)) \in Nat /\ Cardinality(Queued(c)) \in Nat
  <1>1. /\ Counted \in SUBSET Requests
        /\ \A c \in Classes : Holders(c) \in SUBSET Requests /\ Queued(c) \in SUBSET Requests
    BY DEF Counted, Holders, Queued, Of
  <1>2. \A S \in SUBSET Requests : IsFiniteSet(S) /\ Cardinality(S) \in Nat
    BY RequestsAssumption, FS_Subset, FS_CardinalityType
  <1> QED
    BY <1>1, <1>2

(* Adding a request to a finite set, or taking it out, changes its         *)
(* cardinality by whether the request was in it.                           *)
LEMMA CardPut ==
    ASSUME NEW S, IsFiniteSet(S), NEW r
    PROVE  /\ Cardinality(S) \in Nat
           /\ r \in S => Cardinality(S) > 0
           /\ Cardinality(S \cup {r}) = Cardinality(S) + (IF r \in S THEN 0 ELSE 1)
           /\ Cardinality(S \ {r}) = Cardinality(S) - (IF r \in S THEN 1 ELSE 0)
  <1>1. Cardinality(S) \in Nat /\ (r \in S => Cardinality(S) # 0)
    BY FS_CardinalityType, FS_EmptySet
  <1>2. Cardinality(S \cup {r}) = Cardinality(S) + (IF r \in S THEN 0 ELSE 1)
    BY <1>1, FS_AddElement
  <1>3. Cardinality(S \ {r}) = Cardinality(S) - (IF r \in S THEN 1 ELSE 0)
    BY <1>1, FS_RemoveElement
  <1> QED
    BY <1>1, <1>2, <1>3

(* What a request's step from its location to l does to the counted sets. *)
LEMMA Move ==
    ASSUME TypeOK, NEW r \in Requests, NEW l \in Locations, GoTo(r, l)
    PROVE  /\ pc' \in [Requests -> Locations]
           /\ \A c \in Classes : c # ClassOf[r] =>
                 Holders(c)' = Holders(c) /\ Queued(c)' = Queued(c)
           /\ Cardinality(Holders(ClassOf[r])') = Cardinality(Holders(ClassOf[r]))
                 + (IF l \in HoldingAt THEN 1 ELSE 0)
                 - (IF pc[r] \in HoldingAt THEN 1 ELSE 0)
           /\ pc[r] \in HoldingAt => Cardinality(Holders(ClassOf[r])) > 0
           /\ Cardinality(Queued(ClassOf[r])') = Cardinality(Queued(ClassOf[r]))
                 + (IF l \in QueuedAt THEN 1 ELSE 0)
                 - (IF pc[r] \in QueuedAt THEN 1 ELSE 0)
           /\ pc[r] \in QueuedAt => Cardinality(Queued(ClassOf[r])) > 0
           /\ Cardinality(Counted') = Cardinality(Counted)
                 + (IF l \in CountedAt THEN 1 ELSE 0)
                 - (IF pc[r] \in CountedAt THEN 1 ELSE 0)
           /\ pc[r] \in CountedAt => Cardinality(Counted) > 0
  <1> DEFINE k == ClassOf[r]
  <1>1. /\ pc \in [Requests -> Locations] /\ pc' = [pc EXCEPT ![r] = l]
        /\ k \in Classes
    BY RequestsAssumption DEF TypeOK, GoTo
  <1>2. /\ Holders(k)' = IF l \in HoldingAt THEN Holders(k) \cup {r} ELSE Holders(k) \ {r}
        /\ pc[r] \in HoldingAt <=> r \in Holders(k)
    BY <1>1 DEF Holders, Of
  <1>3. /\ Queued(k)' = IF l \in QueuedAt THEN Queued(k) \cup {r} ELSE Queued(k) \ {r}
        /\ pc[r] \in QueuedAt <=> r \in Queued(k)
    BY <1>1 DEF Queued, Of
  <1>4. /\ Counted' = IF l \in CountedAt THEN Counted \cup {r} ELSE Counted \ {r}
        /\ pc[r] \in CountedAt <=> r \in Counted
    BY <1>1 DEF Counted
  <1>5. \A c \in Classes : c # k => Holders(c)' = Holders(c) /\ Queued(c)' = Queued(c)
    BY <1>1 DEF Holders, Queued, Of
  <1>6. IsFiniteSet(Holders(k)) /\ IsFiniteSet(Queued(k)) /\ IsFiniteSet(Counted)
    BY <1>1, Countable
  <1>7. /\ Cardinality(Holders(k)') = Cardinality(Holders(k))
              + (IF l \in HoldingAt THEN 1 ELSE 0) - (IF pc[r] \in HoldingAt THEN 1 ELSE 0)
        /\ pc[r] \in HoldingAt => Cardinality(Holders(k)) > 0
    <2> DEFINE S == Holders(k)
    <2>1. /\ Cardinality(S) \in Nat /\ (r \in S => Cardinality(S) > 0)
          /\ Cardinality(S \cup {r}) = Cardinality(S) + (IF r \in S THEN 0 ELSE 1)
          /\ Cardinality(S \ {r}) = Cardinality(S) - (IF r \in S THEN 1 ELSE 0)
      BY <1>6, CardPut
    <2> QED
      BY <1>2, <2>1
  <1>8. /\ Cardinality(Queued(k)') = Cardinality(Queued(k))
              + (IF l \in QueuedAt THEN 1 ELSE 0) - (IF pc[r] \in QueuedAt THEN 1 ELSE 0)
        /\ pc[r] \in QueuedAt => Cardinality(Queued(k)) > 0
    <2> DEFINE S == Queued(k)
    <2>1. /\ Cardinality(S) \in Nat /\ (r \in S => Cardinality(S) > 0)
          /\ Cardinality(S \cup {r}) = Cardinality(S) + (IF r \in S THEN 0 ELSE 1)
          /\ Cardinality(S \ {r}) = Cardinality(S) - (IF r \in S THEN 1 ELSE 0)
      BY <1>6, CardPut
    <2> QED
      BY <1>3, <2>1
  <1>9. /\ Cardinality(Counted') = Cardinality(Counted)
              + (IF l \in CountedAt THEN 1 ELSE 0) - (IF pc[r] \in CountedAt THEN 1 ELSE 0)
        /\ pc[r] \in CountedAt => Cardinality(Counted) > 0
    <2> DEFINE S == Counted
    <2>1. /\ Cardinality(S) \in Nat /\ (r \in S => Cardinality(S) > 0)
          /\ Cardinality(S \cup {r}) = Cardinality(S) + (IF r \in S THEN 0 ELSE 1)
          /\ Cardinality(S \ {r}) = Cardinality(S) - (IF r \in S THEN 1 ELSE 0)
      BY <1>6, CardPut
    <2> QED
      BY <1>4, <2>1
  <1>10. pc' \in [Requests -> Locations]
    BY <1>1
  <1> QED
    BY <1>5, <1>7, <1>8, <1>9, <1>10

-----------------------------------------------------------------------------
(* A step that moves r to l keeps the books when each counter changes by   *)
(* whether r enters or leaves the set it counts.                           *)
LEMMA Balanced ==
    ASSUME Bookkeeping, NEW r \in Requests, NEW l \in Locations, GoTo(r, l),
           ctxDone' = ctxDone,
           sem' \in [Classes -> Int], waiters' \in [Classes -> Int],
           admitted' \in [Classes -> Nat], dropped' \in [Classes -> Nat],
           totalDropped' \in Nat,
           \A c \in Classes : c # ClassOf[r] =>
               sem'[c] = sem[c] /\ waiters'[c] = waiters[c],
           sem'[ClassOf[r]] = sem[ClassOf[r]]
               + (IF l \in HoldingAt THEN 1 ELSE 0)
               - (IF pc[r] \in HoldingAt THEN 1 ELSE 0),
           sem'[ClassOf[r]] <= Concurrency[ClassOf[r]],
           waiters'[ClassOf[r]] = waiters[ClassOf[r]]
               + (IF l \in QueuedAt THEN 1 ELSE 0)
               - (IF pc[r] \in QueuedAt THEN 1 ELSE 0),
           totalActive' = totalActive
               + (IF l \in CountedAt THEN 1 ELSE 0)
               - (IF pc[r] \in CountedAt THEN 1 ELSE 0)
    PROVE  Bookkeeping'
  <1> DEFINE k == ClassOf[r]
  <1>1. k \in Classes
    BY RequestsAssumption
  <1>2. TypeOK /\ SlotsExact /\ WaitersExact /\ ActiveExact
    BY DEF Bookkeeping
  <1>3. \A c \in Classes : /\ Cardinality(Holders(c)) \in Nat
                           /\ Cardinality(Queued(c)) \in Nat
    BY Countable
  <1>4. Cardinality(Counted) \in Nat
    BY Countable
  <1>5. /\ \A c \in Classes : c # k =>
              Holders(c)' = Holders(c) /\ Queued(c)' = Queued(c)
        /\ pc' \in [Requests -> Locations]
    BY <1>2, Move
  <1>6. /\ sem'[k] = Cardinality(Holders(k)')
        /\ sem'[k] >= 0
    BY <1>1, <1>2, <1>3, Move DEF SlotsExact
  <1>7. /\ waiters'[k] = Cardinality(Queued(k)')
        /\ waiters'[k] >= 0
    BY <1>1, <1>2, <1>3, Move DEF WaitersExact
  <1>8. totalActive' = Cardinality(Counted') /\ totalActive' \in Nat
    BY <1>2, <1>4, Move DEF ActiveExact
  <1>9. SlotsExact' /\ sem' \in [Classes -> Nat]
    <2>1. \A c \in Classes : c # k => /\ sem'[c] = Cardinality(Holders(c)')
                                     /\ sem'[c] <= Concurrency[c] /\ sem'[c] >= 0
      BY <1>2, <1>3, <1>5 DEF SlotsExact
    <2>2. \A c \in Classes : /\ sem'[c] = Cardinality(Holders(c)')
                             /\ sem'[c] <= Concurrency[c] /\ sem'[c] >= 0
      BY <1>6, <2>1
    <2> QED
      BY <2>2 DEF SlotsExact
  <1>10. WaitersExact' /\ waiters' \in [Classes -> Nat]
    <2>1. \A c \in Classes : c # k => /\ waiters'[c] = Cardinality(Queued(c)')
                                     /\ waiters'[c] >= 0
      BY <1>2, <1>3, <1>5 DEF WaitersExact
    <2>2. \A c \in Classes : /\ waiters'[c] = Cardinality(Queued(c)')
                             /\ waiters'[c] >= 0
      BY <1>7, <2>1
    <2> QED
      BY <2>2 DEF WaitersExact
  <1> QED
    BY <1>2, <1>5, <1>8, <1>9, <1>10 DEF Bookkeeping, TypeOK, ActiveExact

(* A request inside its bulkhead finds a token in its channel. *)
LEMMA TokenHeld ==
    ASSUME Bookkeeping, NEW r \in Requests, pc[r] \in HoldingAt
    PROVE  sem[ClassOf[r]] > 0
  <1>1. ClassOf[r] \in Classes /\ r \in Holders(ClassOf[r])
    BY RequestsAssumption DEF Holders, Of
  <1>2. Cardinality(Holders(ClassOf[r])) > 0
    BY <1>1, Countable, CardPut
  <1> QED
    BY <1>1, <1>2 DEF Bookkeeping, SlotsExact

(* Each step of Acquire and Release moves its request between the sets     *)
(* that sem, waiters and totalActive count, and moves those counters with  *)
(* it.                                                                     *)
LEMMA StepKeepsBooks ==
    ASSUME Bookkeeping, NEW r \in Requests, Step(r)
    PROVE  Bookkeeping'
  <1> DEFINE k == ClassOf[r]
  <1> USE DEF HoldingAt, QueuedAt, CountedAt
  <1>1. /\ k \in Classes /\ Concurrency[k] \in Nat \ {0}
        /\ TypeOK /\ \A c \in Classes : sem[c] <= Concurrency[c]
    BY RequestsAssumption, CapacityAssumption DEF Bookkeeping, SlotsExact
  <1>2. /\ sem \in [Classes -> Nat] /\ waiters \in [Classes -> Nat]
        /\ admitted \in [Classes -> Nat] /\ dropped \in [Classes -> Nat]
        /\ totalDropped \in Nat /\ totalActive \in Nat
        /\ pc \in [Requests -> Locations]
    BY <1>1 DEF TypeOK
  <1>3. CASE Shed(r) \/ RejectQueueFull(r)
    BY <1>1, <1>2, <1>3, Balanced DEF Shed, RejectQueueFull, Drop, Locations
  <1>4. CASE PassGate(r)
    BY <1>1, <1>2, <1>4, Balanced DEF PassGate, Locations
  <1>5. CASE CheckContext(r)
    BY <1>1, <1>2, <1>5, Balanced DEF CheckContext, Locations
  <1>6. CASE NoSlot(r)
    BY <1>1, <1>2, <1>6, Balanced DEF NoSlot, Locations
  <1>7. CASE SeeRoom(r)
    BY <1>1, <1>2, <1>7, Balanced DEF SeeRoom, Locations
  <1>8. CASE GiveUp(r)
    BY <1>1, <1>2, <1>8, Balanced DEF GiveUp, Locations
  <1>9. CASE AdmitAtOnce(r)
    BY <1>1, <1>2, <1>9, Balanced DEF AdmitAtOnce, TakeSlot, Locations
  <1>10. CASE AdmitFromQueue(r)
    BY <1>1, <1>2, <1>10, Balanced DEF AdmitFromQueue, TakeSlot, Locations
  <1>11. CASE Enqueue(r)
    BY <1>1, <1>2, <1>11, Balanced DEF Enqueue, Locations
  <1>12. CASE Count(r)
    BY <1>1, <1>2, <1>12, Balanced DEF Count, Locations
  <1>13. CASE LeaveQueue(r)
    BY <1>1, <1>2, <1>13, Balanced DEF LeaveQueue, Locations
  <1>14. CASE Release(r)
    <2>1. sem[k] > 0
      BY <1>14, TokenHeld DEF Release
    <2> QED
      BY <1>1, <1>2, <1>14, <2>1, Balanced DEF Release, Locations
  <1>15. CASE Uncount(r)
    BY <1>1, <1>2, <1>15, Balanced DEF Uncount, Locations
  <1> QED
    BY <1>3, <1>4, <1>5, <1>6, <1>7, <1>8, <1>9, <1>10, <1>11, <1>12, <1>13,
       <1>14, <1>15 DEF Step

-----------------------------------------------------------------------------
(* The books are kept for every interleaving: no token, waiter or active   *)
(* count is lost or counted twice, and no class exceeds its concurrency.   *)
THEOREM BooksKept == Spec => []Bookkeeping
  <1>1. Init => Bookkeeping
    <2> SUFFICES ASSUME Init PROVE Bookkeeping
      OBVIOUS
    <2>1. TypeOK
      BY DEF Init, TypeOK, Locations
    <2>2. Counted = {} /\ \A c \in Classes : Holders(c) = {} /\ Queued(c) = {}
      BY DEF Init, Counted, Holders, Queued, Of, HoldingAt, QueuedAt, CountedAt
    <2>3. Cardinality({}) = 0
      BY FS_EmptySet
    <2>4. ActiveExact
      BY <2>2, <2>3 DEF Init, ActiveExact
    <2>5. SlotsExact /\ WaitersExact
      <3> SUFFICES ASSUME NEW c \in Classes
                   PROVE  /\ sem[c] = Cardinality(Holders(c))
                          /\ sem[c] <= Concurrency[c]
                          /\ waiters[c] = Cardinality(Queued(c))
        BY DEF SlotsExact, WaitersExact
      <3>1. sem[c] = 0 /\ waiters[c] = 0 /\ Concurrency[c] \in Nat
        BY CapacityAssumption DEF Init
      <3>2. Holders(c) = {} /\ Queued(c) = {}
        BY <2>2
      <3> QED
        BY <2>3, <3>1, <3>2
    <2> QED
      BY <2>1, <2>4, <2>5 DEF Bookkeeping
  <1>2. Bookkeeping /\ [Next]_vars => Bookkeeping'
    <2> SUFFICES ASSUME Bookkeeping, [Next]_vars PROVE Bookkeeping'
      OBVIOUS
    <2>1. ASSUME NEW r \in Requests, Step(r) PROVE Bookkeeping'
      BY <2>1, StepKeepsBooks
    <2>2. ASSUME UNCHANGED <<pc, sem, waiters, admitted, dropped, totalDropped, totalActive>>,
                 ctxDone' \subseteq Requests
          PROVE  Bookkeeping'
      BY <2>2
      DEF Bookkeeping, TypeOK, SlotsExact, WaitersExact, ActiveExact, Holders,
          Queued, Counted, Of
    <2>3. ASSUME NEW r \in Requests, Expire(r) PROVE Bookkeeping'
      BY <2>2, <2>3 DEF Expire, Bookkeeping, TypeOK
    <2>4. CASE UNCHANGED vars
      BY <2>2, <2>4 DEF vars, Bookkeeping, TypeOK
    <2> QED
      BY <2>1, <2>3, <2>4 DEF Next
  <1> QED
    BY <1>1, <1>2, PTL DEF Spec

(* The default branch of Release is dead code: a request that was admitted *)
(* finds a token, so the node-wide count always comes back down.           *)
THEOREM ReleaseSound == Spec => []ReleaseFindsToken
  <1>1. Bookkeeping => ReleaseFindsToken
    BY TokenHeld DEF ReleaseFindsToken, HoldingAt
  <1> QED
    BY <1>1, BooksKept, PTL

-----------------------------------------------------------------------------
(* Refinement: the critical class alone is a bulkhead of its own.          *)

(* The requests the critical bulkhead has inside are those that hold one   *)
(* of its tokens, so its channel counts them; its queue is those that its  *)
(* waiter count counts.                                                    *)
LEMMA InsideIsHolding ==
    ASSUME Bookkeeping
    PROVE  /\ Critical!Inside = Holders("CRITICAL")
           /\ Critical!Cardinality(Critical!Inside) = sem["CRITICAL"]
           /\ Critical!Cardinality(Queued("CRITICAL")) = waiters["CRITICAL"]
  <1>1. Critical!Inside = Holders("CRITICAL")
    BY DEF Critical!Inside, Holders, HoldingAt, CriticalStatus, Bookkeeping,
           TypeOK, Locations, Of
  <1>2. /\ Critical!Cardinality(Holders("CRITICAL")) = Cardinality(Holders("CRITICAL"))
        /\ Critical!Cardinality(Queued("CRITICAL")) = Cardinality(Queued("CRITICAL"))
    BY Zenon DEF Critical!Cardinality, Cardinality
  <1>3. /\ Cardinality(Holders("CRITICAL")) = sem["CRITICAL"]
        /\ Cardinality(Queued("CRITICAL")) = waiters["CRITICAL"]
    BY DEF Bookkeeping, SlotsExact, WaitersExact, Classes
  <1> QED
    BY <1>1, <1>2, <1>3

(* The mapped status changes at r alone, to the status of r's location,    *)
(* and the queue by whether r is counted as waiting there.                 *)
LEMMA MappedMove ==
    ASSUME TypeOK, NEW r \in Requests, NEW l \in Locations, GoTo(r, l),
           ctxDone' = ctxDone
    PROVE  /\ ClassOf[r] = "CRITICAL" =>
                 /\ r \in Of("CRITICAL")
                 /\ Critical!Become(r, CriticalStatus(l))
                 /\ CriticalStatus(l) = CriticalStatus(pc[r]) =>
                        [q \in Of("CRITICAL") |-> CriticalStatus(pc[q])]'
                           = [q \in Of("CRITICAL") |-> CriticalStatus(pc[q])]
                 /\ r \in Queued("CRITICAL") <=> pc[r] \in QueuedAt
                 /\ CASE l \in QueuedAt /\ pc[r] \notin QueuedAt ->
                           Queued("CRITICAL")' = Queued("CRITICAL") \cup {r}
                      [] l \notin QueuedAt /\ pc[r] \in QueuedAt ->
                           Queued("CRITICAL")' = Queued("CRITICAL") \ {r}
                      [] OTHER -> Queued("CRITICAL")' = Queued("CRITICAL")
           /\ ClassOf[r] # "CRITICAL" => UNCHANGED Critical!bvars
           /\ (/\ CriticalStatus(l) = CriticalStatus(pc[r])
               /\ l \in QueuedAt <=> pc[r] \in QueuedAt) => UNCHANGED Critical!bvars
  <1>1. pc' = [pc EXCEPT ![r] = l] /\ pc \in [Requests -> Locations]
    BY DEF GoTo, TypeOK
  <1>2. ASSUME ClassOf[r] = "CRITICAL"
        PROVE  r \in Of("CRITICAL") /\ Critical!Become(r, CriticalStatus(l))
    BY <1>1, <1>2 DEF Of, Critical!Become
  <1>3. ASSUME ClassOf[r] # "CRITICAL" \/ CriticalStatus(l) = CriticalStatus(pc[r])
        PROVE  [q \in Of("CRITICAL") |-> CriticalStatus(pc[q])]'
                  = [q \in Of("CRITICAL") |-> CriticalStatus(pc[q])]
    BY <1>1, <1>3 DEF Of
  <1>4. ASSUME ClassOf[r] = "CRITICAL"
        PROVE  /\ r \in Queued("CRITICAL") <=> pc[r] \in QueuedAt
               /\ l \in QueuedAt /\ pc[r] \notin QueuedAt =>
                     Queued("CRITICAL")' = Queued("CRITICAL") \cup {r}
               /\ l \notin QueuedAt /\ pc[r] \in QueuedAt =>
                     Queued("CRITICAL")' = Queued("CRITICAL") \ {r}
    BY <1>1, <1>4 DEF Queued, Of
  <1>5. ASSUME ClassOf[r] # "CRITICAL" \/ (l \in QueuedAt <=> pc[r] \in QueuedAt)
        PROVE  Queued("CRITICAL")' = Queued("CRITICAL")
    BY <1>1, <1>5 DEF Queued, Of
  <1> QED
    BY <1>2, <1>3, <1>4, <1>5 DEF Critical!bvars

(* A step of any request is a step of the critical bulkhead, or none for   *)
(* it.                                                                     *)
LEMMA CriticalStep ==
    ASSUME Bookkeeping, NEW r \in Requests, Step(r)
    PROVE  [Critical!Next]_(Critical!bvars)
  <1> DEFINE S == [q \in Of("CRITICAL") |-> CriticalStatus(pc[q])]
             Q == Queued("CRITICAL")
  <1>1. /\ TypeOK /\ pc \in [Requests -> Locations]
        /\ Critical!Cardinality(Critical!Inside) = sem["CRITICAL"]
        /\ Critical!Cardinality(Q) = waiters["CRITICAL"]
        /\ Concurrency["CRITICAL"] \in Nat /\ sem["CRITICAL"] \in Nat
        /\ MaxQueue["CRITICAL"] \in Nat /\ waiters["CRITICAL"] \in Nat
    BY InsideIsHolding, CapacityAssumption DEF Bookkeeping, TypeOK, Classes
  <1>2. ASSUME ClassOf[r] = "CRITICAL"
        PROVE  r \in Of("CRITICAL") /\ S[r] = CriticalStatus(pc[r])
    BY <1>2 DEF Of
  <1>3. CASE ClassOf[r] # "CRITICAL"
    <2>1. ctxDone' = ctxDone /\ \E l \in Locations : GoTo(r, l)
      BY <1>1
      DEF Step, Shed, RejectQueueFull, Drop, PassGate, CheckContext, NoSlot,
          SeeRoom, GiveUp, AdmitAtOnce, AdmitFromQueue, Enqueue, Count,
          LeaveQueue, Release, Uncount, Locations
    <2> QED
      BY <1>1, <1>3, <2>1, MappedMove
  <1>4. CASE ClassOf[r] = "CRITICAL"
    <2> USE <1>1, <1>2, <1>4, MappedMove DEF CriticalStatus, Locations, QueuedAt
    <2>1. CASE Shed(r)
      BY <2>1 DEF Shed, Overloaded
    <2>2. CASE RejectQueueFull(r)
      BY <2>2 DEF RejectQueueFull, Drop, Critical!Next, Critical!Refuse
    <2>3. CASE PassGate(r) \/ SeeRoom(r)
      BY <2>3 DEF PassGate, SeeRoom
    <2>4. CASE CheckContext(r)
      BY <2>4 DEF CheckContext, Critical!Next, Critical!Refuse
    <2>5. CASE NoSlot(r)
      BY <2>5 DEF NoSlot, Critical!Next, Critical!FindFull
    <2>6. CASE AdmitAtOnce(r)
      BY <2>6 DEF AdmitAtOnce, TakeSlot, Critical!Next, Critical!Enter
    <2>7. CASE AdmitFromQueue(r)
      BY <2>7 DEF AdmitFromQueue, TakeSlot, Critical!Next, Critical!Enter
    <2>8. CASE Count(r)
      BY <2>8 DEF Count
    <2>9. CASE LeaveQueue(r)
      <3>1. PICK l \in Locations :
               /\ GoTo(r, l) /\ l \notin QueuedAt /\ pc[r] \in QueuedAt
               /\ CriticalStatus(l) = CriticalStatus(pc[r]) /\ pc[r] # "waiting"
               /\ ctxDone' = ctxDone
        BY <2>9 DEF LeaveQueue
      <3>2. S' = S /\ r \in Q /\ Q' = Q \ {r}
        BY <3>1
      <3>3. S[r] # "waiting"
        BY <3>1
      <3> QED
        BY <3>1, <3>2, <3>3 DEF Critical!Next, Critical!Depart
    <2>10. CASE Release(r)
      BY <2>10 DEF Release, Critical!Next, Critical!Leave
    <2>11. CASE Uncount(r)
      BY <2>11 DEF Uncount
    <2>12. CASE GiveUp(r)
      BY <2>12 DEF GiveUp, Critical!Next, Critical!Refuse
    <2>13. CASE Enqueue(r)
      BY <2>13 DEF Enqueue, Critical!Next, Critical!Join
    <2> QED
      BY <2>1, <2>2, <2>3, <2>4, <2>5, <2>6, <2>7, <2>8, <2>9, <2>10, <2>11,
         <2>12, <2>13
      DEF Step
  <1> QED
    BY <1>3, <1>4

(* Background and normal traffic cannot cost a critical request its slot   *)
(* or its place in the queue: seen through the critical class, the manager *)
(* is a bulkhead that admits up to its own Concurrency and refuses only a  *)
(* request that ran out of time, or found all of those slots and MaxQueue  *)
(* places taken.                                                           *)
THEOREM CriticalIsolation == Spec => CriticalIsolated
  <1>1. Init => Critical!Init
    BY DEF Init, Critical!Init, CriticalStatus, Of, Queued, QueuedAt
  <1>2. Bookkeeping /\ [Next]_vars => [Critical!Next]_(Critical!bvars)
    <2> SUFFICES ASSUME Bookkeeping, [Next]_vars
                 PROVE  [Critical!Next]_(Critical!bvars)
      OBVIOUS
    <2>1. ASSUME NEW r \in Requests, Expire(r)
          PROVE  [Critical!Next]_(Critical!bvars)
      <3>1. CASE r \in Of("CRITICAL")
        BY <2>1, <3>1 DEF Expire, Queued, Critical!Next, Critical!Expire
      <3>2. CASE r \notin Of("CRITICAL")
        BY <2>1, <3>2 DEF Expire, Queued, Critical!bvars
      <3> QED
        BY <3>1, <3>2
    <2>2. CASE UNCHANGED vars
      BY <2>2 DEF vars, Queued, Critical!bvars
    <2> QED
      BY <2>1, <2>2, CriticalStep DEF Next
  <1> QED
    BY <1>1, <1>2, BooksKept, PTL DEF Spec, Critical!Spec, CriticalIsolated
=============================================================================
