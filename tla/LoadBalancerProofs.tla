------------------------- MODULE LoadBalancerProofs --------------------------
(***************************************************************************)
(* Proofs of LoadBalancer's invariants, for any number of clients and of   *)
(* backends.                                                               *)
(***************************************************************************)
EXTENDS LoadBalancer, TLAPS

(* The last m values the counter has taken. *)
Recent(m) == {b \in Backends :
                 (IF b <= current THEN current - b ELSE current - b + N) < m}

(* Since a request arrived, it and the others have drawn at least as many  *)
(* successive backends as it has tried.                                    *)
DrawnInTurn == \A c \in Clients : \E m \in req[c].tries .. N :
    Recent(m) \subseteq hist[c].tried \cup hist[c].others

IdleUntried == \A c \in Clients : req[c].at = "idle" => req[c].tries = 0

(* While no attempt is lost, only the current one can have acted.          *)
ActsExact == \A c \in Clients :
    hist[c].lost \/ hist[c].acts = IF req[c].at = "acted" THEN 1 ELSE 0

TurnInv == TypeOK /\ IdleUntried /\ DrawnInTurn

-----------------------------------------------------------------------------
LEMMA FollowingType ==
    ASSUME NEW b \in Backends
    PROVE  Following(b) \in Backends
  BY BalancerAssumption DEF Following, Backends

(* One turn of the counter adds the backend it arrives at. *)
LEMMA RecentGrows ==
    ASSUME current \in Backends, current' = Following(current), NEW m \in Nat
    PROVE  Recent(m + 1)' \subseteq Recent(m) \cup {current'}
  BY BalancerAssumption DEF Following, Backends, Recent

LEMMA RecentAll ==
    ASSUME current \in Backends
    PROVE  Recent(0) = {} /\ Recent(N) = Backends
  BY BalancerAssumption DEF Backends, Recent

-----------------------------------------------------------------------------
(* Every step keeps the types: so do updates of one request's record, and  *)
(* Failed and Lost of any set.                                             *)
LEMMA RequestTypes ==
    ASSUME NEW q \in RequestStates
    PROVE  /\ \A l \in {"idle", "trying", "dialing", "sent", "acted"} :
                 [q EXCEPT !.at = l] \in RequestStates
           /\ \A b \in Backends : [q EXCEPT !.backend = b] \in RequestStates
           /\ q.tries \in 0 .. N
           /\ \A t \in 0 .. N : [q EXCEPT !.tries = t] \in RequestStates
           /\ [q EXCEPT !.gone = TRUE] \in RequestStates
  BY DEF RequestStates

LEMMA HistoryTypes ==
    ASSUME NEW h \in Histories
    PROVE  /\ [h EXCEPT !.lost = TRUE] \in Histories
           /\ h.acts \in 0 .. 2
           /\ \A k \in 0 .. 2 : [h EXCEPT !.acts = k] \in Histories
           /\ \A b \in Backends :
                 /\ [h EXCEPT !.tried = h.tried \cup {b}] \in Histories
                 /\ [h EXCEPT !.others = h.others \cup {b}] \in Histories
  BY DEF Histories

LEMMA FailedType ==
    ASSUME TypeOK, NEW S
    PROVE  Failed(S) \in [Clients -> RequestStates] /\ Lost(S) \in [Clients -> Histories]
  BY RequestTypes, HistoryTypes DEF TypeOK, Failed, Lost

LEMMA MoveType ==
    ASSUME TypeOK, NEW c \in Clients,
           NEW l \in {"idle", "trying", "dialing", "sent", "acted"}
    PROVE  [req EXCEPT ![c].at = l] \in [Clients -> RequestStates]
  <1>1. [req[c] EXCEPT !.at = l] \in RequestStates
    BY RequestTypes DEF TypeOK
  <1>2. [req EXCEPT ![c].at = l] = [req EXCEPT ![c] = [req[c] EXCEPT !.at = l]]
    OBVIOUS
  <1> QED
    BY <1>1, <1>2 DEF TypeOK

LEMMA DialType ==
    ASSUME TypeOK, NEW c \in Clients, NEW b \in Backends, Dial(c, b)
    PROVE  req' \in [Clients -> RequestStates] /\ hist' \in [Clients -> Histories]
  <1> DEFINE q == [req[c] EXCEPT !.at = "dialing"]
             r == [q EXCEPT !.backend = b]
             s == [r EXCEPT !.tries = req[c].tries + 1]
  <1>1. req[c] \in RequestStates /\ req[c].tries + 1 \in 0 .. N
    <2>1. req[c] \in RequestStates /\ req[c].tries < N
      BY DEF TypeOK, Dial, Attempts
    <2>2. req[c].tries \in 0 .. N
      BY <2>1, RequestTypes
    <2> QED
      BY <2>1, <2>2, BalancerAssumption
  <1>2. q \in RequestStates
    BY <1>1, RequestTypes
  <1>3. r \in RequestStates
    <2> HIDE DEF q
    <2> QED
      BY <1>2, RequestTypes
  <1>4. s \in RequestStates
    BY <1>1, <1>3, RequestTypes
  <1>5. req' = [req EXCEPT ![c] = s]
    BY DEF Dial
  <1>6. req' \in [Clients -> RequestStates]
    BY <1>4, <1>5 DEF TypeOK
  <1>7. hist' \in [Clients -> Histories]
    BY HistoryTypes DEF TypeOK, Dial
  <1> QED
    BY <1>6, <1>7

LEMMA DoneType ==
    ASSUME TypeOK, NEW c \in Clients, Done(c)
    PROVE  /\ req' \in [Clients -> RequestStates]
           /\ hist' \in [Clients -> Histories]
  BY BalancerAssumption
     DEF TypeOK, Done, NoRequest, NoHistory, Backends, RequestStates, Histories

LEMMA TypeStep == TypeOK /\ [Next]_vars => TypeOK'
  <1> SUFFICES ASSUME TypeOK, [Next]_vars
               PROVE  TypeOK'
    OBVIOUS
  <1>1. ASSUME NEW c \in Clients, Arrive(c)
        PROVE  TypeOK'
    BY <1>1, MoveType DEF Arrive, TypeOK
  <1>2. ASSUME NEW c \in Clients, Pick(c)
        PROVE  TypeOK'
    <2>1. current' \in Backends
      BY <1>2, FollowingType DEF Pick, TypeOK
    <2> QED
      BY <1>2, <2>1, DialType DEF Pick, TypeOK
  <1>3. ASSUME NEW c \in Clients, Connect(c)
        PROVE  TypeOK'
    BY <1>3, MoveType DEF Connect, TypeOK
  <1>4. ASSUME NEW c \in Clients, Refuse(c)
        PROVE  TypeOK'
    BY <1>4, FailedType DEF Refuse, TypeOK
  <1>5. ASSUME NEW c \in Clients, Act(c)
        PROVE  TypeOK'
    <2> DEFINE k == IF hist[c].acts < 2 THEN hist[c].acts + 1 ELSE hist[c].acts
    <2>1. [hist[c] EXCEPT !.acts = k] \in Histories
      <3>1. hist[c] \in Histories /\ req[c] \in RequestStates
        BY DEF TypeOK
      <3>2. hist[c].acts \in 0 .. 2
        BY <3>1, HistoryTypes
      <3>3. k \in 0 .. 2
        BY <3>2
      <3> HIDE DEF k
      <3> QED
        BY <3>1, <3>3, HistoryTypes
    <2>2. hist' = [hist EXCEPT ![c] = [hist[c] EXCEPT !.acts = k]]
      BY <1>5 DEF Act
    <2>3. hist' \in [Clients -> Histories]
      BY <2>1, <2>2 DEF TypeOK
    <2> QED
      BY <1>5, <2>3, MoveType DEF Act, TypeOK
  <1>6. ASSUME NEW c \in Clients, Respond(c)
        PROVE  TypeOK'
    BY <1>6, DoneType DEF Respond, TypeOK
  <1>7. ASSUME NEW c \in Clients, TimeOut(c)
        PROVE  TypeOK'
    BY <1>7, FailedType DEF TimeOut, TypeOK
  <1>8. ASSUME NEW c \in Clients, GiveUp(c)
        PROVE  TypeOK'
    BY <1>8, DoneType DEF GiveUp, TypeOK
  <1>9. ASSUME NEW c \in Clients, Leave(c)
        PROVE  TypeOK'
    <2> DEFINE q == [req[c] EXCEPT !.gone = TRUE]
               r == [q EXCEPT !.at = IF InFlight(c) THEN "trying" ELSE req[c].at]
    <2>1. q \in RequestStates
      BY RequestTypes DEF TypeOK
    <2>2. q.at \in {"idle", "trying", "dialing", "sent", "acted"} /\ q.at = req[c].at
      BY <2>1 DEF RequestStates, TypeOK
    <2>3. r \in RequestStates
      BY <2>1, <2>2, RequestTypes DEF TypeOK
    <2>4. req' = [req EXCEPT ![c] = r]
      BY <1>9 DEF Leave
    <2>5. req' \in [Clients -> RequestStates]
      BY <2>3, <2>4 DEF TypeOK
    <2> QED
      BY <1>9, <2>5, FailedType DEF Leave, TypeOK
  <1>10. ASSUME NEW b \in Backends, Kill(b) \/ Shutdown(b) \/ Restart(b)
         PROVE  TypeOK'
    BY <1>10, FailedType DEF Kill, Shutdown, Restart, TypeOK
  <1>11. CASE UNCHANGED vars
    BY <1>11 DEF vars, TypeOK
  <1> QED
    BY <1>1, <1>2, <1>3, <1>4, <1>5, <1>6, <1>7, <1>8, <1>9, <1>10, <1>11
       DEF Next, Serve

-----------------------------------------------------------------------------
(* A step that leaves the counter alone, and a request's attempts and      *)
(* history unless it ends the request, keeps the turns.                    *)
LEMMA TurnKept ==
    ASSUME TurnInv, current' = current,
           \A c \in Clients :
              \/ req'[c].tries = 0
              \/ /\ req'[c].tries = req[c].tries /\ req'[c].at # "idle"
                 /\ hist'[c].tried = hist[c].tried /\ hist'[c].others = hist[c].others
    PROVE  IdleUntried' /\ DrawnInTurn'
  <1>1. IdleUntried'
    BY DEF TurnInv, IdleUntried
  <1>2. ASSUME NEW c \in Clients
        PROVE  \E m \in req'[c].tries .. N :
                  Recent(m)' \subseteq hist'[c].tried \cup hist'[c].others
    <2>1. CASE req'[c].tries = 0
      <3>1. Recent(0)' = {}
        BY RecentAll DEF TurnInv, TypeOK, Recent
      <3> QED
        BY <2>1, <3>1, BalancerAssumption
    <2>2. CASE req'[c].tries = req[c].tries
               /\ hist'[c].tried = hist[c].tried /\ hist'[c].others = hist[c].others
      BY <2>2 DEF TurnInv, DrawnInTurn, Recent
    <2> QED
      BY <2>1, <2>2
  <1> QED
    BY <1>1, <1>2 DEF DrawnInTurn

LEMMA TurnPick ==
    ASSUME TurnInv, NEW c \in Clients, Pick(c)
    PROVE  IdleUntried' /\ DrawnInTurn'
  <1>1. /\ current \in Backends /\ current' = Following(current)
        /\ current' \in Backends
    BY FollowingType DEF TurnInv, TypeOK, Pick
  <1>2. /\ req[c].at = "trying" /\ req[c].tries < N
        /\ req' = [req EXCEPT ![c].at = "dialing", ![c].backend = current',
                              ![c].tries = req[c].tries + 1]
    BY DEF Pick, Dial, Attempts
  <1>3. /\ req \in [Clients -> RequestStates]
        /\ hist \in [Clients -> Histories]
        /\ \A d \in Clients : req[d].tries \in 0 .. N
    BY DEF TurnInv, TypeOK, RequestStates
  <1>4. \A d \in Clients : /\ d = c => req'[d].at = "dialing"
                                       /\ req'[d].tries = req[d].tries + 1
                           /\ d # c => req'[d] = req[d]
    BY <1>2, <1>3
  <1>5. IdleUntried'
    BY <1>4 DEF IdleUntried, TurnInv
  <1>6. ASSUME NEW d \in Clients
        PROVE  \E m \in req'[d].tries .. N :
                  Recent(m)' \subseteq hist'[d].tried \cup hist'[d].others
    <2>1. CASE req[d].at = "idle"
      <3>1. d # c /\ req'[d].tries = 0
        BY <1>2, <1>4, <2>1 DEF TurnInv, IdleUntried
      <3>2. Recent(0)' = {}
        BY <1>1, BalancerAssumption DEF Recent, Backends
      <3> QED
        BY <3>1, <3>2, BalancerAssumption
    <2>2. CASE req[d].at # "idle"
      <3>1. hist'[d].tried \cup hist'[d].others
                = hist[d].tried \cup hist[d].others \cup {current'}
        BY <1>3, <2>2 DEF Pick, Dial
      <3>2. PICK m \in req[d].tries .. N :
                Recent(m) \subseteq hist[d].tried \cup hist[d].others
        BY DEF TurnInv, DrawnInTurn
      <3>3. m \in Nat /\ req[d].tries \in Nat
        BY <1>3, <3>2, BalancerAssumption
      <3>4. CASE m = N
        <4>1. Recent(N)' \subseteq Recent(N)
          BY <1>1, BalancerAssumption DEF Recent, Backends
        <4>2. N \in req'[d].tries .. N
          BY <1>2, <1>3, <1>4, BalancerAssumption
        <4> QED
          BY <3>1, <3>2, <3>4, <4>1, <4>2
      <3>5. CASE m # N
        <4>1. Recent(m + 1)' \subseteq Recent(m) \cup {current'}
          BY <1>1, <3>3, RecentGrows
        <4>2. m + 1 \in req'[d].tries .. N
          BY <1>2, <1>3, <1>4, <3>2, <3>3, <3>5, BalancerAssumption
        <4> QED
          BY <3>1, <3>2, <4>1, <4>2
      <3> QED
        BY <3>4, <3>5
    <2> QED
      BY <2>1, <2>2
  <1> QED
    BY <1>5, <1>6 DEF DrawnInTurn

LEMMA TurnStep == TurnInv /\ [Next]_vars => TurnInv'
  <1> SUFFICES ASSUME TurnInv, [Next]_vars
               PROVE  TurnInv'
    OBVIOUS
  <1> DEFINE Kept(c) == \/ req'[c].tries = 0
                        \/ /\ req'[c].tries = req[c].tries /\ req'[c].at # "idle"
                           /\ hist'[c].tried = hist[c].tried
                           /\ hist'[c].others = hist[c].others
  <1>1. TypeOK /\ TypeOK'
    BY TypeStep DEF TurnInv
  <1>2. \A c \in Clients : req[c].at = "idle" => req[c].tries = 0
    BY DEF TurnInv, IdleUntried
  <1>3. ASSUME NEW c \in Clients, Arrive(c) \/ Connect(c) \/ Act(c)
        PROVE  current' = current /\ \A d \in Clients : Kept(d)
    <2>1. CASE Arrive(c)
      BY <1>1, <1>2, <2>1 DEF Arrive, TypeOK, RequestStates
    <2>2. CASE Connect(c)
      BY <1>1, <1>2, <2>2 DEF Connect, TypeOK, RequestStates
    <2>3. CASE Act(c)
      <3>1. \A d \in Clients : /\ hist'[d].tried = hist[d].tried
                               /\ hist'[d].others = hist[d].others
        BY <1>1, <2>3 DEF Act, TypeOK, Histories
      <3> QED
        BY <1>1, <1>2, <2>3, <3>1 DEF Act, TypeOK, RequestStates
    <2> QED
      BY <1>3, <2>1, <2>2, <2>3
  <1>4. ASSUME NEW c \in Clients, Respond(c) \/ GiveUp(c)
        PROVE  current' = current /\ \A d \in Clients : Kept(d)
    BY <1>1, <1>2, <1>4
       DEF Respond, GiveUp, Done, NoRequest, TypeOK, RequestStates, Histories
  <1>5. ASSUME NEW c \in Clients, Refuse(c) \/ TimeOut(c) \/ Leave(c)
        PROVE  current' = current /\ \A d \in Clients : Kept(d)
    <2>1. CASE Refuse(c)
      BY <1>1, <1>2, <2>1 DEF Refuse, Failed, TypeOK, RequestStates
    <2>2. CASE TimeOut(c)
      BY <1>1, <1>2, <2>2
         DEF TimeOut, InFlight, Failed, Lost, TypeOK, RequestStates, Histories
    <2>3. CASE Leave(c)
      <3>1. \A d \in Clients : /\ hist'[d].tried = hist[d].tried
                               /\ hist'[d].others = hist[d].others
        BY <1>1, <2>3 DEF Leave, Lost, TypeOK, Histories
      <3>2. \A d \in Clients :
               /\ req'[d].tries = req[d].tries
               /\ req[d].at # "idle" => req'[d].at # "idle"
        BY <1>1, <2>3 DEF Leave, InFlight, TypeOK, RequestStates
      <3>3. current' = current
        BY <2>3 DEF Leave
      <3> QED
        BY <1>2, <3>1, <3>2, <3>3
    <2> QED
      BY <1>5, <2>1, <2>2, <2>3
  <1>6. ASSUME NEW b \in Backends, Kill(b) \/ Shutdown(b) \/ Restart(b)
        PROVE  current' = current /\ \A d \in Clients : Kept(d)
    BY <1>1, <1>2, <1>6
       DEF Kill, Shutdown, Restart, AtBackend, InFlight, Failed, Lost, TypeOK,
           RequestStates, Histories
  <1>7. CASE UNCHANGED vars
    BY <1>1, <1>2, <1>7 DEF vars, TurnInv, IdleUntried, DrawnInTurn, Recent
  <1>8. CASE Next
    <2>1. CASE \E c \in Clients : Pick(c)
      BY <1>1, <2>1, TurnPick DEF TurnInv
    <2>2. CASE ~ \E c \in Clients : Pick(c)
      <3>1. current' = current /\ \A d \in Clients : Kept(d)
        BY <1>3, <1>4, <1>5, <1>6, <1>8, <2>2 DEF Next, Serve
      <3> QED
        BY <1>1, <3>1, TurnKept DEF TurnInv
    <2> QED
      BY <2>1, <2>2
  <1> QED
    BY <1>7, <1>8

LEMMA TurnInit == Init => TurnInv
  <1> SUFFICES ASSUME Init
               PROVE  TurnInv
    OBVIOUS
  <1>1. TypeOK /\ IdleUntried
    BY BalancerAssumption
       DEF Init, TypeOK,
           IdleUntried, NoRequest, NoHistory, Backends, RequestStates,
           Histories
  <1>2. \A c \in Clients : req[c].tries = 0
    BY DEF Init, NoRequest
  <1>3. Recent(0) = {} /\ 0 \in 0 .. N
    BY <1>1, RecentAll, BalancerAssumption DEF TypeOK
  <1> QED
    BY <1>1, <1>2, <1>3 DEF TurnInv, DrawnInTurn

(* The state of the balancer and of what it forwards is well formed. *)
THEOREM TypeCorrect == Spec => []TypeOK
  <1>1. TurnInv => TypeOK
    BY DEF TurnInv
  <1> QED
    BY <1>1, TurnInit, TurnStep, PTL DEF Spec

(* A request that has had its last attempt has tried every backend that no *)
(* other request has drawn since it arrived, for any number of requests    *)
(* that share the counter: the loop of ServeHTTP misses none by itself.    *)
THEOREM MissesNoneAlone == Spec => []MissedWentToOthers
  <1>1. ASSUME TurnInv
        PROVE  MissedWentToOthers
    <2> SUFFICES ASSUME NEW c \in Clients, req[c].tries = N
                 PROVE  Backends \subseteq hist[c].tried \cup hist[c].others
      BY DEF MissedWentToOthers
    <2>1. PICK m \in req[c].tries .. N :
              Recent(m) \subseteq hist[c].tried \cup hist[c].others
      BY <1>1 DEF TurnInv, DrawnInTurn
    <2>2. m = N
      BY <2>1, BalancerAssumption
    <2>3. Recent(N) = Backends
      BY <1>1, RecentAll DEF TurnInv, TypeOK
    <2> QED
      BY <2>1, <2>2, <2>3
  <1>2. TurnInv => MissedWentToOthers
    BY <1>1
  <1> QED
    BY <1>2, TurnInit, TurnStep, PTL DEF Spec

-----------------------------------------------------------------------------
LEMMA ActsStep == TypeOK /\ ActsExact /\ [Next]_vars => ActsExact'
  <1> SUFFICES ASSUME TypeOK, ActsExact, [Next]_vars, NEW d \in Clients
               PROVE  \/ hist'[d].lost
                      \/ hist'[d].acts = IF req'[d].at = "acted" THEN 1 ELSE 0
    BY DEF ActsExact
  <1> DEFINE Exact == \/ hist'[d].lost
                      \/ hist'[d].acts = IF req'[d].at = "acted" THEN 1 ELSE 0
  <1>1. hist[d].lost \/ hist[d].acts = IF req[d].at = "acted" THEN 1 ELSE 0
    BY DEF ActsExact
  <1>2. ASSUME NEW c \in Clients, Arrive(c) \/ Connect(c)
        PROVE  Exact
    BY <1>1, <1>2 DEF Arrive, Connect, TypeOK, RequestStates
  <1>3. ASSUME NEW c \in Clients, Respond(c) \/ GiveUp(c)
        PROVE  Exact
    BY <1>1, <1>3
       DEF Respond, GiveUp, Done, NoRequest, NoHistory, TypeOK, RequestStates, Histories
  <1>4. ASSUME NEW c \in Clients, Refuse(c) \/ TimeOut(c) \/ Leave(c)
        PROVE  Exact
    BY <1>1, <1>4
       DEF Refuse, TimeOut, Leave, InFlight, Failed, Lost, TypeOK, RequestStates, Histories
  <1>5. ASSUME NEW c \in Clients, Pick(c)
        PROVE  Exact
    BY <1>1, <1>5 DEF Pick, Dial, TypeOK, RequestStates, Histories
  <1>6. ASSUME NEW b \in Backends, Kill(b) \/ Shutdown(b) \/ Restart(b)
        PROVE  Exact
    BY <1>1, <1>6
       DEF Kill, Shutdown, Restart, AtBackend, InFlight, Failed, Lost, TypeOK,
           RequestStates, Histories
  <1>7. CASE UNCHANGED vars
    BY <1>1, <1>7 DEF vars
  <1>8. ASSUME NEW c \in Clients, Act(c)
        PROVE  Exact
    <2>1. hist' = [hist EXCEPT ![c].acts =
                      IF hist[c].acts < 2 THEN hist[c].acts + 1 ELSE hist[c].acts]
      BY <1>8 DEF Act
    <2>2. CASE d = c
      <3>1. req'[d].at = "acted" /\ hist'[d].lost = hist[d].lost
        BY <1>8, <2>1, <2>2 DEF Act, TypeOK, RequestStates, Histories
      <3>2. hist[d].acts = 0 => hist'[d].acts = 1
        BY <2>1, <2>2 DEF TypeOK, Histories
      <3>3. req[d].at = "sent"
        BY <1>8, <2>2 DEF Act
      <3> QED
        BY <1>1, <3>1, <3>2, <3>3
    <2>3. CASE d # c
      BY <1>1, <1>8, <2>1, <2>3 DEF Act, TypeOK
    <2> QED
      BY <2>2, <2>3
  <1> QED
    BY <1>2, <1>3, <1>4, <1>5, <1>6, <1>7, <1>8 DEF Next, Serve

(* No second node handles a request unless a connection was lost in        *)
(* flight, for any number of backends and whatever answers they give.      *)
THEOREM NoNeedlessRedo == Spec => []RedoneOnlyIfLost
  <1>1. Init => ActsExact
    BY DEF Init, ActsExact, NoRequest, NoHistory
  <1>2. ActsExact => RedoneOnlyIfLost
    BY DEF ActsExact, RedoneOnlyIfLost
  <1> QED
    BY <1>1, <1>2, ActsStep, TypeCorrect, PTL DEF Spec
=============================================================================
