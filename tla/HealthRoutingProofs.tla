------------------------- MODULE HealthRoutingProofs -------------------------
(***************************************************************************)
(* Proofs of HealthRouting's invariants, for any number of nodes, any      *)
(* length of the health window and any requests.                           *)
(***************************************************************************)
EXTENDS HealthRouting, SharedLemmas, SequenceTheorems, TLAPS

(* The latencies a probe may have. *)
Latencies == {200, 600, 750}

(* Windows that health is computed from. *)
Windows == {w \in Seq(Modes) : Len(w) \in 1 .. Window + 1}

-----------------------------------------------------------------------------
(* A probe that violates the contract has failed. *)
LEMMA ProbeFacts ==
    ASSUME NEW m \in Modes
    PROVE  /\ Probe[m].success \in BOOLEAN /\ Probe[m].contract \in BOOLEAN
           /\ Probe[m]["success"] = Probe[m].success
           /\ Probe[m]["contract"] = Probe[m].contract
           /\ Probe[m].ms \in Latencies
           /\ Probe[m].contract => ~Probe[m].success
  <1>1. Modes = {"normal", "sluggish", "outage", "contract", "slow"}
    BY DEF Modes, Probe
  <1>2. /\ Probe["normal"] = [success |-> TRUE, contract |-> FALSE, ms |-> 200]
        /\ Probe["sluggish"] = [success |-> TRUE, contract |-> FALSE, ms |-> 600]
        /\ Probe["outage"] = [success |-> FALSE, contract |-> FALSE, ms |-> 200]
        /\ Probe["contract"] = [success |-> FALSE, contract |-> TRUE, ms |-> 200]
        /\ Probe["slow"] = [success |-> FALSE, contract |-> FALSE, ms |-> 750]
    BY DEF Probe, ProbeTimeoutMs
  <1> DEFINE Sound(p) == /\ p.success \in BOOLEAN /\ p.contract \in BOOLEAN
                         /\ p["success"] = p.success /\ p["contract"] = p.contract
                         /\ p.ms \in Latencies
                         /\ p.contract => ~p.success
  <1>3. /\ Sound(Probe["normal"]) /\ Sound(Probe["sluggish"]) /\ Sound(Probe["outage"])
        /\ Sound(Probe["contract"]) /\ Sound(Probe["slow"])
    <2> HIDE DEF Probe
    <2>1. Sound(Probe["normal"])
      BY <1>2 DEF Latencies
    <2>2. Sound(Probe["sluggish"])
      BY <1>2 DEF Latencies
    <2>3. Sound(Probe["outage"])
      BY <1>2 DEF Latencies
    <2>4. Sound(Probe["contract"])
      BY <1>2 DEF Latencies
    <2>5. Sound(Probe["slow"])
      BY <1>2 DEF Latencies
    <2> QED
      BY <2>1, <2>2, <2>3, <2>4, <2>5
  <1> QED
    <2>1. Sound(Probe[m])
      BY <1>1, <1>3
    <2> QED
      BY <2>1

(* Full is a multiple of every length a window may have. *)
LEMMA FullDivides ==
    ASSUME NEW k \in 1 .. Window + 1
    PROVE  /\ Full \div k \in Nat \ {0}
           /\ Full = k * (Full \div k)
  <1>1. Cardinality(Nodes) \in Nat \ {0}
    BY RoutingAssumption, FS_CardinalityType, FS_EmptySet
  <1>2. Full % k = 0
    <2>1. Full % (k * 1) = 0
      <3>1. \A m \in 1 .. Cardinality(Nodes) : Full % (k * m) = 0
        BY RoutingAssumption
      <3>2. 1 \in 1 .. Cardinality(Nodes)
        BY <1>1
      <3> QED
        BY <3>1, <3>2
    <2>2. k * 1 = k
      BY RoutingAssumption
    <2> QED
      BY <2>1, <2>2
  <1>3. Full \in Nat \ {0} /\ k \in Nat \ {0}
    BY RoutingAssumption
  <1>4. Full = k * (Full \div k) + (Full % k) /\ Full \div k \in Int
    BY <1>3
  <1>5. Full \div k > 0
    BY <1>2, <1>3, <1>4
  <1> QED
    BY <1>2, <1>3, <1>4, <1>5

(* The greatest latency is one of them. *)
LEMMA P95Greatest ==
    ASSUME NEW S \in SUBSET Latencies, S # {}
    PROVE  P95(S) \in S /\ \A other \in S : other <= P95(S)
  <1>1. \E ms \in S : \A other \in S : other <= ms
    <2>1. CASE 750 \in S
      BY <2>1 DEF Latencies
    <2>2. CASE 750 \notin S /\ 600 \in S
      BY <2>2 DEF Latencies
    <2>3. CASE 750 \notin S /\ 600 \notin S
      <3>1. \A ms \in S : ms = 200
        BY <2>3 DEF Latencies
      <3>2. PICK ms \in S : TRUE
        OBVIOUS
      <3> QED
        BY <3>1, <3>2
    <2> QED
      BY <2>1, <2>2, <2>3
  <1> QED
    BY <1>1 DEF P95

Having(w, outcome) == {i \in DOMAIN w : Probe[w[i]][outcome]}

(* A share is so many parts of Full, one part for each probe that has the  *)
(* outcome, and as many parts make Full as there are probes.               *)
LEMMA ShareFacts ==
    ASSUME NEW w \in Windows, NEW outcome \in {"success", "contract"}
    PROVE  /\ Having(w, outcome) \subseteq 1 .. Len(w)
           /\ Cardinality(Having(w, outcome)) \in 0 .. Len(w)
           /\ Share(w, outcome) = Cardinality(Having(w, outcome)) * (Full \div Len(w))
           /\ Share(w, outcome) \in 0 .. Full
  <1>1. Len(w) \in 1 .. Window + 1 /\ DOMAIN w = 1 .. Len(w) /\ Len(w) \in Nat
    BY RoutingAssumption DEF Windows
  <1>2. Having(w, outcome) \subseteq 1 .. Len(w)
    BY <1>1 DEF Having
  <1>3. IsFiniteSet(1 .. Len(w)) /\ Cardinality(1 .. Len(w)) = Len(w)
    BY <1>1, FS_Interval
  <1>4. Cardinality(Having(w, outcome)) \in 0 .. Len(w)
    BY <1>1, <1>2, <1>3, FS_Subset, FS_CardinalityType
  <1>5. Share(w, outcome) = Cardinality(Having(w, outcome)) * (Full \div Len(w))
    BY DEF Share, Having
  <1>6. \A c \in 0 .. Len(w) : c * (Full \div Len(w)) \in 0 .. Full
    <2> DEFINE part == Full \div Len(w)
    <2>1. part \in Nat /\ Full = Len(w) * part
      BY <1>1, FullDivides
    <2> HIDE DEF part
    <2> SUFFICES ASSUME NEW c \in 0 .. Len(w)
                 PROVE  c * part \in 0 .. Len(w) * part
      BY <2>1 DEF part
    <2>2. Len(w) = c + (Len(w) - c) /\ Len(w) - c \in Nat /\ c \in Nat
      BY <1>1
    <2>3. Len(w) * part = c * part + (Len(w) - c) * part
      BY <2>1, <2>2
    <2>4. c * part \in Nat /\ (Len(w) - c) * part \in Nat
      BY <2>1, <2>2
    <2> QED
      BY <2>3, <2>4
  <1> QED
    BY <1>2, <1>4, <1>5, <1>6

(* Health is made of shares and a latency; a provider without a failure    *)
(* in its window is HEALTHY.                                               *)
LEMMA HealthFacts ==
    ASSUME NEW w \in Windows, NEW h, h = ComputeHealth(w)
    PROVE  /\ h \in Health /\ h.p95 \in Latencies
           /\ h.available = Share(w, "success") /\ h.contract = Share(w, "contract")
           /\ h.status = StatusOf(h.available, h.contract, h.p95)
           /\ h.available = Full => h.contract = 0 /\ h.status = "HEALTHY"
  <1> DEFINE available == Share(w, "success")
             contract == Share(w, "contract")
             p95 == P95({Probe[w[i]].ms : i \in DOMAIN w})
  <1>1. Len(w) \in 1 .. Window + 1 /\ Len(w) \in Nat
        /\ w \in Seq(Modes) /\ DOMAIN w = 1 .. Len(w)
        /\ \A i \in DOMAIN w : w[i] \in Modes
    BY RoutingAssumption DEF Windows
  <1>2. p95 \in Latencies
    <2>1. {Probe[w[i]].ms : i \in DOMAIN w} \in (SUBSET Latencies) \ {{}}
      <3>1. 1 \in DOMAIN w
        BY <1>1
      <3> QED
        BY <1>1, <3>1, ProbeFacts
    <2> QED
      BY <2>1, P95Greatest
  <1>3. available \in 0 .. Full /\ contract \in 0 .. Full /\ Full \in Nat
    BY ShareFacts, RoutingAssumption
  <1>4. h = [status |-> StatusOf(available, contract, p95),
             available |-> available, contract |-> contract, p95 |-> p95]
    BY DEF ComputeHealth
  <1>5. p95 \in Nat /\ p95 <= 1500
    BY <1>2 DEF Latencies
  <1>6. available = Full => contract = 0
    <2> SUFFICES ASSUME available = Full
                 PROVE  contract = 0
      OBVIOUS
    <2> DEFINE part == Full \div Len(w)
               good == Cardinality(Having(w, "success"))
    <2>1. /\ Len(w) \in Nat /\ part \in Nat \ {0} /\ Full = Len(w) * part
          /\ good \in Nat /\ good <= Len(w) /\ Full = good * part
      BY <1>1, FullDivides, ShareFacts
    <2>2. good = Len(w)
      <3> HIDE DEF good, part
      <3>1. (Len(w) - good) * part = 0
        BY <2>1
      <3> QED
        BY <2>1, <3>1
    <2>3. Having(w, "success") = 1 .. Len(w)
      <3>1. IsFiniteSet(1 .. Len(w)) /\ Cardinality(1 .. Len(w)) = Len(w)
        BY <1>1, FS_Interval
      <3>2. Having(w, "success") \subseteq 1 .. Len(w)
        BY ShareFacts
      <3> QED
        BY <2>2, <3>1, <3>2, FS_Subset
    <2>4. Having(w, "contract") = {}
      BY <1>1, <2>3, ProbeFacts DEF Having
    <2>5. contract = 0 * part
      BY <2>4, ShareFacts, FS_EmptySet
    <2> QED
      BY <2>1, <2>5
  <1> HIDE DEF available, contract, p95
  <1>7. StatusOf(available, contract, p95) \in Statuses
    BY DEF StatusOf, Statuses
  <1>8. available = Full => StatusOf(available, contract, p95) = "HEALTHY"
    <2> SUFFICES ASSUME available = Full
                 PROVE  StatusOf(available, contract, p95) = "HEALTHY"
      OBVIOUS
    <2>1. contract = 0 /\ Full \in Nat \ {0}
      BY <1>6, RoutingAssumption
    <2>2. /\ ~(2 * available < Full) /\ ~(5 * contract > Full)
          /\ ~(100 * available < 95 * Full) /\ ~(50 * contract > Full) /\ ~(p95 > 1500)
      BY <1>5, <2>1
    <2> QED
      BY <2>2 DEF StatusOf
  <1>9. /\ h.status = StatusOf(available, contract, p95) /\ h.available = available
        /\ h.contract = contract /\ h.p95 = p95
    BY <1>4
  <1>10. h \in Health
    BY <1>3, <1>4, <1>5, <1>7 DEF Health
  <1> QED
    BY <1>2, <1>6, <1>8, <1>9, <1>10 DEF available, contract

(* What Latest keeps, and where it comes from. *)
LEMMA LatestFacts ==
    ASSUME NEW s \in Seq(Modes), s # <<>>, NEW k \in Nat \ {0}
    PROVE  /\ Latest(s, k) \in Seq(Modes) /\ Latest(s, k) # <<>>
           /\ Len(Latest(s, k)) = IF Len(s) <= k THEN Len(s) ELSE k
           /\ \A i \in 1 .. Len(Latest(s, k)) :
                 Latest(s, k)[i] = s[Len(s) - Len(Latest(s, k)) + i]
  <1>1. Len(s) \in Nat \ {0}
    BY EmptySeq, LenProperties
  <1>2. CASE Len(s) <= k
    BY <1>1, <1>2 DEF Latest
  <1>3. CASE Len(s) > k
    <2>1. Latest(s, k) = SubSeq(s, Len(s) - k + 1, Len(s))
      BY <1>1, <1>3 DEF Latest
    <2>2. /\ Len(s) - k + 1 \in 1 .. Len(s) /\ Len(s) \in Len(s) - k + 1 .. Len(s)
          /\ Len(s) - (Len(s) - k + 1) + 1 = k
      BY <1>1, <1>3
    <2>3. /\ SubSeq(s, Len(s) - k + 1, Len(s)) \in Seq(Modes)
          /\ Len(SubSeq(s, Len(s) - k + 1, Len(s))) = k
          /\ \A i \in 1 .. k : SubSeq(s, Len(s) - k + 1, Len(s))[i]
                                  = s[Len(s) - k + 1 + i - 1]
      BY <1>1, <1>3, <2>2, SubSeqProperties
    <2>4. \A i \in 1 .. k : Len(s) - k + 1 + i - 1 = Len(s) - k + i
      BY <1>1
    <2>5. Latest(s, k) # <<>>
      BY <2>1, <2>3, EmptySeq
    <2> QED
      BY <1>3, <2>1, <2>3, <2>4, <2>5
  <1> QED
    BY <1>1, <1>2, <1>3
-----------------------------------------------------------------------------
RouteTypes ==
    /\ mode \in [Nodes -> Modes]
    /\ probing \in [Nodes -> Modes \cup {"none"}]
    /\ results \in [Nodes -> Seq(Modes)]
    /\ \A n \in Nodes : Len(results[n]) <= Window + 1
    /\ newest \in Nodes
    /\ commands \in 0 .. MaxCommands

(* What a node has observed is the health of its latest results, which are *)
(* not empty, and one of the nodes that have observed was the last.        *)
Computed ==
    /\ DOMAIN observed \subseteq Nodes
    /\ \A n \in DOMAIN observed :
          /\ results[n] # <<>>
          /\ \E k \in {Window, Window + 1} :
                observed[n] = ComputeHealth(Latest(results[n], k))
    /\ DOMAIN observed # {} => newest \in DOMAIN observed

RouteInv == RouteTypes /\ Computed

(* The results a node's health is computed from make a window. *)
LEMMA WindowTypes ==
    ASSUME NEW k \in {Window, Window + 1}, NEW s \in Seq(Modes), s # <<>>
    PROVE  k \in Nat \ {0} /\ k <= Window + 1 /\ Latest(s, k) \in Windows
  <1>1. k \in Nat \ {0} /\ k <= Window + 1 /\ Window \in Nat
    BY RoutingAssumption
  <1>2. /\ Latest(s, k) \in Seq(Modes) /\ Latest(s, k) # <<>>
        /\ Len(Latest(s, k)) = IF Len(s) <= k THEN Len(s) ELSE k
    BY <1>1, LatestFacts
  <1>3. Len(s) \in Nat \ {0}
    BY EmptySeq, LenProperties
  <1> QED
    BY <1>1, <1>2, <1>3 DEF Windows

(* Every result that is recorded is the last, and they never exceed the    *)
(* longest window.                                                         *)
LEMMA KeptFacts ==
    ASSUME NEW s \in Seq(Modes), NEW m \in Modes
    PROVE  /\ Kept(Append(s, m)) \in Seq(Modes) /\ Kept(Append(s, m)) # <<>>
           /\ Len(Kept(Append(s, m))) <= Window + 1
  <1> DEFINE longer == Append(s, m)
             longest == Window + 1
  <1>1. longer \in Seq(Modes) /\ longer # <<>>
    BY AppendProperties
  <1>2. longest \in Nat \ {0}
    BY RoutingAssumption
  <1>3. Len(longer) \in Nat
    BY <1>1, LenProperties
  <1>4. Kept(longer) = Latest(longer, longest)
    BY DEF Kept
  <1> HIDE DEF longer, longest
  <1>5. /\ Latest(longer, longest) \in Seq(Modes) /\ Latest(longer, longest) # <<>>
        /\ Len(Latest(longer, longest)) <= longest
    BY <1>1, <1>2, <1>3, LatestFacts
  <1> QED
    BY <1>4, <1>5 DEF longer, longest

(* What is true of a node that has observed, by name. *)
LEMMA Observation ==
    ASSUME RouteInv, NEW n \in DOMAIN observed
    PROVE  /\ n \in Nodes /\ results[n] \in Seq(Modes) /\ results[n] # <<>>
           /\ observed[n] \in Health /\ observed[n].p95 \in Latencies
           /\ observed[n].available = Full =>
                  observed[n].contract = 0 /\ observed[n].status = "HEALTHY"
  <1>1. n \in Nodes /\ results[n] \in Seq(Modes) /\ results[n] # <<>>
    BY DEF RouteInv, RouteTypes, Computed
  <1>2. PICK k \in {Window, Window + 1} :
           observed[n] = ComputeHealth(Latest(results[n], k))
    BY DEF RouteInv, Computed
  <1>3. Latest(results[n], k) \in Windows
    BY <1>1, WindowTypes
  <1> QED
    BY <1>1, <1>2, <1>3, HealthFacts

(* Ending a probe is the one step that records and observes anything.      *)
LEMMA EndProbeStep ==
    ASSUME RouteInv, NEW n \in Nodes, EndProbe(n)
    PROVE  RouteInv'
  <1>1. RouteTypes /\ Computed
    BY DEF RouteInv
  <1>2. probing[n] \in Modes /\ results[n] \in Seq(Modes)
    BY <1>1 DEF EndProbe, RouteTypes
  <1>3. PICK s \in Seq(Modes) : /\ results' = [results EXCEPT ![n] = s]
                                /\ s # <<>> /\ Len(s) <= Window + 1
    BY <1>2, KeptFacts DEF EndProbe
  <1>4. RouteTypes'
    <2>1. results' \in [Nodes -> Seq(Modes)]
          /\ \A q \in Nodes : Len(results'[q]) <= Window + 1
      BY <1>1, <1>3 DEF RouteTypes
    <2> QED
      BY <1>1, <2>1 DEF EndProbe, RouteTypes
  <1>5. PICK k \in {Window, Window + 1} :
           observed' = [m \in DOMAIN observed \cup {n} |->
                          IF m = n THEN ComputeHealth(Latest(results'[n], k))
                          ELSE observed[m]]
    BY DEF EndProbe
  <1>6. /\ DOMAIN observed' = DOMAIN observed \cup {n}
        /\ observed'[n] = ComputeHealth(Latest(results'[n], k))
        /\ \A m \in DOMAIN observed : m # n => observed'[m] = observed[m]
    BY <1>5
  <1>7. results'[n] = s /\ \A m \in Nodes : m # n => results'[m] = results[m]
    BY <1>1, <1>3 DEF RouteTypes
  <1>8. newest' = n
    BY DEF EndProbe
  <1>9. Computed'
    <2>1. ASSUME NEW m \in DOMAIN observed'
          PROVE  /\ results'[m] # <<>>
                 /\ \E j \in {Window, Window + 1} :
                       observed'[m] = ComputeHealth(Latest(results'[m], j))
      <3>1. CASE m = n
        BY <1>3, <1>6, <1>7, <3>1
      <3>2. CASE m # n
        <4>1. m \in DOMAIN observed /\ m \in Nodes
          BY <1>1, <1>6, <2>1, <3>2 DEF Computed
        <4>2. observed'[m] = observed[m] /\ results'[m] = results[m]
          BY <1>6, <1>7, <3>2, <4>1
        <4> QED
          BY <1>1, <4>1, <4>2 DEF Computed
      <3> QED
        BY <3>1, <3>2
    <2>2. DOMAIN observed' \subseteq Nodes /\ newest' \in DOMAIN observed'
      BY <1>1, <1>6, <1>8 DEF Computed
    <2> QED
      BY <2>1, <2>2 DEF Computed
  <1> QED
    BY <1>4, <1>9 DEF RouteInv

(* The others only change modes and begin probes.                          *)
LEMMA RouteStep == RouteInv /\ [Next]_vars => RouteInv'
  <1> SUFFICES ASSUME RouteInv, [Next]_vars
               PROVE  RouteInv'
    OBVIOUS
  <1>1. RouteTypes /\ Computed
    BY DEF RouteInv
  <1>2. ASSUME NEW n \in Nodes, NEW m \in Modes, InjectFailure(n, m)
        PROVE  RouteInv'
    <2>1. mode' \in [Nodes -> Modes] /\ commands' \in 0 .. MaxCommands
      BY <1>1, <1>2, RoutingAssumption DEF InjectFailure, RouteTypes
    <2> QED
      BY <1>1, <1>2, <2>1 DEF InjectFailure, RouteInv, RouteTypes, Computed
  <1>3. ASSUME NEW n \in Nodes, BeginProbe(n)
        PROVE  RouteInv'
    <2>1. probing' \in [Nodes -> Modes \cup {"none"}]
      BY <1>1, <1>3 DEF BeginProbe, RouteTypes
    <2> QED
      BY <1>1, <1>3, <2>1 DEF BeginProbe, RouteInv, RouteTypes, Computed
  <1>4. CASE UNCHANGED vars
    BY <1>1, <1>4 DEF vars, RouteInv, RouteTypes, Computed
  <1> QED
    BY <1>2, <1>3, <1>4, EndProbeStep DEF Next

(* No node has observed anything at first. *)
LEMMA RouteInit == Init => RouteInv
  <1> SUFFICES ASSUME Init
               PROVE  RouteInv
    OBVIOUS
  <1>1. "normal" \in Modes
    BY DEF Modes, Probe
  <1>2. \A n \in Nodes : results[n] = <<>> /\ Len(results[n]) = 0
    BY DEF Init
  <1>3. RouteTypes
    <2>1. Window \in Nat /\ MaxCommands \in Nat
      BY RoutingAssumption
    <2>2. results \in [Nodes -> Seq(Modes)]
      BY EmptySeq DEF Init
    <2> QED
      BY <1>1, <1>2, <2>1, <2>2 DEF Init, RouteTypes
  <1>4. Computed
    <2>1. DOMAIN observed = {}
      BY DEF Init
    <2> QED
      BY <2>1 DEF Computed
  <1> QED
    BY <1>3, <1>4 DEF RouteInv

(* Probes are of known modes and the windows never too long, and whatever  *)
(* a node observes is a status with shares of the whole.                   *)
THEOREM TypeCorrect == Spec => []TypeOK
  <1>1. RouteInv => TypeOK
    <2> SUFFICES ASSUME RouteInv
                 PROVE  TypeOK
      OBVIOUS
    <2>1. \A n \in DOMAIN observed : observed[n] \in Health
      BY Observation
    <2> QED
      BY <2>1 DEF RouteInv, RouteTypes, Computed, TypeOK
  <1> QED
    BY <1>1, RouteInit, RouteStep, PTL DEF Spec

-----------------------------------------------------------------------------
Last(s, count) == {s[i] : i \in {j \in DOMAIN s : j > Len(s) - count}}

(* The last results of a node are the last of the window its health is     *)
(* computed from, as far as that reaches.                                  *)
LEMMA LastOnes ==
    ASSUME NEW s \in Seq(Modes), s # <<>>, NEW k \in Nat \ {0},
           NEW w, w = Latest(s, k), NEW count \in Nat \ {0}, count <= Len(s)
    PROVE  \E t \in 1 .. Len(w) :
              /\ t = IF count <= Len(w) THEN count ELSE Len(w)
              /\ \A i \in Len(w) - t + 1 .. Len(w) : w[i] \in Last(s, count)
  <1> DEFINE t == IF count <= Len(w) THEN count ELSE Len(w)
  <1>1. /\ Len(s) \in Nat \ {0} /\ DOMAIN s = 1 .. Len(s)
        /\ Len(w) \in Nat \ {0} /\ Len(w) <= Len(s)
        /\ \A i \in 1 .. Len(w) : w[i] = s[Len(s) - Len(w) + i]
    <2>1. Len(s) \in Nat \ {0} /\ DOMAIN s = 1 .. Len(s)
      BY EmptySeq, LenProperties
    <2>2. Len(w) = IF Len(s) <= k THEN Len(s) ELSE k
      BY LatestFacts
    <2>3. Len(w) \in Nat \ {0} /\ Len(w) <= Len(s)
      BY <2>1, <2>2
    <2> QED
      BY <2>1, <2>3, LatestFacts
  <1>2. t \in 1 .. Len(w) /\ t <= count
    BY <1>1
  <1> HIDE DEF t
  <1>3. ASSUME NEW i \in Len(w) - t + 1 .. Len(w)
        PROVE  w[i] \in Last(s, count)
    <2>1. i \in 1 .. Len(w) /\ i > Len(w) - count
      BY <1>1, <1>2
    <2>2. Len(s) - Len(w) + i \in 1 .. Len(s) /\ Len(s) - Len(w) + i > Len(s) - count
      BY <1>1, <2>1
    <2> QED
      BY <1>1, <2>1, <2>2 DEF Last
  <1>4. t = IF count <= Len(w) THEN count ELSE Len(w)
    BY DEF t
  <1> QED
    BY <1>2, <1>3, <1>4

(* The number of the first elements, and of the last. *)
LEMMA Counted ==
    \A n \in Nat : /\ IsFiniteSet(1 .. n) /\ Cardinality(1 .. n) = n
                   /\ \A t \in 1 .. n : Cardinality(n - t + 1 .. n) = t
  <1> SUFFICES ASSUME NEW n \in Nat
               PROVE  /\ IsFiniteSet(1 .. n) /\ Cardinality(1 .. n) = n
                      /\ \A t \in 1 .. n : Cardinality(n - t + 1 .. n) = t
    OBVIOUS
  <1>1. IsFiniteSet(1 .. n) /\ Cardinality(1 .. n) = n
    BY FS_Interval
  <1>2. ASSUME NEW t \in 1 .. n
        PROVE  Cardinality(n - t + 1 .. n) = t
    <2>1. /\ n - t + 1 \in Int /\ n \in Int /\ ~(n - t + 1 > n)
          /\ n - (n - t + 1) + 1 = t
      OBVIOUS
    <2>2. Cardinality(n - t + 1 .. n) = n - (n - t + 1) + 1
      BY <2>1, FS_Interval
    <2> QED
      BY <2>1, <2>2
  <1> QED
    BY <1>1, <1>2

(* Less than a half, and more than a fifth, of the parts. *)
LEMMA Portions ==
    \A n, c \in Nat, part \in Nat \ {0} :
       /\ 2 * c < n => 2 * (c * part) < n * part
       /\ 5 * c > n => 5 * (c * part) > n * part
  <1> SUFFICES ASSUME NEW n \in Nat, NEW c \in Nat, NEW part \in Nat \ {0}
               PROVE  /\ 2 * c < n => 2 * (c * part) < n * part
                      /\ 5 * c > n => 5 * (c * part) > n * part
    OBVIOUS
  <1>1. /\ (n - 2 * c) * part = n * part - 2 * (c * part)
        /\ (5 * c - n) * part = 5 * (c * part) - n * part
        /\ c * part \in Nat /\ n * part \in Nat
    OBVIOUS
  <1>2. \A d \in Int : d > 0 => d * part > 0
    OBVIOUS
  <1>3. n - 2 * c \in Int /\ 5 * c - n \in Int
    OBVIOUS
  <1> QED
    BY <1>1, <1>2, <1>3

(* A window whose last probes failed, more than half of it, was not        *)
(* available for half of it.                                               *)
LEMMA HalfFailed ==
    ASSUME NEW w \in Windows, NEW t \in 1 .. Len(w), 2 * t > Len(w),
           \A i \in Len(w) - t + 1 .. Len(w) : ~Probe[w[i]].success
    PROVE  2 * Share(w, "success") < Full
  <1> DEFINE part == Full \div Len(w)
             good == Cardinality(Having(w, "success"))
  <1>1. /\ Len(w) \in 1 .. Window + 1 /\ Len(w) \in Nat /\ t \in Nat
        /\ \A i \in 1 .. Len(w) : w[i] \in Modes
    BY RoutingAssumption DEF Windows
  <1>2. /\ part \in Nat \ {0} /\ Full = Len(w) * part
        /\ Share(w, "success") = good * part /\ good \in Nat
    BY <1>1, FullDivides, ShareFacts
  <1>3. Having(w, "success") \subseteq 1 .. Len(w) - t
    <2> SUFFICES ASSUME NEW i \in Having(w, "success")
                 PROVE  i \in 1 .. Len(w) - t
      OBVIOUS
    <2>1. i \in 1 .. Len(w) /\ Probe[w[i]]["success"]
      BY ShareFacts DEF Having
    <2>2. Probe[w[i]].success
      BY <1>1, <2>1, ProbeFacts
    <2> QED
      BY <1>1, <2>1, <2>2
  <1>4. good <= Len(w) - t
    <2>1. Len(w) - t \in Nat
      BY <1>1
    <2>2. IsFiniteSet(1 .. Len(w) - t) /\ Cardinality(1 .. Len(w) - t) = Len(w) - t
      BY <2>1, Counted
    <2> QED
      BY <1>3, <2>2, FS_Subset
  <1> HIDE DEF good, part
  <1>5. 2 * good < Len(w)
    BY <1>1, <1>2, <1>4
  <1> QED
    BY <1>1, <1>2, <1>5, Portions

(* One whose last probes violated the contract, more than a fifth of it,   *)
(* did so for a fifth of it.                                               *)
LEMMA FifthViolated ==
    ASSUME NEW w \in Windows, NEW t \in 1 .. Len(w), 5 * t > Len(w),
           \A i \in Len(w) - t + 1 .. Len(w) : Probe[w[i]].contract
    PROVE  5 * Share(w, "contract") > Full
  <1> DEFINE part == Full \div Len(w)
             bad == Cardinality(Having(w, "contract"))
  <1>1. /\ Len(w) \in 1 .. Window + 1 /\ Len(w) \in Nat /\ t \in Nat
        /\ DOMAIN w = 1 .. Len(w) /\ \A i \in 1 .. Len(w) : w[i] \in Modes
    BY RoutingAssumption DEF Windows
  <1>2. /\ part \in Nat \ {0} /\ Full = Len(w) * part
        /\ Share(w, "contract") = bad * part /\ bad \in Nat
    BY <1>1, FullDivides, ShareFacts
  <1>3. Len(w) - t + 1 .. Len(w) \subseteq Having(w, "contract")
    <2> SUFFICES ASSUME NEW i \in Len(w) - t + 1 .. Len(w)
                 PROVE  i \in Having(w, "contract")
      OBVIOUS
    <2>1. i \in 1 .. Len(w)
      BY <1>1
    <2>2. Probe[w[i]]["contract"]
      BY <1>1, <2>1, ProbeFacts
    <2> QED
      BY <1>1, <2>1, <2>2 DEF Having
  <1>4. t <= bad
    <2>1. IsFiniteSet(1 .. Len(w))
      BY <1>1, FS_Interval
    <2>2. IsFiniteSet(Having(w, "contract"))
      BY <2>1, ShareFacts, FS_Subset
    <2>3. Cardinality(Len(w) - t + 1 .. Len(w)) = t
      BY <1>1, Counted
    <2> QED
      BY <1>3, <2>2, <2>3, FS_Subset
  <1> HIDE DEF bad, part
  <1>5. 5 * bad > Len(w)
    BY <1>1, <1>2, <1>4
  <1> QED
    BY <1>1, <1>2, <1>5, Portions

(* Whichever of the two windows a node computes its health from, more than *)
(* half of the longer one is more than half of it, and a fifth likewise;   *)
(* and what is not available for half, or violates the contract for more   *)
(* than a fifth, is UNHEALTHY.                                             *)
THEOREM FailuresNoticed == Spec => []FailingNoticed
  <1>1. RouteInv => FailingNoticed
    <2> DEFINE half == (Window + 1) \div 2 + 1
               fifth == (Window + 1) \div 5 + 1
    <2> SUFFICES ASSUME RouteInv, NEW n \in DOMAIN observed,
                        \/ /\ Len(results[n]) >= half
                           /\ \A m \in Last(results[n], half) : ~Probe[m].success
                        \/ /\ Len(results[n]) >= fifth
                           /\ \A m \in Last(results[n], fifth) : Probe[m].contract
                 PROVE  observed[n].status = "UNHEALTHY"
      BY DEF FailingNoticed, Last
    <2>1. /\ half \in Nat \ {0} /\ 2 * half > Window + 1
          /\ fifth \in Nat \ {0} /\ 5 * fifth > Window + 1
      BY RoutingAssumption
    <2>2. results[n] \in Seq(Modes) /\ results[n] # <<>>
      BY Observation
    <2>3. PICK k \in {Window, Window + 1} :
             observed[n] = ComputeHealth(Latest(results[n], k))
      BY DEF RouteInv, Computed
    <2> DEFINE w == Latest(results[n], k)
    <2>4. k \in Nat \ {0} /\ w \in Windows
      BY <2>2, WindowTypes
    <2>5. /\ observed[n].status
                = StatusOf(Share(w, "success"), Share(w, "contract"), observed[n].p95)
      BY <2>3, <2>4, HealthFacts
    <2>6. Len(w) \in Nat \ {0} /\ Len(w) <= Window + 1
      BY <2>4, RoutingAssumption DEF Windows
    <2> HIDE DEF half, fifth
    <2>7. w = Latest(results[n], k)
      OBVIOUS
    <2> HIDE DEF w
    <2>8. CASE /\ Len(results[n]) >= half
               /\ \A m \in Last(results[n], half) : ~Probe[m].success
      <3>1. PICK t \in 1 .. Len(w) :
               /\ t = IF half <= Len(w) THEN half ELSE Len(w)
               /\ \A i \in Len(w) - t + 1 .. Len(w) : w[i] \in Last(results[n], half)
        BY <2>1, <2>2, <2>4, <2>7, <2>8, LastOnes
      <3>2. 2 * t > Len(w)
        BY <2>1, <2>6, <3>1, RoutingAssumption
      <3>3. 2 * Share(w, "success") < Full
        BY <2>4, <2>8, <3>1, <3>2, HalfFailed
      <3> QED
        BY <2>5, <3>3 DEF StatusOf
    <2>9. CASE /\ Len(results[n]) >= fifth
               /\ \A m \in Last(results[n], fifth) : Probe[m].contract
      <3>1. PICK t \in 1 .. Len(w) :
               /\ t = IF fifth <= Len(w) THEN fifth ELSE Len(w)
               /\ \A i \in Len(w) - t + 1 .. Len(w) : w[i] \in Last(results[n], fifth)
        BY <2>1, <2>2, <2>4, <2>7, <2>9, LastOnes
      <3>2. 5 * t > Len(w)
        BY <2>1, <2>6, <3>1, RoutingAssumption
      <3>3. 5 * Share(w, "contract") > Full
        BY <2>4, <2>9, <3>1, <3>2, FifthViolated
      <3> QED
        BY <2>5, <3>3 DEF StatusOf
    <2> QED
      BY <2>8, <2>9
  <1> QED
    BY <1>1, RouteInit, RouteStep, PTL DEF Spec
-----------------------------------------------------------------------------
(* What a quotient is, of a multiple and of less. *)
LEMMA Quotients ==
    \A m \in Nat \ {0}, whole \in Nat, x \in Int :
       /\ x \div m \in Int
       /\ 0 <= x => 0 <= x \div m
       /\ x = m * whole => x \div m = whole
       /\ x < m * whole => x \div m < whole
       /\ x = 0 => x \div m = 0
  <1> SUFFICES ASSUME NEW m \in Nat \ {0}, NEW whole \in Nat, NEW x \in Int
               PROVE  /\ x \div m \in Int
                      /\ 0 <= x => 0 <= x \div m
                      /\ x = m * whole => x \div m = whole
                      /\ x < m * whole => x \div m < whole
                      /\ x = 0 => x \div m = 0
    OBVIOUS
  <1> DEFINE q == x \div m
             rest == x % m
  <1>1. q \in Int /\ rest \in Int /\ 0 <= rest /\ rest < m /\ x = m * q + rest
    OBVIOUS
  <1> HIDE DEF q, rest
  <1>2. \A a, b \in Int : a < b => m * a + m <= m * b
    <2> SUFFICES ASSUME NEW a \in Int, NEW b \in Int, a < b
                 PROVE  m * a + m <= m * b
      OBVIOUS
    <2>1. b - (a + 1) \in Nat
      OBVIOUS
    <2>2. m * (b - (a + 1)) \in Nat
      BY <2>1
    <2>3. m * (b - (a + 1)) = m * b - (m * a + m) /\ m * b \in Int /\ m * a \in Int
      OBVIOUS
    <2> QED
      BY <2>2, <2>3
  <1>3. m * q \in Int /\ m * whole \in Int /\ m * 0 = 0
    BY <1>1
  <1>4. ASSUME 0 <= x PROVE 0 <= q
    <2>1. q < 0 => m * q + m <= m * 0
      BY <1>1, <1>2
    <2> QED
      BY <1>1, <1>3, <1>4, <2>1
  <1>5. ASSUME x < m * whole PROVE q < whole
    <2>1. whole < q => m * whole + m <= m * q
      BY <1>1, <1>2
    <2>2. whole = q => m * whole = m * q
      OBVIOUS
    <2> QED
      BY <1>1, <1>3, <1>5, <2>1, <2>2
  <1>6. ASSUME NEW n \in Int, x = m * n PROVE q = n
    <2>1. (q < n => m * q + m <= m * n) /\ (n < q => m * n + m <= m * q)
      BY <1>1, <1>2, <1>6
    <2>2. m * n \in Int
      BY <1>6
    <2> QED
      BY <1>1, <1>3, <1>6, <2>1, <2>2
  <1> QED
    BY <1>1, <1>3, <1>4, <1>5, <1>6 DEF q

(* The mean of the nodes' figures is the whole only if each of them is,    *)
(* and nothing only if each of them is.                                    *)
LEMMA Means ==
    ASSUME RouteInv, DOMAIN observed # {}
    PROVE  /\ Mean("available") \in 0 .. Full /\ Mean("contract") \in Nat
           /\ Flawless => Mean("available") = Full /\ Mean("contract") = 0
           /\ ~Flawless => Mean("available") < Full
  <1> DEFINE D == DOMAIN observed
             available == [n \in D |-> observed[n]["available"]]
             contract == [n \in D |-> observed[n]["contract"]]
             whole == [n \in D |-> Full]
             nothing == [n \in D |-> 0]
             m == Cardinality(D)
  <1>1. IsFiniteSet(D) /\ m \in Nat \ {0} /\ Full \in Nat
    <2>1. D \subseteq Nodes /\ IsFiniteSet(Nodes) /\ Full \in Nat
      BY RoutingAssumption DEF RouteInv, Computed
    <2>2. IsFiniteSet(D) /\ m \in Nat
      BY <2>1, FS_Subset, FS_CardinalityType
    <2> QED
      BY <2>1, <2>2, FS_EmptySet
  <1>2. \A n \in D :
           /\ available[n] = observed[n].available /\ available[n] \in 0 .. Full
           /\ contract[n] = observed[n].contract /\ contract[n] \in 0 .. Full
           /\ available[n] = Full => contract[n] = 0
           /\ whole[n] = Full /\ nothing[n] = 0
    BY Observation DEF Health
  <1>3. /\ Mean("available") = SumFunctionOnSet(available, D) \div m
        /\ Mean("contract") = SumFunctionOnSet(contract, D) \div m
    BY DEF Mean
  <1>4. Flawless <=> \A n \in D : available[n] = Full
    BY <1>2 DEF Flawless
  <1> HIDE DEF D, available, contract, whole, nothing, m
  <1>5. \A n \in D : /\ available[n] \in Int /\ contract[n] \in Int
                     /\ whole[n] \in Int /\ nothing[n] \in Int
                     /\ nothing[n] <= available[n] /\ available[n] <= whole[n]
                     /\ nothing[n] <= contract[n]
    BY <1>1, <1>2
  <1>6. /\ SumFunctionOnSet(whole, D) = m * Full
        /\ SumFunctionOnSet(nothing, D) = 0
    <2>1. SumFunctionOnSet(whole, D) = Cardinality(D) * Full
      BY <1>1, <1>2, SumConstant
    <2>2. SumFunctionOnSet(nothing, D) = Cardinality(D) * 0
      BY <1>1, <1>2, SumConstant
    <2> QED
      BY <1>1, <2>1, <2>2 DEF m
  <1>7. /\ SumFunctionOnSet(available, D) \in Int /\ SumFunctionOnSet(contract, D) \in Int
        /\ 0 <= SumFunctionOnSet(available, D) /\ 0 <= SumFunctionOnSet(contract, D)
        /\ SumFunctionOnSet(available, D) <= m * Full
    <2>1. /\ SumFunctionOnSet(available, D) \in Int
          /\ SumFunctionOnSet(contract, D) \in Int
      BY <1>1, <1>5, SumType
    <2>2. /\ SumFunctionOnSet(nothing, D) <= SumFunctionOnSet(available, D)
          /\ SumFunctionOnSet(nothing, D) <= SumFunctionOnSet(contract, D)
          /\ SumFunctionOnSet(available, D) <= SumFunctionOnSet(whole, D)
      BY <1>1, <1>5, SumMonotone
    <2> QED
      BY <1>6, <2>1, <2>2
  <1>8. ASSUME Flawless
        PROVE  /\ SumFunctionOnSet(available, D) = m * Full
               /\ SumFunctionOnSet(contract, D) = 0
    <2>1. \A n \in D : available[n] = Full /\ contract[n] = 0
      BY <1>2, <1>4, <1>8
    <2>2. SumFunctionOnSet(available, D) = Cardinality(D) * Full
      BY <1>1, <2>1, SumConstant
    <2>3. SumFunctionOnSet(contract, D) = Cardinality(D) * 0
      BY <1>1, <2>1, SumConstant
    <2> QED
      BY <1>1, <2>2, <2>3 DEF m
  <1>9. ASSUME ~Flawless
        PROVE  SumFunctionOnSet(available, D) < m * Full
    <2>1. PICK n \in D : available[n] # Full
      BY <1>4, <1>9
    <2>2. available[n] + 1 <= whole[n]
      BY <1>1, <1>2, <2>1
    <2>3. SumFunctionOnSet(available, D) + 1 <= SumFunctionOnSet(whole, D)
      BY <1>1, <1>5, <2>2, SumGrows
    <2>4. m * Full \in Int
      BY <1>1
    <2> QED
      BY <1>6, <1>7, <2>3, <2>4
  <1>10. Mean("available") \in Int /\ Mean("contract") \in Int
         /\ 0 <= Mean("available") /\ 0 <= Mean("contract")
    BY <1>1, <1>3, <1>7, Quotients
  <1>11. Flawless => Mean("available") = Full /\ Mean("contract") = 0
    BY <1>1, <1>3, <1>7, <1>8, Quotients
  <1>12. ~Flawless => Mean("available") < Full
    BY <1>1, <1>3, <1>7, <1>9, Quotients
  <1> QED
    BY <1>1, <1>10, <1>11, <1>12

(* The slowest node's latency, against a limit. *)
LEMMA Slowest ==
    ASSUME RouteInv, DOMAIN observed # {}, NEW limit \in Int
    PROVE  LET p95 == P95({observed[n].p95 : n \in DOMAIN observed})
           IN  /\ p95 \in Latencies
               /\ p95 <= limit <=> \A n \in DOMAIN observed : observed[n].p95 <= limit
  <1> DEFINE S == {observed[n].p95 : n \in DOMAIN observed}
  <1>1. S \in SUBSET Latencies /\ S # {}
    BY Observation
  <1>2. P95(S) \in S /\ \A other \in S : other <= P95(S)
    BY <1>1, P95Greatest
  <1>3. \A ms \in S : ms \in Int
    BY <1>1 DEF Latencies
  <1>4. P95(S) <= limit <=> \A ms \in S : ms <= limit
    <2> HIDE DEF S
    <2> QED
      BY <1>2, <1>3
  <1>5. (\A ms \in S : ms <= limit) <=> \A n \in DOMAIN observed : observed[n].p95 <= limit
    OBVIOUS
  <1>6. P95(S) \in Latencies
    BY <1>1, <1>2
  <1> HIDE DEF S
  <1> QED
    BY <1>4, <1>5, <1>6 DEF S

(* Without a failure every node votes for HEALTHY, and the newest          *)
(* observation says so where there is no majority.                         *)
LEMMA FlawlessHealthy ==
    ASSUME RouteInv, DOMAIN observed # {}, Flawless
    PROVE  GetProviderHealth.status = "HEALTHY"
  <1>1. \A n \in DOMAIN observed : observed[n].status = "HEALTHY"
    BY Observation DEF Flawless
  <1>2. \A s : Majority(s) => s = "HEALTHY"
    <2> SUFFICES ASSUME NEW s, Majority(s), s # "HEALTHY"
                 PROVE  FALSE
      OBVIOUS
    <2>1. Voters(s) = {}
      BY <1>1 DEF Voters
    <2>2. Cardinality(Nodes) \in Nat
      BY RoutingAssumption, FS_CardinalityType
    <2>3. Cardinality(Voters(s)) = 0
      BY <2>1, FS_EmptySet
    <2> QED
      BY <2>2, <2>3 DEF Majority
  <1>3. newest \in DOMAIN observed
    BY DEF RouteInv, Computed
  <1>4. GetProviderHealth.status = IF \E s \in Statuses : Majority(s)
                                   THEN CHOOSE s \in Statuses : Majority(s)
                                   ELSE observed[newest].status
    BY DEF GetProviderHealth
  <1> QED
    BY <1>1, <1>2, <1>3, <1>4

(* What the router gets to see of the primary. *)
LEMMA Seen ==
    ASSUME RouteInv, NEW limit \in Nat
    PROVE  /\ GetProviderHealth.available \in 0 .. Full
           /\ GetProviderHealth.contract \in Nat
           /\ Flawless => /\ GetProviderHealth.available = Full
                          /\ GetProviderHealth.contract = 0
                          /\ GetProviderHealth.status = "HEALTHY"
           /\ ~Flawless => GetProviderHealth.available < Full
           /\ GetProviderHealth.p95 \in Nat
           /\ GetProviderHealth.p95 <= limit
                <=> \A n \in DOMAIN observed : observed[n].p95 <= limit
  <1>1. CASE DOMAIN observed = {}
    <2>1. /\ GetProviderHealth = AtStart /\ Flawless
          /\ \A n \in DOMAIN observed : observed[n].p95 <= limit
      BY <1>1 DEF GetProviderHealth, Flawless
    <2>2. /\ AtStart.status = "HEALTHY" /\ AtStart.available = Full
          /\ AtStart.contract = 0 /\ AtStart.p95 = 0
      BY DEF AtStart
    <2> QED
      BY <2>1, <2>2, RoutingAssumption
  <1>2. CASE DOMAIN observed # {}
    <2> DEFINE p95 == P95({observed[n].p95 : n \in DOMAIN observed})
    <2>1. /\ GetProviderHealth.available = Mean("available")
          /\ GetProviderHealth.contract = Mean("contract")
          /\ GetProviderHealth.p95 = p95
      BY <1>2 DEF GetProviderHealth
    <2>2. /\ p95 \in Latencies
          /\ p95 <= limit <=> \A n \in DOMAIN observed : observed[n].p95 <= limit
      BY <1>2, Slowest
    <2>3. p95 \in Nat
      BY <2>2 DEF Latencies
    <2> HIDE DEF p95
    <2> QED
      BY <1>2, <2>1, <2>2, <2>3, Means, FlawlessHealthy
  <1> QED
    BY <1>1, <1>2

(* A weighed sum that only the best figures bring to the full score. *)
LEMMA FullScore ==
    ASSUME NEW whole \in Nat \ {0}, NEW available \in 0 .. whole, NEW contract \in Nat,
           NEW slow \in BOOLEAN, NEW health \in {0, 5, 25}, NEW cost \in {0, 5}
    PROVE  40 * (available - contract)
                 + whole * ((IF slow THEN -20 ELSE 20) + health + cost - 0)
               >= 40 * (whole - 0) + whole * (20 + 25 + 10 - 5)
             <=> /\ available = whole /\ contract = 0 /\ ~slow
                 /\ health = 25 /\ cost = 5
  <1> DEFINE points == (IF slow THEN -20 ELSE 20) + health + cost - 0
  <1>1. points \in Int /\ points <= 50 /\ (points = 50 <=> ~slow /\ health = 25 /\ cost = 5)
    OBVIOUS
  <1> HIDE DEF points
  <1>2. whole * (20 + 25 + 10 - 5) = whole * 50 /\ whole * 50 = 50 * whole
    OBVIOUS
  <1>3. whole * points \in Int
    BY <1>1
  <1>4. points < 50 => whole * points < 50 * whole
    <2> SUFFICES ASSUME points < 50
                 PROVE  whole * points < 50 * whole
      OBVIOUS
    <2>1. 50 - points \in Nat \ {0}
      BY <1>1
    <2>2. whole * (50 - points) > 0
      BY <2>1
    <2>3. whole * (50 - points) = 50 * whole - whole * points
      BY <1>1
    <2> QED
      BY <1>3, <2>2, <2>3
  <1>5. points = 50 => whole * points = 50 * whole
    OBVIOUS
  <1>6. 40 * (available - contract) + whole * points >= 40 * whole + 50 * whole
          <=> available = whole /\ contract = 0 /\ points = 50
    BY <1>1, <1>3, <1>4, <1>5
  <1> QED
    BY <1>1, <1>2, <1>6 DEF points

(* What the score compares. *)
LEMMA PolicyTypes ==
    ASSUME NEW r \in Requests
    PROVE  /\ PolicyOf[r].maxLatencyMs \in Nat /\ PolicyOf[r].maxCost \in Int
           /\ Price \in Nat \ {0}
  <1>1. PolicyOf[r] \in Policies
    BY RoutingAssumption, PoliciesNormalized DEF PolicyOf
  <1> QED
    BY <1>1, RoutingAssumption DEF Policies

(* The fallback's score, for a request that may use it and whose latency   *)
(* it keeps to.                                                            *)
LEMMA LocalScore ==
    ASSUME NEW r \in Requests, PolicyOf[r].allowLocalFallback,
           PolicyOf[r].riskLevel # "HIGH", LocalHealth.p95 <= PolicyOf[r].maxLatencyMs
    PROVE  /\ "local" \in Eligible(r)
           /\ Score(r, "local") = 40 * (Full - 0) + Full * (20 + 25 + 10 - 5)
  <1>1. /\ LocalHealth.status = "HEALTHY" /\ LocalHealth.available = Full
        /\ LocalHealth.contract = 0 /\ LocalHealth.p95 = LocalMs
    BY DEF LocalHealth, AtStart
  <1>2. HealthOf("local") = LocalHealth
    BY DEF HealthOf
  <1>3. "local" \in Eligible(r)
    BY <1>1, <1>2 DEF Eligible
  <1>4. ~(LocalHealth.p95 > PolicyOf[r].maxLatencyMs)
    BY <1>1, PolicyTypes, RoutingAssumption DEF ProbeTimeoutMs
  <1>5. HealthPoints("HEALTHY") = 25 /\ CostPoints(r, "local") = 10
        /\ FallbackPoints(r, "local") = 5
    BY DEF HealthPoints, CostPoints, FallbackPoints
  <1> HIDE DEF LocalHealth
  <1>6. Score(r, "local") = 40 * (Full - 0) + Full * (20 + 25 + 10 - 5)
    BY <1>1, <1>2, <1>4, <1>5 DEF Score
  <1> QED
    BY <1>3, <1>6

(* The primary's score reaches the fallback's only without a failure: one  *)
(* failed probe of one node takes the mean below the whole, which no       *)
(* bonus makes good.                                                       *)
LEMMA PrimaryScore ==
    ASSUME RouteInv, NEW r \in Requests
    PROVE  Score(r, "primary") >= 40 * (Full - 0) + Full * (20 + 25 + 10 - 5)
             <=> /\ Flawless /\ PolicyOf[r].maxCost > 0
                 /\ \A n \in DOMAIN observed :
                       observed[n].p95 <= PolicyOf[r].maxLatencyMs
  <1> DEFINE g == GetProviderHealth
             limit == PolicyOf[r].maxLatencyMs
             slow == g.p95 > limit
             health == HealthPoints(g.status)
             cost == CostPoints(r, "primary")
  <1>1. /\ g.available \in 0 .. Full /\ g.contract \in Nat /\ g.p95 \in Nat
        /\ Flawless => g.available = Full /\ g.contract = 0 /\ g.status = "HEALTHY"
        /\ ~Flawless => g.available < Full
        /\ g.p95 <= limit <=> \A n \in DOMAIN observed : observed[n].p95 <= limit
    BY PolicyTypes, Seen
  <1>2. /\ health \in {0, 5, 25}
        /\ g.status = "HEALTHY" => health = 25
    BY DEF HealthPoints
  <1>3. cost \in {0, 5} /\ (cost = 5 <=> PolicyOf[r].maxCost > 0)
    BY PolicyTypes DEF CostPoints
  <1>4. limit \in Nat /\ Full \in Nat \ {0}
    BY PolicyTypes, RoutingAssumption
  <1>5. slow \in BOOLEAN /\ (~slow <=> g.p95 <= limit)
    BY <1>1, <1>4
  <1>6. FallbackPoints(r, "primary") = 0 /\ HealthOf("primary") = g
    BY DEF FallbackPoints, HealthOf
  <1>7. Score(r, "primary") = 40 * (g.available - g.contract)
                                + Full * ((IF slow THEN -20 ELSE 20) + health + cost - 0)
    BY <1>6 DEF Score
  <1> HIDE DEF g, limit, slow, health, cost
  <1>8. Score(r, "primary") >= 40 * (Full - 0) + Full * (20 + 25 + 10 - 5)
          <=> /\ g.available = Full /\ g.contract = 0 /\ ~slow
              /\ health = 25 /\ cost = 5
    BY <1>1, <1>2, <1>3, <1>4, <1>5, <1>7, FullScore
  <1>9. g.available = Full <=> Flawless
    BY <1>1, <1>4
  <1>10. Score(r, "primary") >= 40 * (Full - 0) + Full * (20 + 25 + 10 - 5)
          <=> /\ Flawless /\ PolicyOf[r].maxCost > 0
              /\ \A n \in DOMAIN observed : observed[n].p95 <= limit
    BY <1>1, <1>2, <1>3, <1>5, <1>8, <1>9
  <1> QED
    BY <1>10 DEF limit

(* For any number of nodes, any window and any request that may use the    *)
(* fallback and whose latency the fallback keeps to: it is sent to the     *)
(* primary exactly when no window holds a failed probe and the primary     *)
(* keeps to the limits.                                                    *)
THEOREM PrimaryOnlyFlawless == Spec => []PrimaryIffFlawless
  <1>1. RouteInv => PrimaryIffFlawless
    <2> SUFFICES ASSUME RouteInv, NEW r \in Requests,
                        PolicyOf[r].allowLocalFallback, PolicyOf[r].riskLevel # "HIGH",
                        LocalHealth.p95 <= PolicyOf[r].maxLatencyMs
                 PROVE  Selected(r) = "primary" <=> Flawless /\ WithinLimits(r)
      BY DEF PrimaryIffFlawless
    <2> DEFINE full == 40 * (Full - 0) + Full * (20 + 25 + 10 - 5)
    <2>1. "local" \in Eligible(r) /\ Score(r, "local") = full
      BY LocalScore
    <2>2. Selected(r) = "primary"
            <=> "primary" \in Eligible(r) /\ Score(r, "primary") >= full
      BY <2>1 DEF Selected
    <2>3. Score(r, "primary") >= full
            <=> /\ Flawless /\ PolicyOf[r].maxCost > 0
                /\ \A n \in DOMAIN observed :
                      observed[n].p95 <= PolicyOf[r].maxLatencyMs
      BY PrimaryScore
    <2>4. "primary" \in Eligible(r)
            <=> /\ GetProviderHealth.status # "UNHEALTHY"
                /\ ~(PolicyOf[r].maxCost > 0 /\ Price > PolicyOf[r].maxCost)
      BY DEF Eligible, HealthOf
    <2>5. Flawless => GetProviderHealth.status = "HEALTHY"
      BY PolicyTypes, Seen
    <2> HIDE DEF full
    <2>6. /\ PolicyOf[r].maxCost \in Int /\ Price \in Nat \ {0}
          /\ WithinLimits(r) <=> /\ Price <= PolicyOf[r].maxCost
                                 /\ \A n \in DOMAIN observed :
                                       observed[n].p95 <= PolicyOf[r].maxLatencyMs
      BY PolicyTypes DEF WithinLimits
    <2> QED
      BY <2>2, <2>3, <2>4, <2>5, <2>6
  <1> QED
    BY <1>1, RouteInit, RouteStep, PTL DEF Spec
=============================================================================
