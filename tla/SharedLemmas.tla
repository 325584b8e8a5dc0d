---------------------------- MODULE SharedLemmas -----------------------------
(***************************************************************************)
(* What the proofs about RequestPath and HealthRouting both rest on: the   *)
(* policies FromRequest builds, and sums of a function over a finite set,  *)
(* the community modules' SumFunctionOnSet.                                *)
(***************************************************************************)
EXTENDS Policy, FiniteSetsExt, FiniteSetTheorems, TLAPS

-----------------------------------------------------------------------------
(* Whatever the request's risk level and whichever fields its own policy   *)
(* sets to whatever values, the handler meets a policy with a positive     *)
(* latency, and retries and a quality score that are not negative.         *)
THEOREM PoliciesNormalized ==
    ASSUME NEW req, IsRequestPolicy(req.policy)
    PROVE  FromRequest(req) \in Policies
  <1> DEFINE d == DefaultPolicy(NormalizeRisk(req.riskLevel))
             fields == {"riskLevel", "maxLatencyMs", "maxCost", "minimumQualityScore",
                        "allowLocalFallback", "requiresHumanOnFailure", "maxRetries",
                        "idempotent"}
             a == Override(d, req.policy)
             b == FromRequest(req)
  <1>1. NormalizeRisk(req.riskLevel) \in RiskLevels
    BY DEF NormalizeRisk, RiskLevels
  <1>2. \A risk \in RiskLevels :
           /\ DOMAIN DefaultPolicy(risk) = fields
           /\ DefaultPolicy(risk).riskLevel \in RiskLevels
           /\ DefaultPolicy(risk).maxLatencyMs \in Int
           /\ DefaultPolicy(risk).maxCost \in Int
           /\ DefaultPolicy(risk).minimumQualityScore \in Int
           /\ DefaultPolicy(risk).allowLocalFallback \in BOOLEAN
           /\ DefaultPolicy(risk).requiresHumanOnFailure \in BOOLEAN
           /\ DefaultPolicy(risk).maxRetries \in Int
           /\ DefaultPolicy(risk).idempotent \in BOOLEAN
    <2> SUFFICES ASSUME NEW risk \in RiskLevels, NEW p, p = DefaultPolicy(risk)
                 PROVE  /\ DOMAIN p = fields
                        /\ p.riskLevel \in RiskLevels /\ p.maxLatencyMs \in Int
                        /\ p.maxCost \in Int /\ p.minimumQualityScore \in Int
                        /\ p.allowLocalFallback \in BOOLEAN
                        /\ p.requiresHumanOnFailure \in BOOLEAN
                        /\ p.maxRetries \in Int /\ p.idempotent \in BOOLEAN
      OBVIOUS
    <2>1. CASE risk = "HIGH"
      <3>1. p = [riskLevel |-> risk, maxLatencyMs |-> 1500, maxCost |-> 1000,
                 minimumQualityScore |-> 85, allowLocalFallback |-> FALSE,
                 requiresHumanOnFailure |-> TRUE, maxRetries |-> 1,
                 idempotent |-> FALSE]
        BY <2>1 DEF DefaultPolicy
      <3> QED
        BY <3>1
    <2>2. CASE risk = "MEDIUM"
      <3>1. p = [riskLevel |-> risk, maxLatencyMs |-> 2000, maxCost |-> 400,
                 minimumQualityScore |-> 80, allowLocalFallback |-> TRUE,
                 requiresHumanOnFailure |-> FALSE, maxRetries |-> 1,
                 idempotent |-> TRUE]
        BY <2>2 DEF DefaultPolicy
      <3> QED
        BY <3>1
    <2>3. CASE risk = "LOW"
      <3>1. p = [riskLevel |-> risk, maxLatencyMs |-> 3000, maxCost |-> 200,
                 minimumQualityScore |-> 70, allowLocalFallback |-> TRUE,
                 requiresHumanOnFailure |-> FALSE, maxRetries |-> 2,
                 idempotent |-> TRUE]
        BY <2>3 DEF DefaultPolicy
      <3> QED
        BY <3>1
    <2> QED
      BY <2>1, <2>2, <2>3 DEF RiskLevels
  <1>3. /\ DOMAIN d = fields
        /\ d.riskLevel \in RiskLevels /\ d.maxLatencyMs \in Int /\ d.maxCost \in Int
        /\ d.minimumQualityScore \in Int /\ d.allowLocalFallback \in BOOLEAN
        /\ d.requiresHumanOnFailure \in BOOLEAN /\ d.maxRetries \in Int
        /\ d.idempotent \in BOOLEAN
    BY <1>1, <1>2
  <1> HIDE DEF d
  <1>4. /\ DOMAIN a = fields
        /\ a = [f \in fields |-> a[f]]
        /\ a.riskLevel \in RiskLevels /\ a.maxLatencyMs \in Int /\ a.maxCost \in Int
        /\ a.minimumQualityScore \in Int /\ a.allowLocalFallback \in BOOLEAN
        /\ a.requiresHumanOnFailure \in BOOLEAN /\ a.maxRetries \in Int
        /\ a.idempotent \in BOOLEAN
    BY <1>3 DEF Override, IsRequestPolicy, FieldTypes
  <1> HIDE DEF a
  <1>5. b = [f \in fields |->
               IF f = "maxLatencyMs" /\ a[f] <= 0 THEN 3000
               ELSE IF f \in {"maxRetries", "minimumQualityScore"} /\ a[f] < 0
                    THEN 0 ELSE a[f]]
    BY <1>4 DEF FromRequest, a, d
  <1> HIDE DEF b
  <1>6. /\ b = [f \in fields |-> b[f]]
        /\ b.riskLevel = a.riskLevel /\ b.maxCost = a.maxCost
        /\ b.allowLocalFallback = a.allowLocalFallback
        /\ b.requiresHumanOnFailure = a.requiresHumanOnFailure
        /\ b.idempotent = a.idempotent
        /\ b.maxLatencyMs = IF a.maxLatencyMs <= 0 THEN 3000 ELSE a.maxLatencyMs
        /\ b.maxRetries = IF a.maxRetries < 0 THEN 0 ELSE a.maxRetries
        /\ b.minimumQualityScore = IF a.minimumQualityScore < 0 THEN 0
                                   ELSE a.minimumQualityScore
    BY <1>5
  <1>7. /\ b.riskLevel \in RiskLevels /\ b.maxLatencyMs \in Nat \ {0}
        /\ b.maxCost \in Int /\ b.minimumQualityScore \in Nat
        /\ b.allowLocalFallback \in BOOLEAN /\ b.requiresHumanOnFailure \in BOOLEAN
        /\ b.maxRetries \in Nat /\ b.idempotent \in BOOLEAN
    BY <1>4, <1>6
  <1>8. b \in Policies
    BY <1>6, <1>7 DEF Policies
  <1> QED
    BY <1>8 DEF b

-----------------------------------------------------------------------------
(* What holds of every subset, or of the sum over it, is shown by taking a *)
(* minimal one for which it fails: strict inclusion is well founded on the *)
(* subsets of a finite set.                                                *)
LEMMA MinimalSubset ==
    ASSUME NEW S, IsFiniteSet(S), NEW F \in SUBSET SUBSET S, F # {}
    PROVE  \E T \in F : \A x \in T : \A U \in SUBSET (T \ {x}) : U \notin F
  <1>1. IsWellFoundedOn(StrictSubsetOrdering(S), SUBSET S)
    BY FS_StrictSubsetOrderingWellFounded, FS_FiniteSubsetsOfFinite
  <1>2. PICK T \in F : \A U \in F : ~ (<<U, T>> \in StrictSubsetOrdering(S))
    BY <1>1, WFMin
  <1>3. ASSUME NEW x \in T, NEW U \in SUBSET (T \ {x}), U \in F
        PROVE  FALSE
    <2>1. U \in SUBSET S /\ T \in SUBSET S /\ U \subseteq T /\ U # T
      BY <1>3
    <2>2. <<U, T>> \in StrictSubsetOrdering(S)
      BY <2>1 DEF StrictSubsetOrdering
    <2> QED
      BY <1>2, <1>3, <2>2
  <1> QED
    BY <1>3

(* So what holds of the empty set and is kept by adding one element holds  *)
(* of the whole set.                                                       *)
LEMMA SetInduction ==
    ASSUME NEW S, IsFiniteSet(S), NEW F \in SUBSET SUBSET S, {} \in F,
           \A T \in F : \A x \in S \ T : T \cup {x} \in F
    PROVE  S \in F
  <1> SUFFICES ASSUME S \notin F
               PROVE  FALSE
    OBVIOUS
  <1> DEFINE G == (SUBSET S) \ F
  <1>1. G # {}
    OBVIOUS
  <1>2. PICK T \in G : \A x \in T : \A U \in SUBSET (T \ {x}) : U \notin G
    <2> HIDE DEF G
    <2>1. G \in SUBSET SUBSET S
      BY DEF G
    <2> QED
      BY <1>1, <2>1, MinimalSubset
  <1>3. T # {}
    OBVIOUS
  <1>4. PICK x \in T : TRUE
    BY <1>3
  <1>5. T \ {x} \in F /\ x \in S \ (T \ {x}) /\ (T \ {x}) \cup {x} = T
    BY <1>2
  <1> QED
    BY <1>2, <1>5

(* The fold that SumFunctionOnSet is defined by: a function on all subsets *)
(* that takes one element out of each at a time.                           *)
Pick(s) == CHOOSE x \in s : TRUE
Adds(g, fun, D) ==
    g = [s \in D |-> IF s = {} THEN 0 ELSE fun[Pick(s)] + g[s \ {Pick(s)}]]

(* The sum is the value of such a function, if there is one. *)
LEMMA SumDef ==
    ASSUME NEW fun, NEW S
    PROVE  SumFunctionOnSet(fun, S) = (CHOOSE g : Adds(g, fun, SUBSET S))[S]
  BY DEF SumFunctionOnSet, FoldFunctionOnSet, MapThenFoldSet, Adds, Pick

(* The element taken out was there. *)
LEMMA PickIn == \A s : s # {} => Pick(s) \in s
  BY DEF Pick

(* Subsets of at most n elements. *)
Small(S, n) == {s \in SUBSET S : Cardinality(s) <= n}

(* Taking it out leaves a smaller subset. *)
LEMMA SmallDown ==
    ASSUME NEW S, IsFiniteSet(S), NEW n \in Nat, NEW s \in Small(S, n + 1), s # {}
    PROVE  s \ {Pick(s)} \in Small(S, n)
  <1>1. IsFiniteSet(s) /\ Cardinality(s) <= n + 1 /\ Pick(s) \in s
    BY PickIn, FS_Subset DEF Small
  <1>2. Cardinality(s \ {Pick(s)}) = Cardinality(s) - 1 /\ Cardinality(s) \in Nat
    BY <1>1, FS_RemoveElement, FS_CardinalityType
  <1> QED
    BY <1>1, <1>2 DEF Small

(* A function that adds up the smaller subsets extends to the next size... *)
LEMMA AddsExtend ==
    ASSUME NEW fun, NEW S, IsFiniteSet(S), NEW n \in Nat, NEW g, Adds(g, fun, Small(S, n))
    PROVE  \E h : Adds(h, fun, Small(S, n + 1))
  <1> DEFINE h == [s \in Small(S, n + 1) |->
                      IF s = {} THEN 0 ELSE fun[Pick(s)] + g[s \ {Pick(s)}]]
  <1>1. \A s \in Small(S, n) : s \in Small(S, n + 1)
    <2> SUFFICES ASSUME NEW s \in Small(S, n)
                 PROVE  s \in Small(S, n + 1)
      OBVIOUS
    <2>1. IsFiniteSet(s) /\ Cardinality(s) \in Nat
      BY FS_Subset, FS_CardinalityType DEF Small
    <2> QED
      BY <2>1 DEF Small
  <1>2. \A s \in Small(S, n) : g[s] = IF s = {} THEN 0 ELSE fun[Pick(s)] + g[s \ {Pick(s)}]
    BY DEF Adds
  <1>3. \A s \in Small(S, n) : h[s] = g[s]
    BY <1>1, <1>2
  <1>4. \A s \in Small(S, n + 1) : s # {} => h[s \ {Pick(s)}] = g[s \ {Pick(s)}]
    <2> HIDE DEF h
    <2> QED
      BY <1>3, SmallDown
  <1>5. h = [s \in Small(S, n + 1) |->
                      IF s = {} THEN 0 ELSE fun[Pick(s)] + h[s \ {Pick(s)}]]
    BY <1>4
  <1> HIDE DEF h
  <1> QED
    BY <1>5 DEF Adds

(* ...and what holds of 0 and of each successor holds of every number...   *)
LEMMA NatClosed ==
    ASSUME NEW N, 0 \in N, \A n \in Nat : n \in N => n + 1 \in N
    PROVE  \A n \in Nat : n \in N
  <1> SUFFICES ASSUME NEW m \in Nat, m \notin N
               PROVE  FALSE
    OBVIOUS
  <1> DEFINE M == Nat \ N
  <1>1. PICK n \in M : \A k \in M : ~ (<<k, n>> \in OpToRel(<, Nat))
    <2>1. M \subseteq Nat /\ M # {}
      OBVIOUS
    <2> HIDE DEF M
    <2> QED
      BY <2>1, NatLessThanWellFounded, WFMin
  <1>2. n \in Nat /\ n # 0 /\ n - 1 \in Nat /\ (n - 1) + 1 = n
    OBVIOUS
  <1>3. n - 1 \in M
    BY <1>2
  <1>4. <<n - 1, n>> \in OpToRel(<, Nat)
    BY <1>2 DEF OpToRel
  <1> QED
    BY <1>1, <1>3, <1>4

(* ...so there is one for all subsets.                                     *)
LEMMA AddsExists ==
    ASSUME NEW fun, NEW S, IsFiniteSet(S)
    PROVE  \E g : Adds(g, fun, SUBSET S)
  <1> DEFINE N == {n \in Nat : \E g : Adds(g, fun, Small(S, n))}
  <1>1. 0 \in N
    <2>1. Small(S, 0) = {{}}
      <3>1. \A s \in SUBSET S : Cardinality(s) <= 0 <=> s = {}
        <4> TAKE s \in SUBSET S
        <4>1. IsFiniteSet(s) /\ Cardinality(s) \in Nat
          BY FS_Subset, FS_CardinalityType
        <4> QED
          BY <4>1, FS_EmptySet
      <3> QED
        BY <3>1 DEF Small
    <2>2. Adds([s \in {{}} |-> 0], fun, {{}})
      BY DEF Adds
    <2> QED
      BY <2>1, <2>2
  <1>2. \A n \in Nat : n \in N => n + 1 \in N
    BY AddsExtend
  <1>3. \A n \in Nat : n \in N
    <2> HIDE DEF N
    <2> QED
      BY <1>1, <1>2, NatClosed
  <1>4. Cardinality(S) \in Nat
    BY FS_CardinalityType
  <1>5. Small(S, Cardinality(S)) = SUBSET S
    BY FS_Subset DEF Small
  <1> QED
    BY <1>3, <1>4, <1>5

(* Two such functions agree where both are defined. *)
LEMMA AddsAgree ==
    ASSUME NEW fun, NEW S, NEW T \in SUBSET S, IsFiniteSet(S)
    PROVE  \A g, h : Adds(g, fun, SUBSET S) /\ Adds(h, fun, SUBSET T) => g[T] = h[T]
  <1> SUFFICES ASSUME NEW g, NEW h, g[T] # h[T],
                      Adds(g, fun, SUBSET S), Adds(h, fun, SUBSET T)
               PROVE  FALSE
    OBVIOUS
  <1> DEFINE F == {s \in SUBSET T : g[s] # h[s]}
  <1>1. PICK s \in F : \A x \in s : \A U \in SUBSET (s \ {x}) : U \notin F
    <2>1. F \in SUBSET SUBSET S /\ F # {}
      OBVIOUS
    <2> HIDE DEF F
    <2> QED
      BY <2>1, MinimalSubset
  <1>2. /\ g[s] = IF s = {} THEN 0 ELSE fun[Pick(s)] + g[s \ {Pick(s)}]
        /\ h[s] = IF s = {} THEN 0 ELSE fun[Pick(s)] + h[s \ {Pick(s)}]
    BY DEF Adds
  <1>3. s # {}
    BY <1>2
  <1>4. s \ {Pick(s)} \notin F
    BY <1>1, <1>3, PickIn
  <1> QED
    BY <1>2, <1>3, <1>4

(* The sum is the value of one of them. *)
LEMMA SumAdds ==
    ASSUME NEW fun, NEW S, IsFiniteSet(S)
    PROVE  \E g : Adds(g, fun, SUBSET S) /\ SumFunctionOnSet(fun, S) = g[S]
  <1> DEFINE g == CHOOSE g : Adds(g, fun, SUBSET S)
  <1>1. Adds(g, fun, SUBSET S)
    BY AddsExists
  <1>2. SumFunctionOnSet(fun, S) = g[S]
    BY SumDef
  <1> HIDE DEF g
  <1> QED
    BY <1>1, <1>2

(* Hence a sum may be taken apart at the element picked. *)
LEMMA SumUnfold ==
    ASSUME NEW fun, NEW S, IsFiniteSet(S)
    PROVE  SumFunctionOnSet(fun, S) =
             IF S = {} THEN 0
             ELSE fun[Pick(S)] + SumFunctionOnSet(fun, S \ {Pick(S)})
  <1>1. S \ {Pick(S)} \in SUBSET S /\ IsFiniteSet(S \ {Pick(S)})
    BY FS_Subset
  <1>2. PICK g : Adds(g, fun, SUBSET S) /\ SumFunctionOnSet(fun, S) = g[S]
    BY SumAdds
  <1>3. PICK h : /\ Adds(h, fun, SUBSET (S \ {Pick(S)}))
                 /\ SumFunctionOnSet(fun, S \ {Pick(S)}) = h[S \ {Pick(S)}]
    BY <1>1, SumAdds
  <1>4. g[S] = IF S = {} THEN 0 ELSE fun[Pick(S)] + g[S \ {Pick(S)}]
    BY <1>2 DEF Adds
  <1>5. g[S \ {Pick(S)}] = h[S \ {Pick(S)}]
    BY <1>1, <1>2, <1>3, AddsAgree
  <1> QED
    BY <1>2, <1>3, <1>4, <1>5

(* Nothing sums to 0. *)
LEMMA SumEmpty == \A fun : SumFunctionOnSet(fun, {}) = 0
  BY SumUnfold, FS_EmptySet

(* A sum of integers is an integer. *)
LEMMA SumType ==
    ASSUME NEW fun, NEW S, IsFiniteSet(S), \A x \in S : fun[x] \in Int
    PROVE  SumFunctionOnSet(fun, S) \in Int
  <1> DEFINE F == {T \in SUBSET S : SumFunctionOnSet(fun, T) \notin Int}
  <1> SUFFICES ASSUME F # {}
               PROVE  FALSE
    OBVIOUS
  <1>1. PICK T \in F : \A x \in T : \A U \in SUBSET (T \ {x}) : U \notin F
    <2>1. F \in SUBSET SUBSET S
      OBVIOUS
    <2> HIDE DEF F
    <2> QED
      BY <2>1, MinimalSubset
  <1>2. IsFiniteSet(T) /\ T \subseteq S
    BY FS_Subset
  <1>3. SumFunctionOnSet(fun, T) =
             IF T = {} THEN 0
             ELSE fun[Pick(T)] + SumFunctionOnSet(fun, T \ {Pick(T)})
    BY <1>2, SumUnfold
  <1>4. T # {} /\ Pick(T) \in T
    BY <1>3, PickIn
  <1>5. SumFunctionOnSet(fun, T \ {Pick(T)}) \in Int
    BY <1>1, <1>4
  <1> QED
    BY <1>2, <1>3, <1>4, <1>5

(* Any element may be added last. *)
LEMMA SumElement ==
    ASSUME NEW fun, NEW S, IsFiniteSet(S), \A x \in S : fun[x] \in Int, NEW y \in S
    PROVE  SumFunctionOnSet(fun, S) = fun[y] + SumFunctionOnSet(fun, S \ {y})
  <1> DEFINE Sum(T) == SumFunctionOnSet(fun, T)
             F == {T \in SUBSET S : \E z \in T : Sum(T) # fun[z] + Sum(T \ {z})}
  <1> SUFFICES ASSUME F # {}
               PROVE  FALSE
    OBVIOUS
  <1>1. PICK T \in F : \A x \in T : \A U \in SUBSET (T \ {x}) : U \notin F
    <2>1. F \in SUBSET SUBSET S
      OBVIOUS
    <2> HIDE DEF F
    <2> QED
      BY <2>1, MinimalSubset
  <1>2. PICK z \in T : Sum(T) # fun[z] + Sum(T \ {z})
    OBVIOUS
  <1> DEFINE p == Pick(T)
             U == (T \ {p}) \ {z}
  <1>3. /\ \A V \in SUBSET T : IsFiniteSet(V) /\ Sum(V) \in Int
        /\ p \in T /\ fun[p] \in Int /\ fun[z] \in Int
    BY FS_Subset, SumType, PickIn
  <1>4. Sum(T) = fun[p] + Sum(T \ {p})
    BY <1>3, SumUnfold
  <1>5. p # z
    BY <1>2, <1>4
  <1>6. Sum(T \ {p}) = fun[z] + Sum(U)
    BY <1>1, <1>3, <1>5
  <1>7. Sum(T \ {z}) = fun[p] + Sum(U)
    <2>1. Sum(T \ {z}) = fun[p] + Sum((T \ {z}) \ {p})
      BY <1>1, <1>3, <1>5
    <2>2. (T \ {z}) \ {p} = U
      OBVIOUS
    <2> QED
      BY <2>1, <2>2
  <1>8. Sum(U) \in Int /\ fun[p] \in Int /\ fun[z] \in Int
    BY <1>3
  <1> HIDE DEF Sum, U, p
  <1> QED
    BY <1>2, <1>4, <1>6, <1>7, <1>8

(* What is at most as great in every place sums to at most as much. *)
LEMMA SumMonotone ==
    ASSUME NEW f, NEW g, NEW S, IsFiniteSet(S),
           \A x \in S : f[x] \in Int /\ g[x] \in Int /\ f[x] <= g[x]
    PROVE  SumFunctionOnSet(f, S) <= SumFunctionOnSet(g, S)
  <1> DEFINE F == {T \in SUBSET S : SumFunctionOnSet(f, T) <= SumFunctionOnSet(g, T)}
  <1>1. {} \in F
    BY SumEmpty, FS_EmptySet
  <1>2. ASSUME NEW T \in F, NEW x \in S \ T
        PROVE  T \cup {x} \in F
    <2> DEFINE U == T \cup {x}
    <2>1. IsFiniteSet(U) /\ IsFiniteSet(T) /\ U \subseteq S /\ x \in U /\ U \ {x} = T
      BY FS_Subset
    <2>2. /\ SumFunctionOnSet(f, U) = f[x] + SumFunctionOnSet(f, T)
          /\ SumFunctionOnSet(g, U) = g[x] + SumFunctionOnSet(g, T)
      <3> HIDE DEF U, F
      <3>1. \A y \in U : f[y] \in Int /\ g[y] \in Int
        BY <2>1
      <3> QED
        BY <2>1, <3>1, SumElement
    <2>3. /\ SumFunctionOnSet(f, T) \in Int /\ SumFunctionOnSet(g, T) \in Int
          /\ SumFunctionOnSet(f, T) <= SumFunctionOnSet(g, T)
          /\ f[x] \in Int /\ g[x] \in Int /\ f[x] <= g[x]
      BY <2>1, SumType
    <2>4. SumFunctionOnSet(f, U) <= SumFunctionOnSet(g, U)
      BY <2>2, <2>3
    <2> QED
      BY <2>1, <2>4
  <1> HIDE DEF F
  <1>3. F \in SUBSET SUBSET S
    BY DEF F
  <1>4. S \in F
    BY <1>1, <1>2, <1>3, SetInduction
  <1> QED
    BY <1>4 DEF F

(* And what is less by d in one place, to less by d. *)
LEMMA SumGrows ==
    ASSUME NEW f, NEW g, NEW S, IsFiniteSet(S), NEW y \in S, NEW d \in Int,
           \A x \in S : f[x] \in Int /\ g[x] \in Int /\ f[x] <= g[x],
           f[y] + d <= g[y]
    PROVE  SumFunctionOnSet(f, S) + d <= SumFunctionOnSet(g, S)
  <1>1. IsFiniteSet(S \ {y})
    BY FS_Subset
  <1>2. /\ SumFunctionOnSet(f, S) = f[y] + SumFunctionOnSet(f, S \ {y})
        /\ SumFunctionOnSet(g, S) = g[y] + SumFunctionOnSet(g, S \ {y})
    BY SumElement
  <1>3. SumFunctionOnSet(f, S \ {y}) <= SumFunctionOnSet(g, S \ {y})
    BY <1>1, SumMonotone
  <1>4. /\ SumFunctionOnSet(f, S \ {y}) \in Int
        /\ SumFunctionOnSet(g, S \ {y}) \in Int
    BY <1>1, SumType
  <1> QED
    BY <1>2, <1>3, <1>4

(* Equal terms sum to their number times one of them. *)
LEMMA SumConstant ==
    ASSUME NEW f, NEW S, IsFiniteSet(S), NEW c \in Int, \A x \in S : f[x] = c
    PROVE  SumFunctionOnSet(f, S) = Cardinality(S) * c
  <1> DEFINE F == {T \in SUBSET S : SumFunctionOnSet(f, T) = Cardinality(T) * c}
  <1>1. {} \in F
    BY SumEmpty, FS_EmptySet
  <1>2. ASSUME NEW T \in F, NEW x \in S \ T
        PROVE  T \cup {x} \in F
    <2> DEFINE U == T \cup {x}
    <2>1. IsFiniteSet(U) /\ IsFiniteSet(T) /\ U \subseteq S /\ x \in U /\ U \ {x} = T
      BY FS_Subset
    <2>2. SumFunctionOnSet(f, U) = c + SumFunctionOnSet(f, T)
      <3> HIDE DEF U, F
      <3>1. \A y \in U : f[y] \in Int
        BY <2>1
      <3> QED
        BY <2>1, <3>1, SumElement
    <2>3. Cardinality(U) = Cardinality(T) + 1 /\ Cardinality(T) \in Nat
      BY <2>1, FS_AddElement, FS_CardinalityType
    <2>4. (Cardinality(T) + 1) * c = c + Cardinality(T) * c
      BY <2>3
    <2>5. SumFunctionOnSet(f, U) = Cardinality(U) * c
      BY <2>2, <2>3, <2>4
    <2> QED
      BY <2>1, <2>5
  <1> HIDE DEF F
  <1>3. F \in SUBSET SUBSET S
    BY DEF F
  <1>4. S \in F
    BY <1>1, <1>2, <1>3, SetInduction
  <1> QED
    BY <1>4 DEF F
=============================================================================
