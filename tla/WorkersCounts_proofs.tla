------------------------- MODULE WorkersCounts_proofs -------------------------
(* Theorems about Workers: what is pending is owed.  @worker_in_flight and   *)
(* @worker_broadcast_pending are bounded by the sizes of sets of posts and   *)
(* of broadcasts, so the lemmas come first that compare such sets.           *)
EXTENDS Workers_proofs, FunctionTheorems

-----------------------------------------------------------------------------
(* A set A[w] of things for each w in S, and how many there are together.    *)

Pairs(S, A) == UNION {{w} \X A[w] : w \in S}

LEMMA PairsIn ==
    ASSUME NEW S, NEW A
    PROVE  /\ \A w, k : <<w, k>> \in Pairs(S, A) <=> w \in S /\ k \in A[w]
           /\ \A x \in Pairs(S, A) : x = <<x[1], x[2]>> /\ x[1] \in S /\ x[2] \in A[x[1]]
BY DEF Pairs

LEMMA PairsFinite ==
    ASSUME NEW S, IsFiniteSet(S), NEW A, \A w \in S : IsFiniteSet(A[w])
    PROVE  IsFiniteSet(Pairs(S, A)) /\ Cardinality(Pairs(S, A)) \in Nat
<1> DEFINE f == [w \in S |-> {w} \X A[w]]
           T == {{w} \X A[w] : w \in S}
<1>1. f \in Surjection(S, T)
  BY Fun_IsSurj
<1>2. IsFiniteSet(T)
  BY <1>1, FS_Surjection
<1>3. \A U \in T : IsFiniteSet(U)
  <2> SUFFICES ASSUME NEW w \in S PROVE IsFiniteSet({w} \X A[w])
    OBVIOUS
  <2> QED
    BY FS_Singleton, FS_Product
<1>4. IsFiniteSet(UNION T)
  BY <1>2, <1>3, FS_UNION
<1> QED
  BY <1>4, FS_CardinalityType DEF Pairs

(* A set with no more elements than another one maps into it.                *)
LEMMA SmallerInjects ==
    ASSUME NEW A, IsFiniteSet(A), NEW B, IsFiniteSet(B), Cardinality(A) <= Cardinality(B)
    PROVE  \E f : f \in Injection(A, B)
<1> DEFINE a == Cardinality(A)  b == Cardinality(B)
<1>1. a \in Nat /\ b \in Nat
  BY FS_CardinalityType
<1>2. PICK g : g \in Bijection(1..a, A)
  BY FS_CardinalityType DEF ExistsBijection
<1>3. PICK h : h \in Bijection(1..b, B)
  BY FS_CardinalityType DEF ExistsBijection
<1> DEFINE u == Inverse(g, 1..a, A)
           f == [x \in A |-> h[u[x]]]
<1>4. u \in Injection(A, 1..a)
  BY <1>2, Fun_BijInverse, Fun_BijectionProperties
<1>5. u \in [A -> 1..a] /\ \A x, y \in A : u[x] = u[y] => x = y
  <2> HIDE DEF u, a
  <2> QED
    BY <1>4, Fun_InjectionProperties
<1>6. h \in [1..b -> B] /\ \A i, j \in 1..b : h[i] = h[j] => i = j
  BY <1>3, Fun_BijectionProperties
<1> HIDE DEF u
<1>7. \A i \in 1..a : i \in 1..b
  BY <1>1
<1>8. f \in [A -> B] /\ \A x, y \in A : f[x] = f[y] => x = y
  <2>1. \A x \in A : u[x] \in 1..b
    BY <1>5, <1>7
  <2> HIDE DEF a, b
  <2> QED
    BY <1>5, <1>6, <2>1
<1>9. f \in Injection(A, B)
  BY <1>8, Fun_IsInj
<1> QED
  BY <1>9

(* Fewer of each are fewer together.                                         *)
LEMMA PairsFewer ==
    ASSUME NEW S, IsFiniteSet(S), NEW A, NEW B,
           \A w \in S : /\ IsFiniteSet(A[w]) /\ IsFiniteSet(B[w])
                        /\ Cardinality(A[w]) <= Cardinality(B[w])
    PROVE  Cardinality(Pairs(S, A)) <= Cardinality(Pairs(S, B))
<1> DEFINE j == [w \in S |-> CHOOSE f : f \in Injection(A[w], B[w])]
           P == Pairs(S, A)  Q == Pairs(S, B)
           F == [x \in P |-> <<x[1], j[x[1]][x[2]]>>]
<1>1. \A w \in S : j[w] \in Injection(A[w], B[w])
  <2> SUFFICES ASSUME NEW w \in S PROVE j[w] \in Injection(A[w], B[w])
    OBVIOUS
  <2>1. \E f : f \in Injection(A[w], B[w])
    BY SmallerInjects
  <2> QED
    BY <2>1
<1>2. \A w \in S : /\ \A k \in A[w] : j[w][k] \in B[w]
                   /\ \A k, l \in A[w] : j[w][k] = j[w][l] => k = l
  <2> SUFFICES ASSUME NEW w \in S
               PROVE  /\ \A k \in A[w] : j[w][k] \in B[w]
                      /\ \A k, l \in A[w] : j[w][k] = j[w][l] => k = l
    OBVIOUS
  <2>1. j[w] \in [A[w] -> B[w]] /\ \A k, l \in A[w] : j[w][k] = j[w][l] => k = l
    BY <1>1, Fun_InjectionProperties
  <2> QED
    BY <2>1
<1>3. \A x \in P : x = <<x[1], x[2]>> /\ x[1] \in S /\ x[2] \in A[x[1]]
  BY PairsIn
<1>4. \A w, k : <<w, k>> \in Q <=> w \in S /\ k \in B[w]
  BY PairsIn, Zenon
<1> HIDE DEF j, P, Q
<1>5. F \in [P -> Q]
  BY <1>2, <1>3, <1>4
<1>6. \A x, y \in P : F[x] = F[y] => x = y
  <2> SUFFICES ASSUME NEW x \in P, NEW y \in P, F[x] = F[y] PROVE x = y
    OBVIOUS
  <2>1. x[1] = y[1] /\ j[x[1]][x[2]] = j[y[1]][y[2]]
    OBVIOUS
  <2>2. x[2] = y[2]
    BY <1>2, <1>3, <2>1
  <2> QED
    BY <1>3, <2>1, <2>2
<1>7. F \in Injection(P, Q)
  BY <1>5, <1>6, Fun_IsInj
<1>8. IsFiniteSet(Q)
  BY PairsFinite DEF Q
<1> QED
  BY <1>7, <1>8, FS_Injection DEF P, Q

(* B[w] and C[w], kept apart.                                                *)
Both(S, B, C) == [w \in S |-> (B[w] \X {0}) \cup (C[w] \X {1})]

LEMMA TaggedSize ==
    ASSUME NEW T, IsFiniteSet(T), NEW t
    PROVE  IsFiniteSet(T \X {t}) /\ Cardinality(T \X {t}) = Cardinality(T)
<1>1. IsFiniteSet({t}) /\ Cardinality({t}) = 1
  BY FS_Singleton
<1>2. IsFiniteSet(T \X {t}) /\ Cardinality(T \X {t}) = Cardinality(T) * 1
  BY <1>1, FS_Product
<1> QED
  BY <1>2, FS_CardinalityType

LEMMA ColumnSize ==
    ASSUME NEW T, IsFiniteSet(T), NEW t
    PROVE  IsFiniteSet({t} \X T) /\ Cardinality({t} \X T) = Cardinality(T)
<1>1. IsFiniteSet({t}) /\ Cardinality({t}) = 1
  BY FS_Singleton
<1>2. IsFiniteSet({t} \X T) /\ Cardinality({t} \X T) = 1 * Cardinality(T)
  BY <1>1, FS_Product
<1> QED
  BY <1>2, FS_CardinalityType

LEMMA ApartSize ==
    ASSUME NEW T, IsFiniteSet(T), NEW U, IsFiniteSet(U), T \cap U = {}
    PROVE  IsFiniteSet(T \cup U) /\ Cardinality(T \cup U) = Cardinality(T) + Cardinality(U)
<1>1. Cardinality(T \cap U) = 0 /\ Cardinality(T) \in Nat /\ Cardinality(U) \in Nat
  BY FS_EmptySet, FS_CardinalityType
<1>2. IsFiniteSet(T \cup U)
      /\ Cardinality(T \cup U) = Cardinality(T) + Cardinality(U) - Cardinality(T \cap U)
  BY FS_Union
<1> QED
  BY <1>1, <1>2

LEMMA BothSize ==
    ASSUME NEW T, IsFiniteSet(T), NEW U, IsFiniteSet(U)
    PROVE  /\ IsFiniteSet((T \X {0}) \cup (U \X {1}))
           /\ Cardinality((T \X {0}) \cup (U \X {1})) = Cardinality(T) + Cardinality(U)
<1>1. (T \X {0}) \cap (U \X {1}) = {}
  OBVIOUS
<1>2. /\ IsFiniteSet(T \X {0}) /\ Cardinality(T \X {0}) = Cardinality(T)
      /\ IsFiniteSet(U \X {1}) /\ Cardinality(U \X {1}) = Cardinality(U)
  BY TaggedSize
<1> QED
  BY <1>1, <1>2, ApartSize

LEMMA PairsBoth ==
    ASSUME NEW S, IsFiniteSet(S), NEW B, NEW C,
           \A w \in S : IsFiniteSet(B[w]) /\ IsFiniteSet(C[w])
    PROVE  Cardinality(Pairs(S, Both(S, B, C))) =
               Cardinality(Pairs(S, B)) + Cardinality(Pairs(S, C))
<1> DEFINE P == Pairs(S, B)  Q == Pairs(S, C)  D == Pairs(S, Both(S, B, C))
           E == (P \X {0}) \cup (Q \X {1})
           f == [x \in E |-> <<x[1][1], <<x[1][2], x[2]>>>>]
<1>1. /\ \A x \in P : x = <<x[1], x[2]>> /\ x[1] \in S /\ x[2] \in B[x[1]]
      /\ \A x \in Q : x = <<x[1], x[2]>> /\ x[1] \in S /\ x[2] \in C[x[1]]
      /\ \A x \in D : x = <<x[1], x[2]>> /\ x[1] \in S /\ x[2] \in Both(S, B, C)[x[1]]
  BY PairsIn
<1>2. /\ \A w, k : <<w, k>> \in P <=> w \in S /\ k \in B[w]
      /\ \A w, k : <<w, k>> \in Q <=> w \in S /\ k \in C[w]
      /\ \A w, k : <<w, k>> \in D <=> w \in S /\ k \in Both(S, B, C)[w]
  BY PairsIn
<1>3. IsFiniteSet(P) /\ IsFiniteSet(Q)
  BY PairsFinite
<1>4. IsFiniteSet(E) /\ Cardinality(E) = Cardinality(P) + Cardinality(Q)
  BY <1>3, BothSize
<1>5. \A w \in S : Both(S, B, C)[w] = (B[w] \X {0}) \cup (C[w] \X {1})
  BY DEF Both
<1> HIDE DEF P, Q, D
<1>6. f \in [E -> D]
  <2> SUFFICES ASSUME NEW x \in E PROVE <<x[1][1], <<x[1][2], x[2]>>>> \in D
    OBVIOUS
  <2>1. CASE x \in P \X {0}
    BY <1>1, <1>2, <1>5, <2>1
  <2>2. CASE x \in Q \X {1}
    BY <1>1, <1>2, <1>5, <2>2
  <2> QED
    BY <2>1, <2>2
<1>7. \A x, y \in E : f[x] = f[y] => x = y
  <2> SUFFICES ASSUME NEW x \in E, NEW y \in E, f[x] = f[y] PROVE x = y
    OBVIOUS
  <2>1. x[1][1] = y[1][1] /\ x[1][2] = y[1][2] /\ x[2] = y[2]
    OBVIOUS
  <2>2. x = <<x[1], x[2]>> /\ y = <<y[1], y[2]>> /\ x[1] \in P \cup Q /\ y[1] \in P \cup Q
    OBVIOUS
  <2>3. x[1] = <<x[1][1], x[1][2]>> /\ y[1] = <<y[1][1], y[1][2]>>
    BY <1>1, <2>2
  <2> QED
    BY <2>1, <2>2, <2>3
<1>8. \A z \in D : \E x \in E : f[x] = z
  <2> SUFFICES ASSUME NEW z \in D PROVE \E x \in E : f[x] = z
    OBVIOUS
  <2>1. z = <<z[1], z[2]>> /\ z[1] \in S /\ z[2] \in (B[z[1]] \X {0}) \cup (C[z[1]] \X {1})
    BY <1>1, <1>5
  <2>2. z[2] = <<z[2][1], z[2][2]>>
    BY <2>1
  <2> DEFINE x == <<<<z[1], z[2][1]>>, z[2][2]>>
  <2>3. x \in E
    <3>1. CASE z[2] \in B[z[1]] \X {0}
      BY <1>2, <2>1, <3>1
    <3>2. CASE z[2] \in C[z[1]] \X {1}
      BY <1>2, <2>1, <3>2
    <3> QED
      BY <2>1, <3>1, <3>2
  <2>4. f[x] = z
    BY <2>1, <2>2, <2>3
  <2> QED
    BY <2>3, <2>4
<1>9. f \in Bijection(E, D)
  BY <1>6, <1>7, <1>8, Fun_IsBij
<1>10. Cardinality(D) = Cardinality(E)
  BY <1>4, <1>9, FS_Bijection DEF ExistsBijection
<1> QED
  BY <1>4, <1>10 DEF P, Q, D

(* If there are no more A[w] than B[w] and C[w] together, there are no more  *)
(* of all A than of all B and all C; and the other way round.                *)
LEMMA PairsSum ==
    ASSUME NEW S, IsFiniteSet(S), NEW A, NEW B, NEW C,
           \A w \in S : IsFiniteSet(A[w]) /\ IsFiniteSet(B[w]) /\ IsFiniteSet(C[w])
    PROVE  /\ (\A w \in S : Cardinality(A[w]) <= Cardinality(B[w]) + Cardinality(C[w]))
              => Cardinality(Pairs(S, A)) <= Cardinality(Pairs(S, B)) + Cardinality(Pairs(S, C))
           /\ (\A w \in S : Cardinality(B[w]) + Cardinality(C[w]) <= Cardinality(A[w]))
              => Cardinality(Pairs(S, B)) + Cardinality(Pairs(S, C)) <= Cardinality(Pairs(S, A))
<1> DEFINE D == Both(S, B, C)
<1>1. Cardinality(Pairs(S, D)) = Cardinality(Pairs(S, B)) + Cardinality(Pairs(S, C))
  BY PairsBoth
<1>2. \A w \in S : IsFiniteSet(D[w]) /\ Cardinality(D[w]) = Cardinality(B[w]) + Cardinality(C[w])
  <2> SUFFICES ASSUME NEW w \in S
               PROVE  IsFiniteSet(D[w]) /\ Cardinality(D[w]) = Cardinality(B[w]) + Cardinality(C[w])
    OBVIOUS
  <2>1. D[w] = (B[w] \X {0}) \cup (C[w] \X {1})
    BY DEF Both
  <2>2. IsFiniteSet(B[w]) /\ IsFiniteSet(C[w])
    OBVIOUS
  <2> DEFINE T == B[w]  U == C[w]
  <2> HIDE DEF D, T, U
  <2>3. D[w] = (T \X {0}) \cup (U \X {1}) /\ IsFiniteSet(T) /\ IsFiniteSet(U)
    BY <2>1, <2>2 DEF T, U
  <2>4. IsFiniteSet(D[w]) /\ Cardinality(D[w]) = Cardinality(T) + Cardinality(U)
    BY <2>3, BothSize
  <2> QED
    BY <2>4 DEF T, U
<1> HIDE DEF D
<1>3. ASSUME \A w \in S : Cardinality(A[w]) <= Cardinality(B[w]) + Cardinality(C[w])
      PROVE  Cardinality(Pairs(S, A)) <= Cardinality(Pairs(S, D))
  BY <1>2, <1>3, PairsFewer
<1>4. ASSUME \A w \in S : Cardinality(B[w]) + Cardinality(C[w]) <= Cardinality(A[w])
      PROVE  Cardinality(Pairs(S, D)) <= Cardinality(Pairs(S, A))
  BY <1>2, <1>4, PairsFewer
<1> QED
  BY <1>1, <1>3, <1>4

-----------------------------------------------------------------------------
(* What @worker_in_flight waits for is owed by a worker that is there.       *)

LEMMA WorkersFinite ==
    ASSUME NEW R \in SUBSET Worker
    PROVE  IsFiniteSet(R) /\ Cardinality(R) \in Nat
BY WorkersAssumption, FS_Subset, FS_CardinalityType

LEMMA FirstSize ==
    ASSUME NEW n \in Nat
    PROVE  IsFiniteSet(1..n) /\ Cardinality(1..n) = n
BY FS_Interval

(* The posts that the workers of R owe by the tallies t.                     *)
OwedBy(R, t) == UNION {{w} \X (1 .. t[w]) : w \in R}

LEMMA OwedByIn ==
    ASSUME NEW R, NEW t
    PROVE  /\ \A w, k : <<w, k>> \in OwedBy(R, t) <=> w \in R /\ k \in 1..t[w]
           /\ \A x \in OwedBy(R, t) : x = <<x[1], x[2]>> /\ x[1] \in R /\ x[2] \in 1..t[x[1]]
BY DEF OwedBy

LEMMA OwedBySize ==
    ASSUME NEW R \in SUBSET Worker, NEW t \in [Worker -> Nat]
    PROVE  /\ OwedBy(R, t) = Pairs(R, [w \in Worker |-> 1..t[w]])
           /\ IsFiniteSet(OwedBy(R, t)) /\ Cardinality(OwedBy(R, t)) \in Nat
<1> DEFINE A == [w \in Worker |-> 1..t[w]]
<1>1. \A w \in R : A[w] = 1..t[w]
  OBVIOUS
<1>2. OwedBy(R, t) = Pairs(R, A)
  BY <1>1 DEF OwedBy, Pairs
<1>3. \A w \in R : IsFiniteSet(A[w])
  BY <1>1, FirstSize
<1> HIDE DEF A
<1>4. IsFiniteSet(Pairs(R, A)) /\ Cardinality(Pairs(R, A)) \in Nat
  BY <1>3, WorkersFinite, PairsFinite
<1> QED
  BY <1>2, <1>4 DEF A

LEMMA OwedIs ==
    /\ Owed = OwedBy(registry \cup leaving, tally)
    /\ Owed' = OwedBy((registry \cup leaving)', tally')
BY DEF Owed, OwedBy

LEMMA OwedStays ==
    ASSUME Typed, Typed', InFlightOwed, UNCHANGED <<inFlight, tally>>,
           registry \cup leaving \subseteq registry' \cup leaving'
    PROVE  InFlightOwed'
<1> DEFINE R == registry \cup leaving  Q == registry' \cup leaving'
<1>1. R \in SUBSET Worker /\ Q \in SUBSET Worker /\ tally \in [Worker -> Nat] /\ R \subseteq Q
      /\ inFlight \in Nat
  BY DEF Typed
<1>2. Owed = OwedBy(R, tally) /\ Owed' = OwedBy(Q, tally)
  BY OwedIs
<1> HIDE DEF R, Q
<1>3. OwedBy(R, tally) \subseteq OwedBy(Q, tally)
  BY <1>1 DEF OwedBy
<1>4. /\ Cardinality(OwedBy(R, tally)) <= Cardinality(OwedBy(Q, tally))
      /\ Cardinality(OwedBy(R, tally)) \in Nat /\ Cardinality(OwedBy(Q, tally)) \in Nat
  BY <1>1, <1>3, OwedBySize, FS_Subset
<1> QED
  BY <1>1, <1>2, <1>4 DEF InFlightOwed

LEMMA OwedPosted ==
    ASSUME Typed, Typed', InFlightOwed, NEW w \in Worker, PostMessage(w)
    PROVE  InFlightOwed'
<1> DEFINE R == registry \cup leaving  x == <<w, tally[w] + 1>>
<1>1. R \in SUBSET Worker /\ tally \in [Worker -> Nat] /\ tally' \in [Worker -> Nat]
      /\ w \in R /\ inFlight \in Nat
  BY DEF Typed, PostMessage
<1>2. /\ inFlight' = inFlight + 1 /\ tally' = [tally EXCEPT ![w] = @ + 1]
      /\ registry' \cup leaving' = R
  BY DEF PostMessage, counterVars, threadVars, mainVars
<1>3. Owed = OwedBy(R, tally) /\ Owed' = OwedBy(R, tally')
  BY <1>2, OwedIs
<1> HIDE DEF R
<1>4. x \notin OwedBy(R, tally)
  <2>1. tally[w] \in Nat /\ tally[w] + 1 \notin 1..tally[w]
    BY <1>1
  <2> QED
    BY <2>1, OwedByIn
<1>5. OwedBy(R, tally) \cup {x} \subseteq OwedBy(R, tally')
  <2> SUFFICES ASSUME NEW y \in OwedBy(R, tally) \cup {x} PROVE y \in OwedBy(R, tally')
    OBVIOUS
  <2>1. y = <<y[1], y[2]>> /\ y[1] \in R /\ y[2] \in 1..tally'[y[1]]
    <3>1. CASE y = x
      BY <1>1, <1>2, <3>1
    <3>2. CASE y \in OwedBy(R, tally)
      <4>1. y = <<y[1], y[2]>> /\ y[1] \in R /\ y[2] \in 1..tally[y[1]]
        BY <3>2, OwedByIn
      <4>2. tally[y[1]] <= tally'[y[1]] /\ tally[y[1]] \in Nat /\ tally'[y[1]] \in Nat
        BY <1>1, <1>2, <4>1
      <4> QED
        BY <4>1, <4>2
    <3> QED
      BY <3>1, <3>2
  <2>2. <<y[1], y[2]>> \in OwedBy(R, tally')
    BY <2>1, OwedByIn
  <2> QED
    BY <2>1, <2>2
<1>6. /\ IsFiniteSet(OwedBy(R, tally)) /\ Cardinality(OwedBy(R, tally)) \in Nat
      /\ IsFiniteSet(OwedBy(R, tally')) /\ Cardinality(OwedBy(R, tally')) \in Nat
  BY <1>1, OwedBySize
<1> HIDE DEF x
<1>7. Cardinality(OwedBy(R, tally) \cup {x}) = Cardinality(OwedBy(R, tally)) + 1
  BY <1>4, <1>6, FS_AddElement
<1>8. Cardinality(OwedBy(R, tally) \cup {x}) <= Cardinality(OwedBy(R, tally'))
  BY <1>5, <1>6, FS_Subset
<1> QED
  BY <1>1, <1>2, <1>3, <1>6, <1>7, <1>8 DEF InFlightOwed

LEMMA OwedReaped ==
    ASSUME Typed, Typed', ModeInv, InFlightOwed, NEW w \in Worker, Reap(w)
    PROVE  InFlightOwed'
<1> DEFINE R == registry \cup leaving  Q == R \ {w}
           O == OwedBy(R, tally)  P == OwedBy(Q, tally)  T == {w} \X (1..tally[w])
<1>1. /\ R \in SUBSET Worker /\ Q \in SUBSET Worker /\ w \in R /\ registry' \cup leaving' = Q
      /\ tally \in [Worker -> Nat] /\ inFlight \in Nat /\ tally[w] \in Nat
  <2>1. w \in leaving /\ leaving' = leaving \ {w} /\ registry' = registry /\ w \notin registry
    BY DEF Reap, Reaped, ModeInv
  <2>2. registry' \cup leaving' = Q /\ w \in R
    BY <2>1
  <2> QED
    BY <2>2 DEF Typed
<1>2. /\ tally' = [tally EXCEPT ![w] = 0]
      /\ inFlight' = IF registry \cup leaving' = {} THEN 0 ELSE Clamp(inFlight - tally[w])
  BY DEF Reap, Reaped
<1>3. Owed = O /\ Owed' = P
  <2>1. Owed' = OwedBy(Q, tally')
    BY <1>1, OwedIs
  <2>2. \A v \in Q : tally'[v] = tally[v]
    BY <1>1, <1>2
  <2> QED
    BY <2>1, <2>2, OwedIs DEF OwedBy
<1>4. /\ IsFiniteSet(O) /\ Cardinality(O) \in Nat /\ IsFiniteSet(P) /\ Cardinality(P) \in Nat
  BY <1>1, OwedBySize
<1>5. IsFiniteSet(T) /\ Cardinality(T) = tally[w]
  <2>1. IsFiniteSet(1..tally[w]) /\ Cardinality(1..tally[w]) = tally[w]
    BY <1>1, FirstSize
  <2> QED
    BY <2>1, ColumnSize
<1>6. O = P \cup T /\ P \cap T = {}
  BY <1>1 DEF OwedBy
<1> HIDE DEF O, P, T
<1>7. Cardinality(O) = Cardinality(P) + tally[w]
  BY <1>4, <1>5, <1>6, ApartSize
<1>8. inFlight - tally[w] <= Cardinality(P) /\ inFlight - tally[w] \in Int
  BY <1>1, <1>3, <1>4, <1>7 DEF InFlightOwed
<1>9. Clamp(inFlight - tally[w]) <= Cardinality(P)
  BY <1>4, <1>8, ClampValue
<1> QED
  BY <1>2, <1>3, <1>4, <1>9 DEF InFlightOwed

(* Each worker's tally falls by the messages it has sent, or to zero.        *)
LEMMA OwedDrained ==
    ASSUME Typed, Typed', InFlightOwed, Deliver
    PROVE  InFlightOwed'
<1> DEFINE events == head \o outbox
           msgs == Places(events, Messages)
           Answers(w) == {i \in msgs : events[i].handle = w}
           R == registry
<1>1. /\ leaving = {} /\ UNCHANGED <<registry, leaving>>
      /\ inFlight' = Clamp(inFlight - Cardinality(msgs))
      /\ tally' = [w \in Worker |-> IF w \in registry
                                    THEN Clamp(tally[w] - Cardinality(Answers(w)))
                                    ELSE tally[w]]
  BY DEF Deliver, Drained
<1>2. events \in Seq(Events) /\ R \in SUBSET Worker /\ inFlight \in Nat
      /\ tally \in [Worker -> Nat] /\ tally' \in [Worker -> Nat]
  BY ConcatProperties DEF Typed
<1>3. IsFiniteSet(msgs) /\ Cardinality(msgs) \in Nat
  BY <1>2, PlacesFinite, FS_CardinalityType
<1> DEFINE A == [w \in Worker |-> 1..tally[w]]
           B == [w \in Worker |-> 1..tally'[w]]
           C == [w \in Worker |-> Answers(w)]
<1>4. /\ Owed = Pairs(R, A) /\ Owed' = Pairs(R, B)
      /\ Cardinality(Owed) \in Nat /\ Cardinality(Owed') \in Nat
  <2>1. registry \cup leaving = R /\ (registry \cup leaving)' = R
    BY <1>1
  <2>2. Owed = OwedBy(R, tally) /\ Owed' = OwedBy(R, tally')
    BY <2>1, OwedIs
  <2>3. OwedBy(R, tally) = Pairs(R, A) /\ Cardinality(OwedBy(R, tally)) \in Nat
    BY <1>2, OwedBySize
  <2>4. OwedBy(R, tally') = Pairs(R, B) /\ Cardinality(OwedBy(R, tally')) \in Nat
    <3> DEFINE t == tally'
    <3>1. t \in [Worker -> Nat]
      BY <1>2
    <3> HIDE DEF t
    <3>2. OwedBy(R, t) = Pairs(R, [w \in Worker |-> 1..t[w]]) /\ Cardinality(OwedBy(R, t)) \in Nat
      BY <1>2, <3>1, OwedBySize
    <3> QED
      BY <3>2 DEF t
  <2> QED
    BY <2>2, <2>3, <2>4
<1>5. \A w \in Worker : IsFiniteSet(Answers(w)) /\ Cardinality(Answers(w)) \in Nat
  BY <1>3, FS_Subset, FS_CardinalityType
<1>6. \A w \in R : /\ IsFiniteSet(A[w]) /\ IsFiniteSet(B[w]) /\ IsFiniteSet(C[w])
                   /\ Cardinality(A[w]) <= Cardinality(B[w]) + Cardinality(C[w])
  <2> SUFFICES ASSUME NEW w \in R
               PROVE  /\ IsFiniteSet(A[w]) /\ IsFiniteSet(B[w]) /\ IsFiniteSet(C[w])
                      /\ Cardinality(A[w]) <= Cardinality(B[w]) + Cardinality(C[w])
    OBVIOUS
  <2>1. w \in Worker /\ tally[w] \in Nat /\ tally'[w] \in Nat
    BY <1>2
  <2>2. A[w] = 1..tally[w] /\ B[w] = 1..tally'[w] /\ C[w] = Answers(w)
    BY <2>1
  <2>3. /\ IsFiniteSet(1..tally[w]) /\ Cardinality(1..tally[w]) = tally[w]
        /\ IsFiniteSet(1..tally'[w]) /\ Cardinality(1..tally'[w]) = tally'[w]
    BY <2>1, FirstSize
  <2>4. IsFiniteSet(Answers(w)) /\ Cardinality(Answers(w)) \in Nat
    BY <1>5, <2>1
  <2>5. tally'[w] = Clamp(tally[w] - Cardinality(Answers(w)))
    BY <1>1, <2>1
  <2> HIDE DEF A, B, C, Answers
  <2>6. tally[w] <= tally'[w] + Cardinality(Answers(w))
    <3>1. tally[w] - Cardinality(Answers(w)) \in Int
      BY <2>1, <2>4
    <3> QED
      BY <2>1, <2>4, <2>5, <3>1, ClampValue
  <2> QED
    BY <2>2, <2>3, <2>4, <2>6
<1>7. Cardinality(Pairs(R, C)) <= Cardinality(msgs) /\ Cardinality(Pairs(R, C)) \in Nat
  <2> DEFINE f == [x \in Pairs(R, C) |-> x[2]]
  <2>1. \A x \in Pairs(R, C) : x = <<x[1], x[2]>> /\ x[1] \in R /\ x[2] \in C[x[1]]
    BY PairsIn
  <2>2. \A x \in Pairs(R, C) : x[2] \in msgs /\ x[1] = events[x[2]].handle
    BY <1>2, <2>1
  <2> HIDE DEF events, msgs, C
  <2>3. f \in [Pairs(R, C) -> msgs]
    BY <2>2
  <2>4. \A x, y \in Pairs(R, C) : f[x] = f[y] => x = y
    <3> SUFFICES ASSUME NEW x \in Pairs(R, C), NEW y \in Pairs(R, C), f[x] = f[y] PROVE x = y
      OBVIOUS
    <3>1. x[2] = y[2]
      OBVIOUS
    <3>2. x[1] = y[1]
      BY <2>2, <3>1
    <3> QED
      BY <2>1, <3>1, <3>2
  <2>5. f \in Injection(Pairs(R, C), msgs)
    BY <2>3, <2>4, Fun_IsInj
  <2>6. IsFiniteSet(Pairs(R, C))
    BY <1>3, <2>5, FS_Injection
  <2> QED
    BY <1>3, <2>5, <2>6, FS_Injection, FS_CardinalityType
<1> HIDE DEF A, B, C, msgs, events
<1>8. Cardinality(Pairs(R, A)) <= Cardinality(Pairs(R, B)) + Cardinality(Pairs(R, C))
  <2>1. IsFiniteSet(R)
    BY <1>2, WorkersFinite
  <2> QED
    BY <1>6, <2>1, PairsSum
<1>9. inFlight - Cardinality(msgs) <= Cardinality(Owed') /\ inFlight - Cardinality(msgs) \in Int
  BY <1>2, <1>3, <1>4, <1>7, <1>8 DEF InFlightOwed
<1>10. Clamp(inFlight - Cardinality(msgs)) <= Cardinality(Owed')
  BY <1>4, <1>9, ClampValue
<1> QED
  BY <1>1, <1>10 DEF InFlightOwed

LEMMA OwedStep == Typed /\ BirthInv /\ ModeInv /\ InFlightOwed /\ [Next]_vars => InFlightOwed'
<1> SUFFICES ASSUME Typed, BirthInv, ModeInv, InFlightOwed, [Next]_vars PROVE InFlightOwed'
  OBVIOUS
<1> USE DEF counterVars, threadVars, mainVars, historyVars
<1>0. Typed'
  BY TypedStep
<1>1. CASE UNCHANGED vars
  BY <1>0, <1>1, OwedStays DEF vars
<1>2. ASSUME NEW w \in Worker, Spawn(w) \/ SpawnFails(w) \/ Terminate(w) \/ GraceIsOver(w)
      PROVE  InFlightOwed'
  <2>1. UNCHANGED <<inFlight, tally>> /\ registry \cup leaving \subseteq registry' \cup leaving'
    BY <1>2 DEF Spawn, SpawnFails, Terminate, GraceIsOver, ScriptRuns
  <2> QED
    BY <1>0, <2>1, OwedStays
<1>3. CASE \/ PageBroadcasts \/ FrameGone \/ Navigate \/ ResetBegins
           \/ DeliverOne \/ DeliveryEnds \/ Park
  <2>1. UNCHANGED <<inFlight, tally>> /\ registry \cup leaving \subseteq registry' \cup leaving'
    BY <1>3 DEF PageBroadcasts, FrameGone, Navigate, ResetBegins, DeliverOne, DeliveryEnds, Park,
                ScriptRuns
  <2> QED
    BY <1>0, <2>1, OwedStays
<1>4. ASSUME NEW w \in Worker, PostMessage(w) PROVE InFlightOwed'
  BY <1>0, <1>4, OwedPosted
<1>5. ASSUME NEW w \in Worker, Reap(w) PROVE InFlightOwed'
  BY <1>0, <1>5, OwedReaped
<1>6. CASE Deliver
  BY <1>0, <1>6, OwedDrained
<1>7. CASE ResetEnds
  <2>1. inFlight' = 0
    BY <1>7 DEF ResetEnds
  <2>2. Cardinality(Owed') \in Nat
    <3> DEFINE Q == (registry \cup leaving)'  t == tally'
    <3>1. Q \in SUBSET Worker /\ t \in [Worker -> Nat] /\ Owed' = OwedBy(Q, t)
      BY <1>0, OwedIs DEF Typed
    <3> HIDE DEF Q, t
    <3> QED
      BY <3>1, OwedBySize
  <2> QED
    BY <2>1, <2>2 DEF InFlightOwed
<1>8. ASSUME NEW w \in Worker, Thread(w) PROVE InFlightOwed'
  <2>1. UNCHANGED <<inFlight, tally, registry, leaving>>
    BY <1>8, ThreadLocal
  <2> QED
    BY <1>0, <2>1, OwedStays
<1> QED
  BY <1>1, <1>2, <1>3, <1>4, <1>5, <1>6, <1>7, <1>8 DEF Next, Page, Main

(* @worker_in_flight waits only for posts that a worker which is still there *)
(* owes: a worker that goes hands back what it holds (reap_worker), so that  *)
(* settle never waits for one that has gone.                                 *)
THEOREM InFlightAlwaysOwed == Spec => []InFlightOwed
<1> DEFINE Inv == LifeInv /\ InFlightOwed
<1>1. Init => InFlightOwed
  <2> SUFFICES ASSUME Init PROVE InFlightOwed
    OBVIOUS
  <2>1. inFlight = 0 /\ Owed = {}
    BY DEF Init, Owed
  <2> QED
    BY <2>1, FS_EmptySet DEF InFlightOwed
<1>2. Init => Inv
  BY <1>1, InitTyped, ModeInit, BirthInit, WorkInit DEF LifeInv
<1>3. Inv /\ [Next]_vars => Inv'
  BY TypedStep, ModeStep, BirthStep, WorkStep, OwedStep DEF LifeInv
<1>4. Inv => InFlightOwed
  OBVIOUS
<1> HIDE DEF Inv
<1> QED
  BY <1>2, <1>3, <1>4, PTL DEF Spec

-----------------------------------------------------------------------------
(* How many events of some kinds a queue holds.                              *)

LEMMA CountConcat ==
    ASSUME NEW S, NEW q \in Seq(S), NEW r \in Seq(S), NEW kinds
    PROVE  Count(q \o r, kinds) = Count(q, kinds) + Count(r, kinds)
<1> DEFINE P == Places(q, kinds)  R == Places(r, kinds)  U == Places(q \o r, kinds)
           Q == {j \in Len(q) + 1 .. Len(q) + Len(r) : j - Len(q) \in R}
           f == [i \in R |-> i + Len(q)]
<1>1. Len(q) \in Nat /\ Len(r) \in Nat /\ P \subseteq 1..Len(q) /\ R \subseteq 1..Len(r)
      /\ IsFiniteSet(P) /\ IsFiniteSet(R)
  BY LenProperties, PlacesFinite
<1>2. /\ U \subseteq 1 .. Len(q) + Len(r)
      /\ \A i \in 1 .. Len(q) : i \in U <=> i \in P
      /\ \A i \in 1 .. Len(r) : i + Len(q) \in U <=> i \in R
  BY PlacesConcat
<1>3. Count(q \o r, kinds) = Cardinality(U) /\ Count(q, kinds) = Cardinality(P)
      /\ Count(r, kinds) = Cardinality(R)
  BY DEF Count
<1> HIDE DEF P, R, U
<1>4. U = P \cup Q
  <2>1. \A j \in U : j \in P \/ j \in Q
    <3> SUFFICES ASSUME NEW j \in U, j \notin P PROVE j \in Q
      OBVIOUS
    <3>1. j \in Len(q) + 1 .. Len(q) + Len(r)
      BY <1>1, <1>2
    <3>2. j - Len(q) \in 1..Len(r) /\ j - Len(q) + Len(q) = j
      BY <1>1, <3>1
    <3> QED
      BY <1>2, <3>1, <3>2
  <2>2. \A j \in P : j \in U
    BY <1>1, <1>2
  <2>3. \A j \in Q : j \in U
    <3> SUFFICES ASSUME NEW j \in Q PROVE j \in U
      OBVIOUS
    <3>1. j - Len(q) \in 1..Len(r) /\ j - Len(q) + Len(q) = j
      BY <1>1
    <3> QED
      BY <1>2, <3>1
  <2> QED
    BY <2>1, <2>2, <2>3
<1>5. P \cap Q = {}
  BY <1>1
<1>6. f \in Bijection(R, Q)
  <2>1. f \in [R -> Q]
    <3> SUFFICES ASSUME NEW i \in R PROVE i + Len(q) \in Q
      OBVIOUS
    <3> DEFINE j == i + Len(q)
    <3>1. j \in Len(q) + 1 .. Len(q) + Len(r) /\ j - Len(q) = i
      BY <1>1
    <3> HIDE DEF j
    <3>2. j - Len(q) \in R
      BY <3>1
    <3>3. j \in Q
      BY <3>1, <3>2
    <3> QED
      BY <3>3 DEF j
  <2>2. \A i, j \in R : f[i] = f[j] => i = j
    BY <1>1
  <2>3. \A j \in Q : \E i \in R : f[i] = j
    <3> SUFFICES ASSUME NEW j \in Q PROVE \E i \in R : f[i] = j
      OBVIOUS
    <3>1. j - Len(q) \in R /\ j - Len(q) + Len(q) = j
      BY <1>1
    <3> QED
      BY <3>1
  <2> QED
    BY <2>1, <2>2, <2>3, Fun_IsBij
<1> HIDE DEF Q, f
<1>7. IsFiniteSet(Q) /\ Cardinality(Q) = Cardinality(R)
  BY <1>1, <1>6, FS_Bijection DEF ExistsBijection
<1>8. Cardinality(P \cup Q) = Cardinality(P) + Cardinality(Q)
  BY <1>1, <1>5, <1>7, ApartSize
<1> QED
  BY <1>3, <1>4, <1>7, <1>8

LEMMA EventsCount ==
    ASSUME NEW q \in Seq(Events), NEW r \in Seq(Events)
    PROVE  Count(q \o r, {"bcack"}) = Count(q, {"bcack"}) + Count(r, {"bcack"})
BY CountConcat

LEMMA CountEmpty == \A kinds : Count(<<>>, kinds) = 0
<1> SUFFICES ASSUME NEW kinds PROVE Count(<<>>, kinds) = 0
  OBVIOUS
<1>1. Places(<<>>, kinds) = {}
  BY DEF Places
<1> QED
  BY <1>1, FS_EmptySet DEF Count

LEMMA CountOne ==
    ASSUME NEW e, NEW kinds
    PROVE  Count(<<e>>, kinds) = IF e.kind \in kinds THEN 1 ELSE 0
<1>1. DOMAIN <<e>> = {1} /\ <<e>>[1] = e
  OBVIOUS
<1>2. Places(<<e>>, kinds) = IF e.kind \in kinds THEN {1} ELSE {}
  BY <1>1 DEF Places
<1> QED
  BY <1>2, FS_Singleton, FS_EmptySet DEF Count

(* n events of one kind.                                                     *)
LEMMA CountSame ==
    ASSUME NEW n \in Nat, NEW e
    PROVE  Count([i \in 1..n |-> e], {e.kind}) = n
<1>1. Places([i \in 1..n |-> e], {e.kind}) = 1..n
  BY DEF Places
<1> QED
  BY <1>1, FirstSize DEF Count

-----------------------------------------------------------------------------
(* The broadcasts that no worker has pulled yet.                             *)

UnreadIn(b) == UNION {{w} \X Places(b[w], {"broadcast"}) : w \in Worker}

LEMMA UnreadIs == Unread = UnreadIn(inbox) /\ Unread' = UnreadIn(inbox')
BY DEF Unread, UnreadIn

LEMMA UnreadSize ==
    ASSUME NEW b \in [Worker -> Seq(Letters)]
    PROVE  /\ UnreadIn(b) = Pairs(Worker, [w \in Worker |-> Places(b[w], {"broadcast"})])
           /\ Cardinality(UnreadIn(b)) \in Nat
           /\ \A w \in Worker : /\ IsFiniteSet(Places(b[w], {"broadcast"}))
                                /\ Count(b[w], {"broadcast"}) \in Nat
<1> DEFINE A == [w \in Worker |-> Places(b[w], {"broadcast"})]
<1>1. \A w \in Worker : A[w] = Places(b[w], {"broadcast"})
  OBVIOUS
<1>2. UnreadIn(b) = Pairs(Worker, A)
  BY <1>1 DEF UnreadIn, Pairs
<1>3. \A w \in Worker : /\ IsFiniteSet(Places(b[w], {"broadcast"}))
                        /\ Count(b[w], {"broadcast"}) \in Nat
  <2> SUFFICES ASSUME NEW w \in Worker
               PROVE  IsFiniteSet(Places(b[w], {"broadcast"})) /\ Count(b[w], {"broadcast"}) \in Nat
    OBVIOUS
  <2>1. b[w] \in Seq(Letters)
    OBVIOUS
  <2> QED
    BY <2>1, PlacesFinite
<1> HIDE DEF A
<1>4. Cardinality(Pairs(Worker, A)) \in Nat
  BY <1>1, <1>3, WorkersAssumption, PairsFinite
<1> QED
  BY <1>2, <1>3, <1>4 DEF A

(* What the inboxes b hold more than c, worker by worker, they hold more     *)
(* together; and the other way round.                                        *)
LEMMA UnreadSum ==
    ASSUME NEW b \in [Worker -> Seq(Letters)], NEW c \in [Worker -> Seq(Letters)],
           NEW X, \A w \in Worker : IsFiniteSet(X[w])
    PROVE  /\ (\A w \in Worker : Count(b[w], {"broadcast"})
                                 <= Count(c[w], {"broadcast"}) + Cardinality(X[w]))
              => Cardinality(UnreadIn(b)) <= Cardinality(UnreadIn(c)) + Cardinality(Pairs(Worker, X))
           /\ (\A w \in Worker : Count(c[w], {"broadcast"}) + Cardinality(X[w])
                                 <= Count(b[w], {"broadcast"}))
              => Cardinality(UnreadIn(c)) + Cardinality(Pairs(Worker, X)) <= Cardinality(UnreadIn(b))
<1> DEFINE A == [w \in Worker |-> Places(b[w], {"broadcast"})]
           B == [w \in Worker |-> Places(c[w], {"broadcast"})]
<1>1. UnreadIn(b) = Pairs(Worker, A) /\ UnreadIn(c) = Pairs(Worker, B)
  BY UnreadSize
<1>2. \A w \in Worker : /\ IsFiniteSet(A[w]) /\ Cardinality(A[w]) = Count(b[w], {"broadcast"})
                        /\ IsFiniteSet(B[w]) /\ Cardinality(B[w]) = Count(c[w], {"broadcast"})
  BY UnreadSize DEF Count
<1> HIDE DEF A, B
<1>3. /\ (\A w \in Worker : Cardinality(A[w]) <= Cardinality(B[w]) + Cardinality(X[w]))
         => Cardinality(Pairs(Worker, A)) <=
                Cardinality(Pairs(Worker, B)) + Cardinality(Pairs(Worker, X))
      /\ (\A w \in Worker : Cardinality(B[w]) + Cardinality(X[w]) <= Cardinality(A[w]))
         => Cardinality(Pairs(Worker, B)) + Cardinality(Pairs(Worker, X)) <=
                Cardinality(Pairs(Worker, A))
  BY <1>2, WorkersAssumption, PairsSum
<1> QED
  BY <1>1, <1>2, <1>3

(* Only w may have lost some, and no more than T.                            *)
LEMMA UnreadLost ==
    ASSUME NEW b \in [Worker -> Seq(Letters)], NEW c \in [Worker -> Seq(Letters)],
           NEW w \in Worker, NEW T, IsFiniteSet(T),
           \A v \in Worker \ {w} : Count(b[v], {"broadcast"}) <= Count(c[v], {"broadcast"}),
           Count(b[w], {"broadcast"}) <= Count(c[w], {"broadcast"}) + Cardinality(T)
    PROVE  Cardinality(UnreadIn(b)) <= Cardinality(UnreadIn(c)) + Cardinality(T)
<1> DEFINE X == [v \in Worker |-> IF v = w THEN T ELSE {}]
<1>1. X[w] = T /\ \A v \in Worker \ {w} : X[v] = {}
  OBVIOUS
<1>2. Pairs(Worker, X) = {w} \X T
  BY <1>1 DEF Pairs
<1>3. Cardinality(Pairs(Worker, X)) = Cardinality(T)
  BY <1>2, ColumnSize
<1> HIDE DEF X
<1>4. \A v \in Worker : IsFiniteSet(X[v])
  BY <1>1, FS_EmptySet
<1>5. \A v \in Worker : Count(b[v], {"broadcast"})
                        <= Count(c[v], {"broadcast"}) + Cardinality(X[v])
  <2> SUFFICES ASSUME NEW v \in Worker \ {w}
               PROVE  Count(b[v], {"broadcast"}) <= Count(c[v], {"broadcast"}) + Cardinality(X[v])
    BY <1>1
  <2>1. Cardinality(X[v]) = 0 /\ Count(c[v], {"broadcast"}) \in Nat
        /\ Count(b[v], {"broadcast"}) \in Nat
    BY <1>1, FS_EmptySet, UnreadSize
  <2> QED
    BY <2>1
<1> QED
  BY <1>3, <1>4, <1>5, UnreadSum

(* No worker has lost any.                                                   *)
LEMMA UnreadKept ==
    ASSUME NEW b \in [Worker -> Seq(Letters)], NEW c \in [Worker -> Seq(Letters)],
           \A w \in Worker : c[w] = b[w] \/ \E r \in Seq(Letters) : c[w] = b[w] \o r
    PROVE  Cardinality(UnreadIn(b)) <= Cardinality(UnreadIn(c))
<1> DEFINE A == [w \in Worker |-> Places(b[w], {"broadcast"})]
           B == [w \in Worker |-> Places(c[w], {"broadcast"})]
<1>1. UnreadIn(b) = Pairs(Worker, A) /\ UnreadIn(c) = Pairs(Worker, B)
  BY UnreadSize
<1>2. \A w \in Worker : /\ IsFiniteSet(A[w]) /\ Cardinality(A[w]) = Count(b[w], {"broadcast"})
                        /\ IsFiniteSet(B[w]) /\ Cardinality(B[w]) = Count(c[w], {"broadcast"})
  BY UnreadSize DEF Count
<1>3. \A w \in Worker : Count(b[w], {"broadcast"}) <= Count(c[w], {"broadcast"})
  <2> SUFFICES ASSUME NEW w \in Worker
               PROVE  Count(b[w], {"broadcast"}) <= Count(c[w], {"broadcast"})
    OBVIOUS
  <2>1. Count(b[w], {"broadcast"}) \in Nat /\ b[w] \in Seq(Letters)
    BY UnreadSize
  <2>2. ASSUME NEW r \in Seq(Letters), c[w] = b[w] \o r
        PROVE  Count(b[w], {"broadcast"}) <= Count(c[w], {"broadcast"})
    <3>1. Count(r, {"broadcast"}) \in Nat
      BY PlacesFinite
    <3>2. Count(c[w], {"broadcast"}) = Count(b[w], {"broadcast"}) + Count(r, {"broadcast"})
      BY <2>1, <2>2, CountConcat
    <3> QED
      BY <2>1, <3>1, <3>2
  <2>3. CASE c[w] = b[w]
    BY <2>1, <2>3
  <2> QED
    BY <2>2, <2>3
<1> HIDE DEF A, B
<1> QED
  BY <1>1, <1>2, <1>3, WorkersAssumption, PairsFewer

-----------------------------------------------------------------------------
(* What @worker_broadcast_pending waits for.                                 *)

CarriedBy(t, h) == {w \in Worker : t[w] = "broadcast" \/ Places(h[w], {"broadcast"}) # {}}

LEMMA CarriedIs ==
    /\ Carrying = CarriedBy(thread, hand) /\ Carrying' = CarriedBy(thread', hand')
    /\ \A t, h : IsFiniteSet(CarriedBy(t, h)) /\ Cardinality(CarriedBy(t, h)) \in Nat
BY WorkersFinite DEF Carrying, CarriedBy

(* A thread that has nothing in hand.                                        *)
LEMMA EmptyHand ==
    ASSUME Typed, NEW w \in Worker, hand[w] = <<>>
    PROVE  /\ hand = [hand EXCEPT ![w] = <<>>] /\ Count(hand[w], {"broadcast"}) = 0
           /\ Places(hand[w], {"broadcast"}) = {}
<1>1. hand = [hand EXCEPT ![w] = <<>>]
  BY DEF Typed
<1>2. Places(<<>>, {"broadcast"}) = {}
  BY DEF Places
<1> QED
  BY <1>1, <1>2, CountEmpty

(* One that may have a message.                                              *)
LEMMA HandCount ==
    ASSUME Typed, NEW w \in Worker
    PROVE  Count(hand[w], {"broadcast"})
           = IF Places(hand[w], {"broadcast"}) # {} THEN 1 ELSE 0
<1> DEFINE h == hand[w]
<1>1. h \in Seq(Letters) /\ Len(h) <= 1
  BY DEF Typed
<1> HIDE DEF h
<1>2. Places(h, {"broadcast"}) \subseteq {1}
  BY <1>1 DEF Places
<1>3. Places(h, {"broadcast"}) = {} \/ Places(h, {"broadcast"}) = {1}
  BY <1>2
<1>4. Count(h, {"broadcast"}) = IF Places(h, {"broadcast"}) # {} THEN 1 ELSE 0
  BY <1>3, FS_EmptySet, FS_Singleton DEF Count
<1> QED
  BY <1>4 DEF h

(* Events r go on the outbox, and what the counter gains is there.           *)
LEMMA AcksFrame ==
    ASSUME Typed, Typed', AcksOnlyLostToStops,
           NEW r \in Seq(Events), outbox' = outbox \o r, head' = head,
           broadcastPending' + Cardinality(UnreadIn(inbox))
              + Cardinality(CarriedBy(thread, hand)) + dropped
           <= broadcastPending + Cardinality(UnreadIn(inbox'))
              + Cardinality(CarriedBy(thread', hand')) + Count(r, {"bcack"}) + dropped'
    PROVE  AcksOnlyLostToStops'
<1> DEFINE q == head \o outbox
           u == Cardinality(UnreadIn(inbox))  v == Cardinality(UnreadIn(inbox'))
           i == Cardinality(CarriedBy(thread, hand))
           j == Cardinality(CarriedBy(thread', hand'))
           c == Count(q, {"bcack"})  d == Count(r, {"bcack"})
<1>1. q \in Seq(Events) /\ head \in Seq(Events) /\ outbox \in Seq(Events)
  BY ConcatProperties DEF Typed
<1>2. u \in Nat /\ v \in Nat
  <2> DEFINE b == inbox'
  <2>1. inbox \in [Worker -> Seq(Letters)] /\ b \in [Worker -> Seq(Letters)]
    BY DEF Typed
  <2> HIDE DEF b
  <2>2. Cardinality(UnreadIn(inbox)) \in Nat /\ Cardinality(UnreadIn(b)) \in Nat
    BY <2>1, UnreadSize
  <2> QED
    BY <2>2 DEF b
<1>3. i \in Nat /\ j \in Nat /\ c \in Nat /\ d \in Nat
  BY <1>1, CarriedIs, PlacesFinite
<1>4. head' \o outbox' = q \o r
  <2>1. (head \o outbox) \o r = head \o (outbox \o r)
    BY <1>1, EventsAssociative
  <2> QED
    BY <2>1
<1>5. Count(head' \o outbox', {"bcack"}) = c + d
  <2>1. Count(q \o r, {"bcack"}) = c + d
    <3> HIDE DEF q
    <3> QED
      BY <1>1, EventsCount
  <2> QED
    BY <1>4, <2>1
<1>6. broadcastPending <= u + i + c + dropped
  BY UnreadIs, CarriedIs DEF AcksOnlyLostToStops
<1>7. broadcastPending' + u + i + dropped <= broadcastPending + v + j + d + dropped'
  OBVIOUS
<1>8. /\ broadcastPending \in Nat /\ broadcastPending' \in Nat
      /\ dropped \in Nat /\ dropped' \in Nat
  BY DEF Typed
<1>9. AcksOnlyLostToStops' <=>
          broadcastPending' <= v + j + Count(head' \o outbox', {"bcack"}) + dropped'
  BY UnreadIs, CarriedIs DEF AcksOnlyLostToStops
<1> HIDE DEF q, u, v, i, j, c, d
<1> DEFINE bp == broadcastPending  bq == broadcastPending'  dp == dropped  dq == dropped'
<1>10. bq <= v + j + (c + d) + dq
  <2>1. /\ bp \in Nat /\ bq \in Nat /\ dp \in Nat /\ dq \in Nat
        /\ bp <= u + i + c + dp /\ bq + u + i + dp <= bp + v + j + d + dq
    BY <1>6, <1>7, <1>8
  <2> HIDE DEF bp, bq, dp, dq
  <2>2. bq <= bp + v + j + d + dq - u - i - dp
    BY <1>2, <1>3, <2>1
  <2> QED
    BY <1>2, <1>3, <2>1, <2>2
<1> QED
  BY <1>5, <1>9, <1>10

(* Nobody reads a broadcast, answers one or begins to.                       *)
LEMMA AcksStay ==
    ASSUME Typed, Typed', AcksOnlyLostToStops,
           NEW r \in Seq(Events), outbox' = outbox \o r,
           UNCHANGED <<head, broadcastPending, dropped>>,
           CarriedBy(thread', hand') = CarriedBy(thread, hand),
           \A w \in Worker : inbox'[w] = inbox[w]
                             \/ \E s \in Seq(Letters) : inbox'[w] = inbox[w] \o s
    PROVE  AcksOnlyLostToStops'
<1> DEFINE b == inbox'
<1>1. inbox \in [Worker -> Seq(Letters)] /\ b \in [Worker -> Seq(Letters)]
  BY DEF Typed
<1> HIDE DEF b
<1>2. Cardinality(UnreadIn(inbox)) \in Nat /\ Cardinality(UnreadIn(b)) \in Nat
  BY <1>1, UnreadSize
<1>3. \A w \in Worker : b[w] = inbox[w] \/ \E s \in Seq(Letters) : b[w] = inbox[w] \o s
  BY DEF b
<1>4. Cardinality(UnreadIn(inbox)) <= Cardinality(UnreadIn(b))
  BY <1>1, <1>3, UnreadKept
<1>5. Cardinality(CarriedBy(thread, hand)) \in Nat /\ Count(r, {"bcack"}) \in Nat
  BY CarriedIs, PlacesFinite
<1>6. /\ broadcastPending \in Nat /\ dropped \in Nat
  BY DEF Typed
<1> DEFINE u == Cardinality(UnreadIn(inbox))  v == Cardinality(UnreadIn(b))
           i == Cardinality(CarriedBy(thread, hand))  c == Count(r, {"bcack"})
<1>7. u \in Nat /\ v \in Nat /\ u <= v /\ i \in Nat /\ c \in Nat
  BY <1>2, <1>4, <1>5
<1> HIDE DEF u, v, i, c
<1>8. broadcastPending + u + i + dropped <= broadcastPending + v + i + c + dropped
  BY <1>6, <1>7
<1>9. broadcastPending' + Cardinality(UnreadIn(inbox))
         + Cardinality(CarriedBy(thread, hand)) + dropped
      <= broadcastPending + Cardinality(UnreadIn(inbox'))
         + Cardinality(CarriedBy(thread', hand')) + Count(r, {"bcack"}) + dropped'
  BY <1>8 DEF u, v, i, c, b
<1> QED
  BY <1>9, AcksFrame

(* A thread that was reading a broadcast answers it, with whatever it says,  *)
(* or drops the one in its hand.                                             *)
LEMMA AcksAnswered ==
    ASSUME Typed, Typed', BirthInv, AcksOnlyLostToStops,
           NEW w \in Worker, NEW to, to # "broadcast", thread' = [thread EXCEPT ![w] = to],
           hand' = [hand EXCEPT ![w] = <<>>],
           dropped' = dropped + Count(hand[w], {"broadcast"}),
           NEW s \in Seq(Events), outbox' = Acked(w) \o s,
           UNCHANGED <<head, broadcastPending, inbox>>
    PROVE  AcksOnlyLostToStops'
<1> DEFINE e == Event(w, "bcack", 0)
           i == Cardinality(CarriedBy(thread, hand))
           j == Cardinality(CarriedBy(thread', hand'))
           u == Cardinality(UnreadIn(inbox))  c == Count(s, {"bcack"})
           d == Count(hand[w], {"broadcast"})
           has == Places(hand[w], {"broadcast"}) # {}
<1>1. i \in Nat /\ j \in Nat /\ IsFiniteSet(CarriedBy(thread, hand))
  BY CarriedIs
<1>2. u \in Nat
  BY UnreadSize DEF Typed
<1>3. c \in Nat
  BY PlacesFinite
<1>4. broadcastPending \in Nat /\ dropped \in Nat /\ outbox \in Seq(Events)
  BY DEF Typed
<1>5. CarriedBy(thread', hand') = CarriedBy(thread, hand) \ {w}
      /\ (w \in CarriedBy(thread, hand) <=> thread[w] = "broadcast" \/ has)
  <2>1. Places(<<>>, {"broadcast"}) = {}
    BY DEF Places
  <2>2. /\ thread'[w] # "broadcast" /\ hand'[w] = <<>>
        /\ \A v \in Worker \ {w} : thread'[v] = thread[v] /\ hand'[v] = hand[v]
    BY DEF Typed
  <2> HIDE DEF has
  <2> QED
    BY <2>1, <2>2 DEF CarriedBy, has
<1>6. j = IF thread[w] = "broadcast" \/ has THEN i - 1 ELSE i
  <2> HIDE DEF has
  <2> QED
    BY <1>1, <1>5, FS_RemoveElement
<1>12. d = (IF has THEN 1 ELSE 0) /\ (has => thread[w] # "broadcast")
  <2>1. d = IF has THEN 1 ELSE 0
    BY HandCount
  <2>2. Places(<<>>, {"broadcast"}) = {}
    BY DEF Places
  <2>3. has => thread[w] = "poll"
    BY <2>2 DEF BirthInv
  <2> QED
    BY <2>1, <2>3
<1>7. e \in Events /\ e.kind = "bcack"
  BY EventType DEF Event, Kinds
<1>8. \E r \in Seq(Events) : /\ outbox' = outbox \o r
                             /\ Count(r, {"bcack"}) = (IF thread[w] = "broadcast" THEN 1 ELSE 0) + c
  <2>1. CASE thread[w] = "broadcast"
    <3>1. Acked(w) = Append(outbox, e)
      BY <2>1 DEF Acked
    <3> HIDE DEF e
    <3>2. Acked(w) = outbox \o <<e>> /\ <<e>> \in Seq(Events)
      BY <1>4, <1>7, <3>1, AppendIsConcat
    <3>3. (outbox \o <<e>>) \o s = outbox \o (<<e>> \o s) /\ <<e>> \o s \in Seq(Events)
      BY <1>4, <3>2, EventsAssociative, ConcatProperties
    <3>4. Count(<<e>> \o s, {"bcack"}) = Count(<<e>>, {"bcack"}) + c
      <4> DEFINE q == <<e>>
      <4>1. q \in Seq(Events)
        BY <3>2
      <4> HIDE DEF q
      <4>2. Count(q \o s, {"bcack"}) = Count(q, {"bcack"}) + c
        BY <4>1, EventsCount
      <4> QED
        BY <4>2 DEF q
    <3>5. Count(<<e>>, {"bcack"}) = 1
      BY <1>7, CountOne
    <3> QED
      BY <2>1, <3>2, <3>3, <3>4, <3>5
  <2>2. CASE thread[w] # "broadcast"
    <3>1. outbox' = outbox \o s
      BY <2>2 DEF Acked
    <3>2. c = 0 + c
      BY <1>3
    <3> QED
      BY <2>2, <3>1, <3>2
  <2> QED
    BY <2>1, <2>2
<1>9. PICK r \in Seq(Events) : /\ outbox' = outbox \o r
                               /\ Count(r, {"bcack"}) =
                                      (IF thread[w] = "broadcast" THEN 1 ELSE 0) + c
  BY <1>8
<1> HIDE DEF e, i, j, u, c, d, has
<1>10. broadcastPending + u + i + dropped
       <= broadcastPending + u + j + Count(r, {"bcack"}) + (dropped + d)
  <2>1. CASE thread[w] = "broadcast"
    <3>1. j = i - 1 /\ Count(r, {"bcack"}) = 1 + c /\ d = 0
      BY <1>6, <1>9, <1>12, <2>1
    <3> QED
      BY <1>1, <1>2, <1>3, <1>4, <3>1
  <2>2. CASE thread[w] # "broadcast"
    <3>1. /\ (j = i /\ d = 0) \/ (j = i - 1 /\ d = 1)
          /\ Count(r, {"bcack"}) = 0 + c
      BY <1>6, <1>9, <1>12, <2>2
    <3> QED
      BY <1>1, <1>2, <1>3, <1>4, <3>1
  <2> QED
    BY <2>1, <2>2
<1>11. broadcastPending' + Cardinality(UnreadIn(inbox))
          + Cardinality(CarriedBy(thread, hand)) + dropped
       <= broadcastPending + Cardinality(UnreadIn(inbox'))
          + Cardinality(CarriedBy(thread', hand')) + Count(r, {"bcack"}) + dropped'
  BY <1>10 DEF i, j, u, d
<1> QED
  BY <1>9, <1>11, AcksFrame

(* The page broadcasts: one more in the inbox of each listener.              *)
LEMMA AcksPageBroadcasts ==
    ASSUME Typed, Typed', AcksOnlyLostToStops, PageBroadcasts
    PROVE  AcksOnlyLostToStops'
<1> DEFINE L == Listeners({})
           b == inbox'
           X == [w \in Worker |-> IF w \in L THEN {0} ELSE {}]
<1>1. /\ inbox' = [w \in Worker |-> IF w \in L THEN Append(inbox[w], Event(w, "broadcast", 0))
                                              ELSE inbox[w]]
      /\ broadcastPending' = broadcastPending + Cardinality(L)
      /\ UNCHANGED <<head, outbox, thread, hand, dropped>>
  BY DEF PageBroadcasts, threadVars
<1>2. inbox \in [Worker -> Seq(Letters)] /\ b \in [Worker -> Seq(Letters)]
      /\ outbox \in Seq(Events) /\ L \in SUBSET Worker
  BY DEF Typed, Listeners
<1>3. /\ \A w \in L : X[w] = {0}
      /\ \A w \in Worker \ L : X[w] = {}
  BY <1>2
<1>4. Pairs(Worker, X) = L \X {0}
  BY <1>2, <1>3 DEF Pairs
<1>5. Cardinality(Pairs(Worker, X)) = Cardinality(L) /\ Cardinality(L) \in Nat
  BY <1>2, <1>4, WorkersFinite, TaggedSize
<1>6. \A w \in Worker : /\ IsFiniteSet(X[w])
                        /\ Count(inbox[w], {"broadcast"}) + Cardinality(X[w])
                           <= Count(b[w], {"broadcast"})
  <2> SUFFICES ASSUME NEW w \in Worker
               PROVE  /\ IsFiniteSet(X[w])
                      /\ Count(inbox[w], {"broadcast"}) + Cardinality(X[w])
                         <= Count(b[w], {"broadcast"})
    OBVIOUS
  <2>1. Count(inbox[w], {"broadcast"}) \in Nat /\ inbox[w] \in Seq(Letters)
    BY <1>2, UnreadSize
  <2>2. CASE w \in L
    <3> DEFINE e == Event(w, "broadcast", 0)
    <3>1. X[w] = {0} /\ IsFiniteSet(X[w]) /\ Cardinality(X[w]) = 1
      BY <1>3, <2>2, FS_Singleton
    <3>2. e \in Letters /\ e.kind = "broadcast"
      BY EventType DEF Event
    <3>3. b[w] = Append(inbox[w], e)
      BY <1>1, <2>2
    <3> DEFINE q == inbox[w]  r == <<e>>
    <3>4. q \in Seq(Letters) /\ Count(q, {"broadcast"}) \in Nat
      BY <2>1
    <3>5. r \in Seq(Letters) /\ Count(r, {"broadcast"}) = 1
      BY <3>2, CountOne
    <3>6. b[w] = Append(q, e)
      BY <3>3
    <3> HIDE DEF b, e, X, q
    <3>7. b[w] = q \o r
      BY <3>2, <3>4, <3>6, AppendIsConcat
    <3> HIDE DEF r
    <3>8. Count(b[w], {"broadcast"}) = Count(q, {"broadcast"}) + Count(r, {"broadcast"})
      BY <3>4, <3>5, <3>7, CountConcat
    <3> QED
      BY <3>1, <3>4, <3>5, <3>8 DEF q
  <2>3. CASE w \notin L
    <3>1. X[w] = {} /\ IsFiniteSet(X[w]) /\ Cardinality(X[w]) = 0
      BY <1>3, <2>3, FS_EmptySet
    <3>2. b[w] = inbox[w]
      BY <1>1, <2>3
    <3> HIDE DEF b, X
    <3> QED
      BY <2>1, <3>1, <3>2
  <2> QED
    BY <2>2, <2>3
<1> HIDE DEF b, X
<1>7. Cardinality(UnreadIn(inbox)) + Cardinality(Pairs(Worker, X)) <= Cardinality(UnreadIn(b))
  BY <1>2, <1>6, UnreadSum
<1> DEFINE u == Cardinality(UnreadIn(inbox))  v == Cardinality(UnreadIn(b))
           i == Cardinality(CarriedBy(thread, hand))  l == Cardinality(L)
<1>8. u \in Nat /\ v \in Nat /\ u + l <= v /\ i \in Nat /\ l \in Nat
      /\ broadcastPending \in Nat /\ dropped \in Nat
  BY <1>2, <1>5, <1>7, UnreadSize, CarriedIs DEF Typed
<1> HIDE DEF u, v, i, l
<1>9. broadcastPending + l + u + i + dropped <= broadcastPending + v + i + 0 + dropped
  BY <1>8
<1>10. /\ outbox' = outbox \o <<>> /\ <<>> \in Seq(Events)
       /\ Count(<<>>, {"bcack"}) = 0
  BY <1>1, <1>2, EmptySeq, ConcatEmptySeq, CountEmpty
<1>11. broadcastPending' + Cardinality(UnreadIn(inbox))
          + Cardinality(CarriedBy(thread, hand)) + dropped
       <= broadcastPending + Cardinality(UnreadIn(inbox'))
          + Cardinality(CarriedBy(thread', hand')) + Count(<<>>, {"bcack"}) + dropped'
  BY <1>1, <1>9, <1>10 DEF u, v, i, l, b
<1> QED
  BY <1>1, <1>10, <1>11, AcksFrame

(* The main thread drains the outbox: it takes the acks, and fans out the    *)
(* workers' own broadcasts.                                                  *)
LEMMA AcksDrained ==
    ASSUME Typed, Typed', AcksOnlyLostToStops, Deliver
    PROVE  AcksOnlyLostToStops'
<1> DEFINE events == head \o outbox
           Hears(w) == {i \in Places(events, {"broadcast"}) : w \in Listeners({events[i].handle})}
           heard == UNION {{w} \X Hears(w) : w \in Worker}
           acks == Count(events, {"bcack"})
           X == [w \in Worker |-> Hears(w)]
           b == inbox'
<1>1. /\ inbox' = [w \in Worker |-> inbox[w] \o [i \in 1..Cardinality(Hears(w)) |->
                                                        Event(w, "broadcast", 0)]]
      /\ broadcastPending' = Clamp(broadcastPending + Cardinality(heard) - acks)
      /\ outbox' = <<>> /\ head' = <<>> /\ UNCHANGED <<thread, hand, dropped>>
  BY DEF Deliver, Drained, threadVars, historyVars
<1>2. inbox \in [Worker -> Seq(Letters)] /\ b \in [Worker -> Seq(Letters)]
      /\ events \in Seq(Events)
  BY ConcatProperties DEF Typed
<1>3. IsFiniteSet(Places(events, {"broadcast"})) /\ acks \in Nat
  BY <1>2, PlacesFinite
<1>4. \A w \in Worker : X[w] = Hears(w) /\ IsFiniteSet(X[w]) /\ Cardinality(X[w]) \in Nat
  BY <1>3, FS_Subset, FS_CardinalityType
<1>5. heard = Pairs(Worker, X)
  BY <1>4 DEF Pairs
<1>6. Cardinality(heard) \in Nat
  <2> HIDE DEF X, heard
  <2> QED
    BY <1>4, <1>5, WorkersAssumption, PairsFinite
<1>7. \A w \in Worker : b[w] = inbox[w] \o [i \in 1..Cardinality(X[w]) |-> Event(w, "broadcast", 0)]
  BY <1>1
<1> HIDE DEF events, Hears, heard, acks, X, b
<1>8. \A w \in Worker : Count(inbox[w], {"broadcast"}) + Cardinality(X[w])
                        <= Count(b[w], {"broadcast"})
  <2> SUFFICES ASSUME NEW w \in Worker
               PROVE  Count(inbox[w], {"broadcast"}) + Cardinality(X[w])
                      <= Count(b[w], {"broadcast"})
    OBVIOUS
  <2> DEFINE n == Cardinality(X[w])  e == Event(w, "broadcast", 0)
  <2>1. Count(inbox[w], {"broadcast"}) \in Nat /\ inbox[w] \in Seq(Letters) /\ n \in Nat
    BY <1>2, <1>4, UnreadSize
  <2>2. e \in Letters /\ e.kind = "broadcast"
    BY EventType DEF Event
  <2>3. b[w] = inbox[w] \o [i \in 1..n |-> e]
    BY <1>7
  <2> HIDE DEF n, e
  <2>4. [i \in 1..n |-> e] \in Seq(Letters) /\ Count([i \in 1..n |-> e], {"broadcast"}) = n
    <3>1. Count([i \in 1..n |-> e], {e.kind}) = n
      BY <2>1, CountSame
    <3> QED
      BY <2>1, <2>2, <3>1, SameEvents
  <2>5. Count(b[w], {"broadcast"}) = Count(inbox[w], {"broadcast"}) + n
    <3> DEFINE r == [i \in 1..n |-> e]
    <3>1. r \in Seq(Letters) /\ Count(r, {"broadcast"}) = n /\ b[w] = inbox[w] \o r
      BY <2>3, <2>4
    <3> HIDE DEF r
    <3> QED
      BY <2>1, <3>1, CountConcat
  <2> QED
    BY <2>1, <2>5 DEF n
<1>9. Cardinality(UnreadIn(inbox)) + Cardinality(heard) <= Cardinality(UnreadIn(b))
  <2>1. Cardinality(UnreadIn(inbox)) + Cardinality(Pairs(Worker, X)) <= Cardinality(UnreadIn(b))
    BY <1>2, <1>4, <1>8, UnreadSum
  <2> QED
    BY <1>5, <2>1
<1>10. Count(head' \o outbox', {"bcack"}) = 0
  <2>1. <<>> \o <<>> = <<>>
    BY EmptySeq, ConcatEmptySeq
  <2> QED
    BY <1>1, <2>1, CountEmpty
<1> DEFINE u == Cardinality(UnreadIn(inbox))  v == Cardinality(UnreadIn(b))
           i == Cardinality(CarriedBy(thread, hand))  h == Cardinality(heard)
<1>11. /\ u \in Nat /\ v \in Nat /\ u + h <= v /\ i \in Nat /\ h \in Nat
       /\ broadcastPending \in Nat /\ dropped \in Nat
  BY <1>2, <1>6, <1>9, UnreadSize, CarriedIs DEF Typed
<1>12. broadcastPending <= u + i + acks + dropped
  BY UnreadIs, CarriedIs DEF AcksOnlyLostToStops, events, acks
<1>13. AcksOnlyLostToStops' <=> broadcastPending' <= v + i + 0 + dropped
  BY <1>1, <1>10, UnreadIs, CarriedIs DEF AcksOnlyLostToStops, b
<1>14. broadcastPending' = Clamp(broadcastPending + h - acks)
  BY <1>1
<1> HIDE DEF u, v, i, h
<1>15. broadcastPending + h - acks <= v + i + 0 + dropped
       /\ broadcastPending + h - acks \in Int /\ v + i + 0 + dropped \in Nat
  BY <1>3, <1>11, <1>12
<1>16. broadcastPending' <= v + i + 0 + dropped
  BY <1>14, <1>15, ClampValue
<1> QED
  BY <1>13, <1>16

(* A worker is reaped: what it has not pulled is answered for it.            *)
LEMMA AcksReaped ==
    ASSUME Typed, Typed', AcksOnlyLostToStops, NEW w \in Worker, Reap(w)
    PROVE  AcksOnlyLostToStops'
<1> DEFINE b == inbox'  n == Count(inbox[w], {"broadcast"})
           T == Places(inbox[w], {"broadcast"})  e == Event(w, "bcack", 0)
           r == [i \in 1..n |-> e]
<1>1. /\ inbox' = [inbox EXCEPT ![w] = <<>>] /\ outbox' = outbox \o r
      /\ broadcastPending' = 0 \/ broadcastPending' = broadcastPending
      /\ UNCHANGED <<head, thread, hand, dropped>>
  BY DEF Reap, Reaped, threadVars, historyVars
<1>2. inbox \in [Worker -> Seq(Letters)] /\ b \in [Worker -> Seq(Letters)]
      /\ outbox \in Seq(Events)
  BY DEF Typed
<1>3. IsFiniteSet(T) /\ Cardinality(T) = n /\ n \in Nat
  BY <1>2, UnreadSize DEF Count
<1>4. e \in Events /\ e.kind = "bcack"
  BY EventType DEF Event, Kinds
<1>5. b[w] = <<>> /\ \A v \in Worker \ {w} : b[v] = inbox[v]
  BY <1>1, <1>2
<1> HIDE DEF b, n, T, e
<1>6. r \in Seq(Events) /\ Count(r, {"bcack"}) = n
  <2>1. Count(r, {e.kind}) = n
    BY <1>3, CountSame
  <2> QED
    BY <1>3, <1>4, <2>1, SameEvents
<1>7. Cardinality(UnreadIn(inbox)) <= Cardinality(UnreadIn(b)) + Cardinality(T)
  <2>1. \A v \in Worker \ {w} : Count(inbox[v], {"broadcast"}) <= Count(b[v], {"broadcast"})
    <3> SUFFICES ASSUME NEW v \in Worker \ {w}
                 PROVE  Count(inbox[v], {"broadcast"}) <= Count(b[v], {"broadcast"})
      OBVIOUS
    <3>1. Count(inbox[v], {"broadcast"}) \in Nat
      BY <1>2, UnreadSize
    <3> QED
      BY <1>5, <3>1
  <2>2. Count(inbox[w], {"broadcast"}) <= Count(b[w], {"broadcast"}) + Cardinality(T)
    <3>1. Count(b[w], {"broadcast"}) = 0 /\ Count(inbox[w], {"broadcast"}) = n
      BY <1>5, CountEmpty DEF n
    <3> QED
      BY <1>3, <3>1
  <2> QED
    BY <1>2, <1>3, <2>1, <2>2, UnreadLost
<1> DEFINE u == Cardinality(UnreadIn(inbox))  v == Cardinality(UnreadIn(b))
           i == Cardinality(CarriedBy(thread, hand))
           p == broadcastPending  q == broadcastPending'
<1>8. u \in Nat /\ v \in Nat /\ i \in Nat /\ u <= v + n
  BY <1>2, <1>3, <1>7, UnreadSize, CarriedIs
<1>9. p \in Nat /\ dropped \in Nat /\ q <= p /\ q \in Nat
  BY <1>1 DEF Typed
<1> HIDE DEF u, v, i, r, p, q
<1>10. q + u + i + dropped <= p + v + i + n + dropped
  BY <1>3, <1>8, <1>9
<1>11. broadcastPending' + Cardinality(UnreadIn(inbox))
          + Cardinality(CarriedBy(thread, hand)) + dropped
       <= broadcastPending + Cardinality(UnreadIn(inbox'))
          + Cardinality(CarriedBy(thread', hand')) + Count(r, {"bcack"}) + dropped'
  BY <1>1, <1>6, <1>10 DEF u, v, i, b, p, q
<1> QED
  BY <1>1, <1>6, <1>11, AcksFrame

(* A worker pulls its next message: a broadcast goes from its inbox into its *)
(* hand.                                                                     *)
LEMMA AcksPulled ==
    ASSUME Typed, Typed', AcksOnlyLostToStops, NEW w \in Worker, Pull(w)
    PROVE  AcksOnlyLostToStops'
<1> DEFINE b == inbox'  msg == Head(inbox[w])
           k == IF msg.kind = "broadcast" THEN 1 ELSE 0
           u == Cardinality(UnreadIn(inbox))  v == Cardinality(UnreadIn(b))
           i == Cardinality(CarriedBy(thread, hand))
           j == Cardinality(CarriedBy(thread', hand'))
<1>1. /\ thread[w] = "poll" /\ hand[w] = <<>> /\ inbox[w] # <<>>
      /\ inbox' = [inbox EXCEPT ![w] = Tail(@)] /\ hand' = [hand EXCEPT ![w] = <<msg>>]
      /\ UNCHANGED <<head, outbox, broadcastPending, thread, dropped>>
  BY DEF Pull, mainThreadVars, counterVars
<1>2. inbox \in [Worker -> Seq(Letters)] /\ b \in [Worker -> Seq(Letters)]
      /\ outbox \in Seq(Events) /\ hand \in [Worker -> Seq(Letters)]
  BY DEF Typed
<1>3. b[w] = Tail(inbox[w]) /\ \A o \in Worker \ {w} : b[o] = inbox[o]
  BY <1>1, <1>2
<1>4. Count(inbox[w], {"broadcast"}) = k + Count(b[w], {"broadcast"})
  <2> DEFINE all == inbox[w]  one == <<msg>>  rest == Tail(all)
  <2>1. all \in Seq(Letters) /\ all # <<>>
    BY <1>1, <1>2
  <2>2. msg \in Letters /\ rest \in Seq(Letters)
    BY <2>1, HeadTailProperties
  <2>3. Count(one, {"broadcast"}) = k
    BY CountOne
  <2>4. one \in Seq(Letters)
    BY <2>2
  <2>5. all = one \o rest
    BY <2>1, HeadThenTail
  <2> HIDE DEF all, one, rest, k
  <2>6. Count(all, {"broadcast"}) = Count(one, {"broadcast"}) + Count(rest, {"broadcast"})
    BY <2>2, <2>4, <2>5, CountConcat
  <2> QED
    BY <1>3, <2>3, <2>6 DEF all, rest
<1>5. k \in Nat /\ IsFiniteSet(1..k) /\ Cardinality(1..k) = k
  BY FirstSize
<1>6. CarriedBy(thread', hand') = IF msg.kind = "broadcast" THEN CarriedBy(thread, hand) \cup {w}
                                  ELSE CarriedBy(thread, hand)
  <2>1. hand'[w] = <<msg>> /\ \A o \in Worker \ {w} : hand'[o] = hand[o]
    BY <1>1, <1>2
  <2>2. Places(<<msg>>, {"broadcast"}) # {} <=> msg.kind = "broadcast"
    <3>1. DOMAIN <<msg>> = {1} /\ <<msg>>[1] = msg
      OBVIOUS
    <3> HIDE DEF msg
    <3> QED
      BY <3>1 DEF Places
  <2>3. Places(hand[w], {"broadcast"}) = {}
    BY <1>1, EmptyHand
  <2> HIDE DEF msg
  <2> QED
    BY <1>1, <2>1, <2>2, <2>3 DEF CarriedBy
<1>7. w \notin CarriedBy(thread, hand)
  <2>1. Places(hand[w], {"broadcast"}) = {}
    BY <1>1, EmptyHand
  <2> QED
    BY <1>1, <2>1 DEF CarriedBy
<1>8. i \in Nat /\ j \in Nat /\ IsFiniteSet(CarriedBy(thread, hand))
  BY CarriedIs
<1>9. j = IF msg.kind = "broadcast" THEN i + 1 ELSE i
  BY <1>6, <1>7, <1>8, FS_AddElement
<1>11. j = i + k
  <2> HIDE DEF i, j, msg
  <2> QED
    BY <1>8, <1>9
<1> HIDE DEF b, k, msg
<1>12. Cardinality(UnreadIn(inbox)) <= Cardinality(UnreadIn(b)) + Cardinality(1..k)
  <2>1. \A o \in Worker \ {w} : Count(inbox[o], {"broadcast"}) <= Count(b[o], {"broadcast"})
    <3> SUFFICES ASSUME NEW o \in Worker \ {w}
                 PROVE  Count(inbox[o], {"broadcast"}) <= Count(b[o], {"broadcast"})
      OBVIOUS
    <3>1. Count(inbox[o], {"broadcast"}) \in Nat
      BY <1>2, UnreadSize
    <3> QED
      BY <1>3, <3>1
  <2>2. Count(inbox[w], {"broadcast"}) <= Count(b[w], {"broadcast"}) + Cardinality(1..k)
    <3>1. Count(b[w], {"broadcast"}) \in Nat
      BY <1>2, UnreadSize
    <3> QED
      BY <1>4, <1>5, <3>1
  <2> QED
    BY <1>2, <1>5, <2>1, <2>2, UnreadLost
<1>13. u \in Nat /\ v \in Nat /\ u <= v + k /\ dropped \in Nat /\ broadcastPending \in Nat
  BY <1>2, <1>5, <1>12, UnreadSize DEF Typed
<1> HIDE DEF u, v, i, j
<1>14. broadcastPending + u + i + dropped <= broadcastPending + v + j + 0 + dropped
  BY <1>5, <1>8, <1>11, <1>13
<1>15. outbox' = outbox \o <<>> /\ <<>> \in Seq(Events) /\ Count(<<>>, {"bcack"}) = 0
  BY <1>1, <1>2, EmptySeq, ConcatEmptySeq, CountEmpty
<1>16. broadcastPending' + Cardinality(UnreadIn(inbox))
          + Cardinality(CarriedBy(thread, hand)) + dropped
       <= broadcastPending + Cardinality(UnreadIn(inbox'))
          + Cardinality(CarriedBy(thread', hand')) + Count(<<>>, {"bcack"}) + dropped'
  BY <1>1, <1>14, <1>15 DEF u, v, i, j, b
<1> QED
  BY <1>1, <1>15, <1>16, AcksFrame

(* It takes the message to its handler.                                      *)
LEMMA AcksTaken ==
    ASSUME Typed, Typed', BirthInv, AcksOnlyLostToStops, NEW w \in Worker, Take(w)
    PROVE  AcksOnlyLostToStops'
<1> DEFINE h == hand[w]  msg == Head(h)
<1>1. /\ h # <<>> /\ hand' = [hand EXCEPT ![w] = <<>>] /\ Goes(w, {msg.kind})
      /\ UNCHANGED <<head, outbox, broadcastPending, dropped, inbox>>
  BY DEF Take, Taken, mainThreadVars, counterVars
<1>2. h \in Seq(Letters) /\ Len(h) <= 1 /\ hand \in [Worker -> Seq(Letters)]
      /\ thread \in [Worker -> Threads] /\ outbox \in Seq(Events)
  BY DEF Typed
<1>3. thread[w] = "poll"
  BY <1>1 DEF BirthInv
<1>4. Places(h, {"broadcast"}) # {} <=> msg.kind = "broadcast"
  <2> HIDE DEF h
  <2>1. Len(h) = 1 /\ DOMAIN h = {1} /\ msg = h[1]
    <3>1. Len(h) \in Nat /\ DOMAIN h = 1..Len(h) /\ (Len(h) = 0 => h = <<>>)
      BY <1>2, LenProperties, EmptySeq
    <3>2. Len(h) = 1
      BY <1>1, <1>2, <3>1
    <3>3. DOMAIN h = {1}
      BY <3>1, <3>2
    <3>4. Head(h) = h[1]
      BY <1>1, <1>2
    <3> QED
      BY <3>2, <3>3, <3>4
  <2> HIDE DEF msg
  <2> QED
    BY <2>1 DEF Places
<1>5. Places(<<>>, {"broadcast"}) = {}
  BY DEF Places
<1>6. thread' = [thread EXCEPT ![w] = msg.kind]
  BY <1>1 DEF Goes
<1> DEFINE kind == msg.kind
<1>7. /\ thread'[w] = kind /\ hand'[w] = <<>>
      /\ \A o \in Worker \ {w} : thread'[o] = thread[o] /\ hand'[o] = hand[o]
  <2> HIDE DEF kind
  <2> QED
    BY <1>1, <1>2, <1>6 DEF kind
<1>8. CarriedBy(thread', hand') = CarriedBy(thread, hand)
  <2>1. Places(hand[w], {"broadcast"}) # {} <=> kind = "broadcast"
    BY <1>4
  <2> HIDE DEF kind
  <2> QED
    BY <1>3, <1>5, <1>7, <2>1 DEF CarriedBy
<1>9. outbox' = outbox \o <<>> /\ <<>> \in Seq(Events)
  BY <1>1, <1>2, EmptySeq, ConcatEmptySeq
<1> QED
  BY <1>1, <1>8, <1>9, AcksStay

(* The right-hand side is a number: a reset that zeroes the counter keeps    *)
(* the bound.                                                                *)
LEMMA AcksReset == ASSUME Typed, Typed', ResetEnds PROVE AcksOnlyLostToStops'
<1> DEFINE b == inbox'  i == Cardinality(CarriedBy(thread', hand'))
           v == Cardinality(UnreadIn(b))  c == Count(head' \o outbox', {"bcack"})
<1>1. broadcastPending' = 0 /\ dropped' = 0 /\ outbox' = <<>> /\ head' = <<>>
  BY DEF ResetEnds
<1>2. b \in [Worker -> Seq(Letters)]
  BY DEF Typed
<1> HIDE DEF b
<1>3. v \in Nat /\ i \in Nat
  BY <1>2, UnreadSize, CarriedIs
<1>4. c = 0
  <2>1. <<>> \o <<>> = <<>>
    BY EmptySeq, ConcatEmptySeq
  <2> QED
    BY <1>1, <2>1, CountEmpty
<1> HIDE DEF v, i, c
<1>5. 0 <= v + i + c + 0
  BY <1>3, <1>4
<1> QED
  BY <1>1, <1>5, UnreadIs, CarriedIs DEF AcksOnlyLostToStops, v, i, c, b

(* What the page and the main thread do to the counter and the inboxes.      *)
LEMMA AcksPage ==
    ASSUME Typed, Typed', BirthInv, AcksOnlyLostToStops, Page
    PROVE  AcksOnlyLostToStops'
<1> USE DEF counterVars, threadVars, mainVars, historyVars
<1>1. /\ outbox \in Seq(Events) /\ <<>> \in Seq(Events) /\ outbox = outbox \o <<>>
      /\ inbox \in [Worker -> Seq(Letters)] /\ sent \in [Worker -> Nat] /\ posted \in [Worker -> Nat]
  BY EmptySeq, ConcatEmptySeq DEF Typed
<1>2. ASSUME NEW w \in Worker, Spawn(w) PROVE AcksOnlyLostToStops'
  <2>1. thread[w] = "none" /\ thread' = [thread EXCEPT ![w] = "boot"] /\ hand' = hand
    BY <1>2 DEF Spawn, BirthInv
  <2>2. CarriedBy(thread', hand') = CarriedBy(thread, hand)
    BY <2>1 DEF CarriedBy, Typed
  <2>3. UNCHANGED <<head, outbox, broadcastPending, dropped, inbox>>
    BY <1>2 DEF Spawn
  <2> QED
    BY <1>1, <2>2, <2>3, AcksStay
<1>3. ASSUME NEW w \in Worker, SpawnFails(w) PROVE AcksOnlyLostToStops'
  <2> DEFINE e == Event(w, "__error", sent[w] + 1)
  <2>1. outbox' = Append(outbox, e)
        /\ UNCHANGED <<head, broadcastPending, dropped, inbox, thread, hand>>
    BY <1>3 DEF SpawnFails, Says
  <2>2. e \in Events
    BY <1>1, EventType DEF Kinds
  <2> HIDE DEF e
  <2>3. outbox' = outbox \o <<e>> /\ <<e>> \in Seq(Events)
    BY <1>1, <2>1, <2>2, AppendIsConcat
  <2> QED
    BY <2>1, <2>3, AcksStay
<1>4. ASSUME NEW w \in Worker, PostMessage(w) PROVE AcksOnlyLostToStops'
  <2> DEFINE e == Event(w, "post", posted[w] + 1)
  <2>1. inbox' = [inbox EXCEPT ![w] = Append(@, e)]
        /\ UNCHANGED <<head, outbox, broadcastPending, dropped, thread, hand>>
    BY <1>4 DEF PostMessage
  <2>2. e \in Letters
    BY <1>1, EventType
  <2> HIDE DEF e
  <2>3. Append(inbox[w], e) = inbox[w] \o <<e>> /\ <<e>> \in Seq(Letters)
    BY <1>1, <2>2, AppendIsConcat
  <2>4. \A o \in Worker : inbox'[o] = inbox[o] \/ \E s \in Seq(Letters) : inbox'[o] = inbox[o] \o s
    BY <1>1, <2>1, <2>3
  <2> QED
    BY <1>1, <2>1, <2>4, AcksStay
<1>5. ASSUME /\ UNCHANGED <<head, outbox, broadcastPending, dropped, thread, hand>>
             /\ \A o \in Worker : inbox'[o] = inbox[o] \/ inbox'[o] = Terminating(o)
      PROVE  AcksOnlyLostToStops'
  <2>1. \A o \in Worker : inbox'[o] = inbox[o] \/ \E s \in Seq(Letters) : inbox'[o] = inbox[o] \o s
    <3> SUFFICES ASSUME NEW o \in Worker, inbox'[o] = Terminating(o)
                 PROVE  \E s \in Seq(Letters) : inbox'[o] = inbox[o] \o s
      BY <1>5
    <3>1. <<Event(o, "terminate", 0)>> \in Seq(Letters)
      BY EventType
    <3> QED
      BY <3>1 DEF Terminating
  <2> QED
    BY <1>1, <1>5, <2>1, AcksStay
<1>6. ASSUME NEW w \in Worker, Terminate(w) PROVE AcksOnlyLostToStops'
  <2>1. /\ UNCHANGED <<head, outbox, broadcastPending, dropped, thread, hand>>
        /\ \A o \in Worker : inbox'[o] = inbox[o] \/ inbox'[o] = Terminating(o)
    BY <1>1, <1>6 DEF Terminate
  <2> QED
    BY <1>5, <2>1
<1>7. CASE FrameGone \/ ResetBegins \/ Navigate
  <2>1. /\ UNCHANGED <<head, outbox, broadcastPending, dropped, thread, hand>>
        /\ \A o \in Worker : inbox'[o] = inbox[o] \/ inbox'[o] = Terminating(o)
    BY <1>1, <1>7 DEF FrameGone, ResetBegins, Navigate
  <2> QED
    BY <1>5, <2>1
<1>8. CASE PageBroadcasts
  BY <1>8, AcksPageBroadcasts
<1> QED
  BY <1>2, <1>3, <1>4, <1>6, <1>7, <1>8 DEF Page

LEMMA AcksThread ==
    ASSUME Typed, Typed', BirthInv, AcksOnlyLostToStops, NEW w \in Worker, Thread(w)
    PROVE  AcksOnlyLostToStops'
<1> USE DEF counterVars, threadVars, mainVars, historyVars, mainThreadVars
<1>1. /\ outbox \in Seq(Events) /\ <<>> \in Seq(Events) /\ sent \in [Worker -> Nat]
  BY EmptySeq DEF Typed
<1>2. ASSUME NEW e \in Events, outbox' = Append(outbox, e),
             UNCHANGED <<head, broadcastPending, dropped, inbox, thread, hand>>
      PROVE  AcksOnlyLostToStops'
  <2>1. outbox' = outbox \o <<e>> /\ <<e>> \in Seq(Events)
    BY <1>1, <1>2, AppendIsConcat
  <2> QED
    BY <1>2, <2>1, AcksStay
<1>3. \A n \in Nat : \A kind \in Kinds : Event(w, kind, n) \in Events
  BY EventType
<1>4. CASE ScriptPosts(w)
  <2> DEFINE e == Event(w, "message", sent[w] + 1)
  <2>1. outbox' = Append(outbox, e)
        /\ UNCHANGED <<head, broadcastPending, dropped, inbox, thread, hand>>
    BY <1>4 DEF ScriptPosts, Says
  <2>2. e \in Events
    BY <1>1, <1>3 DEF Kinds
  <2> HIDE DEF e
  <2> QED
    BY <1>2, <2>1, <2>2
<1>5. CASE ScriptBroadcasts(w)
  <2> DEFINE e == Event(w, "broadcast", 0)
  <2>1. outbox' = Append(outbox, e)
        /\ UNCHANGED <<head, broadcastPending, dropped, inbox, thread, hand>>
    BY <1>5 DEF ScriptBroadcasts
  <2>2. e \in Events
    BY <1>3 DEF Kinds
  <2> HIDE DEF e
  <2> QED
    BY <1>2, <2>1, <2>2
<1>6. Acked(w) \in Seq(Events) /\ Acked(w) \o <<>> = Acked(w)
  <2>1. Event(w, "bcack", 0) \in Events
    BY <1>3 DEF Kinds
  <2>2. Acked(w) \in Seq(Events)
    BY <1>1, <2>1, AppendProperties DEF Acked
  <2> QED
    BY <2>2, ConcatEmptySeq
<1>7. thread[w] # "poll" => hand[w] = <<>>
  BY DEF BirthInv
<1>8. ASSUME hand[w] = <<>>, UNCHANGED <<hand, dropped>>
      PROVE  /\ hand' = [hand EXCEPT ![w] = <<>>]
             /\ dropped' = dropped + Count(hand[w], {"broadcast"})
  <2>1. dropped + 0 = dropped
    BY DEF Typed
  <2> QED
    BY <1>8, <2>1, EmptyHand
(* The thread goes on to a state in which it handles no broadcast.           *)
<1>9. ASSUME NEW states, "broadcast" \notin states, Goes(w, states), thread[w] # "broadcast",
             hand' = hand, UNCHANGED <<head, outbox, broadcastPending, dropped, inbox>>
      PROVE  AcksOnlyLostToStops'
  <2>1. PICK to \in states : thread' = [thread EXCEPT ![w] = to]
    BY <1>9 DEF Goes
  <2>2. to # "broadcast"
    BY <1>9
  <2>3. CarriedBy(thread', hand') = CarriedBy(thread, hand)
    BY <1>9, <2>1, <2>2 DEF CarriedBy, Typed
  <2>4. outbox' = outbox \o <<>>
    BY <1>1, <1>9, ConcatEmptySeq
  <2> QED
    BY <1>1, <1>9, <2>3, <2>4, AcksStay
<1>10. "broadcast" \notin Afterwards /\ "broadcast" \notin {"ends"} /\ "broadcast" \notin {"dead"}
  BY DEF Afterwards
<1>11. CASE BootReturns(w) \/ PostReturns(w)
  <2>1. Goes(w, Afterwards) /\ thread[w] # "broadcast" /\ hand' = hand
        /\ UNCHANGED <<head, outbox, broadcastPending, dropped, inbox>>
    BY <1>11 DEF BootReturns, PostReturns
  <2> QED
    BY <1>9, <1>10, <2>1
<1>12. CASE Closes(w)
  <2>1. Goes(w, {"ends"}) /\ thread[w] # "broadcast" /\ hand' = hand
        /\ UNCHANGED <<head, outbox, broadcastPending, dropped, inbox>>
    BY <1>12 DEF Closes
  <2> QED
    BY <1>9, <1>10, <2>1
<1>13. CASE Ends(w)
  <2>1. Goes(w, {"dead"}) /\ thread[w] # "broadcast" /\ hand' = hand
        /\ UNCHANGED <<head, outbox, broadcastPending, dropped, inbox>>
    BY <1>13 DEF Ends
  <2> QED
    BY <1>9, <1>10, <2>1
(* It stops handling one, or gives up the one in its hand.                   *)
<1>14. ASSUME NEW states, "broadcast" \notin states, Goes(w, states),
              hand' = [hand EXCEPT ![w] = <<>>],
              dropped' = dropped + Count(hand[w], {"broadcast"}),
              NEW s \in Seq(Events), outbox' = Acked(w) \o s,
              UNCHANGED <<head, broadcastPending, inbox>>
       PROVE  AcksOnlyLostToStops'
  <2>1. PICK to \in states : thread' = [thread EXCEPT ![w] = to]
    BY <1>14 DEF Goes
  <2>2. to # "broadcast"
    BY <1>14
  <2> QED
    BY <1>14, <2>1, <2>2, AcksAnswered
<1>15. CASE BroadcastReturns(w)
  <2>1. Goes(w, Afterwards) /\ outbox' = Acked(w) \o <<>> /\ thread[w] # "poll"
        /\ UNCHANGED <<head, broadcastPending, dropped, inbox, hand>>
    BY <1>6, <1>15 DEF BroadcastReturns
  <2> QED
    BY <1>1, <1>7, <1>8, <1>10, <1>14, <2>1
<1>16. CASE Leaves(w)
  <2>1. Goes(w, {"ends"}) /\ outbox' = Acked(w) \o <<>> /\ hand' = [hand EXCEPT ![w] = <<>>]
        /\ dropped' = dropped + Count(hand[w], {"broadcast"})
        /\ UNCHANGED <<head, broadcastPending, inbox>>
    BY <1>6, <1>16 DEF Leaves
  <2> QED
    BY <1>1, <1>10, <1>14, <2>1
<1>17. CASE Raises(w)
  <2> DEFINE e == Event(w, "__error", sent[w] + 1)
  <2>1. /\ Goes(w, {"ends"}) /\ outbox' = Append(Acked(w), e)
        /\ UNCHANGED <<head, broadcastPending, dropped, inbox, hand>>
    BY <1>17 DEF Raises, Says
  <2>2. e \in Events
    BY <1>1, <1>3 DEF Kinds
  <2>3. hand[w] = <<>>
    BY <1>7, <1>17 DEF Raises, InScript
  <2> HIDE DEF e
  <2>4. outbox' = Acked(w) \o <<e>> /\ <<e>> \in Seq(Events)
    BY <1>6, <2>1, <2>2, AppendIsConcat
  <2>5. hand' = [hand EXCEPT ![w] = <<>>] /\ dropped' = dropped + Count(hand[w], {"broadcast"})
    BY <1>8, <2>1, <2>3
  <2> QED
    BY <1>10, <1>14, <2>1, <2>4, <2>5
<1>18. CASE Pull(w)
  BY <1>18, AcksPulled
<1>19. CASE Take(w)
  BY <1>19, AcksTaken
<1> QED
  BY <1>4, <1>5, <1>11, <1>12, <1>13, <1>15, <1>16, <1>17, <1>18, <1>19 DEF Thread

LEMMA AcksStep == Typed /\ BirthInv /\ AcksOnlyLostToStops /\ [Next]_vars => AcksOnlyLostToStops'
<1> SUFFICES ASSUME Typed, BirthInv, AcksOnlyLostToStops, [Next]_vars
             PROVE  AcksOnlyLostToStops'
  OBVIOUS
<1> USE DEF counterVars, threadVars, mainVars, historyVars
<1>0. Typed'
  BY TypedStep
<1>1. ASSUME UNCHANGED <<inbox, thread, hand, broadcastPending, dropped>>,
             head' \o outbox' = head \o outbox
      PROVE  AcksOnlyLostToStops'
  BY <1>1, UnreadIs, CarriedIs DEF AcksOnlyLostToStops
<1>2. CASE UNCHANGED vars
  BY <1>1, <1>2 DEF vars
<1>3. CASE DeliverOne \/ DeliveryEnds \/ \E w \in Worker : GraceIsOver(w)
  <2>1. UNCHANGED <<inbox, thread, hand, broadcastPending, dropped, head, outbox>>
    BY <1>3 DEF DeliverOne, DeliveryEnds, GraceIsOver
  <2> QED
    BY <1>1, <2>1
<1>4. CASE Park
  <2>1. UNCHANGED <<inbox, thread, hand, broadcastPending, dropped>>
    BY <1>4 DEF Park
  <2> QED
    BY <1>1, <1>4, <2>1, ParkKeeps
<1>5. CASE Page
  BY <1>0, <1>5, AcksPage
<1>6. CASE Deliver
  BY <1>0, <1>6, AcksDrained
<1>7. ASSUME NEW w \in Worker, Reap(w) PROVE AcksOnlyLostToStops'
  BY <1>0, <1>7, AcksReaped
<1>8. CASE ResetEnds
  BY <1>0, <1>8, AcksReset
<1>9. ASSUME NEW w \in Worker, Thread(w) PROVE AcksOnlyLostToStops'
  BY <1>0, <1>9, AcksThread
<1> QED
  BY <1>2, <1>3, <1>4, <1>5, <1>6, <1>7, <1>8, <1>9 DEF Next, Main

(* Every broadcast that @worker_broadcast_pending waits an ack for is in an  *)
(* inbox, in a hand or a handler, or answered on the outbox or its parked    *)
(* head; only a thread told to stop between its pull and its check loses     *)
(* one.  Settle (worker_pending?) therefore waits on a broadcast no worker   *)
(* still has only where the code loses it.                                   *)
THEOREM AcksAlwaysOnlyLostToStops == Spec => []AcksOnlyLostToStops
<1> DEFINE Inv == LifeInv /\ AcksOnlyLostToStops
<1>1. Init => AcksOnlyLostToStops
  <2> SUFFICES ASSUME Init PROVE AcksOnlyLostToStops
    OBVIOUS
  <2>1. broadcastPending = 0 /\ dropped = 0 /\ head = <<>> /\ outbox = <<>>
    BY DEF Init
  <2>2. inbox \in [Worker -> Seq(Letters)]
    BY InitTyped DEF Typed
  <2> DEFINE u == Cardinality(UnreadIn(inbox))  i == Cardinality(CarriedBy(thread, hand))
             c == Count(head \o outbox, {"bcack"})
  <2>3. u \in Nat /\ i \in Nat
    BY <2>2, UnreadSize, CarriedIs
  <2>4. c = 0
    <3>1. <<>> \o <<>> = <<>>
      BY EmptySeq, ConcatEmptySeq
    <3> QED
      BY <2>1, <3>1, CountEmpty
  <2> HIDE DEF u, i, c
  <2>5. 0 <= u + i + c + 0
    BY <2>3, <2>4
  <2> QED
    BY <2>1, <2>5, UnreadIs, CarriedIs DEF AcksOnlyLostToStops, u, i, c
<1>2. Init => Inv
  BY <1>1, InitTyped, ModeInit, BirthInit, WorkInit DEF LifeInv
<1>3. Inv /\ [Next]_vars => Inv'
  BY TypedStep, ModeStep, BirthStep, WorkStep, AcksStep DEF LifeInv
<1>4. Inv => AcksOnlyLostToStops
  OBVIOUS
<1> HIDE DEF Inv
<1> QED
  BY <1>2, <1>3, <1>4, PTL DEF Spec
=============================================================================
