------------------------------ MODULE SumProofs ------------------------------
(***************************************************************************)
(* What SumOver of OrderCtx computes, for every finite set of values.      *)
(*                                                                         *)
(* SumOver is the fold of the community modules: a recursive function on   *)
(* the subsets of the domain, emptied one chosen element at a time.  The   *)
(* function exists (LayerExists, by induction on the size of the subsets), *)
(* so it satisfies its own equation (SumUnfolds), and from that the sums   *)
(* behave as sums: pointwise (SumPlus), at one point (SumPoint), over a    *)
(* part of the domain (SumMasked) and over one more element (SumExtend).   *)
(***************************************************************************)
EXTENDS OrderCtx, FiniteSetTheorems, WellFoundedInduction, TLAPS

\* The element the fold takes next, and the equation of the sum on a family L of
\* subsets.
Pick(T) == CHOOSE x \in T : TRUE
Layer(val, L, g) == g = [T \in L |-> IF T = {} THEN 0 ELSE val[Pick(T)] + g[T \ {Pick(T)}]]

\* The sum over every subset of the domain.
TheSum(val) == CHOOSE g : Layer(val, SUBSET DOMAIN val, g)

\* The fold is the sum over the whole domain.
LEMMA Unfold == ASSUME NEW val PROVE SumOver(val) = TheSum(val)[DOMAIN val]
  BY DEF SumOver, MapThenFoldSet, TheSum, Layer, Pick

\* The fold removes an element that is there.
LEMMA PickIn == ASSUME NEW T, T # {} PROVE Pick(T) \in T
  BY DEF Pick

\* A set of naturals has a least member.
LEMMA Least ==
  ASSUME NEW T \in SUBSET Nat, T # {}
  PROVE  \E u \in T : \A w \in T : u <= w
  <1> DEFINE R == {ss \in Nat \X Nat : ss[1] < ss[2]}
  <1>1. IsWellFoundedOn(R, Nat)
    BY NatLessThanWellFounded DEF OpToRel
  <1>2. PICK u \in T : \A w \in T : ~(<<w, u>> \in R)
    <2> HIDE DEF R
    <2> QED BY <1>1, WFMin
  <1>3. ASSUME NEW w \in T
        PROVE  u <= w
    <2>1. w \in Nat /\ u \in Nat
      OBVIOUS
    <2>2. ~(w < u)
      BY <1>2, <2>1
    <2> QED BY <2>1, <2>2
  <1> QED BY <1>3

\* Induction over the subsets of a finite set, emptied by the choice of the fold.
LEMMA SubsetInduction ==
  ASSUME NEW S, IsFiniteSet(S), NEW B, {} \in B,
         \A T \in SUBSET S : T # {} /\ T \ {Pick(T)} \in B => T \in B
  PROVE  \A T \in SUBSET S : T \in B
  <1> DEFINE Bad == {n \in Nat : \E T \in SUBSET S : Cardinality(T) = n /\ T \notin B}
  <1> SUFFICES ASSUME NEW U \in SUBSET S, U \notin B
               PROVE  FALSE
    OBVIOUS
  <1>1. \A T \in SUBSET S : IsFiniteSet(T) /\ Cardinality(T) \in Nat
    BY FS_Subset, FS_CardinalityType
  <1>2. Bad # {}
    BY <1>1
  <1>3. PICK n \in Bad : \A m \in Bad : n <= m
    BY <1>2, Least
  <1>4. PICK T \in SUBSET S : Cardinality(T) = n /\ T \notin B
    BY <1>3
  <1>5. T # {} /\ Pick(T) \in T
    BY <1>4, PickIn
  <1>6. /\ T \ {Pick(T)} \in SUBSET S
        /\ Cardinality(T \ {Pick(T)}) = Cardinality(T) - 1
    BY <1>1, <1>5, FS_RemoveElement
  <1>7. T \ {Pick(T)} \in B
    <2>1. n \in Nat /\ ~ (n <= n - 1)
      BY <1>3
    <2>2. SUFFICES ASSUME T \ {Pick(T)} \notin B
                   PROVE  n - 1 \in Bad
      BY <1>3, <2>1
    <2>3. Cardinality(T \ {Pick(T)}) = n - 1 /\ n - 1 \in Nat
      BY <1>1, <1>4, <1>6
    <2> QED BY <1>6, <2>2, <2>3
  <1> QED BY <1>4, <1>5, <1>7

\* The fold over the subsets of at most n elements.
Upto(S, n) == {T \in SUBSET S : Cardinality(T) <= n}

\* From the subsets of n elements to those of n + 1.
LEMMA LayerStep ==
  ASSUME NEW val, NEW S, IsFiniteSet(S), NEW n \in Nat, NEW g, Layer(val, Upto(S, n), g)
  PROVE  \E h : Layer(val, Upto(S, n + 1), h)
  <1> DEFINE h == [T \in Upto(S, n + 1) |->
                     IF T = {} THEN 0 ELSE val[Pick(T)] + g[T \ {Pick(T)}]]
  <1>1. \A T \in Upto(S, n + 1) : T # {} => T \ {Pick(T)} \in Upto(S, n)
    <2> SUFFICES ASSUME NEW T \in Upto(S, n + 1), T # {}
                 PROVE  T \ {Pick(T)} \in Upto(S, n)
      OBVIOUS
    <2>1. IsFiniteSet(T) /\ Cardinality(T) \in Nat /\ T \in SUBSET S
          /\ Cardinality(T) <= n + 1 /\ Pick(T) \in T
      BY FS_Subset, FS_CardinalityType, PickIn DEF Upto
    <2>2. Cardinality(T \ {Pick(T)}) = Cardinality(T) - 1
      BY <2>1, FS_RemoveElement
    <2> QED BY <2>1, <2>2 DEF Upto
  <1>2. \A T \in Upto(S, n) :
          T \in Upto(S, n + 1)
          /\ g[T] = IF T = {} THEN 0 ELSE val[Pick(T)] + g[T \ {Pick(T)}]
    <2>1. \A T \in SUBSET S : Cardinality(T) \in Nat
      BY FS_Subset, FS_CardinalityType
    <2>2. \A T \in Upto(S, n) : T \in Upto(S, n + 1)
      BY <2>1 DEF Upto
    <2>3. g = [T \in Upto(S, n) |-> IF T = {} THEN 0 ELSE val[Pick(T)] + g[T \ {Pick(T)}]]
      BY DEF Layer
    <2>4. \A T \in Upto(S, n) :
            g[T] = IF T = {} THEN 0 ELSE val[Pick(T)] + g[T \ {Pick(T)}]
      BY <2>3
    <2> QED BY <2>2, <2>4
  <1>3. \A T \in Upto(S, n) : h[T] = g[T]
    BY <1>2
  <1>4. \A T \in Upto(S, n + 1) :
          (IF T = {} THEN 0 ELSE val[Pick(T)] + g[T \ {Pick(T)}])
            = IF T = {} THEN 0 ELSE val[Pick(T)] + h[T \ {Pick(T)}]
    BY <1>1, <1>3
  <1>5. h = [T \in Upto(S, n + 1) |->
               IF T = {} THEN 0 ELSE val[Pick(T)] + h[T \ {Pick(T)}]]
    BY <1>4
  <1> QED BY <1>5 DEF Layer

\* The empty subset.
LEMMA LayerZero ==
  ASSUME NEW val, NEW S, IsFiniteSet(S)
  PROVE  \E h : Layer(val, Upto(S, 0), h)
  <1> DEFINE h == [T \in Upto(S, 0) |-> 0]
  <1>1. \A T \in Upto(S, 0) : T = {}
    <2>1. \A T \in SUBSET S : IsFiniteSet(T) /\ Cardinality(T) \in Nat
      BY FS_Subset, FS_CardinalityType
    <2>2. \A T \in Upto(S, 0) : Cardinality(T) = 0 /\ IsFiniteSet(T)
      BY <2>1 DEF Upto
    <2> QED BY <2>2, FS_EmptySet
  <1>2. h = [T \in Upto(S, 0) |->
               IF T = {} THEN 0 ELSE val[Pick(T)] + h[T \ {Pick(T)}]]
    BY <1>1
  <1> QED BY <1>2 DEF Layer

\* For every bound on their size.
LEMMA LayerExists ==
  ASSUME NEW val, NEW S, IsFiniteSet(S), NEW n \in Nat
  PROVE  \E h : Layer(val, Upto(S, n), h)
  <1> DEFINE Bad == {m \in Nat : ~ \E h : Layer(val, Upto(S, m), h)}
  <1> SUFFICES ASSUME n \in Bad
               PROVE  FALSE
    OBVIOUS
  <1>1. PICK m \in Bad : \A k \in Bad : m <= k
    BY Least
  <1>2. m # 0
    BY <1>1, LayerZero
  <1>3. m - 1 \in Nat /\ m - 1 \notin Bad /\ (m - 1) + 1 = m
    BY <1>1, <1>2
  <1>4. PICK g : Layer(val, Upto(S, m - 1), g)
    BY <1>3
  <1>5. \E h : Layer(val, Upto(S, (m - 1) + 1), h)
    BY <1>3, <1>4, LayerStep
  <1> QED BY <1>1, <1>3, <1>5

\* The fold of a finite function does what its definition says.
LEMMA SumUnfolds ==
  ASSUME NEW val, IsFiniteSet(DOMAIN val), NEW T \in SUBSET DOMAIN val
  PROVE  TheSum(val)[T] = IF T = {} THEN 0 ELSE val[Pick(T)] + TheSum(val)[T \ {Pick(T)}]
  <1> DEFINE S == DOMAIN val
             n == Cardinality(S)
  <1>1. n \in Nat
    BY FS_CardinalityType
  <1>2. Upto(S, n) = SUBSET S
    <2>1. \A U \in SUBSET S : Cardinality(U) <= n
      BY FS_Subset
    <2> HIDE DEF n
    <2> QED BY <2>1 DEF Upto
  <1>3. \E g : Layer(val, SUBSET S, g)
    <2>1. IsFiniteSet(S)
      OBVIOUS
    <2> HIDE DEF S, n
    <2>2. \E g : Layer(val, Upto(S, n), g)
      BY <1>1, <2>1, LayerExists
    <2> QED BY <1>2, <2>2
  <1>4. Layer(val, SUBSET S, TheSum(val))
    BY <1>3 DEF TheSum
  <1> QED BY <1>4 DEF Layer

-----------------------------------------------------------------------------
(* Sums of integers                                                        *)

\* A sum of integers is one, and of naturals is not negative.
LEMMA SumTyped ==
  ASSUME NEW S, IsFiniteSet(S), NEW u \in [S -> Int]
  PROVE  /\ SumOver(u) \in Int
         /\ (\A x \in S : u[x] >= 0) => SumOver(u) >= 0
         /\ (\A x \in S : u[x] = 0) => SumOver(u) = 0
  <1> DEFINE s == TheSum(u)
             B == {T \in SUBSET S :
                     /\ s[T] \in Int
                     /\ (\A x \in S : u[x] >= 0) => s[T] >= 0
                     /\ (\A x \in S : u[x] = 0) => s[T] = 0}
  <1>1. \A T \in SUBSET S : s[T] = IF T = {} THEN 0 ELSE u[Pick(T)] + s[T \ {Pick(T)}]
    BY SumUnfolds
  <1>2. {} \in B
    <2> HIDE DEF s
    <2>1. {} \in SUBSET S
      OBVIOUS
    <2>2. s[{}] = 0
      BY <1>1, <2>1
    <2> QED BY <2>2
  <1>3. ASSUME NEW T \in SUBSET S, T # {}, T \ {Pick(T)} \in B
        PROVE  T \in B
    <2>1. Pick(T) \in S /\ u[Pick(T)] \in Int
      BY <1>3, PickIn
    <2>2. s[T] = u[Pick(T)] + s[T \ {Pick(T)}]
      BY <1>1, <1>3
    <2> HIDE DEF s
    <2> QED BY <1>3, <2>1, <2>2
  <1> HIDE DEF B
  <1>4. S \in B
    <2>1. \A T \in SUBSET S : T # {} /\ T \ {Pick(T)} \in B => T \in B
      BY <1>3
    <2>2. \A T \in SUBSET S : T \in B
      BY <1>2, <2>1, SubsetInduction
    <2> QED BY <2>2
  <1>5. SumOver(u) = s[S]
    BY Unfold
  <1> QED BY <1>4, <1>5 DEF B

\* Sums add up pointwise.
LEMMA SumPlus ==
  ASSUME NEW S, IsFiniteSet(S), NEW u \in [S -> Int], NEW v \in [S -> Int],
         NEW w \in [S -> Int], \A x \in S : w[x] = u[x] + v[x]
  PROVE  SumOver(w) = SumOver(u) + SumOver(v)
  <1> DEFINE su == TheSum(u)
             sv == TheSum(v)
             sw == TheSum(w)
             B == {T \in SUBSET S : /\ su[T] \in Int /\ sv[T] \in Int
                                    /\ sw[T] = su[T] + sv[T]}
  <1>1. \A T \in SUBSET S :
          /\ su[T] = IF T = {} THEN 0 ELSE u[Pick(T)] + su[T \ {Pick(T)}]
          /\ sv[T] = IF T = {} THEN 0 ELSE v[Pick(T)] + sv[T \ {Pick(T)}]
          /\ sw[T] = IF T = {} THEN 0 ELSE w[Pick(T)] + sw[T \ {Pick(T)}]
    BY SumUnfolds
  <1>2. {} \in B
    <2> HIDE DEF su, sv, sw
    <2>1. {} \in SUBSET S
      OBVIOUS
    <2>2. su[{}] = 0 /\ sv[{}] = 0 /\ sw[{}] = 0
      BY <1>1, <2>1
    <2> QED BY <2>2
  <1>3. ASSUME NEW T \in SUBSET S, T # {}, T \ {Pick(T)} \in B
        PROVE  T \in B
    <2>1. /\ Pick(T) \in S /\ u[Pick(T)] \in Int /\ v[Pick(T)] \in Int
          /\ w[Pick(T)] = u[Pick(T)] + v[Pick(T)]
      BY <1>3, PickIn
    <2>2. /\ su[T] = u[Pick(T)] + su[T \ {Pick(T)}]
          /\ sv[T] = v[Pick(T)] + sv[T \ {Pick(T)}]
          /\ sw[T] = w[Pick(T)] + sw[T \ {Pick(T)}]
      BY <1>1, <1>3
    <2> HIDE DEF su, sv, sw
    <2> QED BY <1>3, <2>1, <2>2
  <1> HIDE DEF B
  <1>4. S \in B
    <2>1. \A T \in SUBSET S : T # {} /\ T \ {Pick(T)} \in B => T \in B
      BY <1>3
    <2>2. \A T \in SUBSET S : T \in B
      BY <1>2, <2>1, SubsetInduction
    <2> QED BY <2>2
  <1>5. SumOver(u) = su[S] /\ SumOver(v) = sv[S] /\ SumOver(w) = sw[S]
    BY Unfold
  <1> QED BY <1>4, <1>5 DEF B

\* A sum changes by what one of its values changes.
LEMMA SumPoint ==
  ASSUME NEW S, IsFiniteSet(S), NEW u \in [S -> Int], NEW w \in [S -> Int], NEW z \in S,
         \A x \in S : x # z => w[x] = u[x]
  PROVE  SumOver(w) = SumOver(u) + (w[z] - u[z])
  <1> DEFINE su == TheSum(u)
             sw == TheSum(w)
             B == {T \in SUBSET S :
                     /\ su[T] \in Int
                     /\ sw[T] = su[T] + (IF z \in T THEN w[z] - u[z] ELSE 0)}
  <1>1. \A T \in SUBSET S :
          /\ su[T] = IF T = {} THEN 0 ELSE u[Pick(T)] + su[T \ {Pick(T)}]
          /\ sw[T] = IF T = {} THEN 0 ELSE w[Pick(T)] + sw[T \ {Pick(T)}]
    BY SumUnfolds
  <1>2. {} \in B
    <2> HIDE DEF su, sw
    <2>1. {} \in SUBSET S
      OBVIOUS
    <2>2. su[{}] = 0 /\ sw[{}] = 0
      BY <1>1, <2>1
    <2> QED BY <2>2
  <1>3. ASSUME NEW T \in SUBSET S, T # {}, T \ {Pick(T)} \in B
        PROVE  T \in B
    <2>1. /\ Pick(T) \in T /\ Pick(T) \in S
          /\ u[Pick(T)] \in Int /\ w[Pick(T)] \in Int /\ u[z] \in Int /\ w[z] \in Int
          /\ Pick(T) # z => w[Pick(T)] = u[Pick(T)]
      BY <1>3, PickIn
    <2>2. /\ su[T] = u[Pick(T)] + su[T \ {Pick(T)}]
          /\ sw[T] = w[Pick(T)] + sw[T \ {Pick(T)}]
      BY <1>1, <1>3
    <2> HIDE DEF su, sw
    <2>3. CASE Pick(T) = z
      BY <1>3, <2>1, <2>2, <2>3
    <2>4. CASE Pick(T) # z
      BY <1>3, <2>1, <2>2, <2>4
    <2> QED BY <2>3, <2>4
  <1> HIDE DEF B
  <1>4. S \in B
    <2>1. \A T \in SUBSET S : T # {} /\ T \ {Pick(T)} \in B => T \in B
      BY <1>3
    <2>2. \A T \in SUBSET S : T \in B
      BY <1>2, <2>1, SubsetInduction
    <2> QED BY <2>2
  <1>5. SumOver(u) = su[S] /\ SumOver(w) = sw[S]
    BY Unfold
  <1> QED BY <1>4, <1>5 DEF B

\* The sum over a part of the domain is the sum with the rest at zero.
LEMMA SumMasked ==
  ASSUME NEW S, IsFiniteSet(S), NEW u \in [S -> Int], NEW P \in SUBSET S
  PROVE  SumOver([x \in P |-> u[x]]) = SumOver([x \in S |-> IF x \in P THEN u[x] ELSE 0])
  <1> DEFINE m(T) == [x \in S |-> IF x \in T THEN u[x] ELSE 0]
             v == [x \in P |-> u[x]]
             s == TheSum(v)
             B == {T \in SUBSET P : s[T] = SumOver(m(T))}
  <1>1. IsFiniteSet(P) /\ DOMAIN v = P
    BY FS_Subset
  <1>2. \A T \in SUBSET P : s[T] = IF T = {} THEN 0 ELSE v[Pick(T)] + s[T \ {Pick(T)}]
    BY <1>1, SumUnfolds
  <1>3. \A T \in SUBSET S : m(T) \in [S -> Int]
    OBVIOUS
  <1> HIDE DEF s
  <1>4. {} \in B
    <2>1. s[{}] = 0
      BY <1>2
    <2>2. m({}) \in [S -> Int] /\ \A x \in S : m({})[x] = 0
      OBVIOUS
    <2> HIDE DEF m
    <2>3. SumOver(m({})) = 0
      BY <2>2, SumTyped
    <2> QED BY <2>1, <2>3
  <1>5. ASSUME NEW T \in SUBSET P, T # {}, T \ {Pick(T)} \in B
        PROVE  T \in B
    <2> DEFINE p == Pick(T)
               R == T \ {p}
    <2>1. p \in T /\ p \in S /\ p \in P
      BY <1>5, PickIn
    <2>2. s[T] = v[p] + s[R] /\ v[p] = u[p] /\ u[p] \in Int
      BY <1>2, <1>5, <2>1
    <2>3. /\ m(R) \in [S -> Int] /\ m(T) \in [S -> Int]
          /\ m(T)[p] = u[p] /\ m(R)[p] = 0
          /\ \A x \in S : x # p => m(T)[x] = m(R)[x]
      BY <1>3, <2>1
    <2>4. s[R] = SumOver(m(R))
      BY <1>5
    <2> HIDE DEF m, v, p, R
    <2>5. SumOver(m(T)) = SumOver(m(R)) + (m(T)[p] - m(R)[p])
      BY <2>1, <2>3, SumPoint
    <2>6. SumOver(m(R)) \in Int
      BY <2>3, SumTyped
    <2> QED BY <2>2, <2>3, <2>4, <2>5, <2>6
  <1> HIDE DEF B
  <1>6. P \in B
    <2>1. \A T \in SUBSET P : T # {} /\ T \ {Pick(T)} \in B => T \in B
      BY <1>5
    <2>2. \A T \in SUBSET P : T \in B
      BY <1>1, <1>4, <2>1, SubsetInduction
    <2> QED BY <2>2
  <1>7. SumOver(v) = s[P]
    BY <1>1, Unfold DEF s
  <1> QED BY <1>6, <1>7 DEF B

\* One more element adds its value.
LEMMA SumExtend ==
  ASSUME NEW S, IsFiniteSet(S), NEW z, z \notin S, NEW u \in [S \cup {z} -> Int]
  PROVE  SumOver(u) = SumOver([x \in S |-> u[x]]) + u[z]
  <1> DEFINE R == S \cup {z}
             m == [x \in R |-> IF x \in S THEN u[x] ELSE 0]
  <1>1. IsFiniteSet(R)
    BY FS_AddElement
  <1>2. SumOver([x \in S |-> u[x]]) = SumOver(m)
    <2>1. S \in SUBSET R /\ u \in [R -> Int]
      OBVIOUS
    <2> HIDE DEF R
    <2> QED BY <1>1, <2>1, SumMasked
  <1>3. m \in [R -> Int] /\ z \in R /\ m[z] = 0 /\ u[z] \in Int
        /\ \A x \in R : x # z => u[x] = m[x]
    OBVIOUS
  <1> HIDE DEF m
  <1>4. SumOver(u) = SumOver(m) + (u[z] - m[z])
    <2>1. u \in [R -> Int]
      OBVIOUS
    <2> HIDE DEF R
    <2> QED BY <1>1, <1>3, <2>1, SumPoint
  <1>5. SumOver(m) \in Int
    <2> HIDE DEF R
    <2> QED BY <1>1, <1>3, SumTyped
  <1> QED BY <1>2, <1>3, <1>4, <1>5
\* The sum over some of the domain, and over two disjoint parts of it.
SumOn(u, R) == SumOver([x \in R |-> u[x]])
LEMMA SumDisjoint ==
  ASSUME NEW S, IsFiniteSet(S), NEW u \in [S -> Int],
         NEW P \in SUBSET S, NEW Q \in SUBSET S, P \cap Q = {}
  PROVE  SumOn(u, P \cup Q) = SumOn(u, P) + SumOn(u, Q)
  <1> DEFINE m(R) == [x \in S |-> IF x \in R THEN u[x] ELSE 0]
             R == P \cup Q
  <1>1. /\ SumOver([x \in P |-> u[x]]) = SumOver(m(P))
        /\ SumOver([x \in Q |-> u[x]]) = SumOver(m(Q))
    BY SumMasked
  <1>2. R \in SUBSET S
    OBVIOUS
  <1>3. \A x \in S : x \in R <=> x \in P \/ x \in Q
    OBVIOUS
  <1> HIDE DEF R
  <1>4. SumOver([x \in R |-> u[x]]) = SumOver(m(R))
    BY <1>2, SumMasked
  <1>5. /\ m(P) \in [S -> Int] /\ m(Q) \in [S -> Int] /\ m(R) \in [S -> Int]
        /\ \A x \in S : m(R)[x] = m(P)[x] + m(Q)[x]
    BY <1>3
  <1> HIDE DEF m
  <1>6. SumOver(m(R)) = SumOver(m(P)) + SumOver(m(Q))
    BY <1>5, SumPlus
  <1>7. /\ SumOn(u, R) = SumOver([x \in R |-> u[x]])
        /\ SumOn(u, P) = SumOver([x \in P |-> u[x]])
        /\ SumOn(u, Q) = SumOver([x \in Q |-> u[x]])
    BY DEF SumOn
  <1> QED BY <1>1, <1>4, <1>6, <1>7 DEF R

\* The sum of the negated values.
LEMMA SumNegated ==
  ASSUME NEW S, IsFiniteSet(S), NEW u \in [S -> Int], NEW v \in [S -> Int],
         \A x \in S : v[x] = -u[x]
  PROVE  SumOver(v) = -SumOver(u)
  <1> DEFINE zero == [x \in S |-> 0]
  <1>1. zero \in [S -> Int] /\ \A x \in S : zero[x] = 0
    OBVIOUS
  <1> HIDE DEF zero
  <1>2. \A x \in S : zero[x] = u[x] + v[x]
    BY <1>1
  <1>3. SumOver(zero) = SumOver(u) + SumOver(v)
    BY <1>1, <1>2, SumPlus, ZenonT(30)
  <1>4. SumOver(zero) = 0 /\ SumOver(u) \in Int /\ SumOver(v) \in Int
    BY <1>1, SumTyped
  <1> QED BY <1>3, <1>4
=============================================================================
