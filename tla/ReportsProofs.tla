---------------------------- MODULE ReportsProofs ----------------------------
(***************************************************************************)
(* What the tools and the steps of a turn answer, for every input of the   *)
(* kinds the assumptions of Reports name: proofs of the invariants of      *)
(* Reports.  A behaviour answers at most once, so the invariant is that    *)
(* the answer is the one asked for; what is to be shown of it is shown of  *)
(* the operators it is made by.  What is said of sums is shown by          *)
(* induction on the set, and a ranking is shown to be a permutation.       *)
(***************************************************************************)
EXTENDS Reports, FiniteSetTheorems, SequenceTheorems, WellFoundedInduction, TLAPS

-----------------------------------------------------------------------------
(* Induction over the subsets of a finite set.                             *)

\* A set of numbers has a least one.
LEMMA Minimum ==
    ASSUME NEW S \in SUBSET Nat, S # {}
    PROVE  \E m \in S : \A i \in S : m <= i
<1>1. PICK m \in S : \A i \in S : ~ (<<i, m>> \in OpToRel(<, Nat))
  BY NatLessThanWellFounded, WFMin
<1>2. \A i \in S : ~ (i < m)
  BY <1>1 DEF OpToRel
<1>3. QED BY <1>2

\* What holds of a set when it holds of it without any one of its elements, holds
\* of every finite set: a smallest one that it did not hold of could not be.
LEMMA Subsets ==
    ASSUME NEW A, IsFiniteSet(A), NEW K,
           \A B \in SUBSET A : (\A x \in B : B \ {x} \in K) => B \in K
    PROVE  A \in K
<1> SUFFICES ASSUME A \notin K PROVE FALSE
  OBVIOUS
<1> DEFINE N == {n \in Nat : \E B \in SUBSET A : B \notin K /\ Cardinality(B) = n}
<1>1. Cardinality(A) \in N
  BY FS_CardinalityType
<1>2. PICK n \in N : \A i \in N : n <= i
  BY <1>1, Minimum
<1>3. PICK B \in SUBSET A : B \notin K /\ Cardinality(B) = n
  OBVIOUS
<1>4. IsFiniteSet(B)
  BY FS_Subset
<1>5. ASSUME NEW x \in B PROVE B \ {x} \in K
  <2>1. Cardinality(B \ {x}) = n - 1 /\ Cardinality(B \ {x}) \in Nat
    BY <1>3, <1>4, FS_RemoveElement, FS_CardinalityType
  <2>2. CASE B \ {x} \notin K
    <3>1. n - 1 \in N
      BY <2>1, <2>2
    <3>2. QED BY <3>1, <1>2
  <2>3. QED BY <2>2
<1>6. QED BY <1>3, <1>5

-----------------------------------------------------------------------------
(* Sums.                                                                   *)

\* The element that a fold takes next.
Pick(s) == CHOOSE x \in s : TRUE

\* The function by which a sum is defined.
IsFold(h, f, A) == h = [s \in SUBSET A |-> IF s = {} THEN 0 ELSE f[Pick(s)] + h[s \ {Pick(s)}]]

\* It exists for every finite set.
LEMMA FoldExists ==
    ASSUME NEW f, NEW A, IsFiniteSet(A)
    PROVE  \E h : IsFold(h, f, A)
<1> DEFINE Value(h, s) == IF s = {} THEN 0 ELSE f[Pick(s)] + h[s \ {Pick(s)}]
           Below(n) == {s \in SUBSET A : Cardinality(s) <= n}
           Good(n) == \E h : h = [s \in Below(n) |-> Value(h, s)]
           Bad == {n \in Nat : ~ Good(n)}
<1>1. \A s \in SUBSET A : IsFiniteSet(s) /\ Cardinality(s) \in Nat
  BY FS_Subset, FS_CardinalityType
<1>2. Good(0)
  <2> DEFINE h == [s \in Below(0) |-> 0]
  <2>1. \A s \in Below(0) : s = {}
    BY <1>1, FS_EmptySet
  <2>2. h = [s \in Below(0) |-> Value(h, s)]
    BY <2>1
  <2>3. QED BY <2>2
<1>3. ASSUME NEW n \in Nat, n # 0, Good(n - 1) PROVE Good(n)
  <2>1. PICK h : h = [s \in Below(n - 1) |-> Value(h, s)]
    BY <1>3
  <2> DEFINE g == [s \in Below(n) |-> Value(h, s)]
  <2>2. ASSUME NEW s \in Below(n), s # {} PROVE g[s \ {Pick(s)}] = h[s \ {Pick(s)}]
    <3> DEFINE t == s \ {Pick(s)}
    <3>1. Pick(s) \in s
      BY <2>2 DEF Pick
    <3>2. t \in SUBSET A /\ Cardinality(t) = Cardinality(s) - 1
      BY <3>1, <1>1, FS_RemoveElement
    <3>3. t \in Below(n - 1) /\ t \in Below(n)
      BY <3>2, <1>1
    <3>4. h[t] = Value(h, t)
      BY <2>1, <3>3
    <3>5. g[t] = Value(h, t)
      BY <3>3
    <3>6. QED BY <3>4, <3>5
  <2>3. \A s \in Below(n) : Value(h, s) = Value(g, s)
    BY <2>2
  <2>4. g = [s \in Below(n) |-> Value(g, s)]
    BY <2>3
  <2>5. QED BY <2>4
<1> HIDE DEF Good
<1>4. Bad = {}
  <2> SUFFICES ASSUME Bad # {} PROVE FALSE
    OBVIOUS
  <2>1. PICK n \in Bad : \A i \in Bad : n <= i
    BY Minimum
  <2>2. n # 0 /\ n - 1 \in Nat /\ n - 1 \notin Bad
    BY <1>2, <2>1
  <2>3. QED BY <2>2, <1>3
<1>5. Good(Cardinality(A))
  BY <1>4, <1>1
<1>6. Below(Cardinality(A)) = SUBSET A
  BY <1>1, FS_Subset
<1>7. QED
  BY <1>5, <1>6 DEF Good, IsFold

\* What a sum is: zero of the empty set, else the element taken next and the rest.
LEMMA SumStep ==
    ASSUME NEW f, NEW A, IsFiniteSet(A)
    PROVE  SumFunctionOnSet(f, A) = IF A = {} THEN 0 ELSE f[Pick(A)] + SumFunctionOnSet(f, A \ {Pick(A)})
<1> DEFINE Value(h, s) == IF s = {} THEN 0 ELSE f[Pick(s)] + h[s \ {Pick(s)}]
           Fold(B) == CHOOSE h : IsFold(h, f, B)
<1>1. \A B : SumFunctionOnSet(f, B) = Fold(B)[B]
  BY DEF SumFunctionOnSet, FoldFunctionOnSet, MapThenFoldSet, Pick, IsFold
<1>2. ASSUME NEW B \in SUBSET A PROVE Fold(B) = [s \in SUBSET B |-> Value(Fold(B), s)]
  <2>1. IsFiniteSet(B)
    BY FS_Subset
  <2>2. \E h : IsFold(h, f, B)
    BY <2>1, FoldExists
  <2>3. IsFold(Fold(B), f, B)
    BY <2>2
  <2>4. QED BY <2>3 DEF IsFold
<1> HIDE DEF Fold
<1>3. CASE A = {}
  BY <1>1, <1>2, <1>3
<1>4. CASE A # {}
  <2> DEFINE B == A \ {Pick(A)}
  <2>1. Pick(A) \in A /\ B \in SUBSET A
    BY <1>4 DEF Pick
  <2> DEFINE K == {s \in SUBSET B : Fold(A)[s] = Fold(B)[s]}
  <2>2. ASSUME NEW s \in SUBSET B, \A x \in s : s \ {x} \in K PROVE s \in K
    <3>1. Fold(A)[s] = Value(Fold(A), s) /\ Fold(B)[s] = Value(Fold(B), s)
      BY <1>2, <2>1
    <3>2. CASE s = {}
      BY <3>1, <3>2
    <3>3. CASE s # {}
      <4>1. Pick(s) \in s
        BY <3>3 DEF Pick
      <4>2. Fold(A)[s \ {Pick(s)}] = Fold(B)[s \ {Pick(s)}]
        BY <4>1, <2>2
      <4>3. QED BY <3>1, <3>3, <4>2
    <3>4. QED BY <3>2, <3>3
  <2>3. IsFiniteSet(B)
    BY <2>1, FS_Subset
  <2>4. B \in K
    <3> HIDE DEF K, B
    <3>1. QED BY <2>2, <2>3, Subsets
  <2>5. Fold(A)[A] = f[Pick(A)] + Fold(A)[B]
    BY <1>2, <1>4
  <2>6. QED BY <1>1, <1>4, <2>4, <2>5
<1>5. QED BY <1>3, <1>4

\* Nothing adds up to zero.
LEMMA SumEmpty ==
    ASSUME NEW f
    PROVE  SumFunctionOnSet(f, {}) = 0
BY SumStep, FS_EmptySet

\* Whole numbers add up to one.
LEMMA SumType ==
    ASSUME NEW f, NEW A, IsFiniteSet(A), \A x \in A : f[x] \in Int
    PROVE  SumFunctionOnSet(f, A) \in Int
<1> DEFINE K == {B \in SUBSET A : SumFunctionOnSet(f, B) \in Int}
<1>1. ASSUME NEW B \in SUBSET A, \A x \in B : B \ {x} \in K PROVE B \in K
  <2>1. IsFiniteSet(B)
    BY FS_Subset
  <2>2. CASE B = {}
    BY <2>1, <2>2, SumStep
  <2>3. CASE B # {}
    <3>1. Pick(B) \in B
      BY <2>3 DEF Pick
    <3>2. SumFunctionOnSet(f, B) = f[Pick(B)] + SumFunctionOnSet(f, B \ {Pick(B)})
      BY <2>1, <2>3, SumStep
    <3>3. f[Pick(B)] \in Int /\ SumFunctionOnSet(f, B \ {Pick(B)}) \in Int
      BY <1>1, <3>1
    <3>4. QED BY <3>2, <3>3
  <2>4. QED BY <2>2, <2>3
<1> HIDE DEF K
<1>2. A \in K
  BY <1>1, Subsets
<1>3. QED BY <1>2 DEF K

\* Any element may be taken first.
LEMMA SumRemove ==
    ASSUME NEW f, NEW A, IsFiniteSet(A), \A x \in A : f[x] \in Int, NEW x \in A
    PROVE  SumFunctionOnSet(f, A) = f[x] + SumFunctionOnSet(f, A \ {x})
<1> DEFINE S(B) == SumFunctionOnSet(f, B)
           K == {B \in SUBSET A : \A y \in B : S(B) = f[y] + S(B \ {y})}
<1>1. \A B \in SUBSET A : IsFiniteSet(B) /\ S(B) \in Int
  BY FS_Subset, SumType
<1>2. ASSUME NEW B \in SUBSET A, \A y \in B : B \ {y} \in K PROVE B \in K
  <2> SUFFICES ASSUME NEW y \in B PROVE S(B) = f[y] + S(B \ {y})
    OBVIOUS
  <2> DEFINE p == Pick(B)
  <2>1. p \in B
    BY DEF Pick
  <2>2. S(B) = f[p] + S(B \ {p})
    BY <1>1, SumStep
  <2>3. CASE y = p
    BY <2>2, <2>3
  <2>4. CASE y # p
    <3>1. S(B \ {p}) = f[y] + S((B \ {p}) \ {y})
      BY <1>2, <2>1, <2>4
    <3>2. S(B \ {y}) = f[p] + S((B \ {y}) \ {p})
      BY <1>2, <2>1, <2>4
    <3> DEFINE T == (B \ {y}) \ {p}
    <3>3. (B \ {p}) \ {y} = T
      OBVIOUS
    <3>4. S(B) \in Int /\ S(B \ {y}) \in Int /\ S(B \ {p}) \in Int /\ S(T) \in Int
          /\ f[y] \in Int /\ f[p] \in Int
      BY <1>1, <2>1
    <3>5. S(B \ {p}) = f[y] + S(T)
      BY <3>1, <3>3
    <3>6. S(B \ {y}) = f[p] + S(T)
      BY <3>2
    <3> HIDE DEF S, T, p
    <3>7. S(B) = f[y] + S(B \ {y})
      BY <2>2, <3>4, <3>5, <3>6
    <3>8. QED BY <3>7
  <2>5. QED BY <2>3, <2>4
<1> HIDE DEF K
<1>3. A \in K
  BY <1>2, Subsets
<1>4. QED BY <1>3 DEF K

\* One element more adds its value.
LEMMA SumAdd ==
    ASSUME NEW f, NEW A, IsFiniteSet(A), NEW x, x \notin A, \A y \in A \cup {x} : f[y] \in Int
    PROVE  SumFunctionOnSet(f, A \cup {x}) = f[x] + SumFunctionOnSet(f, A)
<1>1. IsFiniteSet(A \cup {x}) /\ (A \cup {x}) \ {x} = A
  BY FS_AddElement
<1>2. QED BY <1>1, SumRemove

\* A sum is of the values on its set.
LEMMA SumEqual ==
    ASSUME NEW f, NEW g, NEW A, IsFiniteSet(A), \A x \in A : f[x] = g[x]
    PROVE  SumFunctionOnSet(f, A) = SumFunctionOnSet(g, A)
<1> DEFINE K == {B \in SUBSET A : SumFunctionOnSet(f, B) = SumFunctionOnSet(g, B)}
<1>1. ASSUME NEW B \in SUBSET A, \A y \in B : B \ {y} \in K PROVE B \in K
  <2>1. IsFiniteSet(B)
    BY FS_Subset
  <2>2. CASE B = {}
    BY <2>2, SumEmpty
  <2>3. CASE B # {}
    <3>1. Pick(B) \in B
      BY <2>3 DEF Pick
    <3>2. SumFunctionOnSet(f, B) = f[Pick(B)] + SumFunctionOnSet(f, B \ {Pick(B)})
      BY <2>1, <2>3, SumStep
    <3>3. SumFunctionOnSet(g, B) = g[Pick(B)] + SumFunctionOnSet(g, B \ {Pick(B)})
      BY <2>1, <2>3, SumStep
    <3>4. QED BY <3>1, <3>2, <3>3, <1>1
  <2>4. QED BY <2>2, <2>3
<1> HIDE DEF K
<1>2. A \in K
  BY <1>1, Subsets
<1>3. QED BY <1>2 DEF K

\* Sums of two values add up, and are ordered as the values are.
LEMMA SumPlus ==
    ASSUME NEW f, NEW g, NEW h, NEW A, IsFiniteSet(A),
           \A x \in A : f[x] \in Int /\ g[x] \in Int /\ h[x] = f[x] + g[x]
    PROVE  SumFunctionOnSet(h, A) = SumFunctionOnSet(f, A) + SumFunctionOnSet(g, A)
<1> DEFINE F(B) == SumFunctionOnSet(f, B)
           G(B) == SumFunctionOnSet(g, B)
           H(B) == SumFunctionOnSet(h, B)
           K == {B \in SUBSET A : H(B) = F(B) + G(B)}
<1>1. \A B \in SUBSET A : IsFiniteSet(B) /\ F(B) \in Int /\ G(B) \in Int /\ H(B) \in Int
  <2> SUFFICES ASSUME NEW B \in SUBSET A
               PROVE  IsFiniteSet(B) /\ F(B) \in Int /\ G(B) \in Int /\ H(B) \in Int
    OBVIOUS
  <2>1. IsFiniteSet(B)
    BY FS_Subset
  <2>2. \A x \in B : f[x] \in Int /\ g[x] \in Int /\ h[x] \in Int
    OBVIOUS
  <2>3. QED BY <2>1, <2>2, SumType
<1>2. ASSUME NEW B \in SUBSET A, \A y \in B : B \ {y} \in K PROVE B \in K
  <2>1. CASE B = {}
    BY <2>1, SumEmpty
  <2>2. CASE B # {}
    <3>1. PICK p : p \in B
      BY <2>2
    <3>2. \A x \in B : f[x] \in Int /\ g[x] \in Int /\ h[x] \in Int
      OBVIOUS
    <3>3. F(B) = f[p] + F(B \ {p}) /\ G(B) = g[p] + G(B \ {p}) /\ H(B) = h[p] + H(B \ {p})
      BY <1>1, <3>1, <3>2, SumRemove
    <3>4. H(B \ {p}) = F(B \ {p}) + G(B \ {p}) /\ F(B \ {p}) \in Int /\ G(B \ {p}) \in Int
      BY <1>1, <1>2, <3>1
    <3>5. h[p] = f[p] + g[p] /\ f[p] \in Int /\ g[p] \in Int
      BY <3>1
    <3> HIDE DEF F, G, H
    <3>6. H(B) = F(B) + G(B)
      BY <3>3, <3>4, <3>5
    <3>7. QED BY <3>6
  <2>3. QED BY <2>1, <2>2
<1> HIDE DEF K
<1>3. A \in K
  BY <1>2, Subsets
<1>4. QED BY <1>3 DEF K

\* A sum is ordered as the values are.
LEMMA SumMonotone ==
    ASSUME NEW f, NEW g, NEW A, IsFiniteSet(A),
           \A x \in A : f[x] \in Int /\ g[x] \in Int /\ f[x] <= g[x]
    PROVE  SumFunctionOnSet(f, A) <= SumFunctionOnSet(g, A)
<1> DEFINE F(B) == SumFunctionOnSet(f, B)
           G(B) == SumFunctionOnSet(g, B)
           K == {B \in SUBSET A : F(B) <= G(B)}
<1>1. \A B \in SUBSET A : IsFiniteSet(B) /\ F(B) \in Int /\ G(B) \in Int
  BY FS_Subset, SumType
<1>2. ASSUME NEW B \in SUBSET A, \A y \in B : B \ {y} \in K PROVE B \in K
  <2>1. CASE B = {}
    BY <2>1, SumEmpty
  <2>2. CASE B # {}
    <3>1. PICK p : p \in B
      BY <2>2
    <3>2. F(B) = f[p] + F(B \ {p}) /\ G(B) = g[p] + G(B \ {p})
      BY <1>1, <3>1, SumRemove
    <3>3. F(B \ {p}) <= G(B \ {p}) /\ F(B \ {p}) \in Int /\ G(B \ {p}) \in Int
      BY <1>1, <1>2, <3>1
    <3>4. f[p] <= g[p] /\ f[p] \in Int /\ g[p] \in Int
      BY <3>1
    <3> HIDE DEF F, G
    <3>5. F(B) <= G(B)
      BY <3>2, <3>3, <3>4
    <3>6. QED BY <3>5
  <2>3. QED BY <2>1, <2>2
<1> HIDE DEF K
<1>3. A \in K
  BY <1>2, Subsets
<1>4. QED BY <1>3 DEF K

\* Disjoint sets add up.
LEMMA SumUnion ==
    ASSUME NEW f, NEW A, NEW B, IsFiniteSet(A), IsFiniteSet(B), A \cap B = {},
           \A x \in A \cup B : f[x] \in Int
    PROVE  SumFunctionOnSet(f, A \cup B) = SumFunctionOnSet(f, A) + SumFunctionOnSet(f, B)
<1> DEFINE F(C) == SumFunctionOnSet(f, C)
           K == {C \in SUBSET B : F(A \cup C) = F(A) + F(C)}
<1>1. \A C \in SUBSET B : IsFiniteSet(C) /\ IsFiniteSet(A \cup C) /\ F(C) \in Int
  <2> SUFFICES ASSUME NEW C \in SUBSET B
               PROVE  IsFiniteSet(C) /\ IsFiniteSet(A \cup C) /\ F(C) \in Int
    OBVIOUS
  <2>1. IsFiniteSet(C)
    BY FS_Subset
  <2>2. IsFiniteSet(A \cup C)
    BY <2>1, FS_Union
  <2>3. \A x \in C : f[x] \in Int
    OBVIOUS
  <2>4. QED BY <2>1, <2>2, <2>3, SumType
<1>2. F(A) \in Int
  BY SumType
<1>3. ASSUME NEW C \in SUBSET B, \A y \in C : C \ {y} \in K PROVE C \in K
  <2>1. CASE C = {}
    <3>1. F(A \cup C) = F(A)
      <4>1. A \cup C = A
        BY <2>1
      <4>2. QED BY <4>1
    <3>2. F(C) = 0
      BY <2>1, SumEmpty
    <3> HIDE DEF F
    <3>3. F(A \cup C) = F(A) + F(C)
      BY <3>1, <3>2, <1>2
    <3>4. QED BY <3>3
  <2>2. CASE C # {}
    <3>1. PICK p : p \in C
      BY <2>2
    <3>2. \A x \in A \cup C : f[x] \in Int
      OBVIOUS
    <3>3. F(C) = f[p] + F(C \ {p})
      <4>1. IsFiniteSet(C) /\ \A x \in C : f[x] \in Int
        BY <1>1
      <4>2. QED BY <3>1, <4>1, SumRemove
    <3>4. F(A \cup C) = f[p] + F((A \cup C) \ {p})
      <4> DEFINE U == A \cup C
      <4>1. IsFiniteSet(U) /\ p \in U /\ \A x \in U : f[x] \in Int
        BY <1>1, <3>1
      <4> HIDE DEF U
      <4>2. F(U) = f[p] + F(U \ {p})
        BY <4>1, SumRemove
      <4>3. QED BY <4>2 DEF U
    <3>5. (A \cup C) \ {p} = A \cup (C \ {p})
      BY <3>1
    <3>6. F(A \cup (C \ {p})) = F(A) + F(C \ {p}) /\ F(C \ {p}) \in Int
      BY <1>1, <1>3, <3>1
    <3>7. F(A \cup C) = f[p] + F(A \cup (C \ {p}))
      BY <3>4, <3>5
    <3>8. f[p] \in Int
      BY <3>1
    <3> HIDE DEF F
    <3>9. F(A \cup C) = F(A) + F(C)
      BY <1>2, <3>3, <3>6, <3>7, <3>8
    <3>10. QED BY <3>9
  <2>3. QED BY <2>1, <2>2
<1> HIDE DEF K
<1>4. B \in K
  BY <1>3, Subsets
<1>5. QED BY <1>4 DEF K

\* What is sorted into classes adds up to the sums of the classes.
LEMMA SumParts ==
    ASSUME NEW f, NEW A, NEW c, NEW C, NEW g, NEW P, IsFiniteSet(A), IsFiniteSet(C),
           DOMAIN c = A, DOMAIN P = C,
           \A x \in A : c[x] \in C /\ f[x] \in Int,
           \A k \in C : /\ P[k] \subseteq A /\ (\A x \in A : x \in P[k] <=> c[x] = k)
                       /\ g[k] = SumFunctionOnSet(f, P[k])
    PROVE  SumFunctionOnSet(g, C) = SumFunctionOnSet(f, A)
<1> DEFINE Of(D) == {x \in A : c[x] \in D}
           F(B) == SumFunctionOnSet(f, B)
           G(D) == SumFunctionOnSet(g, D)
           K == {D \in SUBSET C : G(D) = F(Of(D))}
<1>1. \A B \in SUBSET A : IsFiniteSet(B) /\ F(B) \in Int
  BY FS_Subset, SumType
<1>2. \A k \in C : g[k] \in Int
  BY <1>1
<1>3. \A D \in SUBSET C : IsFiniteSet(D)
  BY FS_Subset
<1>4. ASSUME NEW D \in SUBSET C, \A y \in D : D \ {y} \in K PROVE D \in K
  <2>1. CASE D = {}
    <3>1. Of(D) = {}
      BY <2>1
    <3>2. QED BY <2>1, <3>1, SumEmpty
  <2>2. CASE D # {}
    <3>1. PICK k : k \in D
      BY <2>2
    <3> DEFINE B == P[k]
    <3>2. G(D) = g[k] + G(D \ {k})
      BY <1>2, <1>3, <3>1, SumRemove
    <3>3. Of(D) = Of(D \ {k}) \cup B /\ Of(D \ {k}) \cap B = {}
      BY <3>1
    <3>4. F(Of(D \ {k}) \cup B) = F(Of(D \ {k})) + F(B)
      <4> DEFINE R == Of(D \ {k})
      <4>1. IsFiniteSet(R) /\ IsFiniteSet(B) /\ R \cap B = {} /\ \A x \in R \cup B : f[x] \in Int
        BY <1>1, <3>3
      <4> HIDE DEF R, B
      <4>2. F(R \cup B) = F(R) + F(B)
        BY <4>1, SumUnion
      <4>3. QED BY <4>2 DEF R
    <3>5. G(D \ {k}) = F(Of(D \ {k}))
      BY <1>4, <3>1
    <3>6. g[k] = F(B)
      BY <3>1
    <3>7. F(B) \in Int /\ F(Of(D \ {k})) \in Int
      BY <1>1, <3>1
    <3>8. F(Of(D)) = F(Of(D \ {k})) + F(B)
      BY <3>3, <3>4
    <3> HIDE DEF F, G, Of, B
    <3>9. G(D) = F(Of(D))
      BY <3>2, <3>5, <3>6, <3>7, <3>8
    <3>10. QED BY <3>9
  <2>3. QED BY <2>1, <2>2
<1> HIDE DEF K
<1>5. C \in K
  BY <1>4, Subsets
<1>6. G(C) = F(Of(C))
  BY <1>5 DEF K
<1>7. Of(C) = A
  OBVIOUS
<1>8. QED BY <1>6, <1>7

\* What a finite set is mapped to is finite.
LEMMA FiniteImage ==
    ASSUME NEW A, IsFiniteSet(A), NEW b
    PROVE  IsFiniteSet({b[x] : x \in A}) /\ Cardinality({b[x] : x \in A}) <= Cardinality(A)
<1> DEFINE T == {b[x] : x \in A}
           g == [x \in A |-> b[x]]
<1>1. g \in Surjection(A, T)
  BY DEF Surjection
<1> HIDE DEF g, T
<1>2. IsFiniteSet(T) /\ Cardinality(T) <= Cardinality(A)
  BY <1>1, FS_Surjection
<1>3. QED BY <1>2 DEF T

\* A sum does not depend on how its elements are named.
LEMMA SumRename ==
    ASSUME NEW f, NEW h, NEW A, NEW B, NEW b, IsFiniteSet(A),
           \A x \in A : b[x] \in B, \A x, y \in A : b[x] = b[y] => x = y,
           \A y \in B : \E x \in A : b[x] = y,
           \A y \in B : f[y] \in Int, \A x \in A : h[x] = f[b[x]]
    PROVE  SumFunctionOnSet(h, A) = SumFunctionOnSet(f, B)
<1> DEFINE Image(D) == {b[x] : x \in D}
           F(C) == SumFunctionOnSet(f, C)
           H(D) == SumFunctionOnSet(h, D)
           K == {D \in SUBSET A : H(D) = F(Image(D))}
<1>1. ASSUME NEW D \in SUBSET A
      PROVE  IsFiniteSet(D) /\ IsFiniteSet(Image(D)) /\ Image(D) \subseteq B
  <2>1. IsFiniteSet(D)
    BY FS_Subset
  <2>2. QED BY <2>1, FiniteImage
<1>2. ASSUME NEW D \in SUBSET A, \A y \in D : D \ {y} \in K PROVE D \in K
  <2>1. CASE D = {}
    <3>1. Image(D) = {}
      BY <2>1
    <3>2. QED BY <2>1, <3>1, SumEmpty
  <2>2. CASE D # {}
    <3>1. PICK x : x \in D
      BY <2>2
    <3>2. H(D) = h[x] + H(D \ {x})
      <4>1. IsFiniteSet(D) /\ \A y \in D : h[y] \in Int
        BY <1>1
      <4>2. QED BY <4>1, <3>1, SumRemove
    <3>3. F(Image(D)) = f[b[x]] + F(Image(D) \ {b[x]})
      <4>1. \A y \in Image(D) : f[y] \in Int
        BY <1>1
      <4>2. b[x] \in Image(D) /\ IsFiniteSet(Image(D))
        BY <1>1, <3>1
      <4> HIDE DEF Image
      <4>3. QED BY <4>1, <4>2, SumRemove
    <3>4. Image(D) \ {b[x]} = Image(D \ {x})
      BY <3>1
    <3>5. H(D \ {x}) = F(Image(D \ {x}))
      BY <1>2, <3>1
    <3>6. h[x] = f[b[x]]
      BY <3>1
    <3>7. QED BY <3>2, <3>3, <3>4, <3>5, <3>6
  <2>3. QED BY <2>1, <2>2
<1> HIDE DEF K
<1>3. A \in K
  BY <1>2, Subsets
<1>4. H(A) = F(Image(A))
  BY <1>3 DEF K
<1>5. Image(A) = B
  OBVIOUS
<1>6. QED BY <1>4, <1>5

\* Zeros add up to zero.
LEMMA SumZero ==
    ASSUME NEW f, NEW A, IsFiniteSet(A), \A x \in A : f[x] = 0
    PROVE  SumFunctionOnSet(f, A) = 0
<1> DEFINE K == {B \in SUBSET A : SumFunctionOnSet(f, B) = 0}
<1>1. ASSUME NEW B \in SUBSET A, \A y \in B : B \ {y} \in K PROVE B \in K
  <2>1. IsFiniteSet(B)
    BY FS_Subset
  <2>2. CASE B = {}
    BY <2>2, SumEmpty
  <2>3. CASE B # {}
    <3>1. Pick(B) \in B
      BY <2>3 DEF Pick
    <3>2. SumFunctionOnSet(f, B) = f[Pick(B)] + SumFunctionOnSet(f, B \ {Pick(B)})
      BY <2>1, <2>3, SumStep
    <3>3. f[Pick(B)] = 0 /\ SumFunctionOnSet(f, B \ {Pick(B)}) = 0
      BY <3>1, <1>1
    <3>4. QED BY <3>2, <3>3
  <2>4. QED BY <2>2, <2>3
<1> HIDE DEF K
<1>2. A \in K
  BY <1>1, Subsets
<1>3. QED BY <1>2 DEF K

\* Ones add up to their number.
LEMMA SumOnes ==
    ASSUME NEW f, NEW A, IsFiniteSet(A), \A x \in A : f[x] = 1
    PROVE  SumFunctionOnSet(f, A) = Cardinality(A)
<1> DEFINE K == {B \in SUBSET A : SumFunctionOnSet(f, B) = Cardinality(B)}
<1>1. ASSUME NEW B \in SUBSET A, \A y \in B : B \ {y} \in K PROVE B \in K
  <2>1. IsFiniteSet(B) /\ Cardinality(B) \in Nat
    BY FS_Subset, FS_CardinalityType
  <2>2. CASE B = {}
    BY <2>2, SumEmpty, FS_EmptySet
  <2>3. CASE B # {}
    <3>1. Pick(B) \in B
      BY <2>3 DEF Pick
    <3>2. SumFunctionOnSet(f, B) = f[Pick(B)] + SumFunctionOnSet(f, B \ {Pick(B)})
      BY <2>1, <2>3, SumStep
    <3>3. f[Pick(B)] = 1 /\ SumFunctionOnSet(f, B \ {Pick(B)}) = Cardinality(B \ {Pick(B)})
      BY <3>1, <1>1
    <3>4. Cardinality(B \ {Pick(B)}) = Cardinality(B) - 1
      BY <2>1, <3>1, FS_RemoveElement
    <3>5. QED BY <2>1, <3>2, <3>3, <3>4
  <2>4. QED BY <2>2, <2>3
<1> HIDE DEF K
<1>2. A \in K
  BY <1>1, Subsets
<1>3. QED BY <1>2 DEF K

\* What is left out of a sum of amounts that are none of them negative makes it less.
LEMMA SumSubset ==
    ASSUME NEW f, NEW A, NEW B \in SUBSET A, IsFiniteSet(A), \A x \in A : f[x] \in Nat
    PROVE  /\ SumFunctionOnSet(f, B) \in Nat
           /\ SumFunctionOnSet(f, B) <= SumFunctionOnSet(f, A)
<1>1. \A C \in SUBSET A : SumFunctionOnSet(f, C) \in Int /\ SumFunctionOnSet(f, C) >= 0
  <2> SUFFICES ASSUME NEW C \in SUBSET A
               PROVE  SumFunctionOnSet(f, C) \in Int /\ SumFunctionOnSet(f, C) >= 0
    OBVIOUS
  <2> DEFINE z == [x \in C |-> 0]
  <2>1. IsFiniteSet(C) /\ \A x \in C : z[x] \in Int /\ f[x] \in Int /\ z[x] <= f[x]
    BY FS_Subset
  <2>2. SumFunctionOnSet(z, C) = 0
    <3>1. \A x \in C : z[x] = 0
      OBVIOUS
    <3> HIDE DEF z
    <3>2. QED BY <2>1, <3>1, SumZero
  <2> HIDE DEF z
  <2>3. SumFunctionOnSet(z, C) <= SumFunctionOnSet(f, C)
    BY <2>1, SumMonotone
  <2>4. SumFunctionOnSet(f, C) \in Int
    BY <2>1, SumType
  <2>5. QED BY <2>2, <2>3, <2>4
<1> DEFINE D == A \ B
<1>2. IsFiniteSet(B) /\ IsFiniteSet(D) /\ B \cap D = {} /\ B \cup D = A
  BY FS_Subset
<1>3. \A x \in B \cup D : f[x] \in Int
  OBVIOUS
<1>4. D \in SUBSET A
  OBVIOUS
<1> HIDE DEF D
<1>5. SumFunctionOnSet(f, A) = SumFunctionOnSet(f, B) + SumFunctionOnSet(f, D)
  BY <1>2, <1>3, SumUnion
<1>6. QED BY <1>1, <1>4, <1>5

-----------------------------------------------------------------------------
(* The order of ranked rows.                                               *)

\* A function of the numbers up to n is a list.
LEMMA Listed ==
    ASSUME NEW n \in Nat, NEW s, s = [i \in 1 .. n |-> s[i]]
    PROVE  s \in Seq({s[i] : i \in 1 .. n}) /\ Len(s) = n /\ DOMAIN s = 1 .. n
<1> DEFINE T == {s[i] : i \in 1 .. n}
<1>1. s \in [1 .. n -> T]
  OBVIOUS
<1> HIDE DEF T
<1>2. s \in Seq(T)
  BY <1>1, SeqDef
<1>3. DOMAIN s = 1 .. n /\ DOMAIN s = 1 .. Len(s) /\ Len(s) \in Nat
  BY <1>1, <1>2, LenProperties
<1>4. Len(s) = n
  BY <1>3
<1>5. QED BY <1>2, <1>3, <1>4 DEF T

\* The ranking: every position once, and whatever comes before ranks before.
LEMMA OrderFacts ==
    ASSUME NEW v, DOMAIN v \subseteq Nat, IsFiniteSet(DOMAIN v), \A i \in DOMAIN v : v[i] \in Int
    PROVE  /\ Cardinality(DOMAIN v) \in Nat
           /\ Order(v) = [k \in 1 .. Cardinality(DOMAIN v) |-> Order(v)[k]]
           /\ \A k \in 1 .. Cardinality(DOMAIN v) : Order(v)[k] \in DOMAIN v
           /\ \A i \in DOMAIN v : \E k \in 1 .. Cardinality(DOMAIN v) : Order(v)[k] = i
           /\ \A i, j \in 1 .. Cardinality(DOMAIN v) : i < j => Before(v, Order(v)[i], Order(v)[j])
           /\ \A i, j \in 1 .. Cardinality(DOMAIN v) : Order(v)[i] = Order(v)[j] => i = j
<1> DEFINE D == DOMAIN v
           c == Cardinality(D)
           Ahead(i) == {j \in D : Before(v, j, i)}
           r == [i \in D |-> Cardinality(Ahead(i))]
<1>1. c \in Nat
  BY FS_CardinalityType
<1>2. ASSUME NEW i \in D PROVE IsFiniteSet(Ahead(i)) /\ r[i] \in Nat /\ i \notin Ahead(i) /\ r[i] < c
  <2>1. IsFiniteSet(Ahead(i))
    BY FS_Subset
  <2>2. ~ Before(v, i, i)
    BY DEF Before
  <2>3. Ahead(i) \subseteq D \ {i}
    BY <2>2
  <2>4. Cardinality(Ahead(i)) \in Nat
    BY <2>1, FS_CardinalityType
  <2>5. IsFiniteSet(D \ {i}) /\ Cardinality(D \ {i}) = c - 1
    BY FS_RemoveElement
  <2>6. Cardinality(Ahead(i)) <= c - 1
    BY <2>3, <2>5, FS_Subset
  <2>7. QED BY <2>1, <2>3, <2>4, <2>6, <1>1
<1>3. ASSUME NEW i \in D, NEW j \in D, Before(v, i, j) PROVE r[i] < r[j]
  <2>1. ASSUME NEW k \in Ahead(i) PROVE k \in Ahead(j)
    <3>1. v[i] \in Int /\ v[j] \in Int /\ v[k] \in Int /\ i \in Nat /\ j \in Nat /\ k \in Nat
      OBVIOUS
    <3>2. QED BY <1>3, <3>1 DEF Before
  <2>2. i \in Ahead(j) /\ i \notin Ahead(i)
    BY <1>2, <1>3
  <2>3. Ahead(i) \subseteq Ahead(j) /\ Ahead(i) # Ahead(j) /\ IsFiniteSet(Ahead(j))
    BY <2>1, <2>2, <1>2
  <2>4. Cardinality(Ahead(i)) < Cardinality(Ahead(j))
    <3> DEFINE P == Ahead(i)
               Q == Ahead(j)
    <3>1. P \subseteq Q /\ P # Q /\ IsFiniteSet(Q)
      BY <2>3
    <3> HIDE DEF P, Q
    <3>2. Cardinality(P) <= Cardinality(Q) /\ Cardinality(P) # Cardinality(Q)
      BY <3>1, FS_Subset
    <3>3. Cardinality(P) \in Nat /\ Cardinality(Q) \in Nat
      BY <3>1, FS_Subset, FS_CardinalityType
    <3>4. Cardinality(P) < Cardinality(Q)
      BY <3>2, <3>3
    <3>5. QED BY <3>4 DEF P, Q
  <2>5. QED BY <2>4
<1>4. ASSUME NEW i \in D, NEW j \in D, i # j PROVE Before(v, i, j) \/ Before(v, j, i)
  <2>1. v[i] \in Int /\ v[j] \in Int /\ i \in Nat /\ j \in Nat
    OBVIOUS
  <2>2. QED BY <1>4, <2>1 DEF Before
<1>5. \A i, j \in D : r[i] = r[j] => i = j
  <2> SUFFICES ASSUME NEW i \in D, NEW j \in D, i # j, r[i] = r[j] PROVE FALSE
    OBVIOUS
  <2>1. r[i] < r[j] \/ r[j] < r[i]
    BY <1>3, <1>4
  <2>2. r[i] \in Nat /\ r[j] \in Nat
    BY <1>2
  <2> HIDE DEF r
  <2>3. QED BY <2>1, <2>2
<1>6. ASSUME NEW k \in 1 .. c PROVE \E i \in D : r[i] = k - 1
  <2> DEFINE T == 0 .. c - 1
  <2>1. r \in [D -> T]
    <3>1. ASSUME NEW i \in D PROVE r[i] \in T
      <4>1. r[i] \in Nat /\ r[i] < c
        BY <1>2
      <4> HIDE DEF r
      <4>2. QED BY <1>1, <4>1
    <3>2. QED BY <3>1
  <2>2. r \in Injection(D, T)
    BY <1>5, <2>1 DEF Injection, IsInjective
  <2>3. IsFiniteSet(T) /\ Cardinality(T) = c
    <3>1. c - 1 \in Int /\ (0 <= c - 1 => (c - 1) - 0 + 1 = c) /\ (~ 0 <= c - 1 => c = 0)
      BY <1>1
    <3>2. IsFiniteSet(T) /\ Cardinality(T) = IF 0 <= c - 1 THEN (c - 1) - 0 + 1 ELSE 0
      BY <3>1, FS_Interval
    <3>3. QED BY <3>1, <3>2
  <2> HIDE DEF r
  <2>4. r \in Surjection(D, T)
    BY <2>2, <2>3, FS_Injection
  <2>5. k - 1 \in T
    BY <1>1
  <2>6. QED BY <2>4, <2>5 DEF Surjection
<1>7. Order(v) = [k \in 1 .. c |-> CHOOSE i \in D : Cardinality(Ahead(i)) = k - 1]
  BY DEF Order
<1> DEFINE o == Order(v)
<1>8. ASSUME NEW k \in 1 .. c PROVE o[k] \in D /\ r[o[k]] = k - 1
  BY <1>6, <1>7
<1>9. ASSUME NEW i \in 1 .. c, NEW j \in 1 .. c, i < j PROVE Before(v, o[i], o[j])
  <2>1. r[o[i]] = i - 1 /\ r[o[j]] = j - 1 /\ o[i] \in D /\ o[j] \in D
    BY <1>8
  <2>2. o[i] # o[j]
    BY <2>1, <1>9
  <2>3. ~ Before(v, o[j], o[i])
    <3>1. Before(v, o[j], o[i]) => r[o[j]] < r[o[i]]
      BY <2>1, <1>3
    <3> HIDE DEF r, o
    <3>2. QED BY <2>1, <3>1, <1>9
  <2>4. QED BY <2>1, <2>2, <2>3, <1>4
<1>10. ASSUME NEW i \in D PROVE \E k \in 1 .. c : o[k] = i
  <2>1. r[i] \in Nat /\ r[i] < c
    BY <1>2
  <2>2. r[i] + 1 \in 1 .. c /\ (r[i] + 1) - 1 = r[i]
    <3> HIDE DEF r
    <3>1. QED BY <2>1, <1>1
  <2>3. o[r[i] + 1] \in D /\ r[o[r[i] + 1]] = r[i]
    BY <2>2, <1>8
  <2>4. o[r[i] + 1] = i
    BY <2>3, <1>5
  <2>5. QED BY <2>2, <2>4
<1>11. ASSUME NEW i \in 1 .. c, NEW j \in 1 .. c, o[i] = o[j] PROVE i = j
  <2>1. i - 1 = j - 1
    BY <1>8, <1>11
  <2>2. QED BY <2>1
<1>12. o = [k \in 1 .. c |-> o[k]]
  BY <1>7
<1> HIDE DEF r, Ahead
<1>13. QED BY <1>1, <1>8, <1>9, <1>10, <1>11, <1>12

-----------------------------------------------------------------------------
(* Divisions, roundings and reports.                                       *)

\* The quotient of a division, rounded down.
LEMMA Division ==
    ASSUME NEW a \in Int, NEW b \in Nat \ {0}
    PROVE  a \div b \in Int /\ b * (a \div b) <= a /\ a < b * (a \div b) + b
OBVIOUS

\* What divides a number divides its multiples.
LEMMA Multiple ==
    ASSUME NEW a \in Int, NEW b \in Nat \ {0}, a % b = 0
    PROVE  b * (a \div b) = a
OBVIOUS

\* A quotient rounded to a whole number is off by half of one at most.
LEMMA RoundedFacts ==
    ASSUME NEW a \in Int, NEW b \in Nat \ {0}
    PROVE  /\ Rounded(a, b) \in Int
           /\ 2 * (b * Rounded(a, b)) - 2 * a <= b /\ 2 * a - 2 * (b * Rounded(a, b)) <= b
<1> DEFINE Up(x) == (2 * x + b) \div (2 * b)
<1>1. ASSUME NEW x \in Nat
      PROVE  Up(x) \in Int /\ 2 * (b * Up(x)) <= 2 * x + b /\ 2 * x < 2 * (b * Up(x)) + b
  <2> DEFINE d == 2 * b
             e == 2 * x + b
  <2>1. d \in Nat \ {0} /\ e \in Int
    OBVIOUS
  <2> HIDE DEF d, e
  <2>2. e \div d \in Int /\ d * (e \div d) <= e /\ e < d * (e \div d) + d
    BY <2>1, Division
  <2> DEFINE q == e \div d
  <2>3. Up(x) = q
    BY DEF d, e
  <2> HIDE DEF q
  <2>4. q \in Int /\ d * q <= e /\ e < d * q + d
    BY <2>2 DEF q
  <2>5. d * q = 2 * (b * q) /\ b * q \in Int
    BY <2>4 DEF d
  <2> HIDE DEF Up
  <2> DEFINE y == b * q
  <2>6. d * q = 2 * y /\ y \in Int
    BY <2>5
  <2> HIDE DEF y
  <2>7. 2 * y <= 2 * x + b /\ 2 * x < 2 * y + b
    BY <2>4, <2>6 DEF d, e
  <2>8. QED BY <2>3, <2>4, <2>7 DEF y
<1>2. Rounded(a, b) = IF a >= 0 THEN Up(a) ELSE - Up(- a)
  BY DEF Rounded
<1> HIDE DEF Up
<1>3. CASE a >= 0
  <2> DEFINE r == Up(a)
             y == b * r
  <2>1. r \in Int /\ y \in Int /\ 2 * y <= 2 * a + b /\ 2 * a < 2 * y + b
    BY <1>1, <1>3
  <2>2. Rounded(a, b) = r
    BY <1>2, <1>3
  <2> HIDE DEF r
  <2>3. b * Rounded(a, b) = y
    BY <2>2
  <2> HIDE DEF y
  <2>4. QED BY <2>1, <2>2, <2>3
<1>4. CASE a < 0
  <2> DEFINE r == Up(- a)
             y == b * r
  <2>1. r \in Int /\ y \in Int /\ 2 * y <= 2 * (- a) + b /\ 2 * (- a) < 2 * y + b
    <3>1. - a \in Nat
      BY <1>4
    <3>2. QED BY <1>1, <3>1
  <2>2. Rounded(a, b) = - r
    BY <1>2, <1>4
  <2> HIDE DEF r
  <2>3. b * Rounded(a, b) = - y
    BY <2>1, <2>2
  <2> HIDE DEF y
  <2>4. QED BY <2>1, <2>2, <2>3
<1>5. QED BY <1>3, <1>4

\* So is one of so many parts of an amount, rounded to whole minor units.
LEMMA MoneyRoundOfFacts ==
    ASSUME NEW v \in Int, NEW parts \in Nat \ {0}
    PROVE  LET r == MoneyRoundOf(v, parts)
           IN  r \in Int /\ 2 * (parts * r) - 2 * v <= parts * Cent
               /\ 2 * v - 2 * (parts * r) <= parts * Cent
<1> DEFINE b == parts * Cent
           q == Rounded(v, b)
<1>1. Cent \in Nat \ {0}
  BY UnitsAssumption
<1>2. b \in Nat \ {0}
  BY <1>1
<1>3. q \in Int /\ 2 * (b * q) - 2 * v <= b /\ 2 * v - 2 * (b * q) <= b
  <2> HIDE DEF b
  <2>1. QED BY <1>2, RoundedFacts
<1>4. MoneyRoundOf(v, parts) = q * Cent
  BY DEF MoneyRoundOf
<1> HIDE DEF q
<1>5. b * q = parts * (q * Cent) /\ q * Cent \in Int
  BY <1>1, <1>3
<1>6. QED BY <1>3, <1>4, <1>5

\* An amount in whole minor units.
WholeCents(v) == \E q \in Int : v = q * Cent

\* Rounding gives whole minor units, is off by half a one at most, and leaves what
\* is whole as it is.
LEMMA MoneyRoundFacts ==
    ASSUME NEW v \in Int
    PROVE  /\ MoneyRound(v) \in Int /\ WholeCents(MoneyRound(v))
           /\ 2 * (MoneyRound(v) - v) <= Cent /\ 2 * (v - MoneyRound(v)) <= Cent
           /\ WholeCents(v) => MoneyRound(v) = v
<1> DEFINE Up(a) == ((2 * a + Cent) \div (2 * Cent)) * Cent
<1>1. Cent \in Nat \ {0}
  BY UnitsAssumption
<1>2. ASSUME NEW a \in Nat
      PROVE  /\ Up(a) \in Int /\ WholeCents(Up(a)) /\ WholeCents(- Up(a))
             /\ 2 * (Up(a) - a) <= Cent /\ 2 * (a - Up(a)) <= Cent
             /\ WholeCents(a) => Up(a) = a
  <2> DEFINE q == (2 * a + Cent) \div (2 * Cent)
             p == q * Cent
  <2>1. q \in Int /\ (2 * Cent) * q <= 2 * a + Cent /\ 2 * a + Cent < (2 * Cent) * q + 2 * Cent
    <3> DEFINE d == 2 * Cent
               e == 2 * a + Cent
    <3>1. d \in Nat \ {0} /\ e \in Int
      BY <1>1
    <3> HIDE DEF d, e
    <3>2. e \div d \in Int /\ d * (e \div d) <= e /\ e < d * (e \div d) + d
      BY <3>1, Division
    <3>3. QED BY <3>2 DEF d, e
  <2>2. (2 * Cent) * q = 2 * p /\ p \in Int /\ - p = (- q) * Cent
    BY <1>1, <2>1
  <2>3. 2 * (p - a) <= Cent /\ 2 * (a - p) <= Cent
    <3> HIDE DEF p, q
    <3>1. QED BY <1>1, <2>1, <2>2
  <2>4. WholeCents(p) /\ WholeCents(- p)
    BY <2>1, <2>2 DEF WholeCents
  <2>5. ASSUME NEW k \in Int, a = k * Cent PROVE p = a
    <3>1. 2 * (q * Cent) <= 2 * (k * Cent) + Cent /\ 2 * (k * Cent) + Cent < 2 * (q * Cent) + 2 * Cent
      BY <1>1, <2>1, <2>2, <2>5
    <3>2. k <= q - 1 => k * Cent <= q * Cent - Cent
      <4>1. ASSUME k <= q - 1 PROVE k * Cent <= (q - 1) * Cent
        <5> HIDE DEF q
        <5>1. QED BY <1>1, <2>1, <4>1
      <4>2. (q - 1) * Cent = q * Cent - Cent
        BY <1>1, <2>1
      <4>3. QED BY <4>1, <4>2
    <3>3. q <= k - 1 => q * Cent <= k * Cent - Cent
      <4>1. ASSUME q <= k - 1 PROVE q * Cent <= (k - 1) * Cent
        <5> HIDE DEF q
        <5>1. QED BY <1>1, <2>1, <4>1
      <4>2. (k - 1) * Cent = k * Cent - Cent
        BY <1>1
      <4>3. QED BY <4>1, <4>2
    <3> DEFINE x == q * Cent
               y == k * Cent
    <3>4. x \in Int /\ y \in Int
      BY <1>1, <2>1
    <3>5. ~ (k <= q - 1) /\ ~ (q <= k - 1)
      <4>1. 2 * x <= 2 * y + Cent /\ 2 * y + Cent < 2 * x + 2 * Cent
        BY <3>1
      <4>2. (k <= q - 1 => y <= x - Cent) /\ (q <= k - 1 => x <= y - Cent)
        BY <3>2, <3>3
      <4> HIDE DEF x, y, q, p
      <4>3. QED BY <1>1, <3>4, <4>1, <4>2
    <3>6. k = q
      <4> HIDE DEF q
      <4>1. QED BY <2>1, <3>5
    <3>7. QED BY <2>5, <3>6
  <2>6. WholeCents(a) => p = a
    BY <2>5 DEF WholeCents
  <2>7. QED BY <2>2, <2>3, <2>4, <2>6
<1> HIDE DEF Up
<1>3. MoneyRound(v) = IF v >= 0 THEN Up(v) ELSE - Up(- v)
  <2> DEFINE U(a) == (2 * a + Cent) \div (2 * Cent)
  <2>1. MoneyRound(v) = (IF v >= 0 THEN U(v) ELSE - U(- v)) * Cent
    <3>1. 1 * Cent = Cent
      BY <1>1
    <3>2. MoneyRound(v) = Rounded(v, Cent) * Cent
      BY <3>1 DEF MoneyRound, MoneyRoundOf
    <3>3. QED BY <3>2 DEF Rounded
  <2>2. U(v) * Cent = Up(v) /\ U(- v) * Cent = Up(- v)
    BY DEF Up
  <2>3. U(- v) \in Int
    <3> DEFINE d == 2 * Cent
               e == 2 * (- v) + Cent
    <3>1. d \in Nat \ {0} /\ e \in Int
      BY <1>1
    <3> HIDE DEF d, e
    <3>2. e \div d \in Int
      BY <3>1, Division
    <3>3. QED BY <3>2 DEF d, e
  <2> HIDE DEF U
  <2>4. (- U(- v)) * Cent = - (U(- v) * Cent)
    BY <1>1, <2>3
  <2>5. QED BY <2>1, <2>2, <2>4
<1>4. CASE v >= 0
  BY <1>2, <1>3, <1>4
<1>5. CASE v < 0
  <2>1. - v \in Nat
    BY <1>5
  <2>2. MoneyRound(v) = - Up(- v) /\ Up(- v) \in Int
    BY <1>2, <1>3, <1>5, <2>1
  <2>3. WholeCents(v) => WholeCents(- v)
    <3>1. ASSUME NEW k \in Int, v = k * Cent PROVE - v = (- k) * Cent
      BY <1>1, <3>1
    <3>2. QED BY <3>1 DEF WholeCents
  <2>4. /\ WholeCents(- Up(- v)) /\ 2 * (Up(- v) - (- v)) <= Cent /\ 2 * ((- v) - Up(- v)) <= Cent
        /\ WholeCents(- v) => Up(- v) = - v
    BY <1>2, <2>1
  <2>5. QED BY <1>1, <2>2, <2>3, <2>4
<1>6. QED BY <1>4, <1>5

\* How many of n rows a report with limit l shows.
CutAt(n, l) == IF 0 < l /\ l < n THEN l ELSE n

\* A report shows the first of its rows, as many as the limit allows, and says so.
LEMMA ReportIs ==
    ASSUME NEW totals, NEW T, NEW rows \in Seq(T), NEW l \in Nat
    PROVE  Report(totals, rows, l) =
             [totals |-> totals, rowCount |-> Len(rows), returned |-> CutAt(Len(rows), l),
              truncated |-> Truncated(rows, l), rows |-> [i \in 1 .. CutAt(Len(rows), l) |-> rows[i]]]
<1> DEFINE cut == Truncated(rows, l)
           shown == IF cut THEN SubSeq(rows, 1, l) ELSE rows
           m == CutAt(Len(rows), l)
<1>1. Report(totals, rows, l) =
         [totals |-> totals, rowCount |-> Len(rows), returned |-> Len(shown), truncated |-> cut,
          rows |-> shown]
  BY DEF Report
<1>2. cut <=> 0 < l /\ l < Len(rows)
  BY DEF Truncated
<1>3. shown = [i \in 1 .. m |-> rows[i]] /\ Len(shown) = m
  <2>1. CASE cut
    <3>1. 0 < l /\ l < Len(rows) /\ m = l
      BY <1>2, <2>1 DEF CutAt
    <3>2. SubSeq(rows, 1, l) = [i \in 1 .. l |-> rows[i]]
      <4>1. SubSeq(rows, 1, l) = [i \in 1 .. l |-> rows[1 + i - 1]]
        BY <3>1
      <4>2. \A i \in 1 .. l : 1 + i - 1 = i
        OBVIOUS
      <4>3. QED BY <4>1, <4>2
    <3>3. Len(SubSeq(rows, 1, l)) = l
      BY <3>1
    <3>4. QED BY <2>1, <3>1, <3>2, <3>3
  <2>2. CASE ~ cut
    BY <1>2, <2>2 DEF CutAt
  <2>3. QED BY <2>1, <2>2
<1>4. QED BY <1>1, <1>3

\* A report shows no more rows than there are.
LEMMA CutAtFacts ==
    ASSUME NEW n \in Nat, NEW l \in Nat
    PROVE  CutAt(n, l) \in 0 .. n /\ (l > 0 => CutAt(n, l) <= l) /\ CutAt(n, 0) = n
BY DEF CutAt

-----------------------------------------------------------------------------
(* The answer is that of the tool: the invariant.                          *)

\* What there is an answer to, and that it is the answer.
Asked ==
    /\ tool \in DOMAIN Inputs /\ input \in Inputs[tool] /\ limit \in Int
    /\ tool = "turns" => answer = NoAnswer
    /\ answer # NoAnswer => answer = Answer(tool, input, ClampLimit(limit))

\* Nothing is answered at first.
LEMMA InitIsAsked == Init => Asked
<1> SUFFICES ASSUME Init PROVE Asked
  OBVIOUS
<1>1. limit \in Int
  BY SalesAssumption DEF Init
<1>2. QED BY <1>1 DEF Init, Asked

\* A step answers what was asked, or leaves the answer alone.
LEMMA NextKeepsAsked == Asked /\ [Next]_vars => Asked'
<1> SUFFICES ASSUME Asked, [Next]_vars PROVE Asked'
  OBVIOUS
<1> USE DEF Asked
<1>1. CASE Return
  BY <1>1 DEF Return
<1>2. CASE Turn
  BY <1>2 DEF Turn
<1>3. CASE UNCHANGED vars
  BY <1>3 DEF vars
<1>4. QED BY <1>1, <1>2, <1>3 DEF Next

\* The answer there is is that of the tool that was called, worked out from what it was
\* called with (Reports.Return; the tools of src/chic/mcpserver/server.py).
THEOREM Invariance == Spec => []Asked
<1>1. QED BY InitIsAsked, NextKeepsAsked, PTL DEF Spec

\* Of a tool that has answered, the answer is its own.
LEMMA AnswerIs ==
    ASSUME Asked, NEW t, Answered(t), t # "turns"
    PROVE  tool = t /\ input \in Inputs[t] /\ answer = Answer(t, input, ClampLimit(limit))
BY DEF Asked, Answered

\* The turns before which the limiter is asked ask it as it is to be asked, so that what
\* is shown of the limiter by itself is true of them (Reports.Turn; ChicAgent.handle of
\* src/chic/agent/agent.py).
THEOREM TurnsAreLimited == Spec => LimiterSpec
<1>1. Init => LimiterInit
  BY DEF Init
<1>2. [Next]_vars => [LimiterNext]_limiterVars
  BY DEF Next, Return, Turn, vars, limiterVars
<1>3. QED BY <1>1, <1>2, PTL DEF Spec, LimiterSpec

-----------------------------------------------------------------------------
(* The keys of the cache.                                                  *)

\* What fetched a response, by the name that begins its key.
MethodOf == [
    ListProducts |-> "list_products", SearchCounterparties |-> "search_counterparties",
    AccountCurrency |-> "account_currency", ListEntityRefs |-> "list_entity_refs",
    SearchAssortment |-> "search_assortment", ListStates |-> "list_states",
    GetDashboard |-> "get_dashboard", ProfitByProduct |-> "profit_by_product",
    ProfitByEntity |-> "profit_by_entity", GetTurnover |-> "get_turnover", GetStock |-> "get_stock",
    GetCounterpartyReport |-> "get_counterparty_report", GetMoneySeries |-> "get_money_series",
    GetStockByStore |-> "get_stock_by_store", GetSalesSeries |-> "get_sales_series",
    GetAudit |-> "get_audit", SearchDocuments |-> "search_documents", GetDocument |-> "get_document"]

\* Each method has a name of its own, and each of its arguments a place in its key.
LEMMA KeyTableFacts ==
    ASSUME NEW m \in DOMAIN Signatures
    PROVE  /\ MethodOf[KeyTable[m][1]] = m
           /\ \A a \in Signatures[m] : \E i \in DOMAIN KeyTable[m][2] : KeyTable[m][2][i] = a
<1> DEFINE Lists == {"list_products", "search_counterparties", "account_currency",
                     "list_entity_refs", "search_assortment", "list_states"}
           Reps == {"get_dashboard", "profit_by_product", "profit_by_entity", "get_turnover",
                    "get_stock", "get_counterparty_report", "get_money_series",
                    "get_stock_by_store", "get_sales_series", "get_audit"}
           Docs == {"search_documents", "get_document"}
<1>1. m \in Lists \cup Reps \cup Docs
  BY DEF Signatures
<1>2. DOMAIN ListKeys = Lists /\ DOMAIN ReportKeys = Reps /\ DOMAIN DocumentKeys = Docs
  BY DEF ListKeys, ReportKeys, DocumentKeys
<1>3. Lists \cap Reps = {} /\ Lists \cap Docs = {} /\ Reps \cap Docs = {}
  OBVIOUS
<1>4. CASE m \in Lists
  <2>1. KeyTable[m] = ListKeys[m]
    BY <1>2, <1>4, <1>3 DEF KeyTable
  <2>2. QED BY <2>1, <1>4 DEF ListKeys, MethodOf, Signatures
<1>5. CASE m \in Reps
  <2>1. KeyTable[m] = ReportKeys[m]
    BY <1>2, <1>5, <1>3 DEF KeyTable
  <2>2. QED BY <2>1, <1>5 DEF ReportKeys, SalesArguments, MethodOf, Signatures
<1>6. CASE m \in Docs
  <2>1. KeyTable[m] = DocumentKeys[m]
    BY <1>2, <1>6, <1>3 DEF KeyTable
  <2>2. QED BY <2>1, <1>6 DEF DocumentKeys, MethodOf, Signatures
<1>7. QED BY <1>1, <1>4, <1>5, <1>6

\* Keys of different calls to one method differ.
LEMMA KeysDiffer ==
    ASSUME NEW c \in Calls, NEW d \in Calls, KeyOf(c) = KeyOf(d)
    PROVE  c = d
<1>1. /\ c.method \in DOMAIN Signatures /\ d.method \in DOMAIN Signatures
      /\ c = [method |-> c.method,
              arguments |-> [a \in Signatures[c.method] |-> c.arguments[a]]]
      /\ d = [method |-> d.method,
              arguments |-> [a \in Signatures[d.method] |-> d.arguments[a]]]
  BY TurnAssumption
<1> DEFINE e == KeyTable[c.method]
           g == KeyTable[d.method]
           x == [i \in DOMAIN e[2] |-> c.arguments[e[2][i]]]
           y == [i \in DOMAIN g[2] |-> d.arguments[g[2][i]]]
<1>2. <<e[1], x>> = <<g[1], y>>
  BY DEF KeyOf
<1>3. e[1] = g[1] /\ x = y
  BY <1>2
<1>4. c.method = d.method
  <2>1. MethodOf[e[1]] = c.method /\ MethodOf[g[1]] = d.method
    BY <1>1, KeyTableFacts
  <2>2. QED BY <2>1, <1>3
<1>5. ASSUME NEW a \in Signatures[c.method] PROVE c.arguments[a] = d.arguments[a]
  <2>1. PICK i \in DOMAIN e[2] : e[2][i] = a
    BY <1>1, KeyTableFacts
  <2>2. e = g
    BY <1>4
  <2>3. x[i] = c.arguments[a] /\ y[i] = d.arguments[a]
    BY <2>1, <2>2
  <2>4. QED BY <2>3, <1>3
<1>6. [a \in Signatures[c.method] |-> c.arguments[a]] = [a \in Signatures[d.method] |-> d.arguments[a]]
  BY <1>4, <1>5
<1>7. QED BY <1>1, <1>4, <1>6

\* Keys tell the calls apart.
LEMMA KeysAreRight == Asked => KeysTellApart
<1> SUFFICES ASSUME Asked, Answered("keys"), answer.one = answer.other PROVE input.one = input.other
  BY DEF KeysTellApart
<1>1. input \in Inputs["keys"] /\ answer = Answer("keys", input, ClampLimit(limit))
  BY AnswerIs
<1>2. input.one \in Calls /\ input.other \in Calls
  BY <1>1 DEF Inputs
<1>3. answer = [one |-> KeyOf(input.one), other |-> KeyOf(input.other)]
  BY <1>1 DEF Answer, TurnStep
<1>4. KeyOf(input.one) = KeyOf(input.other)
  BY <1>3
<1>5. QED BY <1>2, <1>4, KeysDiffer

\* A call is never answered with what another one fetched: the keys of the cache differ
\* where the calls do (Keys.KeyOf; the methods of src/chic/cache/client.py).
THEOREM KeysApart == Spec => []KeysTellApart
<1>1. QED BY Invariance, KeysAreRight, PTL

-----------------------------------------------------------------------------
(* Periods.                                                                *)

-----------------------------------------------------------------------------
(* The periods.                                                            *)

\* The first day of a month is that of the one before and its days; later months
\* begin later.
LEMMA FirstOfFacts ==
    ASSUME NEW m \in DOMAIN Months
    PROVE  FirstOf(m) \in Nat /\ FirstOf(m + 1) = FirstOf(m) + Months[m] /\ Months[m] \in Nat \ {0}
<1> DEFINE Earlier(k) == 1 .. k - 1
           F(k) == SumFunctionOnSet(Months, Earlier(k))
<1>1. Months \in Seq(Nat \ {0}) /\ m \in Nat \ {0} /\ Months[m] \in Nat \ {0}
  BY CalendarAssumption
<1>2. ASSUME NEW k \in {m, m + 1} PROVE FirstOf(k) = F(k)
  <2> DEFINE g == [i \in Earlier(k) |-> Months[i]]
  <2>1. IsFiniteSet(Earlier(k))
    <3>1. 1 \in Int /\ k - 1 \in Int
      BY <1>1
    <3>2. QED BY <3>1, FS_Interval
  <2>2. \A i \in Earlier(k) : g[i] = Months[i]
    OBVIOUS
  <2>3. SumFunctionOnSet(g, Earlier(k)) = F(k)
    <3> HIDE DEF Earlier, g
    <3>1. QED BY <2>1, <2>2, SumEqual
  <2>4. DOMAIN g = Earlier(k)
    OBVIOUS
  <2>5. QED BY <2>3, <2>4 DEF FirstOf, SumFunction
<1>3. Earlier(m + 1) = Earlier(m) \cup {m} /\ m \notin Earlier(m) /\ IsFiniteSet(Earlier(m))
  <2>1. 1 \in Int /\ m - 1 \in Int
    BY <1>1
  <2>2. IsFiniteSet(Earlier(m))
    BY <2>1, FS_Interval
  <2>3. Earlier(m + 1) = Earlier(m) \cup {m} /\ m \notin Earlier(m)
    BY <1>1
  <2>4. QED BY <2>2, <2>3
<1>4. \A i \in Earlier(m) \cup {m} : Months[i] \in Nat
  BY <1>1
<1> HIDE DEF Earlier
<1>5. F(m) \in Nat
  <2>1. Earlier(m) \in SUBSET Earlier(m) /\ \A i \in Earlier(m) : Months[i] \in Nat
    BY <1>4
  <2>2. QED BY <2>1, <1>3, SumSubset
<1>6. SumFunctionOnSet(Months, Earlier(m) \cup {m}) = Months[m] + F(m)
  <2>1. \A i \in Earlier(m) \cup {m} : Months[i] \in Int
    BY <1>4
  <2>2. QED BY <2>1, <1>3, SumAdd
<1>7. FirstOf(m) = F(m) /\ FirstOf(m + 1) = Months[m] + F(m)
  <2>1. FirstOf(m) = F(m)
    BY <1>2
  <2>2. FirstOf(m + 1) = F(m + 1)
    BY <1>2
  <2>3. QED BY <2>1, <2>2, <1>3, <1>6
<1> HIDE DEF F
<1>8. QED BY <1>1, <1>5, <1>7

\* Later months begin later.
LEMMA FirstOfGrows ==
    ASSUME NEW k \in DOMAIN Months, NEW m \in 1 .. k
    PROVE  FirstOf(m + 1) <= FirstOf(k + 1)
<1> DEFINE Bad == {j \in DOMAIN Months : j >= m /\ ~ FirstOf(m + 1) <= FirstOf(j + 1)}
<1>1. Months \in Seq(Nat \ {0}) /\ DOMAIN Months = 1 .. Len(Months) /\ Len(Months) \in Nat
  BY CalendarAssumption
<1> SUFFICES ASSUME Bad # {} PROVE FALSE
  BY <1>1
<1>2. Bad \in SUBSET Nat
  BY <1>1
<1>3. PICK j \in Bad : \A i \in Bad : j <= i
  <2> HIDE DEF Bad
  <2>1. QED BY <1>2, Minimum
<1>4. j # m
  <2>1. m \in DOMAIN Months
    BY <1>1
  <2>2. FirstOf(m + 1) \in Int
    BY <2>1, FirstOfFacts
  <2>3. QED BY <2>2
<1>5. j - 1 \in DOMAIN Months /\ j - 1 >= m /\ j - 1 \notin Bad /\ j \in Nat
  BY SMTT(60), <1>1, <1>3, <1>4
<1>6. FirstOf(m + 1) <= FirstOf((j - 1) + 1)
  BY <1>5
<1>7. (j - 1) + 1 = j
  BY <1>5
<1>8. FirstOf(j + 1) = FirstOf(j) + Months[j] /\ FirstOf(j) \in Nat /\ Months[j] \in Nat
  BY FirstOfFacts
<1>9. FirstOf(m + 1) \in Int
  <2>1. m \in DOMAIN Months
    BY <1>1
  <2>2. QED BY <2>1, FirstOfFacts
<1>10. QED BY <1>6, <1>7, <1>8, <1>9

\* A day is in one month.
LEMMA MonthIs ==
    ASSUME NEW m \in DOMAIN Months, NEW d \in Int, FirstOf(m) <= d, d < FirstOf(m + 1)
    PROVE  MonthOf(d) = m
<1> DEFINE n == MonthOf(d)
<1>1. n \in DOMAIN Months /\ FirstOf(n) <= d /\ d < FirstOf(n + 1)
  BY DEF MonthOf
<1> HIDE DEF n
<1>2. Months \in Seq(Nat \ {0}) /\ DOMAIN Months = 1 .. Len(Months) /\ Len(Months) \in Nat
  BY CalendarAssumption
<1>3. ASSUME NEW i \in DOMAIN Months, NEW j \in DOMAIN Months, i < j, d < FirstOf(i + 1), FirstOf(j) <= d
      PROVE  FALSE
  <2>1. j - 1 \in DOMAIN Months /\ i \in 1 .. j - 1 /\ (j - 1) + 1 = j
    BY SMTT(60), <1>2, <1>3
  <2>2. FirstOf(i + 1) <= FirstOf((j - 1) + 1)
    BY <2>1, FirstOfGrows
  <2>3. FirstOf(i + 1) \in Int /\ FirstOf(j) \in Int
    BY FirstOfFacts
  <2>4. QED BY <1>3, <2>1, <2>2, <2>3
<1>4. m \in Int /\ n \in Int
  BY <1>1, <1>2
<1>5. n = m
  BY <1>1, <1>3, <1>4
<1>6. QED BY <1>5 DEF n

\* The month a day of the calendar is in, but not its first.
LEMMA MonthExists ==
    ASSUME NEW d \in Calendar
    PROVE  \E m \in DOMAIN Months : m > 1 /\ FirstOf(m) <= d /\ d < FirstOf(m + 1)
<1>1. d \in Int /\ FirstOf(2) <= d /\ d < FirstOf(Len(Months) + 1)
  BY TurnAssumption
<1>2. Months \in Seq(Nat \ {0}) /\ DOMAIN Months = 1 .. Len(Months) /\ Len(Months) \in Nat
  BY CalendarAssumption
<1> DEFINE Later == {m \in 1 .. Len(Months) : d < FirstOf(m + 1)}
<1>3. Later # {}
  <2>1. Len(Months) # 0
    BY CalendarAssumption
  <2>2. Len(Months) \in 1 .. Len(Months)
    BY <1>2, <2>1
  <2>3. Len(Months) \in Later
    BY <1>1, <2>2
  <2>4. QED BY <2>3
<1>4. PICK m \in Later : \A i \in Later : m <= i
  <2>1. Later \in SUBSET Nat
    BY <1>2
  <2> HIDE DEF Later
  <2>2. QED BY <2>1, <1>3, Minimum
<1>5. m \in DOMAIN Months /\ m \in Nat /\ d < FirstOf(m + 1)
  BY <1>2
<1>6. m # 1
  <2>1. 1 \in DOMAIN Months => FirstOf(1 + 1) \in Int
    BY FirstOfFacts
  <2>2. QED BY <1>1, <1>5, <2>1
<1>7. m - 1 \notin Later /\ m - 1 \in 1 .. Len(Months) /\ (m - 1) + 1 = m
  BY <1>2, <1>4, <1>5, <1>6
<1>8. ~ d < FirstOf(m) /\ FirstOf(m) \in Int
  BY <1>5, <1>7, FirstOfFacts
<1>9. QED BY <1>1, <1>5, <1>6, <1>8

\* The month before that of a day is a whole one.
LEMMA PrevMonthIs ==
    ASSUME NEW d \in Calendar
    PROVE  \E m \in DOMAIN Months :
             /\ PrevMonth(d).from = FirstOf(m) /\ PrevMonth(d).to + 1 = FirstOf(m + 1)
             /\ PrevMonth(d).to < d /\ d < FirstOf(m + 2)
<1>1. PICK n \in DOMAIN Months : n > 1 /\ FirstOf(n) <= d /\ d < FirstOf(n + 1)
  BY MonthExists
<1>2. d \in Int
  BY TurnAssumption
<1>3. MonthOf(d) = n
  BY <1>1, <1>2, MonthIs
<1> DEFINE m == n - 1
<1>4. m \in DOMAIN Months /\ m + 1 = n /\ m + 2 = n + 1
  <2>1. DOMAIN Months = 1 .. Len(Months) /\ Len(Months) \in Nat
    BY CalendarAssumption
  <2>2. QED BY <1>1, <2>1
<1>5. FirstOf(m) \in Nat /\ FirstOf(n) = FirstOf(m) + Months[m] /\ Months[m] \in Nat \ {0}
  BY <1>4, FirstOfFacts
<1> DEFINE to == FirstOf(n) - 1
<1>6. to \in Int /\ FirstOf(m) <= to /\ to < FirstOf(m + 1) /\ to + 1 = FirstOf(m + 1) /\ to < d
  BY <1>1, <1>2, <1>4, <1>5
<1>7. MonthOf(to) = m
  <2> HIDE DEF m, to
  <2>1. QED BY <1>4, <1>6, MonthIs
<1>8. PrevMonth(d) = [from |-> FirstOf(m), to |-> to]
  BY <1>3, <1>7 DEF PrevMonth
<1> HIDE DEF m, to
<1>9. PrevMonth(d).from = FirstOf(m) /\ PrevMonth(d).to = to
  BY <1>8
<1>10. QED BY <1>1, <1>4, <1>6, <1>9

\* The moments of the days from one to another, and how many there are.
LEMMA WindowIs ==
    ASSUME NEW d \in Int, NEW e \in Int, d <= e
    PROVE  /\ Window(Date(d), Date(e)) = d * Ticks .. (e + 1) * Ticks - 1
           /\ PeriodTicks(Date(d), Date(e), 0) = (e + 1) * Ticks - d * Ticks
           /\ Cardinality(d * Ticks .. (e + 1) * Ticks - 1) = (e + 1) * Ticks - d * Ticks
<1> DEFINE x == d * Ticks
           y == e * Ticks
<1>1. Ticks \in Nat \ {0} /\ x \in Int /\ y \in Int /\ x <= y /\ (e + 1) * Ticks = y + Ticks
  BY CalendarAssumption
<1>2. Date(d).form = "date" /\ Date(e).form = "date" /\ Date(d).at = x /\ Date(e).at = y
  BY DEF Date
<1> HIDE DEF x, y
<1>3. Window(Date(d), Date(e)) = x .. y + Ticks - 1
  BY <1>2 DEF Window, Moment, MomentEnd
<1>4. PeriodTicks(Date(d), Date(e), 0) = y - x + Ticks
  BY <1>1, <1>2 DEF PeriodTicks
<1>5. Cardinality(x .. y + Ticks - 1) = y + Ticks - x
  <2> DEFINE z == y + Ticks - 1
  <2>1. z \in Int /\ x <= z /\ z - x + 1 = y + Ticks - x
    BY <1>1
  <2> HIDE DEF z
  <2>2. Cardinality(x .. z) = z - x + 1
    BY <1>1, <2>1, FS_Interval
  <2>3. QED BY <2>1, <2>2 DEF z
<1>6. y - x + Ticks = y + Ticks - x
  BY <1>1
<1>7. QED BY <1>1, <1>3, <1>4, <1>5, <1>6 DEF x

\* Two periods, one after the other, make up one.
LEMMA PeriodsMeetExactly == Asked => PeriodsMeet
<1> DEFINE Days(from, to) == PeriodTicks(Date(from), Date(to), 0)
<1> SUFFICES ASSUME Asked, Answered("periods"), input.from <= input.to, input.to < input.until
             PROVE  /\ answer.first \cap answer.second = {}
                    /\ answer.first \cup answer.second = Window(Date(input.from), Date(input.until))
                    /\ Days(input.from, input.to) = Cardinality(answer.first)
                    /\ Days(input.from, input.to) + Days(input.to + 1, input.until)
                           = Days(input.from, input.until)
                    /\ \E m \in DOMAIN Months :
                         /\ answer.before.from = FirstOf(m) /\ answer.before.to + 1 = FirstOf(m + 1)
                         /\ answer.before.to < input.to /\ input.to < FirstOf(m + 2)
  BY DEF PeriodsMeet
<1>1. input \in Inputs["periods"] /\ answer = Answer("periods", input, ClampLimit(limit))
  BY AnswerIs
<1> DEFINE d == input.from
           e == input.to
           g == input.until
<1>2. d \in Int /\ e \in Calendar /\ e \in Int /\ g \in Int
  BY <1>1, TurnAssumption DEF Inputs
<1>3. answer = [first |-> Window(Date(d), Date(e)), second |-> Window(Date(e + 1), Date(g)),
                before |-> PrevMonth(e)]
  BY <1>1 DEF Answer, TurnStep
<1>4. d <= e /\ e + 1 <= g /\ e + 1 \in Int /\ d <= g
  BY <1>2
<1> HIDE DEF d, e, g
<1> DEFINE x == d * Ticks
           y == (e + 1) * Ticks
           z == (g + 1) * Ticks
<1>5. x \in Int /\ y \in Int /\ z \in Int /\ x <= y /\ y <= z
  BY <1>2, <1>4, CalendarAssumption
<1>6. /\ answer.first = x .. y - 1 /\ answer.second = y .. z - 1
      /\ Window(Date(d), Date(g)) = x .. z - 1
      /\ Days(d, e) = y - x /\ Days(e + 1, g) = z - y /\ Days(d, g) = z - x
      /\ Cardinality(x .. y - 1) = y - x
  BY <1>2, <1>3, <1>4, WindowIs
<1>7. answer.before = PrevMonth(e)
  BY <1>3
<1> HIDE DEF x, y, z, Days
<1>8. answer.first \cap answer.second = {} /\ answer.first \cup answer.second = x .. z - 1
  BY <1>5, <1>6
<1>9. Days(d, e) + Days(e + 1, g) = Days(d, g)
  BY <1>5, <1>6
<1>10. QED BY <1>2, <1>6, <1>7, <1>8, <1>9, PrevMonthIs DEF d, e, g

\* Periods that meet take in each moment once, and the month before that of a day is a
\* whole one (Periods.Window, Periods.PrevMonth; src/chic/moysklad/dates.py).
THEOREM PeriodsAreRight == Spec => []PeriodsMeet
<1>1. QED BY Invariance, PeriodsMeetExactly, PTL

-----------------------------------------------------------------------------
(* Ranked and cut.                                                         *)

\* The limit a tool works with: a natural number of at most MaxLimit.
LEMMA LimitIs ==
    ASSUME NEW n \in Int
    PROVE  ClampLimit(n) \in 1 .. MaxLimit /\ MaxLimit \in Nat
BY LimitsAssumption DEF ClampLimit

\* A report of ranked rows, each of which has the value it was ranked by, leaves out
\* those of the whole one that rank lowest.
LEMMA CutIs ==
    ASSUME NEW v, DOMAIN v \subseteq Nat, IsFiniteSet(DOMAIN v), \A i \in DOMAIN v : v[i] \in Int,
           NEW T, NEW rows \in Seq(T), Len(rows) = Cardinality(DOMAIN v),
           \A k \in 1 .. Len(rows) : RankOf(tool, rows[k]) = v[Order(v)[k]],
           NEW totals, NEW l \in 1 .. MaxLimit, l = ClampLimit(limit), answer = Report(totals, rows, l)
    PROVE  CutFrom(Report(totals, rows, 0).rows)
<1> DEFINE c == Cardinality(DOMAIN v)
           o == Order(v)
           whole == Report(totals, rows, 0).rows
<1>1. /\ c \in Nat /\ DOMAIN o = 1 .. c /\ \A k \in 1 .. c : o[k] \in DOMAIN v
      /\ \A i, j \in 1 .. c : i < j => Before(v, o[i], o[j])
  <2>1. o = [k \in 1 .. c |-> o[k]]
    BY OrderFacts
  <2>2. c \in Nat /\ \A k \in 1 .. c : o[k] \in DOMAIN v
    BY OrderFacts
  <2>3. \A i, j \in 1 .. c : i < j => Before(v, o[i], o[j])
    BY OrderFacts
  <2> HIDE DEF c, o
  <2>4. DOMAIN o = 1 .. c
    BY <2>1
  <2>5. QED BY <2>2, <2>3, <2>4
<1>2. \A k \in 1 .. c : RankOf(tool, rows[k]) = v[o[k]]
  BY <1>1
<1>3. l \in Nat /\ 0 \in Nat /\ MaxLimit \in Nat /\ l > 0
  BY LimitsAssumption
<1>13. Len(rows) = c
  OBVIOUS
<1> HIDE DEF c, o
<1> DEFINE m == CutAt(c, l)
<1>14. answer = [totals |-> totals, rowCount |-> c, returned |-> m, truncated |-> Truncated(rows, l),
                 rows |-> [i \in 1 .. m |-> rows[i]]]
  BY <1>3, <1>13, ReportIs
<1>15. m \in 0 .. c /\ m <= l
  BY <1>1, <1>3, CutAtFacts
<1>16. Truncated(rows, l) <=> m < c
  BY <1>1, <1>3, <1>13 DEF Truncated, CutAt
<1> HIDE DEF m
<1>4. /\ answer.rowCount = c /\ answer.returned = m
      /\ DOMAIN answer.rows = 1 .. m
      /\ \A i \in 1 .. m : answer.rows[i] = rows[i]
  BY <1>14
<1>17. answer.truncated <=> m < c
  <2>1. answer.truncated = Truncated(rows, l)
    BY <1>14
  <2>2. QED BY <2>1, <1>16
<1>5. Len(whole) = c /\ \A i \in 1 .. c : whole[i] = rows[i]
  <2>1. CutAt(c, 0) = c
    BY <1>1, <1>3, CutAtFacts
  <2> DEFINE r == Report(totals, rows, 0)
  <2>2. r = [totals |-> totals, rowCount |-> c, returned |-> CutAt(c, 0), truncated |-> Truncated(rows, 0),
             rows |-> [i \in 1 .. CutAt(c, 0) |-> rows[i]]]
    BY <1>3, <1>13, ReportIs
  <2> HIDE DEF r
  <2>5. r.rows = [i \in 1 .. c |-> rows[i]]
    BY <2>1, <2>2
  <2>3. whole = [i \in 1 .. c |-> rows[i]]
    BY <2>5 DEF r
  <2>4. QED BY <1>1, <2>3
<1> HIDE DEF whole
<1>8. ASSUME NEW i \in 1 .. m, NEW j \in m + 1 .. c
      PROVE  RankOf(tool, answer.rows[i]) >= RankOf(tool, whole[j])
  <2>1. i \in 1 .. c /\ j \in 1 .. c /\ i < j
    BY <1>1, <1>4, <1>15
  <2>2. answer.rows[i] = rows[i] /\ whole[j] = rows[j]
    BY <1>4, <1>5, <1>15, <2>1
  <2>3. Before(v, o[i], o[j]) /\ o[i] \in DOMAIN v /\ o[j] \in DOMAIN v
    BY <1>1, <2>1
  <2>4. v[o[i]] >= v[o[j]]
    <3>1. v[o[i]] \in Int /\ v[o[j]] \in Int
      BY <2>3
    <3>2. QED BY <2>3, <3>1 DEF Before
  <2>5. QED BY <1>2, <2>1, <2>2, <2>4
<1>10. m = Least(ClampLimit(limit), c)
  BY <1>1, <1>3 DEF CutAt, Least, m
<1>11. CutFrom(whole)
  BY <1>4, <1>5, <1>8, <1>10, <1>17 DEF CutFrom
<1>12. QED BY <1>11 DEF whole

-----------------------------------------------------------------------------
(* The rows of the reports.                                                *)

\* The lines of a profit report: whole minor units, the gross profit their difference.
LEMMA ProfitLinesFacts ==
    ASSUME NEW rows \in ProfitRows \cup PeriodRows
    PROVE  LET s == ProfitLines(rows)
           IN  /\ Len(rows) \in Nat /\ DOMAIN s = 1 .. Len(rows) /\ IsFiniteSet(DOMAIN s)
               /\ \A i \in DOMAIN s : /\ s[i].qty \in Int /\ s[i].revenue \in Int /\ s[i].cost \in Int
                                      /\ WholeCents(s[i].revenue) /\ WholeCents(s[i].cost)
<1> DEFINE Row == [href : STRING, name : STRING, qty : Int, revenue : Int, cost : Int]
<1>1. rows \in Seq(Row)
  BY SalesAssumption
<1> HIDE DEF Row
<1>2. Len(rows) \in Nat /\ DOMAIN rows = 1 .. Len(rows) /\ \A i \in DOMAIN rows : rows[i] \in Row
  BY <1>1
<1>3. IsFiniteSet(1 .. Len(rows))
  BY <1>2, FS_Interval
<1>4. ASSUME NEW i \in DOMAIN rows
      PROVE  /\ ProfitLine(rows[i]).qty \in Int
             /\ ProfitLine(rows[i]).revenue \in Int /\ ProfitLine(rows[i]).cost \in Int
             /\ WholeCents(ProfitLine(rows[i]).revenue) /\ WholeCents(ProfitLine(rows[i]).cost)
  <2>1. rows[i].qty \in Int /\ rows[i].revenue \in Int /\ rows[i].cost \in Int
    BY <1>2 DEF Row
  <2>2. QED BY <2>1, MoneyRoundFacts DEF ProfitLine
<1>5. QED BY <1>2, <1>3, <1>4 DEF ProfitLines

\* The lines of a stock report: whole numbers, the value never below zero.
LEMMA StockLinesFacts ==
    ASSUME NEW rows \in StockRows
    PROVE  LET s == StockLines(rows)
           IN  /\ Len(rows) \in Nat /\ DOMAIN s = 1 .. Len(rows) /\ IsFiniteSet(DOMAIN s)
               /\ \A i \in DOMAIN s : /\ s[i].stock \in Int /\ s[i].available \in Int /\ s[i].transit \in Int
                                      /\ s[i].cost \in Int /\ s[i].value \in Int
<1> DEFINE Row == [href : STRING, name : STRING, stock : Int, reserve : Int, transit : Int,
                         price : Int, days : Int]
<1>1. rows \in Seq(Row)
  BY GoodsAssumption
<1> HIDE DEF Row
<1>2. Len(rows) \in Nat /\ DOMAIN rows = 1 .. Len(rows) /\ \A i \in DOMAIN rows : rows[i] \in Row
  BY <1>1
<1>3. IsFiniteSet(1 .. Len(rows))
  BY <1>2, FS_Interval
<1>4. ASSUME NEW i \in DOMAIN rows
      PROVE  /\ StockLine(rows[i]).stock \in Int /\ StockLine(rows[i]).available \in Int
             /\ StockLine(rows[i]).transit \in Int
             /\ StockLine(rows[i]).cost \in Int /\ StockLine(rows[i]).value \in Int
  <2>1. /\ rows[i].stock \in Int /\ rows[i].reserve \in Int /\ rows[i].transit \in Int
        /\ rows[i].price \in Int
    BY <1>2 DEF Row
  <2> DEFINE cost == MoneyRound(rows[i].price)
             value == rows[i].stock * cost
  <2>2. cost \in Int
    BY <2>1, MoneyRoundFacts
  <2>3. value \in Int
    <3> HIDE DEF cost
    <3>1. QED BY <2>1, <2>2
  <2>4. MoneyRoundOf(value, Piece) \in Int
    <3> HIDE DEF value
    <3>1. QED BY <2>3, UnitsAssumption, MoneyRoundOfFacts
  <2>5. QED BY <2>1, <2>2, <2>4 DEF StockLine
<1>5. QED BY <1>2, <1>3, <1>4 DEF StockLines

\* What is counted of a counterparty: whole numbers.
LEMMA MetricsFacts ==
    ASSUME NEW rows \in Counterparties
    PROVE  /\ Len(rows) \in Nat /\ DOMAIN rows = 1 .. Len(rows) /\ IsFiniteSet(DOMAIN rows)
           /\ \A i \in DOMAIN rows : /\ Metric(rows[i]).revenue \in Int /\ Metric(rows[i]).profit \in Int
                                     /\ Metric(rows[i]).balance \in Int
                                     /\ rows[i].at \in Int
<1> DEFINE Row == [revenue : Int, last : {"never", "day"}, at : Int, count : Int, receipt : Int,
                         balance : Int, profit : Int]
<1>1. rows \in Seq(Row)
  BY SalesAssumption
<1> HIDE DEF Row
<1>2. Len(rows) \in Nat /\ DOMAIN rows = 1 .. Len(rows) /\ \A i \in DOMAIN rows : rows[i] \in Row
  BY <1>1
<1>3. IsFiniteSet(1 .. Len(rows))
  BY <1>2, FS_Interval
<1>4. ASSUME NEW i \in DOMAIN rows
      PROVE  /\ Metric(rows[i]).revenue \in Int /\ Metric(rows[i]).profit \in Int
             /\ Metric(rows[i]).balance \in Int /\ rows[i].at \in Int
  <2>1. rows[i].revenue \in Int /\ rows[i].profit \in Int /\ rows[i].balance \in Int /\ rows[i].at \in Int
    BY <1>2 DEF Row
  <2>2. QED BY <2>1, MoneyRoundFacts DEF Metric
<1>5. QED BY <1>2, <1>3, <1>4

\* Ranked rows are those of the list, in the order of the values.
LEMMA RankedIs ==
    ASSUME NEW v, DOMAIN v \subseteq Nat, IsFiniteSet(DOMAIN v), \A i \in DOMAIN v : v[i] \in Int,
           NEW s, NEW rows, rows = [k \in DOMAIN Order(v) |-> s[Order(v)[k]]]
    PROVE  /\ rows \in Seq({s[i] : i \in DOMAIN v})
           /\ Len(rows) = Cardinality(DOMAIN v) /\ Len(rows) \in Nat
           /\ \A k \in 1 .. Len(rows) : Order(v)[k] \in DOMAIN v /\ rows[k] = s[Order(v)[k]]
<1> DEFINE c == Cardinality(DOMAIN v)
           o == Order(v)
           S == {s[i] : i \in DOMAIN v}
<1>1. c \in Nat /\ \A k \in 1 .. c : o[k] \in DOMAIN v
  BY OrderFacts
<1>2. DOMAIN o = 1 .. c
  <2>1. o = [k \in 1 .. c |-> o[k]]
    BY OrderFacts
  <2> HIDE DEF o, c
  <2>2. QED BY <2>1
<1>3. rows = [k \in 1 .. c |-> s[o[k]]]
  BY <1>2
<1> HIDE DEF o, c
<1>4. rows \in [1 .. c -> S]
  BY <1>1, <1>3
<1>5. \A k \in 1 .. c : o[k] \in DOMAIN v /\ rows[k] = s[o[k]]
  BY <1>1, <1>3
<1> HIDE DEF S
<1>6. rows \in Seq(S)
  BY <1>1, <1>4, SeqDef
<1>7. Len(rows) = c
  BY <1>1, <1>4, <1>6
<1>8. QED BY <1>1, <1>5, <1>6, <1>7 DEF c, o, S

\* Rows that are ranked and cut leave out the lowest.
LEMMA RankedCut ==
    ASSUME NEW v, DOMAIN v \subseteq Nat, IsFiniteSet(DOMAIN v), \A i \in DOMAIN v : v[i] \in Int,
           NEW s, \A i \in DOMAIN v : RankOf(tool, s[i]) = v[i],
           NEW rows, rows = [k \in DOMAIN Order(v) |-> s[Order(v)[k]]],
           NEW totals, NEW l \in 1 .. MaxLimit, l = ClampLimit(limit), answer = Report(totals, rows, l)
    PROVE  CutFrom(Report(totals, rows, 0).rows)
<1> DEFINE T == {s[i] : i \in DOMAIN v}
<1>1. rows \in Seq(T)
  BY SMTT(60), RankedIs
<1>2. Len(rows) = Cardinality(DOMAIN v)
  BY RankedIs
<1>3. ASSUME NEW k \in 1 .. Len(rows)
      PROVE  Order(v)[k] \in DOMAIN v /\ rows[k] = s[Order(v)[k]]
  <2>1. Order(v)[k] \in DOMAIN v
    BY RankedIs
  <2>2. rows[k] = s[Order(v)[k]]
    BY RankedIs
  <2>3. QED BY <2>1, <2>2
<1>4. \A k \in 1 .. Len(rows) : RankOf(tool, rows[k]) = v[Order(v)[k]]
  BY <1>3
<1> HIDE DEF T
<1>5. QED BY <1>1, <1>2, <1>3, <1>4, CutIs

\* So does a report of them.
LEMMA ReportCut ==
    ASSUME Asked, answer # NoAnswer, tool # "turns",
           NEW v, DOMAIN v \subseteq Nat, IsFiniteSet(DOMAIN v), \A i \in DOMAIN v : v[i] \in Int,
           NEW s, \A i \in DOMAIN v : RankOf(tool, s[i]) = v[i],
           NEW rows, rows = [k \in DOMAIN Order(v) |-> s[Order(v)[k]]],
           NEW totals, \A n \in Int : Answer(tool, input, n) = Report(totals, rows, n)
    PROVE  CutFrom(Answer(tool, input, 0).rows)
<1> DEFINE l == ClampLimit(limit)
<1>1. answer = Answer(tool, input, l) /\ l \in 1 .. MaxLimit /\ l = ClampLimit(limit)
  BY LimitIs DEF Asked
<1> HIDE DEF l
<1>2. answer = Report(totals, rows, l) /\ Answer(tool, input, 0) = Report(totals, rows, 0)
  <2>1. l \in Int /\ 0 \in Int
    BY <1>1
  <2>2. QED BY <1>1, <2>1
<1>3. CutFrom(Report(totals, rows, 0).rows)
  BY <1>1, <1>2, RankedCut
<1>4. QED BY <1>2, <1>3

\* The sales of the products.
LEMMA ProfitCut ==
    ASSUME Asked, Answered("profit")
    PROVE  CutFrom(Answer(tool, input, 0).rows)
<1> DEFINE s == ProfitLines(input.rows)
           v == [i \in DOMAIN s |-> s[i].revenue]
           rows == Ranked(s, LAMBDA x : x.revenue)
           totals == [revenue |-> SumBy(rows, LAMBDA x : x.revenue), cost |-> SumBy(rows, LAMBDA x : x.cost),
                      qty |-> SumBy(rows, LAMBDA x : x.qty)]
<1>1. tool = "profit" /\ input \in Inputs["profit"] /\ answer # NoAnswer
  BY AnswerIs DEF Answered
<1>2. input.rows \in ProfitRows
  BY <1>1 DEF Inputs
<1>3. \A n : Answer(tool, input, n) = Report(totals, rows, n)
  BY <1>1 DEF Answer, ReportTool, ProfitReport
<1>4. DOMAIN v \subseteq Nat /\ IsFiniteSet(DOMAIN v) /\ \A i \in DOMAIN v : v[i] \in Int
  BY <1>2, ProfitLinesFacts
<1>5. \A i \in DOMAIN v : RankOf(tool, s[i]) = v[i]
  BY <1>1 DEF RankOf
<1>6. rows = [k \in DOMAIN Order(v) |-> s[Order(v)[k]]]
  BY DEF Ranked, RankedAt
<1> HIDE DEF s, v, rows, totals
<1>7. QED BY <1>1, <1>3, <1>4, <1>5, <1>6, ReportCut

\* The stock.
LEMMA StockCut ==
    ASSUME Asked, Answered("stock")
    PROVE  CutFrom(Answer(tool, input, 0).rows)
<1> DEFINE s == StockLines(input.rows)
           v == [i \in DOMAIN s |-> s[i].value]
           rows == Ranked(s, LAMBDA x : x.value)
           totals == [units |-> SumBy(rows, LAMBDA x : x.stock),
                      available |-> SumBy(rows, LAMBDA x : x.available),
                      value |-> SumBy(rows, LAMBDA x : x.value)]
<1>1. tool = "stock" /\ input \in Inputs["stock"] /\ answer # NoAnswer
  BY AnswerIs DEF Answered
<1>2. input.rows \in StockRows
  BY <1>1 DEF Inputs
<1>3. \A n : Answer(tool, input, n) = Report(totals, rows, n)
  BY <1>1 DEF Answer, ReportTool, StockReport
<1>4. DOMAIN v \subseteq Nat /\ IsFiniteSet(DOMAIN v) /\ \A i \in DOMAIN v : v[i] \in Int
  BY <1>2, StockLinesFacts
<1>5. \A i \in DOMAIN v : RankOf(tool, s[i]) = v[i]
  BY <1>1 DEF RankOf
<1>6. rows = [k \in DOMAIN Order(v) |-> s[Order(v)[k]]]
  BY DEF Ranked, RankedAt
<1> HIDE DEF s, v, rows, totals
<1>7. QED BY <1>1, <1>3, <1>4, <1>5, <1>6, ReportCut

\* The counterparties.
LEMMA CustomersCut ==
    ASSUME Asked, Answered("customers")
    PROVE  CutFrom(Answer(tool, input, 0).rows)
<1> DEFINE s == Metrics(input.rows)
           v == [i \in DOMAIN s |-> s[i].revenue]
           rows == Ranked(s, LAMBDA x : x.revenue)
           totals == [revenue |-> SumBy(rows, LAMBDA x : x.revenue),
                      profit |-> SumBy(rows, LAMBDA x : x.profit),
                      balance |-> SumBy(rows, LAMBDA x : x.balance)]
<1>1. tool = "customers" /\ input \in Inputs["customers"] /\ answer # NoAnswer
  BY AnswerIs DEF Answered
<1>2. input.rows \in Counterparties
  BY <1>1 DEF Inputs
<1>3. \A n : Answer(tool, input, n) = Report(totals, rows, n)
  BY <1>1 DEF Answer, ReportTool, CounterpartyReport
<1>4. DOMAIN v \subseteq Nat /\ IsFiniteSet(DOMAIN v) /\ \A i \in DOMAIN v : v[i] \in Int
  BY <1>2, MetricsFacts DEF Metrics
<1>5. \A i \in DOMAIN v : RankOf(tool, s[i]) = v[i]
  BY <1>1 DEF RankOf
<1>6. rows = [k \in DOMAIN Order(v) |-> s[Order(v)[k]]]
  BY DEF Ranked, RankedAt
<1> HIDE DEF s, v, rows, totals
<1>7. QED BY <1>1, <1>3, <1>4, <1>5, <1>6, ReportCut

\* The turnover.
LEMMA TurnoverCut ==
    ASSUME Asked, Answered("turnover")
    PROVE  CutFrom(Answer(tool, input, 0).rows)
<1> DEFINE Line(r) == [income |-> r.income, outcome |-> r.outcome, value |-> MoneyRound(r.value)]
           s == [i \in DOMAIN input.rows |-> Line(input.rows[i])]
           v == [i \in DOMAIN s |-> s[i].value]
           rows == Ranked(s, LAMBDA x : x.value)
           totals == [income |-> SumBy(rows, LAMBDA x : x.income),
                      outcome |-> SumBy(rows, LAMBDA x : x.outcome),
                      value |-> SumBy(rows, LAMBDA x : x.value)]
<1>1. tool = "turnover" /\ input \in Inputs["turnover"] /\ answer # NoAnswer
  BY AnswerIs DEF Answered
<1>2. input.rows \in TurnoverRows
  BY <1>1 DEF Inputs
<1>3. \A n : Answer(tool, input, n) = Report(totals, rows, n)
  BY <1>1 DEF Answer, ReportTool, TurnoverReport
<1>4. DOMAIN v \subseteq Nat /\ IsFiniteSet(DOMAIN v) /\ \A i \in DOMAIN v : v[i] \in Int
  <2> DEFINE Row == [income : Int, outcome : Int, value : Int]
             r == input.rows
  <2>1. r \in Seq(Row)
    BY <1>2, GoodsAssumption
  <2> HIDE DEF Row, r
  <2>2. Len(r) \in Nat /\ DOMAIN r = 1 .. Len(r) /\ \A i \in DOMAIN r : r[i] \in Row
    BY <2>1
  <2>3. IsFiniteSet(DOMAIN r)
    BY <2>2, FS_Interval
  <2>4. \A i \in DOMAIN r : MoneyRound(r[i].value) \in Int
    <3>1. \A i \in DOMAIN r : r[i].value \in Int
      BY <2>2 DEF Row
    <3>2. QED BY <3>1, MoneyRoundFacts
  <2>5. QED BY <2>2, <2>3, <2>4 DEF r
<1>5. \A i \in DOMAIN v : RankOf(tool, s[i]) = v[i]
  BY <1>1 DEF RankOf
<1>6. rows = [k \in DOMAIN Order(v) |-> s[Order(v)[k]]]
  BY DEF Ranked, RankedAt
<1> HIDE DEF s, v, rows, totals
<1>7. QED BY <1>1, <1>3, <1>4, <1>5, <1>6, ReportCut

\* The dead stock.
LEMMA DeadCut ==
    ASSUME Asked, Answered("dead")
    PROVE  CutFrom(Answer(tool, input, 0).rows)
<1> DEFINE age == MinAge(input.threshold)
           Dead(r) == /\ r.stock > 0 /\ r.days >= age
                      /\ ~ (r.href \in DOMAIN input.outcome /\ input.outcome[r.href] > 0)
           s == StockLines(input.rows)
           dead == Where(input.rows, Dead)
           v == [i \in dead |-> s[i].value]
           rows == RankedAt(dead, s, LAMBDA x : x.value)
           totals == [count |-> Len(rows), value |-> SumBy(rows, LAMBDA x : x.value)]
<1>1. tool = "dead" /\ input \in Inputs["dead"] /\ answer # NoAnswer
  BY AnswerIs DEF Answered
<1>2. input.rows \in StockRows
  BY <1>1 DEF Inputs
<1>3. \A n : Answer(tool, input, n) = Report(totals, rows, n)
  BY <1>1 DEF Answer, AnalyticsTool, DeadStockReport
<1>4. DOMAIN v \subseteq Nat /\ IsFiniteSet(DOMAIN v) /\ \A i \in DOMAIN v : v[i] \in Int
  <2>1. /\ DOMAIN s \subseteq Nat /\ IsFiniteSet(DOMAIN s) /\ DOMAIN s = DOMAIN input.rows
        /\ \A i \in DOMAIN s : s[i].value \in Int
    BY <1>2, StockLinesFacts DEF StockLines
  <2>2. dead \subseteq DOMAIN s
    BY <2>1 DEF Where
  <2> HIDE DEF s, dead
  <2>3. QED BY <2>1, <2>2, FS_Subset
<1>5. \A i \in DOMAIN v : RankOf(tool, s[i]) = v[i]
  BY <1>1 DEF RankOf
<1>6. rows = [k \in DOMAIN Order(v) |-> s[Order(v)[k]]]
  BY DEF RankedAt
<1> HIDE DEF s, v, rows, totals, dead
<1>7. QED BY <1>1, <1>3, <1>4, <1>5, <1>6, ReportCut

\* The segments.
LEMMA SegmentsCut ==
    ASSUME Asked, Answered("segments")
    PROVE  CutFrom(Answer(tool, input, 0).rows)
<1> DEFINE threshold == VipThreshold(input.rows, OrDefault(input.params.vip, 20))
           Segment(m) == [revenue |-> m.revenue, days |-> DaysSince(m, Now),
                          labels |-> Segments(m, threshold, Now, input.params)]
           s == [i \in DOMAIN input.rows |-> Segment(Metric(input.rows[i]))]
           v == [i \in DOMAIN s |-> s[i].revenue]
           rows == Ranked(s, LAMBDA x : x.revenue)
           labels == {"vip", "sleeping", "at_risk", "low_check", "debtor", "negative_margin"}
           totals == [k \in labels |-> CountBy(s, LAMBDA x : k \in x.labels)]
<1>1. tool = "segments" /\ input \in Inputs["segments"] /\ answer # NoAnswer
  BY AnswerIs DEF Answered
<1>2. input.rows \in Counterparties
  BY <1>1 DEF Inputs
<1>3. \A n : Answer(tool, input, n) = Report(totals, rows, n)
  BY <1>1 DEF Answer, AnalyticsTool, SegmentReport
<1>4. DOMAIN v \subseteq Nat /\ IsFiniteSet(DOMAIN v) /\ \A i \in DOMAIN v : v[i] \in Int
  BY <1>2, MetricsFacts
<1>5. \A i \in DOMAIN v : RankOf(tool, s[i]) = v[i]
  BY <1>1 DEF RankOf
<1>6. rows = [k \in DOMAIN Order(v) |-> s[Order(v)[k]]]
  BY DEF Ranked, RankedAt
<1> HIDE DEF s, v, rows, totals
<1>7. QED BY <1>1, <1>3, <1>4, <1>5, <1>6, ReportCut

\* What is owed of an invoice and since when.
InvoiceItem(d) == [outstanding |-> MoneyRound(d.sum - d.paid), days |-> OverdueDays(d, Now)]

\* What is owed of the invoices: whole numbers.
LEMMA InvoicesFacts ==
    ASSUME NEW rows \in Invoices
    PROVE  /\ Len(rows) \in Nat /\ DOMAIN rows = 1 .. Len(rows) /\ IsFiniteSet(DOMAIN rows)
           /\ \A i \in DOMAIN rows : /\ InvoiceItem(rows[i]).outstanding \in Int
                                     /\ InvoiceItem(rows[i]).days \in Int
<1> DEFINE Row == [sum : Int, paid : Int, due : {"day", "none"}, at : Int]
<1>1. rows \in Seq(Row)
  BY DocumentsAssumption
<1> HIDE DEF Row
<1>2. Len(rows) \in Nat /\ DOMAIN rows = 1 .. Len(rows) /\ \A i \in DOMAIN rows : rows[i] \in Row
  BY <1>1
<1>3. IsFiniteSet(DOMAIN rows)
  BY <1>2, FS_Interval
<1>4. ASSUME NEW d \in Row PROVE MoneyRound(d.sum - d.paid) \in Int /\ OverdueDays(d, Now) \in Int
  <2>1. d.sum - d.paid \in Int /\ d.at \in Int
    BY DEF Row
  <2>2. Now - d.at \in Int /\ d.at - Now \in Int /\ Day \in Nat \ {0}
    BY <2>1, DayAssumption, SalesAssumption
  <2>3. DaysBetween(Now, d.at, Day) \in Int
    BY <2>2, Division DEF DaysBetween
  <2>4. MoneyRound(d.sum - d.paid) \in Int
    BY <2>1, MoneyRoundFacts
  <2>5. QED BY <2>3, <2>4 DEF OverdueDays
<1>5. QED BY <1>2, <1>3, <1>4 DEF InvoiceItem

\* The overdue invoices.
LEMMA AgingCut ==
    ASSUME Asked, Answered("aging")
    PROVE  CutFrom(Answer(tool, input, 0).rows)
<1> DEFINE s == [i \in DOMAIN input.rows |-> InvoiceItem(input.rows[i])]
           owed == Where(s, LAMBDA x : x.outstanding > 0)
           v == [i \in owed |-> s[i].days]
           rows == RankedAt(owed, s, LAMBDA x : x.days)
           In(b) == {i \in owed : BucketIndex(s[i].days) = b}
           totals == [outstanding |-> SumAt(owed, s, LAMBDA x : x.outstanding),
                      overdue |-> SumAt(owed, s, LAMBDA x : IF x.days > 0 THEN x.outstanding ELSE 0),
                      buckets |-> [b \in 0 .. 4 |->
                                     [count |-> Cardinality(In(b)),
                                      amount |-> SumAt(In(b), s, LAMBDA x : x.outstanding)]]]
<1>1. tool = "aging" /\ input \in Inputs["aging"] /\ answer # NoAnswer
  BY AnswerIs DEF Answered
<1>2. input.rows \in Invoices
  BY <1>1 DEF Inputs
<1>3. \A n : Answer(tool, input, n) = Report(totals, rows, n)
  BY <1>1 DEF Answer, AnalyticsTool, Aging, InvoiceItem
<1>4. DOMAIN v \subseteq Nat /\ IsFiniteSet(DOMAIN v) /\ \A i \in DOMAIN v : v[i] \in Int
  <2>1. DOMAIN s \subseteq Nat /\ IsFiniteSet(DOMAIN s) /\ \A i \in DOMAIN s : s[i].days \in Int
    BY <1>2, InvoicesFacts
  <2>2. owed \subseteq DOMAIN s
    BY DEF Where
  <2> HIDE DEF s, owed
  <2>3. QED BY <2>1, <2>2, FS_Subset
<1>5. \A i \in DOMAIN v : RankOf(tool, s[i]) = v[i]
  BY <1>1 DEF RankOf
<1>6. rows = [k \in DOMAIN Order(v) |-> s[Order(v)[k]]]
  BY DEF RankedAt
<1> HIDE DEF s, v, rows, totals, owed
<1>7. QED BY <1>1, <1>3, <1>4, <1>5, <1>6, ReportCut

-----------------------------------------------------------------------------
(* ABC.                                                                    *)

\* The values an ABC ranks by.
Values(pairs) == [i \in DOMAIN pairs |-> pairs[i].value]

\* Values of pairs are whole numbers.
LEMMA ValuesFacts ==
    ASSUME NEW pairs \in ValuePairs \cup MatrixPairs
    PROVE  /\ Len(pairs) \in Nat /\ DOMAIN pairs = 1 .. Len(pairs)
           /\ DOMAIN Values(pairs) = 1 .. Len(pairs) /\ IsFiniteSet(DOMAIN Values(pairs))
           /\ Cardinality(DOMAIN Values(pairs)) = Len(pairs)
           /\ \A i \in DOMAIN Values(pairs) : Values(pairs)[i] \in Int
<1> DEFINE Row == [name : ProductIds, value : Int]
<1>1. pairs \in Seq(Row)
  BY SalesAssumption
<1> HIDE DEF Row
<1>2. Len(pairs) \in Nat /\ DOMAIN pairs = 1 .. Len(pairs) /\ \A i \in DOMAIN pairs : pairs[i] \in Row
  BY <1>1
<1>3. IsFiniteSet(1 .. Len(pairs)) /\ Cardinality(1 .. Len(pairs)) = Len(pairs)
  <2> DEFINE n == Len(pairs)
  <2>1. n \in Int /\ 1 \in Int /\ n >= 1 - 1
    BY <1>2
  <2> HIDE DEF n
  <2>2. IsFiniteSet(1 .. n) /\ Cardinality(1 .. n) = n
    BY <2>1, FS_Interval
  <2>3. QED BY <2>2 DEF n
<1>4. \A i \in DOMAIN pairs : pairs[i].value \in Int
  BY <1>2 DEF Row
<1>5. QED BY <1>2, <1>3, <1>4 DEF Values

\* Pairs ranked by their values.
LEMMA ValuesRanked ==
    ASSUME NEW pairs, DOMAIN Values(pairs) \subseteq Nat, IsFiniteSet(DOMAIN Values(pairs)),
           \A i \in DOMAIN Values(pairs) : Values(pairs)[i] \in Int
    PROVE  LET s == Ranked(pairs, LAMBDA x : x.value)
               o == Order(Values(pairs))
           IN  /\ s = [k \in DOMAIN s |-> s[k]]
               /\ DOMAIN s = 1 .. Cardinality(DOMAIN Values(pairs))
               /\ \A k \in DOMAIN s : o[k] \in DOMAIN Values(pairs) /\ s[k] = pairs[o[k]]
<1> DEFINE v == Values(pairs)
           s == Ranked(pairs, LAMBDA x : x.value)
           T == {pairs[i] : i \in DOMAIN v}
<1>1. DOMAIN v \subseteq Nat /\ IsFiniteSet(DOMAIN v) /\ \A i \in DOMAIN v : v[i] \in Int
  OBVIOUS
<1>2. s = [k \in DOMAIN Order(v) |-> pairs[Order(v)[k]]]
  BY DEF Ranked, RankedAt, Values
<1> HIDE DEF v, s
<1>3. /\ s \in Seq(T) /\ Len(s) = Cardinality(DOMAIN v)
      /\ \A k \in 1 .. Len(s) : Order(v)[k] \in DOMAIN v /\ s[k] = pairs[Order(v)[k]]
  <2>1. s \in Seq(T)
    BY SMTT(60), <1>1, <1>2, RankedIs
  <2>2. Len(s) = Cardinality(DOMAIN v)
    BY <1>1, <1>2, RankedIs
  <2>3. ASSUME NEW k \in 1 .. Len(s)
        PROVE  Order(v)[k] \in DOMAIN v /\ s[k] = pairs[Order(v)[k]]
    <3>1. Order(v)[k] \in DOMAIN v
      BY <1>1, <1>2, RankedIs
    <3>2. s[k] = pairs[Order(v)[k]]
      BY <1>1, <1>2, RankedIs
    <3>3. QED BY <3>1, <3>2
  <2>4. QED BY <2>1, <2>2, <2>3
<1> HIDE DEF T
<1>4. DOMAIN s = 1 .. Len(s)
  BY <1>3
<1>5. s = [k \in DOMAIN s |-> s[k]]
  BY <1>3
<1>6. QED BY <1>3, <1>4, <1>5 DEF v, s

\* The rows of an ABC are the pairs, ranked by value.
LEMMA AbcIs ==
    ASSUME NEW pairs \in ValuePairs \cup MatrixPairs
    PROVE  LET a == Abc(pairs)
               o == Order(Values(pairs))
           IN  /\ Len(pairs) \in Nat /\ DOMAIN a = 1 .. Len(pairs)
               /\ a \in Seq({a[k] : k \in 1 .. Len(pairs)}) /\ Len(a) = Len(pairs)
               /\ \A k \in 1 .. Len(pairs) :
                    /\ o[k] \in 1 .. Len(pairs)
                    /\ a[k].name = pairs[o[k]].name
                    /\ a[k].value = Values(pairs)[o[k]] /\ a[k].value \in Int
<1> DEFINE v == Values(pairs)
           o == Order(v)
           n == Len(pairs)
           s == Ranked(pairs, LAMBDA x : x.value)
           a == Abc(pairs)
<1>1. /\ n \in Nat /\ DOMAIN pairs = 1 .. n /\ DOMAIN v = 1 .. n /\ IsFiniteSet(DOMAIN v)
      /\ Cardinality(DOMAIN v) = n /\ \A i \in DOMAIN v : v[i] \in Int
  BY ValuesFacts
<1>3. \A i \in 1 .. n : v[i] = pairs[i].value
  BY <1>1 DEF Values
<1>9. \A k \in DOMAIN s : a[k].name = s[k].name /\ a[k].value = s[k].value
  BY DEF Abc
<1>10. DOMAIN a = DOMAIN s /\ a = [k \in DOMAIN s |-> a[k]]
  BY DEF Abc
<1> HIDE DEF v, o, n, s, a
<1>4. DOMAIN s = 1 .. n /\ \A k \in 1 .. n : o[k] \in 1 .. n /\ s[k] = pairs[o[k]]
  <2>1. DOMAIN v \subseteq Nat
    BY <1>1
  <2>2. /\ DOMAIN s = 1 .. Cardinality(DOMAIN v)
        /\ \A k \in DOMAIN s : o[k] \in DOMAIN v /\ s[k] = pairs[o[k]]
    BY <1>1, <2>1, ValuesRanked DEF v, s, o
  <2>3. QED BY <1>1, <2>2
<1>5. DOMAIN s = 1 .. n
  BY <1>4
<1>6. a \in Seq({a[k] : k \in 1 .. n}) /\ Len(a) = n /\ DOMAIN a = 1 .. n
  <2>1. a = [k \in 1 .. n |-> a[k]]
    BY <1>5, <1>10
  <2>2. QED BY <1>1, <2>1, Listed
<1>7. ASSUME NEW k \in 1 .. n
      PROVE  /\ o[k] \in 1 .. n /\ a[k].name = pairs[o[k]].name /\ a[k].value = v[o[k]]
             /\ a[k].value \in Int
  <2>1. o[k] \in 1 .. n /\ s[k] = pairs[o[k]] /\ v[o[k]] = pairs[o[k]].value /\ v[o[k]] \in Int
    BY <1>1, <1>3, <1>4
  <2>2. a[k].name = s[k].name /\ a[k].value = s[k].value
    BY <1>5, <1>9
  <2>3. QED BY <2>1, <2>2
<1>8. QED BY <1>1, <1>6, <1>7 DEF v, o, n, a

\* The ABC.
LEMMA AbcCut ==
    ASSUME Asked, Answered("abc")
    PROVE  CutFrom(Answer(tool, input, 0).rows)
<1> DEFINE pairs == input.rows
           v == Values(pairs)
           rows == Abc(pairs)
           l == ClampLimit(limit)
           T == {rows[k] : k \in 1 .. Len(pairs)}
           Of(c) == CountBy(rows, LAMBDA x : x.class = c)
           totals == [count |-> Len(rows), a |-> Of("A"), b |-> Of("B"), c |-> Of("C"),
                      value |-> SumBy(rows, LAMBDA x : Positive(x.value))]
<1>1. tool = "abc" /\ input \in Inputs["abc"] /\ answer = Answer("abc", input, l)
  BY AnswerIs
<1>2. pairs \in ValuePairs \cup MatrixPairs
  BY <1>1 DEF Inputs
<1>3. \A n : Answer(tool, input, n) = Report(totals, rows, n)
  BY <1>1 DEF Answer, AnalyticsTool, AbcReport
<1>4. l \in 1 .. MaxLimit /\ l = ClampLimit(limit)
  BY LimitIs DEF Asked
<1>5. answer = Report(totals, rows, l) /\ Answer(tool, input, 0) = Report(totals, rows, 0)
  BY <1>1, <1>3
<1>6. /\ DOMAIN v \subseteq Nat /\ IsFiniteSet(DOMAIN v) /\ \A i \in DOMAIN v : v[i] \in Int
      /\ Cardinality(DOMAIN v) = Len(pairs)
  BY <1>2, ValuesFacts
<1>7. /\ rows \in Seq(T) /\ Len(rows) = Len(pairs)
      /\ \A k \in 1 .. Len(pairs) : rows[k].value = v[Order(v)[k]]
  BY <1>2, AbcIs
<1>8. \A k \in 1 .. Len(rows) : RankOf(tool, rows[k]) = v[Order(v)[k]]
  BY <1>1, <1>7 DEF RankOf
<1> HIDE DEF v, rows, totals, l, T
<1>9. CutFrom(Report(totals, rows, 0).rows)
  BY <1>4, <1>5, <1>6, <1>7, <1>8, CutIs
<1>10. QED BY <1>5, <1>9

\* The matrix of ABC and XYZ.
LEMMA MatrixCut ==
    ASSUME Asked, Answered("matrix")
    PROVE  CutFrom(Answer(tool, input, 0).rows)
<1> DEFINE stats == DemandStats(input.demand)
           s == Abc(input.rows)
           both == Where(s, LAMBDA x : x.name \in Classified(stats, AtLeastOne(input.minDays)))
           Cell(x) == <<x.class, XyzClass(stats[x.name], NormThresholds(XCut, YCut))>>
           In(c) == {i \in both : Cell(s[i]) = c}
           v == [i \in both |-> s[i].value]
           rows == RankedAt(both, s, LAMBDA x : x.value)
           totals == [classified |-> Cardinality(both), abcOnly |-> Len(input.rows) - Cardinality(both),
                      cells |-> [c \in {Cell(s[i]) : i \in both} |->
                                   [count |-> Cardinality(In(c)),
                                    revenue |-> SumAt(In(c), s, LAMBDA x : x.value)]]]
<1>1. tool = "matrix" /\ input \in Inputs["matrix"] /\ answer # NoAnswer
  BY AnswerIs DEF Answered
<1>2. input.rows \in ValuePairs \cup MatrixPairs
  BY <1>1 DEF Inputs
<1>3. \A n : Answer(tool, input, n) = Report(totals, rows, n)
  BY <1>1 DEF Answer, HistoryTool, Matrix
<1>4. DOMAIN v \subseteq Nat /\ IsFiniteSet(DOMAIN v) /\ \A i \in DOMAIN v : v[i] \in Int
  <2>1. /\ Len(input.rows) \in Nat /\ DOMAIN s = 1 .. Len(input.rows)
        /\ \A k \in 1 .. Len(input.rows) : s[k].value \in Int
    BY <1>2, AbcIs
  <2> DEFINE n == Len(input.rows)
  <2>2. IsFiniteSet(DOMAIN s)
    <3>1. n \in Nat /\ 1 \in Int /\ n \in Int /\ DOMAIN s = 1 .. n
      BY <2>1
    <3> HIDE DEF n, s
    <3>2. QED BY <3>1, FS_Interval
  <2>3. both \subseteq DOMAIN s
    BY DEF Where
  <2> HIDE DEF s, both
  <2>4. QED BY <2>1, <2>2, <2>3, FS_Subset
<1>5. \A i \in DOMAIN v : RankOf(tool, s[i]) = v[i]
  BY <1>1 DEF RankOf
<1>6. rows = [k \in DOMAIN Order(v) |-> s[Order(v)[k]]]
  BY DEF RankedAt
<1> HIDE DEF s, v, rows, totals, both
<1>7. QED BY <1>1, <1>3, <1>4, <1>5, <1>6, ReportCut

-----------------------------------------------------------------------------
(* The demand history.                                                     *)

\* A finite set of whole numbers has a least and a greatest one.
LEMMA Extremes ==
    ASSUME NEW S, IsFiniteSet(S), S \subseteq Int, S # {}
    PROVE  (\E m \in S : \A x \in S : m <= x) /\ (\E m \in S : \A x \in S : m >= x)
<1> DEFINE Least_(B) == \E m \in B : \A x \in B : m <= x
           Greatest(B) == \E m \in B : \A x \in B : m >= x
           K == {B \in SUBSET S : B # {} => Least_(B) /\ Greatest(B)}
<1>1. ASSUME NEW B \in SUBSET S, \A y \in B : B \ {y} \in K PROVE B \in K
  <2>1. CASE B = {}
    BY <2>1
  <2>2. CASE B # {}
    <3>1. PICK y \in B : TRUE
      BY <2>2
    <3>2. CASE B = {y}
      BY <3>2
    <3>3. CASE B # {y}
      <4>1. Least_(B \ {y}) /\ Greatest(B \ {y})
        BY <1>1, <3>1, <3>3
      <4>2. PICK m \in B \ {y} : \A x \in B \ {y} : m <= x
        BY <4>1
      <4>3. PICK g \in B \ {y} : \A x \in B \ {y} : g >= x
        BY <4>1
      <4>4. Least_(B)
        <5>1. CASE m <= y
          BY <4>2, <5>1
        <5>2. CASE ~ (m <= y)
          BY <3>1, <4>2, <5>2
        <5>3. QED BY <5>1, <5>2
      <4>5. Greatest(B)
        <5>1. CASE g >= y
          BY <4>3, <5>1
        <5>2. CASE ~ (g >= y)
          BY <3>1, <4>3, <5>2
        <5>3. QED BY <5>1, <5>2
      <4>6. QED BY <4>4, <4>5
    <3>4. QED BY <3>2, <3>3
  <2>3. QED BY <2>1, <2>2
<1> HIDE DEF K
<1>2. S \in K
  BY <1>1, Subsets
<1>3. QED BY <1>2 DEF K

\* Min and Max are these.
LEMMA MinMaxFacts ==
    ASSUME NEW S, IsFiniteSet(S), S \subseteq Int, S # {}
    PROVE  Min(S) \in S /\ Max(S) \in S /\ \A x \in S : Min(S) <= x /\ x <= Max(S)
BY Extremes DEF Min, Max

\* The days of a demand history.
Days(rows) == {r.day : r \in rows}

\* They are finitely many whole numbers.
LEMMA DaysFacts ==
    ASSUME NEW history \in DemandRows, NEW rows \in SUBSET history
    PROVE  /\ IsFiniteSet(rows) /\ IsFiniteSet(Days(rows)) /\ Days(rows) \subseteq Int
           /\ \A r \in rows : r.day \in Int /\ r.href \in ProductIds /\ r.qty \in Int
<1>1. IsFiniteSet(rows) /\ rows \subseteq [day : Int, href : ProductIds, qty : Int]
  BY DemandAssumption, FS_Subset
<1> DEFINE b == [r \in rows |-> r.day]
<1>2. IsFiniteSet({b[r] : r \in rows})
  <2> HIDE DEF b
  <2>1. QED BY <1>1, FiniteImage
<1>3. {b[r] : r \in rows} = Days(rows)
  BY DEF Days
<1>4. QED BY <1>1, <1>2, <1>3 DEF Days

\* What is known of a product's demand is of its days.
LEMMA StatsFacts ==
    ASSUME NEW history \in DemandRows, NEW rows \in SUBSET history, NEW p \in DOMAIN DemandStats(rows)
    PROVE  DemandStats(rows)[p].days = Cardinality(Spine(rows, p)) /\ DemandStats(rows)[p].days \in Nat
           /\ DemandStats(rows)[p].total \in Int /\ IsFiniteSet(Spine(rows, p))
<1> DEFINE own == {r \in rows : r.href = p}
           f == [r \in own |-> r.qty]
           s == DemandStats(rows)[p]
<1>1. s.days = Cardinality(Spine(rows, p)) /\ s.total = SumOver(own, LAMBDA r : r.qty)
  BY DEF DemandStats
<1>2. SumOver(own, LAMBDA r : r.qty) = SumFunctionOnSet(f, own)
  BY DEF SumOver, SumFunction
<1>3. IsFiniteSet(own) /\ \A r \in own : f[r] \in Int
  BY DaysFacts, FS_Subset
<1>4. IsFiniteSet(Spine(rows, p))
  BY DaysFacts, FS_Subset DEF Spine, Days
<1> HIDE DEF f, own, s
<1>5. s.total \in Int
  BY <1>1, <1>2, <1>3, SumType
<1>6. s.days \in Nat
  BY <1>1, <1>4, FS_CardinalityType
<1>7. QED BY <1>1, <1>4, <1>5, <1>6 DEF s

\* A product has enough days of history if it was demanded on a day from which on
\* there are enough.
LEMMA ClassifiedIs ==
    ASSUME NEW rows \in DemandRows, NEW p
    PROVE  p \in Classified(DemandStats(rows), MinDays) <=>
             \E r \in rows : /\ r.href = p
                             /\ Cardinality({q.day : q \in {s \in rows : s.day >= r.day}}) >= MinDays
<1> DEFINE own == {r \in rows : r.href = p}
           From(r) == {q.day : q \in {s \in rows : s.day >= r.day}}
           Enough == \E r \in rows : r.href = p /\ Cardinality(From(r)) >= MinDays
<1>1. DOMAIN DemandStats(rows) = {r.href : r \in rows}
  BY DEF DemandStats
<1>2. \A r \in own : From(r) \subseteq Spine(rows, p) /\ p \in DOMAIN DemandStats(rows)
  BY <1>1 DEF Spine
<1>3. MinDays \in Nat
  BY HistoryAssumption
<1>4. ASSUME Enough PROVE p \in Classified(DemandStats(rows), MinDays)
  <2>1. PICK r \in own : Cardinality(From(r)) >= MinDays
    BY <1>4
  <2>2. IsFiniteSet(Spine(rows, p)) /\ DemandStats(rows)[p].days = Cardinality(Spine(rows, p))
    BY <1>2, StatsFacts
  <2>3. /\ Cardinality(From(r)) \in Nat /\ Cardinality(Spine(rows, p)) \in Nat
        /\ Cardinality(From(r)) <= Cardinality(Spine(rows, p))
    <3> HIDE DEF From
    <3>1. QED BY <1>2, <2>2, FS_Subset, FS_CardinalityType
  <2>4. Cardinality(Spine(rows, p)) >= MinDays
    <3> HIDE DEF From
    <3>1. QED BY <1>3, <2>1, <2>3
  <2>5. QED BY <1>2, <2>1, <2>2, <2>4 DEF Classified
<1>5. ASSUME p \in Classified(DemandStats(rows), MinDays) PROVE Enough
  <2>1. p \in DOMAIN DemandStats(rows) /\ Cardinality(Spine(rows, p)) >= MinDays
    BY <1>5, StatsFacts DEF Classified
  <2> DEFINE days == Days(own)
  <2>2. days # {} /\ days \subseteq Days(rows)
    BY <1>1, <2>1 DEF Days
  <2>3. PICK m \in days : \A d \in days : m <= d
    <3>1. IsFiniteSet(days) /\ days \subseteq Int
      BY <2>2, DaysFacts, FS_Subset
    <3> HIDE DEF days
    <3>2. QED BY <2>2, <3>1, Extremes
  <2>4. PICK r \in own : r.day = m
    BY <2>3 DEF Days
  <2>5. Spine(rows, p) = From(r)
    <3>1. \A d \in Spine(rows, p) : d \in From(r)
      <4> SUFFICES ASSUME NEW d \in Spine(rows, p) PROVE d \in From(r)
        OBVIOUS
      <4>1. PICK q \in rows : q.day = d
        BY DEF Spine
      <4>2. PICK o \in own : o.day <= d
        BY DEF Spine
      <4>3. r.day <= o.day
        BY <2>3, <2>4, <4>2 DEF Days
      <4>4. q.day >= r.day
        BY <4>1, <4>2, <4>3, <2>4, DaysFacts
      <4>5. QED BY <4>1, <4>4
    <3>2. QED BY <1>2, <3>1
  <2>6. QED BY <2>1, <2>4, <2>5
<1>6. QED BY <1>4, <1>5

\* A finite set as a sequence: each of its elements, once.
LEMMA SetToSeqIs ==
    ASSUME NEW S, IsFiniteSet(S)
    PROVE  LET q == SetToSeq(S)
           IN  /\ Cardinality(S) \in Nat /\ q \in [1 .. Cardinality(S) -> S]
               /\ \A i, j \in 1 .. Cardinality(S) : q[i] = q[j] => i = j
               /\ \A x \in S : \E i \in 1 .. Cardinality(S) : q[i] = x
<1> DEFINE n == Cardinality(S)
           F == [1 .. n -> S]
           q == SetToSeq(S)
<1>1. n \in Nat
  BY FS_CardinalityType
<1>2. ExistsBijection(1 .. n, S)
  BY FS_CardinalityType
<1>3. PICK f \in F : IsInjective(f)
  <2>1. PICK f \in Bijection(1 .. n, S) : TRUE
    BY <1>2 DEF ExistsBijection
  <2>2. f \in F /\ \A a, b \in 1 .. n : f[a] = f[b] => a = b
    BY <2>1 DEF Bijection, Injection, IsInjective
  <2>3. QED BY <2>2 DEF IsInjective
<1>4. q \in F /\ IsInjective(q)
  BY <1>3 DEF SetToSeq
<1>5. \A i, j \in 1 .. n : q[i] = q[j] => i = j
  BY <1>4 DEF IsInjective
<1>6. \A x \in S : \E i \in 1 .. n : q[i] = x
  <2> DEFINE R == {q[i] : i \in 1 .. n}
  <2> HIDE DEF q
  <2>1. R \subseteq S
    BY <1>4
  <2>2. IsFiniteSet(1 .. n) /\ Cardinality(1 .. n) = n
    <3>1. 1 \in Int /\ n \in Int /\ n \in Nat
      BY <1>1
    <3> HIDE DEF n
    <3>2. QED BY <3>1, FS_Interval
  <2>3. Cardinality(R) = n
    <3>1. q \in Injection(1 .. n, R)
      BY <1>4, <1>5 DEF Injection, IsInjective
    <3>2. q \in Surjection(1 .. n, R)
      BY <1>4 DEF Surjection
    <3>3. q \in Bijection(1 .. n, R)
      BY <3>1, <3>2 DEF Bijection
    <3>4. ExistsBijection(1 .. n, R)
      BY <3>3 DEF ExistsBijection
    <3> HIDE DEF n, R
    <3>5. QED BY <1>1, <3>4, FS_CountingElements
  <2>4. R = S
    <3> HIDE DEF R
    <3>1. QED BY <2>1, <2>3, FS_Subset
  <2>5. QED BY <2>4
<1>7. QED BY <1>1, <1>4, <1>5, <1>6

\* The products classed by how steady their demand is.
LEMMA XyzCut ==
    ASSUME Asked, Answered("xyz")
    PROVE  CutFrom(Answer(tool, input, 0).rows)
<1> DEFINE p == [input.params EXCEPT !.minDays = AtLeastOne(@)]
           history == Since(input.demand, input.params.since)
           stats == DemandStats(history)
           E == Classified(stats, p.minDays)
           enough == SetToSeq(E)
           Item(k) == [id |-> k, mean |-> Mean(stats[k]), class |-> XyzClass(stats[k], NormThresholds(p.x, p.y))]
           s == [i \in DOMAIN enough |-> Item(enough[i])]
           v == [i \in DOMAIN s |-> s[i].mean]
           rows == Ranked(s, LAMBDA x : x.mean)
           Of(c) == CountBy(rows, LAMBDA x : x.class = c)
           totals == [count |-> Len(rows), x |-> Of("X"), y |-> Of("Y"), z |-> Of("Z"),
                      unclassified |-> Cardinality(DOMAIN stats) - Len(rows),
                      coverage |-> Coverage(input.captured)]
<1>1. tool = "xyz" /\ input \in Inputs["xyz"] /\ answer # NoAnswer
  BY AnswerIs DEF Answered
<1>2. /\ input.demand \in DemandRows /\ history \in SUBSET input.demand
      /\ p.minDays \in Nat \ {0}
  <2>1. input.demand \in DemandRows /\ input.params \in XyzParams
    BY <1>1 DEF Inputs
  <2>2. input.params.minDays \in Int /\ p.minDays = AtLeastOne(input.params.minDays)
    BY <2>1, DemandAssumption
  <2>3. p.minDays \in Nat \ {0}
    <3> HIDE DEF p
    <3>1. QED BY <2>2 DEF AtLeastOne
  <2>4. QED BY <2>1, <2>3 DEF Since
<1>3. \A n : Answer(tool, input, n) = Report(totals, rows, n)
  BY <1>1 DEF Answer, HistoryTool, Xyz
<1>4. DOMAIN v \subseteq Nat /\ IsFiniteSet(DOMAIN v) /\ \A i \in DOMAIN v : v[i] \in Int
  <2>1. IsFiniteSet(E) /\ E \subseteq DOMAIN stats
    <3> DEFINE b == [r \in history |-> r.href]
    <3>1. IsFiniteSet(history)
      BY <1>2, DaysFacts
    <3>2. IsFiniteSet({b[r] : r \in history})
      <4> HIDE DEF b, history
      <4>1. QED BY <3>1, FiniteImage
    <3>3. DOMAIN stats = {b[r] : r \in history}
      BY DEF DemandStats
    <3>4. E \subseteq DOMAIN stats
      BY DEF Classified
    <3> HIDE DEF E, b, stats
    <3>5. QED BY <3>2, <3>3, <3>4, FS_Subset
  <2>2. \A k \in E : Mean(stats[k]) \in Int
    <3> SUFFICES ASSUME NEW k \in E PROVE Mean(stats[k]) \in Int
      OBVIOUS
    <3>1. stats[k].total \in Int /\ stats[k].days \in Nat
      <4> HIDE DEF E, history
      <4>1. QED BY <1>2, <2>1, StatsFacts
    <3>2. stats[k].days >= p.minDays
      BY DEF Classified
    <3> HIDE DEF stats, p, E
    <3>3. 100 * stats[k].total \in Int /\ stats[k].days * Piece \in Nat \ {0}
      BY <1>2, <3>1, <3>2, UnitsAssumption
    <3>4. QED BY <3>3, RoundedFacts DEF Mean
  <2> HIDE DEF E, stats, p
  <2>3. Cardinality(E) \in Nat /\ enough \in [1 .. Cardinality(E) -> E]
    BY <2>1, SetToSeqIs
  <2> HIDE DEF enough
  <2>4. DOMAIN enough = 1 .. Cardinality(E) /\ \A i \in DOMAIN enough : enough[i] \in E
    BY <2>3
  <2>5. DOMAIN v = 1 .. Cardinality(E) /\ \A i \in DOMAIN v : v[i] = Mean(stats[enough[i]])
    BY <2>4
  <2>6. IsFiniteSet(1 .. Cardinality(E))
    BY <2>3, FS_Interval
  <2> HIDE DEF v
  <2>7. QED BY <2>2, <2>3, <2>4, <2>5, <2>6
<1>5. \A i \in DOMAIN v : RankOf(tool, s[i]) = v[i]
  BY <1>1 DEF RankOf
<1>6. rows = [k \in DOMAIN Order(v) |-> s[Order(v)[k]]]
  BY DEF Ranked, RankedAt
<1> HIDE DEF s, v, rows, totals
<1>7. QED BY <1>1, <1>3, <1>4, <1>5, <1>6, ReportCut

\* What the plan knows of a product's demand.
LEMMA SourceFacts ==
    ASSUME NEW rows \in DemandRows, NEW recent \in RecentLines, NEW p
    PROVE  LET d == SourceOf(p, DemandStats(rows), recent)
           IN  /\ d.total \in Int /\ d.days \in Nat \ {0}
               /\ d.source = "history" <=> p \in Classified(DemandStats(rows), MinDays)
               /\ d.source = "none" => ~ \E k \in DOMAIN recent : recent[k].id = p /\ recent[k].qty > 0
<1> DEFINE stats == DemandStats(rows)
           sold == Where(recent, LAMBDA x : x.id = p /\ x.qty > 0)
           d == SourceOf(p, stats, recent)
<1>1. d = IF p \in Classified(stats, MinDays)
          THEN [source |-> "history", total |-> stats[p].total, days |-> stats[p].days]
          ELSE IF sold # {}
          THEN [source |-> "estimate", total |-> recent[Min(sold)].qty, days |-> FallbackDays]
          ELSE NoDemand
  BY DEF SourceOf
<1>2. sold = {k \in DOMAIN recent : recent[k].id = p /\ recent[k].qty > 0}
  BY DEF Where
<1>3. CASE p \in Classified(stats, MinDays)
  <2>1. stats[p].total \in Int /\ stats[p].days \in Nat \ {0}
    BY <1>3, StatsFacts, HistoryAssumption DEF Classified
  <2> HIDE DEF stats, sold, d
  <2>2. d = [source |-> "history", total |-> stats[p].total, days |-> stats[p].days]
    BY <1>1, <1>3
  <2>3. d.source = "history" /\ d.total \in Int /\ d.days \in Nat \ {0}
    BY <2>1, <2>2
  <2>4. QED BY <1>3, <2>3 DEF d, stats
<1>4. CASE p \notin Classified(stats, MinDays) /\ sold # {}
  <2> DEFINE Row == [id : ProductIds, qty : Int]
  <2>1. recent \in Seq(Row)
    BY DemandAssumption
  <2> HIDE DEF Row
  <2>2. DOMAIN recent = 1 .. Len(recent) /\ Len(recent) \in Nat /\ \A k \in DOMAIN recent : recent[k] \in Row
    BY <2>1
  <2>3. \A k \in DOMAIN recent : recent[k].qty \in Int
    BY <2>2 DEF Row
  <2>4. Min(sold) \in sold
    <3>1. IsFiniteSet(DOMAIN recent)
      BY <2>2, FS_Interval
    <3>2. sold \subseteq DOMAIN recent
      BY <1>2
    <3>5. DOMAIN recent \subseteq Int
      <4> HIDE DEF sold
      <4>1. QED BY <2>2
    <3> HIDE DEF sold
    <3>3. IsFiniteSet(sold) /\ sold \subseteq Int
      BY <3>1, <3>2, <3>5, FS_Subset
    <3>4. QED BY <1>4, <3>3, MinMaxFacts
  <2>5. recent[Min(sold)].qty \in Int
    BY <1>2, <2>3, <2>4
  <2> HIDE DEF stats, sold, d
  <2>6. d = [source |-> "estimate", total |-> recent[Min(sold)].qty, days |-> FallbackDays]
    BY <1>1, <1>4
  <2>7. d.source = "estimate" /\ d.total \in Int /\ d.days \in Nat \ {0}
    BY <2>5, <2>6, HistoryAssumption
  <2>8. QED BY <1>4, <2>7 DEF d, stats
<1>5. CASE p \notin Classified(stats, MinDays) /\ sold = {}
  <2>1. ~ \E k \in DOMAIN recent : recent[k].id = p /\ recent[k].qty > 0
    BY <1>2, <1>5
  <2> HIDE DEF stats, sold, d
  <2>2. d = NoDemand
    BY <1>1, <1>5
  <2>3. d.source = "none" /\ d.total = 0 /\ d.days = 1
    BY <2>2 DEF NoDemand
  <2>4. QED BY <1>5, <2>1, <2>3 DEF d, stats
<1>6. QED BY <1>3, <1>4, <1>5

-----------------------------------------------------------------------------
(* The lines of the plan.                                                  *)

\* A quotient rounded up is the least that is enough.
LEMMA CeilingFacts ==
    ASSUME NEW a \in Int, NEW b \in Nat \ {0}
    PROVE  /\ Ceiling(a, b) \in Int /\ Ceiling(a, b) * b >= a /\ (Ceiling(a, b) - 1) * b < a
           /\ a > 0 => Ceiling(a, b) > 0
<1> DEFINE q == (- a) \div b
<1>1. - a \in Int
  OBVIOUS
<1>2. q \in Int /\ b * q <= - a /\ - a < b * q + b
  BY <1>1, Division
<1>3. Ceiling(a, b) = - q
  BY DEF Ceiling
<1> HIDE DEF q
<1>4. (- q) * b = - (b * q) /\ (- q - 1) * b = - (b * q) - b /\ b * q \in Int
  BY <1>2
<1>5. (- q) * b >= a /\ (- q - 1) * b < a
  BY <1>2, <1>4
<1>6. a > 0 => - q > 0
  <2>1. CASE q >= 0
    <3>1. b * q >= 0
      BY <1>2, <2>1
    <3>2. QED BY <1>2, <1>4, <3>1
  <2>2. CASE q < 0
    BY <1>2, <2>2
  <2>3. QED BY <1>2, <2>1, <2>2
<1>7. QED BY <1>2, <1>3, <1>5, <1>6

\* What a line of the plan orders.
LEMMA PlanLineFacts ==
    ASSUME NEW line, line.available \in Int, line.transit \in Int,
           NEW d, d.total \in Int, d.days \in Nat \ {0}, NEW p \in PlanParams
    PROVE  LET x == PlanLine(line, d, p)
               missing == x.upTo - d.days * x.available
           IN  /\ x.id = line.id /\ x.source = d.source /\ x.demand = d /\ x.toOrder \in Int
               /\ x.toOrder > 0 <=> d.total > 0 /\ d.days * x.available < x.reorder
               /\ x.toOrder > 0 =>
                    /\ x.toOrder * d.days * Piece >= missing
                    /\ (x.toOrder - 1) * d.days * Piece < missing
<1> DEFINE safety == IF d.total > 0 THEN d.days * p.safety ELSE 0
           reorder == d.total * p.lead + safety
           upTo == d.total * (p.lead + p.review) + safety
           available == line.available + line.transit
           short == d.total > 0 /\ d.days * available < reorder
           order == IF short THEN ToOrder(upTo, available, d.days) ELSE 0
           toOrder == IF order > 0 THEN order ELSE 0
           missing == upTo - d.days * available
           x == PlanLine(line, d, p)
<1>1. x = [id |-> line.id, source |-> d.source, available |-> available, demand |-> d,
           reorder |-> reorder, upTo |-> upTo, toOrder |-> toOrder,
           value |-> MoneyRound(toOrder * line.cost)]
  BY DEF PlanLine
<1>2. p.safety \in Int /\ p.lead \in Nat /\ p.review \in Nat
  BY DemandAssumption
<1>3. /\ safety \in Int /\ reorder \in Int /\ available \in Int /\ upTo \in Int
      /\ d.total > 0 => upTo >= reorder
  <2>1. safety \in Int
    BY <1>2
  <2> HIDE DEF safety
  <2>2. d.total * p.lead \in Int /\ d.total * (p.lead + p.review) \in Int
    BY <1>2
  <2>3. d.total > 0 => d.total * (p.lead + p.review) >= d.total * p.lead
    <3>1. d.total * (p.lead + p.review) = d.total * p.lead + d.total * p.review
      BY <1>2
    <3>2. d.total * p.review \in Int /\ (d.total > 0 => d.total * p.review >= 0)
      BY <1>2
    <3>3. QED BY <2>2, <3>1, <3>2
  <2>4. QED BY <2>1, <2>2, <2>3
<1>4. Piece \in Nat \ {0} /\ d.days * Piece \in Nat \ {0} /\ d.days * available \in Int
  BY <1>3, UnitsAssumption
<1> HIDE DEF safety, reorder, upTo, available
<1>5. missing \in Int /\ (short => missing > 0)
  BY <1>3, <1>4
<1> DEFINE c == Ceiling(missing, d.days * Piece)
<1>6. /\ c \in Int /\ c * (d.days * Piece) >= missing /\ (c - 1) * (d.days * Piece) < missing
      /\ short => c > 0
  <2> DEFINE b == d.days * Piece
  <2>1. b \in Nat \ {0}
    BY <1>4
  <2> HIDE DEF b, missing
  <2>2. /\ Ceiling(missing, b) \in Int /\ Ceiling(missing, b) * b >= missing
        /\ (Ceiling(missing, b) - 1) * b < missing /\ (missing > 0 => Ceiling(missing, b) > 0)
    BY <1>5, <2>1, CeilingFacts
  <2>3. QED BY <1>5, <2>2 DEF b
<1>7. c * d.days * Piece = c * (d.days * Piece) /\ (c - 1) * d.days * Piece = (c - 1) * (d.days * Piece)
  <2> HIDE DEF c
  <2>1. QED BY <1>4, <1>6
<1>8. order = IF short THEN c ELSE 0
  BY DEF ToOrder
<1> HIDE DEF c, order, short
<1>9. toOrder = IF short THEN c ELSE 0
  BY <1>6, <1>8
<1> HIDE DEF toOrder, missing
<1>10. /\ toOrder \in Int /\ (toOrder > 0 <=> short)
       /\ toOrder > 0 => toOrder * d.days * Piece >= missing /\ (toOrder - 1) * d.days * Piece < missing
  <2>1. CASE short
    BY <1>6, <1>7, <1>9, <2>1
  <2>2. CASE ~ short
    BY <1>9, <2>2
  <2>3. QED BY <2>1, <2>2
<1> HIDE DEF x
<1>11. /\ x.id = line.id /\ x.source = d.source /\ x.demand = d /\ x.toOrder = toOrder
       /\ x.available = available /\ x.reorder = reorder /\ x.upTo = upTo
  BY <1>1
<1>12. QED BY <1>10, <1>11 DEF x, short, missing

-----------------------------------------------------------------------------
(* The rows of the plan.                                                   *)

\* The rows of the plan.
PlanRows(in) ==
    LET lines == StockLines(in.rows)
    IN  [i \in DOMAIN lines |->
            PlanLine(lines[i], SourceOf(lines[i].id, DemandStats(in.demand), in.recent), in.params)]

\* Their totals.
PlanTotals(in) ==
    [count |-> Len(PlanRows(in)), needOrder |-> CountBy(PlanRows(in), LAMBDA x : x.toOrder > 0),
     value |-> SumBy(PlanRows(in), LAMBDA x : x.value)]

\* The rows by what they order.
PlanRanked(in) == Ranked(PlanRows(in), LAMBDA x : x.toOrder)

\* What each row orders.
Needs(in) == [i \in DOMAIN PlanRows(in) |-> PlanRows(in)[i].toOrder]

\* What PlanCovers says of a row.
RowCovers(in, x) ==
    LET d == x.demand
        missing == x.upTo - d.days * x.available
    IN  /\ x.toOrder > 0 <=> d.total > 0 /\ d.days * x.available < x.reorder
        /\ x.toOrder > 0 =>
             /\ x.toOrder * d.days * Piece >= missing
             /\ (x.toOrder - 1) * d.days * Piece < missing
        /\ x.source = "history" <=>
             \E r \in in.demand :
                /\ r.href = x.id
                /\ Cardinality({q.day : q \in {s \in in.demand : s.day >= r.day}}) >= MinDays
        /\ x.source = "none" => ~ \E k \in DOMAIN in.recent :
             in.recent[k].id = x.id /\ in.recent[k].qty > 0

\* A row of the plan orders what is short.
LEMMA PlanRowFacts ==
    ASSUME NEW in \in Inputs["plan"], NEW i \in DOMAIN PlanRows(in)
    PROVE  PlanRows(in)[i].toOrder \in Int /\ RowCovers(in, PlanRows(in)[i])
<1> DEFINE lines == StockLines(in.rows)
           line == lines[i]
           d == SourceOf(line.id, DemandStats(in.demand), in.recent)
           x == PlanLine(line, d, in.params)
<1>1. in.rows \in StockRows /\ in.demand \in DemandRows /\ in.recent \in RecentLines /\ in.params \in PlanParams
  BY DEF Inputs
<1>2. PlanRows(in)[i] = x /\ i \in DOMAIN lines
  BY DEF PlanRows
<1>3. line.available \in Int /\ line.transit \in Int
  BY <1>1, <1>2, StockLinesFacts
<1>4. /\ d.total \in Int /\ d.days \in Nat \ {0}
      /\ d.source = "history" <=> line.id \in Classified(DemandStats(in.demand), MinDays)
      /\ d.source = "none" => ~ \E k \in DOMAIN in.recent :
           in.recent[k].id = line.id /\ in.recent[k].qty > 0
  BY <1>1, SourceFacts
<1>5. line.id \in Classified(DemandStats(in.demand), MinDays) <=>
        \E r \in in.demand :
           /\ r.href = line.id
           /\ Cardinality({q.day : q \in {s \in in.demand : s.day >= r.day}}) >= MinDays
  BY <1>1, ClassifiedIs
<1> HIDE DEF lines, d, line
<1>6. /\ x.id = line.id /\ x.source = d.source /\ x.demand = d /\ x.toOrder \in Int
      /\ x.toOrder > 0 <=> d.total > 0 /\ d.days * x.available < x.reorder
      /\ x.toOrder > 0 =>
           /\ x.toOrder * d.days * Piece >= x.upTo - d.days * x.available
           /\ (x.toOrder - 1) * d.days * Piece < x.upTo - d.days * x.available
  BY <1>1, <1>3, <1>4, PlanLineFacts
<1> HIDE DEF x
<1>7. RowCovers(in, x)
  BY <1>4, <1>5, <1>6 DEF RowCovers
<1>8. QED BY <1>2, <1>6, <1>7

\* The plan is a report of these rows.
LEMMA PlanIs ==
    ASSUME Asked, Answered("plan")
    PROVE  /\ input \in Inputs["plan"]
           /\ \A n : Answer(tool, input, n) = Report(PlanTotals(input), PlanRanked(input), n)
           /\ PlanRanked(input) = [k \in DOMAIN Order(Needs(input)) |-> PlanRows(input)[Order(Needs(input))[k]]]
           /\ DOMAIN Needs(input) = DOMAIN PlanRows(input)
           /\ DOMAIN Needs(input) \subseteq Nat /\ IsFiniteSet(DOMAIN Needs(input))
           /\ \A i \in DOMAIN Needs(input) : Needs(input)[i] = PlanRows(input)[i].toOrder /\ Needs(input)[i] \in Int
<1>1. tool = "plan" /\ input \in Inputs["plan"] /\ answer # NoAnswer
  BY AnswerIs DEF Answered
<1>2. \A n : Answer(tool, input, n) = Report(PlanTotals(input), PlanRanked(input), n)
  BY <1>1 DEF Answer, HistoryTool, PurchasePlan, PlanTotals, PlanRanked, PlanRows
<1>3. PlanRanked(input) = [k \in DOMAIN Order(Needs(input)) |-> PlanRows(input)[Order(Needs(input))[k]]]
  BY DEF PlanRanked, Ranked, RankedAt, Needs
<1>4. DOMAIN Needs(input) = DOMAIN PlanRows(input)
  BY DEF Needs
<1>5. DOMAIN PlanRows(input) = DOMAIN StockLines(input.rows)
  BY DEF PlanRows
<1>6. DOMAIN Needs(input) \subseteq Nat /\ IsFiniteSet(DOMAIN Needs(input))
  <2>1. input.rows \in StockRows
    BY <1>1 DEF Inputs
  <2>2. DOMAIN StockLines(input.rows) \subseteq Nat /\ IsFiniteSet(DOMAIN StockLines(input.rows))
    BY <2>1, StockLinesFacts
  <2>3. QED BY <1>4, <1>5, <2>2
<1>7. \A i \in DOMAIN Needs(input) : Needs(input)[i] = PlanRows(input)[i].toOrder
  BY DEF Needs
<1>8. \A i \in DOMAIN PlanRows(input) : PlanRows(input)[i].toOrder \in Int
  BY <1>1, PlanRowFacts
<1>9. QED BY <1>1, <1>2, <1>3, <1>4, <1>6, <1>7, <1>8

\* The purchase plan.
LEMMA PlanCut ==
    ASSUME Asked, Answered("plan")
    PROVE  CutFrom(Answer(tool, input, 0).rows)
<1> DEFINE v == Needs(input)
           s == PlanRows(input)
           rows == PlanRanked(input)
           totals == PlanTotals(input)
<1>1. /\ tool = "plan" /\ tool # "turns" /\ answer # NoAnswer
      /\ \A n : Answer(tool, input, n) = Report(totals, rows, n)
      /\ rows = [k \in DOMAIN Order(v) |-> s[Order(v)[k]]]
      /\ DOMAIN v \subseteq Nat /\ IsFiniteSet(DOMAIN v) /\ (\A i \in DOMAIN v : v[i] \in Int)
      /\ \A i \in DOMAIN v : s[i].toOrder = v[i]
  BY PlanIs DEF Answered
<1>2. \A i \in DOMAIN v : RankOf(tool, s[i]) = v[i]
  BY <1>1 DEF RankOf
<1> HIDE DEF v, s, rows, totals
<1>3. tool # "turns" /\ answer # NoAnswer
  BY <1>1
<1>4. \A n : Answer(tool, input, n) = Report(totals, rows, n)
  BY <1>1
<1>5. rows = [k \in DOMAIN Order(v) |-> s[Order(v)[k]]]
  BY <1>1
<1>6. DOMAIN v \subseteq Nat /\ IsFiniteSet(DOMAIN v) /\ \A i \in DOMAIN v : v[i] \in Int
  BY <1>1
<1>7. QED BY <1>2, <1>3, <1>4, <1>5, <1>6, ReportCut

-----------------------------------------------------------------------------
(* What is shown, and what the plan covers.                                *)

\* What is said of the rows is said of those that are shown.
LEMMA PlanRowsShown ==
    ASSUME Asked, Answered("plan"), NEW i \in DOMAIN answer.rows
    PROVE  \E j \in DOMAIN PlanRows(input) : answer.rows[i] = PlanRows(input)[j]
<1> DEFINE v == Needs(input)
           s == PlanRows(input)
           rows == PlanRanked(input)
           totals == PlanTotals(input)
           l == ClampLimit(limit)
           T == {s[j] : j \in DOMAIN v}
           m == CutAt(Len(rows), l)
<1>1. /\ rows = [k \in DOMAIN Order(v) |-> s[Order(v)[k]]]
      /\ DOMAIN v = DOMAIN s
      /\ DOMAIN v \subseteq Nat /\ IsFiniteSet(DOMAIN v) /\ \A j \in DOMAIN v : v[j] \in Int
  BY PlanIs
<1>2. answer = Report(totals, rows, l) /\ l \in 1 .. MaxLimit
  <2>1. answer = Answer(tool, input, l)
    BY DEF Asked, Answered
  <2>2. l \in 1 .. MaxLimit
    BY LimitIs DEF Asked
  <2> HIDE DEF l
  <2>3. QED BY <2>1, <2>2, PlanIs
<1>3. l \in Nat
  BY <1>2, LimitsAssumption
<1> HIDE DEF v, s, rows, totals, l
<1>4. rows \in Seq(T) /\ Len(rows) \in Nat
  BY <1>1, RankedIs
<1>5. \A k \in 1 .. Len(rows) : rows[k] \in T
  <2> HIDE DEF T
  <2>1. QED BY <1>4
<1> HIDE DEF T
<1>6. answer = [totals |-> totals, rowCount |-> Len(rows), returned |-> m,
                truncated |-> Truncated(rows, l), rows |-> [k \in 1 .. m |-> rows[k]]]
  BY <1>2, <1>3, <1>4, ReportIs
<1>7. m \in 0 .. Len(rows)
  BY <1>3, <1>4, CutAtFacts
<1> HIDE DEF m
<1>8. answer.rows = [k \in 1 .. m |-> rows[k]]
  BY <1>6
<1>9. i \in 1 .. m /\ answer.rows[i] = rows[i]
  BY <1>8
<1>10. i \in 1 .. Len(rows)
  BY <1>4, <1>7, <1>9
<1>11. rows[i] \in T
  BY <1>5, <1>10
<1>12. \E j \in DOMAIN v : rows[i] = s[j]
  BY <1>11 DEF T
<1>13. QED BY <1>1, <1>9, <1>12 DEF s

\* The plan orders exactly what is short, neither less than is missing nor a piece
\* more, and knows of a product's demand what the longest source there is says
\* (Demand.PurchasePlan).
THEOREM PlanIsRight == Spec => []PlanCovers
<1>1. ASSUME Asked PROVE PlanCovers
  <2> SUFFICES ASSUME Answered("plan"), NEW i \in DOMAIN answer.rows
               PROVE  RowCovers(input, answer.rows[i])
    BY DEF PlanCovers, RowCovers
  <2>1. PICK j \in DOMAIN PlanRows(input) : answer.rows[i] = PlanRows(input)[j]
    BY <1>1, PlanRowsShown
  <2>2. input \in Inputs["plan"]
    BY <1>1, PlanIs
  <2>3. RowCovers(input, PlanRows(input)[j])
    BY <2>2, PlanRowFacts
  <2>4. QED BY <2>1, <2>3
<1>2. QED BY <1>1, Invariance, PTL

\* The rows that a capped report leaves out rank lowest, and it says that it left
\* them out (Aggregate.Report and the tools of Reports).
THEOREM LargestAreShown == Spec => []LargestShown
<1>1. ASSUME Asked PROVE LargestShown
  <2> SUFFICES ASSUME answer # NoAnswer, tool \in RankedTools
               PROVE  CutFrom(Answer(tool, input, 0).rows)
    BY DEF LargestShown
  <2>1. Answered(tool)
    BY DEF Answered
  <2>2. /\ tool \in {"profit", "stock", "turnover", "customers"}
           => CutFrom(Answer(tool, input, 0).rows)
        /\ tool \in {"dead", "abc", "segments", "aging"} => CutFrom(Answer(tool, input, 0).rows)
        /\ tool \in {"matrix", "plan", "xyz"} => CutFrom(Answer(tool, input, 0).rows)
    BY <1>1, <2>1, ProfitCut, StockCut, TurnoverCut, CustomersCut, DeadCut, AbcCut, SegmentsCut,
       AgingCut, MatrixCut, PlanCut, XyzCut
  <2>3. QED BY <2>2 DEF RankedTools
<1>2. QED BY <1>1, Invariance, PTL

-----------------------------------------------------------------------------
(* The classes of an ABC.                                                  *)

\* What is taken from the top while it is within a cut stays within it together,
\* and one more that is beyond the cut with all above it goes beyond it.
LEMMA CutFull ==
    ASSUME NEW n \in Nat, NEW f, \A i \in 1 .. n : f[i] \in Nat,
           NEW total, total = SumFunctionOnSet(f, 1 .. n),
           NEW C \in SUBSET (1 .. n), NEW cut \in Nat,
           \A i \in C : 100 * SumFunctionOnSet(f, 1 .. i) <= cut * total
    PROVE  /\ 100 * SumFunctionOnSet(f, C) <= cut * total
           /\ \A i \in 1 .. n : 100 * SumFunctionOnSet(f, 1 .. i) > cut * total =>
                100 * SumFunctionOnSet(f, C \cup {i} \cup 1 .. i) > cut * total
<1> DEFINE N == 1 .. n
           S(B) == SumFunctionOnSet(f, B)
<1>1. IsFiniteSet(N)
  BY FS_Interval
<1>2. \A B \in SUBSET N : IsFiniteSet(B) /\ S(B) \in Nat
  <2> SUFFICES ASSUME NEW B \in SUBSET N PROVE IsFiniteSet(B) /\ S(B) \in Nat
    OBVIOUS
  <2>1. \A i \in N : f[i] \in Nat
    OBVIOUS
  <2> HIDE DEF N
  <2>2. QED BY <1>1, <2>1, FS_Subset, SumSubset
<1>3. \A D \in SUBSET N : \A B \in SUBSET D : S(B) <= S(D)
  <2> SUFFICES ASSUME NEW D \in SUBSET N, NEW B \in SUBSET D PROVE S(B) <= S(D)
    OBVIOUS
  <2>1. IsFiniteSet(D) /\ \A i \in D : f[i] \in Nat
    BY <1>2
  <2>2. QED BY <2>1, SumSubset
<1>4. total \in Nat /\ cut * total \in Nat
  BY <1>2
<1>5. 100 * S(C) <= cut * total
  <2>1. CASE C = {}
    <3>1. S(C) = 0
      BY <2>1, SumEmpty
    <3>2. QED BY <1>4, <3>1
  <2>2. CASE C # {}
    <3>1. IsFiniteSet(C) /\ C \subseteq Int
      BY <1>2
    <3>2. PICK m \in C : \A i \in C : m >= i
      BY <2>2, <3>1, Extremes
    <3>3. C \subseteq 1 .. m /\ 1 .. m \subseteq N
      BY <3>2
    <3>4. S(C) <= S(1 .. m)
      <4> DEFINE M == 1 .. m
      <4>1. C \in SUBSET M /\ M \in SUBSET N
        BY <3>3
      <4> HIDE DEF M, S
      <4>2. S(C) <= S(M)
        BY <1>3, <4>1
      <4>3. QED BY <4>2 DEF M
    <3>5. S(C) \in Int /\ S(1 .. m) \in Int
      BY <1>2, <3>3
    <3>6. 100 * S(1 .. m) <= cut * total
      BY <3>2
    <3> HIDE DEF S
    <3>7. QED BY <1>4, <3>4, <3>5, <3>6
  <2>3. QED BY <2>1, <2>2
<1>6. ASSUME NEW i \in 1 .. n, 100 * S(1 .. i) > cut * total
      PROVE  100 * S(C \cup {i} \cup 1 .. i) > cut * total
  <2> DEFINE A == 1 .. i
             B == C \cup {i} \cup 1 .. i
  <2>1. A \in SUBSET B /\ B \in SUBSET N /\ A \in SUBSET N
    OBVIOUS
  <2>2. 100 * S(A) > cut * total
    BY <1>6
  <2> HIDE DEF A, B, S
  <2>3. S(A) <= S(B) /\ S(A) \in Int /\ S(B) \in Int
    BY <1>2, <1>3, <2>1
  <2>4. 100 * S(B) > cut * total
    BY <1>4, <2>2, <2>3
  <2>5. QED BY <2>4 DEF B
<1>7. QED BY <1>5, <1>6

\* The classes of an ABC go by the cumulative sums of its values.
LEMMA AbcClasses ==
    ASSUME NEW pairs \in ValuePairs \cup MatrixPairs
    PROVE  LET a == Abc(pairs)
               n == Len(pairs)
               f == [i \in 1 .. n |-> Positive(a[i].value)]
               total == SumFunctionOnSet(f, 1 .. n)
           IN  \A i \in 1 .. n :
                  /\ f[i] \in Nat
                  /\ a[i].class = IF a[i].value <= 0 THEN "C"
                                  ELSE IF 100 * SumFunctionOnSet(f, 1 .. i) <= ACut * total THEN "A"
                                  ELSE IF 100 * SumFunctionOnSet(f, 1 .. i) <= BCut * total THEN "B" ELSE "C"
<1> DEFINE n == Len(pairs)
           a == Abc(pairs)
           s == Ranked(pairs, LAMBDA x : x.value)
           f == [i \in 1 .. n |-> Positive(a[i].value)]
           total == SumFunctionOnSet(f, 1 .. n)
           g == [i \in DOMAIN s |-> Positive(s[i].value)]
           h(i) == [j \in 1 .. i |-> Positive(s[j].value)]
           whole == SumBy(s, LAMBDA x : Positive(x.value))
<1>1. n \in Nat /\ DOMAIN a = 1 .. n /\ DOMAIN a = DOMAIN s
  BY AbcIs DEF Abc
<1>2. \A i \in 1 .. n : a[i].value \in Int /\ a[i].value = s[i].value
  <2>1. \A i \in 1 .. n : a[i].value \in Int
    BY AbcIs
  <2>2. \A i \in DOMAIN s : a[i].value = s[i].value
    BY DEF Abc
  <2>3. QED BY <1>1, <2>1, <2>2
<1>3. \A i \in DOMAIN s : a[i].class = IF s[i].value <= 0 THEN "C"
                    ELSE IF 100 * Cumulative(s, i) <= ACut * whole THEN "A"
                    ELSE IF 100 * Cumulative(s, i) <= BCut * whole THEN "B" ELSE "C"
  BY DEF Abc
<1>4. \A i \in 1 .. n : f[i] \in Nat /\ f[i] = g[i]
  BY <1>1, <1>2 DEF Positive
<1>5. whole = total
  <2>1. whole = SumFunctionOnSet(g, DOMAIN s)
    BY DEF SumBy, SumAt, SumFunction
  <2> HIDE DEF g, s, whole, f, a, n
  <2>2. IsFiniteSet(1 .. n)
    <3>1. 1 \in Int /\ n \in Int
      BY <1>1
    <3>2. QED BY <3>1, FS_Interval
  <2>3. SumFunctionOnSet(f, 1 .. n) = SumFunctionOnSet(g, 1 .. n)
    <3> DEFINE N == 1 .. n
    <3>1. IsFiniteSet(N) /\ \A i \in N : f[i] = g[i]
      BY <1>4, <2>2
    <3> HIDE DEF N
    <3>2. SumFunctionOnSet(f, N) = SumFunctionOnSet(g, N)
      BY <3>1, SumEqual
    <3>3. QED BY <3>2 DEF N
  <2>4. QED BY <1>1, <2>1, <2>3
<1>6. ASSUME NEW i \in 1 .. n PROVE Cumulative(s, i) = SumFunctionOnSet(f, 1 .. i)
  <2> DEFINE M == 1 .. i
             k == h(i)
  <2>1. Cumulative(s, i) = SumFunctionOnSet(k, M)
    BY DEF Cumulative, SumAt, SumFunction
  <2>2. IsFiniteSet(M)
    BY FS_Interval
  <2>3. \A j \in M : f[j] = k[j]
    BY <1>1, <1>2
  <2> HIDE DEF M, k, f
  <2>4. SumFunctionOnSet(f, M) = SumFunctionOnSet(k, M)
    BY <2>2, <2>3, SumEqual
  <2>5. QED BY <2>1, <2>4 DEF M
<1> HIDE DEF f, s, g, h, whole, a, total
<1>7. ASSUME NEW i \in 1 .. n
      PROVE  a[i].class = IF a[i].value <= 0 THEN "C"
                          ELSE IF 100 * SumFunctionOnSet(f, 1 .. i) <= ACut * total THEN "A"
                          ELSE IF 100 * SumFunctionOnSet(f, 1 .. i) <= BCut * total THEN "B" ELSE "C"
  <2>1. i \in DOMAIN s /\ a[i].value = s[i].value
    BY <1>1, <1>2
  <2>2. QED BY <1>3, <1>5, <1>6, <2>1
<1>8. QED BY <1>4, <1>7 DEF f, a, total

\* A class of an ABC takes in whatever ranks above any of its rows.
LEMMA AbcRanks ==
    ASSUME NEW pairs \in ValuePairs \cup MatrixPairs
    PROVE  \A i, j \in 1 .. Len(pairs) : i < j => Abc(pairs)[i].value >= Abc(pairs)[j].value
<1> DEFINE v == Values(pairs)
           o == Order(v)
           n == Len(pairs)
           a == Abc(pairs)
<1>1. /\ n \in Nat /\ DOMAIN v = 1 .. n /\ IsFiniteSet(DOMAIN v)
      /\ Cardinality(DOMAIN v) = n /\ \A i \in DOMAIN v : v[i] \in Int
  BY ValuesFacts
<1>2. \A k \in 1 .. n : o[k] \in 1 .. n /\ a[k].value = v[o[k]]
  BY AbcIs
<1> HIDE DEF v, n, a
<1>3. DOMAIN v \subseteq Nat
  BY <1>1
<1>4. \A i, j \in 1 .. n : i < j => Before(v, o[i], o[j])
  <2>1. \A i, j \in 1 .. Cardinality(DOMAIN v) : i < j => Before(v, o[i], o[j])
    BY <1>1, <1>3, OrderFacts
  <2>2. QED BY <1>1, <2>1
<1> HIDE DEF o
<1>5. ASSUME NEW i \in 1 .. n, NEW j \in 1 .. n, i < j PROVE a[i].value >= a[j].value
  <2>1. v[o[i]] \in Int /\ v[o[j]] \in Int
    BY <1>1, <1>2
  <2>2. v[o[i]] >= v[o[j]]
    BY <1>4, <1>5, <2>1 DEF Before
  <2>3. QED BY <1>2, <2>2
<1>6. QED BY <1>5 DEF n, a

\* The classes of an ABC are as full as the cuts allow.
LEMMA ClassesAreFull ==
    ASSUME NEW pairs \in ValuePairs \cup MatrixPairs
    PROVE  ClassesFull(Abc(pairs))
<1> DEFINE a == Abc(pairs)
           n == Len(pairs)
           f == [i \in 1 .. n |-> Positive(a[i].value)]
           S(B) == SumFunctionOnSet(f, B)
           total == S(1 .. n)
           Share(B) == 100 * SumAt(B, a, LAMBDA x : Positive(x.value))
           Of(C) == {i \in DOMAIN a : a[i].class \in C}
           A == Of({"A"})
           AB == Of({"A", "B"})
           At(i) == S(1 .. i)
<1>1. n \in Nat /\ DOMAIN a = 1 .. n /\ \A i \in 1 .. n : a[i].value \in Int
  BY AbcIs
<1>2. \A i \in 1 .. n :
         /\ f[i] \in Nat
         /\ a[i].class = IF a[i].value <= 0 THEN "C"
                         ELSE IF 100 * At(i) <= ACut * total THEN "A"
                         ELSE IF 100 * At(i) <= BCut * total THEN "B" ELSE "C"
  BY AbcClasses
<1>3. \A i, j \in 1 .. n : i < j => a[i].value >= a[j].value
  BY AbcRanks
<1>4. SumBy(a, LAMBDA x : Positive(x.value)) = total
  <2> DEFINE g == [i \in DOMAIN a |-> Positive(a[i].value)]
  <2>1. SumBy(a, LAMBDA x : Positive(x.value)) = SumFunctionOnSet(g, DOMAIN a)
    BY DEF SumBy, SumAt, SumFunction
  <2>2. g = f
    BY <1>1
  <2> HIDE DEF g
  <2>3. QED BY <1>1, <2>1, <2>2
<1>5. ASSUME NEW B \in SUBSET (1 .. n) PROVE Share(B) = 100 * S(B)
  <2> DEFINE g == [i \in B |-> Positive(a[i].value)]
  <2>1. Share(B) = 100 * SumFunctionOnSet(g, B)
    BY DEF SumAt, SumFunction
  <2>2. \A i \in B : g[i] = f[i]
    OBVIOUS
  <2>3. IsFiniteSet(B)
    <3> DEFINE N == 1 .. n
    <3>1. B \in SUBSET N
      OBVIOUS
    <3>2. IsFiniteSet(N)
      <4>1. 1 \in Int /\ n \in Int
        BY <1>1
      <4> HIDE DEF n
      <4>2. QED BY <4>1, FS_Interval
    <3> HIDE DEF N
    <3>3. QED BY <3>1, <3>2, FS_Subset
  <2> HIDE DEF g, f
  <2>4. SumFunctionOnSet(g, B) = SumFunctionOnSet(f, B)
    BY <2>2, <2>3, SumEqual
  <2>5. QED BY <2>1, <2>4
<1> HIDE DEF f, a, n, Share
<1>6. /\ \A i \in 1 .. n : At(i) \in Int
      /\ total \in Nat
      /\ \A i, j \in 1 .. n : i < j => At(i) <= At(j)
  <2> DEFINE N == 1 .. n
  <2>1. IsFiniteSet(N)
    <3>1. 1 \in Int /\ n \in Int
      BY <1>1
    <3>2. QED BY <3>1, FS_Interval
  <2>2. \A i \in N : f[i] \in Nat
    BY <1>2
  <2>3. \A B \in SUBSET N : IsFiniteSet(B) /\ S(B) \in Nat
    <3> HIDE DEF N
    <3>1. QED BY <2>1, <2>2, FS_Subset, SumSubset
  <2>4. ASSUME NEW i \in 1 .. n, NEW j \in 1 .. n, i < j PROVE At(i) <= At(j)
    <3> DEFINE I == 1 .. i
               J == 1 .. j
    <3>1. I \in SUBSET J /\ J \in SUBSET N
      BY <1>1, <2>4
    <3>2. IsFiniteSet(J) /\ \A k \in J : f[k] \in Nat
      BY <2>2, <2>3, <3>1
    <3> HIDE DEF I, J
    <3>3. SumFunctionOnSet(f, I) <= SumFunctionOnSet(f, J)
      BY <3>1, <3>2, SumSubset
    <3>4. QED BY <3>3 DEF I, J
  <2>5. \A i \in 1 .. n : 1 .. i \in SUBSET N
    BY <1>1
  <2>6. ASSUME NEW i \in 1 .. n PROVE At(i) \in Int
    <3> DEFINE I == 1 .. i
    <3>1. I \in SUBSET N
      BY <2>5
    <3> HIDE DEF I, S
    <3>2. S(I) \in Int
      BY <2>3, <3>1
    <3>3. QED BY <3>2 DEF I
  <2>7. total \in Nat
    <3> HIDE DEF S
    <3>1. QED BY <2>3
  <2>8. QED BY <2>4, <2>6, <2>7
<1>7. ACut \in Nat /\ BCut \in Nat /\ ACut < BCut /\ ACut * total <= BCut * total
      /\ ACut * total \in Nat /\ BCut * total \in Nat
  <2>1. ACut \in Nat /\ BCut \in Nat /\ ACut < BCut
    BY CutsAssumption
  <2> HIDE DEF S
  <2>2. (BCut - ACut) * total >= 0 /\ BCut * total = ACut * total + (BCut - ACut) * total
    BY <1>6, <2>1
  <2>3. QED BY <1>6, <2>1, <2>2
<1> HIDE DEF At
<1>8. ASSUME NEW C \in SUBSET (1 .. n), NEW cut \in Nat,
             \A i \in 1 .. n : a[i].value > 0 => (i \in C <=> 100 * At(i) <= cut * total),
             \A i \in C : a[i].value > 0
      PROVE  /\ Share(C) <= cut * total
             /\ \A i \in DOMAIN a \ C : a[i].value > 0 => Share(C \cup {i} \cup 1 .. i) > cut * total
  <2>1. \A i \in C : 100 * SumFunctionOnSet(f, 1 .. i) <= cut * total
    BY <1>8 DEF At
  <2>2. \A i \in 1 .. n : f[i] \in Nat
    BY <1>2
  <2>3. /\ 100 * S(C) <= cut * total
        /\ \A i \in 1 .. n : 100 * S(1 .. i) > cut * total => 100 * S(C \cup {i} \cup 1 .. i) > cut * total
    BY <1>1, <2>1, <2>2, CutFull
  <2>4. Share(C) <= cut * total
    BY <1>5, <2>3
  <2>5. ASSUME NEW i \in DOMAIN a \ C, a[i].value > 0
        PROVE  Share(C \cup {i} \cup 1 .. i) > cut * total
    <3> DEFINE B == C \cup {i} \cup 1 .. i
    <3>1. i \in 1 .. n /\ B \in SUBSET (1 .. n)
      <4>1. i \in 1 .. n /\ n \in Nat
        BY <1>1
      <4>2. 1 .. i \subseteq 1 .. n
        BY <4>1
      <4>3. QED BY <4>1, <4>2
    <3>2. 100 * At(i) > cut * total
      <4>1. ~ (100 * At(i) <= cut * total)
        BY <1>8, <2>5, <3>1
      <4>2. At(i) \in Int /\ total \in Nat
        BY <1>6, <3>1
      <4> HIDE DEF S
      <4>3. cut * total \in Int
        BY <4>2
      <4> HIDE DEF total
      <4>4. QED BY <4>1, <4>2, <4>3
    <3>3. 100 * S(B) > cut * total
      BY <2>3, <3>1, <3>2 DEF At
    <3>4. Share(B) = 100 * S(B)
      BY <1>5, <3>1
    <3>5. QED BY <3>3, <3>4
  <2>6. QED BY <2>4, <2>5
<1> HIDE DEF S, total
<1>9. ASSUME NEW i \in 1 .. n
      PROVE  /\ a[i].class = "A" <=> a[i].value > 0 /\ 100 * At(i) <= ACut * total
             /\ a[i].class \in {"A", "B"} <=> a[i].value > 0 /\ 100 * At(i) <= BCut * total
             /\ a[i].class = "C" <=> a[i].value <= 0 \/ 100 * At(i) > BCut * total
  <2>1. a[i].value \in Int /\ At(i) \in Int /\ total \in Int
    BY <1>1, <1>6
  <2>2. QED BY <1>2, <1>7, <2>1
<1>10. /\ Share(A) <= ACut * total
       /\ \A i \in DOMAIN a \ A : a[i].value > 0 => Share(A \cup {i} \cup 1 .. i) > ACut * total
  <2>1. A \in SUBSET (1 .. n)
    BY <1>1
  <2>2. /\ \A i \in 1 .. n : a[i].value > 0 => (i \in A <=> 100 * At(i) <= ACut * total)
        /\ \A i \in A : a[i].value > 0
    BY <1>1, <1>9
  <2> HIDE DEF A
  <2>3. QED BY <1>7, <1>8, <2>1, <2>2
<1>11. /\ Share(AB) <= BCut * total
       /\ \A i \in DOMAIN a \ AB : a[i].value > 0 => Share(AB \cup {i} \cup 1 .. i) > BCut * total
  <2>1. AB \in SUBSET (1 .. n)
    BY <1>1
  <2>2. /\ \A i \in 1 .. n : a[i].value > 0 => (i \in AB <=> 100 * At(i) <= BCut * total)
        /\ \A i \in AB : a[i].value > 0
    BY <1>1, <1>9
  <2> HIDE DEF AB
  <2>3. QED BY <1>7, <1>8, <2>1, <2>2
<1>12. ASSUME NEW i \in DOMAIN a, NEW j \in DOMAIN a, i < j
       PROVE  /\ a[j].class = "A" => a[i].class = "A"
              /\ a[i].class = "C" => a[j].class = "C"
  <2>1. i \in 1 .. n /\ j \in 1 .. n
    BY <1>1
  <2>2. /\ a[i].value >= a[j].value /\ At(i) <= At(j) /\ a[i].value \in Int /\ a[j].value \in Int
        /\ At(i) \in Int /\ At(j) \in Int /\ ACut * total \in Int /\ BCut * total \in Int
    BY <1>1, <1>3, <1>6, <1>7, <1>12, <2>1
  <2>3. /\ a[i].class = "A" <=> a[i].value > 0 /\ 100 * At(i) <= ACut * total
        /\ a[j].class = "A" <=> a[j].value > 0 /\ 100 * At(j) <= ACut * total
        /\ a[i].class = "C" <=> a[i].value <= 0 \/ 100 * At(i) > BCut * total
        /\ a[j].class = "C" <=> a[j].value <= 0 \/ 100 * At(j) > BCut * total
    BY <1>9, <2>1
  <2>4. QED BY <2>2, <2>3
<1>13. QED BY <1>4, <1>10, <1>11, <1>12 DEF ClassesFull, Share, a

-----------------------------------------------------------------------------
(* The segments of the counterparties.                                     *)

\* What ranks above a row of a falling list is its beginning.
LEMMA RankAbove ==
    ASSUME NEW n \in Nat, NEW r, \A k \in 1 .. n : r[k] \in Int,
           \A j, k \in 1 .. n : j < k => r[j] >= r[k],
           NEW i \in 1 .. n
    PROVE  LET W == {k \in 1 .. n : r[k] > r[i]}
           IN  /\ Cardinality(W) \in 0 .. n - 1
               /\ \A k \in 1 .. n : r[i] >= r[k] <=> k > Cardinality(W)
<1> DEFINE W == {k \in 1 .. n : r[k] > r[i]}
           Rest == {k \in 1 .. n : ~ (r[k] > r[i])}
<1>1. Rest \in SUBSET Nat /\ i \in Rest
  OBVIOUS
<1>2. PICK m \in Rest : \A k \in Rest : m <= k
  <2> HIDE DEF Rest
  <2>1. QED BY <1>1, Minimum
<1>3. m \in 1 .. n /\ m - 1 \in 0 .. n - 1
  OBVIOUS
<1>4. \A k \in 1 .. n : k \in W <=> k < m
  <2> SUFFICES ASSUME NEW k \in 1 .. n PROVE k \in W <=> k < m
    OBVIOUS
  <2>1. r[k] \in Int /\ r[m] \in Int /\ r[i] \in Int
    OBVIOUS
  <2>2. ASSUME k < m PROVE k \in W
    BY <1>2, <2>2
  <2>3. ASSUME k = m PROVE k \notin W
    BY <1>2, <2>3
  <2>4. ASSUME k > m PROVE k \notin W
    <3>1. r[m] >= r[k]
      BY <2>4
    <3>2. QED BY <1>2, <2>1, <3>1
  <2>5. QED BY <2>2, <2>3, <2>4
<1>5. W = 1 .. m - 1
  BY <1>3, <1>4
<1>6. Cardinality(1 .. m - 1) = m - 1
  <2> DEFINE c == m - 1
  <2>1. c \in Nat /\ c \in Int /\ 1 \in Int
    BY <1>3
  <2> HIDE DEF c
  <2>2. Cardinality(1 .. c) = c
    BY <2>1, FS_Interval
  <2>3. QED BY <2>2 DEF c
<1>7. Cardinality(W) = m - 1
  BY <1>5, <1>6
<1>8. \A k \in 1 .. n : r[i] >= r[k] <=> k >= m
  <2> SUFFICES ASSUME NEW k \in 1 .. n PROVE r[i] >= r[k] <=> k >= m
    OBVIOUS
  <2>1. r[k] \in Int /\ r[i] \in Int
    OBVIOUS
  <2>2. k \in W <=> r[k] > r[i]
    OBVIOUS
  <2>3. k \in W <=> k < m
    BY <1>4
  <2> HIDE DEF W
  <2>4. QED BY <2>1, <2>2, <2>3
<1> HIDE DEF W
<1>9. Cardinality(W) \in 0 .. n - 1 /\ \A k \in 1 .. n : r[i] >= r[k] <=> k > Cardinality(W)
  BY <1>3, <1>7, <1>8
<1>10. QED BY <1>9 DEF W

\* Segments(m, ...) in short: who is a VIP, and that nobody is asleep and at risk.
LEMMA LabelsAre ==
    ASSUME NEW m, NEW threshold, NEW now, NEW p
    PROVE  /\ "vip" \in Segments(m, threshold, now, p) <=> m.revenue > 0 /\ m.revenue >= threshold
           /\ ~ {"sleeping", "at_risk"} \subseteq Segments(m, threshold, now, p)
BY DEF Segments

\* The segments of a counterparty.
SegmentOf(in, r) ==
    LET m == Metric(r)
    IN  [revenue |-> m.revenue, days |-> DaysSince(m, Now),
         labels |-> Segments(m, VipThreshold(in.rows, OrDefault(in.params.vip, 20)), Now, in.params)]

\* The place the VIPs must reach is one of the list, and below all who are within the share.
LEMMA VipIndexFacts ==
    ASSUME NEW n \in Nat, NEW share \in Int, share >= -100, NEW c \in 0 .. n - 1
    PROVE  LET x == VipIndex(n, share)
           IN  x \in Int /\ x + 1 \in 1 .. n /\ (100 * (c + 1) <= share * n => c <= x)
<1> DEFINE x == VipIndex(n, share)
           part == PartOf(n, share)
<1>1. n \in Nat \ {0}
  OBVIOUS
<1>2. \A a \in Int : a \div 100 \in Int /\ 100 * (a \div 100) <= a /\ a < 100 * (a \div 100) + 100
  BY Division
<1>3. x = LET idx == IF part <= n - 1 THEN part ELSE n - 1 IN IF idx < 0 THEN n + idx ELSE idx
  BY DEF VipIndex, Least
<1>4. CASE share >= 0
  <2> DEFINE a == n * share
  <2>1. a \in Nat /\ share * n = a
    BY <1>1, <1>4
  <2>2. part = a \div 100
    BY <1>4 DEF PartOf
  <2> HIDE DEF a, part, x
  <2>3. part \in Int /\ 100 * part <= a /\ a < 100 * part + 100
    BY <1>2, <2>1, <2>2
  <2>4. part >= 0
    BY <2>1, <2>3
  <2>5. x = IF part <= n - 1 THEN part ELSE n - 1
    BY <1>1, <1>3, <2>3, <2>4
  <2>6. QED BY <1>1, <2>1, <2>3, <2>4, <2>5 DEF x
<1>5. CASE share < 0
  <2> DEFINE a == n * (- share)
             q == a \div 100
  <2>1. a \in Nat /\ a <= 100 * n /\ share * n <= 0
    <3>1. - share \in 0 .. 100
      BY <1>5
    <3> DEFINE t == - share
    <3>2. n * t \in Nat /\ n * t <= 100 * n
      <4> HIDE DEF t
      <4>1. QED BY <1>1, <3>1 DEF t
    <3>3. share * n = - (n * t)
      OBVIOUS
    <3>4. QED BY <3>2, <3>3
  <2>2. part = - q
    BY <1>5 DEF PartOf
  <2> HIDE DEF a
  <2>3. q \in Int /\ 100 * q <= a /\ a < 100 * q + 100
    BY <1>2, <2>1
  <2> HIDE DEF q, part, x
  <2>4. q \in 0 .. n
    BY <2>1, <2>3
  <2>5. x = IF q = 0 THEN 0 ELSE n - q
    BY <1>1, <1>3, <2>2, <2>4
  <2>6. QED BY <1>1, <2>1, <2>4, <2>5 DEF x
<1>6. QED BY <1>4, <1>5

\* The segments go by rank.
LEMMA SegmentsFollowRank ==
    ASSUME NEW in \in Inputs["segments"], in = input
    PROVE  SegmentsFollow(SegmentReport(in.rows, Now, in.params, 0).rows)
<1> DEFINE rows == in.rows
           n == Len(rows)
           s == [i \in DOMAIN rows |-> SegmentOf(in, rows[i])]
           m == Metrics(rows)
           v == [i \in DOMAIN s |-> s[i].revenue]
           w == [i \in DOMAIN m |-> m[i].revenue]
           o == Order(v)
           all == Ranked(s, LAMBDA x : x.revenue)
           ms == Ranked(m, LAMBDA x : x.revenue)
           labels == {"vip", "sleeping", "at_risk", "low_check", "debtor", "negative_margin"}
           totals == [k \in labels |-> CountBy(s, LAMBDA x : k \in x.labels)]
           share == OrDefault(in.params.vip, 20)
           threshold == VipThreshold(rows, share)
<1>1. rows \in Counterparties
  BY DEF Inputs
<1>22. share \in Int /\ share >= -100 /\ share = VipShare
  <2>1. in.params \in SegmentParams
    BY DEF Inputs
  <2>2. in.params.vip \in Int /\ in.params.vip >= -100
    BY <2>1, SalesAssumption
  <2>3. QED BY <2>2 DEF OrDefault, VipShare
<1>2. n \in Nat /\ DOMAIN rows = 1 .. n /\ IsFiniteSet(DOMAIN rows) /\ Cardinality(DOMAIN rows) = n
  <2>1. n \in Nat /\ DOMAIN rows = 1 .. n
    BY <1>1, MetricsFacts
  <2>2. 1 \in Int /\ n \in Int
    BY <2>1
  <2> HIDE DEF n, rows
  <2>3. QED BY <2>1, <2>2, FS_Interval
<1>3. /\ DOMAIN v = 1 .. n /\ DOMAIN w = 1 .. n /\ v = w
      /\ \A i \in 1 .. n : v[i] \in Int /\ m[i].revenue = v[i] /\ s[i].revenue = v[i]
  <2>1. \A i \in DOMAIN rows : Metric(rows[i]).revenue \in Int
    BY <1>1, MetricsFacts
  <2>2. \A i \in DOMAIN rows : s[i].revenue = Metric(rows[i]).revenue
    BY DEF SegmentOf
  <2>3. \A i \in DOMAIN rows : m[i].revenue = Metric(rows[i]).revenue
    BY DEF Metrics
  <2>4. DOMAIN m = DOMAIN rows /\ DOMAIN s = DOMAIN rows
    BY DEF Metrics
  <2>5. DOMAIN rows = 1 .. n
    BY <1>2
  <2> HIDE DEF n, rows, s, m
  <2>6. /\ v = [i \in 1 .. n |-> s[i].revenue] /\ w = [i \in 1 .. n |-> m[i].revenue]
        /\ \A i \in 1 .. n : s[i].revenue = m[i].revenue /\ s[i].revenue \in Int
    BY <2>1, <2>2, <2>3, <2>4, <2>5
  <2> HIDE DEF v, w
  <2>7. v = w
    BY <2>6
  <2>8. QED BY <2>6, <2>7
<1>4. SegmentReport(rows, Now, in.params, 0) = Report(totals, all, 0)
  BY DEF SegmentReport, SegmentOf
<1>5. all = [k \in DOMAIN Order(v) |-> s[Order(v)[k]]]
  BY DEF Ranked, RankedAt
<1>6. ms = [k \in DOMAIN Order(w) |-> m[Order(w)[k]]]
  BY DEF Ranked, RankedAt
<1>7. threshold = ms[VipIndex(Len(ms), share) + 1].revenue
  BY DEF VipThreshold
<1>8. \A k \in DOMAIN rows :
        /\ "vip" \in s[k].labels <=> s[k].revenue > 0 /\ s[k].revenue >= threshold
        /\ ~ {"sleeping", "at_risk"} \subseteq s[k].labels
  <2> SUFFICES ASSUME NEW k \in DOMAIN rows
               PROVE  /\ "vip" \in s[k].labels <=> s[k].revenue > 0 /\ s[k].revenue >= threshold
                      /\ ~ {"sleeping", "at_risk"} \subseteq s[k].labels
    OBVIOUS
  <2>1. /\ s[k].revenue = Metric(rows[k]).revenue
        /\ s[k].labels = Segments(Metric(rows[k]), threshold, Now, in.params)
    BY DEF SegmentOf
  <2> HIDE DEF s, threshold, rows
  <2>2. QED BY <2>1, LabelsAre
<1> HIDE DEF s, m, v, w, all, ms, totals, threshold, share, n, rows
<1>9. DOMAIN v \subseteq Nat /\ IsFiniteSet(DOMAIN v) /\ (\A i \in DOMAIN v : v[i] \in Int)
      /\ Cardinality(DOMAIN v) = n
  BY <1>2, <1>3
<1> DEFINE T == {s[i] : i \in DOMAIN v}
           U == {m[i] : i \in DOMAIN v}
<1>10. all \in Seq(T) /\ Len(all) = n
  <2>1. all \in Seq(T)
    BY <1>5, <1>9, RankedIs
  <2>2. Len(all) = Cardinality(DOMAIN v)
    BY <1>5, <1>9, RankedIs
  <2>3. QED BY <1>9, <2>1, <2>2
<1>11. ASSUME NEW k \in 1 .. n
       PROVE  o[k] \in 1 .. n /\ all[k] = s[o[k]]
  <2>1. k \in 1 .. Len(all)
    BY <1>10
  <2>2. Order(v)[k] \in DOMAIN v
    BY <1>5, <1>9, <2>1, RankedIs
  <2>3. all[k] = s[Order(v)[k]]
    BY <1>5, <1>9, <2>1, RankedIs
  <2>4. QED BY <1>3, <2>2, <2>3
<1>12. ms = [k \in DOMAIN Order(v) |-> m[Order(v)[k]]]
  BY <1>3, <1>6
<1>13. Len(ms) = n /\ \A k \in 1 .. n : ms[k] = m[o[k]]
  <2>1. Len(ms) = Cardinality(DOMAIN v)
    BY <1>9, <1>12, RankedIs
  <2>2. ASSUME NEW k \in 1 .. n PROVE ms[k] = m[o[k]]
    <3>1. k \in 1 .. Len(ms)
      BY <1>9, <2>1
    <3>2. ms[k] = m[Order(v)[k]]
      BY <1>9, <1>12, <3>1, RankedIs
    <3>3. QED BY <3>2
  <2>3. QED BY <1>9, <2>1, <2>2
<1>14. \A i, j \in 1 .. n : i < j => Before(v, o[i], o[j])
  BY <1>9, OrderFacts
<1> HIDE DEF o, T
<1> DEFINE r == [k \in 1 .. n |-> all[k].revenue]
<1>15. \A k \in 1 .. n : r[k] = v[o[k]] /\ r[k] \in Int
  BY <1>3, <1>11
<1>16. \A j, k \in 1 .. n : j < k => r[j] >= r[k]
  BY <1>11, <1>14, <1>15 DEF Before
<1>17. ASSUME NEW i \in 1 .. n
       PROVE  /\ "vip" \in all[i].labels <=> r[i] > 0 /\ r[i] >= threshold
              /\ threshold \in Int
              /\ r[i] > 0 /\ 100 * (Cardinality(Above(all, i)) + 1) <= share * n => "vip" \in all[i].labels
              /\ ~ {"sleeping", "at_risk"} \subseteq all[i].labels
  <2> DEFINE W == {k \in 1 .. n : r[k] > r[i]}
             c == Cardinality(W)
             x == VipIndex(n, share)
  <2>1. Cardinality(Above(all, i)) = c
    <3>1. DOMAIN all = 1 .. n
      BY <1>10
    <3>2. Above(all, i) = {k \in DOMAIN all : all[k].revenue > all[i].revenue}
      BY DEF Above, Where
    <3>3. {k \in DOMAIN all : all[k].revenue > all[i].revenue} = W
      BY <3>1
    <3>4. QED BY <3>2, <3>3
  <2>2. c \in 0 .. n - 1 /\ \A k \in 1 .. n : r[i] >= r[k] <=> k > c
    <3> HIDE DEF r
    <3>1. QED BY <1>2, <1>15, <1>16, RankAbove
  <2>3. x + 1 \in 1 .. n /\ x \in Int /\ (100 * (c + 1) <= share * n => c <= x)
    <3> HIDE DEF c, x
    <3>1. QED BY <1>2, <1>22, <2>2, VipIndexFacts DEF x
  <2>4. threshold = r[x + 1]
    <3>1. threshold = ms[x + 1].revenue
      BY <1>7, <1>13
    <3>2. x + 1 \in 1 .. n
      BY <2>3
    <3> HIDE DEF x
    <3>3. ms[x + 1] = m[o[x + 1]] /\ o[x + 1] \in 1 .. n
      BY <1>11, <1>13, <3>2
    <3>4. ms[x + 1].revenue = v[o[x + 1]]
      BY <1>3, <3>3
    <3>5. QED BY <1>15, <3>1, <3>2, <3>4
  <2>5. threshold \in Int /\ (c <= x => r[i] >= threshold)
    <3> HIDE DEF r, x, c
    <3>1. QED BY <1>15, <2>2, <2>3, <2>4
  <2>6. /\ "vip" \in all[i].labels <=> all[i].revenue > 0 /\ all[i].revenue >= threshold
        /\ ~ {"sleeping", "at_risk"} \subseteq all[i].labels
    <3>1. o[i] \in DOMAIN rows /\ all[i] = s[o[i]]
      BY <1>2, <1>11
    <3>2. QED BY <1>8, <3>1
  <2>7. all[i].revenue = r[i]
    OBVIOUS
  <2> HIDE DEF c, x, r
  <2>8. QED BY <2>1, <2>3, <2>5, <2>6, <2>7
<1>18. Report(totals, all, 0).rows = [k \in 1 .. n |-> all[k]]
  <2> DEFINE R == Report(totals, all, 0)
  <2>1. CutAt(n, 0) = n
    BY <1>2, CutAtFacts
  <2>2. R = [totals |-> totals, rowCount |-> n, returned |-> CutAt(n, 0),
             truncated |-> Truncated(all, 0), rows |-> [k \in 1 .. CutAt(n, 0) |-> all[k]]]
    BY SMTT(60), <1>10, ReportIs
  <2> HIDE DEF R
  <2>3. R.rows = [k \in 1 .. n |-> all[k]]
    BY <2>1, <2>2
  <2>4. QED BY <2>3 DEF R
<1>19. [k \in 1 .. n |-> all[k]] = all
  BY <1>10
<1>20. SegmentsFollow(all)
  <2>1. DOMAIN all = 1 .. n /\ Len(all) = n
    BY <1>10
  <2> SUFFICES ASSUME NEW i \in 1 .. n
               PROVE  /\ "vip" \in all[i].labels =>
                           /\ all[i].revenue > 0
                           /\ \A j \in 1 .. n : all[j].revenue >= all[i].revenue => "vip" \in all[j].labels
                      /\ all[i].revenue > 0 /\ 100 * (Cardinality(Above(all, i)) + 1) <= VipShare * Len(all)
                           => "vip" \in all[i].labels
                      /\ ~ {"sleeping", "at_risk"} \subseteq all[i].labels
    BY <2>1 DEF SegmentsFollow
  <2>2. \A k \in 1 .. n : all[k].revenue = r[k]
    OBVIOUS
  <2> HIDE DEF r
  <2>3. ASSUME "vip" \in all[i].labels
        PROVE  r[i] > 0 /\ \A j \in 1 .. n : r[j] >= r[i] => "vip" \in all[j].labels
    <3>1. r[i] > 0 /\ r[i] >= threshold /\ threshold \in Int /\ r[i] \in Int
      BY <1>15, <1>17, <2>3
    <3>2. ASSUME NEW j \in 1 .. n, r[j] >= r[i] PROVE "vip" \in all[j].labels
      <4>1. r[j] > 0 /\ r[j] >= threshold
        BY <1>15, <3>1, <3>2
      <4>2. QED BY <1>17, <4>1
    <3>3. QED BY <3>1, <3>2
  <2>4. QED BY <1>17, <1>22, <2>1, <2>2, <2>3
<1>21. QED BY <1>4, <1>18, <1>19, <1>20 DEF rows

\* The A, B and C of the products and the VIPs of the counterparties go by rank:
\* each class takes in all it may, and no more (Analytics.Abc, Analytics.SegmentReport).
THEOREM ClassesGoByRank == Spec => []ClassesFollowRank
<1>1. ASSUME Asked PROVE ClassesFollowRank
  <2>1. ASSUME Answered("abc") PROVE ClassesFull(Abc(input.rows))
    <3>1. input \in Inputs["abc"]
      BY <1>1, <2>1, AnswerIs
    <3>2. input.rows \in ValuePairs \cup MatrixPairs
      BY <3>1 DEF Inputs
    <3>3. QED BY <3>2, ClassesAreFull
  <2>2. ASSUME Answered("segments")
        PROVE  SegmentsFollow(SegmentReport(input.rows, Now, input.params, 0).rows)
    <3>1. input \in Inputs["segments"]
      BY <1>1, <2>2, AnswerIs
    <3>2. QED BY SMTT(30), <3>1, SegmentsFollowRank
  <2>3. QED BY <2>1, <2>2 DEF ClassesFollowRank
<1>2. QED BY <1>1, Invariance, PTL

-----------------------------------------------------------------------------
(* Figures.                                                                *)

\* The largest of three numbers.
LEMMA MaxOfThree ==
    ASSUME NEW a \in Int, NEW b \in Int, NEW c \in Int
    PROVE  /\ Max({a, b, c}) \in {a, b, c}
           /\ Max({a, b, c}) >= a /\ Max({a, b, c}) >= b /\ Max({a, b, c}) >= c
<1>1. \E x \in {a, b, c} : \A y \in {a, b, c} : x >= y
  <2>1. CASE a >= b /\ a >= c
    BY <2>1
  <2>2. CASE b >= a /\ b >= c
    BY <2>2
  <2>3. CASE c >= a /\ c >= b
    BY <2>3
  <2>4. QED BY <2>1, <2>2, <2>3
<1>2. QED BY <1>1 DEF Max

\* A tolerance is a number that is not below zero.
LEMMA ToleranceFacts ==
    ASSUME NEW n \in Int, NEW k \in Int
    PROVE  LET t == Tolerance(n, k)
           IN  /\ t \in {Unit, Distance(k, 0) \div 1000, Distance(n, 0) \div 1000}
               /\ t \in Int /\ t >= Unit
<1> DEFINE a == Distance(k, 0) \div 1000
           b == Distance(n, 0) \div 1000
<1>1. Unit \in Int
  BY UnitAssumption
<1>2. a \in Int /\ b \in Int
  BY DEF Distance
<1>3. Tolerance(n, k) = Max({Unit, a, b})
  BY DEF Tolerance
<1> HIDE DEF a, b
<1>4. Max({Unit, a, b}) \in {Unit, a, b} /\ Max({Unit, a, b}) >= Unit
  BY <1>1, <1>2, MaxOfThree
<1>5. QED BY <1>1, <1>2, <1>3, <1>4 DEF a, b

\* A slip in one of the first three digits of an amount of four or more is far from
\* it and no small number.
LEMMA SlipIsFar ==
    ASSUME NEW k \in Int, k >= 1000 * Unit, NEW v \in Slips(k)
    PROVE  v \in Int /\ v > 100 * Unit /\ Distance(v, k) > Tolerance(v, k)
<1> DEFINE From(w) == IF k < 10 * w THEN 1 .. 9 ELSE 0 .. 9
           Fit == {p \in Powers : p * Unit <= k /\ k < 1000 * p * Unit}
<1>22. PICK p \in Fit : v \in SlipsAt(k, p * Unit)
  BY DEF Slips
<1>1. p \in Powers /\ p * Unit <= k /\ k < 1000 * p * Unit
  OBVIOUS
<1> DEFINE u == p * Unit
           q == k \div u
           r == k - u * q
           digit == q % 10
           a == q - digit
<1>2. p \in Nat \ {0} /\ (p = 1 \/ p >= 10)
  BY <1>1 DEF Powers
<1>3. Unit \in Nat \ {0} /\ u \in Nat \ {0}
  BY <1>2, UnitAssumption
<1>4. k < 1000 * u
  BY <1>1, <1>2, <1>3
<1>23. v \in SlipsAt(k, u)
  BY <1>22
<1>24. PICK d \in From(u) : v = k + (d - digit) * u /\ v # k
  BY <1>23 DEF SlipsAt
<1>5. /\ d \in 0 .. 9 /\ v = k + (d - digit) * u /\ v # k
      /\ k < 10 * u => d >= 1
  <2> HIDE DEF u, digit
  <2>1. CASE k < 10 * u
    <3>1. d \in 1 .. 9
      BY <2>1
    <3>2. QED BY <1>24, <3>1
  <2>2. CASE ~ (k < 10 * u)
    <3>1. d \in 0 .. 9
      BY <2>2
    <3>2. QED BY <1>24, <2>2, <3>1
  <2>3. QED BY <2>1, <2>2
<1> HIDE DEF u
<1>6. q \in Int /\ u * q <= k /\ k < u * q + u
  BY <1>3, Division
<1> HIDE DEF q
<1>7. r \in 0 .. u - 1 /\ k = u * q + r
  <2>1. u * q \in Int
    BY <1>3, <1>6
  <2>2. QED BY <1>3, <1>6, <2>1
<1>8. q \in 0 .. 999
  <2>1. k >= 0
    BY <1>3
  <2>2. ASSUME q < 0 PROVE FALSE
    <3>1. u * q <= - u
      BY <1>3, <1>6, <2>2
    <3>2. QED BY <1>3, <1>6, <2>1, <3>1
  <2>3. ASSUME q >= 1000 PROVE FALSE
    <3>1. u * q >= 1000 * u
      BY <1>3, <1>6, <2>3
    <3>2. QED BY <1>3, <1>4, <1>6, <3>1
  <2>4. QED BY <1>6, <2>2, <2>3
<1>9. digit \in 0 .. 9 /\ a \in 0 .. 990
  BY <1>8
<1>10. q = a + digit /\ q \in Int
  BY <1>8, <1>9
<1>18. a \in {10 * i : i \in 0 .. 99}
  BY <1>8
<1> HIDE DEF r, digit, a
<1>11. v = (a + d) * u + r
  <2>1. v = (u * (a + digit) + r) + (d - digit) * u
    BY <1>5, <1>7, <1>10
  <2>2. u * (a + digit) + (d - digit) * u = (a + d) * u
    BY <1>3, <1>9
  <2>3. r \in Int /\ u * (a + digit) \in Int /\ (d - digit) * u \in Int
    BY <1>3, <1>7, <1>9
  <2>4. QED BY <2>1, <2>2, <2>3
<1>12. (a + d) * u \in Nat /\ (a + d) * u <= 999 * u /\ (a + d) \in 0 .. 999
  <2>1. a + d \in 0 .. 999
    BY <1>9
  <2> DEFINE e == a + d
  <2>2. e * u \in Nat /\ e * u <= 999 * u
    <3> HIDE DEF e
    <3>1. e \in 0 .. 999
      BY <2>1 DEF e
    <3>2. QED BY <1>3, <3>1
  <2>3. QED BY <2>1, <2>2
<1>13. v \in Int /\ v >= 0 /\ v < 1000 * u
  BY <1>3, <1>7, <1>11, <1>12
<1>14. Distance(v, k) >= u
  <2>1. d # digit
    <3>1. ASSUME d = digit PROVE FALSE
      <4>1. (d - digit) * u = 0
        BY <1>3, <1>9, <3>1
      <4>2. QED BY <1>5, <4>1
    <3>2. QED BY <3>1
  <2>2. CASE d > digit
    <3>1. (d - digit) * u >= u
      BY <1>3, <1>9, <2>2
    <3>2. (d - digit) * u \in Int
      BY <1>3, <1>9
    <3>3. QED BY <1>3, <1>5, <3>1, <3>2 DEF Distance
  <2>3. CASE d < digit
    <3>1. (d - digit) * u <= - u
      BY <1>3, <1>9, <2>3
    <3>2. (d - digit) * u \in Int
      BY <1>3, <1>9
    <3>3. QED BY <1>3, <1>5, <3>1, <3>2 DEF Distance
  <2>4. QED BY <1>9, <2>1, <2>2, <2>3
<1>15. u > Unit
  <2>1. p # 1
    BY <1>1, <1>3
  <2>2. QED BY <1>2, <1>3, <2>1 DEF u
<1>16. Tolerance(v, k) < u
  <2> DEFINE t == Tolerance(v, k)
             x == k \div 1000
             y == v \div 1000
  <2>1. Distance(k, 0) = k /\ Distance(v, 0) = v
    BY <1>3, <1>13 DEF Distance
  <2>2. t \in {Unit, x, y}
    <3>1. v \in Int /\ k \in Int
      BY <1>13
    <3>2. Tolerance(v, k) \in {Unit, Distance(k, 0) \div 1000, Distance(v, 0) \div 1000}
      BY <3>1, ToleranceFacts
    <3>3. QED BY <2>1, <3>2
  <2>3. x < u
    BY <1>3, <1>4
  <2>4. y < u
    BY <1>3, <1>13
  <2> HIDE DEF x, y, t
  <2>5. t < u
    BY <1>15, <2>2, <2>3, <2>4
  <2>6. QED BY <2>5 DEF t
<1>17. v > 100 * Unit
  <2>1. CASE k < 10 * u
    <3>1. a + d >= 1
      BY <1>5, <1>9, <2>1
    <3>2. (a + d) * u >= u
      BY <1>3, <1>12, <3>1
    <3>3. u > 100 * Unit
      BY <1>3, <2>1
    <3>4. QED BY <1>3, <1>7, <1>11, <1>12, <3>2, <3>3
  <2>2. CASE k >= 10 * u
    <3>1. a >= 10
      <4>1. ASSUME a < 10 PROVE FALSE
        <5>1. a = 0
          BY <1>18, <4>1
        <5>2. q <= 9
          BY <1>9, <1>10, <5>1
        <5>3. u * q <= 9 * u
          BY <1>3, <1>8, <5>2
        <5>4. u * q \in Int
          BY <1>3, <1>8
        <5>5. QED BY <1>3, <1>6, <2>2, <5>3, <5>4
      <4>2. QED BY <1>9, <4>1
    <3> DEFINE au == a * u
    <3>2. au \in Nat /\ au >= 10 * u
      BY <1>3, <1>9, <3>1
    <3>3. k < au + 10 * u
      <4>1. u * q = au + digit * u
        BY <1>3, <1>9, <1>10
      <4>2. digit * u <= 9 * u /\ digit * u \in Int
        BY <1>3, <1>9
      <4> HIDE DEF au
      <4>3. QED BY <1>3, <1>6, <3>2, <4>1, <4>2
    <3>4. (a + d) * u >= au
      <4>1. (a + d) * u = au + d * u /\ d * u \in Nat
        BY <1>3, <1>9
      <4> HIDE DEF au
      <4>2. QED BY <3>2, <4>1
    <3> HIDE DEF au
    <3>5. QED BY <1>3, <1>7, <1>11, <1>12, <3>2, <3>3, <3>4
  <2>3. QED BY <1>3, <2>1, <2>2
<1>19. Distance(v, k) \in Int /\ Tolerance(v, k) \in Int
  BY <1>13, ToleranceFacts DEF Distance
<1>20. QED BY <1>3, <1>13, <1>14, <1>16, <1>17, <1>19

\* So is a distance.
LEMMA DistanceFacts ==
    ASSUME NEW a \in Int, NEW b \in Int
    PROVE  Distance(a, b) \in Nat /\ Distance(a, b) >= a - b /\ Distance(a, b) >= b - a
BY DEF Distance

\* What is farther than two in a hundred is not a match.
LEMMA FarIsFar ==
    ASSUME NEW v \in Int, v > 0, NEW k \in Int,
           Distance(v, k) * 50 > Max({v, k, 50 * Unit})
    PROVE  Distance(v, k) > Tolerance(v, k)
<1> DEFINE D == Distance(v, k)
           t == Tolerance(v, k)
           x == Distance(k, 0) \div 1000
           y == Distance(v, 0) \div 1000
           w == 50 * Unit
<1>1. Unit \in Nat \ {0} /\ w \in Int
  BY UnitAssumption
<1>2. D \in Nat /\ D >= v - k
  BY DistanceFacts
<1>3. D * 50 > v /\ D * 50 > k /\ D * 50 > w
  <2> DEFINE m == Max({v, k, w})
  <2>1. m >= v /\ m >= k /\ m >= w /\ m \in Int
    <3> HIDE DEF w
    <3>1. m \in {v, k, w} /\ m >= v /\ m >= k /\ m >= w
      BY <1>1, MaxOfThree
    <3> HIDE DEF m
    <3>2. QED BY <1>1, <3>1
  <2>2. D * 50 > m
    OBVIOUS
  <2> HIDE DEF m, D, w
  <2>3. QED BY <1>1, <1>2, <2>1, <2>2
<1>4. t \in {Unit, x, y}
  BY ToleranceFacts
<1>5. x < D
  <2>1. CASE k >= 0
    <3>1. Distance(k, 0) = k
      BY <2>1 DEF Distance
    <3> HIDE DEF D, w
    <3>2. QED BY <1>2, <1>3, <3>1
  <2>2. CASE k < 0
    <3>1. Distance(k, 0) = - k
      BY <2>2 DEF Distance
    <3> HIDE DEF D, w
    <3>2. QED BY <1>2, <2>2, <3>1
  <2>3. QED BY <2>1, <2>2
<1>6. y < D
  <2>1. Distance(v, 0) = v
    BY DEF Distance
  <2> HIDE DEF D, w
  <2>2. QED BY <1>2, <1>3, <2>1
<1>7. Unit < D
  <2> HIDE DEF D
  <2>1. QED BY <1>1, <1>2, <1>3
<1> HIDE DEF D, t, x, y
<1>8. t < D
  BY <1>4, <1>5, <1>6, <1>7
<1>9. QED BY <1>1, <1>2, <1>8, ToleranceFacts DEF D, t

\* A slip of one digit in a figure is reported and a figure as it was returned is not:
\* the tolerance is less than any digit among the first three (Grounding.Matches).
THEOREM SlipsAreSeen == Spec => []SlipSeen
<1>1. ASSUME Asked PROVE SlipSeen
  <2> DEFINE known == KnownNumbers(input.outputs, input.message)
             Far(v, k) == Distance(v, k) * 50 > Max({v, k, 50 * Unit})
  <2> SUFFICES ASSUME Answered("ground"), NEW f \in input.figures
               PROVE  /\ f.value \in known => f \notin answer.unexplained
                      /\ \A k \in known :
                            /\ k >= 1000 * Unit /\ f.value \in Slips(k)
                            /\ f.style = "grouped" \/ f.value \notin 1900 * Unit .. 2099 * Unit
                            /\ \A other \in known \ {k} : Far(f.value, other)
                            => f \in answer.unexplained
    BY DEF SlipSeen, SlipsReported
  <2>1. tool = "ground" /\ input \in Inputs["ground"]
        /\ answer = Answer("ground", input, ClampLimit(limit))
    BY <1>1, AnswerIs
  <2>2. answer = CheckAnswer(input.figures, known)
    BY <2>1 DEF Answer, TurnStep
  <2>3. f \in answer.unexplained <=> Significant(f) /\ ~ Matches(f.value, known)
    <3> HIDE DEF known
    <3>1. answer.unexplained
            = {g \in {h \in input.figures : Significant(h)} : ~ Matches(g.value, known)}
      BY <2>2 DEF CheckAnswer
    <3>2. QED BY <3>1
  <2>4. f.value \in Int /\ known \subseteq Int
    <3>1. input.figures \in Figures /\ input.outputs \in Outputs /\ input.message \in UserFigures
      BY <2>1 DEF Inputs
    <3>2. f.value \in Int
      BY <3>1, TurnAssumption
    <3>3. \A numbers \in input.outputs : numbers \subseteq Int
      BY <3>1, TurnAssumption
    <3>4. input.message \subseteq Int
      BY <3>1, TurnAssumption
    <3>5. QED BY <3>2, <3>3, <3>4 DEF KnownNumbers
  <2> HIDE DEF known
  <2>5. ASSUME f.value \in known PROVE f \notin answer.unexplained
    <3>1. Distance(f.value, f.value) = 0
      BY <2>4 DEF Distance
    <3>2. Tolerance(f.value, f.value) \in Int /\ Tolerance(f.value, f.value) >= Unit
      <4> DEFINE v == f.value
      <4>1. v \in Int
        BY <2>4
      <4> HIDE DEF v
      <4>2. Tolerance(v, v) \in Int /\ Tolerance(v, v) >= Unit
        BY <4>1, ToleranceFacts
      <4>3. QED BY <4>2 DEF v
    <3>3. Distance(f.value, f.value) <= Tolerance(f.value, f.value)
      BY <3>1, <3>2, UnitAssumption
    <3>4. Matches(f.value, known)
      BY <2>5, <3>3 DEF Matches
    <3>5. QED BY <2>3, <3>4
  <2>6. ASSUME NEW k \in known, k >= 1000 * Unit, f.value \in Slips(k),
               f.style = "grouped" \/ f.value \notin 1900 * Unit .. 2099 * Unit,
               \A other \in known \ {k} : Far(f.value, other)
        PROVE  f \in answer.unexplained
    <3> DEFINE v == f.value
    <3>1. k \in Int /\ v \in Int /\ Unit \in Nat \ {0}
      BY <2>4, UnitAssumption
    <3>2. v > 100 * Unit /\ Distance(v, k) > Tolerance(v, k)
      BY <2>6, <3>1, SlipIsFar
    <3>3. Significant(f)
      <4>1. CASE f.style = "grouped"
        BY <4>1 DEF Significant
      <4>2. CASE f.value \notin 1900 * Unit .. 2099 * Unit
        <5>1. ~ (1900 * Unit <= f.value /\ f.value <= 2099 * Unit)
          BY <3>1, <4>2
        <5>2. Distance(f.value, 0) >= 100 * Unit
          BY <3>1, <3>2 DEF Distance
        <5>3. QED BY <5>1, <5>2 DEF Significant
      <4>3. QED BY <2>6, <4>1, <4>2
    <3>4. ASSUME NEW other \in known PROVE ~ (Distance(v, other) <= Tolerance(v, other))
      <4>1. other \in Int /\ Distance(v, other) \in Int /\ Tolerance(v, other) \in Int
        <5>1. other \in Int
          BY <2>4
        <5> HIDE DEF v
        <5>2. Tolerance(v, other) \in Int
          BY <3>1, <5>1, ToleranceFacts
        <5>3. Distance(v, other) \in Int
          BY <3>1, <5>1, DistanceFacts
        <5>4. QED BY <5>1, <5>2, <5>3
      <4>2. CASE other = k
        BY <3>2, <4>1, <4>2
      <4>3. CASE other # k
        <5>1. Distance(v, other) * 50 > Max({v, other, 50 * Unit})
          BY <2>6, <4>3
        <5>2. v > 0
          BY <3>1, <3>2
        <5>3. Distance(v, other) > Tolerance(v, other)
          BY <3>1, <4>1, <5>1, <5>2, FarIsFar
        <5>4. QED BY <4>1, <5>3
      <4>4. QED BY <4>2, <4>3
    <3>5. ~ Matches(v, known)
      BY <3>4 DEF Matches
    <3>6. QED BY <2>3, <3>3, <3>5
  <2>7. QED BY <2>5, <2>6
<1>2. QED BY <1>1, Invariance, PTL

-----------------------------------------------------------------------------
(* Sums of ranked, joined and grouped rows.                                *)

\* Ranking does not change a sum.
LEMMA SumRanked ==
    ASSUME NEW v, DOMAIN v \subseteq Nat, IsFiniteSet(DOMAIN v), \A i \in DOMAIN v : v[i] \in Int,
           NEW f, \A i \in DOMAIN v : f[i] \in Int,
           NEW g, \A k \in 1 .. Cardinality(DOMAIN v) : g[k] = f[Order(v)[k]]
    PROVE  SumFunctionOnSet(g, 1 .. Cardinality(DOMAIN v)) = SumFunctionOnSet(f, DOMAIN v)
<1> DEFINE D == DOMAIN v
           c == Cardinality(D)
           N == 1 .. c
           o == Order(v)
<1>1. /\ c \in Nat /\ \A k \in N : o[k] \in D
      /\ \A i \in D : \E k \in N : o[k] = i
      /\ \A i, j \in N : o[i] = o[j] => i = j
  BY OrderFacts
<1>2. IsFiniteSet(N)
  <2>1. 1 \in Int /\ c \in Int
    BY <1>1
  <2> HIDE DEF c
  <2>2. QED BY <2>1, FS_Interval
<1>3. (\A i \in D : f[i] \in Int) /\ \A k \in N : g[k] = f[o[k]]
  OBVIOUS
<1> HIDE DEF D, N, o
<1>4. SumFunctionOnSet(g, N) = SumFunctionOnSet(f, D)
  BY <1>1, <1>2, <1>3, SumRename
<1>5. QED BY <1>4 DEF D, N

\* Lists that are put together add up.
LEMMA SumJoined ==
    ASSUME NEW m \in Nat, NEW n \in Nat, NEW l, l = m + n, NEW f, NEW g, NEW h,
           \A i \in 1 .. m : f[i] \in Int /\ h[i] = f[i],
           \A i \in 1 .. n : g[i] \in Int /\ h[m + i] = g[i]
    PROVE  SumFunctionOnSet(h, 1 .. l) = SumFunctionOnSet(f, 1 .. m) + SumFunctionOnSet(g, 1 .. n)
<1> DEFINE A == 1 .. m
           B == m + 1 .. m + n
           N == 1 .. n
           b == [i \in N |-> m + i]
<1>1. IsFiniteSet(A) /\ IsFiniteSet(N) /\ IsFiniteSet(B)
  <2>1. 1 \in Int /\ m \in Int /\ n \in Int /\ m + 1 \in Int /\ m + n \in Int
    OBVIOUS
  <2>2. QED BY <2>1, FS_Interval
<1>2. A \cap B = {} /\ A \cup B = 1 .. m + n
  OBVIOUS
<1>3. \A i \in B : i - m \in N /\ i = m + (i - m)
  OBVIOUS
<1>4. (\A i \in A : h[i] \in Int /\ f[i] = h[i]) /\ \A i \in B : h[i] \in Int
  <2>1. \A i \in A : h[i] \in Int /\ f[i] = h[i]
    OBVIOUS
  <2>2. ASSUME NEW i \in B PROVE h[i] \in Int
    <3>1. h[m + (i - m)] = g[i - m] /\ g[i - m] \in Int
      BY <1>3
    <3>2. QED BY <1>3, <3>1
  <2>3. QED BY <2>1, <2>2
<1>5. /\ \A i \in N : b[i] \in B
      /\ \A i, j \in N : b[i] = b[j] => i = j
      /\ \A i \in B : \E j \in N : b[j] = i
      /\ \A i \in N : g[i] = h[b[i]]
  <2>1. \A i \in B : b[i - m] = i /\ i - m \in N
    BY <1>3
  <2>2. (\A i \in N : b[i] \in B) /\ (\A i, j \in N : b[i] = b[j] => i = j)
    OBVIOUS
  <2>3. \A i \in N : g[i] = h[b[i]]
    OBVIOUS
  <2> HIDE DEF b
  <2>4. QED BY <2>1, <2>2, <2>3
<1> HIDE DEF A, B, N, b
<1>6. SumFunctionOnSet(g, N) = SumFunctionOnSet(h, B)
  BY <1>1, <1>4, <1>5, SumRename
<1>7. SumFunctionOnSet(f, A) = SumFunctionOnSet(h, A)
  BY <1>1, <1>4, SumEqual
<1>8. SumFunctionOnSet(h, A \cup B) = SumFunctionOnSet(h, A) + SumFunctionOnSet(h, B)
  BY <1>1, <1>2, <1>4, SumUnion
<1>9. QED BY <1>2, <1>6, <1>7, <1>8 DEF A, N

\* The places where keys first came.
FirstPlaces(key) == {i \in DOMAIN key : ~ \E j \in 1 .. i - 1 : key[j] = key[i]}

\* Each key has one such place.
LEMMA FirstsFacts ==
    ASSUME NEW n \in Nat, NEW key, DOMAIN key = 1 .. n
    PROVE  /\ IsFiniteSet(FirstPlaces(key)) /\ FirstPlaces(key) \subseteq 1 .. n
           /\ \A i, j \in FirstPlaces(key) : key[i] = key[j] => i = j
           /\ \A i \in 1 .. n : \E j \in FirstPlaces(key) : key[j] = key[i]
<1> DEFINE F == FirstPlaces(key)
           N == 1 .. n
<1>1. F \subseteq N /\ \A i \in N : i \in F <=> ~ \E j \in 1 .. i - 1 : key[j] = key[i]
  BY DEF FirstPlaces
<1> HIDE DEF F
<1>2. IsFiniteSet(F)
  <2>1. 1 \in Int /\ n \in Int
    OBVIOUS
  <2>2. IsFiniteSet(N)
    BY <2>1, FS_Interval
  <2> HIDE DEF N
  <2>3. QED BY <1>1, <2>2, FS_Subset
<1>3. \A i, j \in F : key[i] = key[j] => i = j
  <2> SUFFICES ASSUME NEW i \in F, NEW j \in F, key[i] = key[j] PROVE i = j
    OBVIOUS
  <2>1. i \in N /\ j \in N
    BY <1>1
  <2>2. ~ (i < j) /\ ~ (j < i)
    <3>1. i < j => i \in 1 .. j - 1
      BY <2>1
    <3>2. j < i => j \in 1 .. i - 1
      BY <2>1
    <3>3. QED BY <1>1, <2>1, <3>1, <3>2
  <2>3. QED BY <2>1, <2>2
<1>4. ASSUME NEW x \in N PROVE \E j \in F : key[j] = key[x]
  <2> DEFINE S == {i \in N : key[i] = key[x]}
  <2>1. S \in SUBSET Nat /\ S # {}
    OBVIOUS
  <2>2. PICK m \in S : \A i \in S : m <= i
    <3> HIDE DEF S
    <3>1. QED BY <2>1, Minimum
  <2>3. m \in N /\ key[m] = key[x]
    OBVIOUS
  <2>4. ASSUME NEW j \in 1 .. m - 1 PROVE key[j] # key[m]
    <3>1. j \in N /\ j < m
      BY <2>3
    <3>2. j \notin S
      BY <2>2, <2>3, <3>1
    <3>3. QED BY <2>3, <3>1, <3>2
  <2>5. m \in F
    BY <1>1, <2>3, <2>4
  <2>6. QED BY <2>3, <2>5
<1>5. QED BY <1>1, <1>2, <1>3, <1>4 DEF F

\* What is added up for each of the keys there are is all there is.
LEMMA SumKeyed ==
    ASSUME NEW A, IsFiniteSet(A), NEW f, NEW c, DOMAIN c = A, \A x \in A : f[x] \in Int,
           NEW F, IsFiniteSet(F), NEW key,
           \A x \in A : \E i \in F : key[i] = c[x],
           \A i, j \in F : key[i] = key[j] => i = j,
           NEW g, NEW P, DOMAIN P = F,
           \A i \in F : /\ P[i] \subseteq A /\ (\A x \in A : x \in P[i] <=> c[x] = key[i])
                        /\ g[i] = SumFunctionOnSet(f, P[i])
    PROVE  SumFunctionOnSet(g, F) = SumFunctionOnSet(f, A)
<1> DEFINE first == [x \in A |-> CHOOSE i \in F : key[i] = c[x]]
<1>1. \A x \in A : first[x] \in F /\ key[first[x]] = c[x]
  OBVIOUS
<1>2. ASSUME NEW i \in F
      PROVE  P[i] \subseteq A /\ \A x \in A : x \in P[i] <=> first[x] = i
  <2>1. \A x \in A : c[x] = key[i] => first[x] = i
    BY <1>1
  <2>2. \A x \in A : first[x] = i => c[x] = key[i]
    BY <1>1
  <2> HIDE DEF first
  <2>3. P[i] \subseteq A /\ \A x \in A : x \in P[i] <=> c[x] = key[i]
    OBVIOUS
  <2>4. QED BY <2>1, <2>2, <2>3
<1>3. /\ DOMAIN first = A /\ DOMAIN P = F
      /\ \A x \in A : first[x] \in F /\ f[x] \in Int
  BY <1>1
<1> HIDE DEF first
<1>4. \A i \in F : P[i] \subseteq A /\ (\A x \in A : x \in P[i] <=> first[x] = i)
                   /\ g[i] = SumFunctionOnSet(f, P[i])
  BY <1>2
<1>5. QED BY <1>3, <1>4, SumParts

\* Whole minor units add up to whole ones.
LEMMA WholeSums ==
    /\ \A x, y \in Int : WholeCents(x) /\ WholeCents(y) => WholeCents(x + y) /\ WholeCents(x - y)
    /\ WholeCents(0)
<1>1. Cent \in Int
  BY UnitsAssumption
<1>2. ASSUME NEW x \in Int, NEW y \in Int, WholeCents(x), WholeCents(y)
      PROVE  WholeCents(x + y) /\ WholeCents(x - y)
  <2>1. PICK p \in Int : x = p * Cent
    BY <1>2 DEF WholeCents
  <2>2. PICK q \in Int : y = q * Cent
    BY <1>2 DEF WholeCents
  <2>3. x + y = (p + q) * Cent /\ x - y = (p - q) * Cent
    BY <1>1, <2>1, <2>2
  <2>4. p + q \in Int /\ p - q \in Int
    OBVIOUS
  <2>5. QED BY <2>3, <2>4 DEF WholeCents
<1>3. 0 \in Int /\ 0 = 0 * Cent
  BY <1>1
<1>4. WholeCents(0)
  BY <1>3 DEF WholeCents
<1>5. QED BY <1>2, <1>4

\* So do they rounded.
LEMMA SumWhole ==
    ASSUME NEW f, NEW A, IsFiniteSet(A), \A x \in A : f[x] \in Int /\ WholeCents(f[x])
    PROVE  SumFunctionOnSet(f, A) \in Int /\ WholeCents(SumFunctionOnSet(f, A))
<1> DEFINE K == {B \in SUBSET A : WholeCents(SumFunctionOnSet(f, B))}
<1>1. ASSUME NEW B \in SUBSET A, \A y \in B : B \ {y} \in K PROVE B \in K
  <2>1. CASE B = {}
    <3>1. WholeCents(SumFunctionOnSet(f, B))
      BY <2>1, SumEmpty, WholeSums
    <3>2. QED BY <3>1
  <2>2. CASE B # {}
    <3>1. PICK y \in B : TRUE
      BY <2>2
    <3> DEFINE S(C) == SumFunctionOnSet(f, C)
    <3>2. IsFiniteSet(B) /\ IsFiniteSet(B \ {y})
      BY FS_Subset
    <3>3. S(B) = f[y] + S(B \ {y})
      BY <3>2, SumRemove
    <3>4. S(B \ {y}) \in Int
      BY <3>2, SumType
    <3>5. WholeCents(S(B \ {y}))
      BY <1>1
    <3> HIDE DEF S
    <3>6. WholeCents(S(B))
      BY <3>3, <3>4, <3>5, WholeSums
    <3>7. QED BY <3>6 DEF S
  <2>3. QED BY <2>1, <2>2
<1> HIDE DEF K
<1>2. A \in K
  BY <1>1, Subsets
<1>3. SumFunctionOnSet(f, A) \in Int
  BY SumType
<1>4. QED BY <1>2, <1>3 DEF K

-----------------------------------------------------------------------------
(* Aging.                                                                  *)

\* The buckets of the aging add up.
LEMMA AgingParts ==
    ASSUME Asked, Answered("aging")
    PROVE  AgingAddsUp
<1> DEFINE s == [i \in DOMAIN input.rows |-> InvoiceItem(input.rows[i])]
           owed == Where(s, LAMBDA x : x.outstanding > 0)
           v == [i \in owed |-> s[i].days]
           rows == RankedAt(owed, s, LAMBDA x : x.days)
           In(b) == {i \in owed : BucketIndex(s[i].days) = b}
           amount == [i \in owed |-> s[i].outstanding]
           late == [i \in owed |-> IF s[i].days > 0 THEN s[i].outstanding ELSE 0]
           outstanding == SumAt(owed, s, LAMBDA x : x.outstanding)
           overdue == SumAt(owed, s, LAMBDA x : IF x.days > 0 THEN x.outstanding ELSE 0)
           bins == [b \in 0 .. 4 |-> [count |-> Cardinality(In(b)),
                                         amount |-> SumAt(In(b), s, LAMBDA x : x.outstanding)]]
           totals == [outstanding |-> outstanding, overdue |-> overdue, buckets |-> bins]
           l == ClampLimit(limit)
           class == [i \in owed |-> BucketIndex(s[i].days)]
           P == [b \in 0 .. 4 |-> In(b)]
           T == {s[i] : i \in owed}
<1>1. tool = "aging" /\ input \in Inputs["aging"] /\ answer = Answer("aging", input, l)
  BY AnswerIs
<1>2. input.rows \in Invoices
  BY <1>1 DEF Inputs
<1>3. answer = Report(totals, rows, l)
  BY <1>1 DEF Answer, AnalyticsTool, Aging, InvoiceItem
<1>4. l \in 1 .. MaxLimit /\ l \in Nat
  BY LimitIs, LimitsAssumption DEF Asked
<1>5. /\ DOMAIN s \subseteq Nat /\ IsFiniteSet(DOMAIN s)
      /\ \A i \in DOMAIN s : s[i].days \in Int /\ s[i].outstanding \in Int
  BY <1>2, InvoicesFacts
<1>6. owed \subseteq DOMAIN s
  BY DEF Where
<1>7. owed \subseteq Nat /\ IsFiniteSet(owed) /\ \A i \in owed : s[i].days \in Int /\ s[i].outstanding \in Int
  <2> HIDE DEF s, owed
  <2>1. QED BY <1>5, <1>6, FS_Subset
<1>8. rows = [k \in DOMAIN Order(v) |-> s[Order(v)[k]]]
  BY DEF RankedAt
<1>9. /\ \A b \in 0 .. 4 : In(b) \subseteq owed /\ (\A i \in owed : i \in In(b) <=> class[i] = b)
      /\ \A i \in owed : class[i] \in 0 .. 4 /\ (class[i] = 0 <=> s[i].days <= 0)
  <2>1. ASSUME NEW b \in 0 .. 4 PROVE In(b) \subseteq owed
    <3> HIDE DEF owed, s
    <3>1. QED OBVIOUS
  <2>2. ASSUME NEW b \in 0 .. 4, NEW i \in owed PROVE i \in In(b) <=> class[i] = b
    <3> HIDE DEF owed, s
    <3>1. QED OBVIOUS
  <2>3. ASSUME NEW i \in owed PROVE class[i] \in 0 .. 4 /\ (class[i] = 0 <=> s[i].days <= 0)
    <3> HIDE DEF owed, s
    <3>1. QED BY <1>7 DEF BucketIndex
  <2> HIDE DEF owed, s, In, class
  <2>4. QED BY <2>1, <2>2, <2>3
<1>10. outstanding = SumFunctionOnSet(amount, owed) /\ overdue = SumFunctionOnSet(late, owed)
  BY DEF SumAt, SumFunction
<1>11. ASSUME NEW b \in 0 .. 4
       PROVE  /\ bins[b].count = Cardinality(In(b))
              /\ bins[b].amount = SumFunctionOnSet(amount, In(b))
  <2> DEFINE f == [i \in In(b) |-> s[i].outstanding]
  <2>1. bins[b].count = Cardinality(In(b))
    OBVIOUS
  <2>2. bins[b].amount = SumFunctionOnSet(f, In(b))
    BY DEF SumAt, SumFunction
  <2>3. In(b) \subseteq owed /\ \A i \in In(b) : f[i] = amount[i]
    <3> HIDE DEF owed, s
    <3>1. QED OBVIOUS
  <2> HIDE DEF f, amount, In, owed, bins
  <2>4. IsFiniteSet(In(b))
    BY <1>7, <2>3, FS_Subset
  <2> DEFINE B == In(b)
  <2>5. IsFiniteSet(B) /\ \A i \in B : f[i] = amount[i]
    BY <2>3, <2>4
  <2>6. SumFunctionOnSet(f, B) = SumFunctionOnSet(amount, B)
    <3> HIDE DEF B
    <3>1. QED BY <2>5, SumEqual
  <2>7. QED BY <2>1, <2>2, <2>6
<1>12. \A b \in 0 .. 4 : P[b] = In(b)
  OBVIOUS
<1>13. DOMAIN class = owed /\ DOMAIN P = 0 .. 4 /\ DOMAIN v = owed /\ \A i \in owed : v[i] = s[i].days
  OBVIOUS
<1>14. \A i \in owed : amount[i] = s[i].outstanding /\ late[i] = IF s[i].days > 0 THEN s[i].outstanding ELSE 0
  OBVIOUS
<1>15. IsFiniteSet(0 .. 4)
  <2>1. 0 \in Int /\ 4 \in Int
    OBVIOUS
  <2>2. QED BY <2>1, FS_Interval
<1> HIDE DEF s, owed, v, rows, In, amount, late, outstanding, overdue, bins, l, class, P
<1> DEFINE counts == [b \in 0 .. 4 |-> bins[b].count]
           amounts == [b \in 0 .. 4 |-> bins[b].amount]
           ones == [i \in owed |-> 1]
           C == 0 .. 4
<1>16. SumFunctionOnSet(amounts, C) = outstanding
  <2>1. \A b \in C : P[b] \subseteq owed /\ (\A i \in owed : i \in P[b] <=> class[i] = b)
                     /\ amounts[b] = SumFunctionOnSet(amount, P[b])
    BY <1>9, <1>11, <1>12
  <2>2. \A i \in owed : class[i] \in C /\ amount[i] \in Int
    BY <1>7, <1>9, <1>14
  <2>3. IsFiniteSet(C) /\ IsFiniteSet(owed) /\ DOMAIN P = C /\ DOMAIN class = owed
    BY <1>7, <1>13, <1>15
  <2> HIDE DEF amounts, C
  <2>4. SumFunctionOnSet(amounts, C) = SumFunctionOnSet(amount, owed)
    BY <2>1, <2>2, <2>3, SumParts
  <2>5. QED BY <1>10, <2>4
<1>17. SumFunctionOnSet(counts, C) = Cardinality(owed)
  <2>1. ASSUME NEW b \in C PROVE counts[b] = SumFunctionOnSet(ones, P[b])
    <3> DEFINE B == P[b]
    <3>1. B \subseteq owed /\ counts[b] = Cardinality(B)
      BY <1>9, <1>11, <1>12
    <3>2. \A i \in B : ones[i] = 1
      BY <3>1
    <3> HIDE DEF B, ones, counts
    <3>3. IsFiniteSet(B)
      BY <1>7, <3>1, FS_Subset
    <3>4. SumFunctionOnSet(ones, B) = Cardinality(B)
      BY <3>2, <3>3, SumOnes
    <3>5. QED BY <3>1, <3>4 DEF B
  <2>2. \A b \in C : P[b] \subseteq owed /\ (\A i \in owed : i \in P[b] <=> class[i] = b)
                     /\ counts[b] = SumFunctionOnSet(ones, P[b])
    BY <1>9, <1>12, <2>1
  <2>3. (\A i \in owed : class[i] \in C /\ ones[i] \in Int) /\ \A i \in owed : ones[i] = 1
    BY <1>9
  <2>4. IsFiniteSet(C) /\ IsFiniteSet(owed) /\ DOMAIN P = C /\ DOMAIN class = owed
    BY <1>7, <1>13, <1>15
  <2> HIDE DEF counts, C, ones
  <2>5. SumFunctionOnSet(counts, C) = SumFunctionOnSet(ones, owed)
    BY <2>2, <2>3, <2>4, SumParts
  <2>6. SumFunctionOnSet(ones, owed) = Cardinality(owed)
    BY <1>7, <2>3, SumOnes
  <2>7. QED BY <2>5, <2>6
<1>18. overdue = outstanding - bins[0].amount
  <2> DEFINE B == In(0)
             R == owed \ In(0)
  <2>1. /\ IsFiniteSet(B) /\ IsFiniteSet(R) /\ B \cap R = {} /\ B \cup R = owed
        /\ \A i \in B \cup R : amount[i] \in Int /\ late[i] \in Int
    <3>1. B \subseteq owed /\ R \subseteq owed
      BY <1>9
    <3>2. IsFiniteSet(B) /\ IsFiniteSet(R)
      <4> HIDE DEF B, R
      <4>1. QED BY <1>7, <3>1, FS_Subset
    <3>3. \A i \in owed : amount[i] \in Int /\ late[i] \in Int
      <4> SUFFICES ASSUME NEW i \in owed PROVE amount[i] \in Int /\ late[i] \in Int
        OBVIOUS
      <4>1. CASE s[i].days > 0
        BY <1>7, <1>14, <4>1
      <4>2. CASE ~ (s[i].days > 0)
        BY <1>7, <1>14, <4>2
      <4>3. QED BY <4>1, <4>2
    <3>4. QED BY <3>1, <3>2, <3>3
  <2>2. (\A i \in B : late[i] = 0) /\ \A i \in R : late[i] = amount[i]
    <3>1. ASSUME NEW i \in B PROVE late[i] = 0
      <4>1. i \in owed /\ class[i] = 0
        BY <1>9
      <4>2. s[i].days \in Int /\ s[i].days <= 0
        BY <1>7, <1>9, <4>1
      <4>3. QED BY <1>14, <4>1, <4>2
    <3>2. ASSUME NEW i \in R PROVE late[i] = amount[i]
      <4>1. i \in owed /\ class[i] # 0
        BY <1>9
      <4>2. s[i].days \in Int /\ s[i].days > 0
        BY <1>7, <1>9, <4>1
      <4>3. QED BY <1>14, <4>1, <4>2
    <3>3. QED BY <3>1, <3>2
  <2>3. bins[0].amount = SumFunctionOnSet(amount, B)
    BY <1>11
  <2> HIDE DEF B, R
  <2>4. SumFunctionOnSet(late, B) = 0
    BY <2>1, <2>2, SumZero
  <2>5. SumFunctionOnSet(late, R) = SumFunctionOnSet(amount, R)
    BY <2>1, <2>2, SumEqual
  <2>6. SumFunctionOnSet(late, B \cup R) = SumFunctionOnSet(late, B) + SumFunctionOnSet(late, R)
    BY <2>1, SumUnion
  <2>7. SumFunctionOnSet(amount, B \cup R) = SumFunctionOnSet(amount, B) + SumFunctionOnSet(amount, R)
    BY <2>1, SumUnion
  <2>8. SumFunctionOnSet(amount, B) \in Int /\ SumFunctionOnSet(amount, R) \in Int
    BY <2>1, SumType
  <2>9. overdue = 0 + SumFunctionOnSet(amount, R)
    BY <1>10, <2>1, <2>4, <2>5, <2>6
  <2>10. outstanding = SumFunctionOnSet(amount, B) + SumFunctionOnSet(amount, R)
    BY <1>10, <2>1, <2>7
  <2>11. QED BY <2>3, <2>8, <2>9, <2>10
<1>19. Len(rows) = Cardinality(owed) /\ rows \in Seq(T)
  <2>1. DOMAIN v \subseteq Nat /\ IsFiniteSet(DOMAIN v) /\ \A i \in DOMAIN v : v[i] \in Int
    BY <1>7, <1>13
  <2>2. rows \in Seq({s[i] : i \in DOMAIN v})
    BY <1>8, <2>1, RankedIs
  <2>3. Len(rows) = Cardinality(DOMAIN v)
    BY <1>8, <2>1, RankedIs
  <2>4. QED BY <1>13, <2>2, <2>3
<1> HIDE DEF T
<1>20. answer = [totals |-> totals, rowCount |-> Len(rows), returned |-> CutAt(Len(rows), l),
                 truncated |-> Truncated(rows, l), rows |-> [i \in 1 .. CutAt(Len(rows), l) |-> rows[i]]]
  <2> HIDE DEF totals
  <2>1. QED BY <1>3, <1>4, <1>19, ReportIs
<1>21. answer.totals = totals /\ answer.rowCount = Cardinality(owed)
  <2> HIDE DEF totals
  <2>1. QED BY <1>19, <1>20
<1>22. /\ answer.totals.buckets = bins /\ answer.totals.outstanding = outstanding
       /\ answer.totals.overdue = overdue
  BY <1>21
<1>23. /\ SumOver(0 .. 4, LAMBDA b : answer.totals.buckets[b].count) = SumFunctionOnSet(counts, C)
       /\ SumOver(0 .. 4, LAMBDA b : answer.totals.buckets[b].amount) = SumFunctionOnSet(amounts, C)
  <2>1. \A B : SumOver(0 .. 4, LAMBDA b : B[b].count) = SumFunctionOnSet([b \in 0 .. 4 |-> B[b].count], 0 .. 4)
    BY DEF SumOver, SumFunction
  <2>2. \A B : SumOver(0 .. 4, LAMBDA b : B[b].amount) = SumFunctionOnSet([b \in 0 .. 4 |-> B[b].amount], 0 .. 4)
    BY DEF SumOver, SumFunction
  <2>3. QED BY <1>22, <2>1, <2>2 DEF SumOver, SumFunction
<1>24. QED BY <1>16, <1>17, <1>18, <1>21, <1>22, <1>23 DEF AgingAddsUp

\* A sum of differences is the difference of the sums.
LEMMA SumMinus ==
    ASSUME NEW f, NEW g, NEW h, NEW A, IsFiniteSet(A),
           \A x \in A : f[x] \in Int /\ g[x] \in Int /\ h[x] = f[x] - g[x]
    PROVE  SumFunctionOnSet(h, A) = SumFunctionOnSet(f, A) - SumFunctionOnSet(g, A)
<1>1. \A x \in A : h[x] \in Int /\ g[x] \in Int /\ f[x] = h[x] + g[x]
  OBVIOUS
<1>2. SumFunctionOnSet(f, A) = SumFunctionOnSet(h, A) + SumFunctionOnSet(g, A)
  BY <1>1, SumPlus
<1>3. SumFunctionOnSet(h, A) \in Int /\ SumFunctionOnSet(g, A) \in Int
  BY <1>1, SumType
<1>4. QED BY <1>2, <1>3

\* A factor comes out of a sum.
LEMMA SumTimes ==
    ASSUME NEW f, NEW g, NEW A, IsFiniteSet(A), NEW k \in Int,
           \A x \in A : f[x] \in Int /\ g[x] = k * f[x]
    PROVE  SumFunctionOnSet(g, A) = k * SumFunctionOnSet(f, A)
<1> DEFINE F(B) == SumFunctionOnSet(f, B)
           G(B) == SumFunctionOnSet(g, B)
           K == {B \in SUBSET A : G(B) = k * F(B)}
<1>1. \A x \in A : g[x] \in Int
  OBVIOUS
<1>2. ASSUME NEW B \in SUBSET A
      PROVE  IsFiniteSet(B) /\ F(B) \in Int /\ G(B) \in Int
  <2>1. IsFiniteSet(B)
    BY FS_Subset
  <2>2. QED BY <1>1, <2>1, SumType
<1>3. ASSUME NEW B \in SUBSET A, \A x \in B : B \ {x} \in K PROVE B \in K
  <2>1. CASE B = {}
    <3>1. F(B) = 0 /\ G(B) = 0
      BY <2>1, SumEmpty
    <3>2. QED BY <3>1
  <2>2. CASE B # {}
    <3>1. PICK x \in B : TRUE
      BY <2>2
    <3>2. F(B) = f[x] + F(B \ {x}) /\ G(B) = g[x] + G(B \ {x})
      BY <1>1, <1>2, SumRemove
    <3>3. G(B \ {x}) = k * F(B \ {x}) /\ F(B \ {x}) \in Int
      BY <1>2, <1>3
    <3> DEFINE r == F(B \ {x})
    <3>4. G(B) = k * f[x] + k * r /\ r \in Int /\ f[x] \in Int /\ F(B) = f[x] + r
      BY <3>2, <3>3
    <3> HIDE DEF r, F, G
    <3>5. G(B) = k * F(B)
      BY <3>4
    <3>6. QED BY <3>5
  <2>3. QED BY <2>1, <2>2
<1> HIDE DEF K
<1>4. A \in K
  BY <1>3, Subsets
<1>5. QED BY <1>4 DEF K

\* Sums differ by no more than the sum of what their values may differ by.
LEMMA SumWithin ==
    ASSUME NEW f, NEW g, NEW e, NEW A, IsFiniteSet(A),
           \A x \in A : /\ f[x] \in Int /\ g[x] \in Int /\ e[x] \in Int
                        /\ f[x] - g[x] <= e[x] /\ g[x] - f[x] <= e[x]
    PROVE  /\ SumFunctionOnSet(f, A) - SumFunctionOnSet(g, A) <= SumFunctionOnSet(e, A)
           /\ SumFunctionOnSet(g, A) - SumFunctionOnSet(f, A) <= SumFunctionOnSet(e, A)
<1> DEFINE d == [x \in A |-> f[x] - g[x]]
           c == [x \in A |-> g[x] - f[x]]
<1>1. \A x \in A : /\ f[x] \in Int /\ g[x] \in Int /\ d[x] = f[x] - g[x] /\ c[x] = g[x] - f[x]
                   /\ d[x] \in Int /\ c[x] \in Int /\ e[x] \in Int /\ d[x] <= e[x] /\ c[x] <= e[x]
  OBVIOUS
<1> HIDE DEF d, c
<1>2. /\ SumFunctionOnSet(d, A) = SumFunctionOnSet(f, A) - SumFunctionOnSet(g, A)
      /\ SumFunctionOnSet(c, A) = SumFunctionOnSet(g, A) - SumFunctionOnSet(f, A)
  BY <1>1, SumMinus
<1>3. /\ SumFunctionOnSet(d, A) <= SumFunctionOnSet(e, A)
      /\ SumFunctionOnSet(c, A) <= SumFunctionOnSet(e, A)
  BY <1>1, SumMonotone
<1>4. QED BY <1>2, <1>3

\* The days captured and the gaps add up to the span.
LEMMA DaysParts ==
    ASSUME Asked, Answered("xyz")
    PROVE  DaysAddUp
<1> SUFFICES ASSUME input.captured # {}
             PROVE  LET c == answer.totals.coverage IN c.days + c.gaps = c.last - c.first + 1
  BY DEF DaysAddUp
<1> DEFINE S == input.captured
           I == Min(S) .. Max(S)
<1>1. input \in Inputs["xyz"] /\ answer = Answer("xyz", input, ClampLimit(limit))
  BY AnswerIs
<1>2. IsFiniteSet(S) /\ S \subseteq Int /\ S # {}
  BY <1>1, DemandAssumption DEF Inputs
<1>3. answer.totals.coverage = [days |-> Cardinality(S), gaps |-> Cardinality(I \ S),
                                first |-> Min(S), last |-> Max(S)]
  <2> DEFINE p == [input.params EXCEPT !.minDays = AtLeastOne(@)]
             stats == DemandStats(Since(input.demand, input.params.since))
             enough == SetToSeq(Classified(stats, p.minDays))
             Item(k) == [id |-> k, mean |-> Mean(stats[k]), class |-> XyzClass(stats[k], NormThresholds(p.x, p.y))]
             rows == Ranked([i \in DOMAIN enough |-> Item(enough[i])], LAMBDA x : x.mean)
             Of(c) == CountBy(rows, LAMBDA x : x.class = c)
             totals == [count |-> Len(rows), x |-> Of("X"), y |-> Of("Y"), z |-> Of("Z"),
                        unclassified |-> Cardinality(DOMAIN stats) - Len(rows),
                        coverage |-> Coverage(S)]
  <2>1. answer = Report(totals, rows, ClampLimit(limit))
    BY <1>1 DEF Answer, HistoryTool, Xyz
  <2>2. totals.coverage = Coverage(S)
    OBVIOUS
  <2> HIDE DEF totals, rows
  <2>3. answer.totals.coverage = Coverage(S)
    BY <2>1, <2>2 DEF Report
  <2> HIDE DEF S
  <2>4. QED BY <1>2, <2>3 DEF Coverage
<1> HIDE DEF S
<1>4. Min(S) \in Int /\ Max(S) \in Int /\ Min(S) <= Max(S) /\ S \subseteq I
  <2>1. Min(S) \in S /\ Max(S) \in S /\ \A x \in S : Min(S) <= x /\ x <= Max(S)
    BY <1>2, MinMaxFacts
  <2>2. Min(S) \in Int /\ Max(S) \in Int
    BY <1>2, <2>1
  <2>3. PICK a, b \in Int : a = Min(S) /\ b = Max(S)
    BY <2>2
  <2>4. a <= b /\ \A x \in S : x \in Int /\ a <= x /\ x <= b
    BY <1>2, <2>1, <2>3
  <2>5. S \subseteq a .. b
    BY <2>4
  <2>6. QED BY <2>2, <2>3, <2>4, <2>5
<1>5. IsFiniteSet(I) /\ Cardinality(I) = Max(S) - Min(S) + 1
  BY <1>4, FS_Interval
<1>6. Cardinality(I \ S) = Cardinality(I) - Cardinality(S) /\ Cardinality(S) \in Nat
  <2> HIDE DEF I
  <2>1. I \cap S = S /\ IsFiniteSet(I \ S) /\ (I \ S) \cap S = {} /\ (I \ S) \cup S = I
    BY <1>4, <1>5, FS_Subset
  <2>2. Cardinality((I \ S) \cup S) = Cardinality(I \ S) + Cardinality(S) - Cardinality((I \ S) \cap S)
    BY <1>2, <2>1, FS_Union
  <2>3. Cardinality(I \ S) \in Nat /\ Cardinality(S) \in Nat
    BY <1>2, <2>1, FS_CardinalityType
  <2>4. Cardinality((I \ S) \cap S) = 0
    BY <2>1, FS_EmptySet
  <2>5. Cardinality((I \ S) \cup S) = Cardinality(I)
    BY <2>1
  <2>6. Cardinality(I) \in Int
    BY <1>5, FS_CardinalityType
  <2>7. QED BY <2>2, <2>3, <2>4, <2>5, <2>6
<1>7. QED BY <1>3, <1>4, <1>5, <1>6

\* The points of a cash flow add up to its net, to a half cent each.
LEMMA PointsParts ==
    ASSUME Asked, Answered("money")
    PROVE  PointsAddUp
<1>0. SUFFICES ASSUME input.flow.credit = SumBy(input.flow.series, LAMBDA x : x.credit),
                       input.flow.debit = SumBy(input.flow.series, LAMBDA x : x.debit)
                PROVE  2 * Magnitude(SumBy(answer.series, LAMBDA p : p.income - p.outcome) - answer.net) <=
                           Cent * 2 * (1 + Len(answer.series))
  BY DEF PointsAddUp
<1> DEFINE m == input.flow
           s == m.series
           N == 1 .. Len(s)
           c == [i \in N |-> s[i].credit]
           d == [i \in N |-> s[i].debit]
           net == [i \in N |-> MoneyRound(s[i].credit) - MoneyRound(s[i].debit)]
           Row == [credit : Int, debit : Int]
<1>1. m \in MoneyFlows /\ answer = MoneyFlow(m)
  <2>1. input \in Inputs["money"] /\ answer = Answer("money", input, ClampLimit(limit))
    BY AnswerIs
  <2>2. QED BY <2>1 DEF Inputs, Answer, ReportTool
<1>2. m.credit \in Int /\ m.debit \in Int /\ s \in Seq(Row)
  BY <1>1, DocumentsAssumption
<1>3. DOMAIN s = N /\ Len(s) \in Nat
  BY <1>2
<1>4. \A i \in N : s[i].credit \in Int /\ s[i].debit \in Int
  <2>1. \A i \in N : s[i] \in Row
    <3> HIDE DEF Row, s
    <3>1. QED BY <1>2
  <2>2. QED BY <2>1
<1>5. m.credit = SumFunctionOnSet(c, N) /\ m.debit = SumFunctionOnSet(d, N)
  <2>1. m.credit = SumBy(s, LAMBDA x : x.credit) /\ m.debit = SumBy(s, LAMBDA x : x.debit)
    BY <1>0
  <2>2. SumBy(s, LAMBDA x : x.credit) = SumFunctionOnSet(c, N)
    BY <1>3 DEF SumBy, SumAt, SumFunction
  <2>3. SumBy(s, LAMBDA x : x.debit) = SumFunctionOnSet(d, N)
    BY <1>3 DEF SumBy, SumAt, SumFunction
  <2>4. QED BY <2>1, <2>2, <2>3
<1>6. /\ answer.net = MoneyRound(MoneyRound(m.credit) - MoneyRound(m.debit))
      /\ answer.series = [i \in N |-> [income |-> MoneyRound(s[i].credit),
                                       outcome |-> MoneyRound(s[i].debit)]]
  BY <1>1, <1>3 DEF MoneyFlow
<1>7. Len(answer.series) = Len(s)
  BY <1>3, <1>6
<1>8. SumBy(answer.series, LAMBDA p : p.income - p.outcome) = SumFunctionOnSet(net, N)
  <2>1. SumBy(answer.series, LAMBDA p : p.income - p.outcome)
          = SumFunctionOnSet([i \in N |-> answer.series[i].income - answer.series[i].outcome], N)
    BY <1>6 DEF SumBy, SumAt, SumFunction
  <2>2. [i \in N |-> answer.series[i].income - answer.series[i].outcome] = net
    BY <1>6
  <2>3. QED BY <2>1, <2>2
<1>9. IsFiniteSet(N) /\ Cardinality(N) = Len(s)
  <2>1. 1 \in Int /\ Len(s) \in Int
    BY <1>3
  <2>2. QED BY <1>3, <2>1, FS_Interval
<1>10. Cent \in Nat
  BY UnitsAssumption
<1>11. \A i \in N :
          /\ c[i] \in Int /\ d[i] \in Int /\ net[i] \in Int
          /\ net[i] - (c[i] - d[i]) <= Cent /\ (c[i] - d[i]) - net[i] <= Cent
  <2> SUFFICES ASSUME NEW i \in N
               PROVE  /\ c[i] \in Int /\ d[i] \in Int /\ net[i] \in Int
                      /\ net[i] - (c[i] - d[i]) <= Cent /\ (c[i] - d[i]) - net[i] <= Cent
    OBVIOUS
  <2> DEFINE x == s[i].credit
             y == s[i].debit
  <2>1. x \in Int /\ y \in Int /\ c[i] = x /\ d[i] = y /\ net[i] = MoneyRound(x) - MoneyRound(y)
    BY <1>4
  <2> HIDE DEF x, y, c, d, net
  <2>2. /\ MoneyRound(x) \in Int /\ 2 * (MoneyRound(x) - x) <= Cent /\ 2 * (x - MoneyRound(x)) <= Cent
        /\ MoneyRound(y) \in Int /\ 2 * (MoneyRound(y) - y) <= Cent /\ 2 * (y - MoneyRound(y)) <= Cent
    BY <2>1, MoneyRoundFacts
  <2>3. QED BY SMTT(60), <1>10, <2>1, <2>2
<1> DEFINE points == SumFunctionOnSet(net, N)
           exact == [i \in N |-> c[i] - d[i]]
           ones == [i \in N |-> 1]
           slack == [i \in N |-> Cent * ones[i]]
           total == m.credit - m.debit
<1> HIDE DEF c, d, net, s, m, N
<1>12. \A i \in N : /\ exact[i] = c[i] - d[i] /\ exact[i] \in Int
                    /\ ones[i] = 1 /\ slack[i] = Cent * ones[i] /\ slack[i] = Cent
  <2>1. \A i \in N : exact[i] = c[i] - d[i] /\ ones[i] = 1 /\ slack[i] = Cent * ones[i]
    OBVIOUS
  <2> HIDE DEF exact, ones, slack
  <2>2. QED BY <1>10, <1>11, <2>1
<1> HIDE DEF exact, ones, slack
<1>13. SumFunctionOnSet(exact, N) = total
  BY <1>5, <1>9, <1>11, <1>12, SumMinus
<1>14. SumFunctionOnSet(slack, N) = Cent * Len(s)
  <2>1. SumFunctionOnSet(ones, N) = Len(s)
    BY <1>9, <1>12, SumOnes
  <2>2. \A i \in N : ones[i] \in Int /\ slack[i] = Cent * ones[i]
    BY <1>12
  <2>3. SumFunctionOnSet(slack, N) = Cent * SumFunctionOnSet(ones, N)
    BY <1>9, <1>10, <2>2, SumTimes
  <2>4. QED BY <2>1, <2>3
<1>15. points - total <= Cent * Len(s) /\ total - points <= Cent * Len(s)
  <2>1. \A i \in N : /\ net[i] \in Int /\ exact[i] \in Int /\ slack[i] \in Int
                     /\ net[i] - exact[i] <= slack[i] /\ exact[i] - net[i] <= slack[i]
    BY <1>10, <1>11, <1>12
  <2>2. QED BY <1>9, <1>13, <1>14, <2>1, SumWithin
<1>16. points \in Int /\ total \in Int
  BY <1>2, <1>9, <1>11, SumType
<1>17. answer.net \in Int /\ answer.net - total <= Cent /\ total - answer.net <= Cent
  <2> DEFINE x == m.credit
             y == m.debit
             z == MoneyRound(x) - MoneyRound(y)
  <2>1. x \in Int /\ y \in Int /\ answer.net = MoneyRound(z) /\ total = x - y
    BY <1>2, <1>6
  <2> HIDE DEF x, y, total
  <2>2. /\ MoneyRound(x) \in Int /\ 2 * (MoneyRound(x) - x) <= Cent /\ 2 * (x - MoneyRound(x)) <= Cent
        /\ MoneyRound(y) \in Int /\ 2 * (MoneyRound(y) - y) <= Cent /\ 2 * (y - MoneyRound(y)) <= Cent
        /\ WholeCents(MoneyRound(x)) /\ WholeCents(MoneyRound(y))
    BY <2>1, MoneyRoundFacts
  <2>3. z \in Int /\ WholeCents(z)
    <3> DEFINE a == MoneyRound(x)
               b == MoneyRound(y)
    <3>1. a \in Int /\ b \in Int /\ WholeCents(a) /\ WholeCents(b) /\ z = a - b
      BY <2>2
    <3> HIDE DEF a, b, z
    <3>2. WholeCents(a - b) /\ a - b \in Int
      BY <3>1, WholeSums
    <3>3. QED BY <3>1, <3>2
  <2>4. MoneyRound(z) = z
    <3> HIDE DEF z
    <3>1. QED BY <2>3, MoneyRoundFacts
  <2>5. QED BY <1>10, <2>1, <2>2, <2>4
<1>18. 2 * Magnitude(points - answer.net) <= Cent * 2 * (1 + Len(s))
  <2> DEFINE w == Cent * Len(s)
             u == points - answer.net
  <2>1. w \in Int /\ Cent * 2 * (1 + Len(s)) = 2 * Cent + 2 * w
    BY <1>3, <1>10
  <2>2. u \in Int /\ u <= w + Cent /\ - u <= w + Cent
    <3> HIDE DEF w, total, points
    <3>1. points - total <= w /\ total - points <= w
      BY <1>15 DEF w
    <3>2. QED BY <1>10, <1>16, <1>17, <2>1, <3>1
  <2> HIDE DEF u, w
  <2>3. 2 * Magnitude(u) <= 2 * Cent + 2 * w
    BY <1>10, <2>1, <2>2 DEF Magnitude
  <2>4. QED BY <2>1, <2>3 DEF u
<1>19. QED BY <1>7, <1>8, <1>18

-----------------------------------------------------------------------------
(* The cells of the matrix, and the lines of a document.                   *)

\* The cells of the matrix add up.
LEMMA CellsParts ==
    ASSUME Asked, Answered("matrix")
    PROVE  CellsAddUp
<1> DEFINE stats == DemandStats(input.demand)
           s == Abc(input.rows)
           n == Len(input.rows)
           both == Where(s, LAMBDA x : x.name \in Classified(stats, AtLeastOne(input.minDays)))
           Cell(x) == <<x.class, XyzClass(stats[x.name], NormThresholds(XCut, YCut))>>
           In(c) == {i \in both : Cell(s[i]) = c}
           class == [i \in both |-> Cell(s[i])]
           C == {Cell(s[i]) : i \in both}
           P == [c \in C |-> In(c)]
           cells == [c \in C |-> [count |-> Cardinality(In(c)),
                                  revenue |-> SumAt(In(c), s, LAMBDA x : x.value)]]
           totals == [classified |-> Cardinality(both), abcOnly |-> n - Cardinality(both), cells |-> cells]
           rows == RankedAt(both, s, LAMBDA x : x.value)
<1>1. input \in Inputs["matrix"] /\ answer = Answer("matrix", input, ClampLimit(limit))
  BY AnswerIs
<1>2. input.rows \in ValuePairs \cup MatrixPairs
  BY <1>1 DEF Inputs
<1>3. answer = Report(totals, rows, ClampLimit(limit))
  BY <1>1 DEF Answer, HistoryTool, Matrix
<1>4. answer.totals = totals
  <2> HIDE DEF totals, rows
  <2>1. QED BY <1>3 DEF Report
<1>5. n \in Nat /\ IsFiniteSet(both)
  <2>1. n \in Nat /\ DOMAIN s = 1 .. n
    BY <1>2, AbcIs
  <2>2. both \subseteq DOMAIN s
    BY DEF Where
  <2> HIDE DEF s, both, n
  <2>3. 1 \in Int /\ n \in Int
    BY <2>1
  <2>4. IsFiniteSet(1 .. n)
    BY <2>3, FS_Interval
  <2>5. QED BY <2>1, <2>2, <2>4, FS_Subset
<1> HIDE DEF s, both, n, stats
<1>6. C = {class[i] : i \in both} /\ DOMAIN class = both /\ DOMAIN P = C /\ DOMAIN cells = C
  OBVIOUS
<1>7. ASSUME NEW i \in both PROVE class[i] \in C
  OBVIOUS
<1>8. ASSUME NEW c \in C PROVE P[c] = In(c) /\ P[c] \subseteq both /\ cells[c].count = Cardinality(P[c])
  OBVIOUS
<1>9. ASSUME NEW c \in C, NEW i \in both PROVE i \in In(c) <=> class[i] = c
  OBVIOUS
<1>10. answer.totals.cells = cells /\ answer.totals.abcOnly = n - Cardinality(both)
  <2> HIDE DEF cells
  <2>1. QED BY <1>4
<1> HIDE DEF class, C, P, cells, In, totals, rows
<1> DEFINE counts == [c \in DOMAIN cells |-> cells[c].count]
           ones == [i \in both |-> 1]
<1>11. IsFiniteSet(C)
  BY <1>5, <1>6, FiniteImage
<1>12. SumFunctionOnSet(counts, C) = Cardinality(both)
  <2>1. (\A i \in both : ones[i] = 1) /\ \A c \in C : counts[c] = cells[c].count
    BY <1>6
  <2> HIDE DEF ones, counts
  <2>2. ASSUME NEW c \in C PROVE counts[c] = SumFunctionOnSet(ones, P[c])
    <3> DEFINE B == P[c]
    <3>1. B \subseteq both /\ counts[c] = Cardinality(B)
      BY <1>8, <2>1
    <3> HIDE DEF B
    <3>2. IsFiniteSet(B) /\ \A i \in B : ones[i] = 1
      BY <1>5, <2>1, <3>1, FS_Subset
    <3>3. SumFunctionOnSet(ones, B) = Cardinality(B)
      BY <3>2, SumOnes
    <3>4. QED BY <3>1, <3>3 DEF B
  <2>3. \A i \in both : class[i] \in C /\ ones[i] \in Int
    BY <1>7, <2>1
  <2>4. \A c \in C : /\ P[c] \subseteq both /\ (\A i \in both : i \in P[c] <=> class[i] = c)
                     /\ counts[c] = SumFunctionOnSet(ones, P[c])
    <3> SUFFICES ASSUME NEW c \in C
                 PROVE  /\ P[c] \subseteq both /\ (\A i \in both : i \in P[c] <=> class[i] = c)
                        /\ counts[c] = SumFunctionOnSet(ones, P[c])
      OBVIOUS
    <3>1. P[c] = In(c) /\ P[c] \subseteq both
      BY <1>8
    <3>2. QED BY <1>9, <2>2, <3>1
  <2>5. SumFunctionOnSet(counts, C) = SumFunctionOnSet(ones, both)
    BY <1>5, <1>6, <1>11, <2>3, <2>4, SumParts
  <2>6. QED BY <1>5, <2>1, <2>5, SumOnes
<1>13. SumOver(DOMAIN answer.totals.cells, LAMBDA c : answer.totals.cells[c].count) = SumFunctionOnSet(counts, C)
  <2>1. \A T : SumOver(DOMAIN T, LAMBDA c : T[c].count)
                 = SumFunctionOnSet([c \in DOMAIN T |-> T[c].count], DOMAIN T)
    BY DEF SumOver, SumFunction
  <2>2. QED BY <1>6, <1>10, <2>1 DEF SumOver, SumFunction
<1>14. Cardinality(both) \in Nat
  BY <1>5, FS_CardinalityType
<1> HIDE DEF counts
<1>15. n = Len(input.rows)
  BY DEF n
<1>16. QED BY <1>5, <1>10, <1>12, <1>13, <1>14, <1>15 DEF CellsAddUp

\* A line of a document, of k percent of a price: worked out from the rounded price, it
\* is off by half a cent for each piece, and by half a cent more when it is rounded.
LEMMA LineWithin ==
    ASSUME NEW price \in Int, NEW q \in Nat, NEW k \in 0 .. 100
    PROVE  LET parts == 100 * Piece
               shown == MoneyRoundOf(MoneyRound(price) * q * k, parts)
           IN  /\ shown \in Int
               /\ 2 * (parts * shown) - 2 * (price * q * k) <= 100 * (Cent * (q + Piece))
               /\ 2 * (price * q * k) - 2 * (parts * shown) <= 100 * (Cent * (q + Piece))
<1> DEFINE rounded == MoneyRound(price)
           w == q * k
           d == rounded - price
           parts == 100 * Piece
           shown == MoneyRoundOf(rounded * q * k, parts)
           c == Cent * q
<1>1. Cent \in Nat /\ Piece \in Nat /\ parts \in Nat \ {0}
  BY UnitsAssumption
<1>2. w \in Nat /\ w <= 100 * q
  OBVIOUS
<1>3. rounded \in Int /\ d \in Int /\ 2 * d <= Cent /\ 2 * (- d) <= Cent
  <2>1. rounded \in Int /\ 2 * (rounded - price) <= Cent /\ 2 * (price - rounded) <= Cent
    BY MoneyRoundFacts
  <2> HIDE DEF rounded
  <2>2. QED BY <1>1, <2>1
<1> HIDE DEF rounded
<1>4. rounded * q * k = rounded * w /\ price * q * k = price * w /\ rounded * w \in Int /\ price * w \in Int
  BY <1>3
<1>5. rounded * w - price * w = d * w /\ (- d) * w = - (d * w) /\ d * w \in Int
  BY <1>3
<1>6. 2 * (d * w) <= Cent * w /\ 2 * ((- d) * w) <= Cent * w
  <2> HIDE DEF w, d
  <2>1. (2 * d) * w <= Cent * w /\ (2 * (- d)) * w <= Cent * w
    BY <1>1, <1>2, <1>3
  <2>2. QED BY <1>2, <1>3, <2>1
<1>7. Cent * w <= 100 * c /\ c \in Nat /\ Cent * w \in Nat
  <2>1. Cent * w <= Cent * (100 * q) /\ Cent * w \in Nat
    <3> HIDE DEF w
    <3>1. QED BY <1>1, <1>2
  <2> HIDE DEF w
  <2>2. QED BY <1>1, <2>1
<1>8. /\ shown \in Int
      /\ 2 * (parts * shown) - 2 * (rounded * w) <= parts * Cent
      /\ 2 * (rounded * w) - 2 * (parts * shown) <= parts * Cent
  <2> DEFINE v == rounded * w
  <2>1. v \in Int /\ shown = MoneyRoundOf(v, parts)
    BY <1>4
  <2> HIDE DEF v, shown, parts
  <2>2. QED BY <1>1, <2>1, MoneyRoundOfFacts DEF v
<1> DEFINE a == parts * shown
           x == price * w
           y == rounded * w
           z == d * w
           cw == Cent * w
           pc == Piece * Cent
<1>9. /\ parts * Cent = 100 * pc /\ Cent * (q + Piece) = c + pc /\ pc \in Int /\ a \in Int
  BY <1>1, <1>8
<1>10. /\ 2 * a - 2 * y <= 100 * pc /\ 2 * y - 2 * a <= 100 * pc
       /\ y - x = z /\ 2 * z <= cw /\ 2 * (- z) <= cw /\ cw <= 100 * c
       /\ x \in Int /\ y \in Int /\ z \in Int /\ cw \in Int /\ c \in Int
  BY <1>4, <1>5, <1>6, <1>7, <1>8, <1>9
<1> HIDE DEF a, x, y, z, cw, pc, c, shown, parts, w, d
<1>11. 2 * a - 2 * x <= 100 * (c + pc) /\ 2 * x - 2 * a <= 100 * (c + pc)
  BY <1>9, <1>10
<1>12. 2 * (parts * shown) - 2 * (price * q * k) <= 100 * (Cent * (q + Piece))
  BY <1>4, <1>9, <1>11 DEF a, x
<1>13. 2 * (price * q * k) - 2 * (parts * shown) <= 100 * (Cent * (q + Piece))
  BY <1>4, <1>9, <1>11 DEF a, x
<1>14. QED BY <1>8, <1>12, <1>13 DEF rounded, shown, parts

\* The lines of a document add up to its sum, to a half cent for each rounding.
LEMMA LinesParts ==
    ASSUME Asked, Answered("detail")
    PROVE  LinesAddUp
<1> DEFINE d == input.document
           p == d.positions
           n == Len(p)
           N == 1 .. n
           parts == 100 * Piece
           Net(x) == x.price * x.qty * (100 - x.discount)
           net == [i \in N |-> p[i].price * p[i].qty * (100 - p[i].discount)]
           shown == [i \in N |-> MoneyRoundOf(MoneyRound(p[i].price) * p[i].qty * (100 - p[i].discount), parts)]
           pieces == [i \in N |-> p[i].qty + 2 * Piece]
           Row == [price : Int, qty : Nat, discount : 0 .. 100]
<1>0. SUFFICES ASSUME 2 * Magnitude(parts * d.sum - SumBy(p, Net)) <= parts * Cent * n
                PROVE  2 * Piece * Magnitude(SumBy(answer.positions, LAMBDA x : x.total) - answer.sum) <=
                           Cent * (Piece + SumBy(p, LAMBDA x : x.qty + 2 * Piece))
  BY DEF LinesAddUp
<1>1. d \in Details /\ answer = DocumentDetail(d)
  <2>1. input \in Inputs["detail"] /\ answer = Answer("detail", input, ClampLimit(limit))
    BY AnswerIs
  <2>2. QED BY <2>1 DEF Inputs, Answer, DocumentTool
<1>2. d.sum \in Int /\ p \in Seq(Row)
  BY <1>1, DocumentsAssumption
<1>3. DOMAIN p = N /\ n \in Nat
  BY <1>2
<1>4. \A i \in N : p[i].price \in Int /\ p[i].qty \in Nat /\ p[i].discount \in 0 .. 100
  <2>1. \A i \in N : p[i] \in Row
    <3> HIDE DEF Row, p
    <3>1. QED BY <1>2
  <2> HIDE DEF p, N
  <2>2. QED BY <2>1
<1>5. SumBy(p, Net) = SumFunctionOnSet(net, N)
  BY <1>3 DEF SumBy, SumAt, SumFunction
<1>6. answer.sum = MoneyRound(d.sum)
      /\ answer.positions = [i \in N |-> [price |-> MoneyRound(p[i].price), total |-> shown[i]]]
  BY <1>1, <1>3 DEF DocumentDetail
<1>7. SumBy(answer.positions, LAMBDA x : x.total) = SumFunctionOnSet(shown, N)
  <2>1. SumBy(answer.positions, LAMBDA x : x.total)
          = SumFunctionOnSet([i \in N |-> answer.positions[i].total], N)
    BY <1>6 DEF SumBy, SumAt, SumFunction
  <2>2. [i \in N |-> answer.positions[i].total] = [i \in N |-> shown[i]]
    <3> HIDE DEF shown, N, p
    <3>1. QED BY <1>6
  <2>3. QED BY <2>1, <2>2
<1>8. SumBy(p, LAMBDA x : x.qty + 2 * Piece) = SumFunctionOnSet(pieces, N)
  BY <1>3 DEF SumBy, SumAt, SumFunction
<1>9. IsFiniteSet(N) /\ Cardinality(N) = n
  <2>1. 1 \in Int /\ n \in Int
    BY <1>3
  <2> HIDE DEF n
  <2>2. QED BY <1>3, <2>1, FS_Interval
<1>10. Cent \in Nat /\ Piece \in Nat \ {0} /\ parts \in Nat
  BY UnitsAssumption
<1> DEFINE w == 2 * parts
           a == [i \in N |-> w * shown[i]]
           b == [i \in N |-> 2 * net[i]]
           near == [i \in N |-> (100 * Cent) * (pieces[i] - Piece)]
           most == [i \in N |-> pieces[i] - Piece]
           ones == [i \in N |-> 1]
           pad == [i \in N |-> Piece * ones[i]]
<1>11. ASSUME NEW i \in N
       PROVE  /\ net[i] \in Int /\ shown[i] \in Int /\ pieces[i] \in Int
              /\ a[i] = w * shown[i] /\ b[i] = 2 * net[i]
              /\ near[i] = (100 * Cent) * most[i] /\ most[i] = pieces[i] - pad[i]
              /\ ones[i] = 1 /\ pad[i] = Piece * ones[i] /\ pad[i] \in Int
              /\ most[i] \in Int /\ a[i] \in Int /\ b[i] \in Int /\ near[i] \in Int
              /\ a[i] - b[i] <= near[i] /\ b[i] - a[i] <= near[i]
  <2> DEFINE price == p[i].price
             q == p[i].qty
             k == 100 - p[i].discount
  <2>1. price \in Int /\ q \in Nat /\ k \in 0 .. 100
    <3> HIDE DEF p, N, d
    <3>1. p[i].price \in Int /\ p[i].qty \in Nat /\ p[i].discount \in 0 .. 100
      BY <1>4
    <3>2. QED BY <3>1
  <2>2. /\ net[i] = price * q * k /\ shown[i] = MoneyRoundOf(MoneyRound(price) * q * k, 100 * Piece)
        /\ pieces[i] = q + 2 * Piece /\ ones[i] = 1 /\ pad[i] = Piece * ones[i]
        /\ a[i] = w * shown[i] /\ b[i] = 2 * net[i]
        /\ near[i] = (100 * Cent) * (pieces[i] - Piece) /\ most[i] = pieces[i] - Piece
    OBVIOUS
  <2> HIDE DEF price, q, k, net, shown, pieces, ones, pad, a, b, near, most, d, p, N, n
  <2>3. /\ shown[i] \in Int
        /\ 2 * (parts * shown[i]) - 2 * (price * q * k) <= 100 * (Cent * (q + Piece))
        /\ 2 * (price * q * k) - 2 * (parts * shown[i]) <= 100 * (Cent * (q + Piece))
    <3> DEFINE y == MoneyRoundOf(MoneyRound(price) * q * k, parts)
    <3>1. /\ y \in Int
          /\ 2 * (parts * y) - 2 * (price * q * k) <= 100 * (Cent * (q + Piece))
          /\ 2 * (price * q * k) - 2 * (parts * y) <= 100 * (Cent * (q + Piece))
      BY Zenon, <2>1, LineWithin
    <3>2. shown[i] = y
      BY <2>2
    <3> HIDE DEF y, parts
    <3>3. QED BY <3>1, <3>2
  <2>4. w * shown[i] = 2 * (parts * shown[i]) /\ parts * shown[i] \in Int
    BY <1>10, <2>3
  <2>5. net[i] \in Int /\ pieces[i] \in Int /\ pieces[i] - Piece = q + Piece /\ q + Piece \in Int
    BY <1>10, <2>1, <2>2
  <2>6. near[i] = 100 * (Cent * (q + Piece)) /\ near[i] \in Int
    BY <1>10, <2>2, <2>5
  <2>7. pad[i] = Piece /\ pad[i] \in Int
    BY <1>10, <2>2
  <2> HIDE DEF w, parts
  <2>8. QED BY <1>10, <2>2, <2>3, <2>4, <2>5, <2>6, <2>7
<1> HIDE DEF net, shown, pieces, a, b, near, most, ones, pad
<1> DEFINE F == SumFunctionOnSet(shown, N)
           G == SumFunctionOnSet(net, N)
           E == SumFunctionOnSet(pieces, N)
           M == SumFunctionOnSet(most, N)
<1>12. F \in Int /\ G \in Int /\ E \in Int /\ M \in Int
  <2> HIDE DEF N, p, d, n
  <2>1. QED BY <1>9, <1>11, SumType
<1>13. /\ SumFunctionOnSet(a, N) = w * F /\ SumFunctionOnSet(b, N) = 2 * G
       /\ SumFunctionOnSet(near, N) = (100 * Cent) * M /\ M = E - Piece * n
  <2> HIDE DEF N, p, d, n
  <2>1. w \in Int /\ 2 \in Int /\ 100 * Cent \in Int /\ Piece \in Int
    BY <1>10
  <2> HIDE DEF w
  <2>2. SumFunctionOnSet(a, N) = w * F
    BY <1>9, <1>11, <2>1, SumTimes
  <2>3. SumFunctionOnSet(b, N) = 2 * G
    BY <1>9, <1>11, <2>1, SumTimes
  <2>4. SumFunctionOnSet(near, N) = (100 * Cent) * M
    <3> DEFINE h == 100 * Cent
    <3>1. h \in Int /\ \A i \in N : most[i] \in Int /\ near[i] = h * most[i]
      BY <1>11, <2>1
    <3> HIDE DEF h
    <3>2. SumFunctionOnSet(near, N) = h * M
      BY <1>9, <3>1, SumTimes
    <3>3. QED BY <3>2 DEF h
  <2>5. SumFunctionOnSet(ones, N) = n
    BY <1>9, <1>11, SumOnes
  <2>6. SumFunctionOnSet(pad, N) = Piece * SumFunctionOnSet(ones, N)
    <3>1. \A i \in N : ones[i] \in Int /\ pad[i] = Piece * ones[i]
      BY <1>11
    <3>2. QED BY <1>9, <2>1, <3>1, SumTimes
  <2>7. M = E - SumFunctionOnSet(pad, N)
    BY <1>9, <1>11, SumMinus
  <2>8. QED BY <2>2, <2>3, <2>4, <2>5, <2>6, <2>7
<1>14. w * F - 2 * G <= (100 * Cent) * M /\ 2 * G - w * F <= (100 * Cent) * M
  <2> HIDE DEF N, p, d, n, w
  <2>1. /\ SumFunctionOnSet(a, N) - SumFunctionOnSet(b, N) <= SumFunctionOnSet(near, N)
        /\ SumFunctionOnSet(b, N) - SumFunctionOnSet(a, N) <= SumFunctionOnSet(near, N)
    BY <1>9, <1>11, SumWithin
  <2>2. QED BY <1>13, <2>1
<1> DEFINE sum == d.sum
           S == answer.sum
           x == Piece * F
           y == Piece * sum
           z == Piece * S
           e == Cent * E
           f == Cent * (Piece * n)
           c == Cent * Piece
<1>15. sum \in Int /\ S \in Int /\ 2 * z - 2 * y <= c /\ 2 * y - 2 * z <= c /\ y \in Int /\ z \in Int /\ c \in Int
  <2>1. sum \in Int /\ S \in Int /\ 2 * (S - sum) <= Cent /\ 2 * (sum - S) <= Cent
    <3>1. sum \in Int /\ S = MoneyRound(sum)
      BY <1>2, <1>6
    <3> HIDE DEF sum, S
    <3>2. QED BY <3>1, MoneyRoundFacts
  <2> HIDE DEF sum, S, d, p
  <2>2. Piece * (2 * (S - sum)) <= Piece * Cent /\ Piece * (2 * (sum - S)) <= Piece * Cent
    BY <1>10, <2>1
  <2>3. QED BY <1>10, <2>1, <2>2
<1>16. 200 * y - 2 * G <= 100 * f /\ 2 * G - 200 * y <= 100 * f /\ f \in Int
  <2>1. 2 * Magnitude(parts * sum - G) <= parts * Cent * n
    BY <1>0, <1>5
  <2> HIDE DEF sum, G, n, d, p
  <2>2. parts * sum = 100 * y /\ parts * Cent * n = 100 * f /\ f \in Int /\ y \in Int
    BY <1>3, <1>10, <1>15
  <2> HIDE DEF f, y, parts
  <2>3. QED BY <1>12, <2>1, <2>2 DEF Magnitude
<1>17. 200 * x - 2 * G <= 100 * (e - f) /\ 2 * G - 200 * x <= 100 * (e - f) /\ x \in Int /\ e \in Int
  <2> HIDE DEF F, G, E, M, n, d, p
  <2>1. w * F = 200 * x /\ x \in Int /\ e \in Int
    BY <1>10, <1>12
  <2>2. (100 * Cent) * (E - Piece * n) = 100 * (e - f)
    BY <1>3, <1>10, <1>12
  <2> HIDE DEF w, x, e, f
  <2>3. QED BY <1>13, <1>14, <2>1, <2>2
<1>18. 2 * x - 2 * z <= c + e /\ 2 * z - 2 * x <= c + e
  <2> HIDE DEF x, y, z, e, f, c, G
  <2>1. QED BY <1>12, <1>15, <1>16, <1>17
<1>19. 2 * Piece * Magnitude(F - S) <= Cent * (Piece + E)
  <2> HIDE DEF F, S, E, n, d, p
  <2>1. 2 * Piece * (F - S) = 2 * x - 2 * z /\ 2 * Piece * (- (F - S)) = 2 * z - 2 * x
    BY <1>10, <1>12, <1>15
  <2>2. Cent * (Piece + E) = c + e
    BY <1>10, <1>12
  <2>3. Magnitude(F - S) = F - S \/ Magnitude(F - S) = - (F - S)
    BY DEF Magnitude
  <2> HIDE DEF x, z, c, e
  <2>4. QED BY <1>18, <2>1, <2>2, <2>3
<1> HIDE DEF F, E, S
<1>20. QED BY <1>7, <1>8, <1>19 DEF F, E, S, p, d

-----------------------------------------------------------------------------
(* The changes of a comparison.                                            *)

\* The pairs that are compared, of both periods.
LEMMA PairsFacts ==
    ASSUME NEW s \in KeyedPairs
    PROVE  /\ Len(s) \in Nat /\ DOMAIN s = 1 .. Len(s) /\ IsFiniteSet(DOMAIN s)
           /\ \A i \in 1 .. Len(s) : s[i].value \in Int /\ WholeCents(s[i].value)
<1> DEFINE Row == [key : STRING, value : Int]
<1>1. s \in Seq(Row)
  BY SalesAssumption
<1> HIDE DEF Row
<1>2. Len(s) \in Nat /\ DOMAIN s = 1 .. Len(s) /\ \A i \in 1 .. Len(s) : s[i] \in Row
  BY <1>1
<1>3. ASSUME NEW i \in 1 .. Len(s) PROVE s[i].value \in Int /\ WholeCents(s[i].value)
  <2> DEFINE v == s[i].value
  <2>1. v \in Int
    BY <1>2 DEF Row
  <2>2. v % Cent = 0 /\ Cent \in Nat \ {0}
    BY <1>2, PairsAssumption, UnitsAssumption
  <2> HIDE DEF v
  <2>3. v = (v \div Cent) * Cent /\ v \div Cent \in Int
    BY <2>1, <2>2, Multiple, Division
  <2>4. QED BY <2>1, <2>3 DEF WholeCents, v
<1>4. IsFiniteSet(1 .. Len(s))
  <2> DEFINE n == Len(s)
  <2>1. n \in Int /\ 1 \in Int
    BY <1>2
  <2> HIDE DEF n
  <2>2. IsFiniteSet(1 .. n)
    BY <2>1, FS_Interval
  <2>3. QED BY <2>2 DEF n
<1>5. QED BY <1>2, <1>3, <1>4

\* The keys of two periods, the places where they first came, and the sum of each in
\* one of them.
KeysOf(a, b) == [i \in 1 .. Len(a) + Len(b) |-> (a \o b)[i].key]
PlacesOf(a, b) == FirstPlaces(KeysOf(a, b))
FoldsOf(s, a, b) == [i \in PlacesOf(a, b) |-> Folded(s, KeysOf(a, b)[i])]
ValuesOf(s) == [i \in DOMAIN s |-> s[i].value]

\* The sums of the keys of two periods, of the pairs of one of them, add up to it.
LEMMA FoldsAddUp ==
    ASSUME NEW a \in KeyedPairs, NEW b \in KeyedPairs, NEW s, s = a \/ s = b
    PROVE  /\ IsFiniteSet(PlacesOf(a, b)) /\ PlacesOf(a, b) \subseteq 1 .. Len(a) + Len(b)
           /\ \A i \in PlacesOf(a, b) : FoldsOf(s, a, b)[i] \in Int /\ WholeCents(FoldsOf(s, a, b)[i])
           /\ SumFunctionOnSet(FoldsOf(s, a, b), PlacesOf(a, b)) = SumFunctionOnSet(ValuesOf(s), DOMAIN s)
<1> DEFINE n == Len(a) + Len(b)
           A == DOMAIN s
           key == KeysOf(a, b)
           F == PlacesOf(a, b)
           g == FoldsOf(s, a, b)
           f == ValuesOf(s)
           c == [j \in A |-> s[j].key]
           In(k) == Where(s, LAMBDA p : p.key = k)
           P == [i \in F |-> In(key[i])]
<1>1. Len(a) \in Nat /\ Len(b) \in Nat /\ n \in Nat
  BY PairsFacts
<1>2. /\ IsFiniteSet(A) /\ A = 1 .. Len(s) /\ Len(s) \in Nat
      /\ \A j \in A : s[j].value \in Int /\ WholeCents(s[j].value)
  BY PairsFacts
<1>3. /\ \A i \in 1 .. Len(a) : (a \o b)[i] = a[i]
      /\ \A i \in 1 .. Len(b) : (a \o b)[Len(a) + i] = b[i]
  <2> DEFINE Row == [key : STRING, value : Int]
  <2>1. a \in Seq(Row) /\ b \in Seq(Row)
    BY SalesAssumption
  <2> HIDE DEF Row
  <2>2. QED BY <2>1
<1>4. DOMAIN key = 1 .. n /\ \A i \in 1 .. n : key[i] = (a \o b)[i].key
  BY DEF KeysOf
<1>5. F = FirstPlaces(key)
  BY DEF PlacesOf
<1>6. DOMAIN c = A /\ DOMAIN P = F /\ \A j \in A : c[j] = s[j].key
  OBVIOUS
<1>7. \A j \in A : f[j] = s[j].value
  BY DEF ValuesOf
<1>8. ASSUME NEW i \in F PROVE g[i] = Folded(s, key[i]) /\ P[i] = In(key[i])
  BY DEF FoldsOf
<1>9. ASSUME NEW j \in A PROVE \E i \in 1 .. n : key[i] = c[j]
  <2> HIDE DEF key
  <2>1. CASE s = a
    <3>1. j \in 1 .. Len(a)
      BY <1>2, <2>1
    <3>2. j \in 1 .. n /\ (a \o b)[j] = a[j]
      BY <1>1, <1>3, <3>1
    <3>3. key[j] = c[j]
      BY <1>4, <1>6, <2>1, <3>2
    <3>4. QED BY <3>2, <3>3
  <2>2. CASE s = b
    <3>1. j \in 1 .. Len(b)
      BY <1>2, <2>2
    <3> DEFINE i == Len(a) + j
    <3>2. i \in 1 .. n /\ (a \o b)[i] = b[j]
      BY <1>1, <1>3, <3>1
    <3> HIDE DEF i
    <3>3. key[i] = c[j]
      BY <1>4, <1>6, <2>2, <3>2
    <3>4. QED BY <3>2, <3>3
  <2>3. QED BY <2>1, <2>2
<1> HIDE DEF n, key, F, g, f, c, P
<1>10. /\ IsFiniteSet(F) /\ F \subseteq 1 .. n
       /\ \A i, j \in F : key[i] = key[j] => i = j
       /\ \A i \in 1 .. n : \E j \in F : key[j] = key[i]
  BY <1>1, <1>4, <1>5, FirstsFacts
<1>11. ASSUME NEW i \in F
       PROVE  /\ P[i] \subseteq A /\ (\A j \in A : j \in P[i] <=> c[j] = key[i])
              /\ g[i] = SumFunctionOnSet(f, P[i])
  <2> DEFINE k == key[i]
             B == In(k)
             h == [j \in B |-> s[j].value]
  <2>1. B \subseteq A /\ \A j \in A : j \in B <=> s[j].key = k
    BY DEF Where
  <2>2. g[i] = SumFunctionOnSet(h, B)
    BY <1>8 DEF Folded, SumAt, SumFunction
  <2>3. \A j \in B : h[j] = s[j].value
    OBVIOUS
  <2>4. P[i] = B
    BY <1>8
  <2> HIDE DEF h, B, k
  <2>5. IsFiniteSet(B) /\ \A j \in B : h[j] = f[j]
    BY <1>2, <1>7, <2>1, <2>3, FS_Subset
  <2>6. SumFunctionOnSet(h, B) = SumFunctionOnSet(f, B)
    BY <2>5, SumEqual
  <2>7. QED BY <1>6, <2>1, <2>2, <2>4, <2>6 DEF k
<1>12. \A j \in A : \E i \in F : key[i] = c[j]
  <2> SUFFICES ASSUME NEW j \in A PROVE \E i \in F : key[i] = c[j]
    OBVIOUS
  <2>1. PICK i \in 1 .. n : key[i] = c[j]
    BY <1>9
  <2>2. PICK m \in F : key[m] = key[i]
    BY <1>10
  <2>3. QED BY <2>1, <2>2
<1>13. \A j \in A : f[j] \in Int /\ WholeCents(f[j])
  BY <1>2, <1>7
<1>14. SumFunctionOnSet(g, F) = SumFunctionOnSet(f, A)
  <2> DEFINE D == A
  <2>1. /\ IsFiniteSet(D) /\ DOMAIN c = D /\ DOMAIN P = F /\ IsFiniteSet(F)
        /\ \A j \in D : f[j] \in Int
    BY <1>2, <1>6, <1>10, <1>13
  <2>2. (\A j \in D : \E i \in F : key[i] = c[j]) /\ \A i, j \in F : key[i] = key[j] => i = j
    BY <1>10, <1>12
  <2>3. \A i \in F : /\ P[i] \subseteq D /\ (\A j \in D : j \in P[i] <=> c[j] = key[i])
                     /\ g[i] = SumFunctionOnSet(f, P[i])
    BY <1>11
  <2> HIDE DEF D
  <2>4. SumFunctionOnSet(g, F) = SumFunctionOnSet(f, D)
    BY <2>1, <2>2, <2>3, SumKeyed
  <2>5. QED BY <2>4 DEF D
<1>15. ASSUME NEW i \in F PROVE g[i] \in Int /\ WholeCents(g[i])
  <2> DEFINE B == P[i]
  <2>1. B \subseteq A /\ g[i] = SumFunctionOnSet(f, B)
    BY <1>11
  <2> HIDE DEF B
  <2>2. IsFiniteSet(B) /\ \A j \in B : f[j] \in Int /\ WholeCents(f[j])
    BY <1>2, <1>13, <2>1, FS_Subset
  <2>3. QED BY <2>1, <2>2, SumWhole
<1>16. QED BY <1>10, <1>14, <1>15 DEF n, F, g, f

\* A cap that is not reached leaves a list whole.
LEMMA CappedWhole ==
    ASSUME NEW T, NEW s \in Seq(T), NEW n \in Int, n >= Len(s)
    PROVE  SubSeq(s, 1, Least(n, Len(s))) = s
<1>1. Least(n, Len(s)) = Len(s)
  BY DEF Least
<1>2. SubSeq(s, 1, Len(s)) = [i \in 1 .. Len(s) |-> s[1 + i - 1]]
  OBVIOUS
<1>3. \A i \in 1 .. Len(s) : 1 + i - 1 = i
  OBVIOUS
<1>4. s = [i \in 1 .. Len(s) |-> s[i]]
  OBVIOUS
<1>5. QED BY <1>1, <1>2, <1>3, <1>4

\* Rows in the order of values, the first of them that are shown, and their changes.
RowsBy(v, s) == [k \in DOMAIN Order(v) |-> s[Order(v)[k]]]
Topmost(v, s, n) == SubSeq(RowsBy(v, s), 1, Least(n, Len(RowsBy(v, s))))
DeltasOf(s) == [k \in 1 .. Len(s) |-> s[k].delta]

\* The changes that are shown, ranked, add up to those they are chosen from.
LEMMA TopmostAddUp ==
    ASSUME NEW v, DOMAIN v \subseteq Nat, IsFiniteSet(DOMAIN v), \A i \in DOMAIN v : v[i] \in Int,
           NEW s, NEW d, \A i \in DOMAIN v : d[i] \in Int /\ s[i].delta = d[i],
           NEW n \in Int, n >= Cardinality(DOMAIN v)
    PROVE  /\ Topmost(v, s, n) \in Seq({s[i] : i \in DOMAIN v}) /\ Len(Topmost(v, s, n)) \in Nat
           /\ \A k \in 1 .. Len(Topmost(v, s, n)) : DeltasOf(Topmost(v, s, n))[k] \in Int
           /\ SumFunctionOnSet(DeltasOf(Topmost(v, s, n)), 1 .. Len(Topmost(v, s, n)))
                = SumFunctionOnSet(d, DOMAIN v)
<1> DEFINE T == {s[i] : i \in DOMAIN v}
           c == Cardinality(DOMAIN v)
           R == RowsBy(v, s)
           top == Topmost(v, s, n)
           g == DeltasOf(top)
<1>1. R = [k \in DOMAIN Order(v) |-> s[Order(v)[k]]] /\ top = SubSeq(R, 1, Least(n, Len(R)))
  BY DEF RowsBy, Topmost
<1>2. \A k \in 1 .. Len(top) : g[k] = top[k].delta
  BY DEF DeltasOf
<1> HIDE DEF R, top, g
<1>3. R \in Seq(T)
  BY SMTT(60), <1>1, RankedIs
<1>4. Len(R) = c /\ Len(R) \in Nat
  BY <1>1, RankedIs
<1>5. ASSUME NEW k \in 1 .. Len(R) PROVE Order(v)[k] \in DOMAIN v /\ R[k] = s[Order(v)[k]]
  <2>1. Order(v)[k] \in DOMAIN v
    BY <1>1, RankedIs
  <2>2. R[k] = s[Order(v)[k]]
    BY <1>1, RankedIs
  <2>3. QED BY <2>1, <2>2
<1> HIDE DEF T, c
<1>6. top = R
  <2>1. n >= Len(R)
    BY <1>4 DEF c
  <2>2. SubSeq(R, 1, Least(n, Len(R))) = R
    BY <1>3, <2>1, CappedWhole
  <2>3. QED BY <1>1, <2>2
<1>7. ASSUME NEW k \in 1 .. Len(R) PROVE g[k] = d[Order(v)[k]] /\ g[k] \in Int
  <2> DEFINE i == Order(v)[k]
  <2>1. i \in DOMAIN v /\ R[k] = s[i]
    BY <1>5
  <2> HIDE DEF i
  <2>2. s[i].delta = d[i] /\ d[i] \in Int
    BY <2>1
  <2>3. g[k] = R[k].delta
    BY <1>2, <1>6
  <2>4. g[k] = d[i] /\ g[k] \in Int
    BY <2>1, <2>2, <2>3
  <2>5. QED BY <2>4 DEF i
<1>8. SumFunctionOnSet(g, 1 .. c) = SumFunctionOnSet(d, DOMAIN v)
  <2>1. \A k \in 1 .. Cardinality(DOMAIN v) : g[k] = d[Order(v)[k]]
    BY <1>4, <1>7 DEF c
  <2>2. \A i \in DOMAIN v : d[i] \in Int
    OBVIOUS
  <2>3. SumFunctionOnSet(g, 1 .. Cardinality(DOMAIN v)) = SumFunctionOnSet(d, DOMAIN v)
    BY <2>1, <2>2, SumRanked
  <2>4. QED BY <2>3 DEF c
<1>9. QED BY <1>3, <1>4, <1>6, <1>7, <1>8 DEF top, g, T

\* The keys of a comparison are the places where the keys of its pairs first came.
LEMMA KeysAre ==
    ASSUME NEW a \in KeyedPairs, NEW b \in KeyedPairs
    PROVE  /\ DOMAIN (a \o b) = 1 .. Len(a) + Len(b)
           /\ Firsts(a \o b, LAMBDA p : p.key) = PlacesOf(a, b)
           /\ \A i \in PlacesOf(a, b) : KeysOf(a, b)[i] = (a \o b)[i].key
<1> DEFINE pairs == a \o b
           n == Len(a) + Len(b)
           key == KeysOf(a, b)
           F == PlacesOf(a, b)
           K == Firsts(pairs, LAMBDA p : p.key)
<1>1. DOMAIN pairs = 1 .. n /\ n \in Nat
  <2> DEFINE Row == [key : STRING, value : Int]
  <2>1. a \in Seq(Row) /\ b \in Seq(Row)
    BY SalesAssumption
  <2> HIDE DEF Row
  <2>2. QED BY <2>1
<1>2. DOMAIN key = 1 .. n /\ \A i \in 1 .. n : key[i] = pairs[i].key
  BY DEF KeysOf
<1>3. F \subseteq 1 .. n /\ \A i \in 1 .. n : i \in F <=> ~ \E j \in 1 .. i - 1 : key[j] = key[i]
  BY <1>2 DEF PlacesOf, FirstPlaces
<1>4. K \subseteq 1 .. n /\ \A i \in 1 .. n : i \in K <=> ~ \E j \in 1 .. i - 1 : pairs[j].key = pairs[i].key
  BY <1>1 DEF Firsts
<1> HIDE DEF key, F, K, pairs
<1>5. ASSUME NEW i \in 1 .. n PROVE i \in K <=> i \in F
  <2>1. \A j \in 1 .. i - 1 : key[j] = pairs[j].key
    BY <1>1, <1>2
  <2>2. key[i] = pairs[i].key
    BY <1>2
  <2>3. (\E j \in 1 .. i - 1 : pairs[j].key = pairs[i].key) <=> (\E j \in 1 .. i - 1 : key[j] = key[i])
    BY <2>1, <2>2
  <2>4. QED BY <1>3, <1>4, <2>3
<1>6. K = F
  BY <1>3, <1>4, <1>5
<1>7. \A i \in F : key[i] = pairs[i].key
  BY <1>2, <1>3
<1>8. QED BY <1>1, <1>6, <1>7 DEF K, F, key, pairs

\* The changes of a comparison add up.
LEMMA ChangesParts ==
    ASSUME Asked, Answered("compare")
    PROVE  ChangesAddUp
<1> SUFFICES ASSUME TopN(input.topN) >= Len(input.a) + Len(input.b)
             PROVE  /\ SumBy(answer.gainers \o answer.decliners, LAMBDA c : c.delta) = answer.delta
                    /\ answer.delta = SumBy(input.b, LAMBDA p : p.value) - SumBy(input.a, LAMBDA p : p.value)
  BY DEF ChangesAddUp
<1> DEFINE a == input.a
           b == input.b
           n == TopN(input.topN)
           pairs == a \o b
           keys == Firsts(pairs, LAMBDA p : p.key)
           F == PlacesOf(a, b)
           was == FoldsOf(a, a, b)
           is == FoldsOf(b, a, b)
           changes == [i \in DOMAIN pairs |->
                         [key |-> pairs[i].key,
                          a |-> MoneyRound(Folded(a, pairs[i].key)),
                          b |-> MoneyRound(Folded(b, pairs[i].key)),
                          delta |-> MoneyRound(Folded(b, pairs[i].key) - Folded(a, pairs[i].key))]]
           up == {i \in keys : changes[i].delta > 0}
           down == {i \in keys : - changes[i].delta > 0}
           rise == [i \in up |-> changes[i].delta]
           fall == [i \in down |-> - changes[i].delta]
           A == SumAt(keys, pairs, LAMBDA p : Folded(a, p.key))
           B == SumAt(keys, pairs, LAMBDA p : Folded(b, p.key))
           va == SumBy(a, LAMBDA p : p.value)
           vb == SumBy(b, LAMBDA p : p.value)
           total == vb - va
           gainers == Topmost(rise, changes, n)
           decliners == Topmost(fall, changes, n)
<1>1. input \in Inputs["compare"] /\ answer = Answer("compare", input, ClampLimit(limit))
  BY AnswerIs
<1>2. a \in KeyedPairs /\ b \in KeyedPairs /\ n \in Int
  <2>1. a \in KeyedPairs /\ b \in KeyedPairs /\ input.topN \in TopNs
    BY <1>1 DEF Inputs
  <2>2. input.topN \in Int
    BY <2>1, SalesAssumption
  <2>3. QED BY <2>1, <2>2 DEF TopN
<1>3. answer.delta = MoneyRound(B - A) /\ answer.gainers = gainers /\ answer.decliners = decliners
  BY <1>1 DEF Answer, AnalyticsTool, Compare, RankedAt, Topmost, RowsBy
<1>4. /\ DOMAIN pairs = 1 .. Len(a) + Len(b) /\ keys = F
      /\ \A i \in F : KeysOf(a, b)[i] = pairs[i].key
  <2> HIDE DEF a, b
  <2>1. QED BY <1>2, KeysAre
<1>5. /\ IsFiniteSet(F) /\ F \subseteq 1 .. Len(a) + Len(b)
      /\ \A i \in F : was[i] \in Int /\ WholeCents(was[i])
      /\ SumFunctionOnSet(was, F) = SumFunctionOnSet(ValuesOf(a), DOMAIN a)
  <2> HIDE DEF a, b
  <2>1. QED BY <1>2, FoldsAddUp
<1>6. /\ \A i \in F : is[i] \in Int /\ WholeCents(is[i])
      /\ SumFunctionOnSet(is, F) = SumFunctionOnSet(ValuesOf(b), DOMAIN b)
  <2> HIDE DEF a, b
  <2>1. QED BY <1>2, FoldsAddUp
<1>7. va = SumFunctionOnSet(ValuesOf(a), DOMAIN a) /\ vb = SumFunctionOnSet(ValuesOf(b), DOMAIN b)
  BY DEF SumBy, SumAt, SumFunction, ValuesOf
<1>8. ASSUME NEW i \in F PROVE was[i] = Folded(a, pairs[i].key) /\ is[i] = Folded(b, pairs[i].key)
  <2> HIDE DEF a, b
  <2>1. was[i] = Folded(a, KeysOf(a, b)[i]) /\ is[i] = Folded(b, KeysOf(a, b)[i])
    BY DEF FoldsOf
  <2>2. QED BY <1>4, <2>1
<1>9. A = SumFunctionOnSet(was, F) /\ B = SumFunctionOnSet(is, F)
  <2> DEFINE f == [i \in keys |-> Folded(a, pairs[i].key)]
             g == [i \in keys |-> Folded(b, pairs[i].key)]
             D == F
  <2>1. A = SumFunctionOnSet(f, keys) /\ B = SumFunctionOnSet(g, keys)
    BY DEF SumAt, SumFunction
  <2>2. (\A i \in keys : f[i] = Folded(a, pairs[i].key)) /\ \A i \in keys : g[i] = Folded(b, pairs[i].key)
    OBVIOUS
  <2> HIDE DEF f, g, keys, was, is, a, b, pairs, A, B
  <2>3. IsFiniteSet(D) /\ (\A i \in D : f[i] = was[i]) /\ (\A i \in D : g[i] = is[i])
    BY <1>4, <1>5, <1>8, <2>2
  <2>4. A = SumFunctionOnSet(f, D) /\ B = SumFunctionOnSet(g, D)
    BY <1>4, <2>1
  <2> HIDE DEF D
  <2>5. SumFunctionOnSet(f, D) = SumFunctionOnSet(was, D) /\ SumFunctionOnSet(g, D) = SumFunctionOnSet(is, D)
    BY <2>3, SumEqual
  <2>6. QED BY <2>4, <2>5 DEF D
<1>10. \A i \in F : changes[i].delta = MoneyRound(is[i] - was[i])
  <2> SUFFICES ASSUME NEW i \in F PROVE changes[i].delta = MoneyRound(is[i] - was[i])
    OBVIOUS
  <2> HIDE DEF a, b, pairs, F, was, is
  <2>1. i \in DOMAIN pairs
    BY <1>4, <1>5
  <2>2. changes[i].delta = MoneyRound(Folded(b, pairs[i].key) - Folded(a, pairs[i].key))
    BY <2>1
  <2>3. QED BY <1>8, <2>2
<1>11. /\ DOMAIN rise = up /\ \A i \in up : rise[i] = changes[i].delta
       /\ DOMAIN fall = down /\ \A i \in down : fall[i] = - changes[i].delta
  OBVIOUS
<1>12. /\ up \subseteq keys /\ down \subseteq keys
       /\ \A i \in keys : i \in up <=> changes[i].delta > 0
       /\ \A i \in keys : i \in down <=> - changes[i].delta > 0
  <2> HIDE DEF keys, changes
  <2>1. QED OBVIOUS
<1>13. Len(a) \in Nat /\ Len(b) \in Nat /\ n >= Len(a) + Len(b)
  BY <1>2, PairsFacts
<1>14. SUFFICES /\ SumBy(gainers \o decliners, LAMBDA c : c.delta) = MoneyRound(B - A)
                /\ MoneyRound(B - A) = total
  BY <1>3
<1> DEFINE d == [i \in F |-> is[i] - was[i]]
<1>15. \A i \in F : d[i] = is[i] - was[i]
  OBVIOUS
<1> HIDE DEF a, b, n, pairs, keys, F, changes, was, is, A, B, va, vb, up, down, rise, fall, d
<1>16. ASSUME NEW i \in F
       PROVE  /\ d[i] \in Int /\ WholeCents(d[i]) /\ changes[i].delta = d[i]
              /\ (i \in up <=> d[i] > 0) /\ (i \in down <=> d[i] < 0)
  <2> DEFINE x == is[i]
             y == was[i]
             z == d[i]
  <2>1. x \in Int /\ y \in Int /\ WholeCents(x) /\ WholeCents(y) /\ z = x - y
    BY <1>5, <1>6, <1>15
  <2>2. changes[i].delta = MoneyRound(z)
    BY <1>10, <1>15
  <2> HIDE DEF x, y, z
  <2>3. z \in Int /\ WholeCents(z)
    <3>1. WholeCents(x - y)
      BY <2>1, WholeSums
    <3>2. QED BY <2>1, <3>1
  <2>4. MoneyRound(z) = z
    BY <2>3, MoneyRoundFacts
  <2>5. changes[i].delta = z
    BY <2>2, <2>4
  <2>6. QED BY <1>4, <1>12, <2>3, <2>5 DEF z
<1>17. total \in Int /\ WholeCents(total) /\ SumFunctionOnSet(d, F) = total
  <2> DEFINE s == SumFunctionOnSet(d, F)
  <2>1. \A i \in F : is[i] \in Int /\ was[i] \in Int /\ d[i] = is[i] - was[i]
    BY <1>5, <1>6, <1>15
  <2>2. IsFiniteSet(F)
    BY <1>5
  <2>3. SumFunctionOnSet(d, F) = SumFunctionOnSet(is, F) - SumFunctionOnSet(was, F)
    BY <2>1, <2>2, SumMinus
  <2>4. s = total
    BY <1>5, <1>6, <1>7, <2>3
  <2>5. \A i \in F : d[i] \in Int /\ WholeCents(d[i])
    BY <1>16
  <2>6. s \in Int /\ WholeCents(s)
    BY <2>2, <2>5, SumWhole
  <2> HIDE DEF s
  <2>7. total \in Int /\ WholeCents(total)
    BY <2>4, <2>6
  <2>8. QED BY <2>4, <2>7 DEF s
<1>18. MoneyRound(B - A) = total
  <2>1. B - A = total
    BY <1>5, <1>6, <1>7, <1>9
  <2> HIDE DEF total
  <2>2. MoneyRound(total) = total
    BY <1>17, MoneyRoundFacts
  <2>3. QED BY <2>1, <2>2
<1>19. /\ IsFiniteSet(up) /\ IsFiniteSet(down) /\ up \cap down = {}
       /\ up \subseteq Nat /\ down \subseteq Nat /\ up \subseteq F /\ down \subseteq F
       /\ n >= Cardinality(up) /\ n >= Cardinality(down)
  <2> DEFINE m == Len(a) + Len(b)
             N == 1 .. m
  <2>1. m \in Nat /\ 1 \in Int /\ m \in Int /\ F \subseteq N
    BY <1>5, <1>13
  <2>2. IsFiniteSet(N) /\ Cardinality(N) = m
    <3> HIDE DEF m
    <3>1. QED BY <2>1, FS_Interval
  <2>3. N \subseteq Nat
    OBVIOUS
  <2>4. up \subseteq F /\ down \subseteq F /\ up \subseteq N /\ down \subseteq N
    <3> HIDE DEF N
    <3>1. QED BY <1>4, <1>12, <2>1
  <2> HIDE DEF N
  <2>5. IsFiniteSet(up) /\ IsFiniteSet(down) /\ Cardinality(up) <= m /\ Cardinality(down) <= m
    BY <2>2, <2>4, FS_Subset
  <2>6. Cardinality(up) \in Nat /\ Cardinality(down) \in Nat
    BY <2>5, FS_CardinalityType
  <2>7. up \cap down = {}
    <3> SUFFICES ASSUME NEW i \in up, i \in down PROVE FALSE
      OBVIOUS
    <3>1. i \in F
      BY <2>4
    <3>2. QED BY <1>16, <3>1
  <2>8. n >= Cardinality(up) /\ n >= Cardinality(down)
    <3> HIDE DEF m
    <3>1. n >= m
      BY <1>13 DEF m
    <3>2. QED BY <1>2, <2>1, <2>5, <2>6, <3>1
  <2>9. QED BY <2>3, <2>4, <2>5, <2>7, <2>8
<1> DEFINE p == Len(gainers)
           q == Len(decliners)
           f == DeltasOf(gainers)
           g == DeltasOf(decliners)
           T == {changes[i] : i \in DOMAIN rise} \cup {changes[i] : i \in DOMAIN fall}
<1>20. /\ gainers \in Seq({changes[i] : i \in DOMAIN rise}) /\ p \in Nat /\ \A k \in 1 .. p : f[k] \in Int
       /\ SumFunctionOnSet(f, 1 .. p) = SumFunctionOnSet(d, DOMAIN rise)
  <2>1. DOMAIN rise \subseteq Nat /\ IsFiniteSet(DOMAIN rise) /\ n >= Cardinality(DOMAIN rise)
    BY <1>11, <1>19
  <2>2. \A i \in DOMAIN rise : rise[i] \in Int
    BY <1>11, <1>16, <1>19
  <2>3. \A i \in DOMAIN rise : d[i] \in Int /\ changes[i].delta = d[i]
    BY <1>11, <1>16, <1>19
  <2>4. n \in Int
    BY <1>2
  <2> DEFINE v == rise
             top == Topmost(v, changes, n)
  <2>5. /\ DOMAIN v \subseteq Nat /\ IsFiniteSet(DOMAIN v) /\ n >= Cardinality(DOMAIN v) /\ n \in Int
        /\ \A i \in DOMAIN v : v[i] \in Int
        /\ \A i \in DOMAIN v : d[i] \in Int /\ changes[i].delta = d[i]
    BY <2>1, <2>2, <2>3, <2>4
  <2> HIDE DEF v
  <2>6. /\ top \in Seq({changes[i] : i \in DOMAIN v}) /\ Len(top) \in Nat
        /\ \A k \in 1 .. Len(top) : DeltasOf(top)[k] \in Int
        /\ SumFunctionOnSet(DeltasOf(top), 1 .. Len(top)) = SumFunctionOnSet(d, DOMAIN v)
    BY ONLY <2>5, TopmostAddUp DEF top
  <2>7. QED BY <2>6 DEF v
<1>21. /\ decliners \in Seq({changes[i] : i \in DOMAIN fall}) /\ q \in Nat /\ \A k \in 1 .. q : g[k] \in Int
       /\ SumFunctionOnSet(g, 1 .. q) = SumFunctionOnSet(d, DOMAIN fall)
  <2>1. DOMAIN fall \subseteq Nat /\ IsFiniteSet(DOMAIN fall) /\ n >= Cardinality(DOMAIN fall)
    BY <1>11, <1>19
  <2>2. \A i \in DOMAIN fall : d[i] \in Int /\ changes[i].delta = d[i]
    BY <1>11, <1>16, <1>19
  <2>3. \A i \in DOMAIN fall : fall[i] \in Int
    <3> SUFFICES ASSUME NEW i \in DOMAIN fall PROVE fall[i] \in Int
      OBVIOUS
    <3>1. fall[i] = - d[i] /\ d[i] \in Int
      BY <1>11, <2>2
    <3>2. QED BY <3>1
  <2>4. n \in Int
    BY <1>2
  <2> DEFINE v == fall
             top == Topmost(v, changes, n)
  <2>5. /\ DOMAIN v \subseteq Nat /\ IsFiniteSet(DOMAIN v) /\ n >= Cardinality(DOMAIN v) /\ n \in Int
        /\ \A i \in DOMAIN v : v[i] \in Int
        /\ \A i \in DOMAIN v : d[i] \in Int /\ changes[i].delta = d[i]
    BY <2>1, <2>2, <2>3, <2>4
  <2> HIDE DEF v
  <2>6. /\ top \in Seq({changes[i] : i \in DOMAIN v}) /\ Len(top) \in Nat
        /\ \A k \in 1 .. Len(top) : DeltasOf(top)[k] \in Int
        /\ SumFunctionOnSet(DeltasOf(top), 1 .. Len(top)) = SumFunctionOnSet(d, DOMAIN v)
    BY ONLY <2>5, TopmostAddUp DEF top
  <2>7. QED BY <2>6 DEF v
<1> DEFINE joined == gainers \o decliners
           l == p + q
           h == [k \in 1 .. l |-> joined[k].delta]
<1>22. /\ \A k \in 1 .. p : f[k] = gainers[k].delta
       /\ \A k \in 1 .. q : g[k] = decliners[k].delta
  <2> HIDE DEF gainers, decliners
  <2>1. QED BY DEF DeltasOf
<1>23. gainers \in Seq(T) /\ decliners \in Seq(T)
  BY <1>20, <1>21
<1> HIDE DEF gainers, decliners, f, g, T
<1>24. /\ DOMAIN joined = 1 .. l
       /\ \A k \in 1 .. p : joined[k] = gainers[k]
       /\ \A k \in 1 .. q : joined[p + k] = decliners[k]
  BY <1>23
<1>25. SumBy(joined, LAMBDA c : c.delta) = SumFunctionOnSet(h, 1 .. l)
  BY <1>24 DEF SumBy, SumAt, SumFunction
<1>26. /\ \A k \in 1 .. p : f[k] \in Int /\ h[k] = f[k]
       /\ \A k \in 1 .. q : g[k] \in Int /\ h[p + k] = g[k]
       /\ p \in Nat /\ q \in Nat /\ l = p + q
  <2>1. p \in Nat /\ q \in Nat /\ l = p + q
    BY <1>20, <1>21
  <2> HIDE DEF p, q
  <2>2. ASSUME NEW k \in 1 .. p PROVE h[k] = f[k]
    <3>1. k \in 1 .. l
      BY <2>1
    <3> HIDE DEF joined, l
    <3>2. QED BY <1>22, <1>24, <3>1
  <2>3. ASSUME NEW k \in 1 .. q PROVE h[p + k] = g[k]
    <3>1. p + k \in 1 .. l
      BY <2>1
    <3> HIDE DEF joined, l
    <3>2. QED BY <1>22, <1>24, <3>1
  <2> HIDE DEF h, l, joined
  <2>4. QED BY <1>20, <1>21, <2>1, <2>2, <2>3
<1> HIDE DEF h, l, p, q, joined
<1>27. SumFunctionOnSet(h, 1 .. l) = SumFunctionOnSet(d, up) + SumFunctionOnSet(d, down)
  <2>1. SumFunctionOnSet(h, 1 .. l) = SumFunctionOnSet(f, 1 .. p) + SumFunctionOnSet(g, 1 .. q)
    BY <1>26, SumJoined
  <2>2. QED BY <1>11, <1>20, <1>21, <2>1
<1>28. SumFunctionOnSet(d, up) + SumFunctionOnSet(d, down) = SumFunctionOnSet(d, F)
  <2> DEFINE moved == up \cup down
             same == F \ moved
  <2>1. moved \subseteq F /\ same \subseteq F /\ moved \cap same = {} /\ moved \cup same = F
    BY <1>19
  <2>2. \A i \in same : d[i] = 0
    BY <1>16
  <2>3. \A i \in F : d[i] \in Int
    BY <1>16
  <2>4. SumFunctionOnSet(d, moved) = SumFunctionOnSet(d, up) + SumFunctionOnSet(d, down)
    BY <1>19, <2>1, <2>3, SumUnion
  <2> HIDE DEF moved, same
  <2>5. IsFiniteSet(moved) /\ IsFiniteSet(same)
    BY <1>5, <2>1, FS_Subset
  <2>6. SumFunctionOnSet(d, moved \cup same) = SumFunctionOnSet(d, moved) + SumFunctionOnSet(d, same)
    BY <2>1, <2>3, <2>5, SumUnion
  <2>7. SumFunctionOnSet(d, same) = 0 /\ SumFunctionOnSet(d, moved) \in Int
    BY <2>1, <2>2, <2>3, <2>5, SumZero, SumType
  <2>8. SumFunctionOnSet(d, F) = SumFunctionOnSet(d, moved) + SumFunctionOnSet(d, same)
    BY <2>1, <2>6
  <2>9. QED BY <2>4, <2>7, <2>8
<1>29. QED BY <1>17, <1>18, <1>25, <1>27, <1>28 DEF joined

-----------------------------------------------------------------------------
(* The stores.                                                             *)

\* The function by which sequences are joined, of the first n of them.
IsJoin(h, s, n) == h = [i \in 1 .. n |-> IF i = 1 THEN s[i] ELSE h[i - 1] \o s[i]]

\* It exists.
LEMMA JoinExists ==
    ASSUME NEW s, NEW n \in Nat
    PROVE  \E h : IsJoin(h, s, n)
<1> DEFINE Bad == {m \in Nat : ~ \E h : IsJoin(h, s, m)}
<1>1. \E h : IsJoin(h, s, 0)
  <2> DEFINE h == [i \in 1 .. 0 |-> s[i]]
  <2>1. h = [i \in 1 .. 0 |-> IF i = 1 THEN s[i] ELSE h[i - 1] \o s[i]]
    OBVIOUS
  <2>2. QED BY <2>1 DEF IsJoin
<1>2. ASSUME NEW m \in Nat, m # 0, NEW h, IsJoin(h, s, m - 1) PROVE \E g : IsJoin(g, s, m)
  <2> DEFINE g == [i \in 1 .. m |-> IF i = 1 THEN s[i] ELSE h[i - 1] \o s[i]]
  <2>1. \A i \in 1 .. (m - 1) : h[i] = IF i = 1 THEN s[i] ELSE h[i - 1] \o s[i]
    BY <1>2 DEF IsJoin
  <2>2. ASSUME NEW i \in 1 .. m, i # 1 PROVE g[i - 1] = h[i - 1]
    <3> DEFINE j == i - 1
    <3>1. j \in 1 .. m /\ j \in 1 .. (m - 1)
      BY <2>2
    <3> HIDE DEF j
    <3>2. g[j] = IF j = 1 THEN s[j] ELSE h[j - 1] \o s[j]
      BY <3>1
    <3> HIDE DEF g
    <3>3. g[j] = h[j]
      BY <2>1, <3>1, <3>2
    <3>4. QED BY <3>3 DEF j
  <2>3. g = [i \in 1 .. m |-> IF i = 1 THEN s[i] ELSE g[i - 1] \o s[i]]
    BY <2>2
  <2> HIDE DEF g
  <2>4. QED BY <2>3 DEF IsJoin
<1>3. Bad = {}
  <2> SUFFICES ASSUME Bad # {} PROVE FALSE
    OBVIOUS
  <2>1. PICK m \in Bad : \A i \in Bad : m <= i
    BY Minimum
  <2>2. m # 0 /\ m - 1 \in Nat /\ m - 1 \notin Bad
    BY <1>1, <2>1
  <2>3. PICK h : IsJoin(h, s, m - 1)
    BY <2>2
  <2>4. QED BY <1>2, <2>2, <2>3
<1>4. QED BY <1>3

\* Sequences that are joined are the last value of that function.
LEMMA FlattenIs ==
    ASSUME NEW s, Len(s) \in Nat, Len(s) # 0
    PROVE  \E h : IsJoin(h, s, Len(s)) /\ FlattenSeq(s) = h[Len(s)]
<1> DEFINE h == CHOOSE g : IsJoin(g, s, Len(s))
<1>1. FlattenSeq(s) = h[Len(s)]
  BY DEF FlattenSeq, IsJoin
<1>2. IsJoin(h, s, Len(s))
  BY JoinExists
<1>3. QED BY <1>1, <1>2

\* Where a product lies, in each store, and what of it is available there.
Place == [store : STRING, stock : Int, reserve : Int, transit : Int]
StoresOf(rows) == [i \in DOMAIN rows |-> rows[i].stores]
AvailableIn(s) == [j \in DOMAIN s |-> s[j].stock - s[j].reserve]
AvailableBy(s) == [i \in DOMAIN s |-> SumFunctionOnSet(AvailableIn(s[i]), DOMAIN s[i])]

\* These are whole numbers.
LEMMA AvailableInFacts ==
    ASSUME NEW s \in Seq(Place)
    PROVE  /\ Len(s) \in Nat /\ DOMAIN s = 1 .. Len(s) /\ IsFiniteSet(1 .. Len(s))
           /\ \A j \in 1 .. Len(s) : /\ AvailableIn(s)[j] = s[j].stock - s[j].reserve
                                     /\ AvailableIn(s)[j] \in Int /\ s[j].stock \in Int
<1>1. Len(s) \in Nat /\ DOMAIN s = 1 .. Len(s) /\ \A j \in 1 .. Len(s) : s[j] \in Place
  <2> HIDE DEF Place
  <2>1. QED OBVIOUS
<1>2. ASSUME NEW j \in 1 .. Len(s)
      PROVE  /\ AvailableIn(s)[j] = s[j].stock - s[j].reserve
             /\ AvailableIn(s)[j] \in Int /\ s[j].stock \in Int
  <2> DEFINE p == s[j]
  <2>1. p \in Place
    BY <1>1
  <2>2. AvailableIn(s)[j] = p.stock - p.reserve
    BY <1>1 DEF AvailableIn
  <2> HIDE DEF p
  <2>3. p.stock \in Int /\ p.reserve \in Int
    BY <2>1 DEF Place
  <2>4. QED BY <2>2, <2>3 DEF p
<1>3. IsFiniteSet(1 .. Len(s))
  <2> DEFINE n == Len(s)
  <2>1. n \in Int /\ 1 \in Int
    BY <1>1
  <2> HIDE DEF n
  <2>2. IsFiniteSet(1 .. n)
    BY <2>1, FS_Interval
  <2>3. QED BY <2>2 DEF n
<1>4. QED BY <1>1, <1>2, <1>3

\* What is available in two lists of places is available in both of them together.
LEMMA AvailableJoined ==
    ASSUME NEW s \in Seq(Place), NEW t \in Seq(Place)
    PROVE  /\ s \o t \in Seq(Place)
           /\ SumFunctionOnSet(AvailableIn(s \o t), DOMAIN (s \o t))
                = SumFunctionOnSet(AvailableIn(s), DOMAIN s) + SumFunctionOnSet(AvailableIn(t), DOMAIN t)
<1> DEFINE u == s \o t
           m == Len(s)
           n == Len(t)
           l == Len(u)
           f == AvailableIn(s)
           g == AvailableIn(t)
           h == AvailableIn(u)
<1>1. /\ u \in Seq(Place) /\ l = m + n
      /\ \A i \in 1 .. m : u[i] = s[i]
      /\ \A i \in 1 .. n : u[m + i] = t[i]
  <2> HIDE DEF Place
  <2>1. QED OBVIOUS
<1> HIDE DEF u
<1>2. /\ m \in Nat /\ DOMAIN s = 1 .. m /\ n \in Nat /\ DOMAIN t = 1 .. n /\ DOMAIN u = 1 .. l
      /\ \A i \in 1 .. m : f[i] = s[i].stock - s[i].reserve /\ f[i] \in Int
      /\ \A i \in 1 .. n : g[i] = t[i].stock - t[i].reserve /\ g[i] \in Int
      /\ \A i \in 1 .. l : h[i] = u[i].stock - u[i].reserve
  BY <1>1, AvailableInFacts
<1> HIDE DEF m, n, l, f, g, h
<1>3. ASSUME NEW i \in 1 .. m PROVE f[i] \in Int /\ h[i] = f[i]
  <2>1. i \in 1 .. l
    BY <1>1, <1>2
  <2>2. QED BY <1>1, <1>2, <2>1
<1>4. ASSUME NEW i \in 1 .. n PROVE g[i] \in Int /\ h[m + i] = g[i]
  <2> DEFINE j == m + i
  <2>1. j \in 1 .. l /\ u[j] = t[i]
    BY <1>1, <1>2
  <2> HIDE DEF j
  <2>2. h[j] = g[i] /\ g[i] \in Int
    BY <1>2, <2>1
  <2>3. QED BY <2>2 DEF j
<1>5. SumFunctionOnSet(h, 1 .. l) = SumFunctionOnSet(f, 1 .. m) + SumFunctionOnSet(g, 1 .. n)
  <2>1. /\ \A i \in 1 .. m : f[i] \in Int /\ h[i] = f[i]
        /\ \A i \in 1 .. n : g[i] \in Int /\ h[m + i] = g[i]
        /\ m \in Nat /\ n \in Nat /\ l = m + n
    BY <1>1, <1>2, <1>3, <1>4
  <2> HIDE DEF m, n, l, f, g, h
  <2>2. QED BY ONLY <2>1, SumJoined, SMTT(60)
<1>6. QED BY <1>1, <1>2, <1>5 DEF u, f, g, h

\* What is available in all places is what is available of each product.
LEMMA AvailableFlat ==
    ASSUME NEW s \in Seq(Seq(Place))
    PROVE  /\ FlattenSeq(s) \in Seq(Place)
           /\ SumFunctionOnSet(AvailableIn(FlattenSeq(s)), DOMAIN FlattenSeq(s))
                = SumFunctionOnSet(AvailableBy(s), DOMAIN s)
<1> DEFINE n == Len(s)
           g == AvailableBy(s)
           Sum(t) == SumFunctionOnSet(AvailableIn(t), DOMAIN t)
<1>1. n \in Nat /\ DOMAIN s = 1 .. n /\ \A i \in 1 .. n : s[i] \in Seq(Place) /\ g[i] = Sum(s[i])
  <2> HIDE DEF Place
  <2>1. QED BY DEF AvailableBy
<1>2. ASSUME NEW i \in 1 .. n PROVE Sum(s[i]) \in Int /\ g[i] \in Int
  <2> DEFINE t == s[i]
  <2>1. t \in Seq(Place)
    BY <1>1
  <2> HIDE DEF t
  <2>2. Sum(t) \in Int
    BY <2>1, AvailableInFacts, SumType
  <2>3. QED BY <1>1, <2>2 DEF t
<1>3. \A i \in 1 .. n : IsFiniteSet(1 .. i) /\ IsFiniteSet(1 .. (i - 1))
  <2> SUFFICES ASSUME NEW i \in 1 .. n PROVE IsFiniteSet(1 .. i) /\ IsFiniteSet(1 .. (i - 1))
    OBVIOUS
  <2> DEFINE j == i - 1
  <2>1. 1 \in Int /\ i \in Int /\ j \in Int
    BY <1>1
  <2> HIDE DEF j
  <2>2. IsFiniteSet(1 .. i) /\ IsFiniteSet(1 .. j)
    BY <2>1, FS_Interval
  <2>3. QED BY <2>2 DEF j
<1>4. CASE n = 0
  <2>1. FlattenSeq(s) = s
    BY <1>4 DEF FlattenSeq
  <2>2. s \in Seq(Place) /\ DOMAIN s = {}
    BY <1>1, <1>4
  <2>3. Sum(s) = 0 /\ SumFunctionOnSet(g, {}) = 0
    BY <2>2, SumEmpty
  <2>4. QED BY <2>1, <2>2, <2>3
<1>5. CASE n # 0
  <2>1. PICK h : IsJoin(h, s, n) /\ FlattenSeq(s) = h[n]
    BY <1>1, <1>5, FlattenIs
  <2>2. \A i \in 1 .. n : h[i] = IF i = 1 THEN s[i] ELSE h[i - 1] \o s[i]
    BY <2>1 DEF IsJoin
  <2> DEFINE Good(i) == h[i] \in Seq(Place) /\ Sum(h[i]) = SumFunctionOnSet(g, 1 .. i)
             Bad == {i \in 1 .. n : ~ Good(i)}
  <2>3. ASSUME NEW i \in 1 .. n, i = 1 PROVE Good(i)
    <3>1. h[i] = s[i] /\ s[i] \in Seq(Place) /\ g[i] = Sum(s[i])
      BY <1>1, <2>2, <2>3
    <3>2. {} \cup {i} = 1 .. i /\ IsFiniteSet({}) /\ i \notin {} /\ \A y \in {} \cup {i} : g[y] \in Int
      BY <1>2, <2>3, FS_EmptySet
    <3>3. SumFunctionOnSet(g, {} \cup {i}) = g[i] + SumFunctionOnSet(g, {})
      BY <3>2, SumAdd
    <3>4. SumFunctionOnSet(g, 1 .. i) = g[i]
      <4>1. g[i] \in Int /\ SumFunctionOnSet(g, {}) = 0
        BY <1>2, SumEmpty
      <4>2. SumFunctionOnSet(g, {} \cup {i}) = g[i]
        BY <3>3, <4>1
      <4>3. {} \cup {i} = 1 .. i
        BY <2>3
      <4> HIDE DEF g
      <4>4. QED BY <4>2, <4>3
    <3>5. QED BY <3>1, <3>4
  <2>4. ASSUME NEW i \in 1 .. n, i # 1, Good(i - 1) PROVE Good(i)
    <3> DEFINE a == h[i - 1]
               b == s[i]
               A == 1 .. (i - 1)
    <3>1. h[i] = a \o b /\ a \in Seq(Place) /\ b \in Seq(Place) /\ g[i] = Sum(b)
      BY <1>1, <2>2, <2>4
    <3>2. Sum(a) = SumFunctionOnSet(g, A)
      BY <2>4
    <3>3. A \cup {i} = 1 .. i /\ IsFiniteSet(A) /\ i \notin A /\ A \subseteq 1 .. n
      <4>1. i \in Nat /\ n \in Nat /\ 1 <= i /\ i <= n
        BY <1>1
      <4>2. i \notin A /\ A \subseteq 1 .. n /\ A \cup {i} = 1 .. i
        BY <4>1
      <4>3. IsFiniteSet(A)
        BY <1>3
      <4>4. QED BY <4>2, <4>3
    <3> HIDE DEF a, b, A
    <3>4. a \o b \in Seq(Place) /\ Sum(a \o b) = Sum(a) + Sum(b)
      BY <3>1, AvailableJoined
    <3>5. \A y \in A \cup {i} : g[y] \in Int
      BY <1>2, <3>3
    <3>6. SumFunctionOnSet(g, A \cup {i}) = g[i] + SumFunctionOnSet(g, A)
      BY <3>3, <3>5, SumAdd
    <3>7. Sum(b) \in Int /\ SumFunctionOnSet(g, A) \in Int
      BY <1>2, <3>1, <3>3, <3>5, SumType
    <3>8. Sum(h[i]) = SumFunctionOnSet(g, 1 .. i)
      <4> DEFINE x == Sum(b)
                 y == SumFunctionOnSet(g, A)
      <4>1. Sum(h[i]) = y + x
        BY <3>1, <3>2, <3>4
      <4>2. SumFunctionOnSet(g, A \cup {i}) = x + y
        BY <3>1, <3>6
      <4>3. SumFunctionOnSet(g, A \cup {i}) = SumFunctionOnSet(g, 1 .. i)
        <5>1. A \cup {i} = 1 .. i
          BY <3>3
        <5> HIDE DEF g
        <5>2. QED BY <5>1
      <4>4. x \in Int /\ y \in Int
        BY <3>7
      <4> HIDE DEF x, y
      <4>5. QED BY <4>1, <4>2, <4>3, <4>4
    <3>9. QED BY <3>1, <3>4, <3>8
  <2> HIDE DEF Good
  <2>5. Bad = {}
    <3> SUFFICES ASSUME Bad # {} PROVE FALSE
      OBVIOUS
    <3>1. Bad \subseteq Nat
      BY <1>1
    <3>2. PICK m \in Bad : \A i \in Bad : m <= i
      BY <3>1, Minimum
    <3>3. m \in 1 .. n /\ m # 1 /\ m - 1 \in 1 .. n /\ m - 1 \notin Bad
      BY <1>1, <2>3, <3>2
    <3>4. QED BY <2>4, <3>2, <3>3
  <2>6. Good(n)
    <3>1. n \in 1 .. n
      BY <1>1, <1>5
    <3>2. QED BY <2>5, <3>1
  <2>7. QED BY <1>1, <2>1, <2>6 DEF Good
<1>6. QED BY <1>4, <1>5

\* The stores add up to what is available.
LEMMA StoresParts ==
    ASSUME Asked, Answered("stores")
    PROVE  StoresAddUp
<1> DEFINE rows == input.rows
           s == StoresOf(rows)
           places == FlattenSeq(s)
           A == DOMAIN places
           Inside(k) == Where(places, LAMBDA p : p.store = k)
           Held == Where(places, LAMBDA p : p.stock # 0 \/ p.reserve # 0 \/ p.transit # 0)
           Line(k) ==
             [store |-> k, positions |-> Cardinality(Inside(k) \cap Held),
              units |-> SumAt(Inside(k), places, LAMBDA p : p.stock),
              reserve |-> SumAt(Inside(k), places, LAMBDA p : p.reserve),
              available |-> SumAt(Inside(k), places, LAMBDA p : p.stock - p.reserve)]
           each == [i \in A |-> Line(places[i].store)]
           F == Firsts(places, LAMBDA p : p.store)
           lines == RankedAt(F, each, LAMBDA x : x.units)
           key == [i \in A |-> places[i].store]
           f == AvailableIn(places)
           g == [i \in F |-> each[i].available]
           P == [i \in F |-> Inside(key[i])]
           v == [i \in F |-> each[i].units]
           h == [k \in 1 .. Cardinality(F) |-> lines[k].available]
<1>1. input \in Inputs["stores"] /\ answer = Answer("stores", input, ClampLimit(limit))
  BY AnswerIs
<1>2. rows \in Seq([stores : Seq(Place)])
  <2>1. rows \in StoreRows
    BY <1>1 DEF Inputs
  <2>2. QED BY <2>1, GoodsAssumption DEF Place
<1>3. s \in Seq(Seq(Place)) /\ DOMAIN s = DOMAIN rows /\ \A i \in DOMAIN rows : s[i] = rows[i].stores
  <2> DEFINE Row == [stores : Seq(Place)]
             S == Seq(Place)
             n == Len(rows)
  <2>1. rows \in Seq(Row)
    BY <1>2
  <2> HIDE DEF Row, rows
  <2>2. n \in Nat /\ DOMAIN rows = 1 .. n /\ \A i \in 1 .. n : rows[i] \in Row
    BY <2>1
  <2>3. s = [i \in 1 .. n |-> rows[i].stores]
    BY <2>2 DEF StoresOf
  <2> HIDE DEF S
  <2>4. \A i \in 1 .. n : rows[i].stores \in S
    BY <2>2 DEF Row, S
  <2> HIDE DEF n, s
  <2>5. s \in Seq(S)
    BY <2>2, <2>3, <2>4
  <2>6. QED BY <2>2, <2>3, <2>5 DEF S
<1>4. places \in Seq(Place) /\ SumFunctionOnSet(f, A) = SumFunctionOnSet(AvailableBy(s), DOMAIN s)
  <2> HIDE DEF s
  <2>1. QED BY <1>3, AvailableFlat
<1>5. answer = Report([stores |-> Len(lines), units |-> SumBy(lines, LAMBDA x : x.units),
                       available |-> SumBy(lines, LAMBDA x : x.available)], lines, 0)
  BY <1>1 DEF Answer, CatalogTool, StockByStore, StoresOf
<1>6. answer.totals.available = SumBy(lines, LAMBDA x : x.available)
  <2> HIDE DEF lines
  <2>1. QED BY <1>5 DEF Report
<1> DEFINE n == Len(places)
<1>7. /\ n \in Nat /\ A = 1 .. n /\ IsFiniteSet(A)
      /\ \A j \in A : f[j] = places[j].stock - places[j].reserve /\ f[j] \in Int /\ places[j].stock \in Int
  <2> HIDE DEF places
  <2>1. QED BY <1>4, AvailableInFacts
<1>8. DOMAIN key = A /\ \A j \in A : key[j] = places[j].store
  OBVIOUS
<1> HIDE DEF places, s, f, n
<1>9. F = FirstPlaces(key)
  <2> DEFINE G == FirstPlaces(key)
  <2>1. F \subseteq A /\ \A i \in A : i \in F <=> ~ \E j \in 1 .. i - 1 : places[j].store = places[i].store
    BY DEF Firsts
  <2>2. G \subseteq A /\ \A i \in A : i \in G <=> ~ \E j \in 1 .. i - 1 : key[j] = key[i]
    BY <1>8 DEF FirstPlaces
  <2> HIDE DEF F, G, key
  <2>3. ASSUME NEW i \in A PROVE i \in F <=> i \in G
    <3>1. (\A j \in 1 .. i - 1 : key[j] = places[j].store) /\ key[i] = places[i].store
      BY <1>7, <1>8
    <3>2. (\E j \in 1 .. i - 1 : places[j].store = places[i].store) <=> \E j \in 1 .. i - 1 : key[j] = key[i]
      BY <3>1
    <3>3. QED BY <2>1, <2>2, <3>2
  <2>4. QED BY <2>1, <2>2, <2>3 DEF G
<1> HIDE DEF key
<1>10. /\ IsFiniteSet(F) /\ F \subseteq A
       /\ \A i, j \in F : key[i] = key[j] => i = j
       /\ \A i \in A : \E j \in F : key[j] = key[i]
  <2> HIDE DEF F
  <2>1. QED BY SMTT(60), <1>7, <1>8, <1>9, FirstsFacts
<1>11. ASSUME NEW i \in F
       PROVE  /\ P[i] \subseteq A /\ (\A j \in A : j \in P[i] <=> key[j] = key[i])
              /\ g[i] = SumFunctionOnSet(f, P[i]) /\ v[i] \in Int
  <2> DEFINE k == key[i]
             B == Inside(k)
             x == [j \in B |-> places[j].stock - places[j].reserve]
             y == [j \in B |-> places[j].stock]
  <2>1. i \in A /\ key[i] = places[i].store
    BY <1>8, <1>10
  <2>2. P[i] = B
    OBVIOUS
  <2>3. B \subseteq A /\ \A j \in A : j \in B <=> key[j] = k
    BY <1>8 DEF Where
  <2>4. g[i] = SumFunctionOnSet(x, B) /\ v[i] = SumFunctionOnSet(y, B)
    BY <2>1 DEF SumAt, SumFunction
  <2>5. (\A j \in B : x[j] = places[j].stock - places[j].reserve) /\ \A j \in B : y[j] = places[j].stock
    OBVIOUS
  <2> HIDE DEF B, x, y, k, g, v, P
  <2>6. IsFiniteSet(B) /\ (\A j \in B : x[j] = f[j]) /\ \A j \in B : y[j] \in Int
    BY <1>7, <2>3, <2>5, FS_Subset
  <2>7. SumFunctionOnSet(x, B) = SumFunctionOnSet(f, B)
    BY <2>6, SumEqual
  <2>8. v[i] \in Int
    BY <2>4, <2>6, SumType
  <2>9. QED BY <2>2, <2>3, <2>4, <2>7, <2>8 DEF k
<1>12. DOMAIN P = F /\ DOMAIN v = F /\ \A i \in F : g[i] = each[i].available
  OBVIOUS
<1>13. lines = [k \in DOMAIN Order(v) |-> each[Order(v)[k]]]
  BY DEF RankedAt
<1> HIDE DEF F, g, P, v, each, lines
<1>14. SumFunctionOnSet(g, F) = SumFunctionOnSet(f, A)
  <2>1. IsFiniteSet(A) /\ DOMAIN key = A /\ (\A j \in A : f[j] \in Int) /\ IsFiniteSet(F) /\ DOMAIN P = F
    BY <1>7, <1>8, <1>10, <1>12
  <2>2. \A i \in F : /\ P[i] \subseteq A /\ (\A j \in A : j \in P[i] <=> key[j] = key[i])
                     /\ g[i] = SumFunctionOnSet(f, P[i])
    BY <1>11
  <2> HIDE DEF A
  <2>3. QED BY SMTT(60), <1>10, <2>1, <2>2, SumKeyed
<1>15. /\ DOMAIN v \subseteq Nat /\ IsFiniteSet(DOMAIN v) /\ \A i \in DOMAIN v : v[i] \in Int
  BY <1>7, <1>10, <1>11, <1>12
<1>16. DOMAIN lines = 1 .. Cardinality(F) /\ \A k \in 1 .. Cardinality(F) :
          Order(v)[k] \in F /\ lines[k] = each[Order(v)[k]]
  <2>1. /\ DOMAIN Order(v) = 1 .. Cardinality(F)
        /\ \A k \in 1 .. Cardinality(F) : Order(v)[k] \in F
    BY <1>12, <1>15, OrderFacts
  <2>2. QED BY <1>13, <2>1
<1>17. \A i \in F : g[i] \in Int
  <2> SUFFICES ASSUME NEW i \in F PROVE g[i] \in Int
    OBVIOUS
  <2> DEFINE B == P[i]
  <2>1. B \subseteq A /\ g[i] = SumFunctionOnSet(f, B)
    BY <1>11
  <2> HIDE DEF B
  <2>2. IsFiniteSet(B) /\ \A j \in B : f[j] \in Int
    BY <1>7, <2>1, FS_Subset
  <2>3. QED BY <2>1, <2>2, SumType
<1>18. \A k \in 1 .. Cardinality(F) : h[k] = g[Order(v)[k]]
  BY <1>12, <1>16
<1>19. SumBy(lines, LAMBDA x : x.available) = SumFunctionOnSet(h, 1 .. Cardinality(F))
  BY <1>16 DEF SumBy, SumAt, SumFunction
<1> HIDE DEF h
<1>20. SumFunctionOnSet(h, 1 .. Cardinality(F)) = SumFunctionOnSet(g, F)
  <2>1. \A k \in 1 .. Cardinality(DOMAIN v) : h[k] = g[Order(v)[k]]
    BY <1>12, <1>18
  <2>2. \A i \in DOMAIN v : g[i] \in Int
    BY <1>12, <1>17
  <2>3. SumFunctionOnSet(h, 1 .. Cardinality(DOMAIN v)) = SumFunctionOnSet(g, DOMAIN v)
    BY <1>15, <2>1, <2>2, SumRanked
  <2>4. QED BY <1>12, <2>3
<1>21. SumBy(rows, LAMBDA r : SumBy(r.stores, LAMBDA p : p.stock - p.reserve))
         = SumFunctionOnSet(AvailableBy(s), DOMAIN s)
  <2> DEFINE w == [i \in DOMAIN rows |-> SumBy(rows[i].stores, LAMBDA p : p.stock - p.reserve)]
             D == DOMAIN rows
  <2>1. SumBy(rows, LAMBDA r : SumBy(r.stores, LAMBDA p : p.stock - p.reserve)) = SumFunctionOnSet(w, D)
    BY DEF SumBy, SumAt, SumFunction
  <2>2. ASSUME NEW i \in D PROVE w[i] = AvailableBy(s)[i]
    <3>1. s[i] = rows[i].stores /\ i \in DOMAIN s
      BY <1>3
    <3>2. w[i] = SumFunctionOnSet(AvailableIn(s[i]), DOMAIN s[i])
      BY <3>1 DEF SumBy, SumAt, SumFunction, AvailableIn
    <3>3. QED BY <3>1, <3>2 DEF AvailableBy
  <2>3. IsFiniteSet(D)
    <3> DEFINE Row == [stores : Seq(Place)]
               m == Len(rows)
    <3> HIDE DEF Row
    <3>1. m \in Nat /\ D = 1 .. m /\ 1 \in Int /\ m \in Int
      BY <1>2 DEF Row
    <3> HIDE DEF m
    <3>2. QED BY <3>1, FS_Interval
  <2> HIDE DEF w, D
  <2>4. SumFunctionOnSet(w, D) = SumFunctionOnSet(AvailableBy(s), D)
    BY <2>2, <2>3, SumEqual
  <2>5. QED BY <1>3, <2>1, <2>4 DEF D
<1>22. QED BY <1>4, <1>6, <1>14, <1>19, <1>20, <1>21 DEF StoresAddUp, rows

-----------------------------------------------------------------------------
(* The effects of a bridge.                                                *)

\* What is sold of products in a period.
Sold(a) ==
    /\ IsFiniteSet(DOMAIN a)
    /\ \A k \in DOMAIN a : /\ a[k].qty \in Nat \ {0}
                           /\ a[k].revenue \in Int /\ WholeCents(a[k].revenue)
                           /\ a[k].cost \in Int /\ WholeCents(a[k].cost)

\* The lines of a period, taken together by product, are such.
LEMMA ByIdIsSold ==
    ASSUME NEW rows \in PeriodRows
    PROVE  Sold(ById(ProfitLines(rows)))
<1> DEFINE s == ProfitLines(rows)
           sold == Where(s, LAMBDA x : x.qty > 0)
           Of(k) == {i \in sold : s[i].id = k}
           K == {s[i].id : i \in sold}
           a == ById(s)
           ids == [i \in sold |-> s[i].id]
<1>1. /\ IsFiniteSet(DOMAIN s)
      /\ \A i \in DOMAIN s : /\ s[i].qty \in Int /\ s[i].revenue \in Int /\ s[i].cost \in Int
                             /\ WholeCents(s[i].revenue) /\ WholeCents(s[i].cost)
  BY ProfitLinesFacts
<1>2. a = [k \in K |-> [qty |-> SumAt(Of(k), s, LAMBDA x : x.qty),
                        revenue |-> SumAt(Of(k), s, LAMBDA x : x.revenue),
                        cost |-> SumAt(Of(k), s, LAMBDA x : x.cost)]]
  BY DEF ById
<1>3. sold \subseteq DOMAIN s /\ \A i \in sold : s[i].qty > 0
  BY DEF Where
<1>4. ASSUME NEW k \in K PROVE Of(k) \subseteq sold /\ Of(k) # {}
  OBVIOUS
<1>5. DOMAIN a = K
  <2> HIDE DEF s, sold, Of, K, a
  <2>1. QED BY <1>2
<1>6. IsFiniteSet(sold)
  <2> HIDE DEF s, sold
  <2>1. QED BY <1>1, <1>3, FS_Subset
<1>7. IsFiniteSet(K)
  <2>1. K = {ids[i] : i \in sold}
    OBVIOUS
  <2> HIDE DEF K, ids, sold
  <2>2. QED BY <1>6, <2>1, FiniteImage
<1>8. ASSUME NEW k \in K
      PROVE  /\ a[k].qty \in Nat \ {0}
             /\ a[k].revenue \in Int /\ WholeCents(a[k].revenue)
             /\ a[k].cost \in Int /\ WholeCents(a[k].cost)
  <2> DEFINE B == Of(k)
             q == [i \in B |-> s[i].qty]
             r == [i \in B |-> s[i].revenue]
             c == [i \in B |-> s[i].cost]
  <2>1. /\ a[k].qty = SumFunctionOnSet(q, B) /\ a[k].revenue = SumFunctionOnSet(r, B)
        /\ a[k].cost = SumFunctionOnSet(c, B)
    <3> HIDE DEF s, sold, Of, K, a
    <3>1. QED BY <1>2 DEF SumAt, SumFunction
  <2>2. (\A i \in B : q[i] = s[i].qty) /\ (\A i \in B : r[i] = s[i].revenue) /\ \A i \in B : c[i] = s[i].cost
    OBVIOUS
  <2>3. B \subseteq sold /\ B # {}
    BY <1>4
  <2> HIDE DEF s, sold, Of, K, a, B, q, r, c
  <2>4. /\ IsFiniteSet(B) /\ \A i \in B : q[i] \in Nat /\ q[i] > 0
    BY <1>1, <1>3, <1>6, <2>2, <2>3, FS_Subset
  <2>5. (\A i \in B : r[i] \in Int /\ WholeCents(r[i])) /\ \A i \in B : c[i] \in Int /\ WholeCents(c[i])
    BY <1>1, <1>3, <2>2, <2>3
  <2>6. PICK i \in B : TRUE
    BY <2>3
  <2>7. q[i] \in Nat /\ q[i] > 0 /\ SumFunctionOnSet(q, {i}) = q[i]
    <3>1. {} \cup {i} = {i} /\ IsFiniteSet({}) /\ i \notin {} /\ \A y \in {} \cup {i} : q[y] \in Int
      BY <2>4, FS_EmptySet
    <3>2. SumFunctionOnSet(q, {} \cup {i}) = q[i] + SumFunctionOnSet(q, {})
      BY <3>1, SumAdd
    <3>3. SumFunctionOnSet(q, {}) = 0
      BY SumEmpty
    <3>4. QED BY <2>4, <3>1, <3>2, <3>3
  <2>8. SumFunctionOnSet(q, B) \in Nat \ {0}
    <3>1. {i} \in SUBSET B /\ \A j \in B : q[j] \in Nat
      BY <2>4
    <3>2. SumFunctionOnSet(q, {i}) <= SumFunctionOnSet(q, B) /\ SumFunctionOnSet(q, B) \in Int
      BY <2>4, <3>1, SumSubset, SumType
    <3>3. QED BY <2>7, <3>2
  <2>9. /\ SumFunctionOnSet(r, B) \in Int /\ WholeCents(SumFunctionOnSet(r, B))
        /\ SumFunctionOnSet(c, B) \in Int /\ WholeCents(SumFunctionOnSet(c, B))
    BY <2>4, <2>5, SumWhole
  <2>10. QED BY <2>1, <2>8, <2>9
<1>9. Sold(a)
  <2> HIDE DEF s, sold, Of, K, a
  <2>1. QED BY <1>5, <1>7, <1>8 DEF Sold
<1>10. QED BY <1>9

\* The quotients of equal fractions are equal.
LEMMA SameQuotient ==
    ASSUME NEW m \in Int, NEW r \in Int, NEW q \in Nat \ {0}, NEW p \in Nat \ {0}, m * p = r * q
    PROVE  m \div q = r \div p
<1> DEFINE d == m \div q
           e == r \div p
<1>1. d \in Int /\ q * d <= m /\ m < q * d + q
  BY Division
<1>2. e \in Int /\ p * e <= r /\ r < p * e + p
  BY Division
<1> HIDE DEF d, e
<1>3. q * (d + 1) = q * d + q /\ p * (e + 1) = p * e + p
  BY <1>1, <1>2
<1>4. /\ (q * d) * p <= m * p /\ m * p < (q * (d + 1)) * p
      /\ (p * e) * q <= r * q /\ r * q < (p * (e + 1)) * q
  <2>1. ASSUME NEW x \in Int, NEW y \in Int, NEW z \in Nat \ {0}, x <= y PROVE x * z <= y * z
    BY <2>1
  <2>2. ASSUME NEW x \in Int, NEW y \in Int, NEW z \in Nat \ {0}, x < y PROVE x * z < y * z
    <3>1. x + 1 <= y /\ x + 1 \in Int
      BY <2>2
    <3>2. (x + 1) * z <= y * z /\ (x + 1) * z = x * z + z /\ x * z \in Int /\ y * z \in Int
      BY <2>1, <3>1
    <3>3. QED BY <3>2
  <2>3. q * d \in Int /\ q * (d + 1) \in Int /\ p * e \in Int /\ p * (e + 1) \in Int
    BY <1>1, <1>2
  <2>4. m < q * (d + 1) /\ r < p * (e + 1)
    BY <1>1, <1>2, <1>3
  <2>5. QED BY <1>1, <1>2, <2>1, <2>2, <2>3, <2>4
<1> DEFINE w == q * p
<1>5. /\ w \in Nat \ {0} /\ (q * d) * p = w * d /\ (q * (d + 1)) * p = w * (d + 1)
      /\ (p * e) * q = w * e /\ (p * (e + 1)) * q = w * (e + 1)
  <2>1. w \in Nat \ {0}
    OBVIOUS
  <2>2. QED BY <1>1, <1>2, <2>1
<1> HIDE DEF w
<1>6. w * d < w * (e + 1) /\ w * e < w * (d + 1)
  <2> DEFINE mp == m * p
             rq == r * q
  <2>1. mp = rq /\ mp \in Int
    OBVIOUS
  <2>2. w * d <= mp /\ mp < w * (d + 1) /\ w * e <= rq /\ rq < w * (e + 1)
    BY <1>4, <1>5
  <2>3. w * d \in Int /\ w * e \in Int /\ w * (d + 1) \in Int /\ w * (e + 1) \in Int
    BY <1>1, <1>2, <1>5
  <2> HIDE DEF mp, rq
  <2>4. QED BY <2>1, <2>2, <2>3
<1>7. ASSUME NEW x \in Int, NEW y \in Int, w * x < w * (y + 1) PROVE x <= y
  <2>1. ASSUME y + 1 <= x PROVE FALSE
    <3>1. w * (y + 1) <= w * x
      BY <1>5, <2>1
    <3>2. w * (y + 1) \in Int /\ w * x \in Int
      BY <1>5
    <3>3. QED BY <1>7, <3>1, <3>2
  <2>2. QED BY <2>1
<1>8. d = e
  BY <1>1, <1>2, <1>6, <1>7
<1>9. QED BY <1>8 DEF d, e

\* The effects of a product sold in both periods make up its change.  Where its unit
\* price or its unit cost did not change, that effect is none; where its quantity did
\* not, the rest is what the divisions leave.
LEMMA EffectsOf ==
    ASSUME NEW x, NEW y, x.qty \in Nat \ {0}, y.qty \in Nat \ {0},
           x.revenue \in Int, x.cost \in Int, y.revenue \in Int, y.cost \in Int
    PROVE  /\ PriceEffect(x, y) \in Int /\ CostEffect(x, y) \in Int /\ QuantityEffect(x, y) \in Int
           /\ Gross(x) \in Int /\ Gross(y) \in Int
           /\ PriceEffect(x, y) + CostEffect(x, y) + QuantityEffect(x, y) = Gross(y) - Gross(x)
           /\ x.revenue * y.qty = y.revenue * x.qty => PriceEffect(x, y) = 0
           /\ x.cost * y.qty = y.cost * x.qty => CostEffect(x, y) = 0
           /\ x.qty = y.qty => /\ QuantityEffect(x, y) <= 2 * x.qty
                               /\ - QuantityEffect(x, y) <= 2 * x.qty
<1> DEFINE q == x.qty
           p == y.qty
           m == x.revenue
           n == x.cost
           r == y.revenue
           t == y.cost
           u == m \div q
           c == n \div q
           v == r \div p
           k == t \div p
<1>1. q \in Nat \ {0} /\ p \in Nat \ {0} /\ m \in Int /\ n \in Int /\ r \in Int /\ t \in Int
  OBVIOUS
<1>2. /\ PriceEffect(x, y) = p * (v - u) /\ CostEffect(x, y) = - (p * (k - c))
      /\ Gross(x) = m - n /\ Gross(y) = r - t
  BY DEF PriceEffect, CostEffect, Gross
<1>3. QuantityEffect(x, y) = Gross(y) - Gross(x) - PriceEffect(x, y) - CostEffect(x, y)
  BY DEF QuantityEffect
<1>4. (m * p = r * q => u = v) /\ (n * p = t * q => c = k)
  <2> HIDE DEF q, p, m, n, r, t
  <2>1. (m * p = r * q => u = v)
    BY <1>1, SameQuotient
  <2>2. (n * p = t * q => c = k)
    BY <1>1, SameQuotient
  <2>3. QED BY <2>1, <2>2
<1>5. /\ u \in Int /\ q * u <= m /\ m < q * u + q /\ c \in Int /\ q * c <= n /\ n < q * c + q
      /\ v \in Int /\ p * v <= r /\ r < p * v + p /\ k \in Int /\ p * k <= t /\ t < p * k + p
  <2> HIDE DEF q, p, m, n, r, t
  <2>1. QED BY <1>1, Division
<1> HIDE DEF q, p, m, n, r, t, u, c, v, k
<1> DEFINE pu == p * u
           pc == p * c
           pv == p * v
           pk == p * k
<1>6. pu \in Int /\ pc \in Int /\ pv \in Int /\ pk \in Int
  BY <1>1, <1>5
<1>7. p * (v - u) = pv - pu /\ p * (k - c) = pk - pc
  BY <1>1, <1>5
<1>8. /\ pv <= r /\ r < pv + p /\ pk <= t /\ t < pk + p
      /\ q = p => pu <= m /\ m < pu + p /\ pc <= n /\ n < pc + p
  BY <1>5
<1>9. (u = v => pu = pv) /\ (c = k => pc = pk)
  OBVIOUS
<1> HIDE DEF pu, pc, pv, pk
<1>10. PriceEffect(x, y) = pv - pu /\ CostEffect(x, y) = pc - pk
  BY <1>2, <1>6, <1>7
<1>11. QuantityEffect(x, y) = (r - t) - (m - n) - (pv - pu) - (pc - pk)
  BY <1>2, <1>3, <1>10
<1>12. /\ m * p = r * q => PriceEffect(x, y) = 0
       /\ n * p = t * q => CostEffect(x, y) = 0
       /\ q = p => QuantityEffect(x, y) <= 2 * q /\ - QuantityEffect(x, y) <= 2 * q
  <2>1. m * p = r * q => PriceEffect(x, y) = 0
    BY <1>4, <1>6, <1>9, <1>10
  <2>2. n * p = t * q => CostEffect(x, y) = 0
    BY <1>4, <1>6, <1>9, <1>10
  <2>3. q = p => QuantityEffect(x, y) <= 2 * q /\ - QuantityEffect(x, y) <= 2 * q
    BY <1>1, <1>6, <1>8, <1>11
  <2>4. QED BY <2>1, <2>2, <2>3
<1>13. /\ PriceEffect(x, y) \in Int /\ CostEffect(x, y) \in Int /\ QuantityEffect(x, y) \in Int
       /\ Gross(x) \in Int /\ Gross(y) \in Int
       /\ PriceEffect(x, y) + CostEffect(x, y) + QuantityEffect(x, y) = Gross(y) - Gross(x)
  BY <1>1, <1>2, <1>6, <1>10, <1>11
<1>14. QED BY <1>12, <1>13 DEF q, p, m, n, r, t

\* The gross profit of each product, its change, and the effects that make it up.
GrossOf(a) == [k \in DOMAIN a |-> Gross(a[k])]
ChangesOf(a, b) ==
    [k \in DOMAIN a \cup DOMAIN b |->
        (IF k \in DOMAIN b THEN Gross(b[k]) ELSE 0) - (IF k \in DOMAIN a THEN Gross(a[k]) ELSE 0)]
PricesOf(a, b) == [k \in DOMAIN a \cap DOMAIN b |-> PriceEffect(a[k], b[k])]
CostsOf(a, b) == [k \in DOMAIN a \cap DOMAIN b |-> CostEffect(a[k], b[k])]
QuantitiesOf(a, b) == [k \in DOMAIN a \cap DOMAIN b |-> QuantityEffect(a[k], b[k])]

\* The gross profit is revenue less cost.
LEMMA GrossFacts ==
    ASSUME NEW a, Sold(a)
    PROVE  /\ IsFiniteSet(DOMAIN a)
           /\ \A k \in DOMAIN a : /\ GrossOf(a)[k] = Gross(a[k])
                                  /\ GrossOf(a)[k] \in Int /\ WholeCents(GrossOf(a)[k])
<1>1. ASSUME NEW k \in DOMAIN a
      PROVE  GrossOf(a)[k] = Gross(a[k]) /\ GrossOf(a)[k] \in Int /\ WholeCents(GrossOf(a)[k])
  <2> DEFINE x == a[k].revenue
             y == a[k].cost
  <2>1. x \in Int /\ y \in Int /\ WholeCents(x) /\ WholeCents(y)
    BY DEF Sold
  <2>2. GrossOf(a)[k] = Gross(a[k]) /\ Gross(a[k]) = x - y
    BY DEF GrossOf, Gross
  <2> HIDE DEF x, y
  <2>3. WholeCents(x - y) /\ x - y \in Int
    BY <2>1, WholeSums
  <2>4. QED BY <2>2, <2>3
<1>2. QED BY <1>1 DEF Sold

\* The changes of the products add up to the change of the sums.
LEMMA ChangesOfFacts ==
    ASSUME NEW a, NEW b, Sold(a), Sold(b)
    PROVE  /\ \A k \in DOMAIN a \cup DOMAIN b :
                ChangesOf(a, b)[k] \in Int /\ WholeCents(ChangesOf(a, b)[k])
           /\ SumFunctionOnSet(ChangesOf(a, b), DOMAIN a \cup DOMAIN b)
                = SumFunctionOnSet(GrossOf(b), DOMAIN b) - SumFunctionOnSet(GrossOf(a), DOMAIN a)
<1> DEFINE A == DOMAIN a
           B == DOMAIN b
           D == A \cup B
           f == GrossOf(a)
           g == GrossOf(b)
           h == ChangesOf(a, b)
           was == [k \in D |-> IF k \in A THEN f[k] ELSE 0]
           is == [k \in D |-> IF k \in B THEN g[k] ELSE 0]
<1>1. /\ IsFiniteSet(A) /\ \A k \in A : f[k] = Gross(a[k]) /\ f[k] \in Int /\ WholeCents(f[k])
  BY GrossFacts
<1>2. /\ IsFiniteSet(B) /\ \A k \in B : g[k] = Gross(b[k]) /\ g[k] \in Int /\ WholeCents(g[k])
  BY GrossFacts
<1>3. \A k \in D : h[k] = (IF k \in B THEN Gross(b[k]) ELSE 0) - (IF k \in A THEN Gross(a[k]) ELSE 0)
  BY DEF ChangesOf
<1>4. IsFiniteSet(D)
  BY <1>1, <1>2, FS_Union
<1>5. /\ \A k \in D : was[k] = IF k \in A THEN f[k] ELSE 0
      /\ \A k \in D : is[k] = IF k \in B THEN g[k] ELSE 0
      /\ A \subseteq D /\ B \subseteq D /\ \A k \in D : k \in A \/ k \in B
  OBVIOUS
<1> HIDE DEF A, B, D, f, g, h, was, is
<1>6. WholeCents(0)
  BY WholeSums
<1>7. ASSUME NEW k \in D
      PROVE  /\ was[k] \in Int /\ WholeCents(was[k]) /\ is[k] \in Int /\ WholeCents(is[k])
             /\ h[k] = is[k] - was[k]
  <2>1. was[k] \in Int /\ WholeCents(was[k]) /\ was[k] = IF k \in A THEN Gross(a[k]) ELSE 0
    BY <1>1, <1>5, <1>6
  <2>2. is[k] \in Int /\ WholeCents(is[k]) /\ is[k] = IF k \in B THEN Gross(b[k]) ELSE 0
    BY <1>2, <1>5, <1>6
  <2>3. h[k] = is[k] - was[k]
    BY <1>3, <2>1, <2>2
  <2>4. QED BY <2>1, <2>2, <2>3
<1>8. ASSUME NEW k \in D PROVE h[k] \in Int /\ WholeCents(h[k])
  <2> DEFINE x == is[k]
             y == was[k]
  <2>1. x \in Int /\ WholeCents(x) /\ y \in Int /\ WholeCents(y) /\ h[k] = x - y
    BY <1>7
  <2> HIDE DEF x, y
  <2>2. WholeCents(x - y) /\ x - y \in Int
    BY <2>1, WholeSums
  <2>3. QED BY <2>1, <2>2
<1>9. SumFunctionOnSet(h, D) = SumFunctionOnSet(is, D) - SumFunctionOnSet(was, D)
  BY <1>4, <1>7, SumMinus
<1>10. SumFunctionOnSet(was, D) = SumFunctionOnSet(f, A)
  <2> DEFINE E == D \ A
  <2>1. IsFiniteSet(A) /\ IsFiniteSet(E) /\ A \cap E = {} /\ A \cup E = D
    BY <1>4, <1>5, FS_Difference, <1>1
  <2>2. (\A k \in E : was[k] = 0) /\ (\A k \in A : was[k] = f[k]) /\ \A k \in A \cup E : was[k] \in Int
    BY <1>5, <1>7, <2>1
  <2> HIDE DEF E
  <2>3. SumFunctionOnSet(was, A \cup E) = SumFunctionOnSet(was, A) + SumFunctionOnSet(was, E)
    BY <2>1, <2>2, SumUnion
  <2>4. SumFunctionOnSet(was, E) = 0 /\ SumFunctionOnSet(was, A) = SumFunctionOnSet(f, A)
    BY <2>1, <2>2, SumZero, SumEqual
  <2>5. SumFunctionOnSet(f, A) \in Int
    BY <1>1, SumType
  <2>6. QED BY <2>1, <2>3, <2>4, <2>5
<1>11. SumFunctionOnSet(is, D) = SumFunctionOnSet(g, B)
  <2> DEFINE E == D \ B
  <2>1. IsFiniteSet(B) /\ IsFiniteSet(E) /\ B \cap E = {} /\ B \cup E = D
    BY <1>4, <1>5, FS_Difference, <1>2
  <2>2. (\A k \in E : is[k] = 0) /\ (\A k \in B : is[k] = g[k]) /\ \A k \in B \cup E : is[k] \in Int
    BY <1>5, <1>7, <2>1
  <2> HIDE DEF E
  <2>3. SumFunctionOnSet(is, B \cup E) = SumFunctionOnSet(is, B) + SumFunctionOnSet(is, E)
    BY <2>1, <2>2, SumUnion
  <2>4. SumFunctionOnSet(is, E) = 0 /\ SumFunctionOnSet(is, B) = SumFunctionOnSet(g, B)
    BY <2>1, <2>2, SumZero, SumEqual
  <2>5. SumFunctionOnSet(g, B) \in Int
    BY <1>2, SumType
  <2>6. QED BY <2>1, <2>3, <2>4, <2>5
<1>12. QED BY <1>8, <1>9, <1>10, <1>11 DEF A, B, D, f, g, h

\* The effects of the products sold in both periods, and what was sold in one alone,
\* add up to the change of the sums.
LEMMA EffectsSplit ==
    ASSUME NEW a, NEW b, Sold(a), Sold(b)
    PROVE  LET C == DOMAIN a \cap DOMAIN b
               price == SumFunctionOnSet(PricesOf(a, b), C)
               cost == SumFunctionOnSet(CostsOf(a, b), C)
               quantity == SumFunctionOnSet(QuantitiesOf(a, b), C)
               new == SumFunctionOnSet(GrossOf(b), DOMAIN b \ DOMAIN a)
               gone == SumFunctionOnSet(GrossOf(a), DOMAIN a \ DOMAIN b)
               was == SumFunctionOnSet(GrossOf(a), DOMAIN a)
               is == SumFunctionOnSet(GrossOf(b), DOMAIN b)
           IN  /\ price \in Int /\ cost \in Int /\ quantity \in Int
               /\ was \in Int /\ WholeCents(was) /\ is \in Int /\ WholeCents(is)
               /\ new \in Int /\ WholeCents(new) /\ gone \in Int /\ WholeCents(gone)
               /\ price + cost + quantity + new - gone = is - was
               /\ (\A k \in C : PricesOf(a, b)[k] = 0) => price = 0
               /\ (\A k \in C : CostsOf(a, b)[k] = 0) => cost = 0
<1> DEFINE A == DOMAIN a
           B == DOMAIN b
           C == DOMAIN a \cap DOMAIN b
           OnlyA == DOMAIN a \ DOMAIN b
           OnlyB == DOMAIN b \ DOMAIN a
           f == GrossOf(a)
           g == GrossOf(b)
           p == PricesOf(a, b)
           c == CostsOf(a, b)
           q == QuantitiesOf(a, b)
           pc == [k \in C |-> p[k] + c[k]]
           d == [k \in C |-> g[k] - f[k]]
<1>1. /\ IsFiniteSet(A) /\ \A k \in A : f[k] = Gross(a[k]) /\ f[k] \in Int /\ WholeCents(f[k])
  BY GrossFacts
<1>2. /\ IsFiniteSet(B) /\ \A k \in B : g[k] = Gross(b[k]) /\ g[k] \in Int /\ WholeCents(g[k])
  BY GrossFacts
<1>3. ASSUME NEW k \in C
      PROVE  p[k] \in Int /\ c[k] \in Int /\ q[k] \in Int /\ p[k] + c[k] + q[k] = g[k] - f[k]
  <2> DEFINE x == a[k]
             y == b[k]
  <2>1. /\ x.qty \in Nat \ {0} /\ y.qty \in Nat \ {0}
        /\ x.revenue \in Int /\ x.cost \in Int /\ y.revenue \in Int /\ y.cost \in Int
    BY DEF Sold
  <2>2. p[k] = PriceEffect(x, y) /\ c[k] = CostEffect(x, y) /\ q[k] = QuantityEffect(x, y)
    BY DEF PricesOf, CostsOf, QuantitiesOf
  <2>3. f[k] = Gross(x) /\ g[k] = Gross(y)
    BY <1>1, <1>2
  <2> HIDE DEF x, y
  <2>4. QED BY <2>1, <2>2, <2>3, EffectsOf
<1>4. /\ C \subseteq A /\ C \subseteq B /\ C \cap OnlyA = {} /\ C \cap OnlyB = {}
      /\ C \cup OnlyA = A /\ C \cup OnlyB = B
  OBVIOUS
<1>5. (\A k \in C : pc[k] = p[k] + c[k]) /\ \A k \in C : d[k] = g[k] - f[k]
  OBVIOUS
<1> HIDE DEF A, B, C, OnlyA, OnlyB, f, g, p, c, q, pc, d
<1>6. IsFiniteSet(C) /\ IsFiniteSet(OnlyA) /\ IsFiniteSet(OnlyB)
  <2>1. OnlyA \subseteq A /\ OnlyB \subseteq B
    BY <1>4
  <2>2. QED BY <1>1, <1>2, <1>4, <2>1, FS_Subset
<1>7. /\ SumFunctionOnSet(f, A) = SumFunctionOnSet(f, C) + SumFunctionOnSet(f, OnlyA)
      /\ SumFunctionOnSet(g, B) = SumFunctionOnSet(g, C) + SumFunctionOnSet(g, OnlyB)
  <2>1. (\A k \in C \cup OnlyA : f[k] \in Int) /\ \A k \in C \cup OnlyB : g[k] \in Int
    BY <1>1, <1>2, <1>4
  <2>2. SumFunctionOnSet(f, C \cup OnlyA) = SumFunctionOnSet(f, C) + SumFunctionOnSet(f, OnlyA)
    BY <1>4, <1>6, <2>1, SumUnion
  <2>3. SumFunctionOnSet(g, C \cup OnlyB) = SumFunctionOnSet(g, C) + SumFunctionOnSet(g, OnlyB)
    BY <1>4, <1>6, <2>1, SumUnion
  <2>4. QED BY <1>4, <2>2, <2>3
<1>8. \A k \in C : f[k] \in Int /\ g[k] \in Int /\ d[k] = g[k] - f[k] /\ d[k] \in Int
  BY <1>1, <1>2, <1>4, <1>5
<1>9. SumFunctionOnSet(d, C) = SumFunctionOnSet(g, C) - SumFunctionOnSet(f, C)
  BY <1>6, <1>8, SumMinus
<1>10. SumFunctionOnSet(pc, C) = SumFunctionOnSet(p, C) + SumFunctionOnSet(c, C)
  BY <1>3, <1>5, <1>6, SumPlus
<1>11. \A k \in C : pc[k] \in Int /\ q[k] \in Int /\ d[k] = pc[k] + q[k]
  BY <1>3, <1>5
<1>12. SumFunctionOnSet(d, C) = SumFunctionOnSet(pc, C) + SumFunctionOnSet(q, C)
  BY <1>6, <1>11, SumPlus
<1>13. /\ SumFunctionOnSet(p, C) \in Int /\ SumFunctionOnSet(c, C) \in Int
       /\ SumFunctionOnSet(q, C) \in Int
  BY <1>3, <1>6, SumType
<1>14. /\ SumFunctionOnSet(f, C) \in Int /\ SumFunctionOnSet(g, C) \in Int
  BY <1>6, <1>8, SumType
<1>15. /\ SumFunctionOnSet(f, A) \in Int /\ WholeCents(SumFunctionOnSet(f, A))
       /\ SumFunctionOnSet(g, B) \in Int /\ WholeCents(SumFunctionOnSet(g, B))
  BY <1>1, <1>2, SumWhole
<1>16. /\ SumFunctionOnSet(f, OnlyA) \in Int /\ WholeCents(SumFunctionOnSet(f, OnlyA))
       /\ SumFunctionOnSet(g, OnlyB) \in Int /\ WholeCents(SumFunctionOnSet(g, OnlyB))
  <2>1. OnlyA \subseteq A /\ OnlyB \subseteq B
    BY <1>4
  <2>2. (\A k \in OnlyA : f[k] \in Int /\ WholeCents(f[k])) /\ \A k \in OnlyB : g[k] \in Int /\ WholeCents(g[k])
    BY <1>1, <1>2, <2>1
  <2>3. QED BY <1>6, <2>2, SumWhole
<1>17. /\ (\A k \in C : p[k] = 0) => SumFunctionOnSet(p, C) = 0
       /\ (\A k \in C : c[k] = 0) => SumFunctionOnSet(c, C) = 0
  BY <1>6, SumZero
<1>18. SumFunctionOnSet(p, C) + SumFunctionOnSet(c, C) + SumFunctionOnSet(q, C)
          + SumFunctionOnSet(g, OnlyB) - SumFunctionOnSet(f, OnlyA)
          = SumFunctionOnSet(g, B) - SumFunctionOnSet(f, A)
  BY <1>7, <1>9, <1>10, <1>12, <1>13, <1>14, <1>16
<1>19. QED BY <1>13, <1>15, <1>16, <1>17, <1>18 DEF A, B, C, OnlyA, OnlyB, f, g, p, c, q

\* Where no quantity changed, what price and cost leave is what the divisions leave.
LEMMA QuantityWithin ==
    ASSUME NEW a, NEW b, Sold(a), Sold(b), NEW C, C = DOMAIN a \cap DOMAIN b,
           \A k \in C : a[k].qty = b[k].qty
    PROVE  Magnitude(SumFunctionOnSet(QuantitiesOf(a, b), C))
             <= 2 * SumFunctionOnSet([k \in C |-> a[k].qty], C)
<1> DEFINE q == QuantitiesOf(a, b)
           e == [k \in C |-> a[k].qty]
           f == [k \in C |-> 2 * e[k]]
           z == [k \in C |-> 0]
           Q == SumFunctionOnSet(q, C)
           E == SumFunctionOnSet(e, C)
           F == SumFunctionOnSet(f, C)
<1>1. IsFiniteSet(C)
  BY FS_Subset DEF Sold
<1>2. ASSUME NEW k \in C
      PROVE  /\ q[k] \in Int /\ f[k] = 2 * e[k] /\ z[k] = 0 /\ e[k] \in Int /\ f[k] \in Int
             /\ q[k] - z[k] <= f[k] /\ z[k] - q[k] <= f[k]
  <2> DEFINE x == a[k]
             y == b[k]
  <2>1. /\ x.qty \in Nat \ {0} /\ y.qty \in Nat \ {0} /\ x.qty = y.qty
        /\ x.revenue \in Int /\ x.cost \in Int /\ y.revenue \in Int /\ y.cost \in Int
    BY DEF Sold
  <2>2. q[k] = QuantityEffect(x, y) /\ e[k] = x.qty /\ f[k] = 2 * e[k] /\ z[k] = 0
    BY DEF QuantitiesOf
  <2> HIDE DEF x, y, q, e, f, z
  <2>3. q[k] \in Int /\ q[k] <= 2 * x.qty /\ - q[k] <= 2 * x.qty
    BY <2>1, <2>2, EffectsOf
  <2>4. QED BY <2>1, <2>2, <2>3
<1> HIDE DEF q, e, f, z
<1>3. Q - SumFunctionOnSet(z, C) <= F /\ SumFunctionOnSet(z, C) - Q <= F
  BY <1>1, <1>2, SumWithin
<1>4. SumFunctionOnSet(z, C) = 0
  BY <1>1, <1>2, SumZero
<1>5. F = 2 * E /\ E \in Int
  <2>1. 2 \in Int /\ \A k \in C : e[k] \in Int /\ f[k] = 2 * e[k]
    BY <1>2
  <2>2. QED BY <1>1, <2>1, SumTimes, SumType
<1>6. Q \in Int
  BY <1>1, <1>2, SumType
<1> HIDE DEF Q, E, F
<1>7. Magnitude(Q) <= 2 * E
  BY <1>3, <1>4, <1>5, <1>6 DEF Magnitude
<1>8. QED BY <1>7 DEF Q, E, q, e

\* The sum of a record of six amounts.
Effects == {"price", "cost", "volume", "mix", "new", "discontinued"}
\* It is that of the six.
LEMMA SumOfEffects ==
    ASSUME NEW f, DOMAIN f = Effects, \A e \in Effects : f[e] \in Int
    PROVE  SumOver(DOMAIN f, LAMBDA e : f[e])
             = f["price"] + f["cost"] + f["volume"] + f["mix"] + f["new"] + f["discontinued"]
<1> DEFINE g == [e \in DOMAIN f |-> f[e]]
           A1 == {"price"}
           A2 == A1 \cup {"cost"}
           A3 == A2 \cup {"volume"}
           A4 == A3 \cup {"mix"}
           A5 == A4 \cup {"new"}
<1>1. SumOver(DOMAIN f, LAMBDA e : f[e]) = SumFunctionOnSet(g, Effects)
  BY DEF SumOver, SumFunction
<1>2. \A e \in Effects : g[e] = f[e] /\ g[e] \in Int
  OBVIOUS
<1> HIDE DEF g
<1>3. /\ "price" \in Effects /\ "cost" \in Effects /\ "volume" \in Effects
      /\ "mix" \in Effects /\ "new" \in Effects /\ "discontinued" \in Effects
  BY DEF Effects
<1>4. /\ {} \cup {"price"} = A1 /\ A5 \cup {"discontinued"} = Effects
      /\ "cost" \notin A1 /\ "volume" \notin A2 /\ "mix" \notin A3 /\ "new" \notin A4
      /\ "discontinued" \notin A5
  BY DEF Effects
<1>5. IsFiniteSet({}) /\ IsFiniteSet(A1) /\ IsFiniteSet(A2) /\ IsFiniteSet(A3) /\ IsFiniteSet(A4) /\ IsFiniteSet(A5)
  <2>1. IsFiniteSet({}) /\ IsFiniteSet(A1)
    BY FS_EmptySet, FS_Singleton
  <2>2. IsFiniteSet(A2)
    <3> HIDE DEF A1
    <3>1. QED BY <2>1, FS_AddElement
  <2>3. IsFiniteSet(A3)
    <3> HIDE DEF A2
    <3>1. QED BY <2>2, FS_AddElement
  <2>4. IsFiniteSet(A4)
    <3> HIDE DEF A3
    <3>1. QED BY <2>3, FS_AddElement
  <2>5. IsFiniteSet(A5)
    <3> HIDE DEF A4
    <3>1. QED BY <2>4, FS_AddElement
  <2>6. QED BY <2>1, <2>2, <2>3, <2>4, <2>5
<1>6. A1 \subseteq Effects /\ A2 \subseteq Effects /\ A3 \subseteq Effects /\ A4 \subseteq Effects /\ A5 \subseteq Effects
  BY DEF Effects
<1>7. SumFunctionOnSet(g, A1) = g["price"]
  <2>1. SumFunctionOnSet(g, {} \cup {"price"}) = g["price"] + SumFunctionOnSet(g, {})
    BY <1>2, <1>3, <1>5, SumAdd
  <2>2. QED BY <1>2, <1>3, <1>4, <2>1, SumEmpty
<1> HIDE DEF A1
<1>8. SumFunctionOnSet(g, A2) = g["cost"] + SumFunctionOnSet(g, A1)
  BY <1>2, <1>3, <1>4, <1>5, <1>6, SumAdd
<1> HIDE DEF A2
<1>9. SumFunctionOnSet(g, A3) = g["volume"] + SumFunctionOnSet(g, A2)
  BY <1>2, <1>3, <1>4, <1>5, <1>6, SumAdd
<1> HIDE DEF A3
<1>10. SumFunctionOnSet(g, A4) = g["mix"] + SumFunctionOnSet(g, A3)
  BY <1>2, <1>3, <1>4, <1>5, <1>6, SumAdd
<1> HIDE DEF A4
<1>11. SumFunctionOnSet(g, A5) = g["new"] + SumFunctionOnSet(g, A4)
  BY <1>2, <1>3, <1>4, <1>5, <1>6, SumAdd
<1> HIDE DEF A5
<1>12. SumFunctionOnSet(g, A5 \cup {"discontinued"}) = g["discontinued"] + SumFunctionOnSet(g, A5)
  BY <1>2, <1>3, <1>4, <1>5, <1>6, SumAdd
<1>13. SumFunctionOnSet(g, Effects) = g["discontinued"] + SumFunctionOnSet(g, A5)
  BY <1>4, <1>12
<1>14. QED BY <1>1, <1>2, <1>3, <1>7, <1>8, <1>9, <1>10, <1>11, <1>13

\* What the volume is: a whole number, and none where no quantity changed.
LEMMA VolumeFacts ==
    ASSUME NEW a, NEW b, Sold(a), Sold(b)
    PROVE  LET C == DOMAIN a \cap DOMAIN b
           IN  /\ Volume(a, b, C) \in Int
               /\ (\A k \in C : a[k].qty = b[k].qty) => Volume(a, b, C) = 0
<1> DEFINE C == DOMAIN a \cap DOMAIN b
           x == [k \in C |-> a[k].qty]
           y == [k \in C |-> b[k].qty]
           z == [k \in C |-> Gross(a[k])]
           qa == SumFunctionOnSet(x, C)
           qb == SumFunctionOnSet(y, C)
           m == SumFunctionOnSet(z, C)
<1>1. Volume(a, b, C) = IF qa > 0 THEN (qb - qa) * (m \div qa) ELSE 0
  BY DEF Volume, SumOver, SumFunction
<1>2. /\ \A k \in C : x[k] = a[k].qty
      /\ \A k \in C : y[k] = b[k].qty
      /\ \A k \in C : z[k] = Gross(a[k])
  OBVIOUS
<1>3. C \subseteq DOMAIN a /\ C \subseteq DOMAIN b
  OBVIOUS
<1> HIDE DEF C, x, y, z
<1>4. IsFiniteSet(C) /\ \A k \in C : x[k] \in Int /\ y[k] \in Int
  BY <1>2, <1>3, FS_Subset DEF Sold
<1>5. \A k \in C : z[k] \in Int
  BY <1>2, <1>3, GrossFacts
<1>6. qa \in Int /\ qb \in Int /\ m \in Int
  BY <1>4, <1>5, SumType
<1>7. (\A k \in C : a[k].qty = b[k].qty) => qa = qb
  BY <1>2, <1>4, SumEqual
<1> HIDE DEF qa, qb, m
<1>8. qa > 0 => m \div qa \in Int
  BY <1>6
<1>9. Volume(a, b, C) \in Int /\ (qa = qb => Volume(a, b, C) = 0)
  BY <1>1, <1>6, <1>8
<1>10. QED BY <1>7, <1>9 DEF C

\* The sum of all values of a function.
TotalOf(f) == SumOver(DOMAIN f, LAMBDA e : f[e])

\* The effects of a bridge add up to the change, to the rounding reported.
LEMMA EffectsParts ==
    ASSUME Asked, Answered("bridge")
    PROVE  EffectsAddUp
<1> DEFINE a == ById(ProfitLines(input.a))
           b == ById(ProfitLines(input.b))
           A == DOMAIN a
           B == DOMAIN b
           C == A \cap B
           volume == Volume(a, b, C)
           price == SumFunctionOnSet(PricesOf(a, b), C)
           cost == SumFunctionOnSet(CostsOf(a, b), C)
           quantity == SumFunctionOnSet(QuantitiesOf(a, b), C)
           new == SumFunctionOnSet(GrossOf(b), B \ A)
           gone == SumFunctionOnSet(GrossOf(a), A \ B)
           was == SumFunctionOnSet(GrossOf(a), A)
           is == SumFunctionOnSet(GrossOf(b), B)
           exact == [price |-> price, cost |-> cost, volume |-> volume, mix |-> quantity - volume,
                     new |-> new, discontinued |-> - gone]
           effects == [e \in DOMAIN exact |-> MoneyRound(exact[e])]
           pieces == [k \in C |-> a[k].qty]
<1>1. input \in Inputs["bridge"] /\ answer = Answer("bridge", input, ClampLimit(limit))
  BY AnswerIs
<1>2. Sold(a) /\ Sold(b)
  <2>1. input.a \in PeriodRows /\ input.b \in PeriodRows
    BY <1>1 DEF Inputs
  <2>2. QED BY <2>1, ByIdIsSold
<1>3. answer = ProfitBridge(ProfitLines(input.a), ProfitLines(input.b), TopN(input.topN))
  BY <1>1 DEF Answer, AnalyticsTool
<1>4. /\ SumOver(C, LAMBDA k : PriceEffect(a[k], b[k])) = price
      /\ SumOver(C, LAMBDA k : CostEffect(a[k], b[k])) = cost
      /\ SumOver(C, LAMBDA k : QuantityEffect(a[k], b[k])) = quantity
      /\ SumOver(B, LAMBDA k : Gross(b[k])) = is
      /\ SumOver(A, LAMBDA k : Gross(a[k])) = was
  BY DEF SumOver, SumFunction, PricesOf, CostsOf, QuantitiesOf, GrossOf
<1>5. NewEffect(b, B \ A) = new /\ DiscontinuedEffect(a, A \ B) = - gone
  <2> DEFINE OnlyB == B \ A
             OnlyA == A \ B
             f == [k \in OnlyB |-> Gross(b[k])]
             g == [k \in OnlyA |-> Gross(a[k])]
  <2>1. NewEffect(b, OnlyB) = SumFunctionOnSet(f, OnlyB)
    BY DEF NewEffect, SumOver, SumFunction
  <2>2. DiscontinuedEffect(a, OnlyA) = - SumFunctionOnSet(g, OnlyA)
    BY DEF DiscontinuedEffect, SumOver, SumFunction
  <2>3. (\A k \in OnlyB : f[k] = GrossOf(b)[k]) /\ \A k \in OnlyA : g[k] = GrossOf(a)[k]
    BY DEF GrossOf
  <2>4. IsFiniteSet(OnlyA) /\ IsFiniteSet(OnlyB)
    <3>1. IsFiniteSet(A) /\ IsFiniteSet(B)
      BY <1>2 DEF Sold
    <3> HIDE DEF A, B
    <3>2. QED BY <3>1, FS_Difference
  <2> HIDE DEF f, g
  <2>5. SumFunctionOnSet(f, OnlyB) = SumFunctionOnSet(GrossOf(b), OnlyB)
    BY <2>3, <2>4, SumEqual
  <2>6. SumFunctionOnSet(g, OnlyA) = SumFunctionOnSet(GrossOf(a), OnlyA)
    BY <2>3, <2>4, SumEqual
  <2>7. QED BY <2>1, <2>2, <2>5, <2>6
<1>6. /\ answer.delta = MoneyRound(is - was) /\ answer.exact = exact
      /\ answer.residual = SumOver(DOMAIN exact, LAMBDA e : exact[e]) - (is - was)
      /\ answer.rounding = MoneyRound(is - was) - SumOver(DOMAIN effects, LAMBDA e : effects[e])
  <2> DEFINE whole == [price |-> SumOver(C, LAMBDA k : PriceEffect(a[k], b[k])),
                       cost |-> SumOver(C, LAMBDA k : CostEffect(a[k], b[k])),
                       volume |-> volume,
                       mix |-> SumOver(C, LAMBDA k : QuantityEffect(a[k], b[k])) - volume,
                       new |-> NewEffect(b, B \ A),
                       discontinued |-> DiscontinuedEffect(a, A \ B)]
             delta == SumOver(B, LAMBDA k : Gross(b[k])) - SumOver(A, LAMBDA k : Gross(a[k]))
             rounded == [e \in DOMAIN whole |-> MoneyRound(whole[e])]
  <2>1. /\ answer.delta = MoneyRound(delta) /\ answer.exact = whole
        /\ answer.residual = TotalOf(whole) - delta
        /\ answer.rounding = MoneyRound(delta) - TotalOf(rounded)
    BY <1>3 DEF ProfitBridge, TotalOf
  <2>2. whole = exact
    BY <1>4, <1>5
  <2>3. delta = is - was
    BY <1>4
  <2> HIDE DEF exact, delta
  <2>4. rounded = effects
    BY <2>2
  <2> HIDE DEF whole, rounded, effects
  <2>5. /\ answer.delta = MoneyRound(is - was) /\ answer.exact = exact
        /\ answer.residual = TotalOf(exact) - (is - was)
        /\ answer.rounding = MoneyRound(is - was) - TotalOf(effects)
    BY <2>1, <2>2, <2>3, <2>4
  <2>6. QED BY <2>5 DEF TotalOf
<1> HIDE DEF a, b
<1>7. /\ price \in Int /\ cost \in Int /\ quantity \in Int
      /\ was \in Int /\ WholeCents(was) /\ is \in Int /\ WholeCents(is)
      /\ new \in Int /\ WholeCents(new) /\ gone \in Int /\ WholeCents(gone)
      /\ price + cost + quantity + new - gone = is - was
  BY <1>2, EffectsSplit
<1>8. /\ (\A k \in C : PricesOf(a, b)[k] = 0) => price = 0
      /\ (\A k \in C : CostsOf(a, b)[k] = 0) => cost = 0
  BY <1>2, EffectsSplit
<1>9. volume \in Int /\ ((\A k \in C : a[k].qty = b[k].qty) => volume = 0)
  BY <1>2, VolumeFacts
<1>10. (\A k \in C : a[k].qty = b[k].qty) =>
          Magnitude(quantity) <= 2 * SumFunctionOnSet(pieces, C)
  BY <1>2, QuantityWithin
<1>11. InBoth = C /\ SumOver(InBoth, LAMBDA k : SoldIn(input.a)[k].qty) = SumFunctionOnSet(pieces, C)
  BY DEF InBoth, SoldIn, a, b, SumOver, SumFunction
<1>12. /\ DOMAIN exact = Effects
       /\ exact["price"] = price /\ exact["cost"] = cost /\ exact["volume"] = volume
       /\ exact["mix"] = quantity - volume /\ exact["new"] = new /\ exact["discontinued"] = - gone
  <2> HIDE DEF price, cost, volume, quantity, new, gone
  <2>1. QED BY DEF Effects
<1>13. DOMAIN effects = DOMAIN exact /\ \A e \in DOMAIN exact : effects[e] = MoneyRound(exact[e])
  <2> HIDE DEF exact
  <2>1. QED OBVIOUS
<1>14. ASSUME NEW k \in C
       PROVE  /\ a[k].revenue * b[k].qty = b[k].revenue * a[k].qty => PricesOf(a, b)[k] = 0
              /\ a[k].cost * b[k].qty = b[k].cost * a[k].qty => CostsOf(a, b)[k] = 0
  <2> DEFINE x == a[k]
             y == b[k]
  <2>1. /\ x.qty \in Nat \ {0} /\ y.qty \in Nat \ {0}
        /\ x.revenue \in Int /\ x.cost \in Int /\ y.revenue \in Int /\ y.cost \in Int
    BY <1>2 DEF Sold
  <2>2. PricesOf(a, b)[k] = PriceEffect(x, y) /\ CostsOf(a, b)[k] = CostEffect(x, y)
    BY DEF PricesOf, CostsOf
  <2> HIDE DEF x, y
  <2>3. /\ x.revenue * y.qty = y.revenue * x.qty => PriceEffect(x, y) = 0
        /\ x.cost * y.qty = y.cost * x.qty => CostEffect(x, y) = 0
    BY <2>1, EffectsOf
  <2>4. QED BY <2>2, <2>3 DEF x, y
<1>15. answer.exact.price = exact["price"] /\ answer.exact.cost = exact["cost"]
       /\ answer.exact.volume = exact["volume"] /\ answer.exact.mix = exact["mix"]
  <2>1. answer.exact = exact
    BY <1>6
  <2> HIDE DEF exact
  <2>2. QED BY <2>1
<1>16. /\ SameInBoth(LAMBDA x, y : x.revenue * y.qty = y.revenue * x.qty) =>
            \A k \in C : a[k].revenue * b[k].qty = b[k].revenue * a[k].qty
       /\ SameInBoth(LAMBDA x, y : x.cost * y.qty = y.cost * x.qty) =>
            \A k \in C : a[k].cost * b[k].qty = b[k].cost * a[k].qty
       /\ SameInBoth(LAMBDA x, y : x.qty = y.qty) => \A k \in C : a[k].qty = b[k].qty
  BY <1>11 DEF SameInBoth, SoldIn, a, b
<1> HIDE DEF A, B, C, volume, price, cost, quantity, new, gone, was, is, exact, effects, pieces
<1>17. \A e \in Effects : exact[e] \in Int
  BY <1>7, <1>9, <1>12 DEF Effects
<1>18. SumOver(DOMAIN exact, LAMBDA e : exact[e]) = is - was
  <2>1. SumOver(DOMAIN exact, LAMBDA e : exact[e])
           = exact["price"] + exact["cost"] + exact["volume"] + exact["mix"] + exact["new"]
               + exact["discontinued"]
    BY <1>12, <1>17, SumOfEffects
  <2>2. price + cost + volume + (quantity - volume) + new + (- gone) = is - was
    BY <1>7, <1>9
  <2>3. QED BY <1>12, <2>1, <2>2
<1>19. answer.residual = 0
  BY <1>6, <1>7, <1>18
<1> DEFINE total == is - was
<1>20. total \in Int /\ WholeCents(total) /\ MoneyRound(total) = total
  <2>1. total \in Int /\ WholeCents(total)
    BY <1>7, WholeSums
  <2> HIDE DEF total
  <2>2. QED BY <2>1, MoneyRoundFacts
<1>21. ASSUME NEW e \in Effects
       PROVE  /\ effects[e] \in Int /\ 2 * (effects[e] - exact[e]) <= Cent
              /\ 2 * (exact[e] - effects[e]) <= Cent
              /\ WholeCents(exact[e]) => effects[e] = exact[e]
  <2> DEFINE v == exact[e]
  <2>1. v \in Int /\ effects[e] = MoneyRound(v)
    BY <1>12, <1>13, <1>17
  <2> HIDE DEF v
  <2>2. QED BY <2>1, MoneyRoundFacts DEF v
<1>22. WholeCents(exact["new"]) /\ WholeCents(exact["discontinued"])
  <2>1. WholeCents(0) /\ 0 \in Int
    BY WholeSums
  <2>2. WholeCents(0 - gone)
    BY <1>7, <2>1, WholeSums
  <2>3. 0 - gone = - gone
    BY <1>7
  <2>4. QED BY <1>7, <1>12, <2>2, <2>3
<1>23. SumOver(DOMAIN effects, LAMBDA e : effects[e])
          = effects["price"] + effects["cost"] + effects["volume"] + effects["mix"] + effects["new"]
              + effects["discontinued"]
  <2>1. DOMAIN effects = Effects /\ \A e \in Effects : effects[e] \in Int
    BY <1>12, <1>13, <1>21
  <2>2. QED BY <2>1, SumOfEffects
<1>24. /\ answer.rounding \in Int /\ answer.rounding <= 2 * Cent /\ - answer.rounding <= 2 * Cent
  <2>1. Cent \in Int
    BY UnitsAssumption
  <2>2. total = exact["price"] + exact["cost"] + exact["volume"] + exact["mix"] + exact["new"]
                  + exact["discontinued"]
    BY <1>12, <1>17, <1>18, SumOfEffects
  <2>3. answer.rounding = total - (effects["price"] + effects["cost"] + effects["volume"]
                                     + effects["mix"] + effects["new"] + effects["discontinued"])
    BY <1>6, <1>20, <1>23
  <2>4. effects["new"] = exact["new"] /\ effects["discontinued"] = exact["discontinued"]
    BY <1>21, <1>22 DEF Effects
  <2>5. \A e \in {"price", "cost", "volume", "mix"} :
           /\ effects[e] \in Int /\ exact[e] \in Int /\ 2 * (effects[e] - exact[e]) <= Cent
           /\ 2 * (exact[e] - effects[e]) <= Cent
    BY <1>17, <1>21 DEF Effects
  <2>6. exact["new"] \in Int /\ exact["discontinued"] \in Int
    BY <1>17 DEF Effects
  <2> HIDE DEF total
  <2>7. answer.rounding = (exact["price"] - effects["price"]) + (exact["cost"] - effects["cost"])
                            + (exact["volume"] - effects["volume"]) + (exact["mix"] - effects["mix"])
    BY <2>2, <2>3, <2>4, <2>5, <2>6
  <2> DEFINE d1 == exact["price"] - effects["price"]
             d2 == exact["cost"] - effects["cost"]
             d3 == exact["volume"] - effects["volume"]
             d4 == exact["mix"] - effects["mix"]
  <2>8. /\ d1 \in Int /\ 2 * d1 <= Cent /\ 2 * (- d1) <= Cent
        /\ d2 \in Int /\ 2 * d2 <= Cent /\ 2 * (- d2) <= Cent
        /\ d3 \in Int /\ 2 * d3 <= Cent /\ 2 * (- d3) <= Cent
        /\ d4 \in Int /\ 2 * d4 <= Cent /\ 2 * (- d4) <= Cent
    BY <2>5
  <2>9. answer.rounding = d1 + d2 + d3 + d4
    BY <2>7
  <2> HIDE DEF d1, d2, d3, d4
  <2>10. QED BY <2>1, <2>8, <2>9
<1>25. Magnitude(answer.rounding) <= 2 * Cent
  BY <1>24 DEF Magnitude
<1>26. SameInBoth(LAMBDA x, y : x.revenue * y.qty = y.revenue * x.qty) => answer.exact.price = 0
  BY <1>8, <1>12, <1>14, <1>15, <1>16
<1>27. SameInBoth(LAMBDA x, y : x.cost * y.qty = y.cost * x.qty) => answer.exact.cost = 0
  BY <1>8, <1>12, <1>14, <1>15, <1>16
<1>28. SameInBoth(LAMBDA x, y : x.qty = y.qty) =>
          /\ answer.exact.volume = 0
          /\ Magnitude(answer.exact.mix) <= 2 * SumOver(InBoth, LAMBDA k : SoldIn(input.a)[k].qty)
  <2>1. volume = 0 => quantity - volume = quantity
    BY <1>7, <1>9
  <2>2. (\A k \in C : a[k].qty = b[k].qty) =>
           /\ answer.exact.volume = 0
           /\ Magnitude(answer.exact.mix) <= 2 * SumFunctionOnSet(pieces, C)
    BY <1>9, <1>10, <1>12, <1>15, <2>1
  <2>3. QED BY <1>11, <1>16, <2>2
<1>29. QED BY <1>19, <1>25, <1>26, <1>27, <1>28 DEF EffectsAddUp

-----------------------------------------------------------------------------
(* The drivers of a bridge.                                                *)

\* A sequence that lists a finite set: each of its elements, once.
Lists(q, S) ==
    /\ IsFiniteSet(S) /\ Cardinality(S) \in Nat /\ q \in [1 .. Cardinality(S) -> S]
    /\ \A i, j \in 1 .. Cardinality(S) : q[i] = q[j] => i = j
    /\ \A x \in S : \E i \in 1 .. Cardinality(S) : q[i] = x

\* Two such sequences, of sets that share nothing, list both sets.
LEMMA ListsJoined ==
    ASSUME NEW S, NEW T, NEW q, NEW r, Lists(q, S), Lists(r, T), S \cap T = {}
    PROVE  Lists(q \o r, S \cup T)
<1> DEFINE m == Cardinality(S)
           n == Cardinality(T)
           U == S \cup T
           s == q \o r
<1>1. /\ IsFiniteSet(S) /\ m \in Nat /\ q \in [1 .. m -> S]
      /\ \A i, j \in 1 .. m : q[i] = q[j] => i = j
      /\ \A x \in S : \E i \in 1 .. m : q[i] = x
  BY DEF Lists
<1>2. /\ IsFiniteSet(T) /\ n \in Nat /\ r \in [1 .. n -> T]
      /\ \A i, j \in 1 .. n : r[i] = r[j] => i = j
      /\ \A x \in T : \E i \in 1 .. n : r[i] = x
  BY DEF Lists
<1>3. IsFiniteSet(U) /\ Cardinality(U) = m + n
  <2>1. IsFiniteSet(U) /\ Cardinality(U) = m + n - Cardinality(S \cap T)
    BY <1>1, <1>2, FS_Union
  <2>2. Cardinality(S \cap T) = 0
    BY FS_EmptySet
  <2> HIDE DEF m, n, U
  <2>3. QED BY <1>1, <1>2, <2>1, <2>2
<1> HIDE DEF m, n
<1>4. /\ s \in [1 .. m + n -> U]
      /\ (\A i \in 1 .. m : s[i] = q[i]) /\ \A i \in 1 .. n : s[m + i] = r[i]
  <2>1. q \in Seq(S) /\ Len(q) = m /\ r \in Seq(T) /\ Len(r) = n
    <3>1. q \in Seq(S) /\ r \in Seq(T)
      BY <1>1, <1>2, SeqDef
    <3>2. DOMAIN q = 1 .. m /\ DOMAIN q = 1 .. Len(q) /\ Len(q) \in Nat
      BY <1>1, <3>1, LenProperties
    <3>3. DOMAIN r = 1 .. n /\ DOMAIN r = 1 .. Len(r) /\ Len(r) \in Nat
      BY <1>2, <3>1, LenProperties
    <3>4. QED BY <1>1, <1>2, <3>1, <3>2, <3>3
  <2>2. q \in Seq(U) /\ r \in Seq(U)
    BY <2>1
  <2> HIDE DEF U
  <2>3. s \in Seq(U) /\ Len(s) = m + n
    BY <2>1, <2>2
  <2>4. (\A i \in 1 .. m : s[i] = q[i]) /\ \A i \in 1 .. n : s[m + i] = r[i]
    BY <1>1, <1>2, <2>1, <2>2
  <2> HIDE DEF s
  <2>5. s \in [1 .. m + n -> U]
    BY <2>3, LenProperties
  <2>6. QED BY <2>4, <2>5
<1> HIDE DEF s
<1>5. (\A i \in 1 .. m : s[i] = q[i] /\ q[i] \in S) /\ \A i \in 1 .. n : s[m + i] = r[i] /\ r[i] \in T
  BY <1>1, <1>2, <1>4
<1>6. ASSUME NEW i \in 1 .. m + n
      PROVE  (i \in 1 .. m) \/ (i - m \in 1 .. n /\ m + (i - m) = i)
  BY <1>1, <1>2
<1>7. ASSUME NEW i \in 1 .. m + n, NEW j \in 1 .. m + n, s[i] = s[j] PROVE i = j
  <2>1. CASE i \in 1 .. m /\ j \in 1 .. m
    BY <1>1, <1>5, <1>7, <2>1
  <2>2. CASE i \in 1 .. m /\ j \notin 1 .. m
    <3>1. s[i] \in S /\ s[j] \in T
      BY <1>5, <1>6, <2>2
    <3>2. QED BY <1>7, <3>1
  <2>3. CASE i \notin 1 .. m /\ j \in 1 .. m
    <3>1. s[i] \in T /\ s[j] \in S
      BY <1>5, <1>6, <2>3
    <3>2. QED BY <1>7, <3>1
  <2>4. CASE i \notin 1 .. m /\ j \notin 1 .. m
    <3>1. /\ i - m \in 1 .. n /\ s[i] = r[i - m] /\ m + (i - m) = i
          /\ j - m \in 1 .. n /\ s[j] = r[j - m] /\ m + (j - m) = j
      BY <1>5, <1>6, <2>4
    <3>2. i - m = j - m
      BY <1>2, <1>7, <3>1
    <3>3. QED BY <3>1, <3>2
  <2>5. QED BY <2>1, <2>2, <2>3, <2>4
<1>8. ASSUME NEW x \in U PROVE \E i \in 1 .. m + n : s[i] = x
  <2>1. CASE x \in S
    <3>1. PICK i \in 1 .. m : q[i] = x
      BY <1>1, <2>1
    <3>2. i \in 1 .. m + n /\ s[i] = x
      BY <1>1, <1>2, <1>5, <3>1
    <3>3. QED BY <3>2
  <2>2. CASE x \in T
    <3>1. PICK i \in 1 .. n : r[i] = x
      BY <1>2, <2>2
    <3>2. m + i \in 1 .. m + n /\ s[m + i] = x
      BY <1>1, <1>2, <1>5, <3>1
    <3>3. QED BY <3>2
  <2>3. QED BY <2>1, <2>2
<1> HIDE DEF U
<1>9. m + n \in Nat
  BY <1>1, <1>2
<1>10. Lists(s, U)
  BY <1>3, <1>4, <1>7, <1>8, <1>9 DEF Lists
<1>11. QED BY <1>10 DEF s, U

\* The products of a bridge, in the order in which the drivers are made.
ProductsOf(a, b) ==
    SetToSeq(DOMAIN a \cap DOMAIN b) \o SetToSeq(DOMAIN b \ DOMAIN a) \o SetToSeq(DOMAIN a \ DOMAIN b)

\* They are those of either period.
LEMMA ProductsFacts ==
    ASSUME NEW a, NEW b, Sold(a), Sold(b)
    PROVE  Lists(ProductsOf(a, b), DOMAIN a \cup DOMAIN b)
<1> DEFINE A == DOMAIN a
           B == DOMAIN b
           C == A \cap B
           OnlyA == A \ B
           OnlyB == B \ A
<1>1. IsFiniteSet(C) /\ IsFiniteSet(OnlyA) /\ IsFiniteSet(OnlyB)
  <2>1. IsFiniteSet(A) /\ IsFiniteSet(B)
    BY DEF Sold
  <2> HIDE DEF A, B
  <2>2. QED BY <2>1, FS_Subset
<1>2. ASSUME NEW S, IsFiniteSet(S) PROVE Lists(SetToSeq(S), S)
  BY <1>2, SetToSeqIs DEF Lists
<1>3. C \cap OnlyB = {} /\ C \cup OnlyB = B /\ B \cap OnlyA = {} /\ B \cup OnlyA = A \cup B
  OBVIOUS
<1> HIDE DEF A, B, C, OnlyA, OnlyB
<1>4. Lists(SetToSeq(C) \o SetToSeq(OnlyB), B)
  <2>1. Lists(SetToSeq(C) \o SetToSeq(OnlyB), C \cup OnlyB)
    BY <1>1, <1>2, <1>3, ListsJoined
  <2>2. QED BY <1>3, <2>1
<1>5. Lists(SetToSeq(C) \o SetToSeq(OnlyB) \o SetToSeq(OnlyA), A \cup B)
  <2> DEFINE q == SetToSeq(C) \o SetToSeq(OnlyB)
  <2>1. Lists(q, B) /\ Lists(SetToSeq(OnlyA), OnlyA) /\ B \cap OnlyA = {}
    BY <1>1, <1>2, <1>3, <1>4
  <2> HIDE DEF q
  <2>2. Lists(q \o SetToSeq(OnlyA), B \cup OnlyA)
    BY <2>1, ListsJoined
  <2>3. QED BY <1>3, <2>2 DEF q
<1>6. QED BY <1>5 DEF ProductsOf, A, B, C, OnlyA, OnlyB

\* A driver has the change of its product, which its effects make up to a cent and a half.
LEMMA DriverFacts ==
    ASSUME NEW a, NEW b, Sold(a), Sold(b), NEW k \in DOMAIN a \cup DOMAIN b
    PROVE  LET d == Driver(a, b, k)
           IN  /\ d.id = k /\ d.delta = ChangesOf(a, b)[k]
               /\ k \in DOMAIN a \cap DOMAIN b =>
                    2 * Magnitude(d.delta - d.price - d.cost - d.qty) <= 3 * Cent
<1> DEFINE d == Driver(a, b, k)
           h == ChangesOf(a, b)[k]
           C == DOMAIN a \cap DOMAIN b
           x == a[k]
           y == b[k]
           p == PriceEffect(x, y)
           c == CostEffect(x, y)
           q == QuantityEffect(x, y)
<1>1. h = (IF k \in DOMAIN b THEN Gross(y) ELSE 0) - (IF k \in DOMAIN a THEN Gross(x) ELSE 0)
  BY DEF ChangesOf
<1>2. d.id = k /\ d.delta = MoneyRound(h)
  BY <1>1 DEF Driver
<1>3. h \in Int /\ MoneyRound(h) = h
  <2>1. h \in Int /\ WholeCents(h)
    BY ChangesOfFacts
  <2> HIDE DEF h
  <2>2. QED BY <2>1, MoneyRoundFacts
<1>4. ASSUME k \in C PROVE 2 * Magnitude(d.delta - d.price - d.cost - d.qty) <= 3 * Cent
  <2>1. d.price = MoneyRound(p) /\ d.cost = MoneyRound(c) /\ d.qty = MoneyRound(q)
    BY <1>4 DEF Driver
  <2>2. h = Gross(y) - Gross(x)
    BY <1>1, <1>4
  <2>3. p \in Int /\ c \in Int /\ q \in Int /\ p + c + q = h
    <3>1. /\ x.qty \in Nat \ {0} /\ y.qty \in Nat \ {0}
          /\ x.revenue \in Int /\ x.cost \in Int /\ y.revenue \in Int /\ y.cost \in Int
      BY <1>4 DEF Sold
    <3> HIDE DEF x, y, h
    <3>2. QED BY <2>2, <3>1, EffectsOf
  <2> HIDE DEF p, c, q, h, d
  <2>4. /\ MoneyRound(p) \in Int /\ 2 * (MoneyRound(p) - p) <= Cent /\ 2 * (p - MoneyRound(p)) <= Cent
        /\ MoneyRound(c) \in Int /\ 2 * (MoneyRound(c) - c) <= Cent /\ 2 * (c - MoneyRound(c)) <= Cent
        /\ MoneyRound(q) \in Int /\ 2 * (MoneyRound(q) - q) <= Cent /\ 2 * (q - MoneyRound(q)) <= Cent
    BY <2>3, MoneyRoundFacts
  <2> DEFINE e == d.delta - d.price - d.cost - d.qty
  <2>5. e = h - MoneyRound(p) - MoneyRound(c) - MoneyRound(q)
    BY <1>2, <1>3, <2>1
  <2>6. Cent \in Int
    BY UnitsAssumption
  <2>7. e \in Int /\ 2 * e <= 3 * Cent /\ 2 * (- e) <= 3 * Cent
    <3> HIDE DEF e
    <3>1. QED BY <2>3, <2>4, <2>5, <2>6
  <2> HIDE DEF e
  <2>8. 2 * Magnitude(e) <= 3 * Cent
    BY <2>7 DEF Magnitude
  <2>9. QED BY <2>8 DEF e
<1>5. QED BY <1>2, <1>3, <1>4

\* The drivers of a bridge are its largest changes, and all of them make up the whole.
LEMMA DriversParts ==
    ASSUME Asked, Answered("bridge")
    PROVE  DriversAddUp
<1> DEFINE a == SoldIn(input.a)
           b == SoldIn(input.b)
           D == DOMAIN a \cup DOMAIN b
           n == Cardinality(D)
           N == 1 .. n
           top == TopN(input.topN)
           m == Least(top, n)
           q == ProductsOf(a, b)
           s == [i \in DOMAIN q |-> Driver(a, b, q[i])]
           v == [i \in DOMAIN s |-> Magnitude(s[i].delta)]
           o == Order(v)
           h == ChangesOf(a, b)
           rows == RowsBy(v, s)
           shown == answer.drivers
           ids == {shown[i].id : i \in DOMAIN shown}
<1>1. input \in Inputs["bridge"] /\ answer = Answer("bridge", input, ClampLimit(limit))
  BY AnswerIs
<1>2. Sold(a) /\ Sold(b) /\ top \in Nat \ {0}
  <2>1. input.a \in PeriodRows /\ input.b \in PeriodRows /\ input.topN \in Int
    BY <1>1, SalesAssumption DEF Inputs
  <2>2. QED BY <2>1, ByIdIsSold DEF SoldIn, TopN
<1>3. /\ shown = SubSeq(rows, 1, Least(top, Len(rows)))
      /\ answer.delta = MoneyRound(SumOver(DOMAIN b, LAMBDA k : Gross(b[k]))
                                     - SumOver(DOMAIN a, LAMBDA k : Gross(a[k])))
  <2>1. answer = ProfitBridge(ProfitLines(input.a), ProfitLines(input.b), top)
    BY <1>1 DEF Answer, AnalyticsTool
  <2>2. shown = Drivers(a, b, top)
    BY <2>1 DEF ProfitBridge, SoldIn
  <2>3. Drivers(a, b, top) = SubSeq(rows, 1, Least(top, Len(rows)))
    BY DEF Drivers, ProductsOf, Ranked, RankedAt, RowsBy
  <2>4. answer.delta = MoneyRound(SumOver(DOMAIN b, LAMBDA k : Gross(b[k]))
                                    - SumOver(DOMAIN a, LAMBDA k : Gross(a[k])))
    BY <2>1 DEF ProfitBridge, SoldIn
  <2>5. QED BY <2>2, <2>3, <2>4
<1>4. \A k \in D : ProductChange(k) = h[k]
  BY DEF ProductChange, ChangesOf
<1> HIDE DEF a, b
<1>5. Lists(q, D)
  BY <1>2, ProductsFacts
<1>6. \A k \in D : h[k] \in Int /\ WholeCents(h[k])
  BY <1>2, ChangesOfFacts
<1>7. /\ IsFiniteSet(D) /\ n \in Nat /\ DOMAIN q = N
      /\ \A i \in N : q[i] \in D
      /\ \A i, j \in N : q[i] = q[j] => i = j
      /\ \A x \in D : \E i \in N : q[i] = x
  <2> HIDE DEF D, q
  <2>1. QED BY <1>5 DEF Lists
<1>8. ASSUME NEW k \in D
      PROVE  /\ Driver(a, b, k).id = k /\ Driver(a, b, k).delta = h[k]
             /\ k \in DOMAIN a \cap DOMAIN b =>
                  LET d == Driver(a, b, k)
                  IN  2 * Magnitude(d.delta - d.price - d.cost - d.qty) <= 3 * Cent
  BY <1>2, DriverFacts
<1>9. InBoth = DOMAIN a \cap DOMAIN b
  BY DEF InBoth, a, b
<1> HIDE DEF h, q, n
<1>10. DOMAIN s = N /\ \A i \in N : s[i] = Driver(a, b, q[i])
  BY <1>7
<1> HIDE DEF s
<1>11. DOMAIN v = N /\ \A i \in N : v[i] = Magnitude(h[q[i]]) /\ v[i] \in Int
  <2>1. DOMAIN v = N /\ \A i \in N : v[i] = Magnitude(s[i].delta)
    BY <1>10
  <2> HIDE DEF v
  <2>2. \A i \in N : s[i].delta = h[q[i]] /\ h[q[i]] \in Int
    BY <1>6, <1>7, <1>8, <1>10
  <2>3. \A x \in Int : Magnitude(x) \in Int
    BY DEF Magnitude
  <2>4. QED BY <2>1, <2>2, <2>3
<1> HIDE DEF v
<1>12. IsFiniteSet(DOMAIN v) /\ Cardinality(DOMAIN v) = n /\ DOMAIN v \subseteq Nat
  <2>1. 1 \in Int /\ n \in Int
    BY <1>7
  <2>2. IsFiniteSet(N) /\ Cardinality(N) = n
    BY <1>7, <2>1, FS_Interval
  <2>3. QED BY <1>11, <2>2
<1>13. /\ \A k \in N : o[k] \in N
       /\ \A i \in N : \E k \in N : o[k] = i
       /\ \A i, j \in N : i < j => Before(v, o[i], o[j])
       /\ \A i, j \in N : o[i] = o[j] => i = j
  BY <1>11, <1>12, OrderFacts
<1>14. /\ rows \in Seq({s[i] : i \in DOMAIN v}) /\ Len(rows) = n
       /\ \A k \in N : rows[k] = s[o[k]]
  <2>1. rows = [k \in DOMAIN Order(v) |-> s[Order(v)[k]]]
    BY DEF RowsBy
  <2> HIDE DEF rows
  <2> DEFINE S == {s[i] : i \in DOMAIN v}
  <2>2. \A i \in DOMAIN v : v[i] \in Int
    BY <1>11
  <2>3. rows \in Seq(S)
    BY SMTT(60), <1>12, <2>1, <2>2, RankedIs
  <2>4. Len(rows) = Cardinality(DOMAIN v)
    BY <1>12, <2>1, <2>2, RankedIs
  <2>5. \A k \in 1 .. Len(rows) : rows[k] = s[Order(v)[k]]
    BY <1>12, <2>1, <2>2, RankedIs
  <2>6. QED BY <1>12, <2>3, <2>4, <2>5
<1> HIDE DEF rows, o
<1>15. m \in 0 .. n /\ (m = n \/ m = top) /\ m <= n
  BY <1>2, <1>7 DEF Least
<1>16. DOMAIN shown = 1 .. m /\ Len(shown) = m /\ \A k \in 1 .. m : shown[k] = rows[k]
  <2>1. shown = SubSeq(rows, 1, m)
    BY <1>3, <1>14
  <2> HIDE DEF shown, m
  <2>2. SubSeq(rows, 1, m) = [i \in 1 .. m |-> rows[1 + i - 1]]
    BY <1>14, <1>15
  <2>3. \A i \in 1 .. m : 1 + i - 1 = i
    BY <1>15
  <2>4. Len(SubSeq(rows, 1, m)) = m
    BY <1>14, <1>15
  <2>5. QED BY <2>1, <2>2, <2>3, <2>4
<1> HIDE DEF shown, m, D, N
<1> DEFINE b1 == [k \in N |-> q[o[k]]]
<1>17. /\ \A k \in N : b1[k] = q[o[k]] /\ b1[k] \in D
       /\ \A i, j \in N : b1[i] = b1[j] => i = j
       /\ \A x \in D : \E k \in N : b1[k] = x
  <2>1. \A k \in N : b1[k] = q[o[k]] /\ b1[k] \in D
    BY <1>7, <1>13
  <2> HIDE DEF b1
  <2>2. \A i, j \in N : b1[i] = b1[j] => i = j
    BY <1>7, <1>13, <2>1
  <2>3. \A x \in D : \E k \in N : b1[k] = x
    <3> SUFFICES ASSUME NEW x \in D PROVE \E k \in N : b1[k] = x
      OBVIOUS
    <3>1. PICK i \in N : q[i] = x
      BY <1>7
    <3>2. PICK k \in N : o[k] = i
      BY <1>13
    <3>3. b1[k] = x
      BY <2>1, <3>1, <3>2
    <3>4. QED BY <3>3
  <2>4. QED BY <2>1, <2>2, <2>3
<1> HIDE DEF b1
<1>18. ASSUME NEW k \in 1 .. m
       PROVE  /\ k \in N /\ shown[k] = Driver(a, b, b1[k]) /\ b1[k] \in D
              /\ shown[k].id = b1[k] /\ shown[k].delta = h[b1[k]]
  <2>1. k \in N
    BY <1>7, <1>15 DEF N
  <2>2. shown[k] = Driver(a, b, b1[k]) /\ b1[k] \in D
    <3>1. shown[k] = s[o[k]] /\ o[k] \in N
      BY <1>13, <1>14, <1>16, <2>1
    <3>2. s[o[k]] = Driver(a, b, q[o[k]])
      BY <1>10, <3>1
    <3>3. QED BY <1>17, <2>1, <3>1, <3>2
  <2>3. QED BY <1>8, <2>1, <2>2
<1>19. ids = {b1[k] : k \in 1 .. m} /\ ids \subseteq D
  BY <1>16, <1>18
<1>20. Cardinality(ids) = m
  <2> DEFINE M == 1 .. m
             f == [k \in M |-> b1[k]]
  <2>1. f \in Bijection(M, ids)
    <3>1. f \in Injection(M, ids)
      BY <1>17, <1>18, <1>19 DEF Injection, IsInjective
    <3>2. f \in Surjection(M, ids)
      BY <1>19 DEF Surjection
    <3>3. QED BY <3>1, <3>2 DEF Bijection
  <2>2. ExistsBijection(M, ids)
    BY <2>1 DEF ExistsBijection
  <2>3. m \in Nat
    BY <1>7, <1>15
  <2> HIDE DEF ids, f
  <2>4. QED BY <2>2, <2>3, FS_CountingElements
<1>21. ASSUME NEW i \in 1 .. m, NEW k \in D, k \notin ids
       PROVE  Magnitude(shown[i].delta) >= Magnitude(h[k])
  <2>1. PICK j \in N : b1[j] = k
    BY <1>17
  <2>2. ~ (j <= m) /\ i < j
    <3>1. ASSUME j <= m PROVE FALSE
      <4>1. j \in 1 .. m
        BY <1>15, <3>1 DEF N
      <4>2. QED BY <1>19, <1>21, <2>1, <4>1
    <3>2. QED BY <1>7, <1>15, <3>1 DEF N
  <2>3. i \in N /\ shown[i].delta = h[b1[i]]
    BY <1>18
  <2>4. Before(v, o[i], o[j])
    BY <1>13, <2>2, <2>3
  <2>5. v[o[i]] = Magnitude(h[b1[i]]) /\ v[o[i]] \in Int
    <3>1. o[i] \in N /\ b1[i] = q[o[i]]
      BY <1>13, <1>17, <2>3
    <3>2. QED BY <1>11, <3>1
  <2>6. v[o[j]] = Magnitude(h[k]) /\ v[o[j]] \in Int
    BY <1>11, <1>13, <1>17, <2>1
  <2>7. v[o[i]] >= v[o[j]]
    BY <2>4, <2>5, <2>6 DEF Before
  <2>8. QED BY <2>3, <2>5, <2>6, <2>7
<1>22. ASSUME ids = D PROVE SumBy(shown, LAMBDA d : d.delta) = answer.delta
  <2> DEFINE g == [k \in 1 .. m |-> shown[k].delta]
             was == SumFunctionOnSet(GrossOf(a), DOMAIN a)
             is == SumFunctionOnSet(GrossOf(b), DOMAIN b)
             total == is - was
  <2>1. m = n
    BY <1>20, <1>22 DEF n
  <2>2. SumBy(shown, LAMBDA d : d.delta) = SumFunctionOnSet(g, 1 .. m)
    BY <1>16 DEF SumBy, SumAt, SumFunction
  <2>3. 1 .. m = N /\ \A k \in 1 .. m : g[k] = h[b1[k]]
    BY <1>18, <2>1 DEF N
  <2> HIDE DEF g
  <2>4. SumFunctionOnSet(g, N) = SumFunctionOnSet(h, D)
    <3>1. IsFiniteSet(N)
      BY <1>11, <1>12
    <3>2. (\A k \in N : b1[k] \in D /\ g[k] = h[b1[k]]) /\ \A k \in D : h[k] \in Int
      BY <1>6, <1>17, <2>3
    <3>3. SumFunctionOnSet(g, N) = SumFunctionOnSet(h, D)
      BY <1>17, <3>1, <3>2, SumRename
    <3>4. QED BY <3>3
  <2>5. SumFunctionOnSet(h, D) = total
    BY <1>2, ChangesOfFacts DEF h, D
  <2>6. total \in Int /\ WholeCents(total)
    <3>1. was \in Int /\ WholeCents(was) /\ is \in Int /\ WholeCents(is)
      BY <1>2, EffectsSplit
    <3> HIDE DEF was, is
    <3>2. QED BY <3>1, WholeSums
  <2>7. answer.delta = MoneyRound(total)
    BY <1>3 DEF SumOver, SumFunction, GrossOf
  <2> HIDE DEF total
  <2>8. MoneyRound(total) = total
    BY <2>6, MoneyRoundFacts
  <2>9. QED BY <2>2, <2>3, <2>4, <2>5, <2>7, <2>8
<1>23. ASSUME NEW i \in DOMAIN shown
       PROVE  LET d == shown[i]
              IN  /\ d.delta = ProductChange(d.id)
                  /\ d.id \in InBoth => 2 * Magnitude(d.delta - d.price - d.cost - d.qty) <= 3 * Cent
                  /\ \A k \in D \ ids : Magnitude(d.delta) >= Magnitude(ProductChange(k))
  <2>1. i \in 1 .. m
    BY <1>16
  <2>2. shown[i].delta = h[shown[i].id] /\ shown[i].id \in D /\ shown[i] = Driver(a, b, shown[i].id)
    BY <1>18, <2>1
  <2> HIDE DEF ids
  <2>3. \A k \in D \ ids : Magnitude(shown[i].delta) >= Magnitude(ProductChange(k))
    BY <1>4, <1>21, <2>1
  <2>4. QED BY <1>4, <1>8, <1>9, <2>2, <2>3
<1>24. QED
  <2>1. D = DOMAIN SoldIn(input.a) \cup DOMAIN SoldIn(input.b)
    BY DEF D, a, b
  <2>2. Len(shown) = Cardinality(ids) /\ Len(shown) = Least(TopN(input.topN), Cardinality(D))
    BY <1>16, <1>20 DEF m, n
  <2>3. shown = answer.drivers
    BY DEF shown
  <2> HIDE DEF ids
  <2>4. QED BY <1>19, <1>22, <1>23, <2>1, <2>2, <2>3 DEF DriversAddUp, ids

\* Every breakdown adds up to its total: the buckets of the aging, the changes of a
\* comparison, the effects of a bridge, the cells of the matrix, stores, lines, points
\* and days (src/chic/aggregate).
THEOREM PartsAreRight == Spec => []PartsAddUp
<1>1. Asked => PartsAddUp
  BY AgingParts, ChangesParts, EffectsParts, DriversParts, CellsParts, StoresParts, LinesParts, PointsParts,
     DaysParts DEF PartsAddUp
<1>2. QED BY <1>1, Invariance, PTL

-----------------------------------------------------------------------------
(* Filters and lists joined.                                               *)

\* The function by which a list is filtered, of the first n of it.
IsKept(h, s, x, n) ==
    h = [i \in 0 .. n |-> IF i = 0 THEN <<>>
                          ELSE IF s[i] = x THEN h[i - 1] ELSE Append(h[i - 1], s[i])]

\* It exists.
LEMMA KeptExists ==
    ASSUME NEW s, NEW x, NEW n \in Nat
    PROVE  \E h : IsKept(h, s, x, n)
<1> DEFINE Value(h, i) == IF i = 0 THEN <<>>
                          ELSE IF s[i] = x THEN h[i - 1] ELSE Append(h[i - 1], s[i])
           Bad == {m \in Nat : ~ \E h : IsKept(h, s, x, m)}
<1>1. \E h : IsKept(h, s, x, 0)
  <2> DEFINE h == [i \in 0 .. 0 |-> Value(<<>>, 0)]
  <2>1. h = [i \in 0 .. 0 |-> Value(h, i)]
    OBVIOUS
  <2>2. QED BY <2>1 DEF IsKept
<1>2. ASSUME NEW m \in Nat, m # 0, NEW h, IsKept(h, s, x, m - 1) PROVE \E g : IsKept(g, s, x, m)
  <2> DEFINE g == [i \in 0 .. m |-> Value(h, i)]
  <2>1. \A i \in 0 .. (m - 1) : h[i] = Value(h, i)
    BY <1>2 DEF IsKept
  <2>2. ASSUME NEW i \in 0 .. m, i # 0 PROVE g[i - 1] = h[i - 1]
    <3> DEFINE j == i - 1
    <3>1. j \in 0 .. m /\ j \in 0 .. (m - 1)
      BY <2>2
    <3> HIDE DEF j
    <3>2. g[j] = Value(h, j)
      BY <3>1
    <3> HIDE DEF g, Value
    <3>3. g[j] = h[j]
      BY <2>1, <3>1, <3>2
    <3>4. QED BY <3>3 DEF j
  <2>3. g = [i \in 0 .. m |-> Value(g, i)]
    BY <2>2
  <2> HIDE DEF g
  <2>4. QED BY <2>3 DEF IsKept
<1>3. Bad = {}
  <2> SUFFICES ASSUME Bad # {} PROVE FALSE
    OBVIOUS
  <2>1. PICK m \in Bad : \A i \in Bad : m <= i
    BY Minimum
  <2>2. m # 0 /\ m - 1 \in Nat /\ m - 1 \notin Bad
    BY <1>1, <2>1
  <2>3. PICK h : IsKept(h, s, x, m - 1)
    BY <2>2
  <2>4. QED BY <1>2, <2>2, <2>3
<1>4. QED BY <1>3

\* What h[i] is left of the first i members of a list, one after another.
Filters(h, s, x, T) ==
    /\ Without(s, x) = h[Len(s)] /\ h[0] = <<>>
    /\ \A i \in 0 .. Len(s) : h[i] \in Seq(T)
    /\ \A i \in 1 .. Len(s) : h[i] = IF s[i] = x THEN h[i - 1] ELSE Append(h[i - 1], s[i])

\* There is one for each filter.
LEMMA WithoutIs ==
    ASSUME NEW T, NEW s \in Seq(T), NEW x
    PROVE  \E h : Filters(h, s, x, T)
<1> DEFINE n == Len(s)
           h == CHOOSE g : IsKept(g, s, x, n)
<1>1. n \in Nat /\ \A i \in 1 .. n : s[i] \in T
  OBVIOUS
<1>2. Without(s, x) = h[n]
  BY DEF Without, IsKept
<1>3. IsKept(h, s, x, n)
  BY <1>1, KeptExists
<1> HIDE DEF h, n
<1>4. h[0] = <<>> /\ \A i \in 1 .. n : h[i] = IF s[i] = x THEN h[i - 1] ELSE Append(h[i - 1], s[i])
  <2>1. \A i \in 0 .. n : h[i] = IF i = 0 THEN <<>>
                                ELSE IF s[i] = x THEN h[i - 1] ELSE Append(h[i - 1], s[i])
    BY <1>3 DEF IsKept
  <2>2. 0 \in 0 .. n /\ \A i \in 1 .. n : i \in 0 .. n /\ i # 0
    BY <1>1
  <2>3. QED BY <2>1, <2>2
<1> DEFINE Bad == {i \in 0 .. n : h[i] \notin Seq(T)}
<1>5. Bad = {}
  <2> SUFFICES ASSUME Bad # {} PROVE FALSE
    OBVIOUS
  <2>1. Bad \subseteq Nat
    BY <1>1
  <2>2. PICK i \in Bad : \A j \in Bad : i <= j
    BY <2>1, Minimum
  <2>3. i # 0
    <3>1. h[0] \in Seq(T)
      BY <1>4
    <3>2. QED BY <2>2, <3>1
  <2> DEFINE j == i - 1
  <2>4. i \in 1 .. n /\ j \in 0 .. n /\ ~ (i <= j)
    BY <1>1, <2>2, <2>3
  <2>5. h[i] = IF s[i] = x THEN h[j] ELSE Append(h[j], s[i])
    BY <1>4, <2>4
  <2> HIDE DEF j
  <2>6. h[j] \in Seq(T)
    BY <2>2, <2>4
  <2>7. h[i] \in Seq(T)
    BY <1>1, <2>4, <2>5, <2>6
  <2>8. QED BY <2>2, <2>7
<1>6. \A i \in 0 .. n : h[i] \in Seq(T)
  BY <1>5
<1>7. Filters(h, s, x, T)
  BY <1>2, <1>4, <1>6 DEF Filters, n
<1>8. QED BY <1>7

\* What a filter leaves of a list is one.
LEMMA WithoutType ==
    ASSUME NEW T, NEW s \in Seq(T), NEW x
    PROVE  Without(s, x) \in Seq(T)
<1>1. PICK h : Filters(h, s, x, T)
  BY WithoutIs
<1>2. Len(s) \in 0 .. Len(s)
  OBVIOUS
<1>3. QED BY <1>1, <1>2 DEF Filters

\* It leaves nothing of what is x throughout.
LEMMA WithoutAll ==
    ASSUME NEW T, NEW s \in Seq(T), NEW x, \A i \in 1 .. Len(s) : s[i] = x
    PROVE  Without(s, x) = <<>>
<1> DEFINE n == Len(s)
<1>1. n \in Nat
  OBVIOUS
<1>2. PICK h : /\ Without(s, x) = h[n] /\ h[0] = <<>>
               /\ \A i \in 1 .. n : h[i] = IF s[i] = x THEN h[i - 1] ELSE Append(h[i - 1], s[i])
  BY WithoutIs DEF Filters
<1>3. \A i \in 1 .. n : s[i] = x
  OBVIOUS
<1> HIDE DEF n
<1> DEFINE Bad == {i \in 0 .. n : h[i] # <<>>}
<1>4. Bad = {}
  <2> SUFFICES ASSUME Bad # {} PROVE FALSE
    OBVIOUS
  <2>1. Bad \subseteq Nat
    BY <1>1
  <2>2. PICK i \in Bad : \A j \in Bad : i <= j
    BY <2>1, Minimum
  <2> DEFINE j == i - 1
  <2>3. i \in 1 .. n /\ j \in 0 .. n /\ ~ (i <= j)
    BY <1>1, <1>2, <2>2
  <2>4. h[i] = h[j]
    BY <1>2, <1>3, <2>3
  <2> HIDE DEF j
  <2>5. QED BY <2>2, <2>3, <2>4
<1>5. n \in 0 .. n
  BY <1>1
<1>6. QED BY <1>2, <1>4, <1>5

\* One list behind another.
Joined(s, t) == s \o t

\* Lists joined are a list.
LEMMA JoinedFacts ==
    ASSUME NEW T, NEW a \in Seq(T), NEW b \in Seq(T), NEW c \in Seq(T)
    PROVE  /\ Joined(a, b) \in Seq(T) /\ Joined(a, <<>>) = a
           /\ Joined(Joined(a, b), c) = Joined(a, Joined(b, c))
<1>1. a \o b \in Seq(T) /\ a \o <<>> = a
  OBVIOUS
<1>2. (a \o b) \o c = a \o (b \o c)
  BY ConcatAssociative
<1>3. QED BY <1>1, <1>2 DEF Joined

\* What it leaves of two lists joined is what it leaves of each.
LEMMA WithoutJoined ==
    ASSUME NEW T, NEW s \in Seq(T), NEW t \in Seq(T), NEW x
    PROVE  Without(Joined(s, t), x) = Joined(Without(s, x), Without(t, x))
<1> DEFINE u == s \o t
           m == Len(s)
           n == Len(t)
           l == Len(u)
<1>1. /\ u \in Seq(T) /\ m \in Nat /\ n \in Nat /\ l = m + n
      /\ \A i \in 1 .. m : u[i] = s[i]
      /\ \A i \in 1 .. n : u[m + i] = t[i] /\ t[i] \in T
  OBVIOUS
<1> HIDE DEF u
<1>2. PICK h : /\ Without(s, x) = h[m] /\ h[0] = <<>>
               /\ \A i \in 0 .. m : h[i] \in Seq(T)
               /\ \A i \in 1 .. m : h[i] = IF s[i] = x THEN h[i - 1] ELSE Append(h[i - 1], s[i])
  <2>1. PICK h : Filters(h, s, x, T)
    BY WithoutIs
  <2>2. QED BY <2>1 DEF Filters
<1>3. PICK g : /\ Without(t, x) = g[n] /\ g[0] = <<>>
               /\ \A i \in 0 .. n : g[i] \in Seq(T)
               /\ \A i \in 1 .. n : g[i] = IF t[i] = x THEN g[i - 1] ELSE Append(g[i - 1], t[i])
  <2>1. PICK g : Filters(g, t, x, T)
    BY WithoutIs
  <2>2. QED BY <2>1 DEF Filters
<1>4. PICK k : /\ Without(u, x) = k[l] /\ k[0] = <<>>
               /\ \A i \in 1 .. l : k[i] = IF u[i] = x THEN k[i - 1] ELSE Append(k[i - 1], u[i])
  <2>1. PICK k : Filters(k, u, x, T)
    BY <1>1, WithoutIs
  <2>2. QED BY <2>1 DEF Filters
<1> HIDE DEF m, n, l
<1>5. k[m] = h[m]
  <2> DEFINE Bad == {i \in 0 .. m : k[i] # h[i]}
  <2>1. Bad = {}
    <3> SUFFICES ASSUME Bad # {} PROVE FALSE
      OBVIOUS
    <3>1. Bad \subseteq Nat
      BY <1>1
    <3>2. PICK i \in Bad : \A j \in Bad : i <= j
      BY <3>1, Minimum
    <3> DEFINE j == i - 1
    <3>3. i \in 1 .. m /\ j \in 0 .. m /\ ~ (i <= j) /\ i \in 1 .. l
      BY <1>1, <1>2, <1>4, <3>2
    <3>4. /\ k[i] = IF u[i] = x THEN k[j] ELSE Append(k[j], u[i])
          /\ h[i] = IF s[i] = x THEN h[j] ELSE Append(h[j], s[i])
      BY <1>2, <1>4, <3>3
    <3> HIDE DEF j
    <3>5. k[j] = h[j] /\ u[i] = s[i]
      BY <1>1, <3>2, <3>3
    <3>6. QED BY <3>2, <3>4, <3>5
  <2>2. m \in 0 .. m
    BY <1>1
  <2>3. QED BY <2>1, <2>2
<1> DEFINE a == h[m]
<1>6. a \in Seq(T) /\ k[m] = a
  BY <1>1, <1>2, <1>5
<1> HIDE DEF a
<1>7. \A b, c \in Seq(T) : \A y \in T : Append(b \o c, y) = b \o Append(c, y)
  <2> SUFFICES ASSUME NEW b \in Seq(T), NEW c \in Seq(T), NEW y \in T
               PROVE  Append(b \o c, y) = b \o Append(c, y)
    OBVIOUS
  <2> DEFINE e == <<y>>
  <2>1. b \o c \in Seq(T) /\ e \in Seq(T)
    OBVIOUS
  <2>2. Append(b \o c, y) = (b \o c) \o e /\ Append(c, y) = c \o e
    BY <2>1, AppendIsConcat
  <2> HIDE DEF e
  <2>3. (b \o c) \o e = b \o (c \o e)
    BY SMTT(60), <2>1, ConcatAssociative
  <2>4. QED BY <2>2, <2>3
<1>8. k[m + n] = a \o g[n]
  <2> DEFINE Bad == {i \in 0 .. n : k[m + i] # a \o g[i]}
  <2>1. Bad = {}
    <3> SUFFICES ASSUME Bad # {} PROVE FALSE
      OBVIOUS
    <3>1. Bad \subseteq Nat
      BY <1>1
    <3>2. PICK i \in Bad : \A j \in Bad : i <= j
      BY <3>1, Minimum
    <3>3. i # 0
      <4>1. a \o <<>> = a /\ m + 0 = m
        BY <1>1, <1>6
      <4>2. k[m + 0] = a \o g[0]
        BY <1>3, <1>6, <4>1
      <4>3. QED BY <3>2, <4>2
    <3> DEFINE j == i - 1
               p == m + i
               q == m + j
               w == g[j]
               y == t[i]
    <3>4. /\ i \in 1 .. n /\ j \in 0 .. n /\ ~ (i <= j) /\ p \in 1 .. l /\ p - 1 = q
          /\ u[p] = y /\ y \in T
      BY <1>1, <3>2, <3>3
    <3>5. k[p] = IF u[p] = x THEN k[p - 1] ELSE Append(k[p - 1], u[p])
      BY <1>4, <3>4
    <3>6. g[i] = IF y = x THEN w ELSE Append(w, y)
      BY <1>3, <3>4
    <3>7. w \in Seq(T) /\ k[q] = a \o w
      <4>1. j \notin Bad
        BY <3>2, <3>4
      <4>2. k[m + j] = a \o g[j]
        BY <3>4, <4>1
      <4>3. QED BY <1>3, <3>4, <4>2
    <3>8. k[p] # a \o g[i]
      BY <3>2
    <3> HIDE DEF j, p, q, w, y
    <3>9. Append(a \o w, y) = a \o Append(w, y)
      <4>1. a \in Seq(T)
        BY <1>6
      <4>2. w \in Seq(T)
        BY <3>7
      <4>3. y \in T
        BY <3>4
      <4>4. QED BY <1>7, <4>1, <4>2, <4>3, Zenon
    <3>10. k[p] = IF y = x THEN a \o w ELSE Append(a \o w, y)
      BY <3>4, <3>5, <3>7
    <3>11. QED BY <3>6, <3>8, <3>9, <3>10
  <2>2. n \in 0 .. n
    BY <1>1
  <2>3. QED BY <2>1, <2>2
<1>9. QED BY <1>1, <1>2, <1>3, <1>4, <1>8 DEF a, u, Joined

\* The first of sequences that are joined comes first.
LEMMA FlattenPut ==
    ASSUME NEW T, NEW a \in Seq(T), NEW p \in Seq(Seq(T))
    PROVE  /\ FlattenSeq(p) \in Seq(T)
           /\ FlattenSeq(Joined(<<a>>, p)) = Joined(a, FlattenSeq(p))
<1> DEFINE S == Seq(T)
           q == <<a>> \o p
           n == Len(p)
<1>1. /\ n \in Nat /\ Len(q) = n + 1 /\ q[1] = a
      /\ \A i \in 1 .. n : q[i + 1] = p[i] /\ p[i] \in S
  <2> HIDE DEF S
  <2>1. p \in Seq(S) /\ a \in S
    BY DEF S
  <2>2. QED BY <2>1
<1>2. q = Joined(<<a>>, p)
  BY DEF Joined
<1>3. \A x, y, z \in Seq(T) : /\ Joined(x, y) \in Seq(T) /\ Joined(x, <<>>) = x
                              /\ Joined(Joined(x, y), z) = Joined(x, Joined(y, z))
  BY JoinedFacts
<1>4. /\ a \in S /\ <<>> \in S
      /\ \A x, y, z \in S : /\ Joined(x, y) \in S /\ Joined(x, <<>>) = x
                            /\ Joined(Joined(x, y), z) = Joined(x, Joined(y, z))
  BY <1>3
<1>5. n = 0 => p = <<>>
  BY <1>1
<1>6. Joined(a, <<>>) = a
  BY <1>4
<1> HIDE DEF q, S
<1>7. PICK h : /\ FlattenSeq(q) = h[n + 1]
               /\ \A i \in 1 .. n + 1 : h[i] = IF i = 1 THEN q[i] ELSE Joined(h[i - 1], q[i])
  <2>1. Len(q) \in Nat /\ Len(q) # 0
    BY <1>1
  <2>2. PICK h : IsJoin(h, q, Len(q)) /\ FlattenSeq(q) = h[Len(q)]
    BY <2>1, FlattenIs
  <2> DEFINE l == n + 1
  <2>3. l = Len(q)
    BY <1>1
  <2> HIDE DEF l
  <2>4. FlattenSeq(q) = h[l] /\ \A i \in 1 .. l : h[i] = IF i = 1 THEN q[i] ELSE Joined(h[i - 1], q[i])
    BY <2>2, <2>3 DEF IsJoin, Joined
  <2>5. QED BY <2>4 DEF l
<1>8. h[1] = a
  <2>1. 1 \in 1 .. n + 1
    BY <1>1
  <2>2. QED BY <1>1, <1>7, <2>1
<1>9. CASE n = 0
  <2>1. FlattenSeq(p) = <<>>
    <3>1. FlattenSeq(p) = p
      BY <1>9 DEF FlattenSeq
    <3>2. QED BY <1>5, <1>9, <3>1
  <2>2. FlattenSeq(q) = a
    BY <1>7, <1>8, <1>9
  <2>3. FlattenSeq(p) \in S /\ FlattenSeq(q) = Joined(a, FlattenSeq(p))
    BY <1>4, <1>6, <2>1, <2>2
  <2>4. QED BY <1>2, <2>3 DEF S
<1>10. CASE n # 0
  <2>1. PICK g : /\ FlattenSeq(p) = g[n]
                 /\ \A i \in 1 .. n : g[i] = IF i = 1 THEN p[i] ELSE Joined(g[i - 1], p[i])
    <3>1. PICK g : IsJoin(g, p, n) /\ FlattenSeq(p) = g[n]
      BY <1>1, <1>10, FlattenIs
    <3>2. QED BY <3>1 DEF IsJoin, Joined
  <2> HIDE DEF n
  <2> DEFINE Good(i) == g[i] \in S /\ h[i + 1] = Joined(a, g[i])
             Bad == {i \in 1 .. n : ~ Good(i)}
  <2>2. ASSUME NEW i \in 1 .. n, i = 1 PROVE Good(i)
    <3> DEFINE k == i + 1
    <3>1. g[i] = p[i] /\ p[i] \in S /\ k \in 1 .. n + 1 /\ k # 1 /\ k - 1 = 1 /\ q[k] = p[i]
      BY <1>1, <2>1, <2>2
    <3> HIDE DEF k
    <3>2. h[k] = Joined(h[k - 1], q[k])
      BY <1>7, <3>1
    <3>3. h[k] = Joined(a, g[i])
      BY <1>8, <3>1, <3>2
    <3>4. QED BY <3>1, <3>3 DEF k
  <2>3. ASSUME NEW i \in 1 .. n, i # 1, Good(i - 1) PROVE Good(i)
    <3> DEFINE k == i + 1
               j == i - 1
    <3>1. /\ j \in 1 .. n /\ k \in 1 .. n + 1 /\ k # 1 /\ k - 1 = i /\ j + 1 = i /\ q[k] = p[i]
          /\ p[i] \in S
      BY <1>1, <2>3
    <3>2. h[j + 1] = Joined(a, g[j]) /\ g[j] \in S
      BY <2>3
    <3>3. g[i] = Joined(g[j], p[i])
      BY <2>1, <2>3
    <3> HIDE DEF k, j
    <3> DEFINE x == g[j]
               y == p[i]
    <3>4. h[k] = Joined(h[k - 1], q[k])
      BY <1>7, <3>1
    <3>5. h[k] = Joined(Joined(a, x), y) /\ g[i] = Joined(x, y) /\ x \in S /\ y \in S
      BY <3>1, <3>2, <3>3, <3>4
    <3> HIDE DEF x, y
    <3>6. h[k] = Joined(a, g[i]) /\ g[i] \in S
      BY <1>4, <3>5
    <3>7. QED BY <3>6 DEF k
  <2> HIDE DEF Good
  <2>4. Bad = {}
    <3> SUFFICES ASSUME Bad # {} PROVE FALSE
      OBVIOUS
    <3>1. Bad \subseteq Nat
      BY <1>1
    <3>2. PICK i \in Bad : \A j \in Bad : i <= j
      BY <3>1, Minimum
    <3>3. i \in 1 .. n /\ i # 1 /\ i - 1 \in 1 .. n /\ i - 1 \notin Bad
      BY <1>1, <2>2, <3>2
    <3>4. QED BY <2>3, <3>2, <3>3
  <2>5. Good(n)
    <3>1. n \in 1 .. n
      BY <1>1, <1>10
    <3>2. QED BY <2>4, <3>1
  <2>6. FlattenSeq(p) \in S /\ FlattenSeq(q) = Joined(a, FlattenSeq(p))
    BY <1>7, <2>1, <2>5 DEF Good
  <2>7. QED BY <1>2, <2>6 DEF S
<1>11. QED BY <1>9, <1>10

\* The largest and the smallest of some numbers up to n.
LEMMA MaxIs ==
    ASSUME NEW n \in Nat, NEW S \in SUBSET (0 .. n), S # {}
    PROVE  Max(S) \in S /\ \A i \in S : i <= Max(S)
<1> DEFINE D == {n - i : i \in S}
<1>1. D \in SUBSET Nat /\ D # {}
  OBVIOUS
<1>2. PICK d \in D : \A e \in D : d <= e
  BY <1>1, Minimum
<1>3. PICK m \in S : d = n - m
  BY <1>2
<1>4. \A i \in S : n - i \in D
  OBVIOUS
<1> HIDE DEF D
<1>5. \A i \in S : i <= m
  BY <1>2, <1>3, <1>4
<1>6. \E x \in S : \A y \in S : x >= y
  BY <1>3, <1>5
<1>7. Max(S) \in S /\ \A y \in S : Max(S) >= y
  BY <1>6 DEF Max
<1>8. QED BY <1>7

\* The first m of a list, and those behind them.
Upto(s, m) == SubSeq(s, 1, m)
Beyond(s, m) == SubSeq(s, m + 1, Len(s))

\* Together they are the list.
LEMMA SplitAt ==
    ASSUME NEW T, NEW s \in Seq(T), NEW m \in 0 .. Len(s)
    PROVE  /\ Upto(s, m) \in Seq(T) /\ Len(Upto(s, m)) = m
           /\ Beyond(s, m) \in Seq(T) /\ Len(Beyond(s, m)) = Len(s) - m
           /\ \A i \in 1 .. Len(s) - m : Beyond(s, m)[i] = s[m + i]
           /\ Joined(Upto(s, m), Beyond(s, m)) = s
<1> DEFINE l == Len(s)
           a == SubSeq(s, 1, m)
           b == SubSeq(s, m + 1, l)
<1>1. l \in Nat /\ m \in 0 .. l
  OBVIOUS
<1>2. /\ a \in Seq(T) /\ Len(a) = m /\ b \in Seq(T) /\ Len(b) = l - m
      /\ \A i \in 1 .. l - m : b[i] = s[m + i]
  BY <1>1
<1>3. Joined(a, b) = s
  <2> DEFINE u == a \o b
  <2>1. \A i \in 1 .. m : a[i] = s[i]
    BY <1>1
  <2> HIDE DEF a, b
  <2> DEFINE c == Len(a)
             d == Len(b)
  <2>2. c = m /\ d = l - m /\ m \in Nat /\ l - m \in Nat /\ m + (l - m) = l
    BY <1>1, <1>2
  <2>3. /\ u \in Seq(T) /\ Len(u) = c + d
        /\ \A i \in 1 .. c + d : u[i] = IF i <= c THEN a[i] ELSE b[i - c]
    <3>1. a \in Seq(T) /\ b \in Seq(T)
      BY <1>2
    <3>2. QED BY <3>1
  <2> HIDE DEF u, c, d
  <2>4. /\ u \in Seq(T) /\ Len(u) = l
        /\ \A i \in 1 .. l : u[i] = IF i <= m THEN a[i] ELSE b[i - m]
    BY <2>2, <2>3
  <2>5. ASSUME NEW i \in 1 .. l PROVE u[i] = s[i]
    <3>1. CASE i <= m
      BY <1>1, <2>1, <2>4, <3>1
    <3>2. CASE i > m
      <4> DEFINE j == i - m
      <4>1. j \in 1 .. l - m /\ m + j = i
        BY <1>1, <3>2
      <4>2. u[i] = b[j]
        BY <1>1, <2>4, <3>2
      <4> HIDE DEF j
      <4>3. b[j] = s[m + j]
        BY <1>2, <4>1
      <4>4. QED BY <4>1, <4>2, <4>3
    <3>3. i \in Int /\ m \in Int
      BY <1>1
    <3>4. i <= m \/ i > m
      BY <3>3
    <3>5. QED BY <3>1, <3>2, <3>4
  <2>6. u = s
    BY <1>1, <2>4, <2>5, SeqEqual
  <2>7. QED BY <2>6 DEF u, Joined
<1>4. QED BY <1>2, <1>3 DEF Upto, Beyond

\* What is left of a text without the newlines at its end has its letters.
LEMMA StrippedIs ==
    ASSUME NEW s \in Seq(Nat)
    PROVE  /\ Stripped(s) \in Seq(Nat) /\ Len(Stripped(s)) \in Nat /\ Len(Stripped(s)) <= Len(s)
           /\ Without(Stripped(s), Newline) = Without(s, Newline)
<1> DEFINE l == Len(s)
           S == {0} \cup {i \in DOMAIN s : s[i] # Newline}
           m == Max(S)
           a == Upto(s, m)
           b == Beyond(s, m)
<1>1. l \in Nat /\ DOMAIN s = 1 .. l
  OBVIOUS
<1>2. S \in SUBSET (0 .. l) /\ S # {}
  BY <1>1
<1>3. m \in 0 .. l /\ \A i \in 1 .. l : i > m => s[i] = Newline
  <2>1. m \in S /\ \A i \in S : i <= m
    <3> HIDE DEF S, l
    <3>1. QED BY <1>1, <1>2, MaxIs
  <2> HIDE DEF m
  <2>2. ASSUME NEW i \in 1 .. l, i > m PROVE s[i] = Newline
    <3>1. i \in S => i <= m
      BY <2>1
    <3>2. m \in 0 .. l
      BY <1>2, <2>1
    <3>3. i \notin S
      BY <1>1, <2>2, <3>1, <3>2
    <3>4. QED BY <1>1, <3>3
  <2>3. QED BY <1>2, <2>1, <2>2
<1> HIDE DEF S, m
<1>4. Stripped(s) = a
  BY DEF Stripped, Upto, m, S
<1>5. /\ a \in Seq(Nat) /\ Len(a) = m /\ b \in Seq(Nat) /\ Len(b) = l - m
      /\ \A i \in 1 .. l - m : b[i] = s[m + i]
      /\ Joined(a, b) = s
  BY <1>3, SplitAt
<1> HIDE DEF a, b
<1>6. Without(b, Newline) = <<>>
  <2>1. \A i \in 1 .. Len(b) : b[i] = Newline
    BY <1>1, <1>3, <1>5
  <2>2. QED BY <1>5, <2>1, WithoutAll
<1>7. Without(s, Newline) = Joined(Without(a, Newline), Without(b, Newline))
  BY <1>5, WithoutJoined
<1> DEFINE w == Without(a, Newline)
<1>8. w \in Seq(Nat)
  BY <1>5, WithoutType
<1> HIDE DEF w
<1>9. Joined(w, <<>>) = w
  BY <1>8, JoinedFacts
<1>10. Without(s, Newline) = w
  BY <1>6, <1>7, <1>9 DEF w
<1>11. Len(a) \in Nat /\ Len(a) <= l
  BY <1>1, <1>3, <1>5
<1>12. QED BY <1>4, <1>5, <1>10, <1>11 DEF w

-----------------------------------------------------------------------------
(* The chunks of an answer.                                                *)

\* The last n characters of a text, and the piece in front of them that is cut off.
Behind(text, n) == SubSeq(text, Len(text) - n + 1, Len(text))
CutPiece(text, n) == SubSeq(Behind(text, n), 1, Cut(Behind(text, n)))

\* A piece is neither empty nor too long, and what is left are characters of the text.
LEMMA CutOff ==
    ASSUME NEW text \in Seq(Nat), NEW n \in 0 .. Len(text), n > SplitTarget
    PROVE  /\ Left(Behind(text, n)) \in 0 .. n - 1
           /\ CutPiece(text, n) \in Seq(Nat) /\ Len(CutPiece(text, n)) \in 1 .. SplitTarget
           /\ Behind(text, n) = Joined(CutPiece(text, n), Behind(text, Left(Behind(text, n))))
<1> DEFINE l == Len(text)
           s == Beyond(text, l - n)
           c == Cut(s)
           T == SplitTarget
<1>1. l \in Nat /\ n \in 0 .. l /\ l - n \in 0 .. l /\ T \in Nat \ {0}
  BY SplitAssumption
<1>2. s = Behind(text, n)
  BY DEF Beyond, Behind
<1>3. /\ s \in Seq(Nat) /\ Len(s) = l - (l - n)
      /\ \A i \in 1 .. l - (l - n) : s[i] = text[(l - n) + i]
  <2> DEFINE m == l - n
  <2>1. m \in 0 .. Len(text)
    BY <1>1
  <2> HIDE DEF m
  <2>2. /\ Beyond(text, m) \in Seq(Nat) /\ Len(Beyond(text, m)) = Len(text) - m
        /\ \A i \in 1 .. Len(text) - m : Beyond(text, m)[i] = text[m + i]
    BY <2>1, SplitAt
  <2>3. QED BY <2>2 DEF m
<1>4. Len(s) = n /\ \A i \in 1 .. n : s[i] = text[(l - n) + i]
  BY <1>1, <1>3
<1> HIDE DEF s
<1>5. c \in 1 .. T
  <2> DEFINE newlines == {i \in T \div 2 + 1 .. T : s[i] = Newline}
  <2>1. newlines \in SUBSET (0 .. T) /\ newlines \in SUBSET (1 .. T)
    BY <1>1
  <2>2. c = IF newlines = {} THEN T ELSE Max(newlines)
    BY DEF Cut
  <2> HIDE DEF newlines, c
  <2>3. T \in 1 .. T /\ T \in Nat
    BY <1>1
  <2>4. newlines # {} => Max(newlines) \in newlines
    BY <2>1, <2>3, MaxIs
  <2>5. QED BY <2>1, <2>2, <2>3, <2>4
<1>6. Left(s) = n - c
  BY <1>4 DEF Left
<1> HIDE DEF c
<1>7. c \in 0 .. Len(s) /\ n - c \in 0 .. n - 1 /\ l - (n - c) \in 0 .. l
  BY <1>1, <1>4, <1>5
<1>8. /\ Upto(s, c) \in Seq(Nat) /\ Len(Upto(s, c)) = c
      /\ Beyond(s, c) \in Seq(Nat) /\ Len(Beyond(s, c)) = Len(s) - c
      /\ \A i \in 1 .. Len(s) - c : Beyond(s, c)[i] = s[c + i]
      /\ Joined(Upto(s, c), Beyond(s, c)) = s
  BY <1>3, <1>7, SplitAt
<1>9. Beyond(s, c) = Beyond(text, l - (n - c))
  <2> DEFINE m == l - (n - c)
             u == Beyond(s, c)
             v == Beyond(text, m)
             k == n - c
  <2>1. v \in Seq(Nat) /\ Len(v) = l - m /\ \A i \in 1 .. l - m : v[i] = text[m + i]
    BY <1>7, SplitAt
  <2>2. l - m = k /\ k \in Nat
    BY <1>1, <1>7
  <2>3. u \in Seq(Nat) /\ Len(u) = k /\ \A i \in 1 .. k : u[i] = s[c + i]
    BY <1>4, <1>8
  <2>4. \A i \in 1 .. k : c + i \in 1 .. n /\ (l - n) + (c + i) = m + i
    BY <1>1, <1>5, <1>7
  <2> HIDE DEF m, u, v, k
  <2>5. ASSUME NEW i \in 1 .. k PROVE u[i] = v[i]
    <3> DEFINE j == c + i
    <3>1. j \in 1 .. n /\ (l - n) + j = m + i /\ u[i] = s[j]
      BY <2>3, <2>4
    <3> HIDE DEF j
    <3>2. s[j] = text[(l - n) + j]
      BY <1>4, <3>1
    <3>3. v[i] = text[m + i]
      BY <2>1, <2>2
    <3>4. QED BY <3>1, <3>2, <3>3
  <2>6. u = v
    BY <2>1, <2>2, <2>3, <2>5, SeqEqual
  <2>7. QED BY <2>6 DEF u, v, m
<1>10. Beyond(text, l - (n - c)) = Behind(text, n - c)
  BY DEF Beyond, Behind
<1>11. Upto(s, c) = CutPiece(text, n)
  BY <1>2 DEF Upto, CutPiece, c
<1>12. Len(Upto(s, c)) \in 1 .. SplitTarget
  BY <1>5, <1>8
<1>13. QED BY <1>2, <1>6, <1>7, <1>8, <1>9, <1>10, <1>11, <1>12

\* The function of the pieces of a text, for its last n characters.
IsPieces(h, text, n) ==
    h = [m \in 0 .. n |->
            IF m > SplitTarget
            THEN <<Stripped(CutPiece(text, m))>> \o h[Left(Behind(text, m))]
            ELSE Without(<<Stripped(Behind(text, m))>>, <<>>)]

\* It exists: each piece leaves fewer characters.
LEMMA PiecesExist ==
    ASSUME NEW text \in Seq(Nat), NEW n \in 0 .. Len(text)
    PROVE  \E h : IsPieces(h, text, n)
<1> DEFINE Back(i) == Left(Behind(text, i))
           Short(i) == Without(<<Stripped(Behind(text, i))>>, <<>>)
           One(i) == <<Stripped(CutPiece(text, i))>>
           Value(h, i) == IF i > SplitTarget THEN One(i) \o h[Back(i)] ELSE Short(i)
           l == Len(text)
           Bad == {m \in 0 .. l : ~ \E h : IsPieces(h, text, m)}
<1>1. l \in Nat /\ SplitTarget \in Nat \ {0}
  BY SplitAssumption
<1>2. \A i \in 0 .. l : i > SplitTarget => Back(i) \in 0 .. i - 1
  BY CutOff
<1>3. \A h, m : IsPieces(h, text, m) <=> h = [i \in 0 .. m |-> Value(h, i)]
  BY DEF IsPieces
<1> HIDE DEF Back, Short, One, l
<1>4. \E h : IsPieces(h, text, 0)
  <2> DEFINE h == [i \in 0 .. 0 |-> Short(i)]
  <2>1. \A i \in 0 .. 0 : Value(h, i) = Short(i)
    BY <1>1
  <2>2. h = [i \in 0 .. 0 |-> Value(h, i)]
    BY <2>1
  <2> HIDE DEF h
  <2>3. QED BY <1>3, <2>2
<1>5. ASSUME NEW m \in 0 .. l, m # 0, NEW h, IsPieces(h, text, m - 1) PROVE \E g : IsPieces(g, text, m)
  <2> DEFINE g == [i \in 0 .. m |-> Value(h, i)]
  <2>1. h = [i \in 0 .. m - 1 |-> Value(h, i)]
    BY <1>3, <1>5
  <2>2. ASSUME NEW i \in 0 .. m - 1 PROVE g[i] = h[i]
    <3>1. i \in 0 .. m
      BY <1>1, <1>5
    <3>2. g[i] = Value(h, i)
      BY <3>1
    <3> HIDE DEF Value
    <3>3. h[i] = Value(h, i)
      BY <2>1
    <3>4. QED BY <3>2, <3>3
  <2>3. ASSUME NEW i \in 0 .. m PROVE Value(g, i) = Value(h, i)
    <3>1. CASE i > SplitTarget
      <4>1. Back(i) \in 0 .. i - 1
        BY <1>1, <1>2, <1>5, <3>1
      <4>2. Back(i) \in 0 .. m - 1
        BY <1>1, <1>5, <4>1
      <4>3. g[Back(i)] = h[Back(i)]
        BY <2>2, <4>2
      <4> HIDE DEF g
      <4>4. QED BY <4>3
    <3>2. CASE ~ (i > SplitTarget)
      BY <3>2
    <3>3. QED BY <3>1, <3>2
  <2> DEFINE k == [i \in 0 .. m |-> Value(g, i)]
  <2>4. g = k
    <3> HIDE DEF Value
    <3>1. QED BY <2>3
  <2> HIDE DEF g
  <2>5. IsPieces(g, text, m)
    BY <1>3, <2>4
  <2>6. QED BY <2>5
<1>6. Bad = {}
  <2> SUFFICES ASSUME Bad # {} PROVE FALSE
    OBVIOUS
  <2>1. Bad \subseteq Nat
    BY <1>1
  <2>2. PICK m \in Bad : \A i \in Bad : m <= i
    BY <2>1, Minimum
  <2>3. m \in 0 .. l /\ m # 0 /\ m - 1 \in 0 .. l /\ ~ (m <= m - 1)
    BY <1>1, <1>4, <2>2
  <2>4. PICK h : IsPieces(h, text, m - 1)
    BY <2>2, <2>3
  <2>5. QED BY <1>5, <2>2, <2>3, <2>4
<1>7. QED BY <1>6 DEF l

\* Pieces that hold the letters of s, none of them too long.
HoldLetters(p, s) ==
    /\ p \in Seq(Seq(Nat))
    /\ \A i \in 1 .. Len(p) : Len(p[i]) <= SplitTarget
    /\ Without(FlattenSeq(p), Newline) = Without(s, Newline)

\* A text that is short enough is one piece, or none if it is all newlines.
LEMMA ShortHolds ==
    ASSUME NEW s \in Seq(Nat), Len(s) <= SplitTarget
    PROVE  HoldLetters(Without(<<Stripped(s)>>, <<>>), s)
<1> DEFINE a == Stripped(s)
           q == <<a>>
           p == Without(q, <<>>)
<1> SUFFICES HoldLetters(p, s)
  OBVIOUS
<1>1. /\ a \in Seq(Nat) /\ Len(a) \in Nat /\ Len(a) <= Len(s)
      /\ Without(a, Newline) = Without(s, Newline)
  BY StrippedIs
<1>2. Len(a) <= SplitTarget
  <2>1. Len(s) \in Nat /\ SplitTarget \in Nat
    BY SplitAssumption
  <2>2. QED BY <1>1, <2>1
<1> HIDE DEF a
<1>3. q \in Seq(Seq(Nat)) /\ Len(q) = 1 /\ q[1] = a
  <2> DEFINE S == Seq(Nat)
  <2>1. a \in S
    BY <1>1
  <2> HIDE DEF S
  <2>2. q \in Seq(S) /\ Len(q) = 1 /\ q[1] = a
    BY <2>1
  <2>3. QED BY <2>2 DEF S
<1> HIDE DEF q, p
<1>4. PICK h : /\ p = h[1] /\ h[0] = <<>>
               /\ h[1] = IF q[1] = <<>> THEN h[0] ELSE Append(h[0], q[1])
  <2>1. PICK h : Filters(h, q, <<>>, Seq(Nat))
    BY <1>3, WithoutIs
  <2>2. 1 \in 1 .. 1 /\ 1 - 1 = 0
    OBVIOUS
  <2>3. h[1] = IF q[1] = <<>> THEN h[1 - 1] ELSE Append(h[1 - 1], q[1])
    BY <1>3, <2>1, <2>2 DEF Filters
  <2>4. QED BY <1>3, <2>1, <2>2, <2>3 DEF Filters, p
<1>5. CASE a = <<>>
  <2>1. p = <<>>
    BY <1>3, <1>4, <1>5
  <2>2. FlattenSeq(p) = a
    BY <1>5, <2>1 DEF FlattenSeq
  <2>3. p \in Seq(Seq(Nat)) /\ \A i \in 1 .. Len(p) : Len(p[i]) <= SplitTarget
    BY <2>1
  <2>4. QED BY <1>1, <2>2, <2>3 DEF HoldLetters
<1>6. CASE a # <<>>
  <2>1. p = Append(<<>>, a)
    BY <1>3, <1>4, <1>6
  <2>2. p = q
    <3>1. Append(<<>>, a) = <<a>>
      OBVIOUS
    <3>2. QED BY <2>1, <3>1 DEF q
  <2>3. FlattenSeq(q) = a
    <3>1. /\ FlattenSeq(<<>>) \in Seq(Nat)
          /\ FlattenSeq(Joined(<<a>>, <<>>)) = Joined(a, FlattenSeq(<<>>))
      <4>1. <<>> \in Seq(Seq(Nat))
        OBVIOUS
      <4>2. QED BY <1>1, <4>1, FlattenPut
    <3>2. Joined(<<a>>, <<>>) = q
      <4>1. <<a>> \o <<>> = <<a>>
        <5> DEFINE S == Seq(Nat)
        <5>1. a \in S
          BY <1>1
        <5> HIDE DEF S
        <5>2. QED BY <5>1
      <4>2. QED BY <4>1 DEF q, Joined
    <3>3. FlattenSeq(<<>>) = <<>>
      BY DEF FlattenSeq
    <3>4. Joined(a, <<>>) = a
      BY <1>1, JoinedFacts
    <3>5. QED BY <3>1, <3>2, <3>3, <3>4
  <2>4. \A i \in 1 .. Len(q) : Len(q[i]) <= SplitTarget
    BY <1>2, <1>3
  <2>5. QED BY <1>1, <1>3, <2>2, <2>3, <2>4 DEF HoldLetters
<1>7. QED BY <1>5, <1>6

\* A piece that is cut off, in front of those of what is left of a text.
LEMMA LongHolds ==
    ASSUME NEW u \in Seq(Nat), Len(u) <= SplitTarget, NEW v \in Seq(Nat), NEW p, HoldLetters(p, v)
    PROVE  HoldLetters(<<Stripped(u)>> \o p, Joined(u, v))
<1> DEFINE a == Stripped(u)
           q == Joined(<<a>>, p)
           n == Len(p)
           N == Newline
<1>1. /\ a \in Seq(Nat) /\ Len(a) \in Nat /\ Len(a) <= SplitTarget
      /\ Without(a, N) = Without(u, N)
  <2>1. /\ a \in Seq(Nat) /\ Len(a) \in Nat /\ Len(a) <= Len(u)
        /\ Without(a, N) = Without(u, N)
    BY StrippedIs
  <2>2. Len(u) \in Nat /\ SplitTarget \in Nat
    BY SplitAssumption
  <2> HIDE DEF a
  <2>3. QED BY <2>1, <2>2
<1>2. /\ p \in Seq(Seq(Nat)) /\ \A i \in 1 .. n : Len(p[i]) <= SplitTarget
      /\ Without(FlattenSeq(p), N) = Without(v, N)
  BY DEF HoldLetters
<1> HIDE DEF a
<1>3. /\ q \in Seq(Seq(Nat)) /\ n \in Nat /\ Len(q) = n + 1 /\ q[1] = a
      /\ \A i \in 1 .. n : q[i + 1] = p[i]
  <2> DEFINE S == Seq(Nat)
  <2>1. a \in S /\ p \in Seq(S)
    BY <1>1, <1>2
  <2> HIDE DEF S
  <2>2. /\ q \in Seq(S) /\ n \in Nat /\ Len(q) = n + 1 /\ q[1] = a
        /\ \A i \in 1 .. n : q[i + 1] = p[i]
    BY <2>1 DEF Joined
  <2>3. QED BY <2>2 DEF S
<1>4. \A i \in 1 .. Len(q) : Len(q[i]) <= SplitTarget
  <2> SUFFICES ASSUME NEW i \in 1 .. n + 1 PROVE Len(q[i]) <= SplitTarget
    BY <1>3
  <2>1. CASE i = 1
    BY <1>1, <1>3, <2>1
  <2>2. CASE i # 1
    <3> DEFINE j == i - 1
    <3>1. j \in 1 .. n /\ j + 1 = i
      BY <1>3, <2>2
    <3> HIDE DEF j
    <3>2. q[i] = p[j]
      BY <1>3, <3>1
    <3>3. QED BY <1>2, <3>1, <3>2
  <2>3. QED BY <2>1, <2>2
<1>5. Without(FlattenSeq(q), N) = Without(Joined(u, v), N)
  <2> DEFINE f == FlattenSeq(p)
  <2>1. f \in Seq(Nat) /\ FlattenSeq(q) = Joined(a, f)
    BY <1>1, <1>2, FlattenPut
  <2>2. Without(f, N) = Without(v, N)
    BY <1>2
  <2> HIDE DEF f
  <2>3. Without(Joined(a, f), N) = Joined(Without(a, N), Without(f, N))
    BY <1>1, <2>1, WithoutJoined
  <2>4. Without(Joined(u, v), N) = Joined(Without(u, N), Without(v, N))
    BY WithoutJoined
  <2>5. QED BY <1>1, <2>1, <2>2, <2>3, <2>4
<1>6. HoldLetters(q, Joined(u, v))
  BY <1>3, <1>4, <1>5 DEF HoldLetters
<1>7. QED BY <1>6 DEF a, q, Joined

\* The chunks of a text hold its letters.
LEMMA ChunksHold ==
    ASSUME NEW text \in Seq(Nat)
    PROVE  HoldLetters(SourceChunks(text), text)
<1> DEFINE l == Len(text)
           T == SplitTarget
           Back(i) == Left(Behind(text, i))
           One(i) == <<Stripped(CutPiece(text, i))>>
           Short(i) == Without(<<Stripped(Behind(text, i))>>, <<>>)
           h == CHOOSE g : IsPieces(g, text, l)
<1>1. l \in Nat /\ T \in Nat \ {0}
  BY SplitAssumption
<1>2. CASE l <= T
  <2>1. SourceChunks(text) = <<text>>
    BY <1>2 DEF SourceChunks
  <2> DEFINE S == Seq(Nat)
             p == <<text>>
  <2>2. /\ p \in Seq(Seq(Nat)) /\ Len(p) = 1 /\ p[1] = text
        /\ Joined(<<text>>, <<>>) = p
    <3>1. text \in S
      OBVIOUS
    <3> HIDE DEF S
    <3>2. p \in Seq(S) /\ Len(p) = 1 /\ p[1] = text
      BY <3>1
    <3>3. <<text>> \o <<>> = <<text>>
      BY <3>1
    <3>4. QED BY <3>2, <3>3 DEF S, Joined
  <2>3. FlattenSeq(p) = text
    <3>1. /\ FlattenSeq(<<>>) \in Seq(Nat)
          /\ FlattenSeq(Joined(<<text>>, <<>>)) = Joined(text, FlattenSeq(<<>>))
      <4>1. <<>> \in Seq(Seq(Nat))
        OBVIOUS
      <4>2. QED BY <4>1, FlattenPut
    <3>2. FlattenSeq(<<>>) = <<>>
      BY DEF FlattenSeq
    <3>3. Joined(text, <<>>) = text
      BY JoinedFacts
    <3>4. QED BY <2>2, <3>1, <3>2, <3>3
  <2> HIDE DEF p
  <2>4. HoldLetters(p, text)
    BY <1>2, <2>2, <2>3 DEF HoldLetters
  <2>5. QED BY <2>1, <2>4 DEF p
<1>3. CASE ~ (l <= T)
  <2>1. SourceChunks(text) = h[l]
    BY <1>3 DEF SourceChunks, IsPieces, Behind, CutPiece
  <2>2. IsPieces(h, text, l)
    BY <1>1, PiecesExist
  <2>3. \A i \in 0 .. l : h[i] = IF i > T THEN One(i) \o h[Back(i)] ELSE Short(i)
    BY <2>2 DEF IsPieces
  <2>4. ASSUME NEW i \in 0 .. l PROVE Behind(text, i) \in Seq(Nat) /\ Len(Behind(text, i)) = i
    <3> DEFINE m == l - i
    <3>1. m \in 0 .. Len(text) /\ l - m = i
      BY <1>1
    <3> HIDE DEF m, l
    <3>2. Beyond(text, m) \in Seq(Nat) /\ Len(Beyond(text, m)) = Len(text) - m
      BY <3>1, SplitAt
    <3>3. QED BY <3>1, <3>2 DEF Beyond, Behind, m, l
  <2> HIDE DEF h, One, Short
  <2> DEFINE Good(i) == HoldLetters(h[i], Behind(text, i))
             Bad == {i \in 0 .. l : ~ Good(i)}
  <2>5. ASSUME NEW i \in 0 .. l, ~ (i > T) PROVE Good(i)
    <3> DEFINE s == Behind(text, i)
    <3>1. s \in Seq(Nat) /\ Len(s) <= T
      BY <1>1, <2>4, <2>5
    <3>2. h[i] = Without(<<Stripped(s)>>, <<>>)
      BY <2>3, <2>5 DEF Short
    <3> HIDE DEF s
    <3>3. HoldLetters(h[i], s)
      BY <3>1, <3>2, ShortHolds
    <3>4. QED BY <3>3 DEF s
  <2>6. ASSUME NEW i \in 0 .. l, i > T, Good(Back(i)) PROVE Good(i)
    <3> DEFINE u == CutPiece(text, i)
               v == Behind(text, Back(i))
               p == h[Back(i)]
    <3>1. /\ Back(i) \in 0 .. i - 1
          /\ u \in Seq(Nat) /\ Len(u) \in 1 .. T
          /\ Behind(text, i) = Joined(u, v)
      BY <2>6, CutOff
    <3>2. Len(u) <= T /\ v \in Seq(Nat)
      <4>1. Back(i) \in 0 .. l
        BY <1>1, <3>1
      <4> HIDE DEF Back
      <4>2. QED BY <1>1, <2>4, <3>1, <4>1
    <3>3. HoldLetters(p, v)
      BY <2>6
    <3>4. h[i] = <<Stripped(u)>> \o p
      BY <2>3, <2>6 DEF One
    <3> HIDE DEF u, v, p
    <3>5. HoldLetters(<<Stripped(u)>> \o p, Joined(u, v))
      BY <3>1, <3>2, <3>3, LongHolds
    <3>6. HoldLetters(h[i], Joined(u, v))
      BY <3>4, <3>5
    <3>7. QED BY <3>1, <3>6
  <2>7. \A i \in 0 .. l : i > T => Back(i) \in 0 .. i - 1
    BY CutOff
  <2> HIDE DEF Good, Back
  <2>8. Bad = {}
    <3> SUFFICES ASSUME Bad # {} PROVE FALSE
      OBVIOUS
    <3>1. Bad \subseteq Nat
      BY <1>1
    <3>2. PICK i \in Bad : \A j \in Bad : i <= j
      BY <3>1, Minimum
    <3>3. i \in 0 .. l /\ i > T /\ ~ Good(Back(i))
      BY <2>5, <2>6, <3>2
    <3>4. Back(i) \in 0 .. l /\ ~ (i <= Back(i))
      BY <1>1, <2>7, <3>3
    <3>5. QED BY <3>2, <3>3, <3>4
  <2>9. Good(l)
    <3>1. l \in 0 .. l
      BY <1>1
    <3>2. QED BY <2>8, <3>1
  <2>10. Behind(text, l) = text
    <3> DEFINE b == Behind(text, l)
               z == l - l
    <3>1. z = 0 /\ z \in 0 .. Len(text)
      BY <1>1
    <3> HIDE DEF z
    <3>2. /\ Beyond(text, z) \in Seq(Nat) /\ Len(Beyond(text, z)) = Len(text) - z
          /\ \A i \in 1 .. Len(text) - z : Beyond(text, z)[i] = text[z + i]
      BY <3>1, SplitAt
    <3>3. Beyond(text, z) = b
      BY DEF Beyond, Behind, z
    <3>4. b \in Seq(Nat) /\ Len(b) = l /\ \A i \in 1 .. l : b[i] = text[i]
      BY <1>1, <3>1, <3>2, <3>3
    <3> HIDE DEF b
    <3>5. b = text
      BY <3>4, SeqEqual
    <3>6. QED BY <3>5 DEF b
  <2>11. QED BY <2>1, <2>9, <2>10 DEF Good
<1>4. QED BY <1>2, <1>3

-----------------------------------------------------------------------------
(* The buttons of a question.                                              *)

\* The smallest of a set of one is that one.
LEMMA MinOfOne == \A i \in Int : Min({i}) = i
<1> SUFFICES ASSUME NEW i \in Int PROVE Min({i}) = i
  OBVIOUS
<1>1. \E x \in {i} : \A y \in {i} : x <= y
  OBVIOUS
<1>2. QED BY <1>1 DEF Min

\* No two buttons under a question have the same data, so a press finds its own.
LEMMA PressFinds ==
    ASSUME NEW options \in Seq(STRING), NEW custom, NEW i \in DOMAIN Keyboard(options, custom)
    PROVE  ButtonLabel(Keyboard(options, custom), Keyboard(options, custom)[i].data)
             = Keyboard(options, custom)[i].text
<1> DEFINE b == Keyboard(options, custom)
           n == Len(options)
<1>1. n \in Nat /\ DOMAIN options = 1 .. n
  OBVIOUS
<1>2. /\ DOMAIN b \subseteq 1 .. n + 1
      /\ \A j \in DOMAIN b : b[j].data = IF j = n + 1 THEN 0 ELSE j
  <2>1. CASE options = <<>>
    BY <2>1 DEF Keyboard
  <2>2. CASE options # <<>>
    <3> DEFINE T == [data : Nat, text : STRING \cup {"custom"}]
               f == [j \in DOMAIN options |-> [data |-> j, text |-> options[j]]]
               c == [data |-> 0, text |-> "custom"]
               g == IF custom = "yes" THEN <<c>> ELSE <<>>
    <3>1. b = f \o g
      BY <2>2 DEF Keyboard
    <3>2. f \in Seq(T) /\ Len(f) = n /\ \A j \in 1 .. n : f[j].data = j
      <4>1. f \in [1 .. n -> T]
        BY <1>1
      <4>2. DOMAIN f = 1 .. n
        BY <1>1
      <4>3. f \in Seq(T) /\ Len(f) = n
        BY <1>1, <4>1, <4>2
      <4>4. QED BY <1>1, <4>3
    <3>3. c \in T /\ c.data = 0
      OBVIOUS
    <3> HIDE DEF T, f, c
    <3>4. g \in Seq(T) /\ Len(g) \in 0 .. 1 /\ (Len(g) = 1 => g[1] = c)
      BY <3>3
    <3> HIDE DEF g
    <3> DEFINE u == f \o g
               d == Len(g)
    <3>5. /\ d \in 0 .. 1 /\ Len(u) = n + d /\ DOMAIN u = 1 .. n + d
          /\ \A j \in 1 .. n : u[j] = f[j]
          /\ \A j \in 1 .. d : u[n + j] = g[j]
      BY <1>1, <3>2, <3>4
    <3> HIDE DEF u
    <3>6. b = u
      BY <3>1 DEF u
    <3>7. DOMAIN b \subseteq 1 .. n + 1
      BY <1>1, <3>5, <3>6
    <3>8. ASSUME NEW j \in DOMAIN b PROVE b[j].data = IF j = n + 1 THEN 0 ELSE j
      <4>1. j \in 1 .. n + d
        BY <3>5, <3>6
      <4>2. CASE j = n + 1
        <5>1. d = 1
          BY <1>1, <3>5, <4>1, <4>2
        <5>2. u[n + 1] = c
          BY <3>4, <3>5, <5>1
        <5>3. b[j].data = 0
          BY <3>3, <3>6, <4>2, <5>2
        <5>4. QED BY <4>2, <5>3
      <4>3. CASE j # n + 1
        <5>1. j \in 1 .. n
          BY SMTT(60), <1>1, <3>5, <4>1, <4>3
        <5>2. b[j].data = j
          BY <3>2, <3>5, <3>6, <5>1
        <5>3. QED BY <4>3, <5>2
      <4>4. QED BY <4>2, <4>3
    <3>9. QED BY <3>7, <3>8
  <2>3. QED BY <2>1, <2>2
<1> HIDE DEF b
<1> DEFINE x == b[i].data
           with == {j \in DOMAIN b : b[j].data = x}
<1>3. i \in DOMAIN b /\ i \in Int
  BY <1>1, <1>2 DEF b
<1>4. with = {i}
  <2>1. ASSUME NEW j \in DOMAIN b, b[j].data = x PROVE j = i
    <3>1. /\ i \in 1 .. n + 1 /\ j \in 1 .. n + 1
          /\ (IF j = n + 1 THEN 0 ELSE j) = (IF i = n + 1 THEN 0 ELSE i)
      BY <1>2, <1>3, <2>1
    <3>2. QED BY <1>1, <3>1
  <2>2. QED BY <1>3, <2>1
<1>5. ButtonLabel(b, x) = IF with = {} THEN "" ELSE b[Min(with)].text
  BY DEF ButtonLabel
<1> HIDE DEF with
<1>6. ButtonLabel(b, x) = b[Min({i})].text
  BY <1>4, <1>5
<1>7. QED BY <1>3, <1>6, MinOfOne DEF b

\* The chunks of an answer hold all of its letters and none is too long for Telegram;
\* a button that is pressed gives its own text (Replies.SourceChunks, Replies.Keyboard).
THEOREM NothingIsLost == Spec => []NothingLost
<1>1. ASSUME Asked, Answered("chunks")
      PROVE  /\ Without(FlattenSeq(answer.chunks), Newline) = Without(input.text, Newline)
             /\ \A i \in DOMAIN answer.chunks : Len(answer.chunks[i]) <= SplitTarget
  <2>1. input \in Inputs["chunks"] /\ answer = Answer("chunks", input, ClampLimit(limit))
    BY <1>1, AnswerIs
  <2>2. input.text \in Seq(Nat)
    BY <2>1, TurnAssumption DEF Inputs
  <2>3. answer.chunks = SourceChunks(input.text)
    BY <2>1 DEF Answer, TurnStep
  <2> DEFINE c == answer.chunks
  <2>4. HoldLetters(c, input.text)
    BY <2>2, <2>3, ChunksHold
  <2>5. /\ c \in Seq(Seq(Nat))
        /\ \A i \in 1 .. Len(c) : Len(c[i]) <= SplitTarget
        /\ Without(FlattenSeq(c), Newline) = Without(input.text, Newline)
    BY <2>4 DEF HoldLetters
  <2> HIDE DEF c
  <2>6. DOMAIN c = 1 .. Len(c)
    BY <2>5
  <2>7. QED BY <2>5, <2>6 DEF c
<1>2. ASSUME Asked, Answered("clarify"), NEW i \in DOMAIN answer.buttons
      PROVE  ButtonLabel(answer.buttons, answer.buttons[i].data) = answer.buttons[i].text
  <2>1. input \in Inputs["clarify"] /\ answer = Answer("clarify", input, ClampLimit(limit))
    BY <1>2, AnswerIs
  <2> DEFINE given == Without(input.options, "")
             o == Options(input.options)
  <2>2. input.options \in Seq(STRING)
    BY <2>1, TurnAssumption DEF Inputs
  <2>3. answer.buttons = Keyboard(o, input.custom)
    BY <2>1 DEF Answer, TurnStep
  <2>4. o \in Seq(STRING)
    <3>1. given \in Seq(STRING)
      BY <2>2, WithoutType
    <3>2. o = IF Len(given) < 2 THEN <<>> ELSE given
      BY DEF Options
    <3>3. <<>> \in Seq(STRING)
      OBVIOUS
    <3> HIDE DEF given, o
    <3>4. QED BY <3>1, <3>2, <3>3
  <2> HIDE DEF o
  <2>5. i \in DOMAIN Keyboard(o, input.custom)
    BY <2>3
  <2>6. QED BY <2>3, <2>4, <2>5, PressFinds
<1>3. Asked => NothingLost
  BY <1>1, <1>2 DEF NothingLost
<1>4. QED BY <1>3, Invariance, PTL
=============================================================================
