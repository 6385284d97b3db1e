----------------------------- MODULE SumLemmas -----------------------------
(***************************************************************************)
(* Facts about sums over finite sets, as SumFunctionOnSet of Functions has *)
(* them.  The library's induction theorems have an operator as parameter;  *)
(* NatSets and SetInduction speak of sets instead.                         *)
(***************************************************************************)
EXTENDS Integers, FiniteSets, Functions, FiniteSetTheorems, WellFoundedInduction, TLAPS

LEMMA NatSets ==
    ASSUME NEW T, T \subseteq Nat, 0 \in T, \A n \in T : n + 1 \in T
    PROVE  T = Nat
  <1>. SUFFICES ASSUME Nat \ T # {}  PROVE FALSE
    OBVIOUS
  <1>1. PICK x \in Nat \ T : \A y \in Nat \ T : ~(<<y, x>> \in OpToRel(<, Nat))
    <2>1. Nat \ T \subseteq Nat
      OBVIOUS
    <2>. QED  BY <2>1, NatLessThanWellFounded, WFMin
  <1>2. \A y \in Nat \ T : ~(y < x)
    BY <1>1 DEF OpToRel
  <1>3. x # 0
    OBVIOUS
  <1>4. x - 1 \in Nat /\ x - 1 < x
    BY <1>3
  <1>5. x - 1 \in T
    BY <1>2, <1>4
  <1>. QED  BY <1>4, <1>5

(* Induction over the subsets of a finite set.                              *)
LEMMA SubsetInduction ==
    ASSUME NEW S, IsFiniteSet(S), NEW F \in SUBSET SUBSET S,
           \A A \in SUBSET S : (\A B \in SUBSET A : B # A => B \in F) => A \in F
    PROVE  F = SUBSET S
  <1>. DEFINE T == {n \in Nat : \A A \in SUBSET S : Cardinality(A) <= n => A \in F}
  <1>0. \A A \in SUBSET S : IsFiniteSet(A) /\ Cardinality(A) \in Nat
    BY FS_Subset, FS_CardinalityType
  <1>1. 0 \in T
    <2>. SUFFICES ASSUME NEW A \in SUBSET S, Cardinality(A) <= 0  PROVE A \in F
      OBVIOUS
    <2>1. Cardinality(A) = 0 /\ IsFiniteSet(A)
      BY <1>0
    <2>2. A = {}
      BY <2>1, FS_EmptySet
    <2>3. \A B \in SUBSET A : B # A => B \in F
      BY <2>2
    <2>. QED  BY <2>3
  <1>2. ASSUME NEW n \in T  PROVE n + 1 \in T
    <2>1. n \in Nat /\ \A A \in SUBSET S : Cardinality(A) <= n => A \in F
      OBVIOUS
    <2>2. ASSUME NEW A \in SUBSET S, Cardinality(A) <= n + 1  PROVE A \in F
      <3>1. ASSUME NEW B \in SUBSET A, B # A  PROVE B \in F
        <4>1. B \in SUBSET S /\ IsFiniteSet(A)
          BY <1>0
        <4>2. Cardinality(B) <= Cardinality(A) /\ Cardinality(B) # Cardinality(A)
          BY <3>1, <4>1, FS_Subset
        <4>3. Cardinality(A) \in Nat /\ Cardinality(B) \in Nat
          BY <1>0, <4>1
        <4>4. Cardinality(B) <= n
          BY <2>1, <2>2, <4>2, <4>3
        <4>. QED  BY <2>1, <4>1, <4>4
      <3>. QED  BY <3>1
    <2>. QED  BY <2>1, <2>2
  <1>3. T = Nat
    <2>. HIDE DEF T
    <2>1. T \subseteq Nat
      BY DEF T
    <2>. QED  BY <1>1, <1>2, <2>1, NatSets
  <1>4. ASSUME NEW A \in SUBSET S  PROVE A \in F
    <2>1. Cardinality(A) \in T
      BY <1>0, <1>3
    <2>. QED  BY <1>0, <2>1
  <1>. QED  BY <1>4

-----------------------------------------------------------------------------
Pick(s) == CHOOSE x \in s : TRUE

(* iter sums f over the subsets of S.                                       *)
Sums(f, S, iter) ==
    iter = [s \in SUBSET S |-> IF s = {} THEN 0
                               ELSE f[Pick(s)] + iter[s \ {Pick(s)}]]

LEMMA PickIn == ASSUME NEW s, s # {} PROVE Pick(s) \in s
  BY DEF Pick

LEMMA SumsExist ==
    ASSUME NEW S, IsFiniteSet(S), NEW f, \A x \in S : f[x] \in Int
    PROVE  \E iter \in [SUBSET S -> Int] : Sums(f, S, iter)
  <1>. DEFINE Upto(n, g) == \A s \in SUBSET S : Cardinality(s) <= n =>
                  g[s] = IF s = {} THEN 0 ELSE f[Pick(s)] + g[s \ {Pick(s)}]
              T == {n \in Nat : \E g \in [SUBSET S -> Int] : Upto(n, g)}
  <1>0. \A s \in SUBSET S : IsFiniteSet(s) /\ Cardinality(s) \in Nat
    BY FS_Subset, FS_CardinalityType
  <1>1. 0 \in T
    <2>. DEFINE g == [s \in SUBSET S |-> 0]
    <2>1. g \in [SUBSET S -> Int]
      OBVIOUS
    <2>2. ASSUME NEW s \in SUBSET S, Cardinality(s) <= 0  PROVE s = {}
      BY <1>0, <2>2, FS_EmptySet
    <2>3. Upto(0, g)
      BY <2>2
    <2>. QED  BY <2>1, <2>3
  <1>2. ASSUME NEW n \in T  PROVE n + 1 \in T
    <2>0. n \in Nat /\ \E g \in [SUBSET S -> Int] : Upto(n, g)
      OBVIOUS
    <2>. HIDE DEF T
    <2>1. PICK g \in [SUBSET S -> Int] : Upto(n, g)
      BY <2>0
    <2>. DEFINE h == [s \in SUBSET S |->
                        IF Cardinality(s) <= n THEN g[s]
                        ELSE IF s = {} THEN 0 ELSE f[Pick(s)] + g[s \ {Pick(s)}]]
    <2>2. \A s \in SUBSET S : s # {} => /\ Pick(s) \in S /\ f[Pick(s)] \in Int
                                        /\ s \ {Pick(s)} \in SUBSET S
      BY PickIn
    <2>3. h \in [SUBSET S -> Int]
      BY <2>2
    <2>4. ASSUME NEW s \in SUBSET S, Cardinality(s) <= n + 1, s # {}
          PROVE  Cardinality(s \ {Pick(s)}) <= n
      <3>. DEFINE x == Pick(s)
      <3>1. x \in s /\ IsFiniteSet(s) /\ Cardinality(s) \in Nat
        BY <1>0, <2>4, PickIn
      <3>. HIDE DEF x
      <3>2. Cardinality(s \ {x}) = Cardinality(s) - 1
        BY <3>1, FS_RemoveElement
      <3>3. Cardinality(s \ {x}) <= n
        BY <2>0, <2>4, <3>1, <3>2
      <3>. QED  BY <3>3 DEF x
    <2>5. ASSUME NEW s \in SUBSET S, Cardinality(s) <= n + 1
          PROVE  h[s] = IF s = {} THEN 0 ELSE f[Pick(s)] + h[s \ {Pick(s)}]
      <3>1. CASE s = {}
        <4>1. Cardinality(s) <= n
          BY <2>0, <3>1, FS_EmptySet
        <4>. QED  BY <2>1, <3>1, <4>1
      <3>2. CASE s # {}
        <4>1. h[s \ {Pick(s)}] = g[s \ {Pick(s)}]
          BY <2>2, <2>4, <2>5, <3>2
        <4>2. h[s] = f[Pick(s)] + g[s \ {Pick(s)}]
          <5>1. h[s] = IF Cardinality(s) <= n THEN g[s]
                       ELSE f[Pick(s)] + g[s \ {Pick(s)}]
            BY <3>2
          <5>. HIDE DEF h
          <5>2. Cardinality(s) <= n => g[s] = f[Pick(s)] + g[s \ {Pick(s)}]
            BY <2>1, <3>2
          <5>. QED  BY <5>1, <5>2
        <4>. HIDE DEF h
        <4>. QED  BY <3>2, <4>1, <4>2
      <3>. QED  BY <3>1, <3>2
    <2>6. Upto(n + 1, h)
      BY <2>5
    <2>7. \E k \in [SUBSET S -> Int] : Upto(n + 1, k)
      <3>. HIDE DEF h, Upto
      <3>. QED  BY <2>3, <2>6
    <2>8. n + 1 \in Nat
      BY <2>0
    <2>. HIDE DEF Upto
    <2>. QED  BY <2>7, <2>8 DEF T
  <1>3. T = Nat
    <2>. HIDE DEF T
    <2>1. T \subseteq Nat
      BY DEF T
    <2>. QED  BY <1>1, <1>2, <2>1, NatSets
  <1>4. PICK g \in [SUBSET S -> Int] : Upto(Cardinality(S), g)
    BY <1>3, FS_CardinalityType
  <1>5. \A s \in SUBSET S : Cardinality(s) <= Cardinality(S)
    BY FS_Subset
  <1>6. \A s \in SUBSET S : g[s] = IF s = {} THEN 0 ELSE f[Pick(s)] + g[s \ {Pick(s)}]
    BY <1>4, <1>5
  <1>7. Sums(f, S, g)
    BY <1>4, <1>6 DEF Sums
  <1>. QED  BY <1>7

LEMMA SumsUnique ==
    ASSUME NEW S, IsFiniteSet(S), NEW R \in SUBSET S, NEW f, NEW g, NEW h,
           Sums(f, S, g), Sums(f, R, h)
    PROVE  \A A \in SUBSET R : g[A] = h[A]
  <1>. DEFINE F == {A \in SUBSET R : g[A] = h[A]}
  <1>1. IsFiniteSet(R)
    BY FS_Subset
  <1>2. ASSUME NEW A \in SUBSET R, \A B \in SUBSET A : B # A => B \in F
        PROVE  A \in F
    <2>1. CASE A = {}
      BY <2>1 DEF Sums
    <2>2. CASE A # {}
      <3>1. Pick(A) \in A
        BY <2>2, PickIn
      <3>2. A \ {Pick(A)} \in F
        BY <1>2, <3>1
      <3>3. g[A] = f[Pick(A)] + g[A \ {Pick(A)}] /\ h[A] = f[Pick(A)] + h[A \ {Pick(A)}]
        BY <2>2 DEF Sums
      <3>. QED  BY <3>2, <3>3
    <2>. QED  BY <2>1, <2>2
  <1>3. F = SUBSET R
    <2>1. F \in SUBSET SUBSET R
      OBVIOUS
    <2>. HIDE DEF F
    <2>. QED  BY <1>1, <1>2, <2>1, SubsetInduction
  <1>. QED  BY <1>3

LEMMA SumIsIter ==
    ASSUME NEW S, IsFiniteSet(S), NEW f, \A x \in S : f[x] \in Int
    PROVE  \E iter : Sums(f, S, iter) /\ SumFunctionOnSet(f, S) = iter[S]
  <1>. DEFINE iter == CHOOSE g : Sums(f, S, g)
  <1>1. Sums(f, S, iter)
    BY SumsExist
  <1>2. SumFunctionOnSet(f, S) = iter[S]
    BY DEF SumFunctionOnSet, FoldFunctionOnSet, MapThenFoldSet, Sums, Pick
  <1>. QED  BY <1>1, <1>2

(* The recursion that sums have.                                            *)
LEMMA SumPick ==
    ASSUME NEW S, IsFiniteSet(S), NEW f, \A x \in S : f[x] \in Int
    PROVE  /\ SumFunctionOnSet(f, S) \in Int
           /\ S = {} => SumFunctionOnSet(f, S) = 0
           /\ S # {} => SumFunctionOnSet(f, S)
                          = f[Pick(S)] + SumFunctionOnSet(f, S \ {Pick(S)})
  <1>1. PICK g : Sums(f, S, g) /\ SumFunctionOnSet(f, S) = g[S]
    BY SumIsIter
  <1>2. PICK k \in [SUBSET S -> Int] : Sums(f, S, k)
    BY SumsExist
  <1>3. g[S] = k[S]
    BY <1>1, <1>2, SumsUnique
  <1>4. S = {} => g[S] = 0
    BY <1>1 DEF Sums
  <1>5. ASSUME S # {}
        PROVE  SumFunctionOnSet(f, S) = f[Pick(S)] + SumFunctionOnSet(f, S \ {Pick(S)})
    <2>. DEFINE R == S \ {Pick(S)}
    <2>1. R \in SUBSET S /\ IsFiniteSet(R)
      BY FS_Subset
    <2>2. PICK h : Sums(f, R, h) /\ SumFunctionOnSet(f, R) = h[R]
      BY <2>1, SumIsIter
    <2>3. g[R] = h[R]
      BY <1>1, <2>1, <2>2, SumsUnique
    <2>4. g[S] = f[Pick(S)] + g[R]
      BY <1>1, <1>5 DEF Sums
    <2>. QED  BY <1>1, <2>2, <2>3, <2>4
  <1>. QED  BY <1>1, <1>2, <1>3, <1>4, <1>5

-----------------------------------------------------------------------------
(* Sums in any order.                                                       *)

LEMMA SumEmpty == ASSUME NEW f PROVE SumFunctionOnSet(f, {}) = 0
  BY SumPick, FS_EmptySet

LEMMA SumInt ==
    ASSUME NEW S, IsFiniteSet(S), NEW f, \A x \in S : f[x] \in Int
    PROVE  \A A \in SUBSET S : SumFunctionOnSet(f, A) \in Int
  <1>. SUFFICES ASSUME NEW A \in SUBSET S  PROVE SumFunctionOnSet(f, A) \in Int
    OBVIOUS
  <1>1. IsFiniteSet(A)
    BY FS_Subset
  <1>. QED  BY <1>1, SumPick

(* Any member may be taken out first.                                       *)
LEMMA SumRemove ==
    ASSUME NEW S, IsFiniteSet(S), NEW f, \A x \in S : f[x] \in Int, NEW x \in S
    PROVE  SumFunctionOnSet(f, S) = f[x] + SumFunctionOnSet(f, S \ {x})
  <1>. DEFINE sum(A) == SumFunctionOnSet(f, A)
              F == {A \in SUBSET S : \A y \in A : sum(A) = f[y] + sum(A \ {y})}
  <1>1. ASSUME NEW A \in SUBSET S, \A B \in SUBSET A : B # A => B \in F
        PROVE  A \in F
    <2>. SUFFICES ASSUME NEW y \in A  PROVE sum(A) = f[y] + sum(A \ {y})
      OBVIOUS
    <2>. DEFINE p == Pick(A)
    <2>1. p \in A
      BY PickIn
    <2>2. IsFiniteSet(A)
      BY FS_Subset
    <2>3. sum(A) = f[p] + sum(A \ {p})
      BY <2>2, SumPick
    <2>4. CASE p = y
      BY <2>3, <2>4
    <2>5. CASE p # y
      <3>. HIDE DEF p, sum
      <3>1. A \ {p} \in F /\ A \ {y} \in F
        BY <1>1, <2>1
      <3>2. sum(A \ {p}) = f[y] + sum((A \ {p}) \ {y})
        BY <2>5, <3>1
      <3>3. sum(A \ {y}) = f[p] + sum((A \ {y}) \ {p})
        BY <2>1, <2>5, <3>1
      <3>4. (A \ {p}) \ {y} = (A \ {y}) \ {p}
        OBVIOUS
      <3>5. f[p] \in Int /\ f[y] \in Int /\ sum((A \ {p}) \ {y}) \in Int
        BY <2>1, SumInt DEF sum
      <3>. DEFINE u == sum(A \ {p})
                  v == sum(A \ {y})
                  w == sum((A \ {p}) \ {y})
      <3>6. u = f[y] + w /\ v = f[p] + w /\ w \in Int /\ sum(A) = f[p] + u
        BY <2>3, <3>2, <3>3, <3>4, <3>5
      <3>. HIDE DEF u, v, w
      <3>7. sum(A) = f[y] + v
        BY <3>5, <3>6
      <3>. QED  BY <3>7 DEF v
    <2>. QED  BY <2>4, <2>5
  <1>2. F = SUBSET S
    <2>1. F \in SUBSET SUBSET S
      OBVIOUS
    <2>. HIDE DEF F
    <2>. QED  BY <1>1, <2>1, SubsetInduction
  <1>. QED  BY <1>2

(* Induction by taking members out.                                         *)
LEMMA SetInduction ==
    ASSUME NEW S, IsFiniteSet(S), NEW F \in SUBSET SUBSET S, {} \in F,
           \A A \in SUBSET S : \A x \in A : A \ {x} \in F => A \in F
    PROVE  S \in F
  <1>1. ASSUME NEW A \in SUBSET S, \A B \in SUBSET A : B # A => B \in F
        PROVE  A \in F
    <2>1. CASE A = {}
      BY <2>1
    <2>2. CASE A # {}
      <3>1. PICK x \in A : TRUE
        BY <2>2
      <3>2. A \ {x} \in SUBSET A /\ A \ {x} # A
        BY <3>1
      <3>. QED  BY <1>1, <3>1, <3>2
    <2>. QED  BY <2>1, <2>2
  <1>2. F = SUBSET S
    BY <1>1, SubsetInduction
  <1>. QED  BY <1>2

(* Sums of members that are not larger are not larger; equal ones, equal.   *)
LEMMA SumMono ==
    ASSUME NEW S, IsFiniteSet(S), NEW f, NEW g,
           \A x \in S : f[x] \in Int /\ g[x] \in Int /\ f[x] <= g[x]
    PROVE  SumFunctionOnSet(f, S) <= SumFunctionOnSet(g, S)
  <1>. DEFINE F == {A \in SUBSET S : SumFunctionOnSet(f, A) <= SumFunctionOnSet(g, A)}
  <1>1. {} \in F
    BY SumEmpty
  <1>2. ASSUME NEW A \in SUBSET S, NEW x \in A, A \ {x} \in F  PROVE A \in F
    <2>1. IsFiniteSet(A)
      BY FS_Subset
    <2>2. /\ SumFunctionOnSet(f, A) = f[x] + SumFunctionOnSet(f, A \ {x})
          /\ SumFunctionOnSet(g, A) = g[x] + SumFunctionOnSet(g, A \ {x})
      BY <2>1, SumRemove
    <2>. DEFINE a == SumFunctionOnSet(f, A \ {x})
                b == SumFunctionOnSet(g, A \ {x})
    <2>3. a \in Int /\ b \in Int /\ a <= b /\ f[x] \in Int /\ g[x] \in Int /\ f[x] <= g[x]
      BY <1>2, SumInt
    <2>. HIDE DEF a, b
    <2>4. f[x] + a <= g[x] + b
      BY <2>3
    <2>5. SumFunctionOnSet(f, A) <= SumFunctionOnSet(g, A)
      BY <2>2, <2>4 DEF a, b
    <2>. QED  BY <2>5
  <1>3. S \in F
    <2>1. F \in SUBSET SUBSET S
      OBVIOUS
    <2>. HIDE DEF F
    <2>. QED  BY <1>1, <1>2, <2>1, SetInduction
  <1>. QED  BY <1>3

LEMMA SumSame ==
    ASSUME NEW S, IsFiniteSet(S), NEW f, NEW g,
           \A x \in S : f[x] \in Int /\ g[x] = f[x]
    PROVE  SumFunctionOnSet(f, S) = SumFunctionOnSet(g, S)
  <1>1. /\ SumFunctionOnSet(f, S) <= SumFunctionOnSet(g, S)
        /\ SumFunctionOnSet(g, S) <= SumFunctionOnSet(f, S)
    BY SumMono
  <1>2. SumFunctionOnSet(f, S) \in Int /\ SumFunctionOnSet(g, S) \in Int
    BY SumInt
  <1>. QED  BY <1>1, <1>2

LEMMA SumZero ==
    ASSUME NEW S, IsFiniteSet(S), NEW f, \A x \in S : f[x] = 0
    PROVE  SumFunctionOnSet(f, S) = 0
  <1>. DEFINE F == {A \in SUBSET S : SumFunctionOnSet(f, A) = 0}
  <1>1. {} \in F
    BY SumEmpty
  <1>2. ASSUME NEW A \in SUBSET S, NEW x \in A, A \ {x} \in F  PROVE A \in F
    <2>1. IsFiniteSet(A)
      BY FS_Subset
    <2>2. SumFunctionOnSet(f, A) = f[x] + SumFunctionOnSet(f, A \ {x})
      BY <2>1, SumRemove
    <2>. QED  BY <1>2, <2>2
  <1>3. S \in F
    <2>1. F \in SUBSET SUBSET S
      OBVIOUS
    <2>. HIDE DEF F
    <2>. QED  BY <1>1, <1>2, <2>1, SetInduction
  <1>. QED  BY <1>3

LEMMA SumNat ==
    ASSUME NEW S, IsFiniteSet(S), NEW f, \A x \in S : f[x] \in Nat
    PROVE  SumFunctionOnSet(f, S) \in Nat
  <1>. DEFINE zero == [x \in S |-> 0]
  <1>1. SumFunctionOnSet(zero, S) = 0
    BY SumZero
  <1>2. SumFunctionOnSet(zero, S) <= SumFunctionOnSet(f, S)
    BY SumMono
  <1>3. SumFunctionOnSet(f, S) \in Int
    BY SumInt
  <1>. QED  BY <1>1, <1>2, <1>3

(* One member changes.                                                      *)
LEMMA SumChange ==
    ASSUME NEW S, IsFiniteSet(S), NEW f, NEW g, NEW x \in S,
           \A y \in S : f[y] \in Int /\ g[y] \in Int,
           \A y \in S \ {x} : g[y] = f[y]
    PROVE  SumFunctionOnSet(g, S) = SumFunctionOnSet(f, S) + g[x] - f[x]
  <1>1. IsFiniteSet(S \ {x})
    BY FS_Subset
  <1>2. SumFunctionOnSet(g, S \ {x}) = SumFunctionOnSet(f, S \ {x})
    BY <1>1, SumSame
  <1>3. /\ SumFunctionOnSet(f, S) = f[x] + SumFunctionOnSet(f, S \ {x})
        /\ SumFunctionOnSet(g, S) = g[x] + SumFunctionOnSet(g, S \ {x})
    BY SumRemove
  <1>4. SumFunctionOnSet(f, S \ {x}) \in Int
    BY SumInt
  <1>. QED  BY <1>2, <1>3, <1>4

(* Two members change.                                                      *)
LEMMA SumChangeTwo ==
    ASSUME NEW S, IsFiniteSet(S), NEW f, NEW g, NEW x \in S, NEW y \in S, x # y,
           \A z \in S : f[z] \in Int /\ g[z] \in Int,
           \A z \in S \ {x, y} : g[z] = f[z]
    PROVE  SumFunctionOnSet(g, S) = SumFunctionOnSet(f, S) + g[x] - f[x] + g[y] - f[y]
  <1>1. PICK h : \A z \in S : h[z] = IF z = x THEN g[x] ELSE f[z]
    <2>1. \A z \in S : [v \in S |-> IF v = x THEN g[x] ELSE f[v]][z]
                         = IF z = x THEN g[x] ELSE f[z]
      OBVIOUS
    <2>. QED  BY <2>1
  <1>2. /\ h[x] = g[x] /\ h[y] = f[y]
        /\ \A z \in S : f[z] \in Int /\ h[z] \in Int
        /\ \A z \in S : h[z] \in Int /\ g[z] \in Int
        /\ \A z \in S \ {x} : h[z] = f[z]
        /\ \A z \in S \ {y} : g[z] = h[z]
    BY <1>1
  <1>4. SumFunctionOnSet(h, S) = SumFunctionOnSet(f, S) + h[x] - f[x]
    BY <1>2, SumChange
  <1>5. SumFunctionOnSet(g, S) = SumFunctionOnSet(h, S) + g[y] - h[y]
    BY <1>2, SumChange
  <1>6. SumFunctionOnSet(f, S) \in Int /\ SumFunctionOnSet(h, S) \in Int
    BY <1>2, SumInt
  <1>. QED  BY <1>2, <1>4, <1>5, <1>6

(* A sum over some members is one over all in which the others count 0.     *)
LEMMA SumFiltered ==
    ASSUME NEW S, IsFiniteSet(S), NEW R \in SUBSET S, NEW f, NEW g,
           \A x \in S : f[x] \in Int /\ g[x] = (IF x \in R THEN f[x] ELSE 0)
    PROVE  SumFunctionOnSet(f, R) = SumFunctionOnSet(g, S)
  <1>. DEFINE F == {A \in SUBSET S :
                        SumFunctionOnSet(f, A \cap R) = SumFunctionOnSet(g, A)}
  <1>1. {} \in F
    <2>1. {} \cap R = {}
      OBVIOUS
    <2>. QED  BY <2>1, SumEmpty
  <1>2. ASSUME NEW A \in SUBSET S, NEW x \in A, A \ {x} \in F  PROVE A \in F
    <2>1. IsFiniteSet(A) /\ IsFiniteSet(A \cap R) /\ \A y \in S : g[y] \in Int
      BY FS_Subset
    <2>2. SumFunctionOnSet(g, A) = g[x] + SumFunctionOnSet(g, A \ {x})
      BY <2>1, SumRemove
    <2>3. SumFunctionOnSet(f, (A \ {x}) \cap R) = SumFunctionOnSet(g, A \ {x})
      BY <1>2
    <2>4. CASE x \in R
      <3>1. SumFunctionOnSet(f, A \cap R)
               = f[x] + SumFunctionOnSet(f, (A \cap R) \ {x})
        BY <2>1, <2>4, SumRemove
      <3>2. (A \cap R) \ {x} = (A \ {x}) \cap R
        OBVIOUS
      <3>. QED  BY <2>2, <2>3, <2>4, <3>1, <3>2
    <2>5. CASE x \notin R
      <3>1. A \cap R = (A \ {x}) \cap R
        BY <2>5
      <3>2. SumFunctionOnSet(g, A \ {x}) \in Int /\ g[x] = 0
        BY <2>1, <2>5, SumInt
      <3>3. SumFunctionOnSet(g, A) = SumFunctionOnSet(g, A \ {x})
        BY <2>2, <3>2
      <3>4. SumFunctionOnSet(f, A \cap R) = SumFunctionOnSet(g, A \ {x})
        BY <2>3, <3>1
      <3>5. SumFunctionOnSet(f, A \cap R) = SumFunctionOnSet(g, A)
        BY <3>3, <3>4
      <3>. QED  BY <3>5
    <2>. QED  BY <2>4, <2>5
  <1>3. S \in F
    <2>1. F \in SUBSET SUBSET S
      OBVIOUS
    <2>. HIDE DEF F
    <2>. QED  BY <1>1, <1>2, <2>1, SetInduction
  <1>4. S \cap R = R
    OBVIOUS
  <1>. QED  BY <1>3, <1>4

(* Members in proportion make sums in proportion.                           *)
LEMMA SumScaled ==
    ASSUME NEW S, IsFiniteSet(S), NEW f, NEW g, NEW d \in Nat, NEW e \in Nat,
           \A x \in S : f[x] \in Int /\ g[x] \in Int /\ g[x] * d <= f[x] * e
    PROVE  SumFunctionOnSet(g, S) * d <= SumFunctionOnSet(f, S) * e
  <1>. DEFINE F == {A \in SUBSET S :
                        SumFunctionOnSet(g, A) * d <= SumFunctionOnSet(f, A) * e}
  <1>1. {} \in F
    BY SumEmpty
  <1>2. ASSUME NEW A \in SUBSET S, NEW x \in A, A \ {x} \in F  PROVE A \in F
    <2>1. IsFiniteSet(A)
      BY FS_Subset
    <2>. DEFINE a == SumFunctionOnSet(f, A \ {x})
                b == SumFunctionOnSet(g, A \ {x})
    <2>2. /\ SumFunctionOnSet(f, A) = f[x] + a
          /\ SumFunctionOnSet(g, A) = g[x] + b
      BY <2>1, SumRemove
    <2>3. a \in Int /\ b \in Int /\ b * d <= a * e
      BY <1>2, SumInt
    <2>. HIDE DEF a, b
    <2>4. f[x] \in Int /\ g[x] \in Int /\ g[x] * d <= f[x] * e
      OBVIOUS
    <2>5. (f[x] + a) * e = f[x] * e + a * e /\ (g[x] + b) * d = g[x] * d + b * d
      BY <2>3, <2>4
    <2>6. g[x] * d + b * d <= f[x] * e + a * e
      <3>1. g[x] * d \in Int /\ b * d \in Int /\ f[x] * e \in Int /\ a * e \in Int
        BY <2>3, <2>4
      <3>. QED  BY <2>3, <2>4, <3>1
    <2>. QED  BY <2>2, <2>5, <2>6
  <1>3. S \in F
    <2>1. F \in SUBSET SUBSET S
      OBVIOUS
    <2>. HIDE DEF F
    <2>. QED  BY <1>1, <1>2, <2>1, SetInduction
  <1>. QED  BY <1>3

(* A member of a sum of naturals is not more than the sum.                  *)
LEMMA SumMember ==
    ASSUME NEW S, IsFiniteSet(S), NEW f, NEW x \in S, \A y \in S : f[y] \in Nat
    PROVE  f[x] <= SumFunctionOnSet(f, S)
  <1>1. IsFiniteSet(S \ {x})
    BY FS_Subset
  <1>2. SumFunctionOnSet(f, S \ {x}) \in Nat
    BY <1>1, SumNat
  <1>3. SumFunctionOnSet(f, S) = f[x] + SumFunctionOnSet(f, S \ {x})
    BY SumRemove
  <1>. QED  BY <1>2, <1>3

(* Sums add up term by term; a sum of ones counts.                          *)
LEMMA SumAdd ==
    ASSUME NEW S, IsFiniteSet(S), NEW f, NEW g, NEW h,
           \A x \in S : f[x] \in Int /\ g[x] \in Int /\ h[x] = f[x] + g[x]
    PROVE  SumFunctionOnSet(h, S) = SumFunctionOnSet(f, S) + SumFunctionOnSet(g, S)
  <1>. DEFINE F == {A \in SUBSET S :
              SumFunctionOnSet(h, A) = SumFunctionOnSet(f, A) + SumFunctionOnSet(g, A)}
  <1>1. {} \in F
    BY SumEmpty
  <1>2. ASSUME NEW A \in SUBSET S, NEW x \in A, A \ {x} \in F  PROVE A \in F
    <2>1. IsFiniteSet(A)
      BY FS_Subset
    <2>. DEFINE a == SumFunctionOnSet(f, A \ {x})
                b == SumFunctionOnSet(g, A \ {x})
                c == SumFunctionOnSet(h, A \ {x})
    <2>2. \A y \in A : f[y] \in Int /\ g[y] \in Int /\ h[y] \in Int
      OBVIOUS
    <2>3. /\ SumFunctionOnSet(f, A) = f[x] + a
          /\ SumFunctionOnSet(g, A) = g[x] + b
          /\ SumFunctionOnSet(h, A) = h[x] + c
      BY <2>1, <2>2, SumRemove
    <2>4. a \in Int /\ b \in Int /\ c = a + b
      BY <1>2, SumInt
    <2>. HIDE DEF a, b, c
    <2>5. f[x] \in Int /\ g[x] \in Int /\ h[x] = f[x] + g[x]
      OBVIOUS
    <2>6. h[x] + c = (f[x] + a) + (g[x] + b)
      BY <2>4, <2>5
    <2>. QED  BY <2>3, <2>6
  <1>3. S \in F
    <2>1. F \in SUBSET SUBSET S
      OBVIOUS
    <2>. HIDE DEF F
    <2>. QED  BY <1>1, <1>2, <2>1, SetInduction
  <1>. QED  BY <1>3

LEMMA SumOnes ==
    ASSUME NEW S, IsFiniteSet(S), NEW f, \A x \in S : f[x] = 1
    PROVE  SumFunctionOnSet(f, S) = Cardinality(S)
  <1>. DEFINE F == {A \in SUBSET S : SumFunctionOnSet(f, A) = Cardinality(A)}
  <1>1. {} \in F
    BY SumEmpty, FS_EmptySet
  <1>2. ASSUME NEW A \in SUBSET S, NEW x \in A, A \ {x} \in F  PROVE A \in F
    <2>1. IsFiniteSet(A)
      BY FS_Subset
    <2>2. SumFunctionOnSet(f, A) = 1 + SumFunctionOnSet(f, A \ {x})
      BY <2>1, SumRemove
    <2>3. Cardinality(A \ {x}) = Cardinality(A) - 1
      BY <2>1, FS_RemoveElement
    <2>4. Cardinality(A) \in Nat
      BY <2>1, FS_CardinalityType
    <2>. QED  BY <1>2, <2>2, <2>3, <2>4
  <1>3. S \in F
    <2>1. F \in SUBSET SUBSET S
      OBVIOUS
    <2>. HIDE DEF F
    <2>. QED  BY <1>1, <1>2, <2>1, SetInduction
  <1>. QED  BY <1>3
=============================================================================
