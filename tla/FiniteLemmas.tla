----------------------------- MODULE FiniteLemmas -----------------------------
(***************************************************************************)
(* What the proofs need of finite sets, sums and folds and the libraries   *)
(* do not say in a form the provers can instantiate.  Induction is stated  *)
(* over a set instead of a predicate.                                      *)
(***************************************************************************)
EXTENDS Integers, Functions, FiniteSetsExt, SequenceTheorems, FiniteSetTheorems, WellFoundedInduction, TLAPS

\* A set of list positions is finite and no larger than the list.
LEMMA Size ==
  ASSUME NEW n \in Nat, NEW S, S \subseteq 1 .. n
  PROVE  IsFiniteSet(S) /\ Cardinality(S) \in Nat /\ Cardinality(S) <= n
  <1>1. IsFiniteSet(1 .. n) /\ Cardinality(1 .. n) = n
    BY FS_Interval
  <1> QED  BY <1>1, FS_Subset, FS_CardinalityType

\* One more position counts one more.
LEMMA OneMore ==
  ASSUME NEW n \in Nat, NEW S, S \subseteq 1 .. n, NEW e, e \notin S
  PROVE  Cardinality(S \cup {e}) = Cardinality(S) + 1
  BY Size, FS_AddElement

\* A larger set of positions does not count fewer.
LEMMA NoFewer ==
  ASSUME NEW n \in Nat, NEW T, T \subseteq 1 .. n, NEW S, S \subseteq T
  PROVE  Cardinality(S) <= Cardinality(T)
  BY Size, FS_Subset

\* Every set of naturals with an element has a least one.
LEMMA Least ==
  ASSUME NEW T, T \subseteq Nat, T # {}
  PROVE  \E x \in T : \A y \in T : x <= y
  <1> DEFINE R == {p \in Nat \X Nat : p[1] < p[2]}
  <1>1. IsWellFoundedOn(R, Nat)
    BY NatLessThanWellFounded DEF OpToRel
  <1>2. \A x, y \in Nat : <<y, x>> \in R <=> y < x
    OBVIOUS
  <1> HIDE DEF R
  <1>3. \E x \in T : \A y \in T : ~ (<<y, x>> \in R)
    BY <1>1, WFMin
  <1>4. \A x, y \in T : ~ (<<y, x>> \in R) => x <= y
    BY <1>2
  <1> QED  BY <1>3, <1>4

\* Every set of bounded naturals with an element has a greatest one.
LEMMA Greatest ==
  ASSUME NEW n \in Nat, NEW S, S \subseteq 0 .. n, S # {}
  PROVE  \E x \in S : \A y \in S : x >= y
  <1> DEFINE Short(i) == n - i
             T == {Short(i) : i \in S}
  <1>1. \A i \in S : i \in Nat /\ i <= n /\ Short(i) \in Nat
    OBVIOUS
  <1>2. T \subseteq Nat /\ T # {}
    BY <1>1
  <1>3. \E a \in T : \A b \in T : a <= b
    <2> HIDE DEF T
    <2> QED  BY <1>2, Least
  <1>4. PICK i \in S : \A j \in S : Short(i) <= Short(j)
    BY <1>3
  <1> QED  BY <1>1, <1>4

\* Max picks a member of some positions, and none is beyond it.
LEMMA MaxIsMember ==
  ASSUME NEW n \in Nat, NEW S, S \subseteq 1 .. n, S # {}
  PROVE  Max(S) \in S /\ \A y \in S : Max(S) >= y
  <1>1. S \subseteq 0 .. n
    OBVIOUS
  <1>2. \E x \in S : \A y \in S : x >= y
    BY <1>1, Greatest
  <1> QED  BY <1>2 DEF Max

\* Min picks the least.
LEMMA MinIsMember ==
  ASSUME NEW S, S \subseteq Nat, S # {}
  PROVE  Min(S) \in S /\ \A y \in S : Min(S) <= y
  <1>1. \E x \in S : \A y \in S : x <= y
    BY Least
  <1> QED  BY <1>1 DEF Min

\* A list's positions up to some one, without it.
LEMMA Prefix ==
  ASSUME NEW k \in Nat
  PROVE  /\ 1 .. k + 1 # {} /\ Max(1 .. k + 1) = k + 1
         /\ (1 .. k + 1) \ {k + 1} = 1 .. k
  <1>1. 1 .. k + 1 # {} /\ k + 1 \in 1 .. k + 1
    OBVIOUS
  <1>2. Max(1 .. k + 1) \in 1 .. k + 1 /\ Max(1 .. k + 1) >= k + 1
    <2> DEFINE S == 1 .. k + 1
    <2>1. k + 1 \in Nat /\ S \subseteq 1 .. k + 1 /\ S # {} /\ k + 1 \in S
      BY <1>1
    <2>2. Max(S) \in S /\ Max(S) >= k + 1
      <3> HIDE DEF S
      <3> QED  BY <2>1, MaxIsMember
    <2> QED  BY <2>2
  <1> QED  BY <1>1, <1>2

\* Induction over the naturals.
LEMMA Counting ==
  ASSUME NEW P, 0 \in P, \A k \in Nat : k \in P => k + 1 \in P
  PROVE  Nat \subseteq P
  <1> DEFINE T == Nat \ P
  <1> SUFFICES ASSUME T # {} PROVE FALSE
    OBVIOUS
  <1>1. PICK k \in T : \A j \in T : k <= j
    <2>1. T \subseteq Nat
      OBVIOUS
    <2> HIDE DEF T
    <2> QED  BY <2>1, Least
  <1>2. k \in Nat /\ k # 0 /\ k - 1 \in Nat
    OBVIOUS
  <1>3. k - 1 \in P
    BY <1>1, <1>2
  <1> QED  BY <1>2, <1>3

\* Induction over the parts of a finite set.
LEMMA Parts ==
  ASSUME NEW D, IsFiniteSet(D), NEW P, {} \in P,
         \A s \in SUBSET D : s # {} /\ (\A x \in s : s \ {x} \in P) => s \in P
  PROVE  \A s \in SUBSET D : s \in P
  <1> DEFINE Bad == {s \in SUBSET D : s \notin P}
             T == {Cardinality(s) : s \in Bad}
  <1> SUFFICES ASSUME Bad # {} PROVE FALSE
    OBVIOUS
  <1>1. \A s \in SUBSET D : IsFiniteSet(s) /\ Cardinality(s) \in Nat
    BY FS_Subset, FS_CardinalityType
  <1>2. T \subseteq Nat /\ T # {}
    BY <1>1
  <1>3. \E a \in T : \A b \in T : a <= b
    <2> HIDE DEF T
    <2> QED  BY <1>2, Least
  <1>4. PICK s \in Bad : \A t \in Bad : Cardinality(s) <= Cardinality(t)
    BY <1>3
  <1>5. \A x \in s : s \ {x} \in P
    <2> TAKE x \in s
    <2>1. Cardinality(s \ {x}) = Cardinality(s) - 1
      BY <1>1, FS_RemoveElement
    <2>2. s \ {x} \in SUBSET D
      OBVIOUS
    <2> QED  BY <1>1, <1>4, <2>1, <2>2
  <1> QED  BY <1>4, <1>5

\* h folds the parts of D: c says which element of a part is taken first, F what
\* is made of the rest and of it.
IsFold(h, D, A, base, F, c) ==
    /\ h \in [SUBSET D -> A]
    /\ \A s \in SUBSET D :
          h[s] = IF s = {} THEN base ELSE F[<<h[s \ {c[s]}], c[s]>>]

\* Such a fold exists.
LEMMA Recursion ==
  ASSUME NEW D, IsFiniteSet(D), NEW A, NEW base \in A, NEW F \in [A \X D -> A],
         NEW c, \A s \in SUBSET D : s # {} => c[s] \in s
  PROVE  \E h : IsFold(h, D, A, base, F, c)
  <1> DEFINE Upto(k) == {s \in SUBSET D : Cardinality(s) <= k}
             Folds(k, h) ==
               /\ h \in [Upto(k) -> A]
               /\ \A s \in Upto(k) :
                    h[s] = IF s = {} THEN base ELSE F[<<h[s \ {c[s]}], c[s]>>]
             P == {k \in Nat : \E h : Folds(k, h)}
  <1>1. \A s \in SUBSET D : /\ IsFiniteSet(s) /\ Cardinality(s) \in Nat
                            /\ Cardinality(s) <= Cardinality(D)
                            /\ \A x \in s : Cardinality(s \ {x}) = Cardinality(s) - 1
    BY FS_Subset, FS_CardinalityType, FS_RemoveElement
  <1>2. 0 \in P
    <2> DEFINE h == [s \in Upto(0) |-> base]
    <2>1. \A s \in Upto(0) : s = {}
      BY <1>1, FS_EmptySet
    <2>2. Folds(0, h)
      BY <2>1
    <2> QED  BY <2>2
  <1>3. ASSUME NEW k \in Nat, k \in P PROVE k + 1 \in P
    <2>1. PICK h : Folds(k, h)
      BY <1>3
    <2> DEFINE g == [s \in Upto(k + 1) |-> IF s = {} THEN base ELSE F[<<h[s \ {c[s]}], c[s]>>]]
    <2>2. \A s \in Upto(k + 1) : s # {} => c[s] \in s /\ s \ {c[s]} \in Upto(k)
      BY <1>1
    <2>3. \A s \in Upto(k + 1) : s # {} => <<h[s \ {c[s]}], c[s]>> \in A \X D
      BY <2>1, <2>2
    <2>4. g \in [Upto(k + 1) -> A]
      BY <2>3
    <2>5. Upto(k) \subseteq Upto(k + 1)
      BY <1>1
    <2>6. \A s \in Upto(k) : g[s] = h[s]
      BY <2>1, <2>5
    <2>7. \A s \in Upto(k + 1) : g[s] = IF s = {} THEN base ELSE F[<<g[s \ {c[s]}], c[s]>>]
      BY <2>2, <2>6
    <2>8. Folds(k + 1, g)
      <3> HIDE DEF g, Upto
      <3> QED  BY <2>4, <2>7
    <2> HIDE DEF g, Folds
    <2> QED  BY <2>8
  <1>4. Cardinality(D) \in P
    <2>1. Nat \subseteq P
      <3> HIDE DEF P
      <3> QED  BY <1>2, <1>3, Counting
    <2> QED  BY <1>1, <2>1
  <1>5. PICK h : Folds(Cardinality(D), h)
    BY <1>4
  <1>6. Upto(Cardinality(D)) = SUBSET D
    BY <1>1
  <1>7. h \in [SUBSET D -> A]
    BY <1>5, <1>6
  <1>8. \A s \in SUBSET D : h[s] = IF s = {} THEN base ELSE F[<<h[s \ {c[s]}], c[s]>>]
    BY <1>5, <1>6, <1>7
  <1> QED  BY <1>7, <1>8 DEF IsFold

-----------------------------------------------------------------------------
(* Sums.                                                                   *)

\* What SumFunction computes: an element of each part first, then the rest.
Sums(f, g) ==
    g = [s \in SUBSET DOMAIN f |->
            IF s = {} THEN 0
            ELSE f[CHOOSE x \in s : TRUE] + g[s \ {CHOOSE x \in s : TRUE}]]

\* SumFunction is what a function that sums up every part says of them all.
LEMMA SumIsFold ==
  ASSUME NEW f, IsFiniteSet(DOMAIN f), \A x \in DOMAIN f : f[x] \in Nat
  PROVE  \E g : Sums(f, g) /\ SumFunction(f) = g[DOMAIN f]
  <1> DEFINE D == DOMAIN f
             c == [s \in SUBSET D |-> CHOOSE x \in s : TRUE]
             F == [p \in Nat \X D |-> f[p[2]] + p[1]]
  <1>1. \A s \in SUBSET D : s # {} => c[s] \in s
    OBVIOUS
  <1>2. F \in [Nat \X D -> Nat]
    OBVIOUS
  <1>3. PICK h : IsFold(h, D, Nat, 0, F, c)
    <2>1. IsFiniteSet(D) /\ 0 \in Nat
      OBVIOUS
    <2> HIDE DEF F, c, D
    <2> QED  BY <1>1, <1>2, <2>1, Recursion
  <1>4. \A s \in SUBSET D : s # {} =>
           F[<<h[s \ {c[s]}], c[s]>>] = f[CHOOSE x \in s : TRUE] + h[s \ {CHOOSE x \in s : TRUE}]
    <2> TAKE s \in SUBSET D
    <2> HAVE s # {}
    <2>1. c[s] = (CHOOSE x \in s : TRUE) /\ c[s] \in s
      OBVIOUS
    <2> HIDE DEF c
    <2>2. <<h[s \ {c[s]}], c[s]>> \in Nat \X D
      BY <1>3, <2>1 DEF IsFold
    <2>3. F[<<h[s \ {c[s]}], c[s]>>] = f[c[s]] + h[s \ {c[s]}]
      BY <2>2
    <2> QED  BY <2>1, <2>3
  <1>5. Sums(f, h)
    BY <1>3, <1>4 DEF Sums, IsFold
  <1> HIDE DEF F, c, D
  <1> QED  BY <1>5 DEF Sums, SumFunction, SumFunctionOnSet, FoldFunctionOnSet, MapThenFoldSet

\* Every part sums up to a natural, no element of it above the sum.
LEMMA PartsOfSum ==
  ASSUME NEW f, IsFiniteSet(DOMAIN f), \A x \in DOMAIN f : f[x] \in Nat,
         NEW g, Sums(f, g)
  PROVE  \A s \in SUBSET DOMAIN f : g[s] \in Nat /\ \A x \in s : f[x] <= g[s]
  <1> DEFINE D == DOMAIN f
             P == {s \in SUBSET D : g[s] \in Nat /\ \A x \in s : f[x] <= g[s]}
  <1>1. {} \in P
    BY DEF Sums
  <1>2. ASSUME NEW s \in SUBSET D, s # {}, \A x \in s : s \ {x} \in P
        PROVE  s \in P
    <2> DEFINE x == CHOOSE x \in s : TRUE
    <2>1. x \in s /\ g[s] = f[x] + g[s \ {x}]
      BY <1>2 DEF Sums
    <2> HIDE DEF x
    <2>2. g[s \ {x}] \in Nat /\ \A y \in s \ {x} : f[y] <= g[s \ {x}]
      BY <1>2, <2>1
    <2>3. f[x] \in Nat /\ \A y \in s : f[y] \in Nat
      BY <2>1
    <2> QED  BY <2>1, <2>2, <2>3
  <1>3. \A s \in SUBSET D : s \in P
    <2> HIDE DEF P
    <2> QED  BY <1>1, <1>2, Parts
  <1> QED  BY <1>3

\* It does not matter which element of a part is taken first.
LEMMA AnyFirst ==
  ASSUME NEW f, IsFiniteSet(DOMAIN f), \A x \in DOMAIN f : f[x] \in Nat,
         NEW g, Sums(f, g)
  PROVE  \A s \in SUBSET DOMAIN f : \A x \in s : g[s] = f[x] + g[s \ {x}]
  <1> DEFINE D == DOMAIN f
             P == {s \in SUBSET D : \A x \in s : g[s] = f[x] + g[s \ {x}]}
  <1>1. \A s \in SUBSET D : g[s] \in Nat
    BY PartsOfSum
  <1>2. {} \in P
    OBVIOUS
  <1>3. ASSUME NEW s \in SUBSET D, s # {}, \A x \in s : s \ {x} \in P
        PROVE  s \in P
    <2> DEFINE y == CHOOSE y \in s : TRUE
    <2>1. y \in s /\ g[s] = f[y] + g[s \ {y}]
      BY <1>3 DEF Sums
    <2> HIDE DEF y
    <2>2. ASSUME NEW x \in s, x # y PROVE g[s] = f[x] + g[s \ {x}]
      <3> DEFINE rest == g[(s \ {x}) \ {y}]
      <3>1. x \in s \ {y} /\ y \in s \ {x} /\ (s \ {y}) \ {x} = (s \ {x}) \ {y}
        BY <2>1, <2>2
      <3>2. g[s \ {y}] = f[x] + rest /\ g[s \ {x}] = f[y] + rest
        BY <1>3, <2>1, <3>1
      <3>3. rest \in Nat /\ f[x] \in Nat /\ f[y] \in Nat
        BY <1>1, <2>1
      <3> HIDE DEF rest
      <3> QED  BY <2>1, <3>2, <3>3
    <2> QED  BY <2>1, <2>2
  <1>4. \A s \in SUBSET D : s \in P
    <2> HIDE DEF P
    <2> QED  BY <1>2, <1>3, Parts
  <1> QED  BY <1>4

\* A sum of naturals is a natural, and no summand is above it.
LEMMA SumOfNaturals ==
  ASSUME NEW f, IsFiniteSet(DOMAIN f), \A x \in DOMAIN f : f[x] \in Nat
  PROVE  SumFunction(f) \in Nat /\ \A x \in DOMAIN f : f[x] <= SumFunction(f)
  <1>1. PICK g : Sums(f, g) /\ SumFunction(f) = g[DOMAIN f]
    BY SumIsFold
  <1> QED  BY <1>1, PartsOfSum

\* A part does not sum up to more than the whole.
LEMMA PartOfSum ==
  ASSUME NEW f, IsFiniteSet(DOMAIN f), \A x \in DOMAIN f : f[x] \in Nat,
         NEW g, Sums(f, g), NEW part \in SUBSET DOMAIN f
  PROVE  g[part] <= g[DOMAIN f]
  <1> DEFINE D == DOMAIN f
             P == {s \in SUBSET D : part \subseteq s => g[part] <= g[s]}
  <1>1. \A s \in SUBSET D : g[s] \in Nat
    BY PartsOfSum
  <1>2. {} \in P
    <2>1. part \subseteq {} => part = {}
      OBVIOUS
    <2>2. g[{}] <= g[{}]
      BY <1>1
    <2> QED  BY <2>1, <2>2
  <1>3. ASSUME NEW s \in SUBSET D, s # {}, \A x \in s : s \ {x} \in P
        PROVE  s \in P
    <2>1. CASE s = part \/ ~ (part \subseteq s)
      BY <1>1, <2>1
    <2>2. CASE part \subseteq s /\ s # part
      <3>1. PICK x \in s : x \notin part
        BY <2>2
      <3>2. g[part] <= g[s \ {x}]
        BY <1>3, <2>2, <3>1
      <3>3. g[s] = f[x] + g[s \ {x}]
        BY AnyFirst
      <3>4. f[x] \in Nat /\ g[part] \in Nat /\ g[s \ {x}] \in Nat
        BY <1>1
      <3>5. g[part] <= g[s]
        BY <3>2, <3>3, <3>4
      <3> QED  BY <3>5
    <2> QED  BY <2>1, <2>2
  <1>4. \A s \in SUBSET D : s \in P
    <2> HIDE DEF P
    <2> QED  BY <1>2, <1>3, Parts
  <1> QED  BY <1>4

\* More and larger summands, larger sum.
LEMMA SumIsMonotone ==
  ASSUME NEW f, NEW h, DOMAIN f \subseteq DOMAIN h, IsFiniteSet(DOMAIN h),
         \A x \in DOMAIN h : h[x] \in Nat,
         \A x \in DOMAIN f : f[x] \in Nat /\ f[x] <= h[x]
  PROVE  SumFunction(f) <= SumFunction(h)
  <1> DEFINE D == DOMAIN f
  <1>1. IsFiniteSet(D)
    BY FS_Subset
  <1>2. PICK g : Sums(f, g) /\ SumFunction(f) = g[D]
    BY <1>1, SumIsFold
  <1>3. PICK k : Sums(h, k) /\ SumFunction(h) = k[DOMAIN h]
    BY SumIsFold
  <1>4. /\ \A s \in SUBSET D : g[s] \in Nat
        /\ \A s \in SUBSET DOMAIN h : k[s] \in Nat
    BY <1>1, <1>2, <1>3, PartsOfSum
  <1> DEFINE P == {s \in SUBSET D : g[s] <= k[s]}
  <1>5. {} \in P
    BY <1>2, <1>3 DEF Sums
  <1>6. ASSUME NEW s \in SUBSET D, s # {}, \A x \in s : s \ {x} \in P
        PROVE  s \in P
    <2> DEFINE x == CHOOSE x \in s : TRUE
    <2>1. x \in s /\ g[s] = f[x] + g[s \ {x}] /\ k[s] = h[x] + k[s \ {x}]
      BY <1>2, <1>3, <1>6 DEF Sums
    <2> HIDE DEF x
    <2>2. g[s \ {x}] \in Nat /\ k[s \ {x}] \in Nat /\ g[s \ {x}] <= k[s \ {x}]
      BY <1>4, <1>6, <2>1
    <2>3. f[x] \in Nat /\ h[x] \in Nat /\ f[x] <= h[x]
      BY <2>1
    <2> QED  BY <2>1, <2>2, <2>3
  <1>7. D \in P
    <2>1. \A s \in SUBSET D : s \in P
      <3> HIDE DEF P
      <3> QED  BY <1>1, <1>5, <1>6, Parts
    <2> QED  BY <2>1
  <1>8. k[D] <= k[DOMAIN h]
    BY <1>3, PartOfSum
  <1> QED  BY <1>2, <1>3, <1>4, <1>7, <1>8

=============================================================================
