----------------------------- MODULE FiniteSums -----------------------------
(***************************************************************************)
(* Least elements of sets of numbers and of finite orders, and folds and   *)
(* sums over finite sets as the community modules compute them.  Each      *)
(* induction is an argument from a smallest counterexample.                *)
(***************************************************************************)
EXTENDS FiniteSetsExt, FiniteSetTheorems, WellFoundedInduction, TLAPS

-----------------------------------------------------------------------------
(***************************************************************************)
(* Smallest elements.                                                      *)
(***************************************************************************)
Smaller == {p \in Nat \X Nat : p[1] < p[2]}

LEMMA LeastNumber ==
  ASSUME NEW N \in SUBSET Nat, N # {}
  PROVE  \E m \in N : \A n \in N : m <= n
<1>1. IsWellFoundedOn(Smaller, Nat)
  BY NatLessThanWellFounded DEF OpToRel, Smaller
<1>2. PICK m \in N : \A n \in N : ~(<<n, m>> \in Smaller)
  BY <1>1, WFMin, Zenon
<1>3. ASSUME NEW n \in N PROVE m <= n
  <2>1. m \in Nat /\ n \in Nat
    OBVIOUS
  <2>2. n < m => <<n, m>> \in Smaller
    BY <2>1 DEF Smaller
  <2> QED
    BY <1>2, <2>1, <2>2
<1> QED
  BY <1>3

\* Min names the least element of a set of numbers.
LEMMA MinIsLeast ==
  ASSUME NEW N \in SUBSET Nat, N # {}
  PROVE  Min(N) \in N /\ \A n \in N : Min(N) <= n
BY LeastNumber DEF Min

LEMMA SmallestSet ==
  ASSUME NEW C, C # {}, \A s \in C : IsFiniteSet(s)
  PROVE  \E s \in C : \A t \in C : Cardinality(s) <= Cardinality(t)
<1> DEFINE N == {Cardinality(s) : s \in C}
<1>1. N \in SUBSET Nat /\ N # {}
  BY FS_CardinalityType
<1>2. PICK m \in N : \A n \in N : m <= n
  BY <1>1, LeastNumber
<1> QED
  BY <1>2

\* Max names the largest element of a bounded set of numbers.
LEMMA MaxIsLargest ==
  ASSUME NEW n \in Nat, NEW s \in SUBSET (0..n), s # {}
  PROVE  Max(s) \in s /\ \A j \in s : Max(s) >= j
<1> DEFINE N == {n - i : i \in s}
<1>1. N \in SUBSET Nat /\ N # {}
  <2>1. \A i \in s : n - i \in Nat
    OBVIOUS
  <2> QED
    BY <2>1
<1>2. PICK m \in N : \A k \in N : m <= k
  <2> HIDE DEF N
  <2> QED
    BY <1>1, LeastNumber
<1>3. PICK i \in s : m = n - i
  OBVIOUS
<1>4. \A j \in s : i >= j
  <2>1. \A j \in s : m <= n - j
    BY <1>2
  <2> QED
    BY <1>3, <2>1
<1> QED
  BY <1>4 DEF Max

LEMMA MaxIsElement ==
  ASSUME NEW n \in Nat, NEW s \in SUBSET (1..n), s # {}
  PROVE  Max(s) \in s
<1>1. s \in SUBSET (0..n)
  OBVIOUS
<1> QED
  BY <1>1, MaxIsLargest

\* A finite set has an element without a predecessor in a strict order.
LEMMA FirstElement ==
  ASSUME NEW X, IsFiniteSet(X), X # {}, NEW R,
         \A x \in X : <<x, x>> \notin R,
         \A x, y, z \in X : <<x, y>> \in R /\ <<y, z>> \in R => <<x, z>> \in R
  PROVE  \E x \in X : \A y \in X : <<y, x>> \notin R
<1> DEFINE Below(x) == {y \in X : <<y, x>> \in R}
           C == {Below(x) : x \in X}
<1>1. \A x \in X : IsFiniteSet(Below(x)) /\ Cardinality(Below(x)) \in Nat
  BY FS_Subset, FS_CardinalityType
<1>2. C # {}
  <2>1. PICK x \in X : TRUE
    OBVIOUS
  <2>2. Below(x) \in C
    OBVIOUS
  <2> HIDE DEF C
  <2> QED
    BY <2>2
<1>3. \A s \in C : IsFiniteSet(s)
  BY <1>1
<1>4. PICK s \in C : \A t \in C : Cardinality(s) <= Cardinality(t)
  BY <1>2, <1>3, SmallestSet, Zenon
<1>5. PICK x \in X : s = Below(x)
  OBVIOUS
<1>6. ASSUME NEW y \in X, <<y, x>> \in R PROVE FALSE
  <2>1. Below(y) \in SUBSET Below(x)
    BY <1>6
  <2>2. y \in Below(x) /\ y \notin Below(y)
    BY <1>6
  <2>3. Below(y) # Below(x)
    BY <2>2
  <2>4. Cardinality(Below(y)) <= Cardinality(Below(x))
        /\ Cardinality(Below(x)) # Cardinality(Below(y))
    BY <1>1, <2>1, <2>3, FS_Subset
  <2>5. Below(y) \in C
    OBVIOUS
  <2>6. Cardinality(Below(x)) <= Cardinality(Below(y))
    BY <1>4, <1>5, <2>5
  <2> QED
    BY <1>1, <2>4, <2>6
<1> QED
  BY <1>6

-----------------------------------------------------------------------------
(***************************************************************************)
(* Folds over a finite set S: c names the next element to be taken out and *)
(* step says what the element does to the value of the rest.               *)
(***************************************************************************)
Chooses(c, S) == \A s \in SUBSET S : s # {} => c[s] \in s

FoldsUp(f, c, step, base, D) ==
  f = [s \in D |-> IF s = {} THEN base ELSE step[<<f[s \ {c[s]}], c[s]>>]]

LEMMA ElementAway ==
  ASSUME NEW S, IsFiniteSet(S), NEW s \in SUBSET S, NEW x \in s
  PROVE  /\ x \in S /\ s \ {x} \in SUBSET S
         /\ Cardinality(s) \in Nat \ {0}
         /\ Cardinality(s \ {x}) = Cardinality(s) - 1
<1>1. IsFiniteSet(s)
  BY FS_Subset
<1>2. Cardinality(s) \in Nat /\ Cardinality(s) # 0
  BY <1>1, FS_CardinalityType, FS_EmptySet
<1>3. Cardinality(s \ {x}) = Cardinality(s) - 1
  BY <1>1, FS_RemoveElement
<1> QED
  BY <1>2, <1>3

LEMMA FoldExists ==
  ASSUME NEW S, IsFiniteSet(S), NEW c, Chooses(c, S),
         NEW X, NEW base \in X, NEW step \in [X \X S -> X]
  PROVE  \E f \in [SUBSET S -> X] : FoldsUp(f, c, step, base, SUBSET S)
<1> DEFINE Small(n) == {s \in SUBSET S : Cardinality(s) <= n}
           Done(n) == \E f \in [Small(n) -> X] : FoldsUp(f, c, step, base, Small(n))
           N == {n \in Nat : ~Done(n)}
<1>1. \A s \in SUBSET S : IsFiniteSet(s) /\ Cardinality(s) \in Nat
  BY FS_Subset, FS_CardinalityType
<1>2. N = {}
  <2> SUFFICES ASSUME N # {} PROVE FALSE
    OBVIOUS
  <2>1. PICK n \in N : \A m \in N : n <= m
    <3>1. N \in SUBSET Nat
      OBVIOUS
    <3> HIDE DEF N
    <3> QED
      BY <3>1, LeastNumber
  <2>2. CASE n = 0
    <3> DEFINE f == [s \in Small(0) |-> base]
    <3>1. \A s \in Small(0) : s = {}
      BY <1>1, FS_EmptySet
    <3>2. FoldsUp(f, c, step, base, Small(0))
      BY <3>1 DEF FoldsUp
    <3> QED
      BY <2>2, <3>2
  <2>3. CASE n # 0
    <3>1. n - 1 \in Nat /\ Done(n - 1)
      <4>1. n \in Nat /\ n - 1 \in Nat /\ ~(n <= n - 1)
        BY <2>3
      <4> HIDE DEF Done
      <4> QED
        BY <2>1, <4>1
    <3>2. PICK h \in [Small(n - 1) -> X] : FoldsUp(h, c, step, base, Small(n - 1))
      BY <3>1
    <3> DEFINE f == [s \in Small(n) |->
                       IF s = {} THEN base ELSE step[<<h[s \ {c[s]}], c[s]>>]]
    <3>3. \A s \in Small(n) :
            s # {} => c[s] \in S /\ s \ {c[s]} \in Small(n - 1)
      BY <1>1, <3>1, ElementAway DEF Chooses
    <3>4. \A s \in Small(n - 1) : s \in Small(n) /\ f[s] = h[s]
      <4>1. \A s \in Small(n - 1) : s \in Small(n)
        BY <1>1, <3>1
      <4> QED
        BY <3>2, <4>1 DEF FoldsUp
    <3>5. f \in [Small(n) -> X]
      <4>1. ASSUME NEW s \in Small(n), s # {}
            PROVE  step[<<h[s \ {c[s]}], c[s]>>] \in X
        BY <3>3, <4>1
      <4> QED
        BY <4>1
    <3>6. FoldsUp(f, c, step, base, Small(n))
      BY <3>3, <3>4 DEF FoldsUp
    <3> HIDE DEF f
    <3> QED
      BY <3>5, <3>6
  <2> QED
    BY <2>2, <2>3
<1>3. Cardinality(S) \in Nat /\ Small(Cardinality(S)) = SUBSET S
  BY <1>1, FS_Subset
<1>4. Done(Cardinality(S))
  <2> HIDE DEF Done
  <2> QED
    BY <1>2, <1>3
<1> HIDE DEF Small
<1> QED
  BY <1>3, <1>4

\* FoldLeft takes the last position out of 1..n and of what is left of it.
LastOf(n) == [s \in SUBSET (1..n) |-> Max(s)]

LEMMA LastChooses ==
  ASSUME NEW n \in Nat
  PROVE  /\ IsFiniteSet(1..n) /\ Chooses(LastOf(n), 1..n)
         /\ \A s \in SUBSET (1..n) : s # {} =>
              /\ LastOf(n)[s] = Max(s) /\ Max(s) \in 1..n
              /\ s \ {Max(s)} \in SUBSET (1..n)
<1>1. \A s \in SUBSET (1..n) : s # {} => LastOf(n)[s] = Max(s) /\ Max(s) \in s
  BY MaxIsElement DEF LastOf
<1>2. IsFiniteSet(1..n)
  BY FS_Interval
<1>3. \A s \in SUBSET (1..n) : s \ {Max(s)} \in SUBSET (1..n)
  OBVIOUS
<1>4. Chooses(LastOf(n), 1..n)
  BY <1>1 DEF Chooses
<1> QED
  BY <1>1, <1>2, <1>3, <1>4

-----------------------------------------------------------------------------
(***************************************************************************)
(* Sums over a finite set, as MapThenSumSet adds them up.                  *)
(***************************************************************************)
Taken(s) == CHOOSE x \in s : TRUE

AddsUp(f, G, D) ==
  f = [s \in D |-> IF s = {} THEN 0 ELSE G[Taken(s)] + f[s \ {Taken(s)}]]

LEMMA SumExists ==
  ASSUME NEW S, IsFiniteSet(S), NEW G \in [S -> Nat]
  PROVE  \E f : AddsUp(f, G, SUBSET S)
<1> DEFINE X == Nat
           zero == 0
           c == [s \in SUBSET S |-> Taken(s)]
           step == [p \in X \X S |-> G[p[2]] + p[1]]
<1>1. \A s \in SUBSET S : s # {} => c[s] = Taken(s) /\ Taken(s) \in s
  BY DEF Taken
<1>2. zero \in X /\ step \in [X \X S -> X]
  OBVIOUS
<1>3. \A n \in X, x \in S : step[<<n, x>>] = G[x] + n
  OBVIOUS
<1>4. \E f \in [SUBSET S -> X] : FoldsUp(f, c, step, zero, SUBSET S)
  <2>1. Chooses(c, S)
    BY <1>1 DEF Chooses
  <2> HIDE DEF X, zero, c, step
  <2> QED
    BY <1>2, <2>1, FoldExists
<1>5. PICK f \in [SUBSET S -> X] : FoldsUp(f, c, step, zero, SUBSET S)
  BY <1>4
<1> HIDE DEF c, step
<1>6. \A s \in SUBSET S :
        s # {} => step[<<f[s \ {c[s]}], c[s]>>] = G[Taken(s)] + f[s \ {Taken(s)}]
  BY <1>1, <1>3
<1>7. AddsUp(f, G, SUBSET S)
  BY <1>5, <1>6 DEF FoldsUp, AddsUp
<1> QED
  BY <1>7

\* Greater addends make a greater sum.
LEMMA SumsGrow ==
  ASSUME NEW S, IsFiniteSet(S), NEW F \in [S -> Nat], NEW G \in [S -> Nat],
         \A x \in S : F[x] <= G[x],
         NEW f, AddsUp(f, F, SUBSET S), NEW g, AddsUp(g, G, SUBSET S)
  PROVE  f[S] \in Nat /\ g[S] \in Nat /\ f[S] <= g[S]
<1> DEFINE Good(s) == f[s] \in Nat /\ g[s] \in Nat /\ f[s] <= g[s]
           C == {s \in SUBSET S : ~Good(s)}
<1>1. ASSUME NEW s \in C, \A t \in C : Cardinality(s) <= Cardinality(t) PROVE FALSE
  <2>1. CASE s = {}
    BY <2>1 DEF AddsUp
  <2>2. CASE s # {}
    <3> DEFINE x == Taken(s)
               t == s \ {Taken(s)}
    <3>1. /\ x \in S /\ t \in SUBSET S
          /\ Cardinality(s) \in Nat /\ Cardinality(t) = Cardinality(s) - 1
      BY <2>2, ElementAway DEF Taken
    <3>2. f[s] = F[x] + f[t] /\ g[s] = G[x] + g[t]
      BY <2>2 DEF AddsUp
    <3> HIDE DEF x, t
    <3>3. Good(t)
      BY <1>1, <3>1
    <3>4. F[x] \in Nat /\ G[x] \in Nat /\ F[x] <= G[x]
      BY <3>1
    <3>5. Good(s)
      BY <3>2, <3>3, <3>4
    <3> QED
      BY <3>5
  <2> QED
    BY <2>1, <2>2
<1>2. \A s \in C : IsFiniteSet(s)
  BY FS_Subset
<1>3. C = {}
  <2> HIDE DEF C
  <2> QED
    BY <1>1, <1>2, SmallestSet
<1> QED
  BY <1>3

=============================================================================
