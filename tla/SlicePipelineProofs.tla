------------------------- MODULE SlicePipelineProofs -------------------------
(***************************************************************************)
(* Theorems of SlicePipeline, for any recordings, replies and failures.    *)
(*                                                                         *)
(* What the folds of the slicing algorithms compute is proved by the least *)
(* number for which it would be wrong: the first part says that a fold     *)
(* goes through one value for every element, the second what those values  *)
(* are for each of the folds.                                              *)
(***************************************************************************)
EXTENDS SlicePipeline, TLAPS, FiniteSetTheorems, WellFoundedInduction

(* A set of numbers that is not empty has a least element.                  *)
LEMMA LeastElement ==
    ASSUME NEW T \in SUBSET Nat, T # {}
    PROVE  \E m \in T : \A j \in T : m <= j
<1> DEFINE Below(n) == {S \in SUBSET (0..n) : \E k \in T : k <= n /\ S = 0..k}
<1>1. PICK n \in T : TRUE
  OBVIOUS
<1>2. 0..n \in Below(n) /\ Below(n) \subseteq FiniteSubsetsOf(0..n)
  <2>1. IsFiniteSet(0..n)
    BY FS_Interval
  <2>2. QED
    BY <2>1, <1>1, FS_Subset DEF FiniteSubsetsOf
<1>3. PICK S \in Below(n) : \A R \in Below(n) : ~(<<R, S>> \in StrictSubsetOrdering(0..n))
  <2>1. IsWellFoundedOn(StrictSubsetOrdering(0..n), FiniteSubsetsOf(0..n))
    BY FS_StrictSubsetOrderingWellFounded
  <2> HIDE DEF Below
  <2>2. QED
    BY <2>1, <1>2, WFMin, Zenon
<1>4. PICK k \in T : k <= n /\ S = 0..k
  BY <1>3
<1>5. ASSUME NEW j \in T, j < k
      PROVE  FALSE
  <2>1. 0..j \in Below(n)
    BY <1>1, <1>4, <1>5
  <2>2. <<0..j, S>> \in StrictSubsetOrdering(0..n)
    BY <1>1, <1>4, <1>5, <2>1 DEF StrictSubsetOrdering
  <2>3. QED
    BY <1>3, <2>1, <2>2
<1>6. QED
  BY <1>5

(* Induction: a set that holds 0 and the successors of what it holds.       *)
LEMMA CountUp ==
    ASSUME NEW n \in Nat, NEW G, 0 \in G, \A k \in 0..n - 1 : k \in G => k + 1 \in G
    PROVE  0..n \subseteq G
<1> DEFINE Bad == {k \in 0..n : k \notin G}
<1>1. SUFFICES ASSUME Bad # {}
               PROVE  FALSE
  OBVIOUS
<1>2. PICK m \in Bad : \A j \in Bad : m <= j
  <2>1. Bad \in SUBSET Nat
    OBVIOUS
  <2> HIDE DEF Bad
  <2>2. QED
    BY <1>1, <2>1, LeastElement
<1>3. m - 1 \in 0..n - 1 /\ m - 1 \notin Bad
  BY <1>2
<1>4. QED
  BY <1>2, <1>3

(* A finite set of numbers that is not empty has a greatest element.        *)
LEMMA MaxOf ==
    ASSUME NEW n \in Nat, NEW s \in SUBSET (1..n), s # {}
    PROVE  Max(s) \in s /\ \A k \in s : k <= Max(s)
<1> DEFINE Gap == {g \in Nat : \E k \in s : g = n - k}
<1>1. PICK g \in Gap : \A h \in Gap : g <= h
  <2>1. Gap \in SUBSET Nat /\ Gap # {}
    <3>1. PICK k \in s : TRUE
      OBVIOUS
    <3>2. n - k \in Gap
      BY <3>1
    <3>3. QED
      BY <3>2
  <2> HIDE DEF Gap
  <2>2. QED
    BY <2>1, LeastElement
<1>2. PICK k \in s : g = n - k
  BY <1>1
<1>3. \A j \in s : n - j \in Gap
  OBVIOUS
<1>4. \A j \in s : k >= j
  BY <1>1, <1>2, <1>3
<1>5. QED
  BY <1>4 DEF Max

-----------------------------------------------------------------------------
(* Folds.                                                                   *)

(* g is what a fold computes from each part of S: for {} its base, for any  *)
(* other the step F for the element P picks.                                *)
Picks(S, P) == \A s \in SUBSET S : s # {} => P[s] \in s
Computes(S, base, F, P, g) ==
    \A s \in SUBSET S : g[s] = IF s = {} THEN base ELSE F[<<P[s], g[s \ {P[s]}]>>]

(* The same of h, if of the step we only know what it makes of values in Y. *)
FoldsTo(S, Y, base, F, P, h) ==
    /\ h[{}] = base
    /\ \A s \in SUBSET S : s # {} /\ h[s \ {P[s]}] \in Y => h[s] = F[<<P[s], h[s \ {P[s]}]>>]

(* There is a function that computes the fold.                              *)
LEMMA FoldExists ==
    ASSUME NEW S, IsFiniteSet(S), NEW Y, NEW base \in Y, NEW F \in [S \X Y -> Y],
           NEW P, Picks(S, P)
    PROVE  \E g \in [SUBSET S -> Y] : Computes(S, base, F, P, g)
<1> DEFINE Small(n) == {s \in SUBSET S : Cardinality(s) <= n}
           Good(n) == \E g \in [Small(n) -> Y] :
                         \A s \in Small(n) :
                            g[s] = IF s = {} THEN base ELSE F[<<P[s], g[s \ {P[s]}]>>]
<1>1. \A s \in SUBSET S : IsFiniteSet(s) /\ Cardinality(s) \in Nat
  BY FS_Subset, FS_CardinalityType
<1>2. \A s \in SUBSET S : s # {} =>
        /\ P[s] \in S /\ s \ {P[s]} \in SUBSET S
        /\ Cardinality(s \ {P[s]}) = Cardinality(s) - 1
  BY <1>1, FS_RemoveElement DEF Picks
<1>3. Good(0)
  <2>1. Small(0) = {{}}
    BY <1>1, FS_EmptySet
  <2>2. [s \in {{}} |-> base] \in [Small(0) -> Y]
    BY <2>1
  <2>3. QED
    BY <2>1, <2>2
<1>4. ASSUME NEW n \in Nat, Good(n)
      PROVE  Good(n + 1)
  <2>1. PICK g \in [Small(n) -> Y] : \A s \in Small(n) :
                            g[s] = IF s = {} THEN base ELSE F[<<P[s], g[s \ {P[s]}]>>]
    BY <1>4
  <2> DEFINE h == [s \in Small(n + 1) |-> IF s = {} THEN base ELSE F[<<P[s], g[s \ {P[s]}]>>]]
  <2>2. \A s \in Small(n + 1) : s # {} => s \ {P[s]} \in Small(n)
    BY <1>1, <1>2
  <2>3. \A s \in Small(n + 1) : s # {} => P[s] \in S /\ g[s \ {P[s]}] \in Y
    BY <1>2, <2>2
  <2>4. \A s \in Small(n + 1) : s # {} => F[<<P[s], g[s \ {P[s]}]>>] \in Y
    BY <2>3
  <2>5. h \in [Small(n + 1) -> Y]
    BY <2>4
  <2>6. \A s \in Small(n) : s \in Small(n + 1) /\ h[s] = g[s]
    BY <1>1, <2>1
  <2>7. \A s \in Small(n + 1) : h[s] = IF s = {} THEN base ELSE F[<<P[s], h[s \ {P[s]}]>>]
    BY <2>2, <2>6
  <2>8. QED
    BY <2>5, <2>7
<1>5. Cardinality(S) \in Nat /\ Small(Cardinality(S)) = SUBSET S
  BY <1>1, FS_Subset, FS_CardinalityType
<1>6. Good(Cardinality(S))
  <2> DEFINE G == {n \in Nat : Good(n)}
  <2> HIDE DEF Good
  <2>1. 0 \in G /\ \A k \in 0..Cardinality(S) - 1 : k \in G => k + 1 \in G
    BY <1>3, <1>4, <1>5
  <2> HIDE DEF G
  <2>2. 0..Cardinality(S) \subseteq G
    BY <1>5, <2>1, CountUp
  <2>3. QED
    BY <1>5, <2>2 DEF G
<1>7. QED
  BY <1>5, <1>6 DEF Computes

(* A fold stays in the values its steps lead to.                            *)
LEMMA FoldStays ==
    ASSUME NEW S, IsFiniteSet(S), NEW Y, NEW base \in Y, NEW F \in [S \X Y -> Y],
           NEW P, Picks(S, P),
           NEW h, FoldsTo(S, Y, base, F, P, h)
    PROVE  \A s \in SUBSET S : h[s] \in Y
<1> DEFINE G == {n \in Nat : \A s \in SUBSET S : Cardinality(s) = n => h[s] \in Y}
<1>1. \A s \in SUBSET S : IsFiniteSet(s) /\ Cardinality(s) \in Nat
  BY FS_Subset, FS_CardinalityType
<1>2. 0 \in G
  BY <1>1, FS_EmptySet DEF FoldsTo
<1>3. ASSUME NEW n \in Nat, n \in G, NEW s \in SUBSET S, Cardinality(s) = n + 1
      PROVE  h[s] \in Y
  <2>1. s # {} /\ P[s] \in s
    BY <1>1, <1>3, FS_EmptySet DEF Picks
  <2>2. Cardinality(s \ {P[s]}) = n /\ s \ {P[s]} \in SUBSET S
    <3>1. IsFiniteSet(s) /\ Cardinality(s) \in Nat
      BY <1>1
    <3>2. Cardinality(s \ {P[s]}) = Cardinality(s) - 1
      BY <2>1, <3>1, FS_RemoveElement
    <3>3. QED
      BY <1>3, <3>2
  <2>3. h[s \ {P[s]}] \in Y
    BY <1>3, <2>2
  <2>4. P[s] \in S /\ F[<<P[s], h[s \ {P[s]}]>>] \in Y
    BY <2>1, <2>3
  <2>5. QED
    BY <2>1, <2>3, <2>4 DEF FoldsTo
<1>4. ASSUME NEW s \in SUBSET S
      PROVE  h[s] \in Y
  <2>1. \A k \in 0..Cardinality(s) - 1 : k \in G => k + 1 \in G
    BY <1>1, <1>3
  <2>2. 0..Cardinality(s) \subseteq G
    <3> HIDE DEF G
    <3>1. QED
      BY <1>1, <1>2, <2>1, CountUp
  <2>3. QED
    BY <1>1, <2>2
<1>5. QED
  BY <1>4

(* A fold over 1..n from the left goes through one value for each number.   *)
Greatest(n) == [s \in SUBSET (1..n) |-> Max(s)]
Stages(n, h) == [k \in 0..n |-> h[1..k]]
Passes(n, Y, base, F, made) ==
    /\ made \in [0..n -> Y] /\ made[0] = base
    /\ \A k \in 1..n : made[k] = F[<<k, made[k - 1]>>]

LEMMA FoldWalks ==
    ASSUME NEW n \in Nat, NEW Y, NEW base \in Y, NEW F \in [(1..n) \X Y -> Y],
           NEW h, FoldsTo(1..n, Y, base, F, Greatest(n), h)
    PROVE  Passes(n, Y, base, F, Stages(n, h)) /\ Stages(n, h)[n] = h[1..n]
<1> DEFINE P == Greatest(n)
<1>1. Picks(1..n, P)
  BY MaxOf DEF Picks, Greatest
<1>2. \A s \in SUBSET (1..n) : h[s] \in Y
  <2>1. FoldsTo(1..n, Y, base, F, P, h) /\ IsFiniteSet(1..n)
    BY FS_Interval
  <2> HIDE DEF P
  <2>2. QED
    BY <1>1, <2>1, FoldStays
<1>3. \A k \in 1..n : Max(1..k) = k /\ (1..k) \ {k} = 1..k - 1 /\ 1..k \in SUBSET (1..n)
  <2>1. TAKE k \in 1..n
  <2>2. 1..k \in SUBSET (1..n) /\ k \in 1..k
    OBVIOUS
  <2>3. Max(1..k) \in 1..k /\ \A j \in 1..k : j <= Max(1..k)
    BY <2>2, MaxOf
  <2>4. QED
    BY <2>2, <2>3
<1>4. \A k \in 0..n : 1..k \in SUBSET (1..n)
  OBVIOUS
<1>5. \A k \in 1..n : h[1..k] = F[<<k, h[1..k - 1]>>]
  <2>1. TAKE k \in 1..n
  <2>2. P[1..k] = k /\ (1..k) \ {P[1..k]} = 1..k - 1 /\ 1..k # {} /\ 1..k - 1 \in SUBSET (1..n)
    <3>1. Max(1..k) = k /\ (1..k) \ {k} = 1..k - 1 /\ 1..k \in SUBSET (1..n)
      BY <1>3
    <3>2. P[1..k] = Max(1..k)
      BY <3>1 DEF Greatest
    <3>3. k \in 1..k
      OBVIOUS
    <3>4. 1..k - 1 \in SUBSET (1..n)
      BY ONLY <3>1
    <3> HIDE DEF P
    <3>5. QED
      BY <3>1, <3>2, <3>3, <3>4
  <2>3. 1..k \in SUBSET (1..n) /\ h[1..k - 1] \in Y
    BY <1>2, <1>3, <2>2
  <2> HIDE DEF P
  <2>4. \A s \in SUBSET (1..n) : s # {} /\ h[s \ {P[s]}] \in Y =>
           h[s] = F[<<P[s], h[s \ {P[s]}]>>]
    BY DEF FoldsTo, P
  <2>5. h[1..k] = F[<<P[1..k], h[(1..k) \ {P[1..k]}]>>]
    BY <2>2, <2>3, <2>4
  <2>6. QED
    BY <2>2, <2>5
<1>6. 1..0 = {}
  OBVIOUS
<1>7. QED
  BY <1>2, <1>4, <1>5, <1>6 DEF Stages, Passes, FoldsTo

LEMMA WalkExists ==
    ASSUME NEW n \in Nat, NEW Y, NEW base \in Y, NEW F \in [(1..n) \X Y -> Y]
    PROVE  \E g \in [SUBSET (1..n) -> Y] : Computes(1..n, base, F, Greatest(n), g)
<1>1. IsFiniteSet(1..n)
  BY FS_Interval
<1>2. Picks(1..n, Greatest(n))
  BY MaxOf DEF Picks, Greatest
<1>3. QED
  BY <1>1, <1>2, FoldExists

-----------------------------------------------------------------------------
(* Orders.                                                                  *)

(* In a set that is not empty, one comes behind no other.                   *)
LEMMA OneIsLast ==
    ASSUME NEW T, IsFiniteSet(T), T # {}, NEW R,
           \A x \in T : <<x, x>> \notin R,
           \A x, y, z \in T : <<x, y>> \in R /\ <<y, z>> \in R => <<x, z>> \in R
    PROVE  \E x \in T : \A y \in T : <<x, y>> \notin R
<1> DEFINE Behind(x) == {y \in T : <<x, y>> \in R}
           Counts == {Cardinality(Behind(x)) : x \in T}
<1>1. \A x \in T : IsFiniteSet(Behind(x)) /\ Cardinality(Behind(x)) \in Nat
  BY FS_Subset, FS_CardinalityType
<1>2. PICK m \in Counts : \A j \in Counts : m <= j
  <2>1. Counts \in SUBSET Nat /\ Counts # {}
    <3>1. PICK x \in T : TRUE
      OBVIOUS
    <3>2. Cardinality(Behind(x)) \in Counts
      BY <3>1
    <3> HIDE DEF Behind
    <3>3. QED
      BY <1>1, <3>2
  <2> HIDE DEF Counts
  <2>2. QED
    BY <2>1, LeastElement
<1>3. PICK x \in T : m = Cardinality(Behind(x))
  BY <1>2
<1>4. ASSUME NEW y \in T, <<x, y>> \in R
      PROVE  FALSE
  <2>1. Behind(y) \in SUBSET Behind(x) /\ Behind(x) # Behind(y)
    <3>1. y \in Behind(x) /\ y \notin Behind(y)
      BY <1>4
    <3>2. QED
      BY <1>4, <3>1
  <2>2. Cardinality(Behind(y)) \in Counts
    OBVIOUS
  <2> HIDE DEF Behind, Counts
  <2>3. /\ Cardinality(Behind(y)) <= Cardinality(Behind(x))
        /\ Cardinality(Behind(x)) # Cardinality(Behind(y))
    BY <1>1, <2>1, FS_Subset
  <2>4. m <= Cardinality(Behind(y))
    BY <1>2, <2>2
  <2>5. QED
    BY <1>1, <1>3, <1>4, <2>3, <2>4
<1>5. QED
  BY <1>4

(* What an order of a finite set leaves behind can be put in a sequence.    *)
Sorts(p, m, T, R) ==
    /\ p \in [1..m -> T]
    /\ \A j, k \in 1..m : p[j] = p[k] => j = k
    /\ \A x \in T : \E k \in 1..m : p[k] = x
    /\ \A k \in 1..m : \A j \in 1..k - 1 : <<p[k], p[j]>> \notin R

LEMMA SortExists ==
    ASSUME NEW n \in Nat, NEW R,
           \A x \in 1..n : <<x, x>> \notin R,
           \A x, y, z \in 1..n : <<x, y>> \in R /\ <<y, z>> \in R => <<x, z>> \in R
    PROVE  \E p : Sorts(p, n, 1..n, R)
<1> DEFINE G == {m \in Nat : \A T \in SUBSET (1..n) :
                               Cardinality(T) = m => \E p : Sorts(p, m, T, R)}
<1>1. IsFiniteSet(1..n) /\ Cardinality(1..n) = n
  BY FS_Interval
<1>2. \A T \in SUBSET (1..n) : IsFiniteSet(T)
  BY <1>1, FS_Subset
<1>3. 0 \in G
  <2>1. ASSUME NEW T \in SUBSET (1..n), Cardinality(T) = 0
        PROVE  Sorts(<<>>, 0, T, R)
    <3>1. T = {}
      BY <1>2, <2>1, FS_EmptySet
    <3>2. QED
      BY <3>1 DEF Sorts
  <2>2. QED
    BY <2>1
<1>4. ASSUME NEW m \in 0..n - 1, m \in G
      PROVE  m + 1 \in G
  <2>1. SUFFICES ASSUME NEW T \in SUBSET (1..n), Cardinality(T) = m + 1
                 PROVE  \E p : Sorts(p, m + 1, T, R)
    OBVIOUS
  <2>2. PICK x \in T : \A y \in T : <<x, y>> \notin R
    <3>1. IsFiniteSet(T) /\ T # {}
      BY <1>2, <2>1, FS_EmptySet
    <3>2. /\ \A a \in T : <<a, a>> \notin R
          /\ \A a, b, c \in T : <<a, b>> \in R /\ <<b, c>> \in R => <<a, c>> \in R
      OBVIOUS
    <3>3. QED
      BY <3>1, <3>2, OneIsLast
  <2> DEFINE U == T \ {x}
  <2>3. U \in SUBSET (1..n) /\ Cardinality(U) = m
    BY <1>2, <2>1, FS_RemoveElement
  <2>4. PICK p : Sorts(p, m, U, R)
    BY <1>4, <2>3
  <2> DEFINE q == [k \in 1..m + 1 |-> IF k = m + 1 THEN x ELSE p[k]]
  <2>5. \A k \in 1..m : k \in 1..m + 1 /\ q[k] = p[k] /\ q[k] \in U
    BY <2>4 DEF Sorts
  <2>6. q[m + 1] = x /\ m + 1 \in 1..m + 1 /\ \A k \in 1..m + 1 : k = m + 1 \/ k \in 1..m
    OBVIOUS
  <2>7. q \in [1..m + 1 -> T]
    BY <2>5, <2>6
  <2>8. \A j, k \in 1..m + 1 : q[j] = q[k] => j = k
    BY <2>4, <2>5, <2>6 DEF Sorts
  <2>9. \A y \in T : \E k \in 1..m + 1 : q[k] = y
    <3>1. TAKE y \in T
    <3>2. CASE y = x
      BY <2>6, <3>2
    <3>3. CASE y \in U
      <4>1. PICK k \in 1..m : p[k] = y
        BY <2>4, <3>3 DEF Sorts
      <4>2. QED
        BY <2>5, <4>1
    <3>4. QED
      BY <3>2, <3>3
  <2>10. \A k \in 1..m + 1 : \A j \in 1..k - 1 : <<q[k], q[j]>> \notin R
    <3>1. TAKE k \in 1..m + 1
    <3>2. TAKE j \in 1..k - 1
    <3>3. j \in 1..m
      OBVIOUS
    <3>4. CASE k = m + 1
      BY <2>2, <2>5, <2>6, <3>3, <3>4
    <3>5. CASE k \in 1..m
      BY <2>4, <2>5, <3>3, <3>5 DEF Sorts
    <3>6. QED
      BY <3>4, <3>5
  <2>11. QED
    <3> HIDE DEF q
    <3>1. Sorts(q, m + 1, T, R)
      BY <2>7, <2>8, <2>9, <2>10 DEF Sorts
    <3>2. QED
      BY <3>1
<1>5. 0..n \subseteq G
  <2> HIDE DEF G
  <2>1. \A k \in 0..n - 1 : k \in G => k + 1 \in G
    BY <1>4
  <2>2. QED
    BY <1>3, <2>1, CountUp
<1>6. QED
  BY <1>1, <1>5

-----------------------------------------------------------------------------
(* Densities.                                                               *)

(* What a second counts for is a fraction.                                  *)
Fraction == [sum : Nat, width : Nat \ {0}]

LEMMA ProductOrder ==
    ASSUME NEW a \in Int, NEW b \in Int, NEW w \in Nat \ {0}
    PROVE  (a * w >= b * w <=> a >= b) /\ a * w \in Int
OBVIOUS

LEMMA ProductsSwap ==
    ASSUME NEW x \in Int, NEW y \in Int, NEW z \in Int
    PROVE  (x * y) * z = (x * z) * y
OBVIOUS

(* Of two that are not behind, the outer is not behind.                     *)
LEMMA ProductChain ==
    ASSUME NEW as \in Nat, NEW aw \in Nat \ {0}, NEW bs \in Nat, NEW bw \in Nat \ {0},
           NEW cs \in Nat, NEW cw \in Nat \ {0},
           as * bw >= bs * aw, bs * cw >= cs * bw
    PROVE  /\ as * cw >= cs * aw
           /\ as * bw > bs * aw \/ bs * cw > cs * bw => as * cw > cs * aw
<1> DEFINE p == as * bw
           q == bs * aw
           r == bs * cw
           s == cs * bw
           u == as * cw
           v == cs * aw
<1>1. p \in Int /\ q \in Int /\ r \in Int /\ s \in Int /\ u \in Int /\ v \in Int
  OBVIOUS
<1>2. p * cw = u * bw /\ q * cw = r * aw /\ s * aw = v * bw
  <2>1. as \in Int /\ aw \in Int /\ bs \in Int /\ bw \in Int /\ cs \in Int /\ cw \in Int
    OBVIOUS
  <2>2. p * cw = u * bw
    BY <2>1, ProductsSwap, Zenon
  <2>3. q * cw = r * aw
    BY <2>1, ProductsSwap, Zenon
  <2>4. s * aw = v * bw
    BY <2>1, ProductsSwap, Zenon
  <2>5. QED
    BY <2>2, <2>3, <2>4, Zenon
<1>3. p >= q /\ r >= s
  OBVIOUS
<1> HIDE DEF p, q, r, s, u, v
<1>4. p * cw \in Int /\ q * cw \in Int /\ s * aw \in Int
  BY <1>1
<1>5. p * cw >= q * cw /\ (p > q => p * cw > q * cw)
  BY <1>1, <1>3, ProductOrder
<1>6. r * aw >= s * aw /\ (r > s => r * aw > s * aw)
  BY <1>1, <1>3, ProductOrder
<1>7. u * bw >= v * bw => u >= v
  BY <1>1, ProductOrder
<1>8. v * bw >= u * bw => v >= u
  BY <1>1, ProductOrder
<1>9. u * bw >= v * bw /\ (p > q \/ r > s => ~(v * bw >= u * bw))
  BY <1>2, <1>4, <1>5, <1>6
<1>10. v >= u => v * bw >= u * bw
  BY <1>1, ProductOrder
<1>11. u >= v /\ (p > q \/ r > s => u > v)
  BY <1>1, <1>7, <1>9, <1>10
<1>12. QED
  BY <1>11 DEF p, q, r, s, u, v

LEMMA DenserTransitive ==
    ASSUME NEW a \in Fraction, NEW b \in Fraction, NEW c \in Fraction,
           ~Denser(b, a), ~Denser(c, b)
    PROVE  ~Denser(c, a) /\ (Denser(a, b) \/ Denser(b, c) => Denser(a, c))
<1>1. /\ a.sum \in Nat /\ b.sum \in Nat /\ c.sum \in Nat
      /\ a.width \in Nat \ {0} /\ b.width \in Nat \ {0} /\ c.width \in Nat \ {0}
  BY DEF Fraction
<1>2. \A r, w \in Nat : r * w \in Int
  OBVIOUS
<1>3. a.sum * b.width >= b.sum * a.width /\ b.sum * c.width >= c.sum * b.width
  BY <1>1, <1>2 DEF Denser
<1>4. /\ a.sum * c.width >= c.sum * a.width
      /\ a.sum * b.width > b.sum * a.width \/ b.sum * c.width > c.sum * b.width =>
            a.sum * c.width > c.sum * a.width
  BY <1>1, <1>3, ProductChain
<1>5. QED
  BY <1>1, <1>2, <1>4 DEF Denser

LEMMA TwoNumbers ==
    ASSUME NEW a \in Int, NEW b \in Int
    PROVE  /\ Max({a, b}) = IF a >= b THEN a ELSE b
           /\ Min({a, b}) = IF a <= b THEN a ELSE b
<1>1. \A x, y \in {a, b} : (\A z \in {a, b} : x >= z) /\ (\A z \in {a, b} : y >= z) => x = y
  OBVIOUS
<1>2. \A x, y \in {a, b} : (\A z \in {a, b} : x <= z) /\ (\A z \in {a, b} : y <= z) => x = y
  OBVIOUS
<1>3. Max({a, b}) \in {a, b} /\ \A z \in {a, b} : Max({a, b}) >= z
  <2>1. \E x \in {a, b} : \A z \in {a, b} : x >= z
    OBVIOUS
  <2>2. QED
    BY <2>1 DEF Max
<1>4. Min({a, b}) \in {a, b} /\ \A z \in {a, b} : Min({a, b}) <= z
  <2>1. \E x \in {a, b} : \A z \in {a, b} : x <= z
    OBVIOUS
  <2>2. QED
    BY <2>1 DEF Min
<1>5. QED
  BY <1>3, <1>4

(* A recording that lasts n seconds.                                        *)
Lasting(n, d) == n \in Nat \ {0} /\ d \in [0..n -> Nat] /\ Lasts(d) = n

LEMMA RecordingLasts ==
    ASSUME NEW d \in Densities
    PROVE  Lasting(Lasts(d), d)
BY PipelineAssumption DEF Lasting

LEMMA SumIsCount ==
    ASSUME NEW n, NEW d, Lasting(n, d), NEW T \in SUBSET (0..n)
    PROVE  SumFunctionOnSet(d, T) \in Nat
<1> DEFINE P == [s \in SUBSET T |-> CHOOSE x \in s : TRUE]
           F == [p \in T \X Nat |-> d[p[1]] + p[2]]
           Fold(h) == h = [s \in SUBSET T |->
                             IF s = {} THEN 0
                             ELSE d[CHOOSE x \in s : TRUE] + h[s \ {CHOOSE x \in s : TRUE}]]
           h == CHOOSE h : Fold(h)
<1>1. F \in [T \X Nat -> Nat]
  <2>1. ASSUME NEW c \in T, NEW x \in Nat
        PROVE  d[c] + x \in Nat
    BY DEF Lasting
  <2>2. QED
    BY <2>1
<1>2. \A s \in SUBSET T : s # {} => P[s] \in T /\ P[s] \in s /\ s \ {P[s]} \in SUBSET T
  OBVIOUS
<1>3. Picks(T, P) /\ IsFiniteSet(T)
  <2>1. IsFiniteSet(0..n)
    BY FS_Interval DEF Lasting
  <2>2. IsFiniteSet(T)
    BY <2>1, FS_Subset
  <2>3. Picks(T, P)
    BY <1>2 DEF Picks
  <2>4. QED
    BY <2>2, <2>3
<1>4. Fold(h)
  <2>1. PICK g \in [SUBSET T -> Nat] : Computes(T, 0, F, P, g)
    <3> HIDE DEF F, P
    <3>1. QED
      BY <1>1, <1>3, FoldExists
  <2>2. \A s \in SUBSET T : s # {} =>
           F[<<P[s], g[s \ {P[s]}]>>] = d[P[s]] + g[s \ {P[s]}]
    <3>1. \A c \in T, x \in Nat : F[<<c, x>>] = d[c] + x
      OBVIOUS
    <3> HIDE DEF F, P
    <3>2. \A s \in SUBSET T : s # {} => P[s] \in T /\ g[s \ {P[s]}] \in Nat
      BY <1>2, <2>1
    <3>3. QED
      BY <3>1, <3>2
  <2>3. \A s \in SUBSET T : g[s] = IF s = {} THEN 0 ELSE d[P[s]] + g[s \ {P[s]}]
    BY <2>1, <2>2 DEF Computes
  <2>4. Fold(g)
    BY <2>1, <2>3
  <2>5. QED
    BY <2>4
<1>5. SumFunctionOnSet(d, T) = h[T]
  BY DEF SumFunctionOnSet, FoldFunctionOnSet, MapThenFoldSet
<1>6. FoldsTo(T, Nat, 0, F, P, h)
  <2>1. h[{}] = 0
    BY <1>4
  <2>2. \A s \in SUBSET T : s # {} => h[s] = d[P[s]] + h[s \ {P[s]}]
    BY <1>4
  <2>3. \A c \in T, x \in Nat : F[<<c, x>>] = d[c] + x
    OBVIOUS
  <2> HIDE DEF F, P, h
  <2>4. \A s \in SUBSET T : s # {} /\ h[s \ {P[s]}] \in Nat =>
           h[s] = F[<<P[s], h[s \ {P[s]}]>>]
    BY <1>2, <2>2, <2>3
  <2>5. QED
    BY <2>1, <2>4 DEF FoldsTo
<1>7. h[T] \in Nat
  <2> HIDE DEF F, P, h
  <2>1. QED
    BY <1>1, <1>3, <1>6, FoldStays
<1>8. QED
  BY <1>5, <1>7

LEMMA LocalIsFraction ==
    ASSUME NEW n, NEW d, Lasting(n, d), NEW i \in 0..n
    PROVE  Local(d, i) \in Fraction
<1> DEFINE low == Max({0, i - HalfWindow})
           high == Min({n, i + HalfWindow})
<1>1. /\ low \in 0..n /\ high \in 0..n /\ low <= high
  <2>1. n \in Nat /\ HalfWindow \in Nat
    BY DetectorAssumption DEF Lasting
  <2>2. low = IF 0 >= i - HalfWindow THEN 0 ELSE i - HalfWindow
    BY <2>1, TwoNumbers
  <2>3. high = IF n <= i + HalfWindow THEN n ELSE i + HalfWindow
    BY <2>1, TwoNumbers
  <2> HIDE DEF low, high
  <2>4. QED
    BY <2>1, <2>2, <2>3
<1>2. Cardinality(low..high) \in Nat \ {0}
  <2> HIDE DEF low, high
  <2>1. low \in Int /\ high \in Int /\ low <= high
    BY <1>1
  <2>2. Cardinality(low..high) = high - low + 1
    BY <2>1, FS_Interval
  <2>3. QED
    BY <2>1, <2>2
<1>3. SumFunctionOnSet(d, low..high) \in Nat
  <2> HIDE DEF low, high
  <2>1. low..high \in SUBSET (0..n)
    BY <1>1 DEF Lasting
  <2>2. QED
    BY <2>1, SumIsCount
<1>4. Local(d, i) = [sum |-> SumFunctionOnSet(d, low..high), width |-> Cardinality(low..high)]
  BY DEF Local, Lasting
<1>5. QED
  BY <1>2, <1>3, <1>4 DEF Fraction

-----------------------------------------------------------------------------
(* The window around a burst.                                               *)

Burst(n) == {b \in [from : Nat, to : Nat] : b.from < b.to /\ b.to <= n + 1}

LEMMA PeakInBurst ==
    ASSUME NEW n, NEW d, Lasting(n, d), NEW b \in Burst(n)
    PROVE  Peak(d, b) \in b.from .. b.to - 1 /\ Peak(d, b) \in 0..n
<1> DEFINE First(i, m) == \A j \in b.from .. b.from + m :
                             d[j] <= d[i] /\ (d[j] = d[i] => i <= j)
           width == b.to - b.from - 1
           G == {m \in Nat : m <= width => \E i \in b.from .. b.from + m : First(i, m)}
<1>1. b.from \in Nat /\ b.to \in Nat /\ b.from < b.to /\ b.to <= n + 1 /\ n \in Nat /\ width \in Nat
  BY DEF Burst, Lasting
<1>2. \A j \in b.from .. b.to - 1 : d[j] \in Nat
  BY <1>1 DEF Lasting
<1>3. 0 \in G
  BY <1>1, <1>2
<1>4. ASSUME NEW m \in 0..width - 1, m \in G
      PROVE  m + 1 \in G
  <2>1. PICK i \in b.from .. b.from + m : First(i, m)
    BY <1>1, <1>4
  <2> DEFINE k == b.from + (m + 1)
  <2>2. k \in b.from .. b.to - 1 /\ i \in b.from .. b.to - 1 /\ i < k
    BY <1>1
  <2>3. \A j \in b.from .. k : j = k \/ j \in b.from .. b.from + m
    BY <1>1
  <2>4. CASE d[k] > d[i]
    <3>1. First(k, m + 1)
      BY <1>1, <1>2, <2>1, <2>2, <2>3, <2>4
    <3>2. QED
      BY <1>1, <3>1
  <2>5. CASE ~(d[k] > d[i])
    <3>1. First(i, m + 1)
      BY <1>1, <1>2, <2>1, <2>2, <2>3, <2>5
    <3>2. QED
      BY <1>1, <3>1
  <2>6. QED
    BY <2>4, <2>5
<1>5. width \in G
  <2> HIDE DEF G, width
  <2>1. QED
    BY <1>1, <1>3, <1>4, CountUp
<1>6. PICK i \in b.from .. b.to - 1 : First(i, width)
  BY <1>1, <1>5
<1>7. Peak(d, b) \in b.from .. b.to - 1
  <2>1. b.from .. b.from + width = b.from .. b.to - 1
    BY <1>1
  <2>2. QED
    BY <1>6, <2>1 DEF Peak
<1>8. QED
  BY <1>1, <1>7

LEMMA WithinBounds ==
    ASSUME NEW low \in Int, NEW x \in Int, NEW high \in Int, low <= high
    PROVE  /\ Within(low, x, high) \in low..high
           /\ x \in low..high => Within(low, x, high) = x
           /\ x < low => Within(low, x, high) = low
           /\ x > high => Within(low, x, high) = high
<1>1. Min({x, high}) = IF x <= high THEN x ELSE high
  BY TwoNumbers
<1>2. Min({x, high}) \in Int
  BY <1>1
<1>3. Within(low, x, high) = IF low >= Min({x, high}) THEN low ELSE Min({x, high})
  BY <1>2, TwoNumbers DEF Within
<1>4. QED
  BY <1>1, <1>3

LEMMA ShortOfTwo ==
    ASSUME NEW n \in Nat, NEW c \in Nat
    PROVE  Min({n, 2 * c}) = IF n >= 2 * c THEN 2 * c ELSE n
<1> DEFINE two == 2 * c
<1>1. two \in Int
  OBVIOUS
<1> HIDE DEF two
<1>2. Min({n, two}) = IF n <= two THEN n ELSE two
  BY <1>1, TwoNumbers
<1>3. QED
  BY <1>1, <1>2 DEF two

LEMMA WindowShape ==
    ASSUME NEW n \in Nat \ {0}, NEW anchor \in 0..n
    PROVE  LET w == Window(anchor, n)
           IN /\ w = [start |-> w.start, end |-> w.end]
              /\ \/ /\ anchor + Context > n /\ w.end = n
                    /\ w.start = IF n >= 2 * Context THEN n - 2 * Context ELSE 0
                 \/ /\ anchor + Context <= n /\ anchor < Context /\ w.start = 0
                    /\ w.end = IF n >= 2 * Context THEN 2 * Context ELSE n
                 \/ /\ anchor + Context <= n /\ anchor >= Context
                    /\ w.start = anchor - Context /\ w.end = anchor + Context
<1>1. Context \in Nat \ {0}
  BY DetectorAssumption
<1>2. Max({0, n - 2 * Context}) = IF n >= 2 * Context THEN n - 2 * Context ELSE 0
  BY <1>1, TwoNumbers
<1>3. Min({n, 2 * Context}) = IF n >= 2 * Context THEN 2 * Context ELSE n
  BY <1>1, ShortOfTwo
<1>4. CASE anchor + Context > n
  <2>1. Window(anchor, n) = [start |-> Max({0, n - 2 * Context}), end |-> n]
    BY <1>1, <1>4 DEF Window
  <2>2. QED
    BY <1>1, <1>2, <1>4, <2>1
<1>5. CASE anchor + Context <= n /\ anchor < Context
  BY <1>1, <1>3, <1>5 DEF Window
<1>6. CASE anchor + Context <= n /\ anchor >= Context
  BY <1>1, <1>6 DEF Window
<1>7. QED
  BY <1>1, <1>4, <1>5, <1>6

(* The core is a part of the window, and more than a moment if the window   *)
(* reaches the peak: from before it and to after it or to the end.          *)
LEMMA CoreInWindow ==
    ASSUME NEW n, NEW d, Lasting(n, d), NEW b \in Burst(n), NEW w,
           w.start \in 0..n, w.end \in 0..n, w.start < w.end
    PROVE  LET core == Core(d, b, w)
           IN /\ core[1] \in w.start .. w.end /\ core[2] \in core[1] .. w.end
              /\ /\ w.start <= Peak(d, b)
                 /\ Peak(d, b) < w.end \/ w.end = n
                 => core[1] < core[2]
<1> DEFINE peak == Peak(d, b)
           from == Within(0, b.from, n)
           to == Max({from, Min({b.to, n})})
           low == Max({w.start, peak - CoreReach})
           high == Min({w.end, peak + CoreReach})
           own == IF to > from THEN <<from, to>> ELSE <<low, high>>
           start == Within(w.start, own[1], w.end)
           end == Max({start, Min({w.end, own[2]})})
<1>1. /\ n \in Nat \ {0} /\ b.from \in Nat /\ b.to \in Nat /\ b.from < b.to /\ b.to <= n + 1
      /\ peak \in b.from .. b.to - 1 /\ peak \in 0..n
      /\ CoreReach \in Nat \ {0} /\ w.start \in Int /\ w.end \in Int
      /\ 0 <= w.start /\ w.start < w.end /\ w.end <= n
  <2>1. peak \in b.from .. b.to - 1 /\ peak \in 0..n
    BY PeakInBurst
  <2>2. n \in Nat \ {0} /\ b.from \in Nat /\ b.to \in Nat /\ b.from < b.to /\ b.to <= n + 1
    BY DEF Burst, Lasting
  <2>3. CoreReach \in Nat \ {0}
    BY DetectorAssumption
  <2> HIDE DEF peak
  <2>4. QED
    BY <2>1, <2>2, <2>3
<1>2. Core(d, b, w) = <<start, end>>
  BY DEF Core, Lasting
<1> HIDE DEF peak
<1>3. from = b.from
  <2>1. b.from \in 0..n /\ 0 \in Int /\ n \in Int /\ 0 <= n /\ b.from \in Int
    BY <1>1
  <2>2. QED
    BY ONLY <2>1, WithinBounds DEF from
<1>4. to = IF b.to <= n THEN b.to ELSE n
  <2>1. Min({b.to, n}) = IF b.to <= n THEN b.to ELSE n
    BY <1>1, TwoNumbers
  <2>2. Min({b.to, n}) \in Int /\ b.from <= Min({b.to, n})
    BY <1>1, <2>1
  <2> DEFINE m == Min({b.to, n})
  <2> HIDE DEF m, from
  <2>3. Max({from, m}) = IF from >= m THEN from ELSE m
    <3>1. from \in Int /\ m \in Int
      BY <1>1, <1>3, <2>2 DEF m
    <3>2. QED
      BY <3>1, TwoNumbers
  <2>4. QED
    BY <1>1, <1>3, <2>1, <2>2, <2>3 DEF m
<1>5. low = IF w.start >= peak - CoreReach THEN w.start ELSE peak - CoreReach
  <2>1. peak - CoreReach \in Int /\ w.start \in Int
    BY <1>1
  <2>2. QED
    BY ONLY <2>1, TwoNumbers DEF low
<1>6. high = IF w.end <= peak + CoreReach THEN w.end ELSE peak + CoreReach
  <2>1. peak + CoreReach \in Int /\ w.end \in Int
    BY <1>1
  <2>2. QED
    BY ONLY <2>1, TwoNumbers DEF high
<1> HIDE DEF from, to, low, high
<1>7. own[1] \in Int /\ own[2] \in Int
  BY <1>1, <1>3, <1>4, <1>5, <1>6
<1>8. /\ own[1] = IF b.from < n THEN b.from ELSE low
      /\ own[2] = IF b.from < n THEN to ELSE high
  BY <1>1, <1>3, <1>4
<1> HIDE DEF own
<1>9. /\ start \in w.start .. w.end
      /\ own[1] < w.start => start = w.start
      /\ own[1] \in w.start .. w.end => start = own[1]
  <2>1. w.start \in Int /\ w.end \in Int /\ w.start <= w.end /\ own[1] \in Int
    BY <1>1, <1>7
  <2>2. QED
    BY ONLY <2>1, WithinBounds DEF start
<1> HIDE DEF start
<1>10. end = IF start >= (IF w.end <= own[2] THEN w.end ELSE own[2]) THEN start
             ELSE IF w.end <= own[2] THEN w.end ELSE own[2]
  <2> DEFINE m == Min({w.end, own[2]})
  <2>1. m = IF w.end <= own[2] THEN w.end ELSE own[2]
    BY <1>1, <1>7, TwoNumbers
  <2>2. m \in Int /\ start \in Int
    BY <1>1, <1>7, <1>9, <2>1
  <2> HIDE DEF m
  <2>3. Max({start, m}) = IF start >= m THEN start ELSE m
    BY <2>2, TwoNumbers
  <2>4. QED
    BY <2>1, <2>3 DEF m
<1> HIDE DEF end
<1>11. start \in w.start .. w.end /\ end \in start .. w.end
  BY <1>1, <1>7, <1>9, <1>10
<1>12. ASSUME w.start <= peak, peak < w.end \/ w.end = n
       PROVE  start < end
  <2>1. CASE b.from < n
    BY <1>1, <1>4, <1>7, <1>8, <1>9, <1>10, <1>12, <2>1
  <2>2. CASE b.from >= n
    BY <1>1, <1>5, <1>6, <1>7, <1>8, <1>9, <1>10, <1>12, <2>2
  <2>3. QED
    BY <1>1, <2>1, <2>2
<1>13. QED
  BY <1>2, <1>11, <1>12 DEF peak

LEMMA EventFits ==
    ASSUME NEW n, NEW d, Lasting(n, d), NEW b \in Burst(n)
    PROVE  LET e == Event(d, b)
           IN /\ e.start \in Int /\ e.end \in Int /\ e.burst = b /\ e.density \in Fraction
              /\ e.core[1] \in Int /\ e.core[2] \in Int
              /\ Fits(d, e)
<1> DEFINE peak == Peak(d, b)
           anchor == Max({0, peak - Lag})
           w == Window(anchor, n)
           e == Event(d, b)
<1>1. n \in Nat \ {0} /\ peak \in 0..n /\ Context \in Nat \ {0} /\ Lag \in Nat
  BY PeakInBurst, DetectorAssumption DEF Lasting
<1>2. e = [start |-> w.start, end |-> w.end, core |-> Core(d, b, w),
           burst |-> b, density |-> Local(d, peak)]
  BY DEF Event, Lasting
<1>3. e.density \in Fraction
  BY <1>1, <1>2, LocalIsFraction
<1> HIDE DEF peak
<1>4. anchor = IF 0 >= peak - Lag THEN 0 ELSE peak - Lag
  BY <1>1, TwoNumbers
<1>5. anchor \in 0..n
  BY <1>1, <1>4
<1> HIDE DEF anchor
<1>6. \/ /\ anchor + Context > n /\ w.end = n
         /\ w.start = IF n >= 2 * Context THEN n - 2 * Context ELSE 0
      \/ /\ anchor + Context <= n /\ anchor < Context /\ w.start = 0
         /\ w.end = IF n >= 2 * Context THEN 2 * Context ELSE n
      \/ /\ anchor + Context <= n /\ anchor >= Context
         /\ w.start = anchor - Context /\ w.end = anchor + Context
  BY <1>1, <1>5, WindowShape
<1> HIDE DEF w
<1>7. /\ w.start \in 0..n /\ w.end \in 0..n /\ w.start < w.end
      /\ w.end - w.start = IF n >= 2 * Context THEN 2 * Context ELSE n
  BY <1>1, <1>5, <1>6
<1>8. Min({n, 2 * Context}) = IF n >= 2 * Context THEN 2 * Context ELSE n
  BY <1>1, ShortOfTwo
<1> DEFINE core == Core(d, b, w)
<1>9. /\ core[1] \in w.start .. w.end /\ core[2] \in core[1] .. w.end
      /\ w.start <= peak /\ (peak < w.end \/ w.end = n) => core[1] < core[2]
  BY <1>7, CoreInWindow DEF peak
<1> HIDE DEF core
<1>10. Lag < Context => w.start <= peak /\ (peak < w.end \/ w.end = n)
  BY <1>1, <1>4, <1>5, <1>6
<1>11. e.core = core /\ e.start = w.start /\ e.end = w.end /\ e.burst = b
  BY <1>2 DEF core
<1> HIDE DEF e
<1>12. Fits(d, e)
  BY <1>1, <1>7, <1>8, <1>9, <1>10, <1>11 DEF Fits, Lasting
<1>13. e.core[1] \in Int /\ e.core[2] \in Int
  BY <1>7, <1>9, <1>11
<1>14. QED
  BY <1>3, <1>7, <1>11, <1>12, <1>13 DEF e

(* A window shows every second up to a context from its anchor.             *)
LEMMA EventReaches ==
    ASSUME NEW n, NEW d, Lasting(n, d), NEW b \in Burst(n), NEW i \in 0..n
    PROVE  LET e == Event(d, b)
               anchor == Max({0, Peak(d, b) - Lag})
           IN /\ e.burst = b
              /\ i \in anchor - Context .. anchor + Context => i \in e.start .. e.end
<1> DEFINE peak == Peak(d, b)
           anchor == Max({0, peak - Lag})
           w == Window(anchor, n)
           e == Event(d, b)
<1>1. n \in Nat \ {0} /\ peak \in 0..n /\ Context \in Nat \ {0} /\ Lag \in Nat
  BY PeakInBurst, DetectorAssumption DEF Lasting
<1>2. e.start = w.start /\ e.end = w.end /\ e.burst = b
  BY DEF Event, Lasting
<1> HIDE DEF peak, e
<1>3. anchor = IF 0 >= peak - Lag THEN 0 ELSE peak - Lag
  BY <1>1, TwoNumbers
<1>4. anchor \in 0..n
  BY <1>1, <1>3
<1> HIDE DEF anchor
<1>5. \/ /\ anchor + Context > n /\ w.end = n
         /\ w.start = IF n >= 2 * Context THEN n - 2 * Context ELSE 0
      \/ /\ anchor + Context <= n /\ anchor < Context /\ w.start = 0
         /\ w.end = IF n >= 2 * Context THEN 2 * Context ELSE n
      \/ /\ anchor + Context <= n /\ anchor >= Context
         /\ w.start = anchor - Context /\ w.end = anchor + Context
  BY <1>1, <1>4, WindowShape
<1> HIDE DEF w
<1>6. i \in anchor - Context .. anchor + Context => i \in w.start .. w.end
  BY <1>1, <1>4, <1>5
<1>7. QED
  BY <1>2, <1>6 DEF anchor, peak, e

-----------------------------------------------------------------------------
(* Bursts.                                                                  *)

Strips(n, list) ==
    /\ list \in Seq(Burst(n))
    /\ \A k \in DOMAIN list : \A j \in 1..k - 1 : list[j].to <= list[k].from

Shows(list, i) == \E k \in DOMAIN list : i \in list[k].from .. list[k].to - 1

LEMMA StripsAppend ==
    ASSUME NEW n \in Nat, NEW list, Strips(n, list), NEW b \in Burst(n),
           \A k \in DOMAIN list : list[k].to <= b.from
    PROVE  /\ Strips(n, Append(list, b))
           /\ \A k \in DOMAIN list : k \in DOMAIN Append(list, b) /\ Append(list, b)[k] = list[k]
           /\ \A k \in DOMAIN Append(list, b) : k \in DOMAIN list \/ Append(list, b)[k] = b
           /\ \A i \in Int : Shows(Append(list, b), i) <=>
                              Shows(list, i) \/ i \in b.from .. b.to - 1
<1> DEFINE more == Append(list, b)
<1>1. list \in Seq(Burst(n)) /\ DOMAIN list = 1..Len(list) /\ Len(list) \in Nat
  BY DEF Strips
<1>2. /\ more \in Seq(Burst(n)) /\ DOMAIN more = 1..Len(list) + 1
      /\ \A k \in 1..Len(list) : more[k] = list[k]
      /\ more[Len(list) + 1] = b
  BY <1>1
<1> HIDE DEF more
<1>3. \A k \in DOMAIN list : k \in DOMAIN more /\ more[k] = list[k]
  BY <1>1, <1>2
<1>4. \A k \in DOMAIN more : k \in DOMAIN list \/ k = Len(list) + 1
  BY <1>1, <1>2
<1>5. Strips(n, more)
  <2>1. ASSUME NEW k \in DOMAIN more, NEW j \in 1..k - 1
        PROVE  more[j].to <= more[k].from
    <3>1. j \in DOMAIN list
      BY <1>1, <1>4
    <3>2. CASE k \in DOMAIN list
      BY <1>3, <3>1, <3>2 DEF Strips
    <3>3. CASE k = Len(list) + 1
      BY <1>2, <1>3, <3>1, <3>3
    <3>4. QED
      BY <1>4, <3>2, <3>3
  <2>2. QED
    BY <1>2, <2>1 DEF Strips
<1>6. Len(list) + 1 \in DOMAIN more
  BY <1>1, <1>2
<1>7. ASSUME NEW i \in Int
      PROVE  Shows(more, i) <=> Shows(list, i) \/ i \in b.from .. b.to - 1
  BY <1>2, <1>3, <1>4, <1>6 DEF Shows
<1>8. QED
  BY <1>2, <1>3, <1>4, <1>5, <1>7 DEF more

Scan == [open : BOOLEAN, from : Nat, found : Seq([from : Nat, to : Nat])]
NoScan == [open |-> FALSE, from |-> 0, found |-> <<>>]

LEMMA ScanWalk ==
    ASSUME NEW n, NEW d, Lasting(n, d)
    PROVE  \E made \in [0..n + 1 -> Scan] :
              /\ made[0] = NoScan
              /\ \A k \in 1..n + 1 : made[k] = ScanSecond(Bursting(d), made[k - 1], k - 1)
              /\ LET end == made[n + 1]
                 IN Segments(d) = IF end.open
                                  THEN Append(end.found, [from |-> end.from, to |-> n + 1])
                                  ELSE end.found
<1> DEFINE m == n + 1
           S == 1..m
           flagged == Bursting(d)
           F == [p \in S \X Scan |-> ScanSecond(flagged, p[2], p[1] - 1)]
           all == [k \in S |-> k - 1]
           Fold(h) == h = [s \in SUBSET S |->
                             IF s = {} THEN NoScan
                             ELSE ScanSecond(flagged, h[s \ {Max(s)}], all[Max(s)])]
           h == CHOOSE h : Fold(h)
<1>1. n \in Nat /\ m \in Nat /\ Seconds(d) = m
  <2>1. n \in Nat /\ DOMAIN d = 0..n
    BY DEF Lasting
  <2>2. Cardinality(0..n) = n + 1
    BY <2>1, FS_Interval
  <2>3. QED
    BY <2>1, <2>2 DEF Seconds
<1>2. \A scan \in Scan, i \in Nat : ScanSecond(flagged, scan, i) \in Scan
  <2>1. TAKE scan \in Scan, i \in Nat
  <2>2. Append(scan.found, [from |-> scan.from, to |-> i]) \in Seq([from : Nat, to : Nat])
    BY DEF Scan
  <2>3. QED
    BY <2>2 DEF ScanSecond, Scan
<1>3. F \in [S \X Scan -> Scan]
  <2> HIDE DEF flagged
  <2>1. \A k \in S : k - 1 \in Nat
    BY <1>1
  <2>2. QED
    BY <1>2, <2>1
<1>4. \A s \in SUBSET S : s # {} => Max(s) \in S /\ s \ {Max(s)} \in SUBSET S
  <2> HIDE DEF m
  <2>1. QED
    BY <1>1, MaxOf
<1>5. NoScan \in Scan
  BY DEF NoScan, Scan
<1>6. Fold(h)
  <2>1. PICK g \in [SUBSET S -> Scan] : Computes(S, NoScan, F, Greatest(m), g)
    <3> HIDE DEF F, m
    <3>1. QED
      BY <1>1, <1>3, <1>5, WalkExists
  <2> HIDE DEF flagged, m
  <2>2. \A s \in SUBSET S : s # {} =>
           F[<<Max(s), g[s \ {Max(s)}]>>] = ScanSecond(flagged, g[s \ {Max(s)}], all[Max(s)])
    <3>1. \A k \in S, y \in Scan : F[<<k, y>>] = ScanSecond(flagged, y, all[k])
      OBVIOUS
    <3> HIDE DEF F, all
    <3>2. \A s \in SUBSET S : s # {} => Max(s) \in S /\ g[s \ {Max(s)}] \in Scan
      BY <1>4, <2>1
    <3>3. QED
      BY <3>1, <3>2
  <2>3. \A s \in SUBSET S :
           g[s] = IF s = {} THEN NoScan ELSE ScanSecond(flagged, g[s \ {Max(s)}], all[Max(s)])
    <3> HIDE DEF F, all
    <3>1. QED
      BY <2>1, <2>2 DEF Computes, Greatest
  <2>4. Fold(g)
    BY <2>1, <2>3
  <2>5. QED
    BY <2>4
<1>7. Segments(d) = IF h[S].open THEN Append(h[S].found, [from |-> h[S].from, to |-> m])
                    ELSE h[S].found
  BY <1>1, <1>4 DEF Segments, FoldLeft, MapThenFoldSet, NoScan
<1>8. FoldsTo(S, Scan, NoScan, F, Greatest(m), h)
  BY <1>4, <1>6 DEF FoldsTo, Greatest
<1>9. Passes(m, Scan, NoScan, F, Stages(m, h)) /\ Stages(m, h)[m] = h[S]
  <2>1. /\ m \in Nat /\ NoScan \in Scan /\ F \in [(1..m) \X Scan -> Scan]
        /\ FoldsTo(1..m, Scan, NoScan, F, Greatest(m), h)
    BY <1>1, <1>3, <1>5, <1>8
  <2> HIDE DEF F, h, m
  <2>2. QED
    BY ONLY <2>1, FoldWalks
<1>10. \A k \in 1..m : Stages(m, h)[k] = ScanSecond(flagged, Stages(m, h)[k - 1], k - 1)
  <2> HIDE DEF h, flagged
  <2>1. \A k \in 1..m : k - 1 \in 0..m
    BY <1>1
  <2>2. QED
    BY <1>9, <2>1 DEF Passes
<1>11. QED
  <2> HIDE DEF h, F
  <2>1. QED
    BY <1>7, <1>9, <1>10 DEF Passes

(* After the seconds before k: what was found ends by then, an open burst    *)
(* starts after it, and every bursting second is in one of them.            *)
Scanned(n, d, k, scan) ==
    /\ Strips(n, scan.found)
    /\ \A j \in DOMAIN scan.found : scan.found[j].to <= k
    /\ scan.open =>
          /\ scan.from < k
          /\ \A j \in DOMAIN scan.found : scan.found[j].to <= scan.from
    /\ \A i \in Bursting(d) \cap 0..k - 1 :
          Shows(scan.found, i) \/ (scan.open /\ scan.from <= i)

LEMMA ScanStep ==
    ASSUME NEW n, NEW d, Lasting(n, d), NEW k \in 0..n, NEW scan \in Scan, Scanned(n, d, k, scan)
    PROVE  Scanned(n, d, k + 1, ScanSecond(Bursting(d), scan, k))
<1> DEFINE flagged == Bursting(d)
           next == ScanSecond(flagged, scan, k)
<1>1. n \in Nat /\ k \in Nat /\ k <= n
  BY DEF Lasting
<1>2. /\ scan.found \in Seq(Burst(n)) /\ scan.from \in Nat
      /\ scan = [open |-> scan.open, from |-> scan.from, found |-> scan.found]
  BY DEF Scanned, Strips, Scan
<1>3. \A j \in DOMAIN scan.found : scan.found[j].to \in Nat /\ scan.found[j].from \in Nat
  BY <1>2 DEF Burst
<1>4. flagged \subseteq 0..n
  BY DEF Bursting, Lasting
<1> SUFFICES Scanned(n, d, k + 1, next)
  OBVIOUS
<1> HIDE DEF flagged, next
<1>5. \A i \in flagged \cap 0..k : i = k \/ i \in flagged \cap 0..k - 1
  BY <1>1
<1>6. CASE k \in flagged /\ ~scan.open
  <2>1. next.found = scan.found /\ next.open /\ next.from = k
    BY <1>2, <1>6 DEF ScanSecond, next
  <2>2. \A j \in DOMAIN next.found : next.found[j].to <= next.from /\ next.found[j].to <= k + 1
    BY <1>1, <1>3, <2>1 DEF Scanned
  <2>3. ASSUME NEW i \in Bursting(d) \cap 0..(k + 1) - 1
        PROVE  Shows(next.found, i) \/ next.from <= i
    <3>1. i = k \/ i \in flagged \cap 0..k - 1
      BY <1>1, <1>5 DEF flagged
    <3>2. CASE i = k
      BY <1>1, <2>1, <3>2
    <3>3. CASE i \in flagged \cap 0..k - 1
      BY <1>6, <2>1, <3>3 DEF Scanned, flagged
    <3>4. QED
      BY <3>1, <3>2, <3>3
  <2>4. QED
    BY <1>1, <2>1, <2>2, <2>3 DEF Scanned
<1>7. CASE k \notin flagged /\ scan.open
  <2> DEFINE b == [from |-> scan.from, to |-> k]
  <2>1. next.found = Append(scan.found, b) /\ ~next.open
    BY <1>2, <1>7 DEF ScanSecond, next
  <2>2. b \in Burst(n) /\ \A j \in DOMAIN scan.found : scan.found[j].to <= b.from
    BY <1>1, <1>2, <1>7 DEF Scanned, Burst
  <2>3. b.to = k /\ b.from = scan.from
    OBVIOUS
  <2> HIDE DEF b
  <2>4. /\ Strips(n, next.found)
        /\ \A j \in DOMAIN next.found :
              \/ next.found[j] = b
              \/ j \in DOMAIN scan.found /\ next.found[j] = scan.found[j]
        /\ \A i \in Int : Shows(next.found, i) <=> Shows(scan.found, i) \/ i \in b.from .. b.to - 1
    <3>1. Strips(n, scan.found)
      BY DEF Scanned
    <3>2. QED
      BY <1>1, <2>1, <2>2, <3>1, StripsAppend
  <2>5. \A j \in DOMAIN next.found : next.found[j].to <= k + 1
    BY <1>1, <1>3, <2>3, <2>4 DEF Scanned
  <2>6. \A i \in flagged \cap 0..(k + 1) - 1 : Shows(next.found, i)
    <3>1. TAKE i \in flagged \cap 0..(k + 1) - 1
    <3>2. i \in flagged \cap 0..k - 1 /\ i \in Int
      BY <1>1, <1>5, <1>7
    <3>3. Shows(scan.found, i) \/ scan.from <= i
      BY <3>2 DEF Scanned, flagged
    <3>4. QED
      BY <1>1, <1>2, <2>3, <2>4, <3>2, <3>3
  <2>7. QED
    BY <2>1, <2>4, <2>5, <2>6 DEF Scanned, flagged
<1>8. CASE ~(k \in flagged /\ ~scan.open) /\ ~(k \notin flagged /\ scan.open)
  <2>1. next = scan
    BY <1>8 DEF ScanSecond, next
  <2>2. ASSUME NEW i \in flagged \cap 0..k
        PROVE  Shows(scan.found, i) \/ (scan.open /\ scan.from <= i)
    <3>1. CASE i = k
      <4>1. scan.open /\ scan.from < k
        BY <1>8, <3>1 DEF Scanned
      <4>2. QED
        BY <1>1, <1>2, <3>1, <4>1
    <3>2. CASE i \in flagged \cap 0..k - 1
      BY <3>2 DEF Scanned, flagged
    <3>3. QED
      BY <1>5, <3>1, <3>2
  <2>3. (k + 1) - 1 = k
    BY <1>1
  <2>4. (\A j \in DOMAIN scan.found : scan.found[j].to <= k + 1) /\ (scan.open => scan.from < k + 1)
    BY <1>1, <1>2, <1>3 DEF Scanned
  <2>5. QED
    BY <2>1, <2>2, <2>3, <2>4 DEF Scanned, flagged
<1>9. QED
  BY <1>6, <1>7, <1>8

LEMMA SegmentsShow ==
    ASSUME NEW n, NEW d, Lasting(n, d)
    PROVE  Strips(n, Segments(d)) /\ \A i \in Bursting(d) : Shows(Segments(d), i)
<1>1. PICK made \in [0..n + 1 -> Scan] :
              /\ made[0] = NoScan
              /\ \A k \in 1..n + 1 : made[k] = ScanSecond(Bursting(d), made[k - 1], k - 1)
              /\ LET end == made[n + 1]
                 IN Segments(d) = IF end.open
                                  THEN Append(end.found, [from |-> end.from, to |-> n + 1])
                                  ELSE end.found
  BY ScanWalk
<1> DEFINE G == {k \in Nat : Scanned(n, d, k, made[k])}
<1>2. n \in Nat
  BY DEF Lasting
<1>3. 0 \in G
  <2>1. NoScan.found = <<>> /\ ~NoScan.open
    BY DEF NoScan
  <2>2. Strips(n, <<>>)
    BY DEF Strips
  <2>3. Scanned(n, d, 0, NoScan)
    BY <2>1, <2>2 DEF Scanned
  <2>4. QED
    BY <1>1, <2>3
<1>4. ASSUME NEW k \in 0..n, k \in G
      PROVE  k + 1 \in G
  <2>1. made[k] \in Scan /\ k + 1 \in 1..n + 1 /\ (k + 1) - 1 = k
    BY <1>1, <1>2
  <2>2. made[k + 1] = ScanSecond(Bursting(d), made[k], k)
    BY <1>1, <2>1
  <2>3. Scanned(n, d, k + 1, made[k + 1])
    BY <1>4, <2>1, <2>2, ScanStep
  <2>4. QED
    BY <2>3
<1>5. n + 1 \in G
  <2> HIDE DEF G
  <2>1. \A k \in 0..(n + 1) - 1 : k \in G => k + 1 \in G
    BY <1>2, <1>4
  <2>2. n + 1 \in Nat
    BY <1>2
  <2>3. QED
    BY <1>3, <2>1, <2>2, CountUp
<1> DEFINE end == made[n + 1]
<1>6. Scanned(n, d, n + 1, end) /\ end \in Scan
  BY <1>1, <1>2, <1>5
<1>7. Bursting(d) \subseteq 0..n
  BY DEF Bursting, Lasting
<1> HIDE DEF end
<1>8. CASE end.open
  <2> DEFINE b == [from |-> end.from, to |-> n + 1]
  <2>1. b \in Burst(n) /\ \A j \in DOMAIN end.found : end.found[j].to <= b.from
    BY <1>2, <1>6, <1>8 DEF Scanned, Burst, Scan
  <2>2. b.from = end.from /\ b.to = n + 1 /\ end.from \in Nat
    BY <1>6 DEF Scan
  <2>3. Segments(d) = Append(end.found, b)
    BY <1>1, <1>8 DEF end
  <2> HIDE DEF b
  <2>4. /\ Strips(n, Segments(d))
        /\ \A i \in Int : Shows(Segments(d), i) <=> Shows(end.found, i) \/ i \in b.from .. b.to - 1
    BY <1>2, <1>6, <2>1, <2>3, StripsAppend DEF Scanned
  <2>5. \A i \in Bursting(d) : Shows(Segments(d), i)
    <3>1. TAKE i \in Bursting(d)
    <3>2. i \in 0..n /\ i \in Bursting(d) \cap 0..(n + 1) - 1
      BY <1>2, <1>7
    <3>3. Shows(end.found, i) \/ end.from <= i
      BY <1>6, <3>2 DEF Scanned
    <3>4. QED
      BY <1>2, <2>2, <2>4, <3>2, <3>3
  <2>6. QED
    BY <2>4, <2>5
<1>9. CASE ~end.open
  <2>1. Segments(d) = end.found
    BY <1>1, <1>9 DEF end
  <2>2. \A i \in Bursting(d) : i \in Bursting(d) \cap 0..(n + 1) - 1
    BY <1>2, <1>7
  <2>3. QED
    BY <1>6, <1>9, <2>1, <2>2 DEF Scanned
<1>10. QED
  BY <1>8, <1>9

Extended(list, b) == [list EXCEPT ![Len(list)].to = b.to]

LEMMA StripsExtend ==
    ASSUME NEW n \in Nat, NEW list, Strips(n, list), list # <<>>, NEW b \in Burst(n),
           \A k \in DOMAIN list : list[k].to <= b.from,
           NEW more, more = Extended(list, b)
    PROVE  /\ Strips(n, more)
           /\ \A k \in DOMAIN more : more[k].to <= b.to
           /\ \A i \in Int : Shows(list, i) \/ i \in b.from .. b.to - 1 => Shows(more, i)
<1> DEFINE last == Len(list)
           old == list[last]
           new == more[last]
<1>1. /\ list \in Seq(Burst(n)) /\ DOMAIN list = 1..last /\ last \in Nat \ {0} /\ old \in Burst(n)
      /\ b.from \in Nat /\ b.to \in Nat /\ b.from < b.to /\ b.to <= n + 1 /\ old.to <= b.from
  BY DEF Strips, Burst
<1>2. /\ DOMAIN more = 1..last /\ more \in Seq({list[k] : k \in 1..last} \cup {new})
      /\ \A k \in 1..last : k # last => more[k] = list[k]
      /\ new = [old EXCEPT !.to = b.to]
  BY <1>1 DEF Extended
<1>3. /\ old = [from |-> old.from, to |-> old.to]
      /\ old.from \in Nat /\ old.to \in Nat /\ old.from < old.to
  BY <1>1 DEF Burst
<1>4. new = [from |-> old.from, to |-> b.to]
  BY <1>2, <1>3
<1>5. new \in Burst(n)
  BY <1>1, <1>3, <1>4 DEF Burst
<1> HIDE DEF old, new, last
<1>6. \A k \in 1..last : more[k] \in Burst(n) /\ list[k] \in Burst(n)
  BY <1>1, <1>2, <1>5 DEF new
<1>7. more \in Seq(Burst(n))
  <2>1. more = [k \in 1..last |-> more[k]]
    BY <1>2
  <2>2. QED
    BY <1>1, <1>6, <2>1
<1>8. \A k \in 1..last : more[k].from = list[k].from /\ (k # last => more[k].to = list[k].to)
  BY <1>2, <1>4 DEF new, old
<1>9. more[last].to = b.to /\ list[last].to <= b.from
  BY <1>1, <1>4 DEF new, old
<1>10. \A k \in 1..last : list[k].from \in Nat /\ list[k].to \in Nat /\ list[k].to <= b.from
  BY <1>1, <1>6 DEF Burst
<1>11. \A k \in 1..last : \A j \in 1..k - 1 : more[j].to <= more[k].from
  <2>1. TAKE k \in 1..last
  <2>2. TAKE j \in 1..k - 1
  <2>3. j \in 1..last /\ j # last
    BY <1>1
  <2>4. list[j].to <= list[k].from
    BY <1>1 DEF Strips
  <2>5. QED
    BY <1>8, <2>3, <2>4
<1>12. \A k \in DOMAIN more : more[k].to <= b.to
  BY <1>1, <1>2, <1>8, <1>9, <1>10
<1>13. ASSUME NEW i \in Int, Shows(list, i)
       PROVE  Shows(more, i)
  <2>1. PICK k \in 1..last : i \in list[k].from .. list[k].to - 1
    BY <1>1, <1>13 DEF Shows
  <2>2. i \in more[k].from .. more[k].to - 1
    <3>1. /\ list[k].from \in Nat /\ list[k].to \in Nat /\ list[k].to <= b.from
          /\ more[k].from = list[k].from
      BY <1>8, <1>10
    <3>2. more[k].to \in Nat /\ list[k].to <= more[k].to
      <4>1. CASE k = last
        BY ONLY <1>1, <1>9, <3>1, <4>1
      <4>2. CASE k # last
        BY <1>8, <3>1, <4>2
      <4>3. QED
        BY <4>1, <4>2
    <3>3. QED
      BY ONLY <2>1, <3>1, <3>2, i \in Int
  <2>3. QED
    BY <1>2, <2>2 DEF Shows
<1>14. ASSUME NEW i \in b.from .. b.to - 1
       PROVE  Shows(more, i)
  <2>1. more[last].from = old.from /\ old.from < b.from
    BY <1>1, <1>3, <1>8 DEF old
  <2>2. i \in more[last].from .. more[last].to - 1 /\ last \in DOMAIN more
    BY <1>1, <1>2, <1>3, <1>9, <2>1
  <2>3. QED
    BY <2>2 DEF Shows
<1>15. QED
  BY <1>2, <1>7, <1>11, <1>12, <1>13, <1>14 DEF Strips

Stretch == [from : Nat, to : Nat]

LEMMA JoinWalk ==
    ASSUME NEW segs, segs \in Seq(Stretch)
    PROVE  \E made \in [0..Len(segs) -> Seq(Stretch)] :
              /\ made[0] = <<>>
              /\ \A k \in 1..Len(segs) : made[k] = Join(made[k - 1], segs[k])
              /\ FoldLeft(Join, <<>>, segs) = made[Len(segs)]
<1> DEFINE m == Len(segs)
           S == 1..m
           Y == Seq(Stretch)
           F == [p \in S \X Y |-> Join(p[2], segs[p[1]])]
           Fold(h) == h = [s \in SUBSET S |->
                             IF s = {} THEN <<>> ELSE Join(h[s \ {Max(s)}], segs[Max(s)])]
           h == CHOOSE h : Fold(h)
<1>1. m \in Nat /\ DOMAIN segs = S /\ \A k \in S : segs[k] \in Stretch
  OBVIOUS
<1>2. ASSUME NEW merged \in Y, NEW segment \in Stretch
      PROVE  Join(merged, segment) \in Y
  <2>1. CASE merged # <<>> /\ segment.from - Last(merged).to <= MergeGap
    <3> DEFINE last == Len(merged)
               more == [merged EXCEPT ![last].to = segment.to]
    <3>1. last \in 1..Len(merged) /\ merged[last] \in Stretch
      BY <2>1
    <3>2. [merged[last] EXCEPT !.to = segment.to] \in Stretch
      BY <3>1 DEF Stretch
    <3>3. more \in Y
      BY <3>1, <3>2
    <3>4. QED
      BY <2>1, <3>3 DEF Join
  <2>2. CASE ~(merged # <<>> /\ segment.from - Last(merged).to <= MergeGap)
    BY <2>2 DEF Join
  <2>3. QED
    BY <2>1, <2>2
<1>3. F \in [S \X Y -> Y]
  <2> HIDE DEF Y, m
  <2>1. QED
    BY <1>1, <1>2
<1>4. \A s \in SUBSET S : s # {} => Max(s) \in S /\ s \ {Max(s)} \in SUBSET S
  <2> HIDE DEF m
  <2>1. QED
    BY <1>1, MaxOf
<1>5. <<>> \in Y
  OBVIOUS
<1>6. Fold(h)
  <2>1. PICK g \in [SUBSET S -> Y] : Computes(S, <<>>, F, Greatest(m), g)
    <3> HIDE DEF F, m, Y
    <3>1. QED
      BY <1>1, <1>3, <1>5, WalkExists
  <2> HIDE DEF m, Y
  <2>2. \A s \in SUBSET S : s # {} =>
           F[<<Max(s), g[s \ {Max(s)}]>>] = Join(g[s \ {Max(s)}], segs[Max(s)])
    <3>1. \A k \in S, y \in Y : F[<<k, y>>] = Join(y, segs[k])
      OBVIOUS
    <3> HIDE DEF F
    <3>2. \A s \in SUBSET S : s # {} => Max(s) \in S /\ g[s \ {Max(s)}] \in Y
      BY <1>4, <2>1
    <3>3. QED
      BY <3>1, <3>2
  <2>3. \A s \in SUBSET S :
           g[s] = IF s = {} THEN <<>> ELSE Join(g[s \ {Max(s)}], segs[Max(s)])
    <3> HIDE DEF F
    <3>1. QED
      BY <2>1, <2>2 DEF Computes, Greatest
  <2>4. Fold(g)
    BY <2>1, <2>3
  <2>5. QED
    BY <2>4
<1>7. FoldLeft(Join, <<>>, segs) = h[S]
  BY <1>1, <1>4 DEF FoldLeft, MapThenFoldSet
<1>8. FoldsTo(S, Y, <<>>, F, Greatest(m), h)
  BY <1>4, <1>6 DEF FoldsTo, Greatest
<1>9. Passes(m, Y, <<>>, F, Stages(m, h)) /\ Stages(m, h)[m] = h[S]
  <2>1. /\ m \in Nat /\ <<>> \in Y /\ F \in [(1..m) \X Y -> Y]
        /\ FoldsTo(1..m, Y, <<>>, F, Greatest(m), h)
    BY <1>1, <1>3, <1>5, <1>8
  <2> HIDE DEF F, h, m, Y
  <2>2. QED
    BY ONLY <2>1, FoldWalks
<1>10. \A k \in 1..m : Stages(m, h)[k] = Join(Stages(m, h)[k - 1], segs[k])
  <2> HIDE DEF h, Y
  <2>1. \A k \in 1..m : k - 1 \in 0..m
    BY <1>1
  <2>2. QED
    BY <1>9, <2>1 DEF Passes
<1>11. QED
  <2> HIDE DEF h, F
  <2>1. QED
    BY <1>7, <1>9, <1>10 DEF Passes

(* After k segments: what they show is shown, and ends before the others.   *)
Joined(n, segs, k, merged) ==
    /\ Strips(n, merged)
    /\ \A j \in DOMAIN merged : \A m \in k + 1..Len(segs) : merged[j].to <= segs[m].from
    /\ \A j \in 1..k : \A i \in segs[j].from .. segs[j].to - 1 : Shows(merged, i)

LEMMA JoinStep ==
    ASSUME NEW n \in Nat, NEW segs, Strips(n, segs), NEW k \in 0..Len(segs) - 1,
           NEW merged, Joined(n, segs, k, merged)
    PROVE  Joined(n, segs, k + 1, Join(merged, segs[k + 1]))
<1> DEFINE b == segs[k + 1]
           next == Join(merged, b)
<1>1. /\ segs \in Seq(Burst(n)) /\ k \in Nat /\ Len(segs) \in Nat /\ k + 1 \in 1..Len(segs)
      /\ DOMAIN segs = 1..Len(segs)
  BY DEF Strips
<1>2. b \in Burst(n) /\ b.from \in Nat /\ b.to \in Nat /\ b.from < b.to
  BY <1>1 DEF Burst
<1>3. \A m \in k + 2..Len(segs) : b.to <= segs[m].from /\ segs[m].from \in Nat
  <2>1. TAKE m \in k + 2..Len(segs)
  <2>2. m \in DOMAIN segs /\ k + 1 \in 1..m - 1
    BY <1>1
  <2>3. QED
    BY <1>1, <2>2 DEF Strips, Burst
<1>4. /\ Strips(n, merged) /\ merged \in Seq(Burst(n))
      /\ \A j \in DOMAIN merged : merged[j].to <= b.from
  BY <1>1 DEF Joined, Strips
<1>5. \A j \in DOMAIN merged : merged[j].to \in Nat
  BY <1>4 DEF Burst
<1> HIDE DEF b, next
<1>6. /\ Strips(n, next)
      /\ \A j \in DOMAIN next : next[j].to <= b.to /\ next[j].to \in Nat
      /\ \A i \in Int : Shows(merged, i) \/ i \in b.from .. b.to - 1 => Shows(next, i)
  <2>1. CASE merged # <<>> /\ b.from - Last(merged).to <= MergeGap
    <3>1. next = Extended(merged, b)
      BY <2>1 DEF next, Join, Extended
    <3>2. /\ Strips(n, next)
          /\ \A j \in DOMAIN next : next[j].to <= b.to
          /\ \A i \in Int : Shows(merged, i) \/ i \in b.from .. b.to - 1 => Shows(next, i)
      BY ONLY n \in Nat, <1>2, <1>4, <2>1, <3>1, StripsExtend
    <3>3. next \in Seq(Burst(n))
      BY <3>2 DEF Strips
    <3>4. \A j \in DOMAIN next : next[j] \in Burst(n)
      BY <3>3
    <3>5. \A j \in DOMAIN next : next[j].to \in Nat
      BY <3>4 DEF Burst
    <3>6. QED
      BY <3>2, <3>5
  <2>2. CASE ~(merged # <<>> /\ b.from - Last(merged).to <= MergeGap)
    <3>1. next = Append(merged, b)
      BY <2>2 DEF next, Join
    <3>2. /\ Strips(n, next)
          /\ \A j \in DOMAIN next :
                \/ next[j] = b
                \/ j \in DOMAIN merged /\ next[j] = merged[j]
          /\ \A i \in Int : Shows(next, i) <=> Shows(merged, i) \/ i \in b.from .. b.to - 1
      <4>1. /\ Strips(n, Append(merged, b))
            /\ \A j \in DOMAIN Append(merged, b) :
                  j \in DOMAIN merged \/ Append(merged, b)[j] = b
            /\ \A j \in DOMAIN merged : Append(merged, b)[j] = merged[j]
            /\ \A i \in Int : Shows(Append(merged, b), i) <=>
                               Shows(merged, i) \/ i \in b.from .. b.to - 1
        BY ONLY n \in Nat, <1>2, <1>4, StripsAppend
      <4> DEFINE more == Append(merged, b)
      <4> HIDE DEF more
      <4>2. next = more
        BY <3>1 DEF more
      <4>3. /\ Strips(n, more)
            /\ \A j \in DOMAIN more : j \in DOMAIN merged \/ more[j] = b
            /\ \A j \in DOMAIN merged : more[j] = merged[j]
            /\ \A i \in Int : Shows(more, i) <=> Shows(merged, i) \/ i \in b.from .. b.to - 1
        BY <4>1 DEF more
      <4>4. QED
        BY <4>2, <4>3
    <3>3. QED
      BY <1>2, <1>4, <1>5, <3>2
  <2>3. QED
    BY <2>1, <2>2
<1>7. \A j \in DOMAIN next : \A m \in k + 2..Len(segs) : next[j].to <= segs[m].from
  BY <1>2, <1>3, <1>6
<1>8. ASSUME NEW j \in 1..k + 1, NEW i \in segs[j].from .. segs[j].to - 1
      PROVE  Shows(next, i)
  <2>1. i \in Int /\ (j \in 1..k \/ j = k + 1)
    BY <1>1 DEF Burst
  <2>2. QED
    BY <1>6, <2>1 DEF Joined, b
<1>9. Joined(n, segs, k + 1, next)
  <2>1. (k + 1) + 1 = k + 2
    BY <1>1
  <2>2. QED
    BY <1>6, <1>7, <1>8, <2>1 DEF Joined
<1>10. QED
  BY <1>9 DEF next, b

LEMMA BurstsShow ==
    ASSUME NEW n, NEW d, Lasting(n, d)
    PROVE  Strips(n, Bursts(d)) /\ \A i \in Bursting(d) : Shows(Bursts(d), i)
<1> DEFINE segs == Segments(d)
<1>1. n \in Nat /\ Strips(n, segs) /\ \A i \in Bursting(d) : Shows(segs, i)
  BY SegmentsShow DEF Lasting
<1>2. /\ segs \in Seq(Burst(n)) /\ segs \in Seq(Stretch)
      /\ Len(segs) \in Nat /\ DOMAIN segs = 1..Len(segs)
  <2>1. segs \in Seq(Burst(n))
    BY <1>1 DEF Strips
  <2>2. Burst(n) \subseteq Stretch
    BY DEF Burst, Stretch
  <2> HIDE DEF segs
  <2>3. QED
    BY <2>1, <2>2
<1> HIDE DEF segs
<1>3. PICK made \in [0..Len(segs) -> Seq(Stretch)] :
              /\ made[0] = <<>>
              /\ \A k \in 1..Len(segs) : made[k] = Join(made[k - 1], segs[k])
              /\ FoldLeft(Join, <<>>, segs) = made[Len(segs)]
  BY <1>2, JoinWalk
<1> DEFINE G == {k \in Nat : Joined(n, segs, k, made[k])}
<1>4. 0 \in G
  <2>1. Strips(n, <<>>)
    BY DEF Strips
  <2>2. Joined(n, segs, 0, <<>>)
    BY <2>1 DEF Joined
  <2>3. QED
    BY <1>3, <2>2
<1>5. ASSUME NEW k \in 0..Len(segs) - 1, k \in G
      PROVE  k + 1 \in G
  <2>1. k + 1 \in 1..Len(segs) /\ (k + 1) - 1 = k
    BY <1>2
  <2>2. made[k + 1] = Join(made[k], segs[k + 1])
    BY <1>3, <2>1
  <2>3. Joined(n, segs, k + 1, made[k + 1])
    BY <1>1, <1>5, <2>2, JoinStep
  <2>4. QED
    BY <2>3
<1>6. Len(segs) \in G
  <2> HIDE DEF G
  <2>1. \A k \in 0..Len(segs) - 1 : k \in G => k + 1 \in G
    BY <1>5
  <2>2. 0..Len(segs) \subseteq G
    BY ONLY <1>2, <1>4, <2>1, CountUp
  <2>3. QED
    BY <1>2, <2>2
<1>7. Joined(n, segs, Len(segs), Bursts(d))
  BY <1>3, <1>6 DEF Bursts, segs
<1>8. ASSUME NEW i \in Bursting(d)
      PROVE  Shows(Bursts(d), i)
  <2>1. PICK k \in 1..Len(segs) : i \in segs[k].from .. segs[k].to - 1
    BY <1>1, <1>2 DEF Shows
  <2>2. QED
    BY <1>7, <2>1 DEF Joined
<1>9. QED
  BY <1>7, <1>8 DEF Joined

-----------------------------------------------------------------------------
(* Selection.                                                               *)

Rateable(e) == e.density \in Fraction /\ e.burst.from \in Nat

LEMMA DenserOneWay ==
    ASSUME NEW a \in Fraction, NEW b \in Fraction, Denser(a, b)
    PROVE  ~Denser(b, a)
<1>1. \A r, w \in Nat : r * w \in Int
  OBVIOUS
<1>2. a.sum \in Nat /\ b.sum \in Nat /\ a.width \in Nat /\ b.width \in Nat
  BY DEF Fraction
<1>3. a.sum * b.width \in Int /\ b.sum * a.width \in Int
  BY <1>1, <1>2
<1>4. QED
  BY <1>3 DEF Denser

LEMMA AheadIsOrder ==
    ASSUME NEW a, NEW b, NEW c, Rateable(a), Rateable(b), Rateable(c)
    PROVE  ~Ahead(a, a) /\ (Ahead(a, b) /\ Ahead(b, c) => Ahead(a, c))
<1>1. ~Ahead(a, a)
  BY DenserOneWay DEF Ahead, Rateable
<1>2. ASSUME Ahead(a, b), Ahead(b, c)
      PROVE  Ahead(a, c)
  <2>1. ~Denser(b.density, a.density) /\ ~Denser(c.density, b.density)
    BY <1>2, DenserOneWay DEF Ahead, Rateable
  <2>2. /\ ~Denser(c.density, a.density)
        /\ Denser(a.density, b.density) \/ Denser(b.density, c.density) =>
              Denser(a.density, c.density)
    BY <2>1, DenserTransitive DEF Rateable
  <2>3. QED
    BY <1>2, <2>2 DEF Ahead, Rateable
<1>3. QED
  BY <1>1, <1>2

LEMMA RankedIsSorted ==
    ASSUME NEW m \in Nat, NEW events, DOMAIN events = 1..m, \A k \in 1..m : Rateable(events[k])
    PROVE  /\ Ranked(events) \in Arranged(events)
           /\ \A k \in 1..m : \A j \in 1..k - 1 : ~Ahead(Ranked(events)[k], Ranked(events)[j])
<1> DEFINE R == {r \in (1..m) \X (1..m) : Ahead(events[r[1]], events[r[2]])}
<1>1. \A x \in 1..m : <<x, x>> \notin R
  BY AheadIsOrder
<1>2. \A x, y, z \in 1..m : <<x, y>> \in R /\ <<y, z>> \in R => <<x, z>> \in R
  <2>1. TAKE x, y, z \in 1..m
  <2>2. Ahead(events[x], events[y]) /\ Ahead(events[y], events[z]) => Ahead(events[x], events[z])
    BY AheadIsOrder
  <2>3. QED
    BY <2>2
<1>3. PICK p : Sorts(p, m, 1..m, R)
  <2> HIDE DEF R
  <2>1. QED
    BY <1>1, <1>2, SortExists
<1>4. p \in Bijection(DOMAIN events, DOMAIN events)
  BY <1>3 DEF Sorts, Bijection, Injection, Surjection, IsInjective
<1> DEFINE ranked == [k \in DOMAIN events |-> events[p[k]]]
<1>5. ranked \in Arranged(events)
  BY <1>4 DEF Arranged
<1>6. \A k \in DOMAIN ranked : \A j \in 1..k - 1 : ~Ahead(ranked[k], ranked[j])
  <2>1. TAKE k \in DOMAIN ranked
  <2>2. TAKE j \in 1..k - 1
  <2>3. k \in 1..m /\ j \in 1..m /\ p[k] \in 1..m /\ p[j] \in 1..m
    BY <1>3 DEF Sorts
  <2>4. <<p[k], p[j]>> \notin R
    BY <1>3, <2>3 DEF Sorts
  <2>5. QED
    BY <2>3, <2>4
<1> HIDE DEF ranked, R
<1>7. /\ Ranked(events) \in Arranged(events)
      /\ \A k \in DOMAIN Ranked(events) : \A j \in 1..k - 1 :
            ~Ahead(Ranked(events)[k], Ranked(events)[j])
  BY <1>5, <1>6 DEF Ranked
<1>8. DOMAIN Ranked(events) = 1..m
  BY <1>7 DEF Arranged
<1>9. QED
  BY <1>7, <1>8

LEMMA ChooseWalk ==
    ASSUME NEW list, list \in Seq(ToSet(list))
    PROVE  \E made \in [0..Len(list) -> Seq(ToSet(list))] :
              /\ made[0] = <<>>
              /\ \A k \in 1..Len(list) : made[k] = Choose(made[k - 1], list[k])
              /\ FoldLeft(Choose, <<>>, list) = made[Len(list)]
<1> DEFINE m == Len(list)
           S == 1..m
           Y == Seq(ToSet(list))
           F == [p \in S \X Y |-> Choose(p[2], list[p[1]])]
           Fold(h) == h = [s \in SUBSET S |->
                             IF s = {} THEN <<>> ELSE Choose(h[s \ {Max(s)}], list[Max(s)])]
           h == CHOOSE h : Fold(h)
<1>1. m \in Nat /\ DOMAIN list = S /\ \A k \in S : list[k] \in ToSet(list)
  BY DEF ToSet
<1>2. ASSUME NEW chosen \in Y, NEW event \in ToSet(list)
      PROVE  Choose(chosen, event) \in Y
  BY DEF Choose
<1>3. F \in [S \X Y -> Y]
  <2> HIDE DEF Y, m
  <2>1. QED
    BY <1>1, <1>2
<1>4. \A s \in SUBSET S : s # {} => Max(s) \in S /\ s \ {Max(s)} \in SUBSET S
  <2> HIDE DEF m
  <2>1. QED
    BY <1>1, MaxOf
<1>5. <<>> \in Y
  OBVIOUS
<1>6. Fold(h)
  <2>1. PICK g \in [SUBSET S -> Y] : Computes(S, <<>>, F, Greatest(m), g)
    <3> HIDE DEF F, m, Y
    <3>1. QED
      BY <1>1, <1>3, <1>5, WalkExists
  <2> HIDE DEF m, Y
  <2>2. \A s \in SUBSET S : s # {} =>
           F[<<Max(s), g[s \ {Max(s)}]>>] = Choose(g[s \ {Max(s)}], list[Max(s)])
    <3>1. \A k \in S, y \in Y : F[<<k, y>>] = Choose(y, list[k])
      OBVIOUS
    <3> HIDE DEF F
    <3>2. \A s \in SUBSET S : s # {} => Max(s) \in S /\ g[s \ {Max(s)}] \in Y
      BY <1>4, <2>1
    <3>3. QED
      BY <3>1, <3>2
  <2>3. \A s \in SUBSET S :
           g[s] = IF s = {} THEN <<>> ELSE Choose(g[s \ {Max(s)}], list[Max(s)])
    <3> HIDE DEF F
    <3>1. QED
      BY <2>1, <2>2 DEF Computes, Greatest
  <2>4. Fold(g)
    BY <2>1, <2>3
  <2>5. QED
    BY <2>4
<1>7. FoldLeft(Choose, <<>>, list) = h[S]
  BY <1>1, <1>4 DEF FoldLeft, MapThenFoldSet
<1>8. FoldsTo(S, Y, <<>>, F, Greatest(m), h)
  BY <1>4, <1>6 DEF FoldsTo, Greatest
<1>9. Passes(m, Y, <<>>, F, Stages(m, h)) /\ Stages(m, h)[m] = h[S]
  <2>1. /\ m \in Nat /\ <<>> \in Y /\ F \in [(1..m) \X Y -> Y]
        /\ FoldsTo(1..m, Y, <<>>, F, Greatest(m), h)
    BY <1>1, <1>3, <1>5, <1>8
  <2> HIDE DEF F, h, m, Y
  <2>2. QED
    BY ONLY <2>1, FoldWalks
<1>10. \A k \in 1..m : Stages(m, h)[k] = Choose(Stages(m, h)[k - 1], list[k])
  <2> HIDE DEF h, Y
  <2>1. \A k \in 1..m : k - 1 \in 0..m
    BY <1>1
  <2>2. QED
    BY <1>9, <2>1 DEF Passes
<1>11. QED
  <2> HIDE DEF h, F
  <2>1. QED
    BY <1>7, <1>9, <1>10 DEF Passes

(* One of those before the j-th.                                            *)
Before(list, j, e) == \E q \in 1..j - 1 : e = list[q]

(* The j-th of the list is not chosen: one before it takes its place, or as *)
(* many as are wanted are before it.                                        *)
GivesWay(list, chosen, j) ==
    \/ \E i \in DOMAIN chosen :
          Before(list, j, chosen[i]) /\ Overlap(list[j], chosen[i]) > Context
    \/ Len(chosen) = TopN /\ \A i \in DOMAIN chosen : Before(list, j, chosen[i])

(* After k of the list.                                                     *)
Chosen(list, k, chosen) ==
    /\ chosen \in Seq(ToSet(list)) /\ Len(chosen) <= TopN
    /\ \A i \in DOMAIN chosen : Before(list, k + 1, chosen[i])
    /\ \A i, j \in DOMAIN chosen : i # j => ~(Overlap(chosen[i], chosen[j]) > Context)
    /\ \A j \in 1..k : (\E i \in DOMAIN chosen : chosen[i] = list[j]) \/ GivesWay(list, chosen, j)

LEMMA ChooseStep ==
    ASSUME NEW list, list \in Seq(ToSet(list)), NEW k \in 0..Len(list) - 1,
           NEW chosen, Chosen(list, k, chosen)
    PROVE  Chosen(list, k + 1, Choose(chosen, list[k + 1]))
<1> DEFINE e == list[k + 1]
<1>1. /\ k \in Nat /\ Len(list) \in Nat /\ e \in ToSet(list) /\ TopN \in Nat
      /\ chosen \in Seq(ToSet(list)) /\ Len(chosen) \in Nat /\ DOMAIN chosen = 1..Len(chosen)
      /\ Len(chosen) <= TopN
  <2>1. TopN \in Nat
    BY DetectorAssumption
  <2>2. chosen \in Seq(ToSet(list)) /\ Len(chosen) <= TopN
    BY DEF Chosen
  <2>3. Len(chosen) \in Nat /\ DOMAIN chosen = 1..Len(chosen)
    BY <2>2
  <2>4. k \in Nat /\ Len(list) \in Nat /\ k + 1 \in DOMAIN list
    OBVIOUS
  <2>5. e \in ToSet(list)
    BY <2>4 DEF ToSet
  <2>6. QED
    BY <2>1, <2>2, <2>3, <2>4, <2>5
<1>2. \A i \in DOMAIN chosen : Before(list, k + 1, chosen[i]) /\ Before(list, k + 2, chosen[i])
  BY <1>1 DEF Chosen, Before
<1>3. \A j \in 1..k + 1 : j \in 1..k \/ j = k + 1
  BY <1>1
<1>4. (k + 1) + 1 = k + 2
  BY <1>1
<1>5. CASE Len(chosen) >= TopN \/ Crowds(e, chosen)
  <2>1. Choose(chosen, e) = chosen
    BY <1>5 DEF Choose
  <2>2. GivesWay(list, chosen, k + 1)
    <3>1. CASE Len(chosen) >= TopN
      <4>1. Len(chosen) = TopN
        <5>1. Len(chosen) \in Nat /\ TopN \in Nat /\ Len(chosen) <= TopN
          BY <1>1
        <5>2. QED
          BY ONLY <3>1, <5>1
      <4>2. QED
        BY <1>2, <4>1 DEF GivesWay
    <3>2. CASE \E i \in DOMAIN chosen : Overlap(e, chosen[i]) > Context
      BY <1>2, <3>2 DEF GivesWay
    <3>3. QED
      BY <1>5, <3>1, <3>2 DEF Crowds
  <2>3. QED
    BY <1>2, <1>3, <1>4, <2>1, <2>2 DEF Chosen
<1>6. CASE ~(Len(chosen) >= TopN \/ Crowds(e, chosen))
  <2> DEFINE more == Append(chosen, e)
  <2>1. Choose(chosen, e) = more
    BY <1>6 DEF Choose
  <2>2. /\ more \in Seq(ToSet(list)) /\ DOMAIN more = 1..Len(chosen) + 1
        /\ Len(more) = Len(chosen) + 1 /\ Len(more) <= TopN
        /\ more[Len(chosen) + 1] = e /\ \A i \in DOMAIN chosen : more[i] = chosen[i]
    BY <1>1, <1>6
  <2> HIDE DEF more, e
  <2>3. \A i \in DOMAIN more : i \in DOMAIN chosen \/ i = Len(chosen) + 1
    BY <1>1, <2>2
  <2>4. DOMAIN chosen \subseteq DOMAIN more /\ Len(chosen) + 1 \in DOMAIN more
    BY <1>1, <2>2
  <2>5. Before(list, k + 2, e)
    BY <1>1 DEF Before, e
  <2>6. \A i \in DOMAIN more : Before(list, k + 2, more[i])
    BY <1>2, <2>2, <2>3, <2>5
  <2>7. \A i \in DOMAIN chosen :
           ~(Overlap(e, chosen[i]) > Context) /\ Overlap(chosen[i], e) = Overlap(e, chosen[i])
    <3>1. \A a, b : {a, b} = {b, a}
      OBVIOUS
    <3>2. \A a, b : Overlap(a, b) = Overlap(b, a)
      BY <3>1 DEF Overlap
    <3>3. QED
      BY <1>6, <3>2 DEF Crowds, e
  <2>8. \A i, j \in DOMAIN more : i # j => ~(Overlap(more[i], more[j]) > Context)
    <3>1. TAKE i, j \in DOMAIN more
    <3>2. CASE i \in DOMAIN chosen /\ j \in DOMAIN chosen
      BY <2>2, <3>2 DEF Chosen
    <3>3. CASE i \in DOMAIN chosen /\ j = Len(chosen) + 1
      BY <2>2, <2>7, <3>3
    <3>4. CASE i = Len(chosen) + 1 /\ j \in DOMAIN chosen
      BY <2>2, <2>7, <3>4
    <3>5. QED
      BY <2>3, <3>2, <3>3, <3>4
  <2>9. ASSUME NEW j \in 1..k + 1
        PROVE  (\E i \in DOMAIN more : more[i] = list[j]) \/ GivesWay(list, more, j)
    <3>1. CASE j = k + 1
      BY <2>2, <2>4, <3>1 DEF e
    <3>2. CASE \E i \in DOMAIN chosen : chosen[i] = list[j]
      BY <2>2, <2>4, <3>2
    <3>3. CASE \E i \in DOMAIN chosen :
                  Before(list, j, chosen[i]) /\ Overlap(list[j], chosen[i]) > Context
      <4>1. \E i \in DOMAIN more : Before(list, j, more[i]) /\ Overlap(list[j], more[i]) > Context
        BY <2>2, <2>4, <3>3
      <4>2. QED
        BY <4>1 DEF GivesWay
    <3>4. Len(chosen) # TopN
      BY <1>1, <1>6
    <3>5. QED
      BY <1>3, <3>1, <3>2, <3>3, <3>4 DEF Chosen, GivesWay
  <2>10. QED
    BY <1>4, <2>1, <2>2, <2>6, <2>8, <2>9 DEF Chosen, e
<1>7. QED
  BY <1>5, <1>6

LEMMA EventsShape ==
    ASSUME NEW n, NEW d, Lasting(n, d)
    PROVE  \E m \in Nat :
              /\ DOMAIN Events(d) = 1..m /\ DOMAIN Bursts(d) = 1..m
              /\ \A k \in 1..m : /\ Bursts(d)[k] \in Burst(n)
                                 /\ Events(d)[k] = Event(d, Bursts(d)[k])
                                 /\ Rateable(Events(d)[k])
<1> DEFINE bursts == Bursts(d)
<1>1. bursts \in Seq(Burst(n))
  BY BurstsShow DEF Strips
<1>2. PICK m \in Nat : DOMAIN bursts = 1..m
  BY <1>1
<1>3. \A k \in 1..m : bursts[k] \in Burst(n)
  BY <1>1, <1>2
<1>4. Events(d) = [k \in 1..m |-> Event(d, bursts[k])]
  BY <1>2 DEF Events
<1> HIDE DEF bursts
<1>5. ASSUME NEW k \in 1..m
      PROVE  Rateable(Events(d)[k])
  <2>1. Events(d)[k] = Event(d, bursts[k]) /\ bursts[k] \in Burst(n)
    BY <1>3, <1>4
  <2>2. Event(d, bursts[k]).burst = bursts[k] /\ Event(d, bursts[k]).density \in Fraction
    BY <2>1, EventFits
  <2>3. bursts[k].from \in Nat
    BY <2>1 DEF Burst
  <2>4. QED
    BY <2>1, <2>2, <2>3 DEF Rateable
<1>6. QED
  BY <1>2, <1>3, <1>4, <1>5 DEF bursts

(* What a cut of a recording is.                                            *)
LEMMA DetectChooses ==
    ASSUME NEW n, NEW d, Lasting(n, d)
    PROVE  LET list == Ranked(Events(d))
           IN /\ list \in Seq(ToSet(list)) /\ ToSet(list) = ToSet(Events(d))
              /\ \A k \in DOMAIN list : \A j \in 1..k - 1 : ~Ahead(list[k], list[j])
              /\ Chosen(list, Len(list), Detect(d))
<1> DEFINE list == Ranked(Events(d))
           events == Events(d)
<1>1. PICK m \in Nat : DOMAIN events = 1..m /\ \A k \in 1..m : Rateable(events[k])
  BY EventsShape
<1> HIDE DEF events, list
<1>2. /\ list \in Arranged(events)
      /\ \A k \in 1..m : \A j \in 1..k - 1 : ~Ahead(list[k], list[j])
  BY <1>1, RankedIsSorted DEF list, events
<1>3. PICK p \in Bijection(1..m, 1..m) : list = [k \in 1..m |-> events[p[k]]]
  BY <1>1, <1>2 DEF Arranged
<1>4. /\ \A k \in 1..m : p[k] \in 1..m
      /\ \A k \in 1..m : \E j \in 1..m : p[j] = k
  BY DEF Bijection, Injection, Surjection
<1>5. DOMAIN list = 1..m /\ \A k \in 1..m : list[k] = events[p[k]] /\ list[k] \in ToSet(list)
  BY <1>3 DEF ToSet
<1>6. ToSet(list) = ToSet(events)
  <2>1. \A x \in ToSet(list) : x \in ToSet(events)
    <3>1. TAKE x \in ToSet(list)
    <3>2. PICK k \in 1..m : x = list[k]
      BY <1>5 DEF ToSet
    <3>3. p[k] \in DOMAIN events /\ x = events[p[k]]
      BY <1>1, <1>4, <1>5, <3>2
    <3>4. QED
      BY <3>3 DEF ToSet
  <2>2. \A x \in ToSet(events) : x \in ToSet(list)
    <3>1. TAKE x \in ToSet(events)
    <3>2. PICK k \in 1..m : x = events[k]
      BY <1>1 DEF ToSet
    <3>3. PICK j \in 1..m : p[j] = k
      BY <1>4
    <3>4. QED
      BY <1>5, <3>2, <3>3
  <2>3. QED
    BY <2>1, <2>2
<1>7. list \in Seq(ToSet(list)) /\ Len(list) = m
  <2>1. list = [k \in 1..m |-> list[k]]
    BY <1>3, <1>5
  <2>2. QED
    BY <1>5, <2>1
<1>8. PICK made \in [0..Len(list) -> Seq(ToSet(list))] :
              /\ made[0] = <<>>
              /\ \A k \in 1..Len(list) : made[k] = Choose(made[k - 1], list[k])
              /\ FoldLeft(Choose, <<>>, list) = made[Len(list)]
  BY <1>7, ChooseWalk
<1> DEFINE G == {k \in Nat : Chosen(list, k, made[k])}
<1>9. 0 \in G
  <2>1. Chosen(list, 0, <<>>)
    BY DetectorAssumption DEF Chosen
  <2>2. QED
    BY <1>8, <2>1
<1>10. ASSUME NEW k \in 0..m - 1, k \in G
       PROVE  k + 1 \in G
  <2>1. k + 1 \in 1..m /\ (k + 1) - 1 = k
    BY <1>1
  <2>2. made[k + 1] = Choose(made[k], list[k + 1])
    BY <1>7, <1>8, <2>1
  <2>3. Chosen(list, k + 1, made[k + 1])
    BY <1>7, <1>10, <2>2, ChooseStep
  <2>4. QED
    BY <2>3
<1>11. m \in G
  <2> HIDE DEF G
  <2>1. \A k \in 0..m - 1 : k \in G => k + 1 \in G
    BY <1>10
  <2>2. 0..m \subseteq G
    BY ONLY m \in Nat, <1>9, <2>1, CountUp
  <2>3. QED
    BY <2>2
<1>12. Detect(d) = made[m]
  <2>1. ~(Lasts(d) <= 0)
    BY DEF Lasting
  <2>2. QED
    BY <1>7, <1>8, <2>1 DEF Detect, list
<1>13. Chosen(list, Len(list), Detect(d))
  BY <1>7, <1>11, <1>12
<1>14. QED
  BY <1>2, <1>5, <1>6, <1>7, <1>13 DEF list, events

(* A chosen event is the event of a burst.                                  *)
LEMMA ChosenIsEvent ==
    ASSUME NEW n, NEW d, Lasting(n, d), NEW k \in DOMAIN Detect(d)
    PROVE  /\ \E b \in Burst(n) : Detect(d)[k] = Event(d, b)
           /\ Detect(d)[k] \in ToSet(Events(d))
<1> DEFINE list == Ranked(Events(d))
           found == Detect(d)
<1>1. found \in Seq(ToSet(list)) /\ ToSet(list) = ToSet(Events(d))
  BY DetectChooses DEF Chosen
<1> HIDE DEF list
<1>2. found[k] \in ToSet(Events(d))
  BY <1>1
<1>3. PICK j \in DOMAIN Events(d) : found[k] = Events(d)[j]
  BY <1>2 DEF ToSet
<1>4. Bursts(d)[j] \in Burst(n) /\ Events(d)[j] = Event(d, Bursts(d)[j])
  BY EventsShape
<1>5. QED
  BY <1>2, <1>3, <1>4

(* No two windows start together.                                           *)
Apart(windows) ==
    /\ windows \in Seq(ToSet(windows))
    /\ \A j, k \in DOMAIN windows : j # k => windows[j].start # windows[k].start

(* Two windows that start together are the same, and crowd each other if    *)
(* the recording lasts longer than a context.                               *)
LEMMA CutsApart ==
    ASSUME NEW d \in FollowedUp
    PROVE  Apart(Detect(d))
<1> DEFINE n == Lasts(d)
           found == Detect(d)
           list == Ranked(Events(d))
<1>1. Lasting(n, d) /\ n > Context /\ n \in Nat
  BY PipelineAssumption, RecordingLasts DEF Lasting
<1>2. /\ found \in Seq(ToSet(list))
      /\ \A i, j \in DOMAIN found : i # j => ~(Overlap(found[i], found[j]) > Context)
  BY <1>1, DetectChooses DEF Chosen
<1>3. Context \in Nat \ {0}
  BY DetectorAssumption
<1>4. Min({n, 2 * Context}) = IF n >= 2 * Context THEN 2 * Context ELSE n
  BY <1>1, <1>3, ShortOfTwo
<1> HIDE DEF n
<1>5. \A k \in DOMAIN found :
         /\ found[k].start \in Int /\ found[k].end \in Int
         /\ found[k].end - found[k].start = Min({n, 2 * Context})
  <2>1. TAKE k \in DOMAIN found
  <2>2. PICK b \in Burst(n) : found[k] = Event(d, b)
    BY <1>1, ChosenIsEvent
  <2>3. QED
    <3>1. /\ Event(d, b).start \in Int /\ Event(d, b).end \in Int
          /\ Fits(d, Event(d, b))
      BY <1>1, EventFits
    <3>2. QED
      BY <2>2, <3>1 DEF Fits, n
<1> HIDE DEF found, list
<1>6. ASSUME NEW j \in DOMAIN found, NEW k \in DOMAIN found, found[j].start = found[k].start
      PROVE  j = k
  <2> DEFINE start == found[j].start
             end == found[j].end
  <2>1. /\ start \in Int /\ end \in Int /\ end - start > Context
        /\ found[k].start = start /\ found[k].end = end
    BY <1>1, <1>3, <1>4, <1>5, <1>6
  <2>2. Max({start, start}) = start /\ Min({end, end}) = end
    BY <2>1, TwoNumbers
  <2>3. Overlap(found[j], found[k]) = end - start
    BY <2>1, <2>2 DEF Overlap
  <2>4. QED
    BY <1>2, <2>1, <2>3
<1>7. found \in Seq(ToSet(found))
  <2>1. found = [k \in 1..Len(found) |-> found[k]] /\ Len(found) \in Nat
    BY <1>2
  <2>2. \A k \in 1..Len(found) : found[k] \in ToSet(found)
    BY <1>2 DEF ToSet
  <2>3. QED
    BY <2>1, <2>2
<1>8. QED
  BY <1>6, <1>7 DEF Apart, found

(* What was not chosen is accounted for.                                    *)
LEMMA CutAccounts ==
    ASSUME NEW n, NEW d, Lasting(n, d), NEW i \in Bursting(d)
    PROVE  Accounted(d, i)
<1> DEFINE chosen == Detect(d)
           list == Ranked(Events(d))
<1>1. PICK m \in Nat :
         /\ DOMAIN Events(d) = 1..m /\ DOMAIN Bursts(d) = 1..m
         /\ \A k \in 1..m : /\ Bursts(d)[k] \in Burst(n)
                            /\ Events(d)[k] = Event(d, Bursts(d)[k])
                            /\ Rateable(Events(d)[k])
  BY EventsShape
<1>2. PICK k \in 1..m : i \in Bursts(d)[k].from .. Bursts(d)[k].to - 1
  BY <1>1, BurstsShow DEF Shows
<1> DEFINE e == Events(d)[k]
<1>3. e.burst = Bursts(d)[k] /\ e \in ToSet(Events(d))
  BY <1>1, EventFits DEF ToSet
<1>4. /\ list \in Seq(ToSet(list)) /\ ToSet(list) = ToSet(Events(d))
      /\ \A q \in DOMAIN list : \A j \in 1..q - 1 : ~Ahead(list[q], list[j])
      /\ Chosen(list, Len(list), chosen)
  BY DetectChooses
<1> HIDE DEF e, list, chosen
<1>5. PICK q \in DOMAIN list : e = list[q]
  BY <1>3, <1>4 DEF ToSet
<1>6. (\E j \in DOMAIN chosen : chosen[j] = e) \/ GivesWay(list, chosen, q)
  BY <1>4, <1>5 DEF Chosen
<1>7. \A x : Before(list, q, x) => ~Denser(e.density, x.density)
  BY <1>4, <1>5 DEF Before, Ahead
<1>8. \/ e \in ToSet(chosen)
      \/ \E j \in DOMAIN chosen :
            ~Denser(e.density, chosen[j].density) /\ Overlap(e, chosen[j]) > Context
      \/ Len(chosen) = TopN /\ \A j \in DOMAIN chosen : ~Denser(e.density, chosen[j].density)
  <2>1. CASE \E j \in DOMAIN chosen : chosen[j] = e
    BY <2>1 DEF ToSet
  <2>2. CASE GivesWay(list, chosen, q)
    BY <1>5, <1>7, <2>2 DEF GivesWay
  <2>3. QED
    BY <1>6, <2>1, <2>2
<1>9. i \in e.burst.from .. e.burst.to - 1
  BY <1>2, <1>3
<1>10. i \in Max({0, Peak(d, e.burst) - Lag}) - Context .. Max({0, Peak(d, e.burst) - Lag}) + Context
          => i \in e.start .. e.end
  <2>1. e = Event(d, Bursts(d)[k]) /\ Bursts(d)[k] \in Burst(n)
    BY <1>1 DEF e
  <2>2. i \in 0..n
    BY DEF Bursting, Lasting
  <2>3. QED
    BY <2>1, <2>2, EventReaches
<1>11. QED
  BY <1>3, <1>8, <1>9, <1>10 DEF Accounted, chosen


-----------------------------------------------------------------------------
(* Groups.                                                                  *)

(* The groups after each candidate.                                         *)
LEMMA GroupsWalk ==
    ASSUME NEW n \in Nat
    PROVE  \E made \in [0..n -> SUBSET SUBSET (1..n)] :
              /\ made[0] = {}
              /\ \A k \in 1..n : made[k] = MergeMet(made[k - 1], k)
              /\ Grouped(1..n) = made[n]
<1> DEFINE S == 1..n
           Y == SUBSET SUBSET S
           F == [p \in S \X Y |-> MergeMet(p[2], p[1])]
           Fold(h) == h = [s \in SUBSET S |->
                             IF s = {} THEN {} ELSE MergeMet(h[s \ {Max(s)}], Max(s))]
           h == CHOOSE h : Fold(h)
<1>1. F \in [S \X Y -> Y]
  <2>1. ASSUME NEW made \in Y, NEW c \in S
        PROVE  MergeMet(made, c) \in Y
    <3> DEFINE met == {g \in made : \E d \in g : Overlap(candidates'[c], candidates'[d]) > 0}
    <3>1. met \subseteq made /\ MergeMet(made, c) = (made \ met) \cup {(UNION met) \cup {c}}
      BY DEF MergeMet
    <3> HIDE DEF met
    <3>2. \A g \in made : g \subseteq S
      OBVIOUS
    <3>3. \A k \in UNION met : k \in S
      BY <3>1, <3>2
    <3>4. (UNION met) \cup {c} \in SUBSET S
      BY <3>3
    <3>5. QED
      BY <3>1, <3>4
  <2>2. QED
    BY <2>1
<1>2. \A s \in SUBSET S : s # {} => Max(s) \in S /\ s \ {Max(s)} \in SUBSET S
  BY MaxOf
<1>3. Fold(h)
  <2>1. PICK g \in [SUBSET S -> Y] : Computes(S, {}, F, Greatest(n), g)
    <3>1. {} \in Y
      OBVIOUS
    <3> HIDE DEF F, Y
    <3>2. QED
      BY <1>1, <3>1, WalkExists
  <2>2. \A s \in SUBSET S : s # {} =>
           F[<<Max(s), g[s \ {Max(s)}]>>] = MergeMet(g[s \ {Max(s)}], Max(s))
    BY <1>2, <2>1
  <2>3. \A s \in SUBSET S :
           g[s] = IF s = {} THEN {} ELSE MergeMet(g[s \ {Max(s)}], Max(s))
    BY <2>1, <2>2 DEF Computes, Greatest
  <2>4. Fold(g)
    BY <2>1, <2>3
  <2>5. QED
    BY <2>4
<1>4. Grouped(S) = h[S]
  BY <1>2 DEF Grouped, FoldLeft, MapThenFoldSet
<1>5. FoldsTo(S, Y, {}, F, Greatest(n), h)
  BY <1>2, <1>3 DEF FoldsTo, Greatest
<1>6. Passes(n, Y, {}, F, Stages(n, h)) /\ Stages(n, h)[n] = h[S]
  <2>1. /\ n \in Nat /\ {} \in Y /\ F \in [(1..n) \X Y -> Y]
        /\ FoldsTo(1..n, Y, {}, F, Greatest(n), h)
    BY <1>1, <1>5
  <2> HIDE DEF F, Y, h
  <2>2. QED
    BY ONLY <2>1, FoldWalks
<1>7. \A k \in 1..n : k - 1 \in 0..n
  OBVIOUS
<1>8. \A k \in 1..n : Stages(n, h)[k] = MergeMet(Stages(n, h)[k - 1], k)
  <2> HIDE DEF h
  <2>1. QED
    BY <1>6, <1>7 DEF Passes
<1>9. QED
  <2> HIDE DEF h
  <2>1. QED
    BY <1>4, <1>6, <1>8 DEF Passes

(* Groups of 1..k: apart, and held together by links, so that a set that no *)
(* link leaves holds all of a group it meets.                               *)
Clusters(k, links, made) ==
    /\ made \subseteq SUBSET (1..k) /\ UNION made = 1..k
    /\ \A g, h \in made : g # h => \A p \in g, q \in h : p # q /\ <<p, q>> \notin links
    /\ \A g \in made, S \in SUBSET (1..k) :
          S \cap g # {} /\ (\A p \in S, q \in (1..k) \ S : <<p, q>> \notin links) => g \subseteq S

LEMMA ClusterStep ==
    ASSUME NEW k \in Nat, NEW links, \A p, q : <<p, q>> \in links => <<q, p>> \in links,
           NEW made, Clusters(k, links, made),
           NEW met, met = {g \in made : \E d \in g : <<k + 1, d>> \in links}
    PROVE  Clusters(k + 1, links, (made \ met) \cup {(UNION met) \cup {k + 1}})
<1> DEFINE new == (UNION met) \cup {k + 1}
           next == (made \ met) \cup {new}
<1>1. /\ made \subseteq SUBSET (1..k) /\ UNION made = 1..k
      /\ \A g, h \in made : g # h => \A p \in g, q \in h : p # q /\ <<p, q>> \notin links
      /\ met \subseteq made
  BY DEF Clusters
<1>2. /\ \A x : x \in 1..k + 1 <=> x = k + 1 \/ x \in 1..k
      /\ k + 1 \notin 1..k
  OBVIOUS
<1>3. \A x \in new : x = k + 1 \/ \E g \in met : x \in g
  OBVIOUS
<1>4. \A g \in met : g \subseteq new
  OBVIOUS
<1>5. k + 1 \in new /\ new \in next /\ \A g \in made : g \in met \/ g \in next
  OBVIOUS
<1>6. \A g \in next : g = new \/ (g \in made /\ g \notin met)
  OBVIOUS
<1> HIDE DEF new, next
<1>7. new \subseteq 1..k + 1
  <2>1. ASSUME NEW x \in new
        PROVE  x \in 1..k + 1
    <3>1. CASE x = k + 1
      BY <1>2, <3>1
    <3>2. ASSUME NEW g \in met, x \in g
          PROVE  x \in 1..k + 1
      <4>1. x \in 1..k
        BY <1>1, <3>2
      <4>2. QED
        BY <1>2, <4>1
    <3>3. QED
      BY <1>3, <3>1, <3>2
  <2>2. QED
    BY <2>1
<1>8. next \subseteq SUBSET (1..k + 1)
  <2>1. ASSUME NEW g \in next
        PROVE  g \subseteq 1..k + 1
    <3>1. CASE g = new
      BY <1>7, <3>1
    <3>2. CASE g \in made
      BY <1>1, <1>2, <3>2
    <3>3. QED
      BY <1>6, <3>1, <3>2
  <2>2. QED
    BY <2>1
<1>9. UNION next = 1..k + 1
  <2>1. ASSUME NEW x \in 1..k + 1
        PROVE  x \in UNION next
    <3>1. CASE x = k + 1
      BY <1>5, <3>1
    <3>2. CASE x \in 1..k
      <4>1. PICK g \in made : x \in g
        BY <1>1, <3>2
      <4>2. QED
        BY <1>4, <1>5, <4>1
    <3>3. QED
      BY <1>2, <3>1, <3>2
  <2>2. QED
    BY <1>8, <2>1
<1>10. ASSUME NEW g \in made, g \notin met, NEW p \in g, NEW q \in new
       PROVE  p # q /\ <<p, q>> \notin links /\ <<q, p>> \notin links
  <2>1. CASE q = k + 1
    <3>1. p # q
      BY <1>1, <1>2, <2>1
    <3>2. <<k + 1, p>> \notin links
      BY <1>10
    <3>3. QED
      BY <2>1, <3>1, <3>2
  <2>2. ASSUME NEW h \in met, q \in h
        PROVE  p # q /\ <<p, q>> \notin links /\ <<q, p>> \notin links
    BY <1>1, <1>10, <2>2
  <2>3. QED
    BY <1>3, <2>1, <2>2
<1>11. \A g, h \in next : g # h => \A p \in g, q \in h : p # q /\ <<p, q>> \notin links
  <2>1. TAKE g, h \in next
  <2>2. CASE g = new /\ h = new
    BY <2>2
  <2>3. CASE g = new /\ h \in made /\ h \notin met
    BY <1>10, <2>3
  <2>4. CASE h = new /\ g \in made /\ g \notin met
    BY <1>10, <2>4
  <2>5. CASE g \in made /\ h \in made
    BY <1>1, <2>5
  <2>6. QED
    BY <1>6, <2>2, <2>3, <2>4, <2>5
<1>12. ASSUME NEW g \in next, NEW S \in SUBSET (1..k + 1), S \cap g # {},
              \A p \in S, q \in (1..k + 1) \ S : <<p, q>> \notin links
       PROVE  g \subseteq S
  <2> DEFINE T == S \cap 1..k
  <2>1. T \in SUBSET (1..k) /\ \A p \in T, q \in (1..k) \ T : <<p, q>> \notin links
    BY <1>2, <1>12
  <2>2. \A h \in made : T \cap h # {} => h \subseteq T
    BY <2>1 DEF Clusters
  <2>3. \A h \in made : S \cap h # {} => h \subseteq S
    <3>1. TAKE h \in made
    <3>2. h \subseteq 1..k
      BY <1>1
    <3>3. QED
      BY <2>2, <3>2
  <2>4. CASE g \in made
    BY <1>12, <2>3, <2>4
  <2>5. CASE g = new
    <3>1. k + 1 \in S
      <4>1. PICK x \in S : x \in new
        BY <1>12, <2>5
      <4>2. ASSUME NEW h \in met, x \in h
            PROVE  k + 1 \in S
        <5>1. h \subseteq S
          BY <1>1, <2>3, <4>2
        <5>2. PICK d \in h : <<k + 1, d>> \in links
          OBVIOUS
        <5>3. d \in S /\ <<d, k + 1>> \in links
          BY <5>1, <5>2
        <5>4. QED
          BY <1>2, <1>12, <5>3
      <4>3. QED
        BY <1>3, <4>1, <4>2
    <3>2. ASSUME NEW h \in met
          PROVE  h \subseteq S
      <4>1. PICK d \in h : <<k + 1, d>> \in links
        OBVIOUS
      <4>2. d \in 1..k + 1
        BY <1>1, <1>2
      <4>3. d \in S
        BY <1>12, <3>1, <4>1, <4>2
      <4>4. QED
        BY <1>1, <2>3, <4>3
    <3>3. QED
      BY <1>3, <2>5, <3>1, <3>2
  <2>6. QED
    BY <1>6, <2>4, <2>5
<1>13. Clusters(k + 1, links, next)
  BY <1>8, <1>9, <1>11, <1>12 DEF Clusters
<1>14. QED
  BY <1>13 DEF next, new

(* The links between the candidates that were cut.                          *)
Links == {p \in Candidates \X Candidates : Overlapping(p[1], p[2])}

LEMMA GroupsCluster ==
    ASSUME NEW n \in Nat, Candidates' = 1..n
    PROVE  Clusters(n, Links', Grouped(1..n))
<1>1. PICK made \in [0..n -> SUBSET SUBSET (1..n)] :
              /\ made[0] = {}
              /\ \A k \in 1..n : made[k] = MergeMet(made[k - 1], k)
              /\ Grouped(1..n) = made[n]
  BY GroupsWalk
<1> DEFINE G == {k \in Nat : Clusters(k, Links', made[k])}
<1>2. 0 \in G
  BY <1>1 DEF Clusters
<1>3. ASSUME NEW k \in 0..n - 1, k \in G
      PROVE  k + 1 \in G
  <2> DEFINE met == {g \in made[k] :
                        \E d \in g : Overlap(candidates'[k + 1], candidates'[d]) > 0}
             old == made[k]
  <2>1. made[k + 1] = (made[k] \ met) \cup {(UNION met) \cup {k + 1}}
    <3>1. k + 1 \in 1..n /\ (k + 1) - 1 = k
      OBVIOUS
    <3>2. made[k + 1] = MergeMet(made[k], k + 1)
      BY <1>1, <3>1
    <3>3. QED
      BY <3>2 DEF MergeMet
  <2>2. \A p, q : <<p, q>> \in Links' => <<q, p>> \in Links'
    <3>1. \A p, q : Overlap(candidates'[p], candidates'[q]) = Overlap(candidates'[q], candidates'[p])
      <4>1. TAKE p, q
      <4>2. \A x, y : {x, y} = {y, x}
        OBVIOUS
      <4>3. QED
        BY <4>2 DEF Overlap
    <3>2. QED
      BY <3>1 DEF Links, Overlapping
  <2>3. k \in Nat /\ Clusters(k, Links', old) /\ k + 1 \in Candidates'
    BY <1>3
  <2>4. \A g \in old : g \subseteq Candidates'
    BY <2>3 DEF Clusters
  <2>5. met = {g \in old : \E d \in g : <<k + 1, d>> \in Links'}
    <3>1. \A g \in old : \A d \in g :
             <<k + 1, d>> \in Links' <=> Overlap(candidates'[k + 1], candidates'[d]) > 0
      BY <2>3, <2>4 DEF Links, Overlapping
    <3>2. QED
      BY <3>1
  <2> HIDE DEF met, old
  <2>6. Clusters(k + 1, Links', (old \ met) \cup {(UNION met) \cup {k + 1}})
    BY <2>2, <2>3, <2>5, ClusterStep
  <2>7. Clusters(k + 1, Links', made[k + 1])
    BY <2>1, <2>6 DEF old
  <2>8. QED
    BY <2>3, <2>7
<1>4. 0..n \subseteq G
  <2> HIDE DEF G
  <2>1. QED
    BY <1>2, <1>3, CountUp
<1>5. QED
  BY <1>1, <1>4

-----------------------------------------------------------------------------
(* The pipeline.                                                            *)

IsRecord(r) ==
    r = [of |-> r.of, id |-> r.id, key |-> r.key, duplicateOf |-> r.duplicateOf,
         status |-> r.status, upload |-> r.upload, trim |-> r.trim, core |-> r.core,
         heard |-> r.heard, path |-> r.path]

Called == {"waiting", "running", "answered", "gathered", "ready", "finished"}

(* The candidates start apart, every one is in a group, and those that are  *)
(* to be taken are those whose calls say so.                                *)
CutInv ==
    /\ candidates \in Seq(ToSet(candidates))
    /\ \A c, d \in Candidates : c # d => candidates[c].start # candidates[d].start
    /\ groups \subseteq SUBSET Candidates /\ UNION groups = Candidates
    /\ call \in [Candidates -> Called] /\ DOMAIN answer = Candidates
    /\ ready = {c \in Candidates : call[c] = "ready"}

(* The clip in hand is one of those, and has what its step says.            *)
HandInv ==
    step # "free" =>
        /\ step \in {"burn", "describe", "stage"}
        /\ IsRecord(record) /\ record.of \in ready /\ record.upload = "not_queued"
        /\ record.path[1] = candidates[record.of].start
        /\ step \in {"describe", "stage"} => record.path \in finals
        /\ step = "stage" => record.path \in metas

(* The records are those of the candidates that are finished, except of     *)
(* those without a clip.                                                    *)
ListInv ==
    /\ segments \in Seq(ToSet(segments))
    /\ \A k \in DOMAIN segments :
          /\ IsRecord(segments[k])
          /\ segments[k].of \in Candidates /\ call[segments[k].of] = "finished"
          /\ segments[k].path[1] = candidates[segments[k].of].start
          /\ segments[k].upload = "awaiting_publish" => segments[k].path \in staged
    /\ \A j, k \in DOMAIN segments : segments[j].of = segments[k].of => j = k
    /\ \A c \in Candidates :
          call[c] = "finished" =>
              answer[c] = NoClip \/ \E k \in DOMAIN segments : segments[k].of = c

(* What is staged is listed as such.                                        *)
StagedInv ==
    /\ rows \in [DOMAIN rows -> QueueStatus]
    /\ staged \subseteq finals \cap metas
    /\ \A p \in staged :
          /\ p \in DOMAIN rows /\ rows[p] = "staged"
          /\ \E k \in DOMAIN segments :
                segments[k].path = p /\ segments[k].upload = "awaiting_publish"

(* Only a run that reached the loop can be done.                            *)
PhaseInv ==
    /\ phase \in {"recorded", "skipped", "failed"} => candidates = <<>>
    /\ phase = "recorded" => step = "free"
    /\ phase = "done" => \A c \in Candidates : call[c] = "finished"

PipelineInv == CutInv /\ HandInv /\ ListInv /\ StagedInv /\ PhaseInv

(* What adding a record to the list leaves and adds.                        *)
Extends(list, r, longer) ==
    /\ Len(list) \in Nat /\ DOMAIN list = 1..Len(list)
    /\ DOMAIN longer = 1..Len(list) + 1 /\ longer \in Seq(ToSet(longer))
    /\ \A k \in DOMAIN list : longer[k] = list[k]
    /\ longer[Len(list) + 1] = r

LEMMA Added ==
    ASSUME NEW list, list \in Seq(ToSet(list)), NEW r
    PROVE  Extends(list, r, list \o <<r>>)
<1> DEFINE S == ToSet(list) \cup {r}
           longer == list \o <<r>>
<1>1. list \in Seq(S) /\ <<r>> \in Seq(S) /\ Len(<<r>>) = 1
  OBVIOUS
<1>2. /\ Len(list) \in Nat /\ DOMAIN list = 1..Len(list)
      /\ longer \in Seq(S) /\ Len(longer) = Len(list) + 1
      /\ \A k \in 1..Len(longer) :
            longer[k] = IF k <= Len(list) THEN list[k] ELSE <<r>>[k - Len(list)]
  <2> HIDE DEF S
  <2>1. QED
    BY <1>1
<1>3. DOMAIN longer = 1..Len(list) + 1 /\ longer = [k \in 1..Len(list) + 1 |-> longer[k]]
  BY <1>2
<1>4. \A k \in DOMAIN longer : longer[k] \in ToSet(longer)
  BY DEF ToSet
<1>5. longer \in Seq(ToSet(longer))
  BY <1>2, <1>3, <1>4
<1>6. QED
  BY <1>2, <1>3, <1>5 DEF Extends

(* A candidate in the hand of the task is finished with one record.         *)
LEMMA OneListed ==
    ASSUME PipelineInv, NEW c \in ready, NEW r, IsRecord(r), r.of = c,
           r.path[1] = candidates[c].start, Finished(c, <<r>>),
           UNCHANGED <<candidates, groups, answer, phase>>, phase = "judging",
           \/ r.upload # "awaiting_publish" /\ staged' = staged
           \/ r.upload = "awaiting_publish" /\ staged' = staged \cup {r.path}
    PROVE  /\ CutInv' /\ HandInv' /\ ListInv' /\ PhaseInv'
           /\ \A k \in DOMAIN segments : k \in DOMAIN segments' /\ segments'[k] = segments[k]
           /\ \E k \in DOMAIN segments' : segments'[k] = r
<1> USE DEF PipelineInv, Finished
<1>1. c \in Candidates /\ call[c] = "ready"
  BY DEF CutInv
<1>2. /\ call' \in [Candidates -> Called] /\ call'[c] = "finished"
      /\ \A d \in Candidates \ {c} : call'[d] = call[d]
  BY <1>1 DEF CutInv, Called
<1>3. CutInv'
  BY <1>1, <1>2 DEF CutInv, Candidates
<1>4. HandInv' /\ PhaseInv'
  BY DEF HandInv, PhaseInv
<1> DEFINE n == Len(segments)
<1>5. /\ n \in Nat /\ DOMAIN segments = 1..n
      /\ DOMAIN segments' = 1..n + 1 /\ segments' \in Seq(ToSet(segments'))
      /\ \A k \in 1..n : segments'[k] = segments[k]
      /\ segments'[n + 1] = r
  <2>1. segments \in Seq(ToSet(segments)) /\ segments' = segments \o <<r>>
    BY DEF ListInv
  <2>2. Extends(segments, r, segments')
    BY <2>1, Added
  <2>3. QED
    BY <2>2 DEF Extends
<1>6. ListInv'
  <2> HIDE DEF n
  <2>1. \A k \in 1..n : segments[k].of \in Candidates \ {c}
    BY <1>1, <1>5 DEF ListInv
  <2>2. ASSUME NEW k \in 1..n + 1
        PROVE  /\ IsRecord(segments'[k])
               /\ segments'[k].of \in Candidates /\ call'[segments'[k].of] = "finished"
               /\ segments'[k].path[1] = candidates[segments'[k].of].start
               /\ segments'[k].upload = "awaiting_publish" => segments'[k].path \in staged'
    <3>1. CASE k \in 1..n
      <4>1. segments'[k] = segments[k] /\ k \in DOMAIN segments
        BY <1>5, <3>1
      <4>2. call'[segments[k].of] = call[segments[k].of]
        BY <1>2, <2>1, <3>1
      <4>3. QED
        BY <4>1, <4>2 DEF ListInv
    <3>2. CASE k = n + 1
      BY <1>1, <1>2, <1>5, <3>2
    <3>3. QED
      BY <1>5, <3>1, <3>2
  <2>3. ASSUME NEW j \in 1..n + 1, NEW k \in 1..n + 1, segments'[j].of = segments'[k].of
        PROVE  j = k
    <3>1. \A i \in 1..n + 1 : i \in 1..n \/ i = n + 1
      BY <1>5
    <3>2. \A i \in 1..n : segments'[i].of # c
      BY <1>5, <2>1
    <3>3. segments'[n + 1].of = c
      BY <1>5
    <3>4. CASE j \in 1..n /\ k \in 1..n
      BY <1>5, <2>3, <3>4 DEF ListInv
    <3>5. QED
      BY <2>3, <3>1, <3>2, <3>3, <3>4
  <2>4. ASSUME NEW d \in Candidates, call'[d] = "finished", answer[d] # NoClip
        PROVE  \E k \in 1..n + 1 : segments'[k].of = d
    <3>1. CASE d = c
      BY <1>5, <3>1
    <3>2. CASE d # c
      <4>1. PICK k \in 1..n : segments[k].of = d
        BY <1>2, <1>5, <2>4, <3>2 DEF ListInv
      <4>2. k \in 1..n + 1 /\ segments'[k].of = d
        BY <1>5, <4>1
      <4>3. QED
        BY <4>2
    <3>3. QED
      BY <3>1, <3>2
  <2>5. QED
    BY <1>5, <2>2, <2>3, <2>4 DEF ListInv, Candidates
<1>7. n + 1 \in DOMAIN segments' /\ \A k \in 1..n : k \in DOMAIN segments'
  BY <1>5
<1>8. QED
  BY <1>3, <1>4, <1>5, <1>6, <1>7

(* What is staged survives what is done about the clip of a candidate that  *)
(* is still to be finished: their paths differ.                             *)
LEMMA StagedKept ==
    ASSUME PipelineInv, NEW c \in ready, NEW path, path[1] = candidates[c].start,
           metas \ {path} \subseteq metas', finals \subseteq finals', UNCHANGED <<rows, staged>>,
           \A k \in DOMAIN segments : k \in DOMAIN segments' /\ segments'[k] = segments[k]
    PROVE  StagedInv'
<1> USE DEF PipelineInv
<1>1. c \in Candidates /\ call[c] = "ready"
  BY DEF CutInv
<1>2. ASSUME NEW p \in staged
      PROVE  p # path /\ p \in finals' \cap metas'
  <2>1. PICK k \in DOMAIN segments : segments[k].path = p
    BY DEF StagedInv
  <2>2. /\ segments[k].of \in Candidates \ {c}
        /\ p[1] = candidates[segments[k].of].start
    BY <1>1, <2>1 DEF ListInv
  <2>3. p[1] # candidates[c].start
    BY <1>1, <2>2 DEF CutInv
  <2>4. QED
    BY <2>3 DEF StagedInv
<1>3. QED
  BY <1>2 DEF StagedInv

(* A row is staged for the clip in hand, which has its file and metadata.   *)
LEMMA StagedAdded ==
    ASSUME PipelineInv, NEW path, path \in finals \cap metas,
           rows' = [p \in DOMAIN rows \cup {path} |-> IF p = path THEN "staged" ELSE rows[p]],
           staged' = staged \cup {path}, UNCHANGED <<metas, finals>>,
           \A k \in DOMAIN segments : k \in DOMAIN segments' /\ segments'[k] = segments[k],
           \E k \in DOMAIN segments' :
              segments'[k].path = path /\ segments'[k].upload = "awaiting_publish"
    PROVE  StagedInv'
<1> USE DEF PipelineInv
<1>1. rows' \in [DOMAIN rows' -> QueueStatus]
  BY DEF StagedInv, QueueStatus
<1>2. ASSUME NEW p \in staged'
      PROVE  /\ p \in DOMAIN rows' /\ rows'[p] = "staged"
             /\ \E k \in DOMAIN segments' :
                   segments'[k].path = p /\ segments'[k].upload = "awaiting_publish"
  <2>1. CASE p = path
    BY <2>1
  <2>2. CASE p \in staged
    BY <2>2 DEF StagedInv
  <2>3. QED
    BY <2>1, <2>2
<1>3. staged' \subseteq finals' \cap metas'
  BY DEF StagedInv
<1>4. QED
  BY <1>1, <1>2, <1>3 DEF StagedInv

(* The record of a candidate names it and its window.                       *)
LEMMA CandidateRecord ==
    ASSUME NEW c, NEW v
    PROVE  LET r == Record(c, v)
           IN /\ IsRecord(r) /\ r.of = c /\ r.upload = "not_queued"
              /\ r.path[1] = candidates[c].start /\ r.status = v.status
              /\ r.duplicateOf = v.duplicateOf /\ r.trim = v.trim /\ r.core = v.core
              /\ r.heard = v.heard
  BY DEF Record, IsRecord, Clip

LEMMA FailedRecord ==
    ASSUME NEW r, IsRecord(r)
    PROVE  /\ IsRecord(Failed(r)) /\ Failed(r).of = r.of /\ Failed(r).path = r.path
           /\ Failed(r).upload = "not_queued" /\ Failed(r).status = "judge_failed"
<1>1. ASSUME NEW f, f = Failed(r)
      PROVE  IsRecord(f)
  BY <1>1 DEF IsRecord, Failed
<1>2. /\ Failed(r).of = r.of /\ Failed(r).path = r.path
      /\ Failed(r).upload = "not_queued" /\ Failed(r).status = "judge_failed"
  BY DEF IsRecord, Failed
<1>3. QED
  BY <1>1, <1>2

(* The handler of the loop, whether the progress can be written or not.     *)
LEMMA HandleKeeps ==
    ASSUME PipelineInv, phase = "judging", NEW c \in ready, NEW r, IsRecord(r), r.of = c,
           r.path[1] = candidates[c].start, NEW failed, Handle(r, failed),
           finals \subseteq finals', UNCHANGED <<candidates, groups, answer, rows, staged>>
    PROVE  PipelineInv'
<1>1. CASE Finished(c, <<Failed(r)>>) /\ metas' = metas \ {r.path} /\ phase' = phase
  <2> DEFINE s == Failed(r)
  <2>1. /\ IsRecord(s) /\ s.of = c /\ s.path = r.path /\ s.upload = "not_queued"
    BY FailedRecord
  <2> HIDE DEF s
  <2>2. /\ CutInv' /\ HandInv' /\ ListInv' /\ PhaseInv'
        /\ \A k \in DOMAIN segments : k \in DOMAIN segments' /\ segments'[k] = segments[k]
    BY <1>1, <2>1, OneListed DEF s
  <2>3. StagedInv'
    BY <1>1, <2>2, StagedKept
  <2>4. QED
    BY <2>2, <2>3 DEF PipelineInv
<1>2. CASE phase' = "raised" /\ UNCHANGED <<segments, call, ready, hand, metas>>
  <2>1. StagedInv'
    BY <1>2, StagedKept
  <2>2. QED
    BY <1>2, <2>1 DEF PipelineInv, CutInv, HandInv, ListInv, PhaseInv, Candidates, hand
<1>3. QED
  BY <1>1, <1>2 DEF Handle

LEMMA UploadRecord ==
    ASSUME NEW r, IsRecord(r), NEW status
    PROVE  LET f == [r EXCEPT !.upload = status]
           IN /\ IsRecord(f) /\ f.of = r.of /\ f.path = r.path /\ f.upload = status
              /\ f.status = r.status
<1>1. ASSUME NEW f, f = [r EXCEPT !.upload = status]
      PROVE  IsRecord(f)
  BY <1>1 DEF IsRecord
<1>2. LET f == [r EXCEPT !.upload = status]
      IN f.of = r.of /\ f.path = r.path /\ f.upload = status /\ f.status = r.status
  BY DEF IsRecord
<1>3. QED
  BY <1>1, <1>2

(* A step that only moves calls towards their collection.                   *)
LEMMA CallsMove ==
    ASSUME PipelineInv, phase = "judging", phase' \in {"judging", "raised"},
           UNCHANGED <<candidates, groups, hand, segments, disk>>,
           call' \in [Candidates -> Called], DOMAIN answer' = Candidates,
           \A c \in Candidates : call'[c] = "finished" <=> call[c] = "finished",
           \A c \in Candidates : call[c] = "finished" => answer'[c] = answer[c],
           ready' = {c \in Candidates : call'[c] = "ready"}, ready \subseteq ready'
    PROVE  PipelineInv'
<1> USE DEF PipelineInv, hand, disk
<1>1. CutInv'
  BY DEF CutInv, Candidates
<1>2. HandInv' /\ PhaseInv'
  BY DEF HandInv, PhaseInv
<1>3. ListInv'
  BY DEF ListInv, Candidates
<1>4. StagedInv'
  BY DEF StagedInv
<1>5. QED
  BY <1>1, <1>2, <1>3, <1>4

LEMMA StartCallKeeps ==
    ASSUME PipelineInv, NEW c \in Candidates, StartCall(c)
    PROVE  PipelineInv'
<1>1. call \in [Candidates -> Called] /\ ready = {d \in Candidates : call[d] = "ready"}
  BY DEF PipelineInv, CutInv
<1>2. /\ call' \in [Candidates -> Called]
      /\ \A d \in Candidates : call'[d] # call[d] => call[d] = "waiting" /\ call'[d] = "running"
  BY <1>1 DEF StartCall, Called
<1>3. QED
  BY <1>1, <1>2, CallsMove DEF StartCall, PipelineInv, CutInv

LEMMA CallEndsKeeps ==
    ASSUME PipelineInv, NEW c \in Candidates, CallEnds(c)
    PROVE  PipelineInv'
<1>1. call \in [Candidates -> Called] /\ ready = {d \in Candidates : call[d] = "ready"}
  BY DEF PipelineInv, CutInv
<1>2. /\ call' \in [Candidates -> Called]
      /\ \A d \in Candidates : call'[d] # call[d] => call[d] = "running" /\ call'[d] = "answered"
  BY <1>1 DEF CallEnds, Called
<1>3. /\ DOMAIN answer' = Candidates
      /\ \A d \in Candidates : call[d] = "finished" => answer'[d] = answer[d]
  BY DEF CallEnds, PipelineInv, CutInv
<1>4. QED
  BY <1>1, <1>2, <1>3, CallsMove DEF CallEnds

(* What is judged together with others does not touch those.                *)
LEMMA MarkedDomain ==
    ASSUME NEW answers, NEW windows, NEW group, NEW winners
    PROVE  /\ DOMAIN Marked(answers, windows, group, winners) = DOMAIN answers
           /\ \A c \in DOMAIN answers :
                 c \notin group => Marked(answers, windows, group, winners)[c] = answers[c]
  BY DEF Marked

LEMMA CollectKeeps ==
    ASSUME PipelineInv, NEW c \in Candidates, Collect(c)
    PROVE  PipelineInv'
<1>1. /\ call \in [Candidates -> Called] /\ ready = {d \in Candidates : call[d] = "ready"}
      /\ DOMAIN answer = Candidates
  BY DEF PipelineInv, CutInv
<1>2. Group(c) \subseteq Candidates
  BY DEF PipelineInv, CutInv, Group
<1>3. CASE call' = [call EXCEPT ![c] = "gathered"] /\ UNCHANGED <<phase, answer, ready>>
  <2>1. /\ call' \in [Candidates -> Called]
        /\ \A d \in Candidates :
              call'[d] # call[d] => call[d] = "answered" /\ call'[d] = "gathered"
    BY <1>1, <1>3 DEF Collect, Called
  <2>2. QED
    BY <1>1, <1>3, <2>1, CallsMove DEF Collect
<1>4. CASE /\ Complete(c) /\ phase' = phase
           /\ call' = [d \in Candidates |-> IF d \in Group(c) THEN "ready" ELSE call[d]]
           /\ ready' = Group(c)
           /\ \E winners \in {Winners(answer, candidates, Group(c))} :
                 answer' = IF Len(candidates) = 1 THEN answer
                           ELSE Marked(answer, candidates, Group(c), winners)
  <2>1. \A d \in Group(c) : call[d] \in {"answered", "gathered"}
    BY <1>4 DEF Complete, Collect
  <2>2. call' \in [Candidates -> Called]
    BY <1>1, <1>4 DEF Called
  <2>3. \A d \in Candidates : call[d] # "ready"
    BY <1>1 DEF Collect
  <2>4. ready' = {d \in Candidates : call'[d] = "ready"}
    BY <1>2, <1>4, <2>3
  <2>5. /\ DOMAIN answer' = Candidates
        /\ \A d \in Candidates : d \notin Group(c) => answer'[d] = answer[d]
    BY <1>1, <1>4, MarkedDomain
  <2>6. /\ \A d \in Candidates : call'[d] = "finished" <=> call[d] = "finished"
        /\ \A d \in Candidates : call[d] = "finished" => answer'[d] = answer[d]
    BY <1>4, <2>1, <2>5
  <2>7. ready \subseteq ready'
    BY DEF Collect
  <2>8. QED
    BY <1>4, <2>2, <2>4, <2>5, <2>6, <2>7, CallsMove DEF Collect
<1>5. CASE phase' = "raised" /\ UNCHANGED <<call, answer, ready>>
  BY <1>1, <1>5, CallsMove DEF Collect
<1>6. QED
  BY <1>3, <1>4, <1>5 DEF Collect

LEMMA AnalyseKeeps ==
    ASSUME PipelineInv, NEW c \in Candidates, Analyse(c)
    PROVE  PipelineInv'
<1> USE DEF PipelineInv
<1>1. phase = "judging" /\ step = "free" /\ c \in ready
  BY DEF Analyse
<1>2. UNCHANGED <<candidates, groups, answer, rows, finals, staged>>
  BY DEF Analyse
<1>3. ASSUME NEW failed, Handle(Bare(c), failed)
      PROVE  PipelineInv'
  <2>1. LET r == Bare(c) IN IsRecord(r) /\ r.of = c /\ r.path[1] = candidates[c].start
    BY CandidateRecord DEF Bare
  <2>2. QED
    BY <1>1, <1>2, <1>3, <2>1, HandleKeeps
<1>4. CASE answer[c] = NoClip /\ Finished(c, <<>>) /\ UNCHANGED <<phase, metas>>
  <2>1. segments' = segments
    <3>1. segments \in Seq(ToSet(segments))
      BY DEF ListInv
    <3>2. QED
      BY <1>4, <3>1 DEF Finished
  <2>2. /\ call' \in [Candidates -> Called] /\ call'[c] = "finished"
        /\ \A d \in Candidates \ {c} : call'[d] = call[d]
    BY <1>4 DEF Finished, CutInv, Called
  <2>3. CutInv'
    BY <1>1, <1>2, <1>4, <2>2 DEF CutInv, Candidates, Finished
  <2>4. HandInv' /\ PhaseInv' /\ StagedInv'
    BY <1>1, <1>2, <1>4, <2>1 DEF HandInv, PhaseInv, StagedInv, Finished
  <2>5. ListInv'
    BY <1>2, <1>4, <2>1, <2>2 DEF ListInv, Candidates
  <2>6. QED
    BY <2>3, <2>4, <2>5
<1>5. ASSUME NEW v, v.status # "keep", Finished(c, <<Record(c, v)>>), UNCHANGED <<phase, metas>>
      PROVE  PipelineInv'
  <2> DEFINE r == Record(c, v)
  <2>1. IsRecord(r) /\ r.of = c /\ r.upload = "not_queued" /\ r.path[1] = candidates[c].start
    BY CandidateRecord
  <2> HIDE DEF r
  <2>2. /\ CutInv' /\ HandInv' /\ ListInv' /\ PhaseInv'
        /\ \A k \in DOMAIN segments : k \in DOMAIN segments' /\ segments'[k] = segments[k]
    BY <1>1, <1>2, <1>5, <2>1, OneListed DEF r
  <2>3. StagedInv'
    BY <1>1, <1>2, <1>5, <2>1, <2>2, StagedKept
  <2>4. QED
    BY <2>2, <2>3
<1>6. ASSUME NEW v, step' = "burn", record' = Record(c, v),
             UNCHANGED <<segments, call, ready>>, UNCHANGED <<phase, metas>>
      PROVE  PipelineInv'
  <2>1. IsRecord(record') /\ record'.of = c /\ record'.upload = "not_queued"
        /\ record'.path[1] = candidates[c].start
    BY <1>6, CandidateRecord
  <2>2. QED
    BY <1>1, <1>2, <1>6, <2>1
       DEF CutInv, HandInv, ListInv, StagedInv, PhaseInv, Candidates
<1>7. QED
  BY <1>3, <1>4, <1>5, <1>6 DEF Analyse, Raises

(* A stage of the clip in hand that reports failure, or raises.             *)
LEMMA HandHeld ==
    ASSUME PipelineInv, step # "free"
    PROVE  /\ IsRecord(record) /\ record.of \in ready
           /\ record.path[1] = candidates[record.of].start
  BY DEF PipelineInv, HandInv

LEMMA GiveUpKeeps ==
    ASSUME PipelineInv, phase = "judging", step # "free", NEW left, GiveUp(left),
           metas \ {record.path} \subseteq left, finals' = finals,
           UNCHANGED <<candidates, groups, answer, rows, staged>>
    PROVE  PipelineInv'
<1> DEFINE s == Failed(record)
<1>1. /\ IsRecord(record) /\ record.of \in ready
      /\ record.path[1] = candidates[record.of].start
  BY HandHeld
<1>2. IsRecord(s) /\ s.of = record.of /\ s.path = record.path /\ s.upload = "not_queued"
  BY <1>1, FailedRecord
<1> HIDE DEF s
<1>3. /\ CutInv' /\ HandInv' /\ ListInv' /\ PhaseInv'
      /\ \A k \in DOMAIN segments : k \in DOMAIN segments' /\ segments'[k] = segments[k]
  BY <1>1, <1>2, OneListed DEF s, GiveUp
<1>4. StagedInv'
  BY <1>1, <1>2, <1>3, StagedKept DEF GiveUp
<1>5. QED
  BY <1>3, <1>4 DEF PipelineInv

LEMMA RaisesKeeps ==
    ASSUME PipelineInv, phase = "judging", step # "free", Raises(record),
           finals \subseteq finals', UNCHANGED <<candidates, groups, answer, rows, staged>>
    PROVE  PipelineInv'
<1>1. /\ IsRecord(record) /\ record.of \in ready
      /\ record.path[1] = candidates[record.of].start
  BY HandHeld
<1>2. QED
  BY <1>1, HandleKeeps DEF Raises

LEMMA BurnKeeps ==
    ASSUME PipelineInv, Burn
    PROVE  PipelineInv'
<1>1. CASE /\ step' = "describe" /\ finals' = finals \cup {record.path}
           /\ UNCHANGED <<phase, record, segments, call, ready, metas>>
  BY <1>1 DEF Burn, PipelineInv, CutInv, HandInv, ListInv, StagedInv, PhaseInv, Candidates
<1>2. CASE GiveUp(metas) /\ UNCHANGED finals
  BY <1>2, GiveUpKeeps DEF Burn
<1>3. CASE Raises(record) /\ finals' \in {finals, finals \cup {record.path}}
  BY <1>3, RaisesKeeps DEF Burn
<1>4. QED
  BY <1>1, <1>2, <1>3 DEF Burn

LEMMA DescribeKeeps ==
    ASSUME PipelineInv, Describe
    PROVE  PipelineInv'
<1>1. CASE /\ step' = "stage" /\ metas' = metas \cup {record.path}
           /\ UNCHANGED <<phase, record, segments, call, ready>>
  BY <1>1 DEF Describe, PipelineInv, CutInv, HandInv, ListInv, StagedInv, PhaseInv, Candidates
<1>2. CASE GiveUp(metas \ {record.path})
  BY <1>2, GiveUpKeeps DEF Describe
<1>3. CASE Raises(record)
  BY <1>3, RaisesKeeps DEF Describe
<1>4. QED
  BY <1>1, <1>2, <1>3 DEF Describe

LEMMA StageClipKeeps ==
    ASSUME PipelineInv, StageClip
    PROVE  PipelineInv'
<1> DEFINE status == StagedRow(record.path)
           upload == IF status = "staged" THEN "awaiting_publish" ELSE status
           r == [record EXCEPT !.upload = upload]
<1>1. /\ IsRecord(record) /\ record.of \in ready
      /\ record.path[1] = candidates[record.of].start
  BY HandHeld DEF StageClip
<1>2. rows \in [DOMAIN rows -> QueueStatus]
  BY DEF PipelineInv, StagedInv
<1>3. status \in QueueStatus /\ (status # "staged" => record.path \in DOMAIN rows)
      /\ (record.path \in DOMAIN rows /\ status # "staged" => status = rows[record.path])
  BY <1>2 DEF StagedRow, QueueStatus
<1>4. CASE /\ rows' = [p \in DOMAIN rows \cup {record.path} |->
                         IF p = record.path THEN status ELSE rows[p]]
           /\ staged' = IF status = "staged" THEN staged \cup {record.path} ELSE staged
           /\ Finished(record.of, <<r>>)
           /\ UNCHANGED <<phase, metas>>
  <2>1. IsRecord(r) /\ r.of = record.of /\ r.path = record.path /\ r.upload = upload
    BY <1>1, UploadRecord
  <2>2. UNCHANGED <<candidates, groups, answer, finals>> /\ phase = "judging"
    BY DEF StageClip
  <2>3. upload = "awaiting_publish" <=> status = "staged"
    BY <1>3 DEF QueueStatus
  <2>4. record.path \in finals \cap metas
    BY DEF StageClip, PipelineInv, HandInv
  <2> HIDE DEF status, r
  <2>5. /\ CutInv' /\ HandInv' /\ ListInv' /\ PhaseInv'
        /\ \A k \in DOMAIN segments : k \in DOMAIN segments' /\ segments'[k] = segments[k]
        /\ \E k \in DOMAIN segments' : segments'[k] = r
    BY <1>1, <1>4, <2>1, <2>2, <2>3, OneListed
  <2>6. StagedInv'
    <3>1. CASE status = "staged"
      <4>1. rows' = [p \in DOMAIN rows \cup {record.path} |->
                        IF p = record.path THEN "staged" ELSE rows[p]]
        BY <1>4, <3>1
      <4>2. \E k \in DOMAIN segments' :
                segments'[k].path = record.path /\ segments'[k].upload = "awaiting_publish"
        BY <2>1, <2>3, <2>5, <3>1
      <4>3. QED
        BY <1>4, <2>2, <2>4, <2>5, <3>1, <4>1, <4>2, StagedAdded
    <3>2. CASE status # "staged"
      <4>1. rows' = rows
        BY <1>2, <1>3, <1>4, <3>2
      <4>2. QED
        BY <1>1, <1>4, <2>2, <2>5, <3>2, <4>1, StagedKept
    <3>3. QED
      BY <3>1, <3>2
  <2>7. QED
    BY <2>5, <2>6 DEF PipelineInv
<1>5. CASE (GiveUp(metas \ {record.path}) \/ Raises(record)) /\ UNCHANGED <<rows, staged>>
  BY <1>5, GiveUpKeeps, RaisesKeeps DEF StageClip
<1>6. QED
  BY <1>4, <1>5 DEF StageClip

(* Sorting and naming the winners leaves whose records there are.           *)
LEMMA NamedLists ==
    ASSUME NEW list, list \in Seq(ToSet(list)), \A k \in DOMAIN list : IsRecord(list[k]),
           NEW sorted \in Arranged(list), NEW named, named = Named(sorted)
    PROVE  /\ named \in Seq(ToSet(named)) /\ DOMAIN named = DOMAIN list
           /\ \E p \in Bijection(DOMAIN list, DOMAIN list) : \A k \in DOMAIN list :
                 /\ IsRecord(named[k]) /\ named[k].of = list[p[k]].of
                 /\ named[k].path = list[p[k]].path /\ named[k].upload = list[p[k]].upload
                 /\ named[k].status = list[p[k]].status
                 /\ named[k].trim = list[p[k]].trim /\ named[k].core = list[p[k]].core
                 /\ named[k].heard = list[p[k]].heard
<1>1. PICK p \in Bijection(DOMAIN list, DOMAIN list) :
         sorted = [k \in DOMAIN list |-> list[p[k]]]
  BY DEF Arranged
<1>2. DOMAIN sorted = DOMAIN list /\ DOMAIN named = DOMAIN list
  BY <1>1 DEF Named
<1>3. ASSUME NEW k \in DOMAIN list
      PROVE  /\ p[k] \in DOMAIN list /\ sorted[k] = list[p[k]] /\ IsRecord(sorted[k])
  BY <1>1 DEF Bijection, Injection
<1>4. ASSUME NEW k \in DOMAIN list
      PROVE  named[k] = sorted[k] \/ \E x : named[k] = [sorted[k] EXCEPT !.duplicateOf = x]
  BY <1>2 DEF Named
<1>5. ASSUME NEW r, IsRecord(r), NEW x, NEW f, f = [r EXCEPT !.duplicateOf = x]
      PROVE  /\ IsRecord(f) /\ f.of = r.of /\ f.path = r.path /\ f.upload = r.upload
             /\ f.status = r.status /\ f.trim = r.trim /\ f.core = r.core
  <2>1. IsRecord(f)
    BY <1>5 DEF IsRecord
  <2>2. f.of = r.of /\ f.path = r.path /\ f.upload = r.upload
    BY <1>5 DEF IsRecord
  <2>3. f.status = r.status /\ f.trim = r.trim /\ f.core = r.core
    BY <1>5 DEF IsRecord
  <2>4. QED
    BY <2>1, <2>2, <2>3
<1>6. ASSUME NEW k \in DOMAIN list
      PROVE  /\ IsRecord(named[k]) /\ named[k].of = list[p[k]].of
             /\ named[k].path = list[p[k]].path /\ named[k].upload = list[p[k]].upload
             /\ named[k].status = list[p[k]].status
             /\ named[k].trim = list[p[k]].trim /\ named[k].core = list[p[k]].core
             /\ named[k].heard = list[p[k]].heard
  <2> DEFINE r == sorted[k]
             f == named[k]
  <2>1. IsRecord(r) /\ r = list[p[k]]
    BY <1>3
  <2>2. CASE f = r
    BY <2>1, <2>2
  <2>3. CASE \E x : f = [r EXCEPT !.duplicateOf = x]
    <3>1. PICK x : f = [r EXCEPT !.duplicateOf = x]
      BY <2>3
    <3> HIDE DEF r, f
    <3>2. /\ IsRecord(f) /\ f.of = r.of /\ f.path = r.path /\ f.upload = r.upload
          /\ f.status = r.status /\ f.trim = r.trim /\ f.core = r.core /\ f.heard = r.heard
      BY <1>5, <2>1, <3>1
    <3>3. QED
      BY <2>1, <3>2 DEF f
  <2>4. QED
    BY <1>4, <2>2, <2>3
<1>7. named \in Seq(ToSet(named))
  <2>1. Len(list) \in Nat /\ DOMAIN list = 1..Len(list)
    OBVIOUS
  <2>2. named = [k \in 1..Len(list) |-> named[k]]
    BY <1>2, <2>1 DEF Named
  <2>3. \A k \in 1..Len(list) : named[k] \in ToSet(named)
    BY <1>2, <2>1 DEF ToSet
  <2>4. QED
    BY <2>1, <2>2, <2>3
<1>8. QED
  BY <1>2, <1>6, <1>7

LEMMA FinishKeeps ==
    ASSUME PipelineInv, Finish
    PROVE  PipelineInv'
<1> USE DEF PipelineInv
<1>1. UNCHANGED <<candidates, groups, answer, call, ready, step, record, rows, metas, finals, staged>>
      /\ step = "free" /\ \A c \in Candidates : call[c] = "finished"
  BY DEF Finish, pool, hand, disk
<1>2. CutInv' /\ HandInv'
  BY <1>1 DEF CutInv, HandInv, Candidates
<1>3. CASE segments' = segments /\ phase' = "raised"
  BY <1>1, <1>2, <1>3 DEF ListInv, StagedInv, PhaseInv, Candidates
<1>4. ASSUME NEW sorted \in Ordered(segments), segments' = Named(sorted),
             phase' = IF segments = <<>> /\ Empty # Candidates THEN "failed" ELSE "done"
      PROVE  PipelineInv'
  <2>1. /\ segments \in Seq(ToSet(segments)) /\ \A k \in DOMAIN segments : IsRecord(segments[k])
        /\ sorted \in Arranged(segments)
    BY <1>4 DEF ListInv, Ordered
  <2>2. PICK p \in Bijection(DOMAIN segments, DOMAIN segments) :
           \A k \in DOMAIN segments :
              /\ IsRecord(segments'[k]) /\ segments'[k].of = segments[p[k]].of
              /\ segments'[k].path = segments[p[k]].path
              /\ segments'[k].upload = segments[p[k]].upload
    <3> DEFINE list == segments
               named == Named(sorted)
    <3>1. list \in Seq(ToSet(list)) /\ (\A k \in DOMAIN list : IsRecord(list[k]))
          /\ sorted \in Arranged(list)
      BY <2>1
    <3> HIDE DEF list, named
    <3>2. \E p \in Bijection(DOMAIN list, DOMAIN list) : \A k \in DOMAIN list :
             /\ IsRecord(named[k]) /\ named[k].of = list[p[k]].of
             /\ named[k].path = list[p[k]].path /\ named[k].upload = list[p[k]].upload
      BY <3>1, NamedLists DEF named
    <3>3. QED
      BY <1>4, <3>2 DEF list, named
  <2>3. segments' \in Seq(ToSet(segments')) /\ DOMAIN segments' = DOMAIN segments
    BY <1>4, <2>1, NamedLists
  <2>4. /\ \A k \in DOMAIN segments : p[k] \in DOMAIN segments
        /\ \A j, k \in DOMAIN segments : p[j] = p[k] => j = k
        /\ \A k \in DOMAIN segments : \E j \in DOMAIN segments : p[j] = k
    BY DEF Bijection, Injection, Surjection, IsInjective
  <2>5. ListInv'
    <3>1. ASSUME NEW k \in DOMAIN segments
          PROVE  /\ IsRecord(segments'[k])
                 /\ segments'[k].of \in Candidates /\ call[segments'[k].of] = "finished"
                 /\ segments'[k].path[1] = candidates[segments'[k].of].start
                 /\ segments'[k].upload = "awaiting_publish" => segments'[k].path \in staged
      <4> DEFINE q == p[k]
      <4>1. q \in DOMAIN segments
        BY <2>4
      <4>2. /\ IsRecord(segments'[k]) /\ segments'[k].of = segments[q].of
            /\ segments'[k].path = segments[q].path /\ segments'[k].upload = segments[q].upload
        BY <2>2
      <4> HIDE DEF q
      <4>3. QED
        BY <4>1, <4>2 DEF ListInv
    <3>2. ASSUME NEW j \in DOMAIN segments, NEW k \in DOMAIN segments,
                 segments'[j].of = segments'[k].of
          PROVE  j = k
      <4>1. segments[p[j]].of = segments[p[k]].of
        BY <2>2, <3>2
      <4>2. \A a, b \in DOMAIN segments : segments[a].of = segments[b].of => a = b
        BY DEF ListInv
      <4>3. p[j] = p[k]
        <5>1. p[j] \in DOMAIN segments /\ p[k] \in DOMAIN segments
          BY <2>4
        <5>2. QED
          BY ONLY <4>1, <4>2, <5>1
      <4>4. QED
        BY <2>4, <4>3
    <3>3. ASSUME NEW c \in Candidates, call[c] = "finished", answer[c] # NoClip
          PROVE  \E k \in DOMAIN segments : segments'[k].of = c
      <4>1. PICK k \in DOMAIN segments : segments[k].of = c
        BY <3>3 DEF ListInv
      <4>2. PICK j \in DOMAIN segments : p[j] = k
        BY <2>4
      <4>3. QED
        BY <2>2, <4>1, <4>2
    <3>4. QED
      BY <1>1, <2>3, <3>1, <3>2, <3>3 DEF ListInv, Candidates
  <2>6. StagedInv'
    <3>1. ASSUME NEW q \in staged
          PROVE  \E k \in DOMAIN segments :
                    segments'[k].path = q /\ segments'[k].upload = "awaiting_publish"
      <4>1. PICK k \in DOMAIN segments :
               segments[k].path = q /\ segments[k].upload = "awaiting_publish"
        BY DEF StagedInv
      <4>2. PICK j \in DOMAIN segments : p[j] = k
        BY <2>4
      <4>3. QED
        BY <2>2, <4>1, <4>2
    <3>2. QED
      BY <1>1, <2>3, <3>1 DEF StagedInv
  <2>7. segments = <<>> => Empty = Candidates
    BY <1>1 DEF ListInv, Empty
  <2>8. PhaseInv'
    BY <1>1, <1>4, <2>7 DEF PhaseInv, Candidates
  <2>9. QED
    BY <1>2, <2>5, <2>6, <2>8
<1>5. QED
  BY <1>3, <1>4 DEF Finish

-----------------------------------------------------------------------------
LEMMA InitPipeline == Init => PipelineInv
<1> SUFFICES ASSUME Init
             PROVE  PipelineInv
  OBVIOUS
<1> USE DEF Init, Candidates
<1>1. CutInv
  BY DEF CutInv, ToSet
<1>2. ListInv
  BY DEF ListInv, ToSet
<1>3. rows \in [DOMAIN rows -> QueueStatus]
  <2>1. CASE rows = <<>>
    BY <2>1
  <2>2. CASE rows \in Earlier
    BY <2>2, PipelineAssumption
  <2>3. QED
    BY <2>1, <2>2
<1>4. QED
  BY <1>1, <1>2, <1>3 DEF PipelineInv, HandInv, StagedInv, PhaseInv

LEMMA CutKeeps ==
    ASSUME PipelineInv, Cut
    PROVE  PipelineInv'
<1> USE DEF PipelineInv
<1>1. phase = "recorded" /\ candidates = <<>> /\ step = "free"
  BY DEF Cut, PhaseInv
<1>2. segments = <<>> /\ staged = {}
  BY <1>1 DEF ListInv, StagedInv, Candidates
<1>3. CASE /\ phase' = "judging" /\ candidates' = Detect(density)
           /\ LET all == DOMAIN candidates'
              IN /\ call' = [c \in all |-> "waiting"]
                 /\ answer' = [c \in all |-> NoClip]
                 /\ groups' = Grouped(all)
  <2>1. Apart(candidates')
    BY <1>3, CutsApart DEF Cut
  <2>2. PICK n \in Nat : DOMAIN candidates' = 1..n
    BY <2>1 DEF Apart
  <2>3. groups' \subseteq SUBSET Candidates' /\ UNION groups' = Candidates'
    <3>1. Candidates' = 1..n /\ groups' = Grouped(1..n)
      BY <1>3, <2>2 DEF Candidates
    <3>2. QED
      BY <3>1, GroupsCluster DEF Clusters
  <2>4. ready = {}
    BY <1>1 DEF CutInv, Candidates
  <2>5. CutInv'
    BY <1>3, <2>1, <2>3, <2>4 DEF Apart, CutInv, Called, Candidates, Cut
  <2>6. QED
    BY <1>1, <1>2, <1>3, <2>5 DEF Cut, HandInv, ListInv, StagedInv, PhaseInv, Candidates, hand, disk
<1>4. CASE phase' \in {"failed", "raised"} /\ UNCHANGED <<candidates, groups, answer, pool>>
  BY <1>1, <1>4 DEF Cut, CutInv, HandInv, ListInv, StagedInv, PhaseInv, Candidates, hand, disk, pool
<1>5. QED
  BY <1>3, <1>4 DEF Cut

(* PipelineInv holds in every state of a run.                               *)
THEOREM PipelineInvariant == Spec => []PipelineInv
<1>1. PipelineInv /\ [Next]_vars => PipelineInv'
  <2> SUFFICES ASSUME PipelineInv, [Next]_vars
               PROVE  PipelineInv'
    OBVIOUS
  <2>1. CASE TurnAway
    BY <2>1 DEF TurnAway, PipelineInv, CutInv, HandInv, ListInv, StagedInv, PhaseInv,
                Candidates, pool, hand, disk
  <2>2. CASE UNCHANGED vars
    BY <2>2 DEF vars, PipelineInv, CutInv, HandInv, ListInv, StagedInv, PhaseInv,
                Candidates, pool, hand, disk
  <2>3. QED
    BY <2>1, <2>2, CutKeeps, StartCallKeeps, CallEndsKeeps, CollectKeeps, AnalyseKeeps,
       BurnKeeps, DescribeKeeps, StageClipKeeps, FinishKeeps DEF Next, Worker
<1>2. QED
  BY InitPipeline, <1>1, PTL DEF Spec

(* Every clip the model gave ends as one segment, and what is staged has    *)
(* its file, its metadata and its entry in the list, whatever fails.        *)
THEOREM StagedListed == Spec => []StagedIsListed
<1>1. PipelineInv => StagedIsListed
  <2> SUFFICES ASSUME PipelineInv
               PROVE  StagedIsListed
    OBVIOUS
  <2> USE DEF PipelineInv
  <2>1. staged \subseteq finals \cap metas /\ \A p \in staged : rows[p] = "staged"
    BY DEF StagedInv
  <2>2. phase = "failed" => candidates = <<>>
    BY DEF PhaseInv
  <2>3. ASSUME phase = "done", NEW c \in Candidates
        PROVE  LET listed == {k \in DOMAIN segments : segments[k].of = c}
               IN Cardinality(listed) <= 1 /\ (listed = {} => answer[c] = NoClip)
    <3> DEFINE listed == {k \in DOMAIN segments : segments[k].of = c}
    <3>1. \A j, k \in listed : j = k
      BY DEF ListInv
    <3>2. Cardinality(listed) <= 1
      <4>1. CASE listed = {}
        BY <4>1, FS_EmptySet
      <4>2. CASE listed # {}
        <5>1. PICK k \in listed : listed = {k}
          BY <3>1, <4>2
        <5> HIDE DEF listed
        <5>2. Cardinality({k}) = 1
          BY FS_Singleton
        <5>3. QED
          BY <5>1, <5>2
      <4>3. QED
        BY <4>1, <4>2
    <3>3. listed = {} => answer[c] = NoClip
      BY <2>3 DEF ListInv, PhaseInv
    <3>4. QED
      BY <3>2, <3>3
  <2>4. staged = {s.path : s \in {t \in ToSet(segments) : t.upload = "awaiting_publish"}}
    BY DEF ListInv, StagedInv, ToSet
  <2>5. QED
    BY <2>1, <2>2, <2>3, <2>4 DEF StagedIsListed
<1>2. QED
  BY <1>1, PipelineInvariant, PTL

(* Every bursting second of every recording is shown or gives way to what   *)
(* is at least as dense, and every window fits.                             *)
THEOREM CutComplete == Spec => []CutIsComplete
<1> DEFINE Inv == density \in Densities
<1>1. Init => Inv
  BY DEF Init
<1>2. Inv /\ [Next]_vars => Inv'
  BY DEF Next, vars, TurnAway, Cut, Worker, StartCall, CallEnds, Collect, Analyse, Burn,
         Describe, StageClip, Finish
<1>3. Inv => CutIsComplete
  <2> SUFFICES ASSUME density \in Densities
               PROVE  CutIsComplete
    OBVIOUS
  <2>1. Lasting(Lasts(density), density)
    BY RecordingLasts
  <2>2. \A i \in Bursting(density) : Accounted(density, i)
    BY <2>1, CutAccounts
  <2>3. \A k \in DOMAIN Detect(density) : Fits(density, Detect(density)[k])
    <3>1. TAKE k \in DOMAIN Detect(density)
    <3>2. PICK b \in Burst(Lasts(density)) : Detect(density)[k] = Event(density, b)
      BY <2>1, ChosenIsEvent
    <3>3. QED
      BY <2>1, <3>2, EventFits
  <2>4. QED
    BY <2>2, <2>3 DEF CutIsComplete
<1>4. QED
  BY <1>1, <1>2, <1>3, PTL DEF Spec

-----------------------------------------------------------------------------
(* Judgement.                                                               *)

IsVerdict(v) ==
    /\ v = [status |-> v.status, trim |-> v.trim, core |-> v.core, scores |-> v.scores,
            rank |-> v.rank, passes |-> v.passes, topic |-> v.topic, heard |-> v.heard,
            key |-> v.key, duplicateOf |-> v.duplicateOf]
    /\ v.trim \in Span /\ v.core \in Span /\ v.passes \in BOOLEAN

(* A clip as the model gave it is nobody's duplicate.                       *)
Topics == STRING \cup {"none"}
Said == {Verdict(status, clip) :
            status \in {"keep", "review", "judge_failed", "no_clip", "raised"},
            clip \in [trim : Span, core : Span, scores : Int, rank : Int, passes : BOOLEAN,
                      topic : Topics]}

LEMMA VerdictIsSaid ==
    ASSUME NEW status \in {"keep", "review", "judge_failed", "no_clip", "raised"}, NEW clip,
           clip.trim \in Span, clip.core \in Span, clip.scores \in Int, clip.rank \in Int,
           clip.passes \in BOOLEAN, clip.topic \in Topics
    PROVE  Verdict(status, clip) \in Said
<1> DEFINE plain == [trim |-> clip.trim, core |-> clip.core, scores |-> clip.scores,
                     rank |-> clip.rank, passes |-> clip.passes, topic |-> clip.topic]
<1>1. plain \in [trim : Span, core : Span, scores : Int, rank : Int, passes : BOOLEAN,
                 topic : Topics]
  OBVIOUS
<1>2. Verdict(status, clip) = Verdict(status, plain)
  BY DEF Verdict
<1> HIDE DEF plain
<1>3. QED
  BY <1>1, <1>2 DEF Said

LEMMA SaidIsVerdict ==
    ASSUME NEW v \in Said
    PROVE  IsVerdict(v) /\ v.duplicateOf = NoRange
BY DEF Said, Verdict, IsVerdict

LEMMA NoneIsSaid == NoClip \in Said /\ Raised \in Said /\ FailedCall \in Said
<1>1. NoRange \in Span
  BY DEF Span, NoRange
<1>2. /\ Unknown.trim = NoRange /\ Unknown.core = NoRange
      /\ Unknown.scores \in Int /\ Unknown.rank \in Int
      /\ Unknown.passes \in BOOLEAN /\ Unknown.topic \in Topics
  <2>1. /\ Unknown.trim = NoRange /\ Unknown.core = NoRange
        /\ Unknown.scores = 0 /\ Unknown.rank = 0
        /\ Unknown.topic = "none"
    BY DEF Unknown
  <2>2. "none" \in Topics
    BY DEF Topics
  <2>3. Unknown.passes \in BOOLEAN
    BY DEF Unknown
  <2>4. QED
    BY <2>1, <2>2, <2>3
<1>3. Unknown.trim \in Span /\ Unknown.core \in Span
  BY <1>1, <1>2
<1>4. QED
  BY <1>2, <1>3, VerdictIsSaid DEF NoClip, Raised, FailedCall

LEMMA PrimaryIsSaid ==
    ASSUME NEW best \in Said, NEW clip \in Reply
    PROVE  Primary(best, clip) \in Said
<1>1. clip.form # "drop" => Parsed(clip) \in Said
  BY NoneIsSaid, VerdictIsSaid DEF Parsed, Reply, Topics
<1>2. QED
  BY <1>1 DEF Primary

LEMMA AnswerIsSaid ==
    ASSUME NEW d \in FollowedUp, NEW given \in Answers[d]
    PROVE  Answer(given) \in Said
<1> DEFINE reply == given.reply
           m == Len(reply)
           S == 1..m
           F == [p \in S \X Said |-> Primary(p[2], reply[p[1]])]
           Fold(h) == h = [s \in SUBSET S |->
                             IF s = {} THEN NoClip ELSE Primary(h[s \ {Max(s)}], reply[Max(s)])]
           h == CHOOSE h : Fold(h)
<1>1. reply \in Seq(Reply)
  BY PipelineAssumption
<1>2. m \in Nat /\ DOMAIN reply = S /\ \A k \in S : reply[k] \in Reply
  BY <1>1
<1> HIDE DEF reply
<1>3. F \in [S \X Said -> Said]
  <2> HIDE DEF m
  <2>1. QED
    BY <1>2, PrimaryIsSaid
<1>4. \A s \in SUBSET S : s # {} => Max(s) \in S /\ s \ {Max(s)} \in SUBSET S
  <2> HIDE DEF m
  <2>1. QED
    BY <1>2, MaxOf
<1>5. NoClip \in Said
  BY NoneIsSaid
<1>6. Fold(h)
  <2>1. PICK g \in [SUBSET S -> Said] : Computes(S, NoClip, F, Greatest(m), g)
    <3> HIDE DEF F, m
    <3>1. QED
      BY <1>2, <1>3, <1>5, WalkExists
  <2> HIDE DEF m
  <2>2. \A s \in SUBSET S : s # {} =>
           F[<<Max(s), g[s \ {Max(s)}]>>] = Primary(g[s \ {Max(s)}], reply[Max(s)])
    <3>1. \A k \in S, y \in Said : F[<<k, y>>] = Primary(y, reply[k])
      OBVIOUS
    <3> HIDE DEF F
    <3>2. \A s \in SUBSET S : s # {} => Max(s) \in S /\ g[s \ {Max(s)}] \in Said
      BY <1>4, <2>1
    <3>3. QED
      BY <3>1, <3>2
  <2>3. \A s \in SUBSET S :
           g[s] = IF s = {} THEN NoClip ELSE Primary(g[s \ {Max(s)}], reply[Max(s)])
    <3> HIDE DEF F
    <3>1. QED
      BY <2>1, <2>2 DEF Computes, Greatest
  <2>4. Fold(g)
    BY <2>1, <2>3
  <2>5. QED
    BY <2>4
<1>7. FoldLeft(Primary, NoClip, reply) = h[S]
  BY <1>2, <1>4 DEF FoldLeft, MapThenFoldSet
<1>8. FoldsTo(S, Said, NoClip, F, Greatest(m), h)
  BY <1>4, <1>6 DEF FoldsTo, Greatest
<1>9. h[S] \in Said
  <2>1. IsFiniteSet(S)
    BY <1>2, FS_Interval
  <2>2. Picks(S, Greatest(m))
    BY <1>4, MaxOf, <1>2 DEF Picks, Greatest
  <2> HIDE DEF F, h, m
  <2>3. QED
    BY <1>3, <1>5, <1>8, <2>1, <2>2, FoldStays
<1>10. QED
  BY <1>7, <1>9, NoneIsSaid DEF Answer, reply

(* Judging a group together leaves what the model gave but the status, and  *)
(* no duplicate is kept.                                                    *)
LEMMA MarkedVerdicts ==
    ASSUME NEW answers, NEW windows, NEW group, NEW winners, NEW c \in DOMAIN answers,
           answers[c] \in Said
    PROVE  LET v == Marked(answers, windows, group, winners)[c]
           IN /\ IsVerdict(v) /\ v.passes = answers[c].passes /\ v.trim = answers[c].trim
              /\ v.duplicateOf # NoRange => v.status = "review"
<1> DEFINE a == answers[c]
           v == Marked(answers, windows, group, winners)[c]
<1>1. IsVerdict(a) /\ a.duplicateOf = NoRange
  BY SaidIsVerdict
<1>2. \/ v = a
      \/ v = QualityGate(a)
      \/ \E k : v = [a EXCEPT !.key = k]
      \/ \E x : v = [a EXCEPT !.status = "review", !.duplicateOf = x]
  BY DEF Marked
<1> SUFFICES /\ IsVerdict(v) /\ v.passes = a.passes /\ v.trim = a.trim
             /\ v.duplicateOf # NoRange => v.status = "review"
  OBVIOUS
<1> HIDE DEF a, v
<1>3. CASE v = a
  BY <1>1, <1>3
<1>4. CASE v = QualityGate(a)
  <2>1. v = a \/ v = [a EXCEPT !.status = "review"]
    BY <1>4 DEF QualityGate
  <2>2. \A f : f = [a EXCEPT !.status = "review"] =>
           /\ IsVerdict(f) /\ f.passes = a.passes /\ f.trim = a.trim
           /\ f.duplicateOf = NoRange
    BY <1>1 DEF IsVerdict
  <2>3. QED
    BY <1>1, <2>1, <2>2
<1>5. CASE \E k : v = [a EXCEPT !.key = k]
  <2>1. ASSUME NEW f, NEW k, f = [a EXCEPT !.key = k]
        PROVE  /\ IsVerdict(f) /\ f.passes = a.passes /\ f.trim = a.trim
               /\ f.duplicateOf = NoRange
    <3>1. /\ f.trim = a.trim /\ f.core = a.core /\ f.passes = a.passes
          /\ f.duplicateOf = a.duplicateOf
      BY <1>1, <2>1 DEF IsVerdict
    <3>2. f = [status |-> f.status, trim |-> f.trim, core |-> f.core, scores |-> f.scores,
               rank |-> f.rank, passes |-> f.passes, topic |-> f.topic, heard |-> f.heard,
               key |-> f.key, duplicateOf |-> f.duplicateOf]
      BY <1>1, <2>1 DEF IsVerdict
    <3>3. QED
      BY <1>1, <3>1, <3>2 DEF IsVerdict
  <2>2. QED
    BY <1>5, <2>1
<1>6. CASE \E x : v = [a EXCEPT !.status = "review", !.duplicateOf = x]
  <2>1. ASSUME NEW f, NEW x, f = [a EXCEPT !.status = "review", !.duplicateOf = x]
        PROVE  /\ IsVerdict(f) /\ f.passes = a.passes /\ f.trim = a.trim
               /\ f.status = "review"
    <3>1. /\ f.trim = a.trim /\ f.core = a.core /\ f.passes = a.passes
          /\ f.status = "review"
      BY <1>1, <2>1 DEF IsVerdict
    <3>2. f = [status |-> f.status, trim |-> f.trim, core |-> f.core, scores |-> f.scores,
               rank |-> f.rank, passes |-> f.passes, topic |-> f.topic, heard |-> f.heard,
               key |-> f.key, duplicateOf |-> f.duplicateOf]
      BY <1>1, <2>1 DEF IsVerdict
    <3>3. QED
      BY <1>1, <3>1, <3>2 DEF IsVerdict
  <2>2. QED
    BY <1>6, <2>1
<1>7. QED
  BY <1>2, <1>3, <1>4, <1>5, <1>6

LEMMA EndsOf ==
    ASSUME NEW low \in Int, NEW high \in Int, NEW S \in SUBSET (low .. high), S # {}
    PROVE  Max(S) \in S /\ Min(S) \in S
<1> DEFINE Above == {x - low : x \in S}
           Below == {high - x : x \in S}
<1>1. Above \in SUBSET Nat /\ Below \in SUBSET Nat /\ Above # {} /\ Below # {}
  OBVIOUS
<1> HIDE DEF Above, Below
<1>2. PICK a \in Above : \A j \in Above : a <= j
  BY <1>1, LeastElement
<1>3. PICK b \in Below : \A j \in Below : b <= j
  BY <1>1, LeastElement
<1>4. PICK x \in S : a = x - low
  BY DEF Above
<1>5. PICK y \in S : b = high - y
  BY DEF Below
<1>6. \A z \in S : x <= z
  <2>1. TAKE z \in S
  <2>2. z - low \in Above
    BY DEF Above
  <2>3. QED
    BY <1>2, <1>4, <2>2
<1>7. \A z \in S : y >= z
  <2>1. TAKE z \in S
  <2>2. high - z \in Below
    BY DEF Below
  <2>3. QED
    BY <1>3, <1>5, <2>2
<1>8. QED
  BY <1>6, <1>7 DEF Max, Min

(* The evidence keeps a trim a range.                                       *)
LEMMA RepairedIsSpan ==
    ASSUME NEW v, v.trim \in Span, v.core \in Span, NEW heard
    PROVE  LET t == Repaired(v, heard) IN t[1] \in Int /\ t[2] \in Int
<1> DEFINE wide == <<Min({v.trim[1], v.core[1]}), Max({v.trim[2], v.core[2]})>>
           starts == {s[1] : s \in heard} \cap (wide[1] - Tolerance) .. wide[1]
           ends == {s[2] : s \in heard} \cap wide[2] .. (wide[2] + Tolerance)
<1>1. wide[1] \in Int /\ wide[2] \in Int
  <2>1. /\ v.trim[1] \in Int /\ v.trim[2] \in Int
        /\ v.core[1] \in Int /\ v.core[2] \in Int
    BY DEF Span
  <2>2. /\ Min({v.trim[1], v.core[1]}) \in Int
        /\ Max({v.trim[2], v.core[2]}) \in Int
    BY <2>1, TwoNumbers
  <2>3. QED
    BY <2>2
<1>2. Repaired(v, heard) = <<IF starts = {} THEN wide[1] ELSE Max(starts),
                             IF ends = {} THEN wide[2] ELSE Min(ends)>>
  BY DEF Repaired, Snapped
<1>3. Tolerance \in Int
  BY JudgementAssumption
<1> HIDE DEF wide
<1>4. starts # {} => Max(starts) \in Int
  <2>1. starts \in SUBSET ((wide[1] - Tolerance) .. wide[1]) /\ wide[1] - Tolerance \in Int
    BY <1>1, <1>3
  <2> DEFINE low == wide[1] - Tolerance
             high == wide[1]
  <2> HIDE DEF starts, low, high
  <2>2. low \in Int /\ high \in Int /\ starts \in SUBSET (low .. high)
    BY <1>1, <2>1 DEF low, high
  <2>3. starts # {} => Max(starts) \in starts
    BY <2>2, EndsOf
  <2>4. low .. high \subseteq Int
    BY <2>2
  <2>5. QED
    BY <2>2, <2>3, <2>4, Zenon
<1>5. ends # {} => Min(ends) \in Int
  <2>1. ends \in SUBSET (wide[2] .. (wide[2] + Tolerance)) /\ wide[2] + Tolerance \in Int
    BY <1>1, <1>3
  <2> DEFINE low == wide[2]
             high == wide[2] + Tolerance
  <2> HIDE DEF ends, low, high
  <2>2. low \in Int /\ high \in Int /\ ends \in SUBSET (low .. high)
    BY <1>1, <2>1 DEF low, high
  <2>3. ends # {} => Min(ends) \in ends
    BY <2>2, EndsOf
  <2>4. low .. high \subseteq Int
    BY <2>2
  <2>5. QED
    BY <2>2, <2>3, <2>4, Zenon
<1> HIDE DEF starts, ends
<1>6. QED
  BY <1>1, <1>2, <1>4, <1>5

(* Speech before the core and after it, within the trim.                    *)
HeardAround(s) ==
    /\ \E h \in s.heard : h[1] < s.core[1] /\ h[2] > s.trim[1]
    /\ \E h \in s.heard : h[2] > s.core[2] /\ h[1] < s.trim[2]

(* What is kept after the evidence passed every gate before it.             *)
LEMMA KeptVerdict ==
    ASSUME NEW a, IsVerdict(a), NEW length, NEW burst, NEW before, NEW after,
           before \in SUBSET Spoken, after \in SUBSET Spoken,
           NEW v, v = Analysed(a, length, burst, before, after), v.status = "keep"
    PROVE  /\ v.core = a.core /\ a.passes /\ a.status = "keep"
           /\ ValidTrim(a.trim, length) /\ ~AtBoundary(a.trim, length)
           /\ ValidTrim(v.trim, length) /\ Covers(v.trim, v.core)
           /\ burst[2] > burst[1] => Meets(v.core, burst)
           /\ HeardAround(v) /\ (before # {} => v.heard \subseteq before)
<1> DEFINE g == QualityGate(a)
           speeches == IF before # {} THEN before ELSE after
           proof == Prepared(g, length, burst, speeches)
<1>1. g = a \/ g = [a EXCEPT !.status = "review"]
  BY DEF QualityGate
<1>2. IsVerdict(g) /\ g.core = a.core /\ g.trim = a.trim /\ g.status \in {a.status, "review"}
  BY <1>1 DEF IsVerdict
<1>3. g.status = "keep" => a.status = "keep" /\ a.passes
  <2>1. CASE a.status = "keep" /\ ~a.passes
    <3>1. g = [a EXCEPT !.status = "review"]
      BY <2>1 DEF QualityGate
    <3>2. g.status = "review"
      BY <3>1 DEF IsVerdict
    <3>3. QED
      BY <3>2
  <2>2. CASE ~(a.status = "keep" /\ ~a.passes)
    <3>1. g = a
      BY <2>2 DEF QualityGate
    <3>2. QED
      BY <2>2, <3>1 DEF IsVerdict
  <2>3. QED
    BY <2>1, <2>2
<1> HIDE DEF g, proof
<1>4. \A f : f = [g EXCEPT !.status = "judge_failed", !.trim = NoRange] => f.status = "judge_failed"
  BY <1>2 DEF IsVerdict
<1>5. \A f : f = [g EXCEPT !.status = "review"] => f.status = "review"
  BY <1>2 DEF IsVerdict
<1>6. \A f, s, t : f = [g EXCEPT !.status = s, !.trim = t] => f.status = s
  BY <1>2 DEF IsVerdict
<1>7. \A t, h : /\ [g EXCEPT !.trim = t].status = g.status
                /\ [g EXCEPT !.trim = t, !.heard = h].status = g.status
  BY <1>2 DEF IsVerdict
<1>8. /\ v = [g EXCEPT !.trim = proof.trim, !.heard = proof.heard] /\ proof.ok
      /\ g.status = "keep" /\ ValidTrim(g.trim, length) /\ ~AtBoundary(g.trim, length)
  <2>1. a.status # "judge_failed"
    <3>1. a.status = "judge_failed" => v = a
      BY DEF Analysed
    <3>2. QED
      BY <3>1
  <2>2. ~(a.status # "review" /\ ~ValidTrim(g.trim, length))
    <3>1. a.status # "review" /\ ~ValidTrim(g.trim, length) =>
             v = [g EXCEPT !.status = "judge_failed", !.trim = NoRange]
      BY <2>1 DEF Analysed, g
    <3>2. QED
      BY <1>4, <3>1
  <2>3. g.status # "review"
    <3>1. g.status = "review" => v = ForReview(g, length, burst, before, after)
      BY <2>1, <2>2 DEF Analysed, g
    <3>2. ForReview(g, length, burst, before, after).status = g.status
      BY <1>7 DEF ForReview
    <3>3. QED
      BY <3>1, <3>2
  <2>4. ~AtBoundary(g.trim, length)
    <3>1. AtBoundary(g.trim, length) => v = [g EXCEPT !.status = "review"]
      BY <2>1, <2>2, <2>3 DEF Analysed, g
    <3>2. QED
      BY <1>5, <3>1
  <2>5. v = IF proof.ok THEN [g EXCEPT !.trim = proof.trim, !.heard = proof.heard]
            ELSE [g EXCEPT !.status = IF before # {} THEN "review" ELSE "judge_failed",
                           !.trim = proof.trim]
    BY <2>1, <2>2, <2>3, <2>4 DEF Analysed, g, proof
  <2>6. proof.ok
    <3>1. ~proof.ok => v.status # "keep"
      BY <1>6, <2>5
    <3>2. QED
      BY <3>1
  <2>7. v = [g EXCEPT !.trim = proof.trim, !.heard = proof.heard]
    BY <2>5, <2>6
  <2>8. g.status = "keep"
    BY <1>7, <2>7
  <2>9. a.status # "review"
    BY <1>3, <2>8
  <2>10. QED
    BY <2>2, <2>4, <2>6, <2>7, <2>8, <2>9
<1>9. v.core = a.core /\ v.trim = proof.trim /\ v.heard = proof.heard
  BY <1>2, <1>8 DEF IsVerdict
<1> DEFINE trim == Repaired(g, speeches)
<1>10. /\ ~NoEvidence(g, length, burst, speeches) /\ proof.trim = trim
       /\ ~Unproven(g, trim, length, speeches)
       /\ proof.heard = {s \in speeches : Meets(s, trim)}
  BY <1>8 DEF Prepared, proof
<1> HIDE DEF trim
<1>11. ValidTrim(trim, length) /\ Covers(trim, g.core) /\ (burst[2] > burst[1] => Meets(g.core, burst))
  BY <1>10 DEF NoEvidence, Unproven
<1>12. HeardAround(v)
  <2>1. PICK h \in speeches : h[1] < g.core[1] /\ h[2] > trim[1]
    BY <1>10 DEF Unproven
  <2>2. PICK k \in speeches : k[2] > g.core[2] /\ k[1] < trim[2]
    BY <1>10 DEF Unproven
  <2>3. /\ {h[1], h[2], k[1], k[2], g.core[1], g.core[2], trim[1], trim[2]} \subseteq Int
        /\ h[1] < h[2] /\ k[1] < k[2]
    <3>1. trim[1] \in Int /\ trim[2] \in Int
      BY <1>2, RepairedIsSpan DEF IsVerdict, trim
    <3>2. speeches \subseteq Spoken
      OBVIOUS
    <3>3. g.core[1] \in Int /\ g.core[2] \in Int
      BY <1>2 DEF IsVerdict, Span
    <3> HIDE DEF speeches
    <3>4. QED
      BY <2>1, <2>2, <3>1, <3>2, <3>3 DEF Spoken, Span
  <2>4. trim[1] <= g.core[1] /\ g.core[1] < g.core[2] /\ g.core[2] <= trim[2]
    BY <1>10, <1>11, <2>3 DEF Covers, NoEvidence
  <2>5. /\ Min({h[2], trim[2]}) > Max({h[1], trim[1]})
        /\ Min({k[2], trim[2]}) > Max({k[1], trim[1]})
    <3> DEFINE h1 == h[1]
               h2 == h[2]
               k1 == k[1]
               k2 == k[2]
               t1 == trim[1]
               t2 == trim[2]
               c1 == g.core[1]
               c2 == g.core[2]
    <3>1. /\ h1 \in Int /\ h2 \in Int /\ k1 \in Int /\ k2 \in Int
          /\ t1 \in Int /\ t2 \in Int /\ c1 \in Int /\ c2 \in Int
      BY <2>3
    <3>2. /\ h1 < h2 /\ k1 < k2 /\ h1 < c1 /\ h2 > t1 /\ k2 > c2 /\ k1 < t2
          /\ t1 <= c1 /\ c1 < c2 /\ c2 <= t2
      BY <2>1, <2>2, <2>3, <2>4
    <3> HIDE DEF h1, h2, k1, k2, t1, t2, c1, c2
    <3>3. /\ Min({h2, t2}) = IF h2 <= t2 THEN h2 ELSE t2
          /\ Max({h1, t1}) = IF h1 >= t1 THEN h1 ELSE t1
          /\ Min({k2, t2}) = IF k2 <= t2 THEN k2 ELSE t2
          /\ Max({k1, t1}) = IF k1 >= t1 THEN k1 ELSE t1
      BY <3>1, TwoNumbers
    <3>4. Min({h2, t2}) > Max({h1, t1}) /\ Min({k2, t2}) > Max({k1, t1})
      BY <3>1, <3>2, <3>3
    <3>5. QED
      BY <3>4 DEF h1, h2, k1, k2, t1, t2
  <2>6. h \in v.heard /\ k \in v.heard
    BY <1>9, <1>10, <2>5 DEF Meets
  <2>7. v.core = g.core /\ v.trim = trim
    BY <1>2, <1>9, <1>10
  <2>8. QED
    BY <2>1, <2>2, <2>6, <2>7 DEF HeardAround
<1>13. before # {} => v.heard \subseteq before
  BY <1>9, <1>10
<1>14. QED
  BY <1>2, <1>3, <1>8, <1>9, <1>10, <1>11, <1>12, <1>13

(* Ranges that meet in the window meet in the recording.                    *)
LEMMA MeetsMoved ==
    ASSUME NEW core \in Span, NEW start \in Int, NEW from \in Int, NEW to \in Int,
           Meets(core, <<from - start, to - start>>)
    PROVE  Meets(<<core[1] + start, core[2] + start>>, <<from, to>>)
<1>1. core[1] \in Int /\ core[2] \in Int
  BY DEF Span
<1> DEFINE c1 == core[1]
           c2 == core[2]
<1> HIDE DEF c1, c2
<1>2. c1 \in Int /\ c2 \in Int
  BY <1>1 DEF c1, c2
<1>0. \A x, y \in Int : /\ Max({x, y}) = IF x >= y THEN x ELSE y
                        /\ Min({x, y}) = IF x <= y THEN x ELSE y
  BY TwoNumbers
<1>m. to - start \in Int /\ from - start \in Int /\ c2 + start \in Int /\ c1 + start \in Int
  BY <1>2
<1>3. Min({c2, to - start}) = IF c2 <= to - start THEN c2 ELSE to - start
  BY ONLY <1>0, <1>2, <1>m
<1>4. Max({c1, from - start}) = IF c1 >= from - start THEN c1 ELSE from - start
  BY ONLY <1>0, <1>2, <1>m
<1>5. Min({c2 + start, to}) = IF c2 + start <= to THEN c2 + start ELSE to
  BY ONLY <1>0, <1>m, to \in Int
<1>6. Max({c1 + start, from}) = IF c1 + start >= from THEN c1 + start ELSE from
  BY ONLY <1>0, <1>m, from \in Int
<1>7. Min({c2, to - start}) > Max({c1, from - start})
  BY DEF Meets, c1, c2
<1>8. Min({c2 + start, to}) > Max({c1 + start, from})
  BY <1>2, <1>3, <1>4, <1>5, <1>6, <1>7
<1>9. QED
  BY <1>8 DEF Meets, c1, c2


-----------------------------------------------------------------------------
(* What is kept.                                                            *)

Sees(w) == w.start \in Int /\ w.end \in Int /\ w.core[1] \in Int /\ w.core[2] \in Int

Proven(s) ==
    LET w == candidates[s.of]
    IN /\ PassedTheGates(s.of)
       /\ ValidTrim(s.trim, w.end - w.start) /\ Covers(s.trim, s.core)
       /\ w.core[1] < w.core[2] => Meets(Absolute(s.core, w), w.core)
       /\ HeardAround(s) /\ (speech[s.of] # {} => s.heard \subseteq speech[s.of])

(* Until its group is judged, the answer about a candidate is what the      *)
(* model said; then still as good, and up for review if a duplicate.        *)
AnswerInv ==
    /\ density \in Densities /\ (candidates = <<>> \/ density \in FollowedUp)
    /\ DOMAIN said = Candidates /\ speech \in [Candidates -> SUBSET Spoken]
    /\ \A c \in Candidates :
          /\ Sees(candidates[c])
          /\ said[c] \in Said /\ IsVerdict(answer[c])
          /\ answer[c].passes = said[c].passes /\ answer[c].trim = said[c].trim
          /\ Beaten(c) => answer[c].status = "review"
          /\ call[c] \notin {"ready", "finished"} => answer[c] = said[c]

ListProven ==
    \A k \in DOMAIN segments : segments[k].status = "keep" => Proven(segments[k])
HandProven == step # "free" => Proven(record)

KeptInv == AnswerInv /\ ListProven /\ HandProven

LEMMA CandidateSees ==
    ASSUME NEW n, NEW d, Lasting(n, d), NEW k \in DOMAIN Detect(d)
    PROVE  Sees(Detect(d)[k])
<1>1. PICK b \in Burst(n) : Detect(d)[k] = Event(d, b)
  BY ChosenIsEvent
<1> DEFINE e == Event(d, b)
<1>2. /\ e.start \in Int /\ e.end \in Int /\ e.core[1] \in Int /\ e.core[2] \in Int
      /\ Fits(d, e)
  BY EventFits
<1> HIDE DEF e
<1>3. QED
  BY <1>1, <1>2 DEF e, Sees

(* A clip that is like a proven one, of a candidate whose answer stays.     *)
LEMMA LikeIsProven ==
    ASSUME NEW s, NEW t, Proven(t), s.of = t.of, s.trim = t.trim, s.core = t.core,
           s.heard = t.heard, UNCHANGED candidates, said'[t.of] = said[t.of],
           answer'[t.of] = answer[t.of], speech'[t.of] = speech[t.of]
    PROVE  Proven(s)'
BY DEF Proven, PassedTheGates, Beaten, HeardAround

(* A step that leaves the answers.                                          *)
LEMMA AnswersStay ==
    ASSUME AnswerInv, UNCHANGED <<density, candidates, said, answer, speech>>,
           \A c \in Candidates :
              call[c] \in {"ready", "finished"} => call'[c] \in {"ready", "finished"}
    PROVE  AnswerInv'
BY DEF AnswerInv, Candidates, Beaten

(* A candidate finished with a record that is not kept, or is proven.       *)
LEMMA FinishedKept ==
    ASSUME PipelineInv, KeptInv, NEW c \in ready, NEW r, Finished(c, <<r>>),
           r.status = "keep" => Proven(r),
           UNCHANGED <<density, candidates, said, answer, speech>>
    PROVE  KeptInv'
<1>1. call \in [Candidates -> Called] /\ segments \in Seq(ToSet(segments))
  BY DEF PipelineInv, CutInv, ListInv
<1>2. \A d \in Candidates : call'[d] = IF d = c THEN "finished" ELSE call[d]
  BY <1>1 DEF Finished
<1>3. AnswerInv'
  BY <1>2, AnswersStay DEF KeptInv
<1>4. Extends(segments, r, segments')
  BY <1>1, Added DEF Finished
<1>5. ASSUME NEW k \in DOMAIN segments', NEW s, s = segments'[k], s.status = "keep"
      PROVE  Proven(s)'
  <2>1. Proven(s)
    <3>1. CASE k \in DOMAIN segments
      BY <1>4, <1>5, <3>1 DEF Extends, KeptInv, ListProven
    <3>2. CASE k = Len(segments) + 1
      BY <1>4, <1>5, <3>2 DEF Extends
    <3>3. QED
      BY <1>4, <3>1, <3>2 DEF Extends
  <2>2. QED
    BY <2>1, LikeIsProven
<1>6. ListProven'
  BY <1>5 DEF ListProven, Proven, PassedTheGates, Beaten
<1>7. HandProven'
  BY DEF Finished, HandProven
<1>8. QED
  BY <1>3, <1>6, <1>7 DEF KeptInv

(* A step that leaves the answers and what is kept.                         *)
LEMMA KeptStays ==
    ASSUME KeptInv, UNCHANGED <<density, candidates, said, answer, speech, segments>>,
           \A c \in Candidates :
              call[c] \in {"ready", "finished"} => call'[c] \in {"ready", "finished"},
           step' # "free" => step # "free" /\ record' = record
    PROVE  KeptInv'
<1>1. AnswerInv'
  BY AnswersStay DEF KeptInv
<1>2. ListProven' /\ HandProven'
  BY DEF KeptInv, ListProven, HandProven, Proven, PassedTheGates, Beaten
<1>3. QED
  BY <1>1, <1>2 DEF KeptInv

(* The handler of the loop: what raised is not kept.                        *)
LEMMA HandleKept ==
    ASSUME PipelineInv, KeptInv, NEW r, IsRecord(r), r.of \in ready, NEW failed,
           Handle(r, failed), UNCHANGED <<density, candidates, said, answer, speech>>
    PROVE  KeptInv'
<1>1. CASE Finished(r.of, <<Failed(r)>>)
  <2> DEFINE s == Failed(r)
  <2>1. s.status # "keep"
    BY FailedRecord
  <2> HIDE DEF s
  <2>2. QED
    BY <1>1, <2>1, FinishedKept DEF s
<1>2. CASE UNCHANGED <<segments, call, ready, hand, metas>>
  BY <1>2, KeptStays DEF hand
<1>3. QED
  BY <1>1, <1>2 DEF Handle

LEMMA StartCallKept ==
    ASSUME PipelineInv, KeptInv, NEW c \in Candidates, StartCall(c)
    PROVE  KeptInv'
<1>1. call \in [Candidates -> Called]
  BY DEF PipelineInv, CutInv
<1>2. QED
  BY <1>1, KeptStays DEF StartCall, hand

(* A call that ends brings what the model says, which no kept clip is of.   *)
LEMMA CallEndsKept ==
    ASSUME PipelineInv, KeptInv, NEW c \in Candidates, CallEnds(c)
    PROVE  KeptInv'
<1>1. /\ call \in [Candidates -> Called] /\ DOMAIN answer = Candidates /\ DOMAIN said = Candidates
      /\ ready = {d \in Candidates : call[d] = "ready"}
  BY DEF PipelineInv, CutInv, KeptInv, AnswerInv
<1>2. call[c] = "running" /\ UNCHANGED <<density, candidates, segments, step, record>>
  BY DEF CallEnds, hand
<1>3. answer'[c] \in Said
  <2>1. density \in FollowedUp
    BY DEF KeptInv, AnswerInv, Candidates
  <2>2. \A a \in Answers[density] : Answer(a) \in Said
    BY <2>1, AnswerIsSaid
  <2>3. QED
    BY <1>1, <2>2, NoneIsSaid DEF CallEnds
<1>4. /\ DOMAIN said' = Candidates /\ said'[c] = answer'[c] /\ call'[c] = "answered"
      /\ \A d \in Candidates \ {c} : /\ said'[d] = said[d] /\ answer'[d] = answer[d]
                                     /\ call'[d] = call[d]
  BY <1>1 DEF CallEnds
<1>s. /\ speech' \in [Candidates -> SUBSET Spoken]
      /\ \A d \in Candidates \ {c} : speech'[d] = speech[d]
  <2>1. speech \in [Candidates -> SUBSET Spoken] /\ density \in FollowedUp
    BY DEF KeptInv, AnswerInv, Candidates
  <2>2. \A a \in Answers[density] : a.speech \in SUBSET Spoken
    BY <2>1, PipelineAssumption
  <2>3. speech' = speech \/ \E a \in Answers[density] : speech' = [speech EXCEPT ![c] = a.speech]
    BY DEF CallEnds
  <2>4. QED
    BY <2>1, <2>2, <2>3
<1>5. AnswerInv'
  <2>1. IsVerdict(answer'[c]) /\ answer'[c].duplicateOf = NoRange
    BY <1>3, SaidIsVerdict
  <2>2. ASSUME NEW d \in Candidates
        PROVE  /\ Sees(candidates[d])
               /\ said'[d] \in Said /\ IsVerdict(answer'[d])
               /\ answer'[d].passes = said'[d].passes /\ answer'[d].trim = said'[d].trim
               /\ answer'[d].duplicateOf # NoRange => answer'[d].status = "review"
               /\ call'[d] \notin {"ready", "finished"} => answer'[d] = said'[d]
    <3>1. CASE d = c
      BY <1>3, <1>4, <2>1, <3>1 DEF KeptInv, AnswerInv
    <3>2. CASE d # c
      BY <1>4, <3>2 DEF KeptInv, AnswerInv, Beaten
    <3>3. QED
      BY <3>1, <3>2
  <2>3. QED
    BY <1>2, <1>4, <1>s, <2>2 DEF KeptInv, AnswerInv, Beaten, Candidates
<1>6. ListProven'
  <2>1. ASSUME NEW k \in DOMAIN segments, NEW s, s = segments[k], s.status = "keep"
        PROVE  Proven(s)'
    <3>1. Proven(s)
      BY <2>1 DEF KeptInv, ListProven
    <3>2. s.of \in Candidates \ {c}
      BY <1>2, <2>1 DEF PipelineInv, ListInv
    <3>3. QED
      BY <1>2, <1>4, <1>s, <3>1, <3>2, LikeIsProven
  <2>2. QED
    BY <1>2, <2>1 DEF ListProven, Proven, PassedTheGates, Beaten
<1>7. HandProven'
  <2>1. ASSUME step # "free"
        PROVE  Proven(record)'
    <3>1. record.of \in Candidates \ {c}
      BY <1>1, <1>2, <2>1, HandHeld
    <3>2. Proven(record)
      BY <2>1 DEF KeptInv, HandProven
    <3>3. QED
      BY <1>2, <1>4, <1>s, <3>1, <3>2, LikeIsProven
  <2>2. QED
    BY <1>2, <2>1 DEF HandProven
<1>8. QED
  BY <1>5, <1>6, <1>7 DEF KeptInv

(* A group that is judged together is none of what is kept.                 *)
LEMMA CollectKept ==
    ASSUME PipelineInv, KeptInv, NEW c \in Candidates, Collect(c)
    PROVE  KeptInv'
<1>1. /\ call \in [Candidates -> Called] /\ DOMAIN answer = Candidates
      /\ ready = {d \in Candidates : call[d] = "ready"} /\ Group(c) \subseteq Candidates
  BY DEF PipelineInv, CutInv, Group
<1>2. /\ call[c] = "answered" /\ step = "free" /\ ready = {}
      /\ UNCHANGED <<density, candidates, said, speech, segments, step, record>>
  BY DEF Collect, hand
<1>3. CASE call' = [call EXCEPT ![c] = "gathered"] /\ answer' = answer
  BY <1>1, <1>2, <1>3, KeptStays
<1>4. CASE /\ Complete(c)
           /\ call' = [d \in Candidates |-> IF d \in Group(c) THEN "ready" ELSE call[d]]
           /\ \E winners \in {Winners(answer, candidates, Group(c))} :
                 answer' = IF Len(candidates) = 1 THEN answer
                           ELSE Marked(answer, candidates, Group(c), winners)
  <2>1. \A d \in Group(c) : call[d] \in {"answered", "gathered"}
    BY <1>2, <1>4 DEF Complete
  <2>2. \A d \in Group(c) : answer[d] = said[d] /\ said[d] \in Said
    BY <1>1, <2>1 DEF KeptInv, AnswerInv
  <2>3. /\ \A d \in Candidates \ Group(c) : answer'[d] = answer[d] /\ call'[d] = call[d]
        /\ \A d \in Group(c) : call'[d] = "ready"
    BY <1>1, <1>4, MarkedDomain
  <2>4. ASSUME NEW d \in Group(c)
        PROVE  /\ IsVerdict(answer'[d]) /\ answer'[d].passes = said[d].passes
               /\ answer'[d].trim = said[d].trim
               /\ answer'[d].duplicateOf # NoRange => answer'[d].status = "review"
    <3>1. CASE answer' = answer
      BY <2>2, <2>4, <3>1, SaidIsVerdict
    <3>2. ASSUME NEW winners, answer' = Marked(answer, candidates, Group(c), winners)
          PROVE  /\ IsVerdict(answer'[d]) /\ answer'[d].passes = said[d].passes
                 /\ answer'[d].trim = said[d].trim
                 /\ answer'[d].duplicateOf # NoRange => answer'[d].status = "review"
      <4>1. d \in DOMAIN answer /\ answer[d] \in Said /\ answer[d] = said[d]
        BY <1>1, <2>2, <2>4
      <4>2. QED
        BY <3>2, <4>1, MarkedVerdicts
    <3>3. QED
      BY <1>4, <3>1, <3>2
  <2>5. AnswerInv'
    <3>1. ASSUME NEW d \in Candidates
          PROVE  /\ Sees(candidates[d])
                 /\ said[d] \in Said /\ IsVerdict(answer'[d])
                 /\ answer'[d].passes = said[d].passes /\ answer'[d].trim = said[d].trim
                 /\ answer'[d].duplicateOf # NoRange => answer'[d].status = "review"
                 /\ call'[d] \notin {"ready", "finished"} => answer'[d] = said[d]
      <4>1. CASE d \in Group(c)
        BY <2>2, <2>3, <2>4, <4>1 DEF KeptInv, AnswerInv
      <4>2. CASE d \notin Group(c)
        BY <2>3, <4>2 DEF KeptInv, AnswerInv, Beaten
      <4>3. QED
        BY <4>1, <4>2
    <3>2. QED
      BY <1>2, <3>1 DEF KeptInv, AnswerInv, Beaten, Candidates
  <2>6. ASSUME NEW k \in DOMAIN segments, NEW s, s = segments[k], s.status = "keep"
        PROVE  Proven(s)'
    <3>1. Proven(s)
      BY <2>6 DEF KeptInv, ListProven
    <3>2. s.of \in Candidates \ Group(c)
      BY <2>1, <2>6 DEF PipelineInv, ListInv
    <3>3. QED
      BY <1>2, <2>3, <3>1, <3>2, LikeIsProven
  <2>7. ListProven' /\ HandProven'
    BY <1>2, <2>6 DEF ListProven, HandProven, Proven, PassedTheGates, Beaten
  <2>8. QED
    BY <2>5, <2>7 DEF KeptInv
<1>5. CASE UNCHANGED <<call, answer, ready>>
  BY <1>2, <1>5, KeptStays
<1>6. QED
  BY <1>3, <1>4, <1>5 DEF Collect

(* What the evidence lets through is proven.                                *)
LEMMA AnalysedIsProven ==
    ASSUME AnswerInv, NEW c \in Candidates, NEW after \in SUBSET Spoken, NEW v, v.status = "keep",
           v = Analysed(answer[c], candidates[c].end - candidates[c].start,
                        <<candidates[c].core[1] - candidates[c].start,
                          candidates[c].core[2] - candidates[c].start>>, speech[c], after)
    PROVE  Proven(Record(c, v))
<1> DEFINE w == candidates[c]
           a == answer[c]
           burst == <<w.core[1] - w.start, w.core[2] - w.start>>
           r == Record(c, v)
<1>1. /\ w.start \in Int /\ w.core[1] \in Int /\ w.core[2] \in Int /\ speech[c] \in SUBSET Spoken
      /\ IsVerdict(a) /\ a.passes = said[c].passes /\ a.trim = said[c].trim
      /\ Beaten(c) => a.status = "review"
  BY DEF AnswerInv, Sees
<1>2. r.of = c /\ r.trim = v.trim /\ r.core = v.core /\ r.heard = v.heard
  BY CandidateRecord
<1> HIDE DEF w, r
<1>3. w.core[1] < w.core[2] => burst[2] > burst[1]
  BY <1>1
<1> HIDE DEF burst
<1>4. /\ v.core = a.core /\ a.passes /\ a.status = "keep"
      /\ ValidTrim(a.trim, w.end - w.start) /\ ~AtBoundary(a.trim, w.end - w.start)
      /\ ValidTrim(v.trim, w.end - w.start) /\ Covers(v.trim, v.core)
      /\ burst[2] > burst[1] => Meets(v.core, burst)
      /\ HeardAround(v) /\ (speech[c] # {} => v.heard \subseteq speech[c])
  <2>1. v = Analysed(a, w.end - w.start, burst, speech[c], after)
    BY DEF w, burst
  <2> HIDE DEF a
  <2>2. QED
    BY <1>1, <2>1, KeptVerdict
<1>5. ASSUME w.core[1] < w.core[2]
      PROVE  Meets(Absolute(v.core, w), w.core)
  <2>1. v.core \in Span
    BY <1>1, <1>4 DEF IsVerdict
  <2>2. Meets(<<v.core[1] + w.start, v.core[2] + w.start>>, <<w.core[1], w.core[2]>>)
    BY <1>1, <1>3, <1>4, <1>5, <2>1, MeetsMoved DEF burst
  <2>3. QED
    BY <2>2 DEF Meets, Absolute
<1>6. PassedTheGates(c)
  BY <1>1, <1>4 DEF PassedTheGates, w
<1>7. HeardAround(r) /\ (speech[c] # {} => r.heard \subseteq speech[c])
  <2>1. HeardAround(v) /\ (speech[c] # {} => v.heard \subseteq speech[c])
    BY <1>4
  <2> HIDE DEF a
  <2>2. QED
    BY <1>2, <2>1 DEF HeardAround
<1>8. /\ ValidTrim(r.trim, w.end - w.start) /\ Covers(r.trim, r.core)
      /\ w.core[1] < w.core[2] => Meets(Absolute(r.core, w), w.core)
  BY <1>2, <1>4, <1>5
<1>9. candidates[r.of] = w /\ r.of = c
  BY <1>2 DEF w
<1> HIDE DEF a
<1>10. Proven(r)
  BY <1>6, <1>7, <1>8, <1>9 DEF Proven
<1>11. QED
  BY <1>10 DEF r

LEMMA AnalyseKept ==
    ASSUME PipelineInv, KeptInv, NEW c \in Candidates, Analyse(c)
    PROVE  KeptInv'
<1>1. /\ c \in ready /\ step = "free" /\ call \in [Candidates -> Called]
      /\ UNCHANGED <<density, candidates, said, answer, speech>>
  BY DEF Analyse, PipelineInv, CutInv
<1>2. ASSUME NEW failed, Handle(Bare(c), failed)
      PROVE  KeptInv'
  <2>1. IsRecord(Bare(c)) /\ Bare(c).of = c
    BY CandidateRecord DEF Bare
  <2>2. QED
    BY <1>1, <1>2, <2>1, HandleKept
<1>3. CASE Finished(c, <<>>)
  <2>1. segments' = segments
    <3>1. segments \in Seq(ToSet(segments))
      BY DEF PipelineInv, ListInv
    <3>2. QED
      BY <1>3, <3>1 DEF Finished
  <2>2. QED
    BY <1>1, <1>3, <2>1, KeptStays DEF Finished
<1>4. ASSUME NEW v, v.status # "keep", Finished(c, <<Record(c, v)>>)
      PROVE  KeptInv'
  <2> DEFINE r == Record(c, v)
  <2>1. r.status # "keep"
    BY <1>4, CandidateRecord
  <2> HIDE DEF r
  <2>2. QED
    BY <1>1, <1>4, <2>1, FinishedKept DEF r
<1>5. ASSUME NEW after \in SUBSET Spoken, NEW v, v.status = "keep",
             v = Analysed(answer[c], candidates[c].end - candidates[c].start,
                          <<candidates[c].core[1] - candidates[c].start,
                            candidates[c].core[2] - candidates[c].start>>, speech[c], after),
             step' = "burn", record' = Record(c, v), UNCHANGED <<segments, call, ready>>
      PROVE  KeptInv'
  <2>1. AnswerInv'
    BY <1>1, <1>5, AnswersStay DEF KeptInv
  <2>2. Proven(Record(c, v))
    BY <1>5, AnalysedIsProven DEF KeptInv
  <2>3. HandProven'
    <3> DEFINE r == Record(c, v)
    <3>1. Proven(r)
      BY <2>2
    <3> HIDE DEF r
    <3>2. record' = r
      BY <1>5 DEF r
    <3>3. QED
      BY <1>1, <3>1, <3>2 DEF HandProven, Proven, PassedTheGates, Beaten
  <2>4. ListProven'
    BY <1>1, <1>5 DEF KeptInv, ListProven, Proven, PassedTheGates, Beaten
  <2>5. QED
    BY <2>1, <2>3, <2>4 DEF KeptInv
<1>6. Speeches \cup {{}} \subseteq SUBSET Spoken
  BY PipelineAssumption
<1>7. QED
  BY <1>1, <1>2, <1>3, <1>4, <1>5, <1>6 DEF Analyse, Raises

(* The stages take the clip along as it is.                                 *)
LEMMA GiveUpKept ==
    ASSUME PipelineInv, KeptInv, step # "free", NEW left, GiveUp(left),
           UNCHANGED <<density, candidates, said, answer, speech>>
    PROVE  KeptInv'
<1> DEFINE s == Failed(record)
<1>1. IsRecord(record) /\ record.of \in ready
  BY HandHeld
<1>2. s.status # "keep"
  BY <1>1, FailedRecord
<1> HIDE DEF s
<1>3. QED
  BY <1>1, <1>2, FinishedKept DEF s, GiveUp

LEMMA StagesKept ==
    ASSUME PipelineInv, KeptInv, Burn \/ Describe \/ StageClip
    PROVE  KeptInv'
<1>1. /\ step # "free" /\ UNCHANGED <<density, candidates, said, answer, speech>>
      /\ IsRecord(record) /\ record.of \in ready
  BY HandHeld DEF Burn, Describe, StageClip
<1>2. ASSUME NEW left, GiveUp(left)
      PROVE  KeptInv'
  BY <1>1, <1>2, GiveUpKept
<1>3. CASE Raises(record)
  BY <1>1, <1>3, HandleKept DEF Raises
<1>4. CASE UNCHANGED <<record, segments, call>>
  BY <1>1, <1>4, KeptStays
<1>5. ASSUME NEW upload, Finished(record.of, <<[record EXCEPT !.upload = upload]>>)
      PROVE  KeptInv'
  <2> DEFINE s == [record EXCEPT !.upload = upload]
  <2>1. /\ s.of = record.of /\ s.trim = record.trim /\ s.core = record.core
        /\ s.heard = record.heard
    BY <1>1 DEF IsRecord
  <2>2. Proven(record)
    BY <1>1 DEF KeptInv, HandProven
  <2> HIDE DEF s
  <2>3. Proven(s)
    BY <2>1, <2>2 DEF Proven, HeardAround
  <2>4. QED
    BY <1>1, <1>5, <2>3, FinishedKept DEF s
<1>6. QED
  BY <1>2, <1>3, <1>4, <1>5 DEF Burn, Describe, StageClip

LEMMA FinishKept ==
    ASSUME PipelineInv, KeptInv, Finish
    PROVE  KeptInv'
<1>1. UNCHANGED <<density, candidates, said, answer, speech, call, step, record>> /\ step = "free"
  BY DEF Finish, pool, hand
<1>2. CASE segments' = segments
  BY <1>1, <1>2, KeptStays
<1>3. ASSUME NEW sorted \in Ordered(segments), segments' = Named(sorted)
      PROVE  KeptInv'
  <2>1. /\ segments \in Seq(ToSet(segments)) /\ \A k \in DOMAIN segments : IsRecord(segments[k])
        /\ sorted \in Arranged(segments)
    BY <1>3 DEF PipelineInv, ListInv, Ordered
  <2>2. PICK p \in Bijection(DOMAIN segments, DOMAIN segments) :
           \A k \in DOMAIN segments :
              /\ segments'[k].of = segments[p[k]].of
              /\ segments'[k].status = segments[p[k]].status
              /\ segments'[k].trim = segments[p[k]].trim
              /\ segments'[k].core = segments[p[k]].core
              /\ segments'[k].heard = segments[p[k]].heard
    BY <1>3, <2>1, NamedLists
  <2>3. DOMAIN segments' = DOMAIN segments
    BY <1>3, <2>1, NamedLists
  <2>4. \A k \in DOMAIN segments : p[k] \in DOMAIN segments
    BY DEF Bijection, Injection
  <2>5. ASSUME NEW k \in DOMAIN segments, NEW s, s = segments'[k], s.status = "keep"
        PROVE  Proven(s)'
    <3> DEFINE t == segments[p[k]]
    <3>1. /\ s.of = t.of /\ s.trim = t.trim /\ s.core = t.core /\ s.heard = t.heard
          /\ t.status = "keep"
      BY <2>2, <2>5
    <3>2. Proven(t)
      BY <2>4, <3>1 DEF KeptInv, ListProven
    <3> HIDE DEF t
    <3>3. QED
      BY <1>1, <3>1, <3>2, LikeIsProven
  <2>6. ListProven'
    BY <2>3, <2>5 DEF ListProven, Proven, PassedTheGates, Beaten
  <2>7. AnswerInv'
    BY <1>1, AnswersStay DEF KeptInv
  <2>8. QED
    BY <1>1, <2>6, <2>7 DEF KeptInv, HandProven
<1>4. QED
  BY <1>2, <1>3 DEF Finish

LEMMA CutKept ==
    ASSUME PipelineInv, KeptInv, Cut
    PROVE  KeptInv'
<1>1. candidates = <<>> /\ step = "free" /\ density \in FollowedUp /\ density \in Densities
      /\ UNCHANGED <<density, segments, step, record>>
  BY DEF Cut, PipelineInv, PhaseInv, KeptInv, AnswerInv, hand
<1>2. DOMAIN segments = {}
  BY <1>1 DEF PipelineInv, ListInv, Candidates
<1>3. CASE /\ candidates' = Detect(density)
           /\ LET all == DOMAIN candidates'
              IN /\ answer' = [c \in all |-> NoClip] /\ said' = answer'
                 /\ speech' = [c \in all |-> {}]
  <2>1. Lasting(Lasts(density), density)
    BY <1>1, RecordingLasts
  <2>2. \A c \in Candidates' : Sees(candidates'[c])
    BY <1>3, <2>1, CandidateSees DEF Candidates
  <2>3. NoClip \in Said /\ IsVerdict(NoClip) /\ NoClip.duplicateOf = NoRange
    BY NoneIsSaid, SaidIsVerdict
  <2>4. AnswerInv'
    BY <1>1, <1>3, <2>2, <2>3 DEF AnswerInv, Candidates, Beaten
  <2>5. QED
    BY <1>1, <1>2, <2>4 DEF KeptInv, ListProven, HandProven
<1>4. CASE UNCHANGED <<candidates, groups, answer, pool>>
  BY <1>1, <1>4, KeptStays DEF pool
<1>5. QED
  BY <1>3, <1>4 DEF Cut

(* KeptInv holds in every state of a run.                                   *)
LEMMA KeptInvariant == Spec => []KeptInv
<1>1. Init => KeptInv
  <2> SUFFICES ASSUME Init
               PROVE  KeptInv
    OBVIOUS
  <2>1. Candidates = {} /\ DOMAIN said = {} /\ DOMAIN segments = {} /\ step = "free"
    BY DEF Init, Candidates
  <2>2. QED
    BY <2>1 DEF Init, KeptInv, AnswerInv, ListProven, HandProven
<1>2. PipelineInv /\ KeptInv /\ [Next]_vars => KeptInv'
  <2> SUFFICES ASSUME PipelineInv, KeptInv, [Next]_vars
               PROVE  KeptInv'
    OBVIOUS
  <2>1. CASE TurnAway \/ UNCHANGED vars
    <3>1. UNCHANGED <<density, candidates, said, answer, speech, segments, call, step, record>>
      BY <2>1 DEF TurnAway, vars, pool, hand
    <3>2. QED
      BY <3>1, KeptStays
  <2>2. QED
    BY <2>1, CutKept, StartCallKept, CallEndsKept, CollectKept, AnalyseKept, StagesKept,
       FinishKept DEF Next, Worker
<1>3. QED
  BY PipelineInvariant, <1>1, <1>2, PTL DEF Spec

(* What is rendered without a reviewer passed every gate as the model gave  *)
(* it, and whatever the evidence has made of its trim, the trim covers the  *)
(* core and the speech heard within it surrounds the core.                  *)
THEOREM KeptProven == Spec => []KeptIsProven
<1>1. PipelineInv /\ KeptInv => KeptIsProven
  BY DEF KeptInv, KeptIsProven, Kept, ListProven, HandProven, Proven, HeardAround, ToSet
<1>2. QED
  BY PipelineInvariant, KeptInvariant, <1>1, PTL

-----------------------------------------------------------------------------
(* Groups and their winners.                                                *)

(* Candidates of one group, and those that the overlaps tie together.       *)
LEMMA GroupOf ==
    ASSUME NEW n, Clusters(n, Links, groups), Candidates = 1..n, NEW c \in Candidates
    PROVE  /\ Group(c) \in groups /\ c \in Group(c) /\ Group(c) \subseteq Candidates
           /\ \A d \in Group(c) : Group(d) = Group(c)
<1>1. /\ groups \subseteq SUBSET (1..n) /\ UNION groups = 1..n
      /\ \A g, h \in groups : g # h => \A p \in g, q \in h : p # q /\ <<p, q>> \notin Links
  BY DEF Clusters
<1>2. \A d \in 1..n : Group(d) \in groups /\ d \in Group(d)
  BY <1>1 DEF Group
<1>3. ASSUME NEW d \in Group(c)
      PROVE  d \in 1..n /\ Group(d) = Group(c)
  <2>1. Group(c) \in groups /\ d \in 1..n
    BY <1>1, <1>2
  <2>2. Group(d) \in groups /\ d \in Group(d)
    BY <1>2, <2>1
  <2>3. Group(d) # Group(c) => d # d
    BY <1>1, <2>1, <2>2
  <2>4. QED
    BY <2>1, <2>3
<1>4. QED
  BY <1>1, <1>2, <1>3

LEMMA SameGroupIs ==
    ASSUME NEW n, Clusters(n, Links, groups), Candidates = 1..n,
           NEW c \in Candidates, NEW d \in Candidates
    PROVE  SameGroup(c, d) <=> d \in Group(c)
<1>1. \A x \in 1..n : Group(x) \in groups /\ x \in Group(x) /\ Group(x) \subseteq 1..n
  BY GroupOf
<1>2. /\ \A g, h \in groups : g # h => \A p \in g, q \in h : p # q /\ <<p, q>> \notin Links
      /\ \A g \in groups, S \in SUBSET (1..n) :
            S \cap g # {} /\ (\A p \in S, q \in (1..n) \ S : <<p, q>> \notin Links) => g \subseteq S
  BY DEF Clusters
<1>3. \A p, q \in 1..n : <<p, q>> \in Links <=> Overlapping(p, q)
  BY DEF Links
<1>4. ASSUME d \in Group(c)
      PROVE  SameGroup(c, d)
  <2>1. ASSUME NEW S \in SUBSET (1..n), c \in S,
               \A p \in S, q \in (1..n) \ S : ~Overlapping(p, q)
        PROVE  d \in S
    <3>1. S \cap Group(c) # {}
      BY <1>1, <2>1
    <3>2. \A p \in S, q \in (1..n) \ S : <<p, q>> \notin Links
      BY <1>3, <2>1
    <3>3. QED
      BY <1>1, <1>2, <1>4, <3>1, <3>2
  <2>2. QED
    BY <2>1 DEF SameGroup
<1>5. ASSUME SameGroup(c, d)
      PROVE  d \in Group(c)
  <2>1. \A p \in Group(c), q \in (1..n) \ Group(c) : ~Overlapping(p, q)
    <3>1. TAKE p \in Group(c), q \in (1..n) \ Group(c)
    <3>2. Group(q) # Group(c) /\ Group(q) \in groups /\ q \in Group(q)
      BY <1>1
    <3>3. <<p, q>> \notin Links
      BY <1>1, <1>2, <3>2
    <3>4. QED
      BY <1>1, <1>3, <3>3
  <2>2. QED
    BY <1>1, <1>5, <2>1 DEF SameGroup
<1>6. QED
  BY <1>4, <1>5

-----------------------------------------------------------------------------
(* Winners.                                                                 *)

StrictOrder(E, before) ==
    /\ \A x \in E : <<x, x>> \notin before
    /\ \A x, y, z \in E : <<x, y>> \in before /\ <<y, z>> \in before => <<x, z>> \in before

Decides(W, E, before, twins) ==
    \A c \in E :
        c \in W <=> \A d \in E : <<d, c>> \in before => ~(<<c, d>> \in twins /\ d \in W)

(* Those who win unless somebody before them does and is their twin.        *)
LEMMA SomeWin ==
    ASSUME NEW n \in Nat, NEW E \in SUBSET (1..n), NEW before, NEW twins, StrictOrder(E, before)
    PROVE  \E W \in SUBSET E : Decides(W, E, before, twins)
<1> USE DEF StrictOrder
<1> DEFINE Above(c) == {d \in E : <<d, c>> \in before}
           N(c) == Cardinality(Above(c))
           Free(W, c) == \A d \in E : <<d, c>> \in before => ~(<<c, d>> \in twins /\ d \in W)
           G == {k \in Nat : \E W \in SUBSET E : \A c \in E : N(c) < k => (c \in W <=> Free(W, c))}
<1>1. IsFiniteSet(1..n) /\ IsFiniteSet(E) /\ Cardinality(E) \in Nat /\ Cardinality(E) <= n
  <2>1. IsFiniteSet(1..n) /\ Cardinality(1..n) = IF 1 > n THEN 0 ELSE n - 1 + 1
    BY FS_Interval
  <2>2. IsFiniteSet(E) /\ Cardinality(E) <= Cardinality(1..n)
    BY <2>1, FS_Subset
  <2>3. Cardinality(E) \in Nat
    BY <2>2, FS_CardinalityType
  <2>4. QED
    BY <2>1, <2>2, <2>3
<1>2. \A c \in E : IsFiniteSet(Above(c)) /\ N(c) \in Nat /\ N(c) <= n
  <2>1. TAKE c \in E
  <2>2. Above(c) \in SUBSET E
    OBVIOUS
  <2> HIDE DEF Above
  <2>3. IsFiniteSet(Above(c)) /\ Cardinality(Above(c)) <= Cardinality(E)
    BY <1>1, <2>2, FS_Subset
  <2>4. Cardinality(Above(c)) \in Nat
    BY <2>3, FS_CardinalityType
  <2>5. QED
    BY <1>1, <2>3, <2>4
<1>3. ASSUME NEW c \in E, NEW d \in E, <<d, c>> \in before
      PROVE  N(d) < N(c)
  <2>1. Above(d) \in SUBSET Above(c) /\ d \in Above(c) /\ d \notin Above(d)
    BY <1>3
  <2>2. IsFiniteSet(Above(c)) /\ N(c) \in Nat /\ N(d) \in Nat
    BY <1>2
  <2> HIDE DEF Above
  <2>3. Cardinality(Above(d)) <= Cardinality(Above(c))
        /\ (Cardinality(Above(d)) = Cardinality(Above(c)) => Above(d) = Above(c))
    BY <2>1, <2>2, FS_Subset
  <2>4. QED
    BY <2>1, <2>2, <2>3
<1>4. 0 \in G
  <2>1. \A c \in E : ~(N(c) < 0)
    BY <1>2
  <2> HIDE DEF N, Free
  <2>2. {} \in SUBSET E /\ \A c \in E : N(c) < 0 => (c \in {} <=> Free({}, c))
    BY <2>1
  <2>3. QED
    BY <2>2
<1>5. ASSUME NEW k \in 0..n, k \in G
      PROVE  k + 1 \in G
  <2>1. PICK W \in SUBSET E : \A c \in E : N(c) < k => (c \in W <=> Free(W, c))
    BY <1>5
  <2> DEFINE more == {c \in E : IF N(c) < k THEN c \in W ELSE Free(W, c)}
  <2>2. \A d \in E : N(d) < k => (d \in more <=> d \in W)
    <3> HIDE DEF N, Free
    <3>1. QED
      OBVIOUS
  <2>3. ASSUME NEW c \in E, N(c) < k + 1
        PROVE  c \in more <=> Free(more, c)
    <3>1. \A d \in E : <<d, c>> \in before => N(d) < k
      BY <1>2, <1>3, <2>3
    <3>2. Free(more, c) <=> Free(W, c)
      <4> HIDE DEF N, more
      <4>1. QED
        BY <2>2, <3>1
    <3>3. c \in more <=> Free(W, c)
      <4> HIDE DEF N, Free
      <4>1. QED
        BY <2>1
    <3>4. QED
      BY <3>2, <3>3
  <2>4. more \in SUBSET E /\ k + 1 \in Nat
    OBVIOUS
  <2>5. QED
    <3> HIDE DEF N, Free, more
    <3>1. QED
      BY <2>3, <2>4
<1>6. 0..n + 1 \subseteq G
  <2> HIDE DEF G
  <2>1. n + 1 \in Nat /\ \A k \in 0..(n + 1) - 1 : k \in G => k + 1 \in G
    BY <1>5
  <2>2. QED
    BY <1>4, <2>1, CountUp
<1>7. PICK W \in SUBSET E : \A c \in E : N(c) < n + 1 => (c \in W <=> Free(W, c))
  <2>1. n + 1 \in G
    BY <1>6
  <2> HIDE DEF N, Free
  <2>2. QED
    BY <2>1
<1>8. \A c \in E : c \in W <=> Free(W, c)
  <2>1. \A c \in E : N(c) < n + 1
    BY <1>2
  <2> HIDE DEF N, Free
  <2>2. QED
    BY <1>7, <2>1
<1>9. QED
  BY <1>8 DEF Decides

(* The order of the clips of a group, none of them a failed call.           *)
LEMMA OutranksOrders ==
    ASSUME NEW n \in Nat, NEW answers, NEW windows, NEW group \in SUBSET (1..n),
           \A c \in group : answers[c] \in Said /\ windows[c].start \in Int
    PROVE  /\ \A c \in group : ~Outranks(answers, windows, c, c)
           /\ \A c, d, e \in group : Outranks(answers, windows, c, d)
                 /\ Outranks(answers, windows, d, e) => Outranks(answers, windows, c, e)
           /\ \A c, d \in group : c # d =>
                 Outranks(answers, windows, c, d) \/ Outranks(answers, windows, d, c)
<1> DEFINE from(c) == Place(answers, windows, c)[1]
           to(c) == Place(answers, windows, c)[2]
           rank(c) == answers[c].rank
<1>1. \A c \in group : from(c) \in Int /\ to(c) \in Int /\ rank(c) \in Int /\ c \in Int
  <2>1. TAKE c \in group
  <2>2. answers[c].trim \in Span /\ answers[c].rank \in Int
    BY DEF Said, Verdict
  <2>3. answers[c].trim[1] \in Int /\ answers[c].trim[2] \in Int
    BY <2>2 DEF Span
  <2>4. QED
    BY <2>2, <2>3 DEF Place, Absolute
<1>2. \A c, d \in group :
         Outranks(answers, windows, c, d) <=>
            \/ rank(c) > rank(d)
            \/ /\ rank(c) = rank(d)
               /\ \/ from(c) < from(d)
                  \/ from(c) = from(d) /\ (to(c) < to(d) \/ (to(c) = to(d) /\ c < d))
  BY DEF Outranks
<1> HIDE DEF from, to, rank
<1>3. \A c \in group : ~Outranks(answers, windows, c, c)
  BY <1>1, <1>2
<1>4. \A c, d, e \in group : Outranks(answers, windows, c, d)
                 /\ Outranks(answers, windows, d, e) => Outranks(answers, windows, c, e)
  <2>1. TAKE c, d, e \in group
  <2>2. /\ {from(c), to(c), rank(c), c, from(d), to(d), rank(d), d, from(e), to(e), rank(e), e}
              \subseteq Int
        /\ Outranks(answers, windows, c, d) <=>
            \/ rank(c) > rank(d)
            \/ /\ rank(c) = rank(d)
               /\ \/ from(c) < from(d)
                  \/ from(c) = from(d) /\ (to(c) < to(d) \/ (to(c) = to(d) /\ c < d))
        /\ Outranks(answers, windows, d, e) <=>
            \/ rank(d) > rank(e)
            \/ /\ rank(d) = rank(e)
               /\ \/ from(d) < from(e)
                  \/ from(d) = from(e) /\ (to(d) < to(e) \/ (to(d) = to(e) /\ d < e))
        /\ Outranks(answers, windows, c, e) <=>
            \/ rank(c) > rank(e)
            \/ /\ rank(c) = rank(e)
               /\ \/ from(c) < from(e)
                  \/ from(c) = from(e) /\ (to(c) < to(e) \/ (to(c) = to(e) /\ c < e))
    BY <1>1, <1>2
  <2>3. QED
    BY ONLY <2>2
<1>5. \A c, d \in group : c # d =>
                 Outranks(answers, windows, c, d) \/ Outranks(answers, windows, d, c)
  <2>1. TAKE c, d \in group
  <2>2. /\ {from(c), to(c), rank(c), c, from(d), to(d), rank(d), d} \subseteq Int
        /\ Outranks(answers, windows, c, d) <=>
            \/ rank(c) > rank(d)
            \/ /\ rank(c) = rank(d)
               /\ \/ from(c) < from(d)
                  \/ from(c) = from(d) /\ (to(c) < to(d) \/ (to(c) = to(d) /\ c < d))
        /\ Outranks(answers, windows, d, c) <=>
            \/ rank(d) > rank(c)
            \/ /\ rank(d) = rank(c)
               /\ \/ from(d) < from(c)
                  \/ from(d) = from(c) /\ (to(d) < to(c) \/ (to(d) = to(c) /\ d < c))
    BY <1>1, <1>2
  <2>3. QED
    BY ONLY <2>2
<1>6. QED
  BY <1>3, <1>4, <1>5

Contenders(answers, group) == {c \in group : Eligible(answers, c)}

LEMMA WinnersDecide ==
    ASSUME NEW n \in Nat, NEW answers, NEW windows, NEW group \in SUBSET (1..n),
           \A c \in group : answers[c] \in Said /\ windows[c].start \in Int
    PROVE  LET win == Winners(answers, windows, group)
               in == Contenders(answers, group)
           IN /\ win \subseteq in
              /\ \A c \in in :
                    c \in win <=> \A d \in in : Outranks(answers, windows, d, c)
                                     => ~(Twins(answers, windows, c, d) /\ d \in win)
<1> DEFINE E == {c \in group : Eligible(answers, c)}
           before == {p \in E \X E : Outranks(answers, windows, p[1], p[2])}
           twins == {p \in E \X E : Twins(answers, windows, p[1], p[2])}
           Rule(f) == f = [c \in E |->
                              \A d \in E : Outranks(answers, windows, d, c)
                                              => ~(Twins(answers, windows, c, d) /\ f[d])]
           f == CHOOSE f : Rule(f)
<1>1. E \in SUBSET (1..n) /\ E \subseteq group
  OBVIOUS
<1>2. Winners(answers, windows, group) = {c \in E : f[c]}
  BY DEF Winners
<1> HIDE DEF E
<1>3. /\ \A x, y \in E : <<x, y>> \in before <=> Outranks(answers, windows, x, y)
      /\ \A x, y \in E : <<x, y>> \in twins <=> Twins(answers, windows, x, y)
  OBVIOUS
<1> HIDE DEF before, twins
<1>4. \A x \in E : <<x, x>> \notin before
  BY <1>1, <1>3, OutranksOrders
<1>5. \A x, y, z \in E : <<x, y>> \in before /\ <<y, z>> \in before => <<x, z>> \in before
  <2>1. \A x, y, z \in E : Outranks(answers, windows, x, y)
                 /\ Outranks(answers, windows, y, z) => Outranks(answers, windows, x, z)
    BY <1>1, OutranksOrders
  <2>2. QED
    BY <1>3, <2>1
<1>6. PICK W \in SUBSET E : \A c \in E :
         c \in W <=> \A d \in E : <<d, c>> \in before => ~(<<c, d>> \in twins /\ d \in W)
  <2>1. n \in Nat /\ E \in SUBSET (1..n) /\ StrictOrder(E, before)
    BY <1>1, <1>4, <1>5 DEF StrictOrder
  <2>2. \E W \in SUBSET E : Decides(W, E, before, twins)
    BY ONLY <2>1, SomeWin
  <2>3. QED
    BY <2>2 DEF Decides
<1>7. Rule([c \in E |-> c \in W])
  <2> DEFINE g == [c \in E |-> c \in W]
  <2>1. \A c \in E : g[c] <=> c \in W
    OBVIOUS
  <2>2. ASSUME NEW c \in E
        PROVE  g[c] = \A d \in E : Outranks(answers, windows, d, c)
                                      => ~(Twins(answers, windows, c, d) /\ g[d])
    <3>1. g[c] \in BOOLEAN
      OBVIOUS
    <3> HIDE DEF g
    <3>2. g[c] <=> \A d \in E : Outranks(answers, windows, d, c)
                                      => ~(Twins(answers, windows, c, d) /\ g[d])
      BY <1>3, <1>6, <2>1
    <3>3. QED
      BY <3>1, <3>2
  <2>3. g = [c \in E |-> g[c]]
    OBVIOUS
  <2> HIDE DEF g
  <2>4. Rule(g)
    BY <2>2, <2>3
  <2>5. QED
    BY <2>4 DEF g
<1>8. Rule(f)
  <2> HIDE DEF Rule
  <2>1. QED
    BY <1>7
<1>9. \A c \in E : f[c] = \A d \in E : Outranks(answers, windows, d, c)
                                      => ~(Twins(answers, windows, c, d) /\ f[d])
  BY <1>8
<1> HIDE DEF f
<1>10. QED
  BY <1>2, <1>9 DEF Contenders, E

(* The first of several clips of a group.                                   *)
LEMMA FirstOf ==
    ASSUME NEW n \in Nat, NEW answers, NEW windows, NEW group \in SUBSET (1..n),
           \A c \in group : answers[c] \in Said /\ windows[c].start \in Int,
           NEW T \in SUBSET group, T # {}
    PROVE  LET w == CHOOSE w \in T : \A v \in T \ {w} : Outranks(answers, windows, w, v)
           IN w \in T /\ \A v \in T \ {w} : Outranks(answers, windows, w, v)
<1> DEFINE R == {p \in group \X group : Outranks(answers, windows, p[2], p[1])}
<1>1. \A x, y \in group : <<x, y>> \in R <=> Outranks(answers, windows, y, x)
  OBVIOUS
<1> HIDE DEF R
<1>2. /\ \A c \in group : ~Outranks(answers, windows, c, c)
      /\ \A c, d, e \in group : Outranks(answers, windows, c, d)
            /\ Outranks(answers, windows, d, e) => Outranks(answers, windows, c, e)
      /\ \A c, d \in group : c # d =>
            Outranks(answers, windows, c, d) \/ Outranks(answers, windows, d, c)
  BY OutranksOrders
<1>3. IsFiniteSet(T)
  <2>1. IsFiniteSet(1..n)
    BY FS_Interval
  <2>2. T \in SUBSET (1..n)
    OBVIOUS
  <2>3. QED
    BY <2>1, <2>2, FS_Subset
<1>4. \A x \in T : <<x, x>> \notin R
  BY <1>1, <1>2
<1>5. \A x, y, z \in T : <<x, y>> \in R /\ <<y, z>> \in R => <<x, z>> \in R
  BY <1>1, <1>2
<1>6. PICK x \in T : \A y \in T : <<x, y>> \notin R
  BY <1>3, <1>4, <1>5, OneIsLast
<1>7. \A y \in T \ {x} : Outranks(answers, windows, x, y)
  BY <1>1, <1>2, <1>6
<1>8. QED
  BY <1>7

(* What judging a group makes of each of its clips.                         *)
LEMMA MarkedRules ==
    ASSUME NEW n \in Nat, NEW answers, NEW windows, NEW group \in SUBSET (1..n),
           \A c \in group : answers[c] \in Said /\ windows[c].start \in Int,
           group \subseteq DOMAIN answers, NEW c \in group
    PROVE  LET win == Winners(answers, windows, group)
               v == Marked(answers, windows, group, win)[c]
           IN /\ v \in {NoClip, Raised} <=> answers[c] \in {NoClip, Raised}
              /\ ~Eligible(answers, c) => v.key = NoRange /\ v.duplicateOf = NoRange
              /\ c \in win => v.key = Place(answers, windows, c) /\ v.duplicateOf = NoRange
              /\ Eligible(answers, c) /\ c \notin win =>
                    /\ v.key = NoRange
                    /\ \E w \in win : /\ Twins(answers, windows, c, w)
                                      /\ Outranks(answers, windows, w, c)
                                      /\ v.duplicateOf = Place(answers, windows, w)
<1> DEFINE win == Winners(answers, windows, group)
           v == Marked(answers, windows, group, win)[c]
           a == answers[c]
           twins == {w \in win : Twins(answers, windows, c, w)}
           first == CHOOSE w \in twins : \A x \in twins \ {w} : Outranks(answers, windows, w, x)
<1>1. IsVerdict(a) /\ a.duplicateOf = NoRange /\ a.key = NoRange
  BY SaidIsVerdict DEF Said, Verdict
<1>2. v = IF a \in {NoClip, Raised} THEN a
          ELSE IF ~Eligible(answers, c) THEN QualityGate(a)
          ELSE IF c \in win THEN [a EXCEPT !.key = Place(answers, windows, c)]
          ELSE [a EXCEPT !.status = "review", !.duplicateOf = Place(answers, windows, first)]
  <2>1. c \in DOMAIN answers
    OBVIOUS
  <2>2. Marked(answers, windows, group, win) =
           [d \in DOMAIN answers |->
              IF d \notin group \/ answers[d] \in {NoClip, Raised} THEN answers[d]
              ELSE IF ~Eligible(answers, d) THEN QualityGate(answers[d])
              ELSE IF d \in win THEN [answers[d] EXCEPT !.key = Place(answers, windows, d)]
              ELSE [answers[d] EXCEPT
                      !.status = "review",
                      !.duplicateOf = Place(answers, windows,
                         CHOOSE w \in {u \in win : Twins(answers, windows, d, u)} :
                            \A x \in {u \in win : Twins(answers, windows, d, u)} \ {w} :
                               Outranks(answers, windows, w, x))]]
    <3> HIDE DEF win
    <3>1. QED
      BY Zenon DEF Marked
  <2> HIDE DEF win
  <2>3. QED
    BY <2>1, <2>2
<1>3. win \subseteq Contenders(answers, group)
      /\ \A d \in Contenders(answers, group) :
            d \in win <=> \A e \in Contenders(answers, group) :
               Outranks(answers, windows, e, d) => ~(Twins(answers, windows, d, e) /\ e \in win)
  BY WinnersDecide
<1>4. NoClip.status = "no_clip" /\ Raised.status = "raised"
  BY DEF NoClip, Raised, Verdict
<1>5. Eligible(answers, c) => a.status = "keep" /\ a \notin {NoClip, Raised}
  <2>1. a.status # "keep" => QualityGate(a) = a
    BY DEF QualityGate
  <2>2. QED
    BY <2>1 DEF Eligible
<1> HIDE DEF v, a, win
<1>6. CASE a \in {NoClip, Raised}
  <2>1. v = a /\ ~Eligible(answers, c)
    BY <1>2, <1>5, <1>6
  <2>2. c \notin win
    BY <1>3, <2>1 DEF Contenders
  <2>3. QED
    BY <1>1, <1>6, <2>1, <2>2 DEF v, a, win
<1>7. CASE a \notin {NoClip, Raised} /\ ~Eligible(answers, c)
  <2>1. v = a \/ v = [a EXCEPT !.status = "review"]
    BY <1>2, <1>7 DEF QualityGate
  <2>2. \A f : f = [a EXCEPT !.status = "review"] =>
           f.status = "review" /\ f.key = a.key /\ f.duplicateOf = a.duplicateOf
    BY <1>1 DEF IsVerdict
  <2>3. v \notin {NoClip, Raised} /\ v.key = NoRange /\ v.duplicateOf = NoRange
    BY <1>1, <1>4, <1>7, <2>1, <2>2
  <2>4. c \notin win
    BY <1>3, <1>7 DEF Contenders
  <2>5. QED
    BY <1>7, <2>3, <2>4 DEF v, a, win
<1>8. CASE Eligible(answers, c) /\ c \in win
  <2>1. \A f, k : f = [a EXCEPT !.key = k] =>
           f.status = a.status /\ f.key = k /\ f.duplicateOf = a.duplicateOf
    BY <1>1 DEF IsVerdict
  <2>2. v = [a EXCEPT !.key = Place(answers, windows, c)]
    BY <1>2, <1>5, <1>8
  <2>3. /\ v.status = "keep" /\ v.key = Place(answers, windows, c) /\ v.duplicateOf = NoRange
    BY <1>1, <1>5, <1>8, <2>1, <2>2
  <2>4. v \notin {NoClip, Raised}
    BY <1>4, <2>3
  <2>5. QED
    BY <1>5, <1>8, <2>3, <2>4 DEF v, a, win
<1>9. CASE Eligible(answers, c) /\ c \notin win
  <2>1. \A f, x : f = [a EXCEPT !.status = "review", !.duplicateOf = x] =>
           f.status = "review" /\ f.key = a.key /\ f.duplicateOf = x
    BY <1>1 DEF IsVerdict
  <2>2. v = [a EXCEPT !.status = "review", !.duplicateOf = Place(answers, windows, first)]
    BY <1>2, <1>5, <1>9
  <2>3. v.status = "review" /\ v.key = NoRange /\ v.duplicateOf = Place(answers, windows, first)
    BY <1>1, <2>1, <2>2
  <2>4. v \notin {NoClip, Raised}
    BY <1>4, <2>3
  <2>5. PICK w \in win : Twins(answers, windows, c, w) /\ Outranks(answers, windows, w, c)
    BY <1>3, <1>9 DEF Contenders
  <2>6. /\ w \in twins /\ win \subseteq group /\ twins \in SUBSET group
        /\ \A x \in twins : x \in win /\ Twins(answers, windows, c, x)
    BY <1>3, <2>5 DEF Contenders
  <2>7. first \in twins /\ \A x \in twins \ {first} : Outranks(answers, windows, first, x)
    <3> HIDE DEF twins
    <3>1. QED
      BY <2>6, FirstOf
  <2> HIDE DEF twins, first
  <2>8. Outranks(answers, windows, first, c)
    <3>1. first # w => Outranks(answers, windows, first, w)
      BY <2>6, <2>7
    <3>2. first \in group /\ w \in group
      BY <2>6, <2>7
    <3>3. QED
      BY <2>5, <3>1, <3>2, OutranksOrders
  <2>9. QED
    BY <1>5, <1>9, <2>3, <2>4, <2>6, <2>7, <2>8 DEF v, a, win
<1>10. QED
  BY <1>6, <1>7, <1>8, <1>9

-----------------------------------------------------------------------------
(* Who is whose duplicate.                                                  *)

Settled(c) == call[c] \in {"ready", "finished"}

(* One that is alike and comes before it.                                   *)
Rival(w, c) ==
    /\ w \in Group(c) /\ Eligible(said, w)
    /\ Twins(said, candidates, c, w) /\ Outranks(said, candidates, w, c)

(* What judging a group says of a clip: it won, it is the duplicate of one  *)
(* that did, or it takes no part.                                           *)
Won(c) ==
    /\ answer[c].duplicateOf = NoRange /\ answer[c].key = Place(said, candidates, c)
    /\ \A w \in Candidates : Rival(w, c) => Beaten(w)
Lost(c) ==
    /\ answer[c].key = NoRange
    /\ \E w \in Candidates :
          Rival(w, c) /\ ~Beaten(w) /\ answer[c].duplicateOf = Place(said, candidates, w)
Ruled(c) ==
    /\ answer[c] \in {NoClip, Raised} <=> said[c] \in {NoClip, Raised}
    /\ Eligible(said, c) => Won(c) \/ Lost(c)
    /\ ~Eligible(said, c) => answer[c].duplicateOf = NoRange /\ answer[c].key = NoRange

(* Groups are what overlaps ties together, and are settled at once.         *)
RuledInv ==
    /\ Clusters(Len(candidates), Links, groups)
    /\ \A c \in Candidates : Settled(c) => \A w \in Group(c) : Settled(w)
    /\ Len(candidates) > 1 => \A c \in Candidates : Settled(c) => Ruled(c)

(* A record names what its answer names, unless its call is lost to it.     *)
Names(s) ==
    \/ s.key = answer[s.of].key /\ s.duplicateOf = answer[s.of].duplicateOf
    \/ s.status = "judge_failed" /\ s.key = NoRange /\ s.duplicateOf = NoRange

NamesInv ==
    /\ phase = "judging" =>
          /\ \A k \in DOMAIN segments : Names(segments[k])
          /\ step # "free" => Names(record)
    /\ phase = "done" /\ Len(candidates) > 1 =>
          \A s \in {r \in ToSet(segments) : r.duplicateOf # NoRange} :
             \E t \in ToSet(segments) :
                /\ Beats(t.of, s.of) /\ ~Beaten(t.of)
                /\ \/ t.status = "judge_failed"
                   \/ \E u \in ToSet(segments) : u.id = s.duplicateOf /\ SamePlace(u.of, t.of)

(* The rule for a clip looks at its group only.                             *)
LEMMA RuleStays ==
    ASSUME NEW c \in Candidates, Ruled(c), UNCHANGED <<candidates, groups>>, c \in Group(c),
           \A w \in Group(c) : answer'[w] = answer[w] /\ said'[w] = said[w]
    PROVE  Ruled(c)'
<1>1. UNCHANGED <<answer[c], said[c]>>
  OBVIOUS
<1>2. \A w \in Group(c) : /\ Eligible(said, w)' <=> Eligible(said, w)
                          /\ Place(said, candidates, w)' = Place(said, candidates, w)
                          /\ Beaten(w)' <=> Beaten(w)
                          /\ Twins(said, candidates, c, w)' <=> Twins(said, candidates, c, w)
                          /\ Outranks(said, candidates, w, c)' <=> Outranks(said, candidates, w, c)
  BY DEF Eligible, Place, Beaten, Twins, Outranks
<1>3. \A w \in Candidates : Rival(w, c)' <=> Rival(w, c)
  BY <1>2 DEF Rival, Group
<1>4. \A w \in Candidates : Rival(w, c) => w \in Group(c)
  BY DEF Rival
<1>5. Won(c)' <=> Won(c)
  BY <1>1, <1>2, <1>3, <1>4 DEF Won, Candidates
<1>6. Lost(c)' <=> Lost(c)
  BY <1>1, <1>2, <1>3, <1>4 DEF Lost, Candidates
<1>7. QED
  BY <1>1, <1>2, <1>5, <1>6 DEF Ruled

LEMMA InCandidates ==
    ASSUME PipelineInv
    PROVE  Len(candidates) \in Nat /\ Candidates = 1..Len(candidates)
BY DEF PipelineInv, CutInv, Candidates

(* A step that settles none and leaves what is said of those that are.      *)
LEMMA RulesStay ==
    ASSUME PipelineInv, RuledInv, UNCHANGED <<candidates, groups>>,
           \A c \in Candidates :
              /\ Settled(c)' <=> Settled(c)
              /\ Settled(c) => answer'[c] = answer[c] /\ said'[c] = said[c]
    PROVE  RuledInv'
<1>1. \A c \in Candidates : c \in Group(c) /\ Group(c) \subseteq Candidates
  BY InCandidates, GroupOf DEF RuledInv
<1>2. \A c \in Candidates : Group(c)' = Group(c)
  BY DEF Group
<1>3. Links' = Links
  BY DEF Links, Candidates, Overlapping
<1>4. \A c \in Candidates : Settled(c)' => \A w \in Group(c) : Settled(w)'
  BY <1>1 DEF RuledInv
<1>5. ASSUME Len(candidates) > 1, NEW c \in Candidates, Settled(c)
      PROVE  Ruled(c)'
  <2>1. Ruled(c) /\ \A w \in Group(c) : Settled(w)
    BY <1>5 DEF RuledInv
  <2>2. QED
    BY <1>1, <2>1, RuleStays
<1>6. QED
  BY <1>2, <1>3, <1>4, <1>5 DEF RuledInv, Candidates

(* A group that is judged is settled by its rule, and no other is touched.  *)
LEMMA CollectRules ==
    ASSUME PipelineInv, AnswerInv, RuledInv, NEW c \in Candidates, Collect(c)
    PROVE  RuledInv'
<1> DEFINE G == Group(c)
           n == Len(candidates)
<1>1. /\ n \in Nat /\ Candidates = 1..n
      /\ call \in [Candidates -> Called] /\ DOMAIN answer = Candidates
  BY InCandidates DEF PipelineInv, CutInv
<1>2. /\ call[c] = "answered" /\ UNCHANGED <<candidates, groups, said>>
  BY DEF Collect
<1>3. CASE call' = [call EXCEPT ![c] = "gathered"] /\ answer' = answer
  <2>1. \A d \in Candidates : Settled(d)' <=> Settled(d)
    BY <1>1, <1>2, <1>3 DEF Settled
  <2>2. QED
    BY <1>2, <1>3, <2>1, RulesStay
<1>4. CASE /\ Complete(c)
           /\ call' = [d \in Candidates |-> IF d \in Group(c) THEN "ready" ELSE call[d]]
           /\ \E winners \in {Winners(answer, candidates, Group(c))} :
                 answer' = IF Len(candidates) = 1 THEN answer
                           ELSE Marked(answer, candidates, Group(c), winners)
  <2>1. /\ \A d \in Candidates : d \in Group(d) /\ Group(d) \in groups /\ Group(d) \subseteq Candidates
        /\ \A d \in Candidates : \A w \in Group(d) : Group(w) = Group(d)
    BY <1>1, GroupOf DEF RuledInv
  <2>2. \A d \in G : call[d] \in {"answered", "gathered"}
    BY <1>2, <1>4 DEF Complete
  <2>3. \A d \in G : answer[d] = said[d] /\ said[d] \in Said /\ candidates[d].start \in Int
    BY <2>1, <2>2 DEF AnswerInv, Sees
  <2>4. /\ \A d \in Candidates \ G : answer'[d] = answer[d] /\ call'[d] = call[d]
        /\ \A d \in G : call'[d] = "ready"
    BY <1>1, <1>4, <2>1, MarkedDomain
  <2>5. \A d \in Candidates : Group(d)' = Group(d)
    BY <1>2 DEF Group
  <2>6. Links' = Links
    BY <1>2 DEF Links, Candidates, Overlapping
  <2>7. \A d \in Candidates : d \notin G => \A w \in Group(d) : w \notin G
    BY <2>1
  <2>8. \A d \in Candidates : d \in G => Group(d) = G
    BY <2>1
  <2>9. ASSUME NEW d \in Candidates, Settled(d)'
        PROVE  \A w \in Group(d) : Settled(w)'
    <3>1. CASE d \in G
      BY <2>4, <2>8, <3>1 DEF Settled
    <3>2. CASE d \notin G
      <4>1. Settled(d)
        BY <2>4, <2>9, <3>2 DEF Settled
      <4>2. \A w \in Group(d) : Settled(w) /\ w \in Candidates \ G
        BY <2>1, <2>7, <3>2, <4>1 DEF RuledInv
      <4>3. QED
        BY <2>4, <4>2 DEF Settled
    <3>3. QED
      BY <3>1, <3>2
  <2>10. ASSUME n > 1, NEW d \in Candidates, d \notin G, Settled(d)'
         PROVE  Ruled(d)'
    <3>1. Settled(d)
      BY <2>4, <2>10 DEF Settled
    <3>2. Ruled(d)
      BY <2>10, <3>1 DEF RuledInv
    <3>3. \A w \in Group(d) : answer'[w] = answer[w] /\ said'[w] = said[w]
      BY <1>2, <2>1, <2>4, <2>7, <2>10
    <3>4. QED
      BY <1>2, <2>1, <3>2, <3>3, RuleStays
  <2>11. ASSUME n > 1, NEW d \in Candidates, d \in G
         PROVE  Ruled(d)'
    <3> DEFINE win == Winners(answer, candidates, G)
               in == Contenders(answer, G)
    <3>1. answer' = Marked(answer, candidates, G, win)
      <4>1. Len(candidates) # 1
        <5>1. n \in Nat /\ n > 1
          BY ONLY <1>1, <2>11
        <5> HIDE DEF n
        <5>2. n # 1
          BY ONLY <5>1
        <5>3. QED
          BY <5>2 DEF n
      <4> HIDE DEF n
      <4>2. QED
        BY <1>4, <4>1
    <3>2. /\ G \in SUBSET (1..n) /\ G \subseteq DOMAIN answer
          /\ \A e \in G : answer[e] \in Said /\ candidates[e].start \in Int
      BY <1>1, <2>1, <2>3
    <3>3. /\ win \subseteq in
          /\ \A x \in in :
                x \in win <=> \A e \in in : Outranks(answer, candidates, e, x)
                                 => ~(Twins(answer, candidates, x, e) /\ e \in win)
      BY <1>1, <3>2, WinnersDecide
    <3> HIDE DEF win, in
    <3>4. ASSUME NEW x \in G
          PROVE  LET v == answer'[x]
                 IN /\ v \in {NoClip, Raised} <=> answer[x] \in {NoClip, Raised}
                    /\ ~Eligible(answer, x) => v.key = NoRange /\ v.duplicateOf = NoRange
                    /\ x \in win => v.key = Place(answer, candidates, x) /\ v.duplicateOf = NoRange
                    /\ Eligible(answer, x) /\ x \notin win =>
                          /\ v.key = NoRange
                          /\ \E w \in win : /\ Twins(answer, candidates, x, w)
                                            /\ Outranks(answer, candidates, w, x)
                                            /\ v.duplicateOf = Place(answer, candidates, w)
      <4> DEFINE v == Marked(answer, candidates, G, Winners(answer, candidates, G))[x]
      <4>1. /\ v \in {NoClip, Raised} <=> answer[x] \in {NoClip, Raised}
            /\ ~Eligible(answer, x) => v.key = NoRange /\ v.duplicateOf = NoRange
            /\ x \in Winners(answer, candidates, G) =>
                  v.key = Place(answer, candidates, x) /\ v.duplicateOf = NoRange
            /\ Eligible(answer, x) /\ x \notin Winners(answer, candidates, G) =>
                  /\ v.key = NoRange
                  /\ \E w \in Winners(answer, candidates, G) :
                        /\ Twins(answer, candidates, x, w)
                        /\ Outranks(answer, candidates, w, x)
                        /\ v.duplicateOf = Place(answer, candidates, w)
        <5> HIDE DEF G, n
        <5>1. n \in Nat
          BY <1>1
        <5>2. QED
          BY ONLY <5>1, <3>2, <3>4, MarkedRules
      <4>2. answer'[x] = v
        BY <3>1 DEF win
      <4> HIDE DEF v
      <4>3. QED
        BY <4>1, <4>2 DEF win
    <3>5. \A x, e \in G : /\ Eligible(said, x)' <=> Eligible(answer, x)
                          /\ Place(said, candidates, x)' = Place(answer, candidates, x)
                          /\ Twins(said, candidates, x, e)' <=> Twins(answer, candidates, x, e)
                          /\ Outranks(said, candidates, x, e)' <=> Outranks(answer, candidates, x, e)
      BY <1>2, <2>3 DEF Eligible, Place, Twins, Outranks
    <3>6. \A x \in G : x \in in <=> Eligible(answer, x)
      BY DEF in, Contenders
    <3>7. \A x \in G : Eligible(answer, x) => Place(answer, candidates, x) # NoRange
      <4>1. TAKE x \in G
      <4>2. HAVE Eligible(answer, x)
      <4>3. answer[x].trim[1] < answer[x].trim[2] /\ answer[x].trim \in Span
        BY <2>3, <4>2, SaidIsVerdict DEF Eligible, IsVerdict
      <4>4. answer[x].trim[1] \in Int /\ answer[x].trim[2] \in Int /\ candidates[x].start \in Int
        BY <2>3, <4>3 DEF Span
      <4>5. answer[x].trim[1] + candidates[x].start < answer[x].trim[2] + candidates[x].start
        BY <4>3, <4>4
      <4>6. QED
        BY <4>5 DEF Place, Absolute, NoRange
    <3>8. win \subseteq G
      BY <3>3 DEF in, Contenders
    <3>9. \A x \in G : Eligible(answer, x) => (Beaten(x)' <=> x \notin win)
      <4>1. TAKE x \in G
      <4>2. HAVE Eligible(answer, x)
      <4>3. x \in win => answer'[x].duplicateOf = NoRange
        BY <3>4
      <4>4. x \notin win => answer'[x].duplicateOf # NoRange
        <5>1. ASSUME x \notin win
              PROVE  answer'[x].duplicateOf # NoRange
          <6>1. PICK w \in win : answer'[x].duplicateOf = Place(answer, candidates, w)
            BY <3>4, <4>2, <5>1
          <6>2. w \in G /\ Eligible(answer, w)
            BY <3>3, <3>6, <3>8, <6>1
          <6>3. QED
            BY <3>7, <6>1, <6>2
        <5>2. QED
          BY <5>1
      <4>5. QED
        BY <4>3, <4>4 DEF Beaten
    <3>10. \A w \in Candidates : Rival(w, d)' <=>
              /\ w \in G /\ w \in in
              /\ Twins(answer, candidates, d, w) /\ Outranks(answer, candidates, w, d)
      BY <2>5, <2>8, <2>11, <3>5, <3>6 DEF Rival
    <3>11. Candidates' = Candidates /\ G \subseteq Candidates
      BY <1>2, <2>1 DEF Candidates
    <3>12. CASE ~Eligible(answer, d)
      BY <1>2, <2>3, <2>11, <3>4, <3>5, <3>12 DEF Ruled
    <3>13. CASE Eligible(answer, d) /\ d \in win
      <4>1. \A w \in Candidates : Rival(w, d)' => Beaten(w)'
        <5>1. TAKE w \in Candidates
        <5>2. HAVE Rival(w, d)'
        <5>3. w \in G /\ w \in in /\ w \notin win
          BY <2>11, <3>3, <3>6, <3>10, <3>13, <5>2
        <5>4. QED
          BY <3>6, <3>9, <5>3
      <4>2. Won(d)'
        BY <2>11, <3>4, <3>5, <3>11, <3>13, <4>1 DEF Won
      <4>3. QED
        BY <1>2, <2>3, <2>11, <3>4, <3>5, <3>13, <4>2 DEF Ruled
    <3>14. CASE Eligible(answer, d) /\ d \notin win
      <4>1. PICK w \in win : /\ Twins(answer, candidates, d, w)
                             /\ Outranks(answer, candidates, w, d)
                             /\ answer'[d].duplicateOf = Place(answer, candidates, w)
        BY <2>11, <3>4, <3>14
      <4>2. w \in G /\ w \in in /\ Eligible(answer, w) /\ w \in Candidates
        BY <3>3, <3>6, <3>8, <3>11
      <4>3. Rival(w, d)' /\ ~Beaten(w)'
        BY <3>9, <3>10, <4>1, <4>2
      <4>4. answer'[d].duplicateOf = Place(said, candidates, w)' /\ answer'[d].key = NoRange
        BY <2>11, <3>4, <3>5, <3>14, <4>1, <4>2
      <4>5. Lost(d)'
        BY <3>11, <4>2, <4>3, <4>4 DEF Lost
      <4>6. QED
        BY <1>2, <2>3, <2>11, <3>4, <3>5, <3>14, <4>5 DEF Ruled
    <3>15. QED
      BY <3>12, <3>13, <3>14
  <2>12. QED
    BY <1>2, <2>5, <2>6, <2>9, <2>10, <2>11 DEF RuledInv, Candidates
<1>5. CASE UNCHANGED <<call, answer, ready>>
  BY <1>2, <1>5, RulesStay DEF Settled
<1>6. QED
  BY <1>3, <1>4, <1>5 DEF Collect

LEMMA CutRules ==
    ASSUME PipelineInv, RuledInv, Cut
    PROVE  RuledInv'
<1>1. CASE /\ candidates' = Detect(density)
           /\ LET all == DOMAIN candidates'
              IN call' = [c \in all |-> "waiting"] /\ groups' = Grouped(all)
  <2>1. Apart(candidates')
    BY <1>1, CutsApart DEF Cut
  <2> DEFINE n == Len(candidates')
  <2>2. n \in Nat /\ Candidates' = 1..n
    BY <2>1 DEF Apart, Candidates
  <2>3. Clusters(n, Links', groups')
    <3>1. groups' = Grouped(1..n)
      BY <1>1, <2>2 DEF Candidates
    <3> HIDE DEF n
    <3>2. QED
      BY <2>2, <3>1, GroupsCluster
  <2>4. \A c \in Candidates' : ~Settled(c)'
    BY <1>1 DEF Settled, Candidates
  <2>5. QED
    BY <2>3, <2>4 DEF RuledInv
<1>2. CASE UNCHANGED <<candidates, groups, answer, pool>>
  BY <1>2, RulesStay DEF pool, Settled
<1>3. QED
  BY <1>1, <1>2 DEF Cut

(* A candidate that is taken was settled with its group, and stays so.      *)
LEMMA TakenRules ==
    ASSUME PipelineInv, RuledInv, UNCHANGED <<candidates, groups, said, answer>>, NEW c,
           \/ UNCHANGED call
           \/ c \in ready /\ call' = [call EXCEPT ![c] = "finished"]
    PROVE  RuledInv'
<1>1. call \in [Candidates -> Called] /\ ready = {d \in Candidates : call[d] = "ready"}
  BY DEF PipelineInv, CutInv
<1>2. \A d \in Candidates : Settled(d)' <=> Settled(d)
  BY <1>1 DEF Settled
<1>3. QED
  BY <1>2, RulesStay

LEMMA RulesKept ==
    ASSUME PipelineInv, AnswerInv, RuledInv, [Next]_vars
    PROVE  RuledInv'
<1>1. /\ call \in [Candidates -> Called] /\ DOMAIN answer = Candidates /\ DOMAIN said = Candidates
      /\ ready = {d \in Candidates : call[d] = "ready"}
  BY DEF PipelineInv, CutInv, AnswerInv
<1>2. CASE TurnAway \/ UNCHANGED vars
  <2>1. UNCHANGED <<candidates, groups, answer, said, call>>
    BY <1>2 DEF TurnAway, vars, pool
  <2>2. QED
    BY <2>1, TakenRules
<1>3. ASSUME NEW c \in Candidates, StartCall(c) \/ CallEnds(c)
      PROVE  RuledInv'
  <2>1. /\ UNCHANGED <<candidates, groups>> /\ call[c] \in {"waiting", "running"}
        /\ call'[c] \in {"running", "answered"}
        /\ \A d \in Candidates \ {c} : /\ call'[d] = call[d] /\ answer'[d] = answer[d]
                                       /\ said'[d] = said[d]
    BY <1>1, <1>3 DEF StartCall, CallEnds
  <2>2. QED
    BY <2>1, RulesStay DEF Settled
<1>4. ASSUME NEW c \in Candidates, Analyse(c)
      PROVE  RuledInv'
  <2>1. c \in ready /\ UNCHANGED <<candidates, groups, said, answer>>
    BY <1>4 DEF Analyse
  <2>2. UNCHANGED call \/ call' = [call EXCEPT ![c] = "finished"]
    <3>1. Bare(c).of = c
      BY CandidateRecord DEF Bare
    <3>2. \A failed : Handle(Bare(c), failed) =>
             UNCHANGED call \/ call' = [call EXCEPT ![Bare(c).of] = "finished"]
      BY DEF Handle, Finished
    <3>3. \A list : Finished(c, list) => call' = [call EXCEPT ![c] = "finished"]
      BY DEF Finished
    <3>4. QED
      BY <1>4, <3>1, <3>2, <3>3 DEF Analyse, Raises
  <2>3. QED
    BY <2>1, <2>2, TakenRules
<1>5. CASE Burn \/ Describe \/ StageClip
  <2>1. step # "free" /\ UNCHANGED <<candidates, groups, said, answer>>
    BY <1>5 DEF Burn, Describe, StageClip
  <2>2. record.of \in ready
    BY <2>1, HandHeld
  <2>3. UNCHANGED call \/ call' = [call EXCEPT ![record.of] = "finished"]
    BY <1>5 DEF Burn, Describe, StageClip, GiveUp, Raises, Handle, Finished
  <2>4. QED
    BY <2>1, <2>2, <2>3, TakenRules
<1>6. CASE Finish
  BY <1>6, TakenRules DEF Finish, pool
<1>7. QED
  BY <1>2, <1>3, <1>4, <1>5, <1>6, CutRules, CollectRules DEF Next, Worker

-----------------------------------------------------------------------------
(* The names of duplicates.                                                 *)

(* The evidence leaves who is whose duplicate.                              *)
LEMMA AnalysedNames ==
    ASSUME NEW a, IsVerdict(a), NEW length, NEW burst, NEW before, NEW after,
           NEW v, v = Analysed(a, length, burst, before, after)
    PROVE  v.key = a.key /\ v.duplicateOf = a.duplicateOf
<1> DEFINE g == QualityGate(a)
<1>1. \A f, s : f = [a EXCEPT !.status = s] =>
         IsVerdict(f) /\ f.key = a.key /\ f.duplicateOf = a.duplicateOf
  BY DEF IsVerdict
<1>2. IsVerdict(g) /\ g.key = a.key /\ g.duplicateOf = a.duplicateOf
  <2>1. g = a \/ g = [a EXCEPT !.status = "review"]
    BY DEF QualityGate
  <2> HIDE DEF g
  <2>2. QED
    BY <1>1, <2>1
<1>3. \/ v = a \/ v = g
      \/ \E s : v = [g EXCEPT !.status = s]
      \/ \E t : v = [g EXCEPT !.trim = t]
      \/ \E t, h : v = [g EXCEPT !.trim = t, !.heard = h]
      \/ \E s, t : v = [g EXCEPT !.status = s, !.trim = t]
  <2> HIDE DEF g
  <2>1. \/ v = a
        \/ v = [g EXCEPT !.status = "judge_failed", !.trim = NoRange]
        \/ v = ForReview(g, length, burst, before, after)
        \/ v = [g EXCEPT !.status = "review"]
        \/ \E t, h : v = [g EXCEPT !.trim = t, !.heard = h]
        \/ \E s, t : v = [g EXCEPT !.status = s, !.trim = t]
    BY DEF Analysed, g
  <2>2. \/ ForReview(g, length, burst, before, after) = g
        \/ \E t : ForReview(g, length, burst, before, after) = [g EXCEPT !.trim = t]
    BY DEF ForReview
  <2>3. QED
    BY <2>1, <2>2
<1> HIDE DEF g
<1>4. \A f, s : f = [g EXCEPT !.status = s] => f.key = g.key /\ f.duplicateOf = g.duplicateOf
  BY <1>2 DEF IsVerdict
<1>5. \A f, t : f = [g EXCEPT !.trim = t] => f.key = g.key /\ f.duplicateOf = g.duplicateOf
  BY <1>2 DEF IsVerdict
<1>6. \A f, s, t : f = [g EXCEPT !.status = s, !.trim = t] =>
         f.key = g.key /\ f.duplicateOf = g.duplicateOf
  BY <1>2 DEF IsVerdict
<1>7. \A f, t, h : f = [g EXCEPT !.trim = t, !.heard = h] =>
         f.key = g.key /\ f.duplicateOf = g.duplicateOf
  BY <1>2 DEF IsVerdict
<1>8. \/ v = a
      \/ v.key = g.key /\ v.duplicateOf = g.duplicateOf
  <2>1. CASE v = a \/ v = g
    BY <2>1
  <2>2. CASE \E s : v = [g EXCEPT !.status = s]
    BY <1>4, <2>2
  <2>3. CASE \E t : v = [g EXCEPT !.trim = t]
    BY <1>5, <2>3
  <2>4. CASE \E t, h : v = [g EXCEPT !.trim = t, !.heard = h]
    BY <1>7, <2>4
  <2>5. CASE \E s, t : v = [g EXCEPT !.status = s, !.trim = t]
    BY <1>6, <2>5
  <2>6. QED
    BY <1>3, <2>1, <2>2, <2>3, <2>4, <2>5
<1>9. QED
  BY <1>2, <1>8

LEMMA RecordNames ==
    ASSUME NEW c, NEW v
    PROVE  LET r == Record(c, v)
           IN r.of = c /\ r.key = v.key /\ r.duplicateOf = v.duplicateOf /\ r.status = v.status
BY DEF Record

LEMMA BareNames == ASSUME NEW c
                   PROVE  LET r == Bare(c)
                          IN r.of = c /\ r.key = NoRange /\ r.duplicateOf = NoRange
                             /\ r.status = "judge_failed"
<1>1. FailedCall.key = NoRange /\ FailedCall.duplicateOf = NoRange
      /\ FailedCall.status = "judge_failed"
  BY DEF FailedCall, Verdict
<1>2. QED
  BY <1>1, RecordNames DEF Bare

(* A record that failed or is staged names what it named.                   *)
LEMMA AlikeNames ==
    ASSUME NEW r, IsRecord(r), Names(r)
    PROVE  Names(Failed(r)) /\ \A x : Names([r EXCEPT !.upload = x])
<1>1. ASSUME NEW f, f = [r EXCEPT !.status = "judge_failed", !.upload = "not_queued"]
      PROVE  /\ f.of = r.of /\ f.key = r.key /\ f.duplicateOf = r.duplicateOf
             /\ f.status = "judge_failed"
  BY <1>1 DEF IsRecord
<1>2. ASSUME NEW x, NEW f, f = [r EXCEPT !.upload = x]
      PROVE  /\ f.of = r.of /\ f.key = r.key /\ f.duplicateOf = r.duplicateOf
             /\ f.status = r.status
  BY <1>2 DEF IsRecord
<1>3. Names(Failed(r))
  <2> DEFINE f == Failed(r)
  <2>1. f = [r EXCEPT !.status = "judge_failed", !.upload = "not_queued"]
    BY DEF Failed
  <2> HIDE DEF f
  <2>2. Names(f)
    BY <1>1, <2>1 DEF Names
  <2>3. QED
    BY <2>2 DEF f
<1>4. ASSUME NEW x
      PROVE  Names([r EXCEPT !.upload = x])
  <2> DEFINE f == [r EXCEPT !.upload = x]
  <2>1. f = [r EXCEPT !.upload = x]
    OBVIOUS
  <2> HIDE DEF f
  <2>2. Names(f)
    BY <1>2, <2>1 DEF Names
  <2>3. QED
    BY <2>2 DEF f
<1>5. QED
  BY <1>3, <1>4

(* A step of a run that goes on, or raises, and leaves what is listed.      *)
LEMMA NamesStay ==
    ASSUME NamesInv, phase = "judging", phase' \in {"judging", "raised"}, segments' = segments,
           step' # "free" => /\ step # "free" /\ record' = record
                             /\ answer'[record.of] = answer[record.of],
           \A k \in DOMAIN segments : answer'[segments[k].of] = answer[segments[k].of]
    PROVE  NamesInv'
<1>1. \A k \in DOMAIN segments : Names(segments[k])' <=> Names(segments[k])
  BY DEF Names
<1>2. step' # "free" => Names(record)'
  BY DEF Names, NamesInv
<1>3. QED
  BY <1>1, <1>2 DEF NamesInv

LEMMA FinishedNames ==
    ASSUME PipelineInv, NamesInv, phase = "judging", NEW c, NEW r, Finished(c, <<r>>), Names(r),
           UNCHANGED <<phase, answer>>
    PROVE  NamesInv'
<1>1. segments \in Seq(ToSet(segments))
  BY DEF PipelineInv, ListInv
<1>2. Extends(segments, r, segments')
  BY <1>1, Added DEF Finished
<1>3. \A s : Names(s)' <=> Names(s)
  BY DEF Names
<1>4. ASSUME NEW k \in DOMAIN segments'
      PROVE  Names(segments'[k])
  <2>1. CASE k \in DOMAIN segments
    BY <1>2, <2>1 DEF Extends, NamesInv
  <2>2. CASE k = Len(segments) + 1
    BY <1>2, <2>2 DEF Extends
  <2>3. QED
    BY <1>2, <2>1, <2>2 DEF Extends
<1>5. step' = "free"
  BY DEF Finished
<1>6. QED
  BY <1>4, <1>5 DEF NamesInv, Names

LEMMA HandleNames ==
    ASSUME PipelineInv, NamesInv, phase = "judging", NEW r, Names(Failed(r)), NEW failed,
           Handle(r, failed), UNCHANGED answer
    PROVE  NamesInv'
<1>1. CASE Finished(r.of, <<Failed(r)>>) /\ UNCHANGED phase
  <2> DEFINE s == Failed(r)
  <2>1. Names(s) /\ Finished(r.of, <<s>>)
    BY <1>1
  <2> HIDE DEF s
  <2>2. QED
    BY <1>1, <2>1, FinishedNames
<1>2. CASE phase' = "raised" /\ UNCHANGED <<segments, call, ready, hand, metas>>
  BY <1>2, NamesStay DEF hand
<1>3. QED
  BY <1>1, <1>2 DEF Handle

LEMMA AnalyseNames ==
    ASSUME PipelineInv, AnswerInv, NamesInv, NEW c \in Candidates, Analyse(c)
    PROVE  NamesInv'
<1>1. /\ phase = "judging" /\ step = "free" /\ UNCHANGED answer /\ IsVerdict(answer[c])
  BY DEF Analyse, AnswerInv
<1>2. ASSUME NEW failed, Handle(Bare(c), failed)
      PROVE  NamesInv'
  <2>1. Names(Bare(c)) /\ IsRecord(Bare(c))
    BY BareNames, CandidateRecord DEF Names, Bare
  <2>2. Names(Failed(Bare(c)))
    BY <2>1, AlikeNames
  <2>3. QED
    BY <1>1, <1>2, <2>2, HandleNames
<1>3. CASE Finished(c, <<>>) /\ UNCHANGED <<phase, metas>>
  <2>1. segments' = segments
    <3>1. segments \in Seq(ToSet(segments))
      BY DEF PipelineInv, ListInv
    <3>2. QED
      BY <1>3, <3>1 DEF Finished
  <2>2. QED
    BY <1>1, <1>3, <2>1, NamesStay DEF Finished
<1>4. ASSUME NEW after, NEW v,
             v = Analysed(answer[c], candidates[c].end - candidates[c].start,
                          <<candidates[c].core[1] - candidates[c].start,
                            candidates[c].core[2] - candidates[c].start>>, speech[c], after),
             IF v.status = "keep"
             THEN step' = "burn" /\ record' = Record(c, v) /\ UNCHANGED <<segments, call, ready>>
             ELSE Finished(c, <<Record(c, v)>>),
             UNCHANGED <<phase, metas>>
      PROVE  NamesInv'
  <2> DEFINE r == Record(c, v)
  <2>1. v.key = answer[c].key /\ v.duplicateOf = answer[c].duplicateOf
    BY <1>1, <1>4, AnalysedNames
  <2>2. Names(r)
    BY <2>1, RecordNames DEF Names
  <2> HIDE DEF r
  <2>3. CASE Finished(c, <<r>>)
    BY <1>1, <1>4, <2>2, <2>3, FinishedNames
  <2>4. CASE record' = r /\ UNCHANGED segments
    BY <1>1, <1>4, <2>2, <2>4 DEF NamesInv, Names
  <2>5. QED
    BY <1>4, <2>3, <2>4 DEF r
<1>5. QED
  BY <1>1, <1>2, <1>3, <1>4 DEF Analyse, Raises

LEMMA StagesNames ==
    ASSUME PipelineInv, NamesInv, Burn \/ Describe \/ StageClip
    PROVE  NamesInv'
<1>1. /\ phase = "judging" /\ step # "free" /\ UNCHANGED answer
      /\ IsRecord(record) /\ Names(record)
  BY HandHeld DEF Burn, Describe, StageClip, NamesInv
<1>2. Names(Failed(record)) /\ \A x : Names([record EXCEPT !.upload = x])
  BY <1>1, AlikeNames
<1>3. ASSUME NEW left, GiveUp(left)
      PROVE  NamesInv'
  <2> DEFINE s == Failed(record)
  <2>1. Names(s) /\ Finished(record.of, <<s>>) /\ UNCHANGED phase
    BY <1>2, <1>3 DEF GiveUp
  <2> HIDE DEF s
  <2>2. QED
    BY <1>1, <2>1, FinishedNames
<1>4. CASE Raises(record)
  BY <1>1, <1>2, <1>4, HandleNames DEF Raises
<1>5. CASE UNCHANGED <<phase, record, segments>>
  BY <1>1, <1>5, NamesStay
<1>6. ASSUME NEW x, Finished(record.of, <<[record EXCEPT !.upload = x]>>), UNCHANGED phase
      PROVE  NamesInv'
  <2> DEFINE s == [record EXCEPT !.upload = x]
  <2>1. Names(s) /\ Finished(record.of, <<s>>)
    BY <1>2, <1>6
  <2> HIDE DEF s
  <2>2. QED
    BY <1>1, <1>6, <2>1, FinishedNames
<1>7. QED
  BY <1>3, <1>4, <1>5, <1>6 DEF Burn, Describe, StageClip

(* What the names of a sorted list become.                                  *)
LEMMA NamedNames ==
    ASSUME NEW list, list \in Seq(ToSet(list)), \A k \in DOMAIN list : IsRecord(list[k]),
           NEW sorted \in Arranged(list), NEW named, named = Named(sorted)
    PROVE  /\ DOMAIN named = DOMAIN list
           /\ \E p \in Bijection(DOMAIN list, DOMAIN list) : \A k \in DOMAIN list :
                 /\ named[k].of = list[p[k]].of /\ named[k].id = list[p[k]].id
                 /\ named[k].status = list[p[k]].status
                 /\ \/ /\ named[k].duplicateOf = list[p[k]].duplicateOf
                       /\ \A j \in DOMAIN list :
                             list[p[k]].duplicateOf # NoRange =>
                                list[p[j]].key # list[p[k]].duplicateOf
                    \/ \E j \in DOMAIN list :
                          /\ list[p[k]].duplicateOf # NoRange
                          /\ list[p[j]].key = list[p[k]].duplicateOf
                          /\ named[k].duplicateOf = list[p[j]].id
<1>1. PICK p \in Bijection(DOMAIN list, DOMAIN list) :
         sorted = [k \in DOMAIN list |-> list[p[k]]]
  BY DEF Arranged
<1> DEFINE D == DOMAIN list
           Keyed(key) == {k \in D : key # NoRange /\ sorted[k].key = key}
<1>2. DOMAIN sorted = D /\ D = 1..Len(list) /\ Len(list) \in Nat
  BY <1>1
<1>3. \A k \in D : p[k] \in D /\ sorted[k] = list[p[k]] /\ IsRecord(sorted[k])
  BY <1>1 DEF Bijection, Injection
<1>4. DOMAIN named = D
  BY <1>2 DEF Named
<1>5. ASSUME NEW k \in D
      PROVE  named[k] = IF Keyed(sorted[k].duplicateOf) = {} THEN sorted[k]
                        ELSE [sorted[k] EXCEPT
                                !.duplicateOf = sorted[Max(Keyed(sorted[k].duplicateOf))].id]
  BY <1>2 DEF Named
<1>6. ASSUME NEW r, IsRecord(r), NEW x, NEW f, f = [r EXCEPT !.duplicateOf = x]
      PROVE  f.of = r.of /\ f.id = r.id /\ f.status = r.status /\ f.duplicateOf = x
  BY <1>6 DEF IsRecord
<1>7. ASSUME NEW k \in D
      PROVE  /\ named[k].of = list[p[k]].of /\ named[k].id = list[p[k]].id
             /\ named[k].status = list[p[k]].status
             /\ \/ /\ named[k].duplicateOf = list[p[k]].duplicateOf
                   /\ \A j \in D : list[p[k]].duplicateOf # NoRange =>
                                      list[p[j]].key # list[p[k]].duplicateOf
                \/ \E j \in D :
                      /\ list[p[k]].duplicateOf # NoRange
                      /\ list[p[j]].key = list[p[k]].duplicateOf
                      /\ named[k].duplicateOf = list[p[j]].id
  <2> DEFINE r == sorted[k]
             f == named[k]
             keyed == Keyed(r.duplicateOf)
  <2>1. IsRecord(r) /\ r = list[p[k]]
    BY <1>3
  <2>2. \A j \in D : j \in keyed <=> r.duplicateOf # NoRange /\ list[p[j]].key = r.duplicateOf
    BY <1>3
  <2>3. f = IF keyed = {} THEN r ELSE [r EXCEPT !.duplicateOf = sorted[Max(keyed)].id]
    BY <1>5
  <2>4. keyed \in SUBSET (1..Len(list))
    BY <1>2
  <2> HIDE DEF keyed, f, r
  <2>5. CASE keyed = {}
    <3>1. f = r
      BY <2>3, <2>5
    <3>2. QED
      BY <2>1, <2>2, <2>5, <3>1 DEF f
  <2>6. CASE keyed # {}
    <3>1. Max(keyed) \in keyed
      BY <1>2, <2>4, <2>6, MaxOf
    <3> DEFINE j == Max(keyed)
    <3> HIDE DEF j
    <3>2. j \in keyed /\ j \in D /\ sorted[j] = list[p[j]]
      BY <1>2, <1>3, <2>4, <3>1 DEF j
    <3>3. f = [r EXCEPT !.duplicateOf = sorted[j].id]
      BY <2>3, <2>6 DEF j
    <3>4. f.of = r.of /\ f.id = r.id /\ f.status = r.status /\ f.duplicateOf = list[p[j]].id
      BY <1>6, <2>1, <3>2, <3>3
    <3>5. QED
      BY <2>1, <2>2, <3>2, <3>4 DEF f
  <2>7. QED
    BY <2>5, <2>6
<1>8. QED
  BY <1>4, <1>7

LEMMA PlaceIsRange ==
    ASSUME AnswerInv, NEW c \in Candidates, Eligible(said, c)
    PROVE  Place(said, candidates, c) # NoRange
<1>1. said[c].trim[1] < said[c].trim[2] /\ said[c].trim \in Span /\ candidates[c].start \in Int
  BY SaidIsVerdict DEF Eligible, IsVerdict, AnswerInv, Sees
<1>2. said[c].trim[1] \in Int /\ said[c].trim[2] \in Int
  BY <1>1 DEF Span
<1>3. said[c].trim[1] + candidates[c].start < said[c].trim[2] + candidates[c].start
  BY <1>1, <1>2
<1>4. QED
  BY <1>3 DEF Place, Absolute, NoRange

(* Of candidates that are settled: who wins bears its place, and whose      *)
(* duplicate somebody is, beats it.                                         *)
LEMMA RulesTell ==
    ASSUME PipelineInv, AnswerInv, RuledInv, Len(candidates) > 1,
           \A c \in Candidates : Settled(c)
    PROVE  /\ \A c \in Candidates : Eligible(said, c) /\ ~Beaten(c) =>
                 answer[c].key = Place(said, candidates, c)
           /\ \A c \in Candidates : answer[c].key # NoRange =>
                 answer[c].key = Place(said, candidates, c)
           /\ \A c, w \in Candidates : Rival(w, c) /\ ~Beaten(w) /\ Beaten(c) => Beats(w, c)
           /\ \A c \in Candidates : Beaten(c) =>
                 /\ Eligible(said, c)
                 /\ \E w \in Candidates :
                       /\ Rival(w, c) /\ ~Beaten(w)
                       /\ answer[c].duplicateOf = Place(said, candidates, w)
<1>1. \A c \in Candidates : Ruled(c)
  BY DEF RuledInv
<1>2. \A c, w \in Candidates : Rival(w, c) => Place(said, candidates, w) # NoRange
  BY PlaceIsRange DEF Rival
<1>3. \A c \in Candidates : Lost(c) => Beaten(c)
  BY <1>2 DEF Lost, Beaten
<1>4. \A c \in Candidates : Eligible(said, c) /\ ~Beaten(c) =>
         answer[c].key = Place(said, candidates, c)
  BY <1>1, <1>3 DEF Ruled, Won
<1>5. \A c \in Candidates : answer[c].key # NoRange =>
         answer[c].key = Place(said, candidates, c)
  BY <1>1 DEF Ruled, Won, Lost
<1>6. \A c \in Candidates : Beaten(c) =>
         /\ Eligible(said, c)
         /\ \E w \in Candidates : /\ Rival(w, c) /\ ~Beaten(w)
                                  /\ answer[c].duplicateOf = Place(said, candidates, w)
  BY <1>1 DEF Ruled, Won, Lost, Beaten
<1>7. ASSUME NEW c \in Candidates, NEW w \in Candidates, Rival(w, c), ~Beaten(w), Beaten(c)
      PROVE  Beats(w, c)
  <2>1. SameGroup(c, w)
    BY <1>7, InCandidates, SameGroupIs DEF RuledInv, Rival
  <2>2. w # c
    BY <1>7
  <2>3. w \in Judged
    BY <1>1, <1>7 DEF Judged, Ruled, Rival, Eligible
  <2>4. QED
    BY <1>7, <2>1, <2>2, <2>3 DEF Beats, Rival
<1>8. QED
  BY <1>4, <1>5, <1>6, <1>7

LEMMA FinishNames ==
    ASSUME PipelineInv, AnswerInv, RuledInv, NamesInv, Finish
    PROVE  NamesInv'
<1>1. /\ phase = "judging" /\ step = "free" /\ \A c \in Candidates : call[c] = "finished"
      /\ UNCHANGED <<candidates, groups, answer, said, call, step, record>>
  BY DEF Finish, pool, hand
<1>2. CASE phase' = "raised" /\ UNCHANGED segments
  BY <1>1, <1>2, NamesStay
<1>3. ASSUME NEW sorted \in Ordered(segments), segments' = Named(sorted), Len(candidates) > 1,
             NEW s \in ToSet(segments'), s.duplicateOf # NoRange
      PROVE  \E t \in ToSet(segments') :
                /\ Beats(t.of, s.of) /\ ~Beaten(t.of)
                /\ \/ t.status = "judge_failed"
                   \/ \E u \in ToSet(segments') : u.id = s.duplicateOf /\ SamePlace(u.of, t.of)
  <2> DEFINE D == DOMAIN segments
             list == segments
             named == Named(sorted)
  <2>1. /\ list \in Seq(ToSet(list)) /\ \A k \in DOMAIN list : IsRecord(list[k])
        /\ sorted \in Arranged(list)
    BY <1>3 DEF PipelineInv, ListInv, Ordered
  <2>2. /\ DOMAIN named = D
        /\ \E p \in Bijection(D, D) : \A k \in D :
              /\ named[k].of = list[p[k]].of /\ named[k].id = list[p[k]].id
              /\ named[k].status = list[p[k]].status
              /\ \/ /\ named[k].duplicateOf = list[p[k]].duplicateOf
                    /\ \A j \in D :
                          list[p[k]].duplicateOf # NoRange =>
                             list[p[j]].key # list[p[k]].duplicateOf
                 \/ \E j \in D :
                       /\ list[p[k]].duplicateOf # NoRange
                       /\ list[p[j]].key = list[p[k]].duplicateOf
                       /\ named[k].duplicateOf = list[p[j]].id
    <3> HIDE DEF list, named
    <3>1. QED
      BY <2>1, NamedNames DEF named, list
  <2>3. PICK p \in Bijection(D, D) : \A k \in D :
              /\ named[k].of = list[p[k]].of /\ named[k].id = list[p[k]].id
              /\ named[k].status = list[p[k]].status
              /\ \/ /\ named[k].duplicateOf = list[p[k]].duplicateOf
                    /\ \A j \in D :
                          list[p[k]].duplicateOf # NoRange =>
                             list[p[j]].key # list[p[k]].duplicateOf
                 \/ \E j \in D :
                       /\ list[p[k]].duplicateOf # NoRange
                       /\ list[p[j]].key = list[p[k]].duplicateOf
                       /\ named[k].duplicateOf = list[p[j]].id
    BY <2>2
  <2>4. /\ \A k \in D : p[k] \in D
        /\ \A k \in D : \E j \in D : p[j] = k
    BY DEF Bijection, Injection, Surjection
  <2>5. named = segments' /\ \A k \in D : named[k] \in ToSet(segments')
    BY <1>3, <2>2 DEF ToSet
  <2>6. PICK k \in D : named[k] = s
    BY <1>3, <2>2 DEF ToSet
  <2> HIDE DEF named
  <2>7. \A i \in D : /\ list[i].of \in Candidates /\ Names(list[i])
    BY <1>1 DEF PipelineInv, ListInv, NamesInv
  <2>8. /\ \A c \in Candidates : Eligible(said, c) /\ ~Beaten(c) =>
              answer[c].key = Place(said, candidates, c)
        /\ \A c \in Candidates : answer[c].key # NoRange =>
              answer[c].key = Place(said, candidates, c)
        /\ \A c, w \in Candidates : Rival(w, c) /\ ~Beaten(w) /\ Beaten(c) => Beats(w, c)
        /\ \A c \in Candidates : Beaten(c) =>
              \E w \in Candidates :
                 /\ Rival(w, c) /\ ~Beaten(w)
                 /\ answer[c].duplicateOf = Place(said, candidates, w)
    BY <1>1, <1>3, RulesTell DEF Settled
  <2> DEFINE old == list[p[k]]
             c == old.of
  <2>9. old.duplicateOf # NoRange /\ p[k] \in D
    BY <1>3, <2>3, <2>4, <2>6
  <2>10. c \in Candidates /\ Names(old) /\ s.of = c
    BY <2>3, <2>6, <2>7, <2>9
  <2>11. answer[c].duplicateOf = old.duplicateOf /\ Beaten(c)
    BY <2>9, <2>10 DEF Names, Beaten
  <2>12. PICK w \in Candidates : /\ Rival(w, c) /\ ~Beaten(w)
                                 /\ answer[c].duplicateOf = Place(said, candidates, w)
    BY <2>8, <2>10, <2>11
  <2>13. Beats(w, c) /\ Eligible(said, w) /\ answer[w].key = Place(said, candidates, w)
    BY <2>8, <2>10, <2>11, <2>12 DEF Rival
  <2>14. PICK i \in D : list[i].of = w
    <3>1. answer[w] # NoClip
      BY <2>13 DEF Beats, Judged
    <3>2. QED
      BY <1>1, <3>1 DEF PipelineInv, ListInv
  <2>15. PICK j \in D : p[j] = i
    BY <2>4
  <2> DEFINE t == named[j]
  <2>16. t.of = w /\ t.status = list[i].status /\ t \in ToSet(segments')
    BY <2>3, <2>5, <2>14, <2>15
  <2>17. ASSUME list[i].status # "judge_failed"
         PROVE  \E u \in ToSet(segments') : u.id = s.duplicateOf /\ SamePlace(u.of, w)
    <3>1. list[i].key = old.duplicateOf
      BY <2>7, <2>11, <2>12, <2>13, <2>14, <2>17 DEF Names
    <3>2. PICK l \in D : /\ list[p[l]].key = old.duplicateOf
                         /\ named[k].duplicateOf = list[p[l]].id
      BY <2>3, <2>9, <2>15, <3>1
    <3> DEFINE x == list[p[l]].of
    <3>3. Names(list[p[l]]) /\ x \in Candidates
      BY <2>4, <2>7
    <3>4. answer[x].key = old.duplicateOf
      BY <2>9, <3>2, <3>3 DEF Names
    <3>5. Place(said, candidates, x) = Place(said, candidates, w)
      BY <2>8, <2>9, <2>11, <2>12, <3>3, <3>4
    <3>6. named[l].of = x /\ named[l].id = s.duplicateOf /\ named[l] \in ToSet(segments')
      BY <2>3, <2>5, <2>6, <3>2
    <3>7. QED
      BY <3>5, <3>6 DEF SamePlace
  <2>18. QED
    BY <2>10, <2>12, <2>13, <2>16, <2>17
<1>4. ASSUME NEW sorted \in Ordered(segments), segments' = Named(sorted), phase' # "judging"
      PROVE  NamesInv'
  <2>1. ASSUME Len(candidates) > 1, NEW s \in ToSet(segments'), s.duplicateOf # NoRange
        PROVE  \E t \in ToSet(segments') :
                  /\ Beats(t.of, s.of) /\ ~Beaten(t.of)
                  /\ \/ t.status = "judge_failed"
                     \/ \E u \in ToSet(segments') :
                           u.id = s.duplicateOf /\ SamePlace(u.of, t.of)
    BY <1>3, <1>4, <2>1
  <2>2. \A w, c : /\ Beats(w, c)' <=> Beats(w, c)
                  /\ Beaten(c)' <=> Beaten(c)
                  /\ SamePlace(w, c)' <=> SamePlace(w, c)
    BY <1>1 DEF Beats, Beaten, SamePlace, Judged, Candidates, SameGroup, Overlapping
  <2>3. QED
    BY <1>1, <1>4, <2>1, <2>2 DEF NamesInv
<1>5. QED
  BY <1>2, <1>3, <1>4 DEF Finish

LEMMA NamesKept ==
    ASSUME PipelineInv, AnswerInv, RuledInv, NamesInv, [Next]_vars
    PROVE  NamesInv'
<1>1. CASE UNCHANGED vars
  BY <1>1 DEF vars, pool, hand, NamesInv, Names, Beats, Beaten, SamePlace, Judged, Candidates,
              SameGroup, Overlapping
<1>2. CASE TurnAway
  BY <1>2 DEF TurnAway, NamesInv
<1>3. CASE Cut
  <2>1. DOMAIN segments' = {} /\ step' = "free" /\ phase' # "done"
    BY <1>3 DEF Cut, hand, PipelineInv, PhaseInv, ListInv, Candidates
  <2>2. QED
    BY <2>1 DEF NamesInv
<1>4. ASSUME NEW c \in Candidates, StartCall(c)
      PROVE  NamesInv'
  BY <1>4, NamesStay DEF StartCall, hand
<1>5. ASSUME NEW c \in Candidates, CallEnds(c)
      PROVE  NamesInv'
  <2>1. /\ call[c] = "running" /\ \A d \in Candidates \ {c} : answer'[d] = answer[d]
        /\ phase = "judging" /\ phase' \in {"judging", "raised"}
        /\ UNCHANGED <<segments, step, record>>
    BY <1>5 DEF CallEnds, hand, PipelineInv, CutInv
  <2>2. \A k \in DOMAIN segments : segments[k].of \in Candidates \ {c}
    BY <2>1 DEF PipelineInv, ListInv
  <2>3. step # "free" => record.of \in Candidates \ {c}
    BY <2>1, HandHeld DEF PipelineInv, CutInv
  <2>4. QED
    BY <2>1, <2>2, <2>3, NamesStay
<1>6. ASSUME NEW c \in Candidates, Collect(c)
      PROVE  NamesInv'
  <2>1. /\ phase = "judging" /\ phase' \in {"judging", "raised"} /\ step = "free"
        /\ UNCHANGED <<segments, step, record>>
    BY <1>6 DEF Collect, hand
  <2>2. \A d \in Candidates : call[d] = "finished" => answer'[d] = answer[d]
    <3>1. CASE Complete(c) /\ \E winners \in {Winners(answer, candidates, Group(c))} :
                  answer' = IF Len(candidates) = 1 THEN answer
                            ELSE Marked(answer, candidates, Group(c), winners)
      <4>1. \A d \in Group(c) : call[d] \in {"answered", "gathered"}
        BY <1>6, <3>1 DEF Complete, Collect
      <4>2. \A d \in Candidates : d \notin Group(c) => answer'[d] = answer[d]
        BY <3>1, MarkedDomain DEF PipelineInv, CutInv
      <4>3. QED
        BY <4>1, <4>2
    <3>2. QED
      BY <1>6, <3>1 DEF Collect
  <2>3. \A k \in DOMAIN segments : answer'[segments[k].of] = answer[segments[k].of]
    BY <2>2 DEF PipelineInv, ListInv
  <2>4. QED
    BY <2>1, <2>3, NamesStay
<1>7. QED
  BY <1>1, <1>2, <1>3, <1>4, <1>5, <1>6, AnalyseNames, StagesNames, FinishNames DEF Next, Worker

(* Whatever the order in which the calls start and end, who is a duplicate  *)
(* is decided by rank within the groups that overlaps make, and a duplicate *)
(* names a segment of the seconds of a clip that beats it.                  *)
THEOREM DuplicatesDecided == Spec => []DuplicatesDecidedByRank
<1>1. Init => RuledInv /\ NamesInv
  <2> SUFFICES ASSUME Init
               PROVE  RuledInv /\ NamesInv
    OBVIOUS
  <2>1. candidates = <<>> /\ Candidates = {} /\ groups = {} /\ phase = "recorded"
    BY DEF Init, Candidates
  <2>2. Clusters(0, Links, {})
    BY DEF Clusters
  <2>3. QED
    BY <2>1, <2>2 DEF RuledInv, NamesInv
<1>2. PipelineInv /\ KeptInv /\ RuledInv /\ NamesInv /\ [Next]_vars => RuledInv' /\ NamesInv'
  BY RulesKept, NamesKept DEF KeptInv
<1>3. PipelineInv /\ KeptInv /\ RuledInv /\ NamesInv => DuplicatesDecidedByRank
  <2> SUFFICES ASSUME PipelineInv, KeptInv, RuledInv, NamesInv, phase = "done", Len(candidates) > 1
               PROVE  DuplicatesDecidedByRank
    BY DEF DuplicatesDecidedByRank
  <2>1. /\ AnswerInv /\ \A c \in Candidates : Settled(c)
        /\ \A c \in Candidates : Ruled(c)
    BY DEF KeptInv, PipelineInv, PhaseInv, Settled, RuledInv
  <2>2. /\ \A c, w \in Candidates : Rival(w, c) /\ ~Beaten(w) /\ Beaten(c) => Beats(w, c)
        /\ \A c \in Candidates : Beaten(c) =>
              /\ Eligible(said, c) /\ \E w \in Candidates : Rival(w, c) /\ ~Beaten(w)
    BY <2>1, RulesTell
  <2>3. ASSUME NEW c \in Judged, Eligible(said, c), NEW w \in Judged, Beats(w, c), ~Beaten(w)
        PROVE  Beaten(c)
    <3>1. c \in Candidates /\ w \in Candidates
      BY DEF Judged
    <3>2. Rival(w, c)
      BY <2>3, <3>1, InCandidates, SameGroupIs DEF Beats, Rival, RuledInv
    <3>3. ~Won(c)
      BY <2>3, <3>1, <3>2 DEF Won
    <3>4. Lost(c)
      BY <2>1, <2>3, <3>1, <3>3 DEF Ruled
    <3>5. QED
      BY <2>1, <3>4, PlaceIsRange DEF Lost, Beaten, Rival
  <2>4. ASSUME NEW c \in Judged, Beaten(c)
        PROVE  Eligible(said, c) /\ \E w \in Judged : Beats(w, c) /\ ~Beaten(w)
    <3>1. c \in Candidates
      BY DEF Judged
    <3>2. PICK w \in Candidates : Rival(w, c) /\ ~Beaten(w)
      BY <2>2, <2>4, <3>1
    <3>3. Beats(w, c) /\ w \in Judged
      BY <2>2, <2>4, <3>1, <3>2 DEF Beats
    <3>4. QED
      BY <2>2, <2>4, <3>1, <3>2, <3>3
  <2>5. QED
    BY <2>3, <2>4 DEF DuplicatesDecidedByRank, NamesInv
<1>4. QED
  BY PipelineInvariant, KeptInvariant, <1>1, <1>2, <1>3, PTL DEF Spec
=============================================================================
