--------------------------- MODULE Mapping_proofs ---------------------------
(***************************************************************************)
(* The strategy mappings of the research, for any weeks, days, models,     *)
(* replays, critical values, gates, policies and scores: what the weekly   *)
(* walk-forward freezes is sound (FrozenPairsStaySound); so is the mapping *)
(* that is built from daily evidence (MappingStaysSound); and the audit of *)
(* a published daily experiment is exact (AuditStaysExact).                *)
(*                                                                         *)
(* Both mappings are built from statistics: sums, products, means, medians *)
(* and shares of sequences.  The code enumerates sets in an order and the  *)
(* properties look at the sets, so the first part is about finite sets     *)
(* enumerated by rank, about sums, which do not depend on the order, and   *)
(* about ratios compared by cross multiplication, of which a finite set    *)
(* has a least one, and by which the first of a finite set of keys exists. *)
(***************************************************************************)
EXTENDS DailyMapping, MappingAudit, WeeklyMapping, SequenceTheorems, FiniteSetTheorems,
        WellFoundedInduction, TLAPS

-----------------------------------------------------------------------------
(* Numbers, and courses of values.                                          *)

LEMMA Smallest ==
    ASSUME NEW S \in SUBSET Nat, S # {}
    PROVE  \E n \in S : \A m \in S : n =< m
<1> DEFINE R == OpToRel(<, Nat)
<1>1. IsWellFoundedOn(R, Nat)
  BY NatLessThanWellFounded
<1>2. \A x, y \in Nat : x < y => <<x, y>> \in R
  BY DEF OpToRel
<1> HIDE DEF R
<1>3. PICK n \in S : \A y \in S : ~ (<<y, n>> \in R)
  BY <1>1, WFMin
<1>4. ASSUME NEW m \in S PROVE n =< m
  <2>1. n \in Nat /\ m \in Nat /\ ~(<<m, n>> \in R)
    BY <1>3
  <2>2. ~(m < n)
    BY <1>2, <2>1
  <2> QED BY <2>1, <2>2
<1> QED BY <1>4

(* A set that has 0 and the successors of its numbers up to n has them all. *)
LEMMA InductionUpTo ==
    ASSUME NEW n \in Nat, NEW S, 0 \in S, \A k \in 1..n : k - 1 \in S => k \in S
    PROVE  \A k \in 0..n : k \in S
<1> DEFINE T == (0..n) \ S
<1>1. SUFFICES ASSUME T # {} PROVE FALSE
  OBVIOUS
<1>2. T \in SUBSET Nat
  OBVIOUS
<1>3. \A m \in 0..n : m \notin S => m \in T
  OBVIOUS
<1>4. \A m \in T : m \in 0..n /\ m \notin S /\ m # 0
  OBVIOUS
<1> HIDE DEF T
<1>5. PICK k \in T : \A m \in T : k =< m
  BY <1>1, <1>2, Smallest
<1>6. k \in 1..n /\ k - 1 \in 0..n /\ ~(k =< k - 1)
  BY <1>4, <1>5
<1>7. k - 1 \in S
  BY <1>3, <1>5, <1>6
<1> QED
  BY <1>4, <1>5, <1>6, <1>7

(* One value after the other, each from the one before.                     *)
IsCourse(f, n, V, base, step) ==
    /\ f = [i \in 0..n |-> f[i]]
    /\ f[0] = base
    /\ \A i \in 0..n : f[i] \in V
    /\ \A i \in 1..n : f[i] = step[<<i, f[i - 1]>>]

LEMMA CoursesExist ==
    ASSUME NEW n \in Nat, NEW V, NEW base \in V, NEW step,
           \A i \in 1..n, v \in V : step[<<i, v>>] \in V
    PROVE  \E f : IsCourse(f, n, V, base, step)
<1> DEFINE S == {k \in 0..n : \E f : IsCourse(f, k, V, base, step)}
<1>1. 0 \in S
  <2>1. IsCourse([i \in 0..0 |-> base], 0, V, base, step)
    BY DEF IsCourse
  <2> QED
    BY <2>1
<1>2. ASSUME NEW k \in 1..n, k - 1 \in S PROVE k \in S
  <2>1. PICK f : IsCourse(f, k - 1, V, base, step)
    BY <1>2
  <2> DEFINE g == [i \in 0..k |-> IF i = k THEN step[<<k, f[k - 1]>>] ELSE f[i]]
  <2>2. g[0] = base /\ g = [i \in 0..k |-> g[i]]
    BY <2>1 DEF IsCourse
  <2>3. f[k - 1] \in V
    BY <2>1 DEF IsCourse
  <2>4. \A i \in 0..k : g[i] \in V
    BY <2>1, <2>3 DEF IsCourse
  <2>5. \A i \in 1..k : g[i] = step[<<i, g[i - 1]>>]
    <3>1. \A i \in 1..k : i = k \/ (i # k /\ i \in 1..(k - 1) /\ i \in 0..k)
      OBVIOUS
    <3>2. \A i \in 1..k : i - 1 \in 0..k /\ i - 1 # k /\ g[i - 1] = f[i - 1]
      OBVIOUS
    <3>3. \A i \in 1..(k - 1) : f[i] = step[<<i, f[i - 1]>>]
      BY <2>1 DEF IsCourse
    <3>4. \A i \in 0..k : i # k => g[i] = f[i]
      OBVIOUS
    <3>5. g[k] = step[<<k, f[k - 1]>>]
      OBVIOUS
    <3> HIDE DEF g
    <3> QED
      BY <3>1, <3>2, <3>3, <3>4, <3>5
  <2>6. IsCourse(g, k, V, base, step)
    BY <2>2, <2>4, <2>5 DEF IsCourse
  <2> QED
    BY <2>6
<1>3. n \in S
  <2>1. n \in 0..n
    OBVIOUS
  <2> HIDE DEF S
  <2> QED
    BY <1>1, <1>2, <2>1, InductionUpTo
<1> QED
  BY <1>3

(* t has the sums of the first values of s.                                 *)
Sums(s, t) ==
    /\ t[0] = 0
    /\ \A i \in 0..Len(s) : t[i] \in Int
    /\ \A i \in 1..Len(s) : t[i] = t[i - 1] + s[i]
    /\ Total(s) = t[Len(s)]

LEMMA TotalSteps ==
    ASSUME NEW s \in Seq(Int)
    PROVE  \E t : Sums(s, t)
<1> DEFINE n == Len(s)
           step == [x \in (1..n) \X Int |-> x[2] + s[x[1]]]
           Adds(t) == t = [i \in 0..n |-> IF i = 0 THEN 0 ELSE t[i - 1] + s[i]]
<1>1. n \in Nat /\ \A i \in 1..n : s[i] \in Int
  OBVIOUS
<1>2. \A i \in 1..n, v \in Int : step[<<i, v>>] = v + s[i] /\ step[<<i, v>>] \in Int
  BY <1>1
<1> HIDE DEF step
<1>3. PICK f : IsCourse(f, n, Int, 0, step)
  <2> DEFINE base == 0
             V == Int
  <2>1. base \in V /\ \A i \in 1..n, v \in V : step[<<i, v>>] \in V
    BY <1>2
  <2> HIDE DEF n, base, V
  <2>2. \E f : IsCourse(f, n, V, base, step)
    BY <1>1, <2>1, CoursesExist
  <2> QED
    BY <2>2 DEF base, V
<1>4. \A i \in 0..n : f[i] = IF i = 0 THEN 0 ELSE f[i - 1] + s[i]
  <2>1. ASSUME NEW i \in 0..n, i # 0 PROVE f[i] = f[i - 1] + s[i]
    <3>1. i \in 1..n /\ i - 1 \in 0..n
      BY <1>1, <2>1
    <3>2. f[i] = step[<<i, f[i - 1]>>] /\ f[i - 1] \in Int
      BY <1>3, <3>1 DEF IsCourse
    <3> QED
      BY <1>2, <3>1, <3>2
  <2>2. f[0] = 0
    BY <1>3 DEF IsCourse
  <2> QED
    BY <2>1, <2>2
<1>5. Adds(f)
  BY <1>3, <1>4 DEF IsCourse
<1> DEFINE t == CHOOSE g : Adds(g)
<1>6. Adds(t)
  BY <1>5
<1>7. Total(s) = t[n]
  BY DEF Total
<1> HIDE DEF t
<1>8. \A i \in 0..n : t[i] = IF i = 0 THEN 0 ELSE t[i - 1] + s[i]
  BY <1>6
<1> HIDE DEF Adds
<1>9. t[0] = 0
  BY <1>1, <1>8
<1>10. \A i \in 1..n : t[i] = t[i - 1] + s[i]
  BY <1>1, <1>8
<1> DEFINE S == {i \in 0..n : t[i] \in Int}
<1>11. 0 \in S
  BY <1>1, <1>9
<1>12. ASSUME NEW i \in 1..n, i - 1 \in S PROVE i \in S
  BY <1>1, <1>10, <1>12
<1>13. \A i \in 0..n : i \in S
  <2> HIDE DEF S, n
  <2> QED
    BY <1>1, <1>11, <1>12, InductionUpTo
<1> QED
  BY <1>7, <1>9, <1>10, <1>13 DEF Sums

LEMMA TotalIsInt ==
    ASSUME NEW s \in Seq(Int)
    PROVE  Total(s) \in Int
<1>1. PICK t : Sums(s, t)
  BY TotalSteps
<1>2. Len(s) \in 0..Len(s)
  OBVIOUS
<1> QED
  BY <1>1, <1>2 DEF Sums

LEMMA TotalOfNone == Total(<<>>) = 0
<1>1. <<>> \in Seq(Int) /\ Len(<<>>) = 0
  OBVIOUS
<1>2. PICK t : Sums(<<>>, t)
  BY <1>1, TotalSteps
<1> QED
  BY <1>1, <1>2 DEF Sums

(* Sequences of one length, value by value.                                 *)
LEMMA TotalsCompare ==
    ASSUME NEW a \in Seq(Int), NEW b \in Seq(Int), Len(a) = Len(b),
           \A i \in 1..Len(a) : a[i] <= b[i]
    PROVE  Total(a) <= Total(b)
<1> DEFINE n == Len(a)
<1>1. n \in Nat /\ \A i \in 1..n : a[i] \in Int /\ b[i] \in Int
  OBVIOUS
<1>2. PICK t : Sums(a, t)
  BY TotalSteps
<1>3. PICK u : Sums(b, u)
  BY TotalSteps
<1>4. \A i \in 0..n : t[i] \in Int /\ u[i] \in Int
  BY <1>2, <1>3 DEF Sums
<1>5. \A i \in 1..n : t[i] = t[i - 1] + a[i] /\ u[i] = u[i - 1] + b[i]
  BY <1>2, <1>3 DEF Sums
<1>6. t[0] = 0 /\ u[0] = 0 /\ Total(a) = t[n] /\ Total(b) = u[n]
  BY <1>2, <1>3 DEF Sums
<1> DEFINE S == {i \in 0..n : t[i] <= u[i]}
<1>7. 0 \in S
  BY <1>1, <1>6
<1>8. ASSUME NEW i \in 1..n, i - 1 \in S PROVE i \in S
  <2>1. i - 1 \in 0..n /\ i \in 0..n /\ t[i - 1] <= u[i - 1] /\ a[i] <= b[i]
    BY <1>1, <1>8
  <2>2. t[i] = t[i - 1] + a[i] /\ u[i] = u[i - 1] + b[i]
    BY <1>5
  <2>3. /\ t[i - 1] \in Int /\ u[i - 1] \in Int /\ a[i] \in Int /\ b[i] \in Int
    BY <1>1, <1>4, <2>1
  <2>4. t[i] <= u[i]
    BY <2>1, <2>2, <2>3
  <2> QED
    BY <2>1, <2>4
<1>9. \A i \in 0..n : i \in S
  <2> HIDE DEF S, n
  <2> QED
    BY <1>1, <1>7, <1>8, InductionUpTo
<1>10. n \in 0..n
  BY <1>1
<1> QED
  BY <1>6, <1>9, <1>10

(* A sum of values that are not negative is no less than any of them.       *)
LEMMA TotalNotNegative ==
    ASSUME NEW s \in Seq(Int), \A i \in 1..Len(s) : 0 <= s[i]
    PROVE  0 <= Total(s) /\ \A i \in 1..Len(s) : s[i] <= Total(s)
<1> DEFINE n == Len(s)
<1>1. n \in Nat /\ \A i \in 1..n : s[i] \in Int /\ 0 <= s[i]
  OBVIOUS
<1>2. PICK t : Sums(s, t)
  BY TotalSteps
<1>3. \A i \in 0..n : t[i] \in Int
  BY <1>2 DEF Sums
<1>4. \A i \in 1..n : t[i] = t[i - 1] + s[i]
  BY <1>2 DEF Sums
<1>5. t[0] = 0 /\ Total(s) = t[n]
  BY <1>2 DEF Sums
<1> DEFINE S == {i \in 0..n : 0 <= t[i] /\ \A k \in 1..i : s[k] <= t[i]}
<1>6. 0 \in S
  BY <1>1, <1>5
<1>7. ASSUME NEW i \in 1..n, i - 1 \in S PROVE i \in S
  <2>1. i - 1 \in 0..n /\ i \in 0..n /\ 0 <= t[i - 1] /\ \A k \in 1..(i - 1) : s[k] <= t[i - 1]
    BY <1>1, <1>7
  <2>2. t[i] = t[i - 1] + s[i] /\ t[i] \in Int /\ t[i - 1] \in Int /\ 0 <= s[i] /\ s[i] \in Int
    BY <1>1, <1>3, <1>4, <2>1
  <2>3. ASSUME NEW k \in 1..i PROVE s[k] <= t[i]
    <3>1. CASE k = i
      BY <2>1, <2>2, <3>1
    <3>2. CASE k # i
      <4>1. k \in 1..(i - 1) /\ s[k] \in Int
        BY <1>1, <3>2
      <4> QED
        BY <2>1, <2>2, <4>1
    <3> QED
      BY <3>1, <3>2
  <2>4. 0 <= t[i]
    BY <2>1, <2>2
  <2> QED
    BY <2>1, <2>3, <2>4
<1>8. \A i \in 0..n : i \in S
  <2> HIDE DEF S, n
  <2> QED
    BY <1>1, <1>6, <1>7, InductionUpTo
<1>9. n \in 0..n
  BY <1>1
<1> QED
  BY <1>5, <1>8, <1>9

LEMMA MulStep ==
    ASSUME NEW i \in Int, NEW w \in Int
    PROVE  i * w \in Int /\ i * w = (i - 1) * w + w
OBVIOUS

(* Values that are at most w add up to at most w each.                      *)
LEMMA TotalAtMost ==
    ASSUME NEW s \in Seq(Int), NEW w \in Int, \A i \in 1..Len(s) : s[i] <= w
    PROVE  Total(s) <= Len(s) * w
<1> DEFINE n == Len(s)
<1>1. n \in Nat /\ \A i \in 1..n : s[i] \in Int /\ s[i] <= w
  OBVIOUS
<1>2. PICK t : Sums(s, t)
  BY TotalSteps
<1>3. \A i \in 0..n : t[i] \in Int
  BY <1>2 DEF Sums
<1>4. \A i \in 1..n : t[i] = t[i - 1] + s[i]
  BY <1>2 DEF Sums
<1>5. t[0] = 0 /\ Total(s) = t[n]
  BY <1>2 DEF Sums
<1> DEFINE S == {i \in 0..n : t[i] <= i * w}
<1>6. 0 \in S
  BY <1>1, <1>5
<1>7. ASSUME NEW i \in 1..n, i - 1 \in S PROVE i \in S
  <2>1. i - 1 \in 0..n /\ i \in 0..n /\ t[i - 1] <= (i - 1) * w
    BY <1>1, <1>7
  <2>2. t[i] = t[i - 1] + s[i] /\ t[i] \in Int /\ t[i - 1] \in Int /\ s[i] <= w /\ s[i] \in Int
    BY <1>1, <1>3, <1>4, <2>1
  <2>3. i * w \in Int /\ (i - 1) * w \in Int /\ i * w = (i - 1) * w + w
    BY <1>1, MulStep
  <2>4. t[i] <= i * w
    BY <2>1, <2>2, <2>3
  <2> QED
    BY <2>1, <2>4
<1>8. \A i \in 0..n : i \in S
  <2> HIDE DEF S, n
  <2> QED
    BY <1>1, <1>6, <1>7, InductionUpTo
<1>9. n \in 0..n
  BY <1>1
<1> QED
  BY <1>5, <1>8, <1>9

-----------------------------------------------------------------------------
(* Finite sets in an order.                                                 *)

Orders(R, S) ==
    /\ \A a, b \in S : ~(<<a, b>> \in R /\ <<b, a>> \in R)
    /\ \A a, b \in S : a # b => <<a, b>> \in R \/ <<b, a>> \in R
    /\ \A a, b, c \in S : <<a, b>> \in R /\ <<b, c>> \in R => <<a, c>> \in R

IsLeast(R, S, a) == a \in S /\ \A b \in S \ {a} : <<a, b>> \in R

LEMMA LeastExists ==
    ASSUME NEW R, NEW S, IsFiniteSet(S), S # {}, Orders(R, S)
    PROVE  \E a : IsLeast(R, S, a)
<1> DEFINE N == Cardinality(S)
           T == {n \in 0..N : \A Q \in SUBSET S :
                    Cardinality(Q) = n /\ Q # {} => \E a : IsLeast(R, Q, a)}
<1>1. N \in Nat
  BY FS_CardinalityType
<1>2. \A Q \in SUBSET S : IsFiniteSet(Q)
  BY FS_Subset
<1>3. 0 \in T
  <2>1. \A Q \in SUBSET S : Cardinality(Q) = 0 => Q = {}
    BY <1>2, FS_EmptySet
  <2> QED
    BY <1>1, <2>1
<1>4. ASSUME NEW n \in 1..N, n - 1 \in T PROVE n \in T
  <2>1. SUFFICES ASSUME NEW Q \in SUBSET S, Cardinality(Q) = n, Q # {}
                 PROVE  \E a : IsLeast(R, Q, a)
    BY <1>1
  <2>2. PICK x : x \in Q
    BY <2>1
  <2>3. Cardinality(Q \ {x}) = n - 1 /\ Q \ {x} \in SUBSET S
    BY <1>2, <2>1, <2>2, FS_RemoveElement
  <2>4. CASE Q \ {x} = {}
    BY <2>2, <2>4 DEF IsLeast
  <2>5. CASE Q \ {x} # {}
    <3>1. PICK a : IsLeast(R, Q \ {x}, a)
      BY <1>4, <2>3, <2>5
    <3>2. a \in Q /\ a # x /\ \A b \in Q : b # x /\ b # a => <<a, b>> \in R
      BY <3>1 DEF IsLeast
    <3>3. a \in S /\ x \in S /\ \A b \in Q : b \in S
      BY <2>1, <2>2, <3>2
    <3>4. CASE <<a, x>> \in R
      BY <3>2, <3>4 DEF IsLeast
    <3>5. CASE <<x, a>> \in R
      <4>1. \A b \in Q : b # x => <<x, b>> \in R
        BY <3>2, <3>3, <3>5 DEF Orders
      <4> QED
        BY <2>2, <4>1 DEF IsLeast
    <3> QED
      BY <3>2, <3>3, <3>4, <3>5 DEF Orders
  <2> QED
    BY <2>4, <2>5
<1>5. N \in T
  <2>1. N \in 0..N
    BY <1>1
  <2> HIDE DEF T, N
  <2> QED
    BY <1>1, <1>3, <1>4, <2>1, InductionUpTo
<1>6. S \in SUBSET S /\ Cardinality(S) = N
  OBVIOUS
<1> QED
  BY <1>5, <1>6

(* How many come before x                                                   *)
Rank(R, S, x) == Cardinality({y \in S : <<y, x>> \in R})

LEMMA RankRises ==
    ASSUME NEW R, NEW S, IsFiniteSet(S), Orders(R, S)
    PROVE  /\ \A x \in S : Rank(R, S, x) \in 0..(Cardinality(S) - 1)
           /\ \A x, y \in S : <<x, y>> \in R => Rank(R, S, x) < Rank(R, S, y)
<1> DEFINE before(x) == {y \in S : <<y, x>> \in R}
<1>1. \A x : Rank(R, S, x) = Cardinality(before(x)) /\ before(x) \in SUBSET S
  BY DEF Rank
<1>2. \A x : IsFiniteSet(before(x)) /\ Cardinality(before(x)) \in Nat
  BY <1>1, FS_Subset, FS_CardinalityType
<1>3. Cardinality(S) \in Nat
  BY FS_CardinalityType
<1>4. ASSUME NEW x \in S PROVE Rank(R, S, x) \in 0..(Cardinality(S) - 1)
  <2>1. x \notin before(x)
    BY DEF Orders
  <2>2. before(x) # S /\ before(x) \in SUBSET S
    BY <2>1
  <2> HIDE DEF before
  <2>3. Cardinality(before(x)) <= Cardinality(S) /\ Cardinality(before(x)) # Cardinality(S)
    BY <2>2, FS_Subset
  <2> QED
    BY <1>1, <1>2, <1>3, <2>3
<1>5. ASSUME NEW x \in S, NEW y \in S, <<x, y>> \in R
      PROVE  Rank(R, S, x) < Rank(R, S, y)
  <2>1. before(x) \in SUBSET before(y) /\ x \in before(y) /\ x \notin before(x)
    BY <1>5 DEF Orders
  <2> HIDE DEF before
  <2>2. Cardinality(before(x)) <= Cardinality(before(y))
    BY <1>2, <2>1, FS_Subset
  <2>3. Cardinality(before(x)) # Cardinality(before(y))
    BY <1>2, <2>1, FS_Subset
  <2> QED
    BY <1>1, <1>2, <2>2, <2>3
<1> QED
  BY <1>4, <1>5

(* Each rank is that of one element.                                        *)
LEMMA RankIsOfOne ==
    ASSUME NEW R, NEW S, IsFiniteSet(S), Orders(R, S)
    PROVE  /\ \A x, y \in S : Rank(R, S, x) = Rank(R, S, y) => x = y
           /\ \A k \in 0..(Cardinality(S) - 1) : \E x \in S : Rank(R, S, x) = k
<1> DEFINE N == Cardinality(S)
           T == 0..(N - 1)
           f == [x \in S |-> Rank(R, S, x)]
<1>1. N \in Nat
  BY FS_CardinalityType
<1>2. \A x \in S : Rank(R, S, x) \in T
  BY RankRises
<1>3. \A x, y \in S : Rank(R, S, x) = Rank(R, S, y) => x = y
  <2>1. SUFFICES ASSUME NEW x \in S, NEW y \in S, Rank(R, S, x) = Rank(R, S, y), x # y
                 PROVE  FALSE
    OBVIOUS
  <2>2. Rank(R, S, x) \in Int /\ Rank(R, S, y) \in Int
    BY <1>1, <1>2
  <2>3. <<x, y>> \in R \/ <<y, x>> \in R
    BY <2>1 DEF Orders
  <2>4. Rank(R, S, x) < Rank(R, S, y) \/ Rank(R, S, y) < Rank(R, S, x)
    BY <2>3, RankRises
  <2> QED
    BY <2>1, <2>2, <2>4
<1>4. f \in Injection(S, T)
  BY <1>2, <1>3 DEF Injection, IsInjective
<1>5. IsFiniteSet(T) /\ Cardinality(T) = N
  <2>1. N - 1 \in Int /\ 0 \in Int
    BY <1>1
  <2>2. IsFiniteSet(T) /\ Cardinality(T) = IF 0 > N - 1 THEN 0 ELSE (N - 1) - 0 + 1
    BY <2>1, FS_Interval
  <2> QED
    BY <1>1, <2>2
<1>6. f \in Surjection(S, T)
  BY <1>4, <1>5, FS_Injection
<1>7. \A k \in T : \E x \in S : f[x] = k
  BY <1>6 DEF Surjection
<1> QED
  BY <1>3, <1>7

-----------------------------------------------------------------------------
(* Sums over sets.                                                          *)

(* f[s] adds up g over s, one element after the other: pick says which.     *)
IsSum(f, D, g, pick) ==
    /\ IsFiniteSet(D) /\ \A x \in D : g[x] \in Int
    /\ f[{}] = 0
    /\ \A s \in SUBSET D : f[s] \in Int
    /\ \A s \in SUBSET D : s # {} => pick[s] \in s /\ f[s] = g[pick[s]] + f[s \ {pick[s]}]

AddsUp(f, D, g, pick) ==
    f = [s \in SUBSET D |-> IF s = {} THEN 0 ELSE g[pick[s]] + f[s \ {pick[s]}]]

LEMMA SumsExist ==
    ASSUME NEW D, IsFiniteSet(D), NEW g, \A x \in D : g[x] \in Int, NEW pick,
           \A s \in SUBSET D : s # {} => pick[s] \in s
    PROVE  \E f : AddsUp(f, D, g, pick)
<1> DEFINE Small(k) == {s \in SUBSET D : Cardinality(s) <= k}
           Fold(f, k) == /\ f = [s \in Small(k) |-> f[s]]
                         /\ \A s \in Small(k) :
                              /\ f[s] \in Int
                              /\ f[s] = IF s = {} THEN 0 ELSE g[pick[s]] + f[s \ {pick[s]}]
           N == Cardinality(D)
           Reached == {k \in 0..N : \E f : Fold(f, k)}
<1>1. \A s \in SUBSET D : /\ IsFiniteSet(s) /\ Cardinality(s) \in Nat
                          /\ Cardinality(s) <= N
  BY FS_Subset, FS_CardinalityType
<1>2. \A s \in SUBSET D : Cardinality(s) = 0 <=> s = {}
  BY <1>1, FS_EmptySet
<1>3. N \in Nat
  BY FS_CardinalityType
<1>4. ASSUME NEW s \in SUBSET D, s # {}
      PROVE  /\ pick[s] \in D /\ g[pick[s]] \in Int /\ s \ {pick[s]} \in SUBSET D
             /\ Cardinality(s \ {pick[s]}) = Cardinality(s) - 1
  BY <1>1, <1>4, FS_RemoveElement
<1>5. 0 \in Reached
  <2> DEFINE f == [s \in Small(0) |-> 0]
  <2>1. \A s \in Small(0) : s = {}
    BY <1>1, <1>2
  <2>2. Fold(f, 0)
    BY <2>1
  <2>3. 0 \in 0..N
    BY <1>3
  <2> QED
    BY <2>2, <2>3
<1>6. ASSUME NEW n \in 1..N, n - 1 \in Reached
      PROVE  n \in Reached
  <2> DEFINE k == n - 1
  <2>1. k \in Nat /\ k + 1 = n
    BY <1>3
  <2>2. PICK f : Fold(f, k)
    BY <1>6
  <2> HIDE DEF k
  <2> DEFINE h == [s \in Small(k + 1) |-> IF s = {} THEN 0 ELSE g[pick[s]] + f[s \ {pick[s]}]]
  <2>3. \A s \in Small(k + 1) : s # {} => s \ {pick[s]} \in Small(k) /\ g[pick[s]] \in Int
    BY <1>1, <1>4, <2>1
  <2>4. \A s \in Small(k) : s \in Small(k + 1) /\ h[s] = f[s]
    BY <1>1, <2>1, <2>2
  <2>5. \A s \in Small(k + 1) : h[s] \in Int
    <3>1. \A s \in Small(k + 1) : s # {} => f[s \ {pick[s]}] \in Int
      BY <2>2, <2>3
    <3>2. \A s \in Small(k + 1) : s # {} => g[pick[s]] + f[s \ {pick[s]}] \in Int
      BY <2>3, <3>1
    <3> QED
      BY <3>2
  <2>6. ASSUME NEW s \in Small(k + 1)
        PROVE  h[s] = IF s = {} THEN 0 ELSE g[pick[s]] + h[s \ {pick[s]}]
    <3> HIDE DEF Small
    <3>1. s # {} => h[s \ {pick[s]}] = f[s \ {pick[s]}]
      BY <2>3, <2>4
    <3>2. h[s] = IF s = {} THEN 0 ELSE g[pick[s]] + f[s \ {pick[s]}]
      OBVIOUS
    <3> QED
      BY <3>1, <3>2
  <2> HIDE DEF Small
  <2>7. h = [s \in Small(k + 1) |-> h[s]]
    OBVIOUS
  <2> HIDE DEF h
  <2>8. Fold(h, k + 1)
    BY <2>5, <2>6, <2>7
  <2>9. n \in 0..N
    BY <1>3
  <2> HIDE DEF Fold, N
  <2>10. \E e : Fold(e, n)
    BY <2>1, <2>8
  <2> QED
    BY <2>9, <2>10
<1>7. N \in Reached
  <2>1. N \in 0..N
    BY <1>3
  <2> HIDE DEF Reached, N
  <2> QED
    BY <1>3, <1>5, <1>6, <2>1, InductionUpTo
<1>8. PICK f : Fold(f, N)
  BY <1>7
<1>9. Small(N) = SUBSET D
  BY <1>1
<1> HIDE DEF Small, N
<1>10. /\ f = [s \in SUBSET D |-> f[s]]
       /\ \A s \in SUBSET D : f[s] \in Int
       /\ \A s \in SUBSET D : f[s] = IF s = {} THEN 0 ELSE g[pick[s]] + f[s \ {pick[s]}]
  BY <1>8, <1>9
<1>11. f = [s \in SUBSET D |-> IF s = {} THEN 0 ELSE g[pick[s]] + f[s \ {pick[s]}]]
  <2> DEFINE e(s) == IF s = {} THEN 0 ELSE g[pick[s]] + f[s \ {pick[s]}]
  <2>1. \A s \in SUBSET D : f[s] = e(s)
    BY <1>10
  <2> HIDE DEF e
  <2>2. f = [s \in SUBSET D |-> e(s)]
    BY <1>10, <2>1
  <2> QED
    BY <2>2 DEF e
<1> QED
  BY <1>11 DEF AddsUp

(* What adds up so is a sum.                                                *)
LEMMA SumsAreTyped ==
    ASSUME NEW D, IsFiniteSet(D), NEW g, \A x \in D : g[x] \in Int, NEW pick,
           \A s \in SUBSET D : s # {} => pick[s] \in s, NEW f, AddsUp(f, D, g, pick)
    PROVE  IsSum(f, D, g, pick)
<1> DEFINE N == Cardinality(D)
           T == {n \in 0..N : \A s \in SUBSET D : Cardinality(s) = n => f[s] \in Int}
<1>1. \A s \in SUBSET D : IsFiniteSet(s) /\ Cardinality(s) \in Nat /\ Cardinality(s) <= N
  BY FS_Subset, FS_CardinalityType
<1>2. N \in Nat
  BY FS_CardinalityType
<1>3. \A s \in SUBSET D : f[s] = IF s = {} THEN 0 ELSE g[pick[s]] + f[s \ {pick[s]}]
  <2> DEFINE e(s) == IF s = {} THEN 0 ELSE g[pick[s]] + f[s \ {pick[s]}]
  <2>1. f = [s \in SUBSET D |-> e(s)]
    BY DEF AddsUp
  <2> HIDE DEF e
  <2>2. \A s \in SUBSET D : f[s] = e(s)
    BY <2>1
  <2> QED
    BY <2>2 DEF e
<1>4. f[{}] = 0
  <2>1. {} \in SUBSET D
    OBVIOUS
  <2> QED
    BY <1>3, <2>1
<1>5. 0 \in T
  <2>1. \A s \in SUBSET D : Cardinality(s) = 0 => s = {}
    BY <1>1, FS_EmptySet
  <2>2. \A s \in SUBSET D : Cardinality(s) = 0 => f[s] \in Int
    BY <1>4, <2>1
  <2> QED
    BY <1>2, <2>2
<1>6. ASSUME NEW n \in 1..N, n - 1 \in T PROVE n \in T
  <2>1. SUFFICES ASSUME NEW s \in SUBSET D, Cardinality(s) = n PROVE f[s] \in Int
    BY <1>2
  <2>2. s # {}
    <3>1. Cardinality({}) = 0 /\ n # 0
      BY FS_EmptySet
    <3> QED
      BY <2>1, <3>1
  <2>3. pick[s] \in s /\ s \ {pick[s]} \in SUBSET D
    BY <2>2
  <2>4. Cardinality(s \ {pick[s]}) = n - 1
    BY <1>1, <2>1, <2>3, FS_RemoveElement
  <2>5. f[s \ {pick[s]}] \in Int
    BY <1>6, <2>3, <2>4
  <2>6. g[pick[s]] \in Int
    BY <2>3
  <2>7. f[s] = g[pick[s]] + f[s \ {pick[s]}]
    BY <1>3, <2>2
  <2> QED
    BY <2>5, <2>6, <2>7
<1>7. \A n \in 0..N : n \in T
  <2> HIDE DEF T, N
  <2> QED
    BY <1>2, <1>5, <1>6, InductionUpTo
<1>8. \A s \in SUBSET D : f[s] \in Int
  <2>1. \A s \in SUBSET D : Cardinality(s) \in 0..N
    BY <1>1, <1>2
  <2> QED
    BY <1>7, <2>1
<1> QED
  BY <1>3, <1>4, <1>8 DEF IsSum

(* What is picked first does not matter.                                    *)
TakesAny(f, D, g) ==
    \A s \in SUBSET D : \A y \in s : f[s] = g[y] + f[s \ {y}]

LEMMA AnyIsFirst ==
    ASSUME NEW D, NEW g, NEW pick, NEW f, IsSum(f, D, g, pick)
    PROVE  TakesAny(f, D, g)
<1>0. IsFiniteSet(D) /\ \A x \in D : g[x] \in Int
  BY DEF IsSum
<1> DEFINE N == Cardinality(D)
           T == {n \in 0..N : \A s \in SUBSET D : Cardinality(s) = n =>
                    \A y \in s : f[s] = g[y] + f[s \ {y}]}
<1>1. \A s \in SUBSET D : IsFiniteSet(s) /\ Cardinality(s) \in Nat /\ Cardinality(s) <= N
  BY <1>0, FS_Subset, FS_CardinalityType
<1>2. N \in Nat
  BY <1>0, FS_CardinalityType
<1>3. 0 \in T
  <2>1. \A s \in SUBSET D : Cardinality(s) = 0 => s = {}
    BY <1>1, FS_EmptySet
  <2> QED
    BY <1>2, <2>1
<1>4. ASSUME NEW n \in 1..N, n - 1 \in T PROVE n \in T
  <2>1. SUFFICES ASSUME NEW s \in SUBSET D, Cardinality(s) = n, NEW y \in s
                 PROVE  f[s] = g[y] + f[s \ {y}]
    BY <1>2
  <2> DEFINE x == pick[s]
  <2>2. s # {} /\ x \in s /\ f[s] = g[x] + f[s \ {x}]
    BY <2>1 DEF IsSum
  <2> HIDE DEF x
  <2>3. /\ s \ {x} \in SUBSET D /\ s \ {y} \in SUBSET D
        /\ Cardinality(s \ {x}) = n - 1 /\ Cardinality(s \ {y}) = n - 1
    BY <1>1, <2>1, <2>2, FS_RemoveElement
  <2>4. CASE x = y
    BY <2>2, <2>4
  <2>5. CASE x # y
    <3> DEFINE r == (s \ {x}) \ {y}
    <3>1. y \in s \ {x} /\ x \in s \ {y} /\ (s \ {y}) \ {x} = r /\ r \in SUBSET D
      BY <2>1, <2>2, <2>5
    <3>2. \A q \in SUBSET D : Cardinality(q) = n - 1 => \A z \in q : f[q] = g[z] + f[q \ {z}]
      BY <1>4
    <3>3. f[s \ {x}] = g[y] + f[r]
      BY <2>3, <3>1, <3>2
    <3>4. f[s \ {y}] = g[x] + f[r]
      BY <2>3, <3>1, <3>2
    <3>5. f[r] \in Int /\ g[x] \in Int /\ g[y] \in Int
      BY <1>0, <2>1, <2>2, <3>1 DEF IsSum
    <3> HIDE DEF r
    <3> QED
      BY <2>2, <3>3, <3>4, <3>5
  <2> QED
    BY <2>4, <2>5
<1>5. \A n \in 0..N : n \in T
  <2> HIDE DEF T, N
  <2> QED
    BY <1>2, <1>3, <1>4, InductionUpTo
<1>6. \A s \in SUBSET D : Cardinality(s) \in 0..N
  BY <1>1, <1>2
<1> QED
  BY <1>5, <1>6 DEF TakesAny

(* The sum over a set is that of its elements in any order.                 *)
LEMMA SumInOrder ==
    ASSUME NEW D, NEW g, NEW pick, NEW f, IsSum(f, D, g, pick), NEW n \in Nat, NEW w, NEW s,
           \A i \in 1..n : w[i] \in D, \A i, j \in 1..n : w[i] = w[j] => i = j,
           \A x \in D : \E i \in 1..n : w[i] = x,
           s \in Seq(Int), Len(s) = n, \A i \in 1..n : s[i] = g[w[i]]
    PROVE  f[D] = Total(s)
<1>0. TakesAny(f, D, g)
  BY AnyIsFirst
<1> DEFINE first(k) == {w[i] : i \in 1..k}
<1>1. PICK t : Sums(s, t)
  BY TotalSteps
<1>2. t[0] = 0 /\ Total(s) = t[n]
  BY <1>1 DEF Sums
<1>3. \A i \in 1..n : t[i] = t[i - 1] + s[i]
  BY <1>1 DEF Sums
<1>4. \A i \in 0..n : t[i] \in Int
  BY <1>1 DEF Sums
<1> DEFINE T == {k \in 0..n : f[first(k)] = t[k]}
<1>5. 0 \in T
  <2>1. first(0) = {}
    OBVIOUS
  <2>2. f[first(0)] = 0
    BY <2>1 DEF IsSum
  <2>3. 0 \in 0..n
    OBVIOUS
  <2> QED
    BY <1>2, <2>2, <2>3
<1>6. ASSUME NEW k \in 1..n, k - 1 \in T PROVE k \in T
  <2>1. k \in 0..n /\ k - 1 \in 0..n /\ f[first(k - 1)] = t[k - 1] /\ k \in 1..k
    BY <1>6
  <2>2. first(k) \in SUBSET D /\ w[k] \in first(k)
    BY <2>1
  <2>3. first(k) \ {w[k]} = first(k - 1)
    <3>1. \A i \in 1..k : w[i] # w[k] => i \in 1..(k - 1)
      BY <1>6
    <3>2. \A i \in 1..(k - 1) : i \in 1..k /\ w[i] # w[k]
      BY <1>6
    <3> QED
      BY <3>1, <3>2
  <2> HIDE DEF first
  <2>4. f[first(k)] = g[w[k]] + f[first(k) \ {w[k]}]
    BY <1>0, <2>2 DEF TakesAny
  <2>5. s[k] = g[w[k]] /\ t[k] = t[k - 1] + s[k] /\ t[k - 1] \in Int /\ g[w[k]] \in Int
    <3>1. \A x \in D : g[x] \in Int
      BY DEF IsSum
    <3> QED
      BY <1>3, <1>4, <2>1, <3>1
  <2>6. f[first(k)] = g[w[k]] + t[k - 1]
    BY <2>1, <2>3, <2>4
  <2>7. f[first(k)] = t[k]
    BY <2>5, <2>6
  <2> QED
    BY <2>1, <2>7
<1>7. \A k \in 0..n : k \in T
  <2> HIDE DEF T
  <2> QED
    BY <1>5, <1>6, InductionUpTo
<1>8. first(n) = D /\ n \in 0..n
  OBVIOUS
<1> QED
  BY <1>2, <1>7, <1>8

-----------------------------------------------------------------------------
(* Ratios, compared by cross multiplication.                                *)

LEMMA TimesKeepsOrder ==
    ASSUME NEW x \in Int, NEW y \in Int, NEW c \in Nat \ {0}
    PROVE  (x <= y <=> x * c <= y * c) /\ (x < y <=> x * c < y * c)
<1>1. \A a, b \in Int : a <= b => a * c <= b * c
  <2>1. ASSUME NEW a \in Int, NEW b \in Int, a <= b PROVE a * c <= b * c
    <3>1. (b - a) * c >= 0
      BY <2>1
    <3> QED
      BY <3>1
  <2> QED
    BY <2>1
<1>2. \A a, b \in Int : a < b => a * c < b * c
  <2>1. ASSUME NEW a \in Int, NEW b \in Int, a < b PROVE a * c < b * c
    <3>1. (a + 1) * c <= b * c
      BY <1>1, <2>1
    <3>2. (a + 1) * c = a * c + c /\ a * c \in Int /\ b * c \in Int
      OBVIOUS
    <3> QED
      BY <3>1, <3>2
  <2> QED
    BY <2>1
<1>3. x * c \in Int /\ y * c \in Int
  OBVIOUS
<1> DEFINE u == x * c
           v == y * c
<1>4. /\ x <= y => u <= v
      /\ y <= x => v <= u
      /\ x < y => u < v
      /\ y < x => v < u
  BY <1>1, <1>2
<1>5. u \in Int /\ v \in Int
  BY <1>3
<1> HIDE DEF u, v
<1>6. (x <= y <=> u <= v) /\ (x < y <=> u < v)
  BY <1>4, <1>5
<1> QED
  BY <1>6 DEF u, v

IsRatio(a) == a[1] \in Int /\ a[2] \in Nat \ {0}

(* Through a third ratio.                                                   *)
LEMMA RatiosChain ==
    ASSUME NEW p \in Int, NEW x \in Nat \ {0}, NEW q \in Int, NEW y \in Nat \ {0},
           NEW r \in Int, NEW z \in Nat \ {0}, p * y <= q * x, q * z <= r * y
    PROVE  p * z <= r * x /\ (p * y < q * x \/ q * z < r * y => p * z < r * x)
<1> DEFINE a == p * y
           b == q * x
           c == q * z
           d == r * y
           e == p * z
           g == r * x
<1>1. a \in Int /\ b \in Int /\ c \in Int /\ d \in Int /\ e \in Int /\ g \in Int
  OBVIOUS
<1>2. a <= b /\ c <= d
  OBVIOUS
<1>3. a * z = e * y /\ b * z = c * x /\ d * x = g * y
  OBVIOUS
<1>4. (p * y < q * x <=> a < b) /\ (q * z < r * y <=> c < d)
  OBVIOUS
<1>5. (p * z <= r * x <=> e <= g) /\ (p * z < r * x <=> e < g)
  OBVIOUS
<1> HIDE DEF a, b, c, d, e, g
<1>6. a * z <= b * z /\ (a < b => a * z < b * z)
  BY <1>1, <1>2, TimesKeepsOrder
<1>7. c * x <= d * x /\ (c < d => c * x < d * x)
  BY <1>1, <1>2, TimesKeepsOrder
<1>8. a * z \in Int /\ b * z \in Int /\ c * x \in Int /\ d * x \in Int /\ e * y \in Int /\ g * y \in Int
  BY <1>1
<1>9. (e <= g <=> e * y <= g * y) /\ (e < g <=> e * y < g * y)
  BY <1>1, TimesKeepsOrder
<1>10. e * y <= g * y /\ (a < b \/ c < d => e * y < g * y)
  <2> DEFINE A == a * z
             B == b * z
             D == d * x
             C == c * x
             E == e * y
             G == g * y
  <2>1. A = E /\ B = C /\ D = G
    BY <1>3
  <2>2. A <= B /\ (a < b => A < B) /\ C <= D /\ (c < d => C < D)
    BY <1>6, <1>7
  <2>3. A \in Int /\ B \in Int /\ C \in Int /\ D \in Int /\ E \in Int /\ G \in Int
    BY <1>8
  <2> HIDE DEF A, B, C, D, E, G
  <2>4. E <= G /\ (a < b \/ c < d => E < G)
    BY <2>1, <2>2, <2>3
  <2> QED
    BY <2>4 DEF E, G
<1> QED
  BY <1>4, <1>5, <1>9, <1>10

LEMMA RatiosCompare ==
    ASSUME NEW a, NEW b, IsRatio(a), IsRatio(b)
    PROVE  /\ Less(a, b) => ~Less(b, a) /\ ~Equal(a, b) /\ ~Equal(b, a)
           /\ ~Equal(a, b) => Less(a, b) \/ Less(b, a)
           /\ Equal(a, b) <=> Equal(b, a)
<1>1. a[1] * b[2] \in Int /\ b[1] * a[2] \in Int
  BY DEF IsRatio
<1> QED
  BY <1>1 DEF Less, Equal

LEMMA RatiosAreOrdered ==
    ASSUME NEW a, NEW b, NEW c, IsRatio(a), IsRatio(b), IsRatio(c)
    PROVE  /\ Less(a, b) /\ Less(b, c) => Less(a, c)
           /\ Less(a, b) /\ Equal(b, c) => Less(a, c)
           /\ Equal(a, b) /\ Less(b, c) => Less(a, c)
           /\ Equal(a, b) /\ Equal(b, c) => Equal(a, c)
<1> DEFINE p == a[1]
           x == a[2]
           q == b[1]
           y == b[2]
           r == c[1]
           z == c[2]
<1>1. /\ p \in Int /\ q \in Int /\ r \in Int
      /\ x \in Nat \ {0} /\ y \in Nat \ {0} /\ z \in Nat \ {0}
  BY DEF IsRatio
<1>2. /\ Less(a, b) <=> p * y < q * x
      /\ Less(b, c) <=> q * z < r * y
      /\ Less(a, c) <=> p * z < r * x
      /\ Equal(a, b) <=> p * y = q * x
      /\ Equal(b, c) <=> q * z = r * y
      /\ Equal(a, c) <=> p * z = r * x
  BY DEF Less, Equal
<1> HIDE DEF p, x, q, y, r, z
<1>3. /\ p * y \in Int /\ q * x \in Int /\ q * z \in Int
      /\ r * y \in Int /\ p * z \in Int /\ r * x \in Int
  BY <1>1
<1>4. p * y <= q * x /\ q * z <= r * y =>
        p * z <= r * x /\ (p * y < q * x \/ q * z < r * y => p * z < r * x)
  BY <1>1, RatiosChain
<1>5. r * y <= q * z /\ q * x <= p * y => r * x <= p * z
  BY <1>1, RatiosChain
<1> DEFINE A == p * y
           B == q * x
           C == q * z
           D == r * y
           E == p * z
           G == r * x
<1>6. /\ A \in Int /\ B \in Int /\ C \in Int /\ D \in Int /\ E \in Int /\ G \in Int
      /\ A <= B /\ C <= D => E <= G /\ (A < B \/ C < D => E < G)
      /\ D <= C /\ B <= A => G <= E
  BY <1>3, <1>4, <1>5
<1>7. /\ Less(a, b) <=> A < B
      /\ Less(b, c) <=> C < D
      /\ Less(a, c) <=> E < G
      /\ Equal(a, b) <=> A = B
      /\ Equal(b, c) <=> C = D
      /\ Equal(a, c) <=> E = G
  BY <1>2
<1> HIDE DEF A, B, C, D, E, G
<1> QED
  BY <1>6, <1>7

(* Tuples of ratios.                                                        *)
IsKey(a, n) == DOMAIN a = 1..n /\ \A i \in 1..n : IsRatio(a[i])

Ties(a, b, n) == \A i \in 1..n : Equal(a[i], b[i])

LEMMA KeysAreOrdered ==
    ASSUME NEW n \in Nat, NEW a, NEW b, NEW c, IsKey(a, n), IsKey(b, n), IsKey(c, n)
    PROVE  /\ ~(Precedes(a, b) /\ Precedes(b, a))
           /\ ~Ties(a, b, n) => Precedes(a, b) \/ Precedes(b, a)
           /\ Precedes(a, b) /\ Precedes(b, c) => Precedes(a, c)
<1>1. \A i \in 1..n : IsRatio(a[i]) /\ IsRatio(b[i]) /\ IsRatio(c[i])
  BY DEF IsKey
<1>2. DOMAIN a = 1..n /\ DOMAIN b = 1..n
  BY DEF IsKey
<1>3. \A i \in 1..n : /\ Less(a[i], b[i]) => ~Less(b[i], a[i]) /\ ~Equal(a[i], b[i]) /\ ~Equal(b[i], a[i])
                      /\ ~Equal(a[i], b[i]) => Less(a[i], b[i]) \/ Less(b[i], a[i])
                      /\ Equal(a[i], b[i]) <=> Equal(b[i], a[i])
  BY <1>1, RatiosCompare
<1>4. \A i \in 1..n : /\ Less(b[i], a[i]) => ~Equal(a[i], b[i])
  BY <1>1, RatiosCompare
<1>5. ASSUME Precedes(a, b), Precedes(b, a) PROVE FALSE
  <2>1. PICK i \in 1..n : (\A j \in 1..(i - 1) : Equal(a[j], b[j])) /\ Less(a[i], b[i])
    BY <1>2, <1>5 DEF Precedes
  <2>2. PICK k \in 1..n : (\A j \in 1..(k - 1) : Equal(b[j], a[j])) /\ Less(b[k], a[k])
    BY <1>2, <1>5 DEF Precedes
  <2>3. i < k => i \in 1..(k - 1)
    OBVIOUS
  <2>4. k < i => k \in 1..(i - 1)
    OBVIOUS
  <2>5. i < k \/ k < i \/ i = k
    OBVIOUS
  <2> QED
    BY <1>3, <1>4, <2>1, <2>2, <2>3, <2>4, <2>5
<1>6. ASSUME ~Ties(a, b, n) PROVE Precedes(a, b) \/ Precedes(b, a)
  <2> DEFINE D == {i \in 1..n : ~Equal(a[i], b[i])}
  <2>1. D # {} /\ D \in SUBSET Nat
    BY <1>6 DEF Ties
  <2> HIDE DEF D
  <2>2. PICK i \in D : \A m \in D : i =< m
    BY <2>1, Smallest
  <2>3. i \in 1..n /\ ~Equal(a[i], b[i])
    BY <2>2 DEF D
  <2>4. \A j \in 1..(i - 1) : j \in 1..n /\ j \notin D
    BY <2>2, <2>3
  <2>5. \A j \in 1..(i - 1) : Equal(a[j], b[j]) /\ Equal(b[j], a[j])
    BY <1>3, <2>4 DEF D
  <2> QED
    BY <1>2, <1>3, <2>3, <2>5 DEF Precedes
<1>7. ASSUME Precedes(a, b), Precedes(b, c) PROVE Precedes(a, c)
  <2>1. PICK i \in 1..n : (\A j \in 1..(i - 1) : Equal(a[j], b[j])) /\ Less(a[i], b[i])
    BY <1>2, <1>7 DEF Precedes
  <2>2. PICK k \in 1..n : (\A j \in 1..(k - 1) : Equal(b[j], c[j])) /\ Less(b[k], c[k])
    BY <1>2, <1>7 DEF Precedes
  <2>3. \A j \in 1..n : /\ Less(a[j], b[j]) /\ Less(b[j], c[j]) => Less(a[j], c[j])
                        /\ Less(a[j], b[j]) /\ Equal(b[j], c[j]) => Less(a[j], c[j])
                        /\ Equal(a[j], b[j]) /\ Less(b[j], c[j]) => Less(a[j], c[j])
                        /\ Equal(a[j], b[j]) /\ Equal(b[j], c[j]) => Equal(a[j], c[j])
    BY <1>1, RatiosAreOrdered
  <2>4. CASE i <= k
    <3>1. \A j \in 1..(i - 1) : j \in 1..(k - 1) /\ j \in 1..n
      BY <2>4
    <3>2. \A j \in 1..(i - 1) : Equal(a[j], c[j])
      BY <2>1, <2>2, <2>3, <3>1
    <3>3. i # k => i \in 1..(k - 1)
      BY <2>4
    <3>4. Less(a[i], c[i])
      BY <2>1, <2>2, <2>3, <3>3
    <3> QED
      BY <1>2, <3>2, <3>4 DEF Precedes
  <2>5. CASE k < i
    <3>1. \A j \in 1..(k - 1) : j \in 1..(i - 1) /\ j \in 1..n
      BY <2>5
    <3>2. \A j \in 1..(k - 1) : Equal(a[j], c[j])
      BY <2>1, <2>2, <2>3, <3>1
    <3>3. k \in 1..(i - 1)
      BY <2>5
    <3>4. Less(a[k], c[k])
      BY <2>1, <2>2, <2>3, <3>3
    <3> QED
      BY <1>2, <3>2, <3>4 DEF Precedes
  <2> QED
    BY <2>4, <2>5
<1> QED
  BY <1>5, <1>6, <1>7

(* Of finitely many things whose keys differ one comes first.               *)
LEMMA FirstExists ==
    ASSUME NEW n \in Nat, NEW S, IsFiniteSet(S), S # {}, NEW key,
           \A x \in S : IsKey(key[x], n),
           \A x, y \in S : x # y => ~Ties(key[x], key[y], n)
    PROVE  \E a \in S : \A b \in S \ {a} : Precedes(key[a], key[b])
<1> DEFINE R == {p \in S \X S : Precedes(key[p[1]], key[p[2]])}
<1>1. \A x, y \in S : <<x, y>> \in R <=> Precedes(key[x], key[y])
  OBVIOUS
<1> HIDE DEF R
<1>3. \A x, y, z \in S : /\ ~(Precedes(key[x], key[y]) /\ Precedes(key[y], key[x]))
                         /\ ~Ties(key[x], key[y], n) => Precedes(key[x], key[y]) \/ Precedes(key[y], key[x])
                         /\ Precedes(key[x], key[y]) /\ Precedes(key[y], key[z]) => Precedes(key[x], key[z])
  BY KeysAreOrdered
<1>4. Orders(R, S)
  BY <1>1, <1>3 DEF Orders
<1>5. PICK a : IsLeast(R, S, a)
  BY <1>4, LeastExists
<1> QED
  BY <1>1, <1>5 DEF IsLeast

-----------------------------------------------------------------------------
(* The statistics of ReturnStatistics.                                      *)

(* Ascending has the values of the sequence.                                *)
LEMMA AscendingIsTyped ==
    ASSUME NEW s \in Seq(Int)
    PROVE  Ascending(s) \in Seq(Int) /\ Len(Ascending(s)) = Len(s)
<1> DEFINE n == Len(s)
           S == 1..n
           R == {p \in S \X S : Outdoes(s, p[1], p[2])}
<1>1. n \in Nat /\ DOMAIN s = S /\ \A i \in S : s[i] \in Int
  OBVIOUS
<1>2. IsFiniteSet(S) /\ Cardinality(S) = n
  <2>1. IsFiniteSet(1..n) /\ Cardinality(1..n) = IF 1 > n THEN 0 ELSE n - 1 + 1
    BY <1>1, FS_Interval
  <2> QED
    BY <1>1, <2>1
<1>3. \A x, y \in S : <<x, y>> \in R <=> s[x] > s[y] \/ (s[x] = s[y] /\ x < y)
  BY DEF Outdoes
<1>4. Orders(R, S)
  <2> HIDE DEF R
  <2>1. \A a \in S : a \in Int /\ s[a] \in Int
    BY <1>1
  <2> HIDE DEF S
  <2>2. \A a, b \in S : ~(<<a, b>> \in R /\ <<b, a>> \in R)
    <3>1. SUFFICES ASSUME NEW a \in S, NEW b \in S, <<a, b>> \in R, <<b, a>> \in R
                   PROVE  FALSE
      OBVIOUS
    <3>2. s[a] > s[b] \/ (s[a] = s[b] /\ a < b)
      BY <1>3, <3>1
    <3>3. s[b] > s[a] \/ (s[b] = s[a] /\ b < a)
      BY <1>3, <3>1
    <3> QED
      BY <2>1, <3>2, <3>3
  <2>3. \A a, b \in S : a # b => <<a, b>> \in R \/ <<b, a>> \in R
    BY <1>3, <2>1
  <2>4. \A a, b, c \in S : <<a, b>> \in R /\ <<b, c>> \in R => <<a, c>> \in R
    BY <1>3, <2>1
  <2> QED
    BY <2>2, <2>3, <2>4 DEF Orders
<1>5. \A i \in S : Rank(R, S, i) = Cardinality({j \in DOMAIN s : Outdoes(s, j, i)})
  <2>1. \A i \in S : {j \in S : <<j, i>> \in R} = {j \in DOMAIN s : Outdoes(s, j, i)}
    BY <1>1
  <2> QED
    BY <2>1 DEF Rank
<1> HIDE DEF R
<1>6. \A k \in 0..(n - 1) : \E i \in S : Rank(R, S, i) = k
  <2> HIDE DEF S
  <2>1. \A k \in 0..(Cardinality(S) - 1) : \E i \in S : Rank(R, S, i) = k
    BY <1>2, <1>4, RankIsOfOne
  <2> QED
    BY <1>2, <2>1
<1>7. \A k \in S : \E i \in DOMAIN s : Cardinality({j \in DOMAIN s : Outdoes(s, j, i)}) = Len(s) - k
  <2>1. \A k \in S : n - k \in 0..(n - 1)
    BY <1>1
  <2> QED
    BY <1>1, <1>5, <1>6, <2>1
<1> DEFINE at(k) == CHOOSE i \in DOMAIN s : Cardinality({j \in DOMAIN s : Outdoes(s, j, i)}) = Len(s) - k
<1>8. \A k \in S : at(k) \in DOMAIN s
  BY <1>7
<1>9. Ascending(s) = [k \in S |-> s[at(k)]]
  BY <1>1 DEF Ascending
<1> HIDE DEF at
<1>10. \A k \in S : s[at(k)] \in Int
  BY <1>1, <1>8
<1>11. Ascending(s) \in [1..n -> Int]
  BY <1>9, <1>10
<1> QED
  BY <1>1, <1>11

LEMMA MeanIsRatio ==
    ASSUME NEW s \in Seq(Int)
    PROVE  IsRatio(Mean(s))
<1>1. s # <<>> => Len(s) \in Nat \ {0}
  OBVIOUS
<1>2. s # <<>> => Len(s) * Equity \in Nat \ {0}
  BY <1>1, StatisticsAssumption
<1>3. Total(s) \in Int
  BY TotalIsInt
<1> QED
  BY <1>2, <1>3 DEF Mean, Zero, IsRatio

LEMMA MedianIsRatio ==
    ASSUME NEW s \in Seq(Int)
    PROVE  IsRatio(Median(s))
<1> DEFINE a == Ascending(s)
           n == Len(a)
           m == n \div 2
<1>1. a \in Seq(Int) /\ n = Len(s)
  BY AscendingIsTyped
<1>2. CASE s = <<>>
  BY <1>2 DEF Median, Zero, IsRatio
<1>3. CASE s # <<>>
  <2>1. n \in Nat \ {0}
    BY <1>1, <1>3
  <2>2. n % 2 = 1 => m + 1 \in 1..n
    BY <2>1
  <2>3. n % 2 # 1 => m \in 1..n /\ m + 1 \in 1..n
    BY <2>1
  <2> HIDE DEF m
  <2>4. \A i \in 1..n : a[i] \in Int
    BY <1>1
  <2>5. Median(s) = IF n % 2 = 1 THEN <<a[m + 1], Equity>> ELSE <<a[m] + a[m + 1], 2 * Equity>>
    BY <1>3 DEF Median, m
  <2>6. Equity \in Nat \ {0} /\ 2 * Equity \in Nat \ {0}
    BY StatisticsAssumption
  <2> HIDE DEF a, n
  <2>7. CASE n % 2 = 1
    BY <2>2, <2>4, <2>5, <2>6, <2>7 DEF IsRatio
  <2>8. CASE n % 2 # 1
    <3>1. a[m] + a[m + 1] \in Int
      BY <2>3, <2>4, <2>8
    <3> QED
      BY <2>5, <2>6, <2>8, <3>1 DEF IsRatio
  <2> QED
    BY <2>7, <2>8
<1> QED
  BY <1>2, <1>3

(* A share is a ratio from 0 to 1.                                          *)
IsShare(q) == IsRatio(q) /\ ~Less(q, Zero) /\ ~Less(<<1, 1>>, q)

LEMMA SharesAreParts ==
    ASSUME NEW p \in Int, NEW q \in Nat \ {0}, 0 <= p, p <= q
    PROVE  IsShare(<<p, q>>)
BY DEF IsShare, IsRatio, Less, Zero

LEMMA ZeroIsShare == IsShare(Zero)
BY SharesAreParts DEF Zero

LEMMA TopShareIsShare ==
    ASSUME NEW s \in Seq(Int), NEW k
    PROVE  IsShare(TopShare(s, k))
<1> DEFINE gain == [i \in DOMAIN s |-> IF s[i] > 0 THEN s[i] ELSE 0]
           best == [i \in DOMAIN s |->
                       IF Cardinality({j \in DOMAIN s : Outdoes(s, j, i)}) < k THEN gain[i] ELSE 0]
           n == Len(s)
<1>1. n \in Nat /\ DOMAIN s = 1..n /\ \A i \in 1..n : s[i] \in Int
  OBVIOUS
<1>2. \A i \in 1..n : gain[i] \in Int /\ 0 <= gain[i] /\ (s[i] > 0 => gain[i] = s[i])
  BY <1>1
<1>3. gain = [i \in 1..n |-> gain[i]]
  BY <1>1
<1>4. best = [i \in 1..n |-> best[i]] /\ \A i \in 1..n : best[i] = gain[i] \/ best[i] = 0
  BY <1>1
<1>5. TopShare(s, k) = IF \A i \in DOMAIN s : s[i] <= 0 THEN Zero ELSE <<Total(best), Total(gain)>>
  BY DEF TopShare
<1> HIDE DEF gain, best, n
<1>6. \A i \in 1..n : best[i] \in Int /\ 0 <= best[i] /\ best[i] <= gain[i]
  BY <1>2, <1>4
<1>7. gain \in Seq(Int) /\ Len(gain) = n
  <2>1. gain \in [1..n -> Int]
    BY <1>2, <1>3
  <2> QED
    BY <1>1, <2>1
<1>8. best \in Seq(Int) /\ Len(best) = n
  <2>1. best \in [1..n -> Int]
    BY <1>4, <1>6
  <2> QED
    BY <1>1, <2>1
<1>9. 0 <= Total(gain) /\ \A i \in 1..n : gain[i] <= Total(gain)
  BY <1>2, <1>7, TotalNotNegative
<1>10. 0 <= Total(best)
  BY <1>6, <1>8, TotalNotNegative
<1>11. Total(best) <= Total(gain)
  BY <1>6, <1>7, <1>8, TotalsCompare
<1>12. Total(best) \in Int /\ Total(gain) \in Int
  BY <1>7, <1>8, TotalIsInt
<1>13. CASE \A i \in DOMAIN s : s[i] <= 0
  BY <1>5, <1>13, ZeroIsShare
<1>14. CASE ~ \A i \in DOMAIN s : s[i] <= 0
  <2>1. PICK i \in 1..n : s[i] > 0
    BY <1>1, <1>14
  <2>2. Total(gain) \in Nat \ {0}
    BY <1>1, <1>2, <1>9, <1>12, <2>1
  <2>3. IsShare(<<Total(best), Total(gain)>>)
    BY <1>10, <1>11, <1>12, <2>2, SharesAreParts
  <2> QED
    BY <1>5, <1>14, <2>3
<1> QED
  BY <1>13, <1>14

(* Sequences joined are a sequence of what they have.                       *)
LEMMA FlattenedIsTyped ==
    ASSUME NEW ss \in Seq(Seq(Int))
    PROVE  FlattenSeq(ss) \in Seq(Int)
<1> DEFINE n == Len(ss)
           step == [x \in (1..n) \X Seq(Int) |-> IF x[1] = 1 THEN ss[1] ELSE x[2] \o ss[x[1]]]
<1>1. n \in Nat /\ \A i \in 1..n : ss[i] \in Seq(Int)
  OBVIOUS
<1>2. CASE n = 0
  BY <1>2 DEF FlattenSeq
<1>3. CASE n # 0
  <2>1. \A i \in 1..n, v \in Seq(Int) : /\ step[<<i, v>>] = IF i = 1 THEN ss[1] ELSE v \o ss[i]
                                        /\ step[<<i, v>>] \in Seq(Int)
    BY <1>1, <1>3
  <2> HIDE DEF step
  <2>2. PICK f : IsCourse(f, n, Seq(Int), <<>>, step)
    <3> DEFINE base == <<>>
               V == Seq(Int)
    <3>1. base \in V
      OBVIOUS
    <3>2. \A i \in 1..n, v \in V : step[<<i, v>>] \in V
      BY <2>1
    <3> HIDE DEF base, V, n
    <3> QED
      BY <1>1, <3>1, <3>2, CoursesExist DEF base, V
  <2> DEFINE g == [i \in 1..n |-> f[i]]
             Joins(h) == h = [i \in 1..n |-> IF i = 1 THEN ss[i] ELSE h[i - 1] \o ss[i]]
  <2>3. \A i \in 1..n : f[i] = IF i = 1 THEN ss[1] ELSE f[i - 1] \o ss[i]
    <3>1. \A i \in 0..n : f[i] \in Seq(Int)
      BY <2>2 DEF IsCourse
    <3>2. \A i \in 1..n : f[i] = step[<<i, f[i - 1]>>]
      BY <2>2 DEF IsCourse
    <3>3. \A i \in 1..n : i - 1 \in 0..n
      BY <1>1
    <3> QED
      BY <2>1, <3>1, <3>2, <3>3
  <2>4. Joins(g)
    <3>1. \A i \in 1..n : i # 1 => i - 1 \in 1..n
      OBVIOUS
    <3>2. \A i \in 1..n : g[i] = IF i = 1 THEN ss[i] ELSE g[i - 1] \o ss[i]
      BY <2>3, <3>1
    <3> QED
      BY <3>2
  <2> DEFINE c == CHOOSE h : Joins(h)
  <2>5. Joins(c)
    BY <2>4
  <2>6. FlattenSeq(ss) = c[n]
    BY <1>3 DEF FlattenSeq
  <2> HIDE DEF c, g
  <2>7. \A i \in 1..n : c[i] = IF i = 1 THEN ss[i] ELSE c[i - 1] \o ss[i]
    BY <2>5
  <2> HIDE DEF Joins
  <2> DEFINE T == {k \in 0..n : k = 0 \/ c[k] \in Seq(Int)}
  <2>8. 0 \in T
    BY <1>1
  <2>9. ASSUME NEW k \in 1..n, k - 1 \in T PROVE k \in T
    <3>0. k - 1 = 0 \/ c[k - 1] \in Seq(Int)
      BY <2>9
    <3>1. k # 1 => c[k - 1] \in Seq(Int) /\ c[k] = c[k - 1] \o ss[k]
      <4>1. k # 1 => k - 1 # 0
        OBVIOUS
      <4>2. k # 1 => c[k] = c[k - 1] \o ss[k]
        BY <2>7
      <4> QED
        BY <3>0, <4>1, <4>2
    <3>2. k = 1 => c[k] = ss[k]
      BY <2>7
    <3>3. ss[k] \in Seq(Int) /\ k \in 0..n
      BY <1>1
    <3>4. \A u, v \in Seq(Int) : u \o v \in Seq(Int)
      OBVIOUS
    <3>5. c[k] \in Seq(Int)
      BY <3>1, <3>2, <3>3, <3>4
    <3> QED
      BY <3>3, <3>5
  <2>10. \A k \in 0..n : k \in T
    <3> HIDE DEF T, n
    <3> QED
      BY <1>1, <2>8, <2>9, InductionUpTo
  <2> QED
    BY <1>1, <1>3, <2>6, <2>10
<1> QED
  BY <1>2, <1>3

-----------------------------------------------------------------------------
(* What is left after a sequence of returns, and without the best of them.  *)

(* What compounds positive factors is positive.                             *)
LEMMA ProductIsPositive ==
    ASSUME NEW s \in Seq(Nat \ {0})
    PROVE  Product(s) \in Nat \ {0}
<1> DEFINE n == Len(s)
           V == Nat \ {0}
           step == [x \in (1..n) \X V |-> x[2] * s[x[1]]]
           Multiplies(t) == t = [i \in 0..n |-> IF i = 0 THEN 1 ELSE t[i - 1] * s[i]]
<1>1. n \in Nat /\ \A i \in 1..n : s[i] \in V
  OBVIOUS
<1>2. \A u, v \in V : u * v \in V
  OBVIOUS
<1>3. \A i \in 1..n, v \in V : step[<<i, v>>] = v * s[i] /\ step[<<i, v>>] \in V
  BY <1>1, <1>2
<1> HIDE DEF step
<1>4. PICK f : IsCourse(f, n, V, 1, step)
  <2> DEFINE base == 1
  <2>1. base \in V /\ \A i \in 1..n, v \in V : step[<<i, v>>] \in V
    BY <1>3
  <2> HIDE DEF n, base, V
  <2>2. \E f : IsCourse(f, n, V, base, step)
    BY <1>1, <2>1, CoursesExist
  <2> QED
    BY <2>2 DEF base
<1>5. \A i \in 0..n : f[i] = IF i = 0 THEN 1 ELSE f[i - 1] * s[i]
  <2>1. ASSUME NEW i \in 0..n, i # 0 PROVE f[i] = f[i - 1] * s[i]
    <3>1. i \in 1..n /\ i - 1 \in 0..n
      BY <1>1, <2>1
    <3> HIDE DEF V
    <3>2. f[i] = step[<<i, f[i - 1]>>] /\ f[i - 1] \in V
      BY <1>4, <3>1 DEF IsCourse
    <3> QED
      BY <1>3, <3>1, <3>2
  <2>2. f[0] = 1
    BY <1>4 DEF IsCourse
  <2> QED
    BY <2>1, <2>2
<1>6. Multiplies(f)
  BY <1>4, <1>5 DEF IsCourse
<1> DEFINE t == CHOOSE g : Multiplies(g)
<1>7. Multiplies(t)
  BY <1>6
<1>8. Product(s) = t[n]
  BY DEF Product
<1> HIDE DEF t
<1>9. \A i \in 0..n : t[i] = IF i = 0 THEN 1 ELSE t[i - 1] * s[i]
  BY <1>7
<1> HIDE DEF Multiplies
<1>10. t[0] = 1
  BY <1>1, <1>9
<1>11. \A i \in 1..n : t[i] = t[i - 1] * s[i]
  BY <1>1, <1>9
<1> DEFINE S == {i \in 0..n : t[i] \in V}
<1>12. 0 \in S
  BY <1>1, <1>10
<1>13. ASSUME NEW i \in 1..n, i - 1 \in S PROVE i \in S
  <2>1. t[i - 1] \in V /\ s[i] \in V /\ i \in 0..n /\ t[i] = t[i - 1] * s[i]
    BY <1>1, <1>11, <1>13
  <2> HIDE DEF V
  <2> QED
    BY <1>2, <2>1
<1>14. \A i \in 0..n : i \in S
  <2> HIDE DEF S, n
  <2> QED
    BY <1>1, <1>12, <1>13, InductionUpTo
<1>15. n \in 0..n
  BY <1>1
<1> QED
  BY <1>8, <1>14, <1>15

(* What is left of the equity is positive when no episode loses all.        *)
AreReturns(s) == s \in Seq(Int) /\ \A i \in 1..Len(s) : s[i] > -Equity

LEMMA EquityIsPositive ==
    ASSUME NEW s, AreReturns(s), NEW i
    PROVE  EquityAfter(s, i) \in Nat \ {0}
<1> DEFINE n == Len(s)
           q == [j \in 1..n |-> IF j <= i THEN Equity + s[j] ELSE Equity]
           V == Nat \ {0}
<1>1. n \in Nat /\ \A j \in 1..n : s[j] \in Int /\ s[j] > -Equity
  BY DEF AreReturns
<1>2. Equity \in Nat \ {0}
  BY StatisticsAssumption
<1>3. \A j \in 1..n : Equity + s[j] \in V
  BY <1>1, <1>2
<1>4. q \in [1..n -> V]
  BY <1>2, <1>3
<1>5. EquityAfter(s, i) = Product(q)
  BY DEF EquityAfter
<1> HIDE DEF n, q
<1>6. q \in Seq(V)
  BY <1>1, <1>4
<1> QED
  BY <1>5, <1>6, ProductIsPositive

LEMMA CompoundIsRatio ==
    ASSUME NEW s, AreReturns(s)
    PROVE  IsRatio(Compound(s))
<1> DEFINE a == EquityAfter(s, Len(s))
           b == EquityAfter(s, 0)
<1>1. a \in Nat \ {0} /\ b \in Nat \ {0}
  BY EquityIsPositive
<1>2. Compound(s) = <<a - b, b>>
  BY DEF Compound
<1> HIDE DEF a, b
<1> QED
  BY <1>1, <1>2 DEF IsRatio

-----------------------------------------------------------------------------
(* The least and the greatest of finitely many ratios                       *)

(* Ratios are compared by cross multiplication, which is an order.          *)
LEMMA NotLessIsTransitive ==
    ASSUME NEW a, NEW b, NEW c, IsRatio(a), IsRatio(b), IsRatio(c), ~Less(b, a), ~Less(c, b)
    PROVE  ~Less(c, a)
<1>1. SUFFICES ASSUME Less(c, a) PROVE FALSE
  OBVIOUS
<1>2. Less(a, b) \/ Equal(a, b)
  BY RatiosCompare
<1>3. Less(c, b)
  BY <1>1, <1>2, RatiosAreOrdered
<1> QED
  BY <1>3

IsLeastRatio(S, a) == a \in S /\ \A b \in S : ~Less(b, a)
IsGreatestRatio(S, a) == a \in S /\ \A b \in S : ~Less(a, b)

LEMMA LeastRatioExists ==
    ASSUME NEW S, IsFiniteSet(S), S # {}, \A a \in S : IsRatio(a)
    PROVE  (\E a : IsLeastRatio(S, a)) /\ (\E a : IsGreatestRatio(S, a))
<1> DEFINE N == Cardinality(S)
           T == {n \in 0..N : \A Q \in SUBSET S :
                    Cardinality(Q) = n /\ Q # {} =>
                        (\E a : IsLeastRatio(Q, a)) /\ (\E a : IsGreatestRatio(Q, a))}
<1>1. N \in Nat
  BY FS_CardinalityType
<1>2. \A Q \in SUBSET S : IsFiniteSet(Q)
  BY FS_Subset
<1>3. 0 \in T
  <2>1. \A Q \in SUBSET S : Cardinality(Q) = 0 => Q = {}
    BY <1>2, FS_EmptySet
  <2> QED
    BY <1>1, <2>1
<1>4. ASSUME NEW n \in 1..N, n - 1 \in T PROVE n \in T
  <2>1. SUFFICES ASSUME NEW Q \in SUBSET S, Cardinality(Q) = n, Q # {}
                 PROVE  (\E a : IsLeastRatio(Q, a)) /\ (\E a : IsGreatestRatio(Q, a))
    BY <1>1
  <2>2. PICK x : x \in Q
    BY <2>1
  <2>3. Cardinality(Q \ {x}) = n - 1 /\ Q \ {x} \in SUBSET S
    BY <1>2, <2>1, <2>2, FS_RemoveElement
  <2>4. \A b \in Q : IsRatio(b)
    BY <2>1
  <2>5. ~Less(x, x)
    BY <2>2, <2>4, RatiosCompare
  <2>6. CASE Q \ {x} = {}
    <3>1. Q = {x}
      BY <2>2, <2>6
    <3> QED
      BY <2>5, <3>1 DEF IsLeastRatio, IsGreatestRatio
  <2>7. CASE Q \ {x} # {}
    <3>1. PICK a : IsLeastRatio(Q \ {x}, a)
      BY <1>4, <2>3, <2>7
    <3>2. PICK g : IsGreatestRatio(Q \ {x}, g)
      BY <1>4, <2>3, <2>7
    <3>3. a \in Q /\ \A b \in Q : b # x => ~Less(b, a)
      BY <3>1 DEF IsLeastRatio
    <3>4. g \in Q /\ \A b \in Q : b # x => ~Less(g, b)
      BY <3>2 DEF IsGreatestRatio
    <3>5. \E c : IsLeastRatio(Q, c)
      <4>1. CASE ~Less(x, a)
        BY <3>3, <4>1 DEF IsLeastRatio
      <4>2. CASE Less(x, a)
        <5>1. ~Less(a, x)
          BY <2>2, <2>4, <3>3, <4>2, RatiosCompare
        <5>2. \A b \in Q : b # x => ~Less(b, x)
          BY <2>2, <2>4, <3>3, <5>1, NotLessIsTransitive
        <5> QED
          BY <2>2, <2>5, <5>2 DEF IsLeastRatio
      <4> QED
        BY <4>1, <4>2
    <3>6. \E c : IsGreatestRatio(Q, c)
      <4>1. CASE ~Less(g, x)
        BY <3>4, <4>1 DEF IsGreatestRatio
      <4>2. CASE Less(g, x)
        <5>1. ~Less(x, g)
          BY <2>2, <2>4, <3>4, <4>2, RatiosCompare
        <5>2. \A b \in Q : b # x => ~Less(x, b)
          BY <2>2, <2>4, <3>4, <5>1, NotLessIsTransitive
        <5> QED
          BY <2>2, <2>5, <5>2 DEF IsGreatestRatio
      <4> QED
        BY <4>1, <4>2
    <3> QED
      BY <3>5, <3>6
  <2> QED
    BY <2>6, <2>7
<1>5. N \in T
  <2>1. N \in 0..N
    BY <1>1
  <2> HIDE DEF T, N
  <2> QED
    BY <1>1, <1>3, <1>4, <2>1, InductionUpTo
<1>6. S \in SUBSET S /\ Cardinality(S) = N
  OBVIOUS
<1> QED
  BY <1>5, <1>6

LEMMA LeastIsLeast ==
    ASSUME NEW S, IsFiniteSet(S), S # {}, \A a \in S : IsRatio(a)
    PROVE  IsLeastRatio(S, Least(S)) /\ IsGreatestRatio(S, Greatest(S))
<1>1. PICK a : IsLeastRatio(S, a)
  BY LeastRatioExists
<1>2. PICK g : IsGreatestRatio(S, g)
  BY LeastRatioExists
<1>3. a \in S /\ \A b \in S : ~Less(b, a)
  BY <1>1 DEF IsLeastRatio
<1>4. g \in S /\ \A b \in S : ~Less(g, b)
  BY <1>2 DEF IsGreatestRatio
<1>5. Least(S) \in S /\ \A b \in S : ~Less(b, Least(S))
  BY <1>3 DEF Least
<1>6. Greatest(S) \in S /\ \A b \in S : ~Less(Greatest(S), b)
  BY <1>4 DEF Greatest
<1> QED
  BY <1>5, <1>6 DEF IsLeastRatio, IsGreatestRatio

(* The largest loss from a peak is a share.                                 *)
LEMMA DrawdownIsShare ==
    ASSUME NEW s, AreReturns(s)
    PROVE  IsShare(MaximumDrawdown(s))
<1> DEFINE n == Len(s)
           I == 1..(n + 1)
           curve == [i \in I |-> EquityAfter(s, i - 1)]
           loss(i, p) == <<curve[p] - curve[i], curve[p]>>
           S == UNION {{loss(i, p) : p \in 1..i} : i \in DOMAIN curve}
<1>1. n \in Nat
  BY DEF AreReturns
<1>2. \A i \in I : curve[i] \in Nat \ {0}
  BY EquityIsPositive
<1>3. MaximumDrawdown(s) = Greatest(S)
  BY DEF MaximumDrawdown
<1>4. DOMAIN curve = I
  OBVIOUS
<1> HIDE DEF curve
<1>5. \A i \in I : \A p \in 1..i : p \in I
  BY <1>1
<1>6. \A a \in S : \E i, p \in I : a = loss(i, p)
  <2>1. SUFFICES ASSUME NEW a \in S PROVE \E i, p \in I : a = loss(i, p)
    OBVIOUS
  <2>2. PICK i \in I : a \in {loss(i, p) : p \in 1..i}
    BY <1>4
  <2>3. PICK p \in 1..i : a = loss(i, p)
    BY <2>2
  <2> QED
    BY <1>5, <2>3
<1>7. \A i, p \in I : IsRatio(loss(i, p)) /\ ~Less(<<1, 1>>, loss(i, p))
  BY <1>2 DEF IsRatio, Less
<1>8. \A a \in S : IsRatio(a) /\ ~Less(<<1, 1>>, a)
  BY <1>6, <1>7
<1>9. IsFiniteSet(S)
  <2> DEFINE J == I \X I
             f == [k \in J |-> loss(k[1], k[2])]
             all == {f[k] : k \in J}
  <2>1. IsFiniteSet(I)
    BY <1>1, FS_Interval
  <2>2. IsFiniteSet(J)
    BY <2>1, FS_Product
  <2>3. \A i, p \in I : <<i, p>> \in J /\ f[<<i, p>>] = loss(i, p)
    OBVIOUS
  <2>4. f \in Surjection(J, all)
    <3> DEFINE e(k) == loss(k[1], k[2])
    <3>1. f = [k \in J |-> e(k)]
      OBVIOUS
    <3> HIDE DEF e, J, f
    <3>2. f \in [J -> all]
      BY <3>1
    <3> QED
      BY <3>2 DEF Surjection
  <2> HIDE DEF f, J, S, loss, I
  <2>5. S \subseteq all
    BY <1>6, <2>3
  <2> HIDE DEF all
  <2>6. IsFiniteSet(all)
    BY <2>2, <2>4, FS_Surjection
  <2> QED
    BY <2>5, <2>6, FS_Subset
<1>10. loss(1, 1) \in S
  <2>1. 1 \in I /\ 1 \in 1..1
    BY <1>1
  <2> QED
    BY <1>4, <2>1
<1>11. ~Less(loss(1, 1), Zero) /\ ~Less(Zero, loss(1, 1)) /\ IsRatio(loss(1, 1))
  <2>1. 1 \in I
    BY <1>1
  <2>2. curve[1] \in Nat \ {0}
    BY <1>2, <2>1
  <2> QED
    BY <2>2 DEF Less, Zero, IsRatio
<1> DEFINE z == loss(1, 1)
           g == Greatest(S)
<1>12. z \in S /\ ~Less(z, Zero) /\ IsRatio(z)
  BY <1>10, <1>11
<1> HIDE DEF S, z
<1>13. IsGreatestRatio(S, g)
  BY <1>8, <1>9, <1>12, LeastIsLeast
<1>14. g \in S /\ ~Less(g, z)
  BY <1>12, <1>13 DEF IsGreatestRatio
<1>15. IsRatio(g) /\ ~Less(<<1, 1>>, g)
  BY <1>8, <1>14
<1> HIDE DEF g
<1>16. IsRatio(Zero)
  BY DEF IsRatio, Zero
<1>17. ~Less(g, Zero)
  BY <1>12, <1>14, <1>15, <1>16, NotLessIsTransitive
<1> QED
  BY <1>3, <1>15, <1>17 DEF IsShare, g

(* The tail of a shortfall is a part of the sequence, and not empty.        *)
LEMMA TailIsPart ==
    ASSUME NEW n \in Nat \ {0}
    PROVE  TailLength(n) \in 1..n
<1> DEFINE t == TailPart
           q == (n + t - 1) \div t
<1>1. t \in Nat \ {0}
  BY StatisticsAssumption
<1>2. n + t - 1 \in Nat
  BY <1>1
<1>3. TailLength(n) = q
  BY DEF TailLength
<1> HIDE DEF t
<1>4. /\ q \in Int /\ t * q \in Int
      /\ t * q <= n + t - 1 /\ n + t - 1 < t * q + t
  BY <1>1, <1>2, SMT
<1> HIDE DEF q
<1>5. q >= 1
  <2>1. SUFFICES ASSUME q <= 0 PROVE FALSE
    BY <1>4
  <2>2. q * t <= 0 * t
    BY <1>1, <1>4, <2>1, TimesKeepsOrder
  <2>3. q * t = t * q /\ 0 * t = 0
    BY <1>1, <1>4
  <2> QED
    BY <1>1, <1>4, <2>2, <2>3
<1>6. q <= n
  <2>1. SUFFICES ASSUME n + 1 <= q PROVE FALSE
    BY <1>4
  <2>2. (n + 1) * t <= q * t
    BY <1>1, <1>4, <2>1, TimesKeepsOrder
  <2>3. q * t = t * q /\ (n + 1) * t = n * t + t /\ n * t \in Int
    BY <1>1, <1>4
  <2>4. 1 * n <= t * n
    BY <1>1, TimesKeepsOrder
  <2>5. t * n = n * t /\ 1 * n = n
    BY <1>1
  <2> QED
    BY <1>1, <1>4, <2>2, <2>3, <2>4, <2>5
<1> QED
  BY <1>3, <1>4, <1>5, <1>6

LEMMA ShortfallIsRatio ==
    ASSUME NEW s \in Seq(Int)
    PROVE  IsRatio(ExpectedShortfall(s))
<1> DEFINE n == Len(s)
           k == TailLength(n)
           a == Ascending(s)
           b == SubSeq(a, 1, k)
<1>1. CASE s = <<>>
  BY <1>1 DEF ExpectedShortfall, Zero, IsRatio
<1>2. CASE s # <<>>
  <2>1. n \in Nat \ {0}
    BY <1>2
  <2>2. k \in 1..n
    BY <2>1, TailIsPart
  <2>3. a \in Seq(Int) /\ Len(a) = n
    BY AscendingIsTyped
  <2>4. ExpectedShortfall(s) = <<Total(b), k * Equity>>
    BY <1>2 DEF ExpectedShortfall
  <2> HIDE DEF n, k, a
  <2>5. b \in Seq(Int)
    <3>1. k \in Int /\ 1 \in Int
      BY <2>1, <2>2
    <3>2. \A i \in 1..k : a[i] \in Int
      BY <2>1, <2>2, <2>3
    <3> QED
      BY <3>1, <3>2, SubSeqProperties
  <2> HIDE DEF b
  <2>6. Total(b) \in Int
    BY <2>5, TotalIsInt
  <2>7. k \in Nat \ {0} /\ Equity \in Nat \ {0}
    BY <2>1, <2>2, StatisticsAssumption
  <2>8. k * Equity \in Nat \ {0}
    BY <2>7
  <2> QED
    BY <2>4, <2>6, <2>8 DEF IsRatio
<1> QED
  BY <1>1, <1>2

(* The best episode exists, and without it the others are left.             *)
LEMMA BestExists ==
    ASSUME NEW s \in Seq(Int), s # <<>>
    PROVE  \E i \in DOMAIN s : \A j \in DOMAIN s : s[j] < s[i] \/ (s[j] = s[i] /\ i <= j)
<1> DEFINE n == Len(s)
           S == 1..n
           R == {p \in S \X S : Outdoes(s, p[1], p[2])}
<1>1. n \in Nat \ {0} /\ DOMAIN s = S /\ \A i \in S : s[i] \in Int /\ i \in Int
  OBVIOUS
<1>2. IsFiniteSet(S) /\ S # {}
  <2>1. IsFiniteSet(S)
    BY FS_Interval
  <2>2. 1 \in S
    BY <1>1
  <2> QED
    BY <2>1, <2>2
<1>3. \A x, y \in S : <<x, y>> \in R <=> s[x] > s[y] \/ (s[x] = s[y] /\ x < y)
  BY DEF Outdoes
<1> HIDE DEF R, S
<1>4. \A a, b \in S : ~(<<a, b>> \in R /\ <<b, a>> \in R)
  <2>1. SUFFICES ASSUME NEW a \in S, NEW b \in S, <<a, b>> \in R, <<b, a>> \in R
                 PROVE  FALSE
    OBVIOUS
  <2>2. s[a] > s[b] \/ (s[a] = s[b] /\ a < b)
    BY <1>3, <2>1
  <2>3. s[b] > s[a] \/ (s[b] = s[a] /\ b < a)
    BY <1>3, <2>1
  <2> QED
    BY <1>1, <2>2, <2>3
<1>5. \A a, b \in S : a # b => <<a, b>> \in R \/ <<b, a>> \in R
  BY <1>1, <1>3
<1>6. \A a, b, c \in S : <<a, b>> \in R /\ <<b, c>> \in R => <<a, c>> \in R
  BY <1>1, <1>3
<1>7. Orders(R, S)
  BY <1>4, <1>5, <1>6 DEF Orders
<1>8. PICK i : IsLeast(R, S, i)
  BY <1>2, <1>7, LeastExists
<1>9. i \in S /\ \A j \in S : j # i => <<i, j>> \in R
  BY <1>8 DEF IsLeast
<1>10. ASSUME NEW j \in S PROVE s[j] < s[i] \/ (s[j] = s[i] /\ i <= j)
  <2>1. s[i] \in Int /\ s[j] \in Int /\ i \in Int /\ j \in Int
    BY <1>1, <1>9
  <2>2. CASE j = i
    BY <2>1, <2>2
  <2>3. CASE j # i
    <3>1. s[i] > s[j] \/ (s[i] = s[j] /\ i < j)
      BY <1>3, <1>9, <2>3
    <3> QED
      BY <2>1, <3>1
  <2> QED
    BY <2>2, <2>3
<1> QED
  BY <1>1, <1>9, <1>10

LEMMA WithoutBestAreReturns ==
    ASSUME NEW s, AreReturns(s)
    PROVE  AreReturns(WithoutBest(s))
<1> DEFINE best == CHOOSE i \in DOMAIN s : \A j \in DOMAIN s :
                       s[j] < s[i] \/ (s[j] = s[i] /\ i <= j)
           n == Len(s)
           V == {v \in Int : v > -Equity}
<1>1. s \in Seq(Int) /\ n \in Nat /\ \A i \in 1..n : s[i] \in V
  BY DEF AreReturns
<1>2. \A t : t \in Seq(V) => AreReturns(t)
  <2>1. SUFFICES ASSUME NEW t \in Seq(V) PROVE AreReturns(t)
    OBVIOUS
  <2>2. \A i \in 1..Len(t) : t[i] \in V
    OBVIOUS
  <2>3. t \in Seq(Int)
    OBVIOUS
  <2> QED
    BY <2>2, <2>3 DEF AreReturns
<1>3. WithoutBest(s) = IF n < 2 THEN <<>> ELSE RemoveAt(s, best)
  BY DEF WithoutBest
<1>4. CASE n < 2
  <2>1. <<>> \in Seq(V)
    OBVIOUS
  <2> HIDE DEF V
  <2> QED
    BY <1>2, <1>3, <1>4, <2>1
<1>5. CASE ~(n < 2)
  <2>1. s # <<>> /\ DOMAIN s = 1..n
    BY <1>1, <1>5
  <2>2. best \in 1..n
    BY <1>1, <2>1, BestExists
  <2> HIDE DEF best
  <2> DEFINE u == SubSeq(s, 1, best - 1)
             v == SubSeq(s, best + 1, n)
  <2>3. s \in Seq(V)
    <3> HIDE DEF V
    <3>1. s = [i \in 1..n |-> s[i]]
      BY <1>1
    <3>2. s \in [1..n -> V]
      BY <1>1, <3>1
    <3> QED
      BY <1>1, <3>2
  <2> HIDE DEF V
  <2>4. u \in Seq(V) /\ v \in Seq(V)
    BY <1>1, <2>2, <2>3
  <2>5. RemoveAt(s, best) = u \o v
    BY DEF RemoveAt
  <2> HIDE DEF u, v
  <2>6. u \o v \in Seq(V)
    BY <2>4
  <2> QED
    BY <1>2, <1>3, <1>5, <2>5, <2>6
<1> QED
  BY <1>4, <1>5

-----------------------------------------------------------------------------
(* The evidence of a candidate in a cluster.                                *)

(* What RunWeeklyEvidence accepts.                                          *)
RowsAreTyped ==
    /\ DOMAIN rows \subseteq WeeklyCandidates \X Weeks
    /\ \A k \in DOMAIN rows : /\ rows[k].trades \in Seq(Int)
                              /\ rows[k].bars \in Len(rows[k].trades)..WeekBars
                              /\ rows[k].net = Total(rows[k].trades)

WeekSet(model, x, c) == {w \in Weeks : <<c, w>> \in DOMAIN rows /\ LabelsOf(model)[w] = x}

(* weeks lists S, each element once.                                        *)
Lists(weeks, S) ==
    /\ IsFiniteSet(S) /\ weeks \in Seq(S) /\ Len(weeks) = Cardinality(S)
    /\ \A i, j \in 1..Len(weeks) : weeks[i] = weeks[j] => i = j
    /\ \A w \in S : \E i \in 1..Len(weeks) : weeks[i] = w

LEMMA SetsAreListed ==
    ASSUME NEW S, IsFiniteSet(S), \A w \in S : w \in Int
    PROVE  Lists(InOrder(S), S)
<1> DEFINE R == {p \in S \X S : p[1] < p[2]}
           N == Cardinality(S)
           weeks == InOrder(S)
<1>1. IsFiniteSet(S) /\ \A w \in S : w \in Int
  OBVIOUS
<1>2. weeks = [k \in 1..N |-> CHOOSE w \in S : Cardinality({v \in S : v < w}) = k - 1]
  BY DEF InOrder
<1> HIDE DEF weeks
<1>3. N \in Nat
  BY <1>1, FS_CardinalityType
<1>4. Orders(R, S)
  BY <1>1 DEF Orders
<1>5. \A w \in S : Rank(R, S, w) = Cardinality({v \in S : v < w})
  <2>1. \A w \in S : {v \in S : <<v, w>> \in R} = {v \in S : v < w}
    OBVIOUS
  <2> QED
    BY <2>1 DEF Rank
<1> HIDE DEF R
<1>6. /\ \A v, w \in S : Rank(R, S, v) = Rank(R, S, w) => v = w
      /\ \A k \in 0..(Cardinality(S) - 1) : \E w \in S : Rank(R, S, w) = k
  BY <1>1, <1>4, RankIsOfOne
<1>7. \A w \in S : Rank(R, S, w) \in 0..(Cardinality(S) - 1)
  BY <1>1, <1>4, RankRises
<1> DEFINE at(k) == CHOOSE w \in S : Cardinality({v \in S : v < w}) = k - 1
<1>8. \A k \in 1..N : at(k) \in S /\ Rank(R, S, at(k)) = k - 1
  <2>1. \A k \in 1..N : k - 1 \in 0..(N - 1)
    BY <1>3
  <2>2. \A k \in 1..N : \E w \in S : Rank(R, S, w) = k - 1
    BY <1>6, <2>1
  <2>3. \A k \in 1..N : \E w \in S : Cardinality({v \in S : v < w}) = k - 1
    BY <1>5, <2>2
  <2>4. \A k \in 1..N : at(k) \in S /\ Cardinality({v \in S : v < at(k)}) = k - 1
    BY <2>3
  <2> QED
    BY <1>5, <2>4
<1>9. weeks = [k \in 1..N |-> at(k)]
  BY <1>2
<1> HIDE DEF at
<1>10. weeks \in Seq(S) /\ Len(weeks) = N
  <2>1. weeks \in [1..N -> S]
    BY <1>8, <1>9
  <2> HIDE DEF N
  <2> QED
    BY <1>3, <2>1
<1>11. \A i, j \in 1..N : weeks[i] = weeks[j] => i = j
  BY <1>3, <1>8, <1>9
<1>12. ASSUME NEW w \in S PROVE \E i \in 1..N : weeks[i] = w
  <2> DEFINE k == Rank(R, S, w)
  <2>1. k \in 0..(N - 1)
    BY <1>7
  <2> HIDE DEF k
  <2>2. k + 1 \in 1..N /\ (k + 1) - 1 = k
    BY <1>3, <2>1
  <2>3. Rank(R, S, at(k + 1)) = k /\ at(k + 1) \in S
    BY <1>8, <2>2
  <2>4. at(k + 1) = w
    BY <1>6, <2>3 DEF k
  <2> QED
    BY <1>9, <2>2, <2>4
<1> HIDE DEF N
<1>13. Lists(weeks, S)
  BY <1>1, <1>10, <1>11, <1>12 DEF Lists, N
<1> QED
  BY <1>13 DEF weeks

LEMMA WeeksAreListed ==
    ASSUME NEW model, NEW x, NEW c
    PROVE  Lists(WeeksIn(model, x, c), WeekSet(model, x, c))
<1> DEFINE S == WeekSet(model, x, c)
<1>1. Weeks = 1..Cardinality(Weeks) /\ IsFiniteSet(Weeks)
  BY WeeklyAssumption
<1>2. Cardinality(Weeks) \in Nat
  BY <1>1, FS_CardinalityType
<1>3. S \in SUBSET Weeks
  BY DEF WeekSet
<1>4. \A w \in Weeks : w \in Int
  BY <1>1, <1>2
<1>5. IsFiniteSet(S)
  BY <1>1, <1>3, FS_Subset
<1>6. WeeksIn(model, x, c) = InOrder(S)
  BY DEF WeeksIn, WeekSet
<1> HIDE DEF S
<1>7. \A w \in S : w \in Int
  BY <1>3, <1>4
<1>8. Lists(InOrder(S), S)
  BY <1>5, <1>7, SetsAreListed
<1> QED
  BY <1>6, <1>8 DEF S

(* The rows of the weeks of a cluster.                                      *)
LEMMA WeeksHaveRows ==
    ASSUME RowsAreTyped, NEW model, NEW x, NEW c, NEW i \in 1..Len(WeeksIn(model, x, c))
    PROVE  LET r == rows[<<c, WeeksIn(model, x, c)[i]>>]
           IN  r.trades \in Seq(Int) /\ r.bars \in Len(r.trades)..WeekBars /\ r.net = Total(r.trades)
<1> DEFINE weeks == WeeksIn(model, x, c)
<1>1. weeks[i] \in WeekSet(model, x, c)
  <2>1. Lists(weeks, WeekSet(model, x, c))
    BY WeeksAreListed
  <2> HIDE DEF weeks
  <2>2. weeks \in Seq(WeekSet(model, x, c))
    BY <2>1 DEF Lists
  <2>3. i \in 1..Len(weeks)
    BY DEF weeks
  <2> QED
    BY <2>2, <2>3
<1>2. <<c, weeks[i]>> \in DOMAIN rows
  BY <1>1 DEF WeekSet
<1> QED
  BY <1>2 DEF RowsAreTyped

LEMMA ReturnsAreTyped ==
    ASSUME RowsAreTyped, NEW model, NEW x, NEW c
    PROVE  LET weeks == WeeksIn(model, x, c)
           IN  WeekReturns(weeks, c) \in Seq(Int) /\ Len(WeekReturns(weeks, c)) = Len(weeks)
<1> DEFINE weeks == WeeksIn(model, x, c)
           n == Len(weeks)
<1>1. n \in Nat /\ DOMAIN weeks = 1..n
  BY WeeksAreListed DEF Lists
<1>2. \A i \in 1..n : rows[<<c, weeks[i]>>].net \in Int
  BY WeeksHaveRows, TotalIsInt
<1>3. WeekReturns(weeks, c) = [i \in 1..n |-> rows[<<c, weeks[i]>>].net]
  BY <1>1 DEF WeekReturns
<1> HIDE DEF weeks, n
<1>4. WeekReturns(weeks, c) \in [1..n -> Int]
  BY <1>2, <1>3
<1>5. WeekReturns(weeks, c) \in Seq(Int) /\ Len(WeekReturns(weeks, c)) = n
  BY <1>1, <1>4
<1> QED
  BY <1>5 DEF weeks, n

LEMMA TradesAreTyped ==
    ASSUME RowsAreTyped, NEW model, NEW x, NEW c
    PROVE  WeekTrades(WeeksIn(model, x, c), c) \in Seq(Int)
<1> DEFINE weeks == WeeksIn(model, x, c)
           n == Len(weeks)
           ss == [i \in DOMAIN weeks |-> rows[<<c, weeks[i]>>].trades]
<1>1. n \in Nat /\ DOMAIN weeks = 1..n
  BY WeeksAreListed DEF Lists
<1>2. \A i \in 1..n : rows[<<c, weeks[i]>>].trades \in Seq(Int)
  BY WeeksHaveRows
<1>3. WeekTrades(weeks, c) = FlattenSeq(ss)
  BY DEF WeekTrades
<1> DEFINE V == Seq(Int)
<1>4. ss \in [1..n -> V]
  <2> HIDE DEF weeks, n
  <2> QED
    BY <1>1, <1>2
<1> HIDE DEF ss, V, n
<1>5. ss \in Seq(V)
  BY <1>1, <1>4
<1>6. FlattenSeq(ss) \in Seq(Int)
  BY <1>5, FlattenedIsTyped DEF V
<1> QED
  BY <1>3, <1>6

(* The minutes the trades take are part of the minutes of the weeks, and    *)
(* without them nothing is made.                                            *)
LEMMA ExposureIsShare ==
    ASSUME RowsAreTyped, NEW model, NEW x, NEW c, WeeksIn(model, x, c) # <<>>
    PROVE  LET weeks == WeeksIn(model, x, c)
               q == <<Total([i \in DOMAIN weeks |-> rows[<<c, weeks[i]>>].bars]), Len(weeks) * WeekBars>>
           IN  IsShare(q) /\ (Equal(q, Zero) => Total(WeekReturns(weeks, c)) = 0)
<1> DEFINE weeks == WeeksIn(model, x, c)
           n == Len(weeks)
           bars == [i \in DOMAIN weeks |-> rows[<<c, weeks[i]>>].bars]
           returns == WeekReturns(weeks, c)
           q == <<Total(bars), n * WeekBars>>
<1>1. n \in Nat /\ DOMAIN weeks = 1..n /\ weeks \in Seq(WeekSet(model, x, c))
  BY WeeksAreListed DEF Lists
<1>2. n # 0
  BY <1>1
<1>3. WeekBars \in Nat \ {0}
  BY WeeklyAssumption
<1>4. \A i \in 1..n : /\ rows[<<c, weeks[i]>>].trades \in Seq(Int)
                      /\ rows[<<c, weeks[i]>>].bars \in Len(rows[<<c, weeks[i]>>].trades)..WeekBars
                      /\ rows[<<c, weeks[i]>>].net = Total(rows[<<c, weeks[i]>>].trades)
  BY WeeksHaveRows
<1>5. \A i \in 1..n : Len(rows[<<c, weeks[i]>>].trades) \in Nat
  BY <1>4
<1>6. \A i \in 1..n : /\ bars[i] = rows[<<c, weeks[i]>>].bars
                      /\ bars[i] \in Int /\ 0 <= bars[i] /\ bars[i] <= WeekBars
                      /\ bars[i] = 0 => Len(rows[<<c, weeks[i]>>].trades) = 0
  BY <1>1, <1>3, <1>4, <1>5
<1>6a. \A i \in 1..n : bars[i] \in Int
  BY <1>6
<1>6b. \A i \in 1..n : 0 <= bars[i]
  BY <1>6
<1>6c. \A i \in 1..n : bars[i] <= WeekBars
  BY <1>6
<1>7. bars = [i \in 1..n |-> bars[i]]
  BY <1>1
<1>8. returns \in Seq(Int) /\ Len(returns) = n
  BY ReturnsAreTyped
<1>9. \A i \in 1..n : returns[i] = rows[<<c, weeks[i]>>].net
  BY <1>1 DEF WeekReturns
<1> HIDE DEF weeks, n, bars, returns
<1>10. bars \in Seq(Int) /\ Len(bars) = n
  <2>1. bars \in [1..n -> Int]
    BY <1>6, <1>7
  <2> QED
    BY <1>1, <2>1
<1>11. 0 <= Total(bars) /\ \A i \in 1..n : bars[i] <= Total(bars)
  BY <1>6, <1>10, TotalNotNegative
<1>12. Total(bars) <= n * WeekBars
  <2>1. Total(bars) <= Len(bars) * WeekBars
    <3>1. WeekBars \in Int /\ \A i \in 1..Len(bars) : bars[i] <= WeekBars
      BY <1>3, <1>6c, <1>10
    <3> QED
      BY <1>10, <3>1, TotalAtMost
  <2> QED
    BY <1>10, <2>1
<1>13. Total(bars) \in Int
  BY <1>10, TotalIsInt
<1>14. n * WeekBars \in Nat \ {0}
  BY <1>1, <1>2, <1>3
<1>15. IsShare(q)
  BY <1>11, <1>12, <1>13, <1>14, SharesAreParts
<1>16. ASSUME Equal(q, Zero) PROVE Total(returns) = 0
  <2>1. Total(bars) = 0
    BY <1>13, <1>14, <1>16 DEF Equal, Zero
  <2>2. \A i \in 1..n : bars[i] = 0
    <3>1. \A i \in 1..n : bars[i] <= 0
      BY <1>11, <2>1
    <3> QED
      BY <1>6a, <1>6b, <3>1
  <2>3. ASSUME NEW i \in 1..n PROVE returns[i] = 0
    <3>1. Len(rows[<<c, weeks[i]>>].trades) = 0 /\ rows[<<c, weeks[i]>>].trades \in Seq(Int)
      BY <1>4, <1>6, <2>2
    <3>2. rows[<<c, weeks[i]>>].trades = <<>>
      BY <3>1
    <3> QED
      BY <1>4, <1>9, <3>2, TotalOfNone
  <2>4. Total(returns) <= Len(returns) * 0
    <3>1. 0 \in Int /\ \A i \in 1..Len(returns) : returns[i] <= 0
      BY <1>8, <2>3
    <3> QED
      BY <1>8, <3>1, TotalAtMost
  <2>5. 0 <= Total(returns)
    <3>1. \A i \in 1..Len(returns) : 0 <= returns[i]
      BY <1>8, <2>3
    <3> QED
      BY <1>8, <3>1, TotalNotNegative
  <2>6. Total(returns) \in Int /\ Len(returns) * 0 = 0
    BY <1>8, TotalIsInt
  <2> QED
    BY <2>4, <2>5, <2>6
<1> QED
  BY <1>15, <1>16 DEF weeks, n, bars, returns

-----------------------------------------------------------------------------
(* What is assessed, and decided, is sound.                                 *)

LEMMA BoundIsRatio ==
    ASSUME RowsAreTyped, NEW model, NEW x, NEW c, NEW critical \in Int
    PROVE  IsRatio(CorrectedBound(model, x, c, critical))
<1> DEFINE of(k) == WeeksIn(model, x, k)
           statistical == {k \in Universe : IsStatistical(of(k), k)}
           varied == \E k \in statistical : Cardinality(Range(WeekReturns(of(k), k))) > 1
           returns == WeekReturns(of(c), c)
           n == Len(returns)
<1>1. returns \in Seq(Int) /\ n = Len(of(c)) /\ n \in Nat
  BY ReturnsAreTyped
<1>2. c \in statistical => n \in Nat \ {0}
  <2>1. c \in statistical => Len(of(c)) >= MinWeeks
    BY DEF IsStatistical
  <2>2. MinWeeks \in Nat /\ MinWeeks >= 2
    BY WeeklyAssumption
  <2> HIDE DEF statistical, of, returns
  <2> QED
    BY <1>1, <2>1, <2>2
<1>3. CorrectedBound(model, x, c, critical) =
        IF c \notin statistical THEN Zero
        ELSE IF varied THEN <<Total(returns) - critical * n, n * Equity>> ELSE Mean(returns)
  BY DEF CorrectedBound
<1> HIDE DEF of, statistical, varied, returns, n
<1>4. Total(returns) \in Int /\ IsRatio(Mean(returns))
  BY <1>1, TotalIsInt, MeanIsRatio
<1>5. IsRatio(Zero)
  BY DEF IsRatio, Zero
<1>6. c \in statistical => IsRatio(<<Total(returns) - critical * n, n * Equity>>)
  <2>1. Total(returns) - critical * n \in Int
    BY <1>1, <1>4
  <2>2. c \in statistical => n * Equity \in Nat \ {0}
    BY <1>2, StatisticsAssumption
  <2> QED
    BY <2>1, <2>2 DEF IsRatio
<1> QED
  BY <1>3, <1>4, <1>5, <1>6

IsAssessment(a, model, x, c) ==
    /\ a.candidate = c /\ a.weeks = WeeksIn(model, x, c)
    /\ a.mean = Mean(WeekReturns(a.weeks, c))
    /\ IsRatio(a.bound) /\ IsRatio(a.median) /\ IsRatio(a.mean)
    /\ AssessmentIsAccepted(a)

LEMMA AssessIsSound ==
    ASSUME RowsAreTyped, NEW model, NEW x, NEW c, NEW critical \in Int
    PROVE  IsAssessment(Assess(model, x, c, critical), model, x, c)
<1> DEFINE a == Assess(model, x, c, critical)
           weeks == WeeksIn(model, x, c)
           returns == WeekReturns(weeks, c)
           trades == WeekTrades(weeks, c)
           mean == Mean(returns)
           median == Median(returns)
           bound == CorrectedBound(model, x, c, critical)
           exposure == <<Total([i \in DOMAIN weeks |-> rows[<<c, weeks[i]>>].bars]),
                         Len(weeks) * WeekBars>>
           topTrades == TopShare(trades, TopTrades)
           topWeek == TopShare(returns, 1)
<1>1. returns \in Seq(Int) /\ Len(returns) = Len(weeks)
  BY ReturnsAreTyped
<1>2. trades \in Seq(Int)
  BY TradesAreTyped
<1>3. IsRatio(bound)
  BY BoundIsRatio
<1>4. weeks # <<>> => IsShare(exposure) /\ (Equal(exposure, Zero) => Total(returns) = 0)
  BY ExposureIsShare
<1>5. a = [candidate |-> c, weeks |-> weeks, trades |-> Len(trades),
           mean |-> mean, median |-> median, bound |-> bound,
           exposure |-> IF weeks = <<>> THEN Zero ELSE exposure,
           topTrades |-> topTrades, topWeek |-> topWeek]
  BY DEF Assess
<1>6. weeks = <<>> => returns = <<>>
  BY DEF WeekReturns
<1> HIDE DEF a, weeks, returns, trades, bound, exposure
<1>7. IsRatio(mean) /\ IsRatio(median)
  BY <1>1, MeanIsRatio, MedianIsRatio
<1>8. IsShare(topTrades) /\ IsShare(topWeek)
  BY <1>1, <1>2, TopShareIsShare
<1> HIDE DEF median, topTrades, topWeek
<1> DEFINE q == IF weeks = <<>> THEN Zero ELSE exposure
<1>9. IsShare(q)
  BY <1>4, ZeroIsShare
<1>10. Equal(q, Zero) => Equal(mean, Zero)
  <2>1. CASE weeks = <<>>
    BY <1>6, <2>1 DEF Mean, Equal, Zero
  <2>2. CASE weeks # <<>>
    <3>1. Equal(exposure, Zero) => Total(returns) = 0
      BY <1>4, <2>2
    <3>2. ASSUME Total(returns) = 0 PROVE Equal(mean, Zero)
      <4>1. CASE returns = <<>>
        BY <4>1 DEF Mean, Equal, Zero
      <4>2. CASE returns # <<>>
        <5>1. mean = <<0, Len(returns) * Equity>>
          BY <3>2, <4>2 DEF Mean
        <5>2. Len(returns) * Equity \in Int
          BY <1>1, StatisticsAssumption
        <5> QED
          BY <5>1, <5>2 DEF Equal, Zero
      <4> QED
        BY <4>1, <4>2
    <3> QED
      BY <2>2, <3>1, <3>2
  <2> QED
    BY <2>1, <2>2
<1> DEFINE m == mean
<1>11. m = Mean(returns) /\ IsRatio(m)
  BY <1>7
<1>12. a.candidate = c /\ a.weeks = weeks /\ a.mean = m /\ a.median = median
       /\ a.bound = bound /\ a.exposure = q /\ a.topTrades = topTrades /\ a.topWeek = topWeek
  BY <1>5
<1> HIDE DEF q, m
<1>13. AssessmentIsAccepted(a)
  BY <1>8, <1>9, <1>10, <1>12 DEF AssessmentIsAccepted, IsShare, m
<1>14. a.mean = Mean(WeekReturns(a.weeks, c))
  BY <1>11, <1>12 DEF returns
<1>15. IsRatio(a.bound) /\ IsRatio(a.median) /\ IsRatio(a.mean)
  BY <1>3, <1>7, <1>11, <1>12
<1>16. a.weeks = WeeksIn(model, x, c)
  BY <1>12 DEF weeks
<1>17. IsAssessment(a, model, x, c)
  BY <1>12, <1>13, <1>14, <1>15, <1>16 DEF IsAssessment
<1> QED
  BY <1>17 DEF a

(* The candidates with evidence.                                            *)
LEMMA UniverseIsFinite ==
    ASSUME RowsAreTyped
    PROVE  IsFiniteSet(Universe) /\ \A c \in Universe : c \in Nat \ {0}
<1>1. \A k \in DOMAIN rows : k[1] \in WeeklyCandidates
  BY DEF RowsAreTyped
<1>2. Universe \in SUBSET WeeklyCandidates
  BY <1>1 DEF Universe
<1>3. IsFiniteSet(WeeklyCandidates) /\ WeeklyCandidates \subseteq Nat \ {0}
  BY WeeklyAssumption
<1>4. IsFiniteSet(Universe)
  BY <1>2, <1>3, FS_Subset
<1> QED
  BY <1>2, <1>3, <1>4

(* The winner is one of the eligible.                                       *)
LEMMA DecisionIsEligible ==
    ASSUME RowsAreTyped, NEW model, NEW x, NEW critical \in Int,
           WeeklyDecision({Assess(model, x, c, critical) : c \in Universe}) # 0
    PROVE  \E c \in Universe :
             /\ c = WeeklyDecision({Assess(model, x, k, critical) : k \in Universe})
             /\ Reasons(Assess(model, x, c, critical)) = {}
<1> DEFINE all == {Assess(model, x, c, critical) : c \in Universe}
           eligible == {a \in all : Reasons(a) = {}}
           key == [a \in eligible |-> WeeklyKey(a)]
<1>1. \A a \in all : \E c \in Universe : a = Assess(model, x, c, critical)
  OBVIOUS
<1>2. WeeklyDecision(all) =
        IF eligible = {} THEN 0
        ELSE (CHOOSE a \in eligible :
                \A o \in eligible \ {a} : Precedes(WeeklyKey(a), WeeklyKey(o))).candidate
  BY DEF WeeklyDecision
<1>3. IsFiniteSet(all)
  <2> DEFINE f == [c \in Universe |-> Assess(model, x, c, critical)]
  <2>1. IsFiniteSet(Universe)
    BY UniverseIsFinite
  <2>2. all = {f[c] : c \in Universe}
    OBVIOUS
  <2>3. f \in Surjection(Universe, all)
    BY <2>2 DEF Surjection
  <2> HIDE DEF f, all
  <2> QED
    BY <2>1, <2>3, FS_Surjection
<1> HIDE DEF all
<1>4. eligible \in SUBSET all
  OBVIOUS
<1>5. IsFiniteSet(eligible)
  BY <1>3, <1>4, FS_Subset
<1>6. \A a \in eligible : a \in all /\ Reasons(a) = {}
  OBVIOUS
<1>7. \A a \in eligible : key[a] = WeeklyKey(a)
  OBVIOUS
<1> HIDE DEF eligible, key
<1>8. \A a \in eligible : \E c \in Universe :
         a = Assess(model, x, c, critical) /\ IsAssessment(a, model, x, c)
  BY <1>1, <1>6, AssessIsSound
<1>9. \A a \in eligible : /\ IsRatio(a.bound) /\ IsRatio(a.median) /\ IsRatio(a.mean)
                          /\ a.candidate \in Nat
  BY <1>8, UniverseIsFinite DEF IsAssessment
<1>10. \A a, b \in eligible : a.candidate = b.candidate => a = b
  BY <1>8 DEF IsAssessment
<1>11. \A a \in eligible : IsKey(key[a], 4)
  <2>1. SUFFICES ASSUME NEW a \in eligible PROVE IsKey(WeeklyKey(a), 4)
    BY <1>7
  <2> DEFINE r1 == <<-a.bound[1], a.bound[2]>>
             r2 == <<-a.median[1], a.median[2]>>
             r3 == <<-a.mean[1], a.mean[2]>>
             r4 == <<a.candidate, 1>>
  <2>2. IsRatio(r1) /\ IsRatio(r2) /\ IsRatio(r3) /\ IsRatio(r4)
    BY <1>9 DEF IsRatio
  <2>3. WeeklyKey(a) = <<r1, r2, r3, r4>>
    BY DEF WeeklyKey
  <2> HIDE DEF r1, r2, r3, r4
  <2> QED
    BY <2>2, <2>3 DEF IsKey
<1>12. \A a, b \in eligible : a # b => ~Ties(key[a], key[b], 4)
  <2>1. SUFFICES ASSUME NEW a \in eligible, NEW b \in eligible, Ties(key[a], key[b], 4)
                 PROVE  a = b
    OBVIOUS
  <2>2. WeeklyKey(a)[4] = <<a.candidate, 1>> /\ WeeklyKey(b)[4] = <<b.candidate, 1>>
    BY DEF WeeklyKey
  <2>3. Equal(<<a.candidate, 1>>, <<b.candidate, 1>>)
    BY <1>7, <2>1, <2>2 DEF Ties
  <2>4. a.candidate = b.candidate
    BY <1>9, <2>3 DEF Equal
  <2> QED
    BY <1>10, <2>4
<1>13. eligible # {}
  BY <1>2 DEF all
<1>14. \E a \in eligible : \A o \in eligible \ {a} : Precedes(key[a], key[o])
  BY <1>5, <1>11, <1>12, <1>13, FirstExists
<1>15. \E a \in eligible : \A o \in eligible \ {a} : Precedes(WeeklyKey(a), WeeklyKey(o))
  BY <1>7, <1>14
<1>16. PICK a \in eligible : WeeklyDecision(all) = a.candidate
  BY <1>2, <1>13, <1>15
<1>17. PICK c \in Universe : a = Assess(model, x, c, critical) /\ a.candidate = c
  BY <1>8 DEF IsAssessment
<1> QED
  BY <1>6, <1>16, <1>17 DEF all

-----------------------------------------------------------------------------
(* A decision rests on the weeks of its cluster.                            *)

LEMMA NetIsTotal ==
    ASSUME RowsAreTyped, NEW model, NEW x, NEW c
    PROVE  MapThenSumSet(LAMBDA w : rows[<<c, w>>].net, WeekSet(model, x, c))
               = Total(WeekReturns(WeeksIn(model, x, c), c))
<1> DEFINE D == WeekSet(model, x, c)
           weeks == WeeksIn(model, x, c)
           s == WeekReturns(weeks, c)
           n == Len(weeks)
           g == [w \in D |-> rows[<<c, w>>].net]
           pick == [r \in SUBSET D |-> CHOOSE w \in r : TRUE]
           Adds(f) == f = [r \in SUBSET D |->
                              IF r = {} THEN 0
                              ELSE rows[<<c, CHOOSE w \in r : TRUE>>].net
                                     + f[r \ {CHOOSE w \in r : TRUE}]]
           h == CHOOSE f : Adds(f)
<1>1. Lists(weeks, D)
  BY WeeksAreListed
<1>2. n \in Nat /\ IsFiniteSet(D) /\ weeks \in Seq(D)
  BY <1>1 DEF Lists
<1>3. s \in Seq(Int) /\ Len(s) = n
  BY ReturnsAreTyped
<1>4. \A i \in 1..n : s[i] = rows[<<c, weeks[i]>>].net
  BY <1>2 DEF WeekReturns
<1>5. \A w \in D : rows[<<c, w>>].net \in Int
  BY TotalIsInt DEF WeekSet, RowsAreTyped
<1>6. MapThenSumSet(LAMBDA w : rows[<<c, w>>].net, D) = h[D]
  BY DEF MapThenSumSet, MapThenFoldSet
<1> HIDE DEF D, weeks, s, n
<1>7. \A r \in SUBSET D : r # {} => /\ pick[r] = CHOOSE w \in r : TRUE
                                    /\ pick[r] \in r /\ pick[r] \in D
                                    /\ g[pick[r]] = rows[<<c, pick[r]>>].net
  OBVIOUS
<1>8. \A w \in D : g[w] = rows[<<c, w>>].net /\ g[w] \in Int
  BY <1>5
<1>9. \A f : Adds(f) <=> AddsUp(f, D, g, pick)
  <2>1. SUFFICES ASSUME NEW f PROVE Adds(f) <=> AddsUp(f, D, g, pick)
    OBVIOUS
  <2> DEFINE e1(r) == IF r = {} THEN 0
                      ELSE rows[<<c, CHOOSE w \in r : TRUE>>].net
                             + f[r \ {CHOOSE w \in r : TRUE}]
             e2(r) == IF r = {} THEN 0 ELSE g[pick[r]] + f[r \ {pick[r]}]
  <2>2. \A r \in SUBSET D : e1(r) = e2(r)
    <3>1. SUFFICES ASSUME NEW r \in SUBSET D, r # {} PROVE e1(r) = e2(r)
      OBVIOUS
    <3> DEFINE z == CHOOSE w \in r : TRUE
    <3>2. pick[r] = z /\ g[pick[r]] = rows[<<c, pick[r]>>].net
      BY <1>7, <3>1
    <3>3. e1(r) = rows[<<c, z>>].net + f[r \ {z}]
      BY <3>1
    <3>4. e2(r) = g[pick[r]] + f[r \ {pick[r]}]
      BY <3>1
    <3> HIDE DEF z, g, pick, e1, e2
    <3> QED
      BY <3>2, <3>3, <3>4
  <2>3. Adds(f) <=> f = [r \in SUBSET D |-> e1(r)]
    OBVIOUS
  <2> HIDE DEF e1, e2, Adds
  <2>4. [r \in SUBSET D |-> e1(r)] = [r \in SUBSET D |-> e2(r)]
    BY <2>2
  <2> QED
    BY <2>3, <2>4 DEF e2, AddsUp
<1> HIDE DEF g, pick, Adds
<1>10. \A r \in SUBSET D : r # {} => pick[r] \in r
  BY <1>7
<1>11. PICK f : AddsUp(f, D, g, pick)
  BY <1>2, <1>8, <1>10, SumsExist
<1>12. Adds(f)
  BY <1>9, <1>11
<1>13. Adds(h)
  BY <1>12
<1> HIDE DEF h
<1>14. AddsUp(h, D, g, pick)
  BY <1>9, <1>13
<1>15. IsSum(h, D, g, pick)
  BY <1>2, <1>8, <1>10, <1>14, SumsAreTyped
<1>16. h[D] = Total(s)
  <2>1. \A i \in 1..n : weeks[i] \in D
    BY <1>2 DEF n
  <2>2. /\ \A i, j \in 1..n : weeks[i] = weeks[j] => i = j
        /\ \A w \in D : \E i \in 1..n : weeks[i] = w
    BY <1>1 DEF Lists, n
  <2>3. \A i \in 1..n : s[i] = g[weeks[i]]
    BY <1>4, <1>8, <2>1
  <2> QED
    BY <1>2, <1>3, <1>15, <2>1, <2>2, <2>3, SumInOrder
<1> QED
  BY <1>6, <1>16 DEF D, s, weeks

(* No reason against a candidate: its weeks support it.                     *)
LEMMA NoReasonMeansSupport ==
    ASSUME RowsAreTyped, NEW model, NEW x, NEW c, NEW critical \in Int,
           Reasons(Assess(model, x, c, critical)) = {}
    PROVE  SupportedBy(model, x, c)
<1> DEFINE a == Assess(model, x, c, critical)
           S == WeekSet(model, x, c)
           weeks == WeeksIn(model, x, c)
           returns == WeekReturns(weeks, c)
<1>1. IsAssessment(a, model, x, c)
  BY AssessIsSound
<1>2. a.weeks = weeks /\ a.mean = Mean(returns)
  BY <1>1 DEF IsAssessment
<1>3. Reasons(a) = {}
  OBVIOUS
<1>4. Lists(weeks, S)
  BY WeeksAreListed
<1>5. returns \in Seq(Int) /\ Len(returns) = Len(weeks)
  BY ReturnsAreTyped
<1>6. MapThenSumSet(LAMBDA w : rows[<<c, w>>].net, S) = Total(returns)
  BY NetIsTotal
<1>7. S = {w \in Weeks : <<c, w>> \in DOMAIN rows /\ model.labels[w] = x}
  BY DEF WeekSet, LabelsOf
<1>8. SupportedBy(model, x, c) <=>
        /\ Cardinality(S) >= MinWeeks
        /\ Cardinality(UNION {WeekMonths[w] : w \in S}) >= MinWeekMonths
        /\ \A w \in S : {w - 1, w + 1} \intersect S # {}
        /\ MapThenSumSet(LAMBDA w : rows[<<c, w>>].net, S) > 0
  BY <1>7 DEF SupportedBy
<1> HIDE DEF a, S, weeks
<1>9. /\ ~(Len(a.weeks) < MinWeeks)
      /\ ~(Cardinality(MonthsTouched(a.weeks)) < MinWeekMonths)
      /\ HasBlocks(a.weeks)
      /\ ~AtMostZero(a.mean)
  <2> DEFINE named(condition, reason) == IF condition THEN {reason} ELSE {}
             R1 == named(Len(a.weeks) < MinWeeks, "minimum_weekly_episodes")
             R2 == named(Cardinality(MonthsTouched(a.weeks)) < MinWeekMonths, "minimum_distinct_months")
             R3 == named(a.trades < MinWeekTrades, "minimum_trade_count")
             R4 == named(~HasBlocks(a.weeks), "insufficient_consecutive_blocks")
             R5 == named(AtMostZero(a.bound), "non_positive_corrected_lower_bound")
             R6 == named(AtMostZero(a.mean), "cash_dominance")
  <2>1. Reasons(a) = UNION {R1, R2, R3, R4, R5, R6}
    BY DEF Reasons
  <2>2. /\ Len(a.weeks) < MinWeeks => R1 # {}
        /\ Cardinality(MonthsTouched(a.weeks)) < MinWeekMonths => R2 # {}
        /\ ~HasBlocks(a.weeks) => R4 # {}
        /\ AtMostZero(a.mean) => R6 # {}
    OBVIOUS
  <2> HIDE DEF R1, R2, R3, R4, R5, R6
  <2>3. R1 = {} /\ R2 = {} /\ R4 = {} /\ R6 = {}
    BY <1>3, <2>1
  <2> QED
    BY <2>2, <2>3
<1>10. Len(weeks) \in Nat /\ Len(weeks) = Cardinality(S) /\ DOMAIN weeks = 1..Len(weeks)
  BY <1>4 DEF Lists
<1>11. Range(weeks) = S
  <2>1. \A i \in 1..Len(weeks) : weeks[i] \in S
    BY <1>4 DEF Lists
  <2>2. \A w \in S : \E i \in 1..Len(weeks) : weeks[i] = w
    BY <1>4 DEF Lists
  <2> QED
    BY <1>10, <2>1, <2>2 DEF Range
<1>12. Cardinality(S) >= MinWeeks
  BY <1>2, <1>9, <1>10, WeeklyAssumption
<1>13. Cardinality(UNION {WeekMonths[w] : w \in S}) >= MinWeekMonths
  <2>1. MonthsTouched(weeks) = UNION {WeekMonths[w] : w \in S}
    BY <1>11 DEF MonthsTouched
  <2>2. IsFiniteSet(MonthsTouched(weeks))
    <3>1. S \subseteq Weeks
      BY <1>7
    <3>2. \A w \in S : IsFiniteSet(WeekMonths[w])
      BY <3>1, WeeklyAssumption
    <3>3. IsFiniteSet(S)
      BY <1>4 DEF Lists
    <3> DEFINE f == [w \in S |-> WeekMonths[w]]
               M == {WeekMonths[w] : w \in S}
    <3>4. f \in Surjection(S, M)
      BY DEF Surjection
    <3>5. \A T \in M : IsFiniteSet(T)
      BY <3>2
    <3> HIDE DEF f, M
    <3>6. IsFiniteSet(M)
      BY <3>3, <3>4, FS_Surjection
    <3>7. IsFiniteSet(UNION M)
      BY <3>5, <3>6, FS_UNION
    <3> QED
      BY <2>1, <3>7 DEF M
  <2>3. Cardinality(MonthsTouched(weeks)) \in Nat
    BY <2>2, FS_CardinalityType
  <2>4. ~(Cardinality(MonthsTouched(weeks)) < MinWeekMonths)
    BY <1>2, <1>9
  <2>5. MinWeekMonths \in Nat
    BY WeeklyAssumption
  <2> QED
    BY <2>1, <2>3, <2>4, <2>5
<1>14. \A w \in S : {w - 1, w + 1} \intersect S # {}
  <2>1. HasBlocks(weeks)
    BY <1>2, <1>9
  <2>2. \A w \in S : w - 1 \in S \/ w + 1 \in S
    BY <1>11, <2>1 DEF HasBlocks
  <2> QED
    BY <2>2
<1>15. Total(returns) > 0
  <2>1. returns # <<>>
    <3>1. Len(weeks) # 0
      BY <1>10, <1>12, WeeklyAssumption
    <3> QED
      BY <1>5, <3>1
  <2>2. Mean(returns)[1] = Total(returns)
    BY <2>1 DEF Mean
  <2>3. ~AtMostZero(Mean(returns))
    BY <1>2, <1>9
  <2>4. Total(returns) \in Int
    BY <1>5, TotalIsInt
  <2> QED
    BY <2>2, <2>3, <2>4 DEF AtMostZero
<1>16. MapThenSumSet(LAMBDA w : rows[<<c, w>>].net, S) > 0
  BY <1>6, <1>15
<1> QED
  BY <1>8, <1>12, <1>13, <1>14, <1>16

(* What is supported does not depend on the policy of the model, and not on *)
(* a step that keeps the evidence.                                          *)
LEMMA SupportIsOfLabels ==
    ASSUME NEW m, NEW model, m.labels = model.labels, NEW x, NEW c, SupportedBy(model, x, c)
    PROVE  SupportedBy(m, x, c)
BY DEF SupportedBy

LEMMA SupportKept ==
    ASSUME rows' = rows, NEW model, NEW x, NEW c
    PROVE  SupportedBy(model, x, c)' <=> SupportedBy(model, x, c)
BY DEF SupportedBy, MapThenSumSet, MapThenFoldSet

-----------------------------------------------------------------------------
(* Mappings.                                                                *)

LabelsFit(model) == \A w \in Weeks : model.labels[w] \in Fingerprints(model)

IsMapping(m, model) ==
    \E universe, assessments, entries :
        /\ m = [model |-> model, policy |-> PolicyOf(model), universe |-> universe,
                assessments |-> assessments, entries |-> entries]
        /\ DOMAIN entries = ObservedClusters(model)
        /\ \A x \in DOMAIN entries : entries[x] # 0 => SupportedBy(model, x, entries[x])

LEMMA MappingIsBuilt ==
    ASSUME RowsAreTyped, NEW model, LabelsFit(model), NEW critical,
           critical[1] \in Int, critical[2] \in Int
    PROVE  /\ IsMapping(MappingOf(model, critical), model)
           /\ \/ IsAccepted(MappingOf(model, critical))
              \/ model.family = "kmeans" /\ ObservedClusters(model) # Fingerprints(model)
<1> DEFINE D == ObservedClusters(model)
           of(x) == {Assess(model, x, c, critical[x[2]]) : c \in Universe}
           assessed == [x \in D |-> of(x)]
           entries == [x \in D |-> WeeklyDecision(assessed[x])]
           m == MappingOf(model, critical)
<1>1. m = [model |-> model, policy |-> PolicyOf(model), universe |-> Universe,
           assessments |-> assessed, entries |-> entries]
  BY DEF MappingOf
<1>2. D \subseteq Fingerprints(model)
  BY DEF RowsAreTyped, ObservedClusters, LabelsOf, LabelsFit
<1>3. \A x \in D : critical[x[2]] \in Int
  BY <1>2 DEF Fingerprints
<1>4. \A x \in D : entries[x] = WeeklyDecision(of(x)) /\ assessed[x] = of(x)
  OBVIOUS
<1>5. ASSUME NEW x \in D, entries[x] # 0 PROVE SupportedBy(model, x, entries[x])
  <2> DEFINE q == critical[x[2]]
  <2>1. q \in Int
    BY <1>3
  <2>2. WeeklyDecision({Assess(model, x, c, q) : c \in Universe}) # 0
    BY <1>4, <1>5
  <2>3. entries[x] = WeeklyDecision({Assess(model, x, c, q) : c \in Universe})
    BY <1>4
  <2> HIDE DEF q, entries
  <2>4. PICK c \in Universe : /\ c = WeeklyDecision({Assess(model, x, k, q) : k \in Universe})
                              /\ Reasons(Assess(model, x, c, q)) = {}
    BY <2>1, <2>2, DecisionIsEligible
  <2>5. SupportedBy(model, x, c)
    BY <2>1, <2>4, NoReasonMeansSupport
  <2> QED
    BY <2>3, <2>4, <2>5
<1>6. ASSUME NEW x \in D
      PROVE  /\ {a.candidate : a \in of(x)} = Universe
             /\ \A a \in of(x) : AssessmentIsAccepted(a)
  <2> DEFINE q == critical[x[2]]
  <2>1. q \in Int
    BY <1>3
  <2> HIDE DEF q
  <2>2. \A c : IsAssessment(Assess(model, x, c, q), model, x, c)
    BY <2>1, AssessIsSound
  <2>3. \A c : /\ Assess(model, x, c, q).candidate = c
               /\ AssessmentIsAccepted(Assess(model, x, c, q))
    BY <2>2 DEF IsAssessment
  <2>4. of(x) = {Assess(model, x, c, q) : c \in Universe}
    BY DEF q
  <2> HIDE DEF of
  <2> QED
    BY <2>3, <2>4
<1>7. IsMapping(m, model)
  <2>1. DOMAIN entries = D
    OBVIOUS
  <2> HIDE DEF entries, assessed, D, m
  <2>2. \A x \in DOMAIN entries : entries[x] # 0 => SupportedBy(model, x, entries[x])
    BY <1>5, <2>1
  <2>3. DOMAIN entries = ObservedClusters(model)
    BY <2>1 DEF D
  <2> QED
    BY <1>1, <2>2, <2>3 DEF IsMapping
<1>8. ASSUME model.family = "kmeans" => D = Fingerprints(model)
      PROVE  IsAccepted(m)
  <2>1. /\ m.policy = PolicyOf(model) /\ m.universe = Universe
        /\ m.assessments = assessed /\ m.entries = entries
    BY <1>1
  <2>2. m.policy.family = "kmeans" => DOMAIN m.policy.distances = DOMAIN m.entries
    <3>1. DOMAIN entries = D
      OBVIOUS
    <3> HIDE DEF entries, D
    <3>2. m.policy.family = model.family
      BY <2>1 DEF PolicyOf
    <3>3. model.family = "kmeans" => DOMAIN m.policy.distances = Fingerprints(model)
      BY <2>1 DEF PolicyOf
    <3> QED
      BY <1>8, <2>1, <3>1, <3>2, <3>3
  <2>3. \A x \in D : /\ {a.candidate : a \in assessed[x]} = Universe
                     /\ \A a \in assessed[x] : AssessmentIsAccepted(a)
                     /\ entries[x] = WeeklyDecision(assessed[x])
    <3>1. \A x \in D : /\ {a.candidate : a \in of(x)} = Universe
                       /\ \A a \in of(x) : AssessmentIsAccepted(a)
      BY <1>6
    <3> HIDE DEF of
    <3> QED
      BY <1>4, <3>1
  <2>4. DOMAIN entries = D
    OBVIOUS
  <2> HIDE DEF entries, assessed, D, m
  <2> QED
    BY <2>1, <2>2, <2>3, <2>4 DEF IsAccepted
<1> QED
  BY <1>7, <1>8

-----------------------------------------------------------------------------
(* Models, and options.                                                     *)

IsModel(model, f) ==
    \E config \in Configs, labeling \in Labelings :
        model = Model(config, labeling) /\ config.family = f

LEMMA ModelsFit ==
    ASSUME NEW model, NEW f \in Families, IsModel(model, f)
    PROVE  LabelsFit(model) /\ model.family = f
<1>1. PICK config \in Configs, labeling \in Labelings :
        model = Model(config, labeling) /\ config.family = f
  BY DEF IsModel
<1>2. labeling \in [Weeks -> 1..2]
  BY WeeklyAssumption
<1>3. /\ model.id = config.id /\ model.family = f
      /\ model.labels = [w \in Weeks |-> <<config.id, labeling[w]>>]
  BY <1>1 DEF Model
<1>4. ASSUME NEW w \in Weeks PROVE model.labels[w] \in Fingerprints(model)
  <2>1. labeling[w] = 1 \/ labeling[w] = 2
    BY <1>2
  <2>2. model.labels[w] = <<config.id, labeling[w]>>
    BY <1>3
  <2> QED
    BY <1>3, <2>1, <2>2 DEF Fingerprints
<1> QED
  BY <1>3, <1>4 DEF LabelsFit

(* One of the configurations that pass the gates wins.                      *)
LEMMA WinnerPasses ==
    ASSUME NEW e \in [Configs -> Evidence], NEW f \in Families, NEW S,
           S = {c \in Configs : c.family = f /\ PassesGates(c, e[c])}, S # {}
    PROVE  /\ FamilyWinner(S, e) \in Configs /\ FamilyWinner(S, e).family = f
           /\ e[FamilyWinner(S, e)].labeling \in Labelings
<1> DEFINE Beats(c, o) ==
             \/ IF c.family = "kmeans" THEN e[c].score > e[o].score ELSE e[c].score < e[o].score
             \/ e[c].score = e[o].score /\ c.id < o.id
           R == {p \in S \X S : Beats(p[1], p[2])}
<1>1. \A c \in S : c \in Configs /\ c.family = f /\ e[c].fitted /\ e[c] \in Evidence
  BY DEF PassesGates
<1>2. \A r \in Evidence : r.fitted => r.labeling \in Labelings /\ r.score \in 1..2
  <2>1. SUFFICES ASSUME NEW r \in Evidence, r.fitted
                 PROVE  r.labeling \in Labelings /\ r.score \in 1..2
    OBVIOUS
  <2>2. r # [fitted |-> FALSE]
    BY <2>1
  <2>3. r \in [fitted : {TRUE}, labeling : Labelings, stable : BOOLEAN, score : 1..2]
    BY <2>2 DEF Evidence
  <2> QED
    BY <2>3
<1>3. \A c \in S : e[c].labeling \in Labelings /\ e[c].score \in Int
  BY <1>1, <1>2
<1>4. \A c \in S : c.id \in Int
  BY <1>1, WeeklyAssumption
<1>5. \A c, o \in S : c.id = o.id => c = o
  BY <1>1, WeeklyAssumption
<1>6. IsFiniteSet(S)
  <2>1. S \in SUBSET Configs /\ IsFiniteSet(Configs)
    BY <1>1, WeeklyAssumption
  <2> QED
    BY <2>1, FS_Subset
<1>7. \A c, o \in S : <<c, o>> \in R <=> Beats(c, o)
  OBVIOUS
<1> HIDE DEF R
<1>8. ASSUME f = "kmeans" PROVE \E c \in S : \A o \in S \ {c} : Beats(c, o)
  <2>1. \A c, o \in S : Beats(c, o) <=> \/ e[c].score > e[o].score
                                        \/ e[c].score = e[o].score /\ c.id < o.id
    BY <1>1, <1>8
  <2> HIDE DEF Beats
  <2>2. \A a, b \in S : ~(<<a, b>> \in R /\ <<b, a>> \in R)
    <3>1. SUFFICES ASSUME NEW a \in S, NEW b \in S, <<a, b>> \in R, <<b, a>> \in R PROVE FALSE
      OBVIOUS
    <3>2. e[a].score > e[b].score \/ (e[a].score = e[b].score /\ a.id < b.id)
      BY <1>7, <2>1, <3>1
    <3>3. e[b].score > e[a].score \/ (e[b].score = e[a].score /\ b.id < a.id)
      BY <1>7, <2>1, <3>1
    <3> QED
      BY <1>3, <1>4, <3>2, <3>3
  <2>3. \A a, b \in S : a # b => <<a, b>> \in R \/ <<b, a>> \in R
    BY <1>3, <1>4, <1>5, <1>7, <2>1
  <2>4. \A a, b, c \in S : <<a, b>> \in R /\ <<b, c>> \in R => <<a, c>> \in R
    BY <1>3, <1>4, <1>7, <2>1
  <2>5. Orders(R, S)
    BY <2>2, <2>3, <2>4 DEF Orders
  <2>6. PICK c : IsLeast(R, S, c)
    BY <1>6, <2>5, LeastExists
  <2>7. c \in S /\ \A o \in S \ {c} : Beats(c, o)
    BY <1>7, <2>6 DEF IsLeast
  <2> QED
    BY <2>7
<1>9. ASSUME f # "kmeans" PROVE \E c \in S : \A o \in S \ {c} : Beats(c, o)
  <2>1. \A c, o \in S : Beats(c, o) <=> \/ e[c].score < e[o].score
                                        \/ e[c].score = e[o].score /\ c.id < o.id
    BY <1>1, <1>9
  <2> HIDE DEF Beats
  <2>2. \A a, b \in S : ~(<<a, b>> \in R /\ <<b, a>> \in R)
    <3>1. SUFFICES ASSUME NEW a \in S, NEW b \in S, <<a, b>> \in R, <<b, a>> \in R PROVE FALSE
      OBVIOUS
    <3>2. e[a].score < e[b].score \/ (e[a].score = e[b].score /\ a.id < b.id)
      BY <1>7, <2>1, <3>1
    <3>3. e[b].score < e[a].score \/ (e[b].score = e[a].score /\ b.id < a.id)
      BY <1>7, <2>1, <3>1
    <3> QED
      BY <1>3, <1>4, <3>2, <3>3
  <2>3. \A a, b \in S : a # b => <<a, b>> \in R \/ <<b, a>> \in R
    BY <1>3, <1>4, <1>5, <1>7, <2>1
  <2>4. \A a, b, c \in S : <<a, b>> \in R /\ <<b, c>> \in R => <<a, c>> \in R
    BY <1>3, <1>4, <1>7, <2>1
  <2>5. Orders(R, S)
    BY <2>2, <2>3, <2>4 DEF Orders
  <2>6. PICK c : IsLeast(R, S, c)
    BY <1>6, <2>5, LeastExists
  <2>7. c \in S /\ \A o \in S \ {c} : Beats(c, o)
    BY <1>7, <2>6 DEF IsLeast
  <2> QED
    BY <2>7
<1>10. \E c \in S : \A o \in S \ {c} : Beats(c, o)
  BY <1>8, <1>9
<1>11. FamilyWinner(S, e) = CHOOSE c \in S : \A o \in S \ {c} : Beats(c, o)
  BY DEF FamilyWinner
<1> HIDE DEF Beats
<1>12. FamilyWinner(S, e) \in S
  BY <1>10, <1>11
<1> QED
  BY <1>1, <1>3, <1>12

AreOptions(S) ==
    \A o \in S : /\ o = <<o[1], o[2], o[3]>>
                 /\ o[1] \in Families /\ o[2] \in MappingConfigs /\ o[3] \in Policies

(* Nothing scores more than the best option.                                *)
LEMMA BestIsBest ==
    ASSUME NEW S, IsFiniteSet(S), S # {}, AreOptions(S),
           NEW score, \A o \in S : score[o] \in Int
    PROVE  BestOption(S, score) \in S /\ \A q \in S : score[q] <= score[BestOption(S, score)]
<1> DEFINE key == [o \in S |-> ValidationKey(score, o)]
           place == [gmm |-> 1, kmeans |-> 2]
           best == BestOption(S, score)
<1>1. \A o \in S : key[o] = ValidationKey(score, o)
  OBVIOUS
<1>2. /\ \A f \in Families : place[f] \in Int
      /\ \A f, g \in Families : place[f] = place[g] => f = g
  <2>1. place["gmm"] = 1 /\ place["kmeans"] = 2
    OBVIOUS
  <2> QED
    BY <2>1 DEF Families
<1>3. \A o : ValidationKey(score, o) =
                <<<<-score[o], 1>>, <<o[2], 1>>, <<place[o[1]], 1>>, <<o[3], 1>>>>
  BY DEF ValidationKey
<1> HIDE DEF key, place
<1>4. \A o \in S : o[1] \in Families /\ o[2] \in Int /\ o[3] \in Int
  BY WeeklyAssumption DEF AreOptions
<1>5. ASSUME NEW o \in S PROVE IsKey(key[o], 4)
  <2> DEFINE r1 == <<-score[o], 1>>
             r2 == <<o[2], 1>>
             r3 == <<place[o[1]], 1>>
             r4 == <<o[3], 1>>
  <2>1. IsRatio(r1) /\ IsRatio(r2) /\ IsRatio(r3) /\ IsRatio(r4)
    BY <1>2, <1>4 DEF IsRatio
  <2>2. key[o] = <<r1, r2, r3, r4>>
    BY <1>1, <1>3
  <2> HIDE DEF r1, r2, r3, r4
  <2> QED
    BY <2>1, <2>2 DEF IsKey
<1>6. ASSUME NEW o \in S, NEW q \in S, Ties(key[o], key[q], 4) PROVE o = q
  <2>1. /\ key[o] = <<<<-score[o], 1>>, <<o[2], 1>>, <<place[o[1]], 1>>, <<o[3], 1>>>>
        /\ key[q] = <<<<-score[q], 1>>, <<q[2], 1>>, <<place[q[1]], 1>>, <<q[3], 1>>>>
    BY <1>1, <1>3
  <2>2. \A i \in 1..4 : Equal(key[o][i], key[q][i])
    BY <1>6 DEF Ties
  <2>3. /\ Equal(<<o[2], 1>>, <<q[2], 1>>)
        /\ Equal(<<place[o[1]], 1>>, <<place[q[1]], 1>>)
        /\ Equal(<<o[3], 1>>, <<q[3], 1>>)
    BY <2>1, <2>2
  <2>4. place[o[1]] \in Int /\ place[q[1]] \in Int
    BY <1>2, <1>4
  <2>5. o[2] = q[2] /\ place[o[1]] = place[q[1]] /\ o[3] = q[3]
    BY <1>4, <2>3, <2>4 DEF Equal
  <2>6. o[1] = q[1]
    BY <1>2, <1>4, <2>5
  <2> QED
    BY <2>5, <2>6 DEF AreOptions
<1>7. \E o \in S : \A q \in S \ {o} : Precedes(key[o], key[q])
  <2>1. \A o, q \in S : o # q => ~Ties(key[o], key[q], 4)
    BY <1>6
  <2> QED
    BY <1>5, <2>1, FirstExists
<1>8. \E o \in S : \A q \in S \ {o} : Precedes(ValidationKey(score, o), ValidationKey(score, q))
  BY <1>1, <1>7
<1>9. best \in S /\ \A q \in S \ {best} : Precedes(ValidationKey(score, best), ValidationKey(score, q))
  BY <1>8 DEF BestOption
<1> HIDE DEF best
<1>10. ASSUME NEW q \in S, q # best PROVE score[q] <= score[best]
  <2>1. Precedes(key[best], key[q])
    BY <1>1, <1>9, <1>10
  <2>2. DOMAIN key[best] = 1..4
    BY <1>5, <1>9 DEF IsKey
  <2>3. PICK i \in 1..4 : (\A j \in 1..(i - 1) : Equal(key[best][j], key[q][j]))
                          /\ Less(key[best][i], key[q][i])
    BY <2>1, <2>2 DEF Precedes
  <2>4. key[best][1] = <<-score[best], 1>> /\ key[q][1] = <<-score[q], 1>>
    <3>1. key[best] = ValidationKey(score, best) /\ key[q] = ValidationKey(score, q)
      BY <1>1, <1>9
    <3>2. \A o : ValidationKey(score, o)[1] = <<-score[o], 1>>
      BY DEF ValidationKey
    <3> QED
      BY <3>1, <3>2
  <2>5. Less(key[best][1], key[q][1]) \/ Equal(key[best][1], key[q][1])
    <3>1. i # 1 => 1 \in 1..(i - 1)
      OBVIOUS
    <3> QED
      BY <2>3, <3>1
  <2>6. score[best] \in Int /\ score[q] \in Int
    BY <1>9
  <2> QED
    BY <2>4, <2>5, <2>6 DEF Less, Equal
<1>11. score[best] <= score[best]
  BY <1>9
<1> QED
  BY <1>9, <1>10, <1>11 DEF best

LEMMA OptionsAreFinite ==
    ASSUME NEW f \in Families
    PROVE  /\ IsFiniteSet(Options(f)) /\ Options(f) # {} /\ AreOptions(Options(f))
           /\ \A o \in Options(f) : o[1] = f
<1> DEFINE P == MappingConfigs \X Policies
           g == [p \in P |-> <<f, p[1], p[2]>>]
<1>1. /\ IsFiniteSet(MappingConfigs) /\ IsFiniteSet(Policies)
      /\ MappingConfigs # {} /\ Policies # {}
  BY WeeklyAssumption
<1>2. IsFiniteSet(P)
  BY <1>1, FS_Product
<1>3. Options(f) = {<<f, b, p>> : b \in MappingConfigs, p \in Policies}
  BY DEF Options
<1>4. g \in Surjection(P, Options(f))
  <2>1. \A p \in P : g[p] \in Options(f)
    BY <1>3
  <2>2. ASSUME NEW o \in Options(f) PROVE \E p \in P : g[p] = o
    <3>1. PICK b \in MappingConfigs, p \in Policies : o = <<f, b, p>>
      BY <1>3
    <3>2. <<b, p>> \in P /\ g[<<b, p>>] = o
      BY <3>1
    <3> QED
      BY <3>2
  <2>3. DOMAIN g = P /\ g = [p \in P |-> g[p]]
    OBVIOUS
  <2> HIDE DEF g, P
  <2> QED
    BY <2>1, <2>2, <2>3 DEF Surjection
<1>5. IsFiniteSet(Options(f))
  <2> HIDE DEF g, P
  <2> QED
    BY <1>2, <1>4, FS_Surjection
<1>6. Options(f) # {}
  <2>1. PICK b \in MappingConfigs, p \in Policies : TRUE
    BY <1>1
  <2>2. <<f, b, p>> \in Options(f)
    BY <1>3
  <2> QED
    BY <2>2
<1>7. \A o \in Options(f) : /\ o[1] = f /\ o = <<o[1], o[2], o[3]>>
                            /\ o[2] \in MappingConfigs /\ o[3] \in Policies
  BY <1>3
<1> QED
  BY <1>5, <1>6, <1>7 DEF AreOptions

-----------------------------------------------------------------------------
(* The weekly walk-forward.                                                 *)

MappingsAreBuilt ==
    /\ \A f \in DOMAIN models, b \in MappingConfigs : IsMapping(mappings.family[f][b], models[f])
    /\ mappings.trainSelected # 0 => SupportedBy(Together, <<0, 1>>, mappings.trainSelected)

ModelsAreTyped == DOMAIN models \subseteq Families /\ \A f \in DOMAIN models : IsModel(models[f], f)

(* What a step of the walk-forward leaves behind: models of configurations, *)
(* rows that are reconciled, some of them once there are mappings to build, *)
(* and mappings built from both.                                            *)
WeeklyInv ==
    /\ ModelsAreTyped
    /\ RowsAreTyped
    /\ stage = "mappings" => DOMAIN rows # {}
    /\ stage \in {"validation", "frozen"} => MappingsAreBuilt
    /\ FrozenPairsAreSound

LEMMA TogetherFits == LabelsFit(Together)
BY DEF LabelsFit, Together, Fingerprints

LEMMA MappingKept ==
    ASSUME rows' = rows, NEW m, NEW model, IsMapping(m, model)
    PROVE  IsMapping(m, model)'
<1>1. PICK universe, assessments, entries :
        /\ m = [model |-> model, policy |-> PolicyOf(model), universe |-> universe,
                assessments |-> assessments, entries |-> entries]
        /\ DOMAIN entries = ObservedClusters(model)
        /\ \A x \in DOMAIN entries : entries[x] # 0 => SupportedBy(model, x, entries[x])
  BY DEF IsMapping
<1>2. ObservedClusters(model)' = ObservedClusters(model) /\ PolicyOf(model)' = PolicyOf(model)
  BY DEF ObservedClusters, LabelsOf, PolicyOf, Fingerprints
<1>3. \A x \in DOMAIN entries : entries[x] # 0 => SupportedBy(model, x, entries[x])'
  BY <1>1, SupportKept
<1> QED
  BY <1>1, <1>2, <1>3 DEF IsMapping

(* A cluster that is not observed is one the property excuses.              *)
LEMMA NotObserved ==
    ASSUME ModelsAreTyped, RowsAreTyped, NEW f \in DOMAIN models,
           ObservedClusters(models[f]) # Fingerprints(models[f])
    PROVE  UnobservedCluster
<1> DEFINE model == models[f]
<1>1. LabelsFit(model)
  BY ModelsFit DEF ModelsAreTyped
<1>2. ObservedClusters(model) \subseteq Fingerprints(model)
  BY <1>1 DEF RowsAreTyped, ObservedClusters, LabelsOf, LabelsFit
<1>3. PICK k \in 1..2 : <<model.id, k>> \notin ObservedClusters(model)
  BY <1>2 DEF Fingerprints
<1>4. \A key \in DOMAIN rows : model.labels[key[2]] # <<model.id, k>>
  BY <1>3 DEF ObservedClusters, LabelsOf
<1> QED
  BY <1>3, <1>4 DEF UnobservedCluster

LEMMA WeeklyInitially ==
    ASSUME WeeklyInit
    PROVE  WeeklyInv
<1>1. DOMAIN models = {} /\ DOMAIN rows = {} /\ stage = "models"
  BY DEF WeeklyInit
<1> QED
  BY <1>1 DEF WeeklyInv, ModelsAreTyped, RowsAreTyped, FrozenPairsAreSound

(* A stage that has not ended says nothing yet.                             *)
LEMMA NothingYet ==
    ASSUME stage' \notin {"validation", "frozen", "aborted"}, ModelsAreTyped', RowsAreTyped',
           stage' = "mappings" => DOMAIN rows' # {}
    PROVE  WeeklyInv'
BY DEF WeeklyInv, FrozenPairsAreSound

LEMMA EvaluateKeeps ==
    ASSUME WeeklyInv, EvaluateModels
    PROVE  WeeklyInv'
<1>1. PICK e \in [Configs -> Evidence] :
        LET eligible(f) == {c \in Configs : c.family = f /\ PassesGates(c, e[c])}
            winner(f) == FamilyWinner(eligible(f), e)
        IN  models' = [f \in {g \in Families : eligible(g) # {}} |->
                          Model(winner(f), e[winner(f)].labeling)]
  BY DEF EvaluateModels
<1> DEFINE eligible(f) == {c \in Configs : c.family = f /\ PassesGates(c, e[c])}
           winner(f) == FamilyWinner(eligible(f), e)
           D == {g \in Families : eligible(g) # {}}
<1>2. models' = [f \in D |-> Model(winner(f), e[winner(f)].labeling)]
  BY <1>1
<1>3. \A f \in D : /\ winner(f) \in Configs /\ winner(f).family = f
                   /\ e[winner(f)].labeling \in Labelings
  <2>1. SUFFICES ASSUME NEW f \in D
                 PROVE  /\ winner(f) \in Configs /\ winner(f).family = f
                        /\ e[winner(f)].labeling \in Labelings
    OBVIOUS
  <2> DEFINE S == eligible(f)
  <2>2. S = {c \in Configs : c.family = f /\ PassesGates(c, e[c])} /\ S # {} /\ f \in Families
    OBVIOUS
  <2>3. winner(f) = FamilyWinner(S, e)
    OBVIOUS
  <2> HIDE DEF S, winner
  <2>4. /\ FamilyWinner(S, e) \in Configs /\ FamilyWinner(S, e).family = f
        /\ e[FamilyWinner(S, e)].labeling \in Labelings
    BY <2>2, WinnerPasses
  <2> QED
    BY <2>3, <2>4
<1>4. D \subseteq Families
  OBVIOUS
<1> HIDE DEF D, winner
<1>5. DOMAIN models' = D
  BY <1>2
<1>6. \A f \in D : models'[f] = Model(winner(f), e[winner(f)].labeling)
  BY <1>2
<1>7. \A f \in D : IsModel(models'[f], f)
  BY <1>3, <1>6 DEF IsModel
<1>8. ModelsAreTyped'
  BY <1>4, <1>5, <1>7 DEF ModelsAreTyped, IsModel, Model
<1>9. RowsAreTyped'
  BY DEF EvaluateModels, WeeklyInv, RowsAreTyped
<1>10. stage' \in {"cash", "evidence"}
  BY DEF EvaluateModels
<1> QED
  BY <1>8, <1>9, <1>10, NothingYet

LEMMA EvidenceKeeps ==
    ASSUME WeeklyInv, RunWeeklyEvidence
    PROVE  WeeklyInv'
<1>1. PICK covered \in {f \in [WeeklyCandidates -> SUBSET Weeks] :
                           \A c \in WeeklyCandidates : f[c] \in Coverings[c]},
           report \in {f \in [WeeklyCandidates -> UNION Range(Outcomes)] :
                          \A c \in WeeklyCandidates : f[c] \in Outcomes[c]} :
         LET keys == {k \in WeeklyCandidates \X Weeks : k[2] \in covered[k[1]]}
             refused == {k \in keys : IsRefused(k[1], report[k[1]][k[2]])}
         IN  IF refused # {}
             THEN stage' = "refused" /\ UNCHANGED rows
             ELSE /\ rows' = [k \in keys |-> Row(k[2], report[k[1]][k[2]])]
                  /\ stage' = IF keys = {} THEN "cash" ELSE "mappings"
  BY DEF RunWeeklyEvidence
<1> DEFINE keys == {k \in WeeklyCandidates \X Weeks : k[2] \in covered[k[1]]}
           of(k) == report[k[1]][k[2]]
<1>2. ModelsAreTyped'
  BY DEF RunWeeklyEvidence, WeeklyInv, ModelsAreTyped, IsModel, Model
<1>3. stage' \in {"refused", "cash", "mappings"}
  BY <1>1
<1>4. CASE rows' = rows /\ stage' = "refused"
  <2>1. RowsAreTyped'
    BY <1>4 DEF WeeklyInv, RowsAreTyped
  <2> QED
    BY <1>2, <1>4, <2>1, NothingYet
<1>5. CASE /\ rows' = [k \in keys |-> Row(k[2], of(k))]
           /\ stage' = IF keys = {} THEN "cash" ELSE "mappings"
           /\ \A k \in keys : ~IsRefused(k[1], of(k))
  <2>1. \A k \in keys : k \in WeeklyCandidates \X Weeks
    OBVIOUS
  <2>2. ASSUME NEW k \in keys
        PROVE  of(k).trades \in Seq(Int) /\ of(k).bars \in Len(of(k).trades)..WeekBars
    <3>1. k[1] \in WeeklyCandidates /\ k[2] \in Weeks
      BY <2>1, <2>2
    <3>2. report[k[1]] \in Outcomes[k[1]]
      BY <3>1
    <3>3. report[k[1]] \in [Weeks -> [trades : Seq(Int), bars : Nat, drift : Int]]
      BY <3>1, <3>2, WeeklyAssumption
    <3>4. of(k) \in [trades : Seq(Int), bars : Nat, drift : Int]
      BY <3>1, <3>3
    <3>5. of(k).trades \in Seq(Int)
      BY <3>4
    <3> HIDE DEF of, keys
    <3>6. ~IsRefused(k[1], of(k))
      BY <1>5, <2>2
    <3> QED
      BY <3>5, <3>6 DEF IsRefused, IsReconciled, TradesFit
  <2> HIDE DEF keys, of
  <2>3. DOMAIN rows' = keys
    BY <1>5
  <2>4. \A k \in keys : /\ rows'[k].trades = of(k).trades /\ rows'[k].bars = of(k).bars
                        /\ rows'[k].net = Total(of(k).trades)
    BY <1>5 DEF Row
  <2>5. \A k \in keys : /\ rows'[k].trades \in Seq(Int)
                        /\ rows'[k].bars \in Len(rows'[k].trades)..WeekBars
                        /\ rows'[k].net = Total(rows'[k].trades)
    BY <2>2, <2>4
  <2>6. DOMAIN rows' \subseteq WeeklyCandidates \X Weeks
    BY <2>1, <2>3
  <2>7. RowsAreTyped'
    BY <2>3, <2>5, <2>6 DEF RowsAreTyped, Total
  <2> QED
    BY <1>2, <1>3, <1>5, <2>3, <2>7, NothingYet
<1> QED
  BY <1>1, <1>4, <1>5

LEMMA BuildKeeps ==
    ASSUME WeeklyInv, BuildWeeklyMappings
    PROVE  WeeklyInv'
<1>0. /\ ModelsAreTyped /\ RowsAreTyped /\ DOMAIN rows # {}
      /\ models' = models /\ rows' = rows /\ frozen' = frozen
  BY DEF WeeklyInv, BuildWeeklyMappings
<1>1. PICK critical \in [(DOMAIN models) \X MappingConfigs -> [1..2 -> Criticals]],
           together \in Criticals :
         LET built == [f \in DOMAIN models |->
                         [b \in MappingConfigs |-> MappingOf(models[f], critical[<<f, b>>])]]
             all == MappingOf(Together, [k \in 1..2 |-> together])
         IN  IF /\ \A f \in DOMAIN built, b \in MappingConfigs : IsAccepted(built[f][b])
                /\ IsAccepted(all)
             THEN /\ mappings' = [family |-> built, trainSelected |-> all.entries[<<0, 1>>]]
                  /\ stage' = "validation"
             ELSE stage' = "aborted" /\ UNCHANGED mappings
  BY DEF BuildWeeklyMappings
<1> DEFINE built == [f \in DOMAIN models |->
                       [b \in MappingConfigs |-> MappingOf(models[f], critical[<<f, b>>])]]
           both == [k \in 1..2 |-> together]
           all == MappingOf(Together, both)
           selected == all.entries[<<0, 1>>]
<1>2. Criticals \subseteq Int
  BY WeeklyAssumption
<1>3. ASSUME NEW f \in DOMAIN models, NEW b \in MappingConfigs
      PROVE  /\ IsMapping(built[f][b], models[f])
             /\ IsAccepted(built[f][b]) \/ ObservedClusters(models[f]) # Fingerprints(models[f])
  <2> DEFINE q == critical[<<f, b>>]
  <2>1. q \in [1..2 -> Criticals]
    OBVIOUS
  <2>2. built[f][b] = MappingOf(models[f], q)
    OBVIOUS
  <2> HIDE DEF q, built
  <2>3. q[1] \in Int /\ q[2] \in Int
    <3>1. 1 \in 1..2 /\ 2 \in 1..2
      OBVIOUS
    <3>2. q[1] \in Criticals /\ q[2] \in Criticals
      BY <2>1, <3>1
    <3> QED
      BY <1>2, <3>2
  <2>4. LabelsFit(models[f])
    BY <1>0, ModelsFit DEF ModelsAreTyped
  <2> DEFINE model == models[f]
  <2>5. LabelsFit(model)
    BY <2>4
  <2>6. /\ IsMapping(MappingOf(model, q), model)
        /\ \/ IsAccepted(MappingOf(model, q))
           \/ model.family = "kmeans" /\ ObservedClusters(model) # Fingerprints(model)
    <3> HIDE DEF model
    <3> QED
      BY <1>0, <2>3, <2>5, MappingIsBuilt
  <2> QED
    BY <2>2, <2>6
<1>4. IsMapping(all, Together) /\ IsAccepted(all)
  <2>1. both[1] \in Int /\ both[2] \in Int
    BY <1>2
  <2>2. Together.family # "kmeans"
    BY DEF Together
  <2> HIDE DEF both
  <2> QED
    BY <1>0, <2>1, <2>2, TogetherFits, MappingIsBuilt
<1>5. selected # 0 => SupportedBy(Together, <<0, 1>>, selected)
  <2>1. PICK universe, assessments, entries :
          /\ all = [model |-> Together, policy |-> PolicyOf(Together), universe |-> universe,
                    assessments |-> assessments, entries |-> entries]
          /\ DOMAIN entries = ObservedClusters(Together)
          /\ \A x \in DOMAIN entries : entries[x] # 0 => SupportedBy(Together, x, entries[x])
    BY <1>4 DEF IsMapping
  <2>2. all.entries = entries
    BY <2>1
  <2>3. PICK k \in DOMAIN rows : TRUE
    BY <1>0
  <2>4. Together.labels[k[2]] = <<0, 1>>
    <3>1. k[2] \in Weeks
      BY <1>0 DEF RowsAreTyped
    <3> QED
      BY <3>1 DEF Together
  <2>5. <<0, 1>> \in ObservedClusters(Together)
    BY <2>4 DEF ObservedClusters, LabelsOf
  <2> HIDE DEF all
  <2> QED
    BY <2>1, <2>2, <2>5
<1>6. DOMAIN built = DOMAIN models
  OBVIOUS
<1> HIDE DEF built, all, selected
<1>7. ModelsAreTyped'
  BY <1>0 DEF ModelsAreTyped, IsModel, Model
<1>8. RowsAreTyped'
  BY <1>0 DEF RowsAreTyped
<1>9. CASE /\ mappings' = [family |-> built, trainSelected |-> selected]
           /\ stage' = "validation"
  <2>1. mappings'.family = built /\ mappings'.trainSelected = selected
    BY <1>9
  <2>2. ASSUME NEW f \in DOMAIN models, NEW b \in MappingConfigs
        PROVE  IsMapping(mappings.family[f][b], models[f])'
    <3> DEFINE m == built[f][b]
               model == models[f]
    <3>1. IsMapping(m, model)
      BY <1>3
    <3>2. mappings'.family[f][b] = m /\ models'[f] = model
      BY <1>0, <2>1
    <3> HIDE DEF m, model
    <3> QED
      BY <1>0, <3>1, <3>2, MappingKept
  <2>3. (mappings.trainSelected # 0 => SupportedBy(Together, <<0, 1>>, mappings.trainSelected))'
    <3>1. PICK c, x, model : c = selected /\ x = <<0, 1>> /\ model = Together
      OBVIOUS
    <3>2. c # 0 => SupportedBy(model, x, c)
      BY <1>5, <3>1
    <3>3. c # 0 => SupportedBy(model, x, c)'
      BY <1>0, <3>2, SupportKept
    <3>4. mappings'.trainSelected = c
      BY <2>1, <3>1
    <3>5. mappings'.trainSelected # 0 => SupportedBy(model, x, mappings.trainSelected)'
      BY <3>3, <3>4
    <3> QED
      BY <3>1, <3>5 DEF Together
  <2>4. MappingsAreBuilt'
    BY <1>0, <2>1, <2>2, <2>3 DEF MappingsAreBuilt
  <2> QED
    BY <1>7, <1>8, <1>9, <2>4 DEF WeeklyInv, FrozenPairsAreSound
<1>10. CASE /\ stage' = "aborted"
            /\ \/ \E f \in DOMAIN built, b \in MappingConfigs : ~IsAccepted(built[f][b])
               \/ ~IsAccepted(all)
  <2>1. PICK f \in DOMAIN models : ObservedClusters(models[f]) # Fingerprints(models[f])
    BY <1>3, <1>4, <1>6, <1>10
  <2>2. UnobservedCluster
    BY <1>0, <2>1, NotObserved
  <2>3. UnobservedCluster'
    BY <1>0, <2>2 DEF UnobservedCluster
  <2> QED
    BY <1>7, <1>8, <1>10, <2>3 DEF WeeklyInv, FrozenPairsAreSound
<1>11. \/ /\ mappings' = [family |-> built, trainSelected |-> selected]
          /\ stage' = "validation"
       \/ /\ stage' = "aborted"
          /\ \/ \E f \in DOMAIN built, b \in MappingConfigs : ~IsAccepted(built[f][b])
             \/ ~IsAccepted(all)
  BY <1>1 DEF built, all, selected
<1> QED
  BY <1>9, <1>10, <1>11

(* What validation takes from a mapping, linked to its model under a policy.*)
LEMMA LinkedMapping ==
    ASSUME NEW f \in Families, NEW model, IsModel(model, f), NEW m, IsMapping(m, model), NEW p
    PROVE  LET n == UnderPolicy(model, p)
               l == Linked(m, n)
           IN  /\ n.labels = model.labels /\ n.id = model.id
               /\ PairIsValid(n, l) <=> ObservedClusters(model) = Fingerprints(model)
               /\ \A x \in ObservedClusters(model) :
                    l.entries[x] # 0 => SupportedBy(n, x, l.entries[x])
<1> DEFINE n == UnderPolicy(model, p)
           l == Linked(m, n)
<1>1. PICK config \in Configs, labeling \in Labelings : model = Model(config, labeling)
  BY DEF IsModel
<1>2. n.labels = model.labels /\ n.id = model.id
  BY <1>1 DEF UnderPolicy, Model
<1>3. PICK universe, assessments, entries :
        /\ m = [model |-> model, policy |-> PolicyOf(model), universe |-> universe,
                assessments |-> assessments, entries |-> entries]
        /\ DOMAIN entries = ObservedClusters(model)
        /\ \A x \in DOMAIN entries : entries[x] # 0 => SupportedBy(model, x, entries[x])
  BY DEF IsMapping
<1> HIDE DEF n
<1>4. l.model = n /\ l.policy = PolicyOf(n) /\ l.entries = entries
  BY <1>3 DEF Linked
<1>5. Fingerprints(n) = Fingerprints(model)
  BY <1>2 DEF Fingerprints
<1> HIDE DEF l
<1>6. PairIsValid(n, l) <=> ObservedClusters(model) = Fingerprints(model)
  BY <1>3, <1>4, <1>5 DEF PairIsValid
<1>7. ASSUME NEW x \in ObservedClusters(model), l.entries[x] # 0
      PROVE  SupportedBy(n, x, l.entries[x])
  <2>1. SupportedBy(model, x, l.entries[x])
    BY <1>3, <1>4, <1>7
  <2> QED
    BY <1>2, <2>1, SupportIsOfLabels
<1> QED
  BY <1>2, <1>6, <1>7 DEF n, l

(* Steps that keep the evidence keep what rests on it.                      *)
IsSoundPair(model, m) ==
    /\ PairIsValid(model, m)
    /\ \A x \in Fingerprints(model) :
         m.entries[x] # 0 => SupportedBy(model, x, m.entries[x])

LEMMA PairKept ==
    ASSUME rows' = rows, NEW model, NEW m, IsSoundPair(model, m)
    PROVE  IsSoundPair(model, m)'
<1>1. \A x \in Fingerprints(model) : m.entries[x] # 0 => SupportedBy(model, x, m.entries[x])'
  BY SupportKept DEF IsSoundPair
<1>2. /\ PairIsValid(model, m)' <=> PairIsValid(model, m)
      /\ Fingerprints(model)' = Fingerprints(model)
  BY DEF PairIsValid, Fingerprints, PolicyOf
<1> QED
  BY <1>1, <1>2 DEF IsSoundPair

LEMMA MappingsKept ==
    ASSUME rows' = rows, models' = models, mappings' = mappings, MappingsAreBuilt
    PROVE  MappingsAreBuilt'
<1>1. ASSUME NEW f \in DOMAIN models, NEW b \in MappingConfigs
      PROVE  IsMapping(mappings.family[f][b], models[f])'
  <2> DEFINE m == mappings.family[f][b]
             g == models[f]
  <2>1. IsMapping(m, g)
    BY DEF MappingsAreBuilt
  <2>2. mappings'.family[f][b] = m /\ models'[f] = g
    OBVIOUS
  <2> HIDE DEF m, g
  <2> QED
    BY <2>1, <2>2, MappingKept
<1>2. (mappings.trainSelected # 0 => SupportedBy(Together, <<0, 1>>, mappings.trainSelected))'
  <2>1. PICK c, x, t : c = mappings.trainSelected /\ x = <<0, 1>> /\ t = Together
    OBVIOUS
  <2>2. c # 0 => SupportedBy(t, x, c)
    BY <2>1 DEF MappingsAreBuilt
  <2>3. c # 0 => SupportedBy(t, x, c)'
    BY <2>2, SupportKept
  <2> QED
    BY <2>1, <2>3 DEF Together
<1> QED
  BY <1>1, <1>2 DEF MappingsAreBuilt

LEMMA ValidateKeeps ==
    ASSUME WeeklyInv, ValidateMappings
    PROVE  WeeklyInv'
<1>0. /\ ModelsAreTyped /\ RowsAreTyped /\ MappingsAreBuilt
      /\ models' = models /\ rows' = rows /\ mappings' = mappings
  BY DEF WeeklyInv, ValidateMappings
<1> DEFINE all == UNION {Options(f) : f \in DOMAIN models}
           model(o) == UnderPolicy(models[o[1]], o[3])
           linked(o) == Linked(mappings.family[o[1]][o[2]], model(o))
<1>1. \/ /\ stage' = "aborted"
         /\ \E o \in all : ~PairIsValid(model(o), linked(o))
      \/ /\ stage' = "frozen"
         /\ \A o \in all : PairIsValid(model(o), linked(o))
         /\ \E score \in [all -> 0..1] :
             LET winner == [f \in DOMAIN models |-> BestOption(Options(f), score)]
                 overall == BestOption(Range(winner), score)
             IN  frozen' = [family |-> overall[1],
                            pair |-> [f \in DOMAIN models |-> [model |-> model(winner[f]),
                                                               mapping |-> linked(winner[f])]],
                            margin |-> {score[o] - score[overall] : o \in all}]
  BY DEF ValidateMappings
<1>2. DOMAIN models \subseteq Families
  BY <1>0 DEF ModelsAreTyped
<1>3. \A f \in DOMAIN models : /\ IsFiniteSet(Options(f)) /\ Options(f) # {} /\ AreOptions(Options(f))
                               /\ \A o \in Options(f) : o \in all /\ o[1] = f
  BY <1>2, OptionsAreFinite
<1>4. \A o \in all : \E f \in DOMAIN models : o \in Options(f)
  OBVIOUS
<1>5. ASSUME NEW o \in all
      PROVE  /\ o[1] \in DOMAIN models
             /\ model(o).labels = models[o[1]].labels
             /\ PairIsValid(model(o), linked(o)) <=>
                  ObservedClusters(models[o[1]]) = Fingerprints(models[o[1]])
             /\ Fingerprints(model(o)) = Fingerprints(models[o[1]])
             /\ \A x \in ObservedClusters(models[o[1]]) :
                  linked(o).entries[x] # 0 => SupportedBy(model(o), x, linked(o).entries[x])
  <2>1. PICK f \in DOMAIN models : o \in Options(f)
    BY <1>4
  <2>2. o[1] = f /\ o[2] \in MappingConfigs /\ f \in Families
    BY <1>2, <1>3, <2>1 DEF AreOptions
  <2> DEFINE g == models[f]
             m == mappings.family[f][o[2]]
             p == o[3]
             n == UnderPolicy(g, p)
             l == Linked(m, n)
  <2>3. IsModel(g, f)
    BY <1>0 DEF ModelsAreTyped
  <2>4. IsMapping(m, g)
    BY <1>0, <2>2 DEF MappingsAreBuilt
  <2>5. model(o) = n /\ linked(o) = l
    BY <2>2
  <2> HIDE DEF g, m, p
  <2>6. /\ n.labels = g.labels /\ n.id = g.id
        /\ PairIsValid(n, l) <=> ObservedClusters(g) = Fingerprints(g)
        /\ \A x \in ObservedClusters(g) :
             l.entries[x] # 0 => SupportedBy(n, x, l.entries[x])
    BY <2>2, <2>3, <2>4, LinkedMapping
  <2> HIDE DEF n, l, model, linked
  <2>7. Fingerprints(n) = Fingerprints(g)
    BY <2>6 DEF Fingerprints
  <2>8. models[o[1]] = g
    BY <2>2 DEF g
  <2> QED
    BY <2>1, <2>2, <2>5, <2>6, <2>7, <2>8
<1> HIDE DEF all, model, linked
<1>6. ModelsAreTyped' /\ RowsAreTyped'
  BY <1>0 DEF ModelsAreTyped, IsModel, Model, RowsAreTyped
<1>7. CASE /\ stage' = "aborted"
           /\ \E o \in all : ~PairIsValid(model(o), linked(o))
  <2>1. PICK f \in DOMAIN models : ObservedClusters(models[f]) # Fingerprints(models[f])
    BY <1>5, <1>7
  <2>2. UnobservedCluster
    BY <1>0, <2>1, NotObserved
  <2>3. UnobservedCluster'
    BY <1>0, <2>2 DEF UnobservedCluster
  <2> QED
    BY <1>6, <1>7, <2>3 DEF WeeklyInv, FrozenPairsAreSound
<1>8. CASE /\ stage' = "frozen"
           /\ \A o \in all : PairIsValid(model(o), linked(o))
           /\ \E score \in [all -> 0..1] :
               LET winner == [f \in DOMAIN models |-> BestOption(Options(f), score)]
                   overall == BestOption(Range(winner), score)
               IN  frozen' = [family |-> overall[1],
                              pair |-> [f \in DOMAIN models |-> [model |-> model(winner[f]),
                                                                 mapping |-> linked(winner[f])]],
                              margin |-> {score[o] - score[overall] : o \in all}]
  <2>1. PICK score \in [all -> 0..1] :
          LET winner == [f \in DOMAIN models |-> BestOption(Options(f), score)]
              overall == BestOption(Range(winner), score)
          IN  frozen' = [family |-> overall[1],
                         pair |-> [f \in DOMAIN models |-> [model |-> model(winner[f]),
                                                            mapping |-> linked(winner[f])]],
                         margin |-> {score[o] - score[overall] : o \in all}]
    BY <1>8
  <2> DEFINE winner == [f \in DOMAIN models |-> BestOption(Options(f), score)]
             R == Range(winner)
             overall == BestOption(R, score)
  <2>2. /\ frozen'.pair = [f \in DOMAIN models |-> [model |-> model(winner[f]),
                                                    mapping |-> linked(winner[f])]]
        /\ frozen'.margin = {score[o] - score[overall] : o \in all}
    BY <2>1
  <2>3. \A o \in all : score[o] \in Int
    OBVIOUS
  <2>4. \A f \in DOMAIN models : /\ winner[f] \in Options(f)
                                 /\ \A q \in Options(f) : score[q] <= score[winner[f]]
    <3>1. SUFFICES ASSUME NEW f \in DOMAIN models
                   PROVE  /\ BestOption(Options(f), score) \in Options(f)
                          /\ \A q \in Options(f) : score[q] <= score[BestOption(Options(f), score)]
      OBVIOUS
    <3> DEFINE S == Options(f)
    <3>2. IsFiniteSet(S) /\ S # {} /\ AreOptions(S) /\ \A o \in S : score[o] \in Int
      BY <1>3, <2>3
    <3> HIDE DEF S
    <3>3. BestOption(S, score) \in S /\ \A q \in S : score[q] <= score[BestOption(S, score)]
      BY <3>2, BestIsBest
    <3> QED
      BY <3>3 DEF S
  <2>5. R = {winner[f] : f \in DOMAIN models}
    BY DEF Range
  <2> HIDE DEF winner
  <2>6. \A o \in R : o \in all /\ \E f \in DOMAIN models : o \in Options(f)
    BY <1>3, <2>4, <2>5
  <2>7. IsFiniteSet(R)
    <3>1. IsFiniteSet(Families)
      <4>1. IsFiniteSet({"kmeans"})
        BY FS_Singleton
      <4>2. IsFiniteSet({"kmeans"} \union {"gmm"})
        BY <4>1, FS_AddElement
      <4>3. Families = {"kmeans"} \union {"gmm"}
        BY DEF Families
      <4> QED
        BY <4>2, <4>3
    <3>2. IsFiniteSet(DOMAIN models)
      BY <1>2, <3>1, FS_Subset
    <3> DEFINE D == DOMAIN models
               g == [f \in D |-> winner[f]]
    <3>3. g \in Surjection(D, R)
      BY <2>5 DEF Surjection
    <3> HIDE DEF D, g, R
    <3> QED
      BY <3>2, <3>3, FS_Surjection DEF D
  <2>8. AreOptions(R)
    BY <1>3, <2>6 DEF AreOptions
  <2> HIDE DEF R
  <2>9. R # {} => overall \in R /\ \A q \in R : score[q] <= score[overall]
    BY <2>3, <2>6, <2>7, <2>8, BestIsBest
  <2> HIDE DEF overall
  <2>10. ASSUME NEW o \in all PROVE score[o] - score[overall] <= 0
    <3>1. PICK f \in DOMAIN models : o \in Options(f)
      BY <1>4 DEF all
    <3>2. winner[f] \in R
      BY <2>5, <3>1
    <3>3. score[o] <= score[winner[f]] /\ score[winner[f]] <= score[overall] /\ overall \in R
      BY <2>4, <2>9, <3>1, <3>2
    <3>4. score[o] \in Int /\ score[winner[f]] \in Int /\ score[overall] \in Int
      BY <2>3, <2>6, <3>2, <3>3
    <3> QED
      BY <3>3, <3>4
  <2>11. \A d \in frozen'.margin : d <= 0
    BY <2>2, <2>10
  <2>12. ASSUME NEW f \in DOMAIN models
         PROVE  LET pair == frozen'.pair[f]
                IN  /\ PairIsValid(pair.model, pair.mapping)
                    /\ pair.model.labels = models[f].labels
                    /\ \A x \in Fingerprints(pair.model) :
                         pair.mapping.entries[x] # 0 =>
                           SupportedBy(pair.model, x, pair.mapping.entries[x])
    <3> DEFINE o == winner[f]
    <3>1. o \in all /\ o[1] = f
      BY <1>3, <2>4
    <3>2. frozen'.pair[f].model = model(o) /\ frozen'.pair[f].mapping = linked(o)
      BY <2>2
    <3> HIDE DEF o
    <3>3. PairIsValid(model(o), linked(o))
      BY <1>8, <3>1
    <3>4. /\ model(o).labels = models[f].labels
          /\ ObservedClusters(models[f]) = Fingerprints(model(o))
          /\ \A x \in ObservedClusters(models[f]) :
               linked(o).entries[x] # 0 => SupportedBy(model(o), x, linked(o).entries[x])
      BY <1>5, <3>1, <3>3
    <3> QED
      BY <3>2, <3>3, <3>4
  <2>13. ASSUME NEW f \in DOMAIN models
         PROVE  /\ IsSoundPair(frozen.pair[f].model, frozen.pair[f].mapping)'
                /\ frozen'.pair[f].model.labels = models'[f].labels
    <3>1. PICK n, l : n = frozen'.pair[f].model /\ l = frozen'.pair[f].mapping
      OBVIOUS
    <3>2. IsSoundPair(n, l) /\ n.labels = models[f].labels
      BY <2>12, <3>1 DEF IsSoundPair
    <3>3. IsSoundPair(n, l)'
      BY <1>0, <3>2, PairKept
    <3> QED
      BY <1>0, <3>1, <3>2, <3>3
  <2>14. MappingsAreBuilt'
    BY <1>0, MappingsKept
  <2>15. (mappings.trainSelected # 0 => SupportedBy(Together, <<0, 1>>, mappings.trainSelected))'
    BY <2>14 DEF MappingsAreBuilt
  <2>16. FrozenPairsAreSound'
    BY <1>0, <1>8, <2>11, <2>13, <2>15 DEF FrozenPairsAreSound, IsSoundPair
  <2> QED
    BY <1>6, <1>8, <2>14, <2>16 DEF WeeklyInv
<1> QED
  BY <1>1, <1>7, <1>8

LEMMA WeeklyStutters ==
    ASSUME WeeklyInv, UNCHANGED weeklyVars
    PROVE  WeeklyInv'
<1>1. stage' = stage /\ models' = models /\ rows' = rows /\ mappings' = mappings /\ frozen' = frozen
  BY DEF weeklyVars
<1>2. ModelsAreTyped' /\ RowsAreTyped'
  BY <1>1 DEF WeeklyInv, ModelsAreTyped, IsModel, Model, RowsAreTyped
<1>3. stage \in {"validation", "frozen"} => MappingsAreBuilt'
  BY <1>1, MappingsKept DEF WeeklyInv
<1>4. stage = "aborted" => UnobservedCluster'
  BY <1>1 DEF WeeklyInv, FrozenPairsAreSound, UnobservedCluster
<1>5. ASSUME stage = "frozen", NEW f \in DOMAIN models
      PROVE  /\ IsSoundPair(frozen.pair[f].model, frozen.pair[f].mapping)'
             /\ frozen'.pair[f].model.labels = models'[f].labels
  <2>1. PICK n, l : n = frozen.pair[f].model /\ l = frozen.pair[f].mapping
    OBVIOUS
  <2>2. IsSoundPair(n, l) /\ n.labels = models[f].labels
    BY <1>5, <2>1 DEF WeeklyInv, FrozenPairsAreSound, IsSoundPair
  <2>3. IsSoundPair(n, l)'
    BY <1>1, <2>2, PairKept
  <2> QED
    BY <1>1, <2>1, <2>2, <2>3
<1>6. stage = "frozen" =>
        /\ \A d \in frozen'.margin : d <= 0
        /\ (mappings.trainSelected # 0 => SupportedBy(Together, <<0, 1>>, mappings.trainSelected))'
  <2>1. stage = "frozen" => \A d \in frozen'.margin : d <= 0
    BY <1>1 DEF WeeklyInv, FrozenPairsAreSound
  <2>2. stage = "frozen" =>
          (mappings.trainSelected # 0 => SupportedBy(Together, <<0, 1>>, mappings.trainSelected))'
    BY <1>3 DEF MappingsAreBuilt
  <2> QED
    BY <2>1, <2>2
<1>7. FrozenPairsAreSound'
  BY <1>1, <1>4, <1>5, <1>6 DEF FrozenPairsAreSound, IsSoundPair
<1>8. stage' = "mappings" => DOMAIN rows' # {}
  BY <1>1 DEF WeeklyInv
<1> QED
  BY <1>1, <1>2, <1>3, <1>7, <1>8 DEF WeeklyInv

(* BuildStrategyMappingUseCase and _default_validate: what the weekly       *)
(* walk-forward freezes belongs to its model, covers its clusters and maps  *)
(* a cluster to a strategy only on weeks that support it, whatever the      *)
(* gates, the replays, the critical values and the scores are; and it       *)
(* breaks off only over a cluster without evidence.                         *)
THEOREM FrozenPairsStaySound == WeeklySpec => []FrozenPairsAreSound
<1>1. WeeklyInit => WeeklyInv
  BY WeeklyInitially
<1>2. WeeklyInv /\ [WeeklyNext]_weeklyVars => WeeklyInv'
  BY EvaluateKeeps, EvidenceKeeps, BuildKeeps, ValidateKeeps, WeeklyStutters DEF WeeklyNext
<1>3. WeeklyInv => FrozenPairsAreSound
  BY DEF WeeklyInv
<1> QED
  BY <1>1, <1>2, <1>3, PTL DEF WeeklySpec

-----------------------------------------------------------------------------
(* The days of a candidate in a component.                                  *)

(* What RunEvidence writes: for one candidate and day.                      *)
IsEvidence(r, c, d) ==
    /\ r.candidate = c /\ r.day = d /\ r.component = label[d]
    /\ r.available \in BOOLEAN /\ r.trades \in Seq(Int)
    /\ r.net \in Int /\ r.net > -Equity
    /\ RowIsValid(r)

(* The ledger holds evidence, and nothing else.                             *)
LedgerIsTyped ==
    /\ DOMAIN evidence \subseteq Candidates \X Observed
    /\ \A c \in Candidates, d \in Observed :
         <<c, d>> \in DOMAIN evidence => IsEvidence(evidence[<<c, d>>], c, d)

(* The folds and the label of every day.                                    *)
CalendarIsTyped ==
    /\ calendar \in {"mapping_fit", "validation", "combined"}
    /\ label \in [Observed -> Components]

(* The ledger of all candidates and days.                                   *)
LedgerIsFull ==
    /\ CalendarIsTyped
    /\ DOMAIN evidence = Candidates \X Observed
    /\ \A c \in Candidates, d \in Observed : IsEvidence(evidence[<<c, d>>], c, d)

LEMMA DaysAreFinite ==
    ASSUME CalendarIsTyped
    PROVE  IsFiniteSet(Days) /\ \A d \in Days : d \in Int
<1> DEFINE all == MappingFit \union Purge \union Validation
<1>1. IsFiniteSet(all) /\ all = 1..Cardinality(all)
  BY DailyAssumption, ProfileAssumption DEF FoldIsValid
<1>2. Cardinality(all) \in Nat
  BY <1>1, FS_CardinalityType
<1>3. Days \subseteq all
  BY DEF Days, CalendarDays, CalendarIsTyped
<1> HIDE DEF all
<1>4. \A d \in all : d \in Int
  BY <1>1, <1>2
<1>5. IsFiniteSet(Days)
  BY <1>1, <1>3, FS_Subset
<1> QED
  BY <1>3, <1>4, <1>5

LEMMA DaysOfAreObserved ==
    ASSUME NEW x
    PROVE  DaysOf(x) \subseteq Observed /\ Observed \subseteq Days
BY DEF DaysOf, Observed

LEMMA AvailableAreListed ==
    ASSUME CalendarIsTyped, NEW x, NEW c
    PROVE  Lists(InOrder(AvailableDays(x, c)), AvailableDays(x, c))
<1> DEFINE S == AvailableDays(x, c)
<1>1. IsFiniteSet(Days) /\ \A d \in Days : d \in Int
  BY DaysAreFinite
<1>2. S \subseteq Days
  BY DaysOfAreObserved DEF AvailableDays
<1> HIDE DEF S
<1>3. IsFiniteSet(S) /\ \A d \in S : d \in Int
  BY <1>1, <1>2, FS_Subset
<1>4. Lists(InOrder(S), S)
  BY <1>3, SetsAreListed
<1> QED
  BY <1>4 DEF S

(* The rows of the available days, one by one.                              *)
LEMMA RowsAreOfDays ==
    ASSUME LedgerIsFull, NEW x, NEW c \in Candidates
    PROVE  LET n == Cardinality(AvailableDays(x, c))
               rs == AvailableRows(x, c)
           IN  /\ n \in Nat /\ DOMAIN rs = 1..n /\ rs = [i \in 1..n |-> rs[i]]
               /\ \A i \in 1..n : \E d \in AvailableDays(x, c) :
                    rs[i] = evidence[<<c, d>>] /\ IsEvidence(rs[i], c, d)
               /\ \A d \in AvailableDays(x, c) : \E i \in 1..n :
                    rs[i] = evidence[<<c, d>>] /\ rs[i].day = d
<1> DEFINE S == AvailableDays(x, c)
           days == InOrder(S)
           n == Cardinality(S)
           rs == AvailableRows(x, c)
<1>1. Lists(days, S)
  BY AvailableAreListed DEF LedgerIsFull
<1>2. S \subseteq Observed
  BY DaysOfAreObserved DEF AvailableDays
<1>3. rs = [i \in DOMAIN days |-> evidence[<<c, days[i]>>]]
  BY DEF AvailableRows
<1> HIDE DEF S, days, rs
<1>4. n \in Nat /\ Len(days) = n /\ DOMAIN days = 1..n
  BY <1>1, FS_CardinalityType DEF Lists
<1>5. /\ \A i \in 1..n : days[i] \in S
      /\ \A d \in S : \E i \in 1..n : days[i] = d
  BY <1>1, <1>4 DEF Lists
<1> HIDE DEF n
<1>6. rs = [i \in 1..n |-> evidence[<<c, days[i]>>]]
  BY <1>3, <1>4
<1>7. DOMAIN rs = 1..n /\ rs = [i \in 1..n |-> rs[i]]
  BY <1>6
<1>8. \A d \in S : IsEvidence(evidence[<<c, d>>], c, d)
  BY <1>2 DEF LedgerIsFull
<1>9. ASSUME NEW i \in 1..n
      PROVE  \E d \in S : rs[i] = evidence[<<c, d>>] /\ IsEvidence(rs[i], c, d)
  <2>1. rs[i] = evidence[<<c, days[i]>>] /\ days[i] \in S
    BY <1>5, <1>6
  <2>2. IsEvidence(rs[i], c, days[i])
    BY <1>8, <2>1
  <2> QED
    BY <2>1, <2>2
<1>10. ASSUME NEW d \in S
       PROVE  \E i \in 1..n : rs[i] = evidence[<<c, d>>] /\ rs[i].day = d
  <2>1. PICK i \in 1..n : days[i] = d
    BY <1>5
  <2>2. rs[i] = evidence[<<c, d>>]
    BY <1>6, <2>1
  <2>3. IsEvidence(rs[i], c, d)
    BY <1>8, <2>2
  <2>4. rs[i].day = d
    BY <2>3 DEF IsEvidence
  <2> QED
    BY <2>2, <2>4
<1> QED
  BY <1>4, <1>7, <1>9, <1>10 DEF S, n, rs

LEMMA ReturnsOfDays ==
    ASSUME LedgerIsFull, NEW x, NEW c \in Candidates
    PROVE  /\ AreReturns(Returns(x, c)) /\ Len(Returns(x, c)) = Cardinality(AvailableDays(x, c))
           /\ DOMAIN Returns(x, c) = 1..Len(Returns(x, c))
           /\ \A i \in DOMAIN Returns(x, c) : \E d \in AvailableDays(x, c) :
                Returns(x, c)[i] = evidence[<<c, d>>].net
<1> DEFINE n == Cardinality(AvailableDays(x, c))
           rs == AvailableRows(x, c)
           r == Returns(x, c)
<1>1. n \in Nat /\ DOMAIN rs = 1..n
  BY RowsAreOfDays
<1>2. \A i \in 1..n : \E d \in AvailableDays(x, c) :
        rs[i] = evidence[<<c, d>>] /\ IsEvidence(rs[i], c, d)
  BY RowsAreOfDays
<1>3. r = [i \in 1..n |-> rs[i].net]
  BY <1>1 DEF Returns
<1> HIDE DEF n, rs, r
<1>4. \A i \in 1..n : rs[i].net \in Int /\ rs[i].net > -Equity
  BY <1>2 DEF IsEvidence
<1>5. r \in [1..n -> Int]
  BY <1>3, <1>4
<1>6. r \in Seq(Int) /\ Len(r) = n /\ DOMAIN r = 1..n
  BY <1>1, <1>5
<1>7. AreReturns(r)
  BY <1>3, <1>4, <1>6 DEF AreReturns
<1>8. ASSUME NEW i \in 1..n
      PROVE  \E d \in AvailableDays(x, c) : r[i] = evidence[<<c, d>>].net
  BY <1>2, <1>3
<1> QED
  BY <1>6, <1>7, <1>8 DEF n, r

LEMMA TradesOfDays ==
    ASSUME LedgerIsFull, NEW x, NEW c \in Candidates
    PROVE  Trades(x, c) \in Seq(Int)
<1> DEFINE n == Cardinality(AvailableDays(x, c))
           rs == AvailableRows(x, c)
           V == Seq(Int)
           ss == [i \in DOMAIN rs |-> rs[i].trades]
<1>1. n \in Nat /\ DOMAIN rs = 1..n
  BY RowsAreOfDays
<1>2. \A i \in 1..n : rs[i].trades \in V
  BY RowsAreOfDays DEF IsEvidence
<1>3. Trades(x, c) = FlattenSeq(ss)
  BY DEF Trades
<1> HIDE DEF n, rs, V
<1>4. ss \in [1..n -> V]
  BY <1>1, <1>2
<1> HIDE DEF ss
<1>5. ss \in Seq(V)
  BY <1>1, <1>4
<1>6. FlattenSeq(ss) \in Seq(Int)
  BY <1>5, FlattenedIsTyped DEF V
<1> QED
  BY <1>3, <1>6

LEMMA MonthsOfDays ==
    ASSUME LedgerIsFull, NEW x, NEW c \in Candidates
    PROVE  /\ Months(x, c) = {MonthOf[d] : d \in AvailableDays(x, c)}
           /\ IsFiniteSet(Months(x, c))
<1> DEFINE S == AvailableDays(x, c)
           n == Cardinality(S)
           rs == AvailableRows(x, c)
           M == {MonthOf[d] : d \in S}
<1>1. DOMAIN rs = 1..n
  BY RowsAreOfDays
<1>2. \A i \in 1..n : \E d \in S : IsEvidence(rs[i], c, d)
  BY RowsAreOfDays
<1>3. \A d \in S : \E i \in 1..n : rs[i] = evidence[<<c, d>>] /\ rs[i].day = d
  BY RowsAreOfDays
<1>4. Months(x, c) = {MonthOf[r.day] : r \in Range(rs)} /\ Range(rs) = {rs[i] : i \in DOMAIN rs}
  BY DEF Months, Range
<1>5. IsFiniteSet(S)
  BY AvailableAreListed DEF Lists, LedgerIsFull
<1> HIDE DEF S, n, rs
<1>6. ASSUME NEW m \in Months(x, c) PROVE m \in M
  <2>1. PICK i \in 1..n : m = MonthOf[rs[i].day]
    BY <1>1, <1>4
  <2> QED
    <3>1. PICK d \in S : IsEvidence(rs[i], c, d)
      BY <1>2
    <3>2. rs[i].day = d
      BY <3>1 DEF IsEvidence
    <3> QED
      BY <2>1, <3>2
<1> HIDE DEF M
<1>7. ASSUME NEW m \in M PROVE m \in Months(x, c)
  <2>1. PICK d \in S : m = MonthOf[d]
    BY DEF M
  <2>2. PICK i \in 1..n : rs[i].day = d
    BY <1>3, <2>1
  <2> QED
    BY <1>1, <1>4, <2>1, <2>2
<1>8. Months(x, c) = M
  BY <1>6, <1>7
<1>9. IsFiniteSet(M)
  <2> DEFINE f == [d \in S |-> MonthOf[d]]
  <2>1. f \in Surjection(S, M)
    BY DEF Surjection, M
  <2> HIDE DEF f
  <2> QED
    BY <1>5, <2>1, FS_Surjection
<1> QED
  BY <1>8, <1>9 DEF S, M

(* No more episodes than days.                                              *)
LEMMA EpisodesAreDays ==
    ASSUME LedgerIsFull, NEW x, NEW c \in Candidates
    PROVE  Len(Returns(x, c)) <= Cardinality(DaysOf(x))
<1>1. IsFiniteSet(Days)
  BY DaysAreFinite DEF LedgerIsFull
<1>2. IsFiniteSet(DaysOf(x))
  BY <1>1, DaysOfAreObserved, FS_Subset
<1>3. AvailableDays(x, c) \subseteq DaysOf(x)
  BY DEF AvailableDays
<1>4. Cardinality(AvailableDays(x, c)) <= Cardinality(DaysOf(x))
  BY <1>2, <1>3, FS_Subset
<1> QED
  BY <1>4, ReturnsOfDays

(* The days from which BlockDays days without purge or missing evidence     *)
(* follow, and what the candidate made on them.                             *)
HasWorth(x, c, d) == d \in Observed /\ (d \in DaysOf(x) => evidence[<<c, d>>].available)
Worth(x, c, d) == IF d \in DaysOf(x) THEN evidence[<<c, d>>].net ELSE 0
Starts(x, c) == {d \in Days : \A k \in 0..(BlockDays - 1) : HasWorth(x, c, d + k)}
BlockFrom(x, c, w) == [k \in 1..BlockDays |-> Worth(x, c, w + k - 1)]

(* Day by day, the aligned return is what the candidate made.               *)
LEMMA AlignedIsWorth ==
    ASSUME NEW x, NEW c, NEW d
    PROVE  /\ (d \in Days /\ Aligned(x, c, d) # <<>>) <=> HasWorth(x, c, d)
           /\ HasWorth(x, c, d) => Aligned(x, c, d)[1] = Worth(x, c, d)
<1>1. HasWorth(x, c, d) <=> d \in Days /\ d \notin Purge /\ (d \in DaysOf(x) => evidence[<<c, d>>].available)
  BY DEF HasWorth, Observed
<1> DEFINE e == evidence[<<c, d>>]
           D == DaysOf(x)
<1>2. Aligned(x, c, d) = IF d \in Purge THEN <<>> ELSE IF d \notin D THEN <<0>>
                         ELSE IF e.available THEN <<e.net>> ELSE <<>>
  BY DEF Aligned
<1>3. Worth(x, c, d) = IF d \in D THEN e.net ELSE 0
  BY DEF Worth
<1>4. HasWorth(x, c, d) <=> d \in Days /\ d \notin Purge /\ (d \in D => e.available)
  BY <1>1
<1> HIDE DEF e, D
<1>5. \A v : <<v>> # <<>> /\ <<v>>[1] = v
  OBVIOUS
<1> QED
  BY <1>2, <1>3, <1>4, <1>5

(* The blocks are those of the days from which a whole block follows.       *)
LEMMA BlocksAreFromStarts ==
    ASSUME CalendarIsTyped, NEW x, NEW c
    PROVE  Blocks(x, c) = {BlockFrom(x, c, w) : w \in Starts(x, c)}
<1> DEFINE K == 0..(BlockDays - 1)
           starts == {d \in Days : \A k \in K : d + k \in Days /\ Aligned(x, c, d + k) # <<>>}
           block(s) == [k \in 1..BlockDays |-> Aligned(x, c, s + k - 1)[1]]
<1>1. Blocks(x, c) = {block(s) : s \in starts}
  BY DEF Blocks
<1>2. starts = Starts(x, c)
  <2>1. \A d, k : (d + k \in Days /\ Aligned(x, c, d + k) # <<>>) <=> HasWorth(x, c, d + k)
    BY AlignedIsWorth
  <2> QED
    BY <2>1 DEF Starts
<1>3. ASSUME NEW s \in Starts(x, c), s \in Int PROVE block(s) = BlockFrom(x, c, s)
  <2>1. ASSUME NEW k \in 1..BlockDays PROVE Aligned(x, c, s + k - 1)[1] = Worth(x, c, s + k - 1)
    <3> DEFINE d == s + k - 1
    <3>0. BlockDays \in Nat \ {0}
      BY DailyAssumption
    <3>1. k - 1 \in 0..(BlockDays - 1) /\ s + (k - 1) = d
      BY <1>3, <3>0
    <3> HIDE DEF d
    <3>2. HasWorth(x, c, d)
      BY <3>1 DEF Starts
    <3>3. Aligned(x, c, d)[1] = Worth(x, c, d)
      BY <3>2, AlignedIsWorth
    <3> QED
      BY <3>3 DEF d
  <2> QED
    BY <2>1 DEF BlockFrom
<1>4. \A s \in Starts(x, c) : block(s) = BlockFrom(x, c, s)
  <2>1. \A s \in Starts(x, c) : s \in Int
    BY DaysAreFinite DEF Starts
  <2> QED
    BY <1>3, <2>1
<1> HIDE DEF block, starts
<1> QED
  BY <1>1, <1>2, <1>4

LEMMA BlocksAreReturns ==
    ASSUME LedgerIsFull, NEW x, NEW c \in Candidates
    PROVE  /\ IsFiniteSet(Blocks(x, c))
           /\ \A b \in Blocks(x, c) : AreReturns(b)
           /\ Blocks(x, c) = {BlockFrom(x, c, w) : w \in Starts(x, c)}
<1>1. Blocks(x, c) = {BlockFrom(x, c, w) : w \in Starts(x, c)}
  BY BlocksAreFromStarts DEF LedgerIsFull
<1>2. BlockDays \in Nat \ {0} /\ Equity \in Nat \ {0}
  BY DailyAssumption, StatisticsAssumption
<1>3. \A d : HasWorth(x, c, d) => Worth(x, c, d) \in Int /\ Worth(x, c, d) > -Equity
  <2>1. SUFFICES ASSUME NEW d, HasWorth(x, c, d)
                 PROVE  Worth(x, c, d) \in Int /\ Worth(x, c, d) > -Equity
    OBVIOUS
  <2>2. IsEvidence(evidence[<<c, d>>], c, d)
    BY <2>1 DEF HasWorth, LedgerIsFull
  <2>3. evidence[<<c, d>>].net \in Int /\ evidence[<<c, d>>].net > -Equity
    BY <2>2 DEF IsEvidence
  <2>4. Worth(x, c, d) = evidence[<<c, d>>].net \/ Worth(x, c, d) = 0
    BY DEF Worth
  <2> QED
    BY <1>2, <2>3, <2>4
<1>4. ASSUME NEW w \in Starts(x, c) PROVE AreReturns(BlockFrom(x, c, w))
  <2>1. w \in Int
    BY DaysAreFinite DEF Starts, LedgerIsFull
  <2> DEFINE b == BlockFrom(x, c, w)
  <2>2. ASSUME NEW k \in 1..BlockDays
        PROVE  Worth(x, c, w + k - 1) \in Int /\ Worth(x, c, w + k - 1) > -Equity
    <3> DEFINE d == w + k - 1
    <3>1. k - 1 \in 0..(BlockDays - 1) /\ w + (k - 1) = d
      BY <1>2, <2>1
    <3> HIDE DEF d
    <3>2. HasWorth(x, c, d)
      BY <3>1 DEF Starts
    <3> QED
      BY <1>3, <3>2 DEF d
  <2>3. b = [k \in 1..BlockDays |-> Worth(x, c, w + k - 1)]
    BY DEF BlockFrom
  <2> HIDE DEF b
  <2>4. b \in [1..BlockDays -> Int] /\ \A k \in 1..BlockDays : b[k] > -Equity
    BY <2>2, <2>3
  <2>5. b \in Seq(Int) /\ Len(b) = BlockDays
    BY <1>2, <2>4
  <2> QED
    BY <2>4, <2>5 DEF AreReturns, b
<1>5. IsFiniteSet(Starts(x, c))
  <2>1. IsFiniteSet(Days)
    BY DaysAreFinite DEF LedgerIsFull
  <2> QED
    BY <2>1, FS_Subset DEF Starts
<1> DEFINE S == Starts(x, c)
           f == [w \in S |-> BlockFrom(x, c, w)]
           B == Blocks(x, c)
<1>6. B = {BlockFrom(x, c, w) : w \in S} /\ IsFiniteSet(S) /\ \A w \in S : AreReturns(BlockFrom(x, c, w))
  BY <1>1, <1>4, <1>5
<1> HIDE DEF S, B
<1>7. f \in Surjection(S, B)
  BY <1>6 DEF Surjection
<1>8. IsFiniteSet(B)
  <2> HIDE DEF f
  <2> QED
    BY <1>6, <1>7, FS_Surjection
<1>9. \A b \in B : AreReturns(b)
  BY <1>6
<1> QED
  BY <1>1, <1>8, <1>9 DEF B

(* The worst block is the least of finitely many ratios.                    *)
LEMMA WorstIsLeast ==
    ASSUME LedgerIsFull, NEW x, NEW c \in Candidates, Blocks(x, c) # {}
    PROVE  IsLeastRatio({Compound(b) : b \in Blocks(x, c)}, Least({Compound(b) : b \in Blocks(x, c)}))
           /\ IsRatio(Least({Compound(b) : b \in Blocks(x, c)}))
<1> DEFINE B == Blocks(x, c)
           S == {Compound(b) : b \in B}
           f == [b \in B |-> Compound(b)]
<1>1. IsFiniteSet(B) /\ \A b \in B : AreReturns(b)
  BY BlocksAreReturns
<1>2. B # {}
  OBVIOUS
<1> HIDE DEF B
<1>3. f \in Surjection(B, S)
  BY DEF Surjection
<1>4. S # {} /\ \A a \in S : IsRatio(a)
  BY <1>1, <1>2, CompoundIsRatio
<1> HIDE DEF f, S
<1>5. IsFiniteSet(S)
  BY <1>1, <1>3, FS_Surjection
<1>6. IsLeastRatio(S, Least(S))
  BY <1>4, <1>5, LeastIsLeast
<1>7. IsRatio(Least(S))
  BY <1>4, <1>6 DEF IsLeastRatio
<1> QED
  BY <1>6, <1>7 DEF S, B

IsDraw(draw) == draw \in [Bootstrapped -> Bounds]

LEMMA LowerBoundIsRatio ==
    ASSUME LedgerIsFull, NEW x \in Components \union {Global}, NEW c \in Candidates,
           NEW draw, IsDraw(draw)
    PROVE  IsRatio(LowerBound(x, c, draw))
<1>1. NeedsBootstrap(x, c) => draw[c] \in Int
  <2>1. NeedsBootstrap(x, c) => c \in Bootstrapped
    BY DEF Bootstrapped
  <2>2. \A k \in Bootstrapped : draw[k] \in Bounds
    BY DEF IsDraw
  <2>3. Bounds \subseteq Int
    BY DailyAssumption
  <2> QED
    BY <2>1, <2>2, <2>3
<1>2. Equity \in Nat \ {0}
  BY StatisticsAssumption
<1>3. NeedsBootstrap(x, c) => IsRatio(<<draw[c], Equity>>)
  BY <1>1, <1>2 DEF IsRatio
<1>4. IsRatio(Mean(Returns(x, c)))
  <2>1. Returns(x, c) \in Seq(Int)
    BY ReturnsOfDays DEF AreReturns
  <2> QED
    BY <2>1, MeanIsRatio
<1>5. IsRatio(Zero)
  BY DEF IsRatio, Zero
<1> QED
  BY <1>3, <1>4, <1>5 DEF LowerBound

-----------------------------------------------------------------------------
(* What the statistics of a candidate are                                   *)

AreMetrics(m) ==
    /\ IsRatio(m.bound) /\ IsRatio(m.withoutBest) /\ IsRatio(m.shortfall)
    /\ IsRatio(m.median) /\ IsRatio(m.worst)
    /\ IsShare(m.drawdown) /\ IsShare(m.topEpisode) /\ IsShare(m.topTrades)
    /\ m.candidate \in Nat \ {0} /\ m.episodes <= m.assigned

(* Every statistic of a candidate is a number, a ratio or a share.          *)
LEMMA MetricsAreTyped ==
    ASSUME LedgerIsFull, NEW x, NEW c \in Candidates, NEW bound, IsRatio(bound)
    PROVE  AreMetrics(Metrics(x, c, bound)) /\ Metrics(x, c, bound).candidate = c
<1> DEFINE r == Returns(x, c)
           t == Trades(x, c)
           blocks == Blocks(x, c)
           worst == IF blocks = {} THEN Zero ELSE Least({Compound(b) : b \in blocks})
           m == Metrics(x, c, bound)
<1>1. AreReturns(r) /\ r \in Seq(Int)
  BY ReturnsOfDays DEF AreReturns
<1>2. t \in Seq(Int)
  BY TradesOfDays
<1>3. IsRatio(worst)
  <2>1. IsRatio(Zero)
    BY DEF IsRatio, Zero
  <2> QED
    BY <2>1, WorstIsLeast
<1>4. Len(r) <= Cardinality(DaysOf(x))
  BY EpisodesAreDays
<1>5. /\ m.candidate = c /\ m.bound = bound /\ m.worst = worst
      /\ m.assigned = Cardinality(DaysOf(x)) /\ m.episodes = Len(r)
      /\ m.median = Median(r) /\ m.shortfall = ExpectedShortfall(r)
      /\ m.drawdown = MaximumDrawdown(r) /\ m.withoutBest = Compound(WithoutBest(r))
      /\ m.topEpisode = TopShare(r, 1) /\ m.topTrades = TopShare(t, TopTrades)
  BY DEF Metrics
<1> HIDE DEF r, t, blocks, worst, m
<1>6. IsRatio(m.median) /\ IsRatio(m.shortfall)
  BY <1>1, <1>5, MedianIsRatio, ShortfallIsRatio
<1>7. IsRatio(m.withoutBest)
  BY <1>1, <1>5, WithoutBestAreReturns, CompoundIsRatio
<1>8. IsShare(m.drawdown) /\ IsShare(m.topEpisode) /\ IsShare(m.topTrades)
  BY <1>1, <1>2, <1>5, DrawdownIsShare, TopShareIsShare
<1>9. c \in Nat \ {0}
  BY DailyAssumption
<1>10. m.episodes <= m.assigned
  BY <1>4, <1>5
<1> QED
  BY <1>3, <1>5, <1>6, <1>7, <1>8, <1>9, <1>10 DEF AreMetrics, m

-----------------------------------------------------------------------------
(* The winner of the eligible                                               *)

(* Statistics of different candidates.                                      *)
IsField(S) ==
    /\ IsFiniteSet(S) /\ \A m \in S : AreMetrics(m)
    /\ \A m, o \in S : m.candidate = o.candidate => m = o

LEMMA KeyOfWinner ==
    ASSUME NEW m, AreMetrics(m)
    PROVE  IsKey(WinnerKey(m), 6) /\ WinnerKey(m)[6] = <<m.candidate, 1>>
<1> DEFINE r1 == <<-m.bound[1], m.bound[2]>>
           r2 == <<-m.withoutBest[1], m.withoutBest[2]>>
           r3 == <<-m.shortfall[1], m.shortfall[2]>>
           r4 == m.drawdown
           r5 == <<-m.median[1], m.median[2]>>
           r6 == <<m.candidate, 1>>
<1>1. IsRatio(r1) /\ IsRatio(r2) /\ IsRatio(r3) /\ IsRatio(r5)
  BY DEF AreMetrics, IsRatio
<1>2. IsRatio(r4) /\ IsRatio(r6)
  BY DEF AreMetrics, IsRatio, IsShare
<1>3. WinnerKey(m) = <<r1, r2, r3, r4, r5, r6>>
  BY DEF WinnerKey
<1> HIDE DEF r1, r2, r3, r4, r5, r6
<1>4. IsKey(WinnerKey(m), 6)
  BY <1>1, <1>2, <1>3 DEF IsKey
<1>5. WinnerKey(m)[6] = r6
  BY <1>3
<1> QED
  BY <1>4, <1>5 DEF r6

(* Keys of different candidates differ, so the first of them is unique.     *)
LEMMA WinnerIsFirst ==
    ASSUME NEW S, IsField(S), S # {}
    PROVE  /\ Winner(S) \in S /\ Winner(S).candidate \in Nat \ {0}
           /\ \A o \in S \ {Winner(S)} : Precedes(WinnerKey(Winner(S)), WinnerKey(o))
<1> DEFINE key == [m \in S |-> WinnerKey(m)]
<1>1. \A m \in S : AreMetrics(m) /\ m.candidate \in Nat
  BY DEF IsField, AreMetrics
<1>2. \A m \in S : key[m] = WinnerKey(m)
  OBVIOUS
<1> HIDE DEF key
<1>3. \A m \in S : IsKey(key[m], 6) /\ key[m][6] = <<m.candidate, 1>>
  BY <1>1, <1>2, KeyOfWinner
<1>4. \A m, o \in S : m # o => ~Ties(key[m], key[o], 6)
  <2>1. SUFFICES ASSUME NEW m \in S, NEW o \in S, Ties(key[m], key[o], 6) PROVE m = o
    OBVIOUS
  <2>2. Equal(<<m.candidate, 1>>, <<o.candidate, 1>>)
    BY <1>3, <2>1 DEF Ties
  <2>3. m.candidate = o.candidate
    BY <1>1, <2>2 DEF Equal
  <2> QED
    BY <2>3 DEF IsField
<1>5. IsFiniteSet(S)
  BY DEF IsField
<1>6. \E a \in S : \A b \in S \ {a} : Precedes(key[a], key[b])
  BY <1>3, <1>4, <1>5, FirstExists
<1>7. \E a \in S : \A b \in S \ {a} : Precedes(WinnerKey(a), WinnerKey(b))
  BY <1>2, <1>6
<1>8. Winner(S) \in S /\ \A o \in S \ {Winner(S)} : Precedes(WinnerKey(Winner(S)), WinnerKey(o))
  BY <1>7 DEF Winner
<1>9. Winner(S).candidate \in Nat \ {0}
  BY <1>1, <1>8 DEF AreMetrics
<1> QED
  BY <1>8, <1>9

(* Every one of S has one with the same candidate and key in T.             *)
IsMatched(S, T) == \A m \in S : \E o \in T : o.candidate = m.candidate /\ WinnerKey(o) = WinnerKey(m)

(* Sets with the same keys have the same winner.                            *)
LEMMA SameWinner ==
    ASSUME NEW S, NEW T, IsField(S), IsField(T), S # {}, T # {}, IsMatched(S, T), IsMatched(T, S)
    PROVE  Winner(S).candidate = Winner(T).candidate
<1>1. SUFFICES ASSUME Winner(S).candidate # Winner(T).candidate PROVE FALSE
  OBVIOUS
<1>2. PICK a : a = Winner(S)
  OBVIOUS
<1>3. PICK b : b = Winner(T)
  OBVIOUS
<1>4. a \in S /\ \A o \in S \ {a} : Precedes(WinnerKey(a), WinnerKey(o))
  BY <1>2, WinnerIsFirst
<1>5. b \in T /\ \A o \in T \ {b} : Precedes(WinnerKey(b), WinnerKey(o))
  BY <1>3, WinnerIsFirst
<1>6. a.candidate # b.candidate
  BY <1>1, <1>2, <1>3
<1>7. PICK o \in T : o.candidate = a.candidate /\ WinnerKey(o) = WinnerKey(a)
  BY <1>4 DEF IsMatched
<1>8. PICK m \in S : m.candidate = b.candidate /\ WinnerKey(m) = WinnerKey(b)
  BY <1>5 DEF IsMatched
<1>9. o # b /\ m # a
  BY <1>6, <1>7, <1>8
<1>10. Precedes(WinnerKey(b), WinnerKey(a)) /\ Precedes(WinnerKey(a), WinnerKey(b))
  BY <1>4, <1>5, <1>7, <1>8, <1>9
<1>11. AreMetrics(a) /\ AreMetrics(b)
  BY <1>4, <1>5 DEF IsField
<1>12. IsKey(WinnerKey(a), 6) /\ IsKey(WinnerKey(b), 6)
  BY <1>11, KeyOfWinner
<1> QED
  BY <1>10, <1>12, KeysAreOrdered

-----------------------------------------------------------------------------
(* The reasons against a candidate: those of the risk limits and the others *)

OtherReasons(m) ==
    UNION {
        Named(m.episodes < MinEpisodes, "insufficient_daily_episodes"),
        Named(m.months < MinMonths, "insufficient_calendar_months"),
        Named(m.trades < MinTrades, "insufficient_closed_trades"),
        Named(AtMostZero(m.net), "non_positive_net_performance_after_costs"),
        Named(AtMostZero(m.bound), "non_positive_corrected_lower_bound"),
        Named(AtMostZero(m.bound), "statistically_not_better_than_cash"),
        Named(~m.complete, "insufficient_complete_seven_day_blocks"),
        Named(AtMostZero(m.withoutBest), "non_positive_return_without_best_episode"),
        Named(~m.gain, "no_positive_episode_profit"),
        Named(~m.tradeGain, "no_positive_trade_profit")}

LimitReasons(m, policy) ==
    UNION {
        Named(Less(m.worst, policy.worst), "worst_seven_day_return_below_limit"),
        Named(Less(m.shortfall, policy.shortfall), "expected_shortfall_below_limit"),
        Named(Less(policy.drawdown, m.drawdown), "maximum_drawdown_above_limit"),
        Named(Less(policy.topEpisode, m.topEpisode), "top_episode_profit_share_above_limit"),
        Named(Less(policy.topTrades, m.topTrades), "top_five_trade_profit_share_above_limit")}

(* Only the reasons of the risk limits depend on the policy.                *)
LEMMA ReasonsAreSplit ==
    ASSUME NEW m, NEW policy
    PROVE  RejectionReasons(m, policy) = OtherReasons(m) \union LimitReasons(m, policy)
<1> DEFINE N1 == Named(m.episodes < MinEpisodes, "insufficient_daily_episodes")
           N2 == Named(m.months < MinMonths, "insufficient_calendar_months")
           N3 == Named(m.trades < MinTrades, "insufficient_closed_trades")
           N4 == Named(AtMostZero(m.net), "non_positive_net_performance_after_costs")
           N5 == Named(AtMostZero(m.bound), "non_positive_corrected_lower_bound")
           N6 == Named(AtMostZero(m.bound), "statistically_not_better_than_cash")
           N7 == Named(~m.complete, "insufficient_complete_seven_day_blocks")
           N8 == Named(AtMostZero(m.withoutBest), "non_positive_return_without_best_episode")
           N9 == Named(~m.gain, "no_positive_episode_profit")
           N10 == Named(~m.tradeGain, "no_positive_trade_profit")
           L1 == Named(Less(m.worst, policy.worst), "worst_seven_day_return_below_limit")
           L2 == Named(Less(m.shortfall, policy.shortfall), "expected_shortfall_below_limit")
           L3 == Named(Less(policy.drawdown, m.drawdown), "maximum_drawdown_above_limit")
           L4 == Named(Less(policy.topEpisode, m.topEpisode), "top_episode_profit_share_above_limit")
           L5 == Named(Less(policy.topTrades, m.topTrades), "top_five_trade_profit_share_above_limit")
<1>1. RejectionReasons(m, policy) =
        UNION {N1, N2, N3, N4, N5, N6, N7, L1, L2, L3, N8, N9, L4, N10, L5}
  BY DEF RejectionReasons
<1>2. OtherReasons(m) = UNION {N1, N2, N3, N4, N5, N6, N7, N8, N9, N10}
  BY DEF OtherReasons
<1>3. LimitReasons(m, policy) = UNION {L1, L2, L3, L4, L5}
  BY DEF LimitReasons
<1> HIDE DEF N1, N2, N3, N4, N5, N6, N7, N8, N9, N10, L1, L2, L3, L4, L5
<1> QED
  BY <1>1, <1>2, <1>3

LEMMA OthersAreNotOfRisk ==
    ASSUME NEW m
    PROVE  OtherReasons(m) \intersect RiskReasons = {}
<1> DEFINE Others == {"insufficient_daily_episodes", "insufficient_calendar_months",
                      "insufficient_closed_trades", "non_positive_net_performance_after_costs",
                      "non_positive_corrected_lower_bound", "statistically_not_better_than_cash",
                      "insufficient_complete_seven_day_blocks",
                      "non_positive_return_without_best_episode",
                      "no_positive_episode_profit", "no_positive_trade_profit"}
<1>1. OtherReasons(m) \subseteq Others
  BY DEF OtherReasons, Named
<1>2. Others \intersect RiskReasons = {}
  BY DEF RiskReasons
<1> QED
  BY <1>1, <1>2

LEMMA LimitsAreOfRisk ==
    ASSUME NEW m, NEW policy
    PROVE  LimitReasons(m, policy) \subseteq RiskReasons
BY DEF LimitReasons, Named, RiskReasons

(* A finished assessment, reassessed under another policy.                  *)
LEMMA ReassessedIsBuilt ==
    ASSUME NEW a, NEW built, a.reasons = RejectionReasons(a.metrics, built), NEW policy
    PROVE  ReassessedReasons(a, policy) = RejectionReasons(a.metrics, policy)
<1> DEFINE m == a.metrics
           others == OtherReasons(m)
           limits(p) == LimitReasons(m, p)
           L1 == Named(Less(m.worst, policy.worst), "worst_seven_day_return_below_limit")
           L2 == Named(Less(m.shortfall, policy.shortfall), "expected_shortfall_below_limit")
           L3 == Named(Less(policy.drawdown, m.drawdown), "maximum_drawdown_above_limit")
           L4 == Named(Less(policy.topEpisode, m.topEpisode), "top_episode_profit_share_above_limit")
           L5 == Named(Less(policy.topTrades, m.topTrades), "top_five_trade_profit_share_above_limit")
<1>1. ReassessedReasons(a, policy) = UNION {a.reasons \ RiskReasons, L1, L2, L3, L4, L5}
  BY DEF ReassessedReasons
<1>2. limits(policy) = UNION {L1, L2, L3, L4, L5}
  BY DEF LimitReasons
<1>3. a.reasons = others \union limits(built) /\ RejectionReasons(m, policy) = others \union limits(policy)
  BY ReasonsAreSplit
<1>4. others \intersect RiskReasons = {} /\ limits(built) \subseteq RiskReasons
  BY OthersAreNotOfRisk, LimitsAreOfRisk
<1> HIDE DEF L1, L2, L3, L4, L5, others, limits
<1>5. a.reasons \ RiskReasons = others
  BY <1>3, <1>4
<1> QED
  BY <1>1, <1>2, <1>3, <1>5

IsPolicy(p) == /\ IsRatio(p.worst) /\ IsRatio(p.shortfall) /\ IsRatio(p.drawdown)
               /\ IsRatio(p.topEpisode) /\ IsRatio(p.topTrades)

IsTighter(p, q) == /\ ~Less(p.worst, q.worst) /\ ~Less(p.shortfall, q.shortfall)
                   /\ ~Less(q.drawdown, p.drawdown) /\ ~Less(q.topEpisode, p.topEpisode)
                   /\ ~Less(q.topTrades, p.topTrades)

LEMMA PoliciesAreTyped ==
    IsPolicy(StrictPolicy) /\ IsPolicy(TighterPolicy) /\ IsTighter(TighterPolicy, StrictPolicy)
<1> DEFINE ratios == Int \X (Nat \ {0})
           policies == [worst : ratios, shortfall : ratios, drawdown : ratios,
                        topEpisode : ratios, topTrades : ratios]
<1>1. /\ {StrictPolicy, TighterPolicy, LooserPolicy} \subseteq policies
      /\ \A limit \in {"worst", "shortfall"} :
           ~Less(TighterPolicy[limit], StrictPolicy[limit])
      /\ \A limit \in {"drawdown", "topEpisode", "topTrades"} :
           ~Less(StrictPolicy[limit], TighterPolicy[limit])
  BY DailyAssumption
<1>2. \A q \in ratios : IsRatio(q)
  BY DEF IsRatio
<1> HIDE DEF ratios
<1>3. IsPolicy(StrictPolicy) /\ IsPolicy(TighterPolicy)
  BY <1>1, <1>2 DEF IsPolicy
<1>4. IsTighter(TighterPolicy, StrictPolicy)
  BY <1>1 DEF IsTighter
<1> QED
  BY <1>3, <1>4

(* No reason: what each condition says.                                     *)
LEMMA NoLimitReason ==
    ASSUME NEW m, NEW p
    PROVE  LimitReasons(m, p) = {} <=>
             /\ ~Less(m.worst, p.worst) /\ ~Less(m.shortfall, p.shortfall)
             /\ ~Less(p.drawdown, m.drawdown) /\ ~Less(p.topEpisode, m.topEpisode)
             /\ ~Less(p.topTrades, m.topTrades)
<1> DEFINE L1 == Named(Less(m.worst, p.worst), "worst_seven_day_return_below_limit")
           L2 == Named(Less(m.shortfall, p.shortfall), "expected_shortfall_below_limit")
           L3 == Named(Less(p.drawdown, m.drawdown), "maximum_drawdown_above_limit")
           L4 == Named(Less(p.topEpisode, m.topEpisode), "top_episode_profit_share_above_limit")
           L5 == Named(Less(p.topTrades, m.topTrades), "top_five_trade_profit_share_above_limit")
<1>1. LimitReasons(m, p) = UNION {L1, L2, L3, L4, L5}
  BY DEF LimitReasons
<1>2. L1 = {} <=> ~Less(m.worst, p.worst)
  BY DEF Named
<1>3. L2 = {} <=> ~Less(m.shortfall, p.shortfall)
  BY DEF Named
<1>4. L3 = {} <=> ~Less(p.drawdown, m.drawdown)
  BY DEF Named
<1>5. L4 = {} <=> ~Less(p.topEpisode, m.topEpisode)
  BY DEF Named
<1>6. L5 = {} <=> ~Less(p.topTrades, m.topTrades)
  BY DEF Named
<1> HIDE DEF L1, L2, L3, L4, L5
<1>7. LimitReasons(m, p) = {} <=> L1 = {} /\ L2 = {} /\ L3 = {} /\ L4 = {} /\ L5 = {}
  BY <1>1
<1> QED
  BY <1>2, <1>3, <1>4, <1>5, <1>6, <1>7

(* What a tighter policy lets pass a looser one does too.                   *)
LEMMA TighterRejectsMore ==
    ASSUME NEW m, AreMetrics(m), NEW p, NEW q, IsPolicy(p), IsPolicy(q), IsTighter(p, q),
           RejectionReasons(m, p) = {}
    PROVE  RejectionReasons(m, q) = {}
<1>1. OtherReasons(m) = {} /\ LimitReasons(m, p) = {}
  BY ReasonsAreSplit
<1>2. /\ ~Less(m.worst, p.worst) /\ ~Less(m.shortfall, p.shortfall)
      /\ ~Less(p.drawdown, m.drawdown) /\ ~Less(p.topEpisode, m.topEpisode)
      /\ ~Less(p.topTrades, m.topTrades)
  BY <1>1, NoLimitReason
<1>3. /\ IsRatio(m.worst) /\ IsRatio(m.shortfall) /\ IsRatio(m.drawdown)
      /\ IsRatio(m.topEpisode) /\ IsRatio(m.topTrades)
  BY DEF AreMetrics, IsShare
<1>4. /\ IsRatio(p.worst) /\ IsRatio(p.shortfall) /\ IsRatio(p.drawdown)
      /\ IsRatio(p.topEpisode) /\ IsRatio(p.topTrades)
  BY DEF IsPolicy
<1>5. /\ IsRatio(q.worst) /\ IsRatio(q.shortfall) /\ IsRatio(q.drawdown)
      /\ IsRatio(q.topEpisode) /\ IsRatio(q.topTrades)
  BY DEF IsPolicy
<1>6. /\ ~Less(p.worst, q.worst) /\ ~Less(p.shortfall, q.shortfall)
      /\ ~Less(q.drawdown, p.drawdown) /\ ~Less(q.topEpisode, p.topEpisode)
      /\ ~Less(q.topTrades, p.topTrades)
  BY DEF IsTighter
<1>7. ~Less(m.worst, q.worst) /\ ~Less(m.shortfall, q.shortfall)
  BY <1>2, <1>3, <1>4, <1>5, <1>6, NotLessIsTransitive
<1>8. /\ ~Less(q.drawdown, m.drawdown) /\ ~Less(q.topEpisode, m.topEpisode)
      /\ ~Less(q.topTrades, m.topTrades)
  BY <1>2, <1>3, <1>4, <1>5, <1>6, NotLessIsTransitive
<1>9. LimitReasons(m, q) = {}
  BY <1>7, <1>8, NoLimitReason
<1> QED
  BY <1>1, <1>9, ReasonsAreSplit

-----------------------------------------------------------------------------
(* The assessments of a component                                           *)

(* The statistics of a candidate, the assessments of all, the statistics    *)
(* without a reason under a policy, and the choice among them.              *)
MetricsAt(x, c, draw) == Metrics(x, c, LowerBound(x, c, draw))
AssessedAt(x, draw) == {Assessment(x, c, LowerBound(x, c, draw), StrictPolicy) : c \in Candidates}
Passing(x, draw, policy) ==
    {m \in {MetricsAt(x, c, draw) : c \in Candidates} : RejectionReasons(m, policy) = {}}
Decided(S) == IF S = {} THEN 0 ELSE Winner(S).candidate

LEMMA MetricsAtAreTyped ==
    ASSUME LedgerIsFull, NEW x \in Components \union {Global}, NEW c \in Candidates,
           NEW draw, IsDraw(draw)
    PROVE  AreMetrics(MetricsAt(x, c, draw)) /\ MetricsAt(x, c, draw).candidate = c
BY LowerBoundIsRatio, MetricsAreTyped DEF MetricsAt

LEMMA PassingAreField ==
    ASSUME LedgerIsFull, NEW x \in Components \union {Global}, NEW draw, IsDraw(draw), NEW policy
    PROVE  IsField(Passing(x, draw, policy))
<1> DEFINE all == {MetricsAt(x, c, draw) : c \in Candidates}
           f == [c \in Candidates |-> MetricsAt(x, c, draw)]
           S == Passing(x, draw, policy)
<1>1. \A c \in Candidates : AreMetrics(MetricsAt(x, c, draw)) /\ MetricsAt(x, c, draw).candidate = c
  BY MetricsAtAreTyped
<1>2. \A m \in all : AreMetrics(m)
  BY <1>1
<1>3. \A m, o \in all : m.candidate = o.candidate => m = o
  BY <1>1
<1>4. f \in Surjection(Candidates, all)
  BY DEF Surjection
<1>5. IsFiniteSet(Candidates)
  BY DailyAssumption
<1>6. S \subseteq all
  BY DEF Passing
<1> HIDE DEF f, all, S
<1>7. IsFiniteSet(all)
  BY <1>4, <1>5, FS_Surjection
<1>8. IsFiniteSet(S)
  BY <1>6, <1>7, FS_Subset
<1>9. IsField(S)
  BY <1>2, <1>3, <1>6, <1>8 DEF IsField
<1> QED
  BY <1>9 DEF S

(* What is decided is one of the candidates without a reason.               *)
LEMMA DecidedIsPassing ==
    ASSUME LedgerIsFull, NEW x \in Components \union {Global}, NEW draw, IsDraw(draw), NEW policy
    PROVE  /\ Passing(x, draw, policy) # {} => Decided(Passing(x, draw, policy)) # 0
           /\ Decided(Passing(x, draw, policy)) # 0 =>
                \E c \in Candidates : /\ c = Decided(Passing(x, draw, policy))
                                      /\ MetricsAt(x, c, draw) \in Passing(x, draw, policy)
                                      /\ RejectionReasons(MetricsAt(x, c, draw), policy) = {}
<1> DEFINE S == Passing(x, draw, policy)
<1>1. IsField(S)
  BY PassingAreField
<1>2. \A m \in S : \E c \in Candidates : m = MetricsAt(x, c, draw)
  BY DEF Passing
<1>3. \A m \in S : RejectionReasons(m, policy) = {}
  BY DEF Passing
<1> HIDE DEF S
<1>4. ASSUME S # {} PROVE Decided(S) = Winner(S).candidate /\ Winner(S) \in S /\ Decided(S) # 0
  BY <1>1, <1>4, WinnerIsFirst DEF Decided
<1>5. ASSUME Decided(S) # 0
      PROVE  \E c \in Candidates : /\ c = Decided(S) /\ MetricsAt(x, c, draw) \in S
                                   /\ RejectionReasons(MetricsAt(x, c, draw), policy) = {}
  <2>1. S # {}
    BY <1>5 DEF Decided
  <2>2. PICK w : w = Winner(S)
    OBVIOUS
  <2>3. w \in S /\ Decided(S) = w.candidate
    BY <1>4, <2>1, <2>2
  <2>4. PICK c \in Candidates : w = MetricsAt(x, c, draw)
    BY <1>2, <2>3
  <2>5. w.candidate = c
    BY <2>4, MetricsAtAreTyped
  <2> QED
    BY <1>3, <2>3, <2>4, <2>5
<1> QED
  BY <1>4, <1>5 DEF S

(* The metrics of the assessments that a test of their reasons lets pass.   *)
LEMMA AssessmentsAre ==
    ASSUME NEW x, NEW draw
    PROVE  /\ \A a \in AssessedAt(x, draw) : \E c \in Candidates :
                a.metrics = MetricsAt(x, c, draw) /\ a.reasons = RejectionReasons(a.metrics, StrictPolicy)
           /\ \A c \in Candidates : \E a \in AssessedAt(x, draw) :
                a.metrics = MetricsAt(x, c, draw) /\ a.reasons = RejectionReasons(a.metrics, StrictPolicy)
<1>1. \A c : /\ Assessment(x, c, LowerBound(x, c, draw), StrictPolicy).metrics = MetricsAt(x, c, draw)
             /\ Assessment(x, c, LowerBound(x, c, draw), StrictPolicy).reasons
                    = RejectionReasons(MetricsAt(x, c, draw), StrictPolicy)
  BY DEF Assessment, MetricsAt
<1> QED
  BY <1>1 DEF AssessedAt

(* Assessments made of the same statistics under another policy.            *)
Again(A, policy) ==
    {[metrics |-> a.metrics, reasons |-> RejectionReasons(a.metrics, policy)] : a \in A}

LEMMA PassingAreEligible ==
    ASSUME NEW x, NEW draw, NEW policy, NEW A, A = AssessedAt(x, draw)
    PROVE  /\ {a.metrics : a \in {b \in A : b.reasons = {}}} = Passing(x, draw, StrictPolicy)
           /\ {a.metrics : a \in {b \in A : ReassessedReasons(b, policy) = {}}}
                = Passing(x, draw, policy)
           /\ {a.metrics : a \in {b \in Again(A, policy) : b.reasons = {}}} = Passing(x, draw, policy)
<1>1. /\ \A a \in A : \E c \in Candidates :
           a.metrics = MetricsAt(x, c, draw) /\ a.reasons = RejectionReasons(a.metrics, StrictPolicy)
      /\ \A c \in Candidates : \E a \in A :
           a.metrics = MetricsAt(x, c, draw) /\ a.reasons = RejectionReasons(a.metrics, StrictPolicy)
  BY AssessmentsAre
<1>2. \A p, m : m \in Passing(x, draw, p) <=>
                  (\E c \in Candidates : m = MetricsAt(x, c, draw)) /\ RejectionReasons(m, p) = {}
  BY DEF Passing
<1>3. \A p, m : m \in Passing(x, draw, p) <=> \E a \in A : m = a.metrics /\ RejectionReasons(a.metrics, p) = {}
  <2>1. SUFFICES ASSUME NEW p, NEW m
                 PROVE  m \in Passing(x, draw, p) <=>
                          \E a \in A : m = a.metrics /\ RejectionReasons(a.metrics, p) = {}
    OBVIOUS
  <2>2. (\E c \in Candidates : m = MetricsAt(x, c, draw)) <=> \E a \in A : m = a.metrics
    BY <1>1
  <2> QED
    BY <1>2, <2>2
<1>4. \A a \in A : /\ a.reasons = RejectionReasons(a.metrics, StrictPolicy)
                   /\ ReassessedReasons(a, policy) = RejectionReasons(a.metrics, policy)
  BY <1>1, ReassessedIsBuilt
<1>5. {a.metrics : a \in {b \in A : b.reasons = {}}} = Passing(x, draw, StrictPolicy)
  BY <1>3, <1>4
<1>6. {a.metrics : a \in {b \in A : ReassessedReasons(b, policy) = {}}} = Passing(x, draw, policy)
  BY <1>3, <1>4
<1> DEFINE of(a) == [metrics |-> a.metrics, reasons |-> RejectionReasons(a.metrics, policy)]
           B == {of(a) : a \in A}
<1>7. \A a : of(a).metrics = a.metrics /\ of(a).reasons = RejectionReasons(a.metrics, policy)
  OBVIOUS
<1> HIDE DEF of
<1>8. {a.metrics : a \in {b \in B : b.reasons = {}}} = Passing(x, draw, policy)
  BY <1>3, <1>7
<1> QED
  BY <1>5, <1>6, <1>8 DEF of, Again

-----------------------------------------------------------------------------
(* What the builder makes                                                   *)

(* The mapping built with the bounds that a bootstrap drew.                 *)
BuiltFrom(draw) ==
    [assessments |-> [x \in Components |-> AssessedAt(x, draw)],
     entries |-> [x \in Components |-> Entry(x, AssessedAt(x, draw))]]

(* The entry of a component: the winner, or the reasons for cash.           *)
LEMMA EntryIsDecided ==
    ASSUME NEW x, NEW draw
    PROVE  LET entry == Entry(x, AssessedAt(x, draw))
               S == Passing(x, draw, StrictPolicy)
           IN  /\ S # {} => entry.decision = Winner(S).candidate /\ entry.reasons = {}
               /\ S = {} => entry.decision = 0 /\ entry.reasons # {}
               /\ entry.decision = Decided(S)
<1> DEFINE A == AssessedAt(x, draw)
           S == Passing(x, draw, StrictPolicy)
           E == {a.metrics : a \in {b \in A : b.reasons = {}}}
           R == {"no_eligible_candidate"} \union
                  IF DaysOf(x) = {} THEN {"insufficient_evidence"} ELSE UNION {a.reasons : a \in A}
<1>1. E = S
  BY PassingAreEligible
<1>2. Entry(x, A) = IF E # {} THEN [component |-> x, decision |-> Winner(E).candidate, reasons |-> {}]
                    ELSE [component |-> x, decision |-> 0, reasons |-> R]
  BY DEF Entry
<1>3. R # {}
  OBVIOUS
<1> HIDE DEF A, S, E, R
<1>4. /\ S # {} => Entry(x, A).decision = Winner(S).candidate /\ Entry(x, A).reasons = {}
      /\ S = {} => Entry(x, A).decision = 0 /\ Entry(x, A).reasons # {}
  BY <1>1, <1>2, <1>3
<1> QED
  BY <1>4 DEF A, S, Decided

(* The validators accept every mapping that the builder makes.              *)
LEMMA BuiltIsValid ==
    ASSUME LedgerIsFull, NEW draw, IsDraw(draw)
    PROVE  ArtifactIsValid(BuiltFrom(draw))
<1> DEFINE artifact == BuiltFrom(draw)
<1>1. /\ DOMAIN artifact.entries = Components
      /\ \A x \in Components : /\ artifact.assessments[x] = AssessedAt(x, draw)
                               /\ artifact.entries[x] = Entry(x, AssessedAt(x, draw))
  BY DEF BuiltFrom
<1> HIDE DEF artifact
<1>2. ASSUME NEW x \in Components
      PROVE  LET eligible == {a.metrics.candidate :
                                a \in {b \in artifact.assessments[x] : b.reasons = {}}}
                 entry == artifact.entries[x]
             IN  /\ {a.metrics.candidate : a \in artifact.assessments[x]} = Candidates
                 /\ \A a \in artifact.assessments[x] : AssessmentIsValid(a)
                 /\ entry.decision # 0 => entry.decision \in eligible /\ entry.reasons = {}
                 /\ entry.decision = 0 => eligible = {} /\ entry.reasons # {}
  <2> DEFINE A == AssessedAt(x, draw)
             S == Passing(x, draw, StrictPolicy)
             E == {a.metrics : a \in {b \in A : b.reasons = {}}}
             eligible == {a.metrics.candidate : a \in {b \in A : b.reasons = {}}}
             entry == Entry(x, A)
  <2>1. /\ \A a \in A : \E c \in Candidates : a.metrics = MetricsAt(x, c, draw)
        /\ \A c \in Candidates : \E a \in A : a.metrics = MetricsAt(x, c, draw)
    BY AssessmentsAre
  <2>2. \A c \in Candidates : /\ AreMetrics(MetricsAt(x, c, draw))
                              /\ MetricsAt(x, c, draw).candidate = c
    BY MetricsAtAreTyped
  <2>3. {a.metrics.candidate : a \in A} = Candidates
    <3> HIDE DEF A
    <3> QED
      BY <2>1, <2>2
  <2>4. ASSUME NEW a \in A PROVE AssessmentIsValid(a)
    <3>1. AreMetrics(a.metrics)
      BY <2>1, <2>2
    <3> QED
      BY <3>1 DEF AreMetrics, IsShare, AssessmentIsValid
  <2>5. E = S
    BY PassingAreEligible
  <2>6. eligible = {m.candidate : m \in E}
    OBVIOUS
  <2>7. /\ S # {} => entry.decision = Winner(S).candidate /\ entry.reasons = {}
        /\ S = {} => entry.decision = 0 /\ entry.reasons # {}
        /\ entry.decision = Decided(S)
    BY EntryIsDecided
  <2>8. S # {} => Winner(S) \in S /\ Decided(S) # 0
    <3>1. IsField(S)
      BY PassingAreField
    <3>2. S # {} => Decided(S) # 0
      BY DecidedIsPassing
    <3> HIDE DEF S
    <3> QED
      BY <3>1, <3>2, WinnerIsFirst
  <2> HIDE DEF A, S, E, eligible, entry
  <2>9. entry.decision # 0 => entry.decision \in eligible /\ entry.reasons = {}
    BY <2>5, <2>6, <2>7, <2>8
  <2>10. entry.decision = 0 => eligible = {} /\ entry.reasons # {}
    BY <2>5, <2>6, <2>7, <2>8
  <2>11. artifact.assessments[x] = A /\ artifact.entries[x] = entry
    BY <1>1 DEF A, entry
  <2> QED
    BY <2>3, <2>4, <2>9, <2>10, <2>11 DEF eligible
<1>3. ArtifactIsValid(artifact)
  BY <1>1, <1>2 DEF ArtifactIsValid
<1> QED
  BY <1>3 DEF artifact

-----------------------------------------------------------------------------
(* A decision is justified by the evidence                                  *)

LEMMA NoOtherReason ==
    ASSUME NEW m, OtherReasons(m) = {}
    PROVE  ~(m.months < MinMonths) /\ m.complete /\ m.gain
<1> DEFINE N2 == Named(m.months < MinMonths, "insufficient_calendar_months")
           N7 == Named(~m.complete, "insufficient_complete_seven_day_blocks")
           N9 == Named(~m.gain, "no_positive_episode_profit")
<1>1. N2 \subseteq OtherReasons(m) /\ N7 \subseteq OtherReasons(m) /\ N9 \subseteq OtherReasons(m)
  BY DEF OtherReasons
<1>2. N2 = {} /\ N7 = {} /\ N9 = {}
  BY <1>1
<1>3. ~(m.months < MinMonths)
  BY <1>2 DEF Named
<1>4. m.complete
  BY <1>2 DEF Named
<1>5. m.gain
  BY <1>2 DEF Named
<1> QED
  BY <1>3, <1>4, <1>5

(* A candidate without a reason is justified by its evidence.               *)
LEMMA PassingIsJustified ==
    ASSUME LedgerIsFull, NEW x \in Components \union {Global}, NEW c \in Candidates,
           NEW draw, IsDraw(draw), RejectionReasons(MetricsAt(x, c, draw), StrictPolicy) = {}
    PROVE  EntryIsJustified(x, c)
<1> DEFINE m == MetricsAt(x, c, draw)
           r == Returns(x, c)
           B == Blocks(x, c)
           W == {Compound(b) : b \in B}
           months == {MonthOf[d] : d \in {e \in DaysOf(x) : evidence[<<c, e>>].available}}
<1>1. /\ m.months = Cardinality(Months(x, c))
      /\ m.complete <=> B # {}
      /\ m.worst = IF B = {} THEN Zero ELSE Least(W)
      /\ m.gain <=> \E i \in DOMAIN r : r[i] > 0
  BY DEF MetricsAt, Metrics
<1>2. AreMetrics(m)
  BY MetricsAtAreTyped
<1>3. RejectionReasons(m, StrictPolicy) = {}
  OBVIOUS
<1> HIDE DEF m
<1>4. OtherReasons(m) = {} /\ LimitReasons(m, StrictPolicy) = {}
  BY <1>3, ReasonsAreSplit
<1>5. ~(m.months < MinMonths) /\ m.complete /\ m.gain
  BY <1>4, NoOtherReason
<1>6. ~Less(m.worst, StrictPolicy.worst)
  BY <1>4, NoLimitReason
<1>7. B # {}
  BY <1>1, <1>5
<1>8. B = {BlockFrom(x, c, w) : w \in Starts(x, c)} /\ \A b \in B : AreReturns(b)
  BY BlocksAreReturns
<1>9. Starts(x, c) # {}
  BY <1>7, <1>8
<1>10. IsLeastRatio(W, Least(W)) /\ IsRatio(Least(W))
  BY <1>7, WorstIsLeast
<1> HIDE DEF r, B
<1>11. ASSUME NEW w \in Starts(x, c)
       PROVE  ~Less(Compound(BlockFrom(x, c, w)), StrictPolicy.worst)
  <2> DEFINE b == BlockFrom(x, c, w)
             l == Least(W)
             q == Compound(b)
  <2>1. b \in B /\ AreReturns(b)
    BY <1>8
  <2>2. q \in W /\ IsRatio(q)
    BY <2>1, CompoundIsRatio
  <2>3. ~Less(q, l)
    BY <1>10, <2>2 DEF IsLeastRatio
  <2>4. m.worst = l
    BY <1>1, <1>7
  <2> HIDE DEF l, q, W
  <2>5. IsRatio(l) /\ ~Less(l, StrictPolicy.worst)
    BY <1>6, <1>10, <2>4 DEF l
  <2>6. IsRatio(StrictPolicy.worst)
    BY PoliciesAreTyped DEF IsPolicy
  <2>7. ~Less(q, StrictPolicy.worst)
    BY <2>2, <2>3, <2>5, <2>6, NotLessIsTransitive
  <2> QED
    BY <2>7 DEF q
<1>12. Cardinality(months) >= MinMonths
  <2>1. Months(x, c) = months /\ IsFiniteSet(Months(x, c))
    BY MonthsOfDays DEF AvailableDays
  <2> HIDE DEF months
  <2>2. Cardinality(months) \in Nat
    BY <2>1, FS_CardinalityType
  <2>3. MinMonths \in Nat
    BY DailyAssumption
  <2>4. m.months = Cardinality(months)
    BY <1>1, <2>1
  <2> QED
    BY <1>5, <2>2, <2>3, <2>4
<1>13. \E d \in DaysOf(x) : evidence[<<c, d>>].net > 0
  <2>1. PICK i \in DOMAIN r : r[i] > 0
    BY <1>1, <1>5
  <2>2. \E d \in AvailableDays(x, c) : r[i] = evidence[<<c, d>>].net
    BY <2>1, ReturnsOfDays DEF r
  <2> QED
    BY <2>1, <2>2 DEF AvailableDays
<1> DEFINE observed(d) == d \in Observed /\ (d \in DaysOf(x) => evidence[<<c, d>>].available)
           value(d) == IF d \in DaysOf(x) THEN evidence[<<c, d>>].net ELSE 0
           windows == {d \in Days : \A k \in 0..(BlockDays - 1) : observed(d + k)}
<1>14. windows = Starts(x, c)
  BY DEF Starts, HasWorth
<1>15. \A w : [k \in 1..BlockDays |-> value(w + k - 1)] = BlockFrom(x, c, w)
  BY DEF BlockFrom, Worth
<1>16. EntryIsJustified(x, c) <=>
         /\ windows # {}
         /\ \A w \in windows :
              ~Less(Compound([k \in 1..BlockDays |-> value(w + k - 1)]), StrictPolicy.worst)
         /\ Cardinality(months) >= MinMonths
         /\ \E d \in DaysOf(x) : evidence[<<c, d>>].net > 0
  BY DEF EntryIsJustified
<1> HIDE DEF windows, value, months
<1> QED
  BY <1>9, <1>11, <1>12, <1>13, <1>14, <1>15, <1>16

-----------------------------------------------------------------------------
(* With all days in one component its statistics are those of the baseline  *)

(* Equal but for the component.                                             *)
AreAlike(m, o) ==
    /\ m.candidate = o.candidate /\ m.assigned = o.assigned /\ m.episodes = o.episodes
    /\ m.months = o.months /\ m.trades = o.trades /\ m.net = o.net /\ m.median = o.median
    /\ m.bound = o.bound /\ m.complete = o.complete /\ m.worst = o.worst
    /\ m.shortfall = o.shortfall /\ m.drawdown = o.drawdown /\ m.withoutBest = o.withoutBest
    /\ m.topEpisode = o.topEpisode /\ m.topTrades = o.topTrades
    /\ m.gain = o.gain /\ m.tradeGain = o.tradeGain

LEMMA AlikeIsSame ==
    ASSUME NEW m, NEW o, AreAlike(m, o), NEW policy
    PROVE  /\ WinnerKey(m) = WinnerKey(o) /\ m.candidate = o.candidate
           /\ RejectionReasons(m, policy) = RejectionReasons(o, policy)
<1>1. WinnerKey(m) = WinnerKey(o) /\ m.candidate = o.candidate
  BY DEF AreAlike, WinnerKey
<1>2. OtherReasons(m) = OtherReasons(o)
  BY DEF AreAlike, OtherReasons
<1>3. LimitReasons(m, policy) = LimitReasons(o, policy)
  BY DEF AreAlike, LimitReasons
<1> QED
  BY <1>1, <1>2, <1>3, ReasonsAreSplit

LEMMA AllDaysAreGlobal ==
    ASSUME NEW x, NEW y, DaysOf(x) = DaysOf(y), NEW c, NEW draw
    PROVE  AreAlike(MetricsAt(x, c, draw), MetricsAt(y, c, draw))
<1>1. AvailableDays(x, c) = AvailableDays(y, c)
  BY DEF AvailableDays
<1>2. AvailableRows(x, c) = AvailableRows(y, c)
  BY <1>1 DEF AvailableRows
<1>3. Returns(x, c) = Returns(y, c) /\ Trades(x, c) = Trades(y, c) /\ Months(x, c) = Months(y, c)
  BY <1>2 DEF Returns, Trades, Months
<1>4. \A d : Aligned(x, c, d) = Aligned(y, c, d)
  BY DEF Aligned
<1>5. Blocks(x, c) = Blocks(y, c)
  BY <1>4 DEF Blocks
<1>6. LowerBound(x, c, draw) = LowerBound(y, c, draw)
  BY <1>3 DEF LowerBound, IsCovered, NeedsBootstrap
<1> DEFINE b == LowerBound(x, c, draw)
<1>7. MetricsAt(x, c, draw) = Metrics(x, c, b) /\ MetricsAt(y, c, draw) = Metrics(y, c, b)
  BY <1>6 DEF MetricsAt
<1> HIDE DEF b
<1>8. AreAlike(Metrics(x, c, b), Metrics(y, c, b))
  BY <1>3, <1>5 DEF AreAlike, Metrics
<1> QED
  BY <1>7, <1>8

(* Two components of the same days choose the same candidate.               *)
LEMMA AllDaysDecideAlike ==
    ASSUME LedgerIsFull, NEW x \in Components \union {Global}, NEW y \in Components \union {Global},
           DaysOf(x) = DaysOf(y), NEW draw, IsDraw(draw), NEW policy
    PROVE  Decided(Passing(x, draw, policy)) = Decided(Passing(y, draw, policy))
<1> DEFINE S == Passing(x, draw, policy)
           T == Passing(y, draw, policy)
<1>1. IsField(S) /\ IsField(T)
  BY PassingAreField
<1>2. \A c : AreAlike(MetricsAt(x, c, draw), MetricsAt(y, c, draw))
  BY AllDaysAreGlobal
<1>3. \A c : AreAlike(MetricsAt(y, c, draw), MetricsAt(x, c, draw))
  BY AllDaysAreGlobal
<1>4. IsMatched(S, T)
  <2>1. SUFFICES ASSUME NEW m \in S
                 PROVE  \E o \in T : o.candidate = m.candidate /\ WinnerKey(o) = WinnerKey(m)
    BY DEF IsMatched
  <2>2. PICK c \in Candidates : m = MetricsAt(x, c, draw) /\ RejectionReasons(m, policy) = {}
    BY DEF Passing
  <2> DEFINE o == MetricsAt(y, c, draw)
  <2>3. AreAlike(m, o)
    BY <1>2, <2>2
  <2>4. /\ WinnerKey(m) = WinnerKey(o) /\ m.candidate = o.candidate
        /\ RejectionReasons(o, policy) = {}
    BY <2>2, <2>3, AlikeIsSame
  <2>5. o \in T
    BY <2>4 DEF Passing
  <2> QED
    BY <2>4, <2>5
<1>5. IsMatched(T, S)
  <2>1. SUFFICES ASSUME NEW m \in T
                 PROVE  \E o \in S : o.candidate = m.candidate /\ WinnerKey(o) = WinnerKey(m)
    BY DEF IsMatched
  <2>2. PICK c \in Candidates : m = MetricsAt(y, c, draw) /\ RejectionReasons(m, policy) = {}
    BY DEF Passing
  <2> DEFINE o == MetricsAt(x, c, draw)
  <2>3. AreAlike(m, o)
    BY <1>3, <2>2
  <2>4. /\ WinnerKey(m) = WinnerKey(o) /\ m.candidate = o.candidate
        /\ RejectionReasons(o, policy) = {}
    BY <2>2, <2>3, AlikeIsSame
  <2>5. o \in S
    BY <2>4 DEF Passing
  <2> QED
    BY <2>4, <2>5
<1> HIDE DEF S, T
<1>6. S = {} <=> T = {}
  BY <1>4, <1>5 DEF IsMatched
<1>7. S # {} => Winner(S).candidate = Winner(T).candidate
  BY <1>1, <1>4, <1>5, <1>6, SameWinner
<1>8. Decided(S) = Decided(T)
  BY <1>6, <1>7 DEF Decided
<1> QED
  BY <1>8 DEF S, T

-----------------------------------------------------------------------------
(* The mapping is sound                                                     *)

(* What MappingIsSound says of a component.                                 *)
SoundAt(artifact, baseline, x) ==
    LET decided == artifact.entries[x].decision
        under(policy) == Reassessed(artifact, x, policy)
        built(policy) ==
            Entry(x, {[metrics |-> a.metrics, reasons |-> RejectionReasons(a.metrics, policy)] :
                        a \in artifact.assessments[x]}).decision
    IN  /\ decided # 0 => EntryIsJustified(x, decided)
        /\ under(StrictPolicy) = decided
        /\ \A policy \in {TighterPolicy, LooserPolicy} : under(policy) = built(policy)
        /\ under(TighterPolicy) # 0 => decided # 0
        /\ DaysOf(x) = Observed => decided = baseline

LEMMA SoundMeans ==
    MappingIsSound <=>
        /\ mapping # Refused
        /\ IsMapped => \A x \in Components : SoundAt(mapping.artifact, mapping.baseline, x)
BY DEF MappingIsSound, SoundAt, BuiltUnder

(* Whatever a bootstrap draws, the mapping built of a full ledger is sound. *)
LEMMA BuiltIsSound ==
    ASSUME LedgerIsFull, NEW draw, IsDraw(draw), NEW x \in Components
    PROVE  SoundAt(BuiltFrom(draw), GlobalBaseline(draw), x)
<1> DEFINE artifact == BuiltFrom(draw)
           A == AssessedAt(x, draw)
           S(p) == Passing(x, draw, p)
           decided == artifact.entries[x].decision
           again(p) == Again(A, p)
           built(p) == Entry(x, again(p)).decision
<1>1. artifact.assessments[x] = A /\ artifact.entries[x] = Entry(x, A)
  BY DEF BuiltFrom
<1> HIDE DEF artifact
<1>2. decided = Decided(S(StrictPolicy))
  BY <1>1, EntryIsDecided
<1>3. ASSUME NEW p PROVE Reassessed(artifact, x, p) = Decided(S(p))
  <2> DEFINE E == {a.metrics : a \in {b \in A : ReassessedReasons(b, p) = {}}}
  <2>1. Reassessed(artifact, x, p) = IF E = {} THEN 0 ELSE Winner(E).candidate
    BY <1>1 DEF Reassessed
  <2>2. E = S(p)
    BY PassingAreEligible
  <2> HIDE DEF E, S
  <2> QED
    BY <2>1, <2>2 DEF Decided
<1>4. ASSUME NEW p PROVE built(p) = Decided(S(p))
  <2> DEFINE E == {a.metrics : a \in {b \in again(p) : b.reasons = {}}}
             R == {"no_eligible_candidate"} \union
                    IF DaysOf(x) = {} THEN {"insufficient_evidence"} ELSE UNION {a.reasons : a \in again(p)}
  <2>1. E = S(p)
    BY PassingAreEligible
  <2>2. Entry(x, again(p)) =
          IF E # {} THEN [component |-> x, decision |-> Winner(E).candidate, reasons |-> {}]
          ELSE [component |-> x, decision |-> 0, reasons |-> R]
    BY DEF Entry
  <2> HIDE DEF E, R, S
  <2> QED
    BY <2>1, <2>2 DEF Decided
<1>5. ASSUME decided # 0 PROVE EntryIsJustified(x, decided)
  <2>1. PICK c \in Candidates :
           c = decided /\ RejectionReasons(MetricsAt(x, c, draw), StrictPolicy) = {}
    BY <1>2, <1>5, DecidedIsPassing
  <2> HIDE DEF decided
  <2>2. EntryIsJustified(x, c)
    BY <2>1, PassingIsJustified
  <2> QED
    BY <2>1, <2>2
<1>6. ASSUME Reassessed(artifact, x, TighterPolicy) # 0 PROVE decided # 0
  <2>1. Decided(S(TighterPolicy)) # 0
    BY <1>3, <1>6
  <2>2. PICK c \in Candidates : RejectionReasons(MetricsAt(x, c, draw), TighterPolicy) = {}
    BY <2>1, DecidedIsPassing
  <2>3. AreMetrics(MetricsAt(x, c, draw))
    BY MetricsAtAreTyped
  <2>4. RejectionReasons(MetricsAt(x, c, draw), StrictPolicy) = {}
    BY <2>2, <2>3, PoliciesAreTyped, TighterRejectsMore
  <2>5. S(StrictPolicy) # {}
    BY <2>4 DEF Passing
  <2> QED
    BY <1>2, <2>5, DecidedIsPassing
<1>7. ASSUME DaysOf(x) = Observed PROVE decided = GlobalBaseline(draw)
  <2> DEFINE G == AssessedAt(Global, draw)
             E == {a.metrics : a \in {b \in G : b.reasons = {}}}
             T == Passing(Global, draw, StrictPolicy)
  <2>1. GlobalBaseline(draw) = IF E = {} THEN 0 ELSE Winner(E).candidate
    BY DEF GlobalBaseline, AssessedAt
  <2>2. E = T
    BY PassingAreEligible
  <2>3. DaysOf(Global) = Observed
    BY DEF DaysOf
  <2>4. Decided(S(StrictPolicy)) = Decided(T)
    BY <1>7, <2>3, AllDaysDecideAlike
  <2> HIDE DEF E, T
  <2> QED
    BY <1>2, <2>1, <2>2, <2>4 DEF Decided
<1>8. /\ Reassessed(artifact, x, StrictPolicy) = decided
      /\ \A p : Reassessed(artifact, x, p) = built(p)
  BY <1>2, <1>3, <1>4
<1> HIDE DEF decided
<1>9. \A p : built(p) = Entry(x, {[metrics |-> a.metrics, reasons |-> RejectionReasons(a.metrics, p)] :
                                    a \in artifact.assessments[x]}).decision
  BY <1>1 DEF Again
<1> HIDE DEF built
<1> QED
  BY <1>5, <1>6, <1>7, <1>8, <1>9 DEF SoundAt, artifact, decided

(* What a step that keeps the days and the evidence keeps.                  *)
LEMMA SoundIsKept ==
    ASSUME UNCHANGED <<calendar, label, evidence>>, NEW artifact, NEW baseline, NEW x
    PROVE  SoundAt(artifact, baseline, x)' <=> SoundAt(artifact, baseline, x)
<1>1. calendar' = calendar /\ label' = label /\ evidence' = evidence
  OBVIOUS
<1>2. Observed' = Observed /\ Days' = Days
  BY <1>1 DEF Observed, Days
<1>3. DaysOf(x)' = DaysOf(x)
  BY <1>1, <1>2 DEF DaysOf
<1>4. \A c : EntryIsJustified(x, c)' <=> EntryIsJustified(x, c)
  <2>1. SUFFICES ASSUME NEW c PROVE EntryIsJustified(x, c)' <=> EntryIsJustified(x, c)
    OBVIOUS
  <2> QED
    BY <1>1, <1>2, <1>3 DEF EntryIsJustified
<1>5. \A A : Entry(x, A)' = Entry(x, A)
  BY <1>3 DEF Entry
<1> QED
  BY <1>2, <1>3, <1>4, <1>5 DEF SoundAt

(* The invariant: MappingIsSound rests on the types of the ledger.          *)
DailyInv == CalendarIsTyped /\ LedgerIsTyped /\ MappingIsSound

LEMMA StatusesDiffer == NoMapping # Refused /\ Rejected # Refused /\ Failed # Refused
                        /\ NoMapping.status # "mapped" /\ Rejected.status # "mapped"
                        /\ Failed.status # "mapped"
<1>1. /\ NoMapping.status = "none" /\ Rejected.status = "rejected"
      /\ Failed.status = "failed" /\ Refused.status = "refused"
  BY DEF NoMapping, Rejected, Failed, Refused
<1> QED
  BY <1>1

LEMMA DailyStart == ASSUME DailyInit PROVE DailyInv
<1>1. CalendarIsTyped
  BY DEF DailyInit, CalendarIsTyped, Observed, Days
<1>2. LedgerIsTyped
  <2>1. DOMAIN evidence = {}
    BY DEF DailyInit
  <2> QED
    BY <2>1 DEF LedgerIsTyped
<1>3. MappingIsSound
  BY SoundMeans, StatusesDiffer DEF DailyInit, IsMapped
<1> QED
  BY <1>1, <1>2, <1>3 DEF DailyInv

(* Days, and the day a row is for, stay what they are.                      *)
LEMMA CalendarIsKept ==
    ASSUME CalendarIsTyped, UNCHANGED <<calendar, label>>
    PROVE  CalendarIsTyped' /\ Observed' = Observed /\ Days' = Days
BY DEF CalendarIsTyped, Observed, Days

(* The calendar, the labels and the evidence are kept.                      *)
LEMMA LedgerIsKept ==
    ASSUME CalendarIsTyped, LedgerIsTyped, UNCHANGED <<calendar, label, evidence>>
    PROVE  CalendarIsTyped' /\ LedgerIsTyped'
<1>1. CalendarIsTyped' /\ Observed' = Observed
  BY CalendarIsKept
<1>2. LedgerIsTyped'
  BY <1>1 DEF LedgerIsTyped, IsEvidence, RowIsValid
<1> QED
  BY <1>1, <1>2

LEMMA NormalizedIsTyped ==
    ASSUME NEW replay \in Replays
    PROVE  NormalizedTrades(replay) \in Seq(Int)
<1> DEFINE t == replay.trades
           n == Len(t)
           u == t[n] + replay.net - Total(t)
<1>1. t \in Seq(Int) /\ replay.net \in Int
  BY DailyAssumption
<1>2. Total(t) \in Int
  BY <1>1, TotalIsInt
<1>3. NormalizedTrades(replay) = IF n = 0 THEN <<>> ELSE [t EXCEPT ![n] = u]
  BY DEF NormalizedTrades
<1> HIDE DEF t
<1>4. CASE n = 0
  BY <1>3, <1>4
<1>5. CASE n # 0
  <2>1. n \in 1..n /\ t[n] \in Int
    BY <1>1, <1>5
  <2>2. u \in Int
    BY <1>1, <1>2, <2>1
  <2> HIDE DEF u
  <2>3. [t EXCEPT ![n] = u] \in Seq(Int)
    BY <1>1, <2>1, <2>2
  <2> QED
    BY <1>3, <1>5, <2>3
<1> QED
  BY <1>4, <1>5

(* One row more, of the candidate and the day it was run for.               *)
LEMMA EvidenceStep ==
    ASSUME DailyInv, NEW c \in Candidates, NEW d \in Observed, RunEvidence(c, d)
    PROVE  DailyInv'
<1>1. mapping = NoMapping /\ <<c, d>> \notin DOMAIN evidence /\ UNCHANGED <<calendar, label>>
  BY DEF RunEvidence
<1>2. PICK replay \in Replays :
        LET row == EvidenceRow(c, d, replay)
        IN  IF Reconciles(Total(replay.trades), replay.net) /\ RowIsValid(row)
            THEN /\ evidence' = [k \in DOMAIN evidence \union {<<c, d>>} |->
                                   IF k = <<c, d>> THEN row ELSE evidence[k]]
                 /\ UNCHANGED mapping
            ELSE mapping' = Rejected /\ UNCHANGED evidence
  BY DEF RunEvidence
<1>3. CalendarIsTyped' /\ Observed' = Observed
  BY <1>1, CalendarIsKept DEF DailyInv
<1>4. MappingIsSound'
  <2>1. mapping' = NoMapping \/ mapping' = Rejected
    BY <1>1, <1>2
  <2>2. mapping' # Refused /\ ~IsMapped'
    BY <2>1, StatusesDiffer DEF IsMapped
  <2> QED
    BY <2>2 DEF MappingIsSound, Refused
<1> DEFINE row == EvidenceRow(c, d, replay)
<1>5. CASE UNCHANGED evidence
  BY <1>1, <1>4, <1>5, LedgerIsKept DEF DailyInv
<1>6. CASE RowIsValid(row) /\ evidence' = [k \in DOMAIN evidence \union {<<c, d>>} |->
                                             IF k = <<c, d>> THEN row ELSE evidence[k]]
  <2>1. IsEvidence(row, c, d)
    <3>1. /\ row.candidate = c /\ row.day = d /\ row.component = label[d]
          /\ row.available = replay.available /\ row.net = replay.net
          /\ row.trades = NormalizedTrades(replay)
      BY DEF EvidenceRow
    <3>2. replay.available \in BOOLEAN /\ replay.net \in Int /\ replay.net > -Equity
      BY DailyAssumption
    <3>3. NormalizedTrades(replay) \in Seq(Int)
      BY NormalizedIsTyped
    <3> HIDE DEF row
    <3> QED
      BY <1>6, <3>1, <3>2, <3>3 DEF IsEvidence
  <2> HIDE DEF row
  <2>2. DOMAIN evidence' = DOMAIN evidence \union {<<c, d>>}
    BY <1>6
  <2>3. \A k \in DOMAIN evidence' : evidence'[k] = IF k = <<c, d>> THEN row ELSE evidence[k]
    BY <1>6
  <2>4. DOMAIN evidence' \subseteq Candidates \X Observed
    BY <2>2 DEF DailyInv, LedgerIsTyped
  <2>5. ASSUME NEW b \in Candidates, NEW e \in Observed, <<b, e>> \in DOMAIN evidence'
        PROVE  IsEvidence(evidence'[<<b, e>>], b, e)
    <3>1. CASE <<b, e>> = <<c, d>>
      BY <2>1, <2>3, <2>5, <3>1
    <3>2. CASE <<b, e>> # <<c, d>>
      <4>1. <<b, e>> \in DOMAIN evidence /\ evidence'[<<b, e>>] = evidence[<<b, e>>]
        BY <2>2, <2>3, <2>5, <3>2
      <4> QED
        BY <4>1 DEF DailyInv, LedgerIsTyped
    <3> QED
      BY <3>1, <3>2
  <2>6. ASSUME NEW r, NEW b, NEW e, IsEvidence(r, b, e) PROVE IsEvidence(r, b, e)'
    BY <1>1, <2>6 DEF IsEvidence, RowIsValid
  <2>7. ASSUME NEW b \in Candidates, NEW e \in Observed, <<b, e>> \in DOMAIN evidence'
        PROVE  IsEvidence(evidence[<<b, e>>], b, e)'
    <3>1. PICK r : r = evidence'[<<b, e>>]
      OBVIOUS
    <3>2. IsEvidence(r, b, e)
      BY <2>5, <2>7, <3>1
    <3>3. IsEvidence(r, b, e)'
      BY <2>6, <3>2
    <3> QED
      BY <3>1, <3>3 DEF IsEvidence, RowIsValid
  <2> QED
    BY <1>3, <1>4, <2>4, <2>7 DEF DailyInv, LedgerIsTyped
<1>7. UNCHANGED evidence \/ (RowIsValid(row) /\ evidence' = [k \in DOMAIN evidence \union {<<c, d>>} |->
                                IF k = <<c, d>> THEN row ELSE evidence[k]])
  BY <1>2
<1> QED
  BY <1>3, <1>4, <1>5, <1>6, <1>7 DEF DailyInv

(* The grid of a full ledger is valid, so what is built is what is stored.  *)
LEMMA BuildStep ==
    ASSUME DailyInv, BuildMapping
    PROVE  DailyInv'
<1>1. UNCHANGED <<calendar, label, evidence>> /\ DOMAIN evidence = Candidates \X Observed
  BY DEF BuildMapping
<1>2. LedgerIsFull
  BY <1>1 DEF DailyInv, LedgerIsTyped, LedgerIsFull
<1>3. GridIsValid
  <2>1. ASSUME NEW k \in DOMAIN evidence
        PROVE  RowIsValid(evidence[k]) /\ evidence[k].component = label[k[2]]
    <3>1. PICK c \in Candidates, d \in Observed : k = <<c, d>>
      BY <1>1
    <3>2. IsEvidence(evidence[k], c, d)
      BY <1>2, <3>1 DEF LedgerIsFull
    <3> QED
      BY <3>1, <3>2 DEF IsEvidence
  <2> QED
    BY <1>1, <2>1 DEF GridIsValid
<1>4. PICK draw \in [Bootstrapped -> Bounds] :
        mapping' = IF ArtifactIsValid(BuiltFrom(draw))
                   THEN [status |-> "mapped", artifact |-> BuiltFrom(draw),
                         baseline |-> GlobalBaseline(draw)]
                   ELSE Refused
  <2>1. \A draw :
          LET assessed == [x \in Components |->
                             {Assessment(x, c, LowerBound(x, c, draw), StrictPolicy) :
                                 c \in Candidates}]
          IN  [assessments |-> assessed, entries |-> [x \in Components |-> Entry(x, assessed[x])]]
                = BuiltFrom(draw)
    BY DEF BuiltFrom, AssessedAt
  <2> QED
    BY <1>3, <2>1 DEF BuildMapping
<1>5. IsDraw(draw)
  BY DEF IsDraw
<1>6. mapping' = [status |-> "mapped", artifact |-> BuiltFrom(draw), baseline |-> GlobalBaseline(draw)]
  BY <1>2, <1>4, <1>5, BuiltIsValid
<1>7. PICK artifact, baseline : artifact = BuiltFrom(draw) /\ baseline = GlobalBaseline(draw)
  OBVIOUS
<1>8. \A x \in Components : SoundAt(artifact, baseline, x)
  BY <1>2, <1>5, <1>7, BuiltIsSound
<1>9. \A x \in Components : SoundAt(artifact, baseline, x)'
  BY <1>1, <1>8, SoundIsKept
<1>10. mapping'.artifact = artifact /\ mapping'.baseline = baseline /\ mapping'.status = "mapped"
  BY <1>6, <1>7
<1>11. mapping' # Refused
  BY <1>10 DEF Refused
<1>12. \A x \in Components : SoundAt(mapping.artifact, mapping.baseline, x)'
  <2>1. SUFFICES ASSUME NEW x \in Components PROVE SoundAt(mapping.artifact, mapping.baseline, x)'
    OBVIOUS
  <2>2. SoundAt(artifact, baseline, x)'
    BY <1>9
  <2> QED
    BY <1>10, <2>2 DEF SoundAt
<1>13. MappingIsSound'
  BY <1>11, <1>12 DEF MappingIsSound, SoundAt, BuiltUnder, IsMapped, Refused
<1>14. CalendarIsTyped' /\ LedgerIsTyped'
  BY <1>1, LedgerIsKept DEF DailyInv
<1> QED
  BY <1>13, <1>14 DEF DailyInv

LEMMA FailStep ==
    ASSUME DailyInv, BootstrapFails
    PROVE  DailyInv'
<1>1. UNCHANGED <<calendar, label, evidence>> /\ mapping' = Failed
  BY DEF BootstrapFails
<1>2. mapping' # Refused /\ ~IsMapped'
  BY <1>1, StatusesDiffer DEF IsMapped
<1>3. MappingIsSound'
  BY <1>2 DEF MappingIsSound, Refused
<1>4. CalendarIsTyped' /\ LedgerIsTyped'
  BY <1>1, LedgerIsKept DEF DailyInv
<1> QED
  BY <1>3, <1>4 DEF DailyInv

LEMMA StillStep ==
    ASSUME DailyInv, UNCHANGED dailyVars
    PROVE  DailyInv'
<1>1. UNCHANGED <<calendar, label, evidence>> /\ mapping' = mapping
  BY DEF dailyVars
<1>2. PICK artifact, baseline : artifact = mapping.artifact /\ baseline = mapping.baseline
  OBVIOUS
<1>3. IsMapped => \A x \in Components : SoundAt(artifact, baseline, x)
  BY <1>2, SoundMeans DEF DailyInv
<1>4. IsMapped' <=> IsMapped
  BY <1>1 DEF IsMapped
<1>5. IsMapped' => \A x \in Components : SoundAt(artifact, baseline, x)'
  BY <1>1, <1>3, <1>4, SoundIsKept
<1>6. mapping'.artifact = artifact /\ mapping'.baseline = baseline
  BY <1>1, <1>2
<1>7. ASSUME IsMapped', NEW x \in Components PROVE SoundAt(mapping.artifact, mapping.baseline, x)'
  <2>1. SoundAt(artifact, baseline, x)'
    BY <1>5, <1>7
  <2> QED
    BY <1>6, <2>1 DEF SoundAt
<1>8. mapping' # Refused
  BY <1>1, SoundMeans DEF DailyInv, Refused
<1>9. MappingIsSound'
  BY <1>7, <1>8 DEF MappingIsSound, SoundAt, BuiltUnder, IsMapped, Refused
<1>10. CalendarIsTyped' /\ LedgerIsTyped'
  BY <1>1, LedgerIsKept DEF DailyInv
<1> QED
  BY <1>9, <1>10 DEF DailyInv

(* The mapping of the daily evidence is sound, for any days, labels,        *)
(* replays, policies and bootstrap bounds: evidence that was written is     *)
(* never refused when the mapping is built; a mapped strategy is justified  *)
(* by the days of its component; reassessing the stored mapping agrees with *)
(* building it anew, and a tighter policy maps nothing that a looser one    *)
(* leaves in cash; with all days in one component the mapping is the        *)
(* baseline.                                                                *)
THEOREM MappingStaysSound == DailySpec => []MappingIsSound
<1>1. DailyInit => DailyInv
  BY DailyStart
<1>2. DailyInv /\ [DailyNext]_dailyVars => DailyInv'
  BY EvidenceStep, BuildStep, FailStep, StillStep DEF DailyNext
<1>3. DailyInv => MappingIsSound
  BY DEF DailyInv
<1> QED
  BY <1>1, <1>2, <1>3, PTL DEF DailySpec

-----------------------------------------------------------------------------
(* The audit of a published experiment.                                     *)

IsOver(f, S) == f = [x \in S |-> f[x]]

(* What a publication of an experiment without a wrong step consists of.    *)
Labels(a, c) == Assigned(Fitted(a, c), a)
RowsOfRun(a, c) == Replayed(Labels(a, c), Manifest(c), a)
MappingOfRun(a, c) ==
    IF HasModel(Fitted(a, c)) THEN Built(Fitted(a, c), Manifest(c), RowsOfRun(a, c))
    ELSE Sentinel(Fitted(a, c))
BaselineOfRun(a, c) == BaselineOf(Manifest(c), RowsOfRun(a, c))
ComparisonsOfRun(a, c) == Tested(Fitted(a, c), MappingOfRun(a, c), BaselineOfRun(a, c), a)
IfModel(a, c, content) == IF HasModel(Fitted(a, c)) THEN content ELSE Nothing

LEMMA Unaltered ==
    ASSUME NEW kind, NEW from
    PROVE  [Content(kind, from) EXCEPT !.altered = FALSE] = Content(kind, from)
<1>1. \A x : LET r == [kind |-> kind, from |-> from, altered |-> x]
           IN  [r EXCEPT !.altered = x] = r
  OBVIOUS
<1> QED BY <1>1, Zenon DEF Content

LEMMA FittedIsContent ==
    ASSUME NEW a, NEW c
    PROVE  /\ Fitted(a, c) = Content(Fitted(a, c).kind, <<a, c>>)
           /\ Fitted(a, c).from = <<a, c>>
           /\ Fitted(a, c).kind \in {"artifact", "failed-model-gates", "technical_failure"}
           /\ Recomputed(a, c) = Fitted(a, c)
<1>1. CASE a \in GateFailing
  <2>1. Fitted(a, c) = Content("failed-model-gates", <<a, c>>)
    BY <1>1 DEF Fitted, FailedAttempt
  <2>2. Recomputed(a, c) = Content("failed-model-gates", <<a, c>>)
    <3>1. a \notin Unfittable
      BY <1>1, AuditAssumption
    <3> QED BY <1>1, <3>1 DEF Recomputed
  <2> QED BY <2>1, <2>2 DEF Content
<1>2. CASE a \notin GateFailing /\ a \in Unfittable
  <2>1. Fitted(a, c) = Content("technical_failure", <<a, c>>)
    BY <1>2 DEF Fitted, FailedAttempt
  <2>2. Recomputed(a, c) = Content("technical_failure", <<a, c>>)
    BY <1>2 DEF Recomputed
  <2> QED BY <2>1, <2>2 DEF Content
<1>3. CASE a \notin GateFailing /\ a \notin Unfittable
  <2>1. Fitted(a, c) = Content("artifact", <<a, c>>)
    BY <1>3 DEF Fitted
  <2>2. Recomputed(a, c) = Content("artifact", <<a, c>>)
    BY <1>3 DEF Recomputed
  <2> QED BY <2>1, <2>2 DEF Content
<1> QED BY <1>1, <1>2, <1>3

LEMMA Expected ==
    ASSUME NEW a, NEW c
    PROVE  Publication(a, c, "none") =
             [stage |-> Content(Stage(Fitted(a, c)), <<>>), sources |-> Content("sources", <<a>>),
              model |-> Fitted(a, c), fileModel |-> Fitted(a, c),
              manifest |-> IfModel(a, c, Manifest(c)), labels |-> IfModel(a, c, Labels(a, c)),
              rows |-> IfModel(a, c, RowsOfRun(a, c)), ledger |-> IfModel(a, c, RowsOfRun(a, c)),
              mapping |-> MappingOfRun(a, c), fileMapping |-> MappingOfRun(a, c),
              baseline |-> IfModel(a, c, BaselineOfRun(a, c)),
              comparisons |-> IfModel(a, c, ComparisonsOfRun(a, c)),
              markdown |-> Content("markdown", <<Fitted(a, c), MappingOfRun(a, c)>>)]
<1> DEFINE step(p, content) == [content EXCEPT !.altered = ("none" = p)]
<1>1. \A kind, from : \A p \in Steps : step(p, Content(kind, from)) = Content(kind, from)
  <2> SUFFICES ASSUME NEW kind, NEW from, NEW p \in Steps
               PROVE  step(p, Content(kind, from)) = Content(kind, from)
    OBVIOUS
  <2>1. ("none" = p) = FALSE
    BY DEF Steps
  <2> QED BY <2>1, Unaltered
<1>2. step("model", Fitted(a, c)) = Fitted(a, c)
  <2> DEFINE kind == Fitted(a, c).kind
             from == <<a, c>>
  <2>1. Fitted(a, c) = Content(kind, from) /\ "model" \in Steps
    BY FittedIsContent DEF Steps
  <2> HIDE DEF kind, from
  <2>2. step("model", Content(kind, from)) = Content(kind, from)
    BY <1>1, <2>1
  <2> QED BY <2>1, <2>2
<1>3. step("manifest", Manifest(c)) = Manifest(c)
  BY <1>1 DEF Steps, Manifest
<1>4. step("labels", Labels(a, c)) = Labels(a, c)
  BY <1>1 DEF Steps, Labels, Assigned
<1>5. step("rows", RowsOfRun(a, c)) = RowsOfRun(a, c)
  BY <1>1 DEF Steps, RowsOfRun, Replayed
<1>6. step("mapping", MappingOfRun(a, c)) = MappingOfRun(a, c)
  BY <1>1 DEF Steps, MappingOfRun, Built, Sentinel
<1>7. step("baseline", BaselineOfRun(a, c)) = BaselineOfRun(a, c)
  BY <1>1 DEF Steps, BaselineOfRun, BaselineOf
<1>8. step("comparisons", ComparisonsOfRun(a, c)) = ComparisonsOfRun(a, c)
  BY <1>1 DEF Steps, ComparisonsOfRun, Tested
<1> HIDE DEF step
<1> DEFINE model == step("model", Fitted(a, c))
           manifest == step("manifest", Manifest(c))
           labels == step("labels", Assigned(model, a))
           replays == step("rows", Replayed(labels, manifest, a))
           table == step("mapping", IF HasModel(model) THEN Built(model, manifest, replays)
                                                       ELSE Sentinel(model))
           baseline == step("baseline", BaselineOf(manifest, replays))
           comparisons == step("comparisons", Tested(model, table, baseline, a))
<1>9. labels = Labels(a, c)
  BY <1>2, <1>4 DEF Labels
<1>10. replays = RowsOfRun(a, c)
  BY <1>3, <1>5, <1>9 DEF RowsOfRun
<1>11. table = MappingOfRun(a, c)
  BY <1>2, <1>3, <1>6, <1>10 DEF MappingOfRun
<1>12. baseline = BaselineOfRun(a, c)
  BY <1>3, <1>7, <1>10 DEF BaselineOfRun
<1>13. comparisons = ComparisonsOfRun(a, c)
  BY <1>2, <1>8, <1>11, <1>12 DEF ComparisonsOfRun
<1>14. Publication(a, c, "none") =
         [stage |-> Content(Stage(model), <<>>), sources |-> Content("sources", <<a>>),
          model |-> model, fileModel |-> model,
          manifest |-> IF HasModel(model) THEN manifest ELSE Nothing,
          labels |-> IF HasModel(model) THEN labels ELSE Nothing,
          rows |-> IF HasModel(model) THEN replays ELSE Nothing,
          ledger |-> IF HasModel(model) THEN replays ELSE Nothing,
          mapping |-> table, fileMapping |-> table,
          baseline |-> IF HasModel(model) THEN baseline ELSE Nothing,
          comparisons |-> IF HasModel(model) THEN comparisons ELSE Nothing,
          markdown |-> Content("markdown", <<model, table>>)]
  BY DEF Publication, step
<1> HIDE DEF model, manifest, labels, replays, table, baseline, comparisons
<1>15. model = Fitted(a, c) /\ manifest = Manifest(c)
  BY <1>2, <1>3 DEF model, manifest
<1> QED
  BY <1>9, <1>10, <1>11, <1>12, <1>13, <1>14, <1>15 DEF IfModel

SealedOver ==
    /\ DOMAIN sealed = DOMAIN Hashed
    /\ \A h \in DOMAIN Hashed : IsOver(sealed[h], Hashed[h])

LEMMA HashedParts ==
    /\ DOMAIN Hashed = {"artifact", "mapping", "evidence", "ledger", "freeze", "payload", "bytes"}
    /\ Hashed["ledger"] = {"ledger"}
    /\ \A h \in DOMAIN Hashed : h # "ledger" => "ledger" \notin Hashed[h]
    /\ \A h \in DOMAIN Hashed : Hashed[h] \subseteq Parts
BY DEF Hashed, Parts, ReportParts, Steps, Files

LEMMA HashesCompare ==
    ASSUME SealedOver, NEW h \in DOMAIN Hashed, h # "ledger"
    PROVE  HashHolds(h) <=> \A p \in Hashed[h] : sealed[h][p] = seen[p]
<1>1. IsOver(sealed[h], Hashed[h])
  BY DEF SealedOver
<1> QED BY <1>1 DEF IsOver, HashHolds, Restricted

(* Being genuine, part by part.                                             *)
PartsAgree ==
    LET a == archives
        c == code
        done == HasModel(Fitted(a, c))
    IN  /\ seen.model = Fitted(a, c) /\ seen.fileModel = Fitted(a, c)
        /\ seen.sources = Content("sources", <<a>>)
        /\ seen.manifest = IfModel(a, c, Manifest(c)) /\ seen.labels = IfModel(a, c, Labels(a, c))
        /\ seen.rows = IfModel(a, c, RowsOfRun(a, c))
        /\ published.ledger = IfModel(a, c, RowsOfRun(a, c))
        /\ seen.mapping = MappingOfRun(a, c) /\ seen.fileMapping = MappingOfRun(a, c)
        /\ seen.baseline = IfModel(a, c, BaselineOfRun(a, c))
        /\ seen.comparisons = IfModel(a, c, ComparisonsOfRun(a, c))
        /\ done \/ seen.markdown = Content("markdown", <<Fitted(a, c), MappingOfRun(a, c)>>)
        /\ \/ seen.stage = Content(Stage(Fitted(a, c)), <<>>)
           \/ done /\ ~NamesFailure(seen.stage)

HashesAgree ==
    /\ HashHolds("artifact") /\ HashHolds("mapping") /\ HashHolds("payload") /\ HashHolds("bytes")
    /\ HasModel(Fitted(archives, code)) =>
          HashHolds("evidence") /\ HashHolds("freeze") /\ sealed.ledger.ledger = published.ledger

LEMMA GenuineMeans ==
    ASSUME SealedOver
    PROVE  IsGenuine <=> PartsAgree /\ HashesAgree
<1> DEFINE e == Publication(archives, code, "none")
           judged == [p \in Parts |-> IF p = "ledger" THEN published[p] ELSE seen[p]]
           done == HasModel(e.model)
           only(p) == \/ p = "markdown"
                      \/ p = "stage" /\ ~NamesFailure(seen.stage)
           A == \A p \in Parts : judged[p] = e[p] \/ (done /\ only(p))
           B == \A h \in DOMAIN Hashed : done \/ h \notin {"ledger", "evidence", "freeze"} =>
                   \A p \in Hashed[h] : sealed[h][p] = judged[p]
<1>1. IsGenuine <=> A /\ B
  BY DEF IsGenuine
<1>2. /\ e.stage = Content(Stage(Fitted(archives, code)), <<>>)
      /\ e.sources = Content("sources", <<archives>>)
      /\ e.model = Fitted(archives, code) /\ e.fileModel = Fitted(archives, code)
      /\ e.manifest = IfModel(archives, code, Manifest(code))
      /\ e.labels = IfModel(archives, code, Labels(archives, code))
      /\ e.rows = IfModel(archives, code, RowsOfRun(archives, code))
      /\ e.ledger = IfModel(archives, code, RowsOfRun(archives, code))
      /\ e.mapping = MappingOfRun(archives, code) /\ e.fileMapping = MappingOfRun(archives, code)
      /\ e.baseline = IfModel(archives, code, BaselineOfRun(archives, code))
      /\ e.comparisons = IfModel(archives, code, ComparisonsOfRun(archives, code))
      /\ e.markdown = Content("markdown", <<Fitted(archives, code), MappingOfRun(archives, code)>>)
  BY Expected
<1>3. /\ judged["ledger"] = published["ledger"]
      /\ \A p \in Parts : p # "ledger" => judged[p] = seen[p]
  BY DEF Parts
<1> HIDE DEF judged
<1>4. A <=> PartsAgree
  <2>1. Parts = {"stage", "sources", "model", "fileModel", "manifest", "labels", "rows", "ledger",
                 "mapping", "fileMapping", "baseline", "comparisons", "markdown"}
    BY DEF Parts, ReportParts, Steps, Files
  <2> HIDE DEF e
  <2>3. A <=> /\ judged["model"] = e.model /\ judged["fileModel"] = e.fileModel
              /\ judged["sources"] = e.sources /\ judged["manifest"] = e.manifest
              /\ judged["labels"] = e.labels /\ judged["rows"] = e.rows
              /\ judged["ledger"] = e.ledger /\ judged["mapping"] = e.mapping
              /\ judged["fileMapping"] = e.fileMapping /\ judged["baseline"] = e.baseline
              /\ judged["comparisons"] = e.comparisons
              /\ done \/ judged["markdown"] = e.markdown
              /\ judged["stage"] = e.stage \/ (done /\ ~NamesFailure(seen.stage))
    BY <2>1
  <2> HIDE DEF A
  <2>4. /\ \A p \in {"stage", "sources", "model", "fileModel", "manifest", "labels", "rows",
                     "mapping", "fileMapping", "baseline", "comparisons", "markdown"} :
              judged[p] = seen[p]
        /\ judged["ledger"] = published.ledger
    BY <1>3, <2>1
  <2> QED BY <1>2, <2>3, <2>4 DEF PartsAgree
<1>5. B <=> HashesAgree
  <2>1. \A h \in DOMAIN Hashed : h # "ledger" =>
           (HashHolds(h) <=> \A p \in Hashed[h] : sealed[h][p] = judged[p])
    <3> SUFFICES ASSUME NEW h \in DOMAIN Hashed, h # "ledger"
                 PROVE  HashHolds(h) <=> \A p \in Hashed[h] : sealed[h][p] = judged[p]
      OBVIOUS
    <3>1. \A p \in Hashed[h] : judged[p] = seen[p]
      BY <1>3, HashedParts
    <3> QED BY <3>1, HashesCompare
  <2>2. (\A p \in Hashed["ledger"] : sealed["ledger"][p] = judged[p])
           <=> sealed.ledger.ledger = published.ledger
    BY <1>3, HashedParts
  <2> DEFINE Holds(h) == \A p \in Hashed[h] : sealed[h][p] = judged[p]
  <2>3. B <=> /\ Holds("artifact") /\ Holds("mapping") /\ Holds("payload") /\ Holds("bytes")
              /\ done => Holds("evidence") /\ Holds("freeze") /\ Holds("ledger")
    <3> HIDE DEF Holds
    <3>1. B <=> \A h \in DOMAIN Hashed : done \/ h \notin {"ledger", "evidence", "freeze"} => Holds(h)
      BY DEF Holds
    <3> HIDE DEF B, done
    <3> QED BY <3>1, HashedParts
  <2>4. \A h \in {"artifact", "mapping", "payload", "bytes", "evidence", "freeze"} :
           Holds(h) <=> HashHolds(h)
    <3>1. \A h \in {"artifact", "mapping", "payload", "bytes", "evidence", "freeze"} :
             h \in DOMAIN Hashed /\ h # "ledger"
      BY HashedParts
    <3> QED BY <2>1, <3>1
  <2>5. Holds("ledger") <=> sealed.ledger.ledger = published.ledger
    BY <2>2
  <2>6. done <=> HasModel(Fitted(archives, code))
    BY <1>2
  <2> HIDE DEF B, Holds, done, e
  <2> QED BY <2>3, <2>4, <2>5, <2>6 DEF HashesAgree
<1> HIDE DEF A, B
<1> QED BY <1>1, <1>4, <1>5

(* The audit of a completed experiment.                                     *)
LEMMA CompletedIsExact ==
    ASSUME SealedOver, ~NamesFailure(seen.stage)
    PROVE  CompletedHolds <=> IsGenuine
<1> DEFINE a == archives
           c == code
           m == Fitted(a, c)
<1>1. Refitted = m /\ m.from = <<a, c>> /\ m.from # <<>> /\ m.from[1] = a
  <2>1. Refitted = m /\ m.from = <<a, c>>
    BY FittedIsContent DEF Refitted
  <2> HIDE DEF m, a, c
  <2> QED BY <2>1
<1>2. HasModel(m) \/ NamesFailure(Content(Stage(m), <<>>))
  BY FittedIsContent DEF HasModel, NamesFailure, Stage, Content
<1> HIDE DEF m, a, c
<1>3. ASSUME CompletedHolds PROVE PartsAgree /\ HashesAgree
  <2>1. HasModel(m) /\ seen.fileModel = m /\ seen.model = m /\ HashHolds("artifact")
    BY <1>1, <1>3 DEF CompletedHolds, ModelHolds
  <2>2. AuditedModel = m
    BY <1>1, <2>1 DEF AuditedModel
  <2>3. seen.manifest = Manifest(c) /\ seen.labels = Labels(a, c) /\ HashHolds("evidence")
    BY <1>3, <2>2 DEF CompletedHolds, ManifestHolds, EvidenceHolds, Labels, m, a, c
  <2>4. ReplayedRows = RowsOfRun(a, c)
    BY <2>2 DEF ReplayedRows, RowsOfRun, Labels, m, a, c
  <2>5. /\ seen.rows = RowsOfRun(a, c) /\ published.ledger = RowsOfRun(a, c)
        /\ sealed.ledger.ledger = published.ledger
    BY <1>3, <2>4 DEF CompletedHolds, ReplayHolds
  <2>6. RebuiltMapping = MappingOfRun(a, c)
    BY <2>1, <2>3, <2>4 DEF RebuiltMapping, MappingOfRun, m
  <2>7. seen.mapping = MappingOfRun(a, c) /\ seen.fileMapping = MappingOfRun(a, c) /\ HashHolds("mapping")
    BY <1>3, <2>6 DEF CompletedHolds, MappingHolds
  <2>8. seen.baseline = BaselineOfRun(a, c)
    BY <1>3, <2>3, <2>4 DEF CompletedHolds, BaselineHolds, BaselineOfRun
  <2>9. seen.comparisons = ComparisonsOfRun(a, c)
    BY <1>3, <2>2, <2>6, <2>8 DEF CompletedHolds, ComparisonsHold, ComparisonsOfRun, m, a
  <2>10. seen.sources = Content("sources", <<a>>)
    BY <1>3 DEF CompletedHolds, RawInputsHold, a
  <2>11. HashHolds("freeze") /\ HashHolds("payload") /\ HashHolds("bytes")
    BY <1>3 DEF CompletedHolds, FreezeHolds, BindingHolds
  <2>12. \A content : IfModel(a, c, content) = content
    BY <2>1 DEF IfModel, m
  <2>13. PartsAgree
    BY <2>1, <2>3, <2>5, <2>7, <2>8, <2>9, <2>10, <2>12 DEF PartsAgree, m, a, c
  <2> QED BY <2>1, <2>3, <2>5, <2>7, <2>11, <2>13 DEF HashesAgree
<1>4. ASSUME PartsAgree, HashesAgree PROVE CompletedHolds
  <2>1. HasModel(m)
    BY <1>2, <1>4 DEF PartsAgree, m, a, c
  <2>2. \A content : IfModel(a, c, content) = content
    BY <2>1 DEF IfModel, m
  <2>3. /\ seen.model = m /\ seen.fileModel = m /\ seen.sources = Content("sources", <<a>>)
        /\ seen.manifest = Manifest(c) /\ seen.labels = Labels(a, c) /\ seen.rows = RowsOfRun(a, c)
        /\ published.ledger = RowsOfRun(a, c)
        /\ seen.mapping = MappingOfRun(a, c) /\ seen.fileMapping = MappingOfRun(a, c)
        /\ seen.baseline = BaselineOfRun(a, c) /\ seen.comparisons = ComparisonsOfRun(a, c)
    BY <1>4, <2>2 DEF PartsAgree, m, a, c
  <2>4. /\ HashHolds("artifact") /\ HashHolds("mapping") /\ HashHolds("payload")
        /\ HashHolds("bytes") /\ HashHolds("evidence") /\ HashHolds("freeze")
        /\ sealed.ledger.ledger = published.ledger
    BY <1>4, <2>1 DEF HashesAgree, m, a, c
  <2>5. AuditedModel = m
    BY <1>1, <2>1 DEF AuditedModel
  <2>6. ReplayedRows = RowsOfRun(a, c)
    BY <2>5 DEF ReplayedRows, RowsOfRun, Labels, m, a, c
  <2>7. RebuiltMapping = MappingOfRun(a, c)
    BY <2>1, <2>3, <2>6 DEF RebuiltMapping, MappingOfRun, m
  <2>8. ModelHolds /\ RawInputsHold
    BY <1>1, <2>1, <2>3, <2>4 DEF ModelHolds, RawInputsHold, a
  <2>9. ManifestHolds /\ EvidenceHolds
    BY <2>3, <2>4, <2>5 DEF ManifestHolds, EvidenceHolds, Labels, m, a, c
  <2>10. ReplayHolds /\ MappingHolds /\ FreezeHolds /\ BindingHolds
    BY <2>3, <2>4, <2>6, <2>7 DEF ReplayHolds, MappingHolds, FreezeHolds, BindingHolds
  <2>11. BaselineHolds
    BY <2>3, <2>6 DEF BaselineHolds, BaselineOfRun
  <2>12. ComparisonsHold
    BY <2>3, <2>5, <2>7 DEF ComparisonsHold, ComparisonsOfRun, m, a
  <2> QED BY <2>8, <2>9, <2>10, <2>11, <2>12 DEF CompletedHolds
<1> QED BY <1>3, <1>4, GenuineMeans

(* The audit of one that ended with a model that failed.                    *)
LEMMA FailedIsExact ==
    ASSUME SealedOver, NamesFailure(seen.stage)
    PROVE  FailedTerminalHolds <=> IsGenuine
<1> DEFINE a == archives
           c == code
           m == Fitted(a, c)
           later == Steps \ {"model", "mapping"}
<1>1. Refitted = m /\ m.from = <<a, c>> /\ m.from # <<>> /\ m.from[1] = a
  <2>1. Refitted = m /\ m.from = <<a, c>>
    BY FittedIsContent DEF Refitted
  <2> HIDE DEF m, a, c
  <2> QED BY <2>1
<1>2. HasModel(m) \/ m.kind \in {"failed-model-gates", "technical_failure"}
  BY FittedIsContent DEF HasModel
<1>3. m.kind \in {"failed-model-gates", "technical_failure"} => ~HasModel(m)
  BY DEF HasModel
<1>4. HasModel(m) => seen.stage # Content(Stage(m), <<>>)
  <2>1. HasModel(m) => ~NamesFailure(Content(Stage(m), <<>>))
    BY DEF HasModel, NamesFailure, Stage, Content
  <2> QED BY <2>1
<1>5. later = {"manifest", "labels", "rows", "baseline", "comparisons"}
  BY DEF Steps
<1> HIDE DEF m, a, c, later
<1>6. ASSUME FailedTerminalHolds PROVE PartsAgree /\ HashesAgree
  <2>1. /\ seen.fileModel = m /\ m.kind \in {"failed-model-gates", "technical_failure"}
        /\ seen.stage = Content(Stage(m), <<>>) /\ seen.model = m
    BY <1>1, <1>6 DEF FailedTerminalHolds, AttemptIsExact, AttemptIsRefitted
  <2>2. ~HasModel(m)
    BY <1>3, <2>1
  <2>3. \A content : IfModel(a, c, content) = Nothing
    BY <2>2 DEF IfModel, m
  <2>4. MappingOfRun(a, c) = Sentinel(m)
    BY <2>2 DEF MappingOfRun, m
  <2>5. /\ seen.fileMapping = Sentinel(m) /\ seen.mapping = Sentinel(m)
        /\ seen.markdown = Content("markdown", <<m, Sentinel(m)>>)
        /\ published.ledger = Nothing
        /\ seen.sources = Content("sources", <<a>>)
    BY <1>6, <2>1 DEF FailedTerminalHolds, RawInputsHold, FailedMarkdown, a
  <2>6. \A p \in later : seen[p] = Nothing
    BY <1>6 DEF FailedTerminalHolds, later
  <2>7. HashHolds("artifact") /\ HashHolds("mapping") /\ HashHolds("payload") /\ HashHolds("bytes")
    BY <1>6 DEF FailedTerminalHolds, BindingHolds
  <2>8. PartsAgree
    BY <1>5, <2>1, <2>3, <2>4, <2>5, <2>6 DEF PartsAgree, m, a, c
  <2> QED BY <2>2, <2>7, <2>8 DEF HashesAgree, m, a, c
<1>7. ASSUME PartsAgree, HashesAgree PROVE FailedTerminalHolds
  <2>1. ~HasModel(m) /\ seen.stage = Content(Stage(m), <<>>)
    BY <1>4, <1>7 DEF PartsAgree, m, a, c
  <2>2. \A content : IfModel(a, c, content) = Nothing
    BY <2>1 DEF IfModel, m
  <2>3. MappingOfRun(a, c) = Sentinel(m)
    BY <2>1 DEF MappingOfRun, m
  <2>4. /\ seen.model = m /\ seen.fileModel = m /\ seen.sources = Content("sources", <<a>>)
        /\ \A p \in later : seen[p] = Nothing
        /\ published.ledger = Nothing
        /\ seen.mapping = Sentinel(m) /\ seen.fileMapping = Sentinel(m)
        /\ seen.markdown = Content("markdown", <<m, Sentinel(m)>>)
    BY <1>5, <1>7, <2>1, <2>2, <2>3 DEF PartsAgree, m, a, c
  <2>5. HashHolds("artifact") /\ HashHolds("mapping") /\ BindingHolds
    BY <1>7 DEF HashesAgree, BindingHolds
  <2>6. AttemptIsExact(m) /\ AttemptIsRefitted(m)
    BY <1>1, <1>2, <2>1 DEF AttemptIsExact, AttemptIsRefitted
  <2>7. RawInputsHold
    BY <1>1, <2>4 DEF RawInputsHold, a
  <2> QED
    BY <2>4, <2>5, <2>6, <2>7 DEF FailedTerminalHolds, FailedMarkdown, later
<1> QED BY <1>6, <1>7, GenuineMeans

-----------------------------------------------------------------------------
Verdicts == {"unread", "reading", "passed", "failed"}
AuditInv == verdict \in Verdicts /\ SealedOver /\ AuditIsExact

LEMMA RestrictedIsOver ==
    ASSUME NEW f, NEW S
    PROVE  IsOver(Restricted(f, S), S)
BY DEF IsOver, Restricted

LEMMA AuditStep == AuditInv /\ [AuditNext]_auditVars => AuditInv'
<1> SUFFICES ASSUME AuditInv, [AuditNext]_auditVars PROVE AuditInv'
  OBVIOUS
<1>1. ASSUME NEW p, NEW content, Change(p, content) PROVE AuditInv'
  BY <1>1 DEF Change, AuditInv, SealedOver, AuditIsExact, Verdicts
<1>2. CASE \E h \in DOMAIN Hashed : Rehash(h)
  <2>1. PICK h \in DOMAIN Hashed : Rehash(h)
    BY <1>2
  <2> DEFINE r == Restricted(published, Hashed[h])
  <2>2. sealed' = [sealed EXCEPT ![h] = r] /\ verdict = "unread" /\ verdict' = verdict
    BY <2>1 DEF Rehash
  <2>3. IsOver(r, Hashed[h])
    BY RestrictedIsOver
  <2> HIDE DEF r
  <2>4. SealedOver'
    <3> SUFFICES ASSUME NEW g \in DOMAIN Hashed PROVE IsOver(sealed'[g], Hashed[g])
      BY <2>2 DEF AuditInv, SealedOver
    <3>1. CASE g = h
      BY <2>2, <2>3, <3>1 DEF AuditInv, SealedOver
    <3>2. CASE g # h
      BY <2>2, <3>2 DEF AuditInv, SealedOver
    <3> QED BY <3>1, <3>2
  <2> QED BY <2>2, <2>4 DEF AuditInv, AuditIsExact, Verdicts
<1>3. CASE \E a \in Archives, c \in Codes : Update(a, c)
  BY <1>3 DEF Update, AuditInv, SealedOver, AuditIsExact, Verdicts
<1>4. CASE ReadInputs
  BY <1>4 DEF ReadInputs, AuditInv, SealedOver, AuditIsExact, Verdicts
<1>5. CASE Judge
  <2> DEFINE holds == IF NamesFailure(seen.stage) THEN FailedTerminalHolds ELSE CompletedHolds
  <2>1. /\ verdict' = IF holds THEN "passed" ELSE "failed"
        /\ UNCHANGED <<archives, code, published, sealed, changes, seen>>
    BY <1>5 DEF Judge
  <2>2. holds <=> IsGenuine
    BY CompletedIsExact, FailedIsExact DEF AuditInv
  <2> HIDE DEF holds
  <2>3. IsGenuine' <=> IsGenuine
    BY <2>1 DEF IsGenuine, NamesFailure
  <2> QED BY <2>1, <2>2, <2>3 DEF AuditInv, SealedOver, AuditIsExact, Verdicts
<1>6. CASE UNCHANGED auditVars
  <2>1. IsGenuine' <=> IsGenuine
    BY <1>6 DEF auditVars, IsGenuine, NamesFailure
  <2> QED BY <1>6, <2>1 DEF auditVars, AuditInv, SealedOver, AuditIsExact, Verdicts
<1> QED
  BY <1>1, <1>2, <1>3, <1>4, <1>5, <1>6 DEF AuditNext, Alter, Overwrite

(* The audit passes a publication if and only if refitting, replaying and   *)
(* rebuilding from the archives gives it: audit_three_day_k4_daily_mapping, *)
(* whatever was altered, overwritten, hashed again or updated before.       *)
THEOREM AuditStaysExact == AuditSpec => []AuditIsExact
<1>1. AuditInit => AuditInv
  <2> SUFFICES ASSUME AuditInit PROVE AuditInv
    OBVIOUS
  <2>1. sealed = Sealed(published) /\ verdict = "unread"
    BY DEF AuditInit
  <2>2. SealedOver
    BY <2>1, RestrictedIsOver DEF SealedOver, Sealed
  <2> QED BY <2>1, <2>2 DEF AuditInv, AuditIsExact, Verdicts
<1>2. AuditInv => AuditIsExact
  BY DEF AuditInv
<1> QED BY <1>1, <1>2, AuditStep, PTL DEF AuditSpec
=============================================================================
