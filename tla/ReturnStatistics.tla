-------------------------- MODULE ReturnStatistics --------------------------
(***************************************************************************)
(* The statistics the strategy mappings are built on, over sequences of    *)
(* episode results. The code computes them in Decimal; here a ratio is a   *)
(* pair of integers with a positive denominator, compared by cross         *)
(* multiplication, so that nothing is rounded. A result of v is a return   *)
(* of v / Equity on the initial equity of an episode.                      *)
(***************************************************************************)
EXTENDS Integers, Sequences, FiniteSets, SequencesExt

CONSTANTS
    Equity,     \* initial_equity of every episode
    TailPart,   \* the tail is one TailPart-th of the episodes, at least one
    TopTrades   \* how many of the best trades the concentration looks at

ASSUME StatisticsAssumption ==
    Equity \in Nat \ {0} /\ TailPart \in Nat \ {0} /\ TopTrades \in Nat \ {0}

Zero == <<0, 1>>
Less(a, b) == a[1] * b[2] < b[1] * a[2]
Equal(a, b) == a[1] * b[2] = b[1] * a[2]
AtMostZero(a) == a[1] <= 0
Least(S) == CHOOSE a \in S : \A b \in S : ~Less(b, a)
Greatest(S) == CHOOSE a \in S : \A b \in S : ~Less(a, b)

Total(s) ==
    LET total[i \in 0..Len(s)] == IF i = 0 THEN 0 ELSE total[i - 1] + s[i] IN total[Len(s)]
Product(s) ==
    LET product[i \in 0..Len(s)] == IF i = 0 THEN 1 ELSE product[i - 1] * s[i]
    IN  product[Len(s)]

(* The numbers of a finite set, the smallest first *)
InOrder(S) ==
    [k \in 1..Cardinality(S) |-> CHOOSE n \in S : Cardinality({m \in S : m < n}) = k - 1]

(* Greater values first, the first of equals before the others *)
Outdoes(s, j, i) == s[j] > s[i] \/ (s[j] = s[i] /\ j < i)
Ascending(s) ==
    [k \in DOMAIN s |->
        s[CHOOSE i \in DOMAIN s : Cardinality({j \in DOMAIN s : Outdoes(s, j, i)}) = Len(s) - k]]

Gains(s) == SelectSeq(s, LAMBDA v : v > 0)

Mean(s) == IF s = <<>> THEN Zero ELSE <<Total(s), Len(s) * Equity>>

Median(s) ==
    LET a == Ascending(s)
        m == Len(a) \div 2
    IN  IF s = <<>> THEN Zero
        ELSE IF Len(a) % 2 = 1 THEN <<a[m + 1], Equity>>
        ELSE <<a[m] + a[m + 1], 2 * Equity>>

TailLength(n) == (n + TailPart - 1) \div TailPart

(* Mean of the worst part of the episodes. *)
ExpectedShortfall(s) ==
    LET k == TailLength(Len(s))
    IN  IF s = <<>> THEN Zero
        ELSE <<Total(SubSeq(Ascending(s), 1, k)), k * Equity>>

(* Equity after the first i of n episodes, times Equity^(n - 1). *)
EquityAfter(s, i) ==
    Product([j \in 1..Len(s) |-> IF j <= i THEN Equity + s[j] ELSE Equity])

Compound(s) ==
    LET start == EquityAfter(s, 0)
    IN  <<EquityAfter(s, Len(s)) - start, start>>

(* The largest loss from a peak, the initial equity being the first one. *)
MaximumDrawdown(s) ==
    LET curve == [i \in 1..(Len(s) + 1) |-> EquityAfter(s, i - 1)]
        loss(i, p) == <<curve[p] - curve[i], curve[p]>>
    IN  Greatest(UNION {{loss(i, p) : p \in 1..i} : i \in DOMAIN curve})

(* What is left without the best episode, the first of equals. *)
WithoutBest(s) ==
    LET best == CHOOSE i \in DOMAIN s : \A j \in DOMAIN s :
                    s[j] < s[i] \/ (s[j] = s[i] /\ i <= j)
    IN  IF Len(s) < 2 THEN <<>> ELSE RemoveAt(s, best)

(* What the k best gains are of all gains *)
TopShare(s, k) ==
    LET gain == [i \in DOMAIN s |-> IF s[i] > 0 THEN s[i] ELSE 0]
        best == [i \in DOMAIN s |->
                    IF Cardinality({j \in DOMAIN s : Outdoes(s, j, i)}) < k THEN gain[i] ELSE 0]
    IN  IF \A i \in DOMAIN s : s[i] <= 0 THEN Zero ELSE <<Total(best), Total(gain)>>

(* Order on tuples of ratios, the first difference decides. *)
Precedes(a, b) ==
    \E i \in DOMAIN a : /\ \A j \in 1..(i - 1) : Equal(a[j], b[j])
                        /\ Less(a[i], b[i])
=============================================================================
