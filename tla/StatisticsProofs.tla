--------------------------- MODULE StatisticsProofs ---------------------------
(***************************************************************************)
(* Proofs about the pure functions on lists of prices of any length: picking *)
(* the median by rank is sorting and taking the middle, the median is        *)
(* monotone in every price, RSI judges a market and its mirror image alike,  *)
(* the loop of the EMA is a weighted mean, and MACD has the sign of a        *)
(* market that only rises.                                                   *)
(***************************************************************************)
EXTENDS Statistics, CalculatorProofs, SequenceTheorems

-----------------------------------------------------------------------------
(* The list                                                                 *)

ListInv == prices \in Seq(Nat)

LEMMA ListInvariance == Spec => []ListInv
<1>1. Init => ListInv
  BY EmptySeq DEF Init, ListInv
<1>2. ListInv /\ [Next]_prices => ListInv'
  <2> SUFFICES ASSUME ListInv, [Next]_prices PROVE ListInv'
    OBVIOUS
  <2>1. ASSUME NEW p \in Prices, Push(p) PROVE ListInv'
    BY <2>1, StatisticsAssumption, AppendProperties DEF Push, ListInv
  <2>2. ASSUME NEW p \in Prices, NEW i \in DOMAIN prices, Change(i, p) PROVE ListInv'
    BY <2>2, StatisticsAssumption, ExceptSeq DEF Change, ListInv
  <2>3. QED
    BY <2>1, <2>2 DEF Next, ListInv
<1>3. QED
  BY <1>1, <1>2, PTL DEF Spec

(* A list of naturals is a finite table.                                    *)
LEMMA ListTable ==
  ASSUME NEW s \in Seq(Nat)
  PROVE  /\ Len(s) \in Nat
         /\ s \in [1 .. Len(s) -> Nat]
         /\ IsFiniteSet(1 .. Len(s)) /\ Cardinality(1 .. Len(s)) = Len(s)
<1>1. Len(s) \in Nat /\ s \in [1 .. Len(s) -> Nat]
  BY LenProperties
<1>2. /\ IsFiniteSet(1 .. Len(s))
      /\ Cardinality(1 .. Len(s)) = IF 1 > Len(s) THEN 0 ELSE Len(s) - 1 + 1
  BY <1>1, FS_Interval
<1>3. QED
  BY <1>1, <1>2

-----------------------------------------------------------------------------
(* The two middle ranks of a table                                          *)

(* The entry of a rank of a table of naturals.                              *)
LEMMA RankEntry ==
  ASSUME NEW D, IsFiniteSet(D), NEW f \in [D -> Nat], NEW k \in Nat, k < Cardinality(D)
  PROVE  /\ OrderStatistic(f, k) \in Nat
         /\ Cardinality({e \in D : f[e] < OrderStatistic(f, k)}) <= k
         /\ Cardinality({e \in D : f[e] <= OrderStatistic(f, k)}) > k
<1>1. {f[e] : e \in D} \in SUBSET Nat
  OBVIOUS
<1>2. QED
  BY <1>1, OrderStatisticRank

LowerRank(n) == IF n % 2 = 0 THEN n \div 2 - 1 ELSE n \div 2

UpperRank(n) == n \div 2

(* The doubled median is the sum of the entries of the two ranks, which are  *)
(* one and the same if the size is odd.                                     *)
LEMMA MedianRanks ==
  ASSUME NEW D, IsFiniteSet(D), D # {}, NEW f \in [D -> Nat]
  PROVE  LET n == Cardinality(D)
         IN  /\ LowerRank(n) \in Nat /\ LowerRank(n) < n
             /\ UpperRank(n) \in Nat /\ UpperRank(n) < n
             /\ calculate_aggregated_price(f)
                  = OrderStatistic(f, LowerRank(n)) + OrderStatistic(f, UpperRank(n))
<1> DEFINE n == Cardinality(D)
<1>1. n \in Nat /\ n # 0 /\ n = Cardinality(DOMAIN f)
  BY FS_CardinalityType, FS_EmptySet
<1>2. ASSUME NEW k \in Nat, k < n PROVE OrderStatistic(f, k) \in Nat
  BY <1>2, RankEntry
<1>3. calculate_aggregated_price(f) =
        IF n % 2 = 0
        THEN OrderStatistic(f, n \div 2 - 1) + OrderStatistic(f, n \div 2)
        ELSE 2 * OrderStatistic(f, n \div 2)
  BY <1>1 DEF calculate_aggregated_price
<1> HIDE DEF n
<1>4. /\ LowerRank(n) \in Nat /\ LowerRank(n) < n
      /\ UpperRank(n) \in Nat /\ UpperRank(n) < n
  BY <1>1 DEF LowerRank, UpperRank
<1>5. CASE n % 2 = 0
  BY <1>3, <1>4, <1>5 DEF LowerRank, UpperRank, n
<1>6. CASE n % 2 # 0
  <2>1. LowerRank(n) = n \div 2 /\ UpperRank(n) = n \div 2
    BY <1>6 DEF LowerRank, UpperRank
  <2>2. calculate_aggregated_price(f) = 2 * OrderStatistic(f, UpperRank(n))
    BY <1>3, <1>6, <2>1
  <2>3. OrderStatistic(f, UpperRank(n)) \in Nat
    BY <1>2, <1>4
  <2>4. QED
    BY <1>4, <2>1, <2>2, <2>3 DEF n
<1>7. QED
  BY <1>5, <1>6

(* An entry of a rank is not less than that of the same rank in a table that *)
(* is nowhere greater.                                                      *)
LEMMA RankMonotone ==
  ASSUME NEW D, IsFiniteSet(D), NEW f \in [D -> Nat], NEW g \in [D -> Nat],
         \A e \in D : f[e] <= g[e],
         NEW k \in Nat, k < Cardinality(D)
  PROVE  /\ OrderStatistic(f, k) \in Nat /\ OrderStatistic(g, k) \in Nat
         /\ OrderStatistic(f, k) <= OrderStatistic(g, k)
<1> DEFINE v == OrderStatistic(f, k)
           w == OrderStatistic(g, k)
<1>1. v \in Nat /\ Cardinality({e \in D : f[e] < v}) <= k
  BY RankEntry
<1>2. w \in Nat /\ Cardinality({e \in D : g[e] <= w}) > k
  BY RankEntry
<1> HIDE DEF v, w
<1>3. SUFFICES ASSUME w < v PROVE FALSE
  BY <1>1, <1>2 DEF v, w
<1>4. {e \in D : g[e] <= w} \subseteq {e \in D : f[e] < v}
  <2>1. ASSUME NEW e \in D, g[e] <= w PROVE f[e] < v
    <3>1. f[e] \in Nat /\ g[e] \in Nat /\ f[e] <= g[e]
      OBVIOUS
    <3>2. QED
      BY <1>1, <1>2, <1>3, <2>1, <3>1
  <2>2. QED
    BY <2>1
<1>5. IsFiniteSet({e \in D : f[e] < v})
  BY FS_Subset
<1>6. Cardinality({e \in D : g[e] <= w}) <= Cardinality({e \in D : f[e] < v})
  BY <1>4, <1>5, FS_Subset
<1>7. /\ Cardinality({e \in D : g[e] <= w}) \in Nat
      /\ Cardinality({e \in D : f[e] < v}) \in Nat
  BY <1>4, <1>5, FS_Subset, FS_CardinalityType
<1>8. QED
  BY <1>1, <1>2, <1>6, <1>7

(* Raising entries of a table never lowers its median.                      *)
LEMMA MedianGrows ==
  ASSUME NEW D, IsFiniteSet(D), D # {}, NEW f \in [D -> Nat], NEW g \in [D -> Nat],
         \A e \in D : f[e] <= g[e]
  PROVE  calculate_aggregated_price(g) >= calculate_aggregated_price(f)
<1> DEFINE lo == LowerRank(Cardinality(D))
           hi == UpperRank(Cardinality(D))
<1>1. /\ lo \in Nat /\ lo < Cardinality(D)
      /\ hi \in Nat /\ hi < Cardinality(D)
      /\ calculate_aggregated_price(f) = OrderStatistic(f, lo) + OrderStatistic(f, hi)
      /\ calculate_aggregated_price(g) = OrderStatistic(g, lo) + OrderStatistic(g, hi)
  BY MedianRanks
<1> HIDE DEF lo, hi
<1>2. ASSUME NEW k \in Nat, k < Cardinality(D)
      PROVE  /\ OrderStatistic(f, k) \in Nat /\ OrderStatistic(g, k) \in Nat
             /\ OrderStatistic(f, k) <= OrderStatistic(g, k)
  BY <1>2, RankMonotone
<1>3. QED
  BY <1>1, <1>2

(* A feed that rises never lowers the market price, for any number of feeds  *)
(* and any prices.                                                          *)
THEOREM RisingFeedNeverLowers == Spec => MedianIsMonotone
<1> DEFINE Rises ==
      /\ prices # <<>>
      /\ Len(prices') = Len(prices)
      /\ \A i \in DOMAIN prices : prices'[i] >= prices[i]
      => MarketPrice' >= MarketPrice
<1>1. ListInv /\ ListInv' => Rises
  <2> SUFFICES ASSUME ListInv, ListInv', prices # <<>>, Len(prices') = Len(prices),
                      \A i \in DOMAIN prices : prices'[i] >= prices[i]
               PROVE  MarketPrice' >= MarketPrice
    OBVIOUS
  <2> DEFINE D == 1 .. Len(prices)
  <2>1. /\ prices \in [D -> Nat] /\ prices' \in [D -> Nat]
        /\ IsFiniteSet(D) /\ D # {}
    <3>1. Len(prices) # 0
      BY EmptySeq DEF ListInv
    <3>2. QED
      BY <3>1, ListTable DEF ListInv
  <2> HIDE DEF D
  <2>2. \A e \in D : prices[e] <= prices'[e]
    BY <2>1
  <2>3. calculate_aggregated_price(prices') >= calculate_aggregated_price(prices)
    BY <2>1, <2>2, MedianGrows
  <2>4. QED
    BY <2>3 DEF MarketPrice
<1>2. QED
  BY <1>1, ListInvariance, PTL DEF Spec, MedianIsMonotone

-----------------------------------------------------------------------------
(* Sorting                                                                  *)

(* A permutation of the indices that puts the entries in ascending order.   *)
Sorts(order, f, n) ==
  /\ order \in Injection(1 .. n, 1 .. n)
  /\ \A i, j \in 1 .. n : i < j => f[order[i]] <= f[order[j]]

(* No two entries differ and are of the same rank.                          *)
LEMMA OnlyRank ==
  ASSUME NEW D, IsFiniteSet(D), NEW f \in [D -> Nat], NEW k \in Nat, k < Cardinality(D),
         NEW v, HasRank(f, k, v)
  PROVE  OrderStatistic(f, k) = v
<1> DEFINE w == OrderStatistic(f, k)
<1>0. /\ v \in Nat
      /\ Cardinality({e \in D : f[e] < v}) <= k
      /\ Cardinality({e \in D : f[e] <= v}) > k
  <2>1. DOMAIN f = D /\ {f[e] : e \in D} \in SUBSET Nat
    OBVIOUS
  <2>2. QED
    BY <2>1 DEF HasRank
<1>1. /\ w \in Nat
      /\ Cardinality({e \in D : f[e] < w}) <= k
      /\ Cardinality({e \in D : f[e] <= w}) > k
  BY RankEntry
<1> HIDE DEF w
<1>2. ASSUME NEW x \in Nat, NEW y \in Nat, x < y,
             Cardinality({e \in D : f[e] <= x}) > k,
             Cardinality({e \in D : f[e] < y}) <= k
      PROVE  FALSE
  <2>1. {e \in D : f[e] <= x} \subseteq {e \in D : f[e] < y}
    BY <1>2
  <2>2. IsFiniteSet({e \in D : f[e] < y}) /\ IsFiniteSet({e \in D : f[e] <= x})
    BY FS_Subset
  <2>3. Cardinality({e \in D : f[e] <= x}) <= Cardinality({e \in D : f[e] < y})
    BY <2>1, <2>2, FS_Subset
  <2>4. /\ Cardinality({e \in D : f[e] <= x}) \in Nat
        /\ Cardinality({e \in D : f[e] < y}) \in Nat
    BY <2>2, FS_CardinalityType
  <2>5. QED
    BY <1>2, <2>3, <2>4
<1>3. ~ (w < v) /\ ~ (v < w)
  BY <1>0, <1>1, <1>2
<1>4. w = v
  BY <1>0, <1>1, <1>3
<1>5. QED
  BY <1>4 DEF w

(* The entry of rank k is the one at place k + 1 of the sorted table.        *)
LEMMA SortedRank ==
  ASSUME NEW n \in Nat, NEW f \in [1 .. n -> Nat], NEW p, Sorts(p, f, n),
         NEW k \in Nat, k < n
  PROVE  p[k + 1] \in 1 .. n /\ OrderStatistic(f, k) = f[p[k + 1]]
<1> DEFINE D == 1 .. n
           v == f[p[k + 1]]
           below == {e \in D : f[e] < v}
           upto == {e \in D : f[e] <= v}
<1>1. IsFiniteSet(D) /\ Cardinality(D) = n
  <2>1. IsFiniteSet(1 .. n) /\ Cardinality(1 .. n) = IF 1 > n THEN 0 ELSE n - 1 + 1
    BY FS_Interval
  <2>2. QED
    BY <2>1
<1>2. p \in Injection(D, D) /\ p \in [D -> D]
  BY DEF Sorts, Injection
<1>3. \A i, j \in D : i < j => f[p[i]] <= f[p[j]]
  BY DEF Sorts
<1>4. k + 1 \in D /\ p[k + 1] \in D /\ v \in Nat
  BY <1>2
<1>5. \A e \in D : \E i \in D : p[i] = e
  <2>1. p \in Surjection(D, D)
    BY <1>1, <1>2, FS_Injection
  <2>2. QED
    BY <2>1 DEF Surjection
<1>6. IsFiniteSet(below) /\ IsFiniteSet(upto)
  BY <1>1, FS_Subset
<1> HIDE DEF v
<1>7. Cardinality(below) <= k
  <2> DEFINE first == {p[i] : i \in 1 .. k}
             q == [i \in 1 .. k |-> p[i]]
  <2>1. below \subseteq first
    <3>1. ASSUME NEW e \in below PROVE e \in first
      <4>1. e \in D /\ f[e] < v
        OBVIOUS
      <4>2. PICK i \in D : p[i] = e
        BY <1>5, <4>1
      <4>3. ~ (k + 1 <= i)
        <5>1. SUFFICES ASSUME k + 1 <= i PROVE FALSE
          OBVIOUS
        <5>2. f[e] \in Nat /\ f[e] < v
          BY <4>1
        <5>3. CASE k + 1 = i
          BY <1>4, <4>2, <5>2, <5>3 DEF v
        <5>4. CASE k + 1 < i
          <6>1. f[p[k + 1]] <= f[p[i]]
            BY <1>3, <1>4, <5>4
          <6>2. QED
            BY <1>4, <4>2, <5>2, <6>1 DEF v
        <5>5. QED
          BY <5>1, <5>3, <5>4
      <4>4. i \in 1 .. k
        BY <4>3
      <4>5. QED
        BY <4>2, <4>4
    <3>2. QED
      BY <3>1
  <2>2. IsFiniteSet(1 .. k) /\ Cardinality(1 .. k) = k
    <3>1. IsFiniteSet(1 .. k) /\ Cardinality(1 .. k) = IF 1 > k THEN 0 ELSE k - 1 + 1
      BY FS_Interval
    <3>2. QED
      BY <3>1
  <2>3. q \in Surjection(1 .. k, first)
    BY DEF Surjection
  <2>4. IsFiniteSet(first) /\ Cardinality(first) <= k
    <3> HIDE DEF first, q
    <3>1. QED BY <2>2, <2>3, FS_Surjection
  <2> HIDE DEF first, below
  <2>5. Cardinality(below) <= Cardinality(first)
    BY <2>1, <2>4, FS_Subset
  <2>6. QED
    BY <1>6, <2>4, <2>5, FS_CardinalityType
<1>8. Cardinality(upto) > k
  <2> DEFINE q == [i \in 1 .. k + 1 |-> p[i]]
  <2>1. IsFiniteSet(1 .. k + 1) /\ Cardinality(1 .. k + 1) = k + 1
    <3>1. /\ IsFiniteSet(1 .. k + 1)
          /\ Cardinality(1 .. k + 1) = IF 1 > k + 1 THEN 0 ELSE k + 1 - 1 + 1
      BY FS_Interval
    <3>2. QED
      BY <3>1
  <2>2. ASSUME NEW i \in 1 .. k + 1 PROVE i \in D /\ p[i] \in upto
    <3>1. i \in D
      OBVIOUS
    <3>2. CASE i < k + 1
      BY <1>2, <1>3, <1>4, <3>1, <3>2 DEF v
    <3>3. CASE i = k + 1
      BY <1>4, <3>3 DEF v
    <3>4. QED
      BY <3>2, <3>3
  <2>3. q \in Injection(1 .. k + 1, upto)
    <3>1. q \in [1 .. k + 1 -> upto]
      BY <2>2
    <3>2. \A a, b \in D : p[a] = p[b] => a = b
      BY <1>2 DEF Injection, IsInjective
    <3>3. IsInjective(q)
      BY <2>2, <3>2 DEF IsInjective
    <3>4. QED
      BY <3>1, <3>3 DEF Injection
  <2> HIDE DEF q, upto
  <2>4. k + 1 <= Cardinality(upto)
    BY <1>6, <2>1, <2>3, FS_Injection
  <2>5. QED
    BY <1>6, <2>4, FS_CardinalityType
<1>9. HasRank(f, k, v)
  <2>1. DOMAIN f = D /\ v \in {f[e] : e \in D}
    BY <1>4 DEF v
  <2>2. QED
    BY <1>7, <1>8, <2>1 DEF HasRank
<1>10. OrderStatistic(f, k) = v
  <2>1. f \in [D -> Nat] /\ k < Cardinality(D)
    BY <1>1
  <2> HIDE DEF D
  <2>2. QED
    BY <1>1, <1>9, <2>1, OnlyRank
<1>11. QED
  BY <1>4, <1>10 DEF v

(* Every finite table can be sorted: take a greatest entry last, and sort    *)
(* the others.  A shortest table without a sorting order cannot exist.      *)
LEMMA SortingExists ==
  ASSUME NEW n \in Nat, NEW f \in [1 .. n -> Nat]
  PROVE  \E order : Sorts(order, f, n)
<1> DEFINE Bad(k) == \E g \in [1 .. k -> Nat] : \A order : ~ Sorts(order, g, k)
<1>1. SUFFICES ASSUME Bad(n) PROVE FALSE
  OBVIOUS
<1>2. PICK m \in {k \in Nat : Bad(k)} : \A k \in {j \in Nat : Bad(j)} : m <= k
  <2>1. {k \in Nat : Bad(k)} # {}
    BY <1>1
  <2> HIDE DEF Bad
  <2>2. QED
    BY <2>1, LeastNatural
<1>3. PICK g \in [1 .. m -> Nat] : \A order : ~ Sorts(order, g, m)
  BY <1>2
<1>4. m # 0
  <2>1. SUFFICES ASSUME m = 0 PROVE FALSE
    OBVIOUS
  <2>2. 1 .. m = {}
    BY <2>1
  <2>3. Sorts([i \in {} |-> 0], g, m)
    BY <2>2 DEF Sorts, Injection, IsInjective
  <2>4. QED
    BY <1>3, <2>3
<1>5. m \in Nat \ {0} /\ m - 1 \in Nat /\ ~ Bad(m - 1)
  <2>1. m \in Nat /\ (Bad(m - 1) => ~ (m - 1 \in Nat) \/ m <= m - 1)
    <3> HIDE DEF Bad
    <3>1. QED BY <1>2
  <2> HIDE DEF Bad
  <2>2. QED
    BY <1>4, <2>1
<1>6. PICK top \in 1 .. m : \A e \in 1 .. m : g[e] <= g[top]
  <2>1. IsFiniteSet(1 .. m)
    BY <1>5, FS_Interval
  <2>2. 1 \in 1 .. m
    BY <1>5
  <2>3. QED
    BY <2>1, <2>2, GreatestEntry
<1> DEFINE move == [i \in 1 .. m |-> IF i = top THEN m ELSE i]
           rest == [i \in 1 .. m - 1 |-> g[move[i]]]
<1>7. \A i \in 1 .. m - 1 : move[i] \in 1 .. m /\ move[i] # top
  BY <1>5
<1>8. \A i, j \in 1 .. m - 1 : move[i] = move[j] => i = j
  BY <1>5
<1>9. rest \in [1 .. m - 1 -> Nat] /\ \A i \in 1 .. m - 1 : rest[i] = g[move[i]]
  BY <1>7
<1> HIDE DEF move, rest
<1>10. PICK q : Sorts(q, rest, m - 1)
  BY <1>5, <1>9
<1>11. /\ q \in [1 .. m - 1 -> 1 .. m - 1]
       /\ \A i, j \in 1 .. m - 1 : q[i] = q[j] => i = j
       /\ \A i, j \in 1 .. m - 1 : i < j => rest[q[i]] <= rest[q[j]]
  BY <1>10 DEF Sorts, Injection, IsInjective
<1> DEFINE p == [i \in 1 .. m |-> IF i = m THEN top ELSE move[q[i]]]
<1>12. ASSUME NEW i \in 1 .. m, i # m
       PROVE  /\ i \in 1 .. m - 1 /\ q[i] \in 1 .. m - 1
              /\ p[i] = move[q[i]] /\ p[i] \in 1 .. m /\ p[i] # top
              /\ g[p[i]] = rest[q[i]]
  <2>1. i \in 1 .. m - 1
    BY <1>5, <1>12
  <2>2. q[i] \in 1 .. m - 1
    BY <1>11, <2>1
  <2>3. p[i] = move[q[i]]
    BY <1>12
  <2>4. QED
    BY <1>7, <1>9, <2>1, <2>2, <2>3
<1>13. m \in 1 .. m /\ p[m] = top
  BY <1>5
<1>14. p \in [1 .. m -> 1 .. m]
  BY <1>12, <1>13
<1>15. DOMAIN p = 1 .. m
  OBVIOUS
<1> HIDE DEF p
<1>16. \A i, j \in 1 .. m : p[i] = p[j] => i = j
  <2> SUFFICES ASSUME NEW i \in 1 .. m, NEW j \in 1 .. m, p[i] = p[j] PROVE i = j
    OBVIOUS
  <2>1. CASE i = m \/ j = m
    BY <1>12, <1>13, <2>1
  <2>2. CASE i # m /\ j # m
    <3>1. /\ i \in 1 .. m - 1 /\ q[i] \in 1 .. m - 1 /\ p[i] = move[q[i]]
          /\ j \in 1 .. m - 1 /\ q[j] \in 1 .. m - 1 /\ p[j] = move[q[j]]
      BY <1>12, <2>2
    <3>2. move[q[i]] = move[q[j]]
      BY <3>1
    <3>3. q[i] = q[j]
      BY <1>8, <3>1, <3>2
    <3>4. QED
      BY <1>11, <3>1, <3>3
  <2>3. QED
    BY <2>1, <2>2
<1>17. \A i, j \in 1 .. m : i < j => g[p[i]] <= g[p[j]]
  <2> SUFFICES ASSUME NEW i \in 1 .. m, NEW j \in 1 .. m, i < j
               PROVE  g[p[i]] <= g[p[j]]
    OBVIOUS
  <2>1. i # m
    BY <1>5
  <2>2. CASE j = m
    BY <1>6, <1>12, <1>13, <2>1, <2>2
  <2>3. CASE j # m
    BY <1>11, <1>12, <2>1, <2>3
  <2>4. QED
    BY <2>2, <2>3
<1>18. Sorts(p, g, m)
  BY <1>14, <1>15, <1>16, <1>17 DEF Sorts, Injection, IsInjective
<1>19. QED
  BY <1>3, <1>18

(* The market price is what sorting the prices and taking the middle gives,  *)
(* for every list of prices, whatever its length and its ties.              *)
THEOREM RanksAreSorting == Spec => []MedianIsSortedMiddle
<1>1. ListInv => MedianIsSortedMiddle
  <2> DEFINE n == Len(prices)
  <2> SUFFICES ASSUME ListInv, n # 0
               PROVE  \E order \in Injection(1 .. n, 1 .. n) :
                        /\ \A i, j \in 1 .. n : i < j => prices[order[i]] <= prices[order[j]]
                        /\ MarketPrice = IF n % 2 = 0
                                         THEN prices[order[n \div 2]] + prices[order[n \div 2 + 1]]
                                         ELSE 2 * prices[order[n \div 2 + 1]]
    BY DEF MedianIsSortedMiddle
  <2>1. /\ n \in Nat /\ prices \in [1 .. n -> Nat]
        /\ IsFiniteSet(1 .. n) /\ Cardinality(1 .. n) = n
    BY ListTable DEF ListInv
  <2> HIDE DEF n
  <2>2. 1 .. n # {}
    BY <2>1
  <2>3. PICK order : Sorts(order, prices, n)
    BY <2>1, SortingExists
  <2>4. /\ LowerRank(n) \in Nat /\ LowerRank(n) < n
        /\ UpperRank(n) \in Nat /\ UpperRank(n) < n
        /\ MarketPrice = OrderStatistic(prices, LowerRank(n)) + OrderStatistic(prices, UpperRank(n))
    BY <2>1, <2>2, MedianRanks DEF MarketPrice
  <2>5. /\ OrderStatistic(prices, LowerRank(n)) = prices[order[LowerRank(n) + 1]]
        /\ OrderStatistic(prices, UpperRank(n)) = prices[order[UpperRank(n) + 1]]
        /\ prices[order[UpperRank(n) + 1]] \in Nat
    <3>1. /\ order[LowerRank(n) + 1] \in 1 .. n
          /\ OrderStatistic(prices, LowerRank(n)) = prices[order[LowerRank(n) + 1]]
      BY <2>1, <2>3, <2>4, SortedRank
    <3>2. /\ order[UpperRank(n) + 1] \in 1 .. n
          /\ OrderStatistic(prices, UpperRank(n)) = prices[order[UpperRank(n) + 1]]
      BY <2>1, <2>3, <2>4, SortedRank
    <3>3. QED
      BY <2>1, <3>1, <3>2
  <2>6. CASE n % 2 = 0
    <3>1. LowerRank(n) + 1 = n \div 2 /\ UpperRank(n) = n \div 2
      BY <2>1, <2>6 DEF LowerRank, UpperRank
    <3>2. MarketPrice = prices[order[n \div 2]] + prices[order[n \div 2 + 1]]
      BY <2>4, <2>5, <3>1
    <3>3. QED
      BY <2>3, <2>6, <3>2 DEF Sorts
  <2>7. CASE n % 2 # 0
    <3>1. LowerRank(n) = n \div 2 /\ UpperRank(n) = n \div 2
      BY <2>7 DEF LowerRank, UpperRank
    <3>2. MarketPrice = 2 * prices[order[n \div 2 + 1]]
      BY <2>4, <2>5, <3>1
    <3>3. QED
      BY <2>3, <2>7, <3>2 DEF Sorts
  <2>8. QED
    BY <2>6, <2>7
<1>2. QED
  BY <1>1, ListInvariance, PTL

-----------------------------------------------------------------------------
(* The market upside down                                                   *)

Gain(s) == [i \in LastIndices(s, RsiPeriod) |-> IF s[i] > s[i - 1] THEN s[i] - s[i - 1] ELSE 0]

Loss(s) == [i \in LastIndices(s, RsiPeriod) |-> IF s[i] < s[i - 1] THEN s[i - 1] - s[i] ELSE 0]

(* A list has a highest price, so its mirror image is a list of as many      *)
(* naturals.                                                                *)
LEMMA MirrorList ==
  ASSUME NEW s \in Seq(Nat), s # <<>>
  PROVE  /\ Max(Range(s)) \in Nat
         /\ Mirror(s) \in Seq(Nat)
         /\ Len(Mirror(s)) = Len(s)
         /\ \A i \in 1 .. Len(s) : Mirror(s)[i] = Max(Range(s)) + 1 - s[i]
<1>1. /\ Len(s) \in Nat /\ s \in [1 .. Len(s) -> Nat]
      /\ IsFiniteSet(1 .. Len(s)) /\ 1 .. Len(s) # {}
  BY ListTable, EmptySeq
<1>2. PICK m \in 1 .. Len(s) : \A e \in 1 .. Len(s) : s[e] <= s[m]
  BY <1>1, GreatestEntry
<1>3. Range(s) = {s[i] : i \in 1 .. Len(s)}
  BY <1>1 DEF Range
<1>4. \E x \in Range(s) : \A y \in Range(s) : x >= y
  BY <1>1, <1>2, <1>3
<1>5. PICK top : top = Max(Range(s))
  OBVIOUS
<1>6. top \in Range(s) /\ \A y \in Range(s) : top >= y
  BY <1>4, <1>5 DEF Max
<1>7. top \in Nat /\ \A i \in 1 .. Len(s) : top + 1 - s[i] \in Nat
  <2>1. top \in Nat
    BY <1>1, <1>3, <1>6
  <2>2. ASSUME NEW i \in 1 .. Len(s) PROVE top + 1 - s[i] \in Nat
    <3>1. s[i] \in Nat /\ s[i] \in Range(s)
      BY <1>1, <1>3
    <3>2. top >= s[i]
      BY <1>6, <3>1
    <3>3. QED
      BY <2>1, <3>1, <3>2
  <2>3. QED
    BY <2>1, <2>2
<1>8. Mirror(s) = [i \in 1 .. Len(s) |-> top + 1 - s[i]]
  BY <1>1, <1>5 DEF Mirror
<1>9. Mirror(s) \in [1 .. Len(s) -> Nat]
  BY <1>7, <1>8
<1>10. Mirror(s) \in Seq(Nat) /\ Len(Mirror(s)) = Len(s)
  <2>1. Mirror(s) \in Seq(Nat)
    BY <1>1, <1>9, SeqDef, Zenon
  <2>2. 1 .. Len(Mirror(s)) = 1 .. Len(s) /\ Len(Mirror(s)) \in Nat
    BY <1>9, <2>1, LenProperties
  <2>3. QED
    BY <1>1, <2>1, <2>2
<1>11. QED
  BY <1>5, <1>7, <1>8, <1>10

(* RSI is made of two sums of naturals.                                     *)
LEMMA RsiSums ==
  ASSUME NEW s \in Seq(Nat), Len(s) >= RsiPeriod + 1
  PROVE  /\ rsi(s) = [gains |-> SumFunction(Gain(s)), losses |-> SumFunction(Loss(s))]
         /\ SumFunction(Gain(s)) \in Nat
         /\ SumFunction(Loss(s)) \in Nat
<1> DEFINE w == LastIndices(s, RsiPeriod)
<1>1. Len(s) \in Nat /\ RsiPeriod \in Nat
  BY PeriodsAssumption, LenProperties
<1>2. /\ IsFiniteSet(w)
      /\ \A i \in w : s[i] \in Nat
  BY <1>1, WindowPrices
<1>3. \A i \in w : s[i - 1] \in Nat
  BY <1>1 DEF LastIndices
<1>4. Gain(s) \in [w -> Nat] /\ Loss(s) \in [w -> Nat]
  <2>1. Gain(s) = [i \in w |-> IF s[i] > s[i - 1] THEN s[i] - s[i - 1] ELSE 0]
    BY DEF Gain
  <2>2. Loss(s) = [i \in w |-> IF s[i] < s[i - 1] THEN s[i - 1] - s[i] ELSE 0]
    BY DEF Loss
  <2> HIDE DEF w
  <2>3. QED
    BY <1>2, <1>3, <2>1, <2>2
<1>5. SumFunction(Gain(s)) \in Nat /\ SumFunction(Loss(s)) \in Nat
  <2> HIDE DEF w
  <2>1. QED
    BY <1>2, <1>4, SumCounts
<1>6. rsi(s) = [gains |-> SumFunction(Gain(s)), losses |-> SumFunction(Loss(s))]
  BY <1>1 DEF rsi, Gain, Loss
<1>7. QED
  BY <1>5, <1>6

(* Upside down, what was lost is gained and what was gained is lost.        *)
LEMMA MirrorSwaps ==
  ASSUME NEW s \in Seq(Nat), Len(s) >= RsiPeriod + 1
  PROVE  Gain(Mirror(s)) = Loss(s) /\ Loss(Mirror(s)) = Gain(s)
<1> DEFINE w == LastIndices(s, RsiPeriod)
<1>1. Len(s) \in Nat /\ RsiPeriod \in Nat \ {0} /\ s # <<>>
  BY PeriodsAssumption, LenProperties, EmptySeq
<1>2. PICK top \in Nat :
        /\ LastIndices(Mirror(s), RsiPeriod) = w
        /\ \A i \in 1 .. Len(s) : Mirror(s)[i] = top + 1 - s[i]
  BY <1>1, MirrorList DEF LastIndices
<1>3. ASSUME NEW i \in w
      PROVE  /\ s[i] \in Nat /\ s[i - 1] \in Nat
             /\ Mirror(s)[i] = top + 1 - s[i]
             /\ Mirror(s)[i - 1] = top + 1 - s[i - 1]
  <2>1. i \in 1 .. Len(s) /\ i - 1 \in 1 .. Len(s)
    BY <1>1 DEF LastIndices
  <2>2. s[i] \in Nat /\ s[i - 1] \in Nat
    BY <2>1, LenProperties
  <2>3. Mirror(s)[i] = top + 1 - s[i] /\ Mirror(s)[i - 1] = top + 1 - s[i - 1]
    BY <1>2, <2>1
  <2>4. QED
    BY <2>2, <2>3
<1> HIDE DEF w
<1>4. Gain(Mirror(s)) = Loss(s)
  <2>1. ASSUME NEW i \in w
        PROVE  (IF Mirror(s)[i] > Mirror(s)[i - 1] THEN Mirror(s)[i] - Mirror(s)[i - 1] ELSE 0)
                 = (IF s[i] < s[i - 1] THEN s[i - 1] - s[i] ELSE 0)
    <3>1. /\ s[i] \in Nat /\ s[i - 1] \in Nat
          /\ Mirror(s)[i] = top + 1 - s[i] /\ Mirror(s)[i - 1] = top + 1 - s[i - 1]
      BY <1>3
    <3>2. CASE s[i] < s[i - 1]
      <4>1. Mirror(s)[i] > Mirror(s)[i - 1]
        BY <3>1, <3>2
      <4>2. Mirror(s)[i] - Mirror(s)[i - 1] = s[i - 1] - s[i]
        <5>1. \A x, y \in Nat : (top + 1 - x) - (top + 1 - y) = y - x
          OBVIOUS
        <5>2. QED
          BY <3>1, <5>1
      <4>3. QED
        BY <3>2, <4>1, <4>2
    <3>3. CASE ~ (s[i] < s[i - 1])
      <4>1. ~ (Mirror(s)[i] > Mirror(s)[i - 1])
        <5>1. \A x, y \in Nat : ~ (x < y) => ~ (top + 1 - x > top + 1 - y)
          OBVIOUS
        <5>2. QED
          BY <3>1, <3>3, <5>1
      <4>2. QED
        BY <3>3, <4>1
    <3>4. QED
      BY <3>2, <3>3
  <2>2. QED
    BY <1>2, <2>1 DEF Gain, Loss, w
<1>5. Loss(Mirror(s)) = Gain(s)
  <2>1. ASSUME NEW i \in w
        PROVE  (IF Mirror(s)[i] < Mirror(s)[i - 1] THEN Mirror(s)[i - 1] - Mirror(s)[i] ELSE 0)
                 = (IF s[i] > s[i - 1] THEN s[i] - s[i - 1] ELSE 0)
    <3>1. /\ s[i] \in Nat /\ s[i - 1] \in Nat
          /\ Mirror(s)[i] = top + 1 - s[i] /\ Mirror(s)[i - 1] = top + 1 - s[i - 1]
      BY <1>3
    <3>2. CASE s[i] > s[i - 1]
      <4>1. Mirror(s)[i] < Mirror(s)[i - 1]
        BY <3>1, <3>2
      <4>2. Mirror(s)[i - 1] - Mirror(s)[i] = s[i] - s[i - 1]
        <5>1. \A x, y \in Nat : (top + 1 - x) - (top + 1 - y) = y - x
          OBVIOUS
        <5>2. QED
          BY <3>1, <5>1
      <4>3. QED
        BY <3>2, <4>1, <4>2
    <3>3. CASE ~ (s[i] > s[i - 1])
      <4>1. ~ (Mirror(s)[i] < Mirror(s)[i - 1])
        <5>1. \A x, y \in Nat : ~ (x > y) => ~ (top + 1 - x < top + 1 - y)
          OBVIOUS
        <5>2. QED
          BY <3>1, <3>3, <5>1
      <4>2. QED
        BY <3>3, <4>1
    <3>4. QED
      BY <3>2, <3>3
  <2>2. QED
    BY <1>2, <2>1 DEF Gain, Loss, w
<1>6. QED
  BY <1>4, <1>5

(* The verdicts of RSI are symmetric: an overbought market, mirrored up to   *)
(* down, is oversold, and the other way round (momentum.rs).                *)
THEOREM RsiHasNoBias == Spec => []RsiMirrors
<1>1. ListInv => RsiMirrors
  <2> DEFINE r == rsi(prices)
             m == rsi(Mirror(prices))
  <2>0. RsiMirrors <=> (r # None /\ r.gains + r.losses > 0 =>
                          /\ rsi_above(r, 65) <=> rsi_below(m, 35)
                          /\ rsi_below(r, 35) <=> rsi_above(m, 65))
    BY DEF RsiMirrors
  <2> SUFFICES ASSUME ListInv, r # None, r.gains + r.losses > 0
               PROVE  /\ rsi_above(r, 65) <=> rsi_below(m, 35)
                      /\ rsi_below(r, 35) <=> rsi_above(m, 65)
    BY <2>0
  <2>1. prices \in Seq(Nat) /\ Len(prices) >= RsiPeriod + 1
    BY PeriodsAssumption, LenProperties DEF ListInv, rsi
  <2>2. prices # <<>>
    BY <2>1, PeriodsAssumption, EmptySeq
  <2>3. PICK gains \in Nat, losses \in Nat :
          /\ gains = SumFunction(Gain(prices))
          /\ losses = SumFunction(Loss(prices))
    BY <2>1, RsiSums
  <2>4. r = [gains |-> gains, losses |-> losses]
    BY <2>1, <2>3, RsiSums
  <2>5. m = [gains |-> losses, losses |-> gains]
    BY <2>1, <2>2, <2>3, MirrorList, MirrorSwaps, RsiSums
  <2>6. gains + losses > 0
    BY <2>4
  <2>7. /\ rsi_above([gains |-> gains, losses |-> losses], 65)
             <=> rsi_below([gains |-> losses, losses |-> gains], 35)
        /\ rsi_below([gains |-> gains, losses |-> losses], 35)
             <=> rsi_above([gains |-> losses, losses |-> gains], 65)
    BY <2>6 DEF rsi_above, rsi_below
  <2>8. QED
    BY <2>4, <2>5, <2>7
<1>2. QED
  BY <1>1, ListInvariance, PTL

-----------------------------------------------------------------------------
(* Loops over a history                                                     *)

(* What holds at the start of an interval and spreads upwards holds on all  *)
(* of it: otherwise it would already hold at the least place where not.     *)
LEMMA Spreads ==
  ASSUME NEW a \in Nat, NEW b \in Nat, NEW T,
         a \in T,
         \A i \in a .. b : i \in T /\ i # b => i + 1 \in T
  PROVE  \A i \in a .. b : i \in T
<1> DEFINE missing == {i \in a .. b : i \notin T}
<1>1. SUFFICES ASSUME missing # {} PROVE FALSE
  OBVIOUS
<1>2. missing \in SUBSET Nat
  OBVIOUS
<1>3. PICK x \in missing : \A y \in missing : x <= y
  <2> HIDE DEF missing
  <2>1. QED BY <1>1, <1>2, LeastNatural
<1>4. x # a /\ x - 1 \in a .. b /\ x - 1 # b
  BY <1>3
<1>5. x - 1 \in T
  BY <1>3, <1>4
<1>6. x - 1 + 1 \in T
  BY <1>4, <1>5
<1>7. QED
  BY <1>3, <1>6

(* A loop that starts with base at a and takes a step for every place after *)
(* it, as the values after each place.                                      *)
Runs(r, base, a, b, step) ==
  r = [i \in a .. b |-> IF i = a THEN base ELSE step[<<r[i - 1], i>>]]

LEMMA RunExists ==
  ASSUME NEW V, NEW base \in V, NEW a \in Nat, NEW b \in Nat, a <= b,
         NEW step \in [V \X (a .. b) -> V]
  PROVE  \E r \in [a .. b -> V] : Runs(r, base, a, b, step)
<1> DEFINE T == {n \in a .. b : \E r \in [a .. n -> V] : Runs(r, base, a, n, step)}
<1>1. a \in T
  <2> DEFINE r == [i \in a .. a |-> base]
  <2>1. r \in [a .. a -> V] /\ Runs(r, base, a, a, step)
    BY DEF Runs
  <2>2. QED
    BY <2>1
<1>2. ASSUME NEW n \in a .. b, n \in T, n # b PROVE n + 1 \in T
  <2>1. PICK r \in [a .. n -> V] : Runs(r, base, a, n, step)
    BY <1>2
  <2> DEFINE longer == [i \in a .. n + 1 |-> IF i = n + 1 THEN step[<<r[n], n + 1>>] ELSE r[i]]
  <2>2. n + 1 \in a .. b /\ n \in a .. n
    BY <1>2
  <2>3. step[<<r[n], n + 1>>] \in V
    BY <2>2
  <2>4. longer \in [a .. n + 1 -> V]
    BY <2>3
  <2>5. ASSUME NEW i \in a .. n + 1
        PROVE  longer[i] = IF i = a THEN base ELSE step[<<longer[i - 1], i>>]
    <3>1. CASE i = n + 1
      <4>1. i # a /\ i - 1 = n /\ n \in a .. n + 1 /\ n # n + 1
        BY <3>1
      <4>2. longer[i - 1] = r[n]
        BY <4>1
      <4>3. QED
        BY <3>1, <4>1, <4>2
    <3>2. CASE i # n + 1
      <4>1. i \in a .. n
        BY <3>2
      <4>2. r[i] = IF i = a THEN base ELSE step[<<r[i - 1], i>>]
        BY <2>1, <4>1 DEF Runs
      <4>3. i # a => i - 1 \in a .. n + 1 /\ i - 1 # n + 1
        BY <4>1
      <4>4. i # a => longer[i - 1] = r[i - 1]
        BY <4>3
      <4>5. longer[i] = r[i]
        BY <3>2
      <4> HIDE DEF longer
      <4>6. QED
        BY <4>2, <4>4, <4>5
    <3>3. QED
      BY <3>1, <3>2
  <2>6. Runs(longer, base, a, n + 1, step)
    <3>1. longer = [i \in a .. n + 1 |-> longer[i]]
      OBVIOUS
    <3> HIDE DEF longer
    <3>2. QED
      BY <2>5, <3>1 DEF Runs
  <2> HIDE DEF longer
  <2>7. QED
    BY <2>2, <2>4, <2>6
<1> HIDE DEF T
<1>3. b \in T
  <2>1. \A i \in a .. b : i \in T
    BY <1>1, <1>2, Spreads
  <2>2. QED
    BY <2>1
<1>4. QED
  BY <1>3 DEF T

-----------------------------------------------------------------------------
(* Powers                                                                   *)

Times(a, k) == [x \in Nat \X (0 .. k) |-> a * x[1]]

IsPower(p, a, k) == p = [i \in 0 .. k |-> IF i = 0 THEN 1 ELSE a * p[i - 1]]

(* The powers of a up to the k-th.                                          *)
Powers(p, a, k) ==
  /\ p \in [0 .. k -> Nat]
  /\ p[0] = 1
  /\ \A i \in 0 .. k : i # 0 => p[i] = a * p[i - 1]
  /\ Power(a, k) = p[k]

(* The recursion of a power has a solution, so its CHOOSE is one.           *)
LEMMA PowerRun ==
  ASSUME NEW a \in Nat, NEW k \in Nat
  PROVE  \E p : Powers(p, a, k)
<1>1. Times(a, k) \in [Nat \X (0 .. k) -> Nat]
  BY DEF Times
<1>2. PICK r \in [0 .. k -> Nat] : Runs(r, 1, 0, k, Times(a, k))
  <2>1. 1 \in Nat /\ 0 \in Nat /\ 0 <= k
    OBVIOUS
  <2>2. QED
    BY <1>1, <2>1, RunExists
<1>3. IsPower(r, a, k)
  <2>1. ASSUME NEW i \in 0 .. k, i # 0 PROVE Times(a, k)[<<r[i - 1], i>>] = a * r[i - 1]
    BY <2>1 DEF Times
  <2>2. QED
    BY <1>2, <2>1 DEF Runs, IsPower
<1>4. PICK p : p = CHOOSE q : IsPower(q, a, k)
  OBVIOUS
<1>5. IsPower(p, a, k)
  BY <1>3, <1>4
<1>6. Power(a, k) = p[k]
  BY <1>4 DEF Power, IsPower
<1>7. p[0] = 1 /\ \A i \in 0 .. k : i # 0 => p[i] = a * p[i - 1]
  BY <1>5 DEF IsPower
<1>8. p \in [0 .. k -> Nat]
  <2> DEFINE T == {i \in 0 .. k : p[i] \in Nat}
  <2>1. 0 \in T
    BY <1>7
  <2>2. ASSUME NEW i \in 0 .. k, i \in T, i # k PROVE i + 1 \in T
    <3>1. i + 1 \in 0 .. k /\ i + 1 # 0 /\ i + 1 - 1 = i
      BY <2>2
    <3>2. p[i + 1] = a * p[i]
      BY <1>7, <3>1
    <3>3. QED
      BY <2>2, <3>1, <3>2
  <2>3. \A i \in 0 .. k : i \in T
    <3> HIDE DEF T
    <3>1. QED BY <2>1, <2>2, Spreads
  <2>4. p = [i \in 0 .. k |-> p[i]]
    BY <1>5 DEF IsPower
  <2>5. QED
    BY <2>3, <2>4
<1>9. QED
  BY <1>6, <1>7, <1>8 DEF Powers

(* The laws of powers.                                                      *)
LEMMA PowerLaws ==
  ASSUME NEW a \in Nat, NEW k \in Nat
  PROVE  /\ Power(a, 0) = 1
         /\ Power(a, k) \in Nat
         /\ Power(a, k + 1) = a * Power(a, k)
<1>1. Power(a, 0) = 1
  <2>1. PICK p : Powers(p, a, 0)
    BY PowerRun
  <2>2. QED
    BY <2>1 DEF Powers
<1>2. Power(a, k) \in Nat
  <2>1. PICK p : Powers(p, a, k)
    BY PowerRun
  <2>2. QED
    BY <2>1 DEF Powers
<1>3. Power(a, k + 1) = a * Power(a, k)
  <2>1. PICK p : Powers(p, a, k)
    BY PowerRun
  <2>2. PICK q : Powers(q, a, k + 1)
    BY PowerRun
  <2> DEFINE T == {i \in 0 .. k : p[i] = q[i]}
  <2>3. 0 \in T
    BY <2>1, <2>2 DEF Powers
  <2>4. ASSUME NEW i \in 0 .. k, i \in T, i # k PROVE i + 1 \in T
    <3>1. i + 1 \in 0 .. k /\ i + 1 \in 0 .. k + 1 /\ i + 1 # 0 /\ i + 1 - 1 = i
      BY <2>4
    <3>2. p[i + 1] = a * p[i]
      BY <2>1, <3>1 DEF Powers
    <3>3. q[i + 1] = a * q[i]
      BY <2>2, <3>1 DEF Powers
    <3>4. QED
      BY <2>4, <3>1, <3>2, <3>3
  <2>5. \A i \in 0 .. k : i \in T
    <3> HIDE DEF T
    <3>1. QED BY <2>3, <2>4, Spreads
  <2>6. p[k] = q[k]
    BY <2>5
  <2>7. q[k + 1] = a * q[k]
    <3>1. k + 1 \in 0 .. k + 1 /\ k + 1 # 0 /\ k + 1 - 1 = k
      OBVIOUS
    <3>2. QED
      BY <2>2, <3>1 DEF Powers
  <2>8. QED
    BY <2>1, <2>2, <2>6, <2>7 DEF Powers
<1>4. QED
  BY <1>1, <1>2, <1>3

-----------------------------------------------------------------------------
(* Totals                                                                   *)

(* The sum of the first k entries.                                          *)
Total(f, k) == SumFunction([i \in 1 .. k |-> f[i]])

LEMMA TotalGrows ==
  ASSUME NEW k \in Nat, NEW f, \A i \in 1 .. k + 1 : f[i] \in Nat
  PROVE  /\ Total(f, k) \in Nat
         /\ Total(f, k + 1) = Total(f, k) + f[k + 1]
<1> DEFINE g == [i \in 1 .. k |-> f[i]]
           h == [i \in 1 .. k + 1 |-> f[i]]
<1>1. IsFiniteSet(1 .. k) /\ IsFiniteSet(1 .. k + 1)
  BY FS_Interval
<1>2. g \in [1 .. k -> Nat] /\ h \in [1 .. k + 1 -> Nat]
  OBVIOUS
<1>3. Cells(g, 1 .. k) = Cells(h, 1 .. k)
  <2>1. \A i \in 1 .. k : g[i] = h[i]
    OBVIOUS
  <2> HIDE DEF g, h
  <2>2. QED
    BY <2>1 DEF Cells
<1>4. (1 .. k + 1) \ {k + 1} = 1 .. k /\ k + 1 \in 1 .. k + 1
  OBVIOUS
<1>5. h[k + 1] = f[k + 1] /\ f[k + 1] \in Nat
  OBVIOUS
<1> HIDE DEF g, h
<1>6. /\ SumFunction(g) = Cardinality(Cells(g, 1 .. k)) /\ SumFunction(g) \in Nat
      /\ SumFunction(h) = Cardinality(Cells(h, 1 .. k + 1))
  BY <1>1, <1>2, SumCounts
<1>7. Cardinality(Cells(h, 1 .. k + 1)) = h[k + 1] + Cardinality(Cells(h, 1 .. k))
  <2>1. PICK s, x : s = 1 .. k + 1 /\ x = k + 1
    OBVIOUS
  <2>2. x \in s /\ h[x] \in Nat /\ s \ {x} = 1 .. k
    BY <1>4, <1>5, <2>1
  <2>3. IsFiniteSet(Cells(h, s \ {x}))
    BY <1>1, <1>2, <2>1, CellsFinite
  <2>4. Cardinality(Cells(h, s)) = h[x] + Cardinality(Cells(h, s \ {x}))
    BY <2>2, <2>3, EntryCells
  <2>5. QED
    BY <2>1, <2>2, <2>4
<1>8. Total(f, k) = SumFunction(g) /\ Total(f, k + 1) = SumFunction(h)
  BY DEF Total, g, h
<1>9. QED
  BY <1>3, <1>5, <1>6, <1>7, <1>8

LEMMA TotalOfNone ==
  ASSUME NEW f
  PROVE  Total(f, 0) = 0
<1> DEFINE g == [i \in 1 .. 0 |-> f[i]]
<1>1. IsFiniteSet(1 .. 0) /\ g \in [1 .. 0 -> Nat]
  BY FS_Interval
<1>2. Cells(g, 1 .. 0) = {}
  BY DEF Cells
<1>3. Total(f, 0) = SumFunction(g)
  BY DEF Total
<1> HIDE DEF g
<1>4. SumFunction(g) = Cardinality(Cells(g, 1 .. 0))
  BY <1>1, SumCounts
<1>5. QED
  BY <1>2, <1>3, <1>4, FS_EmptySet

(* A common factor.                                                         *)
LEMMA TotalTimes ==
  ASSUME NEW k \in Nat, NEW f, \A i \in 1 .. k : f[i] \in Nat, NEW c \in Nat,
         NEW g, \A i \in 1 .. k : g[i] = c * f[i]
  PROVE  Total(g, k) = c * Total(f, k)
<1> DEFINE T == {j \in 0 .. k : Total(g, j) = c * Total(f, j)}
<1>1. 0 \in T
  BY TotalOfNone
<1>2. ASSUME NEW j \in 0 .. k, j \in T, j # k PROVE j + 1 \in T
  <2>1. j \in Nat /\ j + 1 \in 0 .. k /\ j + 1 \in 1 .. k
    BY <1>2
  <2>2. \A i \in 1 .. j + 1 : i \in 1 .. k
    BY <2>1
  <2>3. \A i \in 1 .. k : g[i] \in Nat
    OBVIOUS
  <2>4. Total(f, j) \in Nat /\ Total(f, j + 1) = Total(f, j) + f[j + 1]
    BY <2>1, <2>2, TotalGrows
  <2>5. Total(g, j + 1) = Total(g, j) + g[j + 1]
    BY <2>1, <2>2, <2>3, TotalGrows
  <2>6. PICK x \in Nat, y \in Nat : x = Total(f, j) /\ y = f[j + 1]
    BY <2>1, <2>4
  <2>7. Total(g, j + 1) = c * x + c * y
    BY <1>2, <2>1, <2>5, <2>6
  <2>8. c * x + c * y = c * (x + y)
    OBVIOUS
  <2>9. QED
    BY <2>1, <2>4, <2>6, <2>7, <2>8
<1> HIDE DEF T
<1>3. \A j \in 0 .. k : j \in T
  BY <1>1, <1>2, Spreads
<1>4. QED
  BY <1>3 DEF T

-----------------------------------------------------------------------------
(* Exponential averages                                                     *)

Average == [num : Nat, den : Nat \ {0}]

IsEma(e, h, period) ==
  e = [i \in period .. Len(h) |->
         IF i = period THEN Seed(h, period) ELSE Smooth(e[i - 1], h[i], period)]

(* The averages of a history after each of its prices.                      *)
Averages(e, h, period) ==
  /\ e \in [period .. Len(h) -> Average]
  /\ e[period] = Seed(h, period)
  /\ \A i \in period .. Len(h) : i # period => e[i] = Smooth(e[i - 1], h[i], period)
  /\ ema(h, period) = e[Len(h)]

Smoothing(h, period) ==
  [x \in Average \X (period .. Len(h)) |-> Smooth(x[1], h[x[2]], period)]

LEMMA SmoothType ==
  ASSUME NEW last \in Average, NEW price \in Nat, NEW period \in Nat \ {0}
  PROVE  Smooth(last, price, period) \in Average
<1>1. PICK num \in Nat, den \in Nat \ {0} : num = last.num /\ den = last.den
  BY DEF Average
<1>2. 2 * price * den \in Nat /\ (period - 1) * num \in Nat
  OBVIOUS
<1>3. 2 * price * den + (period - 1) * num \in Nat
  BY <1>2
<1>4. (period + 1) * den \in Nat \ {0}
  OBVIOUS
<1>5. QED
  BY <1>1, <1>3, <1>4 DEF Smooth, Average

(* The recursion of ema has a solution, so its CHOOSE is one.               *)
LEMMA EmaRun ==
  ASSUME NEW h \in Seq(Nat), NEW period \in Nat \ {0}, period <= Len(h)
  PROVE  \E e : Averages(e, h, period)
<1>1. Len(h) \in Nat /\ \A i \in 1 .. Len(h) : h[i] \in Nat
  BY LenProperties
<1>2. \A i \in period .. Len(h) : i \in 1 .. Len(h) /\ i \in Nat
  BY <1>1
<1>3. Seed(h, period) \in Average
  <2>1. \A i \in 1 .. period : h[i] \in Nat
    BY <1>1
  <2>2. Total(h, period) \in Nat
    <3>1. PICK k \in Nat : period = k + 1
      <4>1. period - 1 \in Nat /\ period = period - 1 + 1
        OBVIOUS
      <4>2. QED
        BY <4>1
    <3>2. Total(h, k) \in Nat /\ Total(h, k + 1) = Total(h, k) + h[k + 1]
      BY <2>1, <3>1, TotalGrows
    <3>3. h[k + 1] \in Nat
      BY <2>1, <3>1
    <3>4. QED
      BY <3>1, <3>2, <3>3
  <2>3. QED
    BY <2>2 DEF Seed, Average, Total
<1>4. Smoothing(h, period) \in [Average \X (period .. Len(h)) -> Average]
  <2>1. ASSUME NEW x \in Average \X (period .. Len(h))
        PROVE  Smooth(x[1], h[x[2]], period) \in Average
    <3>1. x[1] \in Average /\ h[x[2]] \in Nat
      BY <1>1, <1>2
    <3>2. QED
      BY <3>1, SmoothType
  <2>2. QED
    BY <2>1 DEF Smoothing
<1>5. PICK r \in [period .. Len(h) -> Average] :
        Runs(r, Seed(h, period), period, Len(h), Smoothing(h, period))
  BY <1>1, <1>3, <1>4, RunExists
<1>6. IsEma(r, h, period)
  <2>1. ASSUME NEW i \in period .. Len(h), i # period
        PROVE  Smoothing(h, period)[<<r[i - 1], i>>] = Smooth(r[i - 1], h[i], period)
    <3>1. i - 1 \in period .. Len(h)
      BY <1>1, <2>1
    <3>2. <<r[i - 1], i>> \in Average \X (period .. Len(h))
      BY <3>1
    <3>3. QED
      BY <3>2 DEF Smoothing
  <2>2. QED
    BY <1>5, <2>1 DEF Runs, IsEma
<1>7. PICK e : e = CHOOSE f : IsEma(f, h, period)
  OBVIOUS
<1>8. IsEma(e, h, period)
  BY <1>6, <1>7
<1>9. ema(h, period) = e[Len(h)]
  <2>1. ema(h, period) = (CHOOSE f : IsEma(f, h, period))[Len(h)]
    BY <1>1 DEF ema, IsEma
  <2>2. QED
    BY <1>7, <2>1
<1>10. /\ e[period] = Seed(h, period)
       /\ \A i \in period .. Len(h) : i # period => e[i] = Smooth(e[i - 1], h[i], period)
  <2>1. period \in period .. Len(h)
    BY <1>1
  <2>2. \A i \in period .. Len(h) :
          e[i] = IF i = period THEN Seed(h, period) ELSE Smooth(e[i - 1], h[i], period)
    BY <1>8 DEF IsEma
  <2>3. QED
    BY <2>1, <2>2
<1>11. e \in [period .. Len(h) -> Average]
  <2> DEFINE T == {i \in period .. Len(h) : e[i] \in Average}
  <2>1. period \in T
    BY <1>1, <1>3, <1>10
  <2>2. ASSUME NEW i \in period .. Len(h), i \in T, i # Len(h) PROVE i + 1 \in T
    <3>1. i + 1 \in period .. Len(h) /\ i + 1 # period /\ i + 1 - 1 = i
      BY <1>1, <2>2
    <3>2. e[i + 1] = Smooth(e[i], h[i + 1], period)
      BY <1>10, <3>1
    <3>3. e[i] \in Average /\ h[i + 1] \in Nat
      BY <1>1, <1>2, <2>2, <3>1
    <3>4. QED
      BY <3>1, <3>2, <3>3, SmoothType
  <2>3. \A i \in period .. Len(h) : i \in T
    <3> HIDE DEF T
    <3>1. QED BY <1>1, <2>1, <2>2, Spreads
  <2>4. e = [i \in period .. Len(h) |-> e[i]]
    BY <1>8 DEF IsEma
  <2>5. QED
    BY <2>3, <2>4
<1>12. QED
  BY <1>9, <1>10, <1>11 DEF Averages

(* One price further, numerator and denominator by themselves.              *)
Advances(e, h, period, i) ==
  /\ i \in 1 .. Len(h) /\ i + 1 \in period .. Len(h) /\ i + 1 \in 1 .. Len(h)
  /\ h[i] \in Nat /\ h[i + 1] \in Nat
  /\ e[i].num \in Nat /\ e[i].den \in Nat \ {0}
  /\ e[i + 1].num = 2 * h[i + 1] * e[i].den + (period - 1) * e[i].num
  /\ e[i + 1].den = (period + 1) * e[i].den

LEMMA NextAverage ==
  ASSUME NEW h \in Seq(Nat), NEW period \in Nat \ {0},
         NEW e, Averages(e, h, period), NEW i \in period .. Len(h), i # Len(h)
  PROVE  Advances(e, h, period, i)
<1>1. Len(h) \in Nat /\ \A j \in 1 .. Len(h) : h[j] \in Nat
  BY LenProperties
<1>2. /\ i \in 1 .. Len(h) /\ i + 1 \in period .. Len(h) /\ i + 1 \in 1 .. Len(h)
      /\ i + 1 # period /\ i + 1 - 1 = i
  BY <1>1
<1>3. h[i] \in Nat /\ h[i + 1] \in Nat
  BY <1>1, <1>2
<1>4. e[i].num \in Nat /\ e[i].den \in Nat \ {0}
  BY DEF Averages, Average
<1>5. e[i + 1] = Smooth(e[i], h[i + 1], period)
  BY <1>2 DEF Averages
<1>6. QED
  BY <1>2, <1>3, <1>4, <1>5 DEF Smooth, Advances

-----------------------------------------------------------------------------
(* Averages in a market that rises                                          *)

Rising(h) == \A i \in 2 .. Len(h) : h[i - 1] < h[i]

LEMMA RisingStep ==
  ASSUME NEW h \in Seq(Nat), Rising(h), NEW i \in 1 .. Len(h), i # Len(h)
  PROVE  h[i] \in Nat /\ h[i + 1] \in Nat /\ h[i] < h[i + 1]
<1>1. Len(h) \in Nat /\ \A j \in 1 .. Len(h) : h[j] \in Nat
  BY LenProperties
<1>2. i + 1 \in 2 .. Len(h) /\ i + 1 \in 1 .. Len(h) /\ i + 1 - 1 = i
  BY <1>1
<1>3. QED
  BY <1>1, <1>2 DEF Rising

(* The first prices sum up to at most as many times the last of them.       *)
LEMMA TotalBelowLast ==
  ASSUME NEW h \in Seq(Nat), Rising(h), NEW k \in 1 .. Len(h)
  PROVE  Total(h, k) \in Nat /\ Total(h, k) <= k * h[k]
<1> DEFINE T == {j \in 1 .. Len(h) : Total(h, j) \in Nat /\ Total(h, j) <= j * h[j]}
<1>1. Len(h) \in Nat /\ \A i \in 1 .. Len(h) : h[i] \in Nat
  BY LenProperties
<1>2. 1 \in T
  <2>1. 1 \in 1 .. Len(h) /\ h[1] \in Nat
    BY <1>1
  <2>2. Total(h, 0 + 1) = Total(h, 0) + h[0 + 1]
    BY <2>1, TotalGrows
  <2>3. QED
    BY <2>1, <2>2, TotalOfNone
<1>3. ASSUME NEW j \in 1 .. Len(h), j \in T, j # Len(h) PROVE j + 1 \in T
  <2>1. h[j] \in Nat /\ h[j + 1] \in Nat /\ h[j] < h[j + 1]
    BY <1>3, RisingStep
  <2>2. \A i \in 1 .. j + 1 : h[i] \in Nat
    BY <1>1, <1>3
  <2>3. Total(h, j + 1) = Total(h, j) + h[j + 1]
    BY <2>2, TotalGrows
  <2>4. PICK x \in Nat, old \in Nat, new \in Nat : x = Total(h, j) /\ old = h[j] /\ new = h[j + 1]
    BY <1>3, <2>1
  <2>5. x <= j * old /\ old < new
    BY <1>3, <2>1, <2>4
  <2>6. x + new <= (j + 1) * new
    <3>1. j * old <= j * new
      BY <2>5
    <3>2. j * new + new = (j + 1) * new /\ j * old \in Nat /\ j * new \in Nat
      OBVIOUS
    <3>3. QED
      BY <2>5, <3>1, <3>2
  <2>7. j + 1 \in 1 .. Len(h) /\ x + new \in Nat
    BY <1>1, <1>3
  <2>8. QED
    BY <2>3, <2>4, <2>6, <2>7
<1> HIDE DEF T
<1>4. \A j \in 1 .. Len(h) : j \in T
  BY <1>1, <1>2, <1>3, Spreads
<1>5. QED
  BY <1>4 DEF T

(* Three facts about one smoothing step, on the numbers alone: an average    *)
(* not above the last price stays not above it; one not below the mean of    *)
(* all prices gets above it; and of two averages below the new price, the    *)
(* faster stays above the slower.                                           *)
LEMMA SmoothBelow ==
  ASSUME NEW period \in Nat \ {0}, NEW num \in Nat, NEW den \in Nat \ {0},
         NEW old \in Nat, NEW new \in Nat, num <= old * den, old < new
  PROVE  num < new * den /\ 2 * new * den + (period - 1) * num <= new * ((period + 1) * den)
<1>1. num < new * den
  <2>1. old * den < new * den
    OBVIOUS
  <2>2. QED
    BY <2>1
<1>2. (period - 1) * num <= (period - 1) * (new * den)
  BY <1>1
<1>3. 2 * new * den + (period - 1) * (new * den) = new * ((period + 1) * den)
  OBVIOUS
<1>4. QED
  BY <1>1, <1>2, <1>3

LEMMA SmoothAboveMean ==
  ASSUME NEW period \in Nat \ {0}, NEW num \in Nat, NEW den \in Nat \ {0},
         NEW i \in Nat, period <= i, NEW total \in Nat, NEW new \in Nat,
         total * den <= num * i, num < new * den
  PROVE  (total + new) * ((period + 1) * den)
           < (2 * new * den + (period - 1) * num) * (i + 1)
OBVIOUS

LEMMA SmoothLeads ==
  ASSUME NEW fast \in Nat \ {0}, NEW slow \in Nat, fast < slow, NEW new \in Nat,
         NEW fnum \in Nat, NEW fden \in Nat \ {0}, NEW snum \in Nat, NEW sden \in Nat \ {0},
         snum * fden < fnum * sden, snum < new * sden
  PROVE  (2 * new * sden + (slow - 1) * snum) * ((fast + 1) * fden)
           < (2 * new * fden + (fast - 1) * fnum) * ((slow + 1) * sden)
OBVIOUS

(* An average is not above the last price.                                  *)
LEMMA AverageBelowLast ==
  ASSUME NEW h \in Seq(Nat), Rising(h), NEW period \in Nat \ {0}, period <= Len(h),
         NEW e, Averages(e, h, period), NEW k \in period .. Len(h)
  PROVE  e[k].num <= h[k] * e[k].den
<1> DEFINE T == {i \in period .. Len(h) : e[i].num <= h[i] * e[i].den}
<1>1. Len(h) \in Nat /\ \A i \in 1 .. Len(h) : h[i] \in Nat
  BY LenProperties
<1>2. period \in T
  <2>1. period \in period .. Len(h) /\ period \in 1 .. Len(h) /\ h[period] \in Nat
    BY <1>1
  <2>2. e[period].num = Total(h, period) /\ e[period].den = period
    BY DEF Averages, Seed, Total
  <2>3. Total(h, period) \in Nat /\ Total(h, period) <= period * h[period]
    BY <2>1, TotalBelowLast
  <2>4. period * h[period] = h[period] * period
    BY <2>1
  <2>5. QED
    BY <2>1, <2>2, <2>3, <2>4
<1>3. ASSUME NEW i \in period .. Len(h), i \in T, i # Len(h) PROVE i + 1 \in T
  <2>1. /\ i \in 1 .. Len(h) /\ i + 1 \in period .. Len(h)
        /\ e[i].num \in Nat /\ e[i].den \in Nat \ {0}
        /\ e[i + 1].num = 2 * h[i + 1] * e[i].den + (period - 1) * e[i].num
        /\ e[i + 1].den = (period + 1) * e[i].den
    <3> HIDE DEF T
    <3>1. i \in period .. Len(h)
      OBVIOUS
    <3>2. Advances(e, h, period, i)
      BY <1>3, <3>1, NextAverage
    <3>3. QED
      BY <3>2 DEF Advances
  <2>2. h[i] \in Nat /\ h[i + 1] \in Nat /\ h[i] < h[i + 1]
    BY <1>3, <2>1, RisingStep
  <2>3. 2 * h[i + 1] * e[i].den + (period - 1) * e[i].num
          <= h[i + 1] * ((period + 1) * e[i].den)
    BY <1>3, <2>1, <2>2, SmoothBelow
  <2>4. QED
    BY <2>1, <2>3
<1>4. \A i \in period .. Len(h) : i \in T
  <2> HIDE DEF T
  <2>1. QED BY <1>1, <1>2, <1>3, Spreads
<1>5. QED
  BY <1>4

(* An average is not below the mean of all prices, and above it as soon as   *)
(* a price has come after the first ones.                                   *)
LEMMA AverageAboveMean ==
  ASSUME NEW h \in Seq(Nat), Rising(h), NEW period \in Nat \ {0}, period <= Len(h),
         NEW e, Averages(e, h, period), NEW k \in period .. Len(h)
  PROVE  /\ Total(h, k) * e[k].den <= e[k].num * k
         /\ k # period => Total(h, k) * e[k].den < e[k].num * k
<1> DEFINE T == {i \in period .. Len(h) :
                   /\ Total(h, i) * e[i].den <= e[i].num * i
                   /\ i # period => Total(h, i) * e[i].den < e[i].num * i}
<1>1. Len(h) \in Nat /\ \A i \in 1 .. Len(h) : h[i] \in Nat
  BY LenProperties
<1>2. period \in T
  <2>1. period \in period .. Len(h) /\ period \in 1 .. Len(h)
    BY <1>1
  <2>2. e[period].num = Total(h, period) /\ e[period].den = period
    BY DEF Averages, Seed, Total
  <2>3. Total(h, period) \in Nat
    BY <2>1, TotalBelowLast
  <2>4. QED
    BY <2>1, <2>2, <2>3
<1>3. ASSUME NEW i \in period .. Len(h), i \in T, i # Len(h) PROVE i + 1 \in T
  <2>1. /\ i \in 1 .. Len(h) /\ i + 1 \in period .. Len(h) /\ i + 1 # period
        /\ e[i].num \in Nat /\ e[i].den \in Nat \ {0}
        /\ e[i + 1].num = 2 * h[i + 1] * e[i].den + (period - 1) * e[i].num
        /\ e[i + 1].den = (period + 1) * e[i].den
    <3> HIDE DEF T
    <3>1. Advances(e, h, period, i)
      BY <1>3, NextAverage
    <3>2. i + 1 # period
      BY <1>3
    <3>3. QED
      BY <3>1, <3>2 DEF Advances
  <2>2. h[i] \in Nat /\ h[i + 1] \in Nat /\ h[i] < h[i + 1]
    BY <1>3, <2>1, RisingStep
  <2>3. e[i].num < h[i + 1] * e[i].den
    <3>1. e[i].num <= h[i] * e[i].den
      BY AverageBelowLast
    <3>2. QED
      BY <2>1, <2>2, <3>1, SmoothBelow
  <2>4. Total(h, i) \in Nat /\ Total(h, i + 1) = Total(h, i) + h[i + 1]
    <3>1. \A j \in 1 .. i + 1 : h[j] \in Nat
      BY <1>1, <2>1
    <3>2. i \in Nat
      OBVIOUS
    <3>3. QED
      BY <3>1, <3>2, TotalGrows
  <2>5. (Total(h, i) + h[i + 1]) * ((period + 1) * e[i].den)
          < (2 * h[i + 1] * e[i].den + (period - 1) * e[i].num) * (i + 1)
    <3>1. i \in Nat /\ period <= i /\ Total(h, i) * e[i].den <= e[i].num * i
      BY <1>3
    <3>2. QED
      BY <2>1, <2>2, <2>3, <2>4, <3>1, SmoothAboveMean
  <2>6. Total(h, i + 1) * e[i + 1].den < e[i + 1].num * (i + 1)
    BY <2>1, <2>4, <2>5
  <2>7. Total(h, i + 1) * e[i + 1].den <= e[i + 1].num * (i + 1)
    <3>1. e[i + 1].num \in Nat /\ e[i + 1].den \in Nat
      BY <2>1 DEF Averages, Average
    <3>2. Total(h, i + 1) \in Nat /\ i + 1 \in Nat
      <4>1. \A a, b \in Nat : a + b \in Nat
        OBVIOUS
      <4>2. Total(h, i) \in Nat /\ h[i + 1] \in Nat /\ i \in Nat
        BY <2>2, <2>4
      <4>3. QED
        BY <2>4, <4>1, <4>2
    <3>3. \A a, b, c, d \in Nat : a * b < c * d => a * b <= c * d
      OBVIOUS
    <3>4. QED
      BY <2>6, <3>1, <3>2, <3>3
  <2>8. QED
    BY <2>1, <2>6, <2>7
<1>4. \A i \in period .. Len(h) : i \in T
  <2> HIDE DEF T
  <2>1. QED BY <1>1, <1>2, <1>3, Spreads
<1>5. QED
  BY <1>4

(* The faster of two averages is above the slower.                          *)
LEMMA FasterLeads ==
  ASSUME NEW h \in Seq(Nat), Rising(h),
         NEW fast \in Nat \ {0}, NEW slow \in Nat \ {0}, fast < slow, slow <= Len(h),
         NEW f, Averages(f, h, fast), NEW s, Averages(s, h, slow), NEW k \in slow .. Len(h)
  PROVE  s[k].num * f[k].den < f[k].num * s[k].den
<1> DEFINE T == {i \in slow .. Len(h) : s[i].num * f[i].den < f[i].num * s[i].den}
<1>1. Len(h) \in Nat /\ fast <= Len(h) /\ \A i \in slow .. Len(h) : i \in fast .. Len(h)
  BY LenProperties
<1>2. slow \in T
  <2>1. slow \in slow .. Len(h) /\ slow \in fast .. Len(h) /\ slow # fast
    BY <1>1
  <2>2. s[slow].num = Total(h, slow) /\ s[slow].den = slow
    BY DEF Averages, Seed, Total
  <2>3. Total(h, slow) * f[slow].den < f[slow].num * slow
    BY <1>1, <2>1, AverageAboveMean
  <2>4. QED
    BY <2>1, <2>2, <2>3
<1>3. ASSUME NEW i \in slow .. Len(h), i \in T, i # Len(h) PROVE i + 1 \in T
  <2>1. /\ i \in 1 .. Len(h) /\ i + 1 \in slow .. Len(h) /\ i + 1 \in 1 .. Len(h)
        /\ h[i] \in Nat /\ h[i + 1] \in Nat
        /\ s[i].num \in Nat /\ s[i].den \in Nat \ {0}
        /\ s[i + 1].num = 2 * h[i + 1] * s[i].den + (slow - 1) * s[i].num
        /\ s[i + 1].den = (slow + 1) * s[i].den
    <3> HIDE DEF T
    <3>1. i \in slow .. Len(h)
      OBVIOUS
    <3>2. Advances(s, h, slow, i)
      BY <1>3, <3>1, NextAverage
    <3>3. QED
      BY <3>2 DEF Advances
  <2>2. /\ i \in 1 .. Len(h) /\ i + 1 \in fast .. Len(h) /\ i + 1 \in 1 .. Len(h)
        /\ h[i] \in Nat /\ h[i + 1] \in Nat
        /\ f[i].num \in Nat /\ f[i].den \in Nat \ {0}
        /\ f[i + 1].num = 2 * h[i + 1] * f[i].den + (fast - 1) * f[i].num
        /\ f[i + 1].den = (fast + 1) * f[i].den
    <3> HIDE DEF T
    <3>1. i \in fast .. Len(h)
      BY <1>1, <1>3
    <3>2. Advances(f, h, fast, i)
      BY <1>3, <3>1, NextAverage
    <3>3. QED
      BY <3>2 DEF Advances
  <2>3. h[i] \in Nat /\ h[i + 1] \in Nat /\ h[i] < h[i + 1]
    BY <1>3, <2>1, RisingStep
  <2>4. s[i].num < h[i + 1] * s[i].den
    <3>1. s[i].num <= h[i] * s[i].den
      BY AverageBelowLast
    <3>2. QED
      BY <2>1, <2>3, <3>1, SmoothBelow
  <2>5. (2 * h[i + 1] * s[i].den + (slow - 1) * s[i].num) * ((fast + 1) * f[i].den)
          < (2 * h[i + 1] * f[i].den + (fast - 1) * f[i].num) * ((slow + 1) * s[i].den)
    BY <1>3, <2>1, <2>2, <2>3, <2>4, SmoothLeads
  <2>6. QED
    BY <2>1, <2>2, <2>5
<1>4. \A i \in slow .. Len(h) : i \in T
  <2> HIDE DEF T
  <2>1. QED BY <1>1, <1>2, <1>3, Spreads
<1>5. QED
  BY <1>4

(* While the market only rises MACD is positive from the first tick it is    *)
(* defined on, for all periods and histories of any length (composite.rs).  *)
THEOREM MacdFollows == Spec => []MacdFollowsTrend
<1>1. ListInv => MacdFollowsTrend
  <2> SUFFICES ASSUME ListInv, \A i \in 2 .. Len(prices) : prices[i - 1] < prices[i],
                      NEW slow \in 2 .. Len(prices), NEW fast \in 1 .. slow - 1
               PROVE  macd(prices, fast, slow).line.num > 0
    BY DEF MacdFollowsTrend
  <2>1. prices \in Seq(Nat) /\ Rising(prices) /\ Len(prices) \in Nat
    BY LenProperties DEF ListInv, Rising
  <2>2. /\ fast \in Nat \ {0} /\ slow \in Nat \ {0} /\ fast < slow
        /\ slow <= Len(prices) /\ fast <= Len(prices)
    BY <2>1
  <2>3. PICK f : Averages(f, prices, fast)
    BY <2>1, <2>2, EmaRun
  <2>4. PICK s : Averages(s, prices, slow)
    BY <2>1, <2>2, EmaRun
  <2>5. PICK a, b : a = f[Len(prices)] /\ b = s[Len(prices)]
    OBVIOUS
  <2>6. s[Len(prices)].num * f[Len(prices)].den < f[Len(prices)].num * s[Len(prices)].den
    <3>1. Len(prices) \in slow .. Len(prices)
      BY <2>1, <2>2
    <3>2. QED
      BY <2>1, <2>2, <2>3, <2>4, <3>1, FasterLeads
  <2>7. ema(prices, fast) = a /\ a \in Average
    <3>1. Len(prices) \in fast .. Len(prices)
      BY <2>1, <2>2
    <3>2. QED
      BY <2>3, <2>5, <3>1 DEF Averages
  <2>8. ema(prices, slow) = b /\ b \in Average
    <3>1. Len(prices) \in slow .. Len(prices)
      BY <2>1, <2>2
    <3>2. QED
      BY <2>4, <2>5, <3>1 DEF Averages
  <2>9. a # None /\ b # None
    BY <2>7, <2>8, StatisticsAssumption DEF Average
  <2>10. macd(prices, fast, slow).line.num = a.num * b.den - b.num * a.den
    BY <2>7, <2>8, <2>9 DEF macd, Minus
  <2>11. b.num * a.den < a.num * b.den
    BY <2>5, <2>6
  <2>12. a.num * b.den \in Nat /\ b.num * a.den \in Nat
    BY <2>7, <2>8 DEF Average
  <2>13. QED
    BY <2>10, <2>11, <2>12
<1>2. QED
  BY <1>1, ListInvariance, PTL

-----------------------------------------------------------------------------
(* Averages as weighted means                                               *)

Weighted(h, period, n) == [i \in 1 .. n |-> Weight(period, n, i) * h[i]]

(* A price more: the weights of the others shrink by the same factor, on the *)
(* larger denominator, and the new one weighs alpha.                        *)
LEMMA WeightLaws ==
  ASSUME NEW period \in Nat \ {0}, NEW n \in Nat, period <= n
  PROVE  /\ \A i \in 1 .. n : /\ Weight(period, n, i) \in Nat
                               /\ Weight(period, n + 1, i) = (period - 1) * Weight(period, n, i)
         /\ Weight(period, n + 1, n + 1) = 2 * (period * Power(period + 1, n - period))
         /\ \A i \in 1 .. period : Weight(period, period, i) = 1
<1>1. period - 1 \in Nat /\ period + 1 \in Nat /\ n - period \in Nat
  OBVIOUS
<1>2. ASSUME NEW i \in 1 .. n
      PROVE  /\ Weight(period, n, i) \in Nat
             /\ Weight(period, n + 1, i) = (period - 1) * Weight(period, n, i)
  <2>1. CASE i <= period
    <3>1. /\ Power(period - 1, n - period) \in Nat
          /\ Power(period - 1, n - period + 1) = (period - 1) * Power(period - 1, n - period)
      BY <1>1, PowerLaws
    <3>2. n - period + 1 = n + 1 - period
      OBVIOUS
    <3>3. QED
      BY <2>1, <3>1, <3>2 DEF Weight
  <2>2. CASE ~ (i <= period)
    <3>1. n - i \in Nat /\ i - period - 1 \in Nat /\ n - i + 1 = n + 1 - i
      BY <2>2
    <3>2. PICK p \in Nat, q \in Nat :
            /\ p = Power(period - 1, n - i)
            /\ q = Power(period + 1, i - period - 1)
            /\ Power(period - 1, n + 1 - i) = (period - 1) * p
      <4>1. /\ Power(period - 1, n - i) \in Nat
            /\ Power(period - 1, n - i + 1) = (period - 1) * Power(period - 1, n - i)
        BY <1>1, <3>1, PowerLaws
      <4>2. Power(period + 1, i - period - 1) \in Nat
        BY <1>1, <3>1, PowerLaws
      <4>3. Power(period - 1, n + 1 - i) = (period - 1) * Power(period - 1, n - i)
        BY <3>1, <4>1
      <4>4. QED
        BY <4>1, <4>2, <4>3
    <3>3. /\ Weight(period, n, i) = 2 * period * p * q
          /\ Weight(period, n + 1, i) = 2 * period * ((period - 1) * p) * q
      BY <2>2, <3>2 DEF Weight
    <3>4. /\ 2 * period * p * q \in Nat
          /\ 2 * period * ((period - 1) * p) * q = (period - 1) * (2 * period * p * q)
      OBVIOUS
    <3>5. QED
      BY <3>3, <3>4
  <2>3. QED
    BY <2>1, <2>2
<1>3. Weight(period, n + 1, n + 1) = 2 * (period * Power(period + 1, n - period))
  <2>1. /\ ~ (n + 1 <= period)
        /\ n + 1 - (n + 1) = 0 /\ n + 1 - period - 1 = n - period
    OBVIOUS
  <2>2. PICK q \in Nat : q = Power(period + 1, n - period)
    BY <1>1, PowerLaws
  <2>3. Power(period - 1, 0) = 1
    BY <1>1, PowerLaws
  <2>4. Weight(period, n + 1, n + 1) = 2 * period * 1 * q
    BY <2>1, <2>2, <2>3 DEF Weight
  <2>5. 2 * period * 1 * q = 2 * (period * q)
    OBVIOUS
  <2>6. QED
    BY <2>2, <2>4, <2>5
<1>4. ASSUME NEW i \in 1 .. period PROVE Weight(period, period, i) = 1
  <2>1. i <= period /\ period - period = 0
    OBVIOUS
  <2>2. Power(period - 1, 0) = 1
    BY <1>1, PowerLaws
  <2>3. QED
    BY <2>1, <2>2 DEF Weight
<1>5. QED
  BY <1>2, <1>3, <1>4

LEMMA TotalSame ==
  ASSUME NEW f, NEW g, NEW k \in Nat, \A i \in 1 .. k : f[i] = g[i]
  PROVE  Total(f, k) = Total(g, k)
<1>1. [i \in 1 .. k |-> f[i]] = [i \in 1 .. k |-> g[i]]
  OBVIOUS
<1>2. QED
  BY <1>1 DEF Total

(* After each price the average is the weighted mean of all up to it.       *)
LEMMA AverageIsWeighted ==
  ASSUME NEW h \in Seq(Nat), NEW period \in Nat \ {0}, period <= Len(h),
         NEW e, Averages(e, h, period), NEW n \in period .. Len(h)
  PROVE  /\ e[n].num = Total(Weighted(h, period, n), n)
         /\ e[n].den = period * Power(period + 1, n - period)
<1> DEFINE T == {k \in period .. Len(h) :
                   /\ e[k].num = Total(Weighted(h, period, k), k)
                   /\ e[k].den = period * Power(period + 1, k - period)}
<1>1. Len(h) \in Nat /\ \A i \in 1 .. Len(h) : h[i] \in Nat
  BY LenProperties
<1>2. period \in T
  <2>1. e[period].num = Total(h, period) /\ e[period].den = period
    BY DEF Averages, Seed, Total
  <2>2. Total(Weighted(h, period, period), period) = Total(h, period)
    <3>1. ASSUME NEW i \in 1 .. period PROVE Weighted(h, period, period)[i] = h[i]
      <4>1. Weight(period, period, i) = 1
        <5>1. period \in Nat /\ period <= period
          OBVIOUS
        <5>2. QED
          BY <5>1, WeightLaws
      <4>2. Weighted(h, period, period)[i] = Weight(period, period, i) * h[i]
        BY DEF Weighted
      <4>3. h[i] \in Nat
        BY <1>1
      <4>4. QED
        BY <4>1, <4>2, <4>3
    <3>2. QED
      BY <3>1, TotalSame
  <2>3. Power(period + 1, period - period) = 1
    <3>1. period - period = 0 /\ period + 1 \in Nat
      OBVIOUS
    <3>2. Power(period + 1, 0) = 1
      BY <3>1, PowerLaws
    <3>3. QED
      BY <3>1, <3>2
  <2>4. period \in period .. Len(h)
    BY <1>1
  <2>5. QED
    BY <2>1, <2>2, <2>3, <2>4
<1>3. ASSUME NEW k \in period .. Len(h), k \in T, k # Len(h) PROVE k + 1 \in T
  <2> DEFINE now == Weighted(h, period, k)
             next == Weighted(h, period, k + 1)
             last == period * Power(period + 1, k - period)
  <2>1. /\ k \in 1 .. Len(h) /\ k + 1 \in period .. Len(h) /\ k + 1 \in 1 .. Len(h)
        /\ h[k] \in Nat /\ h[k + 1] \in Nat
        /\ e[k].num \in Nat /\ e[k].den \in Nat \ {0}
        /\ e[k + 1].num = 2 * h[k + 1] * e[k].den + (period - 1) * e[k].num
        /\ e[k + 1].den = (period + 1) * e[k].den
    <3> HIDE DEF T
    <3>1. Advances(e, h, period, k)
      BY <1>3, NextAverage
    <3>2. QED
      BY <3>1 DEF Advances
  <2>2. /\ k \in Nat /\ period <= k /\ period - 1 \in Nat /\ period + 1 \in Nat
        /\ k - period \in Nat /\ k - period + 1 = k + 1 - period
    OBVIOUS
  <2>3. e[k].num = Total(now, k) /\ e[k].den = last
    BY <1>3
  <2>4. /\ \A i \in 1 .. k : now[i] \in Nat /\ next[i] = (period - 1) * now[i]
        /\ next[k + 1] = 2 * last * h[k + 1]
    <3>1. ASSUME NEW i \in 1 .. k
          PROVE  now[i] \in Nat /\ next[i] = (period - 1) * now[i]
      <4>1. PICK w \in Nat : w = Weight(period, k, i) /\ Weight(period, k + 1, i) = (period - 1) * w
        BY <2>2, WeightLaws
      <4>2. i \in 1 .. k + 1 /\ h[i] \in Nat
        BY <1>1, <2>1
      <4>3. now[i] = w * h[i] /\ next[i] = ((period - 1) * w) * h[i]
        BY <4>1, <4>2 DEF Weighted
      <4>4. w * h[i] \in Nat /\ ((period - 1) * w) * h[i] = (period - 1) * (w * h[i])
        <5>1. \A a, b, c \in Nat : b * c \in Nat /\ (a * b) * c = a * (b * c)
          OBVIOUS
        <5>2. period - 1 \in Nat
          BY <2>2
        <5>3. QED
          BY <4>2, <5>1, <5>2
      <4> HIDE DEF now, next
      <4>5. QED
        BY <4>3, <4>4
    <3>2. next[k + 1] = 2 * last * h[k + 1]
      <4>1. Weight(period, k + 1, k + 1) = 2 * last
        BY <2>2, WeightLaws
      <4>2. k + 1 \in 1 .. k + 1
        BY <2>2
      <4> HIDE DEF last
      <4>3. QED
        BY <4>1, <4>2 DEF Weighted
    <3> HIDE DEF now, next, last
    <3>3. QED
      BY <3>1, <3>2
  <2>5. last \in Nat /\ period * Power(period + 1, k + 1 - period) = (period + 1) * last
    <3>1. PICK p \in Nat : /\ p = Power(period + 1, k - period)
                           /\ Power(period + 1, k + 1 - period) = (period + 1) * p
      <4>1. /\ Power(period + 1, k - period) \in Nat
            /\ Power(period + 1, k - period + 1) = (period + 1) * Power(period + 1, k - period)
        BY <2>2, PowerLaws
      <4>2. QED
        BY <2>2, <4>1
    <3>2. period * p \in Nat /\ period * ((period + 1) * p) = (period + 1) * (period * p)
      OBVIOUS
    <3>3. QED
      BY <3>1, <3>2
  <2> HIDE DEF now, next, last
  <2>6. Total(next, k) = (period - 1) * Total(now, k)
    BY <2>2, <2>4, TotalTimes
  <2>7. Total(next, k + 1) = Total(next, k) + next[k + 1]
    <3>1. ASSUME NEW i \in 1 .. k + 1 PROVE next[i] \in Nat
      <4>1. CASE i = k + 1
        <5>1. \A x, y \in Nat : 2 * x * y \in Nat
          OBVIOUS
        <5>2. 2 * last * h[k + 1] \in Nat
          BY <2>1, <2>5, <5>1
        <5>3. QED
          BY <2>4, <4>1, <5>2
      <4>2. CASE i # k + 1
        <5>1. i \in 1 .. k
          BY <2>2, <4>2
        <5>2. \A x, y \in Nat : x * y \in Nat
          OBVIOUS
        <5>3. QED
          BY <2>2, <2>4, <5>1, <5>2
      <4>3. QED
        BY <4>1, <4>2
    <3>2. QED
      BY <2>2, <3>1, TotalGrows
  <2>8. e[k + 1].num = Total(next, k + 1)
    <3>1. PICK c \in Nat, d \in Nat, m \in Nat, p \in Nat :
            c = last /\ d = h[k + 1] /\ m = e[k].num /\ p = period - 1
      BY <2>1, <2>2, <2>5
    <3>2. e[k + 1].num = 2 * d * c + p * m
      BY <2>1, <2>3, <3>1
    <3>3. Total(next, k + 1) = p * m + 2 * c * d
      BY <2>3, <2>4, <2>6, <2>7, <3>1
    <3>4. 2 * d * c + p * m = p * m + 2 * c * d
      OBVIOUS
    <3>5. QED
      BY <3>2, <3>3, <3>4
  <2>9. e[k + 1].den = period * Power(period + 1, k + 1 - period)
    BY <2>1, <2>3, <2>5
  <2>10. e[k + 1].num = Total(Weighted(h, period, k + 1), k + 1)
    BY <2>8 DEF next
  <2>11. k + 1 \in period .. Len(h)
    BY <2>1
  <2> HIDE DEF Averages
  <2>12. QED
    BY ONLY <2>9, <2>10, <2>11 DEF T
<1>4. \A k \in period .. Len(h) : k \in T
  <2> HIDE DEF T
  <2>1. QED BY <1>1, <1>2, <1>3, Spreads
<1>5. QED
  BY <1>4

(* The loop of ema.rs, a price at a time, is the weighted mean that defines  *)
(* the indicator, for every period and histories of any length.             *)
THEOREM EmaLoopIsMean == Spec => []EmaIsWeightedMean
<1>1. ListInv => EmaIsWeightedMean
  <2> DEFINE n == Len(prices)
  <2> SUFFICES ASSUME ListInv, NEW period \in 2 .. MaxLength, n >= period
               PROVE  ema(prices, period) =
                        [num |-> SumFunction([i \in 1 .. n |-> Weight(period, n, i) * prices[i]]),
                         den |-> period * Power(period + 1, n - period)]
    BY DEF EmaIsWeightedMean
  <2>1. prices \in Seq(Nat) /\ n \in Nat
    BY LenProperties DEF ListInv
  <2>2. period \in Nat \ {0} /\ period <= n /\ n \in period .. n
    BY <2>1
  <2>3. PICK e : Averages(e, prices, period)
    BY <2>1, <2>2, EmaRun
  <2>4. /\ e[n].num = Total(Weighted(prices, period, n), n)
        /\ e[n].den = period * Power(period + 1, n - period)
    BY <2>1, <2>2, <2>3, AverageIsWeighted
  <2>5. Total(Weighted(prices, period, n), n)
          = SumFunction([i \in 1 .. n |-> Weight(period, n, i) * prices[i]])
    <3> HIDE DEF n
    <3>1. [i \in 1 .. n |-> Weighted(prices, period, n)[i]]
            = [i \in 1 .. n |-> Weight(period, n, i) * prices[i]]
      BY DEF Weighted
    <3>2. QED
      BY <3>1 DEF Total
  <2>6. ema(prices, period) = e[n] /\ e[n] \in Average
    BY <2>2, <2>3 DEF Averages
  <2>7. e[n] = [num |-> e[n].num, den |-> e[n].den]
    BY <2>6 DEF Average
  <2>8. QED
    BY <2>4, <2>5, <2>6, <2>7
<1>2. QED
  BY <1>1, ListInvariance, PTL

=============================================================================
