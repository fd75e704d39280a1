--------------------------- MODULE CalculatorProofs ---------------------------
(***************************************************************************)
(* Proofs about the pure functions of Calculator: the rank that             *)
(* OrderStatistic chooses exists for every finite table of prices, so the   *)
(* median is a price (or a sum of two), and one of three feeds cannot move  *)
(* it out of the range of the other two; and about the sums the indicators  *)
(* are made of, which count the units of what they add.                     *)
(***************************************************************************)
EXTENDS Calculator, FiniteSetTheorems, WellFoundedInduction, TLAPS

(* Every nonempty set of naturals has a least element.                      *)
LEMMA LeastNatural ==
  ASSUME NEW T \in SUBSET Nat, T # {}
  PROVE  \E x \in T : \A y \in T : x <= y
<1>1. \E x \in T : \A y \in T : ~ (<<y, x>> \in OpToRel(<, Nat))
  BY WFMin, NatLessThanWellFounded
<1>2. PICK x \in T : \A y \in T : ~ (<<y, x>> \in OpToRel(<, Nat))
  BY <1>1
<1>3. ASSUME NEW y \in T PROVE x <= y
  <2>1. ~ (y < x)
    BY <1>2 DEF OpToRel
  <2>2. QED
    BY <2>1
<1>4. QED
  BY <1>3

(* A finite nonempty table of naturals has a greatest entry: the one that   *)
(* the most entries do not exceed.                                          *)
LEMMA GreatestEntry ==
  ASSUME NEW D, IsFiniteSet(D), D # {}, NEW f \in [D -> Nat]
  PROVE  \E m \in D : \A e \in D : f[e] <= f[m]
<1> DEFINE Below(m) == {e \in D : f[e] <= f[m]}
           gap == [m \in D |-> Cardinality(D) - Cardinality(Below(m))]
<1>1. \A m \in D : /\ Cardinality(Below(m)) \in Nat
                   /\ Cardinality(Below(m)) <= Cardinality(D)
  BY FS_Subset, FS_CardinalityType
<1>2. Cardinality(D) \in Nat
  BY FS_CardinalityType
<1>3. gap \in [D -> Nat]
  <2>1. ASSUME NEW m \in D PROVE Cardinality(D) - Cardinality(Below(m)) \in Nat
    <3> HIDE DEF Below
    <3>1. QED BY <1>1, <1>2
  <2>2. QED
    BY <2>1
<1>4. ASSUME NEW m \in D, NEW e \in D, f[m] < f[e]
      PROVE  gap[e] < gap[m]
  <2>1. Below(m) \subseteq Below(e) /\ e \in Below(e) /\ e \notin Below(m)
    BY <1>4
  <2>2. IsFiniteSet(Below(e))
    BY FS_Subset
  <2>3. /\ Cardinality(Below(m)) <= Cardinality(Below(e))
        /\ Cardinality(Below(m)) # Cardinality(Below(e))
    <3> HIDE DEF Below
    <3>1. QED BY <2>1, <2>2, FS_Subset
  <2>4. /\ gap[e] = Cardinality(D) - Cardinality(Below(e))
        /\ gap[m] = Cardinality(D) - Cardinality(Below(m))
    OBVIOUS
  <2>5. QED
    <3> HIDE DEF Below, gap
    <3>1. QED BY <2>3, <2>4, <1>1, <1>2
<1> HIDE DEF gap, Below
<1>5. PICK x \in {gap[m] : m \in D} : \A y \in {gap[m] : m \in D} : x <= y
  <2>1. {gap[m] : m \in D} \in SUBSET Nat /\ {gap[m] : m \in D} # {}
    BY <1>3
  <2>2. QED
    BY <2>1, LeastNatural
<1>6. PICK m \in D : x = gap[m]
  OBVIOUS
<1>7. ASSUME NEW e \in D PROVE f[e] <= f[m]
  <2>1. gap[m] <= gap[e] /\ gap[m] \in Nat /\ gap[e] \in Nat
    BY <1>3, <1>5, <1>6
  <2>2. QED
    BY <2>1, <1>4
<1>8. QED
  BY <1>7

-----------------------------------------------------------------------------
(* Sums                                                                     *)

(* One cell for every unit of every entry of f in s: a sum counts them.     *)
Cells(f, s) == {p \in s \X Nat : p[2] < f[p[1]]}

(* The entry that a fold takes next.                                        *)
Drawn(s) == CHOOSE x \in s : TRUE

(* What SumFunction folds: the sums of the parts of a table, each computed   *)
(* from that of a part with one entry less.                                 *)
AddsUp(f, sums) ==
  sums = [s \in SUBSET (DOMAIN f) |->
            IF s = {} THEN 0
            ELSE f[Drawn(s)] + sums[s \ {Drawn(s)}]]

LEMMA SumAddsUp ==
  ASSUME NEW f
  PROVE  SumFunction(f) = (CHOOSE sums : AddsUp(f, sums))[DOMAIN f]
BY DEF SumFunction, SumFunctionOnSet, FoldFunctionOnSet, MapThenFoldSet, AddsUp, Drawn

(* An entry of a table adds as many cells as it has units.                  *)
LEMMA EntryCells ==
  ASSUME NEW f, NEW s, NEW x \in s, f[x] \in Nat, IsFiniteSet(Cells(f, s \ {x}))
  PROVE  /\ IsFiniteSet(Cells(f, s))
         /\ Cardinality(Cells(f, s)) = f[x] + Cardinality(Cells(f, s \ {x}))
<1> DEFINE column == {x} \X (0 .. f[x] - 1)
           rest == Cells(f, s \ {x})
<1>1. /\ IsFiniteSet(0 .. f[x] - 1)
      /\ Cardinality(0 .. f[x] - 1) = f[x]
  <2>1. PICK n \in Nat : n = f[x]
    OBVIOUS
  <2>2. 0 \in Int /\ n - 1 \in Int
    OBVIOUS
  <2>3. /\ IsFiniteSet(0 .. n - 1)
        /\ Cardinality(0 .. n - 1) = IF 0 > n - 1 THEN 0 ELSE n - 1 - 0 + 1
    BY <2>2, FS_Interval
  <2>4. (IF 0 > n - 1 THEN 0 ELSE n - 1 - 0 + 1) = n
    BY <2>1
  <2>5. QED
    BY <2>1, <2>3, <2>4
<1>2. IsFiniteSet(column) /\ Cardinality(column) = f[x]
  <2> DEFINE units == 0 .. f[x] - 1
             cell == [j \in units |-> <<x, j>>]
  <2>1. cell \in Bijection(units, column)
    <3>1. cell \in [units -> column]
      OBVIOUS
    <3>2. \A i, j \in units : cell[i] = cell[j] => i = j
      OBVIOUS
    <3>3. \A c \in column : \E j \in units : cell[j] = c
      OBVIOUS
    <3> HIDE DEF cell, column, units
    <3>4. QED
      BY <3>1, <3>2, <3>3 DEF Bijection, Injection, Surjection, IsInjective
  <2> HIDE DEF cell, column
  <2>2. QED
    BY <1>1, <2>1, FS_Bijection DEF ExistsBijection
<1>3. Cells(f, s) = column \cup rest
  BY DEF Cells
<1>4. column \cap rest = {}
  BY DEF Cells
<1> HIDE DEF column, rest
<1>5. /\ IsFiniteSet(column \cup rest)
      /\ Cardinality(column \cup rest)
           = Cardinality(column) + Cardinality(rest) - Cardinality(column \cap rest)
  BY <1>2, FS_Union DEF rest
<1>6. Cardinality(column \cap rest) = 0 /\ Cardinality(rest) \in Nat
  BY <1>4, FS_EmptySet, FS_CardinalityType DEF rest
<1>7. Cardinality(column \cup rest) = f[x] + Cardinality(rest)
  BY <1>2, <1>5, <1>6
<1>8. QED
  BY <1>3, <1>5, <1>7 DEF rest

(* A finite table of naturals has finitely many cells.                      *)
LEMMA CellsFinite ==
  ASSUME NEW S, IsFiniteSet(S), NEW f \in [S -> Nat], NEW s \in SUBSET S
  PROVE  IsFiniteSet(Cells(f, s))
<1>1. CASE S = {}
  <2>1. Cells(f, s) = {}
    BY <1>1 DEF Cells
  <2>2. QED
    BY <2>1, FS_EmptySet
<1>2. CASE S # {}
  <2>1. PICK m \in S : \A e \in S : f[e] <= f[m]
    BY <1>2, GreatestEntry
  <2>2. IsFiniteSet(0 .. f[m])
    BY FS_Interval
  <2>3. IsFiniteSet(s \X (0 .. f[m]))
    BY <2>2, FS_Subset, FS_Product
  <2>4. Cells(f, s) \subseteq s \X (0 .. f[m])
    BY <2>1 DEF Cells
  <2>5. QED
    BY <2>3, <2>4, FS_Subset
<1>3. QED
  BY <1>1, <1>2

(* The cells of a part, counted.                                            *)
CellCounts(S, f) == [s \in SUBSET S |-> Cardinality(Cells(f, s))]

(* Counting the cells adds up.                                              *)
LEMMA CountsAddUp ==
  ASSUME NEW S, IsFiniteSet(S), NEW f \in [S -> Nat]
  PROVE  AddsUp(f, CellCounts(S, f))
<1>1. ASSUME NEW s \in SUBSET S
      PROVE  CellCounts(S, f)[s]
               = IF s = {} THEN 0
                 ELSE f[Drawn(s)] + CellCounts(S, f)[s \ {Drawn(s)}]
  <2>1. CASE s = {}
    <3>1. Cells(f, s) = {}
      BY <2>1 DEF Cells
    <3>2. QED
      BY <2>1, <3>1, FS_EmptySet DEF CellCounts
  <2>2. CASE s # {}
    <3>1. PICK y : y = Drawn(s)
      OBVIOUS
    <3>2. y \in s /\ f[y] \in Nat /\ s \ {y} \in SUBSET S
      BY <2>2, <3>1 DEF Drawn
    <3>3. IsFiniteSet(Cells(f, s \ {y}))
      BY <3>2, CellsFinite
    <3>4. Cardinality(Cells(f, s)) = f[y] + Cardinality(Cells(f, s \ {y}))
      BY <3>2, <3>3, EntryCells
    <3>5. CellCounts(S, f)[s] = f[y] + CellCounts(S, f)[s \ {y}]
      BY <3>2, <3>4 DEF CellCounts
    <3>6. QED
      BY <2>2, <3>1, <3>5
  <2>3. QED
    BY <2>1, <2>2
<1>2. QED
  BY <1>1 DEF AddsUp, CellCounts

(* The sum of a part, from that of the part with one entry less.            *)
LEMMA SumOfPart ==
  ASSUME NEW S, NEW f \in [S -> Nat], NEW sums, AddsUp(f, sums), NEW s \in SUBSET S
  PROVE  sums[s] = IF s = {} THEN 0 ELSE f[Drawn(s)] + sums[s \ {Drawn(s)}]
<1>1. s \in SUBSET (DOMAIN f)
  OBVIOUS
<1>2. QED
  BY <1>1, Zenon DEF AddsUp

(* Nothing else does: two ways to add up that differed would already differ *)
(* on a smaller part than the smallest one they differ on.                  *)
LEMMA AddingUpIsUnique ==
  ASSUME NEW S, IsFiniteSet(S), NEW f \in [S -> Nat],
         NEW a, AddsUp(f, a), NEW b, AddsUp(f, b)
  PROVE  a[S] = b[S]
<1> DEFINE Differ == {s \in SUBSET S : a[s] # b[s]}
           sizes == {Cardinality(s) : s \in Differ}
<1>1. SUFFICES ASSUME Differ # {} PROVE FALSE
  OBVIOUS
<1>2. \A s \in SUBSET S : IsFiniteSet(s) /\ Cardinality(s) \in Nat
  BY FS_Subset, FS_CardinalityType
<1>3. sizes \in SUBSET Nat /\ sizes # {}
  BY <1>1, <1>2
<1>4. PICK n \in sizes : \A k \in sizes : n <= k
  <2> HIDE DEF sizes
  <2>1. QED BY <1>3, LeastNatural
<1>5. PICK s \in Differ : Cardinality(s) = n
  BY <1>4
<1>6. PICK y : y = Drawn(s)
  OBVIOUS
<1>7. /\ a[s] = IF s = {} THEN 0 ELSE f[y] + a[s \ {y}]
      /\ b[s] = IF s = {} THEN 0 ELSE f[y] + b[s \ {y}]
  BY <1>6, SumOfPart
<1>8. s # {} /\ y \in s
  BY <1>5, <1>6, <1>7 DEF Drawn
<1>9. Cardinality(s \ {y}) = Cardinality(s) - 1
  <2>1. IsFiniteSet(s)
    BY <1>2, <1>5
  <2>2. QED
    BY <2>1, <1>8, FS_RemoveElement
<1>10. s \ {y} \notin Differ
  <2>1. Cardinality(s \ {y}) \in sizes => n <= Cardinality(s) - 1
    BY <1>4, <1>9
  <2>2. Cardinality(s \ {y}) \notin sizes
    <3> HIDE DEF sizes
    <3>1. QED BY <1>2, <1>5, <2>1
  <2>3. QED
    BY <2>2
<1>11. QED
  BY <1>5, <1>7, <1>8, <1>10

(* A sum counts the cells of its table: in particular it is a natural.      *)
LEMMA SumCounts ==
  ASSUME NEW S, IsFiniteSet(S), NEW f \in [S -> Nat]
  PROVE  SumFunction(f) = Cardinality(Cells(f, S)) /\ SumFunction(f) \in Nat
<1>1. AddsUp(f, CellCounts(S, f))
  BY CountsAddUp
<1>2. PICK a : a = CHOOSE sums : AddsUp(f, sums)
  OBVIOUS
<1>3. AddsUp(f, a)
  BY <1>1, <1>2
<1>4. a[S] = CellCounts(S, f)[S]
  BY <1>1, <1>3, AddingUpIsUnique
<1>5. SumFunction(f) = a[DOMAIN f]
  BY <1>2, SumAddsUp
<1>6. SumFunction(f) = Cardinality(Cells(f, S))
  BY <1>4, <1>5 DEF CellCounts
<1>7. QED
  BY <1>6, CellsFinite, FS_CardinalityType

(* The last prices of a long enough history are prices of it.               *)
LEMMA WindowPrices ==
  ASSUME NEW h \in Seq(Nat), NEW n \in Nat, n <= Len(h)
  PROVE  /\ IsFiniteSet(LastIndices(h, n))
         /\ \A i \in LastIndices(h, n) : i \in 1 .. Len(h) /\ h[i] \in Nat
<1>1. Len(h) \in Nat
  OBVIOUS
<1>2. IsFiniteSet(1 .. Len(h))
  BY <1>1, FS_Interval
<1>3. LastIndices(h, n) \subseteq 1 .. Len(h)
  BY <1>1 DEF LastIndices
<1>4. \A i \in 1 .. Len(h) : h[i] \in Nat
  OBVIOUS
<1>5. QED
  BY <1>2, <1>3, <1>4, FS_Subset

(* The bands of a history of naturals are two naturals: no sum of squared   *)
(* differences is negative, so the root the code takes of it exists.        *)
LEMMA BandsType ==
  ASSUME NEW h \in Seq(Nat)
  PROVE  bollinger_bands(h) \in [sum : Nat, spread : Nat] \cup {None}
<1> DEFINE w == LastIndices(h, VolatilityPeriod)
           pairs == {p \in w \X w : p[1] < p[2]}
           square == [p \in pairs |-> (h[p[1]] - h[p[2]]) * (h[p[1]] - h[p[2]])]
<1>1. CASE Len(h) < VolatilityPeriod
  BY <1>1 DEF bollinger_bands
<1>2. CASE ~ (Len(h) < VolatilityPeriod)
  <2>1. VolatilityPeriod \in Nat /\ VolatilityPeriod <= Len(h)
    BY <1>2, PeriodsAssumption
  <2>2. IsFiniteSet(w) /\ \A i \in w : h[i] \in Nat
    BY <2>1, WindowPrices
  <2>3. SumFunction([i \in w |-> h[i]]) \in Nat
    <3> HIDE DEF w
    <3>1. [i \in w |-> h[i]] \in [w -> Nat]
      BY <2>2
    <3>2. QED
      BY <2>2, <3>1, SumCounts
  <2>4. IsFiniteSet(pairs)
    <3>1. IsFiniteSet(w \X w)
      BY <2>2, FS_Product
    <3>2. pairs \subseteq w \X w
      OBVIOUS
    <3> HIDE DEF pairs
    <3>3. QED
      BY <3>1, <3>2, FS_Subset
  <2>5. square \in [pairs -> Nat]
    <3>1. ASSUME NEW p \in pairs
          PROVE  (h[p[1]] - h[p[2]]) * (h[p[1]] - h[p[2]]) \in Nat
      <4>1. h[p[1]] \in Nat /\ h[p[2]] \in Nat
        BY <2>2
      <4>2. \A a, b \in Nat : (a - b) * (a - b) \in Nat
        OBVIOUS
      <4>3. QED
        BY <4>1, <4>2
    <3> HIDE DEF pairs
    <3>2. QED
      BY <3>1
  <2>6. standard_deviation(h) \in Nat
    <3>1. standard_deviation(h) = SumFunction(square)
      BY DEF standard_deviation
    <3> HIDE DEF square, pairs
    <3>2. QED
      BY <3>1, <2>4, <2>5, SumCounts
  <2>7. QED
    BY <1>2, <2>3, <2>6 DEF bollinger_bands
<1>3. QED
  BY <1>1, <1>2

-----------------------------------------------------------------------------
(* v is the entry of rank k (from 0) of the table f.                        *)
HasRank(f, k, v) ==
  /\ v \in {f[e] : e \in DOMAIN f}
  /\ Cardinality({e \in DOMAIN f : f[e] < v}) <= k
  /\ Cardinality({e \in DOMAIN f : f[e] <= v}) > k

(* Every rank of a finite table is the rank of one of its entries.          *)
LEMMA RankExists ==
  ASSUME NEW D, IsFiniteSet(D), NEW f \in [D -> Nat],
         NEW k \in Nat, k < Cardinality(D)
  PROVE  \E v : HasRank(f, k, v)
<1> DEFINE upto == [v \in Nat |-> Cardinality({e \in D : f[e] <= v})]
           below == [v \in Nat |-> Cardinality({e \in D : f[e] < v})]
           reach == {v \in {f[e] : e \in D} : upto[v] > k}
<1>1. \A v \in Nat : upto[v] \in Nat /\ below[v] \in Nat
  BY FS_Subset, FS_CardinalityType
<1>2. D # {}
  BY FS_EmptySet
<1>3. reach # {}
  <2>1. PICK m \in D : \A e \in D : f[e] <= f[m]
    BY <1>2, GreatestEntry
  <2>2. {e \in D : f[e] <= f[m]} = D
    BY <2>1
  <2>3. upto[f[m]] = Cardinality(D)
    BY <2>2
  <2>4. QED
    BY <2>3, FS_CardinalityType
<1>4. PICK v \in reach : \A w \in reach : v <= w
  <2>1. reach \in SUBSET Nat
    OBVIOUS
  <2>2. QED
    <3> HIDE DEF reach
    <3>1. QED BY <1>3, <2>1, LeastNatural
<1>5. below[v] <= k
  <2>1. SUFFICES ASSUME below[v] > k PROVE FALSE
    BY <1>1
  <2> DEFINE lower == {e \in D : f[e] < v}
  <2>2. IsFiniteSet(lower) /\ Cardinality(lower) > k
    BY <2>1, FS_Subset
  <2>3. lower # {}
    BY <2>2, FS_EmptySet
  <2>4. PICK m \in lower : \A e \in lower : f[e] <= f[m]
    <3>1. [e \in lower |-> f[e]] \in [lower -> Nat]
      OBVIOUS
    <3>2. QED
      BY <3>1, <2>2, <2>3, GreatestEntry
  <2>5. {e \in D : f[e] <= f[m]} = lower
    BY <2>4
  <2>6. f[m] \in reach
    BY <2>2, <2>5
  <2>7. v <= f[m] /\ f[m] < v /\ v \in Nat /\ f[m] \in Nat
    <3>1. v <= f[m]
      <4> HIDE DEF reach
      <4>1. QED BY <1>4, <2>6
    <3>2. f[m] < v /\ v \in Nat /\ f[m] \in Nat
      OBVIOUS
    <3>3. QED
      BY <3>1, <3>2
  <2>8. QED
    BY <2>7
<1>6. HasRank(f, k, v)
  <2>1. DOMAIN f = D
    OBVIOUS
  <2>2. v \in {f[e] : e \in D} /\ upto[v] > k /\ v \in Nat
    OBVIOUS
  <2>3. QED
    BY <1>5, <2>1, <2>2 DEF HasRank
<1>7. QED
  BY <1>6

(* What OrderStatistic returns, for any rank within the table.              *)
LEMMA OrderStatisticRank ==
  ASSUME NEW D, IsFiniteSet(D), NEW f \in [D -> Nat],
         NEW k \in Nat, k < Cardinality(D)
  PROVE  /\ OrderStatistic(f, k) \in {f[e] : e \in D}
         /\ Cardinality({e \in D : f[e] < OrderStatistic(f, k)}) <= k
         /\ Cardinality({e \in D : f[e] <= OrderStatistic(f, k)}) > k
<1>1. OrderStatistic(f, k) = CHOOSE v \in {f[e] : e \in DOMAIN f} : HasRank(f, k, v)
  BY DEF OrderStatistic, HasRank
<1>2. PICK v : HasRank(f, k, v)
  BY RankExists
<1>3. v \in {f[e] : e \in DOMAIN f}
  BY <1>2 DEF HasRank
<1>4. HasRank(f, k, OrderStatistic(f, k))
  BY <1>1, <1>2, <1>3
<1>5. DOMAIN f = D
  OBVIOUS
<1>6. QED
  BY <1>4, <1>5 DEF HasRank

(* The doubled median of any nonempty table of quotes is a natural number:  *)
(* at least twice one quote and at most twice another.                      *)
THEOREM MedianIsNatural ==
  ASSUME NEW D, IsFiniteSet(D), D # {}, NEW f \in [D -> Nat]
  PROVE  calculate_aggregated_price(f) \in Nat
<1> DEFINE n == Cardinality(D)
<1>1. n \in Nat /\ n # 0
  BY FS_CardinalityType, FS_EmptySet
<1>2. DOMAIN f = D
  OBVIOUS
<1>3. ASSUME NEW k \in Nat, k < n PROVE OrderStatistic(f, k) \in Nat
  <2>1. OrderStatistic(f, k) \in {f[e] : e \in D}
    BY <1>3, OrderStatisticRank
  <2>2. QED
    BY <2>1
<1>4. CASE n % 2 = 0
  <2>1. n \div 2 - 1 \in Nat /\ n \div 2 \in Nat /\ n \div 2 < n /\ n \div 2 - 1 < n
    <3> HIDE DEF n
    <3>1. QED BY <1>1, <1>4
  <2>2. OrderStatistic(f, n \div 2 - 1) \in Nat /\ OrderStatistic(f, n \div 2) \in Nat
    <3> HIDE DEF n
    <3>1. QED BY <1>3, <2>1
  <2>3. calculate_aggregated_price(f)
          = OrderStatistic(f, n \div 2 - 1) + OrderStatistic(f, n \div 2)
    BY <1>2, <1>4 DEF calculate_aggregated_price
  <2>4. QED
    BY <2>2, <2>3
<1>5. CASE n % 2 # 0
  <2>1. n \div 2 \in Nat /\ n \div 2 < n
    <3> HIDE DEF n
    <3>1. QED BY <1>1
  <2>2. OrderStatistic(f, n \div 2) \in Nat
    <3> HIDE DEF n
    <3>1. QED BY <1>3, <2>1
  <2>3. calculate_aggregated_price(f) = 2 * OrderStatistic(f, n \div 2)
    BY <1>2, <1>5 DEF calculate_aggregated_price
  <2>4. QED
    BY <2>2, <2>3
<1>6. QED
  BY <1>4, <1>5

(* With three feeds the market price stays between the prices of any two of *)
(* them, whatever the third reports (calculator.rs:3-6: "a single bad feed  *)
(* gets outvoted automatically").                                           *)
THEOREM OneOfThreeOutvoted ==
  ASSUME NEW D, IsFiniteSet(D), Cardinality(D) = 3, NEW f \in [D -> Nat],
         NEW bad \in D
  PROVE  \E a, b \in D \ {bad} :
           /\ 2 * f[a] <= calculate_aggregated_price(f)
           /\ calculate_aggregated_price(f) <= 2 * f[b]
<1> DEFINE m == OrderStatistic(f, 1)
<1>1. DOMAIN f = D /\ 3 % 2 # 0 /\ 3 \div 2 = 1
  OBVIOUS
<1>2. calculate_aggregated_price(f) = 2 * m
  BY <1>1 DEF calculate_aggregated_price
<1>3. /\ m \in {f[e] : e \in D}
      /\ Cardinality({e \in D : f[e] < m}) <= 1
      /\ Cardinality({e \in D : f[e] <= m}) > 1
  BY OrderStatisticRank
<1>4. m \in Nat
  BY <1>3
<1> HIDE DEF m
<1>5. IsFiniteSet(D \ {bad}) /\ Cardinality(D \ {bad}) = 2
  BY FS_RemoveElement
<1>6. PICK a \in D \ {bad} : f[a] <= m
  <2>1. SUFFICES ASSUME \A e \in D \ {bad} : ~ (f[e] <= m) PROVE FALSE
    OBVIOUS
  <2>2. {e \in D : f[e] <= m} \subseteq {bad}
    BY <2>1
  <2>3. Cardinality({e \in D : f[e] <= m}) <= 1
    <3>1. IsFiniteSet({bad}) /\ Cardinality({bad}) = 1
      BY FS_Singleton
    <3>2. \A T \in SUBSET {bad} : Cardinality(T) <= Cardinality({bad})
      BY <3>1, FS_Subset
    <3>3. QED
      BY <2>2, <3>1, <3>2
  <2>4. Cardinality({e \in D : f[e] <= m}) \in Nat
    BY FS_Subset, FS_CardinalityType
  <2>5. QED
    BY <1>3, <2>3, <2>4
<1>7. PICK b \in D \ {bad} : m <= f[b]
  <2>1. SUFFICES ASSUME \A e \in D \ {bad} : f[e] < m PROVE FALSE
    BY <1>4
  <2>2. D \ {bad} \subseteq {e \in D : f[e] < m}
    BY <2>1
  <2>3. IsFiniteSet({e \in D : f[e] < m})
    BY FS_Subset
  <2>4. 2 <= Cardinality({e \in D : f[e] < m})
    BY <1>5, <2>2, <2>3, FS_Subset
  <2>5. Cardinality({e \in D : f[e] < m}) \in Nat
    BY <2>3, FS_CardinalityType
  <2>6. QED
    BY <1>3, <2>4, <2>5
<1>8. 2 * f[a] <= 2 * m /\ 2 * m <= 2 * f[b]
  BY <1>4, <1>6, <1>7
<1>9. QED
  BY <1>2, <1>6, <1>7, <1>8

=============================================================================
