------------------------------ MODULE Calculator ------------------------------
(***************************************************************************)
(* The pure functions of src/src/aggregator/calculator.rs: the median of    *)
(* the exchange prices, the deviation from the Chainlink baseline, the      *)
(* thresholds and the signal detection.                                     *)
(*                                                                         *)
(* Exchange and baseline prices are positive integers.  A market price is   *)
(* kept DOUBLED, so that the mean of the two middle prices is an integer.   *)
(* Percentages are compared as exact fractions.                             *)
(***************************************************************************)
EXTENDS Indicators, FiniteSets

CONSTANT Scale       \* threshold units in the whole baseline: one unit is
                     \* 0.01 %, so 10000 in the code

ASSUME ScaleAssumption == Scale \in Nat \ {0}

ROUND_TRIGGER_THRESHOLD   == 10
APPROACH_THRESHOLD        == 7
PRE_TRIGGER_DEV_THRESHOLD == 5
MOMENTUM_THRESHOLD        == 2

Directions == {"Up", "Down"}

Signals == {"bb_breakout", "deviation_approach", "momentum_surge", "rsi_extreme"}

-----------------------------------------------------------------------------
(* The element of index k (from 0) of the sorted prices of a nonempty       *)
(* function from exchanges to prices.                                       *)
OrderStatistic(prices, k) ==
  CHOOSE v \in {prices[e] : e \in DOMAIN prices} :
    /\ Cardinality({e \in DOMAIN prices : prices[e] < v}) <= k
    /\ Cardinality({e \in DOMAIN prices : prices[e] <= v}) > k

(* A bug that averages all the prices' extremes instead of the middle two.  *)
MidRange(prices) ==
  OrderStatistic(prices, 0) + OrderStatistic(prices, Cardinality(DOMAIN prices) - 1)

(* A bug that takes the element before the middle.                          *)
LowerMiddle(prices) ==
  LET n == Cardinality(DOMAIN prices)
  IN  2 * OrderStatistic(prices, IF n <= 1 THEN 0 ELSE (n \div 2) - 1)

(* A bug that subtracts the middle two where it should add them.            *)
MiddleDifference(prices) ==
  LET n == Cardinality(DOMAIN prices)
  IN  IF n % 2 = 0
      THEN OrderStatistic(prices, n \div 2) - OrderStatistic(prices, n \div 2 - 1)
      ELSE 2 * OrderStatistic(prices, n \div 2)

(* Twice the median of the prices.                                          *)
calculate_aggregated_price(prices) ==
  LET n == Cardinality(DOMAIN prices)
  IN  IF n % 2 = 0
      THEN OrderStatistic(prices, n \div 2 - 1) + OrderStatistic(prices, n \div 2)
      ELSE 2 * OrderStatistic(prices, n \div 2)

-----------------------------------------------------------------------------
(* The signed deviation of the doubled market price from the baseline, as   *)
(* the fraction diff / base.                                                *)
deviation_pct(market, chainlink_base) ==
  [diff |-> market - 2 * chainlink_base, base |-> 2 * chainlink_base]

Abs(x) == IF x < 0 THEN -x ELSE x

(* |dev| >= threshold, without division.                                    *)
AtLeast(dev, threshold) == Scale * Abs(dev.diff) >= threshold * dev.base

Direction(dev) == IF dev.diff > 0 THEN "Up" ELSE "Down"

is_round_imminent(dev) == AtLeast(dev, ROUND_TRIGGER_THRESHOLD)

(* A bug that forgets the upper end of the approach zone.                   *)
NoUpperEnd(dev) == AtLeast(dev, APPROACH_THRESHOLD)

is_deviation_approaching(dev) ==
  AtLeast(dev, APPROACH_THRESHOLD) /\ ~ AtLeast(dev, ROUND_TRIGGER_THRESHOLD)

(* The band the market price is outside of, if any.                         *)
bb_breakout_direction(market, bands) ==
  LET d == VolatilityPeriod * market - bands.sum
      outside == d * d > BbMultiplier * BbMultiplier * bands.spread
  IN  IF bands = None \/ ~ outside THEN None
      ELSE IF d > 0 THEN "Up" ELSE "Down"

(* bb_width_pct(new) > bb_width_pct(old).                                   *)
WiderThan(new, old) ==
  new.spread * old.sum * old.sum > old.spread * new.sum * new.sum

(* The signals that agree with a deviation of at least the pre-trigger      *)
(* threshold; None if there are fewer than two.                             *)
detect_pre_trigger_signals(market, dev, h) ==
  LET dir == Direction(dev)
      r == roc(h)
      s == rsi(h)
      Active(signal) ==
        CASE signal = "bb_breakout" ->
               bb_breakout_direction(market, bollinger_bands(h)) = dir
          [] signal = "deviation_approach" -> AtLeast(dev, APPROACH_THRESHOLD)
          [] signal = "momentum_surge" ->
               /\ r # None
               /\ (r.change > 0) = (dev.diff > 0)
               /\ Scale * Abs(r.change) > MOMENTUM_THRESHOLD * r.previous
          [] signal = "rsi_extreme" ->
               s # None /\ IF dir = "Up" THEN rsi_above(s, 65) ELSE rsi_below(s, 35)
      active == {signal \in Signals : Active(signal)}
  IN  IF \/ dev = None
         \/ ~ AtLeast(dev, PRE_TRIGGER_DEV_THRESHOLD)
         \/ Cardinality(active) < 2
      THEN None
      ELSE [direction |-> dir, signals |-> active]

=============================================================================
