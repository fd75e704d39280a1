------------------------------ MODULE Statistics ------------------------------
(***************************************************************************)
(* The pure functions of calculator.rs and indicators/ on every list of      *)
(* prices up to a length.  The list is read as the history of the market and *)
(* as the quotes of as many exchanges.  A step appends a price, or changes   *)
(* one as a feed does between two ticks.                                     *)
(***************************************************************************)
EXTENDS Calculator, SequencesExt

CONSTANTS
  Prices,
  MaxLength      \* BOUND: no longer lists

ASSUME StatisticsAssumption ==
  /\ Prices \subseteq Nat \ {0}
  /\ None \notin Prices
  /\ None \notin [num : Nat, den : Nat]      \* Some(average) is not None
  /\ MaxLength \in Nat

VARIABLE prices

Init == prices = <<>>

Push(p) == Len(prices) < MaxLength /\ prices' = Append(prices, p)

Change(i, p) == prices' = [prices EXCEPT ![i] = p]

Next == \E p \in Prices : Push(p) \/ \E i \in DOMAIN prices : Change(i, p)

Spec == Init /\ [][Next]_prices

MarketPrice == calculate_aggregated_price(prices)

-----------------------------------------------------------------------------
(* Picking by rank is sorting and taking the middle, ties included          *)
(* (calculator.rs:169-176): some order of the list is ascending, and the    *)
(* price or the two prices in its middle are the market price.              *)
MedianIsSortedMiddle ==
  LET n == Len(prices)
  IN  n # 0 =>
        \E order \in Injection(1 .. n, 1 .. n) :
          /\ \A i, j \in 1 .. n : i < j => prices[order[i]] <= prices[order[j]]
          /\ MarketPrice = IF n % 2 = 0
                           THEN prices[order[n \div 2]] + prices[order[n \div 2 + 1]]
                           ELSE 2 * prices[order[n \div 2 + 1]]

(* A feed that rises never lowers the market price, whichever side of the   *)
(* median it was on and wherever it ends up.                                *)
MedianIsMonotone ==
  [][ /\ prices # <<>>
      /\ Len(prices') = Len(prices)
      /\ \A i \in DOMAIN prices : prices'[i] >= prices[i]
      => MarketPrice' >= MarketPrice ]_prices

(* a to the power of k, as a product.                                       *)
Power(a, k) ==
  LET p[i \in 0 .. k] == IF i = 0 THEN 1 ELSE a * p[i - 1]
  IN  p[k]

(* The weight of price i of n, as the fraction of period * (period + 1) to   *)
(* the power of n - period: alpha times (1 - alpha) for every later price,   *)
(* and for the prices of the seed what is left.                             *)
Weight(period, n, i) ==
  IF i <= period
  THEN Power(period - 1, n - period)
  ELSE 2 * period * Power(period - 1, n - i) * Power(period + 1, i - period - 1)

(* The loop of ema.rs is the weighted mean of its definition.               *)
EmaIsWeightedMean ==
  \A period \in 2 .. MaxLength :
    Len(prices) >= period =>
      LET n == Len(prices)
      IN  ema(prices, period) =
            [num |-> SumFunction([i \in 1 .. n |-> Weight(period, n, i) * prices[i]]),
             den |-> period * Power(period + 1, n - period)]

(* In a market that only rises the MACD line is positive as soon as it is    *)
(* defined, for all periods, although its two averages start from different  *)
(* seeds (composite.rs).                                                          *)
MacdFollowsTrend ==
  (\A i \in 2 .. Len(prices) : prices[i - 1] < prices[i]) =>
    \A slow \in 2 .. Len(prices) : \A fast \in 1 .. slow - 1 :
      macd(prices, fast, slow).line.num > 0

(* A list turned upside down, just above its highest price.                 *)
Mirror(s) == [i \in DOMAIN s |-> Max(Range(s)) + 1 - s[i]]

(* RSI treats rises and falls alike: a market mirrored up to down is         *)
(* oversold exactly when the market itself is overbought.  The exception is  *)
(* a flat window, which counts as overbought (momentum.rs:43).               *)
RsiMirrors ==
  LET r == rsi(prices)
      m == rsi(Mirror(prices))
  IN  r # None /\ r.gains + r.losses > 0 =>
        /\ rsi_above(r, 65) <=> rsi_below(m, 35)
        /\ rsi_below(r, 35) <=> rsi_above(m, 65)

=============================================================================
