------------------------------ MODULE Indicators ------------------------------
(***************************************************************************)
(* The indicators of src/src/indicators: Bollinger bands, rate of change and *)
(* RSI, which the event detection of the aggregator reads, and EMA and MACD, *)
(* which travel in the tick and are shown on the screen.                     *)
(*                                                                         *)
(* A history is a sequence of positive integers, newest price last.  The    *)
(* f64 results are kept as the exact quantities they are quotients (or      *)
(* roots) of, and every comparison the code makes on a result is made on    *)
(* those quantities: no rounding is modelled.  "None" is Option::None.      *)
(***************************************************************************)
EXTENDS Integers, Sequences, FiniteSetsExt, SequencesExt

CONSTANTS
  None,              \* Option::None
  VolatilityPeriod,  \* config.volatility_period, 20 in the code
  BbMultiplier,      \* the 2.0 of calculate_all_indicators
  RsiPeriod,         \* config.rsi_period, 14 in the code
  RocPeriod          \* the 10 of momentum_10

ASSUME PeriodsAssumption ==
  /\ VolatilityPeriod \in Nat \ {0}
  /\ BbMultiplier \in Nat \ {0}
  /\ RsiPeriod \in Nat \ {0}
  /\ RocPeriod \in Nat \ {0}

-----------------------------------------------------------------------------
(* The indices of the last n prices of a history.                           *)
LastIndices(h, n) == (Len(h) - n + 1) .. Len(h)

(* VolatilityPeriod^2 times the variance of the window (volatility.rs): the *)
(* sum of (x - mean)^2, scaled, is the sum of the squared differences of    *)
(* all pairs of the window.                                                 *)
standard_deviation(h) ==
  LET w == LastIndices(h, VolatilityPeriod)
      pairs == {p \in w \X w : p[1] < p[2]}
  IN  SumFunction([p \in pairs |-> (h[p[1]] - h[p[2]]) * (h[p[1]] - h[p[2]])])

(* The Bollinger bands: sma is sum / VolatilityPeriod and the half width is *)
(* BbMultiplier * sqrt(spread) / VolatilityPeriod.                          *)
bollinger_bands(h) ==
  IF Len(h) < VolatilityPeriod
  THEN None
  ELSE [sum    |-> SumFunction([i \in LastIndices(h, VolatilityPeriod) |-> h[i]]),
        spread |-> standard_deviation(h)]

(* (current - previous) / previous, RocPeriod prices back.                  *)
roc(h) ==
  IF Len(h) < RocPeriod + 1
  THEN None
  ELSE [change |-> h[Len(h)] - h[Len(h) - RocPeriod], previous |-> h[Len(h) - RocPeriod]]

(* A bug: the losses miss the oldest change.                                *)
RsiLossesShort(h) ==
  LET w == LastIndices(h, RsiPeriod)
      gain == [i \in w |-> IF h[i] > h[i - 1] THEN h[i] - h[i - 1] ELSE 0]
      loss == [i \in w |-> IF h[i] < h[i - 1] THEN h[i - 1] - h[i] ELSE 0]
  IN  IF Len(h) < RsiPeriod + 1
      THEN None
      ELSE [gains  |-> SumFunction(gain),
            losses |-> SumFunctionOnSet(loss, LastIndices(h, RsiPeriod - 1))]

(* The total of the gains and of the losses of the last RsiPeriod changes.  *)
rsi(h) ==
  LET w == LastIndices(h, RsiPeriod)
      gain == [i \in w |-> IF h[i] > h[i - 1] THEN h[i] - h[i - 1] ELSE 0]
      loss == [i \in w |-> IF h[i] < h[i - 1] THEN h[i - 1] - h[i] ELSE 0]
  IN  IF Len(h) < RsiPeriod + 1
      THEN None
      ELSE [gains |-> SumFunction(gain), losses |-> SumFunction(loss)]

(* RSI = 100 * gains / (gains + losses), and 100 when there is no loss at   *)
(* all -- a flat history included.                                          *)
rsi_above(r, level) ==
  r.losses = 0 \/ 100 * r.gains > level * (r.gains + r.losses)

rsi_below(r, level) ==
  r.losses # 0 /\ 100 * r.gains < level * (r.gains + r.losses)

-----------------------------------------------------------------------------
(* The price joins the average: price * alpha + ema * (1 - alpha) with        *)
(* alpha = 2 / (period + 1), on fractions num / den.                        *)
Smooth(last, price, period) ==
  [num |-> 2 * price * last.den + (period - 1) * last.num, den |-> (period + 1) * last.den]

(* The mean of the first prices, from which the loop starts.                *)
Seed(h, period) == [num |-> SumFunction([i \in 1 .. period |-> h[i]]), den |-> period]

(* A bug: the last price of the seed is counted again.                      *)
EmaSeedCountedTwice(h, period) ==
  LET e[i \in period - 1 .. Len(h)] ==
        IF i = period - 1 THEN Seed(h, period) ELSE Smooth(e[i - 1], h[i], period)
  IN  IF period = 0 \/ Len(h) < period THEN None ELSE e[Len(h)]

(* e[i] is the average after price i.                                       *)
ema(h, period) ==
  LET e[i \in period .. Len(h)] ==
        IF i = period THEN Seed(h, period) ELSE Smooth(e[i - 1], h[i], period)
  IN  IF period = 0 \/ Len(h) < period THEN None ELSE e[Len(h)]

Minus(a, b) == [num |-> a.num * b.den - b.num * a.den, den |-> a.den * b.den]

(* A bug: the averages change places.                                       *)
MacdReversed(h, fast, slow) ==
  LET f == ema(h, fast)
      s == ema(h, slow)
  IN  IF f = None \/ s = None THEN None
      ELSE [line |-> Minus(s, f), signal |-> Minus(s, f), histogram |-> 0]

(* The signal is the line itself, so the histogram is always 0.             *)
macd(h, fast, slow) ==
  LET f == ema(h, fast)
      s == ema(h, slow)
  IN  IF f = None \/ s = None THEN None
      ELSE [line |-> Minus(f, s), signal |-> Minus(f, s), histogram |-> 0]

=============================================================================
