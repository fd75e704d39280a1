----------------------------- MODULE MCAggregator -----------------------------
(* Instances of Aggregator for TLC.  One threshold unit is 1 % here (Scale  *)
(* = 100), so that small prices reach every zone.  Against the baseline 100 *)
(* the prices 99, 106, 108 and 110 deviate by -1 %, 6 % (pre-trigger only), *)
(* 8 % (approach) and exactly the trigger 10 %; against 110 the price 99    *)
(* deviates by exactly -10 %.                                               *)
EXTENDS Aggregator

(* BOUND: at most one quote is on its way, and none while a tick is being   *)
(* handled: the loop reads neither feed nor channel there.                  *)
QuietFeeds ==
  LET onTheWay == {e \in Exchanges : feed[e] # None}
  IN  /\ Cardinality(onTheWay) + Len(channel) <= 1
      /\ onTheWay # {} \/ channel # <<>> => agg_pc = "select"

FeedSymmetry == Permutations(Exchanges)

=============================================================================
