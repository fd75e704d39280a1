--------------------------- MODULE AggregatorProofs ---------------------------
(***************************************************************************)
(* Proofs about Aggregator, for every set of exchanges and of prices, every *)
(* capacity, period, threshold scale and clock.                             *)
(***************************************************************************)
EXTENDS Aggregator, CalculatorProofs, SequenceTheorems

-----------------------------------------------------------------------------
(* The inductive invariant                                                  *)

(* The control points of the loop: it waits for the lock only with at least *)
(* one fresh quote in hand, and it is sending exactly while events are left.*)
LoopInv ==
  /\ agg_pc = "lock" => FreshExchanges(tick_now) # {}
  /\ agg_pc = "send" <=> outbound # <<>>

Inv == TypeOK /\ LoopInv

-----------------------------------------------------------------------------
(* Types of what a tick computes                                            *)

(* The table of voters is nonempty and finite when the lock is awaited.     *)
LEMMA VotersType ==
  ASSUME Inv, agg_pc = "lock"
  PROVE  /\ FreshExchanges(tick_now) \in SUBSET Exchanges
         /\ FreshExchanges(tick_now) # {}
         /\ IsFiniteSet(FreshExchanges(tick_now))
         /\ VotingPrices \in [FreshExchanges(tick_now) -> Prices]
<1>1. FreshExchanges(tick_now) \in SUBSET Exchanges /\ FreshExchanges(tick_now) # {}
  BY DEF Inv, LoopInv, FreshExchanges
<1>2. IsFiniteSet(FreshExchanges(tick_now))
  BY <1>1, AggregatorAssumption, FS_Subset
<1>3. ASSUME NEW e \in FreshExchanges(tick_now) PROVE price_buffer[e].price \in Prices
  BY <1>3 DEF FreshExchanges, Inv, TypeOK, Quote
<1>4. QED
  BY <1>1, <1>2, <1>3 DEF VotingPrices

(* The market price is a natural number.                                    *)
LEMMA MarketType ==
  ASSUME Inv, agg_pc = "lock"
  PROVE  Market \in Nat
<1>1. VotingPrices \in [FreshExchanges(tick_now) -> Nat]
  BY VotersType, AggregatorAssumption
<1>2. QED
  BY <1>1, VotersType, MedianIsNatural DEF Market

(* A deviation is a fraction with a positive denominator.                   *)
LEMMA DeviationType ==
  ASSUME Inv, agg_pc = "lock"
  PROVE  /\ Deviation \in [diff : Int, base : Nat \ {0}] \cup {None}
         /\ round_imminent \in BOOLEAN
         /\ dev_approaching \in BOOLEAN
         /\ Direction(Deviation) \in Directions
         /\ round_imminent => chainlink_baseline # None
<1>1. CASE chainlink_baseline = None
  BY <1>1 DEF Deviation, round_imminent, dev_approaching, Direction, Directions
<1>2. CASE chainlink_baseline # None
  <2>1. chainlink_baseline \in Nat \ {0}
    BY <1>2, AggregatorAssumption DEF Inv, TypeOK
  <2>2. Deviation = [diff |-> Market - 2 * chainlink_baseline,
                     base |-> 2 * chainlink_baseline]
    BY <1>2 DEF Deviation, deviation_pct
  <2>3. Market - 2 * chainlink_baseline \in Int /\ 2 * chainlink_baseline \in Nat \ {0}
    BY <2>1, MarketType
  <2>4. Deviation \in [diff : Int, base : Nat \ {0}]
    BY <2>2, <2>3
  <2>5. round_imminent \in BOOLEAN /\ dev_approaching \in BOOLEAN
    BY DEF round_imminent, dev_approaching, is_round_imminent,
           is_deviation_approaching, AtLeast
  <2>6. QED
    BY <1>2, <2>4, <2>5 DEF Direction, Directions
<1>3. QED
  BY <1>1, <1>2

(* The published snapshot is a PriceUpdate.                                 *)
LEMMA SnapshotType ==
  ASSUME Inv, agg_pc = "lock"
  PROVE  Snapshot \in PriceUpdate
<1>1. VotingPrices \in UNION {[E -> Prices] : E \in SUBSET Exchanges}
  BY VotersType
<1>2. tick_now \in Times /\ chainlink_baseline \in ChainlinkPrices \cup {None}
  BY DEF Inv, TypeOK
<1>3. QED
  BY <1>1, <1>2, MarketType, DeviationType DEF Snapshot, PriceUpdate

(* The history stays a sequence of naturals that ends with the market price *)
(* and fits its capacity.                                                   *)
LEMMA HistoryType ==
  ASSUME Inv, agg_pc = "lock"
  PROVE  /\ History \in Seq(Nat)
         /\ History # <<>>
         /\ History[Len(History)] = Market
         /\ Len(price_history) <= PriceHistoryCapacity
              => Len(History) <= PriceHistoryCapacity
<1> DEFINE pushed == Append(price_history, Market)
<1>1. price_history \in Seq(Nat) /\ Market \in Nat /\ PriceHistoryCapacity \in Nat \ {0}
  BY MarketType, AggregatorAssumption DEF Inv, TypeOK
<1>2. /\ pushed \in Seq(Nat)
      /\ pushed # <<>>
      /\ Len(pushed) = Len(price_history) + 1
      /\ pushed[Len(pushed)] = Market
      /\ Len(price_history) \in Nat
  BY <1>1, AppendProperties, LenProperties
<1> HIDE DEF pushed
<1>3. CASE Len(pushed) > PriceHistoryCapacity
  <2>1. History = Tail(pushed)
    BY <1>3 DEF History, PushPrice, pushed
  <2>2. /\ Tail(pushed) \in Seq(Nat)
        /\ Len(Tail(pushed)) = Len(price_history)
        /\ \A k \in 1 .. Len(Tail(pushed)) : Tail(pushed)[k] = pushed[k + 1]
    BY <1>2, HeadTailProperties
  <2>3. Len(price_history) # 0
    BY <1>1, <1>2, <1>3
  <2>4. Tail(pushed)[Len(Tail(pushed))] = Market
    BY <1>2, <2>2, <2>3
  <2>5. Tail(pushed) # <<>>
    BY <2>2, <2>3
  <2>6. QED
    BY <2>1, <2>2, <2>4, <2>5
<1>4. CASE ~ (Len(pushed) > PriceHistoryCapacity)
  <2>1. History = pushed
    BY <1>4 DEF History, PushPrice, pushed
  <2>2. QED
    BY <2>1, <1>1, <1>2, <1>4
<1>5. QED
  BY <1>3, <1>4

(* A sequence of at most one event.                                         *)
LEMMA IfType ==
  ASSUME NEW c \in BOOLEAN, NEW S, NEW e, c => e \in S
  PROVE  If(c, e) \in Seq(S)
<1>1. CASE c
  <2>1. <<e>> \in Seq(S)
    BY <1>1
  <2>2. QED
    BY <1>1, <2>1 DEF If
<1>2. CASE ~ c
  <2>1. <<>> \in Seq(S)
    BY EmptySeq
  <2>2. QED
    BY <1>2, <2>1 DEF If
<1>3. QED
  BY <1>1, <1>2

(* The directions and signals of the detection functions.                   *)
LEMMA DetectionType ==
  /\ bb_dir \in Directions \cup {None}
  /\ pre_trigger_result # None =>
       /\ pre_trigger_result.direction \in Directions
       /\ pre_trigger_result.signals \in SUBSET Signals
<1>1. bb_dir \in Directions \cup {None}
  BY DEF bb_dir, bb_breakout_direction, Directions
<1>2. ASSUME NEW market, NEW dev, NEW h,
             detect_pre_trigger_signals(market, dev, h) # None
      PROVE  /\ detect_pre_trigger_signals(market, dev, h).direction \in Directions
             /\ detect_pre_trigger_signals(market, dev, h).signals \in SUBSET Signals
  BY <1>2 DEF detect_pre_trigger_signals, Direction, Directions
<1>3. QED
  BY <1>1, <1>2 DEF pre_trigger_result

(* What the alerts about a deviation carry.                                 *)
LEMMA AlertType ==
  ASSUME Inv, agg_pc = "lock",
         round_imminent \/ dev_approaching \/ pre_trigger_result # None
  PROVE  /\ Market \in Nat
         /\ chainlink_baseline \in ChainlinkPrices
         /\ Deviation \in [diff : Int, base : Nat \ {0}]
<1>1. Deviation # None
  BY DEF round_imminent, dev_approaching, pre_trigger_result, detect_pre_trigger_signals
<1>2. chainlink_baseline # None
  BY <1>1 DEF Deviation
<1>3. QED
  BY <1>1, <1>2, MarketType, DeviationType DEF Inv, TypeOK

LEMMA DeviationAlertType ==
  ASSUME Inv, agg_pc = "lock", round_imminent \/ dev_approaching,
         NEW type \in {"round_triggered", "deviation_approach"}
  PROVE  DeviationAlert(type) \in Event
<1>1. /\ Market \in Nat /\ chainlink_baseline \in ChainlinkPrices
      /\ Deviation \in [diff : Int, base : Nat \ {0}]
  BY AlertType
<1>2. Direction(Deviation) \in Directions /\ tick_now \in Times
  BY DeviationType DEF Inv, TypeOK
<1>3. QED
  BY <1>1, <1>2 DEF DeviationAlert, Event

(* Each of the event sequences of a tick.                                   *)
LEMMA EventsType ==
  ASSUME Inv, agg_pc = "lock"
  PROVE  /\ <<[type |-> "tick", ts |-> tick_now, data |-> Snapshot]>> \in Seq(Event)
         /\ round_settled \in Seq(Event)
         /\ round_triggered \in Seq(Event)
         /\ deviation_approach \in Seq(Event)
         /\ bb_breakout \in Seq(Event)
         /\ pre_trigger_alert \in Seq(Event)
<1>1. /\ tick_now \in Times
      /\ chainlink_baseline \in ChainlinkPrices \cup {None}
      /\ prev_chainlink_price \in ChainlinkPrices \cup {None}
      /\ round_imminent_since \in Times \cup {None}
      /\ prev_round_imminent \in BOOLEAN
      /\ prev_deviation_approaching \in BOOLEAN
      /\ prev_pre_trigger \in BOOLEAN
  BY DEF Inv, TypeOK
<1>2. <<[type |-> "tick", ts |-> tick_now, data |-> Snapshot]>> \in Seq(Event)
  BY <1>1, SnapshotType DEF Event
<1>3. round_settled \in Seq(Event)
  <2>1. RoundDuration \in Int \cup {None}
    <3>1. ASSUME round_imminent_since # None
          PROVE  (tick_now - round_imminent_since) \div UnitsPerSec \in Int
      BY <1>1, <3>1, AggregatorAssumption DEF Times
    <3>2. QED
      BY <3>1 DEF RoundDuration
  <2>2. BaselineMoved \in BOOLEAN
    BY DEF BaselineMoved
  <2>3. BaselineMoved =>
          [type |-> "round_settled", ts |-> tick_now,
           prev_price |-> prev_chainlink_price, new_price |-> chainlink_baseline,
           round_duration_secs |-> RoundDuration] \in Event
    BY <1>1, <2>1 DEF BaselineMoved, Event
  <2>4. QED
    BY <2>2, <2>3, IfType DEF round_settled
<1>4. round_triggered \in Seq(Event)
  <2>1. round_imminent => DeviationAlert("round_triggered") \in Event
    BY DeviationAlertType
  <2>2. (round_imminent /\ ~ prev_round_imminent) \in BOOLEAN
    OBVIOUS
  <2>3. QED
    BY <2>1, <2>2, IfType DEF round_triggered
<1>5. deviation_approach \in Seq(Event)
  <2>1. dev_approaching => DeviationAlert("deviation_approach") \in Event
    BY DeviationAlertType
  <2>2. (dev_approaching /\ ~ prev_deviation_approaching) \in BOOLEAN
    OBVIOUS
  <2>3. QED
    BY <2>1, <2>2, IfType DEF deviation_approach
<1>6. bb_breakout \in Seq(Event)
  <2> DEFINE expanding == /\ prev_bb_width_pct # None
                          /\ WiderThan(Bands, prev_bb_width_pct)
             c == bb_dir # None /\ prev_bb_breakout_dir = None
             e == [type |-> "bb_breakout", ts |-> tick_now, direction |-> bb_dir,
                   market_price |-> Market, deviation_pct |-> Deviation,
                   bb_expanding |-> expanding]
  <2>1. expanding \in BOOLEAN /\ c \in BOOLEAN
    BY DEF WiderThan
  <2>2. c => e \in Event
    <3> HIDE DEF expanding
    <3>1. Market \in Nat /\ Deviation \in [diff : Int, base : Nat \ {0}] \cup {None}
      BY MarketType, DeviationType
    <3>2. QED
      BY <1>1, <2>1, <3>1, DetectionType DEF Event
  <2>3. bb_breakout = If(c, e)
    BY DEF bb_breakout
  <2>4. QED
    <3> HIDE DEF c, e
    <3>1. QED BY <2>1, <2>2, <2>3, IfType
<1>7. pre_trigger_alert \in Seq(Event)
  <2> DEFINE c == pre_trigger_result # None /\ ~ prev_pre_trigger
             e == [type |-> "pre_trigger_alert", ts |-> tick_now,
                   direction |-> pre_trigger_result.direction,
                   market_price |-> Market, chainlink_price |-> chainlink_baseline,
                   deviation_pct |-> Deviation, signals |-> pre_trigger_result.signals]
  <2>1. c => e \in Event
    <3>1. c => /\ Market \in Nat /\ chainlink_baseline \in ChainlinkPrices
               /\ Deviation \in [diff : Int, base : Nat \ {0}]
      BY AlertType
    <3>2. QED
      BY <1>1, <3>1, DetectionType DEF Event
  <2>2. c \in BOOLEAN /\ pre_trigger_alert = If(c, e)
    BY DEF pre_trigger_alert
  <2>3. QED
    <3> HIDE DEF c, e
    <3>1. QED BY <2>1, <2>2, IfType
<1>8. QED
  BY <1>2, <1>3, <1>4, <1>5, <1>6, <1>7

(* A batch is a nonempty sequence of events.                                *)
LEMMA BatchType ==
  ASSUME Inv, agg_pc = "lock"
  PROVE  Batch \in Seq(Event) /\ Batch # <<>>
<1> DEFINE b0 == <<[type |-> "tick", ts |-> tick_now, data |-> Snapshot]>>
           b1 == b0 \o round_settled
           b2 == b1 \o round_triggered
           b3 == b2 \o deviation_approach
           b4 == b3 \o bb_breakout
           b5 == b4 \o pre_trigger_alert
<1>1. Batch = b5
  BY DEF Batch
<1>2. b0 \in Seq(Event) /\ Len(b0) = 1
  BY EventsType
<1> HIDE DEF b0
<1>3. b1 \in Seq(Event) /\ Len(b1) >= 1
  <2>1. round_settled \in Seq(Event)
    BY EventsType
  <2>2. Len(round_settled) \in Nat
    BY <2>1, LenProperties
  <2>3. b1 \in Seq(Event) /\ Len(b1) = Len(b0) + Len(round_settled)
    BY <1>2, <2>1, ConcatProperties
  <2>4. QED
    BY <1>2, <2>2, <2>3
<1> HIDE DEF b1
<1>4. b2 \in Seq(Event) /\ Len(b2) >= 1
  BY <1>3, EventsType, ConcatProperties, LenProperties
<1> HIDE DEF b2
<1>5. b3 \in Seq(Event) /\ Len(b3) >= 1
  BY <1>4, EventsType, ConcatProperties, LenProperties
<1> HIDE DEF b3
<1>6. b4 \in Seq(Event) /\ Len(b4) >= 1
  BY <1>5, EventsType, ConcatProperties, LenProperties
<1> HIDE DEF b4
<1>7. b5 \in Seq(Event) /\ Len(b5) >= 1
  BY <1>6, EventsType, ConcatProperties, LenProperties
<1> HIDE DEF b5
<1>8. b5 # <<>>
  BY <1>7, EmptySeq
<1>9. QED
  BY <1>1, <1>7, <1>8

-----------------------------------------------------------------------------
(* The steps, one lemma per action                                          *)

LEMMA InitInv == Init => Inv
<1> SUFFICES ASSUME Init PROVE Inv
  OBVIOUS
<1>1. 0 \in Times
  BY AggregatorAssumption DEF Times
<1>2. <<>> \in Seq(Quote) /\ <<>> \in Seq(Event) /\ <<>> \in Seq(Nat)
  BY EmptySeq
<1>3. TypeOK
  BY <1>1, <1>2 DEF Init, TypeOK
<1>4. LoopInv
  BY DEF Init, LoopInv
<1>5. QED
  BY <1>3, <1>4 DEF Inv

LEMMA ElapseInv ==
  ASSUME Inv, Elapse
  PROVE  Inv'
<1>1. clock' \in Times
  BY AggregatorAssumption DEF Elapse, Inv, TypeOK, Times
<1>2. TypeOK'
  BY <1>1 DEF Elapse, Inv, TypeOK, feedVars, bufferVars, edgeVars, publishedVars, loopVars
<1>3. LoopInv'
  BY DEF Elapse, Inv, LoopInv, FreshExchanges, IsFresh, bufferVars, loopVars
<1>4. QED
  BY <1>2, <1>3 DEF Inv

LEMMA FeedInv ==
  ASSUME Inv, Feed
  PROVE  Inv'
<1>1. PICK e \in Exchanges : FeedQuote(e) \/ FeedSend(e)
  BY DEF Feed
<1>2. LoopInv'
  BY <1>1 DEF FeedQuote, FeedSend, Inv, LoopInv, FreshExchanges, IsFresh,
              bufferVars, loopVars
<1>3. CASE FeedQuote(e)
  <2>1. PICK p \in Prices :
          feed' = [feed EXCEPT ![e] = [exchange |-> e, price |-> p, timestamp |-> clock]]
    BY <1>3 DEF FeedQuote
  <2>2. [exchange |-> e, price |-> p, timestamp |-> clock] \in Quote
    BY DEF Inv, TypeOK, Quote
  <2>3. feed' \in [Exchanges -> Quote \cup {None}]
    BY <2>1, <2>2 DEF Inv, TypeOK
  <2>4. TypeOK'
    BY <1>3, <2>3 DEF FeedQuote, Inv, TypeOK, bufferVars, edgeVars, publishedVars, loopVars
  <2>5. QED
    BY <1>2, <2>4 DEF Inv
<1>4. CASE FeedSend(e)
  <2>1. feed[e] \in Quote
    BY <1>4 DEF FeedSend, Inv, TypeOK
  <2>2. channel' \in Seq(Quote)
    BY <1>4, <2>1, AppendProperties DEF FeedSend, Inv, TypeOK
  <2>3. feed' \in [Exchanges -> Quote \cup {None}]
    BY <1>4 DEF FeedSend, Inv, TypeOK
  <2>4. TypeOK'
    BY <1>4, <2>2, <2>3 DEF FeedSend, Inv, TypeOK, bufferVars, edgeVars, publishedVars, loopVars
  <2>5. QED
    BY <1>2, <2>4 DEF Inv
<1>5. QED
  BY <1>1, <1>3, <1>4

LEMMA PollInv ==
  ASSUME Inv, PollBaseline
  PROVE  Inv'
<1>1. TypeOK'
  BY DEF PollBaseline, Inv, TypeOK, feedVars, bufferVars, edgeVars, publishedVars, loopVars
<1>2. LoopInv'
  BY DEF PollBaseline, Inv, LoopInv, FreshExchanges, IsFresh, bufferVars, loopVars
<1>3. QED
  BY <1>1, <1>2 DEF Inv

LEMMA RecvInv ==
  ASSUME Inv, RecvPrice
  PROVE  Inv'
<1> DEFINE ep == Head(channel)
<1>1. channel \in Seq(Quote) /\ channel # <<>>
  BY DEF RecvPrice, Inv, TypeOK
<1>2. ep \in Quote /\ channel' \in Seq(Quote)
  BY <1>1, HeadTailProperties DEF RecvPrice, TakeQuote
<1>3. /\ exchange_status' = [exchange_status EXCEPT ![ep.exchange] =
                               [last_price |-> ep.price, last_update |-> ep.timestamp]]
      /\ price_buffer' = [price_buffer EXCEPT ![ep.exchange] = ep]
  BY DEF RecvPrice, TakeQuote
<1> HIDE DEF ep
<1>4. /\ ep.exchange \in Exchanges
      /\ [last_price |-> ep.price, last_update |-> ep.timestamp]
           \in [last_price : Prices, last_update : Times]
  BY <1>2 DEF Quote
<1>5. price_buffer' \in [Exchanges -> Quote \cup {None}]
  BY <1>2, <1>3, <1>4 DEF Inv, TypeOK
<1>6. exchange_status' \in
        [Exchanges -> [last_price : Prices, last_update : Times] \cup {None}]
  BY <1>3, <1>4 DEF Inv, TypeOK
<1>7. TypeOK'
  BY <1>2, <1>5, <1>6
     DEF RecvPrice, Inv, TypeOK, edgeVars, publishedVars, loopVars
<1>8. LoopInv'
  BY DEF RecvPrice, Inv, LoopInv, loopVars
<1>9. QED
  BY <1>7, <1>8 DEF Inv

LEMMA TickStartInv ==
  ASSUME Inv, TickStart
  PROVE  Inv'
<1>1. TypeOK'
  BY DEF TickStart, Inv, TypeOK, feedVars, bufferVars, edgeVars, publishedVars
<1>2. FreshExchanges(tick_now)' # {}
  BY DEF TickStart, FreshExchanges, IsFresh, bufferVars
<1>3. LoopInv'
  BY <1>2 DEF TickStart, Inv, LoopInv
<1>4. QED
  BY <1>1, <1>3 DEF Inv

LEMMA TickCommitInv ==
  ASSUME Inv, TickCommit
  PROVE  Inv'
<1>1. agg_pc = "lock"
  BY DEF TickCommit
<1>2. outbound' \in Seq(Event) /\ outbound' # <<>>
  BY <1>1, BatchType DEF TickCommit
<1>3. price_history' \in Seq(Nat)
  BY <1>1, HistoryType DEF TickCommit
<1>4. current_price' \in PriceUpdate
  BY <1>1, SnapshotType DEF TickCommit
<1>5. /\ prev_round_imminent' \in BOOLEAN
      /\ prev_deviation_approaching' \in BOOLEAN
  BY <1>1, DeviationType DEF TickCommit
<1>6. /\ prev_bb_breakout_dir' \in Directions \cup {None}
      /\ prev_pre_trigger' \in BOOLEAN
      /\ prev_bb_width_pct' \in [sum : Nat, spread : Nat] \cup {None}
  BY <1>1, DetectionType, HistoryType, BandsType DEF TickCommit, Bands
<1>7. round_imminent_since' \in Times \cup {None}
  BY DEF TickCommit, WindowStart, AfterSettlement, Inv, TypeOK
<1>8. /\ last_update' \in Times
      /\ prev_chainlink_price' \in ChainlinkPrices \cup {None}
      /\ agg_pc' = "send"
  BY DEF TickCommit, Inv, TypeOK
<1>9. UNCHANGED <<clock, feed, channel, price_buffer, exchange_status, tick_now, heard,
                  chainlink_baseline>>
  BY DEF TickCommit, feedVars, bufferVars
<1>10. TypeOK'
  BY <1>2, <1>3, <1>4, <1>5, <1>6, <1>7, <1>8, <1>9 DEF Inv, TypeOK
<1>11. LoopInv'
  BY <1>2, <1>8 DEF LoopInv
<1>12. QED
  BY <1>10, <1>11 DEF Inv

LEMMA SendInv ==
  ASSUME Inv, SendEvent
  PROVE  Inv'
<1>1. outbound \in Seq(Event) /\ outbound # <<>>
  BY DEF SendEvent, Inv, TypeOK, LoopInv
<1>2. outbound' \in Seq(Event) /\ Len(outbound') = Len(outbound) - 1
  BY <1>1, HeadTailProperties DEF SendEvent
<1>3. outbound' = <<>> <=> Len(outbound) = 1
  <2>1. outbound' = <<>> <=> Len(outbound') = 0
    BY <1>2, EmptySeq
  <2>2. Len(outbound) \in Nat
    BY <1>1, LenProperties
  <2>3. QED
    BY <1>2, <2>1, <2>2
<1>4. /\ agg_pc' = IF Len(outbound) = 1 THEN "select" ELSE "send"
      /\ tick_now' \in Times
  BY AggregatorAssumption DEF SendEvent, Inv, TypeOK, Times
<1>5. heard' \in Times \cup {None}
  <2>1. Head(outbound) \in Event /\ heard \in Times \cup {None}
    BY <1>1, HeadTailProperties DEF Inv, TypeOK
  <2>2. Head(outbound).ts \in Times
    BY <2>1 DEF Event
  <2>3. QED
    BY <2>1, <2>2 DEF SendEvent
<1>6. TypeOK'
  BY <1>2, <1>4, <1>5 DEF SendEvent, Inv, TypeOK, feedVars, bufferVars, edgeVars, publishedVars
<1>7. LoopInv'
  BY <1>3, <1>4 DEF LoopInv
<1>8. QED
  BY <1>6, <1>7 DEF Inv

LEMMA StutterInv ==
  ASSUME Inv, UNCHANGED vars
  PROVE  Inv'
BY DEF Inv, TypeOK, LoopInv, FreshExchanges, IsFresh, vars, feedVars, bufferVars,
       edgeVars, publishedVars, loopVars

(* The inductive invariant holds in every reachable state.                  *)
THEOREM Invariance == Spec => []Inv
<1>1. Inv /\ [Next]_vars => Inv'
  BY ElapseInv, FeedInv, PollInv, RecvInv, TickStartInv, TickCommitInv, SendInv,
     StutterInv DEF Next, Loop
<1>2. QED
  BY InitInv, <1>1, PTL DEF Spec

(* Type correctness of the aggregation loop, its feeds and the poller.      *)
THEOREM TypeCorrect == Spec => []TypeOK
<1>1. Inv => TypeOK
  BY DEF Inv
<1>2. QED
  BY Invariance, <1>1, PTL

-----------------------------------------------------------------------------
(* Safety                                                                   *)

(* A history within its capacity that ends with the published price.        *)
THEOREM HistoryFollowsMarket == Spec => []HistoryEndsWithMarket
<1>1. Init => HistoryEndsWithMarket
  BY AggregatorAssumption, EmptySeq DEF Init, HistoryEndsWithMarket
<1>2. Inv /\ HistoryEndsWithMarket /\ [Next]_vars => HistoryEndsWithMarket'
  <2> SUFFICES ASSUME Inv, HistoryEndsWithMarket, [Next]_vars
               PROVE  HistoryEndsWithMarket'
    OBVIOUS
  <2>1. CASE TickCommit
    <3>1. price_history' = History /\ current_price' = Snapshot /\ agg_pc = "lock"
      BY <2>1 DEF TickCommit
    <3>2. Snapshot.market_price = Market
      BY DEF Snapshot
    <3>3. Len(History) <= PriceHistoryCapacity /\ History # <<>>
            /\ History[Len(History)] = Market
      BY <3>1, HistoryType DEF HistoryEndsWithMarket
    <3>4. QED
      BY <3>1, <3>2, <3>3 DEF HistoryEndsWithMarket
  <2>2. CASE UNCHANGED publishedVars
    BY <2>2 DEF publishedVars, HistoryEndsWithMarket
  <2>3. TickCommit \/ UNCHANGED publishedVars
    BY DEF Next, Loop, Feed, Elapse, FeedQuote, FeedSend, PollBaseline, RecvPrice,
           TickStart, SendEvent, vars
  <2>4. QED
    BY <2>1, <2>2, <2>3
<1>3. QED
  BY Invariance, <1>1, <1>2, PTL DEF Spec

(* The published median of three voters is within the range of any two.     *)
THEOREM OutvotedInEverySnapshot == Spec => []OneBadFeedOutvoted
<1>1. Init => OneBadFeedOutvoted
  BY DEF Init, OneBadFeedOutvoted
<1>2. Inv /\ OneBadFeedOutvoted /\ [Next]_vars => OneBadFeedOutvoted'
  <2> SUFFICES ASSUME Inv, OneBadFeedOutvoted, [Next]_vars
               PROVE  OneBadFeedOutvoted'
    OBVIOUS
  <2>1. CASE TickCommit
    <3> DEFINE D == FreshExchanges(tick_now)
    <3>1. current_price' = Snapshot /\ agg_pc = "lock"
      BY <2>1 DEF TickCommit
    <3>2. /\ IsFiniteSet(D)
          /\ VotingPrices \in [D -> Nat]
      BY <3>1, VotersType, AggregatorAssumption
    <3> HIDE DEF D
    <3>3. /\ current_price'.exchange_prices = VotingPrices
          /\ current_price'.market_price = calculate_aggregated_price(VotingPrices)
      BY <3>1 DEF Snapshot, Market
    <3>4. ASSUME Cardinality(D) = 3, NEW bad \in D
          PROVE  \E a, b \in D \ {bad} :
                   /\ 2 * VotingPrices[a] <= calculate_aggregated_price(VotingPrices)
                   /\ calculate_aggregated_price(VotingPrices) <= 2 * VotingPrices[b]
      BY <3>2, <3>4, OneOfThreeOutvoted
    <3>5. DOMAIN VotingPrices = D
      BY <3>2
    <3>6. QED
      BY <3>3, <3>4, <3>5 DEF OneBadFeedOutvoted
  <2>2. CASE UNCHANGED publishedVars
    BY <2>2 DEF publishedVars, OneBadFeedOutvoted
  <2>3. TickCommit \/ UNCHANGED publishedVars
    BY DEF Next, Loop, Feed, Elapse, FeedQuote, FeedSend, PollBaseline, RecvPrice,
           TickStart, SendEvent, vars
  <2>4. QED
    BY <2>1, <2>2, <2>3
<1>3. QED
  BY Invariance, <1>1, <1>2, PTL DEF Spec

(* The kinds of event in a concatenation, and in a tail.                    *)
LEMMA EventTypesConcat ==
  ASSUME NEW s \in Seq(Event), NEW t \in Seq(Event)
  PROVE  /\ s \o t \in Seq(Event)
         /\ EventTypes(s \o t) = EventTypes(s) \cup EventTypes(t)
<1>1. /\ s \o t \in Seq(Event)
      /\ Len(s \o t) = Len(s) + Len(t)
      /\ \A i \in 1 .. Len(s) + Len(t) :
           (s \o t)[i] = IF i <= Len(s) THEN s[i] ELSE t[i - Len(s)]
  BY ConcatProperties
<1>2. /\ Len(s) \in Nat /\ DOMAIN s = 1 .. Len(s)
      /\ Len(t) \in Nat /\ DOMAIN t = 1 .. Len(t)
      /\ DOMAIN (s \o t) = 1 .. Len(s) + Len(t)
  BY <1>1, LenProperties
<1>3. ASSUME NEW i \in DOMAIN (s \o t)
      PROVE  (s \o t)[i].type \in EventTypes(s) \cup EventTypes(t)
  <2>1. CASE i <= Len(s)
    BY <1>1, <1>2, <2>1 DEF EventTypes
  <2>2. CASE ~ (i <= Len(s))
    <3>1. i - Len(s) \in DOMAIN t /\ (s \o t)[i] = t[i - Len(s)]
      BY <1>1, <1>2, <2>2
    <3>2. QED
      BY <3>1 DEF EventTypes
  <2>3. QED
    BY <2>1, <2>2
<1>4. ASSUME NEW i \in DOMAIN s
      PROVE  s[i].type \in EventTypes(s \o t)
  <2>1. i \in DOMAIN (s \o t) /\ (s \o t)[i] = s[i]
    BY <1>1, <1>2
  <2>2. QED
    BY <2>1 DEF EventTypes
<1>5. ASSUME NEW i \in DOMAIN t
      PROVE  t[i].type \in EventTypes(s \o t)
  <2>1. Len(s) + i \in DOMAIN (s \o t) /\ (s \o t)[Len(s) + i] = t[i]
    BY <1>1, <1>2
  <2>2. QED
    BY <2>1 DEF EventTypes
<1>6. QED
  BY <1>1, <1>3, <1>4, <1>5 DEF EventTypes

LEMMA EventTypesTail ==
  ASSUME NEW s \in Seq(Event), s # <<>>
  PROVE  EventTypes(s) = {Head(s).type} \cup EventTypes(Tail(s))
<1>1. /\ Tail(s) \in Seq(Event)
      /\ Len(Tail(s)) = Len(s) - 1
      /\ \A i \in 1 .. Len(Tail(s)) : Tail(s)[i] = s[i + 1]
      /\ Head(s) = s[1]
  BY HeadTailProperties
<1>2. /\ DOMAIN Tail(s) = 1 .. Len(Tail(s))
      /\ DOMAIN s = 1 .. Len(s)
      /\ Len(s) \in Nat \ {0}
  BY <1>1, LenProperties, EmptySeq
<1>3. 1 \in DOMAIN s
  BY <1>2
<1>4. ASSUME NEW i \in DOMAIN Tail(s)
      PROVE  i + 1 \in DOMAIN s /\ Tail(s)[i] = s[i + 1]
  BY <1>1, <1>2
<1>5. ASSUME NEW i \in DOMAIN s, i # 1
      PROVE  i - 1 \in DOMAIN Tail(s) /\ Tail(s)[i - 1] = s[i]
  <2>1. i - 1 \in 1 .. Len(Tail(s)) /\ (i - 1) + 1 = i
    BY <1>1, <1>2, <1>5
  <2>2. QED
    BY <1>1, <1>2, <2>1
<1>6. QED
  BY <1>1, <1>3, <1>4, <1>5 DEF EventTypes

LEMMA EventTypesIf ==
  ASSUME NEW c \in BOOLEAN, NEW e
  PROVE  EventTypes(If(c, e)) = IF c THEN {e.type} ELSE {}
<1>1. CASE c
  <2>1. If(c, e) = <<e>>
    BY <1>1 DEF If
  <2>2. EventTypes(<<e>>) = {e.type}
    BY DEF EventTypes
  <2>3. QED
    BY <1>1, <2>1, <2>2
<1>2. CASE ~ c
  <2>1. If(c, e) = <<>>
    BY <1>2 DEF If
  <2>2. EventTypes(<<>>) = {}
    BY DEF EventTypes
  <2>3. QED
    BY <1>2, <2>1, <2>2
<1>3. QED
  BY <1>1, <1>2

(* Which kinds of event the batch of a tick holds.                          *)
LEMMA BatchTypes ==
  ASSUME Inv, agg_pc = "lock"
  PROVE  EventTypes(Batch) =
           {"tick"}
             \cup (IF BaselineMoved THEN {"round_settled"} ELSE {})
             \cup (IF round_imminent /\ ~ prev_round_imminent
                   THEN {"round_triggered"} ELSE {})
             \cup (IF dev_approaching /\ ~ prev_deviation_approaching
                   THEN {"deviation_approach"} ELSE {})
             \cup (IF bb_dir # None /\ prev_bb_breakout_dir = None
                   THEN {"bb_breakout"} ELSE {})
             \cup (IF pre_trigger_result # None /\ ~ prev_pre_trigger
                   THEN {"pre_trigger_alert"} ELSE {})
<1> DEFINE b0 == <<[type |-> "tick", ts |-> tick_now, data |-> Snapshot]>>
           b1 == b0 \o round_settled
           b2 == b1 \o round_triggered
           b3 == b2 \o deviation_approach
           b4 == b3 \o bb_breakout
           b5 == b4 \o pre_trigger_alert
<1>1. Batch = b5
  BY DEF Batch
<1>2. /\ EventTypes(b0) = {"tick"}
      /\ b0 \in Seq(Event)
  <2>1. DOMAIN b0 = {1} /\ b0[1].type = "tick"
    OBVIOUS
  <2>2. EventTypes(b0) = {"tick"}
    <3> HIDE DEF b0
    <3>1. QED BY <2>1 DEF EventTypes
  <2>3. QED
    BY <2>2, EventsType
<1>3. EventTypes(round_settled) = IF BaselineMoved THEN {"round_settled"} ELSE {}
  <2>1. BaselineMoved \in BOOLEAN
    BY DEF BaselineMoved
  <2>2. QED
    BY <2>1, EventTypesIf DEF round_settled
<1>4. EventTypes(round_triggered)
        = IF round_imminent /\ ~ prev_round_imminent THEN {"round_triggered"} ELSE {}
  <2>1. DeviationAlert("round_triggered").type = "round_triggered"
    BY DEF DeviationAlert
  <2>2. (round_imminent /\ ~ prev_round_imminent) \in BOOLEAN
    OBVIOUS
  <2>3. QED
    BY <2>1, <2>2, EventTypesIf DEF round_triggered
<1>5. EventTypes(deviation_approach)
        = IF dev_approaching /\ ~ prev_deviation_approaching
          THEN {"deviation_approach"} ELSE {}
  <2>1. DeviationAlert("deviation_approach").type = "deviation_approach"
    BY DEF DeviationAlert
  <2>2. (dev_approaching /\ ~ prev_deviation_approaching) \in BOOLEAN
    OBVIOUS
  <2>3. QED
    BY <2>1, <2>2, EventTypesIf DEF deviation_approach
<1>6. EventTypes(bb_breakout)
        = IF bb_dir # None /\ prev_bb_breakout_dir = None THEN {"bb_breakout"} ELSE {}
  BY EventTypesIf DEF bb_breakout
<1>7. EventTypes(pre_trigger_alert)
        = IF pre_trigger_result # None /\ ~ prev_pre_trigger
          THEN {"pre_trigger_alert"} ELSE {}
  BY EventTypesIf DEF pre_trigger_alert
<1> HIDE DEF b0
<1>8. /\ round_settled \in Seq(Event)
      /\ round_triggered \in Seq(Event)
      /\ deviation_approach \in Seq(Event)
      /\ bb_breakout \in Seq(Event)
      /\ pre_trigger_alert \in Seq(Event)
  BY EventsType
<1>9. b1 \in Seq(Event) /\ EventTypes(b1) = EventTypes(b0) \cup EventTypes(round_settled)
  BY <1>2, <1>8, EventTypesConcat
<1> HIDE DEF b1
<1>10. b2 \in Seq(Event) /\ EventTypes(b2) = EventTypes(b1) \cup EventTypes(round_triggered)
  BY <1>8, <1>9, EventTypesConcat
<1> HIDE DEF b2
<1>11. b3 \in Seq(Event) /\ EventTypes(b3) = EventTypes(b2) \cup EventTypes(deviation_approach)
  BY <1>8, <1>10, EventTypesConcat
<1> HIDE DEF b3
<1>12. b4 \in Seq(Event) /\ EventTypes(b4) = EventTypes(b3) \cup EventTypes(bb_breakout)
  BY <1>8, <1>11, EventTypesConcat
<1> HIDE DEF b4
<1>13. EventTypes(b5) = EventTypes(b4) \cup EventTypes(pre_trigger_alert)
  BY <1>8, <1>12, EventTypesConcat
<1> HIDE DEF b5
<1>14. QED
  BY <1>1, <1>2, <1>3, <1>4, <1>5, <1>6, <1>7, <1>9, <1>10, <1>11, <1>12, <1>13

-----------------------------------------------------------------------------
(* Whole units below a limit, without the division.                         *)
LEMMA DivisionBound ==
  ASSUME NEW x \in Int, NEW u \in Nat \ {0}, NEW limit \in Nat
  PROVE  x \div u <= limit <=> x < (limit + 1) * u
<1> DEFINE q == x \div u
           qu == q * u
           next == (q + 1) * u
           bound == (limit + 1) * u
<1>1. q \in Int /\ q * u <= x /\ x < (q + 1) * u
  BY SMT
<1> HIDE DEF q
<1>2. q <= limit => (q + 1) * u <= (limit + 1) * u
  BY <1>1, SMT
<1>3. q > limit => (limit + 1) * u <= q * u
  BY <1>1, SMT
<1>4. qu \in Int /\ next \in Int /\ bound \in Int
  BY <1>1, SMT
<1>5. /\ qu <= x /\ x < next
      /\ q <= limit => next <= bound
      /\ q > limit => bound <= qu
  BY <1>1, <1>2, <1>3
<1> HIDE DEF qu, next, bound
<1>6. q <= limit <=> x < bound
  BY <1>1, <1>4, <1>5
<1>7. QED
  BY <1>6 DEF q, bound

(* The voters of a published median are exactly the fresh feeds, also while *)
(* its batch is being sent.                                                 *)
THEOREM VotersAreFresh == Spec => []OnlyFreshFeedsVote
<1>1. Init => OnlyFreshFeedsVote
  BY DEF Init, OnlyFreshFeedsVote
<1>2. Inv /\ OnlyFreshFeedsVote /\ [Next]_vars => OnlyFreshFeedsVote'
  <2> SUFFICES ASSUME Inv, OnlyFreshFeedsVote, [Next]_vars
               PROVE  OnlyFreshFeedsVote'
    OBVIOUS
  <2>1. CASE TickCommit
    <3>1. /\ current_price'.timestamp = tick_now
          /\ DOMAIN current_price'.exchange_prices = FreshExchanges(tick_now)
          /\ UNCHANGED price_buffer
      BY <2>1 DEF TickCommit, Snapshot, VotingPrices, bufferVars
    <3>2. ASSUME NEW e \in Exchanges, price_buffer[e] # None
          PROVE  IsFresh(price_buffer[e], tick_now)
                   <=> tick_now - price_buffer[e].timestamp < (FreshSecs + 1) * UnitsPerSec
      <4>1. price_buffer[e].timestamp \in Int /\ tick_now \in Int
        BY <3>2, AggregatorAssumption DEF Inv, TypeOK, Quote, Times
      <4>2. tick_now - price_buffer[e].timestamp \in Int
        BY <4>1
      <4>3. UnitsPerSec \in Nat \ {0} /\ FreshSecs \in Nat
        BY AggregatorAssumption
      <4>4. QED
        BY <4>2, <4>3, DivisionBound DEF IsFresh
    <3>3. FreshExchanges(tick_now) =
            {e \in Exchanges :
               /\ price_buffer[e] # None
               /\ tick_now - price_buffer[e].timestamp < (FreshSecs + 1) * UnitsPerSec}
      BY <3>2 DEF FreshExchanges
    <3>4. QED
      BY <3>1, <3>3 DEF OnlyFreshFeedsVote
  <2>2. CASE SendEvent
    <3>1. outbound # <<>> /\ UNCHANGED <<current_price, price_buffer>>
      BY <2>2 DEF SendEvent, Inv, LoopInv, publishedVars, bufferVars
    <3>2. QED
      BY <3>1 DEF OnlyFreshFeedsVote
  <2>3. CASE RecvPrice
    <3>1. outbound' = <<>>
      BY <2>3 DEF RecvPrice, Inv, LoopInv, loopVars
    <3>2. QED
      BY <3>1 DEF OnlyFreshFeedsVote
  <2>4. CASE UNCHANGED <<outbound, current_price, price_buffer>>
    BY <2>4 DEF OnlyFreshFeedsVote
  <2>5. \/ TickCommit \/ SendEvent \/ RecvPrice
        \/ UNCHANGED <<outbound, current_price, price_buffer>>
    BY DEF Next, Loop, Feed, Elapse, FeedQuote, FeedSend, PollBaseline, TickStart,
           vars, loopVars, publishedVars, bufferVars
  <2>6. QED
    BY <2>1, <2>2, <2>3, <2>4, <2>5
<1>3. QED
  BY Invariance, <1>1, <1>2, PTL DEF Spec

=============================================================================
