------------------------------ MODULE Aggregator ------------------------------
(***************************************************************************)
(* The aggregation loop of src/src/aggregator/mod.rs, run_aggregator, with   *)
(* the tasks it spawns: the exchange feeds that push quotes into the mpsc   *)
(* channel, and the Chainlink poller that overwrites the baseline.          *)
(*                                                                         *)
(* The loop is one task.  Its select! takes either a quote from the channel *)
(* or a tick of the interval.  A tick fixes `now`, filters the fresh quotes *)
(* and then AWAITS the write lock of the shared state; the baseline may     *)
(* change and time may pass during that wait.  Under the lock it publishes  *)
(* the tick and collects the events, and it sends them one by one after the *)
(* lock is dropped.                                                         *)
(*                                                                         *)
(* Every action is what one task does between two awaits.  A tick without   *)
(* a fresh quote (`continue`) changes nothing and is a stuttering step; so  *)
(* is a failed poll.  Timers are not modelled: the interval is due at any   *)
(* moment.  The clock never steps back.                                     *)
(***************************************************************************)
EXTENDS Calculator, SequencesExt

CONSTANTS
  Exchanges,            \* the exchange clients
  Prices,               \* the prices the exchanges report
  ChainlinkPrices,      \* the prices the Chainlink contract answers
  ChannelCapacity,      \* of the mpsc channel, 1000 in the code
  PriceHistoryCapacity, \* config.price_history_capacity
  FreshSecs,            \* 30 in the code
  UnitsPerSec,          \* clock units in a second (num_seconds truncates)
  SettleTolerance,      \* the 0.001 a baseline has to move by to be settled
  MaxClock              \* BOUND: the clock stops here

ASSUME AggregatorAssumption ==
  /\ Prices \subseteq Nat \ {0}
  /\ ChainlinkPrices \subseteq Nat \ {0}
  /\ IsFiniteSet(Exchanges)
  /\ None \notin Nat
  /\ None \notin Directions
  /\ ChannelCapacity \in Nat \ {0}
  /\ PriceHistoryCapacity \in Nat \ {0}
  /\ FreshSecs \in Nat
  /\ UnitsPerSec \in Nat \ {0}
  /\ SettleTolerance \in Nat
  /\ MaxClock \in Nat

VARIABLES
  clock,                       \* Utc::now()
  feed,                        \* per exchange: a quote read from the socket
                               \* whose send().await has not finished
  channel,                     \* the mpsc channel of quotes
  agg_pc,                      \* where the loop is: "select", "lock", "send"
  price_buffer,                \* local to the loop: the last quote per exchange
  tick_now,                    \* local to the loop: `now` of the tick in hand
  outbound,                    \* local to the loop: the events still to send
  heard,                       \* history: the start of the round in the eyes of
                               \* a subscriber who hears every event, or None
  exchange_status,             \* AppState from here on
  chainlink_baseline,
  price_history,
  current_price,
  last_update,
  round_imminent_since,
  prev_round_imminent,
  prev_deviation_approaching,
  prev_bb_breakout_dir,
  prev_bb_width_pct,
  prev_pre_trigger,
  prev_chainlink_price

feedVars == <<feed, channel>>
bufferVars == <<price_buffer, exchange_status>>
edgeVars == <<round_imminent_since, prev_round_imminent, prev_deviation_approaching,
              prev_bb_breakout_dir, prev_bb_width_pct, prev_pre_trigger,
              prev_chainlink_price>>
publishedVars == <<price_history, current_price, last_update>>
loopVars == <<agg_pc, tick_now, outbound, heard>>
vars == <<clock, feedVars, bufferVars, edgeVars, publishedVars, loopVars,
          chainlink_baseline>>

Times == 0 .. MaxClock

Quote == [exchange : Exchanges, price : Prices, timestamp : Times]

Init ==
  /\ clock = 0
  /\ feed = [e \in Exchanges |-> None]
  /\ channel = <<>>
  /\ agg_pc = "select"
  /\ price_buffer = [e \in Exchanges |-> None]
  /\ tick_now = 0
  /\ outbound = <<>>
  /\ heard = None
  /\ exchange_status = [e \in Exchanges |-> None]
  /\ chainlink_baseline = None
  /\ price_history = <<>>
  /\ current_price = None
  /\ last_update = None
  /\ round_imminent_since = None
  /\ prev_round_imminent = FALSE
  /\ prev_deviation_approaching = FALSE
  /\ prev_bb_breakout_dir = None
  /\ prev_bb_width_pct = None
  /\ prev_pre_trigger = FALSE
  /\ prev_chainlink_price = None

-----------------------------------------------------------------------------
(* The environment of the loop                                              *)

Elapse ==
  /\ clock < MaxClock
  /\ clock' = clock + 1
  /\ UNCHANGED <<feedVars, bufferVars, edgeVars, publishedVars, loopVars,
                 chainlink_baseline>>

(* An exchange client reads a ticker message and stamps it.                 *)
FeedQuote(e) ==
  /\ feed[e] = None
  /\ \E p \in Prices :
       feed' = [feed EXCEPT ![e] = [exchange |-> e, price |-> p, timestamp |-> clock]]
  /\ UNCHANGED <<clock, channel, bufferVars, edgeVars, publishedVars, loopVars,
                 chainlink_baseline>>

(* A bug: try_send, which throws the quote away when the channel is full.    *)
TrySend(e) ==
  /\ feed[e] # None
  /\ channel' = IF Len(channel) < ChannelCapacity THEN Append(channel, feed[e]) ELSE channel
  /\ feed' = [feed EXCEPT ![e] = None]
  /\ UNCHANGED <<clock, bufferVars, edgeVars, publishedVars, loopVars,
                 chainlink_baseline>>

(* Its tx.send(..).await finishes: the bounded channel has room.            *)
FeedSend(e) ==
  /\ feed[e] # None
  /\ Len(channel) < ChannelCapacity
  /\ channel' = Append(channel, feed[e])
  /\ feed' = [feed EXCEPT ![e] = None]
  /\ UNCHANGED <<clock, bufferVars, edgeVars, publishedVars, loopVars,
                 chainlink_baseline>>

(* A bug: the poller forgets to reject a price of 0 (chainlink.rs:119).     *)
PollUnchecked ==
  /\ \E p \in ChainlinkPrices \cup {0} : chainlink_baseline' = p
  /\ UNCHANGED <<clock, feedVars, bufferVars, edgeVars, publishedVars, loopVars>>

(* The poller writes a fetched price, under the write lock.  The loop holds *)
(* that lock only within TickCommit, so the write falls anywhere else.      *)
PollBaseline ==
  /\ \E p \in ChainlinkPrices : chainlink_baseline' = p
  /\ UNCHANGED <<clock, feedVars, bufferVars, edgeVars, publishedVars, loopVars>>

-----------------------------------------------------------------------------
(* The recv arm of the select!                                              *)

(* A bug that overtakes: the newest quote of the channel first.             *)
TakeNewest == <<Last(channel), Front(channel)>>

(* rx.recv(): the oldest quote, and what is left.                           *)
TakeQuote == <<Head(channel), Tail(channel)>>

(* The status is written under a read lock, the buffer right after it: no   *)
(* other task of the model reads either, so the wait for that lock is not a *)
(* step of its own.  connected is always TRUE, error_count 0: left out.     *)
RecvPrice ==
  /\ agg_pc = "select"
  /\ channel # <<>>
  /\ LET ep == TakeQuote[1]
     IN  /\ exchange_status' =
              [exchange_status EXCEPT ![ep.exchange] =
                 [last_price |-> ep.price, last_update |-> ep.timestamp]]
         /\ price_buffer' = [price_buffer EXCEPT ![ep.exchange] = ep]
  /\ channel' = TakeQuote[2]
  /\ UNCHANGED <<clock, feed, edgeVars, publishedVars, loopVars, chainlink_baseline>>

-----------------------------------------------------------------------------
(* The tick arm of the select!                                              *)

(* A bug that lets every quote vote for ever.                               *)
AlwaysFresh(quote, now) == now >= quote.timestamp

(* num_seconds() <= 30: whole seconds, the fraction cut off.                *)
IsFresh(quote, now) == (now - quote.timestamp) \div UnitsPerSec <= FreshSecs

FreshExchanges(now) ==
  {e \in Exchanges : price_buffer[e] # None /\ IsFresh(price_buffer[e], now)}

(* A bug: no tick while the market stands still.                            *)
TickWhenMarketMoves ==
  /\ agg_pc = "select"
  /\ FreshExchanges(clock) # {}
  /\ current_price # None =>
       current_price.market_price #
         calculate_aggregated_price([e \in FreshExchanges(clock) |-> price_buffer[e].price])
  /\ tick_now' = clock
  /\ agg_pc' = "lock"
  /\ UNCHANGED <<clock, feedVars, bufferVars, edgeVars, publishedVars, outbound, heard,
                 chainlink_baseline>>

TickStart ==
  /\ agg_pc = "select"
  /\ FreshExchanges(clock) # {}
  /\ tick_now' = clock
  /\ agg_pc' = "lock"
  /\ UNCHANGED <<clock, feedVars, bufferVars, edgeVars, publishedVars, outbound, heard,
                 chainlink_baseline>>

(* A bug that keeps one price more than the capacity.                       *)
PushUnbounded(h, p) ==
  LET pushed == Append(h, p)
  IN  IF Len(pushed) > PriceHistoryCapacity + 1 THEN Tail(pushed) ELSE pushed

(* push, then remove(0) if the capacity is exceeded.                        *)
PushPrice(h, p) ==
  LET pushed == Append(h, p)
  IN  IF Len(pushed) > PriceHistoryCapacity THEN Tail(pushed) ELSE pushed

-----------------------------------------------------------------------------
(* What one tick is computed from, all read under the write lock: the       *)
(* quotes that were fresh at tick_now, the baseline as it is NOW.           *)

VotingPrices == [e \in FreshExchanges(tick_now) |-> price_buffer[e].price]

Market == calculate_aggregated_price(VotingPrices)

(* A bug: the deviation from the baseline of the previous tick.             *)
StaleDeviation ==
  IF prev_chainlink_price = None THEN None
  ELSE deviation_pct(Market, prev_chainlink_price)

Deviation ==
  IF chainlink_baseline = None THEN None
  ELSE deviation_pct(Market, chainlink_baseline)

round_imminent == Deviation # None /\ is_round_imminent(Deviation)

dev_approaching == Deviation # None /\ is_deviation_approaching(Deviation)

History == PushPrice(price_history, Market)

Bands == bollinger_bands(History)

bb_dir == bb_breakout_direction(Market, Bands)

pre_trigger_result == detect_pre_trigger_signals(Market, Deviation, History)

-----------------------------------------------------------------------------
(* The events of one tick, each a sequence of at most one.  Their copies of  *)
(* exchange prices and indicators, the differences of two prices and the age *)
(* of the baseline are left out.                                            *)

If(condition, event) == IF condition THEN <<event>> ELSE <<>>

BaselineMoved ==
  /\ prev_chainlink_price # None
  /\ chainlink_baseline # None
  /\ Abs(chainlink_baseline - prev_chainlink_price) > SettleTolerance

(* Whole seconds since the round was triggered, if one was.  The max(0) of  *)
(* the code has no effect while the clock never steps back.                 *)
RoundDuration ==
  IF round_imminent_since = None THEN None
  ELSE (tick_now - round_imminent_since) \div UnitsPerSec

round_settled ==
  If(BaselineMoved,
     [type |-> "round_settled", ts |-> tick_now,
      prev_price |-> prev_chainlink_price, new_price |-> chainlink_baseline,
      round_duration_secs |-> RoundDuration])

DeviationAlert(type) ==
  [type |-> type, ts |-> tick_now, direction |-> Direction(Deviation),
   market_price |-> Market, chainlink_price |-> chainlink_baseline,
   deviation_pct |-> Deviation]

(* A bug: level-triggered instead of edge-triggered.                        *)
TriggeredEveryTick == If(round_imminent, DeviationAlert("round_triggered"))

round_triggered ==
  If(round_imminent /\ ~ prev_round_imminent, DeviationAlert("round_triggered"))

deviation_approach ==
  If(dev_approaching /\ ~ prev_deviation_approaching, DeviationAlert("deviation_approach"))

(* A bug: without previous bands the bands count as expanding.              *)
BreakoutDefaultsToExpanding ==
  If(bb_dir # None /\ prev_bb_breakout_dir = None,
     [type |-> "bb_breakout", ts |-> tick_now, direction |-> bb_dir,
      market_price |-> Market, deviation_pct |-> Deviation,
      bb_expanding |-> prev_bb_width_pct = None \/ WiderThan(Bands, prev_bb_width_pct)])

(* Fires on the edge from inside the bands whether they widen or not.       *)
bb_breakout ==
  If(bb_dir # None /\ prev_bb_breakout_dir = None,
     [type |-> "bb_breakout", ts |-> tick_now, direction |-> bb_dir,
      market_price |-> Market, deviation_pct |-> Deviation,
      bb_expanding |-> prev_bb_width_pct # None /\ WiderThan(Bands, prev_bb_width_pct)])

pre_trigger_alert ==
  If(pre_trigger_result # None /\ ~ prev_pre_trigger,
     [type |-> "pre_trigger_alert", ts |-> tick_now,
      direction |-> pre_trigger_result.direction,
      market_price |-> Market, chainlink_price |-> chainlink_baseline,
      deviation_pct |-> Deviation, signals |-> pre_trigger_result.signals])

Snapshot ==
  [timestamp |-> tick_now, market_price |-> Market,
   chainlink_price |-> chainlink_baseline, deviation_pct |-> Deviation,
   round_imminent |-> round_imminent, exchange_prices |-> VotingPrices]

Batch ==
  <<[type |-> "tick", ts |-> tick_now, data |-> Snapshot]>>
    \o round_settled \o round_triggered \o deviation_approach
    \o bb_breakout \o pre_trigger_alert

(* A bug: the settled round closes the window the same tick has opened.     *)
SettledWins ==
  IF round_settled # <<>> THEN None
  ELSE IF round_triggered # <<>> THEN tick_now
  ELSE round_imminent_since

(* round_imminent_since when the settlement has been handled ...            *)
AfterSettlement == IF round_settled # <<>> THEN None ELSE round_imminent_since

(* ... and when the trigger has been, after it.                             *)
WindowStart == IF round_triggered # <<>> THEN tick_now ELSE AfterSettlement

(* The write-lock section of the tick: it publishes the snapshot, collects  *)
(* the events and renews the previous-tick values.                          *)
TickCommit ==
  /\ agg_pc = "lock"
  /\ agg_pc' = "send"
  /\ price_history' = History
  /\ current_price' = Snapshot
  /\ last_update' = tick_now
  /\ outbound' = Batch
  /\ round_imminent_since' = WindowStart
  /\ prev_chainlink_price' = chainlink_baseline
  /\ prev_round_imminent' = round_imminent
  /\ prev_deviation_approaching' = dev_approaching
  /\ prev_bb_breakout_dir' = bb_dir
  /\ prev_bb_width_pct' = Bands
  /\ prev_pre_trigger' = (pre_trigger_result # None)
  /\ UNCHANGED <<clock, feedVars, bufferVars, tick_now, heard, chainlink_baseline>>

(* One event_tx.send outside the lock; a send without subscribers fails and *)
(* is ignored.  After the last one the loop returns to its select!.         *)
SendEvent ==
  /\ agg_pc = "send"
  /\ outbound' = Tail(outbound)
  /\ heard' = CASE Head(outbound).type = "round_triggered" -> Head(outbound).ts
                [] Head(outbound).type = "round_settled"   -> None
                [] OTHER                                   -> heard
  /\ IF Len(outbound) = 1
     THEN agg_pc' = "select" /\ tick_now' = 0   \* `now` goes out of scope
     ELSE UNCHANGED <<agg_pc, tick_now>>
  /\ UNCHANGED <<clock, feedVars, bufferVars, edgeVars, publishedVars,
                 chainlink_baseline>>

-----------------------------------------------------------------------------
Feed == \E e \in Exchanges : FeedQuote(e) \/ FeedSend(e)

Loop == RecvPrice \/ TickStart \/ TickCommit \/ SendEvent

Next == Elapse \/ Feed \/ PollBaseline \/ Loop

Spec == Init /\ [][Next]_vars

(* The runtime polls a ready task again; the arms of the select! are tried  *)
(* in random order, so neither arm starves the other (strong fairness), and *)
(* the mpsc channel hands its room to the waiting senders in turn.  Nothing *)
(* makes an exchange quote, the chain move or time pass.                    *)
Fairness ==
  /\ SF_vars(RecvPrice)
  /\ SF_vars(TickStart)
  /\ WF_vars(TickCommit)
  /\ WF_vars(SendEvent)
  /\ \A e \in Exchanges : SF_vars(FeedSend(e))

FairSpec == Spec /\ Fairness

-----------------------------------------------------------------------------
(* Types                                                                    *)

PriceUpdate ==
  [timestamp : Times, market_price : Nat,
   chainlink_price : ChainlinkPrices \cup {None},
   deviation_pct : [diff : Int, base : Nat \ {0}] \cup {None},
   round_imminent : BOOLEAN,
   exchange_prices : UNION {[E -> Prices] : E \in SUBSET Exchanges}]

(* current_price is an Option: nothing that is published counts as None.    *)
ASSUME PublishedAssumption == None \notin PriceUpdate

Event ==
  [type : {"tick"}, ts : Times, data : PriceUpdate]
    \cup [type : {"round_settled"}, ts : Times, prev_price : ChainlinkPrices,
          new_price : ChainlinkPrices, round_duration_secs : Int \cup {None}]
    \cup [type : {"round_triggered", "deviation_approach"}, ts : Times,
          direction : Directions, market_price : Nat, chainlink_price : ChainlinkPrices,
          deviation_pct : [diff : Int, base : Nat \ {0}]]
    \cup [type : {"bb_breakout"}, ts : Times, direction : Directions, market_price : Nat,
          deviation_pct : [diff : Int, base : Nat \ {0}] \cup {None}, bb_expanding : BOOLEAN]
    \cup [type : {"pre_trigger_alert"}, ts : Times, direction : Directions,
          market_price : Nat, chainlink_price : ChainlinkPrices,
          deviation_pct : [diff : Int, base : Nat \ {0}], signals : SUBSET Signals]

(* Every variable holds a value of its type.                                *)
TypeOK ==
  /\ clock \in Times
  /\ feed \in [Exchanges -> Quote \cup {None}]
  /\ channel \in Seq(Quote)
  /\ agg_pc \in {"select", "lock", "send"}
  /\ price_buffer \in [Exchanges -> Quote \cup {None}]
  /\ tick_now \in Times
  /\ outbound \in Seq(Event)
  /\ heard \in Times \cup {None}
  /\ exchange_status \in
       [Exchanges -> [last_price : Prices, last_update : Times] \cup {None}]
  /\ chainlink_baseline \in ChainlinkPrices \cup {None}
  /\ price_history \in Seq(Nat)
  /\ current_price \in PriceUpdate \cup {None}
  /\ last_update \in Times \cup {None}
  /\ round_imminent_since \in Times \cup {None}
  /\ prev_round_imminent \in BOOLEAN
  /\ prev_deviation_approaching \in BOOLEAN
  /\ prev_bb_breakout_dir \in Directions \cup {None}
  /\ prev_bb_width_pct \in [sum : Nat, spread : Nat] \cup {None}
  /\ prev_pre_trigger \in BOOLEAN
  /\ prev_chainlink_price \in ChainlinkPrices \cup {None}

-----------------------------------------------------------------------------
(* Safety                                                                   *)

EventTypes(events) == {events[i].type : i \in DOMAIN events}

(* The condition of an alert, judged on what was published -- the snapshot  *)
(* and the history a subscriber could read -- and not on the flags the loop *)
(* keeps for itself.                                                        *)
PublishedCondition(kind) ==
  /\ current_price # None
  /\ CASE kind = "round_triggered" -> current_price.round_imminent
       [] kind = "deviation_approach" ->
            /\ current_price.deviation_pct # None
            /\ is_deviation_approaching(current_price.deviation_pct)
       [] kind = "bb_breakout" ->
            bb_breakout_direction(current_price.market_price,
                                  bollinger_bands(price_history)) # None
       [] kind = "pre_trigger_alert" ->
            detect_pre_trigger_signals(current_price.market_price,
                                       current_price.deviation_pct, price_history) # None

PublishedBaseline ==
  IF current_price = None THEN None ELSE current_price.chainlink_price

Stream == INSTANCE EventStream WITH
  Baselines <- ChainlinkPrices,
  Tolerance <- SettleTolerance,
  holds     <- [k \in {"round_triggered", "deviation_approach", "bb_breakout",
                       "pre_trigger_alert"} |-> PublishedCondition(k)],
  baseline  <- PublishedBaseline,
  pending   <- [i \in 1 .. Len(outbound) |-> outbound[i].type]

(* The loop implements the event stream: every alert is announced exactly   *)
(* on the rising edge of its condition between two published ticks, every   *)
(* settlement exactly when the published baseline moved, after its tick and *)
(* in the order of mod.rs, whatever polls, quotes and delays fall between.  *)
ImplementsEventStream == Stream!Spec

(* While a batch is being sent, without the lock, every event in it still   *)
(* describes the snapshot and the history a new subscriber would read: its   *)
(* time, its prices and its deviation, the side it points to, and the zone   *)
(* of the deviation it alerts about: 10 units, 7 to 10, or 5 of the baseline *)
(* (calculator.rs:12-18), all doubled like the market price.                 *)
BatchDescribesSnapshot ==
  \A i \in DOMAIN outbound :
    LET event == outbound[i]
        market == current_price.market_price
        base == current_price.chainlink_price
        change == Scale * Abs(market - 2 * base)
    IN  /\ event.ts = current_price.timestamp
        /\ event.type = "tick" => event.data = current_price
        /\ event.type = "round_settled" => event.new_price = base
        /\ event.type \in {"round_triggered", "deviation_approach", "pre_trigger_alert"} =>
             /\ base # None
             /\ event.market_price = market /\ event.chainlink_price = base
             /\ event.deviation_pct = current_price.deviation_pct
             /\ event.direction = IF market > 2 * base THEN "Up" ELSE "Down"
             /\ event.type = "round_triggered" => change >= 20 * base
             /\ event.type = "deviation_approach" => change >= 14 * base /\ change < 20 * base
             /\ event.type = "pre_trigger_alert" => change >= 10 * base
        /\ event.type = "bb_breakout" =>
             /\ event.market_price = market
             /\ event.deviation_pct = current_price.deviation_pct
             /\ event.direction = bb_breakout_direction(market, bollinger_bands(price_history))

(* The window of a round is what the events say: the duration a settlement   *)
(* reports counts from the last round_triggered a subscriber heard since the *)
(* settlement before, and is missing if there was none, also when a tick     *)
(* settles one round and triggers the next (mod.rs:178-198, 203-224).        *)
SettlementTimesLastTrigger ==
  /\ agg_pc # "send" => round_imminent_since = heard
  /\ \A i \in DOMAIN outbound :
       outbound[i].type = "round_settled" =>
         outbound[i].round_duration_secs =
           IF heard = None THEN None ELSE (outbound[i].ts - heard) \div UnitsPerSec

(* bb_expanding compares the bands of this tick with those of the previous  *)
(* published tick, both over the trimmed history (mod.rs:271, 298), and is  *)
(* false when the previous tick had no bands.                               *)
ExpandingMeansWider ==
  [][ agg_pc = "lock" /\ agg_pc' = "send" =>
        \A i \in DOMAIN outbound' :
          outbound'[i].type = "bb_breakout" =>
            (outbound'[i].bb_expanding <=>
               /\ bollinger_bands(price_history) # None
               /\ WiderThan(bollinger_bands(price_history'), bollinger_bands(price_history)))
    ]_vars

QuoteFeed == INSTANCE QuoteFeed WITH
  Values   <- Quote,
  Capacity <- ChannelCapacity,
  hand     <- feed,
  queue    <- [i \in 1 .. Len(channel) |-> <<channel[i].exchange, channel[i]>>],
  taken    <- price_buffer

(* Ticks, polls and time never disturb the quotes: clients, channel and loop *)
(* implement the feed (mod.rs:38-49, 74-90).                                *)
ImplementsQuoteFeed == QuoteFeed!Spec

(* Quotes of one feed are consumed in the order they were stamped, however  *)
(* long send().await blocked on a full channel: what the loop holds of a    *)
(* feed never goes back in time.                                            *)
FeedNeverGoesBack ==
  [][ \A e \in Exchanges : price_buffer[e] # None =>
        price_buffer'[e].timestamp >= price_buffer[e].timestamp ]_vars

(* The voters of the published median are exactly the feeds whose last      *)
(* consumed quote was, at the snapshot's time, less than one second past    *)
(* the freshness limit -- even though the lock was awaited in between.      *)
OnlyFreshFeedsVote ==
  outbound # <<>> =>
    DOMAIN current_price.exchange_prices =
      {e \in Exchanges :
         /\ price_buffer[e] # None
         /\ current_price.timestamp - price_buffer[e].timestamp
              < (FreshSecs + 1) * UnitsPerSec}

(* With all three feeds voting, one of them cannot move the market price    *)
(* out of the range of the other two (calculator.rs:3-6).                   *)
OneBadFeedOutvoted ==
  current_price # None /\ Cardinality(DOMAIN current_price.exchange_prices) = 3 =>
    LET p == current_price.exchange_prices
    IN  \A bad \in DOMAIN p : \E a, b \in DOMAIN p \ {bad} :
          2 * p[a] <= current_price.market_price /\ current_price.market_price <= 2 * p[b]

(* The history ends with the published market price and never outgrows its  *)
(* capacity.                                                                *)
HistoryEndsWithMarket ==
  /\ Len(price_history) <= PriceHistoryCapacity
  /\ current_price # None =>
       /\ price_history # <<>>
       /\ price_history[Len(price_history)] = current_price.market_price

-----------------------------------------------------------------------------
(* Liveness                                                                 *)

(* A baseline the poller has written is published, unless it is overwritten *)
(* first or the feeds stay stale: no wait inside the loop loses it.         *)
BaselineEventuallyPublished ==
  \A p \in ChainlinkPrices :
    []<>(\E e \in Exchanges :
           /\ price_buffer[e] # None
           /\ clock - price_buffer[e].timestamp < (FreshSecs + 1) * UnitsPerSec) =>
      (chainlink_baseline = p) ~> (PublishedBaseline = p \/ chainlink_baseline # p)

(* Every quote a feed has stamped reaches the loop's buffer or is replaced  *)
(* there by a later one of that feed, however busy the ticks are.           *)
QuoteEventuallyConsumed ==
  \A e \in Exchanges : \A t \in Times :
    (feed[e] # None /\ feed[e].timestamp = t)
      ~> (price_buffer[e] # None /\ price_buffer[e].timestamp >= t)

-----------------------------------------------------------------------------
(* What the documentation says and the code does not do.                    *)

(* models.rs:117-118: the time round_imminent FIRST became true for the     *)
(* current event, kept until a RoundSettled.                                *)
FirstTriggerKept ==
  [][ /\ round_imminent_since # None
      /\ round_imminent_since' # None
      /\ "round_settled" \notin EventTypes(outbound')
      => UNCHANGED round_imminent_since ]_vars

=============================================================================
