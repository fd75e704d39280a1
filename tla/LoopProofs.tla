------------------------------ MODULE LoopProofs -------------------------------
(***************************************************************************)
(* Proofs about what flows through the loop of Aggregator, for every set of  *)
(* exchanges and prices, every scale of the thresholds, every capacity of   *)
(* the channel and every clock.                                             *)
(*                                                                         *)
(* In: the quotes on their way from the feeds through the channel to the    *)
(* buffer.  The loop implements QuoteFeed, and no feed goes back in time.   *)
(*                                                                         *)
(* Out: the events.  What is sent after the lock is dropped describes the   *)
(* snapshot a new subscriber reads, the flag of a breakout compares the     *)
(* published histories, the durations count from the triggers a subscriber  *)
(* has heard, and the loop implements EventStream.                          *)
(***************************************************************************)
EXTENDS AggregatorProofs

-----------------------------------------------------------------------------
(* The invariant: along the way of a quote the stamps of a feed are sorted,  *)
(* buffer, channel from its head, quote in hand, clock.                      *)

HandOrder ==
  \A e \in Exchanges : feed[e] # None =>
    /\ feed[e].exchange = e
    /\ feed[e].timestamp <= clock

ChannelOrder ==
  \A i \in 1 .. Len(channel) :
    /\ channel[i].timestamp <= clock
    /\ feed[channel[i].exchange] # None =>
         channel[i].timestamp <= feed[channel[i].exchange].timestamp
    /\ \A j \in 1 .. Len(channel) :
         i < j /\ channel[i].exchange = channel[j].exchange =>
           channel[i].timestamp <= channel[j].timestamp

BufferOrder ==
  \A e \in Exchanges : price_buffer[e] # None =>
    /\ price_buffer[e].timestamp <= clock
    /\ feed[e] # None => price_buffer[e].timestamp <= feed[e].timestamp
    /\ \A i \in 1 .. Len(channel) :
         channel[i].exchange = e => price_buffer[e].timestamp <= channel[i].timestamp

OrderInv == HandOrder /\ ChannelOrder /\ BufferOrder

(* The types of the quotes on the way.                                      *)
LEMMA QuoteTypes ==
  ASSUME Inv
  PROVE  /\ clock \in Nat
         /\ feed \in [Exchanges -> Quote \cup {None}]
         /\ price_buffer \in [Exchanges -> Quote \cup {None}]
         /\ channel \in Seq(Quote)
         /\ Len(channel) \in Nat
         /\ \A i \in 1 .. Len(channel) :
              channel[i].exchange \in Exchanges /\ channel[i].timestamp \in Nat
         /\ \A e \in Exchanges : feed[e] # None =>
              feed[e] \in Quote /\ feed[e].timestamp \in Nat
         /\ \A e \in Exchanges : price_buffer[e] # None =>
              price_buffer[e].timestamp \in Nat
<1>1. /\ clock \in Times
      /\ feed \in [Exchanges -> Quote \cup {None}]
      /\ price_buffer \in [Exchanges -> Quote \cup {None}]
      /\ channel \in Seq(Quote)
  BY DEF Inv, TypeOK
<1>2. Times \subseteq Nat
  BY AggregatorAssumption DEF Times
<1>3. \A q \in Quote : q.exchange \in Exchanges /\ q.timestamp \in Nat
  BY <1>2 DEF Quote
<1>4. Len(channel) \in Nat /\ \A i \in 1 .. Len(channel) : channel[i] \in Quote
  BY <1>1
<1>5. QED
  BY <1>1, <1>2, <1>3, <1>4

LEMMA OrderElapse ==
  ASSUME Inv, OrderInv, Elapse
  PROVE  OrderInv'
<1>1. /\ clock \in Nat /\ clock' = clock + 1
      /\ UNCHANGED <<feed, channel, price_buffer>>
  BY QuoteTypes DEF Elapse, feedVars, bufferVars
<1>2. \A t \in Nat : t <= clock => t <= clock'
  BY <1>1
<1>3. HandOrder'
  BY <1>1, <1>2, QuoteTypes DEF OrderInv, HandOrder
<1>4. ChannelOrder'
  BY <1>1, <1>2, QuoteTypes DEF OrderInv, ChannelOrder
<1>5. BufferOrder'
  BY <1>1, <1>2, QuoteTypes DEF OrderInv, BufferOrder
<1>6. QED
  BY <1>3, <1>4, <1>5 DEF OrderInv

LEMMA OrderQuote ==
  ASSUME Inv, OrderInv, NEW e \in Exchanges, FeedQuote(e)
  PROVE  OrderInv'
<1>1. PICK p \in Prices :
        feed' = [feed EXCEPT ![e] = [exchange |-> e, price |-> p, timestamp |-> clock]]
  BY DEF FeedQuote
<1>2. UNCHANGED <<clock, channel, price_buffer>>
  BY DEF FeedQuote, bufferVars
<1>3. /\ feed'[e].exchange = e /\ feed'[e].timestamp = clock
      /\ \A d \in Exchanges \ {e} : feed'[d] = feed[d]
  BY <1>1, QuoteTypes
<1>4. HandOrder'
  BY <1>2, <1>3, QuoteTypes DEF OrderInv, HandOrder
<1>5. ChannelOrder'
  <2>1. SUFFICES ASSUME NEW i \in 1 .. Len(channel), feed'[channel[i].exchange] # None
                 PROVE  channel[i].timestamp <= feed'[channel[i].exchange].timestamp
    BY <1>2 DEF OrderInv, ChannelOrder
  <2>2. CASE channel[i].exchange = e
    BY <1>3, <2>2 DEF OrderInv, ChannelOrder
  <2>3. CASE channel[i].exchange # e
    BY <1>3, <2>1, <2>3, QuoteTypes DEF OrderInv, ChannelOrder
  <2>4. QED
    BY <2>2, <2>3
<1>6. BufferOrder'
  <2>1. SUFFICES ASSUME NEW d \in Exchanges, price_buffer[d] # None, feed'[d] # None
                 PROVE  price_buffer[d].timestamp <= feed'[d].timestamp
    BY <1>2 DEF OrderInv, BufferOrder
  <2>2. CASE d = e
    BY <1>3, <2>1, <2>2 DEF OrderInv, BufferOrder
  <2>3. CASE d # e
    BY <1>3, <2>1, <2>3 DEF OrderInv, BufferOrder
  <2>4. QED
    BY <2>2, <2>3
<1>7. QED
  BY <1>4, <1>5, <1>6 DEF OrderInv

LEMMA OrderSend ==
  ASSUME Inv, OrderInv, NEW e \in Exchanges, FeedSend(e)
  PROVE  OrderInv'
<1>1. /\ feed[e] # None
      /\ channel' = Append(channel, feed[e])
      /\ feed' = [feed EXCEPT ![e] = None]
      /\ UNCHANGED <<clock, price_buffer>>
  BY DEF FeedSend, bufferVars
<1>2. /\ feed[e] \in Quote
      /\ feed[e].exchange = e
      /\ feed[e].timestamp \in Nat
      /\ feed[e].timestamp <= clock
  BY <1>1, QuoteTypes DEF OrderInv, HandOrder
<1>3. /\ Len(channel) \in Nat
      /\ Len(channel') = Len(channel) + 1
      /\ \A i \in 1 .. Len(channel) : channel'[i] = channel[i]
      /\ channel'[Len(channel')] = feed[e]
  BY <1>1, <1>2, QuoteTypes
<1>4. /\ feed'[e] = None
      /\ \A d \in Exchanges \ {e} : feed'[d] = feed[d]
  BY <1>1, QuoteTypes
<1>5. \A i \in 1 .. Len(channel') : i = Len(channel') \/ i \in 1 .. Len(channel)
  BY <1>3
<1>6. HandOrder'
  BY <1>1, <1>4 DEF OrderInv, HandOrder
<1>7. ChannelOrder'
  <2>1. SUFFICES ASSUME NEW i \in 1 .. Len(channel')
                 PROVE  /\ channel'[i].timestamp <= clock
                        /\ feed'[channel'[i].exchange] # None =>
                             channel'[i].timestamp <= feed'[channel'[i].exchange].timestamp
                        /\ \A j \in 1 .. Len(channel') :
                             i < j /\ channel'[i].exchange = channel'[j].exchange =>
                               channel'[i].timestamp <= channel'[j].timestamp
    BY <1>1 DEF ChannelOrder
  <2>2. CASE i = Len(channel')
    <3>1. channel'[i] = feed[e] /\ \A j \in 1 .. Len(channel') : ~ (i < j)
      BY <1>3, <2>2
    <3>2. QED
      BY <1>2, <1>4, <3>1
  <2>3. CASE i \in 1 .. Len(channel)
    <3>1. channel'[i] = channel[i] /\ channel[i].exchange \in Exchanges
      BY <1>3, <2>3, QuoteTypes
    <3>2. channel[i].timestamp <= clock
      BY <2>3 DEF OrderInv, ChannelOrder
    <3>3. feed'[channel[i].exchange] # None =>
            channel[i].timestamp <= feed'[channel[i].exchange].timestamp
      BY <1>4, <2>3, <3>1 DEF OrderInv, ChannelOrder
    <3>4. ASSUME NEW j \in 1 .. Len(channel'), i < j,
                 channel'[i].exchange = channel'[j].exchange
          PROVE  channel'[i].timestamp <= channel'[j].timestamp
      <4>1. CASE j = Len(channel')
        BY <1>1, <1>2, <1>3, <2>3, <3>1, <3>4, <4>1 DEF OrderInv, ChannelOrder
      <4>2. CASE j \in 1 .. Len(channel)
        BY <1>3, <2>3, <3>1, <3>4, <4>2 DEF OrderInv, ChannelOrder
      <4>3. QED
        BY <1>5, <4>1, <4>2
    <3>5. QED
      BY <3>1, <3>2, <3>3, <3>4
  <2>4. QED
    BY <1>5, <2>2, <2>3
<1>8. BufferOrder'
  <2>1. SUFFICES ASSUME NEW d \in Exchanges, price_buffer[d] # None
                 PROVE  /\ price_buffer[d].timestamp <= clock
                        /\ feed'[d] # None => price_buffer[d].timestamp <= feed'[d].timestamp
                        /\ \A i \in 1 .. Len(channel') :
                             channel'[i].exchange = d =>
                               price_buffer[d].timestamp <= channel'[i].timestamp
    BY <1>1 DEF BufferOrder
  <2>2. /\ price_buffer[d].timestamp <= clock
        /\ feed'[d] # None => price_buffer[d].timestamp <= feed'[d].timestamp
    BY <1>4, <2>1 DEF OrderInv, BufferOrder
  <2>3. ASSUME NEW i \in 1 .. Len(channel'), channel'[i].exchange = d
        PROVE  price_buffer[d].timestamp <= channel'[i].timestamp
    <3>1. CASE i = Len(channel')
      BY <1>1, <1>2, <1>3, <2>1, <2>3, <3>1 DEF OrderInv, BufferOrder
    <3>2. CASE i \in 1 .. Len(channel)
      BY <1>3, <2>1, <2>3, <3>2 DEF OrderInv, BufferOrder
    <3>3. QED
      BY <1>5, <3>1, <3>2
  <2>4. QED
    BY <2>2, <2>3
<1>9. QED
  BY <1>6, <1>7, <1>8 DEF OrderInv

(* What recv() does to the channel and to the buffer.                       *)
LEMMA RecvEffect ==
  ASSUME Inv, RecvPrice
  PROVE  /\ channel # <<>> /\ 1 \in 1 .. Len(channel)
         /\ channel[1] \in Quote
         /\ channel' = Tail(channel)
         /\ Len(channel') = Len(channel) - 1
         /\ \A i \in 1 .. Len(channel') :
              i + 1 \in 1 .. Len(channel) /\ channel'[i] = channel[i + 1]
         /\ price_buffer' = [price_buffer EXCEPT ![channel[1].exchange] = channel[1]]
         /\ UNCHANGED <<clock, feed>>
<1>1. /\ channel # <<>>
      /\ channel' = Tail(channel)
      /\ price_buffer' = [price_buffer EXCEPT ![Head(channel).exchange] = Head(channel)]
      /\ UNCHANGED <<clock, feed>>
  BY DEF RecvPrice, TakeQuote
<1>2. channel \in Seq(Quote)
  BY QuoteTypes
<1>3. /\ Len(channel) \in Nat \ {0}
      /\ Head(channel) = channel[1]
      /\ channel[1] \in Quote
      /\ Len(channel') = Len(channel) - 1
      /\ \A i \in 1 .. Len(channel') : channel'[i] = channel[i + 1]
  BY <1>1, <1>2
<1>4. 1 \in 1 .. Len(channel) /\ \A i \in 1 .. Len(channel') : i + 1 \in 1 .. Len(channel)
  BY <1>3
<1>5. price_buffer' = [price_buffer EXCEPT ![channel[1].exchange] = channel[1]]
  BY <1>1, <1>3
<1>6. QED
  BY <1>1, <1>3, <1>4, <1>5

LEMMA OrderRecv ==
  ASSUME Inv, OrderInv, RecvPrice
  PROVE  OrderInv'
<1> DEFINE ep == channel[1]
<1>1. /\ ep.exchange \in Exchanges
      /\ price_buffer'[ep.exchange] = ep
      /\ \A d \in Exchanges \ {ep.exchange} : price_buffer'[d] = price_buffer[d]
  BY RecvEffect, QuoteTypes
<1>2. HandOrder'
  BY RecvEffect DEF OrderInv, HandOrder
<1>3. ChannelOrder'
  <2>1. SUFFICES ASSUME NEW i \in 1 .. Len(channel'), NEW j \in 1 .. Len(channel')
                 PROVE  /\ channel'[i].timestamp <= clock
                        /\ feed[channel'[i].exchange] # None =>
                             channel'[i].timestamp <= feed[channel'[i].exchange].timestamp
                        /\ i < j /\ channel'[i].exchange = channel'[j].exchange =>
                             channel'[i].timestamp <= channel'[j].timestamp
    BY RecvEffect DEF ChannelOrder
  <2>2. /\ i + 1 \in 1 .. Len(channel) /\ channel'[i] = channel[i + 1]
        /\ j + 1 \in 1 .. Len(channel) /\ channel'[j] = channel[j + 1]
        /\ i < j => i + 1 < j + 1
    BY RecvEffect
  <2>3. QED
    BY <2>2 DEF OrderInv, ChannelOrder
<1>4. BufferOrder'
  <2>1. SUFFICES ASSUME NEW d \in Exchanges, price_buffer'[d] # None
                 PROVE  /\ price_buffer'[d].timestamp <= clock
                        /\ feed[d] # None => price_buffer'[d].timestamp <= feed[d].timestamp
                        /\ \A i \in 1 .. Len(channel') :
                             channel'[i].exchange = d =>
                               price_buffer'[d].timestamp <= channel'[i].timestamp
    BY RecvEffect DEF BufferOrder
  <2>2. CASE d = ep.exchange
    <3>1. price_buffer'[d] = channel[1] /\ 1 \in 1 .. Len(channel)
      BY <1>1, <2>2, RecvEffect
    <3>2. \A i \in 1 .. Len(channel') :
            i + 1 \in 1 .. Len(channel) /\ 1 < i + 1 /\ channel'[i] = channel[i + 1]
      BY RecvEffect
    <3>3. QED
      BY <2>2, <3>1, <3>2 DEF OrderInv, ChannelOrder
  <2>3. CASE d # ep.exchange
    <3>1. price_buffer'[d] = price_buffer[d]
      BY <1>1, <2>3
    <3>2. QED
      BY <2>1, <3>1, RecvEffect DEF OrderInv, BufferOrder
  <2>4. QED
    BY <2>2, <2>3
<1>5. QED
  BY <1>2, <1>3, <1>4 DEF OrderInv

(* Every other step leaves the quotes alone.                                *)
LEMMA QuotesUntouched ==
  ASSUME PollBaseline \/ TickStart \/ TickCommit \/ SendEvent \/ UNCHANGED vars
  PROVE  UNCHANGED <<clock, feed, channel, price_buffer>>
  BY DEF PollBaseline, TickStart, TickCommit, SendEvent, vars, feedVars, bufferVars

LEMMA OrderNext ==
  ASSUME Inv, OrderInv, [Next]_vars
  PROVE  OrderInv'
<1>1. CASE Elapse
  BY <1>1, OrderElapse
<1>2. ASSUME NEW e \in Exchanges, FeedQuote(e) \/ FeedSend(e) PROVE OrderInv'
  BY <1>2, OrderQuote, OrderSend
<1>3. CASE RecvPrice
  BY <1>3, OrderRecv
<1>4. CASE PollBaseline \/ TickStart \/ TickCommit \/ SendEvent \/ UNCHANGED vars
  BY <1>4, QuotesUntouched DEF OrderInv, HandOrder, ChannelOrder, BufferOrder
<1>5. QED
  BY <1>1, <1>2, <1>3, <1>4 DEF Next, Feed, Loop

(* Buffer, channel and quote in hand are sorted by their stamps.            *)
THEOREM QuotesSorted == Spec => []OrderInv
<1>1. Init => OrderInv
  BY DEF Init, OrderInv, HandOrder, ChannelOrder, BufferOrder
<1>2. Inv /\ OrderInv /\ [Next]_vars => OrderInv'
  BY OrderNext
<1>3. QED
  BY <1>1, <1>2, Invariance, PTL DEF Spec

(* What the loop holds of a feed never goes back in time, with any number of *)
(* feeds blocked on a channel of any size.                                  *)
THEOREM FeedsMoveForward == Spec => FeedNeverGoesBack
<1> DEFINE Forward ==
      \A e \in Exchanges : price_buffer[e] # None =>
        price_buffer'[e].timestamp >= price_buffer[e].timestamp
<1>1. Inv /\ OrderInv /\ [Next]_vars => Forward
  <2> SUFFICES ASSUME Inv, OrderInv, [Next]_vars,
                      NEW e \in Exchanges, price_buffer[e] # None
               PROVE  price_buffer'[e].timestamp >= price_buffer[e].timestamp
    OBVIOUS
  <2>1. price_buffer[e].timestamp \in Nat
    BY QuoteTypes
  <2>2. CASE RecvPrice
    <3>1. CASE e = channel[1].exchange
      <4>1. price_buffer'[e] = channel[1] /\ 1 \in 1 .. Len(channel)
        BY <2>2, <3>1, RecvEffect, QuoteTypes
      <4>2. channel[1].timestamp \in Nat
        BY <4>1, QuoteTypes
      <4>3. price_buffer[e].timestamp <= channel[1].timestamp
        BY <3>1, <4>1 DEF OrderInv, BufferOrder
      <4>4. QED
        BY <2>1, <4>1, <4>2, <4>3
    <3>2. CASE e # channel[1].exchange
      BY <2>1, <2>2, <3>2, RecvEffect, QuoteTypes
    <3>3. QED
      BY <3>1, <3>2
  <2>3. CASE UNCHANGED price_buffer
    BY <2>1, <2>3
  <2>4. RecvPrice \/ UNCHANGED price_buffer
    BY QuotesUntouched DEF Next, Feed, Loop, Elapse, FeedQuote, FeedSend, bufferVars
  <2>5. QED
    BY <2>2, <2>3, <2>4
<1>2. QED
  BY <1>1, Invariance, QuotesSorted, PTL DEF Spec, FeedNeverGoesBack

-----------------------------------------------------------------------------
(* The refinement                                                           *)

(* The channel as QuoteFeed sees it.                                        *)
Tagged(c) == [i \in 1 .. Len(c) |-> <<c[i].exchange, c[i]>>]

LEMMA TaggedType ==
  ASSUME NEW c \in Seq(Quote)
  PROVE  Tagged(c) \in Seq(Exchanges \X Quote) /\ Len(Tagged(c)) = Len(c)
<1>1. Len(c) \in Nat /\ \A i \in 1 .. Len(c) : c[i] \in Quote
  OBVIOUS
<1>2. \A i \in 1 .. Len(c) : <<c[i].exchange, c[i]>> \in Exchanges \X Quote
  BY <1>1 DEF Quote
<1>3. Tagged(c) \in [1 .. Len(c) -> Exchanges \X Quote]
  BY <1>2 DEF Tagged
<1>4. QED
  BY <1>1, <1>3

LEMMA TaggedAppend ==
  ASSUME NEW c \in Seq(Quote), NEW q \in Quote
  PROVE  Tagged(Append(c, q)) = Append(Tagged(c), <<q.exchange, q>>)
<1>1. /\ Len(c) \in Nat
      /\ Len(Append(c, q)) = Len(c) + 1
      /\ \A i \in 1 .. Len(c) + 1 : Append(c, q)[i] = IF i <= Len(c) THEN c[i] ELSE q
  OBVIOUS
<1>2. Tagged(c) \in Seq(Exchanges \X Quote) /\ Len(Tagged(c)) = Len(c)
  BY TaggedType
<1>3. QED
  BY <1>1, <1>2 DEF Tagged

LEMMA TaggedTail ==
  ASSUME NEW c \in Seq(Quote), c # <<>>
  PROVE  /\ Tagged(c) # <<>>
         /\ Head(Tagged(c)) = <<c[1].exchange, c[1]>>
         /\ Tagged(Tail(c)) = Tail(Tagged(c))
<1>1. /\ Len(c) \in Nat \ {0}
      /\ Len(Tail(c)) = Len(c) - 1
      /\ \A i \in 1 .. Len(c) - 1 : Tail(c)[i] = c[i + 1]
  OBVIOUS
<1>2. Tagged(c) \in Seq(Exchanges \X Quote) /\ Len(Tagged(c)) = Len(c)
  BY TaggedType
<1>3. QED
  BY <1>1, <1>2 DEF Tagged

(* A step of the loop and its feeds is a step of QuoteFeed or leaves it.    *)
LEMMA QuoteFeedStep ==
  ASSUME Inv, OrderInv, [Next]_vars
  PROVE  [QuoteFeed!Next]_(QuoteFeed!quoteVars)
<1> USE DEF QuoteFeed!quoteVars
<1>1. CASE RecvPrice
  <2>1. Tagged(channel) # <<>> /\ Head(Tagged(channel)) = <<channel[1].exchange, channel[1]>>
        /\ Tagged(channel') = Tail(Tagged(channel))
    BY <1>1, RecvEffect, QuoteTypes, TaggedTail
  <2>2. /\ Head(Tagged(channel))[1] = channel[1].exchange
        /\ Head(Tagged(channel))[2] = channel[1]
    BY <2>1
  <2>3. /\ price_buffer' = [price_buffer EXCEPT ![Head(Tagged(channel))[1]] = Head(Tagged(channel))[2]]
        /\ UNCHANGED feed
    BY <1>1, <2>2, RecvEffect
  <2>4. QuoteFeed!Take
    BY <2>1, <2>3 DEF QuoteFeed!Take, Tagged
  <2>5. QED
    BY <2>4 DEF QuoteFeed!Next
<1>2. ASSUME NEW e \in Exchanges, FeedQuote(e) PROVE QuoteFeed!Next
  <2>1. PICK p \in Prices :
          feed' = [feed EXCEPT ![e] = [exchange |-> e, price |-> p, timestamp |-> clock]]
    BY <1>2 DEF FeedQuote
  <2>2. [exchange |-> e, price |-> p, timestamp |-> clock] \in Quote
    BY DEF Quote, Inv, TypeOK
  <2>3. QuoteFeed!Stamp(e)
    BY <1>2, <2>1, <2>2 DEF FeedQuote, QuoteFeed!Stamp, bufferVars
  <2>4. QED
    BY <2>3 DEF QuoteFeed!Next
<1>3. ASSUME NEW e \in Exchanges, FeedSend(e) PROVE QuoteFeed!Next
  <2>1. /\ feed[e] # None /\ feed[e] \in Quote /\ feed[e].exchange = e
        /\ Len(channel) < ChannelCapacity
        /\ channel' = Append(channel, feed[e])
        /\ feed' = [feed EXCEPT ![e] = None]
        /\ UNCHANGED price_buffer
    BY <1>3, QuoteTypes DEF FeedSend, OrderInv, HandOrder, bufferVars
  <2>2. Tagged(channel') = Append(Tagged(channel), <<e, feed[e]>>)
    BY <2>1, QuoteTypes, TaggedAppend
  <2>3. Len(Tagged(channel)) = Len(channel)
    BY QuoteTypes DEF Tagged
  <2>4. QuoteFeed!Send(e)
    BY <2>1, <2>2, <2>3 DEF QuoteFeed!Send, Tagged
  <2>5. QED
    BY <2>4 DEF QuoteFeed!Next
<1>4. CASE Elapse \/ PollBaseline \/ TickStart \/ TickCommit \/ SendEvent \/ UNCHANGED vars
  <2>1. UNCHANGED <<feed, channel, price_buffer>>
    BY <1>4, QuotesUntouched DEF Elapse, feedVars, bufferVars
  <2>2. QED
    BY <2>1
<1>5. QED
  BY <1>1, <1>2, <1>3, <1>4 DEF Next, Feed, Loop

(* The loop, its channel and its feeds implement QuoteFeed, whatever ticks,  *)
(* polls and waits for the lock fall in between.                            *)
THEOREM LoopImplementsFeed == Spec => ImplementsQuoteFeed
<1>1. Init => QuoteFeed!Init
  BY DEF Init, QuoteFeed!Init
<1>2. Inv /\ OrderInv /\ [Next]_vars => [QuoteFeed!Next]_(QuoteFeed!quoteVars)
  BY QuoteFeedStep
<1>3. QED
  BY <1>1, <1>2, Invariance, QuotesSorted, PTL DEF Spec, ImplementsQuoteFeed, QuoteFeed!Spec

-----------------------------------------------------------------------------
(* A batch fits its snapshot                                                *)

(* An event that describes a snapshot and the history that ends with it.    *)
Describes(event, snap, h) ==
  LET market == snap.market_price
      base == snap.chainlink_price
      change == Scale * Abs(market - 2 * base)
  IN  /\ event.ts = snap.timestamp
      /\ event.type = "tick" => event.data = snap
      /\ event.type = "round_settled" => event.new_price = base
      /\ event.type \in {"round_triggered", "deviation_approach", "pre_trigger_alert"} =>
           /\ base # None
           /\ event.market_price = market /\ event.chainlink_price = base
           /\ event.deviation_pct = snap.deviation_pct
           /\ event.direction = IF market > 2 * base THEN "Up" ELSE "Down"
           /\ event.type = "round_triggered" => change >= 20 * base
           /\ event.type = "deviation_approach" => change >= 14 * base /\ change < 20 * base
           /\ event.type = "pre_trigger_alert" => change >= 10 * base
      /\ event.type = "bb_breakout" =>
           /\ event.market_price = market
           /\ event.deviation_pct = snap.deviation_pct
           /\ event.direction = bb_breakout_direction(market, bollinger_bands(h))

Describing == {event \in Event : Describes(event, Snapshot, History)}

(* What the snapshot of a tick says.                                        *)
LEMMA SnapshotFields ==
  /\ Snapshot.timestamp = tick_now
  /\ Snapshot.market_price = Market
  /\ Snapshot.chainlink_price = chainlink_baseline
  /\ Snapshot.deviation_pct = Deviation
  BY DEF Snapshot

(* The deviation a tick alerts about is that of the median from the baseline *)
(* of the tick, it points to the side of the baseline the median is on, and *)
(* it is in the zone of the alert.                                          *)
LEMMA AlertDeviation ==
  ASSUME Inv, agg_pc = "lock",
         round_imminent \/ dev_approaching \/ pre_trigger_result # None,
         NEW change, change = Scale * Abs(Market - 2 * chainlink_baseline)
  PROVE  /\ chainlink_baseline # None
         /\ Direction(Deviation) = IF Market > 2 * chainlink_baseline THEN "Up" ELSE "Down"
         /\ round_imminent => change >= 20 * chainlink_baseline
         /\ dev_approaching =>
              change >= 14 * chainlink_baseline /\ change < 20 * chainlink_baseline
         /\ pre_trigger_result # None =>
              /\ change >= 10 * chainlink_baseline
              /\ pre_trigger_result.direction = Direction(Deviation)
<1>1. Deviation # None
  BY DEF round_imminent, dev_approaching, pre_trigger_result, detect_pre_trigger_signals
<1>2. /\ chainlink_baseline # None
      /\ Deviation = [diff |-> Market - 2 * chainlink_baseline,
                      base |-> 2 * chainlink_baseline]
  BY <1>1 DEF Deviation, deviation_pct
<1>3. Market \in Nat /\ chainlink_baseline \in Nat
  BY AlertType, AggregatorAssumption
<1>4. Direction(Deviation) = IF Market > 2 * chainlink_baseline THEN "Up" ELSE "Down"
  BY <1>2, <1>3 DEF Direction
<1>5. change \in Int
  <2>1. Abs(Market - 2 * chainlink_baseline) \in Int
    BY <1>3 DEF Abs
  <2>2. QED
    BY <2>1, ScaleAssumption
<1>6. ASSUME NEW k \in Nat
      PROVE  AtLeast(Deviation, k) <=> change >= k * (2 * chainlink_baseline)
  BY <1>2 DEF AtLeast
<1>7. round_imminent => change >= 20 * chainlink_baseline
  <2>1. round_imminent => change >= 10 * (2 * chainlink_baseline)
    BY <1>6 DEF round_imminent, is_round_imminent, ROUND_TRIGGER_THRESHOLD
  <2>2. QED
    BY <1>3, <1>5, <2>1
<1>8. dev_approaching =>
        change >= 14 * chainlink_baseline /\ change < 20 * chainlink_baseline
  <2>1. dev_approaching => /\ change >= 7 * (2 * chainlink_baseline)
                           /\ ~ (change >= 10 * (2 * chainlink_baseline))
    BY <1>6 DEF dev_approaching, is_deviation_approaching, APPROACH_THRESHOLD,
                ROUND_TRIGGER_THRESHOLD
  <2>2. QED
    BY <1>3, <1>5, <2>1
<1>9. pre_trigger_result # None =>
        /\ change >= 10 * chainlink_baseline
        /\ pre_trigger_result.direction = Direction(Deviation)
  <2>1. pre_trigger_result # None =>
          /\ AtLeast(Deviation, PRE_TRIGGER_DEV_THRESHOLD)
          /\ pre_trigger_result.direction = Direction(Deviation)
    BY DEF pre_trigger_result, detect_pre_trigger_signals
  <2>2. pre_trigger_result # None => change >= 5 * (2 * chainlink_baseline)
    BY <1>6, <2>1 DEF PRE_TRIGGER_DEV_THRESHOLD
  <2>3. QED
    BY <1>3, <1>5, <2>1, <2>2
<1>10. QED
  BY <1>2, <1>4, <1>7, <1>8, <1>9

(* A sequence of at most one event that describes the snapshot.             *)
LEMMA IfDescribing ==
  ASSUME NEW c \in BOOLEAN, NEW e, If(c, e) \in Seq(Event),
         c => Describes(e, Snapshot, History)
  PROVE  If(c, e) \in Seq(Describing)
<1>1. CASE c
  <2>1. If(c, e) = <<e>>
    BY <1>1 DEF If
  <2>2. e \in Event
    BY <2>1
  <2>3. e \in Describing
    BY <1>1, <2>2 DEF Describing
  <2>4. QED
    BY <2>1, <2>3
<1>2. CASE ~ c
  BY <1>2, EmptySeq DEF If
<1>3. QED
  BY <1>1, <1>2

(* A batch is a sequence over any set that all its parts are sequences over. *)
LEMMA BatchOf ==
  ASSUME NEW S,
         <<[type |-> "tick", ts |-> tick_now, data |-> Snapshot]>> \in Seq(S),
         round_settled \in Seq(S), round_triggered \in Seq(S),
         deviation_approach \in Seq(S), bb_breakout \in Seq(S),
         pre_trigger_alert \in Seq(S)
  PROVE  Batch \in Seq(S)
<1> DEFINE tick == <<[type |-> "tick", ts |-> tick_now, data |-> Snapshot]>>
<1>1. tick \in Seq(S) /\ Batch = tick \o round_settled \o round_triggered
                               \o deviation_approach \o bb_breakout \o pre_trigger_alert
  BY DEF Batch
<1> HIDE DEF tick
<1>2. ASSUME NEW s \in Seq(S), NEW t \in Seq(S) PROVE s \o t \in Seq(S)
  BY ConcatProperties
<1>3. tick \o round_settled \in Seq(S)
  BY <1>1, <1>2
<1>4. tick \o round_settled \o round_triggered \in Seq(S)
  BY <1>2, <1>3
<1>5. tick \o round_settled \o round_triggered \o deviation_approach \in Seq(S)
  BY <1>2, <1>4
<1>6. tick \o round_settled \o round_triggered \o deviation_approach \o bb_breakout \in Seq(S)
  BY <1>2, <1>5
<1>7. QED
  BY <1>1, <1>2, <1>6

(* Every event of a batch describes the snapshot of its tick.               *)
LEMMA BatchDescribing ==
  ASSUME Inv, agg_pc = "lock"
  PROVE  Batch \in Seq(Describing)
<1> DEFINE first == [type |-> "tick", ts |-> tick_now, data |-> Snapshot]
           change == Scale * Abs(Market - 2 * chainlink_baseline)
<1>1. <<first>> \in Seq(Describing)
  <2>1. first \in Event
    BY SnapshotType DEF Event, Inv, TypeOK
  <2>2. Describes(first, Snapshot, History)
    BY SnapshotFields DEF Describes
  <2>3. first \in Describing
    BY <2>1, <2>2 DEF Describing
  <2>4. QED
    BY <2>3
<1>2. round_settled \in Seq(Describing)
  <2> DEFINE e == [type |-> "round_settled", ts |-> tick_now,
                   prev_price |-> prev_chainlink_price, new_price |-> chainlink_baseline,
                   round_duration_secs |-> RoundDuration]
  <2>1. Describes(e, Snapshot, History)
    BY SnapshotFields DEF Describes
  <2>2. BaselineMoved \in BOOLEAN /\ round_settled = If(BaselineMoved, e)
    BY DEF BaselineMoved, round_settled
  <2> HIDE DEF e
  <2>3. QED
    BY <2>1, <2>2, EventsType, IfDescribing
<1>3. round_triggered \in Seq(Describing)
  <2> DEFINE c == round_imminent /\ ~ prev_round_imminent
             e == DeviationAlert("round_triggered")
  <2>1. c => Describes(e, Snapshot, History)
    <3>1. SUFFICES ASSUME c PROVE Describes(e, Snapshot, History)
      OBVIOUS
    <3>2. /\ chainlink_baseline # None
          /\ Direction(Deviation) = IF Market > 2 * chainlink_baseline THEN "Up" ELSE "Down"
          /\ change >= 20 * chainlink_baseline
      BY <3>1, AlertDeviation
    <3>3. QED
      BY <3>2, SnapshotFields DEF Describes, DeviationAlert
  <2>2. c \in BOOLEAN /\ round_triggered = If(c, e)
    BY DEF round_triggered
  <2> HIDE DEF c, e
  <2>3. QED
    BY <2>1, <2>2, EventsType, IfDescribing
<1>4. deviation_approach \in Seq(Describing)
  <2> DEFINE c == dev_approaching /\ ~ prev_deviation_approaching
             e == DeviationAlert("deviation_approach")
  <2>1. c => Describes(e, Snapshot, History)
    <3>1. SUFFICES ASSUME c PROVE Describes(e, Snapshot, History)
      OBVIOUS
    <3>2. /\ chainlink_baseline # None
          /\ Direction(Deviation) = IF Market > 2 * chainlink_baseline THEN "Up" ELSE "Down"
          /\ change >= 14 * chainlink_baseline /\ change < 20 * chainlink_baseline
      BY <3>1, AlertDeviation
    <3>3. QED
      BY <3>2, SnapshotFields DEF Describes, DeviationAlert
  <2>2. c \in BOOLEAN /\ deviation_approach = If(c, e)
    BY DEF deviation_approach
  <2> HIDE DEF c, e
  <2>3. QED
    BY <2>1, <2>2, EventsType, IfDescribing
<1>5. bb_breakout \in Seq(Describing)
  <2> DEFINE c == bb_dir # None /\ prev_bb_breakout_dir = None
             x == prev_bb_width_pct # None /\ WiderThan(Bands, prev_bb_width_pct)
             e == [type |-> "bb_breakout", ts |-> tick_now, direction |-> bb_dir,
                   market_price |-> Market, deviation_pct |-> Deviation, bb_expanding |-> x]
  <2>1. Describes(e, Snapshot, History)
    <3> HIDE DEF x
    <3>1. bb_dir = bb_breakout_direction(Market, bollinger_bands(History))
      BY DEF bb_dir, Bands
    <3>2. QED
      BY <3>1, SnapshotFields DEF Describes
  <2>2. c \in BOOLEAN /\ bb_breakout = If(c, e)
    BY DEF bb_breakout
  <2> HIDE DEF c, e
  <2>3. QED
    BY <2>1, <2>2, EventsType, IfDescribing
<1>6. pre_trigger_alert \in Seq(Describing)
  <2> DEFINE c == pre_trigger_result # None /\ ~ prev_pre_trigger
             e == [type |-> "pre_trigger_alert", ts |-> tick_now,
                   direction |-> pre_trigger_result.direction,
                   market_price |-> Market, chainlink_price |-> chainlink_baseline,
                   deviation_pct |-> Deviation, signals |-> pre_trigger_result.signals]
  <2>1. c => Describes(e, Snapshot, History)
    <3>1. SUFFICES ASSUME c PROVE Describes(e, Snapshot, History)
      OBVIOUS
    <3>2. /\ chainlink_baseline # None
          /\ pre_trigger_result.direction
               = IF Market > 2 * chainlink_baseline THEN "Up" ELSE "Down"
          /\ change >= 10 * chainlink_baseline
      BY <3>1, AlertDeviation
    <3>3. QED
      BY <3>2, SnapshotFields DEF Describes
  <2>2. c \in BOOLEAN /\ pre_trigger_alert = If(c, e)
    BY DEF pre_trigger_alert
  <2> HIDE DEF c, e
  <2>3. QED
    BY <2>1, <2>2, EventsType, IfDescribing
<1>7. QED
  BY <1>1, <1>2, <1>3, <1>4, <1>5, <1>6, BatchOf

(* While a batch is being sent without the lock, each event still to send    *)
(* fits the snapshot and the history in the state: its time, its prices and *)
(* deviation, the side it points to, and the zone of the deviation that its *)
(* kind stands for.                                                         *)
THEOREM BatchFitsSnapshot == Spec => []BatchDescribesSnapshot
<1>0. BatchDescribesSnapshot
        <=> \A i \in DOMAIN outbound : Describes(outbound[i], current_price, price_history)
  BY DEF BatchDescribesSnapshot, Describes
<1>1. Init => BatchDescribesSnapshot
  <2>1. DOMAIN <<>> = {}
    OBVIOUS
  <2>2. QED
    BY <1>0, <2>1 DEF Init
<1>2. Inv /\ BatchDescribesSnapshot /\ [Next]_vars => BatchDescribesSnapshot'
  <2> SUFFICES ASSUME Inv, BatchDescribesSnapshot, [Next]_vars
               PROVE  BatchDescribesSnapshot'
    OBVIOUS
  <2>0. BatchDescribesSnapshot'
          <=> \A i \in DOMAIN outbound' :
                Describes(outbound'[i], current_price', price_history')
    BY DEF BatchDescribesSnapshot, Describes
  <2>1. CASE TickCommit
    <3>1. /\ outbound' = Batch /\ current_price' = Snapshot /\ price_history' = History
          /\ agg_pc = "lock"
      BY <2>1 DEF TickCommit
    <3>2. Batch \in Seq(Describing)
      BY <3>1, BatchDescribing
    <3>3. \A i \in DOMAIN Batch : Batch[i] \in Describing
      BY <3>2
    <3>4. \A i \in DOMAIN Batch : Describes(Batch[i], Snapshot, History)
      BY <3>3 DEF Describing
    <3>5. QED
      BY <2>0, <3>1, <3>4
  <2>2. CASE SendEvent
    <3>1. /\ outbound \in Seq(Event) /\ outbound # <<>>
          /\ outbound' = Tail(outbound)
          /\ UNCHANGED <<current_price, price_history>>
      BY <2>2 DEF SendEvent, Inv, TypeOK, LoopInv, publishedVars
    <3>2. \A i \in DOMAIN outbound' : i + 1 \in DOMAIN outbound /\ outbound'[i] = outbound[i + 1]
      BY <3>1
    <3>3. QED
      BY <1>0, <2>0, <3>1, <3>2
  <2>3. CASE UNCHANGED <<outbound, current_price, price_history>>
    BY <1>0, <2>0, <2>3
  <2>4. TickCommit \/ SendEvent \/ UNCHANGED <<outbound, current_price, price_history>>
    BY DEF Next, Loop, Feed, Elapse, FeedQuote, FeedSend, PollBaseline, RecvPrice,
           TickStart, vars, loopVars, publishedVars
  <2>5. QED
    BY <2>1, <2>2, <2>3, <2>4
<1>3. QED
  BY Invariance, <1>1, <1>2, PTL DEF Spec

-----------------------------------------------------------------------------
(* The flags of the loop are what it has published                          *)

(* The previous-tick values, which the loop keeps for itself, agree with the *)
(* snapshot and the history the last tick has published.  This is what makes *)
(* an edge of the flags an edge of the published conditions.                *)
FlagInv ==
  /\ prev_round_imminent = PublishedCondition("round_triggered")
  /\ prev_deviation_approaching = PublishedCondition("deviation_approach")
  /\ (prev_bb_breakout_dir # None) = PublishedCondition("bb_breakout")
  /\ prev_pre_trigger = PublishedCondition("pre_trigger_alert")
  /\ prev_chainlink_price = PublishedBaseline
  /\ prev_bb_width_pct = bollinger_bands(price_history)
  /\ prev_chainlink_price # None => chainlink_baseline # None

flagVars == <<edgeVars, publishedVars, chainlink_baseline>>

(* What a subscriber reads after the commit of a tick is what the tick has   *)
(* computed.                                                                *)
LEMMA CommitPublishes ==
  ASSUME Inv, TickCommit
  PROVE  /\ PublishedCondition("round_triggered")' = round_imminent
         /\ PublishedCondition("deviation_approach")' = dev_approaching
         /\ PublishedCondition("bb_breakout")' = (bb_dir # None)
         /\ PublishedCondition("pre_trigger_alert")' = (pre_trigger_result # None)
         /\ PublishedBaseline' = chainlink_baseline
<1>1. current_price' = Snapshot /\ price_history' = History /\ Snapshot # None
  BY SnapshotType, PublishedAssumption DEF TickCommit
<1>2. /\ Snapshot.round_imminent = round_imminent
      /\ Snapshot.deviation_pct = Deviation
      /\ Snapshot.market_price = Market
      /\ Snapshot.chainlink_price = chainlink_baseline
  BY DEF Snapshot
<1>3. PublishedCondition("round_triggered")' = round_imminent
  <2>1. round_imminent \in BOOLEAN
    BY DeviationType DEF TickCommit
  <2>2. PublishedCondition("round_triggered")' <=> current_price'.round_imminent
    BY <1>1 DEF PublishedCondition
  <2>3. QED
    BY <1>1, <1>2, <2>1, <2>2 DEF PublishedCondition
<1>4. PublishedCondition("deviation_approach")' = dev_approaching
  BY <1>1, <1>2 DEF PublishedCondition, dev_approaching
<1>5. PublishedCondition("bb_breakout")' = (bb_dir # None)
  BY <1>1, <1>2 DEF PublishedCondition, bb_dir, Bands
<1>6. PublishedCondition("pre_trigger_alert")' = (pre_trigger_result # None)
  BY <1>1, <1>2 DEF PublishedCondition, pre_trigger_result
<1>7. PublishedBaseline' = chainlink_baseline
  BY <1>1, <1>2 DEF PublishedBaseline
<1>8. QED
  BY <1>3, <1>4, <1>5, <1>6, <1>7

LEMMA FlagsInit == Init => FlagInv
<1> SUFFICES ASSUME Init PROVE FlagInv
  OBVIOUS
<1>1. bollinger_bands(price_history) = None
  BY PeriodsAssumption DEF Init, bollinger_bands
<1>2. QED
  BY <1>1 DEF Init, FlagInv, PublishedCondition, PublishedBaseline

LEMMA FlagsStep ==
  ASSUME Inv, FlagInv, [Next]_vars
  PROVE  FlagInv'
<1>1. CASE TickCommit
  <2>1. /\ prev_round_imminent' = round_imminent
        /\ prev_deviation_approaching' = dev_approaching
        /\ prev_bb_breakout_dir' = bb_dir
        /\ prev_pre_trigger' = (pre_trigger_result # None)
        /\ prev_chainlink_price' = chainlink_baseline
        /\ prev_bb_width_pct' = Bands
        /\ price_history' = History
        /\ UNCHANGED chainlink_baseline
    BY <1>1 DEF TickCommit
  <2>2. prev_bb_width_pct' = bollinger_bands(price_history')
    BY <2>1 DEF Bands
  <2>3. QED
    BY <1>1, <2>1, <2>2, CommitPublishes DEF FlagInv
<1>2. CASE PollBaseline
  <2>1. chainlink_baseline' # None /\ UNCHANGED <<edgeVars, publishedVars>>
    BY <1>2, AggregatorAssumption DEF PollBaseline
  <2>2. QED
    BY <2>1 DEF FlagInv, PublishedCondition, PublishedBaseline, edgeVars, publishedVars
<1>3. CASE UNCHANGED flagVars
  BY <1>3 DEF flagVars, FlagInv, PublishedCondition, PublishedBaseline, edgeVars, publishedVars
<1>4. TickCommit \/ PollBaseline \/ UNCHANGED flagVars
  BY DEF Next, Loop, Feed, Elapse, FeedQuote, FeedSend, RecvPrice, TickStart, SendEvent,
         vars, flagVars
<1>5. QED
  BY <1>1, <1>2, <1>3, <1>4

(* The flags of the previous tick always agree with what was published.     *)
LEMMA FlagInvariance == Spec => []FlagInv
<1>1. QED
  BY FlagsInit, FlagsStep, Invariance, PTL DEF Spec

-----------------------------------------------------------------------------
(* The flag of a breakout                                                   *)

(* Whether the bands are wider than those of the previous published tick.   *)
Widened ==
  /\ bollinger_bands(price_history) # None
  /\ WiderThan(bollinger_bands(History), bollinger_bands(price_history))

Telling == {event \in Event : event.type = "bb_breakout" => (event.bb_expanding <=> Widened)}

(* A sequence of at most one event of another kind tells nothing.           *)
LEMMA OtherKindTelling ==
  ASSUME NEW c \in BOOLEAN, NEW e, If(c, e) \in Seq(Event), e.type # "bb_breakout"
  PROVE  If(c, e) \in Seq(Telling)
<1>1. c => e \in Event
  <2>1. SUFFICES ASSUME c PROVE e \in Event
    OBVIOUS
  <2>2. If(c, e) = <<e>>
    BY <2>1 DEF If
  <2>3. QED
    BY <2>2
<1>2. c => e \in Telling
  BY <1>1 DEF Telling
<1>3. QED
  BY <1>2, IfType

LEMMA BatchTelling ==
  ASSUME Inv, FlagInv, agg_pc = "lock"
  PROVE  Batch \in Seq(Telling)
<1>1. <<[type |-> "tick", ts |-> tick_now, data |-> Snapshot]>> \in Seq(Telling)
  <2> DEFINE e == [type |-> "tick", ts |-> tick_now, data |-> Snapshot]
  <2>1. e \in Event
    BY SnapshotType DEF Event, Inv, TypeOK
  <2>2. e \in Telling
    BY <2>1 DEF Telling
  <2>3. QED
    BY <2>2
<1>2. round_settled \in Seq(Telling)
  <2>1. BaselineMoved \in BOOLEAN
    BY DEF BaselineMoved
  <2>2. QED
    BY <2>1, EventsType, OtherKindTelling DEF round_settled
<1>3. round_triggered \in Seq(Telling)
  <2>1. DeviationAlert("round_triggered").type = "round_triggered"
    BY DEF DeviationAlert
  <2>2. QED
    BY <2>1, EventsType, OtherKindTelling DEF round_triggered
<1>4. deviation_approach \in Seq(Telling)
  <2>1. DeviationAlert("deviation_approach").type = "deviation_approach"
    BY DEF DeviationAlert
  <2>2. QED
    BY <2>1, EventsType, OtherKindTelling DEF deviation_approach
<1>5. pre_trigger_alert \in Seq(Telling)
  BY EventsType, OtherKindTelling DEF pre_trigger_alert
<1>6. bb_breakout \in Seq(Telling)
  <2> DEFINE c == bb_dir # None /\ prev_bb_breakout_dir = None
             x == prev_bb_width_pct # None /\ WiderThan(Bands, prev_bb_width_pct)
             e == [type |-> "bb_breakout", ts |-> tick_now, direction |-> bb_dir,
                   market_price |-> Market, deviation_pct |-> Deviation, bb_expanding |-> x]
  <2>1. x <=> Widened
    BY DEF FlagInv, Bands, Widened
  <2>2. x \in BOOLEAN /\ c \in BOOLEAN
    BY DEF WiderThan
  <2>3. bb_breakout = If(c, e)
    BY DEF bb_breakout
  <2>4. c => e \in Telling
    <3> HIDE DEF x
    <3>1. c => e \in Event
      BY <2>2, DetectionType, MarketType, DeviationType DEF Event, Inv, TypeOK
    <3>2. e.bb_expanding = x
      OBVIOUS
    <3>3. QED
      BY <2>1, <3>1, <3>2 DEF Telling
  <2> HIDE DEF c, e
  <2>5. QED
    BY <2>2, <2>3, <2>4, IfType
<1>7. QED
  BY <1>1, <1>2, <1>3, <1>4, <1>5, <1>6, BatchOf

(* A breakout is announced as expanding exactly when its bands are wider     *)
(* than those over the history of the previous published tick.              *)
THEOREM ExpandingComparesHistories == Spec => ExpandingMeansWider
<1> DEFINE Tells ==
      agg_pc = "lock" /\ agg_pc' = "send" =>
        \A i \in DOMAIN outbound' :
          outbound'[i].type = "bb_breakout" =>
            (outbound'[i].bb_expanding <=>
               /\ bollinger_bands(price_history) # None
               /\ WiderThan(bollinger_bands(price_history'), bollinger_bands(price_history)))
<1>1. Inv /\ FlagInv /\ [Next]_vars => Tells
  <2> SUFFICES ASSUME Inv, FlagInv, [Next]_vars, agg_pc = "lock", agg_pc' = "send",
                      NEW i \in DOMAIN outbound', outbound'[i].type = "bb_breakout"
               PROVE  outbound'[i].bb_expanding <=>
                        /\ bollinger_bands(price_history) # None
                        /\ WiderThan(bollinger_bands(price_history'),
                                     bollinger_bands(price_history))
    OBVIOUS
  <2>1. TickCommit
    BY DEF Next, Loop, Feed, Elapse, FeedQuote, FeedSend, PollBaseline, RecvPrice,
           TickStart, SendEvent, vars, loopVars
  <2>2. outbound' = Batch /\ price_history' = History
    BY <2>1 DEF TickCommit
  <2>3. Batch \in Seq(Telling)
    BY BatchTelling
  <2>4. Batch[i] \in Telling
    BY <2>2, <2>3
  <2>5. QED
    BY <2>2, <2>4 DEF Telling, Widened
<1>2. QED
  BY <1>1, Invariance, FlagInvariance, PTL DEF Spec, ExpandingMeansWider

-----------------------------------------------------------------------------
(* The window of a round                                                    *)

(* Before a settlement only the tick is still to be sent.                   *)
SettlementsAhead(events) ==
  \A i, j \in DOMAIN events :
    i < j /\ events[j].type = "round_settled" => events[i].type = "tick"

Duration == IF heard = None THEN None ELSE (tick_now - heard) \div UnitsPerSec

(* What the loop keeps of the window and what a subscriber knows of it: the  *)
(* settlement and the trigger still to be sent make up for the difference.  *)
HeardInv ==
  /\ SettlementsAhead(outbound)
  /\ \A i \in DOMAIN outbound : outbound[i].ts = tick_now
  /\ \A i \in DOMAIN outbound :
       outbound[i].type = "round_triggered" => round_imminent_since = tick_now
  /\ \A i \in DOMAIN outbound :
       outbound[i].type = "round_settled" => outbound[i].round_duration_secs = Duration
  /\ "round_triggered" \notin EventTypes(outbound) =>
       round_imminent_since =
         IF "round_settled" \in EventTypes(outbound) THEN None ELSE heard

LEMMA AheadOfOthers ==
  ASSUME NEW c \in BOOLEAN, NEW e, e.type # "round_settled",
         If(c, e) \in Seq(Event), NEW s \in Seq(Event), SettlementsAhead(s)
  PROVE  s \o If(c, e) \in Seq(Event) /\ SettlementsAhead(s \o If(c, e))
<1>1. CASE c
  <2>1. If(c, e) = <<e>> /\ e \in Event
    <3>1. If(c, e) = <<e>>
      BY <1>1 DEF If
    <3>2. QED
      BY <3>1
  <2>2. /\ s \o <<e>> \in Seq(Event)
        /\ DOMAIN (s \o <<e>>) = 1 .. Len(s) + 1
        /\ DOMAIN s = 1 .. Len(s) /\ Len(s) \in Nat
        /\ \A i \in 1 .. Len(s) : (s \o <<e>>)[i] = s[i]
        /\ (s \o <<e>>)[Len(s) + 1] = e
    BY <2>1
  <2>3. SUFFICES ASSUME NEW i \in 1 .. Len(s) + 1, NEW j \in 1 .. Len(s) + 1, i < j,
                        (s \o <<e>>)[j].type = "round_settled"
                 PROVE  (s \o <<e>>)[i].type = "tick"
    BY <2>1, <2>2 DEF SettlementsAhead
  <2>4. j \in 1 .. Len(s) /\ i \in 1 .. Len(s)
    BY <2>2, <2>3
  <2>5. QED
    BY <2>2, <2>3, <2>4 DEF SettlementsAhead
<1>2. CASE ~ c
  BY <1>2 DEF If
<1>3. QED
  BY <1>1, <1>2

LEMMA BatchSettlesFirst ==
  ASSUME Inv, agg_pc = "lock"
  PROVE  SettlementsAhead(Batch)
<1> DEFINE b0 == <<[type |-> "tick", ts |-> tick_now, data |-> Snapshot]>>
           b1 == b0 \o round_settled
           b2 == b1 \o round_triggered
           b3 == b2 \o deviation_approach
           b4 == b3 \o bb_breakout
           b5 == b4 \o pre_trigger_alert
<1>1. Batch = b5
  BY DEF Batch
<1>2. b0 \in Seq(Event) /\ Len(b0) = 1 /\ b0[1].type = "tick"
  BY EventsType
<1> HIDE DEF b0
<1>3. b1 \in Seq(Event) /\ SettlementsAhead(b1)
  <2>1. round_settled \in Seq(Event)
    BY EventsType
  <2>2. Len(round_settled) \in {0, 1}
    BY DEF round_settled, If
  <2>3. /\ b1 \in Seq(Event)
        /\ Len(b1) = 1 + Len(round_settled)
        /\ b1[1] = b0[1]
    <3>1. 1 \in 1 .. Len(b0) + Len(round_settled) /\ 1 <= Len(b0)
      BY <1>2, <2>2
    <3>2. QED
      BY <1>2, <2>1, <3>1, ConcatProperties
  <2> HIDE DEF b1
  <2>4. DOMAIN b1 = 1 .. 1 + Len(round_settled)
    BY <2>3, LenProperties
  <2>5. \A i, j \in DOMAIN b1 : i < j => i = 1
    <3>1. \A n \in {0, 1} : 1 .. 1 + n \subseteq {1, 2}
      OBVIOUS
    <3>2. DOMAIN b1 \subseteq {1, 2}
      BY <2>2, <2>4, <3>1
    <3>3. QED
      BY <3>2
  <2>6. QED
    BY <1>2, <2>3, <2>5 DEF SettlementsAhead
<1> HIDE DEF b1
<1>4. b2 \in Seq(Event) /\ SettlementsAhead(b2)
  <2>1. DeviationAlert("round_triggered").type = "round_triggered"
    BY DEF DeviationAlert
  <2>2. QED
    BY <1>3, <2>1, EventsType, AheadOfOthers DEF round_triggered
<1> HIDE DEF b2
<1>5. b3 \in Seq(Event) /\ SettlementsAhead(b3)
  <2>1. DeviationAlert("deviation_approach").type = "deviation_approach"
    BY DEF DeviationAlert
  <2>2. QED
    BY <1>4, <2>1, EventsType, AheadOfOthers DEF deviation_approach
<1> HIDE DEF b3
<1>6. b4 \in Seq(Event) /\ SettlementsAhead(b4)
  BY <1>5, EventsType, AheadOfOthers DEF bb_breakout
<1> HIDE DEF b4
<1>7. SettlementsAhead(b5)
  BY <1>6, EventsType, AheadOfOthers DEF pre_trigger_alert
<1>8. QED
  BY <1>1, <1>7

(* The duration a settlement of this tick carries.                          *)
Timed == {event \in Event :
            event.type = "round_settled" => event.round_duration_secs = RoundDuration}

LEMMA OtherKindTimed ==
  ASSUME NEW c \in BOOLEAN, NEW e, If(c, e) \in Seq(Event),
         e.type = "round_settled" => e.round_duration_secs = RoundDuration
  PROVE  If(c, e) \in Seq(Timed)
<1>1. c => e \in Event
  <2>1. SUFFICES ASSUME c PROVE e \in Event
    OBVIOUS
  <2>2. If(c, e) = <<e>>
    BY <2>1 DEF If
  <2>3. QED
    BY <2>2
<1>2. c => e \in Timed
  BY <1>1 DEF Timed
<1>3. QED
  BY <1>2, IfType

LEMMA BatchTimed ==
  ASSUME Inv, agg_pc = "lock"
  PROVE  Batch \in Seq(Timed)
<1>1. <<[type |-> "tick", ts |-> tick_now, data |-> Snapshot]>> \in Seq(Timed)
  <2> DEFINE e == [type |-> "tick", ts |-> tick_now, data |-> Snapshot]
  <2>1. e \in Event
    BY SnapshotType DEF Event, Inv, TypeOK
  <2>2. e \in Timed
    BY <2>1 DEF Timed
  <2>3. QED
    BY <2>2
<1>2. round_settled \in Seq(Timed)
  <2> DEFINE e == [type |-> "round_settled", ts |-> tick_now,
                   prev_price |-> prev_chainlink_price, new_price |-> chainlink_baseline,
                   round_duration_secs |-> RoundDuration]
  <2>1. /\ BaselineMoved \in BOOLEAN /\ round_settled = If(BaselineMoved, e)
        /\ e.round_duration_secs = RoundDuration
    BY DEF BaselineMoved, round_settled
  <2> HIDE DEF e
  <2>2. QED
    BY <2>1, EventsType, OtherKindTimed
<1>3. round_triggered \in Seq(Timed)
  <2>1. DeviationAlert("round_triggered").type = "round_triggered"
    BY DEF DeviationAlert
  <2>2. QED
    BY <2>1, EventsType, OtherKindTimed DEF round_triggered
<1>4. deviation_approach \in Seq(Timed)
  <2>1. DeviationAlert("deviation_approach").type = "deviation_approach"
    BY DEF DeviationAlert
  <2>2. QED
    BY <2>1, EventsType, OtherKindTimed DEF deviation_approach
<1>5. bb_breakout \in Seq(Timed)
  BY EventsType, OtherKindTimed DEF bb_breakout
<1>6. pre_trigger_alert \in Seq(Timed)
  BY EventsType, OtherKindTimed DEF pre_trigger_alert
<1>7. QED
  BY <1>1, <1>2, <1>3, <1>4, <1>5, <1>6, BatchOf

LEMMA HeardCommit ==
  ASSUME Inv, HeardInv, TickCommit
  PROVE  HeardInv'
<1>1. /\ outbound = <<>> /\ agg_pc = "lock"
      /\ outbound' = Batch
      /\ round_imminent_since' = WindowStart
      /\ UNCHANGED <<tick_now, heard>>
  BY DEF TickCommit, Inv, LoopInv
<1>2. round_imminent_since = heard
  <2>1. EventTypes(outbound) = {}
    BY <1>1 DEF EventTypes
  <2>2. QED
    BY <2>1 DEF HeardInv
<1>3. SettlementsAhead(Batch)
  BY <1>1, BatchSettlesFirst
<1>4. \A i \in DOMAIN Batch : Batch[i].ts = tick_now
  <2>1. Batch \in Seq(Describing)
    BY <1>1, BatchDescribing
  <2>2. \A i \in DOMAIN Batch : Batch[i] \in Describing
    BY <2>1
  <2>3. QED
    BY <2>2, SnapshotFields DEF Describing, Describes
<1>5. /\ "round_triggered" \in EventTypes(Batch) <=> round_triggered # <<>>
      /\ "round_settled" \in EventTypes(Batch) <=> round_settled # <<>>
  <2>1. /\ "round_triggered" \in EventTypes(Batch)
             <=> (round_imminent /\ ~ prev_round_imminent)
        /\ "round_settled" \in EventTypes(Batch) <=> BaselineMoved
    BY <1>1, BatchTypes
  <2>2. /\ round_triggered # <<>> <=> (round_imminent /\ ~ prev_round_imminent)
        /\ round_settled # <<>> <=> BaselineMoved
    BY DEF round_triggered, round_settled, If
  <2>3. QED
    BY <2>1, <2>2
<1>6. \A i \in DOMAIN Batch : Batch[i].type = "round_triggered" => WindowStart = tick_now
  BY <1>5 DEF EventTypes, WindowStart
<1>7. \A i \in DOMAIN Batch :
        Batch[i].type = "round_settled" => Batch[i].round_duration_secs = Duration
  <2>1. Batch \in Seq(Timed)
    BY <1>1, BatchTimed
  <2>2. \A i \in DOMAIN Batch : Batch[i] \in Timed
    BY <2>1
  <2>3. RoundDuration = Duration
    BY <1>2 DEF RoundDuration, Duration
  <2>4. QED
    BY <2>2, <2>3 DEF Timed
<1>8. "round_triggered" \notin EventTypes(Batch) =>
        WindowStart = IF "round_settled" \in EventTypes(Batch) THEN None ELSE heard
  BY <1>2, <1>5 DEF WindowStart, AfterSettlement
<1>9. Duration' = Duration /\ EventTypes(outbound)' = EventTypes(Batch)
  BY <1>1 DEF Duration, EventTypes
<1>10. QED
  BY <1>1, <1>3, <1>4, <1>6, <1>7, <1>8, <1>9 DEF HeardInv, SettlementsAhead

LEMMA HeardSend ==
  ASSUME Inv, HeardInv, SendEvent
  PROVE  HeardInv'
<1> DEFINE first == Head(outbound)
<1>1. /\ outbound \in Seq(Event) /\ outbound # <<>>
      /\ outbound' = Tail(outbound)
      /\ UNCHANGED round_imminent_since
      /\ Len(outbound) # 1 => UNCHANGED tick_now
      /\ heard' = CASE first.type = "round_triggered" -> first.ts
                    [] first.type = "round_settled"   -> None
                    [] OTHER                          -> heard
  BY DEF SendEvent, Inv, TypeOK, LoopInv, edgeVars
<1>2. /\ first = outbound[1] /\ 1 \in DOMAIN outbound
      /\ \A i \in DOMAIN outbound' :
           i + 1 \in DOMAIN outbound /\ 1 < i + 1 /\ outbound'[i] = outbound[i + 1]
      /\ \A i, j \in DOMAIN outbound' : i < j => i + 1 < j + 1
  BY <1>1
<1>3. \A i \in DOMAIN outbound' : UNCHANGED tick_now
  <2>1. Len(outbound) = 1 => DOMAIN outbound' = {}
    BY <1>1
  <2>2. QED
    BY <1>1, <2>1
<1>4. EventTypes(outbound) = {first.type} \cup EventTypes(outbound')
  BY <1>1, EventTypesTail
<1>5. SettlementsAhead(outbound')
  BY <1>2 DEF HeardInv, SettlementsAhead
<1>6. \A i \in DOMAIN outbound' : outbound'[i].ts = tick_now'
  BY <1>2, <1>3 DEF HeardInv
<1>7. \A i \in DOMAIN outbound' :
        outbound'[i].type = "round_triggered" => round_imminent_since' = tick_now'
  BY <1>1, <1>2, <1>3 DEF HeardInv
<1>8. first.type # "tick" => "round_settled" \notin EventTypes(outbound')
  BY <1>2 DEF HeardInv, SettlementsAhead, EventTypes
<1>9. first.type = "tick" => UNCHANGED heard
  BY <1>1
<1>10. ASSUME NEW i \in DOMAIN outbound', outbound'[i].type = "round_settled"
       PROVE  outbound'[i].round_duration_secs = Duration'
  <2>1. first.type = "tick"
    BY <1>8, <1>10 DEF EventTypes
  <2>2. Duration' = Duration
    BY <1>3, <1>9, <1>10, <2>1 DEF Duration
  <2>3. QED
    BY <1>2, <1>10, <2>2 DEF HeardInv
<1>11. ASSUME "round_triggered" \notin EventTypes(outbound')
       PROVE  round_imminent_since' =
                IF "round_settled" \in EventTypes(outbound') THEN None ELSE heard'
  <2>1. CASE first.type = "round_triggered"
    <3>1. heard' = first.ts /\ round_imminent_since = first.ts
      BY <1>1, <1>2, <2>1 DEF HeardInv
    <3>2. QED
      BY <1>1, <1>8, <2>1, <3>1
  <2>2. CASE first.type = "round_settled"
    <3>1. heard' = None
      BY <1>1, <2>2
    <3>2. round_imminent_since = None
      BY <1>4, <1>11, <2>2 DEF HeardInv
    <3>3. QED
      BY <1>1, <3>1, <3>2
  <2>3. CASE first.type # "round_triggered" /\ first.type # "round_settled"
    <3>1. UNCHANGED heard
      BY <1>1, <2>3
    <3>2. QED
      BY <1>1, <1>4, <1>11, <2>3, <3>1 DEF HeardInv
  <2>4. QED
    BY <2>1, <2>2, <2>3
<1>12. EventTypes(outbound)' = EventTypes(outbound')
  BY DEF EventTypes
<1>13. QED
  BY <1>5, <1>6, <1>7, <1>10, <1>11, <1>12 DEF HeardInv, SettlementsAhead

LEMMA HeardStep ==
  ASSUME Inv, HeardInv, [Next]_vars
  PROVE  HeardInv'
<1>1. CASE TickStart
  <2>1. outbound = <<>> /\ UNCHANGED <<outbound, heard, round_imminent_since>>
    BY <1>1 DEF TickStart, Inv, LoopInv, edgeVars
  <2>2. DOMAIN outbound = {}
    BY <2>1
  <2>3. QED
    BY <2>1, <2>2 DEF HeardInv, SettlementsAhead, EventTypes
<1>2. CASE UNCHANGED <<outbound, heard, round_imminent_since, tick_now>>
  BY <1>2 DEF HeardInv, SettlementsAhead, EventTypes, Duration
<1>3. TickStart \/ TickCommit \/ SendEvent
        \/ UNCHANGED <<outbound, heard, round_imminent_since, tick_now>>
  BY DEF Next, Loop, Feed, Elapse, FeedQuote, FeedSend, PollBaseline, RecvPrice,
         vars, loopVars, edgeVars
<1>4. QED
  BY <1>1, <1>2, <1>3, HeardCommit, HeardSend

(* Whatever falls between a trigger and its settlement, the duration sent    *)
(* with the settlement counts from the last trigger a subscriber has heard, *)
(* and the loop and the subscriber agree on the open window between batches.*)
THEOREM DurationsFollowTriggers == Spec => []SettlementTimesLastTrigger
<1>1. Init => HeardInv
  <2> SUFFICES ASSUME Init PROVE HeardInv
    OBVIOUS
  <2>1. DOMAIN outbound = {} /\ heard = None /\ round_imminent_since = None
    BY DEF Init
  <2>2. QED
    BY <2>1 DEF HeardInv, SettlementsAhead, EventTypes
<1>2. Inv /\ HeardInv /\ [Next]_vars => HeardInv'
  BY HeardStep
<1>3. Inv /\ HeardInv => SettlementTimesLastTrigger
  <2> SUFFICES ASSUME Inv, HeardInv PROVE SettlementTimesLastTrigger
    OBVIOUS
  <2>1. agg_pc # "send" => round_imminent_since = heard
    <3>1. agg_pc # "send" => EventTypes(outbound) = {}
      BY DEF Inv, LoopInv, EventTypes
    <3>2. QED
      BY <3>1 DEF HeardInv
  <2>2. QED
    BY <2>1 DEF HeardInv, Duration, SettlementTimesLastTrigger
<1>4. QED
  BY <1>1, <1>2, <1>3, Invariance, PTL DEF Spec

-----------------------------------------------------------------------------
(* The refinement of EventStream                                            *)

(* The kinds of the events of a sequence, and the published conditions: the  *)
(* two functions the refinement maps to.                                    *)
Kinds(events) == [i \in 1 .. Len(events) |-> events[i].type]

Holds == [k \in {"round_triggered", "deviation_approach", "bb_breakout", "pre_trigger_alert"} |->
            PublishedCondition(k)]

LEMMA KindsConcat ==
  ASSUME NEW s \in Seq(Event), NEW t \in Seq(Event)
  PROVE  s \o t \in Seq(Event) /\ Kinds(s \o t) = Kinds(s) \o Kinds(t)
<1>1. /\ s \o t \in Seq(Event)
      /\ Len(s \o t) = Len(s) + Len(t)
      /\ \A i \in 1 .. Len(s) + Len(t) :
           (s \o t)[i] = IF i <= Len(s) THEN s[i] ELSE t[i - Len(s)]
  BY ConcatProperties
<1>2. Len(s) \in Nat /\ Len(t) \in Nat
  BY LenProperties
<1> DEFINE S == {event.type : event \in Event}
<1>3. ASSUME NEW u \in Seq(Event)
      PROVE  Kinds(u) \in Seq(S) /\ Len(Kinds(u)) = Len(u)
  <2>1. \A i \in 1 .. Len(u) : u[i].type \in S
    OBVIOUS
  <2>2. QED
    BY <2>1, LenProperties DEF Kinds
<1> HIDE DEF S
<1>4. /\ Kinds(s) \in Seq(S) /\ Len(Kinds(s)) = Len(s)
      /\ Kinds(t) \in Seq(S) /\ Len(Kinds(t)) = Len(t)
      /\ Kinds(s \o t) \in Seq(S) /\ Len(Kinds(s \o t)) = Len(s) + Len(t)
  BY <1>1, <1>3
<1>5. /\ Kinds(s) \o Kinds(t) \in Seq(S)
      /\ Len(Kinds(s) \o Kinds(t)) = Len(s) + Len(t)
      /\ \A i \in 1 .. Len(s) + Len(t) :
           (Kinds(s) \o Kinds(t))[i] = IF i <= Len(s) THEN Kinds(s)[i] ELSE Kinds(t)[i - Len(s)]
  BY <1>4, ConcatProperties
<1>6. ASSUME NEW i \in 1 .. Len(s) + Len(t)
      PROVE  Kinds(s \o t)[i] = (Kinds(s) \o Kinds(t))[i]
  <2>1. Kinds(s \o t)[i] = (s \o t)[i].type
    BY <1>1 DEF Kinds
  <2>2. CASE i <= Len(s)
    <3>1. i \in 1 .. Len(s)
      BY <1>2, <2>2
    <3>2. Kinds(s)[i] = s[i].type
      BY <3>1 DEF Kinds
    <3>3. QED
      BY <1>1, <1>5, <2>1, <2>2, <3>2
  <2>3. CASE ~ (i <= Len(s))
    <3>1. i - Len(s) \in 1 .. Len(t)
      BY <1>2, <2>3
    <3>2. Kinds(t)[i - Len(s)] = t[i - Len(s)].type
      BY <3>1 DEF Kinds
    <3>3. QED
      BY <1>1, <1>5, <2>1, <2>3, <3>2
  <2>4. QED
    BY <2>2, <2>3
<1>7. QED
  BY <1>1, <1>4, <1>5, <1>6, SeqEqual

LEMMA KindsTail ==
  ASSUME NEW s \in Seq(Event), s # <<>>
  PROVE  Kinds(s) # <<>> /\ Kinds(Tail(s)) = Tail(Kinds(s))
<1>1. /\ Len(s) \in Nat \ {0}
      /\ Len(Tail(s)) = Len(s) - 1
      /\ \A i \in 1 .. Len(s) - 1 : Tail(s)[i] = s[i + 1]
  OBVIOUS
<1>2. Len(Kinds(s)) = Len(s)
  BY <1>1 DEF Kinds
<1>3. QED
  BY <1>1, <1>2 DEF Kinds

(* An event that a condition guards is delivered once or not at all.        *)
LEMMA KindsIf ==
  ASSUME NEW c \in BOOLEAN, NEW e
  PROVE  Kinds(If(c, e)) = Stream!Once(c, e.type)
<1>1. Kinds(<<>>) = <<>> /\ Kinds(<<e>>) = <<e.type>>
  BY DEF Kinds
<1>2. QED
  BY <1>1 DEF If, Stream!Once

(* The kinds of a batch, in the order of EventStream.                       *)
LEMMA BatchKinds ==
  ASSUME Inv, agg_pc = "lock"
  PROVE  Kinds(Batch) =
           <<"tick">>
             \o Stream!Once(BaselineMoved, "round_settled")
             \o Stream!Once(round_imminent /\ ~ prev_round_imminent, "round_triggered")
             \o Stream!Once(dev_approaching /\ ~ prev_deviation_approaching,
                            "deviation_approach")
             \o Stream!Once(bb_dir # None /\ prev_bb_breakout_dir = None, "bb_breakout")
             \o Stream!Once(pre_trigger_result # None /\ ~ prev_pre_trigger,
                            "pre_trigger_alert")
<1> DEFINE b0 == <<[type |-> "tick", ts |-> tick_now, data |-> Snapshot]>>
           b1 == b0 \o round_settled
           b2 == b1 \o round_triggered
           b3 == b2 \o deviation_approach
           b4 == b3 \o bb_breakout
           b5 == b4 \o pre_trigger_alert
<1>1. Batch = b5
  BY DEF Batch
<1>2. Kinds(b0) = <<"tick">>
  BY DEF Kinds
<1>3. Kinds(round_settled) = Stream!Once(BaselineMoved, "round_settled")
  <2>1. BaselineMoved \in BOOLEAN
    BY DEF BaselineMoved
  <2>2. QED
    BY <2>1, KindsIf DEF round_settled
<1>4. Kinds(round_triggered)
        = Stream!Once(round_imminent /\ ~ prev_round_imminent, "round_triggered")
  <2> DEFINE c == round_imminent /\ ~ prev_round_imminent
             e == DeviationAlert("round_triggered")
  <2>1. c \in BOOLEAN /\ e.type = "round_triggered" /\ round_triggered = If(c, e)
    BY DEF round_triggered, DeviationAlert
  <2> HIDE DEF c, e
  <2>2. Kinds(round_triggered) = Stream!Once(c, "round_triggered")
    BY <2>1, KindsIf
  <2>3. QED
    BY <2>2 DEF c
<1>5. Kinds(deviation_approach)
        = Stream!Once(dev_approaching /\ ~ prev_deviation_approaching, "deviation_approach")
  <2> DEFINE c == dev_approaching /\ ~ prev_deviation_approaching
             e == DeviationAlert("deviation_approach")
  <2>1. c \in BOOLEAN /\ e.type = "deviation_approach" /\ deviation_approach = If(c, e)
    BY DEF deviation_approach, DeviationAlert
  <2> HIDE DEF c, e
  <2>2. Kinds(deviation_approach) = Stream!Once(c, "deviation_approach")
    BY <2>1, KindsIf
  <2>3. QED
    BY <2>2 DEF c
<1>6. Kinds(bb_breakout)
        = Stream!Once(bb_dir # None /\ prev_bb_breakout_dir = None, "bb_breakout")
  <2> DEFINE c == bb_dir # None /\ prev_bb_breakout_dir = None
             e == [type |-> "bb_breakout", ts |-> tick_now, direction |-> bb_dir,
                   market_price |-> Market, deviation_pct |-> Deviation,
                   bb_expanding |-> prev_bb_width_pct # None /\ WiderThan(Bands, prev_bb_width_pct)]
  <2>1. c \in BOOLEAN /\ e.type = "bb_breakout" /\ bb_breakout = If(c, e)
    BY DEF bb_breakout
  <2> HIDE DEF c, e
  <2>2. Kinds(bb_breakout) = Stream!Once(c, "bb_breakout")
    BY <2>1, KindsIf
  <2>3. QED
    BY <2>2 DEF c
<1>7. Kinds(pre_trigger_alert)
        = Stream!Once(pre_trigger_result # None /\ ~ prev_pre_trigger, "pre_trigger_alert")
  <2> DEFINE c == pre_trigger_result # None /\ ~ prev_pre_trigger
             e == [type |-> "pre_trigger_alert", ts |-> tick_now,
                   direction |-> pre_trigger_result.direction,
                   market_price |-> Market, chainlink_price |-> chainlink_baseline,
                   deviation_pct |-> Deviation, signals |-> pre_trigger_result.signals]
  <2>1. c \in BOOLEAN /\ e.type = "pre_trigger_alert" /\ pre_trigger_alert = If(c, e)
    BY DEF pre_trigger_alert
  <2> HIDE DEF c, e
  <2>2. Kinds(pre_trigger_alert) = Stream!Once(c, "pre_trigger_alert")
    BY <2>1, KindsIf
  <2>3. QED
    BY <2>2 DEF c
<1>8. b0 \in Seq(Event)
  BY EventsType
<1> HIDE DEF b0
<1>9. b1 \in Seq(Event) /\ Kinds(b1) = Kinds(b0) \o Kinds(round_settled)
  BY <1>8, EventsType, KindsConcat
<1> HIDE DEF b1
<1>10. b2 \in Seq(Event) /\ Kinds(b2) = Kinds(b1) \o Kinds(round_triggered)
  BY <1>9, EventsType, KindsConcat
<1> HIDE DEF b2
<1>11. b3 \in Seq(Event) /\ Kinds(b3) = Kinds(b2) \o Kinds(deviation_approach)
  BY <1>10, EventsType, KindsConcat
<1> HIDE DEF b3
<1>12. b4 \in Seq(Event) /\ Kinds(b4) = Kinds(b3) \o Kinds(bb_breakout)
  BY <1>11, EventsType, KindsConcat
<1> HIDE DEF b4
<1>13. Kinds(b5) = Kinds(b4) \o Kinds(pre_trigger_alert)
  BY <1>12, EventsType, KindsConcat
<1> HIDE DEF b5
<1>14. QED
  BY <1>1, <1>2, <1>3, <1>4, <1>5, <1>6, <1>7, <1>9, <1>10, <1>11, <1>12, <1>13

(* The commit of a tick publishes, with one alert on each rising edge.      *)
LEMMA CommitIsPublish ==
  ASSUME Inv, FlagInv, TickCommit
  PROVE  Stream!Publish
<1>1. Kinds(outbound) = <<>>
  <2>1. outbound = <<>>
    BY DEF TickCommit, Inv, LoopInv
  <2>2. QED
    BY <2>1 DEF Kinds
<1>2. /\ Holds'["round_triggered"] = round_imminent
      /\ Holds'["deviation_approach"] = dev_approaching
      /\ Holds'["bb_breakout"] = (bb_dir # None)
      /\ Holds'["pre_trigger_alert"] = (pre_trigger_result # None)
  BY CommitPublishes DEF Holds
<1>3. /\ Holds["round_triggered"] = prev_round_imminent
      /\ Holds["deviation_approach"] = prev_deviation_approaching
      /\ Holds["bb_breakout"] = (prev_bb_breakout_dir # None)
      /\ Holds["pre_trigger_alert"] = prev_pre_trigger
  BY DEF Holds, FlagInv
<1>4. PublishedBaseline = prev_chainlink_price /\ PublishedBaseline' = chainlink_baseline
  BY CommitPublishes DEF FlagInv
<1>5. Holds' \in [Stream!AlertKinds -> BOOLEAN]
  <2>1. \A k \in Stream!AlertKinds : Holds'[k] \in BOOLEAN
    BY <1>2, DeviationType DEF TickCommit, Stream!AlertKinds
  <2>2. QED
    BY <2>1 DEF Holds, Stream!AlertKinds
<1>6. ~ (round_imminent /\ dev_approaching)
  BY DEF round_imminent, dev_approaching, is_round_imminent, is_deviation_approaching
<1>7. /\ chainlink_baseline \in ChainlinkPrices \cup {None}
      /\ prev_chainlink_price \in ChainlinkPrices \cup {None}
      /\ prev_chainlink_price # None => chainlink_baseline # None
  BY DEF Inv, TypeOK, FlagInv
<1>8. chainlink_baseline = None =>
        ~ (round_imminent \/ dev_approaching \/ pre_trigger_result # None)
  BY DEF round_imminent, dev_approaching, pre_trigger_result, detect_pre_trigger_signals,
         Deviation
<1>9. Stream!Moved <=> BaselineMoved
  <2>1. ASSUME prev_chainlink_price # None
        PROVE  Stream!Distance(prev_chainlink_price, chainlink_baseline)
                 = Abs(chainlink_baseline - prev_chainlink_price)
    <3>1. prev_chainlink_price \in Nat /\ chainlink_baseline \in Nat
      BY <1>7, <2>1, AggregatorAssumption
    <3>2. QED
      BY <3>1 DEF Stream!Distance, Abs
  <2>2. QED
    BY <1>4, <1>7, <2>1 DEF Stream!Moved, BaselineMoved
<1>10. Kinds(outbound)' = Kinds(Batch) /\ agg_pc = "lock"
  BY DEF TickCommit, Kinds
<1>11. Kinds(outbound)' =
         <<"tick">>
           \o Stream!Once(Stream!Moved, "round_settled")
           \o Stream!Once(Holds'["round_triggered"] /\ ~ Holds["round_triggered"],
                          "round_triggered")
           \o Stream!Once(Holds'["deviation_approach"] /\ ~ Holds["deviation_approach"],
                          "deviation_approach")
           \o Stream!Once(Holds'["bb_breakout"] /\ ~ Holds["bb_breakout"], "bb_breakout")
           \o Stream!Once(Holds'["pre_trigger_alert"] /\ ~ Holds["pre_trigger_alert"],
                          "pre_trigger_alert")
  BY <1>2, <1>3, <1>9, <1>10, BatchKinds DEF Stream!Once
<1>12. QED
  BY <1>1, <1>2, <1>4, <1>5, <1>6, <1>7, <1>8, <1>11
     DEF Stream!Publish, Stream!Rising, Holds, Kinds

LEMMA StreamStep ==
  ASSUME Inv, FlagInv, [Next]_vars
  PROVE  [Stream!Next]_(Stream!streamVars)
<1>1. CASE TickCommit
  BY <1>1, CommitIsPublish DEF Stream!Next
<1>2. CASE SendEvent
  <2>1. /\ outbound \in Seq(Event) /\ outbound # <<>>
        /\ outbound' = Tail(outbound)
        /\ UNCHANGED publishedVars
    BY <1>2 DEF SendEvent, Inv, TypeOK, LoopInv
  <2>2. Kinds(outbound) # <<>> /\ Kinds(outbound') = Tail(Kinds(outbound))
    BY <2>1, KindsTail
  <2>3. UNCHANGED <<Holds, PublishedBaseline>>
    BY <2>1 DEF publishedVars, Holds, PublishedCondition, PublishedBaseline
  <2>4. Stream!Deliver
    BY <2>2, <2>3 DEF Stream!Deliver, Kinds, Holds
  <2>5. QED
    BY <2>4 DEF Stream!Next
<1>3. CASE UNCHANGED <<publishedVars, outbound>>
  BY <1>3 DEF publishedVars, PublishedCondition, PublishedBaseline, Stream!streamVars
<1>4. TickCommit \/ SendEvent \/ UNCHANGED <<publishedVars, outbound>>
  BY DEF Next, Loop, Feed, Elapse, FeedQuote, FeedSend, PollBaseline, RecvPrice,
         TickStart, vars, loopVars
<1>5. QED
  BY <1>1, <1>2, <1>3, <1>4

(* The loop implements the event stream: whatever quotes, polls and waits    *)
(* fall between, an alert is sent exactly on the rising edge of its published*)
(* condition, a settlement exactly when the published baseline moved, all    *)
(* after the tick they belong to, in the order of mod.rs, and before the    *)
(* next tick.                                                               *)
THEOREM LoopImplementsStream == Spec => ImplementsEventStream
<1>1. Init => Stream!Init
  <2> SUFFICES ASSUME Init PROVE Stream!Init
    OBVIOUS
  <2>1. current_price = None /\ Len(outbound) = 0
    BY DEF Init
  <2>2. QED
    BY <2>1 DEF Stream!Init, Stream!AlertKinds, PublishedCondition, PublishedBaseline
<1>2. QED
  BY <1>1, StreamStep, Invariance, FlagInvariance, PTL
     DEF Spec, ImplementsEventStream, Stream!Spec

=============================================================================
