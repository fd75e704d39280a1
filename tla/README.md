# OracleProxy in TLA+

OracleProxy watches BTC/USD on three exchanges, compares their median with the
last Chainlink price committed on Polygon, and tells trading bots over a
WebSocket when a new Chainlink round is likely, has been triggered or has
settled. This directory models the program in TLA+, model-checks it with TLC on
small instances and proves part of it with TLAPS. Paths like `mod.rs` below are
under `src/src/`.

## 1. Inventory of the system

One tokio process. Tasks share an `Arc<RwLock<AppState>>`, an mpsc channel of
quotes and a broadcast channel of events.

| Component | State | Operations | Talks to |
|---|---|---|---|
| Aggregation loop, `aggregator/mod.rs` | the last quote per exchange; the event list of the tick in hand; most of `AppState` | `select!` over a quote or a 500 ms tick; a tick filters fresh quotes, waits for the write lock, publishes, detects events, drops the lock, broadcasts | mpsc (in), `AppState`, broadcast (out) |
| Calculator, `aggregator/calculator.rs` | none | median, deviation, zones, breakout direction, signal detection | called by the loop |
| Indicators, `indicators/` | none | Bollinger bands, ROC, RSI; EMA, MACD | called by the loop |
| Chainlink poller, `aggregator/chainlink.rs` | none of its own | every 5 s one RPC call, decode, overwrite the baseline | `AppState` |
| Exchange clients, `aggregator/exchange_client.rs` | the backoff | connect, subscribe, read, stamp, `send().await`; reconnect with backoff | mpsc |
| Shared state, `models.rs` | `AppState` | constructor only | everyone |
| WebSocket server, `ws_server/mod.rs`, `handler.rs` | the client counter; per connection a socket and a receiver | accept, handshake, snapshot under the read lock, then `select!` over events and inbound messages | `AppState`, broadcast |
| Broadcast, `ws_server/broadcast.rs` | a ring of 1024 events, one cursor per receiver | send never waits, receivers may lag | loop, server |
| Lifecycle, `main.rs` | three tasks | spawn, end with the first that ends | everyone |
| Terminal UI, `tui/mod.rs` | the terminal mode | read a snapshot, draw, quit key, restore the terminal | `AppState`, counters, log |
| Log buffer, `tui/log_layer.rs` | a ring of 200 lines | push, trim | terminal UI |
| Price store, `store/` | two containers | store, latest, add, clear | unused |
| HTTP API, monitoring | none | stubs that are not started | - |
| Configuration, errors | constants, an enumeration | - | - |

What is hard about it:

* A tick is not atomic. `now`, the fresh quotes and the median are fixed before
  the write lock is awaited; the baseline is read after; the events go out after
  the lock is dropped. The poller writes in every gap.
* Five edge detectors keep a flag from the previous *published* tick. Ticks
  without a fresh quote skip them all, and the baseline they are measured
  against can move at any time, also there and back.
* `round_imminent_since` is cleared by one event and set by another that may
  occur in the same tick.
* Freshness, bands and zones have boundaries that decide between events.
* A new connection subscribes, shakes hands, and takes its snapshot, in that
  order, with ticks in between; the snapshot is sent while the read guard is held.
* A slow client lags behind a ring that forgets.
* A connection ends on several paths, each of which must keep a shared counter right.
* Exchange connections break between any two awaits; the backoff remembers
  errors across sessions that worked in between.
* A baseline crosses a gateway whose nodes lag each in its own time, a request
  that fails, a decoder that truncates and a lock before it overwrites whatever
  baseline is there.
* Loop, poller, connections and screen queue for one fair lock; the loop takes
  it three times per round, and the quit key is read behind it.
* The process ends with the first task that ends, whatever the others are doing.

What makes each component correct is what its properties in section 4 say; the
full list of hazards, each at its line, is in `PROJECT.json`.

## 2. Modules

| Module | Stands for |
|---|---|
| `Indicators` | `indicators/`: pure operators on a history |
| `Calculator` | `calculator.rs`: pure operators (extends `Indicators`) |
| `Statistics` | drives both over all lists of prices |
| `EventStream` | the abstract promise to subscribers: alerts on rising edges only, one settlement per published move of the baseline, tick first, order fixed |
| `QuoteFeed` | the abstract promise to the loop: a client keeps its quote until the channel has room, the channel is first in, first out |
| `Aggregator` | `aggregator/mod.rs` with the feeds and the poller (extends `Calculator`); refines `EventStream` and `QuoteFeed` |
| `ExchangeClients` | `aggregator/exchange_client.rs`; refines `QuoteFeed` |
| `ChainlinkPoller` | `aggregator/chainlink.rs` |
| `WsServer` | `ws_server/`: lock, ring and connections, with the loop reduced to publish and send |
| `OracleProxy` | `main.rs` and `tui/mod.rs`: all tasks around the one RwLock and the terminal |
| `MCAggregator`, `MCWsServer`, `MCChainlinkPoller` | the constraints, symmetry and values of the runs |
| `*Proofs` | theorems: `Calculator` (with the sums of `Indicators`), `Statistics`, `Aggregator`, `Loop` (what flows in and out of `Aggregator`), `WsServer`, `Clients`, `Poller`, `Proxy` |

How they fit: `ExchangeClients` shows that the real clients implement
`QuoteFeed`, and `Aggregator`, whose own feeds only stamp and send, implements
the same `QuoteFeed`: no state of a connection reaches the loop except through
it. `ChainlinkPoller` shows what `Aggregator!PollBaseline` may write.
`OracleProxy` composes the tasks with what the others abstract from, the queue
of the lock and the end of the process, and reduces the data to the number of
the Chainlink round.

### How Aggregator corresponds to the code

| Action | Code |
|---|---|
| `FeedQuote(e)`, `FeedSend(e)` | a client stamps a ticker message; its `send().await` on the channel finishes |
| `PollBaseline` | the poller's write. A failed request, an RPC error or an answer that does not decode changes nothing and is a stuttering step |
| `RecvPrice` | the `recv` arm |
| `TickStart` | the tick arm up to `state.write().await`. A tick without a fresh quote (`continue`) is a stuttering step |
| `TickCommit` | the write-lock section, whole: publishing, the five detections, the flags |
| `SendEvent` | one `event_tx.send` |
| `Elapse` | time |

Variables carry the names of the code; `tick_now`, `price_buffer` and `outbound`
are the loop's locals, and `heard` is a history variable: when the round in hand
began, as a subscriber who hears every event knows it. An event carries its
time, the snapshot of a tick, and of an alert the market price, the baseline,
the deviation or the direction it was raised for. `agg_pc` says which await the
loop is at. `outbound` is filled in the order of the code: tick,
`round_settled`, `round_triggered`, `deviation_approach`, `bb_breakout`,
`pre_trigger_alert`. The recomputation `TickCommit` makes of the fresh set from
`tick_now` is the set the code computed before it waited: the loop is the only
writer of `price_buffer` and does nothing else meanwhile.

### How WsServer corresponds to the code

`conn[c]` is the connection task of client `c` with its receiver and its socket;
`pc` names the await it is at. `Accept` subscribes (mod.rs:45) before the task
starts. `TakeSnapshot` obtains the read guard, `SnapshotSent` and
`SnapshotFails` release it. `ReceiveEvent`, `ReceiveLagged`, `ReceivePing` and
`ReceiveClose` are the arms of the `select!`; `EventSent`, `EventFails` and
`PongSent` the sends inside them; `Leave` the end of the function. The ring is
the last `BroadcastCapacity` entries of `log`. The RwLock is tokio's, which is
fair: a reader queues behind a waiting writer. The other users of the lock, the
poller and the terminal UI, hold it without awaiting anything and are left out.
A peer may read, ping, close or
do nothing at all.

### How ExchangeClients corresponds to the code

`pc[e]` is the await client `e` is at. `Connect`, `Subscribe` (Coinbase and
Kraken only), `ReadQuote`, `QuoteSent`, `ReadPing` and `PongSent` are the awaits
of `connect`, each with its failure; `Fail` is the `Err` arm of `run` up to the
sleep, `Wake` what follows the sleep, `ReadEnd` a close frame or the end of the
stream with the `Ok` arm. `RecvPrice` is the loop's `recv` arm with the status
it writes. Messages that are skipped are stuttering steps. `errors` is a history
variable. `QuoteSent` does not fail: the receiver lives as long as the loop.

### How ChainlinkPoller corresponds to the code

`Tick`, `NodeAnswers`, `Receive`, `FetchFails` and `Write` cut `run` and `fetch`
at their awaits; `decode_latest_round_data` keeps what the code does to the
number: modulo 2^64 (`LowBytes`), then the range check. The seven errors of
`fetch` have one action, since each is logged and nothing else. `CommitRound`
is the contract. The default endpoint is a public gateway (config.rs:50):
`view` is how many rounds every node behind it knows (`SyncNode`), and
`NodeAnswers` may answer any round from there on, an older one after a newer one
included. `Write` overwrites without a comparison, as chainlink.rs:60 does.
`asked`, a history variable, is `view` when the request was sent.
`OtherTakesLock` and `OtherDropsLock` are the other tasks.

Answers are any integers. The decoder reads 8 of their 32 bytes, so one that is
far below 0 or needs more than 8 bytes may pass the range check as a price that
was never committed; `Plausible` names the range in which that cannot happen and
`BaselineIsCommitted` says what holds in it and what holds outside. Timestamps
are block times, small enough for chrono: the fallback to `Utc::now()` in
chainlink.rs:129 is never taken and is left out.

### How OracleProxy corresponds to the code

`holders`, `exclusive` and `queue` are the tokio RwLock: `Request` and `Release`
grant from the head of the queue, readers up to the next writer. The loop uses
it in the `recv` arm (`RecvPrice`, `QuoteKept`), for a tick (`TickStart`,
`TickCommit`) and for the status line (`SendEvents`, `StatusRead`); the poller
for its write; a connection for its snapshot, held until the send comes back
(`Connect`, `SnapshotSent`; the rest of a connection does without the lock); the
screen for `Snapshot::from_state` (`TuiTick`, `TuiDraw`). As in
`ChainlinkPoller`, `Fetch` may bring any round from `synced` on, the rounds
every node knows. `TuiStartFails`, `TuiDrawFails` and `Restore` are the paths
through `run_tui` with every `?` on them. `MainReturns` is the `select!` of
`main`, with which the runtime drops the other tasks where they are; it may be
late, and the others go on until then. The arm for the aggregation task
(main.rs:92) has no disjunct: the clients hold the senders of its channel and
never return, so only a panic ends the loop.

### Abstractions

* Prices are positive integers and market prices are doubled, so the median of
  an even number of feeds is exact. Percentages, bands and RSI are compared as
  exact fractions; f64 rounding, NaN and infinities are outside the model.
* Timers are not modelled: the interval is due at any moment. The clock never
  steps back (`Utc::now()` could); hence the `max(0)` of a duration has no effect.
* Event payloads are kept as far as a property tells them apart. The indicators
  no event reads (EMA, MACD, volatility, ROC-20) are not part of `Aggregator`'s
  tick; EMA and MACD are operators of `Indicators`.
* The constants that would need large instances are parameters: `Scale` (10000
  in the code), the indicator periods (20, 14, 10), `BbMultiplier` (2), the
  capacities (1000, 1000, 1024), `FreshSecs` (30), `SettleTolerance` (0.001).
* Tasks do not panic. JSON, hexadecimal digits and serialisation are left out: a
  message is the price or the round it carries.
* A broken connection reports an error, and an RPC request comes back at last:
  the code sets no timeout on either, so nothing could be promised otherwise.

## 3. Plan

Modelled, in the order of their weight: the loop and what subscribers are
promised; the server; the calculator and the indicators; the clients, the poller
and the whole process. The order in which they were proved is the same.

What could still be added: a bound on the age of a baseline or on the silence of
a peer, if the code ever states one.

## 4. What the runs check

| Run | Question | Instance |
|---|---|---|
| `signals` | Does the loop implement `EventStream` (`ImplementsEventStream`)? Does a batch describe the snapshot that is published while it is sent, with its prices, its direction and the zone its alert stands for (`BatchDescribesSnapshot`)? Is `bb_expanding` what it claims (`ExpandingMeansWider`)? Types and history (`TypeOK`, `HistoryEndsWithMarket`) | one feed, prices -1 %, 6 %, 8 %, 10 % off the baseline, two baselines, three prices of history |
| `rounds` | Is the duration of a settlement counted from the last trigger a subscriber has heard since the settlement before (`SettlementTimesLastTrigger`)? Is a baseline published (`BaselineEventuallyPublished`)? Does the loop implement `QuoteFeed` (`ImplementsQuoteFeed`), take every quote (`QuoteEventuallyConsumed`) and never an older one (`FeedNeverGoesBack`)? | three baselines around the tolerance, prices inside and outside the trigger zone, a channel of two, two clock values |
| `votes` | Who votes in the published median (`OnlyFreshFeedsVote`), and can one feed move it alone (`OneBadFeedOutvoted`)? | three feeds, two prices, half-second stamps |
| `statistics` | Is the median by rank the middle of the sorted prices (`MedianIsSortedMiddle`), and monotone (`MedianIsMonotone`)? Is the loop of `ema` its weighted mean (`EmaIsWeightedMean`)? Does MACD rise with the market (`MacdFollowsTrend`)? Is RSI symmetric but for a flat window (`RsiMirrors`)? | all lists of up to five of five prices, all periods that fit |
| `ws_delivery` | Is the counter right on every path (`ClientCount`)? Order, no repetition (`OrderedDelivery`), no unreported gap (`NoSilentGap`), and nobody who is caught up misses the current tick (`CaughtUpKnowsCurrent`)? | two clients, two ticks with or without an alert, a ring of two, sockets that hold one message |
| `ws_progress` | Can a peer that does not read block the aggregator (`AggregatorNotBlocked`)? Does a reader get past every event (`ReaderCatchesUp`)? | one client that connects twice, three ticks, a ring of two |
| `clients` | Do clients with outages, pings and clean ends implement `QuoteFeed` (`ImplementsQuoteFeed`)? Does the pause depend only on the errors since the last clean end (`PauseGrowsWithErrors`)? Do they come back (`RecoversFromOutage`), and is a ping answered or the connection given up (`PingEventuallySettled`)? | one client that subscribes and one that does not, a channel of one, pauses up to 3 |
| `poller` | Is a baseline a committed round and, within `Plausible`, its answer (`BaselineIsCommitted`)? Is it, after a poll, at least as new as what every node knew when the request went out (`PollRefreshesBaseline`)? Does it reach the round the contract rests on (`BaselineCatchesUp`)? Types: a baseline is never 0 (`TypeOK`) | three rounds, seven answers, words of 16 values, nodes that lag each in its own time |
| `proxy` | Is every guard dropped where the code drops it (`NoGuardLeaks`)? Does everyone who asks get the lock (`LockServesAll`)? Does a round reach the screen, whatever older rounds are written in between (`RoundReachesScreen`)? Does the quit key end the process (`QuitObeyed`) with the terminal as it was (`TerminalLostOnlyByFailure`)? | one client, two rounds, nodes that lag, bind and terminal may fail |

`ExpandingMeansWider` relates the flag of a breakout to two consecutive published
widths; a reader should know that the event itself does not require it (below).

Three more runs state a sentence of the documentation that the code does not
keep; TLC finds each violated.

| Run | Sentence | What happens |
|---|---|---|
| `doc_first_trigger` | models.rs:117: when `round_imminent` *first* became true, reset by RoundSettled | a second rising edge before a settlement moves the start; that the durations then count from the *last* trigger is `SettlementTimesLastTrigger` |
| `doc_status` | models.rs:152: "Connection health for a single exchange", with the field `connected`; models.rs:284: "Exchange feed connect/disconnect." | `connected` is only ever written as true, and the event is never sent: an exchange that is gone keeps its status |
| `doc_terminal` | tui/mod.rs:128: "Always restore the terminal, even on error" | the server fails to bind, `main` returns before the screen is told to stop, and a terminal in raw mode stays so. In TLC's shortest trace the bind fails first, raw mode is switched on while `main` is about to return |

Seen while modelling, without a run of their own:

* models.rs:264 says a settlement closes the opportunity window; the market may
  still be beyond the threshold of the new baseline, the tick is then imminent,
  no trigger is announced and no window is open.
* README.md:33 of the repository gives `deviation_approach` as the rising edge of
  a deviation of 0.07 %, models.rs:207 calls it an early warning. The code leaves
  the zone again at 0.10 % (calculator.rs:53): a jump over it is not announced, and
  the way back from the trigger zone is.
* chainlink.rs:4 and models.rs:112 speak of the *last* committed price. The poller
  never compares `updated_at` (chainlink.rs:60): a node that is behind puts an
  older round back, the next tick may announce that move as a settlement, and the
  published tick may carry a newer round than the baseline. What the code does
  promise is `PollRefreshesBaseline`.
* `EventStream` states what the code does, also where a reader may expect more: a
  baseline that moves there and back between two ticks is not announced, one that
  creeps by no more than the tolerance per tick is never settled, a round that
  stays imminent across a settlement is not triggered again, and an edge has no
  direction.
* models.rs:217 promises breakouts while the bands are expanding; any exit from
  the bands is announced, with `bb_expanding` false.
* ws_server/mod.rs:3 promises a snapshot and then every *subsequent* event;
  events of earlier ticks may follow it, since the subscription is older.
* The "last 30 seconds" of mod.rs:102 is just under 31, because `num_seconds`
  truncates (`OnlyFreshFeedsVote` states the limit as it is).
* calculator.rs:89 documents `deviation_approach` from 0.05 % where line 120 uses
  0.07 %; calculator.rs:91 documents RSI 70/30 where lines 134-135 use 65/35.
* composite.rs:7 calls the signal "EMA9(MACD)"; it is the line itself, so the
  histogram is always 0 (line 15 says so). The test at composite.rs:26 expects a
  MACD from 20 prices with a slow period of 26, where `ema` returns `None`.

### Bounds, and why they are enough

* `MaxClock`: freshness and window durations compare two stamps, so a clock
  with values on both sides of a limit shows both outcomes. `votes` uses two
  units a second, so that the truncation of `num_seconds` matters. `signals`
  stops the clock at 0: none of its properties depends on how much time passed.
* `Prices`, `ChainlinkPrices`: one price in every zone of the deviation and one
  exactly on the trigger, from above and below; `rounds` has baselines that
  differ by exactly the tolerance and by more, and a channel that a feed can fill
  and wait for.
* Histories of three prices with bands over three: bands appear, the history
  overflows and the window slides. With three prices none can be two standard
  deviations off, hence `BbMultiplier = 1`.
* `QuietFeeds` (runs `signals`, `votes`, `doc_first_trigger`) keeps at most one
  quote on its way and none during a tick: the loop reads neither feed nor
  channel there. Runs with liveness use no constraint.
* A ring of two against up to four (`ws_delivery`) or six events makes receivers
  lag, more than once in `ws_progress`; sockets of one message make every send wait.
* `OnePing` (run `ws_delivery`): at most one client has a ping to be answered.
  Pings are answered per connection and touch nothing shared.
* `ws_delivery` and `ws_progress` switch deadlock checking off: when all ticks are
  published and all connections used up, only the bounds stop the system.
  All other runs check for deadlock; `Exited` lets the process of `proxy` stop.
* `clients`: `MaxBackoff = 3` is, like 60, no power of two, so the doubling is cut
  off and does not just stop; two clients share a channel of one place, so that
  a client waits with a quote while the other, or a ping, is due.
* `poller`: 16 in place of 2^64, 9 in place of the largest price; the answers are
  two prices, the first that is too large, zero, -1 and -6 at the ends of what
  `Plausible` allows below 0, and 21, which does not fit the bytes and decodes to a
  price. Three rounds let a late answer meet a baseline with a newer and an older
  round around it.
* `proxy`: with two rounds one can be on the screen while the next is on its way,
  and the older one can come back; with one client every kind of task is in the
  queue, three readers and two writers at most. `doc_terminal` needs no round.
* `statistics`: five prices let every period below five see a seed and later
  prices; even and odd lists, ties included, for the median.
* `SYMMETRY` is used only for identical feeds and clients, never with liveness.

### Fairness

`Aggregator!Fairness`: strong fairness of each `select!` arm, because tokio
polls the arms in random order; weak fairness of the loop's own steps; strong
fairness of each `FeedSend`, because tokio's bounded channel serves waiting
senders in turn. None for exchanges, the chain or time.
`WsServer!Fairness`: the same for a connection's arms; strong for
`TakeSnapshot`, because the RwLock serves its queue in order. None for peers:
`AggregatorNotBlocked` holds although a peer may never read, because the
snapshot is the first message of its socket and fits its buffer
(`SocketCapacity >= 1`; a snapshot larger than the kernel's buffer would break
that assumption). `ReaderCatchesUp` assumes that the peer reads again and again.

`ExchangeClients!Fairness`: sleeps end, an attempt, a write and a read on a
broken connection come back, the loop receives; strong for `QuoteSent` (the
channel serves waiting senders in turn) and `ReadPing` (messages arrive in
order, so a ping is reached after the quotes before it). None for exchanges:
they need not be reachable, quote or ping. `ChainlinkPoller!Fairness`: the
interval ticks and every node learns of new rounds at last; strong for `Write`
(the lock's queue is fair) and for `NodeAnswers` and `Receive`: requests may
fail as often as they like, but not all of them. Which node answers is left
open. `OracleProxy!Fairness`: every task that can go on does while the process
lives, and nodes learn of rounds (`SyncNodes`). The lock needs no fairness
assumption, its queue is in the model. None for quotes, the user, the chain or
peers: `RoundReachesScreen` speaks of processes whose ticks go on finding a
fresh quote (that the loop's `select!` starves neither arm is shown in
`rounds`). The send of a snapshot comes back, as in `WsServer`.

## 5. What is proved

All proofs hold for every set of exchanges, prices, capacity, clock bound and
threshold that satisfies the named assumptions (`PeriodsAssumption`,
`ScaleAssumption`, `AggregatorAssumption`, `ServerAssumption`,
`ClientsAssumption`, `PollerAssumption`, `ProxyAssumption`,
`StatisticsAssumption`; `PublishedAssumption`: `None` is not a snapshot).

`CalculatorProofs`. `RankExists`: every nonempty finite table of naturals has an
element of each rank, by taking the least value with more than k entries at or
below it. Hence `OrderStatistic`, a CHOOSE, picks one (`OrderStatisticRank`),
the median is a natural (`MedianIsNatural`), and with three voters it lies
between two of the prices of any two of them (`OneOfThreeOutvoted`): otherwise
too many or too few entries would lie below it.
`SumCounts`: the sum of a finite table of naturals, a fold of the community
modules, is the number of cells below its entries. A fold is a CHOOSE among the
functions that satisfy its recursion; counting cells satisfies it (`CountsAddUp`),
and two functions that do cannot differ, since they would already differ on a
smaller part than the smallest one they differ on (`AddingUpIsUnique`). It types
the bands (`BandsType`): the sum of squares under the root is never negative.

`StatisticsProofs`, about lists of any length. `RisingFeedNeverLowers`
(`MedianIsMonotone`): when no entry falls, no rank falls. `RanksAreSorting`
(`MedianIsSortedMiddle`): the entry at place k of any ascending order is the one
of rank k (`SortedRank`), and an ascending order exists (`SortingExists`), also by
a least counterexample. So the model's ranks are what the code gets by sorting.
`RsiHasNoBias` (`RsiMirrors`): in the mirror image the table of gains is the
table of losses, and both sums are naturals.

The loop of `ema` is a recursive function, for the provers a CHOOSE: `RunExists`
builds a function that satisfies its recursion, so the chosen one does
(`EmaRun`). An induction over the prices of a history is `Spreads`: a *set* that
holds the first place of an interval, and with each place the next, holds all of
it; being about a set and not a predicate, it can be cited. Powers, of which the
provers know nothing, are the model's own `Power`, with their laws (`PowerLaws`)
from the same two lemmas.
`EmaLoopIsMean` (`EmaIsWeightedMean`): with a price more the weights of all the
others shrink by the same factor (`WeightLaws`), and so does their sum.
`MacdFollows` (`MacdFollowsTrend`) needs an invariant of the two loops. While the
market rises an average stays at or below the last price (`AverageBelowLast`) and,
once it has seen more than its seed, above the mean of all prices
(`AverageAboveMean`), which is what the slow average starts from; from there a
price above the slow average keeps the fast one ahead (`SmoothLeads`,
`FasterLeads`), which takes more of it.

`AggregatorProofs`. `Inv` is `TypeOK /\ LoopInv`. `TypeOK` alone is not
inductive: that a batch has its types needs a nonempty set of fresh quotes at
`tick_now`, and that the tail of `outbound` is a sequence needs an event to be
left. `LoopInv` says just that: while the loop waits for the lock some quote was
fresh at `tick_now`, and it is sending exactly while events are left.
`Invariance` proves `Inv`, one lemma per action. The theorems on batches rest on
`BatchTypes`, which says exactly which kinds of event a batch holds, and
`VotersAreFresh` on `DivisionBound`, the arithmetic of truncated seconds. From
`Invariance`:

| Theorem | States |
|---|---|
| `TypeCorrect` | `TypeOK` |
| `HistoryFollowsMarket` | `HistoryEndsWithMarket` |
| `OutvotedInEverySnapshot` | `OneBadFeedOutvoted` |
| `VotersAreFresh` | `OnlyFreshFeedsVote` |

`WsServerProofs`. `Inv` is `TypeOK`, `ClientCount` and
`TaskInv`. They need one another: that `ws_clients` is a natural after
`fetch_sub` needs the exact count, and what is written to a socket is typed only
because the event in hand is one of the log. `Uncounted` and `Left` cover the
steps of a task that stay inside or leave the counted stages; the handshake is
the only step that enters them. From `ServerInvariance` follow
`ServerTypeCorrect` (`TypeOK`) and `CounterIsExact` (`ClientCount`).
`DeliveryIsOrdered` (`OrderedDelivery`) adds `SocketInv`: positions on the wire
grow, lie below that of the event in hand, and that below the receiver's next;
without the middle part a send could not be shown to keep the order.
`NothingLeftOut` (`NoSilentGap`) adds `GapInv`: until a lag, the positions on the
wire are all those from the subscription up to the receiver's next, but for the
event in hand. `NoTickFallsBetween`
(`CaughtUpKnowsCurrent`) adds `AwareInv`, which relates a connection to the loop:
what waits in `outbound` carries the published tick and, once it is out, the log
ends with it; and a snapshot that was read is the current tick for as long as
the guard is held, because a commit waits for it.

`LoopProofs`, about `Aggregator`. In: `OrderInv`: along the way of a quote --
buffer, channel from its head, client's hand, clock -- the stamps of a feed are
sorted. Each neighbour is needed: `TakeQuote` moves the head of the channel into
the buffer, `FeedSend` the hand into the channel, `FeedQuote` the clock into the
hand. `FeedsMoveForward` (`FeedNeverGoesBack`) follows; `LoopImplementsFeed`
(`ImplementsQuoteFeed`) maps `FeedQuote`, `FeedSend` and `RecvPrice` to the
actions of `QuoteFeed` and every other action to a stutter.

Out: `BatchFitsSnapshot` (`BatchDescribesSnapshot`):
every event of a batch describes the snapshot of its tick, prices, direction and
zone included, and what is left of a batch still describes the one that is
published, since nothing publishes while the loop is sending. `AlertDeviation` is
its arithmetic: a deviation in a zone lies between the zone's thresholds, on the
side of the baseline that the direction names.

`DurationsFollowTriggers` (`SettlementTimesLastTrigger`): a subscriber hears the
events of a tick late, one by one, while the loop has moved its own
`round_imminent_since` at once. `HeardInv` closes the gap: the settlement and the
trigger still to be sent make up for the difference between the loop's start
of the round and the one that was heard, and only the tick can be pending before
a settlement (`SettlementsAhead`), so what is heard when it is sent is what it was
computed from.

`FlagInv`: each `prev_` field is its condition evaluated on the published state,
`prev_bb_width_pct` the bands of the published history and
`prev_chainlink_price` the published baseline; a poll between two ticks moves
none of them. With it follow `ExpandingComparesHistories`
(`ExpandingMeansWider`) and `LoopImplementsStream` (`ImplementsEventStream`):
the mapping sends `TickCommit` to `Publish`, where the edges of the code, `now
&& !prev`, become the rising edges of the abstract conditions (`BatchKinds`,
`CommitIsPublish`), `SendEvent` to `Deliver`, and every other action to a
stutter.

`ClientsProofs`. `Inv` adds `HandInv`: a client has a quote in hand exactly
while it waits to send it. `ClientsImplementFeed` (`ImplementsQuoteFeed`) needs
it: otherwise an error could take a quote with it, or `ReadQuote` replace one.
`PausesFollowErrors` (`PauseGrowsWithErrors`) adds `PauseInv`, what the backoff
will be once the sleep is over: the property only bounds a pause that is
running, and the doubling comes after it. That `2 ^ (k + 1)` is twice `2 ^ k`
the provers get from the subsets of a set with one more element
(`PowerDoubles`).

`PollerProofs`. `FlowInv`: what is under way, in the reply, the decoded answer or
the baseline, is the decoding of a committed round, and reply and decoded answer
are no older than `asked`; the latter is not true of the baseline, which the next
request may find outdated. With `DecodeExact`, the arithmetic of the truncation,
follow `CommittedBaseline` (`BaselineIsCommitted`) and `PollIsFresh`
(`PollRefreshesBaseline`).

`ProxyProofs`. `GrantKeepsTasks`: a grant hands guards to tasks of the queue and
loses or doubles none. From it the balance of guards (`GuardsBalanced`,
`NoGuardLeaks`); `TerminalSafe` (`TerminalLostOnlyByFailure`) comes from the
same invariant, which ties the terminal's modes to the stage of the screen. The
types (`ProxyTypeCorrect`) are proved only.

Only model-checked: liveness and everything with ENABLED, which TLAPS cannot do
(`QuoteEventuallyConsumed`, `BaselineEventuallyPublished`, `AggregatorNotBlocked`,
`ReaderCatchesUp`, `RecoversFromOutage`, `PingEventuallySettled`,
`BaselineCatchesUp`, `LockServesAll`, `RoundReachesScreen`, `QuitObeyed`). Every
other property of a passing run is a theorem.

## 6. Not modelled

* The layout of the terminal's panels: it reads the snapshot and changes nothing.
* The log ring: one critical section without an await, a push and a trim.
* The price store: compiled, but nothing constructs it.
* HTTP API and monitoring: stubs that are not started.
* Configuration is read once and becomes constants; errors are an enumeration
  whose paths are actions of the modules they occur in.
* Parsing, JSON and formatting; f64 rounding, NaN and infinities.

## 7. Running

    tlc -config Aggregator_signals.cfg MCAggregator.tla
    tlc -config WsServer_delivery.cfg MCWsServer.tla
    tlc -config Statistics.cfg Statistics.tla
    tlc -config ExchangeClients.cfg ExchangeClients.tla
    tlc -config ChainlinkPoller.cfg MCChainlinkPoller.tla
    tlc -config OracleProxy.cfg OracleProxy.tla
    tlapm AggregatorProofs.tla
