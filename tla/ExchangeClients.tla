---------------------------- MODULE ExchangeClients ----------------------------
(***************************************************************************)
(* The exchange clients of src/src/aggregator/exchange_client.rs, from the   *)
(* attempt to connect to the quote in the mpsc channel, and the recv arm of  *)
(* the loop that empties the channel (mod.rs:74-90).                        *)
(*                                                                         *)
(* The three clients are the same code but for the subscription: Binance    *)
(* streams at once, Coinbase and Kraken (Subscribers) send a request first. *)
(* Each runs for ever: `run` calls `connect`, sleeps and doubles the backoff *)
(* after an error, and calls it again at once after a clean end.  An action  *)
(* is what a client does between two awaits.  Sleeps are countdowns that     *)
(* Elapse advances together, so that no clock has to be bounded.             *)
(*                                                                         *)
(* up[e] says whether exchange e can be reached: attempts succeed and the    *)
(* stream goes on while it is TRUE, and fail while it is FALSE.  Messages    *)
(* that are neither ticker, ping nor close are skipped and change nothing.   *)
(***************************************************************************)
EXTENDS Naturals, Sequences

CONSTANTS
  Exchanges,
  Subscribers,      \* the exchanges that want a subscription
  Prices,
  None,
  ChannelCapacity,  \* of the mpsc channel, 1000 in the code
  MaxBackoff        \* MAX_BACKOFF_SECS, 60 in the code

ASSUME ClientsAssumption ==
  /\ Subscribers \subseteq Exchanges
  /\ None \notin Prices
  /\ ChannelCapacity \in Nat \ {0}
  /\ MaxBackoff \in Nat \ {0}

VARIABLES
  up,               \* the exchange can be reached
  pc,               \* the await the client is at
  backoff,          \* the local of `run`
  remaining,        \* seconds left of the sleep
  ping,             \* the exchange waits for a pong
  feed,             \* the price the client waits to send, or None
  channel,          \* the mpsc channel: a sequence of <<exchange, price>>
  exchange_status,  \* AppState: exchange -> `connected`, or None
  price_buffer,     \* local to the loop: exchange -> last price, or None
  errors            \* history: errors since the last clean end, as far as
                    \* they matter (see Pause)

linkVars == <<up, ping>>
retryVars == <<backoff, remaining, errors>>
loopVars == <<exchange_status, price_buffer>>
vars == <<pc, feed, channel, linkVars, retryVars, loopVars>>

Stages == {"connecting", "subscribing", "reading", "sending", "ponging", "sleeping"}

(* A connection exists.                                                     *)
Session == {"subscribing", "reading", "sending", "ponging"}

Init ==
  /\ up = [e \in Exchanges |-> TRUE]
  /\ pc = [e \in Exchanges |-> "connecting"]
  /\ backoff = [e \in Exchanges |-> 1]
  /\ remaining = [e \in Exchanges |-> 0]
  /\ ping = [e \in Exchanges |-> FALSE]
  /\ feed = [e \in Exchanges |-> None]
  /\ channel = <<>>
  /\ exchange_status = [e \in Exchanges |-> None]
  /\ price_buffer = [e \in Exchanges |-> None]
  /\ errors = [e \in Exchanges |-> 0]

Lesser(a, b) == IF a < b THEN a ELSE b

Goto(e, stage) == pc' = [pc EXCEPT ![e] = stage]

-----------------------------------------------------------------------------
(* The environment                                                          *)

(* An outage of exchange e begins or ends.                                  *)
Toggle(e) ==
  /\ up' = [up EXCEPT ![e] = ~ @]
  /\ UNCHANGED <<pc, feed, channel, ping, retryVars, loopVars>>

(* The exchange sends a ping.                                               *)
Ping(e) ==
  /\ pc[e] \in Session
  /\ up[e]
  /\ ~ ping[e]
  /\ ping' = [ping EXCEPT ![e] = TRUE]
  /\ UNCHANGED <<pc, feed, channel, up, retryVars, loopVars>>

(* A second passes for every client that sleeps.                            *)
Elapse ==
  /\ \E e \in Exchanges : remaining[e] > 0
  /\ remaining' = [e \in Exchanges |-> IF remaining[e] > 0 THEN remaining[e] - 1 ELSE 0]
  /\ UNCHANGED <<pc, feed, channel, linkVars, backoff, errors, loopVars>>

-----------------------------------------------------------------------------
(* `connect` returns, `run` reacts                                          *)

(* The pause after the k-th error in a row: 1, 2, 4, ... up to MaxBackoff.  *)
Pause(k) == Lesser(2 ^ k, MaxBackoff)

(* Err(e): sleep(backoff) begins.  The history stops counting where Pause   *)
(* has reached its maximum.                                                 *)
Fail(e) ==
  /\ Goto(e, "sleeping")
  /\ remaining' = [remaining EXCEPT ![e] = backoff[e]]
  /\ errors' = [errors EXCEPT ![e] = IF Pause(@) = MaxBackoff THEN @ ELSE @ + 1]
  /\ ping' = [ping EXCEPT ![e] = FALSE]
  /\ UNCHANGED <<feed, channel, up, backoff, loopVars>>

(* A bug: the doubled backoff is not cut off.                               *)
WakeUncapped(e) ==
  /\ pc[e] = "sleeping"
  /\ remaining[e] = 0
  /\ backoff' = [backoff EXCEPT ![e] = 2 * @]
  /\ Goto(e, "connecting")
  /\ UNCHANGED <<feed, channel, linkVars, remaining, errors, loopVars>>

(* A bug: the client gives up at the longest pause.                         *)
WakeOrGiveUp(e) ==
  /\ pc[e] = "sleeping"
  /\ remaining[e] = 0
  /\ backoff[e] < MaxBackoff
  /\ backoff' = [backoff EXCEPT ![e] = Lesser(2 * @, MaxBackoff)]
  /\ Goto(e, "connecting")
  /\ UNCHANGED <<feed, channel, linkVars, remaining, errors, loopVars>>

(* The sleep is over; the backoff doubles up to its maximum.                *)
Wake(e) ==
  /\ pc[e] = "sleeping"
  /\ remaining[e] = 0
  /\ backoff' = [backoff EXCEPT ![e] = Lesser(2 * @, MaxBackoff)]
  /\ Goto(e, "connecting")
  /\ UNCHANGED <<feed, channel, linkVars, remaining, errors, loopVars>>

(* A bug: the backoff survives a clean end.                                 *)
ReadEndKeepsBackoff(e) ==
  /\ pc[e] = "reading"
  /\ Goto(e, "connecting")
  /\ errors' = [errors EXCEPT ![e] = 0]
  /\ ping' = [ping EXCEPT ![e] = FALSE]
  /\ UNCHANGED <<feed, channel, up, backoff, remaining, loopVars>>

(* Ok(()): a close frame or the end of the stream.  No pause, and only here *)
(* the backoff starts anew.                                                 *)
ReadEnd(e) ==
  /\ pc[e] = "reading"
  /\ Goto(e, "connecting")
  /\ backoff' = [backoff EXCEPT ![e] = 1]
  /\ errors' = [errors EXCEPT ![e] = 0]
  /\ ping' = [ping EXCEPT ![e] = FALSE]
  /\ UNCHANGED <<feed, channel, up, remaining, loopVars>>

-----------------------------------------------------------------------------
(* `connect`                                                                *)

(* connect_async succeeds.                                                  *)
Connect(e) ==
  /\ pc[e] = "connecting"
  /\ up[e]
  /\ Goto(e, IF e \in Subscribers THEN "subscribing" ELSE "reading")
  /\ UNCHANGED <<feed, channel, linkVars, retryVars, loopVars>>

ConnectFails(e) ==
  /\ pc[e] = "connecting"
  /\ ~ up[e]
  /\ Fail(e)

(* write.send(subscription)                                                 *)
Subscribe(e) ==
  /\ pc[e] = "subscribing"
  /\ up[e]
  /\ Goto(e, "reading")
  /\ UNCHANGED <<feed, channel, linkVars, retryVars, loopVars>>

SubscribeFails(e) ==
  /\ pc[e] = "subscribing"
  /\ ~ up[e]
  /\ Fail(e)

(* read.next() returns a ticker message with a price.                       *)
ReadQuote(e) ==
  /\ pc[e] = "reading"
  /\ up[e]
  /\ \E p \in Prices : feed' = [feed EXCEPT ![e] = p]
  /\ Goto(e, "sending")
  /\ UNCHANGED <<channel, linkVars, retryVars, loopVars>>

(* A bug: the send gives up when the channel is full.                       *)
QuoteDropped(e) ==
  /\ pc[e] = "sending"
  /\ channel' = IF Len(channel) < ChannelCapacity THEN Append(channel, <<e, feed[e]>>) ELSE channel
  /\ feed' = [feed EXCEPT ![e] = None]
  /\ Goto(e, "reading")
  /\ UNCHANGED <<linkVars, retryVars, loopVars>>

(* sender.send(..).await finishes.  The receiver is never dropped while the *)
(* loop runs, so it does not fail.                                          *)
QuoteSent(e) ==
  /\ pc[e] = "sending"
  /\ Len(channel) < ChannelCapacity
  /\ channel' = Append(channel, <<e, feed[e]>>)
  /\ feed' = [feed EXCEPT ![e] = None]
  /\ Goto(e, "reading")
  /\ UNCHANGED <<linkVars, retryVars, loopVars>>

(* A bug: pings fall into the arm that skips messages.                      *)
PingSkipped(e) ==
  /\ pc[e] = "reading"
  /\ ping[e]
  /\ UNCHANGED vars

(* read.next() returns a ping; write.send(pong) begins.                     *)
ReadPing(e) ==
  /\ pc[e] = "reading"
  /\ ping[e]
  /\ Goto(e, "ponging")
  /\ UNCHANGED <<feed, channel, linkVars, retryVars, loopVars>>

PongSent(e) ==
  /\ pc[e] = "ponging"
  /\ up[e]
  /\ Goto(e, "reading")
  /\ ping' = [ping EXCEPT ![e] = FALSE]
  /\ UNCHANGED <<feed, channel, up, retryVars, loopVars>>

PongFails(e) ==
  /\ pc[e] = "ponging"
  /\ ~ up[e]
  /\ Fail(e)

(* read.next() returns an error.                                            *)
ReadFails(e) ==
  /\ pc[e] = "reading"
  /\ ~ up[e]
  /\ Fail(e)

-----------------------------------------------------------------------------
(* rx.recv(): the loop notes the exchange as connected and keeps the quote. *)
RecvPrice ==
  /\ channel # <<>>
  /\ LET e == Head(channel)[1]
     IN  /\ exchange_status' = [exchange_status EXCEPT ![e] = TRUE]
         /\ price_buffer' = [price_buffer EXCEPT ![e] = Head(channel)[2]]
  /\ channel' = Tail(channel)
  /\ UNCHANGED <<pc, feed, linkVars, retryVars>>

-----------------------------------------------------------------------------
Connecting(e) == Connect(e) \/ ConnectFails(e) \/ Subscribe(e) \/ SubscribeFails(e)

Reading(e) == ReadQuote(e) \/ ReadPing(e) \/ ReadFails(e) \/ ReadEnd(e)

Writing(e) == QuoteSent(e) \/ PongSent(e) \/ PongFails(e)

Client(e) == Connecting(e) \/ Reading(e) \/ Writing(e) \/ Wake(e)

Environment == Elapse \/ \E e \in Exchanges : Toggle(e) \/ Ping(e)

Next == Environment \/ RecvPrice \/ \E e \in Exchanges : Client(e)

Spec == Init /\ [][Next]_vars

(* Scheduling: sleeps end, the loop receives, the channel serves its        *)
(* waiting senders in turn.  Network: an attempt, a write or a read on a    *)
(* broken connection comes back with a result, and a ping that was sent is  *)
(* read, since messages arrive in order.  The code has no timeout of its    *)
(* own: a connection that goes silent without an error is outside of this.  *)
(* Exchanges owe nothing: neither quotes, pings nor being reachable.        *)
Fairness ==
  /\ WF_vars(Elapse)
  /\ WF_vars(RecvPrice)
  /\ \A e \in Exchanges :
       /\ WF_vars(Wake(e))
       /\ SF_vars(QuoteSent(e))
       /\ WF_vars(Connect(e) \/ ConnectFails(e))
       /\ WF_vars(Subscribe(e) \/ SubscribeFails(e))
       /\ WF_vars(PongSent(e) \/ PongFails(e))
       /\ SF_vars(ReadPing(e))
       /\ WF_vars(ReadFails(e))

FairSpec == Spec /\ Fairness

-----------------------------------------------------------------------------
(* Every variable holds a value of its type.                                *)
TypeOK ==
  /\ up \in [Exchanges -> BOOLEAN]
  /\ pc \in [Exchanges -> Stages]
  /\ backoff \in [Exchanges -> 1 .. MaxBackoff]
  /\ remaining \in [Exchanges -> 0 .. MaxBackoff]
  /\ ping \in [Exchanges -> BOOLEAN]
  /\ feed \in [Exchanges -> Prices \cup {None}]
  /\ channel \in Seq(Exchanges \X Prices)
  /\ exchange_status \in [Exchanges -> {TRUE, None}]
  /\ price_buffer \in [Exchanges -> Prices \cup {None}]
  /\ errors \in [Exchanges -> Nat]

(* The pause before the next attempt depends on nothing but the errors      *)
(* since the last CLEAN end of a connection: sessions that delivered quotes *)
(* and then broke count like attempts that never connected                  *)
(* (exchange_client.rs:26-34), and the pause never exceeds the maximum.     *)
PauseGrowsWithErrors ==
  \A e \in Exchanges :
    /\ pc[e] # "sleeping" => backoff[e] = Pause(errors[e])
    /\ pc[e] = "sleeping" => remaining[e] <= backoff[e] /\ backoff[e] <= Pause(errors[e])

Feed == INSTANCE QuoteFeed WITH
  Values   <- Prices,
  Capacity <- ChannelCapacity,
  hand     <- feed,
  queue    <- channel,
  taken    <- price_buffer

(* The clients implement the feed the aggregation loop relies on: outages,  *)
(* reconnections, pings and a full channel never lose, repeat or reorder a  *)
(* quote that was read.                                                     *)
ImplementsQuoteFeed == Feed!Spec

(* A client whose exchange stays reachable gets its connection back, again  *)
(* and again if the exchange closes it: no sequence of errors, pauses and   *)
(* clean ends stops a client for ever.                                      *)
RecoversFromOutage ==
  \A e \in Exchanges : <>[]up[e] => []<>(pc[e] \in Session)

(* A ping is answered or the connection is given up, also while the client  *)
(* waits for room in the channel before it can read the ping.               *)
PingEventuallySettled ==
  \A e \in Exchanges : ping[e] ~> ~ ping[e]

-----------------------------------------------------------------------------
(* What the documentation says and the code does not do.                    *)

(* models.rs:152-156: ExchangeStatus is the connection health of an          *)
(* exchange, with a field `connected`: once an exchange is gone for good,    *)
(* its status does not say connected for ever.                               *)
StatusShowsConnection ==
  \A e \in Exchanges :
    <>[](pc[e] \notin Session) => <>[](exchange_status[e] # TRUE)

=============================================================================
