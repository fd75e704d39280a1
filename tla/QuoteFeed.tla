------------------------------ MODULE QuoteFeed ------------------------------
(***************************************************************************)
(* What the exchange clients and the mpsc channel promise to the            *)
(* aggregation loop (src/src/aggregator/mod.rs:38-49, 74-90): a client has   *)
(* at most one quote in hand and keeps it until the channel has room, the   *)
(* channel is bounded and first in, first out, and the loop keeps the last  *)
(* value it took of each exchange.  No quote is lost, repeated or           *)
(* overtaken, whatever happens to the connections behind it.                *)
(***************************************************************************)
EXTENDS Naturals, Sequences

CONSTANTS Exchanges, Values, Capacity, None

VARIABLES
  hand,    \* exchange -> the value its client waits to send, or None
  queue,   \* the channel: a sequence of <<exchange, value>>
  taken    \* exchange -> the last value the loop took, or None

quoteVars == <<hand, queue, taken>>

Init ==
  /\ hand = [e \in Exchanges |-> None]
  /\ queue = <<>>
  /\ taken = [e \in Exchanges |-> None]

Stamp(e) ==
  /\ hand[e] = None
  /\ \E v \in Values : hand' = [hand EXCEPT ![e] = v]
  /\ UNCHANGED <<queue, taken>>

Send(e) ==
  /\ hand[e] # None
  /\ Len(queue) < Capacity
  /\ queue' = Append(queue, <<e, hand[e]>>)
  /\ hand' = [hand EXCEPT ![e] = None]
  /\ UNCHANGED taken

Take ==
  /\ queue # <<>>
  /\ taken' = [taken EXCEPT ![Head(queue)[1]] = Head(queue)[2]]
  /\ queue' = Tail(queue)
  /\ UNCHANGED hand

Next == Take \/ \E e \in Exchanges : Stamp(e) \/ Send(e)

Spec == Init /\ [][Next]_quoteVars

=============================================================================
