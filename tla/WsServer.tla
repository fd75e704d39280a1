------------------------------- MODULE WsServer -------------------------------
(***************************************************************************)
(* The WebSocket server of src/src/ws_server/mod.rs with the two things it  *)
(* shares with the aggregator: the RwLock around AppState and the broadcast *)
(* channel of events (broadcast.rs).                                        *)
(*                                                                         *)
(* The aggregator is reduced to what the server sees of it: it waits for    *)
(* the write lock, publishes tick number `tick` as current_price, and sends *)
(* the tick and its alerts outside the lock (module Aggregator has the      *)
(* detail).  An event is [tick, kind]; the log of everything ever sent      *)
(* stands for the ring of the last BroadcastCapacity events and the cursors *)
(* of its receivers.                                                        *)
(*                                                                         *)
(* One connection task per client.  An action is what it does between two   *)
(* awaits: the handshake, the read lock, each sink.send and the select! of  *)
(* the loop are the places where it can be overtaken or stuck.  A message   *)
(* written to a socket waits in its buffer until the peer reads; a peer may *)
(* stop reading for ever, and may close at any time.  Text messages only    *)
(* reach a handler that does nothing (handler.rs:7-20), and serialisation   *)
(* never fails: neither changes any state.                                  *)
(***************************************************************************)
EXTENDS Integers, Sequences, FiniteSets

CONSTANTS
  Clients,            \* the peers that may connect
  BroadcastCapacity,  \* CHANNEL_CAPACITY, 1024 in the code
  SocketCapacity,     \* messages a socket takes without the peer reading
  MaxTicks,           \* BOUND: ticks the aggregator publishes
  MaxConnects         \* BOUND: connections per client

ASSUME ServerAssumption ==
  /\ IsFiniteSet(Clients)
  /\ BroadcastCapacity \in Nat \ {0}
  /\ SocketCapacity \in Nat \ {0}
  /\ MaxTicks \in Nat
  /\ MaxConnects \in Nat

VARIABLES
  agg_pc,        \* the aggregator: "idle", "wait" (for the write lock), "send"
  current_price, \* the number of the published tick, 0 for None
  outbound,      \* the aggregator's events still to send
  log,           \* every event sent to the broadcast channel
  ws_clients,    \* the shared AtomicUsize
  conn,          \* client -> its connection task and socket
  connects       \* client -> connections so far

serverVars == <<ws_clients, conn, connects>>
aggregatorVars == <<agg_pc, current_price, outbound>>
vars == <<aggregatorVars, log, serverVars>>

Event == [tick : 1 .. MaxTicks, kind : {"tick", "alert"}]

(* Where a connection task is; "free": there is no connection.              *)
Live == {"joined", "snapshot", "stream", "sending", "ponging"}

Stages == {"free", "handshake"} \cup Live

(* One connection:                                                          *)
(*   pc      where its task is                                              *)
(*   guard   the task holds the read guard of AppState                      *)
(*   from    the log position its receiver started at                       *)
(*   next    the log position its receiver reads next                       *)
(*   lagged  recv has reported Lagged                                       *)
(*   snap    the tick of the snapshot it took, 0 for none (yet)             *)
(*   hand    the log position of the event being sent, 0 for none           *)
(*   wire    what was written to the socket: <<position, tick>>, position 0 *)
(*           for the snapshot                                               *)
(*   unread  messages written and not read by the peer, pongs included      *)
(*   closed  the peer has closed                                            *)
(*   ping    a ping of the peer waits to be answered                        *)
NoConnection ==
  [pc |-> "free", guard |-> FALSE, from |-> 1, next |-> 1, lagged |-> FALSE,
   snap |-> 0, hand |-> 0, wire |-> <<>>, unread |-> 0, closed |-> FALSE,
   ping |-> FALSE]

Init ==
  /\ agg_pc = "idle"
  /\ current_price = 0
  /\ outbound = <<>>
  /\ log = <<>>
  /\ ws_clients = 0
  /\ conn = [c \in Clients |-> NoConnection]
  /\ connects = [c \in Clients |-> 0]

-----------------------------------------------------------------------------
(* The aggregator, as the server sees it                                    *)

ReadGuards == {c \in Clients : conn[c].guard}

(* state.write().await begins.                                              *)
WantWrite ==
  /\ agg_pc = "idle"
  /\ current_price < MaxTicks
  /\ agg_pc' = "wait"
  /\ UNCHANGED <<current_price, outbound, log, serverVars>>

(* The lock is granted once no read guard is left; the tick is published.   *)
Commit ==
  /\ agg_pc = "wait"
  /\ ReadGuards = {}
  /\ agg_pc' = "send"
  /\ current_price' = current_price + 1
  /\ \E alerts \in {<<>>, <<[tick |-> current_price', kind |-> "alert"]>>} :
       outbound' = <<[tick |-> current_price', kind |-> "tick"]>> \o alerts
  /\ UNCHANGED <<log, serverVars>>

(* event_tx.send never waits: a full ring forgets its oldest event.         *)
SendEvent ==
  /\ agg_pc = "send"
  /\ log' = Append(log, Head(outbound))
  /\ outbound' = Tail(outbound)
  /\ agg_pc' = IF Len(outbound) = 1 THEN "idle" ELSE "send"
  /\ UNCHANGED <<current_price, serverVars>>

-----------------------------------------------------------------------------
(* Connections                                                              *)

(* A step of connection c that leaves everything but conn[c] alone.         *)
Update(c, changed) ==
  /\ conn' = [conn EXCEPT ![c] = changed]
  /\ UNCHANGED <<aggregatorVars, log, connects>>

(* run_server accepts: the receiver is subscribed before the task starts.   *)
Accept(c) ==
  /\ conn[c].pc = "free"
  /\ connects[c] < MaxConnects
  /\ connects' = [connects EXCEPT ![c] = @ + 1]
  /\ conn' = [conn EXCEPT ![c] =
                [NoConnection EXCEPT !.pc = "handshake",
                                     !.from = Len(log) + 1,
                                     !.next = Len(log) + 1]]
  /\ UNCHANGED <<aggregatorVars, log, ws_clients>>

(* A bug that subtracts at the end what it never added.                     *)
HandshakeUncounted(c) ==
  /\ conn[c].pc = "handshake"
  /\ Update(c, [conn[c] EXCEPT !.pc = "joined"])
  /\ UNCHANGED ws_clients

(* accept_async succeeds: the client is counted, then the read lock awaited.*)
HandshakeOk(c) ==
  /\ conn[c].pc = "handshake"
  /\ ws_clients' = ws_clients + 1
  /\ Update(c, [conn[c] EXCEPT !.pc = "joined"])

(* accept_async fails: the task returns, uncounted.                         *)
HandshakeFail(c) ==
  /\ conn[c].pc = "handshake"
  /\ Update(c, NoConnection)
  /\ UNCHANGED ws_clients

(* The read lock is granted.  tokio's RwLock is fair: a reader queues       *)
(* behind a writer that already waits.  Without a current price there is    *)
(* nothing to send and the guard is dropped at once.                        *)
TakeSnapshot(c) ==
  /\ conn[c].pc = "joined"
  /\ agg_pc # "wait"
  /\ IF current_price = 0
     THEN Update(c, [conn[c] EXCEPT !.pc = "stream"])
     ELSE Update(c, [conn[c] EXCEPT !.pc = "snapshot",
                                    !.guard = TRUE,
                                    !.snap = current_price])
  /\ UNCHANGED ws_clients

Room(c) == conn[c].unread < SocketCapacity

Written(c, position, tick) ==
  [conn[c] EXCEPT !.wire = Append(@, <<position, tick>>), !.unread = @ + 1]

(* A bug: the guard lives until the end of the connection.                  *)
SnapshotKeepsGuard(c) ==
  /\ conn[c].pc = "snapshot"
  /\ Room(c)
  /\ Update(c, [Written(c, 0, conn[c].snap) EXCEPT !.pc = "stream"])
  /\ UNCHANGED ws_clients

(* sink.send(snapshot).await ends, under the guard; the guard is dropped.   *)
SnapshotSent(c) ==
  /\ conn[c].pc = "snapshot"
  /\ Room(c)
  /\ Update(c, [Written(c, 0, conn[c].snap) EXCEPT !.pc = "stream", !.guard = FALSE])
  /\ UNCHANGED ws_clients

(* Its error is ignored: the connection goes on to its loop.                *)
SnapshotFails(c) ==
  /\ conn[c].pc = "snapshot"
  /\ conn[c].closed
  /\ Update(c, [conn[c] EXCEPT !.pc = "stream", !.guard = FALSE])
  /\ UNCHANGED ws_clients

(* The oldest position the ring still holds.                                *)
Oldest == IF Len(log) > BroadcastCapacity THEN Len(log) - BroadcastCapacity + 1 ELSE 1

(* A bug: the receiver's cursor stays where it was.                         *)
ReceiveWithoutAdvance(c) ==
  /\ conn[c].pc = "stream"
  /\ conn[c].next \in Oldest .. Len(log)
  /\ Update(c, [conn[c] EXCEPT !.pc = "sending", !.hand = conn[c].next])
  /\ UNCHANGED ws_clients

(* A bug: only the newest event is of interest.                             *)
ReceiveNewest(c) ==
  /\ conn[c].pc = "stream"
  /\ conn[c].next \in Oldest .. Len(log)
  /\ Update(c, [conn[c] EXCEPT !.pc = "sending", !.hand = Len(log), !.next = Len(log) + 1])
  /\ UNCHANGED ws_clients

(* rx.recv() returns an event: it is in hand, the socket is awaited.        *)
ReceiveEvent(c) ==
  /\ conn[c].pc = "stream"
  /\ conn[c].next \in Oldest .. Len(log)
  /\ Update(c, [conn[c] EXCEPT !.pc = "sending",
                               !.hand = conn[c].next,
                               !.next = @ + 1])
  /\ UNCHANGED ws_clients

(* A bug: the receiver resumes at the newest event and loses the ring.      *)
LagSkipsToEnd(c) ==
  /\ conn[c].pc = "stream"
  /\ conn[c].next < Oldest
  /\ Update(c, [conn[c] EXCEPT !.next = Len(log) + 1, !.lagged = TRUE])
  /\ UNCHANGED ws_clients

(* A bug: the same lag is reported again and again.                         *)
LagRepeats(c) ==
  /\ conn[c].pc = "stream"
  /\ conn[c].next < Oldest
  /\ Update(c, [conn[c] EXCEPT !.lagged = TRUE])
  /\ UNCHANGED ws_clients

(* rx.recv() returns Lagged: the receiver resumes at the oldest event kept. *)
ReceiveLagged(c) ==
  /\ conn[c].pc = "stream"
  /\ conn[c].next < Oldest
  /\ Update(c, [conn[c] EXCEPT !.next = Oldest, !.lagged = TRUE])
  /\ UNCHANGED ws_clients

(* sink.send(event).await ends.                                             *)
EventSent(c) ==
  /\ conn[c].pc = "sending"
  /\ Room(c)
  /\ Update(c, [Written(c, conn[c].hand, log[conn[c].hand].tick)
                  EXCEPT !.pc = "stream", !.hand = 0])
  /\ UNCHANGED ws_clients

(* The loop is left: the client is no longer counted, the task ends.        *)
Leave(c) ==
  /\ ws_clients' = ws_clients - 1
  /\ Update(c, NoConnection)

(* A bug: the early exit on a failed send forgets the counter.              *)
EventFailsUncounted(c) ==
  /\ conn[c].pc = "sending"
  /\ conn[c].closed
  /\ Update(c, NoConnection)
  /\ UNCHANGED ws_clients

(* It fails: the client has disconnected.                                   *)
EventFails(c) ==
  /\ conn[c].pc = "sending"
  /\ conn[c].closed
  /\ Leave(c)

(* source.next() returns a ping; the pong is sent inside the arm.           *)
ReceivePing(c) ==
  /\ conn[c].pc = "stream"
  /\ conn[c].ping
  /\ Update(c, [conn[c] EXCEPT !.pc = "ponging", !.ping = FALSE])
  /\ UNCHANGED ws_clients

PongSent(c) ==
  /\ conn[c].pc = "ponging"
  /\ \/ /\ Room(c)
        /\ Update(c, [conn[c] EXCEPT !.pc = "stream", !.unread = @ + 1])
     \/ /\ conn[c].closed        \* the error of the send is ignored
        /\ Update(c, [conn[c] EXCEPT !.pc = "stream"])
  /\ UNCHANGED ws_clients

(* source.next() returns a close frame or the end of the stream, after what *)
(* the peer sent before it.  A text, any other message and Some(Err(_)),     *)
(* which falls into `_ => {}` (mod.rs:128), keep the connection as it is:    *)
(* they are stuttering steps.                                               *)
ReceiveClose(c) ==
  /\ conn[c].pc = "stream"
  /\ conn[c].closed
  /\ ~ conn[c].ping
  /\ Leave(c)

-----------------------------------------------------------------------------
(* The peer: it may read, ping and close once the handshake has begun.      *)

PeerReads(c) ==
  /\ conn[c].unread > 0
  /\ Update(c, [conn[c] EXCEPT !.unread = @ - 1])
  /\ UNCHANGED ws_clients

PeerPings(c) ==
  /\ conn[c].pc \in Live
  /\ ~ conn[c].closed
  /\ ~ conn[c].ping
  /\ Update(c, [conn[c] EXCEPT !.ping = TRUE])
  /\ UNCHANGED ws_clients

PeerCloses(c) ==
  /\ conn[c].pc \in Live
  /\ ~ conn[c].closed
  /\ Update(c, [conn[c] EXCEPT !.closed = TRUE])
  /\ UNCHANGED ws_clients

-----------------------------------------------------------------------------
Aggregate == WantWrite \/ Commit \/ SendEvent

Task(c) ==
  \/ HandshakeOk(c) \/ HandshakeFail(c)
  \/ TakeSnapshot(c) \/ SnapshotSent(c) \/ SnapshotFails(c)
  \/ ReceiveEvent(c) \/ ReceiveLagged(c) \/ EventSent(c) \/ EventFails(c)
  \/ ReceivePing(c) \/ PongSent(c) \/ ReceiveClose(c)

Peer(c) == PeerReads(c) \/ PeerPings(c) \/ PeerCloses(c)

Next == Aggregate \/ \E c \in Clients : Accept(c) \/ Task(c) \/ Peer(c)

Spec == Init /\ [][Next]_vars

(* The runtime polls ready tasks; the select! of a connection tries its two *)
(* arms in random order (strong fairness of each); the RwLock serves its    *)
(* queue in order.  Peers and the network owe nothing: no fairness for the  *)
(* handshake, for reading, pinging or closing, nor for new ticks.           *)
Fairness ==
  /\ WF_vars(Commit)
  /\ WF_vars(SendEvent)
  /\ \A c \in Clients :
       /\ SF_vars(TakeSnapshot(c))
       /\ WF_vars(SnapshotSent(c) \/ SnapshotFails(c))
       /\ SF_vars(ReceiveEvent(c) \/ ReceiveLagged(c))
       /\ WF_vars(EventSent(c) \/ EventFails(c))
       /\ SF_vars(ReceivePing(c) \/ ReceiveClose(c))
       /\ WF_vars(PongSent(c))

FairSpec == Spec /\ Fairness

-----------------------------------------------------------------------------
Connection ==
  [pc : Stages, guard : BOOLEAN, from : Nat \ {0}, next : Nat \ {0},
   lagged : BOOLEAN, snap : Nat, hand : Nat, wire : Seq(Nat \X Nat),
   unread : Nat, closed : BOOLEAN, ping : BOOLEAN]

TypeOK ==
  /\ agg_pc \in {"idle", "wait", "send"}
  /\ current_price \in 0 .. MaxTicks
  /\ outbound \in Seq(Event)
  /\ log \in Seq(Event)
  /\ ws_clients \in Nat
  /\ conn \in [Clients -> Connection]
  /\ connects \in [Clients -> 0 .. MaxConnects]

(* The shared counter is the number of connections between their handshake  *)
(* and the end of their task, on every path that ends one (mod.rs:72, 134). *)
ClientCount ==
  ws_clients = Cardinality({c \in Clients : conn[c].pc \in Live})

(* A client is sent its snapshot first, if at all, and then events in the   *)
(* order they were broadcast, none twice, whatever lag or pings intervene.  *)
OrderedDelivery ==
  \A c \in Clients :
    LET wire == conn[c].wire
    IN  \A i, j \in DOMAIN wire : i < j => wire[i][1] < wire[j][1]

(* As long as recv has not reported a lag, a client was sent every event    *)
(* broadcast since it was accepted, up to the one in hand, and no other.    *)
NoSilentGap ==
  \A c \in Clients :
    LET k == conn[c]
        sent == {k.wire[i][1] : i \in DOMAIN k.wire} \ {0}
    IN  k.pc \in Live /\ ~ k.lagged => sent = (k.from .. k.next - 1) \ {k.hand}

(* A client whose receiver is empty, with no event still to be broadcast,   *)
(* has been sent the current tick: by the snapshot or by the stream, also   *)
(* after a lag (the receiver is subscribed before the snapshot is read,     *)
(* mod.rs:45, 79).                                                          *)
CaughtUpKnowsCurrent ==
  \A c \in Clients :
    LET k == conn[c]
    IN  k.pc = "stream" /\ ~ k.closed /\ k.next = Len(log) + 1 /\ outbound = <<>> =>
          current_price = 0 \/ \E i \in DOMAIN k.wire : k.wire[i][2] = current_price

(* The snapshot is sent under the read guard, yet a peer that never reads   *)
(* cannot keep the aggregator from the write lock: the snapshot is the      *)
(* first message of its socket.                                             *)
AggregatorNotBlocked == (agg_pc = "wait") ~> (agg_pc = "send")

(* The connection of a peer that keeps reading gets past every event: it is *)
(* sent, or reported lagged, or the connection ends.                        *)
ReaderCatchesUp ==
  \A c \in Clients : \A n \in 1 .. 2 * MaxTicks :
    []<>(conn[c].unread = 0) =>
      (conn[c].pc \in Live /\ conn[c].next <= n /\ n <= Len(log))
        ~> (conn[c].pc = "free" \/ conn[c].next > n)

=============================================================================
