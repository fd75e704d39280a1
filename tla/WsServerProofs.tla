---------------------------- MODULE WsServerProofs ----------------------------
(***************************************************************************)
(* Type correctness of WsServer, the exactness of its client counter, and    *)
(* what a client knows: it loses no event without a lag, and once it has     *)
(* caught up it was sent the current tick.  For any finite set of clients    *)
(* and any capacities and bounds.                                            *)
(***************************************************************************)
EXTENDS WsServer, FiniteSetTheorems, SequenceTheorems, TLAPS

(* The clients that the counter should count.                               *)
LiveClients == {c \in Clients : conn[c].pc \in Live}

(* Where a task is determines what it holds: an event in hand is one of the *)
(* log, the loop waits for the lock only for a tick within the bound, and   *)
(* it is sending exactly while events are left.                             *)
TaskInv ==
  /\ \A c \in Clients : conn[c].pc = "sending" => conn[c].hand \in 1 .. Len(log)
  /\ agg_pc = "wait" => current_price < MaxTicks
  /\ agg_pc = "send" => outbound # <<>>

Inv == TypeOK /\ TaskInv /\ ClientCount

-----------------------------------------------------------------------------
(* A connection that is replaced by another one of the right type.          *)
LEMMA ReplaceConnection ==
  ASSUME NEW c \in Clients, NEW r \in Connection,
         conn \in [Clients -> Connection],
         conn' = [conn EXCEPT ![c] = r]
  PROVE  /\ conn' \in [Clients -> Connection]
         /\ conn'[c] = r
         /\ \A d \in Clients \ {c} : conn'[d] = conn[d]
         /\ LiveClients' = IF r.pc \in Live THEN LiveClients \cup {c}
                           ELSE LiveClients \ {c}
<1>1. conn' \in [Clients -> Connection] /\ conn'[c] = r
  OBVIOUS
<1>2. \A d \in Clients \ {c} : conn'[d] = conn[d]
  OBVIOUS
<1>3. QED
  BY <1>1, <1>2, Zenon DEF LiveClients

LEMMA LiveIsFinite == IsFiniteSet(LiveClients)
  BY ServerAssumption, FS_Subset DEF LiveClients

(* A step of a task that neither enters nor leaves the counted stages.      *)
LEMMA Uncounted ==
  ASSUME Inv, NEW c \in Clients, NEW r \in Connection,
         Update(c, r), UNCHANGED ws_clients,
         r.pc \in Live <=> conn[c].pc \in Live,
         r.pc = "sending" => r.hand \in 1 .. Len(log)
  PROVE  Inv'
<1>1. /\ conn' = [conn EXCEPT ![c] = r]
      /\ UNCHANGED <<agg_pc, current_price, outbound, log, connects, ws_clients>>
  BY DEF Update, aggregatorVars
<1>2. conn \in [Clients -> Connection]
  BY DEF Inv, TypeOK
<1>3. /\ conn' \in [Clients -> Connection]
      /\ conn'[c] = r
      /\ \A d \in Clients \ {c} : conn'[d] = conn[d]
      /\ LiveClients' = IF r.pc \in Live THEN LiveClients \cup {c} ELSE LiveClients \ {c}
  BY <1>1, <1>2, ReplaceConnection
<1>4. LiveClients' = LiveClients
  BY <1>3 DEF LiveClients
<1>5. ClientCount'
  BY <1>1, <1>4 DEF Inv, ClientCount, LiveClients
<1>6. TypeOK'
  BY <1>1, <1>3 DEF Inv, TypeOK
<1>7. TaskInv'
  BY <1>1, <1>3 DEF Inv, TaskInv
<1>8. QED
  BY <1>5, <1>6, <1>7 DEF Inv

(* A task that ends: it was counted, and is not any more.                   *)
LEMMA Left ==
  ASSUME Inv, NEW c \in Clients, conn[c].pc \in Live, Leave(c)
  PROVE  Inv'
<1>1. /\ conn' = [conn EXCEPT ![c] = NoConnection]
      /\ UNCHANGED <<agg_pc, current_price, outbound, log, connects>>
      /\ ws_clients' = ws_clients - 1
  BY DEF Leave, Update, aggregatorVars
<1>2. NoConnection \in Connection /\ NoConnection.pc \notin Live /\ NoConnection.pc # "sending"
  BY DEF NoConnection, Connection, Stages, Live
<1>3. conn \in [Clients -> Connection]
  BY DEF Inv, TypeOK
<1>4. /\ conn' \in [Clients -> Connection]
      /\ conn'[c] = NoConnection
      /\ \A d \in Clients \ {c} : conn'[d] = conn[d]
      /\ LiveClients' = LiveClients \ {c}
  BY <1>1, <1>2, <1>3, ReplaceConnection
<1>5. c \in LiveClients
  BY DEF LiveClients
<1>6. /\ Cardinality(LiveClients \ {c}) = Cardinality(LiveClients) - 1
      /\ Cardinality(LiveClients) \in Nat
      /\ Cardinality(LiveClients \ {c}) \in Nat
  BY <1>5, LiveIsFinite, FS_RemoveElement, FS_CardinalityType, FS_Subset
<1>7. ws_clients' = Cardinality(LiveClients') /\ ws_clients' \in Nat
  BY <1>1, <1>4, <1>6 DEF Inv, ClientCount, LiveClients
<1>8. ClientCount'
  BY <1>7 DEF ClientCount, LiveClients
<1>9. TypeOK'
  BY <1>1, <1>4, <1>7 DEF Inv, TypeOK
<1>10. TaskInv'
  BY <1>1, <1>2, <1>4 DEF Inv, TaskInv
<1>11. QED
  BY <1>8, <1>9, <1>10 DEF Inv

-----------------------------------------------------------------------------
(* The steps of a connection task                                           *)

(* A typed connection, field by field.                                      *)
LEMMA Fields ==
  ASSUME Inv, NEW c \in Clients
  PROVE  /\ conn[c] \in Connection
         /\ conn[c].pc = "sending" => conn[c].hand \in 1 .. Len(log)
         /\ Len(log) \in Nat
  BY DEF Inv, TypeOK, TaskInv

(* A connection that has taken the snapshot of tick t.                      *)
LEMMA SnapshotType ==
  ASSUME NEW k \in Connection, NEW t \in Nat
  PROVE  [k EXCEPT !.pc = "snapshot", !.guard = TRUE, !.snap = t] \in Connection
  BY DEF Connection, Stages, Live

(* What is written to a socket keeps the connection typed.                  *)
LEMMA WrittenType ==
  ASSUME Inv, NEW c \in Clients, NEW p \in Nat, NEW t \in Nat
  PROVE  Written(c, p, t) \in Connection
<1>1. conn[c] \in Connection
  BY Fields
<1>2. conn[c].wire \in Seq(Nat \X Nat) /\ conn[c].unread \in Nat
  BY <1>1 DEF Connection
<1>3. Append(conn[c].wire, <<p, t>>) \in Seq(Nat \X Nat) /\ conn[c].unread + 1 \in Nat
  BY <1>2
<1>4. QED
  BY <1>1, <1>3 DEF Written, Connection

(* Every step of a task keeps the invariant.                                *)
LEMMA TaskStep ==
  ASSUME Inv, NEW c \in Clients, Task(c)
  PROVE  Inv'
<1> USE Fields
<1>1. CASE HandshakeOk(c)
  <2> DEFINE r == [conn[c] EXCEPT !.pc = "joined"]
  <2>1. r \in Connection /\ r.pc \in Live /\ r.pc # "sending"
    BY DEF Connection, Stages, Live
  <2>2. /\ conn' = [conn EXCEPT ![c] = r]
        /\ UNCHANGED <<agg_pc, current_price, outbound, log, connects>>
        /\ ws_clients' = ws_clients + 1
    BY <1>1 DEF HandshakeOk, Update, aggregatorVars
  <2>3. conn \in [Clients -> Connection]
    BY DEF Inv, TypeOK
  <2> HIDE DEF r
  <2>4. /\ conn' \in [Clients -> Connection]
        /\ conn'[c] = r
        /\ \A d \in Clients \ {c} : conn'[d] = conn[d]
        /\ LiveClients' = LiveClients \cup {c}
    BY <2>1, <2>2, <2>3, ReplaceConnection
  <2>5. c \notin LiveClients
    BY <1>1 DEF HandshakeOk, LiveClients, Live
  <2>6. /\ Cardinality(LiveClients \cup {c}) = Cardinality(LiveClients) + 1
        /\ Cardinality(LiveClients) \in Nat
    BY <2>5, LiveIsFinite, FS_AddElement, FS_CardinalityType
  <2>7. ws_clients' = Cardinality(LiveClients') /\ ws_clients' \in Nat
    <3>1. ws_clients = Cardinality(LiveClients)
      BY DEF Inv, ClientCount, LiveClients
    <3>2. QED
      BY <2>2, <2>4, <2>6, <3>1
  <2>8. ClientCount'
    BY <2>7 DEF ClientCount, LiveClients
  <2>9. TypeOK'
    BY <2>2, <2>4, <2>7 DEF Inv, TypeOK
  <2>10. TaskInv'
    BY <2>1, <2>2, <2>4 DEF Inv, TaskInv
  <2>11. QED
    BY <2>8, <2>9, <2>10 DEF Inv
<1>2. CASE HandshakeFail(c)
  <2>1. NoConnection \in Connection /\ NoConnection.pc \notin Live /\ NoConnection.pc # "sending"
    BY DEF NoConnection, Connection, Stages, Live
  <2>2. QED
    BY <1>2, <2>1, Uncounted DEF HandshakeFail, Live
<1>3. CASE TakeSnapshot(c)
  <2>1. current_price \in Nat
    BY ServerAssumption DEF Inv, TypeOK
  <2>2. CASE current_price = 0
    <3> DEFINE r == [conn[c] EXCEPT !.pc = "stream"]
    <3>1. r \in Connection /\ r.pc \in Live /\ r.pc # "sending"
      BY DEF Connection, Stages, Live
    <3>2. Update(c, r) /\ UNCHANGED ws_clients /\ conn[c].pc \in Live
      BY <1>3, <2>2 DEF TakeSnapshot, Live
    <3> HIDE DEF r
    <3>3. QED
      BY <3>1, <3>2, Uncounted
  <2>3. CASE current_price # 0
    <3> DEFINE r == [conn[c] EXCEPT !.pc = "snapshot", !.guard = TRUE, !.snap = current_price]
    <3>1. r \in Connection /\ r.pc \in Live /\ r.pc # "sending"
      <4>1. r \in Connection
        BY <2>1, SnapshotType
      <4>2. r.pc = "snapshot"
        BY DEF Connection
      <4>3. QED
        BY <4>1, <4>2 DEF Live
    <3>2. Update(c, r) /\ UNCHANGED ws_clients /\ conn[c].pc \in Live
      BY <1>3, <2>3 DEF TakeSnapshot, Live
    <3> HIDE DEF r
    <3>3. QED
      BY <3>1, <3>2, Uncounted
  <2>4. QED
    BY <2>2, <2>3
<1>4. CASE SnapshotSent(c)
  <2> DEFINE w == Written(c, 0, conn[c].snap)
             r == [w EXCEPT !.pc = "stream", !.guard = FALSE]
  <2>1. conn[c].snap \in Nat
    BY DEF Connection
  <2>2. w \in Connection
    BY <2>1, WrittenType
  <2>3. Update(c, r) /\ UNCHANGED ws_clients /\ conn[c].pc \in Live
    BY <1>4 DEF SnapshotSent, Live
  <2> HIDE DEF w
  <2>4. r \in Connection /\ r.pc \in Live /\ r.pc # "sending"
    BY <2>2 DEF Connection, Stages, Live
  <2> HIDE DEF r
  <2>5. QED
    BY <2>3, <2>4, Uncounted
<1>5. CASE SnapshotFails(c)
  <2> DEFINE r == [conn[c] EXCEPT !.pc = "stream", !.guard = FALSE]
  <2>1. r \in Connection /\ r.pc \in Live /\ r.pc # "sending"
    BY DEF Connection, Stages, Live
  <2>2. Update(c, r) /\ UNCHANGED ws_clients /\ conn[c].pc \in Live
    BY <1>5 DEF SnapshotFails, Live
  <2> HIDE DEF r
  <2>3. QED
    BY <2>1, <2>2, Uncounted
<1>6. CASE ReceiveEvent(c)
  <2> DEFINE r == [conn[c] EXCEPT !.pc = "sending", !.hand = conn[c].next, !.next = @ + 1]
  <2>1. conn[c].next \in Nat \ {0}
    BY DEF Connection
  <2>2. conn[c].next \in 1 .. Len(log)
    BY <1>6, <2>1 DEF ReceiveEvent
  <2>3. r \in Connection /\ r.pc \in Live /\ r.hand \in 1 .. Len(log)
    <3>1. conn[c].next \in Nat /\ conn[c].next + 1 \in Nat \ {0}
      BY <2>1
    <3>2. r \in Connection
      BY <3>1 DEF Connection, Stages, Live
    <3>3. r.pc = "sending" /\ r.hand = conn[c].next
      BY DEF Connection
    <3>4. QED
      BY <2>2, <3>2, <3>3 DEF Live
  <2>4. Update(c, r) /\ UNCHANGED ws_clients /\ conn[c].pc \in Live
    BY <1>6 DEF ReceiveEvent, Live
  <2> HIDE DEF r
  <2>5. QED
    BY <2>3, <2>4, Uncounted
<1>7. CASE ReceiveLagged(c)
  <2> DEFINE r == [conn[c] EXCEPT !.next = Oldest, !.lagged = TRUE]
  <2>1. Oldest \in Nat \ {0}
    BY ServerAssumption DEF Oldest
  <2>2. r \in Connection /\ r.pc = conn[c].pc /\ r.pc \in Live /\ r.pc # "sending"
    <3>1. conn[c].pc = "stream"
      BY <1>7 DEF ReceiveLagged
    <3>2. r \in Connection
      BY <2>1 DEF Connection
    <3>3. r.pc = conn[c].pc
      BY DEF Connection
    <3>4. QED
      BY <3>1, <3>2, <3>3 DEF Live
  <2>3. Update(c, r) /\ UNCHANGED ws_clients
    BY <1>7 DEF ReceiveLagged
  <2> HIDE DEF r
  <2>4. QED
    BY <2>2, <2>3, Uncounted
<1>8. CASE EventSent(c)
  <2> DEFINE w == Written(c, conn[c].hand, log[conn[c].hand].tick)
             r == [w EXCEPT !.pc = "stream", !.hand = 0]
  <2>1. conn[c].hand \in 1 .. Len(log) /\ conn[c].pc \in Live
    BY <1>8 DEF EventSent, Live
  <2>2. log[conn[c].hand] \in Event
    BY <2>1 DEF Inv, TypeOK
  <2>3. log[conn[c].hand].tick \in Nat /\ conn[c].hand \in Nat
    BY <2>1, <2>2, ServerAssumption DEF Event
  <2>4. w \in Connection
    BY <2>3, WrittenType
  <2>5. Update(c, r) /\ UNCHANGED ws_clients
    BY <1>8 DEF EventSent
  <2> HIDE DEF w
  <2>6. r \in Connection /\ r.pc \in Live /\ r.pc # "sending"
    BY <2>4 DEF Connection, Stages, Live
  <2> HIDE DEF r
  <2>7. QED
    BY <2>1, <2>5, <2>6, Uncounted
<1>9. CASE EventFails(c)
  BY <1>9, Left DEF EventFails, Live
<1>10. CASE ReceivePing(c)
  <2> DEFINE r == [conn[c] EXCEPT !.pc = "ponging", !.ping = FALSE]
  <2>1. r \in Connection /\ r.pc \in Live /\ r.pc # "sending"
    BY DEF Connection, Stages, Live
  <2>2. Update(c, r) /\ UNCHANGED ws_clients /\ conn[c].pc \in Live
    BY <1>10 DEF ReceivePing, Live
  <2> HIDE DEF r
  <2>3. QED
    BY <2>1, <2>2, Uncounted
<1>11. CASE PongSent(c)
  <2> DEFINE r == [conn[c] EXCEPT !.pc = "stream", !.unread = @ + 1]
             q == [conn[c] EXCEPT !.pc = "stream"]
  <2>1. /\ r \in Connection /\ r.pc \in Live /\ r.pc # "sending"
        /\ q \in Connection /\ q.pc \in Live /\ q.pc # "sending"
    <3>1. conn[c].unread \in Nat /\ conn[c].unread + 1 \in Nat
      BY DEF Connection
    <3>2. r \in Connection /\ r.pc \in Live /\ r.pc # "sending"
      BY <3>1 DEF Connection, Stages, Live
    <3>3. q \in Connection /\ q.pc \in Live /\ q.pc # "sending"
      BY DEF Connection, Stages, Live
    <3>4. QED
      BY <3>2, <3>3
  <2>2. (Update(c, r) \/ Update(c, q)) /\ UNCHANGED ws_clients /\ conn[c].pc \in Live
    BY <1>11 DEF PongSent, Live
  <2> HIDE DEF r, q
  <2>3. QED
    BY <2>1, <2>2, Uncounted
<1>12. CASE ReceiveClose(c)
  BY <1>12, Left DEF ReceiveClose, Live
<1>13. QED
  BY <1>1, <1>2, <1>3, <1>4, <1>5, <1>6, <1>7, <1>8, <1>9, <1>10, <1>11, <1>12 DEF Task

-----------------------------------------------------------------------------
(* The steps of the peer, of the acceptor and of the aggregator             *)

LEMMA PeerStep ==
  ASSUME Inv, NEW c \in Clients, Peer(c)
  PROVE  Inv'
<1> USE Fields
<1>1. CASE PeerReads(c)
  <2> DEFINE r == [conn[c] EXCEPT !.unread = @ - 1]
  <2>1. conn[c].unread \in Nat /\ conn[c].unread - 1 \in Nat
    BY <1>1 DEF PeerReads, Connection
  <2>2. r \in Connection /\ r.pc = conn[c].pc /\ r.hand = conn[c].hand
    BY <2>1 DEF Connection
  <2>3. Update(c, r) /\ UNCHANGED ws_clients
    BY <1>1 DEF PeerReads
  <2> HIDE DEF r
  <2>4. QED
    BY <2>2, <2>3, Uncounted
<1>2. CASE PeerPings(c)
  <2> DEFINE r == [conn[c] EXCEPT !.ping = TRUE]
  <2>1. r \in Connection /\ r.pc = conn[c].pc /\ r.hand = conn[c].hand
    BY DEF Connection
  <2>2. Update(c, r) /\ UNCHANGED ws_clients
    BY <1>2 DEF PeerPings
  <2> HIDE DEF r
  <2>3. QED
    BY <2>1, <2>2, Uncounted
<1>3. CASE PeerCloses(c)
  <2> DEFINE r == [conn[c] EXCEPT !.closed = TRUE]
  <2>1. r \in Connection /\ r.pc = conn[c].pc /\ r.hand = conn[c].hand
    BY DEF Connection
  <2>2. Update(c, r) /\ UNCHANGED ws_clients
    BY <1>3 DEF PeerCloses
  <2> HIDE DEF r
  <2>3. QED
    BY <2>1, <2>2, Uncounted
<1>4. QED
  BY <1>1, <1>2, <1>3 DEF Peer

LEMMA AcceptStep ==
  ASSUME Inv, NEW c \in Clients, Accept(c)
  PROVE  Inv'
<1> DEFINE r == [NoConnection EXCEPT !.pc = "handshake",
                                     !.from = Len(log) + 1,
                                     !.next = Len(log) + 1]
<1>1. Len(log) + 1 \in Nat \ {0}
  BY Fields
<1>2. r \in Connection /\ r.pc \notin Live /\ r.pc # "sending"
  <2>1. NoConnection \in Connection
    BY DEF NoConnection, Connection, Stages
  <2>2. QED
    BY <1>1, <2>1 DEF Connection, Stages, Live
<1>3. /\ conn' = [conn EXCEPT ![c] = r]
      /\ UNCHANGED <<agg_pc, current_price, outbound, log, ws_clients>>
  BY DEF Accept, aggregatorVars
<1>4. conn \in [Clients -> Connection] /\ connects \in [Clients -> 0 .. MaxConnects]
  BY DEF Inv, TypeOK
<1> HIDE DEF r
<1>5. /\ conn' \in [Clients -> Connection]
      /\ conn'[c] = r
      /\ \A d \in Clients \ {c} : conn'[d] = conn[d]
      /\ LiveClients' = LiveClients \ {c}
  BY <1>2, <1>3, <1>4, ReplaceConnection
<1>6. LiveClients' = LiveClients
  BY <1>5 DEF Accept, LiveClients, Live
<1>7. ClientCount'
  BY <1>3, <1>6 DEF Inv, ClientCount, LiveClients
<1>8. connects' \in [Clients -> 0 .. MaxConnects]
  BY <1>4, ServerAssumption DEF Accept
<1>9. TypeOK'
  BY <1>3, <1>5, <1>8 DEF Inv, TypeOK
<1>10. TaskInv'
  BY <1>2, <1>3, <1>5 DEF Inv, TaskInv
<1>11. QED
  BY <1>7, <1>9, <1>10 DEF Inv

LEMMA AggregateStep ==
  ASSUME Inv, Aggregate
  PROVE  Inv'
<1>1. /\ UNCHANGED <<ws_clients, conn, connects>>
      /\ ws_clients \in Nat /\ conn \in [Clients -> Connection]
      /\ connects \in [Clients -> 0 .. MaxConnects]
  BY DEF Inv, TypeOK, Aggregate, WantWrite, Commit, SendEvent, serverVars
<1>2. ClientCount'
  BY <1>1 DEF Inv, ClientCount
<1>3. CASE WantWrite
  <2>1. agg_pc' = "wait" /\ current_price < MaxTicks /\ UNCHANGED <<current_price, outbound, log>>
    BY <1>3 DEF WantWrite
  <2>2. TypeOK'
    BY <1>1, <2>1 DEF Inv, TypeOK
  <2>3. TaskInv'
    BY <1>1, <2>1 DEF Inv, TaskInv
  <2>4. QED
    BY <1>2, <2>2, <2>3 DEF Inv
<1>4. CASE Commit
  <2>1. agg_pc' = "send" /\ current_price' = current_price + 1 /\ UNCHANGED log
    BY <1>4 DEF Commit
  <2>2. current_price' \in 1 .. MaxTicks
    BY <1>4, <2>1, ServerAssumption DEF Commit, Inv, TypeOK, TaskInv
  <2>3. outbound' \in Seq(Event) /\ outbound' # <<>>
    <3>1. PICK alerts \in {<<>>, <<[tick |-> current_price', kind |-> "alert"]>>} :
            outbound' = <<[tick |-> current_price', kind |-> "tick"]>> \o alerts
      BY <1>4 DEF Commit
    <3>2. /\ [tick |-> current_price', kind |-> "tick"] \in Event
          /\ [tick |-> current_price', kind |-> "alert"] \in Event
      BY <2>2 DEF Event
    <3> DEFINE first == [tick |-> current_price', kind |-> "tick"]
               second == [tick |-> current_price', kind |-> "alert"]
    <3> HIDE DEF first, second
    <3>3. first \in Event /\ second \in Event
      BY <3>2 DEF first, second
    <3>4. <<first>> \in Seq(Event) /\ <<second>> \in Seq(Event) /\ <<>> \in Seq(Event)
      BY <3>3
    <3>5. alerts \in Seq(Event) /\ outbound' = <<first>> \o alerts
      BY <3>1, <3>4 DEF first, second
    <3>6. QED
      BY <3>4, <3>5
  <2>4. TypeOK'
    BY <1>1, <2>1, <2>2, <2>3 DEF Inv, TypeOK
  <2>5. TaskInv'
    BY <1>1, <2>1, <2>3 DEF Inv, TaskInv
  <2>6. QED
    BY <1>2, <2>4, <2>5 DEF Inv
<1>5. CASE SendEvent
  <2>1. /\ log' = Append(log, Head(outbound))
        /\ outbound' = Tail(outbound)
        /\ agg_pc' = IF Len(outbound) = 1 THEN "idle" ELSE "send"
        /\ UNCHANGED current_price
    BY <1>5 DEF SendEvent
  <2>2. outbound \in Seq(Event) /\ outbound # <<>> /\ log \in Seq(Event)
    BY <1>5 DEF SendEvent, Inv, TypeOK, TaskInv
  <2>3. /\ log' \in Seq(Event) /\ Len(log') = Len(log) + 1 /\ Len(log) \in Nat
        /\ outbound' \in Seq(Event)
        /\ Len(outbound) # 1 => outbound' # <<>>
    <3>1. Head(outbound) \in Event /\ Tail(outbound) \in Seq(Event)
      BY <2>2
    <3>2. Len(Tail(outbound)) = Len(outbound) - 1 /\ Len(outbound) \in Nat
      BY <2>2
    <3>3. log' \in Seq(Event) /\ Len(log') = Len(log) + 1 /\ Len(log) \in Nat
      BY <2>1, <2>2, <3>1
    <3>4. Len(outbound) # 1 => outbound' # <<>>
      <4>1. Len(outbound) # 1 => Len(outbound') # 0
        BY <2>1, <3>2
      <4>2. outbound' = <<>> => Len(outbound') = 0
        BY Zenon, EmptySeq
      <4>3. QED
        BY <4>1, <4>2
    <3>5. QED
      BY <2>1, <3>1, <3>3, <3>4
  <2>4. TypeOK'
    BY <1>1, <2>1, <2>3 DEF Inv, TypeOK
  <2>5. TaskInv'
    BY <1>1, <2>1, <2>3 DEF Inv, TaskInv
  <2>6. QED
    BY <1>2, <2>4, <2>5 DEF Inv
<1>6. QED
  BY <1>3, <1>4, <1>5 DEF Aggregate

-----------------------------------------------------------------------------
LEMMA InitInv == Init => Inv
<1> SUFFICES ASSUME Init PROVE Inv
  OBVIOUS
<1>1. NoConnection \in Connection /\ NoConnection.pc \notin Live /\ NoConnection.pc # "sending"
  BY DEF NoConnection, Connection, Stages, Live
<1>2. TypeOK
  BY <1>1, ServerAssumption DEF Init, TypeOK
<1>3. {c \in Clients : conn[c].pc \in Live} = {}
  BY <1>1 DEF Init
<1>4. ClientCount
  BY <1>3, FS_EmptySet DEF Init, ClientCount
<1>5. TaskInv
  BY <1>1 DEF Init, TaskInv
<1>6. QED
  BY <1>2, <1>4, <1>5 DEF Inv

(* The invariant holds in every state: types, the event in hand, the lock   *)
(* and the counter depend on one another.                                   *)
THEOREM ServerInvariance == Spec => []Inv
<1>1. Init => Inv
  BY InitInv
<1>2. Inv /\ [Next]_vars => Inv'
  <2> SUFFICES ASSUME Inv, [Next]_vars PROVE Inv'
    OBVIOUS
  <2>1. CASE Aggregate
    BY <2>1, AggregateStep
  <2>2. ASSUME NEW c \in Clients, Accept(c) \/ Task(c) \/ Peer(c) PROVE Inv'
    BY <2>2, AcceptStep, TaskStep, PeerStep
  <2>3. CASE UNCHANGED vars
    BY <2>3 DEF vars, aggregatorVars, serverVars, Inv, TypeOK, TaskInv, ClientCount
  <2>4. QED
    BY <2>1, <2>2, <2>3 DEF Next
<1>3. QED
  BY <1>1, <1>2, PTL DEF Spec

(* Every variable keeps its type; in particular the counter never goes      *)
(* below zero (mod.rs:134 would wrap).                                      *)
THEOREM ServerTypeCorrect == Spec => []TypeOK
<1>1. Inv => TypeOK
  BY DEF Inv
<1>2. QED
  BY <1>1, ServerInvariance, PTL

(* The counter is exact however the connections end (mod.rs:72, 134).       *)
THEOREM CounterIsExact == Spec => []ClientCount
<1>1. Inv => ClientCount
  BY DEF Inv
<1>2. QED
  BY <1>1, ServerInvariance, PTL

-----------------------------------------------------------------------------
(* What a step does to its connection                                       *)

(* A connection without a history: free, or just accepted.                  *)
Opened(r) ==
  /\ r.pc \in {"free", "handshake"}
  /\ r.wire = <<>>
  /\ r.hand = 0
  /\ ~ r.lagged
  /\ r.from = r.next
  /\ r.next <= Len(log) + 1

(* Neither the socket nor the receiver is touched.                          *)
Quiet(k, r) ==
  /\ r.wire = k.wire /\ r.hand = k.hand /\ r.next = k.next
  /\ r.from = k.from /\ r.lagged = k.lagged
  /\ k.closed => r.closed
  /\ \/ r.pc = k.pc /\ r.guard = k.guard /\ r.snap = k.snap
     \/ k.pc = "handshake" /\ r.pc = "joined"
     \/ k.pc = "joined" /\ r.pc = "snapshot" /\ r.guard /\ r.snap = current_price
     \/ k.pc = "joined" /\ r.pc = "stream" /\ current_price = 0
     \/ k.pc = "snapshot" /\ r.pc = "stream" /\ k.closed
     \/ k.pc \in {"stream", "ponging"} /\ r.pc \in {"stream", "ponging"}

(* A message goes to the socket: the snapshot, or the event in hand.        *)
Wrote(k, r) ==
  /\ r.pc = "stream" /\ r.next = k.next
  /\ r.from = k.from /\ r.lagged = k.lagged /\ r.closed = k.closed
  /\ \/ k.pc = "snapshot" /\ r.hand = k.hand /\ r.wire = Append(k.wire, <<0, k.snap>>)
     \/ k.pc = "sending" /\ r.hand = 0 /\ r.wire = Append(k.wire, <<k.hand, log[k.hand].tick>>)

(* An event comes out of the ring.                                          *)
Took(k, r) ==
  /\ k.pc = "stream" /\ r.pc = "sending"
  /\ k.next <= Len(log) /\ r.hand = k.next /\ r.next = k.next + 1
  /\ r.wire = k.wire /\ r.from = k.from /\ r.lagged = k.lagged /\ r.closed = k.closed

(* The receiver resumes further on.                                         *)
Skipped(k, r) ==
  /\ k.pc = "stream" /\ r.pc = "stream"
  /\ k.next < r.next /\ r.next <= Len(log) /\ r.lagged
  /\ r.wire = k.wire /\ r.hand = k.hand /\ r.from = k.from /\ r.closed = k.closed

(* Every step of the acceptor, a task or its peer does one of these things  *)
(* to one connection and leaves the others, the log and the loop alone.     *)
LEMMA ConnectionStep ==
  ASSUME Inv, NEW c \in Clients, Accept(c) \/ Task(c) \/ Peer(c)
  PROVE  /\ UNCHANGED <<aggregatorVars, log>>
         /\ \A d \in Clients \ {c} : conn'[d] = conn[d]
         /\ LET k == conn[c]
                r == conn'[c]
            IN  Opened(r) \/ Quiet(k, r) \/ Wrote(k, r) \/ Took(k, r) \/ Skipped(k, r)
<1> DEFINE k == conn[c]
           r == conn'[c]
<1>1. k \in Connection /\ conn \in [Clients -> Connection] /\ Len(log) \in Nat
  BY DEF Inv, TypeOK
<1>2. /\ UNCHANGED <<aggregatorVars, log>>
      /\ \A d \in Clients \ {c} : conn'[d] = conn[d]
  BY <1>1 DEF Accept, Task, Peer, HandshakeOk, HandshakeFail, TakeSnapshot, SnapshotSent,
     SnapshotFails, ReceiveEvent, ReceiveLagged, EventSent, EventFails, ReceivePing, PongSent,
     ReceiveClose, PeerReads, PeerPings, PeerCloses, Update, Leave
<1>3. CASE Accept(c)
  <2>1. Opened(r)
    BY <1>1, <1>3 DEF Accept, NoConnection, Opened
  <2>2. QED
    BY <1>2, <2>1
<1>4. CASE HandshakeFail(c) \/ EventFails(c) \/ ReceiveClose(c)
  <2>1. r = NoConnection
    BY <1>1, <1>4 DEF HandshakeFail, EventFails, ReceiveClose, Leave, Update
  <2>2. Opened(r)
    BY <1>1, <2>1 DEF NoConnection, Opened
  <2>3. QED
    BY <1>2, <2>2
<1>5. CASE HandshakeOk(c) \/ SnapshotFails(c) \/ ReceivePing(c) \/ Peer(c)
  <2>1. HandshakeOk(c) => Quiet(k, r)
    BY <1>1 DEF HandshakeOk, Update, Connection, Quiet
  <2>2. SnapshotFails(c) => Quiet(k, r)
    BY <1>1 DEF SnapshotFails, Update, Connection, Quiet
  <2>3. ReceivePing(c) => Quiet(k, r)
    BY <1>1 DEF ReceivePing, Update, Connection, Quiet
  <2>4. PeerReads(c) => Quiet(k, r)
    BY <1>1 DEF PeerReads, Update, Connection, Quiet
  <2>5. PeerPings(c) => Quiet(k, r)
    BY <1>1 DEF PeerPings, Update, Connection, Quiet
  <2>6. PeerCloses(c) => Quiet(k, r)
    BY <1>1 DEF PeerCloses, Update, Connection, Quiet
  <2>7. QED
    BY <1>2, <1>5, <2>1, <2>2, <2>3, <2>4, <2>5, <2>6 DEF Peer
<1>6. CASE PongSent(c)
  <2>1. k.pc = "ponging" /\ \/ r = [k EXCEPT !.pc = "stream", !.unread = @ + 1]
                            \/ r = [k EXCEPT !.pc = "stream"]
    BY <1>1, <1>6 DEF PongSent, Update
  <2>2. Quiet(k, r)
    BY <1>1, <2>1 DEF Connection, Quiet
  <2>3. QED
    BY <1>2, <2>2
<1>7. CASE TakeSnapshot(c)
  <2>1. /\ k.pc = "joined"
        /\ \/ current_price = 0 /\ r = [k EXCEPT !.pc = "stream"]
           \/ r = [k EXCEPT !.pc = "snapshot", !.guard = TRUE, !.snap = current_price]
    BY <1>1, <1>7 DEF TakeSnapshot, Update
  <2>2. Quiet(k, r)
    BY <1>1, <2>1 DEF Connection, Quiet
  <2>3. QED
    BY <1>2, <2>2
<1>8. CASE SnapshotSent(c)
  <2>1. Wrote(k, r)
    BY <1>1, <1>8 DEF SnapshotSent, Written, Update, Connection, Wrote
  <2>2. QED
    BY <1>2, <2>1
<1>9. CASE EventSent(c)
  <2>1. Wrote(k, r)
    BY <1>1, <1>9 DEF EventSent, Written, Update, Connection, Wrote
  <2>2. QED
    BY <1>2, <2>1
<1>10. CASE ReceiveEvent(c)
  <2>1. k.pc = "stream" /\ k.next \in Oldest .. Len(log)
        /\ r = [k EXCEPT !.pc = "sending", !.hand = k.next, !.next = @ + 1]
    BY <1>1, <1>10 DEF ReceiveEvent, Update
  <2>2. k.next <= Len(log)
    BY <2>1
  <2>3. Took(k, r)
    BY <1>1, <2>1, <2>2 DEF Connection, Took
  <2>4. QED
    BY <1>2, <2>3
<1>11. CASE ReceiveLagged(c)
  <2>1. k.pc = "stream" /\ k.next < Oldest /\ k.next \in Nat \ {0}
        /\ r = [k EXCEPT !.next = Oldest, !.lagged = TRUE]
    BY <1>1, <1>11 DEF ReceiveLagged, Update, Connection
  <2>2. Oldest <= Len(log)
    BY <1>1, <2>1, ServerAssumption DEF Oldest
  <2>3. Skipped(k, r)
    BY <1>1, <2>1, <2>2 DEF Connection, Skipped
  <2>4. QED
    BY <1>2, <2>3
<1>12. QED
  BY <1>3, <1>4, <1>5, <1>6, <1>7, <1>8, <1>9, <1>10, <1>11 DEF Task

(* The event in hand is one of the log.                                     *)
LEMMA EventInHand ==
  ASSUME Inv, NEW c \in Clients, conn[c].pc = "sending"
  PROVE  conn[c].hand \in 1 .. Len(log) /\ log[conn[c].hand].tick \in Nat
<1>1. conn[c].hand \in 1 .. Len(log) /\ log \in Seq(Event)
  BY DEF Inv, TypeOK, TaskInv
<1>2. log[conn[c].hand] \in Event
  BY <1>1
<1>3. QED
  BY <1>1, <1>2, ServerAssumption DEF Event

-----------------------------------------------------------------------------
(* The order of the messages on a socket                                    *)

(* Where a task is before it has written anything.                          *)
Silent == {"free", "handshake", "joined", "snapshot"}

(* The positions on the wire grow, below that of the event in hand, below    *)
(* the receiver's next.                                                     *)
Ordered(k) ==
  /\ \A i, j \in 1 .. Len(k.wire) : i < j => k.wire[i][1] < k.wire[j][1]
  /\ \A i \in 1 .. Len(k.wire) :
       k.wire[i][1] < k.next /\ (k.pc = "sending" => k.wire[i][1] < k.hand)
  /\ k.pc = "sending" => k.hand < k.next
  /\ k.pc \in Silent => k.wire = <<>>

SocketInv == \A c \in Clients : Ordered(conn[c])

(* The positions of the messages on a wire.                                 *)
LEMMA WirePositions ==
  ASSUME NEW w \in Seq(Nat \X Nat)
  PROVE  \A i \in 1 .. Len(w) : w[i][1] \in Nat
<1>1. \A i \in 1 .. Len(w) : w[i] \in Nat \X Nat
  OBVIOUS
<1>2. QED
  BY <1>1

(* A step that writes nothing and takes no event in hand.                   *)
LEMMA OrderedKept ==
  ASSUME NEW k \in Connection, NEW r \in Connection, Ordered(k),
         r.wire = k.wire, r.hand = k.hand, k.next <= r.next,
         r.pc = "sending" => k.pc = "sending",
         r.pc \in Silent => k.pc \in Silent
  PROVE  Ordered(r)
<1>1. /\ k.next \in Nat /\ r.next \in Nat /\ k.hand \in Nat
      /\ k.wire \in Seq(Nat \X Nat)
  BY DEF Connection
<1>2. \A i \in 1 .. Len(k.wire) : k.wire[i][1] \in Nat
  BY <1>1, WirePositions
<1>3. \A i \in 1 .. Len(r.wire) :
        r.wire[i][1] < r.next /\ (r.pc = "sending" => r.wire[i][1] < r.hand)
  <2>0. \A i \in 1 .. Len(k.wire) :
          k.wire[i][1] < k.next /\ (k.pc = "sending" => k.wire[i][1] < k.hand)
    BY Zenon DEF Ordered
  <2>1. SUFFICES ASSUME NEW i \in 1 .. Len(k.wire)
                 PROVE  k.wire[i][1] < r.next /\ (r.pc = "sending" => k.wire[i][1] < k.hand)
    OBVIOUS
  <2>2. k.wire[i][1] < k.next /\ (k.pc = "sending" => k.wire[i][1] < k.hand)
    BY <2>0
  <2>3. \A n \in Nat : n < k.next => n < r.next
    BY <1>1
  <2>4. k.wire[i][1] < r.next
    BY <1>2, <2>2, <2>3, Zenon
  <2>5. QED
    BY <2>2, <2>4
<1>4. r.pc = "sending" => r.hand < r.next
  BY <1>1 DEF Ordered
<1>5. QED
  BY <1>3, <1>4 DEF Ordered

(* One message more, at a position beyond all the others.                   *)
LEMMA OrderedWrite ==
  ASSUME NEW k \in Connection, NEW r \in Connection, Ordered(k),
         NEW p \in Nat, NEW t \in Nat,
         r.wire = Append(k.wire, <<p, t>>), r.next = k.next, p < k.next,
         \A i \in 1 .. Len(k.wire) : k.wire[i][1] < p,
         r.pc = "stream"
  PROVE  Ordered(r)
<1>1. k.wire \in Seq(Nat \X Nat) /\ Len(k.wire) \in Nat
  BY DEF Connection
<1>2. /\ Len(r.wire) = Len(k.wire) + 1
      /\ \A i \in 1 .. Len(k.wire) : r.wire[i] = k.wire[i]
      /\ r.wire[Len(k.wire) + 1] = <<p, t>>
  BY <1>1
<1>3. r.wire[Len(k.wire) + 1][1] = p
  BY <1>2
<1>4. \A i \in 1 .. Len(r.wire) : i \in 1 .. Len(k.wire) \/ i = Len(k.wire) + 1
  <2>1. ASSUME NEW n \in Nat PROVE \A i \in 1 .. n + 1 : i \in 1 .. n \/ i = n + 1
    OBVIOUS
  <2>2. Len(r.wire) = Len(k.wire) + 1 /\ Len(k.wire) \in Nat
    BY <1>1, <1>2
  <2>3. QED
    BY <2>1, <2>2
<1>5. ASSUME NEW i \in 1 .. Len(r.wire), NEW j \in 1 .. Len(r.wire), i < j
      PROVE  r.wire[i][1] < r.wire[j][1]
  <2>1. i \in 1 .. Len(k.wire) /\ r.wire[i] = k.wire[i]
    BY <1>1, <1>2, <1>5
  <2>2. CASE j \in 1 .. Len(k.wire)
    BY <1>2, <1>5, <2>1, <2>2 DEF Ordered
  <2>3. CASE j = Len(k.wire) + 1
    BY <1>3, <2>1, <2>3
  <2>4. QED
    BY <1>4, <2>2, <2>3
<1>6. \A i \in 1 .. Len(r.wire) : r.wire[i][1] < r.next
  BY <1>2, <1>3, <1>4 DEF Ordered
<1>7. QED
  BY <1>5, <1>6 DEF Ordered, Silent

(* A step of one connection keeps its socket in order.                      *)
LEMMA SocketStep ==
  ASSUME Inv, Inv', SocketInv, NEW c \in Clients, Accept(c) \/ Task(c) \/ Peer(c)
  PROVE  SocketInv'
<1> DEFINE k == conn[c]
           r == conn'[c]
<1>1. k \in Connection /\ r \in Connection /\ Ordered(k)
  BY DEF Inv, TypeOK, SocketInv
<1>2. k.next \in Nat /\ k.hand \in Nat /\ k.snap \in Nat /\ k.wire \in Seq(Nat \X Nat)
  BY <1>1 DEF Connection
<1>3. /\ \A d \in Clients \ {c} : conn'[d] = conn[d]
      /\ Opened(r) \/ Quiet(k, r) \/ Wrote(k, r) \/ Took(k, r) \/ Skipped(k, r)
  BY ConnectionStep
<1>4. SUFFICES Ordered(r)
  BY <1>3 DEF SocketInv
<1> HIDE DEF k, r
<1>5. CASE Opened(r)
  BY <1>5 DEF Opened, Ordered
<1>6. CASE Quiet(k, r)
  <2>1. /\ r.wire = k.wire /\ r.hand = k.hand /\ k.next <= r.next
        /\ r.pc = "sending" => k.pc = "sending"
        /\ r.pc \in Silent => k.pc \in Silent
    BY <1>2, <1>6 DEF Quiet, Silent
  <2>2. QED
    BY <1>1, <2>1, OrderedKept
<1>7. CASE Skipped(k, r)
  <2>1. /\ r.wire = k.wire /\ r.hand = k.hand /\ k.next <= r.next
        /\ r.pc # "sending" /\ r.pc \notin Silent
    <3>1. r.next \in Nat
      BY <1>1 DEF Connection
    <3>2. QED
      BY <1>2, <1>7, <3>1 DEF Skipped, Silent
  <2>2. QED
    BY <1>1, <2>1, OrderedKept
<1>8. CASE Took(k, r)
  <2>1. r.wire = k.wire /\ r.hand = k.next /\ r.next = k.next + 1 /\ r.pc = "sending"
    BY <1>8 DEF Took
  <2>2. \A i \in 1 .. Len(k.wire) : k.wire[i][1] \in Nat /\ k.wire[i][1] < k.next
    <3>1. \A i \in 1 .. Len(k.wire) : k.wire[i][1] \in Nat
      BY <1>2, WirePositions
    <3>2. \A i \in 1 .. Len(k.wire) : k.wire[i][1] < k.next
      BY <1>1 DEF Ordered
    <3>3. QED
      BY <3>1, <3>2
  <2>3. \A i \in 1 .. Len(k.wire) : k.wire[i][1] < r.next /\ k.wire[i][1] < r.hand
    <3>1. \A n \in Nat : n < k.next => n < r.next /\ n < r.hand
      BY <1>2, <2>1
    <3>2. QED
      BY <2>2, <3>1
  <2>4. \A i, j \in 1 .. Len(k.wire) : i < j => k.wire[i][1] < k.wire[j][1]
    BY <1>1 DEF Ordered
  <2>5. r.hand < r.next /\ r.pc \notin Silent
    BY <1>2, <2>1 DEF Silent
  <2>6. QED
    BY <2>1, <2>3, <2>4, <2>5 DEF Ordered
<1>9. CASE Wrote(k, r)
  <2>1. CASE k.pc = "snapshot"
    <3>1. r.wire = Append(k.wire, <<0, k.snap>>) /\ r.next = k.next /\ r.pc = "stream"
      BY <1>9, <2>1 DEF Wrote
    <3>2. k.wire = <<>>
      BY <1>1, <2>1 DEF Ordered, Silent
    <3>3. Len(k.wire) = 0 /\ 0 < k.next
      BY <1>1, <3>2 DEF Connection
    <3>4. QED
      BY <1>1, <1>2, <3>1, <3>3, OrderedWrite
  <2>2. CASE k.pc = "sending"
    <3>1. /\ r.wire = Append(k.wire, <<k.hand, log[k.hand].tick>>)
          /\ r.next = k.next /\ r.pc = "stream"
      BY <1>9, <2>2 DEF Wrote
    <3>2. log[k.hand].tick \in Nat
      BY <2>2, EventInHand DEF k
    <3>3. k.hand < k.next /\ \A i \in 1 .. Len(k.wire) : k.wire[i][1] < k.hand
      BY <1>1, <2>2 DEF Ordered
    <3>4. QED
      BY <1>1, <1>2, <3>1, <3>2, <3>3, OrderedWrite
  <2>3. QED
    BY <1>9, <2>1, <2>2 DEF Wrote
<1>10. QED
  BY <1>3, <1>5, <1>6, <1>7, <1>8, <1>9

(* A client gets its snapshot first and then events in the order of their    *)
(* broadcast, none twice, with any capacity of ring and socket and whatever  *)
(* lag, ping or reconnection comes between.                                 *)
THEOREM DeliveryIsOrdered == Spec => []OrderedDelivery
<1>1. Init => SocketInv
  <2>1. NoConnection.wire = <<>> /\ NoConnection.pc # "sending" /\ Len(NoConnection.wire) = 0
    BY DEF NoConnection
  <2>2. Ordered(NoConnection)
    BY <2>1 DEF Ordered
  <2>3. QED
    BY <2>2 DEF Init, SocketInv
<1>2. Inv /\ Inv' /\ SocketInv /\ [Next]_vars => SocketInv'
  <2> SUFFICES ASSUME Inv, Inv', SocketInv, [Next]_vars PROVE SocketInv'
    OBVIOUS
  <2>1. CASE Aggregate \/ UNCHANGED vars
    <3>1. UNCHANGED conn
      BY <2>1 DEF Aggregate, WantWrite, Commit, SendEvent, vars, serverVars
    <3>2. QED
      BY <3>1 DEF SocketInv
  <2>2. ASSUME NEW c \in Clients, Accept(c) \/ Task(c) \/ Peer(c) PROVE SocketInv'
    BY <2>2, SocketStep
  <2>3. QED
    BY <2>1, <2>2 DEF Next
<1>3. Inv /\ SocketInv => OrderedDelivery
  <2> SUFFICES ASSUME Inv, SocketInv, NEW c \in Clients,
                      NEW i \in DOMAIN conn[c].wire, NEW j \in DOMAIN conn[c].wire, i < j
               PROVE  conn[c].wire[i][1] < conn[c].wire[j][1]
    BY DEF OrderedDelivery
  <2>1. conn[c].wire \in Seq(Nat \X Nat)
    BY Fields DEF Connection
  <2>2. DOMAIN conn[c].wire = 1 .. Len(conn[c].wire)
    BY <2>1
  <2>3. QED
    BY <2>2 DEF SocketInv, Ordered
<1>4. QED
  BY <1>1, <1>2, <1>3, ServerInvariance, PTL DEF Spec

-----------------------------------------------------------------------------
(* No event is left out                                                     *)

Positions(w) == {w[i][1] : i \in 1 .. Len(w)}

Ticks(w) == {w[i][2] : i \in 1 .. Len(w)}

(* Until it reports a lag, a receiver and its socket hold every position    *)
(* from the first one on; the event in hand is the only one still to be     *)
(* written.                                                                 *)
Gapless(k) ==
  /\ k.from <= k.next
  /\ k.pc = "sending" => k.hand \in k.from .. k.next - 1
  /\ k.pc # "sending" => k.hand = 0
  /\ k.pc \in Silent => k.wire = <<>> /\ k.next = k.from
  /\ ~ k.lagged => Positions(k.wire) \ {0} = (k.from .. k.next - 1) \ {k.hand}

GapInv == \A c \in Clients : Gapless(conn[c])

(* What one more message adds to a wire.                                    *)
LEMMA WireAppend ==
  ASSUME NEW w \in Seq(Nat \X Nat), NEW p \in Nat, NEW t \in Nat
  PROVE  /\ Positions(Append(w, <<p, t>>)) = Positions(w) \cup {p}
         /\ Ticks(Append(w, <<p, t>>)) = Ticks(w) \cup {t}
<1> DEFINE v == Append(w, <<p, t>>)
<1>1. Len(w) \in Nat
  OBVIOUS
<1>2. /\ Len(v) = Len(w) + 1
      /\ \A i \in 1 .. Len(w) : v[i] = w[i]
      /\ v[Len(w) + 1] = <<p, t>>
  BY <1>1
<1> HIDE DEF v
<1>3. 1 .. Len(v) = (1 .. Len(w)) \cup {Len(w) + 1}
  BY <1>1, <1>2
<1>4. v[Len(w) + 1][1] = p /\ v[Len(w) + 1][2] = t
  BY <1>2
<1>5. Positions(v) = Positions(w) \cup {p}
  <2>1. {v[i][1] : i \in 1 .. Len(w)} = {w[i][1] : i \in 1 .. Len(w)}
    BY <1>2
  <2>2. {v[i][1] : i \in 1 .. Len(v)} = {v[i][1] : i \in 1 .. Len(w)} \cup {v[Len(w) + 1][1]}
    BY <1>3
  <2>3. QED
    BY <1>4, <2>1, <2>2 DEF Positions
<1>6. Ticks(v) = Ticks(w) \cup {t}
  <2>1. {v[i][2] : i \in 1 .. Len(w)} = {w[i][2] : i \in 1 .. Len(w)}
    BY <1>2
  <2>2. {v[i][2] : i \in 1 .. Len(v)} = {v[i][2] : i \in 1 .. Len(w)} \cup {v[Len(w) + 1][2]}
    BY <1>3
  <2>3. QED
    BY <1>4, <2>1, <2>2 DEF Ticks
<1>7. QED
  BY <1>5, <1>6 DEF v

LEMMA EmptyWire == Positions(<<>>) = {} /\ Ticks(<<>>) = {}
  BY DEF Positions, Ticks

LEMMA GapStep ==
  ASSUME Inv, Inv', GapInv, NEW c \in Clients, Accept(c) \/ Task(c) \/ Peer(c)
  PROVE  GapInv'
<1> DEFINE k == conn[c]
           r == conn'[c]
<1>1. k \in Connection /\ r \in Connection /\ Gapless(k)
  BY DEF Inv, TypeOK, GapInv
<1>2. /\ k.from \in Nat \ {0} /\ k.next \in Nat \ {0} /\ k.hand \in Nat
      /\ k.snap \in Nat /\ k.wire \in Seq(Nat \X Nat)
      /\ r.from \in Nat \ {0} /\ r.next \in Nat \ {0} /\ r.hand \in Nat
  BY <1>1 DEF Connection
<1>3. /\ \A d \in Clients \ {c} : conn'[d] = conn[d]
      /\ Opened(r) \/ Quiet(k, r) \/ Wrote(k, r) \/ Took(k, r) \/ Skipped(k, r)
  BY ConnectionStep
<1>4. SUFFICES Gapless(r)
  BY <1>3 DEF GapInv
<1> HIDE DEF k, r
<1>5. CASE Opened(r)
  <2>1. /\ r.wire = <<>> /\ r.hand = 0 /\ r.from = r.next /\ r.pc # "sending"
    BY <1>5 DEF Opened
  <2>2. r.from .. r.next - 1 = {}
    BY <1>2, <2>1
  <2>3. Positions(r.wire) = {}
    BY <2>1, EmptyWire
  <2>4. QED
    BY <1>2, <2>1, <2>2, <2>3 DEF Gapless
<1>6. CASE Quiet(k, r)
  <2>1. /\ r.wire = k.wire /\ r.hand = k.hand /\ r.next = k.next /\ r.from = k.from
        /\ r.lagged = k.lagged
        /\ r.pc = "sending" <=> k.pc = "sending"
        /\ r.pc \in Silent => k.pc \in Silent
    BY <1>6 DEF Quiet, Silent
  <2>2. QED
    BY <1>1, <2>1 DEF Gapless
<1>7. CASE Skipped(k, r)
  <2>1. /\ r.lagged /\ r.hand = k.hand /\ r.from = k.from /\ k.next < r.next
        /\ k.pc = "stream" /\ r.pc = "stream"
    BY <1>7 DEF Skipped
  <2>2. k.hand = 0 /\ k.from <= k.next
    BY <1>1, <2>1 DEF Gapless
  <2>3. r.from <= r.next
    BY <1>2, <2>1, <2>2
  <2>4. QED
    BY <2>1, <2>2, <2>3 DEF Gapless, Silent
<1>8. CASE Took(k, r)
  <2>1. /\ k.pc = "stream" /\ r.pc = "sending" /\ r.hand = k.next /\ r.next = k.next + 1
        /\ r.wire = k.wire /\ r.from = k.from /\ r.lagged = k.lagged
    BY <1>8 DEF Took
  <2>2. k.hand = 0 /\ k.from <= k.next
    BY <1>1, <2>1 DEF Gapless
  <2>3. (k.from .. k.next - 1) \ {0} = (r.from .. r.next - 1) \ {r.hand}
    BY <1>2, <2>1, <2>2
  <2>4. ~ r.lagged => Positions(r.wire) \ {0} = (r.from .. r.next - 1) \ {r.hand}
    BY <1>1, <2>1, <2>2, <2>3 DEF Gapless
  <2>5. r.from <= r.next /\ r.hand \in r.from .. r.next - 1 /\ r.pc \notin Silent
    BY <1>2, <2>1, <2>2 DEF Silent
  <2>6. QED
    BY <2>1, <2>4, <2>5 DEF Gapless
<1>9. CASE Wrote(k, r)
  <2>1. /\ r.pc = "stream" /\ r.next = k.next /\ r.from = k.from /\ r.lagged = k.lagged
    BY <1>9 DEF Wrote
  <2>2. CASE k.pc = "snapshot"
    <3>1. k.hand = 0 /\ r.hand = 0 /\ r.wire = Append(k.wire, <<0, k.snap>>)
      BY <1>1, <1>9, <2>2 DEF Wrote, Gapless
    <3>2. Positions(r.wire) = Positions(k.wire) \cup {0}
      BY <1>2, <3>1, WireAppend
    <3>3. ~ r.lagged => Positions(r.wire) \ {0} = (r.from .. r.next - 1) \ {r.hand}
      BY <1>1, <2>1, <3>1, <3>2 DEF Gapless
    <3>4. QED
      BY <1>1, <2>1, <3>1, <3>3 DEF Gapless, Silent
  <2>3. CASE k.pc = "sending"
    <3>1. r.hand = 0 /\ r.wire = Append(k.wire, <<k.hand, log[k.hand].tick>>)
      BY <1>9, <2>3 DEF Wrote
    <3>2. log[k.hand].tick \in Nat
      BY <2>3, EventInHand DEF k
    <3>3. Positions(r.wire) = Positions(k.wire) \cup {k.hand}
      BY <1>2, <3>1, <3>2, WireAppend
    <3>4. k.hand \in k.from .. k.next - 1
      BY <1>1, <2>3 DEF Gapless
    <3>5. k.hand # 0 /\ (k.from .. k.next - 1) \ {0} = k.from .. k.next - 1
      BY <1>2, <3>4
    <3>6. ~ k.lagged => Positions(k.wire) \ {0} = (k.from .. k.next - 1) \ {k.hand}
      BY <1>1 DEF Gapless
    <3>7. ~ r.lagged => Positions(r.wire) \ {0} = (r.from .. r.next - 1) \ {r.hand}
      BY <2>1, <3>1, <3>3, <3>4, <3>5, <3>6
    <3>8. QED
      BY <1>1, <2>1, <3>1, <3>7 DEF Gapless, Silent
  <2>4. QED
    BY <1>9, <2>2, <2>3 DEF Wrote
<1>10. QED
  BY <1>3, <1>5, <1>6, <1>7, <1>8, <1>9

LEMMA GapInvariance == Spec => []GapInv
<1>1. Init => GapInv
  <2>1. /\ NoConnection.wire = <<>> /\ NoConnection.hand = 0 /\ NoConnection.pc = "free"
        /\ NoConnection.from = 1 /\ NoConnection.next = 1
    BY DEF NoConnection
  <2>2. Gapless(NoConnection)
    BY <2>1, EmptyWire DEF Gapless
  <2>3. QED
    BY <2>2 DEF Init, GapInv
<1>2. Inv /\ Inv' /\ GapInv /\ [Next]_vars => GapInv'
  <2> SUFFICES ASSUME Inv, Inv', GapInv, [Next]_vars PROVE GapInv'
    OBVIOUS
  <2>1. CASE Aggregate \/ UNCHANGED vars
    <3>1. UNCHANGED conn
      BY <2>1 DEF Aggregate, WantWrite, Commit, SendEvent, vars, serverVars
    <3>2. QED
      BY <3>1 DEF GapInv
  <2>2. ASSUME NEW c \in Clients, Accept(c) \/ Task(c) \/ Peer(c) PROVE GapInv'
    BY <2>2, GapStep
  <2>3. QED
    BY <2>1, <2>2 DEF Next
<1>3. QED
  BY <1>1, <1>2, ServerInvariance, PTL DEF Spec

(* A client whose receiver has not reported a lag was sent every event since *)
(* it was accepted, up to the one in hand: neither the handshake, the        *)
(* snapshot nor a ping loses one, for any capacity of ring and socket.       *)
THEOREM NothingLeftOut == Spec => []NoSilentGap
<1>1. Inv /\ GapInv => NoSilentGap
  <2> SUFFICES ASSUME Inv, GapInv, NEW c \in Clients, ~ conn[c].lagged
               PROVE  {conn[c].wire[i][1] : i \in DOMAIN conn[c].wire} \ {0}
                        = (conn[c].from .. conn[c].next - 1) \ {conn[c].hand}
    BY DEF NoSilentGap
  <2>1. conn[c].wire \in Seq(Nat \X Nat)
    BY Fields DEF Connection
  <2>2. DOMAIN conn[c].wire = 1 .. Len(conn[c].wire)
    BY <2>1
  <2>3. QED
    BY <2>2 DEF GapInv, Gapless, Positions
<1>2. QED
  BY <1>1, GapInvariance, ServerInvariance, PTL

-----------------------------------------------------------------------------
(* Nobody who is caught up misses the current tick                          *)

(* The events still to send carry the published tick, and once they are out *)
(* the log ends with it.                                                    *)
TickInv ==
  /\ \A i \in 1 .. Len(outbound) : outbound[i].tick = current_price
  /\ outbound = <<>> /\ current_price # 0 =>
       log # <<>> /\ log[Len(log)].tick = current_price

(* A connection past its snapshot with nothing left to receive, while the   *)
(* loop has nothing left to send.                                           *)
CaughtUp(k) ==
  /\ k.pc \in {"stream", "sending", "ponging"}
  /\ ~ k.closed
  /\ k.next = Len(log) + 1
  /\ outbound = <<>>

(* The current tick was written to such a connection or is in its hand. The *)
(* snapshot taken is the current tick as long as the guard is held.         *)
Aware(k) ==
  /\ k.next <= Len(log) + 1
  /\ k.pc = "snapshot" => k.guard /\ k.snap = current_price
  /\ CaughtUp(k) /\ current_price # 0 =>
       \/ current_price \in Ticks(k.wire)
       \/ k.pc = "sending" /\ log[k.hand].tick = current_price

AwareInv == TickInv /\ \A c \in Clients : Aware(conn[c])

LEMMA AwareConnection ==
  ASSUME Inv, Inv', AwareInv, GapInv, NEW c \in Clients, Accept(c) \/ Task(c) \/ Peer(c)
  PROVE  AwareInv'
<1> DEFINE k == conn[c]
           r == conn'[c]
<1>1. k \in Connection /\ r \in Connection /\ Aware(k) /\ Gapless(k)
  BY DEF Inv, TypeOK, AwareInv, GapInv
<1>2. /\ k.next \in Nat \ {0} /\ r.next \in Nat \ {0} /\ k.hand \in Nat /\ k.snap \in Nat
      /\ k.wire \in Seq(Nat \X Nat) /\ Len(log) \in Nat /\ current_price \in Nat
  BY <1>1, ServerAssumption DEF Connection, Inv, TypeOK
<1>3. /\ \A d \in Clients \ {c} : conn'[d] = conn[d]
      /\ Opened(r) \/ Quiet(k, r) \/ Wrote(k, r) \/ Took(k, r) \/ Skipped(k, r)
      /\ UNCHANGED <<current_price, outbound, log>>
  BY ConnectionStep DEF aggregatorVars
<1>4. SUFFICES Aware(r)
  <2>1. AwareInv' <=> TickInv /\ \A d \in Clients : Aware(conn'[d])
    BY <1>3 DEF AwareInv, TickInv, Aware, CaughtUp
  <2>2. QED
    BY <1>3, <2>1 DEF AwareInv
<1>5. outbound = <<>> /\ current_price # 0 => log[Len(log)].tick = current_price
  BY DEF AwareInv, TickInv
<1>6. k.pc = "sending" => log[k.hand].tick \in Nat
  BY EventInHand DEF k
<1> HIDE DEF k, r
<1>7. CASE Opened(r)
  BY <1>7 DEF Opened, Aware, CaughtUp
<1>8. CASE Quiet(k, r)
  <2>1. r.wire = k.wire /\ r.hand = k.hand /\ r.next = k.next /\ (k.closed => r.closed)
    BY <1>8 DEF Quiet
  <2>2. r.pc = "snapshot" => r.guard /\ r.snap = current_price
    BY <1>1, <1>8 DEF Quiet, Aware
  <2>3. ASSUME CaughtUp(r), current_price # 0
        PROVE  CaughtUp(k) /\ (k.pc = "sending" => r.pc = "sending")
    BY <1>8, <2>1, <2>3 DEF Quiet, CaughtUp
  <2>4. QED
    BY <1>1, <2>1, <2>2, <2>3 DEF Aware
<1>9. CASE Skipped(k, r)
  <2>1. r.next <= Len(log) /\ r.pc = "stream"
    BY <1>9 DEF Skipped
  <2>2. r.next # Len(log) + 1 /\ r.next <= Len(log) + 1
    BY <1>2, <2>1
  <2>3. QED
    BY <2>1, <2>2 DEF Aware, CaughtUp
<1>10. CASE Took(k, r)
  <2>1. k.next <= Len(log) /\ r.hand = k.next /\ r.next = k.next + 1 /\ r.pc = "sending"
    BY <1>10 DEF Took
  <2>2. r.next <= Len(log) + 1 /\ (r.next = Len(log) + 1 => r.hand = Len(log))
    BY <1>2, <2>1
  <2>3. QED
    BY <1>5, <2>1, <2>2 DEF Aware, CaughtUp
<1>11. CASE Wrote(k, r)
  <2>1. r.pc = "stream" /\ r.next = k.next /\ r.closed = k.closed
    BY <1>11 DEF Wrote
  <2>2. CASE k.pc = "snapshot"
    <3>1. r.wire = Append(k.wire, <<0, k.snap>>) /\ k.snap = current_price
      BY <1>1, <1>11, <2>2 DEF Wrote, Aware
    <3>2. current_price \in Ticks(r.wire)
      BY <1>2, <3>1, WireAppend
    <3>3. QED
      BY <1>1, <2>1, <3>2 DEF Aware
  <2>3. CASE k.pc = "sending"
    <3>1. r.wire = Append(k.wire, <<k.hand, log[k.hand].tick>>)
      BY <1>11, <2>3 DEF Wrote
    <3>2. Ticks(r.wire) = Ticks(k.wire) \cup {log[k.hand].tick}
      BY <1>2, <1>6, <2>3, <3>1, WireAppend
    <3>3. CaughtUp(r) => CaughtUp(k)
      BY <2>1, <2>3 DEF CaughtUp
    <3>4. QED
      BY <1>1, <2>1, <3>2, <3>3 DEF Aware
  <2>4. QED
    BY <1>11, <2>2, <2>3 DEF Wrote
<1>12. QED
  BY <1>3, <1>7, <1>8, <1>9, <1>10, <1>11

(* The loop: a new tick waits in outbound, and while it publishes one no    *)
(* snapshot is on its way.                                                  *)
LEMMA AwareLoop ==
  ASSUME Inv, Inv', AwareInv, Aggregate
  PROVE  AwareInv'
<1>1. UNCHANGED conn /\ Len(log) \in Nat
  BY DEF Aggregate, WantWrite, Commit, SendEvent, serverVars, Inv, TypeOK
<1>2. \A c \in Clients : conn[c] \in Connection /\ Aware(conn[c])
  BY DEF Inv, TypeOK, AwareInv
<1>3. CASE WantWrite
  BY <1>1, <1>3 DEF WantWrite, AwareInv, TickInv, Aware, CaughtUp
<1>4. CASE Commit
  <2>1. /\ agg_pc' = "send" /\ current_price' = current_price + 1 /\ log' = log
        /\ ReadGuards = {}
    BY <1>4 DEF Commit
  <2>2. outbound' # <<>>
    BY <2>1 DEF Inv, TaskInv
  <2>3. \A i \in 1 .. Len(outbound') : outbound'[i].tick = current_price'
    <3> DEFINE Now == [tick : {current_price'}, kind : {"tick", "alert"}]
               first == [tick |-> current_price', kind |-> "tick"]
               second == [tick |-> current_price', kind |-> "alert"]
    <3>1. PICK alerts \in {<<>>, <<second>>} : outbound' = <<first>> \o alerts
      BY <1>4 DEF Commit
    <3>2. first \in Now /\ second \in Now /\ \A e \in Now : e.tick = current_price'
      OBVIOUS
    <3> HIDE DEF first, second, Now
    <3>3. <<first>> \in Seq(Now) /\ <<second>> \in Seq(Now) /\ <<>> \in Seq(Now)
      BY <3>2
    <3>4. outbound' \in Seq(Now)
      BY <3>1, <3>3, ConcatProperties
    <3>5. \A i \in 1 .. Len(outbound') : outbound'[i] \in Now
      BY <3>4
    <3>6. QED
      BY <3>2, <3>5
  <2>4. TickInv'
    BY <2>2, <2>3 DEF TickInv
  <2>5. ASSUME NEW c \in Clients PROVE Aware(conn[c])'
    <3>1. conn[c].next <= Len(log) + 1
      BY <1>2 DEF Aware
    <3>2. conn[c].pc # "snapshot"
      BY <1>2, <2>1 DEF Aware, ReadGuards
    <3>3. QED
      BY <1>1, <2>1, <2>2, <3>1, <3>2 DEF Aware, CaughtUp
  <2>6. QED
    BY <2>4, <2>5 DEF AwareInv
<1>5. CASE SendEvent
  <2>1. /\ log' = Append(log, Head(outbound)) /\ outbound' = Tail(outbound)
        /\ current_price' = current_price
        /\ outbound \in Seq(Event) /\ outbound # <<>> /\ log \in Seq(Event)
    BY <1>5 DEF SendEvent, Inv, TypeOK, TaskInv
  <2>2. /\ Head(outbound) = outbound[1] /\ 1 \in 1 .. Len(outbound)
        /\ \A i \in 1 .. Len(outbound') : i + 1 \in 1 .. Len(outbound) /\ outbound'[i] = outbound[i + 1]
    BY <2>1
  <2>3. \A i \in 1 .. Len(outbound) : outbound[i].tick = current_price
    BY DEF AwareInv, TickInv
  <2>4. Head(outbound) \in Event /\ Head(outbound).tick = current_price
    BY <2>1, <2>2, <2>3
  <2>5. Len(log') = Len(log) + 1 /\ log'[Len(log')] = Head(outbound)
    BY <2>1, <2>4
  <2>6. log' # <<>>
    <3>1. Len(log') # 0
      BY <1>1, <2>5
    <3>2. QED
      BY <3>1, EmptySeq
  <2>7. TickInv'
    BY <2>1, <2>2, <2>3, <2>4, <2>5, <2>6 DEF TickInv
  <2>8. ASSUME NEW c \in Clients PROVE Aware(conn[c])'
    <3>1. conn[c].next <= Len(log) + 1 /\ conn[c].next \in Nat
      BY <1>2 DEF Aware, Connection
    <3>2. conn[c].next <= Len(log') + 1 /\ conn[c].next # Len(log') + 1
      BY <1>1, <2>5, <3>1
    <3>3. conn[c].pc = "snapshot" => conn[c].guard /\ conn[c].snap = current_price
      BY <1>2 DEF Aware
    <3>4. QED
      BY <1>1, <2>1, <3>2, <3>3 DEF Aware, CaughtUp
  <2>9. QED
    BY <2>7, <2>8 DEF AwareInv
<1>6. QED
  BY <1>3, <1>4, <1>5 DEF Aggregate

(* A client that reads along and has nothing left to receive was sent the   *)
(* current tick, by its snapshot or as an event, also after a lag: there is *)
(* no order of subscription, snapshot, commit and broadcast in which a tick *)
(* falls between the snapshot and the stream (mod.rs:45, 79).               *)
THEOREM NoTickFallsBetween == Spec => []CaughtUpKnowsCurrent
<1>1. Init => AwareInv
  <2>1. NoConnection.pc = "free" /\ NoConnection.next = 1
    BY DEF NoConnection
  <2>2. ASSUME Init PROVE TickInv /\ \A c \in Clients : Aware(conn[c])
    BY <2>1, <2>2 DEF Init, TickInv, Aware, CaughtUp
  <2>3. QED
    BY <2>2 DEF AwareInv
<1>2. Inv /\ Inv' /\ AwareInv /\ GapInv /\ [Next]_vars => AwareInv'
  <2> SUFFICES ASSUME Inv, Inv', AwareInv, GapInv, [Next]_vars PROVE AwareInv'
    OBVIOUS
  <2>1. CASE Aggregate
    BY <2>1, AwareLoop
  <2>2. CASE UNCHANGED vars
    BY <2>2 DEF vars, aggregatorVars, serverVars, AwareInv, TickInv, Aware, CaughtUp
  <2>3. ASSUME NEW c \in Clients, Accept(c) \/ Task(c) \/ Peer(c) PROVE AwareInv'
    BY <2>3, AwareConnection
  <2>4. QED
    BY <2>1, <2>2, <2>3 DEF Next
<1>3. Inv /\ AwareInv => CaughtUpKnowsCurrent
  <2> SUFFICES ASSUME Inv, AwareInv, NEW c \in Clients,
                      conn[c].pc = "stream", ~ conn[c].closed,
                      conn[c].next = Len(log) + 1, outbound = <<>>, current_price # 0
               PROVE  \E i \in DOMAIN conn[c].wire : conn[c].wire[i][2] = current_price
    BY DEF CaughtUpKnowsCurrent
  <2>1. conn[c].wire \in Seq(Nat \X Nat)
    BY Fields DEF Connection
  <2>2. DOMAIN conn[c].wire = 1 .. Len(conn[c].wire)
    BY <2>1
  <2>3. CaughtUp(conn[c]) /\ Aware(conn[c])
    BY DEF CaughtUp, AwareInv
  <2>4. current_price \in Ticks(conn[c].wire)
    BY <2>3 DEF Aware
  <2>5. QED
    BY <2>2, <2>4 DEF Ticks
<1>4. QED
  BY <1>1, <1>2, <1>3, GapInvariance, ServerInvariance, PTL DEF Spec

=============================================================================
