----------------------------- MODULE ClientsProofs -----------------------------
(***************************************************************************)
(* Proofs about ExchangeClients, for every set of exchanges and prices,      *)
(* every capacity of the channel and every maximal backoff: the types, that  *)
(* the clients implement QuoteFeed, and how the pauses grow.                 *)
(***************************************************************************)
EXTENDS ExchangeClients, FiniteSetTheorems, TLAPS

(* A client has a quote in hand exactly while it waits for the channel.      *)
HandInv == \A e \in Exchanges : feed[e] # None <=> pc[e] = "sending"

Inv == TypeOK /\ HandInv

LEMMA InitInv == Init => Inv
  BY ClientsAssumption DEF Init, Inv, TypeOK, HandInv, Stages

(* The smaller of two numbers in an interval of the naturals.                *)
LEMMA LesserBound ==
  ASSUME NEW a \in Nat \ {0}, NEW b \in Nat \ {0}
  PROVE  Lesser(a, b) \in 1 .. b
  BY DEF Lesser

(* An error leaves everything but the retry state alone.                     *)
LEMMA FailInv ==
  ASSUME Inv, NEW e \in Exchanges, pc[e] # "sending", Fail(e)
  PROVE  Inv'
<1>1. /\ pc' = [pc EXCEPT ![e] = "sleeping"]
      /\ remaining' = [remaining EXCEPT ![e] = backoff[e]]
      /\ ping' = [ping EXCEPT ![e] = FALSE]
      /\ UNCHANGED <<feed, channel, up, backoff, exchange_status, price_buffer>>
  BY DEF Fail, Goto, loopVars
<1>2. errors' = [errors EXCEPT ![e] = IF Pause(@) = MaxBackoff THEN @ ELSE @ + 1]
  BY DEF Fail
<1>3. errors' \in [Exchanges -> Nat]
  BY <1>2 DEF Inv, TypeOK
<1>4. pc' \in [Exchanges -> Stages]
  BY <1>1 DEF Inv, TypeOK, Stages
<1>5. remaining' \in [Exchanges -> 0 .. MaxBackoff]
  <2>1. backoff[e] \in 0 .. MaxBackoff
    BY ClientsAssumption DEF Inv, TypeOK
  <2>2. QED
    BY <1>1, <2>1 DEF Inv, TypeOK
<1>6. ping' \in [Exchanges -> BOOLEAN]
  BY <1>1 DEF Inv, TypeOK
<1>7. HandInv'
  BY <1>1 DEF Inv, TypeOK, HandInv
<1>8. QED
  BY <1>1, <1>3, <1>4, <1>5, <1>6, <1>7 DEF Inv, TypeOK

(* Steps between two stages that touch neither quotes nor pauses.            *)
LEMMA MoveInv ==
  ASSUME Inv, NEW e \in Exchanges, NEW stage \in Stages \ {"sending"},
         pc[e] # "sending", Goto(e, stage),
         ping' \in [Exchanges -> BOOLEAN],
         UNCHANGED <<feed, channel, up, retryVars, loopVars>>
  PROVE  Inv'
<1>1. pc' = [pc EXCEPT ![e] = stage]
  BY DEF Goto
<1>2. pc' \in [Exchanges -> Stages]
  BY <1>1 DEF Inv, TypeOK
<1>3. HandInv'
  BY <1>1 DEF Inv, TypeOK, HandInv
<1>4. QED
  BY <1>2, <1>3 DEF Inv, TypeOK, retryVars, loopVars

(* Every step preserves the invariant.                                       *)
LEMMA NextInv ==
  ASSUME Inv, [Next]_vars
  PROVE  Inv'
<1>1. CASE Elapse
  <2>1. remaining' \in [Exchanges -> 0 .. MaxBackoff]
    BY <1>1, ClientsAssumption DEF Elapse, Inv, TypeOK
  <2>2. QED
    BY <1>1, <2>1 DEF Elapse, Inv, TypeOK, HandInv, linkVars, loopVars
<1>2. ASSUME NEW e \in Exchanges, Toggle(e) PROVE Inv'
  BY <1>2 DEF Toggle, Inv, TypeOK, HandInv, retryVars, loopVars
<1>3. ASSUME NEW e \in Exchanges, Ping(e) PROVE Inv'
  BY <1>3 DEF Ping, Inv, TypeOK, HandInv, retryVars, loopVars
<1>4. CASE RecvPrice
  <2>1. /\ channel \in Seq(Exchanges \X Prices) /\ channel # <<>>
        /\ channel' = Tail(channel)
    BY <1>4 DEF RecvPrice, Inv, TypeOK
  <2>2. Head(channel) \in Exchanges \X Prices /\ channel' \in Seq(Exchanges \X Prices)
    BY <2>1
  <2>3. /\ exchange_status' \in [Exchanges -> {TRUE, None}]
        /\ price_buffer' \in [Exchanges -> Prices \cup {None}]
    BY <1>4, <2>2 DEF RecvPrice, Inv, TypeOK
  <2>4. QED
    BY <1>4, <2>2, <2>3 DEF RecvPrice, Inv, TypeOK, HandInv, linkVars, retryVars
<1>5. ASSUME NEW e \in Exchanges, Connect(e) PROVE Inv'
  <2>1. PICK stage \in {"subscribing", "reading"} : Goto(e, stage)
    BY <1>5 DEF Connect
  <2>2. QED
    BY <1>5, <2>1, MoveInv DEF Connect, Inv, TypeOK, Stages, linkVars
<1>6. ASSUME NEW e \in Exchanges, Subscribe(e) PROVE Inv'
  BY <1>6, MoveInv DEF Subscribe, Inv, TypeOK, Stages, linkVars
<1>7. ASSUME NEW e \in Exchanges, ReadPing(e) PROVE Inv'
  BY <1>7, MoveInv DEF ReadPing, Inv, TypeOK, Stages, linkVars
<1>8. ASSUME NEW e \in Exchanges, PongSent(e) PROVE Inv'
  BY <1>8, MoveInv DEF PongSent, Inv, TypeOK, Stages
<1>9. ASSUME NEW e \in Exchanges,
             ConnectFails(e) \/ SubscribeFails(e) \/ PongFails(e) \/ ReadFails(e)
      PROVE Inv'
  BY <1>9, FailInv DEF ConnectFails, SubscribeFails, PongFails, ReadFails
<1>10. ASSUME NEW e \in Exchanges, ReadQuote(e) PROVE Inv'
  <2>1. PICK p \in Prices : feed' = [feed EXCEPT ![e] = p]
    BY <1>10 DEF ReadQuote
  <2>2. pc' = [pc EXCEPT ![e] = "sending"]
    BY <1>10 DEF ReadQuote, Goto
  <2>3. p # None
    BY ClientsAssumption
  <2>4. HandInv'
    BY <2>1, <2>2, <2>3 DEF Inv, TypeOK, HandInv
  <2>5. QED
    BY <1>10, <2>1, <2>2, <2>4
       DEF ReadQuote, Inv, TypeOK, Stages, linkVars, retryVars, loopVars
<1>11. ASSUME NEW e \in Exchanges, QuoteSent(e) PROVE Inv'
  <2>1. pc' = [pc EXCEPT ![e] = "reading"] /\ feed' = [feed EXCEPT ![e] = None]
    BY <1>11 DEF QuoteSent, Goto
  <2>2. feed[e] \in Prices
    BY <1>11 DEF QuoteSent, Inv, TypeOK, HandInv
  <2>3. channel' \in Seq(Exchanges \X Prices)
    BY <1>11, <2>2 DEF QuoteSent, Inv, TypeOK
  <2>4. HandInv'
    BY <2>1 DEF Inv, TypeOK, HandInv
  <2>5. QED
    BY <1>11, <2>1, <2>3, <2>4
       DEF QuoteSent, Inv, TypeOK, Stages, linkVars, retryVars, loopVars
<1>12. ASSUME NEW e \in Exchanges, ReadEnd(e) PROVE Inv'
  <2>1. pc' = [pc EXCEPT ![e] = "connecting"] /\ pc[e] = "reading"
    BY <1>12 DEF ReadEnd, Goto
  <2>2. backoff' \in [Exchanges -> 1 .. MaxBackoff] /\ errors' \in [Exchanges -> Nat]
    BY <1>12, ClientsAssumption DEF ReadEnd, Inv, TypeOK
  <2>3. QED
    BY <1>12, <2>1, <2>2 DEF ReadEnd, Inv, TypeOK, HandInv, Stages, loopVars
<1>13. ASSUME NEW e \in Exchanges, Wake(e) PROVE Inv'
  <2>1. pc' = [pc EXCEPT ![e] = "connecting"] /\ pc[e] = "sleeping"
    BY <1>13 DEF Wake, Goto
  <2>2. Lesser(2 * backoff[e], MaxBackoff) \in 1 .. MaxBackoff
    <3>1. backoff[e] \in 1 .. MaxBackoff /\ MaxBackoff \in Nat \ {0}
      BY ClientsAssumption DEF Inv, TypeOK
    <3>2. 2 * backoff[e] \in Nat \ {0}
      BY <3>1
    <3>3. QED
      BY <3>1, <3>2, LesserBound
  <2>3. backoff' \in [Exchanges -> 1 .. MaxBackoff]
    BY <1>13, <2>2 DEF Wake, Inv, TypeOK
  <2>4. QED
    BY <1>13, <2>1, <2>3 DEF Wake, Inv, TypeOK, HandInv, Stages, linkVars, loopVars
<1>14. CASE UNCHANGED vars
  BY <1>14 DEF vars, linkVars, retryVars, loopVars, Inv, TypeOK, HandInv
<1>15. QED
  BY <1>1, <1>2, <1>3, <1>4, <1>5, <1>6, <1>7, <1>8, <1>9, <1>10, <1>11, <1>12, <1>13, <1>14
     DEF Next, Environment, Client, Connecting, Reading, Writing

(* The inductive invariant of the clients: the types, and a quote in hand    *)
(* exactly while the client waits for room in the channel.                   *)
THEOREM ClientsInvariance == Spec => []Inv
  BY InitInv, NextInv, PTL DEF Spec

(* Every variable of the clients keeps its type: in particular the backoff   *)
(* never leaves 1 .. MaxBackoff (exchange_client.rs:34).                     *)
THEOREM ClientsTypeCorrect == Spec => []TypeOK
<1>1. Inv => TypeOK
  BY DEF Inv
<1>2. QED
  BY <1>1, ClientsInvariance, PTL

(* A step of the clients is a step of the feed or leaves it alone.           *)
LEMMA FeedStep ==
  ASSUME Inv, [Next]_vars
  PROVE  [Feed!Next]_(Feed!quoteVars)
<1> USE DEF Feed!quoteVars
<1>1. CASE RecvPrice
  BY <1>1 DEF RecvPrice, Feed!Next, Feed!Take
<1>2. ASSUME NEW e \in Exchanges, ReadQuote(e) PROVE Feed!Next
  <2>1. feed[e] = None
    BY <1>2 DEF ReadQuote, Inv, HandInv
  <2>2. Feed!Stamp(e)
    BY <1>2, <2>1 DEF ReadQuote, Feed!Stamp, loopVars
  <2>3. QED
    BY <2>2 DEF Feed!Next
<1>3. ASSUME NEW e \in Exchanges, QuoteSent(e) PROVE Feed!Next
  <2>1. feed[e] # None
    BY <1>3 DEF QuoteSent, Inv, HandInv
  <2>2. Feed!Send(e)
    BY <1>3, <2>1 DEF QuoteSent, Feed!Send, loopVars
  <2>3. QED
    BY <2>2 DEF Feed!Next
<1>4. ASSUME NEW e \in Exchanges,
             \/ Toggle(e) \/ Ping(e)
             \/ Connect(e) \/ ConnectFails(e) \/ Subscribe(e) \/ SubscribeFails(e)
             \/ ReadPing(e) \/ ReadFails(e) \/ ReadEnd(e) \/ PongSent(e) \/ PongFails(e)
             \/ Wake(e)
      PROVE  UNCHANGED <<feed, channel, price_buffer>>
  BY <1>4 DEF Toggle, Ping, Connect, ConnectFails, Subscribe, SubscribeFails, ReadPing,
              ReadFails, ReadEnd, PongSent, PongFails, Wake, Fail, loopVars
<1>5. CASE Elapse \/ UNCHANGED vars
  BY <1>5 DEF Elapse, vars, loopVars
<1>6. QED
  BY <1>1, <1>2, <1>3, <1>4, <1>5
     DEF Next, Environment, Client, Connecting, Reading, Writing

(* The clients implement the feed the aggregation loop relies on, for any    *)
(* number of exchanges and places in the channel: no outage, reconnection,   *)
(* ping or full channel loses, repeats or reorders a quote.                  *)
THEOREM ClientsImplementFeed == Spec => ImplementsQuoteFeed
<1>1. Init => Feed!Init
  BY DEF Init, Feed!Init
<1>2. Inv /\ [Next]_vars => [Feed!Next]_(Feed!quoteVars)
  BY FeedStep
<1>3. QED
  BY <1>1, <1>2, ClientsInvariance, PTL DEF Spec, ImplementsQuoteFeed, Feed!Spec

-----------------------------------------------------------------------------
(* The pauses between attempts                                              *)

(* A power of two is the number of subsets of an interval: each element      *)
(* added to the interval doubles it.                                        *)
LEMMA PowerDoubles ==
  ASSUME NEW k \in Nat
  PROVE  2 ^ k \in Nat \ {0} /\ 2 ^ (k + 1) = 2 * 2 ^ k
<1> DEFINE S == 1 .. k
           x == k + 1
           new == {A \cup {x} : A \in SUBSET S}
           add == [A \in SUBSET S |-> A \cup {x}]
<1>1. /\ IsFiniteSet(S) /\ Cardinality(S) = k
      /\ IsFiniteSet(1 .. k + 1) /\ Cardinality(1 .. k + 1) = k + 1
  BY FS_Interval
<1>2. x \notin S /\ 1 .. k + 1 = S \cup {x}
  OBVIOUS
<1> HIDE DEF S, x
<1>3. IsFiniteSet(SUBSET S) /\ Cardinality(SUBSET S) = 2 ^ k
  BY <1>1, FS_SUBSET
<1>4. Cardinality(SUBSET (S \cup {x})) = 2 ^ (k + 1)
  <2>1. Cardinality(SUBSET (1 .. k + 1)) = 2 ^ Cardinality(1 .. k + 1)
    BY <1>1, FS_SUBSET
  <2>2. QED
    BY <1>1, <1>2, <2>1
<1>5. add \in Bijection(SUBSET S, new)
  <2>1. ASSUME NEW A \in SUBSET S, NEW B \in SUBSET S, A \cup {x} = B \cup {x}
        PROVE  A = B
    BY <1>2, <2>1
  <2>2. add \in Injection(SUBSET S, new)
    <3>1. add \in [SUBSET S -> new] /\ DOMAIN add = SUBSET S
      OBVIOUS
    <3>2. \A A \in SUBSET S : add[A] = A \cup {x}
      OBVIOUS
    <3> HIDE DEF add, new
    <3>3. IsInjective(add)
      BY <2>1, <3>1, <3>2 DEF IsInjective
    <3>4. QED
      BY <3>1, <3>3 DEF Injection
  <2>3. add \in Surjection(SUBSET S, new)
    BY DEF Surjection
  <2>4. QED
    BY <2>2, <2>3 DEF Bijection
<1>6. IsFiniteSet(new) /\ Cardinality(new) = 2 ^ k
  BY <1>3, <1>5, FS_Bijection DEF ExistsBijection
<1>7. SUBSET (S \cup {x}) = (SUBSET S) \cup new
  <2>1. ASSUME NEW T \in SUBSET (S \cup {x}) PROVE T \in (SUBSET S) \cup new
    <3>1. CASE x \in T
      <4>1. T \ {x} \in SUBSET S /\ T = (T \ {x}) \cup {x}
        BY <3>1
      <4>2. QED
        BY <4>1
    <3>2. CASE x \notin T
      BY <3>2
    <3>3. QED
      BY <3>1, <3>2
  <2>2. QED
    BY <2>1
<1>8. (SUBSET S) \cap new = {}
  BY <1>2
<1>9. Cardinality(SUBSET (S \cup {x})) = 2 ^ k + 2 ^ k
  <2> HIDE DEF new
  <2>1. Cardinality((SUBSET S) \cup new)
          = Cardinality(SUBSET S) + Cardinality(new) - Cardinality((SUBSET S) \cap new)
    BY <1>3, <1>6, FS_Union
  <2>2. 2 ^ k \in Nat
    BY <1>3, FS_CardinalityType
  <2>3. Cardinality((SUBSET S) \cap new) = 0
    BY <1>8, FS_EmptySet
  <2> DEFINE p == 2 ^ k
             c == Cardinality((SUBSET S) \cup new)
  <2>4. p \in Nat /\ c = p + p - 0
    BY <1>3, <1>6, <2>1, <2>2, <2>3
  <2> HIDE DEF p, c
  <2>5. c = p + p
    BY <2>4
  <2>6. QED
    BY <1>7, <2>5 DEF p, c
<1>10. 2 ^ k \in Nat \ {0}
  <2>1. SUBSET S # {}
    OBVIOUS
  <2>2. QED
    BY <1>3, <2>1, FS_CardinalityType, FS_EmptySet
<1>11. QED
  BY <1>4, <1>9, <1>10

(* The pauses start with a second and double up to the maximum.             *)
LEMMA PauseDoubles ==
  /\ Pause(0) = 1
  /\ \A k \in Nat : /\ Pause(k) \in 1 .. MaxBackoff
                    /\ Pause(k + 1) = Lesser(2 * Pause(k), MaxBackoff)
<1>1. MaxBackoff \in Nat \ {0}
  BY ClientsAssumption
<1>2. Pause(0) = 1
  <2>1. 2 ^ 0 = 1
    OBVIOUS
  <2>2. QED
    BY <1>1, <2>1 DEF Pause, Lesser
<1>3. ASSUME NEW k \in Nat
      PROVE  /\ Pause(k) \in 1 .. MaxBackoff
             /\ Pause(k + 1) = Lesser(2 * Pause(k), MaxBackoff)
  <2> DEFINE p == 2 ^ k
             q == 2 ^ (k + 1)
  <2>1. p \in Nat \ {0} /\ q = 2 * p
    BY PowerDoubles
  <2>2. Pause(k) = Lesser(p, MaxBackoff) /\ Pause(k + 1) = Lesser(q, MaxBackoff)
    BY DEF Pause
  <2> HIDE DEF p, q
  <2>3. QED
    BY <1>1, <2>1, <2>2 DEF Lesser
<1>4. QED
  BY <1>2, <1>3

(* While a client sleeps, its error is counted but the backoff not doubled   *)
(* yet: doubling it gives the pause after one more error.                   *)
PauseInv ==
  \A e \in Exchanges :
    /\ pc[e] # "sleeping" => backoff[e] = Pause(errors[e])
    /\ pc[e] = "sleeping" => /\ remaining[e] <= backoff[e]
                             /\ Pause(errors[e]) = Lesser(2 * backoff[e], MaxBackoff)

LEMMA PauseStep ==
  ASSUME Inv, PauseInv, [Next]_vars
  PROVE  PauseInv'
<1> USE DEF PauseInv
<1>1. ASSUME NEW e \in Exchanges,
             ConnectFails(e) \/ SubscribeFails(e) \/ PongFails(e) \/ ReadFails(e)
      PROVE  PauseInv'
  <2> DEFINE k == errors[e]
             n == IF Pause(k) = MaxBackoff THEN k ELSE k + 1
  <2>1. /\ pc[e] # "sleeping"
        /\ pc' = [pc EXCEPT ![e] = "sleeping"]
        /\ remaining' = [remaining EXCEPT ![e] = backoff[e]]
        /\ errors' = [errors EXCEPT ![e] = n]
        /\ UNCHANGED backoff
    BY <1>1 DEF ConnectFails, SubscribeFails, PongFails, ReadFails, Fail, Goto
  <2>2. k \in Nat /\ backoff[e] = Pause(k) /\ backoff[e] \in 1 .. MaxBackoff
    BY <2>1 DEF Inv, TypeOK
  <2>3. Pause(n) = Lesser(2 * backoff[e], MaxBackoff)
    <3>1. CASE Pause(k) = MaxBackoff
      BY <3>1, <2>2, ClientsAssumption DEF Lesser
    <3>2. CASE Pause(k) # MaxBackoff
      BY <3>2, <2>2, PauseDoubles
    <3>3. QED
      BY <3>1, <3>2
  <2> HIDE DEF n
  <2>4. /\ pc'[e] = "sleeping" /\ remaining'[e] = backoff[e] /\ errors'[e] = n
        /\ \A o \in Exchanges \ {e} :
             pc'[o] = pc[o] /\ remaining'[o] = remaining[o] /\ errors'[o] = errors[o]
    BY <2>1 DEF Inv, TypeOK
  <2>5. QED
    BY <2>1, <2>2, <2>3, <2>4
<1>2. ASSUME NEW e \in Exchanges, Wake(e) PROVE PauseInv'
  <2>1. /\ pc[e] = "sleeping"
        /\ pc'[e] = "connecting" /\ backoff'[e] = Lesser(2 * backoff[e], MaxBackoff)
        /\ \A o \in Exchanges \ {e} : pc'[o] = pc[o] /\ backoff'[o] = backoff[o]
        /\ UNCHANGED <<remaining, errors>>
    BY <1>2 DEF Wake, Goto, Inv, TypeOK
  <2>2. QED
    BY <2>1
<1>3. ASSUME NEW e \in Exchanges, ReadEnd(e) PROVE PauseInv'
  <2>1. /\ pc'[e] = "connecting" /\ backoff'[e] = 1 /\ errors'[e] = 0
        /\ \A o \in Exchanges \ {e} :
             pc'[o] = pc[o] /\ backoff'[o] = backoff[o] /\ errors'[o] = errors[o]
        /\ UNCHANGED remaining
    BY <1>3 DEF ReadEnd, Goto, Inv, TypeOK
  <2>2. QED
    BY <2>1, PauseDoubles
<1>4. CASE Elapse
  <2>1. UNCHANGED <<pc, backoff, errors>>
    BY <1>4 DEF Elapse
  <2>2. ASSUME NEW e \in Exchanges PROVE remaining'[e] <= remaining[e]
    BY <1>4, ClientsAssumption DEF Elapse, Inv, TypeOK
  <2>3. ASSUME NEW e \in Exchanges
        PROVE  remaining'[e] \in Nat /\ remaining[e] \in Nat /\ backoff[e] \in Nat
    BY <1>4, ClientsAssumption DEF Elapse, Inv, TypeOK
  <2>4. QED
    BY <2>1, <2>2, <2>3
<1>5. ASSUME NEW e \in Exchanges, NEW stage \in Stages \ {"sleeping"},
             pc[e] # "sleeping", Goto(e, stage), UNCHANGED retryVars
      PROVE  PauseInv'
  <2>1. /\ pc'[e] # "sleeping"
        /\ \A o \in Exchanges \ {e} : pc'[o] = pc[o]
        /\ UNCHANGED <<backoff, remaining, errors>>
    BY <1>5 DEF Goto, Inv, TypeOK, retryVars
  <2>2. QED
    BY <1>5, <2>1
<1>6. ASSUME NEW e \in Exchanges,
             \/ Connect(e) \/ Subscribe(e) \/ ReadQuote(e) \/ ReadPing(e)
             \/ QuoteSent(e) \/ PongSent(e)
      PROVE  PauseInv'
  <2>1. /\ pc[e] # "sleeping"
        /\ \E stage \in Stages \ {"sleeping"} : Goto(e, stage)
        /\ UNCHANGED retryVars
    BY <1>6 DEF Connect, Subscribe, ReadQuote, ReadPing, QuoteSent, PongSent, Stages
  <2>2. QED
    BY <1>5, <2>1
<1>7. ASSUME NEW e \in Exchanges, Toggle(e) \/ Ping(e) PROVE PauseInv'
  BY <1>7 DEF Toggle, Ping, retryVars
<1>8. CASE RecvPrice \/ UNCHANGED vars
  BY <1>8 DEF RecvPrice, vars, retryVars
<1>9. QED
  BY <1>1, <1>2, <1>3, <1>4, <1>6, <1>7, <1>8
     DEF Next, Environment, Client, Connecting, Reading, Writing

(* The pause before the next attempt is a function of the errors since the   *)
(* last clean end alone, for every maximal backoff and whatever sessions,    *)
(* pings and quotes lay between those errors.                               *)
THEOREM PausesFollowErrors == Spec => []PauseGrowsWithErrors
<1>1. Init => PauseInv
  BY PauseDoubles DEF Init, PauseInv
<1>2. Inv /\ PauseInv => PauseGrowsWithErrors
  <2> SUFFICES ASSUME Inv, PauseInv, NEW e \in Exchanges, pc[e] = "sleeping"
               PROVE  backoff[e] <= Pause(errors[e])
    BY DEF PauseInv, PauseGrowsWithErrors
  <2>1. backoff[e] \in 1 .. MaxBackoff /\ MaxBackoff \in Nat
    BY ClientsAssumption DEF Inv, TypeOK
  <2>2. QED
    BY <2>1 DEF PauseInv, Lesser
<1>3. QED
  BY <1>1, <1>2, PauseStep, ClientsInvariance, PTL DEF Spec

=============================================================================
