----------------------------- MODULE PollerProofs -----------------------------
(***************************************************************************)
(* Proofs about ChainlinkPoller, for every width of the decoded bytes, every *)
(* accepted price, every set of answers, and nodes that answer any round not *)
(* older than what all of them know.                                        *)
(***************************************************************************)
EXTENDS ChainlinkPoller, TLAPS

Round == [answer : Answers, updatedAt : 1 .. MaxRounds]

(* The k-th round carries the timestamp k.                                   *)
ChainInv == \A k \in 1 .. Len(chain) : chain[k].updatedAt = k

(* A value decoded from round k of the chain.                                *)
IsDecodedFrom(b, k) ==
  /\ k \in 1 .. Len(chain)
  /\ chain[k].answer % LowBytes = b.price
  /\ Plausible(chain[k].answer) => chain[k].answer = b.price
  /\ b.updated_at = k

(* Where the values under way come from, and how old they may be.           *)
FlowInv ==
  /\ view <= Len(chain) /\ Len(chain) <= MaxRounds
  /\ asked <= view
  /\ pc = "answer" <=> reply # None
  /\ pc = "lock" <=> fetched # None
  /\ reply # None => /\ reply.updatedAt \in 1 .. Len(chain)
                     /\ reply = chain[reply.updatedAt]
                     /\ asked <= reply.updatedAt
  /\ fetched # None => /\ IsDecodedFrom(fetched, fetched.updated_at)
                       /\ asked <= fetched.updated_at
  /\ chainlink_baseline # None =>
       IsDecodedFrom(chainlink_baseline, chainlink_baseline.updated_at)

Inv == TypeOK /\ ChainInv /\ FlowInv

(* The decoder is exact on the plausible answers it accepts: truncated       *)
(* negative ones are too large a price.                                     *)
LEMMA DecodeExact ==
  ASSUME NEW a \in Int, Plausible(a), InRange(price_raw_of(a))
  PROVE  price_raw_of(a) = a
<1>1. /\ LowBytes \in Nat \ {0} /\ MaxPrice \in Nat
      /\ MaxPrice - LowBytes < a /\ a < LowBytes
  BY PollerAssumption DEF Plausible
<1>2. CASE a >= 0
  <2>1. a % LowBytes = a
    BY <1>1, <1>2
  <2>2. QED
    BY <2>1 DEF price_raw_of
<1>3. CASE a < 0
  <2>1. a % LowBytes = a + LowBytes
    BY <1>1, <1>3
  <2>2. a % LowBytes > MaxPrice
    BY <1>1, <2>1
  <2>3. QED
    BY <1>1, <2>1, <2>2 DEF InRange, price_raw_of
<1>4. QED
  BY <1>1, <1>2, <1>3

(* What the decoder makes of a committed round.                              *)
LEMMA DecodeRound ==
  ASSUME NEW r \in Round, decode_latest_round_data(r) # None
  PROVE  /\ decode_latest_round_data(r) \in Baseline
         /\ decode_latest_round_data(r).updated_at = r.updatedAt
         /\ decode_latest_round_data(r).price = r.answer % LowBytes
         /\ Plausible(r.answer) => decode_latest_round_data(r).price = r.answer
<1>1. r.answer \in Int /\ r.updatedAt \in 1 .. MaxRounds
  <2>1. r.answer \in Answers /\ r.updatedAt \in 1 .. MaxRounds
    BY DEF Round
  <2>2. QED
    BY <2>1, PollerAssumption
<1>2. InRange(price_raw_of(r.answer))
  BY DEF decode_latest_round_data
<1>3. price_raw_of(r.answer) \in Nat \ {0}
  <2>1. r.answer % LowBytes \in Nat
    BY <1>1, PollerAssumption
  <2>2. QED
    BY <1>2, <2>1 DEF InRange, price_raw_of
<1>4. Plausible(r.answer) => price_raw_of(r.answer) = r.answer
  BY <1>1, <1>2, DecodeExact
<1>5. decode_latest_round_data(r) = [price |-> price_raw_of(r.answer), updated_at |-> r.updatedAt]
  BY <1>2 DEF decode_latest_round_data
<1>6. QED
  BY <1>1, <1>3, <1>4, <1>5 DEF Baseline, price_raw_of

LEMMA InitInv == Init => Inv
<1> SUFFICES ASSUME Init PROVE Inv
  OBVIOUS
<1>1. chain = <<>> /\ <<>> \in Seq([answer : Answers, updatedAt : 1 .. MaxRounds])
  BY DEF Init
<1>2. view \in 0 .. MaxRounds
  BY PollerAssumption DEF Init
<1>3. TypeOK
  BY <1>1, <1>2, PollerAssumption DEF Init, TypeOK
<1>4. ChainInv /\ FlowInv
  BY PollerAssumption DEF Init, ChainInv, FlowInv
<1>5. QED
  BY <1>3, <1>4 DEF Inv

(* None is neither a round nor a baseline.                                   *)
LEMMA NotNone ==
  ASSUME NEW b \in Baseline
  PROVE  b # None
<1>1. b \in [price : Nat, updated_at : Nat]
  BY PollerAssumption DEF Baseline
<1>2. QED
  BY <1>1, PollerAssumption

LEMMA RoundNotNone ==
  ASSUME NEW r \in Round
  PROVE  r # None
<1>1. r.answer \in Int /\ r.updatedAt \in Nat
  <2>1. r.answer \in Answers /\ r.updatedAt \in 1 .. MaxRounds
    BY DEF Round
  <2>2. Answers \subseteq Int /\ 1 .. MaxRounds \subseteq Nat
    BY PollerAssumption
  <2>3. QED
    BY <2>1, <2>2, Zenon
<1>2. r = [answer |-> r.answer, updatedAt |-> r.updatedAt]
  BY DEF Round
<1>3. r \in [answer : Int, updatedAt : Nat]
  BY <1>1, <1>2
<1>4. QED
  BY <1>3, PollerAssumption

LEMMA CommitInv ==
  ASSUME Inv, CommitRound
  PROVE  Inv'
<1>1. PICK a \in Answers : chain' = Append(chain, [answer |-> a, updatedAt |-> Len(chain) + 1])
  BY DEF CommitRound
<1>2. chain \in Seq(Round) /\ Len(chain) \in Nat /\ Len(chain) + 1 \in 1 .. MaxRounds
  BY PollerAssumption DEF Inv, TypeOK, Round, CommitRound
<1> DEFINE r == [answer |-> a, updatedAt |-> Len(chain) + 1]
<1>3. r \in Round /\ r.updatedAt = Len(chain) + 1
  BY <1>2 DEF Round
<1> HIDE DEF r
<1>4. /\ chain' = Append(chain, r) /\ chain' \in Seq(Round)
      /\ Len(chain') = Len(chain) + 1
      /\ \A k \in 1 .. Len(chain) : chain'[k] = chain[k]
      /\ chain'[Len(chain) + 1] = r
  BY <1>1, <1>2, <1>3 DEF r
<1>5. TypeOK'
  BY <1>4 DEF CommitRound, Inv, TypeOK, Round
<1>6. ChainInv'
  BY <1>2, <1>3, <1>4 DEF Inv, ChainInv
<1>7. UNCHANGED <<view, pc, reply, fetched, chainlink_baseline, asked>>
  BY DEF CommitRound
<1>8. ASSUME NEW b, NEW k, IsDecodedFrom(b, k) PROVE IsDecodedFrom(b, k)'
  BY <1>2, <1>4, <1>8 DEF IsDecodedFrom, Plausible
<1>9. ASSUME reply # None PROVE reply.updatedAt \in 1 .. Len(chain)
  BY <1>2, <1>9, PollerAssumption DEF Inv, TypeOK, FlowInv
<1>10. FlowInv'
  <2>1. view' <= Len(chain') /\ Len(chain') <= MaxRounds
    BY <1>2, <1>4, <1>7, PollerAssumption DEF Inv, TypeOK, FlowInv
  <2>2. reply' # None => /\ reply' = chain'[reply'.updatedAt]
                         /\ reply'.updatedAt \in 1 .. Len(chain')
    BY <1>2, <1>4, <1>7, <1>9 DEF Inv, FlowInv
  <2>3. fetched' # None => IsDecodedFrom(fetched, fetched.updated_at)'
    BY <1>4, <1>7, <1>8 DEF Inv, FlowInv, IsDecodedFrom
  <2>4. chainlink_baseline' # None =>
          IsDecodedFrom(chainlink_baseline, chainlink_baseline.updated_at)'
    BY <1>4, <1>7, <1>8 DEF Inv, FlowInv, IsDecodedFrom
  <2>5. QED
    BY <2>1, <2>2, <2>3, <2>4, <1>7 DEF Inv, FlowInv
<1>11. QED
  BY <1>5, <1>6, <1>10 DEF Inv

LEMMA OutsideInv ==
  ASSUME Inv, SyncNode \/ OtherTakesLock \/ OtherDropsLock
  PROVE  Inv'
<1>1. /\ UNCHANGED <<chain, pc, reply, fetched, chainlink_baseline, asked>>
      /\ view' \in Nat /\ view <= view' /\ view' <= Len(chain)
      /\ locked' \in BOOLEAN
  <2>1. view \in Nat /\ view <= Len(chain) /\ Len(chain) \in Nat /\ locked \in BOOLEAN
    BY PollerAssumption DEF Inv, TypeOK, FlowInv
  <2>2. CASE SyncNode
    BY <2>1, <2>2 DEF SyncNode
  <2>3. CASE OtherTakesLock \/ OtherDropsLock
    <3>1. /\ UNCHANGED <<chain, view, pc, reply, fetched, chainlink_baseline, asked>>
          /\ locked' \in BOOLEAN
      BY <2>3 DEF OtherTakesLock, OtherDropsLock
    <3>2. QED
      BY <2>1, <3>1
  <2>4. QED
    BY <2>2, <2>3
<1>2. TypeOK'
  BY <1>1, PollerAssumption DEF Inv, TypeOK, FlowInv
<1>3. ChainInv'
  BY <1>1 DEF Inv, ChainInv
<1>4. /\ reply # None => reply.updatedAt \in Nat
      /\ fetched # None => fetched.updated_at \in Nat
      /\ chainlink_baseline # None => chainlink_baseline.updated_at \in Nat
      /\ view \in Nat /\ asked \in Nat
  BY DEF Inv, TypeOK, Baseline
<1>5. FlowInv'
  BY <1>1, <1>4 DEF Inv, FlowInv, IsDecodedFrom
<1>6. QED
  BY <1>2, <1>3, <1>5 DEF Inv

LEMMA AnswerInv ==
  ASSUME Inv, NodeAnswers
  PROVE  Inv'
<1>1. PICK k \in 1 .. Len(chain) : k >= view /\ reply' = chain[k]
  BY DEF NodeAnswers
<1>2. /\ pc = "request" /\ pc' = "answer"
      /\ UNCHANGED <<chain, view, locked, fetched, chainlink_baseline, asked>>
  BY DEF NodeAnswers, outside
<1>3. reply' \in Round /\ reply'.updatedAt = k
  <2>1. chain \in Seq(Round)
    BY DEF Inv, TypeOK, Round
  <2>2. chain[k] \in Round /\ chain[k].updatedAt = k
    BY <2>1 DEF Inv, ChainInv
  <2>3. QED
    BY <1>1, <2>2
<1>4. reply' # None
  BY <1>3, RoundNotNone
<1>5. TypeOK'
  BY <1>2, <1>3 DEF Inv, TypeOK, Round
<1>6. ChainInv'
  BY <1>2 DEF Inv, ChainInv
<1>7. asked <= k
  BY <1>1 DEF Inv, TypeOK, FlowInv
<1>8. FlowInv'
  BY <1>1, <1>2, <1>3, <1>4, <1>7 DEF Inv, FlowInv, IsDecodedFrom
<1>9. QED
  BY <1>5, <1>6, <1>8 DEF Inv

LEMMA ReceiveInv ==
  ASSUME Inv, Receive
  PROVE  Inv'
<1>1. /\ pc = "answer" /\ reply' = None
      /\ fetched' = decode_latest_round_data(reply)
      /\ pc' = IF fetched' # None THEN "lock" ELSE "interval"
      /\ UNCHANGED <<chain, view, locked, chainlink_baseline, asked>>
  BY DEF Receive, outside
<1>2. reply \in Round
  BY <1>1 DEF Inv, TypeOK, FlowInv, Round
<1>3. fetched' # None =>
        /\ fetched' \in Baseline
        /\ fetched'.updated_at = reply.updatedAt
        /\ fetched'.price = reply.answer % LowBytes
        /\ Plausible(reply.answer) => fetched'.price = reply.answer
  BY <1>1, <1>2, DecodeRound
<1>4. TypeOK'
  BY <1>1, <1>3 DEF Inv, TypeOK
<1>5. ChainInv'
  BY <1>1 DEF Inv, ChainInv
<1>6. reply # None
  BY <1>2, RoundNotNone
<1>7. /\ reply.updatedAt \in 1 .. Len(chain)
      /\ chain[reply.updatedAt].answer = reply.answer
      /\ asked <= reply.updatedAt
  BY <1>6 DEF Inv, FlowInv
<1>8. fetched' # None => IsDecodedFrom(fetched', reply.updatedAt)
  BY <1>3, <1>7 DEF IsDecodedFrom
<1>9. FlowInv'
  BY <1>1, <1>3, <1>7, <1>8 DEF Inv, FlowInv, IsDecodedFrom, Plausible
<1>10. QED
  BY <1>4, <1>5, <1>9 DEF Inv

LEMMA WriteInv ==
  ASSUME Inv, Write
  PROVE  Inv'
<1>1. /\ pc = "lock" /\ chainlink_baseline' = fetched /\ fetched' = None
      /\ pc' = "interval" /\ UNCHANGED <<chain, view, locked, reply, asked>>
  BY DEF Write, outside
<1>2. fetched \in Baseline /\ fetched # None /\ reply = None
  BY <1>1 DEF Inv, TypeOK, FlowInv
<1>3. TypeOK'
  BY <1>1, <1>2 DEF Inv, TypeOK
<1>4. ChainInv' /\ FlowInv'
  BY <1>1, <1>2 DEF Inv, ChainInv, FlowInv, IsDecodedFrom
<1>5. QED
  BY <1>3, <1>4 DEF Inv

(* Every step preserves the invariant.                                       *)
LEMMA NextInv ==
  ASSUME Inv, [Next]_vars
  PROVE  Inv'
<1>1. CASE Tick
  BY <1>1 DEF Tick, outside, Inv, TypeOK, ChainInv, FlowInv, IsDecodedFrom
<1>2. CASE FetchFails
  <2>1. fetched = None /\ pc' = "interval" /\ reply' = None
        /\ UNCHANGED <<chain, view, locked, fetched, chainlink_baseline, asked>>
    BY <1>2 DEF FetchFails, outside, Inv, FlowInv
  <2>2. TypeOK'
    BY <2>1 DEF Inv, TypeOK
  <2>3. ChainInv' /\ FlowInv'
    BY <2>1 DEF Inv, ChainInv, FlowInv, IsDecodedFrom
  <2>4. QED
    BY <2>2, <2>3 DEF Inv
<1>3. CASE UNCHANGED vars
  BY <1>3 DEF vars, Inv, TypeOK, ChainInv, FlowInv, IsDecodedFrom
<1>4. QED
  BY <1>1, <1>2, <1>3, CommitInv, OutsideInv, AnswerInv, ReceiveInv, WriteInv
     DEF Next, Outside, Run

(* The inductive invariant of the poller: the answer under way, the decoded  *)
(* answer and the baseline are rounds of the chain, and what is under way is *)
(* no older than what every node knew when it was asked.                    *)
THEOREM PollerInvariance == Spec => []Inv
  BY InitInv, NextInv, PTL DEF Spec

(* Every variable of the poller keeps its type: no baseline is ever 0        *)
(* (chainlink.rs:119).                                                      *)
THEOREM PollerTypeCorrect == Spec => []TypeOK
<1>1. Inv => TypeOK
  BY DEF Inv
<1>2. QED
  BY <1>1, PollerInvariance, PTL

(* The baseline is always the timestamp of one committed round and the last  *)
(* 8 bytes of its answer, and the answer itself if it is plausible: the      *)
(* truncation (chainlink.rs:116) makes no wrong price of a negative answer   *)
(* near 0.                                                                  *)
THEOREM CommittedBaseline == Spec => []BaselineIsCommitted
<1>1. ASSUME Inv, chainlink_baseline # None
      PROVE  BaselineIsCommitted
  <2>1. IsDecodedFrom(chainlink_baseline, chainlink_baseline.updated_at)
    BY <1>1 DEF Inv, FlowInv
  <2>2. QED
    BY <1>1, <2>1 DEF Inv, ChainInv, IsDecodedFrom, BaselineIsCommitted
<1>2. Inv => BaselineIsCommitted
  BY <1>1 DEF BaselineIsCommitted
<1>3. QED
  BY <1>2, PollerInvariance, PTL

(* A poll that succeeds leaves a baseline no older than what every node knew *)
(* when it was asked.                                                       *)
THEOREM PollIsFresh == Spec => PollRefreshesBaseline
<1>1. ASSUME Inv, [Next]_vars, pc = "lock", pc' = "interval"
      PROVE  chainlink_baseline' # None /\ chainlink_baseline'.updated_at >= asked
  <2>1. Write
    BY <1>1 DEF Next, Outside, Run, vars, outside, CommitRound, SyncNode, OtherTakesLock,
                OtherDropsLock, Tick, NodeAnswers, Receive, FetchFails
  <2>2. chainlink_baseline' = fetched /\ fetched # None /\ asked <= fetched.updated_at
    BY <1>1, <2>1 DEF Write, Inv, FlowInv
  <2>3. fetched.updated_at \in Nat /\ asked \in Nat
    BY <1>1, <2>2 DEF Inv, TypeOK, Baseline
  <2>4. QED
    BY <2>2, <2>3
<1>2. Inv /\ [Next]_vars =>
        [ pc = "lock" /\ pc' = "interval" =>
            /\ chainlink_baseline' # None
            /\ chainlink_baseline'.updated_at >= asked ]_vars
  BY <1>1
<1>3. QED
  BY <1>2, PollerInvariance, PTL DEF Spec, PollRefreshesBaseline

=============================================================================
