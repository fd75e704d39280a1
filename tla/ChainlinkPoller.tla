---------------------------- MODULE ChainlinkPoller ----------------------------
(***************************************************************************)
(* The Chainlink poller of src/src/aggregator/chainlink.rs: the request, the *)
(* ways it fails, the decoding of an answer and the write to the shared      *)
(* state, against a contract that commits rounds and an RPC gateway whose    *)
(* nodes learn of them late, each in its own time.                          *)
(*                                                                         *)
(* An action is what the poller does between two awaits.  chain is the       *)
(* contract: the k-th committed round carries its answer, an int256, and k   *)
(* as its timestamp, which grows from round to round.  Block timestamps are  *)
(* small numbers, so their decoding is exact and the fallback for a time     *)
(* that chrono cannot hold (chainlink.rs:129) is never taken.  The decoder   *)
(* reads the last 8 of the 32 bytes of the answer: LowBytes is 2^64 in the   *)
(* code.  The timer of the interval is not modelled: a tick is due at any    *)
(* moment.                                                                  *)
(***************************************************************************)
EXTENDS Integers, Sequences

CONSTANTS
  None,
  LowBytes,   \* 2^64 in the code: one more than the largest u64
  MaxPrice,   \* 10,000,000 * 10^8 in the code: the largest price accepted
  Answers,    \* the int256 answers the contract may commit
  MaxRounds   \* BOUND: the contract commits no more rounds

ASSUME PollerAssumption ==
  /\ LowBytes \in Nat /\ MaxPrice \in Nat /\ 0 < MaxPrice /\ MaxPrice < LowBytes
  /\ Answers \subseteq Int
  /\ MaxRounds \in Nat
  /\ None \notin [price : Nat, updated_at : Nat]
  /\ None \notin [answer : Int, updatedAt : Nat]

VARIABLES
  chain,              \* the committed rounds
  view,               \* how many of them every node of the gateway knows
  pc,                 \* the await the poller is at
  reply,              \* the round in the answer under way, or None
  fetched,            \* the decoded answer that waits for the write lock, or None
  locked,             \* another task holds the lock of the shared state
  chainlink_baseline, \* AppState
  asked               \* history: view when the last request was sent

vars == <<chain, view, pc, reply, fetched, locked, chainlink_baseline, asked>>
outside == <<chain, view, locked>>

Baseline == [price : Nat \ {0}, updated_at : 1 .. MaxRounds]

Init ==
  /\ chain = <<>>
  /\ view = 0
  /\ pc = "interval"
  /\ reply = None
  /\ fetched = None
  /\ locked = FALSE
  /\ chainlink_baseline = None
  /\ asked = 0

-----------------------------------------------------------------------------
(* The contract, the nodes and the other users of the lock                  *)

CommitRound ==
  /\ Len(chain) < MaxRounds
  /\ \E a \in Answers : chain' = Append(chain, [answer |-> a, updatedAt |-> Len(chain) + 1])
  /\ UNCHANGED <<view, pc, reply, fetched, locked, chainlink_baseline, asked>>

(* The slowest node has caught up some more.                                *)
SyncNode ==
  /\ view < Len(chain)
  /\ \E v \in view + 1 .. Len(chain) : view' = v
  /\ UNCHANGED <<chain, pc, reply, fetched, locked, chainlink_baseline, asked>>

OtherTakesLock ==
  /\ ~ locked
  /\ locked' = TRUE
  /\ UNCHANGED <<chain, view, pc, reply, fetched, chainlink_baseline, asked>>

OtherDropsLock ==
  /\ locked
  /\ locked' = FALSE
  /\ UNCHANGED <<chain, view, pc, reply, fetched, chainlink_baseline, asked>>

-----------------------------------------------------------------------------
(* decode_latest_round_data                                                 *)

(* A bug: no upper limit, a truncated negative answer is a price.           *)
UpperUnchecked(price_raw) == price_raw > 0

(* A bug: no lower limit, the answer of a round that is not filled in yet.  *)
ZeroAccepted(price_raw) == price_raw <= MaxPrice

InRange(price_raw) == price_raw > 0 /\ price_raw <= MaxPrice

(* The last 8 bytes of the 32 of a two's complement.                        *)
price_raw_of(answer) == answer % LowBytes

decode_latest_round_data(r) ==
  IF InRange(price_raw_of(r.answer))
  THEN [price |-> price_raw_of(r.answer), updated_at |-> r.updatedAt]
  ELSE None

-----------------------------------------------------------------------------
(* `run` and `fetch`                                                        *)

(* A bug: the poller rests once it has a price.                             *)
TickUntilFirst ==
  /\ pc = "interval"
  /\ chainlink_baseline = None
  /\ pc' = "request"
  /\ asked' = view
  /\ UNCHANGED <<outside, reply, fetched, chainlink_baseline>>

(* interval.tick() returns, the request is sent.                            *)
Tick ==
  /\ pc = "interval"
  /\ pc' = "request"
  /\ asked' = view
  /\ UNCHANGED <<outside, reply, fetched, chainlink_baseline>>

(* One node behind the gateway evaluates latestRoundData() at ITS latest     *)
(* block; the answer is on its way.  Two nodes, or the blocks of a fork,     *)
(* may answer different rounds, in any order.                               *)
NodeAnswers ==
  /\ pc = "request"
  /\ \E k \in 1 .. Len(chain) : k >= view /\ reply' = chain[k]
  /\ pc' = "answer"
  /\ UNCHANGED <<outside, fetched, chainlink_baseline, asked>>

(* The answer arrives: it decodes and the poller asks for the write lock,   *)
(* or it does not and the poller waits for the next tick.                   *)
Receive ==
  /\ pc = "answer"
  /\ fetched' = decode_latest_round_data(reply)
  /\ pc' = IF fetched' # None THEN "lock" ELSE "interval"
  /\ reply' = None
  /\ UNCHANGED <<outside, chainlink_baseline, asked>>

(* Err(e) of `fetch`: no connection, no JSON, an RPC error, no result, a     *)
(* result that is too short or no hex number.  It is logged, nothing else.  *)
FetchFails ==
  /\ pc \in {"request", "answer"}
  /\ pc' = "interval"
  /\ reply' = None
  /\ UNCHANGED <<outside, fetched, chainlink_baseline, asked>>

(* A bug: the write is saved when the price has not changed.                *)
WriteOnlyNewPrices ==
  /\ pc = "lock"
  /\ ~ locked
  /\ chainlink_baseline' =
       IF chainlink_baseline # None /\ chainlink_baseline.price = fetched.price
       THEN chainlink_baseline ELSE fetched
  /\ fetched' = None
  /\ pc' = "interval"
  /\ UNCHANGED <<outside, reply, asked>>

(* state.write() is granted: the baseline is replaced, the guard dropped.   *)
Write ==
  /\ pc = "lock"
  /\ ~ locked
  /\ chainlink_baseline' = fetched
  /\ fetched' = None
  /\ pc' = "interval"
  /\ UNCHANGED <<outside, reply, asked>>

-----------------------------------------------------------------------------
Outside == CommitRound \/ SyncNode \/ OtherTakesLock \/ OtherDropsLock

Run == Tick \/ NodeAnswers \/ Receive \/ FetchFails \/ Write

Next == Outside \/ Run

Spec == Init /\ [][Next]_vars

(* The interval ticks, every node learns of new rounds, the lock is dropped  *)
(* and its queue is fair.  Requests may fail as often as they like, but not  *)
(* all: a request that is never answered stops the poller, since the code    *)
(* sets no timeout.                                                         *)
Fairness ==
  /\ WF_vars(Tick)
  /\ WF_vars(SyncNode)
  /\ WF_vars(OtherDropsLock)
  /\ SF_vars(Write)
  /\ SF_vars(NodeAnswers)
  /\ SF_vars(Receive)

FairSpec == Spec /\ Fairness

-----------------------------------------------------------------------------
(* Every variable holds a value of its type; in particular a baseline is     *)
(* never 0, the divisor of every deviation (calculator.rs:41).               *)
TypeOK ==
  /\ chain \in Seq([answer : Answers, updatedAt : 1 .. MaxRounds])
  /\ view \in 0 .. MaxRounds
  /\ pc \in {"interval", "request", "answer", "lock"}
  /\ reply \in [answer : Answers, updatedAt : 1 .. MaxRounds] \cup {None}
  /\ fetched \in Baseline \cup {None}
  /\ locked \in BOOLEAN
  /\ chainlink_baseline \in Baseline \cup {None}
  /\ asked \in 0 .. MaxRounds

(* Close enough to a price: one the contract of a price feed can commit.     *)
Plausible(answer) == MaxPrice - LowBytes < answer /\ answer < LowBytes

(* The baseline is the timestamp of one committed round and the last 8 bytes *)
(* of its answer; the answer itself, as the int256 it is, unless it is far   *)
(* below 0 or beyond 8 bytes: an overflowing answer can pass the range check *)
(* of chainlink.rs:119 as a price that was never committed.                 *)
BaselineIsCommitted ==
  chainlink_baseline # None =>
    \E k \in 1 .. Len(chain) :
      /\ chain[k].updatedAt = chainlink_baseline.updated_at
      /\ chain[k].answer % LowBytes = chainlink_baseline.price
      /\ Plausible(chain[k].answer) => chain[k].answer = chainlink_baseline.price

(* A poll that succeeds leaves a baseline no older than what every node knew *)
(* when it was asked, however late the answer and the lock come, and even if *)
(* the price is the one it had (chainlink.rs:51-60).                         *)
PollRefreshesBaseline ==
  [][ pc = "lock" /\ pc' = "interval" =>
        /\ chainlink_baseline' # None
        /\ chainlink_baseline'.updated_at >= asked ]_vars

(* When the contract rests on an acceptable round, failed requests and bad   *)
(* answers before it notwithstanding, the baseline becomes that round.       *)
BaselineCatchesUp ==
  <>[](chain # <<>> /\ chain[Len(chain)].answer \in 1 .. MaxPrice
         => /\ chainlink_baseline # None
            /\ chainlink_baseline.updated_at = Len(chain))

=============================================================================
