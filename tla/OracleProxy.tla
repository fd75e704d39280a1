------------------------------ MODULE OracleProxy ------------------------------
(***************************************************************************)
(* The whole process of src/src/main.rs: the aggregation loop, the Chainlink *)
(* poller, the connections of the WebSocket server and the terminal UI       *)
(* around the one RwLock of AppState, from the start of the tasks to the     *)
(* exit of the process.                                                     *)
(*                                                                         *)
(* Every task is kept as far as it uses the lock, the terminal or the        *)
(* process; the other modules say what it does in between.  The data is the  *)
(* number of the Chainlink round that travels from the contract through the  *)
(* baseline and the published tick to the screen.  An action is what a task  *)
(* does between two awaits.                                                 *)
(*                                                                         *)
(* The lock is tokio's: requests are served in order, readers together.  A   *)
(* released guard passes to the head of the queue at once.                   *)
(***************************************************************************)
EXTENDS Naturals, Sequences, FiniteSets

CONSTANTS
  Clients,        \* places for connections that wait for their snapshot
  MaxRounds,      \* BOUND: the contract commits no more rounds
  BindFails,      \* TRUE if the listen address may be in use
  TerminalFails   \* TRUE if the calls on the terminal may fail

ASSUME ProxyAssumption ==
  /\ IsFiniteSet(Clients)
  /\ MaxRounds \in Nat
  /\ BindFails \in BOOLEAN
  /\ TerminalFails \in BOOLEAN
  /\ Clients \cap {"loop", "poller", "tui"} = {}

VARIABLES
  holders,     \* the tasks that hold a guard of the lock
  exclusive,   \* the guard is a write guard
  queue,       \* the requests that wait: a sequence of [task, write]
  chain,       \* rounds the contract has committed
  synced,      \* how many of them every node of the RPC gateway knows
  fetched,     \* the round the poller has fetched and not yet written, or 0
  baseline,    \* AppState: the round of chainlink_baseline, 0 for None
  published,   \* AppState: the round current_price was made with, 0 for None
  screen,      \* the round the terminal shows, 0 for none
  agg_pc,      \* where the loop is
  poll_pc,     \* where the poller is
  conn_pc,     \* each connection: "snapshot" while it uses the lock, "away" before
               \* and after that
  ws_pc,       \* the server: "binding", "accepting" or "ended"
  tui_pc,      \* where the terminal UI is
  raw_mode,    \* the terminal is in raw mode
  alternate,   \* the terminal shows the alternate screen
  quit,        \* the quit key has been pressed
  main_pc      \* main: "select" or "exited"

lockVars == <<holders, exclusive, queue>>
dataVars == <<chain, synced, fetched, baseline, published, screen>>
terminalVars == <<raw_mode, alternate, quit>>
pcVars == <<agg_pc, poll_pc, conn_pc, ws_pc, tui_pc, main_pc>>
vars == <<lockVars, dataVars, terminalVars, pcVars>>

Tasks == {"loop", "poller", "tui"} \cup Clients

Init ==
  /\ holders = {} /\ exclusive = FALSE /\ queue = <<>>
  /\ chain = 0 /\ synced = 0 /\ fetched = 0 /\ baseline = 0 /\ published = 0 /\ screen = 0
  /\ agg_pc = "select"
  /\ poll_pc = "fetch"
  /\ conn_pc = [c \in Clients |-> "away"]
  /\ ws_pc = "binding"
  /\ tui_pc = "new"
  /\ raw_mode = FALSE /\ alternate = FALSE /\ quit = FALSE
  /\ main_pc = "select"

-----------------------------------------------------------------------------
(* The lock                                                                 *)

(* A bug: a lock that lets readers pass a waiting writer.                   *)
GrantReadersFirst(h, write, q) ==
  LET Reads == {i \in 1 .. Len(q) : ~ q[i].write}
      Writes == SelectSeq(q, LAMBDA r : r.write)
  IN  IF h = {} /\ Reads = {} /\ q # <<>>
      THEN /\ holders' = {Head(q).task} /\ exclusive' = TRUE /\ queue' = Tail(q)
      ELSE IF h # {} /\ write
      THEN /\ holders' = h /\ exclusive' = TRUE /\ queue' = q
      ELSE /\ holders' = h \cup {q[i].task : i \in Reads}
           /\ exclusive' = FALSE
           /\ queue' = Writes

(* The guards h, exclusive or not, with the requests q behind them: the head *)
(* of the queue is granted as far as the lock allows, a writer alone, readers *)
(* up to the next writer.                                                    *)
Grant(h, write, q) ==
  IF h = {} /\ q # <<>> /\ Head(q).write
  THEN /\ holders' = {Head(q).task} /\ exclusive' = TRUE /\ queue' = Tail(q)
  ELSE IF h # {} /\ write
  THEN /\ holders' = h /\ exclusive' = TRUE /\ queue' = q
  ELSE /\ \E n \in 0 .. Len(q) :
            /\ \A i \in 1 .. n : ~ q[i].write
            /\ n < Len(q) => q[n + 1].write
            /\ holders' = h \cup {q[i].task : i \in 1 .. n}
            /\ queue' = SubSeq(q, n + 1, Len(q))
       /\ exclusive' = FALSE

Request(t, write) == Grant(holders, exclusive, Append(queue, [task |-> t, write |-> write]))

Release(t) == Grant(holders \ {t}, exclusive, queue)

-----------------------------------------------------------------------------
(* The world outside                                                        *)

CommitRound ==
  /\ chain < MaxRounds
  /\ chain' = chain + 1
  /\ UNCHANGED <<lockVars, synced, fetched, baseline, published, screen, terminalVars,
                 pcVars>>

(* The slowest node behind the RPC endpoint has caught up some more.        *)
SyncNodes ==
  /\ \E n \in synced + 1 .. chain : synced' = n
  /\ UNCHANGED <<lockVars, chain, fetched, baseline, published, screen, terminalVars,
                 pcVars>>

PressQuit ==
  /\ ~ quit
  /\ quit' = TRUE
  /\ UNCHANGED <<lockVars, dataVars, raw_mode, alternate, pcVars>>

-----------------------------------------------------------------------------
(* The aggregation loop                                                     *)

loopRest == <<terminalVars, poll_pc, conn_pc, ws_pc, tui_pc, main_pc>>

(* A quote arrives: the loop wants a read guard to note its exchange.       *)
RecvPrice ==
  /\ agg_pc = "select"
  /\ Request("loop", FALSE)
  /\ agg_pc' = "recv"
  /\ UNCHANGED <<dataVars, loopRest>>

(* ... notes it and keeps the quote.                                        *)
QuoteKept ==
  /\ agg_pc = "recv"
  /\ "loop" \in holders
  /\ Release("loop")
  /\ agg_pc' = "select"
  /\ UNCHANGED <<dataVars, loopRest>>

(* A tick that finds a fresh quote; nobody promises one, and a tick without  *)
(* changes nothing.                                                         *)
TickStart ==
  /\ agg_pc = "select"
  /\ Request("loop", TRUE)
  /\ agg_pc' = "tick"
  /\ UNCHANGED <<dataVars, loopRest>>

(* A bug: the write guard lives to the end of the arm.                      *)
TickCommitKeepsGuard ==
  /\ agg_pc = "tick"
  /\ "loop" \in holders
  /\ published' = baseline
  /\ agg_pc' = "send"
  /\ UNCHANGED <<lockVars, chain, synced, fetched, baseline, screen, loopRest>>

(* The write-lock section, up to drop(s).                                   *)
TickCommit ==
  /\ agg_pc = "tick"
  /\ "loop" \in holders
  /\ published' = baseline
  /\ Release("loop")
  /\ agg_pc' = "send"
  /\ UNCHANGED <<chain, synced, fetched, baseline, screen, loopRest>>

(* The events are sent, then the loop reads the length of the history.      *)
SendEvents ==
  /\ agg_pc = "send"
  /\ Request("loop", FALSE)
  /\ agg_pc' = "status"
  /\ UNCHANGED <<dataVars, loopRest>>

StatusRead ==
  /\ agg_pc = "status"
  /\ "loop" \in holders
  /\ Release("loop")
  /\ agg_pc' = "select"
  /\ UNCHANGED <<dataVars, loopRest>>

-----------------------------------------------------------------------------
(* The Chainlink poller                                                     *)

pollRest == <<terminalVars, agg_pc, conn_pc, ws_pc, tui_pc, main_pc>>

(* A bug: the poller rests once there is a baseline.                        *)
FetchOnce ==
  /\ poll_pc = "fetch"
  /\ baseline = 0
  /\ \E r \in 1 .. chain : r >= synced /\ fetched' = r
  /\ Request("poller", TRUE)
  /\ poll_pc' = "write"
  /\ UNCHANGED <<chain, synced, baseline, published, screen, pollRest>>

(* An answer arrives, with the latest round of the node that gave it.  A     *)
(* poll that fails changes nothing.                                         *)
Fetch ==
  /\ poll_pc = "fetch"
  /\ \E r \in 1 .. chain : r >= synced /\ fetched' = r
  /\ Request("poller", TRUE)
  /\ poll_pc' = "write"
  /\ UNCHANGED <<chain, synced, baseline, published, screen, pollRest>>

WriteBaseline ==
  /\ poll_pc = "write"
  /\ "poller" \in holders
  /\ baseline' = fetched
  /\ fetched' = 0   \* it goes out of scope
  /\ Release("poller")
  /\ poll_pc' = "fetch"
  /\ UNCHANGED <<chain, synced, published, screen, pollRest>>

-----------------------------------------------------------------------------
(* The WebSocket server                                                     *)

wsRest == <<dataVars, terminalVars, agg_pc, poll_pc, tui_pc, main_pc>>

Bind ==
  /\ ws_pc = "binding"
  /\ ws_pc' = "accepting"
  /\ UNCHANGED <<lockVars, conn_pc, wsRest>>

(* run_server returns the error, the task ends.                             *)
BindError ==
  /\ BindFails
  /\ ws_pc = "binding"
  /\ ws_pc' = "ended"
  /\ UNCHANGED <<lockVars, conn_pc, wsRest>>

(* A peer has connected and shaken hands; its task wants the read guard.    *)
Connect(c) ==
  /\ ws_pc = "accepting"
  /\ conn_pc[c] = "away"
  /\ Request(c, FALSE)
  /\ conn_pc' = [conn_pc EXCEPT ![c] = "snapshot"]
  /\ UNCHANGED <<ws_pc, wsRest>>

(* The send of the snapshot comes back and the guard is dropped.  The guard  *)
(* is held while the send waits for the socket.  The rest of the connection  *)
(* does without the lock, so its place is free for the next peer.           *)
SnapshotSent(c) ==
  /\ conn_pc[c] = "snapshot"
  /\ c \in holders
  /\ Release(c)
  /\ conn_pc' = [conn_pc EXCEPT ![c] = "away"]
  /\ UNCHANGED <<ws_pc, wsRest>>

-----------------------------------------------------------------------------
(* The terminal UI                                                          *)

tuiRest == <<chain, synced, fetched, baseline, published, agg_pc, poll_pc, conn_pc, ws_pc,
             main_pc>>

(* Raw mode and the alternate screen are on, the first tick is due.         *)
TuiStart ==
  /\ tui_pc = "new"
  /\ raw_mode' = TRUE
  /\ alternate' = TRUE
  /\ tui_pc' = "ticker"
  /\ UNCHANGED <<lockVars, quit, screen, tuiRest>>

(* An early `?`: raw mode, the alternate screen or the backend fail, and     *)
(* what was switched on before stays on.                                    *)
TuiStartFails ==
  /\ TerminalFails
  /\ tui_pc = "new"
  /\ \E raw, alt \in BOOLEAN : (alt => raw) /\ raw_mode' = raw /\ alternate' = alt
  /\ tui_pc' = "aborted"
  /\ UNCHANGED <<lockVars, quit, screen, tuiRest>>

TuiTick ==
  /\ tui_pc = "ticker"
  /\ Request("tui", FALSE)
  /\ tui_pc' = "read"
  /\ UNCHANGED <<terminalVars, screen, tuiRest>>

(* What run_tui does once run_loop has returned, whatever it returned: raw   *)
(* mode off, the alternate screen left, the cursor shown, with a `?` each.   *)
Restore ==
  \/ raw_mode' = FALSE /\ alternate' = FALSE /\ tui_pc' = "ended"
  \/ /\ TerminalFails
     /\ \E raw, alt \in BOOLEAN : (raw => alt) /\ raw_mode' = raw /\ alternate' = alt
     /\ tui_pc' = "aborted"

(* The guard is granted: the snapshot is taken and drawn, then the keys are  *)
(* read; there is no await from here to the next tick or to the end.        *)
TuiDraw ==
  /\ tui_pc = "read"
  /\ "tui" \in holders
  /\ Release("tui")
  /\ screen' = published
  /\ IF quit THEN Restore ELSE tui_pc' = "ticker" /\ UNCHANGED <<raw_mode, alternate>>
  /\ UNCHANGED <<quit, tuiRest>>

(* A bug: the error of run_loop is propagated before the terminal is restored. *)
TuiDrawFailsEarly ==
  /\ TerminalFails
  /\ tui_pc = "read"
  /\ "tui" \in holders
  /\ Release("tui")
  /\ tui_pc' = "ended"
  /\ UNCHANGED <<terminalVars, screen, tuiRest>>

(* draw, poll or read fail: run_loop returns the error.                     *)
TuiDrawFails ==
  /\ TerminalFails
  /\ tui_pc = "read"
  /\ "tui" \in holders
  /\ Release("tui")
  /\ Restore
  /\ UNCHANGED <<quit, screen, tuiRest>>

-----------------------------------------------------------------------------
(* main                                                                     *)

(* A bug: the select! does not wait for the terminal UI.                    *)
MainIgnoresTui ==
  /\ main_pc = "select"
  /\ ws_pc = "ended"
  /\ main_pc' = "exited"
  /\ UNCHANGED <<lockVars, dataVars, terminalVars, agg_pc, poll_pc, conn_pc, ws_pc, tui_pc>>

(* The select! takes the first task that ends.  Its third arm, for the       *)
(* aggregation loop (main.rs:92), fires only after a panic: the clients hold *)
(* the senders of its channel and their `run` never returns, so the loop     *)
(* does not end.  The runtime then drops every task at the await it is at;   *)
(* what the others do until it has is a later return.                       *)
MainReturns ==
  /\ main_pc = "select"
  /\ ws_pc = "ended" \/ tui_pc \in {"ended", "aborted"}
  /\ main_pc' = "exited"
  /\ UNCHANGED <<lockVars, dataVars, terminalVars, agg_pc, poll_pc, conn_pc, ws_pc, tui_pc>>

(* The process is gone.                                                     *)
Exited == main_pc = "exited" /\ UNCHANGED vars

World == CommitRound \/ SyncNodes \/ PressQuit

Loop == RecvPrice \/ QuoteKept \/ TickStart \/ TickCommit \/ SendEvents \/ StatusRead

Poller == Fetch \/ WriteBaseline

Server == Bind \/ BindError

Connection(c) == Connect(c) \/ SnapshotSent(c)

Tui == TuiStart \/ TuiStartFails \/ TuiTick \/ TuiDraw \/ TuiDrawFails

Running == World \/ Loop \/ Poller \/ Server \/ Tui \/ \E c \in Clients : Connection(c)

Next == (main_pc # "exited" /\ Running) \/ MainReturns \/ Exited

Spec == Init /\ [][Next]_vars

(* The runtime polls every task that can go on, the poller's and the         *)
(* screen's intervals tick, polls succeed at last, every RPC node learns of  *)
(* a round, and the send of a snapshot, the first message of its socket,     *)
(* comes back.  Peers, quotes, the user and the chain owe nothing.          *)
Fairness ==
  LET Alive(A) == main_pc # "exited" /\ A
  IN  /\ WF_vars(Alive(QuoteKept))
      /\ WF_vars(Alive(TickCommit))
      /\ WF_vars(Alive(SendEvents))
      /\ WF_vars(Alive(StatusRead))
      /\ WF_vars(Alive(SyncNodes))
      /\ WF_vars(Alive(Poller))
      /\ WF_vars(Alive(Tui))
      /\ \A c \in Clients : WF_vars(Alive(SnapshotSent(c)))
      /\ WF_vars(MainReturns)

FairSpec == Spec /\ Fairness

-----------------------------------------------------------------------------
(* Every variable holds a value of its type.                                *)
TypeOK ==
  /\ holders \subseteq Tasks
  /\ exclusive \in BOOLEAN
  /\ queue \in Seq([task : Tasks, write : BOOLEAN])
  /\ {chain, synced, fetched, baseline, published, screen} \subseteq 0 .. MaxRounds
  /\ agg_pc \in {"select", "recv", "tick", "send", "status"}
  /\ poll_pc \in {"fetch", "write"}
  /\ conn_pc \in [Clients -> {"away", "snapshot"}]
  /\ ws_pc \in {"binding", "accepting", "ended"}
  /\ tui_pc \in {"new", "ticker", "read", "ended", "aborted"}
  /\ raw_mode \in BOOLEAN /\ alternate \in BOOLEAN /\ quit \in BOOLEAN
  /\ main_pc \in {"select", "exited"}

(* The awaits at which a task has asked for the lock.                       *)
UsesLock(t) ==
  CASE t = "loop"    -> agg_pc \in {"recv", "tick", "status"}
    [] t = "poller"  -> poll_pc = "write"
    [] t = "tui"     -> tui_pc = "read"
    [] t \in Clients -> conn_pc[t] = "snapshot"

Waiting == {queue[i].task : i \in 1 .. Len(queue)}

(* No guard and no request outlives its use: a task holds the lock or waits  *)
(* for it, never both, exactly while it is where the code uses it, and no    *)
(* task asks for a lock it still holds (drop(s), mod.rs:339, before the      *)
(* second read(), mod.rs:348).                                              *)
NoGuardLeaks ==
  /\ \A t \in Tasks : UsesLock(t) <=> t \in holders \cup Waiting
  /\ holders \cap Waiting = {}
  /\ \A i, j \in 1 .. Len(queue) : queue[i].task = queue[j].task => i = j

(* The process leaves the terminal in raw mode or on the alternate screen    *)
(* only if the server failed to bind or a call on the terminal failed, never *)
(* after the quit key or an error in the loop (tui/mod.rs:126-138).          *)
TerminalLostOnlyByFailure ==
  main_pc = "exited" /\ (raw_mode \/ alternate) => ws_pc = "ended" \/ tui_pc = "aborted"

(* Who asks for the lock gets it, whoever else asks.                        *)
LockServesAll ==
  \A t \in Tasks : UsesLock(t) ~> t \in holders \/ main_pc = "exited"

(* The quit key ends the process: the key is only read after the read lock   *)
(* has been granted, behind every writer (tui/mod.rs:154-174).               *)
QuitObeyed == quit ~> main_pc = "exited"

(* A committed round reaches the screen, through poller, loop and terminal,  *)
(* if ticks go on finding fresh quotes and the process lives, whatever older *)
(* rounds the poller writes in between.                                     *)
RoundReachesScreen ==
  []<>(agg_pc = "tick") =>
    \A r \in 1 .. MaxRounds : chain >= r ~> screen >= r \/ main_pc # "select"

-----------------------------------------------------------------------------
(* What a comment says and the code does not do.                            *)

(* tui/mod.rs:128: "Always restore the terminal, even on error".            *)
TerminalAlwaysRestored == main_pc = "exited" => ~ raw_mode /\ ~ alternate

=============================================================================
