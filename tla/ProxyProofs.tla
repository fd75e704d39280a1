------------------------------ MODULE ProxyProofs ------------------------------
(***************************************************************************)
(* Proofs about OracleProxy, for every set of peers and every number of      *)
(* rounds: no guard of the lock outlives its use, and the terminal is lost   *)
(* only by a failure.                                                       *)
(***************************************************************************)
EXTENDS OracleProxy, TLAPS

Requests == [task : Tasks, write : BOOLEAN]

TasksOf(q) == {q[i].task : i \in 1 .. Len(q)}

(* Guards and requests that belong to different tasks.                      *)
Separate(h, q) ==
  /\ h \subseteq Tasks
  /\ q \in Seq(Requests)
  /\ h \cap TasksOf(q) = {}
  /\ \A i, j \in 1 .. Len(q) : q[i].task = q[j].task => i = j

(* A grant hands guards to tasks of the queue, and no task is lost or doubled. *)
LEMMA GrantKeepsTasks ==
  ASSUME NEW h, NEW write \in BOOLEAN, NEW q, Separate(h, q), Grant(h, write, q)
  PROVE  /\ Separate(holders', queue')
         /\ holders' \cup TasksOf(queue') = h \cup TasksOf(q)
         /\ exclusive' \in BOOLEAN
<1>0. /\ q \in Seq(Requests) /\ h \subseteq Tasks
      /\ \A i \in 1 .. Len(q) : q[i].task \in Tasks
  <2>1. q \in Seq(Requests) /\ h \subseteq Tasks
    BY DEF Separate
  <2>2. \A i \in 1 .. Len(q) : q[i] \in Requests
    BY <2>1
  <2>3. QED
    BY <2>1, <2>2 DEF Requests
<1>1. CASE h = {} /\ q # <<>> /\ Head(q).write
  <2>1. holders' = {q[1].task} /\ exclusive' = TRUE /\ queue' = Tail(q)
    BY <1>0, <1>1 DEF Grant
  <2>2. /\ Len(q) \in Nat \ {0}
        /\ Len(queue') = Len(q) - 1
        /\ queue' \in Seq(Requests)
        /\ \A i \in 1 .. Len(queue') : queue'[i] = q[i + 1]
    BY <1>0, <1>1, <2>1
  <2>3. TasksOf(q) = {q[1].task} \cup TasksOf(queue')
    <3>1. ASSUME NEW t \in TasksOf(q) PROVE t = q[1].task \/ t \in TasksOf(queue')
      <4>1. PICK i \in 1 .. Len(q) : t = q[i].task
        BY DEF TasksOf
      <4>2. CASE i = 1
        BY <4>1, <4>2
      <4>3. CASE i # 1
        <5>1. i - 1 \in 1 .. Len(queue') /\ queue'[i - 1] = q[i]
          BY <2>2, <4>3
        <5>2. QED
          BY <4>1, <5>1 DEF TasksOf
      <4>4. QED
        BY <4>2, <4>3
    <3>2. ASSUME NEW t \in TasksOf(queue') PROVE t \in TasksOf(q)
      <4>1. PICK i \in 1 .. Len(queue') : t = queue'[i].task
        BY DEF TasksOf
      <4>2. i + 1 \in 1 .. Len(q) /\ queue'[i] = q[i + 1]
        BY <2>2
      <4>3. QED
        BY <4>1, <4>2 DEF TasksOf
    <3>3. q[1].task \in TasksOf(q)
      BY <2>2 DEF TasksOf
    <3>4. QED
      BY <3>1, <3>2, <3>3
  <2>4. q[1].task \notin TasksOf(queue')
    <3>1. SUFFICES ASSUME NEW i \in 1 .. Len(queue'), queue'[i].task = q[1].task
                   PROVE  FALSE
      BY DEF TasksOf
    <3>2. i + 1 \in 1 .. Len(q) /\ 1 \in 1 .. Len(q) /\ q[i + 1].task = q[1].task
      BY <2>2, <3>1
    <3>3. QED
      BY <3>2 DEF Separate
  <2>5. \A i, j \in 1 .. Len(queue') : queue'[i].task = queue'[j].task => i = j
    <3>1. SUFFICES ASSUME NEW i \in 1 .. Len(queue'), NEW j \in 1 .. Len(queue'),
                          queue'[i].task = queue'[j].task
                   PROVE  i = j
      OBVIOUS
    <3>2. i + 1 \in 1 .. Len(q) /\ j + 1 \in 1 .. Len(q) /\ q[i + 1].task = q[j + 1].task
      BY <2>2, <3>1
    <3>3. i + 1 = j + 1
      BY <3>2 DEF Separate
    <3>4. QED
      BY <3>3
  <2>6. q[1].task \in Tasks
    BY <1>0, <2>2
  <2>7. QED
    BY <1>1, <2>1, <2>2, <2>3, <2>4, <2>5, <2>6 DEF Separate
<1>2. CASE ~ (h = {} /\ q # <<>> /\ Head(q).write) /\ h # {} /\ write
  BY <1>2 DEF Grant
<1>3. CASE ~ (h = {} /\ q # <<>> /\ Head(q).write) /\ ~ (h # {} /\ write)
  <2>1. exclusive' = FALSE
    BY <1>3 DEF Grant
  <2>2. PICK n \in 0 .. Len(q) :
          /\ holders' = h \cup {q[i].task : i \in 1 .. n}
          /\ queue' = SubSeq(q, n + 1, Len(q))
    BY <1>3 DEF Grant
  <2>3. /\ Len(q) \in Nat
        /\ Len(queue') = Len(q) - n
        /\ queue' \in Seq(Requests)
        /\ \A i \in 1 .. Len(queue') : queue'[i] = q[n + i]
    BY <1>0, <2>2
  <2>4. TasksOf(q) = {q[i].task : i \in 1 .. n} \cup TasksOf(queue')
    <3>1. ASSUME NEW t \in TasksOf(q)
          PROVE  t \in {q[i].task : i \in 1 .. n} \cup TasksOf(queue')
      <4>1. PICK i \in 1 .. Len(q) : t = q[i].task
        BY DEF TasksOf
      <4>2. CASE i \in 1 .. n
        BY <4>1, <4>2
      <4>3. CASE i \notin 1 .. n
        <5>1. i - n \in 1 .. Len(queue') /\ queue'[i - n] = q[i]
          BY <2>3, <4>3
        <5>2. QED
          BY <4>1, <5>1 DEF TasksOf
      <4>4. QED
        BY <4>2, <4>3
    <3>2. ASSUME NEW t \in TasksOf(queue') PROVE t \in TasksOf(q)
      <4>1. PICK i \in 1 .. Len(queue') : t = queue'[i].task
        BY DEF TasksOf
      <4>2. n + i \in 1 .. Len(q) /\ queue'[i] = q[n + i]
        BY <2>3
      <4>3. QED
        BY <4>1, <4>2 DEF TasksOf
    <3>3. {q[i].task : i \in 1 .. n} \subseteq TasksOf(q)
      BY <2>3 DEF TasksOf
    <3>4. QED
      BY <3>1, <3>2, <3>3
  <2>5. {q[i].task : i \in 1 .. n} \cap TasksOf(queue') = {}
    <3>1. SUFFICES ASSUME NEW i \in 1 .. n, NEW j \in 1 .. Len(queue'),
                          q[i].task = queue'[j].task
                   PROVE  FALSE
      BY DEF TasksOf
    <3>2. i \in 1 .. Len(q) /\ n + j \in 1 .. Len(q) /\ q[i].task = q[n + j].task
      BY <2>3, <3>1
    <3>3. i = n + j
      BY <3>2 DEF Separate
    <3>4. QED
      BY <2>3, <3>3
  <2>6. \A i, j \in 1 .. Len(queue') : queue'[i].task = queue'[j].task => i = j
    <3>1. SUFFICES ASSUME NEW i \in 1 .. Len(queue'), NEW j \in 1 .. Len(queue'),
                          queue'[i].task = queue'[j].task
                   PROVE  i = j
      OBVIOUS
    <3>2. n + i \in 1 .. Len(q) /\ n + j \in 1 .. Len(q) /\ q[n + i].task = q[n + j].task
      BY <2>3, <3>1
    <3>3. n + i = n + j
      BY <3>2 DEF Separate
    <3>4. QED
      BY <3>3
  <2>7. {q[i].task : i \in 1 .. n} \subseteq Tasks
    BY <1>0, <2>3
  <2>8. h \cap TasksOf(q) = {}
    BY DEF Separate
  <2>9. holders' \cap TasksOf(queue') = {}
    BY <2>2, <2>4, <2>5, <2>8
  <2>10. holders' \cup TasksOf(queue') = h \cup TasksOf(q)
    BY <2>2, <2>4
  <2>11. holders' \subseteq Tasks
    BY <1>0, <2>2, <2>7
  <2>12. QED
    BY <2>1, <2>3, <2>6, <2>9, <2>10, <2>11 DEF Separate
<1>4. QED
  BY <1>1, <1>2, <1>3

-----------------------------------------------------------------------------
(* The part of the invariant that is about the lock.                        *)
LockInv ==
  /\ Separate(holders, queue)
  /\ exclusive \in BOOLEAN
  /\ \A t \in Tasks : UsesLock(t) <=> t \in holders \cup TasksOf(queue)

(* A task asks for the lock.                                                *)
LEMMA AskKeepsLock ==
  ASSUME LockInv, NEW t \in Tasks, NEW write \in BOOLEAN, Request(t, write),
         ~ UsesLock(t), UsesLock(t)',
         \A u \in Tasks \ {t} : UsesLock(u)' <=> UsesLock(u)
  PROVE  LockInv'
<1> DEFINE q == Append(queue, [task |-> t, write |-> write])
<1>1. /\ queue \in Seq(Requests) /\ holders \subseteq Tasks
      /\ holders \cap TasksOf(queue) = {}
      /\ \A i, j \in 1 .. Len(queue) : queue[i].task = queue[j].task => i = j
      /\ exclusive \in BOOLEAN
  BY DEF LockInv, Separate
<1>2. t \notin holders \cup TasksOf(queue)
  BY DEF LockInv
<1>3. /\ q \in Seq(Requests)
      /\ Len(queue) \in Nat
      /\ Len(q) = Len(queue) + 1
      /\ \A i \in 1 .. Len(queue) : q[i] = queue[i]
      /\ q[Len(q)].task = t
  BY <1>1 DEF Requests
<1>4. TasksOf(q) = TasksOf(queue) \cup {t}
  <2>1. ASSUME NEW u \in TasksOf(q) PROVE u = t \/ u \in TasksOf(queue)
    <3>1. PICK i \in 1 .. Len(q) : u = q[i].task
      BY DEF TasksOf
    <3>2. i = Len(q) \/ i \in 1 .. Len(queue)
      BY <1>3
    <3>3. CASE i = Len(q)
      BY <1>3, <3>1, <3>3
    <3>4. CASE i \in 1 .. Len(queue)
      <4>1. u = queue[i].task
        BY <1>3, <3>1, <3>4
      <4>2. QED
        BY <3>4, <4>1 DEF TasksOf
    <3>5. QED
      BY <3>2, <3>3, <3>4
  <2>2. ASSUME NEW u \in TasksOf(queue) PROVE u \in TasksOf(q)
    <3>1. PICK i \in 1 .. Len(queue) : u = queue[i].task
      BY DEF TasksOf
    <3>2. i \in 1 .. Len(q) /\ u = q[i].task
      BY <1>3, <3>1
    <3>3. QED
      BY <3>2 DEF TasksOf
  <2>3. t \in TasksOf(q)
    <3>1. Len(q) \in 1 .. Len(q) /\ t = q[Len(q)].task
      BY <1>3
    <3>2. QED
      BY <3>1 DEF TasksOf
  <2>4. QED
    BY <2>1, <2>2, <2>3
<1>5. \A i, j \in 1 .. Len(q) : q[i].task = q[j].task => i = j
  <2>1. SUFFICES ASSUME NEW i \in 1 .. Len(q), NEW j \in 1 .. Len(q),
                        q[i].task = q[j].task
                 PROVE  i = j
    OBVIOUS
  <2>2. \A k \in 1 .. Len(queue) : q[k].task \in TasksOf(queue)
    BY <1>3 DEF TasksOf
  <2>3. \A k \in 1 .. Len(queue) : q[k].task # t
    BY <1>2, <2>2
  <2>4. (i = Len(q) \/ i \in 1 .. Len(queue)) /\ (j = Len(q) \/ j \in 1 .. Len(queue))
    BY <1>3
  <2>5. CASE i = Len(q) \/ j = Len(q)
    BY <1>3, <2>1, <2>3, <2>4, <2>5
  <2>6. CASE i \in 1 .. Len(queue) /\ j \in 1 .. Len(queue)
    BY <1>1, <1>3, <2>1, <2>6
  <2>7. QED
    BY <2>4, <2>5, <2>6
<1>6. Separate(holders, q)
  BY <1>1, <1>2, <1>3, <1>4, <1>5 DEF Separate
<1>7. Grant(holders, exclusive, q)
  BY DEF Request
<1>8. /\ Separate(holders', queue')
      /\ holders' \cup TasksOf(queue') = holders \cup TasksOf(q)
      /\ exclusive' \in BOOLEAN
  BY <1>1, <1>6, <1>7, GrantKeepsTasks
<1>9. \A u \in Tasks : UsesLock(u)' <=> u \in holders' \cup TasksOf(queue')
  BY <1>4, <1>8 DEF LockInv
<1>10. QED
  BY <1>8, <1>9 DEF LockInv, TasksOf

(* A task gives its guard back.                                             *)
LEMMA ReleaseKeepsLock ==
  ASSUME LockInv, NEW t \in Tasks, t \in holders, Release(t),
         ~ UsesLock(t)',
         \A u \in Tasks \ {t} : UsesLock(u)' <=> UsesLock(u)
  PROVE  LockInv'
<1>1. Separate(holders \ {t}, queue) /\ exclusive \in BOOLEAN
  BY DEF LockInv, Separate
<1>2. Grant(holders \ {t}, exclusive, queue)
  BY DEF Release
<1>3. /\ Separate(holders', queue')
      /\ holders' \cup TasksOf(queue') = (holders \ {t}) \cup TasksOf(queue)
      /\ exclusive' \in BOOLEAN
  BY <1>1, <1>2, GrantKeepsTasks
<1>4. t \notin TasksOf(queue)
  BY DEF LockInv, Separate
<1>5. \A u \in Tasks : UsesLock(u)' <=> u \in holders' \cup TasksOf(queue')
  BY <1>3, <1>4 DEF LockInv
<1>6. QED
  BY <1>3, <1>5 DEF LockInv, TasksOf

(* A step that leaves the lock and the users of the lock alone.             *)
LEMMA IdleKeepsLock ==
  ASSUME LockInv, UNCHANGED lockVars,
         \A u \in Tasks : UsesLock(u)' <=> UsesLock(u)
  PROVE  LockInv'
  BY DEF LockInv, lockVars, Separate, TasksOf

-----------------------------------------------------------------------------
(* The tasks one by one.                                                    *)
LEMMA UsesLockOf ==
  /\ UsesLock("loop") <=> agg_pc \in {"recv", "tick", "status"}
  /\ UsesLock("poller") <=> poll_pc = "write"
  /\ UsesLock("tui") <=> tui_pc = "read"
  /\ \A c \in Clients : UsesLock(c) <=> conn_pc[c] = "snapshot"
  BY ProxyAssumption DEF UsesLock

LEMMA UsesLockOfNext ==
  /\ UsesLock("loop")' <=> agg_pc' \in {"recv", "tick", "status"}
  /\ UsesLock("poller")' <=> poll_pc' = "write"
  /\ UsesLock("tui")' <=> tui_pc' = "read"
  /\ \A c \in Clients : UsesLock(c)' <=> conn_pc'[c] = "snapshot"
  BY ProxyAssumption DEF UsesLock

(* What is not about the lock.                                              *)
DataInv ==
  /\ {chain, synced, fetched, baseline, published, screen} \subseteq 0 .. MaxRounds
  /\ agg_pc \in {"select", "recv", "tick", "send", "status"}
  /\ poll_pc \in {"fetch", "write"}
  /\ conn_pc \in [Clients -> {"away", "snapshot"}]
  /\ ws_pc \in {"binding", "accepting", "ended"}
  /\ tui_pc \in {"new", "ticker", "read", "ended", "aborted"}
  /\ raw_mode \in BOOLEAN /\ alternate \in BOOLEAN /\ quit \in BOOLEAN
  /\ main_pc \in {"select", "exited"}

(* The UI that has ended has restored the terminal, and main returns only    *)
(* after the server or the UI has ended.                                    *)
TerminalInv ==
  /\ tui_pc = "ended" => ~ raw_mode /\ ~ alternate
  /\ main_pc # "select" => ws_pc = "ended" \/ tui_pc \in {"ended", "aborted"}

Inv == LockInv /\ DataInv /\ TerminalInv

LEMMA InitInv == Init => Inv
<1> SUFFICES ASSUME Init PROVE Inv
  OBVIOUS
<1>1. Separate(holders, queue) /\ TasksOf(queue) = {}
  BY DEF Init, Separate, TasksOf
<1>2. \A t \in Tasks : ~ UsesLock(t)
  BY UsesLockOf DEF Init, Tasks
<1>3. LockInv
  BY <1>1, <1>2 DEF LockInv, Init
<1>4. DataInv
  <2>1. conn_pc \in [Clients -> {"away", "snapshot"}]
    BY DEF Init
  <2>2. 0 \in 0 .. MaxRounds
    BY ProxyAssumption
  <2>3. {chain, synced, fetched, baseline, published, screen} \subseteq 0 .. MaxRounds
    BY <2>2 DEF Init
  <2>4. QED
    BY <2>1, <2>3 DEF Init, DataInv
<1>5. TerminalInv
  BY DEF Init, TerminalInv
<1>6. QED
  BY <1>3, <1>4, <1>5 DEF Inv

(* The steps of the loop and of the poller.                                 *)
LEMMA LoopInv ==
  ASSUME Inv, Loop PROVE Inv'
<1> USE DEF Inv
<1>1. ASSUME agg_pc' \in {"select", "recv", "tick", "send", "status"}, UNCHANGED loopRest
      PROVE  \A u \in Tasks \ {"loop"} : UsesLock(u)' <=> UsesLock(u)
  BY <1>1, UsesLockOf, UsesLockOfNext DEF Tasks, loopRest
<1>2. "loop" \in Tasks
  BY DEF Tasks
<1>3. CASE RecvPrice
  <2>1. LockInv'
    BY <1>1, <1>2, <1>3, AskKeepsLock, UsesLockOf, UsesLockOfNext DEF RecvPrice
  <2>2. QED
    BY <1>3, <2>1 DEF RecvPrice, DataInv, TerminalInv, dataVars, loopRest, terminalVars
<1>4. CASE QuoteKept
  <2>1. LockInv'
    BY <1>1, <1>2, <1>4, ReleaseKeepsLock, UsesLockOfNext DEF QuoteKept
  <2>2. QED
    BY <1>4, <2>1 DEF QuoteKept, DataInv, dataVars, TerminalInv, loopRest, terminalVars
<1>5. CASE TickStart
  <2>1. LockInv'
    BY <1>1, <1>2, <1>5, AskKeepsLock, UsesLockOf, UsesLockOfNext DEF TickStart
  <2>2. QED
    BY <1>5, <2>1 DEF TickStart, DataInv, TerminalInv, dataVars, loopRest, terminalVars
<1>6. CASE TickCommit
  <2>1. LockInv'
    BY <1>1, <1>2, <1>6, ReleaseKeepsLock, UsesLockOfNext DEF TickCommit
  <2>2. QED
    BY <1>6, <2>1 DEF TickCommit, DataInv, TerminalInv, loopRest, terminalVars
<1>7. CASE SendEvents
  <2>1. LockInv'
    BY <1>1, <1>2, <1>7, AskKeepsLock, UsesLockOf, UsesLockOfNext DEF SendEvents
  <2>2. QED
    BY <1>7, <2>1 DEF SendEvents, DataInv, TerminalInv, dataVars, loopRest, terminalVars
<1>8. CASE StatusRead
  <2>1. LockInv'
    BY <1>1, <1>2, <1>8, ReleaseKeepsLock, UsesLockOfNext DEF StatusRead
  <2>2. QED
    BY <1>8, <2>1 DEF StatusRead, DataInv, TerminalInv, dataVars, loopRest, terminalVars
<1>9. QED
  BY <1>3, <1>4, <1>5, <1>6, <1>7, <1>8 DEF Loop

LEMMA PollerInv ==
  ASSUME Inv, Poller PROVE Inv'
<1> USE DEF Inv
<1>1. ASSUME UNCHANGED pollRest
      PROVE  \A u \in Tasks \ {"poller"} : UsesLock(u)' <=> UsesLock(u)
  BY <1>1, UsesLockOf, UsesLockOfNext DEF Tasks, pollRest
<1>2. "poller" \in Tasks
  BY DEF Tasks
<1>3. CASE Fetch
  <2>1. LockInv'
    BY <1>1, <1>2, <1>3, AskKeepsLock, UsesLockOf, UsesLockOfNext DEF Fetch
  <2>2. fetched' \in 0 .. MaxRounds
    <3>1. PICK r \in 1 .. chain : fetched' = r
      BY <1>3 DEF Fetch
    <3>2. chain \in 0 .. MaxRounds
      BY DEF DataInv
    <3>3. r \in 0 .. MaxRounds
      BY <3>2, ProxyAssumption
    <3>4. QED
      BY <3>1, <3>3
  <2>3. poll_pc' = "write" /\ UNCHANGED <<chain, synced, baseline, published, screen, pollRest>>
    BY <1>3 DEF Fetch
  <2>4. DataInv' /\ TerminalInv'
    BY <2>2, <2>3 DEF DataInv, TerminalInv, pollRest, terminalVars
  <2>5. QED
    BY <2>1, <2>4
<1>4. CASE WriteBaseline
  <2>1. LockInv'
    BY <1>1, <1>2, <1>4, ReleaseKeepsLock, UsesLockOfNext DEF WriteBaseline
  <2>2. /\ poll_pc' = "fetch" /\ baseline' = fetched /\ fetched' = 0
        /\ UNCHANGED <<chain, synced, published, screen, pollRest>>
    BY <1>4 DEF WriteBaseline
  <2>3. 0 \in 0 .. MaxRounds
    BY ProxyAssumption
  <2>4. DataInv' /\ TerminalInv'
    BY <2>2, <2>3 DEF DataInv, TerminalInv, pollRest, terminalVars
  <2>5. QED
    BY <2>1, <2>4
<1>5. QED
  BY <1>3, <1>4 DEF Poller

(* The steps of a connection and of the server.                             *)
LEMMA ConnectionInv ==
  ASSUME Inv, NEW c \in Clients, Connection(c) PROVE Inv'
<1> USE DEF Inv
<1>1. ASSUME NEW s \in {"away", "snapshot"},
             conn_pc' = [conn_pc EXCEPT ![c] = s], UNCHANGED wsRest
      PROVE  /\ \A u \in Tasks \ {c} : UsesLock(u)' <=> UsesLock(u)
             /\ UsesLock(c)' <=> s = "snapshot"
             /\ conn_pc' \in [Clients -> {"away", "snapshot"}]
  <2>1. conn_pc' \in [Clients -> {"away", "snapshot"}]
    BY <1>1 DEF DataInv
  <2>2. conn_pc'[c] = s /\ \A d \in Clients \ {c} : conn_pc'[d] = conn_pc[d]
    BY <1>1 DEF DataInv
  <2>3. QED
    BY <1>1, <2>1, <2>2, UsesLockOf, UsesLockOfNext DEF Tasks, wsRest
<1>2. c \in Tasks
  BY DEF Tasks
<1>3. CASE Connect(c)
  <2>1. LockInv'
    BY <1>1, <1>2, <1>3, AskKeepsLock, UsesLockOf DEF Connect
  <2>2. QED
    BY <1>1, <1>3, <2>1 DEF Connect, DataInv, TerminalInv, wsRest, dataVars, terminalVars
<1>4. CASE SnapshotSent(c)
  <2>1. LockInv'
    BY <1>1, <1>2, <1>4, ReleaseKeepsLock DEF SnapshotSent
  <2>2. QED
    BY <1>1, <1>4, <2>1 DEF SnapshotSent, DataInv, TerminalInv, wsRest, dataVars, terminalVars
<1>5. QED
  BY <1>3, <1>4 DEF Connection

LEMMA QuietInv ==
  ASSUME Inv, World \/ Server \/ MainReturns \/ UNCHANGED vars PROVE Inv'
<1> USE DEF Inv
<1>1. UNCHANGED <<lockVars, agg_pc, poll_pc, conn_pc, tui_pc>>
  BY DEF World, CommitRound, SyncNodes, PressQuit, Server, Bind, BindError, MainReturns,
         vars, pcVars, wsRest
<1>2. \A u \in Tasks : UsesLock(u)' <=> UsesLock(u)
  BY <1>1, UsesLockOf, UsesLockOfNext DEF Tasks
<1>3. LockInv'
  BY <1>1, <1>2, IdleKeepsLock
<1>4. CASE World
  <2>1. UNCHANGED <<raw_mode, alternate, pcVars>>
    BY <1>4 DEF World, CommitRound, SyncNodes, PressQuit, terminalVars
  <2>2. CASE CommitRound
    <3>1. chain + 1 \in 0 .. MaxRounds /\ chain' = chain + 1
      BY <2>2, ProxyAssumption DEF CommitRound, DataInv
    <3>2. UNCHANGED <<synced, fetched, baseline, published, screen, quit>>
      BY <2>2 DEF CommitRound, terminalVars
    <3>3. DataInv'
      BY <2>1, <3>1, <3>2 DEF DataInv, pcVars
    <3>4. TerminalInv'
      BY <2>1 DEF TerminalInv, pcVars
    <3>5. QED
      BY <1>3, <3>3, <3>4
  <2>3. CASE SyncNodes
    <3>1. synced' \in 0 .. MaxRounds
          /\ UNCHANGED <<chain, fetched, baseline, published, screen, quit>>
      <4>1. PICK n \in synced + 1 .. chain : synced' = n
        BY <2>3 DEF SyncNodes
      <4>2. synced \in Nat /\ chain \in 0 .. MaxRounds
        BY DEF DataInv
      <4>3. n \in 0 .. MaxRounds
        BY <4>2, ProxyAssumption
      <4>4. QED
        BY <2>3, <4>1, <4>3 DEF SyncNodes, terminalVars
    <3>2. DataInv'
      BY <2>1, <3>1 DEF DataInv, pcVars
    <3>3. TerminalInv'
      BY <2>1 DEF TerminalInv, pcVars
    <3>4. QED
      BY <1>3, <3>2, <3>3
  <2>4. CASE PressQuit
    <3>1. quit' = TRUE /\ UNCHANGED dataVars
      BY <2>4 DEF PressQuit
    <3>2. DataInv'
      BY <2>1, <3>1 DEF DataInv, dataVars, pcVars
    <3>3. TerminalInv'
      BY <2>1, <3>1 DEF TerminalInv, dataVars, pcVars
    <3>4. QED
      BY <1>3, <3>2, <3>3
  <2>5. QED
    BY <1>4, <2>2, <2>3, <2>4 DEF World
<1>5. CASE Server \/ MainReturns \/ UNCHANGED vars
  BY <1>3, <1>5 DEF Server, Bind, BindError, MainReturns, vars, DataInv,
     TerminalInv, dataVars, terminalVars, pcVars, wsRest
<1>6. QED
  BY <1>4, <1>5

(* The steps of the terminal UI.                                            *)
LEMMA TuiInv ==
  ASSUME Inv, Tui, main_pc # "exited" PROVE Inv'
<1> USE DEF Inv
<1>1. ASSUME UNCHANGED tuiRest
      PROVE  \A u \in Tasks \ {"tui"} : UsesLock(u)' <=> UsesLock(u)
  BY <1>1, UsesLockOf, UsesLockOfNext DEF Tasks, tuiRest
<1>2. "tui" \in Tasks
  BY DEF Tasks
<1>3. ASSUME Restore
      PROVE  /\ tui_pc' \in {"ended", "aborted"} /\ raw_mode' \in BOOLEAN /\ alternate' \in BOOLEAN
             /\ tui_pc' = "ended" => ~ raw_mode' /\ ~ alternate'
  BY <1>3 DEF Restore
<1>4. CASE TuiStart \/ TuiStartFails
  <2>1. /\ UNCHANGED <<lockVars, quit, screen, tuiRest>>
        /\ tui_pc = "new" /\ tui_pc' \in {"ticker", "aborted"}
        /\ raw_mode' \in BOOLEAN /\ alternate' \in BOOLEAN
    BY <1>4 DEF TuiStart, TuiStartFails
  <2>2. \A u \in Tasks : UsesLock(u)' <=> UsesLock(u)
    BY <1>1, <2>1, UsesLockOf, UsesLockOfNext
  <2>3. LockInv'
    BY <2>1, <2>2, IdleKeepsLock
  <2>4. QED
    BY <2>1, <2>3 DEF DataInv, TerminalInv, tuiRest
<1>5. CASE TuiTick
  <2>1. LockInv'
    BY <1>1, <1>2, <1>5, AskKeepsLock, UsesLockOf, UsesLockOfNext DEF TuiTick
  <2>2. QED
    BY <1>5, <2>1 DEF TuiTick, DataInv, TerminalInv, tuiRest, terminalVars
<1>6. CASE TuiDraw \/ TuiDrawFails
  <2>1. /\ "tui" \in holders /\ Release("tui") /\ UNCHANGED <<quit, tuiRest>>
        /\ tui_pc = "read" /\ tui_pc' \in {"ticker", "ended", "aborted"}
        /\ raw_mode' \in BOOLEAN /\ alternate' \in BOOLEAN
        /\ tui_pc' = "ended" => ~ raw_mode' /\ ~ alternate'
        /\ screen' \in {screen, published}
    BY <1>3, <1>6 DEF TuiDraw, TuiDrawFails, DataInv
  <2>2. LockInv'
    BY <1>1, <1>2, <2>1, ReleaseKeepsLock, UsesLockOfNext
  <2>3. DataInv'
    BY <2>1 DEF DataInv, tuiRest
  <2>4. TerminalInv'
    BY <2>1 DEF TerminalInv, tuiRest
  <2>5. QED
    BY <2>2, <2>3, <2>4
<1>7. QED
  BY <1>4, <1>5, <1>6 DEF Tui

LEMMA NextInv ==
  ASSUME Inv, [Next]_vars PROVE Inv'
<1>1. CASE World \/ Server \/ MainReturns \/ UNCHANGED vars
  BY <1>1, QuietInv
<1>2. CASE Loop
  BY <1>2, LoopInv
<1>3. CASE Poller
  BY <1>3, PollerInv
<1>4. CASE Tui /\ main_pc # "exited"
  BY <1>4, TuiInv
<1>5. ASSUME NEW c \in Clients, Connection(c) PROVE Inv'
  BY <1>5, ConnectionInv
<1>6. QED
  BY <1>1, <1>2, <1>3, <1>4, <1>5 DEF Next, Running, Exited

(* The invariant holds in every behaviour of the process.                   *)
THEOREM ProxyInvariance == Spec => []Inv
<1>1. Inv /\ [Next]_vars => Inv'
  BY NextInv
<1>2. QED
  BY InitInv, <1>1, PTL DEF Spec

(* Every variable holds a value of its type.                                *)
THEOREM ProxyTypeCorrect == Spec => []TypeOK
<1>1. Inv => TypeOK
  BY DEF Inv, LockInv, DataInv, Separate, Requests, TypeOK
<1>2. QED
  BY <1>1, ProxyInvariance, PTL

(* No task keeps a guard or a request it no longer uses, none asks for a     *)
(* lock it holds (drop(s) before the second read() of the loop).             *)
THEOREM GuardsBalanced == Spec => []NoGuardLeaks
<1>1. Inv => NoGuardLeaks
  BY DEF Inv, LockInv, Separate, NoGuardLeaks, Waiting, TasksOf
<1>2. QED
  BY <1>1, ProxyInvariance, PTL

(* The terminal stays raw only after a failed bind or a failed terminal call. *)
THEOREM TerminalSafe == Spec => []TerminalLostOnlyByFailure
<1>1. Inv => TerminalLostOnlyByFailure
  BY DEF Inv, TerminalInv, DataInv, TerminalLostOnlyByFailure
<1>2. QED
  BY <1>1, ProxyInvariance, PTL

=============================================================================
