---------------------------- MODULE CleanerProofs ----------------------------
(***************************************************************************)
(* Type correctness of module Cleaner, for every value of its constants:    *)
(* one lemma per group of actions, each action a step of its own.           *)
(***************************************************************************)
EXTENDS Cleaner, FiniteSetTheorems, TLAPS

\* The blank task of an idle goroutine is well typed.
LEMMA NoTaskType == NoTask \in TaskType
BY ChatAssumption, NumberAssumption DEF NoTask, TaskType, Ops, PCs, AnyChat

\* A freshly spawned goroutine (Job) is well typed.
LEMMA JobType ==
    ASSUME NEW op \in Ops, NEW pc \in PCs, NEW c \in Chats
    PROVE  Job(op, pc, c) \in TaskType
BY NoTaskType DEF Job, TaskType

\* The scan callback keeps its task well typed.
LEMMA CalledType ==
    ASSUME TypeOK, NEW w \in Workers, NEW m \in task[w].page
    PROVE  Called(task[w], m) \in TaskType
<1>1. task[w] \in TaskType BY DEF TypeOK, Procs
<1> DEFINE t == task[w]
           old == IF t.op = "drain" THEN m ELSE 0
           ids == IF t.op = "drain" /\ Outlived(t.chat, m, t.ttl, t.at) THEN t.ids \cup {m} ELSE t.ids
           pc == IF t.page = {m} THEN "fetch" ELSE "page"
<1>2. m \in Ids /\ t.page \ {m} \in SUBSET Ids BY <1>1 DEF TaskType
<1>3. old \in Ids \cup {0} BY <1>2
<1>4. ids \in SUBSET Ids BY <1>1, <1>2 DEF TaskType
<1>5. pc \in PCs BY DEF PCs
<1>6. Called(t, m) = [t EXCEPT !.page = t.page \ {m}, !.offset = m, !.oldest = old, !.ids = ids, !.pc = pc]
  BY <1>1 DEF Called, NextOffset, TaskType
<1> HIDE DEF old, ids, pc
<1>7. QED BY <1>1, <1>2, <1>3, <1>4, <1>5, <1>6 DEF TaskType

\* drainChat's next pass stays below the pass ceiling, so it is well typed.
LEMMA NextPassType ==
    ASSUME NEW t \in TaskType, PassesLeft(t)
    PROVE  NextPass(t) \in TaskType
<1> DEFINE j == Job("drain", "fetch", t.chat)
           n == t.pass + 1
<1>1. n \in 0..MaxDrainPasses
  BY NumberAssumption DEF TaskType, PassesLeft
<1>2. j \in TaskType
  <2>. t.chat \in Chats BY DEF TaskType
  <2>. QED BY JobType DEF Ops, PCs
<1>3. NextPass(t) = [j EXCEPT !.ctx = t.ctx, !.ttl = t.ttl, !.pass = n, !.prev = t.oldest]
  BY DEF NextPass
<1>4. t.ctx \in Nat /\ t.ttl \in TTLs \cup {0} /\ t.oldest \in Ids \cup {0}
  BY DEF TaskType
<1> HIDE DEF n, j
<1>. QED BY <1>1, <1>2, <1>3, <1>4 DEF TaskType

\* The state before the program first runs is well typed.
THEOREM TypeInit == Init => TypeOK
<1> SUFFICES ASSUME Init PROVE TypeOK OBVIOUS
<1>1. own \in [Chats -> SUBSET Ids] BY DEF Init
<1>2. sent \in [Chats -> [Ids -> Nat \cup {Unsent}]]
  <2>1. \A c \in Chats, m \in Ids : (IF <<c, m>> \in History THEN 0 ELSE Unsent) \in Nat \cup {Unsent}
    OBVIOUS
  <2>. QED BY <2>1 DEF Init
<1>3. task \in [Procs -> TaskType] BY NoTaskType DEF Init
<1>4. budget \in BudgetType BY NumberAssumption DEF Init, BudgetType
<1>5. session \in 0..MaxSessions /\ loop \in 0..session BY NumberAssumption DEF Init
<1>. QED BY <1>1, <1>2, <1>3, <1>4, <1>5 DEF Init, TypeOK

\* A step that replaces one task by a well-typed one keeps task well typed.
LEMMA BecomesType ==
    ASSUME TypeOK, NEW p \in Procs, NEW t, t \in TaskType, Becomes(p, t)
    PROVE  task' \in [Procs -> TaskType]
BY DEF TypeOK, Becomes

\* Steps of Telegram and of the clock keep the state well typed.
LEMMA TelegramType ==
    ASSUME TypeOK, Telegram
    PROVE  TypeOK'
<1>1. CASE Tick
  BY <1>1 DEF Tick, TypeOK, conf, conn, mem
<1>2. ASSUME NEW c \in Chats, NEW m \in Ids, Send(c, m)
      PROVE  TypeOK'
  BY <1>2 DEF Send, TypeOK, conf, conn, mem
<1>3. ASSUME NEW c \in Chats, NEW m \in Ids, Vanish(c, m)
      PROVE  TypeOK'
  BY <1>3 DEF Vanish, TypeOK, conf, conn, mem
<1>. QED BY <1>1, <1>2, <1>3 DEF Telegram

\* The update handlers OnOwnMessage and OnDeleted keep the state well typed.
LEMMA UpdatesType ==
    ASSUME TypeOK, Updates
    PROVE  TypeOK'
<1>1. ASSUME NEW c \in Chats, NEW m \in Ids, OwnIgnored(c, m)
      PROVE  TypeOK'
  BY <1>1 DEF OwnIgnored, TypeOK, conf, conn, mem
<1>2. ASSUME NEW c \in Chats, NEW m \in Ids, OnDeleted(c, m)
      PROVE  TypeOK'
  BY <1>2 DEF OnDeleted, Without, TypeOK, conf, conn, mem
<1>3. ASSUME NEW c \in Chats, NEW m \in Ids, NEW w \in Workers, OwnMatched(w, c, m)
      PROVE  TypeOK'
  <2>1. [Job("instant", "delete", c) EXCEPT !.ids = {m}] \in TaskType
    BY JobType DEF TaskType, Ops, PCs
  <2>2. task' \in [Procs -> TaskType]
    BY <1>3, <2>1, BecomesType DEF OwnMatched, Procs
  <2>. QED BY <1>3, <2>2 DEF OwnMatched, TypeOK, conf, conn, mem
<1>4. ASSUME NEW c \in Chats, NEW m \in Ids, NEW w \in Workers, OwnRecorded(w, c, m)
      PROVE  TypeOK'
  <2>1. [Job("own", "record", c) EXCEPT !.ids = {m}] \in TaskType
    BY JobType DEF TaskType, Ops, PCs
  <2>2. task' \in [Procs -> TaskType]
    BY <1>4, <2>1, BecomesType DEF OwnRecorded, Procs
  <2>. QED BY <1>4, <2>2 DEF OwnRecorded, TypeOK, conf, conn, mem
<1>5. ASSUME NEW c \in Chats, NEW m \in Ids, OwnService(c, m)
      PROVE  TypeOK'
  BY <1>5 DEF OwnService, TypeOK, conf, conn, mem
<1>. QED BY <1>1, <1>2, <1>3, <1>4, <1>5 DEF Updates

\* The sweep loop keeps the state well typed.
LEMMA SweepType ==
    ASSUME TypeOK, Sweep
    PROVE  TypeOK'
<1>1. CASE SweepTick
  <2>1. jobs' \in [Chats -> SUBSET Ids]
    BY <1>1 DEF SweepTick, Expired, TypeOK
  <2>. QED BY <1>1, <2>1 DEF SweepTick, TypeOK, server, conf, conn, mem
<1>2. CASE LoopExit
  BY <1>2 DEF LoopExit, TypeOK, server, conf, conn, mem
<1>3. ASSUME NEW c \in Chats, SweepNext(c)
      PROVE  TypeOK'
  <2>1. [Job("sweep", "delete", c) EXCEPT !.ids = jobs[c], !.ctx = loop] \in TaskType
    <3> DEFINE j == Job("sweep", "delete", c)
    <3>1. j \in TaskType BY JobType DEF Ops, PCs
    <3>2. loop \in Nat /\ jobs[c] \in SUBSET Ids BY NumberAssumption DEF TypeOK
    <3>3. [j EXCEPT !.ids = jobs[c], !.ctx = loop] \in TaskType
      <4> HIDE DEF j
      <4>. QED BY <3>1, <3>2 DEF TaskType
    <3>. QED BY <3>3
  <2>2. task' \in [Procs -> TaskType]
    BY <1>3, <2>1, BecomesType DEF SweepNext, Procs
  <2>. QED BY <1>3, <2>2 DEF SweepNext, TypeOK, server, conf, conn, mem
<1>. QED BY <1>1, <1>2, <1>3 DEF Sweep

\* The budget of faults is respected.
LEMMA FailsType ==
    ASSUME TypeOK, NEW t, Fails(t)
    PROVE  budget' \in BudgetType
BY NumberAssumption DEF Fails, TypeOK, BudgetType

\* resolveGroup keeps the state well typed.
LEMMA ResolveType ==
    ASSUME TypeOK, NEW w \in Workers, Resolve(w)
    PROVE  TypeOK'
<1>1. task[w] \in TaskType /\ task[w].chat \in Chats
  BY DEF TypeOK, TaskType, Procs
<1> DEFINE c == task[w].chat
           n == IF task[w].op = "drain" THEN ttl[c] ELSE 0
           k == IF task[w].op = "drain" THEN 1 ELSE 0
           t == [task[w] EXCEPT !.pc = "mark", !.ttl = n, !.pass = k]
<1>2. n \in TTLs \cup {0} /\ k \in 0..MaxDrainPasses
  BY <1>1, NumberAssumption DEF TypeOK
<1>3. t \in TaskType
  <2> HIDE DEF n, k
  <2>. QED BY <1>1, <1>2 DEF TaskType, PCs
<1>4. task' = [task EXCEPT ![w] = IF task[w].op = "drain" /\ ttl[c] = 0 THEN NoTask ELSE t]
  BY DEF Resolve, Becomes
<1>5. task' \in [Procs -> TaskType]
  <2> HIDE DEF t
  <2>. QED BY <1>3, <1>4, NoTaskType DEF TypeOK
<1>. QED BY <1>5 DEF Resolve, TypeOK, server, conf, conn, mem

\* Capturing the API client and the clock keeps a task well typed.
LEMMA FetchingType ==
    ASSUME TypeOK, NEW w \in Workers
    PROVE  Fetching(w) \in TaskType
<1>1. task[w] \in TaskType BY DEF TypeOK, Procs
<1> DEFINE a == IF task[w].op = "drain" THEN now ELSE 0
<1>2. a \in Nat /\ session \in Nat BY NumberAssumption DEF TypeOK
<1>3. Fetching(w) = IF task[w].offset # 0 THEN task[w] ELSE [task[w] EXCEPT !.api = session, !.at = a]
  BY DEF Fetching
<1> HIDE DEF a
<1>. QED BY <1>1, <1>2, <1>3 DEF TaskType

\* A task whose scan is over is well typed.
LEMMA ScanDoneType ==
    ASSUME NEW t \in TaskType
    PROVE  ScanDone(t) \in TaskType
<1>1. [t EXCEPT !.pc = "delete", !.offset = 0] \in TaskType BY DEF TaskType, PCs
<1>. QED BY <1>1, NoTaskType DEF ScanDone

\* A page of ScanOwn keeps the state well typed.
LEMMA FetchType ==
    ASSUME TypeOK, NEW w \in Workers, Fetch(w)
    PROVE  TypeOK'
<1> DEFINE t == Fetching(w)
           page == Found(t.chat, t.offset)
           u == [t EXCEPT !.pc = "page", !.page = page]
<1>1. t \in TaskType BY FetchingType
<1>2. page \in SUBSET Ids
  <2>1. t.chat \in Chats BY <1>1 DEF TaskType
  <2>. QED BY <2>1 DEF Found, Page, Below, Reachable, TypeOK
<1>3. u \in TaskType
  <2> HIDE DEF t, page
  <2>. QED BY <1>1, <1>2 DEF TaskType, PCs
<1>4. task' = [task EXCEPT ![w] = IF page = {} THEN ScanDone(t) ELSE u]
  BY DEF Fetch, Becomes
<1>5. task' \in [Procs -> TaskType]
  <2> HIDE DEF t, u
  <2>. QED BY <1>1, <1>3, <1>4, ScanDoneType DEF TypeOK
<1>. QED BY <1>5 DEF Fetch, TypeOK, server, conf, conn, mem

\* Every step of a scan, of a handler and of DisableChat keeps the state well typed.
LEMMA WorkingType ==
    ASSUME TypeOK, NEW w \in Workers, Working(w)
    PROVE  TypeOK'
<1>0. w \in Procs /\ task[w] \in TaskType BY DEF TypeOK, Procs
<1>1. CASE OwnIndexed(w)
  <2>1. task' \in [Procs -> TaskType]
    BY <1>0, <1>1, NoTaskType, BecomesType DEF OwnIndexed
  <2>. QED BY <1>0, <1>1, <2>1 DEF OwnIndexed, TypeOK, TaskType, server, conf, conn
<1>2. CASE Resolve(w)
  BY <1>2, ResolveType
<1>3. CASE ResolveFailed(w)
  <2>1. task' \in [Procs -> TaskType]
    BY <1>0, <1>3, NoTaskType, BecomesType DEF ResolveFailed
  <2>2. budget' \in BudgetType BY <1>3, FailsType DEF ResolveFailed
  <2>. QED BY <1>3, <2>1, <2>2 DEF ResolveFailed, TypeOK, server, conf, conn, mem
<1>4. CASE MarkActive(w)
  <2>1. [task[w] EXCEPT !.pc = "fetch"] \in TaskType BY <1>0 DEF TaskType, PCs
  <2>2. task' \in [Procs -> TaskType] BY <1>0, <1>4, <2>1, BecomesType DEF MarkActive
  <2>. QED BY <1>0, <1>4, <2>2 DEF MarkActive, TypeOK, TaskType, server, conf, conn
<1>5. CASE Fetch(w)
  BY <1>5, FetchType
<1>6. CASE FetchFailed(w)
  <2>1. task' \in [Procs -> TaskType]
    BY <1>0, <1>6, NoTaskType, BecomesType DEF FetchFailed
  <2>2. budget' \in BudgetType BY <1>6, FailsType DEF FetchFailed
  <2>. QED BY <1>6, <2>1, <2>2 DEF FetchFailed, TypeOK, server, conf, conn, mem
<1>7. CASE DisableChat(w)
  <2>1. task' \in [Procs -> TaskType]
    BY <1>0, <1>7, NoTaskType, BecomesType DEF DisableChat
  <2>. QED BY <1>0, <1>7, <2>1 DEF DisableChat, NoLongerActive, TypeOK, TaskType, server, conf, conn
<1>8. ASSUME NEW m \in Ids, Callback(w, m)
      PROVE  TypeOK'
  <2>1. task' \in [Procs -> TaskType]
    BY <1>0, <1>8, CalledType, BecomesType DEF Callback
  <2>. QED BY <1>0, <1>8, <2>1 DEF Callback, TypeOK, TaskType, server, conf, conn
<1>. QED BY <1>1, <1>2, <1>3, <1>4, <1>5, <1>6, <1>7, <1>8 DEF Working

\* A delete about to send its next chunk is well typed.
LEMMA SendingType ==
    ASSUME TypeOK, NEW p \in Procs
    PROVE  Sending(p) \in TaskType
<1>1. task[p] \in TaskType /\ session \in Nat BY NumberAssumption DEF TypeOK
<1>2. [task[p] EXCEPT !.api = session, !.todo = task[p].ids] \in TaskType
  BY <1>1 DEF TaskType
<1>. QED BY <1>1, <1>2 DEF Sending

\* Sending a chunk, failed or not, keeps a task well typed.
LEMMA AfterChunkType ==
    ASSUME NEW t \in TaskType, NEW k \in SUBSET Ids
    PROVE  AfterChunk(t, k) \in TaskType /\ WithFailed(AfterChunk(t, k), k) \in TaskType
<1> DEFINE left == t.todo \ k
           pc == IF t.todo = k THEN "settle" ELSE "chunk"
<1>1. left \in SUBSET Ids /\ pc \in PCs BY DEF TaskType, PCs
<1>2. AfterChunk(t, k) = [t EXCEPT !.todo = left, !.pc = pc] BY DEF AfterChunk
<1>3. AfterChunk(t, k) \in TaskType
  <2> HIDE DEF left, pc
  <2>. QED BY <1>1, <1>2 DEF TaskType
<1>. QED BY <1>3 DEF WithFailed, TaskType

\* Whatever follows deleteIDs is well typed.
LEMMA ReturnedType ==
    ASSUME NEW t \in TaskType, NEW ok
    PROVE  Returned(t, ok) \in TaskType
BY NoTaskType, NextPassType DEF Returned

\* The bookkeeping after a delete keeps the state well typed; the count of
\* deleted messages is a number because the ids are finite.
LEMMA SettleType ==
    ASSUME TypeOK, NEW p \in Procs, Settle(p)
    PROVE  TypeOK'
<1>1. task[p] \in TaskType BY DEF TypeOK
<1>2. task' \in [Procs -> TaskType]
  BY <1>1, ReturnedType, BecomesType DEF Settle
<1>3. Cardinality(OkIds(task[p])) \in Nat
  <2>1. OkIds(task[p]) \subseteq Ids BY <1>1 DEF OkIds, TaskType
  <2>. QED BY <2>1, NumberAssumption, FS_Subset, FS_CardinalityType
<1>4. index' \in [Chats -> SUBSET Ids] /\ deleted' \in [Chats -> Nat]
  BY <1>1, <1>3 DEF Settle, TypeOK, TaskType
<1>. QED BY <1>2, <1>4 DEF Settle, TypeOK, server, conf, conn

\* Every step of deleteIDs and Delete keeps the state well typed.
LEMMA DeletingType ==
    ASSUME TypeOK, NEW p \in Procs, Deleting(p)
    PROVE  TypeOK'
<1>0. task[p] \in TaskType BY DEF TypeOK
<1>1. CASE DeleteDropped(p)
  <2>1. task' \in [Procs -> TaskType]
    BY <1>0, <1>1, ReturnedType, BecomesType DEF DeleteDropped
  <2>. QED BY <1>1, <2>1 DEF DeleteDropped, TypeOK, server, conf, conn, mem
<1>2. CASE DeleteRefused(p)
  <2>1. [task[p] EXCEPT !.pc = "settle"] \in TaskType BY <1>0 DEF TaskType, PCs
  <2>2. task' \in [Procs -> TaskType] BY <1>2, <2>1, BecomesType DEF DeleteRefused
  <2>. QED BY <1>2, <2>2 DEF DeleteRefused, TypeOK, server, conf, conn, mem
<1>3. CASE Settle(p)
  BY <1>3, SettleType
<1>4. ASSUME NEW k \in SUBSET Ids, ChunkDeleted(p, k)
      PROVE  TypeOK'
  <2>1. task' \in [Procs -> TaskType]
    BY <1>4, SendingType, AfterChunkType, BecomesType DEF ChunkDeleted
  <2>2. own' \in [Chats -> SUBSET Ids]
    BY <1>4 DEF ChunkDeleted, Without, TypeOK
  <2>. QED BY <1>4, <2>1, <2>2 DEF ChunkDeleted, TypeOK, conf, conn, mem
<1>5. ASSUME NEW k \in SUBSET Ids, ChunkFailed(p, k)
      PROVE  TypeOK'
  <2>1. task' \in [Procs -> TaskType]
    BY <1>5, SendingType, AfterChunkType, BecomesType DEF ChunkFailed
  <2>2. own' \in [Chats -> SUBSET Ids]
    <3>1. own' = own \/ own' = Without(own, Box(Sending(p).chat), k) BY <1>5 DEF ChunkFailed
    <3>. QED BY <3>1 DEF Without, TypeOK
  <2>3. budget' \in BudgetType BY <1>5, FailsType DEF ChunkFailed
  <2>. QED BY <1>5, <2>1, <2>2, <2>3 DEF ChunkFailed, TypeOK, conf, conn, mem
<1>. QED BY <1>1, <1>2, <1>3, <1>4, <1>5 DEF Deleting

\* The budget of operator commands is respected.
LEMMA CommandType ==
    ASSUME TypeOK, Command
    PROVE  budget' \in BudgetType
BY NumberAssumption DEF Command, TypeOK, BudgetType

\* The operator's commands keep the state well typed.
LEMMA OperatorType ==
    ASSUME TypeOK, Operator
    PROVE  TypeOK'
<1>1. ASSUME NEW c \in Chats, AddPattern(c)
      PROVE  TypeOK'
  BY <1>1, CommandType DEF AddPattern, TypeOK, server, conn, mem
<1>2. ASSUME NEW c \in Chats, RemovePattern(c)
      PROVE  TypeOK'
  BY <1>2, CommandType DEF RemovePattern, TypeOK, server, conn, mem
<1>3. ASSUME NEW c \in Chats, NEW w \in Workers, ClearTTL(w, c)
      PROVE  TypeOK'
  <2>1. task' \in [Procs -> TaskType]
    BY <1>3, JobType, BecomesType DEF ClearTTL, Procs, Ops, PCs
  <2>. QED BY <1>3, <2>1, CommandType DEF ClearTTL, TypeOK, server, conn, mem
<1>4. ASSUME NEW c \in Chats, NEW w \in Workers, TurnOff(w, c)
      PROVE  TypeOK'
  <2>1. task' \in [Procs -> TaskType]
    BY <1>4, JobType, BecomesType DEF TurnOff, Procs, Ops, PCs
  <2>. QED BY <1>4, <2>1, CommandType DEF TurnOff, TypeOK, server, conn, mem
<1>5. ASSUME NEW c \in Chats, NEW w \in Workers, Purge(w, c)
      PROVE  TypeOK'
  <2>1. task' \in [Procs -> TaskType]
    BY <1>5, JobType, BecomesType DEF Purge, Procs, Ops, PCs
  <2>. QED BY <1>5, <2>1, CommandType DEF Purge, TypeOK, server, conf, conn, mem
<1>6. ASSUME NEW c \in Chats, NEW w \in Workers, NEW n \in TTLs, ApplyTTL(w, c, n)
      PROVE  TypeOK'
  <2>1. task' \in [Procs -> TaskType]
    <3>1. CASE ttl[c] = 0
      BY <1>6, <3>1, JobType, BecomesType DEF ApplyTTL, Procs, Ops, PCs
    <3>2. CASE ttl[c] # 0
      BY <1>6, <3>2, JobType, BecomesType DEF ApplyTTL, Procs, Ops, PCs
    <3>. QED BY <3>1, <3>2
  <2>2. ttl' \in [Chats -> TTLs \cup {0}] /\ used' \in [Chats -> SUBSET TTLs]
    BY <1>6 DEF ApplyTTL, TypeOK
  <2>. QED BY <1>6, <2>1, <2>2, CommandType DEF ApplyTTL, TypeOK, server, conn, mem
<1>. QED BY <1>1, <1>2, <1>3, <1>4, <1>5, <1>6 DEF Operator

\* Starting, stopping and crashing keep the state well typed.
LEMMA SessionsType ==
    ASSUME TypeOK, Sessions
    PROVE  TypeOK'
<1>1. CASE Start
  BY <1>1, NumberAssumption DEF Start, TypeOK, server, conf, mem
<1>2. CASE ReadyList
  <2>1. budget' \in BudgetType BY <1>2, FailsType DEF ReadyList, TypeOK
  <2>2. cached' \subseteq Chats BY <1>2 DEF ReadyList, TypeOK
  <2>. QED BY <1>2, <2>1, <2>2 DEF ReadyList, ReadyChats, TypeOK, server, conf, mem
<1>3. CASE StopCancel
  BY <1>3, NumberAssumption DEF StopCancel, TypeOK, BudgetType, server, conf, mem
<1>4. CASE StopHalt
  BY <1>4 DEF StopHalt, TypeOK, server, conf, mem
<1>5. CASE Reset
  BY <1>5 DEF Reset, TypeOK, server, conf
<1>6. CASE Crash
  <2>1. task' \in [Procs -> TaskType] BY <1>6, NoTaskType DEF Crash
  <2>2. budget' \in BudgetType BY <1>6, NumberAssumption DEF Crash, TypeOK, BudgetType
  <2>3. loop' \in 0..session' BY <1>6, NumberAssumption DEF Crash, TypeOK
  <2>. QED BY <1>6, <2>1, <2>2, <2>3 DEF Crash, TypeOK, server, conf
<1>7. ASSUME NEW c \in Chats, NEW w \in Workers, ReadySpawn(w, c)
      PROVE  TypeOK'
  <2>1. [Job("enable", "resolve", c) EXCEPT !.ctx = session] \in TaskType
    <3>1. Job("enable", "resolve", c) \in TaskType BY JobType DEF Ops, PCs
    <3>2. session \in Nat BY NumberAssumption DEF TypeOK
    <3>. QED BY <3>1, <3>2 DEF TaskType
  <2>2. task' \in [Procs -> TaskType] BY <1>7, <2>1, BecomesType DEF ReadySpawn, Procs
  <2>. QED BY <1>7, <2>2 DEF ReadySpawn, TypeOK, server, conf, mem
<1>. QED BY <1>1, <1>2, <1>3, <1>4, <1>5, <1>6, <1>7 DEF Sessions

\* TypeOK is inductive.
LEMMA TypeStep == TypeOK /\ [Next]_vars => TypeOK'
<1> SUFFICES ASSUME TypeOK, [Next]_vars PROVE TypeOK' OBVIOUS
<1>1. CASE UNCHANGED vars
  BY <1>1 DEF vars, server, conf, conn, mem, TypeOK
<1>2. CASE Next
  BY <1>2, TelegramType, UpdatesType, SweepType, DeletingType, WorkingType,
     OperatorType, SessionsType DEF Next
<1>. QED BY <1>1, <1>2

\* In every behaviour, for all values of the constants, the state of the cleaner
\* is well typed; in particular a drain never runs a pass beyond maxDrainPasses
\* and no offset or window mark leaves the ids.
THEOREM TypeCorrect == Spec => []TypeOK
<1>1. Init => TypeOK BY TypeInit
<1>2. TypeOK /\ [Next]_vars => TypeOK' BY TypeStep
<1>. QED BY <1>1, <1>2, PTL DEF Spec
=============================================================================
