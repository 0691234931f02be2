--------------------------- MODULE ConfirmedProofs ---------------------------
(***************************************************************************)
(* What the cleaner gives up was deleted: ConfirmedGone and NoSilentDrop of *)
(* module Cleaner, up to the first /stop.  After one they are false: Delete *)
(* answers (nil, errNotRunning) and deleteIDs takes the ids for deleted     *)
(* (see the run unconfirmed).  Until then the client is either up or was    *)
(* never started in this process, and then no group is cached, so           *)
(* deleteIDs does not get as far as Delete (ColdCache).  What a delete has  *)
(* behind it, neither failed nor still to be sent, is gone from its chat    *)
(* (SentAway) and stays so, because Telegram never uses an id twice.        *)
(***************************************************************************)
EXTENDS RightfulProofs

\* Without a /stop the API client is missing only before the first start, and
\* then no group is cached.
ColdCache ==
    /\ client \in {"up", "down"}
    /\ client = "down" => cached = {}

\* The ids of a delete that Telegram has been asked for without an error.
Answered(t) == t.ids \ (t.failed \cup t.todo)

\* Telegram has deleted them, and at the end of Delete no chunk is left.
SentAway ==
    \A p \in Procs : task[p].pc \in {"chunk", "settle"} =>
        /\ Answered(task[p]) \cap own[task[p].chat] = {}
        /\ task[p].pc = "settle" => task[p].todo = {}

\* A delete update is only about a message that was there and is no longer.
GoneSent == \A c \in Chats : gone[c] \subseteq Sent(c) \ own[c]

ConfirmedInv ==
    /\ RightfulInv
    /\ GoneSent
    /\ budget.stops = 0 => ColdCache /\ SentAway

\* The invariant holds before the program first runs.
LEMMA ConfirmedInit == Init => ConfirmedInv
<1> SUFFICES ASSUME Init PROVE ConfirmedInv OBVIOUS
<1>1. RightfulInv BY RightfulInit
<1>2. GoneSent BY DEF Init, GoneSent
<1>3. ColdCache BY DEF Init, ColdCache
<1>4. SentAway
  <2>. \A p \in Procs : task[p].pc = "idle" BY DEF Init, NoTask
  <2>. QED BY DEF SentAway
<1>. QED BY <1>1, <1>2, <1>3, <1>4 DEF ConfirmedInv

-----------------------------------------------------------------------------
(* The connection and the cache *)

\* A failed RPC is no /stop.
LEMMA FailsStops ==
    ASSUME TypeOK, NEW t, Fails(t)
    PROVE  budget'.stops = budget.stops
BY DEF Fails, TypeOK, BudgetType

\* A command is no /stop.
LEMMA CommandStops ==
    ASSUME TypeOK, Command
    PROVE  budget'.stops = budget.stops
BY DEF Command, TypeOK, BudgetType

\* Only a live client fills the group cache, and without a /stop the client goes
\* down only with the process, which loses the cache.
LEMMA ColdStep ==
    ASSUME TypeOK, Next, budget.stops = 0 => ColdCache, budget'.stops = 0
    PROVE  budget.stops = 0 /\ ColdCache'
<1>0. ASSUME UNCHANGED <<client, cached>>, budget'.stops = budget.stops
      PROVE  budget.stops = 0 /\ ColdCache'
  BY <1>0 DEF ColdCache
<1>1. CASE Telegram
  BY <1>0, <1>1 DEF Telegram, Tick, Send, Vanish, conn
<1>2. CASE Updates
  BY <1>0, <1>2
     DEF Updates, OwnService, OwnIgnored, OnDeleted, OwnMatched, OwnRecorded, conn
<1>3. CASE Sweep
  BY <1>0, <1>3 DEF Sweep, SweepTick, LoopExit, SweepNext, conn
<1>4. ASSUME NEW p \in Procs, Deleting(p)
      PROVE  budget.stops = 0 /\ ColdCache'
  <2>1. CASE DeleteDropped(p) \/ DeleteRefused(p) \/ Settle(p)
    BY <1>0, <2>1 DEF DeleteDropped, DeleteRefused, Settle, conn
  <2>2. ASSUME NEW k \in SUBSET Ids, ChunkDeleted(p, k)
        PROVE  budget.stops = 0 /\ ColdCache'
    BY <1>0, <2>2 DEF ChunkDeleted, conn
  <2>3. ASSUME NEW k \in SUBSET Ids, ChunkFailed(p, k)
        PROVE  budget.stops = 0 /\ ColdCache'
    BY <1>0, <2>3, FailsStops DEF ChunkFailed, conn
  <2>. QED BY <1>4, <2>1, <2>2, <2>3 DEF Deleting
<1>5. ASSUME NEW w \in Workers, Working(w)
      PROVE  budget.stops = 0 /\ ColdCache'
  <2>1. CASE OwnIndexed(w) \/ MarkActive(w) \/ Fetch(w) \/ DisableChat(w) \/ \E m \in Ids : Callback(w, m)
    BY <1>0, <2>1 DEF OwnIndexed, MarkActive, Fetch, DisableChat, Callback, conn
  <2>2. CASE Resolve(w)
    <3>1. UNCHANGED <<client, budget>> BY <2>2 DEF Resolve, conn
    <3>2. cached' = cached \/ client = "up" BY <2>2 DEF Resolve, Live
    <3>. QED BY <3>1, <3>2 DEF ColdCache
  <2>3. CASE ResolveFailed(w)
    BY <1>0, <2>3, FailsStops DEF ResolveFailed, conn
  <2>4. CASE FetchFailed(w)
    BY <1>0, <2>4, FailsStops DEF FetchFailed, conn
  <2>. QED BY <1>5, <2>1, <2>2, <2>3, <2>4 DEF Working
<1>6. CASE Operator
  BY <1>0, <1>6, CommandStops
     DEF Operator, AddPattern, RemovePattern, ClearTTL, TurnOff, Purge, ApplyTTL, conn
<1>7. CASE Sessions
  <2>1. CASE Start BY <2>1 DEF Start, ColdCache
  <2>2. CASE ReadyList
    <3>1. UNCHANGED client BY <2>2 DEF ReadyList
    <3>2. budget'.stops = budget.stops BY <2>2, FailsStops DEF ReadyList
    <3>3. cached' = cached \/ client = "up" BY <2>2 DEF ReadyList, Live
    <3>. QED BY <3>1, <3>2, <3>3 DEF ColdCache
  <2>3. CASE StopCancel
    <3>. budget.stops \in Nat /\ budget'.stops = budget.stops + 1
      BY <2>3, NumberAssumption DEF StopCancel, TypeOK, BudgetType
    <3>. QED OBVIOUS
  <2>4. CASE StopHalt BY <2>4 DEF StopHalt, ColdCache
  <2>5. CASE Reset BY <2>5 DEF Reset, ColdCache
  <2>6. CASE Crash BY <2>6 DEF Crash, ColdCache, TypeOK, BudgetType
  <2>7. ASSUME NEW w \in Workers, NEW c \in Chats, ReadySpawn(w, c)
        PROVE  budget.stops = 0 /\ ColdCache'
    BY <1>0, <2>7 DEF ReadySpawn
  <2>. QED BY <1>7, <2>1, <2>2, <2>3, <2>4, <2>5, <2>6, <2>7 DEF Sessions
<1>. QED BY <1>1, <1>2, <1>3, <1>4, <1>5, <1>6, <1>7 DEF Next

-----------------------------------------------------------------------------
(* The deletes under way *)

\* A step under which no message appears, and no goroutine is newly in Delete.
Light ==
    /\ \A c \in Chats : own'[c] \subseteq own[c]
    /\ \A q \in Procs : task'[q] = task[q] \/ task'[q].pc \notin {"chunk", "settle"}

\* A light step leaves what was deleted deleted.
LEMMA LightAway ==
    ASSUME TypeOK, SentAway, Light
    PROVE  SentAway'
<1> SUFFICES ASSUME NEW q \in Procs, task'[q].pc \in {"chunk", "settle"}
             PROVE  /\ Answered(task[q])' \cap own'[task'[q].chat] = {}
                    /\ task'[q].pc = "settle" => task'[q].todo = {}
  BY DEF SentAway
<1>1. task'[q] = task[q] BY DEF Light
<1>2. task[q].chat \in Chats BY DEF TypeOK, TaskType
<1>3. Answered(task[q])' = Answered(task[q]) BY <1>1 DEF Answered
<1>. QED BY <1>1, <1>2, <1>3 DEF SentAway, Light

\* A goroutine that takes up something other than a delete makes a light step.
LEMMA BecomesLight ==
    ASSUME TypeOK, SentAway, NEW p \in Procs, NEW t, Becomes(p, t),
           t.pc \notin {"chunk", "settle"}, own' = own
    PROVE  SentAway'
<1>. Light BY DEF Light, Becomes, TypeOK
<1>. QED BY LightAway

\* Steps of Telegram keep it: a new message has an id its box has never used.
LEMMA TelegramAway ==
    ASSUME RightfulInv, SentAway, Telegram
    PROVE  SentAway'
<1>0. TypeOK BY DEF RightfulInv
<1>1. CASE Tick
  <2>. Light BY <1>1 DEF Tick, Light
  <2>. QED BY <1>0, LightAway
<1>2. ASSUME NEW c \in Chats, NEW m \in Ids, Vanish(c, m)
      PROVE  SentAway'
  <2>. Light BY <1>0, <1>2 DEF Vanish, Light, TypeOK
  <2>. QED BY <1>0, LightAway
<1>3. ASSUME NEW c \in Chats, NEW m \in Ids, Send(c, m)
      PROVE  SentAway'
  <2>1. m \notin Sent(c)
    <3>1. ASSUME m \in Sent(c) PROVE FALSE
      <4>1. c \in Box(c) BY DEF Box
      <4>2. m < m BY <1>3, <3>1, <4>1 DEF Send, Sent
      <4>. QED BY <4>2, NumberAssumption
    <3>. QED BY <3>1
  <2>2. task' = task /\ own' = [own EXCEPT ![c] = @ \cup {m}] BY <1>3 DEF Send
  <2> SUFFICES ASSUME NEW q \in Procs, task[q].pc \in {"chunk", "settle"}
               PROVE  /\ Answered(task[q]) \cap own'[task[q].chat] = {}
                      /\ task[q].pc = "settle" => task[q].todo = {}
    BY <2>2 DEF SentAway, Answered
  <2>3. task[q].chat \in Chats BY <1>0 DEF TypeOK, TaskType
  <2>4. Answered(task[q]) \subseteq Sent(task[q].chat)
    BY DEF Answered, RightfulInv, Entitled, EntitledTask
  <2>5. own'[task[q].chat] \subseteq IF task[q].chat = c THEN own[c] \cup {m} ELSE own[task[q].chat]
    BY <1>0, <2>2, <2>3 DEF TypeOK
  <2>. QED BY <2>1, <2>3, <2>4, <2>5 DEF SentAway
<1>. QED BY <1>1, <1>2, <1>3 DEF Telegram

\* The update handlers and the sweep spawn deletes, but do not send them.
LEMMA UpdatesAway ==
    ASSUME TypeOK, SentAway, Updates \/ Sweep
    PROVE  SentAway'
<1>1. ASSUME own' = own, task' = task
      PROVE  SentAway'
  <2>. Light BY <1>1 DEF Light
  <2>. QED BY LightAway
<1>2. ASSUME NEW c \in Chats, NEW m \in Ids, OwnService(c, m) \/ OwnIgnored(c, m) \/ OnDeleted(c, m)
      PROVE  SentAway'
  BY <1>1, <1>2 DEF OwnService, OwnIgnored, OnDeleted
<1>3. ASSUME NEW c \in Chats, NEW m \in Ids, NEW w \in Workers, OwnMatched(w, c, m)
      PROVE  SentAway'
  <2>1. [Job("instant", "delete", c) EXCEPT !.ids = {m}].pc = "delete" BY DEF Job, NoTask
  <2>. QED BY <1>3, <2>1, BecomesLight DEF OwnMatched, Procs
<1>4. ASSUME NEW c \in Chats, NEW m \in Ids, NEW w \in Workers, OwnRecorded(w, c, m)
      PROVE  SentAway'
  <2>1. [Job("own", "record", c) EXCEPT !.ids = {m}].pc = "record" BY DEF Job, NoTask
  <2>. QED BY <1>4, <2>1, BecomesLight DEF OwnRecorded, Procs
<1>5. CASE SweepTick \/ LoopExit
  BY <1>1, <1>5 DEF SweepTick, LoopExit, server
<1>6. ASSUME NEW c \in Chats, SweepNext(c)
      PROVE  SentAway'
  <2>1. [Job("sweep", "delete", c) EXCEPT !.ids = jobs[c], !.ctx = loop].pc = "delete"
    BY DEF Job, NoTask
  <2>. QED BY <1>6, <2>1, BecomesLight DEF SweepNext, Procs, server
<1>. QED BY <1>2, <1>3, <1>4, <1>5, <1>6 DEF Updates, Sweep

\* What follows deleteIDs is not within Delete.
LEMMA ReturnedLight ==
    ASSUME NEW t, NEW ok
    PROVE  Returned(t, ok).pc \notin {"chunk", "settle"}
<1> DEFINE j == Job("drain", "fetch", t.chat)
           n == t.pass + 1
<1>1. NextPass(t) = [j EXCEPT !.ctx = t.ctx, !.ttl = t.ttl, !.pass = n, !.prev = t.oldest]
  BY DEF NextPass
<1>2. NextPass(t).pc = "fetch" BY <1>1 DEF Job, NoTask
<1>3. NoTask.pc = "idle" BY DEF NoTask
<1>. QED BY <1>2, <1>3 DEF Returned

\* Scans, handlers and DisableChat send no delete.
LEMMA WorkingAway ==
    ASSUME TypeOK, SentAway, NEW w \in Workers, Working(w)
    PROVE  SentAway'
<1>0. w \in Procs /\ task[w] \in TaskType BY DEF TypeOK, Procs
<1>1. NoTask.pc = "idle" BY DEF NoTask
<1>2. CASE OwnIndexed(w) \/ ResolveFailed(w) \/ FetchFailed(w) \/ DisableChat(w)
  BY <1>0, <1>1, <1>2, BecomesLight
     DEF OwnIndexed, ResolveFailed, FetchFailed, DisableChat, server
<1>3. CASE Resolve(w)
  <2> DEFINE j == task[w]
             n == IF j.op = "drain" THEN ttl[j.chat] ELSE 0
             k == IF j.op = "drain" THEN 1 ELSE 0
             u == [j EXCEPT !.pc = "mark", !.ttl = n, !.pass = k]
             t == IF j.op = "drain" /\ ttl[j.chat] = 0 THEN NoTask ELSE u
  <2>1. Becomes(w, t) /\ own' = own BY <1>3 DEF Resolve, server
  <2>2. u.pc = "mark" BY <1>0 DEF TaskType
  <2>3. t.pc \notin {"chunk", "settle"} BY <1>1, <2>2
  <2> HIDE DEF t
  <2>. QED BY <1>0, <2>1, <2>3, BecomesLight
<1>4. CASE MarkActive(w)
  <2>1. [task[w] EXCEPT !.pc = "fetch"].pc = "fetch" BY <1>0 DEF TaskType
  <2>. QED BY <1>0, <1>4, <2>1, BecomesLight DEF MarkActive, server
<1>5. CASE Fetch(w)
  <2> DEFINE f == Fetching(w)
             page == Found(f.chat, f.offset)
             u == [f EXCEPT !.pc = "page", !.page = page]
             t == IF page = {} THEN ScanDone(f) ELSE u
  <2>1. Becomes(w, t) /\ own' = own BY <1>5 DEF Fetch, server
  <2>2. f \in TaskType BY FetchingType
  <2> HIDE DEF f, page
  <2>3. u.pc = "page" BY <2>2 DEF TaskType
  <2>4. ScanDone(f).pc \in {"delete", "idle"} BY <1>1, <2>2 DEF ScanDone, TaskType
  <2>5. t.pc \notin {"chunk", "settle"} BY <2>3, <2>4
  <2> HIDE DEF t
  <2>. QED BY <1>0, <2>1, <2>5, BecomesLight
<1>6. ASSUME NEW m \in Ids, Callback(w, m)
      PROVE  SentAway'
  <2>1. Called(task[w], m).pc \in {"fetch", "page"} BY <1>0 DEF Called, TaskType
  <2>. QED BY <1>0, <1>6, <2>1, BecomesLight DEF Callback, server
<1>. QED BY <1>2, <1>3, <1>4, <1>5, <1>6 DEF Working

\* An accepted chunk goes from what is still to be sent to what Telegram has
\* deleted; a failed one goes to what has failed.
LEMMA ChunkAway ==
    ASSUME ConfirmedInv, budget.stops = 0, NEW p \in Procs, MaySend(p),
           NEW k \in SUBSET Ids, NEW lost \in SUBSET Ids,
           \A c \in Chats : own'[c] \subseteq own[c],
           k \cap own'[Sending(p).chat] \subseteq lost,
           Becomes(p, [AfterChunk(Sending(p), k) EXCEPT !.failed = Sending(p).failed \cup lost])
    PROVE  SentAway'
<1>0. TypeOK /\ SentAway BY DEF ConfirmedInv, RightfulInv
<1> DEFINE j == Sending(p)
           left == j.todo \ k
           pc == IF j.todo = k THEN "settle" ELSE "chunk"
           bad == j.failed \cup lost
           u == [j EXCEPT !.todo = left, !.pc = pc]
           t == [u EXCEPT !.failed = bad]
<1>1. j \in TaskType BY <1>0, SendingType
<1>2. Becomes(p, t) BY DEF AfterChunk
<1>3. Answered(j) \cap own[j.chat] = {}
  <2>1. CASE task[p].pc = "chunk" BY <1>0, <2>1 DEF SentAway, Sending
  <2>2. CASE task[p].pc # "chunk"
    <3> DEFINE s == [task[p] EXCEPT !.api = session, !.todo = task[p].ids]
    <3>1. Sending(p) = s BY <2>2 DEF Sending
    <3>2. s.todo = s.ids BY <1>0 DEF TypeOK, TaskType
    <3>. QED BY <3>1, <3>2 DEF Answered
  <2>. QED BY <2>1, <2>2
<1>4. j.chat \in Chats BY <1>1 DEF TaskType
<1>5. k \cap own'[j.chat] \subseteq lost /\ own'[j.chat] \subseteq own[j.chat] BY <1>4
<1>6. pc = "settle" => left = {} OBVIOUS
<1> HIDE DEF j, pc, bad, left
<1>7. t.ids = j.ids /\ t.chat = j.chat /\ t.todo = left /\ t.failed = bad /\ t.pc = pc
  BY <1>1 DEF TaskType
<1> HIDE DEF t, u
<1>8. Answered(t) \subseteq Answered(j) \cup (k \ lost)
  BY <1>7 DEF Answered, left, bad
<1>9. Answered(t) \cap own'[t.chat] = {} BY <1>3, <1>5, <1>7, <1>8
<1>10. task'[p] = t /\ \A q \in Procs : q # p => task'[q] = task[q]
  BY <1>0, <1>2 DEF Becomes, TypeOK
<1> SUFFICES ASSUME NEW q \in Procs, task'[q].pc \in {"chunk", "settle"}
             PROVE  /\ Answered(task'[q]) \cap own'[task'[q].chat] = {}
                    /\ task'[q].pc = "settle" => task'[q].todo = {}
  BY DEF SentAway, Answered
<1>11. CASE q = p BY <1>6, <1>7, <1>9, <1>10, <1>11
<1>12. CASE q # p
  <2>. task'[q] = task[q] /\ task[q].chat \in Chats
    BY <1>0, <1>10, <1>12 DEF TypeOK, TaskType
  <2>. QED BY <1>0 DEF SentAway
<1>. QED BY <1>11, <1>12

\* Every step of deleteIDs and Delete keeps it; with a cold cache Delete is never
\* reached without an API client.
LEMMA DeletingAway ==
    ASSUME ConfirmedInv, budget.stops = 0, NEW p \in Procs, Deleting(p)
    PROVE  SentAway'
<1>0. TypeOK /\ SentAway /\ ColdCache BY DEF ConfirmedInv, RightfulInv
<1>1. CASE DeleteDropped(p) \/ Settle(p)
  BY <1>0, <1>1, ReturnedLight, BecomesLight DEF DeleteDropped, Settle, server
<1>2. CASE DeleteRefused(p)
  BY <1>0, <1>2 DEF DeleteRefused, ApiNil, ColdCache
<1>3. ASSUME NEW k \in SUBSET Ids, ChunkDeleted(p, k)
      PROVE  SentAway'
  <2>1. Sending(p) \in TaskType BY <1>0, SendingType
  <2>2. own' = Without(own, Box(Sending(p).chat), k) BY <1>3 DEF ChunkDeleted
  <2>3. \A c \in Chats : own'[c] \subseteq own[c] BY <1>0, <2>2 DEF Without, TypeOK
  <2>4. k \cap own'[Sending(p).chat] = {}
    <3>. Sending(p).chat \in Chats /\ Sending(p).chat \in Box(Sending(p).chat)
      BY <2>1 DEF TaskType, Box
    <3>. QED BY <2>2 DEF Without
  <2>5. AfterChunk(Sending(p), k) \in TaskType BY <2>1, AfterChunkType
  <2>6. AfterChunk(Sending(p), k)
        = [AfterChunk(Sending(p), k) EXCEPT !.failed = Sending(p).failed \cup {}]
    BY <2>1, <2>5 DEF AfterChunk, TaskType
  <2>7. Becomes(p, AfterChunk(Sending(p), k)) /\ MaySend(p) BY <1>3 DEF ChunkDeleted
  <2>8. Becomes(p, [AfterChunk(Sending(p), k) EXCEPT !.failed = Sending(p).failed \cup {}])
    BY <2>6, <2>7
  <2>. QED BY <2>3, <2>4, <2>7, <2>8, ChunkAway
<1>4. ASSUME NEW k \in SUBSET Ids, ChunkFailed(p, k)
      PROVE  SentAway'
  <2>1. Sending(p) \in TaskType BY <1>0, SendingType
  <2>2. own' = own \/ own' = Without(own, Box(Sending(p).chat), k) BY <1>4 DEF ChunkFailed
  <2>3. \A c \in Chats : own'[c] \subseteq own[c] BY <1>0, <2>2 DEF Without, TypeOK
  <2>4. WithFailed(AfterChunk(Sending(p), k), k)
        = [AfterChunk(Sending(p), k) EXCEPT !.failed = Sending(p).failed \cup k]
    BY <2>1 DEF AfterChunk, WithFailed, TaskType
  <2>5. Becomes(p, [AfterChunk(Sending(p), k) EXCEPT !.failed = Sending(p).failed \cup k]) /\ MaySend(p)
    BY <1>4, <2>4 DEF ChunkFailed
  <2>. QED BY <2>3, <2>5, ChunkAway
<1>. QED BY <1>1, <1>2, <1>3, <1>4 DEF Deleting

\* The operator and the life of the client send no delete.
LEMMA OperatorAway ==
    ASSUME TypeOK, SentAway, Operator \/ Sessions
    PROVE  SentAway'
<1>1. ASSUME own' = own, task' = task
      PROVE  SentAway'
  <2>. Light BY <1>1 DEF Light
  <2>. QED BY LightAway
<1>2. ASSUME NEW c \in Chats, AddPattern(c) \/ RemovePattern(c)
      PROVE  SentAway'
  BY <1>1, <1>2 DEF AddPattern, RemovePattern, server
<1>3. ASSUME NEW c \in Chats, NEW w \in Workers, ClearTTL(w, c) \/ TurnOff(w, c)
      PROVE  SentAway'
  <2>1. Job("off", "forget", c).pc = "forget" BY DEF Job, NoTask
  <2>. QED BY <1>3, <2>1, BecomesLight DEF ClearTTL, TurnOff, Procs, server
<1>4. ASSUME NEW c \in Chats, NEW w \in Workers, Purge(w, c) \/ \E n \in TTLs : ApplyTTL(w, c, n)
      PROVE  SentAway'
  <2>1. \A op : Job(op, "resolve", c).pc = "resolve" BY DEF Job, NoTask
  <2>. QED BY <1>4, <2>1, BecomesLight DEF Purge, ApplyTTL, Procs, server
<1>5. CASE Start \/ ReadyList \/ StopCancel \/ StopHalt \/ Reset
  BY <1>1, <1>5 DEF Start, ReadyList, StopCancel, StopHalt, Reset, server
<1>6. CASE Crash
  <2>. Light BY <1>6 DEF Crash, Light, NoTask, server
  <2>. QED BY LightAway
<1>7. ASSUME NEW w \in Workers, NEW c \in Chats, ReadySpawn(w, c)
      PROVE  SentAway'
  <2>1. [Job("enable", "resolve", c) EXCEPT !.ctx = session].pc = "resolve"
    BY DEF Job, NoTask
  <2>. QED BY <1>7, <2>1, BecomesLight DEF ReadySpawn, Procs, server
<1>. QED BY <1>2, <1>3, <1>4, <1>5, <1>6, <1>7 DEF Operator, Sessions

-----------------------------------------------------------------------------
(* The delete updates *)

\* Messages only disappear, and the delete updates are handled.
Fading ==
    /\ sent' = sent
    /\ \A c \in Chats : own'[c] \subseteq own[c] /\ gone'[c] \subseteq gone[c]

\* The program brings no message back and invents no delete update.
LEMMA FadingStep ==
    ASSUME TypeOK, Next, ~Telegram
    PROVE  Fading
<1>0. ASSUME UNCHANGED <<sent, own, gone>> PROVE Fading BY <1>0 DEF Fading
<1>1. CASE Updates
  <2>1. ASSUME NEW c \in Chats, NEW m \in Ids, OnDeleted(c, m)
        PROVE  Fading
    BY <2>1 DEF OnDeleted, Fading, TypeOK
  <2>. QED BY <1>0, <1>1, <2>1 DEF Updates, OwnService, OwnIgnored, OwnMatched, OwnRecorded
<1>2. CASE Sweep
  BY <1>0, <1>2 DEF Sweep, SweepTick, LoopExit, SweepNext, server
<1>3. ASSUME NEW p \in Procs, Deleting(p)
      PROVE  Fading
  <2>1. CASE DeleteDropped(p) \/ DeleteRefused(p) \/ Settle(p)
    BY <1>0, <2>1 DEF DeleteDropped, DeleteRefused, Settle, server
  <2>2. ASSUME NEW k \in SUBSET Ids, ChunkDeleted(p, k)
        PROVE  Fading
    BY <2>2 DEF ChunkDeleted, Without, Fading, TypeOK
  <2>3. ASSUME NEW k \in SUBSET Ids, ChunkFailed(p, k)
        PROVE  Fading
    <3>. own' = own \/ own' = Without(own, Box(Sending(p).chat), k) BY <2>3 DEF ChunkFailed
    <3>. QED BY <2>3 DEF ChunkFailed, Without, Fading, TypeOK
  <2>. QED BY <1>3, <2>1, <2>2, <2>3 DEF Deleting
<1>4. ASSUME NEW w \in Workers, Working(w)
      PROVE  Fading
  BY <1>0, <1>4 DEF Working, OwnIndexed, Resolve, ResolveFailed, MarkActive, Fetch,
     FetchFailed, DisableChat, Callback, server
<1>5. CASE Operator
  BY <1>0, <1>5
     DEF Operator, AddPattern, RemovePattern, ClearTTL, TurnOff, Purge, ApplyTTL, server
<1>6. CASE Sessions
  BY <1>0, <1>6
     DEF Sessions, Start, ReadyList, StopCancel, StopHalt, Reset, Crash, ReadySpawn, server
<1>. QED BY <1>1, <1>2, <1>3, <1>4, <1>5, <1>6 DEF Next

\* A delete update stays about a message that was there and is no longer.
LEMMA GoneStep ==
    ASSUME RightfulInv, GoneSent, Next
    PROVE  GoneSent'
<1>0. TypeOK BY DEF RightfulInv
<1>1. CASE ~Telegram
  <2>. Fading BY <1>0, <1>1, FadingStep
  <2>. QED BY DEF Fading, GoneSent, Sent
<1>2. CASE Tick BY <1>2 DEF Tick, GoneSent, Sent
<1>3. ASSUME NEW c \in Chats, NEW m \in Ids, Vanish(c, m)
      PROVE  GoneSent'
  <2>. \A d \in Chats : own[d] \subseteq Sent(d) BY DEF RightfulInv, KnownSent
  <2>. QED BY <1>0, <1>3 DEF Vanish, GoneSent, Sent, TypeOK
<1>4. ASSUME NEW c \in Chats, NEW m \in Ids, Send(c, m)
      PROVE  GoneSent'
  <2>1. m \notin Sent(c)
    <3>1. ASSUME m \in Sent(c) PROVE FALSE
      <4>1. c \in Box(c) BY DEF Box
      <4>2. m < m BY <1>4, <3>1, <4>1 DEF Send, Sent
      <4>. QED BY <4>2, NumberAssumption
    <3>. QED BY <3>1
  <2>2. \A d \in Chats : Sent(d) \subseteq Sent(d)'
    <3>. now # Unsent BY <1>0 DEF TypeOK, Unsent
    <3>. QED BY <1>0, <1>4 DEF Send, Sent, TypeOK
  <2>3. gone' = gone /\ own' = [own EXCEPT ![c] = @ \cup {m}] BY <1>4 DEF Send
  <2>. QED BY <1>0, <2>1, <2>2, <2>3 DEF GoneSent, TypeOK
<1>. QED BY <1>1, <1>2, <1>3, <1>4 DEF Telegram

-----------------------------------------------------------------------------
(* The theorems *)

\* The invariant is inductive.
LEMMA ConfirmedStep == ConfirmedInv /\ [Next]_vars => ConfirmedInv'
<1> SUFFICES ASSUME ConfirmedInv, [Next]_vars PROVE ConfirmedInv' OBVIOUS
<1>0. TypeOK /\ RightfulInv BY DEF ConfirmedInv, RightfulInv
<1>1. RightfulInv' BY <1>0, RightfulInvStep
<1>2. CASE UNCHANGED vars
  <2>1. GoneSent' BY <1>2 DEF ConfirmedInv, GoneSent, Sent, vars, server
  <2>2. budget'.stops = 0 => ColdCache' /\ SentAway'
    BY <1>2 DEF ConfirmedInv, ColdCache, SentAway, Answered, vars, server, conn
  <2>. QED BY <1>1, <2>1, <2>2 DEF ConfirmedInv
<1>3. CASE Next
  <2>1. GoneSent' BY <1>0, <1>3, GoneStep DEF ConfirmedInv
  <2>2. ASSUME budget'.stops = 0
        PROVE  ColdCache' /\ SentAway'
    <3>1. budget.stops = 0 /\ ColdCache' BY <1>0, <1>3, <2>2, ColdStep DEF ConfirmedInv
    <3>2. SentAway BY <3>1 DEF ConfirmedInv
    <3>3. SentAway'
      BY <1>0, <1>3, <3>1, <3>2, TelegramAway, UpdatesAway, DeletingAway, WorkingAway, OperatorAway
         DEF Next
    <3>. QED BY <3>1, <3>3
  <2>. QED BY <1>1, <2>1, <2>2 DEF ConfirmedInv
<1>. QED BY <1>2, <1>3

\* The ids that deleteIDs is about to take for deleted have been deleted.
LEMMA ConfirmedImplied == ConfirmedInv => (budget.stops = 0 => ConfirmedGone)
<1> SUFFICES ASSUME ConfirmedInv, budget.stops = 0, NEW p \in Procs, task[p].pc = "settle"
             PROVE  (task[p].ids \ task[p].failed) \cap own[task[p].chat] = {}
  BY DEF ConfirmedGone
<1>. QED BY DEF ConfirmedInv, SentAway, Answered

\* OnDeleted takes an id out of the index of the one chat of the box in which it
\* was a message.
LEMMA OnDeletedKeeps ==
    ASSUME ConfirmedInv, NEW c \in Chats, NEW m \in Ids, OnDeleted(c, m)
    PROVE  KeepStep
<1> SUFFICES ASSUME NEW d \in Chats, NEW k \in (index[d] \cap own'[d]) \ index'[d]
             PROVE  FALSE
  BY DEF KeepStep
<1>1. own' = own /\ m \in gone[c] BY DEF OnDeleted
<1>2. d \in Box(c) /\ k = m BY DEF OnDeleted, Without, Stripped, Box
<1>3. m \in Sent(c) \ own[c] BY <1>1 DEF ConfirmedInv, GoneSent
<1>4. m \in Sent(d) BY <1>2 DEF ConfirmedInv, RightfulInv, KnownSent
<1>5. c = d BY <1>2, <1>3, <1>4 DEF ConfirmedInv, RightfulInv, SentOnce, Sent
<1>. QED BY <1>1, <1>2, <1>3, <1>5

\* Before the first /stop a step drops an index entry only with its message or
\* with its chat.
LEMMA KeepNext == ConfirmedInv /\ [Next]_vars => [budget.stops = 0 => KeepStep]_vars
<1> SUFFICES ASSUME ConfirmedInv, Next, budget.stops = 0 PROVE KeepStep OBVIOUS
<1>0. TypeOK BY DEF ConfirmedInv, RightfulInv
<1>1. ASSUME \A c \in Chats : index[c] \subseteq index'[c]
      PROVE  KeepStep
  BY <1>1 DEF KeepStep
<1>2. CASE Telegram
  BY <1>1, <1>2 DEF Telegram, Tick, Send, Vanish, mem
<1>3. CASE Updates
  BY <1>1, <1>3, OnDeletedKeeps
     DEF Updates, OwnService, OwnIgnored, OwnMatched, OwnRecorded, mem
<1>4. CASE Sweep
  BY <1>1, <1>4 DEF Sweep, SweepTick, LoopExit, SweepNext, mem
<1>5. ASSUME NEW p \in Procs, Deleting(p)
      PROVE  KeepStep
  <2>1. CASE Settle(p)
    <3>1. ConfirmedGone BY ConfirmedImplied
    <3>2. OkIds(task[p]) \cap own[task[p].chat] = {}
      BY <2>1, <3>1 DEF Settle, ConfirmedGone, OkIds
    <3>3. own' = own /\ index' = [index EXCEPT ![task[p].chat] = @ \ OkIds(task[p])]
      BY <2>1 DEF Settle, server
    <3>. QED BY <1>0, <3>2, <3>3 DEF KeepStep, TypeOK
  <2>2. CASE ~Settle(p)
    BY <1>1, <1>5, <2>2
       DEF Deleting, DeleteDropped, DeleteRefused, ChunkDeleted, ChunkFailed, mem
  <2>. QED BY <2>1, <2>2
<1>6. ASSUME NEW w \in Workers, Working(w)
      PROVE  KeepStep
  <2>1. CASE OwnIndexed(w) \/ \E m \in Ids : Callback(w, m)
    BY <1>0, <1>1, <2>1 DEF OwnIndexed, Callback, TypeOK
  <2>2. CASE DisableChat(w)
    BY <1>0, <2>2 DEF DisableChat, NoLongerActive, KeepStep, TypeOK
  <2>3. CASE Resolve(w) \/ ResolveFailed(w) \/ MarkActive(w) \/ Fetch(w) \/ FetchFailed(w)
    BY <1>1, <2>3 DEF Resolve, ResolveFailed, MarkActive, Fetch, FetchFailed, mem
  <2>. QED BY <1>6, <2>1, <2>2, <2>3 DEF Working
<1>7. CASE Operator
  BY <1>1, <1>7
     DEF Operator, AddPattern, RemovePattern, ClearTTL, TurnOff, Purge, ApplyTTL, mem
<1>8. CASE Sessions
  <2>1. CASE Reset \/ Crash BY <2>1 DEF Reset, Crash, KeepStep
  <2>2. CASE ~(Reset \/ Crash)
    BY <1>1, <1>8, <2>2
       DEF Sessions, Start, ReadyList, StopCancel, StopHalt, ReadySpawn, mem
  <2>. QED BY <2>1, <2>2
<1>. QED BY <1>2, <1>3, <1>4, <1>5, <1>6, <1>7, <1>8 DEF Next

\* As long as nobody has sent /stop, the ids that deleteIDs takes out of the index
\* as deleted have been deleted, for every number of chats, ids, chunks, failures
\* and crashes.
THEOREM ConfirmedCorrect == Spec => [](budget.stops = 0 => ConfirmedGone)
BY ConfirmedInit, ConfirmedStep, ConfirmedImplied, PTL DEF Spec

\* As long as nobody has sent /stop, an index entry whose message still exists is
\* given up only together with its chat.
THEOREM KeepCorrect == Spec => [][budget.stops = 0 => KeepStep]_vars
BY ConfirmedInit, ConfirmedStep, KeepNext, PTL DEF Spec

\* Where no /stop can be sent, that is the property NoSilentDrop itself.
THEOREM NoSilentDropCorrect ==
    ASSUME MaxStops = 0
    PROVE  Spec => NoSilentDrop
<1>1. ConfirmedInv => budget.stops = 0
  BY DEF ConfirmedInv, RightfulInv, TypeOK, BudgetType
<1>2. ConfirmedInv /\ [Next]_vars => [KeepStep]_vars BY <1>1, KeepNext
<1>. QED BY <1>2, ConfirmedInit, ConfirmedStep, PTL DEF Spec, NoSilentDrop
=============================================================================
