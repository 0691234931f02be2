---------------------------- MODULE RightfulProofs ----------------------------
(***************************************************************************)
(* The central safety property of module Cleaner, Rightful: the program     *)
(* deletes nothing that is not entitled to it.  Rightful is not inductive:  *)
(* a delete is sent long after its ids were chosen, when the TTL may be off *)
(* and the chat disabled.  RightfulInv carries the entitlement along with   *)
(* the ids (Entitled), ties every TTL in force to the history it is judged  *)
(* by (ConfUsed), and rules out that an id means two messages of one box    *)
(* (SentOnce with KnownSent), which is what keeps a delete of one basic     *)
(* group from hitting another.                                              *)
(***************************************************************************)
EXTENDS CleanerProofs

\* At most one goroutine takes up another task, and that task is entitled.
NewTask == \E p \in Procs : \E t \in TaskType :
               EntitledTask(t) /\ task' = [task EXCEPT ![p] = t]

\* A step that forgets and deletes at most: it learns no new message, changes no
\* configuration, and its index entries were sent.
Quiet ==
    /\ UNCHANGED <<now, sent, ttl, pat, used, patted>>
    /\ \A c \in Chats :
          /\ own'[c] \subseteq own[c]
          /\ fresh'[c] \subseteq fresh[c]
          /\ index'[c] \subseteq Sent(c)
          /\ jobs'[c] \subseteq jobs[c]
    /\ task' = task \/ NewTask

\* A quiet step keeps the invariant behind Rightful.
LEMMA QuietStep ==
    ASSUME RightfulInv, TypeOK', Quiet
    PROVE  RightfulInv'
<1> USE DEF RightfulInv
<1>1. SentOnce' BY DEF SentOnce, Quiet
<1>2. KnownSent' BY DEF KnownSent, Quiet, Sent
<1>3. ConfUsed' BY DEF ConfUsed, Quiet
<1>4. \A c \in Chats : EntitledJobs(c)'
  BY DEF Entitled, EntitledJobs, Quiet, Sent, Aged
<1>5. ASSUME NEW q \in Procs PROVE EntitledTask(task[q])'
  <2>1. PICK t : t = task'[q] OBVIOUS
  <2>2. EntitledTask(t)
    BY <2>1 DEF Entitled, Quiet, NewTask, TypeOK
  <2>3. EntitledTask(t)'
    BY <2>2 DEF EntitledTask, ByAge, ByMatch, Aged, MayMatch, Sent, Quiet
  <2>. QED BY <2>1, <2>3
<1>. QED BY <1>1, <1>2, <1>3, <1>4, <1>5 DEF Entitled

\* A freshly spawned goroutine is entitled to the nothing it holds.
LEMMA JobEntitled ==
    ASSUME NEW op \in Ops, NEW pc \in PCs, NEW c \in Chats,
           pc \notin {"delete", "chunk"}, op # "drain" \/ pc = "resolve"
    PROVE  EntitledTask(Job(op, pc, c))
BY DEF EntitledTask, Job, NoTask

\* The blank task is entitled.
LEMMA NoTaskEntitled == EntitledTask(NoTask)
BY DEF EntitledTask, NoTask

\* The invariant behind Rightful holds before the program first runs.
LEMMA RightfulInit == Init => RightfulInv
<1> SUFFICES ASSUME Init PROVE RightfulInv OBVIOUS
<1>1. TypeOK BY TypeInit
<1>2. SentOnce
  <2> SUFFICES ASSUME NEW c \in Chats, NEW d \in Box(c), NEW m \in Ids,
                      sent[c][m] # Unsent, sent[d][m] # Unsent
               PROVE  c = d
    BY DEF SentOnce
  <2>1. d \in Chats BY ChatAssumption DEF Box
  <2>2. <<c, m>> \in History /\ <<d, m>> \in History BY <2>1 DEF Init
  <2>. QED BY <2>2, HistoryAssumption
<1>3. KnownSent
  <2>1. ASSUME NEW c \in Chats, NEW m \in own[c]
        PROVE  m \in Sent(c)
    <3>1. m \in Ids /\ <<c, m>> \in History BY DEF Init
    <3>2. sent[c][m] = 0 BY <3>1 DEF Init
    <3>. QED BY <3>1, <3>2 DEF Sent, Unsent
  <2>. QED BY <2>1 DEF KnownSent, Init
<1>4. Entitled BY NoTaskEntitled DEF Entitled, EntitledJobs, Init
<1>5. ConfUsed BY DEF ConfUsed, Init
<1>. QED BY <1>1, <1>2, <1>3, <1>4, <1>5 DEF RightfulInv

\* A step of one goroutine that touches neither Telegram's messages nor the
\* configuration is quiet once its new task is entitled.
LEMMA BecomesQuiet ==
    ASSUME RightfulInv, TypeOK', NEW p \in Procs, NEW t, t \in TaskType, Becomes(p, t), EntitledTask(t),
           UNCHANGED <<now, sent, conf>>,
           \A c \in Chats : /\ own'[c] \subseteq own[c]
                            /\ fresh'[c] \subseteq fresh[c]
                            /\ index'[c] \subseteq Sent(c)
                            /\ jobs'[c] \subseteq jobs[c]
    PROVE  RightfulInv'
<1>1. NewTask BY DEF NewTask, Becomes
<1>2. Quiet BY <1>1 DEF Quiet, conf
<1>. QED BY <1>2, QuietStep

\* The update handlers keep the invariant: an instant delete is entitled by the
\* pattern that matched.
LEMMA UpdatesRightful ==
    ASSUME RightfulInv, TypeOK', Updates
    PROVE  RightfulInv'
<1>0. \A c \in Chats : fresh[c] \subseteq Sent(c) /\ index[c] \subseteq Sent(c)
  BY DEF RightfulInv, KnownSent
<1>1. ASSUME NEW c \in Chats, NEW m \in Ids, OwnIgnored(c, m)
      PROVE  RightfulInv'
  <2>. Quiet BY <1>0, <1>1 DEF Quiet, OwnIgnored, conf, mem, RightfulInv, TypeOK
  <2>. QED BY QuietStep
<1>2. ASSUME NEW c \in Chats, NEW m \in Ids, OnDeleted(c, m)
      PROVE  RightfulInv'
  <2>. Quiet BY <1>0, <1>2 DEF Quiet, OnDeleted, Without, conf, RightfulInv, TypeOK
  <2>. QED BY QuietStep
<1>3. ASSUME NEW c \in Chats, NEW m \in Ids, NEW w \in Workers, OwnMatched(w, c, m)
      PROVE  RightfulInv'
  <2> DEFINE t == [Job("instant", "delete", c) EXCEPT !.ids = {m}]
  <2>1. t \in TaskType BY JobType DEF TaskType, Ops, PCs
  <2>2. m \in Sent(c) /\ MayMatch(c, m)
    BY <1>0, <1>3 DEF OwnMatched, OwnText, NextUpdate, Matches, MayMatch, RightfulInv, ConfUsed
  <2>3. EntitledTask(t) BY <2>2 DEF EntitledTask, ByMatch, Job, NoTask
  <2>. QED BY <1>0, <1>3, <2>1, <2>3, BecomesQuiet
           DEF OwnMatched, mem, Procs, RightfulInv, TypeOK
<1>4. ASSUME NEW c \in Chats, NEW m \in Ids, NEW w \in Workers, OwnRecorded(w, c, m)
      PROVE  RightfulInv'
  <2> DEFINE t == [Job("own", "record", c) EXCEPT !.ids = {m}]
  <2>1. t \in TaskType BY JobType DEF TaskType, Ops, PCs
  <2>2. m \in Sent(c) BY <1>0, <1>4 DEF OwnRecorded, OwnText, NextUpdate
  <2>3. EntitledTask(t) BY <2>2 DEF EntitledTask, Job, NoTask
  <2>. QED BY <1>0, <1>4, <2>1, <2>3, BecomesQuiet
           DEF OwnRecorded, mem, Procs, RightfulInv, TypeOK
<1>5. ASSUME NEW c \in Chats, NEW m \in Ids, OwnService(c, m)
      PROVE  RightfulInv'
  <2>. Quiet BY <1>0, <1>5 DEF Quiet, OwnService, conf, mem, RightfulInv, TypeOK
  <2>. QED BY QuietStep
<1>. QED BY <1>1, <1>2, <1>3, <1>4, <1>5 DEF Updates

\* Steps under which history only grows: the clock, the messages ever sent, the
\* TTLs and the patterns ever configured.
Grows ==
    /\ now <= now'
    /\ patted \subseteq patted'
    /\ \A c \in Chats : /\ used[c] \subseteq used'[c]
                        /\ \A m \in Sent(c) : sent'[c][m] = sent[c][m]

\* What was sent stays sent.
LEMMA GrowsSent ==
    ASSUME Grows, NEW c \in Chats
    PROVE  Sent(c) \subseteq Sent(c)'
BY DEF Grows, Sent

\* A message that has outlived a TTL stays so.
LEMMA GrowsAged ==
    ASSUME TypeOK, TypeOK', Grows, NEW c \in Chats, NEW m \in Sent(c), Aged(c, m)
    PROVE  Aged(c, m)'
<1>1. PICK u \in used[c] : sent[c][m] + u <= now BY DEF Aged
<1>2. m \in Ids /\ sent[c][m] \in Int /\ u \in Int /\ now \in Int /\ now' \in Int
  BY NumberAssumption DEF TypeOK, Sent, Unsent
<1>3. sent'[c][m] = sent[c][m] /\ u \in used'[c] /\ now <= now' BY DEF Grows
<1>4. sent'[c][m] + u <= now' BY <1>1, <1>2, <1>3
<1>. QED BY <1>3, <1>4 DEF Aged

\* An entitled task stays entitled while the histories grow.
LEMMA GrowsTask ==
    ASSUME TypeOK, TypeOK', Grows, NEW t \in TaskType, EntitledTask(t)
    PROVE  EntitledTask(t)'
<1>1. t.chat \in Chats BY DEF TaskType
<1>2. t.ids \cup t.page \subseteq Sent(t.chat)' BY <1>1, GrowsSent DEF EntitledTask
<1>3. ByAge(t) => ByAge(t)' BY <1>1, GrowsAged DEF EntitledTask, ByAge
<1>4. ByMatch(t) => ByMatch(t)' BY DEF ByMatch, MayMatch, Grows
<1>5. t.at <= now => t.at <= now'
  <2>. t.at \in Int /\ now \in Int /\ now' \in Int BY DEF TaskType, TypeOK
  <2>. QED BY DEF Grows
<1>6. t.ttl \in used[t.chat] => t.ttl \in used'[t.chat] BY <1>1 DEF Grows
<1>. QED BY <1>2, <1>3, <1>4, <1>5, <1>6 DEF EntitledTask

\* A step under which the histories grow keeps the invariant if its new task is
\* entitled.
LEMMA GrowsStep ==
    ASSUME RightfulInv, TypeOK', Grows, SentOnce', ConfUsed', KnownSent',
           \A c \in Chats : jobs'[c] \subseteq jobs[c],
           task' = task \/ NewTask
    PROVE  RightfulInv'
<1> USE DEF RightfulInv
<1>1. ASSUME NEW c \in Chats PROVE EntitledJobs(c)'
  <2>1. jobs'[c] \subseteq Sent(c)' BY GrowsSent DEF Entitled, EntitledJobs
  <2>2. ASSUME NEW m \in jobs'[c] PROVE Aged(c, m)'
    <3>1. m \in Sent(c) /\ Aged(c, m) BY DEF Entitled, EntitledJobs
    <3>. QED BY <3>1, GrowsAged
  <2>. QED BY <2>1, <2>2 DEF EntitledJobs
<1>2. ASSUME NEW q \in Procs PROVE EntitledTask(task[q])'
  <2>1. PICK t : t = task'[q] OBVIOUS
  <2>2. t \in TaskType BY <2>1 DEF TypeOK
  <2>3. EntitledTask(t) BY <2>1 DEF Entitled, NewTask, TypeOK
  <2>4. EntitledTask(t)' BY <2>2, <2>3, GrowsTask
  <2>. QED BY <2>1, <2>4
<1>. QED BY <1>1, <1>2 DEF Entitled

\* Telegram and the clock keep the invariant: a new message takes an id that its
\* box has never used.
LEMMA TelegramRightful ==
    ASSUME RightfulInv, TypeOK', Telegram
    PROVE  RightfulInv'
<1> USE DEF RightfulInv
<1>1. CASE Tick
  <2>1. Grows BY <1>1 DEF Grows, Tick, conf, TypeOK
  <2>2. SentOnce' /\ ConfUsed' /\ KnownSent'
    BY <1>1 DEF Tick, SentOnce, ConfUsed, KnownSent, Sent, conf, mem
  <2>. QED BY <1>1, <2>1, <2>2, GrowsStep DEF Tick, TypeOK
<1>2. ASSUME NEW c \in Chats, NEW m \in Ids, Vanish(c, m)
      PROVE  RightfulInv'
  <2>. Quiet
    BY <1>2 DEF Quiet, Vanish, conf, mem, KnownSent, TypeOK
  <2>. QED BY QuietStep
<1>3. ASSUME NEW c \in Chats, NEW m \in Ids, Send(c, m)
      PROVE  RightfulInv'
  <2>1. \A d \in Box(c) : sent[d][m] = Unsent
    <3>1. ASSUME NEW d \in Box(c), sent[d][m] # Unsent PROVE FALSE
      <4>1. m < m BY <1>3, <3>1 DEF Send
      <4>. QED BY <4>1, NumberAssumption
    <3>. QED BY <3>1
  <2>2. c \in Box(c) /\ Box(c) \subseteq Chats BY ChatAssumption DEF Box
  <2>3. now # Unsent BY DEF TypeOK, Unsent
  <2>4. /\ sent'[c][m] = now
        /\ \A d \in Chats, k \in Ids : <<d, k>> # <<c, m>> => sent'[d][k] = sent[d][k]
    BY <1>3 DEF Send, TypeOK
  <2>5. \A d \in Chats : Sent(d)' = IF d = c THEN Sent(d) \cup {m} ELSE Sent(d)
    BY <2>3, <2>4 DEF Sent
  <2>6. Grows BY <1>3, <2>1, <2>2, <2>4 DEF Grows, Send, conf, Sent, TypeOK
  <2>7. SentOnce'
    <3> SUFFICES ASSUME NEW a \in Chats, NEW b \in Box(a), NEW k \in Ids,
                        sent'[a][k] # Unsent, sent'[b][k] # Unsent
                 PROVE  a = b
      BY DEF SentOnce
    <3>1. b \in Chats /\ a \in Box(b) BY ChatAssumption DEF Box
    <3>2. CASE k # m BY <2>4, <3>1, <3>2 DEF SentOnce
    <3>3. CASE k = m /\ a # c /\ b # c BY <2>4, <3>1, <3>3 DEF SentOnce
    <3>4. CASE k = m /\ a = c /\ b # c BY <2>1, <2>4, <3>1, <3>4
    <3>5. CASE k = m /\ a # c /\ b = c BY <2>1, <2>4, <3>1, <3>5
    <3>. QED BY <3>2, <3>3, <3>4, <3>5
  <2>8. KnownSent' BY <1>3, <2>5 DEF KnownSent, Send, mem, TypeOK
  <2>9. ConfUsed' BY <1>3 DEF ConfUsed, Send, conf
  <2>. QED BY <1>3, <2>6, <2>7, <2>8, <2>9, GrowsStep DEF Send
<1>. QED BY <1>1, <1>2, <1>3 DEF Telegram

\* A TTL is a positive integer.
LEMMA TTLInt == \A n \in TTLs : n \in Int /\ n > 0
BY NumberAssumption

\* The sweep keeps the invariant: what it collects has outlived the TTL in force.
LEMMA SweepRightful ==
    ASSUME RightfulInv, TypeOK', Sweep
    PROVE  RightfulInv'
<1> USE DEF RightfulInv
<1>0. \A c \in Chats : index[c] \subseteq Sent(c) BY DEF KnownSent
<1>1. CASE SweepTick
  <2>1. ASSUME NEW c \in Chats, NEW m \in Expired(c)
        PROVE  m \in Sent(c) /\ Aged(c, m)
    <3>1. ttl[c] > 0 /\ m \in index[c] /\ now - sent[c][m] >= ttl[c]
      BY <2>1 DEF Expired, Swept, Outlived
    <3>2. m \in Ids /\ m \in Sent(c) /\ ttl[c] \in used[c]
      BY <3>1, <1>0 DEF TypeOK, ConfUsed
    <3>3. now \in Int /\ sent[c][m] \in Int
      BY <3>2 DEF TypeOK, Unsent, Sent
    <3>5. ttl[c] \in Int
      <4>1. ttl[c] \in TTLs \cup {0} BY DEF TypeOK
      <4>3. CASE ttl[c] \in TTLs BY <4>3, TTLInt
      <4>4. CASE ttl[c] = 0 BY <4>4
      <4>. QED BY <4>1, <4>3, <4>4
    <3>4. sent[c][m] + ttl[c] <= now BY <3>1, <3>3, <3>5
    <3>. QED BY <3>2, <3>4 DEF Aged
  <2>2. \A c \in Chats : EntitledJobs(c)'
    BY <1>1, <2>1 DEF SweepTick, EntitledJobs, Aged, Sent, server, conf
  <2>3. ASSUME NEW q \in Procs PROVE EntitledTask(task[q])'
    BY <1>1 DEF SweepTick, Entitled, EntitledTask, ByAge, ByMatch, MayMatch, Aged, Sent, server, conf
  <2>4. SentOnce' /\ KnownSent' /\ ConfUsed'
    BY <1>1 DEF SweepTick, SentOnce, KnownSent, ConfUsed, Sent, server, conf, mem
  <2>. QED BY <2>2, <2>3, <2>4 DEF Entitled
<1>2. CASE LoopExit
  <2>. Quiet BY <1>0, <1>2 DEF Quiet, LoopExit, server, conf, mem
  <2>. QED BY QuietStep
<1>3. ASSUME NEW c \in Chats, SweepNext(c)
      PROVE  RightfulInv'
  <2> DEFINE j == Job("sweep", "delete", c)
             t == [j EXCEPT !.ids = jobs[c], !.ctx = loop]
  <2>1. j \in TaskType BY JobType DEF Ops, PCs
  <2>2. jobs[c] \in SUBSET Ids /\ loop \in Nat BY NumberAssumption DEF TypeOK
  <2>3. j.op = "sweep" /\ j.pc = "delete" /\ j.chat = c /\ j.page = {} /\ j.todo = {}
    BY DEF Job, NoTask
  <2>4. task' = [task EXCEPT ![Sweeper] = t] BY <1>3 DEF SweepNext, Becomes
  <2>5. /\ t \in TaskType /\ t.ids = jobs[c]
        /\ t.op = "sweep" /\ t.pc = "delete" /\ t.chat = c /\ t.page = {} /\ t.todo = {}
    <3> HIDE DEF j
    <3>. QED BY <2>1, <2>2, <2>3 DEF TaskType
  <2> HIDE DEF j, t
  <2>6. EntitledTask(t) BY <2>5 DEF EntitledTask, ByAge, Entitled, EntitledJobs
  <2>7. \A d \in Chats : jobs'[d] \subseteq jobs[d] BY <1>3 DEF SweepNext, TypeOK
  <2>8. /\ UNCHANGED <<now, sent, conf>>
        /\ \A d \in Chats : own'[d] \subseteq own[d] /\ fresh'[d] \subseteq fresh[d] /\ index'[d] \subseteq Sent(d)
    BY <1>0, <1>3 DEF SweepNext, server, mem
  <2>. QED BY <2>4, <2>5, <2>6, <2>7, <2>8, BecomesQuiet DEF Becomes, Procs
<1>. QED BY <1>1, <1>2, <1>3 DEF Sweep

\* A step that leaves Telegram, the configuration and the jobs alone.
LEMMA WorkerQuiet ==
    ASSUME RightfulInv, TypeOK', NEW p \in Procs, NEW t, t \in TaskType, Becomes(p, t), EntitledTask(t),
           UNCHANGED <<server, conf, jobs>>,
           \A c \in Chats : index'[c] \subseteq Sent(c)
    PROVE  RightfulInv'
<1>1. UNCHANGED <<now, sent, conf>> BY DEF server
<1>2. \A c \in Chats : /\ own'[c] \subseteq own[c]
                       /\ fresh'[c] \subseteq fresh[c]
                       /\ jobs'[c] \subseteq jobs[c]
  BY DEF server
<1>. QED BY <1>1, <1>2, BecomesQuiet

\* resolveGroup keeps the invariant: the TTL that a drain captures is in force.
LEMMA ResolveRightful ==
    ASSUME RightfulInv, TypeOK', NEW w \in Workers, Resolve(w)
    PROVE  RightfulInv'
<1> USE DEF RightfulInv
<1>0. w \in Procs /\ task[w] \in TaskType /\ task[w].chat \in Chats
  BY DEF TypeOK, Procs, TaskType
<1> DEFINE j == task[w]
           n == IF j.op = "drain" THEN ttl[j.chat] ELSE 0
           k == IF j.op = "drain" THEN 1 ELSE 0
           u == [j EXCEPT !.pc = "mark", !.ttl = n, !.pass = k]
           t == IF j.op = "drain" /\ ttl[j.chat] = 0 THEN NoTask ELSE u
<1>1. Becomes(w, t) BY DEF Resolve
<1>2. t \in TaskType
  <2>1. task' \in [Procs -> TaskType] BY DEF TypeOK
  <2>2. task'[w] = t
    <3> HIDE DEF t
    <3>. QED BY <1>0, <1>1 DEF Becomes, TypeOK
  <2>. QED BY <1>0, <2>1, <2>2
<1>3. EntitledTask(t)
  <2>1. CASE j.op = "drain" /\ ttl[j.chat] = 0
    BY <2>1, NoTaskEntitled
  <2>2. CASE ~(j.op = "drain" /\ ttl[j.chat] = 0)
    <3>1. EntitledTask(j) /\ j.pc = "resolve" BY <1>0 DEF Entitled, Resolve
    <3>2. j.op = "drain" => n \in used[j.chat]
      <4>1. ttl[j.chat] \in TTLs \cup {0} BY <1>0 DEF TypeOK
      <4>. QED BY <1>0, <2>2, <4>1, TTLInt DEF ConfUsed
    <3>3. 0 <= now BY DEF TypeOK
    <3> HIDE DEF n, k
    <3>4. /\ u.pc = "mark" /\ u.ttl = n /\ u.op = j.op /\ u.chat = j.chat /\ u.at = j.at
          /\ u.ids = j.ids /\ u.page = j.page /\ u.todo = j.todo
      BY <1>0 DEF TaskType
    <3> HIDE DEF u, j
    <3>5. EntitledTask(u) BY <3>1, <3>2, <3>3, <3>4 DEF EntitledTask, ByAge
    <3>. QED BY <2>2, <3>5
  <2>. QED BY <2>1, <2>2
<1> HIDE DEF t
<1>4. UNCHANGED <<server, conf, jobs>> /\ index' = index BY DEF Resolve, mem
<1>5. \A c \in Chats : index'[c] \subseteq Sent(c) BY <1>4 DEF KnownSent
<1>. QED BY <1>0, <1>1, <1>2, <1>3, <1>4, <1>5, WorkerQuiet

\* What a page holds was sent.
LEMMA PageSent ==
    ASSUME RightfulInv, NEW c \in Chats, NEW o
    PROVE  Found(c, o) \subseteq Sent(c)
BY DEF RightfulInv, KnownSent, Found, Page, Below, Reachable

\* Capturing the API client and the clock leaves a task entitled.
LEMMA FetchingEntitled ==
    ASSUME RightfulInv, NEW w \in Workers, Fetching(w).pc = "fetch"
    PROVE  EntitledTask(Fetching(w))
<1> USE DEF RightfulInv
<1>1. task[w] \in TaskType /\ EntitledTask(task[w]) BY DEF TypeOK, Procs, Entitled
<1> DEFINE a == IF task[w].op = "drain" THEN now ELSE 0
           t == [task[w] EXCEPT !.api = session, !.at = a]
<1>2. task[w].op = "drain" => a <= now BY DEF TypeOK
<1>3. Fetching(w) = IF task[w].offset # 0 THEN task[w] ELSE t BY DEF Fetching
<1> HIDE DEF a
<1>4. /\ t.pc = task[w].pc /\ t.ttl = task[w].ttl /\ t.op = task[w].op /\ t.chat = task[w].chat /\ t.at = a
      /\ t.ids = task[w].ids /\ t.page = task[w].page /\ t.todo = task[w].todo
  BY <1>1 DEF TaskType
<1> HIDE DEF t
<1>5. task[w].pc = "fetch" BY <1>3, <1>4
<1>6. EntitledTask(t) BY <1>1, <1>2, <1>4, <1>5 DEF EntitledTask, ByAge
<1>. QED BY <1>1, <1>3, <1>6

\* A page of ScanOwn keeps the invariant.
LEMMA FetchRightful ==
    ASSUME RightfulInv, TypeOK', NEW w \in Workers, Fetch(w)
    PROVE  RightfulInv'
<1> DEFINE t == Fetching(w)
           page == Found(t.chat, t.offset)
           u == [t EXCEPT !.pc = "page", !.page = page]
           d == [t EXCEPT !.pc = "delete", !.offset = 0]
           r == IF page = {} THEN ScanDone(t) ELSE u
<1>0. w \in Procs /\ TypeOK BY DEF RightfulInv, Procs
<1>1. t \in TaskType BY <1>0, FetchingType
<1>2. EntitledTask(t) /\ t.pc = "fetch" BY FetchingEntitled DEF Fetch
<1>3. Becomes(w, r) BY DEF Fetch
<1>4. r \in TaskType
  <2>1. task'[w] = r
    <3> HIDE DEF r
    <3>. QED BY <1>0, <1>3 DEF Becomes, TypeOK
  <2>. QED BY <1>0, <2>1 DEF TypeOK
<1>5. page \subseteq Sent(t.chat)
  <2>. t.chat \in Chats BY <1>1 DEF TaskType
  <2>. QED BY PageSent
<1>6. EntitledTask(u)
  <2> HIDE DEF t, page
  <2>1. /\ u.pc = "page" /\ u.ttl = t.ttl /\ u.op = t.op /\ u.chat = t.chat /\ u.at = t.at
        /\ u.ids = t.ids /\ u.page = page /\ u.todo = t.todo
    BY <1>1 DEF TaskType
  <2> HIDE DEF u
  <2>. QED BY <1>2, <1>5, <2>1 DEF EntitledTask, ByAge
<1>7. EntitledTask(ScanDone(t))
  <2> HIDE DEF t
  <2>1. CASE t.op = "drain" /\ t.ids # {}
    <3>1. /\ d.pc = "delete" /\ d.ttl = t.ttl /\ d.op = t.op /\ d.chat = t.chat /\ d.at = t.at
          /\ d.ids = t.ids /\ d.page = t.page /\ d.todo = t.todo
      BY <1>1 DEF TaskType
    <3>2. ScanDone(t) = d BY <2>1 DEF ScanDone
    <3> HIDE DEF d
    <3>3. ByAge(t) BY <1>2, <2>1 DEF EntitledTask
    <3>4. ByAge(d) BY <3>1, <3>3 DEF ByAge
    <3>5. EntitledTask(d) BY <1>2, <2>1, <3>1, <3>4 DEF EntitledTask
    <3>. QED BY <3>2, <3>5
  <2>2. CASE ~(t.op = "drain" /\ t.ids # {})
    BY <2>2, NoTaskEntitled DEF ScanDone
  <2>. QED BY <2>1, <2>2
<1>8. EntitledTask(r)
  <2> HIDE DEF t, u, page
  <2>. QED BY <1>6, <1>7
<1> HIDE DEF r
<1>9. UNCHANGED <<server, conf, jobs>> /\ index' = index BY DEF Fetch, mem
<1>10. \A c \in Chats : index'[c] \subseteq Sent(c) BY <1>9 DEF KnownSent, RightfulInv
<1>. QED BY <1>0, <1>3, <1>4, <1>8, <1>9, <1>10, WorkerQuiet

\* The scan callback keeps the invariant: the ids that a drain collects have
\* outlived its TTL at its captured time, hence now.
LEMMA CalledRightful ==
    ASSUME RightfulInv, TypeOK', NEW w \in Workers, NEW m \in Ids, Callback(w, m)
    PROVE  RightfulInv'
<1> DEFINE j == task[w]
           c == j.chat
           old == IF j.op = "drain" THEN m ELSE 0
           ids == IF j.op = "drain" /\ Outlived(c, m, j.ttl, j.at) THEN j.ids \cup {m} ELSE j.ids
           pc == IF j.page = {m} THEN "fetch" ELSE "page"
           t == [j EXCEPT !.page = j.page \ {m}, !.offset = m, !.oldest = old, !.ids = ids, !.pc = pc]
<1>0. w \in Procs /\ j \in TaskType /\ c \in Chats /\ TypeOK
  BY DEF RightfulInv, TypeOK, Procs, TaskType
<1>1. EntitledTask(j) /\ j.pc = "page" /\ m \in j.page
  BY <1>0 DEF RightfulInv, Entitled, Callback
<1>2. m \in Sent(c) BY <1>1 DEF EntitledTask
<1>3. j.op = "drain" /\ Outlived(c, m, j.ttl, j.at) => Aged(c, m)
  <2> SUFFICES ASSUME j.op = "drain", Outlived(c, m, j.ttl, j.at)
               PROVE  Aged(c, m)
    OBVIOUS
  <2>1. j.ttl \in used[c] /\ j.at <= now BY <1>1 DEF EntitledTask
  <2>2. now \in Int /\ sent[c][m] \in Int
    BY <1>0, <1>2 DEF TypeOK, Unsent, Sent
  <2>3. j.at \in Int BY <1>0 DEF TaskType
  <2>4. j.ttl \in Int
    <3>1. j.ttl \in TTLs BY <1>0, <2>1 DEF TypeOK
    <3>. QED BY <3>1, TTLInt
  <2>5. j.at - sent[c][m] >= j.ttl BY DEF Outlived
  <2>6. \A a, b, d, e \in Int : a - b >= d /\ a <= e => b + d <= e OBVIOUS
  <2> HIDE DEF j, c
  <2>7. sent[c][m] + j.ttl <= now BY <2>1, <2>2, <2>3, <2>4, <2>5, <2>6
  <2>. QED BY <2>1, <2>7 DEF Aged
<1>4. Called(j, m) = t BY DEF Called, NextOffset
<1>5. t \in TaskType BY <1>0, <1>1, <1>4, CalledType
<1>6. pc \in {"fetch", "page"} OBVIOUS
<1>7. ids \subseteq j.ids \cup {m} /\ j.ids \subseteq ids OBVIOUS
<1>8. j.op = "drain" => \A k \in ids : Aged(c, k)
  BY <1>1, <1>3 DEF EntitledTask, ByAge
<1> HIDE DEF ids, pc, old
<1>9. /\ t.pc = pc /\ t.ttl = j.ttl /\ t.op = j.op /\ t.chat = c /\ t.at = j.at
      /\ t.ids = ids /\ t.page = j.page \ {m} /\ t.todo = j.todo
  BY <1>0 DEF TaskType
<1>10. index' = [index EXCEPT ![c] = @ \cup {m}] /\ UNCHANGED <<server, conf, jobs>> /\ Becomes(w, t)
  BY <1>4 DEF Callback
<1> HIDE DEF t, c, j
<1>11. EntitledTask(t)
  <2>1. t.ids \cup t.page \subseteq Sent(t.chat) BY <1>1, <1>2, <1>7, <1>9 DEF EntitledTask, c
  <2>2. t.todo \subseteq t.ids BY <1>1, <1>7, <1>9 DEF EntitledTask
  <2>3. t.op = "drain" => t.ttl \in used[t.chat] /\ t.at <= now /\ ByAge(t)
    BY <1>1, <1>8, <1>9 DEF EntitledTask, ByAge, c
  <2>. QED BY <1>6, <1>9, <2>1, <2>2, <2>3 DEF EntitledTask
<1>12. \A d \in Chats : index'[d] \subseteq Sent(d)
  BY <1>0, <1>2, <1>10 DEF RightfulInv, KnownSent, TypeOK
<1>. QED BY <1>0, <1>5, <1>10, <1>11, <1>12, WorkerQuiet

\* Every step of a scan, of a handler and of DisableChat keeps the invariant.
LEMMA WorkingRightful ==
    ASSUME RightfulInv, TypeOK', NEW w \in Workers, Working(w)
    PROVE  RightfulInv'
<1>0. w \in Procs /\ task[w] \in TaskType /\ EntitledTask(task[w]) /\ task[w].chat \in Chats
  BY DEF RightfulInv, Entitled, TypeOK, Procs, TaskType
<1>01. \A c \in Chats : index[c] \subseteq Sent(c) BY DEF RightfulInv, KnownSent
<1>1. CASE OwnIndexed(w)
  <2>1. task[w].ids \subseteq Sent(task[w].chat) BY <1>0 DEF EntitledTask
  <2>2. \A c \in Chats : index'[c] \subseteq Sent(c)
    BY <1>01, <1>1, <2>1 DEF OwnIndexed, RightfulInv, TypeOK
  <2>. QED BY <1>0, <1>1, <2>2, NoTaskType, NoTaskEntitled, WorkerQuiet DEF OwnIndexed
<1>2. CASE Resolve(w) BY <1>2, ResolveRightful
<1>3. CASE ResolveFailed(w)
  BY <1>0, <1>01, <1>3, NoTaskType, NoTaskEntitled, WorkerQuiet DEF ResolveFailed, mem
<1>4. CASE MarkActive(w)
  <2> DEFINE t == [task[w] EXCEPT !.pc = "fetch"]
  <2>1. t \in TaskType BY <1>0 DEF TaskType, PCs
  <2>2. EntitledTask(t) BY <1>0, <1>4 DEF MarkActive, EntitledTask, ByAge, TaskType
  <2>. QED BY <1>0, <1>01, <1>4, <2>1, <2>2, WorkerQuiet DEF MarkActive
<1>5. CASE Fetch(w) BY <1>5, FetchRightful
<1>6. CASE FetchFailed(w)
  BY <1>0, <1>01, <1>6, NoTaskType, NoTaskEntitled, WorkerQuiet DEF FetchFailed, mem
<1>7. CASE DisableChat(w)
  <2>1. \A c \in Chats : index'[c] \subseteq Sent(c)
    BY <1>01, <1>7 DEF DisableChat, RightfulInv, TypeOK
  <2>. QED BY <1>0, <1>7, <2>1, NoTaskType, NoTaskEntitled, WorkerQuiet DEF DisableChat
<1>8. ASSUME NEW m \in Ids, Callback(w, m)
      PROVE  RightfulInv'
  BY <1>8, CalledRightful
<1>. QED BY <1>1, <1>2, <1>3, <1>4, <1>5, <1>6, <1>7, <1>8 DEF Working

\* Whatever is about to be sent to Telegram is entitled by age or by match.
LEMMA SendingEntitled ==
    ASSUME RightfulInv, NEW p \in Procs, MaySend(p)
    PROVE  /\ EntitledTask(Sending(p))
           /\ ByAge(Sending(p)) \/ ByMatch(Sending(p))
           /\ Sending(p).pc # "resolve"
<1>1. task[p] \in TaskType /\ EntitledTask(task[p]) BY DEF RightfulInv, TypeOK, Entitled
<1> DEFINE j == task[p]
           t == [j EXCEPT !.api = session, !.todo = j.ids]
<1>2. Sending(p) = IF j.pc = "chunk" THEN j ELSE t BY DEF Sending
<1>3. j.pc \in {"delete", "chunk"} BY DEF MaySend
<1>4. /\ t.pc = j.pc /\ t.ttl = j.ttl /\ t.op = j.op /\ t.chat = j.chat /\ t.at = j.at
      /\ t.ids = j.ids /\ t.page = j.page /\ t.todo = j.ids
  BY <1>1 DEF TaskType
<1> HIDE DEF t, j
<1>5. ByAge(j) \/ ByMatch(j) BY <1>1, <1>3 DEF EntitledTask, j
<1>6. (ByAge(j) => ByAge(t)) /\ (ByMatch(j) => ByMatch(t)) BY <1>4 DEF ByAge, ByMatch
<1>7. EntitledTask(t) BY <1>1, <1>4, <1>5, <1>6 DEF EntitledTask, j
<1>. QED BY <1>1, <1>2, <1>3, <1>4, <1>5, <1>6, <1>7 DEF j

\* Sending a chunk, whether it fails or not, leaves a task entitled.
LEMMA ChunkEntitled ==
    ASSUME NEW t \in TaskType, EntitledTask(t), ByAge(t) \/ ByMatch(t), t.pc # "resolve",
           NEW k \in SUBSET Ids
    PROVE  /\ EntitledTask(AfterChunk(t, k))
           /\ EntitledTask(WithFailed(AfterChunk(t, k), k))
<1> DEFINE left == t.todo \ k
           pc == IF t.todo = k THEN "settle" ELSE "chunk"
           u == [t EXCEPT !.todo = left, !.pc = pc]
           v == [u EXCEPT !.failed = u.failed \cup k]
<1>1. AfterChunk(t, k) = u /\ WithFailed(AfterChunk(t, k), k) = v
  BY DEF AfterChunk, WithFailed
<1>2. left \subseteq t.todo /\ pc # "resolve" OBVIOUS
<1> HIDE DEF left, pc
<1>3. /\ u.pc = pc /\ u.ttl = t.ttl /\ u.op = t.op /\ u.chat = t.chat /\ u.at = t.at
      /\ u.ids = t.ids /\ u.page = t.page /\ u.todo = left
  BY DEF TaskType
<1>4. /\ v.pc = pc /\ v.ttl = t.ttl /\ v.op = t.op /\ v.chat = t.chat /\ v.at = t.at
      /\ v.ids = t.ids /\ v.page = t.page /\ v.todo = left
  BY DEF TaskType
<1> HIDE DEF u, v
<1>5. ASSUME NEW x, x.pc = pc, x.ttl = t.ttl, x.op = t.op, x.chat = t.chat, x.at = t.at,
             x.ids = t.ids, x.page = t.page, x.todo = left
      PROVE  EntitledTask(x)
  <2>1. (ByAge(t) => ByAge(x)) /\ (ByMatch(t) => ByMatch(x)) BY <1>5 DEF ByAge, ByMatch
  <2>. QED BY <1>2, <1>5, <2>1 DEF EntitledTask
<1>. QED BY <1>1, <1>3, <1>4, <1>5

\* Whatever follows deleteIDs is entitled: a next pass keeps the TTL.
LEMMA NextPassEntitled ==
    ASSUME RightfulInv, NEW t \in TaskType, EntitledTask(t), t.pc # "resolve", NEW ok
    PROVE  EntitledTask(Returned(t, ok))
<1>1. CASE t.op = "drain"
  <2> DEFINE j == Job("drain", "fetch", t.chat)
             n == t.pass + 1
             u == [j EXCEPT !.ctx = t.ctx, !.ttl = t.ttl, !.pass = n, !.prev = t.oldest]
  <2>1. NextPass(t) = u BY DEF NextPass
  <2>2. /\ u.pc = "fetch" /\ u.ttl = t.ttl /\ u.op = "drain" /\ u.chat = t.chat /\ u.at = 0
        /\ u.ids = {} /\ u.page = {} /\ u.todo = {}
    BY DEF Job, NoTask
  <2> HIDE DEF u
  <2>3. 0 <= now BY DEF RightfulInv, TypeOK
  <2>4. EntitledTask(u) BY <1>1, <2>2, <2>3 DEF EntitledTask, ByAge
  <2>. QED BY <2>1, <2>4, NoTaskEntitled DEF Returned
<1>2. CASE t.op # "drain" BY <1>2, NoTaskEntitled DEF Returned
<1>. QED BY <1>1, <1>2

\* Every step of deleteIDs and Delete keeps the invariant.
LEMMA DeletingRightful ==
    ASSUME RightfulInv, TypeOK', NEW p \in Procs, Deleting(p)
    PROVE  RightfulInv'
<1>0. TypeOK /\ task[p] \in TaskType /\ EntitledTask(task[p])
  BY DEF RightfulInv, Entitled, TypeOK
<1>01. \A c \in Chats : index[c] \subseteq Sent(c) BY DEF RightfulInv, KnownSent
<1>1. CASE DeleteDropped(p)
  <2>1. EntitledTask(Returned(task[p], {})) BY <1>0, <1>1, NextPassEntitled DEF DeleteDropped
  <2>. QED BY <1>0, <1>01, <1>1, <2>1, ReturnedType, WorkerQuiet DEF DeleteDropped, mem
<1>2. CASE DeleteRefused(p)
  <2> DEFINE t == [task[p] EXCEPT !.pc = "settle"]
  <2>1. t \in TaskType BY <1>0 DEF TaskType, PCs
  <2>2. EntitledTask(t) BY <1>0, <1>2 DEF DeleteRefused, EntitledTask, ByAge, TaskType
  <2>. QED BY <1>0, <1>01, <1>2, <2>1, <2>2, WorkerQuiet DEF DeleteRefused, mem
<1>3. CASE Settle(p)
  <2> DEFINE ok == OkIds(task[p])
  <2>1. EntitledTask(Returned(task[p], ok)) BY <1>0, <1>3, NextPassEntitled DEF Settle
  <2>2. Becomes(p, Returned(task[p], ok)) BY <1>3 DEF Settle
  <2>3. index' = [index EXCEPT ![task[p].chat] = @ \ ok] BY <1>3 DEF Settle
  <2> HIDE DEF ok
  <2>4. \A c \in Chats : index'[c] \subseteq Sent(c) BY <1>0, <1>01, <2>3 DEF TypeOK
  <2>. QED BY <1>0, <1>3, <2>1, <2>2, <2>4, ReturnedType, WorkerQuiet DEF Settle
<1>4. ASSUME NEW k \in SUBSET Ids, ChunkDeleted(p, k)
      PROVE  RightfulInv'
  <2> DEFINE t == AfterChunk(Sending(p), k)
  <2>1. t \in TaskType BY <1>0, SendingType, AfterChunkType
  <2>2. EntitledTask(t)
    BY <1>0, <1>4, SendingType, SendingEntitled, ChunkEntitled DEF ChunkDeleted
  <2>3. Becomes(p, t) BY <1>4 DEF ChunkDeleted
  <2> HIDE DEF t
  <2>4. \A c \in Chats : own'[c] \subseteq own[c] BY <1>0, <1>4 DEF ChunkDeleted, Without, TypeOK
  <2>. QED BY <1>01, <1>4, <2>1, <2>2, <2>3, <2>4, BecomesQuiet DEF ChunkDeleted, mem
<1>5. ASSUME NEW k \in SUBSET Ids, ChunkFailed(p, k)
      PROVE  RightfulInv'
  <2> DEFINE t == WithFailed(AfterChunk(Sending(p), k), k)
  <2>1. t \in TaskType BY <1>0, SendingType, AfterChunkType
  <2>2. EntitledTask(t)
    BY <1>0, <1>5, SendingType, SendingEntitled, ChunkEntitled DEF ChunkFailed
  <2>3. Becomes(p, t) BY <1>5 DEF ChunkFailed
  <2> HIDE DEF t
  <2>4. own' = own \/ own' = Without(own, Box(Sending(p).chat), k) BY <1>5 DEF ChunkFailed
  <2>5. \A c \in Chats : own'[c] \subseteq own[c] BY <1>0, <2>4 DEF Without, TypeOK
  <2>. QED BY <1>01, <1>5, <2>1, <2>2, <2>3, <2>5, BecomesQuiet DEF ChunkFailed, mem
<1>. QED BY <1>1, <1>2, <1>3, <1>4, <1>5 DEF Deleting

\* A command leaves Telegram, the index and the jobs alone and lets the histories
\* of the configuration only grow.
LEMMA CommandGrows ==
    ASSUME RightfulInv, TypeOK', UNCHANGED <<server, mem, jobs>>, ConfUsed',
           patted \subseteq patted', \A c \in Chats : used[c] \subseteq used'[c],
           task' = task \/ NewTask
    PROVE  RightfulInv'
<1>1. Grows BY DEF Grows, server, RightfulInv, TypeOK
<1>2. SentOnce' /\ KnownSent'
  BY DEF RightfulInv, SentOnce, KnownSent, Sent, server, mem
<1>3. \A c \in Chats : jobs'[c] \subseteq jobs[c] OBVIOUS
<1>. QED BY <1>1, <1>2, <1>3, GrowsStep

\* Spawning a goroutine adds an entitled task.
LEMMA JobNew ==
    ASSUME NEW p \in Procs, NEW op \in Ops, NEW pc \in PCs, NEW c \in Chats,
           pc \notin {"delete", "chunk"}, op # "drain" \/ pc = "resolve",
           Becomes(p, Job(op, pc, c))
    PROVE  NewTask
BY JobType, JobEntitled DEF NewTask, Becomes

\* The operator's commands keep the invariant: a TTL that is cleared or replaced
\* stays in the history that entitles the deletes under way.
LEMMA OperatorRightful ==
    ASSUME RightfulInv, TypeOK', Operator
    PROVE  RightfulInv'
<1>0. TypeOK /\ ConfUsed BY DEF RightfulInv
<1>1. ASSUME NEW c \in Chats, AddPattern(c)
      PROVE  RightfulInv'
  <2>1. ConfUsed' BY <1>0, <1>1 DEF AddPattern, ConfUsed
  <2>. QED BY <1>1, <2>1, CommandGrows DEF AddPattern
<1>2. ASSUME NEW c \in Chats, RemovePattern(c)
      PROVE  RightfulInv'
  <2>1. ConfUsed' BY <1>0, <1>2 DEF RemovePattern, ConfUsed
  <2>. QED BY <1>2, <2>1, CommandGrows DEF RemovePattern
<1>3. ASSUME NEW c \in Chats, NEW w \in Workers, ClearTTL(w, c)
      PROVE  RightfulInv'
  <2>1. ConfUsed' BY <1>0, <1>3 DEF ClearTTL, ConfUsed, TypeOK
  <2>2. NewTask BY <1>3, JobNew DEF ClearTTL, Procs, Ops, PCs
  <2>. QED BY <1>3, <2>1, <2>2, CommandGrows DEF ClearTTL
<1>4. ASSUME NEW c \in Chats, NEW w \in Workers, TurnOff(w, c)
      PROVE  RightfulInv'
  <2>1. ConfUsed' BY <1>0, <1>4 DEF TurnOff, ConfUsed, TypeOK
  <2>2. NewTask BY <1>4, JobNew DEF TurnOff, Procs, Ops, PCs
  <2>. QED BY <1>4, <2>1, <2>2, CommandGrows DEF TurnOff
<1>5. ASSUME NEW c \in Chats, NEW w \in Workers, Purge(w, c)
      PROVE  RightfulInv'
  <2>1. ConfUsed' BY <1>0, <1>5 DEF Purge, ConfUsed, conf
  <2>2. NewTask BY <1>5, JobNew DEF Purge, Procs, Ops, PCs
  <2>. QED BY <1>5, <2>1, <2>2, CommandGrows DEF Purge, conf
<1>6. ASSUME NEW c \in Chats, NEW w \in Workers, NEW n \in TTLs, ApplyTTL(w, c, n)
      PROVE  RightfulInv'
  <2>1. ConfUsed' BY <1>0, <1>6 DEF ApplyTTL, ConfUsed, TypeOK
  <2>2. NewTask
    <3>1. CASE ttl[c] = 0 BY <1>6, <3>1, JobNew DEF ApplyTTL, Procs, Ops, PCs
    <3>2. CASE ttl[c] # 0 BY <1>6, <3>2, JobNew DEF ApplyTTL, Procs, Ops, PCs
    <3>. QED BY <3>1, <3>2
  <2>3. \A d \in Chats : used[d] \subseteq used'[d] BY <1>0, <1>6 DEF ApplyTTL, TypeOK
  <2>. QED BY <1>6, <2>1, <2>2, <2>3, CommandGrows DEF ApplyTTL
<1>. QED BY <1>1, <1>2, <1>3, <1>4, <1>5, <1>6 DEF Operator

\* Starting, stopping and crashing keep the invariant.
LEMMA SessionsRightful ==
    ASSUME RightfulInv, TypeOK', Sessions
    PROVE  RightfulInv'
<1>0. \A c \in Chats : index[c] \subseteq Sent(c) BY DEF RightfulInv, KnownSent
<1>1. CASE Start
  <2>. Quiet BY <1>0, <1>1 DEF Quiet, Start, server, conf, mem
  <2>. QED BY QuietStep
<1>2. CASE ReadyList
  <2>. Quiet BY <1>0, <1>2 DEF Quiet, ReadyList, server, conf, mem
  <2>. QED BY QuietStep
<1>3. CASE StopCancel
  <2>. Quiet BY <1>0, <1>3 DEF Quiet, StopCancel, server, conf, mem
  <2>. QED BY QuietStep
<1>4. CASE StopHalt
  <2>. Quiet BY <1>0, <1>4 DEF Quiet, StopHalt, server, conf, mem
  <2>. QED BY QuietStep
<1>5. CASE Reset
  <2>. Quiet BY <1>5 DEF Quiet, Reset, server, conf
  <2>. QED BY QuietStep
<1>6. CASE Crash
  <2>1. SentOnce' /\ KnownSent' /\ ConfUsed'
    BY <1>6 DEF Crash, RightfulInv, SentOnce, KnownSent, ConfUsed, Sent, server, conf
  <2>2. \A c \in Chats : EntitledJobs(c)' BY <1>6 DEF Crash, EntitledJobs
  <2>3. ASSUME NEW q \in Procs PROVE EntitledTask(task[q])'
    <3>1. task'[q] = NoTask BY <1>6 DEF Crash
    <3>. QED BY <3>1 DEF EntitledTask, NoTask
  <2>. QED BY <2>1, <2>2, <2>3 DEF RightfulInv, Entitled
<1>7. ASSUME NEW c \in Chats, NEW w \in Workers, ReadySpawn(w, c)
      PROVE  RightfulInv'
  <2> DEFINE j == Job("enable", "resolve", c)
             t == [j EXCEPT !.ctx = session]
  <2>1. j \in TaskType BY JobType DEF Ops, PCs
  <2>2. session \in Nat BY NumberAssumption DEF RightfulInv, TypeOK
  <2>3. j.op = "enable" /\ j.pc = "resolve" /\ j.at = 0 /\ j.page = {} /\ j.todo = {} /\ j.ids = {}
    BY DEF Job, NoTask
  <2>4. Becomes(w, t) BY <1>7 DEF ReadySpawn
  <2>5. /\ t \in TaskType /\ t.op = "enable" /\ t.pc = "resolve" /\ t.at = 0
        /\ t.page = {} /\ t.todo = {} /\ t.ids = {}
    <3> HIDE DEF j
    <3>. QED BY <2>1, <2>2, <2>3 DEF TaskType
  <2> HIDE DEF j, t
  <2>6. EntitledTask(t) BY <2>5 DEF EntitledTask
  <2>. QED BY <1>0, <1>7, <2>4, <2>5, <2>6, WorkerQuiet DEF ReadySpawn, mem, Procs
<1>. QED BY <1>1, <1>2, <1>3, <1>4, <1>5, <1>6, <1>7 DEF Sessions

\* The invariant behind Rightful is inductive.
LEMMA RightfulInvStep == RightfulInv /\ [Next]_vars => RightfulInv'
<1> SUFFICES ASSUME RightfulInv, [Next]_vars PROVE RightfulInv' OBVIOUS
<1>0. TypeOK' BY TypeStep DEF RightfulInv
<1>1. CASE UNCHANGED vars
  <2>. Quiet BY <1>1 DEF Quiet, vars, server, conf, mem, RightfulInv, KnownSent
  <2>. QED BY <1>0, QuietStep
<1>2. CASE Next
  BY <1>0, <1>2, TelegramRightful, UpdatesRightful, SweepRightful, DeletingRightful,
     WorkingRightful, OperatorRightful, SessionsRightful DEF Next
<1>. QED BY <1>1, <1>2

\* A chunk takes away only what the task is entitled to: an id of the box that
\* exists in a chat is that chat's, because it was sent to the task's chat too.
LEMMA ChunkRightful ==
    ASSUME RightfulInv, NEW p \in Procs, MaySend(p),
           NEW k \in Chunks(Sending(p).todo), UNCHANGED <<now, sent, used, patted>>,
           own' = Without(own, Box(Sending(p).chat), k)
    PROVE  RightfulStep
<1> DEFINE t == Sending(p)
<1> SUFFICES ASSUME NEW c \in Chats, NEW m \in own[c] \ own'[c]
             PROVE  MayMatch(c, m) \/ Aged(c, m)
  BY DEF RightfulStep
<1>1. t \in TaskType /\ TypeOK BY SendingType DEF RightfulInv
<1>2. EntitledTask(t) /\ (ByAge(t) \/ ByMatch(t)) BY SendingEntitled
<1>3. c \in Box(t.chat) /\ m \in k BY DEF Without
<1> HIDE DEF t
<1>4. m \in t.ids BY <1>2, <1>3 DEF Chunks, EntitledTask, t
<1>5. m \in Sent(t.chat) /\ m \in Sent(c)
  BY <1>2, <1>4 DEF EntitledTask, RightfulInv, KnownSent
<1>6. t.chat = c
  <2>. t.chat \in Chats BY <1>1 DEF TaskType
  <2>. QED BY <1>3, <1>5 DEF RightfulInv, SentOnce, Sent
<1>. QED BY <1>2, <1>4, <1>6 DEF ByAge, ByMatch

\* From a state of the invariant no step makes an unentitled message disappear.
LEMMA RightfulNext == RightfulInv /\ [Next]_vars => [RightfulStep]_vars
<1> SUFFICES ASSUME RightfulInv, Next PROVE RightfulStep OBVIOUS
<1>0. TypeOK BY DEF RightfulInv
<1>1. CASE \A c \in Chats : own[c] \subseteq own'[c] BY <1>1 DEF RightfulStep
<1>2. CASE Telegram
  <2>1. CASE Tick BY <1>1, <2>1 DEF Tick
  <2>2. ASSUME NEW c \in Chats, NEW m \in Ids, Send(c, m)
        PROVE  RightfulStep
    BY <1>0, <1>1, <2>2 DEF Send, TypeOK
  <2>3. ASSUME NEW c \in Chats, NEW m \in Ids, Vanish(c, m)
        PROVE  RightfulStep
    BY <1>0, <2>3 DEF Vanish, TypeOK, RightfulStep
  <2>. QED BY <1>2, <2>1, <2>2, <2>3 DEF Telegram
<1>3. CASE Updates
  BY <1>1, <1>3 DEF Updates, OwnService, OwnIgnored, OnDeleted, OwnMatched, OwnRecorded
<1>4. CASE Sweep BY <1>1, <1>4 DEF Sweep, SweepTick, LoopExit, SweepNext, server
<1>5. ASSUME NEW p \in Procs, Deleting(p)
      PROVE  RightfulStep
  <2>1. CASE DeleteDropped(p) \/ DeleteRefused(p) \/ Settle(p)
    BY <1>1, <2>1 DEF DeleteDropped, DeleteRefused, Settle, server
  <2>2. ASSUME NEW k \in SUBSET Ids, ChunkDeleted(p, k)
        PROVE  RightfulStep
    BY <2>2, ChunkRightful DEF ChunkDeleted, conf
  <2>3. ASSUME NEW k \in SUBSET Ids, ChunkFailed(p, k)
        PROVE  RightfulStep
    <3>1. own' = own \/ own' = Without(own, Box(Sending(p).chat), k) BY <2>3 DEF ChunkFailed
    <3>2. CASE own' = own BY <1>1, <3>2
    <3>3. CASE own' = Without(own, Box(Sending(p).chat), k)
      BY <2>3, <3>3, ChunkRightful DEF ChunkFailed, conf
    <3>. QED BY <3>1, <3>2, <3>3
  <2>. QED BY <1>5, <2>1, <2>2, <2>3 DEF Deleting
<1>6. ASSUME NEW w \in Workers, Working(w)
      PROVE  RightfulStep
  BY <1>1, <1>6 DEF Working, OwnIndexed, Resolve, ResolveFailed, MarkActive, Fetch,
     FetchFailed, DisableChat, Callback, server
<1>7. CASE Operator
  BY <1>1, <1>7 DEF Operator, AddPattern, RemovePattern, ClearTTL, TurnOff, Purge, ApplyTTL, server
<1>8. CASE Sessions
  BY <1>1, <1>8 DEF Sessions, Start, ReadyList, StopCancel, StopHalt, Reset, Crash, ReadySpawn, server
<1>. QED BY <1>2, <1>3, <1>4, <1>5, <1>6, <1>7, <1>8 DEF Next

\* In every behaviour every goroutine and every job holds only ids that it is
\* entitled to delete.
THEOREM EntitledCorrect == Spec => []Entitled
<1>1. RightfulInv => Entitled BY DEF RightfulInv
<1>. QED BY <1>1, RightfulInit, RightfulInvStep, PTL DEF Spec

\* The program deletes only messages that match a pattern or have outlived a TTL
\* that their chat had.
THEOREM RightfulCorrect == Spec => Rightful
BY RightfulInit, RightfulInvStep, RightfulNext, PTL DEF Spec, Rightful
=============================================================================
