--------------------------- MODULE CoverageProofs ---------------------------
(***************************************************************************)
(* A maintained chat loses track of no message: Coverage of module Cleaner, *)
(* as long as nobody has sent /stop and no RPC has failed on a live         *)
(* connection, for a box that fits in the search window and has fewer       *)
(* service messages than a page.  Outside of these limits Coverage is       *)
(* false: a scan that fails leaves its chat active, a search ends at its    *)
(* window, a page of service messages ends the scan, and a delete refused   *)
(* on a stopped client takes its ids out of the next session's index.       *)
(***************************************************************************)
EXTENDS ConfirmedProofs, WellFoundedInduction

-----------------------------------------------------------------------------
(* What a page of the search returns *)

\* A nonempty set of ids has a newest one.
LEMMA Newest ==
    ASSUME NEW S, S \subseteq Ids, S # {}
    PROVE  \E x \in S : \A y \in S : y <= x
<1> DEFINE Above(x) == {y \in S : y > x}
           Uppers == {Above(x) : x \in S}
<1>0. IsFiniteSet(S) BY NumberAssumption, FS_Subset
<1>1. Uppers \subseteq FiniteSubsetsOf(S) /\ Uppers # {}
  <2>1. \A x \in S : Above(x) \in SUBSET S OBVIOUS
  <2> HIDE DEF Above
  <2>2. \A x \in S : IsFiniteSet(Above(x)) BY <1>0, <2>1, FS_Subset
  <2>. QED BY <2>1, <2>2 DEF FiniteSubsetsOf
<1>2. \E U \in Uppers : \A V \in Uppers : <<V, U>> \notin StrictSubsetOrdering(S)
  <2> HIDE DEF Uppers
  <2>. QED BY <1>0, <1>1, FS_StrictSubsetOrderingWellFounded, WFMin
<1>3. PICK x \in S : \A V \in Uppers : <<V, Above(x)>> \notin StrictSubsetOrdering(S)
  BY <1>2
<1>4. ASSUME NEW y \in S, ~(y <= x)
      PROVE  FALSE
  <2>0. \A z \in S : z \in Nat BY NumberAssumption
  <2>1. x \in Nat /\ y \in Nat /\ x < y BY <1>4, <2>0
  <2>2. Above(y) \subseteq Above(x) /\ y \in Above(x) /\ y \notin Above(y)
    <3>1. y \in Above(x) BY <2>1
    <3>2. y \notin Above(y) BY <2>1
    <3>3. ASSUME NEW z \in Above(y) PROVE z \in Above(x) BY <2>0, <2>1
    <3>. QED BY <3>1, <3>2, <3>3
  <2>3. Above(x) \in SUBSET S /\ Above(y) \in SUBSET S OBVIOUS
  <2>4. Above(y) \in Uppers OBVIOUS
  <2> HIDE DEF Above, Uppers
  <2>5. <<Above(y), Above(x)>> \in StrictSubsetOrdering(S)
    BY <2>2, <2>3 DEF StrictSubsetOrdering
  <2>. QED BY <1>3, <2>4, <2>5
<1>. QED BY <1>4

\* In a box that fits in the search window a search reaches every message.
LEMMA ReachesAll ==
    ASSUME TypeOK, Cardinality(Ids) <= SearchWindow, NEW c \in Chats
    PROVE  Reachable(c) = own[c]
<1> SUFFICES ASSUME NEW m \in own[c]
             PROVE  Cardinality({k \in own[c] : k > m}) < SearchWindow
  BY DEF Reachable
<1> DEFINE K == {k \in own[c] : k > m}
<1>1. m \in Ids /\ m \in Nat /\ own[c] \subseteq Ids BY NumberAssumption DEF TypeOK
<1>2. K \subseteq Ids /\ m \notin K BY <1>1
<1> HIDE DEF K
<1>3. Cardinality(K) \in Nat /\ Cardinality(Ids) \in Nat
  BY <1>2, NumberAssumption, FS_Subset, FS_CardinalityType
<1>4. Cardinality(K) <= Cardinality(Ids) /\ Cardinality(K) # Cardinality(Ids)
  BY <1>1, <1>2, NumberAssumption, FS_Subset
<1>5. SearchWindow \in Nat BY NumberAssumption
<1>. QED BY <1>3, <1>4, <1>5 DEF K

\* A message that the search may still return is on the page, or older than all
\* of a page that is not empty: the scan goes on towards it.
LEMMA PageReaches ==
    ASSUME TypeOK, Cardinality(Ids) <= SearchWindow, Cardinality(Service) < PageLimit,
           NEW c \in Chats, NEW o \in Ids \cup {0}, NEW m \in own[c] \ Service,
           o = 0 \/ m < o
    PROVE  \/ m \in Found(c, o)
           \/ Found(c, o) # {} /\ \A k \in Found(c, o) : m < k
<1> DEFINE B == Below(c, o)
           Above(x) == {k \in B : k > x}
<1>1. m \in B BY ReachesAll DEF Below
<1>2. B \subseteq Ids /\ \A x \in B : x \in Nat
  BY NumberAssumption DEF TypeOK, Below, Reachable
<1>3. \A x : Above(x) \subseteq Ids BY <1>2
<1>4. \A x \in B : Cardinality(Above(x)) \in Nat
  BY <1>3, NumberAssumption, FS_Subset, FS_CardinalityType
<1>5. PageLimit \in Nat /\ IsFiniteSet(Service) /\ Cardinality(Service) \in Nat
  BY ChatAssumption, NumberAssumption, FS_Subset, FS_CardinalityType
<1>6. Page(c, o) = {x \in B : Cardinality(Above(x)) < PageLimit} BY DEF Page
<1> HIDE DEF B
<1>7. CASE m \in Page(c, o) BY <1>7 DEF Found
<1>8. CASE m \notin Page(c, o)
  <2>1. Cardinality(Above(m)) >= PageLimit BY <1>1, <1>4, <1>5, <1>6, <1>8
  <2>2. ASSUME NEW k \in Page(c, o) PROVE m < k
    <3>1. k \in B /\ Cardinality(Above(k)) < PageLimit BY <1>6
    <3>2. SUFFICES ASSUME k <= m PROVE FALSE BY <1>1, <1>2, <3>1
    <3>3. Above(m) \subseteq Above(k) BY <1>1, <1>2, <3>1, <3>2
    <3>4. IsFiniteSet(Above(k)) BY <1>3, NumberAssumption, FS_Subset
    <3> HIDE DEF Above
    <3>5. Cardinality(Above(m)) <= Cardinality(Above(k)) BY <3>3, <3>4, FS_Subset
    <3>. QED BY <1>1, <1>4, <1>5, <2>1, <3>1, <3>5
  <2>3. ASSUME Page(c, o) \subseteq Service PROVE FALSE
    <3>1. PICK x \in B \ Page(c, o) : \A y \in B \ Page(c, o) : y <= x
      BY <1>1, <1>2, <1>8, Newest
    <3>2. Above(x) \subseteq Page(c, o)
      <4> SUFFICES ASSUME NEW y \in Above(x), y \notin Page(c, o) PROVE FALSE OBVIOUS
      <4>1. y \in B /\ y > x BY DEF Above
      <4>2. y <= x BY <3>1, <4>1
      <4>. QED BY <1>2, <4>1, <4>2
    <3> HIDE DEF Above
    <3>3. Cardinality(Above(x)) <= Cardinality(Service) BY <1>5, <2>3, <3>2, FS_Subset
    <3>4. ~(Cardinality(Above(x)) < PageLimit) BY <1>6, <3>1
    <3>. QED BY <1>4, <1>5, <3>1, <3>3, <3>4
  <2>. QED BY <2>2, <2>3 DEF Found
<1>. QED BY <1>7, <1>8

-----------------------------------------------------------------------------
(* The scans under way *)

\* While nobody sends /stop, the scans that have not yet begun belong to the
\* stack that runs, or to the one that is started next.
ScanReady ==
    /\ client = "down" => ~boot /\ ready = {}
    /\ \A w \in Workers : task[w].pc \in {"resolve", "mark"} =>
          /\ task[w].op \in {"enable", "drain"}
          /\ task[w].offset = 0
          /\ task[w].ctx \in {0, session}
          /\ client = "down" => task[w].ctx = 0

\* No /stop so far, and no RPC that failed on a live connection.
Unhindered == budget.stops = 0 /\ budget.faults = 0

CoverageInv ==
    /\ ConfirmedInv
    /\ budget.stops = 0 => ScanReady
    /\ Unhindered => Coverage

\* The invariant holds before the program first runs.
LEMMA CoverageInit == Init => CoverageInv
<1> SUFFICES ASSUME Init PROVE CoverageInv OBVIOUS
<1>1. ConfirmedInv BY ConfirmedInit
<1>2. ScanReady BY DEF Init, ScanReady, NoTask, Procs
<1>3. Coverage BY DEF Init, Coverage
<1>. QED BY <1>1, <1>2, <1>3 DEF CoverageInv

\* A goroutine that takes up something other than a scan leaves the others be.
LEMMA ReadyBecomes ==
    ASSUME TypeOK, ScanReady, NEW p \in Procs, NEW t, Becomes(p, t),
           t.pc \notin {"resolve", "mark"}, UNCHANGED <<client, session, boot, ready>>
    PROVE  ScanReady'
<1>. ASSUME NEW w \in Workers PROVE task'[w] = task[w] \/ task'[w].pc \notin {"resolve", "mark"}
  BY DEF Becomes, TypeOK, Procs
<1>. QED BY DEF ScanReady

\* So does one that spawns a scan from the base context.
LEMMA ReadyJob ==
    ASSUME TypeOK, ScanReady, NEW p \in Procs, NEW op \in {"enable", "drain"}, NEW c \in Chats,
           Becomes(p, Job(op, "resolve", c)), UNCHANGED <<client, session, boot, ready>>
    PROVE  ScanReady'
<1>1. Job(op, "resolve", c).op = op /\ Job(op, "resolve", c).offset = 0 /\ Job(op, "resolve", c).ctx = 0
  BY DEF Job, NoTask
<1>2. ASSUME NEW w \in Workers PROVE task'[w] = task[w] \/ task'[w] = Job(op, "resolve", c)
  BY DEF Becomes, TypeOK, Procs
<1>. QED BY <1>1, <1>2 DEF ScanReady

\* Without a /stop every scan that has not begun belongs to a stack that runs.
LEMMA ReadyStep ==
    ASSUME TypeOK, ScanReady, ColdCache, Next, budget'.stops = 0
    PROVE  ScanReady'
<1>0. ASSUME UNCHANGED <<task, client, session, boot, ready>> PROVE ScanReady'
  BY <1>0 DEF ScanReady
<1>00. NoTask.pc = "idle" BY DEF NoTask
<1>1. CASE Telegram
  BY <1>0, <1>1 DEF Telegram, Tick, Send, Vanish, conn
<1>2. CASE Updates
  <2>1. ASSUME NEW c \in Chats, NEW m \in Ids, NEW w \in Workers, OwnMatched(w, c, m)
        PROVE  ScanReady'
    <3>1. [Job("instant", "delete", c) EXCEPT !.ids = {m}].pc = "delete" BY DEF Job, NoTask
    <3>. QED BY <2>1, <3>1, ReadyBecomes DEF OwnMatched, Procs, conn
  <2>2. ASSUME NEW c \in Chats, NEW m \in Ids, NEW w \in Workers, OwnRecorded(w, c, m)
        PROVE  ScanReady'
    <3>1. [Job("own", "record", c) EXCEPT !.ids = {m}].pc = "record" BY DEF Job, NoTask
    <3>. QED BY <2>2, <3>1, ReadyBecomes DEF OwnRecorded, Procs, conn
  <2>. QED BY <1>0, <1>2, <2>1, <2>2 DEF Updates, OwnService, OwnIgnored, OnDeleted, conn
<1>3. CASE Sweep
  <2>1. ASSUME NEW c \in Chats, SweepNext(c)
        PROVE  ScanReady'
    <3>1. [Job("sweep", "delete", c) EXCEPT !.ids = jobs[c], !.ctx = loop].pc = "delete"
      BY DEF Job, NoTask
    <3>. QED BY <2>1, <3>1, ReadyBecomes DEF SweepNext, Procs, conn
  <2>. QED BY <1>0, <1>3, <2>1 DEF Sweep, SweepTick, LoopExit, conn
<1>4. ASSUME NEW p \in Procs, Deleting(p)
      PROVE  ScanReady'
  <2>1. CASE DeleteDropped(p) \/ Settle(p)
    <3>1. ASSUME NEW t, NEW ok PROVE Returned(t, ok).pc \notin {"resolve", "mark"}
      <4> DEFINE j == Job("drain", "fetch", t.chat)
                 n == t.pass + 1
      <4>1. NextPass(t) = [j EXCEPT !.ctx = t.ctx, !.ttl = t.ttl, !.pass = n, !.prev = t.oldest]
        BY DEF NextPass
      <4>2. NextPass(t).pc = "fetch" BY <4>1 DEF Job, NoTask
      <4>. QED BY <1>00, <4>2 DEF Returned
    <3>. QED BY <2>1, <3>1, ReadyBecomes DEF DeleteDropped, Settle, conn
  <2>2. CASE DeleteRefused(p)
    <3>1. [task[p] EXCEPT !.pc = "settle"].pc = "settle" BY DEF TypeOK, TaskType
    <3>. QED BY <2>2, <3>1, ReadyBecomes DEF DeleteRefused, conn
  <2>3. ASSUME NEW k \in SUBSET Ids, ChunkDeleted(p, k) \/ ChunkFailed(p, k)
        PROVE  ScanReady'
    <3> DEFINE t == Sending(p)
    <3>1. t \in TaskType BY SendingType
    <3>2. /\ AfterChunk(t, k).pc \in {"settle", "chunk"}
          /\ WithFailed(AfterChunk(t, k), k).pc \in {"settle", "chunk"}
      <4> HIDE DEF t
      <4>. QED BY <3>1 DEF AfterChunk, WithFailed, TaskType
    <3>3. Becomes(p, AfterChunk(t, k)) \/ Becomes(p, WithFailed(AfterChunk(t, k), k))
      BY <2>3 DEF ChunkDeleted, ChunkFailed
    <3>4. UNCHANGED <<client, session, boot, ready>>
      BY <2>3 DEF ChunkDeleted, ChunkFailed, conn
    <3>. QED BY <3>2, <3>3, <3>4, ReadyBecomes
  <2>. QED BY <1>4, <2>1, <2>2, <2>3 DEF Deleting
<1>5. ASSUME NEW w \in Workers, Working(w)
      PROVE  ScanReady'
  <2>0. w \in Procs /\ task[w] \in TaskType BY DEF TypeOK, Procs
  <2>1. CASE OwnIndexed(w) \/ ResolveFailed(w) \/ FetchFailed(w) \/ DisableChat(w)
    BY <1>00, <2>0, <2>1, ReadyBecomes
       DEF OwnIndexed, ResolveFailed, FetchFailed, DisableChat, conn
  <2>2. CASE Resolve(w)
    <3> DEFINE j == task[w]
               n == IF j.op = "drain" THEN ttl[j.chat] ELSE 0
               k == IF j.op = "drain" THEN 1 ELSE 0
               u == [j EXCEPT !.pc = "mark", !.ttl = n, !.pass = k]
               t == IF j.op = "drain" /\ ttl[j.chat] = 0 THEN NoTask ELSE u
    <3>1. Becomes(w, t) /\ j.pc = "resolve" /\ UNCHANGED <<client, session, boot, ready>>
      BY <2>2 DEF Resolve, conn
    <3>2. t = NoTask \/ t = u OBVIOUS
    <3>3. u.op = j.op /\ u.offset = j.offset /\ u.ctx = j.ctx BY <2>0 DEF TaskType
    <3> HIDE DEF u, t
    <3>4. ASSUME NEW x \in Workers PROVE task'[x] = task[x] \/ (x = w /\ task'[x] = t)
      <4>. task' = [task EXCEPT ![w] = t] BY <3>1 DEF Becomes
      <4>. QED BY <2>0 DEF TypeOK, Procs
    <3>. QED BY <1>00, <3>1, <3>2, <3>3, <3>4 DEF ScanReady
  <2>3. CASE MarkActive(w)
    <3>1. [task[w] EXCEPT !.pc = "fetch"].pc = "fetch" BY <2>0 DEF TaskType
    <3>. QED BY <2>0, <2>3, <3>1, ReadyBecomes DEF MarkActive, conn
  <2>4. CASE Fetch(w)
    <3> DEFINE f == Fetching(w)
               page == Found(f.chat, f.offset)
               u == [f EXCEPT !.pc = "page", !.page = page]
               t == IF page = {} THEN ScanDone(f) ELSE u
    <3>1. Becomes(w, t) /\ UNCHANGED <<client, session, boot, ready>>
      BY <2>4 DEF Fetch, conn
    <3>2. f \in TaskType BY FetchingType
    <3> HIDE DEF f, page
    <3>3. u.pc = "page" BY <3>2 DEF TaskType
    <3>4. ScanDone(f).pc \in {"delete", "idle"} BY <1>00, <3>2 DEF ScanDone, TaskType
    <3>5. t.pc \notin {"resolve", "mark"} BY <3>3, <3>4
    <3> HIDE DEF t
    <3>. QED BY <2>0, <3>1, <3>5, ReadyBecomes
  <2>5. ASSUME NEW m \in Ids, Callback(w, m)
        PROVE  ScanReady'
    <3>1. Called(task[w], m).pc \in {"fetch", "page"} BY <2>0 DEF Called, TaskType
    <3>. QED BY <2>0, <2>5, <3>1, ReadyBecomes DEF Callback, conn
  <2>. QED BY <1>5, <2>1, <2>2, <2>3, <2>4, <2>5 DEF Working
<1>6. CASE Operator
  <2>1. ASSUME NEW c \in Chats, AddPattern(c) \/ RemovePattern(c)
        PROVE  ScanReady'
    BY <1>0, <2>1 DEF AddPattern, RemovePattern, conn
  <2>2. ASSUME NEW c \in Chats, NEW w \in Workers, ClearTTL(w, c) \/ TurnOff(w, c)
        PROVE  ScanReady'
    <3>1. Job("off", "forget", c).pc = "forget" BY DEF Job, NoTask
    <3>. QED BY <2>2, <3>1, ReadyBecomes DEF ClearTTL, TurnOff, Procs, conn
  <2>3. ASSUME NEW c \in Chats, NEW w \in Workers, Purge(w, c) \/ \E n \in TTLs : ApplyTTL(w, c, n)
        PROVE  ScanReady'
    <3>1. PICK op \in {"enable", "drain"} : Becomes(w, Job(op, "resolve", c))
      BY <2>3 DEF Purge, ApplyTTL
    <3>. QED BY <2>3, <3>1, ReadyJob DEF Purge, ApplyTTL, Procs, conn
  <2>. QED BY <1>6, <2>1, <2>2, <2>3 DEF Operator
<1>7. CASE Sessions
  <2>1. CASE Start
    <3>. UNCHANGED task /\ client' = "up" /\ client = "down" BY <2>1 DEF Start
    <3>. QED BY DEF ScanReady
  <2>2. CASE ReadyList
    <3>1. boot /\ UNCHANGED <<task, client, session>> /\ client \in {"up", "down"}
      BY <2>2 DEF ReadyList, ColdCache
    <3>. QED BY <3>1 DEF ScanReady
  <2>3. CASE StopCancel
    <3>. budget'.stops = budget.stops + 1 /\ budget.stops \in Nat
      BY <2>3, NumberAssumption DEF StopCancel, TypeOK, BudgetType
    <3>. QED OBVIOUS
  <2>4. CASE StopHalt \/ Reset BY <2>4 DEF StopHalt, Reset, ColdCache
  <2>5. CASE Crash
    <3>. \A w \in Workers : task'[w].pc = "idle" BY <1>00, <2>5 DEF Crash, Procs
    <3>. QED BY <2>5 DEF Crash, ScanReady
  <2>6. ASSUME NEW w \in Workers, NEW c \in Chats, ReadySpawn(w, c)
        PROVE  ScanReady'
    <3> DEFINE t == [Job("enable", "resolve", c) EXCEPT !.ctx = session]
    <3>1. Becomes(w, t) /\ c \in ready /\ ready' \subseteq ready /\ UNCHANGED <<client, session, boot>>
      BY <2>6 DEF ReadySpawn
    <3>2. t.op = "enable" /\ t.offset = 0 /\ t.ctx = session BY DEF Job, NoTask
    <3> HIDE DEF t
    <3>3. ASSUME NEW x \in Workers PROVE task'[x] = task[x] \/ task'[x] = t
      BY <3>1 DEF Becomes, TypeOK, Procs
    <3>. QED BY <3>1, <3>2, <3>3 DEF ScanReady
  <2>. QED BY <1>7, <2>1, <2>2, <2>3, <2>4, <2>5, <2>6 DEF Sessions
<1>. QED BY <1>1, <1>2, <1>3, <1>4, <1>5, <1>6, <1>7 DEF Next

-----------------------------------------------------------------------------
(* What covers a message *)

\* While the client is up with stack s, task t will still call back for m of c.
Scanning(t, c, m, s) ==
    /\ t.chat = c
    /\ t.op \in {"enable", "drain"}
    /\ t.ctx \in {0, s}
    /\ \/ t.pc \in {"resolve", "mark"}
       \/ t.pc = "fetch" /\ t.offset = 0
       \/ t.pc = "fetch" /\ t.api = s /\ m < t.offset
       \/ t.pc = "page" /\ t.api = s /\ (m \in t.page \/ \A k \in t.page : m < k)

\* That is what WillScan says.
LEMMA ScanningIs ==
    ASSUME NEW c, NEW m, NEW w \in Workers, task[w] \in TaskType, client = "up"
    PROVE  WillScan(w, c, m) <=> Scanning(task[w], c, m, session)
<1> DEFINE j == task[w]
           a == [j EXCEPT !.api = session]
           n == IF j.op = "drain" THEN now ELSE 0
           b == [j EXCEPT !.api = session, !.at = n]
<1>1. a.api = session /\ a.ctx = j.ctx BY DEF TaskType
<1>2. b.api = session /\ b.ctx = j.ctx BY DEF TaskType
<1>3. Live(a) <=> j.ctx \in {0, session} BY <1>1 DEF Live
<1>4. Live(b) <=> j.ctx \in {0, session} BY <1>2 DEF Live
<1>5. Live(j) <=> j.api = session /\ j.ctx \in {0, session} BY DEF Live
<1>6. Fetching(w) = IF j.offset # 0 THEN j ELSE b BY DEF Fetching
<1> HIDE DEF a, b
<1>7. WillScan(w, c, m) <=>
        /\ j.chat = c
        /\ j.op \in {"enable", "drain"}
        /\ \/ j.pc \in {"resolve", "mark"} /\ Live(a)
           \/ j.pc = "fetch" /\ Live(Fetching(w)) /\ (j.offset = 0 \/ m < j.offset)
           \/ j.pc = "page" /\ Live(j) /\ (m \in j.page \/ \A k \in j.page : m < k)
  BY DEF WillScan, a
<1> HIDE DEF j
<1>. QED BY <1>3, <1>4, <1>5, <1>6, <1>7 DEF Scanning, j

\* And what it says of the next state.
LEMMA ScanningIsNext ==
    ASSUME NEW c, NEW m, NEW w \in Workers, task'[w] \in TaskType, client' = "up"
    PROVE  WillScan(w, c, m)' <=> Scanning(task'[w], c, m, session')
<1> DEFINE j == task'[w]
           a == [j EXCEPT !.api = session']
           n == IF j.op = "drain" THEN now' ELSE 0
           b == [j EXCEPT !.api = session', !.at = n]
<1>1. a.api = session' /\ a.ctx = j.ctx BY DEF TaskType
<1>2. b.api = session' /\ b.ctx = j.ctx BY DEF TaskType
<1>3. task[w]' = j OBVIOUS
<1>. QED BY <1>1, <1>2, <1>3 DEF WillScan, Scanning, Fetching, Live

\* A step of w that loses nothing of what its scan or handler owes to m.
Moves(w, c, m) ==
    /\ Scanning(task[w], c, m, session) =>
          Scanning(task'[w], c, m, session) \/ m \in index'[c]
    /\ WillRecord(w, c, m) => m \in index'[c]

\* A message that counted before the step and keeps what covers it.
Kept(c, m) ==
    /\ c \in active
    /\ ttl[c] > 0
    /\ m \in own[c]
    /\ patted \subseteq patted'
    /\ m \in index[c] \cup fresh[c] => m \in index'[c] \cup fresh'[c]
    /\ c \in ready => c \in ready'
    /\ \A w \in Workers : task'[w] = task[w] \/ Moves(w, c, m)

\* A step keeps Coverage when every message that counts after it is covered anew
\* or keeps what covers it.
LEMMA KeptStep ==
    ASSUME TypeOK, TypeOK', Coverage, UNCHANGED <<client, session, boot>>,
           \A c \in active' : \A m \in own'[c] \ Service :
              (ttl'[c] > 0 /\ client = "up") => (Covered(c, m)' \/ MayMatch(c, m)' \/ Kept(c, m))
    PROVE  Coverage'
<1> SUFFICES ASSUME client' = "up", NEW c \in active', ttl'[c] > 0, NEW m \in own'[c] \ Service
             PROVE  Covered(c, m)' \/ MayMatch(c, m)'
  BY DEF Coverage
<1>0. client = "up" OBVIOUS
<1>1. CASE Kept(c, m)
  <2>1. Covered(c, m) \/ MayMatch(c, m) BY <1>0, <1>1 DEF Coverage, Kept
  <2>2. CASE MayMatch(c, m) BY <1>1, <2>2 DEF MayMatch, Kept
  <2>3. CASE m \in index[c] \/ m \in fresh[c] \/ boot \/ c \in ready
    BY <1>1, <2>3 DEF Covered, Kept
  <2>4. ASSUME NEW w \in Workers, WillScan(w, c, m)
        PROVE  Covered(c, m)'
    <3>1. task[w] \in TaskType /\ task'[w] \in TaskType BY DEF TypeOK, Procs
    <3>2. Scanning(task[w], c, m, session) BY <1>0, <2>4, <3>1, ScanningIs
    <3>3. Scanning(task'[w], c, m, session') \/ m \in index'[c]
      BY <1>1, <3>2 DEF Kept, Moves
    <3>4. WillScan(w, c, m)' \/ m \in index'[c] BY <3>1, <3>3, ScanningIsNext
    <3>. QED BY <3>4 DEF Covered
  <2>5. ASSUME NEW w \in Workers, WillRecord(w, c, m)
        PROVE  Covered(c, m)'
    <3>1. task'[w] = task[w] \/ m \in index'[c] BY <1>1, <2>5 DEF Kept, Moves
    <3>2. WillRecord(w, c, m)' \/ m \in index'[c] BY <2>5, <3>1 DEF WillRecord
    <3>. QED BY <3>2 DEF Covered
  <2>. QED BY <2>1, <2>2, <2>3, <2>4, <2>5 DEF Covered
<1>. QED BY <1>0, <1>1

\* A goroutine that neither scans nor records owes nothing.
LEMMA BecomesMoves ==
    ASSUME TypeOK, NEW p \in Procs, NEW t, Becomes(p, t), NEW c, NEW m,
           task[p].pc \notin {"resolve", "mark", "fetch", "page", "record"}
    PROVE  \A w \in Workers : task'[w] = task[w] \/ Moves(w, c, m)
<1> SUFFICES ASSUME NEW w \in Workers PROVE task'[w] = task[w] \/ Moves(w, c, m)
  OBVIOUS
<1>1. CASE w = p BY <1>1 DEF Moves, Scanning, WillRecord
<1>2. CASE w # p BY <1>2 DEF Becomes, TypeOK, Procs
<1>. QED BY <1>1, <1>2

\* Telegram keeps Coverage: the update of a new message is on its way.
LEMMA TelegramCovers ==
    ASSUME TypeOK, TypeOK', Coverage, Telegram
    PROVE  Coverage'
<1>1. CASE Tick
  <2>. \A c \in active' : \A m \in own'[c] : ttl'[c] > 0 => Kept(c, m)
    BY <1>1 DEF Tick, Kept, conf, conn, mem
  <2>. QED BY <1>1, KeptStep DEF Tick, conn
<1>2. ASSUME NEW d \in Chats, NEW k \in Ids, Vanish(d, k)
      PROVE  Coverage'
  <2>. \A c \in active' : \A m \in own'[c] : ttl'[c] > 0 => Kept(c, m)
    BY <1>2 DEF Vanish, Kept, conf, conn, mem, TypeOK
  <2>. QED BY <1>2, KeptStep DEF Vanish, conn
<1>3. ASSUME NEW d \in Chats, NEW k \in Ids, Send(d, k)
      PROVE  Coverage'
  <2>1. ASSUME NEW c \in active', NEW m \in own'[c], ttl'[c] > 0
        PROVE  Covered(c, m)' \/ Kept(c, m)
    <3>1. CASE c = d /\ m = k BY <1>3, <3>1 DEF Send, Covered, TypeOK
    <3>2. CASE ~(c = d /\ m = k)
      BY <1>3, <2>1, <3>2 DEF Send, Kept, conf, conn, mem, TypeOK
    <3>. QED BY <3>1, <3>2
  <2>. QED BY <1>3, <2>1, KeptStep DEF Send, conn
<1>. QED BY <1>1, <1>2, <1>3 DEF Telegram

\* The update handlers keep it: a message that is not indexed matches a pattern,
\* is in a chat without a TTL, or has disappeared.
LEMMA UpdatesCover ==
    ASSUME ConfirmedInv, TypeOK', Coverage, Updates
    PROVE  Coverage'
<1>0. TypeOK /\ RightfulInv BY DEF ConfirmedInv, RightfulInv
<1>1. ASSUME NEW d \in Chats, NEW k \in Ids, OwnService(d, k)
      PROVE  Coverage'
  <2>. \A c \in active' : \A m \in own'[c] \ Service : ttl'[c] > 0 => Kept(c, m)
    BY <1>0, <1>1 DEF OwnService, Kept, conf, conn, mem, TypeOK
  <2>. QED BY <1>0, <1>1, KeptStep DEF OwnService, conn
<1>2. ASSUME NEW d \in Chats, NEW k \in Ids, OwnIgnored(d, k)
      PROVE  Coverage'
  <2>. \A c \in active' : \A m \in own'[c] \ Service : ttl'[c] > 0 => Kept(c, m)
    BY <1>0, <1>2 DEF OwnIgnored, Kept, conf, conn, mem, TypeOK
  <2>. QED BY <1>0, <1>2, KeptStep DEF OwnIgnored, conn
<1>3. ASSUME NEW d \in Chats, NEW k \in Ids, OnDeleted(d, k)
      PROVE  Coverage'
  <2>1. ASSUME NEW c \in active', NEW m \in own'[c] \ Service, ttl'[c] > 0
        PROVE  Kept(c, m)
    <3>1. /\ c \in Chats /\ c \in active /\ ttl[c] > 0 /\ m \in own[c]
          /\ UNCHANGED <<conf, fresh, ready, task>>
      BY <1>0, <1>3, <2>1 DEF OnDeleted, conf, conn, TypeOK
    <3>2. KeepStep BY <1>3, OnDeletedKeeps
    <3>3. m \in index[c] => m \in index'[c] BY <2>1, <3>1, <3>2 DEF KeepStep
    <3>. QED BY <3>1, <3>3 DEF Kept, conf
  <2>. QED BY <1>0, <1>3, <2>1, KeptStep DEF OnDeleted, conn
<1>4. ASSUME NEW d \in Chats, NEW k \in Ids, NEW w \in Workers, OwnMatched(w, d, k)
      PROVE  Coverage'
  <2>1. PICK t : Becomes(w, t) BY <1>4 DEF OwnMatched
  <2>2. ASSUME NEW c \in active', NEW m \in own'[c] \ Service, ttl'[c] > 0
        PROVE  MayMatch(c, m)' \/ Kept(c, m)
    <3>1. CASE c = d /\ m = k
      BY <1>0, <1>4, <3>1 DEF OwnMatched, Matches, MayMatch, RightfulInv, ConfUsed, conf
    <3>2. CASE ~(c = d /\ m = k)
      <4>1. \A x \in Workers : task'[x] = task[x] \/ Moves(x, c, m)
        BY <1>0, <1>4, <2>1, BecomesMoves DEF OwnMatched, Idle, Procs
      <4>. QED BY <1>0, <1>4, <2>2, <3>2, <4>1 DEF OwnMatched, Kept, conf, conn, mem, TypeOK
    <3>. QED BY <3>1, <3>2
  <2>. QED BY <1>0, <1>4, <2>2, KeptStep DEF OwnMatched, conn
<1>5. ASSUME NEW d \in Chats, NEW k \in Ids, NEW w \in Workers, OwnRecorded(w, d, k)
      PROVE  Coverage'
  <2> DEFINE t == [Job("own", "record", d) EXCEPT !.ids = {k}]
  <2>0. Becomes(w, t) BY <1>5 DEF OwnRecorded
  <2>1. t.pc = "record" /\ t.chat = d /\ t.ids = {k} BY DEF Job, NoTask
  <2> HIDE DEF t
  <2>2. ASSUME NEW c \in active', NEW m \in own'[c] \ Service, ttl'[c] > 0
        PROVE  Covered(c, m)' \/ Kept(c, m)
    <3>1. CASE c = d /\ m = k
      <4>. task'[w] = t BY <1>0, <2>0 DEF Becomes, TypeOK, Procs
      <4>. QED BY <2>1, <3>1 DEF Covered, WillRecord
    <3>2. CASE ~(c = d /\ m = k)
      <4>1. \A x \in Workers : task'[x] = task[x] \/ Moves(x, c, m)
        BY <1>0, <1>5, <2>0, BecomesMoves DEF OwnRecorded, Idle, Procs
      <4>. QED BY <1>0, <1>5, <2>2, <3>2, <4>1
                  DEF OwnRecorded, Kept, conf, conn, mem, TypeOK
    <3>. QED BY <3>1, <3>2
  <2>. QED BY <1>0, <1>5, <2>2, KeptStep DEF OwnRecorded, conn
<1>. QED BY <1>1, <1>2, <1>3, <1>4, <1>5 DEF Updates

\* The sweep loop touches neither the index nor a scan.
LEMMA SweepCovers ==
    ASSUME TypeOK, TypeOK', Coverage, Sweep
    PROVE  Coverage'
<1>1. CASE SweepTick \/ LoopExit
  <2>. \A c \in active' : \A m \in own'[c] : ttl'[c] > 0 => Kept(c, m)
    BY <1>1 DEF SweepTick, LoopExit, Kept, server, conf, conn, mem
  <2>. QED BY <1>1, KeptStep DEF SweepTick, LoopExit, conn
<1>2. ASSUME NEW d \in Chats, SweepNext(d)
      PROVE  Coverage'
  <2>1. PICK t : Becomes(Sweeper, t) BY <1>2 DEF SweepNext
  <2>2. ASSUME NEW c \in active', NEW m \in own'[c], ttl'[c] > 0
        PROVE  Kept(c, m)
    <3>1. \A x \in Workers : task'[x] = task[x] \/ Moves(x, c, m)
      BY <1>2, <2>1, BecomesMoves DEF SweepNext, Idle, Procs
    <3>. QED BY <1>2, <2>2, <3>1 DEF SweepNext, Kept, server, conf, conn, mem
  <2>. QED BY <1>2, <2>2, KeptStep DEF SweepNext, conn
<1>. QED BY <1>1, <1>2 DEF Sweep

\* Deletes keep it: what leaves the index without its chat has disappeared.
LEMMA DeletingCovers ==
    ASSUME ConfirmedInv, budget.stops = 0, TypeOK', Coverage, NEW p \in Procs, Deleting(p)
    PROVE  Coverage'
<1>0. TypeOK BY DEF ConfirmedInv, RightfulInv
<1>1. PICK t : Becomes(p, t)
  BY DEF Deleting, DeleteDropped, DeleteRefused, Settle, ChunkDeleted, ChunkFailed
<1>2. /\ task[p].pc \in {"delete", "chunk", "settle"}
      /\ UNCHANGED <<conf, conn, fresh, active>>
  BY
     DEF Deleting, DeleteDropped, DeleteRefused, Settle, ChunkDeleted, ChunkFailed, MaySend, server, mem
<1>3. \A c \in Chats : own'[c] \subseteq own[c]
  <2>1. CASE DeleteDropped(p) \/ DeleteRefused(p) \/ Settle(p)
    BY <2>1 DEF DeleteDropped, DeleteRefused, Settle, server
  <2>2. ASSUME NEW k \in SUBSET Ids, ChunkDeleted(p, k) \/ ChunkFailed(p, k)
        PROVE  \A c \in Chats : own'[c] \subseteq own[c]
    <3>. own' = own \/ own' = Without(own, Box(Sending(p).chat), k)
      BY <2>2 DEF ChunkDeleted, ChunkFailed
    <3>. QED BY <1>0 DEF Without, TypeOK
  <2>. QED BY <2>1, <2>2 DEF Deleting
<1>4. KeepStep \/ \A c \in Chats : index[c] \subseteq index'[c]
  <2>1. CASE Settle(p)
    <3>. Next BY DEF Next
    <3>. QED BY <2>1, KeepNext DEF vars, Settle, KeepStep, mem
  <2>2. CASE ~Settle(p)
    BY <2>2 DEF Deleting, DeleteDropped, DeleteRefused, ChunkDeleted, ChunkFailed, mem
  <2>. QED BY <2>1, <2>2
<1>5. ASSUME NEW c \in active', NEW m \in own'[c], ttl'[c] > 0
      PROVE  Kept(c, m)
  <2>1. \A x \in Workers : task'[x] = task[x] \/ Moves(x, c, m)
    BY <1>0, <1>1, <1>2, BecomesMoves
  <2>2. c \in Chats /\ c \in active /\ ttl[c] > 0 /\ m \in own[c] /\ UNCHANGED <<conf, fresh, ready>>
    BY <1>0, <1>2, <1>3, <1>5 DEF conf, conn, TypeOK
  <2>3. m \in index[c] => m \in index'[c] BY <1>4, <1>5, <2>2 DEF KeepStep
  <2>. QED BY <2>1, <2>2, <2>3 DEF Kept, conf
<1>. QED BY <1>0, <1>2, <1>5, KeptStep DEF conn

\* The operator keeps it: a TTL that is switched on comes with a scan.
LEMMA OperatorCovers ==
    ASSUME TypeOK, TypeOK', Coverage, Operator
    PROVE  Coverage'
<1>1. ASSUME NEW d \in Chats, AddPattern(d) \/ RemovePattern(d)
      PROVE  Coverage'
  <2>. \A c \in active' : \A m \in own'[c] : ttl'[c] > 0 => Kept(c, m)
    BY <1>1 DEF AddPattern, RemovePattern, Kept, server, conn, mem
  <2>. QED BY <1>1, KeptStep DEF AddPattern, RemovePattern, conn
<1>2. ASSUME NEW d \in Chats, NEW w \in Workers, ClearTTL(w, d) \/ TurnOff(w, d) \/ Purge(w, d)
      PROVE  Coverage'
  <2>1. PICK t : Becomes(w, t) BY <1>2 DEF ClearTTL, TurnOff, Purge
  <2>2. task[w].pc = "idle" BY <1>2 DEF ClearTTL, TurnOff, Purge, Idle
  <2>3. /\ UNCHANGED <<server, used, patted, conn, mem>>
        /\ \A c \in Chats : ttl'[c] > 0 => ttl'[c] = ttl[c]
    BY <1>2 DEF ClearTTL, TurnOff, Purge, conf, TypeOK
  <2>4. ASSUME NEW c \in active', NEW m \in own'[c], ttl'[c] > 0
        PROVE  Kept(c, m)
    <3>1. \A x \in Workers : task'[x] = task[x] \/ Moves(x, c, m)
      BY <2>1, <2>2, BecomesMoves DEF Procs
    <3>. QED BY <2>3, <2>4, <3>1 DEF Kept, server, conn, mem, TypeOK
  <2>. QED BY <2>3, <2>4, KeptStep DEF conn
<1>3. ASSUME NEW d \in Chats, NEW w \in Workers, NEW n \in TTLs, ApplyTTL(w, d, n)
      PROVE  Coverage'
  <2> DEFINE t == Job(IF ttl[d] = 0 THEN "drain" ELSE "enable", "resolve", d)
  <2>1. Becomes(w, t) /\ task[w].pc = "idle" BY <1>3 DEF ApplyTTL, Idle
  <2>2. t.pc = "resolve" /\ t.chat = d /\ t.ctx = 0 /\ t.op \in {"enable", "drain"}
    BY DEF Job, NoTask
  <2> HIDE DEF t
  <2>3. ttl' = [ttl EXCEPT ![d] = n] /\ UNCHANGED <<server, patted, conn, mem>>
    BY <1>3 DEF ApplyTTL
  <2>4. ASSUME NEW c \in active', NEW m \in own'[c], ttl'[c] > 0, client = "up"
        PROVE  Covered(c, m)' \/ Kept(c, m)
    <3>1. CASE c = d
      <4>1. task'[w] = t BY <2>1 DEF Becomes, TypeOK, Procs
      <4>2. Scanning(task'[w], c, m, session') BY <2>2, <3>1, <4>1 DEF Scanning
      <4>3. task'[w] \in TaskType /\ client' = "up" BY <2>3, <2>4 DEF TypeOK, Procs, conn
      <4>4. WillScan(w, c, m)' BY <4>2, <4>3, ScanningIsNext
      <4>. QED BY <4>4 DEF Covered
    <3>2. CASE c # d
      <4>1. \A x \in Workers : task'[x] = task[x] \/ Moves(x, c, m)
        BY <2>1, BecomesMoves DEF Procs
      <4>. QED BY <2>3, <2>4, <3>2, <4>1 DEF Kept, server, conn, mem, TypeOK
    <3>. QED BY <3>1, <3>2
  <2>. QED BY <2>3, <2>4, KeptStep DEF conn
<1>. QED BY <1>1, <1>2, <1>3 DEF Operator

\* The life of the client keeps it: onReady scans every chat that has a TTL.
LEMMA SessionsCover ==
    ASSUME TypeOK, TypeOK', Coverage, Sessions
    PROVE  Coverage'
<1>1. CASE Start BY <1>1 DEF Start, Coverage, Covered
<1>2. CASE ReadyList
  <2>1. UNCHANGED <<server, conf, client, session, mem, task>> /\ ready' = ReadyChats
    BY <1>2 DEF ReadyList
  <2>. QED BY <2>1 DEF Coverage, Covered, ReadyChats, conf, mem, TypeOK
<1>3. CASE StopCancel \/ StopHalt \/ Reset \/ Crash
  BY <1>3 DEF StopCancel, StopHalt, Reset, Crash, Coverage
<1>4. ASSUME NEW w \in Workers, NEW d \in Chats, ReadySpawn(w, d)
      PROVE  Coverage'
  <2> DEFINE t == [Job("enable", "resolve", d) EXCEPT !.ctx = session]
  <2>1. Becomes(w, t) /\ task[w].pc = "idle" BY <1>4 DEF ReadySpawn, Idle
  <2>2. t.pc = "resolve" /\ t.chat = d /\ t.ctx = session /\ t.op = "enable"
    BY DEF Job, NoTask
  <2> HIDE DEF t
  <2>3. ready' = ready \ {d} /\ UNCHANGED <<server, conf, client, session, boot, mem>>
    BY <1>4 DEF ReadySpawn
  <2>4. ASSUME NEW c \in active', NEW m \in own'[c], ttl'[c] > 0, client = "up"
        PROVE  Covered(c, m)' \/ Kept(c, m)
    <3>1. CASE c = d
      <4>1. task'[w] = t BY <2>1 DEF Becomes, TypeOK, Procs
      <4>2. Scanning(task'[w], c, m, session') BY <2>2, <2>3, <3>1, <4>1 DEF Scanning
      <4>3. task'[w] \in TaskType /\ client' = "up" BY <2>3, <2>4 DEF TypeOK, Procs
      <4>4. WillScan(w, c, m)' BY <4>2, <4>3, ScanningIsNext
      <4>. QED BY <4>4 DEF Covered
    <3>2. CASE c # d
      <4>1. \A x \in Workers : task'[x] = task[x] \/ Moves(x, c, m)
        BY <2>1, BecomesMoves DEF Procs
      <4>. QED BY <2>3, <2>4, <3>2, <4>1 DEF Kept, server, conf, mem, TypeOK
    <3>. QED BY <3>1, <3>2
  <2>. QED BY <2>3, <2>4, KeptStep
<1>. QED BY <1>1, <1>2, <1>3, <1>4 DEF Sessions

-----------------------------------------------------------------------------
(* The steps of a scan *)

\* A goroutine that takes a step leaves the others as they are.
LEMMA OthersMove ==
    ASSUME TypeOK, NEW w \in Workers, NEW t, Becomes(w, t), NEW c, NEW m, Moves(w, c, m)
    PROVE  \A x \in Workers : task'[x] = task[x] \/ Moves(x, c, m)
BY DEF Becomes, TypeOK, Procs

\* An RPC of the stack that runs fails only by a fault.
LEMMA LiveFails ==
    ASSUME TypeOK, NEW t, Fails(t), Live(t)
    PROVE  budget'.faults # 0
BY DEF Fails, TypeOK, BudgetType

\* A step of a scan that touches nothing but its task and the budget.
LEMMA ScanOnly ==
    ASSUME TypeOK, TypeOK', Coverage, NEW w \in Workers, NEW t, Becomes(w, t),
           UNCHANGED <<server, conf, conn, mem>>,
           \A c \in active : \A m \in own[c] \ Service :
               (ttl[c] > 0 /\ client = "up") => Moves(w, c, m)
    PROVE  Coverage'
<1>1. ASSUME NEW c \in active', NEW m \in own'[c] \ Service, ttl'[c] > 0, client = "up"
      PROVE  Kept(c, m)
  <2>1. c \in active /\ m \in own[c] \ Service /\ ttl[c] > 0 BY <1>1 DEF server, conf, mem
  <2>2. \A x \in Workers : task'[x] = task[x] \/ Moves(x, c, m) BY <1>1, <2>1, OthersMove
  <2>. QED BY <2>1, <2>2 DEF Kept, server, conf, conn, mem
<1>. QED BY <1>1, KeptStep DEF conn

\* A resolved scan goes on, unless the TTL is off.
LEMMA ResolveCovers ==
    ASSUME TypeOK, TypeOK', Coverage, NEW w \in Workers, Resolve(w)
    PROVE  Coverage'
<1> DEFINE j == task[w]
           n == IF j.op = "drain" THEN ttl[j.chat] ELSE 0
           k == IF j.op = "drain" THEN 1 ELSE 0
           u == [j EXCEPT !.pc = "mark", !.ttl = n, !.pass = k]
           t == IF j.op = "drain" /\ ttl[j.chat] = 0 THEN NoTask ELSE u
<1>0. w \in Procs /\ j \in TaskType BY DEF TypeOK, Procs
<1>1. Becomes(w, t) /\ j.pc = "resolve" /\ UNCHANGED <<server, conf, conn, mem>>
  BY DEF Resolve
<1>2. u.pc = "mark" /\ u.op = j.op /\ u.chat = j.chat /\ u.ctx = j.ctx BY <1>0 DEF TaskType
<1> HIDE DEF u
<1>3. task'[w] = t
  <2> HIDE DEF t, j
  <2>. QED BY <1>0, <1>1 DEF Becomes, TypeOK
<1>4. ASSUME NEW c \in active, NEW m \in own[c] \ Service, ttl[c] > 0
      PROVE  Moves(w, c, m)
  <2>1. CASE j.chat = c
    <3>. t = u BY <1>4, <2>1
    <3>. QED BY <1>1, <1>2, <1>3 DEF Moves, Scanning, WillRecord, conn
  <2>2. CASE j.chat # c BY <2>2 DEF Moves, Scanning, WillRecord
  <2>. QED BY <2>1, <2>2
<1> HIDE DEF t
<1>. QED BY <1>1, <1>4, ScanOnly

\* A scan of the stack that runs does not fail without a fault.
LEMMA FailedCovers ==
    ASSUME TypeOK, TypeOK', Coverage, budget'.faults = 0,
           NEW w \in Workers, ResolveFailed(w) \/ FetchFailed(w)
    PROVE  Coverage'
<1> DEFINE j == task[w]
           a == [j EXCEPT !.api = session]
           n == IF j.op = "drain" THEN now ELSE 0
           b == [j EXCEPT !.api = session, !.at = n]
<1>0. w \in Procs /\ j \in TaskType BY DEF TypeOK, Procs
<1>1. Becomes(w, NoTask) /\ UNCHANGED <<server, conf, conn, mem>>
  BY DEF ResolveFailed, FetchFailed
<1>2. a.api = session /\ a.ctx = j.ctx BY <1>0 DEF TaskType
<1>3. b.api = session /\ b.ctx = j.ctx BY <1>0 DEF TaskType
<1>4. Fetching(w) = IF j.offset # 0 THEN j ELSE b BY DEF Fetching
<1>5. ASSUME NEW c \in active, NEW m \in own[c] \ Service, client = "up"
      PROVE  Moves(w, c, m)
  <2>1. j.pc \in {"resolve", "fetch"} BY DEF ResolveFailed, FetchFailed
  <2>2. ASSUME Scanning(j, c, m, session) PROVE FALSE
    <3>1. CASE j.pc = "resolve"
      <4>1. Fails(a) BY <3>1 DEF ResolveFailed, FetchFailed
      <4>2. Live(a) BY <1>2, <1>5, <2>2 DEF Live, Scanning
      <4>. QED BY <4>1, <4>2, LiveFails
    <3>2. CASE j.pc = "fetch"
      <4>1. Fails(Fetching(w)) BY <3>2 DEF ResolveFailed, FetchFailed
      <4> HIDE DEF b
      <4>2. Live(Fetching(w)) BY <1>3, <1>4, <1>5, <2>2, <3>2 DEF Live, Scanning
      <4>. QED BY <4>1, <4>2, LiveFails
    <3>. QED BY <2>1, <3>1, <3>2
  <2>. QED BY <2>1, <2>2 DEF Moves, WillRecord
<1>. QED BY <1>1, <1>5, ScanOnly

\* A chat that becomes active has the scan that made it so ahead of it.
LEMMA MarkCovers ==
    ASSUME TypeOK, TypeOK', Coverage, ScanReady, NEW w \in Workers, MarkActive(w)
    PROVE  Coverage'
<1> DEFINE j == task[w]
           t == [j EXCEPT !.pc = "fetch"]
<1>0. w \in Procs /\ j \in TaskType BY DEF TypeOK, Procs
<1>1. Becomes(w, t) /\ UNCHANGED <<server, conf, conn, index>> /\ active' = active \cup {j.chat}
  BY DEF MarkActive
<1>2. /\ t.pc = "fetch" /\ t.chat = j.chat /\ t.op = j.op /\ t.ctx = j.ctx /\ t.offset = j.offset
      /\ j.pc = "mark"
  BY <1>0 DEF TaskType, MarkActive
<1> HIDE DEF t
<1>3. task'[w] = t BY <1>0, <1>1 DEF Becomes, TypeOK
<1>4. ASSUME NEW c \in active', NEW m \in own'[c] \ Service, ttl'[c] > 0, client = "up"
      PROVE  Covered(c, m)' \/ Kept(c, m)
  <2>1. CASE c = j.chat
    <3>1. Scanning(t, c, m, session') BY <1>1, <1>2, <2>1 DEF Scanning, ScanReady, conn
    <3>2. task'[w] \in TaskType /\ client' = "up" BY <1>0, <1>1, <1>4 DEF TypeOK, conn
    <3>3. WillScan(w, c, m)' BY <1>3, <3>1, <3>2, ScanningIsNext
    <3>. QED BY <3>3 DEF Covered
  <2>2. CASE c # j.chat
    <3>1. Moves(w, c, m) BY <2>2 DEF Moves, Scanning, WillRecord
    <3>2. \A x \in Workers : task'[x] = task[x] \/ Moves(x, c, m) BY <1>1, <3>1, OthersMove
    <3>. QED BY <1>1, <1>4, <2>2, <3>2 DEF Kept, server, conf, conn
  <2>. QED BY <2>1, <2>2
<1>. QED BY <1>1, <1>4, KeptStep DEF conn

\* A page holds the message that is looked for, or the scan goes on towards it.
LEMMA FetchCovers ==
    ASSUME TypeOK, TypeOK', Coverage, Cardinality(Ids) <= SearchWindow,
           Cardinality(Service) < PageLimit, NEW w \in Workers, Fetch(w)
    PROVE  Coverage'
<1> DEFINE f == Fetching(w)
           page == Found(f.chat, f.offset)
           u == [f EXCEPT !.pc = "page", !.page = page]
           t == IF page = {} THEN ScanDone(f) ELSE u
           j == task[w]
           n == IF j.op = "drain" THEN now ELSE 0
           b == [j EXCEPT !.api = session, !.at = n]
<1>0. w \in Procs /\ j \in TaskType /\ f \in TaskType BY FetchingType DEF TypeOK, Procs
<1>1. Becomes(w, t) /\ UNCHANGED <<server, conf, conn, mem>> /\ f.pc = "fetch" /\ Live(f)
  BY DEF Fetch
<1>2. /\ b.pc = j.pc /\ b.chat = j.chat /\ b.op = j.op /\ b.ctx = j.ctx /\ b.offset = j.offset
  BY <1>0 DEF TaskType
<1>3. f = IF j.offset # 0 THEN j ELSE b BY DEF Fetching
<1> HIDE DEF b
<1>4. /\ f.chat = j.chat /\ f.op = j.op /\ f.ctx = j.ctx /\ f.offset = j.offset /\ j.pc = "fetch"
      /\ f.api = session /\ f.chat \in Chats /\ f.offset \in Ids \cup {0}
  BY <1>0, <1>1, <1>2, <1>3 DEF Live, TaskType
<1> HIDE DEF f
<1>5. u.pc = "page" /\ u.page = page /\ u.chat = f.chat /\ u.op = f.op /\ u.ctx = f.ctx /\ u.api = f.api
  <2> HIDE DEF page
  <2>. QED BY <1>0 DEF TaskType
<1> HIDE DEF u
<1>6. task'[w] = t
  <2> HIDE DEF t
  <2>. QED BY <1>0, <1>1 DEF Becomes, TypeOK
<1>7. ASSUME NEW c \in active, NEW m \in own[c] \ Service
      PROVE  Moves(w, c, m)
  <2> SUFFICES ASSUME Scanning(j, c, m, session)
               PROVE  Scanning(task'[w], c, m, session)
    BY <1>4 DEF Moves, WillRecord
  <2>1. c \in Chats /\ j.chat = c /\ (f.offset = 0 \/ m < f.offset)
    BY <1>4 DEF Scanning, TypeOK
  <2>2. \/ m \in page
        \/ page # {} /\ \A k \in page : m < k
    BY <1>4, <2>1, PageReaches
  <2>3. page # {} BY <2>2
  <2>4. task'[w] = u BY <1>6, <2>3
  <2> HIDE DEF page, t
  <2>. QED BY <1>4, <1>5, <2>1, <2>2, <2>4 DEF Scanning
<1> HIDE DEF t
<1>. QED BY <1>1, <1>7, ScanOnly

\* The callback indexes its message; what is older is still to come.
LEMMA CallbackCovers ==
    ASSUME TypeOK, TypeOK', Coverage, NEW w \in Workers, NEW k \in Ids, Callback(w, k)
    PROVE  Coverage'
<1> DEFINE j == task[w]
           old == IF j.op = "drain" THEN k ELSE 0
           ids == IF j.op = "drain" /\ Outlived(j.chat, k, j.ttl, j.at) THEN j.ids \cup {k} ELSE j.ids
           pc == IF j.page = {k} THEN "fetch" ELSE "page"
           t == [j EXCEPT !.page = j.page \ {k}, !.offset = k, !.oldest = old, !.ids = ids, !.pc = pc]
<1>0. w \in Procs /\ j \in TaskType /\ j.chat \in Chats BY DEF TypeOK, Procs, TaskType
<1>1. /\ Becomes(w, t) /\ UNCHANGED <<server, conf, conn, active>> /\ j.pc = "page"
      /\ k \in j.page /\ \A x \in j.page : x <= k
      /\ index' = [index EXCEPT ![j.chat] = @ \cup {k}]
  BY DEF Callback, Called, NextOffset
<1> HIDE DEF ids, old
<1>2. /\ t.pc = pc /\ t.page = j.page \ {k} /\ t.offset = k /\ t.chat = j.chat /\ t.op = j.op
      /\ t.ctx = j.ctx /\ t.api = j.api
  <2> HIDE DEF pc
  <2>. QED BY <1>0 DEF TaskType
<1> HIDE DEF t
<1>3. task'[w] = t BY <1>0, <1>1 DEF Becomes, TypeOK
<1>4. ASSUME NEW c \in active, NEW m \in own[c]
      PROVE  Moves(w, c, m)
  <2> SUFFICES ASSUME Scanning(j, c, m, session), ~(m \in index'[c])
               PROVE  Scanning(t, c, m, session)
    BY <1>1, <1>3 DEF Moves, WillRecord
  <2>1. j.chat = c /\ c \in Chats /\ j.api = session /\ j.ctx \in {0, session} /\ j.op \in {"enable", "drain"}
    BY <1>0, <1>1 DEF Scanning
  <2>2. m # k BY <1>1, <2>1 DEF TypeOK
  <2>3. m \in j.page \/ \A x \in j.page : m < x BY <1>1 DEF Scanning
  <2>4. CASE m \in j.page
    <3>. pc = "page" /\ m \in t.page BY <1>2, <2>2, <2>4
    <3>. QED BY <1>2, <2>1 DEF Scanning
  <2>5. CASE \A x \in j.page : m < x
    <3>1. m < k /\ \A x \in t.page : m < x BY <1>1, <1>2, <2>5
    <3>2. pc = "fetch" \/ pc = "page" OBVIOUS
    <3> HIDE DEF pc, j
    <3>. QED BY <1>2, <2>1, <3>1, <3>2 DEF Scanning
  <2>. QED BY <2>3, <2>4, <2>5
<1>5. ASSUME NEW c \in active', NEW m \in own'[c], ttl'[c] > 0
      PROVE  Kept(c, m)
  <2>1. c \in active /\ m \in own[c] /\ c \in Chats BY <1>1, <1>5 DEF server, TypeOK
  <2>2. \A x \in Workers : task'[x] = task[x] \/ Moves(x, c, m)
    BY <1>1, <1>4, <2>1, OthersMove
  <2>3. index[c] \subseteq index'[c] BY <1>0, <1>1, <2>1 DEF TypeOK
  <2>. QED BY <1>1, <1>5, <2>1, <2>2, <2>3 DEF Kept, server, conf, conn
<1>. QED BY <1>1, <1>5, KeptStep DEF conn

\* Every step of a scan, of a handler and of DisableChat keeps Coverage.
LEMMA WorkingCovers ==
    ASSUME TypeOK, TypeOK', Coverage, ScanReady, budget'.faults = 0,
           Cardinality(Ids) <= SearchWindow, Cardinality(Service) < PageLimit,
           NEW w \in Workers, Working(w)
    PROVE  Coverage'
<1>0. w \in Procs /\ task[w] \in TaskType /\ task[w].chat \in Chats
  BY DEF TypeOK, Procs, TaskType
<1>1. CASE OwnIndexed(w)
  <2>1. /\ Becomes(w, NoTask) /\ UNCHANGED <<server, conf, conn, active>> /\ task[w].pc = "record"
        /\ index' = [index EXCEPT ![task[w].chat] = @ \cup task[w].ids]
    BY <1>1 DEF OwnIndexed
  <2>2. ASSUME NEW c \in active', NEW m \in own'[c], ttl'[c] > 0
        PROVE  Kept(c, m)
    <3>1. c \in active /\ m \in own[c] /\ c \in Chats BY <2>1, <2>2 DEF server, TypeOK
    <3>2. Moves(w, c, m) BY <1>0, <2>1 DEF Moves, Scanning, WillRecord, TypeOK
    <3>3. \A x \in Workers : task'[x] = task[x] \/ Moves(x, c, m) BY <2>1, <3>2, OthersMove
    <3>4. index[c] \subseteq index'[c] BY <1>0, <2>1, <3>1 DEF TypeOK
    <3>. QED BY <2>1, <2>2, <3>1, <3>3, <3>4 DEF Kept, server, conf, conn
  <2>. QED BY <2>1, <2>2, KeptStep DEF conn
<1>2. CASE Resolve(w) BY <1>2, ResolveCovers
<1>3. CASE ResolveFailed(w) \/ FetchFailed(w) BY <1>3, FailedCovers
<1>4. CASE MarkActive(w) BY <1>4, MarkCovers
<1>5. CASE Fetch(w) BY <1>5, FetchCovers
<1>6. CASE DisableChat(w)
  <2>1. /\ Becomes(w, NoTask) /\ UNCHANGED <<server, conf, conn>> /\ task[w].pc = "forget"
        /\ index' = [index EXCEPT ![task[w].chat] = {}]
        /\ active' = active \ {task[w].chat}
    BY <1>6 DEF DisableChat, NoLongerActive
  <2>2. ASSUME NEW c \in active', NEW m \in own'[c], ttl'[c] > 0
        PROVE  Kept(c, m)
    <3>1. c \in active /\ m \in own[c] /\ c \in Chats /\ c # task[w].chat
      BY <2>1, <2>2 DEF server, TypeOK
    <3>2. \A x \in Workers : task'[x] = task[x] \/ Moves(x, c, m)
      BY <1>0, <2>1, BecomesMoves
    <3>3. index'[c] = index[c] BY <1>0, <2>1, <3>1 DEF TypeOK
    <3>. QED BY <2>1, <2>2, <3>1, <3>2, <3>3 DEF Kept, server, conf, conn
  <2>. QED BY <2>1, <2>2, KeptStep DEF conn
<1>7. ASSUME NEW k \in Ids, Callback(w, k)
      PROVE  Coverage'
  BY <1>7, CallbackCovers
<1>. QED BY <1>1, <1>2, <1>3, <1>4, <1>5, <1>6, <1>7 DEF Working

-----------------------------------------------------------------------------
(* The theorem *)

\* A fault that has happened stays counted.
LEMMA FaultsStep ==
    ASSUME TypeOK, Next, budget'.faults = 0
    PROVE  budget.faults = 0
<1>0. budget.faults \in Nat BY NumberAssumption DEF TypeOK, BudgetType
<1>1. CASE UNCHANGED budget BY <1>1
<1>2. CASE Command BY <1>2 DEF Command, TypeOK, BudgetType
<1>3. CASE budget' = [budget EXCEPT !.faults = @ + 1]
  BY <1>0, <1>3 DEF TypeOK, BudgetType
<1>4. CASE StopCancel \/ Crash BY <1>4 DEF StopCancel, Crash, TypeOK, BudgetType
<1>5. ASSUME NEW t, Fails(t) PROVE budget.faults = 0
  BY <1>1, <1>3, <1>5 DEF Fails
<1>6. CASE Telegram BY <1>1, <1>6 DEF Telegram, Tick, Send, Vanish
<1>7. CASE Updates
  BY <1>1, <1>7 DEF Updates, OwnService, OwnIgnored, OnDeleted, OwnMatched, OwnRecorded
<1>8. CASE Sweep BY <1>1, <1>8 DEF Sweep, SweepTick, LoopExit, SweepNext
<1>9. ASSUME NEW p \in Procs, Deleting(p)
      PROVE  budget.faults = 0
  <2>1. UNCHANGED budget \/ \E k \in SUBSET Ids : ChunkFailed(p, k)
    BY <1>9 DEF Deleting, DeleteDropped, DeleteRefused, Settle, ChunkDeleted
  <2>. QED BY <1>1, <1>5, <2>1 DEF ChunkFailed
<1>10. ASSUME NEW w \in Workers, Working(w)
       PROVE  budget.faults = 0
  <2>1. UNCHANGED budget \/ ResolveFailed(w) \/ FetchFailed(w)
    BY <1>10 DEF Working, OwnIndexed, Resolve, MarkActive, Fetch, DisableChat, Callback
  <2>. QED BY <1>1, <1>5, <2>1 DEF ResolveFailed, FetchFailed
<1>11. CASE Operator
  BY <1>2, <1>11 DEF Operator, AddPattern, RemovePattern, ClearTTL, TurnOff, Purge, ApplyTTL
<1>12. CASE Sessions
  <2>1. UNCHANGED budget \/ ReadyList \/ StopCancel \/ Crash
    BY <1>12 DEF Sessions, Start, StopHalt, Reset, ReadySpawn
  <2>. QED BY <1>1, <1>4, <1>5, <2>1 DEF ReadyList
<1>. QED BY <1>6, <1>7, <1>8, <1>9, <1>10, <1>11, <1>12 DEF Next

\* The invariant is inductive.
LEMMA CoverageStep ==
    ASSUME Cardinality(Ids) <= SearchWindow, Cardinality(Service) < PageLimit
    PROVE  CoverageInv /\ [Next]_vars => CoverageInv'
<1> SUFFICES ASSUME CoverageInv, [Next]_vars PROVE CoverageInv' OBVIOUS
<1>0. ConfirmedInv /\ TypeOK BY DEF CoverageInv, ConfirmedInv, RightfulInv
<1>1. ConfirmedInv' /\ TypeOK' BY <1>0, ConfirmedStep DEF ConfirmedInv, RightfulInv
<1>2. CASE UNCHANGED vars
  <2>1. budget'.stops = 0 => ScanReady' BY <1>2 DEF CoverageInv, ScanReady, vars, conn
  <2>2. Coverage => Coverage'
    <3> SUFFICES ASSUME Coverage PROVE Coverage' OBVIOUS
    <3>. UNCHANGED <<server, conf, conn, mem, task>> BY <1>2 DEF vars
    <3>. \A c \in active' : \A m \in own'[c] : ttl'[c] > 0 => Kept(c, m)
      BY DEF Kept, server, conf, conn, mem
    <3>. QED BY <1>0, <1>1, KeptStep DEF conn
  <2>3. Unhindered' => Unhindered BY <1>2 DEF Unhindered, vars
  <2>. QED BY <1>1, <2>1, <2>2, <2>3 DEF CoverageInv
<1>3. CASE Next
  <2>1. ASSUME budget'.stops = 0 PROVE budget.stops = 0 /\ ColdCache /\ ScanReady /\ ScanReady'
    <3>1. budget.stops = 0 BY <1>0, <1>3, <2>1, ColdStep DEF ConfirmedInv
    <3>2. ColdCache /\ ScanReady BY <1>0, <3>1 DEF CoverageInv, ConfirmedInv
    <3>. QED BY <1>0, <1>3, <2>1, <3>1, <3>2, ReadyStep
  <2>2. ASSUME Unhindered' PROVE Coverage'
    <3>1. budget.stops = 0 /\ ScanReady BY <2>1, <2>2 DEF Unhindered
    <3>2. budget'.faults = 0 /\ budget.faults = 0
      BY <1>0, <1>3, <2>2, FaultsStep DEF Unhindered
    <3>3. Coverage BY <3>1, <3>2 DEF CoverageInv, Unhindered
    <3>. QED BY <1>0, <1>1, <1>3, <3>1, <3>2, <3>3, TelegramCovers, UpdatesCover, SweepCovers,
                DeletingCovers, WorkingCovers, OperatorCovers, SessionsCover DEF Next
  <2>. QED BY <1>1, <2>1, <2>2 DEF CoverageInv
<1>. QED BY <1>2, <1>3

\* As long as nobody has sent /stop and no RPC has failed on a live connection, no
\* message of a maintained chat falls through, whatever the interleaving of
\* updates, scans, deletes, commands and crashes: in boxes that fit in the search
\* window, with fewer service messages than a page.
THEOREM CoverageCorrect ==
    ASSUME Cardinality(Ids) <= SearchWindow, Cardinality(Service) < PageLimit
    PROVE  Spec => [](budget.stops = 0 /\ budget.faults = 0 => Coverage)
<1>1. CoverageInv /\ [Next]_vars => CoverageInv' BY CoverageStep
<1>2. CoverageInv => (budget.stops = 0 /\ budget.faults = 0 => Coverage)
  BY DEF CoverageInv, Unhindered
<1>. QED BY <1>1, <1>2, CoverageInit, PTL DEF Spec
=============================================================================
