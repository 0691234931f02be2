------------------------------- MODULE Cleaner -------------------------------
(***************************************************************************)
(* The cleaner of langolier-bot (internal/cleaner/cleaner.go) together with *)
(* the parts of the bot and of the MTProto client it interleaves with: the  *)
(* update handlers that feed the message index, the sweep loop, the         *)
(* background scans and drains, the delete RPC, the operator's commands and *)
(* the start, stop and crash of the user client.  Telegram itself is        *)
(* external: the set of the account's messages in every chat and the        *)
(* updates that are still to be delivered.                                  *)
(***************************************************************************)
EXTENDS Integers, FiniteSets

CONSTANTS
    Chats,           \* marked chat ids of the groups the account is in
    Basic,           \* the basic groups among them: one account-global id box
    Ids,             \* message ids; they grow with time inside a box
    History,         \* <<chat, id>> pairs sent before the program first runs
    Cmds,            \* ids of the messages whose text matches a pattern
    Service,         \* ids of service messages: a search finds them, nothing else does
    Workers,         \* goroutines available to handlers, scans and drains
    Sweeper,         \* the goroutine of the sweep loop
    Erasable,        \* ids the account may also lose from another device
    TTLs,            \* positive TTLs the operator may set
    PageLimit,       \* searchPageLimit: messages per messages.search page
    SearchWindow,    \* newest own messages messages.search exposes
    DeleteBatch,     \* ids per delete RPC
    MaxDrainPasses,  \* maxDrainPasses
    MaxNow,          \* bound: length of a behaviour in ticks of the clock
    MaxOps,          \* bound: operator commands in a behaviour
    MaxFaults,       \* bound: failed RPCs on a live connection
    MaxSessions,     \* bound: starts of the user client
    MaxCrashes,      \* bound: restarts of the process
    MaxStops         \* bound: /stop commands

Procs == Workers \cup {Sweeper}

ASSUME ChatAssumption ==
    /\ Chats # {}
    /\ Basic \subseteq Chats
    /\ History \subseteq Chats \X Ids
    /\ Cmds \subseteq Ids
    /\ Service \subseteq Ids
    /\ Erasable \subseteq Ids

ASSUME NumberAssumption ==
    /\ IsFiniteSet(Ids)
    /\ Ids \subseteq Nat \ {0}
    /\ TTLs \subseteq Nat \ {0}
    /\ {PageLimit, SearchWindow, DeleteBatch, MaxDrainPasses} \subseteq Nat \ {0}
    /\ {MaxNow, MaxOps, MaxFaults, MaxSessions, MaxCrashes, MaxStops} \subseteq Nat

ASSUME ProcAssumption == Sweeper \notin Workers

VARIABLES
    now,      \* the clock, in TTL units
    own,      \* Telegram: the account's messages that exist in each chat
    sent,     \* Telegram: send time of each message, or Unsent
    fresh,    \* Telegram: new-message updates not yet handled
    gone,     \* Telegram: delete updates not yet handled
    ttl,      \* chatcfg: TTL of each chat, 0 when off (persistent)
    pat,      \* chatcfg: chats with instant-delete patterns (persistent)
    client,   \* tgclient: "up", "cancelled", "halted" or "down"
    session,  \* tgclient: number of the stack built last
    boot,     \* bot.onReady of this session has still to list the chats
    ready,    \* chats onReady has still to spawn an EnableChat for
    cached,   \* tgclient.groups: chats whose group is known
    index,    \* Cleaner.index
    deleted,  \* Cleaner.deleted
    active,   \* Cleaner.active
    loop,     \* session whose sweep loop runs, 0 when Cleaner.looping is false
    jobs,     \* jobs of the sweep in progress
    task,     \* what each goroutine is doing
    used,     \* history: positive TTLs each chat has ever had
    patted,   \* history: chats that have ever had a pattern
    budget    \* bounds spent so far

server == <<now, own, sent, fresh, gone>>
conf   == <<ttl, pat, used, patted>>
conn   == <<client, session, boot, ready>>
mem    == <<index, deleted, active>>
vars   == <<server, conf, conn, cached, mem, loop, jobs, task, budget>>

-----------------------------------------------------------------------------
(* Types *)

Unsent == -1

Ops == {"none", "own", "instant", "enable", "drain", "off", "sweep"}
PCs == {"idle", "record", "resolve", "mark", "fetch", "page",
        "delete", "chunk", "settle", "forget"}

AnyChat == CHOOSE c \in Chats : TRUE

TaskType ==
    [op : Ops, pc : PCs, chat : Chats,
     ctx    : Nat,                \* session of its context, 0 for baseCtx
     api    : Nat,                \* session of the API client it captured
     ttl    : TTLs \cup {0},      \* drainChat's ttl
     at     : Nat,                \* drainChat's now
     page   : SUBSET Ids,         \* messages of the page not yet called back
     offset : Ids \cup {0},       \* ScanOwn's offsetID
     oldest : Ids \cup {0},       \* drainChat's oldest
     prev   : Ids \cup {0},       \* drainChat's prevOldest
     pass   : 0..MaxDrainPasses,  \* drainChat's pass
     ids    : SUBSET Ids,         \* the ids of deleteIDs, drainChat's expired
     todo   : SUBSET Ids,         \* chunks of Delete not yet sent
     failed : SUBSET Ids]         \* Delete's failed

NoTask ==
    [op |-> "none", pc |-> "idle", chat |-> AnyChat, ctx |-> 0, api |-> 0,
     ttl |-> 0, at |-> 0, page |-> {}, offset |-> 0, oldest |-> 0, prev |-> 0,
     pass |-> 0, ids |-> {}, todo |-> {}, failed |-> {}]

BudgetType == [ops : 0..MaxOps, faults : 0..MaxFaults,
               crashes : 0..MaxCrashes, stops : 0..MaxStops]

\* Every variable keeps its type: ids and times stay in range, a drain never
\* counts its passes below zero.
TypeOK ==
    /\ now \in Nat
    /\ own \in [Chats -> SUBSET Ids]
    /\ sent \in [Chats -> [Ids -> Nat \cup {Unsent}]]
    /\ fresh \in [Chats -> SUBSET Ids]
    /\ gone \in [Chats -> SUBSET Ids]
    /\ ttl \in [Chats -> TTLs \cup {0}]
    /\ pat \subseteq Chats
    /\ client \in {"up", "cancelled", "halted", "down"}
    /\ session \in 0..MaxSessions
    /\ boot \in BOOLEAN
    /\ ready \subseteq Chats
    /\ cached \subseteq Chats
    /\ index \in [Chats -> SUBSET Ids]
    /\ deleted \in [Chats -> Nat]
    /\ active \subseteq Chats
    /\ loop \in 0..session
    /\ jobs \in [Chats -> SUBSET Ids]
    /\ task \in [Procs -> TaskType]
    /\ used \in [Chats -> SUBSET TTLs]
    /\ patted \subseteq Chats
    /\ budget \in BudgetType

Idle(w) == task[w].pc = "idle"
Becomes(p, t) == task' = [task EXCEPT ![p] = t]
Job(op, pc, c) == [NoTask EXCEPT !.op = op, !.pc = pc, !.chat = c]

\* messages.* ids are account-global over the basic groups, channels.* ids are
\* local to their channel.
Box(c) == IF c \in Basic THEN Basic ELSE {c}

ASSUME HistoryAssumption ==
    \A c \in Chats : \A d \in Box(c) : \A m \in Ids :
        <<c, m>> \in History /\ <<d, m>> \in History => c = d

\* OnDeleted is called with 0 for the common box and then skips the marked ids
\* of supergroups.  (The mutant has lost the skip.)
MutantStripped(c) == IF c \in Basic THEN Chats ELSE {c}
Stripped(c) == IF c \in Basic THEN Basic ELSE {c}

Without(f, D, S) == [c \in Chats |-> IF c \in D THEN f[c] \ S ELSE f[c]]

-----------------------------------------------------------------------------
(* Telegram *)

\* The account writes m in c: the next id of the box.  It stays pending as an
\* update until the client's updates manager hands it to the dispatcher.
Send(c, m) ==
    /\ \A d \in Box(c), k \in Ids : (sent[d][k] # Unsent) => k < m
    /\ \A k \in Ids : k < m => \E d \in Box(c) : sent[d][k] # Unsent
    /\ own' = [own EXCEPT ![c] = @ \cup {m}]
    /\ sent' = [sent EXCEPT ![c][m] = now]
    /\ fresh' = [fresh EXCEPT ![c] = @ \cup {m}]
    /\ UNCHANGED <<now, gone, conf, conn, cached, mem, loop, jobs, task, budget>>

\* The owner or an administrator deletes m from another device.
Vanish(c, m) ==
    /\ m \in Erasable
    /\ m \in own[c]
    /\ own' = [own EXCEPT ![c] = @ \ {m}]
    /\ gone' = [gone EXCEPT ![c] = @ \cup {m}]
    /\ UNCHANGED <<now, sent, fresh, conf, conn, cached, mem, loop, jobs, task, budget>>

Tick ==
    /\ now < MaxNow
    /\ now' = now + 1
    /\ UNCHANGED <<own, sent, fresh, gone, conf, conn, cached, mem, loop, jobs, task, budget>>

-----------------------------------------------------------------------------
(* Update handlers *)

\* The updates manager handles the updates of one box one after the other.
HandlerFree(c) == \A p \in Workers : task[p].op = "own" => task[p].chat \notin Box(c)

NextUpdate(c, m) ==
    /\ client = "up"
    /\ HandlerFree(c)
    /\ m \in fresh[c]
    /\ \A d \in Box(c) : \A k \in fresh[d] : m <= k

\* (The mutant looks at patterns only in chats with a TTL.)
MutantMatches(c, m) == c \in pat /\ m \in Cmds /\ ttl[c] > 0
Matches(c, m) == c \in pat /\ m \in Cmds

\* handleNewMessage passes no service message on.  (Module Membership has those that
\* hint at a change of membership.)
OwnService(c, m) ==
    /\ NextUpdate(c, m)
    /\ m \in Service
    /\ fresh' = [fresh EXCEPT ![c] = @ \ {m}]
    /\ UNCHANGED <<now, own, sent, gone, conf, conn, cached, mem, loop, jobs, task, budget>>

OwnText(c, m) == NextUpdate(c, m) /\ m \notin Service

\* OnOwnMessage, first branch: the handler returns and a goroutine deletes.
OwnMatched(w, c, m) ==
    /\ OwnText(c, m)
    /\ Matches(c, m)
    /\ Idle(w)
    /\ fresh' = [fresh EXCEPT ![c] = @ \ {m}]
    /\ Becomes(w, [Job("instant", "delete", c) EXCEPT !.ids = {m}])
    /\ UNCHANGED <<now, own, sent, gone, conf, conn, cached, mem, loop, jobs, budget>>

\* OnOwnMessage, second branch: no TTL, nothing to remember.
OwnIgnored(c, m) ==
    /\ OwnText(c, m)
    /\ ~Matches(c, m)
    /\ ttl[c] = 0
    /\ fresh' = [fresh EXCEPT ![c] = @ \ {m}]
    /\ UNCHANGED <<now, own, sent, gone, conf, conn, cached, mem, loop, jobs, task, budget>>

\* OnOwnMessage, last branch: the configuration is read here ...
OwnRecorded(w, c, m) ==
    /\ OwnText(c, m)
    /\ ~Matches(c, m)
    /\ ttl[c] > 0
    /\ Idle(w)
    /\ fresh' = [fresh EXCEPT ![c] = @ \ {m}]
    /\ Becomes(w, [Job("own", "record", c) EXCEPT !.ids = {m}])
    /\ UNCHANGED <<now, own, sent, gone, conf, conn, cached, mem, loop, jobs, budget>>

\* ... and the message is indexed under c.mu later.
OwnIndexed(w) ==
    /\ task[w].pc = "record"
    /\ index' = [index EXCEPT ![task[w].chat] = @ \cup task[w].ids]
    /\ Becomes(w, NoTask)
    /\ UNCHANGED <<server, conf, conn, cached, deleted, active, loop, jobs, budget>>

\* OnDeleted of a delete update; a box's updates arrive in order.
OnDeleted(c, m) ==
    /\ client = "up"
    /\ HandlerFree(c)
    /\ m \in gone[c] \ fresh[c]
    /\ gone' = [gone EXCEPT ![c] = @ \ {m}]
    /\ index' = Without(index, Stripped(c), {m})
    /\ UNCHANGED <<now, own, sent, fresh, conf, conn, cached, deleted, active, loop, jobs, task, budget>>

-----------------------------------------------------------------------------
(* The sweep loop *)

\* The comparison of sweep and drainChat: the age reaches the TTL.  (The mutants
\* are off by one, either way.)
MutantOutlivedEarly(c, m, t, n) == n - sent[c][m] >= t - 1
MutantOutlivedLate(c, m, t, n) == n - sent[c][m] > t
Outlived(c, m, t, n) == n - sent[c][m] >= t

\* sweep skips a chat whose TTL is off.  (The mutant does not.)
MutantSwept(c) == TRUE
Swept(c) == ttl[c] > 0

Expired(c) == IF Swept(c) THEN {m \in index[c] : Outlived(c, m, ttl[c], now)} ELSE {}

LoopLive == loop # 0 /\ loop = session /\ client = "up"

\* The ticker fires: the jobs are collected under c.mu.  (A tick chosen although
\* the context is done has no effect, because sweep checks the context first.)
SweepTick ==
    /\ LoopLive
    /\ Idle(Sweeper)
    /\ \A c \in Chats : jobs[c] = {}
    /\ \E c \in Chats : Expired(c) # {}
    /\ jobs' = [c \in Chats |-> Expired(c)]
    /\ UNCHANGED <<server, conf, conn, cached, mem, loop, task, budget>>

SweepNext(c) ==
    /\ LoopLive
    /\ Idle(Sweeper)
    /\ jobs[c] # {}
    /\ jobs' = [jobs EXCEPT ![c] = {}]
    /\ Becomes(Sweeper, [Job("sweep", "delete", c) EXCEPT !.ids = jobs[c], !.ctx = loop])
    /\ UNCHANGED <<server, conf, conn, cached, mem, loop, budget>>

\* The context is done: sweep gives up the jobs that are left, loop returns and
\* its deferred function clears looping.
LoopExit ==
    /\ loop # 0
    /\ ~LoopLive
    /\ Idle(Sweeper)
    /\ loop' = 0
    /\ jobs' = [c \in Chats |-> {}]
    /\ UNCHANGED <<server, conf, conn, cached, mem, task, budget>>

-----------------------------------------------------------------------------
(* The connection, as a goroutine sees it *)

\* An RPC is answered: the stack it was captured from and its context are live.
Live(t) == client = "up" /\ t.api = session /\ t.ctx \in {0, session}

\* apiRef fails once reset has cleared the API client.
ApiNil == client \in {"halted", "down"}

\* An RPC fails, because the stack is dead or because Telegram says so.
Fails(t) ==
    \/ ~Live(t) /\ UNCHANGED budget
    \/ /\ Live(t)
       /\ budget.faults < MaxFaults
       /\ budget' = [budget EXCEPT !.faults = @ + 1]

-----------------------------------------------------------------------------
(* EnableChat and drainChat *)

\* resolveGroup, with the TTL that drainChat reads right after it.
Resolve(w) ==
    LET t == task[w]
        c == t.chat
    IN /\ t.pc = "resolve"
       /\ \/ c \in cached /\ UNCHANGED cached
          \/ c \notin cached /\ Live([t EXCEPT !.api = session]) /\ cached' = Chats
       /\ Becomes(w, IF t.op = "drain" /\ ttl[c] = 0 THEN NoTask
                     ELSE [t EXCEPT !.pc = "mark",
                                    !.ttl = IF t.op = "drain" THEN ttl[c] ELSE 0,
                                    !.pass = IF t.op = "drain" THEN 1 ELSE 0])
       /\ UNCHANGED <<server, conf, conn, mem, loop, jobs, budget>>

\* resolveGroup fails: the group is unknown and the dialogs cannot be listed.
ResolveFailed(w) ==
    /\ task[w].pc = "resolve"
    /\ task[w].chat \notin cached
    /\ Fails([task[w] EXCEPT !.api = session])
    /\ Becomes(w, NoTask)
    /\ UNCHANGED <<server, conf, conn, cached, mem, loop, jobs>>

MarkActive(w) ==
    /\ task[w].pc = "mark"
    /\ active' = active \cup {task[w].chat}
    /\ Becomes(w, [task[w] EXCEPT !.pc = "fetch"])
    /\ UNCHANGED <<server, conf, conn, cached, index, deleted, loop, jobs, budget>>

\* What messages.search can still return: the newest SearchWindow own messages,
\* and of those the ones below the offset.
Reachable(c) == {m \in own[c] : Cardinality({k \in own[c] : k > m}) < SearchWindow}
Below(c, o)  == {m \in Reachable(c) : o = 0 \/ m < o}
Page(c, o)   == {m \in Below(c, o) : Cardinality({k \in Below(c, o) : k > m}) < PageLimit}

\* The callback sees no service messages, and a page of nothing else counts as the
\* end of the history.  (The mutant stops at a page that holds one.)
MutantFound(c, o) == IF Page(c, o) \cap Service = {} THEN Page(c, o) ELSE {}
Found(c, o) == Page(c, o) \ Service

\* The scan is over: EnableChat returns, drainChat deletes what has expired.
ScanDone(t) == IF t.op = "drain" /\ t.ids # {} THEN [t EXCEPT !.pc = "delete", !.offset = 0]
               ELSE NoTask

\* With offset 0 a pass begins: drainChat takes its now and ScanOwn its API
\* client, which fails when there is none.
Fetching(w) ==
    IF task[w].offset # 0 THEN task[w]
    ELSE [task[w] EXCEPT !.api = session, !.at = IF task[w].op = "drain" THEN now ELSE 0]

Fetch(w) ==
    LET t == Fetching(w)
        page == Found(t.chat, t.offset)
    IN /\ t.pc = "fetch"
       /\ Live(t)
       /\ Becomes(w, IF page = {} THEN ScanDone(t)
                     ELSE [t EXCEPT !.pc = "page", !.page = page])
       /\ UNCHANGED <<server, conf, conn, cached, mem, loop, jobs, budget>>

FetchFailed(w) ==
    /\ task[w].pc = "fetch"
    /\ Fails(Fetching(w))
    /\ Becomes(w, NoTask)
    /\ UNCHANGED <<server, conf, conn, cached, mem, loop, jobs>>

\* offsetID after a page: its lowest id, which the next page excludes.
NextOffset(m) == m

\* The callback of ScanOwn, for the newest message of the page still to come.
\* Pages arrive newest first, so the message is the lowest id seen so far.
Called(t, m) ==
    [t EXCEPT !.page = @ \ {m},
              !.offset = NextOffset(m),
              !.oldest = IF t.op = "drain" THEN m ELSE 0,
              !.ids = IF t.op = "drain" /\ Outlived(t.chat, m, t.ttl, t.at) THEN @ \cup {m} ELSE @,
              !.pc = IF t.page = {m} THEN "fetch" ELSE "page"]

Callback(w, m) ==
    /\ task[w].pc = "page"
    /\ m \in task[w].page
    /\ \A k \in task[w].page : k <= m
    /\ index' = [index EXCEPT ![task[w].chat] = @ \cup {m}]
    /\ Becomes(w, Called(task[w], m))
    /\ UNCHANGED <<server, conf, conn, cached, deleted, active, loop, jobs, budget>>

-----------------------------------------------------------------------------
(* deleteIDs *)

\* drainChat stops after a pass that deleted nothing, when the search window no
\* longer recedes, and at the pass ceiling.  (The mutant runs one pass too many.)
Receding(t) == t.prev = 0 \/ t.oldest < t.prev
MutantPassesLeft(t) == t.pass <= MaxDrainPasses
PassesLeft(t) == t.pass < MaxDrainPasses

NextPass(t) ==
    [Job("drain", "fetch", t.chat) EXCEPT
        !.ctx = t.ctx, !.ttl = t.ttl, !.pass = t.pass + 1, !.prev = t.oldest]

\* What the caller of deleteIDs does with the ids it reports deleted.
Returned(t, ok) ==
    IF t.op = "drain" /\ ok # {} /\ Receding(t) /\ PassesLeft(t) THEN NextPass(t)
    ELSE NoTask

\* The group is not cached: deleteIDs returns without trying.
DeleteDropped(p) ==
    /\ task[p].pc = "delete"
    /\ task[p].chat \notin cached
    /\ Becomes(p, Returned(task[p], {}))
    /\ UNCHANGED <<server, conf, conn, cached, mem, loop, jobs, budget>>

\* delMu is held from the first chunk to the last.
DelMuFree == \A p \in Procs : task[p].pc # "chunk"

\* Delete under delMu, at its first chunk or at a later one.
Sending(p) ==
    IF task[p].pc = "chunk" THEN task[p]
    ELSE [task[p] EXCEPT !.api = session, !.todo = task[p].ids]

MaySend(p) ==
    \/ task[p].pc = "chunk"
    \/ /\ task[p].pc = "delete"
       /\ task[p].chat \in cached
       /\ DelMuFree
       /\ ~ApiNil

\* Delete returns (nil, errNotRunning): no id is reported as failed.
DeleteRefused(p) ==
    /\ task[p].pc = "delete"
    /\ task[p].chat \in cached
    /\ DelMuFree
    /\ ApiNil
    /\ Becomes(p, [task[p] EXCEPT !.pc = "settle"])
    /\ UNCHANGED <<server, conf, conn, cached, mem, loop, jobs, budget>>

\* The chunks of Delete: DeleteBatch ids, or what is left.
Chunks(S) ==
    {k \in SUBSET S : \/ Cardinality(k) = DeleteBatch
                      \/ k = S /\ Cardinality(S) < DeleteBatch}

AfterChunk(t, k) == [t EXCEPT !.todo = @ \ k,
                              !.pc = IF t.todo = k THEN "settle" ELSE "chunk"]

ChunkDeleted(p, k) ==
    LET t == Sending(p) IN
    /\ MaySend(p)
    /\ k \in Chunks(t.todo)
    /\ Live(t)
    /\ own' = Without(own, Box(t.chat), k)
    /\ Becomes(p, AfterChunk(t, k))
    /\ UNCHANGED <<now, sent, fresh, gone, conf, conn, cached, mem, loop, jobs, budget>>

\* Delete appends a failed chunk to failed.  (The mutant forgets to.)
MutantWithFailed(t, k) == t
WithFailed(t, k) == [t EXCEPT !.failed = @ \cup k]

\* A chunk fails as a whole; with the answer lost, Telegram may have deleted it.
ChunkFailed(p, k) ==
    LET t == Sending(p) IN
    /\ MaySend(p)
    /\ k \in Chunks(t.todo)
    /\ Fails(t)
    /\ \/ UNCHANGED own
       \/ Live(t) /\ own' = Without(own, Box(t.chat), k)
    /\ Becomes(p, WithFailed(AfterChunk(t, k), k))
    /\ UNCHANGED <<now, sent, fresh, gone, conf, conn, cached, mem, loop, jobs>>

\* deleteIDs takes the ids not reported as failed for deleted.  (The mutant takes
\* them all.)
MutantOkIds(t) == t.ids
OkIds(t) == t.ids \ t.failed

Settle(p) ==
    LET t == task[p]
        ok == OkIds(t)
    IN /\ t.pc = "settle"
       /\ index' = [index EXCEPT ![t.chat] = @ \ ok]
       /\ deleted' = [deleted EXCEPT ![t.chat] = @ + Cardinality(ok)]
       /\ Becomes(p, Returned(t, ok))
       /\ UNCHANGED <<server, conf, conn, cached, active, loop, jobs, budget>>

-----------------------------------------------------------------------------
(* The operator's commands *)

Command == budget.ops < MaxOps /\ budget' = [budget EXCEPT !.ops = @ + 1]

\* applyTTL with a positive TTL: a first activation drains, a change re-seeds.  The
\* read of firstEnable and SetTTL are one step here.
ApplyTTL(w, c, n) ==
    /\ Command
    /\ Idle(w)
    /\ ttl' = [ttl EXCEPT ![c] = n]
    /\ used' = [used EXCEPT ![c] = @ \cup {n}]
    /\ Becomes(w, Job(IF ttl[c] = 0 THEN "drain" ELSE "enable", "resolve", c))
    /\ UNCHANGED <<server, pat, patted, conn, cached, mem, loop, jobs>>

\* applyTTL with 0, and "Disable chat": the configuration first, then the
\* cleaner's DisableChat.
ClearTTL(w, c) ==
    /\ Command
    /\ Idle(w)
    /\ ttl' = [ttl EXCEPT ![c] = 0]
    /\ Becomes(w, Job("off", "forget", c))
    /\ UNCHANGED <<server, pat, used, patted, conn, cached, mem, loop, jobs>>

TurnOff(w, c) ==
    /\ Command
    /\ Idle(w)
    /\ ttl' = [ttl EXCEPT ![c] = 0]
    /\ pat' = pat \ {c}
    /\ Becomes(w, Job("off", "forget", c))
    /\ UNCHANGED <<server, used, patted, conn, cached, mem, loop, jobs>>

\* The mutant of DisableChat keeps the active mark.
MutantNoLongerActive(c) == active
NoLongerActive(c) == active \ {c}

DisableChat(w) ==
    /\ task[w].pc = "forget"
    /\ index' = [index EXCEPT ![task[w].chat] = {}]
    /\ active' = NoLongerActive(task[w].chat)
    /\ Becomes(w, NoTask)
    /\ UNCHANGED <<server, conf, conn, cached, deleted, loop, jobs, budget>>

AddPattern(c) ==
    /\ Command
    /\ c \notin pat
    /\ pat' = pat \cup {c}
    /\ patted' = patted \cup {c}
    /\ UNCHANGED <<server, ttl, used, conn, cached, mem, loop, jobs, task>>

RemovePattern(c) ==
    /\ Command
    /\ c \in pat
    /\ pat' = pat \ {c}
    /\ UNCHANGED <<server, ttl, used, patted, conn, cached, mem, loop, jobs, task>>

Purge(w, c) ==
    /\ Command
    /\ Idle(w)
    /\ Becomes(w, Job("drain", "resolve", c))
    /\ UNCHANGED <<server, conf, conn, cached, mem, loop, jobs>>

-----------------------------------------------------------------------------
(* Sessions of the user client *)

\* cmdStart once tgclient.Start has succeeded.  onReady begins with Cleaner.Run,
\* which does nothing while an old loop winds down.
Start ==
    /\ client = "down"
    /\ ~boot /\ ready = {}
    /\ session < MaxSessions
    /\ client' = "up"
    /\ session' = session + 1
    /\ boot' = TRUE
    /\ loop' = IF loop = 0 THEN session + 1 ELSE loop
    /\ UNCHANGED <<server, conf, ready, cached, mem, jobs, task, budget>>

\* onReady refreshes the group cache, goes on if that fails, and lists the
\* chats with a TTL ...
ReadyChats == {c \in Chats : ttl[c] > 0}

ReadyList ==
    LET t == [NoTask EXCEPT !.api = session, !.ctx = session] IN
    /\ boot
    /\ \/ Live(t) /\ cached' = Chats /\ UNCHANGED budget
       \/ Fails(t) /\ UNCHANGED cached
    /\ boot' = FALSE
    /\ ready' = ReadyChats
    /\ UNCHANGED <<server, conf, client, session, mem, loop, jobs, task>>

\* ... and spawns an EnableChat for each.
ReadySpawn(w, c) ==
    /\ c \in ready
    /\ Idle(w)
    /\ ready' = ready \ {c}
    /\ Becomes(w, [Job("enable", "resolve", c) EXCEPT !.ctx = session])
    /\ UNCHANGED <<server, conf, client, session, boot, cached, mem, loop, jobs, budget>>

\* cmdStop, in the order of its steps: the context is cancelled, the updates
\* manager and the client wind down and reset clears the API client, Reset
\* clears the cleaner.
StopCancel ==
    /\ client = "up"
    /\ budget.stops < MaxStops
    /\ budget' = [budget EXCEPT !.stops = @ + 1]
    /\ client' = "cancelled"
    /\ UNCHANGED <<server, conf, session, boot, ready, cached, mem, loop, jobs, task>>

StopHalt ==
    /\ client = "cancelled"
    /\ \A c \in Chats : HandlerFree(c)
    /\ client' = "halted"
    /\ UNCHANGED <<server, conf, session, boot, ready, cached, mem, loop, jobs, task, budget>>

Reset ==
    /\ client = "halted"
    /\ client' = "down"
    /\ index' = [c \in Chats |-> {}]
    /\ deleted' = [c \in Chats |-> 0]
    /\ active' = {}
    /\ UNCHANGED <<server, conf, session, boot, ready, cached, loop, jobs, task, budget>>

\* The process dies: memory is lost, bbolt keeps the configuration and the
\* position of the updates manager, so pending updates are delivered later.
Crash ==
    /\ budget.crashes < MaxCrashes
    /\ budget' = [budget EXCEPT !.crashes = @ + 1]
    /\ client' = "down"
    /\ boot' = FALSE
    /\ ready' = {}
    /\ cached' = {}
    /\ index' = [c \in Chats |-> {}]
    /\ deleted' = [c \in Chats |-> 0]
    /\ active' = {}
    /\ loop' = 0
    /\ jobs' = [c \in Chats |-> {}]
    /\ task' = [p \in Procs |-> NoTask]
    /\ UNCHANGED <<server, conf, session>>

-----------------------------------------------------------------------------
(* The system *)

Init ==
    /\ now = 0
    /\ own = [c \in Chats |-> {m \in Ids : <<c, m>> \in History}]
    /\ sent = [c \in Chats |-> [m \in Ids |-> IF <<c, m>> \in History THEN 0 ELSE Unsent]]
    /\ fresh = [c \in Chats |-> {}]
    /\ gone = [c \in Chats |-> {}]
    /\ ttl = [c \in Chats |-> 0]
    /\ pat = {}
    /\ used = [c \in Chats |-> {}]
    /\ patted = {}
    /\ client = "down"
    /\ session = 0
    /\ boot = FALSE
    /\ ready = {}
    /\ cached = {}
    /\ index = [c \in Chats |-> {}]
    /\ deleted = [c \in Chats |-> 0]
    /\ active = {}
    /\ loop = 0
    /\ jobs = [c \in Chats |-> {}]
    /\ task = [p \in Procs |-> NoTask]
    /\ budget = [ops |-> 0, faults |-> 0, crashes |-> 0, stops |-> 0]

Telegram == Tick \/ \E c \in Chats, m \in Ids : Send(c, m) \/ Vanish(c, m)

Updates ==
    \E c \in Chats, m \in Ids :
        \/ OwnService(c, m)
        \/ OwnIgnored(c, m)
        \/ OnDeleted(c, m)
        \/ \E w \in Workers : OwnMatched(w, c, m) \/ OwnRecorded(w, c, m)

Sweep == SweepTick \/ LoopExit \/ \E c \in Chats : SweepNext(c)

Deleting(p) ==
    \/ DeleteDropped(p)
    \/ DeleteRefused(p)
    \/ Settle(p)
    \/ \E k \in SUBSET Ids : ChunkDeleted(p, k) \/ ChunkFailed(p, k)

Working(w) ==
    \/ OwnIndexed(w)
    \/ Resolve(w)
    \/ ResolveFailed(w)
    \/ MarkActive(w)
    \/ Fetch(w)
    \/ FetchFailed(w)
    \/ DisableChat(w)
    \/ \E m \in Ids : Callback(w, m)

Operator ==
    \E c \in Chats :
        \/ AddPattern(c)
        \/ RemovePattern(c)
        \/ \E w \in Workers :
              \/ ClearTTL(w, c)
              \/ TurnOff(w, c)
              \/ Purge(w, c)
              \/ \E n \in TTLs : ApplyTTL(w, c, n)

Sessions ==
    \/ Start
    \/ ReadyList
    \/ StopCancel
    \/ StopHalt
    \/ Reset
    \/ Crash
    \/ \E w \in Workers, c \in Chats : ReadySpawn(w, c)

Next ==
    \/ Telegram
    \/ Updates
    \/ Sweep
    \/ \E p \in Procs : Deleting(p)
    \/ \E w \in Workers : Working(w)
    \/ Operator
    \/ Sessions

Spec == Init /\ [][Next]_vars

(***************************************************************************)
(* Fairness: the Go scheduler runs every goroutine that can run, a mutex    *)
(* waiter eventually gets the mutex (sync.Mutex is not starved), the ticker *)
(* keeps firing and the updates manager keeps dispatching.  Nothing is      *)
(* assumed of the operator, the account, the clock, stops or crashes.       *)
(***************************************************************************)
Fairness ==
    /\ WF_vars(Updates)
    /\ WF_vars(Sweep)
    /\ WF_vars(ReadyList)
    /\ WF_vars(\E w \in Workers, c \in Chats : ReadySpawn(w, c))
    /\ \A w \in Workers : WF_vars(Working(w))
    /\ \A p \in Procs : SF_vars(Deleting(p))

FairSpec == Spec /\ Fairness

-----------------------------------------------------------------------------
(* Properties *)

\* A scan of c is under way that will still call back for m.
WillScan(w, c, m) ==
    LET t == task[w] IN
    /\ t.chat = c
    /\ t.op \in {"enable", "drain"}
    /\ \/ t.pc \in {"resolve", "mark"} /\ Live([t EXCEPT !.api = session])
       \/ t.pc = "fetch" /\ Live(Fetching(w)) /\ (t.offset = 0 \/ m < t.offset)
       \/ t.pc = "page" /\ Live(t) /\ (m \in t.page \/ \A k \in t.page : m < k)

WillRecord(w, c, m) == task[w].pc = "record" /\ task[w].chat = c /\ m \in task[w].ids

\* m may have been left to an instant delete.
MayMatch(c, m) == c \in patted /\ m \in Cmds

Covered(c, m) ==
    \/ m \in index[c]
    \/ m \in fresh[c]
    \/ boot
    \/ c \in ready
    \/ \E w \in Workers : WillScan(w, c, m) \/ WillRecord(w, c, m)

\* While the client is up, a chat that counts as maintained and has a TTL loses
\* track of no message: each is indexed, or an update or a scan that will index
\* it is on its way.  Reconcile restarts a scan only for chats that are not
\* active, so a message that falls through here is never deleted.
Coverage ==
    client = "up" =>
        \A c \in active : ttl[c] > 0 =>
            \A m \in own[c] \ Service : Covered(c, m) \/ MayMatch(c, m)

\* m has outlived a TTL that its chat had at some time.
Aged(c, m) == \E u \in used[c] : sent[c][m] + u <= now

\* A message disappears by the program's hand only if it matches a pattern or
\* has outlived a TTL that its chat really had at some time: neither a stale
\* index, a TTL that is off, nor an id shared between chats may kill another.
RightfulStep ==
    \A c \in Chats : \A m \in own[c] \ own'[c] :
        \/ m \in gone'[c]
        \/ MayMatch(c, m)
        \/ Aged(c, m)

Rightful == [][RightfulStep]_vars

\* Why it is: an id belongs to one message of its box, whatever the program
\* holds on to was sent, and ids on their way to a delete are entitled to it.
SentOnce ==
    \A c \in Chats : \A d \in Box(c) : \A m \in Ids :
        sent[c][m] # Unsent /\ sent[d][m] # Unsent => c = d

Sent(c) == {m \in Ids : sent[c][m] # Unsent}

KnownSent ==
    \A c \in Chats : own[c] \cup fresh[c] \cup index[c] \subseteq Sent(c)

ByAge(t)   == t.op \in {"drain", "sweep"} /\ \A m \in t.ids : Aged(t.chat, m)
ByMatch(t) == t.op = "instant" /\ \A m \in t.ids : MayMatch(t.chat, m)

EntitledTask(t) ==
    /\ t.ids \cup t.page \subseteq Sent(t.chat)
    /\ t.todo \subseteq t.ids
    /\ t.pc = "resolve" => t.ids = {} /\ t.at = 0
    /\ t.pc \in {"delete", "chunk"} => ByAge(t) \/ ByMatch(t)
    /\ t.op = "drain" /\ t.pc # "resolve" =>
          t.ttl \in used[t.chat] /\ t.at <= now /\ ByAge(t)

EntitledJobs(c) == jobs[c] \subseteq Sent(c) /\ \A m \in jobs[c] : Aged(c, m)

\* What the goroutines of the cleaner hold: ids they are about to delete have
\* outlived a TTL or match a pattern, however old the list is that they came from.
Entitled ==
    /\ \A p \in Procs : EntitledTask(task[p])
    /\ \A c \in Chats : EntitledJobs(c)

ConfUsed == pat \subseteq patted /\ \A c \in Chats : ttl[c] > 0 => ttl[c] \in used[c]

RightfulInv == TypeOK /\ SentOnce /\ KnownSent /\ Entitled /\ ConfUsed

\* What the program holds for deletion and the TTLs its drains apply, as module
\* Retention has them.
Held(t) ==
    CASE t.pc = "chunk" -> t.todo
      [] t.pc \in {"mark", "fetch", "page", "delete"} -> t.ids
      [] OTHER -> {}

Draining(t) == t.op = "drain" /\ t.pc \notin {"idle", "resolve"}

TasksOf(c) == {p \in Procs : task[p].chat = c}
Doomed == [c \in Chats |-> jobs[c] \cup UNION {Held(task[p]) : p \in TasksOf(c)}]
Rules  == [c \in Chats |-> {task[p].ttl : p \in {q \in TasksOf(c) : Draining(task[q])}}]

Promise == INSTANCE Retention WITH unseen <- fresh, rule <- Rules, doomed <- Doomed

\* The cleaner keeps the promise of module Retention: a message it deletes was doomed
\* under a pattern or a TTL that applied at that moment, in the chat it was in; settings
\* that change later, ids shared in a box, retries and restarts doom no other one.
Retains == Promise!Spec

\* An index entry whose message still exists is given up only together with the
\* chat: failed deletes, deletes of another chat's message with the same id and
\* late reports leave it in place.
KeepStep ==
    \A c \in Chats : \A m \in (index[c] \cap own'[c]) \ index'[c] : c \notin active'

NoSilentDrop == [][KeepStep]_vars

\* When deleteIDs takes ids out of the index as deleted, Telegram has deleted
\* them.
ConfirmedGone ==
    \A p \in Procs : task[p].pc = "settle" =>
        (task[p].ids \ task[p].failed) \cap own[task[p].chat] = {}

\* "Nothing runs": once a chat is off, no further pass of a drain begins on it.
DrainStopsStep ==
    \A w \in Workers :
        (task[w].pc = "settle" /\ task'[w].pc = "fetch") => ttl[task[w].chat] > 0

DrainStops == [][DrainStopsStep]_vars

\* "A matching own text message is deleted right after it is sent": once its update
\* can be handled, unless the group is not yet cached (the delete is then dropped),
\* the pattern is removed, the client stops or an RPC fails.
Commanded(c, m) ==
    /\ client = "up"
    /\ c \in cached
    /\ c \in pat
    /\ m \in Cmds \ Service
    /\ m \in fresh[c] \cap own[c]
    /\ budget.faults = 0

InstantDeletes ==
    \A c \in Chats, m \in Ids :
        Commanded(c, m) ~> (m \notin own[c] \/ client # "up" \/ c \notin pat \/ budget.faults > 0)

\* The promise of a TTL: in a maintained chat with a live client an expired
\* message is deleted, unless the operator or the session changes that first.
Due(c, m) ==
    /\ client = "up"
    /\ c \in active
    /\ ttl[c] > 0
    /\ m \in own[c] \ Service
    /\ ~MayMatch(c, m)
    /\ sent[c][m] + ttl[c] <= now

\* As long as no RPC has failed, every message gets there, however it is found.
Owed(c, m) == Due(c, m) /\ budget.faults = 0
KeepsPromise == \A c \in Chats, m \in Ids : Owed(c, m) ~> ~Owed(c, m)

\* An indexed message gets there even though deletes fail: the sweep retries.
Listed(c, m) == Due(c, m) /\ m \in index[c]
RetriesDelete == \A c \in Chats, m \in Ids : Listed(c, m) ~> ~Due(c, m)

=============================================================================
