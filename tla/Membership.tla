------------------------------ MODULE Membership ------------------------------
(***************************************************************************)
(* How langolier-bot follows the account's membership of its groups: the   *)
(* updates that hint at a change (internal/tgclient/tgclient.go), the poke *)
(* and the reconcile loop (internal/bot/bot.go), Cleaner.Reconcile and the *)
(* scans and drains it races with (internal/cleaner/cleaner.go).  The      *)
(* messages of a chat are abstracted to whether its index is complete:     *)
(* module Cleaner has them one by one.                                     *)
(***************************************************************************)
EXTENDS Integers, FiniteSets

CONSTANTS
    Chats,        \* groups with an entry in the configuration
    Status,       \* the goroutine of a /status
    Workers,      \* goroutines for scans, drains and the operator's commands
    MaxSessions,  \* bound: starts of the user client
    MaxMoves,     \* bound: joins and leaves of the account itself
    MaxOps,       \* bound: operator commands
    MaxFaults     \* bound: failed RPCs on a live connection

Sessions == 1..MaxSessions
Recs     == Sessions \cup {Status}   \* one reconcile loop per session, and /status

ASSUME MembershipAssumption ==
    /\ {MaxSessions, MaxMoves, MaxOps, MaxFaults} \subseteq Nat
    /\ Status \notin Sessions

VARIABLES
    member,   \* Telegram: the chats that the dialog list shows as eligible groups
    phase,    \* the user client: "up", "halting" or "down"
    session,  \* its number
    boot,     \* bot.onReady: "none", "list" or "spawn"
    ready,    \* chats onReady has still to spawn an EnableChat for
    poke,     \* Bot.membershipPoke holds its one element
    watched,  \* chatcfg: chats with a positive TTL
    cached,   \* Client.groups
    active,   \* Cleaner.active
    indexed,  \* chats whose history has been scanned since the index was dropped
    rec,      \* the reconciles
    task,     \* the other goroutines
    owed,     \* history: a hint was delivered and no reconcile has listed since
    refused,  \* history: chats whose scan has failed since the index was dropped
    budget    \* bounds spent so far

conn     == <<phase, session, boot, ready>>
maps     == <<active, indexed, refused>>
vars     == <<member, conn, poke, watched, cached, maps, rec, task, owed, budget>>

RecType ==
    [pc : {"off", "wait", "coalesce", "list", "read", "watch",
           "judge", "lose", "join", "start"},
     present : SUBSET Chats,   \* Reconcile's present
     watch   : SUBSET Chats,   \* Reconcile's watch, what is left of it
     chat    : SUBSET Chats]   \* the chat it acts on

TaskType ==
    [pc   : {"idle", "resolve", "mark", "scan", "forget"},
     op   : {"enable", "drain"},
     chat : SUBSET Chats,
     ctx  : 0..MaxSessions]    \* the session of its context, 0 for baseCtx

NoRec  == [pc |-> "off", present |-> {}, watch |-> {}, chat |-> {}]
NoTask == [pc |-> "idle", op |-> "drain", chat |-> {}, ctx |-> 0]

Typed ==
    /\ member \subseteq Chats
    /\ {poke, owed} \subseteq BOOLEAN
    /\ phase \in {"up", "halting", "down"}
    /\ session \in 0..MaxSessions
    /\ boot \in {"none", "list", "spawn"}
    /\ {ready, watched, cached, active, indexed, refused} \subseteq SUBSET Chats
    /\ rec \in [Recs -> RecType]
    /\ \A n \in Sessions : rec[n].pc # "off" => n <= session
    /\ rec[Status].pc \notin {"wait", "coalesce"}
    /\ task \in [Workers -> TaskType]
    /\ budget \in [moves : 0..MaxMoves, ops : 0..MaxOps, faults : 0..MaxFaults]

\* Every variable keeps its type, and a chat is never maintained before its group is in
\* the client's cache, be it Reconcile, EnableChat or drainChat that marks it: without
\* the cached peer no delete of the sweep could be sent.
MembershipTypeOK == Typed /\ active \subseteq cached

Spend(what, max) == budget[what] < max /\ budget' = [budget EXCEPT ![what] = @ + 1]

Becomes(w, t) == task' = [task EXCEPT ![w] = t]
RecGoes(r, pc) == rec' = [rec EXCEPT ![r].pc = pc]
JudgesOn(r) == rec' = [rec EXCEPT ![r].pc = "judge", ![r].chat = {}]
Spawn(w, pc, op, c, ctx) ==
    task[w].pc = "idle" /\ Becomes(w, [pc |-> pc, op |-> op, chat |-> {c}, ctx |-> ctx])

\* An RPC can be answered: the stack is up and the context is not done.
Live(ctx) == phase = "up" /\ ctx \in {0, session}

Fails(ctx) == IF Live(ctx) THEN Spend("faults", MaxFaults) ELSE UNCHANGED budget

-----------------------------------------------------------------------------
(* Telegram *)

\* The account joins or leaves a chat, or is removed.
Move(c) ==
    /\ Spend("moves", MaxMoves)
    /\ member' \in {member \cup {c}, member \ {c}}
    /\ UNCHANGED <<conn, poke, watched, cached, maps, rec, task, owed>>

\* The loops of earlier sessions that still run.
OldLoops == {n \in Sessions : n < session /\ rec[n].pc # "off"}

\* handleNewMessage or OnChannelInaccessible: fireMembership calls pokeMembership,
\* which does not block.  isMembershipAction does not ask who has joined or left, so
\* that a hint comes for every member's move, at any time and any number of times; a
\* move of the account may also bring none.
Notice ==
    /\ phase = "up"
    /\ poke' = TRUE
    /\ owed' = (owed \/ OldLoops = {})
    /\ UNCHANGED <<member, conn, watched, cached, maps, rec, task, budget>>

-----------------------------------------------------------------------------
(* reconcileLoop *)

Tick(n) ==
    /\ rec[n].pc = "wait"
    /\ RecGoes(n, "list")
    /\ UNCHANGED <<member, conn, poke, watched, cached, maps, task, owed, budget>>

\* A select with several cases ready takes any of them: also the loop of a session
\* that has ended may receive the poke.
Poked(n) ==
    /\ rec[n].pc = "wait"
    /\ poke
    /\ poke' = FALSE
    /\ RecGoes(n, "coalesce")
    /\ UNCHANGED <<member, conn, watched, cached, maps, task, owed, budget>>

\* The burst is over: drainChan empties the channel, then the loop reconciles.
Coalesced(n) ==
    /\ rec[n].pc = "coalesce"
    /\ poke' = FALSE
    /\ RecGoes(n, "list")
    /\ UNCHANGED <<member, conn, watched, cached, maps, task, owed, budget>>

LoopDone(n) ==
    /\ rec[n].pc \in {"wait", "coalesce"}
    /\ ~Live(n)
    /\ rec' = [rec EXCEPT ![n] = NoRec]
    /\ UNCHANGED <<member, conn, poke, watched, cached, maps, task, owed, budget>>

-----------------------------------------------------------------------------
(* Reconcile *)

\* /status: runReconcile under baseCtx while Bot.running is set.
CmdStatus ==
    /\ rec[Status].pc = "off"
    /\ phase # "down"
    /\ Spend("ops", MaxOps)
    /\ RecGoes(Status, "list")
    /\ UNCHANGED <<member, conn, poke, watched, cached, maps, task, owed>>

Ctx(r) == IF r = Status THEN 0 ELSE r

\* runReconcile returns to the loop, or /status goes on to print.
Finished(r) == [NoRec EXCEPT !.pc = IF r = Status THEN "off" ELSE "wait"]

\* ResolveGroups: the dialogs as they are now; the cache only grows.
List(r) ==
    /\ rec[r].pc = "list"
    /\ Live(Ctx(r))
    /\ rec' = [rec EXCEPT ![r].pc = "read", ![r].present = member]
    /\ cached' = cached \cup member
    /\ owed' = FALSE
    /\ UNCHANGED <<member, conn, poke, watched, maps, task, budget>>

ListFailed(r) ==
    /\ rec[r].pc = "list"
    /\ Fails(Ctx(r))
    /\ rec' = [rec EXCEPT ![r] = Finished(r)]
    /\ UNCHANGED <<member, conn, poke, watched, cached, maps, task, owed>>

ReadConfig(r) ==
    /\ rec[r].pc = "read"
    /\ rec' = [rec EXCEPT ![r].pc = "watch", ![r].watch = watched]
    /\ UNCHANGED <<member, conn, poke, watched, cached, maps, task, owed, budget>>

\* The chats that are maintained are watched, too.  (The mutant watches the
\* configured ones only.)
MutantMaintained == {}
Maintained == active

ReadActive(r) ==
    /\ rec[r].pc = "watch"
    /\ rec' = [rec EXCEPT ![r].pc = "judge", ![r].watch = @ \cup Maintained]
    /\ UNCHANGED <<member, conn, poke, watched, cached, maps, task, owed, budget>>

Judge(r, c) ==
    /\ rec[r].pc = "judge"
    /\ c \in rec[r].watch
    /\ LET here == c \in rec[r].present
           pc == IF c \in active /\ ~here THEN "lose"
                 ELSE IF c \notin active /\ here /\ c \in watched THEN "join"
                 ELSE "judge"
       IN rec' = [rec EXCEPT ![r].pc = pc, ![r].watch = @ \ {c},
                             ![r].chat = IF pc = "judge" THEN {} ELSE {c}]
    /\ UNCHANGED <<member, conn, poke, watched, cached, maps, task, owed, budget>>

\* The pokes that have come in since the listing stay.  (The mutant drains the
\* channel after Reconcile, not before.)
MutantPokesLeft(r) == poke /\ r = Status
PokesLeft(r) == poke

JudgedAll(r) ==
    /\ rec[r].pc = "judge"
    /\ rec[r].watch = {}
    /\ rec' = [rec EXCEPT ![r] = Finished(r)]
    /\ poke' = PokesLeft(r)
    /\ UNCHANGED <<member, conn, watched, cached, maps, task, owed, budget>>

\* DisableChat forgets the index and the active mark.  (The mutant keeps the mark.)
MutantStillActive(S) == active
StillActive(S) == active \ S

Forgotten(S) ==
    /\ active' = StillActive(S)
    /\ indexed' = indexed \ S
    /\ refused' = refused \ S

Lose(r) ==
    /\ rec[r].pc = "lose"
    /\ Forgotten(rec[r].chat)
    /\ JudgesOn(r)
    /\ UNCHANGED <<member, conn, poke, watched, cached, task, owed, budget>>

Join(r) ==
    /\ rec[r].pc = "join"
    /\ active' = active \cup rec[r].chat
    /\ RecGoes(r, "start")
    /\ UNCHANGED <<member, conn, poke, watched, cached, indexed, refused, task, owed, budget>>

StartDrain(r, w) ==
    /\ rec[r].pc = "start"
    /\ \E c \in rec[r].chat : Spawn(w, "resolve", "drain", c, 0)
    /\ JudgesOn(r)
    /\ UNCHANGED <<member, conn, poke, watched, cached, maps, owed, budget>>

-----------------------------------------------------------------------------
(* EnableChat and drainChat *)

\* errUnknownGroup: also the refreshed cache lacks the group.  (The mutant goes on with
\* the zero group that the lookup has returned.)
MutantUnknownGroup(t, groups) == FALSE
UnknownGroup(t, groups) == ~(t.chat \subseteq groups)

\* resolveGroup, refreshing the cache once, with the TTL that drainChat reads then.
Resolve(w) ==
    LET t == task[w] IN
    /\ t.pc = "resolve"
    /\ \/ t.chat \subseteq cached /\ UNCHANGED cached
       \/ ~(t.chat \subseteq cached) /\ Live(t.ctx) /\ cached' = cached \cup member
    /\ Becomes(w, IF UnknownGroup(t, cached') \/ (t.op = "drain" /\ ~(t.chat \subseteq watched))
                  THEN NoTask ELSE [t EXCEPT !.pc = "mark"])
    /\ UNCHANGED <<member, conn, poke, watched, maps, rec, owed, budget>>

ResolveFailed(w) ==
    /\ task[w].pc = "resolve"
    /\ ~(task[w].chat \subseteq cached)
    /\ Fails(task[w].ctx)
    /\ Becomes(w, NoTask)
    /\ UNCHANGED <<member, conn, poke, watched, cached, maps, rec, owed>>

MarkActive(w) ==
    /\ task[w].pc = "mark"
    /\ active' = active \cup task[w].chat
    /\ Becomes(w, [task[w] EXCEPT !.pc = "scan"])
    /\ UNCHANGED <<member, conn, poke, watched, cached, indexed, refused, rec, owed, budget>>

Scan(w) ==
    /\ task[w].pc = "scan"
    /\ Live(task[w].ctx)
    /\ indexed' = indexed \cup task[w].chat
    /\ refused' = refused \ task[w].chat
    /\ Becomes(w, NoTask)
    /\ UNCHANGED <<member, conn, poke, watched, cached, active, rec, owed, budget>>

\* Telegram may refuse to search a chat that the account is not in.
ScanFailed(w) ==
    /\ task[w].pc = "scan"
    /\ IF task[w].chat \subseteq member THEN Fails(task[w].ctx) ELSE UNCHANGED budget
    /\ refused' = refused \cup task[w].chat
    /\ Becomes(w, NoTask)
    /\ UNCHANGED <<member, conn, poke, watched, cached, active, indexed, rec, owed>>

-----------------------------------------------------------------------------
(* The operator *)

\* applyTTL with a positive TTL.
SetTTL(w, c) ==
    /\ Spend("ops", MaxOps)
    /\ watched' = watched \cup {c}
    /\ Spawn(w, "resolve", IF c \in watched THEN "enable" ELSE "drain", c, 0)
    /\ UNCHANGED <<member, conn, poke, cached, maps, rec, owed>>

\* applyTTL with 0 or "Disable chat": the configuration, then DisableChat.
ClearTTL(w, c) ==
    /\ Spend("ops", MaxOps)
    /\ watched' = watched \ {c}
    /\ Spawn(w, "forget", "drain", c, 0)
    /\ UNCHANGED <<member, conn, poke, cached, maps, rec, owed>>

DisableChat(w) ==
    /\ task[w].pc = "forget"
    /\ Forgotten(task[w].chat)
    /\ Becomes(w, NoTask)
    /\ UNCHANGED <<member, conn, poke, watched, cached, rec, owed, budget>>

-----------------------------------------------------------------------------
(* Sessions of the user client *)

Start ==
    /\ phase = "down"
    /\ boot = "none"
    /\ session < MaxSessions
    /\ phase' = "up"
    /\ session' = session + 1
    /\ boot' = "list"
    /\ UNCHANGED <<member, ready, poke, watched, cached, maps, rec, task, owed, budget>>

\* onReady fills the cache, or goes on without, lists the configured chats, ...
ReadyList ==
    /\ boot = "list"
    /\ \/ Live(session) /\ cached' = cached \cup member /\ UNCHANGED budget
       \/ Fails(session) /\ UNCHANGED cached
    /\ boot' = "spawn"
    /\ ready' = watched
    /\ UNCHANGED <<member, phase, session, poke, watched, maps, rec, task, owed>>

\* ... spawns an EnableChat for each ...
ReadySpawn(w, c) ==
    /\ boot = "spawn"
    /\ c \in ready
    /\ ready' = ready \ {c}
    /\ Spawn(w, "resolve", "enable", c, session)
    /\ UNCHANGED <<member, phase, session, boot, poke, watched, cached, maps, rec, owed, budget>>

\* ... and then the reconcile loop of its session.
ReadyLoop ==
    /\ boot = "spawn"
    /\ ready = {}
    /\ boot' = "none"
    /\ rec' = [rec EXCEPT ![session] = Finished(session)]
    /\ UNCHANGED <<member, phase, session, ready, poke, watched, cached, maps, task, owed, budget>>

\* Client.Stop; the goroutines of the cleaner and the loop find out by themselves.
Stop ==
    /\ phase = "up"
    /\ session < MaxSessions
    /\ phase' = "halting"
    /\ owed' = FALSE
    /\ UNCHANGED <<member, session, boot, ready, poke, watched, cached, maps, rec, task, budget>>

\* Cleaner.Reset.
Reset ==
    /\ phase = "halting"
    /\ phase' = "down"
    /\ active' = {}
    /\ indexed' = {}
    /\ refused' = {}
    /\ UNCHANGED <<member, session, boot, ready, poke, watched, cached, rec, task, owed, budget>>

-----------------------------------------------------------------------------
(* The system *)

Init ==
    /\ member \in SUBSET Chats
    /\ phase = "down"
    /\ session = 0
    /\ boot = "none"
    /\ ready = {}
    /\ poke = FALSE
    /\ watched \in SUBSET Chats
    /\ cached = {}
    /\ active = {}
    /\ indexed = {}
    /\ rec = [r \in Recs |-> NoRec]
    /\ task = [w \in Workers |-> NoTask]
    /\ owed = FALSE
    /\ refused = {}
    /\ budget = [moves |-> 0, ops |-> 0, faults |-> 0]

\* The loop, but for its ticker.
Looping(n) == Poked(n) \/ Coalesced(n) \/ LoopDone(n)

Reconciling(r) ==
    \/ List(r)
    \/ ListFailed(r)
    \/ ReadConfig(r)
    \/ ReadActive(r)
    \/ JudgedAll(r)
    \/ Lose(r)
    \/ Join(r)
    \/ \E c \in Chats : Judge(r, c)
    \/ \E w \in Workers : StartDrain(r, w)

Working(w) ==
    \/ Resolve(w)
    \/ ResolveFailed(w)
    \/ MarkActive(w)
    \/ Scan(w)
    \/ ScanFailed(w)
    \/ DisableChat(w)

Booting ==
    \/ ReadyList
    \/ ReadyLoop
    \/ \E w \in Workers, c \in Chats : ReadySpawn(w, c)

Next ==
    \/ Notice
    \/ \E n \in Sessions : Tick(n) \/ Looping(n)
    \/ CmdStatus
    \/ \E r \in Recs : Reconciling(r)
    \/ \E w \in Workers : Working(w)
    \/ \E c \in Chats : Move(c)
    \/ \E c \in Chats, w \in Workers : SetTTL(w, c) \/ ClearTTL(w, c)
    \/ Booting
    \/ Start \/ Stop \/ Reset

Spec == Init /\ [][Next]_vars

(***************************************************************************)
(* Fairness: goroutines that can run do run.  A hint is never promised, and *)
(* the ticker, ten minutes long, is left out: a property that needs it says *)
(* so.                                                                      *)
(***************************************************************************)
Fairness ==
    /\ WF_vars(Booting)
    /\ \A n \in Sessions : WF_vars(Looping(n) \/ Reconciling(n))
    /\ WF_vars(Reconciling(Status))
    /\ \A w \in Workers : WF_vars(Working(w))

FairSpec == Spec /\ Fairness

-----------------------------------------------------------------------------
(* Properties *)

\* While the ticker fires, the cleaner comes to maintain the configured chats that
\* the account is in and no chat that it is not in, whatever stale dialog lists,
\* overlapping reconciles and commands have done before.
Settled(c) ==
    phase = "up" =>
        /\ c \in member \cap watched => c \in active
        /\ c \in active => c \in member

Settles == (\A n \in Sessions : WF_vars(Tick(n))) => \A c \in Chats : []<>Settled(c)

\* A hint is never swallowed: once it is delivered, and no loop of an earlier
\* session is left to take it, a reconcile lists the dialogs after it without
\* waiting for the ticker, unless the session ends or a listing fails.
PokeHeeded == owed ~> (~owed \/ budget.faults > 0)

\* A scan of c is under way, or about to be started.
WillScan(c) ==
    \/ \E w \in Workers :
          /\ c \in task[w].chat
          /\ task[w].pc \in {"resolve", "mark", "scan"}
    \/ \E r \in Recs : rec[r].pc = "start" /\ c \in rec[r].chat
    \/ boot = "list" \/ c \in ready

\* A configured chat that counts as maintained has an index, or will get one: the
\* active mark, which stops Reconcile from draining the chat, promises nothing that
\* the index does not hold, unless a scan has failed.
Promised(c) == phase = "up" /\ c \in active /\ c \in watched /\ c \in member
MarkedIndexed == \A c \in Chats : Promised(c) => c \in indexed \cup refused \/ WillScan(c)

\* "A TTL-configured chat the account is in [...] (a first join, or a rejoin after a
\* loss) gets a fresh multi-pass history drain": while the ticker fires, a configured
\* chat that the account is in comes to have an index.
RejoinDrained ==
    (\A n \in Sessions : WF_vars(Tick(n))) =>
        \A c \in Chats : Promised(c) ~> (c \in indexed \/ ~Promised(c))

=============================================================================
