--------------------------- MODULE MembershipProofs ---------------------------
(***************************************************************************)
(* Module Membership for any chats, goroutines and bounds: its types, and  *)
(* that a configured chat with the active mark has an index, a scan that   *)
(* was refused, or a scan on its way.                                      *)
(***************************************************************************)
EXTENDS Membership, TLAPS

AnyBudget == [moves : 0..MaxMoves, ops : 0..MaxOps, faults : 0..MaxFaults]

\* The mark, and whatever is about to set it or to scan, is about chats whose group is
\* known, a reconcile about one at a time: the cache never forgets one, so that no
\* resolveGroup of theirs fails.
RecKnows(q) ==
    /\ q.present \subseteq cached
    /\ q.pc \in {"join", "start"} => q.chat \subseteq cached
    /\ \A c, d \in q.chat : c = d

TaskKnows(t) == t.pc \in {"mark", "scan"} => t.chat \subseteq cached

Known ==
    /\ active \subseteq cached
    /\ \A r \in Recs : RecKnows(rec[r])
    /\ \A w \in Workers : TaskKnows(task[w])

\* A goroutine of the cleaner is about one chat.
AboutOne == \A w \in Workers : \A c, d \in task[w].chat : c = d

\* onReady runs in a session whose loop has not begun.
Booted == boot # "none" => session \in Sessions /\ rec[session].pc = "off"

\* A scan of c is under way or about to be started by Reconcile.
Scanning(c) ==
    \/ \E w \in Workers : c \in task[w].chat /\ task[w].pc \in {"resolve", "mark", "scan"}
    \/ \E r \in Recs : rec[r].pc = "start" /\ c \in rec[r].chat

\* The active mark of a configured chat is honoured.
Honoured(c) == c \in active /\ c \in watched => c \in indexed \cup refused \/ Scanning(c)

\* The inductive invariant.
MembershipInv ==
    /\ Typed
    /\ Known
    /\ AboutOne
    /\ Booted
    /\ \A c \in Chats : Honoured(c)

-----------------------------------------------------------------------------
(* Types *)

\* The records of goroutines that have nothing to do are well typed.
LEMMA BlankType == NoRec \in RecType /\ NoTask \in TaskType
BY MembershipAssumption DEF NoRec, RecType, NoTask, TaskType

\* Spending one of the bounds keeps the budget within them.
LEMMA SpendType ==
    ASSUME Typed,
           \/ Spend("moves", MaxMoves)
           \/ Spend("ops", MaxOps)
           \/ Spend("faults", MaxFaults)
    PROVE  budget' \in AnyBudget
BY MembershipAssumption DEF Typed, Spend, AnyBudget

\* A failed RPC keeps the budget within its bounds.
LEMMA FailsType ==
    ASSUME Typed, NEW x, Fails(x)
    PROVE  budget' \in AnyBudget
BY SpendType DEF Fails, Typed, AnyBudget

\* The state before the first start satisfies the invariant.
LEMMA MembershipInit == Init => MembershipInv
<1> SUFFICES ASSUME Init PROVE MembershipInv OBVIOUS
<1>1. budget \in AnyBudget BY MembershipAssumption DEF Init, AnyBudget
<1>2. rec \in [Recs -> RecType] /\ task \in [Workers -> TaskType]
  BY BlankType DEF Init
<1>3. \A r \in Recs : rec[r] = NoRec BY DEF Init
<1>4. session \in 0..MaxSessions BY MembershipAssumption DEF Init
<1>5. Typed
  BY <1>1, <1>2, <1>3, <1>4
  DEF Init, Typed, AnyBudget, NoRec, Recs
<1>6. Known BY <1>3 DEF Init, Known, RecKnows, TaskKnows, NoRec, NoTask
<1>7. AboutOne BY DEF Init, AboutOne, NoTask
<1>. QED BY <1>5, <1>6, <1>7 DEF MembershipInv, Honoured, Booted, Init

-----------------------------------------------------------------------------
(* Steps by what they touch *)

\* A step of the update handlers, of the owner, of the connection: the goroutines and
\* the configuration stay, the cache grows, chats may lose their mark.
LEMMA QuietStep ==
    ASSUME MembershipInv, Typed', Booted', UNCHANGED <<rec, task, watched>>,
           cached \subseteq cached',
           active' \subseteq active,
           \A c \in active' : (c \in indexed => c \in indexed') /\ (c \in refused => c \in refused')
    PROVE  MembershipInv'
<1>1. Known' BY DEF MembershipInv, Known, RecKnows, TaskKnows
<1>2. AboutOne' BY DEF MembershipInv, AboutOne
<1>3. \A c \in Chats : Honoured(c)' BY DEF MembershipInv, Honoured, Scanning
<1>. QED BY <1>1, <1>2, <1>3 DEF MembershipInv

\* A step of a reconcile that leaves the scans alone: the chat of a reconcile that was
\* about to start one keeps it.
LEMMA RecStep ==
    ASSUME MembershipInv, Typed', UNCHANGED <<task, watched>>,
           NEW r \in Recs, NEW q \in RecType, rec' = [rec EXCEPT ![r] = q],
           boot' # "none" => UNCHANGED <<boot, session>> /\ (r = Status \/ rec[r].pc # "off"),
           rec[r].pc # "start", cached \subseteq cached', q.present \subseteq cached',
           q.pc \in {"join", "start"} => q.chat \subseteq cached',
           \A c, d \in q.chat : c = d,
           active' \subseteq active \cup (IF q.pc = "start" THEN q.chat ELSE {}),
           \A c \in active' : (c \in indexed => c \in indexed') /\ (c \in refused => c \in refused')
    PROVE  MembershipInv'
<1>0. \A s \in Recs : rec'[s] = IF s = r THEN q ELSE rec[s]
  BY DEF MembershipInv, Typed
<1>1. active' \subseteq cached' BY DEF MembershipInv, Known, RecKnows
<1>2. Known' BY <1>0, <1>1 DEF MembershipInv, Known, RecKnows, TaskKnows
<1>3. AboutOne' BY DEF MembershipInv, AboutOne
<1>4. ASSUME NEW c \in Chats PROVE Honoured(c)'
  <2>1. CASE c \in active
    <3>1. Scanning(c) => Scanning(c)' BY <1>0 DEF Scanning
    <3>. QED BY <2>1, <3>1 DEF MembershipInv, Honoured
  <2>2. CASE c \notin active BY <1>0, <2>2 DEF Honoured, Scanning
  <2>. QED BY <2>1, <2>2
<1>5. Booted' BY <1>0, MembershipAssumption DEF MembershipInv, Booted, Recs
<1>. QED BY <1>2, <1>3, <1>4, <1>5 DEF MembershipInv

\* A step of a goroutine: its chat is honoured afterwards, the others are as before.
LEMMA TaskStep ==
    ASSUME MembershipInv, Typed', UNCHANGED <<rec, boot, session>>,
           NEW w \in Workers, NEW t \in TaskType, Becomes(w, t),
           cached \subseteq cached', \A c, d \in t.chat : c = d,
           t.pc \in {"mark", "scan"} => t.chat \subseteq cached',
           active' \subseteq cached',
           \A c \in Chats \ task[w].chat : Honoured(c) => Honoured(c)',
           \A c \in task[w].chat : Honoured(c)'
    PROVE  MembershipInv'
<1>0. \A v \in Workers : task'[v] = IF v = w THEN t ELSE task[v]
  BY DEF MembershipInv, Typed, Becomes
<1>1. Known' BY <1>0 DEF MembershipInv, Known, RecKnows, TaskKnows
<1>2. AboutOne' BY <1>0 DEF MembershipInv, AboutOne
<1>3. Booted' BY DEF MembershipInv, Booted
<1>. QED BY <1>1, <1>2, <1>3 DEF MembershipInv

-----------------------------------------------------------------------------
(* The actions *)

\* Telegram, the updates, the operator's listing and the connection.
LEMMA QuietActions ==
    ASSUME MembershipInv,
           \/ Notice \/ Start \/ Stop \/ Reset \/ ReadyList
           \/ \E c \in Chats : Move(c)
    PROVE  MembershipInv'
<1>0. Typed /\ Booted BY DEF MembershipInv
<1>1. CASE Notice
  <2>1. Typed' BY <1>0, <1>1 DEF Notice, Typed, conn, maps
  <2>. QED BY <1>0, <1>1, <2>1, QuietStep DEF Notice, Booted, conn, maps
<1>2. CASE Start
  <2>1. Typed' 
    BY <1>0, <1>2, MembershipAssumption
    DEF Start, Typed, maps, Sessions
  <2>2. Booted'
    BY <1>0, <1>2, MembershipAssumption DEF Start, Typed, Booted, Sessions
  <2>. QED BY <1>2, <2>1, <2>2, QuietStep DEF Start, maps
<1>3. CASE Stop
  <2>1. Typed' BY <1>0, <1>3 DEF Stop, Typed, maps
  <2>. QED BY <1>0, <1>3, <2>1, QuietStep DEF Stop, Booted, maps
<1>4. CASE Reset
  <2>1. Typed' BY <1>0, <1>4 DEF Reset, Typed
  <2>. QED BY <1>0, <1>4, <2>1, QuietStep DEF Reset, Booted
<1>5. CASE ReadyList
  <2>1. budget' \in AnyBudget
    <3>1. UNCHANGED budget \/ Fails(session) BY <1>5 DEF ReadyList
    <3>. QED BY <1>0, <3>1, FailsType DEF Typed, AnyBudget
  <2>2. cached \subseteq cached' /\ cached' \subseteq Chats
    BY <1>0, <1>5 DEF ReadyList, Typed
  <2>3. Typed'
    BY <1>0, <1>5, <2>1, <2>2 DEF ReadyList, Typed, AnyBudget, maps
  <2>. QED BY <1>0, <1>5, <2>2, <2>3, QuietStep DEF ReadyList, Booted, maps
<1>6. ASSUME NEW c \in Chats, Move(c)
      PROVE  MembershipInv'
  <2>1. budget' \in AnyBudget BY <1>0, <1>6, SpendType DEF Move
  <2>2. member' \subseteq Chats BY <1>0, <1>6 DEF Move, Typed
  <2>3. Typed'
    BY <1>0, <1>6, <2>1, <2>2 DEF Move, Typed, AnyBudget, conn, maps
  <2>. QED BY <1>0, <1>6, <2>3, QuietStep DEF Move, Booted, conn, maps
<1>. QED BY <1>1, <1>2, <1>3, <1>4, <1>5, <1>6

\* A step of one reconcile of a session that has begun keeps the types.
LEMMA RecTyped ==
    ASSUME Typed, NEW r \in Recs, NEW q \in RecType,
           rec' = [rec EXCEPT ![r] = q],
           r \in Sessions => r <= session,
           r = Status => q.pc \notin {"wait", "coalesce"},
           UNCHANGED <<member, phase, session, ready, watched>>,
           boot' \in {"none", "list", "spawn"},
           {poke', owed'} \subseteq BOOLEAN,
           {cached', active', indexed', refused'} \subseteq SUBSET Chats,
           task' \in [Workers -> TaskType], budget' \in AnyBudget
    PROVE  Typed'
<1>0. rec \in [Recs -> RecType] BY DEF Typed
<1>1. \A s \in Recs : rec'[s] = IF s = r THEN q ELSE rec[s] BY <1>0
<1>2. rec' \in [Recs -> RecType] BY <1>0
<1>3. \A n \in Sessions : rec'[n].pc # "off" => n <= session'
  BY <1>1 DEF Typed, Recs
<1>4. rec'[Status].pc \notin {"wait", "coalesce"}
  BY <1>1 DEF Typed, Recs
<1>. QED BY <1>2, <1>3, <1>4 DEF Typed, AnyBudget

\* A reconcile that runs belongs to a session that has begun.
LEMMA RunningBegun ==
    ASSUME Typed, NEW r \in Recs, rec[r].pc # "off"
    PROVE  /\ r \in Sessions => r <= session
           /\ rec[r] \in RecType
           /\ r = Status => rec[r].pc \notin {"wait", "coalesce"}
BY DEF Typed, Recs

\* What a reconcile goes back to is well typed and knows nothing.
LEMMA FinishedType ==
    ASSUME NEW r \in Recs
    PROVE  /\ Finished(r) \in RecType
           /\ Finished(r).present = {}
           /\ Finished(r).chat = {}
           /\ Finished(r).pc \in {"off", "wait"}
           /\ r = Status => Finished(r).pc = "off"
BY DEF Finished, NoRec, RecType

\* The reconcile loop, its beginning included.
LEMMA LoopActions ==
    ASSUME MembershipInv,
           \/ ReadyLoop \/ CmdStatus
           \/ \E n \in Sessions : Tick(n) \/ Looping(n)
    PROVE  MembershipInv'
<1>0. Typed /\ Known BY DEF MembershipInv
<1>b. budget \in AnyBudget BY <1>0 DEF Typed, AnyBudget
<1>1. CASE ReadyLoop
  <2>1. session \in Sessions /\ rec[session].pc = "off"
    BY <1>1 DEF ReadyLoop, MembershipInv, Booted
  <2>2. session \in Recs /\ session # Status /\ session <= session
    BY <1>0, <2>1, MembershipAssumption DEF Recs, Sessions
  <2>3. PICK q \in RecType : q = Finished(session) BY <2>2, FinishedType
  <2>4. rec' = [rec EXCEPT ![session] = q] BY <1>1, <2>3 DEF ReadyLoop
  <2>5. Typed'
    BY <1>0, <1>1, <1>b, <2>2, <2>4, RecTyped DEF ReadyLoop, Typed, maps
  <2>6. q.present = {} /\ q.chat = {} /\ q.pc \in {"off", "wait"}
    BY <2>2, <2>3, FinishedType
  <2>. QED BY <1>1, <2>1, <2>2, <2>4, <2>5, <2>6, RecStep DEF ReadyLoop, maps
<1>2. CASE CmdStatus
  <2>1. Status \in Recs /\ Status \notin Sessions BY MembershipAssumption DEF Recs
  <2>2. PICK q \in RecType : q = [rec[Status] EXCEPT !.pc = "list"]
    BY <1>0, <2>1 DEF Typed, RecType
  <2>3. rec' = [rec EXCEPT ![Status] = q] BY <1>2, <2>2 DEF CmdStatus, RecGoes
  <2>4. q.present = rec[Status].present /\ q.chat = rec[Status].chat /\ q.pc = "list"
    BY <1>0, <2>1, <2>2 DEF Typed, RecType
  <2>5. budget' \in AnyBudget BY <1>0, <1>2, SpendType DEF CmdStatus
  <2>6. Typed'
    BY <1>0, <1>2, <2>1, <2>3, <2>4, <2>5, RecTyped
    DEF CmdStatus, Typed, conn, maps
  <2>7. q.present \subseteq cached' /\ \A c, d \in q.chat : c = d
    BY <1>0, <1>2, <2>1, <2>4 DEF Known, RecKnows, CmdStatus
  <2>. QED BY <1>2, <2>1, <2>3, <2>4, <2>6, <2>7, RecStep DEF CmdStatus, conn, maps
<1>3. ASSUME NEW n \in Sessions, Tick(n) \/ Poked(n) \/ Coalesced(n)
      PROVE  MembershipInv'
  <2>1. PICK pc \in {"list", "coalesce"} : RecGoes(n, pc)
    BY <1>3 DEF Tick, Poked, Coalesced
  <2>2. rec[n].pc \in {"wait", "coalesce"}
    BY <1>3 DEF Tick, Poked, Coalesced
  <2>3. n \in Recs /\ n # Status BY MembershipAssumption DEF Recs
  <2>4. PICK q \in RecType : q = [rec[n] EXCEPT !.pc = pc]
    BY <1>0, <2>3 DEF Typed, RecType
  <2>5. rec' = [rec EXCEPT ![n] = q] BY <2>1, <2>4 DEF RecGoes
  <2>6. poke' \in BOOLEAN
    BY <1>0, <1>3 DEF Tick, Poked, Coalesced, Typed
  <2>7. UNCHANGED <<member, conn, watched, cached, maps, task, owed, budget>>
    BY <1>3 DEF Tick, Poked, Coalesced
  <2>8. n <= session BY <1>0, <2>2, <2>3, RunningBegun
  <2>9. Typed'
    BY <1>0, <1>b, <2>3, <2>5, <2>6, <2>7, <2>8, RecTyped DEF Typed, conn, maps
  <2>10. q.present = rec[n].present /\ q.chat = rec[n].chat /\ q.pc = pc
    BY <1>0, <2>3, <2>4 DEF Typed, RecType
  <2>11. q.present \subseteq cached' /\ \A c, d \in q.chat : c = d
    BY <1>0, <2>3, <2>7, <2>10 DEF Known, RecKnows
  <2>. QED BY <2>2, <2>3, <2>5, <2>7, <2>9, <2>10, <2>11, RecStep DEF conn, maps
<1>4. ASSUME NEW n \in Sessions, LoopDone(n)
      PROVE  MembershipInv'
  <2>1. n \in Recs /\ n # Status BY MembershipAssumption DEF Recs
  <2>2. n <= session BY <1>0, <1>4, <2>1, RunningBegun DEF LoopDone
  <2>3. Typed'
    BY <1>0, <1>b, <1>4, <2>1, <2>2, BlankType, RecTyped
    DEF LoopDone, Typed, conn, maps
  <2>. QED BY <1>4, <2>1, <2>3, BlankType, RecStep DEF LoopDone, conn, maps, NoRec
<1>. QED BY <1>1, <1>2, <1>3, <1>4 DEF Looping

-----------------------------------------------------------------------------
(* Reconcile *)

\* Reconcile up to its verdict on a chat, and its return.
LEMMA JudgeActions ==
    ASSUME MembershipInv, NEW r \in Recs,
           \/ List(r) \/ ListFailed(r) \/ ReadConfig(r) \/ ReadActive(r) \/ JudgedAll(r)
           \/ \E c \in Chats : Judge(r, c)
    PROVE  MembershipInv'
<1>0. Typed /\ Known BY DEF MembershipInv
<1>b. budget \in AnyBudget BY <1>0 DEF Typed, AnyBudget
<1>r. /\ rec[r].pc \in {"list", "read", "watch", "judge"}
      /\ rec[r].pc # "off"
      /\ rec[r].present \subseteq cached
      /\ \A c, d \in rec[r].chat : c = d
  BY <1>0 DEF List, ListFailed, ReadConfig, ReadActive, JudgedAll, Judge, Known, RecKnows
<1>s. (r \in Sessions => r <= session) /\ rec[r] \in RecType BY <1>0, <1>r, RunningBegun
<1>1. CASE List(r)
  <2>1. PICK q \in RecType : q = [rec[r] EXCEPT !.pc = "read", !.present = member]
    BY <1>0, <1>s DEF Typed, RecType
  <2>2. rec' = [rec EXCEPT ![r] = q]
    BY <1>0, <1>1, <1>s, <2>1 DEF List, Typed, RecType
  <2>3. q.pc = "read" /\ q.present = member /\ q.chat = rec[r].chat
    BY <1>s, <2>1 DEF RecType
  <2>4. Typed'
    <3>1. /\ UNCHANGED <<member, phase, session, ready, watched, boot, poke>>
          /\ UNCHANGED <<active, indexed, refused, task, budget>>
          /\ cached' = cached \cup member
          /\ owed' = FALSE
      BY <1>1 DEF List, conn, maps
    <3>2. cached' \in SUBSET Chats BY <1>0, <3>1 DEF Typed
    <3>. QED BY <1>0, <1>b, <1>s, <2>2, <2>3, <3>1, <3>2, RecTyped DEF Typed
  <2>5. /\ UNCHANGED <<task, watched, boot, session, active, indexed, refused>>
        /\ cached' = cached \cup member
    BY <1>1 DEF List, conn, maps
  <2>6. q.present \subseteq cached' /\ cached \subseteq cached' BY <2>3, <2>5
  <2>7. \A c, d \in q.chat : c = d BY <1>r, <2>3
  <2>8. q.pc # "join" /\ q.pc # "start" /\ rec[r].pc # "start" BY <1>r, <2>3
  <2>. QED BY <1>r, <2>2, <2>4, <2>5, <2>6, <2>7, <2>8, RecStep
<1>2. CASE ListFailed(r) \/ JudgedAll(r)
  <2>1. PICK q \in RecType : q = Finished(r) BY FinishedType
  <2>2. rec' = [rec EXCEPT ![r] = q] BY <1>2, <2>1 DEF ListFailed, JudgedAll
  <2>3. q.present = {} /\ q.chat = {} /\ q.pc \in {"off", "wait"} /\ (r = Status => q.pc = "off")
    BY <2>1, FinishedType
  <2>4. budget' \in AnyBudget
    <3>1. CASE ListFailed(r) BY <1>0, <3>1, FailsType DEF ListFailed
    <3>2. CASE JudgedAll(r) BY <1>b, <3>2 DEF JudgedAll
    <3>. QED BY <1>2, <3>1, <3>2
  <2>5. poke' \in BOOLEAN
    BY <1>0, <1>2 DEF ListFailed, JudgedAll, PokesLeft, Typed
  <2>6. UNCHANGED <<member, conn, watched, cached, maps, task, owed>>
    BY <1>2 DEF ListFailed, JudgedAll
  <2>7. Typed'
    BY <1>0, <1>s, <2>2, <2>3, <2>4, <2>5, <2>6, RecTyped DEF Typed, conn, maps
  <2>. QED BY <1>r, <2>2, <2>3, <2>6, <2>7, RecStep DEF conn, maps
<1>3. CASE ReadConfig(r) \/ ReadActive(r)
  <2>1. PICK q \in RecType :
          /\ rec' = [rec EXCEPT ![r] = q]
          /\ q.pc \in {"watch", "judge"}
          /\ q.present = rec[r].present
          /\ q.chat = rec[r].chat
    <3>1. CASE ReadConfig(r)
      <4>1. [rec[r] EXCEPT !.pc = "watch", !.watch = watched] \in RecType
        BY <1>0, <1>s DEF Typed, RecType
      <4>. QED BY <1>0, <1>s, <3>1, <4>1 DEF ReadConfig, Typed, RecType
    <3>2. CASE ReadActive(r)
      <4>1. [rec[r] EXCEPT !.pc = "judge", !.watch = @ \cup Maintained] \in RecType
        BY <1>0, <1>s DEF Typed, RecType, Maintained
      <4>. QED BY <1>0, <1>s, <3>2, <4>1 DEF ReadActive, Typed, RecType
    <3>. QED BY <1>3, <3>1, <3>2
  <2>2. UNCHANGED <<member, conn, poke, watched, cached, maps, task, owed, budget>>
    BY <1>3 DEF ReadConfig, ReadActive
  <2>3. Typed'
    BY <1>0, <1>b, <1>s, <2>1, <2>2, RecTyped DEF Typed, conn, maps
  <2>4. UNCHANGED <<task, watched, boot, session, active, indexed, refused, cached>>
    BY <2>2 DEF conn, maps
  <2>5. q.present \subseteq cached' /\ \A c, d \in q.chat : c = d BY <1>r, <2>1, <2>4
  <2>6. q.pc # "join" /\ q.pc # "start" /\ rec[r].pc # "start" BY <1>r, <2>1
  <2>. QED BY <1>r, <2>1, <2>3, <2>4, <2>5, <2>6, RecStep
<1>4. ASSUME NEW c \in Chats, Judge(r, c)
      PROVE  MembershipInv'
  <2>1. PICK q \in RecType :
          /\ rec' = [rec EXCEPT ![r] = q]
          /\ q.pc \in {"lose", "join", "judge"}
          /\ q.pc = "join" => q.chat \subseteq cached
          /\ q.present = rec[r].present
          /\ \A d, e \in q.chat : d = e
    <3> DEFINE here == c \in rec[r].present
               pc == IF c \in active /\ ~here THEN "lose"
                     ELSE IF c \notin active /\ here /\ c \in watched THEN "join"
                     ELSE "judge"
               q == [rec[r] EXCEPT !.pc = pc, !.watch = @ \ {c},
                                   !.chat = IF pc = "judge" THEN {} ELSE {c}]
    <3>1. rec' = [rec EXCEPT ![r] = q]
      BY <1>0, <1>4, <1>s DEF Judge, Typed, RecType
    <3>2. pc \in {"lose", "join", "judge"} /\ (pc = "join" => c \in cached) BY <1>r
    <3>. HIDE DEF pc
    <3>3. q \in RecType BY <1>s, <3>2 DEF RecType
    <3>. QED BY <1>s, <3>1, <3>2, <3>3 DEF RecType
  <2>2. UNCHANGED <<member, conn, poke, watched, cached, maps, task, owed, budget>>
    BY <1>4 DEF Judge
  <2>3. Typed'
    BY <1>0, <1>b, <1>s, <2>1, <2>2, RecTyped DEF Typed, conn, maps
  <2>4. UNCHANGED <<task, watched, boot, session, active, indexed, refused, cached>>
    BY <2>2 DEF conn, maps
  <2>5. /\ q.present \subseteq cached'
        /\ q.pc \in {"join", "start"} => q.chat \subseteq cached'
    BY <1>r, <2>1, <2>4
  <2>. QED BY <1>r, <2>1, <2>3, <2>4, <2>5, RecStep
<1>. QED BY <1>1, <1>2, <1>3, <1>4

\* The verdicts of Reconcile that change the active mark.
LEMMA VerdictActions ==
    ASSUME MembershipInv, NEW r \in Recs, Lose(r) \/ Join(r)
    PROVE  MembershipInv'
<1>0. Typed /\ Known BY DEF MembershipInv
<1>b. budget \in AnyBudget BY <1>0 DEF Typed, AnyBudget
<1>r. /\ rec[r].pc \in {"lose", "join"}
      /\ rec[r].pc # "off"
      /\ rec[r].present \subseteq cached
      /\ \A c, d \in rec[r].chat : c = d
      /\ rec[r].pc = "join" => rec[r].chat \subseteq cached
  BY <1>0 DEF Lose, Join, Known, RecKnows
<1>s. (r \in Sessions => r <= session) /\ rec[r] \in RecType BY <1>0, <1>r, RunningBegun
<1>1. CASE Lose(r)
  <2>1. PICK q \in RecType : q = [rec[r] EXCEPT !.pc = "judge", !.chat = {}]
    BY <1>s DEF RecType
  <2>2. rec' = [rec EXCEPT ![r] = q]
    BY <1>0, <1>1, <1>s, <2>1 DEF Lose, JudgesOn, Typed, RecType
  <2>3. q.pc = "judge" /\ q.present = rec[r].present /\ q.chat = {}
    BY <1>s, <2>1 DEF RecType
  <2>4. Typed'
    BY <1>0, <1>1, <1>b, <1>s, <2>2, <2>3, RecTyped
    DEF Lose, Forgotten, StillActive, Typed, conn
  <2>. QED
    BY <1>1, <1>r, <2>2, <2>3, <2>4, RecStep DEF Lose, Forgotten, StillActive, conn
<1>2. CASE Join(r)
  <2>1. PICK q \in RecType : q = [rec[r] EXCEPT !.pc = "start"]
    BY <1>s DEF RecType
  <2>2. rec' = [rec EXCEPT ![r] = q]
    BY <1>2, <2>1 DEF Join, RecGoes
  <2>3. q.pc = "start" /\ q.present = rec[r].present /\ q.chat = rec[r].chat
    BY <1>s, <2>1 DEF RecType
  <2>4. Typed'
    BY <1>0, <1>2, <1>b, <1>s, <2>2, <2>3, RecTyped DEF Join, Typed, RecType, conn
  <2>5. rec[r].pc = "join" BY <1>2 DEF Join
  <2>6. /\ UNCHANGED <<task, watched, boot, session, indexed, refused, cached>>
        /\ active' = active \cup q.chat
    BY <1>2, <2>3 DEF Join, conn
  <2>7. /\ q.present \subseteq cached' /\ q.chat \subseteq cached'
        /\ \A c, d \in q.chat : c = d
    BY <1>r, <2>3, <2>5, <2>6
  <2>. QED BY <1>r, <2>2, <2>3, <2>4, <2>5, <2>6, <2>7, RecStep
<1>. QED BY <1>1, <1>2

-----------------------------------------------------------------------------
(* Goroutines *)

\* A step of one goroutine keeps the types.
LEMMA TaskTyped ==
    ASSUME Typed, NEW w \in Workers, NEW t \in TaskType, Becomes(w, t),
           UNCHANGED <<member, phase, session, boot, poke, owed>>,
           {ready', watched', cached', active', indexed', refused'} \subseteq SUBSET Chats,
           rec' \in [Recs -> RecType], \A r \in Recs : rec'[r].pc \in {rec[r].pc, "judge"},
           \A r \in Recs : rec[r].pc = "off" => rec'[r].pc = "off",
           budget' \in AnyBudget
    PROVE  Typed'
<1>1. task' \in [Workers -> TaskType] BY DEF Typed, Becomes
<1>2. \A n \in Sessions : rec'[n].pc # "off" => n <= session'
  BY DEF Typed, Recs
<1>3. rec'[Status].pc \notin {"wait", "coalesce"} BY DEF Typed, Recs
<1>. QED BY <1>1, <1>2, <1>3 DEF Typed, AnyBudget

\* What a spawned goroutine starts with.
LEMMA SpawnedType ==
    ASSUME Typed, NEW w \in Workers, NEW pc \in {"resolve", "forget"},
           NEW op \in {"enable", "drain"}, NEW c \in Chats, NEW n \in 0..MaxSessions,
           Spawn(w, pc, op, c, n)
    PROVE  \E t \in TaskType : /\ Becomes(w, t)
                               /\ t.pc = pc
                               /\ t.chat = {c}
                               /\ task[w].pc = "idle"
<1> DEFINE t == [pc |-> pc, op |-> op, chat |-> {c}, ctx |-> n]
<1>1. t \in TaskType BY DEF TaskType
<1>2. Becomes(w, t) /\ task[w].pc = "idle" BY DEF Spawn
<1>. QED BY <1>1, <1>2

\* The goroutines of the cleaner.
LEMMA WorkingActions ==
    ASSUME MembershipInv, NEW w \in Workers, Working(w)
    PROVE  MembershipInv'
<1>0. Typed /\ Known /\ AboutOne BY DEF MembershipInv
<1>b. budget \in AnyBudget BY <1>0 DEF Typed, AnyBudget
<1>w. task[w] \in TaskType /\ task \in [Workers -> TaskType] BY <1>0 DEF Typed
<1>n. NoTask \in TaskType /\ NoTask.pc = "idle" /\ NoTask.chat = {}
  BY BlankType DEF NoTask
<1>o. \A c, d \in task[w].chat : c = d BY <1>0 DEF AboutOne
<1>r. rec' = rec => /\ rec' \in [Recs -> RecType]
                    /\ \A r \in Recs : rec'[r].pc \in {rec[r].pc, "judge"}
                    /\ \A r \in Recs : rec[r].pc = "off" => rec'[r].pc = "off"
  BY <1>0 DEF Typed
<1>h. ASSUME NEW t \in TaskType, Becomes(w, t), UNCHANGED <<rec, watched>>,
             NEW c \in Chats \ task[w].chat,
             c \in active' => c \in active,
             c \in indexed \cup refused => c \in indexed' \cup refused',
             Honoured(c)
      PROVE  Honoured(c)'
  <2>1. \A v \in Workers : task'[v] = IF v = w THEN t ELSE task[v]
    BY <1>w, <1>h DEF Becomes
  <2>2. Scanning(c) => Scanning(c)' BY <1>h, <2>1 DEF Scanning
  <2>. QED BY <1>h, <2>2 DEF Honoured
<1>1. CASE Resolve(w)
  <2>1. PICK t \in TaskType :
          /\ Becomes(w, t)
          /\ t.pc \in {"idle", "mark"}
          /\ t.chat \subseteq task[w].chat
          /\ t.pc = "mark" => t.chat \subseteq cached' /\ t.chat = task[w].chat
          /\ t.pc = "idle" => \/ ~(task[w].chat \subseteq cached')
                              \/ ~(task[w].chat \subseteq watched)
    <3> DEFINE gone == \/ ~(task[w].chat \subseteq cached')
                       \/ task[w].op = "drain" /\ ~(task[w].chat \subseteq watched)
               next == [task[w] EXCEPT !.pc = "mark"]
    <3>1. Becomes(w, IF gone THEN NoTask ELSE next) BY <1>1 DEF Resolve, UnknownGroup
    <3>2. next \in TaskType /\ next.pc = "mark" /\ next.chat = task[w].chat
      BY <1>w DEF TaskType
    <3>3. CASE gone BY <1>n, <3>1, <3>3
    <3>4. CASE ~gone BY <3>1, <3>2, <3>4
    <3>. QED BY <3>3, <3>4
  <2>2. cached \subseteq cached' /\ cached' \in SUBSET Chats
    BY <1>0, <1>1 DEF Resolve, Typed
  <2>3. UNCHANGED <<member, conn, poke, watched, maps, rec, owed, budget>>
    BY <1>1 DEF Resolve
  <2>4. Typed'
    BY <1>0, <1>b, <1>r, <2>1, <2>2, <2>3, TaskTyped DEF Typed, conn, maps
  <2>5. active' \subseteq cached' BY <1>0, <2>2, <2>3 DEF Known, maps
  <2>6. \A c \in Chats \ task[w].chat : Honoured(c) => Honoured(c)'
    BY <1>h, <2>1, <2>3 DEF maps
  <2>7. \A c \in task[w].chat : Honoured(c)'
    <3>1. CASE t.pc = "mark"
      <4>1. task'[w] = t BY <1>w, <2>1 DEF Becomes
      <4>. QED BY <2>1, <3>1, <4>1 DEF Honoured, Scanning
    <3>2. CASE t.pc = "idle"
      BY <1>o, <2>1, <2>3, <2>5, <3>2 DEF Honoured
    <3>. QED BY <2>1, <3>1, <3>2
  <2>8. \A c, d \in t.chat : c = d BY <1>o, <2>1
  <2>. QED BY <2>1, <2>2, <2>3, <2>4, <2>5, <2>6, <2>7, <2>8, TaskStep DEF conn
<1>2. CASE ResolveFailed(w)
  <2>1. budget' \in AnyBudget BY <1>0, <1>2, FailsType DEF ResolveFailed
  <2>2. UNCHANGED <<member, conn, poke, watched, cached, maps, rec, owed>>
    BY <1>2 DEF ResolveFailed
  <2>3. Becomes(w, NoTask) /\ ~(task[w].chat \subseteq cached) BY <1>2 DEF ResolveFailed
  <2>4. Typed'
    BY <1>0, <1>n, <1>r, <2>1, <2>2, <2>3, TaskTyped DEF Typed, conn, maps
  <2>5. active' \subseteq cached' BY <1>0, <2>2 DEF Known, maps
  <2>6. \A c \in Chats \ task[w].chat : Honoured(c) => Honoured(c)'
    BY <1>h, <1>n, <2>2, <2>3 DEF maps
  <2>7. \A c \in task[w].chat : Honoured(c)' BY <1>o, <2>2, <2>3, <2>5 DEF Honoured
  <2>. QED BY <1>n, <2>2, <2>3, <2>4, <2>5, <2>6, <2>7, TaskStep DEF conn
<1>3. CASE MarkActive(w)
  <2>1. PICK t \in TaskType : /\ Becomes(w, t)
                              /\ t.pc = "scan"
                              /\ t.chat = task[w].chat
    <3>1. [task[w] EXCEPT !.pc = "scan"] \in TaskType BY <1>w DEF TaskType
    <3>. QED BY <1>3, <1>w, <3>1 DEF MarkActive, TaskType
  <2>2. /\ UNCHANGED <<member, conn, poke, watched, cached>>
        /\ UNCHANGED <<indexed, refused, rec, owed, budget>>
        /\ active' = active \cup task[w].chat
    BY <1>3 DEF MarkActive
  <2>3. task[w].chat \subseteq cached BY <1>0, <1>3 DEF MarkActive, Known, TaskKnows
  <2>4. Typed'
    <3>1. active' \in SUBSET Chats BY <1>0, <2>2, <2>3 DEF Typed
    <3>. QED BY <1>0, <1>b, <1>r, <2>1, <2>2, <3>1, TaskTyped DEF Typed, conn
  <2>5. active' \subseteq cached' BY <1>0, <2>2, <2>3 DEF Known
  <2>6. \A c \in Chats \ task[w].chat : Honoured(c) => Honoured(c)'
    BY <1>h, <2>1, <2>2
  <2>7. \A c \in task[w].chat : Honoured(c)'
    <3>1. task'[w] = t BY <1>w, <2>1 DEF Becomes
    <3>. QED BY <2>1, <3>1 DEF Honoured, Scanning
  <2>. QED BY <1>o, <2>1, <2>2, <2>3, <2>4, <2>5, <2>6, <2>7, TaskStep DEF conn
<1>4. CASE Scan(w) \/ ScanFailed(w)
  <2>1. /\ Becomes(w, NoTask)
        /\ UNCHANGED <<member, conn, poke, watched, cached, active, rec, owed>>
    BY <1>4 DEF Scan, ScanFailed
  <2>2. /\ indexed' \cup refused' = indexed \cup refused \cup task[w].chat
        /\ indexed' \subseteq indexed \cup task[w].chat
        /\ refused' \subseteq refused \cup task[w].chat
    BY <1>4 DEF Scan, ScanFailed
  <2>3. budget' \in AnyBudget
    <3>1. CASE Scan(w) BY <1>b, <3>1 DEF Scan
    <3>2. CASE ScanFailed(w)
      <4>1. UNCHANGED budget \/ Fails(task[w].ctx) BY <3>2 DEF ScanFailed
      <4>. QED BY <1>0, <1>b, <4>1, FailsType
    <3>. QED BY <1>4, <3>1, <3>2
  <2>4. {indexed', refused'} \subseteq SUBSET Chats
    BY <1>0, <1>w, <2>2 DEF Typed, TaskType
  <2>5. Typed'
    BY <1>0, <1>n, <1>r, <2>1, <2>3, <2>4, TaskTyped DEF Typed, conn
  <2>6. active' \subseteq cached' BY <1>0, <2>1 DEF Known
  <2>7. \A c \in Chats \ task[w].chat : Honoured(c) => Honoured(c)'
    BY <1>h, <1>n, <2>1, <2>2
  <2>8. \A c \in task[w].chat : Honoured(c)' BY <2>2 DEF Honoured
  <2>. QED BY <1>n, <2>1, <2>5, <2>6, <2>7, <2>8, TaskStep DEF conn
<1>5. CASE DisableChat(w)
  <2>1. /\ Becomes(w, NoTask)
        /\ UNCHANGED <<member, conn, poke, watched, cached, rec, owed, budget>>
        /\ active' = active \ task[w].chat
        /\ indexed' = indexed \ task[w].chat
        /\ refused' = refused \ task[w].chat
    BY <1>5 DEF DisableChat, Forgotten, StillActive
  <2>2. {active', indexed', refused'} \subseteq SUBSET Chats
    BY <1>0, <2>1 DEF Typed
  <2>3. Typed'
    BY <1>0, <1>b, <1>n, <1>r, <2>1, <2>2, TaskTyped DEF Typed, conn
  <2>4. active' \subseteq cached' BY <1>0, <2>1 DEF Known
  <2>5. \A c \in Chats \ task[w].chat : Honoured(c) => Honoured(c)'
    BY <1>h, <1>n, <2>1
  <2>6. \A c \in task[w].chat : Honoured(c)' BY <2>1 DEF Honoured
  <2>. QED BY <1>n, <2>1, <2>3, <2>4, <2>5, <2>6, TaskStep DEF conn
<1>. QED BY <1>1, <1>2, <1>3, <1>4, <1>5 DEF Working

-----------------------------------------------------------------------------
(* The goroutines that a handler starts *)

\* startDrain: the goroutine takes the chat over from the reconcile.
LEMMA StartDrainStep ==
    ASSUME MembershipInv, NEW r \in Recs, NEW w \in Workers, StartDrain(r, w)
    PROVE  MembershipInv'
<1>0. Typed /\ Known /\ AboutOne /\ Booted BY DEF MembershipInv
<1>b. budget \in AnyBudget /\ 0 \in 0..MaxSessions
  BY <1>0, MembershipAssumption DEF Typed, AnyBudget
<1>1. UNCHANGED <<member, conn, poke, watched, cached, maps, owed, budget>>
  BY DEF StartDrain
<1>2. rec[r] \in RecType /\ rec[r].pc = "start" BY <1>0 DEF Typed, StartDrain
<1>3. PICK c \in rec[r].chat : Spawn(w, "resolve", "drain", c, 0) BY DEF StartDrain
<1>4. c \in Chats /\ rec[r].chat = {c}
  BY <1>0, <1>2 DEF RecType, Known, RecKnows
<1>5. PICK t \in TaskType : /\ Becomes(w, t)
                            /\ t.pc = "resolve"
                            /\ t.chat = {c}
                            /\ task[w].pc = "idle"
  BY <1>0, <1>b, <1>3, <1>4, SpawnedType
<1>6. PICK q \in RecType : /\ rec' = [rec EXCEPT ![r] = q]
                           /\ q.pc = "judge"
                           /\ q.chat = {}
                           /\ q.present = rec[r].present
  <2>1. [rec[r] EXCEPT !.pc = "judge", !.chat = {}] \in RecType BY <1>2 DEF RecType
  <2>. QED BY <1>0, <1>2, <2>1 DEF StartDrain, JudgesOn, Typed, RecType
<1>7. rec \in [Recs -> RecType] /\ task \in [Workers -> TaskType]
  BY <1>0 DEF Typed
<1>8. \A s \in Recs : rec'[s] = IF s = r THEN q ELSE rec[s] BY <1>6, <1>7
<1>9. \A v \in Workers : task'[v] = IF v = w THEN t ELSE task[v]
  BY <1>5, <1>7 DEF Becomes
<1>10. Typed'
  <2>1. rec' \in [Recs -> RecType] BY <1>6, <1>7
  <2>2. \A s \in Recs : rec'[s].pc \in {rec[s].pc, "judge"} BY <1>6, <1>8
  <2>3. \A s \in Recs : rec[s].pc = "off" => rec'[s].pc = "off" BY <1>2, <1>8
  <2>. QED
    BY <1>0, <1>b, <1>1, <1>5, <2>1, <2>2, <2>3, TaskTyped DEF Typed, conn, maps
<1>11. Known'
  BY <1>0, <1>1, <1>5, <1>6, <1>8, <1>9 DEF Known, RecKnows, TaskKnows, maps
<1>12. AboutOne' BY <1>0, <1>5, <1>9 DEF AboutOne
<1>13. Booted'
  BY <1>0, <1>1, <1>2, <1>8 DEF Booted, conn, Recs
<1>14. ASSUME NEW d \in Chats PROVE Honoured(d)'
  <2>1. CASE d = c BY <1>5, <1>9, <2>1 DEF Honoured, Scanning
  <2>2. CASE d # c
    <3>1. Scanning(d) => Scanning(d)' BY <1>4, <1>5, <1>8, <1>9, <2>2 DEF Scanning
    <3>. QED BY <1>1, <3>1 DEF MembershipInv, Honoured, maps
  <2>. QED BY <2>1, <2>2
<1>. QED BY <1>10, <1>11, <1>12, <1>13, <1>14 DEF MembershipInv

\* The operator's settings, and the scans that onReady starts.
LEMMA SpawnActions ==
    ASSUME MembershipInv, NEW w \in Workers, NEW c \in Chats,
           SetTTL(w, c) \/ ClearTTL(w, c) \/ ReadySpawn(w, c)
    PROVE  MembershipInv'
<1>0. Typed /\ Known /\ AboutOne BY DEF MembershipInv
<1>1. session \in 0..MaxSessions /\ 0 \in 0..MaxSessions
  BY <1>0, MembershipAssumption DEF Typed
<1>2. PICK t \in TaskType : /\ Becomes(w, t)
                            /\ t.pc \in {"resolve", "forget"}
                            /\ t.chat = {c}
                            /\ task[w].pc = "idle"
                            /\ t.pc = "forget" => watched' = watched \ {c}
  <2>1. CASE SetTTL(w, c)
    <3>1. PICK op \in {"enable", "drain"} : Spawn(w, "resolve", op, c, 0)
      BY <2>1 DEF SetTTL
    <3>. QED BY <1>0, <1>1, <3>1, SpawnedType
  <2>2. CASE ClearTTL(w, c)
    <3>1. Spawn(w, "forget", "drain", c, 0) /\ watched' = watched \ {c}
      BY <2>2 DEF ClearTTL
    <3>. QED BY <1>0, <1>1, <3>1, SpawnedType
  <2>3. CASE ReadySpawn(w, c)
    <3>1. Spawn(w, "resolve", "enable", c, session) BY <2>3 DEF ReadySpawn
    <3>. QED BY <1>0, <1>1, <3>1, SpawnedType
  <2>. QED BY <2>1, <2>2, <2>3
<1>3. budget' \in AnyBudget
  <2>1. CASE SetTTL(w, c) \/ ClearTTL(w, c)
    BY <1>0, <2>1, SpendType DEF SetTTL, ClearTTL
  <2>2. CASE ReadySpawn(w, c) BY <1>0, <2>2 DEF ReadySpawn, Typed, AnyBudget
  <2>. QED BY <2>1, <2>2
<1>4. {watched', ready'} \subseteq SUBSET Chats
  BY <1>0 DEF SetTTL, ClearTTL, ReadySpawn, Typed, conn
<1>5. \A d \in Chats \ {c} : d \in watched' => d \in watched
  BY DEF SetTTL, ClearTTL, ReadySpawn
<1>6. UNCHANGED <<member, phase, session, boot, poke, cached, maps, rec, owed>>
  BY DEF SetTTL, ClearTTL, ReadySpawn, conn
<1>7. Typed'
  BY <1>0, <1>2, <1>3, <1>4, <1>6, TaskTyped DEF Typed, maps
<1>8. \A v \in Workers : task'[v] = IF v = w THEN t ELSE task[v]
  BY <1>0, <1>2 DEF Becomes, Typed
<1>9. \A d \in Chats \ {c} : Honoured(d) => Honoured(d)'
  <2>1. \A d \in Chats \ {c} : Scanning(d) => Scanning(d)'
    BY <1>2, <1>6, <1>8 DEF Scanning
  <2>. QED BY <1>5, <1>6, <2>1 DEF Honoured, maps
<1>10. Honoured(c)'
  <2>1. CASE t.pc = "resolve" BY <1>2, <1>8, <2>1 DEF Honoured, Scanning
  <2>2. CASE t.pc = "forget" BY <1>2, <2>2 DEF Honoured
  <2>. QED BY <1>2, <2>1, <2>2
<1>11. active' \subseteq cached' BY <1>0, <1>6 DEF Known, maps
<1>12. \A d \in Chats : Honoured(d)' BY <1>9, <1>10 DEF MembershipInv
<1>13. \A d \in task[w].chat : Honoured(d)'
  BY <1>0, <1>12 DEF Typed, TaskType
<1>. QED BY <1>2, <1>6, <1>7, <1>11, <1>12, <1>13, TaskStep

-----------------------------------------------------------------------------
(* The theorems *)

\* Every step keeps the invariant.
LEMMA MembershipStep == MembershipInv /\ [Next]_vars => MembershipInv'
<1> SUFFICES ASSUME MembershipInv, [Next]_vars PROVE MembershipInv' OBVIOUS
<1>1. CASE Notice \/ Start \/ Stop \/ Reset \/ ReadyList
          \/ \E c \in Chats : Move(c)
  BY <1>1, QuietActions
<1>2. CASE ReadyLoop \/ CmdStatus \/ \E n \in Sessions : Tick(n) \/ Looping(n)
  BY <1>2, LoopActions
<1>3. ASSUME NEW r \in Recs, Reconciling(r)
      PROVE  MembershipInv'
  BY <1>3, JudgeActions, VerdictActions, StartDrainStep DEF Reconciling
<1>4. ASSUME NEW w \in Workers, Working(w)
      PROVE  MembershipInv'
  BY <1>4, WorkingActions
<1>5. ASSUME NEW w \in Workers, NEW c \in Chats,
             SetTTL(w, c) \/ ClearTTL(w, c) \/ ReadySpawn(w, c)
      PROVE  MembershipInv'
  BY <1>5, SpawnActions
<1>6. CASE UNCHANGED vars
  BY <1>6
  DEF vars, conn, maps, MembershipInv, Typed, Known, RecKnows,
      TaskKnows, AboutOne, Booted, Honoured, Scanning
<1>. QED BY <1>1, <1>2, <1>3, <1>4, <1>5, <1>6 DEF Next, Booting

\* The invariant holds throughout.
LEMMA MembershipInvariant == Spec => []MembershipInv
<1>1. Init => MembershipInv BY MembershipInit
<1>2. MembershipInv /\ [Next]_vars => MembershipInv' BY MembershipStep
<1>. QED BY <1>1, <1>2, PTL DEF Spec

\* What reconcileLoop, Reconcile, the scans and the commands keep in their fields and
\* local variables has its type, and only sessions that have begun have a loop.
THEOREM MembershipTypeCorrect == Spec => []MembershipTypeOK
<1>1. MembershipInv => MembershipTypeOK BY DEF MembershipInv, MembershipTypeOK, Known
<1>. QED BY <1>1, MembershipInvariant, PTL

\* A configured chat that markActive has marked has an index, or a scan of it was
\* refused, or one is under way: with every overlap of Reconcile, /status, EnableChat,
\* drainChat, the settings, restarts and failures.
THEOREM MarkedIndexedCorrect == Spec => []MarkedIndexed
<1>1. MembershipInv => MarkedIndexed
  <2> SUFFICES ASSUME MembershipInv, NEW c \in Chats, Promised(c)
               PROVE  c \in indexed \cup refused \/ WillScan(c)
    BY DEF MarkedIndexed
  <2>1. Honoured(c) BY DEF MembershipInv
  <2>2. Scanning(c) => WillScan(c) BY DEF Scanning, WillScan
  <2>. QED BY <2>1, <2>2 DEF Honoured, Promised
<1>. QED BY <1>1, MembershipInvariant, PTL

=============================================================================
