------------------------------- MODULE Settings -------------------------------
(***************************************************************************)
(* The operator's settings: the conversations and menu buttons of the      *)
(* service bot that change them (internal/bot/bot.go), and the store that  *)
(* keeps them in bbolt and in memory (internal/chatcfg/chatcfg.go).  The   *)
(* goroutines of the bot run concurrently; menus stay in the chat, so that *)
(* every button can be tapped at any time.  What applyTTL starts once the  *)
(* TTL is stored is in modules Cleaner and Membership.                     *)
(***************************************************************************)
EXTENDS Integers, SequencesExt

CONSTANTS
    Chats,      \* marked chat ids
    Minutes,    \* TTLs the operator may set, in minutes
    Patterns,   \* instant-delete patterns the operator may add
    Handlers,   \* goroutines of the bot
    None,       \* no chat, no text, no holder of the lock
    MaxTaps,    \* bound: buttons tapped and messages sent
    MaxFaults,  \* bound: failed transactions
    MaxCrashes  \* bound: restarts of the process

ASSUME SettingsAssumption ==
    /\ Minutes \subseteq Nat
    /\ None \notin Chats \cup Patterns \cup Handlers
    /\ {MaxTaps, MaxFaults, MaxCrashes} \subseteq Nat

VARIABLES
    cache,    \* Store.cache
    disk,     \* the bbolt bucket; no entry is the same as an empty one
    lock,     \* the handler that holds Store.mu, or None
    pending,  \* Bot.pending: "none", "ttl" or "pattern"
    convo,    \* Bot.convoChat, or None
    stage,    \* Bot.stageText, or None
    task,     \* what each handler is doing
    typed,    \* history: patterns typed at a prompt, with the prompt's chat
    budget    \* bounds spent so far

\* The configurations and the commands on them: module ChatConfigs, of which the
\* disk is the state.
Store == INSTANCE ChatConfigs WITH conf <- disk

talk == <<pending, convo, stage>>
vars == <<cache, disk, lock, talk, task, typed, budget>>

Commands == {"ttl", "add", "remove", "disable"}

TaskType ==
    [pc   : {"idle", "stage", "clear", "call", "commit", "publish"},
     op   : Commands,
     chat : Chats \cup {None},
     ttl  : Minutes \cup {0},         \* the argument of SetTTL
     text : Patterns \cup {None},     \* of AddPattern, and the text to stage
     at   : 0..MaxTaps,               \* of RemovePattern
     cfg  : Store!Config]                   \* mutate's cfg

NoTask == [pc |-> "idle", op |-> "disable", chat |-> None, ttl |-> 0,
           text |-> None, at |-> 0, cfg |-> Store!NoConfig]

Writing(h) == task[h].pc \in {"commit", "publish"}

\* Every variable keeps its type, and a handler between mutate's Lock and Unlock is
\* the one that holds Store.mu.
SettingsTypeOK ==
    /\ {cache, disk} \subseteq [Chats -> Store!Config]
    /\ lock \in Handlers \cup {None}
    /\ pending \in {"none", "ttl", "pattern"}
    /\ convo \in Chats \cup {None}
    /\ stage \in Patterns \cup {None}
    /\ task \in [Handlers -> TaskType]
    /\ \A h \in Handlers : Writing(h) <=> lock = h
    /\ typed \subseteq Chats \X Patterns
    /\ budget \in [taps : 0..MaxTaps, faults : 0..MaxFaults, crashes : 0..MaxCrashes]

Spend(what, max) == budget[what] < max /\ budget' = [budget EXCEPT ![what] = @ + 1]
Becomes(h, t) == task' = [task EXCEPT ![h] = t]

\* The owner's next message or tap is handled by h, which goes to pc.
Begins(h, t) == Spend("taps", MaxTaps) /\ task[h].pc = "idle" /\ Becomes(h, t)

-----------------------------------------------------------------------------
(* Conversations *)

\* "Set TTL" and "Add pattern" open a conversation; a staged text stays.
TapPrompt(kind, c) ==
    /\ Spend("taps", MaxTaps)
    /\ pending' = kind
    /\ convo' = c
    /\ UNCHANGED <<cache, disk, lock, stage, task, typed>>

\* A number at the TTL prompt: applyTTL follows.
ReadTTL(h, n) ==
    /\ pending = "ttl"
    /\ Begins(h, [NoTask EXCEPT !.pc = "clear", !.op = "ttl", !.chat = convo, !.ttl = n])
    /\ UNCHANGED <<cache, disk, lock, talk, typed>>

\* A text at the pattern prompt is staged until its kind is chosen.
ReadPattern(h, p) ==
    /\ pending = "pattern"
    /\ Begins(h, [NoTask EXCEPT !.pc = "stage", !.text = p])
    /\ typed' = typed \cup {<<convo, p>>}
    /\ UNCHANGED <<cache, disk, lock, talk>>

Stage(h) ==
    /\ task[h].pc = "stage"
    /\ stage' = task[h].text
    /\ Becomes(h, NoTask)
    /\ UNCHANGED <<cache, disk, lock, pending, convo, typed, budget>>

\* finishPattern, at a tap on "Exact" or "Prefix".
TapKind(h) ==
    /\ convo # None
    /\ stage # None
    /\ Begins(h, [NoTask EXCEPT !.pc = "clear", !.op = "add", !.chat = convo, !.text = stage])
    /\ UNCHANGED <<cache, disk, lock, talk, typed>>

\* clearPending.
Clear(h) ==
    /\ task[h].pc = "clear"
    /\ pending' = "none"
    /\ convo' = None
    /\ stage' = None
    /\ Becomes(h, [task[h] EXCEPT !.pc = "call"])
    /\ UNCHANGED <<cache, disk, lock, typed, budget>>

\* "Clear TTL", "Disable chat" and the buttons of the pattern menu, whose index is
\* that of the list when the menu was shown.
TapClear(h, c) ==
    /\ Begins(h, [NoTask EXCEPT !.pc = "call", !.op = "ttl", !.chat = c])
    /\ UNCHANGED <<cache, disk, lock, talk, typed>>

TapOff(h, c) ==
    /\ Begins(h, [NoTask EXCEPT !.pc = "call", !.op = "disable", !.chat = c])
    /\ UNCHANGED <<cache, disk, lock, talk, typed>>

TapRemove(h, c, i) ==
    /\ Begins(h, [NoTask EXCEPT !.pc = "call", !.op = "remove", !.chat = c, !.at = i])
    /\ UNCHANGED <<cache, disk, lock, talk, typed>>

-----------------------------------------------------------------------------
(* The store *)

Applied(t, cfg) ==
    CASE t.op = "ttl"     -> Store!WithTTL(cfg, t.ttl)
      [] t.op = "add"     -> Store!WithPattern(cfg, t.text)
      [] t.op = "remove"  -> Store!WithoutAt(cfg, t.at)
      [] t.op = "disable" -> Store!NoConfig

\* Store.mu is held from the read of the cache to its write.  (The mutant does not
\* take it.)
MutantFree == TRUE
Free == lock = None

Lock(h) ==
    /\ task[h].pc = "call"
    /\ Free
    /\ lock' = h
    /\ Becomes(h, [task[h] EXCEPT !.pc = "commit", !.cfg = Applied(task[h], cache[task[h].chat])])
    /\ UNCHANGED <<cache, disk, talk, typed, budget>>

\* db.Update commits ...
Commit(h) ==
    /\ task[h].pc = "commit"
    /\ disk' = [disk EXCEPT ![task[h].chat] = task[h].cfg]
    /\ Becomes(h, [task[h] EXCEPT !.pc = "publish"])
    /\ UNCHANGED <<cache, lock, talk, typed, budget>>

\* ... or fails, and then nothing has changed.  (The mutant writes the cache first.)
MutantRolledBack(t) == [cache EXCEPT ![t.chat] = t.cfg]
RolledBack(t) == cache

CommitFailed(h) ==
    /\ task[h].pc = "commit"
    /\ Spend("faults", MaxFaults)
    /\ cache' = RolledBack(task[h])
    /\ lock' = None
    /\ Becomes(h, NoTask)
    /\ UNCHANGED <<disk, talk, typed>>

Publish(h) ==
    /\ task[h].pc = "publish"
    /\ cache' = [cache EXCEPT ![task[h].chat] = task[h].cfg]
    /\ lock' = None
    /\ Becomes(h, NoTask)
    /\ UNCHANGED <<disk, talk, typed, budget>>

\* The process dies; New loads the bucket.
Crash ==
    /\ Spend("crashes", MaxCrashes)
    /\ cache' = disk
    /\ lock' = None
    /\ pending' = "none"
    /\ convo' = None
    /\ stage' = None
    /\ task' = [h \in Handlers |-> NoTask]
    /\ UNCHANGED <<disk, typed>>

-----------------------------------------------------------------------------
(* The system *)

Init ==
    /\ cache = [c \in Chats |-> Store!NoConfig]
    /\ disk = [c \in Chats |-> Store!NoConfig]
    /\ lock = None
    /\ pending = "none"
    /\ convo = None
    /\ stage = None
    /\ task = [h \in Handlers |-> NoTask]
    /\ typed = {}
    /\ budget = [taps |-> 0, faults |-> 0, crashes |-> 0]

Owner ==
    \/ \E c \in Chats : TapPrompt("ttl", c) \/ TapPrompt("pattern", c)
    \/ \E h \in Handlers :
          \/ TapKind(h)
          \/ \E n \in Minutes \cup {0} : ReadTTL(h, n)
          \/ \E p \in Patterns : ReadPattern(h, p)
          \/ \E c \in Chats : TapClear(h, c) \/ TapOff(h, c)
          \/ \E c \in Chats, i \in 1..MaxTaps : TapRemove(h, c, i)

Handling(h) ==
    \/ Stage(h)
    \/ Clear(h)
    \/ Lock(h)
    \/ Commit(h)
    \/ CommitFailed(h)
    \/ Publish(h)

Next == Owner \/ Crash \/ \E h \in Handlers : Handling(h)

Spec == Init /\ [][Next]_vars

-----------------------------------------------------------------------------
(* Properties *)

\* Readers, who wait for a writer to unlock, see what is on the disk: after failed
\* transactions, and after a crash between the transaction and the cache.
CacheFollowsDisk == lock = None => cache = disk

\* What is stored is the result of whole commands applied one after the other: the
\* store implements ChatConfigs.
Implements == Store!Spec

\* "Nothing runs until you opt a chat in": a chat has the patterns that were typed at
\* its own prompt and no others.
OptedIn == \A c \in Chats : \A i \in 1..Len(cache[c].pats) : <<c, cache[c].pats[i]>> \in typed

=============================================================================
