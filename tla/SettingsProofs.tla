---------------------------- MODULE SettingsProofs ----------------------------
(***************************************************************************)
(* The store of module Settings, for any chats, patterns, handlers and     *)
(* bounds: its types and its lock, the agreement of cache and disk, and    *)
(* the refinement of ChatConfigs.                                          *)
(***************************************************************************)
EXTENDS Settings, SequenceTheorems, TLAPS

\* A prompt names its chat, and a handler that is past it knows what to store.
Prompted == pending # "none" => convo \in Chats

Informed(t) ==
    /\ t.pc \in {"clear", "call", "commit", "publish"} => t.chat \in Chats
    /\ t.pc \in {"clear", "call", "commit", "publish"} /\ t.op = "add" => t.text \in Patterns
    /\ t.pc = "stage" => t.text \in Patterns

\* What the holder of the lock is about to do: its configuration is the result of its
\* command on what is stored, and between the transaction and the cache the two differ
\* in that one entry.
Prepared(t) ==
    /\ t.pc = "commit" => cache = disk /\ t.cfg = Applied(t, cache[t.chat])
    /\ t.pc = "publish" => disk = [cache EXCEPT ![t.chat] = t.cfg]

\* The inductive invariant.
SettingsInv ==
    /\ SettingsTypeOK
    /\ Prompted
    /\ \A h \in Handlers : Informed(task[h]) /\ Prepared(task[h])
    /\ CacheFollowsDisk

-----------------------------------------------------------------------------
(* The commands *)

\* Removing an element of a sequence leaves a sequence of the same elements.
LEMMA RemoveAtType ==
    ASSUME NEW S, NEW s \in Seq(S), NEW i \in 1..Len(s)
    PROVE  Store!RemoveAt(s, i) \in Seq(S)
<1>1. Len(s) \in Nat /\ \A k \in 1..Len(s) : s[k] \in S OBVIOUS
<1>2. SubSeq(s, 1, i - 1) \in Seq(S) BY <1>1, SubSeqProperties
<1>3. SubSeq(s, i + 1, Len(s)) \in Seq(S) BY <1>1, SubSeqProperties
<1>. QED BY <1>2, <1>3, ConcatProperties DEF Store!RemoveAt

\* Each command turns a configuration into a configuration.
LEMMA AppliedType ==
    ASSUME NEW t \in TaskType, t.op = "add" => t.text \in Patterns, NEW cfg \in Store!Config
    PROVE  Applied(t, cfg) \in Store!Config
<1>1. CASE t.op = "ttl" BY <1>1 DEF Applied, TaskType, Store!WithTTL, Store!Config
<1>2. CASE t.op = "add"
  <2>1. Append(cfg.pats, t.text) \in Seq(Patterns) BY <1>2 DEF Store!Config
  <2>. QED BY <1>2, <2>1 DEF Applied, Store!WithPattern, Store!Config
<1>3. CASE t.op = "remove"
  <2>1. CASE t.at \in 1..Len(cfg.pats)
    <3>1. Store!RemoveAt(cfg.pats, t.at) \in Seq(Patterns)
      BY <2>1, RemoveAtType DEF Store!Config
    <3>2. Applied(t, cfg) = [cfg EXCEPT !.pats = Store!RemoveAt(cfg.pats, t.at)]
      BY <1>3, <2>1 DEF Applied, Store!WithoutAt
    <3>. QED BY <3>1, <3>2 DEF Store!Config
  <2>2. CASE t.at \notin 1..Len(cfg.pats) BY <1>3, <2>2 DEF Applied, Store!WithoutAt
  <2>. QED BY <2>1, <2>2
<1>4. CASE t.op = "disable"
  <2>1. <<>> \in Seq(Patterns) OBVIOUS
  <2>. QED BY <1>4, <2>1 DEF Applied, Store!NoConfig, Store!Config
<1>. QED BY <1>1, <1>2, <1>3, <1>4 DEF TaskType, Commands

\* The blank task is well typed.
LEMMA NoTaskType == NoTask \in TaskType
<1>1. <<>> \in Seq(Patterns) OBVIOUS
<1>. QED BY <1>1, SettingsAssumption DEF NoTask, TaskType, Commands, Store!NoConfig, Store!Config

-----------------------------------------------------------------------------
(* The invariant *)

\* Spending one of the bounds keeps the budget within them.
LEMMA SpendType ==
    ASSUME SettingsTypeOK,
           \/ Spend("taps", MaxTaps)
           \/ Spend("faults", MaxFaults)
           \/ Spend("crashes", MaxCrashes)
    PROVE  budget' \in [taps : 0..MaxTaps, faults : 0..MaxFaults, crashes : 0..MaxCrashes]
BY SettingsAssumption DEF SettingsTypeOK, Spend

\* The state before anything is configured satisfies the invariant.
LEMMA SettingsInit == Init => SettingsInv
<1> SUFFICES ASSUME Init PROVE SettingsInv OBVIOUS
<1>1. [c \in Chats |-> Store!NoConfig] \in [Chats -> Store!Config]
  <2>1. <<>> \in Seq(Patterns) OBVIOUS
  <2>. QED BY <2>1 DEF Store!NoConfig, Store!Config
<1>2. task \in [Handlers -> TaskType] /\ \A h \in Handlers : task[h] = NoTask
  BY NoTaskType DEF Init
<1>3. budget \in [taps : 0..MaxTaps, faults : 0..MaxFaults, crashes : 0..MaxCrashes]
  BY SettingsAssumption DEF Init
<1>4. SettingsTypeOK
  BY <1>1, <1>2, <1>3, SettingsAssumption DEF Init, SettingsTypeOK, Writing, NoTask
<1>. QED BY <1>2, <1>4
         DEF SettingsInv, Init, Prompted, Informed, Prepared, CacheFollowsDisk, NoTask

\* A step of a handler outside the lock, before and after, that touches neither the
\* store nor the lock.
LEMMA OutsideStep ==
    ASSUME SettingsInv, UNCHANGED <<cache, disk, lock>>, NEW h \in Handlers,
           NEW t \in TaskType, Becomes(h, t), ~Writing(h),
           t.pc \notin {"commit", "publish"}, Informed(t),
           budget' \in [taps : 0..MaxTaps, faults : 0..MaxFaults, crashes : 0..MaxCrashes],
           pending' \in {"none", "ttl", "pattern"}, convo' \in Chats \cup {None},
           stage' \in Patterns \cup {None}, typed' \subseteq Chats \X Patterns, Prompted'
    PROVE  SettingsInv'
<1>1. task' \in [Handlers -> TaskType] BY DEF SettingsInv, SettingsTypeOK, Becomes
<1>2. \A g \in Handlers : task'[g] = IF g = h THEN t ELSE task[g]
  BY DEF SettingsInv, SettingsTypeOK, Becomes
<1>3. \A g \in Handlers : Writing(g)' <=> lock' = g
  BY <1>2 DEF SettingsInv, SettingsTypeOK, Writing
<1>4. SettingsTypeOK' BY <1>1, <1>3 DEF SettingsInv, SettingsTypeOK
<1>5. \A g \in Handlers : Informed(task[g])' /\ Prepared(task[g])'
  BY <1>2 DEF SettingsInv, Informed, Prepared, Applied
<1>. QED BY <1>4, <1>5 DEF SettingsInv, CacheFollowsDisk

\* The owner's taps and messages keep the invariant.
LEMMA OwnerStep ==
    ASSUME SettingsInv, Owner
    PROVE  SettingsInv'
<1>0. SettingsTypeOK /\ Prompted /\ NoTask \in TaskType BY NoTaskType DEF SettingsInv
<1>1. ASSUME NEW kind \in {"ttl", "pattern"}, NEW c \in Chats, TapPrompt(kind, c)
      PROVE  SettingsInv'
  <2>1. SettingsTypeOK' BY <1>0, <1>1, SpendType DEF TapPrompt, SettingsTypeOK, Writing
  <2>. QED BY <1>1, <2>1
           DEF TapPrompt, SettingsInv, Prompted, Informed, Prepared, Applied, CacheFollowsDisk
<1>2. ASSUME NEW h \in Handlers, NEW t \in TaskType, Begins(h, t), Informed(t),
             t.pc \in {"stage", "clear", "call"}, UNCHANGED <<cache, disk, lock, talk>>,
             typed' \subseteq Chats \X Patterns
      PROVE  SettingsInv'
  <2>1. ~Writing(h) /\ Becomes(h, t) BY <1>2 DEF Begins, Writing
  <2>2. budget' \in [taps : 0..MaxTaps, faults : 0..MaxFaults, crashes : 0..MaxCrashes]
    BY <1>0, <1>2, SpendType DEF Begins
  <2>. QED BY <1>0, <1>2, <2>1, <2>2, OutsideStep DEF talk, SettingsTypeOK, Prompted
<1>3. ASSUME NEW h \in Handlers, TapKind(h)
      PROVE  SettingsInv'
  <2> DEFINE t == [NoTask EXCEPT !.pc = "clear", !.op = "add", !.chat = convo, !.text = stage]
  <2>1. convo \in Chats /\ stage \in Patterns BY <1>0, <1>3 DEF TapKind, SettingsTypeOK
  <2>2. t \in TaskType /\ Informed(t) BY <1>0, <2>1 DEF TaskType, Commands, Informed
  <2>3. Begins(h, t) /\ t.pc \in {"stage", "clear", "call"} BY <1>0, <1>3 DEF TapKind, TaskType
  <2>4. typed' \subseteq Chats \X Patterns BY <1>0, <1>3 DEF TapKind, SettingsTypeOK
  <2> HIDE DEF t
  <2>. QED BY <1>2, <1>3, <2>2, <2>3, <2>4, SMT DEF TapKind
<1>4. ASSUME NEW h \in Handlers, NEW n \in Minutes \cup {0}, ReadTTL(h, n)
      PROVE  SettingsInv'
  <2> DEFINE t == [NoTask EXCEPT !.pc = "clear", !.op = "ttl", !.chat = convo, !.ttl = n]
  <2>1. convo \in Chats BY <1>0, <1>4 DEF ReadTTL, Prompted
  <2>2. t \in TaskType /\ Informed(t) BY <1>0, <2>1 DEF TaskType, Commands, Informed
  <2>3. Begins(h, t) /\ t.pc \in {"stage", "clear", "call"} BY <1>0, <1>4 DEF ReadTTL, TaskType
  <2>4. typed' \subseteq Chats \X Patterns BY <1>0, <1>4 DEF ReadTTL, SettingsTypeOK
  <2> HIDE DEF t
  <2>. QED BY <1>2, <1>4, <2>2, <2>3, <2>4, SMT DEF ReadTTL
<1>5. ASSUME NEW h \in Handlers, NEW p \in Patterns, ReadPattern(h, p)
      PROVE  SettingsInv'
  <2> DEFINE t == [NoTask EXCEPT !.pc = "stage", !.text = p]
  <2>1. convo \in Chats BY <1>0, <1>5 DEF ReadPattern, Prompted
  <2>2. t \in TaskType /\ Informed(t) BY <1>0 DEF TaskType, Informed
  <2>3. Begins(h, t) /\ t.pc \in {"stage", "clear", "call"} BY <1>0, <1>5 DEF ReadPattern, TaskType
  <2>4. typed' \subseteq Chats \X Patterns BY <1>0, <1>5, <2>1 DEF ReadPattern, SettingsTypeOK
  <2> HIDE DEF t
  <2>. QED BY <1>2, <1>5, <2>2, <2>3, <2>4, SMT DEF ReadPattern
<1>6. ASSUME NEW h \in Handlers, NEW c \in Chats, TapClear(h, c)
      PROVE  SettingsInv'
  <2> DEFINE t == [NoTask EXCEPT !.pc = "call", !.op = "ttl", !.chat = c]
  <2>1. t \in TaskType /\ Informed(t) BY <1>0 DEF TaskType, Commands, Informed
  <2>3. Begins(h, t) /\ t.pc \in {"stage", "clear", "call"} BY <1>0, <1>6 DEF TapClear, TaskType
  <2>4. typed' \subseteq Chats \X Patterns BY <1>0, <1>6 DEF TapClear, SettingsTypeOK
  <2> HIDE DEF t
  <2>. QED BY <1>2, <1>6, <2>1, <2>3, <2>4, SMT DEF TapClear
<1>7. ASSUME NEW h \in Handlers, NEW c \in Chats, TapOff(h, c)
      PROVE  SettingsInv'
  <2> DEFINE t == [NoTask EXCEPT !.pc = "call", !.op = "disable", !.chat = c]
  <2>1. t \in TaskType /\ Informed(t) BY <1>0 DEF TaskType, Commands, Informed
  <2>3. Begins(h, t) /\ t.pc \in {"stage", "clear", "call"} BY <1>0, <1>7 DEF TapOff, TaskType
  <2>4. typed' \subseteq Chats \X Patterns BY <1>0, <1>7 DEF TapOff, SettingsTypeOK
  <2> HIDE DEF t
  <2>. QED BY <1>2, <1>7, <2>1, <2>3, <2>4, SMT DEF TapOff
<1>8. ASSUME NEW h \in Handlers, NEW c \in Chats, NEW i \in 1..MaxTaps, TapRemove(h, c, i)
      PROVE  SettingsInv'
  <2> DEFINE t == [NoTask EXCEPT !.pc = "call", !.op = "remove", !.chat = c, !.at = i]
  <2>0. i \in 0..MaxTaps BY SettingsAssumption
  <2>1. t \in TaskType /\ Informed(t) BY <1>0, <2>0 DEF TaskType, Commands, Informed
  <2>3. Begins(h, t) /\ t.pc \in {"stage", "clear", "call"} BY <1>0, <1>8 DEF TapRemove, TaskType
  <2>4. typed' \subseteq Chats \X Patterns BY <1>0, <1>8 DEF TapRemove, SettingsTypeOK
  <2> HIDE DEF t
  <2>. QED BY <1>2, <1>8, <2>1, <2>3, <2>4, SMT DEF TapRemove
<1>. QED BY <1>1, <1>3, <1>4, <1>5, <1>6, <1>7, <1>8 DEF Owner

\* The handlers keep the invariant: the lock makes read, transaction and cache one.
LEMMA HandlingStep ==
    ASSUME SettingsInv, NEW h \in Handlers, Handling(h)
    PROVE  SettingsInv'
<1>0. /\ SettingsTypeOK /\ Prompted /\ NoTask \in TaskType /\ task[h] \in TaskType
      /\ Informed(task[h]) /\ Prepared(task[h]) /\ None \notin Handlers
  BY NoTaskType, SettingsAssumption DEF SettingsInv, SettingsTypeOK
<1> DEFINE t == task[h]
<1>01. \A u : Becomes(h, u) => \A g \in Handlers : task'[g] = IF g = h THEN u ELSE task[g]
  BY DEF SettingsInv, SettingsTypeOK, Becomes
<1>1. CASE Stage(h)
  BY <1>0, <1>1, OutsideStep DEF Stage, NoTask, Writing, Informed, SettingsTypeOK, Prompted
<1>2. CASE Clear(h)
  <2> DEFINE u == [t EXCEPT !.pc = "call"]
  <2>1. u \in TaskType BY <1>0 DEF TaskType
  <2>2. Informed(u) BY <1>0, <1>2 DEF Clear, Informed, TaskType
  <2>3. u.pc = "call" BY <1>0 DEF TaskType
  <2>. QED BY <1>0, <1>2, <2>1, <2>2, <2>3, OutsideStep DEF Clear, Writing, SettingsTypeOK, Prompted
<1>3. CASE Lock(h)
  <2> DEFINE a == Applied(t, cache[t.chat])
             u == [t EXCEPT !.pc = "commit", !.cfg = a]
  <2>1. t.chat \in Chats /\ cache[t.chat] \in Store!Config
    BY <1>0, <1>3 DEF Lock, Informed, SettingsTypeOK
  <2>2. a \in Store!Config BY <1>0, <1>3, <2>1, AppliedType DEF Lock, Informed
  <2>3. lock = None /\ lock' = h /\ cache = disk /\ UNCHANGED <<cache, disk, talk, typed, budget>>
    BY <1>3 DEF Lock, Free, SettingsInv, CacheFollowsDisk
  <2>4. \A g \in Handlers : task'[g] = IF g = h THEN u ELSE task[g] BY <1>01, <1>3 DEF Lock
  <2>5. /\ u \in TaskType /\ u.pc = "commit" /\ u.chat = t.chat /\ u.op = t.op
        /\ u.text = t.text /\ u.cfg = a /\ a = Applied(u, cache[u.chat])
    <3> HIDE DEF a
    <3>1. /\ u \in TaskType /\ u.pc = "commit" /\ u.chat = t.chat /\ u.op = t.op
          /\ u.text = t.text /\ u.cfg = a /\ u.ttl = t.ttl /\ u.at = t.at
      BY <1>0, <2>2 DEF TaskType
    <3> HIDE DEF u
    <3>2. a = Applied(u, cache[u.chat]) BY <3>1 DEF Applied, a
    <3>. QED BY <3>1, <3>2
  <2>6. task' \in [Handlers -> TaskType] BY <1>0, <1>3, <2>5 DEF Lock, Becomes, SettingsTypeOK
  <2> HIDE DEF u, a
  <2>7. \A g \in Handlers : Writing(g)' <=> lock' = g
    BY <1>0, <2>3, <2>4, <2>5 DEF SettingsTypeOK, Writing
  <2>8. SettingsTypeOK' BY <1>0, <2>3, <2>6, <2>7 DEF SettingsTypeOK, talk
  <2>9. \A g \in Handlers : Informed(task[g])'
    BY <1>0, <1>3, <2>4, <2>5 DEF SettingsInv, Lock, Informed
  <2>10. ASSUME NEW g \in Handlers PROVE Prepared(task[g])'
    <3>1. CASE g = h BY <2>3, <2>4, <2>5, <3>1 DEF Prepared, Applied
    <3>2. CASE g # h
      <4>1. ~Writing(g) BY <1>0, <2>3 DEF SettingsTypeOK
      <4>. QED BY <2>4, <3>2, <4>1 DEF Prepared, Writing
    <3>. QED BY <3>1, <3>2
  <2>. QED BY <1>0, <2>3, <2>8, <2>9, <2>10 DEF SettingsInv, Prompted, CacheFollowsDisk, talk
<1>4. ASSUME NEW u \in TaskType, NEW k \in {h, None}, Becomes(h, u), lock' = k,
             Writing(h), u.pc \in {"publish", "idle"}, u.pc = "publish" <=> k = h,
             cache' \in [Chats -> Store!Config], disk' \in [Chats -> Store!Config],
             UNCHANGED <<talk, typed>>,
             budget' \in [taps : 0..MaxTaps, faults : 0..MaxFaults, crashes : 0..MaxCrashes],
             Informed(u), u.pc = "publish" => disk' = [cache' EXCEPT ![u.chat] = u.cfg],
             k = None => cache' = disk'
      PROVE  SettingsInv'
  <2>1. \A g \in Handlers : task'[g] = IF g = h THEN u ELSE task[g] BY <1>01, <1>4
  <2>2. task' \in [Handlers -> TaskType] BY <1>0, <1>4 DEF Becomes, SettingsTypeOK
  <2>3. \A g \in Handlers \ {h} : ~Writing(g) BY <1>0, <1>4 DEF SettingsTypeOK
  <2>4. \A g \in Handlers : Writing(g)' <=> lock' = g BY <1>0, <1>4, <2>1, <2>3 DEF Writing
  <2>5. SettingsTypeOK' BY <1>0, <1>4, <2>2, <2>4 DEF SettingsTypeOK, talk
  <2>6. \A g \in Handlers : Informed(task[g])' BY <1>4, <2>1 DEF SettingsInv, Informed
  <2>7. \A g \in Handlers : Prepared(task[g])' BY <1>4, <2>1, <2>3 DEF Prepared, Writing
  <2>. QED BY <1>0, <1>4, <2>5, <2>6, <2>7 DEF SettingsInv, Prompted, CacheFollowsDisk, talk
<1>5. CASE Commit(h)
  <2> DEFINE u == [t EXCEPT !.pc = "publish"]
  <2>1. /\ u \in TaskType /\ u.pc = "publish" /\ u.chat = t.chat /\ u.cfg = t.cfg
        /\ u.op = t.op /\ u.text = t.text
    BY <1>0 DEF TaskType
  <2>2. Writing(h) /\ lock = h BY <1>0, <1>5 DEF Commit, Writing, SettingsTypeOK
  <2>3. Informed(u) BY <1>0, <1>5, <2>1 DEF Commit, Informed
  <2>4. cache = disk /\ disk' = [disk EXCEPT ![t.chat] = t.cfg] /\ cache' = cache
    BY <1>0, <1>5 DEF Commit, Prepared
  <2>5. t.cfg \in Store!Config BY <1>0 DEF TaskType
  <2>6. cache' \in [Chats -> Store!Config] /\ disk' \in [Chats -> Store!Config]
    BY <1>0, <2>4, <2>5 DEF SettingsTypeOK
  <2>7. Becomes(h, u) /\ UNCHANGED <<talk, typed, budget>> /\ lock' = h BY <1>5, <2>2 DEF Commit
  <2> HIDE DEF u
  <2>8. budget' \in [taps : 0..MaxTaps, faults : 0..MaxFaults, crashes : 0..MaxCrashes]
    BY <1>0, <2>7 DEF SettingsTypeOK
  <2>. QED BY <1>0, <1>4, <2>1, <2>2, <2>3, <2>4, <2>6, <2>7, <2>8
<1>6. CASE CommitFailed(h)
  <2>1. Writing(h) BY <1>6 DEF CommitFailed, Writing
  <2>2. cache' = disk' /\ cache' = cache BY <1>0, <1>6 DEF CommitFailed, RolledBack, Prepared
  <2>3. budget' \in [taps : 0..MaxTaps, faults : 0..MaxFaults, crashes : 0..MaxCrashes]
    BY <1>0, <1>6, SpendType DEF CommitFailed
  <2>4. NoTask.pc = "idle" /\ Informed(NoTask) BY DEF NoTask, Informed
  <2>5. cache' \in [Chats -> Store!Config] BY <1>0, <2>2 DEF SettingsTypeOK
  <2>. QED BY <1>0, <1>4, <1>6, <2>1, <2>2, <2>3, <2>4, <2>5 DEF CommitFailed
<1>7. CASE Publish(h)
  <2>1. Writing(h) BY <1>7 DEF Publish, Writing
  <2>2. cache' = disk' BY <1>0, <1>7 DEF Publish, Prepared
  <2>3. budget' \in [taps : 0..MaxTaps, faults : 0..MaxFaults, crashes : 0..MaxCrashes]
    BY <1>0, <1>7 DEF Publish, SettingsTypeOK
  <2>4. NoTask.pc = "idle" /\ Informed(NoTask) BY DEF NoTask, Informed
  <2>5. disk' \in [Chats -> Store!Config] BY <1>0, <1>7 DEF Publish, SettingsTypeOK
  <2>. QED BY <1>0, <1>4, <1>7, <2>1, <2>2, <2>3, <2>4, <2>5 DEF Publish
<1>. QED BY <1>1, <1>2, <1>3, <1>5, <1>6, <1>7 DEF Handling

\* A crash keeps the invariant: what is loaded is what was committed.
LEMMA CrashStep ==
    ASSUME SettingsInv, Crash
    PROVE  SettingsInv'
<1>0. SettingsTypeOK /\ None \notin Handlers BY SettingsAssumption DEF SettingsInv
<1>1. task' \in [Handlers -> TaskType] /\ \A h \in Handlers : task'[h] = NoTask
  BY NoTaskType DEF Crash
<1>2. budget' \in [taps : 0..MaxTaps, faults : 0..MaxFaults, crashes : 0..MaxCrashes]
  BY <1>0, SpendType DEF Crash
<1>3. \A h \in Handlers : Writing(h)' <=> lock' = h BY <1>0, <1>1 DEF Crash, Writing, NoTask
<1>4. SettingsTypeOK' BY <1>0, <1>1, <1>2, <1>3 DEF Crash, SettingsTypeOK
<1>. QED BY <1>1, <1>4
         DEF Crash, SettingsInv, Prompted, Informed, Prepared, CacheFollowsDisk, NoTask

\* The invariant is inductive.
LEMMA SettingsStep == SettingsInv /\ [Next]_vars => SettingsInv'
<1> SUFFICES ASSUME SettingsInv, [Next]_vars PROVE SettingsInv' OBVIOUS
<1>1. CASE UNCHANGED vars
  <2>1. SettingsTypeOK' BY <1>1 DEF vars, talk, SettingsInv, SettingsTypeOK, Writing
  <2>. QED BY <1>1, <2>1
           DEF vars, talk, SettingsInv, Prompted, Informed, Prepared, Applied, CacheFollowsDisk
<1>2. CASE Next BY <1>2, OwnerStep, HandlingStep, CrashStep DEF Next
<1>. QED BY <1>1, <1>2

\* Every variable keeps its type, and a handler between Lock and Unlock is the one
\* that holds Store.mu.
THEOREM SettingsTypeCorrect == Spec => []SettingsTypeOK
<1>1. SettingsInv => SettingsTypeOK BY DEF SettingsInv
<1>. QED BY <1>1, SettingsInit, SettingsStep, PTL DEF Spec

\* Whoever can read the cache reads what is on the disk.
THEOREM CacheCorrect == Spec => []CacheFollowsDisk
<1>1. SettingsInv => CacheFollowsDisk BY DEF SettingsInv
<1>. QED BY <1>1, SettingsInit, SettingsStep, PTL DEF Spec

-----------------------------------------------------------------------------
(* The refinement *)

\* The committed transaction of a handler is a command of ChatConfigs on the chat, or
\* changes nothing.
LEMMA CommitRefines ==
    ASSUME SettingsInv, NEW h \in Handlers, Commit(h)
    PROVE  [Store!Next]_disk
<1> DEFINE t == task[h]
           c == t.chat
<1>1. t \in TaskType /\ disk \in [Chats -> Store!Config] BY DEF SettingsInv, SettingsTypeOK
<1>2. c \in Chats /\ (t.op = "add" => t.text \in Patterns)
  BY DEF SettingsInv, Informed, Commit
<1>3. disk' = [disk EXCEPT ![c] = Applied(t, disk[c])]
  BY DEF SettingsInv, Prepared, Commit
<1>4. t.ttl \in Minutes \cup {0} /\ t.op \in Commands BY <1>1 DEF TaskType
<1> HIDE DEF t, c
<1>5. CASE t.op = "ttl"
  <2>1. disk' = [disk EXCEPT ![c] = Store!WithTTL(disk[c], t.ttl)] BY <1>3, <1>5 DEF Applied
  <2>2. Store!SetTTL(c) BY <1>4, <2>1 DEF Store!SetTTL, Store!Change
  <2>. QED BY <1>2, <2>2 DEF Store!Next
<1>6. CASE t.op = "add"
  <2>1. disk' = [disk EXCEPT ![c] = Store!WithPattern(disk[c], t.text)] BY <1>3, <1>6 DEF Applied
  <2>2. Store!AddPattern(c) BY <1>2, <1>6, <2>1 DEF Store!AddPattern, Store!Change
  <2>. QED BY <1>2, <2>2 DEF Store!Next
<1>7. CASE t.op = "remove"
  <2>1. disk' = [disk EXCEPT ![c] = Store!WithoutAt(disk[c], t.at)] BY <1>3, <1>7 DEF Applied
  <2>2. CASE t.at \in 1..Len(disk[c].pats)
    <3>1. Store!RemovePattern(c) BY <2>1, <2>2 DEF Store!RemovePattern, Store!Change
    <3>. QED BY <1>2, <3>1 DEF Store!Next
  <2>3. CASE t.at \notin 1..Len(disk[c].pats)
    <3>1. disk' = [disk EXCEPT ![c] = disk[c]] BY <2>1, <2>3 DEF Store!WithoutAt
    <3>. QED BY <1>1, <3>1
  <2>. QED BY <2>2, <2>3
<1>8. CASE t.op = "disable"
  <2>1. disk' = [disk EXCEPT ![c] = Store!NoConfig] BY <1>3, <1>8 DEF Applied
  <2>2. Store!Disable(c) BY <2>1 DEF Store!Disable, Store!Change
  <2>. QED BY <1>2, <2>2 DEF Store!Next
<1>. QED BY <1>4, <1>5, <1>6, <1>7, <1>8 DEF Commands

\* Every step of Settings is a command of ChatConfigs or leaves the disk alone.
LEMMA StepRefines == SettingsInv /\ [Next]_vars => [Store!Next]_disk
<1> SUFFICES ASSUME SettingsInv, [Next]_vars PROVE [Store!Next]_disk OBVIOUS
<1>1. CASE UNCHANGED vars BY <1>1 DEF vars
<1>2. CASE Owner
  BY <1>2 DEF Owner, TapPrompt, TapKind, ReadTTL, ReadPattern, TapClear, TapOff, TapRemove
<1>3. CASE Crash BY <1>3 DEF Crash
<1>4. ASSUME NEW h \in Handlers, Handling(h)
      PROVE  [Store!Next]_disk
  <2>1. CASE Commit(h) BY <2>1, CommitRefines
  <2>2. CASE Stage(h) \/ Clear(h) \/ Lock(h) \/ CommitFailed(h) \/ Publish(h)
    BY <2>2 DEF Stage, Clear, Lock, CommitFailed, Publish
  <2>. QED BY <1>4, <2>1, <2>2 DEF Handling
<1>. QED BY <1>1, <1>2, <1>3, <1>4 DEF Next

\* The store implements ChatConfigs: what is on the disk is the result of whole
\* commands, one after the other, through failed transactions and crashes.
THEOREM StoreCorrect == Spec => Implements
<1>1. Init => Store!Init BY DEF Init, Store!Init
<1>. QED BY <1>1, SettingsInit, SettingsStep, StepRefines, PTL DEF Spec, Implements, Store!Spec
=============================================================================
