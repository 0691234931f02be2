--------------------------- MODULE RetentionProofs ---------------------------
(***************************************************************************)
(* The cleaner keeps the promise of module Retention: its steps are steps   *)
(* of Retention or leave the promised state alone, where what is doomed and *)
(* the TTLs that drains apply are read off its goroutines and the jobs of   *)
(* the sweep.  RightfulInv, the invariant of RightfulProofs, is enough: a   *)
(* delete in the common box of the basic groups hits one chat only, since   *)
(* an id of a box belongs to one message (SentOnce).                        *)
(***************************************************************************)
EXTENDS RightfulProofs

-----------------------------------------------------------------------------
(* What is doomed and which TTLs apply *)

\* A goroutine that takes up t adds what t holds to what is doomed, and t's TTL to
\* those that apply; nothing else is added.
LEMMA BecomesAdds ==
    ASSUME TypeOK, NEW p \in Procs, NEW t, Becomes(p, t)
    PROVE  /\ \A c \in Chats : \A m \in Doomed'[c] :
                m \in jobs'[c] \/ m \in Doomed[c] \/ (c = t.chat /\ m \in Held(t))
           /\ \A c \in Chats : \A u \in Rules'[c] :
                u \in Rules[c] \/ (c = t.chat /\ Draining(t) /\ u = t.ttl)
<1>1. \A q \in Procs : task'[q] = IF q = p THEN t ELSE task[q] BY DEF Becomes, TypeOK
<1>2. ASSUME NEW c \in Chats, NEW m \in Doomed'[c]
      PROVE  m \in jobs'[c] \/ m \in Doomed[c] \/ (c = t.chat /\ m \in Held(t))
  <2>1. m \in jobs'[c] \/ \E q \in Procs : task'[q].chat = c /\ m \in Held(task'[q])
    BY <1>2 DEF Doomed, TasksOf, Held
  <2>2. ASSUME NEW q \in Procs, task'[q].chat = c, m \in Held(task'[q]), q # p
        PROVE  m \in Doomed[c]
    BY <1>1, <2>2 DEF Doomed, TasksOf
  <2>. QED BY <1>1, <2>1, <2>2
<1>3. ASSUME NEW c \in Chats, NEW u \in Rules'[c]
      PROVE  u \in Rules[c] \/ (c = t.chat /\ Draining(t) /\ u = t.ttl)
  <2>1. PICK q \in Procs : task'[q].chat = c /\ Draining(task'[q]) /\ u = task'[q].ttl
    BY <1>3 DEF Rules, TasksOf, Draining
  <2>2. CASE q = p BY <1>1, <2>1, <2>2
  <2>3. CASE q # p BY <1>1, <2>1, <2>3 DEF Rules, TasksOf
  <2>. QED BY <2>2, <2>3
<1>. QED BY <1>2, <1>3

\* A goroutine that goes on in its drain, or is in none, leaves the TTLs that apply as
\* they are.
LEMMA SameRules ==
    ASSUME TypeOK, NEW p \in Procs, NEW t, Becomes(p, t),
           Draining(t) <=> Draining(task[p]),
           Draining(t) => t.chat = task[p].chat /\ t.ttl = task[p].ttl
    PROVE  Rules' = Rules
<1>1. \A q \in Procs : task'[q] = IF q = p THEN t ELSE task[q] BY DEF Becomes, TypeOK
<1>2. ASSUME NEW c \in Chats
      PROVE  Rules'[c] = Rules[c]
  <2>1. \A u : u \in Rules[c]
                 <=> \E q \in Procs : task[q].chat = c /\ Draining(task[q]) /\ u = task[q].ttl
    BY DEF Rules, TasksOf
  <2>2. \A u : u \in Rules'[c]
                 <=> \E q \in Procs : task'[q].chat = c /\ Draining(task'[q]) /\ u = task'[q].ttl
    BY DEF Rules, TasksOf, Draining
  <2>3. ASSUME NEW u
        PROVE  (\E q \in Procs : task'[q].chat = c /\ Draining(task'[q]) /\ u = task'[q].ttl)
                 <=> (\E q \in Procs : task[q].chat = c /\ Draining(task[q]) /\ u = task[q].ttl)
    BY <1>1
  <2>4. \A u : u \in Rules'[c] <=> u \in Rules[c] BY <2>1, <2>2, <2>3
  <2>. QED BY <2>4
<1>. QED BY <1>2 DEF Rules

\* A goroutine that holds nothing and is in no drain, before and after.
Light(t) == Held(t) = {} /\ ~Draining(t)

\* When it takes up a job, all that the job holds is doomed in addition.
LEMMA HoldsStep ==
    ASSUME TypeOK, NEW p \in Procs, NEW t, Becomes(p, t), Light(task[p]), ~Draining(t),
           jobs' = jobs
    PROVE  /\ Rules' = Rules
           /\ Doomed' = [c \in Chats |-> Doomed[c] \cup IF c = t.chat THEN Held(t) ELSE {}]
<1>1. \A q \in Procs : task'[q] = IF q = p THEN t ELSE task[q] BY DEF Becomes, TypeOK
<1>2. Rules' = Rules BY SameRules DEF Light
<1>3. ASSUME NEW c \in Chats
      PROVE  Doomed'[c] = Doomed[c] \cup IF c = t.chat THEN Held(t) ELSE {}
  <2>1. ASSUME NEW m
        PROVE  (\E q \in Procs : task'[q].chat = c /\ m \in Held(task'[q]))
                 <=> \/ c = t.chat /\ m \in Held(t)
                     \/ \E q \in Procs : task[q].chat = c /\ m \in Held(task[q])
    BY <1>1 DEF Light
  <2>2. \A m : m \in Doomed[c]
                 <=> m \in jobs[c] \/ \E q \in Procs : task[q].chat = c /\ m \in Held(task[q])
    BY DEF Doomed, TasksOf
  <2>3. \A m : m \in Doomed'[c]
                 <=> m \in jobs[c] \/ \E q \in Procs : task'[q].chat = c /\ m \in Held(task'[q])
    BY DEF Doomed, TasksOf, Held
  <2>4. \A m : m \in Doomed'[c] <=> m \in Doomed[c] \/ (c = t.chat /\ m \in Held(t))
    BY <2>1, <2>2, <2>3
  <2>. QED BY <2>4
<1>4. Doomed' = [c \in Chats |-> Doomed'[c]] BY DEF Doomed
<1>. QED BY <1>2, <1>3, <1>4

\* When it is light before and after, nothing is doomed or spared and no drain begins.
LEMMA LightStep ==
    ASSUME TypeOK, NEW p \in Procs, NEW t, Becomes(p, t), Light(task[p]), Light(t), jobs' = jobs
    PROVE  Doomed' = Doomed /\ Rules' = Rules
<1>1. Held(t) = {} /\ ~Draining(t) BY DEF Light
<1>2. /\ Rules' = Rules
      /\ Doomed' = [c \in Chats |-> Doomed[c] \cup IF c = t.chat THEN Held(t) ELSE {}]
  BY <1>1, HoldsStep
<1>3. \A c \in Chats : Doomed'[c] = Doomed[c] BY <1>1, <1>2
<1>4. Doomed' = [c \in Chats |-> Doomed'[c]] /\ Doomed = [c \in Chats |-> Doomed[c]]
  BY DEF Doomed
<1>. QED BY <1>2, <1>3, <1>4

\* The types of what the refinement reads off the goroutines.
DecidedOK == Doomed \in [Chats -> SUBSET Ids] /\ Rules \in [Chats -> SUBSET TTLs]

\* Decisions are about messages, and the TTLs of drains are TTLs the operator may set.
LEMMA Decided == RightfulInv => DecidedOK
<1> SUFFICES ASSUME RightfulInv PROVE DecidedOK OBVIOUS
<1>0. TypeOK BY DEF RightfulInv
<1>1. ASSUME NEW c \in Chats
      PROVE  Doomed[c] \in SUBSET Ids
  <2>1. \A p \in Procs : Held(task[p]) \subseteq Ids BY <1>0 DEF TypeOK, TaskType, Held
  <2>. QED BY <1>0, <2>1 DEF Doomed, TasksOf, TypeOK
<1>2. ASSUME NEW c \in Chats
      PROVE  Rules[c] \in SUBSET TTLs
  <2>1. ASSUME NEW p \in Procs, task[p].chat = c, Draining(task[p])
        PROVE  task[p].ttl \in TTLs
    <3>1. task[p].ttl \in used[c] BY <2>1 DEF RightfulInv, Entitled, EntitledTask, Draining
    <3>. QED BY <1>0, <3>1 DEF TypeOK
  <2>. QED BY <2>1 DEF Rules, TasksOf
<1>. QED BY <1>1, <1>2 DEF DecidedOK, Doomed, Rules

\* The same after a step.
LEMMA DecidedNext == RightfulInv' => DecidedOK'
BY Decided, PTL

\* A step that lets the account and the settings be, that dooms nothing that has not
\* expired and begins drains under the TTL that is set, is one of Retention.
LEMMA Judged ==
    ASSUME RightfulInv, RightfulInv', UNCHANGED <<now, own, sent, fresh, ttl, pat>>,
           \A c \in Chats : \A m \in Doomed'[c] \ Doomed[c] : Promise!Expired(c, m),
           \A c \in Chats : \A u \in Rules'[c] : u \in Rules[c] \/ u = ttl[c]
    PROVE  Promise!Judge
<1>1. DecidedOK' BY DecidedNext
<1>2. \A c \in Chats : Rules'[c] \subseteq Promise!InForce(c)
  <2>1. \A c \in Chats : 0 \notin Rules'[c] BY <1>1, NumberAssumption DEF DecidedOK
  <2>. QED BY <2>1 DEF Promise!InForce
<1>. QED BY <1>1, <1>2
         DEF Promise!Judge, Promise!Decisions, Promise!account, Promise!settings, DecidedOK

\* A goroutine keeps or gives up what it holds, in the drain it is in.
Eases(t, j) ==
    /\ Held(t) = {} \/ (t.chat = j.chat /\ Held(t) \subseteq Held(j))
    /\ Draining(t) => (Draining(j) /\ t.chat = j.chat /\ t.ttl = j.ttl)

\* A step of such a goroutine dooms nothing and begins no drain.
LEMMA EasesDoomed ==
    ASSUME RightfulInv, NEW p \in Procs, NEW t, Becomes(p, t), Eases(t, task[p]),
           \A c \in Chats : jobs'[c] \subseteq jobs[c]
    PROVE  \A c \in Chats : Doomed'[c] \subseteq Doomed[c] /\ Rules'[c] \subseteq Rules[c]
<1>0. TypeOK BY DEF RightfulInv
<1>1. \A c \in Chats : \A m \in Doomed'[c] : m \in Doomed[c]
  <2>1. \A c \in Chats : jobs[c] \subseteq Doomed[c] BY DEF Doomed
  <2>2. \A m \in Held(task[p]) : task[p].chat \in Chats => m \in Doomed[task[p].chat]
    BY DEF Doomed, TasksOf
  <2>3. \A c \in Chats : \A m \in Doomed'[c] :
           m \in jobs'[c] \/ m \in Doomed[c] \/ (c = t.chat /\ m \in Held(t))
    BY <1>0, BecomesAdds
  <2>. QED BY <2>1, <2>2, <2>3 DEF Eases
<1>2. \A c \in Chats : \A u \in Rules'[c] : u \in Rules[c]
  <2>1. Draining(task[p]) /\ task[p].chat \in Chats => task[p].ttl \in Rules[task[p].chat]
    BY DEF Rules, TasksOf
  <2>2. \A c \in Chats : \A u \in Rules'[c] :
           u \in Rules[c] \/ (c = t.chat /\ Draining(t) /\ u = t.ttl)
    BY <1>0, BecomesAdds
  <2>. QED BY <2>1, <2>2 DEF Eases
<1>. QED BY <1>1, <1>2

\* When it also lets the account and the settings be, it is one of Retention.
LEMMA EasesStep ==
    ASSUME RightfulInv, RightfulInv', NEW p \in Procs, NEW t, Becomes(p, t), Eases(t, task[p]),
           UNCHANGED <<now, own, sent, fresh, ttl, pat>>,
           \A c \in Chats : jobs'[c] \subseteq jobs[c]
    PROVE  Promise!Judge
BY EasesDoomed, Judged

-----------------------------------------------------------------------------
(* The deletes *)

\* Delete sends what its goroutine holds.
LEMMA SendingHolds ==
    ASSUME TypeOK, NEW p \in Procs, MaySend(p)
    PROVE  LET j == Sending(p)
           IN /\ j.todo = Held(task[p])
              /\ j.pc = task[p].pc /\ j.chat = task[p].chat /\ j.op = task[p].op
              /\ j.ttl = task[p].ttl
<1> DEFINE j == task[p]
           t == [j EXCEPT !.api = session, !.todo = j.ids]
<1>1. j \in TaskType BY DEF TypeOK
<1>2. Sending(p) = IF j.pc = "chunk" THEN j ELSE t BY DEF Sending
<1>3. j.pc \in {"delete", "chunk"} BY DEF MaySend
<1>4. t.pc = j.pc /\ t.ttl = j.ttl /\ t.op = j.op /\ t.chat = j.chat /\ t.todo = j.ids
  BY <1>1 DEF TaskType
<1> HIDE DEF t
<1>. QED BY <1>2, <1>3, <1>4 DEF Held

\* The goroutine after a chunk, whether it was deleted or failed.
AfterSending(t, j, k) ==
    /\ t.chat = j.chat /\ t.op = j.op /\ t.ttl = j.ttl
    /\ t.pc \in {"chunk", "settle"}
    /\ t.todo = j.todo \ k

\* AfterChunk and WithFailed take the chunk from what is left and keep the rest.
LEMMA AfterChunkIs ==
    ASSUME NEW j \in TaskType, NEW k
    PROVE  /\ AfterSending(AfterChunk(j, k), j, k)
           /\ AfterSending(WithFailed(AfterChunk(j, k), k), j, k)
<1> DEFINE left == j.todo \ k
           pc == IF j.todo = k THEN "settle" ELSE "chunk"
           u == [j EXCEPT !.todo = left, !.pc = pc]
           v == [u EXCEPT !.failed = u.failed \cup k]
<1>1. AfterChunk(j, k) = u /\ WithFailed(AfterChunk(j, k), k) = v
  BY DEF AfterChunk, WithFailed
<1>2. pc \in {"chunk", "settle"} OBVIOUS
<1> HIDE DEF left, pc
<1>3. u.chat = j.chat /\ u.op = j.op /\ u.ttl = j.ttl /\ u.pc = pc /\ u.todo = left
  BY DEF TaskType
<1>4. v.chat = j.chat /\ v.op = j.op /\ v.ttl = j.ttl /\ v.pc = pc /\ v.todo = left
  BY DEF TaskType
<1> HIDE DEF u, v
<1>. QED BY <1>1, <1>2, <1>3, <1>4 DEF AfterSending, left

\* It holds no more than before and goes on in its drain.
LEMMA SendingEases ==
    ASSUME TypeOK, NEW p \in Procs, MaySend(p), NEW k, NEW t, AfterSending(t, Sending(p), k)
    PROVE  /\ Eases(t, task[p])
           /\ Draining(t) <=> Draining(task[p])
           /\ t.chat = task[p].chat /\ t.ttl = task[p].ttl
<1>1. task[p].pc \in {"delete", "chunk"} BY DEF MaySend
<1>. QED BY <1>1, SendingHolds DEF AfterSending, Eases, Held, Draining

\* A chunk that Telegram deletes was doomed, and it goes from one chat only.
LEMMA ChunkDeletes ==
    ASSUME RightfulInv, RightfulInv', NEW p \in Procs, MaySend(p),
           NEW k \in Chunks(Sending(p).todo),
           NEW t, Becomes(p, t), AfterSending(t, Sending(p), k),
           UNCHANGED <<now, sent, fresh, ttl, pat, jobs>>,
           own' = Without(own, Box(Sending(p).chat), k)
    PROVE  Promise!Next
<1> DEFINE j == Sending(p)
           c == j.chat
           S == k \cap own[c]
<1>1. j \in TaskType /\ TypeOK BY SendingType DEF RightfulInv
<1>2. EntitledTask(j) BY SendingEntitled
<1>3. c \in Chats BY <1>1 DEF TaskType
<1>4. k \subseteq j.todo BY DEF Chunks
<1>5. k \subseteq Sent(c) BY <1>2, <1>4 DEF EntitledTask
<1>6. j.todo = Held(task[p]) /\ c = task[p].chat BY <1>1, SendingHolds
<1>7. S \subseteq Doomed[c] /\ S \in SUBSET Ids
  <2>1. k \subseteq Doomed[c] BY <1>3, <1>4, <1>6 DEF Doomed, TasksOf
  <2>2. k \subseteq Ids BY <1>5 DEF Sent
  <2>. QED BY <2>1, <2>2
<1>8. \A d \in Chats : own'[d] = IF d = c THEN own[c] \ S ELSE own[d]
  <2>1. \A d \in Chats : own'[d] = IF d \in Box(c) THEN own[d] \ k ELSE own[d] BY DEF Without
  <2>2. c \in Box(c) BY DEF Box
  <2>3. ASSUME NEW d \in Chats, d \in Box(c), d # c
        PROVE  own[d] \cap k = {}
    <3>1. own[d] \subseteq Sent(d) BY DEF RightfulInv, KnownSent
    <3>. QED BY <1>3, <1>5, <2>3, <3>1 DEF RightfulInv, SentOnce, Sent
  <2> HIDE DEF c, j
  <2>. QED BY <1>3, <2>1, <2>2, <2>3
<1>9. Eases(t, task[p]) /\ Rules' = Rules BY <1>1, SendingEases, SameRules
<1>10. \A d \in Chats : Doomed'[d] \subseteq Doomed[d] BY <1>9, EasesDoomed
<1> HIDE DEF c, S, j
<1>11. CASE S = {}
  <2>1. \A d \in Chats : own'[d] = own[d] BY <1>3, <1>8, <1>11
  <2>2. own' = own
    <3>1. own' = [d \in Chats |-> own'[d]] /\ own = [d \in Chats |-> own[d]]
      BY <1>1 DEF Without, TypeOK
    <3>. QED BY <2>1, <3>1
  <2>. QED BY <1>9, <2>2, EasesStep DEF Promise!Next
<1>12. CASE S # {}
  <2>1. own' = [own EXCEPT ![c] = own[c] \ S]
    <3>1. own' = [d \in Chats |-> own'[d]] /\ own = [d \in Chats |-> own[d]]
      BY <1>1 DEF Without, TypeOK
    <3>. QED BY <1>3, <1>8, <3>1
  <2>2. DecidedOK' BY DecidedNext
  <2>3. S \subseteq own[c] BY DEF S
  <2>4. Promise!Delete(c, S)
    BY <1>7, <1>9, <1>10, <1>12, <2>1, <2>2, <2>3
       DEF Promise!Delete, Promise!Decisions, Promise!settings, DecidedOK
  <2>. QED BY <1>3, <1>7, <2>4 DEF Promise!Next
<1>. QED BY <1>11, <1>12

\* deleteIDs and Delete only delete what is doomed, or spare it.
LEMMA DeletingRetains ==
    ASSUME RightfulInv, RightfulInv', NEW p \in Procs, Deleting(p)
    PROVE  Promise!Next
<1>0. TypeOK /\ task[p] \in TaskType BY DEF RightfulInv, TypeOK
<1>1. CASE DeleteDropped(p)
  <2>1. Returned(task[p], {}) = NoTask BY DEF Returned
  <2>2. Eases(NoTask, task[p]) BY DEF Eases, NoTask, Held, Draining
  <2>3. Becomes(p, NoTask) BY <1>1, <2>1 DEF DeleteDropped
  <2>. QED BY <1>1, <2>2, <2>3, EasesStep DEF DeleteDropped, server, conf, Promise!Next
<1>2. CASE DeleteRefused(p)
  <2> DEFINE t == [task[p] EXCEPT !.pc = "settle"]
  <2>1. t.pc = "settle" /\ t.op = task[p].op /\ t.chat = task[p].chat /\ t.ttl = task[p].ttl
    BY <1>0 DEF TaskType
  <2>2. task[p].pc = "delete" /\ Becomes(p, t) BY <1>2 DEF DeleteRefused
  <2> HIDE DEF t
  <2>3. Eases(t, task[p]) BY <2>1, <2>2 DEF Eases, Held, Draining
  <2>. QED BY <1>2, <2>2, <2>3, EasesStep DEF DeleteRefused, server, conf, Promise!Next
<1>3. CASE Settle(p)
  <2> DEFINE r == Returned(task[p], OkIds(task[p]))
  <2>1. Becomes(p, r) /\ task[p].pc = "settle" BY <1>3 DEF Settle
  <2>2. Eases(NoTask, task[p]) BY DEF Eases, NoTask, Held, Draining
  <2>3. ASSUME task[p].op = "drain"
        PROVE  Eases(NextPass(task[p]), task[p])
    <3> DEFINE j == Job("drain", "fetch", task[p].chat)
               n == task[p].pass + 1
               u == [j EXCEPT !.ctx = task[p].ctx, !.ttl = task[p].ttl, !.pass = n,
                              !.prev = task[p].oldest]
    <3>1. NextPass(task[p]) = u BY DEF NextPass
    <3>2. u.pc = "fetch" /\ u.op = "drain" /\ u.chat = task[p].chat /\ u.ids = {}
          /\ u.ttl = task[p].ttl
      BY DEF Job, NoTask
    <3> HIDE DEF u
    <3>. QED BY <2>1, <2>3, <3>1, <3>2 DEF Eases, Held, Draining
  <2>4. Eases(r, task[p]) BY <2>2, <2>3 DEF Returned
  <2> HIDE DEF r
  <2>. QED BY <1>3, <2>1, <2>4, EasesStep DEF Settle, server, conf, Promise!Next
<1>4. ASSUME NEW k \in SUBSET Ids, ChunkDeleted(p, k)
      PROVE  Promise!Next
  <2>1. AfterSending(AfterChunk(Sending(p), k), Sending(p), k) BY <1>0, SendingType, AfterChunkIs
  <2>. QED BY <1>4, <2>1, ChunkDeletes DEF ChunkDeleted, conf
<1>5. ASSUME NEW k \in SUBSET Ids, ChunkFailed(p, k)
      PROVE  Promise!Next
  <2> DEFINE t == WithFailed(AfterChunk(Sending(p), k), k)
  <2>1. AfterSending(t, Sending(p), k) BY <1>0, SendingType, AfterChunkIs
  <2>2. Becomes(p, t) BY <1>5 DEF ChunkFailed
  <2>3. own' = own \/ own' = Without(own, Box(Sending(p).chat), k) BY <1>5 DEF ChunkFailed
  <2> HIDE DEF t
  <2>4. CASE own' = own
    <3>1. Eases(t, task[p]) BY <1>0, <1>5, <2>1, SendingEases DEF ChunkFailed
    <3>. QED BY <1>5, <2>2, <2>4, <3>1, EasesStep DEF ChunkFailed, conf, Promise!Next
  <2>5. CASE own' = Without(own, Box(Sending(p).chat), k)
    BY <1>5, <2>1, <2>2, <2>5, ChunkDeletes DEF ChunkFailed, conf
  <2>. QED BY <2>3, <2>4, <2>5
<1>. QED BY <1>1, <1>2, <1>3, <1>4, <1>5 DEF Deleting

-----------------------------------------------------------------------------
(* The sweep and the scans *)

\* The sweep dooms what has outlived the TTL that is set.
LEMMA SweepRetains ==
    ASSUME RightfulInv, RightfulInv', Sweep
    PROVE  Promise!Next
<1>0. TypeOK BY DEF RightfulInv
<1>1. CASE SweepTick
  <2>1. task' = task /\ UNCHANGED <<server, conf>> /\ jobs' = [c \in Chats |-> Expired(c)]
    BY <1>1 DEF SweepTick
  <2>2. Rules' = Rules BY <2>1 DEF Rules, TasksOf
  <2>3. ASSUME NEW c \in Chats, NEW m \in Doomed'[c] \ Doomed[c]
        PROVE  Promise!Expired(c, m)
    <3>1. m \in Expired(c) BY <2>1, <2>3 DEF Doomed, TasksOf
    <3>2. m \in index[c] /\ ttl[c] > 0 /\ now - sent[c][m] >= ttl[c]
      BY <3>1 DEF Expired, Swept, Outlived
    <3>3. sent[c][m] # -1 BY <3>2 DEF RightfulInv, KnownSent, Sent, Unsent
    <3>4. ttl[c] \in Promise!InForce(c) BY <1>0, <3>2, NumberAssumption DEF Promise!InForce, TypeOK
    <3>. QED BY <3>2, <3>3, <3>4 DEF Promise!Expired, Promise!Unsent
  <2>. QED BY <2>1, <2>2, <2>3, Judged DEF server, conf, Promise!Next
<1>2. CASE LoopExit
  <2>1. task' = task /\ UNCHANGED <<server, conf>> /\ jobs' = [c \in Chats |-> {}]
    BY <1>2 DEF LoopExit
  <2>2. Rules' = Rules BY <2>1 DEF Rules, TasksOf
  <2>3. \A c \in Chats : Doomed'[c] \subseteq Doomed[c] BY <2>1 DEF Doomed, TasksOf
  <2>. QED BY <2>1, <2>2, <2>3, Judged DEF server, conf, Promise!Next
<1>3. ASSUME NEW c \in Chats, SweepNext(c)
      PROVE  Promise!Next
  <2> DEFINE j == Job("sweep", "delete", c)
             t == [j EXCEPT !.ids = jobs[c], !.ctx = loop]
  <2>1. t.op = "sweep" /\ t.pc = "delete" /\ t.chat = c /\ t.ids = jobs[c] BY DEF Job, NoTask
  <2>2. Becomes(Sweeper, t) /\ jobs' = [jobs EXCEPT ![c] = {}] /\ UNCHANGED <<server, conf>>
    BY <1>3 DEF SweepNext
  <2> HIDE DEF t
  <2>3. \A d \in Chats : jobs[d] \subseteq Doomed[d] BY DEF Doomed
  <2>4. \A d \in Chats : jobs'[d] \subseteq jobs[d] BY <1>0, <2>2 DEF TypeOK
  <2>5. Held(t) = jobs[c] /\ ~Draining(t) BY <2>1 DEF Held, Draining
  <2>6. Sweeper \in Procs BY DEF Procs
  <2>7. \A d \in Chats : \A m \in Doomed'[d] : m \in Doomed[d]
    <3>1. \A d \in Chats : \A m \in Doomed'[d] :
             m \in jobs'[d] \/ m \in Doomed[d] \/ (d = t.chat /\ m \in Held(t))
      BY <1>0, <2>2, <2>6, BecomesAdds
    <3>. QED BY <2>1, <2>3, <2>4, <2>5, <3>1
  <2>8. \A d \in Chats : \A u \in Rules'[d] : u \in Rules[d]
    <3>1. \A d \in Chats : \A u \in Rules'[d] :
             u \in Rules[d] \/ (d = t.chat /\ Draining(t) /\ u = t.ttl)
      BY <1>0, <2>2, <2>6, BecomesAdds
    <3>. QED BY <2>5, <3>1
  <2>. QED BY <2>2, <2>7, <2>8, Judged DEF server, conf, Promise!Next
<1>. QED BY <1>1, <1>2, <1>3 DEF Sweep

\* resolveGroup: a drain begins under the TTL that is set.
LEMMA ResolveRetains ==
    ASSUME RightfulInv, RightfulInv', NEW w \in Workers, Resolve(w)
    PROVE  Promise!Next
<1> DEFINE j == task[w]
           n == IF j.op = "drain" THEN ttl[j.chat] ELSE 0
           k == IF j.op = "drain" THEN 1 ELSE 0
           u == [j EXCEPT !.pc = "mark", !.ttl = n, !.pass = k]
           t == IF j.op = "drain" /\ ttl[j.chat] = 0 THEN NoTask ELSE u
<1>0. TypeOK /\ w \in Procs /\ j \in TaskType BY DEF RightfulInv, TypeOK, Procs
<1>1. Becomes(w, t) /\ UNCHANGED <<server, conf, jobs>> BY DEF Resolve
<1>2. /\ u.pc = "mark" /\ u.op = j.op /\ u.chat = j.chat /\ u.ids = {}
      /\ j.op = "drain" => u.ttl = ttl[j.chat]
  <2>1. j.ids = {} BY <1>0 DEF Resolve, RightfulInv, Entitled, EntitledTask
  <2>. QED BY <1>0, <2>1 DEF TaskType
<1> HIDE DEF u
<1>3. Held(t) = {} /\ (Draining(t) => t.ttl = ttl[t.chat])
  BY <1>2 DEF Held, Draining, NoTask
<1> HIDE DEF t
<1>4. \A c \in Chats : \A m \in Doomed'[c] : m \in Doomed[c]
  <2>1. \A c \in Chats : \A m \in Doomed'[c] :
           m \in jobs'[c] \/ m \in Doomed[c] \/ (c = t.chat /\ m \in Held(t))
    BY <1>0, <1>1, BecomesAdds
  <2>. QED BY <1>1, <1>3, <2>1 DEF Doomed
<1>5. \A c \in Chats : \A v \in Rules'[c] : v \in Rules[c] \/ v = ttl[c]
  <2>1. \A c \in Chats : \A v \in Rules'[c] :
           v \in Rules[c] \/ (c = t.chat /\ Draining(t) /\ v = t.ttl)
    BY <1>0, <1>1, BecomesAdds
  <2>. QED BY <1>3, <2>1
<1>. QED BY <1>1, <1>4, <1>5, Judged DEF server, conf, Promise!Next

\* The scan callback: a drain dooms a message that has outlived its TTL.
LEMMA CallbackRetains ==
    ASSUME RightfulInv, RightfulInv', NEW w \in Workers, NEW m \in Ids, Callback(w, m)
    PROVE  Promise!Next
<1> DEFINE j == task[w]
           c == j.chat
           old == IF j.op = "drain" THEN m ELSE 0
           ids == IF j.op = "drain" /\ Outlived(c, m, j.ttl, j.at) THEN j.ids \cup {m} ELSE j.ids
           pc == IF j.page = {m} THEN "fetch" ELSE "page"
           t == [j EXCEPT !.page = j.page \ {m}, !.offset = m, !.oldest = old, !.ids = ids, !.pc = pc]
<1>0. TypeOK /\ w \in Procs /\ j \in TaskType /\ c \in Chats
  BY DEF RightfulInv, TypeOK, Procs, TaskType
<1>1. EntitledTask(j) /\ j.pc = "page" /\ m \in j.page
  BY <1>0 DEF RightfulInv, Entitled, Callback
<1>2. Becomes(w, t) /\ UNCHANGED <<server, conf, jobs>> BY DEF Callback, Called, NextOffset
<1>3. pc \in {"fetch", "page"} OBVIOUS
<1>4. ids \subseteq j.ids \/ (j.op = "drain" /\ Outlived(c, m, j.ttl, j.at) /\ ids = j.ids \cup {m})
  OBVIOUS
<1> HIDE DEF ids, pc, old
<1>5. t.pc = pc /\ t.op = j.op /\ t.chat = c /\ t.ttl = j.ttl /\ t.ids = ids
  BY <1>0 DEF TaskType
<1> HIDE DEF t
<1>6. Held(t) = ids /\ Held(j) = j.ids /\ (Draining(t) => Draining(j))
  BY <1>1, <1>3, <1>5 DEF Held, Draining
<1>7. ASSUME j.op = "drain", Outlived(c, m, j.ttl, j.at)
      PROVE  Promise!Expired(c, m)
  <2>1. j.ttl \in used[c] /\ j.at <= now /\ m \in Sent(c) BY <1>1, <1>7 DEF EntitledTask
  <2>2. j.ttl \in TTLs BY <1>0, <2>1 DEF TypeOK
  <2>3. j.ttl \in Int /\ j.ttl # 0 BY <2>2, TTLInt
  <2>4. j.ttl \in Rules[c] BY <1>0, <1>1, <1>7 DEF Rules, TasksOf, Draining
  <2>5. now \in Int /\ sent[c][m] \in Int /\ sent[c][m] # -1
    BY <1>0, <2>1 DEF TypeOK, Unsent, Sent
  <2>6. j.at \in Int BY <1>0 DEF TaskType
  <2>7. j.at - sent[c][m] >= j.ttl BY <1>7 DEF Outlived
  <2>8. \A a, b, d, e \in Int : a - b >= d /\ a <= e => e - b >= d OBVIOUS
  <2> HIDE DEF j, c
  <2>9. now - sent[c][m] >= j.ttl BY <2>1, <2>3, <2>5, <2>6, <2>7, <2>8
  <2>. QED BY <2>3, <2>4, <2>5, <2>9 DEF Promise!Expired, Promise!InForce, Promise!Unsent
<1>8. \A d \in Chats : \A k \in Doomed'[d] \ Doomed[d] : Promise!Expired(d, k)
  <2>1. \A d \in Chats : \A k \in Doomed'[d] :
           k \in jobs'[d] \/ k \in Doomed[d] \/ (d = t.chat /\ k \in Held(t))
    BY <1>0, <1>2, BecomesAdds
  <2>2. \A k \in j.ids : k \in Doomed[c] BY <1>0, <1>6 DEF Doomed, TasksOf
  <2>3. \A d \in Chats : jobs[d] \subseteq Doomed[d] BY DEF Doomed
  <2> HIDE DEF j, c
  <2>. QED BY <1>2, <1>4, <1>5, <1>6, <1>7, <2>1, <2>2, <2>3
<1>9. \A d \in Chats : \A u \in Rules'[d] : u \in Rules[d]
  <2>1. \A d \in Chats : \A u \in Rules'[d] :
           u \in Rules[d] \/ (d = t.chat /\ Draining(t) /\ u = t.ttl)
    BY <1>0, <1>2, BecomesAdds
  <2>2. Draining(j) => j.ttl \in Rules[c] BY <1>0 DEF Rules, TasksOf
  <2> HIDE DEF j, c
  <2>. QED BY <1>5, <1>6, <2>1, <2>2
<1>. QED BY <1>2, <1>8, <1>9, Judged DEF server, conf, Promise!Next

\* The other steps of a worker let go of what it holds, or hold on to it.
LEMMA WorkingRetains ==
    ASSUME RightfulInv, RightfulInv', NEW w \in Workers, Working(w)
    PROVE  Promise!Next
<1>0. TypeOK /\ w \in Procs /\ task[w] \in TaskType BY DEF RightfulInv, TypeOK, Procs
<1>1. Eases(NoTask, task[w]) BY DEF Eases, NoTask, Held, Draining
<1>2. CASE OwnIndexed(w) \/ ResolveFailed(w) \/ FetchFailed(w) \/ DisableChat(w)
  BY <1>0, <1>1, <1>2, EasesStep
     DEF OwnIndexed, ResolveFailed, FetchFailed, DisableChat, server, conf, Promise!Next
<1>3. CASE MarkActive(w)
  <2> DEFINE t == [task[w] EXCEPT !.pc = "fetch"]
             j == task[w]
  <2>1. t.pc = "fetch" /\ t.op = j.op /\ t.chat = j.chat /\ t.ttl = j.ttl /\ t.ids = j.ids
    BY <1>0 DEF TaskType
  <2>2. Becomes(w, t) /\ j.pc = "mark" BY <1>3 DEF MarkActive
  <2> HIDE DEF t
  <2>3. Eases(t, j) BY <2>1, <2>2 DEF Eases, Held, Draining
  <2>. QED BY <1>0, <1>3, <2>2, <2>3, EasesStep DEF MarkActive, server, conf, Promise!Next
<1>4. CASE Fetch(w)
  <2> DEFINE j == task[w]
             t == Fetching(w)
             page == Found(t.chat, t.offset)
             u == [t EXCEPT !.pc = "page", !.page = page]
             d == [t EXCEPT !.pc = "delete", !.offset = 0]
             r == IF page = {} THEN ScanDone(t) ELSE u
  <2>1. t \in TaskType /\ t.pc = "fetch" BY <1>0, <1>4, FetchingType DEF Fetch
  <2>2. t.pc = j.pc /\ t.op = j.op /\ t.chat = j.chat /\ t.ttl = j.ttl /\ t.ids = j.ids
    <3> DEFINE a == IF j.op = "drain" THEN now ELSE 0
               v == [j EXCEPT !.api = session, !.at = a]
    <3>1. t = IF j.offset # 0 THEN j ELSE v BY DEF Fetching
    <3>2. v.pc = j.pc /\ v.op = j.op /\ v.chat = j.chat /\ v.ttl = j.ttl /\ v.ids = j.ids
      BY <1>0 DEF TaskType
    <3>. QED BY <3>1, <3>2
  <2>3. Becomes(w, r) BY <1>4 DEF Fetch
  <2> HIDE DEF t, page
  <2>4. /\ u.pc = "page" /\ u.op = t.op /\ u.chat = t.chat /\ u.ttl = t.ttl /\ u.ids = t.ids
        /\ d.pc = "delete" /\ d.op = t.op /\ d.chat = t.chat /\ d.ttl = t.ttl /\ d.ids = t.ids
    BY <2>1 DEF TaskType
  <2>5. ScanDone(t) = IF t.op = "drain" /\ t.ids # {} THEN d ELSE NoTask BY DEF ScanDone
  <2> HIDE DEF u, d
  <2>6. Eases(u, j) /\ Eases(d, j) BY <2>1, <2>2, <2>4 DEF Eases, Held, Draining
  <2>7. Eases(r, j) BY <1>1, <2>5, <2>6
  <2> HIDE DEF r
  <2>. QED BY <1>0, <1>4, <2>3, <2>7, EasesStep DEF Fetch, server, conf, Promise!Next
<1>5. ASSUME NEW m \in Ids, Callback(w, m) PROVE Promise!Next BY <1>5, CallbackRetains
<1>. QED BY <1>2, <1>3, <1>4, <1>5, ResolveRetains DEF Working

-----------------------------------------------------------------------------
(* Everything else *)

\* The clock, the account and other devices are the same in both.
LEMMA TelegramRetains ==
    ASSUME RightfulInv, Telegram
    PROVE  Promise!Next
<1>0. UNCHANGED <<jobs, task>> => Doomed' = Doomed /\ Rules' = Rules
  BY DEF Doomed, Rules, TasksOf
<1>1. CASE Tick
  BY <1>0, <1>1 DEF Tick, conf, Promise!Tick, Promise!settings, Promise!decided, Promise!Next
<1>2. ASSUME NEW c \in Chats, NEW m \in Ids, Send(c, m)
      PROVE  Promise!Next
  <2>1. sent[c][m] = Unsent
    <3>1. c \in Box(c) BY DEF Box
    <3>2. m \in Nat BY NumberAssumption
    <3>3. sent[c][m] # Unsent => m < m BY <1>2, <3>1 DEF Send
    <3>. QED BY <3>2, <3>3
  <2>2. Promise!Send(c, m)
    BY <1>0, <1>2, <2>1
       DEF Send, conf, Unsent, Promise!Send, Promise!Unsent, Promise!settings, Promise!decided
  <2>. QED BY <2>2 DEF Promise!Next
<1>3. ASSUME NEW c \in Chats, NEW m \in Ids, Vanish(c, m)
      PROVE  Promise!Next
  BY <1>0, <1>3 DEF Vanish, conf, Promise!Vanish, Promise!settings, Promise!decided, Promise!Next
<1>. QED BY <1>1, <1>2, <1>3 DEF Telegram

\* A free worker holds nothing.
LEMMA IdleLight ==
    ASSUME NEW w \in Workers, Idle(w)
    PROVE  Light(task[w])
BY DEF Idle, Light, Held, Draining

\* A new message is looked at once, under the patterns of that moment.
LEMMA UpdatesRetain ==
    ASSUME RightfulInv, RightfulInv', Updates
    PROVE  Promise!Next \/ UNCHANGED Promise!vars
<1>0. TypeOK /\ Workers \subseteq Procs BY DEF RightfulInv, Procs
<1>1. UNCHANGED <<jobs, task>> => Doomed' = Doomed /\ Rules' = Rules
  BY DEF Doomed, Rules, TasksOf
<1>2. ASSUME NEW c \in Chats, NEW m \in Ids, OwnService(c, m) \/ OwnIgnored(c, m)
      PROVE  Promise!Next
  <2>1. ~Promise!Matches(c, m)
    BY <1>2 DEF OwnService, OwnIgnored, Matches, Promise!Matches
  <2>2. Promise!See(c, m)
    BY <1>1, <1>2, <2>1
       DEF OwnService, OwnIgnored, OwnText, NextUpdate, conf, Promise!See, Promise!settings
  <2>. QED BY <2>2 DEF Promise!Next
<1>3. ASSUME NEW c \in Chats, NEW m \in Ids, OnDeleted(c, m)
      PROVE  UNCHANGED Promise!vars
  BY <1>1, <1>3
     DEF OnDeleted, conf, Promise!vars, Promise!account, Promise!settings, Promise!decided
<1>4. ASSUME NEW c \in Chats, NEW m \in Ids, NEW w \in Workers, OwnRecorded(w, c, m)
      PROVE  Promise!Next
  <2> DEFINE j == Job("own", "record", c)
             t == [j EXCEPT !.ids = {m}]
  <2>1. t.pc = "record" /\ t.op = "own" /\ Becomes(w, t) BY <1>4 DEF Job, NoTask, OwnRecorded
  <2> HIDE DEF t
  <2>2. Light(t) BY <2>1 DEF Light, Held, Draining
  <2>3. Doomed' = Doomed /\ Rules' = Rules
    BY <1>0, <1>4, <2>1, <2>2, IdleLight, LightStep DEF OwnRecorded
  <2>4. ~Promise!Matches(c, m) BY <1>4 DEF OwnRecorded, Matches, Promise!Matches
  <2>5. Promise!See(c, m)
    BY <1>4, <2>3, <2>4
       DEF OwnRecorded, OwnText, NextUpdate, conf, Promise!See, Promise!settings
  <2>. QED BY <2>5 DEF Promise!Next
<1>5. ASSUME NEW c \in Chats, NEW m \in Ids, NEW w \in Workers, OwnMatched(w, c, m)
      PROVE  Promise!Next
  <2> DEFINE j == Job("instant", "delete", c)
             t == [j EXCEPT !.ids = {m}]
  <2>1. /\ t.pc = "delete" /\ t.op = "instant" /\ t.chat = c /\ t.ids = {m}
        /\ Becomes(w, t)
    BY <1>5 DEF Job, NoTask, OwnMatched
  <2> HIDE DEF t
  <2>2. Held(t) = {m} /\ ~Draining(t) BY <2>1 DEF Held, Draining
  <2>3. /\ Rules' = Rules
        /\ Doomed' = [d \in Chats |-> Doomed[d] \cup IF d = c THEN {m} ELSE {}]
    BY <1>0, <1>5, <2>1, <2>2, IdleLight, HoldsStep DEF OwnMatched
  <2>4. Doomed' = [Doomed EXCEPT ![c] = Doomed[c] \cup {m}] BY <2>3 DEF Doomed
  <2>5. Promise!Matches(c, m) BY <1>5 DEF OwnMatched, OwnText, Matches, Promise!Matches
  <2>6. Promise!See(c, m)
    BY <1>5, <2>3, <2>4, <2>5
       DEF OwnMatched, OwnText, NextUpdate, conf, Promise!See, Promise!settings
  <2>. QED BY <2>6 DEF Promise!Next
<1>. QED BY <1>2, <1>3, <1>4, <1>5 DEF Updates

\* Commands change the settings and nothing else at once; the goroutine they start
\* is in no drain before it has resolved its group.
LEMMA OperatorRetains ==
    ASSUME RightfulInv, RightfulInv', Operator
    PROVE  Promise!Next
<1>0. TypeOK /\ Workers \subseteq Procs BY DEF RightfulInv, Procs
<1>1. UNCHANGED <<jobs, task>> => Doomed' = Doomed /\ Rules' = Rules
  BY DEF Doomed, Rules, TasksOf
<1>2. ASSUME NEW w \in Workers, NEW op \in Ops, NEW c \in Chats, NEW pc \in {"resolve", "forget"},
             op # "drain" \/ pc = "resolve", Idle(w), Becomes(w, Job(op, pc, c)), jobs' = jobs
      PROVE  Doomed' = Doomed /\ Rules' = Rules
  <2>1. Light(Job(op, pc, c))
    <3>1. Job(op, pc, c).pc = pc /\ Job(op, pc, c).op = op BY DEF Job, NoTask
    <3>. QED BY <1>2, <3>1 DEF Light, Held, Draining
  <2>. QED BY <1>0, <1>2, <2>1, IdleLight, LightStep
<1>3. ASSUME NEW c \in Chats, AddPattern(c)
      PROVE  Promise!Next
  <2>. Promise!AddPattern(c)
    BY <1>1, <1>3
       DEF AddPattern, server, Promise!AddPattern, Promise!account, Promise!decided
  <2>. QED BY DEF Promise!Next
<1>4. ASSUME NEW c \in Chats, RemovePattern(c)
      PROVE  Promise!Next
  <2>. Promise!RemovePattern(c)
    BY <1>1, <1>4
       DEF RemovePattern, server, Promise!RemovePattern, Promise!account, Promise!decided
  <2>. QED BY DEF Promise!Next
<1>5. ASSUME NEW c \in Chats, NEW w \in Workers, ClearTTL(w, c)
      PROVE  Promise!Next
  <2>1. Doomed' = Doomed /\ Rules' = Rules BY <1>2, <1>5 DEF ClearTTL, Ops
  <2>2. Promise!SetTTL(c, 0)
    BY <1>5, <2>1 DEF ClearTTL, server, Promise!SetTTL, Promise!account, Promise!decided
  <2>. QED BY <2>2 DEF Promise!Next
<1>6. ASSUME NEW c \in Chats, NEW w \in Workers, TurnOff(w, c)
      PROVE  Promise!Next
  <2>1. Doomed' = Doomed /\ Rules' = Rules BY <1>2, <1>6 DEF TurnOff, Ops
  <2>2. Promise!Disable(c)
    BY <1>6, <2>1 DEF TurnOff, server, Promise!Disable, Promise!account, Promise!decided
  <2>. QED BY <2>2 DEF Promise!Next
<1>7. ASSUME NEW c \in Chats, NEW w \in Workers, Purge(w, c)
      PROVE  Promise!Next
  <2>1. Doomed' = Doomed /\ Rules' = Rules BY <1>2, <1>7 DEF Purge, Ops
  <2>. QED BY <1>7, <2>1, Judged DEF Purge, server, conf, Promise!Next
<1>8. ASSUME NEW c \in Chats, NEW w \in Workers, NEW n \in TTLs, ApplyTTL(w, c, n)
      PROVE  Promise!Next
  <2> DEFINE op == IF ttl[c] = 0 THEN "drain" ELSE "enable"
  <2>1. op \in Ops /\ Becomes(w, Job(op, "resolve", c)) BY <1>8 DEF ApplyTTL, Ops
  <2> HIDE DEF op
  <2>2. Doomed' = Doomed /\ Rules' = Rules BY <1>2, <1>8, <2>1 DEF ApplyTTL
  <2>3. Promise!SetTTL(c, n)
    BY <1>8, <2>2 DEF ApplyTTL, server, Promise!SetTTL, Promise!account, Promise!decided
  <2>. QED BY <2>3 DEF Promise!Next
<1>. QED BY <1>3, <1>4, <1>5, <1>6, <1>7, <1>8 DEF Operator

\* Starting, stopping and crashing spares what was doomed.
LEMMA SessionsRetain ==
    ASSUME RightfulInv, RightfulInv', Sessions
    PROVE  Promise!Next
<1>0. TypeOK /\ Workers \subseteq Procs BY DEF RightfulInv, Procs
<1>1. ASSUME UNCHANGED <<server, conf, jobs, task>>
      PROVE  Promise!Next
  <2>1. Doomed' = Doomed /\ Rules' = Rules BY <1>1 DEF Doomed, Rules, TasksOf
  <2>. QED BY <1>1, <2>1, Judged DEF server, conf, Promise!Next
<1>2. CASE Start \/ ReadyList \/ StopCancel \/ StopHalt \/ Reset
  BY <1>1, <1>2 DEF Start, ReadyList, StopCancel, StopHalt, Reset
<1>3. CASE Crash
  <2>1. \A p \in Procs : task'[p].pc = "idle" BY <1>3 DEF Crash, NoTask
  <2>2. \A c \in Chats : Doomed'[c] = {}
    BY <1>3, <2>1 DEF Crash, Doomed, TasksOf, Held
  <2>3. \A c \in Chats : Rules'[c] = {} BY <2>1 DEF Rules, TasksOf, Draining
  <2>. QED BY <1>3, <2>2, <2>3, Judged DEF Crash, server, conf, Promise!Next
<1>4. ASSUME NEW w \in Workers, NEW c \in Chats, ReadySpawn(w, c)
      PROVE  Promise!Next
  <2> DEFINE j == Job("enable", "resolve", c)
             t == [j EXCEPT !.ctx = session]
  <2>1. t.pc = "resolve" /\ Becomes(w, t) BY <1>4 DEF Job, NoTask, ReadySpawn
  <2> HIDE DEF t
  <2>2. Light(t) BY <2>1 DEF Light, Held, Draining
  <2>3. Doomed' = Doomed /\ Rules' = Rules
    BY <1>0, <1>4, <2>1, <2>2, IdleLight, LightStep DEF ReadySpawn
  <2>. QED BY <1>4, <2>3, Judged DEF ReadySpawn, server, conf, Promise!Next
<1>. QED BY <1>2, <1>3, <1>4 DEF Sessions

\* Every step of the cleaner is a step of Retention or a stutter.
LEMMA StepRetains == RightfulInv /\ RightfulInv' /\ [Next]_vars => [Promise!Next]_Promise!vars
<1> SUFFICES ASSUME RightfulInv, RightfulInv', [Next]_vars
             PROVE  Promise!Next \/ UNCHANGED Promise!vars
  OBVIOUS
<1>1. CASE UNCHANGED vars
  <2>. UNCHANGED <<server, conf, jobs, task>> BY <1>1 DEF vars
  <2>1. Doomed' = Doomed /\ Rules' = Rules BY DEF Doomed, Rules, TasksOf
  <2>. QED BY <2>1
           DEF server, conf, Promise!vars, Promise!account, Promise!settings, Promise!decided
<1>2. CASE Next
  BY <1>2, TelegramRetains, UpdatesRetain, SweepRetains, DeletingRetains, WorkingRetains,
     OperatorRetains, SessionsRetain DEF Next
<1>. QED BY <1>1, <1>2

\* Before the program first runs nothing is doomed and no drain goes on.
LEMMA InitRetains == Init => Promise!Init
<1> SUFFICES ASSUME Init PROVE Promise!Init OBVIOUS
<1>1. \A p \in Procs : task[p].pc = "idle" BY DEF Init, NoTask
<1>2. Doomed = [c \in Chats |-> {}]
  <2>1. \A c \in Chats : Doomed[c] = {} BY <1>1 DEF Init, Doomed, TasksOf, Held
  <2>. QED BY <2>1 DEF Doomed
<1>3. Rules = [c \in Chats |-> {}]
  <2>1. \A c \in Chats : Rules[c] = {} BY <1>1 DEF Rules, TasksOf, Draining
  <2>. QED BY <2>1 DEF Rules
<1>. QED BY <1>2, <1>3 DEF Init, Unsent, Promise!Init, Promise!Unsent

\* The cleaner implements Retention, for all constants: a message disappears by the
\* program's hand only after it was doomed, by a pattern when it was first seen, or by a
\* TTL that was set, or applied by a drain still going on, when it was judged.
THEOREM RetentionCorrect == Spec => Retains
<1>1. RightfulInv /\ [Next]_vars => RightfulInv' BY RightfulInvStep
<1>. QED BY <1>1, RightfulInit, InitRetains, StepRetains, PTL DEF Spec, Retains, Promise!Spec
=============================================================================
