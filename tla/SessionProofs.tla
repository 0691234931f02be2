---------------------------- MODULE SessionProofs ----------------------------
(***************************************************************************)
(* The life cycle of the user client of module Session, for any number of  *)
(* goroutines, stacks and channels: the types, and, while no /stop is sent  *)
(* with another /stop under way, that two stacks are never alive at once,   *)
(* that Stop returns to a /stop only when none is, and that a question of   *)
(* the login is the one the owner's next message answers.  A /start may be  *)
(* under way in any number and at any point when a /stop is sent.           *)
(***************************************************************************)
EXTENDS Session, FiniteSetTheorems, TLAPS

-----------------------------------------------------------------------------
(* Types *)

\* A question that waits has a channel.
Connected == \A n \in Stacks : Asked(n) => stack[n].ch # 0

SessionTypeInv == SessionTypeOK /\ Connected

\* The bounds are numbers.
LEMMA BoundsNat == /\ MaxStacks \in Nat
                   /\ MaxTaps \in Nat
                   /\ RestartLimit \in Nat
BY SessionAssumption

\* A goroutine goes on to a well-typed record.
LEMMA BecomesType ==
    ASSUME SessionTypeOK, NEW h \in Procs, NEW t \in HandlerType, Becomes(h, t)
    PROVE  task' \in [Procs -> HandlerType]
BY DEF SessionTypeOK, Becomes

\* Moving on keeps a goroutine's record well typed.
LEMMA GoesType ==
    ASSUME SessionTypeOK, NEW h \in Procs, NEW pc, Goes(h, pc),
           pc \in {"build", "mark", "undo", "halt", "forget", "unmark", "exit"}
    PROVE  task' \in [Procs -> HandlerType]
<1>1. [task[h] EXCEPT !.pc = pc] \in HandlerType BY DEF SessionTypeOK, HandlerType
<1>. QED BY <1>1, BecomesType DEF Goes

\* The record of an idle handler is well typed.
LEMMA NoHandlerType == NoHandler \in HandlerType
BY SessionAssumption DEF NoHandler, HandlerType

\* A step that brings no stack to a question keeps the channels of those that wait.
LEMMA SameChannels ==
    ASSUME Connected,
           \A n \in Stacks : stack'[n].pc = "asked" =>
               stack[n].pc = "asked" /\ stack'[n].ch = stack[n].ch
    PROVE  Connected'
BY DEF Connected, Asked

\* The initial state is well typed.
LEMMA SessionTypeInit == Init => SessionTypeInv
<1> SUFFICES ASSUME Init PROVE SessionTypeInv OBVIOUS
<1>1. NoHandler \in HandlerType BY NoHandlerType
<1>2. NoStack \in StackType BY SessionAssumption DEF NoStack, StackType
<1>3. stack \in [Stacks -> StackType] /\ task \in [Procs -> HandlerType]
  BY <1>1, <1>2 DEF Init
<1>4. /\ running \in BOOLEAN
      /\ convo \in BOOLEAN
      /\ stage \in BOOLEAN
      /\ started \in BOOLEAN
  BY Zenon DEF Init
<1>5. /\ pending \in Kinds
      /\ reply \in Channels \cup {0}
      /\ full \subseteq Channels
      /\ taps \in 0..MaxTaps
      /\ current \in 0..MaxStacks
  BY BoundsNat DEF Init, Kinds
<1>6. SessionTypeOK BY <1>3, <1>4, <1>5 DEF SessionTypeOK
<1>. QED BY <1>6 DEF SessionTypeInv, Connected, Asked, Init, NoStack

\* Messages and buttons of the owner keep the types.
LEMMA OwnerType ==
    ASSUME SessionTypeInv, Owner
    PROVE  SessionTypeInv'
<1> USE DEF SessionTypeInv
<1>1. UNCHANGED <<running, reply, full, client, stack>>
  BY
     DEF Owner, TapOpen, TapFinish, Read, ReadAnswer, ReadTTL, ReadPattern, ReadCommand, talk
<1>2. convo' \in BOOLEAN /\ stage' \in BOOLEAN
  <2>1. CASE UNCHANGED <<convo, stage>> BY <2>1 DEF SessionTypeOK
  <2>2. CASE convo' = TRUE /\ UNCHANGED stage BY <2>2, Zenon DEF SessionTypeOK
  <2>. QED BY <2>1, <2>2
           DEF Owner, TapOpen, TapFinish, Read, ReadAnswer, ReadTTL, ReadPattern, ReadCommand, talk
<1>3. pending' \in Kinds /\ taps' \in 0..MaxTaps
  <2>1. CASE UNCHANGED <<pending, taps>> BY <2>1 DEF SessionTypeOK
  <2>2. CASE taps < MaxTaps /\ taps' = taps + 1 /\ pending' \in {"ttl", "pattern"}
    BY <2>2, BoundsNat DEF SessionTypeOK, Kinds
  <2>. QED BY <2>1, <2>2
           DEF Owner, TapOpen, TapFinish, Read, ReadAnswer, ReadTTL, ReadPattern, ReadCommand, talk
<1>4. task' \in [Procs -> HandlerType]
  <2>1. CASE UNCHANGED task BY <2>1 DEF SessionTypeOK
  <2>2. ASSUME NEW h \in Handlers, NEW pc \in {"clear", "stage", "start", "stop"}, Reads(h, pc)
        PROVE  task' \in [Procs -> HandlerType]
    <3>1. [NoHandler EXCEPT !.pc = pc] \in HandlerType BY NoHandlerType DEF HandlerType
    <3>. QED BY <2>2, <3>1, BecomesType DEF Reads, Procs
  <2>3. ASSUME NEW h \in Handlers, ReadAnswer(h)
        PROVE  task' \in [Procs -> HandlerType]
    <3>1. [NoHandler EXCEPT !.pc = "put", !.ch = reply] \in HandlerType
      BY NoHandlerType DEF HandlerType, SessionTypeOK
    <3>. QED BY <2>3, <3>1, BecomesType DEF ReadAnswer, Procs
  <2>. QED BY <2>1, <2>2, <2>3
           DEF Owner, TapOpen, TapFinish, Read, ReadTTL, ReadPattern, ReadCommand
<1>5. Connected' BY <1>1, SameChannels
<1>. QED BY <1>1, <1>2, <1>3, <1>4, <1>5 DEF SessionTypeOK, client

\* A step of a goroutine that leaves the stacks and the questions alone.
LEMMA TaskStepType ==
    ASSUME SessionTypeInv, task' \in [Procs -> HandlerType],
           UNCHANGED <<full, taps, stack>>,
           \/ reply' = reply /\ pending' = pending
           \/ reply' = 0 /\ pending' = "none",
           \/ UNCHANGED current
           \/ current' = 0,
           /\ running' \in BOOLEAN
           /\ convo' \in BOOLEAN
           /\ stage' \in BOOLEAN
           /\ started' \in BOOLEAN
    PROVE  SessionTypeInv'
<1> USE DEF SessionTypeInv
<1>1. Connected' BY SameChannels
<1>2. reply' \in Channels \cup {0} /\ pending' \in Kinds /\ current' \in 0..MaxStacks
  BY BoundsNat DEF SessionTypeOK, Kinds
<1>. QED BY <1>1, <1>2 DEF SessionTypeOK

\* The flags of the bot and of the client stay Boolean when a step sets or keeps them.
LEMMA FlagsType ==
    ASSUME SessionTypeOK,
           UNCHANGED running \/ running' = TRUE \/ running' = FALSE,
           UNCHANGED convo \/ convo' = FALSE,
           UNCHANGED stage \/ stage' = TRUE \/ stage' = FALSE,
           UNCHANGED started \/ started' = TRUE \/ started' = FALSE
    PROVE  /\ running' \in BOOLEAN
           /\ convo' \in BOOLEAN
           /\ stage' \in BOOLEAN
           /\ started' \in BOOLEAN
BY Zenon DEF SessionTypeOK

\* Cancelling a stack keeps its type and its channel.
LEMMA CancelledType ==
    ASSUME SessionTypeInv, NEW n, stack' = Cancelled(n)
    PROVE  /\ stack' \in [Stacks -> StackType]
           /\ Connected'
<1> USE DEF SessionTypeInv
<1>1. stack' \in [Stacks -> StackType]
  <2>1. ASSUME NEW k \in Stacks PROVE [stack[k] EXCEPT !.ctx = "done"] \in StackType
    BY DEF SessionTypeOK, StackType
  <2>. QED BY <2>1 DEF SessionTypeOK, Cancelled
<1>2. \A k \in Stacks : stack'[k].pc = stack[k].pc /\ stack'[k].ch = stack[k].ch
  BY DEF SessionTypeOK, Cancelled, StackType
<1>. QED BY <1>1, <1>2, SameChannels

\* So do the handlers.
LEMMA HandlingType ==
    ASSUME SessionTypeInv, NEW h \in Handlers, Handling(h)
    PROVE  SessionTypeInv'
<1> USE DEF SessionTypeInv
<1>0. h \in Procs BY DEF Procs
<1>1. CASE Put(h)
  <2>1. task[h].ch \in Channels
    <3>1. PICK n \in Stacks : Asked(n) /\ stack[n].ch = task[h].ch
      BY <1>1 DEF Put, Waited, Asked
    <3>2. stack[n].ch \in Channels \cup {0} /\ stack[n].ch # 0
      BY <3>1 DEF SessionTypeOK, StackType, Connected
    <3>. QED BY <3>1, <3>2
  <2>2. full' \subseteq Channels BY <1>1, <2>1 DEF Put, SessionTypeOK
  <2>3. task' \in [Procs -> HandlerType]
    BY <1>0, <1>1, NoHandlerType, BecomesType DEF Put, AfterPut
  <2>4. Connected' BY <1>1, SameChannels DEF Put
  <2>. QED BY <1>1, <2>2, <2>3, <2>4 DEF Put, talk, client, SessionTypeOK
<1>2. CASE Late(h) \/ Clear(h) \/ Stage(h) \/ Mark(h) \/ Unmark(h) \/ Refused(h) \/ Undo(h)
  <2>1. task' \in [Procs -> HandlerType]
    BY <1>0, <1>2, NoHandlerType, BecomesType
       DEF Late, Clear, Stage, Mark, Unmark, Refused, Undo
  <2>2. UNCHANGED <<full, taps, stack>>
    BY <1>2 DEF Late, Clear, Stage, Mark, Unmark, Refused, Undo, client
  <2>3. /\ \/ reply' = reply /\ pending' = pending
           \/ reply' = 0 /\ pending' = "none"
        /\ UNCHANGED current \/ current' = 0
    <3>1. CASE Late(h) \/ Refused(h) BY <3>1 DEF Late, Refused, talk, client
    <3>2. CASE Clear(h) \/ Stage(h) BY <3>2 DEF Clear, Stage, Cleared, client
    <3>3. CASE Mark(h) \/ Unmark(h) BY <3>3 DEF Mark, Unmark, talk, client
    <3>4. CASE Undo(h) BY <3>4 DEF Undo, ClientReset, talk
    <3>. QED BY <1>2, <3>1, <3>2, <3>3, <3>4
  <2>4. /\ UNCHANGED running \/ running' = TRUE \/ running' = FALSE
        /\ UNCHANGED convo \/ convo' = FALSE
        /\ UNCHANGED stage \/ stage' = TRUE \/ stage' = FALSE
        /\ UNCHANGED started \/ started' = TRUE \/ started' = FALSE
    <3>1. CASE Late(h) \/ Refused(h) BY <3>1 DEF Late, Refused, talk, client
    <3>2. CASE Clear(h) \/ Stage(h) BY <3>2 DEF Clear, Stage, Cleared, client
    <3>3. CASE Mark(h) \/ Unmark(h) BY <3>3 DEF Mark, Unmark, talk, client
    <3>4. CASE Undo(h) BY <3>4 DEF Undo, ClientReset, talk
    <3>. QED BY <1>2, <3>1, <3>2, <3>3, <3>4
  <2>. QED BY <2>1, <2>2, <2>3, <2>4, FlagsType, TaskStepType
<1>3. CASE CmdStart(h) \/ AwaitReady(h) \/ CmdStop(h) \/ Forget(h)
  <2>1. task' \in [Procs -> HandlerType]
    <3>1. CASE Becomes(h, NoHandler) BY <1>0, <3>1, NoHandlerType, BecomesType
    <3>2. CASE \E pc \in {"build", "mark", "halt", "unmark"} : Goes(h, pc)
      BY <1>0, <3>2, GoesType
    <3>. QED BY <1>3, <3>1, <3>2 DEF CmdStart, AwaitReady, CmdStop, Forget
  <2>2. UNCHANGED <<running, talk, full, taps, client, stack>>
    BY <1>3 DEF CmdStart, AwaitReady, CmdStop, Forget
  <2>. QED BY <2>1, <2>2, TaskStepType, FlagsType DEF talk, client
<1>4. CASE AwaitFailed(h)
  <2>1. task' \in [Procs -> HandlerType] BY <1>0, <1>4, GoesType DEF AwaitFailed
  <2>2. /\ stack' \in [Stacks -> StackType]
        /\ Connected'
    BY <1>4, CancelledType DEF AwaitFailed
  <2>. QED BY <1>4, <2>1, <2>2 DEF AwaitFailed, talk, client, SessionTypeOK
<1>5. ASSUME NEW n \in Stacks, Build(h, n)
      PROVE  SessionTypeInv'
  <2>1. CASE Becomes(h, NoHandler) /\ UNCHANGED <<client, stack>>
    <3>1. task' \in [Procs -> HandlerType] BY <1>0, <2>1, NoHandlerType, BecomesType
    <3>2. UNCHANGED <<running, talk, full, taps, client, stack>>
      BY <1>5, <2>1 DEF Build
    <3>. QED BY <3>1, <3>2, TaskStepType, FlagsType DEF talk, client
  <2>2. CASE /\ started' = TRUE
             /\ current' = n
             /\ \E ctx \in {"live", "done"} :
                   stack' = [stack EXCEPT ![n].pc = "login", ![n].ctx = ctx]
             /\ Becomes(h, [NoHandler EXCEPT !.pc = "await", !.of = n])
    <3>1. [NoHandler EXCEPT !.pc = "await", !.of = n] \in HandlerType
      <4>1. n \in 0..MaxStacks BY BoundsNat DEF Stacks
      <4>. QED BY <4>1, NoHandlerType DEF HandlerType
    <3>2. task' \in [Procs -> HandlerType] BY <1>0, <2>2, <3>1, BecomesType
    <3>3. PICK ctx \in {"live", "done"} :
              stack' = [stack EXCEPT ![n].pc = "login", ![n].ctx = ctx]
      BY <2>2
    <3>4. stack' \in [Stacks -> StackType]
      <4>1. [stack[n] EXCEPT !.pc = "login", !.ctx = ctx] \in StackType
        BY DEF SessionTypeOK, StackType
      <4>. QED BY <3>3, <4>1 DEF SessionTypeOK
    <3>5. /\ \A k \in Stacks : k # n => stack'[k] = stack[k]
          /\ stack'[n].pc = "login" /\ stack[n].pc = "none"
      BY <1>5, <3>3 DEF SessionTypeOK, StackType, Build
    <3>6. Connected' BY <1>5, <3>5, SameChannels DEF Build
    <3>7. current' \in 0..MaxStacks BY <2>2, BoundsNat DEF Stacks
    <3>. QED BY <1>5, <2>2, <3>2, <3>4, <3>6, <3>7 DEF Build, talk, SessionTypeOK
  <2>. QED BY <1>5, <2>1, <2>2 DEF Build
<1>. QED BY <1>1, <1>2, <1>3, <1>4, <1>5 DEF Handling

\* So does Client.Stop.
LEMMA HaltingType ==
    ASSUME SessionTypeInv, NEW p \in Procs, Halting(p)
    PROVE  SessionTypeInv'
<1> USE DEF SessionTypeInv
<1>0. AfterHalt(p) \in {"forget", "exit"} BY DEF AfterHalt
<1>1. CASE HaltIdle(p)
  <2>1. task' \in [Procs -> HandlerType] BY <1>0, <1>1, GoesType DEF HaltIdle
  <2>2. UNCHANGED <<running, talk, full, taps, client, stack>> BY <1>1 DEF HaltIdle
  <2>. QED BY <2>1, <2>2, TaskStepType, FlagsType DEF talk, client
<1>2. CASE HaltCancel(p)
  <2>1. [NoHandler EXCEPT !.pc = "wait", !.of = current] \in HandlerType
    BY NoHandlerType DEF HandlerType, SessionTypeOK
  <2>2. task' \in [Procs -> HandlerType] BY <1>2, <2>1, BecomesType DEF HaltCancel
  <2>3. /\ stack' \in [Stacks -> StackType]
        /\ Connected'
    BY <1>2, CancelledType DEF HaltCancel
  <2>. QED BY <1>2, <2>2, <2>3 DEF HaltCancel, talk, client, SessionTypeOK
<1>3. CASE HaltReset(p)
  <2>1. task' \in [Procs -> HandlerType] BY <1>0, <1>3, GoesType DEF HaltReset
  <2>2. UNCHANGED <<running, talk, full, taps, stack>> /\ started' = FALSE /\ current' = 0
    BY <1>3 DEF HaltReset, ClientReset
  <2>. QED BY <2>1, <2>2, TaskStepType, FlagsType DEF talk
<1>. QED BY <1>1, <1>2, <1>3 DEF Halting

\* A step of a stack that does not make it wait for an answer.
LEMMA StackStepType ==
    ASSUME SessionTypeInv, NEW n \in Stacks, NEW s \in StackType,
           stack' = [stack EXCEPT ![n] = s], s.pc # "asked",
           full' \subseteq full,
           UNCHANGED <<running, taps, client, task>>,
           \/ UNCHANGED talk
           \/ Cleared
    PROVE  SessionTypeInv'
<1> USE DEF SessionTypeInv
<1>1. stack' \in [Stacks -> StackType] BY DEF SessionTypeOK
<1>2. stack'[n] = s /\ \A k \in Stacks : k # n => stack'[k] = stack[k]
  BY DEF SessionTypeOK
<1>3. Connected' BY <1>2, SameChannels
<1>4. reply' \in Channels \cup {0} /\ pending' \in Kinds
  BY DEF SessionTypeOK, Kinds, talk, Cleared
<1>5. convo' \in BOOLEAN /\ stage' \in BOOLEAN
  <2>1. CASE UNCHANGED talk BY <2>1 DEF SessionTypeOK, talk
  <2>2. CASE convo' = FALSE /\ stage' = FALSE BY <2>2, Zenon
  <2>. QED BY <2>1, <2>2 DEF Cleared
<1>. QED BY <1>1, <1>3, <1>4, <1>5 DEF SessionTypeOK, client

\* A question gets a channel that nobody holds.
LEMMA AskType ==
    ASSUME SessionTypeInv, NEW n \in Stacks, Ask(n)
    PROVE  SessionTypeInv'
<1> USE DEF SessionTypeInv
<1>1. \E ch \in Channels : ch \notin Held BY DEF Ask
<1>2. Fresh \in Channels /\ Fresh # 0 BY <1>1, SessionAssumption DEF Fresh
<1>3. PICK q : q = [stack[n] EXCEPT !.pc = "asked", !.ch = Fresh] OBVIOUS
<1>4. q \in StackType /\ q.pc = "asked" /\ q.ch = Fresh
  BY <1>2, <1>3 DEF SessionTypeOK, StackType
<1>5. stack' = [stack EXCEPT ![n] = q] BY <1>3 DEF Ask
<1>6. stack' \in [Stacks -> StackType] BY <1>4, <1>5 DEF SessionTypeOK
<1>7. stack'[n] = q /\ \A k \in Stacks : k # n => stack'[k] = stack[k]
  BY <1>5 DEF SessionTypeOK
<1>8. Connected' BY <1>2, <1>4, <1>7 DEF Connected, Asked
<1>9. pending' \in Kinds BY DEF Ask, SessionTypeOK, StackType, Kinds
<1>10. reply' \in Channels \cup {0} BY <1>2 DEF Ask
<1>. QED BY <1>6, <1>8, <1>9, <1>10 DEF Ask, SessionTypeOK, client

\* What is left of a login when it has returned is well typed.
LEMMA AuthorizedType ==
    ASSUME SessionTypeOK, NEW n \in Stacks, NEW pc \in {"up", "failed"}, NEW result \in {"ok", "error"},
           Authorized(n, pc, result)
    PROVE  \E s \in StackType : s.pc = pc /\ stack' = [stack EXCEPT ![n] = s]
<1>1. stack[n].ctx \in {"live", "done"} BY DEF SessionTypeOK, StackType
<1>2. PICK s : s = [NoStack EXCEPT !.pc = pc, !.ctx = stack[n].ctx, !.ready = result] OBVIOUS
<1>3. s = [pc |-> pc, kind |-> "none", ch |-> 0, ctx |-> stack[n].ctx, ready |-> result, restarts |-> 0]
  BY <1>2 DEF NoStack
<1>4. s \in StackType /\ s.pc = pc BY <1>1, <1>3, BoundsNat DEF StackType
<1>5. stack' = [stack EXCEPT ![n] = s] BY <1>2 DEF Authorized
<1>. QED BY <1>4, <1>5

\* The steps of a stack keep the types.
LEMMA RunningType ==
    ASSUME SessionTypeInv, NEW n \in Stacks, Running(n)
    PROVE  SessionTypeInv'
<1> USE DEF SessionTypeInv
<1>0. stack[n] \in StackType BY DEF SessionTypeOK
<1>1. CASE Resumed(n) \/ Accepted(n)
  <2>1. PICK s \in StackType : s.pc = "up" /\ stack' = [stack EXCEPT ![n] = s]
    BY <1>1, AuthorizedType DEF Resumed, Accepted
  <2>2. UNCHANGED <<running, talk, full, taps, client, task>> BY <1>1 DEF Resumed, Accepted
  <2>. QED BY <2>1, <2>2, StackStepType
<1>2. CASE LoginNeeded(n)
  <2>1. PICK s : s = [stack[n] EXCEPT !.pc = "ask", !.kind = "phone"] OBVIOUS
  <2>2. s \in StackType /\ s.pc = "ask" BY <1>0, <2>1 DEF StackType, Login
  <2>3. stack' = [stack EXCEPT ![n] = s] BY <1>2, <2>1 DEF LoginNeeded
  <2>. QED BY <1>2, <2>2, <2>3, StackStepType DEF LoginNeeded
<1>3. CASE Ask(n) BY <1>3, AskType
<1>4. CASE Answered(n)
  <2>1. PICK s : s = [stack[n] EXCEPT !.pc = "taken", !.ch = 0] OBVIOUS
  <2>2. s \in StackType /\ s.pc = "taken" BY <1>0, <2>1 DEF StackType
  <2>3. stack' = [stack EXCEPT ![n] = s] BY <1>4, <2>1 DEF Answered
  <2>. QED BY <1>4, <2>2, <2>3, StackStepType DEF Answered
<1>5. CASE Taken(n) \/ AskCancelled(n)
  <2>1. PICK s : /\ s \in {[stack[n] EXCEPT !.pc = "check"], [stack[n] EXCEPT !.pc = "check", !.ch = 0]}
                 /\ stack' = [stack EXCEPT ![n] = s]
    BY <1>5 DEF Taken, AskCancelled, StackGoes
  <2>2. s \in StackType /\ s.pc = "check" BY <1>0, <2>1 DEF StackType
  <2>3. stack' = [stack EXCEPT ![n] = s] BY <2>1
  <2>4. full' \subseteq full /\ Cleared
    BY <1>5 DEF Taken, AskCancelled
  <2>5. UNCHANGED <<running, taps, client, task>> BY <1>5 DEF Taken, AskCancelled
  <2>. QED BY <2>2, <2>3, <2>4, <2>5, StackStepType
<1>6. CASE Again(n)
  <2>1. PICK s : s = [stack[n] EXCEPT !.pc = "ask", !.kind = NextKind(@), !.restarts = RestartsUsed(n)]
    OBVIOUS
  <2>2. RestartsUsed(n) \in 0..RestartLimit BY <1>0, BoundsNat DEF RestartsUsed, StackType
  <2>3. NextKind(stack[n].kind) \in Login BY DEF NextKind, Login
  <2>4. s \in StackType /\ s.pc = "ask" BY <1>0, <2>1, <2>2, <2>3 DEF StackType
  <2>5. stack' = [stack EXCEPT ![n] = s] BY <1>6, <2>1 DEF Again
  <2>. QED BY <1>6, <2>4, <2>5, StackStepType DEF Again
<1>7. CASE AuthRestart(n)
  <2>1. PICK s : s = [stack[n] EXCEPT !.pc = "ask", !.kind = "code", !.restarts = @ + 1] OBVIOUS
  <2>2. stack[n].restarts + 1 \in 0..RestartLimit
    BY <1>0, <1>7, BoundsNat DEF AuthRestart, MayRestart, StackType
  <2>3. s \in StackType /\ s.pc = "ask" BY <1>0, <2>1, <2>2 DEF StackType, Login
  <2>4. stack' = [stack EXCEPT ![n] = s] BY <1>7, <2>1 DEF AuthRestart
  <2>. QED BY <1>7, <2>3, <2>4, StackStepType DEF AuthRestart
<1>8. CASE Failed(n)
  <2>1. PICK s \in StackType : s.pc = "failed" /\ stack' = [stack EXCEPT ![n] = s]
    BY <1>8, AuthorizedType DEF Failed
  <2>. QED BY <1>8, <2>1, StackStepType DEF Failed
<1>9. CASE Ended(n)
  <2>1. PICK s : s = [stack[n] EXCEPT !.pc = "dead"] OBVIOUS
  <2>2. s \in StackType /\ s.pc = "dead" BY <1>0, <2>1 DEF StackType
  <2>3. stack' = [stack EXCEPT ![n] = s] BY <1>9, <2>1 DEF Ended, StackGoes
  <2>. QED BY <1>9, <2>2, <2>3, StackStepType DEF Ended
<1>. QED BY <1>1, <1>2, <1>3, <1>4, <1>5, <1>6, <1>7, <1>8, <1>9 DEF Running

\* The connection given up and the signal keep the types.
LEMMA EndingType ==
    ASSUME SessionTypeInv, Signal \/ \E n \in Stacks : Die(n)
    PROVE  SessionTypeInv'
<1> USE DEF SessionTypeInv
<1>1. ASSUME NEW n \in Stacks, Die(n)
      PROVE  SessionTypeInv'
  <2>1. /\ stack' \in [Stacks -> StackType]
        /\ Connected'
    BY <1>1, CancelledType DEF Die
  <2>. QED BY <1>1, <2>1 DEF Die, talk, client, SessionTypeOK
<1>2. CASE Signal
  <2>1. task' \in [Procs -> HandlerType] BY <1>2, GoesType DEF Signal, Procs
  <2>2. \A n \in Stacks : [stack[n] EXCEPT !.ctx = "done"] \in StackType
    BY DEF SessionTypeOK, StackType
  <2>3. stack' \in [Stacks -> StackType] BY <1>2, <2>2 DEF Signal, SessionTypeOK
  <2>4. \A n \in Stacks : stack'[n].pc = stack[n].pc /\ stack'[n].ch = stack[n].ch
    BY <1>2 DEF Signal, SessionTypeOK, StackType
  <2>5. Connected' BY <1>2, <2>4, SameChannels DEF Signal
  <2>. QED BY <1>2, <2>1, <2>3, <2>5 DEF Signal, talk, client, SessionTypeOK
<1>. QED BY <1>1, <1>2

\* Every step keeps the types.
LEMMA SessionTypeStep == SessionTypeInv /\ [Next]_vars => SessionTypeInv'
<1> SUFFICES ASSUME SessionTypeInv, [Next]_vars PROVE SessionTypeInv' OBVIOUS
<1>1. CASE UNCHANGED vars
  BY <1>1 DEF vars, talk, client, SessionTypeInv, SessionTypeOK, Connected, Asked
<1>. QED BY <1>1, OwnerType, HandlingType, HaltingType, RunningType, EndingType DEF Next

\* Every variable keeps its type: no login restarts more often than authRestartLimit,
\* however /start and /stop overlap.
THEOREM SessionTypeCorrect == Spec => []SessionTypeOK
<1>1. Spec => []SessionTypeInv BY SessionTypeInit, SessionTypeStep, PTL DEF Spec
<1>. QED BY <1>1, PTL DEF SessionTypeInv

-----------------------------------------------------------------------------
(* One stack at a time *)

\* A /start that has built a stack answers for it until it is over.
Owns(h) == task[h].pc \in {"await", "mark", "undo"}
Forgetting(h) == task[h].pc \in {"forget", "unmark"}

\* Who may reset the client: one /start or one /stop, and it holds the current stack,
\* the only one that can be alive.
OneStop  == \A h, k \in Handlers : Stopping(h) /\ Stopping(k) => h = k
OneOwner == \A h, k \in Handlers : Owns(h) /\ Owns(k) => h = k

HoldsCurrent ==
    \A h \in Handlers : (Owns(h) \/ At(h, "wait")) => (started /\ task[h].of = current)

StopAlone ==
    \A h \in Handlers : (At(h, "halt") \/ At(h, "wait")) =>
        (started /\ running /\ \A k \in Handlers : ~Owns(k))

AliveCurrent == \A n \in Stacks : Alive(n) => (started /\ n = current)

Ownership == OneStop /\ OneOwner /\ HoldsCurrent /\ StopAlone /\ AliveCurrent

\* The bot takes a client for running that is not, or that is another one, only while a
\* /stop is about to correct it.
MarkedRunning ==
    running /\ (~started \/ \E h \in Handlers : Owns(h)) => \E h \in Handlers : Forgetting(h)

\* The inductive invariant; main's reset at the end of the process needs no owner.
SessionInv ==
    /\ SessionTypeOK
    /\ OneClient
    /\ \/ Gone
       \/ Ownership /\ MarkedRunning

\* A handler with neither a stack nor a /stop.
Plain(t) == t.pc \in {"idle", "put", "clear", "stage", "start", "build"}

\* A step in which a handler takes up nothing, and no stack comes to life.
Light ==
    /\ UNCHANGED <<running, started, current>>
    /\ \A n \in Stacks : Alive(n)' => Alive(n)
    /\ \A k \in Handlers :
          \/ task'[k] = task[k]
          \/ Plain(task'[k]) /\ ~Forgetting(k)
          \/ Owns(k) /\ Owns(k)' /\ task'[k].of = task[k].of
          \/ At(k, "forget") /\ At(k, "unmark")'

\* A light step keeps the ownership.
LEMMA LightStep ==
    ASSUME SessionInv, SessionTypeOK', ~Gone, Light
    PROVE  SessionInv'
<1>1. OneClient' BY DEF SessionInv, OneClient, Light
<1>2. \A h \in Handlers : Stopping(h)' => Stopping(h)
  BY DEF Light, Stopping, Plain, Owns, At
<1>3. \A h \in Handlers : Owns(h)' => Owns(h) /\ task'[h].of = task[h].of
  BY DEF Light, Plain, Owns, At
<1>4. \A h \in Handlers : /\ At(h, "wait")' => At(h, "wait") /\ task'[h].of = task[h].of
                          /\ At(h, "halt")' => At(h, "halt")
  BY DEF Light, Plain, Owns, At
<1>5. \A h \in Handlers : Forgetting(h) => Forgetting(h)'
  BY DEF Light, Plain, Owns, At, Forgetting
<1>6. Ownership'
  <2>1. Ownership /\ running' = running /\ started' = started /\ current' = current
    BY DEF SessionInv, Light
  <2>2. OneStop' BY <1>2, <2>1 DEF Ownership, OneStop
  <2>3. OneOwner' BY <1>3, <2>1 DEF Ownership, OneOwner
  <2>4. HoldsCurrent' BY <1>3, <1>4, <2>1 DEF Ownership, HoldsCurrent
  <2>5. StopAlone' BY <1>3, <1>4, <2>1 DEF Ownership, StopAlone
  <2>6. AliveCurrent' BY <2>1 DEF Ownership, AliveCurrent, Light
  <2>. QED BY <2>2, <2>3, <2>4, <2>5, <2>6 DEF Ownership
<1>7. MarkedRunning'
  <2> SUFFICES ASSUME running', ~started' \/ \E h \in Handlers : Owns(h)'
               PROVE  \E h \in Handlers : Forgetting(h)'
    BY DEF MarkedRunning
  <2>1. running' = running /\ started' = started BY DEF Light
  <2>2. MarkedRunning BY DEF SessionInv
  <2>3. \E h \in Handlers : Forgetting(h) BY <1>3, <2>1, <2>2 DEF MarkedRunning
  <2>. QED BY <1>5, <2>3
<1>. QED BY <1>1, <1>6, <1>7 DEF SessionInv

\* The owner's messages are light but for a /stop.  With no other /stop under way the bot
\* is marked as running only for a client that is started and that no /start answers for.
LEMMA OwnerOwnership ==
    ASSUME SessionInv, SessionTypeOK', ~Gone, Owner, ~StopsOverlap
    PROVE  SessionInv'
<1>0. UNCHANGED <<running, started, current, stack>>
  BY
     DEF Owner, TapOpen, TapFinish, Read, ReadAnswer, ReadTTL, ReadPattern, ReadCommand, client
<1>1. \A n \in Stacks : Alive(n)' => Alive(n) BY <1>0 DEF Alive
<1>2. CASE UNCHANGED task
  <2>1. Light BY <1>0, <1>1, <1>2 DEF Light
  <2>. QED BY <2>1, LightStep
<1>3. ASSUME NEW h \in Handlers, NEW t, Plain(t), Becomes(h, t), At(h, "idle")
      PROVE  SessionInv'
  <2>1. Light
    BY <1>0, <1>1, <1>3 DEF Light, Becomes, SessionInv, SessionTypeOK, Procs, Forgetting, At
  <2>. QED BY <2>1, LightStep
<1>4. ASSUME NEW h \in Handlers, ReadCommand(h, "stop")
      PROVE  SessionInv'
  <2>1. \A k \in Handlers : ~Stopping(k) BY <1>4 DEF ReadCommand
  <2>2. \A k \in Handlers : ~Forgetting(k) BY <2>1 DEF Stopping, Forgetting
  <2>3. task' = [task EXCEPT ![h] = [NoHandler EXCEPT !.pc = "stop"]] /\ At(h, "idle")
    BY <1>4 DEF ReadCommand, Reads, Becomes
  <2>4. At(h, "stop")' /\ \A k \in Handlers : k # h => task'[k] = task[k]
    BY <2>3 DEF SessionInv, SessionTypeOK, Procs, NoHandler, At
  <2>5. \A k \in Handlers : /\ Owns(k)' => Owns(k) /\ task'[k] = task[k]
                            /\ ~At(k, "halt")' /\ ~At(k, "wait")'
    BY <2>1, <2>4 DEF Owns, At, Stopping
  <2>6. \A k \in Handlers : Stopping(k)' => k = h BY <2>1, <2>4 DEF Stopping
  <2>7. Ownership /\ MarkedRunning /\ OneClient BY DEF SessionInv
  <2>8. Ownership'
    BY <1>0, <1>1, <2>5, <2>6, <2>7
       DEF Ownership, OneStop, OneOwner, HoldsCurrent, StopAlone, AliveCurrent
  <2>9. ~running \/ (started /\ \A k \in Handlers : ~Owns(k))
    BY <2>2, <2>7 DEF MarkedRunning
  <2>10. MarkedRunning' BY <1>0, <2>5, <2>9 DEF MarkedRunning
  <2>11. OneClient' BY <1>1, <2>7 DEF OneClient
  <2>. QED BY <2>8, <2>10, <2>11 DEF SessionInv
<1>5. ASSUME NEW h \in Handlers, NEW pc \in {"clear", "stage", "start"}, Reads(h, pc)
      PROVE  SessionInv'
  <2>1. PICK t : t = [NoHandler EXCEPT !.pc = pc] OBVIOUS
  <2>2. Plain(t) BY <2>1 DEF Plain, NoHandler
  <2>. QED BY <1>3, <1>5, <2>1, <2>2 DEF Reads
<1>6. ASSUME NEW h \in Handlers, ReadAnswer(h)
      PROVE  SessionInv'
  <2>1. PICK t : t = [NoHandler EXCEPT !.pc = "put", !.ch = reply] OBVIOUS
  <2>2. Plain(t) BY <2>1 DEF Plain, NoHandler
  <2>. QED BY <1>3, <1>6, <2>1, <2>2 DEF ReadAnswer
<1>7. CASE TapOpen("ttl") \/ TapOpen("pattern") BY <1>2, <1>7 DEF TapOpen
<1>8. ASSUME NEW h \in Handlers, NEW text \in Texts, Read(h, text)
      PROVE  SessionInv'
  BY <1>4, <1>5, <1>6, <1>8 DEF Read, ReadTTL, ReadPattern, ReadCommand
<1>. QED BY <1>5, <1>7, <1>8 DEF Owner, TapFinish

\* A handler that leaves ownership, stop and stacks alone is light.
LEMMA HandlerLight ==
    ASSUME SessionTypeOK, NEW h \in Handlers, NEW t, Becomes(h, t),
           UNCHANGED <<running, started, current>>,
           \A n \in Stacks : Alive(n)' => Alive(n),
           \/ Plain(t) /\ ~Forgetting(h)
           \/ Owns(h) /\ t.pc \in {"await", "mark", "undo"} /\ t.of = task[h].of
           \/ At(h, "forget") /\ t.pc = "unmark"
    PROVE  Light
<1>1. task'[h] = t /\ \A k \in Handlers : k # h => task'[k] = task[k]
  BY DEF Becomes, SessionTypeOK, Procs
<1>. QED BY <1>1 DEF Light, Owns, At

\* A step of one handler leaves the others where they are.
LEMMA OthersStay ==
    ASSUME SessionTypeOK, NEW h \in Handlers, NEW t, Becomes(h, t)
    PROVE  /\ task'[h] = t
           /\ \A k \in Handlers : k # h => task'[k] = task[k]
BY DEF Becomes, SessionTypeOK, Procs

\* A /stop that finds the bot running is alone: the client is started and no /start
\* answers for it.
LEMMA CmdStopOwnership ==
    ASSUME SessionTypeOK, OneClient, Ownership, MarkedRunning, SessionTypeOK',
           NEW h \in Handlers, CmdStop(h), Goes(h, "halt")
    PROVE  SessionInv'
<1>1. PICK t : t = [task[h] EXCEPT !.pc = "halt"] OBVIOUS
<1>2. t.pc = "halt" BY <1>1 DEF SessionTypeOK, Procs, HandlerType
<1>3. task'[h] = t /\ \A k \in Handlers : k # h => task'[k] = task[k]
  BY <1>1, OthersStay DEF Goes
<1>4. At(h, "stop") /\ UNCHANGED <<running, started, current, stack>> BY DEF CmdStop, client
<1>5. \A k \in Handlers : Stopping(k) => k = h
  BY <1>4 DEF Ownership, OneStop, Stopping, At
<1>6. \A k \in Handlers : ~Forgetting(k)
  BY <1>4, <1>5 DEF Forgetting, Stopping, At
<1>7. running
  <2>1. ~Becomes(h, NoHandler)
    BY <1>2, <1>3, OthersStay DEF NoHandler
  <2>. QED BY <2>1 DEF CmdStop
<1>8. started /\ \A k \in Handlers : ~Owns(k) BY <1>6, <1>7 DEF MarkedRunning
<1>9. \A k \in Handlers : ~Owns(k)' /\ ~At(k, "wait")' /\ (Stopping(k)' => k = h)
  BY <1>2, <1>3, <1>5, <1>8 DEF Owns, Stopping, At
<1>10. Ownership'
  <2>1. \A n \in Stacks : Alive(n)' => Alive(n) BY <1>4 DEF Alive
  <2>. QED BY <1>4, <1>7, <1>8, <1>9, <2>1
              DEF Ownership, OneStop, OneOwner, HoldsCurrent, StopAlone, AliveCurrent
<1>11. MarkedRunning' BY <1>4, <1>8, <1>9 DEF MarkedRunning
<1>12. OneClient' BY <1>4 DEF OneClient, Alive
<1>. QED BY <1>10, <1>11, <1>12 DEF SessionInv

\* A /start that succeeds marks the client it has built as running.
LEMMA MarkOwnership ==
    ASSUME SessionTypeOK, OneClient, Ownership, MarkedRunning, SessionTypeOK',
           NEW h \in Handlers, Mark(h)
    PROVE  SessionInv'
<1>1. task'[h] = NoHandler /\ \A k \in Handlers : k # h => task'[k] = task[k]
  BY OthersStay DEF Mark
<1>2. At(h, "mark") /\ running' = TRUE /\ UNCHANGED <<started, current, stack>>
  BY DEF Mark, client
<1>3. Owns(h) BY <1>2 DEF Owns, At
<1>4. \A k \in Handlers : ~At(k, "halt") /\ ~At(k, "wait") BY <1>3 DEF Ownership, StopAlone
<1>5. started /\ \A k \in Handlers : Owns(k) => k = h
  BY <1>3 DEF Ownership, OneOwner, HoldsCurrent
<1>6. \A k \in Handlers : ~Owns(k)' /\ ~At(k, "halt")' /\ ~At(k, "wait")'
                         /\ (Stopping(k)' => Stopping(k))
  BY <1>1, <1>4, <1>5 DEF Owns, At, Stopping, NoHandler
<1>7. Ownership'
  <2>1. \A n \in Stacks : Alive(n)' => Alive(n) BY <1>2 DEF Alive
  <2>. QED BY <1>2, <1>6, <2>1
              DEF Ownership, OneStop, OneOwner, HoldsCurrent, StopAlone, AliveCurrent
<1>8. MarkedRunning' BY <1>2, <1>5, <1>6 DEF MarkedRunning
<1>9. OneClient' BY <1>2 DEF OneClient, Alive
<1>. QED BY <1>7, <1>8, <1>9 DEF SessionInv

\* The end of a /stop: the bot is marked as not running.
LEMMA UnmarkOwnership ==
    ASSUME SessionTypeOK, OneClient, Ownership, MarkedRunning, SessionTypeOK',
           NEW h \in Handlers, Unmark(h)
    PROVE  SessionInv'
<1>1. task'[h] = NoHandler /\ \A k \in Handlers : k # h => task'[k] = task[k]
  BY OthersStay DEF Unmark
<1>2. At(h, "unmark") /\ running' = FALSE /\ UNCHANGED <<started, current, stack>>
  BY DEF Unmark, client
<1>3. \A k \in Handlers : Stopping(k) => k = h BY <1>2 DEF Ownership, OneStop, Stopping, At
<1>4. \A k \in Handlers : ~At(k, "halt")' /\ ~At(k, "wait")' /\ ~Stopping(k)'
                         /\ (Owns(k)' => Owns(k) /\ task'[k] = task[k])
  BY <1>1, <1>3 DEF Owns, At, Stopping, NoHandler
<1>5. Ownership'
  <2>1. \A n \in Stacks : Alive(n)' => Alive(n) BY <1>2 DEF Alive
  <2>. QED BY <1>2, <1>4, <2>1
              DEF Ownership, OneStop, OneOwner, HoldsCurrent, StopAlone, AliveCurrent
<1>6. MarkedRunning' BY <1>2 DEF MarkedRunning
<1>7. OneClient' BY <1>2 DEF OneClient, Alive
<1>. QED BY <1>5, <1>6, <1>7 DEF SessionInv

\* A /start that fails resets the client once its own stack, the only one, is dead.
LEMMA UndoOwnership ==
    ASSUME SessionTypeOK, OneClient, Ownership, MarkedRunning, SessionTypeOK',
           NEW h \in Handlers, Undo(h)
    PROVE  SessionInv'
<1>1. task'[h] = NoHandler /\ \A k \in Handlers : k # h => task'[k] = task[k]
  BY OthersStay DEF Undo
<1>2. At(h, "undo") /\ started' = FALSE /\ UNCHANGED <<running, stack>>
  BY DEF Undo, ClientReset
<1>3. Owns(h) BY <1>2 DEF Owns, At
<1>4. stack[current].pc = "dead" BY <1>3 DEF Ownership, HoldsCurrent, Undo, Halted
<1>5. \A n \in Stacks : ~Alive(n)'
  BY <1>2, <1>4 DEF Ownership, HoldsCurrent, AliveCurrent, Alive
<1>6. \A k \in Handlers : ~At(k, "halt") /\ ~At(k, "wait") BY <1>3 DEF Ownership, StopAlone
<1>7. \A k \in Handlers : Owns(k) => k = h BY <1>3 DEF Ownership, OneOwner
<1>8. \A k \in Handlers : ~Owns(k)' /\ ~At(k, "halt")' /\ ~At(k, "wait")'
                         /\ (Stopping(k)' => Stopping(k))
  BY <1>1, <1>6, <1>7 DEF Owns, At, Stopping, NoHandler
<1>9. Ownership'
  BY <1>5, <1>8 DEF Ownership, OneStop, OneOwner, HoldsCurrent, StopAlone, AliveCurrent
<1>10. MarkedRunning'
  <2> SUFFICES ASSUME running' PROVE \E k \in Handlers : Forgetting(k)' BY DEF MarkedRunning
  <2>1. running BY <1>2
  <2>2. PICK k \in Handlers : Forgetting(k) BY <1>3, <2>1 DEF MarkedRunning
  <2>3. k # h BY <1>2, <2>2 DEF Forgetting, At
  <2>. QED BY <1>1, <2>2, <2>3 DEF Forgetting
<1>11. OneClient' BY <1>5 DEF OneClient
<1>. QED BY <1>9, <1>10, <1>11 DEF SessionInv

\* A /start that builds a stack finds none alive, and answers for the new one.
LEMMA BuildOwnership ==
    ASSUME SessionTypeOK, OneClient, Ownership, MarkedRunning, SessionTypeOK',
           NEW h \in Handlers, NEW n \in Stacks, Build(h, n),
           ~(Becomes(h, NoHandler) /\ UNCHANGED <<started, current, stack>>)
    PROVE  SessionInv'
<1>1. PICK t : t = [NoHandler EXCEPT !.pc = "await", !.of = n] OBVIOUS
<1>2. t.pc = "await" /\ t.of = n BY <1>1 DEF NoHandler
<1>3. /\ started' = TRUE /\ current' = n
      /\ stack' = [stack EXCEPT ![n].pc = "login", ![n].ctx = IF Polling THEN "live" ELSE "done"]
      /\ Becomes(h, t)
  BY <1>1 DEF Build, client
<1>4. task'[h] = t /\ \A k \in Handlers : k # h => task'[k] = task[k]
  BY <1>3, OthersStay
<1>5. At(h, "build") /\ ~started /\ running' = running BY DEF Build
<1>6. \A k \in Handlers : ~Owns(k) /\ ~At(k, "halt") /\ ~At(k, "wait")
  BY <1>5 DEF Ownership, HoldsCurrent, StopAlone
<1>7. \A k \in Stacks : k # n => ~Alive(k)'
  BY <1>3, <1>5 DEF Ownership, AliveCurrent, Alive, SessionTypeOK
<1>8. \A k \in Handlers : /\ Owns(k)' => k = h
                          /\ ~At(k, "halt")' /\ ~At(k, "wait")'
                          /\ Stopping(k)' => Stopping(k) /\ k # h
  BY <1>2, <1>4, <1>6 DEF Owns, At, Stopping
<1>9. Ownership'
  BY <1>2, <1>3, <1>4, <1>7, <1>8
     DEF Ownership, OneStop, OneOwner, HoldsCurrent, StopAlone, AliveCurrent
<1>10. MarkedRunning'
  <2> SUFFICES ASSUME running' PROVE \E k \in Handlers : Forgetting(k)' BY DEF MarkedRunning
  <2>1. running BY <1>5
  <2>2. PICK k \in Handlers : Forgetting(k) BY <1>5, <2>1 DEF MarkedRunning
  <2>3. k # h BY <1>5, <2>2 DEF Forgetting, At
  <2>. QED BY <1>4, <2>2, <2>3 DEF Forgetting
<1>11. OneClient' BY <1>7 DEF OneClient
<1>. QED BY <1>9, <1>10, <1>11 DEF SessionInv

\* The steps of a handler keep the ownership.
LEMMA HandlingOwnership ==
    ASSUME SessionInv, SessionTypeOK', ~Gone, NEW h \in Handlers, Handling(h)
    PROVE  SessionInv'
<1>0. /\ SessionTypeOK /\ OneClient /\ Ownership /\ MarkedRunning
      /\ h \in Procs /\ task[h] \in HandlerType
  BY DEF SessionInv, SessionTypeOK, Procs
<1>1. CASE UNCHANGED <<running, started, current, stack>> /\ Becomes(h, NoHandler) /\ ~Forgetting(h)
  <2>1. \A n \in Stacks : Alive(n)' => Alive(n) BY <1>1 DEF Alive
  <2>2. Plain(NoHandler) BY DEF Plain, NoHandler
  <2>. QED BY <1>0, <1>1, <2>1, <2>2, HandlerLight, LightStep
<1>2. CASE Put(h) \/ Late(h) \/ Clear(h) \/ Stage(h) \/ Refused(h)
  BY <1>1, <1>2 DEF Put, AfterPut, Late, Clear, Stage, Refused, client, At, Forgetting
<1>3. CASE CmdStart(h)
  <2>1. CASE Becomes(h, NoHandler) BY <1>1, <1>3, <2>1 DEF CmdStart, client, At, Forgetting
  <2>2. CASE Goes(h, "build")
    <3>1. PICK t : t = [task[h] EXCEPT !.pc = "build"] OBVIOUS
    <3>2. Plain(t) BY <1>0, <3>1 DEF Plain, HandlerType
    <3>3. ~Forgetting(h) /\ UNCHANGED <<running, started, current, stack>> /\ Becomes(h, t)
      BY <1>3, <2>2, <3>1 DEF CmdStart, client, At, Forgetting, Goes
    <3>4. \A n \in Stacks : Alive(n)' => Alive(n) BY <3>3 DEF Alive
    <3>. QED BY <1>0, <3>2, <3>3, <3>4, HandlerLight, LightStep
  <2>. QED BY <1>3, <2>1, <2>2 DEF CmdStart
<1>4. CASE AwaitReady(h) \/ AwaitFailed(h)
  <2>1. PICK pc \in {"mark", "undo"} : Goes(h, pc) BY <1>4 DEF AwaitReady, AwaitFailed
  <2>2. PICK t : t = [task[h] EXCEPT !.pc = pc] OBVIOUS
  <2>3. Owns(h) /\ t.pc \in {"await", "mark", "undo"} /\ t.of = task[h].of
    BY <1>0, <1>4, <2>2 DEF AwaitReady, AwaitFailed, At, Owns, HandlerType
  <2>4. UNCHANGED <<running, started, current>> BY <1>4 DEF AwaitReady, AwaitFailed, client
  <2>5. \A n \in Stacks : Alive(n)' => Alive(n)
    BY <1>0, <1>4 DEF AwaitReady, AwaitFailed, Alive, Cancelled, SessionTypeOK, StackType
  <2>. QED BY <1>0, <2>1, <2>2, <2>3, <2>4, <2>5, HandlerLight, LightStep DEF Goes
<1>5. CASE Forget(h)
  <2>1. PICK t : t = [task[h] EXCEPT !.pc = "unmark"] OBVIOUS
  <2>2. At(h, "forget") /\ t.pc = "unmark" BY <1>0, <1>5, <2>1 DEF Forget, HandlerType
  <2>3. UNCHANGED <<running, started, current, stack>> /\ Becomes(h, t)
    BY <1>5, <2>1 DEF Forget, client, Goes
  <2>4. \A n \in Stacks : Alive(n)' => Alive(n) BY <2>3 DEF Alive
  <2>. QED BY <1>0, <2>2, <2>3, <2>4, HandlerLight, LightStep
<1>6. CASE CmdStop(h)
  BY <1>0, <1>1, <1>6, CmdStopOwnership DEF CmdStop, client, At, Forgetting
<1>7. CASE Mark(h) BY <1>0, <1>7, MarkOwnership
<1>8. CASE Unmark(h) BY <1>0, <1>8, UnmarkOwnership
<1>9. CASE Undo(h) BY <1>0, <1>9, UndoOwnership
<1>10. ASSUME NEW n \in Stacks, Build(h, n) PROVE SessionInv'
  BY <1>0, <1>1, <1>10, BuildOwnership DEF Build, client, At, Forgetting
<1>. QED BY <1>2, <1>3, <1>4, <1>5, <1>6, <1>7, <1>8, <1>9, <1>10 DEF Handling

\* Stop resets what a /stop has waited for, the current stack; what it does for main is
\* the end of the process.
LEMMA HaltingOwnership ==
    ASSUME SessionInv, SessionTypeOK', ~Gone, NEW p \in Procs, Halting(p)
    PROVE  SessionInv'
<1>0. SessionTypeOK /\ OneClient /\ Ownership /\ MarkedRunning BY DEF SessionInv
<1>1. \A n \in Stacks : Alive(n)' => Alive(n)
  <2>1. CASE HaltCancel(p)
    BY <1>0, <2>1 DEF HaltCancel, Alive, Cancelled, SessionTypeOK, StackType
  <2>2. CASE HaltIdle(p) \/ HaltReset(p) BY <2>2 DEF HaltIdle, HaltReset, Alive
  <2>. QED BY <2>1, <2>2 DEF Halting
<1>2. OneClient' BY <1>0, <1>1 DEF OneClient
<1>3. CASE p = Main
  <2>1. \A k \in Handlers : task'[k] = task[k]
    BY <1>0, <1>3, SessionAssumption
       DEF Halting, HaltIdle, HaltCancel, HaltReset, Goes, Becomes, SessionTypeOK, Procs
  <2>2. CASE HaltCancel(p)
    <3>1. Light BY <1>1, <2>1, <2>2 DEF Light, HaltCancel, client
    <3>. QED BY <3>1, LightStep
  <2>3. CASE HaltIdle(p) \/ HaltReset(p)
    <3>1. Goes(p, "exit") BY <1>3, <2>3 DEF HaltIdle, HaltReset, AfterHalt
    <3>2. Gone'
      BY <1>0, <1>3, <3>1 DEF Gone, At, Goes, Becomes, SessionTypeOK, Procs, HandlerType
    <3>. QED BY <1>2, <3>2 DEF SessionInv
  <2>. QED BY <2>2, <2>3 DEF Halting
<1>4. CASE p \in Handlers
  <2>1. CASE HaltIdle(p) BY <1>0, <1>4, <2>1 DEF HaltIdle, Ownership, StopAlone
  <2>2. CASE HaltCancel(p)
    <3>1. PICK t : t = [NoHandler EXCEPT !.pc = "wait", !.of = current] OBVIOUS
    <3>2. t.pc = "wait" /\ t.of = current BY <3>1 DEF NoHandler
    <3>3. task'[p] = t /\ \A k \in Handlers : k # p => task'[k] = task[k]
      BY <1>0, <1>4, <2>2, <3>1, OthersStay DEF HaltCancel
    <3>4. At(p, "halt") /\ UNCHANGED <<running, started, current>>
      BY <2>2 DEF HaltCancel, client
    <3>5. started /\ running /\ \A k \in Handlers : ~Owns(k)
      BY <1>0, <1>4, <3>4 DEF Ownership, StopAlone
    <3>6. \A k \in Handlers : /\ ~Owns(k)'
                              /\ Stopping(k)' => Stopping(k)
                              /\ At(k, "halt")' \/ At(k, "wait")' => Stopping(k)
      BY <3>2, <3>3, <3>4, <3>5 DEF Owns, Stopping, At
    <3>7. \A k \in Handlers : Stopping(k) => k = p
      BY <1>0, <1>4, <3>4 DEF Ownership, OneStop, Stopping, At
    <3>8. Ownership'
      BY <1>0, <1>1, <3>2, <3>3, <3>4, <3>5, <3>6, <3>7
         DEF Ownership, OneStop, OneOwner, HoldsCurrent, StopAlone, AliveCurrent
    <3>9. MarkedRunning' BY <3>4, <3>5, <3>6 DEF MarkedRunning
    <3>. QED BY <1>2, <3>8, <3>9 DEF SessionInv
  <2>3. CASE HaltReset(p)
    <3>1. PICK t : t = [task[p] EXCEPT !.pc = "forget"] OBVIOUS
    <3>2. t.pc = "forget" BY <1>0, <1>4, <3>1 DEF SessionTypeOK, Procs, HandlerType
    <3>3. Becomes(p, t)
      BY <1>4, <2>3, <3>1, SessionAssumption DEF HaltReset, AfterHalt, Goes
    <3>4. task'[p] = t /\ \A k \in Handlers : k # p => task'[k] = task[k]
      BY <1>0, <1>4, <3>3, OthersStay
    <3>5. At(p, "wait") /\ started' = FALSE /\ UNCHANGED <<running, stack>>
      BY <2>3 DEF HaltReset, ClientReset
    <3>6. \A n \in Stacks : ~Alive(n)'
      BY <1>0, <1>4, <2>3, <3>5
         DEF HaltReset, Halted, Ownership, HoldsCurrent, AliveCurrent, Alive
    <3>7. /\ \A k \in Handlers : ~Owns(k)
          /\ \A k \in Handlers : Stopping(k) => k = p
      BY <1>0, <1>4, <3>5 DEF Ownership, StopAlone, OneStop, Stopping, At
    <3>8. \A k \in Handlers : /\ ~Owns(k)' /\ ~At(k, "halt")' /\ ~At(k, "wait")'
                              /\ Stopping(k)' => k = p
      BY <3>2, <3>4, <3>7 DEF Owns, Stopping, At
    <3>9. Ownership'
      BY <3>6, <3>8 DEF Ownership, OneStop, OneOwner, HoldsCurrent, StopAlone, AliveCurrent
    <3>10. Forgetting(p)' BY <3>2, <3>4 DEF Forgetting
    <3>11. MarkedRunning' BY <1>4, <3>10 DEF MarkedRunning
    <3>. QED BY <1>2, <3>9, <3>11 DEF SessionInv
  <2>. QED BY <2>1, <2>2, <2>3 DEF Halting
<1>. QED BY <1>3, <1>4 DEF Procs

\* The stacks' own steps and the signal are light.
LEMMA StacksOwnership ==
    ASSUME SessionInv, SessionTypeOK', ~Gone, Signal \/ \E n \in Stacks : Running(n) \/ Die(n)
    PROVE  SessionInv'
<1>0. SessionTypeOK BY DEF SessionInv
<1>1. ASSUME NEW n \in Stacks, Running(n) \/ Die(n)
      PROVE  Light
  <2>1. UNCHANGED <<running, started, current, task>>
    BY <1>1
       DEF Running, Authorized, Resumed, LoginNeeded, Ask, Answered, Taken, AskCancelled, Again,
                AuthRestart, Accepted, Failed, Ended, Die, client
  <2>2. Alive(n) /\ \A k \in Stacks : k # n => stack'[k] = stack[k]
    BY <1>0, <1>1
       DEF Running, Authorized, Resumed, LoginNeeded, Ask, Answered, Taken, AskCancelled, Again,
                AuthRestart, Accepted, Failed, Ended, Die, StackGoes, Cancelled, Alive, SessionTypeOK
  <2>3. \A k \in Stacks : Alive(k)' => Alive(k) BY <2>2 DEF Alive
  <2>. QED BY <2>1, <2>3 DEF Light
<1>2. CASE Signal
  <2>1. \A n \in Stacks : Alive(n)' => Alive(n)
    BY <1>0, <1>2 DEF Signal, Alive, SessionTypeOK, StackType
  <2>2. \A k \in Handlers : task'[k] = task[k]
    BY <1>0, <1>2, SessionAssumption DEF Signal, Goes, Becomes, SessionTypeOK, Procs
  <2>3. Light BY <1>2, <2>1, <2>2 DEF Light, Signal, client
  <2>. QED BY <2>3, LightStep
<1>. QED BY <1>1, <1>2, LightStep

\* The invariant of the ownership is inductive as long as no /stop is sent with another
\* /stop under way.
LEMMA SessionStep ==
    ASSUME ~StopsOverlap
    PROVE  SessionInv /\ SessionTypeOK' /\ [Next]_vars => SessionInv'
<1> SUFFICES ASSUME SessionInv, SessionTypeOK', [Next]_vars PROVE SessionInv' OBVIOUS
<1>1. CASE UNCHANGED vars
  <2>1. UNCHANGED <<running, started, current, stack, task>> BY <1>1 DEF vars, client
  <2>2. OneClient' BY <2>1 DEF OneClient, Alive, SessionInv
  <2>3. Gone => Gone' BY <2>1 DEF Gone, At
  <2>4. Ownership => Ownership'
    BY <2>1
       DEF Ownership, OneStop, OneOwner, HoldsCurrent, StopAlone, AliveCurrent, Alive, At, Owns, Stopping
  <2>5. MarkedRunning => MarkedRunning' BY <2>1 DEF MarkedRunning, Owns, Forgetting
  <2>. QED BY <2>2, <2>3, <2>4, <2>5 DEF SessionInv
<1>2. CASE Next
  BY <1>2, OwnerOwnership, HandlingOwnership, HaltingOwnership, StacksOwnership DEF Next
<1>. QED BY <1>1, <1>2

\* It holds initially.
LEMMA SessionInit == Init => SessionInv
<1> SUFFICES ASSUME Init PROVE SessionInv OBVIOUS
<1>1. SessionTypeOK BY SessionTypeInit DEF SessionTypeInv
<1>2. \A n \in Stacks : ~Alive(n) BY DEF Init, Alive, NoStack
<1>3. \A h \in Handlers : task[h].pc = "idle" BY DEF Init, NoHandler, Procs
<1>4. Ownership
  BY <1>2, <1>3
     DEF Ownership, OneStop, OneOwner, HoldsCurrent, StopAlone, AliveCurrent, Stopping, Owns, At
<1>5. MarkedRunning BY DEF MarkedRunning, Init
<1>6. OneClient BY <1>2 DEF OneClient
<1>. QED BY <1>1, <1>4, <1>5, <1>6 DEF SessionInv

\* Types and ownership hold together.
LEMMA SessionInvariance ==
    ASSUME ~StopsOverlap
    PROVE  Spec => []SessionInv
BY SessionInit, SessionStep, SessionTypeCorrect, PTL DEF Spec

\* Two stacks are never alive at the same time, neither while the bot is polled nor
\* during the shutdown, as long as no /stop is sent with another /stop under way.
THEOREM OneClientCorrect ==
    ASSUME ~StopsOverlap
    PROVE  Spec => []OneClient
BY SessionInvariance, PTL DEF SessionInv

\* Only a step of Client.Stop itself makes it return.
LEMMA OnlyHalting ==
    ASSUME SessionTypeOK, Next, NEW h \in Handlers,
           task[h].pc \in {"halt", "wait"}, task'[h].pc = "forget"
    PROVE  Halting(h)
<1>1. task'[h] # task[h] OBVIOUS
<1>2. ASSUME NEW k, NEW t, Becomes(k, t), k # h
      PROVE  FALSE
  BY <1>1, <1>2 DEF Becomes, SessionTypeOK, Procs
<1>3. ~At(h, "idle") BY DEF At
<1>4. CASE UNCHANGED task BY <1>1, <1>4
<1>5. CASE Owner
  <2>1. ASSUME NEW k \in Handlers, NEW t, Becomes(k, t), At(k, "idle")
        PROVE  FALSE
    BY <1>2, <1>3, <2>1
  <2>. QED BY <1>4, <1>5, <2>1
           DEF Owner, TapOpen, TapFinish, Read, ReadAnswer, ReadTTL, ReadPattern, ReadCommand, Reads
<1>6. CASE Signal BY <1>2, <1>6, SessionAssumption DEF Signal, Goes
<1>7. ASSUME NEW k \in Handlers, Handling(k)
      PROVE  FALSE
  <2>1. PICK t : Becomes(k, t)
    BY <1>7 DEF Handling, Put, Late, Clear, Stage, CmdStart, Refused, Build, AwaitReady,
                AwaitFailed, Undo, Mark, CmdStop, Forget, Unmark, Goes
  <2>2. k = h BY <1>2, <2>1
  <2>. QED BY <1>7, <2>2
           DEF Handling, Put, Late, Clear, Stage, CmdStart, Refused, Build, AwaitReady,
               AwaitFailed, Undo, Mark, CmdStop, Forget, Unmark, At
<1>8. ASSUME NEW p \in Procs, Halting(p)
      PROVE  Halting(h)
  <2>1. PICK t : Becomes(p, t) BY <1>8 DEF Halting, HaltIdle, HaltCancel, HaltReset, Goes
  <2>. QED BY <1>2, <1>8, <2>1
<1>9. CASE \E n \in Stacks : Running(n) \/ Die(n)
  BY <1>4, <1>9
     DEF Running, Authorized, Resumed, LoginNeeded, Ask, Answered, Taken, AskCancelled, Again,
                    AuthRestart, Accepted, Failed, Ended, Die
<1>. QED BY <1>5, <1>6, <1>7, <1>8, <1>9 DEF Next

\* When Stop returns to a /stop no stack is alive: the stack it has waited for was the
\* only one.
LEMMA StopHaltsInv == SessionInv /\ [Next]_vars => StopHaltsStep
<1> SUFFICES ASSUME SessionInv, [Next]_vars, NEW h \in Handlers,
                    task[h].pc \in {"halt", "wait"}, task'[h].pc = "forget"
             PROVE  \A n \in Stacks : ~Alive(n)
  BY DEF StopHaltsStep
<1>1. Next BY DEF vars
<1>2. ~Gone BY <1>1 DEF Next
<1>3. SessionTypeOK /\ Ownership BY <1>2 DEF SessionInv
<1>4. Halting(h) BY <1>1, <1>3, OnlyHalting
<1>5. started BY <1>3 DEF Ownership, StopAlone, At
<1>6. CASE HaltIdle(h) BY <1>5, <1>6 DEF HaltIdle
<1>7. CASE HaltCancel(h)
  <2>1. PICK t : t = [NoHandler EXCEPT !.pc = "wait", !.of = current] OBVIOUS
  <2>2. task'[h] = t BY <1>3, <1>7, <2>1, OthersStay DEF HaltCancel
  <2>. QED BY <2>1, <2>2 DEF NoHandler
<1>8. CASE HaltReset(h)
  BY <1>3, <1>8 DEF HaltReset, Halted, Ownership, HoldsCurrent, AliveCurrent, Alive, At
<1>. QED BY <1>4, <1>6, <1>7, <1>8 DEF Halting

\* Stop cancels the client and waits for it to shut down, however many /start are under
\* way, as long as no /stop is sent with another /stop under way.
THEOREM StopHaltsCorrect ==
    ASSUME ~StopsOverlap
    PROVE  Spec => StopHalts
BY SessionInvariance, StopHaltsInv, PTL DEF Spec, StopHalts

-----------------------------------------------------------------------------
(* The question that waits is the one that is answered *)

\* Without a button no conversation but the login's is open, and no handler is about to
\* end or to stage one.
LoginOnly ==
    taps = 0 =>
        /\ pending \notin {"ttl", "pattern"}
        /\ ~convo
        /\ \A h \in Handlers : task[h].pc \notin {"clear", "stage"}

AnswerInv == LoginOnly /\ Answerable

\* A step that leaves the conversation and the waiting questions alone.
LEMMA SameQuestions ==
    ASSUME Answerable, UNCHANGED <<pending, reply, taps>>,
           \A n \in Stacks : stack'[n].pc = "asked" =>
               /\ stack[n].pc = "asked"
               /\ stack'[n].ch = stack[n].ch
               /\ stack'[n].kind = stack[n].kind
    PROVE  Answerable'
BY DEF Answerable, Asked

\* A step that opens no conversation and takes up no end of one.
LEMMA SameLogin ==
    ASSUME LoginOnly, SessionTypeOK, NEW h \in Procs, NEW t, Becomes(h, t) \/ UNCHANGED task,
           t.pc \notin {"clear", "stage"}, taps' = taps,
           pending' \in {pending} \cup Login \cup {"none"},
           convo' => convo
    PROVE  LoginOnly'
<1>1. \A k \in Handlers : task'[k].pc \in {"clear", "stage"} => task[k].pc \in {"clear", "stage"}
  BY DEF Becomes, SessionTypeOK, Procs
<1>. QED BY <1>1 DEF LoginOnly, Login

\* The owner's messages.
LEMMA OwnerAnswer ==
    ASSUME AnswerInv, SessionTypeOK, SessionTypeOK', Owner
    PROVE  AnswerInv'
<1> USE DEF AnswerInv
<1>1. CASE TapOpen("ttl") \/ TapOpen("pattern")
  <2>1. taps' # 0 BY <1>1, BoundsNat DEF TapOpen, SessionTypeOK
  <2>. QED BY <2>1 DEF LoginOnly, Answerable
<1>2. CASE /\ UNCHANGED <<pending, convo, reply, taps, stack>>
           /\ \E h \in Handlers : \E t : /\ Becomes(h, t)
                                         /\ t.pc \notin {"clear", "stage"} \/ taps # 0
  <2>1. Answerable' BY <1>2, SameQuestions
  <2>2. LoginOnly'
    <3>1. CASE taps # 0 BY <1>2, <3>1 DEF LoginOnly
    <3>2. PICK h \in Handlers : \E t : /\ Becomes(h, t)
                                       /\ t.pc \notin {"clear", "stage"} \/ taps # 0
      BY <1>2
    <3>3. PICK t : /\ Becomes(h, t)
                   /\ t.pc \notin {"clear", "stage"} \/ taps # 0
      BY <3>2
    <3>. QED BY <1>2, <3>1, <3>3, SameLogin DEF Procs
  <2>. QED BY <2>1, <2>2
<1>3. ASSUME NEW h \in Handlers, TapFinish(h)
      PROVE  AnswerInv'
  <2>1. taps # 0 BY <1>3 DEF TapFinish, LoginOnly
  <2>. QED BY <1>2, <1>3, <2>1 DEF TapFinish, Reads, talk
<1>4. ASSUME NEW h \in Handlers, NEW text \in Texts, Read(h, text)
      PROVE  AnswerInv'
  <2>1. UNCHANGED <<pending, convo, reply, taps, stack>>
    BY <1>4 DEF Read, ReadAnswer, ReadTTL, ReadPattern, ReadCommand, talk
  <2>2. CASE ReadTTL(h, text) \/ ReadPattern(h)
    <3>1. taps # 0 BY <2>2 DEF ReadTTL, ReadPattern, LoginOnly
    <3>. QED BY <1>2, <2>1, <2>2, <3>1 DEF ReadTTL, ReadPattern, Reads
  <2>3. CASE ReadAnswer(h)
    <3>1. PICK t : t = [NoHandler EXCEPT !.pc = "put", !.ch = reply] OBVIOUS
    <3>2. t.pc = "put" BY <3>1 DEF NoHandler
    <3>. QED BY <1>2, <2>1, <2>3, <3>1, <3>2 DEF ReadAnswer
  <2>4. CASE ReadCommand(h, text)
    <3>1. PICK t : t = [NoHandler EXCEPT !.pc = text] OBVIOUS
    <3>2. t.pc \in {"start", "stop"} BY <2>4, <3>1 DEF NoHandler, ReadCommand
    <3>. QED BY <1>2, <2>1, <2>4, <3>1, <3>2 DEF ReadCommand, Reads
  <2>. QED BY <1>4, <2>2, <2>3, <2>4 DEF Read
<1>. QED BY <1>1, <1>3, <1>4 DEF Owner

\* The handlers and Client.Stop.
LEMMA TaskAnswer ==
    ASSUME AnswerInv, SessionTypeOK, SessionTypeOK',
           NEW p \in Procs,
           \/ p \in Handlers /\ Handling(p)
           \/ Halting(p)
           \/ p = Main /\ Signal
    PROVE  AnswerInv'
<1> USE DEF AnswerInv
<1>1. CASE p \in Handlers /\ (Clear(p) \/ Stage(p))
  <2>1. taps # 0 BY <1>1 DEF LoginOnly, Clear, Stage, At
  <2>. QED BY <1>1, <2>1 DEF Clear, Stage, LoginOnly, Answerable
<1>2. CASE ~(p \in Handlers /\ (Clear(p) \/ Stage(p)))
  <2>1. UNCHANGED <<pending, convo, reply, taps>>
    BY <1>2
       DEF Handling, Put, Late, CmdStart, Refused, Build, AwaitReady, AwaitFailed, Undo,
                Mark, CmdStop, Forget, Unmark, Halting, HaltIdle, HaltCancel, HaltReset, Signal, talk
  <2>2. \A n \in Stacks : stack'[n].pc = "asked" =>
            /\ stack[n].pc = "asked"
            /\ stack'[n].ch = stack[n].ch
            /\ stack'[n].kind = stack[n].kind
    <3>1. CASE UNCHANGED stack BY <3>1
    <3>2. CASE \E n : stack' = Cancelled(n) BY <3>2 DEF Cancelled, SessionTypeOK, StackType
    <3>3. CASE Signal BY <3>3 DEF Signal, SessionTypeOK, StackType
    <3>4. ASSUME NEW n \in Stacks, Build(p, n),
                 stack' = [stack EXCEPT ![n].pc = "login", ![n].ctx = IF Polling THEN "live" ELSE "done"]
          PROVE  \A k \in Stacks : stack'[k].pc = "asked" => stack'[k] = stack[k]
      BY <3>4 DEF SessionTypeOK, StackType
    <3>. QED BY <1>2, <3>1, <3>2, <3>3, <3>4
             DEF Handling, Put, Late, CmdStart, Refused, Build, AwaitReady, AwaitFailed, Undo,
                 Mark, CmdStop, Forget, Unmark, Halting, HaltIdle, HaltCancel, HaltReset, client
  <2>3. Answerable' BY <2>1, <2>2, SameQuestions
  <2>4. \E t : Becomes(p, t) /\ t.pc \notin {"clear", "stage"}
    <3>1. CASE Becomes(p, NoHandler) BY <3>1 DEF NoHandler
    <3>2. ASSUME NEW pc \in {"build", "mark", "undo", "halt", "forget", "unmark", "exit"}, Goes(p, pc)
          PROVE  \E t : Becomes(p, t) /\ t.pc \notin {"clear", "stage"}
      <4>1. [task[p] EXCEPT !.pc = pc].pc = pc BY DEF SessionTypeOK, HandlerType
      <4>. QED BY <3>2, <4>1 DEF Goes
    <3>3. ASSUME NEW pc \in {"await", "wait"}, NEW of, Becomes(p, [NoHandler EXCEPT !.pc = pc, !.of = of])
          PROVE  \E t : Becomes(p, t) /\ t.pc \notin {"clear", "stage"}
      <4>1. [NoHandler EXCEPT !.pc = pc, !.of = of].pc = pc BY DEF NoHandler
      <4>. QED BY <3>3, <4>1
    <3>4. CASE p = Main /\ Signal
      <4>1. Goes(p, "halt") BY <3>4 DEF Signal
      <4>. QED BY <3>2, <4>1
    <3>5. CASE Halting(p)
      BY <3>2, <3>3, <3>5 DEF Halting, HaltIdle, HaltCancel, HaltReset, AfterHalt
    <3>6. CASE p \in Handlers /\ Handling(p)
      BY <1>2, <3>1, <3>2, <3>3, <3>6
         DEF Handling, Put, AfterPut, Late, CmdStart, Refused, Build, AwaitReady, AwaitFailed,
             Undo, Mark, CmdStop, Forget, Unmark
    <3>. QED BY <3>4, <3>5, <3>6
  <2>5. PICK t : Becomes(p, t) /\ t.pc \notin {"clear", "stage"} BY <2>4
  <2>6. convo' => convo BY <2>1
  <2>7. taps' = taps /\ pending' \in {pending} \cup Login \cup {"none"} BY <2>1
  <2>8. LoginOnly' BY <2>5, <2>6, <2>7, SameLogin
  <2>. QED BY <2>3, <2>8
<1>. QED BY <1>1, <1>2

\* The stacks: a question that is asked, answered or given up is the only one, because
\* its stack is the only one alive.
LEMMA StackAnswer ==
    ASSUME AnswerInv, SessionTypeOK, SessionTypeOK', OneClient',
           NEW n \in Stacks, Running(n) \/ Die(n)
    PROVE  AnswerInv'
<1> USE DEF AnswerInv
<1>1. CASE Ask(n)
  <2>1. PICK s : s = [stack[n] EXCEPT !.pc = "asked", !.ch = Fresh] OBVIOUS
  <2>2. s.pc = "asked" /\ s.ch = Fresh /\ s.kind = stack[n].kind
    BY <2>1 DEF SessionTypeOK, StackType
  <2>3. stack'[n] = s BY <1>1, <2>1 DEF Ask, SessionTypeOK
  <2>4. \A k \in Stacks : Asked(k)' => k = n
    BY <2>2, <2>3 DEF OneClient, Alive, Asked
  <2>5. Answerable' BY <1>1, <2>2, <2>3, <2>4 DEF Ask, Answerable
  <2>6. stack[n].kind \in Login \cup {"none"} BY DEF SessionTypeOK, StackType
  <2>7. LoginOnly' BY <1>1, <2>6 DEF Ask, LoginOnly, Login
  <2>. QED BY <2>5, <2>7
<1>2. CASE Taken(n) \/ AskCancelled(n)
  <2>1. \/ stack' = [stack EXCEPT ![n].pc = "check"]
        \/ stack' = [stack EXCEPT ![n].pc = "check", ![n].ch = 0]
    BY <1>2 DEF Taken, AskCancelled, StackGoes
  <2>2. stack'[n].pc = "check" BY <2>1 DEF SessionTypeOK, StackType
  <2>3. \A k \in Stacks : ~Asked(k)' BY <2>2 DEF OneClient, Alive, Asked
  <2>4. Answerable' BY <2>3 DEF Answerable
  <2>5. LoginOnly' BY <1>2 DEF Taken, AskCancelled, Cleared, LoginOnly
  <2>. QED BY <2>4, <2>5
<1>3. CASE ~(Ask(n) \/ Taken(n) \/ AskCancelled(n))
  <2>1. UNCHANGED <<pending, convo, reply, taps, task>>
    BY <1>3
       DEF Running, Authorized, Resumed, LoginNeeded, Answered, Again, AuthRestart, Accepted, Failed,
                Ended, Die, talk
  <2>2. \A k \in Stacks : k # n => stack'[k] = stack[k]
    BY <1>3
       DEF Running, Authorized, Resumed, LoginNeeded, Answered, Again, AuthRestart, Accepted, Failed,
                Ended, Die, StackGoes, Cancelled, SessionTypeOK
  <2>3. stack'[n].pc = "asked" =>
            /\ stack[n].pc = "asked"
            /\ stack'[n].ch = stack[n].ch
            /\ stack'[n].kind = stack[n].kind
    <3>1. CASE Die(n) BY <3>1 DEF Die, Cancelled, SessionTypeOK, StackType
    <3>2. CASE Resumed(n) \/ Accepted(n) \/ Failed(n)
      <4>1. PICK s \in StackType : s.pc # "asked" /\ stack' = [stack EXCEPT ![n] = s]
        BY <3>2, AuthorizedType DEF Resumed, Accepted, Failed
      <4>. QED BY <4>1 DEF SessionTypeOK
    <3>3. CASE LoginNeeded(n) \/ Answered(n) \/ Again(n) \/ AuthRestart(n) \/ Ended(n)
      BY <3>3
         DEF LoginNeeded, Answered, Again, AuthRestart, Ended, StackGoes, SessionTypeOK, StackType
    <3>. QED BY <1>3, <3>1, <3>2, <3>3 DEF Running
  <2>4. Answerable' BY <2>1, <2>2, <2>3, SameQuestions
  <2>. QED BY <2>1, <2>4 DEF LoginOnly
<1>. QED BY <1>1, <1>2, <1>3

\* Every step keeps the answer with its question.
LEMMA AnswerStep ==
    ASSUME AnswerInv, SessionTypeOK, SessionTypeOK', OneClient', [Next]_vars
    PROVE  AnswerInv'
<1>1. CASE UNCHANGED vars
  BY <1>1 DEF vars, talk, AnswerInv, LoginOnly, Answerable, Asked
<1>2. CASE Next
  BY <1>2, OwnerAnswer, TaskAnswer, StackAnswer DEF Next, Procs
<1>. QED BY <1>1, <1>2

\* A question of the login that waits is the one the owner's next message answers, as
\* long as no button has been tapped and no /stop is sent with another /stop under way.
THEOREM AnswerableCorrect ==
    ASSUME ~StopsOverlap
    PROVE  Spec => []Answerable
<1>1. Init => AnswerInv
  BY DEF Init, AnswerInv, LoginOnly, Answerable, Asked, NoStack, NoHandler, Procs
<1>2. SessionInv => SessionTypeOK /\ OneClient BY DEF SessionInv
<1>3. AnswerInv => Answerable BY DEF AnswerInv
<1>. QED BY <1>1, <1>2, <1>3, AnswerStep, SessionInvariance, PTL DEF Spec
=============================================================================
