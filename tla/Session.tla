------------------------------- MODULE Session -------------------------------
(***************************************************************************)
(* The owner's conversation with the service bot (internal/bot/bot.go) and  *)
(* the life cycle of the user client it controls                            *)
(* (internal/tgclient/tgclient.go): the commands /start and /stop, the      *)
(* inline buttons that open a conversation of their own, the login that     *)
(* asks the owner for phone, code and password through the same             *)
(* conversation, and the stacks that Start builds and Stop tears down.      *)
(* The bot library runs every update in a goroutine of its own, so two      *)
(* messages of the owner are handled concurrently.                          *)
(***************************************************************************)
EXTENDS Integers, FiniteSets

CONSTANTS
    Handlers,     \* goroutines of the bot: one per update or /start
    Main,         \* the goroutine of main
    MaxStacks,    \* bound: stacks built in a behaviour
    Channels,     \* reply channels of the questions, 0 being none: a channel that
                  \* nobody holds any more is used again
    MaxTaps,      \* bound: conversations opened by a button in a behaviour
    RestartLimit, \* authRestartLimit
    StopsOverlap  \* whether the owner sends a /stop while another is under way

ASSUME SessionAssumption ==
    /\ {MaxStacks, MaxTaps, RestartLimit} \subseteq Nat
    /\ 0 \notin Channels
    /\ StopsOverlap \in BOOLEAN
    /\ Main \notin Handlers

VARIABLES
    running,   \* Bot.running
    pending,   \* Bot.pending
    convo,     \* whether Bot.convoChat names a chat
    stage,     \* whether Bot.stageText holds a pattern
    reply,     \* Bot.authReply, 0 when nil
    full,      \* the channels that hold an answer (capacity 1)
    taps,      \* buttons tapped so far
    started,   \* Client.running
    current,   \* the stack in Client.tg, api, cancel and done, 0 when nil
    stack,     \* what the run goroutine of each stack is doing
    task       \* what main and each goroutine of the bot are doing

talk   == <<pending, convo, stage, reply>>
client == <<started, current>>
vars   == <<running, talk, full, taps, client, stack, task>>

Procs  == Handlers \cup {Main}
Stacks == 1..MaxStacks
Login  == {"phone", "code", "password"}
Kinds  == Login \cup {"none", "ttl", "pattern"}
Texts  == {"start", "stop", "number", "word"}

StackType ==
    [pc : {"none", "login", "ask", "asked", "taken", "check", "up", "failed", "dead"},
     kind     : Login \cup {"none"},      \* what it asks for
     ch       : Channels \cup {0},         \* the channel it waits on
     ctx      : {"live", "done"},
     ready    : {"empty", "ok", "error"}, \* Start's ready channel
     restarts : 0..RestartLimit]          \* authorize's attempt

HandlerType ==
    [pc : {"idle", "put", "clear", "stage", "start", "build", "await", "mark",
           "undo", "stop", "halt", "wait", "forget", "unmark", "exit"},
     ch : Channels \cup {0},  \* the channel it read from Bot.authReply
     of : 0..MaxStacks]       \* the stack it starts or stops

NoStack   == [pc |-> "none", kind |-> "none", ch |-> 0, ctx |-> "live",
              ready |-> "empty", restarts |-> 0]
NoHandler == [pc |-> "idle", ch |-> 0, of |-> 0]

\* Every variable keeps its type: in particular no login restarts more often than
\* authRestartLimit.
SessionTypeOK ==
    /\ running \in BOOLEAN
    /\ pending \in Kinds
    /\ convo \in BOOLEAN
    /\ stage \in BOOLEAN
    /\ reply \in Channels \cup {0}
    /\ full \subseteq Channels
    /\ taps \in 0..MaxTaps
    /\ started \in BOOLEAN
    /\ current \in 0..MaxStacks
    /\ stack \in [Stacks -> StackType]
    /\ task \in [Procs -> HandlerType]

At(h, pc) == task[h].pc = pc
Becomes(h, t) == task' = [task EXCEPT ![h] = t]
Goes(h, pc) == Becomes(h, [task[h] EXCEPT !.pc = pc])

-----------------------------------------------------------------------------
(* The owner's messages *)

\* The bot is polled until a signal ends the process.
Polling == task[Main].pc = "idle"

\* onMessage reads the conversation under Bot.mu and acts on what it has read.
Reads(h, pc) == Polling /\ At(h, "idle") /\ Becomes(h, [NoHandler EXCEPT !.pc = pc])

\* A message that answers a question of the login.  (Whatever its text: a command
\* is taken for an answer, too.)
ReadAnswer(h) ==
    /\ pending \in Login
    /\ reply # 0
    /\ Polling
    /\ At(h, "idle")
    /\ Becomes(h, [NoHandler EXCEPT !.pc = "put", !.ch = reply])
    /\ UNCHANGED <<running, talk, full, taps, client, stack>>

\* A TTL is a number: the conversation is over, then applyTTL does its work.
ReadTTL(h, text) ==
    /\ pending = "ttl"
    /\ text = "number"
    /\ Reads(h, "clear")
    /\ UNCHANGED <<running, talk, full, taps, client, stack>>

ReadPattern(h) ==
    /\ pending = "pattern"
    /\ Reads(h, "stage")
    /\ UNCHANGED <<running, talk, full, taps, client, stack>>

Stopping(p) == task[p].pc \in {"stop", "halt", "wait", "forget", "unmark"}

\* Bound: a /start only while every /start under way may still build its stack.
StacksLeft ==
    Cardinality({k \in Handlers : At(k, "start") \/ At(k, "build")})
        < Cardinality({n \in Stacks : stack[n].pc = "none"})

\* A command is taken whatever else the bot is doing.
ReadCommand(h, text) ==
    /\ pending = "none"
    /\ text \in {"start", "stop"}
    /\ text = "start" => StacksLeft
    /\ text = "stop" => StopsOverlap \/ \A k \in Handlers : ~Stopping(k)
    /\ Reads(h, text)
    /\ UNCHANGED <<running, talk, full, taps, client, stack>>

Read(h, text) ==
    \/ ReadAnswer(h)
    \/ ReadTTL(h, text)
    \/ ReadPattern(h)
    \/ ReadCommand(h, text)

\* ch <- text: the channel of a question has room for one answer.
Waited(ch) == \E n \in Stacks : stack[n].pc = "asked" /\ stack[n].ch = ch

\* The handler is done with the message: ask itself clears the conversation.  (The
\* mutant lets the handler clear it, too.)
MutantAfterPut == [NoHandler EXCEPT !.pc = "clear"]
AfterPut == NoHandler

Put(h) ==
    /\ At(h, "put")
    /\ Waited(task[h].ch)
    /\ task[h].ch \notin full
    /\ full' = full \cup {task[h].ch}
    /\ Becomes(h, AfterPut)
    /\ UNCHANGED <<running, talk, taps, client, stack>>

\* Nobody waits for the answer any more: it stays in the channel, or its goroutine
\* blocks on the full channel for ever.  Either way it is lost and does nothing.
Late(h) ==
    /\ At(h, "put")
    /\ ~Waited(task[h].ch)
    /\ Becomes(h, NoHandler)
    /\ UNCHANGED <<running, talk, full, taps, client, stack>>

\* clearPending drops the whole conversation, the channel of a waiting login
\* included.
Cleared == pending' = "none" /\ convo' = FALSE /\ stage' = FALSE /\ reply' = 0

Clear(h) ==
    /\ At(h, "clear")
    /\ Cleared
    /\ Becomes(h, NoHandler)
    /\ UNCHANGED <<running, full, taps, client, stack>>

Stage(h) ==
    /\ At(h, "stage")
    /\ stage' = TRUE
    /\ Becomes(h, NoHandler)
    /\ UNCHANGED <<running, pending, convo, reply, full, taps, client, stack>>

-----------------------------------------------------------------------------
(* The owner's buttons; old menus stay in the chat and can be tapped any time *)

\* "Set TTL" and "Add pattern" open their conversation over whatever is pending.
TapOpen(kind) ==
    /\ Polling
    /\ taps < MaxTaps
    /\ taps' = taps + 1
    /\ pending' = kind
    /\ convo' = TRUE
    /\ UNCHANGED <<running, stage, reply, full, client, stack, task>>

\* finishPattern: only with a chat and a staged text.
TapFinish(h) ==
    /\ convo /\ stage
    /\ Reads(h, "clear")
    /\ UNCHANGED <<running, talk, full, taps, client, stack>>

-----------------------------------------------------------------------------
(* /start *)

CmdStart(h) ==
    /\ At(h, "start")
    /\ IF running THEN Becomes(h, NoHandler) ELSE Goes(h, "build")
    /\ UNCHANGED <<running, talk, full, taps, client, stack>>

\* Client.Start refuses while Client.running is set ...
Refused(h) ==
    /\ At(h, "build")
    /\ started
    /\ Becomes(h, NoHandler)
    /\ UNCHANGED <<running, talk, full, taps, client, stack>>

\* ... or builds a stack, under the context of the process; buildStack may fail,
\* and then nothing has changed.
Build(h, n) ==
    /\ At(h, "build")
    /\ ~started
    /\ stack[n].pc = "none"
    /\ \A k \in Stacks : k < n => stack[k].pc # "none"
    /\ \/ /\ started' = TRUE
          /\ current' = n
          /\ stack' = [stack EXCEPT ![n].pc = "login", ![n].ctx = IF Polling THEN "live" ELSE "done"]
          /\ Becomes(h, [NoHandler EXCEPT !.pc = "await", !.of = n])
       \/ /\ Becomes(h, NoHandler)
          /\ UNCHANGED <<client, stack>>
    /\ UNCHANGED <<running, talk, full, taps>>

\* Start's select: the ready channel ...
AwaitReady(h) ==
    /\ At(h, "await")
    /\ stack[task[h].of].ready = "ok"
    /\ Goes(h, "mark")
    /\ UNCHANGED <<running, talk, full, taps, client, stack>>

\* cancel().  (The mutant forgets it.)
MutantCancelled(n) == stack
Cancelled(n) == [stack EXCEPT ![n].ctx = "done"]

\* ... with an error, or done: the context is cancelled.  (The mutant does not
\* look at done.)
MutantLost(n) == stack[n].ready = "error"
Lost(n) == stack[n].ready = "error" \/ stack[n].pc = "dead"

AwaitFailed(h) ==
    /\ At(h, "await")
    /\ Lost(task[h].of)
    /\ stack' = Cancelled(task[h].of)
    /\ Goes(h, "undo")
    /\ UNCHANGED <<running, talk, full, taps, client>>

\* <-done.  (The mutant does not wait.)
MutantHalted(n) == TRUE
Halted(n) == stack[n].pc = "dead"

\* Client.reset does not ask whose stack it clears.
ClientReset == started' = FALSE /\ current' = 0

Undo(h) ==
    /\ At(h, "undo")
    /\ Halted(task[h].of)
    /\ ClientReset
    /\ Becomes(h, NoHandler)
    /\ UNCHANGED <<running, talk, full, taps, stack>>

Mark(h) ==
    /\ At(h, "mark")
    /\ running' = TRUE
    /\ Becomes(h, NoHandler)
    /\ UNCHANGED <<talk, full, taps, client, stack>>

-----------------------------------------------------------------------------
(* The run goroutine of a stack: the login, then the client itself *)

StackGoes(n, pc) == stack' = [stack EXCEPT ![n].pc = pc]

\* authorize returns, its result goes to the ready channel, and its variables are gone.
Authorized(n, pc, result) ==
    stack' = [stack EXCEPT ![n] = [NoStack EXCEPT !.pc = pc, !.ctx = stack[n].ctx, !.ready = result]]

\* The login passes at once when the session is still valid.
Resumed(n) ==
    /\ stack[n].pc = "login"
    /\ stack[n].ctx = "live"
    /\ Authorized(n, "up", "ok")
    /\ UNCHANGED <<running, talk, full, taps, client, task>>

\* Otherwise the flow asks for the phone number.
LoginNeeded(n) ==
    /\ stack[n].pc = "login"
    /\ stack[n].ctx = "live"
    /\ stack' = [stack EXCEPT ![n].pc = "ask", ![n].kind = "phone"]
    /\ UNCHANGED <<running, talk, full, taps, client, task>>

\* make(chan string, 1): a channel that nothing refers to, neither Bot.authReply nor a
\* question that waits nor a handler that is about to answer.
Held == {reply} \cup full \cup {stack[n].ch : n \in Stacks} \cup {task[h].ch : h \in Handlers}
Fresh == CHOOSE ch \in Channels : ch \notin Held

\* Bot.ask: pending and a fresh channel under Bot.mu.
Ask(n) ==
    /\ stack[n].pc = "ask"
    /\ ~(Channels \subseteq Held)
    /\ pending' = stack[n].kind
    /\ reply' = Fresh
    /\ stack' = [stack EXCEPT ![n].pc = "asked", ![n].ch = Fresh]
    /\ UNCHANGED <<running, convo, stage, full, taps, client, task>>

\* ask receives an answer ...
Answered(n) ==
    /\ stack[n].pc = "asked"
    /\ stack[n].ch \in full
    /\ full' = full \ {stack[n].ch}
    /\ stack' = [stack EXCEPT ![n].pc = "taken", ![n].ch = 0]
    /\ UNCHANGED <<running, talk, taps, client, task>>

\* ... and clears the conversation,
Taken(n) ==
    /\ stack[n].pc = "taken"
    /\ Cleared
    /\ StackGoes(n, "check")
    /\ UNCHANGED <<running, full, taps, client, task>>

\* ... or gives up because its context is done.
AskCancelled(n) ==
    /\ stack[n].pc = "asked"
    /\ stack[n].ctx = "done"
    /\ Cleared
    /\ full' = full \ {stack[n].ch}
    /\ stack' = [stack EXCEPT ![n].pc = "check", ![n].ch = 0]
    /\ UNCHANGED <<running, taps, client, task>>

\* The code after the phone, the password after the code, the password again
\* whenever it is wrong (retryPassword, which is outside the loop of restarts and
\* asks without limit), ...
NextKind(kind) == IF kind = "phone" THEN "code" ELSE "password"

RestartsUsed(n) == IF stack[n].kind = "password" THEN RestartLimit ELSE stack[n].restarts

Again(n) ==
    /\ stack[n].pc = "check"
    /\ stack[n].ctx = "live"
    /\ stack' = [stack EXCEPT ![n].pc = "ask", ![n].kind = NextKind(@), ![n].restarts = RestartsUsed(n)]
    /\ UNCHANGED <<running, talk, full, taps, client, task>>

\* ... or the code after AUTH_RESTART: the phone is cached.  (The mutant is off by
\* one.)
MutantMayRestart(n) == stack[n].restarts <= RestartLimit
MayRestart(n) == stack[n].restarts < RestartLimit

AuthRestart(n) ==
    /\ stack[n].pc = "check"
    /\ stack[n].ctx = "live"
    /\ MayRestart(n)
    /\ stack' = [stack EXCEPT ![n].pc = "ask", ![n].kind = "code", ![n].restarts = @ + 1]
    /\ UNCHANGED <<running, talk, full, taps, client, task>>

Accepted(n) ==
    /\ stack[n].pc = "check"
    /\ stack[n].ctx = "live"
    /\ stack[n].kind # "phone"
    /\ Authorized(n, "up", "ok")
    /\ UNCHANGED <<running, talk, full, taps, client, task>>

\* The login fails: a refused code, a failed RPC, a context that is done.
Failed(n) ==
    /\ stack[n].pc \in {"login", "check"}
    /\ Authorized(n, "failed", "error")
    /\ UNCHANGED <<running, talk, full, taps, client, task>>

\* Run returns: after a failure, and when the context is done.  A connection that
\* cannot be made ends it before the login.
Ended(n) ==
    /\ \/ stack[n].pc \in {"failed", "login"}
       \/ stack[n].pc = "up" /\ stack[n].ctx = "done"
    /\ StackGoes(n, "dead")
    /\ UNCHANGED <<running, talk, full, taps, client, task>>

\* gotd gives the connection up for good.
Die(n) ==
    /\ stack[n].pc \in {"login", "asked", "check", "up"}
    /\ stack[n].ctx = "live"
    /\ stack' = Cancelled(n)
    /\ UNCHANGED <<running, talk, full, taps, client, task>>

-----------------------------------------------------------------------------
(* /stop, and the end of the process *)

\* A signal cancels the context of the process, and with it that of every stack;
\* main goes on to Bot.Stop, which calls Client.Stop whatever Bot.running says.
Signal ==
    /\ Polling
    /\ stack' = [n \in Stacks |-> IF stack[n].pc = "none" THEN stack[n]
                                  ELSE [stack[n] EXCEPT !.ctx = "done"]]
    /\ Goes(Main, "halt")
    /\ UNCHANGED <<running, talk, full, taps, client>>

CmdStop(h) ==
    /\ At(h, "stop")
    /\ IF running THEN Goes(h, "halt") ELSE Becomes(h, NoHandler)
    /\ UNCHANGED <<running, talk, full, taps, client, stack>>

\* main returns after Client.Stop; /stop goes on to Cleaner.Reset.
AfterHalt(h) == IF h = Main THEN "exit" ELSE "forget"

\* Client.Stop has nothing to do when Client.running is not set ...
HaltIdle(h) ==
    /\ At(h, "halt")
    /\ ~started
    /\ Goes(h, AfterHalt(h))
    /\ UNCHANGED <<running, talk, full, taps, client, stack>>

\* ... or cancels the stack, waits for it and resets.
HaltCancel(h) ==
    /\ At(h, "halt")
    /\ started
    /\ stack' = Cancelled(current)
    /\ Becomes(h, [NoHandler EXCEPT !.pc = "wait", !.of = current])
    /\ UNCHANGED <<running, talk, full, taps, client>>

HaltReset(h) ==
    /\ At(h, "wait")
    /\ Halted(task[h].of)
    /\ ClientReset
    /\ Goes(h, AfterHalt(h))
    /\ UNCHANGED <<running, talk, full, taps, stack>>

\* A message about an error and Cleaner.Reset come before Bot.running is cleared.
Forget(h) ==
    /\ At(h, "forget")
    /\ Goes(h, "unmark")
    /\ UNCHANGED <<running, talk, full, taps, client, stack>>

Unmark(h) ==
    /\ At(h, "unmark")
    /\ running' = FALSE
    /\ Becomes(h, NoHandler)
    /\ UNCHANGED <<talk, full, taps, client, stack>>

-----------------------------------------------------------------------------
(* The system *)

Init ==
    /\ running = FALSE
    /\ pending = "none"
    /\ convo = FALSE
    /\ stage = FALSE
    /\ reply = 0
    /\ full = {}
    /\ taps = 0
    /\ started = FALSE
    /\ current = 0
    /\ stack = [n \in Stacks |-> NoStack]
    /\ task = [h \in Procs |-> NoHandler]

\* A step of a goroutine of the bot that has begun its work.
Handling(h) ==
    \/ Put(h)
    \/ Late(h)
    \/ Clear(h)
    \/ Stage(h)
    \/ CmdStart(h)
    \/ Refused(h)
    \/ \E n \in Stacks : Build(h, n)
    \/ AwaitReady(h)
    \/ AwaitFailed(h)
    \/ Undo(h)
    \/ Mark(h)
    \/ CmdStop(h)
    \/ Forget(h)
    \/ Unmark(h)

\* A step of Client.Stop.
Halting(p) == HaltIdle(p) \/ HaltCancel(p) \/ HaltReset(p)

\* A step of the run goroutine of a stack.
Running(n) ==
    \/ Resumed(n)
    \/ LoginNeeded(n)
    \/ Ask(n)
    \/ Answered(n)
    \/ Taken(n)
    \/ AskCancelled(n)
    \/ Again(n)
    \/ AuthRestart(n)
    \/ Accepted(n)
    \/ Failed(n)
    \/ Ended(n)

Owner ==
    \/ TapOpen("ttl")
    \/ TapOpen("pattern")
    \/ \E h \in Handlers : TapFinish(h)
    \/ \E h \in Handlers, text \in Texts : Read(h, text)

\* main has returned: every goroutine is gone.
Gone == At(Main, "exit")

Next ==
    /\ ~Gone
    /\ \/ Owner
       \/ Signal
       \/ \E h \in Handlers : Handling(h)
       \/ \E p \in Procs : Halting(p)
       \/ \E n \in Stacks : Running(n) \/ Die(n)

Spec == Init /\ [][Next]_vars

(***************************************************************************)
(* Fairness: goroutines that can run do run, and an owner who is asked      *)
(* keeps answering, be it with a number or with a word.  Nothing is assumed *)
(* of commands, buttons and the connection.                                 *)
(***************************************************************************)
Asked(n) == stack[n].pc = "asked"

Answering(text) ==
    /\ \E n \in Stacks : Asked(n)
    /\ \E h \in Handlers : Read(h, text)

Fairness ==
    /\ \A h \in Handlers : WF_vars(~Gone /\ (Handling(h) \/ Halting(h)))
    /\ WF_vars(~Gone /\ Halting(Main))
    /\ \A n \in Stacks : WF_vars(~Gone /\ Running(n))
    /\ WF_vars(Answering("number"))
    /\ WF_vars(Answering("word"))

FairSpec == Spec /\ Fairness

-----------------------------------------------------------------------------
(* Properties *)

Alive(n) == stack[n].pc \notin {"none", "dead"}

\* Two stacks are never alive at the same time, neither while the bot is polled nor
\* during the shutdown: the session storage, the update state and the single
\* conversation of the login belong to one.
OneClient == \A n, k \in Stacks : Alive(n) /\ Alive(k) => n = k

\* A question of the login that waits is the one that the owner's next message
\* answers, as long as no button has been tapped.
Answerable ==
    \A n \in Stacks : Asked(n) /\ taps = 0 => reply = stack[n].ch /\ pending = stack[n].kind

\* An owner who is asked over and over gives the right code or password in the end:
\* retryPassword asks for another password as long as the last one was wrong.
RightInTheEnd == \A n \in Stacks : SF_vars(Accepted(n))

\* /start comes to an end when the owner keeps answering, is right in the end and taps
\* no button, also when a signal comes in between.
StartEnds ==
    RightInTheEnd =>
        \A h \in Handlers : (At(h, "await") /\ taps = 0) ~> (~At(h, "await") \/ taps > 0 \/ Gone)

\* /stop comes to an end, and so does the shutdown after a signal, whatever the
\* login or the client is doing: every question gives up with its context.
StopEnds == \A p \in Procs : Stopping(p) ~> (At(p, "idle") \/ Gone)

\* "Every method blocks until the operator provides the value": an owner who
\* keeps answering gets an answer through, whatever buttons are tapped before.
LoginEnds == \A n \in Stacks : Asked(n) ~> (~Asked(n) \/ Gone)

\* "Stop cancels the client and waits for it to shut down": when Stop returns to a
\* /stop no stack is alive.  (When it returns to main one may be: a failed /start
\* has reset the stack both waited for, and another /start has built the next one.)
StopHaltsStep ==
    \A h \in Handlers :
        task[h].pc \in {"halt", "wait"} /\ task'[h].pc = "forget" =>
            \A n \in Stacks : ~Alive(n)

StopHalts == [][StopHaltsStep]_vars

=============================================================================
