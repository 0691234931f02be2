# Verification of langolier-bot in TLA+

langolier-bot is a Telegram user client that deletes its own account's messages
once they are older than a per-chat TTL, deletes messages that match a pattern as
soon as they are sent, and is configured through a service bot. This directory
holds TLA+ models of its core, the TLC instances that check them, and TLAPS proofs.

Run `tlc -config boxes.cfg MCCleaner` (or any other `.cfg` with the module that
`PROJECT.json` names for it) to check, `tlapm RightfulProofs.tla` (or another
`*Proofs` module) to prove.

## 1. The system

| Component (source) | State | Operations |
|---|---|---|
| Cleaner (`internal/cleaner/cleaner.go`) | `index` (own messages per chat), `deleted` counters, `active` chats, `looping`; mutexes `mu`, `delMu`, `loopMu` | `OnOwnMessage`, `OnDeleted`, `Run`/`loop`/`sweep`, `EnableChat`, `DisableChat`, `Reset`, `drainChat`/`PurgeNow`, `deleteIDs`, `Reconcile`, `Stats` |
| MTProto client (`internal/tgclient/tgclient.go`, `auth.go`) | `running`, the current stack (`tg`, `api`, `gaps`, `waiter`, `cancel`, `done`), `runErr`, group cache | `Start`, `authorize`, `retryPassword`, `Stop`, `reset`, `ResolveGroups`, `ScanOwn`, `Delete`, update handlers |
| Service bot (`internal/bot/bot.go`) | `running`, the conversation (`pending`, `convoChat`, `stageText`, `authReply`), `membershipPoke` | `onMessage`, `onCallback`, `ask`, `cmdStart`, `onReady`, `cmdStop`, `applyTTL`, `finishPattern`, `runPurge`, `reconcileLoop` |
| Configuration store (`internal/chatcfg/chatcfg.go`) | bbolt bucket and its cache | `SetTTL`, `AddPattern`, `RemovePattern`, `Disable`, `Get`, `List`, `Matches`, `TTL` |
| Access hashes (`hasher.go`), environment (`config/env.go`), wiring (`cmd/langolier/main.go`), deployment | – | straight-line |

Interactions:

* gotd's updates manager calls `OnOwnMessage` and `OnDeleted` in the order of a
  message box; a matching message starts a goroutine of its own.
* The sweep loop collects expired ids of all chats under `mu` and deletes them one
  chat after the other; `deleteIDs` serialises all deletes with `delMu`, which is
  held over the whole sequence of RPCs.
* The bot library runs every update in its own goroutine. Commands start further
  ones (`EnableChat`, `PurgeNow`, `Start`) that are not waited for; those the bot
  starts for a setting use the context of the process, not of the session.
* The login asks its questions through the bot's one conversation, which the TTL
  and pattern dialogues share.
* `Stop` cancels the context, waits for the run goroutine and then resets the
  client; `Cleaner.Reset` follows; goroutines may outlive both.

What is hard here: goroutines that hold ids, a TTL, an API client or a context
across anything else that may happen; a persistent configuration and an in-memory
index that meet again only through a scan; two id spaces; one conversation for two
purposes; start and stop decided by flags that are read and acted on separately.
`PROJECT.json` lists these hazards one by one, at their lines, with the properties
that cover them.

What makes each part correct:

* Cleaner: it deletes nothing that was not doomed by a pattern or TTL that applied at
  the time (`Retains`) and so nothing that is not entitled to deletion (`Rightful`), loses
  track of nothing it should delete (`Coverage`, `NoSilentDrop`), and does delete
  what has expired (`KeepsPromise`, `RetriesDelete`); what it reports as deleted is
  gone (`ConfirmedGone`).
* Client life cycle: one stack at a time, down when `Stop` returns, `Start` and
  `Stop` come to an end.
* Conversation: the owner's next message answers the question that waits.
* Membership: the maintained chats come to be the configured ones the account is in
  (`Settles`), no hint of a change is swallowed (`PokeHeeded`), and the mark of a
  maintained chat stands for an index (`MarkedIndexed`).
* Store: settings change by whole commands and the cache follows the disk
  (`Implements`, `CacheFollowsDisk`).

## 2. Modules

| Module | Models | Uses |
|---|---|---|
| `Cleaner` | index, sweep, scans, drains, deletes, updates, commands, crash | `Retention` |
| `Retention` | abstract: what may doom a message, and that only doomed ones are deleted | – |
| `Session` | conversation, login, `/start`, `/stop`, the client's life cycle, the signal | – |
| `Membership` | dialog lists, hints, `reconcileLoop`, `Reconcile` against scans and commands | – |
| `Settings` | the dialogues and buttons that change settings, bbolt and cache | `ChatConfigs` |
| `ChatConfigs` | abstract: the configuration as a function changed by whole commands | – |
| `MCCleaner`, `MCSession`, `MCMembership`, `MCSettings` | instances for TLC | the above |
| `CleanerProofs`, `RightfulProofs`, `ConfirmedProofs`, `CoverageProofs` | proofs about `Cleaner`, each on the one before | `Cleaner` |
| `RetentionProofs` | `Cleaner` implements `Retention` | `RightfulProofs` |
| `SessionProofs`, `MembershipProofs`, `SettingsProofs` | proofs about the other three | the above |

The four detailed modules share a few facts and abstract each other: `Cleaner` takes
from `Session` that sessions follow one another; `Membership` keeps of `Cleaner`
whether a chat's index is complete; `Cleaner` keeps of `Settings` the TTL and one
pattern switch per chat, changed at once.

### Cleaner

The cleaner with everything it interleaves with. Telegram is external: `own` is
the set of the account's messages per chat, `sent` their times, `fresh` and `gone`
the updates not yet delivered. Supergroups have a message box each; basic groups
share one (`Box`). `ttl` and `pat` are the persistent configuration; `used` and
`patted` remember what it ever was and serve the properties only. `index`,
`active`, `deleted` and `loop` are the fields of `Cleaner`; `client`, `session`,
`boot`, `ready`, `cached` are what it sees of the client: `cancelled` between
`cancel()` and the end of `Stop`'s wait, `halted` until `Cleaner.Reset`.

Each goroutine is a record in `task`, with a program counter at every point where
another goroutine can get in between: before a lock is taken, around an RPC,
between two callbacks of a scan. The actions follow the code:

| Code | Actions |
|---|---|
| `handleNewMessage`, `OnOwnMessage` | `OwnService` (dropped), `OwnMatched`, `OwnIgnored`, `OwnRecorded` then `OwnIndexed` (the configuration is read before `mu` is taken) |
| `OnDeleted` | `OnDeleted` |
| `loop`, `sweep` | `SweepTick`, `SweepNext` (one per job), `LoopExit` |
| `resolveGroup`, `markActive` | `Resolve`, `ResolveFailed`, `MarkActive` |
| `ScanOwn` with its callback | `Fetch`, `FetchFailed` (`Found`: a page without its service messages), `Callback` (one per message) |
| `deleteIDs` with `Delete` | `DeleteDropped`, `DeleteRefused`, `ChunkDeleted`, `ChunkFailed` (one per batch), `Settle` |
| `drainChat` | the same, with `Called`, `NextPass`, `Returned` for its loop |
| settings | `ApplyTTL`, `ClearTTL`/`TurnOff` then `DisableChat`, `AddPattern`, `RemovePattern`, `Purge` |
| `cmdStart`/`onReady` | `Start`, `ReadyList`, `ReadySpawn` |
| `cmdStop` | `StopCancel`, `StopHalt`, `Reset` |
| crash and restart | `Crash`: memory is lost, the configuration and undelivered updates stay |

Abstractions: a message text is whether it matches (`Cmds`); the patterns of a chat
are one switch; the clock ticks in units of the TTL; `ApplyTTL` reads whether the TTL is
the first one and stores it in one step, where the code takes two (bot.go:595-596); Telegram may delete a batch and
lose the answer (`ChunkFailed`); the echo of the program's own deletes is left out
(their ids have left the index, or are dropped by `Settle`); the account stays in
its groups. `Start` waits until `onReady` of the session before has spawned its
scans.

### Retention

What the owner may rely on, without goroutines, index, scans or sessions: the
account's messages, the settings, and which messages are `doomed`. A new message is
looked at once, and doomed if it matches its chat's patterns at that moment (`See`).
Later it may be doomed by a TTL it has outlived, the one that is set or one of `rule`,
those of the drains under way (`Judge`; a drain may only begin under the TTL that is
set). `Delete` removes doomed messages of one chat. Commands change the settings and
doom or delete nothing. `Cleaner` implements it (`Retains`) when `unseen` is `fresh`,
`rule` is read off the drains in `task` (`Rules`), and `doomed` is the sweep's job list
with what the goroutines collect or are about to send (`Doomed`).
It is stronger than `Rightful`, which is content with any TTL and pattern the chat
ever had. That a drain goes on under a TTL that has been raised or cleared is part of
the promise because the code does it (see the run `drainafteroff`).

### Session

`bot.go`'s conversation and commands with the life cycle of `tgclient`. `stack[n]`
is the run goroutine of the n-th stack (login, question asked, client up, ended),
`task[h]` a goroutine of the bot, `reply` the channel in `Bot.authReply` named by
the number of its question, `full` the channels that hold an answer. `Read*` is
`onMessage` under `Bot.mu`; the branch it takes acts on what was read later.
`CmdStart`, `Refused`/`Build`, `AwaitReady`/`AwaitFailed`, `Undo`, `Mark` are
`cmdStart` with `Start`; `CmdStop`, `HaltIdle`/`HaltCancel`, `HaltReset`, `Forget`,
`Unmark` are `cmdStop` with `Stop`. `Signal` is the end of `main`: the context of the
process and of every stack is cancelled, the bot is polled no more, and `Main` goes
through the same `Stop` and exits. A handler blocked for ever on a full channel is
modelled as one that has ended (`Late`): it holds no lock and changes nothing more.
A question takes a channel that nothing refers to any more (`Fresh`), so that the login
may ask without limit, as `retryPassword` does.

### Membership

`member` is the dialog list. An update that hints at a change (`Notice`) may come at any
time and any number of times, as the code takes every member's join or leave for one,
and the account's own may come without. `rec` holds one
reconcile per session and the one of `/status`; its program counter stops after every
lock and RPC of `reconcileLoop` and `Reconcile`: `List` (`ResolveGroups`),
`ReadConfig`, `ReadActive`, `Judge` per chat, then `Lose` or `Join` and `StartDrain`.
`task` holds the scans, drains and `DisableChat`s it races with, `poke` the channel
of capacity one; `Coalesced` empties it when the burst is over. The loop of an old session runs until it sees that its context is
done, and may take a poke meant for the new one, as in the code. `owed` and `refused`
are history: a hint no listing has followed yet, a chat whose scan failed.

### Settings and ChatConfigs

`TapPrompt`, `ReadTTL`, `ReadPattern`/`Stage`, `TapKind`, `Clear`, `TapClear`,
`TapOff`, `TapRemove` are the dialogues and buttons; menus stay in the chat, so each
can be tapped at any time. `Lock`, `Commit`/`CommitFailed`, `Publish` are `mutate`:
`Store.mu` is held from the read of the cache to its write, the transaction commits or
fails in between. `Crash` loses the memory and `New` loads the bucket. Under
`conf <- disk` the module implements `ChatConfigs`, in which `SetTTL`, `AddPattern`,
`RemovePattern` and `Disable` each change one chat in one step.

## 3. Runs

| Run | Instance | Shows |
|---|---|---|
| `boxes` | a basic group and a supergroup with the same id 1, 2 commands | `Coverage`, `Rightful`, `NoSilentDrop`: nothing about one chat touches the other; disable and enable at any step lose no message |
| `restart` | 3 messages, one a service message inside a page of 2, one matching, a crash | `Coverage`, `Entitled`, `Rightful`: startup scan and replayed updates cover every message |
| `stops` | 2 goroutines, 2 old messages, a search window of 1, `/stop`, 2 sessions, 2 commands; RPCs fail on the stopped client | `TypeOK`, `Retains`: a drain of two passes whose TTL is cleared, or set again, under it, goroutines that outlive their session |
| `promise` | 1 goroutine, 2 messages, one matching, batches of 1, a failed RPC, fairness | `ConfirmedGone`, `Retains`, `InstantDeletes`, `KeepsPromise`, `RetriesDelete` |
| `session` | 3 stacks, any number of questions, 1 button, a signal at any step, fairness; `/start` at any time, `/stop` at any time but during another one | `SessionTypeOK`, `OneClient`, `Answerable`, `StopHalts`, `StartEnds`, `StopEnds` |
| `membership` | 1 chat, 2 sessions, 1 join or leave, any number of hints, 1 command or `/status`, fairness | `MembershipTypeOK`, `MarkedIndexed`, `Settles`, `PokeHeeded` |
| `settings` | 2 chats, 2 handlers, 6 taps, a failed transaction, a crash | `SettingsTypeOK`, `CacheFollowsDisk`, `Implements` |

Bounds. `Cleaner` runs have one or two goroutines besides the sweep loop: enough for
every pair of steps of two handlers, scans or commands to interleave; a third adds
states, not new pairs. `MaxOps`, `MaxNow`, `MaxFaults`, `MaxCrashes`, `MaxStops` and
`MaxSessions` limit commands, ticks, failed RPCs, crashes, stops and starts per
behaviour. `Erasable` limits the ids that the account loses from another device: in
`stops` there are none, in the other runs they are all. In `stops` a command clears
the TTL that a drain of the other goroutine goes on under, so that `rule` and `ttl`
differ; new messages, patterns and failed RPCs meet `Retains` in `promise`, whose one
goroutine and one command leave the TTL as it is. The `VIEW` of `boxes`, `restart` and
`stops` leaves out the counter `deleted`, which no guard reads. `NoSilentDrop` meets
no failed delete in `boxes`; the theorem does. One message suffices in `boxes` because
the ids that could be confused are equal ones; two or three with pages, batches or a
window of one or two reach every page, chunk and pass boundary. `membership` has one
chat because a reconcile treats each on its own; two sessions bring the old loop next
to the new one, and together with `/status` three reconciles overlap. In `settings`
six messages and taps let two handlers complete a dialogue each and meet in the store.
`Session` has no bound on questions, answers or `/stop` commands: five channels are
enough that `Ask` never waits for one, as two handlers, `authReply` and the questions
of the stacks hold fewer, and three stacks let a `/start` follow one that failed and
one that was stopped. `StopsOverlap` says whether the owner sends a `/stop` while
another one is under way. Deadlock is not checked: at the bounds the system stops, and
without commands it may.

These runs find a property violated that the documentation states:

| Run | Property | What the code does |
|---|---|---|
| `unconfirmed` | `ConfirmedGone` | `Delete` on a stopped client returns no failed ids (tgclient.go:652); `deleteIDs` forgets and counts messages that exist |
| `drainafteroff` | `DrainStops` | a drain keeps the TTL it read first (cleaner.go:409) and goes on after the chat is off |
| `wedged` | `LoginEnds` | the end of a TTL or pattern dialogue drops the channel of a waiting login question (bot.go:191) |
| `rejoin` | `RejoinDrained` | a scan of a chat the account has left is refused but leaves it marked active (cleaner.go:283); after a rejoin nothing drains it |
| `wrongchat` | `OptedIn` | a prompt opened while a pattern waits for its kind takes the staged text over (bot.go:355); the pattern lands in another chat |

Known to be false outside the bounds of a passing run, because the code does not
provide it: `OneClient` and `StopHalts` with overlapping `/stop` commands (the second
one resets the stack a new `/start` has built, tgclient.go:476), while the shutdown's
own `Stop` may compete with a `/stop`; `StartEnds` for an owner whose passwords are
wrong for ever (tgclient.go:448); that a running client is one `/stop` reaches, with
overlapping `/start` and `/stop` (bot.go:486); `Coverage` with failed RPCs (a scan
that fails leaves its chat active, and `Reconcile` does not scan it again) and with
`/stop` (a delete refused on the stopped client may settle after the scan of the next
session and take the message out of the new index); `InstantDeletes` before the group
cache is filled (the delete is dropped, cleaner.go:503); `KeepsPromise` with `/stop`;
`PokeHeeded` while the loop of an old session can still take the poke.

### Fairness

`Cleaner`: weak fairness of every goroutine's own steps and of the updates manager
(the Go scheduler runs what can run), of the sweep (its ticker keeps firing), strong
fairness of the deletes, which compete for `delMu` (a waiter of a `sync.Mutex` is not
starved). Nothing is assumed of the operator, of the clock, of stops and crashes;
failed RPCs are bounded, so after the last one a retry succeeds.

`Session`: weak fairness of the bot's goroutines, of the stacks and of `main`'s
`Stop` while the process exists, and an owner who keeps answering, with a word or
with a number, while a question waits. `StartEnds` has a premise of its own: a login that
asks over and over is accepted at last (`RightInTheEnd`, strong fairness of `Accepted`).
Nothing is assumed of commands, buttons, the
signal, and the end of a connection.

`Membership`: weak fairness of the loops, reconciles, scans and of `onReady`. No hint is
promised. The ticker of ten minutes is left out: `Settles` and `RejoinDrained`
state it as their premise, `PokeHeeded` does without it.

## 4. Proofs

For all values of the constants that satisfy the modules' assumptions (`ChatAssumption`,
`NumberAssumption`, `ProcAssumption`, and `HistoryAssumption`: an id of the history
belongs to one chat of its box; `SessionAssumption`; `MembershipAssumption`;
`SettingsAssumption`) and the hypothesis of the last column:

| Theorem | States | Module | Provided that |
|---|---|---|---|
| `TypeCorrect` | `Spec => []TypeOK` | `CleanerProofs` | |
| `EntitledCorrect` | `Spec => []Entitled` | `RightfulProofs` | |
| `RightfulCorrect` | `Spec => Rightful` | `RightfulProofs` | |
| `RetentionCorrect` | `Spec => Retains` | `RetentionProofs` | |
| `ConfirmedCorrect` | `Spec => [](budget.stops = 0 => ConfirmedGone)` | `ConfirmedProofs` | |
| `KeepCorrect` | `Spec => [][budget.stops = 0 => KeepStep]_vars` | `ConfirmedProofs` | |
| `NoSilentDropCorrect` | `Spec => NoSilentDrop` | `ConfirmedProofs` | `MaxStops = 0` |
| `CoverageCorrect` | `Spec => [](budget.stops = 0 /\ budget.faults = 0 => Coverage)` | `CoverageProofs` | `Cardinality(Ids) <= SearchWindow`, `Cardinality(Service) < PageLimit` |
| `SessionTypeCorrect` | `Spec => []SessionTypeOK` | `SessionProofs` | |
| `OneClientCorrect` | `Spec => []OneClient` | `SessionProofs` | `~StopsOverlap` |
| `StopHaltsCorrect` | `Spec => StopHalts` | `SessionProofs` | `~StopsOverlap` |
| `AnswerableCorrect` | `Spec => []Answerable` | `SessionProofs` | `~StopsOverlap` |
| `MembershipTypeCorrect` | `Spec => []MembershipTypeOK` | `MembershipProofs` | |
| `MarkedIndexedCorrect` | `Spec => []MarkedIndexed` | `MembershipProofs` | |
| `SettingsTypeCorrect` | `Spec => []SettingsTypeOK` | `SettingsProofs` | |
| `CacheCorrect` | `Spec => []CacheFollowsDisk` | `SettingsProofs` | |
| `StoreCorrect` | `Spec => Implements` | `SettingsProofs` | |

No hypothesis is there for the prover: without it the code breaks the property.
`budget.stops = 0` says that no `/stop` has been sent so far (the run `unconfirmed` shows
what happens after one), `budget.faults = 0` that no RPC has failed on a live connection;
crashes are not excluded. `~StopsOverlap` says that a second `/stop` is not sent before
the first has returned; a `/stop` during any number of `/start` is not excluded, nor a
`/start` during a `/stop`. A search returns at most the newest
`SearchWindow` messages, and a page of nothing but service messages ends a scan.

`Rightful` says that a message goes by the program's hand only if it matches a
pattern its chat had or has outlived a TTL its chat had. It is not inductive: ids are
chosen long before they are deleted, in a job list, a page or a pass. `RightfulInv`
adds that everything goroutines and the job list hold was sent and is entitled
(`Entitled`), that what is indexed or pending was sent (`KnownSent`), that an id has
one message per box (`SentOnce`: a delete in the common box hits the message meant),
and that the TTL in force is part of the history (`ConfUsed`). Most steps are `Quiet`
(they forget, or take up a task that is entitled) or let the clock and the history
grow (`GrowsStep`); what is left are the steps that choose ids and the delete itself.

`RetentionCorrect` is a refinement: every step of `Cleaner` is a `See`, a `Judge`, a
`Delete`, a command or step of Telegram in `Retention`, or a stutter (`StepRetains`).
`RightfulInv` is enough for it. A goroutine that goes on, gives up or starts afresh holds
no more than before, in the drain it was in (`Eases`), and that is a `Judge` that spares
messages. Only the tick of the sweep and the callback of a drain doom anything by age;
`Entitled` gives that the time a drain took at the start of its pass is not in the future.
A batch deleted in the common box names ids alone: `SentOnce` makes it a `Delete` in one
chat (`ChunkDeletes`), or one that deletes nothing.

`MarkedIndexed` looks only at chats the account is in while the client is up.
`MembershipInv` makes it inductive by dropping both conditions (`Honoured`) and
adding what keeps a scan that has begun from giving up silently: every marked chat,
and every chat a goroutine is past `resolveGroup` with, is in the group cache, which
only grows (`Known`); a goroutine is about one chat (`AboutOne`); `onReady` works for
a session whose loop has not begun (`Booted`). Steps are sorted by whether they touch
no goroutine, one reconcile, one goroutine, or both (`StartDrain`).

`CacheFollowsDisk` and `Implements` follow from what the holder of `Store.mu` has
prepared (`Prepared`): before the transaction its configuration is the result of its
command on what cache and disk agree on, after it the two differ in that one entry.
`StoreCorrect` is the refinement: `Commit` is a command of `ChatConfigs`
(`CommitRefines`) or, with an index past the list, a stutter; every other step leaves
the disk alone.

`ConfirmedGone` and `NoSilentDrop` rest on what a delete has behind it. Until the first
`/stop` the client is up or was never started in this process, and then no group is
cached, so that `deleteIDs` never reaches `Delete` (`ColdCache`). Hence every chunk that
is neither failed nor still to be sent was deleted by Telegram and stays deleted, as ids
are not used twice (`SentAway`). `GoneSent` with `SentOnce` gives the rest of
`NoSilentDrop`: the message of a delete update is gone, and the id had no other one in
the box.

`Coverage` is nearly inductive: what is missing is that a scan that has not reached its
first page starts at the top and under the live session (`ScanReady`), or a message
would be ahead of a scan that never comes. The step that needs an argument is `Fetch`: a
message ahead of the scan is on the page, or older than all of it and the page is not
empty (`PageReaches`). A page that is empty without its service messages would be full
of them, because a message left outside has `PageLimit` newer ones; the newest message
left outside (`Newest`, from the well-founded order of finite sets) counts them all.

`OneClient` and `StopHalts` are about the flags `running` and `started`, which are read
and acted on separately. `SessionInv` says who may reset the client: the one `/start`
that has built a stack and not marked it, or the one `/stop` (`OneOwner`, `OneStop`);
that this one holds the current stack (`HoldsCurrent`), which is the only one that can
be alive (`AliveCurrent`); that a `/stop` waits only for a stack no `/start` owns
(`StopAlone`); and that the bot is marked as running with no stack, or with one a
`/start` still owns, only at the end of a `/stop` (`MarkedRunning`). The `Stop` of `main`
needs no owner: its reset is the last step of the process. `Answerable` needs one more
conjunct: before any button is tapped the conversation is the login's (`LoginOnly`).

Only model-checked: liveness, as fairness and `ENABLED` are outside the prover's reach
(`KeepsPromise`, `RetriesDelete`, `InstantDeletes`, `StartEnds`, `StopEnds`, `Settles`,
`PokeHeeded`). Every invariant and action property of the passing runs is proved.

## 5. Not modelled

* `TTL()` in 64-bit arithmetic (chatcfg.go:40): it is pure, and wrong above
  153,722,867 minutes.
* A sweep lost when `/stop` and `/start` follow so quickly that `Run` meets the old
  loop (cleaner.go:120): the model's loop of an old session may be the one that blocks
  the new one, but no property demands a sweep after a `/stop`.
* Deletions counted twice by a sweep and a drain (cleaner.go:528): only a number in
  `/status`.
* An id that Telegram refuses for good and that fails its batch each time
  (tgclient.go:669); the errors of the model are of the connection.
* An error of the updates manager (tgclient.go:380): inside gotd.
* A page of service messages and nothing else, which ends a scan early
  (tgclient.go:599): 100 in a row, and `Coverage` is false then.
* Menus, `/config`, `/status` output, reports, links and logging have no state of
  their own. Access hashes are a key-value store with one transaction per operation.
  The environment is read once before anything runs. Deployment has no program logic.
* gotd (gap recovery, rate limit, flood wait, the login protocol) and the bot library
  are external: a queue that survives restarts, RPCs that may fail, goroutines per
  update.

## 6. Plan

Of the four parts all operations are modelled and every safety property of the passing
runs is proved. What can still be added: a type invariant for what `Retention` keeps
under the mapping as a theorem of `Retention` itself, and with it `Rightful` as a
consequence of the abstract specification; a weaker form of `OneClient` that also holds
with overlapping `/stop` commands.
