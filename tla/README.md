# A verification project for AgentAPI

AgentAPI runs a coding agent (Claude Code, Codex, pi) as a child process, speaks
its protocol, and offers the conversation over HTTP. This directory models the
parts of it where goroutines, a child process, clients and files meet: TLA+
modules, the TLC runs that check them on small instances, and proofs TLAPS
checks for every instance. `PROJECT.json` lists the runs, the mutants that show
each property can fail, the source lines every definition models, and the
hazards the properties are for.

## 1. The system

| Part | State it keeps | Operations | Meets others through |
|---|---|---|---|
| `native.Conversation`: turns (`conversation.go`, `sink.go`, `limit.go`, `retry.go`) | turn active, unconfirmed, compacting; limit stop, retry wait and their marks | StartTurn, Interrupt, Compact, ContinueIfDue, RetryNow; the sink's events | `Conversation.mu`, never held over a call of the adapter; the server calls it under `Server.mu` |
| requests (`requests.go`) | the requests, the answers under way | open, Respond, withdraw, expire, trim | same lock; answers are delivered without it |
| lifecycle and login (`lifecycle.go`, `login.go`) | generation, adapter, restarts, login, the wait to start again | launch, signalExit, Replacement, RetryLogin, Close | goroutines per launch; a generation number says which still count |
| agent process (`agentio/host.go`) | the process, closing | Launch, Close, wait | its own lock |
| message queue (`httpapi/queue.go`) | messages, last ID, failures, version | push, edit, delete, reorder, steer, dispatch on a 500 ms tick | `Server.mu`, the conversation, the state database |
| state database (`lib/statedb`) | pending writes, the SQLite file | keyed writes, a flush every 200 ms, Close | a writer goroutine; what a crash leaves |
| `convstate` emitter, tasks (`lib/convstate`), event streams (`httpapi/sse.go`), the chat's sync | epoch, seq, messages, requests, tasks, status; subscriptions; a client's view and watermark | emit, subscribe, replay, reset, restore, resume | everything that changes; the state database |
| webhook (`lib/webhook`) | what was told, a bounded queue of events, attempts | observe, enqueue, deliver, heartbeat, stop | a subscription of the emitter; HTTP |
| adapters (`claude`, `codex`, `pi`, `demo`) on `agentio` | the agent's turn, messages held back, requests, settings, calls under way | StartTurn, Steer, Interrupt, Respond, Compact, ApplySettings; a read loop | two pipes to the agent; the conversation's `Sink` |
| updater (`httpapi/update.go`, `selfupdate`, `cmd/server`, `cmd/restart`, `cmd/update`) | an update's state, the program and its lock, the PID file | post, cancel, install, wait, restart in place, signals | `Server.mu`, the queue it holds, exec |
| hub (`lib/hub`) | instances, watches, pins, favorites, spans of work, its file | take events, follow, add, remove, patch, proxy | webhooks of instances, their summary streams, pages |
| terminal (`lib/shellterm`) | the shell, a ring of its output, watchers | watch, read, resize, close | streams of GET /terminal |
| uploads (`httpapi/upload*.go`) | files by checksum, what was saved lately | save, prune | references in the conversation and in drafts |
| human replies (`httpapi/handoff.go`) | the offer that was answered, receipts | offer, reply | requests, messages, the queue |
| sessions, agent logs, workspace files, registry, the views of the chat UI | files, views | read, render | the server |

What is hard here is rarely in one function: the lock is released over every call
of the agent, and a restart, an exit, a timeout or a second request can come in
between; agents outlive the generation that started them; what was sent may or
may not have arrived; and a crash can come between the agent's acceptance and
the file. What makes each part correct:

- turns: none is left active with nothing to end it, none of a dead agent, a
  promised continuation is kept, what is due is taken up;
- requests: at most one answer may reach the agent, it goes to the agent that
  asked, and what is shown is what the agent got;
- lifecycle: no process is left behind, one agent at a time (but for the race of
  a login check in §5), bounded restarts, and Close is for good;
- queue and database: no message twice or lost across clean stops, IDs never
  reused, the file catches up;
- events and webhook: a client that has read everything shows the conversation
  as it is, whatever ended its streams; the receiver is told everything once;
- adapters: adapter, agent and conversation agree on the turn, the chat is
  complete at its end, no request is stranded, settings shown are in force;
- updates: no restart under a working agent, none missed, no PID file lost but to
  the races in §5; hub: one watch per instance, page and file current;
- services: no gap in the terminal, no file gone that is referred to, no reply
  delivered twice.

## 2. Modules

| Module | Models | Composes |
|---|---|---|
| `TurnControl` | the turns | |
| `TurnControl_proofs` | theorems about `TurnControl` | `TurnControl` |
| `RequestBook` | the requests and their answers | |
| `RequestBook_proofs` | theorems about `RequestBook` | `RequestBook` |
| `AgentService` | abstract: what a conversation promises of its agent | |
| `AgentLifecycle` | launches, processes, replacements, login | implements `AgentService` |
| `AgentLifecycle_proofs` | theorems about `AgentLifecycle` | `AgentLifecycle` |
| `MessageQueue` | the queue, sends, the state database, stops and crashes | |
| `MessageQueue_proofs` | theorems about `MessageQueue` | `MessageQueue` |
| `StateFile` | the state database's writes, as operators | |
| `TaskTracker` | how tasks follow the messages, as operators | |
| `Events` | the emitter, streams, clients, restarts | `TaskTracker`, `StateFile` |
| `Webhook` | the observer and the dispatcher | `Events` |
| `Webhook_proofs` | a theorem about `Webhook` | `Webhook` |
| `AgentIO` | throttle, interrupt deadline, ends of writes and calls, as operators | |
| `Codex`, `Claude`, `Pi` | an adapter, its calls, the pipes, the agent | `AgentIO` |
| `Demo` | the simulated agent | |
| `Updater` | updates and restarts of AgentAPI on one machine | |
| `Hub` | the hub, its files, a page, instances' answers | |
| `Hub_proofs` | theorems about `Hub` | `Hub` |
| `Terminal`, `Uploads`, `Handoff` | the services of these names | |
| `Services_proofs` | theorems about `Updater`, and the invariants of the three services | `Updater`, `Terminal`, `Uploads`, `Handoff` |
| `MC*` | small instances for TLC; `MCParts` all from `Codex` on | |
| `MCParts_proofs` | theorems about the demo adapter, and about what the run `parts` checks | `MCParts`, `Services_proofs`, `Hub_proofs` |

**TurnControl.** The variables are the fields of `Conversation` that say whether a
turn runs and what is scheduled, plus the threads between two of their steps:
`call` is the one caller that holds `Server.mu`, `prompts` the launches that send
the initial prompt, `compactions` and `noTurn` the calls of `POST /compact` and
`POST /interrupt`, which take no server lock, and `phase`/`news` the adapter and its
read loop. Each operation is cut where `Conversation.mu` is free: `CallBegins` is
`beginTurnLocked`, `CallSends` the adapter's `StartTurn`, `CallReturns` the end of
`deliverTurn`. Times are abstracted to unknown, ahead and past (a limit's reset)
and waiting or due (a continuation, a retry); `LimitResets`, `ContinuationDue` and
`RetryDelayPasses` let time pass. Agents come and go by `AdapterStarts`,
`MarkStarted`, `AgentDown`, `BeginRestart` and `BeginSwitch`.

**RequestBook.** A request is a number; `status`, `capability` and `closedAt` are the
book, `answering` and `deferred` its map of answers, `delivery` the call of
`Adapter.Respond` under way, `owner` the generation that asked. `CloseAll` is `close`
over a set followed by `trim`, used by the withdrawal, `expire` and `downLocked`.
`reached` is history: how often an answer may have reached the agent.

**AgentLifecycle.** Every adapter belongs to a generation and every generation is
launched at most once, so launch, adapter and process are functions of the
generation. `launch[g]` is how far the goroutine got (waiting, factory, check,
spawn, handshake, ready, failed); between any two stages the agent may exit, be
replaced or be closed. `old[g]` is the adapter somebody retired for `g` and has yet
to close. `Host.Launch` is two steps, because `Close` may come before the process
exists. `AgentService` has one agent with a state (starting, up, waiting, login,
down, stopped), a count of attempts and whether a caller waits; the refinement
mapping (`agentState`) reads them off the current generation.

**MessageQueue.** An operation holds `Server.mu` from its check until its change is
handed to the state database; a send is cut at the agent's answer (`call`), a
change at `onChange` (`change`). `SaveState` takes no lock: it reads (`save`) and
stores later. `PutQueue` is two writes (`putMeta`), `pending` what the writer will
apply in one transaction, `disk` the file. `Crash` forgets the memory; `StopServer`
writes what is pending first; `StartUp` is `restoreQueue`. What the agent answers
is any result of `Results`; whether it is idle is left open, as an operation asks
under the lock and the model allows both.

**Events, TaskTracker, StateFile, Webhook.** Every method of the emitter runs under its
lock, so it is one action: an operator from `em` to the state after it, which collects
the events sent, the writes queued and whether subscriptions end; `Commit` hands them
on. `subs` are the bounded channels, `client` what a chat or a summary page holds and
the watermark it would resume from, `file` the database with its pending writes (a
keyed write replaces an earlier one unless a truncation or reset lies between). The
webhook's observer is a client of the same streams; `hook` is the dispatcher.

**Codex, Claude, Pi.** One module per protocol. A record is the adapter with the
state of its read loop; the handlers are operators on it. Calls are cut where the
adapter's lock is free: the write, the wait, what the caller does with the answer.
The pipes are sequences; the agent at their other end is external and may answer
late, start turns and ask by itself, not heed an interrupt, or die. What the
conversation makes of the `Sink`'s calls is kept beside the adapter, since the
properties relate the two. A message is a count of its changes, and a view what
was shown, so that what the throttle holds back is visible.

**Updater.** Servers share a program, its lock and a PID file. Update runs
(`runUpdate`), the command line, signals, the agent and the queue's dispatch
interleave; exec and exits are steps of their own. The PID file is created empty,
written, read and removed in four steps, so another server may find it empty, or
remove one that changed since it was read. `--version` of the program on disk may
fail wherever the code asks for it (a fault), which skips the comparison.

**Hub.** Handlers are cut between their change of the store and of the watches;
events are delivered in any order, any number of times. Time is a tick, which
is both the connect grace and a missed heartbeat.

**Terminal, Uploads, Handoff.** The output is bytes that know their offset, so a wrong
place in the ring shows. Uploads are checksums with times; the prune is cut at its
look, its scan and its removal. An offer's ID is the tuple the code hashes; a reply
and a message hold `Server.mu`, a GET does not.

Definitions called a slip or a mutant in their comment are what a plausible
mistake in that function would do. No specification uses them.

## 3. Runs

| Run | Instance | Shows |
|---|---|---|
| `turn_safe` | 2 agents, initial prompt, auto-continue, an agent that starts turns by itself | `TurnHasAnEnd`: an active turn is worked on, being delivered, about to be reported, or unconfirmed; `DeadAgentIsQuiet`: nothing of a dead agent is left |
| `turn_live` | 2 agents, one retry | `ContinuationKept`: a promised continuation survives refusals and exits; under fairness `BusyOnlyWithAgent` and `DueIsTakenUp` |
| `requests` | 3 requests (one a question), 3 agents, 1 closed request kept | at most one answer (`AnsweredAtMostOnce`), to the asker (`AnswerGoesToTheAsker`), shown as it went (`ResolvedIsAnswered`, `ClosedIsFinal`), a put-off close applies |
| `lifecycle` | 3 generations, 1 restart in a row | `NoOrphan`, `StartedAgentIsWatched`, `ReplacedWaitIsWoken`, `RunsAlone`: of two agents up, the older is one a login check is about to close, `ImplementsService`; under fairness retired agents stop, Close is for good, launches end |
| `queue_safe` | 2 messages, 1 fault (crash or batch given up), 1 new start | nothing twice or lost without a fault, old IDs name nothing, the store is current |
| `queue_live` | 2 messages, 2 attempts | the queue drains although the agent refuses, the file catches up |
| `events` | 15 scenarios (below) of one or two clients or the webhook | `DrainedIsCurrent`, `ResumesFromWhatItHolds`, `StoredIsTheConversation`, `TasksFollowTheMessages`, `ReceiverIsTold`, `ArrivesInOrder` |
| `parts` | about 80 scopes of the adapters, updates, hub and services | `ChatsAreComplete`, `TurnsAgree`, `NoneStranded`, `SettingsApply`; `UpdatesAreSafe`; `HubKeepsTrack`; `ClientsAreServed`; `StepsAreCareful` |
| `turn_marks` | violation | an agent that exits in a retry or a continuation leaves the mark for the next turn |
| `turn_agent_work` | violation | a refused delivery hides a turn the agent started by itself |
| `lifecycle_login` | violation | a failed restart leaves a login asked for that nothing checks |
| `queue_resend` | violation | a message that went out before a crash goes out again |

The four violations are findings: what a comment or a document says is quoted in
`PROJECT.json` next to what the code does.

**Bounds.** Two agents are enough for every race between an agent and its
successor in the turns; three generations let a launch be replaced while the one
before it still closes. Three requests with one closed request kept make `trim`
choose. Two messages are enough for order, overtaking and a reused ID; the users'
changes are bounded (`MaxChanges`) so that the removals left always fit. One
retry and one restart reach both "again" and "given up". `MaxFaults` counts crashes
and batches given up together. In `queue_live` the agent is not busy after all every
time (`Results` leaves out `changing`): an agent that is always busy again keeps
its messages, as it should.

A *scenario* of `events` and a *scope* of `parts` is a record of bounds chosen in the
initial state: what may happen in that behaviour and how often. One instance with
everything in it is out of TLC's reach; each scope has the few things that make a
group of hazards happen, such as an app server that answers late while it starts a
turn of its own, and what a scope leaves out is in another. The passing runs
fire every action. In `parts` one behaviour is of one part, because the parts share
no state: an adapter is used by one conversation, and the hub, the updates and the
services meet the rest only through what their modules model at their edge. Their
properties are therefore stated by what they promise and are conjunctions over the
parts: `TurnsAgree` is the promise every adapter makes, `CodexTurnsAgree` its meaning
for Codex. `pipe` bounds the lines on their way to an adapter (one where the order of
lines does not matter to the scope, else two), `lates` the calls given up on.

**Deadlock.** It is checked where the model goes on forever. Elsewhere it is off: the
agent is closed for good (`AgentLifecycle`), AgentAPI stopped (`MessageQueue`,
`Updater`), or a scope's bounds are used up with nothing left to do (`events`,
`parts`).

**Fairness.** Weak fairness for the steps the code takes by itself: calls of the
agent end (each has a deadline), read loops report what they read, launches go on
(`Factory` returns, `Start` has a deadline, timers fire), exits are noticed, retired
adapters are closed, the writer flushes every 200 ms, changes are handed on. Strong
fairness only for `Dispatch`: the tick comes again and again while users keep
taking `Server.mu`, and Go's mutex does not starve it. Users, agents that exit,
crashes and the passing of limits are never forced.

## 4. Proofs

`RequestBook_proofs` proves, for any number of requests and agents, any set of
questions and any bound on the closed requests (assumption: they are naturals):

- `BookTypeCorrect`: `TypeOK`;
- `AnswerOnce`: `AnsweredAtMostOnce`;
- `AnswerToTheAsker`: `AnswerGoesToTheAsker`;
- `ResolvedWasAnswered`: `ResolvedIsAnswered`.

None of them is inductive: that an answer reached the agent once says nothing about
the stage its delivery is in. The inductive invariant `IInv` adds that a delivery is
under way exactly while its `Respond` runs, and only of a pending request
(`DeliveryMatchesBook`), how often an answer may have arrived at each stage
(`ReachedByStage`), and that an answer that outlives its agent found the request
closed meanwhile (`LateAnswerIsClosed`), which is what keeps a late answer from
reopening a dead agent's request. `TrimDropsOnlyClosed` and `CloseAllEffect` say what
the two operators do to one request, so that the step proof reasons request by
request.

`AgentLifecycle_proofs` proves, for any number of generations and any number of
restart delays (assumption: both are naturals):

- `LifecycleTypeCorrect`: `TypeOK`, with the restarts within their bound;
- `NoAgentLeftBehind`: `NoOrphan`;
- `StartedMeansWatched`: `StartedAgentIsWatched`;
- `NoStaleWait`: `ReplacedWaitIsWoken`;
- `OneAgentAtATime`: `RunsAlone`;
- `LifecycleImplementsService`: `ImplementsService`, the refinement of `AgentService`.

The run goes through three generations; the proofs cover histories of exits and
replacements of any length. The inductive invariant ties what each stage of a
launch has to the rest of the state. `StartIsOwned` is the heart of it: an adapter in
`Start` is the conversation's, is bound to be closed, or is closed already; together
with the second look at `closing` in `Host.Launch` it leaves no process behind.
`ProcessByStage` and `AdapterIsCurrent` say that giving up a failed or exited agent
drops an adapter whose process is gone; `WatchByStage`, that an exit cannot come
between `Start` and `markStartedLocked` unnoticed; `WaitCanBeWoken`, that `relaunchWake`
is the wait of the current generation or was closed; `OldClosedByStage`, that the next
launch waits for `CloseOld`; `RunInv`, which only `RunsAlone` needs, that a retired agent
is closed for the generation right after it, and that no launch begins beside that of a
restart or a switch (`s.restarting`), which a `RetryLogin` has no part in; `FutureIsBlank`, that the next generation begins afresh;
`WaitIsRetried`, which only the refinement needs, that no caller waits for a start made
by itself. `RetireStage` and `FollowStage` are the two ways a generation ends, by a
replacement or by itself. For the refinement every step of the conversation is shown
to be a step of `AgentService` or to leave its three variables alone.

`TurnControl_proofs` proves, for any number of agents in a row, any length of
`Config.RetryDelays` and every configuration (assumption: naturals and Booleans):

- `Types`: `TypeOK`;
- `TurnEnds`: `TurnHasAnEnd`;
- `AgentDies`: `DeadAgentIsQuiet`;
- `ContinuationIsKept`: `ContinuationKept`.

The first three are inductive together once `NewsIsOfTheAgent` is added: the read loop
has news of the running agent only, and reports a start only of one that runs.
`ContinuationKept` needs to know where a continuation is while it is nowhere: the call
of `ContinueIfDue` took the stop away before it asked the agent, and
`OwedIsScheduled` says that it can put it back, since no other stop came and no turn
but its own runs.

`MessageQueue_proofs` proves, for any number of messages, attempts, faults and starts of
AgentAPI and any of the agent's answers (assumption: naturals, one attempt at least):

- `Types`: `TypeOK`;
- `StoredCurrent`: `StoredIsCurrent`;
- `IdsAreFresh`: `OldIdsNameNothing`;
- `NothingIsLost`: `QueueIsWhatWaits`;
- `SentAtMostOnce`: `DeliveredAtMostOnce`.

The invariant follows a change on its way through `storeQueue`, `DB.pending` and the
file. `VersionsAgree` says which of them may be behind, so that a `SaveState` that read
before a later change stores nothing old; `IdsAreDistinct`, that the IDs of every queue
on the way differ; `CallHoldsItsMessage`, that a send under way has its message in the
queue still, or in no queue; `WhatWaits`, that what waits is in the queue, or in the file
once AgentAPI stopped; `SentOnce`, that what may be sent reached no agent but by the
send under way. `QueueIsWhatWaits` and `DeliveredAtMostOnce` are about behaviours without
a fault, as in the run: with one, the run `queue_resend` shows them violated.

`Webhook_proofs` proves `EventsArriveInOrder`: `ArrivesInOrder`, for every scenario, any
size of the queue and any number of attempts (assumption: both positive). What
arrived, the event being delivered and the events that wait have growing numbers, and an
event arrived less often than it was tried (`InOrder`).

`Services_proofs` proves of the updates, for every scope, with any finite number of servers, updates,
signals and commands (assumption: servers are not called like the other holders of the
lock and the PID file; the bounds are numbers):

- `UpdatesSafe`: `UpdateStatusAgrees`, `UpdateIsWoken`, `RestartIsSafe`, `RestartIsReported`;
- `UpdatesCareful`: `UpdateIsCareful`.

Per server, the invariant says which run the status is of and that no other is under
way (`StatusHolds`); that a run which waits, or is about to, while the agent is idle was
woken, is over, or was asked for now (`WaitersHear`); where a restart stands, and that its
program was checked (`RestartHolds`); and that the server's entry is no newer than its
run, and of it while it serves (`EntryHolds`). Of the machine, that who holds the lock got
past the PID file and that the file names the server that runs, unless another server
removed it from under one (`raced`, `MachineHolds`); of the command, that it reports "serves again" only of a run newer than
the entry it noted (`CommandHolds`). The proof found `UpdateStep` false as first stated: a
restart by SIGUSR2 may go on beside an update whose own restart failed. The property now
says what the code keeps there too, and a scope reaches it.

`Hub_proofs` proves for every scope, with any set of instances, URLs, events and files
(assumption: URLs are not the placeholder, the IDs of instances are positive numbers, time
and the page's channel have a bound, a file that is read is damaged, of a newer version, or
one that a hub wrote before the behaviour):

- `HubSendsHome`: `HubProxiesHome` and `HubMuteEnds`, two conjuncts of `HubKeepsTrack`;
- `HubMovesOnlyTheDead`: `HubMovesTheDead`;
- `HubPageStaysCurrent`: `HubPageIsCurrent` and `HubPinsAreDense`;
- `HubWorkStaysSeen`: `HubWorkIsSeen`;
- `HubFileStaysCurrent`: `HubFileIsCurrent`;
- `HubHandlesOnce`: `HubTakesOnce`;
- `HubWatchesEach`: `HubFollowsEach`.

The first two need `HubIInv` only, the others `HubAllHolds`, which adds four parts to it.
`HubIInv` holds for the instances in memory and those in the file alike
(`HubTyped`, `DiskHolds`): who is connected answered at its URL, a token is of an instance
added by hand and is for its URL, who is marked failed has a dead URL or was misjudged
(and only who is marked answers elsewhere), and what is muted is the key of the summary
held (`InstHolds`). What `Update` leaves alone is stated once (`SameInst`), for all the
handlers that go through it. The proof found `HubMove` false as first stated, of the
instance's own mark; it is now stated of the failures of its watch at that URL
(`hubWorld.dead`), with the two races it excepts.

The four parts, each kept by every step (`HubAllNext`):

- `TrackHolds` has the store, its file and the page in step. `PinsHold`: the pins of a
  store are 1, 2, ...; that `numberPinsLocked` makes them so of any pins, and keeps the
  order of those that stay, is a lemma about the places in a total order. `WorkHolds`: the
  spans of work follow one another up to the one that goes on, which goes on exactly while
  the instance works, and the rows of the file are no later than now. `FileHolds`: while
  nothing waits to be written, a start makes of the file what it would make of the
  instances in memory. `PageHolds` is not about the page's view, but about the view once the
  queue is taken: the last event of the queue about an instance says what the store has of
  it, and where there is none the view does. That form is inductive although `Update` may
  send one event or many and a full queue ends the subscription; it needs that events of
  one step each say what the store has after it (`NotifyAgrees`).
- `HubViewHolds`: the view is a map.
- `OnceHolds`: on a behaviour without kills and failed writes, and with no more events than
  the hub remembers, what was handled is in the order that the process, or while it is down
  the file, has; a call that handles an event has its delivery there and is the first to;
  and the file has that order whenever nothing waits to be written.
- `WatchesHold`: a live watch is the one that `Hub.watchers` cancels and the only one of its
  number; while the hub runs an instance has one, unless a handler is about to start or
  end it, and a stopped instance none but one about to see it. A handler's step ahead is
  what makes the gap between the store and the watches harmless (`Pending`).

`MCParts_proofs` proves of the specification of the run `parts`, for every scope:

- `UpdatesStaySafe`: `UpdatesAreSafe`;
- `HubStaysOnTrack`: `HubKeepsTrack`;
- `StepsStayCareful`: `StepsAreCareful`;
- `ClientsStayServed`: `ClientsAreServed`;
- `DemoChatIsComplete`: the demo adapter's part of `ChatsAreComplete`, which is
  `DemoTurnsEnd`; `DemoTurnsEndWhole` proves that of `DemoSpec`.

The first three rest on `Services_proofs` and `Hub_proofs`: a step of `MCParts`
that is of a part is one of that part's `Next`. The others have four inductive invariants
of their own, those of the services in `Services_proofs`, that of the demo adapter in
this module.

- Terminal (`TermIInv`; assumption: the scrollback has a positive size). `RingHolds`
  says at which place of the ring each kept byte is, modulo the size, and that
  `noNewline` skips no newline. `SegmentsIs` shows that the two slices in a row are what is
  kept, whatever the wrap; `WrittenIs`, that a write of any length puts each byte where
  that looks for it; `RingAddHolds`, that `add` moves the start as the comment of the
  scrollback says. Beneath them are lemmas on division with a remainder (`ModIs`,
  `PlaceIs`, `FromIs`). `StreamHolds` says that the chunks a watcher has and will be sent
  follow each other up to the end of the output.
- Uploads (`UploadIInv`). A draft's file has a time, in the directory or in `saved`, no
  older than the upload (`DraftIsKept`); what is referred to since a prune's scan was
  stored after its cutoff (`NewIsKept`), which is why the removal, which looks at both
  times again, spares it. `ToldIsKept` says that a call that is about to answer with a path
  placed its file within the grace; `refs.stale` excepts the files of the observation below.
- Human replies (`HandIInv`; assumption: one receipt is kept at least). A call that holds
  `Server.mu` is alone, and `ViewHolds`, `LookHolds` and `FoundHolds` say what it saw that
  still holds although the agent went on since. `ReachedHolds` says why an offer that got
  through is not offered again: it is of an earlier revision, or it is the message and
  suppressed, or its request is not open. It does not need the receipt, so a receipt
  that was dropped to make room cannot let a reply through twice.
- Demo adapter (`DemoIInv`). While the agent runs, at most one turn is of its adapter, and
  there is one while the adapter has one active and is not closed (`RunsHold`); those of
  adapters before it change nothing that is told (`Heard`). `PlayHolds` says where that
  turn is: its stages think, run tools one after the other and end with a stage that
  nothing follows (`StagesHold`, proved of `Stages` for any words and mode); it has shown
  one call per tool that it passed, and only the one it is at runs; it is the adapter's
  until it reports; an end it decided on has its steers answered, or was steered after the
  last look; and the adapter's mode is the one told, unless it is about to be or another
  change raced it. What a turn that reports says of its
  context is the turns since the last compaction; a start and a compaction empty it
  (`DemoFresh`).

What is left to TLC:

- Liveness (`BusyOnlyWithAgent`, `DueIsTakenUp`, the queue drains, launches end, retired
  agents stop): it needs fairness and `ENABLED`, which the prover does not handle.
- `ReceiverIsTold` and the invariants of `Events`: they compare what clients hold
  with what folds over all messages say; a proof is by induction over the messages.
- The promises of the adapters for Codex, Claude Code and pi (`TurnsAgree`, `NoneStranded`,
  `SettingsApply`, and `ChatsAreComplete` but for the demo adapter): their invariants would
  relate two pipes, the calls given up on and both ends, for each of three protocols.

No module that a theorem reaches declares a `RECURSIVE` operator.

## 5. Observations

Seen while modelling, and small enough not to be runs of their own:

- `sink.TurnStarted` does not clear `limitStop` and `retryWait`, which their comments
  say hold "until a turn starts": during a turn the agent starts by itself both stay
  shown, and the queue stays held after it.
- `RetryNow` does not put back the retry wait when the agent refuses the turn;
  `ContinueIfDue` does.
- `Interrupt` ends an unconfirmed turn on an `ErrNoActiveTurn` that may be older than
  the delivery; the agent's `TurnStarted` makes it active again.
- `messageQueue.Failed` counts failures in a row of one message, so the "up to 5
  attempts" of docs/architecture.md start over when another message fails between.
- The comment of `Config.RetryDelays` names other delays than the default has.
- `RetryLogin` (login.go:106-130) is called without `Server.mu` (httpapi/native.go:228-238)
  and retires the agent it closes next. A restart, or the opening of another session,
  that begins before that `Close` returns finds no adapter to close, and starts its agent
  beside the one that still stops. lifecycle.go:374-375 says "Start, the second, closes the
  retired agent and starts the new one", host.go:394-396 that a reload "resumes the same
  session at once, which the old process must not still hold", restart.go:130-139
  that "other replacements are refused, so nothing gets in between", and
  docs/chat-ui.md:387 that Restart agent "stops the agent, clears the conversation and
  starts it again". `RunsAlone` excepts this race and no other; the run reaches it.

Where a property of `events` or `parts` has an exception, it is one of these. Each is
a flag of the model that only the race in question sets, named in parentheses.

Codex: a stale `planWait` lets a later Interrupt end another thing; an answer abandoned
after `closeTurnRequests` leaves an MCP elicitation waiting; an unconfirmed turn/start of
an approved plan leaves the plan shown while the thread may be in the default mode; a
change of settings while such a turn starts can be committed with it (`raced`);
`ApplySettings` to a model without a choice of effort keeps an earlier pending effort; a
turn completed with a plan clears the adapter's requests, not the conversation's; a second
error of a turn replaces the first; a response older than the last `endedTurns` turns would
start an ended turn again.

Claude Code: `wake` ends an interrupted turn and forgets its requests unanswered
(`stranded`); `ApplySettings` records the mode outside the read loop, over a status frame
that came meanwhile (`raced`); a refused StartTurn clears a turn the CLI started by itself
meanwhile (`refused`); after a turn was ended here, an idle frame clears requests without
`TurnCompleted`; an assistant frame of a message forgotten at the end of its turn shows it
with its later blocks only; a `rate_limit_event` with unified windows forgets another
window's rejection.

pi: the response to a steer after its turn was ended begins a turn nothing ends if pi
leaves `agent_settled` out (`revived`); `acceptPrompt` accepts a prompt pi has not read when
pi starts a run of its own, and gives a hanging command's prompt to a later turn, which its
response can end (`outlived`); dialogs opened outside a turn expire at the next turn's end
while pi waits on (`loose`); an answer abandoned after its turn's dialogs were cancelled
strands its dialog; a switch of models whose later step fails leaves the effort empty, and
later level changes are ignored; `get_state`'s answer overwrites a newer level (`raced`); the
conversation takes its turn back on a refused StartTurn although pi began one (`refused`).

Demo: a message steered after the turn's last look is accepted and dropped (`lost`);
`leavePlanMode` reports settings after unlocking (`raced`).

Events and webhook: a summary stream learns of a message taken back with the next event
only; Reset sends no status, so the pending count and the name stay until the restart's
lifecycle change; the observer subscribes some time after `Observe`; a request closed and
trimmed while its subscription was down is never told as closed; `toolDone` is forgotten
beyond `maxToolMessages`; a full queue drops events.

Updates: `writePIDFile` creates the file empty and writes it afterwards
(server.go:375-387); a server that reads it in between finds no number in it, removes it as
stale (392-413), and both start. So do two that find the same stale file, as one removes what
the other created meanwhile. The comment (371-373) says that the file is created
"exclusively so two servers cannot both pass a check-then-write sequence". `RestartIsSafe`
excepts both (`machine.raced`). `Install` and `check` compare versions only if `--version` of
the program on disk answers (program.go:159-163, update.go:291-298); if it fails, the
latest release as found before replaces a newer program, unforced, where the comment
(program.go:145-148) says that one "that is the release's version or newer by the time
Install holds the lock stays". `UpdateStep` excepts a step in which it fails
(`VersionFails`). The program can be replaced between
`selfExec.check` and exec; a SIGTERM after serve returned for a restart and before exec is
swallowed; after a failed restart messages go to the agent for a moment while the state
still says restarting.

Hub: `streamFailed` does not look at the URL, so a watch of the URL an event just moved the
instance from marks the new one failed (`misjudged`), unlike store.go's comment on `failed`;
`addInstance` checks, then updates (`raced`); a removal between an event's update and its watch
leaves a follow until its stream ends; adding an instance again replaces its summary without
ending its mute; an instance that failed and is then told to have stopped keeps `failed`, so
an event moves it although its URL answered again meanwhile; a write that failed is tried again with the next change only; the clearing
of a token on a move is never reached.

Terminal: what the shell wrote last can be lost when `cmd.Wait` closes the pseudo-terminal
before the last read; a stream ended by an exit while another watch already started a shell
reconnects instead of being told of the exit.

Uploads: a file uploaded again is not rewritten, so after a restart, which forgets `saved`,
the first prune removes it under a fresh draft (`stale`), although the grace is said to cover
drafts; `.upload-*` files a crash leaves are never pruned; a draft older than the grace that is
sent between the scan and the removal loses its file.

Human replies: a request whose answer is unconfirmed stays the oldest pending one, so a
later one is not offered; a reply that failed is not offered again until the revision
changes; an ID read across a change mixes an old revision with a new request, and a reply
to it is superseded.

## 6. Not modelled, and the plan

Left out for good: formatting, parsing and rendering (messages, HTML previews,
pricing, titles, token counts), readers of other programs' files (agent logs, stored
sessions, workspace files), flags and wiring, the operating system's signals and locks
(their effect is modelled), the registry, the test doubles, the views of the chat UI.
Within modelled parts: payloads and signatures of webhooks; the hub's sign-in, cookies,
join URLs and sliding windows of work; subagent spawns, drift reports and model lists of
the adapters; downloads, checksums and sudo of the updates; the schema and encoding of the
state database; what users type into the terminal. The agents at the other end of the
pipes are assumed, beyond what their protocols fix, to answer a prompt before its run ends
(pi), to take nothing while they compact (pi), and to take a turn/start only once they
answered what they took before (Codex app server).

Done in this order: turns, requests, lifecycle, queue; then events with the stored
conversation and the webhook, the adapters, updates, hub, and the services. What could
still be modelled: the session list and the switch to a stored session as the readers see
it, the registry's files, the hub's sign-in; a composition of turns and queue under one
`Server.mu`; the adapters against the `phase` that `TurnControl` assumes, as a refinement.

Theorems next: `PiChatIsComplete`, the smallest of the three adapters with pipes; what
`StateFile`'s `Enqueue` keeps of the rows, the step of `StoredIsTheConversation` that is no
induction.
