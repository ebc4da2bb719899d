------------------------------ MODULE Webhook ------------------------------
(***************************************************************************)
(* The webhook (lib/webhook): the observer, which follows the emitter's    *)
(* events like a client of GET /events and makes webhook events of them,   *)
(* and the dispatcher, which delivers them one at a time.                  *)
(*                                                                         *)
(* A webhook event is <<kind, what, at>>: the task, message, request, tool *)
(* or error it is about and when that began.  Its payload, the signature   *)
(* and the address it names are left out, as is login.*, which is made as  *)
(* limit.* is.  hook.said is the history of what was told while the        *)
(* webhook wanted it, and hook.got of what arrived; the queue and got have *)
(* the events' IDs, an event's place in hook.said.                         *)
(***************************************************************************)
EXTENDS Events

CONSTANTS
    Observer,         \* the observer's subscription, one of Clients
    Since,            \* what came before is history
    QueueSize,        \* webhookQueueSize
    MaxAttempts,      \* Config.MaxAttempts
    MaxOpenTools, MaxToolMessages  \* maxOpenTools, maxToolMessages
ASSUME WebhookAssumption ==
    /\ QueueSize \in Nat \ {0} /\ MaxAttempts \in Nat \ {0}
    /\ \A s \in Scenarios : s.hook \in BOOLEAN

\* A scenario also says whether there is a webhook (lim.hook), and how many
\* changes of its configuration (configs), heartbeats (beats) and deliveries
\* (sends) there are.

VARIABLES
    obs,   \* webhookObserver, and whether it runs
    hook   \* Dispatcher: see HookInit

hookVars == <<obs, hook>>
rest == <<client, file, up, timer, queue, reports, clock, epochs, past, lim>>

NoMark == [id |-> -1, at |-> 0]
NoMsg == [none |-> TRUE]

\* newWebhookObserver.
NewObserver(on) ==
    [on |-> on, first |-> TRUE, quiet |-> TRUE, last |-> 0, epoch |-> NoEpoch, seq |-> 0,
     stable |-> FALSE, limited |-> FALSE, agent |-> NoMsg, sent |-> NoMark,
     started |-> NoMark, ended |-> NoMark, tools |-> << >>, toolDone |-> {}, toolMsgs |-> << >>,
     open |-> {}, lastError |-> 0,
     began |-> [at |-> 0, errors |-> 0],  \* its first subscription, for the properties
     tells |-> << >>]                     \* what a method queues

\* mark.covers and mark.advance.
Covers(m, k) == k = m \/ (k.id < m.id /\ k.at <= m.at)
Advance(m, k) == IF k.id >= m.id \/ k.at > m.at THEN k ELSE m
KeyOf(x) == [id |-> x.id, at |-> x.at]

Tell(o, kind, what, at) == [o EXCEPT !.tells = Append(@, <<kind, what, at>>)]

\* send, flushAgent.
SendMessage(o, m) == Tell([o EXCEPT !.sent = Advance(@, KeyOf(m))], "message", m.id, m.at)
FlushAgent(o) ==
    LET p == [o EXCEPT !.agent = NoMsg]
    IN  IF o.agent = NoMsg \/ Covers(o.sent, KeyOf(o.agent)) THEN p ELSE SendMessage(p, o.agent)

MessageUpdated(o, m, quiet) ==
    IF quiet \/ m.at < Since THEN [o EXCEPT !.sent = Advance(@, KeyOf(m))]
    ELSE IF Covers(o.sent, KeyOf(m)) THEN o
    ELSE IF m.role = "user" THEN SendMessage(FlushAgent(o), m)
    ELSE LET p == IF o.agent # NoMsg /\ o.agent.id # m.id THEN FlushAgent(o) ELSE o
         IN  [p EXCEPT !.agent = m]

\* statusChanged: the agent's message is final once it is done.
ObservedStatus(o, body, quiet) ==
    LET stable == body.status = "stable"
        limited == body.limitAt # 0
        p == [o EXCEPT !.stable = stable, !.limited = limited]
        q == IF limited = o.limited THEN p
             ELSE Tell(p, IF limited THEN "limit.stopped" ELSE "limit.cleared", 0, clock)
    IN  IF quiet THEN p
        ELSE IF (~o.stable /\ stable) \/ body.lifecycle \in {"exited", "failed"} THEN FlushAgent(q) ELSE q

TaskUpdated(o, t, quiet) ==
    LET k == KeyOf(t)
        p == IF Covers(o.started, k) THEN o
             ELSE Tell([o EXCEPT !.started = Advance(@, k)], "task.started", t.id, t.at)
    IN  IF quiet \/ t.at < Since
        THEN [o EXCEPT !.started = Advance(@, k), !.ended = IF Final(t) THEN Advance(@, k) ELSE @]
        ELSE IF ~Final(t) \/ Covers(o.ended, k) THEN p
        ELSE Tell([p EXCEPT !.ended = Advance(@, k)], "task.ended", t.id, t.at)

\* toolStarted keeps the call, and no more than MaxOpenTools.
ToolStarted(o, k) ==
    IF k \in o.toolDone \/ Contains(o.tools, k) THEN o
    ELSE [o EXCEPT !.tools = LET new == Append(@, k)
                             IN  SubSeq(new, Max({1, Len(new) - MaxOpenTools + 1}), Len(new))]

\* keepToolMessage: the calls of the earliest message are forgotten.
KeepToolMessage(o, k) ==
    LET msgs == Append(SelectSeq(o.toolMsgs, LAMBDA j : j # k), k)
    IN  IF Len(msgs) <= MaxToolMessages THEN [o EXCEPT !.toolMsgs = msgs]
        ELSE [o EXCEPT !.toolMsgs = Tail(msgs), !.toolDone = @ \ {Head(msgs)}]

RichMessageUpdated(o, k, r, quiet) ==
    LET p == ToolStarted(o, k)
        back == [p EXCEPT !.toolDone = @ \cup {k}, !.tools = SelectSeq(@, LAMBDA j : j # k)]
        told == IF quiet \/ r.at < Since THEN back ELSE Tell(back, "tool.completed", k, r.at)
    IN  IF ~r.done THEN p
        ELSE KeepToolMessage(IF k \in p.toolDone THEN p ELSE told, k)

RequestUpdated(o, r, st, quiet) ==
    LET isOpen == st = "pending"
        p == [o EXCEPT !.open = IF isOpen THEN @ \cup {r} ELSE @ \ {r}]
    IN  IF quiet \/ isOpen = (r \in o.open) THEN p
        ELSE Tell(p, IF isOpen THEN "request.opened" ELSE "request.closed", r, 0)

ObservedError(o, n, quiet) ==
    IF n <= o.lastError THEN o
    ELSE LET p == [o EXCEPT !.lastError = n] IN IF quiet THEN p ELSE Tell(p, "agent.error", n, 0)

\* newConversation, after a reset.
NewConversation(o) ==
    [FlushAgent(o) EXCEPT !.sent = NoMark, !.started = NoMark, !.ended = NoMark, !.tools = << >>,
                          !.toolDone = {}, !.toolMsgs = << >>, !.open = {}]

Handle(o, ev, quiet) ==
    CASE ev.type = "sync" -> NewConversation(o)
      [] ev.type = "status" -> ObservedStatus(o, ev.val, quiet)
      [] ev.type = "msg" -> MessageUpdated(o, ev.val, quiet)
      [] ev.type = "rich" -> RichMessageUpdated(o, ev.key[2], ev.val, quiet)
      [] ev.type = "req" -> RequestUpdated(o, ev.key[2], ev.val.st, quiet)
      [] ev.type = "error" -> ObservedError(o, ev.val, quiet)
      [] ev.type = "task" -> TaskUpdated(o, ev.val, quiet)
      [] OTHER -> o

\* Mutant: every replay is history.
ReplayQuietly(o, ev) ==
    IF ev.type = "sync" THEN [o EXCEPT !.epoch = ev.val.epoch, !.seq = Max({@, ev.seq})]
    ELSE IF ev.seq # 0 /\ ev.seq <= o.last THEN o
    ELSE Handle(o, ev, TRUE)

\* replay and take.
ReplayEvent(o, ev) ==
    IF ev.type = "sync" THEN [o EXCEPT !.epoch = ev.val.epoch, !.seq = Max({@, ev.seq})]
    ELSE IF ev.seq # 0 /\ ev.seq <= o.last THEN o
    ELSE Handle(o, ev, o.quiet)
TakeEvent(o, ev) ==
    Handle([o EXCEPT !.epoch = IF ev.type = "sync" THEN ev.val.epoch ELSE @,
                     !.seq = Max({@, ev.seq})], ev, FALSE)

----------------------------------------------------------------------------
\* The dispatcher.

\* enqueue of these events, one after the other: each gets an ID of its own,
\* its place in hook.said, and a full queue drops it.
Enqueued(h, evs) ==
    LET room == QueueSize - Len(h.queue)
        kept == IF Len(evs) <= room THEN Len(evs) ELSE room
    IN  IF ~h.wanted THEN h
        ELSE [h EXCEPT !.said = @ \o evs, !.queue = @ \o [k \in 1 .. kept |-> Len(h.said) + k]]

\* What the observer was told of becomes webhook events.
Dispatch(o) ==
    /\ obs' = [o EXCEPT !.tells = << >>]
    /\ hook' = Enqueued(hook, o.tells)

\* Start sends instance.started.
HookInit ==
    /\ obs = NewObserver(lim.hook)
    /\ hook = Enqueued([wanted |-> lim.hook, queue |-> << >>, now |-> << >>, attempt |-> 0, said |-> << >>,
                        got |-> << >>, phase |-> "on", configs |-> 0, beats |-> 0, sends |-> 0],
                       << <<"started", 0, 0>> >>)

\* run: the observer subscribes from where it got; only the first replay is
\* history.
ObserverSubscribes ==
    LET from == IF obs.epoch = NoEpoch THEN 0 ELSE obs.seq
    IN  /\ up /\ obs.on /\ subs[Observer].st = "none"
        /\ subs' = [subs EXCEPT ![Observer] =
                      [st |-> "open", replay |-> Replay(em, Observer, from, obs.epoch), buf |-> << >>, id |-> 0]]
        /\ obs' = [obs EXCEPT !.last = obs.seq, !.quiet = obs.first, !.first = FALSE,
                             !.began = IF obs.first THEN [at |-> clock, errors |-> em.errorCount] ELSE @]
        /\ UNCHANGED <<em, hook, rest>>

ObserverReads ==
    LET s == subs[Observer]
    IN  /\ up /\ obs.on
        /\ \/ /\ s.replay # << >>
              /\ Dispatch(ReplayEvent(obs, Head(s.replay)))
              /\ subs' = [subs EXCEPT ![Observer].replay = Tail(@)]
           \/ /\ s.replay = << >> /\ s.buf # << >>
              /\ Dispatch(TakeEvent(obs, Head(s.buf)))
              /\ subs' = [subs EXCEPT ![Observer].buf = Tail(@)]
           \/ /\ s.st = "closed" /\ s.replay = << >> /\ s.buf = << >>
              /\ subs' = [subs EXCEPT ![Observer] = NoSub]
              /\ UNCHANGED hookVars
        /\ UNCHANGED <<em, rest>>

\* UpdateConfig and webhookObserving.sync: the observer runs while its events
\* are wanted.
WebhookConfigured ==
    /\ up /\ hook.phase = "on" /\ hook.configs < lim.configs /\ lim.hook
    /\ hook' = [hook EXCEPT !.wanted = ~@, !.configs = @ + 1]
    /\ obs' = NewObserver(~hook.wanted)
    /\ subs' = [subs EXCEPT ![Observer] = NoSub]
    /\ UNCHANGED <<em, rest>>

\* heartbeats, SendHeartbeat.
Heartbeat ==
    /\ up /\ hook.phase = "on" /\ hook.wanted /\ hook.beats < lim.beats
    /\ hook' = Enqueued([hook EXCEPT !.beats = @ + 1], << <<"heartbeat", hook.beats, 0>> >>)
    /\ UNCHANGED <<eventVars, obs>>

\* Mutant: one attempt too many.
AttemptedOnceMore ==
    /\ hook.phase # "ended" /\ hook.now # << >>
    /\ \E arrives \in BOOLEAN, answer \in {"ok", "permanent", "fails"} :
        /\ answer = "ok" => arrives
        /\ answer = "permanent" => ~arrives
        /\ hook' = [hook EXCEPT !.got = IF arrives THEN Append(@, hook.now[1]) ELSE @,
                                !.now = IF answer = "fails" /\ hook.attempt <= MaxAttempts THEN @ ELSE << >>,
                                !.attempt = IF answer = "fails" /\ @ <= MaxAttempts THEN @ + 1 ELSE 0]
    /\ UNCHANGED <<eventVars, obs>>

\* deliver: an attempt succeeds, is refused for good, or fails and is tried
\* again; the receiver may have got what failed.
TakesUp ==
    /\ hook.phase # "ended" /\ hook.now = << >> /\ hook.queue # << >> /\ hook.sends < lim.sends
    /\ hook' = [hook EXCEPT !.now = << Head(hook.queue) >>, !.queue = Tail(@), !.attempt = 1, !.sends = @ + 1]
    /\ UNCHANGED <<eventVars, obs>>
Attempted ==
    /\ hook.phase # "ended" /\ hook.now # << >>
    /\ \E arrives \in BOOLEAN, answer \in {"ok", "permanent", "fails"} :
        /\ answer = "ok" => arrives
        /\ answer = "permanent" => ~arrives
        /\ hook' = [hook EXCEPT !.got = IF arrives THEN Append(@, hook.now[1]) ELSE @,
                                !.now = IF answer = "fails" /\ hook.attempt < MaxAttempts THEN @ ELSE << >>,
                                !.attempt = IF answer = "fails" /\ @ < MaxAttempts THEN @ + 1 ELSE 0]
    /\ UNCHANGED <<eventVars, obs>>

\* Stop: instance.stopped is delivered, or given up on after
\* webhookStopTimeout; then the dispatcher's context ends.
StopBegins ==
    /\ up /\ lim.hook /\ hook.phase = "on" /\ lim.sends > 0
    /\ hook' = [Enqueued(hook, << <<"stopped", 0, 0>> >>) EXCEPT
                  !.phase = IF hook.wanted /\ Len(hook.queue) < QueueSize THEN "stopping" ELSE "ended"]
    /\ UNCHANGED <<eventVars, obs>>
StopEnds ==
    /\ hook.phase = "stopping"
    /\ hook' = [hook EXCEPT !.phase = "ended"]
    /\ UNCHANGED <<eventVars, obs>>

HookNext ==
    \/ ObserverSubscribes \/ ObserverReads \/ WebhookConfigured \/ Heartbeat \/ TakesUp \/ Attempted
    \/ StopBegins \/ StopEnds

WebhookInit == EventsInit /\ HookInit
WebhookNext == (EventsNext /\ UNCHANGED hookVars) \/ HookNext
WebhookSpec == WebhookInit /\ [][WebhookNext]_<<eventVars, hookVars>>

----------------------------------------------------------------------------
\* Properties.

\* Nothing is told twice, however often the subscription ends and its replay
\* brings it again, a message grows or is taken back, or the observer is
\* started anew; a task's end follows its start.
ToldOnce ==
    /\ \A i, j \in DOMAIN hook.said :
        (i # j /\ hook.said[i] = hook.said[j]) => hook.said[i][1] \in {"limit.stopped", "limit.cleared"}
    /\ \A i, j \in DOMAIN hook.said :
        (hook.said[i][1] = "task.ended" /\ hook.said[j] = <<"task.started", hook.said[i][2], hook.said[i][3]>>) => j < i

\* Once the observer has read all that its subscription holds, the receiver
\* was told how everything stands, or the event was dropped or refused:
\* each task and its end, each request that is open, each user message and
\* error since its first subscription, although it ended in between.
ToldAll ==
    (up /\ obs.on /\ hook.configs = 0 /\ subs[Observer] = [NoSub EXCEPT !.st = "open"]) =>
        LET said == {hook.said[i] : i \in DOMAIN hook.said}
            tasks == {em.trk.tasks[i] : i \in DOMAIN em.trk.tasks}
            news(x) == x.at >= Since /\ x.at > obs.began.at
        IN  /\ \A t \in tasks : news(t) =>
                /\ <<"task.started", t.id, t.at>> \in said
                /\ Final(t) => <<"task.ended", t.id, t.at>> \in said
            /\ \A r \in obs.open : em.reqs[r].st = "pending" \/ em.reqs[r].st = "none"
            /\ \A r \in Reqs : em.reqs[r].st = "pending" => r \in obs.open
            /\ \A i \in DOMAIN em.msgs : em.msgs[i].role = "user" /\ news(em.msgs[i]) =>
                <<"message", em.msgs[i].id, em.msgs[i].at>> \in said
            /\ \A i \in DOMAIN em.errors : em.errors[i] > obs.began.errors => <<"agent.error", em.errors[i], 0>> \in said

\* What the receiver is told is told once and leaves nothing out (the
\* observer's seen marks against its replays).
ReceiverIsTold == ToldOnce /\ ToldAll

\* What arrives arrives in the order it was told, each event at most
\* MaxAttempts times, and nothing arrives that was not (enqueue, deliver).
ArrivesInOrder ==
    /\ \A i \in DOMAIN hook.got : hook.got[i] \in DOMAIN hook.said
    /\ \A i, j \in DOMAIN hook.got : i < j => hook.got[i] <= hook.got[j]
    /\ \A n \in DOMAIN hook.said : Cardinality({i \in DOMAIN hook.got : hook.got[i] = n}) <= MaxAttempts
=============================================================================
