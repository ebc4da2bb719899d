------------------------------- MODULE Events -------------------------------
(***************************************************************************)
(* The conversation's state and its events (EventEmitter, lib/convstate),  *)
(* the streams that send them (subscribeEvents, lib/httpapi/sse.go), the   *)
(* clients that follow a stream and resume it (the chat's SyncTracker),    *)
(* and the state database the emitter stores its changes in and is         *)
(* restored from.                                                          *)
(*                                                                         *)
(* Every method of the emitter runs under its lock and is one action.  A   *)
(* method is an operator from the state `em' to the state after it, which  *)
(* collects the events it sends (out), the writes it queues (wr), whether  *)
(* it ends the conversation's subscriptions (ends) and whether the grace   *)
(* timer is set (arms) or the summary changed without an event (marks);    *)
(* Commit hands these on.  silent: messages were removed since the last    *)
(* event.  The native conversation, which calls the emitter, is            *)
(* TurnControl's: here it says and takes back what it may.                 *)
(*                                                                         *)
(* Left out: the timeline (EmitSessionEvents), the counters of the status  *)
(* (turn, handoffRevision), heartbeats, when a conversation was seen.      *)
(***************************************************************************)
EXTENDS TaskTracker, StateFile, FiniteSets, FiniteSetsExt, TLC

CONSTANTS
    Clients,     \* the subscribers of GET /events
    Kind,        \* what each asks for: "sync", "plain" (no sync) or "summary"; the
                 \* webhook's "observer" reads the emitter itself
    Rich,        \* the keys of rich messages
    Reqs,        \* the agent's requests
    MaxClosed,   \* native.MaxClosedRequests
    MaxErrors,   \* maxStoredErrors
    InfoFields,  \* what the status also carries: "name" (the session's), "usage", ...
    MaxMsgs,     \* bound: the messages of a conversation
    Scenarios    \* bounds, a set of records; a behaviour keeps to one of them:
                 \*   clients, rich, reqs  the clients, keys and requests that occur
                 \*   msgs, body, seq, time, queue, reports, errors, resets, starts, faults  how many
                 \*   statuses, lifecycles, infos, stops  what the agent and the server report
                 \*   buf  subscriptionBufSize
                 \*   db  whether AgentAPI has a state database

VARIABLES
    em,       \* EventEmitter: see EmptyEmitter
    subs,     \* EventEmitter.chans and the streams that read them
    client,   \* what each client holds
    file,     \* the state database: rows, pending, clean, lost, failing
    up,       \* AgentAPI runs
    timer,    \* EventEmitter.taskTimer is set
    queue,    \* the message queue: its content and its version
    reports,  \* the changes of it that SetQueue wasn't told yet
    clock,    \* the time
    epochs,   \* how many epochs were made
    past,     \* what the bounds count
    lim       \* the scenario

eventVars == <<em, subs, client, file, up, timer, queue, reports, clock, epochs, past, lim>>
outside == <<queue, reports, lim>>

NoEpoch == 0
NoSummary == [none |-> TRUE]
NoRequest == [st |-> "none", seq |-> 0]
NoRich == [seq |-> 0, task |-> -1, at |-> 0, done |-> FALSE]

EmptyEmitter(epoch, now) ==
    [epoch |-> epoch, seq |-> 0,
     msgs |-> << >>, mseq |-> << >>,
     rich |-> [k \in Rich |-> NoRich],
     reqs |-> [r \in Reqs |-> NoRequest],
     trk |-> NewTracker(now), tseq |-> [i \in 0 .. MaxMsgs |-> 0],
     queue |-> 0, queueVersion |-> 0, queueSeq |-> 0,
     status |-> "running", lifecycle |-> "starting", held |-> FALSE, reported |-> "starting",
     info |-> [f \in InfoFields |-> 0], limitAt |-> 0, retryAt |-> 0,
     errors |-> << >>, errorCount |-> 0,
     sent |-> NoSummary, silent |-> FALSE,
     extra |-> 0,
     out |-> << >>, wr |-> << >>, ends |-> FALSE, arms |-> FALSE, marks |-> FALSE]

----------------------------------------------------------------------------
\* The emitter's methods.

Notify(e, ev) == [e EXCEPT !.out = Append(@, ev)]
Update(type, which, val, seq) == [type |-> type, key |-> <<type, which>>, val |-> val, seq |-> seq]
Write(e, ops) == [e EXCEPT !.wr = @ \o ops]
SetSeq(e) == Write(e, << Put(<<"meta", "epoch">>, e.epoch), Put(<<"meta", "seq">>, e.seq) >>)

Pending(e) == Cardinality({r \in Reqs : e.reqs[r].st = "pending"})

\* statusChangeBody.
StatusBody(e) ==
    [status |-> e.status, lifecycle |-> e.lifecycle, pending |-> Pending(e),
     limitAt |-> e.limitAt, retryAt |-> e.retryAt, info |-> e.info]
StatusEvent(e) == [type |-> "status", val |-> StatusBody(e), seq |-> 0]

AgentOf(e) == [status |-> e.status, lifecycle |-> e.lifecycle, pending |-> Pending(e),
               limitAt |-> e.limitAt, retryAt |-> e.retryAt]

\* tasksStoredLocked: the tasks a method of the tracker changed get the next
\* seqs and are stored.
StoreTask(e, i) ==
    LET task == e.trk.tasks[i]
        s == e.seq + 1
    IN  Write([e EXCEPT !.seq = s, !.tseq[task.id] = s],
              << Put(<<"task", task.id>>, [task |-> task, seq |-> s]) >>)
TasksStored(e) ==
    LET f == FoldLeft(StoreTask, e, e.trk.changed)
    IN  IF e.trk.changed = << >> THEN e ELSE SetSeq(f)

\* tasksChangedLocked: and are sent.
TaskUpdate(e, i) == Update("task", e.trk.tasks[i].id, e.trk.tasks[i], e.tseq[e.trk.tasks[i].id])
TasksChanged(e) ==
    LET f == TasksStored(e)
        sent == [i \in DOMAIN e.trk.changed |-> TaskUpdate(f, e.trk.changed[i])]
    IN  [f EXCEPT !.out = @ \o sent, !.trk.changed = << >>]

\* notifyStatusLocked.
NotifyStatus(e) ==
    LET f == Notify(e, StatusEvent(e))
        g == TasksChanged([f EXCEPT !.trk = StatusChanged(@, AgentOf(e))])
    IN  [g EXCEPT !.arms = @ \/ ToConfirm(e.trk, AgentOf(e))]

\* resyncLocked: a change that clients can't apply as an update.
Resync(e, epoch) == [SetSeq([e EXCEPT !.epoch = epoch]) EXCEPT !.ends = TRUE]

\* Where the IDs stop matching: the messages from there on were removed or
\* replaced by others.
Cut(old, new) ==
    LET both == 1 .. Min({Len(old), Len(new)})
    IN  Min({Min({Len(old), Len(new)}) + 1} \cup {i \in both : old[i].id # new[i].id})
Differing(old, new) == {i \in DOMAIN new : i > Len(old) \/ old[i] # new[i]}

\* The messages at `differs' get the next seqs, are stored and sent.
StampMessages(e, new, differs, cut) ==
    LET removed == cut <= Len(e.msgs)
        at == SelectSeq([i \in DOMAIN new |-> i], LAMBDA i : i \in differs)
        seqOf(i) == e.seq + Cardinality({j \in differs : j <= i})
        puts == [k \in DOMAIN at |-> Put(<<"msg", new[at[k]].id>>, [msg |-> new[at[k]], seq |-> seqOf(at[k])])]
        sent == [k \in DOMAIN at |-> Update("msg", new[at[k]].id, new[at[k]], seqOf(at[k]))]
    IN  [Write(e, (IF removed THEN << Truncate(e.msgs[cut].id) >> ELSE << >>) \o puts) EXCEPT
            !.seq = @ + Len(at), !.msgs = new,
            !.mseq = [i \in DOMAIN new |-> IF i \in differs THEN seqOf(i) ELSE e.mseq[i]],
            !.trk = Messages(@, new, Min({Len(new) + 1} \cup differs)),
            !.out = IF removed THEN @ ELSE @ \o sent]

\* Removed messages took their tasks along: the clients load it all again.
AfterMessages(f, removed, epoch) ==
    IF ~removed THEN SetSeq(TasksChanged(f))
    ELSE [Resync(TasksStored([f EXCEPT !.tseq = [i \in DOMAIN @ |-> IF Owner(f.trk, i) = 0 THEN 0 ELSE @[i]]]), epoch)
            EXCEPT !.trk.changed = << >>]

EmitMessages(e, new, epoch) ==
    AfterMessages(StampMessages(e, new, Differing(e.msgs, new), Cut(e.msgs, new)),
                  Cut(e.msgs, new) <= Len(e.msgs), epoch)

\* upsertRichLocked: a message belongs to the task it began in.  It starts
\* with a tool's call, and has the tool's result once it comes again.
UpsertRich(e, k, now) ==
    LET task == IF e.rich[k].task # -1 THEN e.rich[k].task ELSE TaskAt(e.trk, now)
        known == e.rich[k].seq > 0
        val == [seq |-> e.seq + 1, task |-> task, at |-> IF known THEN e.rich[k].at ELSE now, done |-> known]
    IN  Write([e EXCEPT !.seq = @ + 1, !.rich[k] = val], << Put(<<"rich", k>>, val) >>)
SendRich(e, k) == Notify(e, Update("rich", k, e.rich[k], e.seq))
EmitRichMessage(e, k, now) == SendRich(SetSeq(UpsertRich(e, k, now)), k)

\* LoadRichMessages: a long session's messages end the subscriptions instead.
LoadRichMessages(e, ks, now) ==
    LET stream == Len(ks) <= lim.buf \div 4
        one(f, k) == IF stream THEN SendRich(UpsertRich(f, k, now), k) ELSE UpsertRich(f, k, now)
    IN  IF ks = << >> THEN e
        ELSE [SetSeq(FoldLeft(one, e, ks)) EXCEPT !.ends = @ \/ ~stream]

\* trimRequestsLocked: of the closed requests those that closed first go.
ExcessClosed(reqs) ==
    LET closed == {r \in DOMAIN reqs : reqs[r].st = "closed"}
    IN  {r \in closed : Cardinality({s \in closed : reqs[s].seq > reqs[r].seq}) >= MaxClosed}

EmitRequest(e, r, st) ==
    LET f == SetSeq(Write([e EXCEPT !.seq = @ + 1, !.reqs[r] = [st |-> st, seq |-> e.seq + 1]],
                          << Put(<<"req", r>>, [st |-> st, seq |-> e.seq + 1]) >>))
        drop == ExcessClosed(f.reqs)
        g == Write([f EXCEPT !.reqs = [q \in Reqs |-> IF q \in drop THEN NoRequest ELSE @[q]]],
                   SetToSeq({Del(<<"req", q>>) : q \in drop}))
        h == Notify(g, Update("req", r, f.reqs[r], f.seq))
    IN  IF e.reqs[r].st = "none" /\ st # "pending" THEN e
        ELSE IF Pending(h) # Pending(e) THEN NotifyStatus(h) ELSE h

\* SetQueue drops a change reported after a newer one.
SetQueue(e, val, version) ==
    LET f == SetSeq([e EXCEPT !.queue = val, !.queueVersion = version,
                              !.seq = @ + 1, !.queueSeq = e.seq + 1])
    IN  IF version <= e.queueVersion THEN e
        ELSE Notify(f, Update("queue", 0, val, f.seq))

LifecycleOf(status) ==
    CASE status = "initializing" -> "starting" [] status = "stable" -> "ready" [] OTHER -> "running"

\* EmitStatus: the lifecycle the server holds stays.
EmitStatus(e, status) ==
    LET f == [e EXCEPT !.reported = LifecycleOf(status),
                       !.status = IF status = "stable" THEN "stable" ELSE "running",
                       !.lifecycle = IF e.held THEN @ ELSE LifecycleOf(status)]
    IN  IF f.status = e.status /\ f.lifecycle = e.lifecycle THEN f ELSE NotifyStatus(f)

SetLifecycle(e, lifecycle) ==
    LET f == [e EXCEPT !.held = lifecycle \in {"restarting", "exited", "failed"},
                       !.lifecycle = lifecycle]
    IN  IF e.lifecycle = lifecycle THEN f ELSE NotifyStatus(f)

ReleaseLifecycle(e) ==
    LET f == [e EXCEPT !.held = FALSE, !.lifecycle = e.reported]
    IN  IF ~e.held THEN e ELSE IF e.lifecycle = e.reported THEN f ELSE NotifyStatus(f)

\* SetSessionName, SetAgentSessionID, SetCapabilities, SetSettings, SetUsage,
\* SetLoginRequired.  The state database has the name; the others are stored
\* by the conversation.
SetInfo(e, field, v) ==
    LET f == [e EXCEPT !.info[field] = v]
    IN  IF e.info[field] = v THEN e
        ELSE NotifyStatus(IF field = "name" THEN Write(f, << Put(<<"meta", "name">>, v) >>) ELSE f)
SetLimitStop(e, at) == IF e.limitAt = at THEN e ELSE NotifyStatus([e EXCEPT !.limitAt = at])
SetRetryWait(e, at) == IF e.retryAt = at THEN e ELSE NotifyStatus([e EXCEPT !.retryAt = at])

\* MarkSeen, SetSpend, SetUpdate, SummaryChanged: what only the summary
\* carries.
SetExtra(e, v) == IF e.extra = v THEN e ELSE [e EXCEPT !.extra = v, !.marks = TRUE]

EmitError(e) ==
    LET n == e.errorCount + 1
        kept == Append(e.errors, n)
        f == [e EXCEPT !.errorCount = n,
                       !.errors = SubSeq(kept, Max({1, Len(kept) - MaxErrors + 1}), Len(kept))]
        g == Notify(f, [type |-> "error", val |-> n, seq |-> 0])
    IN  TasksChanged([g EXCEPT !.trk = AgentError(@)])

\* SendingMessage, and the grace timer.
EndTaskIfIdle(e) == TasksChanged([e EXCEPT !.trk = EndIfIdle(@)])

\* Reset keeps the seq and the queue.
SyncEvent(e, full, seq) == [type |-> "sync", val |-> [epoch |-> e.epoch, full |-> full], seq |-> seq]
Reset(e, epoch, now) ==
    LET f == [e EXCEPT !.epoch = epoch, !.msgs = << >>, !.mseq = << >>,
                       !.rich = [k \in Rich |-> NoRich], !.reqs = [r \in Reqs |-> NoRequest],
                       !.trk = ResetTracker(@, now), !.tseq = [i \in DOMAIN @ |-> 0],
                       !.errors = << >>,
                       !.info = [x \in InfoFields |-> IF x = "name" THEN 0 ELSE @[x]]]
    IN  Notify(Write(f, << ResetRows, Put(<<"meta", "epoch">>, epoch) >>), SyncEvent(f, TRUE, 0))

\* summaryLocked.
Summary(e) ==
    LET n == Len(e.trk.tasks)
    IN  [body |-> StatusBody(e), extra |-> e.extra, queued |-> e.queue, tasks |-> n,
         task |-> IF n = 0 THEN NoSummary ELSE e.trk.tasks[n]]

----------------------------------------------------------------------------
\* Subscriptions.

Wants(c, type) ==
    CASE Kind[c] = "sync" -> type # "summary"
      [] Kind[c] = "plain" -> type \notin {"summary", "sync", "task", "queue"}
      [] Kind[c] = "observer" -> type # "summary"
      [] Kind[c] = "summary" -> type = "summary"
WantsConversation(c) == \E type \in {"msg", "rich", "req", "task", "queue"} : Wants(c, type)

NoSub == [st |-> "none", replay |-> << >>, buf |-> << >>, id |-> 0]

\* notifyChannels: a subscription whose buffer is full ends.
Push(s, ev) ==
    IF s.st # "open" THEN s
    ELSE IF Len(s.buf) < lim.buf THEN [s EXCEPT !.buf = Append(@, ev)]
    ELSE [s EXCEPT !.st = "closed"]
PushAll(c, s, evs) == FoldLeft(Push, s, SelectSeq(evs, LAMBDA ev : Wants(c, ev.type)))

EndSub(s) == IF s.st = "open" THEN [s EXCEPT !.st = "closed"] ELSE s

\* sendSummaryLocked, as the lock is released: the events show that the state
\* changed.
SummaryWanted(ss) == \E c \in Clients : ss[c].st = "open" /\ Wants(c, "summary")

\* unlock, after a method that left the emitter as e.  db: the state
\* database.
Commit(e, db) ==
    LET sent == [c \in Clients |-> PushAll(c, subs[c], e.out)]
        ended == [c \in Clients |-> IF e.ends /\ WantsConversation(c) THEN EndSub(sent[c]) ELSE sent[c]]
        changed == e.out # << >> \/ e.marks
        wanted == SummaryWanted(ended)
        news == changed /\ wanted /\ Summary(e) # e.sent
        ev == [type |-> "summary", val |-> Summary(e), seq |-> 0]
    IN  /\ em' = [e EXCEPT !.out = << >>, !.wr = << >>, !.ends = FALSE, !.arms = FALSE, !.marks = FALSE,
                           !.silent = ~changed /\ (@ \/ e.ends),
                           !.sent = IF changed /\ ~wanted THEN NoSummary
                                    ELSE IF news THEN Summary(e) ELSE @]
        /\ subs' = IF news THEN [c \in Clients |-> PushAll(c, ended[c], << ev >>)] ELSE ended
        /\ file' = [db EXCEPT !.pending = IF lim.db THEN EnqueueAll(@, e.wr) ELSE @]

\* currentStateAsEvents.  The replay is grouped by kind; its session_sync has
\* the highest seq in it, and only its last event carries an SSE id.
ReplayAfter(e, c, since) ==
    LET own(type) == Wants(c, type)
        msgs == SelectSeq([i \in DOMAIN e.msgs |-> i], LAMBDA i : e.mseq[i] > since)
        richs == SetToSeq({k \in Rich : e.rich[k].seq > since})
        reqs == SetToSeq({r \in Reqs : e.reqs[r].seq > since})
        tasks == SelectSeq([i \in DOMAIN e.trk.tasks |-> i], LAMBDA i : e.tseq[e.trk.tasks[i].id] > since)
    IN  SelectSeq([i \in DOMAIN msgs |-> Update("msg", e.msgs[msgs[i]].id, e.msgs[msgs[i]], e.mseq[msgs[i]])],
                  LAMBDA ev : own("msg"))
        \o (IF own("status") THEN << StatusEvent(e) >> ELSE << >>)
        \o SelectSeq([i \in DOMAIN e.errors |-> [type |-> "error", val |-> e.errors[i], seq |-> 0]],
                     LAMBDA ev : own("error"))
        \o SelectSeq([i \in DOMAIN richs |-> Update("rich", richs[i], e.rich[richs[i]], e.rich[richs[i]].seq)],
                     LAMBDA ev : own("rich"))
        \o SelectSeq([i \in DOMAIN reqs |-> Update("req", reqs[i], e.reqs[reqs[i]], e.reqs[reqs[i]].seq)],
                     LAMBDA ev : own("req"))
        \o (IF own("queue") /\ e.queueSeq > since THEN << Update("queue", 0, e.queue, e.queueSeq) >> ELSE << >>)
        \o SelectSeq([i \in DOMAIN tasks |-> TaskUpdate(e, tasks[i])], LAMBDA ev : own("task"))
        \o (IF own("summary") THEN << [type |-> "summary", val |-> Summary(e), seq |-> 0] >> ELSE << >>)

Replay(e, c, since, epoch) ==
    LET full == epoch # e.epoch \/ since = 0 \/ since > e.seq
        from == IF full THEN 0 ELSE since
        body == ReplayAfter(e, c, from)
        seq == Max({from} \cup {body[i].seq : i \in DOMAIN body})
    IN  IF Wants(c, "sync") THEN << SyncEvent(e, full, seq) >> \o body ELSE body

----------------------------------------------------------------------------
\* What the native conversation and the server call.

FreshClient == [epoch |-> NoEpoch, wm |-> 0, end |-> 0, view |-> << >>, status |-> NoSummary,
                summary |-> NoSummary, stale |-> FALSE]

EventsInit ==
    /\ lim \in Scenarios
    /\ em = EmptyEmitter(1, 1)
    /\ subs = [c \in Clients |-> NoSub]
    /\ client = [c \in Clients |-> FreshClient]
    /\ file = [rows |-> NoRows, clean |-> FALSE, lost |-> FALSE, failing |-> FALSE,
               pending |-> IF lim.db THEN << Put(<<"meta", "epoch">>, 1), Put(<<"meta", "seq">>, 0) >> ELSE << >>]
    /\ up = TRUE
    /\ timer = FALSE
    /\ reports = {}
    /\ clock = 1
    /\ epochs = 1
    /\ queue = [val |-> 0, version |-> 0]
    /\ past = [opened |-> {}, reports |-> 0, resets |-> 0, starts |-> 0, faults |-> 0]

\* A call of the emitter.
Do(e) ==
    /\ up
    /\ Commit(e, file)
    /\ timer' = (timer \/ e.arms)
    /\ UNCHANGED up

Numbered == em.seq < lim.seq

NextID == IF em.msgs = << >> THEN 0 ELSE Last(em.msgs).id + 1
Message(role, at) == [id |-> NextID, role |-> role, at |-> at, body |-> 1]

\* beginTurnLocked and Steer append the user's message.
UserSays ==
    /\ Numbered /\ NextID < lim.msgs /\ clock < lim.time
    /\ Do(EmitMessages(em, Append(em.msgs, Message("user", clock + 1)), epochs + 1))
    /\ clock' = clock + 1
    /\ UNCHANGED <<client, outside, epochs, past>>

\* addRich: the agent's text starts an agent message, or grows it.
AgentStarts ==
    /\ Numbered /\ NextID < lim.msgs
    /\ Do(EmitMessages(em, Append(em.msgs, Message("agent", clock)), epochs + 1))
    /\ UNCHANGED <<client, outside, clock, epochs, past>>
AgentGrows ==
    LET n == Len(em.msgs)
    IN  /\ Numbered /\ n > 0 /\ em.msgs[n].role = "agent" /\ em.msgs[n].body < lim.body
        /\ Do(EmitMessages(em, [em.msgs EXCEPT ![n].body = @ + 1], epochs + 1))
        /\ UNCHANGED <<client, outside, clock, epochs, past>>

\* deliverTurn takes back the message of a turn that failed to start.
TakenBack ==
    LET i == SelectLastInSeq(em.msgs, LAMBDA m : m.role = "user")
    IN  /\ Numbered /\ i > 0 /\ em.msgs[i].at >= em.trk.since
        /\ Do(EmitMessages(em, RemoveAt(em.msgs, i), epochs + 1))
        /\ epochs' = epochs + 1
        /\ UNCHANGED <<client, outside, clock, past>>

RichSays(k) ==
    /\ Numbered
    /\ Do(EmitRichMessage(em, k, clock))
    /\ UNCHANGED <<client, outside, clock, epochs, past>>

RequestOpens(r) ==
    /\ Numbered /\ r \notin past.opened
    /\ Do(EmitRequest(em, r, "pending"))
    /\ past' = [past EXCEPT !.opened = @ \cup {r}]
    /\ UNCHANGED <<client, outside, clock, epochs>>
\* Also one that a reset cleared: the replaced agent's requests expire.
RequestCloses(r) ==
    /\ Numbered /\ r \in past.opened /\ em.reqs[r].st # "closed"
    /\ Do(EmitRequest(em, r, "closed"))
    /\ UNCHANGED <<client, outside, clock, epochs, past>>

\* A change of the queue; its onChange runs once the queue's lock is
\* released, so two changes can be reported in either order.
QueueChanges ==
    /\ up /\ queue.val < lim.queue
    /\ queue' = [val |-> queue.val + 1, version |-> queue.version + 1]
    /\ reports' = reports \cup {queue'}
    /\ UNCHANGED <<em, subs, client, file, up, timer, clock, epochs, past, lim>>
QueueReported(q) ==
    /\ Numbered
    /\ Do(SetQueue(em, q.val, q.version))
    /\ reports' = reports \ {q}
    /\ UNCHANGED <<client, queue, clock, epochs, past, lim>>

\* What the agent and the server report without a seq.
Reported ==
    /\ past.reports < lim.reports
    /\ past' = [past EXCEPT !.reports = @ + 1]

StatusReported(status) ==
    /\ EmitStatus(em, status) # em
    /\ Do(EmitStatus(em, status))
    /\ Reported
    /\ UNCHANGED <<client, outside, clock, epochs>>
LifecycleSet(lifecycle) ==
    /\ SetLifecycle(em, lifecycle) # em
    /\ Do(SetLifecycle(em, lifecycle))
    /\ Reported
    /\ UNCHANGED <<client, outside, clock, epochs>>
LifecycleReleased ==
    /\ em.held
    /\ Do(ReleaseLifecycle(em))
    /\ Reported
    /\ UNCHANGED <<client, outside, clock, epochs>>
InfoSet(field, v) ==
    /\ em.info[field] # v
    /\ Do(SetInfo(em, field, v))
    /\ Reported
    /\ UNCHANGED <<client, outside, clock, epochs>>
ExtraSet(v) ==
    /\ em.extra # v
    /\ Do(SetExtra(em, v))
    /\ Reported
    /\ UNCHANGED <<client, outside, clock, epochs>>
\* A limit stopped the turn, or it failed and is tried again; or neither is
\* so any more.
LimitStops ==
    /\ "limit" \in lim.stops
    /\ \E at \in {0, clock} : em.limitAt # at /\ Do(SetLimitStop(em, at))
    /\ Reported
    /\ UNCHANGED <<client, outside, clock, epochs>>
RetryWaits ==
    /\ "retry" \in lim.stops
    /\ \E at \in {0, clock} : em.retryAt # at /\ Do(SetRetryWait(em, at))
    /\ Reported
    /\ UNCHANGED <<client, outside, clock, epochs>>
ErrorReported ==
    /\ em.errorCount < lim.errors
    /\ Do(EmitError(em))
    /\ UNCHANGED <<client, outside, clock, epochs, past>>
SendingMessage ==
    /\ EndIfIdle(em.trk) # em.trk
    /\ Do(EndTaskIfIdle(em))
    /\ UNCHANGED <<client, outside, clock, epochs, past>>

\* taskEndGrace after the agent stopped waiting.
GraceEnds ==
    /\ timer /\ up
    /\ Commit(EndTaskIfIdle(em), file)
    /\ timer' = FALSE
    /\ UNCHANGED <<client, up, outside, clock, epochs, past>>

\* forgetConversationLocked, with the replaced agent's conversation.
Forgotten ==
    /\ em.lifecycle = "restarting" /\ past.resets < lim.resets /\ clock < lim.time
    /\ Do(Reset(em, epochs + 1, clock + 1))
    /\ clock' = clock + 1 /\ epochs' = epochs + 1
    /\ past' = [past EXCEPT !.resets = @ + 1]
    /\ UNCHANGED <<client, outside>>

\* resumeSession: a stored session's history takes the place of what was
\* forgotten, the rich messages first.
SessionLoaded ==
    /\ Numbered /\ past.resets > 0 /\ em.msgs = << >> /\ \A k \in Rich : em.rich[k].seq = 0
    /\ \E ks \in {SetToSeq(S) : S \in SUBSET lim.rich \ {{}}} : Do(LoadRichMessages(em, ks, 0))
    /\ UNCHANGED <<client, outside, clock, epochs, past>>
HistoryLoaded ==
    /\ Numbered /\ past.resets > 0 /\ em.msgs = << >> /\ lim.msgs >= 2
    /\ Do(EmitMessages(em, << [id |-> 0, role |-> "user", at |-> 0, body |-> 1],
                              [id |-> 1, role |-> "agent", at |-> 0, body |-> 1] >>, epochs + 1))
    /\ UNCHANGED <<client, outside, clock, epochs, past>>

----------------------------------------------------------------------------
\* The streams and the clients.

\* SubscribeTo: the replay and the subscription are one step.
Subscribe(c) ==
    LET cl == client[c]
        since == IF Kind[c] = "sync" THEN cl.wm ELSE 0
        replay == Replay(em, c, since, IF Kind[c] = "sync" THEN cl.epoch ELSE NoEpoch)
    IN  /\ up /\ subs[c].st = "none"
        /\ subs' = [subs EXCEPT ![c] = [st |-> "open", replay |-> replay, buf |-> << >>,
                                        id |-> IF Kind[c] = "sync" THEN replay[1].seq ELSE 0]]
        /\ em' = IF Wants(c, "summary") /\ em.sent = NoSummary THEN [em EXCEPT !.sent = Summary(em)] ELSE em
        /\ UNCHANGED <<client, file, up, timer, outside, clock, epochs, past>>

\* Mutant: the client keeps requests the server trimmed.
MergeAll(view, key, val) == (key :> val) @@ view

\* mergeRequests keeps the bound the server keeps.
MergeView(view, key, val) ==
    LET new == (key :> val) @@ view
        closed == {k \in DOMAIN new : k[1] = "req" /\ new[k].st = "closed"}
        excess == {k \in closed : Cardinality({j \in closed : new[j].seq > new[k].seq}) >= MaxClosed}
    IN  IF key[1] = "req" THEN [k \in DOMAIN new \ excess |-> new[k]] ELSE new

\* SyncTracker.begin, noteEvent and applied: the watermark moves to the
\* replay's seq with the first event that carries an id, and then with every
\* change.  A full replay takes the place of all but the queue.
Take(cl, ev, id) ==
    LET full == ev.val.full \/ ev.val.epoch # cl.epoch
        wm == IF full THEN 0 ELSE cl.wm
        end == IF ev.seq > wm THEN ev.seq ELSE 0
        done == cl.end # 0 /\ id # 0
        at == IF done THEN Max({cl.wm, cl.end}) ELSE cl.wm
    IN  CASE ev.type = "sync" ->
                [cl EXCEPT !.epoch = ev.val.epoch,
                           !.view = IF full THEN [k \in DOMAIN @ \cap {<<"queue", 0>>} |-> @[k]] ELSE @,
                           !.wm = IF end # 0 /\ id = ev.seq THEN end ELSE wm,
                           !.end = IF id = ev.seq THEN 0 ELSE end,
                           !.stale = ~full]
          [] ev.type = "summary" -> [cl EXCEPT !.summary = ev.val]
          [] OTHER ->
                [cl EXCEPT !.wm = IF done \/ cl.end = 0 THEN Max({at, ev.seq}) ELSE @,
                           !.end = IF done THEN 0 ELSE @,
                           !.status = IF ev.type = "status" THEN ev.val ELSE @,
                           !.view = IF ev.seq # 0 THEN MergeView(@, ev.key, ev.val) ELSE @]

\* subscribeEvents sends an event: of the replay, of which only the last
\* carries an id, then of the subscription.
Deliver(c) ==
    LET s == subs[c]
        sync == Kind[c] = "sync"
    IN  /\ up
        /\ \/ /\ s.replay # << >>
              /\ client' = [client EXCEPT ![c] = Take(@, Head(s.replay), IF sync /\ Len(s.replay) = 1 THEN s.id ELSE 0)]
              /\ subs' = [subs EXCEPT ![c].replay = Tail(@)]
           \/ /\ s.replay = << >> /\ s.buf # << >>
              /\ client' = [client EXCEPT ![c] = Take(@, Head(s.buf), IF sync THEN Head(s.buf).seq ELSE 0)]
              /\ subs' = [subs EXCEPT ![c].buf = Tail(@)]
        /\ UNCHANGED <<em, file, up, timer, outside, clock, epochs, past>>

\* The channel was closed, or the connection was lost: the client connects
\* again.
StreamEnds(c) ==
    /\ up
    /\ subs[c].st = "open" \/ (subs[c].st = "closed" /\ subs[c].replay = << >> /\ subs[c].buf = << >>)
    /\ subs' = [subs EXCEPT ![c] = NoSub]
    /\ UNCHANGED <<em, client, file, up, timer, outside, clock, epochs, past>>

\* mergeListedRequests, after a replay that held only changes: a request that
\* closed and was trimmed meanwhile is gone from the server.
RequestsListed(c) ==
    LET listed == {k \in DOMAIN client[c].view : k[1] = "req" => em.reqs[k[2]].st # "none"}
    IN  /\ up /\ client[c].stale /\ client[c].end = 0
        /\ client' = [client EXCEPT ![c].stale = FALSE,
                                    ![c].view = [k \in listed |-> @[k]]]
        /\ UNCHANGED <<em, subs, file, up, timer, outside, clock, epochs, past>>

----------------------------------------------------------------------------
\* The state database, and AgentAPI's end and start.

\* write, and a batch it gives up after writeAttempts; what is lost is
\* reported once.
Written ==
    /\ up /\ file.pending # << >>
    /\ file' = [file EXCEPT !.rows = ApplyWrites(@, file.pending), !.pending = << >>, !.failing = FALSE]
    /\ UNCHANGED <<em, subs, client, up, timer, outside, clock, epochs, past>>
BatchLost ==
    /\ up /\ file.pending # << >> /\ past.faults < lim.faults
    /\ Commit(IF file.failing THEN em ELSE EmitError(em),
              [file EXCEPT !.pending = << >>, !.lost = TRUE, !.failing = TRUE])
    /\ past' = [past EXCEPT !.faults = @ + 1]
    /\ UNCHANGED <<client, up, timer, outside, clock, epochs>>

Down ==
    /\ up' = FALSE /\ timer' = FALSE /\ reports' = {}
    /\ subs' = [c \in Clients |-> NoSub]
    /\ UNCHANGED <<em, client, queue, clock, epochs, lim>>

\* Close writes what is pending and marks the file, unless changes were lost.
Stopped ==
    /\ up /\ past.starts < lim.starts
    /\ Down
    /\ file' = [file EXCEPT !.rows = ApplyWrites(@, file.pending), !.pending = << >>, !.clean = ~file.lost]
    /\ UNCHANGED past
Crashed ==
    /\ up /\ past.starts < lim.starts /\ past.faults < lim.faults
    /\ Down
    /\ file' = [file EXCEPT !.pending = << >>]
    /\ past' = [past EXCEPT !.faults = @ + 1]

Meta(rows, name, default) == IF <<"meta", name>> \in DOMAIN rows THEN rows[<<"meta", name>>] ELSE default

\* emitterStateFromSnapshot: the seq is the highest that any row has.
HighestSeq(rows) ==
    Max({Meta(rows, "seq", 0)} \cup {rows[k].seq : k \in {x \in DOMAIN rows : x[1] \in ConversationTables}})

\* Restore; the queue's Restore then reports the queue as its first change.
SortedIds(rows, table) == SetToSortSeq({k[2] : k \in RowsOf(rows, table)}, <)
WithTasks(e, rows, trk) ==
    LET kept(id) == \E i \in DOMAIN trk.tasks : trk.tasks[i].id = id
        dropped == SelectSeq(SortedIds(rows, "task"), LAMBDA id : ~kept(id))
    IN  TasksChanged(Write([e EXCEPT !.trk = trk,
                                     !.tseq = [i \in DOMAIN @ |-> IF kept(i) THEN rows[<<"task", i>>].seq ELSE 0]],
                           [i \in DOMAIN dropped |-> Del(<<"task", dropped[i]>>)]))
RestoredEmitter(rows, epoch, now) ==
    LET ids == SortedIds(rows, "msg")
        tids == SortedIds(rows, "task")
        e == [EmptyEmitter(epoch, now) EXCEPT
                !.seq = HighestSeq(rows),
                !.msgs = [i \in DOMAIN ids |-> rows[<<"msg", ids[i]>>].msg],
                !.mseq = [i \in DOMAIN ids |-> rows[<<"msg", ids[i]>>].seq],
                !.rich = [k \in Rich |-> IF <<"rich", k>> \in DOMAIN rows THEN rows[<<"rich", k>>] ELSE NoRich],
                !.reqs = [r \in Reqs |-> IF <<"req", r>> \in DOMAIN rows THEN rows[<<"req", r>>] ELSE NoRequest],
                !.info = [f \in InfoFields |-> IF f = "name" THEN Meta(rows, "name", 0) ELSE 0]]
        stored == [i \in DOMAIN tids |-> rows[<<"task", tids[i]>>].task]
    IN  WithTasks(e, rows, Restored(stored, [i \in DOMAIN ids |-> rows[<<"msg", ids[i]>>].msg], now))

\* The requests of the agent that is gone expire.
Expire(e) ==
    FoldLeft(LAMBDA f, r : EmitRequest(f, r, "closed"), e,
             SetToSeq({r \in Reqs : e.reqs[r].st = "pending"}))

\* Mutant: the epoch is kept after an unclean end too.
RestoreKeepsEpoch(rows, clean, fresh, now) ==
    LET known == <<"meta", "epoch">> \in DOMAIN rows
    IN  IF known THEN Expire(RestoredEmitter(rows, rows[<<"meta", "epoch">>], now))
        ELSE SetSeq(EmptyEmitter(fresh, now))

\* restoreState: after an unclean end the conversation gets a new epoch, as
\* the seqs that were lost are given out again.
RestoreState(rows, clean, fresh, now) ==
    LET known == <<"meta", "epoch">> \in DOMAIN rows
        epoch == IF known /\ clean THEN rows[<<"meta", "epoch">>] ELSE fresh
    IN  IF ~known THEN SetSeq(EmptyEmitter(fresh, now))
        ELSE Expire(Write(RestoredEmitter(rows, epoch, now),
                          IF clean THEN << >> ELSE << Put(<<"meta", "epoch">>, epoch), Put(<<"meta", "seq">>, HighestSeq(rows)) >>))

StartWith(e) ==
    /\ em' = [e EXCEPT !.out = << >>, !.wr = << >>, !.arms = FALSE]
    /\ file' = [file EXCEPT !.pending = IF lim.db THEN EnqueueAll(<< >>, e.wr) ELSE << >>,
                            !.clean = FALSE, !.lost = FALSE, !.failing = FALSE]
Started ==
    /\ ~up
    /\ up' = TRUE
    /\ StartWith(SetQueue(RestoreState(file.rows, file.clean, epochs + 1, clock + 1), queue.val, 1))
    /\ queue' = [queue EXCEPT !.version = 1]
    /\ clock' = clock + 1 /\ epochs' = epochs + 1
    /\ past' = [past EXCEPT !.starts = @ + 1]
    /\ UNCHANGED <<subs, client, timer, reports, lim>>

EventsNext ==
    \/ UserSays \/ AgentStarts \/ AgentGrows \/ TakenBack
    \/ \E k \in lim.rich : RichSays(k)
    \/ \E r \in lim.reqs : RequestOpens(r) \/ RequestCloses(r)
    \/ QueueChanges
    \/ \E q \in reports : QueueReported(q)
    \/ \E status \in lim.statuses : StatusReported(status)
    \/ \E lifecycle \in lim.lifecycles : LifecycleSet(lifecycle)
    \/ LifecycleReleased
    \/ \E f \in InfoFields, v \in lim.infos : InfoSet(f, v)
    \/ \E v \in lim.infos : ExtraSet(v)
    \/ LimitStops \/ RetryWaits \/ ErrorReported \/ SendingMessage \/ GraceEnds
    \/ Forgotten \/ SessionLoaded \/ HistoryLoaded
    \/ \E c \in lim.clients : Subscribe(c) \/ Deliver(c) \/ StreamEnds(c) \/ RequestsListed(c)
    \/ Written \/ BatchLost \/ Stopped \/ Crashed \/ Started

EventsSpec == EventsInit /\ [][EventsNext]_eventVars

----------------------------------------------------------------------------
\* Properties.

\* What a client that has everything holds.
ServerView(e) ==
    [k \in {<<"msg", e.msgs[i].id>> : i \in DOMAIN e.msgs}
           \cup {<<"rich", r>> : r \in {x \in Rich : e.rich[x].seq > 0}}
           \cup {<<"req", r>> : r \in {x \in Reqs : e.reqs[x].st # "none"}}
           \cup {<<"task", e.trk.tasks[i].id>> : i \in DOMAIN e.trk.tasks}
           \cup {<<"queue", 0>> : x \in {y \in {0} : e.queueSeq > 0}}
        |-> CASE k[1] = "msg" -> e.msgs[At(e.msgs, k[2])]
              [] k[1] = "rich" -> e.rich[k[2]]
              [] k[1] = "req" -> e.reqs[k[2]]
              [] k[1] = "task" -> e.trk.tasks[SelectInSeq(e.trk.tasks, LAMBDA t : t.id = k[2])]
              [] k[1] = "queue" -> e.queue]

SeqOfKey(e, k) ==
    CASE k[1] = "msg" -> e.mseq[At(e.msgs, k[2])]
      [] k[1] = "rich" -> e.rich[k[2]].seq
      [] k[1] = "req" -> e.reqs[k[2]].seq
      [] k[1] = "task" -> e.tseq[k[2]]
      [] k[1] = "queue" -> e.queueSeq

\* The requests a client holds as pending although they closed and were
\* trimmed while it was away, until it lists them.
Held(c) == {k \in DOMAIN client[c].view : client[c].stale => ~(k[1] = "req" /\ em.reqs[k[2]].st = "none")}

\* A client with the subscription open that received all that was sent to it
\* holds exactly the conversation the server has, and its status: however
\* often its stream ended before, the conversation was reset or a message
\* taken back, and AgentAPI restarted (Subscribe, notifyChannels,
\* currentStateAsEvents).  A summary stream learns of a message that was
\* taken back with the next event only.
DrainedIsCurrent ==
    \A c \in Clients :
        (up /\ subs[c].st = "open" /\ subs[c].replay = << >> /\ subs[c].buf = << >>) =>
            /\ Kind[c] = "sync" =>
                /\ em.lifecycle # "restarting" => client[c].status = StatusBody(em)
                /\ client[c].epoch = em.epoch
                /\ [k \in Held(c) \ {<<"queue", 0>>} |-> client[c].view[k]]
                     = [k \in DOMAIN ServerView(em) \ {<<"queue", 0>>} |-> ServerView(em)[k]]
            /\ Kind[c] = "summary" => em.silent \/ client[c].summary = Summary(em)

\* A client may resume from where it says it is: it holds everything of its
\* epoch up to its watermark as the server has it, and nothing that the
\* server no longer has, also while it is away (?since=, session_sync).
ResumesFromWhatItHolds ==
    \A c \in Clients :
        (up /\ Kind[c] = "sync" /\ client[c].epoch = em.epoch /\ client[c].wm > 0) =>
            /\ client[c].wm <= em.seq
            /\ \A k \in DOMAIN ServerView(em) :
                SeqOfKey(em, k) <= client[c].wm =>
                    k \in DOMAIN client[c].view /\ client[c].view[k] = ServerView(em)[k]
            /\ \A k \in DOMAIN client[c].view \ DOMAIN ServerView(em) :
                k[1] = "req" \/ k[1] = "queue"

\* The rows that the state database has once it wrote what is pending.
RowsOfEmitter(e) ==
    [k \in DOMAIN ServerView(e) \ {<<"queue", 0>>} |->
        CASE k[1] = "msg" -> [msg |-> ServerView(e)[k], seq |-> SeqOfKey(e, k)]
          [] k[1] = "task" -> [task |-> ServerView(e)[k], seq |-> SeqOfKey(e, k)]
          [] OTHER -> ServerView(e)[k]]

\* What is stored and what is about to be is the conversation, row by row,
\* with its epoch and a seq that no later change uses again: coalesced
\* writes, truncations and resets lose and keep nothing they should not
\* (Persister, enqueueLocked).
StoredIsTheConversation ==
    LET rows == ApplyWrites(file.rows, file.pending)
    IN  (up /\ lim.db /\ ~file.lost) =>
            /\ [k \in {x \in DOMAIN rows : x[1] \in ConversationTables} |-> rows[k]] = RowsOfEmitter(em)
            /\ Meta(rows, "epoch", 0) = em.epoch
            /\ HighestSeq(rows) = em.seq

\* The tasks are those of the user's messages: each is in exactly one, at
\* most one task runs and it is the latest, and going through all messages
\* again would change nothing (messages' short way, derive).
TasksFollowTheMessages ==
    LET users == {em.msgs[i].id : i \in {j \in DOMAIN em.msgs : em.msgs[j].role = "user"}}
        running == {i \in DOMAIN em.trk.tasks : ~Final(em.trk.tasks[i])}
    IN  ~em.trk.rederive =>
            /\ \A id \in users : Cardinality({i \in DOMAIN em.trk.tasks :
                    em.trk.tasks[i].id = id \/ id \in em.trk.tasks[i].steered}) = 1
            /\ running = {em.trk.open} \ {0}
            /\ Derive(em.trk, em.msgs).tasks = em.trk.tasks
=============================================================================
