-------------------------------- MODULE Hub --------------------------------
(***************************************************************************)
(* agentapi hub serve (lib/hub, cmd/hub/serve.go): the store of instances   *)
(* and the file that keeps it, the webhook events that add, move and stop   *)
(* them, the watch that follows each one's summary stream, the API of the   *)
(* page and its event stream, and the proxy to an instance.                 *)
(*                                                                         *)
(* `hub' is the process, `hubDisk' its two files, `hubPage' a browser with   *)
(* the hub's page open, `hubWorld' what answers at each URL, and what        *)
(* happened.  Instances are numbers, ordered as their IDs are.  Time is     *)
(* hub.now: the connect grace and a missed heartbeat are one tick of it.    *)
(***************************************************************************)
EXTENDS Naturals, Sequences, FiniteSets, SequencesExt, Functions

CONSTANT HubScopes   \* what happens in a behaviour: records of bounds

VARIABLES hub, hubDisk, hubPage, hubWorld, hubScope

hubVars == <<hub, hubDisk, hubPage, hubWorld, hubScope>>

Never == 99         \* a zero time.Time
PinLast == 99       \* pinLast: below every pinned instance
Nowhere == ""       \* an empty URL, and an empty token

\* A map with x at k.
Put(f, k, x) == [j \in DOMAIN f \cup {k} |-> IF j = k THEN x ELSE f[j]]

\* What a URL answers: the AgentAPI id, its run and what it does.
NoAnswer == [id |-> 0, run |-> 0, does |-> "idle"]
NoSummary == [run |-> 0, does |-> "none"]

-----------------------------------------------------------------------------
(* What an instance is, does and shows.                                      *)

NewInstance == [url |-> Nowhere, run |-> 0, source |-> "none", conn |-> "connecting", err |-> "", summary |-> NoSummary,
                answeredBy |-> 0, failed |-> FALSE, confirmed |-> Nowhere, token |-> Nowhere, pin |-> 0, group |-> "",
                muted |-> "", last |-> 0, hb |-> 0, changed |-> Never, activity |-> "", since |-> Never, spans |-> <<>>,
                heard |-> Never]

\* instanceapi.AttentionKey: what the instance waits for.
AttentionKey(s) == IF s.does \in {"login", "asks1", "asks2"} THEN s.does ELSE ""

\* instanceapi.StateOf
StateOf(i) ==
    CASE i.conn \in {"stopped", "unreachable"} -> i.conn
      [] i.conn \in {"connecting", "connected"} /\ i.summary = NoSummary -> "connecting"
      [] OTHER -> IF AttentionKey(i.summary) # "" THEN IF i.muted = AttentionKey(i.summary) THEN "muted" ELSE "needs-you"
                  ELSE IF i.summary.does = "exited" THEN "stopped" ELSE i.summary.does

Offline(i) == StateOf(i) \in {"stopped", "unreachable"}
Working(i) == StateOf(i) = "working" /\ i.conn = "connected"

\* activityKey: empty while the hub doesn't know what it does.
ActivityKey(i) ==
    IF i.conn \in {"stopped", "unreachable"} THEN i.conn
    ELSE IF i.summary = NoSummary THEN "" ELSE i.summary.does

\* seen, and its work time: what the browser gets of an instance.
Seen(i) == [url |-> i.url, run |-> i.run, source |-> i.source, conn |-> i.conn, err |-> i.err, summary |-> i.summary,
            state |-> StateOf(i), pin |-> i.pin, group |-> i.group, muted |-> i.muted, hb |-> i.hb,
            changed |-> i.changed, last |-> IF Offline(i) THEN i.last ELSE Never]
SentToPage(i) == [seen |-> Seen(i), since |-> i.since, spans |-> i.spans]

\* kept, and stored: what the file has of an instance.
Kept(i) == [url |-> i.url, run |-> i.run, source |-> i.source, stopped |-> i.conn = "stopped", confirmed |-> i.confirmed,
            token |-> i.token, pin |-> i.pin, group |-> i.group, muted |-> i.muted, hb |-> i.hb,
            changed |-> i.changed, activity |-> i.activity]
Stored(i) == [kept |-> Kept(i), last |-> i.last, since |-> i.since, spans |-> i.spans]

\* workLog.end: a span ends, unless it is empty.
EndSpan(i, end) ==
    [i EXCEPT !.spans = IF end > i.since THEN Append(@, <<i.since, end>>) ELSE @, !.since = Never]

\* workLog.track: one that ends with the stream ends when that last spoke.
Track(i, now) ==
    IF Working(i) /\ i.since = Never THEN [i EXCEPT !.since = now]
    ELSE IF ~Working(i) /\ i.since # Never THEN EndSpan(i, IF i.heard < now THEN i.heard ELSE now)
    ELSE i

-----------------------------------------------------------------------------
(* The store: every change is made, marked and told under its lock.          *)

Pinned(inst) == {id \in DOMAIN inst : inst[id].pin > 0}
Above(inst, j, id) == inst[j].pin < inst[id].pin \/ (inst[j].pin = inst[id].pin /\ j <= id)

\* numberPinsLocked: 1, 2, ... by pin, then by ID.
NumberPins(inst) ==
    [id \in DOMAIN inst |->
        IF inst[id].pin = 0 THEN inst[id]
        ELSE [inst[id] EXCEPT !.pin = Cardinality({j \in Pinned(inst) : Above(inst, j, id)})]]

Renumbered(was, inst, but) == {id \in DOMAIN inst \ {but} : id \in DOMAIN was /\ inst[id].pin # was[id].pin}

\* notifyLocked: a page that fell behind is dropped.
Notify(p, events) ==
    IF ~p.subscribed THEN p
    ELSE IF Len(p.queue) + Len(events) <= hubScope.cap THEN [p EXCEPT !.queue = @ \o events]
    ELSE [p EXCEPT !.subscribed = FALSE, !.queue = SubSeq(@ \o events, 1, hubScope.cap)]

\* What the page is told of the instances ids, in the order of their IDs.
InstanceEvents(inst, ids) ==
    LET nth(n) == CHOOSE id \in ids : Cardinality({j \in ids : j <= id}) = n
    IN  [n \in 1..Cardinality(ids) |-> <<"instance", nth(n), SentToPage(inst[nth(n)])>>]

\* persister.mark; without a --state file nothing is kept.
Mark(files, f, changed) == IF changed /\ hubScope.keep THEN [files EXCEPT ![f].pending = TRUE, ![f].nudge = TRUE] ELSE files

\* The change of an instance, with what update derives from it.
Known(i) == i.activity # "" \/ i.changed # Never
HubChanged(i, created) ==
    [i EXCEPT !.changed = IF created \/ (ActivityKey(i) \notin {"", i.activity} /\ Known(i)) THEN hub.now ELSE @,
              !.activity = IF ActivityKey(i) = "" THEN @ ELSE ActivityKey(i)]
HubSettled(i, created) == [Track(HubChanged(i, created), hub.now) EXCEPT !.heard = Never]
Before(id) == IF id \in DOMAIN hub.inst THEN hub.inst[id] ELSE NewInstance
WithInstance(id, to) ==
    LET inst == Put(hub.inst, id, HubSettled(to, id \notin DOMAIN hub.inst))
    IN  IF to.pin # Before(id).pin THEN NumberPins(inst) ELSE inst

\* update, once `change' made the instance `to', with the rest of the handler.
Update(id, to, calls, follows) ==
    LET inst    == WithInstance(id, to)
        created == id \notin DOMAIN hub.inst
        worked  == inst[id].since # Before(id).since
        told    == created \/ worked \/ Seen(inst[id]) # Seen(Before(id))
    IN  /\ hub' = [hub EXCEPT !.inst = inst, !.calls = calls, !.follows = follows,
                              !.files = Mark(@, "instances", created \/ worked \/ Kept(inst[id]) # Kept(Before(id)))]
        /\ hubPage' = Notify(hubPage, InstanceEvents(inst, IF told THEN {id} ELSE {})
                                       \o InstanceEvents(inst, Renumbered(hub.inst, inst, id)))

Serving == hub.up \in {"new", "running"}
Handling(c) == hub.up # "down" /\ c \in hub.calls
Begin(c) == hub.calls \cup {c}
CallDone(c) == hub.calls \ {c}
Then(c, pc) == CallDone(c) \cup {[c EXCEPT !.pc = pc]}
MayHandle == Serving /\ Cardinality(hub.calls) < 2

\* Stutters of what a handler leaves alone.
Still == UNCHANGED <<hubDisk, hubScope>>
Quietly == UNCHANGED <<hubDisk, hubPage, hubScope>>
Happened(f, x) == hubWorld' = [hubWorld EXCEPT ![f] = @ \cup {x}]
Spent(f) == hubWorld[f] < hubScope[f] /\ hubWorld' = [hubWorld EXCEPT ![f] = @ + 1]

-----------------------------------------------------------------------------
(* Hub.watch and Hub.follow.                                                 *)

NewFollow(n, id) == [n |-> n, id |-> id, live |-> TRUE, pc |-> "get", url |-> Nowhere, failing |-> Never, heard |-> Never, err |-> "", other |-> 0]

\* The end of a watch's context.  A watch that waits for a summary or for its
\* timer returns; one that is about to record a failure still does.
CancelFollows(follows) == {[f EXCEPT !.live = FALSE] : f \in {g \in follows : g.pc = "failed"}}
Cancelled(follows, n) == {f \in follows : f.n # n} \cup CancelFollows({f \in follows : f.n = n})
Numbers(h) == {f.n : f \in h.follows} \cup Range(h.watchers)
FreeNumber(h) == CHOOSE n \in 1..(Cardinality(Numbers(h)) + 1) : n \notin Numbers(h)

\* watch: nothing is followed before Run, nor once it ended.
Watch(h, id) ==
    LET rest == IF id \in DOMAIN h.watchers THEN Cancelled(h.follows, h.watchers[id]) ELSE h.follows
        n    == FreeNumber(h)
    IN  IF h.up # "running" THEN [h EXCEPT !.follows = rest]
        ELSE [h EXCEPT !.follows = rest \cup {NewFollow(n, id)}, !.watchers = Put(@, id, n)]

\* cancelWatchLocked
Unwatch(h, id) ==
    IF id \notin DOMAIN h.watchers THEN h
    ELSE [h EXCEPT !.follows = Cancelled(@, h.watchers[id]), !.watchers = Restrict(@, DOMAIN @ \ {id})]

\* As UnwatchStopped, but without looking at the instance again.
UnwatchAnyway(h, id) == Unwatch(h, id)

\* unwatchStopped: a new run may have started meanwhile.
UnwatchStopped(h, id) ==
    IF id \in DOMAIN h.inst /\ h.inst[id].conn # "stopped" THEN h ELSE Unwatch(h, id)

Without(f) == hub.follows \ {f}
To(f, g) == (hub.follows \ {f}) \cup {g}

\* The loop's head: the instance as it is now.
FollowGets(f) ==
    /\ f.pc = "get" /\ hub.up # "down"
    /\ hub' = [hub EXCEPT !.follows =
                  IF f.id \notin DOMAIN hub.inst \/ hub.inst[f.id].conn = "stopped" THEN Without(f)
                  ELSE To(f, [f EXCEPT !.pc = "read", !.url = hub.inst[f.id].url, !.heard = Never])]
    /\ Quietly /\ UNCHANGED hubWorld

\* applySummary: one that comes after the instance stopped, or from a URL it
\* left, is from a watch that ends.
ApplySummary(f, i, s) ==
    IF i.conn = "stopped" \/ i.url # f.url THEN i
    ELSE [i EXCEPT !.muted = IF @ = AttentionKey(s) THEN @ ELSE "", !.summary = s, !.conn = "connected", !.err = "",
                   !.answeredBy = 0, !.failed = FALSE, !.confirmed = f.url, !.last = hub.now, !.run = s.run]

\* readSummaries calls got with each summary.
FollowReads(f) ==
    /\ f.pc = "read" /\ hub.up # "down"
    /\ LET a == hubWorld.net[f.url]
           g == [f EXCEPT !.failing = Never, !.heard = hub.now]
       IN  /\ a.id = f.id
           /\ hubWorld' = [hubWorld EXCEPT !.answered = @ \cup {<<f.id, f.url>>},
                               !.dead = IF f.id \in DOMAIN hub.inst /\ hub.inst[f.id].conn = "stopped" THEN @ ELSE @ \ {<<f.id, f.url>>}]
           /\ IF f.id \in DOMAIN hub.inst
              THEN Update(f.id, ApplySummary(f, hub.inst[f.id], [run |-> a.run, does |-> a.does]), hub.calls, To(f, g))
              ELSE hub' = [hub EXCEPT !.follows = To(f, g)] /\ UNCHANGED hubPage
    /\ Still

\* The stream fails, ends or is another instance's; a live watch goes on.
FollowFails(f) ==
    /\ f.pc = "read" /\ hub.up # "down"
    /\ hubWorld.net[f.url].id # f.id
    /\ hub' = [hub EXCEPT !.follows = To(f, [f EXCEPT !.pc = "failed", !.failing = IF @ = Never THEN hub.now ELSE @,
                                                      !.err = IF hubWorld.net[f.url] = NoAnswer THEN "down" ELSE "other",
                                                      !.other = hubWorld.net[f.url].id])]
    /\ Quietly /\ UNCHANGED hubWorld

Missed(i) == i.source = "webhook" /\ i.hb > 0 /\ hub.now - i.last >= i.hb

\* streamFailed's change of the instance.
Failed(f, i) ==
    LET grace == hub.now = f.failing
        gone  == [i EXCEPT !.heard = f.heard]
    IN  IF ~f.live \/ i.conn = "stopped" THEN i
        ELSE IF ~grace /\ Missed(i) THEN [gone EXCEPT !.conn = "stopped", !.err = "", !.answeredBy = 0, !.failed = TRUE]
        ELSE IF f.err = "other" THEN [gone EXCEPT !.conn = "unreachable", !.err = f.err, !.answeredBy = f.other, !.failed = TRUE]
        ELSE IF grace THEN [gone EXCEPT !.conn = "connecting", !.err = f.err, !.answeredBy = 0]
        ELSE [gone EXCEPT !.conn = "unreachable", !.err = f.err, !.answeredBy = 0, !.failed = TRUE]

\* streamFailed: a watch whose instance counts as stopped ends.
FollowFailed(f) ==
    /\ f.pc = "failed" /\ hub.up # "down"
    /\ IF f.id \in DOMAIN hub.inst
       THEN LET i  == hub.inst[f.id]
                to == Failed(f, i)
            IN  /\ Update(f.id, to, hub.calls, IF ~f.live \/ (to.conn = "stopped" /\ i.conn # "stopped") THEN Without(f)
                                               ELSE To(f, [f EXCEPT !.pc = "wait"]))
                /\ hubWorld' = [hubWorld EXCEPT !.dead = IF to.failed /\ to # i THEN @ \cup {<<f.id, f.url>>} ELSE @,
                                                !.misjudged = @ \/ (to # i /\ i.url # f.url)]
       ELSE /\ hub' = [hub EXCEPT !.follows = IF f.live THEN To(f, [f EXCEPT !.pc = "wait"]) ELSE Without(f)]
            /\ UNCHANGED <<hubPage, hubWorld>>
    /\ Still

\* The retry timer.
FollowRetries(f) ==
    /\ f.pc = "wait" /\ hub.up # "down"
    /\ hub' = [hub EXCEPT !.follows = To(f, [f EXCEPT !.pc = "get", !.err = "", !.other = 0])]
    /\ Quietly /\ UNCHANGED hubWorld

-----------------------------------------------------------------------------
(* POST /hooks.                                                              *)

\* deliveries.add: the oldest go beyond seenDeliveries.
Remember(order, d) ==
    LET all == Append(order, d) IN SubSeq(all, IF Len(all) > hubScope.deliveries THEN 2 ELSE 1, Len(all))

\* receiveWebhook: a delivery the hub took before is answered, not handled.
Receives(d) ==
    /\ MayHandle /\ Spent("events")
    /\ IF d \in Range(hub.order) THEN UNCHANGED hub
       ELSE hub' = [hub EXCEPT !.order = Remember(@, d), !.files = Mark(@, "deliveries", TRUE),
                               !.calls = Begin([op |-> "event", d |-> d, id |-> hubScope.mail[d].id, pc |-> "handle"])]
    /\ Quietly

SameRun(i, e) == i.run \in {0, e.run}
Dead(i) == i.answeredBy # 0 \/ (i.failed /\ i.conn \in {"unreachable", "stopped"})

\* As RefuseMove, but an instance that the hub is connecting to moves.
RefuseFollowed(i) == i.source = "manual" \/ (~Dead(i) /\ i.conn # "connecting")

\* refuseMove: an instance moves only once the hub knows its URL is dead.
RefuseMove(i) == i.source = "manual" \/ ~Dead(i)

\* upsertFromWebhook's change, and whether the watch starts again.
Restarts(i, e) ==
    IF i.url \notin {Nowhere, e.url} /\ RefuseMove(i) THEN i.source # "manual" /\ i.conn = "stopped"
    ELSE i.url # e.url \/ i.run # e.run \/ i.conn = "stopped"
Upserted(i, e) ==
    LET moved == i.url \notin {Nowhere, e.url}
    IN  IF moved /\ RefuseMove(i)
        THEN IF Restarts(i, e) THEN [i EXCEPT !.conn = "connecting", !.err = ""] ELSE i
        ELSE [i EXCEPT !.token = IF moved THEN Nowhere ELSE @, !.run = e.run, !.url = e.url, !.hb = e.hb,
                       !.source = IF @ = "none" THEN "webhook" ELSE @, !.last = hub.now,
                       !.conn = IF Restarts(i, e) THEN "connecting" ELSE @, !.err = IF Restarts(i, e) THEN "" ELSE @,
                       !.failed = @ /\ ~Restarts(i, e), !.answeredBy = IF Restarts(i, e) THEN 0 ELSE @]

\* instance.started and instance.heartbeat
HubUpserts(c) ==
    /\ Handling(c) /\ c.op = "event" /\ c.pc = "handle"
    /\ LET e == hubScope.mail[c.d]
           i == Before(c.id)
       IN  /\ e.kind = "heartbeat"
           /\ Update(c.id, Upserted(i, e), IF Restarts(i, e) THEN Then(c, "watch") ELSE CallDone(c), hub.follows)
           /\ hubWorld' = [hubWorld EXCEPT !.applied[c.d] = @ + 1,
                               !.dead = IF Upserted(i, e).url # i.url THEN @ \ {<<c.id, e.url>>} ELSE @]
    /\ Still

\* instance.stopped, unless it is of another run or the instance was added by hand.
HubStopped(c) ==
    /\ Handling(c) /\ c.op = "event" /\ c.pc = "handle"
    /\ LET e == hubScope.mail[c.d]
           i == Before(c.id)
       IN  /\ e.kind = "stopped"
           /\ IF c.id \in DOMAIN hub.inst /\ SameRun(i, e) /\ i.source # "manual"
              THEN Update(c.id, [i EXCEPT !.conn = "stopped", !.err = "", !.answeredBy = 0, !.last = hub.now],
                          Then(c, "unwatch"), hub.follows)
              ELSE hub' = [hub EXCEPT !.calls = CallDone(c)] /\ UNCHANGED hubPage
           /\ hubWorld' = [hubWorld EXCEPT !.applied[c.d] = @ + 1]
    /\ Still

\* Any other event says that the instance is alive.
HubHears(c) ==
    /\ Handling(c) /\ c.op = "event" /\ c.pc = "handle"
    /\ LET e == hubScope.mail[c.d]
       IN  /\ e.kind = "other"
           /\ IF c.id \in DOMAIN hub.inst /\ SameRun(hub.inst[c.id], e)
              THEN Update(c.id, [hub.inst[c.id] EXCEPT !.last = hub.now], CallDone(c), hub.follows)
              ELSE hub' = [hub EXCEPT !.calls = CallDone(c)] /\ UNCHANGED hubPage
           /\ hubWorld' = [hubWorld EXCEPT !.applied[c.d] = @ + 1]
    /\ Still

\* The handler's last step: watch, or unwatchStopped, under watchMu.
HubWatches(c) ==
    /\ Handling(c) /\ c.pc = "watch"
    /\ hub' = [Watch(hub, c.id) EXCEPT !.calls = CallDone(c)]
    /\ Quietly /\ UNCHANGED hubWorld
HubUnwatches(c) ==
    /\ Handling(c) /\ c.pc = "unwatch"
    /\ hub' = [UnwatchStopped(hub, c.id) EXCEPT !.calls = CallDone(c)]
    /\ Quietly /\ UNCHANGED hubWorld

-----------------------------------------------------------------------------
(* The API of the page.                                                      *)

\* addInstance asks the URL who it is; one that doesn't answer is refused.
HubAdds(u) ==
    /\ MayHandle /\ Spent("adds")
    /\ LET a == hubWorld.net[u]
       IN  hub' = IF a = NoAnswer THEN hub
                  ELSE [hub EXCEPT !.calls = Begin([op |-> "add", id |-> a.id, url |-> u, pc |-> "check",
                                                    summary |-> [run |-> a.run, does |-> a.does]])]
    /\ Quietly

\* 409 for an instance the hub has elsewhere.
AddChecks(c) ==
    /\ Handling(c) /\ c.pc = "check"
    /\ hub' = [hub EXCEPT !.calls = IF Before(c.id).url \in {Nowhere, c.url} THEN Then(c, "update") ELSE CallDone(c)]
    /\ Quietly /\ UNCHANGED hubWorld

AddUpdates(c) ==
    /\ Handling(c) /\ c.pc = "update"
    /\ Update(c.id, [Before(c.id) EXCEPT !.run = c.summary.run, !.url = c.url, !.token = c.url, !.source = "manual",
                                         !.last = hub.now, !.summary = c.summary, !.conn = "connected", !.err = "",
                                         !.confirmed = c.url, !.failed = FALSE, !.answeredBy = 0],
              Then(c, "watch"), hub.follows)
    /\ hubWorld' = [hubWorld EXCEPT !.answered = @ \cup {<<c.id, c.url>>}, !.dead = @ \ {<<c.id, c.url>>},
                                    !.raced = @ \/ Before(c.id).url \notin {Nowhere, c.url}]
    /\ Still

\* removeInstance: unwatch, then the store forgets it and its pin.
HubRemoves(id) ==
    /\ MayHandle /\ Spent("removes") /\ id \in DOMAIN hub.inst
    /\ hub' = [Unwatch(hub, id) EXCEPT !.calls = Begin([op |-> "remove", id |-> id, pc |-> "remove"])]
    /\ Quietly
HubForgets(c) ==
    /\ Handling(c) /\ c.pc = "remove"
    /\ LET inst == NumberPins(Restrict(hub.inst, DOMAIN hub.inst \ {c.id}))
       IN  IF c.id \notin DOMAIN hub.inst THEN hub' = [hub EXCEPT !.calls = CallDone(c)] /\ UNCHANGED hubPage
           ELSE /\ hub' = [hub EXCEPT !.inst = inst, !.calls = CallDone(c), !.files = Mark(@, "instances", TRUE)]
                /\ hubPage' = Notify(hubPage, <<<<"removed", c.id>>>> \o InstanceEvents(inst, Renumbered(hub.inst, inst, c.id)))
    /\ UNCHANGED <<hubDisk, hubWorld, hubScope>>

\* updateInstance: a mute with nothing to mute changes nothing.
Patched(i, p) ==
    IF p.mute = "on" /\ AttentionKey(i.summary) = "" THEN i
    ELSE [i EXCEPT !.muted = CASE p.mute = "on" -> AttentionKey(i.summary) [] p.mute = "off" -> "" [] OTHER -> @,
                   !.group = IF p.group = "keep" THEN @ ELSE p.group,
                   !.pin = CASE p.pin = "off" -> 0 [] p.pin = "on" /\ @ = 0 -> PinLast [] OTHER -> @]
HubPatches(id, p) ==
    /\ MayHandle /\ Spent("patches") /\ id \in DOMAIN hub.inst
    /\ Update(id, Patched(hub.inst[id], p), hub.calls, hub.follows)
    /\ Still

\* setPins: a list that isn't exactly the pinned ones changes nothing.
HubSetsPins(ids) ==
    /\ MayHandle /\ Spent("patches") /\ IsInjective(ids)
    /\ LET inst == [id \in DOMAIN hub.inst |->
                      IF id \in Range(ids) THEN [hub.inst[id] EXCEPT !.pin = CHOOSE n \in DOMAIN ids : ids[n] = id] ELSE hub.inst[id]]
           moved == Renumbered(hub.inst, inst, 0)
       IN  IF Range(ids) # Pinned(hub.inst) THEN UNCHANGED <<hub, hubPage>>
           ELSE /\ hub' = [hub EXCEPT !.inst = inst, !.files = Mark(@, "instances", moved # {})]
                /\ hubPage' = Notify(hubPage, InstanceEvents(inst, moved))
    /\ Still

\* setFavorites
HubSetsFavorites(favorites) ==
    /\ MayHandle /\ Spent("patches") /\ favorites # hub.favorites
    /\ hub' = [hub EXCEPT !.favorites = favorites, !.files = Mark(@, "instances", TRUE)]
    /\ hubPage' = Notify(hubPage, <<<<"favorites", favorites>>>>)
    /\ Still

\* proxy: only to a URL where the hub reads the instance's summary.
MayProxy(i) == i.answeredBy = 0 /\ i.conn = "connected"
HubProxies(id) ==
    /\ hubScope.proxy /\ Serving /\ id \in DOMAIN hub.inst /\ MayProxy(hub.inst[id])
    /\ Happened("proxied", <<id, hub.inst[id].url>>)
    /\ UNCHANGED hub /\ Quietly

-----------------------------------------------------------------------------
(* The page's event stream: the instances and the favorites, then changes.   *)

Shown(inst) == [id \in DOMAIN inst |-> SentToPage(inst[id])]
NoPage == [subscribed |-> FALSE, queue |-> <<>>, view |-> <<>>, favorites |-> ""]
PageOpens ==
    /\ Serving /\ ~hubPage.subscribed /\ hubPage.queue = <<>> /\ Spent("opens")
    /\ hubPage' = [subscribed |-> TRUE, queue |-> <<>>, view |-> Shown(hub.inst), favorites |-> hub.favorites]
    /\ UNCHANGED <<hub, hubDisk, hubScope>>
PageTakes ==
    /\ hubPage.queue # <<>>
    /\ LET e == Head(hubPage.queue)
           p == [hubPage EXCEPT !.queue = Tail(@)]
       IN  hubPage' = CASE e[1] = "removed" -> [p EXCEPT !.view = Restrict(@, DOMAIN @ \ {e[2]})]
                        [] e[1] = "favorites" -> [p EXCEPT !.favorites = e[2]]
                        [] e[1] = "instance" -> [p EXCEPT !.view = Put(@, e[2], e[3])]
    /\ UNCHANGED <<hub, hubDisk, hubWorld, hubScope>>

-----------------------------------------------------------------------------
(* The two files, written in the background.                                 *)

Files == {"instances", "deliveries"}
NewFile == [pending |-> FALSE, nudge |-> FALSE, writing |-> "no", closed |-> FALSE]
Snapshot(f) ==
    IF f = "deliveries" THEN [order |-> hub.order]
    ELSE [instances |-> [id \in DOMAIN hub.inst |-> Stored(hub.inst[id])], favorites |-> hub.favorites]

\* flush, in the background once nudged, and as the hub closes.
FileBegins(f) ==
    /\ hub.up # "down" /\ hub.files[f].writing = "no"
    /\ hub.files[f].pending /\ ~hub.files[f].closed /\ (hub.files[f].nudge \/ hub.up = "closing")
    /\ hub' = [hub EXCEPT !.files[f] = [hub.files[f] EXCEPT !.pending = FALSE, !.nudge = FALSE, !.writing = "taken"]]
    /\ Quietly /\ UNCHANGED hubWorld

\* The snapshot is of the store as it is now; the write is atomic, or fails.
FileWrites(f, ok) ==
    /\ hub.up # "down" /\ hub.files[f].writing = "taken"
    /\ ok \/ hubWorld.faults < hubScope.faults
    /\ hub' = [hub EXCEPT !.files[f] = [hub.files[f] EXCEPT !.writing = "no", !.pending = @ \/ ~ok, !.closed = hub.up = "closing"]]
    /\ hubDisk' = IF ok THEN [hubDisk EXCEPT ![f] = Snapshot(f)] ELSE hubDisk
    /\ hubWorld' = [hubWorld EXCEPT !.faults = IF ok THEN @ ELSE @ + 1]
    /\ UNCHANGED <<hubPage, hubScope>>

\* The state file was edited by hand, or is another hub's.
FileEdited(data) ==
    /\ hub.up = "down" /\ Spent("edits")
    /\ hubDisk' = [hubDisk EXCEPT !.instances = data]
    /\ UNCHANGED <<hub, hubPage, hubScope>>

-----------------------------------------------------------------------------
(* agentapi hub serve: New, Run and Close.                                   *)

Damaged == [damaged |-> TRUE]
Newer == [newer |-> TRUE]
NoFile == [instances |-> <<>>, favorites |-> ""]

\* storedWork.log: a span that a killed hub left ends when it last knew.
Restored(s) ==
    LET k == s.kept
        i == [NewInstance EXCEPT !.url = IF k.confirmed # Nowhere /\ k.source # "manual" THEN k.confirmed ELSE k.url,
                !.run = k.run, !.source = k.source, !.conn = IF k.stopped THEN "stopped" ELSE "connecting",
                !.confirmed = k.confirmed, !.token = k.token, !.pin = k.pin, !.group = k.group, !.muted = k.muted,
                !.hb = k.hb, !.changed = k.changed, !.activity = k.activity, !.last = s.last, !.since = s.since, !.spans = s.spans]
    IN  IF s.since = Never THEN i ELSE EndSpan(i, s.last)

NewHub(up, inst, favorites, order, now) ==
    [up |-> up, now |-> now, inst |-> inst, favorites |-> favorites, order |-> order, calls |-> {}, follows |-> {},
     watchers |-> <<>>, starting |-> {}, files |-> [f \in Files |-> NewFile]]

\* newStore: a file that doesn't parse is set aside; a newer hub's stops it.
HubStarts ==
    /\ hub.up = "down" /\ hubDisk.instances # Newer /\ Spent("starts")
    /\ LET file == IF hubDisk.instances = Damaged THEN NoFile ELSE hubDisk.instances
           inst == NumberPins([id \in DOMAIN file.instances |-> Restored(file.instances[id])])
       IN  /\ hub' = NewHub("new", inst, file.favorites, hubDisk.deliveries.order, hub.now)
           /\ hubDisk' = [hubDisk EXCEPT !.instances = file, !.bak = IF hubDisk.instances = Damaged THEN @ ELSE file]
    /\ UNCHANGED <<hubPage, hubScope>>

\* Run: the instances it kept are followed.
HubRuns ==
    /\ hub.up = "new"
    /\ hub' = [hub EXCEPT !.up = "running", !.starting = {id \in DOMAIN hub.inst : hub.inst[id].conn # "stopped"}]
    /\ Quietly /\ UNCHANGED hubWorld
HubRunWatches(id) ==
    /\ hub.up = "running" /\ id \in hub.starting
    /\ hub' = [Watch(hub, id) EXCEPT !.starting = @ \ {id}]
    /\ Quietly /\ UNCHANGED hubWorld

\* The signal ends every watch; the browsers' streams are closed.
HubStops ==
    /\ hub.up = "running" /\ hub.starting = {} /\ Spent("stops")
    /\ hub' = [hub EXCEPT !.up = "stopping", !.follows = CancelFollows(@)]
    /\ hubPage' = NoPage
    /\ UNCHANGED <<hubDisk, hubScope>>

\* Close, once the watches returned or took too long: the spans of work end.
HubCloses ==
    /\ hub.up = "stopping"
    /\ LET working == {id \in DOMAIN hub.inst : hub.inst[id].since # Never}
       IN  hub' = [hub EXCEPT !.up = "closing", !.files = Mark(@, "instances", working # {}),
                              !.inst = [id \in DOMAIN @ |-> IF id \in working THEN EndSpan(@[id], hub.now) ELSE @[id]]]
    /\ Quietly /\ UNCHANGED hubWorld

Down == NewHub("down", <<>>, "", <<>>, hub.now)
HubExits ==
    /\ hub.up = "closing" /\ \A f \in Files : hub.files[f].writing = "no" /\ (hub.files[f].closed \/ ~hub.files[f].pending)
    /\ hub' = Down
    /\ UNCHANGED <<hubDisk, hubPage, hubWorld, hubScope>>
HubKilled ==
    /\ hub.up # "down" /\ Spent("kills")
    /\ hub' = Down /\ hubPage' = NoPage
    /\ UNCHANGED <<hubDisk, hubScope>>

\* The world: what answers at a URL changes, and time passes.
HubWorldTurns(u, a) ==
    /\ hubWorld.turns < hubScope.turns /\ hubWorld.net[u] # a
    /\ hubWorld' = [hubWorld EXCEPT !.net[u] = a, !.turns = @ + 1]
    /\ UNCHANGED hub /\ Quietly
HubTicks ==
    /\ Spent("ticks") /\ hub' = [hub EXCEPT !.now = @ + 1]
    /\ Quietly

\* What the code makes sure of, and the model's bounds: an event and a page
\* that name no URL are refused (receiveWebhook, addInstance), time ends
\* before Never, and a file that was edited has the rows a hub writes, from
\* before the behaviour.
RowIsSound(row) ==
    /\ row.kept.url # Nowhere /\ row.kept.source \in {"webhook", "manual"}
    /\ row.kept.token # Nowhere => row.kept.source = "manual" /\ row.kept.token = row.kept.url
FileIsSound(file) == \A id \in DOMAIN file.instances : RowIsSound(file.instances[id])
IsID(id) == id \in Nat \ {0}
RowIsOld(row) == row.kept.pin \in Nat /\ row.last = 0 /\ row.since \in {0, Never} /\ row.spans = <<>>
FileIsOld(file) ==
    /\ IsFiniteSet(DOMAIN file.instances)
    /\ \A id \in DOMAIN file.instances : IsID(id) /\ RowIsOld(file.instances[id])
ASSUME HubAssumption ==
    \A sc \in HubScopes :
        /\ sc.up \in {"new", "running", "down"} /\ sc.keep \in BOOLEAN /\ sc.deliveries \in Nat /\ sc.cap \in Nat
        /\ sc.mail \in Seq(Range(sc.mail)) /\ \A d \in DOMAIN sc.mail : sc.mail[d].url # Nowhere /\ IsID(sc.mail[d].id)
        /\ Nowhere \notin DOMAIN sc.net /\ \A a \in Range(sc.net) \cup sc.answers : a = NoAnswer \/ IsID(a.id)
        /\ sc.ticks \in Nat /\ sc.ticks < Never /\ \A ids \in sc.orders : ids \in Seq(Nat)
        /\ \A data \in sc.files : data \in {Damaged, Newer} \/ (FileIsSound(data) /\ FileIsOld(data))

HubInit ==
    /\ hubScope \in HubScopes
    /\ hub = NewHub(hubScope.up, <<>>, "", <<>>, 0)
    /\ hubDisk = [instances |-> NoFile, deliveries |-> [order |-> <<>>], bak |-> NoFile]
    /\ hubPage = NoPage
    /\ hubWorld = [net |-> hubScope.net, answered |-> {}, proxied |-> {}, dead |-> {}, misjudged |-> FALSE, raced |-> FALSE,
                   applied |-> [d \in DOMAIN hubScope.mail |-> 0], turns |-> 0, ticks |-> 0, events |-> 0, adds |-> 0,
                   removes |-> 0, patches |-> 0, opens |-> 0, faults |-> 0, edits |-> 0, starts |-> 0, stops |-> 0, kills |-> 0]

HubFollows ==
    \E f \in hub.follows : FollowGets(f) \/ FollowReads(f) \/ FollowFails(f) \/ FollowFailed(f) \/ FollowRetries(f)
HubHandles ==
    \E c \in hub.calls : \/ HubUpserts(c) \/ HubStopped(c) \/ HubHears(c) \/ HubWatches(c) \/ HubUnwatches(c)
                         \/ AddChecks(c) \/ AddUpdates(c) \/ HubForgets(c)
HubAsked ==
    \/ \E d \in DOMAIN hubScope.mail : Receives(d)
    \/ \E u \in DOMAIN hubScope.net : HubAdds(u)
    \/ \E id \in DOMAIN hub.inst : HubRemoves(id) \/ HubProxies(id) \/ (\E p \in hubScope.patch : HubPatches(id, p))
    \/ \E ids \in hubScope.orders : HubSetsPins(ids)
    \/ \E v \in hubScope.favorites : HubSetsFavorites(v)
HubKeeps ==
    \/ \E f \in Files : FileBegins(f) \/ (\E ok \in BOOLEAN : FileWrites(f, ok))
    \/ \E data \in hubScope.files : FileEdited(data)
HubLives == HubStarts \/ HubRuns \/ (\E id \in hub.starting : HubRunWatches(id)) \/ HubStops \/ HubCloses \/ HubExits \/ HubKilled
HubNext ==
    \/ HubFollows \/ HubHandles \/ HubAsked \/ HubKeeps \/ HubLives \/ PageOpens \/ PageTakes \/ HubTicks
    \/ \E u \in DOMAIN hubScope.net, a \in hubScope.answers : HubWorldTurns(u, a)

HubSpec == HubInit /\ [][HubNext]_hubVars

-----------------------------------------------------------------------------
(* What the hub promises.                                                    *)

\* Once no handler is between its change of the store and its change of the
\* watches, each instance is followed by one live watch, whichever way the
\* events of its runs, its failures and the page's requests interleaved; a
\* stopped one by none but a watch that is about to see it.
HubFollowsEach ==
    hub.up = "running" /\ hub.starting = {} /\ hub.calls = {} =>
        \A id \in DOMAIN hub.inst :
            LET live == {f \in hub.follows : f.id = id /\ f.live}
            IN  IF hub.inst[id].conn = "stopped" THEN \A f \in live : f.pc = "get" ELSE Cardinality(live) = 1

\* A page that took all of its events shows the instances as they are, with
\* their pins and work, and the favorites: what update tells of a change by
\* comparing, renumbering and tracking is all there is to tell.
HubPageIsCurrent ==
    hubPage.subscribed /\ hubPage.queue = <<>> => hubPage.view = Shown(hub.inst) /\ hubPage.favorites = hub.favorites

\* The pinned instances are numbered 1, 2, ... without gaps or twins.
HubPinsAreDense ==
    {hub.inst[id].pin : id \in Pinned(hub.inst)} = 1..Cardinality(Pinned(hub.inst))

\* A span of work goes on exactly while the hub sees the instance work; the
\* spans that ended follow one another.
HubWorkIsSeen ==
    \A id \in DOMAIN hub.inst :
        LET i == hub.inst[id]
        IN  /\ hub.up \in {"new", "running"} => (i.since # Never <=> Working(i))
            /\ \A n \in DOMAIN i.spans : i.spans[n][1] < i.spans[n][2] /\ i.spans[n][2] <= hub.now
            /\ \A n \in 2..Len(i.spans) : i.spans[n - 1][2] <= i.spans[n][1]

\* While nothing waits to be written, a hub that starts again has every
\* instance as this one has it, and the favorites; changes that come during
\* a write, or a write that fails, leave one waiting.
AfterStart(stored) == [id \in DOMAIN stored |-> Kept(Restored(stored[id]))]
HubFileIsCurrent ==
    hubScope.keep /\ hub.up # "down" /\ ~hub.files["instances"].pending /\ hub.files["instances"].writing = "no" =>
        /\ NumberPins(AfterStart(hubDisk.instances.instances)) = AfterStart(Snapshot("instances").instances)
        /\ hubDisk.instances.favorites = hub.favorites

\* An event that is delivered again is not handled again, across a restart
\* too, unless the hub was killed or remembers too few of them.
HubTakesOnce ==
    hubScope.keep /\ hubWorld.kills = 0 /\ hubWorld.faults = 0 /\ Len(hubScope.mail) <= hubScope.deliveries =>
        \A d \in DOMAIN hubScope.mail : hubWorld.applied[d] <= 1

\* The proxy sends an instance's requests, and its token, only to a URL that
\* answered the hub as that instance; a token only to the URL it was given for.
HubProxiesHome ==
    /\ hubWorld.proxied \subseteq hubWorld.answered
    /\ \A id \in DOMAIN hub.inst : hub.inst[id].token \in {Nowhere, hub.inst[id].url}

\* A mute of an instance that joined ends with what was muted.
HubMuteEnds ==
    \A id \in DOMAIN hub.inst :
        LET i == hub.inst[id]
        IN  i.source = "webhook" /\ i.muted # "" /\ i.summary # NoSummary => i.muted = AttentionKey(i.summary)

\* An instance moves only once its watch failed where it is past the connect
\* grace, or another answered there, and nothing it said from there was taken
\* since; one added by hand never does.  Two known races aside: a watch of
\* the URL it left that fails late (misjudged), and one that is added while
\* an event adds it elsewhere (raced).
HubMove ==
    hub.up # "down" /\ hub'.up # "down" =>
        \A id \in DOMAIN hub.inst \cap DOMAIN hub'.inst :
            hub'.inst[id].url # hub.inst[id].url =>
                \/ hub.inst[id].source # "manual" /\ <<id, hub.inst[id].url>> \in hubWorld.dead
                \/ hubWorld.misjudged \/ hubWorld'.raced
HubMovesTheDead == [][HubMove]_hubVars

=============================================================================
