--------------------------- MODULE Webhook_proofs ---------------------------
(***************************************************************************)
(* Proof that the webhook's events arrive in the order they were told, each *)
(* at most MaxAttempts times and none that was not told, for every length   *)
(* of the queue, number of attempts and history of the conversation.        *)
(*                                                                         *)
(* The dispatcher takes one event at a time: the IDs that wait are above    *)
(* the one being delivered, which is above or equal to all that arrived,    *)
(* and it arrived at most once for each attempt that ended.  What the       *)
(* observer makes of an event of the emitter matters only in that it is a   *)
(* sequence of webhook events.                                              *)
(***************************************************************************)
EXTENDS Webhook, FiniteSetTheorems, TLAPS

\* How often the event with ID n arrived.
Arrivals(got, n) == {i \in DOMAIN got : got[i] = n}

\* The dispatcher, of which S has the events.
Hooks(S) ==
    [wanted : BOOLEAN, queue : Seq(Nat), now : Seq(Nat), attempt : Nat, said : Seq(S), got : Seq(Nat),
     phase : {"on", "stopping", "ended"}, configs : Nat, beats : Nat, sends : Nat]

\* What an observer tells is a sequence of events.
IsSeq(s) == \E S : s \in Seq(S)
Tells(o) == "tells" \in DOMAIN o /\ IsSeq(o.tells)

\* The queue h.queue is in the order of the IDs, and has no other.
QueueInOrder(h) ==
    /\ Len(h.queue) <= QueueSize
    /\ \A i \in DOMAIN h.queue : 1 <= h.queue[i] /\ h.queue[i] <= Len(h.said)
    /\ \A i, j \in DOMAIN h.queue : i < j => h.queue[i] < h.queue[j]

\* So is what arrived, before all that waits.
GotInOrder(h) ==
    /\ \A i \in DOMAIN h.got : 1 <= h.got[i] /\ h.got[i] <= Len(h.said)
    /\ \A i, j \in DOMAIN h.got : i < j => h.got[i] <= h.got[j]
    /\ \A i \in DOMAIN h.got, j \in DOMAIN h.queue : h.got[i] < h.queue[j]

\* The event being delivered is between the two, and arrived at most once for
\* each attempt before this one.
NowInOrder(h) ==
    /\ Len(h.now) <= 1
    /\ h.now # << >> =>
        /\ 1 <= h.now[1] /\ h.now[1] <= Len(h.said)
        /\ \A i \in DOMAIN h.got : h.got[i] <= h.now[1]
        /\ \A j \in DOMAIN h.queue : h.now[1] < h.queue[j]
        /\ 1 <= h.attempt /\ h.attempt <= MaxAttempts
        /\ Cardinality(Arrivals(h.got, h.now[1])) < h.attempt

ArrivedAtMost(h) == \A n \in Nat : Cardinality(Arrivals(h.got, n)) <= MaxAttempts

InOrder(h) == QueueInOrder(h) /\ GotInOrder(h) /\ NowInOrder(h) /\ ArrivedAtMost(h)

\* The inductive invariant.
HookIInv == (\E S : hook \in Hooks(S)) /\ InOrder(hook) /\ Tells(obs)

-----------------------------------------------------------------------------
(* What the observer tells.                                                *)

LEMMA AppendIsSeq ==
    ASSUME NEW s, IsSeq(s), NEW x
    PROVE  IsSeq(Append(s, x))
<1>1. PICK S : s \in Seq(S)
  BY DEF IsSeq
<1>2. s \in Seq(S \union {x})
  BY <1>1
<1>3. Append(s, x) \in Seq(S \union {x})
  BY <1>2
<1> QED
  BY <1>3 DEF IsSeq

\* Telling one more event keeps what was told a sequence of events.
LEMMA TellTells ==
    ASSUME NEW o, Tells(o), NEW kind, NEW what, NEW at
    PROVE  Tells(Tell(o, kind, what, at))
<1>1. /\ DOMAIN Tell(o, kind, what, at) = DOMAIN o
      /\ Tell(o, kind, what, at).tells = Append(o.tells, <<kind, what, at>>)
  BY DEF Tell, Tells
<1> QED
  BY <1>1, AppendIsSeq DEF Tells

\* So does flushing the agent's message,
LEMMA FlushTells ==
    ASSUME NEW o, Tells(o) PROVE Tells(FlushAgent(o))
<1> DEFINE p == [o EXCEPT !.agent = NoMsg]
           q == [p EXCEPT !.sent = Advance(@, KeyOf(o.agent))]
<1>1. Tells(p)
  BY DEF Tells
<1>2. Tells(q)
  BY <1>1 DEF Tells
<1> HIDE DEF p, q
<1>3. Tells(Tell(q, "message", o.agent.id, o.agent.at))
  BY <1>2, TellTells
<1> QED
  BY <1>1, <1>3 DEF FlushAgent, SendMessage, p, q

\* telling a message,
LEMMA SendTells ==
    ASSUME NEW o, Tells(o), NEW m PROVE Tells(SendMessage(o, m))
<1> DEFINE q == [o EXCEPT !.sent = Advance(@, KeyOf(m))]
<1>1. Tells(q)
  BY DEF Tells
<1> HIDE DEF q
<1>2. Tells(Tell(q, "message", m.id, m.at))
  BY <1>1, TellTells
<1> QED
  BY <1>2 DEF SendMessage, q

\* a message update,
LEMMA MessageTells ==
    ASSUME NEW o, Tells(o), NEW m, NEW quiet PROVE Tells(MessageUpdated(o, m, quiet))
<1>1. Tells([o EXCEPT !.sent = Advance(@, KeyOf(m))])
  BY DEF Tells
<1>2. Tells(FlushAgent(o))
  BY FlushTells
<1>3. Tells(SendMessage(FlushAgent(o), m))
  BY <1>2, SendTells
<1>4. ASSUME NEW p, Tells(p) PROVE Tells([p EXCEPT !.agent = m])
  BY <1>4 DEF Tells
<1> QED
  BY <1>1, <1>2, <1>3, <1>4 DEF MessageUpdated

\* a change of status,
LEMMA StatusTells ==
    ASSUME NEW o, Tells(o), NEW body, NEW quiet PROVE Tells(ObservedStatus(o, body, quiet))
<1> DEFINE stable == body.status = "stable"
           limited == body.limitAt # 0
           p == [o EXCEPT !.stable = stable, !.limited = limited]
           q == IF limited = o.limited THEN p
                ELSE Tell(p, IF limited THEN "limit.stopped" ELSE "limit.cleared", 0, clock)
<1>1. Tells(p)
  BY DEF Tells
<1> HIDE DEF p
<1>2. Tells(q)
  BY <1>1, TellTells
<1> HIDE DEF q
<1>3. Tells(FlushAgent(q))
  BY <1>2, FlushTells
<1> QED
  BY <1>1, <1>2, <1>3 DEF ObservedStatus, p, q

\* a task,
LEMMA TaskTells ==
    ASSUME NEW o, Tells(o), NEW t, NEW quiet PROVE Tells(TaskUpdated(o, t, quiet))
<1> DEFINE k == KeyOf(t)
           a == [o EXCEPT !.started = Advance(@, k)]
           p == IF Covers(o.started, k) THEN o ELSE Tell(a, "task.started", t.id, t.at)
           b == [p EXCEPT !.ended = Advance(@, k)]
           c == [o EXCEPT !.started = Advance(@, k), !.ended = IF Final(t) THEN Advance(@, k) ELSE @]
<1>1. Tells(a) /\ Tells(c)
  BY DEF Tells
<1> HIDE DEF a, c
<1>2. Tells(p)
  BY <1>1, TellTells
<1> HIDE DEF p
<1>3. Tells(b)
  BY <1>2 DEF Tells
<1> HIDE DEF b
<1>4. Tells(Tell(b, "task.ended", t.id, t.at))
  BY <1>3, TellTells
<1> QED
  BY <1>1, <1>2, <1>4 DEF TaskUpdated, a, b, c, p

\* a rich message,
LEMMA RichTells ==
    ASSUME NEW o, Tells(o), NEW k, NEW r, NEW quiet PROVE Tells(RichMessageUpdated(o, k, r, quiet))
<1> DEFINE p == ToolStarted(o, k)
           back == [p EXCEPT !.toolDone = @ \cup {k}, !.tools = SelectSeq(@, LAMBDA j : j # k)]
           told == IF quiet \/ r.at < Since THEN back ELSE Tell(back, "tool.completed", k, r.at)
<1>1. Tells(p)
  BY DEF Tells, ToolStarted
<1> HIDE DEF p
<1>2. Tells(back)
  BY <1>1 DEF Tells
<1> HIDE DEF back
<1>3. Tells(told)
  BY <1>2, TellTells
<1> HIDE DEF told
<1>4. ASSUME NEW x, Tells(x) PROVE Tells(KeepToolMessage(x, k))
  BY <1>4 DEF Tells, KeepToolMessage
<1> QED
  BY <1>1, <1>3, <1>4 DEF RichMessageUpdated, p, back, told

\* a request,
LEMMA RequestTells ==
    ASSUME NEW o, Tells(o), NEW r, NEW st, NEW quiet PROVE Tells(RequestUpdated(o, r, st, quiet))
<1> DEFINE isOpen == st = "pending"
           p == [o EXCEPT !.open = IF isOpen THEN @ \cup {r} ELSE @ \ {r}]
<1>1. Tells(p)
  BY DEF Tells
<1> HIDE DEF p
<1>2. Tells(Tell(p, IF isOpen THEN "request.opened" ELSE "request.closed", r, 0))
  BY <1>1, TellTells
<1> QED
  BY <1>1, <1>2 DEF RequestUpdated, p

\* an error,
LEMMA ErrorTells ==
    ASSUME NEW o, Tells(o), NEW n, NEW quiet PROVE Tells(ObservedError(o, n, quiet))
<1> DEFINE p == [o EXCEPT !.lastError = n]
<1>1. Tells(p)
  BY DEF Tells
<1> HIDE DEF p
<1>2. Tells(Tell(p, "agent.error", n, 0))
  BY <1>1, TellTells
<1> QED
  BY <1>1, <1>2 DEF ObservedError, p

\* any event of the stream,
LEMMA HandleTells ==
    ASSUME NEW o, Tells(o), NEW ev, NEW quiet PROVE Tells(Handle(o, ev, quiet))
<1>1. Tells(FlushAgent(o))
  BY FlushTells
<1>2. Tells(NewConversation(o))
  BY <1>1 DEF Tells, NewConversation
<1>3. Tells(ObservedStatus(o, ev.val, quiet))
  BY StatusTells
<1>4. Tells(MessageUpdated(o, ev.val, quiet))
  BY MessageTells
<1>5. Tells(RichMessageUpdated(o, ev.key[2], ev.val, quiet))
  BY RichTells
<1>6. Tells(RequestUpdated(o, ev.key[2], ev.val.st, quiet))
  BY RequestTells
<1>7. Tells(ObservedError(o, ev.val, quiet))
  BY ErrorTells
<1>8. Tells(TaskUpdated(o, ev.val, quiet))
  BY TaskTells
<1> QED
  BY <1>2, <1>3, <1>4, <1>5, <1>6, <1>7, <1>8 DEF Handle

\* an event of the replay,
LEMMA ReplayTells ==
    ASSUME NEW o, Tells(o), NEW ev PROVE Tells(ReplayEvent(o, ev))
<1>1. Tells([o EXCEPT !.epoch = ev.val.epoch, !.seq = Max({@, ev.seq})])
  BY DEF Tells
<1>2. Tells(Handle(o, ev, o.quiet))
  BY HandleTells
<1> QED
  BY <1>1, <1>2 DEF ReplayEvent

\* and any event the observer takes.
LEMMA TakeTells ==
    ASSUME NEW o, Tells(o), NEW ev PROVE Tells(TakeEvent(o, ev))
<1> DEFINE p == [o EXCEPT !.epoch = IF ev.type = "sync" THEN ev.val.epoch ELSE @, !.seq = Max({@, ev.seq})]
<1>1. Tells(p)
  BY DEF Tells
<1> HIDE DEF p
<1>2. Tells(Handle(p, ev, FALSE))
  BY <1>1, HandleTells
<1> QED
  BY <1>2 DEF TakeEvent, p

-----------------------------------------------------------------------------
(* The dispatcher.                                                         *)

\* The events that are queued get the next IDs.
LEMMA EnqueuedInOrder ==
    ASSUME NEW S, NEW h \in Hooks(S), InOrder(h), NEW evs, IsSeq(evs)
    PROVE  (\E T : Enqueued(h, evs) \in Hooks(T)) /\ InOrder(Enqueued(h, evs))
<1>1. CASE ~h.wanted
  BY <1>1 DEF Enqueued
<1>2. CASE h.wanted
  <2> DEFINE room == QueueSize - Len(h.queue)
             kept == IF Len(evs) <= room THEN Len(evs) ELSE room
             ids == [k \in 1 .. kept |-> Len(h.said) + k]
             g == [h EXCEPT !.said = @ \o evs, !.queue = @ \o ids]
  <2>1. PICK T : evs \in Seq(T)
    BY DEF IsSeq
  <2>2. /\ h.said \in Seq(S) /\ h.queue \in Seq(Nat) /\ h.now \in Seq(Nat) /\ h.got \in Seq(Nat)
        /\ h.attempt \in Nat
    BY DEF Hooks
  <2>3. Len(h.said) \in Nat /\ Len(h.queue) \in Nat /\ Len(evs) \in Nat
    BY <2>1, <2>2
  <2>4. kept \in Nat /\ kept <= Len(evs) /\ kept <= room /\ room \in Nat
    <3>1. QueueSize \in Nat /\ Len(h.queue) <= QueueSize
      BY WebhookAssumption DEF InOrder, QueueInOrder
    <3>2. room \in Nat
      BY <2>3, <3>1
    <3> HIDE DEF room
    <3> QED
      BY <2>3, <3>2
  <2> HIDE DEF kept, room
  <2>5. ids \in Seq(Nat) /\ Len(ids) = kept /\ \A k \in 1 .. kept : ids[k] = Len(h.said) + k
    <3>1. ids \in [1 .. kept -> Nat]
      BY <2>3, <2>4
    <3> QED
      BY <2>4, <3>1
  <2> HIDE DEF ids
  <2>6. h.said \o evs \in Seq(S \union T) /\ Len(h.said \o evs) = Len(h.said) + Len(evs)
    <3>1. h.said \in Seq(S \union T) /\ evs \in Seq(S \union T)
      BY <2>1, <2>2
    <3> QED
      BY <3>1
  <2>7. /\ h.queue \o ids \in Seq(Nat)
        /\ DOMAIN (h.queue \o ids) = 1 .. Len(h.queue) + kept
        /\ Len(h.queue \o ids) = Len(h.queue) + kept
        /\ \A i \in 1 .. Len(h.queue) + kept :
              (h.queue \o ids)[i] = IF i <= Len(h.queue) THEN h.queue[i] ELSE Len(h.said) + (i - Len(h.queue))
    <3>1. /\ h.queue \o ids \in Seq(Nat) /\ Len(h.queue \o ids) = Len(h.queue) + kept
          /\ DOMAIN (h.queue \o ids) = 1 .. Len(h.queue) + kept
      <4>1. h.queue \o ids \in Seq(Nat) /\ Len(h.queue \o ids) = Len(h.queue) + Len(ids)
        <5>1. h.queue \in Seq(Nat) /\ ids \in Seq(Nat)
          BY <2>2, <2>5
        <5> QED
          BY <5>1
      <4>2. DOMAIN (h.queue \o ids) = 1 .. Len(h.queue \o ids)
        BY <4>1
      <4> QED
        BY <2>5, <4>1, <4>2
    <3>2. ASSUME NEW i \in 1 .. Len(h.queue) + kept, i <= Len(h.queue) PROVE (h.queue \o ids)[i] = h.queue[i]
      BY <2>2, <2>4, <2>5, <3>2
    <3>3. ASSUME NEW i \in 1 .. Len(h.queue) + kept, ~(i <= Len(h.queue))
          PROVE  (h.queue \o ids)[i] = Len(h.said) + (i - Len(h.queue))
      <4>1. i - Len(h.queue) \in 1 .. kept
        BY <2>3, <2>4, <3>3
      <4>2. (h.queue \o ids)[i] = ids[i - Len(h.queue)]
        BY <2>2, <2>3, <2>4, <2>5, <3>3, <4>1
      <4> QED
        BY <2>5, <4>1, <4>2
    <3> QED
      BY <3>1, <3>2, <3>3
  <2> DEFINE q == h.queue \o ids
  <2>8. g.queue = q /\ g.said = h.said \o evs /\ g.now = h.now /\ g.got = h.got /\ g.attempt = h.attempt
    BY DEF Hooks
  <2>9. g \in Hooks(S \union T)
    BY <2>6, <2>7 DEF Hooks
  <2> HIDE DEF q, g
  <2>10. DOMAIN h.queue = 1 .. Len(h.queue) /\ \A i \in DOMAIN h.queue : h.queue[i] \in Nat
    BY <2>2
  <2>17. \A i \in DOMAIN q : i \in Nat /\ q[i] \in Nat /\
            \/ i \in DOMAIN h.queue /\ i <= Len(h.queue) /\ q[i] = h.queue[i]
            \/ i > Len(h.queue) /\ q[i] = Len(h.said) + (i - Len(h.queue)) /\ q[i] > Len(h.said)
               /\ q[i] <= Len(h.said) + Len(evs)
    <3> SUFFICES ASSUME NEW i \in 1 .. Len(h.queue) + kept
                 PROVE  i \in Nat /\ q[i] \in Nat /\
                          \/ i \in DOMAIN h.queue /\ i <= Len(h.queue) /\ q[i] = h.queue[i]
                          \/ i > Len(h.queue) /\ q[i] = Len(h.said) + (i - Len(h.queue)) /\ q[i] > Len(h.said)
                             /\ q[i] <= Len(h.said) + Len(evs)
      BY <2>7 DEF q
    <3>1. CASE i <= Len(h.queue)
      <4>1. i \in DOMAIN h.queue
        BY <2>3, <2>4, <2>10, <3>1
      <4>2. q[i] = h.queue[i]
        BY <2>7, <3>1 DEF q
      <4> QED
        BY <2>10, <3>1, <4>1, <4>2
    <3>2. CASE ~(i <= Len(h.queue))
      <4>1. q[i] = Len(h.said) + (i - Len(h.queue))
        BY <2>7, <3>2 DEF q
      <4>2. i - Len(h.queue) \in 1 .. kept
        BY <2>3, <2>4, <3>2
      <4> QED
        <5>1. i \in Nat /\ i > Len(h.queue)
          BY <2>3, <2>4, <3>2
        <5>2. i - Len(h.queue) \in Nat /\ 1 <= i - Len(h.queue) /\ i - Len(h.queue) <= Len(evs)
          BY <2>3, <2>4, <4>2
        <5> DEFINE d == i - Len(h.queue)
                   n == Len(h.said)
        <5>5. q[i] = n + d /\ d \in Nat /\ 1 <= d /\ d <= Len(evs) /\ n \in Nat
          BY <2>3, <4>1, <5>2
        <5> HIDE DEF d, n
        <5>6. n + d \in Nat /\ n + d > n /\ n + d <= n + Len(evs)
          BY <2>3, <5>5
        <5>3. q[i] \in Nat /\ q[i] > Len(h.said)
          BY <5>5, <5>6 DEF n
        <5>4. q[i] <= Len(h.said) + Len(evs)
          BY <5>5, <5>6 DEF n
        <5> QED
          BY <4>1, <5>1, <5>3, <5>4
    <3> QED
      BY <3>1, <3>2
  <2>11. QueueInOrder(g)
    <3>1. \A i \in DOMAIN q : 1 <= q[i] /\ q[i] <= Len(h.said) + Len(evs)
      <4> SUFFICES ASSUME NEW i \in DOMAIN q PROVE 1 <= q[i] /\ q[i] <= Len(h.said) + Len(evs)
        OBVIOUS
      <4>1. \A k \in DOMAIN h.queue : 1 <= h.queue[k] /\ h.queue[k] <= Len(h.said)
        BY DEF InOrder, QueueInOrder
      <4> QED
        BY <2>3, <2>17, <4>1
    <3>2. \A i, j \in DOMAIN q : i < j => q[i] < q[j]
      <4> SUFFICES ASSUME NEW i \in DOMAIN q, NEW j \in DOMAIN q, i < j PROVE q[i] < q[j]
        OBVIOUS
      <4>1. \A k \in DOMAIN h.queue : h.queue[k] <= Len(h.said)
        BY DEF InOrder, QueueInOrder
      <4>2. \A k, l \in DOMAIN h.queue : k < l => h.queue[k] < h.queue[l]
        BY DEF InOrder, QueueInOrder
      <4> QED
        <5>1. Len(h.queue) \in Nat /\ Len(h.said) \in Nat /\ i \in Nat /\ j \in Nat
          BY <2>3, <2>17
        <5>2. CASE j <= Len(h.queue)
          <6>1. i <= Len(h.queue)
            BY <5>1, <5>2
          <6>2. i \in DOMAIN h.queue /\ j \in DOMAIN h.queue /\ q[i] = h.queue[i] /\ q[j] = h.queue[j]
            BY <2>17, <5>1, <5>2, <6>1
          <6> QED
            BY <4>2, <6>2
        <5>3. CASE i <= Len(h.queue) /\ ~(j <= Len(h.queue))
          <6>1. i \in DOMAIN h.queue /\ q[i] = h.queue[i] /\ q[i] \in Nat
            BY <2>17, <5>1, <5>3
          <6>2. q[j] > Len(h.said) /\ q[j] \in Nat
            BY <2>17, <5>1, <5>3
          <6>3. q[i] <= Len(h.said)
            BY <4>1, <6>1
          <6> QED
            BY <5>1, <6>1, <6>2, <6>3
        <5>4. CASE ~(i <= Len(h.queue))
          <6>1. ~(j <= Len(h.queue))
            BY <5>1, <5>4
          <6>2. q[i] = Len(h.said) + (i - Len(h.queue)) /\ q[j] = Len(h.said) + (j - Len(h.queue))
            BY <2>17, <5>1, <5>4, <6>1
          <6> HIDE DEF q
          <6> QED
            BY <5>1, <6>2
        <5> QED
          BY <5>1, <5>2, <5>3, <5>4
    <3>3. Len(q) <= QueueSize
      BY <2>3, <2>4, <2>7, WebhookAssumption DEF room, q
    <3> QED
      BY <2>6, <2>8, <3>1, <3>2, <3>3 DEF QueueInOrder
  <2>12. DOMAIN h.got = 1 .. Len(h.got) /\ \A i \in DOMAIN h.got : h.got[i] \in Nat
    BY <2>2
  <2>13. GotInOrder(g)
    <3>1. \A i \in DOMAIN h.got : 1 <= h.got[i] /\ h.got[i] <= Len(h.said) + Len(evs)
      BY <2>3, <2>12 DEF InOrder, GotInOrder
    <3>2. \A i \in DOMAIN h.got, j \in DOMAIN q : h.got[i] < q[j]
      <4> SUFFICES ASSUME NEW i \in DOMAIN h.got, NEW j \in DOMAIN q PROVE h.got[i] < q[j]
        OBVIOUS
      <4>1. h.got[i] <= Len(h.said) /\ h.got[i] \in Nat /\ \A k \in DOMAIN h.queue : h.got[i] < h.queue[k]
        BY <2>12 DEF InOrder, GotInOrder
      <4> QED
        BY <2>3, <2>17, <4>1
    <3> QED
      BY <2>6, <2>8, <3>1, <3>2 DEF GotInOrder, InOrder
  <2>14. NowInOrder(g)
    <3>1. ASSUME h.now # << >> PROVE h.now[1] \in Nat
      BY <2>2, <3>1
    <3>2. ASSUME h.now # << >> PROVE \A j \in DOMAIN q : h.now[1] < q[j]
      <4>1. h.now[1] <= Len(h.said) /\ \A k \in DOMAIN h.queue : h.now[1] < h.queue[k]
        BY <3>2 DEF InOrder, NowInOrder
      <4> QED
        BY <2>3, <2>17, <3>1, <3>2, <4>1
    <3>3. ASSUME h.now # << >> PROVE 1 <= h.now[1] /\ h.now[1] <= Len(h.said) + Len(evs)
      BY <2>3, <3>1, <3>3 DEF InOrder, NowInOrder
    <3> QED
      BY <2>6, <2>8, <3>2, <3>3 DEF NowInOrder, InOrder
  <2>15. ArrivedAtMost(g)
    BY <2>8 DEF ArrivedAtMost, InOrder
  <2>16. Enqueued(h, evs) = g
    BY <1>2 DEF Enqueued, g, ids, kept, room
  <2> QED
    BY <2>9, <2>11, <2>13, <2>14, <2>15, <2>16 DEF InOrder
<1> QED
  BY <1>1, <1>2 DEF Hooks

\* One more event of ID n arrived.
LEMMA AppendArrivals ==
    ASSUME NEW got \in Seq(Nat), NEW x \in Nat, NEW n \in Nat
    PROVE  /\ Cardinality(Arrivals(got, n)) \in Nat
           /\ Cardinality(Arrivals(Append(got, x), n)) =
                Cardinality(Arrivals(got, n)) + (IF n = x THEN 1 ELSE 0)
<1>1. DOMAIN got = 1 .. Len(got) /\ Len(got) \in Nat /\ DOMAIN Append(got, x) = 1 .. Len(got) + 1
  OBVIOUS
<1>2. \A i \in 1 .. Len(got) : Append(got, x)[i] = got[i]
  OBVIOUS
<1>3. Append(got, x)[Len(got) + 1] = x
  OBVIOUS
<1>4. IsFiniteSet(Arrivals(got, n))
  <2>1. IsFiniteSet(1 .. Len(got))
    BY <1>1, FS_Interval
  <2>2. Arrivals(got, n) \subseteq 1 .. Len(got)
    BY <1>1 DEF Arrivals
  <2> QED
    BY <2>1, <2>2, FS_Subset
<1>5. Cardinality(Arrivals(got, n)) \in Nat
  BY <1>4, FS_CardinalityType
<1>6. CASE n = x
  <2>1. Arrivals(Append(got, x), n) = Arrivals(got, n) \union {Len(got) + 1}
    BY <1>1, <1>2, <1>3, <1>6 DEF Arrivals
  <2>2. Len(got) + 1 \notin Arrivals(got, n)
    BY <1>1 DEF Arrivals
  <2> QED
    BY <1>4, <1>5, <1>6, <2>1, <2>2, FS_AddElement
<1>7. CASE n # x
  <2>1. Arrivals(Append(got, x), n) = Arrivals(got, n)
    BY <1>1, <1>2, <1>3, <1>7 DEF Arrivals
  <2> QED
    BY <1>5, <1>7, <2>1
<1> QED
  BY <1>5, <1>6, <1>7

\* Taking up the next event keeps the events in order.
LEMMA TakesUpInOrder ==
    ASSUME NEW S, hook \in Hooks(S), InOrder(hook), TakesUp
    PROVE  hook' \in Hooks(S) /\ InOrder(hook')
<1> DEFINE x == Head(hook.queue)
           q == Tail(hook.queue)
<1>1. /\ hook.queue \in Seq(Nat) /\ hook.queue # << >> /\ hook.got \in Seq(Nat) /\ hook.now = << >>
      /\ hook.said \in Seq(S) /\ hook.sends \in Nat
  BY DEF Hooks, TakesUp
<1>2. x \in Nat /\ x = hook.queue[1] /\ 1 \in DOMAIN hook.queue
  BY <1>1
<1>3. q \in Seq(Nat) /\ Len(q) = Len(hook.queue) - 1 /\ Len(hook.queue) \in Nat
  BY <1>1
<1>4. \A j \in DOMAIN q : j \in Nat /\ j + 1 \in DOMAIN hook.queue /\ q[j] = hook.queue[j + 1] /\ 1 < j + 1
  BY <1>1, <1>3
<1>5. Len(<<x>>) = 1 /\ <<x>>[1] = x /\ <<x>> \in Seq(Nat) /\ <<x>> # << >>
  BY <1>2
<1>6. /\ hook'.queue = q /\ hook'.now = <<x>> /\ hook'.attempt = 1 /\ hook'.got = hook.got
      /\ hook'.said = hook.said
  BY DEF TakesUp, Hooks
<1>7. hook' \in Hooks(S)
  <2>1. hook.sends + 1 \in Nat /\ 1 \in Nat
    BY <1>1
  <2>2. hook' = [hook EXCEPT !.now = <<x>>, !.queue = q, !.attempt = 1, !.sends = hook.sends + 1]
    BY DEF TakesUp, Hooks
  <2> HIDE DEF x, q
  <2> DEFINE n == hook.sends + 1
             w == <<x>>
  <2>3. n \in Nat /\ w \in Seq(Nat) /\ q \in Seq(Nat)
    BY <1>3, <1>5, <2>1
  <2>4. hook' = [hook EXCEPT !.now = w, !.queue = q, !.attempt = 1, !.sends = n]
    BY <2>2
  <2> HIDE DEF n, w
  <2> QED
    BY <2>1, <2>3, <2>4 DEF Hooks
<1> HIDE DEF x, q
<1>8. /\ \A i \in DOMAIN hook.queue : 1 <= hook.queue[i] /\ hook.queue[i] <= Len(hook.said)
      /\ \A i, j \in DOMAIN hook.queue : i < j => hook.queue[i] < hook.queue[j]
      /\ \A i \in DOMAIN hook.got, j \in DOMAIN hook.queue : hook.got[i] < hook.queue[j]
      /\ Len(hook.queue) <= QueueSize
  BY DEF InOrder, QueueInOrder, GotInOrder
<1>9. QueueInOrder(hook')
  <2>1. \A i \in DOMAIN q : 1 <= q[i] /\ q[i] <= Len(hook.said)
    BY <1>4, <1>8
  <2>2. \A i, j \in DOMAIN q : i < j => q[i] < q[j]
    <3> SUFFICES ASSUME NEW i \in DOMAIN q, NEW j \in DOMAIN q, i < j PROVE q[i] < q[j]
      OBVIOUS
    <3>1. i + 1 < j + 1
      BY <1>4
    <3> QED
      BY <1>4, <1>8, <3>1
  <2>3. Len(q) <= QueueSize
    BY <1>3, <1>8, WebhookAssumption
  <2> QED
    BY <1>6, <2>1, <2>2, <2>3 DEF QueueInOrder
<1>10. GotInOrder(hook')
  BY <1>4, <1>6, <1>8 DEF GotInOrder, InOrder
<1>11. NowInOrder(hook')
  <2>1. 1 <= x /\ x <= Len(hook.said)
    BY <1>2, <1>8
  <2>2. \A i \in DOMAIN hook.got : hook.got[i] < x
    BY <1>2, <1>8
  <2>3. \A i \in DOMAIN hook.got : hook.got[i] \in Nat
    BY <1>1
  <2>4. \A i \in DOMAIN hook.got : hook.got[i] <= x /\ hook.got[i] # x
    BY <1>2, <2>2, <2>3
  <2>5. \A j \in DOMAIN q : x < q[j]
    BY <1>2, <1>4, <1>8
  <2>6. Arrivals(hook.got, x) = {}
    BY <2>4 DEF Arrivals
  <2>7. Cardinality(Arrivals(hook.got, x)) < 1
    BY <2>6, FS_EmptySet
  <2>8. 1 <= 1 /\ 1 <= MaxAttempts
    BY WebhookAssumption
  <2> QED
    BY <1>5, <1>6, <2>1, <2>4, <2>5, <2>7, <2>8 DEF NowInOrder
<1>12. ArrivedAtMost(hook')
  BY <1>6 DEF ArrivedAtMost, InOrder
<1> QED
  BY <1>7, <1>9, <1>10, <1>11, <1>12 DEF InOrder

\* An attempt to deliver, whatever its outcome, keeps the events in order.
LEMMA AttemptedInOrder ==
    ASSUME NEW S, hook \in Hooks(S), InOrder(hook), Attempted
    PROVE  hook' \in Hooks(S) /\ InOrder(hook')
<1> DEFINE x == hook.now[1]
<1>1. /\ hook.queue \in Seq(Nat) /\ hook.got \in Seq(Nat) /\ hook.now \in Seq(Nat) /\ hook.now # << >>
      /\ hook.said \in Seq(S) /\ hook.attempt \in Nat
  BY DEF Hooks, Attempted
<1>2. x \in Nat
  BY <1>1
<1>3. PICK arrives \in BOOLEAN, answer \in {"ok", "permanent", "fails"} :
        hook' = [hook EXCEPT !.got = IF arrives THEN Append(@, hook.now[1]) ELSE @,
                             !.now = IF answer = "fails" /\ hook.attempt < MaxAttempts THEN @ ELSE << >>,
                             !.attempt = IF answer = "fails" /\ @ < MaxAttempts THEN @ + 1 ELSE 0]
  BY DEF Attempted
<1> DEFINE again == answer = "fails" /\ hook.attempt < MaxAttempts
           got == IF arrives THEN Append(hook.got, x) ELSE hook.got
<1>4. /\ hook'.got = got /\ hook'.now = (IF again THEN hook.now ELSE << >>)
      /\ hook'.attempt = (IF again THEN hook.attempt + 1 ELSE 0)
      /\ hook'.queue = hook.queue /\ hook'.said = hook.said
  BY <1>3 DEF Hooks
<1>5. got \in Seq(Nat)
  BY <1>1, <1>2
<1>6. hook' \in Hooks(S)
  <2>1. << >> \in Seq(Nat)
    OBVIOUS
  <2>2. (IF again THEN hook.now ELSE << >>) \in Seq(Nat) /\ (IF again THEN hook.attempt + 1 ELSE 0) \in Nat
    BY <1>1, <2>1
  <2> HIDE DEF got, again
  <2>3. hook' = [hook EXCEPT !.got = got, !.now = IF again THEN hook.now ELSE << >>,
                             !.attempt = IF again THEN hook.attempt + 1 ELSE 0]
    BY <1>3 DEF got, again, Hooks
  <2> QED
    BY <1>5, <2>2, <2>3 DEF Hooks
<1> HIDE DEF x
<1>7. /\ 1 <= x /\ x <= Len(hook.said)
      /\ \A i \in DOMAIN hook.got : hook.got[i] <= x
      /\ \A j \in DOMAIN hook.queue : x < hook.queue[j]
      /\ 1 <= hook.attempt /\ hook.attempt <= MaxAttempts
      /\ Cardinality(Arrivals(hook.got, x)) < hook.attempt
      /\ Len(hook.now) <= 1
  BY <1>1 DEF InOrder, NowInOrder, x
<1>8. \A i \in DOMAIN hook.got : hook.got[i] \in Nat
  BY <1>1
<1>9. /\ \A i \in DOMAIN got : got[i] = x \/ \E k \in DOMAIN hook.got : got[i] = hook.got[k]
      /\ \A i, j \in DOMAIN got : i < j =>
            /\ i \in DOMAIN hook.got /\ got[i] = hook.got[i]
            /\ got[j] = x \/ (j \in DOMAIN hook.got /\ got[j] = hook.got[j])
  <2>1. CASE arrives
    <3>1. DOMAIN hook.got = 1 .. Len(hook.got) /\ Len(hook.got) \in Nat /\ DOMAIN got = 1 .. Len(hook.got) + 1
      BY <1>1, <2>1
    <3>2. \A i \in 1 .. Len(hook.got) : got[i] = hook.got[i]
      BY <1>1, <2>1
    <3>3. got[Len(hook.got) + 1] = x
      BY <1>1, <2>1
    <3> HIDE DEF got
    <3> QED
      BY <3>1, <3>2, <3>3
  <2>2. CASE ~arrives
    BY <1>1, <2>2
  <2> QED
    BY <2>1, <2>2
<1>10. \A n \in Nat : /\ Cardinality(Arrivals(hook.got, n)) \in Nat
                      /\ n # x => Cardinality(Arrivals(got, n)) = Cardinality(Arrivals(hook.got, n))
                      /\ Cardinality(Arrivals(got, n)) \in Nat
                      /\ Cardinality(Arrivals(got, n)) <= Cardinality(Arrivals(hook.got, n)) + 1
  <2> SUFFICES ASSUME NEW n \in Nat
               PROVE  /\ Cardinality(Arrivals(hook.got, n)) \in Nat
                      /\ n # x => Cardinality(Arrivals(got, n)) = Cardinality(Arrivals(hook.got, n))
                      /\ Cardinality(Arrivals(got, n)) \in Nat
                      /\ Cardinality(Arrivals(got, n)) <= Cardinality(Arrivals(hook.got, n)) + 1
    OBVIOUS
  <2>1. /\ Cardinality(Arrivals(hook.got, n)) \in Nat
        /\ Cardinality(Arrivals(Append(hook.got, x), n)) =
             Cardinality(Arrivals(hook.got, n)) + (IF n = x THEN 1 ELSE 0)
    BY <1>1, <1>2, AppendArrivals
  <2>2. CASE arrives
    BY <2>1, <2>2
  <2>3. CASE ~arrives
    BY <2>1, <2>3
  <2> QED
    BY <2>2, <2>3
<1> HIDE DEF got, again
<1>11. QueueInOrder(hook')
  BY <1>4 DEF QueueInOrder, InOrder
<1>12. GotInOrder(hook')
  <2>1. \A i \in DOMAIN got : 1 <= got[i] /\ got[i] <= Len(hook.said)
    BY <1>7, <1>9 DEF InOrder, GotInOrder
  <2>2. \A i, j \in DOMAIN got : i < j => got[i] <= got[j]
    <3> SUFFICES ASSUME NEW i \in DOMAIN got, NEW j \in DOMAIN got, i < j PROVE got[i] <= got[j]
      OBVIOUS
    <3>1. i \in DOMAIN hook.got /\ got[i] = hook.got[i]
      BY <1>9
    <3>2. CASE got[j] = x
      BY <1>7, <3>1, <3>2
    <3>3. CASE j \in DOMAIN hook.got /\ got[j] = hook.got[j]
      BY <3>1, <3>3 DEF InOrder, GotInOrder
    <3> QED
      BY <1>9, <3>2, <3>3
  <2>3. \A i \in DOMAIN got, j \in DOMAIN hook.queue : got[i] < hook.queue[j]
    BY <1>7, <1>9 DEF InOrder, GotInOrder
  <2> QED
    BY <1>4, <2>1, <2>2, <2>3 DEF GotInOrder
<1>13. NowInOrder(hook')
  <2>1. CASE ~again
    <3>1. Len(<< >>) <= 1
      OBVIOUS
    <3> QED
      BY <1>4, <2>1, <3>1 DEF NowInOrder
  <2>2. CASE again
    <3>1. hook'.now = hook.now /\ hook'.now[1] = x /\ hook'.attempt = hook.attempt + 1
      BY <1>4, <2>2 DEF x
    <3>2. 1 <= hook.attempt + 1 /\ hook.attempt + 1 <= MaxAttempts
      BY <1>1, <2>2, WebhookAssumption DEF again
    <3>3. \A i \in DOMAIN got : got[i] <= x
      BY <1>2, <1>7, <1>9
    <3>4. Cardinality(Arrivals(got, x)) < hook.attempt + 1
      <4> DEFINE a == Cardinality(Arrivals(hook.got, x))
                 b == Cardinality(Arrivals(got, x))
      <4>1. a \in Nat /\ b \in Nat /\ b <= a + 1
        BY <1>2, <1>10
      <4>2. a < hook.attempt
        BY <1>7
      <4> HIDE DEF a, b
      <4>3. b < hook.attempt + 1
        BY <1>1, <4>1, <4>2
      <4> QED
        BY <4>3 DEF b
    <3> QED
      BY <1>4, <1>7, <3>1, <3>2, <3>3, <3>4 DEF NowInOrder
  <2> QED
    BY <2>1, <2>2
<1>14. ArrivedAtMost(hook')
  <2> SUFFICES ASSUME NEW n \in Nat PROVE Cardinality(Arrivals(got, n)) <= MaxAttempts
    BY <1>4 DEF ArrivedAtMost
  <2>1. CASE n = x
    <3> DEFINE a == Cardinality(Arrivals(hook.got, x))
               b == Cardinality(Arrivals(got, x))
    <3>1. a \in Nat /\ b \in Nat /\ b <= a + 1
      BY <1>2, <1>10
    <3>2. a < hook.attempt /\ hook.attempt <= MaxAttempts
      BY <1>7
    <3> HIDE DEF a, b
    <3>3. b <= MaxAttempts
      BY <1>1, <3>1, <3>2, WebhookAssumption
    <3> QED
      BY <2>1, <3>3 DEF b
  <2>2. CASE n # x
    BY <1>10, <2>2 DEF InOrder, ArrivedAtMost
  <2> QED
    BY <2>1, <2>2
<1> QED
  BY <1>6, <1>11, <1>12, <1>13, <1>14 DEF InOrder

\* What does not touch the events does not change their order.
LEMMA SameInOrder ==
    ASSUME NEW g, NEW h, InOrder(h), g.queue = h.queue, g.now = h.now, g.attempt = h.attempt,
           g.said = h.said, g.got = h.got
    PROVE  InOrder(g)
  BY DEF InOrder, QueueInOrder, GotInOrder, NowInOrder, ArrivedAtMost

-----------------------------------------------------------------------------
(* The theorem.                                                            *)

LEMMA OneEvent ==
    ASSUME NEW x PROVE IsSeq(<<x>>)
<1>1. <<x>> \in Seq({x})
  OBVIOUS
<1> QED
  BY <1>1 DEF IsSeq

\* Handing on what was told leaves nothing to tell.
LEMMA EmptyTells ==
    ASSUME NEW o, Tells(o) PROVE Tells([o EXCEPT !.tells = << >>])
<1>1. << >> \in Seq({})
  OBVIOUS
<1>2. IsSeq(<< >>)
  BY <1>1 DEF IsSeq
<1> QED
  BY <1>2 DEF Tells

\* The webhook begins in its invariant.
LEMMA HookInitIInv == WebhookInit => HookIInv
<1> SUFFICES ASSUME WebhookInit PROVE HookIInv
  OBVIOUS
<1> DEFINE h == [wanted |-> lim.hook, queue |-> << >>, now |-> << >>, attempt |-> 0, said |-> << >>,
                 got |-> << >>, phase |-> "on", configs |-> 0, beats |-> 0, sends |-> 0]
<1>1. lim.hook \in BOOLEAN
  BY WebhookAssumption DEF WebhookInit, EventsInit
<1>2. << >> \in Seq({}) /\ << >> \in Seq(Nat) /\ Len(<< >>) = 0
  OBVIOUS
<1>3. h \in Hooks({})
  BY <1>1, <1>2 DEF Hooks
<1>4. InOrder(h)
  <2>1. \A n \in Nat : Arrivals(<< >>, n) = {}
    BY DEF Arrivals
  <2>2. \A n \in Nat : Cardinality(Arrivals(<< >>, n)) <= MaxAttempts
    BY <2>1, FS_EmptySet, WebhookAssumption
  <2>3. QueueInOrder(h)
    BY <1>2, WebhookAssumption DEF QueueInOrder
  <2>4. GotInOrder(h) /\ NowInOrder(h)
    BY <1>2 DEF GotInOrder, NowInOrder
  <2> QED
    BY <2>2, <2>3, <2>4 DEF InOrder, ArrivedAtMost
<1> HIDE DEF h
<1>5. (\E T : Enqueued(h, << <<"started", 0, 0>> >>) \in Hooks(T)) /\ InOrder(Enqueued(h, << <<"started", 0, 0>> >>))
  BY <1>3, <1>4, OneEvent, EnqueuedInOrder
<1>6. hook = Enqueued(h, << <<"started", 0, 0>> >>)
  BY DEF WebhookInit, HookInit, h
<1>7. Tells(obs)
  <2>1. IsSeq(<< >>)
    BY <1>2 DEF IsSeq
  <2> QED
    BY <2>1 DEF WebhookInit, HookInit, NewObserver, Tells
<1> QED
  BY <1>5, <1>6, <1>7 DEF HookIInv

\* Every step of the webhook keeps its invariant.
LEMMA HookStep ==
    ASSUME HookIInv, HookNext PROVE HookIInv'
<1>1. PICK S : hook \in Hooks(S)
  BY DEF HookIInv
<1>2. InOrder(hook) /\ Tells(obs)
  BY DEF HookIInv
<1>3. ASSUME NEW o, Tells(o), Dispatch(o) PROVE HookIInv'
  <2>1. (\E T : Enqueued(hook, o.tells) \in Hooks(T)) /\ InOrder(Enqueued(hook, o.tells))
    BY <1>1, <1>2, <1>3, EnqueuedInOrder DEF Tells
  <2>2. Tells(obs')
    BY <1>3, EmptyTells DEF Dispatch
  <2>3. hook' = Enqueued(hook, o.tells)
    BY <1>3 DEF Dispatch
  <2> QED
    BY <2>1, <2>2, <2>3 DEF HookIInv
<1>4. CASE ObserverSubscribes
  <2>1. Tells(obs') /\ hook' = hook
    BY <1>2, <1>4 DEF ObserverSubscribes, Tells
  <2> QED
    BY <1>1, <1>2, <2>1 DEF HookIInv
<1>5. CASE ObserverReads
  <2>1. CASE \E ev : Dispatch(ReplayEvent(obs, ev)) \/ Dispatch(TakeEvent(obs, ev))
    BY <1>2, <1>3, <2>1, ReplayTells, TakeTells
  <2>2. CASE UNCHANGED hookVars
    BY <1>1, <1>2, <2>2 DEF hookVars, HookIInv
  <2> QED
    BY <1>5, <2>1, <2>2 DEF ObserverReads
<1>6. CASE WebhookConfigured
  <2>1. << >> \in Seq({})
    OBVIOUS
  <2>2. Tells(obs')
    BY <1>6, <2>1 DEF WebhookConfigured, NewObserver, Tells, IsSeq
  <2>3. hook' \in Hooks(S)
    <3>1. hook.configs \in Nat
      BY <1>1 DEF Hooks
    <3> DEFINE n == hook.configs + 1
               w == ~hook.wanted
    <3>2. n \in Nat
      BY <3>1
    <3>3. w \in BOOLEAN
      OBVIOUS
    <3>4. hook' = [hook EXCEPT !.wanted = w, !.configs = n]
      BY <1>6 DEF WebhookConfigured
    <3> HIDE DEF n, w
    <3> QED
      BY <1>1, <3>2, <3>3, <3>4 DEF Hooks
  <2>4. /\ hook'.queue = hook.queue /\ hook'.now = hook.now /\ hook'.attempt = hook.attempt
        /\ hook'.said = hook.said /\ hook'.got = hook.got
    BY <1>1, <1>6 DEF WebhookConfigured, Hooks
  <2>5. InOrder(hook')
    BY <1>2, <2>4, SameInOrder
  <2> QED
    BY <2>2, <2>3, <2>5 DEF HookIInv
<1>7. CASE Heartbeat
  <2> DEFINE g == [hook EXCEPT !.beats = @ + 1]
  <2>1. g \in Hooks(S)
    <3> DEFINE n == hook.beats + 1
    <3>1. n \in Nat
      BY <1>1 DEF Hooks
    <3>2. g = [hook EXCEPT !.beats = n]
      OBVIOUS
    <3> HIDE DEF g, n
    <3> QED
      BY <1>1, <3>1, <3>2 DEF Hooks
  <2>2. g.queue = hook.queue /\ g.now = hook.now /\ g.attempt = hook.attempt /\ g.said = hook.said /\ g.got = hook.got
    BY <1>1 DEF Hooks
  <2> HIDE DEF g
  <2>3. InOrder(g)
    BY <1>2, <2>2, SameInOrder
  <2>4. hook' = Enqueued(g, << <<"heartbeat", hook.beats, 0>> >>) /\ obs' = obs
    BY <1>7 DEF Heartbeat, g
  <2>5. (\E T : hook' \in Hooks(T)) /\ InOrder(hook')
    BY <2>1, <2>3, <2>4, OneEvent, EnqueuedInOrder
  <2> QED
    BY <1>2, <2>4, <2>5 DEF HookIInv
<1>8. CASE TakesUp
  BY <1>1, <1>2, <1>8, TakesUpInOrder DEF HookIInv, TakesUp
<1>9. CASE Attempted
  BY <1>1, <1>2, <1>9, AttemptedInOrder DEF HookIInv, Attempted
<1>10. CASE StopBegins
  <2> DEFINE g == Enqueued(hook, << <<"stopped", 0, 0>> >>)
  <2>1. PICK T : g \in Hooks(T)
    BY <1>1, <1>2, OneEvent, EnqueuedInOrder
  <2>2. InOrder(g)
    BY <1>1, <1>2, OneEvent, EnqueuedInOrder
  <2> HIDE DEF g
  <2>3. PICK phase \in {"stopping", "ended"} : hook' = [g EXCEPT !.phase = phase]
    BY <1>10 DEF StopBegins, g
  <2>4. hook' \in Hooks(T)
    BY <2>1, <2>3 DEF Hooks
  <2>5. hook'.queue = g.queue /\ hook'.now = g.now /\ hook'.attempt = g.attempt /\ hook'.said = g.said /\ hook'.got = g.got
    BY <2>1, <2>3 DEF Hooks
  <2>6. InOrder(hook')
    BY <2>2, <2>5, SameInOrder
  <2> QED
    BY <1>2, <1>10, <2>4, <2>6 DEF HookIInv, StopBegins
<1>11. CASE StopEnds
  <2>1. hook' \in Hooks(S)
    BY <1>1, <1>11 DEF StopEnds, Hooks
  <2>2. /\ hook'.queue = hook.queue /\ hook'.now = hook.now /\ hook'.attempt = hook.attempt
        /\ hook'.said = hook.said /\ hook'.got = hook.got
    BY <1>1, <1>11 DEF StopEnds, Hooks
  <2>3. InOrder(hook')
    BY <1>2, <2>2, SameInOrder
  <2> QED
    BY <1>2, <1>11, <2>1, <2>3 DEF HookIInv, StopEnds
<1> QED
  BY <1>4, <1>5, <1>6, <1>7, <1>8, <1>9, <1>10, <1>11 DEF HookNext

\* The receiver gets the events in the order they were told, however often an
\* attempt that seemed to fail had arrived, each at most MaxAttempts times, and
\* no event that was not told (enqueue, deliver).
THEOREM EventsArriveInOrder == WebhookSpec => []ArrivesInOrder
<1>1. HookIInv /\ [WebhookNext]_<<eventVars, hookVars>> => HookIInv'
  <2> SUFFICES ASSUME HookIInv, [WebhookNext]_<<eventVars, hookVars>> PROVE HookIInv'
    OBVIOUS
  <2>1. CASE UNCHANGED hookVars
    BY <2>1 DEF hookVars, HookIInv
  <2>2. CASE HookNext
    BY <2>2, HookStep
  <2> QED
    BY <2>1, <2>2 DEF WebhookNext
<1>2. HookIInv => ArrivesInOrder
  <2> SUFFICES ASSUME HookIInv PROVE ArrivesInOrder
    OBVIOUS
  <2>1. PICK S : hook \in Hooks(S)
    BY DEF HookIInv
  <2>2. hook.said \in Seq(S) /\ hook.got \in Seq(Nat)
    BY <2>1 DEF Hooks
  <2>3. DOMAIN hook.said = 1 .. Len(hook.said) /\ Len(hook.said) \in Nat /\ \A i \in DOMAIN hook.got : hook.got[i] \in Nat
    BY <2>2
  <2>4. GotInOrder(hook) /\ ArrivedAtMost(hook)
    BY DEF HookIInv, InOrder
  <2>5. \A i \in DOMAIN hook.got : hook.got[i] \in DOMAIN hook.said
    BY <2>3, <2>4 DEF GotInOrder
  <2>6. \A n \in DOMAIN hook.said : Cardinality({i \in DOMAIN hook.got : hook.got[i] = n}) <= MaxAttempts
    BY <2>3, <2>4 DEF ArrivedAtMost, Arrivals
  <2> QED
    BY <2>4, <2>5, <2>6 DEF ArrivesInOrder, GotInOrder
<1> QED
  BY <1>1, <1>2, HookInitIInv, PTL DEF WebhookSpec
=============================================================================
