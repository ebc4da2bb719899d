----------------------------- MODULE Hub_proofs -----------------------------
(***************************************************************************)
(* What is proved of the hub, for every scope: an instance moves only once  *)
(* the hub knows that its URL is dead, the proxy sends its requests and its *)
(* token only where it answered, and a mute ends with what was muted; a     *)
(* page and the file show what the hub has, pins have no gaps, work is      *)
(* counted while it is seen, no event is handled twice, and each instance   *)
(* has its watch.                                                          *)
(*                                                                         *)
(* Every change of an instance goes through Update, which renumbers pins,   *)
(* tracks work and stamps changes besides.  None of that touches the fields *)
(* of the first three, so their proof says once what Update keeps           *)
(* (UpdateKeeps) and then looks at each handler's own change only (HubIInv).*)
(* The others need what Update does: TrackHolds is about the store, its     *)
(* file and the page, OnceHolds about the deliveries, WatchesHold about the *)
(* watches.  HubAllHolds is all of it.                                      *)
(***************************************************************************)
EXTENDS Hub, TLAPS, FiniteSetTheorems, SequenceTheorems, FunctionTheorems

InstFields == {"url", "run", "source", "conn", "err", "summary", "answeredBy", "failed", "confirmed", "token", "pin", "group", "muted",
               "last", "hb", "changed", "activity", "since", "spans", "heard"}
HubFields == {"up", "now", "inst", "favorites", "order", "calls", "follows", "watchers", "starting", "files"}
WorldFields == {"net", "answered", "proxied", "dead", "misjudged", "raced", "applied", "turns", "ticks", "events", "adds", "removes",
                "patches", "opens", "faults", "edits", "starts", "stops", "kills"}
DiskFields == {"instances", "deliveries", "bak"}

IsInst(i) == InstFields \subseteq DOMAIN i

\* The fields that Update leaves as the handler's change made them.
SameInst(j, i) ==
    /\ j.url = i.url /\ j.run = i.run /\ j.source = i.source /\ j.conn = i.conn /\ j.err = i.err /\ j.summary = i.summary
    /\ j.answeredBy = i.answeredBy /\ j.failed = i.failed /\ j.confirmed = i.confirmed /\ j.token = i.token
    /\ j.group = i.group /\ j.muted = i.muted /\ j.last = i.last /\ j.hb = i.hb

\* What holds of an instance, in the world w.
InstHolds(w, id, i) ==
    /\ i.url # Nowhere /\ i.source \in {"webhook", "manual"} /\ i.failed \in BOOLEAN
    /\ i.answeredBy # 0 => i.failed
    /\ i.failed => <<id, i.url>> \in w.dead \/ w.misjudged
    /\ i.conn = "connected" => <<id, i.url>> \in w.answered
    /\ i.token # Nowhere => i.source = "manual" /\ i.token = i.url
    /\ i.source = "webhook" /\ i.muted # "" /\ i.summary # NoSummary => i.muted = AttentionKey(i.summary)

\* A call that handles an event is of one that was sent; one that adds an
\* instance has the URL that it asked.
CallHolds(sc, c) ==
    /\ "pc" \in DOMAIN c
    /\ c.pc = "handle" => c.d \in DOMAIN sc.mail
    /\ c.pc \in {"check", "update"} => "url" \in DOMAIN c /\ c.url # Nowhere

HubTyped ==
    /\ hubScope \in HubScopes
    /\ HubFields \subseteq DOMAIN hub /\ WorldFields \subseteq DOMAIN hubWorld /\ DiskFields \subseteq DOMAIN hubDisk
    /\ \A id \in DOMAIN hub.inst : IsInst(hub.inst[id])
    /\ DOMAIN hub.files = Files
    /\ hubWorld.misjudged \in BOOLEAN /\ DOMAIN hubWorld.net = DOMAIN hubScope.net
    /\ \A c \in hub.calls : CallHolds(hubScope, c)

DiskHolds == hubDisk.instances \in {Damaged, Newer} \/ FileIsSound(hubDisk.instances)

HubIInv ==
    /\ HubTyped /\ DiskHolds
    /\ \A id \in DOMAIN hub.inst : InstHolds(hubWorld, id, hub.inst[id])
    /\ hubWorld.proxied \subseteq hubWorld.answered

-----------------------------------------------------------------------------
(* What Update keeps.                                                        *)

\* workLog.end changes the work only.
LEMMA EndSpanKeeps ==
    ASSUME NEW i, IsInst(i), NEW end
    PROVE  IsInst(EndSpan(i, end)) /\ SameInst(EndSpan(i, end), i) /\ EndSpan(i, end).pin = i.pin
  BY DEF EndSpan, IsInst, InstFields, SameInst

\* So do the changes that update derives.
LEMMA SettledKeeps ==
    ASSUME NEW i, IsInst(i), NEW created \in BOOLEAN
    PROVE  IsInst(HubSettled(i, created)) /\ SameInst(HubSettled(i, created), i) /\ HubSettled(i, created).pin = i.pin
<1> DEFINE j == HubChanged(i, created)
           k == Track(j, hub.now)
<1>1. IsInst(j) /\ SameInst(j, i) /\ j.pin = i.pin
  BY DEF HubChanged, IsInst, InstFields, SameInst
<1> HIDE DEF j
<1>2. IsInst(k) /\ SameInst(k, j) /\ k.pin = j.pin
  <2>1. CASE Working(j) /\ j.since = Never
    <3>1. k = [j EXCEPT !.since = hub.now]
      BY <2>1 DEF Track
    <3> QED
      BY <1>1, <3>1 DEF IsInst, InstFields, SameInst
  <2>2. CASE ~(Working(j) /\ j.since = Never) /\ ~Working(j) /\ j.since # Never
    <3>1. k = EndSpan(j, IF j.heard < hub.now THEN j.heard ELSE hub.now)
      BY <2>2 DEF Track
    <3> QED
      BY <1>1, <3>1, EndSpanKeeps
  <2>3. CASE ~(Working(j) /\ j.since = Never) /\ ~(~Working(j) /\ j.since # Never)
    <3>1. k = j
      BY <2>3 DEF Track
    <3> QED
      BY <1>1, <3>1 DEF SameInst
  <2> QED
    BY <2>1, <2>2, <2>3
<1> HIDE DEF k
<1>3. LET l == [k EXCEPT !.heard = Never] IN IsInst(l) /\ SameInst(l, k) /\ l.pin = k.pin
  BY <1>2 DEF IsInst, InstFields, SameInst
<1>4. HubSettled(i, created) = [k EXCEPT !.heard = Never]
  BY DEF HubSettled, j, k
<1> QED
  BY <1>1, <1>2, <1>3, <1>4 DEF SameInst

\* numberPinsLocked changes pins only.
LEMMA NumberPinsKeeps ==
    ASSUME NEW inst, \A id \in DOMAIN inst : IsInst(inst[id])
    PROVE  /\ DOMAIN NumberPins(inst) = DOMAIN inst
           /\ \A id \in DOMAIN inst : IsInst(NumberPins(inst)[id]) /\ SameInst(NumberPins(inst)[id], inst[id])
  BY DEF NumberPins, IsInst, InstFields, SameInst

\* The instances once `to' is the instance id.
LEMMA WithInstanceKeeps ==
    ASSUME \A x \in DOMAIN hub.inst : IsInst(hub.inst[x]), NEW id, NEW to, IsInst(to)
    PROVE  /\ DOMAIN WithInstance(id, to) = DOMAIN hub.inst \cup {id}
           /\ \A x \in DOMAIN WithInstance(id, to) : IsInst(WithInstance(id, to)[x])
           /\ SameInst(WithInstance(id, to)[id], to)
           /\ \A x \in DOMAIN hub.inst \ {id} : SameInst(WithInstance(id, to)[x], hub.inst[x])
<1> DEFINE new == HubSettled(to, id \notin DOMAIN hub.inst)
           inst == Put(hub.inst, id, new)
<1>1. IsInst(new) /\ SameInst(new, to)
  BY SettledKeeps
<1> HIDE DEF new
<1>2. /\ DOMAIN inst = DOMAIN hub.inst \cup {id} /\ inst[id] = new
      /\ \A x \in DOMAIN hub.inst \ {id} : inst[x] = hub.inst[x]
  BY DEF Put
<1> HIDE DEF inst
<1>3. /\ \A x \in DOMAIN inst : IsInst(inst[x])
      /\ SameInst(inst[id], to)
      /\ \A x \in DOMAIN hub.inst \ {id} : SameInst(inst[x], hub.inst[x])
  BY <1>1, <1>2 DEF SameInst
<1>4. CASE to.pin # Before(id).pin
  <2>1. WithInstance(id, to) = NumberPins(inst)
    BY <1>4 DEF WithInstance, inst, new
  <2> QED
    BY <1>2, <1>3, <2>1, NumberPinsKeeps DEF SameInst
<1>5. CASE to.pin = Before(id).pin
  <2>1. WithInstance(id, to) = inst
    BY <1>5 DEF WithInstance, inst, new
  <2> QED
    BY <1>2, <1>3, <2>1
<1> QED
  BY <1>4, <1>5

-----------------------------------------------------------------------------
(* What keeps the invariant.                                                 *)

\* A step that changes what the hub knows of one instance's URLs at most.
WorldKeeps(id) ==
    /\ WorldFields \subseteq DOMAIN hubWorld' /\ DOMAIN hubWorld'.net = DOMAIN hubWorld.net
    /\ hubWorld'.misjudged \in BOOLEAN /\ (hubWorld.misjudged => hubWorld'.misjudged)
    /\ hubWorld.answered \subseteq hubWorld'.answered /\ hubWorld'.proxied = hubWorld.proxied
    /\ \A x, u : x # id /\ <<x, u>> \in hubWorld.dead => <<x, u>> \in hubWorld'.dead

\* Another instance holds as before.
LEMMA OthersHold ==
    ASSUME NEW id, WorldKeeps(id), hubWorld.misjudged \in BOOLEAN, NEW x, x # id, NEW i, NEW j, SameInst(j, i), InstHolds(hubWorld, x, i)
    PROVE  InstHolds(hubWorld', x, j)
  BY DEF WorldKeeps, SameInst, InstHolds

\* Update, with the world the handler leaves.
LEMMA UpdateHolds ==
    ASSUME HubIInv, NEW id, NEW to, NEW calls, NEW follows, Update(id, to, calls, follows), Still,
           IsInst(to), WorldKeeps(id), InstHolds(hubWorld', id, to), \A c \in calls : CallHolds(hubScope, c),
           id \in DOMAIN hub.inst /\ to.url # hub.inst[id].url =>
               \/ hub.inst[id].source # "manual" /\ <<id, hub.inst[id].url>> \in hubWorld.dead
               \/ hubWorld.misjudged \/ hubWorld'.raced
    PROVE  HubIInv' /\ HubMove
<1> DEFINE inst == WithInstance(id, to)
<1>1. HubTyped /\ \A x \in DOMAIN hub.inst : IsInst(hub.inst[x]) /\ InstHolds(hubWorld, x, hub.inst[x])
  BY DEF HubIInv, HubTyped
<1>2. /\ DOMAIN inst = DOMAIN hub.inst \cup {id}
      /\ \A x \in DOMAIN inst : IsInst(inst[x])
      /\ SameInst(inst[id], to)
      /\ \A x \in DOMAIN hub.inst \ {id} : SameInst(inst[x], hub.inst[x])
  BY <1>1, WithInstanceKeeps
<1>3. PICK files : hub' = [hub EXCEPT !.inst = inst, !.calls = calls, !.follows = follows, !.files = files] /\ DOMAIN files = DOMAIN hub.files
  BY <1>1 DEF Update, Mark, HubTyped, HubFields
<1> HIDE DEF inst
<1>4. /\ HubFields \subseteq DOMAIN hub' /\ hub'.inst = inst /\ hub'.calls = calls /\ hub'.files = files
  BY <1>1, <1>3 DEF HubTyped, HubFields
<1>5. \A x \in DOMAIN inst : InstHolds(hubWorld', x, inst[x])
  <2>1. InstHolds(hubWorld', id, inst[id])
    BY <1>2 DEF InstHolds, SameInst
  <2>2. ASSUME NEW x \in DOMAIN hub.inst, x # id PROVE InstHolds(hubWorld', x, inst[x])
    BY <1>1, <1>2, <2>2, OthersHold DEF HubTyped
  <2> QED
    BY <1>2, <2>1, <2>2
<1>6. HubTyped'
  BY <1>1, <1>2, <1>3, <1>4 DEF HubTyped, Still, WorldKeeps
<1>7. HubIInv'
  BY <1>4, <1>5, <1>6 DEF HubIInv, DiskHolds, Still, WorldKeeps
<1>8. HubMove
  BY <1>2, <1>4 DEF HubMove, SameInst
<1> QED
  BY <1>7, <1>8

\* What holds of an instance reads three fields of the world.
LEMMA SameWorldHolds ==
    ASSUME NEW w, NEW v, w.dead = v.dead, w.misjudged = v.misjudged, w.answered = v.answered,
           NEW id, NEW i, InstHolds(v, id, i)
    PROVE  InstHolds(w, id, i)
  BY DEF InstHolds

\* A step that leaves the instances alone.
LEMMA SameInstances ==
    ASSUME HubIInv, HubFields \subseteq DOMAIN hub', hub'.inst = hub.inst, DOMAIN hub'.files = DOMAIN hub.files,
           \A c \in hub'.calls : CallHolds(hubScope, c), UNCHANGED <<hubDisk, hubScope>>,
           WorldFields \subseteq DOMAIN hubWorld', DOMAIN hubWorld'.net = DOMAIN hubWorld.net,
           hubWorld'.misjudged = hubWorld.misjudged, hubWorld'.dead = hubWorld.dead,
           hubWorld'.answered = hubWorld.answered, hubWorld'.proxied \subseteq hubWorld'.answered
    PROVE  HubIInv' /\ HubMove
<1>1. \A id \in DOMAIN hub'.inst : InstHolds(hubWorld', id, hub'.inst[id])
  <2>1. \A id \in DOMAIN hub.inst : InstHolds(hubWorld, id, hub.inst[id])
    BY DEF HubIInv
  <2> QED
    BY <2>1, SameWorldHolds
<1>2. HubTyped'
  BY DEF HubIInv, HubTyped
<1> QED
  BY <1>1, <1>2 DEF HubIInv, DiskHolds, HubMove

\* A counter of the world.
Counters == {"turns", "ticks", "events", "adds", "removes", "patches", "opens", "faults", "edits", "starts", "stops", "kills"}
SameWorld ==
    /\ WorldFields \subseteq DOMAIN hubWorld' /\ hubWorld'.net = hubWorld.net
    /\ hubWorld'.misjudged = hubWorld.misjudged /\ hubWorld'.raced = hubWorld.raced /\ hubWorld'.dead = hubWorld.dead
    /\ hubWorld'.answered = hubWorld.answered /\ hubWorld'.proxied = hubWorld.proxied
\* Spending one of the requests the scope allows leaves what the proofs say of the world alone.
LEMMA SpentKeeps ==
    ASSUME HubIInv, NEW f \in Counters, Spent(f) PROVE SameWorld
  BY DEF HubIInv, HubTyped, Spent, SameWorld, WorldFields, Counters
\* A world that is the same keeps what each instance's invariant reads of it.
LEMMA SameWorldKeeps ==
    ASSUME HubIInv, SameWorld, NEW id PROVE WorldKeeps(id)
  BY DEF HubIInv, HubTyped, SameWorld, WorldKeeps
\* A step that does not touch the world leaves it the same.
LEMMA WorldUnchanged ==
    ASSUME HubIInv, UNCHANGED hubWorld PROVE SameWorld
  BY DEF HubIInv, HubTyped, SameWorld

\* A step of the hub that leaves instances and world alone.
LEMMA HubMovesOn ==
    ASSUME HubIInv, HubFields \subseteq DOMAIN hub', hub'.inst = hub.inst, DOMAIN hub'.files = DOMAIN hub.files,
           \A c \in hub'.calls : CallHolds(hubScope, c), UNCHANGED <<hubDisk, hubScope>>, SameWorld
    PROVE  HubIInv' /\ HubMove
<1>1. hubWorld'.proxied \subseteq hubWorld'.answered
  BY DEF HubIInv, SameWorld
<1> QED
  BY <1>1, SameInstances DEF SameWorld

\* The calls that a handler leaves.
LEMMA CallsHold ==
    ASSUME HubIInv, NEW c \in hub.calls
    PROVE  /\ \A d \in CallDone(c) : CallHolds(hubScope, d)
           /\ \A d \in Then(c, "watch") : CallHolds(hubScope, d)
           /\ \A d \in Then(c, "unwatch") : CallHolds(hubScope, d)
           /\ c.pc = "check" => \A d \in Then(c, "update") : CallHolds(hubScope, d)
  BY DEF HubIInv, HubTyped, CallDone, Then, CallHolds

-----------------------------------------------------------------------------
(* The watches.                                                              *)

LEMMA FollowsHold ==
    ASSUME HubIInv, NEW f \in hub.follows, FollowGets(f) \/ FollowFails(f) \/ FollowRetries(f)
    PROVE  HubIInv' /\ HubMove
<1>1. PICK follows : hub' = [hub EXCEPT !.follows = follows]
  BY DEF FollowGets, FollowFails, FollowRetries
<1>2. UNCHANGED <<hubDisk, hubScope, hubWorld>>
  BY DEF FollowGets, FollowFails, FollowRetries, Quietly
<1>3. HubFields \subseteq DOMAIN hub' /\ hub'.inst = hub.inst /\ hub'.files = hub.files /\ hub'.calls = hub.calls
  BY <1>1 DEF HubIInv, HubTyped, HubFields
<1>4. \A c \in hub'.calls : CallHolds(hubScope, c)
  BY <1>3 DEF HubIInv, HubTyped
<1> QED
  BY <1>2, <1>3, <1>4, WorldUnchanged, HubMovesOn

\* A watch that reads an answer (follow, applySummary) keeps the invariant, and moves nothing.
LEMMA FollowReadsHolds ==
    ASSUME HubIInv, NEW f \in hub.follows, FollowReads(f)
    PROVE  HubIInv' /\ HubMove
<1> DEFINE s == [run |-> hubWorld.net[f.url].run, does |-> hubWorld.net[f.url].does]
           g == [f EXCEPT !.failing = Never, !.heard = hub.now]
           dead == IF f.id \in DOMAIN hub.inst /\ hub.inst[f.id].conn = "stopped" THEN hubWorld.dead ELSE hubWorld.dead \ {<<f.id, f.url>>}
<1>1. /\ hubWorld' = [hubWorld EXCEPT !.answered = @ \cup {<<f.id, f.url>>}, !.dead = dead]
      /\ IF f.id \in DOMAIN hub.inst
         THEN Update(f.id, ApplySummary(f, hub.inst[f.id], s), hub.calls, To(f, g))
         ELSE hub' = [hub EXCEPT !.follows = To(f, g)] /\ UNCHANGED hubPage
      /\ Still
  BY DEF FollowReads
<1> HIDE DEF s, g
<1>2. /\ WorldFields \subseteq DOMAIN hubWorld' /\ hubWorld'.net = hubWorld.net /\ hubWorld'.misjudged = hubWorld.misjudged
      /\ hubWorld'.answered = hubWorld.answered \cup {<<f.id, f.url>>} /\ hubWorld'.dead = dead
      /\ hubWorld'.proxied = hubWorld.proxied
  BY <1>1 DEF HubIInv, HubTyped, WorldFields
<1>3. WorldKeeps(f.id)
  BY <1>2 DEF WorldKeeps, HubIInv, HubTyped
<1>4. \A c \in hub.calls : CallHolds(hubScope, c)
  BY DEF HubIInv, HubTyped
<1>5. CASE f.id \in DOMAIN hub.inst
  <2> DEFINE i == hub.inst[f.id]
             to == ApplySummary(f, i, s)
  <2>1. IsInst(i) /\ InstHolds(hubWorld, f.id, i)
    BY <1>5 DEF HubIInv, HubTyped
  <2>2. dead = IF i.conn = "stopped" THEN hubWorld.dead ELSE hubWorld.dead \ {<<f.id, f.url>>}
    BY <1>5
  <2> HIDE DEF i, dead
  <2>3. CASE i.conn = "stopped" \/ i.url # f.url
    <3>1. to = i
      BY <2>3 DEF ApplySummary
    <3>2. InstHolds(hubWorld', f.id, to)
      BY <1>2, <2>1, <2>2, <2>3, <3>1 DEF InstHolds
    <3>3. IsInst(to) /\ to.url = hub.inst[f.id].url
      BY <2>1, <3>1 DEF i
    <3> QED
      BY <1>1, <1>3, <1>4, <1>5, <3>2, <3>3, UpdateHolds DEF i
  <2>4. CASE ~(i.conn = "stopped" \/ i.url # f.url)
    <3>1. to = [i EXCEPT !.muted = IF @ = AttentionKey(s) THEN @ ELSE "", !.summary = s, !.conn = "connected", !.err = "",
                         !.answeredBy = 0, !.failed = FALSE, !.confirmed = f.url, !.last = hub.now, !.run = s.run]
      BY <2>4 DEF ApplySummary
    <3>2. /\ IsInst(to) /\ to.url = i.url /\ to.source = i.source /\ to.token = i.token
          /\ to.muted \in {"", AttentionKey(s)} /\ to.summary = s /\ to.conn = "connected" /\ to.answeredBy = 0 /\ to.failed = FALSE
      <4> DEFINE m == IF i.muted = AttentionKey(s) THEN i.muted ELSE ""
      <4>1. m \in {"", AttentionKey(s)}
        OBVIOUS
      <4>2. to = [i EXCEPT !.muted = m, !.summary = s, !.conn = "connected", !.err = "",
                           !.answeredBy = 0, !.failed = FALSE, !.confirmed = f.url, !.last = hub.now, !.run = s.run]
        BY <3>1
      <4> HIDE DEF m, to
      <4>3. /\ "url" \in DOMAIN i /\ "source" \in DOMAIN i /\ "token" \in DOMAIN i /\ "muted" \in DOMAIN i
            /\ "summary" \in DOMAIN i /\ "conn" \in DOMAIN i /\ "answeredBy" \in DOMAIN i /\ "failed" \in DOMAIN i
        BY <2>1 DEF IsInst, InstFields
      <4>4. /\ to.url = i.url /\ to.source = i.source /\ to.token = i.token
            /\ to.muted = m /\ to.summary = s /\ to.conn = "connected" /\ to.answeredBy = 0 /\ to.failed = FALSE
        BY <4>2, <4>3
      <4>5. DOMAIN to = DOMAIN i
        BY <4>2
      <4>6. IsInst(to)
        BY <2>1, <4>5 DEF IsInst
      <4> QED
        BY <4>1, <4>4, <4>6
    <3>3. InstHolds(hubWorld', f.id, to)
      BY <1>2, <2>1, <2>4, <3>2 DEF InstHolds
    <3>4. to.url = hub.inst[f.id].url
      BY <3>2 DEF i
    <3> QED
      BY <1>1, <1>3, <1>4, <1>5, <3>2, <3>3, <3>4, UpdateHolds DEF i
  <2> QED
    BY <2>3, <2>4
<1>6. CASE f.id \notin DOMAIN hub.inst
  <2>1. HubFields \subseteq DOMAIN hub' /\ hub'.inst = hub.inst /\ hub'.files = hub.files /\ hub'.calls = hub.calls
    BY <1>1, <1>6 DEF HubIInv, HubTyped, HubFields
  <2>2. \A x \in DOMAIN hub.inst : InstHolds(hubWorld', x, hub.inst[x])
    <3>1. \A x \in DOMAIN hub.inst : SameInst(hub.inst[x], hub.inst[x])
      BY DEF SameInst
    <3> QED
      BY <1>3, <1>6, <3>1, OthersHold DEF HubIInv, HubTyped
  <2>3. HubTyped'
    BY <1>1, <1>2, <2>1 DEF HubIInv, HubTyped, Still
  <2>4. HubIInv'
    BY <1>1, <1>2, <2>1, <2>2, <2>3 DEF HubIInv, DiskHolds, Still
  <2> QED
    BY <2>1, <2>4 DEF HubMove
<1> QED
  BY <1>5, <1>6

\* A watch whose stream failed (streamFailed) keeps the invariant, and what it says of a URL is true of it.
LEMMA FollowFailedHolds ==
    ASSUME HubIInv, NEW f \in hub.follows, FollowFailed(f)
    PROVE  HubIInv' /\ HubMove
<1>1. \A c \in hub.calls : CallHolds(hubScope, c)
  BY DEF HubIInv, HubTyped
<1>2. CASE f.id \in DOMAIN hub.inst
  <2> DEFINE i == hub.inst[f.id]
             to == Failed(f, i)
  <2>1. /\ hubWorld' = [hubWorld EXCEPT !.dead = IF to.failed /\ to # i THEN @ \cup {<<f.id, f.url>>} ELSE @,
                                        !.misjudged = @ \/ (to # i /\ i.url # f.url)]
        /\ Still
    BY <1>2 DEF FollowFailed
  <2>2. PICK follows : Update(f.id, to, hub.calls, follows)
    BY <1>2 DEF FollowFailed
  <2>3. IsInst(i) /\ InstHolds(hubWorld, f.id, i)
    BY <1>2 DEF HubIInv, HubTyped
  <2>4. /\ IsInst(to) /\ to.url = i.url /\ to.source = i.source /\ to.token = i.token /\ to.muted = i.muted /\ to.summary = i.summary
        /\ to.failed \in BOOLEAN /\ (i.failed => to.failed)
        /\ to # i => to.conn # "connected" /\ (to.answeredBy # 0 => to.failed)
    <3> HIDE DEF i
    <3> QED
      BY <2>3 DEF Failed, IsInst, InstFields, InstHolds
  <2> HIDE DEF i, to
  <2>5. /\ WorldFields \subseteq DOMAIN hubWorld' /\ hubWorld'.net = hubWorld.net
        /\ hubWorld'.misjudged \in BOOLEAN /\ (hubWorld.misjudged => hubWorld'.misjudged)
        /\ to # i /\ i.url # f.url => hubWorld'.misjudged
        /\ hubWorld'.answered = hubWorld.answered /\ hubWorld'.proxied = hubWorld.proxied /\ hubWorld.dead \subseteq hubWorld'.dead
        /\ to.failed /\ to # i => <<f.id, f.url>> \in hubWorld'.dead
    BY <2>1 DEF HubIInv, HubTyped, WorldFields
  <2>6. WorldKeeps(f.id)
    BY <2>5 DEF WorldKeeps
  <2>7. InstHolds(hubWorld', f.id, to)
    BY <2>3, <2>4, <2>5 DEF InstHolds
  <2>8. to.url = hub.inst[f.id].url
    BY <2>4 DEF i
  <2> QED
    BY <1>1, <1>2, <2>1, <2>2, <2>4, <2>6, <2>7, <2>8, UpdateHolds
<1>3. CASE f.id \notin DOMAIN hub.inst
  <2>1. PICK follows : hub' = [hub EXCEPT !.follows = follows]
    BY <1>3 DEF FollowFailed
  <2>2. UNCHANGED <<hubDisk, hubScope, hubWorld>>
    BY <1>3 DEF FollowFailed, Still
  <2>3. HubFields \subseteq DOMAIN hub' /\ hub'.inst = hub.inst /\ hub'.files = hub.files /\ hub'.calls = hub.calls
    BY <2>1 DEF HubIInv, HubTyped, HubFields
  <2> QED
    BY <1>1, <2>2, <2>3, WorldUnchanged, HubMovesOn
<1> QED
  BY <1>2, <1>3

-----------------------------------------------------------------------------
(* The handlers.                                                             *)

\* What the hub has of an instance before a change; a new one is nowhere.
LEMMA BeforeHolds ==
    ASSUME HubIInv, NEW id
    PROVE  /\ IsInst(Before(id))
           /\ id \in DOMAIN hub.inst => Before(id) = hub.inst[id] /\ InstHolds(hubWorld, id, Before(id))
           /\ id \notin DOMAIN hub.inst => Before(id) = NewInstance
  BY DEF HubIInv, HubTyped, Before, NewInstance, IsInst, InstFields

\* What the hub starts an instance with.
LEMMA NewInstanceIs ==
    /\ NewInstance.url = Nowhere /\ NewInstance.source = "none" /\ NewInstance.conn = "connecting" /\ NewInstance.answeredBy = 0
    /\ NewInstance.failed = FALSE /\ NewInstance.token = Nowhere /\ NewInstance.muted = "" /\ NewInstance.summary = NoSummary
  BY DEF NewInstance

\* What upsertFromWebhook makes of an instance: it stays as it is, is tried
\* again where it is, or is where the event says.
UpsertIs(to, i, e) ==
    /\ IsInst(to) /\ to.muted = i.muted /\ to.summary = i.summary /\ to.failed \in BOOLEAN
    /\ \/ to = i /\ i.url \notin {Nowhere, e.url}
       \/ /\ to.url = i.url /\ to.source = i.source /\ to.token = i.token /\ to.failed = i.failed
          /\ to.answeredBy = i.answeredBy /\ to.conn = "connecting" /\ i.url \notin {Nowhere, e.url}
       \/ /\ i.url \in {Nowhere, e.url} \/ (i.source # "manual" /\ Dead(i))
          /\ to.url = e.url /\ to.source = (IF i.source = "none" THEN "webhook" ELSE i.source)
          /\ to.token = (IF i.url \in {Nowhere, e.url} THEN i.token ELSE Nowhere)
          /\ \/ to.conn = "connecting" /\ to.failed = FALSE /\ to.answeredBy = 0
             \/ i.url = e.url /\ to.conn = i.conn /\ to.failed = i.failed /\ to.answeredBy = i.answeredBy
\* What an event changes of an instance (upsert): its URL only where the code lets it move.
LEMMA Upserts ==
    ASSUME NEW i, IsInst(i), NEW e, i.failed \in BOOLEAN
    PROVE  UpsertIs(Upserted(i, e), i, e)
<1> DEFINE to == Upserted(i, e)
<1>1. CASE i.url \notin {Nowhere, e.url} /\ RefuseMove(i)
  <2>1. to = IF Restarts(i, e) THEN [i EXCEPT !.conn = "connecting", !.err = ""] ELSE i
    BY <1>1 DEF Upserted
  <2> HIDE DEF to
  <2>2. CASE Restarts(i, e)
    <3>1. to = [i EXCEPT !.conn = "connecting", !.err = ""]
      BY <2>1, <2>2
    <3> QED
      BY <1>1, <3>1 DEF UpsertIs, IsInst, InstFields, to
  <2>3. CASE ~Restarts(i, e)
    BY <1>1, <2>1, <2>3 DEF UpsertIs, to
  <2> QED
    BY <2>2, <2>3
<1>2. CASE ~(i.url \notin {Nowhere, e.url} /\ RefuseMove(i))
  <2> DEFINE moved == i.url \notin {Nowhere, e.url}
             again == Restarts(i, e)
  <2>1. to = [i EXCEPT !.token = IF moved THEN Nowhere ELSE @, !.run = e.run, !.url = e.url, !.hb = e.hb,
                       !.source = IF @ = "none" THEN "webhook" ELSE @, !.last = hub.now,
                       !.conn = IF again THEN "connecting" ELSE @, !.err = IF again THEN "" ELSE @,
                       !.failed = @ /\ ~again, !.answeredBy = IF again THEN 0 ELSE @]
    BY <1>2 DEF Upserted
  <2>2. again \in BOOLEAN /\ (again <=> i.url # e.url \/ i.run # e.run \/ i.conn = "stopped")
    BY <1>2 DEF Restarts
  <2>3. ~moved \/ (i.source # "manual" /\ Dead(i))
    BY <1>2 DEF RefuseMove
  <2> HIDE DEF to, again
  <2>4. /\ IsInst(to) /\ to.muted = i.muted /\ to.summary = i.summary
        /\ to.url = e.url /\ to.source = (IF i.source = "none" THEN "webhook" ELSE i.source)
        /\ to.token = (IF moved THEN Nowhere ELSE i.token)
        /\ to.conn = (IF again THEN "connecting" ELSE i.conn)
        /\ to.answeredBy = (IF again THEN 0 ELSE i.answeredBy)
        /\ to.failed = (i.failed /\ ~again)
    BY <2>1 DEF IsInst, InstFields
  <2>5. to.failed \in BOOLEAN
    BY <2>4
  <2>6. \/ to.conn = "connecting" /\ to.failed = FALSE /\ to.answeredBy = 0
        \/ i.url = e.url /\ to.conn = i.conn /\ to.failed = i.failed /\ to.answeredBy = i.answeredBy
    BY <2>2, <2>4
  <2> QED
    BY <2>3, <2>4, <2>5, <2>6 DEF UpsertIs, to
<1> QED
  BY <1>1, <1>2

\* Taking instance.started or instance.heartbeat (upsert) keeps the invariant; this is where a URL may move.
LEMMA HubUpsertsHolds ==
    ASSUME HubIInv, NEW c \in hub.calls, HubUpserts(c)
    PROVE  HubIInv' /\ HubMove
<1> DEFINE e == hubScope.mail[c.d]
           i == Before(c.id)
           to == Upserted(i, e)
           calls == IF Restarts(i, e) THEN Then(c, "watch") ELSE CallDone(c)
           dead == IF to.url # i.url THEN hubWorld.dead \ {<<c.id, e.url>>} ELSE hubWorld.dead
<1>1. /\ Update(c.id, to, calls, hub.follows) /\ Still
      /\ \E n : hubWorld' = [hubWorld EXCEPT !.applied = n, !.dead = dead]
  BY DEF HubUpserts
<1>2. e.url # Nowhere
  <2>1. c.d \in DOMAIN hubScope.mail
    BY DEF HubUpserts, HubIInv, HubTyped, CallHolds
  <2> QED
    BY <2>1, HubAssumption DEF HubIInv, HubTyped
<1>3. /\ IsInst(i) /\ i.failed \in BOOLEAN
      /\ c.id \in DOMAIN hub.inst => i = hub.inst[c.id] /\ InstHolds(hubWorld, c.id, i)
      /\ c.id \notin DOMAIN hub.inst => i = NewInstance
  BY BeforeHolds, NewInstanceIs DEF InstHolds
<1> HIDE DEF i, e, dead
<1>4. UpsertIs(to, i, e)
  BY <1>3, Upserts
<1> HIDE DEF to
<1>4a. IsInst(to)
  BY <1>4 DEF UpsertIs
<1>5. /\ WorldFields \subseteq DOMAIN hubWorld' /\ hubWorld'.net = hubWorld.net /\ hubWorld'.misjudged = hubWorld.misjudged
      /\ hubWorld'.answered = hubWorld.answered /\ hubWorld'.dead = dead /\ hubWorld'.proxied = hubWorld.proxied
  BY <1>1 DEF HubIInv, HubTyped, WorldFields
<1>6. WorldKeeps(c.id)
  BY <1>5 DEF WorldKeeps, HubIInv, HubTyped, dead
<1>7. InstHolds(hubWorld', c.id, to)
  <2>1. CASE c.id \in DOMAIN hub.inst
    BY <1>2, <1>3, <1>4, <1>5, <2>1 DEF UpsertIs, InstHolds, dead
  <2>2. CASE c.id \notin DOMAIN hub.inst
    <3>1. i.url = Nowhere /\ i.source = "none" /\ i.conn = "connecting" /\ i.token = Nowhere /\ i.muted = ""
      BY <1>3, <2>2, NewInstanceIs
    <3>2. to.url = e.url /\ to.source = "webhook" /\ to.token = Nowhere /\ to.conn = "connecting" /\ to.failed = FALSE /\ to.answeredBy = 0
      BY <1>2, <1>4, <3>1 DEF UpsertIs
    <3> QED
      BY <1>2, <1>4, <3>1, <3>2 DEF UpsertIs, InstHolds
  <2> QED
    BY <2>1, <2>2
<1>8. \A d \in calls : CallHolds(hubScope, d)
  BY CallsHold
<1>9. c.id \in DOMAIN hub.inst /\ to.url # hub.inst[c.id].url =>
          \/ hub.inst[c.id].source # "manual" /\ <<c.id, hub.inst[c.id].url>> \in hubWorld.dead
          \/ hubWorld.misjudged \/ hubWorld'.raced
  BY <1>3, <1>4 DEF UpsertIs, InstHolds, Dead
<1> QED
  BY <1>1, <1>4a, <1>6, <1>7, <1>8, <1>9, UpdateHolds

\* An event that only counts, or that the hub does not take.
LEMMA AppliedKeeps ==
    ASSUME HubIInv, NEW n, hubWorld' = [hubWorld EXCEPT !.applied = n]
    PROVE  SameWorld
  BY DEF HubIInv, HubTyped, SameWorld, WorldFields

\* A request that ends without a change keeps the invariant.
LEMMA CallEnds ==
    ASSUME HubIInv, NEW c \in hub.calls, hub' = [hub EXCEPT !.calls = CallDone(c)], UNCHANGED <<hubDisk, hubScope>>, SameWorld
    PROVE  HubIInv' /\ HubMove
<1>1. HubFields \subseteq DOMAIN hub' /\ hub'.inst = hub.inst /\ hub'.files = hub.files /\ hub'.calls = CallDone(c)
  BY DEF HubIInv, HubTyped, HubFields
<1> QED
  BY <1>1, CallsHold, HubMovesOn

\* Taking instance.stopped keeps the invariant.
LEMMA HubStoppedHolds ==
    ASSUME HubIInv, NEW c \in hub.calls, HubStopped(c)
    PROVE  HubIInv' /\ HubMove
<1> DEFINE e == hubScope.mail[c.d]
           i == Before(c.id)
           to == [i EXCEPT !.conn = "stopped", !.err = "", !.answeredBy = 0, !.last = hub.now]
           taken == c.id \in DOMAIN hub.inst /\ SameRun(i, e) /\ i.source # "manual"
<1>1. /\ IF taken THEN Update(c.id, to, Then(c, "unwatch"), hub.follows)
         ELSE hub' = [hub EXCEPT !.calls = CallDone(c)] /\ UNCHANGED hubPage
      /\ \E n : hubWorld' = [hubWorld EXCEPT !.applied = n]
      /\ Still
  BY DEF HubStopped
<1>2. SameWorld
  BY <1>1, AppliedKeeps
<1>3. CASE taken
  <2>1. c.id \in DOMAIN hub.inst /\ i = hub.inst[c.id] /\ IsInst(i) /\ InstHolds(hubWorld, c.id, i)
    BY <1>3, BeforeHolds
  <2> HIDE DEF i
  <2>2. IsInst(to) /\ to.url = i.url /\ to.source = i.source /\ to.failed = i.failed /\ to.token = i.token
        /\ to.muted = i.muted /\ to.summary = i.summary /\ to.conn = "stopped" /\ to.answeredBy = 0
    BY <2>1 DEF IsInst, InstFields
  <2> HIDE DEF to
  <2>3. InstHolds(hubWorld', c.id, to)
    BY <1>2, <2>1, <2>2 DEF InstHolds, SameWorld
  <2>4. WorldKeeps(c.id) /\ \A d \in Then(c, "unwatch") : CallHolds(hubScope, d)
    BY <1>2, SameWorldKeeps, CallsHold
  <2> QED
    BY <1>1, <1>3, <2>1, <2>2, <2>3, <2>4, UpdateHolds
<1>4. CASE ~taken
  BY <1>1, <1>2, <1>4, CallEnds DEF Still
<1> QED
  BY <1>3, <1>4

\* Taking any other event, which says that the instance is alive, keeps the invariant.
LEMMA HubHearsHolds ==
    ASSUME HubIInv, NEW c \in hub.calls, HubHears(c)
    PROVE  HubIInv' /\ HubMove
<1> DEFINE e == hubScope.mail[c.d]
           i == hub.inst[c.id]
           to == [i EXCEPT !.last = hub.now]
           taken == c.id \in DOMAIN hub.inst /\ SameRun(i, e)
<1>1. /\ IF taken THEN Update(c.id, to, CallDone(c), hub.follows)
         ELSE hub' = [hub EXCEPT !.calls = CallDone(c)] /\ UNCHANGED hubPage
      /\ \E n : hubWorld' = [hubWorld EXCEPT !.applied = n]
      /\ Still
  BY DEF HubHears
<1>2. SameWorld
  BY <1>1, AppliedKeeps
<1>3. CASE taken
  <2>1. c.id \in DOMAIN hub.inst /\ IsInst(i) /\ InstHolds(hubWorld, c.id, i) /\ i = hub.inst[c.id]
    BY <1>3 DEF HubIInv, HubTyped
  <2> HIDE DEF i
  <2>2. IsInst(to) /\ to.url = i.url /\ to.source = i.source /\ to.failed = i.failed /\ to.token = i.token
        /\ to.muted = i.muted /\ to.summary = i.summary /\ to.conn = i.conn /\ to.answeredBy = i.answeredBy
    BY <2>1 DEF IsInst, InstFields
  <2> HIDE DEF to
  <2>3. InstHolds(hubWorld', c.id, to)
    BY <1>2, <2>1, <2>2 DEF InstHolds, SameWorld
  <2>4. WorldKeeps(c.id) /\ \A d \in CallDone(c) : CallHolds(hubScope, d)
    BY <1>2, SameWorldKeeps, CallsHold
  <2> QED
    BY <1>1, <1>3, <2>1, <2>2, <2>3, <2>4, UpdateHolds
<1>4. CASE ~taken
  BY <1>1, <1>2, <1>4, CallEnds DEF Still
<1> QED
  BY <1>3, <1>4

\* watch, unwatch and unwatchStopped change the watches only.
LEMMA WatchKeeps ==
    ASSUME NEW h, HubFields \subseteq DOMAIN h, NEW id
    PROVE  /\ LET g == Watch(h, id) IN HubFields \subseteq DOMAIN g /\ g.inst = h.inst /\ g.files = h.files /\ g.calls = h.calls
           /\ LET g == Unwatch(h, id) IN HubFields \subseteq DOMAIN g /\ g.inst = h.inst /\ g.files = h.files /\ g.calls = h.calls
           /\ LET g == UnwatchStopped(h, id) IN HubFields \subseteq DOMAIN g /\ g.inst = h.inst /\ g.files = h.files /\ g.calls = h.calls
  BY DEF Watch, Unwatch, UnwatchStopped, HubFields

\* Starting or stopping a watch after a request (watch, unwatch) keeps the invariant.
LEMMA HubWatchesHolds ==
    ASSUME HubIInv, NEW c \in hub.calls, HubWatches(c) \/ HubUnwatches(c)
    PROVE  HubIInv' /\ HubMove
<1>1. PICK g : HubFields \subseteq DOMAIN g /\ g.inst = hub.inst /\ g.files = hub.files /\ hub' = [g EXCEPT !.calls = CallDone(c)]
  <2>1. HubFields \subseteq DOMAIN hub
    BY DEF HubIInv, HubTyped
  <2>2. CASE HubWatches(c)
    BY <2>1, <2>2, WatchKeeps DEF HubWatches
  <2>3. CASE HubUnwatches(c)
    BY <2>1, <2>3, WatchKeeps DEF HubUnwatches
  <2> QED
    BY <2>2, <2>3
<1>2. UNCHANGED <<hubDisk, hubScope, hubWorld>>
  BY DEF HubWatches, HubUnwatches, Quietly
<1>3. HubFields \subseteq DOMAIN hub' /\ hub'.inst = hub.inst /\ hub'.files = hub.files /\ hub'.calls = CallDone(c)
  BY <1>1 DEF HubFields
<1> QED
  BY <1>2, <1>3, CallsHold, WorldUnchanged, HubMovesOn

\* POST /instances refusing an instance the hub has elsewhere keeps the invariant.
LEMMA AddChecksHolds ==
    ASSUME HubIInv, NEW c \in hub.calls, AddChecks(c)
    PROVE  HubIInv' /\ HubMove
<1>1. PICK calls : hub' = [hub EXCEPT !.calls = calls] /\ calls \in {Then(c, "update"), CallDone(c)}
  BY DEF AddChecks
<1>2. c.pc = "check" /\ UNCHANGED <<hubDisk, hubScope, hubWorld>>
  BY DEF AddChecks, Quietly
<1>3. HubFields \subseteq DOMAIN hub' /\ hub'.inst = hub.inst /\ hub'.files = hub.files /\ hub'.calls = calls
  BY <1>1 DEF HubIInv, HubTyped, HubFields
<1>4. \A d \in calls : CallHolds(hubScope, d)
  BY <1>1, <1>2, CallsHold
<1> QED
  BY <1>2, <1>3, <1>4, WorldUnchanged, HubMovesOn

\* POST /instances, taking what the URL answered under the lock, keeps the invariant.
LEMMA AddUpdatesHolds ==
    ASSUME HubIInv, NEW c \in hub.calls, AddUpdates(c)
    PROVE  HubIInv' /\ HubMove
<1> DEFINE i == Before(c.id)
           to == [i EXCEPT !.run = c.summary.run, !.url = c.url, !.token = c.url, !.source = "manual",
                           !.last = hub.now, !.summary = c.summary, !.conn = "connected", !.err = "",
                           !.confirmed = c.url, !.failed = FALSE, !.answeredBy = 0]
<1>1. /\ Update(c.id, to, Then(c, "watch"), hub.follows) /\ Still /\ c.pc = "update"
      /\ hubWorld' = [hubWorld EXCEPT !.answered = @ \cup {<<c.id, c.url>>}, !.dead = @ \ {<<c.id, c.url>>},
                                      !.raced = @ \/ i.url \notin {Nowhere, c.url}]
  BY DEF AddUpdates
<1>2. c.url # Nowhere
  BY <1>1 DEF HubIInv, HubTyped, CallHolds
<1>3. IsInst(i) /\ (c.id \in DOMAIN hub.inst => i = hub.inst[c.id] /\ InstHolds(hubWorld, c.id, i))
  BY BeforeHolds
<1> HIDE DEF i
<1>4. IsInst(to) /\ to.url = c.url /\ to.token = c.url /\ to.source = "manual" /\ to.conn = "connected" /\ to.failed = FALSE /\ to.answeredBy = 0
  BY <1>3 DEF IsInst, InstFields
<1> HIDE DEF to
<1>5. /\ WorldFields \subseteq DOMAIN hubWorld' /\ hubWorld'.net = hubWorld.net /\ hubWorld'.misjudged = hubWorld.misjudged
      /\ hubWorld'.answered = hubWorld.answered \cup {<<c.id, c.url>>} /\ hubWorld'.dead = hubWorld.dead \ {<<c.id, c.url>>}
      /\ hubWorld'.proxied = hubWorld.proxied /\ (i.url \notin {Nowhere, c.url} => hubWorld'.raced)
  BY <1>1 DEF HubIInv, HubTyped, WorldFields
<1>6. WorldKeeps(c.id)
  BY <1>5 DEF WorldKeeps, HubIInv, HubTyped
<1>7. InstHolds(hubWorld', c.id, to)
  BY <1>2, <1>4, <1>5 DEF InstHolds
<1>8. c.id \in DOMAIN hub.inst /\ to.url # hub.inst[c.id].url => hubWorld'.raced
  BY <1>3, <1>4, <1>5 DEF InstHolds
<1> QED
  BY <1>1, <1>4, <1>6, <1>7, <1>8, CallsHold, UpdateHolds

-----------------------------------------------------------------------------
(* Removing, pinning, and the rest of the page's requests.                   *)

\* A step that forgets instances, or changes what Update derives.
LEMMA FewerInstances ==
    ASSUME HubIInv, HubFields \subseteq DOMAIN hub', DOMAIN hub'.files = Files, DOMAIN hub'.inst \subseteq DOMAIN hub.inst,
           \A x \in DOMAIN hub'.inst : IsInst(hub'.inst[x]) /\ SameInst(hub'.inst[x], hub.inst[x]),
           \A c \in hub'.calls : CallHolds(hubScope, c), UNCHANGED <<hubDisk, hubScope>>, SameWorld
    PROVE  HubIInv' /\ HubMove
<1>1. ASSUME NEW x \in DOMAIN hub'.inst PROVE InstHolds(hubWorld', x, hub'.inst[x])
  <2>1. InstHolds(hubWorld, x, hub.inst[x]) /\ SameInst(hub'.inst[x], hub.inst[x])
    BY DEF HubIInv
  <2> QED
    BY <2>1 DEF InstHolds, SameInst, SameWorld
<1>2. HubTyped'
  BY DEF HubIInv, HubTyped, SameWorld
<1> QED
  BY <1>1, <1>2 DEF HubIInv, DiskHolds, HubMove, SameWorld, SameInst

\* Marking a file dirty keeps the set of files.
LEMMA MarkKeeps ==
    ASSUME NEW files, NEW f, NEW b PROVE DOMAIN Mark(files, f, b) = DOMAIN files
  BY DEF Mark

\* DELETE of an instance, under the lock, keeps the invariant.
LEMMA HubForgetsHolds ==
    ASSUME HubIInv, NEW c \in hub.calls, HubForgets(c)
    PROVE  HubIInv' /\ HubMove
<1> DEFINE rest == Restrict(hub.inst, DOMAIN hub.inst \ {c.id})
           inst == NumberPins(rest)
<1>1. UNCHANGED <<hubDisk, hubWorld, hubScope>> /\ SameWorld
  BY WorldUnchanged DEF HubForgets
<1>2. CASE c.id \notin DOMAIN hub.inst
  BY <1>1, <1>2, CallEnds DEF HubForgets
<1>3. CASE c.id \in DOMAIN hub.inst
  <2>1. hub' = [hub EXCEPT !.inst = inst, !.calls = CallDone(c), !.files = Mark(@, "instances", TRUE)]
    BY <1>3 DEF HubForgets
  <2>2. DOMAIN rest = DOMAIN hub.inst \ {c.id} /\ \A x \in DOMAIN rest : rest[x] = hub.inst[x]
    BY DEF Restrict
  <2> HIDE DEF rest
  <2>3. \A x \in DOMAIN rest : IsInst(rest[x])
    BY <2>2 DEF HubIInv, HubTyped
  <2>4. DOMAIN inst = DOMAIN rest /\ \A x \in DOMAIN rest : IsInst(inst[x]) /\ SameInst(inst[x], rest[x])
    BY <2>3, NumberPinsKeeps
  <2> HIDE DEF inst
  <2>5. /\ HubFields \subseteq DOMAIN hub' /\ hub'.inst = inst /\ hub'.calls = CallDone(c)
        /\ hub'.files = Mark(hub.files, "instances", TRUE)
    BY <2>1 DEF HubIInv, HubTyped, HubFields
  <2>6. DOMAIN hub'.files = Files
    BY <2>5 DEF Mark, HubIInv, HubTyped
  <2> QED
    BY <1>1, <2>2, <2>4, <2>5, <2>6, CallsHold, FewerInstances
<1> QED
  BY <1>2, <1>3

\* The arrival of a request (an event, an add, a removal, new favorites) keeps the invariant.
LEMMA RequestsHold ==
    ASSUME HubIInv, \/ \E d \in DOMAIN hubScope.mail : Receives(d)
                    \/ \E u \in DOMAIN hubScope.net : HubAdds(u)
                    \/ \E id \in DOMAIN hub.inst : HubRemoves(id)
                    \/ \E v \in hubScope.favorites : HubSetsFavorites(v)
    PROVE  HubIInv' /\ HubMove
<1>0. HubFields \subseteq DOMAIN hub /\ DOMAIN hub.files = Files /\ \A c \in hub.calls : CallHolds(hubScope, c)
  BY DEF HubIInv, HubTyped
<1>1. ASSUME NEW d \in DOMAIN hubScope.mail, Receives(d) PROVE HubIInv' /\ HubMove
  <2> DEFINE call == [op |-> "event", d |-> d, id |-> hubScope.mail[d].id, pc |-> "handle"]
  <2>1. SameWorld /\ UNCHANGED <<hubDisk, hubScope>>
    BY <1>1, SpentKeeps DEF Receives, Quietly, Counters
  <2>2. CallHolds(hubScope, call)
    BY DEF CallHolds
  <2>3. /\ HubFields \subseteq DOMAIN hub' /\ hub'.inst = hub.inst /\ DOMAIN hub'.files = DOMAIN hub.files
        /\ \A c \in hub'.calls : c \in hub.calls \/ c = call
    <3>1. CASE UNCHANGED hub
      BY <1>0, <3>1
    <3>2. CASE hub' = [hub EXCEPT !.order = Remember(@, d), !.files = Mark(@, "deliveries", TRUE), !.calls = Begin(call)]
      <4>1. PICK order, files, calls : /\ order = Remember(hub.order, d) /\ files = Mark(hub.files, "deliveries", TRUE)
                                       /\ calls = Begin(call)
        OBVIOUS
      <4>2. hub' = [hub EXCEPT !.order = order, !.files = files, !.calls = calls]
        BY <3>2, <4>1
      <4>3. HubFields \subseteq DOMAIN hub' /\ hub'.inst = hub.inst /\ hub'.files = files /\ hub'.calls = calls
        BY <1>0, <4>2 DEF HubFields
      <4>4. DOMAIN files = DOMAIN hub.files /\ \A c \in calls : c \in hub.calls \/ c = call
        BY <4>1, MarkKeeps DEF Begin
      <4> QED
        BY <4>3, <4>4
    <3> QED
      BY <1>1, <3>1, <3>2 DEF Receives
  <2> QED
    BY <1>0, <2>1, <2>2, <2>3, HubMovesOn
<1>2. ASSUME NEW u \in DOMAIN hubScope.net, HubAdds(u) PROVE HubIInv' /\ HubMove
  <2> DEFINE a == hubWorld.net[u]
             call == [op |-> "add", id |-> a.id, url |-> u, pc |-> "check", summary |-> [run |-> a.run, does |-> a.does]]
  <2>1. SameWorld /\ UNCHANGED <<hubDisk, hubScope>>
    BY <1>2, SpentKeeps DEF HubAdds, Quietly, Counters
  <2>2. CallHolds(hubScope, call)
    BY HubAssumption DEF CallHolds, HubIInv, HubTyped
  <2>3. /\ HubFields \subseteq DOMAIN hub' /\ hub'.inst = hub.inst /\ hub'.files = hub.files
        /\ \A c \in hub'.calls : c \in hub.calls \/ c = call
    <3>1. hub' = hub \/ hub' = [hub EXCEPT !.calls = Begin(call)]
      BY <1>2 DEF HubAdds
    <3> QED
      BY <1>0, <3>1 DEF HubFields, Begin
  <2> QED
    BY <1>0, <2>1, <2>2, <2>3, HubMovesOn
<1>3. ASSUME NEW id \in DOMAIN hub.inst, HubRemoves(id) PROVE HubIInv' /\ HubMove
  <2> DEFINE call == [op |-> "remove", id |-> id, pc |-> "remove"]
             g == Unwatch(hub, id)
  <2>1. SameWorld /\ UNCHANGED <<hubDisk, hubScope>>
    BY <1>3, SpentKeeps DEF HubRemoves, Quietly, Counters
  <2>2. CallHolds(hubScope, call)
    BY DEF CallHolds
  <2>3. HubFields \subseteq DOMAIN g /\ g.inst = hub.inst /\ g.files = hub.files
    BY <1>0, WatchKeeps
  <2>4. hub' = [g EXCEPT !.calls = Begin(call)]
    BY <1>3 DEF HubRemoves
  <2> HIDE DEF g
  <2>5. HubFields \subseteq DOMAIN hub' /\ hub'.inst = hub.inst /\ hub'.files = hub.files /\ hub'.calls = Begin(call)
    BY <2>3, <2>4 DEF HubFields
  <2> QED
    BY <1>0, <2>1, <2>2, <2>5, HubMovesOn DEF Begin
<1>4. ASSUME NEW v \in hubScope.favorites, HubSetsFavorites(v) PROVE HubIInv' /\ HubMove
  <2>1. SameWorld /\ UNCHANGED <<hubDisk, hubScope>>
    BY <1>4, SpentKeeps DEF HubSetsFavorites, Still, Counters
  <2>2. hub' = [hub EXCEPT !.favorites = v, !.files = Mark(@, "instances", TRUE)]
    BY <1>4 DEF HubSetsFavorites
  <2>3. HubFields \subseteq DOMAIN hub' /\ hub'.inst = hub.inst /\ DOMAIN hub'.files = DOMAIN hub.files /\ hub'.calls = hub.calls
    BY <1>0, <2>2, MarkKeeps DEF HubFields
  <2> QED
    BY <1>0, <2>1, <2>3, HubMovesOn
<1> QED
  BY <1>1, <1>2, <1>3, <1>4

\* A proxied request goes where its instance answered: the step HubProxiesHome is about.
LEMMA HubProxiesHolds ==
    ASSUME HubIInv, NEW id \in DOMAIN hub.inst, HubProxies(id)
    PROVE  HubIInv' /\ HubMove
<1>1. UNCHANGED <<hub, hubDisk, hubScope>> /\ hubWorld' = [hubWorld EXCEPT !.proxied = @ \cup {<<id, hub.inst[id].url>>}]
  BY DEF HubProxies, Quietly, Happened
<1>2. hub.inst[id].conn = "connected"
  BY DEF HubProxies, MayProxy
<1>3. <<id, hub.inst[id].url>> \in hubWorld.answered
  BY <1>2 DEF HubIInv, InstHolds
<1>4. /\ WorldFields \subseteq DOMAIN hubWorld' /\ hubWorld'.net = hubWorld.net
      /\ hubWorld'.misjudged = hubWorld.misjudged /\ hubWorld'.dead = hubWorld.dead /\ hubWorld'.answered = hubWorld.answered
      /\ hubWorld'.proxied = hubWorld.proxied \cup {<<id, hub.inst[id].url>>}
  BY <1>1 DEF HubIInv, HubTyped, WorldFields
<1>5. HubFields \subseteq DOMAIN hub' /\ \A c \in hub'.calls : CallHolds(hubScope, c)
  BY <1>1 DEF HubIInv, HubTyped
<1>6. hubWorld'.proxied \subseteq hubWorld'.answered
  BY <1>3, <1>4 DEF HubIInv
<1> QED
  BY <1>1, <1>4, <1>5, <1>6, SameInstances

\* PATCH of an instance (its name, its mute) keeps the invariant.
LEMMA HubPatchesHolds ==
    ASSUME HubIInv, NEW id \in DOMAIN hub.inst, NEW p, HubPatches(id, p)
    PROVE  HubIInv' /\ HubMove
<1> DEFINE i == hub.inst[id]
           to == Patched(i, p)
<1>1. Update(id, to, hub.calls, hub.follows) /\ Still /\ SameWorld
  BY SpentKeeps DEF HubPatches, Counters
<1>2. IsInst(i) /\ InstHolds(hubWorld, id, i) /\ i = hub.inst[id]
  BY DEF HubIInv, HubTyped
<1> HIDE DEF i
<1>3. /\ IsInst(to) /\ to.url = i.url /\ to.source = i.source /\ to.failed = i.failed /\ to.token = i.token
      /\ to.summary = i.summary /\ to.conn = i.conn /\ to.answeredBy = i.answeredBy
      /\ to.muted \in {i.muted, "", AttentionKey(i.summary)}
  BY <1>2 DEF Patched, IsInst, InstFields
<1> HIDE DEF to
<1>4. InstHolds(hubWorld', id, to)
  BY <1>1, <1>2, <1>3 DEF InstHolds, SameWorld
<1>5. WorldKeeps(id) /\ \A c \in hub.calls : CallHolds(hubScope, c)
  BY <1>1, SameWorldKeeps DEF HubIInv, HubTyped
<1> QED
  BY <1>1, <1>2, <1>3, <1>4, <1>5, UpdateHolds

\* PUT of the pins keeps the invariant.
LEMMA HubSetsPinsHolds ==
    ASSUME HubIInv, NEW ids, HubSetsPins(ids)
    PROVE  HubIInv' /\ HubMove
<1> DEFINE inst == [id \in DOMAIN hub.inst |->
                      IF id \in Range(ids) THEN [hub.inst[id] EXCEPT !.pin = CHOOSE n \in DOMAIN ids : ids[n] = id] ELSE hub.inst[id]]
<1>1. SameWorld /\ UNCHANGED <<hubDisk, hubScope>>
  BY SpentKeeps DEF HubSetsPins, Still, Counters
<1>2. \A c \in hub.calls : CallHolds(hubScope, c)
  BY DEF HubIInv, HubTyped
<1>3. CASE UNCHANGED hub
  <2>1. HubFields \subseteq DOMAIN hub'
    BY <1>3 DEF HubIInv, HubTyped
  <2> QED
    BY <1>1, <1>2, <1>3, <2>1, HubMovesOn
<1>4. CASE \E b : hub' = [hub EXCEPT !.inst = inst, !.files = Mark(@, "instances", b)]
  <2>1. DOMAIN inst = DOMAIN hub.inst /\ \A x \in DOMAIN inst : IsInst(inst[x]) /\ SameInst(inst[x], hub.inst[x])
    <3>1. \A x \in DOMAIN hub.inst : IsInst(hub.inst[x])
      BY DEF HubIInv, HubTyped
    <3> QED
      BY <3>1 DEF IsInst, InstFields, SameInst
  <2> HIDE DEF inst
  <2>2. HubFields \subseteq DOMAIN hub' /\ hub'.inst = inst /\ DOMAIN hub'.files = Files /\ hub'.calls = hub.calls
    BY <1>4, MarkKeeps DEF HubIInv, HubTyped, HubFields
  <2> QED
    BY <1>1, <1>2, <2>1, <2>2, FewerInstances
<1> QED
  BY <1>3, <1>4 DEF HubSetsPins

-----------------------------------------------------------------------------
(* The files, and the hub's runs.                                            *)

LEMMA FileBeginsHolds ==
    ASSUME HubIInv, NEW f \in Files, FileBegins(f)
    PROVE  HubIInv' /\ HubMove
<1>1. UNCHANGED <<hubDisk, hubScope, hubWorld>>
  BY DEF FileBegins, Quietly
<1>2. PICK files : hub' = [hub EXCEPT !.files = files] /\ DOMAIN files = DOMAIN hub.files
  BY DEF FileBegins, HubIInv, HubTyped, HubFields
<1>3. HubFields \subseteq DOMAIN hub' /\ hub'.inst = hub.inst /\ hub'.files = files /\ hub'.calls = hub.calls
  BY <1>2 DEF HubIInv, HubTyped, HubFields
<1>4. \A c \in hub.calls : CallHolds(hubScope, c)
  BY DEF HubIInv, HubTyped
<1> QED
  BY <1>1, <1>2, <1>3, <1>4, WorldUnchanged, HubMovesOn

\* A row is as sound as the instance it is of.
LEMMA SnapshotIsSound ==
    ASSUME HubIInv PROVE FileIsSound(Snapshot("instances"))
<1>1. Snapshot("instances") = [instances |-> [id \in DOMAIN hub.inst |-> Stored(hub.inst[id])], favorites |-> hub.favorites]
  BY DEF Snapshot
<1>2. ASSUME NEW id \in DOMAIN hub.inst PROVE RowIsSound(Stored(hub.inst[id]))
  <2>1. InstHolds(hubWorld, id, hub.inst[id])
    BY DEF HubIInv
  <2> QED
    BY <2>1 DEF InstHolds, RowIsSound, Stored, Kept
<1> QED
  BY <1>1, <1>2 DEF FileIsSound

\* A file the hub writes holds rows that are sound, whether the write succeeds or not.
LEMMA FileWritesHolds ==
    ASSUME HubIInv, NEW f \in Files, NEW ok \in BOOLEAN, FileWrites(f, ok)
    PROVE  HubIInv' /\ HubMove
<1>1. hubDisk' = IF ok THEN [hubDisk EXCEPT ![f] = Snapshot(f)] ELSE hubDisk
  BY DEF FileWrites
<1>2. UNCHANGED hubScope /\ \E n : hubWorld' = [hubWorld EXCEPT !.faults = n]
  BY DEF FileWrites
<1>3. SameWorld
  BY <1>2 DEF HubIInv, HubTyped, SameWorld, WorldFields
<1>4. PICK files : hub' = [hub EXCEPT !.files = files] /\ DOMAIN files = DOMAIN hub.files
  <2>1. PICK g : g = [hub.files[f] EXCEPT !.writing = "no", !.pending = @ \/ ~ok, !.closed = hub.up = "closing"]
    OBVIOUS
  <2>2. hub' = [hub EXCEPT !.files[f] = g]
    BY <2>1 DEF FileWrites
  <2>3. hub' = [hub EXCEPT !.files = [hub.files EXCEPT ![f] = g]]
    BY <2>2
  <2>4. DOMAIN [hub.files EXCEPT ![f] = g] = DOMAIN hub.files
    OBVIOUS
  <2> QED
    BY <2>3, <2>4
<1>5. HubFields \subseteq DOMAIN hub' /\ hub'.inst = hub.inst /\ hub'.files = files /\ hub'.calls = hub.calls
  BY <1>4 DEF HubIInv, HubTyped, HubFields
<1>6. DiskFields \subseteq DOMAIN hubDisk' /\ DiskHolds'
  <2>1. f \in {"instances", "deliveries"} /\ DiskFields \subseteq DOMAIN hubDisk /\ DiskHolds
    BY DEF Files, HubIInv, HubTyped
  <2>2. CASE hubDisk' = hubDisk
    BY <2>1, <2>2 DEF DiskHolds
  <2>3. CASE f = "instances" /\ hubDisk' = [hubDisk EXCEPT ![f] = Snapshot(f)]
    <3>1. hubDisk'.instances = Snapshot("instances") /\ DiskFields \subseteq DOMAIN hubDisk'
      BY <2>1, <2>3 DEF DiskFields
    <3> QED
      BY <3>1, SnapshotIsSound DEF DiskHolds
  <2>4. CASE f = "deliveries" /\ hubDisk' = [hubDisk EXCEPT ![f] = Snapshot(f)]
    <3>1. hubDisk'.instances = hubDisk.instances /\ DiskFields \subseteq DOMAIN hubDisk'
      BY <2>1, <2>4 DEF DiskFields
    <3> QED
      BY <2>1, <3>1 DEF DiskHolds
  <2> QED
    BY <1>1, <2>1, <2>2, <2>3, <2>4
<1>7. HubTyped'
  BY <1>2, <1>3, <1>4, <1>5, <1>6 DEF HubIInv, HubTyped, SameWorld
<1>8. \A x \in DOMAIN hub'.inst : InstHolds(hubWorld', x, hub'.inst[x])
  <2>1. \A x \in DOMAIN hub.inst : InstHolds(hubWorld, x, hub.inst[x])
    BY DEF HubIInv
  <2> QED
    BY <1>3, <1>5, <2>1, SameWorldHolds DEF SameWorld
<1> QED
  BY <1>3, <1>5, <1>6, <1>7, <1>8 DEF HubIInv, HubMove, SameWorld

\* A step of a hub that is down.
LEMMA FileEditedHolds ==
    ASSUME HubIInv, NEW data \in hubScope.files, FileEdited(data)
    PROVE  HubIInv' /\ HubMove
<1>1. UNCHANGED <<hub, hubScope>> /\ hubDisk' = [hubDisk EXCEPT !.instances = data] /\ SameWorld
  BY SpentKeeps DEF FileEdited, Counters
<1>2. hubDisk'.instances = data /\ DiskFields \subseteq DOMAIN hubDisk'
  BY <1>1 DEF HubIInv, HubTyped, DiskFields
<1>3. data \in {Damaged, Newer} \/ FileIsSound(data)
  BY HubAssumption DEF HubIInv, HubTyped
<1>4. HubTyped' /\ DiskHolds'
  BY <1>1, <1>2, <1>3 DEF HubIInv, HubTyped, DiskHolds, SameWorld
<1>5. \A x \in DOMAIN hub'.inst : InstHolds(hubWorld', x, hub'.inst[x])
  BY <1>1 DEF HubIInv, InstHolds, SameWorld
<1> QED
  BY <1>1, <1>4, <1>5 DEF HubIInv, HubMove, SameWorld

\* An instance that the hub kept, as it starts.
LEMMA RestoredHolds ==
    ASSUME NEW w, NEW id, NEW row, RowIsSound(row)
    PROVE  IsInst(Restored(row)) /\ InstHolds(w, id, Restored(row))
<1> DEFINE k == row.kept
           url == IF k.confirmed # Nowhere /\ k.source # "manual" THEN k.confirmed ELSE k.url
           i == [NewInstance EXCEPT !.url = url,
                   !.run = k.run, !.source = k.source, !.conn = IF k.stopped THEN "stopped" ELSE "connecting",
                   !.confirmed = k.confirmed, !.token = k.token, !.pin = k.pin, !.group = k.group, !.muted = k.muted,
                   !.hb = k.hb, !.changed = k.changed, !.activity = k.activity, !.last = row.last, !.since = row.since, !.spans = row.spans]
<1>1. Restored(row) = i \/ \E end : Restored(row) = EndSpan(i, end)
  BY DEF Restored
<1>2. /\ url # Nowhere /\ k.source \in {"webhook", "manual"}
      /\ k.token # Nowhere => k.source = "manual" /\ k.token = url
  BY DEF RowIsSound
<1> HIDE DEF k, url
<1>3. /\ IsInst(i) /\ i.url = url /\ i.source = k.source /\ i.token = k.token /\ i.conn \in {"stopped", "connecting"}
      /\ i.summary = NoSummary /\ i.failed = FALSE /\ i.answeredBy = 0
  BY DEF NewInstance, IsInst, InstFields
<1> HIDE DEF i
<1>4. InstHolds(w, id, i)
  BY <1>2, <1>3 DEF InstHolds
<1>5. IsInst(Restored(row)) /\ SameInst(Restored(row), i)
  BY <1>1, <1>3, EndSpanKeeps DEF SameInst
<1> QED
  BY <1>4, <1>5 DEF InstHolds, SameInst

\* A hub that starts reads rows that are sound from its file, and so begins in the invariant.
LEMMA HubStartsHolds ==
    ASSUME HubIInv, HubStarts
    PROVE  HubIInv' /\ HubMove
<1> DEFINE file == IF hubDisk.instances = Damaged THEN NoFile ELSE hubDisk.instances
           rows == [id \in DOMAIN file.instances |-> Restored(file.instances[id])]
           inst == NumberPins(rows)
<1>1. /\ hub' = NewHub("new", inst, file.favorites, hubDisk.deliveries.order, hub.now)
      /\ \E bak : hubDisk' = [hubDisk EXCEPT !.instances = file, !.bak = bak]
      /\ UNCHANGED hubScope /\ SameWorld
  BY SpentKeeps DEF HubStarts, Counters
<1>2. FileIsSound(file)
  <2>1. FileIsSound(NoFile)
    BY DEF FileIsSound, NoFile
  <2> QED
    BY <2>1 DEF HubStarts, HubIInv, DiskHolds
<1> HIDE DEF file
<1>3. DOMAIN rows = DOMAIN file.instances /\ \A id \in DOMAIN rows : IsInst(rows[id]) /\ InstHolds(hubWorld', id, rows[id])
  BY <1>2, RestoredHolds DEF FileIsSound
<1> HIDE DEF rows
<1>4. DOMAIN inst = DOMAIN rows /\ \A id \in DOMAIN rows : IsInst(inst[id]) /\ SameInst(inst[id], rows[id])
  BY <1>3, NumberPinsKeeps
<1> HIDE DEF inst
<1>5. ASSUME NEW id \in DOMAIN inst PROVE InstHolds(hubWorld', id, inst[id])
  <2>1. InstHolds(hubWorld', id, rows[id]) /\ SameInst(inst[id], rows[id])
    BY <1>3, <1>4
  <2> QED
    BY <2>1 DEF InstHolds, SameInst
<1>6. HubFields \subseteq DOMAIN hub' /\ hub'.inst = inst /\ hub'.calls = {} /\ DOMAIN hub'.files = Files
  BY <1>1 DEF NewHub, HubFields
<1>7. DiskFields \subseteq DOMAIN hubDisk' /\ DiskHolds'
  <2>1. DiskFields \subseteq DOMAIN hubDisk' /\ hubDisk'.instances = file
    BY <1>1 DEF HubIInv, HubTyped, DiskFields
  <2> QED
    BY <1>2, <2>1 DEF DiskHolds
<1>8. HubTyped'
  BY <1>1, <1>3, <1>4, <1>6, <1>7 DEF HubIInv, HubTyped, SameWorld
<1>9. hub.up = "down"
  BY DEF HubStarts
<1> QED
  BY <1>1, <1>5, <1>6, <1>7, <1>8, <1>9 DEF HubIInv, HubMove, SameWorld

\* Starting the watches of what was read, and a signal to stop, keep the invariant.
LEMMA HubRunsHold ==
    ASSUME HubIInv, HubRuns \/ (\E id \in hub.starting : HubRunWatches(id)) \/ HubStops
    PROVE  HubIInv' /\ HubMove
<1>0. HubFields \subseteq DOMAIN hub /\ \A c \in hub.calls : CallHolds(hubScope, c)
  BY DEF HubIInv, HubTyped
<1>1. UNCHANGED <<hubDisk, hubScope>> /\ SameWorld
  BY SpentKeeps, WorldUnchanged DEF HubRuns, HubRunWatches, HubStops, Quietly, Counters
<1>2. HubFields \subseteq DOMAIN hub' /\ hub'.inst = hub.inst /\ hub'.files = hub.files /\ hub'.calls = hub.calls
  <2>1. CASE HubRuns
    BY <1>0, <2>1 DEF HubRuns, HubFields
  <2>2. ASSUME NEW id \in hub.starting, HubRunWatches(id)
        PROVE  HubFields \subseteq DOMAIN hub' /\ hub'.inst = hub.inst /\ hub'.files = hub.files /\ hub'.calls = hub.calls
    <3>1. PICK g : HubFields \subseteq DOMAIN g /\ g.inst = hub.inst /\ g.files = hub.files /\ g.calls = hub.calls
                   /\ \E s : hub' = [g EXCEPT !.starting = s]
      BY <1>0, <2>2, WatchKeeps DEF HubRunWatches
    <3> QED
      BY <3>1 DEF HubFields
  <2>3. CASE HubStops
    BY <1>0, <2>3 DEF HubStops, HubFields
  <2> QED
    BY <2>1, <2>2, <2>3
<1> QED
  BY <1>0, <1>1, <1>2, HubMovesOn

\* The ends of a hub (closed, exited, killed) keep the invariant.
LEMMA HubEndsHold ==
    ASSUME HubIInv, HubCloses \/ HubExits \/ HubKilled
    PROVE  HubIInv' /\ HubMove
<1>0. HubFields \subseteq DOMAIN hub /\ DOMAIN hub.files = Files /\ \A c \in hub.calls : CallHolds(hubScope, c)
  BY DEF HubIInv, HubTyped
<1>1. UNCHANGED <<hubDisk, hubScope>> /\ SameWorld
  BY SpentKeeps, WorldUnchanged DEF HubCloses, HubExits, HubKilled, Quietly, Counters
<1>2. CASE HubCloses
  <2> DEFINE working == {id \in DOMAIN hub.inst : hub.inst[id].since # Never}
             inst == [id \in DOMAIN hub.inst |-> IF id \in working THEN EndSpan(hub.inst[id], hub.now) ELSE hub.inst[id]]
  <2>1. hub' = [hub EXCEPT !.up = "closing", !.files = Mark(@, "instances", working # {}), !.inst = inst]
    BY <1>2 DEF HubCloses
  <2>2. DOMAIN inst = DOMAIN hub.inst /\ \A id \in DOMAIN inst : IsInst(inst[id]) /\ SameInst(inst[id], hub.inst[id])
    <3>1. \A id \in DOMAIN hub.inst : IsInst(hub.inst[id]) /\ SameInst(hub.inst[id], hub.inst[id])
      BY DEF HubIInv, HubTyped, SameInst
    <3> QED
      BY <3>1, EndSpanKeeps
  <2> HIDE DEF inst, working
  <2>3. HubFields \subseteq DOMAIN hub' /\ hub'.inst = inst /\ hub'.calls = hub.calls /\ DOMAIN hub'.files = Files
    BY <1>0, <2>1 DEF HubFields, Mark
  <2> QED
    BY <1>0, <1>1, <2>2, <2>3, FewerInstances
<1>3. CASE HubExits \/ HubKilled
  <2>1. hub' = NewHub("down", <<>>, "", <<>>, hub.now)
    BY <1>3 DEF HubExits, HubKilled, Down
  <2>2. HubFields \subseteq DOMAIN hub' /\ DOMAIN hub'.inst = {} /\ hub'.calls = {} /\ DOMAIN hub'.files = Files
    <3>1. DOMAIN << >> = {}
      OBVIOUS
    <3>2. HubFields \subseteq DOMAIN hub' /\ hub'.inst = <<>> /\ hub'.calls = {} /\ hub'.files = [f \in Files |-> NewFile]
      BY <2>1 DEF NewHub, HubFields
    <3> QED
      BY <3>1, <3>2
  <2> QED
    BY <1>1, <2>2, FewerInstances
<1> QED
  BY <1>2, <1>3

\* A page, the clock, and a URL that another program takes over keep the invariant.
LEMMA WorldTurnsHold ==
    ASSUME HubIInv, PageOpens \/ PageTakes \/ HubTicks \/ \E u \in DOMAIN hubScope.net, a \in hubScope.answers : HubWorldTurns(u, a)
    PROVE  HubIInv' /\ HubMove
<1>0. HubFields \subseteq DOMAIN hub /\ \A c \in hub.calls : CallHolds(hubScope, c)
  BY DEF HubIInv, HubTyped
<1>1. CASE PageOpens \/ PageTakes
  <2>1. UNCHANGED <<hub, hubDisk, hubScope>> /\ SameWorld
    BY <1>1, SpentKeeps, WorldUnchanged DEF PageOpens, PageTakes, Counters
  <2> QED
    BY <1>0, <2>1, HubMovesOn
<1>2. CASE HubTicks
  <2>1. UNCHANGED <<hubDisk, hubScope>> /\ SameWorld /\ hub' = [hub EXCEPT !.now = @ + 1]
    BY <1>2, SpentKeeps DEF HubTicks, Quietly, Counters
  <2>2. HubFields \subseteq DOMAIN hub' /\ hub'.inst = hub.inst /\ hub'.files = hub.files /\ hub'.calls = hub.calls
    BY <1>0, <2>1 DEF HubFields
  <2> QED
    BY <1>0, <2>1, <2>2, HubMovesOn
<1>3. ASSUME NEW u \in DOMAIN hubScope.net, NEW a \in hubScope.answers, HubWorldTurns(u, a)
      PROVE  HubIInv' /\ HubMove
  <2> DEFINE net == [hubWorld.net EXCEPT ![u] = a]
  <2>1. UNCHANGED <<hub, hubDisk, hubScope>> /\ hubWorld' = [hubWorld EXCEPT !.net = net, !.turns = @ + 1]
    BY <1>3 DEF HubWorldTurns, Quietly
  <2>2. /\ WorldFields \subseteq DOMAIN hubWorld' /\ DOMAIN hubWorld'.net = DOMAIN hubWorld.net
        /\ hubWorld'.misjudged = hubWorld.misjudged /\ hubWorld'.dead = hubWorld.dead
        /\ hubWorld'.answered = hubWorld.answered /\ hubWorld'.proxied = hubWorld.proxied
    BY <2>1 DEF HubIInv, HubTyped, WorldFields
  <2>3. hubWorld'.proxied \subseteq hubWorld'.answered
    BY <2>2 DEF HubIInv
  <2> QED
    BY <1>0, <2>1, <2>2, <2>3, SameInstances
<1> QED
  BY <1>1, <1>2, <1>3

-----------------------------------------------------------------------------
(* The invariant, and what it shows.                                         *)

LEMMA HubInitHolds == HubInit => HubIInv
<1> SUFFICES ASSUME HubInit PROVE HubIInv
  OBVIOUS
<1>1. DOMAIN << >> = {}
  OBVIOUS
<1>2. HubFields \subseteq DOMAIN hub /\ hub.inst = << >> /\ hub.calls = {} /\ hub.files = [f \in Files |-> NewFile]
  BY DEF HubInit, NewHub, HubFields
<1>3. DiskFields \subseteq DOMAIN hubDisk /\ hubDisk.instances = NoFile
  BY DEF HubInit, DiskFields
<1>4. FileIsSound(NoFile)
  BY <1>1 DEF FileIsSound, NoFile
<1>5. WorldFields \subseteq DOMAIN hubWorld /\ hubWorld.net = hubScope.net /\ hubWorld.misjudged = FALSE /\ hubWorld.proxied = {}
  BY DEF HubInit, WorldFields
<1>6. HubTyped
  BY <1>1, <1>2, <1>3, <1>5 DEF HubInit, HubTyped
<1> QED
  BY <1>1, <1>2, <1>3, <1>4, <1>5, <1>6 DEF HubIInv, DiskHolds

\* Every step of the hub keeps the invariant and moves only an instance whose URL is dead.
LEMMA HubNextHolds == HubIInv /\ HubNext => HubIInv' /\ HubMove
<1> SUFFICES ASSUME HubIInv, HubNext PROVE HubIInv' /\ HubMove
  OBVIOUS
<1>1. CASE HubFollows
  BY <1>1, FollowsHold, FollowReadsHolds, FollowFailedHolds DEF HubFollows
<1>2. CASE HubHandles
  BY <1>2, HubUpsertsHolds, HubStoppedHolds, HubHearsHolds, HubWatchesHolds, AddChecksHolds, AddUpdatesHolds, HubForgetsHolds DEF HubHandles
<1>3. CASE HubAsked
  BY <1>3, RequestsHold, HubProxiesHolds, HubPatchesHolds, HubSetsPinsHolds DEF HubAsked
<1>4. CASE HubKeeps
  BY <1>4, FileBeginsHolds, FileWritesHolds, FileEditedHolds DEF HubKeeps
<1>5. CASE HubLives
  BY <1>5, HubStartsHolds, HubRunsHold, HubEndsHold DEF HubLives
<1>6. CASE PageOpens \/ PageTakes \/ HubTicks \/ \E u \in DOMAIN hubScope.net, a \in hubScope.answers : HubWorldTurns(u, a)
  BY <1>6, WorldTurnsHold
<1> QED
  BY <1>1, <1>2, <1>3, <1>4, <1>5, <1>6 DEF HubNext

\* A step that changes nothing keeps the invariant.
LEMMA HubStutters == HubIInv /\ UNCHANGED hubVars => HubIInv'
<1> SUFFICES ASSUME HubIInv, UNCHANGED hubVars PROVE HubIInv'
  OBVIOUS
<1>1. UNCHANGED <<hub, hubDisk, hubWorld, hubScope>>
  BY DEF hubVars
<1>2. HubFields \subseteq DOMAIN hub /\ \A c \in hub.calls : CallHolds(hubScope, c)
  BY DEF HubIInv, HubTyped
<1> QED
  BY <1>1, <1>2, WorldUnchanged, HubMovesOn

\* The invariant is kept, and shows where the proxy sends and what is muted.
LEMMA HubIInvShows == HubIInv => HubProxiesHome /\ HubMuteEnds
<1> SUFFICES ASSUME HubIInv PROVE HubProxiesHome /\ HubMuteEnds
  OBVIOUS
<1>1. \A id \in DOMAIN hub.inst : InstHolds(hubWorld, id, hub.inst[id])
  BY DEF HubIInv
<1>2. \A id \in DOMAIN hub.inst : hub.inst[id].token \in {Nowhere, hub.inst[id].url}
  BY <1>1 DEF InstHolds
<1>3. HubMuteEnds
  BY <1>1 DEF HubMuteEnds, InstHolds
<1> QED
  BY <1>2, <1>3 DEF HubProxiesHome, HubIInv

\* The proxy sends an instance's requests only to a URL that answered as that
\* instance, its token only to the URL it was given for (proxy.go,
\* upsertFromWebhook, newStore), and a mute of an instance that joined ends
\* with what was muted (applySummary, updateInstance).
THEOREM HubSendsHome == HubSpec => [](HubProxiesHome /\ HubMuteEnds)
<1>1. HubInit => HubIInv
  BY HubInitHolds
<1>2. HubIInv /\ [HubNext]_hubVars => HubIInv'
  BY HubNextHolds, HubStutters
<1>3. HubIInv => HubProxiesHome /\ HubMuteEnds
  BY HubIInvShows
<1> QED
  BY <1>1, <1>2, <1>3, PTL DEF HubSpec

\* An instance moves only once the hub knows that its URL is dead, and one
\* added by hand never does (refuseMove, streamFailed).
THEOREM HubMovesOnlyTheDead == HubSpec => HubMovesTheDead
<1>1. HubInit => HubIInv
  BY HubInitHolds
<1>2. HubIInv /\ [HubNext]_hubVars => HubIInv'
  BY HubNextHolds, HubStutters
<1>3. HubIInv /\ [HubNext]_hubVars => [HubMove]_hubVars
  BY HubNextHolds
<1> QED
  BY <1>1, <1>2, <1>3, PTL DEF HubSpec, HubMovesTheDead

-----------------------------------------------------------------------------
(* The store, its file and the page, in step.                                *)

FollowFields == {"n", "id", "live", "pc", "url", "failing", "heard", "err", "other"}
FileFields == {"pending", "nudge", "writing", "closed"}

\* The file, unless a hub can't use it.
Readable == hubDisk.instances \notin {Damaged, Newer}
Rows == hubDisk.instances.instances

\* A watch that was ended goes on only to record the failure it saw.
FollowIs(f) == FollowFields \subseteq DOMAIN f /\ f.live \in BOOLEAN /\ f.heard \in Nat /\ (~f.live => f.pc = "failed")
EventCall(d) == [op |-> "event", d |-> d, id |-> hubScope.mail[d].id, pc |-> "handle"]
CallIs(c) == {"op", "id", "pc"} \subseteq DOMAIN c /\ IsID(c.id) /\ (c.pc = "handle" => c = EventCall(c.d))

HubShaped ==
    /\ hub.up \in {"down", "new", "running", "stopping", "closing"}
    /\ \A f \in hub.follows : FollowIs(f)
    /\ \A c \in hub.calls : CallIs(c)
    /\ \A f \in Files : FileFields \subseteq DOMAIN hub.files[f] /\ hub.files[f].pending \in BOOLEAN /\ hub.files[f].closed \in BOOLEAN
    /\ \A u \in DOMAIN hubScope.net : hubWorld.net[u] = NoAnswer \/ IsID(hubWorld.net[u].id)

\* The pins of a store are 1, 2, ...; those of a file are numbers.
Numbered(inst) == IsFiniteSet(DOMAIN inst) /\ \A id \in DOMAIN inst : IsID(id) /\ "pin" \in DOMAIN inst[id] /\ inst[id].pin \in Nat
Dense(inst) == {inst[id].pin : id \in Pinned(inst)} = 1..Cardinality(Pinned(inst))
RowsNumbered == Readable => IsFiniteSet(DOMAIN Rows) /\ \A id \in DOMAIN Rows : IsID(id) /\ Rows[id].kept.pin \in Nat
PinsHold == Numbered(hub.inst) /\ Dense(hub.inst) /\ RowsNumbered

\* The spans of work follow one another up to the one that goes on, in the
\* store and in the file, from which a hub ends it when it last heard.
SpansHold(spans, end) ==
    /\ spans \in Seq(Nat \X Nat)
    /\ \A n \in DOMAIN spans : spans[n][1] < spans[n][2] /\ spans[n][2] <= end
    /\ \A n \in 2..Len(spans) : spans[n - 1][2] <= spans[n][1]
Timely(i, now) ==
    /\ i.last \in 0..now /\ (i.since = Never \/ i.since \in 0..now)
    /\ SpansHold(i.spans, IF i.since = Never THEN now ELSE i.since)
WorkHolds ==
    /\ hub.now = hubWorld.ticks /\ hubWorld.ticks \in 0..hubScope.ticks
    /\ \A id \in DOMAIN hub.inst :
          /\ Timely(hub.inst[id], hub.now) /\ hub.inst[id].heard \in Nat
          /\ Serving => (hub.inst[id].since # Never <=> Working(hub.inst[id]))
    /\ Readable => \A id \in DOMAIN Rows : Timely(Rows[id], hub.now)

\* While nothing waits to be written, the file is that of the instances: a
\* start makes of both the same.
Halted(k) == IF k.stopped THEN "stopped" ELSE "connecting"
KeptAgain(k) ==
    [url |-> IF k.confirmed # Nowhere /\ k.source # "manual" THEN k.confirmed ELSE k.url, run |-> k.run, source |-> k.source,
     stopped |-> Halted(k) = "stopped", confirmed |-> k.confirmed, token |-> k.token, pin |-> k.pin, group |-> k.group, muted |-> k.muted,
     hb |-> k.hb, changed |-> k.changed, activity |-> k.activity]
Saved(inst) == [id \in DOMAIN inst |-> KeptAgain(Kept(inst[id]))]
FileCurrent(sc, h, disk) ==
    sc.keep /\ h.up # "down" /\ ~h.files["instances"].pending /\ h.files["instances"].writing = "no" =>
        NumberPins(AfterStart(disk.instances.instances)) = Saved(h.inst) /\ disk.instances.favorites = h.favorites
FileHolds == FileCurrent(hubScope, hub, hubDisk) /\ (hub.up # "down" => Readable)

\* What waits for the page, taken in its order, brings what it shows up to
\* the store: the last event of each instance says what the store has of it.
PageFields == {"subscribed", "queue", "view", "favorites"}
IsLine(q) == \E S : q \in Seq(S)
Kinds == {"instance", "removed", "favorites"}
PageIs(p) == PageFields \subseteq DOMAIN p /\ IsLine(p.queue) /\ \A n \in DOMAIN p.queue : p.queue[n][1] \in Kinds
Tells(e, id) == e[1] \in {"instance", "removed"} /\ e[2] = id
Says(e, id, inst) ==
    \/ e[1] = "removed" /\ id \notin DOMAIN inst
    \/ e[1] = "instance" /\ id \in DOMAIN inst /\ e[3] = SentToPage(inst[id])
SameTo(a, b, id) ==
    /\ id \in DOMAIN a <=> id \in DOMAIN b
    /\ id \in DOMAIN a => SentToPage(a[id]) = SentToPage(b[id])
PageShows(p, inst, id) ==
    /\ (\A n \in DOMAIN p.queue : ~Tells(p.queue[n], id)) =>
          (id \in DOMAIN p.view <=> id \in DOMAIN inst) /\ (id \in DOMAIN inst => p.view[id] = SentToPage(inst[id]))
    /\ \A n \in DOMAIN p.queue :
          Tells(p.queue[n], id) /\ (\A m \in DOMAIN p.queue : m > n => ~Tells(p.queue[m], id)) => Says(p.queue[n], id, inst)
Likes(e) == e[1] = "favorites"
PageLikes(p, favorites) ==
    /\ (\A n \in DOMAIN p.queue : ~Likes(p.queue[n])) => p.favorites = favorites
    /\ \A n \in DOMAIN p.queue :
          Likes(p.queue[n]) /\ (\A m \in DOMAIN p.queue : m > n => ~Likes(p.queue[m])) => p.queue[n][2] = favorites
PageAgrees(p, inst, favorites) ==
    p.subscribed =>
        /\ \A id : PageShows(p, inst, id)
        /\ PageLikes(p, favorites)
PageHolds ==
    /\ PageIs(hubPage) /\ (hubPage.subscribed => Serving)
    /\ PageAgrees(hubPage, hub.inst, hub.favorites)

TrackHolds == HubShaped /\ PinsHold /\ WorkHolds /\ FileHolds /\ PageHolds

-----------------------------------------------------------------------------
(* Pins: the places in an order.                                             *)

\* The place of each of S in the order R, counted from 1.
Upto(S, R, x) == {y \in S : <<y, x>> \in R}
PlaceIn(S, R, x) == Cardinality(Upto(S, R, x))
IsOrder(S, R) ==
    /\ \A x \in S : <<x, x>> \in R
    /\ \A x, y \in S : <<x, y>> \in R \/ <<y, x>> \in R
    /\ \A x, y \in S : <<x, y>> \in R /\ <<y, x>> \in R => x = y
    /\ \A x, y, z \in S : <<x, y>> \in R /\ <<y, z>> \in R => <<x, z>> \in R

\* Places are 1, 2, ... up to the number of elements, each taken once.
LEMMA PlacesAreDense ==
    ASSUME NEW S, IsFiniteSet(S), NEW R, IsOrder(S, R)
    PROVE  /\ \A x \in S : PlaceIn(S, R, x) \in 1..Cardinality(S)
           /\ \A x, y \in S : PlaceIn(S, R, x) = PlaceIn(S, R, y) => x = y
           /\ \A n \in 1..Cardinality(S) : \E x \in S : PlaceIn(S, R, x) = n
<1> DEFINE r == [x \in S |-> PlaceIn(S, R, x)]
           N == Cardinality(S)
<1>1. N \in Nat
  BY FS_CardinalityType
<1>2. ASSUME NEW x \in S PROVE IsFiniteSet(Upto(S, R, x)) /\ Cardinality(Upto(S, R, x)) \in Nat /\ Cardinality(Upto(S, R, x)) <= N /\ Cardinality(Upto(S, R, x)) # 0 /\ PlaceIn(S, R, x) = Cardinality(Upto(S, R, x))
  <2>1. Upto(S, R, x) \in SUBSET S /\ x \in Upto(S, R, x)
    BY DEF IsOrder, Upto
  <2>2. IsFiniteSet(Upto(S, R, x)) /\ Cardinality(Upto(S, R, x)) <= N
    BY <2>1, FS_Subset
  <2>3. Upto(S, R, x) # {}
    BY <2>1
  <2>4. Cardinality(Upto(S, R, x)) \in Nat /\ Cardinality(Upto(S, R, x)) # 0
    <3>1. Cardinality(Upto(S, R, x)) \in Nat
      BY <2>2, FS_CardinalityType
    <3>2. Cardinality(Upto(S, R, x)) # 0
      BY <2>2, <2>3, FS_EmptySet
    <3> QED
      BY <3>1, <3>2
  <2>5. PlaceIn(S, R, x) = Cardinality(Upto(S, R, x))
    BY DEF PlaceIn
  <2> QED
    BY <2>2, <2>4, <2>5
<1>3. ASSUME NEW x \in S PROVE PlaceIn(S, R, x) \in 1..N
  BY <1>1, <1>2
<1>4. ASSUME NEW x \in S, NEW y \in S, PlaceIn(S, R, x) = PlaceIn(S, R, y) PROVE x = y
  <2>1. ASSUME NEW u \in S, NEW v \in S, <<u, v>> \in R, Cardinality(Upto(S, R, u)) = Cardinality(Upto(S, R, v)) PROVE u = v
    <3>1. Upto(S, R, u) \in SUBSET Upto(S, R, v)
      BY <2>1 DEF IsOrder, Upto
    <3>2. Upto(S, R, v) = Upto(S, R, u)
      BY <1>2, <2>1, <3>1, FS_Subset
    <3>3. v \in Upto(S, R, u)
      BY <3>2 DEF IsOrder, Upto
    <3> QED
      BY <2>1, <3>3 DEF IsOrder, Upto
  <2>2. Cardinality(Upto(S, R, x)) = Cardinality(Upto(S, R, y))
    BY <1>2, <1>4
  <2>3. <<x, y>> \in R \/ <<y, x>> \in R
    BY DEF IsOrder
  <2> QED
    BY <2>1, <2>2, <2>3
<1>5. \A n \in 1..N : \E x \in S : PlaceIn(S, R, x) = n
  <2>1. r \in Injection(S, 1..N)
    <3>1. r \in [S -> 1..N]
      BY <1>3
    <3>2. \A a, b \in S : r[a] = r[b] => a = b
      BY <1>4
    <3> HIDE DEF r
    <3> QED
      BY <3>1, <3>2, Fun_IsInj
  <2>2. IsFiniteSet(1..N) /\ Cardinality(1..N) = N
    BY <1>1, FS_Interval
  <2>3. r \in Surjection(S, 1..N)
    BY <2>1, <2>2, FS_Injection
  <2>4. \A n \in 1..N : \E x \in S : r[x] = n
    <3> HIDE DEF r
    <3> QED
      BY <2>3 DEF Surjection
  <2> QED
    BY <2>4
<1> QED
  BY <1>3, <1>4, <1>5

\* The order of the pinned instances: by pin, then by ID.
PinOrder(inst) == {u \in Pinned(inst) \X Pinned(inst) : Above(inst, u[1], u[2])}
PinOf(inst, id) == IF inst[id].pin = 0 THEN 0 ELSE PlaceIn(Pinned(inst), PinOrder(inst), id)

\* It is a total order, and numberPinsLocked gives each its place in it.
LEMMA PinsAreOrdered ==
    ASSUME NEW inst, Numbered(inst)
    PROVE  /\ IsFiniteSet(Pinned(inst)) /\ IsOrder(Pinned(inst), PinOrder(inst))
           /\ \A id \in DOMAIN inst : NumberPins(inst)[id].pin = PinOf(inst, id)
<1> DEFINE P == Pinned(inst)
           R == PinOrder(inst)
<1>1. P \in SUBSET DOMAIN inst
  BY DEF Pinned
<1>2. IsFiniteSet(P)
  BY <1>1, FS_Subset DEF Numbered
<1>3. \A x, y \in P : <<x, y>> \in R <=> Above(inst, x, y)
  BY DEF PinOrder
<1>4. \A x \in P : x \in Nat /\ inst[x].pin \in Nat
  BY <1>1 DEF Numbered, IsID
<1>5. IsOrder(P, R)
  <2> HIDE DEF P, R
  <2>1. \A x \in P : <<x, x>> \in R
    BY <1>3, <1>4 DEF Above
  <2>2. ASSUME NEW x \in P, NEW y \in P PROVE <<x, y>> \in R \/ <<y, x>> \in R
    <3>1. x \in Nat /\ y \in Nat /\ inst[x].pin \in Nat /\ inst[y].pin \in Nat
      BY <1>4
    <3>2. Above(inst, x, y) \/ Above(inst, y, x)
      BY <3>1 DEF Above
    <3> QED
      BY <1>3, <3>2
  <2>3. \A x, y \in P : <<x, y>> \in R /\ <<y, x>> \in R => x = y
    BY <1>3, <1>4 DEF Above
  <2>4. \A x, y, z \in P : <<x, y>> \in R /\ <<y, z>> \in R => <<x, z>> \in R
    BY <1>3, <1>4 DEF Above
  <2> QED
    BY <2>1, <2>2, <2>3, <2>4 DEF IsOrder
<1>6. ASSUME NEW id \in DOMAIN inst PROVE NumberPins(inst)[id].pin = PinOf(inst, id)
  <2>1. CASE inst[id].pin = 0
    BY <2>1 DEF NumberPins, PinOf
  <2>2. CASE inst[id].pin # 0
    <3>1. id \in P
      BY <2>2 DEF Pinned, Numbered
    <3>2. {j \in P : Above(inst, j, id)} = Upto(P, R, id)
      BY <1>3, <3>1 DEF Upto
    <3>3. PICK n : n = Cardinality({j \in P : Above(inst, j, id)})
      OBVIOUS
    <3>4. NumberPins(inst)[id] = [inst[id] EXCEPT !.pin = n]
      BY <2>2, <3>3 DEF NumberPins
    <3>5. NumberPins(inst)[id].pin = n
      BY <3>4 DEF Numbered
    <3> QED
      BY <2>2, <3>2, <3>3, <3>5 DEF PinOf, PlaceIn
  <2> QED
    BY <2>1, <2>2
<1> QED
  BY <1>2, <1>5, <1>6

\* numberPinsLocked changes the pins of the pinned, which are 1, 2, ... then.
LEMMA NumberPinsNumbers ==
    ASSUME NEW inst, Numbered(inst)
    PROVE  /\ DOMAIN NumberPins(inst) = DOMAIN inst
           /\ Numbered(NumberPins(inst)) /\ Dense(NumberPins(inst))
           /\ \A id \in DOMAIN inst : /\ DOMAIN NumberPins(inst)[id] = DOMAIN inst[id]
                                      /\ \A f \in DOMAIN inst[id] \ {"pin"} : NumberPins(inst)[id][f] = inst[id][f]
           /\ \A id \in DOMAIN inst : NumberPins(inst)[id].pin = 0 <=> inst[id].pin = 0
<1> DEFINE P == Pinned(inst)
           R == PinOrder(inst)
           new == NumberPins(inst)
<1>1. IsFiniteSet(P) /\ IsOrder(P, R) /\ \A id \in DOMAIN inst : new[id].pin = PinOf(inst, id)
  BY PinsAreOrdered
<1>2. /\ \A x \in P : PlaceIn(P, R, x) \in 1..Cardinality(P)
      /\ \A n \in 1..Cardinality(P) : \E x \in P : PlaceIn(P, R, x) = n
  BY <1>1, PlacesAreDense
<1>3. Cardinality(P) \in Nat
  BY <1>1, FS_CardinalityType
<1>4. DOMAIN new = DOMAIN inst
  BY DEF NumberPins
<1>5. ASSUME NEW id \in DOMAIN inst
      PROVE  new[id].pin \in Nat /\ "pin" \in DOMAIN new[id] /\ (new[id].pin = 0 <=> inst[id].pin = 0) /\ (id \in P => new[id].pin = PlaceIn(P, R, id))
             /\ DOMAIN new[id] = DOMAIN inst[id] /\ \A f \in DOMAIN inst[id] \ {"pin"} : new[id][f] = inst[id][f]
  <2>1. "pin" \in DOMAIN inst[id] /\ inst[id].pin \in Nat
    BY DEF Numbered
  <2>2. id \in P <=> inst[id].pin # 0
    BY <2>1 DEF Pinned
  <2>3. CASE inst[id].pin = 0
    <3>1. new[id] = inst[id]
      BY <2>3 DEF NumberPins
    <3> QED
      BY <2>1, <2>2, <2>3, <3>1
  <2>4. CASE inst[id].pin # 0
    <3>1. PICK n : new[id] = [inst[id] EXCEPT !.pin = n]
      BY <2>4 DEF NumberPins
    <3>2. new[id].pin = n /\ "pin" \in DOMAIN new[id]
      BY <2>1, <3>1
    <3>3. new[id].pin = PlaceIn(P, R, id) /\ id \in P
      BY <1>1, <2>2, <2>4 DEF PinOf
    <3>4. new[id].pin \in 1..Cardinality(P)
      BY <1>2, <3>3
    <3> QED
      BY <1>3, <2>4, <3>1, <3>2, <3>3, <3>4
  <2> QED
    BY <2>3, <2>4
<1> HIDE DEF new, R
<1>6. Numbered(new)
  BY <1>4, <1>5 DEF Numbered
<1>7. Pinned(new) = P
  <2>1. \A id \in DOMAIN inst : new[id].pin \in Nat /\ inst[id].pin \in Nat /\ (new[id].pin = 0 <=> inst[id].pin = 0)
    BY <1>5 DEF Numbered
  <2>2. \A id \in DOMAIN inst : new[id].pin > 0 <=> inst[id].pin > 0
    BY <2>1
  <2> QED
    BY <1>4, <2>2 DEF Pinned
<1>8. Dense(new)
  <2>1. {new[id].pin : id \in P} = 1..Cardinality(P)
    <3>1. \A id \in P : id \in DOMAIN inst
      BY DEF Pinned
    <3> HIDE DEF P
    <3>2. \A id \in P : new[id].pin = PlaceIn(P, R, id)
      BY <1>5, <3>1
    <3> QED
      BY <1>2, <3>2
  <2> QED
    BY <1>7, <2>1 DEF Dense
<1> QED
  BY <1>4, <1>5, <1>6, <1>8 DEF new

\* Pins that are 1, 2, ... already stay.
LEMMA DenseStays ==
    ASSUME NEW inst, Numbered(inst), Dense(inst)
    PROVE  \A id \in DOMAIN inst : NumberPins(inst)[id].pin = inst[id].pin
<1> DEFINE P == Pinned(inst)
           R == PinOrder(inst)
           p == [id \in P |-> inst[id].pin]
           N == Cardinality(P)
<1>1. IsFiniteSet(P) /\ \A id \in DOMAIN inst : NumberPins(inst)[id].pin = PinOf(inst, id)
  BY PinsAreOrdered
<1>2. N \in Nat
  BY <1>1, FS_CardinalityType
<1>3. \A x \in P : x \in DOMAIN inst /\ x \in Nat /\ inst[x].pin \in Nat \ {0}
  BY DEF Pinned, Numbered, IsID
<1>4. {inst[x].pin : x \in P} = 1..N
  BY DEF Dense
<1>5. p \in [P -> 1..N] /\ \A n \in 1..N : \E x \in P : p[x] = n
  BY <1>4
<1>6. IsFiniteSet(1..N) /\ Cardinality(1..N) = N
  BY <1>2, FS_Interval
<1>7. \A x, y \in P : inst[x].pin = inst[y].pin => x = y
  <2>1. p \in Surjection(P, 1..N)
    <3> HIDE DEF p, P, N
    <3> QED
      BY <1>5, Fun_IsSurj
  <2>2. p \in Injection(P, 1..N)
    BY <1>1, <1>6, <2>1, FS_SurjSameCardinalityImpliesInj
  <2>3. \A x, y \in P : p[x] = p[y] => x = y
    <3> HIDE DEF p, P, N
    <3> QED
      BY <2>2, Fun_InjectionProperties
  <2> QED
    BY <2>3
<1>8. ASSUME NEW id \in P PROVE PlaceIn(P, R, id) = inst[id].pin
  <2> DEFINE U == Upto(P, R, id)
             k == inst[id].pin
             q == [x \in U |-> inst[x].pin]
  <2>1. U = {x \in P : inst[x].pin <= k}
    <3>1. \A x \in P : <<x, id>> \in R <=> Above(inst, x, id)
      BY DEF PinOrder
    <3>2. ASSUME NEW x \in P PROVE Above(inst, x, id) <=> inst[x].pin <= k
      <4>1. inst[x].pin = k => x = id
        BY <1>7
      <4>2. inst[x].pin \in Nat /\ k \in Nat /\ x \in Nat /\ id \in Nat
        BY <1>3
      <4> QED
        BY <4>1, <4>2 DEF Above
    <3> HIDE DEF R, P
    <3> QED
      BY <3>1, <3>2 DEF Upto
  <2>2. k \in 1..N
    BY <1>4
  <2>3. q \in [U -> 1..k] /\ (\A a, b \in U : q[a] = q[b] => a = b) /\ \A n \in 1..k : \E x \in U : q[x] = n
    <3> HIDE DEF U, P, N
    <3>1. \A x \in U : x \in P /\ inst[x].pin \in 1..k
      BY <1>3, <2>1, <2>2, <1>2
    <3>2. ASSUME NEW n \in 1..k PROVE \E x \in U : inst[x].pin = n
      <4>1. n \in 1..N
        BY <1>2, <2>2
      <4>2. PICK x \in P : inst[x].pin = n
        BY <1>4, <4>1
      <4> QED
        BY <2>1, <4>2
    <3> QED
      BY <1>7, <3>1, <3>2
  <2>4. q \in Bijection(U, 1..k)
    <3> HIDE DEF q, U, k
    <3> QED
      BY <2>3, Fun_IsBij
  <2>5. IsFiniteSet(U)
    <3>1. U \in SUBSET P
      BY <2>1
    <3> QED
      BY <1>1, <3>1, FS_Subset
  <2>6. Cardinality(1..k) = Cardinality(U)
    <3>1. ExistsBijection(U, 1..k)
      BY <2>4 DEF ExistsBijection
    <3> HIDE DEF U, k
    <3> QED
      BY <2>5, <3>1, FS_Bijection
  <2>7. Cardinality(1..k) = k
    <3> HIDE DEF k
    <3>1. k \in Nat /\ k # 0
      BY <1>2, <2>2
    <3>2. Cardinality(1..k) = IF 1 > k THEN 0 ELSE k - 1 + 1
      BY <3>1, FS_Interval
    <3> QED
      BY <3>1, <3>2
  <2> QED
    BY <2>6, <2>7 DEF PlaceIn
<1>9. ASSUME NEW id \in DOMAIN inst PROVE PinOf(inst, id) = inst[id].pin
  <2>1. inst[id].pin # 0 => id \in P
    BY DEF Pinned, Numbered
  <2> QED
    BY <1>8, <2>1 DEF PinOf
<1> QED
  BY <1>1, <1>9

\* The numbers are given by the pins alone.
LEMMA SamePinsNumber ==
    ASSUME NEW a, NEW b, Numbered(a), Numbered(b), DOMAIN a = DOMAIN b, \A id \in DOMAIN a : a[id].pin = b[id].pin
    PROVE  \A id \in DOMAIN a : NumberPins(a)[id].pin = NumberPins(b)[id].pin
<1>1. Pinned(a) = Pinned(b)
  BY DEF Pinned
<1>2. \A x, y \in Pinned(a) : Above(a, x, y) <=> Above(b, x, y)
  BY DEF Above, Pinned
<1>3. PinOrder(a) = PinOrder(b)
  BY <1>1, <1>2 DEF PinOrder
<1>4. \A id \in DOMAIN a : PinOf(a, id) = PinOf(b, id)
  BY <1>1, <1>3 DEF PinOf
<1> QED
  BY <1>4, PinsAreOrdered

-----------------------------------------------------------------------------
(* What the page is told.                                                    *)

\* The elements of two lines, one after the other.
LEMMA LinesJoin ==
    ASSUME NEW a, NEW b, IsLine(a), IsLine(b)
    PROVE  /\ IsLine(a \o b) /\ Len(a) \in Nat /\ DOMAIN a = 1..Len(a)
           /\ \A n \in DOMAIN a : n \in DOMAIN (a \o b) /\ (a \o b)[n] = a[n]
           /\ \A n \in DOMAIN b : Len(a) + n \in DOMAIN (a \o b) /\ (a \o b)[Len(a) + n] = b[n]
           /\ \A n \in DOMAIN (a \o b) : n \in Nat /\ (n \in DOMAIN a \/ (n > Len(a) /\ n - Len(a) \in DOMAIN b /\ (a \o b)[n] = b[n - Len(a)]))
<1>1. PICK S, T : a \in Seq(S) /\ b \in Seq(T)
  BY DEF IsLine
<1>2. PICK U : U = S \cup T
  OBVIOUS
<1>3. a \in Seq(U) /\ b \in Seq(U)
  BY <1>1, <1>2, SeqMonotonic
<1>4. /\ a \o b \in Seq(U) /\ Len(a \o b) = Len(a) + Len(b)
      /\ \A i \in 1 .. Len(a) + Len(b) : (a \o b)[i] = IF i <= Len(a) THEN a[i] ELSE b[i - Len(a)]
  BY <1>3, ConcatProperties
<1>5. Len(a) \in Nat /\ Len(b) \in Nat /\ DOMAIN a = 1..Len(a) /\ DOMAIN b = 1..Len(b) /\ DOMAIN (a \o b) = 1..Len(a \o b)
  BY <1>3, <1>4, LenProperties
<1>6. IsLine(a \o b)
  BY <1>4 DEF IsLine
<1>7. PICK c, j, k : c = a \o b /\ j = Len(a) /\ k = Len(b)
  OBVIOUS
<1>8. /\ j \in Nat /\ k \in Nat /\ DOMAIN a = 1..j /\ DOMAIN b = 1..k /\ DOMAIN c = 1..(j + k)
      /\ \A i \in 1..(j + k) : c[i] = IF i <= j THEN a[i] ELSE b[i - j]
  BY <1>4, <1>5, <1>7
<1>9. \A n \in DOMAIN a : n \in DOMAIN c /\ c[n] = a[n]
  BY <1>8
<1>10. ASSUME NEW n \in DOMAIN b PROVE j + n \in DOMAIN c /\ c[j + n] = b[n]
  <2>1. j + n \in 1..(j + k) /\ ~(j + n <= j) /\ (j + n) - j = n
    BY <1>8
  <2> QED
    BY <1>8, <2>1
<1>11. ASSUME NEW n \in DOMAIN c PROVE n \in Nat /\ (n \in DOMAIN a \/ (n > j /\ n - j \in DOMAIN b /\ c[n] = b[n - j]))
  <2>1. n \in 1..(j + k)
    BY <1>8
  <2>2. CASE n <= j
    BY <1>8, <2>1, <2>2
  <2>3. CASE ~(n <= j)
    <3>1. n > j /\ n - j \in 1..k
      BY <1>8, <2>1, <2>3
    <3> QED
      BY <1>8, <2>1, <2>3, <3>1
  <2> QED
    BY <2>2, <2>3
<1> QED
  BY <1>5, <1>6, <1>7, <1>9, <1>10, <1>11

\* What the page is sent when the instances become new: each of ids as it
\* is, and that each of gone is gone.
SentFor(es, new, ids, gone) ==
    /\ IsLine(es)
    /\ \A n \in DOMAIN es : \/ \E x \in ids : es[n] = <<"instance", x, SentToPage(new[x])>>
                            \/ \E x \in gone : es[n] = <<"removed", x>>
    /\ \A x \in ids \cup gone : \E n \in DOMAIN es : Tells(es[n], x)

\* notifyEachLocked tells of each of ids once.
AreIDs(ids) == IsFiniteSet(ids) /\ ids \subseteq Nat

\* notifyEachLocked sends each of ids as it is, once.
LEMMA InstanceEventsAreSent ==
    ASSUME NEW new, NEW ids, AreIDs(ids)
    PROVE  SentFor(InstanceEvents(new, ids), new, ids, {})
<1> DEFINE R == {u \in ids \X ids : u[1] <= u[2]}
           k == Cardinality(ids)
           nth(n) == CHOOSE id \in ids : Cardinality({j \in ids : j <= id}) = n
           es == InstanceEvents(new, ids)
<1>0. IsFiniteSet(ids)
  BY DEF AreIDs
<1>1. \A x, y \in ids : <<x, y>> \in R <=> x <= y
  OBVIOUS
<1>2. IsOrder(ids, R)
  <2> HIDE DEF R
  <2> QED
    BY <1>1 DEF IsOrder, AreIDs
<1>3. \A x \in ids : Cardinality({j \in ids : j <= x}) = PlaceIn(ids, R, x)
  <2> HIDE DEF R
  <2>1. ASSUME NEW x \in ids PROVE {j \in ids : j <= x} = Upto(ids, R, x)
    BY <1>1 DEF Upto
  <2> QED
    BY <2>1 DEF PlaceIn
<1>4. /\ \A x \in ids : PlaceIn(ids, R, x) \in 1..k
      /\ \A n \in 1..k : \E x \in ids : PlaceIn(ids, R, x) = n
      /\ \A x, y \in ids : PlaceIn(ids, R, x) = PlaceIn(ids, R, y) => x = y
  <2> HIDE DEF R
  <2> QED
    BY <1>0, <1>2, PlacesAreDense
<1>5. ASSUME NEW n \in 1..k PROVE nth(n) \in ids /\ PlaceIn(ids, R, nth(n)) = n
  <2>1. \E id \in ids : Cardinality({j \in ids : j <= id}) = n
    <3>1. PICK x \in ids : PlaceIn(ids, R, x) = n
      BY <1>4
    <3>2. Cardinality({j \in ids : j <= x}) = n
      <4> HIDE DEF R
      <4> QED
        BY <1>3, <3>1
    <3> QED
      BY <3>2
  <2>2. nth(n) \in ids /\ Cardinality({j \in ids : j <= nth(n)}) = n
    BY <2>1
  <2> HIDE DEF nth
  <2> QED
    BY <1>3, <2>2
<1>6. k \in Nat
  BY <1>0, FS_CardinalityType
<1>7. es = [n \in 1..k |-> <<"instance", nth(n), SentToPage(new[nth(n)])>>]
  BY DEF InstanceEvents
<1> HIDE DEF R, nth, es, k
<1>8. DOMAIN es = 1..k /\ \A n \in 1..k : es[n] = <<"instance", nth(n), SentToPage(new[nth(n)])>>
  BY <1>7
<1>9. IsLine(es)
  <2>1. PICK S : S = {es[n] : n \in 1..k}
    OBVIOUS
  <2>2. es \in [1..k -> S]
    BY <1>7, <1>8, <2>1
  <2>3. es \in Seq(S)
    BY <1>6, <2>2
  <2> QED
    BY <2>3 DEF IsLine
<1>10. ASSUME NEW x \in ids PROVE \E n \in DOMAIN es : Tells(es[n], x)
  <2>1. PICK n : n \in 1..k /\ n = PlaceIn(ids, R, x)
    BY <1>4
  <2>2. nth(n) = x
    BY <1>4, <1>5, <2>1
  <2>3. es[n] = <<"instance", x, SentToPage(new[x])>>
    BY <1>8, <2>1, <2>2
  <2> QED
    BY <1>8, <2>1, <2>3 DEF Tells
<1>11. \A n \in DOMAIN es : \E x \in ids : es[n] = <<"instance", x, SentToPage(new[x])>>
  BY <1>5, <1>8
<1> QED
  BY <1>9, <1>10, <1>11 DEF SentFor, es

\* One after the other, they tell of both.
LEMMA BothAreSent ==
    ASSUME NEW new, NEW a, NEW b, NEW ids, NEW more, NEW gone, NEW left, SentFor(a, new, ids, gone), SentFor(b, new, more, left)
    PROVE  SentFor(a \o b, new, ids \cup more, gone \cup left)
<1>1. /\ IsLine(a \o b)
      /\ \A n \in DOMAIN a : n \in DOMAIN (a \o b) /\ (a \o b)[n] = a[n]
      /\ \A n \in DOMAIN b : Len(a) + n \in DOMAIN (a \o b) /\ (a \o b)[Len(a) + n] = b[n]
      /\ \A n \in DOMAIN (a \o b) : n \in DOMAIN a \/ (n - Len(a) \in DOMAIN b /\ (a \o b)[n] = b[n - Len(a)])
  <2>1. IsLine(a) /\ IsLine(b)
    BY DEF SentFor
  <2>2. /\ IsLine(a \o b) /\ Len(a) \in Nat /\ DOMAIN a = 1..Len(a)
        /\ \A n \in DOMAIN a : n \in DOMAIN (a \o b) /\ (a \o b)[n] = a[n]
        /\ \A n \in DOMAIN b : Len(a) + n \in DOMAIN (a \o b) /\ (a \o b)[Len(a) + n] = b[n]
        /\ \A n \in DOMAIN (a \o b) : n \in Nat /\ (n \in DOMAIN a \/ (n > Len(a) /\ n - Len(a) \in DOMAIN b /\ (a \o b)[n] = b[n - Len(a)]))
    BY <2>1, LinesJoin, ZenonT(30)
  <2>3. ASSUME NEW n \in DOMAIN (a \o b)
        PROVE  n \in DOMAIN a \/ (n - Len(a) \in DOMAIN b /\ (a \o b)[n] = b[n - Len(a)])
    BY <2>2, Zenon
  <2> QED
    BY <2>2, <2>3, Zenon
<1>2. PICK c, j : c = a \o b /\ j = Len(a)
  OBVIOUS
<1>3. /\ \A n \in DOMAIN a : n \in DOMAIN c /\ c[n] = a[n]
      /\ \A n \in DOMAIN b : j + n \in DOMAIN c /\ c[j + n] = b[n]
      /\ \A n \in DOMAIN c : n \in DOMAIN a \/ (n - j \in DOMAIN b /\ c[n] = b[n - j])
  BY <1>1, <1>2
<1>4. ASSUME NEW n \in DOMAIN c
      PROVE  \/ \E x \in ids \cup more : c[n] = <<"instance", x, SentToPage(new[x])>>
             \/ \E x \in gone \cup left : c[n] = <<"removed", x>>
  <2>1. CASE n \in DOMAIN a
    BY <1>3, <2>1 DEF SentFor
  <2>2. CASE n - j \in DOMAIN b /\ c[n] = b[n - j]
    BY <2>2 DEF SentFor
  <2> QED
    BY <1>3, <2>1, <2>2
<1>5. ASSUME NEW x \in (ids \cup more) \cup (gone \cup left) PROVE \E n \in DOMAIN c : Tells(c[n], x)
  <2>1. CASE x \in ids \cup gone
    <3>1. PICK n \in DOMAIN a : Tells(a[n], x)
      BY <2>1 DEF SentFor
    <3> QED
      BY <1>3, <3>1
  <2>2. CASE x \in more \cup left
    <3>1. PICK n \in DOMAIN b : Tells(b[n], x)
      BY <2>2 DEF SentFor
    <3> QED
      BY <1>3, <3>1
  <2> QED
    BY <2>1, <2>2
<1> QED
  BY <1>1, <1>2, <1>4, <1>5 DEF SentFor

\* The end of an instance.
LEMMA RemovedIsSent ==
    ASSUME NEW new, NEW id PROVE SentFor(<<<<"removed", id>>>>, new, {}, {id})
<1>1. <<<<"removed", id>>>> \in Seq({<<"removed", id>>})
  OBVIOUS
<1>2. DOMAIN <<<<"removed", id>>>> = {1} /\ <<<<"removed", id>>>>[1] = <<"removed", id>>
  OBVIOUS
<1> QED
  <2>1. PICK es : es = <<<<"removed", id>>>>
    OBVIOUS
  <2>2. IsLine(es)
    BY <1>1, <2>1 DEF IsLine
  <2>3. \A n \in DOMAIN es : es[n] = <<"removed", id>>
    BY <1>2, <2>1
  <2>4. Tells(es[1], id) /\ 1 \in DOMAIN es
    <3>1. es[1] = <<"removed", id>> /\ 1 \in DOMAIN es
      BY <1>2, <2>1
    <3>2. es[1][1] = "removed" /\ es[1][2] = id
      BY <3>1
    <3> QED
      BY <3>1, <3>2 DEF Tells
  <2> QED
    BY <2>1, <2>2, <2>3, <2>4 DEF SentFor

\* A page that is told of each change keeps agreeing.
LEMMA NotifyAgrees ==
    ASSUME hubScope.cap \in Nat, NEW p, PageIs(p), NEW inst, NEW new, NEW fav, NEW liked, NEW es, PageAgrees(p, inst, fav),
           IsLine(es), \A n \in DOMAIN es : es[n][1] \in Kinds,
           \A id : \A n \in DOMAIN es : Tells(es[n], id) => Says(es[n], id, new),
           \A id : (\A n \in DOMAIN es : ~Tells(es[n], id)) => SameTo(inst, new, id),
           \A n \in DOMAIN es : Likes(es[n]) => es[n][2] = liked,
           (\A n \in DOMAIN es : ~Likes(es[n])) => liked = fav
    PROVE  PageIs(Notify(p, es)) /\ PageAgrees(Notify(p, es), new, liked) /\ (Notify(p, es).subscribed => p.subscribed)
<1>1. CASE ~p.subscribed
  <2>1. Notify(p, es) = p
    BY <1>1 DEF Notify
  <2> QED
    BY <1>1, <2>1 DEF PageAgrees
<1>2. CASE p.subscribed /\ ~(Len(p.queue) + Len(es) <= hubScope.cap)
  <2>1. PICK q, c, r, k : q = p.queue /\ c = q \o es /\ r = Notify(p, es) /\ k = hubScope.cap
    OBVIOUS
  <2>2. PICK t : t = SubSeq(c, 1, k)
    OBVIOUS
  <2>3. r = [p EXCEPT !.subscribed = FALSE, !.queue = t]
    BY <1>2, <2>1, <2>2 DEF Notify
  <2>4. PageFields \subseteq DOMAIN r /\ r.queue = t /\ ~r.subscribed
    BY <2>3 DEF PageIs, PageFields
  <2>5. IsLine(q) /\ (\A n \in DOMAIN q : q[n][1] \in Kinds)
    BY <2>1 DEF PageIs
  <2>6. /\ IsLine(c)
        /\ \A n \in DOMAIN c : n \in Nat /\ ((n \in DOMAIN q /\ c[n] = q[n]) \/ (n - Len(q) \in DOMAIN es /\ c[n] = es[n - Len(q)]))
    BY <2>1, <2>5, LinesJoin
  <2>7. \A n \in DOMAIN c : c[n][1] \in Kinds
    BY <2>5, <2>6
  <2>8. Len(c) = Len(q) + Len(es) /\ Len(q) \in Nat /\ Len(es) \in Nat
    <3>1. PICK S, T : q \in Seq(S) /\ es \in Seq(T)
      BY <2>5 DEF IsLine
    <3>2. PICK U : U = S \cup T
      OBVIOUS
    <3>3. q \in Seq(U) /\ es \in Seq(U)
      BY <3>1, <3>2
    <3> QED
      BY <2>1, <3>3, ConcatProperties, LenProperties
  <2>9. IsLine(t) /\ \A n \in DOMAIN t : n \in DOMAIN c /\ t[n] = c[n]
    <3>1. PICK S : c \in Seq(S)
      BY <2>6 DEF IsLine
    <3>2. k \in Nat /\ k < Len(c)
      BY <1>2, <2>1, <2>8
    <3>3. DOMAIN c = 1..Len(c) /\ \A n \in 1..Len(c) : c[n] \in S
      BY <3>1, LenProperties
    <3>4. t \in Seq(S) /\ Len(t) = k /\ \A i \in 1..k : t[i] = c[i]
      <4>1. \A i \in 1..k : c[i] \in S
        BY <2>8, <3>2, <3>3
      <4>2. /\ t \in Seq(S) /\ Len(t) = (IF 1 <= k THEN k - 1 + 1 ELSE 0)
            /\ \A i \in 1..(k - 1 + 1) : t[i] = c[1 + i - 1]
        BY <2>2, <3>2, <4>1, SubSeqProperties
      <4> QED
        BY <3>2, <4>2
    <3>5. DOMAIN t = 1..k
      BY <3>4, LenProperties
    <3> QED
      BY <2>8, <3>2, <3>3, <3>4, <3>5 DEF IsLine
  <2>10. PageIs(r)
    BY <2>4, <2>7, <2>9 DEF PageIs
  <2> QED
    BY <2>1, <2>4, <2>10 DEF PageAgrees
<1>3. CASE p.subscribed /\ Len(p.queue) + Len(es) <= hubScope.cap
  <2>1. PICK q, c, r : q = p.queue /\ c = q \o es /\ r = Notify(p, es)
    OBVIOUS
  <2>2. r = [p EXCEPT !.queue = c]
    BY <1>3, <2>1 DEF Notify
  <2>3. PageFields \subseteq DOMAIN r /\ r.queue = c /\ r.view = p.view /\ r.favorites = p.favorites /\ r.subscribed = p.subscribed
    BY <2>2 DEF PageIs, PageFields
  <2>4. IsLine(q) /\ (\A n \in DOMAIN q : q[n][1] \in Kinds) /\ (\A id : PageShows(p, inst, id)) /\ PageLikes(p, fav)
    BY <1>3, <2>1 DEF PageAgrees, PageIs
  <2>5. PICK j : j = Len(q)
    OBVIOUS
  <2>6. /\ IsLine(c) /\ j \in Nat /\ DOMAIN q = 1..j
        /\ \A n \in DOMAIN q : n \in DOMAIN c /\ c[n] = q[n]
        /\ \A n \in DOMAIN es : j + n \in DOMAIN c /\ c[j + n] = es[n]
        /\ \A n \in DOMAIN c : n \in Nat /\ (n \in DOMAIN q \/ (n > j /\ n - j \in DOMAIN es /\ c[n] = es[n - j]))
    <3>1. IsLine(q) /\ IsLine(es)
      BY <2>4
    <3>2. /\ IsLine(q \o es) /\ Len(q) \in Nat /\ DOMAIN q = 1..Len(q)
          /\ \A n \in DOMAIN q : n \in DOMAIN (q \o es) /\ (q \o es)[n] = q[n]
          /\ \A n \in DOMAIN es : Len(q) + n \in DOMAIN (q \o es) /\ (q \o es)[Len(q) + n] = es[n]
          /\ \A n \in DOMAIN (q \o es) : n \in Nat /\ (n \in DOMAIN q \/ (n > Len(q) /\ n - Len(q) \in DOMAIN es /\ (q \o es)[n] = es[n - Len(q)]))
      BY <3>1, LinesJoin, ZenonT(30)
    <3>3. q \o es = c /\ Len(q) = j
      BY <2>1, <2>5
    <3> QED
      BY <3>2, <3>3
  <2>7. \A n \in DOMAIN es : n \in Nat /\ n > 0
    <3>1. PICK S : es \in Seq(S)
      BY DEF IsLine
    <3> QED
      BY <3>1, LenProperties
  <2>8. ASSUME NEW id PROVE PageShows(r, new, id)
    <3>1. ASSUME \A n \in DOMAIN c : ~Tells(c[n], id)
          PROVE  (id \in DOMAIN p.view <=> id \in DOMAIN new) /\ (id \in DOMAIN new => p.view[id] = SentToPage(new[id]))
      <4>1. (\A n \in DOMAIN q : ~Tells(q[n], id)) /\ (\A n \in DOMAIN es : ~Tells(es[n], id))
        BY <2>6, <3>1
      <4>2. (id \in DOMAIN p.view <=> id \in DOMAIN inst) /\ (id \in DOMAIN inst => p.view[id] = SentToPage(inst[id]))
        BY <2>1, <2>4, <4>1 DEF PageShows
      <4>3. SameTo(inst, new, id)
        BY <4>1
      <4> QED
        BY <4>2, <4>3 DEF SameTo
    <3>2. ASSUME NEW n \in DOMAIN c, Tells(c[n], id), \A m \in DOMAIN c : m > n => ~Tells(c[m], id)
          PROVE  Says(c[n], id, new)
      <4>1. CASE n \in DOMAIN q
        <5>1. Tells(q[n], id) /\ \A m \in DOMAIN q : m > n => ~Tells(q[m], id)
          BY <2>6, <3>2, <4>1
        <5>2. Says(q[n], id, inst)
          BY <2>1, <2>4, <4>1, <5>1 DEF PageShows
        <5>3. ASSUME NEW m \in DOMAIN es PROVE ~Tells(es[m], id)
          <6>1. j + m \in DOMAIN c /\ c[j + m] = es[m] /\ m \in Nat /\ m > 0
            BY <2>6, <2>7
          <6>2. j + m > n
            BY <2>6, <4>1, <6>1
          <6> QED
            BY <3>2, <6>1, <6>2
        <5>4. SameTo(inst, new, id)
          BY <5>3
        <5> QED
          BY <2>6, <4>1, <5>2, <5>4 DEF Says, SameTo
      <4>2. CASE n > j /\ n - j \in DOMAIN es /\ c[n] = es[n - j]
        BY <3>2, <4>2
      <4> QED
        BY <2>6, <4>1, <4>2
    <3> QED
      BY <2>3, <3>1, <3>2 DEF PageShows
  <2>9. PageLikes(r, liked)
    <3>1. ASSUME \A n \in DOMAIN c : ~Likes(c[n]) PROVE p.favorites = liked
      <4>1. (\A n \in DOMAIN q : ~Likes(q[n])) /\ (\A n \in DOMAIN es : ~Likes(es[n]))
        BY <2>6, <3>1
      <4>2. p.favorites = fav
        BY <2>1, <2>4, <4>1 DEF PageLikes
      <4> QED
        BY <4>1, <4>2
    <3>2. ASSUME NEW n \in DOMAIN c, Likes(c[n]), \A m \in DOMAIN c : m > n => ~Likes(c[m])
          PROVE  c[n][2] = liked
      <4>1. CASE n \in DOMAIN q
        <5>1. Likes(q[n]) /\ \A m \in DOMAIN q : m > n => ~Likes(q[m])
          BY <2>6, <3>2, <4>1
        <5>2. q[n][2] = fav
          BY <2>1, <2>4, <4>1, <5>1 DEF PageLikes
        <5>3. ASSUME NEW m \in DOMAIN es PROVE ~Likes(es[m])
          <6>1. j + m \in DOMAIN c /\ c[j + m] = es[m] /\ m \in Nat /\ m > 0
            BY <2>6, <2>7
          <6>2. j + m > n
            BY <2>6, <4>1, <6>1
          <6> QED
            BY <3>2, <6>1, <6>2
        <5>4. liked = fav
          BY <5>3
        <5> QED
          BY <2>6, <4>1, <5>2, <5>4
      <4>2. CASE n > j /\ n - j \in DOMAIN es /\ c[n] = es[n - j]
        BY <3>2, <4>2
      <4> QED
        BY <2>6, <4>1, <4>2
    <3> QED
      BY <2>3, <3>1, <3>2 DEF PageLikes
  <2>10. \A n \in DOMAIN c : c[n][1] \in Kinds
    BY <2>4, <2>6
  <2> QED
    BY <1>3, <2>1, <2>3, <2>6, <2>8, <2>9, <2>10 DEF PageAgrees, PageIs
<1> QED
  BY <1>1, <1>2, <1>3

\* So it does once it is sent what changed.
LEMMA SentAgrees ==
    ASSUME hubScope.cap \in Nat, NEW p, PageIs(p), NEW inst, NEW new, NEW fav, NEW es, NEW ids, NEW gone, PageAgrees(p, inst, fav),
           SentFor(es, new, ids, gone), ids \subseteq DOMAIN new, gone \cap DOMAIN new = {},
           \A id : id \notin ids \cup gone => SameTo(inst, new, id)
    PROVE  PageIs(Notify(p, es)) /\ PageAgrees(Notify(p, es), new, fav) /\ (Notify(p, es).subscribed => p.subscribed)
<1>1. IsLine(es)
  BY DEF SentFor
<1>2. ASSUME NEW n \in DOMAIN es
      PROVE  /\ es[n][1] \in Kinds /\ ~Likes(es[n])
             /\ \A id : Tells(es[n], id) => Says(es[n], id, new)
  <2>1. CASE \E x \in ids : es[n] = <<"instance", x, SentToPage(new[x])>>
    <3>1. PICK x \in ids : es[n] = <<"instance", x, SentToPage(new[x])>>
      BY <2>1
    <3>2. es[n][1] = "instance" /\ es[n][2] = x /\ es[n][3] = SentToPage(new[x])
      BY <3>1
    <3> QED
      BY <3>2 DEF Likes, Tells, Says, Kinds
  <2>2. CASE \E x \in gone : es[n] = <<"removed", x>>
    <3>1. PICK x \in gone : es[n] = <<"removed", x>>
      BY <2>2
    <3>2. es[n][1] = "removed" /\ es[n][2] = x
      BY <3>1
    <3> QED
      BY <3>2 DEF Likes, Tells, Says, Kinds
  <2> QED
    BY <2>1, <2>2 DEF SentFor
<1>3. ASSUME NEW id, \A n \in DOMAIN es : ~Tells(es[n], id) PROVE SameTo(inst, new, id)
  BY <1>3 DEF SentFor
<1> QED
  BY <1>1, <1>2, <1>3, NotifyAgrees

-----------------------------------------------------------------------------
(* The spans of work.                                                        *)

IsSpan(s) == s \in Nat \X Nat

\* A span that begins where the last one ended, or later, may follow.
LEMMA SpanFollows ==
    ASSUME NEW spans, NEW from \in Nat, NEW to \in Nat, SpansHold(spans, from), from < to
    PROVE  SpansHold(Append(spans, <<from, to>>), to)
<1> DEFINE s == Append(spans, <<from, to>>)
<1>1. spans \in Seq(Nat \X Nat) /\ <<from, to>> \in Nat \X Nat
  BY DEF SpansHold
<1>2. s \in Seq(Nat \X Nat) /\ Len(s) = Len(spans) + 1 /\ (\A n \in 1..Len(spans) : s[n] = spans[n]) /\ s[Len(spans) + 1] = <<from, to>>
  BY <1>1, AppendProperties
<1>3. Len(spans) \in Nat /\ DOMAIN spans = 1..Len(spans) /\ DOMAIN s = 1..(Len(spans) + 1)
  BY <1>1, <1>2, LenProperties
<1> HIDE DEF s
<1>4. ASSUME NEW n \in DOMAIN s PROVE s[n][1] < s[n][2] /\ s[n][2] <= to
  <2>1. CASE n = Len(spans) + 1
    <3>1. s[n] = <<from, to>>
      BY <1>2, <2>1
    <3>2. s[n][1] = from /\ s[n][2] = to
      BY <3>1
    <3> QED
      BY <3>2
  <2>2. CASE n # Len(spans) + 1
    <3>1. n \in DOMAIN spans /\ s[n] = spans[n]
      <4>1. n \in 1..(Len(spans) + 1)
        BY <1>3
      <4>2. n \in 1..Len(spans)
        BY <1>3, <2>2, <4>1
      <4> QED
        BY <1>2, <1>3, <4>2
    <3>2. spans[n][1] < spans[n][2] /\ spans[n][2] <= from /\ spans[n] \in Nat \X Nat
      BY <1>1, <3>1 DEF SpansHold
    <3>3. spans[n][2] \in Nat
      BY <3>2
    <3> QED
      BY <3>1, <3>2, <3>3
  <2> QED
    BY <2>1, <2>2
<1>5. ASSUME NEW n \in 2..Len(s) PROVE s[n - 1][2] <= s[n][1]
  <2>1. n - 1 \in DOMAIN spans /\ s[n - 1] = spans[n - 1]
    <3>1. n \in 2..(Len(spans) + 1)
      BY <1>2
    <3>2. n - 1 \in 1..Len(spans)
      BY <1>3, <3>1
    <3> QED
      BY <1>2, <1>3, <3>2
  <2>2. CASE n = Len(spans) + 1
    <3>1. s[n][1] = from /\ spans[n - 1][2] <= from
      <4>1. s[n] = <<from, to>>
        BY <1>2, <2>2
      <4>2. spans[n - 1][2] <= from
        BY <1>1, <2>1 DEF SpansHold
      <4> QED
        BY <4>1, <4>2
    <3> QED
      BY <2>1, <3>1
  <2>3. CASE n # Len(spans) + 1
    <3>1. n \in 2..Len(spans) /\ s[n] = spans[n]
      <4>1. n \in 2..(Len(spans) + 1)
        BY <1>2
      <4>2. n \in 2..Len(spans) /\ n \in 1..Len(spans)
        BY <1>3, <2>3, <4>1
      <4> QED
        BY <1>2, <4>2
    <3> QED
      BY <2>1, <3>1 DEF SpansHold
  <2> QED
    BY <2>2, <2>3
<1> QED
  BY <1>2, <1>4, <1>5 DEF SpansHold, s

\* A later end holds too.
LEMMA LaterEnd ==
    ASSUME NEW spans, NEW a \in Nat, NEW b \in Nat, a <= b, SpansHold(spans, a)
    PROVE  SpansHold(spans, b)
<1>1. ASSUME NEW n \in DOMAIN spans PROVE spans[n][2] <= b
  <2>1. spans[n][2] <= a /\ spans[n] \in Nat \X Nat
    BY DEF SpansHold
  <2>2. spans[n][2] \in Nat
    BY <2>1
  <2> QED
    BY <2>1, <2>2
<1> QED
  BY <1>1 DEF SpansHold

\* What is timely now stays so.
LEMMA StaysTimely ==
    ASSUME NEW i, NEW now \in Nat, NEW then \in Nat, now <= then, Timely(i, now)
    PROVE  Timely(i, then)
<1>1. CASE i.since = Never
  BY <1>1, LaterEnd DEF Timely
<1>2. CASE i.since # Never
  BY <1>2 DEF Timely
<1> QED
  BY <1>1, <1>2

\* A span that ends, now or before.
LEMMA EndSpanIsTimely ==
    ASSUME NEW i, IsInst(i), NEW now \in Nat, now < Never, Timely(i, now), i.since # Never, NEW end \in 0..now
    PROVE  Timely(EndSpan(i, end), now) /\ EndSpan(i, end).since = Never
<1> DEFINE j == EndSpan(i, end)
<1>1. /\ j.last = i.last /\ j.since = Never
      /\ j.spans = IF end > i.since THEN Append(i.spans, <<i.since, end>>) ELSE i.spans
  BY DEF EndSpan, IsInst, InstFields
<1>2. i.since \in Nat /\ i.since <= now /\ i.last \in 0..now /\ SpansHold(i.spans, i.since)
  BY DEF Timely
<1>3. SpansHold(j.spans, now)
  <2>1. CASE end > i.since
    <3>1. SpansHold(Append(i.spans, <<i.since, end>>), end)
      BY <1>2, <2>1, SpanFollows
    <3>2. SpansHold(Append(i.spans, <<i.since, end>>), now)
      BY <3>1, LaterEnd
    <3> QED
      BY <1>1, <2>1, <3>2
  <2>2. CASE ~(end > i.since)
    BY <1>1, <1>2, <2>2, LaterEnd
  <2> QED
    BY <2>1, <2>2
<1> QED
  BY <1>1, <1>2, <1>3 DEF Timely

\* Whether it works is told by what it shows.
LEMMA SameWorking ==
    ASSUME NEW i, NEW j, SameInst(j, i) PROVE Working(j) <=> Working(i)
  BY DEF SameInst, Working, StateOf

\* What track leaves: a span goes on exactly while the instance works.
TrackedIs(j, i, now) ==
    /\ Timely(j, now) /\ (j.since # Never <=> Working(j)) /\ (j.since = i.since => j.spans = i.spans)

\* workLog.track starts and ends spans in time.
LEMMA TrackIsTimely ==
    ASSUME NEW i, IsInst(i), NEW now \in Nat, now < Never, Timely(i, now), i.heard \in Nat
    PROVE  TrackedIs(Track(i, now), i, now)
<1>1. CASE Working(i) /\ i.since = Never
  <2> DEFINE j == [i EXCEPT !.since = now]
  <2>1. Track(i, now) = j
    BY <1>1 DEF Track
  <2>2. j.last = i.last /\ j.spans = i.spans /\ j.since = now /\ SameInst(j, i)
    BY DEF IsInst, InstFields, SameInst
  <2> HIDE DEF j
  <2>3. now # Never
    BY DEF Never
  <2>4. Timely(j, now)
    BY <1>1, <2>2, <2>3 DEF Timely
  <2>5. Working(j)
    BY <1>1, <2>2, SameWorking
  <2> QED
    BY <2>1, <2>2, <2>3, <2>4, <2>5 DEF TrackedIs
<1>2. CASE ~Working(i) /\ i.since # Never
  <2> DEFINE end == IF i.heard < now THEN i.heard ELSE now
  <2>1. Track(i, now) = EndSpan(i, end)
    BY <1>2 DEF Track
  <2>2. end \in 0..now
    OBVIOUS
  <2> HIDE DEF end
  <2>3. Timely(EndSpan(i, end), now) /\ EndSpan(i, end).since = Never
    BY <1>2, <2>2, EndSpanIsTimely
  <2>4. ~Working(EndSpan(i, end))
    BY <1>2, EndSpanKeeps, SameWorking
  <2> QED
    BY <1>2, <2>1, <2>3, <2>4 DEF TrackedIs
<1>3. CASE ~(Working(i) /\ i.since = Never) /\ ~(~Working(i) /\ i.since # Never)
  <2>1. Track(i, now) = i
    BY <1>3 DEF Track
  <2> QED
    BY <1>3, <2>1 DEF TrackedIs
<1> QED
  BY <1>1, <1>2, <1>3

\* So does update, whatever else it derives.
LEMMA SettledIsTimely ==
    ASSUME NEW to, IsInst(to), NEW created \in BOOLEAN, hub.now \in Nat, hub.now < Never, Timely(to, hub.now), to.heard \in Nat
    PROVE  TrackedIs(HubSettled(to, created), to, hub.now) /\ HubSettled(to, created).heard = Never
<1> DEFINE i == HubChanged(to, created)
           j == Track(i, hub.now)
           k == HubSettled(to, created)
<1>1. IsInst(i) /\ SameInst(i, to) /\ i.since = to.since /\ i.spans = to.spans /\ i.heard = to.heard
  BY DEF HubChanged, IsInst, InstFields, SameInst
<1>2. Timely(i, hub.now)
  BY <1>1 DEF Timely, SameInst
<1> HIDE DEF i
<1>3. TrackedIs(j, i, hub.now) /\ IsInst(j)
  <2>1. TrackedIs(j, i, hub.now)
    BY <1>1, <1>2, TrackIsTimely
  <2>2. IsInst(j)
    <3>1. \/ j = [i EXCEPT !.since = hub.now]
          \/ \E end : j = EndSpan(i, end)
          \/ j = i
      BY DEF Track
    <3>2. DOMAIN [i EXCEPT !.since = hub.now] = DOMAIN i
      OBVIOUS
    <3> QED
      BY <1>1, <3>1, <3>2, EndSpanKeeps DEF IsInst
  <2> QED
    BY <2>1, <2>2
<1>4. k = [j EXCEPT !.heard = Never]
  BY DEF HubSettled, i
<1> HIDE DEF j, k
<1>5. k.last = j.last /\ k.since = j.since /\ k.spans = j.spans /\ SameInst(k, j) /\ k.heard = Never
  BY <1>3, <1>4 DEF IsInst, InstFields, SameInst
<1>6. Working(k) <=> Working(j)
  BY <1>5, SameWorking
<1>7. TrackedIs(k, to, hub.now)
  BY <1>1, <1>3, <1>5, <1>6 DEF TrackedIs, Timely
<1> QED
  BY <1>5, <1>7 DEF k

-----------------------------------------------------------------------------
(* What an update leaves.                                                    *)

\* The fields of an instance but its pin.
BareSame(j, i) ==
    SameInst(j, i) /\ j.changed = i.changed /\ j.activity = i.activity /\ j.since = i.since /\ j.spans = i.spans /\ j.heard = i.heard

\* An instance whose fields stay is sent and kept as before.
LEMMA SameSent ==
    ASSUME NEW i, NEW j, BareSame(j, i), j.pin = i.pin
    PROVE  SentToPage(j) = SentToPage(i) /\ Kept(j) = Kept(i)
<1>1. StateOf(j) = StateOf(i)
  BY DEF BareSame, SameInst, StateOf
<1>2. Seen(j) = Seen(i)
  BY <1>1 DEF BareSame, SameInst, Seen, Offline
<1> QED
  BY <1>2 DEF BareSame, SameInst, SentToPage, Kept

\* What a handler's change keeps of the work and the pin.
FairChange(id, to) ==
    /\ IsInst(to) /\ IsID(id)
    /\ to.since = Before(id).since /\ to.spans = Before(id).spans /\ to.heard \in Nat /\ to.last \in 0..hub.now
    /\ to.pin \in Nat /\ (to.pin # Before(id).pin => (to.pin = 0 <=> Before(id).pin # 0))

\* What the instances are once Update made `to' the instance id.
InstancesAre(inst, id, to) ==
    /\ DOMAIN inst = DOMAIN hub.inst \cup {id} /\ Numbered(inst) /\ Dense(inst)
    /\ \A x \in DOMAIN hub.inst \ {id} : BareSame(inst[x], hub.inst[x])
    /\ TrackedIs(inst[id], to, hub.now) /\ inst[id].heard \in Nat
    /\ inst[id].pin = Before(id).pin => \A x \in DOMAIN hub.inst \ {id} : inst[x] = hub.inst[x]

\* Update renumbers the pins, tracks the work and leaves the other instances.
LEMMA InstancesFollow ==
    ASSUME HubIInv, PinsHold, WorkHolds, NEW id, NEW to, FairChange(id, to)
    PROVE  InstancesAre(WithInstance(id, to), id, to)
<1> DEFINE created == id \notin DOMAIN hub.inst
           new == HubSettled(to, created)
           put == Put(hub.inst, id, new)
           inst == WithInstance(id, to)
<1>1. /\ hub.now \in Nat /\ hub.now < Never
      /\ \A x \in DOMAIN hub.inst : IsInst(hub.inst[x]) /\ Timely(hub.inst[x], hub.now)
      /\ Numbered(hub.inst) /\ Dense(hub.inst)
  <2>1. hubScope.ticks \in Nat /\ hubScope.ticks < Never
    BY HubAssumption DEF HubIInv, HubTyped
  <2>2. hub.now \in 0..hubScope.ticks
    BY DEF WorkHolds
  <2>3. hub.now \in Nat /\ hub.now < Never
    BY <2>1, <2>2 DEF Never
  <2> QED
    BY <2>3 DEF HubIInv, HubTyped, WorkHolds, PinsHold
<1>2. IsInst(to) /\ Timely(to, hub.now) /\ to.heard \in Nat
  <2>1. CASE created
    <3>1. Before(id).since = Never /\ Before(id).spans = <<>>
      BY <2>1 DEF Before, NewInstance
    <3>2. SpansHold(<<>>, hub.now)
      BY DEF SpansHold
    <3> QED
      BY <3>1, <3>2 DEF FairChange, Timely
  <2>2. CASE ~created
    <3>1. Before(id) = hub.inst[id] /\ Timely(hub.inst[id], hub.now)
      BY <1>1, <2>2 DEF Before
    <3> QED
      BY <3>1 DEF FairChange, Timely
  <2> QED
    BY <2>1, <2>2
<1>3. IsInst(new) /\ SameInst(new, to) /\ new.pin = to.pin
  BY <1>2, SettledKeeps
<1>4. TrackedIs(new, to, hub.now) /\ new.heard = Never
  BY <1>1, <1>2, SettledIsTimely
<1> HIDE DEF new
<1>5. /\ DOMAIN put = DOMAIN hub.inst \cup {id} /\ put[id] = new
      /\ \A x \in DOMAIN hub.inst \ {id} : put[x] = hub.inst[x]
  BY DEF Put
<1> HIDE DEF put
<1>6. Numbered(put)
  <2>1. IsFiniteSet(DOMAIN put)
    BY <1>1, <1>5, FS_AddElement DEF Numbered
  <2>2. "pin" \in DOMAIN new /\ new.pin \in Nat /\ IsID(id)
    BY <1>3 DEF FairChange, IsInst, InstFields
  <2>3. \A x \in DOMAIN hub.inst : IsID(x) /\ "pin" \in DOMAIN hub.inst[x] /\ hub.inst[x].pin \in Nat
    BY <1>1 DEF Numbered
  <2> QED
    BY <1>5, <2>1, <2>2, <2>3 DEF Numbered
<1>7. \A x \in DOMAIN hub.inst \ {id} : BareSame(put[x], hub.inst[x])
  BY <1>5 DEF BareSame, SameInst
<1>8. Never \in Nat
  BY DEF Never
<1>9. CASE to.pin = Before(id).pin
  <2>1. inst = put
    BY <1>9 DEF WithInstance, put, new
  <2>2. Dense(put)
    <3>1. CASE created
      <4>1. new.pin = 0
        BY <1>3, <1>9, <3>1 DEF Before, NewInstance
      <4>2. Pinned(put) = Pinned(hub.inst)
        BY <1>5, <3>1, <4>1 DEF Pinned
      <4>3. \A x \in Pinned(hub.inst) : put[x].pin = hub.inst[x].pin
        BY <1>5, <3>1 DEF Pinned
      <4> QED
        BY <1>1, <4>2, <4>3 DEF Dense
    <3>2. CASE ~created
      <4>1. DOMAIN put = DOMAIN hub.inst /\ \A x \in DOMAIN hub.inst : put[x].pin = hub.inst[x].pin
        BY <1>3, <1>5, <1>9, <3>2 DEF Before
      <4>2. Pinned(put) = Pinned(hub.inst)
        BY <4>1 DEF Pinned
      <4>3. \A x \in Pinned(hub.inst) : put[x].pin = hub.inst[x].pin
        BY <4>1 DEF Pinned
      <4> QED
        BY <1>1, <4>2, <4>3 DEF Dense
    <3> QED
      BY <3>1, <3>2
  <2> QED
    BY <1>4, <1>5, <1>6, <1>7, <1>8, <2>1, <2>2 DEF InstancesAre
<1>10. CASE to.pin # Before(id).pin
  <2>1. inst = NumberPins(put)
    BY <1>10 DEF WithInstance, put, new
  <2>2. /\ DOMAIN inst = DOMAIN put /\ Numbered(inst) /\ Dense(inst)
        /\ \A x \in DOMAIN put : \A f \in DOMAIN put[x] \ {"pin"} : inst[x][f] = put[x][f]
        /\ \A x \in DOMAIN put : inst[x].pin = 0 <=> put[x].pin = 0
    BY <1>6, <2>1, NumberPinsNumbers
  <2> HIDE DEF inst
  <2>3. ASSUME NEW x \in DOMAIN put PROVE BareSame(inst[x], put[x])
    <3>1. IsInst(put[x])
      BY <1>1, <1>3, <1>5
    <3>2. \A f \in InstFields \ {"pin"} : inst[x][f] = put[x][f]
      BY <2>2, <3>1 DEF IsInst
    <3> QED
      BY <3>2 DEF BareSame, SameInst, InstFields
  <2>4. \A x \in DOMAIN hub.inst \ {id} : BareSame(inst[x], hub.inst[x])
    BY <1>5, <2>3
  <2>5. TrackedIs(inst[id], to, hub.now) /\ inst[id].heard \in Nat
    <3>1. BareSame(inst[id], new)
      BY <1>5, <2>3
    <3>2. Working(inst[id]) <=> Working(new)
      BY <3>1, SameWorking DEF BareSame
    <3> QED
      BY <1>4, <1>8, <3>1, <3>2 DEF BareSame, SameInst, TrackedIs, Timely
  <2>6. inst[id].pin # Before(id).pin
    <3>1. inst[id].pin = 0 <=> to.pin = 0
      BY <1>3, <1>5, <2>2
    <3> QED
      BY <1>10, <3>1 DEF FairChange
  <2> QED
    BY <1>5, <2>2, <2>4, <2>5, <2>6 DEF InstancesAre, inst
<1> QED
  BY <1>9, <1>10

\* A change of an instance that the file doesn't keep leaves its row, and every other's.
LEMMA SavedSame ==
    ASSUME NEW a, NEW b, DOMAIN a = DOMAIN b, \A x \in DOMAIN a : Kept(b[x]) = Kept(a[x])
    PROVE  Saved(b) = Saved(a)
  BY DEF Saved

\* The file stays current where what it keeps stays.
LEMMA FileStays ==
    ASSUME NEW sc, NEW h, NEW g, NEW disk, FileCurrent(sc, h, disk), g.up = h.up, g.favorites = h.favorites,
           g.files["instances"].pending = h.files["instances"].pending, g.files["instances"].writing = h.files["instances"].writing,
           Saved(g.inst) = Saved(h.inst)
    PROVE  FileCurrent(sc, g, disk)
  BY DEF FileCurrent

\* What mark leaves.
Marked(files, g, f, b) ==
    /\ DOMAIN g = DOMAIN files /\ \A x \in Files : FileFields \subseteq DOMAIN g[x] /\ g[x].pending \in BOOLEAN /\ g[x].closed \in BOOLEAN
    /\ \A x \in Files \ {f} : g[x] = files[x]
    /\ b /\ hubScope.keep => g[f].pending
    /\ ~b => g[f] = files[f]
    /\ g[f].closed = files[f].closed /\ g[f].writing = files[f].writing

\* persister.mark changes the file it marks only.
LEMMA MarkMarks ==
    ASSUME NEW f \in Files, NEW b \in BOOLEAN, NEW files, DOMAIN files = Files,
           \A x \in Files : FileFields \subseteq DOMAIN files[x] /\ files[x].pending \in BOOLEAN /\ files[x].closed \in BOOLEAN
    PROVE  Marked(files, Mark(files, f, b), f, b)
<1>1. CASE b /\ hubScope.keep
  <2>1. PICK g : g = [files[f] EXCEPT !.pending = TRUE, !.nudge = TRUE]
    OBVIOUS
  <2>2. Mark(files, f, b) = [files EXCEPT ![f] = g]
    BY <1>1, <2>1 DEF Mark
  <2>3. FileFields \subseteq DOMAIN g /\ g.pending = TRUE /\ g.closed = files[f].closed /\ g.writing = files[f].writing
    BY <2>1 DEF FileFields
  <2> QED
    BY <1>1, <2>2, <2>3 DEF Marked
<1>2. CASE ~(b /\ hubScope.keep)
  BY <1>2 DEF Mark, Marked
<1> QED
  BY <1>1, <1>2

\* What Update leaves of the hub.
Updated(id, to, calls, follows) ==
    /\ HubFields \subseteq DOMAIN hub' /\ hub'.inst = WithInstance(id, to) /\ hub'.calls = calls /\ hub'.follows = follows
    /\ hub'.up = hub.up /\ hub'.now = hub.now /\ hub'.favorites = hub.favorites /\ hub'.order = hub.order
    /\ hub'.watchers = hub.watchers /\ hub'.starting = hub.starting
    /\ Marked(hub.files, hub'.files, "instances",
              id \notin DOMAIN hub.inst \/ WithInstance(id, to)[id].since # Before(id).since \/ Kept(WithInstance(id, to)[id]) # Kept(Before(id)))

\* What Update leaves of the hub and its files.
LEMMA UpdateIs ==
    ASSUME HubIInv, HubShaped, NEW id, NEW to, NEW calls, NEW follows, Update(id, to, calls, follows)
    PROVE  Updated(id, to, calls, follows)
<1> DEFINE inst == WithInstance(id, to)
           b == id \notin DOMAIN hub.inst \/ inst[id].since # Before(id).since \/ Kept(inst[id]) # Kept(Before(id))
           files == Mark(hub.files, "instances", b)
<1>1. hub' = [hub EXCEPT !.inst = inst, !.calls = calls, !.follows = follows, !.files = files]
  BY DEF Update
<1>2. HubFields \subseteq DOMAIN hub /\ DOMAIN hub.files = Files
  BY DEF HubIInv, HubTyped
<1>3. Marked(hub.files, files, "instances", b)
  <2> HIDE DEF b
  <2>1. PICK x \in BOOLEAN : x = (b = TRUE)
    OBVIOUS
  <2>2. b = x
    BY <2>1 DEF b
  <2>3. \A x1 \in Files : FileFields \subseteq DOMAIN hub.files[x1] /\ hub.files[x1].pending \in BOOLEAN /\ hub.files[x1].closed \in BOOLEAN
    BY DEF HubShaped
  <2> QED
    BY <1>2, <2>2, <2>3, MarkMarks DEF Files
<1>4. hub'.files = files /\ hub'.inst = inst
  BY <1>1, <1>2 DEF HubFields
<1>5. /\ HubFields \subseteq DOMAIN hub' /\ hub'.calls = calls /\ hub'.follows = follows
      /\ hub'.up = hub.up /\ hub'.now = hub.now /\ hub'.favorites = hub.favorites /\ hub'.order = hub.order
      /\ hub'.watchers = hub.watchers /\ hub'.starting = hub.starting
  <2> HIDE DEF inst, files
  <2> QED
    BY <1>1, <1>2 DEF HubFields
<1> QED
  BY <1>3, <1>4, <1>5 DEF Updated

\* A page's queue is of some length.
LEMMA CapIs == ASSUME HubIInv PROVE hubScope.cap \in Nat
  BY HubAssumption DEF HubIInv, HubTyped

\* What the page is told of an update is all that changed.
LEMMA UpdateTells ==
    ASSUME HubIInv, NEW id, NEW to, NEW inst, IsID(id), InstancesAre(inst, id, to), to.since = Before(id).since, to.spans = Before(id).spans,
           PageHolds, NEW b \in BOOLEAN,
           ~b => id \in DOMAIN hub.inst /\ inst[id].since = Before(id).since /\ Seen(inst[id]) = Seen(Before(id))
    PROVE  LET p == Notify(hubPage, InstanceEvents(inst, IF b THEN {id} ELSE {}) \o InstanceEvents(inst, Renumbered(hub.inst, inst, id)))
           IN  PageIs(p) /\ PageAgrees(p, inst, hub.favorites) /\ (p.subscribed => hubPage.subscribed)
<1>1. PICK told, more : told = (IF b THEN {id} ELSE {}) /\ more = Renumbered(hub.inst, inst, id)
  OBVIOUS
<1>2. /\ IsFiniteSet(DOMAIN inst) /\ (\A x \in DOMAIN inst : x \in Nat) /\ DOMAIN inst = DOMAIN hub.inst \cup {id}
      /\ \A x \in DOMAIN hub.inst \ {id} : BareSame(inst[x], hub.inst[x])
      /\ inst[id].since = to.since => inst[id].spans = to.spans
  BY DEF InstancesAre, Numbered, IsID, TrackedIs
<1>3. told \subseteq DOMAIN inst /\ more \subseteq DOMAIN inst
  BY <1>1, <1>2 DEF Renumbered
<1>4. AreIDs(told) /\ AreIDs(more)
  BY <1>2, <1>3, FS_Subset DEF AreIDs
<1>5. SentFor(InstanceEvents(inst, told), inst, told, {}) /\ SentFor(InstanceEvents(inst, more), inst, more, {})
  BY <1>4, InstanceEventsAreSent
<1>6. SentFor(InstanceEvents(inst, told) \o InstanceEvents(inst, more), inst, told \cup more, {} \cup {})
  BY <1>5, BothAreSent
<1>7. ASSUME NEW x, x \notin told \cup more PROVE SameTo(hub.inst, inst, x)
  <2>1. CASE x = id
    <3>1. ~b
      BY <1>1, <1>7, <2>1
    <3>2. Before(id) = hub.inst[id] /\ id \in DOMAIN hub.inst
      BY <3>1 DEF Before
    <3>3. inst[id].spans = hub.inst[id].spans /\ inst[id].since = hub.inst[id].since /\ Seen(inst[id]) = Seen(hub.inst[id])
      BY <1>2, <3>1, <3>2
    <3> QED
      BY <1>2, <2>1, <3>2, <3>3 DEF SameTo, SentToPage
  <2>2. CASE x # id /\ x \in DOMAIN hub.inst
    <3>1. BareSame(inst[x], hub.inst[x])
      BY <1>2, <2>2
    <3>2. inst[x].pin = hub.inst[x].pin
      BY <1>1, <1>2, <1>7, <2>2 DEF Renumbered
    <3> QED
      BY <1>2, <2>2, <3>1, <3>2, SameSent DEF SameTo
  <2>3. CASE x # id /\ x \notin DOMAIN hub.inst
    BY <1>2, <2>3 DEF SameTo
  <2> QED
    BY <2>1, <2>2, <2>3
<1>8. PICK es : es = InstanceEvents(inst, told) \o InstanceEvents(inst, more)
  OBVIOUS
<1>9. SentFor(es, inst, told \cup more, {})
  <2>1. {} \cup {} = {}
    OBVIOUS
  <2> QED
    BY <1>6, <1>8, <2>1
<1>10. PageIs(hubPage) /\ PageAgrees(hubPage, hub.inst, hub.favorites)
  BY DEF PageHolds
<1>11. told \cup more \subseteq DOMAIN inst /\ {} \cap DOMAIN inst = {}
  BY <1>3
<1>12. \A x : x \notin (told \cup more) \cup {} => SameTo(hub.inst, inst, x)
  BY <1>7
<1>13. PICK ids : ids = told \cup more
  OBVIOUS
<1>14. PageIs(Notify(hubPage, es)) /\ PageAgrees(Notify(hubPage, es), inst, hub.favorites) /\ (Notify(hubPage, es).subscribed => hubPage.subscribed)
  BY <1>9, <1>10, <1>11, <1>12, <1>13, CapIs, SentAgrees
<1> QED
  BY <1>1, <1>8, <1>14

\* A change of one instance keeps what the store, the file and the page agree on.
LEMMA UpdateTracks ==
    ASSUME HubIInv, TrackHolds, NEW id, NEW to, NEW calls, NEW follows, Update(id, to, calls, follows), Still, FairChange(id, to),
           \A c \in calls : CallIs(c), \A f \in follows : FollowIs(f),
           hubWorld'.ticks = hubWorld.ticks, hubWorld'.net = hubWorld.net
    PROVE  TrackHolds'
<1>1. HubShaped /\ PinsHold /\ WorkHolds /\ FileHolds /\ PageHolds
  BY DEF TrackHolds
<1>2. PICK inst : inst = WithInstance(id, to)
  OBVIOUS
<1>3. InstancesAre(inst, id, to)
  BY <1>1, <1>2, InstancesFollow
<1>4. Updated(id, to, calls, follows)
  BY <1>1, UpdateIs
<1>5. PICK b \in BOOLEAN : b = (id \notin DOMAIN hub.inst \/ inst[id].since # Before(id).since \/ Kept(inst[id]) # Kept(Before(id)))
  OBVIOUS
<1>6. Marked(hub.files, hub'.files, "instances", b)
  BY <1>2, <1>4, <1>5 DEF Updated
<1>7. /\ hub'.inst = inst /\ hub'.calls = calls /\ hub'.follows = follows
      /\ hub'.up = hub.up /\ hub'.now = hub.now /\ hub'.favorites = hub.favorites
  BY <1>2, <1>4 DEF Updated
<1>8. hubDisk' = hubDisk /\ hubScope' = hubScope
  BY DEF Still
<1>9. /\ DOMAIN inst = DOMAIN hub.inst \cup {id} /\ Numbered(inst) /\ Dense(inst)
      /\ \A x \in DOMAIN hub.inst \ {id} : BareSame(inst[x], hub.inst[x])
      /\ TrackedIs(inst[id], to, hub.now) /\ inst[id].heard \in Nat
      /\ inst[id].pin = Before(id).pin => \A x \in DOMAIN hub.inst \ {id} : inst[x] = hub.inst[x]
  BY <1>3 DEF InstancesAre
<1>10. HubShaped'
  <2>1. \A f \in Files : FileFields \subseteq DOMAIN hub'.files[f] /\ hub'.files[f].pending \in BOOLEAN /\ hub'.files[f].closed \in BOOLEAN
    BY <1>6 DEF Marked
  <2>2. \A c \in hub'.calls : CallIs(c)'
    BY <1>7, <1>8 DEF CallIs, EventCall
  <2> QED
    BY <1>1, <1>7, <1>8, <2>1, <2>2 DEF HubShaped
<1>11. PinsHold'
  BY <1>1, <1>7, <1>8, <1>9 DEF PinsHold, RowsNumbered, Readable, Rows
<1>12. WorkHolds'
  <2>1. ASSUME NEW x \in DOMAIN inst
        PROVE  /\ Timely(inst[x], hub.now) /\ inst[x].heard \in Nat
               /\ Serving => (inst[x].since # Never <=> Working(inst[x]))
    <3>1. CASE x = id
      BY <1>9, <3>1 DEF TrackedIs
    <3>2. CASE x # id
      <4>1. x \in DOMAIN hub.inst /\ BareSame(inst[x], hub.inst[x])
        BY <1>9, <3>2
      <4>2. Working(inst[x]) <=> Working(hub.inst[x])
        BY <4>1, SameWorking DEF BareSame
      <4>3. /\ Timely(hub.inst[x], hub.now) /\ hub.inst[x].heard \in Nat
            /\ Serving => (hub.inst[x].since # Never <=> Working(hub.inst[x]))
        BY <1>1, <4>1 DEF WorkHolds
      <4>4. /\ inst[x].last = hub.inst[x].last /\ inst[x].since = hub.inst[x].since /\ inst[x].spans = hub.inst[x].spans
            /\ inst[x].heard = hub.inst[x].heard
        BY <4>1 DEF BareSame, SameInst
      <4>5. Timely(inst[x], hub.now)
        BY <4>3, <4>4 DEF Timely
      <4> QED
        BY <4>2, <4>3, <4>4, <4>5
    <3> QED
      BY <3>1, <3>2
  <2>2. Serving' <=> Serving
    BY <1>7 DEF Serving
  <2>3. Readable' = Readable /\ Rows' = Rows
    BY <1>8 DEF Readable, Rows
  <2> QED
    BY <1>1, <1>7, <1>8, <2>1, <2>2, <2>3 DEF WorkHolds
<1>13. FileHolds'
  <2>1. FileCurrent(hubScope, hub, hubDisk) /\ (hub.up # "down" => Readable)
    BY <1>1 DEF FileHolds
  <2>2. CASE b /\ hubScope.keep
    <3>1. hub'.files["instances"].pending
      BY <1>6, <2>2 DEF Marked
    <3> QED
      BY <1>7, <1>8, <2>1, <3>1 DEF FileHolds, FileCurrent, Readable
  <2>3. CASE ~hubScope.keep
    BY <1>7, <1>8, <2>1, <2>3 DEF FileHolds, FileCurrent, Readable
  <2>4. CASE ~b
    <3>1. hub'.files["instances"] = hub.files["instances"]
      BY <1>6, <2>4 DEF Marked
    <3>2. id \in DOMAIN hub.inst /\ Kept(inst[id]) = Kept(hub.inst[id])
      BY <1>5, <2>4 DEF Before
    <3>3. inst[id].pin = Before(id).pin
      <4>1. Kept(inst[id]).pin = Kept(hub.inst[id]).pin
        BY <3>2
      <4> QED
        BY <3>2, <4>1 DEF Kept, Before
    <3>4. DOMAIN hub.inst = DOMAIN inst /\ \A x \in DOMAIN hub.inst : Kept(inst[x]) = Kept(hub.inst[x])
      BY <1>9, <3>2, <3>3
    <3>5. Saved(inst) = Saved(hub.inst)
      BY <3>4, SavedSame
    <3>6. FileCurrent(hubScope, hub', hubDisk)
      BY <1>7, <2>1, <3>1, <3>5, FileStays
    <3> QED
      BY <1>7, <1>8, <2>1, <3>6 DEF FileHolds, Readable
  <2> QED
    BY <2>2, <2>3, <2>4
<1>14. PageHolds'
  <2> DEFINE told == id \notin DOMAIN hub.inst \/ inst[id].since # Before(id).since \/ Seen(inst[id]) # Seen(Before(id))
  <2>1. PICK t \in BOOLEAN : t = told
    OBVIOUS
  <2>2. hubPage' = Notify(hubPage, InstanceEvents(inst, IF t THEN {id} ELSE {}) \o InstanceEvents(inst, Renumbered(hub.inst, inst, id)))
    BY <1>2, <2>1 DEF Update
  <2>3. to.since = Before(id).since /\ to.spans = Before(id).spans /\ IsID(id)
    BY DEF FairChange
  <2>4. ~t => id \in DOMAIN hub.inst /\ inst[id].since = Before(id).since /\ Seen(inst[id]) = Seen(Before(id))
    BY <2>1
  <2>5. PageIs(hubPage') /\ PageAgrees(hubPage', inst, hub.favorites) /\ (hubPage'.subscribed => hubPage.subscribed)
    BY <1>1, <1>3, <2>2, <2>3, <2>4, UpdateTells
  <2>6. hubPage.subscribed => Serving
    BY <1>1 DEF PageHolds
  <2>7. Serving' <=> Serving
    BY <1>7 DEF Serving
  <2> QED
    BY <1>7, <2>5, <2>6, <2>7 DEF PageHolds
<1> QED
  BY <1>10, <1>11, <1>12, <1>13, <1>14 DEF TrackHolds

-----------------------------------------------------------------------------
(* The steps that change no instance.                                        *)

\* A step that leaves the instances, the favorites, what is kept of them, and the page.
FilesAre(files) == \A f \in Files : FileFields \subseteq DOMAIN files[f] /\ files[f].pending \in BOOLEAN /\ files[f].closed \in BOOLEAN
SameStore ==
    /\ hub'.inst = hub.inst /\ hub'.favorites = hub.favorites /\ hub'.now = hub.now
    /\ (Serving' <=> Serving) /\ (hub'.up = "down" <=> hub.up = "down")
    /\ hub'.up \in {"down", "new", "running", "stopping", "closing"}
    /\ hubDisk'.instances = hubDisk.instances /\ hubPage' = hubPage /\ hubScope' = hubScope
    /\ hubWorld'.ticks = hubWorld.ticks

\* Such a step keeps what the store, the file and the page agree on.
LEMMA QuietTracks ==
    ASSUME TrackHolds, SameStore, \A c \in hub'.calls : CallIs(c), \A f \in hub'.follows : FollowIs(f), FilesAre(hub'.files),
           hub'.files["instances"] = hub.files["instances"] \/ hub'.files["instances"].writing = "taken",
           \A u \in DOMAIN hubScope.net : hubWorld'.net[u] = NoAnswer \/ IsID(hubWorld'.net[u].id)
    PROVE  TrackHolds'
<1>1. HubShaped /\ PinsHold /\ WorkHolds /\ FileHolds /\ PageHolds
  BY DEF TrackHolds
<1>2. HubShaped'
  <2>1. \A c \in hub'.calls : CallIs(c)'
    BY DEF CallIs, EventCall, SameStore
  <2> QED
    BY <2>1 DEF HubShaped, SameStore, FilesAre
<1>3. PinsHold'
  BY <1>1 DEF PinsHold, SameStore, RowsNumbered, Readable, Rows
<1>4. WorkHolds'
  <2>1. Rows' = Rows /\ Readable' = Readable
    BY DEF SameStore, Readable, Rows
  <2> QED
    BY <1>1, <2>1 DEF WorkHolds, SameStore
<1>5. FileHolds'
  <2>1. FileCurrent(hubScope, hub, hubDisk) /\ (hub.up # "down" => Readable)
    BY <1>1 DEF FileHolds
  <2>2. FileCurrent(hubScope, hub', hubDisk')
    BY <2>1 DEF SameStore, FileCurrent
  <2> QED
    BY <2>1, <2>2 DEF FileHolds, SameStore, Readable
<1>6. PageHolds'
  BY <1>1 DEF PageHolds, SameStore
<1> QED
  BY <1>2, <1>3, <1>4, <1>5, <1>6 DEF TrackHolds

\* What a counter that is spent leaves of the time and the network.
LEMMA SpentLeaves ==
    ASSUME HubIInv, NEW f \in Counters \ {"ticks"}, Spent(f)
    PROVE  hubWorld'.ticks = hubWorld.ticks /\ hubWorld'.net = hubWorld.net
  BY DEF HubIInv, HubTyped, Spent, WorldFields, Counters

\* What answers at the URLs stays of its kind.
LEMMA NetIs ==
    ASSUME TrackHolds, hubWorld'.net = hubWorld.net
    PROVE  \A u \in DOMAIN hubScope.net : hubWorld'.net[u] = NoAnswer \/ IsID(hubWorld'.net[u].id)
  BY DEF TrackHolds, HubShaped

\* The watches and calls that a step leaves.
LEMMA FollowsAre ==
    ASSUME NEW follows, \A f \in follows : FollowIs(f)
    PROVE  /\ \A f \in CancelFollows(follows) : FollowIs(f)
           /\ \A n : \A f \in Cancelled(follows, n) : FollowIs(f)
<1>1. ASSUME NEW g \in follows, g.pc = "failed" PROVE FollowIs([g EXCEPT !.live = FALSE])
  <2>1. FollowIs(g)
    OBVIOUS
  <2>2. PICK x : x = [g EXCEPT !.live = FALSE]
    OBVIOUS
  <2>3. x.live = FALSE /\ x.heard = g.heard /\ x.pc = g.pc /\ DOMAIN x = DOMAIN g
    BY <2>1, <2>2 DEF FollowIs, FollowFields
  <2>4. FollowIs(x)
    BY <1>1, <2>1, <2>3 DEF FollowIs
  <2> QED
    BY <2>2, <2>4
<1>2. \A f \in CancelFollows(follows) : FollowIs(f)
  BY <1>1 DEF CancelFollows
<1>3. ASSUME NEW n, NEW f \in Cancelled(follows, n) PROVE FollowIs(f)
  <2>1. CASE f \in {g \in follows : g.n # n}
    BY <2>1
  <2>2. CASE f \in CancelFollows({g \in follows : g.n = n})
    BY <1>1, <2>2 DEF CancelFollows
  <2> QED
    BY <2>1, <2>2 DEF Cancelled
<1> QED
  BY <1>2, <1>3

\* So are the watches that watch and cancelWatchLocked leave.
LEMMA WatchesAre ==
    ASSUME NEW h, HubFields \subseteq DOMAIN h, NEW id, \A f \in h.follows : FollowIs(f)
    PROVE  /\ \A f \in Watch(h, id).follows : FollowIs(f)
           /\ \A f \in Unwatch(h, id).follows : FollowIs(f)
           /\ \A f \in UnwatchStopped(h, id).follows : FollowIs(f)
<1>1. \A n : FollowIs(NewFollow(n, id))
  BY DEF NewFollow, FollowIs, FollowFields, Never
<1>2. \A n : \A f \in Cancelled(h.follows, n) : FollowIs(f)
  BY FollowsAre
<1>3. \A f \in Watch(h, id).follows : FollowIs(f)
  <2>1. PICK rest, n : /\ rest = IF id \in DOMAIN h.watchers THEN Cancelled(h.follows, h.watchers[id]) ELSE h.follows
                       /\ n = FreeNumber(h)
    OBVIOUS
  <2>2. \A f \in rest : FollowIs(f)
    BY <1>2, <2>1
  <2>3. Watch(h, id).follows = IF h.up # "running" THEN rest ELSE rest \cup {NewFollow(n, id)}
    BY <2>1 DEF Watch, HubFields
  <2> QED
    BY <1>1, <2>2, <2>3
<1>4. \A f \in Unwatch(h, id).follows : FollowIs(f)
  <2>1. Unwatch(h, id).follows \in {h.follows, Cancelled(h.follows, h.watchers[id])}
    BY DEF Unwatch, HubFields
  <2> QED
    BY <1>2, <2>1
<1>5. \A f \in UnwatchStopped(h, id).follows : FollowIs(f)
  BY <1>4 DEF UnwatchStopped
<1> QED
  BY <1>3, <1>4, <1>5

\* The calls that a handler leaves.
LEMMA CallsAre ==
    ASSUME HubShaped, NEW c \in hub.calls
    PROVE  /\ CallIs(c) /\ \A d \in CallDone(c) : CallIs(d)
           /\ \A pc \in {"watch", "unwatch", "update"} : \A d \in Then(c, pc) : CallIs(d)
<1>1. \A d \in hub.calls : CallIs(d)
  BY DEF HubShaped
<1>2. ASSUME NEW pc \in {"watch", "unwatch", "update"} PROVE CallIs([c EXCEPT !.pc = pc])
  <2>1. PICK d : d = [c EXCEPT !.pc = pc]
    OBVIOUS
  <2>2. CallIs(c)
    BY <1>1
  <2>3. DOMAIN d = DOMAIN c /\ d.id = c.id /\ d.pc = pc
    BY <2>1, <2>2 DEF CallIs
  <2>4. CallIs(d)
    BY <2>2, <2>3 DEF CallIs
  <2> QED
    BY <2>1, <2>4
<1> QED
  BY <1>1, <1>2 DEF CallDone, Then

\* A step of the hub that changes its watches, calls and numbers only.
LEMMA StillTracks ==
    ASSUME HubIInv, TrackHolds, HubFields \subseteq DOMAIN hub', hub'.inst = hub.inst, hub'.favorites = hub.favorites, hub'.now = hub.now,
           hub'.up = hub.up, hub'.files = hub.files, UNCHANGED <<hubDisk, hubPage, hubScope>>,
           hubWorld'.ticks = hubWorld.ticks, hubWorld'.net = hubWorld.net,
           \A c \in hub'.calls : CallIs(c), \A f \in hub'.follows : FollowIs(f)
    PROVE  TrackHolds'
<1>1. SameStore
  BY DEF SameStore, Serving, TrackHolds, HubShaped
<1>2. FilesAre(hub'.files)
  BY DEF FilesAre, TrackHolds, HubShaped
<1> QED
  BY <1>1, <1>2, NetIs, QuietTracks

\* The loop of a watch, as long as it changes no instance.
LEMMA FollowsTrack ==
    ASSUME HubIInv, TrackHolds, NEW f \in hub.follows,
           \/ FollowGets(f) \/ FollowFails(f) \/ FollowRetries(f)
           \/ f.id \notin DOMAIN hub.inst /\ (FollowReads(f) \/ FollowFailed(f))
    PROVE  TrackHolds'
<1>0. /\ HubFields \subseteq DOMAIN hub /\ WorldFields \subseteq DOMAIN hubWorld
      /\ \A c \in hub.calls : CallIs(c)
      /\ \A g \in hub.follows : FollowIs(g)
      /\ hub.now \in Nat
  BY HubAssumption DEF HubIInv, HubTyped, TrackHolds, HubShaped, WorkHolds
<1> DEFINE Follows(follows) == hub' = [hub EXCEPT !.follows = follows] /\ \A g \in follows : FollowIs(g)
<1>1. ASSUME NEW g, FollowIs(g) PROVE \A x \in To(f, g) \cup Without(f) : FollowIs(x)
  BY <1>0, <1>1 DEF To, Without
<1>2. FollowIs(f)
  BY <1>0
<1>3. \E follows : Follows(follows)
  <2>1. CASE FollowGets(f)
    <3>1. PICK g : g = [f EXCEPT !.pc = "read", !.url = hub.inst[f.id].url, !.heard = Never]
      OBVIOUS
    <3>2. FollowIs(g)
      <4>1. DOMAIN g = DOMAIN f /\ g.heard = Never /\ g.live = f.live /\ g.pc = "read"
        BY <1>2, <3>1 DEF FollowIs, FollowFields
      <4>2. f.live
        BY <1>2, <2>1 DEF FollowIs, FollowGets
      <4> QED
        BY <1>2, <4>1, <4>2 DEF FollowIs, Never
    <3>3. hub' = [hub EXCEPT !.follows = Without(f)] \/ hub' = [hub EXCEPT !.follows = To(f, g)]
      BY <2>1, <3>1 DEF FollowGets
    <3> QED
      BY <1>1, <3>2, <3>3
  <2>2. CASE FollowFails(f)
    <3>1. PICK g : g = [f EXCEPT !.pc = "failed", !.failing = IF @ = Never THEN hub.now ELSE @,
                                 !.err = IF hubWorld.net[f.url] = NoAnswer THEN "down" ELSE "other", !.other = hubWorld.net[f.url].id]
      OBVIOUS
    <3>2. FollowIs(g)
      <4>1. DOMAIN g = DOMAIN f /\ g.heard = f.heard /\ g.live = f.live /\ g.pc = "failed"
        BY <1>2, <3>1 DEF FollowIs, FollowFields
      <4> QED
        BY <1>2, <4>1 DEF FollowIs
    <3>3. hub' = [hub EXCEPT !.follows = To(f, g)]
      BY <2>2, <3>1 DEF FollowFails
    <3> QED
      BY <1>1, <3>2, <3>3
  <2>3. CASE FollowRetries(f)
    <3>1. PICK g : g = [f EXCEPT !.pc = "get", !.err = "", !.other = 0]
      OBVIOUS
    <3>2. FollowIs(g)
      <4>1. DOMAIN g = DOMAIN f /\ g.heard = f.heard /\ g.live = f.live /\ g.pc = "get"
        BY <1>2, <3>1 DEF FollowIs, FollowFields
      <4>2. f.live
        BY <1>2, <2>3 DEF FollowIs, FollowRetries
      <4> QED
        BY <1>2, <4>1, <4>2 DEF FollowIs
    <3>3. hub' = [hub EXCEPT !.follows = To(f, g)]
      BY <2>3, <3>1 DEF FollowRetries
    <3> QED
      BY <1>1, <3>2, <3>3
  <2>4. CASE f.id \notin DOMAIN hub.inst /\ FollowReads(f)
    <3>1. PICK g : g = [f EXCEPT !.failing = Never, !.heard = hub.now]
      OBVIOUS
    <3>2. FollowIs(g)
      <4>1. DOMAIN g = DOMAIN f /\ g.heard = hub.now /\ g.live = f.live /\ g.pc = f.pc
        BY <1>2, <3>1 DEF FollowIs, FollowFields
      <4> QED
        BY <1>0, <1>2, <4>1 DEF FollowIs
    <3>3. hub' = [hub EXCEPT !.follows = To(f, g)]
      BY <2>4, <3>1 DEF FollowReads
    <3> QED
      BY <1>1, <3>2, <3>3
  <2>5. CASE f.id \notin DOMAIN hub.inst /\ FollowFailed(f)
    <3>1. PICK g : g = [f EXCEPT !.pc = "wait"]
      OBVIOUS
    <3>2. f.live => FollowIs(g)
      <4>1. DOMAIN g = DOMAIN f /\ g.heard = f.heard /\ g.live = f.live /\ g.pc = "wait"
        BY <1>2, <3>1 DEF FollowIs, FollowFields
      <4> QED
        BY <1>2, <4>1 DEF FollowIs
    <3>3. hub' = [hub EXCEPT !.follows = IF f.live THEN To(f, g) ELSE Without(f)]
      BY <2>5, <3>1 DEF FollowFailed
    <3> QED
      BY <1>1, <1>2, <3>2, <3>3
  <2> QED
    BY <2>1, <2>2, <2>3, <2>4, <2>5
<1>4. PICK follows : Follows(follows)
  BY <1>3
<1>5. /\ HubFields \subseteq DOMAIN hub' /\ hub'.inst = hub.inst /\ hub'.favorites = hub.favorites /\ hub'.now = hub.now
      /\ hub'.up = hub.up /\ hub'.files = hub.files /\ hub'.calls = hub.calls /\ hub'.follows = follows
  BY <1>0, <1>4 DEF HubFields
<1>6. UNCHANGED <<hubDisk, hubPage, hubScope>>
  BY DEF FollowGets, FollowFails, FollowRetries, FollowReads, FollowFailed, Quietly, Still
<1>7. hubWorld'.ticks = hubWorld.ticks /\ hubWorld'.net = hubWorld.net
  <2>1. CASE UNCHANGED hubWorld
    BY <2>1
  <2>2. CASE FollowReads(f)
    BY <1>0, <2>2 DEF FollowReads, WorldFields
  <2> QED
    BY <2>1, <2>2 DEF FollowGets, FollowFails, FollowRetries, FollowFailed
<1> QED
  BY <1>0, <1>4, <1>5, <1>6, <1>7, StillTracks

-----------------------------------------------------------------------------
(* The handlers of the watches, the events and the page.                     *)

\* What an instance is before a handler changes it.
Plain(i) == IsInst(i) /\ i.heard \in Nat /\ i.last \in 0..hub.now /\ i.pin \in Nat /\ hub.now \in Nat

\* An instance that is new is as plain as one the hub has.
LEMMA BeforeIs ==
    ASSUME HubIInv, TrackHolds, NEW id PROVE Plain(Before(id))
<1>1. IsInst(Before(id))
  BY BeforeHolds
<1>2. hub.now \in Nat
  BY HubAssumption DEF HubIInv, HubTyped, TrackHolds, WorkHolds
<1>3. CASE id \in DOMAIN hub.inst
  <2>1. Before(id) = hub.inst[id]
    BY <1>3 DEF Before
  <2> QED
    BY <1>1, <1>2, <1>3, <2>1 DEF Plain, TrackHolds, WorkHolds, Timely, PinsHold, Numbered
<1>4. CASE id \notin DOMAIN hub.inst
  <2>1. Before(id) = NewInstance
    BY <1>4 DEF Before
  <2>2. NewInstance.heard = 99 /\ NewInstance.last = 0 /\ NewInstance.pin = 0
    BY DEF NewInstance, Never
  <2>3. 0 \in 0..hub.now
    BY <1>2
  <2> QED
    BY <1>1, <1>2, <2>1, <2>2, <2>3 DEF Plain
<1> QED
  BY <1>3, <1>4

\* A handler's change that leaves the work and the pin.
Fair(i, to) ==
    IsInst(to) /\ to.since = i.since /\ to.spans = i.spans /\ to.pin = i.pin /\ to.heard \in Nat /\ to.last \in {i.last, hub.now}

\* A handler's change of what the hub had is fair.
LEMMA FairIs ==
    ASSUME NEW id, NEW to, IsID(id), Plain(Before(id)), Fair(Before(id), to) PROVE FairChange(id, to)
  BY DEF Plain, Fair, FairChange

\* An event that says the instance is alive changes its time only.
LEMMA HearsFairly ==
    ASSUME NEW i, Plain(i), NEW x PROVE Fair(i, [i EXCEPT !.last = hub.now])
  BY DEF Plain, Fair, IsInst, InstFields

\* So little does the end of an instance.
LEMMA StopsFairly ==
    ASSUME NEW i, Plain(i) PROVE Fair(i, [i EXCEPT !.conn = "stopped", !.err = "", !.answeredBy = 0, !.last = hub.now])
  BY DEF Plain, Fair, IsInst, InstFields

\* So does a page that adds one.
LEMMA AddsFairly ==
    ASSUME NEW i, Plain(i), NEW run, NEW url, NEW summary
    PROVE  Fair(i, [i EXCEPT !.run = run, !.url = url, !.token = url, !.source = "manual",
                             !.last = hub.now, !.summary = summary, !.conn = "connected", !.err = "",
                             !.confirmed = url, !.failed = FALSE, !.answeredBy = 0])
  BY DEF Plain, Fair, IsInst, InstFields

\* applySummary leaves the work and the pin.
LEMMA SummariesApplyFairly ==
    ASSUME NEW i, Plain(i), NEW f, NEW s PROVE Fair(i, ApplySummary(f, i, s))
<1>1. CASE i.conn = "stopped" \/ i.url # f.url
  BY <1>1 DEF ApplySummary, Plain, Fair
<1>2. CASE ~(i.conn = "stopped" \/ i.url # f.url)
  <2>1. PICK m : m = IF i.muted = AttentionKey(s) THEN i.muted ELSE ""
    OBVIOUS
  <2>2. ApplySummary(f, i, s) = [i EXCEPT !.muted = m, !.summary = s, !.conn = "connected", !.err = "",
                   !.answeredBy = 0, !.failed = FALSE, !.confirmed = f.url, !.last = hub.now, !.run = s.run]
    BY <1>2, <2>1 DEF ApplySummary
  <2> QED
    BY <2>2 DEF Plain, Fair, IsInst, InstFields
<1> QED
  BY <1>1, <1>2

\* streamFailed leaves the pin, and the work but for when it was last heard.
LEMMA FailsFairly ==
    ASSUME NEW i, Plain(i), NEW f, FollowIs(f) PROVE Fair(i, Failed(f, i))
<1>1. PICK gone : gone = [i EXCEPT !.heard = f.heard]
  OBVIOUS
<1>2. Fair(i, gone) /\ IsInst(gone) /\ Fair(i, i)
  BY <1>1 DEF Plain, Fair, IsInst, InstFields, FollowIs
<1>3. \/ Failed(f, i) = i
      \/ Failed(f, i) = [gone EXCEPT !.conn = "stopped", !.err = "", !.answeredBy = 0, !.failed = TRUE]
      \/ Failed(f, i) = [gone EXCEPT !.conn = "unreachable", !.err = f.err, !.answeredBy = f.other, !.failed = TRUE]
      \/ Failed(f, i) = [gone EXCEPT !.conn = "connecting", !.err = f.err, !.answeredBy = 0]
      \/ Failed(f, i) = [gone EXCEPT !.conn = "unreachable", !.err = f.err, !.answeredBy = 0, !.failed = TRUE]
  BY <1>1 DEF Failed
<1> QED
  BY <1>2, <1>3 DEF Fair, IsInst, InstFields

\* upsertFromWebhook leaves the work and the pin.
LEMMA UpsertsFairly ==
    ASSUME NEW i, Plain(i), NEW e PROVE Fair(i, Upserted(i, e))
<1>1. CASE i.url \notin {Nowhere, e.url} /\ RefuseMove(i)
  <2>1. Upserted(i, e) \in {[i EXCEPT !.conn = "connecting", !.err = ""], i}
    BY <1>1 DEF Upserted
  <2> QED
    BY <2>1 DEF Plain, Fair, IsInst, InstFields
<1>2. CASE ~(i.url \notin {Nowhere, e.url} /\ RefuseMove(i))
  <2>1. PICK t, so, co, er, fa, an :
           /\ t = IF i.url \notin {Nowhere, e.url} THEN Nowhere ELSE i.token
           /\ so = IF i.source = "none" THEN "webhook" ELSE i.source
           /\ co = IF Restarts(i, e) THEN "connecting" ELSE i.conn
           /\ er = IF Restarts(i, e) THEN "" ELSE i.err
           /\ fa = (i.failed /\ ~Restarts(i, e))
           /\ an = IF Restarts(i, e) THEN 0 ELSE i.answeredBy
    OBVIOUS
  <2>2. Upserted(i, e) = [i EXCEPT !.token = t, !.run = e.run, !.url = e.url, !.hb = e.hb, !.source = so, !.last = hub.now,
                       !.conn = co, !.err = er, !.failed = fa, !.answeredBy = an]
    BY <1>2, <2>1 DEF Upserted
  <2> QED
    BY <2>2 DEF Plain, Fair, IsInst, InstFields
<1> QED
  BY <1>1, <1>2

\* updateInstance pins and unpins only.
LEMMA PatchesFairly ==
    ASSUME NEW id, IsID(id), Plain(Before(id)), NEW p PROVE FairChange(id, Patched(Before(id), p))
<1>0. PICK i : i = Before(id)
  OBVIOUS
<1>1. CASE p.mute = "on" /\ AttentionKey(i.summary) = ""
  BY <1>0, <1>1 DEF Patched, Plain, FairChange
<1>2. CASE ~(p.mute = "on" /\ AttentionKey(i.summary) = "")
  <2>1. PICK m, g, n :
           /\ m = CASE p.mute = "on" -> AttentionKey(i.summary) [] p.mute = "off" -> "" [] OTHER -> i.muted
           /\ g = IF p.group = "keep" THEN i.group ELSE p.group
           /\ n = CASE p.pin = "off" -> 0 [] p.pin = "on" /\ i.pin = 0 -> PinLast [] OTHER -> i.pin
    OBVIOUS
  <2>2. Patched(i, p) = [i EXCEPT !.muted = m, !.group = g, !.pin = n]
    BY <1>2, <2>1 DEF Patched
  <2>3. n \in Nat /\ (n # i.pin => (n = 0 <=> i.pin # 0))
    BY <1>0, <2>1 DEF Plain, PinLast
  <2> QED
    BY <1>0, <2>2, <2>3 DEF Plain, FairChange, IsInst, InstFields
<1> QED
  BY <1>1, <1>2

\* The fields of the hub, and the kinds of its numbers, watches and calls.
LEMMA TrackTypes ==
    ASSUME HubIInv, TrackHolds
    PROVE  /\ HubFields \subseteq DOMAIN hub /\ WorldFields \subseteq DOMAIN hubWorld /\ hub.now \in Nat
           /\ (\A c \in hub.calls : CallIs(c)) /\ (\A g \in hub.follows : FollowIs(g)) /\ (\A id \in DOMAIN hub.inst : IsID(id))
  BY HubAssumption DEF HubIInv, HubTyped, TrackHolds, HubShaped, WorkHolds, PinsHold, Numbered

\* A watch whose instance is there reads an answer, or fails.
LEMMA SummariesTrack ==
    ASSUME HubIInv, TrackHolds, NEW f \in hub.follows, f.id \in DOMAIN hub.inst, FollowReads(f) \/ FollowFailed(f)
    PROVE  TrackHolds'
<1>1. FollowIs(f) /\ IsID(f.id) /\ Plain(Before(f.id)) /\ Before(f.id) = hub.inst[f.id]
  BY TrackTypes, BeforeIs DEF Before
<1>2. CASE FollowReads(f)
  <2>1. PICK s, g, d : /\ s = [run |-> hubWorld.net[f.url].run, does |-> hubWorld.net[f.url].does]
                       /\ g = [f EXCEPT !.failing = Never, !.heard = hub.now]
                       /\ d = IF f.id \in DOMAIN hub.inst /\ hub.inst[f.id].conn = "stopped" THEN hubWorld.dead ELSE hubWorld.dead \ {<<f.id, f.url>>}
    OBVIOUS
  <2>2. /\ Update(f.id, ApplySummary(f, hub.inst[f.id], s), hub.calls, To(f, g)) /\ Still
        /\ hubWorld' = [hubWorld EXCEPT !.answered = @ \cup {<<f.id, f.url>>}, !.dead = d]
    BY <1>2, <2>1 DEF FollowReads
  <2>3. FairChange(f.id, ApplySummary(f, hub.inst[f.id], s))
    BY <1>1, SummariesApplyFairly, FairIs
  <2>4. FollowIs(g)
    <3>1. DOMAIN g = DOMAIN f /\ g.heard = hub.now /\ g.live = f.live /\ g.pc = f.pc
      BY <1>1, <2>1 DEF FollowIs, FollowFields
    <3> QED
      BY <1>1, <3>1, TrackTypes DEF FollowIs
  <2>5. \A x \in To(f, g) : FollowIs(x)
    BY <2>4, TrackTypes DEF To
  <2>6. hubWorld'.ticks = hubWorld.ticks /\ hubWorld'.net = hubWorld.net
    BY <2>2, TrackTypes DEF WorldFields
  <2> QED
    BY <2>2, <2>3, <2>5, <2>6, TrackTypes, UpdateTracks
<1>3. CASE FollowFailed(f)
  <2>1. PICK to, i, g, d, m :
             /\ i = hub.inst[f.id] /\ to = Failed(f, i) /\ g = [f EXCEPT !.pc = "wait"]
             /\ d = IF to.failed /\ to # i THEN hubWorld.dead \cup {<<f.id, f.url>>} ELSE hubWorld.dead
             /\ m = (hubWorld.misjudged \/ (to # i /\ i.url # f.url))
    OBVIOUS
  <2>2. PICK follows : follows = IF ~f.live \/ (to.conn = "stopped" /\ i.conn # "stopped") THEN Without(f) ELSE To(f, g)
    OBVIOUS
  <2>3. /\ Update(f.id, to, hub.calls, follows) /\ Still
        /\ hubWorld' = [hubWorld EXCEPT !.dead = d, !.misjudged = m]
    BY <1>3, <2>1, <2>2 DEF FollowFailed
  <2>4. FairChange(f.id, to)
    BY <1>1, <2>1, FailsFairly, FairIs
  <2>5. f.live => FollowIs(g)
    <3>1. DOMAIN g = DOMAIN f /\ g.heard = f.heard /\ g.live = f.live /\ g.pc = "wait"
      BY <1>1, <2>1 DEF FollowIs, FollowFields
    <3> QED
      BY <1>1, <3>1 DEF FollowIs
  <2>6. \A x \in follows : FollowIs(x)
    BY <1>1, <2>2, <2>5, TrackTypes DEF To, Without
  <2>7. hubWorld'.ticks = hubWorld.ticks /\ hubWorld'.net = hubWorld.net
    BY <2>3, TrackTypes DEF WorldFields
  <2> QED
    BY <2>3, <2>4, <2>6, <2>7, TrackTypes, UpdateTracks
<1> QED
  BY <1>2, <1>3

\* The handlers of the events and of what the page adds.
LEMMA HandlersTrack ==
    ASSUME HubIInv, TrackHolds, NEW c \in hub.calls, HubUpserts(c) \/ HubStopped(c) \/ HubHears(c) \/ AddUpdates(c)
    PROVE  TrackHolds'
<1>1. /\ CallIs(c) /\ IsID(c.id) /\ Plain(Before(c.id)) /\ (\A d \in CallDone(c) : CallIs(d))
      /\ \A pc \in {"watch", "unwatch", "update"} : \A d \in Then(c, pc) : CallIs(d)
  BY BeforeIs, CallsAre DEF TrackHolds, CallIs
<1>2. CASE HubUpserts(c)
  <2>1. PICK e, i, n, d, calls :
             /\ e = hubScope.mail[c.d] /\ i = Before(c.id)
             /\ n = [hubWorld.applied EXCEPT ![c.d] = @ + 1]
             /\ d = IF Upserted(i, e).url # i.url THEN hubWorld.dead \ {<<c.id, e.url>>} ELSE hubWorld.dead
             /\ calls = IF Restarts(i, e) THEN Then(c, "watch") ELSE CallDone(c)
    OBVIOUS
  <2>2. /\ Update(c.id, Upserted(i, e), calls, hub.follows) /\ Still
        /\ hubWorld' = [hubWorld EXCEPT !.applied = n, !.dead = d]
    BY <1>2, <2>1 DEF HubUpserts
  <2>3. FairChange(c.id, Upserted(i, e))
    BY <1>1, <2>1, UpsertsFairly, FairIs
  <2>4. hubWorld'.ticks = hubWorld.ticks /\ hubWorld'.net = hubWorld.net
    BY <2>2, TrackTypes DEF WorldFields
  <2>5. \A x \in calls : CallIs(x)
    BY <1>1, <2>1
  <2> QED
    BY <2>2, <2>3, <2>4, <2>5, TrackTypes, UpdateTracks
<1>3. CASE HubStopped(c) \/ HubHears(c)
  <2>1. PICK n : hubWorld' = [hubWorld EXCEPT !.applied = n]
    BY <1>3 DEF HubStopped, HubHears
  <2>2. hubWorld'.ticks = hubWorld.ticks /\ hubWorld'.net = hubWorld.net /\ Still
    BY <1>3, <2>1, TrackTypes DEF WorldFields, HubStopped, HubHears
  <2>3. CASE hub' = [hub EXCEPT !.calls = CallDone(c)] /\ UNCHANGED hubPage
    <3>1. /\ HubFields \subseteq DOMAIN hub' /\ hub'.inst = hub.inst /\ hub'.favorites = hub.favorites /\ hub'.now = hub.now
          /\ hub'.up = hub.up /\ hub'.files = hub.files /\ hub'.calls = CallDone(c) /\ hub'.follows = hub.follows
      BY <2>3, TrackTypes DEF HubFields
    <3> QED
      BY <1>1, <2>2, <2>3, <3>1, TrackTypes, StillTracks DEF Still
  <2>4. CASE Update(c.id, [Before(c.id) EXCEPT !.conn = "stopped", !.err = "", !.answeredBy = 0, !.last = hub.now], Then(c, "unwatch"), hub.follows)
    <3>1. PICK to : to = [Before(c.id) EXCEPT !.conn = "stopped", !.err = "", !.answeredBy = 0, !.last = hub.now]
      OBVIOUS
    <3>2. FairChange(c.id, to)
      BY <1>1, <3>1, StopsFairly, FairIs
    <3> QED
      BY <1>1, <2>2, <2>4, <3>1, <3>2, TrackTypes, UpdateTracks
  <2>5. CASE Update(c.id, [Before(c.id) EXCEPT !.last = hub.now], CallDone(c), hub.follows)
    <3>1. PICK to : to = [Before(c.id) EXCEPT !.last = hub.now]
      OBVIOUS
    <3>2. FairChange(c.id, to)
      BY <1>1, <3>1, HearsFairly, FairIs
    <3> QED
      BY <1>1, <2>2, <2>5, <3>1, <3>2, TrackTypes, UpdateTracks
  <2>6. CASE HubHears(c) /\ c.id \in DOMAIN hub.inst /\ SameRun(hub.inst[c.id], hubScope.mail[c.d])
    BY <2>5, <2>6 DEF HubHears, Before
  <2>7. CASE HubHears(c) /\ ~(c.id \in DOMAIN hub.inst /\ SameRun(hub.inst[c.id], hubScope.mail[c.d]))
    BY <2>3, <2>7 DEF HubHears
  <2>8. CASE HubStopped(c)
    BY <2>3, <2>4, <2>8 DEF HubStopped
  <2> QED
    BY <1>3, <2>6, <2>7, <2>8
<1>4. CASE AddUpdates(c)
  <2>1. PICK to : to = [Before(c.id) EXCEPT !.run = c.summary.run, !.url = c.url, !.token = c.url, !.source = "manual",
                                         !.last = hub.now, !.summary = c.summary, !.conn = "connected", !.err = "",
                                         !.confirmed = c.url, !.failed = FALSE, !.answeredBy = 0]
    OBVIOUS
  <2>2. PICK x, y, z : /\ x = hubWorld.answered \cup {<<c.id, c.url>>} /\ y = hubWorld.dead \ {<<c.id, c.url>>}
                       /\ z = (hubWorld.raced \/ Before(c.id).url \notin {Nowhere, c.url})
    OBVIOUS
  <2>3. /\ Update(c.id, to, Then(c, "watch"), hub.follows) /\ Still
        /\ hubWorld' = [hubWorld EXCEPT !.answered = x, !.dead = y, !.raced = z]
    BY <1>4, <2>1, <2>2 DEF AddUpdates
  <2>4. FairChange(c.id, to)
    BY <1>1, <2>1, AddsFairly, FairIs
  <2>5. hubWorld'.ticks = hubWorld.ticks /\ hubWorld'.net = hubWorld.net
    BY <2>3, TrackTypes DEF WorldFields
  <2> QED
    BY <1>1, <2>3, <2>4, <2>5, TrackTypes, UpdateTracks
<1> QED
  BY <1>2, <1>3, <1>4

\* PATCH of an instance.
LEMMA PatchesTrack ==
    ASSUME HubIInv, TrackHolds, NEW id \in DOMAIN hub.inst, NEW p, HubPatches(id, p)
    PROVE  TrackHolds'
<1>1. Before(id) = hub.inst[id] /\ IsID(id) /\ Plain(Before(id))
  BY TrackTypes, BeforeIs DEF Before
<1>2. FairChange(id, Patched(Before(id), p))
  BY <1>1, PatchesFairly
<1>3. hubWorld'.ticks = hubWorld.ticks /\ hubWorld'.net = hubWorld.net
  BY SpentLeaves DEF HubPatches, Counters
<1> QED
  BY <1>1, <1>2, <1>3, TrackTypes, UpdateTracks DEF HubPatches

\* The rest of a handler's steps, and the requests that change no instance.
LEMMA WatchesTrack ==
    ASSUME HubIInv, TrackHolds, NEW c \in hub.calls, HubWatches(c) \/ HubUnwatches(c) \/ AddChecks(c)
    PROVE  TrackHolds'
<1>1. /\ (\A d \in CallDone(c) : CallIs(d)) /\ (\A d \in Then(c, "update") : CallIs(d))
  BY CallsAre DEF TrackHolds
<1>2. PICK g, calls :
         /\ hub' = [g EXCEPT !.calls = calls] /\ g \in {Watch(hub, c.id), UnwatchStopped(hub, c.id), hub}
         /\ calls \in {CallDone(c), Then(c, "update")}
  BY DEF HubWatches, HubUnwatches, AddChecks
<1>3. /\ HubFields \subseteq DOMAIN g /\ g.inst = hub.inst /\ g.files = hub.files /\ g.up = hub.up /\ g.now = hub.now /\ g.favorites = hub.favorites
  BY <1>2, TrackTypes DEF Watch, Unwatch, UnwatchStopped, HubFields
<1>4. \A f \in g.follows : FollowIs(f)
  BY <1>2, TrackTypes, WatchesAre
<1>5. /\ HubFields \subseteq DOMAIN hub' /\ hub'.inst = hub.inst /\ hub'.favorites = hub.favorites /\ hub'.now = hub.now
      /\ hub'.up = hub.up /\ hub'.files = hub.files /\ hub'.calls = calls /\ hub'.follows = g.follows
  BY <1>2, <1>3 DEF HubFields
<1>6. UNCHANGED <<hubDisk, hubPage, hubScope, hubWorld>>
  BY DEF HubWatches, HubUnwatches, AddChecks, Quietly
<1> QED
  BY <1>1, <1>2, <1>4, <1>5, <1>6, StillTracks

\* The requests that change no instance keep it.
LEMMA RequestsTrack ==
    ASSUME HubIInv, TrackHolds,
           \/ \E u \in DOMAIN hubScope.net : HubAdds(u)
           \/ \E id \in DOMAIN hub.inst : HubRemoves(id) \/ HubProxies(id)
    PROVE  TrackHolds'
<1>1. ASSUME NEW u \in DOMAIN hubScope.net, HubAdds(u) PROVE TrackHolds'
  <2>1. PICK a, c : /\ a = hubWorld.net[u]
                    /\ c = [op |-> "add", id |-> a.id, url |-> u, pc |-> "check", summary |-> [run |-> a.run, does |-> a.does]]
    OBVIOUS
  <2>2. hub' = IF a = NoAnswer THEN hub ELSE [hub EXCEPT !.calls = Begin(c)]
    BY <1>1, <2>1 DEF HubAdds
  <2>3. a # NoAnswer => CallIs(c)
    <3>1. a = NoAnswer \/ IsID(a.id)
      BY <2>1 DEF TrackHolds, HubShaped
    <3>2. {"op", "id", "pc"} \subseteq DOMAIN c /\ c.id = a.id /\ c.pc = "check"
      BY <2>1
    <3> QED
      BY <3>1, <3>2 DEF CallIs
  <2>4. /\ HubFields \subseteq DOMAIN hub' /\ hub'.inst = hub.inst /\ hub'.favorites = hub.favorites /\ hub'.now = hub.now
        /\ hub'.up = hub.up /\ hub'.files = hub.files /\ hub'.follows = hub.follows
        /\ hub'.calls = hub.calls \/ (a # NoAnswer /\ hub'.calls = hub.calls \cup {c})
    BY <2>2, TrackTypes DEF HubFields, Begin
  <2>5. UNCHANGED <<hubDisk, hubPage, hubScope>> /\ hubWorld'.ticks = hubWorld.ticks /\ hubWorld'.net = hubWorld.net
    BY <1>1, SpentLeaves DEF HubAdds, Quietly, Counters
  <2> QED
    BY <2>3, <2>4, <2>5, TrackTypes, StillTracks
<1>2. ASSUME NEW id \in DOMAIN hub.inst, HubRemoves(id) PROVE TrackHolds'
  <2>1. PICK g, c : g = Unwatch(hub, id) /\ c = [op |-> "remove", id |-> id, pc |-> "remove"]
    OBVIOUS
  <2>2. hub' = [g EXCEPT !.calls = hub.calls \cup {c}]
    BY <1>2, <2>1 DEF HubRemoves, Begin
  <2>3. CallIs(c)
    BY <2>1, TrackTypes DEF CallIs
  <2>4. /\ HubFields \subseteq DOMAIN g /\ g.inst = hub.inst /\ g.files = hub.files /\ g.up = hub.up /\ g.now = hub.now /\ g.favorites = hub.favorites
    BY <2>1, TrackTypes DEF Unwatch, HubFields
  <2>5. /\ HubFields \subseteq DOMAIN hub' /\ hub'.inst = hub.inst /\ hub'.favorites = hub.favorites /\ hub'.now = hub.now
        /\ hub'.up = hub.up /\ hub'.files = hub.files /\ hub'.follows = g.follows /\ hub'.calls = hub.calls \cup {c}
    BY <2>2, <2>4 DEF HubFields
  <2>6. \A f \in g.follows : FollowIs(f)
    BY <2>1, TrackTypes, WatchesAre
  <2>7. UNCHANGED <<hubDisk, hubPage, hubScope>> /\ hubWorld'.ticks = hubWorld.ticks /\ hubWorld'.net = hubWorld.net
    BY <1>2, SpentLeaves DEF HubRemoves, Quietly, Counters
  <2> QED
    BY <2>3, <2>5, <2>6, <2>7, TrackTypes, StillTracks
<1>3. ASSUME NEW id \in DOMAIN hub.inst, HubProxies(id) PROVE TrackHolds'
  <2>1. UNCHANGED <<hub, hubDisk, hubPage, hubScope>>
    BY <1>3 DEF HubProxies, Quietly
  <2>2. PICK x : hubWorld' = [hubWorld EXCEPT !.proxied = x]
    BY <1>3 DEF HubProxies, Happened
  <2>3. hubWorld'.ticks = hubWorld.ticks /\ hubWorld'.net = hubWorld.net
    BY <2>2, TrackTypes DEF WorldFields
  <2> QED
    BY <2>1, <2>3, TrackTypes, StillTracks
<1> QED
  BY <1>1, <1>2, <1>3

\* The delivery of an event keeps it.
LEMMA ReceivesTracks ==
    ASSUME HubIInv, TrackHolds, NEW d \in DOMAIN hubScope.mail, Receives(d)
    PROVE  TrackHolds'
<1>1. UNCHANGED <<hubDisk, hubPage, hubScope>> /\ hubWorld'.ticks = hubWorld.ticks /\ hubWorld'.net = hubWorld.net
  BY SpentLeaves DEF Receives, Quietly, Counters
<1>2. CASE UNCHANGED hub
  BY <1>1, <1>2, TrackTypes, StillTracks
<1>3. CASE ~ UNCHANGED hub
  <2>1. PICK files, c, order : /\ files = Mark(hub.files, "deliveries", TRUE) /\ c = EventCall(d) /\ order = Remember(hub.order, d)
    OBVIOUS
  <2>2. hub' = [hub EXCEPT !.order = order, !.files = files, !.calls = hub.calls \cup {c}]
    BY <1>3, <2>1 DEF Receives, Begin, EventCall
  <2>3. DOMAIN hub.files = Files /\ FilesAre(hub.files)
    BY DEF HubIInv, HubTyped, TrackHolds, HubShaped, FilesAre
  <2>4. Marked(hub.files, files, "deliveries", TRUE)
    BY <2>1, <2>3, MarkMarks DEF FilesAre, Files
  <2>5. FilesAre(files) /\ files["instances"] = hub.files["instances"]
    BY <2>4 DEF Marked, FilesAre, Files
  <2>6. CallIs(c)
    <3>1. IsID(hubScope.mail[d].id)
      BY HubAssumption DEF HubIInv, HubTyped
    <3> QED
      BY <2>1, <3>1 DEF CallIs, EventCall
  <2>7. /\ HubFields \subseteq DOMAIN hub' /\ hub'.inst = hub.inst /\ hub'.favorites = hub.favorites /\ hub'.now = hub.now
        /\ hub'.up = hub.up /\ hub'.files = files /\ hub'.follows = hub.follows /\ hub'.calls = hub.calls \cup {c}
    BY <2>2, TrackTypes DEF HubFields
  <2>8. SameStore
    BY <1>1, <2>7 DEF SameStore, Serving, TrackHolds, HubShaped
  <2> QED
    BY <1>1, <2>5, <2>6, <2>7, <2>8, TrackTypes, NetIs, QuietTracks
<1> QED
  BY <1>2, <1>3

-----------------------------------------------------------------------------
(* Removing, pinning and the favorites.                                      *)

\* A step that renumbers or removes instances, or changes the favorites, and marks and tells of it.
Renumbers(inst, b) ==
    /\ Numbered(inst) /\ Dense(inst)
    /\ \A x \in DOMAIN inst : x \in DOMAIN hub.inst /\ BareSame(inst[x], hub.inst[x])
    /\ hub'.inst = inst /\ hub'.now = hub.now /\ hub'.up = hub.up /\ hub'.follows = hub.follows
    /\ Marked(hub.files, hub'.files, "instances", b)
    /\ ~b => Saved(inst) = Saved(hub.inst) /\ hub'.favorites = hub.favorites
    /\ PageIs(hubPage') /\ PageAgrees(hubPage', inst, hub'.favorites) /\ (hubPage'.subscribed => hubPage.subscribed)

\* A step that renumbers keeps it.
LEMMA RenumbersTracks ==
    ASSUME HubIInv, TrackHolds, NEW inst, NEW b \in BOOLEAN, Renumbers(inst, b), \A c \in hub'.calls : CallIs(c),
           UNCHANGED <<hubDisk, hubScope>>, hubWorld'.ticks = hubWorld.ticks, hubWorld'.net = hubWorld.net
    PROVE  TrackHolds'
<1>1. HubShaped /\ PinsHold /\ WorkHolds /\ FileHolds /\ PageHolds
  BY DEF TrackHolds
<1>2. HubShaped'
  <2>1. \A c \in hub'.calls : CallIs(c)'
    BY DEF CallIs, EventCall
  <2>2. FilesAre(hub'.files)
    BY DEF Renumbers, Marked, FilesAre
  <2> QED
    BY <1>1, <2>1, <2>2 DEF HubShaped, Renumbers, FilesAre
<1>3. PinsHold'
  BY <1>1 DEF PinsHold, Renumbers, RowsNumbered, Readable, Rows
<1>4. WorkHolds'
  <2>1. ASSUME NEW x \in DOMAIN inst
        PROVE  /\ Timely(inst[x], hub.now) /\ inst[x].heard \in Nat
               /\ Serving => (inst[x].since # Never <=> Working(inst[x]))
    <3>1. x \in DOMAIN hub.inst /\ BareSame(inst[x], hub.inst[x])
      BY DEF Renumbers
    <3>2. Working(inst[x]) <=> Working(hub.inst[x])
      BY <3>1, SameWorking DEF BareSame
    <3>3. /\ Timely(hub.inst[x], hub.now) /\ hub.inst[x].heard \in Nat
          /\ Serving => (hub.inst[x].since # Never <=> Working(hub.inst[x]))
      BY <1>1, <3>1 DEF WorkHolds
    <3>4. /\ inst[x].last = hub.inst[x].last /\ inst[x].since = hub.inst[x].since /\ inst[x].spans = hub.inst[x].spans
          /\ inst[x].heard = hub.inst[x].heard
      BY <3>1 DEF BareSame, SameInst
    <3>5. Timely(inst[x], hub.now)
      BY <3>3, <3>4 DEF Timely
    <3> QED
      BY <3>2, <3>3, <3>4, <3>5
  <2>2. Serving' <=> Serving
    BY DEF Serving, Renumbers
  <2>3. Readable' = Readable /\ Rows' = Rows
    BY DEF Readable, Rows
  <2> QED
    BY <1>1, <2>1, <2>2, <2>3 DEF WorkHolds, Renumbers
<1>5. FileHolds'
  <2>1. FileCurrent(hubScope, hub, hubDisk) /\ (hub.up # "down" => Readable)
    BY <1>1 DEF FileHolds
  <2>2. hub'.up = hub.up /\ hub'.inst = inst
    BY DEF Renumbers
  <2>3. CASE b /\ hubScope.keep
    <3>1. hub'.files["instances"].pending
      BY <2>3 DEF Renumbers, Marked
    <3> QED
      BY <2>1, <2>2, <3>1 DEF FileHolds, FileCurrent, Readable
  <2>4. CASE ~hubScope.keep
    BY <2>1, <2>2, <2>4 DEF FileHolds, FileCurrent, Readable
  <2>5. CASE ~b
    <3>1. hub'.files["instances"] = hub.files["instances"]
      BY <2>5 DEF Renumbers, Marked
    <3>2. Saved(inst) = Saved(hub.inst) /\ hub'.favorites = hub.favorites
      BY <2>5 DEF Renumbers
    <3>3. FileCurrent(hubScope, hub', hubDisk)
      BY <2>1, <2>2, <3>1, <3>2, FileStays
    <3> QED
      BY <2>1, <2>2, <3>3 DEF FileHolds, Readable
  <2> QED
    BY <2>3, <2>4, <2>5
<1>6. PageHolds'
  <2>1. hubPage.subscribed => Serving
    BY <1>1 DEF PageHolds
  <2>2. Serving' <=> Serving
    BY DEF Serving, Renumbers
  <2> QED
    BY <2>1, <2>2 DEF PageHolds, Renumbers
<1> QED
  BY <1>2, <1>3, <1>4, <1>5, <1>6 DEF TrackHolds

\* What the page is told of instances that were renumbered, or removed.
LEMMA RenumbersTells ==
    ASSUME HubIInv, TrackHolds, NEW inst, Numbered(inst), \A x \in DOMAIN inst : x \in DOMAIN hub.inst /\ BareSame(inst[x], hub.inst[x]),
           NEW but, NEW es, but \notin DOMAIN inst,
           \/ es = InstanceEvents(inst, Renumbered(hub.inst, inst, but)) /\ DOMAIN inst = DOMAIN hub.inst
           \/ es = <<<<"removed", but>>>> \o InstanceEvents(inst, Renumbered(hub.inst, inst, but)) /\ DOMAIN inst = DOMAIN hub.inst \ {but} /\ but \in DOMAIN hub.inst
    PROVE  /\ PageIs(Notify(hubPage, es)) /\ PageAgrees(Notify(hubPage, es), inst, hub.favorites)
           /\ Notify(hubPage, es).subscribed => hubPage.subscribed
<1>1. PICK more : more = Renumbered(hub.inst, inst, but)
  OBVIOUS
<1>2. IsFiniteSet(DOMAIN inst) /\ (\A x \in DOMAIN inst : x \in Nat) /\ more \subseteq DOMAIN inst
  BY <1>1 DEF Numbered, IsID, Renumbered
<1>3. AreIDs(more)
  BY <1>2, FS_Subset DEF AreIDs
<1>4. SentFor(InstanceEvents(inst, more), inst, more, {})
  BY <1>3, InstanceEventsAreSent
<1>5. PICK gone : gone = DOMAIN hub.inst \ DOMAIN inst
  OBVIOUS
<1>6. SentFor(es, inst, more, gone)
  <2>1. CASE es = InstanceEvents(inst, Renumbered(hub.inst, inst, but)) /\ DOMAIN inst = DOMAIN hub.inst
    <3>1. gone = {}
      BY <1>5, <2>1
    <3> QED
      BY <1>1, <1>4, <2>1, <3>1
  <2>2. CASE es = <<<<"removed", but>>>> \o InstanceEvents(inst, Renumbered(hub.inst, inst, but)) /\ DOMAIN inst = DOMAIN hub.inst \ {but}
                 /\ but \in DOMAIN hub.inst
    <3>1. gone = {but}
      BY <1>5, <2>2
    <3>2. SentFor(<<<<"removed", but>>>> \o InstanceEvents(inst, more), inst, {} \cup more, {but} \cup {})
      BY <1>4, RemovedIsSent, BothAreSent
    <3>3. {} \cup more = more /\ {but} \cup {} = {but}
      OBVIOUS
    <3> QED
      BY <1>1, <2>2, <3>1, <3>2, <3>3
  <2> QED
    BY <2>1, <2>2
<1>7. ASSUME NEW x, x \notin more \cup gone PROVE SameTo(hub.inst, inst, x)
  <2>1. CASE x \notin DOMAIN hub.inst
    BY <2>1 DEF SameTo
  <2>2. CASE x \in DOMAIN hub.inst
    <3>1. x \in DOMAIN inst /\ BareSame(inst[x], hub.inst[x])
      BY <1>5, <1>7, <2>2
    <3>2. inst[x].pin = hub.inst[x].pin
      BY <1>1, <1>7, <2>2, <3>1 DEF Renumbered
    <3> QED
      BY <2>2, <3>1, <3>2, SameSent DEF SameTo
  <2> QED
    BY <2>1, <2>2
<1>8. PageIs(hubPage) /\ PageAgrees(hubPage, hub.inst, hub.favorites)
  BY DEF TrackHolds, PageHolds
<1>9. gone \cap DOMAIN inst = {}
  BY <1>5
<1> QED
  BY <1>2, <1>6, <1>7, <1>8, <1>9, CapIs, SentAgrees

\* numberPinsLocked leaves an instance but its pin.
LEMMA NumberedAreSame ==
    ASSUME NEW inst, Numbered(inst), \A x \in DOMAIN inst : IsInst(inst[x])
    PROVE  \A x \in DOMAIN inst : BareSame(NumberPins(inst)[x], inst[x])
<1>1. \A x \in DOMAIN inst : \A f \in DOMAIN inst[x] \ {"pin"} : NumberPins(inst)[x][f] = inst[x][f]
  BY NumberPinsNumbers
<1>2. ASSUME NEW x \in DOMAIN inst PROVE BareSame(NumberPins(inst)[x], inst[x])
  <2>1. \A f \in InstFields \ {"pin"} : NumberPins(inst)[x][f] = inst[x][f]
    BY <1>1 DEF IsInst
  <2> QED
    BY <2>1 DEF BareSame, SameInst, InstFields
<1> QED
  BY <1>2

\* The removal of an instance keeps it.
LEMMA ForgetsTracks ==
    ASSUME HubIInv, TrackHolds, NEW c \in hub.calls, HubForgets(c)
    PROVE  TrackHolds'
<1>1. \A d \in CallDone(c) : CallIs(d)
  BY CallsAre DEF TrackHolds
<1>2. UNCHANGED <<hubDisk, hubScope>> /\ hubWorld'.ticks = hubWorld.ticks /\ hubWorld'.net = hubWorld.net
  BY DEF HubForgets
<1>3. CASE c.id \notin DOMAIN hub.inst
  <2>1. hub' = [hub EXCEPT !.calls = CallDone(c)] /\ UNCHANGED hubPage
    BY <1>3 DEF HubForgets
  <2>2. /\ HubFields \subseteq DOMAIN hub' /\ hub'.inst = hub.inst /\ hub'.favorites = hub.favorites /\ hub'.now = hub.now
        /\ hub'.up = hub.up /\ hub'.files = hub.files /\ hub'.calls = CallDone(c) /\ hub'.follows = hub.follows
    BY <2>1, TrackTypes DEF HubFields
  <2> QED
    BY <1>1, <1>2, <2>1, <2>2, TrackTypes, StillTracks
<1>4. CASE c.id \in DOMAIN hub.inst
  <2>1. PICK rest, inst : rest = Restrict(hub.inst, DOMAIN hub.inst \ {c.id}) /\ inst = NumberPins(rest)
    OBVIOUS
  <2>2. PICK files, es : /\ files = Mark(hub.files, "instances", TRUE)
                         /\ es = <<<<"removed", c.id>>>> \o InstanceEvents(inst, Renumbered(hub.inst, inst, c.id))
    OBVIOUS
  <2>3. hub' = [hub EXCEPT !.inst = inst, !.calls = CallDone(c), !.files = files] /\ hubPage' = Notify(hubPage, es)
    BY <1>4, <2>1, <2>2 DEF HubForgets
  <2>4. /\ HubFields \subseteq DOMAIN hub' /\ hub'.inst = inst /\ hub'.favorites = hub.favorites /\ hub'.now = hub.now
        /\ hub'.up = hub.up /\ hub'.files = files /\ hub'.calls = CallDone(c) /\ hub'.follows = hub.follows
    BY <2>3, TrackTypes DEF HubFields
  <2>5. DOMAIN rest = DOMAIN hub.inst \ {c.id} /\ \A x \in DOMAIN rest : rest[x] = hub.inst[x]
    BY <2>1 DEF Restrict
  <2>6. Numbered(hub.inst) /\ \A x \in DOMAIN hub.inst : IsInst(hub.inst[x])
    BY DEF TrackHolds, PinsHold, HubIInv, HubTyped
  <2>7. Numbered(rest) /\ \A x \in DOMAIN rest : IsInst(rest[x])
    <3>1. IsFiniteSet(DOMAIN rest)
      BY <2>5, <2>6, FS_Subset DEF Numbered
    <3> QED
      BY <2>5, <2>6, <3>1 DEF Numbered
  <2>8. Numbered(inst) /\ Dense(inst) /\ DOMAIN inst = DOMAIN rest /\ \A x \in DOMAIN rest : BareSame(inst[x], rest[x])
    BY <2>1, <2>7, NumberPinsNumbers, NumberedAreSame
  <2>9. \A x \in DOMAIN inst : x \in DOMAIN hub.inst /\ BareSame(inst[x], hub.inst[x])
    BY <2>5, <2>8
  <2>10. DOMAIN hub.files = Files /\ FilesAre(hub.files)
    BY DEF HubIInv, HubTyped, TrackHolds, HubShaped, FilesAre
  <2>11. Marked(hub.files, files, "instances", TRUE)
    BY <2>2, <2>10, MarkMarks DEF FilesAre, Files
  <2>12. DOMAIN inst = DOMAIN hub.inst \ {c.id}
    BY <2>5, <2>8
  <2>13. /\ PageIs(hubPage') /\ PageAgrees(hubPage', inst, hub.favorites)
         /\ hubPage'.subscribed => hubPage.subscribed
    BY <1>4, <2>2, <2>3, <2>8, <2>9, <2>12, RenumbersTells
  <2>14. Renumbers(inst, TRUE)
    BY <2>4, <2>8, <2>9, <2>11, <2>13 DEF Renumbers
  <2> QED
    BY <1>1, <1>2, <2>4, <2>14, RenumbersTracks
<1> QED
  BY <1>3, <1>4

\* PUT of the pins keeps it.
LEMMA SetsPinsTracks ==
    ASSUME HubIInv, TrackHolds, NEW ids \in hubScope.orders, HubSetsPins(ids)
    PROVE  TrackHolds'
<1>1. ids \in Seq(Nat) /\ IsInjective(ids) /\ Still
  BY HubAssumption DEF HubIInv, HubTyped, HubSetsPins
<1>2. UNCHANGED <<hubDisk, hubScope>> /\ hubWorld'.ticks = hubWorld.ticks /\ hubWorld'.net = hubWorld.net
  BY <1>1, SpentLeaves DEF HubSetsPins, Counters, Still
<1>3. PICK inst : inst = [id \in DOMAIN hub.inst |->
                      IF id \in Range(ids) THEN [hub.inst[id] EXCEPT !.pin = CHOOSE n \in DOMAIN ids : ids[n] = id] ELSE hub.inst[id]]
  OBVIOUS
<1>4. PICK moved, b : moved = Renumbered(hub.inst, inst, 0) /\ b = (moved # {}) /\ b \in BOOLEAN
  OBVIOUS
<1>5. CASE Range(ids) # Pinned(hub.inst)
  <2>1. UNCHANGED <<hub, hubPage>>
    BY <1>5 DEF HubSetsPins
  <2> QED
    BY <1>2, <2>1, TrackTypes, StillTracks
<1>6. CASE Range(ids) = Pinned(hub.inst)
  <2>1. PICK files, es : files = Mark(hub.files, "instances", b) /\ es = InstanceEvents(inst, moved)
    OBVIOUS
  <2>2. hub' = [hub EXCEPT !.inst = inst, !.files = files] /\ hubPage' = Notify(hubPage, es)
    BY <1>3, <1>4, <1>6, <2>1 DEF HubSetsPins
  <2>3. /\ HubFields \subseteq DOMAIN hub' /\ hub'.inst = inst /\ hub'.favorites = hub.favorites /\ hub'.now = hub.now
        /\ hub'.up = hub.up /\ hub'.files = files /\ hub'.calls = hub.calls /\ hub'.follows = hub.follows
    BY <2>2, TrackTypes DEF HubFields
  <2>4. Numbered(hub.inst) /\ \A x \in DOMAIN hub.inst : IsInst(hub.inst[x])
    BY DEF TrackHolds, PinsHold, HubIInv, HubTyped
  <2>5. DOMAIN ids = 1..Len(ids) /\ Len(ids) \in Nat
    BY <1>1
  <2>6. ASSUME NEW x \in Pinned(hub.inst)
        PROVE  /\ inst[x] = [hub.inst[x] EXCEPT !.pin = CHOOSE n \in DOMAIN ids : ids[n] = x]
               /\ inst[x].pin \in DOMAIN ids /\ ids[inst[x].pin] = x /\ BareSame(inst[x], hub.inst[x]) /\ DOMAIN inst[x] = DOMAIN hub.inst[x]
    <3>1. x \in DOMAIN hub.inst /\ x \in Range(ids) /\ IsInst(hub.inst[x])
      BY <1>6, <2>4 DEF Pinned
    <3>2. PICK m : m = CHOOSE n \in DOMAIN ids : ids[n] = x
      OBVIOUS
    <3>3. m \in DOMAIN ids /\ ids[m] = x
      <4>1. \E n \in DOMAIN ids : ids[n] = x
        BY <3>1 DEF Range
      <4> QED
        BY <3>2, <4>1
    <3>4. inst[x] = [hub.inst[x] EXCEPT !.pin = m]
      BY <1>3, <3>1, <3>2
    <3> QED
      BY <3>1, <3>2, <3>3, <3>4 DEF BareSame, SameInst, IsInst, InstFields
  <2>7. ASSUME NEW x \in DOMAIN hub.inst \ Pinned(hub.inst) PROVE inst[x] = hub.inst[x]
    BY <1>3, <1>6
  <2>8. DOMAIN inst = DOMAIN hub.inst
    BY <1>3
  <2>9. \A x \in DOMAIN inst : x \in DOMAIN hub.inst /\ BareSame(inst[x], hub.inst[x]) /\ DOMAIN inst[x] = DOMAIN hub.inst[x]
    <3>1. \A x \in DOMAIN hub.inst \ Pinned(hub.inst) : BareSame(inst[x], hub.inst[x])
      BY <2>7 DEF BareSame, SameInst
    <3> QED
      BY <2>6, <2>7, <2>8, <3>1
  <2>20. ASSUME NEW x \in Pinned(hub.inst) PROVE inst[x].pin \in Nat /\ inst[x].pin > 0
    <3>1. PICK p : p = inst[x].pin
      OBVIOUS
    <3>2. p \in DOMAIN ids
      BY <2>6, <3>1
    <3>3. p \in Nat /\ p > 0
      BY <2>5, <3>2
    <3> QED
      BY <3>1, <3>3
  <2>10. Numbered(inst)
    <3>1. \A x \in DOMAIN inst : inst[x].pin \in Nat
      <4>1. \A x \in DOMAIN hub.inst \ Pinned(hub.inst) : inst[x].pin \in Nat
        BY <2>4, <2>7 DEF Numbered
      <4> QED
        BY <2>8, <2>20, <4>1
    <3> QED
      BY <2>4, <2>8, <2>9, <3>1 DEF Numbered
  <2>11. Pinned(inst) = Pinned(hub.inst)
    <3>1. \A x \in Pinned(hub.inst) : x \in DOMAIN inst /\ inst[x].pin > 0
      BY <2>8, <2>20 DEF Pinned
    <3> QED
      BY <2>7, <2>8, <3>1 DEF Pinned
  <2>12. Cardinality(Pinned(inst)) = Len(ids)
    <3>1. ids \in [1..Len(ids) -> Pinned(inst)]
      BY <1>1, <1>6, <2>5, <2>11 DEF Range
    <3>2. \A x \in Pinned(inst) : \E n \in 1..Len(ids) : ids[n] = x
      BY <1>6, <2>5, <2>11 DEF Range
    <3>3. \A m, n \in 1..Len(ids) : ids[m] = ids[n] => m = n
      BY <1>1, <2>5 DEF IsInjective
    <3>4. ids \in Bijection(1..Len(ids), Pinned(inst))
      BY <3>1, <3>2, <3>3, Fun_IsBij
    <3> QED
      BY <2>5, <3>4, FS_CountingElements DEF ExistsBijection
  <2>13. Dense(inst)
    <3>1. \A x \in Pinned(inst) : inst[x].pin \in 1..Len(ids)
      BY <2>5, <2>6, <2>11
    <3>2. ASSUME NEW n \in 1..Len(ids) PROVE \E x \in Pinned(inst) : inst[x].pin = n
      <4>1. ids[n] \in Pinned(inst)
        BY <1>6, <2>5, <2>11 DEF Range
      <4>2. inst[ids[n]].pin \in DOMAIN ids /\ ids[inst[ids[n]].pin] = ids[n]
        BY <2>6, <2>11, <4>1
      <4>3. inst[ids[n]].pin = n
        BY <1>1, <2>5, <4>2 DEF IsInjective
      <4> QED
        BY <4>1, <4>3
    <3> QED
      BY <2>12, <3>1, <3>2 DEF Dense
  <2>14. 0 \notin DOMAIN inst
    BY <2>8, TrackTypes DEF IsID
  <2>15. DOMAIN hub.files = Files /\ FilesAre(hub.files)
    BY DEF HubIInv, HubTyped, TrackHolds, HubShaped, FilesAre
  <2>16. Marked(hub.files, files, "instances", b)
    BY <1>4, <2>1, <2>15, MarkMarks DEF FilesAre, Files
  <2>17. /\ PageIs(hubPage') /\ PageAgrees(hubPage', inst, hub.favorites)
         /\ hubPage'.subscribed => hubPage.subscribed
    BY <1>4, <2>1, <2>2, <2>8, <2>9, <2>10, <2>14, RenumbersTells
  <2>18. ASSUME ~b PROVE Saved(inst) = Saved(hub.inst)
    <3>1. \A x \in DOMAIN hub.inst : inst[x].pin = hub.inst[x].pin
      BY <1>4, <2>8, <2>14, <2>18 DEF Renumbered
    <3>2. \A x \in DOMAIN hub.inst : Kept(inst[x]) = Kept(hub.inst[x])
      BY <2>8, <2>9, <3>1, SameSent
    <3> QED
      BY <2>8, <3>2, SavedSame
  <2>19. Renumbers(inst, b)
    BY <2>3, <2>9, <2>10, <2>13, <2>16, <2>17, <2>18 DEF Renumbers
  <2> QED
    BY <1>2, <1>4, <2>3, <2>19, TrackTypes, RenumbersTracks
<1> QED
  BY <1>5, <1>6

\* PUT of the favorites keeps it.
LEMMA SetsFavoritesTracks ==
    ASSUME HubIInv, TrackHolds, NEW v, HubSetsFavorites(v)
    PROVE  TrackHolds'
<1>1. UNCHANGED <<hubDisk, hubScope>> /\ hubWorld'.ticks = hubWorld.ticks /\ hubWorld'.net = hubWorld.net
  BY SpentLeaves DEF HubSetsFavorites, Counters, Still
<1>2. PICK files, es : files = Mark(hub.files, "instances", TRUE) /\ es = <<<<"favorites", v>>>>
  OBVIOUS
<1>3. hub' = [hub EXCEPT !.favorites = v, !.files = files] /\ hubPage' = Notify(hubPage, es)
  BY <1>2 DEF HubSetsFavorites
<1>4. /\ HubFields \subseteq DOMAIN hub' /\ hub'.inst = hub.inst /\ hub'.favorites = v /\ hub'.now = hub.now
      /\ hub'.up = hub.up /\ hub'.files = files /\ hub'.calls = hub.calls /\ hub'.follows = hub.follows
  BY <1>3, TrackTypes DEF HubFields
<1>5. DOMAIN hub.files = Files /\ FilesAre(hub.files)
  BY DEF HubIInv, HubTyped, TrackHolds, HubShaped, FilesAre
<1>6. Marked(hub.files, files, "instances", TRUE)
  BY <1>2, <1>5, MarkMarks DEF FilesAre, Files
<1>7. IsLine(es) /\ DOMAIN es = {1} /\ es[1] = <<"favorites", v>>
  <2>1. es \in Seq({<<"favorites", v>>})
    BY <1>2
  <2>2. DOMAIN es = {1} /\ es[1] = <<"favorites", v>>
    BY <1>2
  <2> QED
    BY <2>1, <2>2 DEF IsLine
<1>8. /\ \A n \in DOMAIN es : es[n][1] = "favorites" /\ es[n][2] = v
  BY <1>7
<1>9. PageIs(hubPage) /\ PageAgrees(hubPage, hub.inst, hub.favorites)
  BY DEF TrackHolds, PageHolds
<1>10. \A id : \A n \in DOMAIN es : ~Tells(es[n], id)
  BY <1>8 DEF Tells
<1>11. ~(\A n \in DOMAIN es : ~Likes(es[n]))
  BY <1>7, <1>8 DEF Likes
<1>12. \A id : SameTo(hub.inst, hub.inst, id)
  BY DEF SameTo
<1>13. /\ PageIs(Notify(hubPage, es)) /\ PageAgrees(Notify(hubPage, es), hub.inst, v)
       /\ Notify(hubPage, es).subscribed => hubPage.subscribed
  <2>1. \A n \in DOMAIN es : es[n][1] \in Kinds
    BY <1>8 DEF Kinds
  <2>2. \A id : \A n \in DOMAIN es : Tells(es[n], id) => Says(es[n], id, hub.inst)
    BY <1>10
  <2>3. \A id : (\A n \in DOMAIN es : ~Tells(es[n], id)) => SameTo(hub.inst, hub.inst, id)
    BY <1>12
  <2>4. \A n \in DOMAIN es : Likes(es[n]) => es[n][2] = v
    BY <1>8
  <2>5. (\A n \in DOMAIN es : ~Likes(es[n])) => v = hub.favorites
    BY <1>11
  <2>6. IsLine(es) /\ hubScope.cap \in Nat
    BY <1>7, CapIs
  <2> QED
    BY <1>9, <2>1, <2>2, <2>3, <2>4, <2>5, <2>6, NotifyAgrees, ZenonT(30)
<1>14. PICK inst : inst = hub.inst
  OBVIOUS
<1>15. Numbered(inst) /\ Dense(inst) /\ \A x \in DOMAIN inst : x \in DOMAIN hub.inst /\ BareSame(inst[x], hub.inst[x])
  BY <1>14 DEF TrackHolds, PinsHold, BareSame, SameInst
<1>16. Renumbers(inst, TRUE)
  BY <1>3, <1>4, <1>6, <1>13, <1>14, <1>15 DEF Renumbers
<1> QED
  BY <1>1, <1>4, <1>16, TrackTypes, RenumbersTracks

-----------------------------------------------------------------------------
(* The file, and the rows that a hub restores from it.                       *)

\* A row of the file, as a hub that starts has it.
LEMMA RestoredIs ==
    ASSUME NEW row
    PROVE  /\ IsInst(Restored(row)) /\ Kept(Restored(row)) = KeptAgain(row.kept)
           /\ Restored(row).pin = row.kept.pin /\ Restored(row).last = row.last /\ Restored(row).since = Never /\ Restored(row).heard = Never
           /\ Restored(row).conn # "connected"
           /\ Restored(row).spans = IF row.since # Never /\ row.last > row.since THEN Append(row.spans, <<row.since, row.last>>) ELSE row.spans
<1> DEFINE k == row.kept
<1>1. PICK u, c : /\ u = IF k.confirmed # Nowhere /\ k.source # "manual" THEN k.confirmed ELSE k.url
                  /\ c = IF k.stopped THEN "stopped" ELSE "connecting"
  OBVIOUS
<1>2. PICK i : i = [NewInstance EXCEPT !.url = u,
                !.run = k.run, !.source = k.source, !.conn = c,
                !.confirmed = k.confirmed, !.token = k.token, !.pin = k.pin, !.group = k.group, !.muted = k.muted,
                !.hb = k.hb, !.changed = k.changed, !.activity = k.activity, !.last = row.last, !.since = row.since, !.spans = row.spans]
  OBVIOUS
<1>3. Restored(row) = IF row.since = Never THEN i ELSE EndSpan(i, row.last)
  BY <1>1, <1>2 DEF Restored
<1>4. /\ IsInst(i) /\ i.url = u /\ i.run = k.run /\ i.source = k.source /\ i.conn = c /\ i.confirmed = k.confirmed /\ i.token = k.token
      /\ i.pin = k.pin /\ i.group = k.group /\ i.muted = k.muted /\ i.hb = k.hb /\ i.changed = k.changed /\ i.activity = k.activity
      /\ i.last = row.last /\ i.since = row.since /\ i.spans = row.spans /\ i.heard = Never
  <2>1. IsInst(i) /\ i.url = u /\ i.run = k.run /\ i.source = k.source /\ i.conn = c /\ i.confirmed = k.confirmed
    BY <1>2 DEF NewInstance, IsInst, InstFields
  <2>2. i.token = k.token /\ i.pin = k.pin /\ i.group = k.group /\ i.muted = k.muted /\ i.hb = k.hb
    BY <1>2 DEF NewInstance
  <2>3. i.changed = k.changed /\ i.activity = k.activity /\ i.last = row.last /\ i.since = row.since
    BY <1>2 DEF NewInstance
  <2>4. i.spans = row.spans /\ i.heard = Never
    BY <1>2 DEF NewInstance
  <2> QED
    BY <2>1, <2>2, <2>3, <2>4
<1>5. PICK r : r = Restored(row)
  OBVIOUS
<1>6. /\ IsInst(r) /\ r.url = u /\ r.run = k.run /\ r.source = k.source /\ r.conn = c /\ r.confirmed = k.confirmed /\ r.token = k.token
      /\ r.pin = k.pin /\ r.group = k.group /\ r.muted = k.muted /\ r.hb = k.hb /\ r.changed = k.changed /\ r.activity = k.activity
      /\ r.last = row.last /\ r.since = Never /\ r.heard = Never
      /\ r.spans = IF row.since # Never /\ row.last > row.since THEN Append(row.spans, <<row.since, row.last>>) ELSE row.spans
  <2>1. CASE row.since = Never
    BY <1>3, <1>4, <1>5, <2>1
  <2>2. CASE row.since # Never
    <3>1. r = [i EXCEPT !.spans = IF row.last > i.since THEN Append(@, <<i.since, row.last>>) ELSE @, !.since = Never]
      BY <1>3, <1>5, <2>2 DEF EndSpan
    <3>2. PICK s : s = IF row.last > i.since THEN Append(i.spans, <<i.since, row.last>>) ELSE i.spans
      OBVIOUS
    <3>3. r = [i EXCEPT !.spans = s, !.since = Never]
      BY <3>1, <3>2
    <3> QED
      BY <1>4, <2>2, <3>2, <3>3 DEF IsInst, InstFields
  <2> QED
    BY <2>1, <2>2
<1>7. c = Halted(k) /\ c # "connected"
  BY <1>1 DEF Halted
<1>8. Kept(r) = KeptAgain(k)
  BY <1>1, <1>6, <1>7 DEF Kept, KeptAgain
<1> QED
  BY <1>5, <1>6, <1>7, <1>8

\* What the file keeps has the pins, and starting once more changes nothing.
LEMMA KeptTwice ==
    ASSUME NEW i, NEW j, NEW k, NEW p,
           j.url = i.url, j.run = i.run, j.source = i.source, j.conn = i.conn, j.confirmed = i.confirmed, j.token = i.token,
           j.group = i.group, j.muted = i.muted, j.hb = i.hb, j.changed = i.changed, j.activity = i.activity, j.pin = p,
           Kept(i) = KeptAgain(k)
    PROVE  KeptAgain(Kept(j)) = [KeptAgain(k) EXCEPT !.pin = p]
<1>1. PICK a, b : a = KeptAgain(k) /\ b = KeptAgain(Kept(j))
  OBVIOUS
<1>2. PICK u : u = IF k.confirmed # Nowhere /\ k.source # "manual" THEN k.confirmed ELSE k.url
  OBVIOUS
<1>3. a = [url |-> u, run |-> k.run, source |-> k.source, stopped |-> Halted(k) = "stopped",
           confirmed |-> k.confirmed, token |-> k.token, pin |-> k.pin, group |-> k.group, muted |-> k.muted,
           hb |-> k.hb, changed |-> k.changed, activity |-> k.activity]
  BY <1>1, <1>2 DEF KeptAgain
<1>4. PICK m : m = Kept(j)
  OBVIOUS
<1>5. /\ m.url = u /\ m.run = k.run /\ m.source = k.source /\ m.confirmed = k.confirmed /\ m.token = k.token /\ m.pin = p
      /\ m.group = k.group /\ m.muted = k.muted /\ m.hb = k.hb /\ m.changed = k.changed /\ m.activity = k.activity
      /\ m.stopped = (Halted(k) = "stopped")
  <2>1. Kept(i) = a
    BY <1>1
  <2> QED
    BY <1>3, <1>4, <2>1 DEF Kept
<1>6. (Halted(m) = "stopped") = (Halted(k) = "stopped")
  <2>1. Halted(m) = IF Halted(k) = "stopped" THEN "stopped" ELSE "connecting"
    BY <1>5 DEF Halted
  <2> QED
    BY <2>1
<1>7. b = [url |-> u, run |-> k.run, source |-> k.source, stopped |-> Halted(k) = "stopped",
           confirmed |-> k.confirmed, token |-> k.token, pin |-> p, group |-> k.group, muted |-> k.muted,
           hb |-> k.hb, changed |-> k.changed, activity |-> k.activity]
  <2>1. b = KeptAgain(m)
    BY <1>1, <1>4
  <2> QED
    BY <1>2, <1>5, <1>6, <2>1 DEF KeptAgain
<1>8. b = [a EXCEPT !.pin = p]
  BY <1>3, <1>7
<1> QED
  BY <1>1, <1>8

\* A hub that starts has what the one that wrote the file had.
LEMMA SavedNumbers ==
    ASSUME NEW inst, Numbered(inst), Dense(inst)
    PROVE  NumberPins(Saved(inst)) = Saved(inst)
<1>1. PICK s : s = Saved(inst)
  OBVIOUS
<1>2. DOMAIN s = DOMAIN inst /\ \A x \in DOMAIN s : s[x] = KeptAgain(Kept(inst[x]))
  BY <1>1 DEF Saved
<1>3. \A x \in DOMAIN s : "pin" \in DOMAIN s[x] /\ s[x].pin = inst[x].pin
  <2>1. \A k : "pin" \in DOMAIN KeptAgain(k) /\ KeptAgain(k).pin = k.pin
    BY DEF KeptAgain
  <2>2. \A i : Kept(i).pin = i.pin
    BY DEF Kept
  <2> QED
    BY <1>2, <2>1, <2>2
<1>4. Numbered(s)
  BY <1>2, <1>3 DEF Numbered
<1>5. Dense(s)
  <2>1. Pinned(s) = Pinned(inst)
    BY <1>2, <1>3 DEF Pinned
  <2>2. \A x \in Pinned(inst) : s[x].pin = inst[x].pin
    BY <1>2, <1>3 DEF Pinned
  <2> QED
    BY <2>1, <2>2 DEF Dense
<1>6. PICK t : t = NumberPins(s)
  OBVIOUS
<1>7. DOMAIN t = DOMAIN s /\ \A x \in DOMAIN s : t[x].pin = s[x].pin
  BY <1>4, <1>5, <1>6, DenseStays, NumberPinsNumbers
<1>8. ASSUME NEW x \in DOMAIN s PROVE t[x] = s[x]
  <2>1. CASE s[x].pin = 0
    BY <1>6, <2>1 DEF NumberPins
  <2>2. CASE s[x].pin # 0
    <3>1. PICK n : t[x] = [s[x] EXCEPT !.pin = n]
      BY <1>6, <2>2 DEF NumberPins
    <3>2. n = s[x].pin
      BY <1>3, <1>7, <3>1
    <3>3. s[x] = [KeptAgain(Kept(inst[x])) EXCEPT !.pin = s[x].pin]
      BY <1>2 DEF KeptAgain
    <3> QED
      BY <1>2, <3>1, <3>2, <3>3
  <2> QED
    BY <2>1, <2>2
<1>9. t = [x \in DOMAIN t |-> t[x]] /\ s = [x \in DOMAIN s |-> s[x]]
  BY <1>1, <1>6 DEF NumberPins, Saved
<1>10. t = s
  BY <1>7, <1>8, <1>9
<1> QED
  BY <1>1, <1>6, <1>10

\* A hub that starts numbers the pins that it read, which the file then has.
LEMMA StartNumbers ==
    ASSUME NEW rows, NEW r, NEW inst, IsFiniteSet(DOMAIN rows), \A x \in DOMAIN rows : IsID(x) /\ rows[x].kept.pin \in Nat,
           r = [x \in DOMAIN rows |-> Restored(rows[x])], inst = NumberPins(r)
    PROVE  /\ Numbered(inst) /\ Dense(inst) /\ DOMAIN inst = DOMAIN rows
           /\ \A x \in DOMAIN rows : IsInst(inst[x]) /\ BareSame(inst[x], Restored(rows[x]))
           /\ NumberPins(AfterStart(rows)) = Saved(inst)
<1>1. DOMAIN r = DOMAIN rows /\ \A x \in DOMAIN r : r[x] = Restored(rows[x]) /\ IsInst(r[x]) /\ r[x].pin = rows[x].kept.pin
  BY RestoredIs
<1>2. Numbered(r)
  BY <1>1 DEF Numbered, IsInst, InstFields
<1>3. Numbered(inst) /\ Dense(inst) /\ DOMAIN inst = DOMAIN r /\ \A x \in DOMAIN r : BareSame(inst[x], r[x])
  BY <1>1, <1>2, NumberPinsNumbers, NumberedAreSame
<1>4. \A x \in DOMAIN r : IsInst(inst[x])
  BY <1>1, NumberPinsKeeps
<1>5. PICK a : a = AfterStart(rows)
  OBVIOUS
<1>6. DOMAIN a = DOMAIN rows /\ \A x \in DOMAIN a : a[x] = KeptAgain(rows[x].kept)
  <2>1. a = [x \in DOMAIN rows |-> Kept(Restored(rows[x]))]
    BY <1>5 DEF AfterStart
  <2>2. \A x \in DOMAIN rows : Kept(Restored(rows[x])) = KeptAgain(rows[x].kept)
    BY RestoredIs
  <2> QED
    BY <2>1, <2>2
<1>7. \A x \in DOMAIN a : "pin" \in DOMAIN a[x] /\ a[x].pin = rows[x].kept.pin
  BY <1>6 DEF KeptAgain
<1>8. Numbered(a)
  BY <1>6, <1>7 DEF Numbered
<1>9. PICK t : t = NumberPins(a)
  OBVIOUS
<1>10. DOMAIN t = DOMAIN a /\ \A x \in DOMAIN a : t[x].pin = inst[x].pin
  <2>1. \A x \in DOMAIN a : a[x].pin = r[x].pin
    BY <1>1, <1>6, <1>7
  <2>2. \A x \in DOMAIN a : NumberPins(a)[x].pin = NumberPins(r)[x].pin
    BY <1>1, <1>2, <1>6, <1>8, <2>1, SamePinsNumber
  <2> QED
    BY <1>8, <1>9, <2>2, NumberPinsNumbers
<1>11. ASSUME NEW x \in DOMAIN a PROVE t[x] = KeptAgain(Kept(inst[x]))
  <2>1. PICK p : p = inst[x].pin
    OBVIOUS
  <2>2. t[x] = [a[x] EXCEPT !.pin = p]
    <3>1. CASE a[x].pin = 0
      <4>1. t[x] = a[x]
        BY <1>9, <3>1 DEF NumberPins
      <4>2. p = a[x].pin
        BY <1>10, <2>1, <4>1
      <4>3. a[x] = [KeptAgain(rows[x].kept) EXCEPT !.pin = a[x].pin]
        BY <1>6 DEF KeptAgain
      <4> QED
        BY <1>6, <4>1, <4>2, <4>3
    <3>2. CASE a[x].pin # 0
      <4>1. PICK n : t[x] = [a[x] EXCEPT !.pin = n]
        BY <1>9, <3>2 DEF NumberPins
      <4>2. n = p
        BY <1>7, <1>10, <2>1, <4>1
      <4> QED
        BY <4>1, <4>2
    <3> QED
      BY <3>1, <3>2
  <2>3. BareSame(inst[x], r[x]) /\ Kept(r[x]) = KeptAgain(rows[x].kept)
    BY <1>1, <1>3, <1>6, RestoredIs
  <2>4. KeptAgain(Kept(inst[x])) = [KeptAgain(rows[x].kept) EXCEPT !.pin = p]
    BY <2>1, <2>3, KeptTwice DEF BareSame, SameInst
  <2> QED
    BY <1>6, <2>2, <2>4
<1>12. t = [x \in DOMAIN t |-> t[x]]
  BY <1>9 DEF NumberPins
<1>13. t = Saved(inst)
  BY <1>1, <1>3, <1>6, <1>10, <1>11, <1>12 DEF Saved
<1> QED
  BY <1>1, <1>3, <1>4, <1>5, <1>9, <1>13

\* What a snapshot is.
LEMMA SnapshotIs ==
    ASSUME HubIInv, TrackHolds, NEW disk, disk.instances = Snapshot("instances")
    PROVE  /\ disk.instances \notin {Damaged, Newer} /\ disk.instances.favorites = hub.favorites
           /\ DOMAIN disk.instances.instances = DOMAIN hub.inst /\ \A x \in DOMAIN hub.inst : disk.instances.instances[x] = Stored(hub.inst[x])
           /\ NumberPins(AfterStart(disk.instances.instances)) = Saved(hub.inst)
<1>1. PICK rows : rows = [id \in DOMAIN hub.inst |-> Stored(hub.inst[id])]
  OBVIOUS
<1>2. disk.instances = [instances |-> rows, favorites |-> hub.favorites]
  BY <1>1 DEF Snapshot
<1>3. disk.instances \notin {Damaged, Newer}
  <2>1. "instances" \in DOMAIN disk.instances /\ "instances" \notin DOMAIN Damaged /\ "instances" \notin DOMAIN Newer
    BY <1>2 DEF Damaged, Newer
  <2> QED
    BY <2>1
<1>4. AfterStart(rows) = Saved(hub.inst)
  <2>1. \A x \in DOMAIN hub.inst : Kept(Restored(rows[x])) = KeptAgain(Kept(hub.inst[x]))
    <3>1. \A x \in DOMAIN hub.inst : rows[x].kept = Kept(hub.inst[x])
      BY <1>1 DEF Stored
    <3> QED
      BY <3>1, RestoredIs
  <2> QED
    BY <1>1, <2>1 DEF AfterStart, Saved
<1>5. NumberPins(Saved(hub.inst)) = Saved(hub.inst)
  BY SavedNumbers DEF TrackHolds, PinsHold
<1> QED
  BY <1>1, <1>2, <1>3, <1>4, <1>5

\* The background writes keep it, whatever came meanwhile.
LEMMA FilesTrack ==
    ASSUME HubIInv, TrackHolds, NEW f \in Files, FileBegins(f) \/ \E ok \in BOOLEAN : FileWrites(f, ok)
    PROVE  TrackHolds'
<1>1. DOMAIN hub.files = Files /\ FilesAre(hub.files) /\ DiskFields \subseteq DOMAIN hubDisk
  BY DEF HubIInv, HubTyped, TrackHolds, HubShaped, FilesAre
<1>2. PICK g : /\ hub' = [hub EXCEPT !.files[f] = g] /\ FileFields \subseteq DOMAIN g /\ g.pending \in BOOLEAN /\ g.closed \in BOOLEAN
               /\ (FileBegins(f) => g.writing = "taken")
               /\ \A ok \in BOOLEAN : FileWrites(f, ok) /\ ~ok => g.pending
  <2>1. FileFields \subseteq DOMAIN hub.files[f] /\ hub.files[f].pending \in BOOLEAN
    BY <1>1 DEF FilesAre
  <2>2. CASE FileBegins(f)
    <3>1. PICK g : g = [hub.files[f] EXCEPT !.pending = FALSE, !.nudge = FALSE, !.writing = "taken"]
      OBVIOUS
    <3>2. hub' = [hub EXCEPT !.files[f] = g]
      BY <2>2, <3>1 DEF FileBegins
    <3>3. FileFields \subseteq DOMAIN g /\ g.pending = FALSE /\ g.closed = hub.files[f].closed /\ g.writing = "taken"
      BY <2>1, <3>1 DEF FileFields
    <3>4. hub.files[f].closed \in BOOLEAN
      BY <1>1 DEF FilesAre
    <3>5. ~FileWrites(f, FALSE)
      BY <2>2 DEF FileBegins, FileWrites
    <3> QED
      BY <3>2, <3>3, <3>4, <3>5
  <2>3. CASE ~FileBegins(f)
    <3>1. PICK ok \in BOOLEAN : FileWrites(f, ok)
      BY <2>3
    <3>2. PICK p, c : p = (hub.files[f].pending \/ ~ok) /\ c = (hub.up = "closing")
      OBVIOUS
    <3>3. PICK g : g = [hub.files[f] EXCEPT !.writing = "no", !.pending = p, !.closed = c]
      OBVIOUS
    <3>4. hub' = [hub EXCEPT !.files[f] = g]
      BY <3>1, <3>2, <3>3 DEF FileWrites
    <3>5. FileFields \subseteq DOMAIN g /\ g.pending = p /\ g.closed = c
      BY <2>1, <3>3 DEF FileFields
    <3>6. p \in BOOLEAN /\ c \in BOOLEAN
      BY <3>2
    <3>7. ASSUME NEW no \in BOOLEAN, FileWrites(f, no), ~no PROVE g.pending
      <4>1. PICK h : h = [hub.files[f] EXCEPT !.writing = "no", !.pending = TRUE, !.closed = c]
        OBVIOUS
      <4>2. hub' = [hub EXCEPT !.files[f] = h]
        <5>1. (hub.files[f].pending \/ ~no) = TRUE
          BY <3>7
        <5> QED
          BY <3>2, <3>7, <4>1, <5>1 DEF FileWrites
      <4>3. hub'.files[f] = g /\ hub'.files[f] = h
        <5>1. HubFields \subseteq DOMAIN hub
          BY TrackTypes
        <5> QED
          BY <1>1, <3>4, <4>2, <5>1 DEF HubFields
      <4> QED
        BY <2>1, <4>1, <4>3 DEF FileFields
    <3> QED
      BY <2>3, <3>4, <3>5, <3>6, <3>7
  <2> QED
    BY <2>2, <2>3
<1>3. /\ HubFields \subseteq DOMAIN hub' /\ hub'.inst = hub.inst /\ hub'.favorites = hub.favorites /\ hub'.now = hub.now
      /\ hub'.up = hub.up /\ hub'.calls = hub.calls /\ hub'.follows = hub.follows /\ hub'.files = [hub.files EXCEPT ![f] = g]
  BY <1>2, TrackTypes DEF HubFields
<1>4. FilesAre(hub'.files) /\ hub'.files[f] = g /\ \A h \in Files \ {f} : hub'.files[h] = hub.files[h]
  BY <1>1, <1>2, <1>3 DEF FilesAre
<1>5. UNCHANGED <<hubPage, hubScope>> /\ hubWorld'.ticks = hubWorld.ticks /\ hubWorld'.net = hubWorld.net
  <2>1. CASE FileBegins(f)
    BY <2>1 DEF FileBegins, Quietly
  <2>2. CASE ~FileBegins(f)
    <3>1. PICK n : hubWorld' = [hubWorld EXCEPT !.faults = n]
      BY <2>2 DEF FileWrites
    <3> QED
      BY <2>2, <3>1, TrackTypes DEF FileWrites, WorldFields
  <2> QED
    BY <2>1, <2>2
<1>6. CASE f = "deliveries" \/ FileBegins(f)
  <2>1. hubDisk'.instances = hubDisk.instances
    <3>1. CASE FileBegins(f)
      BY <3>1 DEF FileBegins, Quietly
    <3>2. CASE f = "deliveries" /\ \E ok \in BOOLEAN : FileWrites(f, ok)
      BY <1>1, <3>2 DEF FileWrites, DiskFields
    <3> QED
      BY <1>6, <3>1, <3>2
  <2>2. SameStore
    BY <1>3, <1>5, <2>1 DEF SameStore, Serving, TrackHolds, HubShaped
  <2>3. hub'.files["instances"] = hub.files["instances"] \/ hub'.files["instances"].writing = "taken"
    BY <1>2, <1>4, <1>6 DEF Files
  <2> QED
    BY <1>3, <1>4, <1>5, <2>2, <2>3, TrackTypes, NetIs, QuietTracks
<1>7. CASE f = "instances" /\ ~FileBegins(f)
  <2>1. PICK ok \in BOOLEAN : FileWrites("instances", ok)
    BY <1>7
  <2>2. hub.up # "down" /\ hubDisk' = (IF ok THEN [hubDisk EXCEPT !.instances = Snapshot("instances")] ELSE hubDisk)
    BY <2>1 DEF FileWrites
  <2>3. ~ok => hub'.files["instances"].pending
    BY <1>2, <1>4, <1>7, <2>1
  <2>4. HubShaped /\ PinsHold /\ WorkHolds /\ FileHolds /\ PageHolds
    BY DEF TrackHolds
  <2>5. ok => hubDisk'.instances = Snapshot("instances")
    BY <1>1, <2>2 DEF DiskFields
  <2>6. ok => /\ hubDisk'.instances \notin {Damaged, Newer} /\ hubDisk'.instances.favorites = hub.favorites
              /\ DOMAIN hubDisk'.instances.instances = DOMAIN hub.inst
              /\ \A x \in DOMAIN hub.inst : hubDisk'.instances.instances[x] = Stored(hub.inst[x])
              /\ NumberPins(AfterStart(hubDisk'.instances.instances)) = Saved(hub.inst)
    BY <2>5, SnapshotIs
  <2>7. HubShaped'
    <3>1. \A c \in hub'.calls : CallIs(c)'
      BY <1>3, <1>5, TrackTypes DEF CallIs, EventCall
    <3> QED
      BY <1>3, <1>4, <1>5, <2>4, <3>1 DEF HubShaped, FilesAre
  <2>8. PinsHold'
    <3>1. RowsNumbered'
      <4>1. CASE ok
        <5>1. \A x \in DOMAIN hub.inst : IsID(x) /\ hubDisk'.instances.instances[x].kept.pin \in Nat
          <6>1. \A x \in DOMAIN hub.inst : Stored(hub.inst[x]).kept.pin = hub.inst[x].pin
            BY DEF Stored, Kept
          <6> QED
            BY <2>4, <2>6, <4>1, <6>1 DEF PinsHold, Numbered
        <5> QED
          BY <2>4, <2>6, <4>1, <5>1 DEF RowsNumbered, Rows, Readable, PinsHold, Numbered
      <4>2. CASE ~ok
        BY <2>2, <2>4, <4>2 DEF PinsHold, RowsNumbered, Rows, Readable
      <4> QED
        BY <4>1, <4>2
    <3> QED
      BY <1>3, <2>4, <3>1 DEF PinsHold
  <2>9. WorkHolds'
    <3>1. Readable' => \A id \in DOMAIN Rows' : Timely(Rows'[id], hub.now)
      <4>1. CASE ok
        <5>1. \A x \in DOMAIN hub.inst : Timely(Stored(hub.inst[x]), hub.now)
          BY <2>4 DEF WorkHolds, Timely, Stored
        <5> QED
          BY <2>6, <4>1, <5>1 DEF Rows
      <4>2. CASE ~ok
        BY <2>2, <2>4, <4>2 DEF WorkHolds, Rows, Readable
      <4> QED
        BY <4>1, <4>2
    <3> QED
      BY <1>3, <1>5, <2>4, <3>1 DEF WorkHolds, Serving
  <2>10. FileHolds'
    <3>1. CASE ok
      <4>1. FileCurrent(hubScope, hub', hubDisk')
        BY <1>3, <2>6, <3>1 DEF FileCurrent
      <4> QED
        BY <1>5, <2>6, <3>1, <4>1 DEF FileHolds, Readable
    <3>2. CASE ~ok
      BY <1>3, <1>5, <2>2, <2>3, <2>4, <3>2 DEF FileHolds, FileCurrent, Readable
    <3> QED
      BY <3>1, <3>2
  <2>11. PageHolds'
    BY <1>3, <1>5, <2>4 DEF PageHolds, Serving
  <2> QED
    BY <2>7, <2>8, <2>9, <2>10, <2>11 DEF TrackHolds
<1> QED
  BY <1>6, <1>7 DEF Files

\* So does an edit of the file while no hub runs.
LEMMA EditsTrack ==
    ASSUME HubIInv, TrackHolds, NEW data \in hubScope.files, FileEdited(data)
    PROVE  TrackHolds'
<1>1. UNCHANGED <<hub, hubPage, hubScope>> /\ hubDisk' = [hubDisk EXCEPT !.instances = data] /\ hub.up = "down"
  BY DEF FileEdited
<1>2. hubWorld'.ticks = hubWorld.ticks /\ hubWorld'.net = hubWorld.net
  BY SpentLeaves DEF FileEdited, Counters
<1>3. hubDisk'.instances = data
  BY <1>1 DEF HubIInv, HubTyped, DiskFields
<1>4. data \in {Damaged, Newer} \/ FileIsOld(data)
  BY HubAssumption DEF HubIInv, HubTyped
<1>5. HubShaped /\ PinsHold /\ WorkHolds /\ FileHolds /\ PageHolds
  BY DEF TrackHolds
<1>6. HubShaped'
  BY <1>1, <1>2, <1>5 DEF HubShaped, CallIs, EventCall
<1>7. PinsHold'
  BY <1>1, <1>3, <1>4, <1>5 DEF PinsHold, RowsNumbered, Readable, Rows, FileIsOld, RowIsOld
<1>8. WorkHolds'
  <2>1. hub.now \in Nat
    BY TrackTypes
  <2>2. SpansHold(<<>>, hub.now) /\ SpansHold(<<>>, 0)
    BY DEF SpansHold
  <2>3. ASSUME NEW row, RowIsOld(row) PROVE Timely(row, hub.now)
    <3>1. CASE row.since = Never
      BY <2>1, <2>2, <2>3, <3>1 DEF RowIsOld, Timely
    <3>2. CASE row.since = 0
      BY <2>1, <2>2, <2>3, <3>2 DEF RowIsOld, Timely, Never
    <3> QED
      BY <2>3, <3>1, <3>2 DEF RowIsOld
  <2>4. Readable' => \A id \in DOMAIN Rows' : Timely(Rows'[id], hub.now)
    BY <1>3, <1>4, <2>3 DEF Readable, Rows, FileIsOld
  <2> QED
    BY <1>1, <1>2, <1>5, <2>4 DEF WorkHolds, Serving
<1>9. FileHolds'
  BY <1>1 DEF FileHolds, FileCurrent
<1>10. PageHolds'
  BY <1>1, <1>5 DEF PageHolds, Serving
<1> QED
  BY <1>6, <1>7, <1>8, <1>9, <1>10 DEF TrackHolds

-----------------------------------------------------------------------------
(* The hub's runs, the time and the page.                                    *)

\* A file of a hub that is new.
LEMMA NewFilesAre == LET files == [f \in Files |-> NewFile] IN FilesAre(files) /\ DOMAIN files = Files
  BY DEF FilesAre, NewFile, FileFields

\* A row that a hub restores, or the page's and the API's spans once it closes.
LEMMA RestoredIsTimely ==
    ASSUME NEW row, NEW now \in Nat, now < Never, Timely(row, now)
    PROVE  Timely(Restored(row), now)
<1>1. PICK r : r = Restored(row)
  OBVIOUS
<1>2. /\ r.last = row.last /\ r.since = Never
      /\ r.spans = IF row.since # Never /\ row.last > row.since THEN Append(row.spans, <<row.since, row.last>>) ELSE row.spans
  BY <1>1, RestoredIs
<1>3. row.last \in 0..now
  BY DEF Timely
<1>4. SpansHold(r.spans, now)
  <2>1. CASE row.since = Never
    BY <1>2, <2>1 DEF Timely
  <2>2. CASE row.since # Never
    <3>1. row.since \in 0..now /\ SpansHold(row.spans, row.since)
      BY <2>2 DEF Timely
    <3>2. CASE row.last > row.since
      <4>1. SpansHold(Append(row.spans, <<row.since, row.last>>), row.last)
        BY <1>3, <3>1, <3>2, SpanFollows
      <4>2. r.spans = Append(row.spans, <<row.since, row.last>>)
        BY <1>2, <2>2, <3>2
      <4> QED
        BY <1>3, <4>1, <4>2, LaterEnd
    <3>3. CASE ~(row.last > row.since)
      <4>1. r.spans = row.spans
        BY <1>2, <3>3
      <4> QED
        BY <3>1, <4>1, LaterEnd
    <3> QED
      BY <3>2, <3>3
  <2> QED
    BY <2>1, <2>2
<1> QED
  BY <1>1, <1>2, <1>3, <1>4 DEF Timely

\* newStore keeps it.
LEMMA StartsTrack ==
    ASSUME HubIInv, TrackHolds, HubStarts
    PROVE  TrackHolds'
<1>0. HubShaped /\ PinsHold /\ WorkHolds /\ FileHolds /\ PageHolds
  BY DEF TrackHolds
<1>1. PICK file, rows, r, inst :
         /\ file = IF hubDisk.instances = Damaged THEN NoFile ELSE hubDisk.instances
         /\ rows = file.instances /\ r = [id \in DOMAIN rows |-> Restored(rows[id])] /\ inst = NumberPins(r)
  OBVIOUS
<1>2. /\ hub.up = "down" /\ hubDisk.instances # Newer
      /\ hub' = NewHub("new", inst, file.favorites, hubDisk.deliveries.order, hub.now)
      /\ UNCHANGED <<hubPage, hubScope>>
  BY <1>1 DEF HubStarts
<1>3. PICK bak : hubDisk' = [hubDisk EXCEPT !.instances = file, !.bak = bak]
  BY <1>1 DEF HubStarts
<1>4. hubDisk'.instances = file
  BY <1>3 DEF HubIInv, HubTyped, DiskFields
<1>5. hubWorld'.ticks = hubWorld.ticks /\ hubWorld'.net = hubWorld.net
  BY SpentLeaves DEF HubStarts, Counters
<1>6. /\ hub'.up = "new" /\ hub'.now = hub.now /\ hub'.inst = inst /\ hub'.favorites = file.favorites
      /\ hub'.calls = {} /\ hub'.follows = {} /\ hub'.files = [f \in Files |-> NewFile]
  BY <1>2 DEF NewHub
<1>7. hub.now \in Nat /\ hub.now < Never
  <2>1. hubScope.ticks \in Nat /\ hubScope.ticks < Never
    BY HubAssumption DEF HubIInv, HubTyped
  <2> QED
    BY <1>0, <2>1, TrackTypes DEF WorkHolds, Never
<1>8. /\ IsFiniteSet(DOMAIN rows) /\ (\A x \in DOMAIN rows : IsID(x) /\ rows[x].kept.pin \in Nat /\ Timely(rows[x], hub.now))
      /\ file \notin {Damaged, Newer}
  <2>1. CASE hubDisk.instances = Damaged
    <3>1. rows = <<>> /\ file = NoFile
      BY <1>1, <2>1 DEF NoFile
    <3>2. DOMAIN rows = {}
      BY <3>1
    <3>3. "instances" \in DOMAIN NoFile /\ "instances" \notin DOMAIN Damaged /\ "instances" \notin DOMAIN Newer
      BY DEF Damaged, Newer, NoFile
    <3> QED
      BY <3>1, <3>2, <3>3, FS_EmptySet
  <2>2. CASE hubDisk.instances # Damaged
    BY <1>0, <1>1, <1>2, <2>2 DEF PinsHold, RowsNumbered, WorkHolds, Rows, Readable
  <2> QED
    BY <2>1, <2>2
<1>9. /\ Numbered(inst) /\ Dense(inst) /\ DOMAIN inst = DOMAIN rows
      /\ \A x \in DOMAIN rows : IsInst(inst[x]) /\ BareSame(inst[x], Restored(rows[x]))
      /\ NumberPins(AfterStart(rows)) = Saved(inst)
  BY <1>1, <1>8, StartNumbers
<1>10. HubShaped'
  <2>1. FilesAre(hub'.files)
    BY <1>6, NewFilesAre
  <2> QED
    BY <1>0, <1>2, <1>5, <1>6, <2>1 DEF HubShaped, FilesAre
<1>11. PinsHold'
  BY <1>1, <1>4, <1>6, <1>8, <1>9 DEF PinsHold, RowsNumbered, Rows
<1>12. WorkHolds'
  <2>1. ASSUME NEW x \in DOMAIN inst
        PROVE  Timely(inst[x], hub.now) /\ inst[x].heard \in Nat /\ inst[x].since = Never /\ ~Working(inst[x])
    <3>1. BareSame(inst[x], Restored(rows[x])) /\ Timely(Restored(rows[x]), hub.now)
      BY <1>7, <1>8, <1>9, RestoredIsTimely
    <3>2. Restored(rows[x]).heard = Never /\ Restored(rows[x]).since = Never /\ Restored(rows[x]).conn # "connected"
      BY RestoredIs
    <3> QED
      BY <3>1, <3>2 DEF BareSame, SameInst, Timely, Working, Never
  <2>2. \A x \in DOMAIN rows : Timely(rows[x], hub.now)
    BY <1>8
  <2> QED
    <3>1. Rows' = rows
      BY <1>1, <1>4 DEF Rows
    <3>2. \A x \in DOMAIN Rows' : Timely(Rows'[x], hub'.now)
      BY <1>6, <2>2, <3>1
    <3>3. hub'.now = hubWorld'.ticks /\ hubWorld'.ticks \in 0..hubScope'.ticks
      BY <1>0, <1>2, <1>5, <1>6 DEF WorkHolds
    <3>4. ASSUME NEW x \in DOMAIN hub'.inst
          PROVE  /\ Timely(hub'.inst[x], hub'.now) /\ hub'.inst[x].heard \in Nat
                 /\ hub'.inst[x].since # Never <=> Working(hub'.inst[x])
      BY <1>6, <2>1
    <3> QED
      BY <3>2, <3>3, <3>4 DEF WorkHolds
<1>13. FileHolds'
  <2>1. FileCurrent(hubScope, hub', hubDisk')
    BY <1>1, <1>4, <1>6, <1>9 DEF FileCurrent
  <2> QED
    BY <1>2, <1>4, <1>8, <2>1 DEF FileHolds, Readable
<1>14. PageHolds'
  <2>1. ~hubPage.subscribed
    BY <1>0, <1>2 DEF PageHolds, Serving
  <2> QED
    BY <1>0, <1>2, <2>1 DEF PageHolds, PageAgrees
<1> QED
  BY <1>10, <1>11, <1>12, <1>13, <1>14 DEF TrackHolds

\* Run keeps it.
LEMMA RunsTrack ==
    ASSUME HubIInv, TrackHolds, HubRuns \/ \E id \in hub.starting : HubRunWatches(id)
    PROVE  TrackHolds'
<1>1. UNCHANGED <<hubDisk, hubPage, hubScope, hubWorld>>
  BY DEF HubRuns, HubRunWatches, Quietly
<1>2. CASE HubRuns
  <2>1. PICK s : hub' = [hub EXCEPT !.up = "running", !.starting = s]
    BY <1>2 DEF HubRuns
  <2>2. /\ HubFields \subseteq DOMAIN hub' /\ hub'.inst = hub.inst /\ hub'.favorites = hub.favorites /\ hub'.now = hub.now
        /\ hub'.up = "running" /\ hub'.calls = hub.calls /\ hub'.follows = hub.follows /\ hub'.files = hub.files
    BY <2>1, TrackTypes DEF HubFields
  <2>3. SameStore
    BY <1>1, <1>2, <2>2 DEF SameStore, HubRuns, Serving
  <2>4. FilesAre(hub'.files)
    BY <2>2 DEF TrackHolds, HubShaped, FilesAre
  <2> QED
    BY <1>1, <2>2, <2>3, <2>4, TrackTypes, NetIs, QuietTracks
<1>3. ASSUME NEW id \in hub.starting, HubRunWatches(id) PROVE TrackHolds'
  <2>1. PICK g, s : g = Watch(hub, id) /\ hub' = [g EXCEPT !.starting = s]
    BY <1>3 DEF HubRunWatches
  <2>2. /\ HubFields \subseteq DOMAIN g /\ g.inst = hub.inst /\ g.files = hub.files /\ g.up = hub.up /\ g.now = hub.now /\ g.favorites = hub.favorites
        /\ g.calls = hub.calls
    BY <2>1, TrackTypes DEF Watch, HubFields
  <2>3. \A f \in g.follows : FollowIs(f)
    BY <2>1, TrackTypes, WatchesAre
  <2>4. /\ HubFields \subseteq DOMAIN hub' /\ hub'.inst = hub.inst /\ hub'.favorites = hub.favorites /\ hub'.now = hub.now
        /\ hub'.up = hub.up /\ hub'.files = hub.files /\ hub'.calls = hub.calls /\ hub'.follows = g.follows
    BY <2>1, <2>2 DEF HubFields
  <2> QED
    BY <1>1, <2>3, <2>4, TrackTypes, StillTracks
<1> QED
  BY <1>2, <1>3

\* What a hub that stops, closes or ends leaves: nobody is served.
LEMMA NoPageIs == PageIs(NoPage) /\ ~NoPage.subscribed
<1>1. PICK q : q = NoPage.queue
  OBVIOUS
<1>2. q = <<>>
  BY <1>1 DEF NoPage
<1>3. IsLine(q) /\ DOMAIN q = {}
  <2>1. <<>> \in Seq({1})
    OBVIOUS
  <2> QED
    BY <1>2, <2>1 DEF IsLine
<1>4. PageFields \subseteq DOMAIN NoPage /\ ~NoPage.subscribed
  BY DEF NoPage, PageFields
<1> QED
  BY <1>1, <1>3, <1>4 DEF PageIs

\* The end of the instances' spans changes nothing the file or the pins have.
LEMMA EndedIs ==
    ASSUME NEW i, IsInst(i), NEW end PROVE Kept(EndSpan(i, end)) = Kept(i) /\ EndSpan(i, end).heard = i.heard
<1>1. PICK j : j = EndSpan(i, end)
  OBVIOUS
<1>2. PICK s : s = IF end > i.since THEN Append(i.spans, <<i.since, end>>) ELSE i.spans
  OBVIOUS
<1>3. j = [i EXCEPT !.spans = s, !.since = Never]
  BY <1>1, <1>2 DEF EndSpan
<1>4. SameInst(j, i) /\ j.changed = i.changed /\ j.activity = i.activity /\ j.pin = i.pin /\ j.heard = i.heard
  BY <1>3 DEF SameInst, IsInst, InstFields
<1> QED
  BY <1>1, <1>4 DEF SameInst, Kept

\* Close keeps it.
LEMMA ClosesTrack ==
    ASSUME HubIInv, TrackHolds, HubCloses
    PROVE  TrackHolds'
<1>0. HubShaped /\ PinsHold /\ WorkHolds /\ FileHolds /\ PageHolds
  BY DEF TrackHolds
<1>1. PICK working, b, files, inst :
         /\ working = {id \in DOMAIN hub.inst : hub.inst[id].since # Never} /\ b = (working # {}) /\ b \in BOOLEAN
         /\ files = Mark(hub.files, "instances", b)
         /\ inst = [id \in DOMAIN hub.inst |-> IF id \in working THEN EndSpan(hub.inst[id], hub.now) ELSE hub.inst[id]]
  OBVIOUS
<1>2. hub' = [hub EXCEPT !.up = "closing", !.files = files, !.inst = inst] /\ hub.up = "stopping"
  BY <1>1 DEF HubCloses
<1>3. UNCHANGED <<hubDisk, hubPage, hubScope, hubWorld>>
  BY DEF HubCloses, Quietly
<1>4. /\ HubFields \subseteq DOMAIN hub' /\ hub'.inst = inst /\ hub'.favorites = hub.favorites /\ hub'.now = hub.now
      /\ hub'.up = "closing" /\ hub'.calls = hub.calls /\ hub'.follows = hub.follows /\ hub'.files = files
  BY <1>2, TrackTypes DEF HubFields
<1>5. DOMAIN hub.files = Files /\ FilesAre(hub.files)
  BY DEF HubIInv, HubTyped, TrackHolds, HubShaped, FilesAre
<1>6. Marked(hub.files, files, "instances", b)
  BY <1>1, <1>5, MarkMarks DEF FilesAre, Files
<1>7. hub.now \in Nat /\ hub.now < Never
  <2>1. hubScope.ticks \in Nat /\ hubScope.ticks < Never
    BY HubAssumption DEF HubIInv, HubTyped
  <2> QED
    BY <1>0, <2>1, TrackTypes DEF WorkHolds, Never
<1>8. DOMAIN inst = DOMAIN hub.inst
  BY <1>1
<1>9. ASSUME NEW x \in DOMAIN hub.inst
      PROVE  /\ IsInst(inst[x]) /\ inst[x].pin = hub.inst[x].pin /\ Kept(inst[x]) = Kept(hub.inst[x]) /\ inst[x].heard \in Nat
             /\ Timely(inst[x], hub.now)
  <2>1. IsInst(hub.inst[x]) /\ Timely(hub.inst[x], hub.now) /\ hub.inst[x].heard \in Nat
    BY <1>0 DEF HubIInv, HubTyped, WorkHolds
  <2>2. CASE x \in working
    <3>1. inst[x] = EndSpan(hub.inst[x], hub.now) /\ hub.inst[x].since # Never
      BY <1>1, <2>2
    <3> QED
      BY <1>7, <2>1, <3>1, EndSpanIsTimely, EndSpanKeeps, EndedIs
  <2>3. CASE x \notin working
    BY <1>1, <2>1, <2>3
  <2> QED
    BY <2>2, <2>3
<1>10. HubShaped'
  <2>1. FilesAre(hub'.files)
    BY <1>4, <1>6 DEF Marked, FilesAre
  <2>2. \A c \in hub'.calls : CallIs(c)'
    BY <1>3, <1>4, TrackTypes DEF CallIs, EventCall
  <2> QED
    BY <1>0, <1>3, <1>4, <2>1, <2>2 DEF HubShaped, FilesAre
<1>11. PinsHold'
  <2>1. Numbered(inst)
    BY <1>0, <1>8, <1>9 DEF PinsHold, Numbered, IsInst, InstFields
  <2>2. Dense(inst)
    <3>1. Pinned(inst) = Pinned(hub.inst)
      BY <1>8, <1>9 DEF Pinned
    <3>2. \A x \in Pinned(hub.inst) : inst[x].pin = hub.inst[x].pin
      BY <1>9 DEF Pinned
    <3> QED
      BY <1>0, <3>1, <3>2 DEF Dense, PinsHold
  <2> QED
    BY <1>0, <1>3, <1>4, <2>1, <2>2 DEF PinsHold, RowsNumbered, Rows, Readable
<1>12. WorkHolds'
  <2>1. Rows' = Rows /\ Readable' = Readable
    BY <1>3 DEF Rows, Readable
  <2> QED
    BY <1>0, <1>3, <1>4, <1>8, <1>9, <2>1 DEF WorkHolds, Serving
<1>13. FileHolds'
  <2>1. FileCurrent(hubScope, hub, hubDisk) /\ Readable
    BY <1>0, <1>2 DEF FileHolds
  <2>2. Saved(inst) = Saved(hub.inst)
    BY <1>8, <1>9, SavedSame
  <2>3. FileCurrent(hubScope, hub', hubDisk)
    <3>1. CASE b /\ hubScope.keep
      BY <1>4, <1>6, <3>1 DEF Marked, FileCurrent
    <3>2. CASE ~hubScope.keep
      BY <3>2 DEF FileCurrent
    <3>3. CASE ~b
      BY <1>2, <1>4, <1>6, <2>1, <2>2, <3>3 DEF Marked, FileCurrent
    <3> QED
      BY <3>1, <3>2, <3>3
  <2> QED
    BY <1>3, <2>1, <2>3 DEF FileHolds, Readable
<1>14. PageHolds'
  <2>1. ~hubPage.subscribed
    BY <1>0, <1>2 DEF PageHolds, Serving
  <2> QED
    BY <1>0, <1>3, <2>1 DEF PageHolds, PageAgrees
<1> QED
  BY <1>10, <1>11, <1>12, <1>13, <1>14 DEF TrackHolds

\* The signal to stop keeps it.
LEMMA StopsTrack ==
    ASSUME HubIInv, TrackHolds, HubStops
    PROVE  TrackHolds'
<1>0. HubShaped /\ PinsHold /\ WorkHolds /\ FileHolds /\ PageHolds
  BY DEF TrackHolds
<1>1. hub.up = "running" /\ hub' = [hub EXCEPT !.up = "stopping", !.follows = CancelFollows(hub.follows)] /\ hubPage' = NoPage
  BY DEF HubStops
<1>2. UNCHANGED <<hubDisk, hubScope>> /\ hubWorld'.ticks = hubWorld.ticks /\ hubWorld'.net = hubWorld.net
  BY SpentLeaves DEF HubStops, Counters
<1>3. /\ HubFields \subseteq DOMAIN hub' /\ hub'.inst = hub.inst /\ hub'.favorites = hub.favorites /\ hub'.now = hub.now
      /\ hub'.up = "stopping" /\ hub'.calls = hub.calls /\ hub'.follows = CancelFollows(hub.follows) /\ hub'.files = hub.files
  BY <1>1, TrackTypes DEF HubFields
<1>4. HubShaped'
  <2>1. \A c \in hub'.calls : CallIs(c)'
    BY <1>2, <1>3, TrackTypes DEF CallIs, EventCall
  <2>2. \A f \in hub'.follows : FollowIs(f)
    BY <1>3, TrackTypes, FollowsAre
  <2> QED
    BY <1>0, <1>2, <1>3, <2>1, <2>2 DEF HubShaped
<1>5. PinsHold'
  BY <1>0, <1>2, <1>3 DEF PinsHold, RowsNumbered, Rows, Readable
<1>6. WorkHolds'
  <2>1. Rows' = Rows /\ Readable' = Readable
    BY <1>2 DEF Rows, Readable
  <2> QED
    BY <1>0, <1>2, <1>3, <2>1 DEF WorkHolds, Serving
<1>7. FileHolds'
  BY <1>0, <1>1, <1>2, <1>3 DEF FileHolds, FileCurrent, Readable
<1>8. PageHolds'
  BY <1>1, NoPageIs DEF PageHolds, PageAgrees
<1> QED
  BY <1>4, <1>5, <1>6, <1>7, <1>8 DEF TrackHolds

\* The process ends, by itself or killed.
LEMMA EndsTrack ==
    ASSUME HubIInv, TrackHolds, HubExits \/ HubKilled
    PROVE  TrackHolds'
<1>0. HubShaped /\ PinsHold /\ WorkHolds /\ FileHolds /\ PageHolds
  BY DEF TrackHolds
<1>1. hub' = Down /\ UNCHANGED <<hubDisk, hubScope>>
  BY DEF HubExits, HubKilled
<1>2. hubWorld'.ticks = hubWorld.ticks /\ hubWorld'.net = hubWorld.net
  BY SpentLeaves DEF HubExits, HubKilled, Counters
<1>3. /\ hub'.up = "down" /\ hub'.now = hub.now /\ hub'.inst = <<>> /\ hub'.calls = {} /\ hub'.follows = {}
      /\ hub'.files = [f \in Files |-> NewFile]
  BY <1>1 DEF Down, NewHub
<1>4. DOMAIN hub'.inst = {}
  BY <1>3
<1>5. HubShaped'
  <2>1. FilesAre(hub'.files)
    BY <1>3, NewFilesAre
  <2> QED
    BY <1>0, <1>1, <1>2, <1>3, <2>1 DEF HubShaped, FilesAre
<1>6. PinsHold'
  <2>1. Pinned(hub'.inst) = {}
    BY <1>4 DEF Pinned
  <2>2. Cardinality(Pinned(hub'.inst)) = 0
    BY <2>1, FS_EmptySet
  <2>3. Dense(hub'.inst)
    BY <2>1, <2>2 DEF Dense
  <2>4. Numbered(hub'.inst)
    BY <1>4, FS_EmptySet DEF Numbered
  <2> QED
    BY <1>0, <1>1, <2>3, <2>4 DEF PinsHold, RowsNumbered, Rows, Readable
<1>7. WorkHolds'
  <2>1. Rows' = Rows /\ Readable' = Readable
    BY <1>1 DEF Rows, Readable
  <2> QED
    BY <1>0, <1>1, <1>2, <1>3, <1>4, <2>1 DEF WorkHolds
<1>8. FileHolds'
  BY <1>3 DEF FileHolds, FileCurrent
<1>9. PageHolds'
  <2>1. PageIs(hubPage') /\ ~hubPage'.subscribed
    <3>1. CASE HubKilled
      BY <3>1, NoPageIs DEF HubKilled
    <3>2. CASE HubExits
      BY <1>0, <3>2 DEF HubExits, PageHolds, Serving
    <3> QED
      BY <3>1, <3>2
  <2> QED
    BY <2>1 DEF PageHolds, PageAgrees
<1> QED
  BY <1>5, <1>6, <1>7, <1>8, <1>9 DEF TrackHolds

\* Time and the network.
LEMMA WorldTracks ==
    ASSUME HubIInv, TrackHolds, HubTicks \/ \E u \in DOMAIN hubScope.net, a \in hubScope.answers : HubWorldTurns(u, a)
    PROVE  TrackHolds'
<1>0. HubShaped /\ PinsHold /\ WorkHolds /\ FileHolds /\ PageHolds
  BY DEF TrackHolds
<1>1. CASE HubTicks
  <2>1. hub' = [hub EXCEPT !.now = hub.now + 1] /\ UNCHANGED <<hubDisk, hubPage, hubScope>>
    BY <1>1 DEF HubTicks, Quietly
  <2>2. hubWorld' = [hubWorld EXCEPT !.ticks = hubWorld.ticks + 1] /\ hubWorld.ticks < hubScope.ticks
    BY <1>1 DEF HubTicks, Spent
  <2>3. hubWorld'.ticks = hubWorld.ticks + 1 /\ hubWorld'.net = hubWorld.net
    BY <2>2, TrackTypes DEF WorldFields
  <2>4. /\ HubFields \subseteq DOMAIN hub' /\ hub'.inst = hub.inst /\ hub'.favorites = hub.favorites /\ hub'.now = hub.now + 1
        /\ hub'.up = hub.up /\ hub'.calls = hub.calls /\ hub'.follows = hub.follows /\ hub'.files = hub.files
    BY <2>1, TrackTypes DEF HubFields
  <2>5. HubShaped'
    <3>1. \A c \in hub'.calls : CallIs(c)'
      BY <2>1, <2>4, TrackTypes DEF CallIs, EventCall
    <3> QED
      BY <1>0, <2>1, <2>3, <2>4, <3>1 DEF HubShaped
  <2>6. PinsHold'
    BY <1>0, <2>1, <2>4 DEF PinsHold, RowsNumbered, Rows, Readable
  <2>7. WorkHolds'
    <3>1. Rows' = Rows /\ Readable' = Readable
      BY <2>1 DEF Rows, Readable
    <3>2. hub.now \in Nat /\ hub.now = hubWorld.ticks /\ hubScope.ticks \in Nat
      BY <1>0, HubAssumption, TrackTypes DEF WorkHolds, HubIInv, HubTyped
    <3>3. hub'.now = hubWorld'.ticks /\ hubWorld'.ticks \in 0..hubScope'.ticks
      BY <2>1, <2>2, <2>3, <2>4, <3>2
    <3>4. \A i : Timely(i, hub.now) => Timely(i, hub.now + 1)
      BY <3>2, StaysTimely
    <3>5. Serving' <=> Serving
      BY <2>4 DEF Serving
    <3>6. \A x \in DOMAIN hub.inst : /\ Timely(hub.inst[x], hub.now + 1) /\ hub.inst[x].heard \in Nat
                                     /\ Serving => (hub.inst[x].since # Never <=> Working(hub.inst[x]))
      BY <1>0, <3>4 DEF WorkHolds
    <3>7. Readable => \A x \in DOMAIN Rows : Timely(Rows[x], hub.now + 1)
      BY <1>0, <3>4 DEF WorkHolds
    <3> QED
      BY <2>4, <3>1, <3>3, <3>5, <3>6, <3>7 DEF WorkHolds
  <2>8. FileHolds'
    BY <1>0, <2>1, <2>4 DEF FileHolds, FileCurrent, Readable
  <2>9. PageHolds'
    BY <1>0, <2>1, <2>4 DEF PageHolds, Serving
  <2> QED
    BY <2>5, <2>6, <2>7, <2>8, <2>9 DEF TrackHolds
<1>2. ASSUME NEW u \in DOMAIN hubScope.net, NEW a \in hubScope.answers, HubWorldTurns(u, a) PROVE TrackHolds'
  <2>1. PICK n : hubWorld' = [hubWorld EXCEPT !.net[u] = a, !.turns = n]
    BY <1>2 DEF HubWorldTurns
  <2>2. UNCHANGED <<hub, hubDisk, hubPage, hubScope>>
    BY <1>2 DEF HubWorldTurns, Quietly
  <2>3. hubWorld'.ticks = hubWorld.ticks /\ hubWorld'.net = [hubWorld.net EXCEPT ![u] = a]
    BY <2>1, TrackTypes DEF WorldFields
  <2>4. a = NoAnswer \/ IsID(a.id)
    BY HubAssumption DEF HubIInv, HubTyped
  <2>5. \A v \in DOMAIN hubScope.net : hubWorld'.net[v] = NoAnswer \/ IsID(hubWorld'.net[v].id)
    BY <1>0, <2>3, <2>4 DEF HubShaped, HubIInv, HubTyped
  <2>6. SameStore
    BY <1>0, <2>2, <2>3 DEF SameStore, HubShaped, Serving
  <2>7. FilesAre(hub'.files)
    BY <1>0, <2>2 DEF HubShaped, FilesAre
  <2> QED
    BY <2>2, <2>5, <2>6, <2>7, TrackTypes, QuietTracks
<1> QED
  BY <1>1, <1>2

\* The page opens its stream: what it is sent first is all there is.
LEMMA OpensTrack ==
    ASSUME HubIInv, TrackHolds, PageOpens
    PROVE  TrackHolds'
<1>0. HubShaped /\ PinsHold /\ WorkHolds /\ FileHolds /\ PageHolds
  BY DEF TrackHolds
<1>1. /\ UNCHANGED <<hub, hubDisk, hubScope>> /\ Serving
      /\ hubPage' = [subscribed |-> TRUE, queue |-> <<>>, view |-> Shown(hub.inst), favorites |-> hub.favorites]
  BY DEF PageOpens
<1>2. hubWorld'.ticks = hubWorld.ticks /\ hubWorld'.net = hubWorld.net
  BY SpentLeaves DEF PageOpens, Counters
<1>3. PICK q : q = hubPage'.queue
  OBVIOUS
<1>4. q = <<>> /\ hubPage'.view = Shown(hub.inst) /\ hubPage'.favorites = hub.favorites /\ PageFields \subseteq DOMAIN hubPage'
  BY <1>1, <1>3 DEF PageFields
<1>5. IsLine(q) /\ DOMAIN q = {}
  <2>1. <<>> \in Seq({1})
    OBVIOUS
  <2> QED
    BY <1>4, <2>1 DEF IsLine
<1>6. PageIs(hubPage')
  BY <1>3, <1>4, <1>5 DEF PageIs
<1>7. PageAgrees(hubPage', hub.inst, hub.favorites)
  BY <1>3, <1>4, <1>5 DEF PageAgrees, PageShows, PageLikes, Shown
<1>8. PageHolds'
  BY <1>1, <1>6, <1>7 DEF PageHolds, Serving
<1>9. HubShaped'
  <2>1. \A c \in hub'.calls : CallIs(c)'
    BY <1>1, TrackTypes DEF CallIs, EventCall
  <2> QED
    BY <1>0, <1>1, <1>2, <2>1 DEF HubShaped
<1>10. PinsHold'
  BY <1>0, <1>1 DEF PinsHold, RowsNumbered, Rows, Readable
<1>11. WorkHolds'
  BY <1>0, <1>1, <1>2 DEF WorkHolds, Rows, Readable, Serving
<1>12. FileHolds'
  BY <1>0, <1>1 DEF FileHolds, Readable
<1> QED
  BY <1>8, <1>9, <1>10, <1>11, <1>12 DEF TrackHolds

\* What the page has once it took the first event of its queue.
TakenFirst(p, r) ==
    /\ PageFields \subseteq DOMAIN r /\ r.subscribed = p.subscribed /\ r.queue = Tail(p.queue)
    /\ LET e == Head(p.queue)
       IN  /\ r.view = CASE e[1] = "removed" -> Restrict(p.view, DOMAIN p.view \ {e[2]})
                         [] e[1] = "instance" -> Put(p.view, e[2], e[3])
                         [] OTHER -> p.view
           /\ r.favorites = IF e[1] = "favorites" THEN e[2] ELSE p.favorites

\* The page agrees with what it took.
LEMMA TakenAgrees ==
    ASSUME NEW p, NEW r, NEW inst, NEW fav, PageIs(p), PageAgrees(p, inst, fav), p.queue # <<>>, TakenFirst(p, r)
    PROVE  PageIs(r) /\ PageAgrees(r, inst, fav)
<1>1. PICK q, t, e : q = p.queue /\ t = Tail(q) /\ e = Head(q)
  OBVIOUS
<1>2. PICK S : q \in Seq(S)
  BY <1>1 DEF PageIs, IsLine
<1>3. PICK k : k = Len(q)
  OBVIOUS
<1>4. /\ t \in Seq(S) /\ k \in Nat /\ k >= 1 /\ DOMAIN q = 1..k /\ DOMAIN t = 1..(k - 1) /\ e = q[1]
      /\ \A m \in 1..(k - 1) : t[m] = q[m + 1]
  <2>1. t \in Seq(S) /\ Len(t) = Len(q) - 1 /\ e = q[1] /\ \A i \in 1..Len(t) : t[i] = q[i + 1]
    BY <1>1, <1>2, HeadTailProperties
  <2>2. Len(q) \in Nat /\ DOMAIN q = 1..Len(q) /\ Len(q) # 0 /\ DOMAIN t = 1..Len(t)
    BY <1>1, <1>2, <2>1, LenProperties, EmptySeq
  <2> QED
    BY <1>3, <2>1, <2>2
<1>5. /\ \A m \in DOMAIN t : m \in Nat /\ m >= 1 /\ m + 1 \in DOMAIN q /\ t[m] = q[m + 1]
      /\ \A n \in DOMAIN q : n = 1 \/ (n \in Nat /\ n > 1 /\ n - 1 \in DOMAIN t /\ t[n - 1] = q[n])
      /\ 1 \in DOMAIN q /\ e = q[1]
  BY <1>4
<1>6. r.queue = t /\ PageFields \subseteq DOMAIN r /\ r.subscribed = p.subscribed
  BY <1>1 DEF TakenFirst
<1>7. e[1] \in Kinds
  BY <1>1, <1>5 DEF PageIs
<1>8. PageIs(r)
  <2>1. \A m \in DOMAIN t : t[m][1] \in Kinds
    BY <1>1, <1>5 DEF PageIs
  <2> QED
    BY <1>4, <1>6, <2>1 DEF PageIs, IsLine
<1>9. ASSUME p.subscribed, NEW id PROVE PageShows(r, inst, id)
  <2>1. PageShows(p, inst, id)
    BY <1>9 DEF PageAgrees
  <2>2. ASSUME \A m \in DOMAIN t : ~Tells(t[m], id)
        PROVE  (id \in DOMAIN r.view <=> id \in DOMAIN inst) /\ (id \in DOMAIN inst => r.view[id] = SentToPage(inst[id]))
    <3>1. CASE Tells(e, id)
      <4>1. ASSUME NEW m \in DOMAIN q, m > 1 PROVE ~Tells(q[m], id)
        BY <1>5, <2>2, <4>1
      <4>2. Says(e, id, inst)
        BY <1>1, <1>5, <2>1, <3>1, <4>1 DEF PageShows
      <4>3. CASE e[1] = "removed"
        <5>1. r.view = Restrict(p.view, DOMAIN p.view \ {id})
          BY <1>1, <3>1, <4>3 DEF TakenFirst, Tells
        <5>2. id \notin DOMAIN r.view
          BY <5>1 DEF Restrict
        <5> QED
          BY <4>2, <4>3, <5>2 DEF Says
      <4>4. CASE e[1] = "instance"
        <5>1. r.view = Put(p.view, id, e[3])
          BY <1>1, <3>1, <4>4 DEF TakenFirst, Tells
        <5>2. id \in DOMAIN r.view /\ r.view[id] = e[3]
          BY <5>1 DEF Put
        <5> QED
          BY <4>2, <4>4, <5>2 DEF Says
      <4> QED
        BY <3>1, <4>3, <4>4 DEF Tells
    <3>2. CASE ~Tells(e, id)
      <4>1. \A m \in DOMAIN q : ~Tells(q[m], id)
        BY <1>5, <2>2, <3>2
      <4>2. (id \in DOMAIN p.view <=> id \in DOMAIN inst) /\ (id \in DOMAIN inst => p.view[id] = SentToPage(inst[id]))
        BY <1>1, <2>1, <4>1 DEF PageShows
      <4>3. (id \in DOMAIN r.view <=> id \in DOMAIN p.view) /\ (id \in DOMAIN p.view => r.view[id] = p.view[id])
        <5>1. CASE e[1] = "removed"
          <6>1. r.view = Restrict(p.view, DOMAIN p.view \ {e[2]}) /\ e[2] # id
            BY <1>1, <3>2, <5>1 DEF TakenFirst, Tells
          <6> QED
            BY <6>1 DEF Restrict
        <5>2. CASE e[1] = "instance"
          <6>1. r.view = Put(p.view, e[2], e[3]) /\ e[2] # id
            BY <1>1, <3>2, <5>2 DEF TakenFirst, Tells
          <6> QED
            BY <6>1 DEF Put
        <5>3. CASE e[1] = "favorites"
          <6>1. r.view = p.view
            BY <1>1, <5>3 DEF TakenFirst
          <6> QED
            BY <6>1
        <5> QED
          BY <1>7, <5>1, <5>2, <5>3 DEF Kinds
      <4> QED
        BY <4>2, <4>3
    <3> QED
      BY <3>1, <3>2
  <2>3. ASSUME NEW n \in DOMAIN t, Tells(t[n], id), \A m \in DOMAIN t : m > n => ~Tells(t[m], id)
        PROVE  Says(t[n], id, inst)
    <3>1. n + 1 \in DOMAIN q /\ t[n] = q[n + 1] /\ n \in Nat /\ n >= 1
      BY <1>5
    <3>2. ASSUME NEW m \in DOMAIN q, m > n + 1 PROVE ~Tells(q[m], id)
      <4>1. m # 1
        BY <3>1, <3>2
      <4>2. m \in Nat /\ m - 1 \in DOMAIN t /\ t[m - 1] = q[m]
        BY <1>5, <4>1
      <4>3. m - 1 > n
        BY <3>1, <3>2, <4>2
      <4> QED
        BY <2>3, <4>2, <4>3
    <3> QED
      BY <1>1, <2>1, <2>3, <3>1, <3>2 DEF PageShows
  <2> QED
    BY <1>6, <2>2, <2>3 DEF PageShows
<1>10. ASSUME p.subscribed PROVE PageLikes(r, fav)
  <2>1. PageLikes(p, fav)
    BY <1>10 DEF PageAgrees
  <2>2. ASSUME \A m \in DOMAIN t : ~Likes(t[m]) PROVE r.favorites = fav
    <3>1. CASE Likes(e)
      <4>1. ASSUME NEW m \in DOMAIN q, m > 1 PROVE ~Likes(q[m])
        BY <1>5, <2>2, <4>1
      <4>2. e[2] = fav
        BY <1>1, <1>5, <2>1, <3>1, <4>1 DEF PageLikes
      <4> QED
        BY <1>1, <3>1, <4>2 DEF TakenFirst, Likes
    <3>2. CASE ~Likes(e)
      <4>1. \A m \in DOMAIN q : ~Likes(q[m])
        BY <1>5, <2>2, <3>2
      <4>2. p.favorites = fav
        BY <1>1, <2>1, <4>1 DEF PageLikes
      <4> QED
        BY <1>1, <3>2, <4>2 DEF TakenFirst, Likes
    <3> QED
      BY <3>1, <3>2
  <2>3. ASSUME NEW n \in DOMAIN t, Likes(t[n]), \A m \in DOMAIN t : m > n => ~Likes(t[m])
        PROVE  t[n][2] = fav
    <3>1. n + 1 \in DOMAIN q /\ t[n] = q[n + 1] /\ n \in Nat /\ n >= 1
      BY <1>5
    <3>2. ASSUME NEW m \in DOMAIN q, m > n + 1 PROVE ~Likes(q[m])
      <4>1. m # 1
        BY <3>1, <3>2
      <4>2. m \in Nat /\ m - 1 \in DOMAIN t /\ t[m - 1] = q[m]
        BY <1>5, <4>1
      <4>3. m - 1 > n
        BY <3>1, <3>2, <4>2
      <4> QED
        BY <2>3, <4>2, <4>3
    <3> QED
      BY <1>1, <2>1, <2>3, <3>1, <3>2 DEF PageLikes
  <2> QED
    BY <1>6, <2>2, <2>3 DEF PageLikes
<1> QED
  BY <1>6, <1>8, <1>9, <1>10 DEF PageAgrees

\* A page that takes an event keeps it.
LEMMA TakesTrack ==
    ASSUME HubIInv, TrackHolds, PageTakes
    PROVE  TrackHolds'
<1>0. HubShaped /\ PinsHold /\ WorkHolds /\ FileHolds /\ PageHolds
  BY DEF TrackHolds
<1>1. UNCHANGED <<hub, hubDisk, hubWorld, hubScope>> /\ hubPage.queue # <<>>
  BY DEF PageTakes
<1>2. PICK e, p : e = Head(hubPage.queue) /\ p = [hubPage EXCEPT !.queue = Tail(hubPage.queue)]
  OBVIOUS
<1>3. e[1] \in Kinds
  <2>1. PICK q : q = hubPage.queue
    OBVIOUS
  <2>2. PICK S : q \in Seq(S)
    BY <1>0, <2>1 DEF PageHolds, PageIs, IsLine
  <2>3. e = q[1] /\ 1 \in DOMAIN q
    <3>1. Len(q) \in Nat /\ DOMAIN q = 1..Len(q) /\ Len(q) # 0
      BY <1>1, <2>1, <2>2, LenProperties, EmptySeq
    <3>2. e = q[1]
      BY <1>1, <1>2, <2>1, <2>2, HeadTailProperties
    <3> QED
      BY <3>1, <3>2
  <2> QED
    BY <1>0, <2>1, <2>3 DEF PageHolds, PageIs
<1>4. hubPage' = CASE e[1] = "removed" -> [p EXCEPT !.view = Restrict(p.view, DOMAIN p.view \ {e[2]})]
                   [] e[1] = "favorites" -> [p EXCEPT !.favorites = e[2]]
                   [] e[1] = "instance" -> [p EXCEPT !.view = Put(p.view, e[2], e[3])]
  BY <1>2 DEF PageTakes
<1>5. PageFields \subseteq DOMAIN hubPage
  BY <1>0 DEF PageHolds, PageIs
<1>6. PageFields \subseteq DOMAIN p /\ p.subscribed = hubPage.subscribed /\ p.queue = Tail(hubPage.queue) /\ p.view = hubPage.view /\ p.favorites = hubPage.favorites
  BY <1>2, <1>5 DEF PageFields
<1>7. TakenFirst(hubPage, hubPage')
  <2>1. CASE e[1] = "removed"
    <3>1. PICK v : v = Restrict(p.view, DOMAIN p.view \ {e[2]})
      OBVIOUS
    <3>2. hubPage' = [p EXCEPT !.view = v]
      BY <1>4, <2>1, <3>1
    <3> QED
      BY <1>2, <1>6, <2>1, <3>1, <3>2 DEF TakenFirst, PageFields
  <2>2. CASE e[1] = "favorites"
    <3>1. hubPage' = [p EXCEPT !.favorites = e[2]]
      BY <1>4, <2>2
    <3> QED
      BY <1>2, <1>6, <2>2, <3>1 DEF TakenFirst, PageFields
  <2>3. CASE e[1] = "instance"
    <3>1. PICK v : v = Put(p.view, e[2], e[3])
      OBVIOUS
    <3>2. hubPage' = [p EXCEPT !.view = v]
      BY <1>4, <2>3, <3>1
    <3> QED
      BY <1>2, <1>6, <2>3, <3>1, <3>2 DEF TakenFirst, PageFields
  <2> QED
    BY <1>3, <2>1, <2>2, <2>3 DEF Kinds
<1>8. PageIs(hubPage') /\ PageAgrees(hubPage', hub.inst, hub.favorites) /\ hubPage'.subscribed = hubPage.subscribed
  BY <1>0, <1>1, <1>7, TakenAgrees DEF PageHolds, TakenFirst
<1>9. PageHolds'
  BY <1>0, <1>1, <1>8 DEF PageHolds, Serving
<1>10. HubShaped'
  <2>1. \A c \in hub'.calls : CallIs(c)'
    BY <1>1, TrackTypes DEF CallIs, EventCall
  <2> QED
    BY <1>0, <1>1, <2>1 DEF HubShaped
<1>11. PinsHold'
  BY <1>0, <1>1 DEF PinsHold, RowsNumbered, Rows, Readable
<1>12. WorkHolds'
  BY <1>0, <1>1 DEF WorkHolds, Rows, Readable, Serving
<1>13. FileHolds'
  BY <1>0, <1>1 DEF FileHolds, Readable
<1> QED
  BY <1>9, <1>10, <1>11, <1>12, <1>13 DEF TrackHolds

\* It holds of a hub that was never started.
LEMMA TrackBegins == HubInit => TrackHolds
<1> SUFFICES ASSUME HubInit PROVE TrackHolds
  OBVIOUS
<1>1. /\ hubScope \in HubScopes /\ hub = NewHub(hubScope.up, <<>>, "", <<>>, 0) /\ hubDisk.instances = NoFile /\ hubPage = NoPage
      /\ hubWorld.net = hubScope.net /\ hubWorld.ticks = 0
  BY DEF HubInit
<1>2. /\ hubScope.up \in {"new", "running", "down"} /\ hubScope.ticks \in Nat
      /\ \A a \in Range(hubScope.net) \cup hubScope.answers : a = NoAnswer \/ IsID(a.id)
  BY <1>1, HubAssumption
<1>3. /\ hub.up = hubScope.up /\ hub.inst = <<>> /\ hub.calls = {} /\ hub.follows = {} /\ hub.now = 0 /\ hub.favorites = ""
      /\ hub.files = [f \in Files |-> NewFile]
  BY <1>1 DEF NewHub
<1>4. DOMAIN <<>> = {}
  OBVIOUS
<1>5. NoFile \notin {Damaged, Newer} /\ NoFile.instances = <<>> /\ NoFile.favorites = ""
  <2>1. "instances" \in DOMAIN NoFile /\ "instances" \notin DOMAIN Damaged /\ "instances" \notin DOMAIN Newer
    BY DEF Damaged, Newer, NoFile
  <2> QED
    BY <2>1 DEF NoFile
<1>6. Readable /\ Rows = <<>>
  BY <1>1, <1>5 DEF Readable, Rows
<1>7. HubShaped
  <2>1. FilesAre(hub.files)
    BY <1>3, NewFilesAre
  <2>2. \A u \in DOMAIN hubScope.net : hubWorld.net[u] = NoAnswer \/ IsID(hubWorld.net[u].id)
    BY <1>1, <1>2 DEF Range
  <2> QED
    BY <1>2, <1>3, <2>1, <2>2 DEF HubShaped, FilesAre
<1>8. PinsHold
  <2>1. Numbered(<<>>)
    BY <1>4, FS_EmptySet DEF Numbered
  <2>2. Dense(<<>>)
    <3>1. Pinned(<<>>) = {}
      BY <1>4 DEF Pinned
    <3>2. Cardinality({}) = 0
      BY FS_EmptySet
    <3> QED
      BY <3>1, <3>2 DEF Dense
  <2> QED
    BY <1>3, <1>4, <1>6, <2>1, <2>2, FS_EmptySet DEF PinsHold, RowsNumbered
<1>9. WorkHolds
  <2>1. DOMAIN hub.inst = {} /\ DOMAIN Rows = {}
    BY <1>3, <1>4, <1>6
  <2>2. hub.now = hubWorld.ticks /\ hubWorld.ticks \in 0..hubScope.ticks
    <3>1. PICK t : t = hubScope.ticks /\ t \in Nat
      BY <1>2
    <3>2. 0 \in 0..t
      BY <3>1
    <3>3. hub.now = 0 /\ hubWorld.ticks = 0
      BY <1>1, <1>3
    <3> QED
      BY <3>1, <3>2, <3>3
  <2> QED
    BY <2>1, <2>2 DEF WorkHolds
<1>10. FileHolds
  <2>1. NumberPins(AfterStart(<<>>)) = Saved(<<>>)
    <3>1. PICK e : e = <<>> /\ DOMAIN e = {}
      BY <1>4
    <3>2. PICK s : s = AfterStart(e)
      OBVIOUS
    <3>3. DOMAIN s = {}
      BY <3>1, <3>2 DEF AfterStart
    <3> QED
      BY <3>1, <3>2, <3>3 DEF NumberPins, Saved
  <2> QED
    BY <1>1, <1>3, <1>5, <1>6, <2>1 DEF FileHolds, FileCurrent
<1>11. PageHolds
  BY <1>1, NoPageIs DEF PageHolds, PageAgrees
<1> QED
  BY <1>7, <1>8, <1>9, <1>10, <1>11 DEF TrackHolds

\* It is kept by every step of the hub.
LEMMA TrackNext == HubIInv /\ TrackHolds /\ HubNext => TrackHolds'
<1> SUFFICES ASSUME HubIInv, TrackHolds, HubNext PROVE TrackHolds'
  OBVIOUS
<1>1. CASE HubFollows
  <2>1. PICK f \in hub.follows : FollowGets(f) \/ FollowReads(f) \/ FollowFails(f) \/ FollowFailed(f) \/ FollowRetries(f)
    BY <1>1 DEF HubFollows
  <2>2. CASE FollowGets(f) \/ FollowFails(f) \/ FollowRetries(f)
    BY <2>2, FollowsTrack
  <2>3. CASE f.id \in DOMAIN hub.inst /\ (FollowReads(f) \/ FollowFailed(f))
    BY <2>3, SummariesTrack
  <2>4. CASE f.id \notin DOMAIN hub.inst /\ (FollowReads(f) \/ FollowFailed(f))
    BY <2>4, FollowsTrack
  <2> QED
    BY <2>1, <2>2, <2>3, <2>4
<1>2. CASE HubHandles
  <2>1. PICK c \in hub.calls : \/ HubUpserts(c) \/ HubStopped(c) \/ HubHears(c) \/ HubWatches(c) \/ HubUnwatches(c)
                               \/ AddChecks(c) \/ AddUpdates(c) \/ HubForgets(c)
    BY <1>2 DEF HubHandles
  <2>2. CASE HubUpserts(c) \/ HubStopped(c) \/ HubHears(c) \/ AddUpdates(c)
    BY <2>2, HandlersTrack
  <2>3. CASE HubWatches(c) \/ HubUnwatches(c) \/ AddChecks(c)
    BY <2>3, WatchesTrack
  <2>4. CASE HubForgets(c)
    BY <2>4, ForgetsTracks
  <2> QED
    BY <2>1, <2>2, <2>3, <2>4
<1>3. CASE HubAsked
  <2>1. CASE \E d \in DOMAIN hubScope.mail : Receives(d)
    BY <2>1, ReceivesTracks
  <2>2. CASE \E u \in DOMAIN hubScope.net : HubAdds(u)
    BY <2>2, RequestsTrack
  <2>3. CASE \E id \in DOMAIN hub.inst : HubRemoves(id) \/ HubProxies(id)
    BY <2>3, RequestsTrack
  <2>4. CASE \E id \in DOMAIN hub.inst : \E p \in hubScope.patch : HubPatches(id, p)
    BY <2>4, PatchesTrack
  <2>5. CASE \E ids \in hubScope.orders : HubSetsPins(ids)
    BY <2>5, SetsPinsTracks
  <2>6. CASE \E v \in hubScope.favorites : HubSetsFavorites(v)
    BY <2>6, SetsFavoritesTracks
  <2> QED
    BY <1>3, <2>1, <2>2, <2>3, <2>4, <2>5, <2>6 DEF HubAsked
<1>4. CASE HubKeeps
  BY <1>4, FilesTrack, EditsTrack DEF HubKeeps
<1>5. CASE HubLives
  BY <1>5, StartsTrack, RunsTrack, StopsTrack, ClosesTrack, EndsTrack DEF HubLives
<1>6. CASE PageOpens \/ PageTakes
  BY <1>6, OpensTrack, TakesTrack
<1>7. CASE HubTicks \/ \E u \in DOMAIN hubScope.net, a \in hubScope.answers : HubWorldTurns(u, a)
  BY <1>7, WorldTracks
<1> QED
  BY <1>1, <1>2, <1>3, <1>4, <1>5, <1>6, <1>7 DEF HubNext

\* A step that changes nothing keeps it.
LEMMA TrackStutters == HubIInv /\ TrackHolds /\ UNCHANGED hubVars => TrackHolds'
<1> SUFFICES ASSUME HubIInv, TrackHolds, UNCHANGED hubVars PROVE TrackHolds'
  OBVIOUS
<1>1. UNCHANGED <<hub, hubDisk, hubPage, hubWorld, hubScope>>
  BY DEF hubVars
<1>2. HubShaped /\ PinsHold /\ WorkHolds /\ FileHolds /\ PageHolds
  BY DEF TrackHolds
<1>3. HubShaped'
  <2>1. \A c \in hub'.calls : CallIs(c)'
    BY <1>1, TrackTypes DEF CallIs, EventCall
  <2> QED
    BY <1>1, <1>2, <2>1 DEF HubShaped
<1>4. PinsHold'
  BY <1>1, <1>2 DEF PinsHold, RowsNumbered, Rows, Readable
<1>5. WorkHolds'
  BY <1>1, <1>2 DEF WorkHolds, Rows, Readable, Serving
<1>6. FileHolds'
  BY <1>1, <1>2 DEF FileHolds, Readable
<1>7. PageHolds'
  BY <1>1, <1>2 DEF PageHolds, Serving
<1> QED
  BY <1>3, <1>4, <1>5, <1>6, <1>7 DEF TrackHolds

\* What the page has of the instances is a map, whatever it took.
IsMap(v) == v = [x \in DOMAIN v |-> v[x]]
HubViewHolds == IsMap(hubPage.view)

\* What the page is told waits: it shows what it showed.
LEMMA NotifyShows ==
    ASSUME NEW p, PageIs(p), NEW es
    PROVE  Notify(p, es).view = p.view
<1>1. PageFields \subseteq DOMAIN p
  BY DEF PageIs
<1>2. PICK q, t : q = p.queue \o es /\ t = SubSeq(q, 1, hubScope.cap)
  OBVIOUS
<1>3. Notify(p, es) \in {p, [p EXCEPT !.queue = q], [p EXCEPT !.subscribed = FALSE, !.queue = t]}
  BY <1>2 DEF Notify
<1> QED
  BY <1>1, <1>3 DEF PageFields

\* An update tells the page and no more.
LEMMA UpdateShows ==
    ASSUME PageIs(hubPage), NEW id, NEW to, NEW calls, NEW follows, Update(id, to, calls, follows)
    PROVE  hubPage'.view = hubPage.view
<1>1. PICK es : hubPage' = Notify(hubPage, es)
  BY DEF Update
<1> QED
  BY <1>1, NotifyShows

\* Only a page that opens, takes an event or is cut off changes what it shows.
LEMMA ViewNext == HubIInv /\ TrackHolds /\ HubViewHolds /\ [HubNext]_hubVars => HubViewHolds'
<1> SUFFICES ASSUME TrackHolds, HubViewHolds, [HubNext]_hubVars PROVE HubViewHolds'
  OBVIOUS
<1>1. PageIs(hubPage)
  BY DEF TrackHolds, PageHolds
<1>2. CASE UNCHANGED hubPage
  BY <1>2 DEF HubViewHolds
<1>3. CASE hubPage'.view = hubPage.view
  BY <1>3 DEF HubViewHolds
<1>4. CASE hubPage' = NoPage
  <2>1. PICK e : e = <<>> /\ DOMAIN e = {}
    OBVIOUS
  <2>2. hubPage'.view = e
    BY <1>4, <2>1 DEF NoPage
  <2>3. IsMap(e)
    BY <2>1 DEF IsMap
  <2> QED
    BY <2>2, <2>3 DEF HubViewHolds
<1>5. CASE HubFollows
  <2>1. PICK f \in hub.follows : FollowGets(f) \/ FollowReads(f) \/ FollowFails(f) \/ FollowFailed(f) \/ FollowRetries(f)
    BY <1>5 DEF HubFollows
  <2>2. CASE FollowGets(f) \/ FollowFails(f) \/ FollowRetries(f)
    BY <1>2, <2>2 DEF FollowGets, FollowFails, FollowRetries, Quietly
  <2>3. CASE FollowReads(f)
    <3>1. UNCHANGED hubPage \/ \E to, calls, follows : Update(f.id, to, calls, follows)
      BY <2>3 DEF FollowReads
    <3> QED
      BY <1>1, <1>2, <1>3, <3>1, UpdateShows
  <2>4. CASE FollowFailed(f)
    <3>1. UNCHANGED hubPage \/ \E to, calls, follows : Update(f.id, to, calls, follows)
      BY <2>4 DEF FollowFailed
    <3> QED
      BY <1>1, <1>2, <1>3, <3>1, UpdateShows
  <2> QED
    BY <2>1, <2>2, <2>3, <2>4
<1>6. CASE HubHandles
  <2>1. PICK c \in hub.calls : \/ HubUpserts(c) \/ HubStopped(c) \/ HubHears(c) \/ HubWatches(c) \/ HubUnwatches(c)
                               \/ AddChecks(c) \/ AddUpdates(c) \/ HubForgets(c)
    BY <1>6 DEF HubHandles
  <2>2. CASE HubWatches(c) \/ HubUnwatches(c) \/ AddChecks(c)
    BY <1>2, <2>2 DEF HubWatches, HubUnwatches, AddChecks, Quietly
  <2>3. CASE HubUpserts(c)
    BY <1>1, <1>3, <2>3, UpdateShows DEF HubUpserts
  <2>4. CASE HubStopped(c)
    <3>1. UNCHANGED hubPage \/ \E to, calls, follows : Update(c.id, to, calls, follows)
      BY <2>4 DEF HubStopped
    <3> QED
      BY <1>1, <1>2, <1>3, <3>1, UpdateShows
  <2>5. CASE HubHears(c)
    <3>1. UNCHANGED hubPage \/ \E to, calls, follows : Update(c.id, to, calls, follows)
      BY <2>5 DEF HubHears
    <3> QED
      BY <1>1, <1>2, <1>3, <3>1, UpdateShows
  <2>6. CASE AddUpdates(c)
    BY <1>1, <1>3, <2>6, UpdateShows DEF AddUpdates
  <2>7. CASE HubForgets(c)
    <3>1. UNCHANGED hubPage \/ \E es : hubPage' = Notify(hubPage, es)
      BY <2>7 DEF HubForgets
    <3> QED
      BY <1>1, <1>2, <1>3, <3>1, NotifyShows
  <2> QED
    BY <2>1, <2>2, <2>3, <2>4, <2>5, <2>6, <2>7
<1>7. CASE HubAsked
  <2>1. CASE \E d \in DOMAIN hubScope.mail : Receives(d)
    BY <1>2, <2>1 DEF Receives, Quietly
  <2>2. CASE \E u \in DOMAIN hubScope.net : HubAdds(u)
    BY <1>2, <2>2 DEF HubAdds, Quietly
  <2>3. CASE \E id \in DOMAIN hub.inst : HubRemoves(id) \/ HubProxies(id)
    BY <1>2, <2>3 DEF HubRemoves, HubProxies, Quietly
  <2>4. CASE \E id \in DOMAIN hub.inst : \E p \in hubScope.patch : HubPatches(id, p)
    BY <1>1, <1>3, <2>4, UpdateShows DEF HubPatches
  <2>5. CASE \E ids \in hubScope.orders : HubSetsPins(ids)
    <3>1. UNCHANGED hubPage \/ \E es : hubPage' = Notify(hubPage, es)
      BY <2>5 DEF HubSetsPins
    <3> QED
      BY <1>1, <1>2, <1>3, <3>1, NotifyShows
  <2>6. CASE \E v \in hubScope.favorites : HubSetsFavorites(v)
    <3>1. \E es : hubPage' = Notify(hubPage, es)
      BY <2>6 DEF HubSetsFavorites
    <3> QED
      BY <1>1, <1>3, <3>1, NotifyShows
  <2> QED
    BY <1>7, <2>1, <2>2, <2>3, <2>4, <2>5, <2>6 DEF HubAsked
<1>8. CASE HubKeeps
  BY <1>2, <1>8 DEF HubKeeps, FileBegins, FileWrites, FileEdited, Quietly
<1>9. CASE HubLives
  BY <1>2, <1>4, <1>9 DEF HubLives, HubStarts, HubRuns, HubRunWatches, HubStops, HubCloses, HubExits, HubKilled, Quietly
<1>10. CASE PageOpens
  <2>1. hubPage'.view = Shown(hub.inst)
    BY <1>10 DEF PageOpens
  <2>2. IsMap(Shown(hub.inst))
    BY DEF IsMap, Shown
  <2> QED
    BY <2>1, <2>2 DEF HubViewHolds
<1>11. CASE PageTakes
  <2>1. PICK e, p, v : e = Head(hubPage.queue) /\ p = [hubPage EXCEPT !.queue = Tail(hubPage.queue)] /\ v = hubPage.view
    OBVIOUS
  <2>2. PageFields \subseteq DOMAIN hubPage
    BY <1>1 DEF PageIs
  <2>3. PageFields \subseteq DOMAIN p /\ p.view = v
    BY <2>1, <2>2 DEF PageFields
  <2>4. PICK gone, kept : gone = Restrict(v, DOMAIN v \ {e[2]}) /\ kept = Put(v, e[2], e[3])
    OBVIOUS
  <2>5. e[1] \in Kinds
    <3>1. PICK q : q = hubPage.queue
      OBVIOUS
    <3>2. PICK S : q \in Seq(S)
      BY <1>1, <3>1 DEF PageIs, IsLine
    <3>3. q # <<>>
      BY <1>11, <3>1 DEF PageTakes
    <3>4. e = q[1] /\ 1 \in DOMAIN q
      <4>1. Len(q) \in Nat /\ DOMAIN q = 1..Len(q) /\ Len(q) # 0
        BY <3>2, <3>3, LenProperties, EmptySeq
      <4>2. e = q[1]
        BY <2>1, <3>1, <3>2, <3>3, HeadTailProperties
      <4> QED
        BY <4>1, <4>2
    <3> QED
      BY <1>1, <3>1, <3>4 DEF PageIs
  <2>6. hubPage' = CASE e[1] = "removed" -> [p EXCEPT !.view = gone]
                     [] e[1] = "favorites" -> [p EXCEPT !.favorites = e[2]]
                     [] e[1] = "instance" -> [p EXCEPT !.view = kept]
    BY <1>11, <2>1, <2>3, <2>4 DEF PageTakes
  <2>7. hubPage' \in {[p EXCEPT !.view = gone], [p EXCEPT !.favorites = e[2]], [p EXCEPT !.view = kept]}
    BY <2>5, <2>6 DEF Kinds
  <2>8. hubPage'.view \in {gone, v, kept}
    BY <2>3, <2>7 DEF PageFields
  <2>9. IsMap(gone) /\ IsMap(kept) /\ IsMap(v)
    BY <2>1, <2>4 DEF IsMap, Restrict, Put, HubViewHolds
  <2> QED
    BY <2>8, <2>9 DEF HubViewHolds
<1>12. CASE HubTicks \/ \E u \in DOMAIN hubScope.net, a \in hubScope.answers : HubWorldTurns(u, a)
  BY <1>2, <1>12 DEF HubTicks, HubWorldTurns, Quietly
<1>13. CASE UNCHANGED hubVars
  BY <1>2, <1>13 DEF hubVars
<1> QED
  BY <1>5, <1>6, <1>7, <1>8, <1>9, <1>10, <1>11, <1>12, <1>13 DEF HubNext

\* What the invariant shows of the pages, the pins, the spans and the file.
LEMMA TrackShows ==
    HubIInv /\ TrackHolds /\ HubViewHolds => HubPageIsCurrent /\ HubPinsAreDense /\ HubWorkIsSeen /\ HubFileIsCurrent
<1> SUFFICES ASSUME HubIInv, TrackHolds, HubViewHolds PROVE HubPageIsCurrent /\ HubPinsAreDense /\ HubWorkIsSeen /\ HubFileIsCurrent
  OBVIOUS
<1>1. HubShaped /\ PinsHold /\ WorkHolds /\ FileHolds /\ PageHolds
  BY DEF TrackHolds
<1>2. ASSUME hubPage.subscribed, hubPage.queue = <<>> PROVE hubPage.view = Shown(hub.inst) /\ hubPage.favorites = hub.favorites
  <2>1. PICK p, v, inst : p = hubPage /\ v = p.view /\ inst = hub.inst
    OBVIOUS
  <2>2. DOMAIN p.queue = {}
    BY <1>2, <2>1
  <2>3. (\A id : PageShows(p, inst, id)) /\ PageLikes(p, hub.favorites)
    BY <1>1, <1>2, <2>1 DEF PageHolds, PageAgrees
  <2>4. p.favorites = hub.favorites
    BY <2>2, <2>3 DEF PageLikes
  <2>5. ASSUME NEW id PROVE (id \in DOMAIN v <=> id \in DOMAIN inst) /\ (id \in DOMAIN inst => v[id] = SentToPage(inst[id]))
    BY <2>1, <2>2, <2>3 DEF PageShows
  <2>6. DOMAIN v = DOMAIN inst
    BY <2>5
  <2>7. v = [x \in DOMAIN v |-> v[x]]
    BY <2>1 DEF HubViewHolds, IsMap
  <2>8. v = Shown(inst)
    BY <2>5, <2>6, <2>7 DEF Shown
  <2> QED
    BY <2>1, <2>4, <2>8
<1>3. HubPageIsCurrent
  BY <1>2 DEF HubPageIsCurrent
<1>4. HubPinsAreDense
  BY <1>1 DEF HubPinsAreDense, PinsHold, Dense
<1>5. HubWorkIsSeen
  <2>1. ASSUME NEW id \in DOMAIN hub.inst
        PROVE  LET i == hub.inst[id]
               IN  /\ hub.up \in {"new", "running"} => (i.since # Never <=> Working(i))
                   /\ \A n \in DOMAIN i.spans : i.spans[n][1] < i.spans[n][2] /\ i.spans[n][2] <= hub.now
                   /\ \A n \in 2..Len(i.spans) : i.spans[n - 1][2] <= i.spans[n][1]
    <3>1. PICK i, s, end, now : i = hub.inst[id] /\ s = i.spans /\ now = hub.now /\ end = IF i.since = Never THEN now ELSE i.since
      OBVIOUS
    <3>2. Timely(i, now) /\ (Serving => (i.since # Never <=> Working(i)))
      BY <1>1, <3>1 DEF WorkHolds
    <3>3. now \in Nat
      BY <3>1, TrackTypes
    <3>4. SpansHold(s, end) /\ end \in Nat /\ end <= now
      BY <3>1, <3>2, <3>3 DEF Timely
    <3>5. /\ s \in Seq(Nat \X Nat)
          /\ \A n \in DOMAIN s : s[n][1] < s[n][2] /\ s[n][2] <= end
          /\ \A n \in 2..Len(s) : s[n - 1][2] <= s[n][1]
      BY <3>4 DEF SpansHold
    <3>6. ASSUME NEW n \in DOMAIN s PROVE s[n][2] <= now
      <4>1. s[n] \in Nat \X Nat
        BY <3>5
      <4>2. s[n][2] \in Nat
        BY <4>1
      <4>3. s[n][2] <= end
        BY <3>5
      <4> QED
        BY <3>3, <3>4, <4>2, <4>3
    <3>7. hub.up \in {"new", "running"} => (i.since # Never <=> Working(i))
      BY <3>2 DEF Serving
    <3> QED
      BY <3>1, <3>5, <3>6, <3>7
  <2> QED
    BY <2>1 DEF HubWorkIsSeen
<1>6. HubFileIsCurrent
  <2>1. AfterStart(Snapshot("instances").instances) = Saved(hub.inst)
    <3>1. PICK rows : rows = Snapshot("instances").instances
      OBVIOUS
    <3>2. rows = [id \in DOMAIN hub.inst |-> Stored(hub.inst[id])]
      BY <3>1 DEF Snapshot
    <3>3. DOMAIN rows = DOMAIN hub.inst /\ \A x \in DOMAIN hub.inst : rows[x] = Stored(hub.inst[x])
      BY <3>2
    <3>4. ASSUME NEW x \in DOMAIN hub.inst PROVE Kept(Restored(rows[x])) = KeptAgain(Kept(hub.inst[x]))
      <4>1. rows[x].kept = Kept(hub.inst[x])
        <5>1. PICK i, k : i = hub.inst[x] /\ k = Kept(i)
          OBVIOUS
        <5>2. rows[x] = [kept |-> k, last |-> i.last, since |-> i.since, spans |-> i.spans]
          BY <3>3, <5>1 DEF Stored
        <5> QED
          BY <5>1, <5>2
      <4> QED
        BY <4>1, RestoredIs
    <3>5. AfterStart(rows) = Saved(hub.inst)
      BY <3>3, <3>4 DEF AfterStart, Saved
    <3> QED
      BY <3>1, <3>5
  <2> QED
    BY <1>1, <2>1 DEF HubFileIsCurrent, FileHolds, FileCurrent
<1> QED
  BY <1>3, <1>4, <1>5, <1>6

-----------------------------------------------------------------------------
(* An event is handled once.                                                 *)

\* Nothing that the hub remembers of the deliveries was lost.
Reliable == hubScope.keep /\ hubWorld.kills = 0 /\ hubWorld.faults = 0 /\ Len(hubScope.mail) <= hubScope.deliveries
OrderIs(order) == order \in Seq(DOMAIN hubScope.mail) /\ IsInjective(order)
Took(d) == hubWorld.applied[d] = 1
Given == hub.files["deliveries"]

\* What was handled is remembered, by the process or by the file it left, and
\* what is under way is remembered and was not handled; the file has what the
\* process has once nothing waits, or it is closed.
OnceIs ==
    /\ DOMAIN hubWorld.applied = DOMAIN hubScope.mail /\ \A d \in DOMAIN hubScope.mail : hubWorld.applied[d] \in {0, 1}
    /\ OrderIs(hub.order) /\ OrderIs(hubDisk.deliveries.order)
    /\ \A d \in DOMAIN hubScope.mail : Took(d) => d \in Range(IF hub.up = "down" THEN hubDisk.deliveries.order ELSE hub.order)
    /\ \A c \in hub.calls : c.pc = "handle" => c.d \in Range(hub.order) /\ ~Took(c.d)
    /\ Given.closed => hub.up = "closing" /\ Given.writing = "no"
    /\ hub.up # "down" /\ (Given.closed \/ (~Given.pending /\ Given.writing = "no")) => hubDisk.deliveries.order = hub.order
OnceHolds == hubWorld.kills \in Nat /\ hubWorld.faults \in Nat /\ (Reliable => OnceIs)

\* What a step leaves of the deliveries, and of what happened to them.
WorldLeft == hubWorld'.applied = hubWorld.applied /\ hubWorld'.kills = hubWorld.kills /\ hubWorld'.faults = hubWorld.faults
OrderLeft ==
    /\ hub'.order = hub.order /\ hub'.files["deliveries"] = hub.files["deliveries"] /\ hubDisk'.deliveries = hubDisk.deliveries
    /\ hubScope' = hubScope
    /\ hub'.up = hub.up \/ (hub.up \in {"new", "running", "stopping"} /\ hub'.up \in {"running", "stopping", "closing"})

\* A step that handles no event.
LEMMA OnceStays ==
    ASSUME OnceHolds, OrderLeft, WorldLeft, \A c \in hub'.calls : c.pc = "handle" => c \in hub.calls
    PROVE  OnceHolds'
<1>1. Reliable' = Reliable
  BY DEF Reliable, OrderLeft, WorldLeft
<1>2. ASSUME OnceIs PROVE OnceIs'
  <2>1. \A d : Took(d)' = Took(d)
    BY DEF Took, WorldLeft
  <2>2. Given' = Given /\ hubScope' = hubScope
    BY DEF Given, OrderLeft
  <2>3. OrderIs(hub.order)' /\ OrderIs(hubDisk.deliveries.order)'
    BY <1>2 DEF OnceIs, OrderIs, OrderLeft
  <2>4. hub'.up = "down" <=> hub.up = "down"
    BY DEF OrderLeft
  <2>5. \A d \in DOMAIN hubScope.mail : Took(d) => d \in Range(IF hub'.up = "down" THEN hubDisk'.deliveries.order ELSE hub'.order)
    BY <1>2, <2>4 DEF OnceIs, OrderLeft
  <2>6. \A c \in hub'.calls : c.pc = "handle" => c.d \in Range(hub'.order) /\ ~Took(c.d)
    BY <1>2 DEF OnceIs, OrderLeft
  <2>7. Given.closed => hub'.up = "closing" /\ Given.writing = "no"
    BY <1>2 DEF OnceIs, OrderLeft
  <2>8. hub'.up # "down" /\ (Given.closed \/ (~Given.pending /\ Given.writing = "no")) => hubDisk'.deliveries.order = hub'.order
    BY <1>2, <2>4 DEF OnceIs, OrderLeft
  <2>9. DOMAIN hubWorld'.applied = DOMAIN hubScope.mail /\ \A d \in DOMAIN hubScope.mail : hubWorld'.applied[d] \in {0, 1}
    BY <1>2 DEF OnceIs, WorldLeft
  <2> QED
    BY <2>1, <2>2, <2>3, <2>5, <2>6, <2>7, <2>8, <2>9 DEF OnceIs
<1>3. hubWorld'.kills \in Nat /\ hubWorld'.faults \in Nat
  BY DEF OnceHolds, WorldLeft
<1> QED
  BY <1>1, <1>2, <1>3 DEF OnceHolds

\* The step that handles an event handles it for the first time, and the last.
LEMMA OnceApplies ==
    ASSUME HubShaped, OnceHolds, OrderLeft, hub'.up = hub.up, hub.up # "down", NEW c \in hub.calls, c.pc = "handle",
           hubWorld'.applied = [hubWorld.applied EXCEPT ![c.d] = @ + 1],
           hubWorld'.kills = hubWorld.kills, hubWorld'.faults = hubWorld.faults,
           \A x \in hub'.calls : x.pc = "handle" => x \in hub.calls \ {c}
    PROVE  OnceHolds'
<1>1. Reliable' = Reliable
  BY DEF Reliable, OrderLeft
<1>2. ASSUME OnceIs PROVE OnceIs'
  <2>1. PICK d, n : d = c.d /\ n = hubWorld.applied[d]
    OBVIOUS
  <2>2. d \in Range(hub.order) /\ ~Took(d) /\ OrderIs(hub.order)
    BY <1>2, <2>1 DEF OnceIs
  <2>3. d \in DOMAIN hubScope.mail
    <3>1. hub.order \in Seq(DOMAIN hubScope.mail)
      BY <2>2 DEF OrderIs
    <3> QED
      BY <2>2, <3>1, LenProperties DEF Range
  <2>4. n = 0 /\ DOMAIN hubWorld.applied = DOMAIN hubScope.mail
    BY <1>2, <2>1, <2>2, <2>3 DEF OnceIs, Took
  <2>5. hubWorld'.applied = [hubWorld.applied EXCEPT ![d] = 1]
    BY <2>1, <2>4
  <2>6. /\ DOMAIN hubWorld'.applied = DOMAIN hubScope.mail /\ hubWorld'.applied[d] = 1
        /\ \A x \in DOMAIN hubScope.mail \ {d} : hubWorld'.applied[x] = hubWorld.applied[x]
    BY <2>3, <2>4, <2>5
  <2>7. \A x \in DOMAIN hubScope.mail : hubWorld'.applied[x] \in {0, 1} /\ (Took(x)' <=> x = d \/ Took(x))
    BY <1>2, <2>2, <2>6 DEF Took, OnceIs
  <2>8. Given' = Given /\ hubScope' = hubScope
    BY DEF Given, OrderLeft
  <2>9. OrderIs(hub.order)' /\ OrderIs(hubDisk.deliveries.order)'
    BY <1>2 DEF OnceIs, OrderIs, OrderLeft
  <2>10. ASSUME NEW x \in hub'.calls, x.pc = "handle" PROVE x.d \in Range(hub'.order) /\ ~Took(x.d)'
    <3>1. x \in hub.calls /\ x # c
      BY <2>10
    <3>2. x.d \in Range(hub.order) /\ ~Took(x.d)
      BY <1>2, <2>10, <3>1 DEF OnceIs
    <3>3. x.d # d
      <4>1. x = EventCall(x.d) /\ c = EventCall(c.d)
        BY <2>10, <3>1 DEF HubShaped, CallIs
      <4> QED
        BY <2>1, <3>1, <4>1
    <3>4. x.d \in DOMAIN hubScope.mail
      <4>1. hub.order \in Seq(DOMAIN hubScope.mail)
        BY <2>2 DEF OrderIs
      <4> QED
        BY <3>2, <4>1, LenProperties DEF Range
    <3> QED
      BY <2>7, <3>2, <3>3, <3>4 DEF OrderLeft
  <2>12. \A x \in DOMAIN hubScope.mail : Took(x)' => x \in Range(IF hub'.up = "down" THEN hubDisk'.deliveries.order ELSE hub'.order)
    BY <1>2, <2>2, <2>7 DEF OnceIs, OrderLeft
  <2>13. Given.closed => hub'.up = "closing" /\ Given.writing = "no"
    BY <1>2 DEF OnceIs, OrderLeft
  <2>14. hub'.up # "down" /\ (Given.closed \/ (~Given.pending /\ Given.writing = "no")) => hubDisk'.deliveries.order = hub'.order
    BY <1>2 DEF OnceIs, OrderLeft
  <2> QED
    BY <2>6, <2>7, <2>8, <2>9, <2>10, <2>12, <2>13, <2>14 DEF OnceIs
<1>3. hubWorld'.kills \in Nat /\ hubWorld'.faults \in Nat
  BY DEF OnceHolds
<1> QED
  BY <1>1, <1>2, <1>3 DEF OnceHolds

\* Each delivery is remembered once, and none is forgotten while there is room for every one.
LEMMA Remembers ==
    ASSUME NEW order, OrderIs(order), NEW d \in DOMAIN hubScope.mail, d \notin Range(order), hubScope \in HubScopes,
           Len(hubScope.mail) <= hubScope.deliveries
    PROVE  OrderIs(Remember(order, d)) /\ Range(Remember(order, d)) = Range(order) \cup {d}
<1>1. PICK D, k, all, n : D = DOMAIN hubScope.mail /\ k = Len(hubScope.mail) /\ all = Append(order, d) /\ n = Len(order)
  OBVIOUS
<1>2. k \in Nat /\ D = 1..k /\ hubScope.deliveries \in Nat
  <2>1. hubScope.mail \in Seq(Range(hubScope.mail)) /\ hubScope.deliveries \in Nat
    BY HubAssumption
  <2> QED
    BY <1>1, <2>1, LenProperties
<1>3. order \in Seq(D) /\ \A a, b \in DOMAIN order : order[a] = order[b] => a = b
  BY <1>1 DEF OrderIs, IsInjective
<1>4. n \in Nat /\ DOMAIN order = 1..n /\ \A i \in 1..n : order[i] \in D
  BY <1>1, <1>3, LenProperties
<1>5. /\ all \in Seq(D) /\ Len(all) = n + 1 /\ DOMAIN all = 1..(n + 1)
      /\ (\A i \in 1..n : all[i] = order[i]) /\ all[n + 1] = d
  <2>1. all \in Seq(D) /\ Len(all) = n + 1 /\ (\A i \in 1..n : all[i] = order[i]) /\ all[n + 1] = d
    BY <1>1, <1>3, AppendProperties
  <2> QED
    BY <2>1, LenProperties
<1>6. \A i \in 1..n : order[i] # d
  BY <1>4 DEF Range
<1>7. ASSUME NEW a \in 1..(n + 1), NEW b \in 1..(n + 1), all[a] = all[b] PROVE a = b
  <2>1. CASE a \in 1..n /\ b \in 1..n
    BY <1>3, <1>4, <1>5, <1>7, <2>1
  <2>2. CASE a \in 1..n /\ b = n + 1
    BY <1>5, <1>6, <1>7, <2>2
  <2>3. CASE a = n + 1 /\ b \in 1..n
    BY <1>5, <1>6, <1>7, <2>3
  <2>4. CASE a = n + 1 /\ b = n + 1
    BY <2>4
  <2>5. (a \in 1..n \/ a = n + 1) /\ (b \in 1..n \/ b = n + 1)
    BY <1>4
  <2> QED
    BY <2>1, <2>2, <2>3, <2>4, <2>5
<1>8. n + 1 <= k
  <2>1. IsFiniteSet(1..(n + 1)) /\ Cardinality(1..(n + 1)) = n + 1
    BY <1>4, FS_Interval
  <2>2. IsFiniteSet(D) /\ Cardinality(D) = k
    BY <1>2, FS_Interval
  <2>3. all \in [1..(n + 1) -> D]
    BY <1>5
  <2>4. ASSUME k < n + 1 PROVE FALSE
    <3>1. Cardinality(D) < Cardinality(1..(n + 1))
      BY <2>1, <2>2, <2>4
    <3>2. \E x, y \in 1..(n + 1) : x # y /\ all[x] = all[y]
      BY <2>1, <2>2, <2>3, <3>1, FS_PigeonHole
    <3> QED
      BY <1>7, <3>2
  <2> QED
    BY <1>2, <1>4, <2>4
<1>9. PICK s : s = SubSeq(all, 1, n + 1)
  OBVIOUS
<1>10. Remember(order, d) = s
  <2>1. ~(n + 1 > hubScope.deliveries)
    BY <1>1, <1>2, <1>4, <1>8
  <2> QED
    BY <1>1, <1>5, <1>9, <2>1 DEF Remember
<1>11. s \in Seq(D) /\ DOMAIN s = 1..(n + 1) /\ \A i \in 1..(n + 1) : s[i] = all[i]
  <2>1. \A i \in 1..(n + 1) : all[i] \in D
    BY <1>5, LenProperties
  <2>2. /\ s \in Seq(D) /\ Len(s) = (IF 1 <= n + 1 THEN (n + 1) - 1 + 1 ELSE 0)
        /\ \A i \in 1..((n + 1) - 1 + 1) : s[i] = all[1 + i - 1]
    BY <1>4, <1>9, <2>1, SubSeqProperties
  <2>3. Len(s) = n + 1 /\ (n + 1) - 1 + 1 = n + 1 /\ \A i \in 1..(n + 1) : s[i] = all[i]
    BY <1>4, <2>2
  <2> QED
    BY <2>2, <2>3, LenProperties
<1>12. OrderIs(s)
  BY <1>1, <1>7, <1>11 DEF OrderIs, IsInjective
<1>13. Range(s) = Range(order) \cup {d}
  <2>1. ASSUME NEW x \in Range(s) PROVE x \in Range(order) \cup {d}
    <3>1. PICK i \in 1..(n + 1) : x = all[i]
      BY <1>11, <2>1 DEF Range
    <3>2. i \in 1..n \/ i = n + 1
      BY <1>4
    <3> QED
      BY <1>4, <1>5, <3>1, <3>2 DEF Range
  <2>2. ASSUME NEW x \in Range(order) PROVE x \in Range(s)
    <3>1. PICK i \in 1..n : x = order[i]
      BY <1>4 DEF Range
    <3>2. i \in 1..(n + 1) /\ s[i] = x
      BY <1>4, <1>5, <1>11, <3>1
    <3> QED
      BY <1>11, <3>2 DEF Range
  <2>3. d \in Range(s)
    <3>1. n + 1 \in 1..(n + 1) /\ s[n + 1] = d
      BY <1>4, <1>5, <1>11
    <3> QED
      BY <1>11, <3>1 DEF Range
  <2> QED
    BY <2>1, <2>2, <2>3
<1> QED
  BY <1>10, <1>12, <1>13

\* What a counter that is spent leaves of the deliveries.
LEMMA SpentLeft ==
    ASSUME HubIInv, NEW f \in Counters \ {"kills", "faults"}, Spent(f)
    PROVE  WorldLeft
  BY DEF HubIInv, HubTyped, Spent, WorldFields, Counters, WorldLeft

\* A call that ends or goes on handles no event any more.
LEMMA CallsLeft ==
    ASSUME HubShaped, NEW c \in hub.calls
    PROVE  /\ \A x \in CallDone(c) : x \in hub.calls \ {c}
           /\ \A pc \in {"watch", "unwatch", "update"} : \A x \in Then(c, pc) : x.pc = "handle" => x \in hub.calls \ {c}
<1>1. ASSUME NEW pc \in {"watch", "unwatch", "update"} PROVE [c EXCEPT !.pc = pc].pc # "handle"
  <2>1. "pc" \in DOMAIN c
    BY DEF HubShaped, CallIs
  <2> QED
    BY <2>1
<1> QED
  BY <1>1 DEF CallDone, Then

\* An update of an instance leaves the deliveries, and their file.
LEMMA OrderIsLeft ==
    ASSUME HubIInv, HubShaped, NEW id, NEW to, NEW calls, NEW follows, Update(id, to, calls, follows), Still
    PROVE  OrderLeft /\ hub'.up = hub.up /\ hub'.calls = calls
<1>1. Updated(id, to, calls, follows)
  BY UpdateIs
<1>2. PICK b : Marked(hub.files, hub'.files, "instances", b)
  BY <1>1 DEF Updated
<1>3. hub'.files["deliveries"] = hub.files["deliveries"]
  BY <1>2 DEF Marked, Files
<1> QED
  BY <1>1, <1>3 DEF Updated, OrderLeft, Still

\* A step that changes other fields of the hub does.
LEMMA FieldsLeft ==
    ASSUME hub'.order = hub.order, hub'.up = hub.up, hub'.files = hub.files, UNCHANGED <<hubDisk, hubScope>>
    PROVE  OrderLeft
  BY DEF OrderLeft

\* The watches take no delivery.
LEMMA FollowsOnce ==
    ASSUME HubIInv, TrackHolds, OnceHolds, NEW f \in hub.follows,
           FollowGets(f) \/ FollowReads(f) \/ FollowFails(f) \/ FollowFailed(f) \/ FollowRetries(f)
    PROVE  OnceHolds'
<1>1. HubShaped /\ HubFields \subseteq DOMAIN hub /\ WorldFields \subseteq DOMAIN hubWorld
  BY TrackTypes DEF TrackHolds
<1>2. ASSUME NEW to, NEW follows, Update(f.id, to, hub.calls, follows), Still, WorldLeft PROVE OnceHolds'
  BY <1>1, <1>2, OrderIsLeft, OnceStays
<1>3. ASSUME NEW follows, hub' = [hub EXCEPT !.follows = follows], UNCHANGED <<hubDisk, hubScope>>, WorldLeft PROVE OnceHolds'
  <2>1. hub'.order = hub.order /\ hub'.up = hub.up /\ hub'.files = hub.files /\ hub'.calls = hub.calls
    BY <1>1, <1>3 DEF HubFields
  <2> QED
    BY <1>3, <2>1, FieldsLeft, OnceStays
<1>4. CASE FollowGets(f)
  BY <1>3, <1>4 DEF FollowGets, Quietly, WorldLeft
<1>5. CASE FollowFails(f)
  BY <1>3, <1>5 DEF FollowFails, Quietly, WorldLeft
<1>6. CASE FollowRetries(f)
  BY <1>3, <1>6 DEF FollowRetries, Quietly, WorldLeft
<1>7. CASE FollowReads(f)
  <2>1. PICK x, y : hubWorld' = [hubWorld EXCEPT !.answered = x, !.dead = y]
    BY <1>7 DEF FollowReads
  <2>2. WorldLeft
    BY <1>1, <2>1 DEF WorldFields, WorldLeft
  <2>3. \/ \E to, follows : Update(f.id, to, hub.calls, follows)
        \/ \E follows : hub' = [hub EXCEPT !.follows = follows]
    BY <1>7 DEF FollowReads
  <2> QED
    BY <1>2, <1>3, <1>7, <2>2, <2>3 DEF FollowReads, Still
<1>8. CASE FollowFailed(f)
  <2>1. UNCHANGED hubWorld \/ \E x, y : hubWorld' = [hubWorld EXCEPT !.dead = x, !.misjudged = y]
    <3>1. PICK i, to : i = hub.inst[f.id] /\ to = Failed(f, i)
      OBVIOUS
    <3>2. PICK x, y : /\ x = IF to.failed /\ to # i THEN hubWorld.dead \cup {<<f.id, f.url>>} ELSE hubWorld.dead
                      /\ y = (hubWorld.misjudged \/ (to # i /\ i.url # f.url))
      OBVIOUS
    <3>3. UNCHANGED hubWorld \/ hubWorld' = [hubWorld EXCEPT !.dead = x, !.misjudged = y]
      BY <1>8, <3>1, <3>2 DEF FollowFailed
    <3> QED
      BY <3>3
  <2>2. WorldLeft
    BY <1>1, <2>1 DEF WorldFields, WorldLeft
  <2>3. \/ \E to, follows : Update(f.id, to, hub.calls, follows)
        \/ \E follows : hub' = [hub EXCEPT !.follows = follows]
    BY <1>8 DEF FollowFailed
  <2> QED
    BY <1>2, <1>3, <1>8, <2>2, <2>3 DEF FollowFailed, Still
<1> QED
  BY <1>4, <1>5, <1>6, <1>7, <1>8

\* The handler of an event takes it, once.
LEMMA EventsOnce ==
    ASSUME HubIInv, TrackHolds, OnceHolds, NEW c \in hub.calls, HubUpserts(c) \/ HubStopped(c) \/ HubHears(c)
    PROVE  OnceHolds'
<1>1. HubShaped /\ HubFields \subseteq DOMAIN hub /\ WorldFields \subseteq DOMAIN hubWorld
  BY TrackTypes DEF TrackHolds
<1>2. c.pc = "handle" /\ hub.up # "down" /\ Still
  BY DEF HubUpserts, HubStopped, HubHears, Handling
<1>3. /\ hubWorld'.applied = [hubWorld.applied EXCEPT ![c.d] = @ + 1]
      /\ hubWorld'.kills = hubWorld.kills /\ hubWorld'.faults = hubWorld.faults
  <2>1. PICK n : n = [hubWorld.applied EXCEPT ![c.d] = @ + 1]
    OBVIOUS
  <2>2. hubWorld' = [hubWorld EXCEPT !.applied = n] \/ \E x : hubWorld' = [hubWorld EXCEPT !.applied = n, !.dead = x]
    BY <2>1 DEF HubUpserts, HubStopped, HubHears
  <2> QED
    BY <1>1, <2>1, <2>2 DEF WorldFields
<1>4. \E calls \in {CallDone(c), Then(c, "watch"), Then(c, "unwatch")} :
         \/ \E to, follows : Update(c.id, to, calls, follows)
         \/ hub' = [hub EXCEPT !.calls = calls]
  <2>1. CASE HubUpserts(c)
    <3>1. PICK calls : calls = IF Restarts(Before(c.id), hubScope.mail[c.d]) THEN Then(c, "watch") ELSE CallDone(c)
      OBVIOUS
    <3>2. \E to, follows : Update(c.id, to, calls, follows)
      BY <2>1, <3>1 DEF HubUpserts
    <3> QED
      BY <3>1, <3>2
  <2>2. CASE HubStopped(c)
    BY <2>2 DEF HubStopped
  <2>3. CASE HubHears(c)
    BY <2>3 DEF HubHears
  <2> QED
    BY <2>1, <2>2, <2>3
<1>5. PICK calls \in {CallDone(c), Then(c, "watch"), Then(c, "unwatch")} :
         \/ \E to, follows : Update(c.id, to, calls, follows)
         \/ hub' = [hub EXCEPT !.calls = calls]
  BY <1>4
<1>6. OrderLeft /\ hub'.up = hub.up /\ hub'.calls = calls
  <2>1. CASE \E to, follows : Update(c.id, to, calls, follows)
    BY <1>1, <1>2, <2>1, OrderIsLeft
  <2>2. CASE hub' = [hub EXCEPT !.calls = calls]
    <3>1. hub'.order = hub.order /\ hub'.up = hub.up /\ hub'.files = hub.files /\ hub'.calls = calls
      BY <1>1, <2>2 DEF HubFields
    <3> QED
      BY <1>2, <3>1, FieldsLeft DEF Still
  <2> QED
    BY <1>5, <2>1, <2>2
<1>7. \A x \in calls : x.pc = "handle" => x \in hub.calls \ {c}
  BY <1>1, <1>5, CallsLeft
<1> QED
  BY <1>1, <1>2, <1>3, <1>6, <1>7, OnceApplies

\* The other steps of the handlers take none.
LEMMA HandlersOnce ==
    ASSUME HubIInv, TrackHolds, OnceHolds, NEW c \in hub.calls,
           HubWatches(c) \/ HubUnwatches(c) \/ AddChecks(c) \/ AddUpdates(c) \/ HubForgets(c)
    PROVE  OnceHolds'
<1>1. HubShaped /\ HubFields \subseteq DOMAIN hub /\ WorldFields \subseteq DOMAIN hubWorld
  BY TrackTypes DEF TrackHolds
<1>2. /\ \A x \in CallDone(c) : x.pc = "handle" => x \in hub.calls
      /\ \A pc \in {"watch", "update"} : \A x \in Then(c, pc) : x.pc = "handle" => x \in hub.calls
  BY <1>1, CallsLeft
<1>3. CASE HubWatches(c) \/ HubUnwatches(c) \/ AddChecks(c)
  <2>1. PICK g, calls :
         /\ hub' = [g EXCEPT !.calls = calls] /\ g \in {Watch(hub, c.id), UnwatchStopped(hub, c.id), hub}
         /\ calls \in {CallDone(c), Then(c, "update")}
    BY <1>3 DEF HubWatches, HubUnwatches, AddChecks
  <2>2. HubFields \subseteq DOMAIN g /\ g.files = hub.files /\ g.up = hub.up /\ g.order = hub.order
    BY <1>1, <2>1 DEF Watch, Unwatch, UnwatchStopped, HubFields
  <2>3. hub'.files = hub.files /\ hub'.up = hub.up /\ hub'.order = hub.order /\ hub'.calls = calls
    BY <2>1, <2>2 DEF HubFields
  <2>4. UNCHANGED <<hubDisk, hubScope, hubWorld>>
    BY <1>3 DEF HubWatches, HubUnwatches, AddChecks, Quietly
  <2>5. \A x \in hub'.calls : x.pc = "handle" => x \in hub.calls
    BY <1>2, <2>1, <2>3
  <2> QED
    BY <2>3, <2>4, <2>5, FieldsLeft, OnceStays DEF WorldLeft
<1>4. CASE AddUpdates(c)
  <2>1. PICK x, y, z : hubWorld' = [hubWorld EXCEPT !.answered = x, !.dead = y, !.raced = z]
    BY <1>4 DEF AddUpdates
  <2>2. WorldLeft
    BY <1>1, <2>1 DEF WorldFields, WorldLeft
  <2>3. Still /\ \E to, follows : Update(c.id, to, Then(c, "watch"), follows)
    BY <1>4 DEF AddUpdates
  <2>4. OrderLeft /\ hub'.calls = Then(c, "watch")
    BY <1>1, <2>3, OrderIsLeft
  <2> QED
    BY <1>2, <2>2, <2>4, OnceStays
<1>5. CASE HubForgets(c)
  <2>1. UNCHANGED <<hubDisk, hubScope, hubWorld>>
    BY <1>5 DEF HubForgets
  <2>2. PICK inst, files : files \in {hub.files, Mark(hub.files, "instances", TRUE)}
                           /\ (hub' = [hub EXCEPT !.calls = CallDone(c)] \/ hub' = [hub EXCEPT !.inst = inst, !.calls = CallDone(c), !.files = files])
    BY <1>5 DEF HubForgets
  <2>3. files["deliveries"] = hub.files["deliveries"]
    <3>1. DOMAIN hub.files = Files /\ FilesAre(hub.files)
      BY <1>1 DEF HubIInv, HubTyped, HubShaped, FilesAre
    <3>2. Marked(hub.files, Mark(hub.files, "instances", TRUE), "instances", TRUE)
      BY <3>1, MarkMarks DEF FilesAre, Files
    <3> QED
      BY <2>2, <3>2 DEF Marked, Files
  <2>4. hub'.up = hub.up /\ hub'.order = hub.order /\ hub'.calls = CallDone(c) /\ hub'.files["deliveries"] = hub.files["deliveries"]
    BY <1>1, <2>2, <2>3 DEF HubFields
  <2>5. OrderLeft /\ WorldLeft
    BY <2>1, <2>4 DEF OrderLeft, WorldLeft
  <2> QED
    BY <1>2, <2>4, <2>5, OnceStays
<1> QED
  BY <1>3, <1>4, <1>5

\* receiveWebhook handles a delivery that the hub doesn't remember.
LEMMA ReceivesOnce ==
    ASSUME HubIInv, TrackHolds, OnceHolds, NEW d \in DOMAIN hubScope.mail, Receives(d)
    PROVE  OnceHolds'
<1>1. HubShaped /\ HubFields \subseteq DOMAIN hub
  BY TrackTypes DEF TrackHolds
<1>2. WorldLeft /\ UNCHANGED <<hubDisk, hubPage, hubScope>> /\ hub.up \in {"new", "running"}
  BY SpentLeft DEF Receives, Counters, Quietly, MayHandle, Serving
<1>3. CASE UNCHANGED hub
  BY <1>2, <1>3, FieldsLeft, OnceStays
<1>4. CASE ~ UNCHANGED hub
  <2>1. PICK files, c, order : /\ files = Mark(hub.files, "deliveries", TRUE) /\ c = EventCall(d) /\ order = Remember(hub.order, d)
    OBVIOUS
  <2>2. hub' = [hub EXCEPT !.order = order, !.files = files, !.calls = hub.calls \cup {c}] /\ d \notin Range(hub.order)
    BY <1>4, <2>1 DEF Receives, Begin, EventCall
  <2>3. Marked(hub.files, files, "deliveries", TRUE)
    <3>1. DOMAIN hub.files = Files /\ FilesAre(hub.files)
      BY <1>1 DEF HubIInv, HubTyped, HubShaped, FilesAre
    <3> QED
      BY <2>1, <3>1, MarkMarks DEF FilesAre, Files
  <2>4. hub'.order = order /\ hub'.files = files /\ hub'.calls = hub.calls \cup {c} /\ hub'.up = hub.up
    BY <1>1, <2>2 DEF HubFields
  <2>5. Reliable' = Reliable
    BY <1>2 DEF Reliable, WorldLeft
  <2>6. ASSUME Reliable, OnceIs PROVE OnceIs'
    <3>1. hubScope \in HubScopes /\ Len(hubScope.mail) <= hubScope.deliveries /\ hubScope.keep
      BY <2>6 DEF HubIInv, HubTyped, Reliable
    <3>2. OrderIs(order) /\ Range(order) = Range(hub.order) \cup {d}
      <4>1. OrderIs(hub.order)
        BY <2>6 DEF OnceIs
      <4> QED
        BY <2>1, <2>2, <3>1, <4>1, Remembers
    <3>3. \A x : Took(x)' <=> Took(x)
      BY <1>2 DEF Took, WorldLeft
    <3>4. ~Took(d)
      BY <1>2, <2>2, <2>6 DEF OnceIs
    <3>5. Given.pending' /\ Given'.closed = Given.closed
      BY <2>3, <2>4, <3>1 DEF Marked, Given
    <3>6. ~Given.closed
      BY <1>2, <2>6 DEF OnceIs
    <3>7. OrderIs(hub.order)' /\ OrderIs(hubDisk.deliveries.order)'
      BY <1>2, <2>4, <2>6, <3>2 DEF OnceIs, OrderIs
    <3>8. ASSUME NEW x \in hub'.calls, x.pc = "handle" PROVE x.d \in Range(hub'.order) /\ ~Took(x.d)'
      <4>1. CASE x \in hub.calls
        BY <2>4, <2>6, <3>2, <3>3, <3>8, <4>1 DEF OnceIs
      <4>2. CASE x = c
        <5>1. x.d = d
          BY <2>1, <4>2 DEF EventCall
        <5> QED
          BY <2>4, <3>2, <3>3, <3>4, <5>1
      <4> QED
        BY <2>4, <3>8, <4>1, <4>2
    <3>9. \A x \in DOMAIN hubScope.mail : Took(x)' => x \in Range(IF hub'.up = "down" THEN hubDisk'.deliveries.order ELSE hub'.order)
      BY <1>2, <2>4, <2>6, <3>2, <3>3 DEF OnceIs
    <3>10. DOMAIN hubWorld'.applied = DOMAIN hubScope.mail /\ \A x \in DOMAIN hubScope.mail : hubWorld'.applied[x] \in {0, 1}
      BY <1>2, <2>6 DEF OnceIs, WorldLeft
    <3>11. ~Given.closed' /\ hubScope' = hubScope
      BY <1>2, <3>5, <3>6
    <3> QED
      BY <3>5, <3>7, <3>8, <3>9, <3>10, <3>11 DEF OnceIs
  <2> QED
    BY <1>2, <2>5, <2>6 DEF OnceHolds, WorldLeft
<1> QED
  BY <1>3, <1>4

\* The page's requests take no delivery.
LEMMA RequestsOnce ==
    ASSUME HubIInv, TrackHolds, OnceHolds,
           \/ \E u \in DOMAIN hubScope.net : HubAdds(u)
           \/ \E id \in DOMAIN hub.inst : HubRemoves(id) \/ HubProxies(id) \/ (\E p \in hubScope.patch : HubPatches(id, p))
           \/ \E ids \in hubScope.orders : HubSetsPins(ids)
           \/ \E v \in hubScope.favorites : HubSetsFavorites(v)
    PROVE  OnceHolds'
<1>1. HubShaped /\ HubFields \subseteq DOMAIN hub /\ WorldFields \subseteq DOMAIN hubWorld
  BY TrackTypes DEF TrackHolds
<1>2. Mark(hub.files, "instances", TRUE)["deliveries"] = hub.files["deliveries"] /\ Mark(hub.files, "instances", FALSE) = hub.files
  <2>1. DOMAIN hub.files = Files /\ FilesAre(hub.files)
    BY <1>1 DEF HubIInv, HubTyped, HubShaped, FilesAre
  <2>2. Marked(hub.files, Mark(hub.files, "instances", TRUE), "instances", TRUE)
    BY <2>1, MarkMarks DEF FilesAre, Files
  <2> QED
    BY <2>2 DEF Marked, Files, Mark
<1>3. ASSUME NEW u \in DOMAIN hubScope.net, HubAdds(u) PROVE OnceHolds'
  <2>1. WorldLeft /\ UNCHANGED <<hubDisk, hubScope>>
    BY <1>3, SpentLeft DEF HubAdds, Counters, Quietly
  <2>2. PICK a, c : /\ a = hubWorld.net[u]
                    /\ c = [op |-> "add", id |-> a.id, url |-> u, pc |-> "check", summary |-> [run |-> a.run, does |-> a.does]]
    OBVIOUS
  <2>3. hub' = hub \/ hub' = [hub EXCEPT !.calls = hub.calls \cup {c}]
    BY <1>3, <2>2 DEF HubAdds, Begin
  <2>4. hub'.order = hub.order /\ hub'.up = hub.up /\ hub'.files = hub.files /\ hub'.calls \subseteq hub.calls \cup {c}
    BY <1>1, <2>3 DEF HubFields
  <2>5. c.pc # "handle"
    BY <2>2
  <2> QED
    BY <2>1, <2>4, <2>5, FieldsLeft, OnceStays
<1>4. ASSUME NEW id \in DOMAIN hub.inst, HubRemoves(id) PROVE OnceHolds'
  <2>1. WorldLeft /\ UNCHANGED <<hubDisk, hubScope>>
    BY <1>4, SpentLeft DEF HubRemoves, Counters, Quietly
  <2>2. PICK g, c : g = Unwatch(hub, id) /\ c = [op |-> "remove", id |-> id, pc |-> "remove"]
    OBVIOUS
  <2>3. hub' = [g EXCEPT !.calls = hub.calls \cup {c}]
    BY <1>4, <2>2 DEF HubRemoves, Begin
  <2>4. HubFields \subseteq DOMAIN g /\ g.files = hub.files /\ g.up = hub.up /\ g.order = hub.order
    BY <1>1, <2>2 DEF Unwatch, HubFields
  <2>5. hub'.order = hub.order /\ hub'.up = hub.up /\ hub'.files = hub.files /\ hub'.calls = hub.calls \cup {c}
    BY <2>3, <2>4 DEF HubFields
  <2>6. c.pc # "handle"
    BY <2>2
  <2> QED
    BY <2>1, <2>5, <2>6, FieldsLeft, OnceStays
<1>5. ASSUME NEW id \in DOMAIN hub.inst, HubProxies(id) PROVE OnceHolds'
  <2>1. UNCHANGED <<hub, hubDisk, hubScope>>
    BY <1>5 DEF HubProxies, Quietly
  <2>2. PICK x : hubWorld' = [hubWorld EXCEPT !.proxied = x]
    BY <1>5 DEF HubProxies, Happened
  <2>3. WorldLeft
    BY <1>1, <2>2 DEF WorldFields, WorldLeft
  <2> QED
    BY <2>1, <2>3, FieldsLeft, OnceStays
<1>6. ASSUME NEW id \in DOMAIN hub.inst, NEW p \in hubScope.patch, HubPatches(id, p) PROVE OnceHolds'
  <2>1. WorldLeft
    BY <1>6, SpentLeft DEF HubPatches, Counters
  <2>2. OrderLeft /\ hub'.calls = hub.calls
    BY <1>1, <1>6, OrderIsLeft DEF HubPatches
  <2> QED
    BY <2>1, <2>2, OnceStays
<1>7. ASSUME NEW ids \in hubScope.orders, HubSetsPins(ids) PROVE OnceHolds'
  <2>1. WorldLeft /\ UNCHANGED <<hubDisk, hubScope>>
    BY <1>7, SpentLeft DEF HubSetsPins, Counters, Still
  <2>2. CASE UNCHANGED hub
    BY <2>1, <2>2, FieldsLeft, OnceStays
  <2>3. CASE ~ UNCHANGED hub
    <3>1. PICK inst, b : hub' = [hub EXCEPT !.inst = inst, !.files = Mark(hub.files, "instances", b)] /\ b \in BOOLEAN
      <4>1. PICK inst : inst = [id \in DOMAIN hub.inst |->
                          IF id \in Range(ids) THEN [hub.inst[id] EXCEPT !.pin = CHOOSE n \in DOMAIN ids : ids[n] = id] ELSE hub.inst[id]]
        OBVIOUS
      <4>2. PICK b \in BOOLEAN : b = (Renumbered(hub.inst, inst, 0) # {})
        OBVIOUS
      <4>3. hub' = [hub EXCEPT !.inst = inst, !.files = Mark(hub.files, "instances", b)]
        BY <1>7, <2>3, <4>1, <4>2 DEF HubSetsPins
      <4> QED
        BY <4>3
    <3>2. PICK files : files = Mark(hub.files, "instances", b)
      OBVIOUS
    <3>3. files["deliveries"] = hub.files["deliveries"]
      BY <1>2, <3>1, <3>2
    <3>4. hub'.order = hub.order /\ hub'.up = hub.up /\ hub'.files["deliveries"] = hub.files["deliveries"] /\ hub'.calls = hub.calls
      BY <1>1, <3>1, <3>2, <3>3 DEF HubFields
    <3>5. OrderLeft
      BY <2>1, <3>4 DEF OrderLeft
    <3> QED
      BY <2>1, <3>4, <3>5, OnceStays
  <2> QED
    BY <2>2, <2>3
<1>8. ASSUME NEW v \in hubScope.favorites, HubSetsFavorites(v) PROVE OnceHolds'
  <2>1. WorldLeft /\ UNCHANGED <<hubDisk, hubScope>>
    BY <1>8, SpentLeft DEF HubSetsFavorites, Counters, Still
  <2>2. PICK files : files = Mark(hub.files, "instances", TRUE) /\ hub' = [hub EXCEPT !.favorites = v, !.files = files]
    BY <1>8 DEF HubSetsFavorites
  <2>3. hub'.order = hub.order /\ hub'.up = hub.up /\ hub'.files["deliveries"] = hub.files["deliveries"] /\ hub'.calls = hub.calls
    BY <1>1, <1>2, <2>2 DEF HubFields
  <2>4. OrderLeft
    BY <2>1, <2>3 DEF OrderLeft
  <2> QED
    BY <2>1, <2>3, <2>4, OnceStays
<1> QED
  BY <1>3, <1>4, <1>5, <1>6, <1>7, <1>8

\* The background writes of the deliveries' file.
LEMMA FilesOnce ==
    ASSUME HubIInv, TrackHolds, OnceHolds, NEW f \in Files, FileBegins(f) \/ \E ok \in BOOLEAN : FileWrites(f, ok)
    PROVE  OnceHolds'
<1>1. HubShaped /\ HubFields \subseteq DOMAIN hub /\ WorldFields \subseteq DOMAIN hubWorld /\ DOMAIN hub.files = Files /\ FilesAre(hub.files)
      /\ DiskFields \subseteq DOMAIN hubDisk
  BY TrackTypes DEF TrackHolds, HubIInv, HubTyped, HubShaped, FilesAre
<1>2. ASSUME NEW g, hub' = [hub EXCEPT !.files[f] = g]
      PROVE  /\ hub'.order = hub.order /\ hub'.up = hub.up /\ hub'.calls = hub.calls
             /\ hub'.files[f] = g /\ \A x \in Files \ {f} : hub'.files[x] = hub.files[x]
  <2>1. PICK files : files = [hub.files EXCEPT ![f] = g]
    OBVIOUS
  <2>2. hub' = [hub EXCEPT !.files = files]
    BY <1>2, <2>1
  <2>3. files[f] = g /\ \A x \in Files \ {f} : files[x] = hub.files[x]
    BY <1>1, <2>1
  <2> QED
    BY <1>1, <2>2, <2>3 DEF HubFields
<1>3. CASE FileBegins(f)
  <2>1. PICK g : g = [hub.files[f] EXCEPT !.pending = FALSE, !.nudge = FALSE, !.writing = "taken"]
    OBVIOUS
  <2>2. hub' = [hub EXCEPT !.files[f] = g] /\ UNCHANGED <<hubDisk, hubScope, hubWorld>> /\ ~hub.files[f].closed /\ hub.up # "down"
    BY <1>3, <2>1 DEF FileBegins, Quietly
  <2>3. g.writing = "taken" /\ ~g.closed
    BY <1>1, <2>1, <2>2 DEF FilesAre, FileFields
  <2>4. WorldLeft
    BY <2>2 DEF WorldLeft
  <2>5. CASE f = "instances"
    <3>1. OrderLeft /\ hub'.calls = hub.calls
      BY <1>2, <2>2, <2>5 DEF OrderLeft, Files
    <3> QED
      BY <2>4, <3>1, OnceStays
  <2>6. CASE f = "deliveries"
    <3>1. ASSUME OnceIs PROVE OnceIs'
      <4>1. Given' = g
        BY <1>2, <2>2, <2>6 DEF Given
      <4>2. \A x : Took(x)' <=> Took(x)
        BY <2>4 DEF Took, WorldLeft
      <4>3. OrderIs(hub.order)' /\ OrderIs(hubDisk.deliveries.order)'
        BY <1>2, <2>2, <3>1 DEF OnceIs, OrderIs
      <4>4. \A d \in DOMAIN hubScope.mail : Took(d)' => d \in Range(IF hub'.up = "down" THEN hubDisk'.deliveries.order ELSE hub'.order)
        BY <1>2, <2>2, <3>1, <4>2 DEF OnceIs
      <4>5. \A c \in hub'.calls : c.pc = "handle" => c.d \in Range(hub'.order) /\ ~Took(c.d)'
        BY <1>2, <2>2, <3>1, <4>2 DEF OnceIs
      <4>6. DOMAIN hubWorld'.applied = DOMAIN hubScope.mail /\ \A d \in DOMAIN hubScope.mail : hubWorld'.applied[d] \in {0, 1}
        BY <2>2, <3>1 DEF OnceIs
      <4>7. ~Given.closed' /\ Given.writing' # "no" /\ hubScope' = hubScope
        BY <2>2, <2>3, <4>1
      <4> QED
        BY <4>3, <4>4, <4>5, <4>6, <4>7 DEF OnceIs
    <3>2. Reliable' = Reliable
      BY <2>2 DEF Reliable
    <3> QED
      BY <2>2, <3>1, <3>2 DEF OnceHolds
  <2> QED
    BY <2>5, <2>6 DEF Files
<1>4. ASSUME NEW ok \in BOOLEAN, FileWrites(f, ok) PROVE OnceHolds'
  <2>1. PICK p, c, n : p = (hub.files[f].pending \/ ~ok) /\ c = (hub.up = "closing") /\ n = IF ok THEN hubWorld.faults ELSE hubWorld.faults + 1
    OBVIOUS
  <2>2. PICK g : g = [hub.files[f] EXCEPT !.writing = "no", !.pending = p, !.closed = c]
    OBVIOUS
  <2>3. hub' = [hub EXCEPT !.files[f] = g] /\ hubWorld' = [hubWorld EXCEPT !.faults = n] /\ hubScope' = hubScope /\ hub.up # "down"
    BY <1>4, <2>1, <2>2 DEF FileWrites
  <2>4. hubWorld'.applied = hubWorld.applied /\ hubWorld'.kills = hubWorld.kills /\ hubWorld'.faults = n
    BY <1>1, <2>3 DEF WorldFields
  <2>5. CASE ~ok
    <3>1. n \in Nat /\ n # 0
      BY <2>1, <2>5 DEF OnceHolds
    <3> QED
      BY <2>4, <3>1 DEF OnceHolds, Reliable
  <2>6. CASE ok /\ f = "instances"
    <3>1. WorldLeft
      BY <2>1, <2>4, <2>6 DEF WorldLeft
    <3>2. hubDisk'.deliveries = hubDisk.deliveries
      BY <1>1, <1>4, <2>6 DEF FileWrites, DiskFields
    <3>3. OrderLeft /\ hub'.calls = hub.calls
      BY <1>2, <2>3, <2>6, <3>2 DEF OrderLeft, Files
    <3> QED
      BY <3>1, <3>3, OnceStays
  <2>7. CASE ok /\ f = "deliveries"
    <3>1. WorldLeft
      BY <2>1, <2>4, <2>7 DEF WorldLeft
    <3>2. hubDisk'.deliveries.order = hub.order
      <4>1. PICK s : s = Snapshot(f)
        OBVIOUS
      <4>2. hubDisk' = [hubDisk EXCEPT ![f] = s]
        BY <1>4, <2>7, <4>1 DEF FileWrites
      <4>3. hubDisk'.deliveries = s
        BY <1>1, <2>7, <4>2 DEF DiskFields
      <4> QED
        BY <2>7, <4>1, <4>3 DEF Snapshot
    <3>3. Given' = g /\ hub'.order = hub.order /\ hub'.up = hub.up /\ hub'.calls = hub.calls
      BY <1>2, <2>3, <2>7 DEF Given
    <3>4. g.writing = "no" /\ g.closed = c
      BY <1>1, <2>2 DEF FilesAre, FileFields
    <3>5. ASSUME OnceIs PROVE OnceIs'
      <4>1. \A x : Took(x)' <=> Took(x)
        BY <3>1 DEF Took, WorldLeft
      <4>2. OrderIs(hub.order)' /\ OrderIs(hubDisk.deliveries.order)'
        BY <2>3, <3>2, <3>3, <3>5 DEF OnceIs, OrderIs
      <4>3. \A d \in DOMAIN hubScope.mail : Took(d)' => d \in Range(IF hub'.up = "down" THEN hubDisk'.deliveries.order ELSE hub'.order)
        BY <2>3, <3>2, <3>3, <3>5, <4>1 DEF OnceIs
      <4>4. \A x \in hub'.calls : x.pc = "handle" => x.d \in Range(hub'.order) /\ ~Took(x.d)'
        BY <3>3, <3>5, <4>1 DEF OnceIs
      <4>5. DOMAIN hubWorld'.applied = DOMAIN hubScope.mail /\ \A d \in DOMAIN hubScope.mail : hubWorld'.applied[d] \in {0, 1}
        BY <2>4, <3>5 DEF OnceIs
      <4>6. Given.closed' => hub'.up = "closing" /\ Given.writing' = "no"
        BY <2>1, <3>3, <3>4
      <4> QED
        BY <2>3, <3>2, <3>3, <4>2, <4>3, <4>4, <4>5, <4>6 DEF OnceIs
    <3>6. Reliable' = Reliable
      BY <2>3, <3>1 DEF Reliable, WorldLeft
    <3> QED
      BY <3>1, <3>5, <3>6 DEF OnceHolds, WorldLeft
  <2> QED
    BY <2>5, <2>6, <2>7 DEF Files
<1> QED
  BY <1>3, <1>4

\* The hub's own life: what it took is in the file once it exits.
LEMMA LivesOnce ==
    ASSUME HubIInv, TrackHolds, OnceHolds, HubLives
    PROVE  OnceHolds'
<1>1. HubShaped /\ HubFields \subseteq DOMAIN hub /\ WorldFields \subseteq DOMAIN hubWorld /\ DOMAIN hub.files = Files /\ FilesAre(hub.files)
      /\ DiskFields \subseteq DOMAIN hubDisk
  BY TrackTypes DEF TrackHolds, HubIInv, HubTyped, HubShaped, FilesAre
<1>2. CASE HubStarts
  <2>1. PICK inst, fav, order : hub' = NewHub("new", inst, fav, order, hub.now) /\ order = hubDisk.deliveries.order /\ hub.up = "down"
    BY <1>2 DEF HubStarts
  <2>2. PICK file, bak : hubDisk' = [hubDisk EXCEPT !.instances = file, !.bak = bak]
    BY <1>2 DEF HubStarts
  <2>3. WorldLeft /\ hubScope' = hubScope
    BY <1>2, SpentLeft DEF HubStarts, Counters
  <2>4. hub'.up = "new" /\ hub'.order = order /\ hub'.calls = {} /\ hub'.files = [f \in Files |-> NewFile]
    BY <2>1 DEF NewHub
  <2>5. Given' = NewFile
    BY <2>4 DEF Given, Files
  <2>6. hubDisk'.deliveries.order = order
    BY <1>1, <2>1, <2>2 DEF DiskFields
  <2>7. ASSUME OnceIs PROVE OnceIs'
    <3>1. \A x : Took(x)' <=> Took(x)
      BY <2>3 DEF Took, WorldLeft
    <3>2. OrderIs(hub.order)' /\ OrderIs(hubDisk.deliveries.order)'
      BY <2>1, <2>3, <2>4, <2>6, <2>7 DEF OnceIs, OrderIs
    <3>3. \A d \in DOMAIN hubScope.mail : Took(d)' => d \in Range(hub'.order)
      BY <2>1, <2>4, <2>7, <3>1 DEF OnceIs
    <3>4. ~Given.closed'
      BY <2>5 DEF NewFile
    <3>5. DOMAIN hubWorld'.applied = DOMAIN hubScope.mail /\ \A d \in DOMAIN hubScope.mail : hubWorld'.applied[d] \in {0, 1}
      BY <2>3, <2>7 DEF OnceIs, WorldLeft
    <3> QED
      BY <2>3, <2>4, <2>6, <3>2, <3>3, <3>4, <3>5 DEF OnceIs
  <2>8. Reliable' = Reliable
    BY <2>3 DEF Reliable, WorldLeft
  <2> QED
    BY <2>3, <2>7, <2>8 DEF OnceHolds, WorldLeft
<1>3. CASE HubRuns
  <2>1. PICK s : hub' = [hub EXCEPT !.up = "running", !.starting = s] /\ hub.up = "new" /\ UNCHANGED <<hubDisk, hubScope, hubWorld>>
    BY <1>3 DEF HubRuns, Quietly
  <2>2. hub'.order = hub.order /\ hub'.files = hub.files /\ hub'.up = "running" /\ hub'.calls = hub.calls
    BY <1>1, <2>1 DEF HubFields
  <2>3. OrderLeft /\ WorldLeft
    BY <2>1, <2>2 DEF OrderLeft, WorldLeft
  <2> QED
    BY <2>2, <2>3, OnceStays
<1>4. CASE \E id \in hub.starting : HubRunWatches(id)
  <2>1. PICK id, s : hub' = [Watch(hub, id) EXCEPT !.starting = s] /\ UNCHANGED <<hubDisk, hubScope, hubWorld>>
    BY <1>4 DEF HubRunWatches, Quietly
  <2>2. PICK g : g = Watch(hub, id)
    OBVIOUS
  <2>3. HubFields \subseteq DOMAIN g /\ g.files = hub.files /\ g.up = hub.up /\ g.calls = hub.calls /\ g.order = hub.order
    BY <1>1, <2>2 DEF Watch, HubFields
  <2>4. hub'.order = hub.order /\ hub'.files = hub.files /\ hub'.up = hub.up /\ hub'.calls = hub.calls
    BY <2>1, <2>2, <2>3 DEF HubFields
  <2> QED
    BY <2>1, <2>4, FieldsLeft, OnceStays DEF WorldLeft
<1>5. CASE HubStops
  <2>1. PICK x : hub' = [hub EXCEPT !.up = "stopping", !.follows = x] /\ hub.up = "running" /\ UNCHANGED <<hubDisk, hubScope>>
    BY <1>5 DEF HubStops
  <2>2. hub'.order = hub.order /\ hub'.files = hub.files /\ hub'.up = "stopping" /\ hub'.calls = hub.calls
    BY <1>1, <2>1 DEF HubFields
  <2>3. OrderLeft /\ WorldLeft
    BY <1>5, <2>1, <2>2, SpentLeft DEF OrderLeft, HubStops, Counters
  <2> QED
    BY <2>2, <2>3, OnceStays
<1>6. CASE HubCloses
  <2>1. PICK inst, b : hub' = [hub EXCEPT !.up = "closing", !.files = Mark(hub.files, "instances", b), !.inst = inst] /\ b \in BOOLEAN
    <3>1. PICK b \in BOOLEAN : b = ({id \in DOMAIN hub.inst : hub.inst[id].since # Never} # {})
      OBVIOUS
    <3>2. \E inst : hub' = [hub EXCEPT !.up = "closing", !.files = Mark(hub.files, "instances", b), !.inst = inst]
      BY <1>6, <3>1 DEF HubCloses
    <3> QED
      BY <3>2
  <2>2. hub.up = "stopping" /\ UNCHANGED <<hubDisk, hubScope, hubWorld>>
    BY <1>6 DEF HubCloses, Quietly
  <2>3. PICK files : files = Mark(hub.files, "instances", b)
    OBVIOUS
  <2>4. files["deliveries"] = hub.files["deliveries"]
    <3>1. Marked(hub.files, files, "instances", b)
      BY <1>1, <2>1, <2>3, MarkMarks DEF FilesAre, Files
    <3> QED
      BY <3>1 DEF Marked, Files
  <2>5. hub'.order = hub.order /\ hub'.files["deliveries"] = hub.files["deliveries"] /\ hub'.up = "closing" /\ hub'.calls = hub.calls
    BY <1>1, <2>1, <2>3, <2>4 DEF HubFields
  <2>6. OrderLeft /\ WorldLeft
    BY <2>2, <2>5 DEF OrderLeft, WorldLeft
  <2> QED
    BY <2>5, <2>6, OnceStays
<1>7. CASE HubExits
  <2>1. /\ hub.up = "closing" /\ hub' = Down /\ UNCHANGED <<hubDisk, hubScope, hubWorld>>
        /\ Given.writing = "no" /\ (Given.closed \/ ~Given.pending)
    BY <1>7 DEF HubExits, Given, Files
  <2>2. hub'.up = "down" /\ hub'.order = <<>> /\ hub'.calls = {} /\ hub'.files = [f \in Files |-> NewFile]
    BY <2>1 DEF Down, NewHub
  <2>3. Given' = NewFile
    BY <2>2 DEF Given, Files
  <2>4. ASSUME OnceIs PROVE OnceIs'
    <3>1. \A x : Took(x)' <=> Took(x)
      BY <2>1 DEF Took
    <3>2. OrderIs(<<>>)
      <4>1. PICK e, D : e = <<>> /\ D = DOMAIN hubScope.mail /\ DOMAIN e = {}
        OBVIOUS
      <4>2. e \in Seq(D)
        BY <4>1
      <4> QED
        BY <4>1, <4>2 DEF OrderIs, IsInjective
    <3>3. OrderIs(hub.order)' /\ OrderIs(hubDisk.deliveries.order)'
      BY <2>1, <2>2, <2>4, <3>2 DEF OnceIs, OrderIs
    <3>4. hubDisk.deliveries.order = hub.order
      BY <2>1, <2>4 DEF OnceIs
    <3>5. \A d \in DOMAIN hubScope.mail : Took(d)' => d \in Range(hubDisk'.deliveries.order)
      BY <2>1, <2>4, <3>1, <3>4 DEF OnceIs
    <3>6. ~Given.closed'
      BY <2>3 DEF NewFile
    <3>7. DOMAIN hubWorld'.applied = DOMAIN hubScope.mail /\ \A d \in DOMAIN hubScope.mail : hubWorld'.applied[d] \in {0, 1}
      BY <2>1, <2>4 DEF OnceIs
    <3> QED
      BY <2>1, <2>2, <3>3, <3>5, <3>6, <3>7 DEF OnceIs
  <2>5. Reliable' = Reliable
    BY <2>1 DEF Reliable
  <2> QED
    BY <2>1, <2>4, <2>5 DEF OnceHolds
<1>8. CASE HubKilled
  <2>1. PICK n : n = hubWorld.kills + 1 /\ hubWorld' = [hubWorld EXCEPT !.kills = n]
    BY <1>8 DEF HubKilled, Spent
  <2>2. hubWorld'.kills = n /\ hubWorld'.faults = hubWorld.faults /\ n \in Nat /\ n # 0
    BY <1>1, <2>1 DEF WorldFields, OnceHolds
  <2> QED
    BY <2>2 DEF OnceHolds, Reliable
<1> QED
  BY <1>2, <1>3, <1>4, <1>5, <1>6, <1>7, <1>8 DEF HubLives

\* Nothing was taken yet when the behaviour begins.
LEMMA OnceBegins == HubInit => OnceHolds
<1> SUFFICES ASSUME HubInit PROVE OnceHolds
  OBVIOUS
<1>1. /\ hub = NewHub(hubScope.up, <<>>, "", <<>>, 0) /\ hubDisk.deliveries.order = <<>>
      /\ hubWorld.applied = [d \in DOMAIN hubScope.mail |-> 0] /\ hubWorld.kills = 0 /\ hubWorld.faults = 0
  BY DEF HubInit
<1>2. hub.order = <<>> /\ hub.calls = {} /\ hub.files = [f \in Files |-> NewFile]
  BY <1>1 DEF NewHub
<1>3. Given = NewFile
  BY <1>2 DEF Given, Files
<1>4. OrderIs(<<>>)
  <2>1. PICK e, D : e = <<>> /\ D = DOMAIN hubScope.mail /\ DOMAIN e = {}
    OBVIOUS
  <2>2. e \in Seq(D)
    BY <2>1
  <2> QED
    BY <2>1, <2>2 DEF OrderIs, IsInjective
<1>5. DOMAIN hubWorld.applied = DOMAIN hubScope.mail /\ \A d \in DOMAIN hubScope.mail : hubWorld.applied[d] = 0 /\ ~Took(d)
  <2>1. hubWorld.applied = [d \in DOMAIN hubScope.mail |-> 0]
    BY <1>1
  <2>2. DOMAIN hubWorld.applied = DOMAIN hubScope.mail /\ \A d \in DOMAIN hubScope.mail : hubWorld.applied[d] = 0
    BY <2>1
  <2> QED
    BY <2>2 DEF Took
<1>6. ~Given.closed
  BY <1>3 DEF NewFile
<1>7. OnceIs
  BY <1>1, <1>2, <1>4, <1>5, <1>6 DEF OnceIs
<1>8. hubWorld.kills = 0 /\ hubWorld.faults = 0
  BY <1>1
<1> QED
  BY <1>7, <1>8 DEF OnceHolds

\* It is kept by every step of the hub.
LEMMA OnceNext == HubIInv /\ TrackHolds /\ OnceHolds /\ [HubNext]_hubVars => OnceHolds'
<1> SUFFICES ASSUME HubIInv, TrackHolds, OnceHolds, [HubNext]_hubVars PROVE OnceHolds'
  OBVIOUS
<1>1. CASE HubFollows
  BY <1>1, FollowsOnce DEF HubFollows
<1>2. CASE HubHandles
  BY <1>2, EventsOnce, HandlersOnce DEF HubHandles
<1>3. CASE HubAsked
  <2>1. CASE \E d \in DOMAIN hubScope.mail : Receives(d)
    BY <2>1, ReceivesOnce
  <2>2. CASE ~ \E d \in DOMAIN hubScope.mail : Receives(d)
    BY <1>3, <2>2, RequestsOnce DEF HubAsked
  <2> QED
    BY <2>1, <2>2
<1>4. CASE HubKeeps
  <2>1. CASE \E f \in Files : FileBegins(f) \/ (\E ok \in BOOLEAN : FileWrites(f, ok))
    BY <2>1, FilesOnce
  <2>2. ASSUME NEW data \in hubScope.files, FileEdited(data) PROVE OnceHolds'
    <3>1. WorldLeft /\ UNCHANGED <<hub, hubScope>>
      BY <2>2, SpentLeft DEF FileEdited, Counters
    <3>2. hubDisk'.deliveries = hubDisk.deliveries
      BY <2>2 DEF FileEdited, HubIInv, HubTyped, DiskFields
    <3>3. OrderLeft
      BY <3>1, <3>2 DEF OrderLeft
    <3> QED
      BY <3>1, <3>3, OnceStays
  <2> QED
    BY <1>4, <2>1, <2>2 DEF HubKeeps
<1>5. CASE HubLives
  BY <1>5, LivesOnce
<1>6. CASE PageOpens \/ PageTakes
  <2>1. WorldLeft /\ UNCHANGED <<hub, hubDisk, hubScope>>
    BY <1>6, SpentLeft DEF PageOpens, PageTakes, Counters, WorldLeft
  <2> QED
    BY <2>1, FieldsLeft, OnceStays
<1>7. CASE HubTicks
  <2>1. PICK t : hub' = [hub EXCEPT !.now = t] /\ UNCHANGED <<hubDisk, hubScope>>
    BY <1>7 DEF HubTicks, Quietly
  <2>2. WorldLeft
    BY <1>7, SpentLeft DEF HubTicks, Counters
  <2>3. hub'.order = hub.order /\ hub'.up = hub.up /\ hub'.files = hub.files /\ hub'.calls = hub.calls
    BY <2>1, TrackTypes DEF HubFields
  <2> QED
    BY <2>1, <2>2, <2>3, FieldsLeft, OnceStays
<1>8. ASSUME NEW u \in DOMAIN hubScope.net, NEW a \in hubScope.answers, HubWorldTurns(u, a) PROVE OnceHolds'
  <2>1. PICK x, y : hubWorld' = [hubWorld EXCEPT !.net = x, !.turns = y]
    <3>1. PICK x : x = [hubWorld.net EXCEPT ![u] = a]
      OBVIOUS
    <3>2. hubWorld' = [hubWorld EXCEPT !.net = x, !.turns = hubWorld.turns + 1]
      BY <1>8, <3>1 DEF HubWorldTurns
    <3> QED
      BY <3>2
  <2>2. WorldLeft /\ UNCHANGED <<hub, hubDisk, hubScope>>
    BY <1>8, <2>1, TrackTypes DEF HubWorldTurns, Quietly, WorldLeft, WorldFields
  <2> QED
    BY <2>2, FieldsLeft, OnceStays
<1>9. CASE UNCHANGED hubVars
  BY <1>9, FieldsLeft, OnceStays DEF hubVars, WorldLeft
<1> QED
  BY <1>1, <1>2, <1>3, <1>4, <1>5, <1>6, <1>7, <1>8, <1>9 DEF HubNext

\* What it shows: no event is handled twice.
LEMMA OnceShows == OnceHolds => HubTakesOnce
<1> SUFFICES ASSUME OnceHolds, Reliable PROVE \A d \in DOMAIN hubScope.mail : hubWorld.applied[d] <= 1
  BY DEF HubTakesOnce, Reliable
<1>1. \A d \in DOMAIN hubScope.mail : hubWorld.applied[d] \in {0, 1}
  BY DEF OnceHolds, OnceIs
<1> QED
  BY <1>1

-----------------------------------------------------------------------------
(* Each instance has its watch.                                              *)

\* A handler of the instance has a step of pcs ahead.
Pending(h, id, pcs) == \E c \in h.calls : c.id = id /\ c.pc \in pcs

\* The live watches are those that Hub.watchers cancels, each its instance's.
WatchesAgree(h) ==
    /\ IsFiniteSet(Numbers(h))
    /\ \A f, g \in h.follows : f.n = g.n => f = g
    /\ \A a, b \in DOMAIN h.watchers : h.watchers[a] = h.watchers[b] => a = b
    /\ \A f \in h.follows : \A a \in DOMAIN h.watchers : f.n = h.watchers[a] => f.id = a
    /\ \A f \in h.follows : f.live => f.id \in DOMAIN h.watchers /\ h.watchers[f.id] = f.n
Idles(h) == h.up \in {"down", "new"} => h.follows = {} /\ h.watchers = <<>>

\* An instance has a live watch, unless a handler is about to start or to end
\* it; a stopped one has none but one that is about to see it, unless a
\* handler is about to end it.
Each(h, id) ==
    /\ h.inst[id].conn # "stopped" /\ id \notin h.starting /\ ~Pending(h, id, {"watch", "remove"}) =>
          \E f \in h.follows : f.live /\ f.id = id
    /\ h.inst[id].conn = "stopped" /\ ~Pending(h, id, {"unwatch"}) =>
          \A f \in h.follows : f.live /\ f.id = id => f.pc = "get"
WatchesHold == WatchesAgree(hub) /\ Idles(hub) /\ (hub.up = "running" => \A id \in DOMAIN hub.inst : Each(hub, id))

\* The watches `new' are some of the watches `old', which may have ended.
Thinned(new, old) ==
    /\ \A x \in new : \E y \in old : x.n = y.n /\ x.id = y.id /\ (x.live => y.live)
    /\ \A x, y \in new : x.n = y.n => x = y

\* Fewer watches, of which fewer are the ones that count, agree.
LEMMA FewerAgree ==
    ASSUME NEW h, NEW g, WatchesAgree(h), Thinned(g.follows, h.follows),
           DOMAIN g.watchers \subseteq DOMAIN h.watchers, \A a \in DOMAIN g.watchers : g.watchers[a] = h.watchers[a],
           \A f \in g.follows : f.live => f.id \in DOMAIN g.watchers
    PROVE  WatchesAgree(g)
<1>1. IsFiniteSet(Numbers(g))
  <2>1. Numbers(g) \subseteq Numbers(h)
    BY DEF Numbers, Range, Thinned
  <2> QED
    BY <2>1, FS_Subset DEF WatchesAgree
<1>2. ASSUME NEW f \in g.follows PROVE
        /\ \A a \in DOMAIN g.watchers : f.n = g.watchers[a] => f.id = a
        /\ f.live => f.id \in DOMAIN g.watchers /\ g.watchers[f.id] = f.n
  <2>1. PICK y \in h.follows : f.n = y.n /\ f.id = y.id /\ (f.live => y.live)
    BY DEF Thinned
  <2> QED
    BY <2>1 DEF WatchesAgree
<1>3. /\ \A f, y \in g.follows : f.n = y.n => f = y
      /\ \A a, b \in DOMAIN g.watchers : g.watchers[a] = g.watchers[b] => a = b
  BY DEF WatchesAgree, Thinned
<1> QED
  BY <1>1, <1>2, <1>3 DEF WatchesAgree

\* A context that ends: its watch returns, or records the failure it saw first.
LEMMA CancelThins ==
    ASSUME NEW follows, \A f \in follows : FollowIs(f), \A f, g \in follows : f.n = g.n => f = g, NEW n
    PROVE  /\ Thinned(CancelFollows(follows), follows) /\ \A x \in CancelFollows(follows) : ~x.live
           /\ Thinned(Cancelled(follows, n), follows)
           /\ \A x \in Cancelled(follows, n) : x.live => x \in follows /\ x.n # n
           /\ \A x \in follows : x.n # n => x \in Cancelled(follows, n)
<1>1. ASSUME NEW F, F \subseteq follows, NEW x \in CancelFollows(F)
      PROVE  ~x.live /\ \E y \in F : x.n = y.n /\ x.id = y.id /\ x = [y EXCEPT !.live = FALSE]
  <2>1. PICK y \in F : y.pc = "failed" /\ x = [y EXCEPT !.live = FALSE]
    BY <1>1 DEF CancelFollows
  <2>2. FollowFields \subseteq DOMAIN y
    BY <1>1, <2>1 DEF FollowIs
  <2>3. x.n = y.n /\ x.id = y.id /\ x.live = FALSE
    BY <2>1, <2>2 DEF FollowFields
  <2> QED
    BY <2>1, <2>3
<1>2. ASSUME NEW F, F \subseteq follows, NEW x \in CancelFollows(F), NEW z \in CancelFollows(F), x.n = z.n PROVE x = z
  <2>1. PICK y \in F : x.n = y.n /\ x = [y EXCEPT !.live = FALSE]
    BY <1>1, <1>2
  <2>2. PICK w \in F : z.n = w.n /\ z = [w EXCEPT !.live = FALSE]
    BY <1>1, <1>2
  <2>3. y = w
    BY <1>2, <2>1, <2>2
  <2> QED
    BY <2>1, <2>2, <2>3
<1>3. Thinned(CancelFollows(follows), follows) /\ \A x \in CancelFollows(follows) : ~x.live
  BY <1>1, <1>2 DEF Thinned
<1>4. PICK A, B, F : A = {f \in follows : f.n # n} /\ F = {f \in follows : f.n = n} /\ B = CancelFollows(F)
  OBVIOUS
<1>5. Cancelled(follows, n) = A \cup B
  BY <1>4 DEF Cancelled
<1>6. \A x \in B : ~x.live /\ x.n = n /\ \E y \in F : x.n = y.n /\ x.id = y.id
  BY <1>1, <1>4
<1>7. \A x, z \in B : x.n = z.n => x = z
  BY <1>2, <1>4
<1>8. Thinned(A \cup B, follows)
  BY <1>4, <1>6, <1>7 DEF Thinned
<1> QED
  BY <1>3, <1>4, <1>5, <1>6, <1>8

\* A number that no watch has.
LEMMA NumberIsFree ==
    ASSUME NEW h, IsFiniteSet(Numbers(h))
    PROVE  FreeNumber(h) \notin Numbers(h)
<1>1. PICK N, k : N = Numbers(h) /\ k = Cardinality(N)
  OBVIOUS
<1>2. k \in Nat /\ IsFiniteSet(N)
  BY <1>1, FS_CardinalityType
<1>3. \E n \in 1..(k + 1) : n \notin N
  <2>1. SUFFICES ASSUME \A n \in 1..(k + 1) : n \in N PROVE FALSE
    OBVIOUS
  <2>2. Cardinality(1..(k + 1)) = k + 1
    BY <1>2, FS_Interval
  <2>3. 1..(k + 1) \in SUBSET N
    BY <2>1
  <2>4. Cardinality(1..(k + 1)) <= k
    BY <1>1, <1>2, <2>3, FS_Subset
  <2> QED
    BY <1>2, <2>2, <2>4
<1>4. FreeNumber(h) = CHOOSE n \in 1..(k + 1) : n \notin N
  BY <1>1 DEF FreeNumber
<1> QED
  BY <1>1, <1>3, <1>4

\* The live watches of the other instances go on.
OthersGoOn(g, h, id) == \A x : x.live /\ x.id # id => (x \in g.follows <=> x \in h.follows)
SameBut(g, h) ==
    /\ HubFields \subseteq DOMAIN g /\ g.inst = h.inst /\ g.up = h.up /\ g.calls = h.calls /\ g.starting = h.starting
    /\ g.files = h.files /\ g.now = h.now /\ g.favorites = h.favorites /\ g.order = h.order

\* cancelWatchLocked: no watch of the instance is live any more.
LEMMA UnwatchIs ==
    ASSUME NEW h, HubFields \subseteq DOMAIN h, \A f \in h.follows : FollowIs(f), WatchesAgree(h), Idles(h), NEW id,
           NEW g, g = Unwatch(h, id)
    PROVE  /\ WatchesAgree(g) /\ Idles(g) /\ SameBut(g, h) /\ OthersGoOn(g, h, id)
           /\ \A f \in g.follows : f.live => f.id # id
<1>1. CASE id \notin DOMAIN h.watchers
  <2>1. g = h
    BY <1>1 DEF Unwatch
  <2>2. \A f \in h.follows : f.live => f.id # id
    BY <1>1 DEF WatchesAgree
  <2> QED
    BY <2>1, <2>2 DEF SameBut, OthersGoOn
<1>2. CASE id \in DOMAIN h.watchers
  <2>1. PICK n, rest, w : n = h.watchers[id] /\ rest = Cancelled(h.follows, n) /\ w = Restrict(h.watchers, DOMAIN h.watchers \ {id})
    OBVIOUS
  <2>2. g = [h EXCEPT !.follows = rest, !.watchers = w]
    BY <1>2, <2>1 DEF Unwatch
  <2>3. SameBut(g, h) /\ g.follows = rest /\ g.watchers = w
    BY <2>2 DEF SameBut, HubFields
  <2>4. /\ Thinned(rest, h.follows) /\ (\A x \in rest : x.live => x \in h.follows /\ x.n # n)
        /\ \A x \in h.follows : x.n # n => x \in rest
    <3>1. \A f, x \in h.follows : f.n = x.n => f = x
      BY DEF WatchesAgree
    <3> QED
      BY <2>1, <3>1, CancelThins
  <2>5. DOMAIN w = DOMAIN h.watchers \ {id} /\ \A a \in DOMAIN w : w[a] = h.watchers[a]
    BY <2>1 DEF Restrict
  <2>6. \A f \in rest : f.live => f.id # id /\ f.id \in DOMAIN w
    BY <2>1, <2>4, <2>5 DEF WatchesAgree
  <2>7. WatchesAgree(g)
    BY <2>3, <2>4, <2>5, <2>6, FewerAgree
  <2>8. OthersGoOn(g, h, id)
    <3>1. ASSUME NEW x, x.live, x.id # id PROVE x \in rest <=> x \in h.follows
      <4>1. x \in h.follows => x.n # n
        BY <1>2, <2>1, <3>1 DEF WatchesAgree
      <4> QED
        BY <2>4, <3>1, <4>1
    <3> QED
      BY <2>3, <3>1 DEF OthersGoOn
  <2>9. Idles(g)
    <3>1. CASE h.up \in {"down", "new"}
      <4>1. h.watchers = <<>>
        BY <3>1 DEF Idles
      <4> QED
        BY <1>2, <4>1
    <3>2. CASE h.up \notin {"down", "new"}
      BY <2>3, <3>2 DEF Idles, SameBut
    <3> QED
      BY <3>1, <3>2
  <2> QED
    BY <2>3, <2>6, <2>7, <2>8, <2>9
<1> QED
  BY <1>1, <1>2

\* watch: while the hub runs, the instance has a live one, which begins.
LEMMA WatchIs ==
    ASSUME NEW h, HubFields \subseteq DOMAIN h, \A f \in h.follows : FollowIs(f), WatchesAgree(h), Idles(h), NEW id,
           NEW g, g = Watch(h, id)
    PROVE  /\ WatchesAgree(g) /\ Idles(g) /\ SameBut(g, h) /\ OthersGoOn(g, h, id)
           /\ h.up = "running" => /\ \E f \in g.follows : f.live /\ f.id = id
                                  /\ \A f \in g.follows : f.live /\ f.id = id => f.pc = "get"
<1>1. PICK rest, n, w : /\ rest = IF id \in DOMAIN h.watchers THEN Cancelled(h.follows, h.watchers[id]) ELSE h.follows
                        /\ n = FreeNumber(h) /\ w = Put(h.watchers, id, n)
  OBVIOUS
<1>2. g = IF h.up # "running" THEN [h EXCEPT !.follows = rest] ELSE [h EXCEPT !.follows = rest \cup {NewFollow(n, id)}, !.watchers = w]
  BY <1>1 DEF Watch
<1>3. /\ Thinned(rest, h.follows) /\ (\A x \in rest : x.live => x \in h.follows /\ x.id # id)
      /\ \A x \in h.follows : x.live /\ x.id # id => x \in rest
  <2>1. CASE id \in DOMAIN h.watchers
    <3>1. PICK m : m = h.watchers[id]
      OBVIOUS
    <3>2. /\ Thinned(rest, h.follows) /\ (\A x \in rest : x.live => x \in h.follows /\ x.n # m)
          /\ \A x \in h.follows : x.n # m => x \in rest
      BY <1>1, <2>1, <3>1, CancelThins DEF WatchesAgree
    <3>3. \A x \in h.follows : x.live => (x.n # m <=> x.id # id)
      BY <2>1, <3>1 DEF WatchesAgree
    <3> QED
      BY <3>2, <3>3
  <2>2. CASE id \notin DOMAIN h.watchers
    BY <1>1, <2>2 DEF WatchesAgree, Thinned
  <2> QED
    BY <2>1, <2>2
<1>4. OthersGoOn([h EXCEPT !.follows = rest], h, id)
  BY <1>3 DEF OthersGoOn, HubFields
<1>5. CASE h.up # "running"
  <2>1. SameBut(g, h) /\ g.follows = rest /\ g.watchers = h.watchers
    BY <1>2, <1>5 DEF SameBut, HubFields
  <2>2. WatchesAgree(g)
    <3>1. \A f \in rest : f.live => f.id \in DOMAIN h.watchers
      BY <1>3 DEF WatchesAgree
    <3> QED
      BY <1>3, <2>1, <3>1, FewerAgree
  <2>3. Idles(g)
    BY <1>3, <2>1 DEF Idles, SameBut, Thinned
  <2>4. OthersGoOn(g, h, id)
    BY <1>3, <2>1 DEF OthersGoOn
  <2> QED
    BY <1>5, <2>1, <2>2, <2>3, <2>4
<1>6. CASE h.up = "running"
  <2>1. PICK new : new = NewFollow(n, id)
    OBVIOUS
  <2>2. new.n = n /\ new.id = id /\ new.live /\ new.pc = "get"
    BY <2>1 DEF NewFollow
  <2>3. SameBut(g, h) /\ g.follows = rest \cup {new} /\ g.watchers = w
    BY <1>2, <1>6, <2>1 DEF SameBut, HubFields
  <2>4. n \notin Numbers(h)
    BY <1>1, NumberIsFree DEF WatchesAgree
  <2>5. (\A f \in h.follows : f.n # n) /\ (\A a \in DOMAIN h.watchers : h.watchers[a] # n)
    BY <2>4 DEF Numbers, Range
  <2>6. /\ DOMAIN w = DOMAIN h.watchers \cup {id} /\ w[id] = n
        /\ \A a \in DOMAIN h.watchers \ {id} : w[a] = h.watchers[a]
    BY <1>1 DEF Put
  <2>7. \A f \in rest : f.n # n /\ \E y \in h.follows : f.n = y.n /\ f.id = y.id /\ (f.live => y.live)
    BY <1>3, <2>5 DEF Thinned
  <2>8. WatchesAgree(g)
    <3>1. IsFiniteSet(Numbers(g))
      <4>1. Numbers(g) \subseteq Numbers(h) \cup {n}
        <5>1. ASSUME NEW f \in g.follows PROVE f.n \in Numbers(h) \cup {n}
          BY <2>2, <2>3, <2>7 DEF Numbers
        <5>2. ASSUME NEW a \in DOMAIN w PROVE w[a] \in Numbers(h) \cup {n}
          BY <2>6 DEF Numbers, Range
        <5> QED
          BY <2>3, <5>1, <5>2 DEF Numbers, Range
      <4>2. IsFiniteSet(Numbers(h) \cup {n})
        BY FS_AddElement DEF WatchesAgree
      <4> QED
        BY <4>1, <4>2, FS_Subset
    <3>2. \A f, x \in g.follows : f.n = x.n => f = x
      BY <1>3, <2>2, <2>3, <2>7 DEF Thinned
    <3>3. \A a, b \in DOMAIN w : w[a] = w[b] => a = b
      BY <2>5, <2>6 DEF WatchesAgree
    <3>4. ASSUME NEW f \in g.follows, NEW a \in DOMAIN w, f.n = w[a] PROVE f.id = a
      <4>1. CASE f = new
        BY <2>2, <2>5, <2>6, <3>4, <4>1
      <4>2. CASE f \in rest
        <5>1. PICK y \in h.follows : f.n = y.n /\ f.id = y.id
          BY <2>7, <4>2
        <5>2. a # id /\ a \in DOMAIN h.watchers /\ w[a] = h.watchers[a]
          BY <2>6, <2>7, <3>4, <4>2
        <5> QED
          BY <3>4, <5>1, <5>2 DEF WatchesAgree
      <4> QED
        BY <2>3, <4>1, <4>2
    <3>5. ASSUME NEW f \in g.follows, f.live PROVE f.id \in DOMAIN w /\ w[f.id] = f.n
      <4>1. CASE f = new
        BY <2>2, <2>6, <4>1
      <4>2. CASE f \in rest
        BY <1>3, <2>6, <3>5, <4>2 DEF WatchesAgree
      <4> QED
        BY <2>3, <4>1, <4>2
    <3> QED
      BY <2>3, <3>1, <3>2, <3>3, <3>4, <3>5 DEF WatchesAgree
  <2>9. OthersGoOn(g, h, id)
    BY <1>3, <2>2, <2>3 DEF OthersGoOn
  <2>10. Idles(g)
    BY <1>6, <2>3 DEF Idles, SameBut
  <2>11. \A f \in g.follows : f.live /\ f.id = id => f.pc = "get"
    BY <1>3, <2>2, <2>3
  <2> QED
    BY <2>2, <2>3, <2>8, <2>9, <2>10, <2>11
<1> QED
  BY <1>5, <1>6

\* What the watch of the instance id, as a step finds it and leaves it, keeps.
LEMMA EachStays ==
    ASSUME NEW h, NEW g, NEW id, Each(h, id),
           g.inst[id].conn = "stopped" <=> h.inst[id].conn = "stopped",
           id \notin g.starting => id \notin h.starting,
           \A c \in h.calls : c.id = id /\ c.pc \in {"watch", "remove", "unwatch"} => \E d \in g.calls : d.id = id /\ d.pc = c.pc,
           g.inst[id].conn # "stopped" /\ (\E f \in h.follows : f.live /\ f.id = id) => \E f \in g.follows : f.live /\ f.id = id,
           g.inst[id].conn = "stopped" =>
               \A f \in g.follows : f.live /\ f.id = id => f.pc = "get" \/ \E x \in h.follows : x.live /\ x.id = id /\ x.pc # "get"
    PROVE  Each(g, id)
<1>1. (Pending(h, id, {"watch", "remove"}) => Pending(g, id, {"watch", "remove"})) /\ (Pending(h, id, {"unwatch"}) => Pending(g, id, {"unwatch"}))
  BY DEF Pending
<1> QED
  BY <1>1 DEF Each

\* What Update leaves of the instances' connections, and of the watches.
LEMMA UpdateConnects ==
    ASSUME HubIInv, NEW id, NEW to, IsInst(to), NEW calls, NEW follows, Update(id, to, calls, follows)
    PROVE  /\ HubFields \subseteq DOMAIN hub' /\ hub'.up = hub.up /\ hub'.calls = calls /\ hub'.follows = follows
           /\ hub'.watchers = hub.watchers /\ hub'.starting = hub.starting
           /\ DOMAIN hub'.inst = DOMAIN hub.inst \cup {id} /\ hub'.inst[id].conn = to.conn
           /\ \A x \in DOMAIN hub.inst \ {id} : hub'.inst[x].conn = hub.inst[x].conn
<1>1. PICK inst, files : inst = WithInstance(id, to) /\ hub' = [hub EXCEPT !.inst = inst, !.calls = calls, !.follows = follows, !.files = files]
  BY DEF Update
<1>2. /\ HubFields \subseteq DOMAIN hub' /\ hub'.up = hub.up /\ hub'.calls = calls /\ hub'.follows = follows
      /\ hub'.watchers = hub.watchers /\ hub'.starting = hub.starting /\ hub'.inst = inst
  BY <1>1 DEF HubIInv, HubTyped, HubFields
<1>3. DOMAIN inst = DOMAIN hub.inst \cup {id} /\ inst[id].conn = to.conn /\ \A x \in DOMAIN hub.inst \ {id} : inst[x].conn = hub.inst[x].conn
  <2>1. \A x \in DOMAIN hub.inst : IsInst(hub.inst[x])
    BY DEF HubIInv, HubTyped
  <2>2. /\ DOMAIN inst = DOMAIN hub.inst \cup {id} /\ SameInst(inst[id], to)
        /\ \A x \in DOMAIN hub.inst \ {id} : SameInst(inst[x], hub.inst[x])
    BY <1>1, <2>1, WithInstanceKeeps
  <2> QED
    BY <2>2 DEF SameInst
<1> QED
  BY <1>2, <1>3

\* A watch that goes on as the same one.
LEMMA GoingOnAgrees ==
    ASSUME NEW h, WatchesAgree(h), NEW f \in h.follows, NEW g, g.n = f.n, g.id = f.id, g.live = f.live,
           NEW new, new.watchers = h.watchers, new.follows \in {h.follows \ {f}, (h.follows \ {f}) \cup {g}}
    PROVE  WatchesAgree(new)
<1>1. Thinned(new.follows, h.follows)
  BY DEF Thinned, WatchesAgree
<1>2. \A x \in new.follows : x.live => x.id \in DOMAIN new.watchers
  BY DEF WatchesAgree
<1> QED
  BY <1>1, <1>2, FewerAgree

\* A step that leaves the watches, and of the calls those that change them.
LEMMA WatchesGoOn ==
    ASSUME WatchesHold, hub'.up = hub.up, hub'.follows = hub.follows, hub'.watchers = hub.watchers, hub'.starting = hub.starting,
           \A id \in DOMAIN hub'.inst :
               \/ Each(hub', id)
               \/ /\ id \in DOMAIN hub.inst /\ (hub'.inst[id].conn = "stopped" <=> hub.inst[id].conn = "stopped")
                  /\ \A c \in hub.calls : c.id = id /\ c.pc \in {"watch", "remove", "unwatch"} => c \in hub'.calls
    PROVE  WatchesHold'
<1>1. WatchesAgree(hub)' /\ Idles(hub)'
  BY DEF WatchesHold, WatchesAgree, Idles, Numbers
<1>2. ASSUME hub'.up = "running", NEW id \in DOMAIN hub'.inst PROVE Each(hub', id)
  <2>1. CASE Each(hub', id)
    BY <2>1
  <2>2. CASE ~Each(hub', id)
    <3>1. Each(hub, id)
      BY <1>2, <2>2 DEF WatchesHold
    <3> QED
      BY <2>2, <3>1, EachStays
  <2> QED
    BY <2>1, <2>2
<1>3. \A id : Each(hub, id)' <=> Each(hub', id)
  BY DEF Each, Pending
<1> QED
  BY <1>1, <1>2, <1>3 DEF WatchesHold

\* The steps that leave the instances, the calls and the watches.
LEMMA NothingWatches ==
    ASSUME WatchesHold, hub'.up = hub.up, hub'.follows = hub.follows, hub'.watchers = hub.watchers, hub'.starting = hub.starting,
           hub'.inst = hub.inst, \A c \in hub.calls : c.pc \in {"watch", "remove", "unwatch"} => c \in hub'.calls
    PROVE  WatchesHold'
  BY WatchesGoOn

\* A step of a watch that goes on, or returns, where no instance changes much.
LEMMA FollowSteps ==
    ASSUME TrackHolds, WatchesHold, NEW f \in hub.follows, NEW g, g.n = f.n, g.id = f.id, g.live = f.live,
           hub'.up = hub.up, hub'.calls = hub.calls, hub'.starting = hub.starting, hub'.watchers = hub.watchers,
           hub'.follows \in {hub.follows \ {f}, (hub.follows \ {f}) \cup {g}},
           \A id \in DOMAIN hub'.inst : id \in DOMAIN hub.inst /\ (hub'.inst[id].conn = "stopped" <=> hub.inst[id].conn = "stopped"),
           hub'.follows = hub.follows \ {f} => ~f.live \/ f.id \notin DOMAIN hub'.inst \/ hub'.inst[f.id].conn = "stopped",
           hub'.follows # hub.follows \ {f} /\ f.id \in DOMAIN hub'.inst /\ hub'.inst[f.id].conn = "stopped" => g.pc = "get" \/ f.pc # "get",
           hub.up # "down"
    PROVE  WatchesHold'
<1>1. WatchesAgree(hub')
  BY GoingOnAgrees DEF WatchesHold
<1>2. Idles(hub')
  BY DEF WatchesHold, Idles
<1>3. ASSUME hub'.up = "running", NEW id \in DOMAIN hub'.inst PROVE Each(hub', id)
  <2>1. Each(hub, id)
    BY <1>3 DEF WatchesHold
  <2>2. ASSUME hub'.inst[id].conn # "stopped", NEW x \in hub.follows, x.live, x.id = id PROVE \E y \in hub'.follows : y.live /\ y.id = id
    <3>1. CASE x = f
      BY <1>3, <2>2, <3>1
    <3>2. CASE x # f
      BY <2>2, <3>2
    <3> QED
      BY <3>1, <3>2
  <2>3. ASSUME hub'.inst[id].conn = "stopped", NEW x \in hub'.follows, x.live, x.id = id
        PROVE  x.pc = "get" \/ \E y \in hub.follows : y.live /\ y.id = id /\ y.pc # "get"
    <3>1. CASE x \in hub.follows
      BY <2>3, <3>1
    <3>2. CASE x \notin hub.follows
      BY <1>3, <2>3, <3>2
    <3> QED
      BY <3>1, <3>2
  <2> QED
    BY <1>3, <2>1, <2>2, <2>3, EachStays
<1>4. WatchesAgree(hub)' /\ Idles(hub)' /\ \A id : Each(hub, id)' <=> Each(hub', id)
  BY <1>1, <1>2 DEF Each, Pending, WatchesAgree, Idles, Numbers
<1> QED
  BY <1>3, <1>4 DEF WatchesHold

\* The watches' own steps.
LEMMA FollowsWatch ==
    ASSUME HubIInv, TrackHolds, WatchesHold, NEW f \in hub.follows,
           FollowGets(f) \/ FollowFails(f) \/ FollowRetries(f)
    PROVE  WatchesHold'
<1>1. HubFields \subseteq DOMAIN hub /\ FollowFields \subseteq DOMAIN f
  BY TrackTypes DEF FollowIs
<1>2. ASSUME NEW g, hub' = [hub EXCEPT !.follows = g]
      PROVE  /\ hub'.follows = g /\ hub'.up = hub.up /\ hub'.calls = hub.calls /\ hub'.starting = hub.starting
             /\ hub'.watchers = hub.watchers /\ hub'.inst = hub.inst
  BY <1>1, <1>2 DEF HubFields
<1>3. CASE FollowGets(f)
  <2>1. PICK g : g = [f EXCEPT !.pc = "read", !.url = hub.inst[f.id].url, !.heard = Never]
    OBVIOUS
  <2>2. g.n = f.n /\ g.id = f.id /\ g.live = f.live
    BY <1>1, <2>1 DEF FollowFields
  <2>3. PICK follows : /\ follows = IF f.id \notin DOMAIN hub.inst \/ hub.inst[f.id].conn = "stopped" THEN hub.follows \ {f} ELSE (hub.follows \ {f}) \cup {g}
                       /\ hub' = [hub EXCEPT !.follows = follows] /\ hub.up # "down"
    BY <1>3, <2>1 DEF FollowGets, Without, To
  <2>4. g.pc = "read" /\ f.pc = "get"
    BY <1>1, <1>3, <2>1 DEF FollowFields, FollowGets
  <2>5. follows = hub.follows \ {f} => f.id \notin DOMAIN hub.inst \/ hub.inst[f.id].conn = "stopped"
    <3>1. g \notin hub.follows \ {f}
      BY <2>2 , <2>4 DEF WatchesHold, WatchesAgree
    <3> QED
      BY <2>3, <3>1
  <2> QED
    BY <1>2, <2>2, <2>3, <2>5, FollowSteps
<1>4. CASE FollowFails(f) \/ FollowRetries(f)
  <2>1. PICK g : /\ hub' = [hub EXCEPT !.follows = (hub.follows \ {f}) \cup {g}] /\ hub.up # "down"
                 /\ g.n = f.n /\ g.id = f.id /\ g.live = f.live /\ (g.pc = "get" \/ f.pc # "get")
    <3>1. CASE FollowFails(f)
      <4>1. PICK g : g = [f EXCEPT !.pc = "failed", !.failing = IF @ = Never THEN hub.now ELSE @,
                           !.err = IF hubWorld.net[f.url] = NoAnswer THEN "down" ELSE "other", !.other = hubWorld.net[f.url].id]
        OBVIOUS
      <4>2. hub.up # "down" /\ f.pc = "read"
        BY <3>1 DEF FollowFails
      <4>3. hub' = [hub EXCEPT !.follows = (hub.follows \ {f}) \cup {g}]
        BY <3>1, <4>1 DEF FollowFails, To
      <4>4. g.n = f.n /\ g.id = f.id /\ g.live = f.live
        BY <1>1, <4>1 DEF FollowFields
      <4> QED
        BY <4>2, <4>3, <4>4
    <3>2. CASE FollowRetries(f)
      <4>1. PICK g : g = [f EXCEPT !.pc = "get", !.err = "", !.other = 0]
        OBVIOUS
      <4>2. hub' = [hub EXCEPT !.follows = (hub.follows \ {f}) \cup {g}] /\ hub.up # "down"
        BY <3>2, <4>1 DEF FollowRetries, To
      <4>3. g.n = f.n /\ g.id = f.id /\ g.live = f.live /\ g.pc = "get"
        BY <1>1, <4>1 DEF FollowFields
      <4> QED
        BY <4>2, <4>3
    <3> QED
      BY <1>4, <3>1, <3>2
  <2>2. g \in hub'.follows
    BY <1>2, <2>1
  <2>3. hub'.follows = hub.follows \ {f} => ~f.live
    BY <2>1, <2>2 DEF WatchesHold, WatchesAgree
  <2> QED
    BY <1>2, <2>1, <2>3, FollowSteps
<1> QED
  BY <1>3, <1>4

\* A watch that reads a summary.
LEMMA FollowReadsWatches ==
    ASSUME HubIInv, TrackHolds, WatchesHold, NEW f \in hub.follows, FollowReads(f)
    PROVE  WatchesHold'
<1>1. HubFields \subseteq DOMAIN hub /\ FollowFields \subseteq DOMAIN f
  BY TrackTypes DEF FollowIs
<1>2. PICK g, s : /\ g = [f EXCEPT !.failing = Never, !.heard = hub.now]
                  /\ s = [run |-> hubWorld.net[f.url].run, does |-> hubWorld.net[f.url].does]
  OBVIOUS
<1>3. g.n = f.n /\ g.id = f.id /\ g.live = f.live /\ g.pc = "read" /\ f.pc = "read" /\ hub.up # "down"
  BY <1>1, <1>2 DEF FollowFields, FollowReads
<1>4. IF f.id \in DOMAIN hub.inst
      THEN Update(f.id, ApplySummary(f, hub.inst[f.id], s), hub.calls, To(f, g))
      ELSE hub' = [hub EXCEPT !.follows = To(f, g)]
  BY <1>2 DEF FollowReads
<1>5. /\ hub'.up = hub.up /\ hub'.calls = hub.calls /\ hub'.starting = hub.starting /\ hub'.watchers = hub.watchers
      /\ hub'.follows = (hub.follows \ {f}) \cup {g} /\ DOMAIN hub'.inst = DOMAIN hub.inst
      /\ \A id \in DOMAIN hub.inst : hub'.inst[id].conn = "stopped" <=> hub.inst[id].conn = "stopped"
  <2>1. CASE f.id \in DOMAIN hub.inst
    <3>1. PICK i, to : i = hub.inst[f.id] /\ to = ApplySummary(f, i, s)
      OBVIOUS
    <3>2. IsInst(i)
      BY <2>1, <3>1 DEF HubIInv, HubTyped
    <3>3. IsInst(to) /\ (to.conn = "stopped" <=> i.conn = "stopped")
      <4>1. CASE i.conn = "stopped" \/ i.url # f.url
        <5>1. to = i
          BY <3>1, <4>1 DEF ApplySummary
        <5> QED
          BY <3>2, <5>1
      <4>2. CASE ~(i.conn = "stopped" \/ i.url # f.url)
        <5>1. PICK m : m = IF i.muted = AttentionKey(s) THEN i.muted ELSE ""
          OBVIOUS
        <5>2. to = [i EXCEPT !.muted = m, !.summary = s, !.conn = "connected", !.err = "",
                             !.answeredBy = 0, !.failed = FALSE, !.confirmed = f.url, !.last = hub.now, !.run = s.run]
          BY <3>1, <4>2, <5>1 DEF ApplySummary
        <5>3. DOMAIN to = DOMAIN i /\ to.conn = "connected"
          BY <3>2, <5>2 DEF IsInst, InstFields
        <5> QED
          BY <3>2, <4>2, <5>3 DEF IsInst
      <4> QED
        BY <4>1, <4>2
    <3>4. Update(f.id, to, hub.calls, (hub.follows \ {f}) \cup {g})
      BY <1>4, <2>1, <3>1 DEF To
    <3>5. /\ hub'.up = hub.up /\ hub'.calls = hub.calls /\ hub'.starting = hub.starting /\ hub'.watchers = hub.watchers
          /\ hub'.follows = (hub.follows \ {f}) \cup {g} /\ DOMAIN hub'.inst = DOMAIN hub.inst \cup {f.id}
          /\ hub'.inst[f.id].conn = to.conn /\ \A x \in DOMAIN hub.inst \ {f.id} : hub'.inst[x].conn = hub.inst[x].conn
      BY <3>3, <3>4, UpdateConnects
    <3> QED
      BY <2>1, <3>1, <3>3, <3>5
  <2>2. CASE f.id \notin DOMAIN hub.inst
    <3>1. hub' = [hub EXCEPT !.follows = (hub.follows \ {f}) \cup {g}]
      BY <1>4, <2>2 DEF To
    <3> QED
      BY <1>1, <3>1 DEF HubFields
  <2> QED
    BY <2>1, <2>2
<1>6. hub'.follows = hub.follows \ {f} => ~f.live
  BY <1>3, <1>5 DEF WatchesHold, WatchesAgree
<1> QED
  BY <1>3, <1>5, <1>6, FollowSteps

\* A watch whose stream failed: one that finds its instance stopped for good ends.
LEMMA FollowFailedWatches ==
    ASSUME HubIInv, TrackHolds, WatchesHold, NEW f \in hub.follows, FollowFailed(f)
    PROVE  WatchesHold'
<1>1. HubFields \subseteq DOMAIN hub /\ FollowFields \subseteq DOMAIN f
  BY TrackTypes DEF FollowIs
<1>2. PICK g : g = [f EXCEPT !.pc = "wait"]
  OBVIOUS
<1>3. g.n = f.n /\ g.id = f.id /\ g.live = f.live /\ g.pc = "wait" /\ f.pc = "failed" /\ hub.up # "down"
  BY <1>1, <1>2 DEF FollowFields, FollowFailed
<1>4. g \notin hub.follows \ {f}
  BY <1>3 DEF WatchesHold, WatchesAgree
<1>5. CASE f.id \in DOMAIN hub.inst
  <2>1. PICK i, to : i = hub.inst[f.id] /\ to = Failed(f, i)
    OBVIOUS
  <2>2. IsInst(i)
    BY <1>5, <2>1 DEF HubIInv, HubTyped
  <2>3. IsInst(to) /\ (~f.live \/ i.conn = "stopped" => to = i)
    BY <2>1, <2>2 DEF Failed, IsInst, InstFields
  <2>4. PICK follows : follows = IF ~f.live \/ (to.conn = "stopped" /\ i.conn # "stopped") THEN hub.follows \ {f} ELSE (hub.follows \ {f}) \cup {g}
    OBVIOUS
  <2>5. Update(f.id, to, hub.calls, follows)
    BY <1>2, <1>5, <2>1, <2>4 DEF FollowFailed, Without, To
  <2>6. /\ hub'.up = hub.up /\ hub'.calls = hub.calls /\ hub'.starting = hub.starting /\ hub'.watchers = hub.watchers
        /\ hub'.follows = follows /\ DOMAIN hub'.inst = DOMAIN hub.inst
        /\ hub'.inst[f.id].conn = to.conn /\ \A x \in DOMAIN hub.inst \ {f.id} : hub'.inst[x].conn = hub.inst[x].conn
    <3>1. IsInst(to)
      BY <2>3
    <3>2. /\ hub'.up = hub.up /\ hub'.calls = hub.calls /\ hub'.starting = hub.starting /\ hub'.watchers = hub.watchers
          /\ hub'.follows = follows /\ DOMAIN hub'.inst = DOMAIN hub.inst \cup {f.id}
          /\ hub'.inst[f.id].conn = to.conn
      BY <2>5, <3>1, UpdateConnects
    <3>3. \A x \in DOMAIN hub.inst \ {f.id} : hub'.inst[x].conn = hub.inst[x].conn
      BY <2>5, <3>1, UpdateConnects
    <3> QED
      BY <1>5, <3>2, <3>3
  <2>7. CASE to.conn = "stopped" /\ i.conn # "stopped"
    <3>1. follows = hub.follows \ {f} /\ f.live
      BY <2>3, <2>4, <2>7
    <3>2. \A x \in follows : x.live => x.id # f.id
      BY <3>1 DEF WatchesHold, WatchesAgree
    <3>3. WatchesAgree(hub') /\ Idles(hub')
      BY <1>3, <2>6, <3>1, GoingOnAgrees DEF WatchesHold, Idles
    <3>4. ASSUME hub'.up = "running", NEW id \in DOMAIN hub'.inst PROVE Each(hub', id)
      <4>1. CASE id = f.id
        BY <2>6, <2>7, <3>2, <4>1 DEF Each
      <4>2. CASE id # f.id
        <5>1. Each(hub, id)
          BY <2>6, <3>4 DEF WatchesHold
        <5>2. \A x \in follows : x \in hub.follows
          BY <3>1
        <5>3. \A x \in hub.follows : x.id = id => x \in follows
          BY <3>1, <4>2
        <5> QED
          BY <2>6, <3>4, <4>2, <5>1, <5>2, <5>3, EachStays
      <4> QED
        BY <4>1, <4>2
    <3>5. WatchesAgree(hub)' /\ Idles(hub)' /\ \A id : Each(hub, id)' <=> Each(hub', id)
      BY <3>3 DEF Each, Pending, WatchesAgree, Idles, Numbers
    <3> QED
      BY <3>4, <3>5 DEF WatchesHold
  <2>8. CASE ~(to.conn = "stopped" /\ i.conn # "stopped")
    <3>1. \A id \in DOMAIN hub'.inst : id \in DOMAIN hub.inst /\ (hub'.inst[id].conn = "stopped" <=> hub.inst[id].conn = "stopped")
      BY <2>1, <2>3, <2>6, <2>8
    <3>2. follows = hub.follows \ {f} => ~f.live
      BY <1>4, <2>4, <2>8
    <3> QED
      BY <1>3, <2>4, <2>6, <3>1, <3>2, FollowSteps
  <2> QED
    BY <2>7, <2>8
<1>6. CASE f.id \notin DOMAIN hub.inst
  <2>1. PICK follows : follows = IF f.live THEN (hub.follows \ {f}) \cup {g} ELSE hub.follows \ {f}
    OBVIOUS
  <2>2. hub' = [hub EXCEPT !.follows = follows]
    BY <1>2, <1>6, <2>1 DEF FollowFailed, Without, To
  <2>3. /\ hub'.follows = follows /\ hub'.up = hub.up /\ hub'.calls = hub.calls /\ hub'.starting = hub.starting
        /\ hub'.watchers = hub.watchers /\ hub'.inst = hub.inst
    BY <1>1, <2>2 DEF HubFields
  <2> QED
    BY <1>3, <1>4, <2>1, <2>3, FollowSteps
<1> QED
  BY <1>5, <1>6

\* The calls that a handler's step leaves, and the one it goes on as.
LEMMA CallsPend ==
    ASSUME HubIInv, TrackHolds, NEW c \in hub.calls, NEW pc \in {"watch", "unwatch", "update"}
    PROVE  /\ [c EXCEPT !.pc = pc] \in Then(c, pc) /\ [c EXCEPT !.pc = pc].id = c.id /\ [c EXCEPT !.pc = pc].pc = pc
           /\ \A x \in hub.calls : x # c => x \in CallDone(c) /\ x \in Then(c, pc)
<1>1. CallIs(c)
  BY TrackTypes
<1> QED
  BY <1>1 DEF CallIs, Then, CallDone

\* An event, or a page that adds an instance, changes the instance and then its watch.
LEMMA HandlersWatch ==
    ASSUME HubIInv, TrackHolds, WatchesHold, NEW c \in hub.calls, c.pc \notin {"watch", "unwatch", "remove"},
           NEW to, IsInst(to), NEW calls, NEW follows, Update(c.id, to, calls, follows), follows = hub.follows,
           \/ /\ calls = CallDone(c) /\ c.id \in DOMAIN hub.inst /\ (to.conn = "stopped" <=> hub.inst[c.id].conn = "stopped")
           \/ calls = Then(c, "watch") /\ to.conn # "stopped"
           \/ calls = Then(c, "unwatch") /\ to.conn = "stopped"
    PROVE  WatchesHold'
<1>1. /\ hub'.up = hub.up /\ hub'.calls = calls /\ hub'.follows = hub.follows
      /\ hub'.watchers = hub.watchers /\ hub'.starting = hub.starting
      /\ DOMAIN hub'.inst = DOMAIN hub.inst \cup {c.id} /\ hub'.inst[c.id].conn = to.conn
      /\ \A x \in DOMAIN hub.inst \ {c.id} : hub'.inst[x].conn = hub.inst[x].conn
  <2>1. hub'.up = hub.up /\ hub'.watchers = hub.watchers /\ hub'.starting = hub.starting
    BY UpdateConnects
  <2>4. hub'.calls = calls /\ hub'.follows = follows
    <3>1. PICK inst, files : hub' = [hub EXCEPT !.inst = inst, !.calls = calls, !.follows = follows, !.files = files]
      BY DEF Update
    <3> QED
      BY <3>1 DEF HubIInv, HubTyped, HubFields
  <2>2. DOMAIN hub'.inst = DOMAIN hub.inst \cup {c.id} /\ hub'.inst[c.id].conn = to.conn
    BY UpdateConnects
  <2>3. \A x \in DOMAIN hub.inst \ {c.id} : hub'.inst[x].conn = hub.inst[x].conn
    BY UpdateConnects
  <2> QED
    BY <2>1, <2>2, <2>3, <2>4
<1>2. \A x \in hub.calls : x.pc \in {"watch", "remove", "unwatch"} => x \in calls
  <2>1. \A x \in hub.calls : x # c => x \in CallDone(c) /\ x \in Then(c, "watch") /\ x \in Then(c, "unwatch")
    BY CallsPend
  <2> QED
    BY <2>1
<1>3. CASE /\ calls = CallDone(c) /\ c.id \in DOMAIN hub.inst /\ (to.conn = "stopped" <=> hub.inst[c.id].conn = "stopped")
  <2>1. \A id \in DOMAIN hub'.inst : id \in DOMAIN hub.inst /\ (hub'.inst[id].conn = "stopped" <=> hub.inst[id].conn = "stopped")
    BY <1>1, <1>3
  <2> QED
    BY <1>1, <1>2, <2>1, WatchesGoOn
<1>4. ASSUME NEW pc \in {"watch", "unwatch"}, calls = Then(c, pc), to.conn = "stopped" <=> pc = "unwatch" PROVE WatchesHold'
  <2>1. PICK d : d = [c EXCEPT !.pc = pc]
    OBVIOUS
  <2>2. d \in calls /\ d.id = c.id /\ d.pc = pc
    BY <1>4, <2>1, CallsPend
  <2>3. Pending(hub', c.id, {pc})
    BY <1>1, <2>2 DEF Pending
  <2>4. Each(hub', c.id)
    <3>1. CASE pc = "watch"
      <4>1. Pending(hub', c.id, {"watch", "remove"})
        BY <1>1, <2>2, <3>1 DEF Pending
      <4> QED
        BY <1>1, <1>4, <3>1, <4>1 DEF Each
    <3>2. CASE pc = "unwatch"
      BY <1>1, <1>4, <2>3, <3>2 DEF Each
    <3> QED
      BY <1>4, <3>1, <3>2
  <2>5. \A id \in DOMAIN hub'.inst \ {c.id} : id \in DOMAIN hub.inst /\ hub'.inst[id].conn = hub.inst[id].conn
    BY <1>1
  <2> QED
    BY <1>1, <1>2, <2>4, <2>5, WatchesGoOn
<1> QED
  BY <1>3, <1>4

\* What an event does to an instance's connection: the watch starts again, or goes on.
LEMMA UpsertedConnects ==
    ASSUME NEW i, IsInst(i), NEW e
    PROVE  /\ IsInst(Upserted(i, e))
           /\ Upserted(i, e).conn = IF Restarts(i, e) THEN "connecting" ELSE i.conn
           /\ ~Restarts(i, e) => i.url # Nowhere \/ e.url = Nowhere
<1>1. PICK to, restarts : to = Upserted(i, e) /\ restarts = Restarts(i, e)
  OBVIOUS
<1>2. CASE i.url \notin {Nowhere, e.url} /\ RefuseMove(i)
  <2>1. to = IF restarts THEN [i EXCEPT !.conn = "connecting", !.err = ""] ELSE i
    BY <1>1, <1>2 DEF Upserted
  <2>2. IsInst(to) /\ to.conn = IF restarts THEN "connecting" ELSE i.conn
    BY <2>1 DEF IsInst, InstFields
  <2> QED
    BY <1>1, <1>2, <2>2
<1>3. CASE ~(i.url \notin {Nowhere, e.url} /\ RefuseMove(i))
  <2>4. PICK moved, conn :
          moved = (i.url \notin {Nowhere, e.url}) /\ conn = IF restarts THEN "connecting" ELSE i.conn
    OBVIOUS
  <2>1. to = [i EXCEPT !.token = IF moved THEN Nowhere ELSE @, !.run = e.run, !.url = e.url, !.hb = e.hb,
                       !.source = IF @ = "none" THEN "webhook" ELSE @, !.last = hub.now,
                       !.conn = conn, !.err = IF restarts THEN "" ELSE @,
                       !.failed = @ /\ ~restarts, !.answeredBy = IF restarts THEN 0 ELSE @]
    BY <1>1, <1>3, <2>4 DEF Upserted
  <2>2. IsInst(to) /\ to.conn = conn
    BY <2>1 DEF IsInst, InstFields
  <2>3. ~restarts => i.url = e.url
    BY <1>1, <1>3 DEF Restarts
  <2> QED
    BY <1>1, <2>2, <2>3, <2>4
<1> QED
  BY <1>2, <1>3

\* An event's change of its instance keeps the watches.
LEMMA EventsWatch ==
    ASSUME HubIInv, TrackHolds, WatchesHold, NEW c \in hub.calls, HubUpserts(c) \/ HubStopped(c) \/ HubHears(c)
    PROVE  WatchesHold'
<1>1. c.pc = "handle" /\ HubFields \subseteq DOMAIN hub /\ \A x \in hub.calls : x # c => x \in CallDone(c)
  BY TrackTypes, CallsPend DEF HubUpserts, HubStopped, HubHears
<1>2. IsInst(Before(c.id)) /\ (c.id \in DOMAIN hub.inst => Before(c.id) = hub.inst[c.id]) /\ (c.id \notin DOMAIN hub.inst => Before(c.id) = NewInstance)
  BY BeforeHolds
<1>3. ASSUME hub' = [hub EXCEPT !.calls = CallDone(c)] PROVE WatchesHold'
  <2>1. /\ hub'.calls = CallDone(c) /\ hub'.up = hub.up /\ hub'.follows = hub.follows
        /\ hub'.watchers = hub.watchers /\ hub'.starting = hub.starting /\ hub'.inst = hub.inst
    BY <1>1, <1>3 DEF HubFields
  <2> QED
    BY <1>1, <2>1, NothingWatches
<1>4. PICK e, i : e = hubScope.mail[c.d] /\ i = Before(c.id)
  OBVIOUS
<1>5. CASE HubUpserts(c)
  <2>1. PICK to, calls : to = Upserted(i, e) /\ calls = IF Restarts(i, e) THEN Then(c, "watch") ELSE CallDone(c)
    OBVIOUS
  <2>2. Update(c.id, to, calls, hub.follows)
    BY <1>4, <1>5, <2>1 DEF HubUpserts
  <2>3. IsInst(to) /\ (to.conn = IF Restarts(i, e) THEN "connecting" ELSE i.conn) /\ (~Restarts(i, e) => i.url # Nowhere \/ e.url = Nowhere)
    BY <1>2, <1>4, <2>1, UpsertedConnects
  <2>4. e.url # Nowhere
    <3>1. c.d \in DOMAIN hubScope.mail /\ hubScope \in HubScopes
      BY <1>1 DEF HubIInv, HubTyped, CallHolds
    <3> QED
      BY <1>4, <3>1, HubAssumption
  <2>5. ~Restarts(i, e) => c.id \in DOMAIN hub.inst /\ to.conn = hub.inst[c.id].conn
    BY <1>2, <1>4, <2>3, <2>4, NewInstanceIs
  <2>6. CASE Restarts(i, e)
    <3>1. calls = Then(c, "watch") /\ to.conn # "stopped"
      BY <2>1, <2>3, <2>6
    <3> QED
      BY <1>1, <2>2, <2>3, <3>1, HandlersWatch
  <2>7. CASE ~Restarts(i, e)
    <3>1. calls = CallDone(c)
      BY <2>1, <2>7
    <3> QED
      BY <1>1, <2>2, <2>3, <2>5, <2>7, <3>1, HandlersWatch
  <2> QED
    BY <2>6, <2>7
<1>6. CASE HubStopped(c)
  <2>1. PICK to : to = [i EXCEPT !.conn = "stopped", !.err = "", !.answeredBy = 0, !.last = hub.now]
    OBVIOUS
  <2>2. \/ Update(c.id, to, Then(c, "unwatch"), hub.follows)
        \/ hub' = [hub EXCEPT !.calls = CallDone(c)]
    BY <1>4, <1>6, <2>1 DEF HubStopped
  <2>3. IsInst(to) /\ to.conn = "stopped"
    BY <1>2, <1>4, <2>1 DEF IsInst, InstFields
  <2>4. ASSUME NEW calls, calls = Then(c, "unwatch"), Update(c.id, to, calls, hub.follows) PROVE WatchesHold'
    BY <1>1, <2>3, <2>4, HandlersWatch
  <2> QED
    BY <1>3, <2>2, <2>4
<1>7. CASE HubHears(c)
  <2>1. PICK to : to = [hub.inst[c.id] EXCEPT !.last = hub.now]
    OBVIOUS
  <2>2. \/ c.id \in DOMAIN hub.inst /\ Update(c.id, to, CallDone(c), hub.follows)
        \/ hub' = [hub EXCEPT !.calls = CallDone(c)]
    BY <1>4, <1>7, <2>1 DEF HubHears
  <2>3. c.id \in DOMAIN hub.inst => IsInst(to) /\ to.conn = hub.inst[c.id].conn
    BY <2>1 DEF HubIInv, HubTyped, IsInst, InstFields
  <2>4. ASSUME c.id \in DOMAIN hub.inst, NEW calls, calls = CallDone(c), Update(c.id, to, calls, hub.follows) PROVE WatchesHold'
    BY <1>1, <2>3, <2>4, HandlersWatch
  <2> QED
    BY <1>3, <2>2, <2>4
<1> QED
  BY <1>5, <1>6, <1>7

\* So do the steps of a page that adds an instance.
LEMMA AddsWatch ==
    ASSUME HubIInv, TrackHolds, WatchesHold, NEW c \in hub.calls, AddChecks(c) \/ AddUpdates(c)
    PROVE  WatchesHold'
<1>1. c.pc \in {"check", "update"} /\ HubFields \subseteq DOMAIN hub /\ \A x \in hub.calls : x # c => x \in CallDone(c) /\ x \in Then(c, "update")
  BY TrackTypes, CallsPend DEF AddChecks, AddUpdates
<1>2. CASE AddChecks(c)
  <2>1. PICK calls \in {CallDone(c), Then(c, "update")} : hub' = [hub EXCEPT !.calls = calls]
    BY <1>2 DEF AddChecks
  <2>2. /\ hub'.calls = calls /\ hub'.up = hub.up /\ hub'.follows = hub.follows
        /\ hub'.watchers = hub.watchers /\ hub'.starting = hub.starting /\ hub'.inst = hub.inst
    BY <1>1, <2>1 DEF HubFields
  <2> QED
    BY <1>1, <2>2, NothingWatches
<1>3. CASE AddUpdates(c)
  <2>1. PICK i, to : i = Before(c.id) /\ to = [i EXCEPT !.run = c.summary.run, !.url = c.url, !.token = c.url, !.source = "manual",
                                         !.last = hub.now, !.summary = c.summary, !.conn = "connected", !.err = "",
                                         !.confirmed = c.url, !.failed = FALSE, !.answeredBy = 0]
    OBVIOUS
  <2>2. Update(c.id, to, Then(c, "watch"), hub.follows)
    BY <1>3, <2>1 DEF AddUpdates
  <2>3. IsInst(i)
    BY <2>1, BeforeHolds
  <2>4. IsInst(to) /\ to.conn = "connected"
    BY <2>1, <2>3 DEF IsInst, InstFields
  <2>5. ASSUME NEW calls, calls = Then(c, "watch"), Update(c.id, to, calls, hub.follows) PROVE WatchesHold'
    BY <1>1, <2>4, <2>5, HandlersWatch
  <2> QED
    BY <2>2, <2>5
<1> QED
  BY <1>2, <1>3

\* A step that starts or ends the watch of one instance, and goes on with a call.
LEMMA OneWatches ==
    ASSUME TrackHolds, WatchesHold, NEW id, NEW g, WatchesAgree(g), Idles(g), SameBut(g, hub), OthersGoOn(g, hub, id),
           HubFields \subseteq DOMAIN hub', hub'.follows = g.follows, hub'.watchers = g.watchers, hub'.inst = g.inst, hub'.up = g.up,
           hub'.starting \in {hub.starting, hub.starting \ {id}},
           \A c \in hub.calls : c.id # id => c \in hub'.calls,
           hub.up = "running" /\ id \in DOMAIN hub.inst => Each(hub', id)
    PROVE  WatchesHold'
<1>1. WatchesAgree(hub)' /\ Idles(hub)' /\ \A x : Each(hub, x)' <=> Each(hub', x)
  BY DEF Each, Pending, WatchesAgree, Idles, Numbers
<1>2. ASSUME hub'.up = "running", NEW x \in DOMAIN hub'.inst PROVE Each(hub', x)
  <2>1. hub.up = "running" /\ hub'.inst = hub.inst
    BY <1>2 DEF SameBut
  <2>2. CASE x = id
    BY <1>2, <2>1, <2>2
  <2>3. CASE x # id
    <3>1. Each(hub, x)
      BY <1>2, <2>1 DEF WatchesHold
    <3>2. \A f : f.live /\ f.id = x => (f \in hub'.follows <=> f \in hub.follows)
      BY <2>3 DEF OthersGoOn
    <3> QED
      BY <2>1, <2>3, <3>1, <3>2, EachStays
  <2> QED
    BY <2>2, <2>3
<1> QED
  BY <1>1, <1>2 DEF WatchesHold

\* The last step of a handler: the instance is watched, or no more.
LEMMA WatchersWatch ==
    ASSUME HubIInv, TrackHolds, WatchesHold, NEW c \in hub.calls, HubWatches(c) \/ HubUnwatches(c)
    PROVE  WatchesHold'
<1>1. HubFields \subseteq DOMAIN hub /\ (\A f \in hub.follows : FollowIs(f)) /\ WatchesAgree(hub) /\ Idles(hub)
  BY TrackTypes DEF WatchesHold
<1>2. ASSUME NEW g, SameBut(g, hub), hub' = [g EXCEPT !.calls = CallDone(c)]
      PROVE  /\ HubFields \subseteq DOMAIN hub' /\ hub'.follows = g.follows /\ hub'.watchers = g.watchers /\ hub'.inst = g.inst /\ hub'.up = g.up
             /\ hub'.starting = hub.starting /\ hub'.calls = CallDone(c)
  BY <1>2 DEF SameBut, HubFields
<1>3. \A x \in hub.calls : x # c => x \in CallDone(c)
  BY CallsPend
<1>4. CASE HubWatches(c)
  <2>1. PICK g : g = Watch(hub, c.id)
    OBVIOUS
  <2>2. /\ WatchesAgree(g) /\ Idles(g) /\ SameBut(g, hub) /\ OthersGoOn(g, hub, c.id)
        /\ hub.up = "running" => /\ \E f \in g.follows : f.live /\ f.id = c.id
                                 /\ \A f \in g.follows : f.live /\ f.id = c.id => f.pc = "get"
    BY <1>1, <2>1, WatchIs
  <2>3. hub' = [g EXCEPT !.calls = CallDone(c)]
    BY <1>4, <2>1 DEF HubWatches
  <2>4. hub.up = "running" => Each(hub', c.id)
    BY <1>2, <2>2, <2>3 DEF Each
  <2> QED
    BY <1>2, <1>3, <2>2, <2>3, <2>4, OneWatches
<1>5. CASE HubUnwatches(c)
  <2>1. PICK g : g = UnwatchStopped(hub, c.id)
    OBVIOUS
  <2>2. hub' = [g EXCEPT !.calls = CallDone(c)] /\ c.pc = "unwatch"
    BY <1>5, <2>1 DEF HubUnwatches
  <2>3. CASE c.id \in DOMAIN hub.inst /\ hub.inst[c.id].conn # "stopped"
    <3>1. g = hub
      BY <2>1, <2>3 DEF UnwatchStopped
    <3>2. SameBut(g, hub) /\ OthersGoOn(g, hub, c.id)
      BY <1>1, <3>1 DEF SameBut, OthersGoOn
    <3>3. hub.up = "running" /\ c.id \in DOMAIN hub.inst => Each(hub', c.id)
      <4>1. Pending(hub, c.id, {"watch", "remove"}) => Pending(hub', c.id, {"watch", "remove"})
        BY <1>2, <1>3, <2>2, <3>1, <3>2 DEF Pending
      <4>2. hub.up = "running" /\ c.id \in DOMAIN hub.inst => Each(hub, c.id)
        BY DEF WatchesHold
      <4> QED
        BY <1>2, <2>2, <2>3, <3>1, <3>2, <4>1, <4>2 DEF Each
    <3> QED
      BY <1>1, <1>2, <1>3, <2>2, <3>1, <3>2, <3>3, OneWatches
  <2>4. CASE c.id \notin DOMAIN hub.inst \/ hub.inst[c.id].conn = "stopped"
    <3>1. g = Unwatch(hub, c.id)
      BY <2>1, <2>4 DEF UnwatchStopped
    <3>2. /\ WatchesAgree(g) /\ Idles(g) /\ SameBut(g, hub) /\ OthersGoOn(g, hub, c.id)
          /\ \A f \in g.follows : f.live => f.id # c.id
      BY <1>1, <3>1, UnwatchIs
    <3>3. c.id \in DOMAIN hub.inst => Each(hub', c.id)
      <4>1. hub'.inst = hub.inst /\ hub'.follows = g.follows
        BY <1>2, <2>2, <3>2 DEF SameBut
      <4> QED
        BY <2>4, <3>2, <4>1 DEF Each
    <3> QED
      BY <1>2, <1>3, <2>2, <3>2, <3>3, OneWatches
  <2> QED
    BY <2>3, <2>4
<1> QED
  BY <1>4, <1>5

\* Run watches the instances that the hub kept, one by one.
LEMMA RunWatches ==
    ASSUME HubIInv, TrackHolds, WatchesHold, NEW id \in hub.starting, HubRunWatches(id)
    PROVE  WatchesHold'
<1>1. HubFields \subseteq DOMAIN hub /\ (\A f \in hub.follows : FollowIs(f)) /\ WatchesAgree(hub) /\ Idles(hub)
  BY TrackTypes DEF WatchesHold
<1>2. PICK g, starting : g = Watch(hub, id) /\ starting = g.starting \ {id}
  OBVIOUS
<1>3. /\ WatchesAgree(g) /\ Idles(g) /\ SameBut(g, hub) /\ OthersGoOn(g, hub, id)
      /\ hub.up = "running" => /\ \E f \in g.follows : f.live /\ f.id = id
                               /\ \A f \in g.follows : f.live /\ f.id = id => f.pc = "get"
  BY <1>1, <1>2, WatchIs
<1>4. hub' = [g EXCEPT !.starting = starting]
  BY <1>2 DEF HubRunWatches
<1>5. /\ HubFields \subseteq DOMAIN hub' /\ hub'.follows = g.follows /\ hub'.watchers = g.watchers /\ hub'.inst = g.inst /\ hub'.up = g.up
      /\ hub'.starting = hub.starting \ {id} /\ hub'.calls = hub.calls
  BY <1>2, <1>3, <1>4 DEF SameBut, HubFields
<1>6. hub.up = "running" => Each(hub', id)
  BY <1>3, <1>5 DEF Each
<1> QED
  BY <1>3, <1>5, <1>6, OneWatches

\* A page that removes an instance ends its watch first.
LEMMA RemovesWatch ==
    ASSUME HubIInv, TrackHolds, WatchesHold, NEW id, HubRemoves(id)
    PROVE  WatchesHold'
<1>1. HubFields \subseteq DOMAIN hub /\ (\A f \in hub.follows : FollowIs(f)) /\ WatchesAgree(hub) /\ Idles(hub)
  BY TrackTypes DEF WatchesHold
<1>2. PICK g, c : g = Unwatch(hub, id) /\ c = [op |-> "remove", id |-> id, pc |-> "remove"]
  OBVIOUS
<1>3. /\ WatchesAgree(g) /\ Idles(g) /\ SameBut(g, hub) /\ OthersGoOn(g, hub, id)
      /\ \A f \in g.follows : f.live => f.id # id
  BY <1>1, <1>2, UnwatchIs
<1>4. hub' = [g EXCEPT !.calls = hub.calls \cup {c}]
  BY <1>2 DEF HubRemoves, Begin
<1>5. /\ HubFields \subseteq DOMAIN hub' /\ hub'.follows = g.follows /\ hub'.watchers = g.watchers /\ hub'.inst = g.inst /\ hub'.up = g.up
      /\ hub'.starting = hub.starting /\ hub'.calls = hub.calls \cup {c}
  BY <1>3, <1>4 DEF SameBut, HubFields
<1>6. Each(hub', id)
  <2>1. Pending(hub', id, {"watch", "remove"})
    BY <1>2, <1>5 DEF Pending
  <2> QED
    BY <1>3, <1>5, <2>1 DEF Each
<1> QED
  BY <1>3, <1>5, <1>6, OneWatches

\* The store forgets an instance whose watch ended.
LEMMA ForgetsWatch ==
    ASSUME HubIInv, TrackHolds, WatchesHold, NEW c \in hub.calls, HubForgets(c)
    PROVE  WatchesHold'
<1>1. HubFields \subseteq DOMAIN hub /\ \A x \in hub.calls : x # c => x \in CallDone(c)
  BY TrackTypes, CallsPend
<1>2. PICK rest, inst, files : /\ rest = Restrict(hub.inst, DOMAIN hub.inst \ {c.id}) /\ inst = NumberPins(rest)
                               /\ files = Mark(hub.files, "instances", TRUE)
  OBVIOUS
<1>3. IF c.id \notin DOMAIN hub.inst THEN hub' = [hub EXCEPT !.calls = CallDone(c)]
      ELSE hub' = [hub EXCEPT !.inst = inst, !.calls = CallDone(c), !.files = files]
  BY <1>2 DEF HubForgets
<1>4. DOMAIN rest = DOMAIN hub.inst \ {c.id} /\ \A x \in DOMAIN rest : rest[x] = hub.inst[x]
  BY <1>2 DEF Restrict
<1>5. DOMAIN inst = DOMAIN rest /\ \A x \in DOMAIN inst : inst[x].conn = hub.inst[x].conn
  <2>1. \A x \in DOMAIN rest : IsInst(rest[x])
    BY <1>4 DEF HubIInv, HubTyped
  <2>2. DOMAIN inst = DOMAIN rest /\ \A x \in DOMAIN rest : SameInst(inst[x], rest[x])
    BY <1>2, <2>1, NumberPinsKeeps
  <2> QED
    BY <1>4, <2>2 DEF SameInst
<1>6. /\ hub'.calls = CallDone(c) /\ hub'.up = hub.up /\ hub'.follows = hub.follows
      /\ hub'.watchers = hub.watchers /\ hub'.starting = hub.starting
  BY <1>1, <1>3 DEF HubFields
<1>7. DOMAIN hub'.inst = DOMAIN hub.inst \ {c.id} /\ \A x \in DOMAIN hub'.inst : hub'.inst[x].conn = hub.inst[x].conn
  <2>1. hub'.inst = IF c.id \notin DOMAIN hub.inst THEN hub.inst ELSE inst
    BY <1>1, <1>3 DEF HubFields
  <2> QED
    BY <1>4, <1>5, <2>1
<1> QED
  BY <1>1, <1>6, <1>7, WatchesGoOn

\* The requests of the page that pin, name and mute instances, and those that arrive.
LEMMA RequestsWatch ==
    ASSUME HubIInv, TrackHolds, WatchesHold,
           \/ \E id \in DOMAIN hub.inst : HubProxies(id) \/ \E p : HubPatches(id, p)
           \/ \E ids : HubSetsPins(ids)
           \/ \E v : HubSetsFavorites(v)
           \/ \E d : Receives(d)
           \/ \E u : HubAdds(u)
    PROVE  WatchesHold'
<1>1. HubFields \subseteq DOMAIN hub
  BY TrackTypes
<1>2. CASE \E id \in DOMAIN hub.inst : \E p : HubPatches(id, p)
  <2>0. PICK id \in DOMAIN hub.inst : \E p : HubPatches(id, p)
    BY <1>2
  <2>1. PICK p : HubPatches(id, p)
    BY <2>0
  <2>2. PICK to : to = Patched(hub.inst[id], p)
    OBVIOUS
  <2>3. IsInst(to) /\ to.conn = hub.inst[id].conn
    <3>1. PICK i : i = hub.inst[id]
      OBVIOUS
    <3>2. IsInst(i)
      BY <3>1 DEF HubIInv, HubTyped
    <3>3. IsInst(Patched(i, p)) /\ Patched(i, p).conn = i.conn
      BY <3>2 DEF Patched, IsInst, InstFields
    <3> QED
      BY <2>2, <3>1, <3>3
  <2>4. PICK calls, follows : calls = hub.calls /\ follows = hub.follows
    OBVIOUS
  <2>5. Update(id, to, calls, follows)
    BY <2>1, <2>2, <2>4 DEF HubPatches
  <2>6. hub'.up = hub.up /\ hub'.watchers = hub.watchers /\ hub'.starting = hub.starting
    BY <2>3, <2>5, UpdateConnects
  <2>7. hub'.calls = calls /\ hub'.follows = follows
    <3>1. PICK inst, files : hub' = [hub EXCEPT !.inst = inst, !.calls = calls, !.follows = follows, !.files = files]
      BY <2>5 DEF Update
    <3> QED
      BY <1>1, <3>1 DEF HubFields
  <2>8. DOMAIN hub'.inst = DOMAIN hub.inst \cup {id} /\ hub'.inst[id].conn = to.conn
    BY <2>3, <2>5, UpdateConnects
  <2>9. \A x \in DOMAIN hub.inst \ {id} : hub'.inst[x].conn = hub.inst[x].conn
    BY <2>3, <2>5, UpdateConnects
  <2>10. \A x \in DOMAIN hub'.inst : x \in DOMAIN hub.inst /\ hub'.inst[x].conn = hub.inst[x].conn
    BY <2>0, <2>3, <2>8, <2>9
  <2> QED
    BY <2>4, <2>6, <2>7, <2>10, WatchesGoOn
<1>3. CASE \E ids : HubSetsPins(ids)
  <2>1. PICK ids : HubSetsPins(ids)
    BY <1>3
  <2>2. PICK inst : inst = [id \in DOMAIN hub.inst |->
                      IF id \in Range(ids) THEN [hub.inst[id] EXCEPT !.pin = CHOOSE n \in DOMAIN ids : ids[n] = id] ELSE hub.inst[id]]
    OBVIOUS
  <2>3. UNCHANGED hub \/ \E files : hub' = [hub EXCEPT !.inst = inst, !.files = files]
    BY <2>1, <2>2 DEF HubSetsPins
  <2>4. DOMAIN inst = DOMAIN hub.inst /\ \A x \in DOMAIN hub.inst : inst[x].conn = hub.inst[x].conn
    <3>1. \A x \in DOMAIN hub.inst : IsInst(hub.inst[x])
      BY DEF HubIInv, HubTyped
    <3> QED
      BY <2>2, <3>1 DEF IsInst, InstFields
  <2>5. /\ hub'.calls = hub.calls /\ hub'.up = hub.up /\ hub'.follows = hub.follows
        /\ hub'.watchers = hub.watchers /\ hub'.starting = hub.starting /\ hub'.inst \in {hub.inst, inst}
    BY <1>1, <2>3 DEF HubFields
  <2> QED
    BY <2>4, <2>5, WatchesGoOn
<1>4. ASSUME NEW favorites, NEW order, NEW files, NEW calls, hub.calls \subseteq calls,
             hub' \in {hub, [hub EXCEPT !.favorites = favorites, !.files = files], [hub EXCEPT !.calls = calls],
                       [hub EXCEPT !.order = order, !.files = files, !.calls = calls]}
      PROVE  WatchesHold'
  <2>1. /\ hub.calls \subseteq hub'.calls /\ hub'.up = hub.up /\ hub'.follows = hub.follows
        /\ hub'.watchers = hub.watchers /\ hub'.starting = hub.starting /\ hub'.inst = hub.inst
    BY <1>1, <1>4 DEF HubFields
  <2> QED
    BY <2>1, NothingWatches
<1>5. CASE (\E id : HubProxies(id)) \/ (\E v : HubSetsFavorites(v))
  <2>1. UNCHANGED hub \/ \E favorites, files : hub' = [hub EXCEPT !.favorites = favorites, !.files = files]
    BY <1>5 DEF HubProxies, HubSetsFavorites
  <2> QED
    BY <1>4, <2>1
<1>6. CASE \E d : Receives(d)
  <2>1. PICK d : Receives(d)
    BY <1>6
  <2>2. PICK order, files, calls : /\ order = Remember(hub.order, d) /\ files = Mark(hub.files, "deliveries", TRUE)
                                   /\ calls = Begin([op |-> "event", d |-> d, id |-> hubScope.mail[d].id, pc |-> "handle"])
    OBVIOUS
  <2>3. UNCHANGED hub \/ hub' = [hub EXCEPT !.order = order, !.files = files, !.calls = calls]
    BY <2>1, <2>2 DEF Receives
  <2>4. hub.calls \subseteq calls
    BY <2>2 DEF Begin
  <2> QED
    BY <1>4, <2>3, <2>4
<1>7. CASE \E u : HubAdds(u)
  <2>1. \E calls : hub.calls \subseteq calls /\ hub' \in {hub, [hub EXCEPT !.calls = calls]}
    <3>1. PICK u : HubAdds(u)
      BY <1>7
    <3>2. PICK a : a = hubWorld.net[u]
      OBVIOUS
    <3>3. PICK c : c = [op |-> "add", id |-> a.id, url |-> u, pc |-> "check", summary |-> [run |-> a.run, does |-> a.does]]
      OBVIOUS
    <3>4. hub' = IF a = NoAnswer THEN hub ELSE [hub EXCEPT !.calls = Begin(c)]
      BY <3>1, <3>2, <3>3 DEF HubAdds
    <3>5. hub.calls \subseteq Begin(c)
      BY DEF Begin
    <3> QED
      BY <3>4, <3>5
  <2> QED
    BY <1>4, <2>1
<1> QED
  BY <1>2, <1>3, <1>5, <1>6, <1>7

\* A hub that has no watch.
LEMMA NothingIsWatched ==
    ASSUME hub'.follows = {}, hub'.watchers = <<>>, hub'.up \in {"down", "new"}
    PROVE  WatchesHold'
<1>1. Numbers(hub)' = {}
  BY DEF Numbers, Range
<1>2. WatchesAgree(hub)'
  BY <1>1, FS_EmptySet DEF WatchesAgree
<1> QED
  BY <1>2 DEF WatchesHold, Idles

\* The hub's own runs.
LEMMA LivesWatch ==
    ASSUME HubIInv, TrackHolds, WatchesHold, HubLives
    PROVE  WatchesHold'
<1>1. HubFields \subseteq DOMAIN hub /\ \A f \in hub.follows : FollowIs(f)
  BY TrackTypes
<1>2. ASSUME NEW up \in {"down", "new"}, NEW inst, NEW favorites, NEW order, NEW now, hub' = NewHub(up, inst, favorites, order, now)
      PROVE  WatchesHold'
  <2>1. hub'.up = up /\ hub'.follows = {} /\ hub'.watchers = <<>>
    BY <1>2 DEF NewHub
  <2> QED
    BY <2>1, NothingIsWatched
<1>3. CASE HubStarts \/ HubExits \/ HubKilled
  <2>1. \/ \E inst, favorites, order, now : hub' = NewHub("new", inst, favorites, order, now)
        \/ hub' = NewHub("down", <<>>, "", <<>>, hub.now)
    BY <1>3 DEF HubStarts, HubExits, HubKilled, Down
  <2> QED
    BY <1>2, <2>1
<1>4. CASE HubRuns
  <2>1. PICK starting : starting = {id \in DOMAIN hub.inst : hub.inst[id].conn # "stopped"}
    OBVIOUS
  <2>2. hub' = [hub EXCEPT !.up = "running", !.starting = starting] /\ hub.up = "new"
    BY <1>4, <2>1 DEF HubRuns
  <2>3. /\ hub'.up = "running" /\ hub'.starting = starting /\ hub'.follows = hub.follows /\ hub'.watchers = hub.watchers
        /\ hub'.inst = hub.inst
    BY <1>1, <2>2 DEF HubFields
  <2>4. hub'.follows = {}
    BY <2>2, <2>3 DEF WatchesHold, Idles
  <2>5. \A id \in DOMAIN hub'.inst : Each(hub', id)
    BY <2>1, <2>3, <2>4 DEF Each
  <2>6. WatchesAgree(hub)' /\ Idles(hub)' /\ \A x : Each(hub, x)' <=> Each(hub', x)
    BY <2>3 DEF WatchesHold, WatchesAgree, Idles, Numbers, Each, Pending
  <2> QED
    BY <2>5, <2>6 DEF WatchesHold
<1>5. ASSUME NEW id \in hub.starting, HubRunWatches(id) PROVE WatchesHold'
  BY <1>5, RunWatches
<1>6. CASE HubStops
  <2>1. PICK follows : follows = CancelFollows(hub.follows)
    OBVIOUS
  <2>2. hub' = [hub EXCEPT !.up = "stopping", !.follows = follows]
    BY <1>6, <2>1 DEF HubStops
  <2>3. hub'.up = "stopping" /\ hub'.follows = follows /\ hub'.watchers = hub.watchers
    BY <1>1, <2>2 DEF HubFields
  <2>4. Thinned(follows, hub.follows) /\ \A x \in follows : ~x.live
    <3>1. \A f, x \in hub.follows : f.n = x.n => f = x
      BY DEF WatchesHold, WatchesAgree
    <3>2. \A n : Thinned(CancelFollows(hub.follows), hub.follows) /\ \A x \in CancelFollows(hub.follows) : ~x.live
      BY <1>1, <3>1, CancelThins
    <3> QED
      BY <2>1, <3>2
  <2>5. WatchesAgree(hub')
    <3>1. DOMAIN hub'.watchers \subseteq DOMAIN hub.watchers /\ \A a \in DOMAIN hub'.watchers : hub'.watchers[a] = hub.watchers[a]
      BY <2>3
    <3>2. WatchesAgree(hub) /\ Thinned(hub'.follows, hub.follows) /\ \A f \in hub'.follows : f.live => f.id \in DOMAIN hub'.watchers
      BY <2>3, <2>4 DEF WatchesHold
    <3> QED
      BY <3>1, <3>2, FewerAgree
  <2>6. WatchesAgree(hub)'
    BY <2>5 DEF WatchesAgree, Numbers
  <2> QED
    BY <2>3, <2>6 DEF WatchesHold, Idles
<1>7. CASE HubCloses
  <2>1. PICK inst, files : hub' = [hub EXCEPT !.up = "closing", !.files = files, !.inst = inst]
    BY <1>7 DEF HubCloses
  <2>2. hub'.up = "closing" /\ hub'.follows = hub.follows /\ hub'.watchers = hub.watchers
    BY <1>1, <2>1 DEF HubFields
  <2> QED
    BY <2>2 DEF WatchesHold, WatchesAgree, Idles, Numbers
<1> QED
  BY <1>3, <1>4, <1>5, <1>6, <1>7 DEF HubLives

\* Every step of the hub keeps its watches.
LEMMA WatchNext ==
    ASSUME HubIInv, TrackHolds, WatchesHold, [HubNext]_hubVars
    PROVE  WatchesHold'
<1>1. HubFields \subseteq DOMAIN hub
  BY TrackTypes
<1>2. CASE UNCHANGED hub
  BY <1>2, NothingWatches
<1>3. CASE HubFollows
  BY <1>3, FollowsWatch, FollowReadsWatches, FollowFailedWatches DEF HubFollows
<1>4. CASE HubHandles
  BY <1>4, EventsWatch, WatchersWatch, AddsWatch, ForgetsWatch DEF HubHandles
<1>5. CASE HubAsked
  <2>1. ASSUME NEW id \in DOMAIN hub.inst, HubRemoves(id) PROVE WatchesHold'
    BY <2>1, RemovesWatch
  <2>2. CASE ~\E id \in DOMAIN hub.inst : HubRemoves(id)
    BY <1>5, <2>2, RequestsWatch DEF HubAsked
  <2> QED
    BY <2>1, <2>2
<1>6. CASE HubKeeps
  <2>1. UNCHANGED hub \/ \E f \in Files : \E files : hub' = [hub EXCEPT !.files = files]
    <3>1. ASSUME NEW f \in Files, FileBegins(f) \/ \E ok \in BOOLEAN : FileWrites(f, ok) PROVE \E files : hub' = [hub EXCEPT !.files = files]
      <4>1. PICK g : hub' = [hub EXCEPT !.files[f] = g]
        BY <3>1 DEF FileBegins, FileWrites
      <4>2. PICK files : files = [hub.files EXCEPT ![f] = g]
        OBVIOUS
      <4> QED
        BY <4>1, <4>2
    <3> QED
      BY <1>6, <3>1 DEF HubKeeps, FileEdited
  <2>2. ASSUME NEW files, hub' = [hub EXCEPT !.files = files] PROVE WatchesHold'
    <3>1. /\ hub'.calls = hub.calls /\ hub'.up = hub.up /\ hub'.follows = hub.follows
          /\ hub'.watchers = hub.watchers /\ hub'.starting = hub.starting /\ hub'.inst = hub.inst
      BY <1>1, <2>2 DEF HubFields
    <3> QED
      BY <3>1, NothingWatches
  <2> QED
    BY <1>2, <2>1, <2>2
<1>7. CASE HubLives
  BY <1>7, LivesWatch
<1>8. CASE HubTicks
  <2>1. PICK t : hub' = [hub EXCEPT !.now = t]
    BY <1>8 DEF HubTicks
  <2>2. /\ hub'.calls = hub.calls /\ hub'.up = hub.up /\ hub'.follows = hub.follows
        /\ hub'.watchers = hub.watchers /\ hub'.starting = hub.starting /\ hub'.inst = hub.inst
    BY <1>1, <2>1 DEF HubFields
  <2> QED
    BY <2>2, NothingWatches
<1>9. PageOpens \/ PageTakes \/ (\E u \in DOMAIN hubScope.net, a \in hubScope.answers : HubWorldTurns(u, a)) \/ UNCHANGED hubVars => UNCHANGED hub
  BY DEF PageOpens, PageTakes, HubWorldTurns, hubVars
<1> QED
  BY <1>2, <1>3, <1>4, <1>5, <1>6, <1>7, <1>8, <1>9 DEF HubNext

\* A hub that begins watches nothing.
LEMMA WatchBegins == HubInit => WatchesHold
<1> SUFFICES ASSUME HubInit PROVE WatchesHold
  OBVIOUS
<1>1. hub.follows = {} /\ hub.watchers = <<>> /\ hub.inst = <<>>
  BY DEF HubInit, NewHub
<1>2. Numbers(hub) = {}
  BY <1>1 DEF Numbers, Range
<1>3. WatchesAgree(hub)
  BY <1>1, <1>2, FS_EmptySet DEF WatchesAgree
<1> QED
  BY <1>1, <1>3 DEF WatchesHold, Idles

\* What the watches show once the handlers returned: each instance has its own.
LEMMA WatchShows == WatchesHold => HubFollowsEach
<1> SUFFICES ASSUME WatchesHold, hub.up = "running", hub.starting = {}, hub.calls = {}, NEW id \in DOMAIN hub.inst
             PROVE  LET live == {f \in hub.follows : f.id = id /\ f.live}
                    IN  IF hub.inst[id].conn = "stopped" THEN \A f \in live : f.pc = "get" ELSE Cardinality(live) = 1
  BY DEF HubFollowsEach
<1>1. PICK live : live = {f \in hub.follows : f.id = id /\ f.live}
  OBVIOUS
<1>2. Each(hub, id) /\ \A pcs : ~Pending(hub, id, pcs)
  BY DEF WatchesHold, Pending
<1>3. \A f, g \in live : f = g
  BY <1>1 DEF WatchesHold, WatchesAgree
<1>4. CASE hub.inst[id].conn = "stopped"
  BY <1>1, <1>2, <1>4 DEF Each
<1>5. CASE hub.inst[id].conn # "stopped"
  <2>1. PICK f : f \in live
    BY <1>1, <1>2, <1>5 DEF Each
  <2>2. live = {f}
    BY <1>3, <2>1
  <2>3. Cardinality(live) = 1
    BY <2>2, FS_Singleton
  <2> QED
    BY <1>1, <1>5, <2>3
<1> QED
  BY <1>4, <1>5

-----------------------------------------------------------------------------
(* All of it together.                                                       *)

\* The invariant of the hub: what is sent home, what the store, the file and
\* the page agree on, what was handled, and what is watched.
HubAllHolds == HubIInv /\ TrackHolds /\ HubViewHolds /\ OnceHolds /\ WatchesHold

\* A page that never opened shows nothing, which is a map.
LEMMA ViewBegins == HubInit => HubViewHolds
<1> SUFFICES ASSUME HubInit PROVE HubViewHolds
  OBVIOUS
<1>1. PICK e : e = <<>> /\ DOMAIN e = {}
  OBVIOUS
<1>2. hubPage.view = e
  BY <1>1 DEF HubInit, NoPage
<1>3. IsMap(e)
  BY <1>1 DEF IsMap
<1> QED
  BY <1>2, <1>3 DEF HubViewHolds

\* A hub that was never started holds all of it.
LEMMA HubAllBegins == HubInit => HubAllHolds
  BY HubInitHolds, TrackBegins, ViewBegins, OnceBegins, WatchBegins DEF HubAllHolds

\* Every step keeps all of it, and moves only what is dead.
LEMMA HubAllNext == HubAllHolds /\ [HubNext]_hubVars => HubAllHolds'
<1> SUFFICES ASSUME HubIInv, TrackHolds, HubViewHolds, OnceHolds, WatchesHold, [HubNext]_hubVars PROVE HubAllHolds'
  BY DEF HubAllHolds
<1>1. HubIInv'
  BY HubNextHolds, HubStutters
<1>2. TrackHolds'
  BY TrackNext, TrackStutters
<1>3. HubViewHolds' /\ OnceHolds' /\ WatchesHold'
  BY ViewNext, OnceNext, WatchNext
<1> QED
  BY <1>1, <1>2, <1>3 DEF HubAllHolds

\* What it shows.
LEMMA HubAllShows ==
    HubAllHolds => /\ HubPageIsCurrent /\ HubPinsAreDense /\ HubWorkIsSeen /\ HubFileIsCurrent
                   /\ HubTakesOnce /\ HubFollowsEach
  BY TrackShows, OnceShows, WatchShows DEF HubAllHolds

\* A page that took its events shows the instances and the favorites as they
\* are (store.update, notifyLocked, streamEvents), and the pins are numbered
\* without gaps or twins (numberPinsLocked, setPins, newStore).
THEOREM HubPageStaysCurrent == HubSpec => [](HubPageIsCurrent /\ HubPinsAreDense)
<1>1. HubInit => HubAllHolds
  BY HubAllBegins
<1>2. HubAllHolds /\ [HubNext]_hubVars => HubAllHolds'
  BY HubAllNext
<1>3. HubAllHolds => HubPageIsCurrent /\ HubPinsAreDense
  BY HubAllShows
<1> QED
  BY <1>1, <1>2, <1>3, PTL DEF HubSpec

\* A span of work goes on exactly while the hub sees the instance work, and
\* those that ended follow one another, across restarts and kills too
\* (workLog, Close, newStore).
THEOREM HubWorkStaysSeen == HubSpec => []HubWorkIsSeen
<1>1. HubInit => HubAllHolds
  BY HubAllBegins
<1>2. HubAllHolds /\ [HubNext]_hubVars => HubAllHolds'
  BY HubAllNext
<1>3. HubAllHolds => HubWorkIsSeen
  BY HubAllShows
<1> QED
  BY <1>1, <1>2, <1>3, PTL DEF HubSpec

\* While nothing waits to be written, a hub that starts again has every
\* instance and the favorites as this one has them (persister, newStore).
THEOREM HubFileStaysCurrent == HubSpec => []HubFileIsCurrent
<1>1. HubInit => HubAllHolds
  BY HubAllBegins
<1>2. HubAllHolds /\ [HubNext]_hubVars => HubAllHolds'
  BY HubAllNext
<1>3. HubAllHolds => HubFileIsCurrent
  BY HubAllShows
<1> QED
  BY <1>1, <1>2, <1>3, PTL DEF HubSpec

\* An event that is delivered again is not handled again, across a restart
\* too, as long as the hub wasn't killed, its writes went through and it
\* remembers enough of them (receiveWebhook, deliveries, Close).
THEOREM HubHandlesOnce == HubSpec => []HubTakesOnce
<1>1. HubInit => HubAllHolds
  BY HubAllBegins
<1>2. HubAllHolds /\ [HubNext]_hubVars => HubAllHolds'
  BY HubAllNext
<1>3. HubAllHolds => HubTakesOnce
  BY HubAllShows
<1> QED
  BY <1>1, <1>2, <1>3, PTL DEF HubSpec

\* Once no handler is between the store and the watches, each instance is
\* followed by one live watch, a stopped one by none but a watch that is
\* about to see it (Hub.watch, unwatchStopped, follow, Run).
THEOREM HubWatchesEach == HubSpec => []HubFollowsEach
<1>1. HubInit => HubAllHolds
  BY HubAllBegins
<1>2. HubAllHolds /\ [HubNext]_hubVars => HubAllHolds'
  BY HubAllNext
<1>3. HubAllHolds => HubFollowsEach
  BY HubAllShows
<1> QED
  BY <1>1, <1>2, <1>3, PTL DEF HubSpec
=============================================================================
