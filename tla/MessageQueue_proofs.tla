------------------------ MODULE MessageQueue_proofs ------------------------
(***************************************************************************)
(* Proofs that, for any number of messages, attempts, faults and restarts   *)
(* of AgentAPI, what is stored is the queue as of its last change, no two   *)
(* messages share an ID, and without a fault a message reaches the agent    *)
(* once at most and the queue holds exactly the messages that wait.         *)
(*                                                                         *)
(* The invariant follows a change of the queue on its way through           *)
(* storeQueue, DB.pending and the file, and says what a send under way has   *)
(* taken from the queue.                                                    *)
(***************************************************************************)
EXTENDS MessageQueue, TLAPS

\* No two messages of queue q share an ID, or are the same message.
DistinctIds(q) == \A i, j \in DOMAIN q : q[i].id = q[j].id => i = j
DistinctMsgs(q) == \A i, j \in DOMAIN q : q[i].msg = q[j].msg => i = j
Below(q, n) == \A i \in DOMAIN q : q[i].id <= n

\* A process that ended has nothing in memory.
DownIsEmpty ==
    ~up => /\ queue = << >> /\ lastID = 0 /\ version = 0
           /\ call = NoCall /\ change = NoSnapshot /\ save = NoSnapshot
           /\ saved = [queue |-> << >>, lastID |-> 0, version |-> 0]
           /\ putMeta.by = "none" /\ pending = NothingPending

\* What waits to be stored is the queue of its version, and a change that was
\* handed on is stored: storeQueue only ever skips older states.
VersionsAgree ==
    /\ change # NoSnapshot => /\ change.version = version
                              /\ change.queue = queue /\ change.lastID = lastID
    /\ save # NoSnapshot => /\ save.version <= version
                            /\ save.version = version => save.queue = queue /\ save.lastID = lastID
    /\ saved.version <= version
    /\ saved.version = version => saved.queue = queue /\ saved.lastID = lastID
    /\ change = NoSnapshot => saved.version = version

\* The IDs of every queue on its way to the file are distinct.
IdsAreDistinct ==
    /\ DistinctIds(queue) /\ Below(queue, lastID)
    /\ DistinctIds(change.queue) /\ DistinctIds(save.queue) /\ DistinctIds(saved.queue)
    /\ DistinctIds(pending.queue) /\ DistinctIds(disk.queue)

\* A send under way holds Server.mu: the queue still has its message, or the
\* message is in no queue yet.
CallHoldsItsMessage ==
    call # NoCall =>
        /\ up /\ change = NoSnapshot
        /\ call.msg \in Msgs /\ call.kind # "none"
        /\ call.kind \in {"queued", "steer_queued"} =>
                \E i \in DOMAIN queue : queue[i].id = call.id /\ queue[i].msg = call.msg
        /\ call.kind \in {"direct", "steer"} => fate[call.msg] = "calling"

\* The messages that wait, and the IDs that do not name them.
WaitIn(q, last) ==
    /\ {m \in Msgs : fate[m] = "queued"} = MsgsOf(q)
    /\ DistinctMsgs(q) /\ Below(q, last)
    /\ IdsOf(q) \intersect gone = {} /\ \A id \in gone : id <= last

\* Without a fault, the file will hold what was stored while AgentAPI runs, and
\* what waits is in the queue, or in the file once AgentAPI stopped.
StoredIsWritten ==
    Faultless /\ up =>
        /\ Written.queue = saved.queue
        /\ saved.lastID = IF putMeta.by = "none" THEN Written.next ELSE putMeta.next

WhatWaits ==
    Faultless => /\ up => WaitIn(queue, lastID)
                 /\ ~up => WaitIn(disk.queue, disk.next)

\* Without a fault, a message that may be sent did not reach the agent, unless
\* the send under way just brought it there.
SentOnce ==
    Faultless =>
        \A m \in Msgs :
            /\ reached[m] <= 1
            /\ fate[m] \in {"none", "queued", "calling"} =>
                    reached[m] = 0 \/ (call.msg = m /\ call.result \in {"ok", "unconfirmed"})

\* The inductive invariant.
IInv ==
    /\ TypeOK /\ DownIsEmpty /\ VersionsAgree /\ IdsAreDistinct
    /\ CallHoldsItsMessage /\ StoredIsWritten /\ WhatWaits /\ SentOnce

-----------------------------------------------------------------------------
(* What the operations make of a queue. *)

\* Item x is put into queue q, first or last.
Pushed(q, x, front) == IF front THEN <<x>> \o q ELSE Append(q, x)

\* A queue with item x has those it had, and x.
LEMMA PushedItems ==
    ASSUME NEW q \in Seq(Items), NEW x \in Items, NEW front \in BOOLEAN
    PROVE  /\ Pushed(q, x, front) \in Seq(Items)
           /\ DOMAIN q = 1 .. Len(q) /\ DOMAIN Pushed(q, x, front) = 1 .. Len(q) + 1
           /\ \A i \in 1 .. Len(q) + 1 :
                Pushed(q, x, front)[i] = IF front THEN IF i = 1 THEN x ELSE q[i - 1]
                                         ELSE IF i = Len(q) + 1 THEN x ELSE q[i]
<1>1. CASE front
  BY <1>1 DEF Pushed
<1>2. CASE ~front
  BY <1>2 DEF Pushed
<1> QED
  BY <1>1, <1>2

\* Item x has an ID above those of queue q, and is the only one with it.
LEMMA PushedFacts ==
    ASSUME NEW q \in Seq(Items), NEW x \in Items, NEW front \in BOOLEAN, NEW n \in Nat,
           Below(q, n), x.id = n + 1, DistinctIds(q)
    PROVE  /\ Pushed(q, x, front) \in Seq(Items)
           /\ DistinctIds(Pushed(q, x, front)) /\ Below(Pushed(q, x, front), n + 1)
           /\ IdsOf(Pushed(q, x, front)) = IdsOf(q) \union {n + 1}
           /\ MsgsOf(Pushed(q, x, front)) = MsgsOf(q) \union {x.msg}
           /\ DistinctMsgs(q) /\ x.msg \notin MsgsOf(q) => DistinctMsgs(Pushed(q, x, front))
<1> DEFINE p == Pushed(q, x, front)
           X == IF front THEN 1 ELSE Len(q) + 1
           At(j) == IF front THEN j - 1 ELSE j
<1>1. /\ p \in Seq(Items) /\ DOMAIN q = 1 .. Len(q) /\ DOMAIN p = 1 .. Len(q) + 1
      /\ \A i \in 1 .. Len(q) + 1 : p[i] = IF front THEN IF i = 1 THEN x ELSE q[i - 1]
                                           ELSE IF i = Len(q) + 1 THEN x ELSE q[i]
  BY PushedItems
<1>2. Len(q) \in Nat
  OBVIOUS
<1>3. \A i \in DOMAIN q : q[i] \in Items
  OBVIOUS
<1>4. \A i \in DOMAIN q : q[i].id \in Nat /\ q[i].id <= n
  BY <1>3 DEF Items, Below
<1> HIDE DEF p
<1>5. X \in DOMAIN p /\ p[X] = x
  BY <1>1, <1>2
<1>6. \A j \in DOMAIN p : j # X => At(j) \in DOMAIN q /\ p[j] = q[At(j)]
  BY <1>1, <1>2
<1>7. \A j, k \in DOMAIN p : At(j) = At(k) => j = k
  BY <1>1, <1>2
<1>8. \A i \in DOMAIN q : \E j \in DOMAIN p : j # X /\ p[j] = q[i]
  <2> SUFFICES ASSUME NEW i \in DOMAIN q PROVE \E j \in DOMAIN p : j # X /\ p[j] = q[i]
    OBVIOUS
  <2>1. CASE front
    <3>1. i + 1 \in DOMAIN p /\ i + 1 # X /\ p[i + 1] = q[i]
      <4>1. i \in 1 .. Len(q)
        BY <1>1
      <4>2. i + 1 \in 1 .. Len(q) + 1 /\ i + 1 # 1 /\ i + 1 - 1 = i
        BY <1>2, <4>1
      <4> QED
        BY <1>1, <2>1, <4>2
    <3> QED
      BY <3>1
  <2>2. CASE ~front
    <3>1. i \in DOMAIN p /\ i # X /\ p[i] = q[i]
      <4>1. i \in 1 .. Len(q)
        BY <1>1
      <4>2. i \in 1 .. Len(q) + 1 /\ i # Len(q) + 1
        BY <1>2, <4>1
      <4> QED
        BY <1>1, <2>2, <4>2
    <3> QED
      BY <3>1
  <2> QED
    BY <2>1, <2>2
<1> HIDE DEF X, At
<1>9. DistinctIds(p)
  <2> SUFFICES ASSUME NEW j \in DOMAIN p, NEW k \in DOMAIN p, p[j].id = p[k].id PROVE j = k
    BY DEF DistinctIds
  <2>1. CASE j = X /\ k # X
    <3>1. At(k) \in DOMAIN q /\ q[At(k)].id = n + 1
      BY <1>5, <1>6, <2>1
    <3> QED
      BY <1>4, <3>1
  <2>2. CASE j # X /\ k = X
    <3>1. At(j) \in DOMAIN q /\ q[At(j)].id = n + 1
      BY <1>5, <1>6, <2>2
    <3> QED
      BY <1>4, <3>1
  <2>3. CASE j # X /\ k # X
    BY <1>6, <1>7, <2>3 DEF DistinctIds
  <2> QED
    BY <2>1, <2>2, <2>3
<1>10. Below(p, n + 1)
  <2> SUFFICES ASSUME NEW j \in DOMAIN p PROVE p[j].id <= n + 1
    BY DEF Below
  <2>1. CASE j = X
    BY <1>5, <2>1
  <2>2. CASE j # X
    BY <1>4, <1>6, <2>2
  <2> QED
    BY <2>1, <2>2
<1>11. IdsOf(p) = IdsOf(q) \union {n + 1}
  BY <1>5, <1>6, <1>8 DEF IdsOf
<1>12. MsgsOf(p) = MsgsOf(q) \union {x.msg}
  BY <1>5, <1>6, <1>8 DEF MsgsOf
<1>13. ASSUME DistinctMsgs(q), x.msg \notin MsgsOf(q) PROVE DistinctMsgs(p)
  <2> SUFFICES ASSUME NEW j \in DOMAIN p, NEW k \in DOMAIN p, p[j].msg = p[k].msg PROVE j = k
    BY DEF DistinctMsgs
  <2>1. CASE j = X /\ k # X
    BY <1>5, <1>6, <1>13, <2>1 DEF MsgsOf
  <2>2. CASE j # X /\ k = X
    BY <1>5, <1>6, <1>13, <2>2 DEF MsgsOf
  <2>3. CASE j # X /\ k # X
    BY <1>6, <1>7, <1>13, <2>3 DEF DistinctMsgs
  <2> QED
    BY <2>1, <2>2, <2>3
<1> QED
  BY <1>1, <1>9, <1>10, <1>11, <1>12, <1>13 DEF p

\* A queue without its i-th item has the others.
LEMMA WithoutFacts ==
    ASSUME NEW q \in Seq(Items), NEW i \in DOMAIN q, DistinctIds(q)
    PROVE  /\ Without(q, i) \in Seq(Items)
           /\ DistinctIds(Without(q, i))
           /\ \A n \in Nat : Below(q, n) => Below(Without(q, i), n)
           /\ IdsOf(Without(q, i)) = IdsOf(q) \ {q[i].id}
           /\ DistinctMsgs(q) => /\ DistinctMsgs(Without(q, i))
                                 /\ MsgsOf(Without(q, i)) = MsgsOf(q) \ {q[i].msg}
<1> DEFINE p == Without(q, i)
           At(j) == IF j < i THEN j ELSE j + 1
<1>1. DOMAIN q = 1 .. Len(q) /\ Len(q) \in Nat /\ i \in 1 .. Len(q) /\ Len(q) - 1 \in Nat
  OBVIOUS
<1>2. /\ DOMAIN p = 1 .. Len(q) - 1
      /\ \A j \in DOMAIN p : At(j) \in DOMAIN q /\ At(j) # i /\ p[j] = q[At(j)]
      /\ \A j, k \in DOMAIN p : At(j) = At(k) => j = k
  BY <1>1 DEF Without
<1>3. p \in Seq(Items)
  <2>1. \A j \in 1 .. Len(q) - 1 : q[At(j)] \in Items
    BY <1>1, <1>2
  <2>2. p \in [1 .. Len(q) - 1 -> Items]
    BY <1>1, <2>1 DEF Without
  <2> QED
    BY <1>1, <2>2
<1>4. \A k \in DOMAIN q : k # i => \E j \in DOMAIN p : p[j] = q[k]
  <2> SUFFICES ASSUME NEW k \in DOMAIN q, k # i PROVE \E j \in DOMAIN p : p[j] = q[k]
    OBVIOUS
  <2>1. CASE k < i
    BY <1>1, <1>2, <2>1
  <2>2. CASE k > i
    <3>1. k - 1 \in DOMAIN p /\ At(k - 1) = k
      BY <1>1, <1>2, <2>2
    <3> QED
      BY <1>2, <3>1
  <2> QED
    BY <1>1, <2>1, <2>2
<1> HIDE DEF p, At
<1>5. DistinctIds(p)
  BY <1>2 DEF DistinctIds
<1>6. \A n \in Nat : Below(q, n) => Below(p, n)
  BY <1>2 DEF Below
<1>7. IdsOf(p) = IdsOf(q) \ {q[i].id}
  BY <1>2, <1>4 DEF IdsOf, DistinctIds
<1>8. ASSUME DistinctMsgs(q) PROVE DistinctMsgs(p)
  BY <1>2, <1>8 DEF DistinctMsgs
<1>9. ASSUME DistinctMsgs(q) PROVE MsgsOf(p) = MsgsOf(q) \ {q[i].msg}
  BY <1>2, <1>4, <1>9 DEF MsgsOf, DistinctMsgs
<1> QED
  BY <1>3, <1>5, <1>6, <1>7, <1>8, <1>9 DEF p

\* Two queues that differ in their order, or in what their messages say.
SameItems(p, q) ==
    /\ p \in Seq(Items)
    /\ DistinctIds(q) => DistinctIds(p)
    /\ \A n \in Nat : Below(q, n) => Below(p, n)
    /\ IdsOf(p) = IdsOf(q) /\ MsgsOf(p) = MsgsOf(q)
    /\ DistinctMsgs(q) => DistinctMsgs(p)

\* A queue with its i-th item first has the items it had.
LEMMA MovedFirstFacts ==
    ASSUME NEW q \in Seq(Items), NEW i \in DOMAIN q
    PROVE  SameItems(MovedFirst(q, i), q)
<1> DEFINE p == MovedFirst(q, i)
           At(j) == IF j = 1 THEN i ELSE IF j <= i THEN j - 1 ELSE j
<1>1. DOMAIN q = 1 .. Len(q) /\ Len(q) \in Nat /\ i \in 1 .. Len(q)
  OBVIOUS
<1>2. /\ DOMAIN p = DOMAIN q
      /\ \A j \in DOMAIN p : At(j) \in DOMAIN q /\ p[j] = q[At(j)]
  BY <1>1 DEF MovedFirst
<1>3. \A j, k \in DOMAIN p : At(j) = At(k) => j = k
  BY <1>1, <1>2
<1>4. p \in Seq(Items)
  <2>1. \A j \in 1 .. Len(q) : q[At(j)] \in Items
    BY <1>1, <1>2
  <2>2. p \in [1 .. Len(q) -> Items]
    BY <1>1, <2>1 DEF MovedFirst
  <2> QED
    BY <1>1, <2>2
<1>5. \A k \in DOMAIN q : \E j \in DOMAIN p : p[j] = q[k]
  <2> SUFFICES ASSUME NEW k \in DOMAIN q PROVE \E j \in DOMAIN p : At(j) = k
    BY <1>2
  <2>1. CASE k = i
    <3>1. 1 \in DOMAIN p /\ At(1) = k
      BY <1>1, <1>2, <2>1
    <3> QED
      BY <3>1
  <2>2. CASE k < i
    <3>1. k + 1 \in DOMAIN p /\ At(k + 1) = k
      BY <1>1, <1>2, <2>2
    <3> QED
      BY <3>1
  <2>3. CASE k > i
    <3>1. k \in DOMAIN p /\ At(k) = k
      BY <1>1, <1>2, <2>3
    <3> QED
      BY <3>1
  <2> QED
    BY <1>1, <2>1, <2>2, <2>3
<1> HIDE DEF p, At
<1>6. DistinctIds(q) => DistinctIds(p)
  BY <1>2, <1>3 DEF DistinctIds
<1>7. DistinctMsgs(q) => DistinctMsgs(p)
  BY <1>2, <1>3 DEF DistinctMsgs
<1>8. \A n \in Nat : Below(q, n) => Below(p, n)
  BY <1>2 DEF Below
<1>9. IdsOf(p) \subseteq IdsOf(q) /\ IdsOf(q) \subseteq IdsOf(p)
  <2>1. ASSUME NEW j \in DOMAIN p PROVE p[j].id \in IdsOf(q)
    BY <1>2 DEF IdsOf
  <2>2. ASSUME NEW k \in DOMAIN q PROVE q[k].id \in IdsOf(p)
    BY <1>5 DEF IdsOf
  <2> QED
    BY <2>1, <2>2 DEF IdsOf
<1>10. MsgsOf(p) \subseteq MsgsOf(q) /\ MsgsOf(q) \subseteq MsgsOf(p)
  <2>1. ASSUME NEW j \in DOMAIN p PROVE p[j].msg \in MsgsOf(q)
    BY <1>2 DEF MsgsOf
  <2>2. ASSUME NEW k \in DOMAIN q PROVE q[k].msg \in MsgsOf(p)
    BY <1>5 DEF MsgsOf
  <2> QED
    BY <2>1, <2>2 DEF MsgsOf
<1> QED
  BY <1>4, <1>6, <1>7, <1>8, <1>9, <1>10 DEF p, SameItems

\* A queue with its i-th item's content replaced has the items it had.
LEMMA EditedFacts ==
    ASSUME NEW q \in Seq(Items), NEW i \in DOMAIN q
    PROVE  SameItems([q EXCEPT ![i].edited = TRUE], q)
<1> DEFINE p == [q EXCEPT ![i].edited = TRUE]
<1>1. \A j \in DOMAIN q : q[j] \in Items
  OBVIOUS
<1>2. DOMAIN p = DOMAIN q /\ \A j \in DOMAIN q : p[j] = IF j = i THEN [q[i] EXCEPT !.edited = TRUE] ELSE q[j]
  OBVIOUS
<1>3. [q[i] EXCEPT !.edited = TRUE] \in Items /\ [q[i] EXCEPT !.edited = TRUE].id = q[i].id
      /\ [q[i] EXCEPT !.edited = TRUE].msg = q[i].msg
  BY <1>1 DEF Items
<1>4. p \in Seq(Items)
  <2>1. q \in [1 .. Len(q) -> Items] /\ Len(q) \in Nat
    OBVIOUS
  <2>2. p \in [1 .. Len(q) -> Items]
    BY <2>1, <1>3
  <2> QED
    BY <2>1, <2>2
<1> HIDE DEF p
<1>5. \A j \in DOMAIN q : p[j].id = q[j].id /\ p[j].msg = q[j].msg
  BY <1>2, <1>3
<1>6. DistinctIds(q) => DistinctIds(p)
  BY <1>2, <1>5 DEF DistinctIds
<1>7. DistinctMsgs(q) => DistinctMsgs(p)
  BY <1>2, <1>5 DEF DistinctMsgs
<1>8. \A n \in Nat : Below(q, n) => Below(p, n)
  BY <1>2, <1>5 DEF Below
<1>9. IdsOf(p) \subseteq IdsOf(q) /\ IdsOf(q) \subseteq IdsOf(p)
  BY <1>2, <1>5 DEF IdsOf
<1>10. MsgsOf(p) \subseteq MsgsOf(q) /\ MsgsOf(q) \subseteq MsgsOf(p)
  BY <1>2, <1>5 DEF MsgsOf
<1> QED
  BY <1>4, <1>6, <1>7, <1>8, <1>9, <1>10 DEF p, SameItems

-----------------------------------------------------------------------------
(* What an operation makes of messageQueue.                                *)

\* A change of the queue, which its operation has yet to hand to storeQueue.
HandsOn ==
    /\ version' = version + 1
    /\ change' = [queue |-> queue', lastID |-> lastID', version |-> version + 1]
    /\ queue' \in Seq(Items) /\ lastID' \in Nat
    /\ DistinctIds(queue') /\ Below(queue', lastID')

\* What push does to the IDs and the messages of the queue.
LEMMA PushIs ==
    ASSUME TypeOK, IdsAreDistinct, NEW m \in Msgs, NEW front \in BOOLEAN, Push(m, front)
    PROVE  /\ HandsOn /\ lastID' = lastID + 1
           /\ IdsOf(queue') = IdsOf(queue) \union {lastID + 1}
           /\ MsgsOf(queue') = MsgsOf(queue) \union {m}
           /\ DistinctMsgs(queue) /\ m \notin MsgsOf(queue) => DistinctMsgs(queue')
<1> DEFINE x == [id |-> lastID + 1, msg |-> m, edited |-> FALSE]
<1>1. queue \in Seq(Items) /\ lastID \in Nat /\ DistinctIds(queue) /\ Below(queue, lastID)
  BY DEF TypeOK, IdsAreDistinct
<1>2. x \in Items /\ x.id = lastID + 1 /\ x.msg = m
  BY <1>1 DEF Items
<1>3. /\ queue' = Pushed(queue, x, front) /\ lastID' = lastID + 1
      /\ version' = version + 1
      /\ change' = [queue |-> queue', lastID |-> lastID', version |-> version + 1]
  BY DEF Push, Changed, Pushed
<1> HIDE DEF x
<1>4. /\ Pushed(queue, x, front) \in Seq(Items)
      /\ DistinctIds(Pushed(queue, x, front)) /\ Below(Pushed(queue, x, front), lastID + 1)
      /\ IdsOf(Pushed(queue, x, front)) = IdsOf(queue) \union {lastID + 1}
      /\ MsgsOf(Pushed(queue, x, front)) = MsgsOf(queue) \union {x.msg}
      /\ DistinctMsgs(queue) /\ x.msg \notin MsgsOf(queue) => DistinctMsgs(Pushed(queue, x, front))
  BY <1>1, <1>2, PushedFacts
<1>5. lastID' \in Nat
  BY <1>1, <1>3
<1> QED
  BY <1>2, <1>3, <1>4, <1>5 DEF HandsOn

\* What taking a message out (Delete, a send that succeeded) does to them.
LEMMA RemovedIs ==
    ASSUME TypeOK, IdsAreDistinct, NEW i \in DOMAIN queue, Removed(queue[i].id)
    PROVE  /\ HandsOn /\ lastID' = lastID
           /\ IdsOf(queue') = IdsOf(queue) \ {queue[i].id}
           /\ DistinctMsgs(queue) => /\ DistinctMsgs(queue')
                                     /\ MsgsOf(queue') = MsgsOf(queue) \ {queue[i].msg}
<1>1. queue \in Seq(Items) /\ lastID \in Nat /\ DistinctIds(queue) /\ Below(queue, lastID)
  BY DEF TypeOK, IdsAreDistinct
<1>2. Changed(Without(queue, i), lastID)
  BY <1>1 DEF Removed, IdsOf, DistinctIds
<1> QED
  BY <1>1, <1>2, WithoutFacts DEF Changed, HandsOn

\* A change that keeps the messages (Edit, Reorder, MoveFirst) keeps both.
LEMMA SameIs ==
    ASSUME TypeOK, IdsAreDistinct, NEW q, SameItems(q, queue), Changed(q, lastID)
    PROVE  /\ HandsOn /\ lastID' = lastID
           /\ IdsOf(queue') = IdsOf(queue) /\ MsgsOf(queue') = MsgsOf(queue)
           /\ DistinctMsgs(queue) => DistinctMsgs(queue')
  BY DEF TypeOK, IdsAreDistinct, SameItems, Changed, HandsOn

\* What clearing the queue leaves.
LEMMA ClearIs ==
    ASSUME TypeOK, Clear
    PROVE  HandsOn /\ lastID' = lastID /\ queue' = << >>
<1>1. DistinctIds(<< >>) /\ Below(<< >>, lastID) /\ << >> \in Seq(Items)
  BY DEF DistinctIds, Below
<1> QED
  BY <1>1 DEF TypeOK, Clear, Changed, HandsOn

\* The steps under Server.mu, and those of the state database and the process.
UserStep ==
    \/ \E m \in Msgs, front \in BOOLEAN : CreateQueued(m, front)
    \/ \E m \in Msgs : CreateSent(m) \/ CreateSteered(m)
    \/ \E id \in 1 .. MaxMsg : DeleteQueued(id)
    \/ \E i \in 1 .. MaxMsg : UpdateQueued(i) \/ ReorderQueue(i) \/ SteerQueued(i)
    \/ BeginRestart \/ EndRestart
    \/ Dispatch \/ EndSent \/ EndDispatch \/ EndSteer \/ EndSteerQueued
    \/ \E result \in Results : AgentAnswers(result)

StoreStep ==
    \/ StoreChange \/ ReadForSave \/ StoreSave \/ PutNextID \/ Write
    \/ StopServer \/ Crash \/ StartUp

\* A step under Server.mu leaves the state database alone, and changes the
\* queue only when the last change was handed on.
LEMMA UserShape ==
    ASSUME IInv, UserStep
    PROVE  /\ up /\ UNCHANGED <<up, save, saved, putMeta, pending, disk, starts>>
           /\ \/ change = NoSnapshot /\ HandsOn
              \/ UNCHANGED <<queue, lastID, version, change>>
<1> USE DEF IInv
<1>1. ASSUME NEW m \in Msgs, NEW front \in BOOLEAN, CreateQueued(m, front)
      PROVE  /\ up /\ UNCHANGED <<up, save, saved, putMeta, pending, disk, starts>>
             /\ change = NoSnapshot /\ HandsOn
  BY <1>1, PushIs DEF CreateQueued, Unlocked
<1>2. ASSUME NEW id \in 1 .. MaxMsg, DeleteQueued(id)
      PROVE  /\ up /\ UNCHANGED <<up, save, saved, putMeta, pending, disk, starts>>
             /\ change = NoSnapshot /\ HandsOn
  BY <1>2, RemovedIs DEF DeleteQueued, Unlocked, IdsOf
<1>3. ASSUME NEW i \in 1 .. MaxMsg, UpdateQueued(i)
      PROVE  /\ up /\ UNCHANGED <<up, save, saved, putMeta, pending, disk, starts>>
             /\ change = NoSnapshot /\ HandsOn
  BY <1>3, EditedFacts, SameIs DEF UpdateQueued, Unlocked, TypeOK
<1>4. ASSUME NEW i \in 1 .. MaxMsg, ReorderQueue(i)
      PROVE  /\ up /\ UNCHANGED <<up, save, saved, putMeta, pending, disk, starts>>
             /\ change = NoSnapshot /\ HandsOn
  <2>1. queue \in Seq(Items) /\ i \in DOMAIN queue
    BY <1>4 DEF ReorderQueue, TypeOK
  <2> QED
    BY <1>4, <2>1, MovedFirstFacts, SameIs DEF ReorderQueue, Unlocked
<1>5. CASE BeginRestart
  BY <1>5, ClearIs DEF BeginRestart, Unlocked
<1>6. ASSUME call # NoCall PROVE up /\ change = NoSnapshot /\ call.msg \in Msgs
  BY <1>6 DEF CallHoldsItsMessage
<1>7. ASSUME call.kind # "none" PROVE call # NoCall
  BY <1>7 DEF NoCall
<1>8. CASE EndSent
  BY <1>6, <1>7, <1>8, PushIs DEF EndSent
<1>9. CASE EndSteer
  BY <1>6, <1>7, <1>9, PushIs DEF EndSteer
<1>10. ASSUME call.kind \in {"queued", "steer_queued"}, Removed(call.id) PROVE HandsOn
  <2>1. PICK i \in DOMAIN queue : queue[i].id = call.id
    BY <1>7, <1>10 DEF CallHoldsItsMessage
  <2> QED
    BY <1>10, <2>1, RemovedIs
<1>11. CASE EndSteerQueued
  BY <1>6, <1>7, <1>10, <1>11 DEF EndSteerQueued
<1>12. CASE EndDispatch
  BY <1>6, <1>7, <1>10, <1>12 DEF EndDispatch
<1>13. ASSUME NEW result \in Results, AgentAnswers(result)
       PROVE  /\ up /\ UNCHANGED <<up, save, saved, putMeta, pending, disk, starts>>
              /\ UNCHANGED <<queue, lastID, version, change>>
  BY <1>6, <1>13 DEF AgentAnswers
<1>14. CASE EndRestart \/ Dispatch
  BY <1>14 DEF EndRestart, Dispatch, memory
<1>15. ASSUME NEW m \in Msgs, CreateSent(m) \/ CreateSteered(m)
       PROVE  /\ up /\ UNCHANGED <<up, save, saved, putMeta, pending, disk, starts>>
              /\ UNCHANGED <<queue, lastID, version, change>>
  BY <1>15 DEF CreateSent, CreateSteered
<1>16. ASSUME NEW i \in 1 .. MaxMsg, SteerQueued(i)
       PROVE  /\ up /\ UNCHANGED <<up, save, saved, putMeta, pending, disk, starts>>
              /\ UNCHANGED <<queue, lastID, version, change>>
  BY <1>16 DEF SteerQueued
<1> QED
  BY <1>1, <1>2, <1>3, <1>4, <1>5, <1>8, <1>9, <1>11, <1>12, <1>13, <1>14, <1>15, <1>16 DEF UserStep

-----------------------------------------------------------------------------
(* The way of a change to the file.                                        *)

\* A snapshot is one that was taken, or none.
LEMMA SnapshotFacts ==
    ASSUME NEW s \in Snapshots
    PROVE  s.queue \in Seq(Items) /\ s.lastID \in Nat /\ s.version \in Nat /\ s # NoSnapshot
<1>1. NoSnapshot.version = -1
  BY DEF NoSnapshot
<1> QED
  BY <1>1 DEF Snapshots

\* What onChange hands to the database is a snapshot.
LEMMA NewSnapshot ==
    ASSUME NEW q \in Seq(Items), NEW last \in Nat, NEW v \in Nat
    PROVE  [queue |-> q, lastID |-> last, version |-> v] \in Snapshots
  BY DEF Snapshots

\* Every step keeps: while the server is down, nothing of its memory is left.
LEMMA DownStep ==
    ASSUME IInv, UserStep \/ StoreStep PROVE DownIsEmpty'
<1> USE DEF IInv, DownIsEmpty
<1>1. CASE UserStep
  BY <1>1, UserShape
<1>2. CASE StoreChange
  BY <1>2, SnapshotFacts DEF StoreChange
<1>3. CASE ReadForSave \/ PutNextID \/ Write
  BY <1>3 DEF ReadForSave, PutNextID, Write
<1>4. CASE StoreSave
  BY <1>4 DEF StoreSave
<1>5. CASE StopServer
  BY <1>5 DEF StopServer, Forgotten
<1>6. CASE Crash
  BY <1>6 DEF Crash, Forgotten
<1>7. CASE StartUp
  BY <1>7 DEF StartUp
<1> QED
  BY <1>1, <1>2, <1>3, <1>4, <1>5, <1>6, <1>7 DEF StoreStep

\* storeQueue of a state that is not older than the one stored stores it.
LEMMA StoreQueueIs ==
    ASSUME TypeOK, NEW s \in Snapshots, NEW who, StoreQueue(s, who)
    PROVE  /\ IF s.version >= saved.version
              THEN saved'.version = s.version /\ saved'.queue = s.queue /\ saved'.lastID = s.lastID
              ELSE saved' = saved
           /\ saved' \in Snapshots
<1>1. saved \in Snapshots
  BY DEF TypeOK
<1>2. saved.version \in Nat /\ s.version \in Nat
  BY <1>1, SnapshotFacts
<1>3. CASE ~IsLatest(s)
  <2>1. saved' = [saved EXCEPT !.version = saved.version]
    BY <1>3 DEF StoreQueue
  <2>2. saved' = saved
    BY <1>1, <2>1 DEF Snapshots
  <2> QED
    BY <1>1, <1>2, <1>3, <2>2 DEF IsLatest
<1>4. CASE IsLatest(s) /\ s.queue = saved.queue /\ s.lastID = saved.lastID
  <2>1. saved' = [saved EXCEPT !.version = s.version]
    BY <1>4 DEF StoreQueue
  <2> QED
    BY <1>1, <1>2, <1>4, <2>1 DEF IsLatest, Snapshots
<1>5. CASE IsLatest(s) /\ ~(s.queue = saved.queue /\ s.lastID = saved.lastID)
  BY <1>5 DEF StoreQueue, IsLatest
<1> QED
  BY <1>3, <1>4, <1>5

\* Every step keeps: of two snapshots, the one with the later version is the later queue.
LEMMA VersionStep ==
    ASSUME IInv, UserStep \/ StoreStep PROVE VersionsAgree'
<1> USE DEF IInv
<1>1. /\ version \in Nat /\ saved \in Snapshots
      /\ change # NoSnapshot => change \in Snapshots
      /\ save # NoSnapshot => save \in Snapshots
  BY DEF TypeOK
<1>2. CASE UserStep
  <2>1. UNCHANGED <<save, saved>>
    BY <1>2, UserShape
  <2>2. CASE change = NoSnapshot /\ HandsOn
    <3>1. save # NoSnapshot => save.version \in Nat
      BY <1>1, SnapshotFacts
    <3>2. saved.version \in Nat
      BY <1>1, SnapshotFacts
    <3>3. change'.version = version + 1 /\ change'.queue = queue' /\ change'.lastID = lastID'
          /\ version' = version + 1
      BY <2>2 DEF HandsOn
    <3>4. change' # NoSnapshot
      BY <1>1, <3>3 DEF NoSnapshot
    <3> QED
      BY <1>1, <2>1, <3>1, <3>2, <3>3, <3>4 DEF VersionsAgree
  <2>3. CASE UNCHANGED <<queue, lastID, version, change>>
    BY <2>1, <2>3 DEF VersionsAgree
  <2> QED
    BY <1>2, <2>2, <2>3, UserShape
<1>3. CASE StoreChange
  <2>1. change \in Snapshots /\ change.version = version /\ change.queue = queue /\ change.lastID = lastID
    BY <1>1, <1>3 DEF StoreChange, VersionsAgree
  <2>2. saved.version <= version
    BY DEF VersionsAgree
  <2>3. saved.version \in Nat
    BY <1>1, SnapshotFacts
  <2>4. saved'.version = version /\ saved'.queue = queue /\ saved'.lastID = lastID
    BY <1>1, <1>3, <2>1, <2>2, <2>3, StoreQueueIs DEF StoreChange
  <2>5. UNCHANGED <<queue, lastID, version, save>> /\ change' = NoSnapshot
    BY <1>3 DEF StoreChange
  <2> QED
    BY <1>1, <2>4, <2>5 DEF VersionsAgree
<1>4. CASE ReadForSave
  <2>1. /\ save'.version = version /\ save'.queue = queue /\ save'.lastID = lastID
        /\ UNCHANGED <<queue, lastID, version, change, saved>>
    BY <1>4 DEF ReadForSave
  <2> QED
    BY <1>1, <2>1 DEF VersionsAgree
<1>5. CASE StoreSave
  <2>1. save \in Snapshots
    BY <1>1, <1>5 DEF StoreSave
  <2>2. save.version \in Nat /\ saved.version \in Nat
    BY <1>1, <2>1, SnapshotFacts
  <2>3. /\ IF save.version >= saved.version
           THEN saved'.version = save.version /\ saved'.queue = save.queue /\ saved'.lastID = save.lastID
           ELSE saved' = saved
    BY <1>5, <2>1, StoreQueueIs DEF StoreSave
  <2>4. UNCHANGED <<queue, lastID, version, change>> /\ save' = NoSnapshot
    BY <1>5 DEF StoreSave
  <2>5. save # NoSnapshot
    BY <1>5 DEF StoreSave
  <2> QED
    BY <1>1, <2>2, <2>3, <2>4, <2>5 DEF VersionsAgree
<1>6. CASE PutNextID \/ Write
  BY <1>6 DEF PutNextID, Write, VersionsAgree
<1>7. CASE StopServer \/ Crash
  BY <1>7 DEF StopServer, Crash, Forgotten, VersionsAgree
<1>8. CASE StartUp
  <2>1. /\ version = 0 /\ change = NoSnapshot /\ save = NoSnapshot
        /\ UNCHANGED <<version, change, save>>
    BY <1>8 DEF StartUp, DownIsEmpty
  <2>2. saved'.version = 0 /\ saved'.queue = queue' /\ saved'.lastID = lastID'
    BY <1>8 DEF StartUp
  <2> QED
    BY <2>1, <2>2 DEF VersionsAgree
<1> QED
  BY <1>2, <1>3, <1>4, <1>5, <1>6, <1>7, <1>8 DEF StoreStep

\* Every step keeps: the IDs of a queue, of a snapshot and of the file are distinct and were given out.
LEMMA IdsStep ==
    ASSUME IInv, UserStep \/ StoreStep PROVE IdsAreDistinct'
<1> USE DEF IInv
<1>1. DistinctIds(<< >>) /\ Below(<< >>, 0) /\ NoSnapshot.queue = << >>
  BY DEF DistinctIds, Below, NoSnapshot
<1>2. CASE UserStep
  <2>1. UNCHANGED <<save, saved, pending, disk>>
    BY <1>2, UserShape
  <2>2. CASE HandsOn
    <3>1. change'.queue = queue' /\ DistinctIds(queue') /\ Below(queue', lastID')
      BY <2>2 DEF HandsOn
    <3> QED
      BY <2>1, <3>1 DEF IdsAreDistinct
  <2>3. CASE UNCHANGED <<queue, lastID, version, change>>
    BY <2>1, <2>3 DEF IdsAreDistinct
  <2> QED
    BY <1>2, <2>2, <2>3, UserShape
<1>3. ASSUME NEW s \in Snapshots, NEW who, StoreQueue(s, who), DistinctIds(s.queue)
      PROVE  DistinctIds(saved'.queue) /\ DistinctIds(pending'.queue)
  <2>1. saved'.queue = saved.queue \/ saved'.queue = s.queue
    BY <1>3, StoreQueueIs
  <2>2. pending' = pending \/ pending' = [pending EXCEPT !.queue = s.queue, !.hasQueue = TRUE]
    BY <1>3 DEF StoreQueue
  <2>3. pending'.queue = pending.queue \/ pending'.queue = s.queue
    BY <2>2 DEF TypeOK
  <2> QED
    BY <1>3, <2>1, <2>3 DEF IdsAreDistinct
<1>4. CASE StoreChange
  <2>1. change \in Snapshots
    BY <1>4 DEF StoreChange, TypeOK
  <2>2. DistinctIds(saved'.queue) /\ DistinctIds(pending'.queue)
    BY <1>3, <1>4, <2>1 DEF StoreChange, IdsAreDistinct
  <2> QED
    BY <1>1, <1>4, <2>2 DEF StoreChange, IdsAreDistinct
<1>5. CASE ReadForSave
  <2>1. save'.queue = queue /\ UNCHANGED <<queue, lastID, change, saved, pending, disk>>
    BY <1>5 DEF ReadForSave
  <2> QED
    BY <2>1 DEF IdsAreDistinct
<1>6. CASE StoreSave
  <2>1. save \in Snapshots
    BY <1>6 DEF StoreSave, TypeOK
  <2>2. DistinctIds(saved'.queue) /\ DistinctIds(pending'.queue)
    BY <1>3, <1>6, <2>1 DEF StoreSave, IdsAreDistinct
  <2> QED
    BY <1>1, <1>6, <2>2 DEF StoreSave, IdsAreDistinct
<1>7. CASE PutNextID
  <2>1. pending'.queue = pending.queue
    BY <1>7 DEF PutNextID, TypeOK
  <2> QED
    BY <1>7, <2>1 DEF PutNextID, IdsAreDistinct
<1>8. DistinctIds(Written.queue) /\ NothingPending.queue = << >>
  BY DEF Written, IdsAreDistinct, NothingPending
<1>9. CASE Write
  BY <1>1, <1>8, <1>9 DEF Write, IdsAreDistinct
<1>10. CASE StopServer \/ Crash
  <2>1. disk' = disk \/ disk' = Written
    BY <1>10 DEF StopServer, Crash, ClosedFile
  <2>2. Forgotten
    BY <1>10 DEF StopServer, Crash
  <2>3. queue' = << >> /\ lastID' = 0 /\ change'.queue = << >> /\ save'.queue = << >>
        /\ saved'.queue = << >> /\ pending'.queue = << >>
    BY <1>1, <1>8, <2>2 DEF Forgotten
  <2> QED
    BY <1>1, <1>8, <2>1, <2>3 DEF IdsAreDistinct
<1>11. CASE StartUp
  <2>1. /\ queue' = disk.queue /\ saved'.queue = disk.queue
        /\ UNCHANGED <<change, save, pending, disk>>
    BY <1>11 DEF StartUp
  <2>2. \A id \in IdsOf(disk.queue) : id <= lastID'
    BY <1>11 DEF StartUp, IsRestoredLastID
  <2>3. Below(queue', lastID')
    BY <2>1, <2>2 DEF Below, IdsOf
  <2> QED
    BY <2>1, <2>3 DEF IdsAreDistinct
<1> QED
  BY <1>2, <1>4, <1>5, <1>6, <1>7, <1>9, <1>10, <1>11 DEF StoreStep

\* A fault is counted.
LEMMA FaultIs ==
    ASSUME TypeOK, Fault PROVE ~Faultless'
<1>1. starts.faults \in Nat /\ starts'.faults = starts.faults + 1
  BY DEF TypeOK, Fault
<1> QED
  BY <1>1 DEF Faultless

\* Without a fault the last ID restored is the one of the file.
LEMMA RestoredIs ==
    ASSUME IInv, StartUp, Faultless
    PROVE  lastID' = disk.next
<1> USE DEF IInv
<1>1. Below(disk.queue, disk.next)
  BY DEF StartUp, WhatWaits, WaitIn
<1>2. disk.queue \in Seq(Items) /\ disk.next \in Nat
  BY DEF TypeOK
<1>3. \A i \in DOMAIN disk.queue : disk.queue[i] \in Items
  BY <1>2
<1>4. \A id \in IdsOf(disk.queue) : id \in Nat /\ id <= disk.next
  BY <1>1, <1>3 DEF IdsOf, Below, Items
<1>5. lastID' \in IdsOf(disk.queue) \union {disk.next} /\ disk.next <= lastID'
  BY DEF StartUp, IsRestoredLastID
<1> QED
  BY <1>2, <1>4, <1>5

\* storeQueue hands what it stores to PutQueue.
LEMMA StoredByStoreQueue ==
    ASSUME TypeOK, StoredIsWritten, NEW s \in Snapshots, NEW who \in {"change", "save"}, StoreQueue(s, who),
           UNCHANGED <<disk, up, starts>>
    PROVE  StoredIsWritten'
<1>1. saved \in Snapshots /\ pending \in [queue : Seq(Items), next : Nat, hasQueue : BOOLEAN, hasNext : BOOLEAN]
  BY DEF TypeOK
<1>2. CASE UNCHANGED <<putMeta, pending>> /\ saved'.queue = saved.queue /\ saved'.lastID = saved.lastID
  BY <1>2 DEF StoredIsWritten, Faultless, Written
<1>3. CASE /\ saved' = s
           /\ pending' = [pending EXCEPT !.queue = s.queue, !.hasQueue = TRUE]
           /\ putMeta' = [next |-> s.lastID, by |-> who]
  <2>1. pending'.queue = s.queue /\ pending'.hasQueue
    BY <1>1, <1>3
  <2>2. Written'.queue = s.queue
    BY <2>1 DEF Written
  <2>3. putMeta'.by # "none" /\ putMeta'.next = s.lastID
    BY <1>3
  <2> QED
    BY <1>3, <2>2, <2>3 DEF StoredIsWritten
<1>4. CASE ~IsLatest(s) \/ (s.queue = saved.queue /\ s.lastID = saved.lastID)
  <2>1. UNCHANGED <<putMeta, pending>> /\ \E v : saved' = [saved EXCEPT !.version = v]
    BY <1>4 DEF StoreQueue
  <2>2. saved'.queue = saved.queue /\ saved'.lastID = saved.lastID
    BY <1>1, <2>1 DEF Snapshots
  <2> QED
    BY <1>2, <2>1, <2>2
<1>5. CASE ~(~IsLatest(s) \/ (s.queue = saved.queue /\ s.lastID = saved.lastID))
  BY <1>3, <1>5 DEF StoreQueue
<1> QED
  BY <1>4, <1>5

\* Every step keeps: what the database was handed last is pending, or in the file.
LEMMA StoredStep ==
    ASSUME IInv, UserStep \/ StoreStep PROVE StoredIsWritten'
<1> USE DEF IInv
<1>1. CASE UserStep
  BY <1>1, UserShape DEF StoredIsWritten, Faultless, Written
<1>2. CASE StoreChange
  <2>1. change \in Snapshots
    BY <1>2 DEF StoreChange, TypeOK
  <2> QED
    BY <1>2, <2>1, StoredByStoreQueue DEF StoreChange
<1>3. CASE StoreSave
  <2>1. save \in Snapshots
    BY <1>3 DEF StoreSave, TypeOK
  <2> QED
    BY <1>3, <2>1, StoredByStoreQueue DEF StoreSave
<1>4. CASE ReadForSave
  BY <1>4 DEF ReadForSave, StoredIsWritten, Faultless, Written
<1>5. CASE PutNextID
  <2>1. /\ pending'.queue = pending.queue /\ pending'.hasQueue = pending.hasQueue
        /\ pending'.next = putMeta.next /\ pending'.hasNext
        /\ putMeta.by # "none" /\ putMeta'.by = "none"
        /\ UNCHANGED <<saved, disk, up, starts>>
    BY <1>5 DEF PutNextID, TypeOK
  <2>2. Written'.queue = Written.queue /\ Written'.next = putMeta.next
    BY <2>1 DEF Written
  <2> QED
    BY <2>1, <2>2 DEF StoredIsWritten, Faultless
<1>6. CASE Write
  <2>1. CASE Fault
    BY <2>1, FaultIs DEF StoredIsWritten
  <2>2. CASE disk' = Written /\ UNCHANGED starts
    <3>1. Written'.queue = Written.queue /\ Written'.next = Written.next
      BY <1>6, <2>2 DEF Write, Written, NothingPending
    <3> QED
      BY <1>6, <2>2, <3>1 DEF Write, StoredIsWritten, Faultless
  <2> QED
    BY <1>6, <2>1, <2>2 DEF Write
<1>7. CASE StopServer \/ Crash
  BY <1>7 DEF StopServer, Crash, StoredIsWritten
<1>8. CASE StartUp
  <2>1. ASSUME Faultless' PROVE Faultless
    BY <1>8, <2>1 DEF StartUp, Faultless, TypeOK
  <2>2. /\ pending' = NothingPending /\ putMeta'.by = "none" /\ disk' = disk
        /\ saved'.queue = disk.queue /\ saved'.lastID = lastID'
    BY <1>8 DEF StartUp, DownIsEmpty
  <2>3. Written'.queue = disk.queue /\ Written'.next = disk.next
    BY <2>2 DEF Written, NothingPending
  <2> QED
    BY <1>8, <2>1, <2>2, <2>3, RestoredIs DEF StoredIsWritten
<1> QED
  BY <1>1, <1>2, <1>3, <1>4, <1>5, <1>6, <1>7, <1>8 DEF StoreStep

-----------------------------------------------------------------------------
(* The send under way.                                                     *)

Fates == {"none", "calling", "queued", "sent", "failed", "deleted", "cleared"}

\* The messages that may still be sent.
MayBeSent == {"none", "queued", "calling"}

\* The messages of a queue are messages users sent.
LEMMA QueueFacts ==
    ASSUME TypeOK
    PROVE  /\ \A i \in DOMAIN queue : queue[i].msg \in Msgs /\ queue[i].id \in Nat
           /\ queue # << >> => 1 \in DOMAIN queue /\ Head(queue) = queue[1]
<1>1. queue \in Seq(Items)
  BY DEF TypeOK
<1>2. \A i \in DOMAIN queue : queue[i] \in Items
  BY <1>1
<1>3. \A i \in DOMAIN queue : queue[i].msg \in Msgs /\ queue[i].id \in Nat
  BY <1>2 DEF Items
<1>4. queue # << >> => 1 \in DOMAIN queue /\ Head(queue) = queue[1]
  BY <1>1
<1> QED
  BY <1>3, <1>4

\* Every step keeps: a send under way holds the message it is of, and the queue still has it.
LEMMA CallStep ==
    ASSUME IInv, UserStep \/ StoreStep PROVE CallHoldsItsMessage'
<1> USE DEF IInv
<1>1. fate \in [Msgs -> Fates] /\ call \in Calls
  BY DEF TypeOK, Fates
<1>2. NoCall.kind = "none"
  BY DEF NoCall
<1>3. ASSUME call = NoCall, call' = call PROVE CallHoldsItsMessage'
  BY <1>3 DEF CallHoldsItsMessage
<1>4. ASSUME call' = NoCall PROVE CallHoldsItsMessage'
  BY <1>4 DEF CallHoldsItsMessage
<1>5. ASSUME NEW m \in Msgs, CreateSent(m) \/ CreateSteered(m) PROVE CallHoldsItsMessage'
  <2>1. /\ call'.msg = m /\ call'.kind \in {"direct", "steer"}
        /\ up' /\ change' = NoSnapshot /\ fate' = [fate EXCEPT ![m] = "calling"]
    BY <1>5 DEF CreateSent, CreateSteered, Unlocked
  <2> QED
    BY <1>1, <2>1 DEF CallHoldsItsMessage
<1>6. ASSUME NEW i \in DOMAIN queue, call'.kind \in {"queued", "steer_queued"},
             call'.msg = queue[i].msg, call'.id = queue[i].id, queue' = queue,
             up', change' = NoSnapshot
      PROVE  CallHoldsItsMessage'
  BY <1>6, QueueFacts DEF CallHoldsItsMessage
<1>7. ASSUME NEW i \in 1 .. MaxMsg, SteerQueued(i) PROVE CallHoldsItsMessage'
  BY <1>6, <1>7 DEF SteerQueued, Unlocked
<1>8. CASE Dispatch
  <2>1. 1 \in DOMAIN queue /\ Head(queue) = queue[1]
    BY <1>8, QueueFacts DEF Dispatch
  <2> QED
    BY <1>6, <1>8, <2>1 DEF Dispatch, Unlocked
<1>9. ASSUME NEW result \in Results, AgentAnswers(result) PROVE CallHoldsItsMessage'
  <2>1. /\ call'.kind = call.kind /\ call'.msg = call.msg /\ call'.id = call.id /\ call # NoCall
        /\ UNCHANGED <<queue, change, up, fate>>
    BY <1>1, <1>9 DEF AgentAnswers, Calls
  <2> QED
    BY <2>1 DEF CallHoldsItsMessage
<1>10. CASE EndSteer
  <2>1. CASE call' = [call EXCEPT !.kind = "direct", !.result = "none"] /\ UNCHANGED <<change, fate>>
    <3>1. call'.kind = "direct" /\ call'.msg = call.msg /\ up' = up /\ call # NoCall
      BY <1>1, <1>2, <1>10, <2>1 DEF EndSteer, Calls
    <3>2. call.msg \in Msgs /\ fate[call.msg] = "calling" /\ up /\ change = NoSnapshot
      BY <1>10, <3>1 DEF EndSteer, CallHoldsItsMessage
    <3> QED
      BY <2>1, <3>1, <3>2 DEF CallHoldsItsMessage
  <2> QED
    BY <1>4, <1>10, <2>1 DEF EndSteer
<1>11. CASE EndSent \/ EndDispatch \/ EndSteerQueued
  BY <1>4, <1>11 DEF EndSent, EndDispatch, EndSteerQueued
<1>12. ASSUME NEW m \in Msgs, NEW front \in BOOLEAN, CreateQueued(m, front) PROVE CallHoldsItsMessage'
  BY <1>3, <1>12 DEF CreateQueued, Unlocked
<1>13. ASSUME NEW i \in 1 .. MaxMsg, DeleteQueued(i) \/ UpdateQueued(i) \/ ReorderQueue(i)
       PROVE  CallHoldsItsMessage'
  BY <1>3, <1>13 DEF DeleteQueued, UpdateQueued, ReorderQueue, Unlocked
<1>14. CASE BeginRestart \/ EndRestart
  BY <1>3, <1>14 DEF BeginRestart, EndRestart, Unlocked, memory
<1>15. CASE StoreChange
  <2>1. call = NoCall
    BY <1>15 DEF StoreChange, CallHoldsItsMessage
  <2> QED
    BY <1>3, <1>15, <2>1 DEF StoreChange
<1>16. CASE ReadForSave \/ StoreSave \/ PutNextID \/ Write
  <2>1. UNCHANGED <<call, up, change, queue, fate>>
    BY <1>16 DEF ReadForSave, StoreSave, PutNextID, Write, history
  <2> QED
    BY <2>1 DEF CallHoldsItsMessage
<1>17. CASE StopServer \/ Crash
  BY <1>4, <1>17 DEF StopServer, Crash, Forgotten
<1>18. CASE StartUp
  BY <1>3, <1>18 DEF StartUp, DownIsEmpty
<1> QED
  BY <1>5, <1>7, <1>8, <1>9, <1>10, <1>11, <1>12, <1>13, <1>14, <1>15, <1>16, <1>17, <1>18
     DEF UserStep, StoreStep

-----------------------------------------------------------------------------
(* The messages that wait.                                                 *)

LEMMA PushWaits ==
    ASSUME IInv, WaitIn(queue, lastID), NEW m \in Msgs, NEW front \in BOOLEAN,
           fate[m] # "queued", Push(m, front), fate' = [fate EXCEPT ![m] = "queued"], gone' = gone
    PROVE  WaitIn(queue, lastID)'
<1> USE DEF IInv
<1>1. fate \in [Msgs -> Fates] /\ lastID \in Nat /\ gone \subseteq Nat
  BY DEF TypeOK, Fates
<1>2. {k \in Msgs : fate'[k] = "queued"} = {k \in Msgs : fate[k] = "queued"} \union {m}
  BY <1>1
<1>3. m \notin MsgsOf(queue)
  BY DEF WaitIn
<1>4. /\ HandsOn /\ lastID' = lastID + 1
      /\ IdsOf(queue') = IdsOf(queue) \union {lastID + 1}
      /\ MsgsOf(queue') = MsgsOf(queue) \union {m}
      /\ DistinctMsgs(queue')
  BY <1>3, PushIs DEF WaitIn
<1>5. \A id \in gone : id <= lastID' /\ id # lastID + 1
  BY <1>1, <1>4 DEF WaitIn
<1>6. {k \in Msgs : fate'[k] = "queued"} = MsgsOf(queue')
  BY <1>2, <1>4 DEF WaitIn
<1>7. IdsOf(queue') \intersect gone' = {}
  BY <1>4, <1>5 DEF WaitIn
<1> QED
  BY <1>4, <1>5, <1>6, <1>7 DEF WaitIn, HandsOn

\* Taking out one message whose fate is decided leaves the others waiting.
LEMMA RemoveWaits ==
    ASSUME IInv, WaitIn(queue, lastID), NEW i \in DOMAIN queue, Removed(queue[i].id),
           fate'[queue[i].msg] # "queued",
           \A m \in Msgs : m # queue[i].msg => fate'[m] = fate[m],
           gone' = gone \union {queue[i].id}
    PROVE  WaitIn(queue, lastID)'
<1> USE DEF IInv
<1>1. queue[i].msg \in Msgs
  BY QueueFacts
<1>2. {k \in Msgs : fate'[k] = "queued"} = {k \in Msgs : fate[k] = "queued"} \ {queue[i].msg}
  BY <1>1
<1>3. /\ HandsOn /\ lastID' = lastID
      /\ IdsOf(queue') = IdsOf(queue) \ {queue[i].id}
      /\ DistinctMsgs(queue') /\ MsgsOf(queue') = MsgsOf(queue) \ {queue[i].msg}
  BY RemovedIs DEF WaitIn
<1>4. queue[i].id <= lastID
  BY DEF IdsAreDistinct, Below
<1>5. \A id \in gone' : id <= lastID'
  BY <1>3, <1>4 DEF WaitIn
<1>6. IdsOf(queue') \intersect gone' = {}
  BY <1>3 DEF WaitIn
<1> QED
  BY <1>2, <1>3, <1>5, <1>6 DEF WaitIn, HandsOn

\* A change that keeps the messages keeps those that wait.
LEMMA SameWaits ==
    ASSUME IInv, WaitIn(queue, lastID), NEW q, SameItems(q, queue), Changed(q, lastID),
           UNCHANGED <<fate, gone>>
    PROVE  WaitIn(queue, lastID)'
  BY SameIs DEF IInv, WaitIn, HandsOn

\* The queue is left as it is, and no message starts or ends waiting.
LEMMA KeptWaits ==
    ASSUME WaitIn(queue, lastID), UNCHANGED <<queue, lastID, gone>>,
           \A m \in Msgs : fate'[m] = "queued" <=> fate[m] = "queued"
    PROVE  WaitIn(queue, lastID)'
<1>1. {m \in Msgs : fate'[m] = "queued"} = {m \in Msgs : fate[m] = "queued"}
  OBVIOUS
<1> QED
  BY <1>1 DEF WaitIn

\* The message a send under way takes from the queue is in it.
LEMMA CallIs ==
    ASSUME IInv, call.kind # "none"
    PROVE  /\ call # NoCall /\ up /\ change = NoSnapshot /\ call.msg \in Msgs
           /\ call.kind \in {"queued", "steer_queued"} =>
                \E i \in DOMAIN queue : queue[i].id = call.id /\ queue[i].msg = call.msg
           /\ call.kind \in {"direct", "steer"} => fate[call.msg] = "calling"
<1>1. call # NoCall
  BY DEF NoCall
<1> QED
  BY <1>1 DEF IInv, CallHoldsItsMessage

\* Every operation of the queue keeps: what waits is in the queue, once, and its ID is not gone.
LEMMA WaitsUser ==
    ASSUME IInv, UserStep, WaitIn(queue, lastID)
    PROVE  WaitIn(queue, lastID)'
<1> USE DEF IInv
<1>1. fate \in [Msgs -> Fates]
  BY DEF TypeOK, Fates
<1>2. ASSUME NEW m \in Msgs, NEW front \in BOOLEAN, CreateQueued(m, front)
      PROVE  WaitIn(queue, lastID)'
  <2>1. fate[m] # "queued" /\ Push(m, front) /\ fate' = [fate EXCEPT ![m] = "queued"] /\ gone' = gone
    BY <1>2 DEF CreateQueued, Unsent
  <2> QED
    BY <2>1, PushWaits
<1>3. ASSUME NEW m \in Msgs, CreateSent(m) \/ CreateSteered(m)
      PROVE  WaitIn(queue, lastID)'
  <2>1. fate[m] # "queued" /\ fate' = [fate EXCEPT ![m] = "calling"] /\ UNCHANGED <<queue, lastID, gone>>
    BY <1>3 DEF CreateSent, CreateSteered, Unsent
  <2>2. \A k \in Msgs : fate'[k] = "queued" <=> fate[k] = "queued"
    BY <1>1, <2>1
  <2> QED
    BY <2>1, <2>2, KeptWaits
<1>4. ASSUME NEW id \in 1 .. MaxMsg, DeleteQueued(id)
      PROVE  WaitIn(queue, lastID)'
  <2>1. PICK i \in DOMAIN queue : queue[i].id = id
    BY <1>4 DEF DeleteQueued, IdsOf
  <2>2. \A k \in DOMAIN queue : queue[k].id = id => k = i
    BY <2>1 DEF IdsAreDistinct, DistinctIds
  <2>3. fate' = [m \in Msgs |-> IF m = queue[i].msg THEN "deleted" ELSE fate[m]]
    <3>1. \A m \in Msgs : (\E k \in DOMAIN queue : queue[k].id = id /\ queue[k].msg = m) <=> m = queue[i].msg
      BY <2>1, <2>2
    <3> QED
      BY <1>4, <3>1 DEF DeleteQueued
  <2>4. queue[i].msg \in Msgs
    BY QueueFacts
  <2>5. fate'[queue[i].msg] # "queued" /\ \A m \in Msgs : m # queue[i].msg => fate'[m] = fate[m]
    BY <2>3, <2>4
  <2>6. Removed(queue[i].id) /\ gone' = gone \union {queue[i].id}
    BY <1>4, <2>1 DEF DeleteQueued
  <2> QED
    BY <2>5, <2>6, RemoveWaits
<1>5. ASSUME NEW i \in 1 .. MaxMsg, UpdateQueued(i)
      PROVE  WaitIn(queue, lastID)'
  BY <1>5, EditedFacts, SameWaits DEF UpdateQueued, TypeOK, history
<1>6. ASSUME NEW i \in 1 .. MaxMsg, ReorderQueue(i)
      PROVE  WaitIn(queue, lastID)'
  <2>1. queue \in Seq(Items) /\ i \in DOMAIN queue
    BY <1>6 DEF ReorderQueue, TypeOK
  <2> QED
    BY <1>6, <2>1, MovedFirstFacts, SameWaits DEF ReorderQueue, history
<1>7. CASE BeginRestart
  <2>1. queue' = << >> /\ lastID' = lastID
    BY <1>7, ClearIs DEF BeginRestart
  <2>2. MsgsOf(queue') = {} /\ IdsOf(queue') = {} /\ DistinctMsgs(queue') /\ Below(queue', lastID')
    BY <2>1 DEF MsgsOf, IdsOf, DistinctMsgs, Below
  <2>3. {m \in Msgs : fate'[m] = "queued"} = {}
    BY <1>7 DEF BeginRestart, WaitIn
  <2>4. \A id \in IdsOf(queue) : id <= lastID
    BY DEF WaitIn, Below, IdsOf
  <2>5. gone' = gone \union IdsOf(queue)
    BY <1>7 DEF BeginRestart
  <2>6. \A id \in gone' : id <= lastID'
    BY <2>1, <2>4, <2>5 DEF WaitIn
  <2> QED
    BY <2>2, <2>3, <2>6 DEF WaitIn
<1>8. CASE EndRestart \/ Dispatch
  <2>1. UNCHANGED <<queue, lastID, gone, fate>>
    BY <1>8 DEF EndRestart, Dispatch, memory, history
  <2> QED
    BY <2>1, KeptWaits
<1>9. ASSUME NEW i \in 1 .. MaxMsg, SteerQueued(i) PROVE WaitIn(queue, lastID)'
  <2>1. UNCHANGED <<queue, lastID, gone, fate>>
    BY <1>9 DEF SteerQueued, history
  <2> QED
    BY <2>1, KeptWaits
<1>10. ASSUME NEW result \in Results, AgentAnswers(result) PROVE WaitIn(queue, lastID)'
  <2>1. UNCHANGED <<queue, lastID, gone, fate>>
    BY <1>10 DEF AgentAnswers
  <2> QED
    BY <2>1, KeptWaits
<1>11. CASE EndSent \/ EndSteer
  <2>1. call.msg \in Msgs /\ fate[call.msg] = "calling"
    BY <1>11, CallIs DEF EndSent, EndSteer
  <2>2. CASE Push(call.msg, FALSE) /\ fate' = [fate EXCEPT ![call.msg] = "queued"]
    <3>1. gone' = gone
      BY <1>11 DEF EndSent, EndSteer
    <3> QED
      BY <2>1, <2>2, <3>1, PushWaits
  <2>3. CASE UNCHANGED <<queue, lastID, version, change, fate>>
    BY <1>11, <2>3, KeptWaits DEF EndSent, EndSteer
  <2>4. CASE /\ fate' = [fate EXCEPT ![call.msg] = IF call.result = "ok" THEN "sent" ELSE "failed"]
             /\ UNCHANGED <<queue, lastID, version, change>>
    <3>1. \A m \in Msgs : fate'[m] = "queued" <=> fate[m] = "queued"
      BY <1>1, <2>1, <2>4
    <3> QED
      BY <1>11, <2>4, <3>1, KeptWaits DEF EndSent, EndSteer
  <2> QED
    BY <1>11, <2>2, <2>3, <2>4 DEF EndSent, EndSteer
<1>12. CASE EndDispatch \/ EndSteerQueued
  <2>1. PICK i \in DOMAIN queue : queue[i].id = call.id /\ queue[i].msg = call.msg
    BY <1>12, CallIs DEF EndDispatch, EndSteerQueued
  <2>2. CASE /\ Removed(call.id)
             /\ fate' = [fate EXCEPT ![call.msg] = IF call.result = "ok" THEN "sent" ELSE "failed"]
             /\ gone' = gone \union {call.id}
    <3>1. call.msg \in Msgs
      BY <2>1, QueueFacts
    <3>2. fate'[queue[i].msg] # "queued" /\ \A m \in Msgs : m # queue[i].msg => fate'[m] = fate[m]
      BY <1>1, <2>1, <2>2, <3>1
    <3> QED
      BY <2>1, <2>2, <3>2, RemoveWaits
  <2>3. CASE UNCHANGED <<queue, lastID, version, change, fate, gone>>
    BY <2>3, KeptWaits
  <2> QED
    BY <1>12, <2>2, <2>3 DEF EndDispatch, EndSteerQueued
<1> QED
  BY <1>2, <1>3, <1>4, <1>5, <1>6, <1>7, <1>8, <1>9, <1>10, <1>11, <1>12 DEF UserStep

\* The same of every step: in the queue, in the snapshots on their way, and in the file.
LEMMA WaitsStep ==
    ASSUME IInv, UserStep \/ StoreStep PROVE WhatWaits'
<1> USE DEF IInv
<1>1. CASE UserStep
  <2>1. up' /\ up /\ starts' = starts
    BY <1>1, UserShape
  <2> QED
    BY <1>1, <2>1, WaitsUser DEF WhatWaits, Faultless
<1>2. CASE StoreChange \/ ReadForSave \/ StoreSave \/ PutNextID
  <2>1. UNCHANGED <<queue, lastID, fate, gone, disk, up, starts>>
    BY <1>2 DEF StoreChange, ReadForSave, StoreSave, PutNextID, history
  <2> QED
    BY <2>1 DEF WhatWaits, Faultless, WaitIn
<1>3. CASE Write
  <2>1. CASE Fault
    BY <2>1, FaultIs DEF WhatWaits
  <2>2. CASE UNCHANGED starts
    <3>1. up' /\ up /\ UNCHANGED <<queue, lastID, fate, gone>>
      BY <1>3 DEF Write, history
    <3> QED
      BY <2>2, <3>1 DEF WhatWaits, Faultless, WaitIn
  <2> QED
    BY <1>3, <2>1, <2>2 DEF Write
<1>4. CASE StopServer
  <2>1. CASE Fault
    BY <2>1, FaultIs DEF WhatWaits
  <2>2. CASE disk' = ClosedFile /\ UNCHANGED starts
    <3>1. ~up' /\ up /\ UNCHANGED <<fate, gone>> /\ change = NoSnapshot /\ putMeta.by = "none"
      BY <1>4 DEF StopServer, history, Unlocked
    <3>2. saved.queue = queue /\ saved.lastID = lastID
      BY <3>1 DEF VersionsAgree
    <3>3. ASSUME Faultless PROVE disk'.queue = queue /\ disk'.next = lastID
      BY <2>2, <3>1, <3>2, <3>3 DEF StoredIsWritten, ClosedFile
    <3> QED
      BY <2>2, <3>1, <3>3 DEF WhatWaits, Faultless, WaitIn
  <2> QED
    BY <1>4, <2>1, <2>2 DEF StopServer
<1>5. CASE Crash
  BY <1>5, FaultIs DEF Crash, WhatWaits
<1>6. CASE StartUp
  <2>1. ASSUME Faultless' PROVE Faultless
    BY <1>6, <2>1 DEF StartUp, Faultless, TypeOK
  <2>2. up' /\ ~up /\ queue' = disk.queue /\ UNCHANGED <<fate, gone>>
    BY <1>6 DEF StartUp, history
  <2> QED
    BY <1>6, <2>1, <2>2, RestoredIs DEF WhatWaits, WaitIn
<1> QED
  BY <1>1, <1>2, <1>3, <1>4, <1>5, <1>6 DEF StoreStep

-----------------------------------------------------------------------------
(* What reached the agent.                                                 *)

\* A message that reached the agent leaves when its send ends.
LEMMA EndSends ==
    ASSUME IInv, UNCHANGED <<reached, starts>>,
           \A m \in Msgs : m # call.msg => (fate'[m] \in MayBeSent => fate[m] \in MayBeSent),
           fate'[call.msg] \in MayBeSent => /\ fate[call.msg] \in MayBeSent
                                            /\ call.result \notin {"ok", "unconfirmed"}
    PROVE  SentOnce'
<1>1. \A m \in Msgs : m # call.msg \/ m = call.msg
  OBVIOUS
<1> QED
  BY DEF IInv, SentOnce, Faultless, MayBeSent

\* Every step keeps: a message went to the agent once, and one that waits not at all.
LEMMA SentStep ==
    ASSUME IInv, UserStep \/ StoreStep PROVE SentOnce'
<1> USE DEF IInv
<1>1. fate \in [Msgs -> Fates] /\ call \in Calls /\ reached \in [Msgs -> Nat]
  BY DEF TypeOK, Fates
<1>2. NoCall.result = "none"
  BY DEF NoCall
<1>3. ASSUME call.result = "none", UNCHANGED <<reached, starts>>,
             \A m \in Msgs : fate'[m] \in MayBeSent => fate[m] \in MayBeSent
      PROVE  SentOnce'
  BY <1>3 DEF SentOnce, Faultless, MayBeSent
<1>4. ASSUME NEW m \in Msgs, NEW front \in BOOLEAN,
             CreateQueued(m, front) \/ CreateSent(m) \/ CreateSteered(m)
      PROVE  SentOnce'
  <2>1. /\ call = NoCall /\ UNCHANGED <<reached, starts>> /\ fate[m] = "none"
        /\ fate' = [fate EXCEPT ![m] = "queued"] \/ fate' = [fate EXCEPT ![m] = "calling"]
    BY <1>4 DEF CreateQueued, CreateSent, CreateSteered, Unlocked, Unsent
  <2>2. \A k \in Msgs : fate'[k] \in MayBeSent => fate[k] \in MayBeSent
    BY <1>1, <2>1 DEF MayBeSent
  <2> QED
    BY <1>2, <1>3, <2>1, <2>2
<1>5. ASSUME NEW i \in 1 .. MaxMsg, DeleteQueued(i)
      PROVE  SentOnce'
  <2>1. call = NoCall /\ UNCHANGED <<reached, starts>>
    BY <1>5 DEF DeleteQueued, Unlocked
  <2>2. \A k \in Msgs : fate'[k] = "deleted" \/ fate'[k] = fate[k]
    BY <1>5 DEF DeleteQueued
  <2> QED
    BY <1>2, <1>3, <2>1, <2>2 DEF MayBeSent
<1>6. ASSUME NEW i \in 1 .. MaxMsg, UpdateQueued(i) \/ ReorderQueue(i) \/ SteerQueued(i)
      PROVE  SentOnce'
  BY <1>2, <1>3, <1>6 DEF UpdateQueued, ReorderQueue, SteerQueued, Unlocked, history
<1>7. CASE BeginRestart
  <2>1. call = NoCall /\ UNCHANGED <<reached, starts>>
    BY <1>7 DEF BeginRestart, Unlocked
  <2>2. \A k \in Msgs : fate'[k] = "cleared" \/ fate'[k] = fate[k]
    BY <1>7 DEF BeginRestart
  <2> QED
    BY <1>2, <1>3, <2>1, <2>2 DEF MayBeSent
<1>8. CASE EndRestart \/ Dispatch
  BY <1>2, <1>3, <1>8 DEF EndRestart, Dispatch, Unlocked, history
<1>9. ASSUME NEW result \in Results, AgentAnswers(result) PROVE SentOnce'
  <2>1. /\ call # NoCall /\ call.result = "none" /\ UNCHANGED <<fate, starts>>
        /\ call'.msg = call.msg /\ call'.result = result
        /\ reached' = [reached EXCEPT ![call.msg] = IF result \in {"ok", "unconfirmed"} THEN @ + 1 ELSE @]
    BY <1>1, <1>9 DEF AgentAnswers, Calls
  <2>2. call.kind \in {"direct", "steer", "queued", "steer_queued"}
    <3>1. ASSUME call.kind = "none" PROVE FALSE
      BY <1>1, <2>1, <3>1 DEF IInv, CallHoldsItsMessage
    <3> QED
      BY <1>1, <3>1 DEF Calls
  <2>3. up /\ call.msg \in Msgs
    BY <2>2, CallIs
  <2>4. ASSUME Faultless PROVE fate[call.msg] \in MayBeSent
    <3>1. CASE call.kind \in {"direct", "steer"}
      BY <3>1, CallIs DEF MayBeSent
    <3>2. CASE call.kind \in {"queued", "steer_queued"}
      <4>1. call.msg \in MsgsOf(queue)
        BY <3>2, CallIs DEF MsgsOf
      <4> QED
        BY <2>3, <2>4, <4>1 DEF WhatWaits, WaitIn, MayBeSent
    <3> QED
      BY <2>2, <3>1, <3>2
  <2>5. SUFFICES ASSUME Faultless, NEW m \in Msgs
                 PROVE  /\ reached'[m] <= 1
                        /\ fate[m] \in MayBeSent =>
                             reached'[m] = 0 \/ (call.msg = m /\ result \in {"ok", "unconfirmed"})
    BY <2>1 DEF SentOnce, Faultless, MayBeSent
  <2>6. reached[m] \in Nat /\ reached[m] <= 1 /\ (fate[m] \in MayBeSent => reached[m] = 0)
    BY <1>1, <2>1, <2>5 DEF SentOnce, MayBeSent
  <2>7. CASE m = call.msg
    BY <1>1, <2>1, <2>3, <2>4, <2>5, <2>6, <2>7
  <2>8. CASE m # call.msg
    BY <1>1, <2>1, <2>3, <2>6, <2>8
  <2> QED
    BY <2>7, <2>8
<1>10. CASE EndSent \/ EndSteer
  <2>1. call.msg \in Msgs /\ fate[call.msg] = "calling" /\ UNCHANGED <<reached, starts>>
    BY <1>10, CallIs DEF EndSent, EndSteer
  <2>2. \/ call.result = "changing" /\ fate' = [fate EXCEPT ![call.msg] = "queued"]
        \/ call.result = "changing" /\ fate' = fate
        \/ fate' = [fate EXCEPT ![call.msg] = IF call.result = "ok" THEN "sent" ELSE "failed"]
    BY <1>10 DEF EndSent, EndSteer
  <2> QED
    BY <1>1, <2>1, <2>2, EndSends DEF MayBeSent
<1>11. CASE EndSteerQueued \/ EndDispatch
  <2>1. call.msg \in Msgs /\ UNCHANGED <<reached, starts>>
    BY <1>11, CallIs DEF EndSteerQueued, EndDispatch
  <2>2. \/ call.result \notin {"ok", "unconfirmed"} /\ fate' = fate
        \/ fate' = [fate EXCEPT ![call.msg] = IF call.result = "ok" THEN "sent" ELSE "failed"]
    BY <1>11 DEF EndSteerQueued, EndDispatch, RemovesHead
  <2> QED
    BY <1>1, <2>1, <2>2, EndSends DEF MayBeSent
<1>12. CASE StoreChange \/ ReadForSave \/ StoreSave \/ PutNextID
  <2>1. UNCHANGED <<call, fate, reached, starts>>
    BY <1>12 DEF StoreChange, ReadForSave, StoreSave, PutNextID, history
  <2> QED
    BY <2>1 DEF SentOnce, Faultless
<1>13. CASE Fault
  BY <1>13, FaultIs DEF SentOnce
<1>14. CASE Write
  <2>1. CASE UNCHANGED starts
    <3>1. UNCHANGED <<call, fate, reached, starts>>
      BY <1>14, <2>1 DEF Write, history
    <3> QED
      BY <3>1 DEF SentOnce, Faultless
  <2> QED
    BY <1>13, <1>14, <2>1 DEF Write
<1>15. CASE StopServer
  <2>1. CASE UNCHANGED starts
    BY <1>2, <1>3, <1>15, <2>1 DEF StopServer, Unlocked, history
  <2> QED
    BY <1>13, <1>15, <2>1 DEF StopServer
<1>16. CASE Crash
  BY <1>13, <1>16 DEF Crash
<1>17. CASE StartUp
  <2>1. UNCHANGED <<call, fate, reached>> /\ starts'.faults = starts.faults
    BY <1>17 DEF StartUp, history, TypeOK
  <2> QED
    BY <2>1 DEF SentOnce, Faultless
<1> QED
  BY <1>4, <1>5, <1>6, <1>7, <1>8, <1>9, <1>10, <1>11, <1>12, <1>14, <1>15, <1>16, <1>17
     DEF UserStep, StoreStep

-----------------------------------------------------------------------------
(* The types.                                                              *)

\* What an operation keeps outside messageQueue.
RestType ==
    /\ failed \in [id : Nat, count : Nat] /\ call \in Calls /\ restarting \in BOOLEAN
    /\ fate \in [Msgs -> Fates] /\ reached \in [Msgs -> Nat] /\ gone \subseteq Nat

\* The sends a step can leave under way.
LEMMA CallTypes ==
    /\ NoCall \in Calls
    /\ \A kind \in {"direct", "steer", "steer_queued", "queued"}, m \in Msgs, id \in Nat :
            [kind |-> kind, msg |-> m, id |-> id, result |-> "none"] \in Calls
    /\ \A c \in Calls, result \in Results : [c EXCEPT !.result = result] \in Calls
    /\ \A c \in Calls : /\ [c EXCEPT !.kind = "direct", !.result = "none"] \in Calls
                        /\ c.id \in Nat
<1>1. NoCall \in Calls
  BY DEF NoCall, None, Calls
<1>2. \A kind \in {"direct", "steer", "steer_queued", "queued"}, m \in Msgs, id \in Nat :
            [kind |-> kind, msg |-> m, id |-> id, result |-> "none"] \in Calls
  BY DEF Calls
<1>3. \A c \in Calls, result \in Results : [c EXCEPT !.result = result] \in Calls
  BY MessageQueueAssumption DEF Calls
<1>4. \A c \in Calls : /\ [c EXCEPT !.kind = "direct", !.result = "none"] \in Calls
                       /\ c.id \in Nat
  BY DEF Calls
<1> QED
  BY <1>1, <1>2, <1>3, <1>4

\* Every operation keeps the types of what the queue does not hold.
LEMMA RestStep ==
    ASSUME IInv, UserStep PROVE RestType'
<1> USE DEF IInv
<1>1. RestType
  BY DEF TypeOK, RestType, Fates
<1>2. ASSUME NEW m \in Msgs, NEW v \in Fates, fate' = [fate EXCEPT ![m] = v]
      PROVE  fate' \in [Msgs -> Fates]
  BY <1>1, <1>2 DEF RestType
<1>3. ASSUME NEW m \in Msgs, NEW front \in BOOLEAN, CreateQueued(m, front) PROVE RestType'
  <2>1. fate' \in [Msgs -> Fates]
    BY <1>2, <1>3 DEF CreateQueued, Fates
  <2> QED
    BY <1>1, <1>3, <2>1 DEF CreateQueued, RestType
<1>4. ASSUME NEW m \in Msgs, CreateSent(m) \/ CreateSteered(m) PROVE RestType'
  <2>1. fate' \in [Msgs -> Fates]
    BY <1>2, <1>4 DEF CreateSent, CreateSteered, Fates
  <2>2. call' \in Calls
    <3>1. None \in Nat
      BY DEF None
    <3>2. \E kind \in {"direct", "steer"} :
                call' = [kind |-> kind, msg |-> m, id |-> None, result |-> "none"]
      BY <1>4 DEF CreateSent, CreateSteered
    <3> QED
      BY <3>1, <3>2, CallTypes
  <2> QED
    BY <1>1, <1>4, <2>1, <2>2 DEF CreateSent, CreateSteered, RestType
<1>5. ASSUME NEW id \in 1 .. MaxMsg, DeleteQueued(id) PROVE RestType'
  <2>1. fate' \in [Msgs -> Fates]
    BY <1>1, <1>5 DEF DeleteQueued, RestType, Fates
  <2>2. id \in Nat
    BY MessageQueueAssumption
  <2> QED
    BY <1>1, <1>5, <2>1, <2>2 DEF DeleteQueued, RestType
<1>6. ASSUME NEW i \in 1 .. MaxMsg, UpdateQueued(i) \/ ReorderQueue(i) PROVE RestType'
  BY <1>1, <1>6 DEF UpdateQueued, ReorderQueue, RestType, history
<1>7. ASSUME NEW i \in 1 .. MaxMsg, SteerQueued(i) PROVE RestType'
  <2>1. call' \in Calls
    BY <1>7, CallTypes, QueueFacts DEF SteerQueued
  <2> QED
    BY <1>1, <1>7, <2>1 DEF SteerQueued, RestType, history
<1>8. CASE BeginRestart
  <2>1. fate' \in [Msgs -> Fates]
    BY <1>1, <1>8 DEF BeginRestart, RestType, Fates
  <2>2. failed' \in [id : Nat, count : Nat]
    BY <1>8 DEF BeginRestart, Clear, NoneFailed, None
  <2>3. IdsOf(queue) \subseteq Nat
    BY QueueFacts DEF IdsOf
  <2> QED
    BY <1>1, <1>8, <2>1, <2>2, <2>3 DEF BeginRestart, RestType
<1>9. CASE EndRestart
  BY <1>1, <1>9 DEF EndRestart, RestType, memory, history
<1>10. CASE Dispatch
  <2>1. call' \in Calls
    BY <1>10, CallTypes, QueueFacts DEF Dispatch
  <2> QED
    BY <1>1, <1>10, <2>1 DEF Dispatch, RestType, history
<1>11. ASSUME NEW result \in Results, AgentAnswers(result) PROVE RestType'
  <2>1. call' \in Calls
    BY <1>1, <1>11, CallTypes DEF AgentAnswers, RestType
  <2>2. call.msg \in Msgs
    BY <1>11 DEF AgentAnswers, CallHoldsItsMessage
  <2>3. reached' \in [Msgs -> Nat]
    BY <1>1, <1>11, <2>2 DEF AgentAnswers, RestType
  <2> QED
    BY <1>1, <1>11, <2>1, <2>3 DEF AgentAnswers, RestType
<1>12. CASE EndSent \/ EndSteer
  <2>1. call.msg \in Msgs
    BY <1>12, CallIs DEF EndSent, EndSteer
  <2>2. fate' \in [Msgs -> Fates]
    <3>1. \/ \E v \in Fates : fate' = [fate EXCEPT ![call.msg] = v]
          \/ fate' = fate
      BY <1>12 DEF EndSent, EndSteer, Fates
    <3> QED
      BY <1>1, <1>2, <2>1, <3>1 DEF RestType
  <2>3. call' \in Calls
    BY <1>1, <1>12, CallTypes DEF EndSent, EndSteer, RestType
  <2> QED
    BY <1>1, <1>12, <2>2, <2>3 DEF EndSent, EndSteer, RestType
<1>13. CASE EndSteerQueued \/ EndDispatch
  <2>1. call.msg \in Msgs
    BY <1>13, CallIs DEF EndSteerQueued, EndDispatch
  <2>2. fate' \in [Msgs -> Fates]
    <3>1. \/ \E v \in Fates : fate' = [fate EXCEPT ![call.msg] = v]
          \/ fate' = fate
      BY <1>13 DEF EndSteerQueued, EndDispatch, Fates
    <3> QED
      BY <1>1, <1>2, <2>1, <3>1 DEF RestType
  <2>3. call' \in Calls
    BY <1>13, CallTypes DEF EndSteerQueued, EndDispatch
  <2>4. call.id \in Nat
    BY <1>1, CallTypes DEF RestType
  <2>5. gone' \subseteq Nat
    BY <1>1, <1>13, <2>4 DEF EndSteerQueued, EndDispatch, RestType
  <2>6. FailedSend(call.id) \in [id : Nat, count : Nat]
    BY <1>1, <2>4 DEF FailedSend, RestType
  <2>7. failed' \in [id : Nat, count : Nat]
    BY <1>1, <1>13, <2>6 DEF EndSteerQueued, EndDispatch, RestType
  <2> QED
    BY <1>1, <1>13, <2>2, <2>3, <2>5, <2>7 DEF EndSteerQueued, EndDispatch, RestType
<1> QED
  BY <1>3, <1>4, <1>5, <1>6, <1>7, <1>8, <1>9, <1>10, <1>11, <1>12, <1>13 DEF UserStep

\* What storeQueue leaves, by type.
LEMMA StoreQueueTypes ==
    ASSUME TypeOK, NEW s \in Snapshots, NEW who \in {"change", "save"}, StoreQueue(s, who)
    PROVE  /\ saved' \in Snapshots
           /\ putMeta' \in [next : Nat, by : {"none", "change", "save"}]
           /\ pending' \in [queue : Seq(Items), next : Nat, hasQueue : BOOLEAN, hasNext : BOOLEAN]
<1>1. /\ putMeta \in [next : Nat, by : {"none", "change", "save"}]
      /\ pending \in [queue : Seq(Items), next : Nat, hasQueue : BOOLEAN, hasNext : BOOLEAN]
  BY DEF TypeOK
<1>2. s.queue \in Seq(Items) /\ s.lastID \in Nat
  BY SnapshotFacts
<1>3. putMeta' = putMeta \/ putMeta' = [next |-> s.lastID, by |-> who]
  BY DEF StoreQueue
<1>4. pending' = pending \/ pending' = [pending EXCEPT !.queue = s.queue, !.hasQueue = TRUE]
  BY DEF StoreQueue
<1>5. putMeta' \in [next : Nat, by : {"none", "change", "save"}]
  BY <1>1, <1>2, <1>3
<1>6. pending' \in [queue : Seq(Items), next : Nat, hasQueue : BOOLEAN, hasNext : BOOLEAN]
  BY <1>1, <1>2, <1>4
<1> QED
  BY <1>5, <1>6, StoreQueueIs

\* What a restart finds in memory, by type.
LEMMA ForgottenTypes ==
    ASSUME Forgotten
    PROVE  /\ queue' \in Seq(Items) /\ lastID' \in Nat /\ version' \in Nat
           /\ failed' \in [id : Nat, count : Nat] /\ call' \in Calls
           /\ change' = NoSnapshot /\ save' = NoSnapshot /\ saved' \in Snapshots
           /\ putMeta' \in [next : Nat, by : {"none", "change", "save"}]
           /\ pending' \in [queue : Seq(Items), next : Nat, hasQueue : BOOLEAN, hasNext : BOOLEAN]
           /\ restarting' \in BOOLEAN
<1>1. << >> \in Seq(Items)
  OBVIOUS
<1>2. saved' \in Snapshots
  BY <1>1, NewSnapshot DEF Forgotten
<1>3. call' \in Calls
  BY CallTypes DEF Forgotten
<1>4. failed' \in [id : Nat, count : Nat] /\ putMeta' \in [next : Nat, by : {"none", "change", "save"}]
  BY DEF Forgotten, NoneFailed, None
<1>5. pending' \in [queue : Seq(Items), next : Nat, hasQueue : BOOLEAN, hasNext : BOOLEAN]
  BY <1>1 DEF Forgotten, NothingPending, None
<1> QED
  BY <1>1, <1>2, <1>3, <1>4, <1>5 DEF Forgotten

\* The file's content, once what is pending is written.
LEMMA WrittenType ==
    ASSUME TypeOK PROVE Written \in [queue : Seq(Items), next : Nat]
  BY DEF TypeOK, Written

\* Every step of the database, a stop and a start keep the types.
LEMMA StoreTypes ==
    ASSUME IInv, StoreStep PROVE TypeOK'
<1> USE DEF IInv
<1>1. CASE StoreChange
  <2>1. change \in Snapshots
    BY <1>1 DEF StoreChange, TypeOK
  <2>2. /\ saved' \in Snapshots
        /\ putMeta' \in [next : Nat, by : {"none", "change", "save"}]
        /\ pending' \in [queue : Seq(Items), next : Nat, hasQueue : BOOLEAN, hasNext : BOOLEAN]
    BY <1>1, <2>1, StoreQueueTypes DEF StoreChange
  <2> QED
    BY <1>1, <2>2 DEF StoreChange, TypeOK, history
<1>2. CASE ReadForSave
  <2>1. save' \in Snapshots
    BY <1>2, NewSnapshot DEF ReadForSave, TypeOK
  <2> QED
    BY <1>2, <2>1 DEF ReadForSave, TypeOK, history
<1>3. CASE StoreSave
  <2>1. save \in Snapshots
    BY <1>3 DEF StoreSave, TypeOK
  <2>2. /\ saved' \in Snapshots
        /\ putMeta' \in [next : Nat, by : {"none", "change", "save"}]
        /\ pending' \in [queue : Seq(Items), next : Nat, hasQueue : BOOLEAN, hasNext : BOOLEAN]
    BY <1>3, <2>1, StoreQueueTypes DEF StoreSave
  <2> QED
    BY <1>3, <2>2 DEF StoreSave, TypeOK, history
<1>4. CASE PutNextID
  <2>1. putMeta.next \in Nat
    BY DEF TypeOK
  <2>2. pending' \in [queue : Seq(Items), next : Nat, hasQueue : BOOLEAN, hasNext : BOOLEAN]
    BY <1>4, <2>1 DEF PutNextID, TypeOK
  <2>3. putMeta' \in [next : Nat, by : {"none", "change", "save"}]
    BY <1>4 DEF PutNextID, None
  <2> QED
    BY <1>4, <2>2, <2>3 DEF PutNextID, TypeOK, history
<1>5. ASSUME Fault PROVE starts' \in [again : Nat, faults : Nat]
  <2>1. starts \in [again : Nat, faults : Nat]
    BY DEF TypeOK
  <2> QED
    BY <1>5, <2>1 DEF Fault
<1>6. CASE Write
  <2>1. << >> \in Seq(Items)
    OBVIOUS
  <2>2. pending' \in [queue : Seq(Items), next : Nat, hasQueue : BOOLEAN, hasNext : BOOLEAN]
    BY <1>6, <2>1 DEF Write, NothingPending, None
  <2>3. disk' \in [queue : Seq(Items), next : Nat]
    BY <1>6, WrittenType DEF Write, TypeOK
  <2>4. starts' \in [again : Nat, faults : Nat]
    BY <1>5, <1>6 DEF Write, TypeOK
  <2> QED
    BY <1>6, <2>2, <2>3, <2>4 DEF Write, TypeOK, history
<1>7. CASE StopServer \/ Crash
  <2>1. Forgotten /\ up' = FALSE /\ UNCHANGED history
    BY <1>7 DEF StopServer, Crash, history
  <2>2. disk' \in [queue : Seq(Items), next : Nat]
    BY <1>7, WrittenType DEF StopServer, Crash, ClosedFile, TypeOK
  <2>3. starts' \in [again : Nat, faults : Nat]
    BY <1>5, <1>7 DEF StopServer, Crash, TypeOK
  <2> QED
    BY <2>1, <2>2, <2>3, ForgottenTypes DEF TypeOK, history
<1>8. CASE StartUp
  <2>1. disk.queue \in Seq(Items) /\ disk.next \in Nat
    BY DEF TypeOK
  <2>2. \A i \in DOMAIN disk.queue : disk.queue[i] \in Items
    BY <2>1
  <2>3. IdsOf(disk.queue) \subseteq Nat
    BY <2>2 DEF IdsOf, Items
  <2>4. lastID' \in Nat /\ saved' = [queue |-> disk.queue, lastID |-> lastID', version |-> 0]
    BY <1>8, <2>1, <2>3 DEF StartUp
  <2>5. saved' \in Snapshots
    BY <2>1, <2>4, NewSnapshot
  <2>6. starts' \in [again : Nat, faults : Nat]
    <3>1. starts \in [again : Nat, faults : Nat]
      BY DEF TypeOK
    <3>2. starts.again + 1 \in Nat
      BY <3>1
    <3>3. starts' = [starts EXCEPT !.again = starts.again + 1]
      BY <1>8, <3>1 DEF StartUp
    <3> QED
      BY <3>1, <3>2, <3>3
  <2> QED
    BY <1>8, <2>1, <2>4, <2>5, <2>6 DEF StartUp, TypeOK, history
<1> QED
  BY <1>1, <1>2, <1>3, <1>4, <1>6, <1>7, <1>8 DEF StoreStep

\* Every operation of the queue keeps the types.
LEMMA UserTypes ==
    ASSUME IInv, UserStep PROVE TypeOK'
<1> USE DEF IInv
<1>1. RestType' /\ UNCHANGED <<up, save, saved, putMeta, pending, disk, starts>>
  BY RestStep, UserShape
<1>2. CASE HandsOn
  <2>1. version \in Nat
    BY DEF TypeOK
  <2>2. queue' \in Seq(Items) /\ lastID' \in Nat /\ version' \in Nat
    BY <1>2, <2>1 DEF HandsOn
  <2>3. change' \in Snapshots
    BY <1>2, <2>1, <2>2, NewSnapshot DEF HandsOn
  <2> QED
    BY <1>1, <2>2, <2>3 DEF TypeOK, RestType, Fates
<1>3. CASE UNCHANGED <<queue, lastID, version, change>>
  BY <1>1, <1>3 DEF TypeOK, RestType, Fates
<1> QED
  BY <1>2, <1>3, UserShape

-----------------------------------------------------------------------------
(* The theorems.                                                           *)

LEMMA InitIInv == Init => IInv
<1> SUFFICES ASSUME Init PROVE IInv
  OBVIOUS
<1> USE DEF Init
<1>1. << >> \in Seq(Items)
  OBVIOUS
<1>2. TypeOK
  <2>1. saved \in Snapshots
    BY <1>1, NewSnapshot
  <2>2. call \in Calls
    BY CallTypes
  <2>3. failed \in [id : Nat, count : Nat] /\ putMeta \in [next : Nat, by : {"none", "change", "save"}]
    BY DEF NoneFailed, None
  <2>4. pending \in [queue : Seq(Items), next : Nat, hasQueue : BOOLEAN, hasNext : BOOLEAN]
    BY <1>1 DEF NothingPending, None
  <2>5. disk \in [queue : Seq(Items), next : Nat] /\ starts \in [again : Nat, faults : Nat]
    BY <1>1
  <2> QED
    BY <1>1, <2>1, <2>2, <2>3, <2>4, <2>5 DEF TypeOK
<1>3. DownIsEmpty /\ VersionsAgree /\ CallHoldsItsMessage
  BY DEF DownIsEmpty, VersionsAgree, CallHoldsItsMessage
<1>4. IdsAreDistinct
  BY DEF IdsAreDistinct, DistinctIds, Below, NoSnapshot, NothingPending
<1>5. StoredIsWritten
  BY DEF StoredIsWritten, Written, NothingPending
<1>6. WhatWaits
  BY DEF WhatWaits, WaitIn, MsgsOf, IdsOf, DistinctMsgs, Below
<1>7. SentOnce
  BY DEF SentOnce
<1> QED
  BY <1>2, <1>3, <1>4, <1>5, <1>6, <1>7 DEF IInv

\* The inductive invariant holds of every behaviour.
LEMMA Invariance == Spec => []IInv
<1>1. IInv /\ [Next]_vars => IInv'
  <2> SUFFICES ASSUME IInv, [Next]_vars PROVE IInv'
    OBVIOUS
  <2>1. CASE Next
    <3>1. UserStep \/ StoreStep
      BY <2>1 DEF Next, UserStep, StoreStep
    <3>2. TypeOK'
      BY <3>1, UserTypes, StoreTypes
    <3> QED
      BY <3>1, <3>2, DownStep, VersionStep, IdsStep, CallStep, StoredStep, WaitsStep, SentStep
         DEF IInv
  <2>2. CASE UNCHANGED vars
    BY <2>2 DEF vars, memory, history, IInv, TypeOK, DownIsEmpty, VersionsAgree, IdsAreDistinct,
                CallHoldsItsMessage, StoredIsWritten, WhatWaits, WaitIn, SentOnce, Faultless, Written
  <2> QED
    BY <2>1, <2>2
<1> QED
  BY <1>1, InitIInv, PTL DEF Spec

\* The queue, the state on its way to the file and the file always have their
\* types (messageQueue, storeQueue, PutQueue).
THEOREM Types == Spec => []TypeOK
<1>1. IInv => TypeOK
  BY DEF IInv
<1> QED
  BY <1>1, Invariance, PTL

\* Once a change was handed on, what storeQueue has stored is the queue as of
\* its last change, in whatever order SaveState and the changes come.
THEOREM StoredCurrent == Spec => []StoredIsCurrent
<1>1. IInv => StoredIsCurrent
  BY DEF IInv, VersionsAgree, StoredIsCurrent
<1> QED
  BY <1>1, Invariance, PTL

\* No two queued messages share an ID, after crashes between the two writes of
\* PutQueue too, and an ID that left the queue names no newer message.
THEOREM IdsAreFresh == Spec => []OldIdsNameNothing
<1>1. IInv => OldIdsNameNothing
  <2> SUFFICES ASSUME IInv PROVE OldIdsNameNothing
    OBVIOUS
  <2>1. \A i, j \in DOMAIN queue : queue[i].id = queue[j].id => i = j
    BY DEF IInv, IdsAreDistinct, DistinctIds
  <2>2. ASSUME Faultless PROVE IdsOf(queue) \intersect gone = {}
    <3>1. CASE up
      BY <2>2, <3>1 DEF IInv, WhatWaits, WaitIn
    <3>2. CASE ~up
      <4>1. queue = << >>
        BY <3>2 DEF IInv, DownIsEmpty
      <4> QED
        BY <4>1 DEF IdsOf
    <3> QED
      BY <3>1, <3>2
  <2> QED
    BY <2>1, <2>2 DEF OldIdsNameNothing
<1> QED
  BY <1>1, Invariance, PTL

\* Without a fault the queue holds exactly the messages that wait, across any
\* number of clean stops.
THEOREM NothingIsLost == Spec => []QueueIsWhatWaits
<1>1. IInv => QueueIsWhatWaits
  BY DEF IInv, WhatWaits, WaitIn, QueueIsWhatWaits
<1> QED
  BY <1>1, Invariance, PTL

\* Without a fault no message reaches the agent twice (notResent, changed).
THEOREM SentAtMostOnce == Spec => []DeliveredAtMostOnce
<1>1. IInv => DeliveredAtMostOnce
  BY DEF IInv, SentOnce, DeliveredAtMostOnce
<1> QED
  BY <1>1, Invariance, PTL
=============================================================================
