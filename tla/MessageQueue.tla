---------------------------- MODULE MessageQueue ----------------------------
(***************************************************************************)
(* The messages a user sends (lib/httpapi/queue.go, createMessage,         *)
(* createNativeMessageLocked): sent to the agent at once, or queued and    *)
(* sent on the queue's tick; and the queue in the state database           *)
(* (storeQueue, lib/statedb), across stops and crashes of AgentAPI.        *)
(*                                                                         *)
(* An operation holds Server.mu from its first check until the change it   *)
(* made is handed to the state database, the call of the agent included    *)
(* (`call', `change').  SaveState and the state database's writer do not   *)
(* take it, and a crash can come at any point.  What StartTurn and Steer   *)
(* do inside the conversation is TurnControl's; here it is their result.   *)
(* Idle and HoldsQueue, which an operation asks under Server.mu, answer    *)
(* whatever they may.                                                      *)
(***************************************************************************)
EXTENDS Integers, Sequences

CONSTANTS
    MaxMsg,        \* bound: the messages users send
    MaxAttempts,   \* maxQueueDispatchAttempts
    MaxFaults,     \* bound: the crashes of AgentAPI and the batches of writes given up
    MaxChanges,    \* bound: the changes of the queue while AgentAPI runs
    MaxStarts,     \* bound: the times AgentAPI is started again
    Results        \* what a call of the agent can return

ASSUME MessageQueueAssumption ==
    /\ MaxMsg \in Nat /\ MaxAttempts \in Nat \ {0}
    /\ MaxFaults \in Nat /\ MaxStarts \in Nat /\ MaxChanges \in Nat
    /\ Results \subseteq {"ok", "changing", "refused", "unconfirmed"}

Msgs == 1 .. MaxMsg
None == 0
NoCall == [kind |-> "none", msg |-> None, id |-> None, result |-> "none"]
NoSnapshot == [queue |-> << >>, lastID |-> 0, version |-> -1]

VARIABLES
    queue,        \* messageQueue.messages: the ID, the user's message, and whether
                  \* its content was replaced
    lastID,       \* messageQueue.lastID
    failed,       \* messageQueue.failedID and failures
    version,      \* messageQueue.version
    call,         \* the send under way
    change,       \* the change that its operation has yet to hand to storeQueue
    save,         \* the state SaveState read
    saved,        \* Server.savedQueue, savedNextQueueID and savedQueueVersion
    putMeta,      \* PutQueue between its two writes: the ID, and who stores
    pending,      \* DB.pending: the queue and the last ID to be written
    disk,         \* the state database's file
    restarting,   \* Server.restarting, or an update holds the queue
    up,           \* AgentAPI runs
    starts,       \* the starts after the first, and the faults
    fate,         \* history: what became of a message
    reached,      \* history: how often a message may have reached the agent
    gone          \* history: the IDs that left the queue

memory == <<queue, lastID, failed, version, call, change, save, saved, putMeta, pending>>
history == <<fate, reached, gone>>
vars == <<memory, disk, restarting, up, starts, history>>

NoneFailed == [id |-> None, count |-> 0]
NothingPending == [queue |-> << >>, next |-> None, hasQueue |-> FALSE, hasNext |-> FALSE]

Init ==
    /\ queue = << >> /\ lastID = 0 /\ failed = NoneFailed /\ version = 0
    /\ call = NoCall
    /\ change = NoSnapshot /\ save = NoSnapshot
    /\ saved = [queue |-> << >>, lastID |-> 0, version |-> 0]
    /\ putMeta = [next |-> None, by |-> "none"]
    /\ pending = NothingPending
    /\ disk = [queue |-> << >>, next |-> 0]
    /\ restarting = FALSE
    /\ up = TRUE
    /\ starts = [again |-> 0, faults |-> 0]
    /\ fate = [m \in Msgs |-> "none"]
    /\ reached = [m \in Msgs |-> 0]
    /\ gone = {}

\* Users change the queue while the bound has room for the removals left.
Room == version + Len(queue) + 1 < MaxChanges

\* Nobody holds Server.mu.
Unlocked == call = NoCall /\ change = NoSnapshot /\ putMeta.by # "change"


IdsOf(q) == {q[i].id : i \in DOMAIN q}
MsgsOf(q) == {q[i].msg : i \in DOMAIN q}

-----------------------------------------------------------------------------
(* messageQueue. *)

\* A change of the queue to q, and the store it has yet to hand over
\* (changed, onChange).
Changed(q, last) ==
    /\ queue' = q
    /\ lastID' = last
    /\ version' = version + 1
    /\ change' = [queue |-> q, lastID |-> last, version |-> version + 1]

\* Push of message m, first with front.
Push(m, front) ==
    LET item == [id |-> lastID + 1, msg |-> m, edited |-> FALSE]
    IN  Changed(IF front THEN <<item>> \o queue ELSE Append(queue, item), lastID + 1)

\* The queue q without its i-th message, and with it first.
Without(q, i) == [j \in 1 .. Len(q) - 1 |-> IF j < i THEN q[j] ELSE q[j + 1]]
MovedFirst(q, i) == [j \in 1 .. Len(q) |-> IF j = 1 THEN q[i] ELSE IF j <= i THEN q[j - 1] ELSE q[j]]

\* Remove of the message with this id, if it is there.
Removed(id) ==
    IF id \in IdsOf(queue)
    THEN \E i \in DOMAIN queue : queue[i].id = id /\ Changed(Without(queue, i), lastID)
    ELSE UNCHANGED <<queue, lastID, version, change>>

\* Clear.
Clear == Changed(<< >>, lastID) /\ failed' = NoneFailed

\* Slip: every failure is the first.
StartsOver(id) == [id |-> id, count |-> 1]

\* Failed: the failed sends in a row of the message with this id.
FailedSend(id) == IF failed.id = id THEN [failed EXCEPT !.count = @ + 1] ELSE [id |-> id, count |-> 1]

-----------------------------------------------------------------------------
(* The users. *)

Unsent(m) == fate[m] = "none" /\ \A n \in Msgs : n < m => fate[n] # "none"

\* createMessage of message m that is queued: the agent is being replaced, it
\* is busy, or others wait before it that nothing holds.  One that interrupted
\* a turn goes first; the others, last.
CreateQueued(m, front) ==
    /\ up /\ Unlocked /\ Room /\ Unsent(m)
    /\ front => ~restarting
    /\ Push(m, front)
    /\ fate' = [fate EXCEPT ![m] = "queued"]
    /\ UNCHANGED <<failed, call, save, saved, putMeta, pending, disk, restarting, up, starts,
                   reached, gone>>

\* createMessage of message m that is sent at once, up to the call: the agent
\* is idle, and no other message waits or what waits is held.
CreateSent(m) ==
    /\ up /\ Unlocked /\ Room /\ Unsent(m)
    /\ ~restarting
    /\ call' = [kind |-> "direct", msg |-> m, id |-> None, result |-> "none"]
    /\ fate' = [fate EXCEPT ![m] = "calling"]
    /\ UNCHANGED <<queue, lastID, failed, version, change, save, saved, putMeta, pending,
                   disk, restarting, up, starts, reached, gone>>

\* createMessage of message m for the running turn, up to the call.
CreateSteered(m) ==
    /\ up /\ Unlocked /\ Room /\ Unsent(m)
    /\ ~restarting
    /\ call' = [kind |-> "steer", msg |-> m, id |-> None, result |-> "none"]
    /\ fate' = [fate EXCEPT ![m] = "calling"]
    /\ UNCHANGED <<queue, lastID, failed, version, change, save, saved, putMeta, pending,
                   disk, restarting, up, starts, reached, gone>>

\* steerQueuedMessage up to the call; an agent that is being replaced has no
\* turn to steer.
SteerQueued(i) ==
    /\ up /\ Unlocked /\ ~restarting /\ i \in DOMAIN queue
    /\ call' = [kind |-> "steer_queued", msg |-> queue[i].msg, id |-> queue[i].id,
                result |-> "none"]
    /\ UNCHANGED <<queue, lastID, failed, version, change, save, saved, putMeta, pending,
                   disk, restarting, up, starts, history>>

\* deleteQueuedMessage.
DeleteQueued(id) ==
    /\ up /\ Unlocked /\ id \in IdsOf(queue)
    /\ Removed(id)
    /\ fate' = [m \in Msgs |-> IF \E i \in DOMAIN queue : queue[i].id = id /\ queue[i].msg = m
                               THEN "deleted"
                               ELSE fate[m]]
    /\ gone' = gone \union {id}
    /\ UNCHANGED <<failed, call, save, saved, putMeta, pending, disk, restarting, up, starts,
                   reached>>

\* updateQueuedMessage.
UpdateQueued(i) ==
    /\ up /\ Unlocked /\ Room /\ i \in DOMAIN queue /\ ~queue[i].edited
    /\ Changed([queue EXCEPT ![i].edited = TRUE], lastID)
    /\ UNCHANGED <<failed, call, save, saved, putMeta, pending, disk, restarting, up, starts,
                   history>>

\* reorderQueue: any order of the queued messages, of which putting one first
\* makes them all.
ReorderQueue(i) ==
    /\ up /\ Unlocked /\ Room /\ i \in 2 .. Len(queue)
    /\ Changed(MovedFirst(queue, i), lastID)
    /\ UNCHANGED <<failed, call, save, saved, putMeta, pending, disk, restarting, up, starts,
                   history>>

\* deleteMessages and resumeSession: forgetConversationLocked, while the agent
\* is replaced.
BeginRestart ==
    /\ up /\ Unlocked /\ Room /\ ~restarting
    /\ Clear
    /\ restarting' = TRUE
    /\ fate' = [m \in Msgs |-> IF m \in MsgsOf(queue) THEN "cleared" ELSE fate[m]]
    /\ gone' = gone \union IdsOf(queue)
    /\ UNCHANGED <<call, save, saved, putMeta, pending, disk, up, starts, reached>>

\* runRestartLocked ends.
EndRestart ==
    /\ up /\ Unlocked /\ restarting
    /\ restarting' = FALSE
    /\ UNCHANGED <<memory, disk, up, starts, history>>

-----------------------------------------------------------------------------
(* The tick, and the call of the agent. *)

\* dispatchNextQueuedMessage up to the call, where the agent is idle and
\* nothing holds the queue.
Dispatch ==
    /\ up /\ Unlocked /\ ~restarting /\ queue # << >>
    /\ call' = [kind |-> "queued", msg |-> Head(queue).msg, id |-> Head(queue).id,
                result |-> "none"]
    /\ UNCHANGED <<queue, lastID, failed, version, change, save, saved, putMeta, pending,
                   disk, restarting, up, starts, history>>

\* StartTurn and Steer of the conversation: the agent has the message ("ok"),
\* may have it ("unconfirmed"), refuses it, or is busy after all, or for Steer
\* has no turn after all ("changing").
AgentAnswers(result) ==
    /\ call # NoCall /\ call.result = "none"
    /\ call' = [call EXCEPT !.result = result]
    /\ reached' = [reached EXCEPT ![call.msg] = IF result \in {"ok", "unconfirmed"} THEN @ + 1 ELSE @]
    /\ UNCHANGED <<queue, lastID, failed, version, change, save, saved, putMeta, pending,
                   restarting, disk, up, starts, fate, gone>>

\* createNativeMessageLocked once the agent answered: a message for which the
\* agent is busy is queued, any other failure is the caller's to see.
EndSent ==
    /\ call.kind = "direct" /\ call.result # "none"
    /\ call' = NoCall
    /\ \/ /\ call.result = "changing"
          /\ Push(call.msg, FALSE)
          /\ fate' = [fate EXCEPT ![call.msg] = "queued"]
       \/ /\ call.result # "changing"
          /\ fate' = [fate EXCEPT ![call.msg] = IF call.result = "ok" THEN "sent" ELSE "failed"]
          /\ UNCHANGED <<queue, lastID, version, change>>
    /\ UNCHANGED <<failed, save, saved, putMeta, pending, disk, restarting, up, starts,
                   reached, gone>>

\* createNativeMessageLocked once Steer returned: without a turn the message
\* is sent as usual, queued or in a call of its own.
EndSteer ==
    /\ call.kind = "steer" /\ call.result # "none"
    /\ \/ /\ call.result = "changing"
          /\ call' = NoCall
          /\ Push(call.msg, FALSE)
          /\ fate' = [fate EXCEPT ![call.msg] = "queued"]
       \/ /\ call.result = "changing"
          /\ call' = [call EXCEPT !.kind = "direct", !.result = "none"]
          /\ UNCHANGED <<queue, lastID, version, change, fate>>
       \/ /\ call.result # "changing"
          /\ call' = NoCall
          /\ fate' = [fate EXCEPT ![call.msg] = IF call.result = "ok" THEN "sent" ELSE "failed"]
          /\ UNCHANGED <<queue, lastID, version, change>>
    /\ UNCHANGED <<failed, save, saved, putMeta, pending, disk, restarting, up, starts,
                   reached, gone>>

\* steerQueuedMessage once Steer returned: a message the turn has, or may
\* have, leaves the queue.
EndSteerQueued ==
    /\ call.kind = "steer_queued" /\ call.result # "none"
    /\ call' = NoCall
    /\ IF call.result \in {"ok", "unconfirmed"}
       THEN /\ Removed(call.id)
            /\ fate' = [fate EXCEPT ![call.msg] = IF call.result = "ok" THEN "sent" ELSE "failed"]
            /\ gone' = gone \union {call.id}
       ELSE UNCHANGED <<queue, lastID, version, change, fate, gone>>
    /\ UNCHANGED <<failed, save, saved, putMeta, pending, disk, restarting, up, starts,
                   reached>>

\* Slip: a message that may have reached the agent is tried again.
RemovesSent(result, attempts) == result = "ok" \/ (result = "refused" /\ attempts >= MaxAttempts)

\* Whether dispatchNextQueuedMessage removes the message: it went out, it may
\* have (notResent), or its attempts are used up.
RemovesHead(result, attempts) ==
    result \in {"ok", "unconfirmed"} \/ (result = "refused" /\ attempts >= MaxAttempts)

\* dispatchNextQueuedMessage once the agent answered.
EndDispatch ==
    /\ call.kind = "queued" /\ call.result # "none"
    /\ call' = NoCall
    /\ LET count == IF call.result \in {"refused", "unconfirmed"} THEN FailedSend(call.id) ELSE failed
       IN  /\ failed' = count
           /\ IF RemovesHead(call.result, count.count)
              THEN /\ Removed(call.id)
                   /\ fate' = [fate EXCEPT ![call.msg] = IF call.result = "ok" THEN "sent" ELSE "failed"]
                   /\ gone' = gone \union {call.id}
              ELSE UNCHANGED <<queue, lastID, version, change, fate, gone>>
    /\ UNCHANGED <<save, saved, putMeta, pending, disk, restarting, up, starts, reached>>

-----------------------------------------------------------------------------
(* The state database. *)

\* Slip: an older state overwrites a newer one.
StoresAnyway(s) == TRUE

\* storeQueue skips a state that isn't the latest.
IsLatest(s) == s.version >= saved.version

\* storeQueue of state s, by who: unless it is stored, PutQueue enqueues the
\* queue, and the last ID next.
StoreQueue(s, who) ==
    /\ putMeta.by = "none"
    /\ IF ~IsLatest(s) \/ (s.queue = saved.queue /\ s.lastID = saved.lastID)
       THEN /\ saved' = [saved EXCEPT !.version = IF IsLatest(s) THEN s.version ELSE @]
            /\ UNCHANGED <<putMeta, pending>>
       ELSE /\ saved' = s
            /\ pending' = [pending EXCEPT !.queue = s.queue, !.hasQueue = TRUE]
            /\ putMeta' = [next |-> s.lastID, by |-> who]

\* onChange.
StoreChange ==
    /\ change # NoSnapshot
    /\ StoreQueue(change, "change")
    /\ change' = NoSnapshot
    /\ UNCHANGED <<queue, lastID, failed, version, call, save, disk, restarting, up, starts,
                   history>>

\* SaveState's persistQueue, without Server.mu: it reads the queue, then
\* stores it.
ReadForSave ==
    /\ up /\ save = NoSnapshot
    /\ save' = [queue |-> queue, lastID |-> lastID, version |-> version]
    /\ UNCHANGED <<queue, lastID, failed, version, call, change, saved, putMeta, pending,
                   disk, restarting, up, starts, history>>

StoreSave ==
    /\ save # NoSnapshot
    /\ StoreQueue(save, "save")
    /\ save' = NoSnapshot
    /\ UNCHANGED <<queue, lastID, failed, version, call, change, disk, restarting, up, starts,
                   history>>

\* PutQueue's second write.
PutNextID ==
    /\ putMeta.by # "none"
    /\ pending' = [pending EXCEPT !.next = putMeta.next, !.hasNext = TRUE]
    /\ putMeta' = [next |-> None, by |-> "none"]
    /\ UNCHANGED <<queue, lastID, failed, version, call, change, save, saved, disk, restarting,
                   up, starts, history>>

\* Slip: the last ID isn't written.
OnlyQueueWritten == [queue |-> IF pending.hasQueue THEN pending.queue ELSE disk.queue,
                     next |-> disk.next]

\* What the file holds once the pending writes are applied.
Written == [queue |-> IF pending.hasQueue THEN pending.queue ELSE disk.queue,
            next |-> IF pending.hasNext THEN pending.next ELSE disk.next]

\* One fault more.
Fault ==
    /\ starts.faults < MaxFaults
    /\ starts' = [starts EXCEPT !.faults = @ + 1]

\* DB.write: one transaction, given up once its attempts failed.
Write ==
    /\ up /\ pending # NothingPending
    /\ pending' = NothingPending
    /\ \/ disk' = Written /\ UNCHANGED starts
       \/ Fault /\ UNCHANGED disk
    /\ UNCHANGED <<queue, lastID, failed, version, call, change, save, saved, putMeta, restarting, up,
                   history>>

-----------------------------------------------------------------------------
(* Stops and crashes. *)

\* Slip: the file is closed with writes pending.
CloseAtOnce == disk

\* DB.Close writes what is pending.
ClosedFile == Written

\* The memory of the process once it ended.
Forgotten ==
    /\ queue' = << >> /\ lastID' = 0 /\ failed' = NoneFailed /\ version' = 0
    /\ call' = NoCall
    /\ change' = NoSnapshot /\ save' = NoSnapshot
    /\ saved' = [queue |-> << >>, lastID |-> 0, version |-> 0]
    /\ putMeta' = [next |-> None, by |-> "none"]
    /\ pending' = NothingPending
    /\ restarting' = FALSE

\* Stop ends the queue loop and waits for the requests and the send under way
\* (which might as well have come before it), then for persistQueue (stored
\* already, as every change is) and DB.Close.
StopServer ==
    /\ up /\ Unlocked /\ save = NoSnapshot /\ putMeta.by = "none"
    /\ up' = FALSE
    /\ \/ disk' = ClosedFile /\ UNCHANGED starts
       \/ pending # NothingPending /\ Fault /\ UNCHANGED disk
    /\ Forgotten
    /\ UNCHANGED history

\* A crash leaves the file as it is.
Crash ==
    /\ up /\ Fault
    /\ up' = FALSE
    /\ Forgotten
    /\ UNCHANGED <<disk, history>>

\* Slip: the IDs of the stored messages aren't counted.
OnlyNextID(last) == last = disk.next

\* restoreQueue and Restore: the last ID is the highest of those stored.
IsRestoredLastID(last) == \A id \in IdsOf(disk.queue) \union {disk.next} : id <= last

\* AgentAPI starts again: restoreQueue.
StartUp ==
    /\ ~up /\ starts.again < MaxStarts
    /\ up' = TRUE
    /\ starts' = [starts EXCEPT !.again = @ + 1]
    /\ queue' = disk.queue
    /\ \E last \in IdsOf(disk.queue) \union {disk.next} :
            /\ IsRestoredLastID(last)
            /\ lastID' = last
            /\ saved' = [queue |-> disk.queue, lastID |-> last, version |-> 0]
    /\ UNCHANGED <<failed, version, call, change, save, putMeta, pending, disk, restarting,
                   history>>

-----------------------------------------------------------------------------
Next ==
    \/ \E m \in Msgs, front \in BOOLEAN : CreateQueued(m, front)
    \/ \E m \in Msgs : CreateSent(m) \/ CreateSteered(m)
    \/ \E id \in 1 .. MaxMsg : DeleteQueued(id)
    \/ \E i \in 1 .. MaxMsg : UpdateQueued(i) \/ ReorderQueue(i) \/ SteerQueued(i)
    \/ BeginRestart \/ EndRestart
    \/ Dispatch \/ EndSent \/ EndDispatch \/ EndSteer \/ EndSteerQueued
    \/ \E result \in Results : AgentAnswers(result)
    \/ StoreChange \/ ReadForSave \/ StoreSave \/ PutNextID \/ Write
    \/ StopServer \/ Crash \/ StartUp

Spec == Init /\ [][Next]_vars

\* The tick comes again and again and finds the agent idle and nothing that
\* holds the queue time and again; calls of the agent have a deadline (and an
\* instance's Results leave out the agent that is busy after all every time),
\* changes are handed on, the writer writes every 200 ms, and a restart ends.
FairSpec ==
    /\ Spec
    /\ SF_vars(Dispatch) /\ WF_vars(\E result \in Results : AgentAnswers(result))
    /\ WF_vars(EndSent) /\ WF_vars(EndDispatch)
    /\ WF_vars(EndSteer) /\ WF_vars(EndSteerQueued)
    /\ WF_vars(StoreChange) /\ WF_vars(StoreSave) /\ WF_vars(PutNextID) /\ WF_vars(Write)
    /\ WF_vars(EndRestart)

-----------------------------------------------------------------------------
(* Properties. *)

Items == [id : Nat, msg : Msgs, edited : BOOLEAN]
Snapshots == [queue : Seq(Items), lastID : Nat, version : Nat]
Calls == [kind : {"none", "direct", "steer", "steer_queued", "queued"}, msg : Msgs \union {None},
          id : Nat, result : {"none", "ok", "changing", "refused", "unconfirmed"}]

\* The types.
TypeOK ==
    /\ queue \in Seq(Items) /\ lastID \in Nat /\ version \in Nat
    /\ failed \in [id : Nat, count : Nat]
    /\ call \in Calls
    /\ change \in Snapshots \union {NoSnapshot} /\ save \in Snapshots \union {NoSnapshot}
    /\ saved \in Snapshots
    /\ putMeta \in [next : Nat, by : {"none", "change", "save"}]
    /\ pending \in [queue : Seq(Items), next : Nat, hasQueue : BOOLEAN, hasNext : BOOLEAN]
    /\ disk \in [queue : Seq(Items), next : Nat]
    /\ restarting \in BOOLEAN /\ up \in BOOLEAN
    /\ starts \in [again : Nat, faults : Nat]
    /\ fate \in [Msgs -> {"none", "calling", "queued", "sent", "failed", "deleted", "cleared"}]
    /\ reached \in [Msgs -> Nat]
    /\ gone \subseteq Nat

\* AgentAPI did not crash, and every write of the state database worked.
Faultless == starts.faults = 0

\* A message reaches the agent at most once, whether it is sent at once,
\* queued because the agent was busy after all, refused or unconfirmed
\* (notResent), and across clean stops.
DeliveredAtMostOnce == Faultless => \A m \in Msgs : reached[m] <= 1

\* The queue holds exactly the messages that wait: one that was queued is not
\* lost, and one that went out, was given up, deleted or cleared does not come
\* back, across clean stops of AgentAPI too (changed, storeQueue, DB.Close).
QueueIsWhatWaits ==
    Faultless /\ up => {m \in Msgs : fate[m] = "queued"} = MsgsOf(queue)

\* No two messages share an ID, even if a crash came between the writes of the
\* queue and of the last ID (PutQueue, restoreQueue); the ID of a message that
\* left the queue names no newer one (messageQueue), so a client that still has
\* it can't edit or delete another's.
OldIdsNameNothing ==
    /\ \A i, j \in DOMAIN queue : queue[i].id = queue[j].id => i = j
    /\ Faultless => IdsOf(queue) \intersect gone = {}

\* What is stored is the queue as of its last change, in whatever order
\* SaveState and the changes hand theirs over (storeQueue's version).
StoredIsCurrent ==
    up /\ change = NoSnapshot => saved.queue = queue /\ saved.lastID = lastID

\* A message the agent refuses doesn't block the queue forever
\* (maxQueueDispatchAttempts): whatever waits leaves the queue, unless
\* AgentAPI stops.
QueueDrains ==
    \A m \in Msgs : (fate[m] = "queued") ~> (fate[m] # "queued" \/ ~up)

\* The file catches up with the queue (storeQueue, DB.writeLoop).
FileCatchesUp ==
    []<>(~up \/ (disk.queue = queue /\ disk.next = lastID))

\* docs/architecture.md: a message that went out or was deleted isn't sent
\* again after a crash.
NotSentAgainAfterCrash == \A m \in Msgs : reached[m] <= 1
=============================================================================
