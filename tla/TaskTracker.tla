---------------------------- MODULE TaskTracker ----------------------------
(***************************************************************************)
(* How the emitter derives the conversation's tasks (taskTracker,          *)
(* lib/convstate/tasks.go): operators on a tracker, a record the emitter   *)
(* keeps under its lock.                                                   *)
(*                                                                         *)
(*   tasks      the tasks, the earliest first: the user message (id, at)   *)
(*              that started one, those added to it (steered), the agent's *)
(*              reply, and how it stands                                   *)
(*   ids        the IDs of the messages last taken                         *)
(*   inOrder    the tasks' and the messages' IDs increase                  *)
(*   rederive   the tasks were restored, not derived from the messages     *)
(*   open, ran  the running task's position (0: none), and whether the     *)
(*              agent worked since it started                              *)
(*   since      a user message from before it is history                   *)
(*   agent      the agent's status as last sent                            *)
(*   changed    the positions of the tasks a method changed, which it      *)
(*              returns                                                    *)
(*                                                                         *)
(* A message is [id, role, at, body].  A time is a number; a task's errors *)
(* are the fact that it had any; owners, which is kept beside the tasks    *)
(* for speed, is worked out from them.                                     *)
(***************************************************************************)
EXTENDS Integers, Sequences, SequencesExt

NoAgent == [status |-> "running", lifecycle |-> "starting", pending |-> 0,
            limitAt |-> 0, retryAt |-> 0]

NewTracker(since) ==
    [tasks |-> << >>, ids |-> << >>, inOrder |-> TRUE, rederive |-> FALSE,
     open |-> 0, ran |-> FALSE, since |-> since, agent |-> NoAgent, changed |-> << >>]

\* reset keeps the agent's status.
ResetTracker(t, now) == [NewTracker(now) EXCEPT !.agent = t.agent]

Final(task) == task.status # "running"

\* appendOnce.
Touch(t, i) ==
    IF i \in {t.changed[k] : k \in DOMAIN t.changed} THEN t
    ELSE [t EXCEPT !.changed = Append(@, i)]

\* The position of the latest task a user message started or was added to.
Owner(t, id) ==
    SelectLastInSeq(t.tasks, LAMBDA task : task.id = id \/ id \in task.steered)

\* The position of the message id in msgs, or 0.
At(msgs, id) == SelectLastInSeq(msgs, LAMBDA m : m.id = id)

\* The message that started the task is still there, and is still that one.
StillOf(msgs, task) ==
    LET i == At(msgs, task.id)
    IN  i > 0 /\ msgs[i].role = "user" /\ msgs[i].at = task.at

Increasing(ns) == \A i \in 2 .. Len(ns) : ns[i - 1] < ns[i]
IdsOf(s) == [i \in DOMAIN s |-> s[i].id]

\* The agent neither works nor waits on an answer.
Idle(t) == t.agent.status = "stable" /\ t.agent.pending = 0

\* The task at position i ends, with the outcome its turn had.
EndTask(t, i) ==
    LET task == t.tasks[i]
        limited == t.agent.limitAt # 0 /\ t.agent.limitAt >= task.at
        retried == t.agent.retryAt # 0 /\ t.agent.retryAt >= task.at
        status == IF limited THEN "limited"
                  ELSE IF retried \/ task.errors THEN "failed" ELSE "completed"
    IN  [t EXCEPT !.tasks[i].status = status,
                  !.tasks[i].errors = @ \/ (~limited /\ retried),
                  !.open = IF @ = i THEN 0 ELSE @,
                  !.ran = IF t.open = i THEN FALSE ELSE @]

AddTask(t, m, status) ==
    [t EXCEPT !.tasks = Append(@, [id |-> m.id, at |-> m.at, status |-> status,
                                   steered |-> {}, reply |-> -1, errors |-> FALSE]),
              !.inOrder = @ /\ (t.tasks # << >> => Last(t.tasks).id < m.id)]

\* own: a user message that no task holds gets one: its own, done if it is
\* history, or the running one it steers.  A task that only its grace period
\* keeps open ends before.
StartTask(t, m) ==
    Touch([AddTask(t, m, "running") EXCEPT !.open = Len(t.tasks) + 1,
                                           !.ran = t.agent.status = "running"], Len(t.tasks) + 1)
TakeUp(t, m) ==
    IF t.open = 0 THEN StartTask(t, m)
    ELSE Touch([t EXCEPT !.tasks[t.open].steered = @ \cup {m.id}], t.open)
OwnMessage(t, m) ==
    IF m.role # "user" \/ Owner(t, m.id) # 0 THEN t
    ELSE IF m.at < t.since THEN Touch(AddTask(t, m, "completed"), Len(t.tasks) + 1)
    ELSE TakeUp(IF t.open # 0 /\ t.ran /\ Idle(t) THEN EndTask(Touch(t, t.open), t.open) ELSE t, m)

Own(t, msgs) == FoldLeft(OwnMessage, t, msgs)

\* replies: a task's reply is the agent's last message before the next task.
ReplyOf(t, msgs, i) ==
    LET from == At(msgs, t.tasks[i].id)
        next == IF i = Len(t.tasks) \/ At(msgs, t.tasks[i + 1].id) = 0
                THEN Len(msgs) + 1 ELSE At(msgs, t.tasks[i + 1].id)
        said == {j \in from + 1 .. next - 1 : msgs[j].role = "agent"}
    IN  IF from = 0 \/ said = {} THEN t.tasks[i].reply
        ELSE msgs[CHOOSE j \in said : \A k \in said : k <= j].id

WithReply(t, i, reply) ==
    IF reply = t.tasks[i].reply THEN t ELSE Touch([t EXCEPT !.tasks[i].reply = reply], i)
SetReply(msgs, t, i) == WithReply(t, i, ReplyOf(t, msgs, i))

Replies(t, msgs, k) ==
    FoldLeft(LAMBDA u, i : SetReply(msgs, u, i), t,
             [i \in 1 .. Len(t.tasks) - k + 1 |-> k + i - 1])

\* derive goes through all the messages: it drops the tasks whose message is
\* gone, and adds and updates the others.
LastRunning(tasks) == SelectLastInSeq(tasks, LAMBDA task : ~Final(task))
Keep(t, msgs, kept, there) ==
    [t EXCEPT !.tasks = [i \in DOMAIN kept |-> [kept[i] EXCEPT !.steered = @ \cap there]],
              !.open = IF Len(kept) = Len(t.tasks) THEN @ ELSE LastRunning(kept),
              !.inOrder = Increasing(IdsOf(kept)) /\ Increasing(IdsOf(msgs)),
              !.ids = IdsOf(msgs), !.rederive = FALSE,
              !.changed = SelectSeq([i \in DOMAIN kept |-> i], LAMBDA i : ~(kept[i].steered \subseteq there))]
DropGone(t, msgs) ==
    Keep(t, msgs, SelectSeq(t.tasks, LAMBDA task : StillOf(msgs, task)), {msgs[i].id : i \in DOMAIN msgs})

Derive(t, msgs) == Replies(Own(DropGone(t, msgs), msgs), msgs, 1)

\* The position of the task the messages before from end in.
TaskBefore(t, msgs, from) ==
    SelectLastInSeq(t.tasks, LAMBDA task : from > 1 /\ task.id <= msgs[from - 1].id)

\* Mutant: only messages that changed their place are noticed.
NeedsDeriveIfMoved(t, msgs, from) ==
    \/ t.rederive \/ ~t.inOrder
    \/ \E i \in from .. Len(msgs) : i <= Len(t.ids) /\ msgs[i].id # t.ids[i]

\* A change that removed messages, put others in their place, added them out
\* of order or took a task's message from the user goes through them all.
NeedsDerive(t, msgs, from) ==
    \/ t.rederive \/ ~t.inOrder
    \/ Len(msgs) < Len(t.ids)
    \/ \E i \in from .. Len(msgs) :
        \/ i <= Len(t.ids) /\ msgs[i].id # t.ids[i]
        \/ i > Len(t.ids) /\ i > 1 /\ msgs[i].id <= msgs[i - 1].id
        \/ /\ Owner(t, msgs[i].id) # 0
           /\ t.tasks[Owner(t, msgs[i].id)].id = msgs[i].id
           /\ ~StillOf(msgs, t.tasks[Owner(t, msgs[i].id)])
    \/ LET k == TaskBefore(t, msgs, from) IN k # 0 /\ At(SubSeq(msgs, 1, from - 1), t.tasks[k].id) = 0

\* messages: the conversation's messages after a change; those before
\* position first are those of the last call.  Only the tasks from there on
\* change.
MessagesFrom(t, msgs, from) ==
    IF ~t.rederive /\ t.inOrder /\ from = Len(msgs) + 1 /\ from = Len(t.ids) + 1 THEN t
    ELSE IF NeedsDerive(t, msgs, from) THEN Derive(t, msgs)
    ELSE Replies(Own([t EXCEPT !.ids = IdsOf(msgs)], SubSeq(msgs, from, Len(msgs))), msgs,
                 IF TaskBefore(t, msgs, from) = 0 THEN 1 ELSE TaskBefore(t, msgs, from))
Messages(t, msgs, first) ==
    MessagesFrom(t, msgs, CHOOSE f \in {first, Len(t.ids) + 1, Len(msgs) + 1} :
                            f <= first /\ f <= Len(t.ids) + 1 /\ f <= Len(msgs) + 1)

\* statusChanged: the task ends when the agent stops working, or is gone.
\* ToConfirm: the agent was idle already and only stopped waiting on a
\* request, so the task ends if it is still idle after taskEndGrace.
StatusChanged(t, agent) ==
    LET u == [t EXCEPT !.agent = agent]
    IN  IF t.open = 0 THEN u
        ELSE IF agent.lifecycle \in {"exited", "failed"}
        THEN Touch(EndTask([u EXCEPT !.tasks[t.open].errors = TRUE], t.open), t.open)
        ELSE IF agent.status = "running" THEN [u EXCEPT !.ran = TRUE]
        ELSE IF u.ran /\ Idle(u) /\ t.agent.status = "running"
        THEN Touch(EndTask(u, t.open), t.open)
        ELSE u

ToConfirm(t, agent) ==
    /\ t.open # 0 /\ t.ran
    /\ agent.lifecycle \notin {"exited", "failed"}
    /\ agent.status = "stable" /\ agent.pending = 0 /\ t.agent.status = "stable"

EndIfIdle(t) ==
    IF t.open = 0 \/ ~t.ran \/ ~Idle(t) THEN t ELSE Touch(EndTask(t, t.open), t.open)

\* agentError notes an error the agent reported in the running task.
AgentError(t) ==
    IF t.open = 0 THEN t ELSE Touch([t EXCEPT !.tasks[t.open].errors = TRUE], t.open)

\* taskAt: the task a rich message from `at' belongs to, or -1.
TaskAt(t, at) ==
    LET i == SelectLastInSeq(t.tasks, LAMBDA task : task.at <= at)
    IN  IF t.open # 0 THEN t.tasks[t.open].id ELSE IF i # 0 THEN t.tasks[i].id ELSE -1

\* restore: a task whose message is gone goes, and one that was running when
\* AgentAPI stopped ends.
Restored(tasks, msgs, now) ==
    LET t == [NewTracker(now) EXCEPT
                !.tasks = SelectSeq(tasks, LAMBDA task : StillOf(msgs, task)),
                !.rederive = TRUE]
        u == FoldLeft(LAMBDA v, i : IF Final(v.tasks[i]) THEN v ELSE Touch(EndTask(v, i), i),
                      t, [i \in DOMAIN t.tasks |-> i])
    IN  [u EXCEPT !.inOrder = Increasing(IdsOf(u.tasks))]
=============================================================================
