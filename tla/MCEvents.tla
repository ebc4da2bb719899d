----------------------------- MODULE MCEvents ------------------------------
(* Events and Webhook on small instances: one scenario for each group of hazards. *)
EXTENDS Webhook

CONSTANTS chat, watcher, observer, r1, r2, q1, q2

KindOf == [c \in Clients |-> CASE c = watcher -> "summary" [] c = observer -> "observer" [] OTHER -> "sync"]

Nothing ==
    [clients |-> {}, rich |-> {}, reqs |-> {}, msgs |-> 0, body |-> 1, seq |-> 0, time |-> 1,
     queue |-> 0, reports |-> 0, errors |-> 0, resets |-> 0, starts |-> 0, faults |-> 0,
     statuses |-> {}, lifecycles |-> {}, infos |-> {}, stops |-> {}, buf |-> 2, db |-> FALSE,
     hook |-> FALSE, configs |-> 0, beats |-> 0, sends |-> 0]

\* A chat follows messages that are said, grow and are taken back.
Following ==
    [Nothing EXCEPT !.clients = {chat}, !.msgs = 2, !.body = 2, !.seq = 5, !.time = 3]

\* The conversation is forgotten, and another takes its place.
Forgetting ==
    [Nothing EXCEPT !.clients = {chat}, !.msgs = 2, !.seq = 4, !.time = 3,
                    !.resets = 1, !.reports = 2, !.lifecycles = {"restarting"}]

\* Requests open, close and are trimmed.
Asking ==
    [Nothing EXCEPT !.clients = {chat}, !.reqs = {q1, q2}, !.seq = 4]

\* The queue's changes are reported out of order.
Queueing ==
    [Nothing EXCEPT !.clients = {chat}, !.msgs = 1, !.seq = 3, !.queue = 2, !.time = 2]

\* Rich messages, streamed or loaded at once into a forgotten conversation.
Loading ==
    [Nothing EXCEPT !.clients = {chat}, !.rich = {r1, r2}, !.seq = 3, !.time = 2, !.buf = 4,
                    !.resets = 1, !.reports = 2, !.lifecycles = {"restarting"}]

\* What is stored, without a client: the requests and messages, and what a
\* reset leaves.
Storing ==
    [Nothing EXCEPT !.rich = {r1}, !.reqs = {q1, q2}, !.msgs = 1, !.seq = 4, !.time = 3, !.db = TRUE,
                    !.starts = 1, !.faults = 1]
StoringAnew ==
    [Nothing EXCEPT !.rich = {r1}, !.msgs = 2, !.seq = 3, !.time = 4, !.db = TRUE,
                    !.reports = 2, !.resets = 1, !.starts = 1, !.faults = 1, !.lifecycles = {"restarting"}]

\* A chat resumes after AgentAPI was started again.
Restarting ==
    [Nothing EXCEPT !.clients = {chat}, !.msgs = 1, !.seq = 3, !.time = 3, !.queue = 1, !.db = TRUE,
                    !.starts = 1, !.faults = 1]

\* The tasks: how they end and what is added to them.
Working ==
    [Nothing EXCEPT !.msgs = 3, !.seq = 6, !.time = 4, !.reports = 3, !.errors = 1,
                    !.statuses = {"stable", "changing"}, !.lifecycles = {"failed"},
                    !.stops = {"limit", "retry"}]

\* A task whose agent waits on an answer, and the grace period after it.
Waiting ==
    [Nothing EXCEPT !.reqs = {q1}, !.msgs = 2, !.seq = 6, !.time = 3, !.reports = 4,
                    !.statuses = {"initializing", "stable", "changing"}]

\* Tasks that are restored, and the history of a stored session.
Resuming ==
    [Nothing EXCEPT !.msgs = 3, !.seq = 6, !.time = 5, !.db = TRUE, !.reports = 2, !.resets = 1, !.starts = 1,
                    !.statuses = {"stable"}, !.lifecycles = {"restarting"}]

\* Someone watches the summary.
Watching ==
    [Nothing EXCEPT !.clients = {watcher}, !.reqs = {q1}, !.msgs = 1, !.seq = 3, !.time = 2, !.queue = 1, !.reports = 2,
                    !.statuses = {"stable"}, !.infos = {0, 1}]

\* The webhook's observer follows the tasks, messages and limits.
Observing ==
    [Nothing EXCEPT !.hook = TRUE, !.msgs = 2, !.seq = 4, !.time = 3, !.reports = 1, !.errors = 1, !.configs = 1,
                    !.statuses = {"stable"}, !.stops = {"limit"}]

\* And requests and tools, and a reset.
ObservingMore ==
    [Nothing EXCEPT !.hook = TRUE, !.msgs = 1, !.rich = {r1}, !.reqs = {q1}, !.seq = 3, !.time = 3, !.reports = 1,
                    !.resets = 1, !.lifecycles = {"restarting"}]

\* The dispatcher.
Sending ==
    [Nothing EXCEPT !.hook = TRUE, !.msgs = 1, !.seq = 2, !.time = 2, !.sends = 3, !.beats = 1, !.buf = 3]

AllScenarios ==
    {Following, Forgetting, Asking, Queueing, Loading, Storing, StoringAnew, Restarting,
     Working, Waiting, Resuming, Watching, Observing, ObservingMore, Sending}
=============================================================================
