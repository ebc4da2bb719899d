------------------------------- MODULE Codex -------------------------------
(***************************************************************************)
(* The Codex adapter (lib/native/codex): the requests AgentAPI makes of     *)
(* `codex app-server', the read loop that handles what app-server says, and *)
(* what the conversation is told of it.                                     *)
(*                                                                         *)
(* `codex' is the adapter with the state of its read loop; the functions on *)
(* it are the loop's handlers.  `codexOps' are the calls under way, each a  *)
(* write, a wait for the response and what its caller does with it, between *)
(* which the adapter's lock is free.  `codexWire' are the two pipes and     *)
(* `app' is app-server, external: it may answer late, start turns and ask by *)
(* itself, never end a turn, or die.  `told' is what the conversation makes *)
(* of the Sink's calls.                                                     *)
(***************************************************************************)
EXTENDS AgentIO

CONSTANTS
    EndedTurns,     \* endedTurns
    CodexScopes     \* what happens in a behaviour: records of bounds

VARIABLES codex, app, codexOps, codexWire, codexScope

codexVars == <<codex, app, codexOps, codexWire, codexScope>>

-----------------------------------------------------------------------------
(* Items of a turn, and the messages they are shown in: a segment of the     *)
(* turn's assistant message, and a result for each tool call.                *)

UserItems == {"prompt", "steered"}
TextItems == {"text", "plan"}
ToolItems == {"tool", "question", "todo"}   \* "question": request_user_input
CodexItems == UserItems \union TextItems \union ToolItems

Segment(n) == IF n = 1 THEN "seg1" ELSE "seg2"
CodexKeys == {"seg1", "seg2"} \union ToolItems

NoTurn == [id |-> 0, items |-> [i \in CodexItems |-> "none"], segs |-> 1,
           of |-> [i \in CodexItems |-> 1], promptSeen |-> FALSE, plan |-> FALSE,
           error |-> "none", login |-> FALSE]

(* Requests of app-server: the answers each takes, and the one that dismisses *)
(* it.                                                                       *)
CommandApproval == [takes |-> {"accept", "decline"}, dismissal |-> "decline"]
FileChangeApproval == [takes |-> {"accept", "decline"}, dismissal |-> "decline"]
PermissionsRequest == [takes |-> {"accept", "decline"}, dismissal |-> "decline"]
ElicitationRequest == [takes |-> {"accept", "cancel"}, dismissal |-> "cancel"]
UserInputRequest == [takes |-> {"answers"}, dismissal |-> "none"]
Asked(kind) ==
    CASE kind = "command" -> CommandApproval
      [] kind = "file" -> FileChangeApproval
      [] kind = "permissions" -> PermissionsRequest
      [] kind = "elicitation" -> ElicitationRequest
      [] kind = "question" -> UserInputRequest

-----------------------------------------------------------------------------
(* Settings: "" is a field that is not set.  Plan is a collaboration mode,   *)
(* whose model and effort win over the turn's.                               *)

NoSettings == [mode |-> "", model |-> "", effort |-> ""]
MergeSettings(s, o) == [f \in DOMAIN s |-> IF o[f] # "" THEN o[f] ELSE s[f]]

\* The models app-server lists: m1 with a choice of effort, m2 without.
EffortsOf(model) == IF model = "m1" THEN {"e1", "e2"} ELSE {}
DefaultEffort(model) == IF model = "m1" THEN "e1" ELSE ""

\* SettingOptions.NewModelEffort, for a thread that has an effort.
NewModelEffort(change, current) ==
    /\ change.model # "" /\ change.effort = "" /\ current.effort # ""
    /\ current.effort \notin EffortsOf(change.model)

\* SettingOptions.Check.
Valid(change, current) ==
    change.effort = ""
    \/ change.effort \in EffortsOf(IF change.model # "" THEN change.model ELSE current.model)

\* Adapter.Settings.
CodexSettings(s) == [s.settings EXCEPT !.mode = IF s.plan THEN "plan" ELSE @]

WithEffort(s, change) ==
    IF NewModelEffort(change, s.settings) THEN [change EXCEPT !.effort = DefaultEffort(change.model)] ELSE change
WithoutPlan(change) == IF change.mode = "plan" THEN [change EXCEPT !.mode = ""] ELSE change
Applied(s, change, c) ==
    [s EXCEPT !.plan = CASE change.mode = "plan" -> TRUE [] change.mode = "" -> @ [] OTHER -> FALSE,
              !.settings = [MergeSettings(@, c) EXCEPT !.effort = IF NewModelEffort(change, s.settings)
                                                                  THEN DefaultEffort(change.model) ELSE @],
              !.pending = MergeSettings(@, c),
              !.collabStale = @ \/ c.model # "" \/ c.effort # ""]
ApplySettings(s, change) == Applied(s, change, WithoutPlan(WithEffort(s, change)))

\* nextCollabLocked.
NextCollab(s, plan) ==
    LET want == IF plan THEN "plan" ELSE "default"
    IN  CASE s.collab = "" /\ ~plan -> ""
          [] s.collab # want \/ s.collabStale -> want
          [] OTHER -> ""

\* takeChanges: the changes a turn/start carries, what it says, what is left.
TakenChanges(s, implement) ==
    [settings |-> s.pending, stale |-> s.collabStale, implement |-> implement, plan |-> s.plan, mode |-> s.settings.mode,
     collab |-> NextCollab(s, IF implement # "" THEN FALSE ELSE s.plan)]
TurnStartParams(s, c) ==
    [settings |-> [c.settings EXCEPT !.mode = IF c.implement # "" THEN c.implement ELSE @],
     collab |-> c.collab, of |-> s.settings]
WithoutChanges(s) == [s EXCEPT !.pending = NoSettings, !.collabStale = FALSE]

CommitChanges(s, c) ==
    [s EXCEPT !.collab = IF c.collab # "" THEN c.collab ELSE @,
              !.plan = IF c.implement # "" /\ @ = c.plan THEN FALSE ELSE @,
              !.settings.mode = IF c.implement # "" /\ @ = c.mode THEN c.implement ELSE @]
\* As RestoreChanges, but what was taken wins over a change made meanwhile.
RestoreOldest(s, c) ==
    [s EXCEPT !.pending = MergeSettings(@, c.settings), !.collabStale = @ \/ c.stale]

RestoreChanges(s, c) ==
    [s EXCEPT !.pending = MergeSettings(c.settings, @), !.collabStale = @ \/ c.stale]

\* app-server takes the settings of a turn/start, for it and the turns after.
WithParams(a, p) ==
    [a EXCEPT !.settings = MergeSettings(@, p.settings),
              !.collab = IF p.collab # "" THEN p.collab ELSE @,
              !.collabOf = IF p.collab # "" THEN p.of ELSE @]
Effective(a) ==
    [mode |-> IF a.collab = "plan" THEN "plan" ELSE a.settings.mode,
     model |-> IF a.collab = "" THEN a.settings.model ELSE a.collabOf.model,
     effort |-> IF a.collab = "" THEN a.settings.effort ELSE a.collabOf.effort]

-----------------------------------------------------------------------------
(* The read loop.                                                            *)

\* finishTool: the call has its final status, and its result is sent.
FinishTool(s, i) ==
    [s EXCEPT !.turn.items[i] = "done",
              !.view = Emit(Grow(Emit(Grow(@, Segment(s.turn.of[i])), Segment(s.turn.of[i])), i), i)]

LastVisible(s) == IF s.turn.segs = 2 /\ s.view.content["seg2"] > 0 THEN "seg2" ELSE "seg1"

OpenTools(s) == {i \in ToolItems : s.turn.items[i] = "open"}
CloseOpenItems(s) ==
    FoldSet(LAMBDA i, r : FinishTool(r, i),
            [s EXCEPT !.turn.items = [i \in CodexItems |-> IF @[i] = "open" THEN "done" ELSE @[i]]],
            OpenTools(s))

\* The last segment gets the stop reason; every change goes out, none is late.
SendFinal(s) ==
    [s EXCEPT !.view = ResetThrottle(Flush(Emit(IF @.content[LastVisible(s)] > 0 THEN Grow(@, LastVisible(s)) ELSE @, LastVisible(s)), TRUE))]

\* As CloseTurnRequests, but nobody tells app-server.
ForgetTurnRequests(s) == [s EXCEPT !.requests = {}]

\* closeTurnRequests: a late answer is refused, and those not answered are
\* dismissed, where there is a way to.
CloseTurnRequests(s) ==
    [s EXCEPT !.requests = {},
              !.async = @ \union {[id |-> r.id, answer |-> Asked(r.kind).dismissal] :
                                    r \in {q \in s.requests : ~q.answered /\ Asked(q.kind).dismissal # "none"}}]

\* Sink.TurnCompleted and Sink.TurnStarted.
TurnCompleted(s) == [s EXCEPT !.told = [active |-> FALSE, unconfirmed |-> FALSE, open |-> {}, spent |-> {}]]
TurnStarted(s) == [s EXCEPT !.told.active = TRUE, !.told.unconfirmed = FALSE]

RememberEnded(ended, t) ==
    IF Len(ended) >= EndedTurns THEN Tail(Append(ended, t)) ELSE Append(ended, t)

AwaitPlanDecision(s, t) ==
    [s EXCEPT !.planWait = t, !.told.open = @ \union {<<"plan", t>>}]

EndLoopTurn(s) == [s EXCEPT !.turn = NoTurn, !.ended = RememberEnded(@, s.turn.id), !.left = OpenTools(s)]

(* Errors, by what AgentAPI does about them.  `heard' is what the             *)
(* conversation heard of the turn's errors, with the last one reported.      *)
CodexErrors == {"limit", "auth", "transient", "other"}
IsLimitError(e) == e = "limit"
IsAuthError(e) == e = "auth"
TransientError(e) == e = "transient"

\* reportLogin: once per turn.
ReportLogin(s) ==
    IF s.turn.login THEN s ELSE [s EXCEPT !.turn.login = TRUE, !.heard.logins = @ + 1]

\* errorReported: one app-server retries after is a warning, one of the turn
\* is told when the turn ends.
ErrorReported(s, n) ==
    CASE n.retry -> s
      [] s.turn.id = n.turn /\ IsAuthError(n.error) ->
            ReportLogin([s EXCEPT !.turn.error = n.error, !.heard.last = n.error, !.heard.auth = TRUE])
      [] s.turn.id = n.turn -> [s EXCEPT !.turn.error = n.error, !.heard.last = n.error]
      [] OTHER -> s

\* turnResult, with the error a failed turn/completed carries.
FailedOf(s, error) == IF error # "none" THEN error ELSE s.turn.error
StopReason(s, status, error) ==
    CASE status = "interrupted" -> "interrupted"
      [] status # "failed" -> "end_turn"
      [] IsLimitError(FailedOf(s, error)) -> "limited"
      [] TransientError(FailedOf(s, error)) -> "transient"
      [] OTHER -> "error"
TurnResult(s, status, error) ==
    [(IF status = "failed" /\ IsAuthError(error) THEN ReportLogin(s) ELSE s) EXCEPT
        !.heard.told = {s.turn.error} \union (IF status = "failed" THEN {FailedOf(s, error)} ELSE {}),
        !.heard.stop = StopReason(s, status, error),
        !.heard.auth = @ \/ (status = "failed" /\ IsAuthError(error))]

\* completeTurn.  The mark of an interrupt is read with the end of the turn.
EndTurn(s, status, error) ==
    EndLoopTurn(SendFinal(CloseTurnRequests(CloseOpenItems(TurnResult(
        [s EXCEPT !.interrupt = "off", !.activeTurn = 0, !.interrupting = @ \ {s.turn.id}], status, error)))))
CompleteTurn(s, status, error) ==
    IF s.turn.id \in s.interrupting /\ status = "completed"
    THEN TurnCompleted(EndTurn(s, "interrupted", error))
    ELSE IF s.turn.plan /\ status = "completed"
    THEN AwaitPlanDecision(EndTurn(s, status, error), s.turn.id)
    ELSE TurnCompleted(EndTurn(s, status, error))

NothingHeard == [told |-> {"none"}, last |-> "none", logins |-> 0, auth |-> FALSE, stop |-> "none"]
NewTurn(s, t) ==
    TurnStarted([s EXCEPT !.turn = [NoTurn EXCEPT !.id = t], !.activeTurn = t, !.view = Blank(CodexKeys), !.heard = NothingHeard])

\* As BeginTurn, also for a turn that ended.
BeginAnyTurn(s, t) ==
    CASE s.turn.id = t -> s
      [] s.turn.id # 0 -> NewTurn(CompleteTurn(s, "completed", "none"), t)
      [] OTHER -> NewTurn(s, t)

\* beginTurn.
BeginTurn(s, t) ==
    CASE t \in Range(s.ended) -> s
      [] s.turn.id = t -> s
      [] s.turn.id # 0 -> NewTurn(CompleteTurn(s, "completed", "none"), t)
      [] OTHER -> NewTurn(s, t)

\* addItem.
AddItem(s, i) ==
    [s EXCEPT !.turn.items[i] = "open", !.turn.of[i] = s.turn.segs,
              !.view = CASE i \in UserItems -> @
                         [] i \in TextItems -> Emit(@, Segment(s.turn.segs))
                         [] OTHER -> Emit(Grow(@, Segment(s.turn.segs)), Segment(s.turn.segs))]

\* A message steered into the turn starts a new segment.
NewSegment(s) ==
    IF s.turn.promptSeen THEN [s EXCEPT !.turn.segs = 2, !.view = Flush(@, TRUE)] ELSE [s EXCEPT !.turn.promptSeen = TRUE]

ItemStarted(s, i) ==
    CASE s.turn.items[i] # "none" -> s
      [] i \in UserItems -> AddItem(NewSegment(s), i)
      [] OTHER -> AddItem(s, i)

CompleteItem(s, i) ==
    CASE s.turn.items[i] = "done" -> s
      [] i \in ToolItems -> FinishTool(s, i)
      [] i \in UserItems -> [s EXCEPT !.turn.items[i] = "done"]
      [] OTHER -> [s EXCEPT !.turn.items[i] = "done", !.turn.plan = @ \/ i = "plan",
                            !.view = Emit(Grow(@, Segment(s.turn.of[i])), Segment(s.turn.of[i]))]
ItemCompleted(s, i) == CompleteItem(ItemStarted(s, i), i)

\* textDelta and outputDelta, of an item of the turn that has a block.
Delta(s, i) ==
    CASE s.turn.items[i] = "none" -> s
      [] i \in TextItems -> [s EXCEPT !.view = Changed(Grow(@, Segment(s.turn.of[i])), Segment(s.turn.of[i]))]
      [] i \in ToolItems /\ s.turn.items[i] # "done" -> [s EXCEPT !.view = Changed(Grow(@, i), i)]
      [] OTHER -> s

\* planUpdated: the todo list, one tool call per turn.
TodoUpdated(s) == FinishTool(ItemStarted(s, "todo"), "todo")

\* turnFor: items of a turn the adapter did not start start it.
InTurn(s, t, F(_)) ==
    CASE s.turn.id = t -> F(s)
      [] t \in Range(s.ended) -> s
      [] OTHER -> F(BeginTurn(s, t))

OpenRequest(s, r) ==
    [s EXCEPT !.requests = @ \union {r}, !.told.open = @ \union {<<"request", r.id>>}]
\* serverRequest: one AgentAPI can't show is declined, never approved.
ServerRequest(s, n) ==
    CASE n.kind = "unknown" -> [s EXCEPT !.async = @ \union {[id |-> n.id, answer |-> "error"]}]
      [] n.kind = "question" -> OpenRequest(InTurn(s, n.turn, LAMBDA r : ItemStarted(r, "question")),
                                    [id |-> n.id, kind |-> n.kind, answered |-> FALSE, unconfirmed |-> FALSE])
      [] OTHER -> OpenRequest(s, [id |-> n.id, kind |-> n.kind, answered |-> FALSE, unconfirmed |-> FALSE])

CompleteQuestion(s, r) ==
    IF r.kind = "question" /\ s.turn.items["question"] = "open" THEN FinishTool(s, "question") ELSE s
\* requestResolved: answered, or app-server gave up on it.
Resolved(s, r) ==
    CompleteQuestion([s EXCEPT !.requests = @ \ {r},
                               !.told.open = IF r.answered /\ ~r.unconfirmed THEN @ ELSE @ \ {<<"request", r.id>>}], r)
RequestResolved(s, id) ==
    IF \E r \in s.requests : r.id = id THEN Resolved(s, CHOOSE r \in s.requests : r.id = id) ELSE s

\* notification and serverRequest.
Notified(s, n) ==
    CASE n.m = "turn/started" -> BeginTurn(s, n.turn)
      [] n.m = "turn/completed" -> IF s.turn.id = n.turn THEN CompleteTurn(s, n.status, n.error) ELSE s
      [] n.m = "error" -> ErrorReported(s, n)
      [] n.m = "item/started" -> InTurn(s, n.turn, LAMBDA r : ItemStarted(r, n.item))
      [] n.m = "item/completed" -> InTurn(s, n.turn, LAMBDA r : ItemCompleted(r, n.item))
      [] n.m = "delta" -> IF s.turn.id = n.turn THEN Delta(s, n.item) ELSE s
      [] n.m = "turn/plan/updated" -> InTurn(s, n.turn, TodoUpdated)
      [] n.m = "request" -> ServerRequest(s, n)
      [] n.m = "serverRequest/resolved" -> RequestResolved(s, n.id)

\* exited: the open turn ends here, its requests are left to the conversation.
Exited(s) ==
    [(IF s.turn.id # 0 THEN SendFinal(CloseOpenItems(s)) ELSE [s EXCEPT !.view = ResetThrottle(Flush(@, TRUE))]) EXCEPT
        !.turn = NoTurn, !.interrupt = "off", !.activeTurn = 0, !.interrupting = {}, !.requests = {}, !.exited = TRUE, !.left = {}]

-----------------------------------------------------------------------------
(* Calls.  An operation is written, waits for its response and returns.      *)

NoOp == [op |-> "none", step |-> "idle"]
Slots == {"start", "turn", "control", "close", "answer"}
Free(slot) == codexOps[slot] = NoOp
Op(op, step) ==
    [op |-> op, step |-> step, id |-> codex.nextID, turn |-> codex.activeTurn, request |-> 0, implement |-> "",
     changes |-> TakenChanges(codex, ""), result |-> "none"]

Issue(slot, o) == codexOps' = [codexOps EXCEPT ![slot] = o]
WithID(s) == [s EXCEPT !.nextID = @ + 1]
Ready == codex.started /\ ~codex.closing /\ ~codex.exited

\* The message a call writes.
Message(o) ==
    CASE o.op \in {"startTurn", "implement", "revise"} -> [m |-> "turn/start", id |-> o.id, params |-> o.params]
      [] o.op = "interrupt" -> [m |-> "turn/interrupt", id |-> o.id, turn |-> o.turn]
      [] o.op = "steer" -> [m |-> "turn/steer", id |-> o.id, turn |-> o.turn]
      [] o.op = "respond" -> [m |-> "answer", id |-> o.request, answer |-> o.answer]
      [] OTHER -> [m |-> o.op, id |-> o.id]

\* startTurn, once the adapter has no turn: what the call carries.
TurnCall(o, implement) ==
    o @@ [params |-> TurnStartParams(codex, TakenChanges(codex, implement))]
TurnOp(op, implement) ==
    TurnCall([Op(op, "write") EXCEPT !.implement = implement, !.changes = TakenChanges(codex, implement)], implement)

\* StartTurn and Compact, which the conversation calls while it has no turn.
\* With a turn of app-server's they are refused at once (ErrTurnActive).
CodexStartTurn ==
    /\ Ready /\ Free("turn") /\ ~codex.told.active /\ codex.activeTurn = 0
    /\ codex.nextID <= codexScope.calls
    /\ codex' = [WithID(WithoutChanges(codex)) EXCEPT !.told.active = TRUE]
    /\ Issue("turn", TurnOp("startTurn", ""))
    /\ UNCHANGED <<app, codexWire, codexScope>>

CodexCompact ==
    /\ Ready /\ Free("turn") /\ ~codex.told.active /\ codex.activeTurn = 0
    /\ codex.nextID <= codexScope.calls
    /\ codex' = WithID(codex)
    /\ Issue("turn", Op("thread/compact/start", "write"))
    /\ UNCHANGED <<app, codexWire, codexScope>>

\* Steer and Interrupt, of the turn app-server works on.
CodexSteer ==
    /\ Ready /\ Free("control") /\ codex.told.active /\ codex.activeTurn # 0
    /\ codex.nextID <= codexScope.calls
    /\ codex' = WithID(codex)
    /\ Issue("control", Op("steer", "write"))
    /\ UNCHANGED <<app, codexWire, codexScope>>

CodexInterrupt ==
    /\ Ready /\ Free("control") /\ codex.told.active /\ codex.activeTurn # 0
    /\ codex.nextID <= codexScope.calls
    /\ codex' = [WithID(codex) EXCEPT !.interrupting = @ \union {codex.activeTurn}]
    /\ Issue("control", Op("interrupt", "write"))
    /\ UNCHANGED <<app, codexWire, codexScope>>

\* cancelPlanDecision: without a turn, an interrupt ends the wait for the plan.
CodexCancelPlan ==
    /\ Ready /\ Free("control") /\ codex.told.active /\ codex.activeTurn = 0 /\ codex.planWait # 0
    /\ codex' = [codex EXCEPT !.planWait = 0]
    /\ Issue("control", [Op("cancelPlan", "post") EXCEPT !.request = codex.planWait])
    /\ UNCHANGED <<app, codexWire, codexScope>>

\* ErrNoActiveTurn: the conversation ends a turn whose start was unconfirmed.
CodexNoActiveTurn ==
    /\ Ready /\ Free("control") /\ codex.told.active /\ codex.activeTurn = 0 /\ codex.planWait = 0
    /\ codex.told.unconfirmed
    /\ codex' = TurnCompleted(codex)
    /\ UNCHANGED <<app, codexOps, codexWire, codexScope>>

\* Respond, to a request of app-server's.
CodexRespond ==
    /\ Ready /\ Free("answer")
    /\ \E r \in codex.requests : \E answer \in Asked(r.kind).takes :
          /\ <<"request", r.id>> \in codex.told.open \ codex.told.spent
          /\ ~r.answered
          /\ codex' = [codex EXCEPT !.requests = (@ \ {r}) \union {[r EXCEPT !.answered = TRUE]}]
          /\ Issue("answer", [Op("respond", "write") EXCEPT !.request = r.id] @@ [answer |-> answer])
    /\ UNCHANGED <<app, codexWire, codexScope>>

\* answerPlan: carry the plan out in a permission mode, revise it, or end the turn.
CodexAnswerPlan ==
    /\ Ready /\ Free("answer") /\ codex.planWait # 0
    /\ <<"plan", codex.planWait>> \in codex.told.open \ codex.told.spent
    /\ codex.nextID <= codexScope.calls
    /\ \/ /\ codex.activeTurn = 0
          /\ \E implement \in {"", "ask"} :
                /\ codex' = [WithID(WithoutChanges(codex)) EXCEPT !.planWait = 0]
                /\ Issue("answer", [TurnOp(IF implement = "" THEN "revise" ELSE "implement", implement)
                                      EXCEPT !.request = codex.planWait])
       \/ /\ codex' = [codex EXCEPT !.planWait = 0]
          /\ Issue("answer", [Op("keepPlanning", "post") EXCEPT !.request = codex.planWait])
    /\ UNCHANGED <<app, codexWire, codexScope>>

CodexApplySettings ==
    /\ Ready /\ codex.changes < codexScope.changes
    /\ \E change \in codexScope.settings :
          /\ Valid(change, codex.settings)
          /\ codex' = [ApplySettings(codex, change) EXCEPT
                          !.changes = @ + 1,
                          !.raced = @ \/ \E slot \in Slots : codexOps[slot].op = "implement"]
    /\ UNCHANGED <<app, codexOps, codexWire, codexScope>>

\* Start, and the thread it opens: a copy, the one to resume, or a new one.
CodexStart ==
    /\ ~codex.started /\ ~codex.closing /\ ~codex.exited /\ Free("start")
    /\ codex' = WithID(codex)
    /\ Issue("start", Op("initialize", "write"))
    /\ UNCHANGED <<app, codexWire, codexScope>>

\* Writer.Write.  A write to a process that is gone fails.
CodexWrites ==
    /\ \E slot \in Slots : \E end \in WriteEnds :
          /\ codexOps[slot].step = "write"
          /\ end # "abandoned" => ~app.dead
          /\ end # "written" => app.dead \/ codex.lates < codexScope.lates
          /\ codexWire' = IF GoesOut(end) THEN [codexWire EXCEPT !.in = Append(@, Message(codexOps[slot]))] ELSE codexWire
          /\ codex' = IF end = "written" THEN codex ELSE [codex EXCEPT !.lates = @ + 1]
          /\ Issue(slot, CASE end = "abandoned" -> [codexOps[slot] EXCEPT !.step = "got", !.result = "refused"]
                           [] end = "unconfirmed" -> [codexOps[slot] EXCEPT !.step = "got", !.result = "unconfirmed"]
                           [] codexOps[slot].op = "respond" -> [codexOps[slot] EXCEPT !.step = "got", !.result = "ok"]
                           [] OTHER -> [codexOps[slot] EXCEPT !.step = "await"])
    /\ UNCHANGED <<app, codexScope>>

\* Writer.WriteAsync.
CodexWritesAsync ==
    /\ ~app.dead
    /\ \E w \in codex.async :
          /\ codex' = [codex EXCEPT !.async = @ \ {w}]
          /\ codexWire' = [codexWire EXCEPT !.in = Append(@, [m |-> "answer", id |-> w.id, answer |-> w.answer])]
    /\ UNCHANGED <<app, codexOps, codexScope>>

\* Calls.Await: the caller stops waiting.
CodexGivesUp ==
    /\ codex.lates < codexScope.lates
    /\ \E slot \in Slots :
          /\ codexOps[slot].step = "await"
          /\ Issue(slot, [codexOps[slot] EXCEPT !.step = "got", !.result = "unconfirmed"])
    /\ codex' = [codex EXCEPT !.lates = @ + 1]
    /\ UNCHANGED <<app, codexWire, codexScope>>

-----------------------------------------------------------------------------
(* What the read loop does with app-server's lines, in their order.          *)

Line == Head(codexWire.out)
LineRead == codexWire' = [codexWire EXCEPT !.out = Tail(@)]

\* threadOpened and threadSettings.
ThreadOpened(s, a) ==
    [s EXCEPT !.settings = a.settings, !.collab = a.collab, !.collabStale = FALSE, !.plan = a.collab = "plan", !.thread = TRUE]

\* A call's onResult, which runs before its caller sees the response.
OnResult(s, o, n) ==
    CASE n.result # "ok" -> s
      [] o.op \in {"startTurn", "implement", "revise"} -> BeginTurn(s, n.turn)
      [] o.op = "interrupt" -> IF s.turn.id = o.turn THEN [s EXCEPT !.interrupt = "running"] ELSE s
      [] o.op \in {"thread/start", "thread/resume", "thread/fork"} -> ThreadOpened(s, app)
      [] OTHER -> s

\* Calls.Resolve: the response to a call nobody waits for is dropped.
CodexReadsResponse ==
    /\ codexWire.out # <<>> /\ Line.m = "response" /\ LineRead
    /\ IF \E slot \in Slots : codexOps[slot].step = "await" /\ codexOps[slot].id = Line.id
       THEN \E slot \in Slots :
              /\ codexOps[slot].step = "await" /\ codexOps[slot].id = Line.id
              /\ codex' = OnResult(codex, codexOps[slot], Line)
              /\ Issue(slot, [codexOps[slot] EXCEPT !.step = "got", !.result = Line.result])
       ELSE UNCHANGED <<codex, codexOps>>
    /\ UNCHANGED <<app, codexScope>>

CodexReadsLine ==
    /\ codexWire.out # <<>> /\ Line.m # "response" /\ LineRead
    /\ codex' = Notified(codex, Line)
    /\ UNCHANGED <<app, codexOps, codexScope>>

\* The interval of a message is over; wake sends what was held back.
CodexElapses ==
    /\ \E k \in codex.view.throttle.recent : codex' = [codex EXCEPT !.view = Elapse(@, k)]
    /\ UNCHANGED <<app, codexOps, codexWire, codexScope>>
CodexWakes ==
    /\ ~codex.exited /\ Due(codex.view, FALSE) # {}
    /\ codex' = [codex EXCEPT !.view = Flush(@, FALSE)]
    /\ UNCHANGED <<app, codexOps, codexWire, codexScope>>

\* wake: app-server did not end the interrupted turn.
CodexEndsTurnHere ==
    /\ ~codex.exited /\ codex.interrupt = "running"
    /\ codex' = IF codex.turn.id # 0 THEN CompleteTurn(codex, "interrupted", "none") ELSE [codex EXCEPT !.interrupt = "off"]
    /\ UNCHANGED <<app, codexOps, codexWire, codexScope>>

\* A function posted to the loop runs, or the loop has ended.
CodexRunsPosted ==
    /\ \E slot \in {"control", "answer"} :
          /\ codexOps[slot].step = "post"
          /\ Issue(slot, NoOp)
          /\ codex' = CASE ~codex.exited -> TurnCompleted(codex)
                        [] codexOps[slot].op = "keepPlanning" -> [codex EXCEPT !.planWait = codexOps[slot].request]
                        [] OTHER -> codex
    /\ UNCHANGED <<app, codexWire, codexScope>>

\* outputEnded: the loop's last call; calls that wait fail, unconfirmed.
CodexOutputEnds ==
    /\ app.dead /\ codexWire.out = <<>> /\ ~codex.exited
    /\ codex' = Exited(codex)
    /\ codexOps' = [slot \in Slots |-> IF codexOps[slot].step = "await"
                                       THEN [codexOps[slot] EXCEPT !.step = "got", !.result = "unconfirmed"]
                                       ELSE codexOps[slot]]
    /\ UNCHANGED <<app, codexWire, codexScope>>

\* Wait returned: the conversation ends the turn and expires the requests.
CodexDown ==
    /\ codex.exited /\ (codex.told.active \/ codex.told.open # {})
    /\ codex' = TurnCompleted(codex)
    /\ UNCHANGED <<app, codexOps, codexWire, codexScope>>

-----------------------------------------------------------------------------
(* What a caller does with the outcome of its call.                          *)

Ok(o) == o.result = "ok"
Unsure(s, o) == [s EXCEPT !.unsure = @ \/ o.result = "unconfirmed"]

\* The conversation takes a refused turn back; one that may have gone out stays.
ToldOf(s, o) ==
    IF o.result = "unconfirmed" THEN [s EXCEPT !.told.unconfirmed = s.told.active] ELSE [s EXCEPT !.told.active = FALSE]

StartTurnReturns(s, o) ==
    IF Ok(o) THEN CommitChanges(s, o.changes) ELSE ToldOf(Unsure(RestoreChanges(s, o.changes), o), o)

\* The request can be answered again, unless the answer may have gone out.
PlanReturns(s, o) ==
    IF Ok(o)
    THEN [CommitChanges(s, o.changes) EXCEPT !.told.open = @ \ {<<"plan", o.request>>}]
    ELSE [Unsure(RestoreChanges(s, o.changes), o) EXCEPT
            !.planWait = o.request,
            !.told.spent = IF o.result = "unconfirmed" THEN @ \union {<<"plan", o.request>>} ELSE @]

RespondReturns(s, o) ==
    IF Ok(o)
    THEN [s EXCEPT !.told.open = @ \ {<<"request", o.request>>}]
    ELSE [s EXCEPT
            !.requests = {IF r.id # o.request THEN r
                          ELSE IF o.result = "unconfirmed" THEN [r EXCEPT !.unconfirmed = TRUE]
                          ELSE [r EXCEPT !.answered = FALSE] : r \in @},
            !.told.spent = IF o.result = "unconfirmed" THEN @ \union {<<"request", o.request>>} ELSE @,
            !.stranded = IF \E r \in s.requests : r.id = o.request THEN @ ELSE @ \union {o.request}]

Returned(s, o) ==
    CASE o.op = "startTurn" -> StartTurnReturns(s, o)
      [] o.op \in {"implement", "revise"} -> PlanReturns(s, o)
      [] o.op = "respond" -> RespondReturns(s, o)
      [] o.op = "interrupt" -> IF Ok(o) THEN s ELSE [s EXCEPT !.interrupting = @ \ {o.turn}]
      [] OTHER -> s

CodexReturns ==
    /\ \E slot \in Slots \ {"start"} :
          /\ codexOps[slot].step = "got"
          /\ codex' = Returned(codex, codexOps[slot])
          /\ Issue(slot, NoOp)
    /\ UNCHANGED <<app, codexWire, codexScope>>

\* handshake: the request that follows, "started", or "failed".
OpenFirst == CASE codexScope.start = "fork" -> "thread/fork" [] codexScope.start = "resume" -> "thread/resume" [] OTHER -> "thread/start"
Handshake(o) ==
    CASE o.op = "initialize" -> IF Ok(o) THEN "account/read" ELSE "failed"
      [] o.op = "account/read" -> IF o.result \in {"ok", "error"} THEN OpenFirst ELSE "failed"
      [] o.op = "thread/resume" /\ o.result = "error" -> "thread/start"
      [] OTHER -> IF Ok(o) THEN "started" ELSE "failed"

\* A start that fails closes the host (Host.StartError).
CodexStartReturns ==
    /\ codexOps["start"].step = "got"
    /\ LET next == Handshake(codexOps["start"])
       IN  /\ codex' = CASE next = "started" -> [codex EXCEPT !.started = ~codex.closing]
                         [] next = "failed" -> [codex EXCEPT !.closing = TRUE]
                         [] OTHER -> WithID(codex)
           /\ Issue("start", IF next \in {"started", "failed"} THEN NoOp ELSE Op(next, "write"))
    /\ UNCHANGED <<app, codexWire, codexScope>>

\* Close interrupts the turn, waits for its end or a grace, and stops app-server.
CodexClose ==
    /\ codexScope.close /\ ~codex.closing
    /\ IF codex.activeTurn # 0
       THEN /\ codex' = [WithID(codex) EXCEPT !.closing = TRUE, !.interrupting = @ \union {codex.activeTurn}]
            /\ Issue("close", Op("interrupt", "write"))
       ELSE codex' = [codex EXCEPT !.closing = TRUE] /\ UNCHANGED codexOps
    /\ UNCHANGED <<app, codexWire, codexScope>>
CodexStops ==
    /\ codex.closing /\ ~app.dead
    /\ app' = [app EXCEPT !.dead = TRUE]
    /\ UNCHANGED <<codex, codexOps, codexWire, codexScope>>

-----------------------------------------------------------------------------
(* app-server.                                                               *)

Say(lines) == codexWire' = [codexWire EXCEPT !.out = @ \o lines]
Roomy == ~app.dead /\ Len(codexWire.out) < codexScope.pipe
AppTurn(a, t) == [a EXCEPT !.turn = t, !.last = t, !.items = [i \in CodexItems |-> "none"], !.stopping = FALSE, !.steered = FALSE]
Owes(a, id, result) == [a EXCEPT !.owed = @ \union {[m |-> "response", id |-> id, result |-> result, turn |-> a.turn]}]

\* It takes a message, and owes the response.
Taken(a, msg) ==
    CASE msg.m = "turn/start" /\ a.turn = 0 -> {Owes(WithParams(AppTurn(a, a.last + 1), msg.params), msg.id, "ok")}
      [] msg.m = "thread/compact/start" /\ a.turn = 0 -> {Owes(AppTurn(a, a.last + 1), msg.id, "ok")}
      [] msg.m = "turn/interrupt" /\ a.turn = msg.turn -> {Owes([a EXCEPT !.stopping = TRUE], msg.id, "ok")}
      [] msg.m = "turn/steer" /\ a.turn = msg.turn -> {Owes([a EXCEPT !.steered = TRUE], msg.id, "ok")}
      [] msg.m \in {"turn/start", "thread/compact/start", "turn/interrupt", "turn/steer"} -> {Owes(a, msg.id, "error")}
      [] msg.m = "account/read" -> {Owes(a, msg.id, r) : r \in {"ok", "error", "loggedOut"}}
      [] OTHER -> {Owes(a, msg.id, r) : r \in {"ok", "error"}}
Started(a, b) == IF b.turn # a.turn THEN <<[m |-> "turn/started", turn |-> b.turn]>> ELSE <<>>
\* A turn/start only once it answered what it took before.
AppTakes ==
    /\ Roomy /\ codexWire.in # <<>>
    /\ Head(codexWire.in).m = "turn/start" => app.owed = {}
    /\ IF Head(codexWire.in).m = "answer"
       THEN /\ app' = [app EXCEPT !.waits = @ \ {Head(codexWire.in).id}]
            /\ codexWire' = [in |-> Tail(codexWire.in),
                             out |-> codexWire.out \o (IF Head(codexWire.in).id \in app.waits
                                                       THEN <<[m |-> "serverRequest/resolved", id |-> Head(codexWire.in).id]>> ELSE <<>>)]
       ELSE \E a \in Taken(app, Head(codexWire.in)) :
              /\ app' = a
              /\ codexWire' = [in |-> Tail(codexWire.in), out |-> codexWire.out \o Started(app, a)]
    /\ UNCHANGED <<codex, codexOps, codexScope>>
AppAnswers ==
    /\ Roomy
    /\ \E r \in app.owed : app' = [app EXCEPT !.owed = @ \ {r}] /\ Say(<<r>>)
    /\ UNCHANGED <<codex, codexOps, codexScope>>

AppStartsTurn ==
    /\ Roomy /\ app.turn = 0 /\ app.own < codexScope.own /\ codex.started
    /\ app' = [AppTurn(app, app.last + 1) EXCEPT !.own = @ + 1]
    /\ Say(<<[m |-> "turn/started", turn |-> app.last + 1]>>)
    /\ UNCHANGED <<codex, codexOps, codexScope>>

AppItem ==
    /\ Roomy /\ app.turn # 0
    /\ \E i \in codexScope.items :
          \/ /\ app.items[i] = "none" /\ (i = "steered" => app.steered)
             /\ app' = [app EXCEPT !.items[i] = "open"]
             /\ Say(<<[m |-> "item/started", turn |-> app.turn, item |-> i]>>)
          \/ /\ app.items[i] = "open" \/ (app.items[i] = "none" /\ i = "tool")
             /\ app' = [app EXCEPT !.items[i] = "done"]
             /\ Say(<<[m |-> "item/completed", turn |-> app.turn, item |-> i]>>)
          \/ /\ app.items[i] = "open" /\ i \notin UserItems /\ app.deltas < codexScope.deltas
             /\ app' = [app EXCEPT !.deltas = @ + 1]
             /\ Say(<<[m |-> "delta", turn |-> app.turn, item |-> i]>>)
    /\ UNCHANGED <<codex, codexOps, codexScope>>
AppTodo ==
    /\ Roomy /\ app.turn # 0 /\ codexScope.todo /\ app.deltas < codexScope.deltas
    /\ app' = [app EXCEPT !.deltas = @ + 1]
    /\ Say(<<[m |-> "turn/plan/updated", turn |-> app.turn]>>)
    /\ UNCHANGED <<codex, codexOps, codexScope>>

AppErrs ==
    /\ Roomy /\ app.turn # 0 /\ app.deltas < codexScope.deltas
    /\ \E error \in codexScope.errors : \E retry \in BOOLEAN :
          Say(<<[m |-> "error", turn |-> app.turn, error |-> error, retry |-> retry]>>)
    /\ app' = [app EXCEPT !.deltas = @ + 1]
    /\ UNCHANGED <<codex, codexOps, codexScope>>

AppAsks ==
    /\ Roomy /\ Len(app.asked) < codexScope.asks /\ codex.started
    /\ \E kind \in codexScope.kinds :
          /\ app.turn # 0 \/ kind = "elicitation"
          /\ app' = [app EXCEPT !.asked = Append(@, kind), !.waits = @ \union {Len(app.asked) + 1}]
          /\ Say(<<[m |-> "request", id |-> Len(app.asked) + 1, kind |-> kind, turn |-> app.turn]>>)
    /\ UNCHANGED <<codex, codexOps, codexScope>>

\* It ends a turn, and drops the requests of the turn: an elicitation stays.
TurnWaits == {id \in app.waits : app.asked[id] # "elicitation"}
AppCompletes ==
    /\ Roomy /\ app.turn # 0
    /\ \E status \in {"completed", "failed"} \union (IF app.stopping THEN {"interrupted"} ELSE {}) :
       \E error \in {"none"} \union (IF status = "failed" THEN codexScope.errors ELSE {}) :
          Say([n \in 1 .. Cardinality(TurnWaits) |-> [m |-> "serverRequest/resolved", id |-> SetToSeq(TurnWaits)[n]]]
              \o <<[m |-> "turn/completed", turn |-> app.turn, status |-> status, error |-> error]>>)
    /\ app' = [app EXCEPT !.turn = 0, !.waits = @ \ TurnWaits]
    /\ UNCHANGED <<codex, codexOps, codexScope>>

AppDies ==
    /\ codexScope.dies /\ ~app.dead
    /\ app' = [app EXCEPT !.dead = TRUE]
    /\ UNCHANGED <<codex, codexOps, codexWire, codexScope>>

-----------------------------------------------------------------------------
ThreadSettings == [mode |-> "bypass", model |-> "m1", effort |-> "e1"]

CodexInit ==
    /\ codexScope \in CodexScopes
    /\ codex = [started |-> codexScope.start = "open", thread |-> codexScope.start = "open", exited |-> FALSE, closing |-> FALSE,
                activeTurn |-> 0, interrupting |-> {}, requests |-> {}, settings |-> ThreadSettings, pending |-> NoSettings,
                plan |-> codexScope.plan, collab |-> IF codexScope.plan THEN "plan" ELSE "", collabStale |-> FALSE,
                planWait |-> 0, turn |-> NoTurn, ended |-> <<>>, interrupt |-> "off", view |-> Blank(CodexKeys),
                async |-> {}, told |-> [active |-> FALSE, unconfirmed |-> FALSE, open |-> {}, spent |-> {}],
                nextID |-> 1, changes |-> 0, lates |-> 0,
                left |-> {}, unsure |-> FALSE, raced |-> FALSE, stranded |-> {}, heard |-> NothingHeard]
    /\ app = [dead |-> FALSE, turn |-> 0, last |-> 0, own |-> 0, settings |-> ThreadSettings,
              collab |-> IF codexScope.plan THEN "plan" ELSE "", collabOf |-> ThreadSettings,
              items |-> [i \in CodexItems |-> "none"], stopping |-> FALSE, steered |-> FALSE, deltas |-> 0,
              asked |-> <<>>, waits |-> {}, owed |-> {}]
    /\ codexOps = [slot \in Slots |-> NoOp]
    /\ codexWire = [in |-> <<>>, out |-> <<>>]

CodexNext ==
    \/ CodexStart \/ CodexStartReturns \/ CodexStartTurn \/ CodexCompact \/ CodexSteer \/ CodexInterrupt
    \/ CodexCancelPlan \/ CodexNoActiveTurn \/ CodexRespond \/ CodexAnswerPlan \/ CodexApplySettings
    \/ CodexWrites \/ CodexWritesAsync \/ CodexGivesUp \/ CodexReturns \/ CodexRunsPosted
    \/ CodexReadsResponse \/ CodexReadsLine \/ CodexElapses \/ CodexWakes \/ CodexEndsTurnHere
    \/ CodexOutputEnds \/ CodexDown \/ CodexClose \/ CodexStops
    \/ AppTakes \/ AppAnswers \/ AppStartsTurn \/ AppItem \/ AppTodo \/ AppErrs \/ AppAsks \/ AppCompletes \/ AppDies

CodexSpec == CodexInit /\ [][CodexNext]_codexVars

-----------------------------------------------------------------------------
\* The chat is complete once a turn ended, whether app-server, an interrupt it
\* did not confirm or its death ended it: the last state of every message was
\* sent, none is held back by the throttle, and no tool call is left running
\* (completeTurn, exited).
CodexChatIsComplete ==
    codex.turn.id = 0 => Final(codex.view) /\ codex.left = {}

\* The errors of a turn are told once it ended: the one app-server reported
\* last, whether the turn failed of it or went on, and a missing login once,
\* however often app-server says so (completeTurn, turnResult, reportLogin).
\* When app-server dies the conversation tells of its exit instead.
CodexErrorsAreTold ==
    (codex.turn.id = 0 /\ ~codex.exited) =>
        /\ codex.heard.last \in codex.heard.told
        /\ codex.heard.logins = IF codex.heard.auth THEN 1 ELSE 0

Settled ==
    /\ codexWire.in = <<>> /\ codexWire.out = <<>> /\ app.owed = {} /\ codex.async = {}
    /\ \A slot \in Slots : Free(slot)

\* Once nothing is under way, the adapter's turn is one app-server works on, a
\* turn app-server works on is the adapter's or one it stopped waiting for, and
\* the conversation is busy only with a turn, a plan to decide on or a message
\* nobody knows the fate of: no response or notification in another order, nor
\* one that comes late, leaves it busy for good (beginTurn, turnCompleted).
CodexTurnsAgree ==
    (Settled /\ ~app.dead) =>
        /\ codex.activeTurn # 0 => codex.activeTurn = app.turn
        /\ app.turn # 0 => codex.activeTurn = app.turn \/ app.turn \in Range(codex.ended)
        /\ codex.told.active => codex.activeTurn # 0 \/ codex.planWait # 0 \/ codex.told.unconfirmed

\* A request app-server still waits on can be answered, or an answer is on its
\* way: none is forgotten at the end of a turn (closeTurnRequests), but one
\* whose answer was given up before it was written, and a question, which
\* app-server drops with its turn.
CodexNoneStranded ==
    ~codex.exited /\ ~app.dead =>
        \A id \in app.waits \ codex.stranded :
            \/ app.asked[id] = "question"
            \/ \E r \in codex.requests : r.id = id
            \/ \E w \in codex.async : w.id = id
            \/ \E slot \in Slots : codexOps[slot].op = "respond" /\ codexOps[slot].request = id
            \/ \E n \in 1 .. Len(codexWire.in) : codexWire.in[n].m = "answer" /\ codexWire.in[n].id = id
            \/ \E n \in 1 .. Len(codexWire.out) : codexWire.out[n].m = "request" /\ codexWire.out[n].id = id

\* What GET /settings shows is what the next turn would run with: the changes
\* a turn/start took and did not bring to app-server come back, changes made
\* meanwhile win, and the collaboration mode, whose model and effort win over
\* the turn's, is sent again when they changed (takeChanges, commitChanges,
\* restoreChanges).  After a turn/start nobody knows the fate of, and after a
\* change while an approved plan's turn starts, the two may differ.
CodexSettingsApply ==
    (/\ codex.started /\ ~codex.unsure /\ ~codex.raced
     /\ \A slot \in Slots : codexOps[slot].op \notin {"startTurn", "implement", "revise"}) =>
        LET next == WithParams(app, TurnStartParams(codex, TakenChanges(codex, "")))
        IN  /\ next.settings.mode = codex.settings.mode
            /\ Effective(next).mode = CodexSettings(codex).mode
            /\ Effective(next).model = codex.settings.model
            /\ codex.settings.effort # "" => Effective(next).effort = codex.settings.effort
=============================================================================
