------------------------------- MODULE Claude -------------------------------
(***************************************************************************)
(* The Claude Code adapter (lib/native/claude): the frames AgentAPI writes  *)
(* to the CLI, the read loop and its stream parser, and what the            *)
(* conversation is told.                                                    *)
(*                                                                         *)
(* `claude' is the adapter with its parser; the functions on it are the     *)
(* loop's handlers.  `claudeOps' are the calls under way, between whose     *)
(* steps the adapter's lock is free.  `claudeWire' are the two pipes, and   *)
(* `cli' is Claude Code, external: it takes messages into a running turn or *)
(* starts one, starts turns by itself, may hang after an interrupt, or die. *)
(* An older CLI does not report its session's state: each result ends a     *)
(* turn.  Titles, token counts and the context's size are left out.         *)
(***************************************************************************)
EXTENDS AgentIO

CONSTANT ClaudeScopes   \* what happens in a behaviour: records of bounds

VARIABLES claude, cli, claudeOps, claudeWire, claudeScope

claudeVars == <<claude, cli, claudeOps, claudeWire, claudeScope>>

-----------------------------------------------------------------------------
(* The stream parser.  A message has one block, which streams until its      *)
(* assistant frame comes.  A tool's result has a status of its own.          *)

ClaudeMessages == {"m1", "m2"}
FreshParser == [view |-> Blank(ClaudeMessages), block |-> [k \in ClaudeMessages |-> "none"], begun |-> {}]

\* streamEvent: message_start, content_block_start and _delta, message_delta.
StreamEvent(p, f) ==
    CASE f.e = "message_start" -> [p EXCEPT !.begun = @ \union {f.k}]
      [] f.k \notin p.begun -> p
      [] f.e = "block_start" /\ p.block[f.k] # "final" ->
            [p EXCEPT !.block[f.k] = "live", !.view = Changed(Grow(@, f.k), f.k)]
      [] f.e = "delta" /\ p.block[f.k] = "live" -> [p EXCEPT !.view = Changed(Grow(@, f.k), f.k)]
      [] f.e = "message_delta" /\ p.view.shown[f.k] > 0 -> [p EXCEPT !.view = Emit(Grow(@, f.k), f.k)]
      [] OTHER -> p

\* assistant: the block is complete.
AssistantBlock(p, k) ==
    [p EXCEPT !.begun = @ \union {k}, !.block[k] = "final", !.view = Emit(Grow(@, k), k)]

\* patchToolInput: a plan comes with the request to approve it.
PatchToolInput(p, k) ==
    IF p.block[k] = "final" THEN [p EXCEPT !.view = Emit(Grow(@, k), k)] ELSE p

\* endTurn: what was held back, or never sent.
Unsent(p) == {k \in p.begun : p.view.content[k] > 0 /\ (k \in p.view.throttle.held \/ p.view.shown[k] = 0)}
LastSnapshots(p) ==
    [p EXCEPT !.view.shown = [k \in ClaudeMessages |-> IF k \in Unsent(p) THEN p.view.content[k] ELSE @[k]]]

\* As ParserEndTurn, but sends only the messages never sent.
ParserEndsUnheld(s) ==
    [s EXCEPT !.parser = FreshParser,
              !.lost = {k \in s.parser.begun : s.parser.view.shown[k] # s.parser.view.content[k]},
              !.result = IF s.background THEN @ ELSE "none"]

\* `lost' are the messages that were forgotten with a change not sent.
ParserEndTurn(s) ==
    [s EXCEPT !.parser = FreshParser,
              !.lost = {k \in s.parser.begun : LastSnapshots(s.parser).view.shown[k] # s.parser.view.content[k]},
              !.result = IF s.background THEN @ ELSE "none"]

\* userBlock and setResultStatus: the result of the tool call, which is
\* running while its task goes on in the background.
ToolResult(s) ==
    [s EXCEPT !.result = IF s.background THEN "running" ELSE "completed", !.shownResult = IF s.background THEN "running" ELSE "completed"]
SetResultStatus(s, status) ==
    IF s.result = "none" THEN s ELSE [s EXCEPT !.result = status, !.shownResult = status]
TaskStarted(s) == SetResultStatus([s EXCEPT !.background = TRUE], "running")
TaskNotification(s, status) ==
    IF s.background THEN [SetResultStatus([s EXCEPT !.background = FALSE], status) EXCEPT !.result = "none"] ELSE s

-----------------------------------------------------------------------------
(* Turns.  `heard' counts the failures the CLI reported and those told.      *)

NoClaudeTurn == [phase |-> "idle", interrupted |-> FALSE, authFailed |-> FALSE, result |-> "none", failed |-> FALSE]

\* turnActivity.
TurnActivity(s) ==
    [s EXCEPT !.turn.phase = "running",
              !.told = IF s.turn.phase # "running" THEN [@ EXCEPT !.active = TRUE, !.unconfirmed = FALSE] ELSE @]

\* endTurn.
ClaudeEndTurn(s) ==
    [s EXCEPT !.deadline = FALSE, !.turn = NoClaudeTurn, !.requests = {},
              !.heard.told = IF s.turn.failed THEN @ + 1 ELSE @,
              !.told = IF s.turn.phase # "idle" THEN [active |-> FALSE, unconfirmed |-> FALSE, open |-> {}, spent |-> {}, stop |-> s.turn.result] ELSE @]

\* turnResult, and what handleResult makes of a failure.
ClaudeFails == {"execution", "limit", "auth", "transient", "error"}
Classified(s, v) ==
    CASE v = "aborted" -> "interrupted"
      [] v \in {"end_turn", "max_tokens"} -> v
      [] v = "execution" /\ s.turn.interrupted -> "interrupted"
      [] s.rejected # {} \/ v = "limit" -> "limited"
      [] v = "transient" /\ ~s.turn.authFailed -> "transient"
      [] OTHER -> "error"
Failure(s, v) == Classified(s, v) \in {"limited", "transient", "error"}

\* A result outside a turn ends nothing; an earlier failure is shown now.
ClaudeTakeResult(s, v) ==
    IF s.turn.phase = "idle"
    THEN [s EXCEPT !.heard.told = IF Failure(s, v) THEN @ + 1 ELSE @]
    ELSE [s EXCEPT !.turn.result = Classified(s, v), !.turn.failed = Failure(s, v),
                   !.heard.told = IF s.turn.failed THEN @ + 1 ELSE @]
HearResult(s, v) ==
    [s EXCEPT !.heard.failed = IF Failure(s, v) THEN @ + 1 ELSE @,
              !.heard.login = @ \/ (Failure(s, v) /\ (s.turn.authFailed \/ v = "auth"))]
HandleResult(s, v) ==
    IF s.sessionStates
    THEN ClaudeTakeResult(HearResult(ParserEndTurn(s), v), v)
    ELSE ClaudeEndTurn(ClaudeTakeResult(HearResult(ParserEndTurn(s), v), v))

\* handleRateLimit: an event with the windows replaces what was known.
HandleRateLimit(s, f) ==
    [s EXCEPT !.rejected = ((IF f.unified THEN {} ELSE @) \ {f.window}) \union (IF f.status = "rejected" THEN {f.window} ELSE {})]

-----------------------------------------------------------------------------
(* Requests and settings.                                                    *)

ClaudeAsks == {"approval", "question", "plan", "unknown"}
ClaudeAnswers(kind) ==
    CASE kind = "approval" -> {"allow", "deny"} [] kind = "question" -> {"answers"} [] OTHER -> {"acceptEdits", "deny"}

\* handleControlRequest.
HandleControlRequest(s, f) ==
    IF f.kind = "unknown"
    THEN [s EXCEPT !.refusals = @ \union {f.id}]
    ELSE [s EXCEPT !.requests = @ \union {[id |-> f.id, kind |-> f.kind, answering |-> FALSE]},
                   !.told.open = @ \union {f.id},
                   !.parser = IF f.kind = "plan" THEN PatchToolInput(@, "m1") ELSE @]
HandleCancel(s, id) ==
    IF \E r \in s.requests : r.id = id
    THEN [s EXCEPT !.requests = {r \in @ : r.id # id}, !.told.open = @ \ {id}]
    ELSE s

\* modeChanged and modelRan, reported to the conversation.
ModeChanged(s, mode) == [s EXCEPT !.settings.mode = mode]
HandleInit(s, f) ==
    [TurnActivity(s) EXCEPT !.settings.mode = f.settings.mode, !.settings.model = f.settings.model, !.ref = f.session]

\* handleLine, but for the answers to control requests.
ClaudeHandles(s, f) ==
    CASE f.m = "stream_event" -> [s EXCEPT !.parser = StreamEvent(@, f)]
      [] f.m = "assistant" -> [TurnActivity(s) EXCEPT !.parser = AssistantBlock(@, f.k), !.turn.authFailed = @ \/ f.auth]
      [] f.m = "user" -> ToolResult(s)
      [] f.m = "task_started" -> TaskStarted(s)
      [] f.m = "task_notification" -> TaskNotification(s, f.status)
      [] f.m = "init" -> HandleInit(s, f)
      [] f.m = "running" -> TurnActivity([s EXCEPT !.sessionStates = TRUE])
      [] f.m = "idle" -> ClaudeEndTurn([s EXCEPT !.sessionStates = TRUE])
      [] f.m = "status" -> ModeChanged(s, f.mode)
      [] f.m = "control_request" -> HandleControlRequest(s, f)
      [] f.m = "control_cancel_request" -> HandleCancel(s, f.id)
      [] f.m = "result" -> HandleResult(s, f.v)
      [] f.m = "rate_limit_event" -> HandleRateLimit(s, f)

-----------------------------------------------------------------------------
(* Calls: a write, for a control request a wait, and the return.             *)

ClaudeSlots == {"start", "turn", "control", "answer", "settings", "close"}
NoCall == [op |-> "none", step |-> "idle"]
ClaudeIdle(slot) == claudeOps[slot] = NoCall
ClaudeOp(op) == [op |-> op, step |-> "write", id |-> claude.nextID, request |-> 0, answer |-> "", change |-> cli.settings, result |-> "none", mode |-> ""]
Put1(slot, o) == claudeOps' = [claudeOps EXCEPT ![slot] = o]
ClaudeNextID(s) == [s EXCEPT !.nextID = @ + 1]
ClaudeUp == claude.started /\ ~claude.closing /\ ~claude.exited
MayCall == ClaudeUp /\ claude.nextID <= claudeScope.calls

\* StartTurn, which the conversation calls while it has no turn; with a turn
\* of the CLI's it is refused at once (ErrTurnActive).
ClaudeStartTurn ==
    /\ MayCall /\ ClaudeIdle("turn") /\ ~claude.told.active /\ claude.turn.phase = "idle"
    /\ claude' = [ClaudeNextID(claude) EXCEPT !.turn.phase = "sent", !.turn.interrupted = FALSE, !.told.active = TRUE]
    /\ Put1("turn", ClaudeOp("startTurn"))
    /\ UNCHANGED <<cli, claudeWire, claudeScope>>

ClaudeSteer ==
    /\ MayCall /\ ClaudeIdle("turn") /\ claude.told.active /\ claude.turn.phase # "idle"
    /\ claude' = ClaudeNextID(claude)
    /\ Put1("turn", ClaudeOp("steer"))
    /\ UNCHANGED <<cli, claudeWire, claudeScope>>

ClaudeInterrupt ==
    /\ MayCall /\ ClaudeIdle("control") /\ claude.told.active /\ claude.turn.phase # "idle"
    /\ claude' = [ClaudeNextID(claude) EXCEPT !.turn.interrupted = TRUE]
    /\ Put1("control", ClaudeOp("interrupt"))
    /\ UNCHANGED <<cli, claudeWire, claudeScope>>

ClaudeRespond ==
    /\ ClaudeUp /\ ClaudeIdle("answer")
    /\ \E r \in claude.requests : \E answer \in ClaudeAnswers(r.kind) :
          /\ ~r.answering /\ r.id \in claude.told.open \ claude.told.spent
          /\ claude' = [claude EXCEPT !.requests = (@ \ {r}) \union {[r EXCEPT !.answering = TRUE]}]
          /\ Put1("answer", [ClaudeOp("respond") EXCEPT !.request = r.id, !.answer = answer])
    /\ UNCHANGED <<cli, claudeWire, claudeScope>>

\* ApplySettings: the model, then the mode, each if it is another one.
NextSetting(o, s) ==
    IF o.op = "apply" /\ o.change.model # s.model THEN "set_model"
    ELSE IF o.op \in {"apply", "set_model"} /\ o.change.mode # s.mode THEN "set_permission_mode" ELSE "none"
ClaudeApplySettings ==
    /\ MayCall /\ ClaudeIdle("settings")
    /\ \E change \in claudeScope.settings :
          LET o == [ClaudeOp("apply") EXCEPT !.change = change]
          IN  /\ NextSetting(o, claude.settings) # "none"
              /\ Put1("settings", [o EXCEPT !.op = NextSetting(o, claude.settings)])
    /\ claude' = [ClaudeNextID(claude) EXCEPT !.before = claude.settings]
    /\ UNCHANGED <<cli, claudeWire, claudeScope>>

\* Start: only a clear "not logged in" stops it; then initialize and
\* get_settings, which an older CLI does not know.
ClaudeStart ==
    /\ ~claude.started /\ ~claude.closing /\ ~claude.exited /\ ClaudeIdle("start") /\ claude.nextID = 1
    /\ \E loggedIn \in BOOLEAN :
          IF loggedIn
          THEN Put1("start", ClaudeOp("initialize")) /\ claude' = ClaudeNextID(claude)
          ELSE UNCHANGED claudeOps /\ claude' = [ClaudeNextID(claude) EXCEPT !.heard.login = TRUE, !.closing = TRUE]
    /\ UNCHANGED <<cli, claudeWire, claudeScope>>

Frame(o) ==
    CASE o.op \in {"startTurn", "steer"} -> [m |-> "user"]
      [] o.op = "respond" -> [m |-> "answer", id |-> o.request, answer |-> o.answer]
      [] OTHER -> [m |-> o.op, id |-> o.id, change |-> o.change]
NoReply == {"startTurn", "steer", "respond"}

\* Writer.Write.  A write to a process that is gone fails.
ClaudeWrites ==
    /\ \E slot \in ClaudeSlots : \E end \in WriteEnds :
          /\ claudeOps[slot].step = "write"
          /\ end # "abandoned" => ~cli.dead
          /\ end # "written" => cli.dead \/ claude.lates < claudeScope.lates
          /\ claudeWire' = IF GoesOut(end) THEN [claudeWire EXCEPT !.in = Append(@, Frame(claudeOps[slot]))] ELSE claudeWire
          /\ claude' = IF end = "written" THEN claude ELSE [claude EXCEPT !.lates = @ + 1]
          /\ Put1(slot, IF end = "written" /\ claudeOps[slot].op \notin NoReply
                        THEN [claudeOps[slot] EXCEPT !.step = "await"]
                        ELSE [claudeOps[slot] EXCEPT !.step = "got", !.result = IF end = "written" THEN "ok" ELSE end])
    /\ UNCHANGED <<cli, claudeScope>>

\* refuse, without blocking the read loop.
ClaudeRefuses ==
    /\ ~cli.dead
    /\ \E id \in claude.refusals :
          /\ claude' = [claude EXCEPT !.refusals = @ \ {id}]
          /\ claudeWire' = [claudeWire EXCEPT !.in = Append(@, [m |-> "answer", id |-> id, answer |-> "error"])]
    /\ UNCHANGED <<cli, claudeOps, claudeScope>>

\* Calls.Await: the caller stops waiting.
ClaudeGivesUp ==
    /\ claude.lates < claudeScope.lates
    /\ \E slot \in ClaudeSlots \ {"close"} :
          /\ claudeOps[slot].step = "await"
          /\ Put1(slot, [claudeOps[slot] EXCEPT !.step = "got", !.result = "unconfirmed"])
    /\ claude' = [claude EXCEPT !.lates = @ + 1]
    /\ UNCHANGED <<cli, claudeWire, claudeScope>>

-----------------------------------------------------------------------------
(* The read loop, one frame after the other.                                 *)

ClaudeFrame == Head(claudeWire.out)
FrameRead == claudeWire' = [claudeWire EXCEPT !.out = Tail(@)]

\* interruptAccepted: the turn may have ended before the answer came.
InterruptAccepted(s, f, o) ==
    IF o.op = "interrupt" /\ f.ok /\ s.turn.interrupted THEN [s EXCEPT !.deadline = TRUE] ELSE s

ClaudeReadsResponse ==
    /\ claudeWire.out # <<>> /\ ClaudeFrame.m = "control_response" /\ FrameRead
    /\ IF \E slot \in ClaudeSlots : claudeOps[slot].step = "await" /\ claudeOps[slot].id = ClaudeFrame.id
       THEN \E slot \in ClaudeSlots :
              /\ claudeOps[slot].step = "await" /\ claudeOps[slot].id = ClaudeFrame.id
              /\ claude' = InterruptAccepted(claude, ClaudeFrame, claudeOps[slot])
              /\ Put1(slot, [claudeOps[slot] EXCEPT !.step = "got", !.mode = ClaudeFrame.mode,
                                                    !.result = IF ClaudeFrame.ok THEN "ok" ELSE "error"])
       ELSE UNCHANGED <<claude, claudeOps>>
    /\ UNCHANGED <<cli, claudeScope>>

ClaudeReadsFrame ==
    /\ claudeWire.out # <<>> /\ ClaudeFrame.m # "control_response" /\ FrameRead
    /\ claude' = [ClaudeHandles(claude, ClaudeFrame) EXCEPT
                    !.raced = @ \/ (ClaudeFrame.m = "status" /\ claudeOps["settings"].step = "got")]
    /\ UNCHANGED <<cli, claudeOps, claudeScope>>

ClaudeElapses ==
    /\ \E k \in claude.parser.view.throttle.recent : claude' = [claude EXCEPT !.parser.view = Elapse(@, k)]
    /\ UNCHANGED <<cli, claudeOps, claudeWire, claudeScope>>
\* wake, and the reset of a usage limit.
ClaudeWakes ==
    /\ ~claude.exited /\ Due(claude.parser.view, FALSE) # {}
    /\ claude' = [claude EXCEPT !.parser.view = Flush(@, FALSE)]
    /\ UNCHANGED <<cli, claudeOps, claudeWire, claudeScope>>
ClaudeEndsTurnHere ==
    /\ ~claude.exited /\ claude.deadline
    /\ claude' = [ClaudeEndTurn(ParserEndTurn(claude)) EXCEPT
                    !.endedHere = TRUE, !.stranded = @ \union {r.id : r \in claude.requests}]
    /\ UNCHANGED <<cli, claudeOps, claudeWire, claudeScope>>
ClaudeLimitResets ==
    /\ \E w \in claude.rejected : claude' = [claude EXCEPT !.rejected = @ \ {w}]
    /\ UNCHANGED <<cli, claudeOps, claudeWire, claudeScope>>

\* outputClosed, after which the conversation ends the turn.
ClaudeOutputCloses ==
    /\ cli.dead /\ claudeWire.out = <<>> /\ ~claude.exited
    /\ claude' = [claude EXCEPT !.exited = TRUE, !.parser.view = Flush(@, TRUE), !.requests = {},
                                !.told.active = FALSE, !.told.unconfirmed = FALSE, !.told.open = {}, !.told.spent = {}]
    /\ claudeOps' = [slot \in ClaudeSlots |-> IF claudeOps[slot].step = "await"
                                              THEN [claudeOps[slot] EXCEPT !.step = "got", !.result = "unconfirmed"]
                                              ELSE claudeOps[slot]]
    /\ UNCHANGED <<cli, claudeWire, claudeScope>>

-----------------------------------------------------------------------------
(* What a caller does with the outcome.                                      *)

\* The message may yet reach the CLI: its turn stays.
StartTurnEnds(s, o) ==
    CASE o.result = "ok" -> s
      [] o.result = "unconfirmed" -> [s EXCEPT !.told.unconfirmed = s.told.active]
      [] OTHER -> [s EXCEPT !.turn = NoClaudeTurn, !.told.active = FALSE, !.refused = TRUE]

\* An unconfirmed answer may yet reach the CLI: the request takes no other.
RespondEnds(s, o) ==
    CASE o.result = "ok" -> [s EXCEPT !.requests = {r \in @ : r.id # o.request}, !.told.open = @ \ {o.request}]
      [] o.result = "unconfirmed" -> [s EXCEPT !.told.spent = @ \union {o.request}]
      [] OTHER -> [s EXCEPT !.requests = {IF r.id = o.request THEN [r EXCEPT !.answering = FALSE] ELSE r : r \in @}]

InterruptEnds(s, o) == IF o.result = "ok" THEN s ELSE [s EXCEPT !.turn.interrupted = FALSE]

\* A mode the CLI refuses is answered without the mode it switched to.
SettingEnds(s, o) ==
    CASE o.result # "ok" -> [s EXCEPT !.unsure = @ \/ o.result = "unconfirmed"]
      [] o.op = "set_model" -> [s EXCEPT !.settings.model = o.change.model]
      [] o.mode = o.change.mode -> ModeChanged(s, o.mode)
      [] OTHER -> s

StartEnds(s, o) ==
    CASE o.op = "initialize" /\ o.result # "ok" -> [s EXCEPT !.closing = TRUE]
      [] o.op = "get_settings" -> [s EXCEPT !.started = ~s.closing, !.settings = IF o.result = "ok" THEN cli.settings ELSE [@ EXCEPT !.mode = cli.settings.mode]]
      [] OTHER -> ClaudeNextID(s)

ClaudeReturned(s, o) ==
    CASE o.op = "startTurn" -> StartTurnEnds(s, o)
      [] o.op = "respond" -> RespondEnds(s, o)
      [] o.op = "interrupt" -> InterruptEnds(s, o)
      [] o.op \in {"set_model", "set_permission_mode"} -> SettingEnds(s, o)
      [] o.op \in {"initialize", "get_settings"} -> StartEnds(s, o)
      [] OTHER -> s

\* The call that follows: the start's next request, the next setting.
Following(o) ==
    CASE o.op = "initialize" /\ o.result = "ok" -> ClaudeOp("get_settings")
      [] o.op = "set_model" /\ o.result = "ok" /\ NextSetting(o, claude.before) # "none" -> [o EXCEPT !.op = "set_permission_mode", !.step = "write", !.result = "none"]
      [] OTHER -> NoCall

ClaudeReturns ==
    /\ \E slot \in ClaudeSlots \ {"close"} :
          /\ claudeOps[slot].step = "got"
          /\ claude' = ClaudeReturned(claude, claudeOps[slot])
          /\ Put1(slot, Following(claudeOps[slot]))
    /\ UNCHANGED <<cli, claudeWire, claudeScope>>

\* Close: a running turn is interrupted first, then stdin closes.
ClaudeClose ==
    /\ claudeScope.close /\ ~claude.closing
    /\ IF claude.turn.phase # "idle"
       THEN Put1("close", ClaudeOp("interrupt")) /\ claude' = [ClaudeNextID(claude) EXCEPT !.closing = TRUE, !.turn.interrupted = TRUE]
       ELSE UNCHANGED claudeOps /\ claude' = [claude EXCEPT !.closing = TRUE]
    /\ UNCHANGED <<cli, claudeWire, claudeScope>>
ClaudeStops ==
    /\ claude.closing /\ ~cli.dead
    /\ cli' = [cli EXCEPT !.dead = TRUE]
    /\ UNCHANGED <<claude, claudeOps, claudeWire, claudeScope>>

-----------------------------------------------------------------------------
(* Claude Code.                                                              *)

CliSays(frames) == claudeWire' = [claudeWire EXCEPT !.out = @ \o frames]
CliRoomy == ~cli.dead /\ Len(claudeWire.out) < claudeScope.pipe
Response(id, ok, mode) == [m |-> "control_response", id |-> id, ok |-> ok, mode |-> mode]
Cancels == [n \in 1 .. Cardinality(cli.waits) |-> [m |-> "control_cancel_request", id |-> SetToSeq(cli.waits)[n]]]

\* It takes a frame: the CLI afterwards, and what it says.
CliTakesFrame(f) ==
    CASE f.m = "user" -> {<<IF cli.running THEN cli ELSE [cli EXCEPT !.prompts = @ + 1], <<>>>>}
      [] f.m = "interrupt" -> {<<IF cli.running THEN [cli EXCEPT !.stopping = TRUE, !.waits = {}] ELSE cli,
                                (IF cli.running THEN Cancels ELSE <<>>) \o <<Response(f.id, TRUE, "")>>>>}
      [] f.m = "answer" -> {IF f.id \in cli.waits /\ f.answer = "acceptEdits"
                            THEN <<[cli EXCEPT !.waits = @ \ {f.id}, !.settings.mode = "edits"], <<[m |-> "status", mode |-> "edits"]>>>>
                            ELSE <<[cli EXCEPT !.waits = @ \ {f.id}], <<>>>>}
      [] f.m = "set_model" -> {<<[cli EXCEPT !.settings.model = f.change.model], <<Response(f.id, TRUE, "")>>>>,
                               <<cli, <<Response(f.id, FALSE, "")>>>>}
      [] f.m = "set_permission_mode" -> {<<[cli EXCEPT !.settings.mode = f.change.mode],
                                           <<[m |-> "status", mode |-> f.change.mode], Response(f.id, TRUE, f.change.mode)>>>>,
                                         <<cli, <<Response(f.id, TRUE, cli.settings.mode)>>>>}
      [] OTHER -> {<<cli, <<Response(f.id, ok, "")>>>> : ok \in BOOLEAN}
CliTakes ==
    /\ CliRoomy /\ claudeWire.in # <<>>
    /\ \E r \in CliTakesFrame(Head(claudeWire.in)) :
          /\ cli' = r[1]
          /\ claudeWire' = [in |-> Tail(claudeWire.in), out |-> claudeWire.out \o r[2]]
    /\ UNCHANGED <<claude, claudeOps, claudeScope>>

\* A turn begins: with the prompts it took, or by itself; /clear starts a session.
CliBegins ==
    /\ CliRoomy /\ ~cli.running /\ claude.started
    /\ \E own \in BOOLEAN : \E clear \in {FALSE} \union (IF claudeScope.clears THEN {TRUE} ELSE {}) :
          /\ IF own THEN cli.prompts = 0 /\ cli.own < claudeScope.own ELSE cli.prompts > 0
          /\ cli' = [cli EXCEPT !.running = TRUE, !.prompts = 0, !.own = IF own THEN @ + 1 ELSE @, !.stopping = FALSE,
                                !.session = IF clear THEN 2 ELSE @, !.said = {}, !.results = 0]
          /\ CliSays((IF claudeScope.states THEN <<[m |-> "running"]>> ELSE <<>>)
                     \o <<[m |-> "init", session |-> IF clear THEN 2 ELSE cli.session, settings |-> cli.settings]>>)
    /\ UNCHANGED <<claude, claudeOps, claudeScope>>

CliStreams ==
    /\ CliRoomy /\ cli.running
    /\ \E k \in claudeScope.messages : \E e \in {"message_start", "block_start", "delta", "message_delta"} :
          /\ <<k, "done">> \notin cli.said /\ (e = "message_start" <=> <<k, "message_start">> \notin cli.said)
          /\ e = "delta" => cli.deltas < claudeScope.deltas
          /\ e \in {"block_start", "message_delta"} => <<k, e>> \notin cli.said
          /\ e = "delta" => <<k, "block_start">> \in cli.said
          /\ cli' = [cli EXCEPT !.said = @ \union {<<k, e>>}, !.deltas = IF e = "delta" THEN @ + 1 ELSE @]
          /\ CliSays(<<[m |-> "stream_event", k |-> k, e |-> e]>>)
    /\ UNCHANGED <<claude, claudeOps, claudeScope>>
CliSpeaks ==
    /\ CliRoomy /\ cli.running
    /\ \E k \in claudeScope.messages : \E auth \in {FALSE} \union (IF "auth" \in claudeScope.results THEN {TRUE} ELSE {}) :
          /\ <<k, "done">> \notin cli.said
          /\ cli' = [cli EXCEPT !.said = @ \union {<<k, "done">>}]
          /\ CliSays(<<[m |-> "assistant", k |-> k, auth |-> auth]>>)
    /\ UNCHANGED <<claude, claudeOps, claudeScope>>

\* A tool call's result and its task, in the background or not.
CliTool ==
    /\ CliRoomy /\ claudeScope.tool
    /\ \/ /\ cli.tool = "none" /\ cli.running
          /\ \E backgrounded \in BOOLEAN : cli' = [cli EXCEPT !.tool = IF backgrounded THEN "task" ELSE "call"]
                                          /\ IF backgrounded THEN CliSays(<<[m |-> "task_started"]>>) ELSE UNCHANGED claudeWire
       \/ /\ cli.tool \in {"task", "call"} /\ cli.running
          /\ cli' = [cli EXCEPT !.tool = IF @ = "task" THEN "background" ELSE "done"]
          /\ CliSays(<<[m |-> "user"]>>)
       \/ /\ cli.tool \in {"task", "background"}
          /\ cli' = [cli EXCEPT !.tool = IF @ = "task" THEN "call" ELSE "done"]
          /\ \E status \in {"completed", "failed"} : CliSays(<<[m |-> "task_notification", status |-> status]>>)
    /\ UNCHANGED <<claude, claudeOps, claudeScope>>

CliAsks ==
    /\ CliRoomy /\ cli.running /\ ~cli.stopping /\ cli.asked < claudeScope.asks
    /\ \E kind \in claudeScope.kinds : CliSays(<<[m |-> "control_request", id |-> cli.asked + 1, kind |-> kind]>>)
    /\ cli' = [cli EXCEPT !.asked = @ + 1, !.waits = @ \union {cli.asked + 1}]
    /\ UNCHANGED <<claude, claudeOps, claudeScope>>

CliSwitches ==
    /\ CliRoomy /\ claudeScope.switches /\ cli.settings.mode # "edits"
    /\ cli' = [cli EXCEPT !.settings.mode = "edits"]
    /\ CliSays(<<[m |-> "status", mode |-> "edits"]>>)
    /\ UNCHANGED <<claude, claudeOps, claudeScope>>
CliLimits ==
    /\ CliRoomy /\ cli.running /\ cli.deltas < claudeScope.deltas
    /\ \E w \in claudeScope.windows : \E status \in {"allowed", "rejected"} : \E unified \in BOOLEAN :
          CliSays(<<[m |-> "rate_limit_event", window |-> w, status |-> status, unified |-> unified]>>)
    /\ cli' = [cli EXCEPT !.deltas = @ + 1]
    /\ UNCHANGED <<claude, claudeOps, claudeScope>>

\* Results; with session states a turn may have several, and idle ends it.
CliResults ==
    /\ CliRoomy /\ cli.running /\ cli.results < (IF claudeScope.states THEN 2 ELSE 1)
    /\ \E v \in claudeScope.results \union (IF cli.stopping THEN {"aborted", "execution"} ELSE {}) :
          CliSays((IF claudeScope.states THEN <<>> ELSE Cancels) \o <<[m |-> "result", v |-> v]>>)
    /\ cli' = [cli EXCEPT !.results = @ + 1, !.running = claudeScope.states, !.waits = IF claudeScope.states THEN @ ELSE {}]
    /\ UNCHANGED <<claude, claudeOps, claudeScope>>
CliIdles ==
    /\ CliRoomy /\ cli.running /\ claudeScope.states /\ cli.results > 0
    /\ cli' = [cli EXCEPT !.running = FALSE, !.waits = {}]
    /\ CliSays(Cancels \o <<[m |-> "idle"]>>)
    /\ UNCHANGED <<claude, claudeOps, claudeScope>>

CliDies ==
    /\ claudeScope.dies /\ ~cli.dead
    /\ cli' = [cli EXCEPT !.dead = TRUE]
    /\ UNCHANGED <<claude, claudeOps, claudeWire, claudeScope>>

-----------------------------------------------------------------------------
FirstSettings == [mode |-> "ask", model |-> "m1"]

ClaudeInit ==
    /\ claudeScope \in ClaudeScopes
    /\ claude = [started |-> claudeScope.open, exited |-> FALSE, closing |-> FALSE, turn |-> NoClaudeTurn, sessionStates |-> FALSE,
                 deadline |-> FALSE, requests |-> {}, refusals |-> {}, settings |-> FirstSettings, before |-> FirstSettings,
                 parser |-> FreshParser, background |-> FALSE, result |-> "none", shownResult |-> "none", rejected |-> {}, ref |-> 0,
                 told |-> [active |-> FALSE, unconfirmed |-> FALSE, open |-> {}, spent |-> {}, stop |-> "none"],
                 nextID |-> 1, lates |-> 0, heard |-> [failed |-> 0, told |-> 0, login |-> FALSE],
                 lost |-> {}, endedHere |-> FALSE, stranded |-> {}, refused |-> FALSE, unsure |-> FALSE, raced |-> FALSE]
    /\ cli = [dead |-> FALSE, running |-> FALSE, prompts |-> 0, own |-> 0, stopping |-> FALSE, session |-> 1, said |-> {}, results |-> 0,
              deltas |-> 0, tool |-> "none", asked |-> 0, waits |-> {}, settings |-> FirstSettings]
    /\ claudeOps = [slot \in ClaudeSlots |-> NoCall]
    /\ claudeWire = [in |-> <<>>, out |-> <<>>]

ClaudeNext ==
    \/ ClaudeStart \/ ClaudeStartTurn \/ ClaudeSteer \/ ClaudeInterrupt \/ ClaudeRespond \/ ClaudeApplySettings
    \/ ClaudeWrites \/ ClaudeRefuses \/ ClaudeGivesUp \/ ClaudeReadsResponse \/ ClaudeReadsFrame \/ ClaudeElapses \/ ClaudeWakes
    \/ ClaudeEndsTurnHere \/ ClaudeLimitResets \/ ClaudeOutputCloses \/ ClaudeReturns \/ ClaudeClose \/ ClaudeStops
    \/ CliTakes \/ CliBegins \/ CliStreams \/ CliSpeaks \/ CliTool \/ CliAsks \/ CliSwitches \/ CliLimits \/ CliResults \/ CliIdles \/ CliDies

ClaudeSpec == ClaudeInit /\ [][ClaudeNext]_claudeVars

-----------------------------------------------------------------------------
ClaudeSettled ==
    /\ claudeWire.in = <<>> /\ claudeWire.out = <<>> /\ claude.refusals = {}
    /\ \A slot \in ClaudeSlots : claudeOps[slot].step \notin {"write", "got"}
ClaudeQuiet == ClaudeSettled /\ ~cli.dead /\ ~claude.closing

\* The chat is complete once a turn ended: no message is forgotten with a
\* change the throttle held back, and a tool's result runs no longer than the
\* task it started in the background, whose end may come before the result
\* or turns later (streamParser.endTurn, taskNotification).
ClaudeChatIsComplete ==
    /\ claude.lost = {}
    /\ claude.exited => claude.parser.view.throttle.held = {}
    /\ (ClaudeQuiet /\ claude.shownResult = "running") => cli.tool = "background"

\* Every failure Claude Code reports is told once, as the turn's error or
\* beside it, whatever results follow it in the turn (handleResult, endTurn).
\* A turn taken back in the moment the CLI failed takes its result along.
ClaudeErrorsAreTold ==
    (claude.turn.phase = "idle" /\ ~claude.exited /\ ~claude.refused) => claude.heard.failed = claude.heard.told

\* Once nothing is under way, the adapter has a turn only if Claude Code works
\* or a message may not have reached it, and Claude Code's turn is the
\* adapter's unless it was ended or taken back here: late ends of a turn that
\* was ended here, messages into a turn that ends and turns it starts by
\* itself leave neither behind.  The conversation is busy just as long.
ClaudeTurnsAgree ==
    ClaudeQuiet =>
        /\ claude.turn.phase # "idle" => cli.running \/ cli.prompts > 0 \/ claude.told.unconfirmed
        /\ cli.running => claude.turn.phase # "idle" \/ claude.endedHere \/ claude.refused
        /\ claude.told.active <=> claude.turn.phase # "idle"

\* A request Claude Code waits on can be answered, or its answer is on its
\* way, unless the adapter ended its turn after an interrupt the CLI did not
\* heed; one the conversation shows as open is, but for such a turn, one the
\* adapter takes an answer to; and the session reported is the one Claude Code is in.
ClaudeNoneStranded ==
    ~claude.exited /\ ~cli.dead =>
        /\ \A id \in cli.waits \ claude.stranded :
            \/ \E r \in claude.requests : r.id = id
            \/ id \in claude.refusals
            \/ claudeOps["answer"] # NoCall /\ claudeOps["answer"].request = id
            \/ \E n \in 1 .. Len(claudeWire.in) : claudeWire.in[n].m = "answer" /\ claudeWire.in[n].id = id
            \/ \E n \in 1 .. Len(claudeWire.out) : claudeWire.out[n].m = "control_request" /\ claudeWire.out[n].id = id
        /\ ~claude.endedHere => \A id \in claude.told.open : (\E r \in claude.requests : r.id = id) \/ (claudeOps["answer"] # NoCall /\ claudeOps["answer"].request = id)
        /\ ClaudeQuiet /\ cli.running => claude.ref = cli.session

\* The settings shown are those Claude Code works with, also after switches of
\* its own and an approved plan, but after a change nobody knows the fate of,
\* or a switch of its own between its answer to a change and the change's end.
ClaudeSettingsAgree ==
    (ClaudeQuiet /\ claude.started /\ ~claude.unsure /\ ~claude.raced /\ ClaudeIdle("settings")) => claude.settings = cli.settings
=============================================================================
