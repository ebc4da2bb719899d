--------------------------------- MODULE Pi ---------------------------------
(***************************************************************************)
(* The pi adapter (lib/native/pi): commands and their responses by id, the  *)
(* event loop over pi's records, the dialogs of pi's extensions, and what   *)
(* the conversation is told.                                                *)
(*                                                                         *)
(* A turn and a run of pi are not the same: an extension command is a turn  *)
(* that may have no run, and a run outlives a turn the adapter ended.  A    *)
(* prompt is accepted by its response, or before it by what it started.     *)
(*                                                                         *)
(* `pi' is the adapter, `piOps' the calls under way, `piWire' the pipes and *)
(* `piAgent' is pi, external.  Session names, token counts, images and the  *)
(* events of the timeline are left out.                                     *)
(***************************************************************************)
EXTENDS AgentIO

CONSTANT PiScopes   \* what happens in a behaviour: records of bounds

VARIABLES pi, piAgent, piOps, piWire, piScope

piVars == <<pi, piAgent, piOps, piWire, piScope>>

-----------------------------------------------------------------------------
(* Messages: the assistant's, which stream one at a time, and a tool result. *)

PiMessages == {"m1", "m2", "tool"}

\* emitFinal: the final state, and what waited is dropped.
EmitFinal(v, k) == [Forget(v, {k}) EXCEPT !.shown[k] = v.content[k]]

\* flushStream: a message whose end never came; one never shown has no content.
FlushStream(s) ==
    IF s.stream = "none" THEN s
    ELSE [s EXCEPT !.stream = "none", !.view = IF @.shown[s.stream] > 0 THEN EmitFinal(@, s.stream) ELSE @]

\* handleMessageEvent: an update outside a message is skipped.
MessageStart(s, k) == [s EXCEPT !.stream = k]
MessageUpdate(s, k) == IF s.stream = "none" THEN s ELSE [s EXCEPT !.view = Changed(Grow(@, s.stream), s.stream)]

\* handleMessageEnd: the outcome so far; a later message replaces a failure.
MessageEnd(s, f) ==
    [s EXCEPT !.stream = IF f.k = "tool" THEN @ ELSE "none", !.view = EmitFinal(Grow(@, f.k), f.k),
              !.reason = IF f.k = "tool" THEN @ ELSE f.reason,
              !.error = IF f.k = "tool" THEN @ ELSE f.error, !.ended = @ \union {f.k}]
ToolEvent(s) == [s EXCEPT !.view = Changed(Grow(@, "tool"), "tool")]

-----------------------------------------------------------------------------
(* Turns.                                                                    *)

IsCurrentTurn(s, turn) == s.turn /\ s.seq = turn

\* beginTurn.
BeginPiTurn(s) ==
    IF s.turn THEN s
    ELSE [s EXCEPT !.turn = TRUE, !.seq = @ + 1, !.reason = "none", !.error = "none", !.retriesFailed = FALSE, !.ran = FALSE,
                   !.turnDialogs = {}, !.told.active = TRUE, !.told.unconfirmed = FALSE]

\* cancelTurnDialogs: an answer on its way stands, and may have arrived if
\* its write was not confirmed; the rest is cancelled off the loop.
CancelTurnDialogs(s, withdraw) ==
    LET over == {d \in s.dialogs : d.id \in s.turnDialogs /\ (d.unconfirmed \/ ~d.answering)}
        cancel == {d.id : d \in {d \in over : ~d.unconfirmed}}
    IN  [s EXCEPT !.turnDialogs = {}, !.dialogs = @ \ over, !.cancels = @ \union cancel,
                  !.told.open = IF withdraw THEN @ \ cancel ELSE @]

PiErrors == {"auth", "limit", "transient", "other"}
PiStopReason(s) ==
    CASE s.interrupted \/ s.reason = "aborted" -> "interrupted"
      [] s.reason = "error" /\ s.error = "limit" -> "limited"
      [] s.reason = "error" /\ s.error # "auth" /\ (s.retriesFailed \/ s.error = "transient") -> "transient"
      [] s.reason = "error" -> "error"
      [] s.reason = "length" -> "max_tokens"
      [] ~s.ran -> "handled"
      [] OTHER -> "end_turn"

\* endTurn: the conversation expires every request that is open.
EndPiTurn(s) ==
    IF ~s.turn THEN s
    ELSE [CancelTurnDialogs(FlushStream([s EXCEPT !.turn = FALSE]), FALSE) EXCEPT
            !.interrupted = FALSE, !.deadline = FALSE, !.settle = FALSE, !.paused = FALSE,
            !.reason = "none", !.error = "none", !.retriesFailed = FALSE, !.login = @ \/ (PiStopReason(s) = "error" /\ s.error = "auth"),
            !.told = [@ EXCEPT !.active = FALSE, !.unconfirmed = FALSE, !.open = {}, !.spent = {}, !.stop = PiStopReason(s)]]

FailTurn(s, error) == EndPiTurn([BeginPiTurn(s) EXCEPT !.reason = "error", !.error = error])

\* acceptPrompt: the prompts waiting for their response belong to this turn.
AcceptPrompt(s) == [s EXCEPT !.cmds = {IF c.kind = "turn" THEN [c EXCEPT !.turn = s.seq] ELSE c : c \in @}]
Accepted(s) == {c.id : c \in {c \in s.cmds : c.kind = "turn"}}

HandleAgentStart(s) == AcceptPrompt([BeginPiTurn([s EXCEPT !.run = TRUE]) EXCEPT !.ran = TRUE])

HandleSettled(s) ==
    IF s.missed THEN [s EXCEPT !.missed = FALSE] ELSE EndPiTurn([s EXCEPT !.run = FALSE])

\* watchSettle, before the record itself is handled.
WatchSettle(s, f) ==
    CASE f.m = "agent_end" -> [s EXCEPT !.paused = FALSE, !.settle = ~f.willRetry]
      [] f.m = "agent_start" -> [s EXCEPT !.settle = FALSE, !.paused = FALSE, !.missed = FALSE]
      [] f.m = "agent_settled" -> [s EXCEPT !.settle = FALSE, !.paused = FALSE]
      [] f.m \in {"compaction_start", "auto_retry_start"} -> [s EXCEPT !.paused = TRUE]
      [] f.m \in {"compaction_end", "auto_retry_end"} -> [s EXCEPT !.paused = FALSE]
      [] OTHER -> s
MissingSettle(s) ==
    LET quiet == [s EXCEPT !.settle = FALSE, !.run = FALSE]
    IN  IF s.turn THEN EndPiTurn([quiet EXCEPT !.missed = TRUE]) ELSE quiet

\* handlePromptResponse: `deliver': the caller still waits and is told.
\* `revived': a message into a run begins a turn after the run's was ended and
\* nothing waits for its agent_settled.
PromptRefused(s, c, deliver, f) ==
    CASE deliver -> s
      [] c.turn = 0 /\ c.kind = "turn" /\ ~s.turn -> FailTurn(s, f.error)
      [] c.turn = 0 -> s
      [] IsCurrentTurn(s, c.turn) /\ ~s.run -> FailTurn(s, f.error)
      [] OTHER -> [s EXCEPT !.told.errors = @ + 1]
PromptHandled(s, c) ==
    CASE c.kind # "turn" \/ (c.turn # 0 /\ ~IsCurrentTurn(s, c.turn)) -> s
      [] s.run -> BeginPiTurn(s)
      [] OTHER -> EndPiTurn(BeginPiTurn(s))
HandlePromptResponse(s, c, deliver, f) ==
    CASE ~f.ok -> [PromptRefused(s, c, deliver, f) EXCEPT !.login = @ \/ f.error = "auth"]
      [] f.handled -> PromptHandled(s, c)
      [] OTHER -> [BeginPiTurn(s) EXCEPT !.revived = @ \/ (c.kind = "steer" /\ ~s.turn /\ ~s.settle)]

\* handleResponse, once the command was taken: an aborted command that waits
\* on a dialog ends with it.
PiResponse(s, c, deliver, f) ==
    CASE c.kind \in {"turn", "steer"} -> HandlePromptResponse(s, c, deliver, f)
      [] c.kind = "abort" /\ ~f.ok -> [s EXCEPT !.told.errors = @ + 1]
      [] c.kind = "abort" /\ s.turn /\ ~s.run -> CancelTurnDialogs(s, TRUE)
      [] OTHER -> s

-----------------------------------------------------------------------------
(* Dialogs, and the thinking level pi changes.                               *)

HasPendingTurn(s) == \E c \in s.cmds : c.kind = "turn"

\* openDialog.  `loose' are the dialogs that belong to no turn.
OpenDialog(s, f) ==
    LET began == IF s.turn \/ HasPendingTurn(s)
                 THEN [BeginPiTurn(s) EXCEPT !.turnDialogs = @ \union {f.id}]
                 ELSE [s EXCEPT !.loose = @ \union {f.id}]
    IN  AcceptPrompt([began EXCEPT !.dialogs = @ \union {[id |-> f.id, timed |-> f.timed, answering |-> FALSE, unconfirmed |-> FALSE]},
                                   !.told.open = @ \union {f.id}])

ExpireDialog(s, id) ==
    [s EXCEPT !.dialogs = {d \in @ : d.id # id}, !.told.open = @ \ {id}, !.expired = @ \union {id}]

\* handleThinkingLevel: reported, unless an ApplySettings is under way.
HandleThinkingLevel(s, level) ==
    IF s.settings.effort \in {"", level} THEN s
    ELSE [s EXCEPT !.settings.effort = level, !.told.settings = IF s.applying THEN @ ELSE [s.settings EXCEPT !.effort = level]]

PiHandles(s, f) ==
    CASE f.m = "agent_start" -> HandleAgentStart(s)
      [] f.m = "agent_settled" -> HandleSettled(s)
      [] f.m = "thinking_level_changed" -> HandleThinkingLevel(s, f.level)
      [] f.m = "message_start" -> MessageStart(s, f.k)
      [] f.m = "message_update" -> MessageUpdate(s, f.k)
      [] f.m = "message_end" -> MessageEnd(s, f)
      [] f.m \in {"tool_execution_update", "tool_execution_end"} -> ToolEvent(s)
      [] f.m = "extension_ui_request" -> OpenDialog(s, f)
      [] f.m = "auto_retry_end" /\ ~f.ok -> [s EXCEPT !.reason = "error", !.error = f.error, !.retriesFailed = f.error # "cancelled"]
      [] OTHER -> s

-----------------------------------------------------------------------------
(* Calls.  A step: register and write, wait, and go on with the outcome.     *)

PiSlots == {"start", "turn", "control", "answer", "settings", "compact", "close"}
NoPiCall == [op |-> "none", step |-> "idle"]
PiIdle(slot) == piOps[slot] = NoPiCall
PiUp == pi.started /\ ~pi.exited
MayAsk == PiUp /\ ~pi.closing /\ pi.nextID <= piScope.calls
PiKind(op) == IF op \in {"turn", "steer", "abort"} THEN op ELSE "query"
PiCall(op) == [op |-> op, step |-> "write", id |-> pi.nextID, turn |-> pi.seq, first |-> FALSE, request |-> 0,
               change |-> [model |-> "", effort |-> ""], accepted |-> FALSE, result |-> "none", data |-> [model |-> "", effort |-> ""]]
PutPi(slot, o) == piOps' = [piOps EXCEPT ![slot] = o]

\* register.
Register(s, op) == [s EXCEPT !.nextID = @ + 1, !.cmds = @ \union {[id |-> s.nextID, kind |-> PiKind(op), turn |-> 0]}]

\* StartTurn: refused here (ErrTurnActive) while pi has a turn or a run.
PiStartTurn ==
    /\ MayAsk /\ piScope.prompts /\ PiIdle("turn") /\ PiIdle("compact") /\ ~pi.told.active /\ ~pi.turn /\ ~pi.run
    /\ pi' = [Register(pi, "turn") EXCEPT !.told.active = TRUE]
    /\ PutPi("turn", PiCall("turn"))
    /\ UNCHANGED <<piAgent, piWire, piScope>>

PiSteer ==
    /\ MayAsk /\ PiIdle("turn") /\ pi.told.active
    /\ pi' = Register(pi, "steer")
    /\ PutPi("turn", PiCall("steer"))
    /\ UNCHANGED <<piAgent, piWire, piScope>>

PiInterrupt ==
    /\ MayAsk /\ PiIdle("control") /\ pi.told.active /\ pi.turn
    /\ pi' = [Register(pi, "abort") EXCEPT !.interrupted = TRUE]
    /\ PutPi("control", [PiCall("abort") EXCEPT !.first = ~pi.interrupted])
    /\ UNCHANGED <<piAgent, piWire, piScope>>

\* ErrNoActiveTurn: the conversation ends a turn whose start was unconfirmed.
PiNoActiveTurn ==
    /\ PiUp /\ pi.told.unconfirmed /\ ~pi.turn
    /\ pi' = [pi EXCEPT !.told.active = FALSE, !.told.unconfirmed = FALSE, !.told.open = {}, !.told.spent = {}]
    /\ UNCHANGED <<piAgent, piOps, piWire, piScope>>

PiRespond ==
    /\ PiUp /\ PiIdle("answer")
    /\ \E d \in pi.dialogs :
          /\ ~d.answering /\ d.id \in pi.told.open \ pi.told.spent
          /\ pi' = [pi EXCEPT !.dialogs = (@ \ {d}) \union {[d EXCEPT !.answering = TRUE]}]
          /\ PutPi("answer", [PiCall("respond") EXCEPT !.request = d.id])
    /\ UNCHANGED <<piAgent, piWire, piScope>>

\* ApplySettings: the list of models once, the model, the level, the state.
AfterModels(o) == IF o.change.model # "" THEN "set_model" ELSE "set_thinking_level"
AfterModel(o) == IF o.change.effort # "" THEN "set_thinking_level" ELSE "get_state"
PiApplySettings ==
    /\ MayAsk /\ PiIdle("settings")
    /\ \E change \in piScope.changes :
          LET o == [PiCall("models") EXCEPT !.change = change]
          IN  PutPi("settings", [o EXCEPT !.op = IF pi.models THEN AfterModels(o) ELSE "models"])
    /\ pi' = [Register(pi, "query") EXCEPT !.applying = pi.models]
    /\ UNCHANGED <<piAgent, piWire, piScope>>

PiCompact ==
    /\ MayAsk /\ piScope.compacts /\ PiIdle("compact") /\ PiIdle("turn") /\ ~pi.told.active /\ ~pi.turn
    /\ pi' = Register(pi, "query")
    /\ PutPi("compact", PiCall("compact"))
    /\ UNCHANGED <<piAgent, piWire, piScope>>

\* Start: get_state says that the session is open.
PiStart ==
    /\ ~pi.started /\ ~pi.closing /\ ~pi.exited /\ PiIdle("start") /\ pi.nextID = 1
    /\ pi' = Register(pi, "query")
    /\ PutPi("start", PiCall("get_state"))
    /\ UNCHANGED <<piAgent, piWire, piScope>>

PiFrame(o) == IF o.op = "respond" THEN [m |-> "answer", id |-> o.request] ELSE [m |-> o.op, id |-> o.id, change |-> o.change]

\* send.  A command whose write was abandoned is forgotten; one that went out
\* unconfirmed waits for its response without a caller.
PiWrites ==
    /\ \E slot \in PiSlots : \E end \in WriteEnds :
          LET o == piOps[slot]
              waits == end = "written" /\ o.op # "respond" /\ slot # "control" /\ ~o.accepted
          IN  /\ o.step = "write"
              /\ end # "abandoned" => ~piAgent.dead
              /\ end # "written" => piAgent.dead \/ pi.lates < piScope.lates
              /\ piWire' = IF GoesOut(end) THEN [piWire EXCEPT !.in = Append(@, PiFrame(o))] ELSE piWire
              /\ pi' = [pi EXCEPT !.lates = IF end = "written" THEN @ ELSE @ + 1,
                                  !.cmds = IF end = "abandoned" THEN {c \in @ : c.id # o.id \/ o.op = "respond"} ELSE @]
              /\ PutPi(slot, IF waits THEN [o EXCEPT !.step = "await"]
                             ELSE [o EXCEPT !.step = "got", !.result = IF end = "written" THEN "ok" ELSE end])
    /\ UNCHANGED <<piAgent, piScope>>

\* The cancels of cancelTurnDialogs.
PiCancels ==
    /\ ~piAgent.dead
    /\ \E id \in pi.cancels :
          /\ pi' = [pi EXCEPT !.cancels = @ \ {id}]
          /\ piWire' = [piWire EXCEPT !.in = Append(@, [m |-> "answer", id |-> id])]
    /\ UNCHANGED <<piAgent, piOps, piScope>>

\* Calls.Detach: the caller stops waiting, the loop handles the response.
PiGivesUp ==
    /\ pi.lates < piScope.lates
    /\ \E slot \in PiSlots \ {"close"} :
          /\ piOps[slot].step = "await"
          /\ PutPi(slot, [piOps[slot] EXCEPT !.step = "got", !.result = "unconfirmed"])
    /\ pi' = [pi EXCEPT !.lates = @ + 1]
    /\ UNCHANGED <<piAgent, piWire, piScope>>

-----------------------------------------------------------------------------
(* The event loop.                                                           *)

PiRecord == Head(piWire.out)
PiRecordRead == piWire' = [piWire EXCEPT !.out = Tail(@)]

\* handleResponse: takeSent, and the caller, if one still waits.
PiReadsResponse ==
    /\ piWire.out # <<>> /\ PiRecord.m = "response" /\ PiRecordRead
    /\ \E c \in pi.cmds :
          LET waiting == {slot \in PiSlots : piOps[slot].step = "await" /\ piOps[slot].id = c.id}
          IN  /\ c.id = PiRecord.id
              /\ pi' = PiResponse([pi EXCEPT !.cmds = @ \ {c}], c, waiting # {}, PiRecord)
              /\ piOps' = [slot \in PiSlots |->
                             IF slot \in waiting
                             THEN [piOps[slot] EXCEPT !.step = "got", !.data = PiRecord.data, !.result = IF PiRecord.ok THEN "ok" ELSE "refused"]
                             ELSE piOps[slot]]
    /\ UNCHANGED <<piAgent, piScope>>

\* A prompt is accepted by a run or a dialog: its caller returns.
ReturnAccepted(ids) ==
    piOps' = [slot \in PiSlots |->
                CASE slot = "turn" /\ piOps[slot].step = "await" /\ piOps[slot].id \in ids -> [piOps[slot] EXCEPT !.step = "got", !.result = "ok"]
                  [] slot = "turn" /\ piOps[slot].step = "write" /\ piOps[slot].id \in ids -> [piOps[slot] EXCEPT !.accepted = TRUE]
                  [] OTHER -> piOps[slot]]
PiReadsRecord ==
    /\ piWire.out # <<>> /\ PiRecord.m # "response" /\ PiRecordRead
    /\ pi' = [PiHandles(WatchSettle(pi, PiRecord), PiRecord) EXCEPT
                !.raced = @ \/ (PiRecord.m = "thinking_level_changed" /\ piOps["settings"].step = "got")]
    /\ IF PiRecord.m \in {"agent_start", "extension_ui_request"} THEN ReturnAccepted(Accepted(pi)) ELSE UNCHANGED piOps
    /\ UNCHANGED <<piAgent, piScope>>

\* The timers: of the throttle, of a dialog, of an interrupted turn (whose
\* command may go on: `outlived'), of the wait for agent_settled.
PiElapses ==
    /\ \E k \in pi.view.throttle.recent : pi' = [pi EXCEPT !.view = Elapse(@, k)]
    /\ UNCHANGED <<piAgent, piOps, piWire, piScope>>
PiWakes ==
    /\ ~pi.exited /\ Due(pi.view, FALSE) # {}
    /\ pi' = [pi EXCEPT !.view = Flush(@, FALSE)]
    /\ UNCHANGED <<piAgent, piOps, piWire, piScope>>
PiDialogExpires ==
    /\ ~pi.exited
    /\ \E d \in pi.dialogs : d.timed /\ pi' = ExpireDialog(pi, d.id)
    /\ UNCHANGED <<piAgent, piOps, piWire, piScope>>
PiEndsTurnHere ==
    /\ ~pi.exited /\ pi.deadline
    /\ pi' = [EndPiTurn(pi) EXCEPT !.endedHere = TRUE, !.outlived = @ \/ piAgent.command # 0]
    /\ UNCHANGED <<piAgent, piOps, piWire, piScope>>
PiMissesSettle ==
    /\ ~pi.exited /\ pi.settle /\ ~pi.paused
    /\ pi' = [MissingSettle(pi) EXCEPT !.endedHere = TRUE]
    /\ UNCHANGED <<piAgent, piOps, piWire, piScope>>

\* handleExit, after which the conversation ends the turn.
PiExits ==
    /\ piAgent.dead /\ piWire.out = <<>> /\ ~pi.exited
    /\ pi' = [FlushStream(pi) EXCEPT !.exited = TRUE, !.run = FALSE, !.cmds = {}, !.dialogs = {}, !.view = Flush(FlushStream(pi).view, TRUE),
                                     !.told.active = FALSE, !.told.unconfirmed = FALSE, !.told.open = {}, !.told.spent = {}]
    /\ piOps' = [slot \in PiSlots |-> IF piOps[slot].step = "await"
                                      THEN [piOps[slot] EXCEPT !.step = "got", !.result = "unconfirmed"] ELSE piOps[slot]]
    /\ UNCHANGED <<piAgent, piWire, piScope>>

-----------------------------------------------------------------------------
(* What a caller does with the outcome.                                      *)

\* deliverTurn of the conversation: the turn is taken back, or stays.
PiTurnEnds(s, o) ==
    CASE o.result = "ok" -> s
      [] o.result = "unconfirmed" -> [s EXCEPT !.told.unconfirmed = s.told.active]
      [] OTHER -> [s EXCEPT !.told.active = FALSE, !.refused = @ \/ s.turn]

\* Interrupt: an unconfirmed abort counts as sent.
PiInterruptEnds(s, o) ==
    CASE o.result # "abandoned" -> [s EXCEPT !.deadline = @ \/ IsCurrentTurn(s, o.turn)]
      [] o.first /\ s.seq = o.turn -> [s EXCEPT !.interrupted = FALSE]
      [] OTHER -> s

\* Respond.  `stranded': the dialogs of its turn were cancelled while the answer failed.
PiRespondEnds(s, o) ==
    CASE o.result = "ok" -> [s EXCEPT !.dialogs = {d \in @ : d.id # o.request}, !.told.open = @ \ {o.request}]
      [] o.result = "unconfirmed" -> [s EXCEPT !.dialogs = {IF d.id = o.request THEN [d EXCEPT !.unconfirmed = TRUE] ELSE d : d \in @},
                                              !.told.spent = @ \union ({o.request} \intersect s.told.open)]
      [] OTHER -> [s EXCEPT !.dialogs = {IF d.id = o.request THEN [d EXCEPT !.answering = FALSE] ELSE d : d \in @},
                            !.stranded = IF o.request \in s.turnDialogs THEN @ ELSE @ \union {o.request}]

\* ApplySettings ends, by get_state or an error: the conversation reads the settings.
Reasons(model) == model # "plain"
EffortUnknown(s) == Reasons(s.settings.model) /\ s.settings.effort = ""
PiApplied(s) == [s EXCEPT !.applying = FALSE, !.told.settings = s.settings]
PiSettingEnds(s, o) ==
    CASE o.result # "ok" -> PiApplied([s EXCEPT !.unsure = @ \/ (o.result = "unconfirmed" /\ o.op # "models") \/ EffortUnknown(s)])
      [] o.op = "models" -> Register([s EXCEPT !.models = TRUE, !.applying = TRUE], "query")
      [] o.op = "set_model" -> Register([s EXCEPT !.settings = [model |-> o.data.model, effort |-> IF Reasons(o.data.model) THEN @.effort ELSE ""]], "query")
      [] o.op = "set_thinking_level" -> Register(s, "query")
      [] o.op = "get_state" -> PiApplied([s EXCEPT !.settings = o.data])

\* Start: without a model, one that may be had must be listed (checkLogin).
PiStartEnds(s, o) ==
    CASE o.result # "ok" -> [s EXCEPT !.closing = TRUE]
      [] o.op = "get_state" /\ o.data.model = "unknown" -> Register(s, "query")
      [] o.op = "models" /\ o.data.model = "none" -> [s EXCEPT !.closing = TRUE, !.login = TRUE]
      [] OTHER -> [s EXCEPT !.started = TRUE, !.settings = IF o.op = "get_state" THEN o.data ELSE @, !.told.settings = s.settings]

PiReturned(s, slot, o) ==
    CASE slot = "start" -> PiStartEnds(s, o)
      [] slot = "turn" /\ o.op = "turn" -> PiTurnEnds(s, o)
      [] slot = "control" -> PiInterruptEnds(s, o)
      [] slot = "answer" -> PiRespondEnds(s, o)
      [] slot = "settings" -> PiSettingEnds(s, o)
      [] OTHER -> s

PiFollowing(slot, o) ==
    LET next(op) == [o EXCEPT !.op = op, !.step = "write", !.id = pi.nextID, !.result = "none"]
    IN  CASE o.result # "ok" -> NoPiCall
          [] slot = "settings" /\ o.op = "models" -> next(AfterModels(o))
          [] slot = "settings" /\ o.op = "set_model" -> next(AfterModel(o))
          [] slot = "settings" /\ o.op = "set_thinking_level" -> next("get_state")
          [] slot = "start" /\ o.op = "get_state" /\ o.data.model = "unknown" -> next("models")
          [] OTHER -> NoPiCall

PiReturns ==
    /\ \E slot \in PiSlots \ {"close"} :
          /\ piOps[slot].step = "got"
          /\ pi' = PiReturned(pi, slot, piOps[slot])
          /\ PutPi(slot, PiFollowing(slot, piOps[slot]))
    /\ UNCHANGED <<piAgent, piWire, piScope>>

\* Close: abortForClose, then stdin closes, and pi is stopped.
PiClose ==
    /\ piScope.close /\ ~pi.closing
    /\ IF (pi.turn \/ pi.run) /\ ~pi.exited
       THEN PutPi("close", PiCall("abort")) /\ pi' = [Register(pi, "abort") EXCEPT !.closing = TRUE, !.interrupted = TRUE]
       ELSE UNCHANGED piOps /\ pi' = [pi EXCEPT !.closing = TRUE]
    /\ UNCHANGED <<piAgent, piWire, piScope>>
PiStops ==
    /\ pi.closing /\ ~piAgent.dead
    /\ piAgent' = [piAgent EXCEPT !.dead = TRUE]
    /\ UNCHANGED <<pi, piOps, piWire, piScope>>

-----------------------------------------------------------------------------
(* pi.                                                                       *)

PiSays(records) == piWire' = [piWire EXCEPT !.out = @ \o records]
PiRoomy == ~piAgent.dead /\ Len(piWire.out) < piScope.pipe
PiAnswer(id, ok, handled, error, data) ==
    [m |-> "response", id |-> id, ok |-> ok, handled |-> handled, error |-> error, data |-> data]
NoData == [model |-> "", effort |-> ""]
PiShows(settings) == [model |-> settings.model, effort |-> IF Reasons(settings.model) THEN settings.effort ELSE ""]

\* A prompt while a run goes on is refused; else it is refused, starts a run
\* that its response follows or precedes, or is an extension's command.
PiTakesPrompt(f) ==
    IF piAgent.phase # "idle"
    THEN {<<piAgent, <<PiAnswer(f.id, f.m = "steer", FALSE, "other", NoData)>>>>}
    ELSE {<<piAgent, <<PiAnswer(f.id, FALSE, FALSE, e, NoData)>>>> : e \in piScope.refusals}
         \union {<<[piAgent EXCEPT !.phase = "run", !.owed = @ \union {f.id}, !.said = {}], <<[m |-> "agent_start"]>>>>,
                 <<[piAgent EXCEPT !.phase = "starting", !.said = {}], <<PiAnswer(f.id, TRUE, FALSE, "none", NoData)>>>>}
         \union (IF piScope.commands /\ piAgent.command = 0 /\ f.m = "turn" THEN {<<[piAgent EXCEPT !.command = f.id], <<>>>>} ELSE {})

\* A level a model does not have is fitted to it.
Fitted(model, level) == IF model = "small" /\ level = "high" THEN "low" ELSE level
Switched(new) ==
    IF new.effort = piAgent.settings.effort THEN <<>> ELSE <<[m |-> "thinking_level_changed", level |-> new.effort]>>
PiTakesSetting(f) ==
    LET new == IF f.m = "set_model" THEN [model |-> f.change.model, effort |-> Fitted(f.change.model, piAgent.settings.effort)]
               ELSE [piAgent.settings EXCEPT !.effort = Fitted(piAgent.settings.model, f.change.effort)]
    IN  {<<[piAgent EXCEPT !.settings = new], Switched(new) \o <<PiAnswer(f.id, TRUE, FALSE, "none", PiShows(new))>>>>,
         <<piAgent, <<PiAnswer(f.id, FALSE, FALSE, "other", NoData)>>>>}

PiTakesFrame(f) ==
    CASE f.m \in {"turn", "steer"} -> PiTakesPrompt(f)
      [] f.m = "abort" -> {<<[piAgent EXCEPT !.stopping = piAgent.phase # "idle"], <<PiAnswer(f.id, TRUE, FALSE, "none", NoData)>>>>}
      [] f.m = "answer" -> {<<[piAgent EXCEPT !.waits = @ \ {f.id}], <<>>>>}
      [] f.m \in {"set_model", "set_thinking_level"} -> PiTakesSetting(f)
      [] f.m = "get_state" -> {<<piAgent, <<PiAnswer(f.id, TRUE, FALSE, "none", PiShows(piAgent.settings))>>>>}
      [] f.m = "models" -> {<<piAgent, <<PiAnswer(f.id, ok, FALSE, "other", [NoData EXCEPT !.model = IF piAgent.settings.model = "unknown" THEN "none" ELSE "some"])>>>> : ok \in BOOLEAN}
      [] f.m = "compact" -> {<<IF piAgent.phase = "idle" THEN [piAgent EXCEPT !.phase = "compact", !.owed = @ \union {f.id}] ELSE piAgent,
                              IF piAgent.phase = "idle" THEN <<[m |-> "compaction_start"]>> ELSE <<PiAnswer(f.id, FALSE, FALSE, "other", NoData)>>>>}
PiTakes ==
    /\ PiRoomy /\ piWire.in # <<>> /\ piAgent.phase # "compact"
    /\ \E r \in PiTakesFrame(Head(piWire.in)) :
          /\ piAgent' = r[1]
          /\ piWire' = [in |-> Tail(piWire.in), out |-> piWire.out \o r[2]]
    /\ UNCHANGED <<pi, piOps, piScope>>

\* The run of a prompt, of an extension's command, or of pi's own.
PiRuns ==
    /\ PiRoomy
    /\ \/ piAgent.phase = "starting" /\ piAgent' = [piAgent EXCEPT !.phase = "run"]
       \/ /\ piAgent.phase = "idle" /\ piAgent.own < piScope.own
          /\ piAgent' = [piAgent EXCEPT !.phase = "run", !.own = @ + 1, !.said = {}]
    /\ PiSays(<<[m |-> "agent_start"]>>)
    /\ UNCHANGED <<pi, piOps, piScope>>
PiAnswers ==
    /\ PiRoomy /\ piAgent.phase # "compact"
    /\ \E id \in piAgent.owed :
          /\ piAgent' = [piAgent EXCEPT !.owed = @ \ {id}]
          /\ PiSays(<<PiAnswer(id, TRUE, FALSE, "none", NoData)>>)
    /\ UNCHANGED <<pi, piOps, piScope>>
PiCompacts ==
    /\ PiRoomy /\ piAgent.phase = "compact"
    /\ piAgent' = [piAgent EXCEPT !.phase = "idle"]
    /\ PiSays(<<[m |-> "compaction_end"]>>)
    /\ UNCHANGED <<pi, piOps, piScope>>
PiCommandEnds ==
    /\ PiRoomy /\ piAgent.command # 0 /\ piAgent.waits = {}
    /\ \E ok \in BOOLEAN : PiSays(<<PiAnswer(piAgent.command, ok, ok, "other", NoData)>>)
    /\ piAgent' = [piAgent EXCEPT !.command = 0]
    /\ UNCHANGED <<pi, piOps, piScope>>

PiStreams ==
    /\ PiRoomy /\ piAgent.phase = "run"
    /\ \E k \in piScope.messages :
          \/ /\ <<k, "start">> \notin piAgent.said /\ piAgent.speaks = "none"
             /\ piAgent' = [piAgent EXCEPT !.said = @ \union {<<k, "start">>}, !.speaks = k]
             /\ PiSays(<<[m |-> "message_start", k |-> k]>>)
          \/ /\ piAgent.speaks = k /\ piAgent.deltas < piScope.deltas
             /\ piAgent' = [piAgent EXCEPT !.deltas = @ + 1]
             /\ PiSays(<<[m |-> "message_update", k |-> k]>>)
    /\ UNCHANGED <<pi, piOps, piScope>>
PiSpeaks ==
    /\ PiRoomy /\ piAgent.phase = "run" /\ piAgent.speaks # "none"
    /\ \E o \in piScope.ends \union (IF piAgent.stopping THEN {<<"aborted", "none">>} ELSE {}) :
          PiSays(<<[m |-> "message_end", k |-> piAgent.speaks, reason |-> o[1], error |-> o[2]]>>)
    /\ piAgent' = [piAgent EXCEPT !.speaks = "none"]
    /\ UNCHANGED <<pi, piOps, piScope>>
PiTool ==
    /\ PiRoomy /\ piAgent.phase = "run" /\ piScope.tool /\ piAgent.tool < 3
    /\ PiSays(<<[m |-> IF piAgent.tool = 2 THEN "message_end" ELSE "tool_execution_update", k |-> "tool", reason |-> "", error |-> ""]>>)
    /\ piAgent' = [piAgent EXCEPT !.tool = @ + 1]
    /\ UNCHANGED <<pi, piOps, piScope>>

\* A dialog, of a run, of a command, or outside both.
PiAsks ==
    /\ PiRoomy /\ piAgent.asked < piScope.asks /\ ~piAgent.stopping
    /\ piAgent.phase = "run" \/ piAgent.command # 0 \/ piScope.loose
    /\ \E timed \in piScope.timed :
          /\ piAgent' = [piAgent EXCEPT !.asked = @ + 1, !.waits = @ \union {piAgent.asked + 1}, !.timers = IF timed THEN @ \union {piAgent.asked + 1} ELSE @]
          /\ PiSays(<<[m |-> "extension_ui_request", id |-> piAgent.asked + 1, timed |-> timed]>>)
    /\ UNCHANGED <<pi, piOps, piScope>>
PiTimesOut ==
    /\ ~piAgent.dead
    /\ \E id \in piAgent.timers \intersect piAgent.waits : piAgent' = [piAgent EXCEPT !.waits = @ \ {id}]
    /\ UNCHANGED <<pi, piOps, piWire, piScope>>

PiSwitches ==
    /\ PiRoomy /\ piScope.switches /\ piAgent.settings.effort # "low"
    /\ piAgent' = [piAgent EXCEPT !.settings.effort = "low"]
    /\ PiSays(<<[m |-> "thinking_level_changed", level |-> "low"]>>)
    /\ UNCHANGED <<pi, piOps, piScope>>

\* The end of a run, after it answered its prompt; it may be tried again, and
\* agent_settled follows it, which pi may leave out (`drifts').
PiRunEnds ==
    /\ PiRoomy /\ piAgent.waits = {} /\ piAgent.owed = {}
    /\ \/ /\ piAgent.phase = "run"
          /\ piAgent' = [piAgent EXCEPT !.phase = "ended"]
          /\ PiSays(<<[m |-> "agent_end", willRetry |-> FALSE]>>)
       \/ /\ piAgent.phase = "run" /\ piAgent.retries < piScope.retries
          /\ piAgent' = [piAgent EXCEPT !.phase = "retry", !.retries = @ + 1]
          /\ PiSays(<<[m |-> "agent_end", willRetry |-> TRUE], [m |-> "auto_retry_start"]>>)
       \/ /\ piAgent.phase = "retry"
          /\ \E error \in {"none", "transient", "cancelled"} :
                /\ piAgent' = [piAgent EXCEPT !.phase = IF error = "none" THEN "run" ELSE "ended"]
                /\ PiSays(<<[m |-> "auto_retry_end", ok |-> error = "none", error |-> error],
                            IF error = "none" THEN [m |-> "agent_start"] ELSE [m |-> "agent_end", willRetry |-> FALSE]>>)
    /\ UNCHANGED <<pi, piOps, piScope>>
PiSettles ==
    /\ PiRoomy /\ piAgent.phase = "ended"
    /\ piAgent' = [piAgent EXCEPT !.phase = "idle", !.stopping = FALSE, !.speaks = "none"]
    /\ \E told \in {TRUE, ~piScope.drifts} : IF told THEN PiSays(<<[m |-> "agent_settled"]>>) ELSE UNCHANGED piWire
    /\ UNCHANGED <<pi, piOps, piScope>>

PiDies ==
    /\ piScope.dies /\ ~piAgent.dead
    /\ piAgent' = [piAgent EXCEPT !.dead = TRUE]
    /\ UNCHANGED <<pi, piOps, piWire, piScope>>

-----------------------------------------------------------------------------
PiInit ==
    /\ piScope \in PiScopes
    /\ piAgent = [dead |-> FALSE, phase |-> "idle", command |-> 0, owed |-> {}, stopping |-> FALSE, waits |-> {}, timers |-> {}, asked |-> 0,
                  own |-> 0, said |-> {}, speaks |-> "none", deltas |-> 0, tool |-> 0, retries |-> 0, settings |-> piScope.settings]
    /\ pi = [started |-> piScope.open, exited |-> FALSE, closing |-> FALSE, turn |-> FALSE, run |-> FALSE, seq |-> 0, interrupted |-> FALSE,
             cmds |-> {}, dialogs |-> {}, turnDialogs |-> {}, cancels |-> {}, deadline |-> FALSE, settle |-> FALSE, paused |-> FALSE, missed |-> FALSE,
             reason |-> "none", error |-> "none", retriesFailed |-> FALSE, ran |-> FALSE, login |-> FALSE, stream |-> "none", view |-> Blank(PiMessages),
             ended |-> {}, models |-> FALSE, settings |-> PiShows(piScope.settings), applying |-> FALSE, nextID |-> 1, lates |-> 0,
             told |-> [active |-> FALSE, unconfirmed |-> FALSE, open |-> {}, spent |-> {}, stop |-> "none", errors |-> 0, settings |-> PiShows(piScope.settings)],
             loose |-> {}, expired |-> {}, stranded |-> {}, refused |-> FALSE, endedHere |-> FALSE, outlived |-> FALSE, revived |-> FALSE, unsure |-> FALSE, raced |-> FALSE]
    /\ piOps = [slot \in PiSlots |-> NoPiCall]
    /\ piWire = [in |-> <<>>, out |-> <<>>]

PiNext ==
    \/ PiStart \/ PiStartTurn \/ PiSteer \/ PiInterrupt \/ PiNoActiveTurn \/ PiRespond \/ PiApplySettings \/ PiCompact
    \/ PiWrites \/ PiCancels \/ PiGivesUp \/ PiReadsResponse \/ PiReadsRecord \/ PiElapses \/ PiWakes \/ PiDialogExpires
    \/ PiEndsTurnHere \/ PiMissesSettle \/ PiExits \/ PiReturns \/ PiClose \/ PiStops
    \/ PiTakes \/ PiRuns \/ PiAnswers \/ PiCompacts \/ PiCommandEnds \/ PiStreams \/ PiSpeaks \/ PiTool \/ PiAsks \/ PiTimesOut
    \/ PiSwitches \/ PiRunEnds \/ PiSettles \/ PiDies

PiSpec == PiInit /\ [][PiNext]_piVars

-----------------------------------------------------------------------------
PiQuiet ==
    /\ piWire.in = <<>> /\ piWire.out = <<>> /\ pi.cancels = {} /\ ~piAgent.dead /\ ~pi.closing /\ pi.started
    /\ \A slot \in PiSlots : piOps[slot].step \notin {"write", "got"}
PiWorks == piAgent.phase \notin {"idle", "compact"} \/ piAgent.command # 0

\* A message is final once its end was read: nothing held back replaces it;
\* and once pi is gone everything is shown (emitFinal, handleExit).
PiChatIsComplete ==
    /\ \A k \in pi.ended : pi.view.shown[k] = pi.view.content[k] /\ k \notin pi.view.throttle.held
    /\ pi.exited => Final(pi.view)
    /\ pi.stream # "none" => pi.turn \/ pi.run \/ pi.endedHere

\* Once nothing is under way, the adapter's turn is pi's: a run that goes on
\* has one, unless it was ended here after an interrupt or a missing
\* agent_settled, and a turn has a run, a command, or a deadline that ends
\* it.  The conversation is busy just as long, unless it took the turn back
\* while pi began one by itself.  No late response ends or begins another
\* turn, but that of a command that outlived its turn, or of a message taken
\* into a run whose agent_settled was given up on.
PiTurnsAgree ==
    (PiQuiet /\ ~pi.outlived /\ ~pi.revived) =>
        /\ pi.turn => PiWorks \/ pi.settle \/ pi.deadline
        /\ piAgent.phase \notin {"idle", "compact", "starting"} => pi.turn \/ pi.endedHere
        /\ pi.run => PiWorks \/ pi.settle \/ pi.endedHere
        /\ pi.told.active => pi.turn \/ pi.told.unconfirmed \/ piAgent.command # 0
        /\ pi.turn => pi.told.active \/ pi.refused

\* A dialog pi waits on can be answered, or its answer or its cancel is on its
\* way, unless the adapter's timer closed it, it belongs to no turn, or its
\* answer failed when its turn's dialogs had been cancelled; a request shown as open is one the
\* adapter takes an answer to.
PiNoneStranded ==
    ~pi.exited /\ ~piAgent.dead =>
        /\ \A id \in piAgent.waits \ (pi.stranded \union pi.loose \union pi.expired) :
              \/ \E d \in pi.dialogs : d.id = id /\ (id \in pi.told.open \/ d.answering)
              \/ id \in pi.cancels
              \/ \E n \in 1 .. Len(piWire.in) : piWire.in[n].m = "answer" /\ piWire.in[n].id = id
              \/ \E n \in 1 .. Len(piWire.out) : piWire.out[n].m = "extension_ui_request" /\ piWire.out[n].id = id
        /\ \A id \in pi.told.open \ pi.told.spent :
              (\E d \in pi.dialogs : d.id = id) \/ (piOps["answer"] # NoPiCall /\ piOps["answer"].request = id)

\* The settings shown are pi's, also when pi fits the level to a new model or
\* switches it by itself, but after a change nobody knows the fate of, one
\* that failed between a model without levels and the level of the next, or
\* a switch between pi's answer and the end of a change.
PiSettingsAgree ==
    (PiQuiet /\ PiIdle("settings") /\ ~pi.unsure /\ ~pi.raced) =>
        /\ pi.settings = PiShows(piAgent.settings)
        /\ pi.told.settings = pi.settings
=============================================================================
