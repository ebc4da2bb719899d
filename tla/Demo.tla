-------------------------------- MODULE Demo --------------------------------
(***************************************************************************)
(* The demo adapter (lib/native/demo): a simulated agent that plays a turn  *)
(* by the words of its message, on a goroutine of its own.                  *)
(*                                                                         *)
(* `demo' is the adapter and what the adapters of its factory share,         *)
(* `demoRuns' the goroutines that play turns, those of a closed adapter too, *)
(* and `demoConv' the conversation as far as an adapter meets it: it starts  *)
(* a turn or a compaction only while it is idle, and does not listen to an   *)
(* adapter it replaced.                                                     *)
(***************************************************************************)
EXTENDS Naturals, Sequences, FiniteSets, SequencesExt, Functions

CONSTANT DemoScopes   \* what happens in a behaviour: records of bounds

VARIABLES demo, demoRuns, demoConv, demoScope

demoVars == <<demo, demoRuns, demoConv, demoScope>>

\* play: the stages of a turn, by the words of its message and the mode it
\* begins in.  A stage <<"tool", ask>> runs a tool, with a request unless ask
\* is "no"; what ends the turn early is its last stage.
If(c, stage) == IF c THEN <<stage>> ELSE <<>>
Stages(words, mode) ==
    <<<<"think", "no">>, <<"tool", IF mode = "ask" THEN "run" ELSE "no">>>> \o
    (IF "login" \in words THEN <<<<"login", "no">>>>
     ELSE IF {"crash", "crashloop"} \cap words # {} THEN <<<<"crash", "no">>>>
     ELSE If("delegate" \in words, <<"tool", "no">>) \o If("approve" \in words, <<"tool", "approve">>)
          \o If("ask" \in words, <<"tool", "question">>) \o If("plan" \in words \/ mode = "plan", <<"tool", "plan">>)
          \o (IF "limit" \in words THEN <<<<"limit", "no">>>>
              ELSE IF "gateway" \in words THEN <<<<"gateway", "no">>>>
              ELSE If("long" \in words, <<"text", "no">>) \o <<<<"text", "no">>, <<"last", "no">>>>))

NewDemo(gen, ref, left, broken) ==
    [gen |-> gen, resume |-> ref, ref |-> 0, started |-> FALSE, closed |-> FALSE, exit |-> "", active |-> 0, turns |-> 0,
     compacted |-> 0, mode |-> "bypass", requests |-> 0, waiting |-> {}, steers |-> 0, left |-> left, broken |-> broken]

\* The goroutine of turn n: where it is in its stages, and in a stage.
NewPlay(n, words) ==
    [gen |-> demo.gen, n |-> n, words |-> words, stages |-> <<>>, at |-> 1, pc |-> "begin", request |-> 0, answer |-> "",
     cancelled |-> FALSE, result |-> "", limited |-> FALSE]

Stage(r) == r.stages[r.at]
Goes(r, s) == demoRuns' = (demoRuns \ {r}) \cup {s}
Ends(r) == demoRuns' = demoRuns \ {r}
OfThis(r) == r.gen = demo.gen
Heard(r) == OfThis(r) /\ demoConv.agent = "running"
CancelTurn(runs) == {IF r.gen = demo.gen /\ r.n = demo.active THEN [r EXCEPT !.cancelled = TRUE] ELSE r : r \in runs}
Same == UNCHANGED demoScope

-----------------------------------------------------------------------------
(* The adapter's calls, each under a.mu.                                     *)

\* Start: the login first, then the session.
CanStart == demo.left = 0 /\ demo.resume \notin demo.broken
DemoStarts ==
    /\ demoConv.agent = "starting" /\ ~demo.started /\ ~demo.closed
    /\ demo' = [demo EXCEPT !.left = IF @ > 0 THEN @ - 1 ELSE @, !.started = CanStart,
                            !.ref = IF ~CanStart THEN 0 ELSE IF demo.resume # 0 THEN demo.resume ELSE demo.gen]
    /\ demoConv' = IF CanStart THEN [demoConv EXCEPT !.agent = "running", !.ref = IF demo.resume # 0 THEN demo.resume ELSE demo.gen]
                   ELSE [demoConv EXCEPT !.agent = IF demo.left > 0 THEN "login" ELSE "down"]
    /\ UNCHANGED demoRuns /\ Same

StartTurn(words) ==
    /\ demoConv.agent = "running" /\ demoConv.state = "idle" /\ demoConv.turns < demoScope.turns
    /\ demoConv' = [demoConv EXCEPT !.state = "starting", !.turns = @ + 1, !.tools = <<>>, !.open = {}]
    /\ IF ~demo.started \/ demo.closed \/ demo.active # 0 THEN UNCHANGED <<demo, demoRuns>>
       ELSE /\ demo' = [demo EXCEPT !.active = demo.turns + 1, !.turns = @ + 1, !.waiting = {}, !.steers = 0]
            /\ demoRuns' = demoRuns \cup {NewPlay(demo.turns + 1, words)}
    /\ Same

\* Steer: taken while the turn is active.
DemoSteer ==
    /\ demoConv.agent = "running" /\ demoConv.state = "running" /\ demoConv.steers < demoScope.steers
    /\ demoConv' = [demoConv EXCEPT !.steers = @ + 1, !.lost = @ \/ \E r \in demoRuns : OfThis(r) /\ r.n = demo.active /\ r.result # ""]
    /\ demo' = IF demo.active = 0 THEN demo ELSE [demo EXCEPT !.steers = @ + 1]
    /\ UNCHANGED demoRuns /\ Same

DemoInterrupt ==
    /\ demoConv.agent = "running" /\ demoConv.state = "running" /\ demoConv.interrupts < demoScope.interrupts
    /\ demoConv' = [demoConv EXCEPT !.interrupts = @ + 1]
    /\ demoRuns' = CancelTurn(demoRuns)
    /\ UNCHANGED demo /\ Same

\* Respond: to a request that the turn still waits for.
DemoRespond(id, answer) ==
    /\ demoConv.agent = "running" /\ id \in demoConv.open
    /\ IF demo.active # 0 /\ id \in demo.waiting
       THEN /\ demo' = [demo EXCEPT !.waiting = @ \ {id}]
            /\ demoRuns' = {IF OfThis(r) /\ r.request = id THEN [r EXCEPT !.answer = answer] ELSE r : r \in demoRuns}
            /\ demoConv' = [demoConv EXCEPT !.open = @ \ {id}]
       ELSE UNCHANGED <<demo, demoRuns, demoConv>>
    /\ Same

\* Compact: the context empties, and its usage is told after the lock.
DemoCompacts ==
    /\ demoConv.agent = "running" /\ demoConv.state = "idle" /\ demoConv.compacts < demoScope.compacts
    /\ demo.started /\ ~demo.closed /\ demo.active = 0
    /\ demo' = [demo EXCEPT !.compacted = demo.turns]
    /\ demoConv' = [demoConv EXCEPT !.state = "compacting", !.compacts = @ + 1]
    /\ UNCHANGED demoRuns /\ Same
DemoCompacted ==
    /\ demoConv.state = "compacting"
    /\ demoConv' = [demoConv EXCEPT !.state = "idle", !.usage = 0]
    /\ UNCHANGED <<demo, demoRuns>> /\ Same

DemoApplySettings(mode) ==
    /\ demoConv.agent = "running" /\ demoConv.changes < demoScope.changes /\ mode # demo.mode
    /\ demo' = [demo EXCEPT !.mode = mode]
    /\ demoConv' = [demoConv EXCEPT !.changes = @ + 1, !.mode = mode, !.raced = @ \/ \E r \in demoRuns : r.pc = "mode"]
    /\ UNCHANGED demoRuns /\ Same

\* exit: the first one says how the process ended; the turn is cancelled.
DemoExit(d, how) == [d EXCEPT !.closed = TRUE, !.exit = IF d.closed THEN @ ELSE how]
DemoClose ==
    /\ demoConv.agent = "running" /\ demoConv.closes < demoScope.closes
    /\ demo' = DemoExit(demo, "closed")
    /\ demoRuns' = CancelTurn(demoRuns)
    /\ demoConv' = [demoConv EXCEPT !.closes = @ + 1]
    /\ Same

\* Wait returns: the conversation ends its turn, and starts the agent again.
DemoExited ==
    /\ demoConv.agent = "running" /\ demo.closed
    /\ demoConv' = [demoConv EXCEPT !.agent = "down", !.state = "idle", !.open = {}, !.usage = 0,
                                    !.tools = [t \in DOMAIN @ |-> IF @[t] = "running" THEN "failed" ELSE @[t]]]
    /\ UNCHANGED <<demo, demoRuns>> /\ Same
DemoAgain(resume) ==
    /\ demoConv.agent \in {"down", "login"} /\ demo.gen < demoScope.starts
    /\ resume \in {0, demoConv.ref}
    /\ demo' = NewDemo(demo.gen + 1, resume, demo.left, demo.broken)
    /\ demoConv' = [demoConv EXCEPT !.agent = "starting", !.mode = "bypass"]
    /\ UNCHANGED demoRuns /\ Same

-----------------------------------------------------------------------------
(* A turn on its goroutine.                                                  *)

\* run: TurnStarted, then play reads the settings.
RunBegins(r) ==
    /\ r \in demoRuns /\ r.pc = "begin"
    /\ Goes(r, [r EXCEPT !.pc = "stage", !.stages = Stages(r.words, IF OfThis(r) THEN demo.mode ELSE "bypass")])
    /\ demoConv' = IF Heard(r) THEN [demoConv EXCEPT !.state = "running", !.started = @ + 1] ELSE demoConv
    /\ UNCHANGED demo /\ Same

NextStage(r) == [r EXCEPT !.at = @ + 1, !.pc = "stage", !.request = 0, !.answer = ""]
Over(r, result) == [r EXCEPT !.result = result, !.pc = "finish"]

\* A pause between two snapshots ends with its timer, or with the turn's
\* context: once that ended, either may come first.
RunStreams(r, interrupted) ==
    /\ r \in demoRuns /\ r.pc = "stage" /\ Stage(r)[1] \in {"think", "text"} /\ (interrupted => r.cancelled)
    /\ Goes(r, IF interrupted THEN Over(r, "interrupted") ELSE NextStage(r))
    /\ demo' = IF OfThis(r) /\ Stage(r)[1] = "text" THEN [demo EXCEPT !.steers = 0] ELSE demo
    /\ UNCHANGED demoConv /\ Same

Told(r, status) ==
    IF ~Heard(r) THEN demoConv
    ELSE [demoConv EXCEPT !.tools = IF Len(@) < r.at - 1 THEN Append(@, status) ELSE [@ EXCEPT ![r.at - 1] = status]]

\* tool: the call is shown, then runs or asks.
RunTool(r) ==
    /\ r \in demoRuns /\ r.pc = "stage" /\ Stage(r)[1] = "tool"
    /\ Goes(r, [r EXCEPT !.pc = "tool"])
    /\ demoConv' = Told(r, "running")
    /\ UNCHANGED demo /\ Same

\* open, and RequestOpened: the request is known before it is told.
RunAsks(r) ==
    /\ r \in demoRuns /\ r.pc = "tool" /\ Stage(r)[2] # "no" /\ OfThis(r)
    /\ demo' = [demo EXCEPT !.requests = @ + 1, !.waiting = @ \cup {demo.requests + 1}]
    /\ Goes(r, [r EXCEPT !.pc = "open", !.request = demo.requests + 1])
    /\ UNCHANGED demoConv /\ Same
RunOpens(r) ==
    /\ r \in demoRuns /\ r.pc = "open"
    /\ Goes(r, [r EXCEPT !.pc = "wait"])
    /\ demoConv' = IF Heard(r) THEN [demoConv EXCEPT !.open = @ \cup {r.request}] ELSE demoConv
    /\ UNCHANGED demo /\ Same

\* leavePlanMode: an approved plan leaves the plan mode, which is told after
\* the lock: a change of the settings between is told before it (raced).
LeavesPlan(r) == r.answer = "allow" /\ Stage(r)[2] = "plan" /\ OfThis(r) /\ demo.mode = "plan"
RunLeavesPlan(r) ==
    /\ r \in demoRuns /\ r.pc = "wait" /\ LeavesPlan(r)
    /\ demo' = [demo EXCEPT !.mode = "bypass"]
    /\ Goes(r, [r EXCEPT !.pc = "mode"])
    /\ UNCHANGED demoConv /\ Same
RunTellsMode(r) ==
    /\ r \in demoRuns /\ r.pc = "mode"
    /\ demoConv' = IF Heard(r) THEN [demoConv EXCEPT !.mode = "bypass"] ELSE demoConv
    /\ Goes(r, [r EXCEPT !.pc = "wait", !.answer = "approved"])
    /\ UNCHANGED demo /\ Same

ToolEnds(r, interrupted) ==
    Told(r, IF interrupted \/ r.answer = "deny" THEN "failed" ELSE "completed")

\* The tool's result: an interrupted call ends without running.
RunToolEnds(r, interrupted) ==
    /\ r \in demoRuns /\ (interrupted => r.cancelled)
    /\ \/ r.pc = "tool" /\ (Stage(r)[2] = "no" \/ interrupted)
       \/ r.pc = "wait" /\ (interrupted \/ (r.answer # "" /\ ~LeavesPlan(r)))
    /\ Goes(r, IF interrupted THEN Over(r, "interrupted") ELSE NextStage(r))
    /\ demoConv' = ToolEnds(r, interrupted)
    /\ UNCHANGED demo /\ Same

\* loseLogin: the next start finds no login either; this turn fails.
RunLosesLogin(r) ==
    /\ r \in demoRuns /\ r.pc = "stage" /\ Stage(r)[1] = "login"
    /\ demo' = [demo EXCEPT !.left = 1]
    /\ Goes(r, Over(r, "error"))
    /\ UNCHANGED demoConv /\ Same

\* crash: the process exits, and the turn never ends.
RunCrashes(r) ==
    /\ r \in demoRuns /\ r.pc = "stage" /\ Stage(r)[1] = "crash"
    /\ LET known == [demo EXCEPT !.broken = IF "crashloop" \in r.words /\ OfThis(r) THEN @ \cup {demo.ref} ELSE @]
       IN  demo' = IF OfThis(r) THEN DemoExit(known, "crashed") ELSE known
    /\ Ends(r)
    /\ UNCHANGED demoConv /\ Same

RunFails(r) ==
    /\ r \in demoRuns /\ r.pc = "stage" /\ Stage(r)[1] \in {"limit", "gateway"}
    /\ Goes(r, [Over(r, IF Stage(r)[1] = "limit" THEN "limited" ELSE "transient") EXCEPT !.limited = Stage(r)[1] = "limit"])
    /\ UNCHANGED <<demo, demoConv>> /\ Same

\* The reply's last words, and what was steered until then.
RunReplies(r) ==
    /\ r \in demoRuns /\ r.pc = "stage" /\ Stage(r)[1] = "last"
    /\ Goes(r, Over(r, "end"))
    /\ demo' = IF OfThis(r) THEN [demo EXCEPT !.steers = 0] ELSE demo
    /\ UNCHANGED demoConv /\ Same

Finished(d, r) == IF r.gen = d.gen /\ d.active = r.n THEN [d EXCEPT !.active = 0] ELSE d

\* finish: the turn is cleared before its usage and its end are told.
RunFinishes(r) ==
    /\ r \in demoRuns /\ r.pc = "finish"
    /\ demo' = Finished(demo, r)
    /\ Goes(r, [r EXCEPT !.pc = "report", !.request = IF OfThis(r) THEN demo.turns - demo.compacted ELSE 0])
    /\ UNCHANGED demoConv /\ Same
RunReports(r) ==
    /\ r \in demoRuns /\ r.pc = "report"
    /\ Ends(r)
    /\ demoConv' = IF ~Heard(r) THEN demoConv
                   ELSE [demoConv EXCEPT !.state = "idle", !.usage = r.request, !.results = Append(@, r.result), !.open = {}]
    /\ UNCHANGED demo /\ Same

-----------------------------------------------------------------------------
DemoInit ==
    /\ demoScope \in DemoScopes
    /\ demo = NewDemo(1, 0, 0, {})
    /\ demoRuns = {}
    /\ demoConv = [agent |-> "starting", state |-> "idle", ref |-> 0, turns |-> 0, started |-> 0, results |-> <<>>,
                   tools |-> <<>>, open |-> {}, usage |-> 0, mode |-> "bypass", raced |-> FALSE, lost |-> FALSE, steers |-> 0,
                   interrupts |-> 0, compacts |-> 0, changes |-> 0, closes |-> 0]

DemoCalls ==
    \/ DemoStarts \/ DemoSteer \/ DemoInterrupt \/ DemoCompacts \/ DemoCompacted \/ DemoClose \/ DemoExited
    \/ \E words \in demoScope.words : StartTurn(words)
    \/ \E id \in demoConv.open, answer \in {"allow", "deny"} : DemoRespond(id, answer)
    \/ \E mode \in demoScope.modes : DemoApplySettings(mode)
    \/ \E resume \in {0, demoConv.ref} : DemoAgain(resume)
DemoPlays ==
    \E r \in demoRuns :
        \/ RunBegins(r) \/ RunTool(r) \/ RunAsks(r) \/ RunOpens(r) \/ RunLeavesPlan(r) \/ RunTellsMode(r) \/ RunLosesLogin(r) \/ RunCrashes(r) \/ RunFails(r)
        \/ RunReplies(r) \/ RunFinishes(r) \/ RunReports(r)
        \/ \E interrupted \in BOOLEAN : RunStreams(r, interrupted) \/ RunToolEnds(r, interrupted)
DemoNext == DemoCalls \/ DemoPlays
DemoSpec == DemoInit /\ [][DemoNext]_demoVars

\* Once the conversation is idle, the turn that ended left nothing open: each
\* tool call it showed has a result, however the turn ended; the adapter
\* takes the next turn, and what it said of its context and its mode is so; a
\* turn that came to its end answered what was steered into it, unless that
\* came after its last look (lost).
DemoTurnsEnd ==
    demoConv.state = "idle" /\ demoConv.agent = "running" /\ ~demo.closed =>
        /\ \A t \in DOMAIN demoConv.tools : demoConv.tools[t] # "running"
        /\ demo.active = 0
        /\ demoConv.open = {}
        /\ demoConv.results # <<>> /\ Last(demoConv.results) = "end" => demo.steers = 0 \/ demoConv.lost
        /\ demoConv.usage = demo.turns - demo.compacted
        /\ demoConv.mode = demo.mode \/ demoConv.raced

=============================================================================
