------------------------------ MODULE MCParts ------------------------------
(***************************************************************************)
(* The adapters, the updates, the hub and the smaller services of the       *)
(* server (terminal, uploads, human replies) on small instances.  None      *)
(* shares state with another, so one behaviour is of one of them; the       *)
(* variables of the others are off.  A scope is what happens in a           *)
(* behaviour: one for each group of hazards.                                *)
(***************************************************************************)
EXTENDS Codex, Claude, Pi, Updater, Hub, Demo, Terminal, Uploads, Handoff

VARIABLE part   \* which one the behaviour is of

codexOff == codex = "off" /\ app = "off" /\ codexOps = "off" /\ codexWire = "off" /\ codexScope = "off"
claudeOff == claude = "off" /\ cli = "off" /\ claudeOps = "off" /\ claudeWire = "off" /\ claudeScope = "off"
piOff == pi = "off" /\ piAgent = "off" /\ piOps = "off" /\ piWire = "off" /\ piScope = "off"
updOff == srv = "off" /\ machine = "off" /\ updCli = "off" /\ updScope = "off"
hubOff == hub = "off" /\ hubDisk = "off" /\ hubPage = "off" /\ hubWorld = "off" /\ hubScope = "off"
demoOff == demo = "off" /\ demoRuns = "off" /\ demoConv = "off" /\ demoScope = "off"
termOff == term = "off" /\ shell = "off" /\ streams = "off" /\ termScope = "off"
upOff == store = "off" /\ saves = "off" /\ prune = "off" /\ refs = "off" /\ upScope = "off"
handOff == hand = "off" /\ talk = "off" /\ hcalls = "off" /\ bots = "off" /\ handScope = "off"
agentsOff == codexOff /\ claudeOff /\ piOff /\ demoOff
servicesOff == termOff /\ upOff /\ handOff

-----------------------------------------------------------------------------
(* Codex. *)
NoCodex ==
    [calls |-> 0, lates |-> 0, changes |-> 0, settings |-> {}, items |-> {}, deltas |-> 0, todo |-> FALSE, own |-> 0,
     kinds |-> {}, asks |-> 0, pipe |-> 2, start |-> "open", errors |-> {}, plan |-> FALSE, dies |-> FALSE, close |-> FALSE]
Set(field, value) == [NoSettings EXCEPT ![field] = value]

MCCodexScopes ==
    {\* what a turn says, and the death of app-server
     [NoCodex EXCEPT !.calls = 1, !.items = {"text", "tool"}, !.deltas = 2, !.pipe = 1, !.dies = TRUE],
     \* messages into a turn and their echo
     [NoCodex EXCEPT !.calls = 2, !.items = {"prompt", "steered"}, !.pipe = 1],
     \* turns app-server starts by itself, answers that come late
     [NoCodex EXCEPT !.calls = 2, !.deltas = 1, !.todo = TRUE, !.own = 1, !.pipe = 1],
     [NoCodex EXCEPT !.calls = 2, !.lates = 1, !.own = 1, !.pipe = 1],
     \* requests
     [NoCodex EXCEPT !.calls = 1, !.kinds = {"elicitation", "command"}, !.asks = 2, !.pipe = 1],
     [NoCodex EXCEPT !.calls = 1, !.kinds = {"question", "file", "permissions", "unknown"}, !.asks = 1],
     [NoCodex EXCEPT !.calls = 1, !.kinds = {"question"}, !.asks = 1, !.close = TRUE, !.pipe = 1],
     [NoCodex EXCEPT !.calls = 2, !.kinds = {"elicitation"}, !.asks = 1, !.pipe = 1],
     \* plans, settings and errors
     [NoCodex EXCEPT !.calls = 2, !.items = {"plan"}, !.plan = TRUE, !.changes = 1,
                     !.settings = {Set("mode", "bypass"), Set("model", "m2")}, !.pipe = 1],
     [NoCodex EXCEPT !.calls = 1, !.lates = 1, !.changes = 2,
                     !.settings = {Set("mode", "ask"), Set("mode", "plan"), Set("model", "m2"), Set("model", "m1"), Set("effort", "e2")}],
     [NoCodex EXCEPT !.calls = 2, !.errors = CodexErrors, !.deltas = 1, !.pipe = 1]}
    \cup {[NoCodex EXCEPT !.start = how, !.lates = 1, !.dies = TRUE, !.close = TRUE] : how \in {"new", "resume", "fork"}}

-----------------------------------------------------------------------------
(* Claude Code. *)
NoClaude ==
    [calls |-> 0, lates |-> 0, settings |-> {}, messages |-> {}, deltas |-> 0, tool |-> FALSE, own |-> 0, kinds |-> {}, asks |-> 0,
     pipe |-> 2, states |-> TRUE, clears |-> FALSE, switches |-> FALSE, windows |-> {}, results |-> {"end_turn"}, open |-> TRUE,
     dies |-> FALSE, close |-> FALSE]
Both(mode, model) == [mode |-> mode, model |-> model]

MCClaudeScopes ==
    {\* what a turn says: messages, tools, tasks in the background
     [NoClaude EXCEPT !.calls = 1, !.messages = {"m1", "m2"}, !.pipe = 1],
     [NoClaude EXCEPT !.calls = 1, !.messages = {"m1"}, !.deltas = 2, !.pipe = 1],
     [NoClaude EXCEPT !.calls = 1, !.messages = {"m1"}, !.deltas = 2, !.states = FALSE, !.dies = TRUE, !.clears = TRUE],
     [NoClaude EXCEPT !.calls = 2, !.tool = TRUE],
     \* turns the CLI starts by itself, and interrupts it does not heed
     [NoClaude EXCEPT !.calls = 2, !.own = 1],
     [NoClaude EXCEPT !.calls = 2, !.lates = 1, !.own = 1, !.states = FALSE],
     \* results and limits
     [NoClaude EXCEPT !.calls = 1, !.results = {"limit", "auth", "error"}, !.messages = {"m1"}, !.pipe = 1],
     [NoClaude EXCEPT !.calls = 1, !.results = {"max_tokens", "transient", "error"}, !.windows = {"five_hour", "seven_day"}, !.deltas = 2],
     \* requests
     [NoClaude EXCEPT !.calls = 2, !.kinds = {"approval"}, !.asks = 1, !.pipe = 1],
     [NoClaude EXCEPT !.calls = 1, !.kinds = {"approval"}, !.asks = 1, !.lates = 1],
     [NoClaude EXCEPT !.calls = 1, !.kinds = ClaudeAsks, !.asks = 2, !.pipe = 1],
     \* settings
     [NoClaude EXCEPT !.calls = 2, !.kinds = {"plan"}, !.asks = 1, !.pipe = 1, !.settings = {Both("bypass", "m2")}],
     [NoClaude EXCEPT !.calls = 2, !.switches = TRUE, !.lates = 1, !.pipe = 1, !.settings = {Both("bypass", "m2")}],
     \* the start and the end
     [NoClaude EXCEPT !.open = FALSE, !.lates = 1, !.dies = TRUE, !.close = TRUE, !.calls = 3]}

-----------------------------------------------------------------------------
(* pi. *)
NoPi ==
    [calls |-> 0, prompts |-> TRUE, lates |-> 0, changes |-> {}, compacts |-> FALSE, messages |-> {}, deltas |-> 0,
     ends |-> {<<"stop", "none">>}, tool |-> FALSE, own |-> 0, refusals |-> {}, commands |-> FALSE, asks |-> 0, loose |-> FALSE,
     timed |-> {FALSE}, switches |-> FALSE, retries |-> 0, drifts |-> FALSE, settings |-> [model |-> "big", effort |-> "high"],
     pipe |-> 2, open |-> TRUE, dies |-> FALSE, close |-> FALSE]
Change(model, effort) == [model |-> model, effort |-> effort]

MCPiScopes ==
    {\* what a run says
     [NoPi EXCEPT !.calls = 1, !.messages = {"m1", "m2"}, !.deltas = 2, !.pipe = 1, !.dies = TRUE],
     [NoPi EXCEPT !.calls = 1, !.messages = {"m1"}, !.deltas = 1, !.tool = TRUE],
     \* prompts pi refuses, commands without a run, runs of its own
     [NoPi EXCEPT !.calls = 2, !.refusals = {"auth", "other"}, !.lates = 1],
     [NoPi EXCEPT !.calls = 2, !.commands = TRUE, !.own = 1],
     [NoPi EXCEPT !.calls = 2, !.commands = TRUE, !.lates = 1, !.asks = 1, !.pipe = 1],
     \* dialogs
     [NoPi EXCEPT !.calls = 2, !.asks = 1, !.timed = {TRUE}, !.pipe = 1],
     [NoPi EXCEPT !.calls = 1, !.asks = 1, !.timed = BOOLEAN, !.loose = TRUE, !.pipe = 1],
     [NoPi EXCEPT !.calls = 2, !.asks = 2, !.commands = TRUE, !.pipe = 1],
     \* retries, and a missing agent_settled
     [NoPi EXCEPT !.calls = 2, !.retries = 1, !.drifts = TRUE, !.messages = {"m1"},
                  !.ends = {<<"stop", "none">>, <<"error", "limit">>, <<"length", "none">>}],
     \* settings and compactions
     [NoPi EXCEPT !.calls = 4, !.prompts = FALSE, !.lates = 1, !.switches = TRUE,
                  !.changes = {Change("small", ""), Change("plain", ""), Change("", "low"), Change("small", "low")}],
     [NoPi EXCEPT !.calls = 2, !.compacts = TRUE, !.own = 1],
     \* the start and the end
     [NoPi EXCEPT !.open = FALSE, !.lates = 1, !.dies = TRUE, !.close = TRUE, !.calls = 2],
     [NoPi EXCEPT !.open = FALSE, !.settings = Change("unknown", ""), !.calls = 3]}

-----------------------------------------------------------------------------
(* Updates and restarts. *)
NoUpdate ==
    [servers |-> {"a"}, version |-> 1, disk |-> 1, latest |-> 2, releases |-> 2, faults |-> 0, unstartable |-> {}, pid |-> FALSE,
     prompt |-> "none", posts |-> 0, deletes |-> 0, messages |-> 0, own |-> 0, restarts |-> 0, kills |-> FALSE, terms |-> FALSE,
     usr2s |-> 0, chmods |-> FALSE, cli |-> FALSE, force |-> FALSE, under |-> "none", timeouts |-> FALSE]

MCUpdateScopes ==
    {\* an update among messages and restarts of the agent
     [NoUpdate EXCEPT !.posts = 2, !.deletes = 1, !.messages = 1, !.restarts = 1],
     [NoUpdate EXCEPT !.posts = 1, !.messages = 2, !.own = 1],
     \* an update that fails, or is cancelled
     [NoUpdate EXCEPT !.posts = 2, !.deletes = 1, !.faults = 1],
     [NoUpdate EXCEPT !.posts = 1, !.chmods = TRUE],
     [NoUpdate EXCEPT !.posts = 1, !.disk = 3, !.faults = 2],
     \* two servers of one program
     [NoUpdate EXCEPT !.servers = {"a", "b"}, !.posts = 1, !.releases = 3, !.kills = TRUE],
     \* signals against an update, with a prompt that is due
     [NoUpdate EXCEPT !.posts = 1, !.usr2s = 2, !.terms = TRUE, !.prompt = "due", !.version = 0],
     [NoUpdate EXCEPT !.posts = 1, !.usr2s = 1, !.messages = 1],
     \* agentapi update and restart
     [NoUpdate EXCEPT !.posts = 1, !.cli = TRUE, !.unstartable = {3}, !.releases = 3, !.force = TRUE, !.usr2s = 1],
     [NoUpdate EXCEPT !.servers = {"a", "b"}, !.cli = TRUE, !.under = "a", !.timeouts = TRUE, !.terms = TRUE],
     \* the PID file
     [NoUpdate EXCEPT !.servers = {"a", "b"}, !.pid = TRUE, !.kills = TRUE, !.usr2s = 1, !.terms = TRUE, !.latest = 1],
     [NoUpdate EXCEPT !.servers = {"a", "b"}, !.pid = TRUE, !.faults = 1]}

-----------------------------------------------------------------------------
(* The hub. *)
Heartbeat(id, run, url, work) == [kind |-> "heartbeat", id |-> id, run |-> run, url |-> url, hb |-> work]
StopOf(id, run) == [kind |-> "stopped", id |-> id, run |-> run, url |-> "u1", hb |-> 0]
OtherEvent(id, run) == [kind |-> "other", id |-> id, run |-> run, url |-> "u1", hb |-> 0]
Answers(id, run, does) == [id |-> id, run |-> run, does |-> does]
Patch(mute, group, pin) == [mute |-> mute, group |-> group, pin |-> pin]
StoppedRow(pin, url) ==
    Stored([NewInstance EXCEPT !.conn = "stopped", !.url = url, !.run = 1, !.source = "webhook", !.pin = pin, !.changed = 0, !.activity = "stopped"])
PinnedFile(first, second) == [instances |-> <<StoppedRow(first, "u1"), StoppedRow(second, "u2")>>, favorites |-> ""]

NoHub ==
    [up |-> "running", keep |-> FALSE, proxy |-> FALSE, net |-> ("u1" :> Answers(1, 1, "idle") @@ "u2" :> NoAnswer), answers |-> {NoAnswer},
     mail |-> <<>>, cap |-> 2, deliveries |-> 9, patch |-> {}, orders |-> {}, favorites |-> {}, files |-> {}, turns |-> 0, ticks |-> 0,
     events |-> 0, adds |-> 0, removes |-> 0, patches |-> 0, opens |-> 0, faults |-> 0, edits |-> 0, starts |-> 0, stops |-> 0, kills |-> 0]

MCHubScopes ==
    {\* an instance that runs again, at another URL, its events in any order
     [NoHub EXCEPT !.mail = <<Heartbeat(1, 1, "u1", 1), Heartbeat(1, 2, "u2", 1), StopOf(1, 2)>>, !.events = 3, !.turns = 1, !.ticks = 1,
                   !.answers = {NoAnswer, Answers(1, 2, "idle")}],
     [NoHub EXCEPT !.mail = <<Heartbeat(1, 1, "u1", 0), StopOf(1, 1), Heartbeat(1, 2, "u2", 0)>>, !.events = 4, !.turns = 1, !.proxy = TRUE],
     \* one that answers again where it was, once it said that it stopped
     [NoHub EXCEPT !.mail = <<Heartbeat(1, 1, "u1", 0), StopOf(1, 1), Heartbeat(1, 2, "u2", 0)>>, !.events = 3, !.turns = 2, !.ticks = 1,
                   !.answers = {NoAnswer, Answers(1, 1, "idle")}],
     \* events that are delivered again, across a restart of the hub
     [NoHub EXCEPT !.keep = TRUE, !.mail = <<Heartbeat(1, 1, "u1", 0), StopOf(1, 1)>>, !.events = 3, !.stops = 1, !.starts = 1],
     [NoHub EXCEPT !.keep = TRUE, !.mail = <<Heartbeat(1, 1, "u1", 0), OtherEvent(1, 1)>>, !.events = 4, !.deliveries = 1],
     [NoHub EXCEPT !.up = "new", !.mail = <<Heartbeat(1, 1, "u1", 0), StopOf(1, 1), Heartbeat(1, 2, "u1", 0)>>, !.events = 4],
     \* instances added and removed by hand
     [NoHub EXCEPT !.mail = <<Heartbeat(1, 1, "u1", 0), Heartbeat(1, 2, "u2", 0)>>, !.events = 2, !.adds = 1, !.removes = 1,
                   !.net = ("u1" :> Answers(1, 1, "idle") @@ "u2" :> Answers(2, 1, "idle"))],
     \* pins and favorites
     [NoHub EXCEPT !.up = "down", !.keep = TRUE, !.edits = 1, !.starts = 1, !.files = {PinnedFile(2, 2), PinnedFile(0, 2)}, !.opens = 1,
                   !.patches = 2, !.removes = 1, !.patch = {Patch("keep", "keep", "on"), Patch("keep", "g", "off")},
                   !.orders = {<<2, 1>>}, !.favorites = {"f"}],
     \* what is stored, and a file that cannot be read
     [NoHub EXCEPT !.keep = TRUE, !.mail = <<Heartbeat(1, 1, "u1", 0)>>, !.events = 1, !.faults = 1, !.kills = 1, !.stops = 1, !.starts = 2,
                   !.edits = 1, !.files = {Damaged, Newer}, !.patches = 1, !.patch = {Patch("keep", "keep", "on")}],
     \* spans of work
     [NoHub EXCEPT !.mail = <<Heartbeat(1, 1, "u1", 1)>>, !.events = 1, !.ticks = 2, !.turns = 3, !.opens = 1, !.cap = 4,
                   !.answers = {NoAnswer, Answers(1, 1, "working")}, !.net = ("u1" :> Answers(1, 1, "working"))],
     [NoHub EXCEPT !.keep = TRUE, !.mail = <<Heartbeat(1, 1, "u1", 0)>>, !.events = 1, !.ticks = 2, !.kills = 1, !.stops = 1, !.starts = 1,
                   !.cap = 4, !.answers = {NoAnswer, Answers(1, 1, "idle")}, !.net = ("u1" :> Answers(1, 1, "working"))],
     \* mutes
     [NoHub EXCEPT !.mail = <<Heartbeat(1, 1, "u1", 0)>>, !.events = 1, !.turns = 2, !.opens = 1, !.patches = 2, !.adds = 1,
                   !.net = ("u1" :> Answers(1, 1, "asks1")), !.answers = {Answers(1, 1, "asks2"), Answers(1, 1, "exited")},
                   !.patch = {Patch("on", "g", "keep")}]}

-----------------------------------------------------------------------------
(* The demo adapter. *)
NoPlay ==
    [turns |-> 1, steers |-> 0, interrupts |-> 0, compacts |-> 0, changes |-> 0, closes |-> 0, starts |-> 1, words |-> {{}}, modes |-> {}]

MCDemoScopes ==
    {\* messages into a turn and interrupts
     [NoPlay EXCEPT !.turns = 2, !.interrupts = 1, !.steers = 1, !.words = {{}, {"approve", "ask"}, {"long", "delegate"}}],
     \* settings, plans and compactions
     [NoPlay EXCEPT !.turns = 2, !.changes = 1, !.modes = {"ask", "plan"}, !.words = {{"plan"}, {"gateway"}, {"limit", "approve"}}, !.compacts = 1, !.interrupts = 1],
     \* exits, a lost login, and starts after them
     [NoPlay EXCEPT !.turns = 2, !.starts = 3, !.closes = 1, !.words = {{"login"}, {"crash"}, {"crashloop"}}, !.interrupts = 1]}

-----------------------------------------------------------------------------
(* The terminal, the uploads and the human replies. *)
NoTerm ==
    [size |-> 3, buffer |-> 1, clients |-> {"c1"}, streams |-> 1, shells |-> 1, output |-> 6, chunks |-> {}, leaves |-> 0, resizes |-> 0,
     close |-> FALSE]
MCTermScopes ==
    {\* the ring: chunks shorter, as long as and longer than it
     [NoTerm EXCEPT !.chunks = UNION {[1 .. n -> BOOLEAN] : n \in {1, 2, 4}}],
     \* clients that fall behind, leave and come back, a second shell, Close
     [NoTerm EXCEPT !.clients = {"c1", "c2"}, !.streams = 3, !.shells = 2, !.output = 2, !.chunks = {<<FALSE>>}, !.leaves = 1],
     [NoTerm EXCEPT !.streams = 2, !.shells = 2, !.output = 1, !.chunks = {<<FALSE>>}, !.resizes = 1, !.close = TRUE]}

NoUpload == [saves |-> 2, by |-> {"user", "agent"}, faults |-> FALSE, forgets |-> 0, time |-> 3, keep |-> TRUE, ends |-> 0]
MCUploadScopes ==
    {[NoUpload EXCEPT !.forgets = 1],
     [NoUpload EXCEPT !.faults = TRUE, !.by = {"user"}],
     \* a run that ends, with and without a conversation to keep
     [NoUpload EXCEPT !.ends = 1, !.by = {"user"}],
     [NoUpload EXCEPT !.keep = FALSE, !.ends = 1, !.saves = 1]}

NoHand == [gets |-> 1, replies |-> 3, posts |-> 0, turns |-> 1, asks |-> 0, restarts |-> 0, busy |-> FALSE]
MCHandoffScopes ==
    {[NoHand EXCEPT !.posts = 1], [NoHand EXCEPT !.restarts = 1, !.replies = 2], [NoHand EXCEPT !.asks = 1],
     \* two requests, one receipt kept
     [NoHand EXCEPT !.asks = 2, !.gets = 2, !.replies = 2, !.busy = TRUE, !.turns = 0]}

-----------------------------------------------------------------------------
Init ==
    \/ part = "codex" /\ CodexInit /\ claudeOff /\ piOff /\ demoOff /\ updOff /\ hubOff /\ servicesOff
    \/ part = "claude" /\ ClaudeInit /\ codexOff /\ piOff /\ demoOff /\ updOff /\ hubOff /\ servicesOff
    \/ part = "pi" /\ PiInit /\ codexOff /\ claudeOff /\ demoOff /\ updOff /\ hubOff /\ servicesOff
    \/ part = "demo" /\ DemoInit /\ codexOff /\ claudeOff /\ piOff /\ updOff /\ hubOff /\ servicesOff
    \/ part = "updates" /\ UpdInit /\ agentsOff /\ hubOff /\ servicesOff
    \/ part = "hub" /\ HubInit /\ agentsOff /\ updOff /\ servicesOff
    \/ part = "terminal" /\ TermInit /\ agentsOff /\ updOff /\ hubOff /\ upOff /\ handOff
    \/ part = "uploads" /\ UploadInit /\ agentsOff /\ updOff /\ hubOff /\ termOff /\ handOff
    \/ part = "handoff" /\ HandoffInit /\ agentsOff /\ updOff /\ hubOff /\ termOff /\ upOff

services == <<termVars, upVars, handVars>>
OfCodex(A) == part = "codex" /\ A /\ UNCHANGED <<part, claudeVars, piVars, updVars, hubVars, demoVars, services>>
OfClaude(A) == part = "claude" /\ A /\ UNCHANGED <<part, codexVars, piVars, updVars, hubVars, demoVars, services>>
OfPi(A) == part = "pi" /\ A /\ UNCHANGED <<part, codexVars, claudeVars, updVars, hubVars, demoVars, services>>
OfUpdates(A) == part = "updates" /\ A /\ UNCHANGED <<part, codexVars, claudeVars, piVars, hubVars, demoVars, services>>
OfHub(A) == part = "hub" /\ A /\ UNCHANGED <<part, codexVars, claudeVars, piVars, updVars, demoVars, services>>
OfDemo(A) == part = "demo" /\ A /\ UNCHANGED <<part, codexVars, claudeVars, piVars, updVars, hubVars, services>>
OfTerm(A) == part = "terminal" /\ A /\ UNCHANGED <<part, codexVars, claudeVars, piVars, updVars, hubVars, demoVars, upVars, handVars>>
OfUploads(A) == part = "uploads" /\ A /\ UNCHANGED <<part, codexVars, claudeVars, piVars, updVars, hubVars, demoVars, termVars, handVars>>
OfHandoff(A) == part = "handoff" /\ A /\ UNCHANGED <<part, codexVars, claudeVars, piVars, updVars, hubVars, demoVars, termVars, upVars>>

CodexSteps ==
    \/ OfCodex(CodexStart) \/ OfCodex(CodexStartReturns) \/ OfCodex(CodexStartTurn) \/ OfCodex(CodexCompact) \/ OfCodex(CodexSteer)
    \/ OfCodex(CodexInterrupt) \/ OfCodex(CodexCancelPlan) \/ OfCodex(CodexNoActiveTurn) \/ OfCodex(CodexRespond)
    \/ OfCodex(CodexAnswerPlan) \/ OfCodex(CodexApplySettings) \/ OfCodex(CodexWrites) \/ OfCodex(CodexWritesAsync)
    \/ OfCodex(CodexGivesUp) \/ OfCodex(CodexReturns) \/ OfCodex(CodexRunsPosted) \/ OfCodex(CodexReadsResponse)
    \/ OfCodex(CodexReadsLine) \/ OfCodex(CodexElapses) \/ OfCodex(CodexWakes) \/ OfCodex(CodexEndsTurnHere)
    \/ OfCodex(CodexOutputEnds) \/ OfCodex(CodexDown) \/ OfCodex(CodexClose) \/ OfCodex(CodexStops)
    \/ OfCodex(AppTakes) \/ OfCodex(AppAnswers) \/ OfCodex(AppStartsTurn) \/ OfCodex(AppItem) \/ OfCodex(AppTodo)
    \/ OfCodex(AppErrs) \/ OfCodex(AppAsks) \/ OfCodex(AppCompletes) \/ OfCodex(AppDies)

ClaudeSteps ==
    \/ OfClaude(ClaudeStart) \/ OfClaude(ClaudeStartTurn) \/ OfClaude(ClaudeSteer) \/ OfClaude(ClaudeInterrupt)
    \/ OfClaude(ClaudeRespond) \/ OfClaude(ClaudeApplySettings) \/ OfClaude(ClaudeWrites)
    \/ OfClaude(ClaudeRefuses) \/ OfClaude(ClaudeGivesUp) \/ OfClaude(ClaudeReadsResponse) \/ OfClaude(ClaudeReadsFrame)
    \/ OfClaude(ClaudeElapses) \/ OfClaude(ClaudeWakes) \/ OfClaude(ClaudeEndsTurnHere) \/ OfClaude(ClaudeLimitResets)
    \/ OfClaude(ClaudeOutputCloses) \/ OfClaude(ClaudeReturns) \/ OfClaude(ClaudeClose) \/ OfClaude(ClaudeStops)
    \/ OfClaude(CliTakes) \/ OfClaude(CliBegins) \/ OfClaude(CliStreams) \/ OfClaude(CliSpeaks) \/ OfClaude(CliTool)
    \/ OfClaude(CliAsks) \/ OfClaude(CliSwitches) \/ OfClaude(CliLimits) \/ OfClaude(CliResults) \/ OfClaude(CliIdles) \/ OfClaude(CliDies)

PiSteps ==
    \/ OfPi(PiStart) \/ OfPi(PiStartTurn) \/ OfPi(PiSteer) \/ OfPi(PiInterrupt) \/ OfPi(PiNoActiveTurn) \/ OfPi(PiRespond)
    \/ OfPi(PiApplySettings) \/ OfPi(PiCompact) \/ OfPi(PiWrites) \/ OfPi(PiCancels) \/ OfPi(PiGivesUp) \/ OfPi(PiReadsResponse)
    \/ OfPi(PiReadsRecord) \/ OfPi(PiElapses) \/ OfPi(PiWakes) \/ OfPi(PiDialogExpires) \/ OfPi(PiEndsTurnHere) \/ OfPi(PiMissesSettle)
    \/ OfPi(PiExits) \/ OfPi(PiReturns) \/ OfPi(PiClose) \/ OfPi(PiStops) \/ OfPi(PiTakes) \/ OfPi(PiRuns) \/ OfPi(PiAnswers)
    \/ OfPi(PiCompacts) \/ OfPi(PiCommandEnds) \/ OfPi(PiStreams) \/ OfPi(PiSpeaks) \/ OfPi(PiTool) \/ OfPi(PiAsks) \/ OfPi(PiTimesOut)
    \/ OfPi(PiSwitches) \/ OfPi(PiRunEnds) \/ OfPi(PiSettles) \/ OfPi(PiDies)

EachRun(A(_, _)) == part = "updates" /\ \E s \in Servers : \E n \in RunsOf(s) : OfUpdates(A(s, n))
EachServer(A(_)) == part = "updates" /\ \E s \in Servers : OfUpdates(A(s))
UpdateSteps ==
    \/ EachRun(UpdLatest) \/ EachRun(UpdDisk) \/ EachRun(UpdFound) \/ EachRun(UpdLocks) \/ EachRun(UpdInstalls) \/ EachRun(UpdBegins)
    \/ EachRun(UpdWaits) \/ EachRun(UpdWakes) \/ EachRun(UpdChecks) \/ EachRun(UpdRestarts) \/ EachRun(UpdUnholds) \/ EachRun(UpdFails)
    \/ part = "updates" /\ \E s \in Servers, now \in BOOLEAN : OfUpdates(UpdPost(s, now))
    \/ EachServer(UpdDelete) \/ EachServer(UpdTicks) \/ EachServer(UpdMessage) \/ EachServer(UpdDispatch) \/ EachServer(UpdAgent)
    \/ EachServer(UpdAgentRestarts) \/ EachServer(UpdPrompts) \/ EachServer(PidCreates) \/ EachServer(PidWrites) \/ EachServer(PidReads)
    \/ EachServer(PidRemoves) \/ EachServer(SrvServes) \/ EachServer(SrvStops) \/ EachServer(SrvStopped) \/ EachServer(SrvExits)
    \/ EachServer(SrvExecs) \/ EachServer(SrvKilled) \/ EachServer(SrvTerm) \/ EachServer(SrvUsr2) \/ EachServer(SrvUsr2Checks)
    \/ EachServer(SrvUsr2Restarts)
    \/ OfUpdates(CliLatest) \/ OfUpdates(CliLocks) \/ OfUpdates(CliInstalls) \/ OfUpdates(CliSelects) \/ OfUpdates(CliSignals)
    \/ OfUpdates(CliAwaits) \/ OfUpdates(CliEnds) \/ OfUpdates(Published) \/ OfUpdates(Permitted)

EachFollow(A(_)) == part = "hub" /\ \E f \in hub.follows : OfHub(A(f))
EachCall(A(_)) == part = "hub" /\ \E c \in hub.calls : OfHub(A(c))
HubSteps ==
    \/ EachFollow(FollowGets) \/ EachFollow(FollowReads) \/ EachFollow(FollowFails) \/ EachFollow(FollowFailed) \/ EachFollow(FollowRetries)
    \/ EachCall(HubUpserts) \/ EachCall(HubStopped) \/ EachCall(HubHears) \/ EachCall(HubWatches) \/ EachCall(HubUnwatches)
    \/ EachCall(AddChecks) \/ EachCall(AddUpdates) \/ EachCall(HubForgets)
    \/ part = "hub" /\ \E d \in DOMAIN hubScope.mail : OfHub(Receives(d))
    \/ part = "hub" /\ \E u \in DOMAIN hubScope.net : OfHub(HubAdds(u))
    \/ part = "hub" /\ \E id \in DOMAIN hub.inst : OfHub(HubRemoves(id))
    \/ part = "hub" /\ \E id \in DOMAIN hub.inst : OfHub(HubProxies(id))
    \/ part = "hub" /\ \E id \in DOMAIN hub.inst, p \in hubScope.patch : OfHub(HubPatches(id, p))
    \/ part = "hub" /\ \E ids \in hubScope.orders : OfHub(HubSetsPins(ids))
    \/ part = "hub" /\ \E v \in hubScope.favorites : OfHub(HubSetsFavorites(v))
    \/ part = "hub" /\ \E f \in Files : OfHub(FileBegins(f))
    \/ part = "hub" /\ \E f \in Files, ok \in BOOLEAN : OfHub(FileWrites(f, ok))
    \/ part = "hub" /\ \E data \in hubScope.files : OfHub(FileEdited(data))
    \/ part = "hub" /\ \E id \in hub.starting : OfHub(HubRunWatches(id))
    \/ OfHub(HubStarts) \/ OfHub(HubRuns) \/ OfHub(HubStops) \/ OfHub(HubCloses) \/ OfHub(HubExits) \/ OfHub(HubKilled)
    \/ OfHub(PageOpens) \/ OfHub(PageTakes) \/ OfHub(HubTicks)
    \/ part = "hub" /\ \E u \in DOMAIN hubScope.net, a \in hubScope.answers : OfHub(HubWorldTurns(u, a))

EachPlay(A(_)) == part = "demo" /\ \E r \in demoRuns : OfDemo(A(r))
EitherWay(A(_, _)) == part = "demo" /\ \E r \in demoRuns, interrupted \in BOOLEAN : OfDemo(A(r, interrupted))
DemoSteps ==
    \/ OfDemo(DemoStarts) \/ OfDemo(DemoSteer) \/ OfDemo(DemoInterrupt) \/ OfDemo(DemoCompacts) \/ OfDemo(DemoCompacted)
    \/ OfDemo(DemoClose) \/ OfDemo(DemoExited)
    \/ part = "demo" /\ \E words \in demoScope.words : OfDemo(StartTurn(words))
    \/ part = "demo" /\ \E id \in demoConv.open, answer \in {"allow", "deny"} : OfDemo(DemoRespond(id, answer))
    \/ part = "demo" /\ \E mode \in demoScope.modes : OfDemo(DemoApplySettings(mode))
    \/ part = "demo" /\ \E resume \in {0, demoConv.ref} : OfDemo(DemoAgain(resume))
    \/ EachPlay(RunBegins) \/ EachPlay(RunTool) \/ EachPlay(RunAsks) \/ EachPlay(RunOpens) \/ EachPlay(RunLeavesPlan)
    \/ EachPlay(RunTellsMode) \/ EachPlay(RunLosesLogin) \/ EachPlay(RunCrashes) \/ EachPlay(RunFails) \/ EachPlay(RunReplies)
    \/ EachPlay(RunFinishes) \/ EachPlay(RunReports) \/ EitherWay(RunStreams) \/ EitherWay(RunToolEnds)

EachStream(A(_)) == part = "terminal" /\ \E c \in termScope.clients : OfTerm(A(c))
TermSteps ==
    \/ OfTerm(TermStartFails) \/ OfTerm(ShellExits) \/ OfTerm(ShellWaited) \/ OfTerm(ShellRead) \/ OfTerm(ShellOutputEnds)
    \/ OfTerm(ShellDone) \/ OfTerm(TermStop) \/ OfTerm(TermClose) \/ OfTerm(TermKills) \/ OfTerm(TermClosed)
    \/ part = "terminal" /\ \E flags \in termScope.chunks : OfTerm(ShellWrites(flags))
    \/ part = "terminal" /\ \E cells \in 1 .. 2 : OfTerm(TermResize(cells))
    \/ EachStream(TermWatch) \/ EachStream(StreamSends) \/ EachStream(StreamEnds) \/ EachStream(StreamStops)

UploadSteps ==
    \/ OfUploads(ForgetConversation) \/ OfUploads(UploadTimePasses) \/ OfUploads(UploadsStop) \/ OfUploads(UploadsStopped)
    \/ OfUploads(UploadsDie) \/ OfUploads(UploadsStart)
    \/ part = "uploads" /\ \E c \in Contents, n \in Names, by \in upScope.by : OfUploads(SaveBegins(c, n, by))
    \/ part = "uploads" /\ \E s \in saves : OfUploads(SaveFails(s))
    \/ part = "uploads" /\ \E s \in saves : OfUploads(SaveTold(s))
    \/ part = "uploads" /\ \E s \in saves, ok \in BOOLEAN : OfUploads(SavePlaces(s, ok))
    \/ part = "uploads" /\ \E c \in Contents : OfUploads(SendDraft(c))
    \/ part = "uploads" /\ \E c \in Contents : OfUploads(QueueSends(c))
    \/ part = "uploads" /\ \E asked \in BOOLEAN : OfUploads(PruneLooks(asked))
    \/ part = "uploads" /\ \E ok \in BOOLEAN : OfUploads(PruneScans(ok))
    \/ part = "uploads" /\ \E kept \in SUBSET (Contents \X Names) : OfUploads(PruneRemoves(kept))

EachSend(A(_, _)) ==
    part = "handoff" /\ \E c \in hcalls, how \in {"applied", "queued", "unconfirmed", "refused", "invalid"} : OfHandoff(A(c, how))
HandoffSteps ==
    \/ OfHandoff(HandoffGet) \/ OfHandoff(MessagePosted) \/ OfHandoff(AgentReplies) \/ OfHandoff(AgentWorks)
    \/ OfHandoff(AgentRequests) \/ OfHandoff(QueuedGoes) \/ OfHandoff(HandoffAgentRestarts) \/ OfHandoff(HandoffAgentBack)
    \/ OfHandoff(HandoffServerAgain)
    \/ part = "handoff" /\ \E reply \in 1 .. 2, id \in bots.offers : OfHandoff(HandoffReply(reply, id))
    \/ part = "handoff" /\ \E c \in hcalls : OfHandoff(HandoffPends(c))
    \/ EachSend(HandoffSends) \/ EachSend(HandoffAnswers) \/ EachSend(MessageSends)
    \/ part = "handoff" /\ \E i \in DOMAIN talk.reqs : OfHandoff(RequestCloses(talk.reqs[i].n))

Next ==
    \/ CodexSteps \/ ClaudeSteps \/ PiSteps \/ UpdateSteps \/ HubSteps \/ DemoSteps
    \/ TermSteps \/ UploadSteps \/ HandoffSteps

partsVars == <<part, codexVars, claudeVars, piVars, updVars, hubVars, demoVars, services>>
PartsSpec == Init /\ [][Next]_partsVars

-----------------------------------------------------------------------------
(* What they promise; each part's own definition says what it is about.      *)

\* The chat shows a turn whole once it ended: every adapter flushes what its
\* throttle held back, ends the tool calls it showed and tells the errors of
\* the turn, whichever of the agent, an interrupt or its death ended it
\* (completeTurn, endTurn, emitFinal, exited, script.finish).
ChatsAreComplete ==
    CASE part = "codex" -> CodexChatIsComplete /\ CodexErrorsAreTold
      [] part = "claude" -> ClaudeChatIsComplete /\ ClaudeErrorsAreTold
      [] part = "pi" -> PiChatIsComplete
      [] part = "demo" -> DemoTurnsEnd
      [] OTHER -> TRUE

\* Once nothing is under way between an adapter and its agent, they agree on
\* whether a turn runs, and the conversation is busy just as long: no late
\* response, no end of a turn that was given up on and no turn the agent
\* starts by itself leaves it busy for good (beginTurn, turnCompleted,
\* handleSettled, endTurn).
TurnsAgree ==
    CASE part = "codex" -> CodexTurnsAgree
      [] part = "claude" -> ClaudeTurnsAgree
      [] part = "pi" -> PiTurnsAgree
      [] OTHER -> TRUE

\* A request the agent waits on can be answered or its answer is on its way,
\* whatever ended its turn meanwhile (closeTurnRequests, cancelDialogs,
\* control_cancel_request).
NoneStranded ==
    CASE part = "codex" -> CodexNoneStranded
      [] part = "claude" -> ClaudeNoneStranded
      [] part = "pi" -> PiNoneStranded
      [] OTHER -> TRUE

\* The settings shown are those the agent works with, or will from its next
\* turn on, after refused, late and concurrent changes (ApplySettings,
\* restoreChanges, handleStatus, thinking_level_changed).
SettingsApply ==
    CASE part = "codex" -> CodexSettingsApply
      [] part = "claude" -> ClaudeSettingsAgree
      [] part = "pi" -> PiSettingsAgree
      [] OTHER -> TRUE

\* One update at a time runs and says what it does, it misses no idle agent,
\* and the server that runs again is a program that was checked, keeps its
\* prompt, and its PID file unless another removed it as stale while it was
\* not, and gives way to a shutdown (update.go, server.go, reexec.go).
UpdatesAreSafe ==
    part = "updates" => UpdateStatusAgrees /\ UpdateIsWoken /\ RestartIsSafe /\ RestartIsReported

\* The hub follows each instance with one watch, its page and its file show
\* what it has, and events that come twice or out of order change nothing
\* they should not (hub.go, store.go, watch.go, webhook.go).
HubKeepsTrack ==
    part = "hub" => /\ HubFollowsEach /\ HubPageIsCurrent /\ HubPinsAreDense /\ HubWorkIsSeen
                    /\ HubFileIsCurrent /\ HubTakesOnce /\ HubProxiesHome /\ HubMuteEnds

\* What a client is served is so: the terminal shows it the output without a
\* gap (shellterm.go, scrollback.go), the files its messages and drafts name
\* are there whatever is pruned (uploads.go, upload_prune.go), and of the
\* replies to one offer one at most reaches the agent (handoff.go).
ClientsAreServed ==
    CASE part = "terminal" -> TerminalShowsAll
      [] part = "uploads" -> UploadsAreThere
      [] part = "handoff" -> RepliesGoOnce
      [] OTHER -> TRUE

\* No step takes an agent's work or an instance away from where it runs: an
\* update does not restart under a working agent or bring an older program,
\* unless forced or --version of the one in place failed (update.go,
\* program.go), and the hub moves only instances that are gone where they
\* were (store.go).
StepsAreCareful == [][(part = "updates" => UpdateStep) /\ (part = "hub" => HubMove)]_partsVars
=============================================================================
