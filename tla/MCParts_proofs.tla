--------------------------- MODULE MCParts_proofs ---------------------------
(***************************************************************************)
(* What is proved of the parts together: a behaviour of MCParts that is of  *)
(* one part is a behaviour of that part's own specification, so what is     *)
(* proved of the part is proved of what the run checks, for every scope and *)
(* not only those of the run.  The hub and the services have modules of     *)
(* their own; the invariant of the demo adapter is here.                    *)
(***************************************************************************)
EXTENDS MCParts, Services_proofs, Hub_proofs, SequenceTheorems, WellFoundedInduction

\* Each part's steps are of that part.
LEMMA StepsAreOfTheirPart ==
    /\ CodexSteps => part = "codex" /\ UNCHANGED part
    /\ ClaudeSteps => part = "claude" /\ UNCHANGED part
    /\ PiSteps => part = "pi" /\ UNCHANGED part
    /\ HubSteps => part = "hub" /\ UNCHANGED part
    /\ DemoSteps => part = "demo" /\ UNCHANGED part
    /\ TermSteps => part = "terminal" /\ UNCHANGED part
    /\ UploadSteps => part = "uploads" /\ UNCHANGED part
    /\ HandoffSteps => part = "handoff" /\ UNCHANGED part
<1>1. CodexSteps => part = "codex" /\ UNCHANGED part
  BY DEF CodexSteps, OfCodex
<1>2. ClaudeSteps => part = "claude" /\ UNCHANGED part
  BY DEF ClaudeSteps, OfClaude
<1>3. PiSteps => part = "pi" /\ UNCHANGED part
  BY DEF PiSteps, OfPi
<1>4. HubSteps => part = "hub" /\ UNCHANGED part
  BY DEF HubSteps, OfHub, EachFollow, EachCall
<1>5. DemoSteps => part = "demo" /\ UNCHANGED part
  BY DEF DemoSteps, OfDemo, EachPlay, EitherWay
<1>6. TermSteps => part = "terminal" /\ UNCHANGED part
  BY DEF TermSteps, OfTerm, EachStream
<1>7. UploadSteps => part = "uploads" /\ UNCHANGED part
  BY DEF UploadSteps, OfUploads
<1>8. HandoffSteps => part = "handoff" /\ UNCHANGED part
  BY DEF HandoffSteps, OfHandoff, EachSend
<1> QED
  BY <1>1, <1>2, <1>3, <1>4, <1>5, <1>6, <1>7, <1>8

\* A step of the updates in MCParts is one of UpdNext.
LEMMA UpdateStepsAreNext ==
    ASSUME UpdateSteps
    PROVE  part = "updates" /\ UNCHANGED part /\ UpdNext
<1>1. CASE \/ EachRun(UpdLatest) \/ EachRun(UpdDisk) \/ EachRun(UpdFound) \/ EachRun(UpdLocks) \/ EachRun(UpdInstalls) \/ EachRun(UpdBegins)
           \/ EachRun(UpdWaits) \/ EachRun(UpdWakes) \/ EachRun(UpdChecks) \/ EachRun(UpdRestarts) \/ EachRun(UpdUnholds) \/ EachRun(UpdFails)
  BY <1>1 DEF EachRun, OfUpdates, UpdNext, UpdRuns
<1>2. CASE part = "updates" /\ \E s \in Servers, now \in BOOLEAN : OfUpdates(UpdPost(s, now))
  BY <1>2 DEF OfUpdates, UpdNext
<1>3. CASE \/ EachServer(UpdDelete) \/ EachServer(UpdTicks) \/ EachServer(UpdMessage) \/ EachServer(UpdDispatch) \/ EachServer(UpdAgent)
           \/ EachServer(UpdAgentRestarts) \/ EachServer(UpdPrompts)
  BY <1>3 DEF EachServer, OfUpdates, UpdNext
<1>4. CASE \/ EachServer(PidCreates) \/ EachServer(PidWrites) \/ EachServer(PidReads) \/ EachServer(PidRemoves)
           \/ EachServer(SrvServes) \/ EachServer(SrvStops) \/ EachServer(SrvStopped) \/ EachServer(SrvExits) \/ EachServer(SrvExecs)
           \/ EachServer(SrvKilled) \/ EachServer(SrvTerm) \/ EachServer(SrvUsr2) \/ EachServer(SrvUsr2Checks) \/ EachServer(SrvUsr2Restarts)
  BY <1>4 DEF EachServer, OfUpdates, UpdNext
<1>5. CASE \/ OfUpdates(CliLatest) \/ OfUpdates(CliLocks) \/ OfUpdates(CliInstalls) \/ OfUpdates(CliSelects) \/ OfUpdates(CliSignals)
           \/ OfUpdates(CliAwaits) \/ OfUpdates(CliEnds) \/ OfUpdates(Published) \/ OfUpdates(Permitted)
  BY <1>5 DEF OfUpdates, UpdNext
<1> QED
  BY <1>1, <1>2, <1>3, <1>4, <1>5 DEF UpdateSteps

\* A step of the hub in MCParts is one of HubNext.
LEMMA HubStepsAreNext ==
    ASSUME HubSteps
    PROVE  HubNext
<1>1. CASE \/ EachFollow(FollowGets) \/ EachFollow(FollowReads) \/ EachFollow(FollowFails) \/ EachFollow(FollowFailed) \/ EachFollow(FollowRetries)
  BY <1>1 DEF EachFollow, OfHub, HubNext, HubFollows
<1>2. CASE \/ EachCall(HubUpserts) \/ EachCall(HubStopped) \/ EachCall(HubHears) \/ EachCall(HubWatches) \/ EachCall(HubUnwatches)
           \/ EachCall(AddChecks) \/ EachCall(AddUpdates) \/ EachCall(HubForgets)
  BY <1>2 DEF EachCall, OfHub, HubNext, HubHandles
<1>3. CASE \/ part = "hub" /\ \E d \in DOMAIN hubScope.mail : OfHub(Receives(d))
           \/ part = "hub" /\ \E u \in DOMAIN hubScope.net : OfHub(HubAdds(u))
           \/ part = "hub" /\ \E id \in DOMAIN hub.inst : OfHub(HubRemoves(id))
           \/ part = "hub" /\ \E id \in DOMAIN hub.inst : OfHub(HubProxies(id))
           \/ part = "hub" /\ \E id \in DOMAIN hub.inst, p \in hubScope.patch : OfHub(HubPatches(id, p))
           \/ part = "hub" /\ \E ids \in hubScope.orders : OfHub(HubSetsPins(ids))
           \/ part = "hub" /\ \E v \in hubScope.favorites : OfHub(HubSetsFavorites(v))
  BY <1>3 DEF OfHub, HubNext, HubAsked
<1>4. CASE \/ part = "hub" /\ \E f \in Files : OfHub(FileBegins(f))
           \/ part = "hub" /\ \E f \in Files, ok \in BOOLEAN : OfHub(FileWrites(f, ok))
           \/ part = "hub" /\ \E data \in hubScope.files : OfHub(FileEdited(data))
  BY <1>4 DEF OfHub, HubNext, HubKeeps
<1>5. CASE \/ part = "hub" /\ \E id \in hub.starting : OfHub(HubRunWatches(id))
           \/ OfHub(HubStarts) \/ OfHub(HubRuns) \/ OfHub(HubStops) \/ OfHub(HubCloses) \/ OfHub(HubExits) \/ OfHub(HubKilled)
  BY <1>5 DEF OfHub, HubNext, HubLives
<1>6. CASE \/ OfHub(PageOpens) \/ OfHub(PageTakes) \/ OfHub(HubTicks)
           \/ part = "hub" /\ \E u \in DOMAIN hubScope.net, a \in hubScope.answers : OfHub(HubWorldTurns(u, a))
  BY <1>6 DEF OfHub, HubNext
<1> QED
  BY <1>1, <1>2, <1>3, <1>4, <1>5, <1>6 DEF HubSteps

-----------------------------------------------------------------------------
(* The demo adapter.                                                         *)

DemoFields == {"gen", "resume", "ref", "started", "closed", "exit", "active", "turns", "compacted", "mode", "requests", "waiting",
               "steers", "left", "broken"}
ConvFields == {"agent", "state", "ref", "turns", "started", "results", "tools", "open", "usage", "mode", "raced", "lost", "steers",
               "interrupts", "compacts", "changes", "closes"}
PlayFields == {"gen", "n", "words", "stages", "at", "pc", "request", "answer", "cancelled", "result", "limited"}
Unsaid == ""
PlayResults == {Unsaid, "end", "interrupted", "error", "limited", "transient"}
ToolPcs == {"tool", "open", "wait", "mode"}

\* A turn thinks, runs its tools one after the other, and ends with a stage
\* that nothing follows.
IsTool(s, i) == s[i][1] = "tool"
StagesHold(s) ==
    /\ Len(s) \in Nat \ {0} /\ DOMAIN s = 1..Len(s)
    /\ s[Len(s)][1] \notin {"think", "text", "tool"}
    /\ \A i \in DOMAIN s : IsTool(s, i) => i >= 2 /\ \A j \in 2..(i - 1) : IsTool(s, j)

\* The turn r that the adapter d plays for the conversation c: it is the
\* adapter's until it reports, and only the tool it is at runs.
NoneRuns(c) == \A t \in DOMAIN c.tools : c.tools[t] # "running"
SteersAnswered(d, c) == d.steers = 0 \/ c.lost
PlayHolds(d, c, r) ==
    /\ IF r.pc = "begin" THEN c.state = "starting" /\ c.tools = <<>> /\ r.at = 1
       ELSE c.state = "running" /\ StagesHold(r.stages) /\ r.at \in DOMAIN r.stages
    /\ r.pc \in ToolPcs => IsTool(r.stages, r.at) /\ Len(c.tools) = r.at - 1
    /\ r.pc = "stage" =>
          /\ r.at = 1 => c.tools = <<>>
          /\ r.at >= 2 /\ (\A j \in 2..(r.at - 1) : IsTool(r.stages, j)) => Len(c.tools) = r.at - 2
    /\ \A t \in DOMAIN c.tools : c.tools[t] = "running" => r.pc \in ToolPcs /\ t = r.at - 1
    /\ r.result \in PlayResults /\ (r.pc \notin {"finish", "report"} => r.result = Unsaid)
    /\ r.result = "end" => SteersAnswered(d, c)
    /\ d.active = IF r.pc = "report" THEN 0 ELSE r.n
    /\ r.pc = "report" => r.request = d.turns - d.compacted
    /\ r.pc = "mode" => d.mode = "bypass" \/ c.raced

\* The turns of the adapter that runs, and of those before it.
RunsHold(d, c, runs) ==
    /\ \A r \in runs : r.gen = d.gen => PlayHolds(d, c, r)
    /\ \A r, s \in runs : r.gen = d.gen /\ s.gen = d.gen => r = s
    /\ ~d.closed /\ d.active # 0 => \E r \in runs : r.gen = d.gen
    /\ c.mode = d.mode \/ c.raced \/ \E r \in runs : r.gen = d.gen /\ r.pc = "mode"
    /\ c.state \in {"idle", "compacting"} =>
          NoneRuns(c) /\ c.open = {} /\ (c.results # <<>> /\ Last(c.results) = "end" => SteersAnswered(d, c))
    /\ c.state = "idle" => c.usage = d.turns - d.compacted
    /\ c.state = "compacting" => d.turns = d.compacted
DemoFresh(d, c, runs) ==
    /\ d.active = 0 /\ d.turns = 0 /\ d.compacted = 0 /\ d.steers = 0 /\ d.mode = "bypass" /\ c.mode = "bypass"
    /\ \A r \in runs : r.gen < d.gen
DemoTyped(d, c, runs) ==
    /\ DemoFields \subseteq DOMAIN d /\ ConvFields \subseteq DOMAIN c
    /\ d.gen \in Nat /\ d.turns \in Nat /\ d.compacted \in Nat
    /\ c.tools \in Seq({"running", "failed", "completed"}) /\ c.results \in Seq(PlayResults)
    /\ \A r \in runs : PlayFields \subseteq DOMAIN r /\ r.gen \in Nat /\ r.gen <= d.gen
DemoHolds(d, c, runs) ==
    /\ DemoTyped(d, c, runs)
    /\ c.agent \in {"starting", "running", "login", "down"}
    /\ c.agent # "running" => c.state = "idle" /\ c.open = {} /\ c.usage = 0 /\ NoneRuns(c)
    /\ c.agent = "starting" => DemoFresh(d, c, runs)
    /\ c.agent = "running" => RunsHold(d, c, runs)
DemoIInv == DemoHolds(demo, demoConv, demoRuns)

\* A line of stages: tools only, or tools and then an end.
AllTools(s) == IsLine(s) /\ \A i \in 1..Len(s) : IsTool(s, i)
ToolsThenEnd(s) ==
    /\ IsLine(s) /\ Len(s) >= 1 /\ s[Len(s)][1] \notin {"think", "text", "tool"}
    /\ \A i \in 1..Len(s) : IsTool(s, i) => \A j \in 1..(i - 1) : IsTool(s, j)

\* Where the stages of two lines are in the one that joins them.
LEMMA StagesJoin ==
    ASSUME NEW a, NEW b, IsLine(a), IsLine(b)
    PROVE  /\ IsLine(a \o b) /\ Len(a) \in Nat /\ Len(b) \in Nat /\ Len(a \o b) = Len(a) + Len(b)
           /\ \A i \in 1..Len(a) : (a \o b)[i] = a[i]
           /\ \A i \in 1..Len(b) : (a \o b)[Len(a) + i] = b[i]
<1>0. PICK A, B : a \in Seq(A) /\ b \in Seq(B)
  BY DEF IsLine
<1>a. a \in Seq(A \cup B) /\ b \in Seq(A \cup B)
  BY <1>0, SeqMonotonic
<1>1. /\ a \o b \in Seq(A \cup B) /\ Len(a \o b) = Len(a) + Len(b)
      /\ \A i \in 1 .. Len(a) + Len(b) : (a \o b)[i] = IF i <= Len(a) THEN a[i] ELSE b[i - Len(a)]
  BY <1>a, ConcatProperties
<1>2. Len(a) \in Nat /\ Len(b) \in Nat
  BY <1>0, LenProperties
<1>3. ASSUME NEW i \in 1..Len(a) PROVE (a \o b)[i] = a[i]
  BY <1>1, <1>2
<1>4. ASSUME NEW i \in 1..Len(b) PROVE (a \o b)[Len(a) + i] = b[i]
  <2>1. Len(a) + i \in 1 .. Len(a) + Len(b) /\ ~(Len(a) + i <= Len(a)) /\ Len(a) + i - Len(a) = i
    BY <1>2
  <2> QED
    BY <1>1, <2>1
<1> QED
  BY <1>1, <1>2, <1>3, <1>4 DEF IsLine

\* Tools after tools.
LEMMA ToolsJoin ==
    ASSUME NEW a, NEW b, AllTools(a), AllTools(b)
    PROVE  AllTools(a \o b)
<1>1. PICK c : c = a \o b
  OBVIOUS
<1>2. /\ IsLine(c) /\ Len(a) \in Nat /\ Len(b) \in Nat /\ Len(c) = Len(a) + Len(b)
      /\ \A i \in 1..Len(a) : c[i] = a[i]
      /\ \A i \in 1..Len(b) : c[Len(a) + i] = b[i]
  BY <1>1, StagesJoin DEF AllTools
<1>3. ASSUME NEW i \in 1..Len(c) PROVE IsTool(c, i)
  <2>1. CASE i <= Len(a)
    BY <1>2, <1>3, <2>1 DEF AllTools, IsTool
  <2>2. CASE i > Len(a)
    <3>1. i - Len(a) \in 1..Len(b) /\ Len(a) + (i - Len(a)) = i
      BY <1>2, <1>3, <2>2
    <3>2. c[i] = b[i - Len(a)]
      BY <1>2, <3>1
    <3> QED
      BY <3>1, <3>2 DEF AllTools, IsTool
  <2> QED
    BY <1>2, <2>1, <2>2
<1> QED
  BY <1>1, <1>2, <1>3 DEF AllTools

\* An end after tools.
LEMMA ToolsEnd ==
    ASSUME NEW a, NEW b, AllTools(a), ToolsThenEnd(b)
    PROVE  ToolsThenEnd(a \o b)
<1>1. PICK c : c = a \o b
  OBVIOUS
<1>2. /\ IsLine(c) /\ Len(a) \in Nat /\ Len(b) \in Nat /\ Len(c) = Len(a) + Len(b)
      /\ \A i \in 1..Len(a) : c[i] = a[i]
      /\ \A i \in 1..Len(b) : c[Len(a) + i] = b[i]
  BY <1>1, StagesJoin DEF AllTools, ToolsThenEnd
<1>3. Len(b) \in 1..Len(b)
  BY <1>2 DEF ToolsThenEnd
<1>4. c[Len(c)] = b[Len(b)] /\ Len(c) >= 1
  BY <1>2, <1>3
<1>5. ASSUME NEW i \in 1..Len(c), IsTool(c, i), NEW j \in 1..(i - 1) PROVE IsTool(c, j)
  <2>1. CASE j <= Len(a)
    BY <1>2, <1>5, <2>1 DEF AllTools, IsTool
  <2>2. CASE j > Len(a)
    <3>1. /\ i - Len(a) \in 1..Len(b) /\ Len(a) + (i - Len(a)) = i
          /\ j - Len(a) \in 1..(i - Len(a) - 1) /\ j - Len(a) \in 1..Len(b) /\ Len(a) + (j - Len(a)) = j
      BY <1>2, <1>5, <2>2
    <3>2. c[i] = b[i - Len(a)] /\ c[j] = b[j - Len(a)]
      BY <1>2, <3>1
    <3>3. IsTool(b, i - Len(a))
      BY <1>5, <3>2 DEF IsTool
    <3>4. IsTool(b, j - Len(a))
      BY <3>1, <3>3 DEF ToolsThenEnd
    <3> QED
      BY <3>2, <3>4 DEF IsTool
  <2> QED
    BY <1>2, <1>5, <2>1, <2>2
<1>6. c[Len(c)][1] \notin {"think", "text", "tool"}
  BY <1>4 DEF ToolsThenEnd
<1> QED
  BY <1>1, <1>2, <1>4, <1>5, <1>6 DEF ToolsThenEnd

\* Short lines.
LEMMA ShortLines ==
    ASSUME NEW a, NEW b, NEW c, NEW d
    PROVE  /\ IsLine(<<<<a, b>>>>) /\ Len(<<<<a, b>>>>) = 1 /\ <<<<a, b>>>>[1][1] = a
           /\ IsLine(<<<<a, b>>, <<c, d>>>>) /\ Len(<<<<a, b>>, <<c, d>>>>) = 2
           /\ <<<<a, b>>, <<c, d>>>>[1][1] = a /\ <<<<a, b>>, <<c, d>>>>[2][1] = c
<1>1. PICK x, y : x = <<a, b>> /\ y = <<c, d>>
  OBVIOUS
<1>2. x[1] = a /\ y[1] = c
  BY <1>1
<1>3. <<x>> \in Seq({x, y}) /\ Len(<<x>>) = 1 /\ <<x>>[1] = x
  OBVIOUS
<1>4. <<x, y>> \in Seq({x, y}) /\ Len(<<x, y>>) = 2 /\ <<x, y>>[1] = x /\ <<x, y>>[2] = y
  OBVIOUS
<1> QED
  BY <1>1, <1>2, <1>3, <1>4 DEF IsLine

\* A tool, or none.
LEMMA ToolMaybe ==
    ASSUME NEW c, NEW ask
    PROVE  AllTools(If(c, <<"tool", ask>>))
<1>1. CASE c
  <2>1. If(c, <<"tool", ask>>) = <<<<"tool", ask>>>>
    BY <1>1 DEF If
  <2>2. IsLine(<<<<"tool", ask>>>>) /\ Len(<<<<"tool", ask>>>>) = 1 /\ <<<<"tool", ask>>>>[1][1] = "tool"
    BY ShortLines
  <2> QED
    BY <2>1, <2>2 DEF AllTools, IsTool
<1>2. CASE ~c
  <2>1. If(c, <<"tool", ask>>) = <<>>
    BY <1>2 DEF If
  <2> QED
    BY <2>1 DEF AllTools, IsLine
<1> QED
  BY <1>1, <1>2

\* One last stage, or the words and the last of them.
LEMMA EndsWith ==
    /\ \A kind \in {"login", "crash", "limit", "gateway"} : ToolsThenEnd(<<<<kind, "no">>>>)
    /\ \A c : ToolsThenEnd(If(c, <<"text", "no">>) \o <<<<"text", "no">>, <<"last", "no">>>>)
<1>1. ASSUME NEW kind \in {"login", "crash", "limit", "gateway"} PROVE ToolsThenEnd(<<<<kind, "no">>>>)
  <2>1. PICK s : s = <<<<kind, "no">>>>
    OBVIOUS
  <2>2. IsLine(s) /\ Len(s) = 1 /\ s[1][1] = kind
    BY <2>1, ShortLines
  <2> QED
    BY <2>1, <2>2 DEF ToolsThenEnd, IsTool
<1>2. ASSUME NEW c PROVE ToolsThenEnd(If(c, <<"text", "no">>) \o <<<<"text", "no">>, <<"last", "no">>>>)
  <2>1. PICK a, b : a = <<<<"text", "no">>>> /\ b = <<<<"text", "no">>, <<"last", "no">>>>
    OBVIOUS
  <2>2. /\ IsLine(a) /\ Len(a) = 1 /\ a[1][1] = "text"
        /\ IsLine(b) /\ Len(b) = 2 /\ b[1][1] = "text" /\ b[2][1] = "last"
    BY <2>1, ShortLines
  <2>3. ToolsThenEnd(b)
    <3>1. \A i \in 1..2 : ~IsTool(b, i)
      BY <2>2 DEF IsTool
    <3> QED
      BY <2>2, <3>1 DEF ToolsThenEnd
  <2>4. CASE c
    <3>1. PICK s : s = a \o b
      OBVIOUS
    <3>2. IsLine(s) /\ Len(s) = 3 /\ s[1] = a[1] /\ s[2] = b[1] /\ s[3] = b[2]
      <4>1. /\ IsLine(s) /\ Len(s) = Len(a) + Len(b)
            /\ \A i \in 1..Len(a) : s[i] = a[i]
            /\ \A i \in 1..Len(b) : s[Len(a) + i] = b[i]
        <5>1. IsLine(a) /\ IsLine(b)
          BY <2>2
        <5> QED
          BY <3>1, <5>1, StagesJoin
      <4>2. 1 \in 1..Len(a) /\ 1 \in 1..Len(b) /\ 2 \in 1..Len(b)
        BY <2>2
      <4>3. Len(s) = 3
        BY <2>2, <4>1
      <4>4. s[1] = a[1] /\ s[Len(a) + 1] = b[1] /\ s[Len(a) + 2] = b[2]
        BY <4>1, <4>2
      <4>5. Len(a) + 1 = 2 /\ Len(a) + 2 = 3
        BY <2>2
      <4> QED
        BY <4>1, <4>3, <4>4, <4>5
    <3>3. \A i \in 1..3 : ~IsTool(s, i)
      BY <2>2, <3>2 DEF IsTool
    <3>4. ToolsThenEnd(s)
      BY <2>2, <3>2, <3>3 DEF ToolsThenEnd
    <3> QED
      BY <2>1, <2>4, <3>1, <3>4 DEF If
  <2>5. CASE ~c
    <3>1. PICK e : e = <<>>
      OBVIOUS
    <3>2. e \o b = b
      <4>1. PICK S : b \in Seq(S)
        BY <2>2 DEF IsLine
      <4> QED
        BY <3>1, <4>1
    <3> QED
      BY <2>1, <2>3, <2>5, <3>1, <3>2 DEF If
  <2> QED
    BY <2>4, <2>5
<1> QED
  BY <1>1, <1>2

\* play's stages are such.
LEMMA StagesAre == ASSUME NEW words, NEW mode PROVE StagesHold(Stages(words, mode))
<1>1. PICK first, tools, last :
        /\ first = IF mode = "ask" THEN "run" ELSE "no"
        /\ tools = If("delegate" \in words, <<"tool", "no">>) \o If("approve" \in words, <<"tool", "approve">>)
                   \o If("ask" \in words, <<"tool", "question">>) \o If("plan" \in words \/ mode = "plan", <<"tool", "plan">>)
        /\ last = IF "limit" \in words THEN <<<<"limit", "no">>>>
                  ELSE IF "gateway" \in words THEN <<<<"gateway", "no">>>>
                  ELSE If("long" \in words, <<"text", "no">>) \o <<<<"text", "no">>, <<"last", "no">>>>
  OBVIOUS
<1>3. AllTools(tools)
  <2>1. PICK a, b, c, d :
          /\ a = If("delegate" \in words, <<"tool", "no">>) /\ b = If("approve" \in words, <<"tool", "approve">>)
          /\ c = If("ask" \in words, <<"tool", "question">>) /\ d = If("plan" \in words \/ mode = "plan", <<"tool", "plan">>)
    OBVIOUS
  <2>2. AllTools(a) /\ AllTools(b) /\ AllTools(c) /\ AllTools(d)
    BY <2>1, ToolMaybe
  <2>3. AllTools(a \o b)
    BY <2>2, ToolsJoin
  <2>4. AllTools((a \o b) \o c)
    BY <2>2, <2>3, ToolsJoin
  <2>5. AllTools(((a \o b) \o c) \o d)
    BY <2>2, <2>4, ToolsJoin
  <2> QED
    BY <1>1, <2>1, <2>5
<1>4. ToolsThenEnd(last)
  BY <1>1, EndsWith
<1>5. ToolsThenEnd(tools \o last)
  BY <1>3, <1>4, ToolsEnd
<1>6. PICK e : /\ Stages(words, mode) = <<<<"think", "no">>, <<"tool", first>>>> \o e
              /\ ToolsThenEnd(e)
  <2>1. CASE "login" \in words
    BY <1>1, <2>1, EndsWith DEF Stages
  <2>2. CASE "login" \notin words /\ {"crash", "crashloop"} \cap words # {}
    BY <1>1, <2>2, EndsWith DEF Stages
  <2>3. CASE "login" \notin words /\ ~({"crash", "crashloop"} \cap words # {})
    BY <1>1, <1>5, <2>3 DEF Stages
  <2> QED
    BY <2>1, <2>2, <2>3
<1>7. PICK b, s : b = <<<<"think", "no">>, <<"tool", first>>>> /\ s = b \o e
  OBVIOUS
<1>8. IsLine(b) /\ Len(b) = 2 /\ b[1][1] = "think" /\ b[2][1] = "tool"
  BY <1>7, ShortLines
<1>9. /\ IsLine(s) /\ Len(e) \in Nat /\ Len(s) = 2 + Len(e)
      /\ \A i \in 1..2 : s[i] = b[i]
      /\ \A i \in 1..Len(e) : s[2 + i] = e[i]
  BY <1>6, <1>7, <1>8, StagesJoin DEF ToolsThenEnd
<1>10. DOMAIN s = 1..Len(s) /\ Len(s) \in Nat \ {0}
  BY <1>9, LenProperties DEF IsLine
<1>11. s[Len(s)] = e[Len(e)] /\ Len(e) \in 1..Len(e)
  BY <1>6, <1>9 DEF ToolsThenEnd
<1>12. ASSUME NEW i \in DOMAIN s, IsTool(s, i) PROVE i >= 2 /\ \A j \in 2..(i - 1) : IsTool(s, j)
  <2>1. i # 1
    BY <1>8, <1>9, <1>12 DEF IsTool
  <2>2. ASSUME NEW j \in 2..(i - 1) PROVE IsTool(s, j)
    <3>1. CASE j = 2
      BY <1>8, <1>9, <3>1 DEF IsTool
    <3>2. CASE j # 2
      <4>1. /\ i - 2 \in 1..Len(e) /\ 2 + (i - 2) = i
            /\ j - 2 \in 1..((i - 2) - 1) /\ j - 2 \in 1..Len(e) /\ 2 + (j - 2) = j
        BY <1>9, <1>10, <1>12, <2>2, <3>2
      <4>2. s[i] = e[i - 2] /\ s[j] = e[j - 2]
        BY <1>9, <4>1
      <4>3. IsTool(e, j - 2)
        BY <1>6, <1>12, <4>1, <4>2 DEF ToolsThenEnd, IsTool
      <4> QED
        BY <4>2, <4>3 DEF IsTool
    <3> QED
      BY <3>1, <3>2
  <2> QED
    BY <1>10, <2>1, <2>2
<1>13. s[Len(s)][1] \notin {"think", "text", "tool"}
  BY <1>6, <1>11 DEF ToolsThenEnd
<1> QED
  BY <1>6, <1>7, <1>10, <1>12, <1>13 DEF StagesHold

-----------------------------------------------------------------------------
(* What a step of the demo adapter keeps when it changes none of this.       *)

AlikeDemo(d, e) ==
    /\ DemoFields \subseteq DOMAIN e
    /\ e.gen = d.gen /\ e.active = d.active /\ e.turns = d.turns /\ e.compacted = d.compacted /\ e.steers = d.steers /\ e.mode = d.mode
    /\ d.closed => e.closed
AlikeConv(c, g) ==
    /\ ConvFields \subseteq DOMAIN g
    /\ g.agent = c.agent /\ g.state = c.state /\ g.usage = c.usage /\ g.tools = c.tools /\ g.results = c.results /\ g.mode = c.mode
    /\ g.raced = c.raced /\ g.lost = c.lost /\ g.open \subseteq c.open
SamePlay(x, y) ==
    /\ x.gen = y.gen /\ x.n = y.n /\ x.stages = y.stages /\ x.at = y.at /\ x.pc = y.pc /\ x.request = y.request /\ x.result = y.result

\* A turn that is played is as well played by what is alike.
LEMMA PlayAlike ==
    ASSUME NEW d, NEW e, NEW c, NEW g, NEW x, NEW y, AlikeDemo(d, e), AlikeConv(c, g), SamePlay(x, y), PlayHolds(d, c, y)
    PROVE  PlayHolds(e, g, x)
<1>1. PICK tools : tools = c.tools /\ g.tools = tools
  BY DEF AlikeConv
<1>2. IF x.pc = "begin" THEN g.state = "starting" /\ g.tools = <<>> /\ x.at = 1
      ELSE g.state = "running" /\ StagesHold(x.stages) /\ x.at \in DOMAIN x.stages
  BY DEF PlayHolds, AlikeConv, SamePlay
<1>3. x.pc \in ToolPcs => IsTool(x.stages, x.at) /\ Len(g.tools) = x.at - 1
  BY <1>1 DEF PlayHolds, SamePlay
<1>4. x.pc = "stage" =>
          /\ x.at = 1 => g.tools = <<>>
          /\ x.at >= 2 /\ (\A j \in 2..(x.at - 1) : IsTool(x.stages, j)) => Len(g.tools) = x.at - 2
  BY <1>1 DEF PlayHolds, SamePlay
<1>5. \A t \in DOMAIN g.tools : g.tools[t] = "running" => x.pc \in ToolPcs /\ t = x.at - 1
  BY <1>1 DEF PlayHolds, SamePlay
<1>6. /\ x.result \in PlayResults /\ (x.pc \notin {"finish", "report"} => x.result = Unsaid)
      /\ x.result = "end" => SteersAnswered(e, g)
  BY DEF PlayHolds, SamePlay, AlikeDemo, AlikeConv, SteersAnswered
<1>7. /\ e.active = IF x.pc = "report" THEN 0 ELSE x.n
      /\ x.pc = "report" => x.request = e.turns - e.compacted
      /\ x.pc = "mode" => e.mode = "bypass" \/ g.raced
  BY DEF PlayHolds, SamePlay, AlikeDemo, AlikeConv
<1> QED
  BY <1>2, <1>3, <1>4, <1>5, <1>6, <1>7 DEF PlayHolds

\* A step that changes none of it keeps the invariant.
LEMMA DemoFrame ==
    ASSUME DemoIInv, AlikeDemo(demo, demo'), AlikeConv(demoConv, demoConv'),
           \A x \in demoRuns' : PlayFields \subseteq DOMAIN x /\ \E y \in demoRuns : x.gen = y.gen /\ (y.gen = demo.gen => SamePlay(x, y)),
           \A y \in demoRuns : y.gen = demo.gen => \E x \in demoRuns' : SamePlay(x, y),
           demoConv.agent = "running" => \A x, y \in demoRuns' : x.gen = demo.gen /\ y.gen = demo.gen => x = y
    PROVE  DemoIInv'
<1>1. PICK d, e, c, g, old, new : d = demo /\ e = demo' /\ c = demoConv /\ g = demoConv' /\ old = demoRuns /\ new = demoRuns'
  OBVIOUS
<1>2. DemoHolds(d, c, old) /\ AlikeDemo(d, e) /\ AlikeConv(c, g)
  BY <1>1 DEF DemoIInv
<1>3. /\ \A x \in new : PlayFields \subseteq DOMAIN x /\ \E y \in old : x.gen = y.gen /\ (y.gen = d.gen => SamePlay(x, y))
      /\ \A y \in old : y.gen = d.gen => \E x \in new : SamePlay(x, y)
      /\ c.agent = "running" => \A x, y \in new : x.gen = d.gen /\ y.gen = d.gen => x = y
  BY <1>1
<1>4. DemoTyped(e, g, new)
  BY <1>2, <1>3 DEF DemoHolds, DemoTyped, AlikeDemo, AlikeConv
<1>5. g.agent # "running" => g.state = "idle" /\ g.open = {} /\ g.usage = 0 /\ NoneRuns(g)
  BY <1>2 DEF DemoHolds, AlikeConv, NoneRuns
<1>6. ASSUME g.agent = "starting" PROVE DemoFresh(e, g, new)
  <2>1. DemoFresh(d, c, old)
    BY <1>2, <1>6 DEF DemoHolds, AlikeConv
  <2>2. \A x \in new : x.gen < d.gen
    BY <1>3, <2>1 DEF DemoFresh
  <2> QED
    BY <1>2, <2>1, <2>2 DEF DemoFresh, AlikeDemo, AlikeConv
<1>7. ASSUME g.agent = "running" PROVE RunsHold(e, g, new)
  <2>1. RunsHold(d, c, old) /\ c.agent = "running" /\ e.gen = d.gen
    BY <1>2, <1>7 DEF DemoHolds, AlikeConv, AlikeDemo
  <2>2. ASSUME NEW x \in new, x.gen = e.gen PROVE PlayHolds(e, g, x)
    <3>1. PICK y \in old : x.gen = y.gen /\ SamePlay(x, y)
      BY <1>3, <2>1, <2>2
    <3>2. PlayHolds(d, c, y)
      BY <2>1, <2>2, <3>1 DEF RunsHold
    <3> QED
      BY <1>2, <3>1, <3>2, PlayAlike
  <2>3. \A x, y \in new : x.gen = e.gen /\ y.gen = e.gen => x = y
    BY <1>3, <2>1
  <2>4. \A y \in old : y.gen = d.gen => \E x \in new : x.gen = e.gen /\ x.pc = y.pc
    BY <1>3, <2>1 DEF SamePlay
  <2>5. ~e.closed /\ e.active # 0 => \E r \in new : r.gen = e.gen
    BY <1>2, <2>1, <2>4 DEF RunsHold, AlikeDemo
  <2>6. g.mode = e.mode \/ g.raced \/ \E r \in new : r.gen = e.gen /\ r.pc = "mode"
    BY <1>2, <2>1, <2>4 DEF RunsHold, AlikeDemo, AlikeConv
  <2>7. /\ g.state \in {"idle", "compacting"} =>
              NoneRuns(g) /\ g.open = {} /\ (g.results # <<>> /\ Last(g.results) = "end" => SteersAnswered(e, g))
        /\ g.state = "idle" => g.usage = e.turns - e.compacted
        /\ g.state = "compacting" => e.turns = e.compacted
    BY <1>2, <2>1 DEF RunsHold, AlikeDemo, AlikeConv, NoneRuns, SteersAnswered
  <2> QED
    BY <2>2, <2>3, <2>5, <2>6, <2>7 DEF RunsHold
<1>8. g.agent \in {"starting", "running", "login", "down"}
  BY <1>2 DEF DemoHolds, AlikeConv
<1> QED
  BY <1>1, <1>4, <1>5, <1>6, <1>7, <1>8 DEF DemoIInv, DemoHolds

\* A turn goes on: one of another adapter, or of one whose end was told, or
\* the one that the conversation hears.
LEMMA PlayMoves ==
    ASSUME DemoIInv, NEW r \in demoRuns, NEW s, demoRuns' = (demoRuns \ {r}) \cup {s}, s.gen = r.gen, PlayFields \subseteq DOMAIN s,
           DemoFields \subseteq DOMAIN demo', demo'.gen = demo.gen, demo'.turns = demo.turns, demo'.compacted = demo.compacted,
           r.gen # demo.gen => AlikeDemo(demo, demo'),
           ~Heard(r) => AlikeConv(demoConv, demoConv'),
           Heard(r) => /\ DemoTyped(demo', demoConv', {}) /\ PlayHolds(demo', demoConv', s)
                       /\ demoConv'.agent = "running" /\ demoConv'.state = "running"
                       /\ demoConv'.mode = demo'.mode \/ demoConv'.raced \/ s.pc = "mode"
    PROVE  DemoIInv'
<1>1. PICK d, e, c, g, old, new : d = demo /\ e = demo' /\ c = demoConv /\ g = demoConv' /\ old = demoRuns /\ new = demoRuns'
  OBVIOUS
<1>2. DemoHolds(d, c, old)
  BY <1>1 DEF DemoIInv
<1>3. \A x \in new : PlayFields \subseteq DOMAIN x /\ x.gen \in Nat /\ x.gen <= d.gen
  BY <1>1, <1>2 DEF DemoHolds, DemoTyped
<1>4. CASE r.gen # d.gen
  <2>1. ~Heard(r) /\ AlikeDemo(demo, demo') /\ AlikeConv(demoConv, demoConv')
    BY <1>1, <1>4 DEF Heard, OfThis
  <2>2. \A x \in demoRuns' : \E y \in demoRuns : x.gen = y.gen /\ (y.gen = demo.gen => SamePlay(x, y))
    BY <1>1, <1>4 DEF SamePlay
  <2>3. \A y \in demoRuns : y.gen = demo.gen => \E x \in demoRuns' : SamePlay(x, y)
    BY <1>1, <1>4 DEF SamePlay
  <2>4. demoConv.agent = "running" => \A x, y \in demoRuns' : x.gen = demo.gen /\ y.gen = demo.gen => x = y
    <3>1. \A x \in demoRuns' : x.gen = demo.gen => x \in demoRuns
      BY <1>1, <1>4
    <3> QED
      BY <1>1, <1>2, <3>1 DEF DemoHolds, RunsHold
  <2>5. \A x \in demoRuns' : PlayFields \subseteq DOMAIN x
    BY <1>1, <1>3
  <2> QED
    BY <2>1, <2>2, <2>3, <2>4, <2>5, DemoFrame
<1>5. CASE r.gen = d.gen /\ c.agent # "running"
  <2>1. AlikeConv(c, g)
    BY <1>1, <1>5 DEF Heard
  <2>2. c.agent # "starting"
    BY <1>1, <1>2, <1>5 DEF DemoHolds, DemoFresh, DemoTyped
  <2>3. DemoTyped(e, g, new)
    BY <1>1, <1>2, <1>3, <2>1 DEF DemoHolds, DemoTyped, AlikeConv
  <2>4. g.state = "idle" /\ g.open = {} /\ g.usage = 0 /\ NoneRuns(g) /\ g.agent = c.agent
    BY <1>2, <1>5, <2>1 DEF DemoHolds, AlikeConv, NoneRuns
  <2> QED
    BY <1>1, <1>2, <1>5, <2>2, <2>3, <2>4 DEF DemoIInv, DemoHolds
<1>6. CASE r.gen = d.gen /\ c.agent = "running"
  <2>1. DemoTyped(e, g, {}) /\ PlayHolds(e, g, s) /\ g.agent = "running" /\ g.state = "running"
    BY <1>1, <1>6 DEF Heard, OfThis
  <2>2. g.mode = e.mode \/ g.raced \/ s.pc = "mode"
    BY <1>1, <1>6 DEF Heard, OfThis
  <2>3. DemoTyped(e, g, new)
    BY <1>1, <1>3, <2>1 DEF DemoTyped
  <2>4. \A x \in new : x.gen = e.gen => x = s
    BY <1>1, <1>2, <1>6 DEF DemoHolds, RunsHold
  <2>5. s \in new /\ s.gen = e.gen
    BY <1>1, <1>6
  <2>6. RunsHold(e, g, new)
    BY <2>1, <2>2, <2>4, <2>5 DEF RunsHold
  <2> QED
    BY <1>1, <2>1, <2>3, <2>6 DEF DemoIInv, DemoHolds
<1> QED
  BY <1>4, <1>5, <1>6

-----------------------------------------------------------------------------
(* What makes a turn hold, by where it is.                                   *)

\* In a stage.
LEMMA StageIs ==
    ASSUME NEW d, NEW c, NEW x, x.pc = "stage", c.state = "running", StagesHold(x.stages), x.at \in DOMAIN x.stages,
           x.at = 1 => c.tools = <<>>, x.at >= 2 /\ (\A j \in 2..(x.at - 1) : IsTool(x.stages, j)) => Len(c.tools) = x.at - 2,
           \A t \in DOMAIN c.tools : c.tools[t] # "running", x.result = Unsaid, d.active = x.n
    PROVE  PlayHolds(d, c, x)
<1>1. IF x.pc = "begin" THEN c.state = "starting" /\ c.tools = <<>> /\ x.at = 1
      ELSE c.state = "running" /\ StagesHold(x.stages) /\ x.at \in DOMAIN x.stages
  OBVIOUS
<1>2. x.pc \notin ToolPcs /\ x.pc # "report" /\ x.pc # "mode"
  BY DEF ToolPcs
<1>3. /\ x.at = 1 => c.tools = <<>>
      /\ x.at >= 2 /\ (\A j \in 2..(x.at - 1) : IsTool(x.stages, j)) => Len(c.tools) = x.at - 2
  OBVIOUS
<1>4. \A t \in DOMAIN c.tools : c.tools[t] # "running"
  OBVIOUS
<1>5. x.result \in PlayResults /\ x.result = Unsaid /\ x.result # "end"
  BY Zenon DEF PlayResults, Unsaid
<1> QED
  BY <1>1, <1>2, <1>3, <1>4, <1>5 DEF PlayHolds

\* At a tool.
LEMMA ToolIs ==
    ASSUME NEW d, NEW c, NEW x, x.pc \in ToolPcs, c.state = "running", StagesHold(x.stages), x.at \in DOMAIN x.stages,
           IsTool(x.stages, x.at), Len(c.tools) = x.at - 1,
           \A t \in DOMAIN c.tools : c.tools[t] = "running" => t = x.at - 1, x.result = Unsaid, d.active = x.n,
           x.pc = "mode" => d.mode = "bypass" \/ c.raced
    PROVE  PlayHolds(d, c, x)
<1>1. IF x.pc = "begin" THEN c.state = "starting" /\ c.tools = <<>> /\ x.at = 1
      ELSE c.state = "running" /\ StagesHold(x.stages) /\ x.at \in DOMAIN x.stages
  BY DEF ToolPcs
<1>2. x.pc # "stage" /\ x.pc # "report"
  BY DEF ToolPcs
<1>3. IsTool(x.stages, x.at) /\ Len(c.tools) = x.at - 1
  OBVIOUS
<1>4. \A t \in DOMAIN c.tools : c.tools[t] = "running" => x.pc \in ToolPcs /\ t = x.at - 1
  OBVIOUS
<1>5. x.result \in PlayResults /\ x.result = Unsaid /\ x.result # "end"
  BY Zenon DEF PlayResults, Unsaid
<1> QED
  BY <1>1, <1>2, <1>3, <1>4, <1>5 DEF PlayHolds

\* At its end: with what it came to, and then no longer the adapter's.
LEMMA EndIs ==
    ASSUME NEW d, NEW c, NEW x, c.state = "running", StagesHold(x.stages), x.at \in DOMAIN x.stages, \A t \in DOMAIN c.tools : c.tools[t] # "running",
           x.result \in PlayResults, x.result = "end" => SteersAnswered(d, c),
           \/ x.pc = "finish" /\ d.active = x.n
           \/ x.pc = "report" /\ d.active = 0 /\ x.request = d.turns - d.compacted
    PROVE  PlayHolds(d, c, x)
<1>1. IF x.pc = "begin" THEN c.state = "starting" /\ c.tools = <<>> /\ x.at = 1
      ELSE c.state = "running" /\ StagesHold(x.stages) /\ x.at \in DOMAIN x.stages
  OBVIOUS
<1>2. x.pc \notin ToolPcs /\ x.pc # "stage" /\ x.pc # "mode" /\ x.pc \in {"finish", "report"}
  BY DEF ToolPcs
<1>3. \A t \in DOMAIN c.tools : c.tools[t] # "running"
  OBVIOUS
<1>4. /\ d.active = IF x.pc = "report" THEN 0 ELSE x.n
      /\ x.pc = "report" => x.request = d.turns - d.compacted
  OBVIOUS
<1> QED
  BY <1>1, <1>2, <1>3, <1>4 DEF PlayHolds

\* A thought or a text is not the last stage; a tool neither, and its place
\* among the stages says how many tools were before it.
LEMMA StageGoesOn ==
    ASSUME NEW st, NEW i \in DOMAIN st, StagesHold(st)
    PROVE  /\ st[i][1] \in {"think", "text"} => i \in Nat \ {0} /\ i + 1 \in DOMAIN st /\ ~IsTool(st, i)
           /\ IsTool(st, i) => i \in Nat /\ i >= 2 /\ i + 1 \in DOMAIN st /\ \A j \in 2..(i - 1) : IsTool(st, j)
<1>1. PICK n : n = Len(st)
  OBVIOUS
<1>2. n \in Nat \ {0} /\ DOMAIN st = 1..n /\ st[n][1] \notin {"think", "text", "tool"}
  BY <1>1 DEF StagesHold
<1>3. i \in 1..n
  BY <1>2
<1>4. st[i][1] \in {"think", "text", "tool"} => i + 1 \in 1..n
  BY <1>2, <1>3
<1>5. IsTool(st, i) => i >= 2 /\ \A j \in 2..(i - 1) : IsTool(st, j)
  BY DEF StagesHold
<1>6. i \in Nat \ {0}
  BY <1>2, <1>3
<1> QED
  BY <1>2, <1>4, <1>5, <1>6 DEF IsTool

-----------------------------------------------------------------------------
(* The steps of a turn on its goroutine.                                     *)

\* What the invariant says of one turn.
LEMMA DemoPlayIs ==
    ASSUME DemoIInv, NEW r \in demoRuns
    PROVE  /\ PlayFields \subseteq DOMAIN r /\ AlikeDemo(demo, demo) /\ AlikeConv(demoConv, demoConv)
           /\ DemoTyped(demo, demoConv, {})
           /\ Heard(r) => /\ PlayHolds(demo, demoConv, r)
                          /\ demoConv.mode = demo.mode \/ demoConv.raced \/ r.pc = "mode"
<1>1. PICK d, c, runs : d = demo /\ c = demoConv /\ runs = demoRuns
  OBVIOUS
<1>2. DemoHolds(d, c, runs)
  BY <1>1 DEF DemoIInv
<1>3. DemoTyped(d, c, runs)
  BY <1>2 DEF DemoHolds
<1>4. PlayFields \subseteq DOMAIN r
  BY <1>1, <1>3 DEF DemoTyped
<1>5. AlikeDemo(d, d) /\ AlikeConv(c, c) /\ DemoTyped(d, c, {})
  BY <1>3 DEF DemoTyped, AlikeDemo, AlikeConv
<1>6. ASSUME Heard(r)
      PROVE  /\ PlayHolds(d, c, r)
             /\ c.mode = d.mode \/ c.raced \/ r.pc = "mode"
  <2>1. r.gen = d.gen /\ RunsHold(d, c, runs)
    BY <1>1, <1>2, <1>6 DEF Heard, OfThis, DemoHolds
  <2> QED
    BY <1>1, <2>1 DEF RunsHold
<1> QED
  BY <1>1, <1>4, <1>5, <1>6

\* run: the turn begins.
LEMMA RunBeginsHolds == ASSUME DemoIInv, NEW r, RunBegins(r) PROVE DemoIInv'
<1>1. r \in demoRuns /\ r.pc = "begin"
  BY DEF RunBegins
<1>2. PICK m : m = IF OfThis(r) THEN demo.mode ELSE "bypass"
  OBVIOUS
<1>3. PICK st : st = Stages(r.words, m) /\ StagesHold(st)
  BY StagesAre
<1>4. PICK s : s = [r EXCEPT !.pc = "stage", !.stages = st]
  OBVIOUS
<1>5. demoRuns' = (demoRuns \ {r}) \cup {s} /\ demo' = demo
  BY <1>2, <1>3, <1>4 DEF RunBegins, Goes
<1>6. /\ PlayFields \subseteq DOMAIN r /\ AlikeDemo(demo, demo) /\ AlikeConv(demoConv, demoConv)
      /\ DemoTyped(demo, demoConv, {})
      /\ Heard(r) => /\ PlayHolds(demo, demoConv, r)
                     /\ demoConv.mode = demo.mode \/ demoConv.raced \/ r.pc = "mode"
  BY <1>1, DemoPlayIs
<1>7. /\ PlayFields \subseteq DOMAIN s /\ s.pc = "stage" /\ s.stages = st /\ s.gen = r.gen /\ s.n = r.n /\ s.at = r.at
      /\ s.request = r.request /\ s.result = r.result
  BY <1>4, <1>6 DEF PlayFields
<1>8. ASSUME Heard(r)
      PROVE  /\ DemoTyped(demo', demoConv', {}) /\ PlayHolds(demo', demoConv', s)
             /\ demoConv'.agent = "running" /\ demoConv'.state = "running"
             /\ demoConv'.mode = demo'.mode \/ demoConv'.raced \/ s.pc = "mode"
  <2>1. PICK c, g, d : c = demoConv /\ g = demoConv' /\ d = demo
    OBVIOUS
  <2>2. g = [c EXCEPT !.state = "running", !.started = @ + 1] /\ c.agent = "running"
    BY <1>8, <2>1 DEF RunBegins, Heard
  <2>3. DemoTyped(d, c, {}) /\ PlayHolds(d, c, r)
    BY <1>6, <1>8, <2>1
  <2>4. /\ ConvFields \subseteq DOMAIN g /\ g.state = "running" /\ g.agent = "running" /\ g.tools = c.tools /\ g.results = c.results
        /\ g.mode = c.mode /\ g.raced = c.raced /\ g.lost = c.lost
    BY <2>2, <2>3 DEF DemoTyped, ConvFields
  <2>5. DemoTyped(d, g, {})
    BY <2>3, <2>4 DEF DemoTyped
  <2>6. c.tools = <<>> /\ r.at = 1 /\ r.result = Unsaid /\ d.active = r.n
    BY <1>1, <2>3 DEF PlayHolds
  <2>7. PlayHolds(d, g, s)
    <3>1. PICK tools : tools = g.tools /\ tools = <<>>
      BY <2>4, <2>6
    <3>2. 1 \in DOMAIN st
      <4>1. StagesHold(st)
        BY <1>3
      <4> QED
        BY <4>1 DEF StagesHold
    <3>5. s.at = 1
      BY <1>7, <2>6
    <3>3. \A t \in DOMAIN tools : tools[t] # "running"
      BY <3>1
    <3>4. s.pc = "stage" /\ s.result = Unsaid /\ s.stages = st /\ d.active = s.n /\ g.state = "running"
      BY <1>7, <2>4, <2>6
    <3> QED
      <4>1. s.at >= 2 /\ (\A j \in 2..(s.at - 1) : IsTool(s.stages, j)) => Len(g.tools) = s.at - 2
        BY <3>5
      <4>2. (s.at = 1 => g.tools = <<>>) /\ \A t \in DOMAIN g.tools : g.tools[t] # "running"
        BY <3>1, <3>3
      <4>3. StagesHold(s.stages) /\ s.at \in DOMAIN s.stages
        BY <1>3, <3>2, <3>4, <3>5
      <4> QED
        BY <3>4, <4>1, <4>2, <4>3, StageIs
  <2> QED
    BY <1>1, <1>5, <1>6, <1>8, <2>1, <2>4, <2>5, <2>7
<1>9. /\ DemoFields \subseteq DOMAIN demo' /\ demo'.gen = demo.gen /\ demo'.turns = demo.turns /\ demo'.compacted = demo.compacted
      /\ AlikeDemo(demo, demo') /\ (~Heard(r) => AlikeConv(demoConv, demoConv'))
  BY <1>5, <1>6 DEF RunBegins, AlikeDemo
<1> QED
  BY <1>1, <1>5, <1>7, <1>8, <1>9, PlayMoves

\* A pause, of a thought or of a text.
LEMMA RunStreamsHolds == ASSUME DemoIInv, NEW r, NEW interrupted, RunStreams(r, interrupted) PROVE DemoIInv'
<1>1. r \in demoRuns /\ r.pc = "stage" /\ Stage(r)[1] \in {"think", "text"}
  BY DEF RunStreams
<1>2. PICK s : s \in {Over(r, "interrupted"), NextStage(r)} /\ demoRuns' = (demoRuns \ {r}) \cup {s} /\ demoConv' = demoConv
  BY ZenonT(30) DEF RunStreams, Goes
<1>4. /\ PlayFields \subseteq DOMAIN r /\ AlikeDemo(demo, demo) /\ AlikeConv(demoConv, demoConv)
      /\ DemoTyped(demo, demoConv, {})
      /\ Heard(r) => /\ PlayHolds(demo, demoConv, r)
                     /\ demoConv.mode = demo.mode \/ demoConv.raced \/ r.pc = "mode"
  BY <1>1, DemoPlayIs
<1>5. /\ PlayFields \subseteq DOMAIN s /\ s.gen = r.gen /\ s.n = r.n /\ s.stages = r.stages
      /\ \/ s.pc = "finish" /\ s.result = "interrupted" /\ s.at = r.at
         \/ s.pc = "stage" /\ s.result = r.result /\ s.at = r.at + 1
  BY <1>2, <1>4 DEF PlayFields, Over, NextStage
<1>6. PICK d, e, c : d = demo /\ e = demo' /\ c = demoConv
  OBVIOUS
<1>7. /\ DemoFields \subseteq DOMAIN e /\ e.gen = d.gen /\ e.turns = d.turns /\ e.compacted = d.compacted /\ e.active = d.active
      /\ e.mode = d.mode
      /\ r.gen # d.gen => AlikeDemo(d, e)
  BY <1>4, <1>6 DEF RunStreams, OfThis, AlikeDemo, DemoFields
<1>8. ASSUME Heard(r)
      PROVE  /\ DemoTyped(e, c, {}) /\ PlayHolds(e, c, s)
             /\ c.agent = "running" /\ c.state = "running"
             /\ c.mode = e.mode \/ c.raced \/ s.pc = "mode"
  <2>1. DemoTyped(d, c, {}) /\ PlayHolds(d, c, r) /\ c.agent = "running"
    BY <1>4, <1>6, <1>8 DEF Heard
  <2>2. DemoTyped(e, c, {})
    BY <1>7, <2>1 DEF DemoTyped
  <2>4. /\ c.state = "running" /\ StagesHold(r.stages) /\ r.at \in DOMAIN r.stages
        /\ r.at = 1 => c.tools = <<>>
        /\ \A t \in DOMAIN c.tools : c.tools[t] # "running"
        /\ r.result = Unsaid /\ d.active = r.n
    BY <1>1, <2>1 DEF PlayHolds, ToolPcs
  <2>6. ASSUME s.pc = "finish" PROVE PlayHolds(e, c, s)
    <3>1. s.result = "interrupted" /\ s.stages = r.stages /\ s.at = r.at
      BY <1>5, <2>6
    <3>2. s.result \in PlayResults /\ s.result # "end"
      BY <3>1 DEF PlayResults
    <3>3. StagesHold(s.stages) /\ s.at \in DOMAIN s.stages /\ e.active = s.n
      BY <1>5, <1>7, <2>4, <3>1
    <3>4. c.state = "running" /\ \A t \in DOMAIN c.tools : c.tools[t] # "running"
      BY <2>4
    <3> QED
      BY <2>6, <3>2, <3>3, <3>4, EndIs
  <2>7. ASSUME s.pc = "stage" PROVE PlayHolds(e, c, s)
    <3>0. PICK i, k : i = r.at /\ k = s.at
      OBVIOUS
    <3>1. i \in Nat \ {0} /\ i + 1 \in DOMAIN r.stages /\ ~IsTool(r.stages, i)
      BY <1>1, <2>4, <3>0, StageGoesOn DEF Stage
    <3>2. k = i + 1 /\ s.stages = r.stages /\ s.result = Unsaid
      BY <1>5, <2>4, <2>7, <3>0
    <3>3. i \in Nat \ {0}
      BY <3>1
    <3>4. k # 1 /\ (i \in 2..(k - 1) \/ i = 1)
      BY <3>2, <3>3
    <3>5. ASSUME \A j \in 2..(k - 1) : IsTool(s.stages, j) PROVE Len(c.tools) = k - 2
      <4>1. i = 1
        BY <3>1, <3>2, <3>4, <3>5
      <4>2. c.tools = <<>>
        BY <2>4, <3>0, <4>1
      <4>3. Len(c.tools) = 0
        BY <4>2
      <4>4. k - 2 = 0
        BY <3>2, <4>1
      <4> QED
        BY <4>3, <4>4
    <3>6. s.at \in DOMAIN s.stages /\ StagesHold(s.stages) /\ s.at # 1
      BY <2>4, <3>0, <3>1, <3>2, <3>4
    <3>7. e.active = s.n
      BY <1>5, <1>7, <2>4
    <3>8. s.at >= 2 /\ (\A j \in 2..(s.at - 1) : IsTool(s.stages, j)) => Len(c.tools) = s.at - 2
      BY <3>0, <3>5
    <3>9. c.state = "running" /\ s.result = Unsaid /\ \A t \in DOMAIN c.tools : c.tools[t] # "running"
      BY <2>4, <3>2
    <3> QED
      BY <2>7, <3>6, <3>7, <3>8, <3>9, StageIs
  <2>8. c.mode = e.mode \/ c.raced
    BY <1>1, <1>4, <1>6, <1>7, <1>8
  <2> QED
    BY <1>5, <2>1, <2>2, <2>4, <2>6, <2>7, <2>8
<1> QED
  BY <1>1, <1>2, <1>4, <1>5, <1>6, <1>7, <1>8, PlayMoves

\* What a call shows, told: one more, or of the last one.
LEMMA ToolShown ==
    ASSUME NEW S, NEW tools \in Seq(S), NEW k \in Nat \ {0}, NEW v \in S, NEW new, new = Append(tools, v), Len(tools) = k - 1
    PROVE  /\ new \in Seq(S) /\ Len(new) = k
           /\ \A t \in DOMAIN new : t = k \/ (t \in DOMAIN tools /\ new[t] = tools[t])
<1>1. Len(tools) \in Nat /\ DOMAIN tools = 1..Len(tools)
  BY LenProperties
<1>2. new \in Seq(S) /\ Len(new) = Len(tools) + 1 /\ \A i \in 1..Len(tools) : new[i] = tools[i]
  BY AppendProperties
<1>3. DOMAIN new = 1..Len(new)
  BY <1>2, LenProperties
<1>4. Len(new) = k
  BY <1>1, <1>2
<1>5. ASSUME NEW t \in DOMAIN new PROVE t = k \/ (t \in DOMAIN tools /\ new[t] = tools[t])
  <2>1. t \in 1..k
    BY <1>3, <1>4
  <2>2. t = k \/ t \in 1..Len(tools)
    BY <1>1, <2>1
  <2>3. DOMAIN tools = 1..Len(tools) /\ \A i \in 1..Len(tools) : new[i] = tools[i]
    BY <1>1, <1>2
  <2> QED
    BY <2>2, <2>3, Zenon
<1> QED
  BY <1>2, <1>4, <1>5

\* The last call, told again.
LEMMA ToolRetold ==
    ASSUME NEW S, NEW tools \in Seq(S), NEW k \in Nat \ {0}, NEW v \in S, NEW new, new = [tools EXCEPT ![k] = v], Len(tools) = k
    PROVE  /\ new \in Seq(S) /\ Len(new) = k /\ new[k] = v
           /\ \A t \in DOMAIN new : t = k \/ (t \in DOMAIN tools /\ new[t] = tools[t])
<1>1. Len(tools) \in Nat /\ DOMAIN tools = 1..Len(tools)
  BY LenProperties
<1>2. k \in 1..Len(tools)
  OBVIOUS
<1>3. new \in Seq(S) /\ Len(new) = Len(tools)
  BY <1>2, ExceptSeq
<1>4. k \in DOMAIN tools /\ DOMAIN new = DOMAIN tools
  BY <1>1, <1>2
<1>5. new[k] = v /\ \A t \in DOMAIN new : t = k \/ new[t] = tools[t]
  BY <1>4
<1> QED
  BY <1>3, <1>4, <1>5

\* A turn that stays at its tool.
LEMMA ToolGoesOn ==
    ASSUME DemoIInv, NEW r \in demoRuns, r.pc \in ToolPcs, NEW s, s.pc \in ToolPcs, demoRuns' = (demoRuns \ {r}) \cup {s},
           PlayFields \subseteq DOMAIN s, s.gen = r.gen, s.n = r.n, s.stages = r.stages, s.at = r.at, s.result = r.result,
           DemoFields \subseteq DOMAIN demo', demo'.gen = demo.gen, demo'.turns = demo.turns, demo'.compacted = demo.compacted,
           demo'.active = demo.active, r.gen # demo.gen => demo' = demo, ~Heard(r) => demoConv' = demoConv,
           Heard(r) => /\ ConvFields \subseteq DOMAIN demoConv'
                       /\ demoConv'.agent = demoConv.agent /\ demoConv'.state = demoConv.state /\ demoConv'.tools = demoConv.tools
                       /\ demoConv'.results = demoConv.results /\ demoConv'.raced = demoConv.raced
                       /\ s.pc = "mode" => demo'.mode = "bypass" \/ demoConv'.raced
                       /\ demoConv'.mode = demo'.mode \/ demoConv'.raced \/ s.pc = "mode"
    PROVE  DemoIInv'
<1>1. /\ PlayFields \subseteq DOMAIN r /\ AlikeDemo(demo, demo) /\ AlikeConv(demoConv, demoConv)
      /\ DemoTyped(demo, demoConv, {})
      /\ Heard(r) => PlayHolds(demo, demoConv, r)
  BY DemoPlayIs
<1>2. PICK d, e, c, g : d = demo /\ e = demo' /\ c = demoConv /\ g = demoConv'
  OBVIOUS
<1>3. ASSUME Heard(r)
      PROVE  /\ DemoTyped(e, g, {}) /\ PlayHolds(e, g, s) /\ g.agent = "running" /\ g.state = "running"
             /\ g.mode = e.mode \/ g.raced \/ s.pc = "mode"
  <2>1. /\ DemoTyped(d, c, {}) /\ PlayHolds(d, c, r) /\ c.agent = "running"
        /\ ConvFields \subseteq DOMAIN g /\ g.agent = c.agent /\ g.state = c.state /\ g.tools = c.tools /\ g.results = c.results
        /\ g.raced = c.raced /\ (s.pc = "mode" => e.mode = "bypass" \/ g.raced)
        /\ g.mode = e.mode \/ g.raced \/ s.pc = "mode"
    BY <1>1, <1>2, <1>3 DEF Heard
  <2>2. DemoTyped(e, g, {})
    BY <1>2, <2>1 DEF DemoTyped
  <2>3. /\ c.state = "running" /\ StagesHold(r.stages) /\ r.at \in DOMAIN r.stages /\ IsTool(r.stages, r.at)
        /\ Len(c.tools) = r.at - 1 /\ (\A t \in DOMAIN c.tools : c.tools[t] = "running" => t = r.at - 1)
        /\ d.active = r.n
    BY <2>1 DEF PlayHolds, ToolPcs
  <2>4. r.result = Unsaid
    BY <2>1 DEF PlayHolds, ToolPcs
  <2>5. /\ StagesHold(s.stages) /\ s.at \in DOMAIN s.stages /\ IsTool(s.stages, s.at)
        /\ Len(g.tools) = s.at - 1 /\ (\A t \in DOMAIN g.tools : g.tools[t] = "running" => t = s.at - 1)
        /\ e.active = s.n /\ s.result = Unsaid /\ g.state = "running"
    BY <1>2, <2>1, <2>3, <2>4
  <2>6. PlayHolds(e, g, s)
    BY <2>1, <2>5, ToolIs
  <2> QED
    BY <2>1, <2>2, <2>5, <2>6
<1>4. r.gen # demo.gen => AlikeDemo(demo, demo')
  BY <1>1
<1>5. ~Heard(r) => AlikeConv(demoConv, demoConv')
  BY <1>1
<1> QED
  BY <1>2, <1>3, <1>4, <1>5, PlayMoves

\* A tool asks.
LEMMA RunAsksHolds == ASSUME DemoIInv, NEW r, RunAsks(r) PROVE DemoIInv'
<1>1. r \in demoRuns /\ r.pc = "tool" /\ OfThis(r)
  BY DEF RunAsks
<1>2. PICK s : s = [r EXCEPT !.pc = "open", !.request = demo.requests + 1] /\ demoRuns' = (demoRuns \ {r}) \cup {s}
  BY DEF RunAsks, Goes
<1>3. /\ PlayFields \subseteq DOMAIN r /\ AlikeDemo(demo, demo) /\ DemoTyped(demo, demoConv, {})
      /\ Heard(r) => demoConv.mode = demo.mode \/ demoConv.raced \/ r.pc = "mode"
  BY <1>1, DemoPlayIs
<1>4. PlayFields \subseteq DOMAIN s /\ s.pc = "open" /\ s.gen = r.gen /\ s.n = r.n /\ s.stages = r.stages /\ s.at = r.at /\ s.result = r.result
  BY <1>2, <1>3 DEF PlayFields
<1>5. /\ DemoFields \subseteq DOMAIN demo' /\ demo'.gen = demo.gen /\ demo'.turns = demo.turns /\ demo'.compacted = demo.compacted
      /\ demo'.active = demo.active /\ demo'.mode = demo.mode
  BY <1>3 DEF RunAsks, DemoTyped, DemoFields
<1>6. demoConv' = demoConv /\ r.gen = demo.gen
  BY <1>1 DEF RunAsks, OfThis
<1>7. ConvFields \subseteq DOMAIN demoConv
  BY <1>3 DEF DemoTyped
<1>8. r.pc \in ToolPcs /\ s.pc \in ToolPcs /\ s.pc # "mode" /\ r.pc # "mode"
  BY <1>1, <1>4 DEF ToolPcs
<1>9. Heard(r) => demoConv'.mode = demo'.mode \/ demoConv'.raced
  BY <1>3, <1>5, <1>6, <1>8
<1> QED
  BY <1>1, <1>2, <1>4, <1>5, <1>6, <1>7, <1>8, <1>9, ToolGoesOn

\* The request is told.
LEMMA RunOpensHolds == ASSUME DemoIInv, NEW r, RunOpens(r) PROVE DemoIInv'
<1>1. r \in demoRuns /\ r.pc = "open"
  BY DEF RunOpens
<1>2. PICK s : s = [r EXCEPT !.pc = "wait"] /\ demoRuns' = (demoRuns \ {r}) \cup {s}
  BY DEF RunOpens, Goes
<1>3. /\ PlayFields \subseteq DOMAIN r /\ AlikeDemo(demo, demo) /\ DemoTyped(demo, demoConv, {})
      /\ Heard(r) => demoConv.mode = demo.mode \/ demoConv.raced \/ r.pc = "mode"
  BY <1>1, DemoPlayIs
<1>4. PlayFields \subseteq DOMAIN s /\ s.pc = "wait" /\ s.gen = r.gen /\ s.n = r.n /\ s.stages = r.stages /\ s.at = r.at /\ s.result = r.result
  BY <1>2, <1>3 DEF PlayFields
<1>5. demo' = demo
  BY DEF RunOpens
<1>6. /\ DemoFields \subseteq DOMAIN demo' /\ demo'.gen = demo.gen /\ demo'.turns = demo.turns /\ demo'.compacted = demo.compacted
      /\ demo'.active = demo.active
  BY <1>3, <1>5 DEF DemoTyped
<1>7. r.pc \in ToolPcs /\ s.pc \in ToolPcs /\ s.pc # "mode" /\ r.pc # "mode"
  BY <1>1, <1>4 DEF ToolPcs
<1>8. ~Heard(r) => demoConv' = demoConv
  BY DEF RunOpens
<1>9. ASSUME Heard(r)
      PROVE  /\ ConvFields \subseteq DOMAIN demoConv'
             /\ demoConv'.agent = demoConv.agent /\ demoConv'.state = demoConv.state /\ demoConv'.tools = demoConv.tools
             /\ demoConv'.results = demoConv.results /\ demoConv'.raced = demoConv.raced
             /\ demoConv'.mode = demo'.mode \/ demoConv'.raced
  <2>1. PICK c, g, o : c = demoConv /\ g = demoConv' /\ g = [c EXCEPT !.open = o]
    BY <1>9 DEF RunOpens
  <2>2. ConvFields \subseteq DOMAIN c
    BY <1>3, <2>1 DEF DemoTyped
  <2>3. /\ ConvFields \subseteq DOMAIN g /\ g.agent = c.agent /\ g.state = c.state /\ g.tools = c.tools /\ g.results = c.results
        /\ g.raced = c.raced /\ g.mode = c.mode
    BY <2>1, <2>2 DEF ConvFields
  <2> QED
    BY <1>3, <1>5, <1>7, <1>9, <2>1, <2>3
<1> QED
  BY <1>1, <1>2, <1>4, <1>5, <1>6, <1>7, <1>8, <1>9, ToolGoesOn

\* An approved plan leaves the plan mode.
LEMMA RunLeavesPlanHolds == ASSUME DemoIInv, NEW r, RunLeavesPlan(r) PROVE DemoIInv'
<1>1. r \in demoRuns /\ r.pc = "wait" /\ OfThis(r)
  BY DEF RunLeavesPlan, LeavesPlan
<1>2. PICK s : s = [r EXCEPT !.pc = "mode"] /\ demoRuns' = (demoRuns \ {r}) \cup {s}
  BY DEF RunLeavesPlan, Goes
<1>3. PlayFields \subseteq DOMAIN r /\ DemoTyped(demo, demoConv, {})
  BY <1>1, DemoPlayIs
<1>4. PlayFields \subseteq DOMAIN s /\ s.pc = "mode" /\ s.gen = r.gen /\ s.n = r.n /\ s.stages = r.stages /\ s.at = r.at /\ s.result = r.result
  BY <1>2, <1>3 DEF PlayFields
<1>5. /\ DemoFields \subseteq DOMAIN demo' /\ demo'.gen = demo.gen /\ demo'.turns = demo.turns /\ demo'.compacted = demo.compacted
      /\ demo'.active = demo.active /\ demo'.mode = "bypass"
  BY <1>3 DEF RunLeavesPlan, DemoTyped, DemoFields
<1>6. demoConv' = demoConv /\ r.gen = demo.gen
  BY <1>1 DEF RunLeavesPlan, OfThis
<1>7. ConvFields \subseteq DOMAIN demoConv
  BY <1>3 DEF DemoTyped
<1>8. r.pc \in ToolPcs /\ s.pc \in ToolPcs
  BY <1>1, <1>4 DEF ToolPcs
<1> QED
  BY <1>1, <1>2, <1>4, <1>5, <1>6, <1>7, <1>8, ToolGoesOn

\* The mode that the plan left is told.
LEMMA RunTellsModeHolds == ASSUME DemoIInv, NEW r, RunTellsMode(r) PROVE DemoIInv'
<1>1. r \in demoRuns /\ r.pc = "mode"
  BY DEF RunTellsMode
<1>2. PICK s : s = [r EXCEPT !.pc = "wait", !.answer = "approved"] /\ demoRuns' = (demoRuns \ {r}) \cup {s}
  BY DEF RunTellsMode, Goes
<1>3. /\ PlayFields \subseteq DOMAIN r /\ DemoTyped(demo, demoConv, {})
      /\ Heard(r) => PlayHolds(demo, demoConv, r)
  BY <1>1, DemoPlayIs
<1>4. PlayFields \subseteq DOMAIN s /\ s.pc = "wait" /\ s.gen = r.gen /\ s.n = r.n /\ s.stages = r.stages /\ s.at = r.at /\ s.result = r.result
  BY <1>2, <1>3 DEF PlayFields
<1>5. demo' = demo
  BY DEF RunTellsMode
<1>6. /\ DemoFields \subseteq DOMAIN demo' /\ demo'.gen = demo.gen /\ demo'.turns = demo.turns /\ demo'.compacted = demo.compacted
      /\ demo'.active = demo.active
  BY <1>3, <1>5 DEF DemoTyped
<1>7. r.pc \in ToolPcs /\ s.pc \in ToolPcs /\ s.pc # "mode"
  BY <1>1, <1>4 DEF ToolPcs
<1>8. ~Heard(r) => demoConv' = demoConv
  BY DEF RunTellsMode
<1>9. ASSUME Heard(r)
      PROVE  /\ ConvFields \subseteq DOMAIN demoConv'
             /\ demoConv'.agent = demoConv.agent /\ demoConv'.state = demoConv.state /\ demoConv'.tools = demoConv.tools
             /\ demoConv'.results = demoConv.results /\ demoConv'.raced = demoConv.raced
             /\ demoConv'.mode = demo'.mode \/ demoConv'.raced
  <2>1. PICK c, g : c = demoConv /\ g = demoConv' /\ g = [c EXCEPT !.mode = "bypass"]
    BY <1>9 DEF RunTellsMode
  <2>2. ConvFields \subseteq DOMAIN c
    BY <1>3, <2>1 DEF DemoTyped
  <2>3. /\ ConvFields \subseteq DOMAIN g /\ g.agent = c.agent /\ g.state = c.state /\ g.tools = c.tools /\ g.results = c.results
        /\ g.raced = c.raced /\ g.mode = "bypass"
    BY <2>1, <2>2 DEF ConvFields
  <2>4. demo.mode = "bypass" \/ c.raced
    BY <1>1, <1>3, <1>9, <2>1 DEF PlayHolds
  <2> QED
    BY <1>5, <2>1, <2>3, <2>4
<1> QED
  BY <1>1, <1>2, <1>4, <1>5, <1>6, <1>7, <1>8, <1>9, ToolGoesOn

\* A tool is shown: it is one more call, and the only one that runs.
LEMMA RunToolHolds == ASSUME DemoIInv, NEW r, RunTool(r) PROVE DemoIInv'
<1>1. r \in demoRuns /\ r.pc = "stage" /\ Stage(r)[1] = "tool" /\ demo' = demo
  BY DEF RunTool
<1>2. PICK s : s = [r EXCEPT !.pc = "tool"] /\ demoRuns' = (demoRuns \ {r}) \cup {s}
  BY DEF RunTool, Goes
<1>3. /\ PlayFields \subseteq DOMAIN r /\ AlikeDemo(demo, demo) /\ AlikeConv(demoConv, demoConv) /\ DemoTyped(demo, demoConv, {})
      /\ Heard(r) => /\ PlayHolds(demo, demoConv, r)
                     /\ demoConv.mode = demo.mode \/ demoConv.raced \/ r.pc = "mode"
  BY <1>1, DemoPlayIs
<1>4. PlayFields \subseteq DOMAIN s /\ s.pc = "tool" /\ s.gen = r.gen /\ s.n = r.n /\ s.stages = r.stages /\ s.at = r.at /\ s.result = r.result
  BY <1>2, <1>3 DEF PlayFields
<1>5. ~Heard(r) => demoConv' = demoConv
  BY DEF RunTool, Told
<1>6. ASSUME Heard(r)
      PROVE  /\ DemoTyped(demo', demoConv', {}) /\ PlayHolds(demo', demoConv', s)
             /\ demoConv'.agent = "running" /\ demoConv'.state = "running"
             /\ demoConv'.mode = demo'.mode \/ demoConv'.raced \/ s.pc = "mode"
  <2>1. PICK d, c, g : d = demo /\ c = demoConv /\ g = demoConv'
    OBVIOUS
  <2>2. DemoTyped(d, c, {}) /\ PlayHolds(d, c, r) /\ c.agent = "running" /\ (c.mode = d.mode \/ c.raced)
    BY <1>1, <1>3, <1>6, <2>1 DEF Heard
  <2>3. PICK tools, k, S : tools = c.tools /\ k = r.at - 1 /\ S = {"running", "failed", "completed"}
    OBVIOUS
  <2>4. /\ c.state = "running" /\ StagesHold(r.stages) /\ r.at \in DOMAIN r.stages /\ IsTool(r.stages, r.at)
        /\ \A t \in DOMAIN tools : tools[t] # "running"
        /\ d.active = r.n
    BY <1>1, <2>2, <2>3 DEF PlayHolds, ToolPcs, IsTool, Stage
  <2>5. r.at \in Nat /\ r.at >= 2 /\ \A j \in 2..(r.at - 1) : IsTool(r.stages, j)
    BY <2>4, StageGoesOn
  <2>6. Len(tools) = r.at - 2
    BY <1>1, <2>2, <2>3, <2>5 DEF PlayHolds
  <2>7. k \in Nat \ {0} /\ Len(tools) = k - 1 /\ Len(tools) < k
    BY <2>3, <2>5, <2>6
  <2>8. tools \in Seq(S) /\ "running" \in S
    BY <2>2, <2>3 DEF DemoTyped
  <2>a. PICK v, new : v = "running" /\ new = Append(tools, v)
    OBVIOUS
  <2>b. v \in S
    BY <2>8, <2>a
  <2>c. /\ new \in Seq(S) /\ Len(new) = k
        /\ \A t \in DOMAIN new : t = k \/ (t \in DOMAIN tools /\ new[t] = tools[t])
    BY <2>7, <2>8, <2>a, <2>b, ToolShown
  <2>9. /\ new = Append(tools, "running") /\ new \in Seq(S) /\ Len(new) = k
        /\ \A t \in DOMAIN new : t = k \/ (t \in DOMAIN tools /\ new[t] = tools[t])
    BY <2>a, <2>c
  <2>10. g = [c EXCEPT !.tools = new]
    BY <1>6, <2>1, <2>3, <2>7, <2>9 DEF RunTool, Told
  <2>11. /\ ConvFields \subseteq DOMAIN g /\ g.agent = c.agent /\ g.state = c.state /\ g.tools = new /\ g.results = c.results
         /\ g.raced = c.raced /\ g.mode = c.mode
    BY <2>2, <2>10 DEF DemoTyped, ConvFields
  <2>12. DemoTyped(d, g, {})
    BY <2>2, <2>3, <2>9, <2>11 DEF DemoTyped
  <2>13. \A t \in DOMAIN g.tools : g.tools[t] = "running" => t = s.at - 1
    BY <1>4, <2>3, <2>4, <2>9, <2>11
  <2>14. Len(g.tools) = s.at - 1
    BY <1>4, <2>3, <2>9, <2>11
  <2>15. /\ StagesHold(s.stages) /\ s.at \in DOMAIN s.stages /\ IsTool(s.stages, s.at)
         /\ d.active = s.n /\ g.state = "running" /\ s.pc \in ToolPcs /\ s.pc # "mode"
    BY <1>4, <2>4, <2>11 DEF ToolPcs
  <2>16. s.result = Unsaid
    BY <1>1, <1>4, <2>2 DEF PlayHolds
  <2>17. PlayHolds(d, g, s)
    BY <2>13, <2>14, <2>15, <2>16, ToolIs
  <2> QED
    BY <1>1, <2>1, <2>2, <2>11, <2>12, <2>15, <2>17
<1>7. /\ DemoFields \subseteq DOMAIN demo' /\ demo'.gen = demo.gen /\ demo'.turns = demo.turns /\ demo'.compacted = demo.compacted
      /\ AlikeDemo(demo, demo') /\ (~Heard(r) => AlikeConv(demoConv, demoConv'))
  BY <1>1, <1>3, <1>5 DEF AlikeDemo
<1> QED
  BY <1>1, <1>2, <1>4, <1>6, <1>7, PlayMoves

\* A tool ends: no call runs, and the turn goes to its next stage or to its end.
LEMMA RunToolEndsHolds == ASSUME DemoIInv, NEW r \in demoRuns, NEW interrupted, RunToolEnds(r, interrupted) PROVE DemoIInv'
<1>1. r \in demoRuns /\ r.pc \in {"tool", "wait"} /\ demo' = demo
  BY ZenonT(30) DEF RunToolEnds
<1>2. PICK s : s \in {Over(r, "interrupted"), NextStage(r)} /\ demoRuns' = (demoRuns \ {r}) \cup {s}
  BY ZenonT(30) DEF RunToolEnds, Goes
<1>3. /\ PlayFields \subseteq DOMAIN r /\ AlikeDemo(demo, demo) /\ AlikeConv(demoConv, demoConv) /\ DemoTyped(demo, demoConv, {})
      /\ Heard(r) => /\ PlayHolds(demo, demoConv, r)
                     /\ demoConv.mode = demo.mode \/ demoConv.raced \/ r.pc = "mode"
  BY <1>1, DemoPlayIs
<1>4. /\ PlayFields \subseteq DOMAIN s /\ s.gen = r.gen /\ s.n = r.n /\ s.stages = r.stages
      /\ \/ s.pc = "finish" /\ s.result = "interrupted" /\ s.at = r.at
         \/ s.pc = "stage" /\ s.result = r.result /\ s.at = r.at + 1
  BY <1>2, <1>3 DEF PlayFields, Over, NextStage
<1>5. PICK v \in {"failed", "completed"} : demoConv' = Told(r, v)
  BY ZenonT(30) DEF RunToolEnds, ToolEnds
<1>6. ~Heard(r) => demoConv' = demoConv
  BY <1>5 DEF Told
<1>7. ASSUME Heard(r)
      PROVE  /\ DemoTyped(demo', demoConv', {}) /\ PlayHolds(demo', demoConv', s)
             /\ demoConv'.agent = "running" /\ demoConv'.state = "running"
             /\ demoConv'.mode = demo'.mode \/ demoConv'.raced \/ s.pc = "mode"
  <2>1. PICK d, c, g : d = demo /\ c = demoConv /\ g = demoConv'
    OBVIOUS
  <2>2. DemoTyped(d, c, {}) /\ PlayHolds(d, c, r) /\ c.agent = "running" /\ (c.mode = d.mode \/ c.raced)
    BY <1>1, <1>3, <1>7, <2>1 DEF Heard
  <2>3. PICK tools, k, S : tools = c.tools /\ k = r.at - 1 /\ S = {"running", "failed", "completed"}
    OBVIOUS
  <2>4. /\ c.state = "running" /\ StagesHold(r.stages) /\ r.at \in DOMAIN r.stages /\ IsTool(r.stages, r.at)
        /\ \A t \in DOMAIN tools : tools[t] = "running" => t = k
        /\ d.active = r.n
    BY <1>1, <2>2, <2>3 DEF PlayHolds, ToolPcs
  <2>5. r.at \in Nat /\ r.at >= 2 /\ r.at + 1 \in DOMAIN r.stages
    BY <2>4, StageGoesOn
  <2>6. Len(tools) = k
    BY <1>1, <2>2, <2>3 DEF PlayHolds, ToolPcs
  <2>7. r.at \in Nat /\ r.at >= 2
    BY <2>5
  <2>8. k \in Nat \ {0} /\ ~(Len(tools) < k)
    BY <2>3, <2>6, <2>7
  <2>9. tools \in Seq(S) /\ v \in S
    BY <2>2, <2>3 DEF DemoTyped
  <2>a. PICK new : new = [tools EXCEPT ![k] = v]
    OBVIOUS
  <2>10. /\ new = [tools EXCEPT ![k] = v] /\ new \in Seq(S) /\ Len(new) = k /\ new[k] = v
         /\ \A t \in DOMAIN new : t = k \/ (t \in DOMAIN tools /\ new[t] = tools[t])
    BY <2>6, <2>8, <2>9, <2>a, ToolRetold
  <2>11. g = [c EXCEPT !.tools = new]
    BY <1>5, <1>7, <2>1, <2>3, <2>8, <2>10 DEF Told
  <2>12. /\ ConvFields \subseteq DOMAIN g /\ g.agent = c.agent /\ g.state = c.state /\ g.tools = new /\ g.results = c.results
         /\ g.raced = c.raced /\ g.mode = c.mode
    BY <2>2, <2>11 DEF DemoTyped, ConvFields
  <2>13. DemoTyped(d, g, {})
    BY <2>2, <2>3, <2>10, <2>12 DEF DemoTyped
  <2>14. \A t \in DOMAIN g.tools : g.tools[t] # "running"
    BY <2>4, <2>10, <2>12
  <2>15. g.state = "running" /\ d.active = s.n /\ StagesHold(s.stages)
    BY <1>4, <2>4, <2>12
  <2>16. ASSUME s.pc = "finish" PROVE PlayHolds(d, g, s)
    <3>1. s.result \in PlayResults /\ s.result # "end" /\ s.at \in DOMAIN s.stages
      BY <1>4, <2>4, <2>16 DEF PlayResults
    <3> QED
      BY <2>14, <2>15, <2>16, <3>1, EndIs
  <2>17. ASSUME s.pc = "stage" PROVE PlayHolds(d, g, s)
    <3>0. PICK i, j : i = r.at /\ j = s.at
      OBVIOUS
    <3>1. j = i + 1
      BY <1>4, <2>17, <3>0
    <3>2. i \in Nat /\ i >= 2
      BY <2>7, <3>0
    <3>3. j # 1 /\ j - 2 = i - 1
      BY <3>1, <3>2
    <3>4. Len(g.tools) = s.at - 2
      BY <2>3, <2>10, <2>12, <3>0, <3>3
    <3>5. s.at \in DOMAIN s.stages /\ s.at # 1
      BY <1>4, <2>5, <2>17, <3>0, <3>1, <3>3
    <3>6. s.result = Unsaid
      BY <1>1, <1>4, <2>2, <2>17 DEF PlayHolds
    <3> QED
      BY <2>14, <2>15, <2>17, <3>4, <3>5, <3>6, StageIs
  <2> QED
    BY <1>1, <1>4, <2>1, <2>2, <2>12, <2>13, <2>15, <2>16, <2>17
<1>8. /\ DemoFields \subseteq DOMAIN demo' /\ demo'.gen = demo.gen /\ demo'.turns = demo.turns /\ demo'.compacted = demo.compacted
      /\ AlikeDemo(demo, demo') /\ (~Heard(r) => AlikeConv(demoConv, demoConv'))
  BY <1>1, <1>3, <1>6 DEF AlikeDemo
<1> QED
  BY <1>1, <1>2, <1>4, <1>7, <1>8, PlayMoves

\* A stage ends the turn.
LEMMA StageEnds ==
    ASSUME DemoIInv, NEW r \in demoRuns, r.pc = "stage", NEW s, s.pc = "finish", demoRuns' = (demoRuns \ {r}) \cup {s}, demoConv' = demoConv,
           PlayFields \subseteq DOMAIN s, s.gen = r.gen, s.n = r.n, s.stages = r.stages, s.at = r.at, s.result \in PlayResults,
           DemoFields \subseteq DOMAIN demo', demo'.gen = demo.gen, demo'.turns = demo.turns, demo'.compacted = demo.compacted,
           demo'.active = demo.active, demo'.mode = demo.mode, r.gen # demo.gen => AlikeDemo(demo, demo'),
           r.gen = demo.gen => s.result # "end" \/ demo'.steers = 0
    PROVE  DemoIInv'
<1>1. /\ AlikeConv(demoConv, demoConv) /\ DemoTyped(demo, demoConv, {})
      /\ Heard(r) => /\ PlayHolds(demo, demoConv, r)
                     /\ demoConv.mode = demo.mode \/ demoConv.raced \/ r.pc = "mode"
  BY DemoPlayIs
<1>2. PICK d, e, c : d = demo /\ e = demo' /\ c = demoConv
  OBVIOUS
<1>3. ASSUME Heard(r)
      PROVE  /\ DemoTyped(e, c, {}) /\ PlayHolds(e, c, s) /\ c.agent = "running" /\ c.state = "running"
             /\ c.mode = e.mode \/ c.raced \/ s.pc = "mode"
  <2>1. DemoTyped(d, c, {}) /\ PlayHolds(d, c, r) /\ c.agent = "running" /\ (c.mode = e.mode \/ c.raced) /\ r.gen = d.gen
    BY <1>1, <1>2, <1>3 DEF Heard, OfThis
  <2>2. DemoTyped(e, c, {})
    BY <1>2, <2>1 DEF DemoTyped
  <2>3. /\ c.state = "running" /\ StagesHold(r.stages) /\ r.at \in DOMAIN r.stages
        /\ \A t \in DOMAIN c.tools : c.tools[t] # "running"
        /\ d.active = r.n
    BY <2>1 DEF PlayHolds, ToolPcs
  <2>4. s.result = "end" => SteersAnswered(e, c)
    BY <1>2, <2>1 DEF SteersAnswered
  <2>5. StagesHold(s.stages) /\ s.at \in DOMAIN s.stages /\ e.active = s.n
    BY <1>2, <2>3
  <2>6. PlayHolds(e, c, s)
    BY <2>3, <2>4, <2>5, EndIs
  <2> QED
    BY <2>1, <2>2, <2>3, <2>6
<1> QED
  BY <1>1, <1>2, <1>3, PlayMoves

\* The login is lost.
LEMMA RunLosesLoginHolds == ASSUME DemoIInv, NEW r, RunLosesLogin(r) PROVE DemoIInv'
<1>1. r \in demoRuns /\ r.pc = "stage" /\ demoConv' = demoConv
  BY DEF RunLosesLogin
<1>2. PICK s : s = Over(r, "error") /\ demoRuns' = (demoRuns \ {r}) \cup {s}
  BY DEF RunLosesLogin, Goes
<1>3. PlayFields \subseteq DOMAIN r /\ AlikeDemo(demo, demo)
  BY <1>1, DemoPlayIs
<1>4. /\ PlayFields \subseteq DOMAIN s /\ s.pc = "finish" /\ s.gen = r.gen /\ s.n = r.n /\ s.stages = r.stages /\ s.at = r.at
      /\ s.result = "error"
  BY <1>2, <1>3 DEF PlayFields, Over
<1>5. s.result \in PlayResults /\ s.result # "end"
  BY <1>4 DEF PlayResults
<1>6. AlikeDemo(demo, demo')
  BY <1>3 DEF RunLosesLogin, AlikeDemo, DemoFields
<1> QED
  BY <1>1, <1>2, <1>4, <1>5, <1>6, StageEnds DEF AlikeDemo

\* The limit or the gateway ends the turn.
LEMMA RunFailsHolds == ASSUME DemoIInv, NEW r, RunFails(r) PROVE DemoIInv'
<1>1. r \in demoRuns /\ r.pc = "stage" /\ demoConv' = demoConv /\ demo' = demo
  BY DEF RunFails
<1>2. PICK s, result : /\ result \in {"limited", "transient"}
                       /\ s = [Over(r, result) EXCEPT !.limited = Stage(r)[1] = "limit"] /\ demoRuns' = (demoRuns \ {r}) \cup {s}
  BY DEF RunFails, Goes
<1>3. PlayFields \subseteq DOMAIN r /\ AlikeDemo(demo, demo)
  BY <1>1, DemoPlayIs
<1>4. /\ PlayFields \subseteq DOMAIN s /\ s.pc = "finish" /\ s.gen = r.gen /\ s.n = r.n /\ s.stages = r.stages /\ s.at = r.at
      /\ s.result = result
  BY <1>2, <1>3 DEF PlayFields, Over
<1>5. s.result \in PlayResults /\ s.result # "end"
  BY <1>2, <1>4 DEF PlayResults
<1> QED
  BY <1>1, <1>2, <1>3, <1>4, <1>5, StageEnds DEF AlikeDemo

\* The last words, and what was steered until then, end it.
LEMMA RunRepliesHolds == ASSUME DemoIInv, NEW r, RunReplies(r) PROVE DemoIInv'
<1>1. r \in demoRuns /\ r.pc = "stage" /\ demoConv' = demoConv
  BY DEF RunReplies
<1>2. PICK s : s = Over(r, "end") /\ demoRuns' = (demoRuns \ {r}) \cup {s}
  BY DEF RunReplies, Goes
<1>3. PlayFields \subseteq DOMAIN r /\ AlikeDemo(demo, demo)
  BY <1>1, DemoPlayIs
<1>4. /\ PlayFields \subseteq DOMAIN s /\ s.pc = "finish" /\ s.gen = r.gen /\ s.n = r.n /\ s.stages = r.stages /\ s.at = r.at
      /\ s.result = "end"
  BY <1>2, <1>3 DEF PlayFields, Over
<1>5. s.result \in PlayResults
  BY <1>4 DEF PlayResults
<1>6. /\ DemoFields \subseteq DOMAIN demo' /\ demo'.gen = demo.gen /\ demo'.turns = demo.turns /\ demo'.compacted = demo.compacted
      /\ demo'.active = demo.active /\ demo'.mode = demo.mode
      /\ r.gen # demo.gen => AlikeDemo(demo, demo')
      /\ r.gen = demo.gen => demo'.steers = 0
  BY <1>3 DEF RunReplies, OfThis, AlikeDemo, DemoFields
<1> QED
  BY <1>1, <1>2, <1>4, <1>5, <1>6, StageEnds

\* finish: the turn is no longer the adapter's.
LEMMA RunFinishesHolds == ASSUME DemoIInv, NEW r, RunFinishes(r) PROVE DemoIInv'
<1>1. r \in demoRuns /\ r.pc = "finish" /\ demoConv' = demoConv /\ demo' = Finished(demo, r)
  BY DEF RunFinishes
<1>0. PICK n, s : n = (IF OfThis(r) THEN demo.turns - demo.compacted ELSE 0) /\ s = [r EXCEPT !.pc = "report", !.request = n]
  OBVIOUS
<1>2. demoRuns' = (demoRuns \ {r}) \cup {s} /\ (OfThis(r) => n = demo.turns - demo.compacted)
  BY <1>0 DEF RunFinishes, Goes
<1>3. /\ PlayFields \subseteq DOMAIN r /\ AlikeDemo(demo, demo) /\ AlikeConv(demoConv, demoConv) /\ DemoTyped(demo, demoConv, {})
      /\ Heard(r) => /\ PlayHolds(demo, demoConv, r)
                     /\ demoConv.mode = demo.mode \/ demoConv.raced \/ r.pc = "mode"
  BY <1>1, DemoPlayIs
<1>4. /\ PlayFields \subseteq DOMAIN s /\ s.pc = "report" /\ s.gen = r.gen /\ s.stages = r.stages /\ s.at = r.at
      /\ s.result = r.result /\ s.request = n
  BY <1>0, <1>3 DEF PlayFields
<1>5. PICK d, e, c : d = demo /\ e = demo' /\ c = demoConv
  OBVIOUS
<1>6. /\ DemoFields \subseteq DOMAIN e /\ e.gen = d.gen /\ e.turns = d.turns /\ e.compacted = d.compacted /\ e.mode = d.mode
      /\ e.steers = d.steers
      /\ r.gen = d.gen /\ d.active = r.n => e.active = 0
      /\ r.gen # d.gen => e = d
  BY <1>1, <1>3, <1>5 DEF Finished, AlikeDemo, DemoFields
<1>7. ASSUME Heard(r)
      PROVE  /\ DemoTyped(e, c, {}) /\ PlayHolds(e, c, s) /\ c.agent = "running" /\ c.state = "running"
             /\ c.mode = e.mode \/ c.raced \/ s.pc = "mode"
  <2>1. DemoTyped(d, c, {}) /\ PlayHolds(d, c, r) /\ c.agent = "running" /\ (c.mode = d.mode \/ c.raced) /\ r.gen = d.gen
    BY <1>1, <1>3, <1>5, <1>7 DEF Heard, OfThis
  <2>2. DemoTyped(e, c, {})
    BY <1>6, <2>1 DEF DemoTyped
  <2>3. /\ c.state = "running" /\ StagesHold(r.stages) /\ r.at \in DOMAIN r.stages
        /\ \A t \in DOMAIN c.tools : c.tools[t] # "running"
        /\ r.result \in PlayResults /\ (r.result = "end" => SteersAnswered(d, c))
        /\ d.active = r.n
    BY <1>1, <2>1 DEF PlayHolds, ToolPcs
  <2>4. s.result \in PlayResults /\ (s.result = "end" => SteersAnswered(e, c))
    BY <1>4, <1>6, <2>3 DEF SteersAnswered
  <2>5. StagesHold(s.stages) /\ s.at \in DOMAIN s.stages /\ e.active = 0
    BY <1>4, <1>6, <2>1, <2>3
  <2>6. s.request = e.turns - e.compacted
    BY <1>2, <1>4, <1>5, <1>6, <2>1 DEF OfThis
  <2>7. PlayHolds(e, c, s)
    BY <1>4, <2>3, <2>4, <2>5, <2>6, EndIs
  <2> QED
    BY <1>6, <2>1, <2>2, <2>3, <2>7
<1>8. r.gen # demo.gen => AlikeDemo(demo, demo')
  BY <1>3, <1>5, <1>6
<1>9. /\ DemoFields \subseteq DOMAIN demo' /\ demo'.gen = demo.gen /\ demo'.turns = demo.turns /\ demo'.compacted = demo.compacted
      /\ ~Heard(r) => AlikeConv(demoConv, demoConv')
      /\ Heard(r) => /\ DemoTyped(demo', demoConv', {}) /\ PlayHolds(demo', demoConv', s)
                     /\ demoConv'.agent = "running" /\ demoConv'.state = "running"
                     /\ demoConv'.mode = demo'.mode \/ demoConv'.raced \/ s.pc = "mode"
  BY <1>1, <1>3, <1>5, <1>6, <1>7
<1> QED
  BY <1>1, <1>2, <1>4, <1>8, <1>9, PlayMoves

\* A turn leaves: one of another adapter, or of one whose end was told, or
\* the one that the conversation hears.
LEMMA PlayLeaves ==
    ASSUME DemoIInv, NEW r \in demoRuns, demoRuns' = demoRuns \ {r},
           DemoFields \subseteq DOMAIN demo', demo'.gen = demo.gen, demo'.turns = demo.turns, demo'.compacted = demo.compacted,
           r.gen # demo.gen => AlikeDemo(demo, demo'),
           ~Heard(r) => AlikeConv(demoConv, demoConv'),
           Heard(r) => /\ DemoTyped(demo', demoConv', {}) /\ demoConv'.agent = "running"
                       /\ demo'.closed \/ demo'.active = 0
                       /\ demoConv'.mode = demo'.mode \/ demoConv'.raced
                       /\ demoConv'.state \in {"idle", "compacting"} =>
                             /\ NoneRuns(demoConv') /\ demoConv'.open = {}
                             /\ demoConv'.results # <<>> /\ Last(demoConv'.results) = "end" => SteersAnswered(demo', demoConv')
                       /\ demoConv'.state = "idle" => demoConv'.usage = demo'.turns - demo'.compacted
                       /\ demoConv'.state = "compacting" => demo'.turns = demo'.compacted
    PROVE  DemoIInv'
<1>1. PICK d, e, c, g, old, new : d = demo /\ e = demo' /\ c = demoConv /\ g = demoConv' /\ old = demoRuns /\ new = demoRuns'
  OBVIOUS
<1>2. DemoHolds(d, c, old)
  BY <1>1 DEF DemoIInv
<1>3. \A x \in new : PlayFields \subseteq DOMAIN x /\ x.gen \in Nat /\ x.gen <= d.gen
  BY <1>1, <1>2 DEF DemoHolds, DemoTyped
<1>4. CASE r.gen # d.gen
  <2>1. ~Heard(r) /\ AlikeDemo(demo, demo') /\ AlikeConv(demoConv, demoConv')
    BY <1>1, <1>4 DEF Heard, OfThis
  <2>2. \A x \in demoRuns' : \E y \in demoRuns : x.gen = y.gen /\ (y.gen = demo.gen => SamePlay(x, y))
    BY <1>1 DEF SamePlay
  <2>3. \A y \in demoRuns : y.gen = demo.gen => \E x \in demoRuns' : SamePlay(x, y)
    BY <1>1, <1>4 DEF SamePlay
  <2>4. demoConv.agent = "running" => \A x, y \in demoRuns' : x.gen = demo.gen /\ y.gen = demo.gen => x = y
    BY <1>1, <1>2 DEF DemoHolds, RunsHold
  <2>5. \A x \in demoRuns' : PlayFields \subseteq DOMAIN x
    BY <1>1, <1>3
  <2> QED
    BY <2>1, <2>2, <2>3, <2>4, <2>5, DemoFrame
<1>5. CASE r.gen = d.gen /\ c.agent # "running"
  <2>1. AlikeConv(c, g)
    BY <1>1, <1>5 DEF Heard
  <2>2. c.agent # "starting"
    BY <1>1, <1>2, <1>5 DEF DemoHolds, DemoFresh, DemoTyped
  <2>3. DemoTyped(e, g, new)
    BY <1>1, <1>2, <1>3, <2>1 DEF DemoHolds, DemoTyped, AlikeConv
  <2>4. g.state = "idle" /\ g.open = {} /\ g.usage = 0 /\ NoneRuns(g) /\ g.agent = c.agent
    BY <1>2, <1>5, <2>1 DEF DemoHolds, AlikeConv, NoneRuns
  <2> QED
    BY <1>1, <1>2, <1>5, <2>2, <2>3, <2>4 DEF DemoIInv, DemoHolds
<1>6. CASE r.gen = d.gen /\ c.agent = "running"
  <2>1. DemoTyped(e, g, {}) /\ g.agent = "running" /\ (e.closed \/ e.active = 0) /\ (g.mode = e.mode \/ g.raced)
    BY <1>1, <1>6 DEF Heard, OfThis
  <2>2. /\ g.state \in {"idle", "compacting"} =>
              NoneRuns(g) /\ g.open = {} /\ (g.results # <<>> /\ Last(g.results) = "end" => SteersAnswered(e, g))
        /\ g.state = "idle" => g.usage = e.turns - e.compacted
        /\ g.state = "compacting" => e.turns = e.compacted
    BY <1>1, <1>6 DEF Heard, OfThis
  <2>3. DemoTyped(e, g, new)
    BY <1>1, <1>3, <2>1 DEF DemoTyped
  <2>4. \A x \in new : x.gen # e.gen
    BY <1>1, <1>2, <1>6 DEF DemoHolds, RunsHold
  <2>5. RunsHold(e, g, new)
    BY <2>1, <2>2, <2>4 DEF RunsHold
  <2> QED
    BY <1>1, <2>1, <2>3, <2>5 DEF DemoIInv, DemoHolds
<1> QED
  BY <1>4, <1>5, <1>6

\* crash: the agent that runs is closed with it.
LEMMA RunCrashesHolds == ASSUME DemoIInv, NEW r, RunCrashes(r) PROVE DemoIInv'
<1>1. r \in demoRuns /\ r.pc = "stage" /\ demoConv' = demoConv /\ demoRuns' = demoRuns \ {r}
  BY DEF RunCrashes, Ends
<1>2. /\ PlayFields \subseteq DOMAIN r /\ AlikeDemo(demo, demo) /\ AlikeConv(demoConv, demoConv) /\ DemoTyped(demo, demoConv, {})
      /\ Heard(r) => /\ PlayHolds(demo, demoConv, r)
                     /\ demoConv.mode = demo.mode \/ demoConv.raced \/ r.pc = "mode"
  BY <1>1, DemoPlayIs
<1>3. PICK d, e, c : d = demo /\ e = demo' /\ c = demoConv
  OBVIOUS
<1>4. PICK b, known : known = [d EXCEPT !.broken = b] /\ e = IF OfThis(r) THEN DemoExit(known, "crashed") ELSE known
  BY <1>3 DEF RunCrashes
<1>5. DemoFields \subseteq DOMAIN d
  BY <1>2, <1>3 DEF DemoTyped
<1>6. /\ DemoFields \subseteq DOMAIN known /\ known.gen = d.gen /\ known.turns = d.turns /\ known.compacted = d.compacted
      /\ known.active = d.active /\ known.mode = d.mode /\ known.steers = d.steers /\ known.closed = d.closed
  BY <1>4, <1>5 DEF DemoFields
<1>7. /\ DemoFields \subseteq DOMAIN e /\ e.gen = d.gen /\ e.turns = d.turns /\ e.compacted = d.compacted
      /\ e.active = d.active /\ e.mode = d.mode /\ e.steers = d.steers
      /\ IF OfThis(r) THEN e.closed = TRUE ELSE e.closed = d.closed
  BY <1>4, <1>6 DEF DemoExit, DemoFields
<1>8. ASSUME Heard(r)
      PROVE  /\ DemoTyped(e, c, {}) /\ c.agent = "running" /\ e.closed /\ (c.mode = e.mode \/ c.raced)
             /\ c.state = "running"
  <2>1. DemoTyped(d, c, {}) /\ PlayHolds(d, c, r) /\ c.agent = "running" /\ (c.mode = d.mode \/ c.raced) /\ OfThis(r)
    BY <1>1, <1>2, <1>3, <1>8 DEF Heard
  <2>2. DemoTyped(e, c, {})
    BY <1>7, <2>1 DEF DemoTyped
  <2>3. c.state = "running"
    BY <1>1, <2>1 DEF PlayHolds
  <2> QED
    BY <1>7, <2>1, <2>2, <2>3
<1>9. r.gen # demo.gen => AlikeDemo(demo, demo')
  BY <1>3, <1>7 DEF AlikeDemo, OfThis
<1> QED
  BY <1>1, <1>2, <1>3, <1>7, <1>8, <1>9, PlayLeaves

\* The report: what the turn came to, with its usage.
LEMMA RunReportsHolds == ASSUME DemoIInv, NEW r, RunReports(r) PROVE DemoIInv'
<1>1. r \in demoRuns /\ r.pc = "report" /\ demo' = demo /\ demoRuns' = demoRuns \ {r}
  BY DEF RunReports, Ends
<1>2. /\ PlayFields \subseteq DOMAIN r /\ AlikeDemo(demo, demo) /\ AlikeConv(demoConv, demoConv) /\ DemoTyped(demo, demoConv, {})
      /\ Heard(r) => /\ PlayHolds(demo, demoConv, r)
                     /\ demoConv.mode = demo.mode \/ demoConv.raced \/ r.pc = "mode"
  BY <1>1, DemoPlayIs
<1>3. ~Heard(r) => demoConv' = demoConv
  BY DEF RunReports
<1>4. ASSUME Heard(r)
      PROVE  /\ DemoTyped(demo', demoConv', {}) /\ demoConv'.agent = "running"
             /\ demo'.active = 0
             /\ demoConv'.mode = demo'.mode \/ demoConv'.raced
             /\ NoneRuns(demoConv') /\ demoConv'.open = {}
             /\ demoConv'.results # <<>> /\ Last(demoConv'.results) = "end" => SteersAnswered(demo', demoConv')
             /\ demoConv'.state = "idle" /\ demoConv'.usage = demo'.turns - demo'.compacted
  <2>1. PICK d, c, g : d = demo /\ c = demoConv /\ g = demoConv'
    OBVIOUS
  <2>2. DemoTyped(d, c, {}) /\ PlayHolds(d, c, r) /\ c.agent = "running" /\ (c.mode = d.mode \/ c.raced)
    BY <1>1, <1>2, <1>4, <2>1 DEF Heard
  <2>3. PICK new : new = Append(c.results, r.result)
    OBVIOUS
  <2>4. g = [c EXCEPT !.state = "idle", !.usage = r.request, !.results = new, !.open = {}]
    BY <1>4, <2>1, <2>3 DEF RunReports
  <2>5. /\ ConvFields \subseteq DOMAIN g /\ g.agent = c.agent /\ g.state = "idle" /\ g.tools = c.tools /\ g.results = new
        /\ g.raced = c.raced /\ g.mode = c.mode /\ g.lost = c.lost /\ g.usage = r.request /\ g.open = {}
    BY <2>2, <2>4 DEF DemoTyped, ConvFields
  <2>6. /\ \A t \in DOMAIN c.tools : c.tools[t] # "running"
        /\ r.result \in PlayResults /\ (r.result = "end" => SteersAnswered(d, c))
        /\ d.active = 0
    BY <1>1, <2>2 DEF PlayHolds, ToolPcs
  <2>7. r.request = d.turns - d.compacted
    BY <1>1, <2>2 DEF PlayHolds
  <2>8. new \in Seq(PlayResults) /\ Last(new) = r.result
    <3>1. PICK results : results = c.results /\ results \in Seq(PlayResults)
      BY <2>2 DEF DemoTyped
    <3>2. /\ new \in Seq(PlayResults) /\ Len(new) = Len(results) + 1 /\ new[Len(results) + 1] = r.result
      BY <2>3, <2>6, <3>1, AppendProperties
    <3> QED
      BY <3>2 DEF Last
  <2>9. DemoTyped(d, g, {})
    BY <2>2, <2>5, <2>8 DEF DemoTyped
  <2>10. Last(g.results) = "end" => SteersAnswered(d, g)
    BY <2>5, <2>6, <2>8 DEF SteersAnswered
  <2>11. NoneRuns(g)
    BY <2>5, <2>6 DEF NoneRuns
  <2> QED
    BY <1>1, <2>1, <2>2, <2>5, <2>6, <2>7, <2>9, <2>10, <2>11
<1>5. ~Heard(r) => AlikeConv(demoConv, demoConv')
  BY <1>2, <1>3
<1>6. /\ DemoFields \subseteq DOMAIN demo' /\ demo'.gen = demo.gen /\ demo'.turns = demo.turns /\ demo'.compacted = demo.compacted
      /\ AlikeDemo(demo, demo')
  BY <1>1, <1>2 DEF AlikeDemo
<1> QED
  BY <1>1, <1>4, <1>5, <1>6, PlayLeaves

-----------------------------------------------------------------------------
(* The calls of the adapter.                                                 *)

\* What the invariant says while the conversation is idle: no turn is played.
LEMMA IdleIs ==
    ASSUME DemoIInv, demoConv.agent = "running", demoConv.state \in {"idle", "compacting"}
    PROVE  /\ \A r \in demoRuns : r.gen # demo.gen
           /\ demo.closed \/ demo.active = 0
           /\ demoConv.mode = demo.mode \/ demoConv.raced
           /\ NoneRuns(demoConv) /\ demoConv.open = {}
           /\ demoConv.results # <<>> /\ Last(demoConv.results) = "end" => SteersAnswered(demo, demoConv)
<1>1. PICK d, c, runs : d = demo /\ c = demoConv /\ runs = demoRuns
  OBVIOUS
<1>2. RunsHold(d, c, runs)
  BY <1>1 DEF DemoIInv, DemoHolds
<1>3. \A r \in runs : r.gen # d.gen
  BY <1>1, <1>2 DEF RunsHold, PlayHolds
<1> QED
  BY <1>1, <1>2, <1>3 DEF RunsHold

\* Start.
LEMMA DemoStartsHolds == ASSUME DemoIInv, DemoStarts PROVE DemoIInv'
<1>0. demoRuns' = demoRuns
  BY Zenon DEF DemoStarts
<1>1. PICK d, e, c, g, runs : d = demo /\ e = demo' /\ c = demoConv /\ g = demoConv' /\ runs = demoRuns /\ runs = demoRuns'
  BY <1>0
<1>2. PICK left, started, ref : e = [d EXCEPT !.left = left, !.started = started, !.ref = ref]
  <2>1. PICK left, started, ref :
          /\ left = (IF demo.left > 0 THEN demo.left - 1 ELSE demo.left) /\ started = CanStart
          /\ ref = IF ~CanStart THEN 0 ELSE IF demo.resume # 0 THEN demo.resume ELSE demo.gen
    OBVIOUS
  <2>2. demo' = [demo EXCEPT !.left = IF @ > 0 THEN @ - 1 ELSE @, !.started = CanStart,
                             !.ref = IF ~CanStart THEN 0 ELSE IF demo.resume # 0 THEN demo.resume ELSE demo.gen]
    BY Zenon DEF DemoStarts
  <2>3. e = [d EXCEPT !.left = left, !.started = started, !.ref = ref]
    BY <1>1, <2>1, <2>2
  <2> QED
    BY <2>3
<1>3. DemoTyped(d, c, runs) /\ DemoFresh(d, c, runs) /\ c.state = "idle" /\ c.open = {} /\ c.usage = 0 /\ NoneRuns(c)
  <2>1. demoConv.agent = "starting" /\ DemoHolds(demo, demoConv, demoRuns)
    BY Zenon DEF DemoIInv, DemoStarts
  <2> QED
    BY <1>1, <2>1 DEF DemoHolds
<1>4. /\ DemoFields \subseteq DOMAIN e /\ e.gen = d.gen /\ e.active = d.active /\ e.turns = d.turns /\ e.compacted = d.compacted
      /\ e.steers = d.steers /\ e.mode = d.mode
  BY <1>2, <1>3 DEF DemoTyped, DemoFields
<1>5. /\ ConvFields \subseteq DOMAIN g /\ g.agent \in {"running", "login", "down"} /\ g.state = c.state /\ g.usage = c.usage
      /\ g.tools = c.tools /\ g.results = c.results /\ g.mode = c.mode /\ g.open = c.open
  <2>1. ConvFields \subseteq DOMAIN c
    BY <1>3 DEF DemoTyped
  <2>2. CASE CanStart
    <3>1. PICK to : to = IF demo.resume # 0 THEN demo.resume ELSE demo.gen
      OBVIOUS
    <3>2. demoConv' = [demoConv EXCEPT !.agent = "running", !.ref = to]
      BY <2>2, <3>1 DEF DemoStarts
    <3> QED
      BY <1>1, <2>1, <3>2 DEF ConvFields
  <2>3. CASE ~CanStart
    <3>1. PICK agent : agent \in {"login", "down"} /\ g = [c EXCEPT !.agent = agent]
      BY <1>1, <2>3 DEF DemoStarts
    <3> QED
      BY <2>1, <3>1 DEF ConvFields
  <2> QED
    BY <2>2, <2>3
<1>6. DemoTyped(e, g, runs)
  BY <1>3, <1>4, <1>5 DEF DemoTyped
<1>7. NoneRuns(g)
  BY <1>3, <1>5 DEF NoneRuns
<1>8. RunsHold(e, g, runs)
  <2>1. \A r \in runs : r.gen # e.gen
    BY <1>3, <1>4 DEF DemoFresh, DemoTyped
  <2>2. e.active = 0 /\ g.mode = e.mode /\ SteersAnswered(e, g) /\ g.usage = e.turns - e.compacted
    BY <1>3, <1>4, <1>5 DEF DemoFresh, SteersAnswered
  <2> QED
    BY <1>3, <1>5, <1>7, <2>1, <2>2 DEF RunsHold
<1> QED
  BY <1>1, <1>3, <1>5, <1>6, <1>7, <1>8 DEF DemoIInv, DemoHolds

\* StartTurn, of an adapter that takes the turn and of one that does not.
LEMMA DemoStartTurnHolds == ASSUME DemoIInv, NEW words, StartTurn(words) PROVE DemoIInv'
<1>1. PICK d, e, c, g, old, new : d = demo /\ e = demo' /\ c = demoConv /\ g = demoConv' /\ old = demoRuns /\ new = demoRuns'
  OBVIOUS
<1>2. c.agent = "running" /\ c.state = "idle"
  BY <1>1 DEF StartTurn
<1>3. /\ \A r \in old : r.gen # d.gen
      /\ d.closed \/ d.active = 0
      /\ c.mode = d.mode \/ c.raced
  BY <1>1, <1>2, IdleIs
<1>4. DemoTyped(d, c, old)
  BY <1>1 DEF DemoIInv, DemoHolds
<1>a. demoConv' = [demoConv EXCEPT !.state = "starting", !.turns = @ + 1, !.tools = <<>>, !.open = {}]
  BY Zenon DEF StartTurn
<1>5. PICK turns, tools, open : tools = <<>> /\ g = [c EXCEPT !.state = "starting", !.turns = turns, !.tools = tools, !.open = open]
  <2>1. PICK turns, tools, open : turns = demoConv.turns + 1 /\ tools = <<>> /\ open = {}
    OBVIOUS
  <2>2. g = [c EXCEPT !.state = "starting", !.turns = turns, !.tools = tools, !.open = open]
    BY <1>1, <1>a, <2>1
  <2> QED
    BY <2>1, <2>2
<1>6. /\ ConvFields \subseteq DOMAIN g /\ g.agent = "running" /\ g.state = "starting" /\ g.tools = tools /\ g.results = c.results
      /\ g.mode = c.mode /\ g.raced = c.raced
  BY <1>2, <1>4, <1>5 DEF DemoTyped, ConvFields
<1>7. tools \in Seq({"running", "failed", "completed"}) /\ \A t \in DOMAIN tools : tools[t] # "running"
  BY <1>5
<1>8. CASE e = d /\ new = old
  <2>1. DemoTyped(e, g, new)
    BY <1>4, <1>6, <1>7, <1>8 DEF DemoTyped
  <2>2. RunsHold(e, g, new)
    BY <1>3, <1>6, <1>8 DEF RunsHold
  <2> QED
    BY <1>1, <1>6, <2>1, <2>2 DEF DemoIInv, DemoHolds
<1>9. CASE ~(e = d /\ new = old)
  <2>1. PICK n, s : n = d.turns + 1 /\ s = NewPlay(n, words) /\ new = old \cup {s}
    BY <1>1, <1>9 DEF StartTurn
  <2>2. PICK waiting, k : waiting = {} /\ k = n /\ e = [d EXCEPT !.active = k, !.turns = k, !.waiting = waiting, !.steers = 0]
    <3>1. e = [d EXCEPT !.active = d.turns + 1, !.turns = @ + 1, !.waiting = {}, !.steers = 0]
      BY <1>1, <1>9 DEF StartTurn
    <3>2. PICK waiting : waiting = {}
      OBVIOUS
    <3>3. DemoFields \subseteq DOMAIN d
      BY <1>4 DEF DemoTyped
    <3>4. e = [d EXCEPT !.active = n, !.turns = n, !.waiting = waiting, !.steers = 0]
      BY <2>1, <3>1, <3>2, <3>3 DEF DemoFields
    <3> QED
      BY <3>2, <3>4
  <2>3. /\ DemoFields \subseteq DOMAIN e /\ e.gen = d.gen /\ e.turns = n /\ e.active = n /\ e.mode = d.mode
        /\ e.compacted = d.compacted
    BY <1>4, <2>2 DEF DemoTyped, DemoFields
  <2>4. PICK u : u = Unsaid /\ s = [gen |-> demo.gen, n |-> n, words |-> words, stages |-> <<>>, at |-> 1, pc |-> "begin", request |-> 0, answer |-> u,
                                     cancelled |-> FALSE, result |-> u, limited |-> FALSE]
    BY <2>1, Zenon DEF NewPlay, Unsaid
  <2>5. /\ PlayFields \subseteq DOMAIN s /\ s.gen = d.gen /\ s.n = n /\ s.at = 1 /\ s.pc = "begin" /\ s.result = Unsaid
    BY <1>1, <2>4 DEF PlayFields
  <2>6. n \in Nat
    BY <1>4, <2>1 DEF DemoTyped
  <2>7. DemoTyped(e, g, new)
    BY <1>4, <1>6, <1>7, <2>1, <2>3, <2>5, <2>6 DEF DemoTyped
  <2>8. PlayHolds(e, g, s)
    <3>1. s.result \in PlayResults /\ s.result # "end"
      BY <2>5, Zenon DEF PlayResults, Unsaid
    <3> QED
      BY <1>5, <1>6, <1>7, <2>3, <2>5, <3>1 DEF PlayHolds, ToolPcs
  <2>9. RunsHold(e, g, new)
    BY <1>3, <1>6, <2>1, <2>3, <2>5, <2>8 DEF RunsHold
  <2> QED
    BY <1>1, <1>6, <2>7, <2>9 DEF DemoIInv, DemoHolds
<1> QED
  BY <1>8, <1>9

\* Compact, and its usage told.
LEMMA DemoCompactsHolds == ASSUME DemoIInv, DemoCompacts \/ DemoCompacted PROVE DemoIInv'
<1>0. demoRuns' = demoRuns
  BY Zenon DEF DemoCompacts, DemoCompacted
<1>1. PICK d, e, c, g, runs : d = demo /\ e = demo' /\ c = demoConv /\ g = demoConv' /\ runs = demoRuns /\ runs = demoRuns'
  BY <1>0
<1>2. DemoHolds(d, c, runs) /\ DemoTyped(d, c, runs)
  BY <1>1 DEF DemoIInv, DemoHolds
<1>3. c.agent = "running" /\ c.state \in {"idle", "compacting"}
  BY <1>1, <1>2 DEF DemoCompacts, DemoCompacted, DemoHolds
<1>4. /\ \A r \in runs : r.gen # d.gen
      /\ d.closed \/ d.active = 0
      /\ c.mode = d.mode \/ c.raced
      /\ NoneRuns(c) /\ c.open = {}
      /\ c.results # <<>> /\ Last(c.results) = "end" => SteersAnswered(d, c)
  BY <1>1, <1>3, IdleIs
<1>a. DemoFields \subseteq DOMAIN d /\ ConvFields \subseteq DOMAIN c
  BY <1>2 DEF DemoTyped
<1>5. /\ DemoFields \subseteq DOMAIN e /\ e.gen = d.gen /\ e.turns = d.turns /\ e.active = d.active /\ e.mode = d.mode /\ e.steers = d.steers
      /\ e.closed = d.closed /\ e.compacted \in {d.turns, d.compacted}
      /\ DemoCompacts => e.compacted = d.turns
      /\ DemoCompacted => e.compacted = d.compacted
  <2>1. DemoCompacts => e = [d EXCEPT !.compacted = d.turns]
    BY <1>1 DEF DemoCompacts
  <2>2. DemoCompacted => e = d
    BY <1>1 DEF DemoCompacted
  <2> QED
    BY <1>a, <2>1, <2>2 DEF DemoFields
<1>6. /\ ConvFields \subseteq DOMAIN g /\ g.agent = c.agent /\ g.tools = c.tools /\ g.results = c.results /\ g.mode = c.mode
      /\ g.raced = c.raced /\ g.lost = c.lost /\ g.open = c.open
      /\ DemoCompacts => g.state = "compacting"
      /\ DemoCompacted => g.state = "idle" /\ g.usage = 0
  <2>1. CASE DemoCompacts
    <3>1. PICK n : n = demoConv.compacts + 1
      OBVIOUS
    <3>2. demoConv' = [demoConv EXCEPT !.state = "compacting", !.compacts = n]
      BY <2>1, <3>1 DEF DemoCompacts
    <3>3. ~DemoCompacted
      <4>1. demoConv.state = "idle"
        BY <2>1 DEF DemoCompacts
      <4> QED
        BY <4>1 DEF DemoCompacted
    <3> QED
      BY <1>1, <1>a, <3>2, <3>3 DEF ConvFields
  <2>2. CASE ~DemoCompacts
    <3>1. demoConv' = [demoConv EXCEPT !.state = "idle", !.usage = 0]
      BY <2>2 DEF DemoCompacted
    <3> QED
      BY <1>1, <1>a, <2>2, <3>1 DEF ConvFields
  <2> QED
    BY <2>1, <2>2
<1>7. DemoTyped(e, g, runs)
  BY <1>2, <1>5, <1>6 DEF DemoTyped
<1>8. /\ g.state = "compacting" => e.turns = e.compacted
      /\ g.state = "idle" => g.usage = e.turns - e.compacted
  <2>1. CASE DemoCompacts
    BY <1>5, <1>6, <2>1
  <2>2. CASE DemoCompacted
    <3>1. d.turns = d.compacted /\ d.turns \in Nat
      BY <1>1, <1>2, <1>3, <2>2 DEF DemoHolds, DemoTyped, RunsHold, DemoCompacted
    <3> QED
      BY <1>5, <1>6, <2>2, <3>1
  <2> QED
    BY <2>1, <2>2
<1>9. NoneRuns(g) /\ (g.results # <<>> /\ Last(g.results) = "end" => SteersAnswered(e, g))
  BY <1>4, <1>5, <1>6 DEF NoneRuns, SteersAnswered
<1>10. RunsHold(e, g, runs)
  BY <1>4, <1>5, <1>6, <1>8, <1>9 DEF RunsHold
<1> QED
  BY <1>1, <1>3, <1>6, <1>7, <1>10 DEF DemoIInv, DemoHolds

\* Steer: what a turn that ends has not answered, it was steered into after
\* its last look.
LEMMA DemoSteerHolds == ASSUME DemoIInv, DemoSteer PROVE DemoIInv'
<1>0. demoRuns' = demoRuns
  BY Zenon DEF DemoSteer
<1>1. PICK d, e, c, g, runs : d = demo /\ e = demo' /\ c = demoConv /\ g = demoConv' /\ runs = demoRuns /\ runs = demoRuns'
  BY <1>0
<1>2. DemoTyped(d, c, runs) /\ RunsHold(d, c, runs) /\ c.agent = "running" /\ c.state = "running"
  BY <1>1 DEF DemoIInv, DemoHolds, DemoSteer
<1>3. PICK steers, late : /\ late = (\E r \in runs : r.gen = d.gen /\ r.n = d.active /\ r.result # Unsaid)
                          /\ g = [c EXCEPT !.steers = steers, !.lost = @ \/ late]
  BY <1>1, Zenon DEF DemoSteer, OfThis, Unsaid
<1>4. /\ ConvFields \subseteq DOMAIN g /\ g.agent = c.agent /\ g.state = c.state /\ g.tools = c.tools /\ g.results = c.results
      /\ g.mode = c.mode /\ g.raced = c.raced
  BY <1>2, <1>3 DEF DemoTyped, ConvFields
<1>5. c.lost \/ late => g.lost
  <2>1. "lost" \in DOMAIN c
    BY <1>2 DEF DemoTyped, ConvFields
  <2>2. g.lost = (c.lost \/ late)
    BY <1>3, <2>1
  <2> QED
    BY <2>2
<1>6. /\ DemoFields \subseteq DOMAIN e /\ e.gen = d.gen /\ e.turns = d.turns /\ e.active = d.active /\ e.mode = d.mode
      /\ e.closed = d.closed /\ e.compacted = d.compacted /\ (d.active = 0 => e = d)
  BY <1>1, <1>2 DEF DemoSteer, DemoTyped, DemoFields
<1>7. DemoTyped(e, g, runs)
  BY <1>2, <1>4, <1>6 DEF DemoTyped
<1>8. ASSUME NEW r \in runs, r.gen = d.gen PROVE PlayHolds(e, g, r)
  <2>1. PlayHolds(d, c, r)
    BY <1>2, <1>8 DEF RunsHold
  <2>2. ASSUME r.result = "end" PROVE SteersAnswered(e, g)
    <3>1. r.pc \in {"finish", "report"} /\ SteersAnswered(d, c)
      <4>1. r.result # Unsaid
        BY <2>2, Zenon DEF Unsaid
      <4> QED
        BY <2>1, <2>2, <4>1 DEF PlayHolds
    <3>2. CASE r.pc = "report"
      <4>1. e = d
        BY <1>6, <2>1, <3>2 DEF PlayHolds
      <4>2. d.steers = 0 \/ c.lost
        BY <3>1 DEF SteersAnswered
      <4> QED
        BY <1>5, <4>1, <4>2, Zenon DEF SteersAnswered
    <3>3. CASE r.pc = "finish"
      <4>1. r.n = d.active
        BY <2>1, <3>3 DEF PlayHolds
      <4>2. r.result # Unsaid
        BY <2>2, Zenon DEF Unsaid
      <4>3. late
        BY <1>3, <1>8, <4>1, <4>2, Zenon
      <4> QED
        BY <1>5, <4>3, Zenon DEF SteersAnswered
    <3> QED
      BY <3>1, <3>2, <3>3
  <2>3. /\ IF r.pc = "begin" THEN g.state = "starting" /\ g.tools = <<>> /\ r.at = 1
           ELSE g.state = "running" /\ StagesHold(r.stages) /\ r.at \in DOMAIN r.stages
        /\ \A t \in DOMAIN g.tools : g.tools[t] = "running" => r.pc \in ToolPcs /\ t = r.at - 1
        /\ r.result \in PlayResults /\ (r.pc \notin {"finish", "report"} => r.result = Unsaid)
    BY <1>4, <2>1 DEF PlayHolds
  <2>4. /\ r.pc \in ToolPcs => IsTool(r.stages, r.at) /\ Len(g.tools) = r.at - 1
        /\ r.pc = "stage" =>
              /\ r.at = 1 => g.tools = <<>>
              /\ r.at >= 2 /\ (\A j \in 2..(r.at - 1) : IsTool(r.stages, j)) => Len(g.tools) = r.at - 2
    BY <1>4, <2>1 DEF PlayHolds
  <2>5. /\ e.active = IF r.pc = "report" THEN 0 ELSE r.n
        /\ r.pc = "report" => r.request = e.turns - e.compacted
        /\ r.pc = "mode" => e.mode = "bypass" \/ g.raced
    BY <1>4, <1>6, <2>1 DEF PlayHolds
  <2> QED
    BY <2>2, <2>3, <2>4, <2>5 DEF PlayHolds
<1>9. RunsHold(e, g, runs)
  <2>1. /\ \A r, s \in runs : r.gen = e.gen /\ s.gen = e.gen => r = s
        /\ ~e.closed /\ e.active # 0 => \E r \in runs : r.gen = e.gen
        /\ g.mode = e.mode \/ g.raced \/ \E r \in runs : r.gen = e.gen /\ r.pc = "mode"
    BY <1>2, <1>4, <1>6 DEF RunsHold
  <2> QED
    BY <1>2, <1>4, <1>6, <1>8, <2>1 DEF RunsHold
<1> QED
  BY <1>1, <1>2, <1>4, <1>7, <1>9 DEF DemoIInv, DemoHolds

\* ApplySettings: told at once, whether or not an approved plan is being told.
LEMMA DemoSettingsHold == ASSUME DemoIInv, NEW mode, DemoApplySettings(mode) PROVE DemoIInv'
<1>0. demoRuns' = demoRuns
  BY Zenon DEF DemoApplySettings
<1>1. PICK d, e, c, g, runs : d = demo /\ e = demo' /\ c = demoConv /\ g = demoConv' /\ runs = demoRuns /\ runs = demoRuns'
  BY <1>0
<1>2. DemoTyped(d, c, runs) /\ RunsHold(d, c, runs) /\ c.agent = "running"
  BY <1>1 DEF DemoIInv, DemoHolds, DemoApplySettings
<1>3. PICK changes, late : /\ late = (\E r \in runs : r.pc = "mode")
                           /\ g = [c EXCEPT !.changes = changes, !.mode = mode, !.raced = @ \/ late]
  BY <1>1, Zenon DEF DemoApplySettings
<1>4. /\ ConvFields \subseteq DOMAIN g /\ g.agent = c.agent /\ g.state = c.state /\ g.tools = c.tools /\ g.results = c.results
      /\ g.mode = mode /\ g.lost = c.lost /\ g.open = c.open /\ g.usage = c.usage
  BY <1>2, <1>3 DEF DemoTyped, ConvFields
<1>5. late => g.raced
  <2>1. "raced" \in DOMAIN c
    BY <1>2 DEF DemoTyped, ConvFields
  <2>2. g.raced = (c.raced \/ late)
    BY <1>3, <2>1
  <2> QED
    BY <2>2
<1>6. /\ DemoFields \subseteq DOMAIN e /\ e.gen = d.gen /\ e.turns = d.turns /\ e.active = d.active /\ e.mode = mode
      /\ e.closed = d.closed /\ e.compacted = d.compacted /\ e.steers = d.steers
  BY <1>1, <1>2 DEF DemoApplySettings, DemoTyped, DemoFields
<1>7. DemoTyped(e, g, runs)
  BY <1>2, <1>4, <1>6 DEF DemoTyped
<1>8. ASSUME NEW r \in runs, r.gen = d.gen PROVE PlayHolds(e, g, r)
  <2>1. PlayHolds(d, c, r)
    BY <1>2, <1>8 DEF RunsHold
  <2>2. r.pc = "mode" => e.mode = "bypass" \/ g.raced
    BY <1>3, <1>5, <1>8
  <2>3. /\ IF r.pc = "begin" THEN g.state = "starting" /\ g.tools = <<>> /\ r.at = 1
           ELSE g.state = "running" /\ StagesHold(r.stages) /\ r.at \in DOMAIN r.stages
        /\ \A t \in DOMAIN g.tools : g.tools[t] = "running" => r.pc \in ToolPcs /\ t = r.at - 1
        /\ r.result \in PlayResults /\ (r.pc \notin {"finish", "report"} => r.result = Unsaid)
        /\ r.result = "end" => SteersAnswered(e, g)
    BY <1>4, <1>6, <2>1 DEF PlayHolds, SteersAnswered
  <2>4. /\ r.pc \in ToolPcs => IsTool(r.stages, r.at) /\ Len(g.tools) = r.at - 1
        /\ r.pc = "stage" =>
              /\ r.at = 1 => g.tools = <<>>
              /\ r.at >= 2 /\ (\A j \in 2..(r.at - 1) : IsTool(r.stages, j)) => Len(g.tools) = r.at - 2
    BY <1>4, <2>1 DEF PlayHolds
  <2>5. /\ e.active = IF r.pc = "report" THEN 0 ELSE r.n
        /\ r.pc = "report" => r.request = e.turns - e.compacted
    BY <1>4, <1>6, <2>1 DEF PlayHolds
  <2> QED
    BY <2>2, <2>3, <2>4, <2>5 DEF PlayHolds
<1>9. RunsHold(e, g, runs)
  <2>1. /\ \A r, s \in runs : r.gen = e.gen /\ s.gen = e.gen => r = s
        /\ ~e.closed /\ e.active # 0 => \E r \in runs : r.gen = e.gen
        /\ g.mode = e.mode
    BY <1>2, <1>4, <1>6 DEF RunsHold
  <2>2. /\ g.state \in {"idle", "compacting"} =>
              NoneRuns(g) /\ g.open = {} /\ (g.results # <<>> /\ Last(g.results) = "end" => SteersAnswered(e, g))
        /\ g.state = "idle" => g.usage = e.turns - e.compacted
        /\ g.state = "compacting" => e.turns = e.compacted
    BY <1>2, <1>4, <1>6 DEF RunsHold, NoneRuns, SteersAnswered
  <2> QED
    BY <1>6, <1>8, <2>1, <2>2 DEF RunsHold
<1> QED
  BY <1>1, <1>2, <1>4, <1>7, <1>9 DEF DemoIInv, DemoHolds

\* Interrupt, Close and Respond: marks on the turn, of what decides its way.
LEMMA DemoMarksHold ==
    ASSUME DemoIInv, AlikeDemo(demo, demo'), AlikeConv(demoConv, demoConv'), NEW f,
           \A y \in demoRuns : SamePlay(f[y], y) /\ PlayFields \subseteq DOMAIN f[y], demoRuns' = {f[y] : y \in demoRuns}
    PROVE  DemoIInv'
<1>1. \A x \in demoRuns' : PlayFields \subseteq DOMAIN x /\ \E y \in demoRuns : x = f[y] /\ SamePlay(x, y)
  OBVIOUS
<1>2. \A x \in demoRuns' : PlayFields \subseteq DOMAIN x /\ \E y \in demoRuns : x.gen = y.gen /\ (y.gen = demo.gen => SamePlay(x, y))
  BY <1>1 DEF SamePlay
<1>3. \A y \in demoRuns : y.gen = demo.gen => \E x \in demoRuns' : SamePlay(x, y)
  OBVIOUS
<1>4. ASSUME demoConv.agent = "running", NEW x \in demoRuns', NEW y \in demoRuns', x.gen = demo.gen, y.gen = demo.gen PROVE x = y
  <2>1. PICK v \in demoRuns : x = f[v] /\ v.gen = x.gen
    BY <1>1 DEF SamePlay
  <2>2. PICK w \in demoRuns : y = f[w] /\ w.gen = y.gen
    BY <1>1 DEF SamePlay
  <2>3. v = w
    BY <1>4, <2>1, <2>2 DEF DemoIInv, DemoHolds, RunsHold
  <2> QED
    BY <2>1, <2>2, <2>3
<1> QED
  BY <1>2, <1>3, <1>4, DemoFrame

\* A cancelled turn goes on as it was, until it looks.
LEMMA DemoCancelHolds ==
    ASSUME DemoIInv, AlikeDemo(demo, demo'), AlikeConv(demoConv, demoConv'), demoRuns' = CancelTurn(demoRuns)
    PROVE  DemoIInv'
<1>1. PICK f : f = [y \in demoRuns |-> IF y.gen = demo.gen /\ y.n = demo.active THEN [y EXCEPT !.cancelled = TRUE] ELSE y]
  OBVIOUS
<1>2. demoRuns' = {f[y] : y \in demoRuns}
  BY <1>1 DEF CancelTurn
<1>3. ASSUME NEW y \in demoRuns PROVE SamePlay(f[y], y) /\ PlayFields \subseteq DOMAIN f[y]
  <2>1. PlayFields \subseteq DOMAIN y
    BY DEF DemoIInv, DemoHolds, DemoTyped
  <2>2. f[y] = y \/ f[y] = [y EXCEPT !.cancelled = TRUE]
    BY <1>1
  <2> QED
    BY <2>1, <2>2 DEF SamePlay, PlayFields
<1> QED
  BY <1>2, <1>3, DemoMarksHold

\* Interrupt and Close cancel the turn.
LEMMA DemoInterruptHolds == ASSUME DemoIInv, DemoInterrupt \/ DemoClose PROVE DemoIInv'
<1>1. DemoTyped(demo, demoConv, {})
  BY DEF DemoIInv, DemoHolds, DemoTyped
<1>2. AlikeDemo(demo, demo')
  BY <1>1 DEF DemoInterrupt, DemoClose, DemoExit, DemoTyped, AlikeDemo, DemoFields
<1>3. AlikeConv(demoConv, demoConv')
  BY <1>1 DEF DemoInterrupt, DemoClose, DemoTyped, AlikeConv, ConvFields
<1>4. demoRuns' = CancelTurn(demoRuns)
  BY DEF DemoInterrupt, DemoClose
<1> QED
  BY <1>2, <1>3, <1>4, DemoCancelHolds

\* Respond answers a request that a turn waits on.
LEMMA DemoRespondHolds == ASSUME DemoIInv, NEW id, NEW answer, DemoRespond(id, answer) PROVE DemoIInv'
<1>1. DemoTyped(demo, demoConv, {})
  BY DEF DemoIInv, DemoHolds, DemoTyped
<1>2. CASE demo.active # 0 /\ id \in demo.waiting
  <2>1. AlikeDemo(demo, demo')
    BY <1>1, <1>2 DEF DemoRespond, DemoTyped, AlikeDemo, DemoFields
  <2>2. AlikeConv(demoConv, demoConv')
    BY <1>1, <1>2 DEF DemoRespond, DemoTyped, AlikeConv, ConvFields
  <2>3. PICK f : f = [y \in demoRuns |-> IF OfThis(y) /\ y.request = id THEN [y EXCEPT !.answer = answer] ELSE y]
    OBVIOUS
  <2>4. demoRuns' = {f[y] : y \in demoRuns}
    BY <1>2, <2>3 DEF DemoRespond
  <2>5. ASSUME NEW y \in demoRuns PROVE SamePlay(f[y], y) /\ PlayFields \subseteq DOMAIN f[y]
    <3>1. PlayFields \subseteq DOMAIN y
      BY DEF DemoIInv, DemoHolds, DemoTyped
    <3>2. f[y] = y \/ f[y] = [y EXCEPT !.answer = answer]
      BY <2>3
    <3> QED
      BY <3>1, <3>2 DEF SamePlay, PlayFields
  <2> QED
    BY <2>1, <2>2, <2>4, <2>5, DemoMarksHold
<1>3. CASE ~(demo.active # 0 /\ id \in demo.waiting)
  <2>1. UNCHANGED <<demo, demoRuns, demoConv>>
    BY <1>3 DEF DemoRespond
  <2> QED
    BY <2>1 DEF DemoIInv
<1> QED
  BY <1>2, <1>3

\* Wait returns: no call runs any more, and the conversation has no context.
LEMMA DemoExitedHolds == ASSUME DemoIInv, DemoExited PROVE DemoIInv'
<1>0. demoRuns' = demoRuns /\ demo' = demo
  BY Zenon DEF DemoExited
<1>1. PICK d, c, g, runs : d = demo /\ d = demo' /\ c = demoConv /\ g = demoConv' /\ runs = demoRuns /\ runs = demoRuns'
  BY <1>0
<1>2. DemoTyped(d, c, runs)
  BY <1>1 DEF DemoIInv, DemoHolds
<1>3. PICK tools, S : /\ tools = [t \in DOMAIN c.tools |-> IF c.tools[t] = "running" THEN "failed" ELSE c.tools[t]]
                      /\ S = {"running", "failed", "completed"}
  OBVIOUS
<1>4. g = [c EXCEPT !.agent = "down", !.state = "idle", !.open = {}, !.usage = 0, !.tools = tools]
  <2>1. "tools" \in DOMAIN c
    BY <1>2 DEF DemoTyped, ConvFields
  <2> QED
    BY <1>1, <1>2, <1>3, <2>1 DEF DemoExited, DemoTyped, ConvFields
<1>5. /\ ConvFields \subseteq DOMAIN g /\ g.agent = "down" /\ g.state = "idle" /\ g.open = {} /\ g.usage = 0 /\ g.tools = tools
      /\ g.results = c.results
  BY <1>2, <1>4 DEF DemoTyped, ConvFields
<1>6. tools \in Seq(S) /\ \A t \in DOMAIN tools : tools[t] # "running"
  <2>1. PICK old, n : old = c.tools /\ n = Len(old) /\ old \in Seq(S)
    BY <1>2, <1>3 DEF DemoTyped
  <2>2. n \in Nat /\ DOMAIN old = 1..n /\ \A t \in 1..n : old[t] \in S
    BY <2>1, LenProperties, ElementOfSeq
  <2>3. DOMAIN tools = 1..n /\ \A t \in 1..n : tools[t] \in S /\ tools[t] # "running"
    BY <1>3, <2>1, <2>2
  <2>4. tools = [t \in 1..n |-> tools[t]]
    BY <1>3, <2>3
  <2>5. tools \in [1..n -> S]
    BY <2>3, <2>4
  <2>6. tools \in Seq(S)
    BY <2>2, <2>5, SeqDef
  <2> QED
    BY <2>3, <2>6
<1>7. DemoTyped(d, g, runs)
  BY <1>2, <1>3, <1>5, <1>6 DEF DemoTyped
<1>8. NoneRuns(g)
  BY <1>5, <1>6 DEF NoneRuns
<1> QED
  BY <1>1, <1>5, <1>7, <1>8 DEF DemoIInv, DemoHolds

\* The next adapter: the turns that are still played are of those before it.
LEMMA DemoAgainHolds == ASSUME DemoIInv, NEW resume, DemoAgain(resume) PROVE DemoIInv'
<1>0. demoRuns' = demoRuns
  BY Zenon DEF DemoAgain
<1>1. PICK d, e, c, g, runs : d = demo /\ e = demo' /\ c = demoConv /\ g = demoConv' /\ runs = demoRuns /\ runs = demoRuns'
  BY <1>0
<1>2. DemoTyped(d, c, runs) /\ c.state = "idle" /\ c.open = {} /\ c.usage = 0 /\ NoneRuns(c)
  BY <1>1 DEF DemoIInv, DemoHolds, DemoAgain
<1>3. PICK n, u : /\ n = d.gen + 1
                  /\ e = [gen |-> n, resume |-> resume, ref |-> 0, started |-> FALSE, closed |-> FALSE, exit |-> u, active |-> 0, turns |-> 0,
                          compacted |-> 0, mode |-> "bypass", requests |-> 0, waiting |-> {}, steers |-> 0, left |-> d.left, broken |-> d.broken]
  BY <1>1, Zenon DEF DemoAgain, NewDemo
<1>4. /\ DemoFields \subseteq DOMAIN e /\ e.gen = n /\ e.active = 0 /\ e.turns = 0 /\ e.compacted = 0 /\ e.steers = 0 /\ e.mode = "bypass"
  BY <1>3 DEF DemoFields
<1>5. /\ ConvFields \subseteq DOMAIN g /\ g.agent = "starting" /\ g.state = c.state /\ g.open = c.open /\ g.usage = c.usage
      /\ g.tools = c.tools /\ g.results = c.results /\ g.mode = "bypass"
  BY <1>1, <1>2 DEF DemoAgain, DemoTyped, ConvFields
<1>6. n \in Nat /\ \A r \in runs : r.gen < n /\ r.gen <= n
  BY <1>2, <1>3 DEF DemoTyped
<1>7. DemoTyped(e, g, runs)
  BY <1>2, <1>4, <1>5, <1>6 DEF DemoTyped
<1>8. NoneRuns(g)
  BY <1>2, <1>5 DEF NoneRuns
<1>9. DemoFresh(e, g, runs)
  BY <1>4, <1>5, <1>6 DEF DemoFresh
<1> QED
  BY <1>1, <1>2, <1>5, <1>7, <1>8, <1>9 DEF DemoIInv, DemoHolds

-----------------------------------------------------------------------------
(* The demo adapter as a whole.                                              *)

\* The first adapter, before its start.
LEMMA DemoInitHolds == ASSUME DemoInit PROVE DemoIInv
<1>1. PICK d, c, runs : d = demo /\ c = demoConv /\ runs = demoRuns /\ runs = {}
  BY DEF DemoInit
<1>2. PICK u : d = [gen |-> 1, resume |-> 0, ref |-> 0, started |-> FALSE, closed |-> FALSE, exit |-> u, active |-> 0, turns |-> 0,
                    compacted |-> 0, mode |-> "bypass", requests |-> 0, waiting |-> {}, steers |-> 0, left |-> 0, broken |-> {}]
  BY <1>1, Zenon DEF DemoInit, NewDemo
<1>3. /\ DemoFields \subseteq DOMAIN d /\ d.gen = 1 /\ d.active = 0 /\ d.turns = 0 /\ d.compacted = 0 /\ d.steers = 0 /\ d.mode = "bypass"
  BY <1>2 DEF DemoFields
<1>4. PICK results, tools : /\ results = <<>> /\ tools = <<>>
                            /\ c = [agent |-> "starting", state |-> "idle", ref |-> 0, turns |-> 0, started |-> 0, results |-> results,
                                    tools |-> tools, open |-> {}, usage |-> 0, mode |-> "bypass", raced |-> FALSE, lost |-> FALSE, steers |-> 0,
                                    interrupts |-> 0, compacts |-> 0, changes |-> 0, closes |-> 0]
  BY <1>1 DEF DemoInit
<1>5. /\ ConvFields \subseteq DOMAIN c /\ c.agent = "starting" /\ c.state = "idle" /\ c.open = {} /\ c.usage = 0 /\ c.mode = "bypass"
      /\ c.tools = tools /\ c.results = results
  BY <1>4 DEF ConvFields
<1>6. /\ tools \in Seq({"running", "failed", "completed"}) /\ results \in Seq(PlayResults)
      /\ \A t \in DOMAIN tools : tools[t] # "running"
  BY <1>4
<1>7. DemoTyped(d, c, runs)
  BY <1>1, <1>3, <1>5, <1>6 DEF DemoTyped
<1>8. NoneRuns(c) /\ DemoFresh(d, c, runs)
  BY <1>1, <1>3, <1>5, <1>6 DEF NoneRuns, DemoFresh
<1> QED
  BY <1>1, <1>5, <1>7, <1>8 DEF DemoIInv, DemoHolds

\* A call of the adapter keeps the invariant.
LEMMA DemoCallHolds == ASSUME DemoIInv, DemoCalls PROVE DemoIInv'
<1>1. CASE DemoStarts
  BY <1>1, DemoStartsHolds
<1>2. CASE DemoSteer
  BY <1>2, DemoSteerHolds
<1>3. CASE DemoInterrupt \/ DemoClose
  BY <1>3, DemoInterruptHolds
<1>4. CASE DemoCompacts \/ DemoCompacted
  BY <1>4, DemoCompactsHolds
<1>5. CASE DemoExited
  BY <1>5, DemoExitedHolds
<1>6. ASSUME NEW words \in demoScope.words, StartTurn(words) PROVE DemoIInv'
  BY <1>6, DemoStartTurnHolds
<1>7. ASSUME NEW id \in demoConv.open, NEW answer \in {"allow", "deny"}, DemoRespond(id, answer) PROVE DemoIInv'
  BY <1>7, DemoRespondHolds
<1>8. ASSUME NEW mode \in demoScope.modes, DemoApplySettings(mode) PROVE DemoIInv'
  BY <1>8, DemoSettingsHold
<1>9. ASSUME NEW resume \in {0, demoConv.ref}, DemoAgain(resume) PROVE DemoIInv'
  BY <1>9, DemoAgainHolds
<1> QED
  BY <1>1, <1>2, <1>3, <1>4, <1>5, <1>6, <1>7, <1>8, <1>9, ZenonT(30) DEF DemoCalls

\* A step of a turn keeps the invariant.
LEMMA DemoPlayHolds == ASSUME DemoIInv, DemoPlays PROVE DemoIInv'
<1>1. PICK r \in demoRuns :
        \/ RunBegins(r) \/ RunTool(r) \/ RunAsks(r) \/ RunOpens(r) \/ RunLeavesPlan(r) \/ RunTellsMode(r) \/ RunLosesLogin(r) \/ RunCrashes(r) \/ RunFails(r)
        \/ RunReplies(r) \/ RunFinishes(r) \/ RunReports(r)
        \/ \E interrupted \in BOOLEAN : RunStreams(r, interrupted) \/ RunToolEnds(r, interrupted)
  BY DEF DemoPlays
<1>2. CASE RunBegins(r) \/ RunTool(r) \/ RunFinishes(r) \/ RunReports(r)
  BY <1>2, RunBeginsHolds, RunToolHolds, RunFinishesHolds, RunReportsHolds
<1>3. CASE RunAsks(r) \/ RunOpens(r) \/ RunLeavesPlan(r) \/ RunTellsMode(r)
  BY <1>3, RunAsksHolds, RunOpensHolds, RunLeavesPlanHolds, RunTellsModeHolds
<1>4. CASE RunLosesLogin(r) \/ RunCrashes(r) \/ RunFails(r) \/ RunReplies(r)
  BY <1>4, RunLosesLoginHolds, RunCrashesHolds, RunFailsHolds, RunRepliesHolds
<1>5. ASSUME NEW interrupted \in BOOLEAN, RunStreams(r, interrupted) PROVE DemoIInv'
  BY <1>5, RunStreamsHolds, Zenon
<1>6. ASSUME NEW interrupted \in BOOLEAN, RunToolEnds(r, interrupted) PROVE DemoIInv'
  BY <1>6, RunToolEndsHolds, Zenon
<1> QED
  BY <1>1, <1>2, <1>3, <1>4, <1>5, <1>6, ZenonT(30)

\* A step of the demo adapter keeps the invariant.
LEMMA DemoNextHolds == ASSUME DemoIInv, DemoNext PROVE DemoIInv'
  BY DemoCallHolds, DemoPlayHolds DEF DemoNext

\* A step that changes nothing keeps it too.
LEMMA DemoStutters == ASSUME DemoIInv, UNCHANGED demoVars PROVE DemoIInv'
  BY DEF DemoIInv, demoVars

\* What it is for.
LEMMA DemoIInvMeans == DemoIInv => DemoTurnsEnd
<1>1. SUFFICES ASSUME DemoIInv, demoConv.state = "idle", demoConv.agent = "running", ~demo.closed
               PROVE  /\ \A t \in DOMAIN demoConv.tools : demoConv.tools[t] # "running"
                      /\ demo.active = 0
                      /\ demoConv.open = {}
                      /\ demoConv.results # <<>> /\ Last(demoConv.results) = "end" => demo.steers = 0 \/ demoConv.lost
                      /\ demoConv.usage = demo.turns - demo.compacted
                      /\ demoConv.mode = demo.mode \/ demoConv.raced
  BY Zenon DEF DemoTurnsEnd
<1>2. PICK d, c, runs : d = demo /\ c = demoConv /\ runs = demoRuns
  OBVIOUS
<1>3. /\ d.active = 0
      /\ c.mode = d.mode \/ c.raced
      /\ NoneRuns(c) /\ c.open = {}
      /\ c.results # <<>> /\ Last(c.results) = "end" => SteersAnswered(d, c)
  BY <1>1, <1>2, IdleIs
<1>4. c.usage = d.turns - d.compacted
  BY <1>1, <1>2 DEF DemoIInv, DemoHolds, RunsHold
<1> QED
  BY <1>2, <1>3, <1>4 DEF NoneRuns, SteersAnswered

-----------------------------------------------------------------------------
(* The parts together.                                                      *)

\* A step of the terminal in MCParts keeps its invariant.
LEMMA TermStepsKeep == ASSUME TermIInv, TermSteps PROVE TermIInv'
<1>1. CASE OfTerm(ShellRead) \/ OfTerm(ShellDone)
  BY <1>1, ShellReadHolds, ShellDoneHolds DEF OfTerm
<1>2. CASE \/ OfTerm(ShellExits) \/ OfTerm(ShellWaited) \/ OfTerm(ShellOutputEnds) \/ OfTerm(TermKills)
           \/ part = "terminal" /\ \E flags \in termScope.chunks : OfTerm(ShellWrites(flags))
  BY <1>2, ShellStepsHold DEF OfTerm
<1>3. CASE \/ OfTerm(TermStartFails) \/ OfTerm(TermStop) \/ OfTerm(TermClose) \/ OfTerm(TermClosed)
           \/ part = "terminal" /\ \E cells \in 1 .. 2 : OfTerm(TermResize(cells))
  BY <1>3, TermStepsHold DEF OfTerm
<1>4. CASE EachStream(TermWatch) \/ EachStream(StreamSends) \/ EachStream(StreamEnds) \/ EachStream(StreamStops)
  <2>1. PICK c \in termScope.clients : TermWatch(c) \/ StreamSends(c) \/ StreamEnds(c) \/ StreamStops(c)
    BY <1>4 DEF EachStream, OfTerm
  <2> QED
    BY <2>1, TermWatchHolds, StreamSendsHolds, StreamsEndHolds
<1> QED
  BY <1>1, <1>2, <1>3, <1>4 DEF TermSteps

\* A step of the uploads.
LEMMA UploadStepsKeep == ASSUME UploadIInv, UploadSteps PROVE UploadIInv'
<1>1. CASE \/ OfUploads(ForgetConversation) \/ OfUploads(UploadTimePasses) \/ OfUploads(UploadsStop) \/ OfUploads(UploadsStopped)
           \/ OfUploads(UploadsDie) \/ OfUploads(UploadsStart)
  BY <1>1, ForgetHolds, UploadTimeHolds, UploadsStopHolds, UploadsStoppedHolds, UploadsDieHolds, UploadsStartHolds DEF OfUploads
<1>2. CASE part = "uploads" /\ \E c \in Contents, n \in Names, by \in upScope.by : OfUploads(SaveBegins(c, n, by))
  BY <1>2, SaveBeginsHolds DEF OfUploads
<1>3. CASE \/ part = "uploads" /\ \E s \in saves : OfUploads(SaveFails(s))
           \/ part = "uploads" /\ \E s \in saves : OfUploads(SaveTold(s))
           \/ part = "uploads" /\ \E s \in saves, ok \in BOOLEAN : OfUploads(SavePlaces(s, ok))
  BY <1>3, SaveFailsHolds, SaveToldHolds, SavePlacesHolds DEF OfUploads
<1>4. CASE \/ part = "uploads" /\ \E c \in Contents : OfUploads(SendDraft(c))
           \/ part = "uploads" /\ \E c \in Contents : OfUploads(QueueSends(c))
  BY <1>4, SendDraftHolds, QueueSendsHolds DEF OfUploads
<1>5. CASE \/ part = "uploads" /\ \E asked \in BOOLEAN : OfUploads(PruneLooks(asked))
           \/ part = "uploads" /\ \E ok \in BOOLEAN : OfUploads(PruneScans(ok))
           \/ part = "uploads" /\ \E kept \in SUBSET (Contents \X Names) : OfUploads(PruneRemoves(kept))
  BY <1>5, PruneLooksHolds, PruneScansHolds, PruneRemovesHolds DEF OfUploads
<1> QED
  BY <1>1, <1>2, <1>3, <1>4, <1>5 DEF UploadSteps

\* A step of the human replies.
LEMMA HandoffStepsKeep == ASSUME HandIInv, HandoffSteps PROVE HandIInv'
<1>1. CASE \/ OfHandoff(AgentReplies) \/ OfHandoff(AgentWorks) \/ OfHandoff(QueuedGoes) \/ OfHandoff(HandoffAgentRestarts)
           \/ OfHandoff(HandoffAgentBack)
  BY <1>1, AgentsHold DEF OfHandoff
<1>2. CASE \/ OfHandoff(HandoffGet) \/ OfHandoff(MessagePosted) \/ OfHandoff(AgentRequests) \/ OfHandoff(HandoffServerAgain)
  BY <1>2, HandoffGetHolds, MessagePostedHolds, AgentRequestsHolds, HandoffServerAgainHolds DEF OfHandoff
<1>3. CASE part = "handoff" /\ \E i \in DOMAIN talk.reqs : OfHandoff(RequestCloses(talk.reqs[i].n))
  BY <1>3, RequestClosesHolds DEF OfHandoff
<1>4. CASE part = "handoff" /\ \E reply \in 1 .. 2, id \in bots.offers : OfHandoff(HandoffReply(reply, id))
  <2>1. \A reply \in 1 .. 2 : reply \in Nat
    OBVIOUS
  <2> QED
    BY <1>4, <2>1, HandoffReplyHolds DEF OfHandoff
<1>5. CASE part = "handoff" /\ \E c \in hcalls : OfHandoff(HandoffPends(c))
  BY <1>5, HandoffPendsHolds DEF OfHandoff
<1>6. CASE EachSend(HandoffSends) \/ EachSend(HandoffAnswers) \/ EachSend(MessageSends)
  <2>1. \E c \in hcalls : \E how \in {"applied", "queued", "unconfirmed", "refused", "invalid"} :
            HandoffSends(c, how) \/ HandoffAnswers(c, how) \/ MessageSends(c, how)
    BY <1>6 DEF EachSend, OfHandoff
  <2> QED
    BY <2>1, HandoffSendsHolds, HandoffAnswersHolds, MessageSendsHolds
<1> QED
  BY <1>1, <1>2, <1>3, <1>4, <1>5, <1>6 DEF HandoffSteps

\* A step of the demo adapter in MCParts is one of DemoNext.
LEMMA DemoStepsAreNext ==
    ASSUME DemoSteps
    PROVE  DemoNext
<1>1. CASE \/ OfDemo(DemoStarts) \/ OfDemo(DemoSteer) \/ OfDemo(DemoInterrupt) \/ OfDemo(DemoCompacts) \/ OfDemo(DemoCompacted)
           \/ OfDemo(DemoClose) \/ OfDemo(DemoExited)
  BY <1>1 DEF OfDemo, DemoNext, DemoCalls
<1>2. CASE \/ part = "demo" /\ \E words \in demoScope.words : OfDemo(StartTurn(words))
           \/ part = "demo" /\ \E id \in demoConv.open, answer \in {"allow", "deny"} : OfDemo(DemoRespond(id, answer))
           \/ part = "demo" /\ \E mode \in demoScope.modes : OfDemo(DemoApplySettings(mode))
           \/ part = "demo" /\ \E resume \in {0, demoConv.ref} : OfDemo(DemoAgain(resume))
  BY <1>2 DEF OfDemo, DemoNext, DemoCalls
<1>3. CASE \/ EachPlay(RunBegins) \/ EachPlay(RunTool) \/ EachPlay(RunAsks) \/ EachPlay(RunOpens) \/ EachPlay(RunLeavesPlan)
           \/ EachPlay(RunTellsMode)
  BY <1>3 DEF EachPlay, OfDemo, DemoNext, DemoPlays
<1>4. CASE \/ EachPlay(RunLosesLogin) \/ EachPlay(RunCrashes) \/ EachPlay(RunFails) \/ EachPlay(RunReplies)
           \/ EachPlay(RunFinishes) \/ EachPlay(RunReports)
  BY <1>4 DEF EachPlay, OfDemo, DemoNext, DemoPlays
<1>5. CASE EitherWay(RunStreams) \/ EitherWay(RunToolEnds)
  BY <1>5, Zenon DEF EitherWay, OfDemo, DemoNext, DemoPlays
<1> QED
  BY <1>1, <1>2, <1>3, <1>4, <1>5 DEF DemoSteps

\* The parts' invariants together: each is that of its own specification.
PartsIInv ==
    /\ part = "updates" => UpdIInv
    /\ part = "hub" => HubAllHolds
    /\ part = "terminal" => TermIInv
    /\ part = "uploads" => UploadIInv
    /\ part = "handoff" => HandIInv
    /\ part = "demo" => DemoIInv
PartsStep == (part = "updates" => UpdateStep) /\ (part = "hub" => HubMove)

\* Every scope begins in the invariant of its part.
LEMMA PartsInit == Init => PartsIInv
  BY UpdInitHolds, HubAllBegins, TermInitHolds, UploadInitHolds, HandoffInitHolds, DemoInitHolds DEF Init, PartsIInv

\* Every step of a part keeps its part's invariant and is careful.
LEMMA PartsNext == PartsIInv /\ Next => PartsIInv' /\ PartsStep
<1> SUFFICES ASSUME PartsIInv, Next PROVE PartsIInv' /\ PartsStep
  OBVIOUS
<1>1. CASE UpdateSteps
  BY <1>1, UpdateStepsAreNext, UpdNextHolds DEF PartsIInv, PartsStep
<1>2. CASE HubSteps
  <2>1. part = "hub" /\ part' = "hub" /\ HubNext
    BY <1>2, StepsAreOfTheirPart, HubStepsAreNext
  <2>2. HubAllHolds
    BY <2>1 DEF PartsIInv
  <2>3. HubAllHolds'
    BY <2>1, <2>2, HubAllNext
  <2>4. HubMove
    BY <2>1, <2>2, HubNextHolds DEF HubAllHolds
  <2> QED
    BY <2>1, <2>3, <2>4 DEF PartsIInv, PartsStep
<1>3. CASE TermSteps
  BY <1>3, StepsAreOfTheirPart, TermStepsKeep DEF PartsIInv, PartsStep
<1>4. CASE UploadSteps
  BY <1>4, StepsAreOfTheirPart, UploadStepsKeep DEF PartsIInv, PartsStep
<1>5. CASE HandoffSteps
  BY <1>5, StepsAreOfTheirPart, HandoffStepsKeep DEF PartsIInv, PartsStep
<1>6. CASE DemoSteps
  BY <1>6, StepsAreOfTheirPart, DemoStepsAreNext, DemoNextHolds DEF PartsIInv, PartsStep
<1>7. CASE CodexSteps \/ ClaudeSteps \/ PiSteps
  BY <1>7, StepsAreOfTheirPart DEF PartsIInv, PartsStep
<1> QED
  BY <1>1, <1>2, <1>3, <1>4, <1>5, <1>6, <1>7 DEF Next

\* A step that changes nothing keeps the invariant.
LEMMA PartsStutter == PartsIInv /\ UNCHANGED partsVars => PartsIInv'
<1> SUFFICES ASSUME PartsIInv, UNCHANGED partsVars PROVE PartsIInv'
  OBVIOUS
<1>1. UNCHANGED part /\ UNCHANGED updVars /\ UNCHANGED hubVars /\ UNCHANGED demoVars /\ UNCHANGED services
  BY DEF partsVars
<1>2. UNCHANGED termVars /\ UNCHANGED upVars /\ UNCHANGED handVars
  BY <1>1 DEF services
<1> QED
  BY <1>1, <1>2, UpdStutters, HubAllNext, TermStutters, UploadStutters, HandoffStutters, DemoStutters DEF PartsIInv

\* However a turn of the demo adapter ends (it came to its end, it was
\* interrupted, refused for its limit or its gateway, lost its login or was
\* closed), once the conversation is idle each call it showed has a result,
\* no request of it is open, the adapter takes the next turn, the usage and
\* the mode that were told are the adapter's, and what was steered into it
\* was answered or came after its last look (demo.go: run, play, finish).
THEOREM DemoTurnsEndWhole == DemoSpec => []DemoTurnsEnd
<1>1. DemoInit => DemoIInv
  BY DemoInitHolds
<1>2. DemoIInv /\ [DemoNext]_demoVars => DemoIInv'
  BY DemoNextHolds, DemoStutters
<1>3. DemoIInv => DemoTurnsEnd
  BY DemoIInvMeans
<1> QED
  BY <1>1, <1>2, <1>3, PTL DEF DemoSpec

\* The same of the run of the parts: what ChatsAreComplete says of the demo
\* adapter holds for every scope, any words, modes and starts (demo.go).
THEOREM DemoChatIsComplete == PartsSpec => [](part = "demo" => ChatsAreComplete)
<1>1. Init => PartsIInv
  BY PartsInit
<1>2. PartsIInv /\ [Next]_partsVars => PartsIInv'
  BY PartsNext, PartsStutter
<1>3. PartsIInv => (part = "demo" => ChatsAreComplete)
  BY DemoIInvMeans DEF PartsIInv, ChatsAreComplete
<1> QED
  BY <1>1, <1>2, <1>3, PTL DEF PartsSpec

\* Whatever the scope, a behaviour that is of the updates keeps what the run
\* checks of them: the status is that of the one run under way, an update
\* that waits missed nothing, a restart is of a checked program and keeps the
\* prompt, and the PID file but for a removal as stale that raced its owner,
\* and the command reports what happened (lib/httpapi/update.go,
\* cmd/server/server.go, cmd/server/reexec.go, cmd/update).
THEOREM UpdatesStaySafe == PartsSpec => []UpdatesAreSafe
<1>1. Init => PartsIInv
  BY PartsInit
<1>2. PartsIInv /\ [Next]_partsVars => PartsIInv'
  BY PartsNext, PartsStutter
<1>3. PartsIInv => UpdatesAreSafe
  BY UpdIInvShows DEF PartsIInv, UpdatesAreSafe
<1> QED
  BY <1>1, <1>2, <1>3, PTL DEF PartsSpec

\* Whatever the scope, the hub keeps what the run checks of it: one watch for
\* each instance, a page and a file that show what it has, work and pins
\* counted right, and no event handled twice (hub.go, store.go, watch.go,
\* webhook.go).
THEOREM HubStaysOnTrack == PartsSpec => []HubKeepsTrack
<1>1. Init => PartsIInv
  BY PartsInit
<1>2. PartsIInv /\ [Next]_partsVars => PartsIInv'
  BY PartsNext, PartsStutter
<1>3. PartsIInv => HubKeepsTrack
  BY HubAllShows, HubIInvShows DEF PartsIInv, HubKeepsTrack, HubAllHolds
<1> QED
  BY <1>1, <1>2, <1>3, PTL DEF PartsSpec

\* No step takes an agent's work or an instance away from where it runs: an
\* update restarts no working agent unasked, sends it nothing meanwhile and
\* installs nothing older unless forced or as --version of the program in
\* place failed (update.go, program.go), and the hub moves only an instance
\* that is gone where it was, never one added by hand (refuseMove).
THEOREM StepsStayCareful == PartsSpec => StepsAreCareful
<1>1. Init => PartsIInv
  BY PartsInit
<1>2. PartsIInv /\ [Next]_partsVars => PartsIInv'
  BY PartsNext, PartsStutter
<1>3. PartsIInv /\ [Next]_partsVars => [(part = "updates" => UpdateStep) /\ (part = "hub" => HubMove)]_partsVars
  BY PartsNext DEF PartsStep
<1> QED
  BY <1>1, <1>2, <1>3, PTL DEF PartsSpec, StepsAreCareful

\* Whatever the scope, a client is served what is so: the terminal shows it
\* the output without a gap, and the scrollback keeps what its comment says
\* (shellterm.go, scrollback.go); the files that messages and drafts name are
\* there, whatever a prune removes (uploads.go, upload_prune.go); and of the
\* replies to one offer one at most reaches the agent (handoff.go).
THEOREM ClientsStayServed == PartsSpec => []ClientsAreServed
<1>1. Init => PartsIInv
  BY PartsInit
<1>2. PartsIInv /\ [Next]_partsVars => PartsIInv'
  BY PartsNext, PartsStutter
<1>3. PartsIInv => ClientsAreServed
  BY TermIInvShows, UploadIInvShows, HandIInvShows DEF PartsIInv, ClientsAreServed
<1> QED
  BY <1>1, <1>2, <1>3, PTL DEF PartsSpec
=============================================================================
