--------------------------- MODULE AgentLifecycle ---------------------------
(***************************************************************************)
(* The agents of a native.Conversation (lib/native/lifecycle.go, login.go) *)
(* and the start and stop of their processes (lib/native/agentio/host.go). *)
(*                                                                         *)
(* Every adapter belongs to a generation, and every generation is launched *)
(* at most once, so the launch, the adapter and the process are indexed by *)
(* generation.  A launch is a goroutine; it takes Conversation.mu for      *)
(* single steps only, between which the agent can exit, a restart, a       *)
(* switch, a login check or the shutdown can retire it, and its own        *)
(* adapter can be closed under it.                                         *)
(***************************************************************************)
EXTENDS Integers

CONSTANTS
    MaxGen,        \* bound: the generations the model goes through
    MaxRestarts    \* len(Config.RestartDelays)

ASSUME AgentLifecycleAssumption == MaxGen \in Nat /\ MaxRestarts \in Nat

Gens == 0 .. MaxGen
None == -1

VARIABLES
    generation,     \* Conversation.generation
    adapter,        \* the generation of Conversation.adapter, or None
    started,        \* Conversation.started
    restarts,       \* Conversation.restarts
    login,          \* Conversation.login is set
    loginWaiting,   \* Conversation.loginWaiting
    relaunchWake,   \* the launch whose wait closing relaunchWake ends, or None
    launch,         \* per generation: how far its launch got
    retry,          \* per generation: a start that fails is made again
    failure,        \* per generation: what launch failed with
    woken,          \* per generation: its relaunchWake was closed
    old,            \* per generation: the adapter retired for it, yet to be closed
    closing,        \* per generation: Host.closing of its adapter
    proc,           \* per generation: the agent process
    watch,          \* per generation: signalExit waits for the exit
    restarting,     \* Server.restarting
    stopping,       \* Close was called: Server.stopping
    ctxDone         \* Conversation.ctx ended

conversation == <<generation, adapter, started, restarts, login, loginWaiting, relaunchWake>>
launches == <<launch, retry, failure, woken, old>>
hosts == <<closing, proc, watch>>
server == <<restarting, stopping, ctxDone>>
vars == <<conversation, launches, hosts, server>>

\* The stages of a launch: none, yet to be started by who retired the agent
\* before (planned), the wait of relaunchAfter (waiting), then launch's:
\* before Factory returned (factory), Adapter.Start before, during and after
\* the process starts (check, spawn, handshake), failed, and Start succeeded
\* but markStarted did not run yet (ready).
UnderWay == {"planned", "waiting", "factory", "check", "spawn", "handshake", "failed", "ready"}

\* NewConversation and Start.
Init ==
    /\ generation = 0
    /\ adapter = None
    /\ started = FALSE
    /\ restarts = 0
    /\ login = FALSE
    /\ loginWaiting = FALSE
    /\ relaunchWake = None
    /\ launch = [g \in Gens |-> IF g = 0 THEN "factory" ELSE "none"]
    /\ retry = [g \in Gens |-> TRUE]
    /\ failure = [g \in Gens |-> "none"]
    /\ woken = [g \in Gens |-> FALSE]
    /\ old = [g \in Gens |-> None]
    /\ closing = [g \in Gens |-> FALSE]
    /\ proc = [g \in Gens |-> "none"]
    /\ watch = [g \in Gens |-> FALSE]
    /\ restarting = FALSE
    /\ stopping = FALSE
    /\ ctxDone = FALSE

Current(g) == g = generation

-----------------------------------------------------------------------------
(* Host: the agent process. *)

\* Host.Close returns once the process is gone.  Without one, a Launch under
\* way finds the host closing.
CloseHost(g) ==
    /\ closing' = [closing EXCEPT ![g] = TRUE]
    /\ proc' = [proc EXCEPT ![g] = IF @ = "up" THEN "gone" ELSE @]

\* Adapter.Start fails with why; launch closes the adapter.
StartFails(g, why) ==
    /\ CloseHost(g)
    /\ launch' = [launch EXCEPT ![g] = "failed"]
    /\ failure' = [failure EXCEPT ![g] = why]
    /\ UNCHANGED watch

\* The adapter's checks before Host.Launch (the login check takes seconds),
\* and what Host.Launch does first: a closed host launches nothing.
HostLaunch(g) ==
    /\ launch[g] = "check"
    /\ \/ StartFails(g, "login")
       \/ closing[g] /\ StartFails(g, "error")
       \/ /\ ~closing[g]
          /\ launch' = [launch EXCEPT ![g] = "spawn"]
          /\ UNCHANGED <<failure, hosts>>
    /\ UNCHANGED <<conversation, retry, woken, old, server>>

\* Slip: Close isn't looked for again once the process started.
SpawnAnyway(g) ==
    /\ launch[g] = "spawn"
    /\ \/ StartFails(g, "error")
       \/ /\ launch' = [launch EXCEPT ![g] = "handshake"]
          /\ proc' = [proc EXCEPT ![g] = "up"]
          /\ UNCHANGED <<failure, closing, watch>>
    /\ UNCHANGED <<conversation, retry, woken, old, server>>

\* Host.Launch once Start returned: the process didn't start; or it did, while
\* Close ran, which found none to stop, so it is killed here; or it runs.
HostSpawned(g) ==
    /\ launch[g] = "spawn"
    /\ \/ StartFails(g, "error")
       \/ /\ ~closing[g]
          /\ launch' = [launch EXCEPT ![g] = "handshake"]
          /\ proc' = [proc EXCEPT ![g] = "up"]
          /\ UNCHANGED <<failure, closing, watch>>
    /\ UNCHANGED <<conversation, retry, woken, old, server>>

\* The rest of Adapter.Start: the agent answers, and launch starts the wait
\* for its exit; or it reports no login, fails, doesn't answer in time, or is
\* gone (StartError).
AdapterStarted(g) ==
    /\ launch[g] = "handshake"
    /\ \/ StartFails(g, "login")
       \/ StartFails(g, "error")
       \/ /\ proc[g] = "up"
          /\ launch' = [launch EXCEPT ![g] = "ready"]
          /\ watch' = [watch EXCEPT ![g] = TRUE]
          /\ UNCHANGED <<failure, closing, proc>>
    /\ UNCHANGED <<conversation, retry, woken, old, server>>

\* The agent process exits by itself.
ProcessExits(g) ==
    /\ proc[g] = "up"
    /\ proc' = [proc EXCEPT ![g] = "gone"]
    /\ UNCHANGED <<conversation, launches, closing, watch, server>>

-----------------------------------------------------------------------------
(* launch. *)

\* launch up to Adapter.Start: a launch that was retired meanwhile closes its
\* adapter and ends; Factory can fail.
SetAdapter(g) ==
    /\ launch[g] = "factory"
    /\ \/ /\ Current(g)
          /\ adapter' = g
          /\ launch' = [launch EXCEPT ![g] = "check"]
          /\ UNCHANGED <<failure, hosts>>
       \/ /\ ~Current(g)
          /\ CloseHost(g)
          /\ launch' = [launch EXCEPT ![g] = "done"]
          /\ UNCHANGED <<adapter, failure, watch>>
       \/ /\ launch' = [launch EXCEPT ![g] = "failed"]
          /\ failure' = [failure EXCEPT ![g] = "factory"]
          /\ UNCHANGED <<adapter, hosts>>
    /\ UNCHANGED <<generation, started, restarts, login, loginWaiting, relaunchWake,
                   retry, woken, old, server>>

\* Slip: the agent counts as started whether it still is the current one.
MarkStartedAnyway(g) ==
    /\ launch[g] = "ready"
    /\ launch' = [launch EXCEPT ![g] = "done"]
    /\ started' = TRUE
    /\ loginWaiting' = FALSE
    /\ login' = FALSE
    /\ UNCHANGED <<generation, adapter, restarts, relaunchWake, retry, failure, woken, old,
                   hosts, server>>

\* launch's last step: markStartedLocked, unless who retired the agent closes
\* it.
MarkStarted(g) ==
    /\ launch[g] = "ready"
    /\ launch' = [launch EXCEPT ![g] = "done"]
    /\ IF Current(g)
       THEN started' = TRUE /\ loginWaiting' = FALSE /\ login' = FALSE
       ELSE UNCHANGED <<started, loginWaiting, login>>
    /\ UNCHANGED <<generation, adapter, restarts, relaunchWake, retry, failure, woken, old,
                   hosts, server>>

\* downLocked, and the generation that follows: o is the adapter retired for
\* it, and again says whether a start of it that fails is made again.
Down(again, o) ==
    /\ generation < MaxGen
    /\ generation' = generation + 1
    /\ adapter' = None
    /\ started' = FALSE
    /\ old' = [old EXCEPT ![generation + 1] = o]
    /\ retry' = [retry EXCEPT ![generation + 1] = again]

\* The launches once that of g is over.
Over(g) == [launch EXCEPT ![g] = "done"]

\* relaunchLocked, of the next generation; the other launches become l.
Relaunch(l) ==
    /\ relaunchWake' = generation + 1
    /\ launch' = [l EXCEPT ![generation + 1] = "waiting"]

\* Slip: it never gives up.
StartAgainForever(l, n) ==
    /\ loginWaiting' = FALSE
    /\ restarts' = n + 1
    /\ Relaunch(l)
    /\ UNCHANGED login

\* startAgainLocked, where n starts were made since an agent last ran for
\* long; the other launches become l.
StartAgain(l, n) ==
    /\ loginWaiting' = FALSE
    /\ IF n < MaxRestarts
       THEN /\ restarts' = n + 1
            /\ Relaunch(l)
            /\ UNCHANGED login
       ELSE /\ restarts' = n
            /\ login' = FALSE
            /\ launch' = l
            /\ UNCHANGED relaunchWake

\* awaitLogin, of the current generation.
AwaitLogin(g) ==
    /\ Down(TRUE, None)
    /\ login' = TRUE
    /\ loginWaiting' = TRUE
    /\ Relaunch(Over(g))
    /\ UNCHANGED restarts

\* failStart of a start a caller waits for: it isn't made again.
FailAskedStart(g) ==
    /\ Down(TRUE, None)
    /\ launch' = Over(g)
    /\ UNCHANGED <<restarts, login, loginWaiting, relaunchWake>>

\* Slip: a start a caller waits for is made again.
AlwaysStartAgain(g) == Down(TRUE, None) /\ StartAgain(Over(g), restarts)

\* failStart, of the current generation.
FailStart(g) ==
    \/ retry[g] /\ Down(TRUE, None) /\ StartAgain(Over(g), restarts)
    \/ ~retry[g] /\ FailAskedStart(g)

\* launch's error: nothing if the agent was retired or AgentAPI stops, the
\* wait for a login, or failStart.
LaunchFailed(g) ==
    /\ launch[g] = "failed"
    /\ IF ~Current(g) \/ (ctxDone /\ failure[g] # "factory")
       THEN /\ launch' = Over(g)
            /\ UNCHANGED <<conversation, retry, old>>
       ELSE IF failure[g] = "login" THEN AwaitLogin(g) ELSE FailStart(g)
    /\ failure' = [failure EXCEPT ![g] = "none"]
    /\ UNCHANGED <<woken, hosts, server>>

\* Slip: a wait of a replaced generation goes on.
RelaunchOnlyCurrent(g) ==
    /\ launch[g] = "waiting" /\ Current(g)
    /\ relaunchWake' = None
    /\ launch' = [launch EXCEPT ![g] = "factory"]
    /\ UNCHANGED <<generation, adapter, started, restarts, login, loginWaiting,
                   retry, failure, woken, old, hosts, server>>

\* relaunchAfter: the timer, or the wake, ends the wait, and the launch goes on
\* if it is the current one; the end of the context ends it for good.  The
\* select takes either when both came.
RelaunchAfter(g) ==
    /\ launch[g] = "waiting"
    /\ \/ /\ Current(g)
          /\ relaunchWake' = None
          /\ launch' = [launch EXCEPT ![g] = "factory"]
       \/ /\ ~Current(g) \/ ctxDone
          /\ launch' = [launch EXCEPT ![g] = "done"]
          /\ UNCHANGED relaunchWake
    /\ woken' = [woken EXCEPT ![g] = FALSE]
    /\ UNCHANGED <<generation, adapter, started, restarts, login, loginWaiting,
                   retry, failure, old, hosts, server>>

\* signalExit, with the Close of the adapter that is gone: long says whether
\* the agent ran restartReset.
SignalExit(g, long) ==
    /\ watch[g] /\ proc[g] = "gone"
    /\ watch' = [watch EXCEPT ![g] = FALSE]
    /\ LET n == IF long THEN 0 ELSE restarts
       IN  IF ~Current(g) THEN UNCHANGED <<conversation, launch, retry, old, closing>>
           ELSE /\ closing' = [closing EXCEPT ![g] = TRUE]
                /\ Down(TRUE, None)
                /\ IF login
                   THEN /\ loginWaiting' = TRUE
                        /\ restarts' = n
                        /\ Relaunch(launch)
                        /\ UNCHANGED login
                   ELSE StartAgain(launch, n)
    /\ UNCHANGED <<failure, woken, proc, server>>

-----------------------------------------------------------------------------
(* What the agent reports of its login, of the current generation. *)

\* sink.LoginRequired.
LoginLost(g) ==
    /\ Current(g) /\ proc[g] = "up" /\ ~login
    /\ login' = TRUE
    /\ UNCHANGED <<generation, adapter, started, restarts, loginWaiting, relaunchWake,
                   launches, hosts, server>>

\* turnCompletedLocked: a turn that worked proves the login.
LoginProved(g) ==
    /\ Current(g) /\ started /\ proc[g] = "up" /\ login
    /\ login' = FALSE
    /\ UNCHANGED <<generation, adapter, started, restarts, loginWaiting, relaunchWake,
                   launches, hosts, server>>

-----------------------------------------------------------------------------
(* Retiring the agent. *)

\* Slip: the wait isn't ended.
NoWake == UNCHANGED <<woken, relaunchWake>>

\* wakeRelaunchLocked.
WakeRelaunch ==
    /\ woken' = [g \in Gens |-> woken[g] \/ g = relaunchWake]
    /\ relaunchWake' = None

\* retireAdapterLocked; the launch of the next generation is at stage, and
\* again says whether it is made again if it fails.
RetireAdapter(stage, again) ==
    /\ loginWaiting' = FALSE
    /\ WakeRelaunch
    /\ Down(again, adapter)
    /\ launch' = [launch EXCEPT ![generation + 1] = stage]
    /\ UNCHANGED <<login, failure, hosts>>

\* Slip: a restart begins although AgentAPI stops.
ReplaceAnyway ==
    /\ ~restarting
    /\ restarting' = TRUE
    /\ RetireAdapter("planned", FALSE)
    /\ restarts' = 0
    /\ UNCHANGED <<stopping, ctxDone>>

\* BeginRestart and BeginSwitch, which the server calls one at a time
\* (restartRefusedLocked).
Replace ==
    /\ ~restarting /\ ~stopping
    /\ restarting' = TRUE
    /\ RetireAdapter("planned", FALSE)
    /\ restarts' = 0
    /\ UNCHANGED <<stopping, ctxDone>>

\* RetryLogin.
RetryLogin ==
    /\ login
    /\ IF started
       THEN RetireAdapter("planned", TRUE) /\ restarts' = 0
       ELSE /\ WakeRelaunch
            /\ UNCHANGED <<generation, adapter, started, restarts, login, loginWaiting, launch,
                           retry, failure, old, hosts>>
    /\ UNCHANGED server

\* Close, by Server.Stop.
Close ==
    /\ ~stopping
    /\ stopping' = TRUE
    /\ RetireAdapter("none", TRUE)
    /\ UNCHANGED <<restarts, restarting, ctxDone>>

\* Slip: Start doesn't wait for the old agent to stop.
LaunchAtOnce(g) == TRUE

\* Whoever retired the agent closes it before it launches the next.
OldClosed(g) == old[g] = None

\* Slip: an agent is closed only for the one that follows.
CloseOldForNext(g) ==
    /\ old[g] # None /\ launch[g] = "planned"
    /\ CloseHost(old[g])
    /\ old' = [old EXCEPT ![g] = None]
    /\ UNCHANGED <<conversation, launch, retry, failure, woken, watch, server>>

\* CloseOld, and the Close of RetryLogin and Close.
CloseOld(g) ==
    /\ old[g] # None
    /\ CloseHost(old[g])
    /\ old' = [old EXCEPT ![g] = None]
    /\ UNCHANGED <<conversation, launch, retry, failure, woken, watch, server>>

\* Replacement.Start and the end of RetryLogin: launchAsync.
LaunchPlanned(g) ==
    /\ launch[g] = "planned" /\ OldClosed(g)
    /\ launch' = [launch EXCEPT ![g] = "factory"]
    /\ UNCHANGED <<conversation, retry, failure, woken, old, hosts, server>>

\* runRestartLocked returns once the new agent started, failed or, after
\* restartTimeout, while it still starts.
RestartReturns ==
    /\ restarting
    /\ \A g \in Gens : ~retry[g] => launch[g] # "planned"
    /\ restarting' = FALSE
    /\ UNCHANGED <<conversation, launches, hosts, stopping, ctxDone>>

\* AgentAPI stops.
CtxEnds ==
    /\ ~ctxDone
    /\ ctxDone' = TRUE
    /\ UNCHANGED <<conversation, launches, hosts, restarting, stopping>>

-----------------------------------------------------------------------------
LaunchStep(g) ==
    \/ SetAdapter(g) \/ HostLaunch(g) \/ HostSpawned(g) \/ AdapterStarted(g)
    \/ MarkStarted(g) \/ LaunchFailed(g) \/ RelaunchAfter(g) \/ LaunchPlanned(g)

Next ==
    \/ Replace \/ RetryLogin \/ Close \/ RestartReturns \/ CtxEnds
    \/ \E g \in Gens :
          \/ SetAdapter(g) \/ HostLaunch(g) \/ HostSpawned(g) \/ AdapterStarted(g)
          \/ MarkStarted(g) \/ LaunchFailed(g) \/ RelaunchAfter(g) \/ LaunchPlanned(g)
          \/ ProcessExits(g) \/ LoginLost(g) \/ LoginProved(g) \/ CloseOld(g)
          \/ \E long \in BOOLEAN : SignalExit(g, long)

Spec == Init /\ [][Next]_vars

\* A launch goes on: Factory returns, Start has a deadline, timers fire; who
\* retired an agent closes it; an exit is noticed.
FairSpec ==
    /\ Spec
    /\ \A g \in Gens : WF_vars(LaunchStep(g)) /\ WF_vars(CloseOld(g))
                          /\ WF_vars(\E long \in BOOLEAN : SignalExit(g, long))

-----------------------------------------------------------------------------
(* Properties. *)

\* The types of the state.
TypeOK ==
    /\ generation \in Gens
    /\ adapter \in Gens \union {None}
    /\ started \in BOOLEAN /\ login \in BOOLEAN /\ loginWaiting \in BOOLEAN
    /\ restarts \in 0 .. MaxRestarts
    /\ relaunchWake \in Gens \union {None}
    /\ launch \in [Gens -> UnderWay \union {"none", "done"}]
    /\ retry \in [Gens -> BOOLEAN] /\ woken \in [Gens -> BOOLEAN]
    /\ failure \in [Gens -> {"none", "login", "error", "factory"}]
    /\ old \in [Gens -> Gens \union {None}]
    /\ closing \in [Gens -> BOOLEAN] /\ watch \in [Gens -> BOOLEAN]
    /\ proc \in [Gens -> {"none", "up", "gone"}]
    /\ restarting \in BOOLEAN /\ stopping \in BOOLEAN /\ ctxDone \in BOOLEAN

\* No agent process is left behind (retireAdapterLocked, Host.Launch): one
\* that runs is the conversation's, or somebody is bound to close it.
NoOrphan ==
    \A g \in Gens : proc[g] = "up" => adapter = g \/ \E h \in Gens : old[h] = g

\* The conversation accepts turns only from the agent it started, and knows
\* of its exit (markStartedLocked, signalExit): the agent runs, or its exit is
\* about to be noticed.
StartedAgentIsWatched ==
    started => adapter = generation /\ launch[generation] = "done" /\ watch[generation]

\* Only the launch of the current generation goes on without a reason: a wait
\* of a generation that was replaced is woken, so that its goroutine ends
\* (relaunchWake).
ReplacedWaitIsWoken ==
    \A g \in Gens : launch[g] = "waiting" /\ ~Current(g) => woken[g]

\* RetryLogin retired an agent, which it closes before it launches the next,
\* the one of k.
LoginRetried(k) == launch[k] = "planned" /\ retry[k]

\* Agents run one at a time, as they may open the same session
\* (Replacement.Start and CloseOld, RetryLogin, signalExit): of any two, the
\* older one is about to be closed by a RetryLogin, and was retired for an
\* agent before the newer one.  That exception is the code's: RetryLogin is
\* under no restart's guard, so one that begins meanwhile finds no adapter to
\* close.
RunsAlone ==
    \A g, h \in Gens : (g < h /\ proc[g] = "up" /\ proc[h] = "up") =>
        \E k \in Gens : old[k] = g /\ k < h /\ LoginRetried(k)

\* A retired agent stops: its process is gone in the end (Replacement.Start,
\* RetryLogin, Close).
RetiredAgentStops ==
    \A g \in Gens : (proc[g] = "up" /\ ~Current(g)) ~> (proc[g] # "up")

\* Close stops every agent for good, those that a launch, a restart or a login
\* check still starts included.
CloseStopsForGood == stopping ~> [](\A g \in Gens : proc[g] # "up")

\* A launch ends (launch, relaunchAfter): the agent accepts turns, another
\* generation took over, or the conversation gave up.  What the last
\* generation of the model does next is out of its bound.
LaunchEnds ==
    \A g \in Gens \ {MaxGen} : (launch[g] \in UnderWay) ~> (launch[g] = "done")

\* While a login is asked for, something checks it (docs of POST
\* /login/retry): the agent runs, or a start is under way or will be made.
LoginIsChecked ==
    login /\ ~stopping /\ ~ctxDone => started \/ launch[generation] \in UnderWay

\* What the conversation promises of its agent, read off the current
\* generation.
agentState ==
    IF stopping \/ ctxDone THEN "stopped"
    ELSE IF started THEN "up"
    ELSE IF launch[generation] = "waiting" THEN (IF loginWaiting THEN "login" ELSE "waiting")
    ELSE IF launch[generation] \in UnderWay THEN "starting"
    ELSE "down"

Service == INSTANCE AgentService
           WITH agent <- agentState,
                attempts <- IF agentState = "stopped" THEN 0 ELSE restarts,
                asked <- agentState = "starting" /\ ~retry[generation]
                           /\ launch[generation] # "ready"

\* The launches, exits and replacements of the generations implement
\* AgentService.
ImplementsService == Service!Spec
=============================================================================
