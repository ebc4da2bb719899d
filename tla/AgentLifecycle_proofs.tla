----------------------- MODULE AgentLifecycle_proofs -----------------------
(***************************************************************************)
(* Proofs that, for every number of generations and every length of        *)
(* Config.RestartDelays, no agent process is left behind, the conversation *)
(* only counts an agent as started that it watches, a wait of a replaced   *)
(* generation is woken, agents run one at a time unless RetryLogin still   *)
(* closes one, and the conversation implements AgentService.               *)
(*                                                                         *)
(* The invariant says, for every stage of a launch, what the process, the  *)
(* adapter, the watch and the conversation are by then.                    *)
(***************************************************************************)
EXTENDS AgentLifecycle, TLAPS

\* The stages in which Adapter.Start, or what follows it, has the adapter.
InStart == {"check", "spawn", "handshake", "ready"}

\* Nothing happened yet to the generations to come.
FutureIsBlank ==
    \A g \in Gens : g > generation =>
        launch[g] = "none" /\ proc[g] = "none" /\ old[g] = None

\* The process runs only after Host.Launch, and its exit is waited for only
\* after Start.
ProcessByStage ==
    \A g \in Gens : /\ proc[g] = "up" => launch[g] \in {"handshake", "ready", "done"}
                    /\ watch[g] => launch[g] \in {"ready", "done"}

\* An adapter that starts is the conversation's, is bound to be closed, or is
\* closed: what keeps Host.Launch from leaving a process nobody closes.
StartIsOwned ==
    \A g \in Gens : launch[g] \in InStart =>
        closing[g] \/ adapter = g \/ \E h \in Gens : old[h] = g

\* The adapter is the current generation's, and there while it starts.
AdapterIsCurrent ==
    /\ adapter \in {None, generation}
    /\ launch[generation] \in InStart => adapter = generation

\* The current agent is watched from the moment Start succeeded, and counts as
\* started once its launch is done.
WatchByStage ==
    /\ launch[generation] = "ready" => watch[generation]
    /\ watch[generation] /\ launch[generation] = "done" => started

\* The wait of the current generation can be woken, or was.
WaitCanBeWoken ==
    launch[generation] = "waiting" => relaunchWake = generation \/ woken[generation]

\* A wait is for a start that is made again.
WaitIsRetried == launch[generation] = "waiting" => retry[generation]

\* A launch begins once the agent before it was closed.
OldClosedByStage ==
    \A g \in Gens : old[g] # None => launch[g] \in {"none", "planned"}

\* What holds of the stages of the launches.
StageInv ==
    /\ FutureIsBlank
    /\ ProcessByStage
    /\ StartIsOwned
    /\ AdapterIsCurrent
    /\ WatchByStage
    /\ WaitCanBeWoken
    /\ WaitIsRetried
    /\ OldClosedByStage
    /\ NoOrphan
    /\ StartedAgentIsWatched
    /\ ReplacedWaitIsWoken

\* The inductive invariant.
IInv == TypeOK /\ StageInv

-----------------------------------------------------------------------------
(* The types. *)

\* The facts about the generations the proofs need.
LEMMA GensFacts ==
    /\ 0 \in Gens /\ None \notin Gens
    /\ \A g \in Gens : g < MaxGen => g + 1 \in Gens /\ g + 1 > g
    /\ Gens \subseteq Int
BY AgentLifecycleAssumption DEF Gens, None

\* Host.Close keeps the types of the host.
LEMMA CloseHostType ==
    ASSUME TypeOK, NEW g \in Gens, CloseHost(g)
    PROVE  closing' \in [Gens -> BOOLEAN] /\ proc' \in [Gens -> {"none", "up", "gone"}]
<1>1. closing' \in [Gens -> BOOLEAN]
  BY DEF TypeOK, CloseHost
<1>2. proc' \in [Gens -> {"none", "up", "gone"}]
  BY DEF TypeOK, CloseHost
<1> QED
  BY <1>1, <1>2

\* A start that fails keeps the types of the launch.
LEMMA StartFailsType ==
    ASSUME TypeOK, NEW g \in Gens, NEW why \in {"login", "error", "factory"},
           StartFails(g, why)
    PROVE  /\ closing' \in [Gens -> BOOLEAN] /\ proc' \in [Gens -> {"none", "up", "gone"}]
           /\ launch' \in [Gens -> UnderWay \union {"none", "done"}]
           /\ failure' \in [Gens -> {"none", "login", "error", "factory"}]
           /\ watch' \in [Gens -> BOOLEAN]
<1>1. closing' \in [Gens -> BOOLEAN] /\ proc' \in [Gens -> {"none", "up", "gone"}]
  BY CloseHostType DEF StartFails
<1>2. launch' \in [Gens -> UnderWay \union {"none", "done"}]
  BY DEF TypeOK, StartFails, UnderWay
<1>3. failure' \in [Gens -> {"none", "login", "error", "factory"}]
  BY DEF TypeOK, StartFails
<1>4. watch' \in [Gens -> BOOLEAN]
  BY DEF TypeOK, StartFails
<1> QED
  BY <1>1, <1>2, <1>3, <1>4

\* Retiring the current generation keeps the types of what it sets.
LEMMA DownType ==
    ASSUME TypeOK, NEW again \in BOOLEAN, NEW o \in Gens \union {None}, Down(again, o)
    PROVE  /\ generation' \in Gens /\ generation + 1 \in Gens
           /\ adapter' \in Gens \union {None} /\ started' \in BOOLEAN
           /\ old' \in [Gens -> Gens \union {None}] /\ retry' \in [Gens -> BOOLEAN]
<1>1. generation + 1 \in Gens /\ generation' = generation + 1
  BY GensFacts DEF TypeOK, Down
<1>2. old' \in [Gens -> Gens \union {None}]
  BY <1>1 DEF TypeOK, Down
<1>3. retry' \in [Gens -> BOOLEAN]
  BY <1>1 DEF TypeOK, Down
<1> QED
  BY <1>1, <1>2, <1>3 DEF Down

\* startAgainLocked keeps the types, and the count within the attempts.
LEMMA StartAgainType ==
    ASSUME TypeOK, generation + 1 \in Gens, NEW n \in 0 .. MaxRestarts,
           NEW l \in [Gens -> UnderWay \union {"none", "done"}],
           StartAgain(l, n)
    PROVE  /\ restarts' \in 0 .. MaxRestarts /\ login' \in BOOLEAN
           /\ loginWaiting' \in BOOLEAN /\ relaunchWake' \in Gens \union {None}
           /\ launch' \in [Gens -> UnderWay \union {"none", "done"}]
<1>1. restarts' \in 0 .. MaxRestarts
  BY AgentLifecycleAssumption DEF StartAgain
<1>2. login' \in BOOLEAN /\ loginWaiting' \in BOOLEAN
  BY DEF TypeOK, StartAgain
<1>3. relaunchWake' \in Gens \union {None}
  BY DEF TypeOK, StartAgain, Relaunch
<1>4. launch' \in [Gens -> UnderWay \union {"none", "done"}]
  BY DEF StartAgain, Relaunch, UnderWay
<1> QED
  BY <1>1, <1>2, <1>3, <1>4

\* Retiring the agent for a launch at a stage keeps the types.
LEMMA RetireType ==
    ASSUME TypeOK, NEW stage \in {"planned", "none"}, NEW again \in BOOLEAN,
           RetireAdapter(stage, again), restarts' \in 0 .. MaxRestarts,
           restarting' \in BOOLEAN, stopping' \in BOOLEAN, ctxDone' \in BOOLEAN
    PROVE  TypeOK'
<1>1. /\ generation' \in Gens /\ generation + 1 \in Gens
      /\ adapter' \in Gens \union {None} /\ started' \in BOOLEAN
      /\ old' \in [Gens -> Gens \union {None}] /\ retry' \in [Gens -> BOOLEAN]
  BY DownType DEF RetireAdapter, TypeOK
<1>2. woken' \in [Gens -> BOOLEAN] /\ relaunchWake' \in Gens \union {None}
  BY DEF RetireAdapter, WakeRelaunch, TypeOK
<1>3. launch' \in [Gens -> UnderWay \union {"none", "done"}]
  BY <1>1 DEF RetireAdapter, TypeOK, UnderWay
<1>4. loginWaiting' \in BOOLEAN /\ UNCHANGED <<login, failure, closing, proc, watch>>
  BY DEF RetireAdapter, hosts
<1> QED
  BY <1>1, <1>2, <1>3, <1>4 DEF TypeOK

\* Every step keeps the types.
LEMMA TypeStep == TypeOK /\ [Next]_vars => TypeOK'
<1> SUFFICES ASSUME TypeOK, [Next]_vars PROVE TypeOK'
  OBVIOUS
<1> USE DEF conversation, launches, hosts, server
<1>1. ASSUME NEW g \in Gens, SetAdapter(g) PROVE TypeOK'
  <2>1. closing' \in [Gens -> BOOLEAN] /\ proc' \in [Gens -> {"none", "up", "gone"}]
    BY <1>1, CloseHostType DEF SetAdapter, TypeOK
  <2>2. launch' \in [Gens -> UnderWay \union {"none", "done"}]
    BY <1>1 DEF SetAdapter, TypeOK, UnderWay
  <2>3. failure' \in [Gens -> {"none", "login", "error", "factory"}]
    BY <1>1 DEF SetAdapter, TypeOK
  <2>4. adapter' \in Gens \union {None}
    BY <1>1 DEF SetAdapter, TypeOK
  <2>5. UNCHANGED <<watch, generation, started, restarts, login, loginWaiting,
                    relaunchWake, retry, woken, old, server>>
    BY <1>1 DEF SetAdapter
  <2> QED
    BY <2>1, <2>2, <2>3, <2>4, <2>5 DEF TypeOK
<1>2. ASSUME NEW g \in Gens, HostLaunch(g) PROVE TypeOK'
  <2>1. CASE StartFails(g, "login") \/ StartFails(g, "error")
    BY <1>2, <2>1, StartFailsType DEF HostLaunch, TypeOK
  <2>2. CASE launch' = [launch EXCEPT ![g] = "spawn"] /\ UNCHANGED <<failure, hosts>>
    BY <1>2, <2>2 DEF HostLaunch, TypeOK, UnderWay
  <2> QED
    BY <1>2, <2>1, <2>2 DEF HostLaunch
<1>3. ASSUME NEW g \in Gens, HostSpawned(g) PROVE TypeOK'
  <2>1. CASE StartFails(g, "error")
    BY <1>3, <2>1, StartFailsType DEF HostSpawned, TypeOK
  <2>2. CASE /\ launch' = [launch EXCEPT ![g] = "handshake"]
             /\ proc' = [proc EXCEPT ![g] = "up"]
             /\ UNCHANGED <<failure, closing, watch>>
    BY <1>3, <2>2 DEF HostSpawned, TypeOK, UnderWay
  <2> QED
    BY <1>3, <2>1, <2>2 DEF HostSpawned
<1>4. ASSUME NEW g \in Gens, AdapterStarted(g) PROVE TypeOK'
  <2>1. CASE StartFails(g, "login") \/ StartFails(g, "error")
    BY <1>4, <2>1, StartFailsType DEF AdapterStarted, TypeOK
  <2>2. CASE /\ launch' = [launch EXCEPT ![g] = "ready"]
             /\ watch' = [watch EXCEPT ![g] = TRUE]
             /\ UNCHANGED <<failure, closing, proc>>
    BY <1>4, <2>2 DEF AdapterStarted, TypeOK, UnderWay
  <2> QED
    BY <1>4, <2>1, <2>2 DEF AdapterStarted
<1>5. ASSUME NEW g \in Gens, MarkStarted(g) PROVE TypeOK'
  BY <1>5 DEF MarkStarted, TypeOK
<1>6. ASSUME NEW g \in Gens, LaunchFailed(g) PROVE TypeOK'
  <2>1. /\ failure' \in [Gens -> {"none", "login", "error", "factory"}]
        /\ UNCHANGED <<woken, hosts, server>>
    BY <1>6 DEF LaunchFailed, TypeOK
  <2>2. Over(g) \in [Gens -> UnderWay \union {"none", "done"}]
    BY DEF Over, TypeOK
  <2>3. CASE launch' = Over(g) /\ UNCHANGED <<conversation, retry, old>>
    BY <2>1, <2>2, <2>3 DEF TypeOK
  <2>4. CASE AwaitLogin(g)
    <3>1. /\ generation' \in Gens /\ generation + 1 \in Gens
          /\ adapter' \in Gens \union {None} /\ started' \in BOOLEAN
          /\ old' \in [Gens -> Gens \union {None}] /\ retry' \in [Gens -> BOOLEAN]
      BY <2>4, DownType DEF AwaitLogin
    <3>2. launch' \in [Gens -> UnderWay \union {"none", "done"}]
      BY <2>2, <2>4, <3>1 DEF AwaitLogin, Relaunch, UnderWay
    <3> QED
      BY <2>1, <2>4, <3>1, <3>2 DEF AwaitLogin, Relaunch, TypeOK
  <2>5. CASE Down(TRUE, None) /\ StartAgain(Over(g), restarts)
    <3>1. /\ generation' \in Gens /\ generation + 1 \in Gens
          /\ adapter' \in Gens \union {None} /\ started' \in BOOLEAN
          /\ old' \in [Gens -> Gens \union {None}] /\ retry' \in [Gens -> BOOLEAN]
      BY <2>5, DownType
    <3>2. /\ restarts' \in 0 .. MaxRestarts /\ login' \in BOOLEAN
          /\ loginWaiting' \in BOOLEAN /\ relaunchWake' \in Gens \union {None}
          /\ launch' \in [Gens -> UnderWay \union {"none", "done"}]
      BY <2>2, <2>5, <3>1, StartAgainType DEF TypeOK
    <3> QED
      BY <2>1, <3>1, <3>2 DEF TypeOK
  <2>6. CASE FailAskedStart(g)
    <3>1. /\ generation' \in Gens
          /\ adapter' \in Gens \union {None} /\ started' \in BOOLEAN
          /\ old' \in [Gens -> Gens \union {None}] /\ retry' \in [Gens -> BOOLEAN]
      BY <2>6, DownType DEF FailAskedStart
    <3> QED
      BY <2>1, <2>2, <2>6, <3>1 DEF FailAskedStart, TypeOK
  <2> QED
    BY <1>6, <2>3, <2>4, <2>5, <2>6 DEF LaunchFailed, FailStart
<1>7. ASSUME NEW g \in Gens, RelaunchAfter(g) PROVE TypeOK'
  BY <1>7 DEF RelaunchAfter, TypeOK, UnderWay
<1>8. ASSUME NEW g \in Gens, LaunchPlanned(g) PROVE TypeOK'
  BY <1>8 DEF LaunchPlanned, TypeOK, UnderWay
<1>9. ASSUME NEW g \in Gens, ProcessExits(g) PROVE TypeOK'
  BY <1>9 DEF ProcessExits, TypeOK
<1>10. ASSUME NEW g \in Gens, LoginLost(g) \/ LoginProved(g) PROVE TypeOK'
  BY <1>10 DEF LoginLost, LoginProved, TypeOK
<1>11. ASSUME NEW g \in Gens, CloseOld(g) PROVE TypeOK'
  <2>1. old[g] \in Gens
    BY <1>11 DEF CloseOld, TypeOK
  <2>2. closing' \in [Gens -> BOOLEAN] /\ proc' \in [Gens -> {"none", "up", "gone"}]
    BY <1>11, <2>1, CloseHostType DEF CloseOld
  <2>3. old' \in [Gens -> Gens \union {None}]
    BY <1>11 DEF CloseOld, TypeOK
  <2> QED
    BY <1>11, <2>2, <2>3 DEF CloseOld, TypeOK
<1>12. ASSUME NEW g \in Gens, NEW long \in BOOLEAN, SignalExit(g, long) PROVE TypeOK'
  <2> DEFINE n == IF long THEN 0 ELSE restarts
  <2>1. n \in 0 .. MaxRestarts
    BY AgentLifecycleAssumption DEF TypeOK
  <2>2. watch' \in [Gens -> BOOLEAN] /\ UNCHANGED <<failure, woken, proc, server>>
    BY <1>12 DEF SignalExit, TypeOK
  <2>3. CASE UNCHANGED <<conversation, launch, retry, old, closing>>
    BY <2>2, <2>3 DEF TypeOK
  <2>4. CASE /\ closing' = [closing EXCEPT ![g] = TRUE] /\ Down(TRUE, None)
             /\ \/ /\ loginWaiting' = TRUE /\ restarts' = n
                   /\ Relaunch(launch) /\ UNCHANGED login
                \/ StartAgain(launch, n)
    <3>1. /\ generation' \in Gens /\ generation + 1 \in Gens
          /\ adapter' \in Gens \union {None} /\ started' \in BOOLEAN
          /\ old' \in [Gens -> Gens \union {None}] /\ retry' \in [Gens -> BOOLEAN]
      BY <2>4, DownType
    <3>2. closing' \in [Gens -> BOOLEAN]
      BY <2>4 DEF TypeOK
    <3>3. /\ restarts' \in 0 .. MaxRestarts /\ login' \in BOOLEAN
          /\ loginWaiting' \in BOOLEAN /\ relaunchWake' \in Gens \union {None}
          /\ launch' \in [Gens -> UnderWay \union {"none", "done"}]
      <4> HIDE DEF n
      <4>1. CASE StartAgain(launch, n)
        BY <2>1, <3>1, <4>1, StartAgainType DEF TypeOK
      <4>2. CASE loginWaiting' = TRUE /\ restarts' = n /\ Relaunch(launch) /\ UNCHANGED login
        BY <2>1, <3>1, <4>2 DEF Relaunch, TypeOK, UnderWay
      <4> QED
        BY <2>4, <4>1, <4>2
    <3> QED
      BY <2>2, <3>1, <3>2, <3>3 DEF TypeOK
  <2> QED
    BY <1>12, <2>3, <2>4 DEF SignalExit
<1>13. ASSUME Replace PROVE TypeOK'
  <2>1. /\ restarts' \in 0 .. MaxRestarts
        /\ restarting' \in BOOLEAN /\ stopping' \in BOOLEAN /\ ctxDone' \in BOOLEAN
    BY <1>13, AgentLifecycleAssumption DEF Replace, TypeOK
  <2> QED
    BY <1>13, <2>1, RetireType DEF Replace
<1>14. ASSUME RetryLogin PROVE TypeOK'
  <2>1. CASE RetireAdapter("planned", TRUE) /\ restarts' = 0
    <3>1. /\ restarts' \in 0 .. MaxRestarts
          /\ restarting' \in BOOLEAN /\ stopping' \in BOOLEAN /\ ctxDone' \in BOOLEAN
      BY <1>14, <2>1, AgentLifecycleAssumption DEF RetryLogin, TypeOK
    <3> QED
      BY <2>1, <3>1, RetireType
  <2>2. CASE /\ WakeRelaunch
             /\ UNCHANGED <<generation, adapter, started, restarts, login, loginWaiting,
                            launch, retry, failure, old, hosts>>
    BY <1>14, <2>2 DEF RetryLogin, WakeRelaunch, TypeOK
  <2> QED
    BY <1>14, <2>1, <2>2 DEF RetryLogin
<1>15. ASSUME Close PROVE TypeOK'
  BY <1>15, RetireType DEF Close, TypeOK
<1>16. CASE RestartReturns \/ CtxEnds \/ UNCHANGED vars
  BY <1>16 DEF RestartReturns, CtxEnds, vars, TypeOK
<1> QED
  BY <1>1, <1>2, <1>3, <1>4, <1>5, <1>6, <1>7, <1>8, <1>9, <1>10, <1>11, <1>12, <1>13,
     <1>14, <1>15, <1>16 DEF Next

-----------------------------------------------------------------------------
(* The stages of the launches. *)

\* Retiring the agent keeps what holds of the stages: the adapter is handed to
\* who closes it, and the wait it may end is woken.
LEMMA RetireStage ==
    ASSUME IInv, NEW stage \in {"planned", "none"}, NEW again \in BOOLEAN,
           RetireAdapter(stage, again)
    PROVE  StageInv'
<1>1. FutureIsBlank'
  BY DEF IInv, StageInv, TypeOK, FutureIsBlank, RetireAdapter, Down, hosts, Gens
<1>2. ProcessByStage'
  BY DEF IInv, StageInv, TypeOK, ProcessByStage, FutureIsBlank, RetireAdapter, hosts, Gens
<1>3. StartIsOwned'
  BY AgentLifecycleAssumption
  DEF IInv, StageInv, TypeOK, StartIsOwned, FutureIsBlank, RetireAdapter, Down, hosts, Gens,
      InStart
<1>4. AdapterIsCurrent'
  BY AgentLifecycleAssumption
  DEF IInv, StageInv, TypeOK, AdapterIsCurrent, RetireAdapter, Down, Gens, InStart
<1>5. WatchByStage'
  BY AgentLifecycleAssumption
  DEF IInv, StageInv, TypeOK, WatchByStage, RetireAdapter, Down, Gens
<1>6. WaitCanBeWoken'
  BY AgentLifecycleAssumption
  DEF IInv, StageInv, TypeOK, WaitCanBeWoken, RetireAdapter, Down, Gens
<1>7. WaitIsRetried'
  BY AgentLifecycleAssumption
  DEF IInv, StageInv, TypeOK, WaitIsRetried, RetireAdapter, Down, Gens
<1>8. OldClosedByStage'
  BY DEF IInv, StageInv, TypeOK, OldClosedByStage, RetireAdapter, Down
<1>9. NoOrphan'
  BY AgentLifecycleAssumption
  DEF IInv, StageInv, TypeOK, NoOrphan, FutureIsBlank, RetireAdapter, Down, hosts, Gens
<1>10. StartedAgentIsWatched'
  BY DEF IInv, StageInv, TypeOK, StartedAgentIsWatched, RetireAdapter, Down
<1>11. ReplacedWaitIsWoken'
  <2> SUFFICES ASSUME NEW g \in Gens, launch'[g] = "waiting" PROVE woken'[g]
    BY DEF ReplacedWaitIsWoken
  <2>1. launch[g] = "waiting"
    BY DEF RetireAdapter, IInv, TypeOK
  <2>2. woken[g] \/ g = relaunchWake
    BY <2>1 DEF IInv, StageInv, WaitCanBeWoken, ReplacedWaitIsWoken, Current
  <2> QED
    BY <2>2 DEF RetireAdapter, WakeRelaunch
<1> QED
  BY <1>1, <1>2, <1>3, <1>4, <1>5, <1>6, <1>7, <1>8, <1>9, <1>10, <1>11 DEF StageInv

\* An agent whose start failed, or whose process is gone, is followed by the
\* next generation, or by none.
LEMMA FollowStage ==
    ASSUME IInv, NEW g \in Gens, g = generation, proc[g] # "up", Down(TRUE, None),
           NEW l \in [Gens -> UnderWay \union {"none", "done"}],
           \/ launch[g] = "failed" /\ l = Over(g)
           \/ launch[g] \in {"ready", "done"} /\ l = launch /\ closing'[g],
           Relaunch(l) \/ launch' = l,
           \A h \in Gens : (closing[h] => closing'[h]) /\ (watch'[h] => watch[h]),
           UNCHANGED <<proc, woken>>
    PROVE  StageInv'
<1>1. FutureIsBlank'
  BY AgentLifecycleAssumption
  DEF IInv, StageInv, TypeOK, FutureIsBlank, Down, Over, Relaunch, Gens
<1>2. ProcessByStage'
  <2> SUFFICES ASSUME NEW h \in Gens
               PROVE  /\ proc'[h] = "up" => launch'[h] \in {"handshake", "ready", "done"}
                      /\ watch'[h] => launch'[h] \in {"ready", "done"}
    BY DEF ProcessByStage
  <2>1. generation + 1 \in Gens /\ launch[generation + 1] = "none"
    BY GensFacts DEF IInv, StageInv, FutureIsBlank, Down
  <2>2. CASE h = generation + 1
    BY <2>1, <2>2 DEF IInv, StageInv, ProcessByStage
  <2>3. CASE h # generation + 1
    <3>1. launch'[h] = l[h]
      BY <2>3 DEF Relaunch
    <3>2. l[h] = launch[h] \/ (h = g /\ l[h] = "done")
      BY DEF Over, IInv, TypeOK
    <3> QED
      BY <3>1, <3>2 DEF IInv, StageInv, ProcessByStage
  <2> QED
    BY <2>2, <2>3
<1>3. StartIsOwned'
  BY AgentLifecycleAssumption
  DEF IInv, StageInv, TypeOK, StartIsOwned, AdapterIsCurrent, FutureIsBlank, Down, Over,
      Relaunch, Gens, InStart
<1>4. AdapterIsCurrent'
  BY AgentLifecycleAssumption
  DEF IInv, StageInv, TypeOK, AdapterIsCurrent, FutureIsBlank, Down, Over, Relaunch, Gens,
      InStart
<1>5. WatchByStage'
  BY AgentLifecycleAssumption
  DEF IInv, StageInv, TypeOK, WatchByStage, FutureIsBlank, Down, Over, Relaunch, Gens
<1>6. WaitCanBeWoken'
  BY AgentLifecycleAssumption
  DEF IInv, StageInv, TypeOK, WaitCanBeWoken, FutureIsBlank, Down, Over, Relaunch, Gens
<1>7. WaitIsRetried'
  BY AgentLifecycleAssumption DEF IInv, StageInv, TypeOK, WaitIsRetried, Down, Gens
<1>8. OldClosedByStage'
  BY AgentLifecycleAssumption
  DEF IInv, StageInv, TypeOK, OldClosedByStage, Down, Over, Relaunch, Gens
<1>9. NoOrphan'
  BY DEF IInv, StageInv, NoOrphan, AdapterIsCurrent, FutureIsBlank, Down, Gens
<1>10. StartedAgentIsWatched'
  BY DEF StageInv, StartedAgentIsWatched, Down
<1>11. ReplacedWaitIsWoken'
  BY AgentLifecycleAssumption
  DEF IInv, StageInv, TypeOK, ReplacedWaitIsWoken, Down, Over, Relaunch, Gens, Current
<1> QED
  BY <1>1, <1>2, <1>3, <1>4, <1>5, <1>6, <1>7, <1>8, <1>9, <1>10, <1>11 DEF StageInv

\* Every step keeps what holds of the stages.
LEMMA StageStep == IInv /\ [Next]_vars => StageInv'
<1> SUFFICES ASSUME IInv, [Next]_vars PROVE StageInv'
  OBVIOUS
<1>1. ASSUME NEW g \in Gens, SetAdapter(g) PROVE StageInv'
  <2>1. FutureIsBlank'
    BY <1>1 DEF IInv, StageInv, TypeOK, FutureIsBlank, SetAdapter, CloseHost, hosts
  <2>2. ProcessByStage'
    BY <1>1 DEF IInv, StageInv, TypeOK, ProcessByStage, SetAdapter, CloseHost, hosts
  <2>3. StartIsOwned'
    BY <1>1
    DEF IInv, StageInv, TypeOK, StartIsOwned, AdapterIsCurrent, OldClosedByStage, SetAdapter,
        CloseHost, Current, hosts, None, InStart
  <2>4. AdapterIsCurrent'
    BY <1>1 DEF IInv, StageInv, TypeOK, AdapterIsCurrent, SetAdapter, Current, InStart
  <2>5. OldClosedByStage'
    BY <1>1 DEF IInv, StageInv, TypeOK, OldClosedByStage, SetAdapter
  <2>6. NoOrphan'
    BY <1>1, AgentLifecycleAssumption
    DEF IInv, StageInv, TypeOK, NoOrphan, AdapterIsCurrent, SetAdapter, CloseHost, Current,
        hosts, Gens, None
  <2>7. StartedAgentIsWatched'
    BY <1>1 DEF IInv, StageInv, TypeOK, StartedAgentIsWatched, SetAdapter, Current, hosts
  <2>8. /\ WatchByStage' /\ WaitCanBeWoken' /\ WaitIsRetried'
        /\ ReplacedWaitIsWoken'
    BY <1>1
    DEF IInv, StageInv, TypeOK, WatchByStage, WaitCanBeWoken, WaitIsRetried,
        ReplacedWaitIsWoken, SetAdapter, Current, hosts
  <2> QED
    BY <2>1, <2>2, <2>3, <2>4, <2>5, <2>6, <2>7, <2>8 DEF StageInv
<1>2. ASSUME NEW g \in Gens, HostLaunch(g) PROVE StageInv'
  <2>1. FutureIsBlank'
    BY <1>2
    DEF IInv, StageInv, TypeOK, FutureIsBlank, HostLaunch, StartFails, CloseHost, conversation,
        hosts
  <2>2. ProcessByStage'
    BY <1>2
    DEF IInv, StageInv, TypeOK, ProcessByStage, HostLaunch, StartFails, CloseHost, hosts
  <2>3. StartIsOwned'
    BY <1>2
    DEF IInv, StageInv, TypeOK, StartIsOwned, HostLaunch, StartFails, CloseHost, conversation,
        hosts, InStart
  <2>4. AdapterIsCurrent'
    BY <1>2
    DEF IInv, StageInv, TypeOK, AdapterIsCurrent, HostLaunch, StartFails, conversation, InStart
  <2>5. NoOrphan'
    BY <1>2
    DEF IInv, StageInv, TypeOK, NoOrphan, HostLaunch, StartFails, CloseHost, conversation,
        hosts
  <2>6. /\ WatchByStage' /\ WaitCanBeWoken' /\ WaitIsRetried'
        /\ OldClosedByStage' /\ StartedAgentIsWatched' /\ ReplacedWaitIsWoken'
    BY <1>2
    DEF IInv, StageInv, TypeOK, WatchByStage, WaitCanBeWoken, WaitIsRetried, OldClosedByStage,
        StartedAgentIsWatched, ReplacedWaitIsWoken, HostLaunch, StartFails, conversation,
        hosts, Current, None
  <2> QED
    BY <2>1, <2>2, <2>3, <2>4, <2>5, <2>6 DEF StageInv
<1>3. ASSUME NEW g \in Gens, HostSpawned(g) PROVE StageInv'
  <2>1. ProcessByStage'
    <3>1. CASE StartFails(g, "error")
      BY <1>3, <3>1
      DEF IInv, StageInv, TypeOK, ProcessByStage, HostSpawned, StartFails, CloseHost
    <3>2. CASE /\ launch' = [launch EXCEPT ![g] = "handshake"]
               /\ proc' = [proc EXCEPT ![g] = "up"]
               /\ UNCHANGED <<failure, closing, watch>>
      BY <1>3, <3>2 DEF IInv, StageInv, TypeOK, ProcessByStage, HostSpawned
    <3> QED
      BY <1>3, <3>1, <3>2 DEF HostSpawned
  <2>2. StartIsOwned'
    BY <1>3
    DEF IInv, StageInv, TypeOK, StartIsOwned, HostSpawned, StartFails, CloseHost, conversation,
        InStart
  <2>3. NoOrphan'
    BY <1>3
    DEF IInv, StageInv, TypeOK, NoOrphan, StartIsOwned, HostSpawned, StartFails, CloseHost,
        conversation, InStart
  <2>4. /\ FutureIsBlank' /\ AdapterIsCurrent' /\ WatchByStage'
        /\ WaitCanBeWoken' /\ WaitIsRetried' /\ OldClosedByStage'
        /\ StartedAgentIsWatched' /\ ReplacedWaitIsWoken'
    BY <1>3
    DEF IInv, StageInv, TypeOK, FutureIsBlank, AdapterIsCurrent, WatchByStage, WaitCanBeWoken,
        WaitIsRetried, OldClosedByStage, StartedAgentIsWatched, ReplacedWaitIsWoken,
        HostSpawned, StartFails, CloseHost, conversation, Current, InStart
  <2> QED
    BY <2>1, <2>2, <2>3, <2>4 DEF StageInv
<1>4. ASSUME NEW g \in Gens, AdapterStarted(g) PROVE StageInv'
  <2>1. FutureIsBlank'
    BY <1>4
    DEF IInv, StageInv, TypeOK, FutureIsBlank, AdapterStarted, StartFails, CloseHost,
        conversation
  <2>2. ProcessByStage'
    <3>1. CASE StartFails(g, "login") \/ StartFails(g, "error")
      BY <1>4, <3>1
      DEF IInv, StageInv, TypeOK, ProcessByStage, AdapterStarted, StartFails, CloseHost
    <3>2. CASE /\ launch' = [launch EXCEPT ![g] = "ready"]
               /\ watch' = [watch EXCEPT ![g] = TRUE]
               /\ UNCHANGED <<failure, closing, proc>>
      BY <1>4, <3>2 DEF IInv, StageInv, TypeOK, ProcessByStage
    <3> QED
      BY <1>4, <3>1, <3>2 DEF AdapterStarted
  <2>3. StartIsOwned'
    BY <1>4
    DEF IInv, StageInv, TypeOK, StartIsOwned, AdapterStarted, StartFails, CloseHost,
        conversation, InStart
  <2>4. AdapterIsCurrent'
    BY <1>4
    DEF IInv, StageInv, TypeOK, AdapterIsCurrent, AdapterStarted, StartFails, conversation,
        InStart
  <2>5. WatchByStage'
    BY <1>4 DEF IInv, StageInv, TypeOK, WatchByStage, AdapterStarted, StartFails, conversation
  <2>6. NoOrphan'
    BY <1>4
    DEF IInv, StageInv, TypeOK, NoOrphan, AdapterStarted, StartFails, CloseHost, conversation
  <2>7. /\ WaitCanBeWoken' /\ WaitIsRetried' /\ OldClosedByStage'
        /\ StartedAgentIsWatched' /\ ReplacedWaitIsWoken'
    BY <1>4
    DEF IInv, StageInv, TypeOK, WaitCanBeWoken, WaitIsRetried, OldClosedByStage,
        StartedAgentIsWatched, ReplacedWaitIsWoken, AdapterStarted, StartFails, conversation,
        Current
  <2> QED
    BY <2>1, <2>2, <2>3, <2>4, <2>5, <2>6, <2>7 DEF StageInv
<1>5. ASSUME NEW g \in Gens, MarkStarted(g) PROVE StageInv'
  <2>1. ProcessByStage'
    BY <1>5 DEF IInv, StageInv, TypeOK, ProcessByStage, MarkStarted, hosts
  <2>2. WatchByStage'
    BY <1>5 DEF IInv, StageInv, TypeOK, WatchByStage, MarkStarted, Current, hosts
  <2>3. StartedAgentIsWatched'
    BY <1>5
    DEF IInv, StageInv, TypeOK, StartedAgentIsWatched, WatchByStage, AdapterIsCurrent,
        MarkStarted, Current, hosts, InStart
  <2>4. /\ FutureIsBlank' /\ StartIsOwned' /\ AdapterIsCurrent'
        /\ WaitCanBeWoken' /\ WaitIsRetried' /\ OldClosedByStage'
        /\ NoOrphan' /\ ReplacedWaitIsWoken'
    BY <1>5
    DEF IInv, StageInv, TypeOK, FutureIsBlank, StartIsOwned, AdapterIsCurrent, WaitCanBeWoken,
        WaitIsRetried, OldClosedByStage, NoOrphan, ReplacedWaitIsWoken, MarkStarted, Current,
        hosts, InStart
  <2> QED
    BY <2>1, <2>2, <2>3, <2>4 DEF StageInv
<1>6. ASSUME NEW g \in Gens, RelaunchAfter(g) PROVE StageInv'
  <2>1. FutureIsBlank'
    BY <1>6 DEF IInv, StageInv, TypeOK, FutureIsBlank, RelaunchAfter, hosts
  <2>2. ProcessByStage'
    BY <1>6 DEF IInv, StageInv, TypeOK, ProcessByStage, RelaunchAfter, hosts
  <2>3. StartIsOwned'
    BY <1>6 DEF IInv, StageInv, TypeOK, StartIsOwned, RelaunchAfter, hosts, InStart
  <2>4. AdapterIsCurrent'
    BY <1>6 DEF IInv, StageInv, TypeOK, AdapterIsCurrent, RelaunchAfter, InStart
  <2>5. WatchByStage'
    BY <1>6 DEF IInv, StageInv, TypeOK, WatchByStage, ProcessByStage, RelaunchAfter, hosts
  <2>6. WaitCanBeWoken'
    BY <1>6 DEF IInv, StageInv, TypeOK, WaitCanBeWoken, RelaunchAfter, Current
  <2>7. WaitIsRetried'
    BY <1>6 DEF IInv, StageInv, TypeOK, WaitIsRetried, RelaunchAfter
  <2>8. OldClosedByStage'
    BY <1>6 DEF IInv, StageInv, TypeOK, OldClosedByStage, RelaunchAfter
  <2>9. ReplacedWaitIsWoken'
    BY <1>6 DEF IInv, StageInv, TypeOK, ReplacedWaitIsWoken, RelaunchAfter, Current
  <2>10. /\ NoOrphan' /\ StartedAgentIsWatched'
    BY <1>6 DEF IInv, StageInv, TypeOK, NoOrphan, StartedAgentIsWatched, RelaunchAfter, hosts
  <2> QED
    BY <2>1, <2>2, <2>3, <2>4, <2>5, <2>6, <2>7, <2>8, <2>9, <2>10 DEF StageInv
<1>7. ASSUME NEW g \in Gens, LaunchPlanned(g) PROVE StageInv'
  <2>1. ProcessByStage'
    BY <1>7 DEF IInv, StageInv, TypeOK, ProcessByStage, LaunchPlanned, hosts
  <2>2. OldClosedByStage'
    BY <1>7 DEF IInv, StageInv, TypeOK, OldClosedByStage, LaunchPlanned, OldClosed
  <2>3. /\ FutureIsBlank' /\ StartIsOwned' /\ AdapterIsCurrent'
        /\ WatchByStage' /\ WaitCanBeWoken' /\ WaitIsRetried'
        /\ NoOrphan' /\ StartedAgentIsWatched' /\ ReplacedWaitIsWoken'
    BY <1>7
    DEF IInv, StageInv, TypeOK, FutureIsBlank, StartIsOwned, AdapterIsCurrent, WatchByStage,
        WaitCanBeWoken, WaitIsRetried, NoOrphan, StartedAgentIsWatched, ReplacedWaitIsWoken,
        LaunchPlanned, conversation, hosts, Current, InStart
  <2> QED
    BY <2>1, <2>2, <2>3 DEF StageInv
<1>8. ASSUME NEW g \in Gens, ProcessExits(g) PROVE StageInv'
  <2>1. FutureIsBlank'
    BY <1>8 DEF IInv, StageInv, TypeOK, FutureIsBlank, ProcessExits, conversation, launches
  <2>2. ProcessByStage'
    BY <1>8 DEF IInv, StageInv, TypeOK, ProcessByStage, ProcessExits, launches
  <2>3. NoOrphan'
    BY <1>8 DEF IInv, StageInv, TypeOK, NoOrphan, ProcessExits, conversation, launches
  <2>4. /\ StartIsOwned' /\ AdapterIsCurrent' /\ WatchByStage'
        /\ WaitCanBeWoken' /\ WaitIsRetried' /\ OldClosedByStage'
        /\ StartedAgentIsWatched' /\ ReplacedWaitIsWoken'
    BY <1>8
    DEF IInv, StageInv, TypeOK, StartIsOwned, AdapterIsCurrent, WatchByStage, WaitCanBeWoken,
        WaitIsRetried, OldClosedByStage, StartedAgentIsWatched, ReplacedWaitIsWoken,
        ProcessExits, conversation, launches, Current
  <2> QED
    BY <2>1, <2>2, <2>3, <2>4 DEF StageInv
<1>9. ASSUME NEW g \in Gens, CloseOld(g) PROVE StageInv'
  <2>1. FutureIsBlank'
    BY <1>9 DEF IInv, StageInv, TypeOK, FutureIsBlank, CloseOld, CloseHost, conversation
  <2>2. ProcessByStage'
    BY <1>9 DEF IInv, StageInv, TypeOK, ProcessByStage, CloseOld, CloseHost
  <2>3. StartIsOwned'
    BY <1>9 DEF IInv, StageInv, TypeOK, StartIsOwned, CloseOld, CloseHost, conversation
  <2>4. OldClosedByStage'
    BY <1>9 DEF IInv, StageInv, TypeOK, OldClosedByStage, CloseOld
  <2>5. NoOrphan'
    BY <1>9 DEF IInv, StageInv, TypeOK, NoOrphan, CloseOld, CloseHost, conversation
  <2>6. /\ AdapterIsCurrent' /\ WatchByStage' /\ WaitCanBeWoken'
        /\ WaitIsRetried' /\ StartedAgentIsWatched' /\ ReplacedWaitIsWoken'
    BY <1>9
    DEF IInv, StageInv, TypeOK, AdapterIsCurrent, WatchByStage, WaitCanBeWoken, WaitIsRetried,
        StartedAgentIsWatched, ReplacedWaitIsWoken, CloseOld, conversation, Current
  <2> QED
    BY <2>1, <2>2, <2>3, <2>4, <2>5, <2>6 DEF StageInv
<1>10. ASSUME NEW g \in Gens, LaunchFailed(g) PROVE StageInv'
  <2>1. launch[g] = "failed" /\ UNCHANGED <<woken, closing, proc, watch>>
    BY <1>10 DEF LaunchFailed, hosts
  <2>2. Over(g) \in [Gens -> UnderWay \union {"none", "done"}]
    BY DEF Over, IInv, TypeOK
  <2>3. CASE launch' = Over(g) /\ UNCHANGED <<conversation, retry, old>>
    <3>1. AdapterIsCurrent'
      BY <2>1, <2>3 DEF IInv, StageInv, TypeOK, AdapterIsCurrent, Over, conversation, InStart
    <3>2. WatchByStage'
      BY <2>1, <2>3
      DEF IInv, StageInv, TypeOK, WatchByStage, ProcessByStage, Over, conversation
    <3>3. /\ FutureIsBlank' /\ ProcessByStage' /\ StartIsOwned'
          /\ WaitCanBeWoken' /\ WaitIsRetried' /\ OldClosedByStage'
          /\ NoOrphan' /\ StartedAgentIsWatched' /\ ReplacedWaitIsWoken'
      BY <2>1, <2>3
      DEF IInv, StageInv, TypeOK, FutureIsBlank, ProcessByStage, StartIsOwned, WaitCanBeWoken,
          WaitIsRetried, OldClosedByStage, NoOrphan, StartedAgentIsWatched,
          ReplacedWaitIsWoken, Over, conversation, Current, InStart
    <3> QED
      BY <3>1, <3>2, <3>3 DEF StageInv
  <2>4. CASE g = generation /\ (AwaitLogin(g) \/ FailStart(g))
    <3>1. proc[g] # "up"
      BY <2>1 DEF IInv, StageInv, ProcessByStage
    <3>2. Down(TRUE, None) /\ (Relaunch(Over(g)) \/ launch' = Over(g))
      BY <2>4 DEF AwaitLogin, FailStart, FailAskedStart, StartAgain
    <3> QED
      BY <2>1, <2>2, <2>4, <3>1, <3>2, FollowStage
  <2> QED
    BY <1>10, <2>3, <2>4 DEF LaunchFailed, Current
<1>11. ASSUME NEW g \in Gens, NEW long \in BOOLEAN, SignalExit(g, long) PROVE StageInv'
  <2>1. /\ watch[g] /\ proc[g] = "gone" /\ watch' = [watch EXCEPT ![g] = FALSE]
        /\ UNCHANGED <<failure, woken, proc, server>>
    BY <1>11 DEF SignalExit
  <2>2. CASE g # generation /\ UNCHANGED <<conversation, launch, retry, old, closing>>
    <3>1. ProcessByStage'
      BY <2>1, <2>2 DEF IInv, StageInv, ProcessByStage
    <3>2. WatchByStage'
      BY <2>1, <2>2 DEF IInv, StageInv, WatchByStage, conversation
    <3>3. StartedAgentIsWatched'
      BY <2>1, <2>2 DEF IInv, StageInv, StartedAgentIsWatched, conversation
    <3>4. /\ FutureIsBlank' /\ StartIsOwned' /\ AdapterIsCurrent'
          /\ WaitCanBeWoken' /\ WaitIsRetried' /\ OldClosedByStage'
          /\ NoOrphan' /\ ReplacedWaitIsWoken'
      BY <2>1, <2>2
      DEF IInv, StageInv, FutureIsBlank, StartIsOwned, AdapterIsCurrent, WaitCanBeWoken,
          WaitIsRetried, OldClosedByStage, NoOrphan, ReplacedWaitIsWoken, conversation, Current
    <3> QED
      BY <3>1, <3>2, <3>3, <3>4 DEF StageInv
  <2>3. CASE /\ g = generation /\ closing' = [closing EXCEPT ![g] = TRUE] /\ Down(TRUE, None)
             /\ Relaunch(launch) \/ launch' = launch
    <3>1. /\ launch[g] \in {"ready", "done"}
          /\ launch \in [Gens -> UnderWay \union {"none", "done"}]
      BY <2>1 DEF IInv, StageInv, TypeOK, ProcessByStage
    <3>2. /\ closing'[g]
          /\ \A h \in Gens : (closing[h] => closing'[h]) /\ (watch'[h] => watch[h])
      BY <2>1, <2>3 DEF IInv, TypeOK
    <3> QED
      BY <2>1, <2>3, <3>1, <3>2, FollowStage
  <2> QED
    BY <1>11, <2>2, <2>3 DEF SignalExit, StartAgain, Current
<1>12. ASSUME Replace PROVE StageInv'
  BY <1>12, RetireStage DEF Replace
<1>13. ASSUME RetryLogin PROVE StageInv'
  <2>1. CASE RetireAdapter("planned", TRUE)
    BY <2>1, RetireStage
  <2>2. CASE /\ WakeRelaunch
             /\ UNCHANGED <<generation, adapter, started, restarts, login, loginWaiting,
                            launch, retry, failure, old, hosts>>
    <3>1. WaitCanBeWoken'
      BY <2>2 DEF IInv, StageInv, TypeOK, WaitCanBeWoken, WakeRelaunch
    <3>2. ReplacedWaitIsWoken'
      BY <2>2 DEF IInv, StageInv, ReplacedWaitIsWoken, WakeRelaunch, Current
    <3>3. /\ FutureIsBlank' /\ ProcessByStage' /\ StartIsOwned'
          /\ AdapterIsCurrent' /\ WatchByStage' /\ WaitIsRetried'
          /\ OldClosedByStage' /\ NoOrphan' /\ StartedAgentIsWatched'
      BY <2>2
      DEF IInv, StageInv, FutureIsBlank, ProcessByStage, StartIsOwned, AdapterIsCurrent,
          WatchByStage, WaitIsRetried, OldClosedByStage, NoOrphan, StartedAgentIsWatched, hosts
    <3> QED
      BY <3>1, <3>2, <3>3 DEF StageInv
  <2> QED
    BY <1>13, <2>1, <2>2 DEF RetryLogin
<1>14. ASSUME Close PROVE StageInv'
  BY <1>14, RetireStage DEF Close
<1>15. CASE \/ RestartReturns \/ CtxEnds \/ UNCHANGED vars
          \/ \E g \in Gens : LoginLost(g) \/ LoginProved(g)
  BY <1>15
  DEF IInv, StageInv, FutureIsBlank, ProcessByStage, StartIsOwned, AdapterIsCurrent,
      WatchByStage, WaitCanBeWoken, WaitIsRetried, OldClosedByStage, NoOrphan,
      StartedAgentIsWatched, ReplacedWaitIsWoken, Current, RestartReturns, CtxEnds, LoginLost,
      LoginProved, vars, conversation, launches, hosts
<1> QED
  BY <1>1, <1>2, <1>3, <1>4, <1>5, <1>6, <1>7, <1>8, <1>9, <1>10, <1>11, <1>12, <1>13, <1>14,
     <1>15 DEF Next

-----------------------------------------------------------------------------
(* The invariant, and what follows from it. *)

\* The invariant holds of a conversation that starts.
LEMMA InitIInv == Init => IInv
<1> SUFFICES ASSUME Init PROVE IInv
  OBVIOUS
<1>1. TypeOK
  <2>1. restarts \in 0 .. MaxRestarts /\ generation \in Gens
    BY GensFacts, AgentLifecycleAssumption DEF Init
  <2>2. launch \in [Gens -> UnderWay \union {"none", "done"}]
    BY DEF Init, UnderWay
  <2> QED
    BY <2>1, <2>2 DEF Init, TypeOK
<1>2. FutureIsBlank /\ ProcessByStage /\ StartIsOwned
  BY GensFacts DEF Init, FutureIsBlank, ProcessByStage, StartIsOwned, InStart
<1>3. AdapterIsCurrent /\ WatchByStage /\ WaitCanBeWoken /\ WaitIsRetried
  BY GensFacts DEF Init, AdapterIsCurrent, WatchByStage, WaitCanBeWoken, WaitIsRetried, InStart
<1>4. OldClosedByStage /\ NoOrphan /\ StartedAgentIsWatched /\ ReplacedWaitIsWoken
  BY DEF Init, OldClosedByStage, NoOrphan, StartedAgentIsWatched, ReplacedWaitIsWoken
<1> QED
  BY <1>1, <1>2, <1>3, <1>4 DEF IInv, StageInv

\* The invariant holds in every state of the conversation.
LEMMA IInvHolds == Spec => []IInv
<1>1. IInv /\ [Next]_vars => IInv'
  BY TypeStep, StageStep DEF IInv
<1> QED
  BY <1>1, InitIInv, PTL DEF Spec

\* The types of the conversation, its launches and its hosts, whatever exits,
\* fails or is retired (lifecycle.go, login.go, Host).
THEOREM LifecycleTypeCorrect == Spec => []TypeOK
BY IInvHolds, PTL DEF IInv

\* No agent process is left behind, however Close, the launches and the exits
\* of the generations interleave (retireAdapterLocked, Host.Launch).
THEOREM NoAgentLeftBehind == Spec => []NoOrphan
BY IInvHolds, PTL DEF IInv, StageInv

\* The conversation only takes turns for the agent it launched last, whose exit
\* it will notice (markStartedLocked, signalExit).
THEOREM StartedMeansWatched == Spec => []StartedAgentIsWatched
BY IInvHolds, PTL DEF IInv, StageInv

\* No goroutine of relaunchAfter is left to sleep for an agent that was
\* replaced (wakeRelaunchLocked).
THEOREM NoStaleWait == Spec => []ReplacedWaitIsWoken
BY IInvHolds, PTL DEF IInv, StageInv

-----------------------------------------------------------------------------
(* Agents run one at a time. *)

\* A retired agent is closed for the generation that follows it.
OldIsOneBefore == \A k \in Gens : old[k] # None => old[k] = k - 1

\* An agent is closed for no launch only by Close, after which no generation
\* follows.
CloseIsLast ==
    \A k \in Gens : old[k] # None /\ launch[k] = "none" => k = generation /\ stopping

\* While a replacement is to be launched, the server takes no other one, and no
\* other launch begins.
RestartIsAlone ==
    \A k \in Gens : ~retry[k] /\ launch[k] = "planned" =>
        /\ restarting
        /\ \A j \in Gens : j > k => launch[j] = "none"

RunInv == OldIsOneBefore /\ CloseIsLast /\ RestartIsAlone

\* The invariant holds of a conversation that starts.
LEMMA InitRunInv == Init => RunInv
BY DEF Init, RunInv, OldIsOneBefore, CloseIsLast, RestartIsAlone

\* Retiring the agent keeps the invariant: the last generation isn't one that
\* Close ended with, nor, unless it is Close that retires it, has it a
\* replacement to be launched.
LEMMA RetireRunInv ==
    ASSUME IInv, RunInv, NEW stage \in {"planned", "none"}, NEW again \in BOOLEAN,
           RetireAdapter(stage, again),
           \A k \in Gens : old[k] # None => launch[k] # "none",
           stage = "none" => stopping',
           stage = "planned" =>
               \A k \in Gens : launch[k] = "planned" => retry[k],
           ~again => restarting',
           restarting => restarting'
    PROVE  RunInv'
<1>1. generation \in Gens /\ generation + 1 \in Gens /\ generation' = generation + 1
  BY GensFacts DEF IInv, TypeOK, RetireAdapter, Down
<1>2. /\ old' = [old EXCEPT ![generation + 1] = adapter]
      /\ retry' = [retry EXCEPT ![generation + 1] = again]
      /\ launch' = [launch EXCEPT ![generation + 1] = stage]
  BY DEF RetireAdapter, Down
<1>3. adapter \in {None, generation} /\ FutureIsBlank
  BY DEF IInv, StageInv, AdapterIsCurrent
<1>4. OldIsOneBefore'
  BY <1>1, <1>2, <1>3 DEF RunInv, OldIsOneBefore, IInv, TypeOK, Gens
<1>5. CloseIsLast'
  BY <1>1, <1>2, <1>3 DEF RunInv, CloseIsLast, IInv, TypeOK, Gens
<1>6. RestartIsAlone'
  <2> SUFFICES ASSUME NEW k \in Gens, ~retry'[k], launch'[k] = "planned"
               PROVE  restarting' /\ \A j \in Gens : j > k => launch'[j] = "none"
    BY DEF RestartIsAlone
  <2>1. CASE k = generation + 1
    <3>1. restarting'
      BY <1>1, <1>2, <2>1 DEF IInv, TypeOK
    <3>2. ASSUME NEW j \in Gens, j > k PROVE launch'[j] = "none"
      BY <1>1, <1>2, <1>3, <2>1, <3>2 DEF FutureIsBlank, Gens
    <3> QED
      BY <3>1, <3>2
  <2>2. CASE k # generation + 1
    <3>1. ~retry[k] /\ launch[k] = "planned"
      BY <1>1, <1>2, <2>2 DEF IInv, TypeOK
    <3>2. stage = "none"
      BY <3>1
    <3>3. restarting /\ \A j \in Gens : j > k => launch[j] = "none"
      BY <3>1 DEF RunInv, RestartIsAlone
    <3> QED
      BY <1>2, <3>2, <3>3 DEF IInv, TypeOK
  <2> QED
    BY <2>1, <2>2
<1> QED
  BY <1>4, <1>5, <1>6 DEF RunInv

\* The generation that follows one whose launch is over or failed keeps the
\* invariant: its launch isn't a replacement's.
LEMMA FollowRunInv ==
    ASSUME IInv, RunInv, NEW g \in Gens, g = generation,
           launch[g] \in {"failed", "ready", "done"}, Down(TRUE, None),
           NEW l, l = launch \/ l = Over(g), Relaunch(l) \/ launch' = l,
           UNCHANGED <<restarting, stopping>>
    PROVE  RunInv'
<1>1. generation + 1 \in Gens /\ generation' = generation + 1
  BY GensFacts DEF IInv, TypeOK, Down
<1>2. FutureIsBlank
  BY DEF IInv, StageInv
<1>3. /\ old' = [old EXCEPT ![generation + 1] = None]
      /\ retry' = [retry EXCEPT ![generation + 1] = TRUE]
  BY DEF Down
<1>4. /\ \A k \in Gens : k # generation + 1 /\ k # g => launch'[k] = launch[k]
      /\ launch'[g] \in {"failed", "ready", "done"}
      /\ launch'[generation + 1] \in {"none", "waiting"}
  <2>1. /\ \A k \in Gens : k # g => l[k] = launch[k]
        /\ l[g] \in {"failed", "ready", "done"}
        /\ DOMAIN l = Gens /\ l = [k \in Gens |-> l[k]]
    BY DEF Over, IInv, TypeOK
  <2>2. launch[generation + 1] = "none" /\ generation + 1 # g
    BY <1>1, <1>2 DEF FutureIsBlank, Gens
  <2> QED
    BY <1>1, <2>1, <2>2 DEF Relaunch
<1>5. OldIsOneBefore'
  BY <1>1, <1>3 DEF RunInv, OldIsOneBefore, IInv, TypeOK
<1>6. CloseIsLast'
  BY <1>1, <1>3, <1>4 DEF RunInv, CloseIsLast, IInv, TypeOK
<1>7. RestartIsAlone'
  <2> SUFFICES ASSUME NEW k \in Gens, ~retry'[k], launch'[k] = "planned"
               PROVE  restarting' /\ \A j \in Gens : j > k => launch'[j] = "none"
    BY DEF RestartIsAlone
  <2>1. k # generation + 1 /\ k # g /\ ~retry[k] /\ launch[k] = "planned"
    BY <1>1, <1>3, <1>4 DEF IInv, TypeOK
  <2>2. restarting /\ \A j \in Gens : j > k => launch[j] = "none"
    BY <2>1 DEF RunInv, RestartIsAlone
  <2>3. ~(generation > k)
    BY <2>2 DEF IInv, TypeOK
  <2>4. k > generation
    BY <2>1, <2>3 DEF IInv, TypeOK, Gens
  <2> QED
    BY <1>2, <2>1, <2>4 DEF FutureIsBlank
<1> QED
  BY <1>5, <1>6, <1>7 DEF RunInv

\* A launch that goes on by itself keeps the invariant.
LEMMA GoOnRunInv ==
    ASSUME IInv, RunInv, NEW g \in Gens, launch[g] # "none",
           NEW stage, stage \notin {"none", "planned"},
           launch' = [launch EXCEPT ![g] = stage],
           UNCHANGED <<generation, retry, old, restarting, stopping>>
    PROVE  RunInv'
BY DEF IInv, TypeOK, RunInv, OldIsOneBefore, CloseIsLast, RestartIsAlone

\* Every step keeps the invariant.
LEMMA RunStep == IInv /\ RunInv /\ [Next]_vars => RunInv'
<1> SUFFICES ASSUME IInv, RunInv, [Next]_vars PROVE RunInv'
  OBVIOUS
<1> USE DEF conversation, launches, hosts, server
<1>1. ASSUME NEW g \in Gens,
             \/ SetAdapter(g) \/ HostLaunch(g) \/ HostSpawned(g) \/ AdapterStarted(g)
             \/ MarkStarted(g) \/ RelaunchAfter(g) \/ LaunchPlanned(g)
      PROVE  RunInv'
  <2>1. UNCHANGED <<generation, retry, old, restarting, stopping>>
    BY <1>1
    DEF SetAdapter, HostLaunch, HostSpawned, AdapterStarted, MarkStarted, RelaunchAfter,
        LaunchPlanned
  <2>2. launch[g] # "none"
    BY <1>1
    DEF SetAdapter, HostLaunch, HostSpawned, AdapterStarted, MarkStarted, RelaunchAfter,
        LaunchPlanned
  <2>3. \E stage \in {"factory", "check", "spawn", "handshake", "failed", "ready", "done"} :
            launch' = [launch EXCEPT ![g] = stage]
    BY <1>1
    DEF SetAdapter, HostLaunch, HostSpawned, AdapterStarted, MarkStarted, RelaunchAfter,
        LaunchPlanned, StartFails
  <2> QED
    BY <2>1, <2>2, <2>3, GoOnRunInv
<1>2. ASSUME NEW g \in Gens, LaunchFailed(g) PROVE RunInv'
  <2>1. launch[g] = "failed" /\ UNCHANGED <<restarting, stopping>>
    BY <1>2 DEF LaunchFailed
  <2>2. CASE launch' = Over(g) /\ UNCHANGED <<conversation, retry, old>>
    BY <2>1, <2>2, GoOnRunInv DEF Over
  <2>3. CASE g = generation /\ (AwaitLogin(g) \/ FailStart(g))
    <3>1. Down(TRUE, None) /\ (Relaunch(Over(g)) \/ launch' = Over(g))
      BY <2>3 DEF AwaitLogin, FailStart, FailAskedStart, StartAgain
    <3> QED
      BY <2>1, <2>3, <3>1, FollowRunInv
  <2> QED
    BY <1>2, <2>2, <2>3 DEF LaunchFailed, Current
<1>3. ASSUME NEW g \in Gens, NEW long \in BOOLEAN, SignalExit(g, long) PROVE RunInv'
  <2>1. watch[g] /\ UNCHANGED <<restarting, stopping>>
    BY <1>3 DEF SignalExit
  <2>2. CASE UNCHANGED <<conversation, launch, retry, old, closing>>
    BY <2>1, <2>2 DEF RunInv, OldIsOneBefore, CloseIsLast, RestartIsAlone
  <2>3. CASE g = generation /\ Down(TRUE, None) /\ (Relaunch(launch) \/ launch' = launch)
    <3>1. launch[g] \in {"ready", "done"}
      BY <2>1 DEF IInv, StageInv, ProcessByStage
    <3> QED
      BY <2>1, <2>3, <3>1, FollowRunInv
  <2> QED
    BY <1>3, <2>2, <2>3 DEF SignalExit, StartAgain, Current
<1>4. ASSUME Replace PROVE RunInv'
  <2>1. \A k \in Gens : launch[k] = "planned" => retry[k]
    BY <1>4 DEF Replace, RunInv, RestartIsAlone
  <2>2. \A k \in Gens : old[k] # None => launch[k] # "none"
    BY <1>4 DEF Replace, RunInv, CloseIsLast
  <2> QED
    BY <1>4, <2>1, <2>2, RetireRunInv DEF Replace
<1>5. ASSUME RetryLogin PROVE RunInv'
  <2>1. CASE started /\ RetireAdapter("planned", TRUE)
    <3>1. launch[generation] = "done" /\ generation \in Gens
      BY <2>1 DEF IInv, TypeOK, StageInv, StartedAgentIsWatched
    <3>2. \A k \in Gens : launch[k] = "planned" => retry[k]
      <4> SUFFICES ASSUME NEW k \in Gens, launch[k] = "planned", ~retry[k] PROVE FALSE
        OBVIOUS
      <4>1. ~(generation > k)
        BY <3>1 DEF RunInv, RestartIsAlone
      <4>2. ~(k > generation)
        BY DEF IInv, StageInv, FutureIsBlank
      <4>3. k # generation
        BY <3>1
      <4> QED
        BY <3>1, <4>1, <4>2, <4>3 DEF Gens
    <3>3. \A k \in Gens : old[k] # None => launch[k] # "none"
      BY <3>1 DEF RunInv, CloseIsLast
    <3> QED
      BY <1>5, <2>1, <3>2, <3>3, RetireRunInv DEF RetryLogin
  <2>2. CASE UNCHANGED <<generation, launch, retry, old, restarting, stopping>>
    BY <2>2 DEF RunInv, OldIsOneBefore, CloseIsLast, RestartIsAlone
  <2> QED
    BY <1>5, <2>1, <2>2 DEF RetryLogin
<1>6. ASSUME Close PROVE RunInv'
  <2>1. \A k \in Gens : old[k] # None => launch[k] # "none"
    BY <1>6 DEF Close, RunInv, CloseIsLast
  <2> QED
    BY <1>6, <2>1, RetireRunInv DEF Close
<1>7. ASSUME NEW g \in Gens, CloseOld(g) PROVE RunInv'
  BY <1>7 DEF CloseOld, IInv, TypeOK, RunInv, OldIsOneBefore, CloseIsLast, RestartIsAlone
<1>8. ASSUME RestartReturns PROVE RunInv'
  BY <1>8 DEF RestartReturns, RunInv, OldIsOneBefore, CloseIsLast, RestartIsAlone
<1>9. CASE \/ CtxEnds \/ UNCHANGED vars
           \/ \E g \in Gens : LoginLost(g) \/ LoginProved(g) \/ ProcessExits(g)
  BY <1>9
  DEF CtxEnds, vars, LoginLost, LoginProved, ProcessExits, RunInv, OldIsOneBefore, CloseIsLast,
      RestartIsAlone
<1> QED
  BY <1>1, <1>2, <1>3, <1>4, <1>5, <1>6, <1>7, <1>8, <1>9 DEF Next

\* Of two agents, the older isn't the conversation's adapter, so who retired it
\* is about to close it, before the launch that follows it; as a later launch
\* began, that is no Close and no replacement's.
LEMMA RunsAloneFollows == IInv /\ RunInv => RunsAlone
<1> SUFFICES ASSUME IInv, RunInv, NEW g \in Gens, NEW h \in Gens, g < h,
                    proc[g] = "up", proc[h] = "up"
             PROVE  \E k \in Gens : old[k] = g /\ k < h /\ LoginRetried(k)
  BY DEF RunsAlone
<1>1. launch[h] \in {"handshake", "ready", "done"}
  BY DEF IInv, StageInv, ProcessByStage
<1>2. h <= generation
  BY DEF IInv, TypeOK, StageInv, FutureIsBlank, Gens
<1>3. adapter # g
  BY <1>2, GensFacts DEF IInv, TypeOK, StageInv, AdapterIsCurrent, Gens
<1>4. PICK k \in Gens : old[k] = g
  BY <1>3 DEF IInv, StageInv, NoOrphan
<1>5. old[k] # None
  BY <1>4, GensFacts
<1>6. k = g + 1 /\ launch[k] \in {"none", "planned"}
  BY <1>4, <1>5 DEF IInv, StageInv, OldClosedByStage, RunInv, OldIsOneBefore, Gens
<1>7. k < h
  BY <1>1, <1>6 DEF Gens
<1>8. launch[k] = "planned"
  BY <1>2, <1>5, <1>6, <1>7 DEF IInv, TypeOK, RunInv, CloseIsLast, Gens
<1>9. retry[k]
  BY <1>1, <1>7, <1>8 DEF RunInv, RestartIsAlone
<1> QED
  BY <1>4, <1>7, <1>8, <1>9 DEF LoginRetried

\* Agents run one at a time, unless a RetryLogin still closes the older one
\* (Replacement.Start and CloseOld, RetryLogin, signalExit).
THEOREM OneAgentAtATime == Spec => []RunsAlone
<1>1. RunInv /\ IInv /\ [Next]_vars => RunInv'
  BY RunStep
<1> QED
  BY <1>1, IInvHolds, InitRunInv, RunsAloneFollows, PTL DEF Spec

-----------------------------------------------------------------------------
(* The conversation implements AgentService. *)

\* A step that changes nothing of what agentState reads is a stutter.
LEMMA SameView ==
    ASSUME UNCHANGED <<generation, started, restarts, loginWaiting, stopping, ctxDone>>,
           retry'[generation] = retry[generation],
           launch'[generation] = launch[generation]
    PROVE  UNCHANGED Service!svars
BY DEF Service!svars, agentState

\* A launch that goes on below the conversation's notice is a stutter.
LEMMA StillStarting ==
    ASSUME ~started, UNCHANGED <<generation, started, restarts, stopping, ctxDone, retry>>,
           launch[generation] \in UnderWay \ {"waiting", "ready"},
           launch'[generation] \in UnderWay \ {"waiting", "ready"}
    PROVE  UNCHANGED Service!svars
BY DEF Service!svars, agentState

\* Every step of the conversation is one of AgentService, or a stutter.
LEMMA ServiceStep == IInv /\ [Next]_vars => [Service!Next]_(Service!svars)
<1> SUFFICES ASSUME IInv, [Next]_vars, ~UNCHANGED Service!svars
             PROVE  Service!Next
  OBVIOUS
<1> USE DEF conversation, launches, hosts, server
<1>0. /\ generation \in Gens /\ launch \in [Gens -> UnderWay \union {"none", "done"}]
      /\ retry \in [Gens -> BOOLEAN]
      /\ launch[generation] \in UnderWay => ~started
  BY DEF IInv, StageInv, TypeOK, StartedAgentIsWatched, UnderWay
<1>1. CASE stopping' \/ ctxDone'
  BY <1>1 DEF Service!Next, Service!Stops, agentState
<1>2. ASSUME NEW g \in Gens, SetAdapter(g) PROVE Service!Next
  <2>1. CASE g = generation
    <3>1. /\ launch[generation] \in UnderWay \ {"waiting", "ready"}
          /\ launch'[generation] \in UnderWay \ {"waiting", "ready"}
      BY <1>0, <1>2, <2>1 DEF SetAdapter, Current, UnderWay
    <3> QED
      BY <1>0, <1>2, <3>1, StillStarting DEF SetAdapter
  <2>2. CASE g # generation
    BY <1>0, <1>2, <2>2, SameView DEF SetAdapter
  <2> QED
    BY <2>1, <2>2
<1>3. ASSUME NEW g \in Gens, HostLaunch(g) \/ HostSpawned(g) \/ LaunchPlanned(g)
      PROVE  Service!Next
  <2>1. CASE g = generation
    <3>1. /\ launch[generation] \in UnderWay \ {"waiting", "ready"}
          /\ launch'[generation] \in UnderWay \ {"waiting", "ready"}
      BY <1>0, <1>3, <2>1 DEF HostLaunch, HostSpawned, LaunchPlanned, StartFails, UnderWay
    <3> QED
      BY <1>0, <1>3, <3>1, StillStarting DEF HostLaunch, HostSpawned, LaunchPlanned
  <2>2. CASE g # generation
    BY <1>0, <1>3, <2>2, SameView DEF HostLaunch, HostSpawned, LaunchPlanned, StartFails
  <2> QED
    BY <2>1, <2>2
<1>4. ASSUME NEW g \in Gens, AdapterStarted(g), ~stopping, ~ctxDone PROVE Service!Next
  <2>1. CASE g = generation /\ launch' = [launch EXCEPT ![g] = "ready"]
    <3>1. launch[generation] = "handshake" /\ launch'[generation] = "ready" /\ ~started
      BY <1>0, <1>4, <2>1 DEF AdapterStarted, UnderWay
    <3>2. UNCHANGED <<generation, started, restarts, stopping, ctxDone, retry>>
      BY <1>4 DEF AdapterStarted
    <3>3. agentState = "starting" /\ agentState' = "starting"
      BY <1>4, <3>1, <3>2 DEF agentState, UnderWay
    <3> QED
      BY <3>1, <3>2, <3>3 DEF Service!Next, Service!Answers, Service!svars
  <2>2. CASE g = generation /\ launch' = [launch EXCEPT ![g] = "failed"]
    <3>1. /\ launch[generation] \in UnderWay \ {"waiting", "ready"}
          /\ launch'[generation] \in UnderWay \ {"waiting", "ready"}
      BY <1>0, <1>4, <2>2 DEF AdapterStarted, UnderWay
    <3> QED
      BY <1>0, <1>4, <3>1, StillStarting DEF AdapterStarted
  <2>3. CASE g # generation
    BY <1>0, <1>4, <2>3, SameView DEF AdapterStarted, StartFails
  <2> QED
    BY <1>4, <2>1, <2>2, <2>3 DEF AdapterStarted, StartFails
<1>5. ASSUME NEW g \in Gens, MarkStarted(g), ~stopping, ~ctxDone PROVE Service!Next
  <2>1. CASE g = generation
    <3>1. launch[generation] = "ready" /\ ~started /\ started'
      BY <1>0, <1>5, <2>1 DEF MarkStarted, Current, UnderWay
    <3>2. UNCHANGED <<generation, restarts, stopping, ctxDone>>
      BY <1>5 DEF MarkStarted
    <3>3. agentState = "starting" /\ agentState' = "up"
      BY <1>5, <3>1, <3>2 DEF agentState, UnderWay
    <3> QED
      BY <3>1, <3>2, <3>3 DEF Service!Next, Service!Starts
  <2>2. CASE g # generation
    BY <1>0, <1>5, <2>2, SameView DEF MarkStarted, Current
  <2> QED
    BY <2>1, <2>2
<1>6. ASSUME NEW g \in Gens, LaunchFailed(g), ~stopping, ~ctxDone PROVE Service!Next
  <2>1. launch[g] = "failed" /\ UNCHANGED <<stopping, ctxDone>>
    BY <1>6 DEF LaunchFailed
  <2>2. CASE g # generation
    BY <1>0, <1>6, <2>2, SameView DEF LaunchFailed, Current, Over
  <2>3. CASE g = generation
    <3>1. agentState = "starting" /\ generation + 1 \in Gens /\ generation' = generation + 1
             /\ ~started'
      BY <1>0, <1>6, <2>1, <2>3, GensFacts
      DEF LaunchFailed, AwaitLogin, FailStart, FailAskedStart, Down, Current, agentState,
          UnderWay
    <3>2. CASE AwaitLogin(g)
      <4>1. launch'[generation'] = "waiting" /\ loginWaiting' /\ UNCHANGED restarts
        BY <1>0, <3>1, <3>2 DEF AwaitLogin, Relaunch, Over
      <4>2. agentState' = "login"
        BY <1>6, <2>1, <3>1, <4>1 DEF agentState
      <4> QED
        BY <3>1, <4>1, <4>2 DEF Service!Next, Service!NeedsLogin
    <3>3. CASE retry[g] /\ StartAgain(Over(g), restarts)
      <4>1. \/ /\ restarts < MaxRestarts /\ restarts' = restarts + 1
               /\ launch'[generation'] = "waiting"
            \/ /\ ~(restarts < MaxRestarts) /\ restarts' = restarts
               /\ launch'[generation'] = "none"
        BY <1>0, <2>3, <3>1, <3>3, GensFacts
        DEF StartAgain, Relaunch, Over, IInv, StageInv, FutureIsBlank
      <4>2. ~loginWaiting'
        BY <3>3 DEF StartAgain
      <4>3. /\ agentState' = IF restarts < MaxRestarts THEN "waiting" ELSE "down"
            /\ restarts' = IF restarts < MaxRestarts THEN restarts + 1 ELSE restarts
        BY <1>6, <2>1, <3>1, <4>1, <4>2 DEF agentState, UnderWay
      <4>4. restarts \in Int /\ MaxRestarts \in Int
        BY AgentLifecycleAssumption DEF IInv, TypeOK
      <4> QED
        BY <2>3, <3>1, <3>3, <4>3, <4>4 DEF Service!Next, Service!Fails
    <3>4. CASE ~retry[g] /\ FailAskedStart(g)
      <4>1. launch'[generation'] = "none" /\ UNCHANGED restarts
        BY <1>0, <2>3, <3>1, <3>4, GensFacts
        DEF FailAskedStart, Over, IInv, StageInv, FutureIsBlank
      <4>2. agentState' = "down"
        BY <1>6, <2>1, <3>1, <4>1 DEF agentState, UnderWay
      <4> QED
        BY <2>1, <2>3, <3>1, <3>4, <4>1, <4>2 DEF Service!Next, Service!AskedStartFails
    <3> QED
      BY <1>6, <2>3, <3>2, <3>3, <3>4 DEF LaunchFailed, FailStart, Current
  <2> QED
    BY <2>2, <2>3
<1>7. ASSUME NEW g \in Gens, RelaunchAfter(g), ~stopping, ~ctxDone PROVE Service!Next
  <2>1. CASE g = generation
    <3>1. /\ launch[generation] = "waiting" /\ launch'[generation] = "factory"
          /\ ~started /\ retry[generation]
      BY <1>0, <1>7, <2>1 DEF RelaunchAfter, Current, UnderWay, IInv, StageInv, WaitIsRetried
    <3>2. UNCHANGED <<generation, started, restarts, retry, stopping, ctxDone>>
      BY <1>7 DEF RelaunchAfter
    <3>3. agentState \in {"waiting", "login"} /\ agentState' = "starting"
      BY <1>7, <3>1, <3>2 DEF agentState, UnderWay
    <3> QED
      BY <3>1, <3>2, <3>3 DEF Service!Next, Service!StartsAgain
  <2>2. CASE g # generation
    BY <1>0, <1>7, <2>2, SameView DEF RelaunchAfter, Current
  <2> QED
    BY <2>1, <2>2
<1>8. ASSUME NEW g \in Gens, NEW long \in BOOLEAN, SignalExit(g, long), ~stopping, ~ctxDone
      PROVE  Service!Next
  <2> DEFINE n == IF long THEN 0 ELSE restarts
  <2>1. n \in {0, restarts} /\ n \in Int /\ MaxRestarts \in Int
    BY AgentLifecycleAssumption DEF IInv, TypeOK
  <2>2. watch[g] /\ UNCHANGED <<stopping, ctxDone>>
    BY <1>8 DEF SignalExit
  <2>3. CASE g # generation
    BY <1>0, <1>8, <2>3, SameView DEF SignalExit, Current
  <2>4. CASE g = generation
    <3>1. /\ Down(TRUE, None)
          /\ \/ /\ loginWaiting' = TRUE /\ restarts' = n
                /\ Relaunch(launch)
             \/ StartAgain(launch, n)
      BY <1>8, <2>4 DEF SignalExit, Current
    <3> HIDE DEF n
    <3>2. generation + 1 \in Gens /\ generation' = generation + 1 /\ ~started'
             /\ launch[generation + 1] = "none"
      BY <1>0, <3>1, GensFacts DEF Down, IInv, StageInv, FutureIsBlank
    <3>3. /\ agentState \in {"starting", "up"}
          /\ agentState = "starting" => launch[generation] = "ready"
      BY <1>8, <2>2, <2>4 DEF agentState, UnderWay, IInv, StageInv, ProcessByStage, WatchByStage
    <3>4. CASE loginWaiting' = TRUE /\ restarts' = n /\ Relaunch(launch)
      <4>1. launch'[generation'] = "waiting"
        BY <1>0, <3>2, <3>4 DEF Relaunch
      <4>2. agentState' = "login"
        BY <1>8, <2>2, <3>2, <3>4, <4>1 DEF agentState
      <4> QED
        BY <2>1, <3>3, <3>4, <4>2 DEF Service!Next, Service!NeedsLogin
    <3>5. CASE StartAgain(launch, n)
      <4>1. \/ n < MaxRestarts /\ restarts' = n + 1 /\ launch'[generation'] = "waiting"
            \/ ~(n < MaxRestarts) /\ restarts' = n /\ launch'[generation'] = "none"
        BY <1>0, <3>2, <3>5 DEF StartAgain, Relaunch
      <4>2. ~loginWaiting'
        BY <3>5 DEF StartAgain
      <4>3. /\ agentState' = IF n < MaxRestarts THEN "waiting" ELSE "down"
            /\ restarts' = IF n < MaxRestarts THEN n + 1 ELSE n
        BY <1>8, <2>2, <3>2, <4>1, <4>2 DEF agentState, UnderWay
      <4>4. CASE n < MaxRestarts
        BY <2>1, <3>3, <4>3, <4>4 DEF Service!Next, Service!Fails
      <4>5. CASE n >= MaxRestarts
        <5>1. agentState' = "down" /\ restarts' = n
          BY <2>1, <4>3, <4>5
        <5> QED
          BY <2>1, <3>3, <4>5, <5>1 DEF Service!Next, Service!Fails
      <4> QED
        BY <2>1, <4>4, <4>5
    <3> QED
      BY <3>1, <3>4, <3>5
  <2> QED
    BY <2>3, <2>4
<1>9. ASSUME Replace, ~stopping, ~ctxDone PROVE Service!Next
  <2>1. /\ restarts' = 0 /\ generation' = generation + 1 /\ ~started'
        /\ launch'[generation'] = "planned" /\ ~retry'[generation']
        /\ UNCHANGED <<stopping, ctxDone>>
    BY <1>0, <1>9, GensFacts DEF Replace, RetireAdapter, Down
  <2>2. agentState # "stopped" /\ agentState' = "starting"
    BY <1>9, <2>1 DEF agentState, UnderWay
  <2> QED
    BY <2>1, <2>2 DEF Service!Next, Service!Replace
<1>10. ASSUME RetryLogin, ~stopping, ~ctxDone PROVE Service!Next
  <2>1. CASE started
    <3>1. /\ restarts' = 0 /\ generation' = generation + 1 /\ ~started'
          /\ launch'[generation'] = "planned" /\ retry'[generation']
          /\ UNCHANGED <<stopping, ctxDone>>
      BY <1>0, <1>10, <2>1, GensFacts DEF RetryLogin, RetireAdapter, Down
    <3>2. agentState = "up" /\ agentState' = "starting"
      BY <1>10, <2>1, <3>1 DEF agentState, UnderWay
    <3> QED
      BY <3>1, <3>2 DEF Service!Next, Service!Replace
  <2>2. CASE ~started
    BY <1>10, <2>2, SameView DEF RetryLogin
  <2> QED
    BY <2>1, <2>2
<1>11. CASE \/ RestartReturns \/ UNCHANGED vars
            \/ \E g \in Gens : ProcessExits(g) \/ LoginLost(g) \/ LoginProved(g) \/ CloseOld(g)
  BY <1>11, SameView DEF RestartReturns, ProcessExits, LoginLost, LoginProved, CloseOld, vars
<1>12. CASE Close \/ CtxEnds
  BY <1>1, <1>12 DEF Close, CtxEnds
<1>13. ~(stopping' \/ ctxDone') => ~stopping /\ ~ctxDone
  BY DEF Next, vars, Replace, RetryLogin, Close, RestartReturns, CtxEnds, SetAdapter,
         HostLaunch, HostSpawned, AdapterStarted, MarkStarted, LaunchFailed, RelaunchAfter,
         LaunchPlanned, ProcessExits, LoginLost, LoginProved, CloseOld, SignalExit
<1> QED
  BY <1>1, <1>2, <1>3, <1>4, <1>5, <1>6, <1>7, <1>8, <1>9, <1>10, <1>11, <1>12, <1>13 DEF Next

\* The launches, exits, login checks and replacements of any number of
\* generations implement AgentService: one agent at a time, started again by
\* itself at most len(Config.RestartDelays) times in a row, and none after the
\* stop (lifecycle.go, login.go).
THEOREM LifecycleImplementsService == Spec => ImplementsService
<1>1. Init => Service!Init
  BY GensFacts DEF Init, Service!Init, agentState, UnderWay
<1> QED
  BY <1>1, IInvHolds, ServiceStep, PTL DEF Spec, ImplementsService, Service!Spec
=============================================================================
