------------------------------- MODULE Updater -------------------------------
(***************************************************************************)
(* AgentAPI replaces its own program and runs it again: updates through the *)
(* API (lib/httpapi/update.go), the installation that the AgentAPIs of a    *)
(* machine share (lib/selfupdate), the restart in place and the shutdown    *)
(* (cmd/server), and the commands agentapi update and agentapi restart.     *)
(*                                                                         *)
(* `srv' is each server, with its agent as far as an update looks at it,    *)
(* `machine' is what the servers share: the program and its lock, the PID   *)
(* file, the latest release.  `updCli' is the command.  A version is its    *)
(* number; 0 is a version that does not parse.                              *)
(***************************************************************************)
EXTENDS Naturals, Sequences, FiniteSets, SequencesExt

CONSTANT UpdateScopes   \* what happens in a behaviour: records of bounds

\* There are finitely many servers, and none is named by a word that stands
\* for no server.
ASSUME UpdateAssumption ==
    \A sc \in UpdateScopes :
        /\ sc.servers \cap {"none", "stale", "cli"} = {} /\ IsFiniteSet(sc.servers)
        /\ {sc.version, sc.disk, sc.latest, sc.releases, sc.faults, sc.posts, sc.deletes, sc.messages, sc.own, sc.restarts} \subseteq Nat
        /\ sc.prompt \in {"none", "due"} /\ {sc.pid, sc.force} \subseteq BOOLEAN

VARIABLES srv, machine, updCli, updScope

updVars == <<srv, machine, updCli, updScope>>

Servers == updScope.servers
RunsOf(s) == DOMAIN srv[s].runs

\* A program that runs but would not start with the server's settings
\* (--validate, a state database it can't write).
WouldStart(v) == v \notin updScope.unstartable

-----------------------------------------------------------------------------
(* updater: the status and the update under way, under u.mu.                 *)

\* advance: false once the run was cancelled.
Current(v, n) == v.run = n
Advance(v, n, state) ==
    IF Current(v, n) THEN [v EXCEPT !.state = state, !.target = v.runs[n].target] ELSE v

\* As EndRun, but a run that was cancelled ends the one that came after it.
EndAnyRun(v, n, failed) ==
    [v EXCEPT !.run = 0, !.runs[n].over = TRUE, !.state = IF failed THEN "failed" ELSE "idle",
              !.target = IF failed THEN @ ELSE 0]

\* end: a run that is no longer the one under way changes nothing.
EndRun(v, n, failed) ==
    IF ~Current(v, n) THEN v
    ELSE [v EXCEPT !.run = 0, !.runs[n].over = TRUE, !.state = IF failed THEN "failed" ELSE "idle",
                   !.target = IF failed THEN @ ELSE 0]

\* moved, once: the request that started the update is answered.
Moved(v, n) ==
    IF v.runs[n].told # "none" THEN v
    ELSE [v EXCEPT !.runs[n].told = IF v.runs[n].over THEN "cancelled" ELSE "moved"]
At(v, n, pc) == [v EXCEPT !.runs[n].pc = pc]

HoldsQueue(v) == v.state \in {"waiting", "restarting"}

NewRun(now) == [pc |-> "latest", now |-> now, over |-> FALSE, target |-> 0, install |-> 0, told |-> "none",
                waiting |-> FALSE, woken |-> FALSE]

Posted(v, now) ==
    LET known == [v EXCEPT !.blocked = ~machine.writable]
    IN  IF v.run # 0 THEN [known EXCEPT !.runs[v.run].now = @ \/ now]
        ELSE IF ~machine.writable THEN known
        ELSE [known EXCEPT !.runs = Append(@, NewRun(now)), !.run = Len(v.runs) + 1, !.state = "checking", !.target = 0]

\* postUpdate, up to the answer; shutdownCtx has not ended.
UpdPost(s, now) ==
    /\ srv[s].up \in {"serving", "ending"} /\ srv[s].posts > 0
    /\ srv' = [srv EXCEPT ![s] = [Posted(srv[s], now) EXCEPT !.posts = @ - 1]]
    /\ UNCHANGED <<machine, updCli, updScope>>

Deleted(v) ==
    LET quiet == [v EXCEPT !.run = 0, !.state = "idle", !.target = 0]
    IN  IF v.run = 0 THEN quiet ELSE [quiet EXCEPT !.runs[v.run].over = TRUE]

\* deleteUpdate: refused once the server restarts.
UpdDelete(s) ==
    /\ srv[s].up \in {"serving", "ending"} /\ srv[s].deletes > 0 /\ srv[s].state # "restarting"
    /\ srv' = [srv EXCEPT ![s] = [Deleted(srv[s]) EXCEPT !.deletes = @ - 1]]
    /\ UNCHANGED <<machine, updCli, updScope>>

\* watchBlocked.
UpdTicks(s) ==
    /\ srv[s].up \in {"serving", "ending"} /\ srv[s].blocked = machine.writable
    /\ srv' = [srv EXCEPT ![s].blocked = ~machine.writable]
    /\ UNCHANGED <<machine, updCli, updScope>>

-----------------------------------------------------------------------------
(* runUpdate: check, install, wait for the agent, restart.                   *)

Alive(s) == srv[s].up # "gone"
RunAt(s, n, pc) == Alive(s) /\ srv[s].runs[n].pc = pc
Faults == machine.faults > 0
Faulted(m, fault) == IF fault THEN [m EXCEPT !.faults = @ - 1] ELSE m

\* The check ended the run: told is what the request gets.
CheckEnds(v, n, failed, told) ==
    At([EndRun(v, n, failed) EXCEPT !.runs[n].told = IF v.runs[n].over THEN "cancelled" ELSE told], n, "done")

\* check: Latest ...
UpdLatest(s, n) ==
    LET v == srv[s]
    IN  /\ RunAt(s, n, "latest")
        /\ \/ /\ v.runs[n].over \/ Faults
              /\ srv' = [srv EXCEPT ![s] = CheckEnds(v, n, TRUE, "error")]
              /\ machine' = Faulted(machine, ~v.runs[n].over)
           \/ /\ ~v.runs[n].over
              /\ srv' = [srv EXCEPT ![s] = At([v EXCEPT !.runs[n].install = machine.latest], n, "disk")]
              /\ UNCHANGED machine
        /\ UNCHANGED <<updCli, updScope>>

\* The release to install, unless the program on disk is as new.
Found(v, n, have) ==
    [v EXCEPT !.runs[n].target = IF have THEN machine.version ELSE v.runs[n].install, !.runs[n].install = IF have THEN 0 ELSE @]

\* ... then the program on disk; without its version, as --version fails or
\* the run is over, the release is installed.
UpdDisk(s, n) ==
    \E known \in BOOLEAN :
        LET v == srv[s]
            found == Found(v, n, known /\ machine.version >= v.runs[n].install)
        IN  /\ RunAt(s, n, "disk")
            /\ known # v.runs[n].over \/ (~known /\ Faults)
            /\ srv' = [srv EXCEPT ![s] = IF found.runs[n].target <= v.version THEN CheckEnds(v, n, FALSE, "up to date")
                                         ELSE At(found, n, "found")]
            /\ machine' = Faulted(machine, ~known /\ ~v.runs[n].over)
            /\ UNCHANGED <<updCli, updScope>>

UpdFound(s, n) ==
    LET v == srv[s]
        pc == IF v.runs[n].install = 0 THEN "begin" ELSE IF Current(v, n) THEN "lock" ELSE "done"
        told == IF pc = "begin" THEN v ELSE Moved(Advance(v, n, "downloading"), n)
    IN  /\ RunAt(s, n, "found")
        /\ srv' = [srv EXCEPT ![s] = At(told, n, pc)]
        /\ UNCHANGED <<machine, updCli, updScope>>

InstallFails(v, n) == At(EndRun(v, n, TRUE), n, "done")

\* Lock: waits for the one who holds it until the run ends.
UpdLocks(s, n) ==
    /\ RunAt(s, n, "lock")
    /\ \/ /\ machine.lock = "none"
          /\ srv' = [srv EXCEPT ![s] = At(srv[s], n, "install")]
          /\ machine' = [machine EXCEPT !.lock = s]
       \/ /\ srv[s].runs[n].over
          /\ srv' = [srv EXCEPT ![s] = InstallFails(srv[s], n)]
          /\ UNCHANGED machine
    /\ UNCHANGED <<updCli, updScope>>

\* Install, once it has the lock: a program known to be as new as the release
\* stays, unless forced; --version of the one on disk can fail.  The download
\* is verified and renamed into place.
Install(version, force) ==
    \E known \in BOOLEAN :
        /\ known \/ (Faults /\ ~force)
        /\ machine' = [Faulted(machine, ~known) EXCEPT
                         !.version = IF known /\ ~force /\ @ >= version THEN @ ELSE version, !.lock = "none", !.forced = @ \/ force]

\* A run that ends while it installs may have passed its last check of that.
UpdInstalls(s, n) ==
    LET v == srv[s]
    IN  /\ RunAt(s, n, "install")
        /\ \/ /\ srv' = [srv EXCEPT ![s] = At(v, n, "begin")]
              /\ Install(v.runs[n].install, FALSE)
           \/ /\ v.runs[n].over \/ Faults
              /\ srv' = [srv EXCEPT ![s] = InstallFails(v, n)]
              /\ machine' = [Faulted(machine, ~v.runs[n].over) EXCEPT !.lock = "none"]
        /\ UNCHANGED <<updCli, updScope>>

\* beginUpdateRestart, under s.mu.
Begun(v, n) ==
    IF Current(v, n) THEN Moved(At([Advance(v, n, "restarting") EXCEPT !.updating = TRUE], n, "restart"), n)
    ELSE Moved(At(v, n, "done"), n)

AgentIdle(v) == v.agent = "idle"
UpdBegins(s, n) ==
    LET v == srv[s]
        wait == ~v.runs[n].now /\ (v.restarting \/ ~AgentIdle(v))
    IN  /\ RunAt(s, n, "begin")
        /\ srv' = [srv EXCEPT ![s] = IF wait THEN At(v, n, IF v.runs[n].waiting THEN "waiting" ELSE "wait") ELSE Begun(v, n)]
        /\ UNCHANGED <<machine, updCli, updScope>>

\* awaitUpdateRestart: the state says it waits, once ...
UpdWaits(s, n) ==
    LET v == srv[s]
    IN  /\ RunAt(s, n, "wait")
        /\ srv' = [srv EXCEPT ![s] =
                     Moved(IF Current(v, n) THEN At([Advance(v, n, "waiting") EXCEPT !.runs[n].waiting = TRUE], n, "waiting")
                           ELSE At(v, n, "done"), n)]
        /\ UNCHANGED <<machine, updCli, updScope>>

\* ... until the run ends, is hurried, or the status changed, the
\* subscription it began with dropped included.
UpdWakes(s, n) ==
    LET v == srv[s]
    IN  /\ RunAt(s, n, "waiting")
        /\ \/ v.runs[n].over /\ srv' = [srv EXCEPT ![s] = At(v, n, "done")]
           \/ v.runs[n].now /\ srv' = [srv EXCEPT ![s] = At(v, n, "begin")]
           \/ v.runs[n].woken /\ srv' = [srv EXCEPT ![s] = At([v EXCEPT !.runs[n].woken = FALSE], n, "begin")]
        /\ UNCHANGED <<machine, updCli, updScope>>

\* Restart: selfExec.check ...
UpdChecks(s, n) ==
    LET runs == ~srv[s].runs[n].over /\ WouldStart(machine.version)
    IN  /\ RunAt(s, n, "restart")
        /\ srv' = [srv EXCEPT ![s] = IF runs THEN At([@ EXCEPT !.checked = machine.version], n, "checked") ELSE At(@, n, "failing")]
        /\ UNCHANGED <<machine, updCli, updScope>>

CanRestart(v, ended) == v.up = "serving" /\ ~ended

\* ... then restart, under selfExec.mu: the server stops to run again.
RestartInPlace(v, ended) ==
    IF CanRestart(v, ended) THEN [v EXCEPT !.requested = TRUE, !.up = "ending"] ELSE v

UpdRestarts(s, n) ==
    LET v == srv[s]
    IN  /\ RunAt(s, n, "checked")
        /\ srv' = [srv EXCEPT ![s] = At(RestartInPlace(v, v.runs[n].over), n,
                                        IF CanRestart(v, v.runs[n].over) THEN "done" ELSE "failing")]
        /\ UNCHANGED <<machine, updCli, updScope>>

\* A restart that failed lets messages through again, then ends the run.
UpdUnholds(s, n) ==
    /\ RunAt(s, n, "failing")
    /\ srv' = [srv EXCEPT ![s] = At([@ EXCEPT !.updating = FALSE], n, "failed")]
    /\ UNCHANGED <<machine, updCli, updScope>>
UpdFails(s, n) ==
    /\ RunAt(s, n, "failed")
    /\ srv' = [srv EXCEPT ![s] = At(EndRun(@, n, TRUE), n, "done")]
    /\ UNCHANGED <<machine, updCli, updScope>>

-----------------------------------------------------------------------------
(* The agent and the messages, as far as an update goes.  What the server    *)
(* does holds s.mu; every change of the status wakes the runs that wait.     *)

Woken(r) == [r EXCEPT !.woken = @ \/ r.pc \in {"begin", "wait", "waiting"}]
StatusChanged(v) == [v EXCEPT !.runs = [n \in DOMAIN v.runs |-> Woken(v.runs[n])]]
Sent(v) == StatusChanged([v EXCEPT !.agent = "busy", !.sent = @ + 1])

Up(s) == srv[s].up \in {"serving", "ending", "stopping"}

\* createMessage.
UpdMessage(s) ==
    LET v == srv[s]
        queued == v.restarting \/ v.updating \/ ~AgentIdle(v) \/ v.queue > 0
    IN  /\ srv[s].up \in {"serving", "ending"} /\ v.messages > 0
        /\ srv' = [srv EXCEPT ![s] = [IF queued THEN [v EXCEPT !.queue = @ + 1] ELSE Sent(v) EXCEPT !.messages = @ - 1]]
        /\ UNCHANGED <<machine, updCli, updScope>>

\* dispatchNextQueuedMessage; beforeQueue is TurnControl's.
UpdDispatch(s) ==
    LET v == srv[s]
    IN  /\ v.up \in {"serving", "ending"} /\ v.queue > 0 /\ AgentIdle(v) /\ ~v.restarting /\ ~HoldsQueue(v)
        /\ srv' = [srv EXCEPT ![s] = Sent([v EXCEPT !.queue = @ - 1])]
        /\ UNCHANGED <<machine, updCli, updScope>>

\* The agent's turn ends, asks, or begins without a message.
UpdAgent(s) ==
    LET v == srv[s]
    IN  /\ Up(s) /\ v.agent # "down"
        /\ \/ v.agent = "busy" /\ srv' = [srv EXCEPT ![s] = StatusChanged([v EXCEPT !.agent = "idle"])]
           \/ v.agent = "idle" /\ v.own > 0
              /\ srv' = [srv EXCEPT ![s] = StatusChanged([v EXCEPT !.agent = "busy", !.own = @ - 1])]
        /\ UNCHANGED <<machine, updCli, updScope>>

\* restartLocked, which forgets the queue, and what runs without s.mu.
UpdAgentRestarts(s) ==
    LET v == srv[s]
    IN  /\ Up(s)
        /\ \/ /\ v.up # "stopping" /\ v.restarts > 0 /\ ~v.restarting /\ ~v.updating
              /\ srv' = [srv EXCEPT ![s] = StatusChanged([v EXCEPT !.restarting = TRUE, !.agent = "down", !.queue = 0, !.restarts = @ - 1])]
           \/ /\ v.restarting
              /\ srv' = [srv EXCEPT ![s] = StatusChanged([v EXCEPT !.restarting = FALSE, !.agent = "idle"])]
        /\ UNCHANGED <<machine, updCli, updScope>>

\* sendInitialPrompt, once per program unless the one before carried that it
\* went out (markInitialPromptSent); there is no state database here.
UpdPrompts(s) ==
    LET v == srv[s]
    IN  /\ Up(s) /\ v.prompt = "due" /\ AgentIdle(v)
        /\ srv' = [srv EXCEPT ![s] = StatusChanged([v EXCEPT !.prompt = "sent", !.agent = "busy", !.prompted = @ + 1])]
        /\ UNCHANGED <<machine, updCli, updScope>>

-----------------------------------------------------------------------------
(* The server's process: the PID file, serving, stopping, running again.     *)

PidDead == machine.pid = "stale" \/ (machine.pid \in Servers /\ srv[machine.pid].up = "gone")

\* The server that created the PID file did not write it yet.
PidEmpty == machine.pid \in Servers /\ srv[machine.pid].up = "writing"

\* Removes the PID file, whoever's it is by now.  `raced': a server that runs,
\* other than but, loses its file.
PidRemoved(but) == [machine EXCEPT !.pid = "none", !.raced = @ \/ (machine.pid \in Servers \ {but} /\ ~PidDead)]

\* writePIDFile: create, then write; else read who holds it, else remove what
\* names no process that runs, and try again.
PidCreates(s) ==
    /\ srv[s].up = "boot" /\ srv[s].pid = "open"
    /\ \/ /\ machine.pid = "none"
          /\ machine' = [machine EXCEPT !.pid = s]
          /\ srv' = [srv EXCEPT ![s].up = "writing"]
       \/ /\ machine.pid # "none"
          /\ srv' = [srv EXCEPT ![s].pid = "read"]
          /\ UNCHANGED machine
    /\ UNCHANGED <<updCli, updScope>>
PidWrites(s) ==
    /\ srv[s].up = "writing"
    /\ \/ /\ srv' = [srv EXCEPT ![s].up = "starting"]
          /\ UNCHANGED machine
       \/ /\ Faults
          /\ srv' = [srv EXCEPT ![s] = [@ EXCEPT !.up = "gone", !.why = "failed"]]
          /\ machine' = Faulted(PidRemoved(s), TRUE)
    /\ UNCHANGED <<updCli, updScope>>
PidReads(s) ==
    /\ srv[s].up = "boot" /\ srv[s].pid = "read"
    /\ srv' = [srv EXCEPT ![s] =
         CASE machine.pid = "none" -> [@ EXCEPT !.pid = "open"]
           [] machine.pid = s -> [@ EXCEPT !.pid = "open", !.up = "starting"]
           [] PidEmpty \/ PidDead -> [@ EXCEPT !.pid = "remove"]
           [] OTHER -> [@ EXCEPT !.up = "gone", !.why = "refused"]]
    /\ UNCHANGED <<machine, updCli, updScope>>
PidRemoves(s) ==
    /\ srv[s].up = "boot" /\ srv[s].pid = "remove"
    /\ srv' = [srv EXCEPT ![s].pid = "open"]
    /\ machine' = PidRemoved(s)
    /\ UNCHANGED <<updCli, updScope>>

\* instanceRegistry: an entry per run of the program, while it listens.
Registered(v) == [v EXCEPT !.entry = v.id]
Unregistered(v) == [v EXCEPT !.entry = 0]

\* serve: armed, it listens and registers; a listener that fails stops it.
SrvServes(s) ==
    /\ srv[s].up = "starting"
    /\ \/ srv' = [srv EXCEPT ![s] = Registered([srv[s] EXCEPT !.up = "serving"])] /\ UNCHANGED machine
       \/ /\ Faults
          /\ srv' = [srv EXCEPT ![s] = [@ EXCEPT !.up = "ending", !.why = "failed"]]
          /\ machine' = Faulted(machine, TRUE)
    /\ UNCHANGED <<updCli, updScope>>

\* The context of a run ends.
RunOver(r) == [r EXCEPT !.over = TRUE]

\* Stop: the registry entry goes, then shutdownCtx ends every run.
SrvStops(s) ==
    LET v == srv[s]
    IN  /\ v.up = "ending"
        /\ srv' = [srv EXCEPT ![s] = [Unregistered(v) EXCEPT !.up = "stopping", !.runs = [n \in DOMAIN v.runs |-> RunOver(v.runs[n])]]]
        /\ UNCHANGED <<machine, updCli, updScope>>

\* The agent closed, and serve decides: errRestart, or the end.
SrvStopped(s) ==
    LET v == srv[s]
    IN  /\ v.up = "stopping"
        /\ srv' = [srv EXCEPT ![s] = [v EXCEPT !.agent = "down", !.restarting = FALSE,
                                                !.up = IF v.why = "" /\ v.requested THEN "exec" ELSE "exit"]]
        /\ UNCHANGED <<machine, updCli, updScope>>

\* cleanupPIDFile, only when the process ends.
SrvExits(s) ==
    /\ srv[s].up = "exit"
    /\ srv' = [srv EXCEPT ![s] = [srv[s] EXCEPT !.up = "gone", !.why = IF @ = "" THEN "exit" ELSE @]]
    /\ machine' = [machine EXCEPT !.pid = IF @ = s THEN "none" ELSE @, !.lock = IF @ = s THEN "none" ELSE @]
    /\ UNCHANGED <<updCli, updScope>>

\* execEnv: what the program that runs again is told of the initial prompt.
CarriesPrompt(v) == v.prompt = "due"

\* exec: the same process, the program on disk, the queue from the state
\* database.  The runs of the old program are gone, with the lock.
SrvExecs(s) ==
    LET v == srv[s]
        again == [v EXCEPT !.up = IF updScope.pid THEN "boot" ELSE "starting", !.id = @ + 1, !.version = machine.version,
                    !.state = "idle", !.target = 0, !.blocked = ~machine.writable, !.run = 0, !.runs = <<>>,
                    !.updating = FALSE, !.agent = "idle", !.requested = FALSE, !.usr2 = FALSE, !.sig = "free", !.term = FALSE,
                    !.prompt = IF v.prompt = "none" THEN "none" ELSE IF CarriesPrompt(v) THEN "due" ELSE "sent"]
    IN  /\ v.up = "exec"
        /\ srv' = [srv EXCEPT ![s] = IF WouldStart(machine.version) THEN again
                                     ELSE [v EXCEPT !.up = "gone", !.why = "unstartable", !.version = machine.version]]
        /\ machine' = [machine EXCEPT !.lock = IF @ = s THEN "none" ELSE @]
        /\ UNCHANGED <<updCli, updScope>>

SrvKilled(s) ==
    /\ updScope.kills /\ Alive(s)
    /\ srv' = [srv EXCEPT ![s] = [@ EXCEPT !.up = "gone", !.why = "killed"]]
    /\ machine' = [machine EXCEPT !.lock = IF @ = s THEN "none" ELSE @]
    /\ UNCHANGED <<updCli, updScope>>

-----------------------------------------------------------------------------
(* Signals.                                                                  *)

\* shutdown, under selfExec.mu.
Shutdown(v) == [v EXCEPT !.requested = FALSE, !.up = IF @ = "serving" THEN "ending" ELSE @]

\* SIGTERM: shutdown wins over a restart under way, until serve decided.
SrvTerm(s) ==
    /\ updScope.terms /\ ~srv[s].term /\ srv[s].up \in {"serving", "ending", "stopping"}
    /\ srv' = [srv EXCEPT ![s] = [Shutdown(@) EXCEPT !.term = TRUE]]
    /\ UNCHANGED <<machine, updCli, updScope>>

\* SIGUSR2 is caught from startup on, one at a time.
SrvUsr2(s) ==
    /\ updScope.usr2s > 0 /\ srv[s].signals < updScope.usr2s /\ Alive(s)
    /\ srv' = [srv EXCEPT ![s] = [srv[s] EXCEPT !.usr2 = TRUE, !.signals = @ + 1]]
    /\ UNCHANGED <<machine, updCli, updScope>>
SrvUsr2Checks(s) ==
    /\ srv[s].up = "serving" /\ srv[s].usr2 /\ srv[s].sig = "free"
    /\ srv' = [srv EXCEPT ![s] = IF WouldStart(machine.version)
                                 THEN [@ EXCEPT !.usr2 = FALSE, !.sig = "checked", !.checked = machine.version]
                                 ELSE [@ EXCEPT !.usr2 = FALSE]]
    /\ UNCHANGED <<machine, updCli, updScope>>
SrvUsr2Restarts(s) ==
    /\ Up(s) /\ srv[s].sig = "checked"
    /\ srv' = [srv EXCEPT ![s] = RestartInPlace([@ EXCEPT !.sig = "free"], FALSE)]
    /\ UNCHANGED <<machine, updCli, updScope>>

-----------------------------------------------------------------------------
(* agentapi update and agentapi restart.                                     *)

CliAt(pc) == updCli.pc = pc
CommandSays(s, said) == [updCli EXCEPT !.pc = "next", !.said[s] = said]

\* update: nothing to install unless the release is newer, or forced.
CliLatest ==
    /\ CliAt("latest")
    /\ \/ /\ Faults /\ updCli' = [updCli EXCEPT !.pc = "done"] /\ machine' = Faulted(machine, TRUE)
       \/ /\ updCli' = [updCli EXCEPT !.latest = machine.latest, !.pc =
                CASE machine.latest > updCli.mine \/ updCli.force -> "lock"
                  [] updCli.restart -> "select"
                  [] OTHER -> "done"]
          /\ UNCHANGED machine
    /\ UNCHANGED <<srv, updScope>>
CliLocks ==
    /\ CliAt("lock") /\ machine.lock = "none"
    /\ machine' = [machine EXCEPT !.lock = "cli"]
    /\ updCli' = [updCli EXCEPT !.pc = "install"]
    /\ UNCHANGED <<srv, updScope>>
CliInstalls ==
    /\ CliAt("install")
    /\ \/ /\ Install(updCli.latest, updCli.force)
          /\ updCli' = [updCli EXCEPT !.pc = IF updCli.restart THEN "select" ELSE "done"]
       \/ /\ Faults /\ machine' = [Faulted(machine, TRUE) EXCEPT !.lock = "none"]
          /\ updCli' = [updCli EXCEPT !.pc = "done"]
    /\ UNCHANGED <<srv, updScope>>

\* selectTargets: the entries of running servers (List drops the others),
\* the one the command runs under last.
Listed == {s \in Servers : srv[s].entry # 0 /\ Alive(s)}
CliSelects ==
    /\ CliAt("select")
    /\ \E order \in SetToSeqs(Listed) :
         /\ \A i \in DOMAIN order : order[i] = updScope.under => i = Len(order)
         /\ updCli' = [updCli EXCEPT !.pc = "next", !.targets = order, !.old = [s \in Servers |-> srv[s].entry]]
    /\ UNCHANGED <<srv, machine, updScope>>

\* restartOne: the signal, then awaitRestart.
CliSignals ==
    /\ CliAt("next")
    /\ \/ /\ updCli.targets = <<>>
          /\ updCli' = [updCli EXCEPT !.pc = "done"]
          /\ UNCHANGED srv
       \/ /\ updCli.targets # <<>>
          /\ LET s == Head(updCli.targets) IN
               /\ srv' = IF Alive(s) THEN [srv EXCEPT ![s].usr2 = TRUE] ELSE srv
               /\ updCli' = IF Alive(s) THEN [updCli EXCEPT !.pc = "await", !.targets = Tail(@), !.target = s]
                            ELSE [CommandSays(s, "exited") EXCEPT !.targets = Tail(@)]
    /\ UNCHANGED <<machine, updScope>>
CliAwaits ==
    LET s == updCli.target
    IN  /\ CliAt("await")
        /\ \/ ~Alive(s) /\ updCli' = CommandSays(s, "exited")
           \/ /\ srv[s].up = "serving" /\ srv[s].entry # updCli.old[s]
              /\ updCli' = CommandSays(s, "again")
           \/ /\ updScope.timeouts /\ Alive(s)
              /\ updCli' = CommandSays(s, IF srv[s].entry = updCli.old[s] THEN "as before" ELSE "late")
        /\ UNCHANGED <<srv, machine, updScope>>

\* The command ends with the agent of the server it runs under.
CliEnds ==
    /\ updCli.pc \in {"latest", "lock", "install", "select", "next", "await"}
    /\ updScope.under \in Servers /\ srv[updScope.under].agent = "down"
    /\ updCli' = [updCli EXCEPT !.pc = "done"]
    /\ machine' = [machine EXCEPT !.lock = IF @ = "cli" THEN "none" ELSE @]
    /\ UNCHANGED <<srv, updScope>>

-----------------------------------------------------------------------------
(* The world: releases, and who may write the program's directory.           *)

Published ==
    /\ machine.latest < updScope.releases
    /\ machine' = [machine EXCEPT !.latest = @ + 1]
    /\ UNCHANGED <<srv, updCli, updScope>>
Permitted ==
    /\ updScope.chmods /\ machine' = [machine EXCEPT !.writable = ~@]
    /\ UNCHANGED <<srv, updCli, updScope>>

NewSrv(sc) == [up |-> IF sc.pid THEN "boot" ELSE "starting", id |-> 1, version |-> sc.version, state |-> "idle", target |-> 0, blocked |-> FALSE,
               run |-> 0, runs |-> <<>>, updating |-> FALSE, restarting |-> FALSE, agent |-> "idle", queue |-> 0, sent |-> 0,
               requested |-> FALSE, usr2 |-> FALSE, sig |-> "free", term |-> FALSE, entry |-> 0, pid |-> "open", why |-> "",
               checked |-> 0, prompt |-> sc.prompt, prompted |-> 0, signals |-> 0, posts |-> sc.posts, deletes |-> sc.deletes,
               messages |-> sc.messages, own |-> sc.own, restarts |-> sc.restarts]

UpdInit ==
    /\ updScope \in UpdateScopes
    /\ srv = [s \in updScope.servers |-> NewSrv(updScope)]
    /\ \E pid \in IF updScope.pid THEN {"none", "stale"} ELSE {"none"} :
       machine = [version |-> updScope.disk, lock |-> "none", writable |-> TRUE, latest |-> updScope.latest, faults |-> updScope.faults,
                  pid |-> pid, raced |-> FALSE, forced |-> FALSE]
    /\ updCli = [pc |-> IF updScope.cli THEN "latest" ELSE "done", force |-> updScope.force, restart |-> TRUE, mine |-> updScope.disk, latest |-> 0,
                 targets |-> <<>>, target |-> "none", old |-> [s \in updScope.servers |-> 0], said |-> [s \in updScope.servers |-> ""]]

UpdRuns(s) == \E n \in RunsOf(s) :
    \/ UpdLatest(s, n) \/ UpdDisk(s, n) \/ UpdFound(s, n) \/ UpdLocks(s, n) \/ UpdInstalls(s, n) \/ UpdBegins(s, n)
    \/ UpdWaits(s, n) \/ UpdWakes(s, n) \/ UpdChecks(s, n) \/ UpdRestarts(s, n) \/ UpdUnholds(s, n) \/ UpdFails(s, n)
UpdNext ==
    \/ \E s \in Servers : UpdRuns(s)
    \/ \E s \in Servers, now \in BOOLEAN : UpdPost(s, now)
    \/ \E s \in Servers :
         \/ UpdDelete(s) \/ UpdTicks(s) \/ UpdMessage(s) \/ UpdDispatch(s) \/ UpdAgent(s) \/ UpdAgentRestarts(s) \/ UpdPrompts(s)
         \/ PidCreates(s) \/ PidWrites(s) \/ PidReads(s) \/ PidRemoves(s) \/ SrvServes(s) \/ SrvStops(s) \/ SrvStopped(s) \/ SrvExits(s) \/ SrvExecs(s)
         \/ SrvKilled(s) \/ SrvTerm(s) \/ SrvUsr2(s) \/ SrvUsr2Checks(s) \/ SrvUsr2Restarts(s)
    \/ CliLatest \/ CliLocks \/ CliInstalls \/ CliSelects \/ CliSignals \/ CliAwaits \/ CliEnds \/ Published \/ Permitted

UpdSpec == UpdInit /\ [][UpdNext]_updVars

-----------------------------------------------------------------------------
(* Properties.                                                               *)

\* The update's status is the one run's under way: it says an update runs
\* exactly while one does, a run that was cancelled never gets to restart
\* the server, messages are held for the new program only while the run
\* that holds them restarts it, and a run that is over has answered its
\* request (update.go: advance, end, beginUpdateRestart, deleteUpdate).
UpdateStatusAgrees ==
    \A s \in Servers : LET v == srv[s] IN
        /\ v.run # 0 <=> v.state \notin {"idle", "failed"}
        /\ v.updating => v.run # 0 /\ v.state = "restarting"
        /\ \A n \in DOMAIN v.runs :
             /\ v.runs[n].pc = "done" => v.runs[n].told # "none"
             /\ n # v.run => v.runs[n].over /\ v.runs[n].pc \notin {"restart", "checked", "failing", "failed"}
             /\ v.runs[n].pc \in {"restart", "checked"} => v.updating

\* An update that waits has not missed that the agent became idle, and it
\* is not held by what it holds itself (awaitUpdateRestart subscribes
\* first; runRestartLocked releases the lifecycle under s.mu).
UpdateIsWoken ==
    \A s \in Servers : \A n \in RunsOf(s) : LET r == srv[s].runs[n] IN
        Alive(s) /\ r.pc = "waiting" /\ AgentIdle(srv[s]) /\ ~srv[s].restarting => r.woken \/ r.now \/ r.over

\* A shutdown handled before the server decided to run again wins; the
\* server ends for a restart only if the program was replaced after it was
\* checked; the initial prompt goes out once over all restarts; the PID
\* file names the server that runs, unless one that started meanwhile
\* removed it, for what it had read there: no PID yet, or the one of a
\* process that is gone; the program's lock is held by someone who runs
\* (reexec.go: restart, shutdown, check, execEnv; server.go: writePIDFile).
RestartIsSafe ==
    /\ \A s \in Servers : LET v == srv[s] IN
        /\ v.up = "exec" => ~v.term
        /\ v.why = "unstartable" => v.version # v.checked
        /\ v.prompted <= 1
        /\ updScope.pid /\ v.up \in {"starting", "serving", "ending", "stopping", "exec"} => machine.pid = s \/ machine.raced
    /\ machine.lock \in Servers => Alive(machine.lock)

\* What agentapi restart says is so: a server that serves again is another
\* run of the same process (restart.go: awaitRestart).
RestartIsReported ==
    \A s \in Servers : updCli.said[s] = "again" => srv[s].id > updCli.old[s]

\* --version of the program on disk failed in this step.
VersionFails == machine'.faults < machine.faults

\* A step never sends the agent a message from when the update began to
\* restart the server until that failed, begins it under a working agent
\* or one that restarts unless asked to, or puts an older program in place
\* of a newer one, unless forced or as --version of the one in place fails
\* (beginUpdateRestart, Install).
UpdateStep ==
    /\ machine'.version < machine.version => machine'.forced \/ VersionFails
    /\ \A s \in Servers : LET v == srv[s] w == srv'[s] IN
        /\ v.updating => w.sent = v.sent
        /\ v.state # "restarting" /\ w.state = "restarting" /\ ~w.runs[w.run].now => v.agent = "idle" /\ ~v.restarting
UpdateIsCareful == [][UpdateStep]_updVars
=============================================================================
