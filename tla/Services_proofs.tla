-------------------------- MODULE Services_proofs --------------------------
(***************************************************************************)
(* What the services around the conversation promise, for every scope: the  *)
(* updates of AgentAPI, for every number of servers that share a program,   *)
(* of updates, messages, signals and releases; the terminal, for every size *)
(* of its scrollback; the uploads; and the human replies.                   *)
(*                                                                         *)
(* The properties of the updates need one another little: their inductive   *)
(* invariant is a conjunction of what holds of one server by itself         *)
(* (StatusHolds, WaitersHear, RestartHolds, EntryHolds) and of what relates *)
(* the servers and the command to the machine (MachineHolds, CommandHolds). *)
(***************************************************************************)
EXTENDS Updater, Terminal, Uploads, Handoff, FiniteSetTheorems, SequenceTheorems, WellFoundedInduction, TLAPS

-----------------------------------------------------------------------------
(* The updates.                                                            *)

Restarting == {"restart", "checked", "failing", "failed"}
Answered == {"lock", "install", "waiting", "done"} \cup Restarting
RunSteps == {"latest", "disk", "found", "begin", "wait"} \cup Answered

Runs == [pc : RunSteps, now : BOOLEAN, over : BOOLEAN, target : Nat, install : Nat,
         told : {"none", "moved", "cancelled", "error", "up to date"}, waiting : BOOLEAN, woken : BOOLEAN]

Ups == {"boot", "writing", "starting", "serving", "ending", "stopping", "exec", "exit", "gone"}
States == {"idle", "failed", "checking", "downloading", "waiting", "restarting"}
Agents == {"idle", "busy", "down"}
\* A server that is past the PID file, and one that has created it.
Ran == {"starting", "serving", "ending", "stopping", "exec"}
Owning == {"writing"} \cup Ran
Sigs == {"free", "checked"}
Pids == {"open", "read", "remove"}
Whys == {"", "failed", "exit", "refused", "unstartable", "killed"}
Prompts == {"none", "due", "sent"}

Srvs == [up : Ups, id : Nat, version : Nat, state : States, target : Nat, blocked : BOOLEAN, run : Nat, runs : Seq(Runs),
         updating : BOOLEAN, restarting : BOOLEAN, agent : Agents, queue : Nat, sent : Nat, requested : BOOLEAN, usr2 : BOOLEAN,
         sig : Sigs, term : BOOLEAN, entry : Nat, pid : Pids, why : Whys, checked : Nat, prompt : Prompts, prompted : Nat,
         signals : Nat, posts : Nat, deletes : Nat, messages : Nat, own : Nat, restarts : Nat]

\* The request is answered by the time the run installs, waits or ends.
HasTold(r) == r.pc \in Answered \/ r.waiting => r.told # "none"

\* The status is that of the run under way; only that run restarts the
\* server, and it holds the messages from there until it gives up.
StatusHolds(v) ==
    /\ v.run # 0 <=> v.state \notin {"idle", "failed"}
    /\ v.run # 0 => v.run \in DOMAIN v.runs
    /\ v.updating => v.run # 0 /\ v.state = "restarting" /\ v.runs[v.run].pc \in {"restart", "checked", "failing", "done"}
    /\ \A n \in DOMAIN v.runs :
         /\ HasTold(v.runs[n])
         /\ n # v.run => v.runs[n].over /\ v.runs[n].pc \notin Restarting
         /\ v.runs[n].pc \in Restarting => v.state = "restarting"
         /\ v.runs[n].pc \in {"restart", "checked"} => v.updating

\* A run that is about to wait, too, has seen an agent that works or hears
\* of the change.
WaitersHear(v) ==
    \A n \in DOMAIN v.runs :
        v.runs[n].pc \in {"wait", "waiting"} /\ v.agent = "idle" /\ ~v.restarting => v.runs[n].woken \/ v.runs[n].now \/ v.runs[n].over

\* A shutdown takes back the restart; who asks for a restart checked the
\* program.
RestartHolds(v) ==
    /\ v.term => v.up \in {"ending", "stopping", "exit", "gone"} /\ (v.up \in {"ending", "stopping"} => ~v.requested)
    /\ v.up = "exec" => v.requested /\ v.agent = "down" /\ ~v.restarting
    /\ v.sig = "checked" \/ v.requested \/ (\E n \in DOMAIN v.runs : v.runs[n].pc = "checked") => WouldStart(v.checked)
    /\ v.why = "unstartable" => v.up = "gone" /\ v.version # v.checked
    /\ v.prompted <= 1 /\ (v.prompt = "due" => v.prompted = 0)
    /\ v.up \in {"boot", "writing", "starting"} => v.runs = <<>>

EntryHolds(v) == v.entry <= v.id /\ (v.up = "serving" => v.entry = v.id)

SrvHolds(v) == v \in Srvs /\ StatusHolds(v) /\ WaitersHear(v) /\ RestartHolds(v) /\ EntryHolds(v)

Machines == [version : Nat, lock : {"none", "cli"} \cup Servers, writable : BOOLEAN, latest : Nat, faults : Nat,
             pid : {"none", "stale"} \cup Servers, raced : BOOLEAN, forced : BOOLEAN]

\* The lock is held by one that runs and got past the PID file, which names
\* the server that runs.
MachineHolds ==
    /\ machine \in Machines
    /\ \A s \in Servers :
         /\ machine.lock = s => srv[s].up \notin {"gone", "boot", "writing"}
         /\ updScope.pid /\ srv[s].up \in Owning => machine.pid = s \/ machine.raced

Commands == [pc : {"latest", "lock", "install", "select", "next", "await", "done"}, force : BOOLEAN, restart : BOOLEAN, mine : Nat,
             latest : Nat, targets : Seq(Servers), target : {"none"} \cup Servers, old : [Servers -> Nat],
             said : [Servers -> {"", "exited", "again", "as before", "late"}]]

\* The command says that a server serves again only after it noted the
\* entries, and those are no newer than the runs.
CommandHolds ==
    /\ updCli \in Commands
    /\ updCli.pc = "await" => updCli.target \in Servers
    /\ \A s \in Servers :
         /\ updCli.old[s] <= srv[s].id
         /\ updCli.said[s] = "again" => updCli.old[s] < srv[s].id /\ updCli.pc \in {"next", "await", "done"}

UpdIInv ==
    /\ updScope \in UpdateScopes
    /\ srv = [s \in Servers |-> srv[s]]
    /\ \A s \in Servers : SrvHolds(srv[s])
    /\ MachineHolds
    /\ CommandHolds

-----------------------------------------------------------------------------
(* What the updater's helpers change of a server.                           *)

\* Of an update only its run n is another, r.
RunPut(v, w, n, r) ==
    /\ w \in Srvs /\ r \in Runs /\ DOMAIN w.runs = DOMAIN v.runs /\ w.runs[n] = r
    /\ \A m \in DOMAIN v.runs : m # n => w.runs[m] = v.runs[m]

\* What the updater leaves alone but for a restart.
Life(v) == <<v.up, v.term, v.requested, v.sig, v.checked, v.why, v.version, v.prompt, v.prompted, v.id, v.entry>>
Agent(v) == <<v.agent, v.restarting, v.sent>>
SameLife(v, w) == Life(w) = Life(v) /\ Agent(w) = Agent(v)
SameStatus(v, w) == w.run = v.run /\ w.state = v.state /\ w.updating = v.updating
RunRest(r) == <<r.now, r.over, r.woken>>

\* The fields of a server that the proofs compare, by type.
LEMMA SrvFacts ==
    ASSUME NEW v \in Srvs
    PROVE  /\ v.run \in Nat /\ v.runs \in Seq(Runs) /\ v.updating \in BOOLEAN /\ v.restarting \in BOOLEAN
           /\ v.requested \in BOOLEAN /\ v.term \in BOOLEAN /\ v.id \in Nat /\ v.entry \in Nat /\ v.prompted \in Nat
           /\ v.checked \in Nat /\ v.version \in Nat
  BY DEF Srvs

\* The counters of a server, by type.
LEMMA CountFacts ==
    ASSUME NEW v \in Srvs
    PROVE  /\ v.queue \in Nat /\ v.sent \in Nat /\ v.signals \in Nat /\ v.posts \in Nat /\ v.deletes \in Nat
           /\ v.messages \in Nat /\ v.own \in Nat /\ v.restarts \in Nat
  BY DEF Srvs

\* An update of a server, by type; updates are numbered from 1.
LEMMA RunFacts ==
    ASSUME NEW v \in Srvs, NEW n \in DOMAIN v.runs
    PROVE  v.runs[n] \in Runs /\ n \in Nat /\ n # 0
  BY SrvFacts

\* Changing one update of a server changes nothing else of it.
LEMMA PutsRun ==
    ASSUME NEW v \in Srvs, NEW n \in DOMAIN v.runs, NEW r \in Runs, NEW w, w = [v EXCEPT !.runs = [v.runs EXCEPT ![n] = r]]
    PROVE  RunPut(v, w, n, r) /\ SameLife(v, w) /\ SameStatus(v, w)
<1> DEFINE rs == [v.runs EXCEPT ![n] = r]
<1>1. rs \in Seq(Runs) /\ DOMAIN rs = DOMAIN v.runs /\ rs[n] = r /\ \A m \in DOMAIN v.runs : m # n => rs[m] = v.runs[m]
  BY SrvFacts
<1> HIDE DEF rs
<1>2. w = [v EXCEPT !.runs = rs]
  BY DEF rs
<1>3. w.runs = rs
  BY <1>2 DEF Srvs
<1>4. w \in Srvs
  BY <1>1, <1>2, ZenonT(90) DEF Srvs
<1>5. SameStatus(v, w) /\ Agent(w) = Agent(v)
  BY <1>2 DEF Srvs, Agent, SameStatus
<1>6. Life(w) = Life(v)
  BY <1>2 DEF Srvs, Life
<1> QED
  BY <1>1, <1>3, <1>4, <1>5, <1>6 DEF RunPut, SameLife

\* Changing an update twice is changing it once.
LEMMA PutsTwice ==
    ASSUME NEW v, NEW w, NEW x, NEW n, NEW r, NEW q, RunPut(v, w, n, r), RunPut(w, x, n, q)
    PROVE  RunPut(v, x, n, q)
  BY DEF RunPut

\* Keeping what SameLife names is transitive.
LEMMA SameTwice ==
    ASSUME NEW v, NEW w, NEW x, SameLife(v, w), SameLife(w, x)
    PROVE  SameLife(v, x)
  BY DEF SameLife

\* What moving an update to another step changes.
LEMMA AtFacts ==
    ASSUME NEW v \in Srvs, NEW n \in DOMAIN v.runs, NEW pc \in RunSteps, NEW w, w = At(v, n, pc)
    PROVE  \E r \in Runs : /\ RunPut(v, w, n, r) /\ SameLife(v, w) /\ SameStatus(v, w)
                           /\ r.pc = pc /\ RunRest(r) = RunRest(v.runs[n]) /\ r.told = v.runs[n].told /\ r.waiting = v.runs[n].waiting
<1> DEFINE r == [v.runs[n] EXCEPT !.pc = pc]
<1>1. v.runs[n] \in Runs
  BY RunFacts
<1>2. r \in Runs /\ r.pc = pc /\ RunRest(r) = RunRest(v.runs[n]) /\ r.told = v.runs[n].told /\ r.waiting = v.runs[n].waiting
  BY <1>1 DEF Runs, RunRest
<1>3. w = [v EXCEPT !.runs = [v.runs EXCEPT ![n] = r]]
  BY DEF At
<1> HIDE DEF r
<1> QED
  BY <1>2, <1>3, PutsRun

\* What telling the waiter that another update took over changes.
LEMMA MovedFacts ==
    ASSUME NEW v \in Srvs, NEW n \in DOMAIN v.runs
    PROVE  \E r \in Runs :
             /\ RunPut(v, Moved(v, n), n, r) /\ SameLife(v, Moved(v, n)) /\ SameStatus(v, Moved(v, n))
             /\ r.pc = v.runs[n].pc /\ RunRest(r) = RunRest(v.runs[n]) /\ r.told # "none"
<1>1. v.runs[n] \in Runs
  BY RunFacts
<1>2. CASE v.runs[n].told # "none"
  <2>1. Moved(v, n) = v
    BY <1>2 DEF Moved
  <2> QED
    BY <1>1, <1>2, <2>1 DEF RunPut, SameLife, SameStatus
<1>3. CASE v.runs[n].told = "none"
  <2> DEFINE t == IF v.runs[n].over THEN "cancelled" ELSE "moved"
             r == [v.runs[n] EXCEPT !.told = t]
  <2>1. r \in Runs /\ r.pc = v.runs[n].pc /\ RunRest(r) = RunRest(v.runs[n]) /\ r.told # "none"
    BY <1>1 DEF Runs, RunRest
  <2>2. Moved(v, n) = [v EXCEPT !.runs = [v.runs EXCEPT ![n] = r]]
    BY <1>3 DEF Moved
  <2> HIDE DEF r
  <2> QED
    BY <2>1, <2>2, PutsRun
<1> QED
  BY <1>2, <1>3

\* advance changes the state of the run under way only.
LEMMA AdvanceFacts ==
    ASSUME NEW v \in Srvs, NEW n \in DOMAIN v.runs, NEW state \in States, v.run = n, NEW w, w = Advance(v, n, state)
    PROVE  w \in Srvs /\ SameLife(v, w) /\ w.runs = v.runs /\ w.run = v.run /\ w.state = state /\ w.updating = v.updating
<1>1. v.runs[n].target \in Nat
  BY RunFacts DEF Runs
<1> DEFINE t == v.runs[n].target
<1>2. w = [v EXCEPT !.state = state, !.target = t]
  BY DEF Advance, Current
<1>3. t \in Nat
  BY <1>1
<1> HIDE DEF t
<1>4. w \in Srvs
  BY <1>2, <1>3, ZenonT(90) DEF Srvs
<1>5. w.runs = v.runs /\ w.run = v.run /\ w.state = state /\ w.updating = v.updating /\ Agent(w) = Agent(v)
  BY <1>2 DEF Srvs, Agent
<1>6. Life(w) = Life(v)
  BY <1>2 DEF Srvs, Life
<1> QED
  BY <1>4, <1>5, <1>6 DEF SameLife

\* end: the run under way is over.
LEMMA OverFacts ==
    ASSUME NEW r \in Runs
    PROVE  RunOver(r) \in Runs /\ RunOver(r).over /\ RunOver(r).pc = r.pc /\ RunOver(r).told = r.told /\ RunOver(r).waiting = r.waiting
<1>1. RunOver(r) \in Runs /\ RunOver(r).over = TRUE
  BY Zenon DEF Runs, RunOver
<1>2. RunOver(r).pc = r.pc /\ RunOver(r).told = r.told /\ RunOver(r).waiting = r.waiting
  BY DEF Runs, RunOver
<1> QED
  BY <1>1, <1>2

\* What the end of the current update (endRun) changes.
LEMMA EndRunFacts ==
    ASSUME NEW v \in Srvs, NEW n \in DOMAIN v.runs, NEW failed, v.run = n, NEW w, w = EndRun(v, n, failed)
    PROVE  /\ RunPut(v, w, n, RunOver(v.runs[n])) /\ SameLife(v, w)
           /\ w.run = 0 /\ w.state \in {"idle", "failed"} /\ w.updating = v.updating
<1> DEFINE r == RunOver(v.runs[n])
           rs == [v.runs EXCEPT ![n] = r]
           st == IF failed THEN "failed" ELSE "idle"
           t == IF failed THEN v.target ELSE 0
<1>1. r \in Runs
  BY RunFacts, OverFacts
<1>2. w = [v EXCEPT !.run = 0, !.runs = rs, !.state = st, !.target = t]
  BY DEF EndRun, Current, RunOver
<1>3. v.target \in Nat
  BY DEF Srvs
<1>4. st \in States /\ st \in {"idle", "failed"} /\ t \in Nat /\ 0 \in Nat
  BY <1>3 DEF States
<1> HIDE DEF r, st, t
<1>5. rs \in Seq(Runs) /\ DOMAIN rs = DOMAIN v.runs /\ rs[n] = r /\ \A m \in DOMAIN v.runs : m # n => rs[m] = v.runs[m]
  BY <1>1, SrvFacts
<1> HIDE DEF rs
<1>6. w \in Srvs
  BY <1>2, <1>4, <1>5, ZenonT(90) DEF Srvs
<1>7. w.runs = rs /\ w.run = 0 /\ w.state = st /\ w.updating = v.updating /\ Agent(w) = Agent(v)
  BY <1>2 DEF Srvs, Agent
<1>8. Life(w) = Life(v)
  BY <1>2 DEF Srvs, Life
<1> QED
  BY <1>1, <1>4, <1>5, <1>6, <1>7, <1>8 DEF RunPut, SameLife, r

-----------------------------------------------------------------------------
(* A step of one run keeps what holds of its server.                        *)

\* The run goes on and the status stays.
LEMMA StatusStays ==
    ASSUME NEW v \in Srvs, StatusHolds(v), NEW n \in DOMAIN v.runs, NEW w, NEW r, RunPut(v, w, n, r), SameStatus(v, w),
           HasTold(r), v.runs[n].over => r.over,
           r.pc \in Restarting => v.runs[n].pc \in Restarting,
           r.pc \in {"restart", "checked"} => v.runs[n].pc \in {"restart", "checked"},
           v.runs[n].pc \in {"restart", "checked", "failing", "done"} => r.pc \in {"restart", "checked", "failing", "done"}
    PROVE  StatusHolds(w)
<1>1. \A m \in DOMAIN w.runs : /\ HasTold(w.runs[m])
                               /\ m # w.run => w.runs[m].over /\ w.runs[m].pc \notin Restarting
                               /\ w.runs[m].pc \in Restarting => w.state = "restarting"
                               /\ w.runs[m].pc \in {"restart", "checked"} => w.updating
  <2> SUFFICES ASSUME NEW m \in DOMAIN w.runs
               PROVE  /\ HasTold(w.runs[m])
                      /\ m # w.run => w.runs[m].over /\ w.runs[m].pc \notin Restarting
                      /\ w.runs[m].pc \in Restarting => w.state = "restarting"
                      /\ w.runs[m].pc \in {"restart", "checked"} => w.updating
    OBVIOUS
  <2>1. CASE m = n
    BY <2>1 DEF StatusHolds, RunPut, SameStatus
  <2>2. CASE m # n
    BY <2>2 DEF StatusHolds, RunPut, SameStatus
  <2> QED
    BY <2>1, <2>2
<1>2. w.updating => w.runs[w.run].pc \in {"restart", "checked", "failing", "done"}
  BY DEF StatusHolds, RunPut, SameStatus
<1> QED
  BY <1>1, <1>2 DEF StatusHolds, RunPut, SameStatus

\* The run under way ends.
LEMMA StatusEnds ==
    ASSUME NEW v \in Srvs, StatusHolds(v), NEW n \in DOMAIN v.runs, n = v.run, NEW w, NEW r, RunPut(v, w, n, r),
           w.run = 0, w.state \in {"idle", "failed"}, w.updating = v.updating, ~v.updating, r.over, r.pc = "done", r.told # "none"
    PROVE  StatusHolds(w)
<1>1. ASSUME NEW m \in DOMAIN w.runs
      PROVE  /\ HasTold(w.runs[m])
             /\ w.runs[m].over /\ w.runs[m].pc \notin Restarting
             /\ w.runs[m].pc \notin {"restart", "checked"}
  <2>1. CASE m = n
    BY <2>1 DEF RunPut, Restarting, HasTold
  <2>2. CASE m # n
    BY <2>2 DEF StatusHolds, RunPut, Restarting
  <2> QED
    BY <2>1, <2>2
<1> QED
  BY <1>1 DEF StatusHolds

\* The run under way moves the status on.
LEMMA StatusAdvances ==
    ASSUME NEW v \in Srvs, StatusHolds(v), NEW n \in DOMAIN v.runs, n = v.run, NEW w, NEW r, RunPut(v, w, n, r),
           w.run = v.run, w.state \notin {"idle", "failed"}, v.runs[n].pc \notin Restarting, r.told # "none",
           \/ w.updating = v.updating /\ ~v.updating /\ r.pc \notin Restarting
           \/ w.updating /\ w.state = "restarting" /\ r.pc = "restart"
    PROVE  StatusHolds(w)
<1>1. n \in Nat /\ n # 0
  BY RunFacts
<1>2. ASSUME NEW m \in DOMAIN w.runs
      PROVE  /\ HasTold(w.runs[m])
             /\ m # w.run => w.runs[m].over /\ w.runs[m].pc \notin Restarting
             /\ w.runs[m].pc \in Restarting => w.state = "restarting"
             /\ w.runs[m].pc \in {"restart", "checked"} => w.updating
  <2>1. CASE m = n
    BY <2>1 DEF RunPut, Restarting, HasTold
  <2>2. CASE m # n
    BY <2>2 DEF StatusHolds, RunPut, Restarting
  <2> QED
    BY <2>1, <2>2
<1>3. w.updating => w.run # 0 /\ w.state = "restarting" /\ w.runs[w.run].pc \in {"restart", "checked", "failing", "done"}
  BY <1>1 DEF RunPut
<1> QED
  BY <1>1, <1>2, <1>3 DEF StatusHolds, RunPut

\* What else holds of the server, when the run does not restart it.
LEMMA RunHolds ==
    ASSUME NEW v, SrvHolds(v), NEW n \in DOMAIN v.runs, NEW w, NEW r, RunPut(v, w, n, r), SameLife(v, w), StatusHolds(w),
           r.pc \in {"wait", "waiting"} /\ v.agent = "idle" /\ ~v.restarting => r.woken \/ r.now \/ r.over,
           r.pc = "checked" => WouldStart(v.checked)
    PROVE  SrvHolds(w)
<1>1. v \in Srvs /\ WaitersHear(v) /\ RestartHolds(v) /\ EntryHolds(v) /\ v.runs # << >>
  BY DEF SrvHolds
<1>2. WaitersHear(w)
  <2> SUFFICES ASSUME NEW m \in DOMAIN w.runs, w.runs[m].pc \in {"wait", "waiting"}, w.agent = "idle", ~w.restarting
               PROVE  w.runs[m].woken \/ w.runs[m].now \/ w.runs[m].over
    BY DEF WaitersHear
  <2>1. v.agent = "idle" /\ ~v.restarting
    BY DEF SameLife, Agent
  <2>2. CASE m = n
    BY <2>1, <2>2 DEF RunPut
  <2>3. CASE m # n
    BY <1>1, <2>1, <2>3 DEF RunPut, WaitersHear
  <2> QED
    BY <2>2, <2>3
<1>3. /\ w.up = v.up /\ w.term = v.term /\ w.requested = v.requested /\ w.sig = v.sig /\ w.checked = v.checked
      /\ w.why = v.why /\ w.version = v.version /\ w.prompt = v.prompt /\ w.prompted = v.prompted /\ w.id = v.id /\ w.entry = v.entry
      /\ w.agent = v.agent /\ w.restarting = v.restarting
  BY DEF SameLife, Life, Agent
<1>4. (\E m \in DOMAIN w.runs : w.runs[m].pc = "checked") => WouldStart(v.checked)
  BY <1>1 DEF RunPut, RestartHolds
<1>5. RestartHolds(w)
  BY <1>1, <1>3, <1>4 DEF RestartHolds
<1>6. EntryHolds(w)
  BY <1>1, <1>3 DEF EntryHolds
<1> QED
  BY <1>2, <1>5, <1>6 DEF SrvHolds, RunPut

-----------------------------------------------------------------------------
(* The steps of runUpdate.                                                  *)

\* What a step of the server may not do to the agent's work.
Careful(v, w) ==
    /\ v.updating => w.sent = v.sent
    /\ v.state # "restarting" /\ w.state = "restarting" /\ ~w.runs[w.run].now => v.agent = "idle" /\ ~v.restarting

Steps(v, w) == SrvHolds(w) /\ Careful(v, w)

\* What answering the request of an update changes.
LEMMA ToldFacts ==
    ASSUME NEW v \in Srvs, NEW n \in DOMAIN v.runs, NEW t \in {"moved", "cancelled", "error", "up to date"}, NEW w,
           w = [v EXCEPT !.runs[n].told = t]
    PROVE  \E r \in Runs : /\ RunPut(v, w, n, r) /\ SameLife(v, w) /\ SameStatus(v, w)
                           /\ r.pc = v.runs[n].pc /\ RunRest(r) = RunRest(v.runs[n]) /\ r.told # "none"
<1> DEFINE r == [v.runs[n] EXCEPT !.told = t]
<1>1. v.runs[n] \in Runs
  BY RunFacts
<1>2. r \in Runs /\ r.pc = v.runs[n].pc /\ RunRest(r) = RunRest(v.runs[n]) /\ r.told # "none"
  BY <1>1 DEF Runs, RunRest
<1>3. w = [v EXCEPT !.runs = [v.runs EXCEPT ![n] = r]]
  OBVIOUS
<1> HIDE DEF r
<1> QED
  BY <1>2, <1>3, PutsRun

\* A run that goes on to pc, whatever its request was told meanwhile.
LEMMA GoesOn ==
    ASSUME NEW v, SrvHolds(v), NEW n \in DOMAIN v.runs, v.runs[n].pc \notin Restarting, v.runs[n].pc # "done",
           NEW w, NEW r, RunPut(v, w, n, r), SameLife(v, w), SameStatus(v, w), RunRest(r) = RunRest(v.runs[n]),
           r.pc \notin Restarting, HasTold(r),
           r.pc \in {"wait", "waiting"} => v.runs[n].pc = "wait" \/ v.restarting \/ v.agent # "idle"
    PROVE  Steps(v, w)
<1>1. v \in Srvs /\ StatusHolds(v) /\ WaitersHear(v)
  BY DEF SrvHolds
<1>2. r.over = v.runs[n].over /\ r.woken = v.runs[n].woken /\ r.now = v.runs[n].now
  BY DEF RunRest
<1>3. StatusHolds(w)
  BY <1>1, <1>2, StatusStays DEF Restarting
<1>4. r.pc \in {"wait", "waiting"} /\ v.agent = "idle" /\ ~v.restarting => r.woken \/ r.now \/ r.over
  BY <1>1, <1>2 DEF WaitersHear
<1>5. r.pc # "checked"
  BY DEF Restarting
<1>6. SrvHolds(w)
  BY <1>3, <1>4, <1>5, RunHolds
<1> QED
  BY <1>6 DEF Steps, Careful, SameLife, SameStatus, Agent

\* An update that moves on without restarting keeps its server's invariant.
LEMMA RunGoes ==
    ASSUME NEW v, SrvHolds(v), NEW n \in DOMAIN v.runs, v.runs[n].pc \notin Restarting, v.runs[n].pc # "done",
           NEW pc \in RunSteps, pc \notin Restarting, pc \in Answered => v.runs[n].told # "none",
           pc \in {"wait", "waiting"} => v.runs[n].pc = "wait" \/ v.restarting \/ v.agent # "idle"
    PROVE  Steps(v, At(v, n, pc)) /\ SameLife(v, At(v, n, pc))
<1>1. v \in Srvs
  BY DEF SrvHolds
<1>2. PICK r \in Runs : /\ RunPut(v, At(v, n, pc), n, r) /\ SameLife(v, At(v, n, pc)) /\ SameStatus(v, At(v, n, pc))
                        /\ r.pc = pc /\ RunRest(r) = RunRest(v.runs[n]) /\ r.told = v.runs[n].told /\ r.waiting = v.runs[n].waiting
  BY <1>1, AtFacts
<1>3. HasTold(r)
  BY <1>2 DEF SrvHolds, StatusHolds, HasTold
<1> QED
  BY <1>2, <1>3, GoesOn

\* A run that is not under way ends quietly.
LEMMA RunEnds ==
    ASSUME NEW v, SrvHolds(v), NEW n \in DOMAIN v.runs, v.run = n, v.runs[n].pc \notin {"restart", "checked", "failing", "done"},
           NEW w, NEW r, RunPut(v, w, n, r), SameLife(v, w), w.run = 0, w.state \in {"idle", "failed"}, w.updating = v.updating,
           r.over, r.pc = "done", r.told # "none"
    PROVE  Steps(v, w)
<1>1. v \in Srvs /\ StatusHolds(v)
  BY DEF SrvHolds
<1>2. v.updating \in BOOLEAN /\ ~v.updating
  BY <1>1, SrvFacts DEF StatusHolds
<1>3. StatusHolds(w)
  BY <1>1, <1>2, StatusEnds
<1>4. SrvHolds(w)
  BY <1>3, RunHolds
<1> QED
  BY <1>2, <1>4 DEF Steps, Careful

\* An update that ends at its check keeps it.
LEMMA CheckEndsHolds ==
    ASSUME NEW v, SrvHolds(v), NEW n \in DOMAIN v.runs, v.runs[n].pc \in {"latest", "disk"}, NEW failed,
           NEW told \in {"error", "up to date"}, NEW w, w = CheckEnds(v, n, failed, told)
    PROVE  Steps(v, w) /\ SameLife(v, w)
<1>1. v \in Srvs
  BY DEF SrvHolds
<1> DEFINE t == IF v.runs[n].over THEN "cancelled" ELSE told
           e == EndRun(v, n, failed)
           f == [e EXCEPT !.runs[n].told = t]
           g == At(f, n, "done")
<1>2. t \in {"moved", "cancelled", "error", "up to date"}
  OBVIOUS
<1>3. w = g
  BY DEF CheckEnds
<1>4. CASE v.run = n
  <2> DEFINE q == RunOver(v.runs[n])
  <2>1. RunPut(v, e, n, q) /\ SameLife(v, e) /\ e.run = 0 /\ e.state \in {"idle", "failed"} /\ e.updating = v.updating
    BY <1>1, <1>4, EndRunFacts
  <2>9. q.over
    BY <1>1, RunFacts, OverFacts
  <2> HIDE DEF e, t, q
  <2>2. e \in Srvs /\ n \in DOMAIN e.runs
    BY <2>1 DEF RunPut
  <2>3. PICK p \in Runs : /\ RunPut(e, f, n, p) /\ SameLife(e, f) /\ SameStatus(e, f)
                          /\ p.pc = e.runs[n].pc /\ RunRest(p) = RunRest(e.runs[n]) /\ p.told # "none"
    BY <1>2, <2>2, ToldFacts
  <2> HIDE DEF f
  <2>4. f \in Srvs /\ n \in DOMAIN f.runs /\ "done" \in RunSteps
    BY <2>2, <2>3 DEF RunPut, RunSteps, Answered
  <2>5. PICK r \in Runs :
        /\ RunPut(f, g, n, r) /\ SameLife(f, g) /\ SameStatus(f, g)
        /\ r.pc = "done" /\ RunRest(r) = RunRest(f.runs[n]) /\ r.told = f.runs[n].told /\ r.waiting = f.runs[n].waiting
    BY <2>4, AtFacts
  <2> HIDE DEF g
  <2>6. r.over /\ r.told # "none"
    BY <2>1, <2>3, <2>5, <2>9 DEF RunPut, RunRest
  <2>7. RunPut(v, g, n, r) /\ SameLife(v, g)
    BY <2>1, <2>3, <2>5, PutsTwice, SameTwice
  <2>8. g.run = 0 /\ g.state \in {"idle", "failed"} /\ g.updating = v.updating
    BY <2>1, <2>3, <2>5 DEF SameStatus
  <2> QED
    BY <1>3, <1>4, <2>5, <2>6, <2>7, <2>8, RunEnds
<1>5. CASE v.run # n
  <2>1. e = v
    BY <1>5 DEF EndRun, Current
  <2> HIDE DEF e, t
  <2>2. PICK p \in Runs : /\ RunPut(v, f, n, p) /\ SameLife(v, f) /\ SameStatus(v, f)
                          /\ p.pc = v.runs[n].pc /\ RunRest(p) = RunRest(v.runs[n]) /\ p.told # "none"
    BY <1>1, <1>2, <2>1, ToldFacts
  <2> HIDE DEF f
  <2>3. f \in Srvs /\ n \in DOMAIN f.runs /\ "done" \in RunSteps
    BY <2>2 DEF RunPut, RunSteps, Answered
  <2>4. PICK r \in Runs :
        /\ RunPut(f, g, n, r) /\ SameLife(f, g) /\ SameStatus(f, g)
        /\ r.pc = "done" /\ RunRest(r) = RunRest(f.runs[n]) /\ r.told = f.runs[n].told /\ r.waiting = f.runs[n].waiting
    BY <2>3, AtFacts
  <2> HIDE DEF g
  <2>5. RunPut(v, g, n, r) /\ SameLife(v, g) /\ SameStatus(v, g) /\ RunRest(r) = RunRest(v.runs[n]) /\ r.told # "none"
    <3>1. RunPut(v, g, n, r) /\ SameLife(v, g)
      BY <2>2, <2>4, PutsTwice, SameTwice
    <3>2. SameStatus(v, g)
      BY <2>2, <2>4 DEF SameStatus
    <3>3. f.runs[n] = p
      BY <2>2 DEF RunPut
    <3> QED
      BY <2>2, <2>4, <3>1, <3>2, <3>3
  <2>6. v.runs[n].pc \notin Restarting /\ v.runs[n].pc # "done" /\ "done" \notin Restarting
    BY DEF Restarting
  <2>7. HasTold(r)
    BY <2>5 DEF HasTold
  <2> QED
    BY <1>3, <2>4, <2>5, <2>6, <2>7, GoesOn
<1> QED
  BY <1>4, <1>5

\* As RunGoes, of a run that was changed otherwise too.
LEMMA GoesAfter ==
    ASSUME NEW v, SrvHolds(v), NEW n \in DOMAIN v.runs, v.runs[n].pc \notin Restarting, v.runs[n].pc # "done",
           NEW f, NEW q, RunPut(v, f, n, q), SameLife(v, f), SameStatus(v, f), RunRest(q) = RunRest(v.runs[n]),
           NEW pc \in RunSteps, pc \notin Restarting, pc \in Answered \/ q.waiting => q.told # "none",
           pc \notin {"wait", "waiting"}
    PROVE  Steps(v, At(f, n, pc)) /\ SameLife(v, At(f, n, pc))
<1> DEFINE g == At(f, n, pc)
<1>1. f \in Srvs /\ n \in DOMAIN f.runs /\ f.runs[n] = q
  BY DEF RunPut
<1>2. PICK r \in Runs : /\ RunPut(f, g, n, r) /\ SameLife(f, g) /\ SameStatus(f, g)
                        /\ r.pc = pc /\ RunRest(r) = RunRest(f.runs[n]) /\ r.told = f.runs[n].told /\ r.waiting = f.runs[n].waiting
  BY <1>1, AtFacts
<1> HIDE DEF g
<1>3. RunPut(v, g, n, r) /\ SameLife(v, g)
  BY <1>2, PutsTwice, SameTwice
<1>4. SameStatus(v, g)
  BY <1>2 DEF SameStatus
<1>5. Steps(v, g)
  <2>1. HasTold(r)
    BY <1>1, <1>2 DEF HasTold
  <2> QED
    BY <1>1, <1>2, <1>3, <1>4, <2>1, GoesOn
<1> QED
  BY <1>3, <1>5 DEF g

\* The run under way moves the state on, short of the restart.
LEMMA GoesAhead ==
    ASSUME NEW v, SrvHolds(v), NEW n \in DOMAIN v.runs, v.run = n, v.runs[n].pc \in {"found", "wait"},
           NEW w, NEW r, RunPut(v, w, n, r), SameLife(v, w), w.run = v.run, w.state \in {"downloading", "waiting"},
           w.updating = v.updating, RunRest(r) = RunRest(v.runs[n]), r.told # "none",
           r.pc \notin Restarting, r.pc \in {"wait", "waiting"} => v.runs[n].pc = "wait"
    PROVE  Steps(v, w)
<1>1. v \in Srvs /\ StatusHolds(v) /\ WaitersHear(v)
  BY DEF SrvHolds
<1>2. v.updating \in BOOLEAN /\ ~v.updating
  BY <1>1, SrvFacts DEF StatusHolds
<1>3. StatusHolds(w)
  BY <1>1, <1>2, StatusAdvances DEF Restarting
<1>4. r.over = v.runs[n].over /\ r.woken = v.runs[n].woken /\ r.now = v.runs[n].now
  BY DEF RunRest
<1>5. r.pc \in {"wait", "waiting"} /\ v.agent = "idle" /\ ~v.restarting => r.woken \/ r.now \/ r.over
  BY <1>1, <1>4 DEF WaitersHear
<1>6. r.pc # "checked"
  BY DEF Restarting
<1>7. SrvHolds(w)
  BY <1>3, <1>5, <1>6, RunHolds
<1> QED
  BY <1>2, <1>7 DEF Steps, Careful

RunStepped(s) == \E w : Steps(srv[s], w) /\ SameLife(srv[s], w) /\ srv' = [srv EXCEPT ![s] = w]

\* Asking for the latest release keeps it.
LEMMA LatestSteps ==
    ASSUME NEW s \in Servers, SrvHolds(srv[s]), NEW n \in RunsOf(s), machine.latest \in Nat, UpdLatest(s, n)
    PROVE  RunStepped(s)
<1> DEFINE v == srv[s]
<1>1. v.runs[n].pc = "latest" /\ n \in DOMAIN v.runs /\ v \in Srvs
  BY DEF UpdLatest, RunAt, RunsOf, SrvHolds
<1>2. CASE srv' = [srv EXCEPT ![s] = CheckEnds(v, n, TRUE, "error")]
  BY <1>1, <1>2, CheckEndsHolds DEF RunStepped
<1>3. CASE srv' = [srv EXCEPT ![s] = At([v EXCEPT !.runs[n].install = machine.latest], n, "disk")]
  <2> DEFINE q == [v.runs[n] EXCEPT !.install = machine.latest]
             f == [v EXCEPT !.runs[n].install = machine.latest]
  <2>1. v.runs[n] \in Runs
    BY <1>1, RunFacts
  <2>2. q \in Runs /\ RunRest(q) = RunRest(v.runs[n]) /\ q.waiting = v.runs[n].waiting /\ q.told = v.runs[n].told
    BY <2>1 DEF Runs, RunRest
  <2>7. q.waiting => q.told # "none"
    BY <1>1, <2>2 DEF SrvHolds, StatusHolds, HasTold
  <2>3. f = [v EXCEPT !.runs = [v.runs EXCEPT ![n] = q]]
    OBVIOUS
  <2> HIDE DEF q, f, v
  <2>4. RunPut(v, f, n, q) /\ SameLife(v, f) /\ SameStatus(v, f)
    BY <1>1, <2>2, <2>3, PutsRun
  <2>5. "disk" \in RunSteps /\ "disk" \notin Restarting /\ "disk" \notin Answered /\ "latest" \notin Restarting
    BY DEF RunSteps, Answered, Restarting
  <2>6. Steps(v, At(f, n, "disk")) /\ SameLife(v, At(f, n, "disk"))
    BY <1>1, <2>2, <2>4, <2>5, <2>7, GoesAfter DEF v
  <2> QED
    BY <1>3, <2>6 DEF RunStepped, f, v
<1> QED
  BY <1>2, <1>3 DEF UpdLatest

\* Comparing with the program on disk keeps it.
LEMMA DiskSteps ==
    ASSUME NEW s \in Servers, SrvHolds(srv[s]), NEW n \in RunsOf(s), machine.version \in Nat, UpdDisk(s, n)
    PROVE  RunStepped(s)
<1>0. PICK known \in BOOLEAN :
        LET v == srv[s]
            found == Found(v, n, known /\ machine.version >= v.runs[n].install)
        IN  /\ RunAt(s, n, "disk")
            /\ srv' = [srv EXCEPT ![s] = IF found.runs[n].target <= v.version THEN CheckEnds(v, n, FALSE, "up to date")
                                         ELSE At(found, n, "found")]
  BY DEF UpdDisk
<1> DEFINE v == srv[s]
           latest == v.runs[n].install
           have == known /\ machine.version >= latest
           target == IF have THEN machine.version ELSE latest
           install == IF have THEN 0 ELSE latest
           f == [v EXCEPT !.runs[n].target = target, !.runs[n].install = install]
<1>1. v.runs[n].pc = "disk" /\ n \in DOMAIN v.runs /\ v \in Srvs
  BY <1>0 DEF RunAt, RunsOf, SrvHolds
<1>2. srv' = [srv EXCEPT ![s] = CheckEnds(v, n, FALSE, "up to date")] \/ srv' = [srv EXCEPT ![s] = At(f, n, "found")]
  BY <1>0 DEF Found
<1>3. CASE srv' = [srv EXCEPT ![s] = CheckEnds(v, n, FALSE, "up to date")]
  BY <1>1, <1>3, CheckEndsHolds DEF RunStepped
<1>4. CASE srv' = [srv EXCEPT ![s] = At(f, n, "found")]
  <2>1. v.runs[n] \in Runs
    BY <1>1, RunFacts
  <2>2. target \in Nat /\ install \in Nat
    BY <2>1 DEF Runs
  <2> HIDE DEF target, install
  <2> DEFINE q == [v.runs[n] EXCEPT !.target = target, !.install = install]
  <2>3. q \in Runs /\ RunRest(q) = RunRest(v.runs[n]) /\ q.waiting = v.runs[n].waiting /\ q.told = v.runs[n].told
    BY <2>1, <2>2 DEF Runs, RunRest
  <2>8. q.waiting => q.told # "none"
    BY <1>1, <2>3 DEF SrvHolds, StatusHolds, HasTold
  <2>4. f = [v EXCEPT !.runs = [v.runs EXCEPT ![n] = q]]
    BY <1>1, SrvFacts DEF Srvs
  <2> HIDE DEF q, f, v
  <2>5. RunPut(v, f, n, q) /\ SameLife(v, f) /\ SameStatus(v, f)
    BY <1>1, <2>3, <2>4, PutsRun
  <2>6. "found" \in RunSteps /\ "found" \notin Restarting /\ "found" \notin Answered /\ "disk" \notin Restarting
    BY DEF RunSteps, Answered, Restarting
  <2>7. Steps(v, At(f, n, "found")) /\ SameLife(v, At(f, n, "found"))
    BY <1>1, <2>3, <2>5, <2>6, <2>8, GoesAfter DEF v
  <2> QED
    BY <1>4, <2>7 DEF RunStepped, v
<1> QED
  BY <1>2, <1>3, <1>4

\* moved, then the next step.
LEMMA MovedGoes ==
    ASSUME NEW v \in Srvs, NEW n \in DOMAIN v.runs, NEW pc \in RunSteps, NEW w, w = At(Moved(v, n), n, pc)
    PROVE  \E r \in Runs : /\ RunPut(v, w, n, r) /\ SameLife(v, w) /\ SameStatus(v, w)
                           /\ r.pc = pc /\ RunRest(r) = RunRest(v.runs[n]) /\ r.told # "none"
<1> DEFINE m == Moved(v, n)
<1>1. PICK q \in Runs : /\ RunPut(v, m, n, q) /\ SameLife(v, m) /\ SameStatus(v, m)
                        /\ q.pc = v.runs[n].pc /\ RunRest(q) = RunRest(v.runs[n]) /\ q.told # "none"
  BY MovedFacts
<1> HIDE DEF m
<1>2. m \in Srvs /\ n \in DOMAIN m.runs /\ m.runs[n] = q
  BY <1>1 DEF RunPut
<1>3. PICK r \in Runs : /\ RunPut(m, w, n, r) /\ SameLife(m, w) /\ SameStatus(m, w)
                        /\ r.pc = pc /\ RunRest(r) = RunRest(m.runs[n]) /\ r.told = m.runs[n].told
  BY <1>2, AtFacts DEF m
<1>4. RunPut(v, w, n, r) /\ SameLife(v, w)
  BY <1>1, <1>3, PutsTwice, SameTwice
<1>5. SameStatus(v, w)
  BY <1>1, <1>3 DEF SameStatus
<1> QED
  BY <1>1, <1>2, <1>3, <1>4, <1>5

\* The same the other way round.
LEMMA GoesMoved ==
    ASSUME NEW v \in Srvs, NEW n \in DOMAIN v.runs, NEW pc \in RunSteps, NEW w, w = Moved(At(v, n, pc), n)
    PROVE  \E r \in Runs : /\ RunPut(v, w, n, r) /\ SameLife(v, w) /\ SameStatus(v, w)
                           /\ r.pc = pc /\ RunRest(r) = RunRest(v.runs[n]) /\ r.told # "none"
<1> DEFINE m == At(v, n, pc)
<1>1. PICK q \in Runs : /\ RunPut(v, m, n, q) /\ SameLife(v, m) /\ SameStatus(v, m)
                        /\ q.pc = pc /\ RunRest(q) = RunRest(v.runs[n]) /\ q.told = v.runs[n].told
  BY AtFacts
<1> HIDE DEF m
<1>2. m \in Srvs /\ n \in DOMAIN m.runs /\ m.runs[n] = q
  BY <1>1 DEF RunPut
<1>3. PICK r \in Runs : /\ RunPut(m, Moved(m, n), n, r) /\ SameLife(m, Moved(m, n)) /\ SameStatus(m, Moved(m, n))
                        /\ r.pc = m.runs[n].pc /\ RunRest(r) = RunRest(m.runs[n]) /\ r.told # "none"
  BY <1>2, MovedFacts
<1>4. w = Moved(m, n)
  BY DEF m
<1>5. RunPut(v, w, n, r) /\ SameLife(v, w)
  BY <1>1, <1>3, <1>4, PutsTwice, SameTwice
<1>6. SameStatus(v, w)
  BY <1>1, <1>3, <1>4 DEF SameStatus
<1> QED
  BY <1>1, <1>2, <1>3, <1>5, <1>6

\* An update that is found to be needed keeps it.
LEMMA FoundSteps ==
    ASSUME NEW s \in Servers, SrvHolds(srv[s]), NEW n \in RunsOf(s), UpdFound(s, n)
    PROVE  RunStepped(s)
<1> DEFINE v == srv[s]
<1>1. v.runs[n].pc = "found" /\ n \in DOMAIN v.runs /\ v \in Srvs
  BY DEF UpdFound, RunAt, RunsOf, SrvHolds
<1>2. \/ srv' = [srv EXCEPT ![s] = At(v, n, "begin")]
      \/ v.run = n /\ srv' = [srv EXCEPT ![s] = At(Moved(Advance(v, n, "downloading"), n), n, "lock")]
      \/ v.run # n /\ srv' = [srv EXCEPT ![s] = At(Moved(v, n), n, "done")]
  BY DEF UpdFound, Current, Advance
<1>3. /\ {"begin", "lock", "done"} \subseteq RunSteps /\ {"begin", "lock", "done", "found"} \cap Restarting = {} /\ "begin" \notin Answered
      /\ "downloading" \in States
  BY DEF RunSteps, Answered, Restarting, States
<1> HIDE DEF v
<1>4. CASE srv' = [srv EXCEPT ![s] = At(v, n, "begin")]
  <2>1. Steps(v, At(v, n, "begin")) /\ SameLife(v, At(v, n, "begin"))
    BY <1>1, <1>3, RunGoes DEF v
  <2> QED
    BY <1>4, <2>1 DEF RunStepped, v
<1>5. CASE v.run = n /\ srv' = [srv EXCEPT ![s] = At(Moved(Advance(v, n, "downloading"), n), n, "lock")]
  <2> DEFINE a == Advance(v, n, "downloading")
             w == At(Moved(a, n), n, "lock")
  <2>1. a \in Srvs /\ SameLife(v, a) /\ a.runs = v.runs /\ a.run = v.run /\ a.state = "downloading" /\ a.updating = v.updating
    BY <1>1, <1>3, <1>5, AdvanceFacts
  <2> HIDE DEF a
  <2>2. PICK r \in Runs : /\ RunPut(a, w, n, r) /\ SameLife(a, w) /\ SameStatus(a, w)
                          /\ r.pc = "lock" /\ RunRest(r) = RunRest(a.runs[n]) /\ r.told # "none"
    BY <1>1, <1>3, <2>1, MovedGoes
  <2> HIDE DEF w
  <2>3. RunPut(v, w, n, r)
    BY <2>1, <2>2 DEF RunPut
  <2>4. SameLife(v, w)
    BY <2>1, <2>2, SameTwice
  <2>5. w.run = v.run /\ w.state = "downloading" /\ w.updating = v.updating
    BY <2>1, <2>2 DEF SameStatus
  <2>6. Steps(v, w)
    BY <1>1, <1>3, <1>5, <2>1, <2>2, <2>3, <2>4, <2>5, GoesAhead DEF v
  <2> QED
    BY <1>5, <2>4, <2>6 DEF RunStepped, v, w, a
<1>6. CASE v.run # n /\ srv' = [srv EXCEPT ![s] = At(Moved(v, n), n, "done")]
  <2> DEFINE w == At(Moved(v, n), n, "done")
  <2>1. PICK r \in Runs : /\ RunPut(v, w, n, r) /\ SameLife(v, w) /\ SameStatus(v, w)
                          /\ r.pc = "done" /\ RunRest(r) = RunRest(v.runs[n]) /\ r.told # "none"
    BY <1>1, <1>3, MovedGoes
  <2> HIDE DEF w
  <2>2. HasTold(r)
    BY <2>1 DEF HasTold
  <2>3. Steps(v, w)
    BY <1>1, <1>3, <2>1, <2>2, GoesOn DEF v
  <2> QED
    BY <1>6, <2>1, <2>3 DEF RunStepped, v, w
<1> QED
  BY <1>2, <1>4, <1>5, <1>6

\* An install that fails keeps it.
LEMMA InstallFailsHolds ==
    ASSUME NEW v, SrvHolds(v), NEW n \in DOMAIN v.runs, v.runs[n].pc \in {"lock", "install", "failed"}
    PROVE  Steps(v, InstallFails(v, n)) /\ SameLife(v, InstallFails(v, n))
<1> DEFINE yes == TRUE
           e == EndRun(v, n, yes)
           w == At(e, n, "done")
<1>1. v \in Srvs /\ StatusHolds(v) /\ v.runs[n] \in Runs
  BY RunFacts DEF SrvHolds
<1>2. v.runs[n].told # "none"
  BY <1>1 DEF StatusHolds, HasTold, Answered, Restarting
<1>3. "done" \in RunSteps /\ "done" \notin Restarting
  BY DEF RunSteps, Answered, Restarting
<1>4. CASE v.run = n
  <2> DEFINE q == RunOver(v.runs[n])
  <2> HIDE DEF yes
  <2>1. RunPut(v, e, n, q) /\ SameLife(v, e) /\ e.run = 0 /\ e.state \in {"idle", "failed"} /\ e.updating = v.updating
    BY <1>1, <1>4, EndRunFacts
  <2>2. q.over /\ q.told # "none"
    BY <1>1, <1>2, OverFacts
  <2> HIDE DEF e, q
  <2>3. e \in Srvs /\ n \in DOMAIN e.runs /\ e.runs[n] = q
    BY <2>1 DEF RunPut
  <2>4. PICK r \in Runs : /\ RunPut(e, w, n, r) /\ SameLife(e, w) /\ SameStatus(e, w)
                          /\ r.pc = "done" /\ RunRest(r) = RunRest(e.runs[n]) /\ r.told = e.runs[n].told
    BY <1>3, <2>3, AtFacts
  <2> HIDE DEF w
  <2>5. RunPut(v, w, n, r) /\ SameLife(v, w)
    BY <2>1, <2>4, PutsTwice, SameTwice
  <2>6. w.run = 0 /\ w.state \in {"idle", "failed"} /\ w.updating = v.updating /\ r.over /\ r.told # "none"
    BY <2>1, <2>2, <2>3, <2>4 DEF SameStatus, RunRest
  <2>7. Steps(v, w)
    BY <1>4, <2>4, <2>5, <2>6, RunEnds
  <2> QED
    BY <2>5, <2>7 DEF InstallFails, w, e, yes
<1>5. CASE v.run # n
  <2>1. v.runs[n].pc \notin Restarting /\ v.runs[n].pc # "done"
    BY <1>1, <1>5 DEF StatusHolds, Restarting
  <2>2. Steps(v, At(v, n, "done")) /\ SameLife(v, At(v, n, "done"))
    BY <1>2, <1>3, <2>1, RunGoes
  <2>3. InstallFails(v, n) = At(v, n, "done")
    BY <1>5 DEF InstallFails, EndRun, Current
  <2> QED
    BY <2>2, <2>3
<1> QED
  BY <1>4, <1>5

\* The steps of an install (the lock, the replacement, a failure) keep it.
LEMMA InstallSteps ==
    ASSUME NEW s \in Servers, SrvHolds(srv[s]), NEW n \in RunsOf(s), UpdLocks(s, n) \/ UpdInstalls(s, n) \/ UpdFails(s, n)
    PROVE  RunStepped(s)
<1> DEFINE v == srv[s]
<1>1. v.runs[n].pc \in {"lock", "install", "failed"} /\ n \in DOMAIN v.runs /\ v \in Srvs /\ StatusHolds(v)
  BY DEF UpdLocks, UpdInstalls, UpdFails, RunAt, RunsOf, SrvHolds
<1>2. \/ v.runs[n].pc = "lock" /\ srv' = [srv EXCEPT ![s] = At(v, n, "install")]
      \/ v.runs[n].pc = "install" /\ srv' = [srv EXCEPT ![s] = At(v, n, "begin")]
      \/ srv' = [srv EXCEPT ![s] = InstallFails(v, n)]
  BY DEF UpdLocks, UpdInstalls, UpdFails, InstallFails, RunAt
<1>3. /\ {"begin", "install"} \subseteq RunSteps /\ {"begin", "lock", "install"} \cap Restarting = {} /\ "begin" \notin Answered
      /\ "lock" \in Answered
  BY DEF RunSteps, Answered, Restarting
<1> HIDE DEF v
<1>4. CASE srv' = [srv EXCEPT ![s] = InstallFails(v, n)]
  BY <1>1, <1>4, InstallFailsHolds DEF RunStepped, v
<1>5. CASE v.runs[n].pc = "lock" /\ srv' = [srv EXCEPT ![s] = At(v, n, "install")]
  <2>1. v.runs[n].told # "none"
    BY <1>1, <1>3, <1>5 DEF StatusHolds, HasTold
  <2>2. Steps(v, At(v, n, "install")) /\ SameLife(v, At(v, n, "install"))
    BY <1>1, <1>3, <1>5, <2>1, RunGoes DEF v
  <2> QED
    BY <1>5, <2>2 DEF RunStepped, v
<1>6. CASE v.runs[n].pc = "install" /\ srv' = [srv EXCEPT ![s] = At(v, n, "begin")]
  <2>1. Steps(v, At(v, n, "begin")) /\ SameLife(v, At(v, n, "begin"))
    BY <1>1, <1>3, <1>6, RunGoes DEF v
  <2> QED
    BY <1>6, <2>1 DEF RunStepped, v
<1> QED
  BY <1>2, <1>4, <1>5, <1>6

\* An update that looks whether the agent is idle, and waits when it is not, keeps it.
LEMMA WaitsSteps ==
    ASSUME NEW s \in Servers, SrvHolds(srv[s]), NEW n \in RunsOf(s), UpdWaits(s, n)
    PROVE  RunStepped(s)
<1> DEFINE v == srv[s]
<1>1. v.runs[n].pc = "wait" /\ n \in DOMAIN v.runs /\ v \in Srvs
  BY DEF UpdWaits, RunAt, RunsOf, SrvHolds
<1>2. \/ v.run = n /\ srv' = [srv EXCEPT ![s] = Moved(At([Advance(v, n, "waiting") EXCEPT !.runs[n].waiting = TRUE], n, "waiting"), n)]
      \/ v.run # n /\ srv' = [srv EXCEPT ![s] = Moved(At(v, n, "done"), n)]
  BY DEF UpdWaits, Current
<1>3. /\ {"waiting", "done"} \subseteq RunSteps /\ {"waiting", "wait", "done"} \cap Restarting = {}
      /\ "waiting" \in States
  BY DEF RunSteps, Answered, Restarting, States
<1> HIDE DEF v
<1>4. CASE v.run = n /\ srv' = [srv EXCEPT ![s] = Moved(At([Advance(v, n, "waiting") EXCEPT !.runs[n].waiting = TRUE], n, "waiting"), n)]
  <2> DEFINE a == Advance(v, n, "waiting")
             b == [a EXCEPT !.runs[n].waiting = TRUE]
             w == Moved(At(b, n, "waiting"), n)
  <2>1. a \in Srvs /\ SameLife(v, a) /\ a.runs = v.runs /\ a.run = v.run /\ a.state = "waiting" /\ a.updating = v.updating
    BY <1>1, <1>3, <1>4, AdvanceFacts
  <2> HIDE DEF a
  <2> DEFINE q == [a.runs[n] EXCEPT !.waiting = TRUE]
  <2>2. q \in Runs
    <3>1. a.runs[n] \in Runs
      BY <1>1, <2>1, RunFacts
    <3> QED
      BY <3>1, Zenon DEF Runs
  <2>3. RunRest(q) = RunRest(v.runs[n])
    <3>1. v.runs[n] \in Runs
      BY <1>1, RunFacts
    <3> QED
      BY <2>1, <3>1 DEF Runs, RunRest
  <2>4. b = [a EXCEPT !.runs = [a.runs EXCEPT ![n] = q]]
    OBVIOUS
  <2> HIDE DEF q, b
  <2>5. RunPut(a, b, n, q) /\ SameLife(a, b) /\ SameStatus(a, b)
    BY <1>1, <2>1, <2>2, <2>4, PutsRun
  <2>6. b \in Srvs /\ n \in DOMAIN b.runs /\ b.runs[n] = q
    BY <1>1, <2>1, <2>5 DEF RunPut
  <2>7. PICK r \in Runs : /\ RunPut(b, w, n, r) /\ SameLife(b, w) /\ SameStatus(b, w)
                          /\ r.pc = "waiting" /\ RunRest(r) = RunRest(b.runs[n]) /\ r.told # "none"
    BY <1>3, <2>6, GoesMoved
  <2> HIDE DEF w
  <2>8. RunPut(v, w, n, r)
    BY <2>1, <2>5, <2>7 DEF RunPut
  <2>9. SameLife(v, w)
    BY <2>1, <2>5, <2>7, SameTwice
  <2>10. w.run = v.run /\ w.state = "waiting" /\ w.updating = v.updating
    BY <2>1, <2>5, <2>7 DEF SameStatus
  <2>11. Steps(v, w)
    BY <1>1, <1>3, <1>4, <2>3, <2>6, <2>7, <2>8, <2>9, <2>10, GoesAhead DEF v
  <2> QED
    BY <1>4, <2>9, <2>11 DEF RunStepped, v, w, b, a
<1>5. CASE v.run # n /\ srv' = [srv EXCEPT ![s] = Moved(At(v, n, "done"), n)]
  <2> DEFINE w == Moved(At(v, n, "done"), n)
  <2>1. PICK r \in Runs : /\ RunPut(v, w, n, r) /\ SameLife(v, w) /\ SameStatus(v, w)
                          /\ r.pc = "done" /\ RunRest(r) = RunRest(v.runs[n]) /\ r.told # "none"
    BY <1>1, <1>3, GoesMoved
  <2> HIDE DEF w
  <2>2. HasTold(r)
    BY <2>1 DEF HasTold
  <2>3. Steps(v, w)
    BY <1>1, <1>3, <2>1, <2>2, GoesOn DEF v
  <2> QED
    BY <1>5, <2>1, <2>3 DEF RunStepped, v, w
<1> QED
  BY <1>2, <1>4, <1>5

\* An update that is woken keeps it.
LEMMA WakesSteps ==
    ASSUME NEW s \in Servers, SrvHolds(srv[s]), NEW n \in RunsOf(s), UpdWakes(s, n)
    PROVE  RunStepped(s)
<1> DEFINE v == srv[s]
<1>1. v.runs[n].pc = "waiting" /\ n \in DOMAIN v.runs /\ v \in Srvs /\ HasTold(v.runs[n])
  BY DEF UpdWakes, RunAt, RunsOf, SrvHolds, StatusHolds
<1>2. \/ srv' = [srv EXCEPT ![s] = At(v, n, "done")]
      \/ srv' = [srv EXCEPT ![s] = At(v, n, "begin")]
      \/ srv' = [srv EXCEPT ![s] = At([v EXCEPT !.runs[n].woken = FALSE], n, "begin")]
  BY DEF UpdWakes
<1>3. {"begin", "done"} \subseteq RunSteps /\ {"begin", "done", "waiting"} \cap Restarting = {} /\ "begin" \notin Answered /\ "waiting" \in Answered
  BY DEF RunSteps, Answered, Restarting
<1>4. v.runs[n].told # "none"
  BY <1>1, <1>3 DEF HasTold
<1> HIDE DEF v
<1>5. ASSUME NEW pc \in {"begin", "done"} PROVE Steps(v, At(v, n, pc)) /\ SameLife(v, At(v, n, pc))
  BY <1>1, <1>3, <1>4, RunGoes DEF v
<1>6. CASE srv' = [srv EXCEPT ![s] = At([v EXCEPT !.runs[n].woken = FALSE], n, "begin")]
  <2> DEFINE q == [v.runs[n] EXCEPT !.woken = FALSE]
             f == [v EXCEPT !.runs[n].woken = FALSE]
             w == At(f, n, "begin")
  <2>1. v.runs[n] \in Runs
    BY <1>1, RunFacts
  <2>2. q \in Runs
    BY <2>1, Zenon DEF Runs
  <2>3. q.over = v.runs[n].over /\ q.told = v.runs[n].told
    BY <2>1 DEF Runs
  <2>4. f = [v EXCEPT !.runs = [v.runs EXCEPT ![n] = q]]
    OBVIOUS
  <2> HIDE DEF q, f
  <2>5. RunPut(v, f, n, q) /\ SameLife(v, f) /\ SameStatus(v, f)
    BY <1>1, <2>2, <2>4, PutsRun
  <2>6. f \in Srvs /\ n \in DOMAIN f.runs /\ f.runs[n] = q
    BY <1>1, <2>5 DEF RunPut
  <2>7. PICK r \in Runs : /\ RunPut(f, w, n, r) /\ SameLife(f, w) /\ SameStatus(f, w)
                          /\ r.pc = "begin" /\ RunRest(r) = RunRest(f.runs[n]) /\ r.told = f.runs[n].told
    BY <1>3, <2>6, AtFacts
  <2> HIDE DEF w
  <2>8. RunPut(v, w, n, r) /\ SameLife(v, w)
    BY <2>5, <2>7, PutsTwice, SameTwice
  <2>9. SameStatus(v, w)
    BY <2>5, <2>7 DEF SameStatus
  <2>10. r.over = v.runs[n].over /\ HasTold(r)
    BY <1>4, <2>3, <2>6, <2>7 DEF RunRest, HasTold
  <2>11. StatusHolds(w)
    <3>1. StatusHolds(v)
      BY DEF SrvHolds, v
    <3> QED
      BY <1>1, <1>3, <2>7, <2>8, <2>9, <2>10, <3>1, StatusStays
  <2>12. SrvHolds(w)
    BY <1>1, <2>7, <2>8, <2>11, RunHolds DEF v
  <2>13. Steps(v, w)
    BY <2>8, <2>9, <2>12 DEF Steps, Careful, SameLife, SameStatus, Agent
  <2> QED
    BY <1>6, <2>8, <2>13 DEF RunStepped, v, w, f
<1> QED
  BY <1>2, <1>5, <1>6 DEF RunStepped, v

\* beginUpdateRestart: the run under way begins the restart.
LEMMA BegunHolds ==
    ASSUME NEW v, SrvHolds(v), NEW n \in DOMAIN v.runs, v.runs[n].pc = "begin", v.run = n,
           v.runs[n].now \/ (v.agent = "idle" /\ ~v.restarting)
    PROVE  Steps(v, Begun(v, n)) /\ SameLife(v, Begun(v, n))
<1>1. v \in Srvs /\ StatusHolds(v)
  BY DEF SrvHolds
<1>2. "restart" \in RunSteps /\ "begin" \notin Restarting /\ "restarting" \in States
  BY DEF RunSteps, Answered, Restarting, States
<1> DEFINE a == Advance(v, n, "restarting")
           b == [a EXCEPT !.updating = TRUE]
           w == Moved(At(b, n, "restart"), n)
<1>3. Begun(v, n) = w
  BY DEF Begun, Current
<1>4. a \in Srvs /\ SameLife(v, a) /\ a.runs = v.runs /\ a.run = v.run /\ a.state = "restarting"
  BY <1>1, <1>2, AdvanceFacts
<1> HIDE DEF a
<1>5. b \in Srvs
  BY <1>4, ZenonT(90) DEF Srvs
<1>6. b.runs = v.runs /\ b.run = v.run /\ b.state = "restarting"
  BY <1>4 DEF Srvs
<1>7. b.updating = TRUE
  BY <1>4, Zenon DEF Srvs
<1>8. SameLife(a, b)
  <2>1. Life(b) = Life(a)
    BY <1>4 DEF Srvs, Life
  <2>2. Agent(b) = Agent(a)
    BY <1>4 DEF Srvs, Agent
  <2> QED
    BY <2>1, <2>2 DEF SameLife
<1> HIDE DEF b
<1>9. PICK r \in Runs : /\ RunPut(b, w, n, r) /\ SameLife(b, w) /\ SameStatus(b, w)
                        /\ r.pc = "restart" /\ RunRest(r) = RunRest(b.runs[n]) /\ r.told # "none"
  BY <1>2, <1>5, <1>6, GoesMoved
<1> HIDE DEF w
<1>10. RunPut(v, w, n, r)
  BY <1>6, <1>9 DEF RunPut
<1>11. SameLife(v, w)
  BY <1>4, <1>8, <1>9, SameTwice
<1>12. w.run = v.run /\ w.state = "restarting" /\ w.updating
  BY <1>6, <1>7, <1>9 DEF SameStatus
<1>13. StatusHolds(w)
  BY <1>1, <1>2, <1>9, <1>10, <1>12, StatusAdvances
<1>14. SrvHolds(w)
  BY <1>9, <1>10, <1>11, <1>13, RunHolds
<1>15. w.runs[w.run].now = v.runs[n].now
  BY <1>6, <1>9, <1>10, <1>12 DEF RunPut, RunRest
<1>16. Careful(v, w)
  BY <1>11, <1>15 DEF Careful, SameLife, Agent
<1> QED
  BY <1>3, <1>11, <1>14, <1>16 DEF Steps

\* Beginning the restart under the lock keeps it: the agent is idle, and the queue is held.
LEMMA BeginsSteps ==
    ASSUME NEW s \in Servers, SrvHolds(srv[s]), NEW n \in RunsOf(s), UpdBegins(s, n)
    PROVE  RunStepped(s)
<1> DEFINE v == srv[s]
<1>1. v.runs[n].pc = "begin" /\ n \in DOMAIN v.runs /\ v \in Srvs /\ HasTold(v.runs[n])
  BY DEF UpdBegins, RunAt, RunsOf, SrvHolds, StatusHolds
<1>2. \/ /\ v.restarting \/ v.agent # "idle"
         /\ \/ srv' = [srv EXCEPT ![s] = At(v, n, "wait")]
            \/ v.runs[n].waiting /\ srv' = [srv EXCEPT ![s] = At(v, n, "waiting")]
      \/ /\ v.runs[n].now \/ (v.agent = "idle" /\ ~v.restarting)
         /\ srv' = [srv EXCEPT ![s] = Begun(v, n)]
  BY DEF UpdBegins, AgentIdle
<1>3. {"wait", "waiting", "done"} \subseteq RunSteps /\ {"wait", "waiting", "begin", "done"} \cap Restarting = {} /\ "wait" \notin Answered
  BY DEF RunSteps, Answered, Restarting
<1> HIDE DEF v
<1>4. CASE (v.restarting \/ v.agent # "idle") /\ srv' = [srv EXCEPT ![s] = At(v, n, "wait")]
  <2>1. Steps(v, At(v, n, "wait")) /\ SameLife(v, At(v, n, "wait"))
    BY <1>1, <1>3, <1>4, RunGoes DEF v
  <2> QED
    BY <1>4, <2>1 DEF RunStepped, v
<1>5. CASE (v.restarting \/ v.agent # "idle") /\ v.runs[n].waiting /\ srv' = [srv EXCEPT ![s] = At(v, n, "waiting")]
  <2>1. v.runs[n].told # "none"
    BY <1>1, <1>5 DEF HasTold
  <2>2. Steps(v, At(v, n, "waiting")) /\ SameLife(v, At(v, n, "waiting"))
    BY <1>1, <1>3, <1>5, <2>1, RunGoes DEF v
  <2> QED
    BY <1>5, <2>2 DEF RunStepped, v
<1>6. CASE (v.runs[n].now \/ (v.agent = "idle" /\ ~v.restarting)) /\ srv' = [srv EXCEPT ![s] = Begun(v, n)]
  <2>1. CASE v.run = n
    <3>1. Steps(v, Begun(v, n)) /\ SameLife(v, Begun(v, n))
      BY <1>1, <1>6, <2>1, BegunHolds DEF v
    <3> QED
      BY <1>6, <3>1 DEF RunStepped, v
  <2>2. CASE v.run # n
    <3> DEFINE w == Moved(At(v, n, "done"), n)
    <3>1. PICK r \in Runs : /\ RunPut(v, w, n, r) /\ SameLife(v, w) /\ SameStatus(v, w)
                            /\ r.pc = "done" /\ RunRest(r) = RunRest(v.runs[n]) /\ r.told # "none"
      BY <1>1, <1>3, GoesMoved
    <3>2. Begun(v, n) = w
      BY <2>2 DEF Begun, Current
    <3> HIDE DEF w
    <3>3. HasTold(r)
      BY <3>1 DEF HasTold
    <3>4. Steps(v, w)
      BY <1>1, <1>3, <3>1, <3>3, GoesOn DEF v
    <3> QED
      BY <1>6, <3>1, <3>2, <3>4 DEF RunStepped, v
  <2> QED
    BY <2>1, <2>2
<1> QED
  BY <1>2, <1>4, <1>5, <1>6

\* The restart is given up on.
LEMMA FailingHolds ==
    ASSUME NEW v, SrvHolds(v), NEW n \in DOMAIN v.runs, v.runs[n].pc \in {"restart", "checked"}
    PROVE  Steps(v, At(v, n, "failing")) /\ SameLife(v, At(v, n, "failing"))
<1> DEFINE w == At(v, n, "failing")
<1>1. v \in Srvs /\ StatusHolds(v) /\ HasTold(v.runs[n])
  BY DEF SrvHolds, StatusHolds
<1>2. "failing" \in RunSteps /\ {"restart", "checked"} \subseteq Restarting /\ {"restart", "checked", "failing"} \subseteq Answered
  BY DEF RunSteps, Answered, Restarting
<1>3. PICK r \in Runs : /\ RunPut(v, w, n, r) /\ SameLife(v, w) /\ SameStatus(v, w)
                        /\ r.pc = "failing" /\ RunRest(r) = RunRest(v.runs[n]) /\ r.told = v.runs[n].told
  BY <1>1, <1>2, AtFacts
<1> HIDE DEF w
<1>4. HasTold(r) /\ r.over = v.runs[n].over
  BY <1>1, <1>2, <1>3 DEF HasTold, RunRest
<1>5. StatusHolds(w)
  BY <1>1, <1>2, <1>3, <1>4, StatusStays
<1>6. SrvHolds(w)
  BY <1>3, <1>5, RunHolds
<1>7. Careful(v, w)
  BY <1>3 DEF Careful, SameLife, SameStatus, Agent
<1> QED
  BY <1>3, <1>6, <1>7 DEF Steps, w

\* Letting the queue go after a restart that failed keeps it.
LEMMA UnholdsSteps ==
    ASSUME NEW s \in Servers, SrvHolds(srv[s]), NEW n \in RunsOf(s), UpdUnholds(s, n), srv = [t \in Servers |-> srv[t]]
    PROVE  RunStepped(s)
<1> DEFINE v == srv[s]
           b == [v EXCEPT !.updating = FALSE]
           w == At(b, n, "failed")
<1>1. v.runs[n].pc = "failing" /\ n \in DOMAIN v.runs /\ v \in Srvs /\ StatusHolds(v) /\ HasTold(v.runs[n])
  BY DEF UpdUnholds, RunAt, RunsOf, SrvHolds, StatusHolds
<1>2. srv' = [srv EXCEPT ![s] = w]
  BY DEF UpdUnholds
<1>3. "failed" \in RunSteps /\ {"failing", "failed"} \subseteq Restarting /\ {"failing", "failed"} \subseteq Answered
  BY DEF RunSteps, Answered, Restarting
<1>4. b \in Srvs
  BY <1>1, ZenonT(90) DEF Srvs
<1>5. b.runs = v.runs /\ b.run = v.run /\ b.state = v.state
  BY <1>1 DEF Srvs
<1>6. b.updating = FALSE
  BY <1>1, Zenon DEF Srvs
<1>7. SameLife(v, b)
  <2>1. Life(b) = Life(v)
    BY <1>1 DEF Srvs, Life
  <2>2. Agent(b) = Agent(v)
    BY <1>1 DEF Srvs, Agent
  <2> QED
    BY <2>1, <2>2 DEF SameLife
<1> HIDE DEF b, v
<1>8. PICK r \in Runs : /\ RunPut(b, w, n, r) /\ SameLife(b, w) /\ SameStatus(b, w)
                        /\ r.pc = "failed" /\ RunRest(r) = RunRest(b.runs[n]) /\ r.told = b.runs[n].told
  BY <1>1, <1>3, <1>4, <1>5, AtFacts
<1> HIDE DEF w
<1>9. RunPut(v, w, n, r) /\ r.over = v.runs[n].over /\ HasTold(r)
  BY <1>1, <1>3, <1>5, <1>8 DEF RunPut, RunRest, HasTold
<1>10. SameLife(v, w)
  BY <1>7, <1>8, SameTwice
<1>11. w.run = v.run /\ w.state = v.state /\ ~w.updating
  BY <1>5, <1>6, <1>8 DEF SameStatus
<1>12. StatusHolds(w)
  <2>1. v.run = n /\ v.state = "restarting"
    BY <1>1, <1>3 DEF StatusHolds
  <2>2. ASSUME NEW m \in DOMAIN w.runs
        PROVE  /\ HasTold(w.runs[m])
               /\ m # w.run => w.runs[m].over /\ w.runs[m].pc \notin Restarting
               /\ w.runs[m].pc \in Restarting => w.state = "restarting"
               /\ w.runs[m].pc \notin {"restart", "checked"}
    <3>1. CASE m = n
      BY <1>8, <1>9, <1>11, <2>1, <3>1 DEF RunPut
    <3>2. CASE m # n
      BY <1>1, <1>9, <1>11, <2>1, <3>2 DEF RunPut, StatusHolds, Restarting
    <3> QED
      BY <3>1, <3>2
  <2> QED
    BY <1>1, <1>9, <1>11, <2>1, <2>2 DEF StatusHolds, RunPut
<1>13. SrvHolds(w)
  BY <1>1, <1>8, <1>9, <1>10, <1>12, RunHolds DEF v
<1>14. Careful(v, w)
  BY <1>10, <1>11 DEF Careful, SameLife, Agent
<1> QED
  BY <1>2, <1>10, <1>13, <1>14 DEF RunStepped, Steps, v

-----------------------------------------------------------------------------
(* The steps that change what a server is at.                               *)

ServerStepped(s) ==
    \E w : /\ Steps(srv[s], w) /\ srv' = [srv EXCEPT ![s] = w] /\ w.id = srv[s].id
           /\ w.up = srv[s].up \/ (srv[s].up \in Ran /\ w.up \in Ran \cup {"exit"})

\* A step of an update is one of its server.
LEMMA RunIsServer ==
    ASSUME NEW s, RunStepped(s) PROVE ServerStepped(s)
  BY DEF RunStepped, ServerStepped, SameLife, Life

\* A step that leaves the update alone.
LEMMA LifeHolds ==
    ASSUME NEW v, SrvHolds(v), NEW w \in Srvs, w.runs = v.runs, SameStatus(v, w), Agent(w) = Agent(v), RestartHolds(w), EntryHolds(w)
    PROVE  Steps(v, w)
<1>1. StatusHolds(v) /\ WaitersHear(v) /\ v \in Srvs
  BY DEF SrvHolds
<1>2. StatusHolds(w)
  BY <1>1 DEF StatusHolds, SameStatus
<1>3. WaitersHear(w)
  BY <1>1 DEF WaitersHear, Agent
<1> QED
  BY <1>2, <1>3 DEF Steps, SrvHolds, Careful, SameStatus, Agent

\* Restart: the program is checked.
LEMMA CheckedHolds ==
    ASSUME NEW v, SrvHolds(v), NEW n \in DOMAIN v.runs, v.runs[n].pc = "restart", v.up # "gone", NEW c \in Nat, WouldStart(c),
           NEW w, w = At([v EXCEPT !.checked = c], n, "checked")
    PROVE  Steps(v, w) /\ w.id = v.id /\ w.up = v.up
<1> DEFINE b == [v EXCEPT !.checked = c]
<1>1. v \in Srvs /\ StatusHolds(v) /\ WaitersHear(v) /\ RestartHolds(v) /\ EntryHolds(v) /\ HasTold(v.runs[n]) /\ v.runs # << >>
  BY DEF SrvHolds, StatusHolds
<1>2. "checked" \in RunSteps /\ {"restart", "checked"} \subseteq Restarting /\ {"restart", "checked"} \subseteq Answered
  BY DEF RunSteps, Answered, Restarting
<1>3. b \in Srvs
  BY <1>1, ZenonT(90) DEF Srvs
<1>4. b.runs = v.runs /\ SameStatus(v, b) /\ Agent(b) = Agent(v)
  BY <1>1 DEF Srvs, SameStatus, Agent
<1>5. /\ b.up = v.up /\ b.term = v.term /\ b.requested = v.requested /\ b.sig = v.sig /\ b.checked = c
      /\ b.why = v.why /\ b.version = v.version /\ b.prompt = v.prompt /\ b.prompted = v.prompted /\ b.id = v.id /\ b.entry = v.entry
  BY <1>1 DEF Srvs
<1> HIDE DEF b
<1>6. RestartHolds(b) /\ EntryHolds(b)
  BY <1>1, <1>4, <1>5 DEF RestartHolds, EntryHolds, Agent
<1>7. SrvHolds(b) /\ Careful(v, b)
  BY <1>3, <1>4, <1>6, LifeHolds DEF Steps
<1>8. w = At(b, n, "checked") /\ n \in DOMAIN b.runs /\ b.runs[n] = v.runs[n]
  BY <1>4 DEF b
<1>9. PICK r \in Runs : /\ RunPut(b, w, n, r) /\ SameLife(b, w) /\ SameStatus(b, w)
                        /\ r.pc = "checked" /\ RunRest(r) = RunRest(b.runs[n]) /\ r.told = b.runs[n].told
  BY <1>2, <1>3, <1>8, AtFacts
<1>10. HasTold(r) /\ r.over = b.runs[n].over
  BY <1>1, <1>2, <1>8, <1>9 DEF HasTold, RunRest
<1>11. StatusHolds(w)
  BY <1>2, <1>3, <1>7, <1>8, <1>9, <1>10, StatusStays DEF SrvHolds
<1>12. SrvHolds(w)
  BY <1>5, <1>7, <1>8, <1>9, <1>11, RunHolds
<1>13. Careful(v, w) /\ w.id = v.id /\ w.up = v.up
  BY <1>4, <1>5, <1>9 DEF Careful, SameLife, SameStatus, Agent, Life
<1> QED
  BY <1>12, <1>13 DEF Steps

\* Checking the program before the restart keeps the server's invariant.
LEMMA ChecksSteps ==
    ASSUME NEW s \in Servers, SrvHolds(srv[s]), NEW n \in RunsOf(s), UpdChecks(s, n), machine.version \in Nat,
           srv = [t \in Servers |-> srv[t]]
    PROVE  ServerStepped(s)
<1> DEFINE v == srv[s]
<1>1. v.runs[n].pc = "restart" /\ n \in DOMAIN v.runs /\ v.up # "gone"
  BY DEF UpdChecks, RunAt, RunsOf, Alive
<1>2. \/ WouldStart(machine.version) /\ srv' = [srv EXCEPT ![s] = At([v EXCEPT !.checked = machine.version], n, "checked")]
      \/ srv' = [srv EXCEPT ![s] = At(v, n, "failing")]
  BY DEF UpdChecks
<1> HIDE DEF v
<1>3. CASE WouldStart(machine.version) /\ srv' = [srv EXCEPT ![s] = At([v EXCEPT !.checked = machine.version], n, "checked")]
  <2> DEFINE c == machine.version
             w == At([v EXCEPT !.checked = c], n, "checked")
  <2>1. c \in Nat /\ WouldStart(c) /\ srv' = [srv EXCEPT ![s] = w] /\ SrvHolds(v)
    BY <1>3 DEF v
  <2> HIDE DEF c
  <2>2. Steps(v, w) /\ w.id = v.id /\ w.up = v.up
    BY <1>1, <2>1, CheckedHolds
  <2> HIDE DEF w
  <2> QED
    BY <2>1, <2>2 DEF ServerStepped, v
<1>4. CASE srv' = [srv EXCEPT ![s] = At(v, n, "failing")]
  BY <1>1, <1>4, FailingHolds, RunIsServer DEF RunStepped, v
<1> QED
  BY <1>2, <1>3, <1>4

\* restart: the server ends to run again.
LEMMA InPlaceHolds ==
    ASSUME NEW v, SrvHolds(v), v.up = "serving", WouldStart(v.checked), NEW w, w = [v EXCEPT !.requested = TRUE, !.up = "ending"]
    PROVE  Steps(v, w) /\ w.id = v.id /\ w.up = "ending" /\ w.runs = v.runs /\ w \in Srvs /\ SameStatus(v, w) /\ Agent(w) = Agent(v)
<1>1. v \in Srvs /\ RestartHolds(v) /\ EntryHolds(v)
  BY DEF SrvHolds
<1>2. "ending" \in Ups
  BY DEF Ups
<1>3. w \in Srvs
  BY <1>1, <1>2, ZenonT(90) DEF Srvs
<1>4. w.runs = v.runs /\ SameStatus(v, w) /\ Agent(w) = Agent(v)
  BY <1>1 DEF Srvs, SameStatus, Agent
<1>5. /\ w.up = "ending" /\ w.term = v.term /\ w.sig = v.sig /\ w.checked = v.checked
      /\ w.why = v.why /\ w.version = v.version /\ w.prompt = v.prompt /\ w.prompted = v.prompted /\ w.id = v.id /\ w.entry = v.entry
  BY <1>1 DEF Srvs
<1>6. ~v.term
  BY <1>1 DEF RestartHolds
<1>7. RestartHolds(w) /\ EntryHolds(w)
  BY <1>1, <1>4, <1>5, <1>6 DEF RestartHolds, EntryHolds, Agent
<1> QED
  BY <1>3, <1>4, <1>5, <1>7, LifeHolds

\* Restarting in place for an update keeps it.
LEMMA RestartsSteps ==
    ASSUME NEW s \in Servers, SrvHolds(srv[s]), NEW n \in RunsOf(s), UpdRestarts(s, n)
    PROVE  ServerStepped(s)
<1> DEFINE v == srv[s]
           b == [v EXCEPT !.requested = TRUE, !.up = "ending"]
           w == At(b, n, "done")
<1>1. v.runs[n].pc = "checked" /\ n \in DOMAIN v.runs /\ v \in Srvs /\ StatusHolds(v) /\ HasTold(v.runs[n]) /\ RestartHolds(v)
  BY DEF UpdRestarts, RunAt, RunsOf, SrvHolds, StatusHolds
<1>2. \/ v.up = "serving" /\ srv' = [srv EXCEPT ![s] = w]
      \/ srv' = [srv EXCEPT ![s] = At(v, n, "failing")]
  BY DEF UpdRestarts, RestartInPlace, CanRestart
<1>3. CASE v.up = "serving" /\ srv' = [srv EXCEPT ![s] = w]
  <2>1. WouldStart(v.checked)
    BY <1>1 DEF RestartHolds
  <2>2. Steps(v, b) /\ b.id = v.id /\ b.up = "ending" /\ b.runs = v.runs /\ b \in Srvs /\ SameStatus(v, b) /\ Agent(b) = Agent(v)
    BY <1>3, <2>1, InPlaceHolds
  <2> HIDE DEF b, v
  <2>3. "done" \in RunSteps /\ {"checked"} \subseteq Restarting /\ {"done", "checked"} \subseteq Answered /\ "done" \notin Restarting
    BY DEF RunSteps, Answered, Restarting
  <2>4. PICK r \in Runs : /\ RunPut(b, w, n, r) /\ SameLife(b, w) /\ SameStatus(b, w)
                          /\ r.pc = "done" /\ RunRest(r) = RunRest(b.runs[n]) /\ r.told = b.runs[n].told
    BY <1>1, <2>2, <2>3, AtFacts
  <2> HIDE DEF w
  <2>5. HasTold(r) /\ r.over = b.runs[n].over
    BY <1>1, <2>2, <2>3, <2>4 DEF HasTold, RunRest
  <2>6. SrvHolds(b) /\ StatusHolds(b)
    BY <2>2 DEF Steps, SrvHolds
  <2>7. StatusHolds(w)
    BY <1>1, <2>2, <2>3, <2>4, <2>5, <2>6, StatusStays
  <2>8. SrvHolds(w)
    BY <1>1, <2>2, <2>4, <2>6, <2>7, RunHolds
  <2>9. Careful(v, w) /\ w.id = v.id /\ w.up = "ending"
    BY <2>2, <2>4 DEF Careful, SameLife, SameStatus, Agent, Life
  <2> QED
    BY <1>3, <2>8, <2>9 DEF ServerStepped, Steps, Ran, v
<1>4. CASE srv' = [srv EXCEPT ![s] = At(v, n, "failing")]
  BY <1>1, <1>4, FailingHolds, RunIsServer DEF RunStepped
<1> QED
  BY <1>2, <1>3, <1>4

-----------------------------------------------------------------------------
(* The agent and the messages: a change of the status wakes who waits.      *)

LEMMA WokenFacts ==
    ASSUME NEW r \in Runs
    PROVE  /\ Woken(r) \in Runs /\ Woken(r).pc = r.pc /\ Woken(r).told = r.told
           /\ Woken(r).waiting = r.waiting /\ Woken(r).over = r.over /\ Woken(r).now = r.now
           /\ r.pc \in {"wait", "waiting"} => Woken(r).woken
<1> DEFINE b == r.woken \/ r.pc \in {"begin", "wait", "waiting"}
<1>1. b \in BOOLEAN /\ (r.pc \in {"wait", "waiting"} => b = TRUE) /\ Woken(r) = [r EXCEPT !.woken = b]
  BY DEF Woken
<1> HIDE DEF b
<1>2. Woken(r) \in Runs /\ Woken(r).woken = b
  BY <1>1, Zenon DEF Runs
<1>3. /\ Woken(r).pc = r.pc /\ Woken(r).told = r.told
      /\ Woken(r).waiting = r.waiting /\ Woken(r).over = r.over /\ Woken(r).now = r.now
  BY <1>1 DEF Runs
<1> QED
  BY <1>1, <1>2, <1>3

\* What a change of status does to the updates that wait for one.
LEMMA Hears ==
    ASSUME NEW v \in Srvs, NEW w, w = StatusChanged(v)
    PROVE  /\ w \in Srvs /\ SameLife(v, w) /\ SameStatus(v, w) /\ DOMAIN w.runs = DOMAIN v.runs
           /\ \A n \in DOMAIN v.runs : v.runs[n] \in Runs /\ w.runs[n] = Woken(v.runs[n])
           /\ v.runs = << >> => w.runs = << >>
<1> DEFINE rs == [n \in DOMAIN v.runs |-> Woken(v.runs[n])]
<1>1. v.runs \in Seq(Runs)
  BY SrvFacts
<1>2. \A n \in DOMAIN v.runs : v.runs[n] \in Runs /\ Woken(v.runs[n]) \in Runs
  BY <1>1, WokenFacts
<1>3. rs \in Seq(Runs)
  BY <1>1, <1>2
<1>4. DOMAIN rs = DOMAIN v.runs /\ \A n \in DOMAIN v.runs : rs[n] = Woken(v.runs[n])
  OBVIOUS
<1>5. v.runs = << >> => rs = << >>
  BY <1>3, <1>4
<1>6. w = [v EXCEPT !.runs = rs]
  BY DEF StatusChanged, Woken
<1> HIDE DEF rs
<1>7. w.runs = rs
  BY <1>6 DEF Srvs
<1>8. w \in Srvs
  BY <1>3, <1>6, ZenonT(90) DEF Srvs
<1>9. SameStatus(v, w) /\ Agent(w) = Agent(v)
  BY <1>6 DEF Srvs, Agent, SameStatus
<1>10. Life(w) = Life(v)
  BY <1>6 DEF Srvs, Life
<1> QED
  BY <1>2, <1>4, <1>5, <1>7, <1>8, <1>9, <1>10 DEF SameLife

\* After a change of the status no run that waits has missed one.
LEMMA HearsHolds ==
    ASSUME NEW v \in Srvs, StatusHolds(v), RestartHolds(v), EntryHolds(v), NEW w, w = StatusChanged(v)
    PROVE  SrvHolds(w) /\ SameLife(v, w) /\ SameStatus(v, w)
<1>1. /\ w \in Srvs /\ SameLife(v, w) /\ SameStatus(v, w) /\ DOMAIN w.runs = DOMAIN v.runs
      /\ \A n \in DOMAIN v.runs : v.runs[n] \in Runs /\ w.runs[n] = Woken(v.runs[n])
      /\ v.runs = << >> => w.runs = << >>
  BY Hears
<1>2. ASSUME NEW n \in DOMAIN v.runs
      PROVE  /\ w.runs[n].pc = v.runs[n].pc /\ w.runs[n].over = v.runs[n].over /\ HasTold(w.runs[n])
             /\ v.runs[n].pc \in {"wait", "waiting"} => w.runs[n].woken
  BY <1>1, WokenFacts DEF StatusHolds, HasTold
<1>3. StatusHolds(w)
  BY <1>1, <1>2 DEF StatusHolds, SameStatus
<1>4. WaitersHear(w)
  BY <1>1, <1>2 DEF WaitersHear
<1>5. /\ w.up = v.up /\ w.term = v.term /\ w.requested = v.requested /\ w.sig = v.sig /\ w.checked = v.checked
      /\ w.why = v.why /\ w.version = v.version /\ w.prompt = v.prompt /\ w.prompted = v.prompted /\ w.id = v.id /\ w.entry = v.entry
      /\ w.agent = v.agent /\ w.restarting = v.restarting
  BY <1>1 DEF SameLife, Life, Agent
<1>6. (\E m \in DOMAIN w.runs : w.runs[m].pc = "checked") => (\E m \in DOMAIN v.runs : v.runs[m].pc = "checked")
  BY <1>1, <1>2
<1>7. RestartHolds(w)
  BY <1>1, <1>5, <1>6 DEF RestartHolds
<1>8. EntryHolds(w)
  BY <1>5 DEF EntryHolds
<1> QED
  BY <1>1, <1>3, <1>4, <1>7, <1>8 DEF SrvHolds

\* A step that changes what the agent does, and says so.
LEMMA AgentHolds ==
    ASSUME NEW v, SrvHolds(v), NEW b \in Srvs, b.runs = v.runs, SameStatus(v, b), RestartHolds(b), EntryHolds(b),
           v.updating => b.sent = v.sent, NEW w, w = StatusChanged(b)
    PROVE  Steps(v, w) /\ SameLife(b, w) /\ SameStatus(v, w)
<1>1. StatusHolds(b)
  BY DEF SrvHolds, StatusHolds, SameStatus
<1>2. SrvHolds(w) /\ SameLife(b, w) /\ SameStatus(b, w)
  BY <1>1, HearsHolds
<1> QED
  BY <1>2 DEF Steps, Careful, SameLife, SameStatus, Agent

\* What the rest of a server's record is, that no property looks at.
LEMMA RestHolds ==
    ASSUME NEW v, SrvHolds(v), NEW w \in Srvs, w.runs = v.runs, SameStatus(v, w), SameLife(v, w)
    PROVE  Steps(v, w)
<1>1. RestartHolds(v) /\ EntryHolds(v)
  BY DEF SrvHolds
<1>2. /\ w.up = v.up /\ w.term = v.term /\ w.requested = v.requested /\ w.sig = v.sig /\ w.checked = v.checked
      /\ w.why = v.why /\ w.version = v.version /\ w.prompt = v.prompt /\ w.prompted = v.prompted /\ w.id = v.id /\ w.entry = v.entry
      /\ w.agent = v.agent /\ w.restarting = v.restarting
  BY DEF SameLife, Life, Agent
<1>3. RestartHolds(w) /\ EntryHolds(w)
  BY <1>1, <1>2 DEF RestartHolds, EntryHolds
<1> QED
  BY <1>3, LifeHolds DEF SameLife

\* Sending a message to the agent keeps it, as long as no update restarts.
LEMMA SentHolds ==
    ASSUME NEW v, SrvHolds(v), ~v.updating, v.up \in {"serving", "ending"}, NEW q \in Nat, NEW w, w = Sent([v EXCEPT !.queue = q])
    PROVE  Steps(v, w) /\ w.id = v.id /\ w.up = v.up
<1> DEFINE b == [v EXCEPT !.queue = q, !.agent = "busy", !.sent = v.sent + 1]
<1>1. v \in Srvs /\ RestartHolds(v) /\ EntryHolds(v)
  BY DEF SrvHolds
<1>2. w = StatusChanged(b)
  BY <1>1 DEF Sent, Srvs
<1>3. v.sent + 1 \in Nat /\ "busy" \in Agents
  <2>1. v.sent \in Nat
    BY <1>1, CountFacts
  <2> QED
    BY <2>1 DEF Agents
<1>4. b \in Srvs
  BY <1>1, <1>3, ZenonT(90) DEF Srvs
<1>5. b.runs = v.runs /\ SameStatus(v, b) /\ b.restarting = v.restarting
  BY <1>1 DEF Srvs, SameStatus
<1>6. Life(b) = Life(v)
  BY <1>1 DEF Srvs, Life
<1> HIDE DEF b
<1>7. /\ b.up = v.up /\ b.term = v.term /\ b.requested = v.requested /\ b.sig = v.sig /\ b.checked = v.checked
      /\ b.why = v.why /\ b.version = v.version /\ b.prompt = v.prompt /\ b.prompted = v.prompted /\ b.id = v.id /\ b.entry = v.entry
  BY <1>6 DEF Life
<1>8. RestartHolds(b) /\ EntryHolds(b)
  BY <1>1, <1>5, <1>7 DEF RestartHolds, EntryHolds
<1>9. Steps(v, w) /\ SameLife(b, w)
  BY <1>2, <1>4, <1>5, <1>8, AgentHolds
<1> QED
  BY <1>7, <1>9 DEF SameLife, Life

\* createMessage: the message is queued, or the agent gets it.
LEMMA MessageSteps ==
    ASSUME NEW s \in Servers, SrvHolds(srv[s]), UpdMessage(s)
    PROVE  ServerStepped(s)
<1> DEFINE v == srv[s]
           b == IF v.restarting \/ v.updating \/ ~AgentIdle(v) \/ v.queue > 0 THEN [v EXCEPT !.queue = @ + 1] ELSE Sent(v)
           w == [b EXCEPT !.messages = @ - 1]
<1>1. v.up \in {"serving", "ending"} /\ v.messages > 0 /\ srv' = [srv EXCEPT ![s] = w]
  BY DEF UpdMessage
<1>2. v \in Srvs
  BY DEF SrvHolds
<1>3. Steps(v, b) /\ b.id = v.id /\ b.up = v.up /\ b.messages = v.messages
  <2>1. CASE b = Sent(v) /\ ~v.updating
    <3>1. v = [v EXCEPT !.queue = v.queue] /\ v.queue \in Nat
      BY <1>2 DEF Srvs
    <3>2. b.messages = v.messages
      BY <1>2, <2>1 DEF Sent, StatusChanged, Srvs
    <3> QED
      BY <1>1, <2>1, <3>1, <3>2, SentHolds
  <2>2. CASE b = [v EXCEPT !.queue = @ + 1]
    <3>1. v.queue + 1 \in Nat
      BY <1>2, CountFacts
    <3>2. b \in Srvs
      BY <1>2, <2>2, <3>1, ZenonT(90) DEF Srvs
    <3>3. b.runs = v.runs /\ SameStatus(v, b) /\ Agent(b) = Agent(v) /\ b.messages = v.messages
      BY <1>2, <2>2, ZenonT(60) DEF Srvs, SameStatus, Agent
    <3>4. Life(b) = Life(v)
      BY <1>2, <2>2, ZenonT(60) DEF Srvs, Life
    <3> HIDE DEF b
    <3>5. SameLife(v, b)
      BY <3>3, <3>4 DEF SameLife
    <3>6. Steps(v, b)
      BY <3>2, <3>3, <3>5, RestHolds
    <3> QED
      BY <3>3, <3>4, <3>6 DEF Life
  <2> QED
    BY <2>1, <2>2
<1> HIDE DEF b
<1>4. b \in Srvs /\ b.messages - 1 \in Nat
  <2>1. b \in Srvs /\ v.messages \in Nat
    BY <1>2, <1>3, CountFacts DEF Steps, SrvHolds
  <2> QED
    BY <1>1, <1>3, <2>1
<1>5. w \in Srvs
  BY <1>4, ZenonT(90) DEF Srvs
<1>6. w.runs = b.runs /\ SameStatus(b, w) /\ Agent(w) = Agent(b)
  BY <1>4 DEF Srvs, SameStatus, Agent
<1>7. Life(w) = Life(b)
  BY <1>4 DEF Srvs, Life
<1> HIDE DEF w, v
<1>8. Steps(b, w)
  BY <1>3, <1>5, <1>6, <1>7, RestHolds DEF Steps, SameLife
<1>9. Steps(v, w) /\ w.id = v.id /\ w.up = v.up
  BY <1>3, <1>6, <1>7, <1>8 DEF Steps, Careful, SameStatus, Agent, Life
<1> QED
  BY <1>1, <1>9 DEF ServerStepped, v

\* The queue's tick keeps it.
LEMMA DispatchSteps ==
    ASSUME NEW s \in Servers, SrvHolds(srv[s]), UpdDispatch(s)
    PROVE  ServerStepped(s)
<1> DEFINE v == srv[s]
           w == Sent([v EXCEPT !.queue = @ - 1])
<1>1. v.up \in {"serving", "ending"} /\ v.queue > 0 /\ v.state # "restarting" /\ srv' = [srv EXCEPT ![s] = w]
  BY DEF UpdDispatch, HoldsQueue
<1>2. v \in Srvs /\ v.queue - 1 \in Nat
  <2>1. v \in Srvs /\ v.queue \in Nat
    BY CountFacts DEF SrvHolds
  <2> QED
    BY <1>1, <2>1
<1>3. ~v.updating
  BY <1>1 DEF SrvHolds, StatusHolds
<1>4. Steps(v, w) /\ w.id = v.id /\ w.up = v.up
  BY <1>1, <1>2, <1>3, SentHolds
<1> HIDE DEF w
<1> QED
  BY <1>1, <1>4 DEF ServerStepped

\* A change of the agent or of its lifecycle.
LEMMA AgentChanges ==
    ASSUME NEW v, SrvHolds(v), v.up \in {"serving", "ending", "stopping"}, NEW b \in Srvs, b.runs = v.runs, SameStatus(v, b),
           Life(b) = Life(v), b.sent = v.sent, NEW w, w = StatusChanged(b)
    PROVE  Steps(v, w) /\ w.id = v.id /\ w.up = v.up
<1>1. RestartHolds(v) /\ EntryHolds(v)
  BY DEF SrvHolds
<1>2. /\ b.up = v.up /\ b.term = v.term /\ b.requested = v.requested /\ b.sig = v.sig /\ b.checked = v.checked
      /\ b.why = v.why /\ b.version = v.version /\ b.prompt = v.prompt /\ b.prompted = v.prompted /\ b.id = v.id /\ b.entry = v.entry
  BY DEF Life
<1>3. RestartHolds(b) /\ EntryHolds(b)
  BY <1>1, <1>2 DEF RestartHolds, EntryHolds
<1>4. Steps(v, w) /\ SameLife(b, w)
  BY <1>3, AgentHolds
<1> QED
  BY <1>2, <1>4 DEF SameLife, Life

\* What the agent does on its own keeps it.
LEMMA AgentSteps ==
    ASSUME NEW s \in Servers, SrvHolds(srv[s]), UpdAgent(s)
    PROVE  ServerStepped(s)
<1> DEFINE v == srv[s]
           own == v.own - 1
<1>1. v.up \in {"serving", "ending", "stopping"} /\ v \in Srvs
  BY DEF UpdAgent, Up, SrvHolds
<1>2. \/ srv' = [srv EXCEPT ![s] = StatusChanged([v EXCEPT !.agent = "idle"])]
      \/ v.own > 0 /\ srv' = [srv EXCEPT ![s] = StatusChanged([v EXCEPT !.agent = "busy", !.own = own])]
  BY DEF UpdAgent
<1>3. ASSUME NEW b \in Srvs, b.runs = v.runs, SameStatus(v, b), Life(b) = Life(v), b.sent = v.sent,
             srv' = [srv EXCEPT ![s] = StatusChanged(b)]
      PROVE  ServerStepped(s)
  <2> DEFINE w == StatusChanged(b)
  <2>1. Steps(v, w) /\ w.id = v.id /\ w.up = v.up
    BY <1>1, <1>3, AgentChanges
  <2> HIDE DEF w
  <2> QED
    BY <1>3, <2>1 DEF ServerStepped, w
<1>4. "idle" \in Agents /\ "busy" \in Agents
  BY DEF Agents
<1> HIDE DEF v
<1>5. CASE srv' = [srv EXCEPT ![s] = StatusChanged([v EXCEPT !.agent = "idle"])]
  <2> DEFINE b == [v EXCEPT !.agent = "idle"]
  <2>1. b \in Srvs
    BY <1>1, <1>4, ZenonT(90) DEF Srvs
  <2>2. b.runs = v.runs /\ SameStatus(v, b) /\ b.sent = v.sent
    BY <1>1 DEF Srvs, SameStatus
  <2>3. Life(b) = Life(v)
    BY <1>1 DEF Srvs, Life
  <2> QED
    BY <1>3, <1>5, <2>1, <2>2, <2>3
<1>6. CASE v.own > 0 /\ srv' = [srv EXCEPT ![s] = StatusChanged([v EXCEPT !.agent = "busy", !.own = own])]
  <2> DEFINE b == [v EXCEPT !.agent = "busy", !.own = own]
  <2>1. own \in Nat
    BY <1>1, <1>6, CountFacts
  <2> HIDE DEF own
  <2>2. b \in Srvs
    BY <1>1, <1>4, <2>1, ZenonT(90) DEF Srvs
  <2>3. b.runs = v.runs /\ SameStatus(v, b) /\ b.sent = v.sent
    BY <1>1 DEF Srvs, SameStatus
  <2>4. Life(b) = Life(v)
    BY <1>1 DEF Srvs, Life
  <2> QED
    BY <1>3, <1>6, <2>2, <2>3, <2>4
<1> QED
  BY <1>2, <1>5, <1>6

\* A restart of the agent, its beginning and its end, keeps it.
LEMMA AgentRestartSteps ==
    ASSUME NEW s \in Servers, SrvHolds(srv[s]), UpdAgentRestarts(s)
    PROVE  ServerStepped(s)
<1> DEFINE v == srv[s]
           left == v.restarts - 1
<1>1. v.up \in {"serving", "ending", "stopping"} /\ v \in Srvs
  BY DEF UpdAgentRestarts, Up, SrvHolds
<1>2. \/ /\ v.restarts > 0
         /\ srv' = [srv EXCEPT ![s] = StatusChanged([v EXCEPT !.restarting = TRUE, !.agent = "down", !.queue = 0, !.restarts = left])]
      \/ srv' = [srv EXCEPT ![s] = StatusChanged([v EXCEPT !.restarting = FALSE, !.agent = "idle"])]
  BY DEF UpdAgentRestarts
<1>3. ASSUME NEW b \in Srvs, b.runs = v.runs, SameStatus(v, b), Life(b) = Life(v), b.sent = v.sent,
             srv' = [srv EXCEPT ![s] = StatusChanged(b)]
      PROVE  ServerStepped(s)
  <2> DEFINE w == StatusChanged(b)
  <2>1. Steps(v, w) /\ w.id = v.id /\ w.up = v.up
    BY <1>1, <1>3, AgentChanges
  <2> HIDE DEF w
  <2> QED
    BY <1>3, <2>1 DEF ServerStepped, w
<1>4. "idle" \in Agents /\ "down" \in Agents /\ 0 \in Nat
  BY DEF Agents
<1> HIDE DEF v
<1>5. CASE srv' = [srv EXCEPT ![s] = StatusChanged([v EXCEPT !.restarting = FALSE, !.agent = "idle"])]
  <2> DEFINE b == [v EXCEPT !.restarting = FALSE, !.agent = "idle"]
  <2>1. b \in Srvs
    BY <1>1, <1>4, ZenonT(90) DEF Srvs
  <2>2. b.runs = v.runs /\ SameStatus(v, b) /\ b.sent = v.sent
    BY <1>1 DEF Srvs, SameStatus
  <2>3. Life(b) = Life(v)
    BY <1>1 DEF Srvs, Life
  <2> QED
    BY <1>3, <1>5, <2>1, <2>2, <2>3
<1>6. CASE /\ v.restarts > 0
           /\ srv' = [srv EXCEPT ![s] = StatusChanged([v EXCEPT !.restarting = TRUE, !.agent = "down", !.queue = 0, !.restarts = left])]
  <2> DEFINE b == [v EXCEPT !.restarting = TRUE, !.agent = "down", !.queue = 0, !.restarts = left]
  <2>1. left \in Nat
    BY <1>1, <1>6, CountFacts
  <2> HIDE DEF left
  <2>2. b \in Srvs
    BY <1>1, <1>4, <2>1, ZenonT(90) DEF Srvs
  <2>3. b.runs = v.runs /\ SameStatus(v, b) /\ b.sent = v.sent
    BY <1>1 DEF Srvs, SameStatus
  <2>4. Life(b) = Life(v)
    BY <1>1 DEF Srvs, Life
  <2> QED
    BY <1>3, <1>6, <2>2, <2>3, <2>4
<1> QED
  BY <1>2, <1>5, <1>6

\* sendInitialPrompt: it was due, so it had not gone out.
LEMMA PromptSteps ==
    ASSUME NEW s \in Servers, SrvHolds(srv[s]), UpdPrompts(s)
    PROVE  ServerStepped(s)
<1> DEFINE v == srv[s]
           b == [v EXCEPT !.prompt = "sent", !.agent = "busy", !.prompted = 1]
           w == StatusChanged(b)
<1>1. v.up \in {"serving", "ending", "stopping"} /\ v \in Srvs /\ v.prompt = "due" /\ RestartHolds(v) /\ EntryHolds(v)
  BY DEF UpdPrompts, Up, SrvHolds
<1>2. v.prompted = 0
  BY <1>1 DEF RestartHolds
<1>3. srv' = [srv EXCEPT ![s] = w]
  BY <1>2 DEF UpdPrompts
<1>4. "sent" \in Prompts /\ "busy" \in Agents /\ 1 \in Nat
  BY DEF Prompts, Agents
<1> HIDE DEF v
<1>5. b \in Srvs
  BY <1>1, <1>4, ZenonT(90) DEF Srvs
<1>6. b.runs = v.runs /\ SameStatus(v, b) /\ b.sent = v.sent
  BY <1>1 DEF Srvs, SameStatus
<1>7. /\ b.up = v.up /\ b.term = v.term /\ b.requested = v.requested /\ b.sig = v.sig /\ b.checked = v.checked /\ b.why = v.why
      /\ b.version = v.version /\ b.prompt = "sent" /\ b.prompted = 1 /\ b.id = v.id /\ b.entry = v.entry
  BY <1>1 DEF Srvs
<1> HIDE DEF b
<1>8. RestartHolds(b) /\ EntryHolds(b)
  BY <1>1, <1>6, <1>7 DEF RestartHolds, EntryHolds
<1>9. Steps(v, w) /\ SameLife(b, w)
  BY <1>5, <1>6, <1>8, AgentHolds DEF v
<1> HIDE DEF w
<1>10. w.id = v.id /\ w.up = v.up
  BY <1>7, <1>9 DEF SameLife, Life
<1> QED
  BY <1>3, <1>9, <1>10 DEF ServerStepped, v

\* watchBlocked.
LEMMA TickSteps ==
    ASSUME NEW s \in Servers, SrvHolds(srv[s]), UpdTicks(s), machine.writable \in BOOLEAN
    PROVE  ServerStepped(s)
<1> DEFINE v == srv[s]
           no == ~machine.writable
           w == [v EXCEPT !.blocked = no]
<1>1. v \in Srvs /\ no \in BOOLEAN
  BY DEF SrvHolds
<1>2. srv' = [srv EXCEPT ![s] = w]
  BY DEF UpdTicks
<1> HIDE DEF v, no
<1>3. w \in Srvs
  BY <1>1, ZenonT(90) DEF Srvs
<1>4. w.runs = v.runs /\ SameStatus(v, w) /\ Agent(w) = Agent(v)
  BY <1>1 DEF Srvs, SameStatus, Agent
<1>5. Life(w) = Life(v)
  BY <1>1 DEF Srvs, Life
<1> HIDE DEF w
<1>6. Steps(v, w)
  BY <1>3, <1>4, <1>5, RestHolds DEF SameLife, v
<1>7. w.id = v.id /\ w.up = v.up
  BY <1>5 DEF Life
<1> QED
  BY <1>2, <1>6, <1>7 DEF ServerStepped, v

-----------------------------------------------------------------------------
(* The requests of the API: to update, and not to.                          *)

\* An update under way may be asked to hurry.
LEMMA HurryHolds ==
    ASSUME NEW v, SrvHolds(v), v.run # 0, NEW now \in BOOLEAN, NEW w, w = [v EXCEPT !.runs[v.run].now = @ \/ now]
    PROVE  Steps(v, w) /\ SameLife(v, w)
<1> DEFINE n == v.run
           b == v.runs[n].now \/ now
           r == [v.runs[n] EXCEPT !.now = b]
<1>1. v \in Srvs /\ StatusHolds(v) /\ WaitersHear(v) /\ RestartHolds(v)
  BY DEF SrvHolds
<1>2. n \in DOMAIN v.runs
  BY <1>1 DEF StatusHolds
<1>3. HasTold(v.runs[n])
  BY <1>1, <1>2 DEF StatusHolds
<1>4. v.runs[n] \in Runs
  BY <1>1, <1>2, RunFacts
<1>5. b \in BOOLEAN /\ (v.runs[n].now => b = TRUE) /\ w = [v EXCEPT !.runs = [v.runs EXCEPT ![n] = r]]
  OBVIOUS
<1> HIDE DEF b
<1>6. r \in Runs /\ r.now = b
  BY <1>4, <1>5, Zenon DEF Runs
<1>7. r.pc = v.runs[n].pc /\ r.told = v.runs[n].told /\ r.waiting = v.runs[n].waiting /\ r.over = v.runs[n].over /\ r.woken = v.runs[n].woken
  BY <1>4 DEF Runs
<1> HIDE DEF r, n
<1>8. RunPut(v, w, n, r) /\ SameLife(v, w) /\ SameStatus(v, w)
  BY <1>1, <1>2, <1>5, <1>6, PutsRun
<1>9. HasTold(r)
  BY <1>3, <1>7 DEF HasTold
<1>10. StatusHolds(w)
  BY <1>1, <1>2, <1>7, <1>8, <1>9, StatusStays
<1>11. r.pc \in {"wait", "waiting"} /\ v.agent = "idle" /\ ~v.restarting => r.woken \/ r.now \/ r.over
  BY <1>1, <1>2, <1>5, <1>6, <1>7 DEF WaitersHear
<1>12. r.pc = "checked" => WouldStart(v.checked)
  BY <1>1, <1>2, <1>7 DEF RestartHolds
<1>13. SrvHolds(w)
  BY <1>2, <1>8, <1>10, <1>11, <1>12, RunHolds
<1> QED
  BY <1>8, <1>13 DEF Steps, Careful, SameLife, SameStatus, Agent

\* What an update starts with.
LEMMA NewRunFacts ==
    ASSUME NEW now \in BOOLEAN
    PROVE  NewRun(now) \in Runs /\ NewRun(now).pc = "latest" /\ HasTold(NewRun(now)) /\ "latest" \notin Restarting
<1>1. "latest" \in RunSteps /\ "latest" \notin Restarting /\ "latest" \notin Answered
  BY DEF RunSteps, Answered, Restarting
<1>2. NewRun(now) \in Runs /\ NewRun(now).pc = "latest" /\ NewRun(now).waiting = FALSE
  BY <1>1 DEF NewRun, Runs
<1> QED
  BY <1>1, <1>2 DEF HasTold

\* An update begins.
LEMMA BeginHolds ==
    ASSUME NEW v, SrvHolds(v), v.run = 0, v.up \in {"serving", "ending"}, NEW now \in BOOLEAN,
           NEW rs, rs = Append(v.runs, NewRun(now)), NEW n, n = Len(v.runs) + 1,
           NEW w, w = [v EXCEPT !.runs = rs, !.run = n, !.state = "checking", !.target = 0]
    PROVE  Steps(v, w) /\ SameLife(v, w)
<1>1. v \in Srvs /\ StatusHolds(v) /\ WaitersHear(v) /\ RestartHolds(v) /\ EntryHolds(v)
  BY DEF SrvHolds
<1>2. NewRun(now) \in Runs /\ NewRun(now).pc = "latest" /\ HasTold(NewRun(now)) /\ "latest" \notin Restarting
  BY NewRunFacts
<1>3. v.runs \in Seq(Runs)
  BY <1>1, SrvFacts
<1>4. /\ rs \in Seq(Runs) /\ n \in Nat /\ n # 0 /\ DOMAIN rs = DOMAIN v.runs \cup {n} /\ n \notin DOMAIN v.runs
      /\ rs[n] = NewRun(now) /\ \A m \in DOMAIN v.runs : rs[m] = v.runs[m]
  BY <1>2, <1>3
<1>5. "checking" \in States /\ 0 \in Nat
  BY DEF States
<1>6. w = [v EXCEPT !.runs = rs, !.run = n, !.state = "checking", !.target = 0]
  OBVIOUS
<1>7. w \in Srvs
  <2>1. v \in Srvs /\ rs \in Seq(Runs) /\ n \in Nat
    BY <1>1, <1>4
  <2> QED
    BY <1>5, <1>6, <2>1, ZenonT(90) DEF Srvs
<1>8. w.runs = rs /\ w.run = n /\ w.state = "checking" /\ w.updating = v.updating /\ Agent(w) = Agent(v)
  BY <1>1, <1>6 DEF Srvs, Agent
<1>9. Life(w) = Life(v)
  BY <1>1, <1>6 DEF Srvs, Life
<1>10. /\ w.up = v.up /\ w.term = v.term /\ w.requested = v.requested /\ w.sig = v.sig /\ w.checked = v.checked
       /\ w.why = v.why /\ w.version = v.version /\ w.prompt = v.prompt /\ w.prompted = v.prompted /\ w.id = v.id /\ w.entry = v.entry
       /\ w.agent = v.agent /\ w.restarting = v.restarting
  BY <1>8, <1>9 DEF Life, Agent
<1>11. ASSUME NEW m \in DOMAIN v.runs
       PROVE  HasTold(v.runs[m]) /\ v.runs[m].over /\ v.runs[m].pc \notin Restarting
  <2>1. m # 0
    BY <1>1, RunFacts
  <2> QED
    BY <1>1, <2>1 DEF StatusHolds
<1>12. v.updating \in BOOLEAN /\ ~v.updating
  BY <1>1, SrvFacts DEF StatusHolds
<1>13. {"restart", "checked"} \subseteq Restarting
  BY DEF Restarting
<1>14. StatusHolds(w)
  <2>1. ASSUME NEW m \in DOMAIN w.runs
        PROVE  /\ HasTold(w.runs[m]) /\ w.runs[m].pc \notin Restarting /\ (m # n => w.runs[m].over)
               /\ w.runs[m].pc \notin {"restart", "checked"}
    BY <1>2, <1>4, <1>8, <1>11, <1>13
  <2> QED
    BY <1>4, <1>8, <1>12, <2>1 DEF StatusHolds
<1>15. WaitersHear(w)
  BY <1>2, <1>4, <1>8, <1>11 DEF WaitersHear
<1>16. (\E m \in DOMAIN w.runs : w.runs[m].pc = "checked") => (\E m \in DOMAIN v.runs : v.runs[m].pc = "checked")
  BY <1>2, <1>4, <1>8
<1>17. RestartHolds(w)
  BY <1>1, <1>10, <1>16 DEF RestartHolds
<1>18. EntryHolds(w)
  BY <1>1, <1>10 DEF EntryHolds
<1>19. SrvHolds(w)
  BY <1>7, <1>14, <1>15, <1>17, <1>18 DEF SrvHolds
<1> QED
  BY <1>8, <1>9, <1>12, <1>19 DEF Steps, Careful, SameLife

\* POST /update keeps it.
LEMMA PostSteps ==
    ASSUME NEW s \in Servers, SrvHolds(srv[s]), NEW now \in BOOLEAN, UpdPost(s, now), machine.writable \in BOOLEAN
    PROVE  ServerStepped(s)
<1> DEFINE v == srv[s]
           no == ~machine.writable
           k == [v EXCEPT !.blocked = no]
           b == Posted(v, now)
           w == [b EXCEPT !.posts = @ - 1]
<1>1. v \in Srvs /\ no \in BOOLEAN /\ v.up \in {"serving", "ending"} /\ v.posts > 0 /\ srv' = [srv EXCEPT ![s] = w]
  BY DEF SrvHolds, UpdPost
<1>2. b = IF k.run # 0 THEN [k EXCEPT !.runs[k.run].now = @ \/ now]
          ELSE IF no THEN k
          ELSE [k EXCEPT !.runs = Append(@, NewRun(now)), !.run = Len(k.runs) + 1, !.state = "checking", !.target = 0]
  BY <1>1 DEF Posted, Srvs
<1> HIDE DEF v, no, b
<1>3. k \in Srvs
  BY <1>1, ZenonT(90) DEF Srvs
<1>4. k.runs = v.runs /\ SameStatus(v, k) /\ Agent(k) = Agent(v) /\ k.posts = v.posts
  BY <1>1 DEF Srvs, SameStatus, Agent
<1>5. Life(k) = Life(v)
  BY <1>1 DEF Srvs, Life
<1> HIDE DEF k
<1>6. Steps(v, k) /\ SrvHolds(k) /\ k.up = v.up
  BY <1>3, <1>4, <1>5, RestHolds DEF SameLife, Steps, v, Life
<1>7. Steps(k, b) /\ SameLife(k, b)
  <2>1. CASE k.run # 0
    BY <1>2, <1>6, <2>1, HurryHolds
  <2>2. CASE k.run = 0 /\ b = k
    BY <1>6, <2>2 DEF Steps, Careful, SameLife
  <2>3. CASE k.run = 0 /\ b = [k EXCEPT !.runs = Append(@, NewRun(now)), !.run = Len(k.runs) + 1, !.state = "checking", !.target = 0]
    <3> DEFINE rs == Append(k.runs, NewRun(now))
               n == Len(k.runs) + 1
    <3>1. b = [k EXCEPT !.runs = rs, !.run = n, !.state = "checking", !.target = 0]
      BY <2>3
    <3> QED
      BY <1>1, <1>6, <2>3, <3>1, BeginHolds
  <2> QED
    BY <1>2, <2>1, <2>2, <2>3
<1>8. b.posts = k.posts
  BY <1>2, <1>3 DEF Srvs
<1>9. b \in Srvs /\ b.posts - 1 \in Nat
  <2>1. b \in Srvs /\ v.posts \in Nat
    BY <1>1, <1>7, CountFacts DEF Steps, SrvHolds
  <2> QED
    BY <1>1, <1>4, <1>8, <2>1
<1>10. w \in Srvs
  BY <1>9, ZenonT(90) DEF Srvs
<1>11. w.runs = b.runs /\ SameStatus(b, w) /\ Agent(w) = Agent(b)
  BY <1>9 DEF Srvs, SameStatus, Agent
<1>12. Life(w) = Life(b)
  BY <1>9 DEF Srvs, Life
<1> HIDE DEF w
<1>13. Steps(b, w)
  BY <1>7, <1>10, <1>11, <1>12, RestHolds DEF Steps, SameLife
<1>14. Careful(v, w)
  BY <1>4, <1>7, <1>11 DEF Steps, Careful, SameLife, SameStatus, Agent
<1>15. w.id = v.id /\ w.up = v.up
  BY <1>5, <1>7, <1>12 DEF SameLife, Life
<1> QED
  BY <1>1, <1>13, <1>14, <1>15 DEF ServerStepped, Steps, v

\* deleteUpdate cancels the update before it restarts the server.
LEMMA DeletedHolds ==
    ASSUME NEW v, SrvHolds(v), v.state # "restarting", NEW w, w = Deleted(v)
    PROVE  Steps(v, w) /\ SameLife(v, w) /\ w.deletes = v.deletes
<1> DEFINE n == v.run
           rs == IF n = 0 THEN v.runs ELSE [v.runs EXCEPT ![n] = RunOver(v.runs[n])]
<1>1. v \in Srvs /\ StatusHolds(v) /\ WaitersHear(v) /\ RestartHolds(v) /\ EntryHolds(v)
  BY DEF SrvHolds
<1>2. v.runs \in Seq(Runs) /\ (n # 0 => n \in DOMAIN v.runs)
  BY <1>1, SrvFacts DEF StatusHolds
<1>3. /\ rs \in Seq(Runs) /\ DOMAIN rs = DOMAIN v.runs
      /\ \A m \in DOMAIN v.runs : v.runs[m] \in Runs /\ (rs[m] = v.runs[m] \/ rs[m] = RunOver(v.runs[m])) /\ (m = n => rs[m] = RunOver(v.runs[m]))
  <2>1. \A m \in DOMAIN v.runs : v.runs[m] \in Runs /\ RunOver(v.runs[m]) \in Runs /\ m # 0
    BY <1>1, RunFacts, OverFacts
  <2>2. CASE n = 0
    BY <1>2, <2>1, <2>2
  <2>3. CASE n # 0
    BY <1>2, <2>1, <2>3
  <2> QED
    BY <2>2, <2>3
<1>4. "idle" \in States /\ 0 \in Nat
  BY DEF States
<1>5. w = [v EXCEPT !.runs = rs, !.run = 0, !.state = "idle", !.target = 0]
  <2>1. CASE n = 0
    BY <1>1, <2>1 DEF Deleted, Srvs
  <2>2. CASE n # 0
    BY <1>1, <2>2 DEF Deleted, Srvs, RunOver
  <2> QED
    BY <2>1, <2>2
<1> HIDE DEF rs, n
<1>6. w \in Srvs
  <2>1. v \in Srvs /\ rs \in Seq(Runs)
    BY <1>1, <1>3
  <2> QED
    BY <1>4, <1>5, <2>1, ZenonT(90) DEF Srvs
<1>7. w.runs = rs /\ w.run = 0 /\ w.state = "idle" /\ w.updating = v.updating /\ Agent(w) = Agent(v) /\ w.deletes = v.deletes
  BY <1>1, <1>5 DEF Srvs, Agent
<1>8. Life(w) = Life(v)
  BY <1>1, <1>5 DEF Srvs, Life
<1>9. /\ w.up = v.up /\ w.term = v.term /\ w.requested = v.requested /\ w.sig = v.sig /\ w.checked = v.checked
      /\ w.why = v.why /\ w.version = v.version /\ w.prompt = v.prompt /\ w.prompted = v.prompted /\ w.id = v.id /\ w.entry = v.entry
      /\ w.agent = v.agent /\ w.restarting = v.restarting
  BY <1>7, <1>8 DEF Life, Agent
<1>10. v.updating \in BOOLEAN /\ ~v.updating
  BY <1>1, SrvFacts DEF StatusHolds
<1>11. {"restart", "checked"} \subseteq Restarting
  BY DEF Restarting
<1>12. ASSUME NEW m \in DOMAIN w.runs
       PROVE  /\ HasTold(w.runs[m]) /\ w.runs[m].over /\ w.runs[m].pc = v.runs[m].pc /\ m \in DOMAIN v.runs
              /\ w.runs[m].pc \notin Restarting
  <2>1. m \in DOMAIN v.runs /\ v.runs[m] \in Runs /\ HasTold(v.runs[m]) /\ v.runs[m].pc \notin Restarting /\ (m # n => v.runs[m].over)
    BY <1>1, <1>3, <1>7 DEF StatusHolds, n
  <2>2. /\ RunOver(v.runs[m]).over /\ RunOver(v.runs[m]).pc = v.runs[m].pc /\ RunOver(v.runs[m]).told = v.runs[m].told
        /\ RunOver(v.runs[m]).waiting = v.runs[m].waiting
    BY <2>1, OverFacts
  <2>3. HasTold(RunOver(v.runs[m]))
    BY <2>1, <2>2 DEF HasTold
  <2> QED
    BY <1>3, <1>7, <2>1, <2>2, <2>3
<1>13. StatusHolds(w)
  BY <1>7, <1>10, <1>11, <1>12 DEF StatusHolds
<1>14. WaitersHear(w)
  BY <1>12 DEF WaitersHear
<1>15. (\E m \in DOMAIN w.runs : w.runs[m].pc = "checked") => (\E m \in DOMAIN v.runs : v.runs[m].pc = "checked")
  BY <1>12
<1>16. v.runs = << >> => w.runs = << >>
  BY <1>3, <1>7
<1>17. RestartHolds(w)
  BY <1>1, <1>9, <1>15, <1>16 DEF RestartHolds
<1>18. EntryHolds(w)
  BY <1>1, <1>9 DEF EntryHolds
<1>19. SrvHolds(w)
  BY <1>6, <1>13, <1>14, <1>17, <1>18 DEF SrvHolds
<1> QED
  BY <1>7, <1>8, <1>10, <1>19 DEF Steps, Careful, SameLife

\* DELETE /update keeps it.
LEMMA DeleteSteps ==
    ASSUME NEW s \in Servers, SrvHolds(srv[s]), UpdDelete(s)
    PROVE  ServerStepped(s)
<1> DEFINE v == srv[s]
           b == Deleted(v)
           w == [b EXCEPT !.deletes = @ - 1]
<1>1. v \in Srvs /\ v.state # "restarting" /\ v.deletes > 0 /\ srv' = [srv EXCEPT ![s] = w]
  BY DEF SrvHolds, UpdDelete
<1>2. Steps(v, b) /\ SameLife(v, b) /\ b.deletes = v.deletes
  BY <1>1, DeletedHolds
<1> HIDE DEF b, v
<1>3. b \in Srvs /\ b.deletes - 1 \in Nat
  <2>1. b \in Srvs /\ v.deletes \in Nat
    BY <1>1, <1>2, CountFacts DEF Steps, SrvHolds
  <2> QED
    BY <1>1, <1>2, <2>1
<1>4. w \in Srvs
  BY <1>3, ZenonT(90) DEF Srvs
<1>5. w.runs = b.runs /\ SameStatus(b, w) /\ Agent(w) = Agent(b)
  BY <1>3 DEF Srvs, SameStatus, Agent
<1>6. Life(w) = Life(b)
  BY <1>3 DEF Srvs, Life
<1> HIDE DEF w
<1>7. Steps(b, w)
  BY <1>2, <1>4, <1>5, <1>6, RestHolds DEF Steps, SameLife
<1>8. Careful(v, w)
  BY <1>2, <1>5 DEF Steps, Careful, SameLife, SameStatus, Agent
<1>9. w.id = v.id /\ w.up = v.up
  BY <1>2, <1>6 DEF SameLife, Life
<1> QED
  BY <1>1, <1>7, <1>8, <1>9 DEF ServerStepped, Steps, v

-----------------------------------------------------------------------------
(* The server's process.                                                    *)

\* The PID file is read, written, or removed: only how far the server got
\* changes.
Booted(v, up, pid, why) == [v EXCEPT !.up = up, !.pid = pid, !.why = why]

\* A server's steps at the PID file keep it.
LEMMA BootSteps ==
    ASSUME NEW v, SrvHolds(v), v.up \in {"boot", "writing"}, NEW up \in {"boot", "writing", "starting", "gone"}, NEW pid \in Pids,
           NEW why \in {v.why, "refused", "failed"},
           NEW w, w = Booted(v, up, pid, why)
    PROVE  Steps(v, w) /\ w.id = v.id /\ w.up = up
<1>1. v \in Srvs /\ RestartHolds(v) /\ EntryHolds(v)
  BY DEF SrvHolds
<1>2. up \in Ups /\ why \in Whys
  BY <1>1 DEF Ups, Whys, Srvs
<1>3. w \in Srvs
  BY <1>1, <1>2, ZenonT(90) DEF Srvs, Booted
<1>4. w.runs = v.runs /\ SameStatus(v, w) /\ Agent(w) = Agent(v)
  BY <1>1 DEF Srvs, SameStatus, Agent, Booted
<1>5. /\ w.up = up /\ w.term = v.term /\ w.requested = v.requested /\ w.sig = v.sig /\ w.checked = v.checked
      /\ w.why = why /\ w.version = v.version /\ w.prompt = v.prompt /\ w.prompted = v.prompted /\ w.id = v.id /\ w.entry = v.entry
  BY <1>1 DEF Srvs, Booted
<1>6. RestartHolds(w) /\ EntryHolds(w)
  BY <1>1, <1>4, <1>5 DEF RestartHolds, EntryHolds, Agent
<1> QED
  BY <1>3, <1>4, <1>5, <1>6, LifeHolds

\* serve: the server listens and registers.
LEMMA ServesHolds ==
    ASSUME NEW v, SrvHolds(v), v.up = "starting", NEW w, w = Registered([v EXCEPT !.up = "serving"])
    PROVE  Steps(v, w) /\ w.id = v.id /\ w.up = "serving"
<1>1. v \in Srvs /\ RestartHolds(v) /\ EntryHolds(v)
  BY DEF SrvHolds
<1>2. w = [v EXCEPT !.up = "serving", !.entry = v.id]
  BY <1>1 DEF Registered, Srvs
<1>3. "serving" \in Ups /\ v.id \in Nat
  BY <1>1, SrvFacts DEF Ups
<1>4. w \in Srvs
  BY <1>1, <1>2, <1>3, ZenonT(90) DEF Srvs
<1>5. w.runs = v.runs /\ SameStatus(v, w) /\ Agent(w) = Agent(v)
  BY <1>1, <1>2, ZenonT(60) DEF Srvs, SameStatus, Agent
<1>6. /\ w.up = "serving" /\ w.term = v.term /\ w.requested = v.requested /\ w.sig = v.sig /\ w.checked = v.checked
      /\ w.why = v.why /\ w.version = v.version /\ w.prompt = v.prompt /\ w.prompted = v.prompted /\ w.id = v.id /\ w.entry = v.id
  BY <1>1, <1>2, ZenonT(60) DEF Srvs
<1>7. RestartHolds(w)
  BY <1>1, <1>5, <1>6 DEF RestartHolds, Agent
<1>8. EntryHolds(w)
  BY <1>3, <1>6 DEF EntryHolds
<1> QED
  BY <1>4, <1>5, <1>6, <1>7, <1>8, LifeHolds

\* The server fails, is killed, or exits.
Leaving(v, up, why) == [v EXCEPT !.up = up, !.why = why]

\* A server that stops or is gone keeps it.
LEMMA LeavesHolds ==
    ASSUME NEW v, SrvHolds(v), NEW up \in {"ending", "gone"}, NEW why \in {v.why, "failed", "exit", "killed"},
           up = "ending" => v.up = "starting", NEW w, w = Leaving(v, up, why)
    PROVE  Steps(v, w) /\ w.id = v.id /\ w.up = up
<1>1. v \in Srvs /\ RestartHolds(v) /\ EntryHolds(v)
  BY DEF SrvHolds
<1>2. up \in Ups /\ why \in Whys
  BY <1>1 DEF Ups, Whys, Srvs
<1>3. w \in Srvs
  BY <1>1, <1>2, ZenonT(90) DEF Srvs, Leaving
<1>4. w.runs = v.runs /\ SameStatus(v, w) /\ Agent(w) = Agent(v)
  BY <1>1 DEF Srvs, SameStatus, Agent, Leaving
<1>5. /\ w.up = up /\ w.term = v.term /\ w.requested = v.requested /\ w.sig = v.sig /\ w.checked = v.checked
      /\ w.why = why /\ w.version = v.version /\ w.prompt = v.prompt /\ w.prompted = v.prompted /\ w.id = v.id /\ w.entry = v.entry
  BY <1>1 DEF Srvs, Leaving
<1>6. RestartHolds(w) /\ EntryHolds(w)
  BY <1>1, <1>4, <1>5 DEF RestartHolds, EntryHolds, Agent
<1> QED
  BY <1>3, <1>4, <1>5, <1>6, LifeHolds

\* Stop: every run is over.
LEMMA StopsHolds ==
    ASSUME NEW v, SrvHolds(v), v.up = "ending", NEW rs, rs = [n \in DOMAIN v.runs |-> RunOver(v.runs[n])],
           NEW w, w = [v EXCEPT !.entry = 0, !.up = "stopping", !.runs = rs]
    PROVE  Steps(v, w) /\ w.id = v.id /\ w.up = "stopping"
<1>1. v \in Srvs /\ StatusHolds(v) /\ RestartHolds(v)
  BY DEF SrvHolds
<1>2. v.runs \in Seq(Runs)
  BY <1>1, SrvFacts
<1>3. \A n \in DOMAIN v.runs : v.runs[n] \in Runs /\ RunOver(v.runs[n]) \in Runs
  BY <1>2, OverFacts
<1>4. rs \in Seq(Runs) /\ DOMAIN rs = DOMAIN v.runs /\ \A n \in DOMAIN v.runs : rs[n] = RunOver(v.runs[n])
  BY <1>2, <1>3
<1>5. w \in Srvs
  <2>1. v \in Srvs /\ rs \in Seq(Runs) /\ "stopping" \in Ups /\ 0 \in Nat /\ w = [v EXCEPT !.entry = 0, !.up = "stopping", !.runs = rs]
    BY <1>1, <1>4 DEF Ups
  <2> QED
    BY <2>1, ZenonT(90) DEF Srvs
<1>6. w.runs = rs /\ SameStatus(v, w) /\ Agent(w) = Agent(v)
  BY <1>1 DEF Srvs, SameStatus, Agent
<1>7. /\ w.up = "stopping" /\ w.term = v.term /\ w.requested = v.requested /\ w.sig = v.sig /\ w.checked = v.checked
      /\ w.why = v.why /\ w.version = v.version /\ w.prompt = v.prompt /\ w.prompted = v.prompted /\ w.id = v.id /\ w.entry = 0
  BY <1>1 DEF Srvs
<1>8. ASSUME NEW m \in DOMAIN w.runs
      PROVE  HasTold(w.runs[m]) /\ w.runs[m].over /\ w.runs[m].pc = v.runs[m].pc /\ m \in DOMAIN v.runs
  <2>1. m \in DOMAIN v.runs /\ v.runs[m] \in Runs /\ HasTold(v.runs[m]) /\ w.runs[m] = RunOver(v.runs[m])
    BY <1>1, <1>3, <1>4, <1>6 DEF StatusHolds
  <2>2. /\ RunOver(v.runs[m]).over /\ RunOver(v.runs[m]).pc = v.runs[m].pc /\ RunOver(v.runs[m]).told = v.runs[m].told
        /\ RunOver(v.runs[m]).waiting = v.runs[m].waiting
    BY <2>1, OverFacts
  <2> QED
    BY <2>1, <2>2 DEF HasTold
<1>9. DOMAIN w.runs = DOMAIN v.runs
  BY <1>4, <1>6
<1>10. StatusHolds(w)
  BY <1>1, <1>6, <1>8, <1>9 DEF StatusHolds, SameStatus
<1>11. WaitersHear(w)
  BY <1>8 DEF WaitersHear
<1>12. (\E m \in DOMAIN w.runs : w.runs[m].pc = "checked") => (\E m \in DOMAIN v.runs : v.runs[m].pc = "checked")
  BY <1>8
<1>13. RestartHolds(w)
  BY <1>1, <1>7, <1>12 DEF RestartHolds
<1>14. EntryHolds(w)
  BY <1>1, <1>7, SrvFacts DEF EntryHolds
<1> QED
  BY <1>5, <1>6, <1>7, <1>10, <1>11, <1>13, <1>14 DEF Steps, SrvHolds, Careful, SameStatus, Agent

\* The agent is closed; the server runs again only if that is still asked.
LEMMA StoppedHolds ==
    ASSUME NEW v, SrvHolds(v), v.up = "stopping", NEW up, up = IF v.why = "" /\ v.requested THEN "exec" ELSE "exit",
           NEW w, w = [v EXCEPT !.agent = "down", !.restarting = FALSE, !.up = up]
    PROVE  Steps(v, w) /\ w.id = v.id /\ w.up \in {"exec", "exit"}
<1>1. v \in Srvs /\ StatusHolds(v) /\ RestartHolds(v) /\ EntryHolds(v)
  BY DEF SrvHolds
<1>2. up \in Ups /\ up \in {"exec", "exit"} /\ "down" \in Agents
  BY DEF Ups, Agents
<1>3. w \in Srvs
  <2>1. v \in Srvs /\ up \in Ups /\ "down" \in Agents /\ w = [v EXCEPT !.agent = "down", !.restarting = FALSE, !.up = up]
    BY <1>1, <1>2
  <2> QED
    BY <2>1, ZenonT(90) DEF Srvs
<1>4. w.runs = v.runs /\ SameStatus(v, w) /\ w.agent = "down" /\ w.sent = v.sent
  BY <1>1 DEF Srvs, SameStatus
<1>5. w.restarting = FALSE
  BY <1>1, ZenonT(90) DEF Srvs
<1>6. /\ w.up = up /\ w.term = v.term /\ w.requested = v.requested /\ w.sig = v.sig /\ w.checked = v.checked
      /\ w.why = v.why /\ w.version = v.version /\ w.prompt = v.prompt /\ w.prompted = v.prompted /\ w.id = v.id /\ w.entry = v.entry
  BY <1>1 DEF Srvs
<1>7. RestartHolds(w)
  BY <1>1, <1>2, <1>4, <1>5, <1>6, ZenonT(60) DEF RestartHolds
<1>8. EntryHolds(w) /\ WaitersHear(w)
  BY <1>1, <1>2, <1>4, <1>6 DEF EntryHolds, WaitersHear
<1>9. StatusHolds(w)
  BY <1>1, <1>4 DEF StatusHolds, SameStatus
<1> QED
  BY <1>2, <1>3, <1>4, <1>6, <1>7, <1>8, <1>9 DEF Steps, SrvHolds, Careful, SameStatus

\* exec: another run of the program, with nothing of the update left.  Its
\* state in three parts: the program, the update, the signals.
ProgramAgain(v, up, id, version) == [v EXCEPT !.up = up, !.id = id, !.version = version, !.state = "idle", !.target = 0]
UpdateAgain(v, blocked) == [v EXCEPT !.blocked = blocked, !.run = 0, !.runs = << >>, !.updating = FALSE, !.agent = "idle"]
SignalsAgain(v, prompt) == [v EXCEPT !.requested = FALSE, !.usr2 = FALSE, !.sig = "free", !.term = FALSE, !.prompt = prompt]

\* What exec does to the program of a server.
LEMMA AgainProgram ==
    ASSUME NEW v \in Srvs, NEW up \in Ups, NEW id \in Nat, NEW version \in Nat, NEW w, w = ProgramAgain(v, up, id, version)
    PROVE  /\ w \in Srvs /\ w.up = up /\ w.id = id /\ w.state = "idle"
           /\ w.prompt = v.prompt /\ w.why = v.why /\ w.prompted = v.prompted /\ w.entry = v.entry /\ w.sent = v.sent
<1>1. 0 \in Nat /\ "idle" \in States
  BY DEF States
<1>2. w \in Srvs
  BY <1>1, ZenonT(90) DEF Srvs, ProgramAgain
<1> QED
  BY <1>2 DEF Srvs, ProgramAgain

\* What exec does to its updates and its agent.
LEMMA AgainUpdate ==
    ASSUME NEW v \in Srvs, NEW blocked \in BOOLEAN, NEW w, w = UpdateAgain(v, blocked)
    PROVE  /\ w \in Srvs /\ w.run = 0 /\ w.runs = << >> /\ ~w.updating /\ w.agent = "idle" /\ w.up = v.up /\ w.id = v.id /\ w.state = v.state
           /\ w.prompt = v.prompt /\ w.why = v.why /\ w.prompted = v.prompted /\ w.entry = v.entry /\ w.sent = v.sent
<1>1. 0 \in Nat /\ "idle" \in Agents /\ << >> \in Seq(Runs)
  BY DEF Agents
<1>2. w \in Srvs
  BY <1>1, ZenonT(90) DEF Srvs, UpdateAgain
<1>3. w.updating = FALSE
  BY ZenonT(90) DEF Srvs, UpdateAgain
<1> QED
  BY <1>2, <1>3 DEF Srvs, UpdateAgain

\* What exec does to its signals and its prompt.
LEMMA AgainSignals ==
    ASSUME NEW v \in Srvs, NEW prompt \in Prompts, NEW w, w = SignalsAgain(v, prompt)
    PROVE  /\ w \in Srvs /\ ~w.requested /\ w.sig = "free" /\ ~w.term /\ w.prompt = prompt
           /\ w.up = v.up /\ w.id = v.id /\ w.why = v.why /\ w.prompted = v.prompted /\ w.entry = v.entry /\ w.sent = v.sent
           /\ w.run = v.run /\ w.runs = v.runs /\ w.updating = v.updating /\ w.agent = v.agent /\ w.state = v.state
<1>1. "free" \in Sigs
  BY DEF Sigs
<1>2. w \in Srvs
  BY <1>1, ZenonT(90) DEF Srvs, SignalsAgain
<1>3. w.requested = FALSE /\ w.term = FALSE
  BY ZenonT(90) DEF Srvs, SignalsAgain
<1> QED
  BY <1>2, <1>3 DEF Srvs, SignalsAgain

\* The three together: a server that starts again has forgotten all but its prompt's state.
LEMMA AgainFacts ==
    ASSUME NEW v \in Srvs, NEW up \in Ups, NEW id \in Nat, NEW version \in Nat, NEW blocked \in BOOLEAN, NEW prompt \in Prompts,
           NEW w, w = SignalsAgain(UpdateAgain(ProgramAgain(v, up, id, version), blocked), prompt)
    PROVE  /\ w \in Srvs /\ ~w.requested /\ w.sig = "free" /\ ~w.term /\ w.prompt = prompt /\ w.up = up /\ w.id = id
           /\ w.why = v.why /\ w.prompted = v.prompted /\ w.entry = v.entry /\ w.sent = v.sent
           /\ w.run = 0 /\ w.runs = << >> /\ ~w.updating /\ w.agent = "idle" /\ w.state = "idle"
<1> DEFINE a == ProgramAgain(v, up, id, version)
           b == UpdateAgain(a, blocked)
<1>1. /\ a \in Srvs /\ a.up = up /\ a.id = id /\ a.state = "idle"
      /\ a.prompt = v.prompt /\ a.why = v.why /\ a.prompted = v.prompted /\ a.entry = v.entry /\ a.sent = v.sent
  BY AgainProgram
<1> HIDE DEF a
<1>2. /\ b \in Srvs /\ b.run = 0 /\ b.runs = << >> /\ ~b.updating /\ b.agent = "idle" /\ b.up = a.up /\ b.id = a.id /\ b.state = a.state
      /\ b.prompt = a.prompt /\ b.why = a.why /\ b.prompted = a.prompted /\ b.entry = a.entry /\ b.sent = a.sent
  BY <1>1, AgainUpdate
<1> HIDE DEF b
<1>3. /\ w \in Srvs /\ ~w.requested /\ w.sig = "free" /\ ~w.term /\ w.prompt = prompt
      /\ w.up = b.up /\ w.id = b.id /\ w.why = b.why /\ w.prompted = b.prompted /\ w.entry = b.entry /\ w.sent = b.sent
      /\ w.run = b.run /\ w.runs = b.runs /\ w.updating = b.updating /\ w.agent = b.agent /\ w.state = b.state
  <2>1. w = SignalsAgain(b, prompt)
    BY DEF a, b
  <2> QED
    BY <1>2, <2>1, AgainSignals
<1> QED
  BY <1>1, <1>2, <1>3

\* A server that starts again in place keeps its invariant.
LEMMA AgainHolds ==
    ASSUME NEW v, SrvHolds(v), v.up = "exec", NEW up \in {"boot", "starting"}, NEW version \in Nat, NEW blocked \in BOOLEAN,
           NEW prompt, prompt = IF v.prompt = "none" THEN "none" ELSE IF v.prompt = "due" THEN "due" ELSE "sent",
           NEW id \in Nat, v.id <= id, NEW w, w = SignalsAgain(UpdateAgain(ProgramAgain(v, up, id, version), blocked), prompt)
    PROVE  Steps(v, w) /\ w.id = id /\ w.up = up
<1>1. v \in Srvs /\ RestartHolds(v) /\ EntryHolds(v)
  BY DEF SrvHolds
<1>2. up \in Ups /\ prompt \in Prompts
  BY DEF Ups, Prompts
<1>3. /\ w \in Srvs /\ ~w.requested /\ w.sig = "free" /\ ~w.term /\ w.prompt = prompt /\ w.up = up /\ w.id = id
      /\ w.why = v.why /\ w.prompted = v.prompted /\ w.entry = v.entry /\ w.sent = v.sent
      /\ w.run = 0 /\ w.runs = << >> /\ ~w.updating /\ w.agent = "idle" /\ w.state = "idle"
  BY <1>1, <1>2, AgainFacts
<1>4. StatusHolds(w) /\ WaitersHear(w)
  <2>1. DOMAIN w.runs = {} /\ w.run = 0 /\ w.state = "idle" /\ ~w.updating
    BY <1>3
  <2> QED
    BY <2>1 DEF StatusHolds, WaitersHear
<1>5. RestartHolds(w)
  BY <1>1, <1>3 DEF RestartHolds
<1>6. EntryHolds(w)
  <2>1. w.entry = v.entry /\ w.id = id /\ w.up # "serving" /\ v.entry \in Nat /\ v.id \in Nat
    BY <1>1, <1>3, SrvFacts
  <2> QED
    BY <1>1, <2>1 DEF EntryHolds
<1> QED
  BY <1>3, <1>4, <1>5, <1>6 DEF Steps, SrvHolds, Careful

\* exec fails only for a program that is not the one that was checked.
LEMMA UnstartableHolds ==
    ASSUME NEW v, SrvHolds(v), v.up = "exec", NEW version \in Nat, ~WouldStart(version),
           NEW w, w = [v EXCEPT !.up = "gone", !.why = "unstartable", !.version = version]
    PROVE  Steps(v, w) /\ w.id = v.id /\ w.up = "gone"
<1>1. v \in Srvs /\ RestartHolds(v) /\ EntryHolds(v)
  BY DEF SrvHolds
<1>2. "gone" \in Ups /\ "unstartable" \in Whys
  BY DEF Ups, Whys
<1>3. w \in Srvs
  BY <1>1, <1>2, ZenonT(90) DEF Srvs
<1>4. w.runs = v.runs /\ SameStatus(v, w) /\ Agent(w) = Agent(v)
  BY <1>1 DEF Srvs, SameStatus, Agent
<1>5. /\ w.up = "gone" /\ w.term = v.term /\ w.requested = v.requested /\ w.sig = v.sig /\ w.checked = v.checked /\ w.why = "unstartable"
      /\ w.version = version /\ w.prompt = v.prompt /\ w.prompted = v.prompted /\ w.id = v.id /\ w.entry = v.entry
  BY <1>1 DEF Srvs
<1>6. version # v.checked
  BY <1>1 DEF RestartHolds
<1>7. RestartHolds(w) /\ EntryHolds(w)
  BY <1>1, <1>4, <1>5, <1>6 DEF RestartHolds, EntryHolds, Agent
<1> QED
  BY <1>3, <1>4, <1>5, <1>7, LifeHolds

\* SIGTERM takes back a restart that was asked for.
LEMMA TermHolds ==
    ASSUME NEW v, SrvHolds(v), v.up \in {"serving", "ending", "stopping"}, NEW w, w = [Shutdown(v) EXCEPT !.term = TRUE]
    PROVE  Steps(v, w) /\ w.id = v.id /\ w.up \in {"ending", "stopping"}
<1> DEFINE up == IF v.up = "serving" THEN "ending" ELSE v.up
<1>1. v \in Srvs /\ RestartHolds(v) /\ EntryHolds(v)
  BY DEF SrvHolds
<1>2. up \in Ups /\ up \in {"ending", "stopping"}
  BY DEF Ups
<1>3. w = [v EXCEPT !.requested = FALSE, !.up = up, !.term = TRUE]
  BY <1>1 DEF Shutdown
<1> HIDE DEF up
<1>4. w \in Srvs
  BY <1>1, <1>2, <1>3, ZenonT(90) DEF Srvs
<1>5. w.runs = v.runs /\ SameStatus(v, w) /\ Agent(w) = Agent(v)
  BY <1>1, <1>3, ZenonT(60) DEF Srvs, SameStatus, Agent
<1>6. /\ w.up = up /\ w.sig = v.sig /\ w.checked = v.checked /\ w.why = v.why
      /\ w.version = v.version /\ w.prompt = v.prompt /\ w.prompted = v.prompted /\ w.id = v.id /\ w.entry = v.entry
  BY <1>1, <1>3, ZenonT(60) DEF Srvs
<1>7. w.requested = FALSE /\ w.term = TRUE
  BY <1>1, <1>3, ZenonT(90) DEF Srvs
<1>8. RestartHolds(w) /\ EntryHolds(w)
  BY <1>1, <1>2, <1>5, <1>6, <1>7 DEF RestartHolds, EntryHolds, Agent
<1> QED
  BY <1>2, <1>4, <1>5, <1>6, <1>8, LifeHolds

\* A signal is noted.
LEMMA SignalHolds ==
    ASSUME NEW v, SrvHolds(v), NEW signals \in Nat, NEW w,
           \/ w = [v EXCEPT !.usr2 = TRUE, !.signals = signals]
           \/ w = [v EXCEPT !.usr2 = TRUE]
           \/ w = [v EXCEPT !.usr2 = FALSE]
    PROVE  Steps(v, w) /\ w.id = v.id /\ w.up = v.up
<1>1. v \in Srvs
  BY DEF SrvHolds
<1>2. w \in Srvs
  <2>1. CASE w = [v EXCEPT !.usr2 = TRUE, !.signals = signals]
    BY <1>1, <2>1, ZenonT(90) DEF Srvs
  <2>2. CASE w = [v EXCEPT !.usr2 = TRUE]
    BY <1>1, <2>2, ZenonT(90) DEF Srvs
  <2>3. CASE w = [v EXCEPT !.usr2 = FALSE]
    BY <1>1, <2>3, ZenonT(90) DEF Srvs
  <2> QED
    BY <2>1, <2>2, <2>3
<1>3. w.runs = v.runs /\ SameStatus(v, w) /\ Agent(w) = Agent(v)
  <2>1. CASE w = [v EXCEPT !.usr2 = TRUE, !.signals = signals]
    BY <1>1, <2>1 DEF Srvs, SameStatus, Agent
  <2>2. CASE w = [v EXCEPT !.usr2 = TRUE]
    BY <1>1, <2>2 DEF Srvs, SameStatus, Agent
  <2>3. CASE w = [v EXCEPT !.usr2 = FALSE]
    BY <1>1, <2>3 DEF Srvs, SameStatus, Agent
  <2> QED
    BY <2>1, <2>2, <2>3
<1>4. Life(w) = Life(v)
  <2>1. CASE w = [v EXCEPT !.usr2 = TRUE, !.signals = signals]
    BY <1>1, <2>1 DEF Srvs, Life
  <2>2. CASE w = [v EXCEPT !.usr2 = TRUE]
    BY <1>1, <2>2 DEF Srvs, Life
  <2>3. CASE w = [v EXCEPT !.usr2 = FALSE]
    BY <1>1, <2>3 DEF Srvs, Life
  <2> QED
    BY <2>1, <2>2, <2>3
<1>5. Steps(v, w)
  BY <1>2, <1>3, <1>4, RestHolds DEF SameLife
<1> QED
  BY <1>4, <1>5 DEF Life

\* SIGUSR2: the program is checked, then the server ends to run again.
LEMMA SignalChecksHolds ==
    ASSUME NEW v, SrvHolds(v), NEW c \in Nat, WouldStart(c),
           v.up = "serving", NEW w, w = [v EXCEPT !.usr2 = FALSE, !.sig = "checked", !.checked = c]
    PROVE  Steps(v, w) /\ w.id = v.id /\ w.up = v.up
<1>1. v \in Srvs /\ RestartHolds(v) /\ EntryHolds(v)
  BY DEF SrvHolds
<1>2. "checked" \in Sigs
  BY DEF Sigs
<1>3. w \in Srvs
  BY <1>1, <1>2, ZenonT(90) DEF Srvs
<1>4. w.runs = v.runs /\ SameStatus(v, w) /\ Agent(w) = Agent(v)
  BY <1>1 DEF Srvs, SameStatus, Agent
<1>5. /\ w.up = v.up /\ w.term = v.term /\ w.requested = v.requested /\ w.sig = "checked" /\ w.checked = c
      /\ w.why = v.why /\ w.version = v.version /\ w.prompt = v.prompt /\ w.prompted = v.prompted /\ w.id = v.id /\ w.entry = v.entry
  BY <1>1 DEF Srvs
<1>6. RestartHolds(w) /\ EntryHolds(w)
  BY <1>1, <1>4, <1>5 DEF RestartHolds, EntryHolds, Agent
<1> QED
  BY <1>3, <1>4, <1>5, <1>6, LifeHolds

\* A restart a signal asked for keeps it.
LEMMA SignalRestartsHolds ==
    ASSUME NEW v, SrvHolds(v), v.sig = "checked", v.up \in {"serving", "ending", "stopping"},
           NEW w, w = RestartInPlace([v EXCEPT !.sig = "free"], FALSE)
    PROVE  Steps(v, w) /\ w.id = v.id /\ (w.up = v.up \/ w.up = "ending")
<1> DEFINE b == [v EXCEPT !.sig = "free"]
<1>1. v \in Srvs /\ RestartHolds(v) /\ EntryHolds(v)
  BY DEF SrvHolds
<1>2. "free" \in Sigs
  BY DEF Sigs
<1>3. b \in Srvs
  BY <1>1, <1>2, ZenonT(90) DEF Srvs
<1>4. b.runs = v.runs /\ SameStatus(v, b) /\ Agent(b) = Agent(v)
  BY <1>1 DEF Srvs, SameStatus, Agent
<1>5. /\ b.up = v.up /\ b.term = v.term /\ b.requested = v.requested /\ b.sig = "free" /\ b.checked = v.checked
      /\ b.why = v.why /\ b.version = v.version /\ b.prompt = v.prompt /\ b.prompted = v.prompted /\ b.id = v.id /\ b.entry = v.entry
  BY <1>1 DEF Srvs
<1>6. \/ b.up = "serving" /\ w = [b EXCEPT !.requested = TRUE, !.up = "ending"]
      \/ w = b
  BY DEF RestartInPlace, CanRestart
<1> HIDE DEF b
<1>7. RestartHolds(b) /\ EntryHolds(b)
  BY <1>1, <1>4, <1>5 DEF RestartHolds, EntryHolds, Agent
<1>8. Steps(v, b)
  BY <1>3, <1>4, <1>7, LifeHolds
<1>9. WouldStart(b.checked)
  BY <1>1, <1>5 DEF RestartHolds
<1>10. CASE b.up = "serving" /\ w = [b EXCEPT !.requested = TRUE, !.up = "ending"]
  <2>1. Steps(b, w) /\ w.id = b.id /\ w.up = "ending" /\ SameStatus(b, w) /\ Agent(w) = Agent(b)
    BY <1>8, <1>9, <1>10, InPlaceHolds DEF Steps
  <2> QED
    BY <1>4, <1>5, <2>1 DEF Steps, Careful, SameStatus, Agent
<1>11. CASE w = b
  BY <1>5, <1>8, <1>11
<1> QED
  BY <1>6, <1>10, <1>11

-----------------------------------------------------------------------------
(* A step of one server is a step of the system.                            *)

LEMMA ServersHold ==
    ASSUME UpdIInv, NEW s \in Servers, NEW w, Steps(srv[s], w), srv' = [srv EXCEPT ![s] = w], UNCHANGED updScope
    PROVE  /\ Servers' = Servers /\ srv' = [t \in Servers |-> srv'[t]] /\ srv'[s] = w
           /\ \A t \in Servers : t # s => srv'[t] = srv[t]
           /\ (\A t \in Servers : SrvHolds(srv[t]))'
           /\ \A t \in Servers : Careful(srv[t], srv'[t])
<1>1. Servers' = Servers /\ srv = [t \in Servers |-> srv[t]] /\ \A t \in Servers : SrvHolds(srv[t])
  BY DEF UpdIInv, Servers
<1>2. srv' = [t \in Servers |-> srv'[t]] /\ srv'[s] = w /\ \A t \in Servers : t # s => srv'[t] = srv[t]
  BY <1>1
<1>3. ASSUME NEW t \in Servers PROVE SrvHolds(srv[t])'
  <2>1. SrvHolds(srv[t]) /\ SrvHolds(w)
    BY <1>1 DEF Steps
  <2>2. PICK v : v = srv'[t] /\ SrvHolds(v)
    BY <1>2, <2>1
  <2> QED
    BY <2>2 DEF SrvHolds, RestartHolds, WouldStart
<1>4. ASSUME NEW t \in Servers PROVE Careful(srv[t], srv'[t])
  BY <1>2 DEF Steps, Careful
<1> QED
  BY <1>1, <1>2, <1>3, <1>4

\* What a step leaves true of the machine, and may not do to the program.
MachineStep ==
    /\ machine' \in Machines
    /\ machine'.version < machine.version => machine'.forced \/ VersionFails
    /\ \A t \in Servers :
         /\ machine'.lock = t => srv'[t].up \notin {"gone", "boot", "writing"}
         /\ updScope.pid /\ srv'[t].up \in Owning => machine'.pid = t \/ machine'.raced

\* A step of one server that keeps its own invariant keeps that of the machine and of the command.
LEMMA ServerMoves ==
    ASSUME UpdIInv, NEW s \in Servers, NEW w, Steps(srv[s], w), srv' = [srv EXCEPT ![s] = w], srv[s].id <= w.id,
           UNCHANGED <<updCli, updScope>>, MachineStep
    PROVE  UpdIInv' /\ UpdateStep
<1>1. /\ Servers' = Servers /\ srv' = [t \in Servers |-> srv'[t]] /\ srv'[s] = w
      /\ \A t \in Servers : t # s => srv'[t] = srv[t]
      /\ (\A t \in Servers : SrvHolds(srv[t]))'
      /\ \A t \in Servers : Careful(srv[t], srv'[t])
  BY ServersHold
<1>2. Machines' = Machines /\ Commands' = Commands
  BY <1>1 DEF Machines, Commands
<1>3. MachineHolds'
  BY <1>1, <1>2 DEF MachineHolds, MachineStep
<1>4. ASSUME NEW t \in Servers
      PROVE  /\ updCli.old[t] <= srv'[t].id
             /\ updCli.said[t] = "again" => updCli.old[t] < srv'[t].id /\ updCli.pc \in {"next", "await", "done"}
  <2>1. /\ updCli.old[t] <= srv[t].id
        /\ updCli.said[t] = "again" => updCli.old[t] < srv[t].id /\ updCli.pc \in {"next", "await", "done"}
    BY DEF UpdIInv, CommandHolds
  <2>2. srv[t].id \in Nat /\ updCli.old[t] \in Nat
    BY SrvFacts DEF UpdIInv, CommandHolds, Commands, SrvHolds
  <2>3. w.id \in Nat
    BY SrvFacts DEF Steps, SrvHolds
  <2>4. CASE t = s
    BY <1>1, <2>1, <2>2, <2>3, <2>4
  <2>5. CASE t # s
    BY <1>1, <2>1, <2>5
  <2> QED
    BY <2>4, <2>5
<1>5. CommandHolds'
  <2>1. updCli \in Commands /\ (updCli.pc = "await" => updCli.target \in Servers)
    BY DEF UpdIInv, CommandHolds
  <2> QED
    BY <1>1, <1>2, <1>4, <2>1 DEF CommandHolds
<1>6. UpdIInv'
  BY <1>1, <1>3, <1>5 DEF UpdIInv
<1>7. UpdateStep
  BY <1>1 DEF UpdateStep, MachineStep, Careful
<1> QED
  BY <1>6, <1>7

\* A step that keeps the PID file, of a server that is past it.
LEMMA ServerRuns ==
    ASSUME UpdIInv, NEW s \in Servers, ServerStepped(s), UNCHANGED <<updCli, updScope>>, machine' \in Machines,
           machine'.pid = machine.pid, machine'.raced = machine.raced,
           machine'.lock \in {"none", machine.lock} \/ (machine'.lock = s /\ srv[s].up \notin {"gone", "boot", "writing"}),
           machine'.version < machine.version => machine'.forced \/ VersionFails
    PROVE  UpdIInv' /\ UpdateStep
<1>1. PICK w : /\ Steps(srv[s], w) /\ srv' = [srv EXCEPT ![s] = w] /\ w.id = srv[s].id
               /\ w.up = srv[s].up \/ (srv[s].up \in Ran /\ w.up \in Ran \cup {"exit"})
  BY DEF ServerStepped
<1>2. srv[s].id <= w.id
  BY <1>1, SrvFacts DEF UpdIInv, SrvHolds
<1>3. srv'[s] = w /\ \A t \in Servers : t # s => srv'[t] = srv[t]
  BY <1>1, ServersHold
<1>4. ASSUME NEW t \in Servers
      PROVE  /\ machine'.lock = t => srv'[t].up \notin {"gone", "boot", "writing"}
             /\ updScope.pid /\ srv'[t].up \in Owning => machine'.pid = t \/ machine'.raced
  <2>1. /\ machine.lock = t => srv[t].up \notin {"gone", "boot", "writing"}
        /\ updScope.pid /\ srv[t].up \in Owning => machine.pid = t \/ machine.raced
    BY DEF UpdIInv, MachineHolds
  <2>2. t # "none"
    BY UpdateAssumption DEF UpdIInv, Servers
  <2>3. {"gone", "boot", "writing"} \cap (Ran \cup {"exit"}) = {} /\ Ran \subseteq Owning /\ "exit" \notin Owning
    BY DEF Ran, Owning
  <2>4. CASE t = s
    BY <1>1, <1>3, <2>1, <2>2, <2>3, <2>4
  <2>5. CASE t # s
    BY <1>3, <2>1, <2>2, <2>5
  <2> QED
    BY <2>4, <2>5
<1>5. MachineStep
  BY <1>4 DEF MachineStep
<1> QED
  BY <1>1, <1>2, <1>5, ServerMoves

\* The fields of the machine, by type.
LEMMA MachineFacts ==
    ASSUME UpdIInv
    PROVE  /\ machine \in Machines /\ machine.version \in Nat /\ machine.latest \in Nat /\ machine.faults \in Nat
           /\ machine.writable \in BOOLEAN /\ ~(machine.version < machine.version)
  BY DEF UpdIInv, MachineHolds, Machines

\* What a fault changes of the machine: the count of faults.
LEMMA FaultedFacts ==
    ASSUME UpdIInv, NEW fault \in BOOLEAN, fault => Faults
    PROVE  LET m == Faulted(machine, fault)
           IN  /\ m \in Machines /\ m.pid = machine.pid /\ m.raced = machine.raced /\ m.lock = machine.lock /\ m.version = machine.version
               /\ fault => m.faults < machine.faults
<1>1. machine \in Machines /\ machine.faults \in Nat
  BY MachineFacts
<1>2. CASE fault
  <2> DEFINE left == machine.faults - 1
  <2>1. left \in Nat /\ left < machine.faults
    BY <1>1, <1>2 DEF Faults
  <2>2. Faulted(machine, fault) = [machine EXCEPT !.faults = left]
    BY <1>2 DEF Faulted
  <2> HIDE DEF left
  <2> QED
    BY <1>1, <2>1, <2>2 DEF Machines
<1>3. CASE ~fault
  BY <1>1, <1>3 DEF Faulted
<1> QED
  BY <1>2, <1>3

\* Install never puts an older program in place of a newer one, unless forced
\* or --version of the one in place failed.
LEMMA InstallFacts ==
    ASSUME UpdIInv, NEW version \in Nat, NEW force \in BOOLEAN, Install(version, force)
    PROVE  /\ machine' \in Machines /\ machine'.pid = machine.pid /\ machine'.raced = machine.raced /\ machine'.lock = "none"
           /\ machine'.version < machine.version => machine'.forced \/ VersionFails
<1>1. machine \in Machines /\ machine.version \in Nat /\ machine.faults \in Nat
  BY MachineFacts
<1>2. PICK known \in BOOLEAN :
        /\ known \/ (Faults /\ ~force)
        /\ machine' = [Faulted(machine, ~known) EXCEPT
                         !.version = IF known /\ ~force /\ @ >= version THEN @ ELSE version, !.lock = "none", !.forced = @ \/ force]
  BY DEF Install
<1> DEFINE fault == ~known
           m == Faulted(machine, fault)
           new == IF known /\ ~force /\ m.version >= version THEN m.version ELSE version
           forced == m.forced \/ force
<1>3. fault \in BOOLEAN /\ (fault => Faults) /\ machine' = [m EXCEPT !.version = new, !.lock = "none", !.forced = forced]
  BY <1>2
<1>4. /\ m \in Machines /\ m.pid = machine.pid /\ m.raced = machine.raced /\ m.version = machine.version
      /\ fault => m.faults < machine.faults
  BY <1>3, FaultedFacts
<1>5. new \in Nat /\ (new < machine.version => force \/ fault)
  BY <1>1, <1>4
<1>6. forced \in BOOLEAN /\ (force => forced)
  OBVIOUS
<1> HIDE DEF m, new, forced, fault
<1>7. /\ machine' \in Machines /\ machine'.pid = machine.pid /\ machine'.raced = machine.raced /\ machine'.lock = "none"
      /\ machine'.version = new /\ machine'.faults = m.faults
  BY <1>3, <1>4, <1>5, <1>6 DEF Machines
<1>8. machine'.forced = forced
  BY <1>3, <1>4, Zenon DEF Machines
<1> QED
  BY <1>4, <1>5, <1>6, <1>7, <1>8 DEF VersionFails

\* The steps of a run that leave the machine alone.
LEMMA RunMoves ==
    ASSUME UpdIInv, NEW s \in Servers, NEW n \in RunsOf(s),
           \/ UpdFound(s, n) \/ UpdBegins(s, n) \/ UpdWaits(s, n) \/ UpdWakes(s, n)
           \/ UpdChecks(s, n) \/ UpdRestarts(s, n) \/ UpdUnholds(s, n) \/ UpdFails(s, n)
    PROVE  UpdIInv' /\ UpdateStep
<1>1. SrvHolds(srv[s]) /\ srv = [t \in Servers |-> srv[t]]
  BY DEF UpdIInv
<1>2. machine \in Machines /\ machine.version \in Nat /\ ~(machine.version < machine.version)
  BY MachineFacts
<1>3. UNCHANGED <<machine, updCli, updScope>>
  BY DEF UpdFound, UpdBegins, UpdWaits, UpdWakes, UpdChecks, UpdRestarts, UpdUnholds, UpdFails
<1>4. ServerStepped(s)
  <2>2. CASE UpdFound(s, n)
    BY <1>1, <2>2, FoundSteps, RunIsServer
  <2>3. CASE UpdBegins(s, n)
    BY <1>1, <2>3, BeginsSteps, RunIsServer
  <2>4. CASE UpdWaits(s, n)
    BY <1>1, <2>4, WaitsSteps, RunIsServer
  <2>5. CASE UpdWakes(s, n)
    BY <1>1, <2>5, WakesSteps, RunIsServer
  <2>6. CASE UpdChecks(s, n)
    BY <1>1, <1>2, <2>6, ChecksSteps
  <2>7. CASE UpdRestarts(s, n)
    BY <1>1, <2>7, RestartsSteps
  <2>8. CASE UpdUnholds(s, n)
    BY <1>1, <2>8, UnholdsSteps, RunIsServer
  <2>9. CASE UpdFails(s, n)
    BY <1>1, <2>9, InstallSteps, RunIsServer
  <2> QED
    BY <2>2, <2>3, <2>4, <2>5, <2>6, <2>7, <2>8, <2>9
<1> QED
  BY <1>2, <1>3, <1>4, ServerRuns

\* The steps of a run that look for the release, lock, or install.
LEMMA RunInstalls ==
    ASSUME UpdIInv, NEW s \in Servers, NEW n \in RunsOf(s),
           UpdLatest(s, n) \/ UpdDisk(s, n) \/ UpdLocks(s, n) \/ UpdInstalls(s, n)
    PROVE  UpdIInv' /\ UpdateStep
<1> DEFINE r == srv[s].runs[n]
<1>1. SrvHolds(srv[s])
  BY DEF UpdIInv
<1>2. machine \in Machines /\ machine.version \in Nat /\ machine.latest \in Nat /\ ~(machine.version < machine.version)
  BY MachineFacts
<1>3. UNCHANGED <<updCli, updScope>>
  BY DEF UpdLatest, UpdDisk, UpdLocks, UpdInstalls
<1>4. ServerStepped(s)
  BY <1>1, <1>2, LatestSteps, DiskSteps, InstallSteps, RunIsServer
<1>5. r \in Runs /\ r.over \in BOOLEAN /\ r.install \in Nat
  <2>1. r \in Runs
    BY <1>1, RunFacts DEF SrvHolds, RunsOf
  <2> QED
    BY <2>1 DEF Runs
<1>6. srv[s].up \notin {"gone", "boot", "writing"}
  <2>1. srv[s].up # "gone"
    BY DEF UpdLatest, UpdDisk, UpdLocks, UpdInstalls, RunAt, Alive
  <2>2. srv[s].runs # << >>
    BY DEF RunsOf
  <2> QED
    BY <1>1, <2>1, <2>2 DEF SrvHolds, RestartHolds
<1> HIDE DEF r
<1>7. CASE UNCHANGED machine
  BY <1>2, <1>3, <1>4, <1>7, ServerRuns
<1>8. CASE machine' = [machine EXCEPT !.lock = s]
  <2>1. machine' \in Machines /\ machine'.pid = machine.pid /\ machine'.raced = machine.raced /\ machine'.lock = s /\ machine'.version = machine.version
    BY <1>2, <1>8 DEF Machines
  <2> QED
    BY <1>2, <1>3, <1>4, <1>6, <2>1, ServerRuns
<1>9. CASE Install(r.install, FALSE)
  <2> DEFINE no == FALSE
             version == r.install
  <2>1. no \in BOOLEAN /\ version \in Nat /\ Install(version, no)
    BY <1>5, <1>9
  <2> HIDE DEF no, version
  <2>2. /\ machine' \in Machines /\ machine'.pid = machine.pid /\ machine'.raced = machine.raced /\ machine'.lock = "none"
        /\ machine'.version < machine.version => machine'.forced \/ VersionFails
    BY <2>1, InstallFacts
  <2> QED
    BY <1>3, <1>4, <2>2, ServerRuns
<1>10. ASSUME NEW fault \in BOOLEAN, fault => Faults, machine' = Faulted(machine, fault) PROVE UpdIInv' /\ UpdateStep
  <2>1. /\ machine' \in Machines /\ machine'.pid = machine.pid /\ machine'.raced = machine.raced /\ machine'.lock = machine.lock
        /\ machine'.version = machine.version
    BY <1>10, FaultedFacts
  <2> QED
    BY <1>2, <1>3, <1>4, <2>1, ServerRuns
<1>11. CASE (r.over \/ Faults) /\ machine' = [Faulted(machine, ~r.over) EXCEPT !.lock = "none"]
  <2> DEFINE fault == ~r.over
             m == Faulted(machine, fault)
  <2>1. fault \in BOOLEAN /\ (fault => Faults) /\ machine' = [m EXCEPT !.lock = "none"]
    BY <1>5, <1>11
  <2> HIDE DEF fault
  <2>2. m \in Machines /\ m.pid = machine.pid /\ m.raced = machine.raced /\ m.lock = machine.lock /\ m.version = machine.version
    BY <2>1, FaultedFacts
  <2> HIDE DEF m
  <2>3. /\ machine' \in Machines /\ machine'.pid = machine.pid /\ machine'.raced = machine.raced /\ machine'.lock = "none"
        /\ machine'.version = machine.version
    BY <2>1, <2>2 DEF Machines
  <2> QED
    BY <1>2, <1>3, <1>4, <2>3, ServerRuns
<1> QED
  <2>1. CASE UpdLatest(s, n)
    <3>1. UNCHANGED machine \/ ((r.over \/ Faults) /\ machine' = Faulted(machine, ~r.over))
      BY <2>1 DEF UpdLatest, r
    <3> DEFINE fault == ~r.over
    <3>2. fault \in BOOLEAN /\ (UNCHANGED machine \/ ((fault => Faults) /\ machine' = Faulted(machine, fault)))
      BY <1>5, <3>1
    <3> HIDE DEF fault
    <3> QED
      BY <1>7, <1>10, <3>2
  <2>2. CASE UpdDisk(s, n)
    <3>1. PICK known \in BOOLEAN : (known # r.over \/ (~known /\ Faults)) /\ machine' = Faulted(machine, ~known /\ ~r.over)
      BY <2>2 DEF UpdDisk, r
    <3> DEFINE fault == ~known /\ ~r.over
    <3>2. fault \in BOOLEAN /\ (fault => Faults) /\ machine' = Faulted(machine, fault)
      BY <1>5, <3>1
    <3> HIDE DEF fault
    <3> QED
      BY <1>10, <3>2
  <2>3. CASE UpdLocks(s, n) \/ UpdInstalls(s, n)
    BY <1>7, <1>8, <1>9, <1>11, <2>3 DEF UpdLocks, UpdInstalls, r
  <2> QED
    BY <2>1, <2>2, <2>3

\* The API, the agent, and the messages.
LEMMA ServerWorks ==
    ASSUME UpdIInv, NEW s \in Servers,
           \/ \E now \in BOOLEAN : UpdPost(s, now)
           \/ UpdDelete(s) \/ UpdTicks(s) \/ UpdMessage(s) \/ UpdDispatch(s) \/ UpdAgent(s) \/ UpdAgentRestarts(s) \/ UpdPrompts(s)
    PROVE  UpdIInv' /\ UpdateStep
<1>1. SrvHolds(srv[s])
  BY DEF UpdIInv
<1>2. machine \in Machines /\ machine.writable \in BOOLEAN /\ ~(machine.version < machine.version)
  BY MachineFacts
<1>3. UNCHANGED <<machine, updCli, updScope>>
  BY DEF UpdPost, UpdDelete, UpdTicks, UpdMessage, UpdDispatch, UpdAgent, UpdAgentRestarts, UpdPrompts
<1>4. ServerStepped(s)
  BY <1>1, <1>2, PostSteps, DeleteSteps, TickSteps, MessageSteps, DispatchSteps, AgentSteps, AgentRestartSteps, PromptSteps
<1> QED
  BY <1>2, <1>3, <1>4, ServerRuns

\* The server serves, stops, and hears signals.
LEMMA ServerServes ==
    ASSUME UpdIInv, NEW s \in Servers, SrvServes(s)
    PROVE  UpdIInv' /\ UpdateStep
<1> DEFINE v == srv[s]
<1>1. SrvHolds(v) /\ v.up = "starting" /\ UNCHANGED <<updCli, updScope>>
  BY DEF UpdIInv, SrvServes
<1>2. machine \in Machines /\ ~(machine.version < machine.version)
  BY MachineFacts
<1>3. "starting" \in Ran /\ "serving" \in Ran /\ "ending" \in Ran
  BY DEF Ran
<1>4. CASE srv' = [srv EXCEPT ![s] = Registered([v EXCEPT !.up = "serving"])] /\ UNCHANGED machine
  <2> DEFINE w == Registered([v EXCEPT !.up = "serving"])
  <2>1. Steps(v, w) /\ w.id = v.id /\ w.up = "serving"
    BY <1>1, ServesHolds
  <2> HIDE DEF w
  <2>2. ServerStepped(s)
    BY <1>1, <1>3, <1>4, <2>1 DEF ServerStepped, w
  <2> QED
    BY <1>1, <1>2, <1>4, <2>2, ServerRuns
<1>5. CASE srv' = [srv EXCEPT ![s] = [v EXCEPT !.up = "ending", !.why = "failed"]] /\ Faults /\ machine' = Faulted(machine, TRUE)
  <2> DEFINE w == Leaving(v, "ending", "failed")
             yes == TRUE
  <2>1. Steps(v, w) /\ w.id = v.id /\ w.up = "ending"
    BY <1>1, LeavesHolds
  <2> HIDE DEF w
  <2>2. ServerStepped(s)
    BY <1>1, <1>3, <1>5, <2>1 DEF ServerStepped, w, Leaving
  <2>3. yes \in BOOLEAN /\ (yes => Faults) /\ machine' = Faulted(machine, yes)
    BY <1>5
  <2> HIDE DEF yes
  <2>4. /\ machine' \in Machines /\ machine'.pid = machine.pid /\ machine'.raced = machine.raced /\ machine'.lock = machine.lock
        /\ machine'.version = machine.version
    BY <2>3, FaultedFacts
  <2> QED
    BY <1>1, <1>2, <2>2, <2>4, ServerRuns
<1> QED
  BY <1>4, <1>5 DEF SrvServes

\* Ending and stopping a server keep the invariant.
LEMMA ServerStops ==
    ASSUME UpdIInv, NEW s \in Servers, SrvStops(s) \/ SrvStopped(s) \/ SrvTerm(s)
    PROVE  UpdIInv' /\ UpdateStep
<1> DEFINE v == srv[s]
<1>1. SrvHolds(v) /\ v \in Srvs
  BY DEF UpdIInv, SrvHolds
<1>2. machine \in Machines /\ ~(machine.version < machine.version)
  BY MachineFacts
<1>3. UNCHANGED <<machine, updCli, updScope>>
  BY DEF SrvStops, SrvStopped, SrvTerm
<1>4. {"serving", "ending", "stopping", "exec"} \subseteq Ran
  BY DEF Ran
<1>5. CASE SrvStops(s)
  <2> DEFINE rs == [n \in DOMAIN v.runs |-> RunOver(v.runs[n])]
             w == [v EXCEPT !.entry = 0, !.up = "stopping", !.runs = rs]
  <2>1. v.up = "ending" /\ srv' = [srv EXCEPT ![s] = w]
    BY <1>5 DEF SrvStops, Unregistered
  <2>3. rs = [n \in DOMAIN v.runs |-> RunOver(v.runs[n])]
    OBVIOUS
  <2> HIDE DEF rs, v
  <2>2. Steps(v, w) /\ w.id = v.id /\ w.up = "stopping"
    <3>1. w = [v EXCEPT !.entry = 0, !.up = "stopping", !.runs = rs]
      OBVIOUS
    <3> HIDE DEF w
    <3> QED
      BY <1>1, <2>1, <2>3, <3>1, StopsHolds
  <2> HIDE DEF w
  <2> QED
    BY <1>2, <1>3, <1>4, <2>1, <2>2, ServerRuns DEF ServerStepped, v
<1>6. CASE SrvStopped(s)
  <2> DEFINE up == IF v.why = "" /\ v.requested THEN "exec" ELSE "exit"
             w == [v EXCEPT !.agent = "down", !.restarting = FALSE, !.up = up]
  <2>1. v.up = "stopping" /\ srv' = [srv EXCEPT ![s] = w]
    BY <1>6 DEF SrvStopped
  <2>3. up = IF v.why = "" /\ v.requested THEN "exec" ELSE "exit"
    OBVIOUS
  <2> HIDE DEF up
  <2>2. Steps(v, w) /\ w.id = v.id /\ w.up \in {"exec", "exit"}
    BY <1>1, <2>1, <2>3, StoppedHolds
  <2> HIDE DEF w
  <2> QED
    BY <1>2, <1>3, <1>4, <2>1, <2>2, ServerRuns DEF ServerStepped
<1>7. CASE SrvTerm(s)
  <2> DEFINE w == [Shutdown(v) EXCEPT !.term = TRUE]
  <2>1. v.up \in {"serving", "ending", "stopping"} /\ srv' = [srv EXCEPT ![s] = w]
    BY <1>7 DEF SrvTerm
  <2>2. Steps(v, w) /\ w.id = v.id /\ w.up \in {"ending", "stopping"}
    BY <1>1, <2>1, TermHolds
  <2> HIDE DEF w
  <2> QED
    BY <1>2, <1>3, <1>4, <2>1, <2>2, ServerRuns DEF ServerStepped
<1> QED
  BY <1>5, <1>6, <1>7

\* The steps of SIGUSR2 keep the invariant.
LEMMA ServerHears ==
    ASSUME UpdIInv, NEW s \in Servers, SrvUsr2(s) \/ SrvUsr2Checks(s) \/ SrvUsr2Restarts(s)
    PROVE  UpdIInv' /\ UpdateStep
<1> DEFINE v == srv[s]
           c == machine.version
<1>1. SrvHolds(v) /\ v \in Srvs
  BY DEF UpdIInv, SrvHolds
<1>2. machine \in Machines /\ ~(c < c) /\ c \in Nat
  BY MachineFacts
<1>3. UNCHANGED <<machine, updCli, updScope>>
  BY DEF SrvUsr2, SrvUsr2Checks, SrvUsr2Restarts
<1>4. {"serving", "ending", "stopping", "exec"} \subseteq Ran
  BY DEF Ran
<1>5. CASE SrvUsr2(s)
  <2> DEFINE signals == v.signals + 1
             w == [v EXCEPT !.usr2 = TRUE, !.signals = signals]
  <2>1. srv' = [srv EXCEPT ![s] = w]
    BY <1>5 DEF SrvUsr2
  <2>2. signals \in Nat
    BY <1>1, CountFacts
  <2> HIDE DEF signals
  <2>3. Steps(v, w) /\ w.id = v.id /\ w.up = v.up
    BY <1>1, <2>2, SignalHolds, ZenonT(60)
  <2> HIDE DEF w
  <2> QED
    BY <1>2, <1>3, <2>1, <2>3, ServerRuns DEF ServerStepped
<1>6. CASE SrvUsr2Checks(s) /\ WouldStart(c)
  <2> DEFINE w == [v EXCEPT !.usr2 = FALSE, !.sig = "checked", !.checked = c]
  <2>1. v.up = "serving" /\ srv' = [srv EXCEPT ![s] = w]
    BY <1>6 DEF SrvUsr2Checks
  <2> HIDE DEF c
  <2>2. Steps(v, w) /\ w.id = v.id /\ w.up = v.up
    BY <1>1, <1>2, <1>6, <2>1, SignalChecksHolds
  <2> HIDE DEF w
  <2> QED
    BY <1>2, <1>3, <2>1, <2>2, ServerRuns DEF ServerStepped, c
<1>7. CASE SrvUsr2Checks(s) /\ ~WouldStart(c)
  <2> DEFINE w == [v EXCEPT !.usr2 = FALSE]
  <2>1. srv' = [srv EXCEPT ![s] = w]
    BY <1>7 DEF SrvUsr2Checks
  <2>2. Steps(v, w) /\ w.id = v.id /\ w.up = v.up
    BY <1>1, <1>2, SignalHolds
  <2> HIDE DEF w
  <2> QED
    BY <1>2, <1>3, <2>1, <2>2, ServerRuns DEF ServerStepped
<1>8. CASE SrvUsr2Restarts(s)
  <2> DEFINE w == RestartInPlace([v EXCEPT !.sig = "free"], FALSE)
  <2>1. v.sig = "checked" /\ v.up \in {"serving", "ending", "stopping"} /\ srv' = [srv EXCEPT ![s] = w]
    BY <1>8 DEF SrvUsr2Restarts, Up
  <2>2. Steps(v, w) /\ w.id = v.id /\ (w.up = v.up \/ w.up = "ending")
    BY <1>1, <2>1, SignalRestartsHolds
  <2> HIDE DEF w
  <2> QED
    BY <1>2, <1>3, <1>4, <2>1, <2>2, ServerRuns DEF ServerStepped
<1> QED
  BY <1>5, <1>6, <1>7, <1>8

\* What is known of the machine, of each server.
LEMMA MachineKnows ==
    ASSUME UpdIInv, NEW t \in Servers
    PROVE  /\ t \notin {"none", "stale", "cli"}
           /\ machine.lock = t => srv[t].up \notin {"gone", "boot", "writing"}
           /\ updScope.pid /\ srv[t].up \in Owning => machine.pid = t \/ machine.raced
<1>1. t \notin {"none", "stale", "cli"}
  BY UpdateAssumption DEF UpdIInv, Servers
<1> QED
  BY <1>1 DEF UpdIInv, MachineHolds

\* writePIDFile: a server gets past it once the file names it.
LEMMA ServerBoots ==
    ASSUME UpdIInv, NEW s \in Servers, NEW up \in {"boot", "writing", "starting", "gone"}, NEW w, Steps(srv[s], w), w.id = srv[s].id,
           w.up = up, srv[s].up \in {"boot", "writing"}, srv' = [srv EXCEPT ![s] = w], UNCHANGED <<updCli, updScope>>,
           machine' \in Machines, machine'.lock = machine.lock, machine'.version = machine.version,
           updScope.pid /\ up \in {"writing", "starting"} => machine'.pid = s \/ machine'.raced,
           \A t \in Servers : t # s /\ machine.pid = t /\ srv[t].up \in Owning => machine'.pid = t \/ machine'.raced,
           machine.raced => machine'.raced
    PROVE  UpdIInv' /\ UpdateStep
<1>1. srv[s].id <= w.id
  BY SrvFacts DEF UpdIInv, SrvHolds
<1>2. srv'[s] = w /\ \A t \in Servers : t # s => srv'[t] = srv[t]
  BY ServersHold
<1>3. "boot" \notin Owning /\ "gone" \notin Owning
  BY DEF Ran, Owning
<1>4. ASSUME NEW t \in Servers
      PROVE  /\ machine'.lock = t => srv'[t].up \notin {"gone", "boot", "writing"}
             /\ updScope.pid /\ srv'[t].up \in Owning => machine'.pid = t \/ machine'.raced
  <2>1. /\ machine.lock = t => srv[t].up \notin {"gone", "boot", "writing"}
        /\ updScope.pid /\ srv[t].up \in Owning => machine.pid = t \/ machine.raced
    BY MachineKnows
  <2>2. CASE t = s
    BY <1>2, <1>3, <2>1, <2>2
  <2>3. CASE t # s
    BY <1>2, <2>1, <2>3
  <2> QED
    BY <2>2, <2>3
<1>5. ~(machine'.version < machine.version)
  BY MachineFacts
<1>6. MachineStep
  BY <1>4, <1>5 DEF MachineStep
<1> QED
  BY <1>1, <1>6, ServerMoves

\* Creating the PID file keeps the invariant: one server owns it.
LEMMA PidCreatesHolds ==
    ASSUME UpdIInv, NEW s \in Servers, PidCreates(s)
    PROVE  UpdIInv' /\ UpdateStep
<1> DEFINE v == srv[s]
<1>1. SrvHolds(v) /\ v \in Srvs /\ v.up = "boot" /\ UNCHANGED <<updCli, updScope>> /\ machine \in Machines
  BY MachineFacts DEF UpdIInv, SrvHolds, PidCreates
<1>2. v.pid \in Pids /\ "read" \in Pids
  BY <1>1 DEF Srvs, Pids
<1>3. CASE machine.pid = "none" /\ machine' = [machine EXCEPT !.pid = s] /\ srv' = [srv EXCEPT ![s].up = "writing"]
  <2> DEFINE w == Booted(v, "writing", v.pid, v.why)
  <2>1. srv' = [srv EXCEPT ![s] = w]
    <3>1. w = [v EXCEPT !.up = "writing"]
      BY <1>1 DEF Srvs, Booted
    <3> HIDE DEF w
    <3> QED
      BY <1>3, <3>1
  <2>2. Steps(v, w) /\ w.id = v.id /\ w.up = "writing"
    BY <1>1, <1>2, BootSteps
  <2> HIDE DEF w
  <2>3. /\ machine' \in Machines /\ machine'.lock = machine.lock /\ machine'.version = machine.version /\ machine'.pid = s
        /\ machine'.raced = machine.raced
    BY <1>1, <1>3 DEF Machines
  <2>4. \A t \in Servers : machine.pid # t
    BY <1>3, MachineKnows
  <2> QED
    BY <1>1, <2>1, <2>2, <2>3, <2>4, ServerBoots
<1>4. CASE UNCHANGED machine /\ srv' = [srv EXCEPT ![s].pid = "read"]
  <2> DEFINE w == Booted(v, "boot", "read", v.why)
  <2>1. srv' = [srv EXCEPT ![s] = w]
    <3>1. w = [v EXCEPT !.pid = "read"]
      BY <1>1 DEF Srvs, Booted
    <3> HIDE DEF w
    <3> QED
      BY <1>4, <3>1
  <2>2. Steps(v, w) /\ w.id = v.id /\ w.up = "boot"
    BY <1>1, <1>2, BootSteps
  <2> HIDE DEF w
  <2> QED
    BY <1>1, <1>4, <2>1, <2>2, ServerBoots
<1> QED
  BY <1>3, <1>4 DEF PidCreates

\* Reading a PID file that exists keeps the invariant.
LEMMA PidReadsHolds ==
    ASSUME UpdIInv, NEW s \in Servers, PidReads(s)
    PROVE  UpdIInv' /\ UpdateStep
<1> DEFINE v == srv[s]
<1>1. SrvHolds(v) /\ v \in Srvs /\ v.up = "boot" /\ UNCHANGED <<machine, updCli, updScope>> /\ machine \in Machines
  BY MachineFacts DEF UpdIInv, SrvHolds, PidReads
<1>2. v.pid \in Pids /\ {"open", "remove"} \subseteq Pids
  BY <1>1 DEF Srvs, Pids
<1>3. \/ srv' = [srv EXCEPT ![s] = [v EXCEPT !.pid = "open"]]
      \/ machine.pid = s /\ srv' = [srv EXCEPT ![s] = [v EXCEPT !.pid = "open", !.up = "starting"]]
      \/ srv' = [srv EXCEPT ![s] = [v EXCEPT !.pid = "remove"]]
      \/ srv' = [srv EXCEPT ![s] = [v EXCEPT !.up = "gone", !.why = "refused"]]
  <2> DEFINE unwritten == PidEmpty \/ PidDead
             again == [v EXCEPT !.pid = "open"]
             own == [v EXCEPT !.pid = "open", !.up = "starting"]
             stale == [v EXCEPT !.pid = "remove"]
             held == [v EXCEPT !.up = "gone", !.why = "refused"]
             next == CASE machine.pid = "none" -> again [] machine.pid = s -> own [] unwritten -> stale [] OTHER -> held
  <2>1. s # "none"
    BY MachineKnows
  <2>2. srv' = [srv EXCEPT ![s] = next]
    BY DEF PidReads
  <2> HIDE DEF unwritten, again, own, stale, held
  <2>3. next \in {again, stale, held} \/ (machine.pid = s /\ next = own)
    <3>1. CASE machine.pid = "none"
      BY <2>1, <3>1
    <3>2. CASE machine.pid = s
      BY <2>1, <3>2
    <3>3. CASE machine.pid # "none" /\ machine.pid # s /\ unwritten
      BY <3>3
    <3>4. CASE machine.pid # "none" /\ machine.pid # s /\ ~unwritten
      BY <3>4
    <3> QED
      BY <3>1, <3>2, <3>3, <3>4
  <2> HIDE DEF next
  <2> QED
    BY <2>2, <2>3 DEF again, own, stale, held
<1>4. ASSUME NEW up \in {"boot", "starting", "gone"}, NEW pid \in Pids, NEW why \in {v.why, "refused"}, up = "starting" => machine.pid = s,
             srv' = [srv EXCEPT ![s] = Booted(v, up, pid, why)]
      PROVE  UpdIInv' /\ UpdateStep
  <2> DEFINE w == Booted(v, up, pid, why)
  <2>1. Steps(v, w) /\ w.id = v.id /\ w.up = up
    BY <1>1, BootSteps
  <2>2. srv' = [srv EXCEPT ![s] = w]
    BY <1>4
  <2> HIDE DEF w
  <2> QED
    BY <1>1, <1>4, <2>1, <2>2, ServerBoots
<1>5. ASSUME NEW pid \in Pids PROVE [v EXCEPT !.pid = pid] = Booted(v, "boot", pid, v.why)
  BY <1>1 DEF Srvs, Booted
<1>6. [v EXCEPT !.pid = "open", !.up = "starting"] = Booted(v, "starting", "open", v.why)
  BY <1>1 DEF Srvs, Booted
<1>7. [v EXCEPT !.up = "gone", !.why = "refused"] = Booted(v, "gone", v.pid, "refused")
  BY <1>1 DEF Srvs, Booted
<1> HIDE DEF v
<1>8. CASE srv' = [srv EXCEPT ![s] = [v EXCEPT !.pid = "open"]]
  BY <1>2, <1>4, <1>5, <1>8
<1>9. CASE machine.pid = s /\ srv' = [srv EXCEPT ![s] = [v EXCEPT !.pid = "open", !.up = "starting"]]
  BY <1>2, <1>4, <1>6, <1>9
<1>10. CASE srv' = [srv EXCEPT ![s] = [v EXCEPT !.pid = "remove"]]
  BY <1>2, <1>4, <1>5, <1>10
<1>11. CASE srv' = [srv EXCEPT ![s] = [v EXCEPT !.up = "gone", !.why = "refused"]]
  BY <1>2, <1>4, <1>7, <1>11
<1> QED
  BY <1>3, <1>8, <1>9, <1>10, <1>11

\* Removing the file keeps the rest of the machine, and notes that a server
\* that has the file loses it.
LEMMA PidRemovedFacts ==
    ASSUME UpdIInv, NEW s \in Servers
    PROVE  LET m == PidRemoved(s)
           IN  /\ m \in Machines /\ m.lock = machine.lock /\ m.version = machine.version /\ m.faults = machine.faults
               /\ machine.raced => m.raced
               /\ \A t \in Servers : t # s /\ machine.pid = t /\ srv[t].up \in Owning => m.raced
<1> DEFINE raced == machine.raced \/ (machine.pid \in Servers \ {s} /\ ~PidDead)
           m == PidRemoved(s)
<1>1. machine \in Machines
  BY MachineFacts
<1>2. raced \in BOOLEAN /\ (machine.raced => raced) /\ m = [machine EXCEPT !.pid = "none", !.raced = raced]
  BY <1>1 DEF PidRemoved, Machines
<1>3. ASSUME NEW t \in Servers, t # s, machine.pid = t, srv[t].up \in Owning PROVE raced
  <2>1. t \notin {"none", "stale"} /\ srv[t].up # "gone"
    BY <1>3, MachineKnows DEF Ran, Owning
  <2> QED
    BY <1>3, <2>1 DEF PidDead
<1> HIDE DEF raced, m
<1>4. m \in Machines /\ m.lock = machine.lock /\ m.version = machine.version /\ m.faults = machine.faults
  BY <1>1, <1>2 DEF Machines
<1>5. m.raced = raced
  BY <1>1, <1>2, Zenon DEF Machines
<1> QED
  BY <1>2, <1>3, <1>4, <1>5 DEF m

\* Writing the PID file, which another server may have removed, keeps the
\* invariant; so does a write that fails, as the server ends.
LEMMA PidWritesHolds ==
    ASSUME UpdIInv, NEW s \in Servers, PidWrites(s)
    PROVE  UpdIInv' /\ UpdateStep
<1> DEFINE v == srv[s]
<1>1. SrvHolds(v) /\ v \in Srvs /\ v.up = "writing" /\ UNCHANGED <<updCli, updScope>> /\ machine \in Machines /\ machine.faults \in Nat
  BY MachineFacts DEF UpdIInv, SrvHolds, PidWrites
<1>2. v.pid \in Pids
  BY <1>1 DEF Srvs
<1>3. CASE UNCHANGED machine /\ srv' = [srv EXCEPT ![s].up = "starting"]
  <2> DEFINE w == Booted(v, "starting", v.pid, v.why)
  <2>1. srv' = [srv EXCEPT ![s] = w]
    <3>1. w = [v EXCEPT !.up = "starting"]
      BY <1>1 DEF Srvs, Booted
    <3> HIDE DEF w
    <3> QED
      BY <1>3, <3>1
  <2>2. Steps(v, w) /\ w.id = v.id /\ w.up = "starting"
    BY <1>1, <1>2, BootSteps
  <2> HIDE DEF w
  <2>3. updScope.pid => machine.pid = s \/ machine.raced
    BY <1>1, MachineKnows DEF Owning
  <2> QED
    BY <1>1, <1>3, <2>1, <2>2, <2>3, ServerBoots
<1>4. CASE Faults /\ machine' = Faulted(PidRemoved(s), TRUE) /\ srv' = [srv EXCEPT ![s] = [v EXCEPT !.up = "gone", !.why = "failed"]]
  <2> DEFINE w == Booted(v, "gone", v.pid, "failed")
             m == PidRemoved(s)
             left == m.faults - 1
  <2>1. srv' = [srv EXCEPT ![s] = w]
    <3>1. w = [v EXCEPT !.up = "gone", !.why = "failed"]
      BY <1>1 DEF Srvs, Booted
    <3> HIDE DEF w
    <3> QED
      BY <1>4, <3>1
  <2>2. Steps(v, w) /\ w.id = v.id /\ w.up = "gone"
    BY <1>1, <1>2, BootSteps
  <2> HIDE DEF w
  <2>3. machine' = [m EXCEPT !.faults = left]
    BY <1>4 DEF Faulted
  <2>4. /\ m \in Machines /\ m.lock = machine.lock /\ m.version = machine.version /\ m.faults = machine.faults
        /\ machine.raced => m.raced
        /\ \A t \in Servers : t # s /\ machine.pid = t /\ srv[t].up \in Owning => m.raced
    BY PidRemovedFacts
  <2>5. left \in Nat
    BY <1>1, <1>4, <2>4 DEF Faults
  <2> HIDE DEF m, left
  <2>6. machine' \in Machines /\ machine'.lock = machine.lock /\ machine'.version = machine.version /\ machine'.raced = m.raced
    BY <2>3, <2>4, <2>5 DEF Machines
  <2> QED
    BY <1>1, <2>1, <2>2, <2>4, <2>6, ServerBoots
<1> QED
  BY <1>3, <1>4 DEF PidWrites

\* A file that is removed as stale keeps the invariant.
LEMMA PidRemovesHolds ==
    ASSUME UpdIInv, NEW s \in Servers, PidRemoves(s)
    PROVE  UpdIInv' /\ UpdateStep
<1> DEFINE v == srv[s]
           w == Booted(v, "boot", "open", v.why)
<1>1. SrvHolds(v) /\ v \in Srvs /\ v.up = "boot" /\ UNCHANGED <<updCli, updScope>> /\ machine' = PidRemoved(s)
  BY DEF UpdIInv, SrvHolds, PidRemoves
<1>2. "open" \in Pids
  BY DEF Pids
<1>3. srv' = [srv EXCEPT ![s] = w]
  <2>1. w = [v EXCEPT !.pid = "open"]
    BY <1>1 DEF Srvs, Booted
  <2> HIDE DEF w
  <2> QED
    BY <2>1 DEF PidRemoves
<1>4. Steps(v, w) /\ w.id = v.id /\ w.up = "boot"
  BY <1>1, <1>2, BootSteps
<1> HIDE DEF w
<1> QED
  BY <1>1, <1>3, <1>4, PidRemovedFacts, ServerBoots

\* A program that ends, or is replaced by another, takes its lock along.
LEMMA ServerLeaves ==
    ASSUME UpdIInv, NEW s \in Servers, NEW w, Steps(srv[s], w), srv[s].id <= w.id, w.up \in {"boot", "starting", "gone"},
           w.up = "starting" => ~updScope.pid, srv' = [srv EXCEPT ![s] = w], UNCHANGED <<updCli, updScope>>,
           NEW pid \in {machine.pid, "none"}, pid = "none" => machine.pid \in {s, "none"},
           machine' = [machine EXCEPT !.pid = pid, !.lock = IF @ = s THEN "none" ELSE @]
    PROVE  UpdIInv' /\ UpdateStep
<1> DEFINE lock == IF machine.lock = s THEN "none" ELSE machine.lock
<1>1. machine \in Machines /\ ~(machine.version < machine.version)
  BY MachineFacts
<1>2. machine' = [machine EXCEPT !.pid = pid, !.lock = lock] /\ lock \in {machine.lock, "none"} /\ lock # s
  BY MachineKnows
<1> HIDE DEF lock
<1>3. machine' \in Machines /\ machine'.pid = pid /\ machine'.lock = lock /\ machine'.version = machine.version /\ machine'.raced = machine.raced
  BY <1>1, <1>2 DEF Machines
<1>4. srv'[s] = w /\ \A t \in Servers : t # s => srv'[t] = srv[t]
  BY ServersHold
<1>5. ASSUME NEW t \in Servers
      PROVE  /\ machine'.lock = t => srv'[t].up \notin {"gone", "boot", "writing"}
             /\ updScope.pid /\ srv'[t].up \in Owning => machine'.pid = t \/ machine'.raced
  <2>1. /\ t \notin {"none", "stale", "cli"}
        /\ machine.lock = t => srv[t].up \notin {"gone", "boot", "writing"}
        /\ updScope.pid /\ srv[t].up \in Owning => machine.pid = t \/ machine.raced
    BY MachineKnows
  <2>2. CASE t = s
    BY <1>2, <1>3, <1>4, <2>2 DEF Ran, Owning
  <2>3. CASE t # s
    BY <1>2, <1>3, <1>4, <2>1, <2>3
  <2> QED
    BY <2>2, <2>3
<1>6. MachineStep
  BY <1>1, <1>3, <1>5 DEF MachineStep
<1> QED
  BY <1>6, ServerMoves

\* A server that exits or is killed keeps the invariant.
LEMMA ServerExits ==
    ASSUME UpdIInv, NEW s \in Servers, SrvExits(s) \/ SrvKilled(s)
    PROVE  UpdIInv' /\ UpdateStep
<1> DEFINE v == srv[s]
<1>1. SrvHolds(v) /\ v \in Srvs /\ v.id \in Nat /\ machine \in Machines /\ UNCHANGED <<updCli, updScope>>
  BY MachineFacts, SrvFacts DEF UpdIInv, SrvHolds, SrvExits, SrvKilled
<1>2. CASE SrvExits(s)
  <2> DEFINE why == IF v.why = "" THEN "exit" ELSE v.why
             w == Leaving(v, "gone", why)
             pid == IF machine.pid = s THEN "none" ELSE machine.pid
  <2>1. srv' = [srv EXCEPT ![s] = w] /\ why \in {v.why, "failed", "exit", "killed"}
    BY <1>2 DEF SrvExits, Leaving
  <2> HIDE DEF why
  <2>2. Steps(v, w) /\ w.id = v.id /\ w.up = "gone"
    BY <1>1, <2>1, LeavesHolds
  <2>3. pid \in {machine.pid, "none"} /\ (pid = "none" => machine.pid \in {s, "none"})
    OBVIOUS
  <2>4. machine' = [machine EXCEPT !.pid = pid, !.lock = IF @ = s THEN "none" ELSE @]
    BY <1>2 DEF SrvExits
  <2> HIDE DEF w, pid
  <2>5. v.id <= w.id
    BY <1>1, <2>2
  <2> QED
    BY <1>1, <2>1, <2>2, <2>3, <2>4, <2>5, ServerLeaves
<1>3. CASE SrvKilled(s)
  <2> DEFINE w == Leaving(v, "gone", "killed")
             pid == machine.pid
  <2>1. srv' = [srv EXCEPT ![s] = w]
    BY <1>3 DEF SrvKilled, Leaving
  <2>2. Steps(v, w) /\ w.id = v.id /\ w.up = "gone"
    BY <1>1, LeavesHolds
  <2>3. pid \in {machine.pid, "none"} /\ (pid = "none" => machine.pid \in {s, "none"})
    OBVIOUS
  <2>4. machine' = [machine EXCEPT !.pid = pid, !.lock = IF @ = s THEN "none" ELSE @]
    BY <1>1, <1>3 DEF SrvKilled, Machines
  <2> HIDE DEF w, pid
  <2>5. v.id <= w.id
    BY <1>1, <2>2
  <2> QED
    BY <1>1, <2>1, <2>2, <2>3, <2>4, <2>5, ServerLeaves
<1> QED
  BY <1>2, <1>3

\* A server that executes its program again keeps the invariant.
LEMMA ServerExecs ==
    ASSUME UpdIInv, NEW s \in Servers, SrvExecs(s)
    PROVE  UpdIInv' /\ UpdateStep
<1> DEFINE v == srv[s]
           version == machine.version
           pid == machine.pid
<1>1. SrvHolds(v) /\ v \in Srvs /\ v.id \in Nat /\ machine \in Machines /\ UNCHANGED <<updCli, updScope>> /\ v.up = "exec"
  BY MachineFacts, SrvFacts DEF UpdIInv, SrvHolds, SrvExecs
<1>2. version \in Nat /\ machine.writable \in BOOLEAN
  BY MachineFacts
<1>3. pid \in {machine.pid, "none"} /\ (pid = "none" => machine.pid \in {s, "none"})
  OBVIOUS
<1>4. machine' = [machine EXCEPT !.pid = pid, !.lock = IF @ = s THEN "none" ELSE @]
  BY <1>1 DEF SrvExecs, Machines
<1>5. CASE ~WouldStart(version)
  <2> DEFINE w == [v EXCEPT !.up = "gone", !.why = "unstartable", !.version = version]
  <2>1. srv' = [srv EXCEPT ![s] = w]
    BY <1>5 DEF SrvExecs
  <2> HIDE DEF version, pid
  <2>2. Steps(v, w) /\ w.id = v.id /\ w.up = "gone"
    BY <1>1, <1>2, <1>5, UnstartableHolds, ZenonT(60)
  <2> HIDE DEF w
  <2>3. v.id <= w.id
    BY <1>1, <2>2
  <2> QED
    BY <1>1, <1>3, <1>4, <2>1, <2>2, <2>3, ServerLeaves
<1>6. CASE WouldStart(version)
  <2> DEFINE up == IF updScope.pid THEN "boot" ELSE "starting"
             id == v.id + 1
             blocked == ~machine.writable
             prompt == IF v.prompt = "none" THEN "none" ELSE IF v.prompt = "due" THEN "due" ELSE "sent"
             w == SignalsAgain(UpdateAgain(ProgramAgain(v, up, id, version), blocked), prompt)
  <2>1. srv' = [srv EXCEPT ![s] = w]
    BY <1>6 DEF SrvExecs, SignalsAgain, UpdateAgain, ProgramAgain, CarriesPrompt
  <2>2. up \in {"boot", "starting"} /\ (up = "starting" => ~updScope.pid) /\ blocked \in BOOLEAN
    OBVIOUS
  <2>3. id \in Nat /\ v.id <= id
    BY <1>1
  <2>4. prompt = IF v.prompt = "none" THEN "none" ELSE IF v.prompt = "due" THEN "due" ELSE "sent"
    OBVIOUS
  <2> HIDE DEF version, pid, up, id, blocked, prompt
  <2>5. Steps(v, w) /\ w.id = id /\ w.up = up
    BY <1>1, <1>2, <2>2, <2>3, <2>4, AgainHolds
  <2> HIDE DEF w
  <2> QED
    BY <1>1, <1>3, <1>4, <2>1, <2>2, <2>3, <2>5, ServerLeaves
<1> QED
  BY <1>5, <1>6

-----------------------------------------------------------------------------
(* The command, and the world.                                              *)

\* What a step leaves true of the command.
CommandStep ==
    /\ updCli' \in Commands
    /\ updCli'.pc = "await" => updCli'.target \in Servers
    /\ \A t \in Servers :
         /\ updCli'.old[t] <= srv'[t].id
         /\ updCli'.said[t] = "again" => updCli'.old[t] < srv'[t].id /\ updCli'.pc \in {"next", "await", "done"}

\* A step of the command keeps the invariant where it keeps what CommandStep names.
LEMMA CommandMoves ==
    ASSUME UpdIInv, UNCHANGED <<srv, updScope>>, CommandStep, machine' \in Machines, machine'.pid = machine.pid,
           machine'.raced = machine.raced, machine'.lock \in {"none", "cli", machine.lock}, machine'.version < machine.version => machine'.forced \/ VersionFails
    PROVE  UpdIInv' /\ UpdateStep
<1>1. Servers' = Servers /\ (\A t \in Servers : SrvHolds(srv[t]))' /\ srv' = [t \in Servers |-> srv'[t]]
  BY ZenonT(60) DEF UpdIInv, Servers, SrvHolds, RestartHolds, WouldStart
<1>2. Machines' = Machines /\ Commands' = Commands
  BY <1>1 DEF Machines, Commands
<1>3. ASSUME NEW t \in Servers
      PROVE  /\ machine'.lock = t => srv'[t].up \notin {"gone", "boot", "writing"}
             /\ updScope.pid /\ srv'[t].up \in Owning => machine'.pid = t \/ machine'.raced
  BY MachineKnows
<1>4. MachineHolds'
  BY <1>1, <1>2, <1>3 DEF MachineHolds
<1>5. CommandHolds'
  BY <1>1, <1>2 DEF CommandHolds, CommandStep
<1>6. UpdIInv'
  BY <1>1, <1>4, <1>5 DEF UpdIInv
<1>7. UpdateStep
  BY DEF UpdateStep
<1> QED
  BY <1>6, <1>7

\* The fields of the command, and what it said of a server it restarted.
LEMMA CommandFacts ==
    ASSUME UpdIInv
    PROVE  /\ updCli \in Commands /\ updCli.latest \in Nat /\ updCli.force \in BOOLEAN /\ updCli.targets \in Seq(Servers)
           /\ updCli.old \in [Servers -> Nat]
           /\ \A t \in Servers : /\ updCli.old[t] <= srv[t].id /\ srv[t].id \in Nat /\ updCli.old[t] \in Nat
                                 /\ updCli.said[t] = "again" => updCli.old[t] < srv[t].id /\ updCli.pc \in {"next", "await", "done"}
<1>1. updCli \in Commands
  BY DEF UpdIInv, CommandHolds
<1>2. updCli.latest \in Nat /\ updCli.force \in BOOLEAN /\ updCli.targets \in Seq(Servers) /\ updCli.old \in [Servers -> Nat]
  BY <1>1 DEF Commands
<1>3. \A t \in Servers : srv[t].id \in Nat
  BY SrvFacts DEF UpdIInv, SrvHolds
<1> QED
  BY <1>1, <1>2, <1>3 DEF UpdIInv, CommandHolds

\* The command goes on to where it does not await, or to where it has
\* nothing to say yet.
LEMMA CommandGoes ==
    ASSUME UpdIInv, NEW pc \in {"lock", "install", "select", "done"}, updCli.pc \in {"latest", "lock", "install"} \/ pc = "done",
           NEW latest \in Nat, updCli' = [updCli EXCEPT !.pc = pc, !.latest = latest], UNCHANGED srv
    PROVE  CommandStep
<1>1. /\ updCli \in Commands
      /\ \A t \in Servers : /\ updCli.old[t] <= srv[t].id
                            /\ updCli.said[t] = "again" => updCli.old[t] < srv[t].id /\ updCli.pc \in {"next", "await", "done"}
  BY CommandFacts
<1>2. updCli' \in Commands /\ updCli'.pc = pc /\ updCli'.old = updCli.old /\ updCli'.said = updCli.said
  BY <1>1 DEF Commands
<1> QED
  BY <1>1, <1>2 DEF CommandStep

\* The install of `agentapi update` keeps the invariant.
LEMMA CommandInstalls ==
    ASSUME UpdIInv, CliLatest \/ CliLocks \/ CliInstalls \/ CliEnds
    PROVE  UpdIInv' /\ UpdateStep
<1>1. updCli \in Commands /\ updCli.latest \in Nat /\ updCli.force \in BOOLEAN
  BY CommandFacts
<1>2. machine \in Machines /\ machine.latest \in Nat /\ machine.version \in Nat /\ ~(machine.version < machine.version)
  BY MachineFacts
<1>3. UNCHANGED <<srv, updScope>>
  BY DEF CliLatest, CliLocks, CliInstalls, CliEnds
<1>4. ASSUME NEW pc, [updCli EXCEPT !.pc = pc] = updCli' PROVE updCli' = [updCli EXCEPT !.pc = pc, !.latest = updCli.latest]
  BY <1>1, <1>4 DEF Commands
<1>5. CommandStep
  <2>1. CASE CliLatest
    <3>1. \/ updCli' = [updCli EXCEPT !.pc = "done"]
          \/ \E pc \in {"lock", "select", "done"} : updCli' = [updCli EXCEPT !.pc = pc, !.latest = machine.latest]
      BY <1>1, <2>1 DEF CliLatest, Commands
    <3>2. updCli.pc = "latest"
      BY <2>1 DEF CliLatest, CliAt
    <3> QED
      BY <1>1, <1>2, <1>3, <1>4, <3>1, <3>2, CommandGoes
  <2>2. CASE CliLocks
    <3>1. updCli.pc = "lock" /\ updCli' = [updCli EXCEPT !.pc = "install"]
      BY <2>2 DEF CliLocks, CliAt
    <3> QED
      BY <1>1, <1>3, <1>4, <3>1, CommandGoes
  <2>3. CASE CliInstalls
    <3>1. updCli.pc = "install" /\ \E pc \in {"select", "done"} : updCli' = [updCli EXCEPT !.pc = pc]
      BY <2>3 DEF CliInstalls, CliAt
    <3> QED
      BY <1>1, <1>3, <1>4, <3>1, CommandGoes, ZenonT(60)
  <2>4. CASE CliEnds
    <3>1. updCli' = [updCli EXCEPT !.pc = "done"]
      BY <2>4 DEF CliEnds
    <3> QED
      BY <1>1, <1>3, <1>4, <3>1, CommandGoes
  <2> QED
    BY <2>1, <2>2, <2>3, <2>4
<1>6. CASE UNCHANGED machine
  BY <1>2, <1>3, <1>5, <1>6, CommandMoves
<1>7. ASSUME NEW lock \in {"none", "cli", machine.lock}, machine' = [machine EXCEPT !.lock = lock] PROVE UpdIInv' /\ UpdateStep
  <2>1. /\ machine' \in Machines /\ machine'.pid = machine.pid /\ machine'.raced = machine.raced /\ machine'.lock = lock
        /\ machine'.version = machine.version
    BY <1>2, <1>7 DEF Machines
  <2> QED
    BY <1>2, <1>3, <1>5, <2>1, CommandMoves
<1>8. CASE Faults /\ (machine' = Faulted(machine, TRUE) \/ machine' = [Faulted(machine, TRUE) EXCEPT !.lock = "none"])
  <2> DEFINE yes == TRUE
             m == Faulted(machine, yes)
  <2>1. yes \in BOOLEAN /\ (yes => Faults) /\ (machine' = m \/ machine' = [m EXCEPT !.lock = "none"])
    BY <1>8
  <2> HIDE DEF yes
  <2>2. m \in Machines /\ m.pid = machine.pid /\ m.raced = machine.raced /\ m.lock = machine.lock /\ m.version = machine.version
    BY <2>1, FaultedFacts
  <2> HIDE DEF m
  <2>3. /\ machine' \in Machines /\ machine'.pid = machine.pid /\ machine'.raced = machine.raced /\ machine'.lock \in {"none", machine.lock}
        /\ machine'.version = machine.version
    BY <2>1, <2>2 DEF Machines
  <2> QED
    BY <1>2, <1>3, <1>5, <2>3, CommandMoves
<1>9. CASE Install(updCli.latest, updCli.force)
  <2> DEFINE latest == updCli.latest
             force == updCli.force
  <2>1. latest \in Nat /\ force \in BOOLEAN /\ Install(latest, force)
    BY <1>1, <1>9
  <2> HIDE DEF latest, force
  <2>2. /\ machine' \in Machines /\ machine'.pid = machine.pid /\ machine'.raced = machine.raced /\ machine'.lock = "none"
        /\ machine'.version < machine.version => machine'.forced \/ VersionFails
    BY <2>1, InstallFacts
  <2> QED
    BY <1>3, <1>5, <2>2, CommandMoves
<1> QED
  <2>1. CASE CliLatest
    BY <1>6, <1>8, <2>1 DEF CliLatest
  <2>2. CASE CliLocks
    BY <1>7, <2>2 DEF CliLocks
  <2>3. CASE CliInstalls
    BY <1>8, <1>9, <2>3 DEF CliInstalls
  <2>4. CASE CliEnds
    BY <1>7, <2>4 DEF CliEnds
  <2> QED
    BY <2>1, <2>2, <2>3, <2>4

\* selectTargets notes the entries, none newer than its run.
LEMMA CommandSelects ==
    ASSUME UpdIInv, CliSelects
    PROVE  UpdIInv' /\ UpdateStep
<1>1. PICK order \in SetToSeqs(Listed) : updCli' = [updCli EXCEPT !.pc = "next", !.targets = order, !.old = [s \in Servers |-> srv[s].entry]]
  BY DEF CliSelects
<1>2. updCli.pc = "select" /\ UNCHANGED <<srv, machine, updScope>>
  BY DEF CliSelects, CliAt
<1>3. updCli \in Commands /\ \A t \in Servers : updCli.said[t] # "again"
  BY <1>2, CommandFacts
<1>4. order \in Seq(Servers)
  <2>1. Listed \in SUBSET Servers
    BY DEF Listed
  <2>2. IsFiniteSet(Servers)
    BY UpdateAssumption DEF UpdIInv, Servers
  <2>3. Cardinality(Listed) \in Nat
    BY <2>1, <2>2, FS_Subset, FS_CardinalityType
  <2>4. order \in [1..Cardinality(Listed) -> Listed]
    BY DEF SetToSeqs
  <2>5. order \in [1..Cardinality(Listed) -> Servers]
    BY <2>1, <2>4
  <2> QED
    BY <2>3, <2>5
<1> DEFINE old == [s \in Servers |-> srv[s].entry]
<1>5. \A t \in Servers : srv[t].entry \in Nat /\ srv[t].entry <= srv[t].id
  BY SrvFacts DEF UpdIInv, SrvHolds, EntryHolds
<1>6. old \in [Servers -> Nat] /\ \A t \in Servers : old[t] <= srv[t].id
  BY <1>5
<1> HIDE DEF old
<1>7. updCli' \in Commands /\ updCli'.pc = "next" /\ updCli'.old = old /\ updCli'.said = updCli.said
  BY <1>1, <1>3, <1>4, <1>6 DEF Commands, old
<1>8. CommandStep
  BY <1>2, <1>3, <1>6, <1>7 DEF CommandStep
<1> QED
  BY <1>2, <1>8, CommandMoves, MachineFacts

\* What the command says of a server; only "again" promises anything.
LEMMA CommandSaysHolds ==
    ASSUME UpdIInv, updCli.pc \in {"next", "await"}, NEW s \in Servers, NEW said \in {"exited", "again", "as before", "late"},
           said = "again" => updCli.old[s] < srv[s].id, NEW targets \in Seq(Servers),
           updCli' = [CommandSays(s, said) EXCEPT !.targets = targets], UNCHANGED srv
    PROVE  CommandStep
<1>1. /\ updCli \in Commands
      /\ \A t \in Servers : /\ updCli.old[t] <= srv[t].id
                            /\ updCli.said[t] = "again" => updCli.old[t] < srv[t].id /\ updCli.pc \in {"next", "await", "done"}
  BY CommandFacts
<1> DEFINE says == [updCli.said EXCEPT ![s] = said]
<1>2. says \in [Servers -> {"", "exited", "again", "as before", "late"}] /\ \A t \in Servers : says[t] = updCli.said[t] \/ (t = s /\ says[t] = said)
  BY <1>1 DEF Commands
<1>3. updCli' = [updCli EXCEPT !.pc = "next", !.said = says, !.targets = targets]
  BY <1>1 DEF CommandSays, Commands
<1> HIDE DEF says
<1>4. updCli' \in Commands /\ updCli'.pc = "next" /\ updCli'.old = updCli.old /\ updCli'.said = says
  BY <1>1, <1>2, <1>3 DEF Commands
<1> QED
  BY <1>1, <1>2, <1>4 DEF CommandStep

\* Its wait for a server to start again keeps the invariant.
LEMMA CommandAwaits ==
    ASSUME UpdIInv, CliAwaits
    PROVE  UpdIInv' /\ UpdateStep
<1> DEFINE s == updCli.target
<1>1. s \in Servers /\ updCli.pc = "await" /\ UNCHANGED <<srv, machine, updScope>>
  BY DEF CliAwaits, CliAt, UpdIInv, CommandHolds
<1>2. updCli \in Commands /\ updCli.targets \in Seq(Servers) /\ updCli.old[s] <= srv[s].id /\ srv[s].id \in Nat /\ updCli.old[s] \in Nat
  BY <1>1, CommandFacts
<1>3. srv[s].up = "serving" => srv[s].entry = srv[s].id
  BY <1>1 DEF UpdIInv, SrvHolds, EntryHolds
<1>4. PICK said \in {"exited", "again", "as before", "late"} :
        updCli' = CommandSays(s, said) /\ (said = "again" => srv[s].up = "serving" /\ srv[s].entry # updCli.old[s])
  BY DEF CliAwaits
<1>5. said = "again" => updCli.old[s] < srv[s].id
  BY <1>2, <1>3, <1>4
<1>6. updCli' = [CommandSays(s, said) EXCEPT !.targets = updCli.targets]
  BY <1>2, <1>4 DEF CommandSays, Commands
<1> HIDE DEF s
<1>7. CommandStep
  BY <1>1, <1>2, <1>5, <1>6, CommandSaysHolds
<1> QED
  BY <1>1, <1>7, CommandMoves, MachineFacts

\* Its signal to a server keeps the invariant.
LEMMA CommandSignals ==
    ASSUME UpdIInv, CliSignals
    PROVE  UpdIInv' /\ UpdateStep
<1> DEFINE s == Head(updCli.targets)
           rest == Tail(updCli.targets)
<1>1. updCli.pc = "next" /\ UNCHANGED <<machine, updScope>>
  BY DEF CliSignals, CliAt
<1>2. /\ updCli \in Commands /\ updCli.targets \in Seq(Servers) /\ updCli.latest \in Nat
      /\ \A t \in Servers : /\ updCli.old[t] <= srv[t].id
                            /\ updCli.said[t] = "again" => updCli.old[t] < srv[t].id /\ updCli.pc \in {"next", "await", "done"}
  BY CommandFacts
<1>3. CASE updCli.targets = << >>
  <2>1. updCli' = [updCli EXCEPT !.pc = "done"] /\ UNCHANGED srv
    BY <1>3 DEF CliSignals
  <2>2. updCli' = [updCli EXCEPT !.pc = "done", !.latest = updCli.latest]
    BY <1>2, <2>1 DEF Commands
  <2>3. CommandStep
    BY <1>2, <2>1, <2>2, CommandGoes
  <2> QED
    BY <1>1, <2>1, <2>3, CommandMoves, MachineFacts
<1>4. ASSUME updCli.targets # << >> PROVE s \in Servers /\ rest \in Seq(Servers)
  BY <1>2, <1>4
<1>5. CASE updCli.targets # << >> /\ ~Alive(s)
  <2>1. updCli' = [CommandSays(s, "exited") EXCEPT !.targets = rest] /\ UNCHANGED srv
    BY <1>2, <1>5 DEF CliSignals, CommandSays, Commands
  <2>2. s \in Servers /\ rest \in Seq(Servers)
    BY <1>4, <1>5
  <2> HIDE DEF s, rest
  <2>3. CommandStep
    BY <1>1, <2>1, <2>2, CommandSaysHolds
  <2> QED
    BY <1>1, <2>1, <2>3, CommandMoves, MachineFacts
<1>6. CASE updCli.targets # << >> /\ Alive(s)
  <2> DEFINE v == srv[s]
             w == [v EXCEPT !.usr2 = TRUE]
  <2>1. srv' = [srv EXCEPT ![s] = w] /\ updCli' = [updCli EXCEPT !.pc = "await", !.targets = rest, !.target = s]
    BY <1>6 DEF CliSignals
  <2>2. s \in Servers /\ rest \in Seq(Servers)
    BY <1>4, <1>6
  <2> HIDE DEF s, rest
  <2>3. updCli' \in Commands /\ updCli'.pc = "await" /\ updCli'.target = s /\ updCli'.old = updCli.old /\ updCli'.said = updCli.said
    BY <1>2, <2>1, <2>2 DEF Commands
  <2>4. Steps(v, w) /\ w.id = v.id /\ w.up = v.up
    <3>1. SrvHolds(v) /\ 0 \in Nat
      BY <2>2 DEF UpdIInv
    <3> HIDE DEF v
    <3> QED
      BY <3>1, SignalHolds
  <2> HIDE DEF w
  <2>5. /\ Servers' = Servers /\ srv' = [t \in Servers |-> srv'[t]] /\ srv'[s] = w
        /\ \A t \in Servers : t # s => srv'[t] = srv[t]
        /\ (\A t \in Servers : SrvHolds(srv[t]))'
        /\ \A t \in Servers : Careful(srv[t], srv'[t])
    BY <1>1, <2>1, <2>2, <2>4, ServersHold
  <2>6. \A t \in Servers : srv'[t].id = srv[t].id /\ srv'[t].up = srv[t].up
    BY <2>4, <2>5
  <2>7. Machines' = Machines /\ Commands' = Commands
    BY <2>5 DEF Machines, Commands
  <2>8. MachineHolds'
    BY <1>1, <2>5, <2>6, <2>7 DEF UpdIInv, MachineHolds
  <2>9. CommandHolds'
    BY <1>1, <1>2, <2>2, <2>3, <2>5, <2>6, <2>7 DEF CommandHolds
  <2>10. UpdIInv'
    BY <1>1, <2>5, <2>8, <2>9 DEF UpdIInv
  <2>11. UpdateStep
    BY <1>1, <2>5, MachineFacts DEF UpdateStep, Careful
  <2> QED
    BY <2>10, <2>11
<1> QED
  BY <1>3, <1>5, <1>6

\* A release and a change of permission keep the invariant.
LEMMA WorldMoves ==
    ASSUME UpdIInv, Published \/ Permitted
    PROVE  UpdIInv' /\ UpdateStep
<1>1. machine \in Machines /\ machine.latest \in Nat /\ machine.writable \in BOOLEAN /\ ~(machine.version < machine.version)
  BY MachineFacts
<1>2. UNCHANGED <<srv, updCli, updScope>>
  BY DEF Published, Permitted
<1>3. /\ machine' \in Machines /\ machine'.pid = machine.pid /\ machine'.raced = machine.raced
      /\ machine'.lock = machine.lock /\ machine'.version = machine.version
  <2>1. CASE Published
    <3> DEFINE latest == machine.latest + 1
    <3>1. latest \in Nat /\ machine' = [machine EXCEPT !.latest = latest]
      BY <1>1, <2>1 DEF Published
    <3> HIDE DEF latest
    <3> QED
      BY <1>1, <3>1 DEF Machines
  <2>2. CASE Permitted
    <3> DEFINE can == ~machine.writable
    <3>1. can \in BOOLEAN /\ machine' = [machine EXCEPT !.writable = can]
      BY <1>1, <2>2 DEF Permitted
    <3> HIDE DEF can
    <3> QED
      BY <1>1, <3>1 DEF Machines
  <2> QED
    BY <2>1, <2>2
<1>4. CommandStep
  BY <1>2 DEF CommandStep, UpdIInv, CommandHolds
<1> QED
  BY <1>1, <1>2, <1>3, <1>4, CommandMoves

-----------------------------------------------------------------------------
(* The invariant, and what it shows.                                        *)

LEMMA NewSrvHolds ==
    ASSUME NEW sc \in UpdateScopes
    PROVE  SrvHolds(NewSrv(sc)) /\ NewSrv(sc).up \in {"boot", "starting"} /\ (NewSrv(sc).up = "starting" => ~sc.pid) /\ NewSrv(sc).id = 1
<1> DEFINE v == NewSrv(sc)
           up == IF sc.pid THEN "boot" ELSE "starting"
<1>1. /\ sc.version \in Nat /\ sc.posts \in Nat /\ sc.deletes \in Nat /\ sc.messages \in Nat /\ sc.own \in Nat /\ sc.restarts \in Nat
      /\ sc.prompt \in Prompts /\ sc.pid \in BOOLEAN
  BY UpdateAssumption DEF Prompts
<1>2. /\ up \in Ups /\ "idle" \in States /\ "idle" \in Agents /\ "free" \in Sigs /\ "open" \in Pids /\ "" \in Whys
      /\ up \in {"boot", "starting"} /\ (up = "starting" => ~sc.pid)
  BY <1>1 DEF Ups, States, Agents, Sigs, Pids, Whys
<1>3. v \in Srvs
  <2>1. 0 \in Nat /\ 1 \in Nat /\ << >> \in Seq(Runs)
    OBVIOUS
  <2> HIDE DEF up
  <2> QED
    BY <1>1, <1>2, <2>1, ZenonT(30) DEF NewSrv, Srvs, up
<1>4. /\ v.up = up /\ v.id = 1 /\ v.state = "idle" /\ v.run = 0 /\ v.runs = << >>
      /\ v.sig = "free" /\ v.why = "" /\ v.prompted = 0 /\ v.entry = 0
  BY DEF NewSrv
<1>5. ~v.updating /\ ~v.requested /\ ~v.term
  BY DEF NewSrv
<1>6. v.prompted = 0 /\ v.entry = 0 /\ v.id = 1
  BY DEF NewSrv
<1>7. 0 <= 1
  OBVIOUS
<1> HIDE DEF v, up
<1>8. v.runs = << >> /\ v.sig # "checked" /\ v.why # "unstartable" /\ v.run = 0 /\ v.state = "idle" /\ v.up \in {"boot", "starting"}
  BY <1>2, <1>4
<1>9. v.prompted <= 1 /\ v.entry <= v.id
  BY <1>6, <1>7, Zenon
<1>10. DOMAIN v.runs = {}
  BY <1>8
<1>11. StatusHolds(v) /\ WaitersHear(v)
  BY <1>5, <1>8, <1>10 DEF StatusHolds, WaitersHear
<1>12. RestartHolds(v) /\ EntryHolds(v)
  BY <1>5, <1>6, <1>8, <1>9, <1>10 DEF RestartHolds, EntryHolds
<1> QED
  BY <1>2, <1>3, <1>4, <1>11, <1>12 DEF SrvHolds, v, up

\* Every scope begins in the invariant.
LEMMA UpdInitHolds == UpdInit => UpdIInv
<1> SUFFICES ASSUME UpdInit PROVE UpdIInv
  OBVIOUS
<1> DEFINE sc == updScope
<1>0. PICK pid \in {"none", "stale"} :
        machine = [version |-> updScope.disk, lock |-> "none", writable |-> TRUE, latest |-> updScope.latest,
                   faults |-> updScope.faults, pid |-> pid, raced |-> FALSE, forced |-> FALSE]
  BY DEF UpdInit
<1>1. /\ sc \in UpdateScopes /\ srv = [s \in Servers |-> NewSrv(sc)]
      /\ machine = [version |-> sc.disk, lock |-> "none", writable |-> TRUE, latest |-> sc.latest, faults |-> sc.faults,
                    pid |-> pid, raced |-> FALSE, forced |-> FALSE]
      /\ updCli = [pc |-> IF sc.cli THEN "latest" ELSE "done", force |-> sc.force, restart |-> TRUE, mine |-> sc.disk, latest |-> 0,
                   targets |-> << >>, target |-> "none", old |-> [s \in Servers |-> 0], said |-> [s \in Servers |-> ""]]
  BY <1>0 DEF UpdInit, Servers
<1>2. /\ sc.disk \in Nat /\ sc.latest \in Nat /\ sc.faults \in Nat /\ sc.force \in BOOLEAN /\ sc.pid \in BOOLEAN
      /\ \A s \in Servers : s \notin {"none", "stale", "cli"}
  BY <1>1, UpdateAssumption DEF Servers
<1>3. ASSUME NEW s \in Servers
      PROVE  SrvHolds(srv[s]) /\ srv[s].up \in {"boot", "starting"} /\ (srv[s].up = "starting" => ~sc.pid) /\ srv[s].id = 1
  BY <1>1, NewSrvHolds
<1>4. srv = [s \in Servers |-> srv[s]]
  BY <1>1
<1>5. MachineHolds
  <2>1. machine \in Machines /\ machine.lock = "none"
    BY <1>1, <1>2 DEF Machines
  <2>2. "boot" \notin Owning
    BY DEF Ran, Owning
  <2>3. ASSUME NEW s \in Servers
        PROVE  /\ machine.lock = s => srv[s].up \notin {"gone", "boot", "writing"}
               /\ ~(updScope.pid /\ srv[s].up \in Owning)
    BY <1>2, <1>3, <2>1, <2>2
  <2> QED
    BY <2>1, <2>3 DEF MachineHolds
<1>6. CommandHolds
  <2> DEFINE old == [s \in Servers |-> 0]
             said == [s \in Servers |-> ""]
             pc == IF sc.cli THEN "latest" ELSE "done"
  <2>1. /\ old \in [Servers -> Nat] /\ said \in [Servers -> {"", "exited", "again", "as before", "late"}]
        /\ pc \in {"latest", "done"} /\ << >> \in Seq(Servers) /\ 0 \in Nat
        /\ \A s \in Servers : old[s] = 0 /\ said[s] = ""
    OBVIOUS
  <2>2. updCli = [pc |-> pc, force |-> sc.force, restart |-> TRUE, mine |-> sc.disk, latest |-> 0,
                  targets |-> << >>, target |-> "none", old |-> old, said |-> said]
    BY <1>1
  <2> HIDE DEF old, said, pc, sc
  <2>3. updCli \in Commands
    BY <1>2, <2>1, <2>2 DEF Commands
  <2>4. updCli.pc # "await" /\ \A s \in Servers : updCli.old[s] = 0 /\ updCli.said[s] = ""
    BY <2>1, <2>2
  <2> QED
    <3>1. \A s \in Servers : srv[s].id = 1
      BY <1>3
    <3>2. 0 <= 1
      OBVIOUS
    <3>3. \A s \in Servers : updCli.old[s] <= srv[s].id
      BY <2>4, <3>1, <3>2, Zenon
    <3> QED
      BY <2>3, <2>4, <3>3 DEF CommandHolds
<1> QED
  BY <1>1, <1>3, <1>4, <1>5, <1>6 DEF UpdIInv

\* Every step keeps the invariant and is an UpdateStep.
LEMMA UpdNextHolds == UpdIInv /\ UpdNext => UpdIInv' /\ UpdateStep
<1> SUFFICES ASSUME UpdIInv, UpdNext PROVE UpdIInv' /\ UpdateStep
  OBVIOUS
<1>1. ASSUME NEW s \in Servers, NEW n \in RunsOf(s),
             \/ UpdLatest(s, n) \/ UpdDisk(s, n) \/ UpdFound(s, n) \/ UpdLocks(s, n) \/ UpdInstalls(s, n) \/ UpdBegins(s, n)
             \/ UpdWaits(s, n) \/ UpdWakes(s, n) \/ UpdChecks(s, n) \/ UpdRestarts(s, n) \/ UpdUnholds(s, n) \/ UpdFails(s, n)
      PROVE  UpdIInv' /\ UpdateStep
  BY <1>1, RunMoves, RunInstalls
<1>2. ASSUME NEW s \in Servers,
             \/ \E now \in BOOLEAN : UpdPost(s, now)
             \/ UpdDelete(s) \/ UpdTicks(s) \/ UpdMessage(s) \/ UpdDispatch(s) \/ UpdAgent(s) \/ UpdAgentRestarts(s) \/ UpdPrompts(s)
      PROVE  UpdIInv' /\ UpdateStep
  BY <1>2, ServerWorks
<1>3. ASSUME NEW s \in Servers,
             \/ PidCreates(s) \/ PidWrites(s) \/ PidReads(s) \/ PidRemoves(s) \/ SrvServes(s) \/ SrvStops(s) \/ SrvStopped(s) \/ SrvExits(s) \/ SrvExecs(s)
             \/ SrvKilled(s) \/ SrvTerm(s) \/ SrvUsr2(s) \/ SrvUsr2Checks(s) \/ SrvUsr2Restarts(s)
      PROVE  UpdIInv' /\ UpdateStep
  BY <1>3, PidCreatesHolds, PidWritesHolds, PidReadsHolds, PidRemovesHolds, ServerServes, ServerStops, ServerExits, ServerExecs, ServerHears
<1>4. CASE CliLatest \/ CliLocks \/ CliInstalls \/ CliSelects \/ CliSignals \/ CliAwaits \/ CliEnds \/ Published \/ Permitted
  BY <1>4, CommandInstalls, CommandSelects, CommandSignals, CommandAwaits, WorldMoves
<1> QED
  BY <1>1, <1>2, <1>3, <1>4 DEF UpdNext, UpdRuns

\* A step that changes nothing keeps the invariant.
LEMMA UpdStutters == UpdIInv /\ UNCHANGED updVars => UpdIInv'
<1> SUFFICES ASSUME UpdIInv, UNCHANGED updVars PROVE UpdIInv'
  OBVIOUS
<1>1. UNCHANGED <<srv, machine, updCli, updScope>>
  BY DEF updVars
<1>2. Servers' = Servers /\ Machines' = Machines /\ Commands' = Commands
  BY <1>1 DEF Servers, Machines, Commands
<1>3. (\A s \in Servers : SrvHolds(srv[s]))'
  BY <1>1, <1>2 DEF UpdIInv, SrvHolds, RestartHolds, WouldStart
<1>4. MachineHolds' /\ CommandHolds'
  BY <1>1, <1>2 DEF UpdIInv, MachineHolds, CommandHolds
<1> QED
  BY <1>1, <1>2, <1>3, <1>4 DEF UpdIInv

\* What the invariant says of the four properties.
LEMMA UpdIInvShows ==
    UpdIInv => UpdateStatusAgrees /\ UpdateIsWoken /\ RestartIsSafe /\ RestartIsReported
<1> SUFFICES ASSUME UpdIInv PROVE UpdateStatusAgrees /\ UpdateIsWoken /\ RestartIsSafe /\ RestartIsReported
  OBVIOUS
<1>1. ASSUME NEW s \in Servers
      PROVE  srv[s] \in Srvs /\ StatusHolds(srv[s]) /\ WaitersHear(srv[s]) /\ RestartHolds(srv[s])
  BY DEF UpdIInv, SrvHolds
<1>2. UpdateStatusAgrees
  <2> SUFFICES ASSUME NEW s \in Servers
               PROVE  LET v == srv[s] IN
                        /\ v.run # 0 <=> v.state \notin {"idle", "failed"}
                        /\ v.updating => v.run # 0 /\ v.state = "restarting"
                        /\ \A n \in DOMAIN v.runs :
                             /\ v.runs[n].pc = "done" => v.runs[n].told # "none"
                             /\ n # v.run => v.runs[n].over /\ v.runs[n].pc \notin {"restart", "checked", "failing", "failed"}
                             /\ v.runs[n].pc \in {"restart", "checked"} => v.updating
    BY DEF UpdateStatusAgrees
  <2>1. "done" \in Answered
    BY DEF Answered
  <2> QED
    BY <1>1, <2>1 DEF StatusHolds, HasTold, Restarting
<1>3. UpdateIsWoken
  BY <1>1 DEF UpdateIsWoken, WaitersHear, RunsOf, AgentIdle
<1>4. RestartIsSafe
  <2>1. machine.lock \in Servers => Alive(machine.lock)
    BY MachineKnows DEF Alive
  <2>2. ASSUME NEW s \in Servers
        PROVE  LET v == srv[s] IN
                 /\ v.up = "exec" => ~v.term
                 /\ v.why = "unstartable" => v.version # v.checked
                 /\ v.prompted <= 1
                 /\ updScope.pid /\ v.up \in {"starting", "serving", "ending", "stopping", "exec"} => machine.pid = s \/ machine.raced
    BY <1>1, MachineKnows DEF RestartHolds, Ran, Owning
  <2> QED
    BY <2>1, <2>2 DEF RestartIsSafe
<1>5. RestartIsReported
  BY CommandFacts DEF RestartIsReported
<1> QED
  BY <1>2, <1>3, <1>4, <1>5

\* What updates promise (lib/httpapi/update.go, cmd/server/reexec.go): the
\* status is that of the one run under way, an update that waits has missed
\* nothing, a restart is safe, and the command's report is true.
THEOREM UpdatesSafe == UpdSpec => [](UpdateStatusAgrees /\ UpdateIsWoken /\ RestartIsSafe /\ RestartIsReported)
<1>1. UpdInit => UpdIInv
  BY UpdInitHolds
<1>2. UpdIInv /\ [UpdNext]_updVars => UpdIInv'
  BY UpdNextHolds, UpdStutters
<1>3. UpdIInv => UpdateStatusAgrees /\ UpdateIsWoken /\ RestartIsSafe /\ RestartIsReported
  BY UpdIInvShows
<1> QED
  BY <1>1, <1>2, <1>3, PTL DEF UpdSpec

\* No step sends the agent a message that the new program should have had,
\* begins a restart under a working agent unasked, or installs an older
\* program, unless forced or as --version of the one in place failed
\* (beginUpdateRestart, Install).
THEOREM UpdatesCareful == UpdSpec => UpdateIsCareful
<1>1. UpdInit => UpdIInv
  BY UpdInitHolds
<1>2. UpdIInv /\ [UpdNext]_updVars => UpdIInv'
  BY UpdNextHolds, UpdStutters
<1>3. UpdIInv /\ [UpdNext]_updVars => [UpdateStep]_updVars
  BY UpdNextHolds
<1> QED
  BY <1>1, <1>2, <1>3, PTL DEF UpdSpec, UpdateIsCareful

-----------------------------------------------------------------------------
(* The terminal.                                                             *)

\* The part of the output the ring still has.
InRing(ring, o) == o \in Nat /\ ring.end - Size <= o /\ o < ring.end

\* The ring holds the last bytes of the output, each at its offset's place.
RingFields == {"buf", "start", "end", "noNewline"}
BytesHeld(ring, output) ==
    /\ RingFields \subseteq DOMAIN ring /\ ring.end = Len(output)
    /\ ring.buf \in Seq(Nat \X BOOLEAN) /\ Len(ring.buf) = IF ring.end <= Size THEN ring.end ELSE Size
    /\ \A o \in Nat : InRing(ring, o) => ring.buf[(o % Size) + 1] = <<o, output[o + 1]>>

\* It starts where it should, and knows of a stretch from there on that has
\* no newline.
RingHolds(ring, output, first) ==
    /\ BytesHeld(ring, output) /\ ring.start = first
    /\ first \in Nat /\ first <= ring.end /\ ring.end - first <= Size
    /\ ring.noNewline \in Nat /\ ring.noNewline <= ring.end
    /\ \A o \in Nat : first <= o /\ o < ring.noNewline => ~output[o + 1]

\* A stream sends what follows what its client saw, without a gap; one that
\* watches has all of it.
StreamHolds(s, output) ==
    /\ {"st", "ch", "at"} \subseteq DOMAIN s /\ s.at \in Nat /\ s.ch \in Seq(Nat \X Nat)
    /\ s.ch # <<>> => s.ch[1][1] = s.at
    /\ \A i \in 1 .. Len(s.ch) - 1 : s.ch[i + 1][1] = s.ch[i][2]
    /\ s.st = "watches" => Len(output) = IF s.ch = <<>> THEN s.at ELSE s.ch[Len(s.ch)][2]

ShellHolds ==
    /\ shell.pty => shell.cells = term.cells
    /\ shell.reader = "none" => ~shell.alive /\ ~shell.pty /\ \A c \in DOMAIN streams : streams[c].st # "watches"

\* Close closed the terminal, and returns once no shell is left.
CloseHolds == (term.close # "no" => term.closed) /\ (term.close = "done" => shell.reader = "none")

TermFields == {"ring", "output", "first", "cells", "closed", "close", "stopping", "shells", "streams", "leaves", "resizes"}
ShellFields == {"alive", "pty", "unread", "reader", "waited", "cells"}
TermIInv ==
    /\ Size \in Nat \ {0} /\ termScope.chunks \subseteq Seq(BOOLEAN) /\ DOMAIN streams = termScope.clients
    /\ TermFields \subseteq DOMAIN term /\ ShellFields \subseteq DOMAIN shell
    /\ term.output \in Seq(BOOLEAN) /\ shell.unread \in Seq(BOOLEAN)
    /\ RingHolds(term.ring, term.output, term.first)
    /\ \A c \in DOMAIN streams : StreamHolds(streams[c], term.output)
    /\ ShellHolds
    /\ CloseHolds

-----------------------------------------------------------------------------
\* Whole numbers divide with a remainder, in one way.
LEMMA DivIs ==
    ASSUME NEW S \in Nat \ {0}, NEW a \in Int
    PROVE  a % S \in 0 .. S - 1 /\ a \div S \in Int /\ a = S * (a \div S) + (a % S)
<1>1. S > 0 /\ a % S \in Int /\ a % S >= 0 /\ a % S < S /\ a \div S \in Int
  OBVIOUS
<1>2. a = S * (a \div S) + (a % S)
  BY <1>1
<1> QED
  BY <1>1, <1>2

\* A greater quotient is a whole divisor more.
LEMMA QuotientGrows ==
    ASSUME NEW S \in Nat \ {0}, NEW q \in Int, NEW p \in Int, p < q
    PROVE  S * q >= S * p + S
<1>1. S * (q - p - 1) >= 0
  OBVIOUS
<1> QED
  BY <1>1

\* What a division with a remainder leaves is that remainder.
LEMMA ModIs ==
    ASSUME NEW S \in Nat \ {0}, NEW a \in Int, NEW q \in Int, NEW d \in 0 .. S - 1, a = S * q + d
    PROVE  a % S = d
<1> DEFINE p == a \div S
           r == a % S
<1>1. r \in 0 .. S - 1 /\ p \in Int /\ a = S * p + r
  BY DivIs
<1> HIDE DEF p, r
<1>2. ~(p < q)
  BY <1>1, QuotientGrows
<1>3. ~(q < p)
  BY <1>1, QuotientGrows
<1>4. p = q
  BY <1>1, <1>2, <1>3
<1> QED
  BY <1>1, <1>4 DEF r

\* The place of a later byte: further on, or from the beginning again.
LEMMA PlaceIs ==
    ASSUME NEW S \in Nat \ {0}, NEW a \in Int, NEW k \in 0 .. S
    PROVE  (a + k) % S = IF (a % S) + k < S THEN (a % S) + k ELSE (a % S) + k - S
<1> DEFINE q == a \div S
           r == a % S
<1>1. r \in 0 .. S - 1 /\ q \in Int /\ a = S * q + r
  BY DivIs
<1> HIDE DEF q, r
<1>2. CASE r + k < S
  <2>1. a + k = S * q + (r + k) /\ r + k \in 0 .. S - 1 /\ a + k \in Int
    BY <1>1, <1>2
  <2>2. (a + k) % S = r + k
    BY <1>1, <2>1, ModIs
  <2> QED
    BY <1>2, <2>2 DEF r
<1>3. CASE ~(r + k < S)
  <2>1. a + k = S * (q + 1) + (r + k - S)
    <3>1. S * (q + 1) = S * q + S
      BY <1>1
    <3> QED
      BY <1>1, <3>1
  <2>2. r + k - S \in 0 .. S - 1 /\ a + k \in Int /\ q + 1 \in Int
    BY <1>1, <1>3
  <2> DEFINE p == q + 1
             d == r + k - S
             b == a + k
  <2>3. b = S * p + d /\ p \in Int /\ d \in 0 .. S - 1 /\ b \in Int
    BY <2>1, <2>2
  <2> HIDE DEF p, d, b
  <2>4. b % S = d
    BY <2>3, ModIs
  <2> QED
    BY <1>3, <2>4 DEF r, d, b
<1> QED
  BY <1>2, <1>3 DEF r

\* Of some numbers one is the least.
LEMMA LeastIs ==
    ASSUME NEW T \in SUBSET Nat, T # {}
    PROVE  \E m \in T : \A n \in T : m <= n
<1>1. PICK m \in T : \A n \in T : ~(<<n, m>> \in OpToRel(<, Nat))
  BY WFMin, NatLessThanWellFounded
<1>2. ASSUME NEW n \in T PROVE m <= n
  <2>1. ~(n < m)
    BY <1>1 DEF OpToRel
  <2> QED
    BY <2>1
<1> QED
  BY <1>2

\* A byte of the ring is at its place.
LEMMA ByteIs ==
    ASSUME Size \in Nat \ {0}, NEW ring, NEW output \in Seq(BOOLEAN), BytesHeld(ring, output), NEW o \in Nat, InRing(ring, o)
    PROVE  o % Size \in 0 .. Size - 1 /\ (o % Size) + 1 \in 1 .. Len(ring.buf)
<1>1. o % Size \in 0 .. Size - 1
  BY DivIs
<1>2. ring.end = Len(output) /\ ring.end \in Nat /\ Len(ring.buf) = IF ring.end <= Size THEN ring.end ELSE Size
  BY DEF BytesHeld
<1>3. CASE ring.end >= Size
  BY <1>1, <1>2, <1>3
<1>4. CASE ring.end < Size
  <2>1. o = Size * 0 + o /\ o \in 0 .. Size - 1
    BY <1>2, <1>4 DEF InRing
  <2>2. o % Size = o
    BY <2>1, ModIs
  <2> QED
    BY <1>1, <1>2, <1>4, <2>2 DEF InRing
<1> QED
  BY <1>2, <1>3, <1>4

\* The place in the ring of the k-th byte from the place i on.
Place(i, k, S) == IF i + k - 1 < S THEN i + k ELSE i + k - S

\* Where the bytes from an offset on are in the ring, and where the last is.
Cut(S, from, end, len, i, w) ==
    /\ S \in Nat \ {0} /\ from \in Nat /\ end \in Nat /\ from < end /\ end - from <= S
    /\ i = from % S /\ w = end - from /\ (len = IF end <= S THEN end ELSE S)
CutIs(S, from, end, len, i, w) ==
    /\ i \in 0 .. S - 1 /\ w \in 1 .. S
    /\ \A k \in 1 .. w : (from + k - 1) % S = Place(i, k, S) - 1 /\ Place(i, k, S) \in 1 .. len
    /\ Place(i, w, S) = IF end % S = 0 THEN len ELSE end % S
    /\ i + w - 1 >= S => len = S
LEMMA PlacesAre ==
    ASSUME NEW S, NEW from, NEW end, NEW len, NEW i, NEW w, Cut(S, from, end, len, i, w)
    PROVE  CutIs(S, from, end, len, i, w)
<1>0. /\ S \in Nat \ {0} /\ from \in Nat /\ end \in Nat /\ from < end /\ end - from <= S
      /\ i = from % S /\ w = end - from /\ (len = IF end <= S THEN end ELSE S)
  BY DEF Cut
<1>1. i \in 0 .. S - 1 /\ w \in 1 .. S /\ len \in 1 .. S
  BY <1>0, DivIs
<1>2. len = S \/ (i = from /\ len = end)
  <2>1. CASE end < S
    <3>1. from = S * 0 + from /\ from \in 0 .. S - 1
      BY <1>0, <2>1
    <3>2. i = from
      BY <1>0, <3>1, ModIs
    <3> QED
      BY <1>0, <2>1, <3>2
  <2>2. CASE end >= S
    BY <1>0, <1>1, <2>2
  <2> QED
    BY <1>0, <2>1, <2>2
<1>3. i + w - 1 >= S => len = S
  BY <1>0, <1>1, <1>2
<1>4. ASSUME NEW k \in 1 .. w PROVE (from + k - 1) % S = Place(i, k, S) - 1 /\ Place(i, k, S) \in 1 .. len
  <2>1. PICK m \in 0 .. S : m = k - 1
    BY <1>0, <1>1
  <2>2. (from + m) % S = IF i + m < S THEN i + m ELSE i + m - S
    <3>1. from \in Int
      BY <1>0
    <3>2. (from + m) % S = IF (from % S) + m < S THEN (from % S) + m ELSE (from % S) + m - S
      BY <1>0, <3>1, PlaceIs, Zenon
    <3> QED
      BY <1>0, <3>2
  <2>5. from + k - 1 = from + m
    BY <1>0, <1>1, <2>1
  <2>3. (from + k - 1) % S = Place(i, k, S) - 1
    BY <1>0, <1>1, <2>1, <2>2, <2>5 DEF Place
  <2>4. Place(i, k, S) \in 1 .. len
    BY <1>0, <1>1, <1>2, <1>3 DEF Place
  <2> QED
    BY <1>0, <2>3, <2>4
<1>5. Place(i, w, S) = IF end % S = 0 THEN len ELSE end % S
  <2> DEFINE a == end - 1
             r == a % S
             p == Place(i, w, S)
  <2>1. a = from + w - 1 /\ a \in Int /\ end = a + 1 /\ w \in 1 .. w /\ 1 \in 0 .. S
    BY <1>0, <1>1
  <2>2. r = p - 1 /\ p \in 1 .. len
    BY <1>0, <1>4, <2>1
  <2>3. r \in 0 .. S - 1
    BY <1>0, <2>1, DivIs
  <2>4. end % S = IF r + 1 < S THEN r + 1 ELSE r + 1 - S
    BY <1>0, <2>1, PlaceIs
  <2> HIDE DEF a, r, p
  <2>5. p = IF end % S = 0 THEN len ELSE end % S
    BY <1>0, <1>1, <2>2, <2>3, <2>4
  <2> QED
    BY <1>0, <2>5 DEF p
<1> QED
  BY <1>1, <1>3, <1>4, <1>5 DEF CutIs

\* The slices of a ring, put in a row.
Sliced(T, S, buf, whole, i, w, j) ==
    /\ S \in Nat \ {0} /\ buf \in Seq(T) /\ whole \in Seq(T) /\ i \in 0 .. S - 1 /\ w \in 1 .. S /\ Len(whole) = w
    /\ j = Place(i, w, S) /\ (i + w - 1 >= S => Len(buf) = S)
    /\ \A k \in 1 .. w : Place(i, k, S) \in 1 .. Len(buf) /\ whole[k] = buf[Place(i, k, S)]
LEMMA SlicesAre ==
    ASSUME NEW T, NEW S, NEW buf, NEW whole, NEW i, NEW w, NEW j, Sliced(T, S, buf, whole, i, w, j)
    PROVE  whole = IF i < j THEN SubSeq(buf, i + 1, j) ELSE SubSeq(buf, i + 1, Len(buf)) \o SubSeq(buf, 1, j)
<1>0. /\ S \in Nat \ {0} /\ buf \in Seq(T) /\ whole \in Seq(T) /\ i \in 0 .. S - 1 /\ w \in 1 .. S /\ Len(whole) = w
      /\ j = Place(i, w, S) /\ (i + w - 1 >= S => Len(buf) = S)
      /\ \A k \in 1 .. w : Place(i, k, S) \in 1 .. Len(buf) /\ whole[k] = buf[Place(i, k, S)]
  BY DEF Sliced
<1>1. Len(buf) \in Nat /\ \A k \in 1 .. Len(buf) : buf[k] \in T
  BY <1>0
<1>2. j \in 1 .. Len(buf)
  BY <1>0
<1>3. CASE i + w - 1 < S
  <2> DEFINE q == SubSeq(buf, i + 1, j)
  <2>1. j = i + w /\ i < j /\ j <= Len(buf)
    BY <1>0, <1>1, <1>2, <1>3 DEF Place
  <2>2. i + 1 \in Int /\ j \in Int /\ i + 1 <= j /\ (j - (i + 1)) + 1 = w /\ \A k \in i + 1 .. j : buf[k] \in T
    <3>1. \A k \in i + 1 .. j : k \in 1 .. Len(buf)
      BY <1>0, <1>1, <1>2, <2>1
    <3>2. i + 1 \in Int /\ j \in Int /\ i + 1 <= j
      BY <1>0, <1>1, <1>2, <2>1
    <3>3. (j - (i + 1)) + 1 = w
      BY <1>0, <2>1
    <3> QED
      BY <1>0, <1>1, <3>1, <3>2, <3>3
  <2>3. q \in Seq(T) /\ Len(q) = (j - (i + 1)) + 1 /\ \A k \in 1 .. (j - (i + 1)) + 1 : q[k] = buf[((i + 1) + k) - 1]
    BY <1>0, <2>2, SubSeqProperties
  <2>4. ASSUME NEW k \in 1 .. w PROVE q[k] = whole[k]
    <3>1. Place(i, k, S) = i + k /\ ((i + 1) + k) - 1 = i + k
      <4>1. i \in Int /\ k \in Int /\ (i + k) - 1 < S
        BY <1>0, <1>3
      <4>2. (i + k) - 1 < S => Place(i, k, S) = i + k
        BY <4>1 DEF Place
      <4>3. ((i + 1) + k) - 1 = i + k
        BY <4>1
      <4> QED
        BY <4>1, <4>2, <4>3
    <3>2. k \in 1 .. (j - (i + 1)) + 1
      BY <2>2
    <3>3. q[k] = buf[((i + 1) + k) - 1]
      BY <2>3, <3>2
    <3>4. whole[k] = buf[Place(i, k, S)]
      BY <1>0
    <3> HIDE DEF q
    <3> QED
      BY <3>1, <3>3, <3>4
  <2>5. whole = IF i < j THEN q ELSE SubSeq(buf, i + 1, Len(buf)) \o SubSeq(buf, 1, j)
    <3> HIDE DEF q
    <3> QED
      BY <1>0, <2>1, <2>2, <2>3, <2>4, SeqEqual
  <2> QED
    BY <1>0, <2>5
<1>4. CASE ~(i + w - 1 < S)
  <2> DEFINE q1 == SubSeq(buf, i + 1, Len(buf))
             q2 == SubSeq(buf, 1, j)
             q == q1 \o q2
  <2>1. j = i + w - S /\ ~(i < j) /\ Len(buf) = S
    BY <1>0, <1>4 DEF Place
  <2>2. i + 1 \in Int /\ S \in Int /\ i + 1 <= S /\ (S - (i + 1)) + 1 = S - i /\ \A k \in i + 1 .. S : buf[k] \in T
    BY <1>0, <1>1, <2>1
  <2>3. q1 \in Seq(T) /\ Len(q1) = (S - (i + 1)) + 1 /\ \A k \in 1 .. (S - (i + 1)) + 1 : q1[k] = buf[((i + 1) + k) - 1]
    <3>1. q1 = SubSeq(buf, i + 1, S)
      BY <1>0, <2>1
    <3> HIDE DEF q1
    <3> QED
      BY <1>0, <2>2, <3>1, SubSeqProperties
  <2>4. 1 \in Int /\ j \in Int /\ 1 <= j /\ (j - 1) + 1 = j /\ \A k \in 1 .. j : buf[k] \in T
    BY <1>0, <1>1, <1>2
  <2>5. q2 \in Seq(T) /\ Len(q2) = (j - 1) + 1 /\ \A k \in 1 .. (j - 1) + 1 : q2[k] = buf[(1 + k) - 1]
    BY <1>0, <2>4, SubSeqProperties
  <2> HIDE DEF q1, q2
  <2>6. q \in Seq(T) /\ Len(q) = Len(q1) + Len(q2) /\ \A k \in 1 .. Len(q1) + Len(q2) : q[k] = IF k <= Len(q1) THEN q1[k] ELSE q2[k - Len(q1)]
    <3>1. q1 \in Seq(T) /\ q2 \in Seq(T) /\ q = q1 \o q2
      BY <2>3, <2>5
    <3> HIDE DEF q
    <3> QED
      BY <3>1, ConcatProperties
  <2> HIDE DEF q
  <2>7. Len(q1) = S - i /\ Len(q2) = j /\ Len(q) = w /\ (S - i) + j = w
    <3>1. Len(q1) = S - i
      BY <1>0, <2>2, <2>3
    <3>2. Len(q2) = j
      BY <1>0, <2>4, <2>5
    <3>3. (S - i) + j = w
      BY <1>0, <2>1
    <3> QED
      BY <1>0, <2>6, <3>1, <3>2, <3>3
  <2>8. ASSUME NEW k \in 1 .. w PROVE q[k] = whole[k]
    <3>1. q[k] = IF k <= S - i THEN q1[k] ELSE q2[k - (S - i)]
      BY <1>0, <2>6, <2>7
    <3>2. whole[k] = buf[Place(i, k, S)]
      BY <1>0
    <3>3. CASE k <= S - i
      <4>1. k \in 1 .. S - i /\ Place(i, k, S) = i + k /\ ((i + 1) + k) - 1 = i + k
        BY <1>0, <3>3 DEF Place
      <4>2. q1[k] = buf[((i + 1) + k) - 1]
        BY <1>0, <2>2, <2>3, <4>1
      <4> QED
        BY <1>0, <3>1, <3>2, <3>3, <4>1, <4>2
    <3>4. CASE ~(k <= S - i)
      <4> DEFINE m == k - (S - i)
      <4>1. m \in 1 .. j /\ Place(i, k, S) = m /\ (1 + m) - 1 = m
        BY <1>0, <2>1, <3>4 DEF Place
      <4> HIDE DEF m
      <4>2. q2[m] = buf[(1 + m) - 1]
        BY <1>0, <2>4, <2>5, <4>1
      <4>3. q2[m] = buf[Place(i, k, S)]
        BY <1>0, <4>1, <4>2
      <4> QED
        BY <1>0, <3>1, <3>2, <3>4, <4>3 DEF m
    <3> QED
      BY <1>0, <3>3, <3>4
  <2>9. whole = q
    BY <1>0, <2>6, <2>7, <2>8, SeqEqual
  <2> QED
    BY <1>0, <2>1, <2>9 DEF q, q1, q2
<1> QED
  BY <1>3, <1>4

\* segments returns what the ring has from an offset on, in order.
LEMMA SegmentsIs ==
    ASSUME Size \in Nat \ {0}, NEW ring, NEW output \in Seq(BOOLEAN), BytesHeld(ring, output),
           NEW from \in Nat, from <= ring.end, ring.end - from <= Size
    PROVE  Segments(ring, from) = [k \in 1 .. ring.end - from |-> <<from + k - 1, output[from + k]>>]
<1>1. PICK S, end, buf : S = Size /\ end = ring.end /\ buf = ring.buf
  OBVIOUS
<1>2. PICK i, w, j, whole : /\ i = from % S /\ w = end - from /\ (j = IF end % S = 0 THEN Len(buf) ELSE end % S)
                            /\ whole = [k \in 1 .. w |-> <<from + k - 1, output[from + k]>>]
  OBVIOUS
<1>3. /\ S \in Nat \ {0} /\ end \in Nat /\ from <= end /\ w \in Nat /\ w <= S
      /\ buf \in Seq(Nat \X BOOLEAN) /\ Len(buf) = IF end <= S THEN end ELSE S
  BY <1>1, <1>2 DEF BytesHeld
<1>4. Segments(ring, from) = IF from >= end THEN <<>>
                             ELSE IF i < j THEN SubSeq(buf, i + 1, j)
                             ELSE SubSeq(buf, i + 1, Len(buf)) \o SubSeq(buf, 1, j)
  BY <1>1, <1>2 DEF Segments
<1>5. CASE from >= end
  <2>1. w = 0 /\ 1 .. w = {}
    BY <1>2, <1>3, <1>5
  <2>2. whole = <<>>
    BY <1>2, <2>1
  <2> QED
    BY <1>1, <1>2, <1>4, <1>5, <2>2
<1>6. CASE from < end
  <2>1. /\ i \in 0 .. S - 1 /\ w \in 1 .. S
        /\ \A k \in 1 .. w : (from + k - 1) % S = Place(i, k, S) - 1 /\ Place(i, k, S) \in 1 .. Len(buf)
        /\ Place(i, w, S) = j
        /\ i + w - 1 >= S => Len(buf) = S
    <3>1. PICK len : len = Len(buf)
      OBVIOUS
    <3>2. Cut(S, from, end, len, i, w)
      BY <1>2, <1>3, <1>6, <3>1 DEF Cut
    <3>3. CutIs(S, from, end, len, i, w)
      BY <3>2, PlacesAre
    <3> QED
      BY <1>2, <3>1, <3>3 DEF CutIs
  <2>2. ASSUME NEW k \in 1 .. w PROVE whole[k] = buf[Place(i, k, S)] /\ buf[Place(i, k, S)] \in Nat \X BOOLEAN
    <3> DEFINE o == from + k - 1
    <3>1. o \in Nat /\ InRing(ring, o) /\ o + 1 = from + k
      <4>1. o \in Nat /\ end - S <= o /\ o < end /\ o + 1 = from + k
        BY <1>2, <1>3
      <4> HIDE DEF o
      <4> QED
        BY <1>1, <4>1 DEF InRing
    <3>2. buf[(o % S) + 1] = <<o, output[o + 1]>>
      BY <1>1, <3>1 DEF BytesHeld
    <3>3. (o % S) + 1 = Place(i, k, S) /\ Place(i, k, S) \in 1 .. Len(buf)
      BY <2>1
    <3>4. whole[k] = <<o, output[o + 1]>>
      BY <1>2, <3>1
    <3> HIDE DEF o
    <3> QED
      BY <1>3, <3>2, <3>3, <3>4
  <2>3. whole \in Seq(Nat \X BOOLEAN) /\ Len(whole) = w
    <3>1. whole = [k \in 1 .. w |-> whole[k]] /\ \A k \in 1 .. w : whole[k] \in Nat \X BOOLEAN
      BY <1>2, <2>2
    <3> QED
      <4>1. whole \in [1 .. w -> Nat \X BOOLEAN]
        BY <3>1
      <4> QED
        BY <1>3, <4>1
  <2>4. whole = IF i < j THEN SubSeq(buf, i + 1, j) ELSE SubSeq(buf, i + 1, Len(buf)) \o SubSeq(buf, 1, j)
    <3>1. /\ i + w - 1 >= S => Len(buf) = S
          /\ \A k \in 1 .. w : Place(i, k, S) \in 1 .. Len(buf) /\ whole[k] = buf[Place(i, k, S)]
      BY <2>1, <2>2
    <3> QED
      <4>1. Sliced(Nat \X BOOLEAN, S, buf, whole, i, w, j)
        BY <1>3, <2>1, <2>3, <3>1 DEF Sliced
      <4> QED
        BY <4>1, SlicesAre
  <2> QED
    <3>1. Segments(ring, from) = whole
      BY <1>3, <1>4, <1>6, <2>4
    <3> QED
      BY <1>1, <1>2, <3>1
<1> QED
  BY <1>3, <1>5, <1>6

-----------------------------------------------------------------------------
\* The place of a byte, seen from the offset where a write begins.
FromShown(S, o, off) ==
    /\ o - off \in 0 .. S - 1 => ((o % S) - off) % S = o - off
    /\ (o - off) + S \in 0 .. S - 1 => ((o % S) - off) % S = (o - off) + S
LEMMA FromIs ==
    ASSUME NEW S \in Nat \ {0}, NEW o \in Nat, NEW off \in Int
    PROVE  FromShown(S, o, off)
<1> DEFINE q == o \div S
           r == o % S
           a == r - off
<1>1. r \in 0 .. S - 1 /\ q \in Int /\ o = S * q + r
  BY DivIs
<1> HIDE DEF q, r
<1>2. ASSUME o - off \in 0 .. S - 1 PROVE a % S = o - off
  <2> DEFINE d == o - off
             p == 0 - q
  <2>1. S * p = 0 - S * q
    BY <1>1
  <2>2. a = S * p + d /\ p \in Int /\ d \in 0 .. S - 1 /\ a \in Int
    BY <1>1, <1>2, <2>1
  <2> HIDE DEF p, d, a
  <2>3. a % S = d
    BY <2>2, ModIs
  <2> QED
    BY <2>3 DEF d
<1>3. ASSUME (o - off) + S \in 0 .. S - 1 PROVE a % S = (o - off) + S
  <2> DEFINE d == (o - off) + S
             p == 0 - (q + 1)
  <2>1. S * p = 0 - S * q - S
    BY <1>1
  <2>2. a = S * p + d /\ p \in Int /\ d \in 0 .. S - 1 /\ a \in Int
    BY <1>1, <1>3, <2>1
  <2> HIDE DEF p, d, a
  <2>3. a % S = d
    BY <2>2, ModIs
  <2> QED
    BY <2>3 DEF d
<1> QED
  BY <1>2, <1>3 DEF FromShown, r

\* What a chunk adds to the output, and the bytes of it that are written.
Added(ring, output, flags, data, kept, off, out) ==
    /\ data = [i \in DOMAIN flags |-> <<ring.end + i - 1, flags[i]>>]
    /\ kept = (IF Len(data) > Size THEN SubSeq(data, Len(data) - Size + 1, Len(data)) ELSE data)
    /\ off = (ring.end + Len(data)) - Len(kept) /\ out = output \o flags
AddedIs(ring, output, flags, data, kept, off, out) ==
    /\ out \in Seq(BOOLEAN) /\ ring.end \in Nat /\ Len(data) \in Nat /\ Len(out) = ring.end + Len(data)
    /\ \A o \in Nat : o < ring.end => out[o + 1] = output[o + 1]
    /\ kept \in Seq(Nat \X BOOLEAN) /\ off \in Nat /\ off + Len(kept) = ring.end + Len(data)
    /\ Len(kept) \in Nat /\ Len(kept) <= Size /\ (off = ring.end \/ (Len(kept) = Size /\ off > ring.end))
    /\ \A k \in 1 .. Len(kept) : kept[k] = <<(off + k) - 1, out[off + k]>>
LEMMA ChunkIs ==
    ASSUME Size \in Nat \ {0}, NEW ring, NEW output \in Seq(BOOLEAN), ring.end = Len(output), NEW flags \in Seq(BOOLEAN),
           NEW data, NEW kept, NEW off, NEW out, Added(ring, output, flags, data, kept, off, out)
    PROVE  AddedIs(ring, output, flags, data, kept, off, out)
<1>1. PICK S, end, n : S = Size /\ end = ring.end /\ n = Len(flags)
  OBVIOUS
<1>2. S \in Nat \ {0} /\ end \in Nat /\ end = Len(output) /\ n \in Nat /\ DOMAIN flags = 1 .. n /\ \A k \in 1 .. n : flags[k] \in BOOLEAN
  BY <1>1
<1>3. /\ out \in Seq(BOOLEAN) /\ Len(out) = end + n
      /\ \A k \in 1 .. end + n : out[k] = IF k <= end THEN output[k] ELSE flags[k - end]
  <2>1. out = output \o flags
    BY DEF Added
  <2> QED
    BY <1>1, <1>2, <2>1, ConcatProperties
<1>4. /\ data \in Seq(Nat \X BOOLEAN) /\ Len(data) = n
      /\ \A k \in 1 .. n : data[k] = <<(end + k) - 1, out[end + k]>>
  <2>1. data = [i \in 1 .. n |-> <<end + i - 1, flags[i]>>]
    BY <1>1, <1>2 DEF Added
  <2>2. ASSUME NEW k \in 1 .. n PROVE data[k] = <<(end + k) - 1, flags[k]>> /\ data[k] \in Nat \X BOOLEAN /\ out[end + k] = flags[k]
    <3>1. end + k - 1 \in Nat /\ end + k - 1 = (end + k) - 1 /\ end + k \in 1 .. end + n /\ ~(end + k <= end) /\ (end + k) - end = k
      BY <1>2
    <3>2. data[k] = <<(end + k) - 1, flags[k]>>
      BY <2>1, <3>1
    <3>3. out[end + k] = flags[k]
      BY <1>3, <3>1
    <3> QED
      BY <1>2, <3>1, <3>2, <3>3
  <2>3. data \in [1 .. n -> Nat \X BOOLEAN]
    <3>1. data = [k \in 1 .. n |-> data[k]]
      BY <2>1
    <3> QED
      BY <2>2, <3>1
  <2>4. data \in Seq(Nat \X BOOLEAN) /\ Len(data) = n
    BY <1>2, <2>3
  <2> QED
    BY <2>2, <2>4
<1>5. kept = (IF n > S THEN SubSeq(data, n - S + 1, n) ELSE data) /\ off = (end + n) - Len(kept)
  BY <1>1, <1>4 DEF Added
<1>8. off = (end + n) - Len(kept)
  BY <1>5
<1>6. /\ kept \in Seq(Nat \X BOOLEAN) /\ off \in Nat /\ off + Len(kept) = end + n /\ Len(kept) \in Nat /\ Len(kept) <= S
      /\ off = end \/ (Len(kept) = S /\ off > end)
      /\ \A k \in 1 .. Len(kept) : kept[k] = <<(off + k) - 1, out[off + k]>>
  <2>1. CASE n > S
    <3>1. /\ n - S + 1 \in Int /\ n \in Int /\ n - S + 1 <= n /\ (n - (n - S + 1)) + 1 = S
          /\ \A k \in n - S + 1 .. n : data[k] \in Nat \X BOOLEAN
      <4>1. \A k \in n - S + 1 .. n : k \in 1 .. n
        BY <1>2, <2>1
      <4>2. \A k \in 1 .. n : data[k] \in Nat \X BOOLEAN
        BY <1>4
      <4>3. n - S + 1 \in Int /\ n \in Int /\ n - S + 1 <= n /\ (n - (n - S + 1)) + 1 = S
        BY <1>2
      <4> QED
        BY <4>1, <4>2, <4>3
    <3>2. kept = SubSeq(data, n - S + 1, n)
      BY <1>5, <2>1
    <3>3. /\ kept \in Seq(Nat \X BOOLEAN) /\ Len(kept) = (n - (n - S + 1)) + 1
          /\ \A k \in 1 .. (n - (n - S + 1)) + 1 : kept[k] = data[((n - S + 1) + k) - 1]
      BY <3>1, <3>2, SubSeqProperties
    <3>4. Len(kept) = S /\ off = end + n - S
      <4>1. Len(kept) = S
        BY <3>1, <3>3
      <4> QED
        BY <1>2, <1>8, <4>1
    <3>5. ASSUME NEW k \in 1 .. S PROVE kept[k] = <<(off + k) - 1, out[off + k]>>
      <4> DEFINE m == ((n - S + 1) + k) - 1
      <4>1. m \in 1 .. n /\ (end + m) - 1 = (off + k) - 1 /\ end + m = off + k
        BY <1>2, <2>1, <3>4
      <4>2. kept[k] = data[m]
        BY <3>1, <3>3
      <4> HIDE DEF m
      <4>3. data[m] = <<(end + m) - 1, out[end + m]>>
        BY <1>4, <4>1
      <4> QED
        BY <4>1, <4>2, <4>3
    <3> QED
      BY <1>2, <2>1, <3>3, <3>4, <3>5
  <2>2. CASE ~(n > S)
    <3>1. kept = data /\ off = end
      <4>1. kept = data
        BY <1>5, <2>2
      <4>2. Len(kept) = n
        BY <1>4, <4>1
      <4> QED
        BY <1>2, <1>8, <4>1, <4>2
    <3>2. Len(kept) = n /\ off + Len(kept) = end + n /\ Len(kept) <= S
      <4>1. Len(kept) = n
        BY <1>4, <3>1
      <4> QED
        BY <1>2, <2>2, <3>1, <4>1
    <3> QED
      BY <1>2, <1>4, <3>1, <3>2
  <2> QED
    BY <2>1, <2>2
<1>7. \A o \in Nat : o < end => out[o + 1] = output[o + 1]
  <2> SUFFICES ASSUME NEW o \in Nat, o < end PROVE out[o + 1] = output[o + 1]
    OBVIOUS
  <2>1. o + 1 \in 1 .. end + n /\ o + 1 <= end
    BY <1>2
  <2> QED
    BY <1>3, <2>1
<1> QED
  BY <1>1, <1>2, <1>3, <1>4, <1>6, <1>7 DEF AddedIs

\* write puts the bytes where segments looks for them.
WrittenShown(buf, out) ==
    /\ buf \in Seq(Nat \X BOOLEAN) /\ Len(buf) = IF Len(out) <= Size THEN Len(out) ELSE Size
    /\ \A o \in Nat : Len(out) - Size <= o /\ o < Len(out) => buf[(o % Size) + 1] = <<o, out[o + 1]>>
LEMMA WrittenIs ==
    ASSUME Size \in Nat \ {0}, NEW ring, NEW output \in Seq(BOOLEAN), BytesHeld(ring, output), NEW flags \in Seq(BOOLEAN),
           NEW data, NEW kept, NEW off, NEW out, Added(ring, output, flags, data, kept, off, out),
           NEW buf, buf = RingWrite(ring, off, kept)
    PROVE  WrittenShown(buf, out)
<1>1. PICK S, end, m, n, old : S = Size /\ end = ring.end /\ m = Len(kept) /\ n = Len(out) /\ old = ring.buf
  OBVIOUS
<1>2. ring.end = Len(output)
  BY DEF BytesHeld
<1>3. AddedIs(ring, output, flags, data, kept, off, out)
  BY <1>2, ChunkIs
<1>4. /\ S \in Nat \ {0} /\ end \in Nat /\ n \in Nat /\ m \in Nat /\ off \in Nat /\ off + m = n /\ m <= S /\ (off = end \/ (m = S /\ off > end)) /\ end <= n
      /\ out \in Seq(BOOLEAN) /\ kept \in Seq(Nat \X BOOLEAN) /\ old \in Seq(Nat \X BOOLEAN) /\ Len(old) = IF end <= S THEN end ELSE S
      /\ \A k \in 1 .. m : kept[k] = <<(off + k) - 1, out[off + k]>>
  BY <1>1, <1>3 DEF AddedIs, BytesHeld
<1>10. S \in Nat \ {0} /\ end \in Nat /\ n \in Nat /\ m \in Nat /\ off \in Nat /\ off + m = n /\ m <= S /\ (off = end \/ (m = S /\ off > end)) /\ end <= n
  BY <1>4
<1>5. \A o \in Nat : o < end => out[o + 1] = output[o + 1]
  BY <1>1, <1>3 DEF AddedIs
<1>6. buf = IF off + m <= S THEN old \o kept
            ELSE [i \in 1 .. S |-> LET k == ((i - 1 - off) % S) + 1
                                   IN  IF k <= m THEN kept[k] ELSE IF i <= Len(old) THEN old[i] ELSE <<0, FALSE>>]
  BY <1>1 DEF RingWrite
<1>7. ASSUME NEW o \in Nat, end - S <= o, o < end
      PROVE  (o % S) + 1 \in 1 .. Len(old) /\ old[(o % S) + 1] = <<o, out[o + 1]>>
  <2>1. InRing(ring, o)
    BY <1>1, <1>7 DEF InRing
  <2>2. old[(o % S) + 1] = <<o, output[o + 1]>>
    BY <1>1, <2>1 DEF BytesHeld
  <2> QED
    BY <1>1, <1>5, <1>7, <2>1, <2>2, ByteIs
<1>8. CASE off + m <= S
  <2>1. buf = old \o kept /\ Len(old) = end /\ off = end
    <3>1. off = end /\ end <= S
      BY <1>4, <1>8
    <3>2. buf = old \o kept
      BY <1>6, <1>8
    <3> QED
      BY <1>4, <3>1, <3>2
  <2>2. /\ buf \in Seq(Nat \X BOOLEAN) /\ Len(buf) = end + m
        /\ \A k \in 1 .. end + m : buf[k] = IF k <= end THEN old[k] ELSE kept[k - end]
    <3>1. old \in Seq(Nat \X BOOLEAN) /\ kept \in Seq(Nat \X BOOLEAN) /\ Len(kept) = m
      BY <1>1, <1>4
    <3>2. /\ old \o kept \in Seq(Nat \X BOOLEAN) /\ Len(old \o kept) = Len(old) + Len(kept)
          /\ \A k \in 1 .. Len(old) + Len(kept) : (old \o kept)[k] = IF k <= Len(old) THEN old[k] ELSE kept[k - Len(old)]
      BY <3>1, ConcatProperties
    <3> QED
      BY <2>1, <3>1, <3>2
  <2>3. ASSUME NEW o \in Nat, o < n PROVE buf[(o % S) + 1] = <<o, out[o + 1]>>
    <3>1. o = S * 0 + o /\ o \in 0 .. S - 1 /\ S \in Nat \ {0}
      BY <1>4, <1>8, <2>3
    <3>2. o % S = o
      BY <3>1, ModIs
    <3>3. o + 1 \in 1 .. end + m
      BY <1>4, <2>1, <2>3
    <3>4. CASE o < end
      <4>1. end - S <= o /\ o + 1 <= end
        BY <1>4, <1>8, <3>4
      <4> QED
        BY <1>7, <2>2, <3>2, <3>3, <3>4, <4>1
    <3>5. CASE ~(o < end)
      <4> DEFINE k == (o + 1) - end
      <4>1. k \in 1 .. m /\ ~(o + 1 <= end) /\ (off + k) - 1 = o /\ off + k = o + 1
        BY <1>4, <2>1, <2>3, <3>5
      <4> HIDE DEF k
      <4>2. kept[k] = <<o, out[o + 1]>>
        BY <1>4, <4>1
      <4> QED
        BY <2>2, <3>2, <3>3, <4>1, <4>2 DEF k
    <3> QED
      BY <3>4, <3>5
  <2>4. n <= S /\ end + m = n
    BY <1>10, <1>8, <2>1
  <2>5. Len(buf) = n /\ buf \in Seq(Nat \X BOOLEAN)
    BY <2>2, <2>4
  <2>6. \A o \in Nat : o < n => buf[(o % S) + 1] = <<o, out[o + 1]>>
    BY <2>3
  <2> QED
    BY <1>1, <2>4, <2>5, <2>6 DEF WrittenShown
<1>9. CASE ~(off + m <= S)
  <2> DEFINE k(i) == ((i - 1 - off) % S) + 1
             byte(i) == IF k(i) <= m THEN kept[k(i)] ELSE IF i <= Len(old) THEN old[i] ELSE <<0, FALSE>>
  <2>1. buf = [i \in 1 .. S |-> byte(i)]
    BY <1>6, <1>9
  <2>2. ASSUME NEW i \in 1 .. S PROVE byte(i) \in Nat \X BOOLEAN
    <3>1. i - 1 - off \in Int
      BY <1>4
    <3>2. k(i) \in 1 .. S
      <4>1. (i - 1 - off) % S \in 0 .. S - 1
        BY <1>4, <3>1, DivIs
      <4> QED
        BY <1>4, <4>1
    <3> HIDE DEF k
    <3>3. k(i) <= m => kept[k(i)] \in Nat \X BOOLEAN
      BY <1>1, <1>4, <3>2
    <3>4. i <= Len(old) => old[i] \in Nat \X BOOLEAN
      BY <1>4
    <3>5. <<0, FALSE>> \in Nat \X BOOLEAN
      OBVIOUS
    <3> QED
      BY <3>3, <3>4, <3>5
  <2>3. buf \in Seq(Nat \X BOOLEAN) /\ Len(buf) = S /\ \A i \in 1 .. S : buf[i] = byte(i)
    <3> HIDE DEF byte
    <3>1. buf \in [1 .. S -> Nat \X BOOLEAN] /\ \A i \in 1 .. S : buf[i] = byte(i)
      BY <2>1, <2>2
    <3>2. S \in Nat
      BY <1>4
    <3>3. \A B : buf \in [1 .. S -> B] => buf \in Seq(B) /\ Len(buf) = S
      BY <3>2
    <3> QED
      BY <3>1, <3>3
  <2>4. ASSUME NEW o \in Nat, n - S <= o, o < n PROVE buf[(o % S) + 1] = <<o, out[o + 1]>>
    <3> DEFINE i == (o % S) + 1
    <3>1. o % S \in 0 .. S - 1
      <4>1. S \in Nat \ {0} /\ o \in Int
        BY <1>4
      <4> QED
        BY <4>1, DivIs
    <3>2. i \in 1 .. S /\ i - 1 - off = (o % S) - off
      BY <1>4, <3>1
    <3>3. buf[i] = byte(i) /\ k(i) = (((o % S) - off) % S) + 1
      BY <2>3, <3>2
    <3> HIDE DEF i
    <3>4. CASE off <= o
      <4>1. o - off \in 0 .. S - 1 /\ off \in Int
        BY <1>10, <2>4, <3>4
      <4>2. ((o % S) - off) % S = o - off
        <5>1. FromShown(S, o, off)
          BY <1>4, <4>1, FromIs
        <5> QED
          BY <4>1, <5>1 DEF FromShown
      <4>3. k(i) = (o - off) + 1
        BY <3>3, <4>2
      <4> HIDE DEF k
      <4>4. k(i) \in 1 .. m /\ (off + k(i)) - 1 = o /\ off + k(i) = o + 1
        BY <1>10, <2>4, <3>4, <4>3
      <4>5. kept[k(i)] = <<o, out[o + 1]>>
        BY <1>4, <4>4
      <4> QED
        BY <3>3, <4>4, <4>5 DEF i
    <3>5. CASE o < off
      <4>1. (o - off) + S \in 0 .. S - 1 /\ off \in Int /\ (o - off) + S >= m
        BY <1>10, <2>4, <3>5
      <4>2. ((o % S) - off) % S = (o - off) + S
        <5>1. FromShown(S, o, off)
          BY <1>4, <4>1, FromIs
        <5> QED
          BY <4>1, <5>1 DEF FromShown
      <4>3. k(i) = ((o - off) + S) + 1
        BY <3>3, <4>2
      <4> HIDE DEF k
      <4>4. ~(k(i) <= m) /\ end - S <= o /\ o < end
        BY <1>10, <2>4, <3>5, <4>1, <4>3
      <4>5. i \in 1 .. Len(old) /\ old[i] = <<o, out[o + 1]>>
        BY <1>7, <4>4 DEF i
      <4>6. i <= Len(old)
        BY <1>4, <4>5
      <4> QED
        BY <3>3, <4>4, <4>5, <4>6 DEF i
    <3> QED
      BY <1>4, <3>4, <3>5
  <2>5. ~(n <= S)
    BY <1>10, <1>9
  <2> QED
    BY <1>1, <2>3, <2>4, <2>5 DEF WrittenShown
<1> QED
  BY <1>8, <1>9

-----------------------------------------------------------------------------
\* The newlines of the output from an offset on.
Newlines(last, out) == {o \in last .. Len(out) - 1 : out[o + 1]}
FirstOf(T) == CHOOSE o \in T : \A p \in T : o <= p

\* One newline is the first.
LEMMA FirstIs ==
    ASSUME NEW T \in SUBSET Nat, T # {}
    PROVE  FirstOf(T) \in T /\ (\A p \in T : FirstOf(T) <= p) /\ \A o \in T : (\A p \in T : o <= p) => o = FirstOf(T)
<1>1. \E o \in T : \A p \in T : o <= p
  BY LeastIs
<1>2. FirstOf(T) \in T /\ \A p \in T : FirstOf(T) <= p
  BY <1>1 DEF FirstOf
<1>3. ASSUME NEW o \in T, \A p \in T : o <= p PROVE o = FirstOf(T)
  <2>1. o \in Nat /\ FirstOf(T) \in Nat /\ o <= FirstOf(T) /\ FirstOf(T) <= o
    BY <1>2, <1>3
  <2> QED
    BY <2>1
<1> QED
  BY <1>2, <1>3

\* indexNewline finds the first newline that is kept, though it looks only
\* behind what it knows to have none.
LEMMA IndexIs ==
    ASSUME Size \in Nat \ {0}, NEW ring, NEW out \in Seq(BOOLEAN), BytesHeld(ring, out),
           NEW last \in Nat, NEW from \in Nat, last <= from, from <= ring.end, ring.end - from <= Size,
           \A o \in Nat : last <= o /\ o < from => ~out[o + 1]
    PROVE  /\ Newlines(last, out) \in SUBSET Nat
           /\ IndexNewline(ring, from) = IF Newlines(last, out) = {} THEN -1 ELSE FirstOf(Newlines(last, out))
<1> DEFINE kept == Segments(ring, from)
           hits == {i \in DOMAIN kept : kept[i][2]}
           lines == Newlines(last, out)
<1>1. PICK end, w : end = ring.end /\ w = end - from
  OBVIOUS
<1>2. end = Len(out) /\ end \in Nat /\ w \in Nat
  BY <1>1 DEF BytesHeld
<1>3. kept = [k \in 1 .. w |-> <<from + k - 1, out[from + k]>>]
  BY <1>1, SegmentsIs
<1>4. IndexNewline(ring, from) = IF hits = {} THEN -1 ELSE from + FirstOf(hits) - 1
  BY DEF IndexNewline, FirstOf
<1>5. hits \in SUBSET Nat /\ \A i \in hits : i \in 1 .. w /\ out[from + i]
  BY <1>2, <1>3
<1>6. \A i \in 1 .. w : out[from + i] => i \in hits
  BY <1>2, <1>3
<1> HIDE DEF kept, hits
<1>7. lines \in SUBSET Nat /\ \A o \in lines : o \in Nat /\ last <= o /\ o < end /\ out[o + 1]
  BY <1>2 DEF Newlines
<1>8. \A o \in Nat : last <= o /\ o < end /\ out[o + 1] => o \in lines
  BY <1>2 DEF Newlines
<1> HIDE DEF lines
<1>9. ASSUME NEW i \in hits PROVE (from + i) - 1 \in lines
  <2> DEFINE o == (from + i) - 1
  <2>1. o \in Nat /\ last <= o /\ o < end /\ o + 1 = from + i
    BY <1>1, <1>2, <1>5
  <2>2. out[o + 1]
    BY <1>5, <2>1
  <2> HIDE DEF o
  <2>3. o \in lines
    BY <1>8, <2>1, <2>2
  <2> QED
    BY <2>3 DEF o
<1>10. ASSUME NEW o \in lines PROVE (o - from) + 1 \in hits
  <2>1. o \in Nat /\ last <= o /\ o < end /\ out[o + 1]
    BY <1>7
  <2>2. from <= o
    BY <2>1
  <2>3. PICK i : i = (o - from) + 1
    OBVIOUS
  <2>4. i \in 1 .. w /\ from + i = o + 1
    BY <1>1, <1>2, <2>1, <2>2, <2>3
  <2> QED
    BY <1>6, <2>1, <2>3, <2>4
<1>11. CASE hits = {}
  <2>1. lines = {}
    BY <1>10, <1>11
  <2> QED
    BY <1>4, <1>7, <1>11, <2>1 DEF lines
<1>12. CASE hits # {}
  <2>1. FirstOf(hits) \in hits /\ \A p \in hits : FirstOf(hits) <= p
    BY <1>5, <1>12, FirstIs
  <2>2. PICK o : o = (from + FirstOf(hits)) - 1
    OBVIOUS
  <2>3. o \in lines /\ o \in Nat /\ FirstOf(hits) \in Nat
    BY <1>5, <1>7, <1>9, <2>1, <2>2
  <2>4. ASSUME NEW p \in lines PROVE o <= p
    <3>1. (p - from) + 1 \in hits /\ p \in Nat
      BY <1>7, <1>10
    <3>2. FirstOf(hits) <= (p - from) + 1
      BY <2>1, <3>1
    <3> QED
      BY <2>2, <2>3, <3>1, <3>2
  <2>5. o = FirstOf(lines) /\ lines # {}
    BY <1>7, <2>3, <2>4, FirstIs
  <2>6. IndexNewline(ring, from) = o
    BY <1>4, <1>12, <2>2, <2>3
  <2> QED
    BY <1>7, <2>5, <2>6 DEF lines
<1> QED
  BY <1>11, <1>12

\* add keeps the ring as the scrollback's comment says.
LEMMA RingAddHolds ==
    ASSUME Size \in Nat \ {0}, NEW ring, NEW output \in Seq(BOOLEAN), NEW first, RingHolds(ring, output, first), NEW flags \in Seq(BOOLEAN),
           NEW data, data = [i \in DOMAIN flags |-> <<ring.end + i - 1, flags[i]>>]
    PROVE  RingHolds(RingAdd(ring, data), output \o flags, KeptFrom(first, output \o flags))
<1>1. PICK S, out, end : S = Size /\ out = output \o flags /\ end = ring.end + Len(data)
  OBVIOUS
<1>2. PICK kept : kept = IF Len(data) > Size THEN SubSeq(data, Len(data) - Size + 1, Len(data)) ELSE data
  OBVIOUS
<1>3. PICK off : off = (ring.end + Len(data)) - Len(kept)
  OBVIOUS
<1>4. BytesHeld(ring, output) /\ ring.end = Len(output) /\ RingFields \subseteq DOMAIN ring
  BY DEF RingHolds, BytesHeld
<1>5. Added(ring, output, flags, data, kept, off, out)
  BY <1>1, <1>2, <1>3 DEF Added
<1>6. AddedIs(ring, output, flags, data, kept, off, out)
  BY <1>4, <1>5, ChunkIs
<1>7. out \in Seq(BOOLEAN) /\ end = Len(out) /\ end \in Nat /\ ring.end \in Nat /\ ring.end <= end
  BY <1>1, <1>6 DEF AddedIs
<1>8. \A o \in Nat : o < ring.end => out[o + 1] = output[o + 1]
  BY <1>6 DEF AddedIs
<1>9. PICK buf : buf = RingWrite(ring, off, kept)
  OBVIOUS
<1>10. /\ buf \in Seq(Nat \X BOOLEAN) /\ Len(buf) = IF Len(out) <= Size THEN Len(out) ELSE Size
       /\ \A o \in Nat : Len(out) - Size <= o /\ o < Len(out) => buf[(o % Size) + 1] = <<o, out[o + 1]>>
  <2>1. WrittenShown(buf, out)
    BY <1>4, <1>5, <1>9, WrittenIs
  <2> QED
    BY <2>1 DEF WrittenShown
<1>11. PICK added : added = [ring EXCEPT !.buf = RingWrite(ring, off, kept), !.end = end]
  OBVIOUS
<1>12. /\ RingFields \subseteq DOMAIN added /\ added.buf = buf /\ added.end = end /\ added.start = ring.start /\ added.noNewline = ring.noNewline
  BY <1>4, <1>9, <1>11 DEF RingFields
<1>13. BytesHeld(added, out)
  BY <1>7, <1>10, <1>12 DEF BytesHeld, InRing
<1>14. PICK last, from, i : last = end - Size /\ (from = IF last > ring.noNewline THEN last ELSE ring.noNewline) /\ i = IndexNewline(added, from)
  OBVIOUS
<1>15. RingAdd(ring, data) = IF end - ring.start <= Size THEN added
                             ELSE IF i >= 0 THEN [added EXCEPT !.start = i + 1, !.noNewline = i + 1]
                             ELSE [added EXCEPT !.start = last, !.noNewline = end]
  BY <1>1, <1>2, <1>3, <1>11, <1>14 DEF RingAdd
<1>16. /\ S \in Nat \ {0} /\ first \in Nat /\ first <= ring.end /\ ring.start = first /\ ring.noNewline \in Nat /\ ring.noNewline <= ring.end
       /\ \A o \in Nat : first <= o /\ o < ring.noNewline => ~output[o + 1]
  BY <1>1 DEF RingHolds
<1>17. KeptFrom(first, out) = IF end - first <= Size THEN first
                              ELSE IF Newlines(last, out) = {} THEN last ELSE FirstOf(Newlines(last, out)) + 1
  BY <1>7, <1>14 DEF KeptFrom, Newlines, FirstOf
<1>18. CASE end - first <= Size
  <2>1. KeptFrom(first, out) = first /\ RingAdd(ring, data) = added
    BY <1>15, <1>16, <1>17, <1>18
  <2>2. ASSUME NEW o \in Nat, first <= o, o < ring.noNewline PROVE ~out[o + 1]
    <3>1. o < ring.end
      BY <1>7, <1>16, <2>2
    <3>2. out[o + 1] = output[o + 1]
      BY <1>8, <3>1
    <3>3. ~output[o + 1]
      BY <1>16, <2>2
    <3> QED
      BY <3>2, <3>3
  <2>3. first <= end /\ ring.noNewline <= end
    BY <1>7, <1>16
  <2>4. RingHolds(added, out, first)
    BY <1>12, <1>13, <1>16, <1>18, <2>2, <2>3 DEF RingHolds
  <2> QED
    BY <1>1, <2>1, <2>4
<1>19. CASE ~(end - first <= Size)
  <2> DEFINE re == ring.end
             nn == ring.noNewline
  <2>10. /\ S \in Nat \ {0} /\ end \in Nat /\ re \in Nat /\ nn \in Nat /\ first \in Nat /\ re <= end /\ first <= re /\ nn <= re
         /\ last = end - S /\ (from = IF last > nn THEN last ELSE nn) /\ ~(end - first <= S) /\ S = Size
    <3>1. S \in Nat \ {0} /\ S = Size
      BY <1>1
    <3>2. end \in Nat /\ re \in Nat /\ nn \in Nat /\ first \in Nat /\ re <= end /\ first <= re /\ nn <= re
      BY <1>7, <1>16
    <3>3. last = end - S /\ (from = IF last > nn THEN last ELSE nn) /\ ~(end - first <= S)
      BY <1>14, <1>19, <3>1
    <3> QED
      BY <3>1, <3>2, <3>3
  <2>11. first < last /\ last \in Nat
    <3> HIDE DEF re, nn
    <3> QED
      BY <2>10
  <2>1. last \in Nat /\ first <= last /\ last <= end /\ from \in Nat /\ last <= from /\ from <= end /\ end - from <= S /\ (from = last \/ from = nn)
    <3> HIDE DEF re, nn
    <3>1. first <= last /\ last <= end
      BY <2>10, <2>11
    <3>2. from \in Nat /\ last <= from /\ (from = last \/ from = nn)
      BY <2>10, <2>11
    <3>3. from <= end /\ end - from <= S
      BY <2>10, <2>11, <3>2
    <3> QED
      BY <2>11, <3>1, <3>2, <3>3
  <2>2. ASSUME NEW o \in Nat, last <= o, o < from PROVE ~out[o + 1]
    <3>1. first <= o /\ o < nn /\ o < re
      <4> HIDE DEF re, nn
      <4> QED
        BY <2>1, <2>2, <2>10, <2>11
    <3>2. ~output[o + 1]
      BY <1>16, <3>1
    <3> QED
      BY <1>8, <3>1, <3>2
  <2>3. /\ Newlines(last, out) \in SUBSET Nat
        /\ i = IF Newlines(last, out) = {} THEN -1 ELSE FirstOf(Newlines(last, out))
    <3>1. from <= added.end /\ added.end - from <= Size
      BY <1>12, <2>1, <2>10
    <3>2. /\ Newlines(last, out) \in SUBSET Nat
          /\ IndexNewline(added, from) = IF Newlines(last, out) = {} THEN -1 ELSE FirstOf(Newlines(last, out))
      BY <1>7, <1>13, <2>1, <2>2, <3>1, IndexIs
    <3> QED
      BY <1>14, <3>2
  <2>4. CASE Newlines(last, out) = {}
    <3>1. KeptFrom(first, out) = last /\ RingAdd(ring, data) = [added EXCEPT !.start = last, !.noNewline = end]
      BY <1>15, <1>16, <1>17, <1>19, <2>3, <2>4
    <3>2. PICK new : new = RingAdd(ring, data)
      OBVIOUS
    <3>3. /\ RingFields \subseteq DOMAIN new /\ new.buf = added.buf /\ new.end = added.end /\ new.start = last /\ new.noNewline = end
      BY <1>12, <3>1, <3>2 DEF RingFields
    <3>4. BytesHeld(new, out)
      BY <1>13, <3>3 DEF BytesHeld, InRing
    <3>5. ASSUME NEW o \in Nat, last <= o, o < end PROVE ~out[o + 1]
      <4>1. o \in last .. Len(out) - 1
        BY <1>7, <2>1, <3>5
      <4> QED
        BY <2>4, <4>1 DEF Newlines
    <3>7. end - last <= S /\ end \in Nat /\ last <= end /\ end <= end
      <4> HIDE DEF re, nn
      <4> QED
        BY <2>1, <2>10
    <3>6. RingHolds(new, out, last)
      <4>1. new.start = last /\ last \in Nat /\ last <= new.end /\ new.end - last <= Size /\ new.noNewline \in Nat /\ new.noNewline <= new.end
        BY <1>12, <2>1, <2>10, <3>3, <3>7
      <4>2. \A o \in Nat : last <= o /\ o < new.noNewline => ~out[o + 1]
        BY <3>3, <3>5
      <4> QED
        BY <3>4, <4>1, <4>2 DEF RingHolds
    <3> QED
      BY <1>1, <3>1, <3>2, <3>6
  <2>5. CASE Newlines(last, out) # {}
    <3>1. i \in Newlines(last, out) /\ i = FirstOf(Newlines(last, out))
      BY <2>3, <2>5, FirstIs
    <3>2. i \in Nat /\ last <= i /\ i < end
      BY <1>7, <2>1, <3>1 DEF Newlines
    <3>3. KeptFrom(first, out) = i + 1 /\ RingAdd(ring, data) = [added EXCEPT !.start = i + 1, !.noNewline = i + 1]
      BY <1>15, <1>16, <1>17, <1>19, <2>5, <3>1, <3>2
    <3>4. PICK new : new = RingAdd(ring, data)
      OBVIOUS
    <3>5. /\ RingFields \subseteq DOMAIN new /\ new.buf = added.buf /\ new.end = added.end /\ new.start = i + 1 /\ new.noNewline = i + 1
      BY <1>12, <3>3, <3>4 DEF RingFields
    <3>6. BytesHeld(new, out)
      BY <1>13, <3>5 DEF BytesHeld, InRing
    <3>9. i + 1 \in Nat /\ i + 1 <= end /\ end - (i + 1) <= S
      <4> HIDE DEF re, nn
      <4> QED
        BY <2>1, <2>10, <3>2
    <3>7. i + 1 \in Nat /\ i + 1 <= new.end /\ new.end - (i + 1) <= Size /\ \A o \in Nat : ~(i + 1 <= o /\ o < i + 1)
      BY <1>12, <2>10, <3>2, <3>5, <3>9
    <3>8. RingHolds(new, out, i + 1)
      BY <3>5, <3>6, <3>7 DEF RingHolds
    <3> QED
      BY <1>1, <3>3, <3>4, <3>8
  <2> QED
    BY <2>4, <2>5
<1> QED
  BY <1>18, <1>19

-----------------------------------------------------------------------------
\* What the ring holds it goes on holding.
LEMMA RingStays ==
    ASSUME UNCHANGED termScope, NEW ring, NEW output, NEW first, RingHolds(ring, output, first)
    PROVE  RingHolds(ring, output, first)'
<1>1. Size' = Size
  BY DEF Size
<1>2. BytesHeld(ring, output)'
  BY <1>1 DEF RingHolds, BytesHeld, InRing
<1> QED
  BY <1>1, <1>2 DEF RingHolds

\* A step that leaves the scrollback alone.
LEMMA TermStays ==
    ASSUME TermIInv, UNCHANGED termScope, TermFields \subseteq DOMAIN term',
           term'.ring = term.ring, term'.output = term.output, term'.first = term.first,
           ShellFields \subseteq DOMAIN shell', shell'.unread \in Seq(BOOLEAN), DOMAIN streams' = DOMAIN streams,
           \A c \in DOMAIN streams : StreamHolds(streams'[c], term.output), ShellHolds',
           CloseHolds'
    PROVE  TermIInv'
<1>1. Size' \in Nat \ {0} /\ termScope'.chunks \subseteq Seq(BOOLEAN) /\ DOMAIN streams' = termScope'.clients /\ term'.output \in Seq(BOOLEAN)
  BY DEF TermIInv, Size
<1>2. PICK ring, output, first : ring = term.ring /\ output = term.output /\ first = term.first
  OBVIOUS
<1>3. RingHolds(ring, output, first)'
  BY <1>2, RingStays DEF TermIInv
<1>4. RingHolds(term.ring, term.output, term.first)'
  BY <1>2, <1>3 DEF RingHolds, BytesHeld, InRing, Size
<1>5. \A c \in DOMAIN streams' : StreamHolds(streams'[c], term'.output)
  OBVIOUS
<1> QED
  BY <1>1, <1>4, <1>5 DEF TermIInv

\* A stream of no client that watches holds whatever the output.
LEMMA OtherStreamHolds ==
    ASSUME NEW s, NEW output, NEW out, StreamHolds(s, output), s.st # "watches"
    PROVE  StreamHolds(s, out)
  BY DEF StreamHolds

\* One whose channel is closed.
LEMMA ClosedStreamHolds ==
    ASSUME NEW s, NEW output, NEW out, StreamHolds(s, output)
    PROVE  StreamHolds(CloseCh(s), out)
<1>1. PICK new : new = CloseCh(s)
  OBVIOUS
<1>2. DOMAIN new = DOMAIN s /\ new.st = "dropped" /\ new.ch = s.ch /\ new.at = s.at
  BY <1>1 DEF StreamHolds, CloseCh
<1> QED
  BY <1>1, <1>2 DEF StreamHolds

\* One that begins.
LEMMA NewStreamHolds ==
    ASSUME NEW output, Len(output) \in Nat, NEW s, {"st", "ch", "at"} \subseteq DOMAIN s, s.ch = <<>>, s.at \in Nat,
           s.st = "watches" => s.at = Len(output)
    PROVE  StreamHolds(s, output)
<1>1. s.ch \in Seq(Nat \X Nat) /\ Len(s.ch) = 0 /\ 1 .. Len(s.ch) - 1 = {}
  OBVIOUS
<1> QED
  BY <1>1 DEF StreamHolds

\* A chunk that follows the output a watcher has.
LEMMA ChunkFollows ==
    ASSUME NEW s, NEW output, NEW out, StreamHolds(s, output), s.st = "watches", NEW a, a = Len(output), a \in Nat,
           NEW b \in Nat, b = Len(out), NEW new, DOMAIN new = DOMAIN s, new.st = s.st, new.at = s.at, new.ch = Append(s.ch, <<a, b>>)
    PROVE  StreamHolds(new, out)
<1>1. PICK ch, n : ch = s.ch /\ n = Len(ch)
  OBVIOUS
<1>2. /\ ch \in Seq(Nat \X Nat) /\ n \in Nat /\ <<a, b>> \in Nat \X Nat
      /\ \A i \in 1 .. n - 1 : ch[i + 1][1] = ch[i][2]
      /\ a = IF ch = <<>> THEN s.at ELSE ch[n][2]
      /\ ch # <<>> => ch[1][1] = s.at
      /\ s.at \in Nat /\ (ch = <<>> <=> n = 0)
  BY <1>1 DEF StreamHolds
<1>3. PICK to : to = Append(ch, <<a, b>>)
  OBVIOUS
<1>4. to \in Seq(Nat \X Nat) /\ Len(to) = n + 1 /\ (\A i \in 1 .. n : to[i] = ch[i]) /\ to[n + 1] = <<a, b>>
  <2>1. PICK x : x = <<a, b>>
    OBVIOUS
  <2>2. PICK T : T = Nat \X Nat
    OBVIOUS
  <2>3. ch \in Seq(T) /\ x \in T /\ to = Append(ch, x)
    BY <1>2, <1>3, <2>1, <2>2
  <2>4. to \in Seq(T) /\ Len(to) = Len(ch) + 1 /\ (\A i \in 1 .. Len(ch) : to[i] = ch[i]) /\ to[Len(ch) + 1] = x
    BY <2>3, AppendProperties
  <2> QED
    BY <1>1, <2>1, <2>2, <2>4
<1>5. new.ch = to /\ to # <<>>
  <2>1. new.ch = to
    BY <1>1, <1>3
  <2>2. Len(to) # 0
    BY <1>2, <1>4
  <2> QED
    BY <2>1, <2>2
<1>6. to[1][1] = s.at
  <2>1. CASE n = 0
    BY <1>2, <1>4, <2>1
  <2>2. CASE n # 0
    <3>1. 1 \in 1 .. n
      BY <1>2, <2>2
    <3> QED
      BY <1>2, <1>4, <2>2, <3>1
  <2> QED
    BY <2>1, <2>2
<1>7. ASSUME NEW i \in 1 .. Len(to) - 1 PROVE to[i + 1][1] = to[i][2]
  <2>1. CASE i = n
    <3>1. n # 0 /\ n \in 1 .. n
      BY <1>2, <1>4, <1>7, <2>1
    <3> QED
      <4>1. to[n + 1][1] = a /\ ch # <<>>
        BY <1>2, <1>4, <3>1
      <4>2. to[n][2] = ch[n][2]
        BY <1>4, <3>1
      <4> QED
        BY <1>2, <2>1, <4>1, <4>2
  <2>2. CASE i # n
    <3>1. i \in 1 .. n - 1 /\ i \in 1 .. n /\ i + 1 \in 1 .. n
      BY <1>2, <1>4, <1>7, <2>2
    <3> QED
      BY <1>2, <1>4, <3>1
  <2> QED
    BY <2>1, <2>2
<1>8. to[Len(to)][2] = b
  BY <1>4
<1> QED
  BY <1>2, <1>4, <1>5, <1>6, <1>7, <1>8 DEF StreamHolds

\* A chunk passed on.
LEMMA ChunkSent ==
    ASSUME NEW s, NEW output, StreamHolds(s, output), s.ch # <<>>, Len(output) \in Nat, NEW new, DOMAIN new = DOMAIN s,
           new.st = s.st, new.ch = Tail(s.ch), new.at = s.ch[1][2]
    PROVE  StreamHolds(new, output)
<1>1. PICK ch, n, to : ch = s.ch /\ n = Len(ch) /\ to = Tail(ch)
  OBVIOUS
<1>2. /\ ch \in Seq(Nat \X Nat) /\ n \in Nat /\ n # 0
      /\ \A i \in 1 .. n - 1 : ch[i + 1][1] = ch[i][2]
      /\ s.st = "watches" => Len(output) = ch[n][2]
  BY <1>1 DEF StreamHolds
<1>3. to \in Seq(Nat \X Nat) /\ Len(to) = n - 1 /\ \A i \in 1 .. n - 1 : to[i] = ch[i + 1]
  BY <1>1, <1>2
<1>4. new.at \in Nat /\ new.ch = to /\ (to = <<>> <=> n = 1)
  <2>1. 1 \in 1 .. n
    BY <1>2
  <2>2. ch[1] \in Nat \X Nat
    BY <1>1, <1>2, <2>1
  <2>3. new.ch = to /\ new.at \in Nat
    BY <1>1, <2>2
  <2>4. to = <<>> <=> Len(to) = 0
    BY <1>3, EmptySeq
  <2>5. to = <<>> <=> n = 1
    BY <1>2, <1>3, <2>4
  <2> QED
    BY <2>3, <2>5
<1>5. n # 1 => to[1][1] = ch[1][2]
  <2>1. n # 1 => 1 \in 1 .. n - 1
    BY <1>2
  <2> QED
    BY <1>2, <1>3, <2>1
<1>6. ASSUME NEW i \in 1 .. Len(to) - 1 PROVE to[i + 1][1] = to[i][2]
  <2>1. i \in 1 .. n - 1 /\ i + 1 \in 1 .. n - 1
    BY <1>2, <1>3, <1>6
  <2> QED
    BY <1>2, <1>3, <2>1
<1>7. n # 1 => to[Len(to)][2] = ch[n][2]
  <2>1. n # 1 => n - 1 \in 1 .. n - 1 /\ (n - 1) + 1 = n
    BY <1>2
  <2> QED
    BY <1>3, <2>1
<1>8. s.st = "watches" => Len(output) = IF to = <<>> THEN new.at ELSE to[Len(to)][2]
  <2>1. CASE n = 1
    BY <1>1, <1>2, <1>4, <2>1
  <2>2. CASE n # 1
    BY <1>2, <1>4, <1>7, <2>2
  <2> QED
    BY <2>1, <2>2
<1>9. {"st", "ch", "at"} \subseteq DOMAIN new
  BY DEF StreamHolds
<1> QED
  BY <1>1, <1>3, <1>4, <1>5, <1>6, <1>8, <1>9 DEF StreamHolds

-----------------------------------------------------------------------------
(* Each step keeps the terminal's invariant.                                 *)

\* The output of a shell, or its notice, goes to the ring and its watchers.
LEMMA RecordHolds ==
    ASSUME TermIInv, UNCHANGED termScope, NEW flags \in Seq(BOOLEAN), term' = Record(flags),
           ShellFields \subseteq DOMAIN shell', shell'.unread \in Seq(BOOLEAN), shell'.cells = shell.cells \/ ~shell'.pty,
           shell'.pty => shell.pty, DOMAIN streams' = DOMAIN streams,
           \A c \in DOMAIN streams : StreamHolds(streams'[c], term.output \o flags),
           shell'.reader = "none" => ~shell'.alive /\ ~shell'.pty /\ \A c \in DOMAIN streams : streams'[c].st # "watches",
           term.close = "done" => shell'.reader = "none"
    PROVE  TermIInv'
<1>1. PICK data : data = BytesOf(flags)
  OBVIOUS
<1>2. data = [i \in DOMAIN flags |-> <<term.ring.end + i - 1, flags[i]>>]
  BY <1>1 DEF BytesOf
<1>3. PICK ring, out, first : /\ ring = RingAdd(term.ring, data) /\ out = term.output \o flags
                              /\ first = KeptFrom(term.first, term.output \o flags)
  OBVIOUS
<1>4. RingHolds(ring, out, first)
  BY <1>2, <1>3, RingAddHolds DEF TermIInv
<1>5. RingHolds(ring, out, first)'
  BY <1>4, RingStays
<1>6. /\ TermFields \subseteq DOMAIN term' /\ term'.ring = ring /\ term'.output = out /\ term'.first = first
      /\ term'.cells = term.cells /\ term'.close = term.close /\ term'.closed = term.closed
  BY <1>1, <1>3 DEF Record, TermIInv, TermFields
<1>7. out \in Seq(BOOLEAN)
  BY <1>3, ConcatProperties DEF TermIInv
<1>8. Size' \in Nat \ {0} /\ termScope'.chunks \subseteq Seq(BOOLEAN) /\ DOMAIN streams' = termScope'.clients
  BY DEF TermIInv, Size
<1>9. \A c \in DOMAIN streams' : StreamHolds(streams'[c], term'.output)
  BY <1>3, <1>6
<1>10. RingHolds(term.ring, term.output, term.first)'
  BY <1>5, <1>6 DEF RingHolds, BytesHeld, InRing, Size
<1>11. ShellHolds' /\ CloseHolds'
  BY <1>6 DEF ShellHolds, CloseHolds, TermIInv
<1> QED
  BY <1>6, <1>7, <1>8, <1>9, <1>10, <1>11 DEF TermIInv

\* A chunk is broadcast: a watcher has it or is dropped.
LEMMA ShellReadHolds == ASSUME TermIInv, ShellRead PROVE TermIInv'
<1>1. PICK flags : flags = shell.unread
  OBVIOUS
<1>2. /\ flags \in Seq(BOOLEAN) /\ term' = Record(flags) /\ UNCHANGED termScope /\ shell' = [shell EXCEPT !.unread = <<>>]
      /\ streams' = [c \in DOMAIN streams |-> Broadcast(streams[c], Chunk)] /\ shell.reader = "reads"
  BY <1>1 DEF ShellRead, TermIInv
<1>3. PICK a, b, out : a = term.ring.end /\ b = term.ring.end + Len(shell.unread) /\ out = term.output \o flags
  OBVIOUS
<1>4. a \in Nat /\ a = Len(term.output) /\ b \in Nat /\ b = Len(out) /\ Chunk = <<a, b>>
  <2>1. term.output \in Seq(BOOLEAN) /\ term.ring.end = Len(term.output) /\ Len(flags) \in Nat /\ Len(term.output) \in Nat
    BY <1>2 DEF TermIInv, RingHolds, BytesHeld
  <2>2. Len(out) = Len(term.output) + Len(flags)
    BY <1>2, <1>3, <2>1, ConcatProperties
  <2>5. a = Len(term.output) /\ b = a + Len(flags)
    BY <1>1, <1>3, <2>1
  <2>3. a = Len(term.output) /\ b = Len(out) /\ a \in Nat /\ b \in Nat
    BY <2>1, <2>2, <2>5
  <2>4. Chunk = <<a, b>>
    BY <1>3 DEF Chunk
  <2> QED
    BY <2>3, <2>4
<1>5. ASSUME NEW c \in DOMAIN streams PROVE StreamHolds(streams'[c], out)
  <2>1. PICK s, new : s = streams[c] /\ new = Broadcast(s, Chunk)
    OBVIOUS
  <2>2. StreamHolds(s, term.output) /\ streams'[c] = new
    BY <1>2, <2>1 DEF TermIInv
  <2>3. CASE s.st # "watches"
    BY <2>1, <2>2, <2>3, OtherStreamHolds DEF Broadcast
  <2>4. CASE s.st = "watches" /\ new = CloseCh(s)
    BY <2>2, <2>4, ClosedStreamHolds
  <2>5. CASE s.st = "watches" /\ new = [s EXCEPT !.ch = Append(@, Chunk)]
    <3>1. DOMAIN new = DOMAIN s /\ new.st = s.st /\ new.at = s.at /\ new.ch = Append(s.ch, <<a, b>>)
      BY <1>4, <2>2, <2>5 DEF StreamHolds
    <3>3. s.st = "watches"
      BY <2>5
    <3>2. StreamHolds(new, out)
      BY <1>4, <2>2, <3>1, <3>3, ChunkFollows
    <3> QED
      BY <2>2, <3>2
  <2> QED
    BY <2>1, <2>3, <2>4, <2>5 DEF Broadcast
<1>6. /\ ShellFields \subseteq DOMAIN shell' /\ shell'.unread = <<>> /\ shell'.cells = shell.cells /\ shell'.pty = shell.pty
      /\ shell'.reader = "reads"
  BY <1>2 DEF TermIInv, ShellFields
<1>7. term.close # "done" /\ <<>> \in Seq(BOOLEAN) /\ DOMAIN streams' = DOMAIN streams
  BY <1>2 DEF TermIInv, CloseHolds
<1> QED
  BY <1>2, <1>3, <1>5, <1>6, <1>7, RecordHolds

\* Every watcher is told that the shell exited.
LEMMA ShellDoneHolds == ASSUME TermIInv, ShellDone PROVE TermIInv'
<1>1. PICK flags : flags = Notice
  OBVIOUS
<1>2. /\ flags \in Seq(BOOLEAN) /\ Len(flags) = 3 /\ term' = Record(flags) /\ UNCHANGED termScope /\ shell' = NewShell
      /\ streams' = [c \in DOMAIN streams |-> TellExit(streams[c])] /\ shell.reader = "ended"
  BY <1>1 DEF ShellDone, Notice
<1>3. PICK a, b, out : a = term.ring.end /\ b = term.ring.end + Len(Notice) /\ out = term.output \o flags
  OBVIOUS
<1>4. a \in Nat /\ a = Len(term.output) /\ b \in Nat /\ b = Len(out)
  <2>1. term.output \in Seq(BOOLEAN) /\ term.ring.end = Len(term.output) /\ Len(flags) \in Nat /\ Len(term.output) \in Nat
    BY <1>2 DEF TermIInv, RingHolds, BytesHeld
  <2>2. Len(out) = Len(term.output) + Len(flags)
    BY <1>2, <1>3, <2>1, ConcatProperties
  <2> QED
    BY <1>1, <1>3, <2>1, <2>2
<1>5. ASSUME NEW c \in DOMAIN streams PROVE StreamHolds(streams'[c], out) /\ streams'[c].st # "watches"
  <2>1. PICK s, new, mid : /\ s = streams[c] /\ new = TellExit(s)
                           /\ mid = [s EXCEPT !.ch = IF Len(@) < termScope.buffer THEN Append(@, <<term.ring.end, term.ring.end + Len(Notice)>>) ELSE @]
    OBVIOUS
  <2>2. StreamHolds(s, term.output) /\ streams'[c] = new
    BY <1>2, <2>1 DEF TermIInv
  <2>3. CASE s.st # "watches"
    <3>1. new = s
      BY <2>1, <2>3 DEF TellExit
    <3> QED
      BY <2>2, <2>3, <3>1, OtherStreamHolds
  <2>4. CASE s.st = "watches"
    <3>1. new = CloseCh(mid)
      BY <2>1, <2>4 DEF TellExit
    <3>2. DOMAIN mid = DOMAIN s /\ mid.st = s.st /\ mid.at = s.at /\ (mid.ch = s.ch \/ mid.ch = Append(s.ch, <<a, b>>))
      BY <1>3, <2>1, <2>2 DEF StreamHolds
    <3>3. StreamHolds(mid, out) \/ mid.ch = s.ch
      BY <1>4, <2>2, <2>4, <3>2, ChunkFollows
    <3>4. CASE mid.ch = s.ch
      <4>1. DOMAIN mid = DOMAIN s /\ StreamHolds(mid, term.output)
        BY <2>2, <3>2, <3>4 DEF StreamHolds
      <4>2. StreamHolds(new, out) /\ new.st # "watches"
        BY <3>1, <4>1, ClosedStreamHolds DEF CloseCh, StreamHolds
      <4> QED
        BY <2>2, <4>2
    <3>5. CASE StreamHolds(mid, out)
      <4>1. StreamHolds(new, out) /\ new.st # "watches"
        BY <3>1, <3>5, ClosedStreamHolds DEF CloseCh, StreamHolds
      <4> QED
        BY <2>2, <4>1
    <3> QED
      BY <3>3, <3>4, <3>5
  <2> QED
    BY <2>3, <2>4
<1>6. /\ ShellFields \subseteq DOMAIN shell' /\ shell'.unread = <<>> /\ ~shell'.pty /\ ~shell'.alive /\ shell'.reader = "none"
  BY <1>2 DEF NewShell, ShellFields
<1>7. <<>> \in Seq(BOOLEAN) /\ DOMAIN streams' = DOMAIN streams
  BY <1>2
<1> QED
  BY <1>2, <1>3, <1>5, <1>6, <1>7, RecordHolds

\* The steps of the shell that touch neither its output nor a stream.
LEMMA ShellStepsHold ==
    ASSUME TermIInv, \/ \E flags \in termScope.chunks : ShellWrites(flags)
                     \/ ShellExits \/ ShellWaited \/ ShellOutputEnds \/ TermKills
    PROVE  TermIInv'
<1>1. UNCHANGED <<term, streams, termScope>>
  BY DEF ShellWrites, ShellExits, ShellWaited, ShellOutputEnds, TermKills
<1>2. /\ TermFields \subseteq DOMAIN term' /\ \A c \in DOMAIN streams : StreamHolds(streams'[c], term.output)
      /\ ShellFields \subseteq DOMAIN shell /\ shell.unread \in Seq(BOOLEAN) /\ ShellHolds /\ termScope.chunks \subseteq Seq(BOOLEAN)
      /\ CloseHolds
  BY <1>1 DEF TermIInv
<1>3. /\ ShellFields \subseteq DOMAIN shell' /\ shell'.unread \in Seq(BOOLEAN) /\ ShellHolds'
      /\ shell.reader = "none" => shell'.reader = "none"
  <2>1. CASE \E flags \in termScope.chunks : ShellWrites(flags)
    <3>1. PICK flags \in termScope.chunks : ShellWrites(flags)
      BY <2>1
    <3>2. /\ ShellFields \subseteq DOMAIN shell' /\ shell'.unread = flags /\ shell'.alive = shell.alive /\ shell'.pty = shell.pty
          /\ shell'.reader = shell.reader /\ shell'.cells = shell.cells
      BY <1>2, <3>1 DEF ShellWrites, ShellFields
    <3> QED
      BY <1>1, <1>2, <3>2 DEF ShellHolds
  <2>2. CASE ShellExits \/ TermKills
    <3>1. /\ ShellFields \subseteq DOMAIN shell' /\ shell'.unread = shell.unread /\ ~shell'.alive /\ shell'.pty = shell.pty
          /\ shell'.reader = shell.reader /\ shell'.cells = shell.cells
      BY <1>2, <2>2 DEF ShellExits, TermKills, ShellFields
    <3> QED
      BY <1>1, <1>2, <3>1 DEF ShellHolds
  <2>3. CASE ShellWaited
    <3>1. /\ ShellFields \subseteq DOMAIN shell' /\ shell'.unread = shell.unread /\ ~shell'.pty /\ shell'.alive = shell.alive
          /\ shell'.reader = shell.reader
      BY <1>2, <2>3 DEF ShellWaited, ShellFields
    <3> QED
      BY <1>1, <1>2, <3>1 DEF ShellHolds
  <2>4. CASE ShellOutputEnds
    <3>1. /\ ShellFields \subseteq DOMAIN shell' /\ shell'.unread = <<>> /\ shell'.pty = shell.pty /\ shell'.alive = shell.alive
          /\ shell.reader = "reads" /\ shell'.reader = "ended" /\ shell'.cells = shell.cells
      BY <1>2, <2>4 DEF ShellOutputEnds, ShellFields
    <3>2. <<>> \in Seq(BOOLEAN)
      OBVIOUS
    <3> QED
      BY <1>1, <1>2, <3>1, <3>2 DEF ShellHolds
  <2> QED
    BY <2>1, <2>2, <2>3, <2>4
<1>4. CloseHolds'
  BY <1>1, <1>2, <1>3 DEF CloseHolds
<1> QED
  BY <1>1, <1>2, <1>3, <1>4, TermStays

\* A client begins to watch, and starts the shell if none runs.
LEMMA TermWatchHolds == ASSUME TermIInv, NEW c \in termScope.clients, TermWatch(c) PROVE TermIInv'
<1>1. UNCHANGED termScope /\ c \in DOMAIN streams
  BY DEF TermWatch, TermIInv
<1>2. /\ TermFields \subseteq DOMAIN term /\ ShellFields \subseteq DOMAIN shell /\ shell.unread \in Seq(BOOLEAN) /\ ShellHolds
      /\ \A d \in DOMAIN streams : StreamHolds(streams[d], term.output)
      /\ CloseHolds
      /\ term.ring.end = Len(term.output) /\ Len(term.output) \in Nat
  BY DEF TermIInv, RingHolds, BytesHeld
<1>3. /\ TermFields \subseteq DOMAIN term' /\ term'.ring = term.ring /\ term'.output = term.output /\ term'.first = term.first
      /\ term'.close = term.close /\ term'.closed = term.closed /\ term'.cells = term.cells
  BY <1>2 DEF TermWatch, TermFields
<1>4. CASE term.closed
  <2>1. UNCHANGED <<shell, streams>>
    BY <1>4 DEF TermWatch
  <2>2. ShellHolds' /\ CloseHolds'
    BY <1>2, <1>3, <2>1 DEF ShellHolds, CloseHolds
  <2> QED
    BY <1>1, <1>2, <1>3, <2>1, <2>2, TermStays
<1>5. CASE ~term.closed
  <2>1. PICK s : s = [NoStream EXCEPT !.st = "watches", !.at = term.ring.end]
    OBVIOUS
  <2>2. streams' = [streams EXCEPT ![c] = s]
    BY <1>5, <2>1 DEF TermWatch
  <2>3. {"st", "ch", "at"} \subseteq DOMAIN s /\ s.ch = <<>> /\ s.at = term.ring.end
    BY <2>1 DEF NoStream
  <2>4. StreamHolds(s, term.output)
    BY <1>2, <2>3, NewStreamHolds
  <2>5. DOMAIN streams' = DOMAIN streams /\ \A d \in DOMAIN streams : StreamHolds(streams'[d], term.output)
    BY <1>1, <1>2, <2>2, <2>4
  <2>6. \/ shell' = shell /\ shell.reader # "none"
        \/ shell' = [NewShell EXCEPT !.alive = TRUE, !.pty = TRUE, !.reader = "reads", !.cells = term.cells]
    BY <1>5 DEF TermWatch
  <2>7. /\ ShellFields \subseteq DOMAIN shell' /\ shell'.unread \in Seq(BOOLEAN) /\ shell'.reader # "none"
        /\ shell'.pty => shell'.cells = term.cells
    <3>1. CASE shell' = shell /\ shell.reader # "none"
      BY <1>2, <3>1 DEF ShellHolds
    <3>2. CASE shell' = [NewShell EXCEPT !.alive = TRUE, !.pty = TRUE, !.reader = "reads", !.cells = term.cells]
      <4>1. ShellFields \subseteq DOMAIN shell' /\ shell'.unread = <<>> /\ shell'.reader = "reads" /\ shell'.cells = term.cells
        BY <3>2 DEF NewShell, ShellFields
      <4> QED
        BY <4>1
    <3> QED
      BY <2>6, <3>1, <3>2
  <2>8. ShellHolds' /\ CloseHolds'
    BY <1>2, <1>3, <1>5, <2>7 DEF ShellHolds, CloseHolds
  <2> QED
    BY <1>1, <1>2, <1>3, <1>5, <2>5, <2>7, <2>8, TermStays
<1> QED
  BY <1>4, <1>5

\* A stream passes a chunk on.
LEMMA StreamSendsHolds == ASSUME TermIInv, NEW c \in termScope.clients, StreamSends(c) PROVE TermIInv'
<1>1. UNCHANGED <<term, shell, termScope>> /\ c \in DOMAIN streams
  BY DEF StreamSends, TermIInv
<1>2. /\ TermFields \subseteq DOMAIN term /\ ShellFields \subseteq DOMAIN shell /\ shell.unread \in Seq(BOOLEAN) /\ ShellHolds
      /\ \A d \in DOMAIN streams : StreamHolds(streams[d], term.output)
      /\ CloseHolds
      /\ Len(term.output) \in Nat
  BY DEF TermIInv, RingHolds, BytesHeld
<1>3. PICK s, new : s = streams[c] /\ new = streams'[c]
  OBVIOUS
<1>9. s.ch # <<>> /\ StreamHolds(s, term.output) /\ {"st", "ch", "at"} \subseteq DOMAIN s /\ Head(s.ch) = s.ch[1]
  <2>1. s.ch # <<>> /\ StreamHolds(s, term.output)
    BY <1>1, <1>2, <1>3 DEF StreamSends
  <2>2. {"st", "ch", "at"} \subseteq DOMAIN s /\ s.ch \in Seq(Nat \X Nat)
    BY <2>1 DEF StreamHolds
  <2>3. Head(s.ch) = s.ch[1]
    BY <2>1, <2>2, HeadTailProperties
  <2> QED
    BY <2>1, <2>2, <2>3
<1>4. DOMAIN streams' = DOMAIN streams /\ \A d \in DOMAIN streams : d # c => streams'[d] = streams[d]
  BY DEF StreamSends
<1>5. DOMAIN new = DOMAIN s /\ new.st = s.st /\ new.ch = Tail(s.ch) /\ new.at = s.ch[1][2]
  BY <1>1, <1>3, <1>9 DEF StreamSends
<1>6. StreamHolds(new, term.output)
  BY <1>2, <1>5, <1>9, ChunkSent
<1>7. DOMAIN streams' = DOMAIN streams /\ \A d \in DOMAIN streams : StreamHolds(streams'[d], term.output)
  BY <1>2, <1>3, <1>4, <1>6
<1>10. CloseHolds'
  BY <1>1, <1>2 DEF CloseHolds
<1>8. ShellHolds'
  <2>1. \A d \in DOMAIN streams : streams'[d].st = streams[d].st
    BY <1>1, <1>3, <1>4, <1>5
  <2> QED
    BY <1>1, <1>2, <1>7, <2>1 DEF ShellHolds
<1> QED
  BY <1>1, <1>2, <1>7, <1>8, <1>10, TermStays

\* A stream ends: its channel was closed, its client goes, or the server stops.
LEMMA StreamsEndHolds == ASSUME TermIInv, NEW c \in termScope.clients, StreamEnds(c) \/ StreamStops(c) PROVE TermIInv'
<1>1. UNCHANGED <<shell, termScope>> /\ c \in DOMAIN streams
  BY DEF StreamEnds, StreamStops, TermIInv
<1>2. /\ TermFields \subseteq DOMAIN term /\ ShellFields \subseteq DOMAIN shell /\ shell.unread \in Seq(BOOLEAN) /\ ShellHolds
      /\ \A d \in DOMAIN streams : StreamHolds(streams[d], term.output)
      /\ CloseHolds
      /\ Len(term.output) \in Nat
  BY DEF TermIInv, RingHolds, BytesHeld
<1>3. PICK s : streams' = [streams EXCEPT ![c] = s] /\ \E st \in {"again", "exited", "off"} : s = [NoStream EXCEPT !.st = st]
  <2>1. CASE StreamEnds(c)
    BY <2>1 DEF StreamEnds
  <2>2. CASE StreamStops(c)
    <3>1. NoStream = [NoStream EXCEPT !.st = "off"]
      BY DEF NoStream
    <3> QED
      BY <2>2, <3>1 DEF StreamStops
  <2> QED
    BY <2>1, <2>2
<1>4. {"st", "ch", "at"} \subseteq DOMAIN s /\ s.ch = <<>> /\ s.at = 0 /\ s.st # "watches"
  BY <1>3 DEF NoStream
<1>5. StreamHolds(s, term.output)
  BY <1>2, <1>4, NewStreamHolds
<1>6. /\ TermFields \subseteq DOMAIN term' /\ term'.ring = term.ring /\ term'.output = term.output /\ term'.first = term.first
      /\ term'.close = term.close /\ term'.closed = term.closed /\ term'.cells = term.cells
  BY <1>2 DEF StreamEnds, StreamStops, TermFields
<1>7. /\ DOMAIN streams' = DOMAIN streams /\ \A d \in DOMAIN streams : StreamHolds(streams'[d], term.output)
      /\ \A d \in DOMAIN streams : streams'[d].st # "watches" \/ streams'[d].st = streams[d].st
  BY <1>1, <1>2, <1>3, <1>4, <1>5
<1>8. ShellHolds' /\ CloseHolds'
  BY <1>1, <1>2, <1>6, <1>7 DEF ShellHolds, CloseHolds
<1> QED
  BY <1>1, <1>2, <1>6, <1>7, <1>8, TermStays

\* The size, the failed starts, and the steps of Close.
LEMMA TermStepsHold ==
    ASSUME TermIInv, \/ \E cells \in 1 .. 2 : TermResize(cells)
                     \/ TermStartFails \/ TermStop \/ TermClose \/ TermClosed
    PROVE  TermIInv'
<1>1. UNCHANGED <<streams, termScope>>
  BY DEF TermResize, TermStartFails, TermStop, TermClose, TermClosed
<1>2. /\ TermFields \subseteq DOMAIN term /\ ShellFields \subseteq DOMAIN shell /\ shell.unread \in Seq(BOOLEAN) /\ ShellHolds
      /\ \A d \in DOMAIN streams : StreamHolds(streams'[d], term.output)
      /\ CloseHolds
  BY <1>1 DEF TermIInv
<1>3. /\ TermFields \subseteq DOMAIN term' /\ term'.ring = term.ring /\ term'.output = term.output /\ term'.first = term.first
  BY <1>2 DEF TermResize, TermStartFails, TermStop, TermClose, TermClosed, TermFields
<1>4. /\ ShellFields \subseteq DOMAIN shell' /\ shell'.unread = shell.unread /\ shell'.reader = shell.reader /\ shell'.alive = shell.alive
      /\ (shell'.pty => shell.pty) /\ (shell'.pty => shell'.cells = term'.cells)
  <2>1. CASE \E cells \in 1 .. 2 : TermResize(cells)
    <3>1. PICK cells \in 1 .. 2 : TermResize(cells)
      BY <2>1
    <3>2. term'.cells = cells
      BY <1>2, <3>1 DEF TermResize, TermFields
    <3>3. CASE shell.pty
      BY <1>2, <3>1, <3>2, <3>3 DEF TermResize, ShellFields
    <3>4. CASE ~shell.pty
      BY <1>2, <3>1, <3>4 DEF TermResize, ShellFields
    <3> QED
      BY <3>3, <3>4
  <2>2. CASE TermClose
    BY <1>2, <2>2 DEF TermClose, ShellFields
  <2>3. CASE TermStartFails \/ TermStop \/ TermClosed
    <3>1. shell' = shell /\ term'.cells = term.cells
      BY <1>2, <2>3 DEF TermStartFails, TermStop, TermClosed, TermFields
    <3> QED
      BY <1>2, <3>1 DEF ShellHolds
  <2> QED
    BY <2>1, <2>2, <2>3
<1>5. CloseHolds'
  <2>1. CASE TermClose
    BY <1>2, <1>4, <2>1 DEF TermClose, TermFields, CloseHolds
  <2>2. CASE TermClosed
    <3>1. term'.closed = term.closed /\ term'.close = "done" /\ term.close = "waits" /\ shell.reader = "none"
      BY <1>2, <2>2 DEF TermClosed, TermFields
    <3> QED
      BY <1>2, <1>4, <3>1 DEF CloseHolds
  <2>3. CASE TermStartFails \/ TermStop \/ \E cells \in 1 .. 2 : TermResize(cells)
    <3>1. term'.close = term.close /\ term'.closed = term.closed
      BY <1>2, <2>3 DEF TermStartFails, TermStop, TermResize, TermFields
    <3> QED
      BY <1>2, <1>4, <3>1 DEF CloseHolds
  <2> QED
    BY <2>1, <2>2, <2>3
<1>6. ShellHolds'
  BY <1>1, <1>2, <1>4 DEF ShellHolds
<1> QED
  BY <1>1, <1>2, <1>3, <1>4, <1>5, <1>6, TermStays

\* A terminal that nothing was written to.
LEMMA TermInitHolds == TermInit => TermIInv
<1> SUFFICES ASSUME TermInit PROVE TermIInv
  OBVIOUS
<1>1. termScope \in TermScopes /\ Size \in Nat \ {0} /\ termScope.chunks \subseteq Seq(BOOLEAN)
  BY TermAssumption DEF TermInit, Size
<1>2. /\ TermFields \subseteq DOMAIN term /\ term.ring = NewRing /\ term.output = <<>> /\ term.first = 0 /\ term.close = "no"
  BY DEF TermInit, TermFields
<1>3. /\ ShellFields \subseteq DOMAIN shell /\ shell.unread = <<>> /\ shell.reader = "none" /\ ~shell.alive /\ ~shell.pty
  BY DEF TermInit, ShellFields, NewShell
<1>4. DOMAIN streams = termScope.clients /\ \A c \in DOMAIN streams : streams[c] = NoStream
  BY DEF TermInit
<1>5. {"st", "ch", "at"} \subseteq DOMAIN NoStream /\ NoStream.ch = <<>> /\ NoStream.at = 0 /\ NoStream.st # "watches"
  BY DEF NoStream
<1>6. <<>> \in Seq(BOOLEAN) /\ <<>> \in Seq(Nat \X BOOLEAN) /\ Len(<<>>) = 0
  OBVIOUS
<1>7. \A c \in DOMAIN streams : StreamHolds(streams[c], term.output)
  <2>1. StreamHolds(NoStream, term.output)
    BY <1>2, <1>5, <1>6, NewStreamHolds
  <2> QED
    BY <1>4, <2>1
<1>8. RingHolds(term.ring, term.output, term.first)
  <2>1. RingFields \subseteq DOMAIN NewRing /\ NewRing.buf = <<>> /\ NewRing.start = 0 /\ NewRing.end = 0 /\ NewRing.noNewline = 0
    BY DEF NewRing, RingFields
  <2>2. \A o \in Nat : ~(InRing(NewRing, o)) /\ ~(o < 0)
    BY <2>1 DEF InRing
  <2>3. BytesHeld(NewRing, <<>>)
    BY <1>1, <1>6, <2>1, <2>2 DEF BytesHeld
  <2>4. 0 - 0 <= Size /\ 0 \in Nat
    BY <1>1
  <2>5. RingHolds(NewRing, <<>>, 0)
    BY <2>1, <2>2, <2>3, <2>4 DEF RingHolds
  <2> QED
    BY <1>2, <2>5
<1>9. ShellHolds /\ CloseHolds
  BY <1>2, <1>3, <1>4, <1>5 DEF ShellHolds, CloseHolds
<1> QED
  BY <1>1, <1>2, <1>3, <1>4, <1>6, <1>7, <1>8, <1>9 DEF TermIInv

\* A step that changes nothing of the terminal.
LEMMA TermStutters == ASSUME TermIInv, UNCHANGED termVars PROVE TermIInv'
<1>1. UNCHANGED <<term, shell, streams, termScope>>
  BY DEF termVars
<1>2. /\ TermFields \subseteq DOMAIN term' /\ ShellFields \subseteq DOMAIN shell' /\ shell'.unread \in Seq(BOOLEAN)
      /\ \A c \in DOMAIN streams : StreamHolds(streams'[c], term.output)
  BY <1>1 DEF TermIInv
<1>3. ShellHolds' /\ CloseHolds'
  BY <1>1 DEF TermIInv, ShellHolds, CloseHolds
<1> QED
  BY <1>1, <1>2, <1>3, TermStays

\* What a connected client has been and will be sent is the output from its
\* start.
StreamShown(s, output, ends) ==
    /\ \A i \in 2 .. Len(ends) : ends[i][1] = ends[i - 1][2]
    /\ s.st = "watches" => Last(ends)[2] = Len(output)
LEMMA StreamShows ==
    ASSUME NEW s, NEW output, Len(output) \in Nat, StreamHolds(s, output), NEW ends, ends = <<<<0, s.at>>>> \o s.ch
    PROVE  StreamShown(s, output, ends)
<1>1. PICK ch, n, one : ch = s.ch /\ n = Len(ch) /\ one = <<<<0, s.at>>>>
  OBVIOUS
<1>2. /\ ch \in Seq(Nat \X Nat) /\ n \in Nat /\ s.at \in Nat
      /\ \A i \in 1 .. n - 1 : ch[i + 1][1] = ch[i][2]
      /\ ch # <<>> => ch[1][1] = s.at
      /\ s.st = "watches" => Len(output) = IF ch = <<>> THEN s.at ELSE ch[n][2]
  BY <1>1 DEF StreamHolds
<1>3. one \in Seq(Nat \X Nat) /\ Len(one) = 1 /\ one[1] = <<0, s.at>>
  BY <1>1, <1>2
<1>4. Len(ends) = 1 + n /\ \A i \in 1 .. 1 + n : ends[i] = IF i <= 1 THEN one[i] ELSE ch[i - 1]
  BY <1>1, <1>2, <1>3, ConcatProperties
<1>5. ends[1] = <<0, s.at>> /\ \A i \in 1 .. n : ends[i + 1] = ch[i]
  <2>1. 1 \in 1 .. 1 + n
    BY <1>2
  <2>2. ASSUME NEW i \in 1 .. n PROVE ends[i + 1] = ch[i]
    <3>1. i + 1 \in 1 .. 1 + n /\ ~(i + 1 <= 1) /\ (i + 1) - 1 = i
      BY <1>2
    <3> QED
      BY <1>4, <3>1
  <2>3. ends[1] = one[1]
    BY <1>4, <2>1
  <2> QED
    BY <1>3, <2>2, <2>3
<1>6. ch = <<>> <=> n = 0
  BY <1>1, <1>2, EmptySeq
<1>7. ASSUME NEW i \in 2 .. Len(ends) PROVE ends[i][1] = ends[i - 1][2]
  <2>1. PICK k : k = i - 1
    OBVIOUS
  <2>2. k \in 1 .. n /\ i = k + 1
    BY <1>2, <1>4, <2>1
  <2>3. ends[i] = ch[k]
    BY <1>5, <2>2
  <2>4. CASE k = 1
    <3>1. ch[1][1] = s.at
      BY <1>2, <1>6, <2>2
    <3> QED
      BY <1>5, <2>1, <2>3, <2>4, <3>1
  <2>5. CASE k # 1
    <3>1. PICK j : j = k - 1
      OBVIOUS
    <3>2. j \in 1 .. n - 1 /\ j \in 1 .. n /\ k = j + 1
      BY <1>2, <2>2, <2>5, <3>1
    <3>3. ends[k] = ch[j] /\ ch[k][1] = ch[j][2]
      BY <1>2, <1>5, <3>2
    <3> QED
      BY <2>1, <2>3, <3>3
  <2> QED
    BY <2>4, <2>5
<1>8. s.st = "watches" => Last(ends)[2] = Len(output)
  <2>1. Last(ends) = ends[1 + n]
    BY <1>4 DEF Last
  <2>2. CASE n = 0
    BY <1>2, <1>5, <1>6, <2>1, <2>2
  <2>3. CASE n # 0
    <3>1. n \in 1 .. n /\ 1 + n = n + 1
      BY <1>2, <2>3
    <3>2. Last(ends) = ch[n]
      BY <1>5, <2>1, <3>1
    <3> QED
      BY <1>2, <1>6, <2>3, <3>2
  <2> QED
    BY <2>2, <2>3
<1> QED
  BY <1>7, <1>8 DEF StreamShown

\* The invariant says what the run checks.
LEMMA TermIInvShows == TermIInv => TerminalShowsAll
<1> SUFFICES ASSUME TermIInv PROVE TerminalShowsAll
  OBVIOUS
<1>1. /\ Size \in Nat \ {0} /\ term.output \in Seq(BOOLEAN) /\ BytesHeld(term.ring, term.output)
      /\ term.ring.start = term.first /\ term.first \in Nat /\ term.first <= term.ring.end /\ term.ring.end - term.first <= Size
      /\ term.ring.end = Len(term.output) /\ Len(term.output) \in Nat
  BY DEF TermIInv, RingHolds, BytesHeld
<1>2. Segments(term.ring, term.ring.start) =
            [i \in 1 .. Len(term.output) - term.first |-> <<term.first + i - 1, term.output[term.first + i]>>]
  <2>1. PICK ring, output, from : ring = term.ring /\ output = term.output /\ from = term.first
    OBVIOUS
  <2>2. output \in Seq(BOOLEAN) /\ BytesHeld(ring, output) /\ from \in Nat /\ from <= ring.end /\ ring.end - from <= Size
    BY <1>1, <2>1
  <2>3. Segments(ring, from) = [k \in 1 .. ring.end - from |-> <<from + k - 1, output[from + k]>>]
    BY <1>1, <2>2, SegmentsIs
  <2>4. Segments(ring, from) = [i \in 1 .. Len(output) - from |-> <<from + i - 1, output[from + i]>>]
    BY <1>1, <2>1, <2>3
  <2> QED
    BY <1>1, <2>1, <2>4
<1>3. ASSUME NEW c \in DOMAIN streams
      PROVE  LET ends == <<<<0, streams[c].at>>>> \o streams[c].ch
             IN  /\ \A i \in 2 .. Len(ends) : ends[i][1] = ends[i - 1][2]
                 /\ streams[c].st = "watches" => Last(ends)[2] = Len(term.output)
  <2>1. PICK s, output, ends : s = streams[c] /\ output = term.output /\ ends = <<<<0, s.at>>>> \o s.ch
    OBVIOUS
  <2>2. StreamHolds(s, output) /\ Len(output) \in Nat
    BY <1>1, <2>1 DEF TermIInv
  <2>3. /\ \A i \in 2 .. Len(ends) : ends[i][1] = ends[i - 1][2]
        /\ s.st = "watches" => Last(ends)[2] = Len(output)
    <3>1. StreamShown(s, output, ends)
      BY <2>1, <2>2, StreamShows
    <3> QED
      BY <3>1 DEF StreamShown
  <2> QED
    BY <2>1, <2>3
<1>4. /\ shell.pty => shell.cells = term.cells
      /\ term.close = "done" => ~shell.alive /\ \A c \in DOMAIN streams : streams[c].st # "watches"
  BY DEF TermIInv, ShellHolds, CloseHolds
<1> QED
  BY <1>1, <1>2, <1>3, <1>4 DEF TerminalShowsAll

-----------------------------------------------------------------------------
(* The uploads.                                                              *)

StoreFields == {"up", "stopping", "asked", "saved", "dirs"}
RefFields == {"now", "drafts", "queue", "said", "stale", "saves", "forgets", "ends"}

\* A directory that has files was made.
IsDir(d) == {"made", "at", "files"} \subseteq DOMAIN d /\ d.at \in Nat /\ (d.files # {} => d.made)

UploadTyped ==
    /\ StoreFields \subseteq DOMAIN store /\ store.up \in BOOLEAN /\ store.saved \in [Contents -> Nat] /\ DOMAIN store.dirs = Contents
    /\ \A c \in Contents : IsDir(store.dirs[c])
    /\ RefFields \subseteq DOMAIN refs /\ refs.now \in Nat /\ refs.drafts \in [Contents -> Nat]
    /\ \A s \in saves : {"c", "n", "by", "at", "st"} \subseteq DOMAIN s /\ s.c \in Contents /\ s.at \in Nat
    /\ {"st", "cutoff", "candidates", "found"} \subseteq DOMAIN prune /\ prune.cutoff \in Nat

\* A directory or the memory of a save says that the content c is no older
\* than t.
KeptSince(c, t) == t <= store.saved[c] \/ t <= store.dirs[c].at

\* Of the content c: its draft was uploaded when a time says that keeps the
\* file; what a prune under way did not find referred to, but is now, was
\* stored since.
DraftIsKept(c) == store.up /\ refs.drafts[c] # 0 /\ c \notin refs.stale => ~Fresh(c) \/ KeptSince(c, refs.drafts[c])
NewIsKept(c) ==
    prune.st = "removes" /\ c \in prune.candidates \ prune.found /\ c \in (refs.queue \cup refs.said) \ refs.stale => KeptSince(c, prune.cutoff)
IsThere(c) == c \notin refs.stale /\ (c \in refs.queue \cup refs.said \/ Fresh(c)) => store.dirs[c].files # {}

\* A call that answers with a path has just placed it.
ToldIsKept(s) ==
    s.st = "told" => /\ s.at # 0 /\ s.at <= refs.now /\ refs.now <= s.at + Grace
                     /\ s.at <= store.saved[s.c] /\ store.dirs[s.c].files # {}

UploadIInv ==
    /\ UploadTyped
    /\ ~store.up => saves = {} /\ prune.st = "idle"
    /\ prune.st # "idle" => prune.cutoff + Grace <= refs.now
    /\ \A c \in Contents : DraftIsKept(c) /\ NewIsKept(c) /\ IsThere(c) /\ store.saved[c] <= refs.now /\ refs.drafts[c] <= refs.now
    /\ refs.now # 0
    /\ \A s \in saves : ToldIsKept(s)

\* A save begins: its file is a temporary one.
LEMMA SaveBeginsHolds ==
    ASSUME UploadIInv, NEW c \in Contents, NEW n, NEW by, SaveBegins(c, n, by)
    PROVE  UploadIInv'
<1> DEFINE s == [c |-> c, n |-> n, by |-> by, at |-> refs.now, st |-> "temp"]
<1>1. /\ saves' = saves \cup {s} /\ store.up /\ UNCHANGED <<store, prune>>
      /\ refs' = [refs EXCEPT !.saves = @ + 1]
  BY DEF SaveBegins
<1>2. s.st = "temp" /\ s.c \in Contents /\ s.at = refs.now /\ {"c", "n", "by", "at", "st"} \subseteq DOMAIN s
  OBVIOUS
<1> HIDE DEF s
<1>3. /\ RefFields \subseteq DOMAIN refs' /\ refs'.now = refs.now /\ refs'.drafts = refs.drafts /\ refs'.queue = refs.queue
      /\ refs'.said = refs.said /\ refs'.stale = refs.stale
  BY <1>1 DEF UploadIInv, UploadTyped, StoreFields, RefFields
<1>4. UploadTyped'
  BY <1>1, <1>2, <1>3 DEF UploadIInv, UploadTyped
<1>5. \A x \in saves' : ToldIsKept(x)'
  BY <1>1, <1>2, <1>3 DEF UploadIInv, ToldIsKept
<1> QED
  BY <1>1, <1>3, <1>4, <1>5 DEF UploadIInv, DraftIsKept, NewIsKept, IsThere, KeptSince, Fresh, Grace

\* A save fails and leaves nothing.
LEMMA SaveFailsHolds ==
    ASSUME UploadIInv, NEW s \in saves, SaveFails(s)
    PROVE  UploadIInv'
  BY DEF SaveFails, UploadIInv, UploadTyped, StoreFields, RefFields, DraftIsKept, NewIsKept, IsThere, ToldIsKept, KeptSince, Fresh, Grace, Idle

\* A save places its file, or fails to: the directory and the save are of now.
LEMMA SavePlacesHolds ==
    ASSUME UploadIInv, NEW s \in saves, NEW ok \in BOOLEAN, SavePlaces(s, ok)
    PROVE  UploadIInv'
<1> DEFINE d == store.dirs[s.c]
           e == IF ok THEN Placed(d, s) ELSE IF d.made THEN d ELSE [NoDir EXCEPT !.made = TRUE, !.at = refs.now]
           t == [s EXCEPT !.st = "told", !.at = refs.now]
<1>1. /\ store' = [store EXCEPT !.saved = [store.saved EXCEPT ![s.c] = refs.now], !.dirs = [store.dirs EXCEPT ![s.c] = e]]
      /\ UNCHANGED prune /\ s.st = "temp"
      /\ saves' = IF ok THEN (saves \ {s}) \cup {t} ELSE saves \ {s}
      /\ refs' = IF ok THEN [refs EXCEPT !.stale = @ \ {s.c}] ELSE refs
  BY DEF SavePlaces
<1>2. /\ s.c \in Contents /\ s.at \in Nat /\ store.up /\ IsDir(d)
      /\ refs.now \in Nat /\ refs.now # 0
  BY DEF UploadIInv, UploadTyped
<1>3. t.st = "told" /\ t.c = s.c /\ t.at = refs.now /\ {"c", "n", "by", "at", "st"} \subseteq DOMAIN t
  BY DEF UploadIInv, UploadTyped
<1>4. /\ IsDir(e) /\ (e.at = d.at \/ e.at = refs.now)
      /\ (d.files # {} => e.files # {}) /\ (ok => e.files # {})
  <2> HIDE DEF d
  <2>1. CASE ok
    <3>1. e = IF \E f \in d.files : f.n = s.n THEN d
              ELSE [made |-> TRUE, at |-> refs.now, files |-> d.files \cup {[n |-> s.n, at |-> s.at]}]
      BY <2>1 DEF Placed
    <3> HIDE DEF e
    <3> QED
      BY <1>2, <2>1, <3>1 DEF IsDir
  <2>2. CASE ~ok /\ d.made
    BY <1>2, <2>2 DEF IsDir
  <2>3. CASE ~ok /\ ~d.made
    <3>1. e = [made |-> TRUE, at |-> refs.now, files |-> {}]
      BY <2>3 DEF NoDir
    <3> HIDE DEF e
    <3> QED
      BY <1>2, <2>3, <3>1 DEF IsDir
  <2> QED
    BY <2>1, <2>2, <2>3
<1> HIDE DEF e, t
<1>5. /\ StoreFields \subseteq DOMAIN store' /\ store'.up = store.up /\ store'.saved = [store.saved EXCEPT ![s.c] = refs.now]
      /\ store'.dirs = [store.dirs EXCEPT ![s.c] = e]
  BY <1>1 DEF UploadIInv, UploadTyped, StoreFields, RefFields
<1>6. /\ RefFields \subseteq DOMAIN refs' /\ refs'.now = refs.now /\ refs'.drafts = refs.drafts /\ refs'.queue = refs.queue
      /\ refs'.said = refs.said /\ refs'.stale \subseteq refs.stale /\ refs.stale \subseteq refs'.stale \cup {s.c}
      /\ ~ok => refs'.stale = refs.stale
  BY <1>1 DEF UploadIInv, UploadTyped, StoreFields, RefFields
<1>7. /\ store'.saved \in [Contents -> Nat] /\ store'.saved[s.c] = refs.now
      /\ \A c \in Contents \ {s.c} : store'.saved[c] = store.saved[c]
      /\ DOMAIN store'.dirs = Contents /\ store'.dirs[s.c] = e
      /\ \A c \in Contents \ {s.c} : store'.dirs[c] = store.dirs[c]
  BY <1>2, <1>5 DEF UploadIInv, UploadTyped
<1>8. UploadTyped'
  <2>1. \A x \in saves' : {"c", "n", "by", "at", "st"} \subseteq DOMAIN x /\ x.c \in Contents /\ x.at \in Nat
    BY <1>1, <1>2, <1>3 DEF UploadIInv, UploadTyped
  <2>2. \A c \in Contents : IsDir(store'.dirs[c])
    BY <1>4, <1>7 DEF UploadIInv, UploadTyped
  <2> QED
    BY <1>1, <1>5, <1>6, <1>7, <2>1, <2>2 DEF UploadIInv, UploadTyped
<1>9. ASSUME NEW c \in Contents
      PROVE  (DraftIsKept(c) /\ NewIsKept(c) /\ IsThere(c) /\ store.saved[c] <= refs.now /\ refs.drafts[c] <= refs.now)'
  <2>1. DraftIsKept(c) /\ NewIsKept(c) /\ IsThere(c) /\ store.saved[c] <= refs.now /\ refs.drafts[c] <= refs.now
    BY DEF UploadIInv
  <2>2. CASE c = s.c
    <3>1. KeptSince(c, refs.drafts[c])'
      BY <1>6, <1>7, <2>1, <2>2 DEF KeptSince
    <3>2. prune.st = "removes" => KeptSince(c, prune.cutoff)'
      BY <1>1, <1>2, <1>7, <2>2 DEF KeptSince, UploadIInv, UploadTyped, Grace
    <3>3. IsThere(c)'
      BY <1>4, <1>6, <1>7, <2>1, <2>2 DEF IsThere, Fresh
    <3> QED
      BY <1>1, <1>2, <1>6, <1>7, <2>1, <2>2, <3>1, <3>2, <3>3 DEF DraftIsKept, NewIsKept
  <2>3. CASE c # s.c
    BY <1>1, <1>5, <1>6, <1>7, <2>1, <2>3 DEF DraftIsKept, NewIsKept, IsThere, KeptSince, Fresh, Grace
  <2> QED
    BY <2>2, <2>3
<1>10. ASSUME NEW x \in saves' PROVE ToldIsKept(x)'
  <2>1. CASE x \in saves
    BY <1>2, <1>4, <1>6, <1>7, <2>1 DEF ToldIsKept, UploadIInv, UploadTyped
  <2>2. CASE x \notin saves
    BY <1>1, <1>2, <1>3, <1>4, <1>6, <1>7, <2>2 DEF ToldIsKept, Grace
  <2> QED
    BY <2>1, <2>2
<1> QED
  BY <1>1, <1>2, <1>5, <1>6, <1>8, <1>9, <1>10 DEF UploadIInv

\* The caller has the path.
LEMMA SaveToldHolds ==
    ASSUME UploadIInv, NEW s \in saves, SaveTold(s)
    PROVE  UploadIInv'
  BY DEF SaveTold, UploadIInv, UploadTyped, StoreFields, RefFields, DraftIsKept, NewIsKept, IsThere, ToldIsKept, KeptSince, Fresh, Grace, Idle

\* A draft, sent: its files are those of a message from now on.
LEMMA SendDraftHolds ==
    ASSUME UploadIInv, NEW c \in Contents, SendDraft(c)
    PROVE  UploadIInv'
<1> DEFINE stale == IF Fresh(c) THEN refs.stale ELSE refs.stale \cup {c}
<1>1. /\ UNCHANGED <<store, saves, prune>> /\ store.up /\ refs.drafts[c] # 0
      /\ refs' = [refs EXCEPT !.drafts = [refs.drafts EXCEPT ![c] = 0], !.queue = @ \cup {c}, !.stale = stale]
  BY DEF SendDraft
<1>2. /\ RefFields \subseteq DOMAIN refs' /\ refs'.now = refs.now /\ refs'.drafts = [refs.drafts EXCEPT ![c] = 0]
      /\ refs'.queue = refs.queue \cup {c} /\ refs'.said = refs.said /\ refs'.stale = stale
  BY <1>1 DEF UploadIInv, UploadTyped, StoreFields, RefFields
<1>3. refs'.drafts \in [Contents -> Nat] /\ refs'.drafts[c] = 0 /\ \A x \in Contents \ {c} : refs'.drafts[x] = refs.drafts[x]
  BY <1>2 DEF UploadIInv, UploadTyped
<1>4. UploadTyped'
  BY <1>1, <1>2, <1>3 DEF UploadIInv, UploadTyped
<1>5. ASSUME NEW x \in Contents
      PROVE  (DraftIsKept(x) /\ NewIsKept(x) /\ IsThere(x) /\ store.saved[x] <= refs.now /\ refs.drafts[x] <= refs.now)'
  <2>1. DraftIsKept(x) /\ NewIsKept(x) /\ IsThere(x) /\ store.saved[x] <= refs.now /\ refs.drafts[x] <= refs.now
    BY DEF UploadIInv
  <2>2. CASE x = c
    <3>1. CASE Fresh(c)
      <4>1. c \notin refs.stale => KeptSince(c, refs.drafts[c])
        BY <1>1, <2>1, <2>2, <3>1 DEF DraftIsKept
      <4>2. prune.st = "removes" => prune.cutoff <= refs.drafts[c]
        BY <3>1 DEF Fresh, UploadIInv, UploadTyped, Grace
      <4>3. store.saved[c] \in Nat /\ store.dirs[c].at \in Nat /\ refs.drafts[c] \in Nat /\ prune.cutoff \in Nat /\ refs.now \in Nat
        BY DEF UploadIInv, UploadTyped, IsDir
      <4> QED
        BY <1>1, <1>2, <1>3, <2>1, <2>2, <3>1, <4>1, <4>2, <4>3 DEF DraftIsKept, NewIsKept, IsThere, KeptSince, Fresh, Grace
    <3>2. CASE ~Fresh(c)
      BY <1>1, <1>2, <1>3, <2>1, <2>2, <3>2 DEF DraftIsKept, NewIsKept, IsThere, KeptSince, Fresh, Grace, UploadIInv, UploadTyped
    <3> QED
      BY <3>1, <3>2
  <2>3. CASE x # c
    BY <1>1, <1>2, <1>3, <2>1, <2>3 DEF DraftIsKept, NewIsKept, IsThere, KeptSince, Fresh, Grace
  <2> QED
    BY <2>2, <2>3
<1> QED
  BY <1>1, <1>2, <1>4, <1>5 DEF UploadIInv, ToldIsKept

\* A queued message goes to the agent.
LEMMA QueueSendsHolds ==
    ASSUME UploadIInv, NEW c \in Contents, QueueSends(c)
    PROVE  UploadIInv'
<1>1. /\ RefFields \subseteq DOMAIN refs' /\ refs'.now = refs.now /\ refs'.drafts = refs.drafts /\ refs'.stale = refs.stale
      /\ refs'.queue \cup refs'.said = refs.queue \cup refs.said /\ UNCHANGED <<store, saves, prune>>
  BY DEF QueueSends, UploadIInv, UploadTyped, RefFields
<1>2. UploadTyped'
  BY <1>1 DEF UploadIInv, UploadTyped
<1>3. \A x \in Contents : DraftIsKept(x)' /\ NewIsKept(x)' /\ IsThere(x)'
  BY <1>1 DEF UploadIInv, DraftIsKept, NewIsKept, IsThere, KeptSince, Fresh
<1>4. \A t \in saves : ToldIsKept(t)'
  BY <1>1 DEF UploadIInv, ToldIsKept
<1> QED
  BY <1>1, <1>2, <1>3, <1>4 DEF UploadIInv

\* The conversation is forgotten, and what it referred to.
LEMMA ForgetHolds ==
    ASSUME UploadIInv, ForgetConversation
    PROVE  UploadIInv'
  BY DEF ForgetConversation, UploadIInv, UploadTyped, StoreFields, RefFields, DraftIsKept, NewIsKept, IsThere, ToldIsKept, KeptSince, Fresh, Grace, Idle

\* Time passes, but a call that has its path does not wait for the grace.
LEMMA UploadTimeHolds ==
    ASSUME UploadIInv, UploadTimePasses
    PROVE  UploadIInv'
  BY DEF UploadTimePasses, UploadIInv, UploadTyped, StoreFields, RefFields, DraftIsKept, NewIsKept, IsThere, ToldIsKept, KeptSince, Fresh, Grace, Idle

\* The prune picks what is older than its cutoff.
LEMMA PruneLooksHolds ==
    ASSUME UploadIInv, NEW asked \in BOOLEAN, PruneLooks(asked)
    PROVE  UploadIInv'
<1> DEFINE cutoff == refs.now - Grace
           saved == [c \in Contents |-> IF OlderThan(store.saved[c], cutoff) THEN 0 ELSE store.saved[c]]
           candidates == {c \in Contents : Unused(saved, c, cutoff)}
<1>1. /\ store' = [store EXCEPT !.saved = saved, !.asked = IF asked THEN FALSE ELSE @]
      /\ prune' = IF candidates = {} THEN Idle ELSE [Idle EXCEPT !.st = "scans", !.cutoff = cutoff, !.candidates = candidates]
      /\ UNCHANGED <<saves, refs>> /\ store.up /\ refs.now > Grace
  BY DEF PruneLooks
<1>2. refs.now \in Nat /\ refs.now # 0 /\ cutoff \in Nat /\ cutoff + Grace <= refs.now
  BY <1>1 DEF UploadIInv, UploadTyped, Grace
<1>3. ASSUME NEW c \in Contents
      PROVE  saved[c] \in Nat /\ saved[c] <= refs.now /\ (saved[c] = store.saved[c] \/ store.saved[c] + Grace < refs.now)
  BY <1>2 DEF OlderThan, UploadIInv, UploadTyped, Grace
<1>4. saved \in [Contents -> Nat]
  BY <1>3
<1> HIDE DEF saved, candidates
<1>5. /\ StoreFields \subseteq DOMAIN store' /\ store'.saved = saved /\ store'.dirs = store.dirs /\ store'.up = store.up
      /\ {"st", "cutoff", "candidates", "found"} \subseteq DOMAIN prune' /\ prune'.cutoff \in Nat
      /\ prune'.st \in {"idle", "scans"} /\ (prune'.st # "idle" => prune'.cutoff = cutoff)
  BY <1>1, <1>2 DEF UploadIInv, UploadTyped, StoreFields, RefFields, Idle
<1>6. UploadTyped'
  BY <1>1, <1>4, <1>5 DEF UploadIInv, UploadTyped
<1>7. ASSUME NEW c \in Contents
      PROVE  (DraftIsKept(c) /\ NewIsKept(c) /\ IsThere(c) /\ store.saved[c] <= refs.now /\ refs.drafts[c] <= refs.now)'
  BY <1>1, <1>2, <1>3, <1>5 DEF DraftIsKept, NewIsKept, IsThere, KeptSince, Fresh, Grace, UploadIInv, UploadTyped
<1>8. ASSUME NEW s \in saves PROVE ToldIsKept(s)'
  BY <1>1, <1>3, <1>5 DEF ToldIsKept, UploadIInv, UploadTyped, Grace
<1> QED
  BY <1>1, <1>2, <1>5, <1>6, <1>7, <1>8 DEF UploadIInv

\* It finds what messages and the queue refer to.
LEMMA PruneScansHolds ==
    ASSUME UploadIInv, NEW ok \in BOOLEAN, PruneScans(ok)
    PROVE  UploadIInv'
  BY DEF PruneScans, UploadIInv, UploadTyped, StoreFields, RefFields, DraftIsKept, NewIsKept, IsThere, ToldIsKept, KeptSince, Fresh, Grace, Idle

\* It removes what neither refers to and no save stored since.
LEMMA PruneRemovesHolds ==
    ASSUME UploadIInv, NEW kept, PruneRemoves(kept)
    PROVE  UploadIInv'
<1> DEFINE left(c) == {f \in store.dirs[c].files : <<c, f.n>> \in kept}
           new(c) == IF c \notin Removable THEN store.dirs[c]
                     ELSE IF left(c) = {} THEN NoDir
                     ELSE [store.dirs[c] EXCEPT !.files = left(c), !.at = IF left(c) = store.dirs[c].files THEN @ ELSE refs.now]
           dirs == [c \in Contents |-> new(c)]
<1>1. store' = [store EXCEPT !.dirs = dirs] /\ prune' = Idle /\ UNCHANGED <<saves, refs>> /\ prune.st = "removes"
  BY DEF PruneRemoves
<1>2. ASSUME NEW c \in Contents
      PROVE  /\ IsDir(new(c)) /\ dirs[c] = new(c)
             /\ c \notin Removable => new(c) = store.dirs[c]
  <2>1. IsDir(store.dirs[c]) /\ refs.now \in Nat
    BY DEF UploadIInv, UploadTyped
  <2> QED
    BY <2>1 DEF NoDir, IsDir
<1>3. ASSUME NEW c \in Contents, c \in Removable
      PROVE  /\ ~KeptSince(c, prune.cutoff)
             /\ c \in prune.candidates \ prune.found
  BY <1>3 DEF Removable, Unused, OlderThan, KeptSince, UploadIInv, UploadTyped, IsDir
<1> HIDE DEF new, dirs
<1>4. /\ StoreFields \subseteq DOMAIN store' /\ store'.saved = store.saved /\ store'.dirs = dirs /\ store'.up = store.up
      /\ DOMAIN dirs = Contents
  BY <1>1 DEF UploadIInv, UploadTyped, StoreFields, RefFields, dirs
<1>5. UploadTyped'
  BY <1>1, <1>2, <1>4 DEF UploadIInv, UploadTyped, Idle
<1>6. ASSUME NEW c \in Contents, c \notin refs.stale, c \in refs.queue \cup refs.said \/ (store.up /\ refs.drafts[c] # 0 /\ Fresh(c))
      PROVE  c \notin Removable
  <2>1. store.saved[c] \in Nat /\ store.dirs[c].at \in Nat /\ refs.drafts[c] \in Nat /\ prune.cutoff \in Nat /\ refs.now \in Nat
    BY DEF UploadIInv, UploadTyped, IsDir
  <2>2. DraftIsKept(c) /\ NewIsKept(c) /\ prune.cutoff + Grace <= refs.now
    BY <1>1 DEF UploadIInv
  <2> QED
    BY <1>1, <1>3, <1>6, <2>1, <2>2 DEF DraftIsKept, NewIsKept, KeptSince, Fresh, Grace
<1>7. ASSUME NEW c \in Contents
      PROVE  (DraftIsKept(c) /\ NewIsKept(c) /\ IsThere(c) /\ store.saved[c] <= refs.now /\ refs.drafts[c] <= refs.now)'
  <2>1. DraftIsKept(c) /\ IsThere(c) /\ store.saved[c] <= refs.now /\ refs.drafts[c] <= refs.now
    BY DEF UploadIInv
  <2>2. store.up /\ prune'.st = "idle"
    BY <1>1 DEF UploadIInv, Idle
  <2> QED
    BY <1>1, <1>2, <1>4, <1>6, <2>1, <2>2 DEF DraftIsKept, NewIsKept, IsThere, KeptSince, Fresh, Grace
<1>8. ASSUME NEW s \in saves PROVE ToldIsKept(s)'
  <2>1. s.st = "told" => s.c \notin Removable
    BY <1>1, <1>3 DEF UploadIInv, UploadTyped, ToldIsKept, KeptSince, Grace
  <2> QED
    BY <1>1, <1>2, <1>4, <2>1 DEF UploadIInv, UploadTyped, ToldIsKept
<1> QED
  BY <1>1, <1>4, <1>5, <1>7, <1>8 DEF UploadIInv, Idle

\* The server stops.
LEMMA UploadsStopHolds ==
    ASSUME UploadIInv, UploadsStop
    PROVE  UploadIInv'
<1>1. /\ RefFields \subseteq DOMAIN refs' /\ refs'.now = refs.now /\ refs'.drafts = refs.drafts /\ refs'.stale = refs.stale
      /\ refs'.queue = refs.queue /\ refs'.said = refs.said /\ UNCHANGED <<saves, prune>>
  BY DEF UploadsStop, UploadIInv, UploadTyped, RefFields
<1>2. StoreFields \subseteq DOMAIN store' /\ store'.up = store.up /\ store'.saved = store.saved /\ store'.dirs = store.dirs
  BY DEF UploadsStop, UploadIInv, UploadTyped, StoreFields
<1>3. UploadTyped'
  BY <1>1, <1>2 DEF UploadIInv, UploadTyped
<1>4. \A x \in Contents : DraftIsKept(x)' /\ NewIsKept(x)' /\ IsThere(x)'
  BY <1>1, <1>2 DEF UploadIInv, DraftIsKept, NewIsKept, IsThere, KeptSince, Fresh
<1>5. \A t \in saves : ToldIsKept(t)'
  BY <1>1, <1>2 DEF UploadIInv, ToldIsKept
<1> QED
  BY <1>1, <1>2, <1>3, <1>4, <1>5 DEF UploadIInv

\* Its last calls ended.
LEMMA UploadsStoppedHolds ==
    ASSUME UploadIInv, UploadsStopped
    PROVE  UploadIInv'
<1>1. /\ store' = [store EXCEPT !.up = FALSE, !.stopping = FALSE, !.saved = NeverSaved,
                              !.dirs = IF upScope.keep THEN @ ELSE [c \in Contents |-> NoDir]]
      /\ refs' = IF upScope.keep THEN refs ELSE [refs EXCEPT !.said = {}, !.queue = {}, !.drafts = NeverSaved]
      /\ UNCHANGED <<saves, prune>> /\ saves = {} /\ prune.st = "idle"
  BY DEF UploadsStopped
<1>2. CASE upScope.keep
  <2>1. store' = [store EXCEPT !.up = FALSE, !.stopping = FALSE, !.saved = NeverSaved] /\ refs' = refs
    BY <1>1, <1>2 DEF UploadIInv, UploadTyped, StoreFields
  <2> QED
    <3>1. StoreFields \subseteq DOMAIN store' /\ store'.up = FALSE /\ store'.saved = NeverSaved /\ store'.dirs = store.dirs
      BY <2>1 DEF UploadIInv, UploadTyped, StoreFields
    <3>2. UploadTyped'
      BY <1>1, <2>1, <3>1 DEF NeverSaved, UploadIInv, UploadTyped
    <3> QED
      BY <1>1, <2>1, <3>1, <3>2 DEF NeverSaved, UploadIInv, UploadTyped, DraftIsKept, NewIsKept, IsThere, KeptSince, Fresh, Grace, ToldIsKept
<1>3. CASE ~upScope.keep
  <2>1. /\ StoreFields \subseteq DOMAIN store' /\ store'.up = FALSE /\ store'.saved = NeverSaved /\ store'.dirs = [c \in Contents |-> NoDir]
        /\ RefFields \subseteq DOMAIN refs' /\ refs'.now = refs.now /\ refs'.said = {} /\ refs'.queue = {} /\ refs'.drafts = NeverSaved
    BY <1>1, <1>3 DEF UploadIInv, UploadTyped, StoreFields, RefFields
  <2> QED
    BY <1>1, <2>1 DEF NeverSaved, NoDir, IsDir, UploadIInv, UploadTyped, DraftIsKept, NewIsKept, IsThere, KeptSince, Fresh, Grace, ToldIsKept
<1> QED
  BY <1>2, <1>3

\* It is killed.
LEMMA UploadsDieHolds ==
    ASSUME UploadIInv, UploadsDie
    PROVE  UploadIInv'
  BY DEF UploadsDie, NeverSaved, UploadIInv, UploadTyped, StoreFields, RefFields, DraftIsKept, NewIsKept, IsThere, ToldIsKept, KeptSince, Fresh, Grace, Idle

\* It runs again.
LEMMA UploadsStartHolds ==
    ASSUME UploadIInv, UploadsStart
    PROVE  UploadIInv'
  BY DEF UploadsStart, IsDir, UploadIInv, UploadTyped, StoreFields, RefFields, DraftIsKept, NewIsKept, IsThere, ToldIsKept, KeptSince, Fresh, Grace, Idle

\* Nothing was uploaded.
LEMMA UploadInitHolds == UploadInit => UploadIInv
  BY DEF UploadInit, NeverSaved, NoDir, IsDir, UploadIInv, UploadTyped, StoreFields, RefFields, DraftIsKept, NewIsKept, IsThere, ToldIsKept, KeptSince, Fresh, Grace, Idle

\* A step that changes nothing of the uploads.
LEMMA UploadStutters == ASSUME UploadIInv, UNCHANGED upVars PROVE UploadIInv'
<1>1. UNCHANGED <<store, saves, prune, refs, upScope>>
  BY DEF upVars
<1>2. UploadTyped'
  BY <1>1 DEF UploadIInv, UploadTyped
<1>3. \A c \in Contents : DraftIsKept(c)' /\ NewIsKept(c)' /\ IsThere(c)'
  BY <1>1 DEF UploadIInv, DraftIsKept, NewIsKept, IsThere, KeptSince, Fresh
<1>4. \A s \in saves' : ToldIsKept(s)'
  BY <1>1 DEF UploadIInv, ToldIsKept
<1> QED
  BY <1>1, <1>2, <1>3, <1>4 DEF UploadIInv

\* The invariant says what the run checks.
LEMMA UploadIInvShows == UploadIInv => UploadsAreThere
  BY DEF UploadIInv, IsThere, UploadsAreThere

-----------------------------------------------------------------------------
(* The human replies.                                                        *)

Ids == Nat \X Nat \X {"message", "request"} \X Nat
Results == {"uncertain", "queued", "applied", "superseded"}
Receipts == [id : Ids, reply : Nat, result : Results]
Reqs == [n : Nat, st : {"open", "unconfirmed"}]
HandCallFields == {"op", "reply", "id", "step", "view", "pending"}
HandCallTyped(c) ==
    /\ HandCallFields \subseteq DOMAIN c /\ c.op \in {"get", "reply", "post"} /\ c.step \in {"view", "send"} /\ c.reply \in Nat
    /\ c.id \in Ids \cup {NoOffer} /\ c.pending \in Ids \cup {NoOffer} /\ c.view.rev \in Nat /\ c.view.msg \in Nat
TalkFields == {"run", "rev", "busy", "msg", "reqs", "queue", "restarting", "turns", "asked", "restarts"}
BotFields == {"offers", "reached", "told", "gets", "replies", "posts"}
Locks(c) == c.op \in {"reply", "post"}

HandTyped ==
    /\ hand \in [suppressed : Ids \cup {NoOffer}, receipts : Seq(Receipts)]
    /\ \A c \in hcalls : HandCallTyped(c)
    /\ TalkFields \subseteq DOMAIN talk /\ talk.run \in Nat /\ talk.rev \in Nat /\ talk.msg \in Nat /\ talk.asked \in Nat
    /\ talk.reqs \in Seq(Reqs)
    /\ BotFields \subseteq DOMAIN bots /\ bots.offers \subseteq Ids /\ bots.reached \in Seq(Ids \X Nat)

\* Requests are numbered as they are asked.
ReqsHold ==
    \A i \in DOMAIN talk.reqs : /\ talk.reqs[i].n <= talk.asked
                                /\ \A j \in DOMAIN talk.reqs : i # j => talk.reqs[i].n # talk.reqs[j].n

\* What is offered now, if that is the message: the offer is of this run, of
\* the conversation as the view v saw it.
OfMessage(id, v) == id = Offer(talk.run, v.rev, "message", v.msg)

\* A reply that reached the agent was to an offer of an earlier revision, or
\* to the message, which is not offered again before the revision changes; a
\* request that got one is not open again.
ReachedHolds(e) ==
    /\ e[1][1] <= talk.run
    /\ e[1][1] = talk.run =>
        /\ e[1][2] <= talk.rev
        /\ e[1][2] = talk.rev => OfMessage(e[1], talk) /\ hand.suppressed = e[1] /\ talk.reqs = <<>>
        /\ e[1][3] = "request" => /\ e[1][4] <= talk.asked
                                  /\ \A k \in DOMAIN talk.reqs : talk.reqs[k].n = e[1][4] => ~Open(talk.reqs[k])
    /\ \A k \in DOMAIN hand.receipts : hand.receipts[k].id = e[1] => hand.receipts[k].reply = e[2] /\ hand.receipts[k].result # "superseded"

Differ(a, b) ==
    /\ a[1] # b[1]
    /\ a[1][3] = "request" => <<a[1][1], a[1][4]>> # <<b[1][1], b[1][4]>> \/ b[1][3] # "request"
ReachedOnce == \A i, j \in DOMAIN bots.reached : i # j => Differ(bots.reached[i], bots.reached[j])

\* A call that holds the server's lock saw the conversation as it was when
\* the call began, and only the agent went on since.
ViewHolds(c) ==
    /\ c.view.rev <= talk.rev /\ (c.view.rev = talk.rev => c.view.msg = talk.msg)
    /\ \A i \in DOMAIN bots.reached : bots.reached[i][1][1] = talk.run => bots.reached[i][1][2] <= c.view.rev

\* A reply that looks for what it names has no receipt; what was reached at
\* its revision is not offered.
LookHolds(c) ==
    /\ ReceiptsOf(c.id) = {}
    /\ \A i \in DOMAIN bots.reached :
            bots.reached[i][1][1] = talk.run /\ bots.reached[i][1][2] = c.view.rev =>
                OfMessage(bots.reached[i][1], c.view) /\ hand.suppressed = bots.reached[i][1]

\* One that found it names an offer that none reached.
FoundHolds(c) ==
    /\ c.pending = c.id /\ c.id # NoOffer /\ c.id[1] = talk.run /\ c.id[2] = c.view.rev
    /\ \A i \in DOMAIN bots.reached : bots.reached[i][1] # c.id
    /\ c.id[3] = "message" => c.id[4] = c.view.msg /\ (c.view.rev = talk.rev => talk.reqs = <<>>)
    /\ c.id[3] = "request" => c.id[4] <= talk.asked /\ (c.view.rev = talk.rev => talk.reqs # <<>>)

HandCallHolds(c) ==
    /\ Locks(c) => ViewHolds(c)
    /\ c.op = "reply" /\ c.step = "view" => LookHolds(c)
    /\ c.op = "reply" /\ c.step = "send" => FoundHolds(c)

GotThrough(id, reply, outcome) == outcome \in {"applied", "queued"} => <<id, reply>> \in Range(bots.reached)
HandIInv ==
    /\ HandTyped /\ ReqsHold /\ ReachedOnce
    /\ \A i \in DOMAIN bots.reached : ReachedHolds(bots.reached[i])
    /\ \A c, d \in hcalls : Locks(c) /\ Locks(d) => c = d
    /\ \A c \in hcalls : HandCallHolds(c)
    /\ \A k \in DOMAIN hand.receipts : GotThrough(hand.receipts[k].id, hand.receipts[k].reply, hand.receipts[k].result)
    /\ \A t \in bots.told : ~t.late /\ GotThrough(t.id, t.reply, t.outcome)

-----------------------------------------------------------------------------
\* What an offer that is one consists of.
LEMMA IdIs ==
    ASSUME NEW id \in Ids
    PROVE  /\ id[1] \in Nat /\ id[2] \in Nat /\ id[3] \in {"message", "request"} /\ id[4] \in Nat
           /\ id = Offer(id[1], id[2], id[3], id[4]) /\ id # NoOffer
<1>1. id \in Nat \X Nat \X {"message", "request"} \X Nat
  BY DEF Ids
<1>2. id[1] \in Nat /\ id[2] \in Nat /\ id[3] \in {"message", "request"} /\ id[4] \in Nat
  BY <1>1
<1>3. id = <<id[1], id[2], id[3], id[4]>>
  BY <1>1
<1>4. id # <<>>
  BY <1>3
<1> QED
  BY <1>2, <1>3, <1>4 DEF Offer, NoOffer

\* What offer makes is one.
LEMMA OfferIs ==
    ASSUME NEW run \in Nat, NEW rev \in Nat, NEW kind \in {"message", "request"}, NEW what \in Nat
    PROVE  /\ Offer(run, rev, kind, what) \in Ids /\ Offer(run, rev, kind, what)[1] = run /\ Offer(run, rev, kind, what)[2] = rev
           /\ Offer(run, rev, kind, what)[3] = kind /\ Offer(run, rev, kind, what)[4] = what
  BY DEF Ids, Offer

\* What reached the agent is a reply to an offer.
LEMMA ReachedIs ==
    ASSUME HandTyped, NEW i \in DOMAIN bots.reached
    PROVE  bots.reached[i][1] \in Ids /\ bots.reached[i][2] \in Nat /\ bots.reached[i] = <<bots.reached[i][1], bots.reached[i][2]>>
<1>1. PICK e : e = bots.reached[i]
  OBVIOUS
<1>2. PICK I : I = Ids
  OBVIOUS
<1>3. bots.reached \in Seq(I \X Nat)
  BY <1>2 DEF HandTyped
<1>4. e \in I \X Nat
  BY <1>1, <1>3
<1> QED
  BY <1>1, <1>2, <1>4

\* The conversation goes on in this run: whatever changes what can be offered
\* is a new revision, and requests that were not there are new.
TalkGoes ==
    /\ TalkFields \subseteq DOMAIN talk' /\ talk'.run = talk.run /\ talk'.rev \in Nat /\ talk.rev <= talk'.rev /\ talk'.msg \in Nat
    /\ talk'.asked \in Nat /\ talk.asked <= talk'.asked /\ talk'.reqs \in Seq(Reqs)
    /\ talk'.rev = talk.rev => talk'.msg = talk.msg /\ talk'.reqs = talk.reqs
    /\ ReqsHold'
    /\ \A k \in DOMAIN talk'.reqs : \/ talk.asked < talk'.reqs[k].n
                                    \/ \E j \in DOMAIN talk.reqs : talk.reqs[j].n = talk'.reqs[k].n /\ (Open(talk'.reqs[k]) => Open(talk.reqs[j]))

\* What reached the agent goes on being so as the conversation goes on.
LEMMA TalkKeepsReached ==
    ASSUME HandTyped, TalkGoes, hand'.receipts = hand.receipts, NEW e \in Ids \X Nat, ReachedHolds(e),
           talk'.rev = talk.rev => hand'.suppressed = hand.suppressed
    PROVE  ReachedHolds(e)'
<1>1. e[1] \in Ids /\ e[1][1] \in Nat /\ e[1][2] \in Nat /\ e[1][4] \in Nat
  BY IdIs
<1>2. \A k \in DOMAIN hand'.receipts : hand'.receipts[k].id = e[1] => hand'.receipts[k].reply = e[2] /\ hand'.receipts[k].result # "superseded"
  BY DEF ReachedHolds
<1>3. CASE e[1][1] # talk.run
  BY <1>1, <1>2, <1>3 DEF ReachedHolds, TalkGoes
<1>4. CASE e[1][1] = talk.run
  <2>1. e[1][2] <= talk'.rev /\ (e[1][2] = talk'.rev => talk'.rev = talk.rev)
    <3>1. e[1][2] <= talk.rev
      BY <1>4 DEF ReachedHolds
    <3>2. talk.rev \in Nat /\ talk'.rev \in Nat /\ talk.rev <= talk'.rev
      BY DEF HandTyped, TalkGoes
    <3> QED
      BY <1>1, <3>1, <3>2
  <2>2. e[1][2] = talk'.rev => OfMessage(e[1], talk)' /\ hand'.suppressed = e[1] /\ talk'.reqs = <<>>
    BY <1>4, <2>1 DEF ReachedHolds, TalkGoes, OfMessage
  <2>3. ASSUME e[1][3] = "request", NEW k \in DOMAIN talk'.reqs, talk'.reqs[k].n = e[1][4] PROVE ~Open(talk'.reqs[k])
    <3>1. e[1][4] <= talk.asked /\ \A j \in DOMAIN talk.reqs : talk.reqs[j].n = e[1][4] => ~Open(talk.reqs[j])
      BY <1>4, <2>3 DEF ReachedHolds
    <3>2. talk.asked \in Nat
      BY DEF HandTyped
    <3>3. ~(talk.asked < talk'.reqs[k].n)
      BY <1>1, <2>3, <3>1, <3>2
    <3>4. PICK j \in DOMAIN talk.reqs : talk.reqs[j].n = talk'.reqs[k].n /\ (Open(talk'.reqs[k]) => Open(talk.reqs[j]))
      BY <3>3 DEF TalkGoes
    <3> QED
      BY <2>3, <3>1, <3>4
  <2>4. e[1][3] = "request" => e[1][4] <= talk'.asked
    BY <1>1, <1>4 DEF ReachedHolds, TalkGoes, HandTyped
  <2> QED
    BY <1>2, <1>4, <2>1, <2>2, <2>3, <2>4 DEF ReachedHolds, TalkGoes
<1> QED
  BY <1>3, <1>4

\* What was reached stays so while the conversation goes on, if it is of no
\* revision that is current then.
LEMMA GoesOnReached ==
    ASSUME HandTyped, TalkGoes, NEW e \in Ids \X Nat, ReachedHolds(e), ~(e[1][1] = talk'.run /\ e[1][2] = talk'.rev),
           \A k \in DOMAIN hand'.receipts : hand'.receipts[k].id = e[1] => hand'.receipts[k].reply = e[2] /\ hand'.receipts[k].result # "superseded"
    PROVE  ReachedHolds(e)'
<1>1. e[1] \in Ids /\ e[1][1] \in Nat /\ e[1][2] \in Nat /\ e[1][4] \in Nat
  BY IdIs
<1>2. CASE e[1][1] # talk.run
  BY <1>1, <1>2 DEF ReachedHolds, TalkGoes
<1>3. CASE e[1][1] = talk.run
  <2>1. e[1][2] <= talk'.rev
    <3>1. e[1][2] <= talk.rev
      BY <1>3 DEF ReachedHolds
    <3>2. talk.rev \in Nat /\ talk'.rev \in Nat /\ talk.rev <= talk'.rev
      BY DEF HandTyped, TalkGoes
    <3> QED
      BY <1>1, <3>1, <3>2
  <2>2. e[1][2] # talk'.rev
    BY <1>3 DEF TalkGoes
  <2>3. ASSUME e[1][3] = "request", NEW k \in DOMAIN talk'.reqs, talk'.reqs[k].n = e[1][4] PROVE ~Open(talk'.reqs[k])
    <3>1. e[1][4] <= talk.asked /\ \A j \in DOMAIN talk.reqs : talk.reqs[j].n = e[1][4] => ~Open(talk.reqs[j])
      BY <1>3, <2>3 DEF ReachedHolds
    <3>2. talk.asked \in Nat
      BY DEF HandTyped
    <3>3. ~(talk.asked < talk'.reqs[k].n)
      BY <1>1, <2>3, <3>1, <3>2
    <3>4. PICK j \in DOMAIN talk.reqs : talk.reqs[j].n = talk'.reqs[k].n /\ (Open(talk'.reqs[k]) => Open(talk.reqs[j]))
      BY <3>3 DEF TalkGoes
    <3> QED
      BY <2>3, <3>1, <3>4
  <2>4. e[1][3] = "request" => e[1][4] <= talk'.asked
    BY <1>1, <1>3 DEF ReachedHolds, TalkGoes, HandTyped
  <2> QED
    BY <1>3, <2>1, <2>2, <2>3, <2>4 DEF ReachedHolds, TalkGoes
<1> QED
  BY <1>2, <1>3

\* So does what a call saw.
LEMMA TalkKeepsCall ==
    ASSUME HandTyped, TalkGoes, UNCHANGED <<hand, bots>>, NEW c, HandCallTyped(c), HandCallHolds(c)
    PROVE  HandCallHolds(c)'
<1>1. Locks(c) => ViewHolds(c)'
  BY DEF HandCallHolds, ViewHolds, TalkGoes, HandTyped, HandCallTyped
<1>2. c.op = "reply" /\ c.step = "view" => LookHolds(c)'
  BY DEF HandCallHolds, LookHolds, TalkGoes, ReceiptsOf, OfMessage
<1>3. c.op = "reply" /\ c.step = "send" => FoundHolds(c)'
  <2> SUFFICES ASSUME c.op = "reply" /\ c.step = "send" PROVE FoundHolds(c)'
    OBVIOUS
  <2>1. FoundHolds(c) /\ ViewHolds(c) /\ c.id \in Ids
    BY DEF HandCallHolds, Locks, FoundHolds, HandCallTyped
  <2>2. c.id[4] \in Nat
    BY <2>1, IdIs
  <2>3. c.view.rev = talk'.rev => c.view.rev = talk.rev /\ talk'.reqs = talk.reqs
    BY <2>1 DEF ViewHolds, TalkGoes, HandTyped, HandCallTyped
  <2> QED
    <3>1. talk.asked \in Nat /\ talk'.asked \in Nat /\ talk.asked <= talk'.asked /\ talk'.run = talk.run
      BY DEF TalkGoes, HandTyped
    <3>2. c.id[4] <= talk.asked => c.id[4] <= talk'.asked
      BY <2>2, <3>1
    <3> QED
      BY <2>1, <2>3, <3>1, <3>2 DEF FoundHolds
<1> QED
  BY <1>1, <1>2, <1>3 DEF HandCallHolds

\* A step of the agent alone keeps the invariant.
LEMMA TalkHolds ==
    ASSUME HandIInv, TalkGoes, UNCHANGED <<hand, hcalls, bots>>
    PROVE  HandIInv'
<1>1. HandTyped'
  BY DEF HandIInv, HandTyped, TalkGoes
<1>2. ASSUME NEW i \in DOMAIN bots.reached PROVE ReachedHolds(bots.reached[i])'
  BY TalkKeepsReached DEF HandIInv, HandTyped
<1>3. \A c \in hcalls : HandCallHolds(c)'
  BY TalkKeepsCall DEF HandIInv, HandTyped
<1> QED
  BY <1>1, <1>2, <1>3 DEF HandIInv, TalkGoes, ReachedOnce, GotThrough

\* Without the request n, the others are as they were.
LEMMA ClosedIs ==
    ASSUME HandTyped, ReqsHold, NEW n
    PROVE  /\ Closed(talk.reqs, n) \in Seq(Reqs)
           /\ \A k \in DOMAIN Closed(talk.reqs, n) :
                  \E j \in DOMAIN talk.reqs : Closed(talk.reqs, n)[k] = talk.reqs[j] /\ talk.reqs[j].n # n
           /\ \A k, l \in DOMAIN Closed(talk.reqs, n) : k # l => Closed(talk.reqs, n)[k].n # Closed(talk.reqs, n)[l].n
<1> DEFINE at == {i \in DOMAIN talk.reqs : talk.reqs[i].n = n}
           first == CHOOSE i \in at : TRUE
           q == [j \in 1 .. Len(talk.reqs) - 1 |-> IF j < first THEN talk.reqs[j] ELSE talk.reqs[j + 1]]
<1>1. Closed(talk.reqs, n) = IF at = {} THEN talk.reqs ELSE q
  BY DEF Closed
<1>2. talk.reqs \in Seq(Reqs) /\ Len(talk.reqs) \in Nat /\ DOMAIN talk.reqs = 1 .. Len(talk.reqs) /\ \A j \in DOMAIN talk.reqs : talk.reqs[j] \in Reqs
  BY DEF HandTyped
<1>3. CASE at = {}
  BY <1>1, <1>2, <1>3 DEF ReqsHold
<1>4. CASE at # {}
  <2>1. first \in 1 .. Len(talk.reqs) /\ talk.reqs[first].n = n
    BY <1>2, <1>4
  <2> HIDE DEF first
  <2> DEFINE at2(k) == IF k < first THEN k ELSE k + 1
  <2>2. ASSUME NEW k \in 1 .. Len(talk.reqs) - 1
        PROVE  at2(k) \in DOMAIN talk.reqs /\ q[k] = talk.reqs[at2(k)] /\ at2(k) # first
    <3>1. at2(k) \in 1 .. Len(talk.reqs) /\ at2(k) # first
      BY <1>2, <2>1
    <3>2. q[k] = talk.reqs[at2(k)]
      OBVIOUS
    <3> QED
      BY <1>2, <3>1, <3>2
  <2>3. q \in Seq(Reqs) /\ DOMAIN q = 1 .. Len(talk.reqs) - 1
    <3>1. DOMAIN q = 1 .. Len(talk.reqs) - 1 /\ Len(talk.reqs) - 1 \in Nat
      BY <1>2, <2>1
    <3>2. \A k \in 1 .. Len(talk.reqs) - 1 : q[k] \in Reqs
      BY <1>2, <2>2
    <3> HIDE DEF q
    <3>3. q \in [1 .. Len(talk.reqs) - 1 -> Reqs]
      <4>1. q = [k \in 1 .. Len(talk.reqs) - 1 |-> q[k]]
        BY DEF q
      <4> QED
        BY <3>2, <4>1
    <3> QED
      BY <3>1, <3>3
  <2> HIDE DEF q
  <2>4. ASSUME NEW k \in DOMAIN q PROVE \E j \in DOMAIN talk.reqs : q[k] = talk.reqs[j] /\ talk.reqs[j].n # n
    <3>1. at2(k) \in DOMAIN talk.reqs /\ q[k] = talk.reqs[at2(k)] /\ at2(k) # first
      BY <2>2, <2>3
    <3> QED
      BY <1>2, <2>1, <3>1 DEF ReqsHold
  <2>5. ASSUME NEW k \in DOMAIN q, NEW l \in DOMAIN q, k # l PROVE q[k].n # q[l].n
    <3>1. at2(k) \in DOMAIN talk.reqs /\ q[k] = talk.reqs[at2(k)] /\ at2(l) \in DOMAIN talk.reqs /\ q[l] = talk.reqs[at2(l)]
      BY <2>2, <2>3
    <3>2. at2(k) # at2(l)
      BY <1>2, <2>1, <2>3, <2>5
    <3> QED
      BY <3>1, <3>2 DEF ReqsHold
  <2> QED
    BY <1>1, <1>4, <2>3, <2>4, <2>5
<1> QED
  BY <1>3, <1>4

\* The agent, its users elsewhere and the queue.
LEMMA AgentsHold ==
    ASSUME HandIInv, AgentReplies \/ AgentWorks \/ HandoffAgentRestarts \/ HandoffAgentBack \/ QueuedGoes
    PROVE  HandIInv'
<1>1. /\ UNCHANGED <<hand, hcalls, bots>> /\ TalkFields \subseteq DOMAIN talk' /\ talk'.run = talk.run /\ talk'.asked = talk.asked
      /\ talk'.reqs \in {<<>>, talk.reqs} /\ talk'.msg \in {0, 1, talk.msg}
      /\ talk'.rev \in {talk.rev, talk.rev + 1} /\ (talk'.rev = talk.rev => talk'.msg = talk.msg /\ talk'.reqs = talk.reqs)
  <2>1. TalkFields \subseteq DOMAIN talk /\ talk.rev \in Nat
    BY DEF HandIInv, HandTyped
  <2>2. CASE AgentReplies
    BY <2>1, <2>2 DEF AgentReplies, TalkFields
  <2>3. CASE AgentWorks
    BY <2>1, <2>3 DEF AgentWorks, TalkFields
  <2>4. CASE HandoffAgentRestarts
    BY <2>1, <2>4 DEF HandoffAgentRestarts, TalkFields
  <2>5. CASE HandoffAgentBack
    BY <2>1, <2>5 DEF HandoffAgentBack, TalkFields
  <2>6. CASE QueuedGoes
    BY <2>1, <2>6 DEF QueuedGoes, TalkFields
  <2> QED
    BY <2>2, <2>3, <2>4, <2>5, <2>6
<1>2. TalkGoes
  <2>1. talk.reqs \in Seq(Reqs) /\ talk.rev \in Nat /\ talk.msg \in Nat /\ talk.asked \in Nat /\ ReqsHold
    BY DEF HandIInv, HandTyped
  <2>2. talk'.reqs \in Seq(Reqs) /\ \A k \in DOMAIN talk'.reqs : k \in DOMAIN talk.reqs /\ talk'.reqs[k] = talk.reqs[k]
    <3>1. CASE talk'.reqs = <<>>
      BY <3>1
    <3>2. CASE talk'.reqs = talk.reqs
      BY <2>1, <3>2
    <3> QED
      BY <1>1, <3>1, <3>2
  <2>3. ReqsHold'
    BY <1>1, <2>1, <2>2 DEF ReqsHold
  <2> QED
    <3>1. talk'.rev \in Nat /\ talk.rev <= talk'.rev /\ talk'.msg \in Nat
      BY <1>1, <2>1
    <3>2. talk'.asked \in Nat /\ talk.asked <= talk'.asked
      BY <1>1, <2>1
    <3>3. \A k \in DOMAIN talk'.reqs : \E j \in DOMAIN talk.reqs : talk.reqs[j].n = talk'.reqs[k].n /\ (Open(talk'.reqs[k]) => Open(talk.reqs[j]))
      BY <2>2
    <3> QED
      BY <1>1, <2>2, <2>3, <3>1, <3>2, <3>3 DEF TalkGoes
<1> QED
  BY <1>1, <1>2, TalkHolds

\* The agent asks.
LEMMA AgentRequestsHolds ==
    ASSUME HandIInv, AgentRequests
    PROVE  HandIInv'
<1> DEFINE r == [n |-> talk.asked + 1, st |-> "open"]
           reqs == Append(talk.reqs, r)
<1>1. /\ UNCHANGED <<hand, hcalls, bots>>
      /\ talk' = [talk EXCEPT !.asked = @ + 1, !.reqs = reqs, !.rev = @ + 1]
  BY DEF AgentRequests
<1>2. talk.reqs \in Seq(Reqs) /\ talk.asked \in Nat /\ talk.rev \in Nat /\ ReqsHold
  BY DEF HandIInv, HandTyped
<1>3. /\ reqs \in Seq(Reqs)
      /\ \A k \in DOMAIN reqs : \/ k \in DOMAIN talk.reqs /\ reqs[k] = talk.reqs[k]
                                \/ k = Len(talk.reqs) + 1 /\ reqs[k].n = talk.asked + 1
  <2>1. r \in Reqs /\ r.n = talk.asked + 1
    BY <1>2 DEF Reqs
  <2> HIDE DEF r
  <2>2. Len(talk.reqs) \in Nat /\ reqs \in Seq(Reqs) /\ Len(reqs) = Len(talk.reqs) + 1
    BY <1>2, <2>1
  <2>3. DOMAIN reqs = 1 .. Len(reqs) /\ DOMAIN talk.reqs = 1 .. Len(talk.reqs)
    BY <1>2, <2>2
  <2>4. \A k \in 1 .. Len(talk.reqs) + 1 : reqs[k] = IF k <= Len(talk.reqs) THEN talk.reqs[k] ELSE r
    BY <1>2, <2>1, <2>2
  <2> HIDE DEF reqs
  <2>5. ASSUME NEW k \in DOMAIN reqs
        PROVE  \/ k \in DOMAIN talk.reqs /\ reqs[k] = talk.reqs[k]
               \/ k = Len(talk.reqs) + 1 /\ reqs[k].n = talk.asked + 1
    <3>1. k \in 1 .. Len(talk.reqs) + 1
      BY <2>2, <2>3
    <3>2. CASE k <= Len(talk.reqs)
      BY <2>2, <2>3, <2>4, <3>1, <3>2
    <3>3. CASE ~(k <= Len(talk.reqs))
      BY <2>1, <2>2, <2>4, <3>1, <3>3
    <3> QED
      BY <3>2, <3>3
  <2> QED
    BY <2>2, <2>5
<1> HIDE DEF reqs
<1>4. /\ TalkFields \subseteq DOMAIN talk' /\ talk'.run = talk.run /\ talk'.asked = talk.asked + 1 /\ talk'.reqs = reqs
      /\ talk'.msg = talk.msg /\ talk'.rev = talk.rev + 1
  BY <1>1 DEF HandIInv, HandTyped, TalkFields
<1>5. ReqsHold'
  <2>1. \A k \in DOMAIN talk.reqs : talk.reqs[k].n \in Nat
    <3>1. \A k \in DOMAIN talk.reqs : talk.reqs[k] \in Reqs
      BY <1>2
    <3> QED
      BY <3>1 DEF Reqs
  <2>2. ASSUME NEW i \in DOMAIN reqs PROVE reqs[i].n <= talk.asked + 1
    BY <1>2, <1>3, <2>1 DEF ReqsHold
  <2>3. ASSUME NEW i \in DOMAIN reqs, NEW j \in DOMAIN reqs, i # j PROVE reqs[i].n # reqs[j].n
    <3>1. \A k \in DOMAIN talk.reqs : talk.reqs[k].n <= talk.asked
      BY <1>2 DEF ReqsHold
    <3>2. \A k \in DOMAIN talk.reqs : talk.reqs[k].n # talk.asked + 1
      BY <1>2, <2>1, <3>1
    <3>3. CASE i \in DOMAIN talk.reqs /\ reqs[i] = talk.reqs[i]
      <4>1. CASE j \in DOMAIN talk.reqs /\ reqs[j] = talk.reqs[j]
        BY <1>2, <2>3, <3>3, <4>1 DEF ReqsHold
      <4>2. CASE j = Len(talk.reqs) + 1 /\ reqs[j].n = talk.asked + 1
        BY <3>2, <3>3, <4>2
      <4> QED
        BY <1>3, <4>1, <4>2
    <3>4. CASE i = Len(talk.reqs) + 1 /\ reqs[i].n = talk.asked + 1
      <4>1. j # Len(talk.reqs) + 1
        BY <2>3, <3>4
      <4>2. j \in DOMAIN talk.reqs /\ reqs[j] = talk.reqs[j]
        BY <1>3, <4>1
      <4> QED
        BY <3>2, <3>4, <4>2
    <3> QED
      BY <1>3, <3>3, <3>4
  <2> QED
    BY <1>4, <2>2, <2>3 DEF ReqsHold
<1>6. TalkGoes
  <2>1. talk.msg \in Nat /\ talk.asked <= talk'.asked /\ talk'.asked \in Nat
    BY <1>2, <1>4 DEF HandIInv, HandTyped
  <2>2. ASSUME NEW k \in DOMAIN reqs
        PROVE  \/ talk.asked < reqs[k].n
               \/ \E j \in DOMAIN talk.reqs : talk.reqs[j].n = reqs[k].n /\ (Open(reqs[k]) => Open(talk.reqs[j]))
    BY <1>2, <1>3
  <2>3. talk'.rev \in Nat /\ talk.rev <= talk'.rev /\ talk'.rev # talk.rev
    BY <1>2, <1>4
  <2> QED
    BY <1>3, <1>4, <1>5, <2>1, <2>2, <2>3 DEF TalkGoes
<1> QED
  BY <1>1, <1>6, TalkHolds

\* A request is answered elsewhere, or withdrawn.
LEMMA RequestClosesHolds ==
    ASSUME HandIInv, NEW n, RequestCloses(n)
    PROVE  HandIInv'
<1> DEFINE reqs == Closed(talk.reqs, n)
<1>1. UNCHANGED <<hand, hcalls, bots>> /\ talk' = [talk EXCEPT !.reqs = reqs, !.rev = @ + 1]
  BY DEF RequestCloses
<1>2. talk.reqs \in Seq(Reqs) /\ talk.asked \in Nat /\ talk.rev \in Nat /\ ReqsHold
  BY DEF HandIInv, HandTyped
<1>3. /\ reqs \in Seq(Reqs) /\ \A k \in DOMAIN reqs : \E j \in DOMAIN talk.reqs : reqs[k] = talk.reqs[j]
      /\ \A k, l \in DOMAIN reqs : k # l => reqs[k].n # reqs[l].n
  BY ClosedIs DEF HandIInv
<1> HIDE DEF reqs
<1>4. /\ TalkFields \subseteq DOMAIN talk' /\ talk'.run = talk.run /\ talk'.asked = talk.asked /\ talk'.reqs = reqs
      /\ talk'.msg = talk.msg /\ talk'.rev = talk.rev + 1
  BY <1>1 DEF HandIInv, HandTyped, TalkFields
<1>5. ReqsHold'
  BY <1>2, <1>3, <1>4 DEF ReqsHold
<1>6. TalkGoes
  <2>1. talk.msg \in Nat /\ talk.asked <= talk.asked /\ talk.rev + 1 # talk.rev
    BY <1>2 DEF HandIInv, HandTyped
  <2>2. ASSUME NEW k \in DOMAIN reqs
        PROVE  \E j \in DOMAIN talk.reqs : talk.reqs[j].n = reqs[k].n /\ (Open(reqs[k]) => Open(talk.reqs[j]))
    BY <1>3
  <2>3. talk'.rev \in Nat /\ talk.rev <= talk'.rev /\ talk'.rev # talk.rev
    BY <1>2, <1>4
  <2> QED
    BY <1>2, <1>3, <1>4, <1>5, <2>1, <2>2, <2>3 DEF TalkGoes
<1> QED
  BY <1>1, <1>6, TalkHolds

-----------------------------------------------------------------------------
\* What record leaves of the receipts.
RecordedShown(h, id, reply, result) ==
    /\ h \in [suppressed : Ids \cup {NoOffer}, receipts : Seq(Receipts)] /\ h.suppressed = id
    /\ \A k \in DOMAIN h.receipts : \/ h.receipts[k].id = id /\ h.receipts[k].reply = reply /\ h.receipts[k].result = result
                                    \/ h.receipts[k].id # id /\ \E j \in DOMAIN hand.receipts : h.receipts[k] = hand.receipts[j]
LEMMA RecordedIs ==
    ASSUME HandTyped, NEW id \in Ids, NEW reply \in Nat, NEW result \in Results
    PROVE  RecordedShown(Recorded(hand, id, reply, result), id, reply, result)
<1> DEFINE receipt == [id |-> id, reply |-> reply, result |-> result]
           q == hand.receipts
           at == {i \in DOMAIN q : q[i].id = id}
           kept == IF Len(q) >= MaxReceipts THEN Tail(q) ELSE q
           new == IF at # {} THEN [i \in DOMAIN q |-> IF i \in at THEN receipt ELSE q[i]] ELSE Append(kept, receipt)
<1> DEFINE h == Recorded(hand, id, reply, result)
<1>1. h = [suppressed |-> id, receipts |-> new]
  BY DEF Recorded
<1>2. receipt \in Receipts /\ receipt.id = id /\ receipt.reply = reply /\ receipt.result = result
  BY DEF Receipts
<1> HIDE DEF receipt
<1>3. q \in Seq(Receipts)
  BY DEF HandTyped
<1> HIDE DEF q
<1>4. Len(q) \in Nat /\ DOMAIN q = 1 .. Len(q) /\ \A i \in DOMAIN q : q[i] \in Receipts
  BY <1>3
<1>5. /\ new \in Seq(Receipts)
      /\ \A k \in DOMAIN new : new[k] = receipt \/ (new[k].id # id /\ \E j \in DOMAIN q : new[k] = q[j])
  <2>1. CASE at # {}
    <3>1. new = [i \in 1 .. Len(q) |-> IF q[i].id = id THEN receipt ELSE q[i]]
      BY <1>4, <2>1
    <3> HIDE DEF new
    <3>2. new \in [1 .. Len(q) -> Receipts]
      BY <1>2, <1>4, <3>1
    <3> QED
      BY <1>4, <3>1, <3>2
  <2>2. CASE at = {}
    <3>1. kept \in Seq(Receipts) /\ \A k \in DOMAIN kept : \E j \in DOMAIN q : kept[k] = q[j]
      <4>1. CASE Len(q) >= MaxReceipts
        <5>1. Len(q) # 0
          BY <1>4, <4>1, HandoffAssumption
        <5>2. kept = Tail(q) /\ q # <<>>
          BY <1>4, <4>1, <5>1
        <5> HIDE DEF kept
        <5>3. kept \in Seq(Receipts) /\ DOMAIN kept = 1 .. Len(q) - 1 /\ \A k \in 1 .. Len(q) - 1 : kept[k] = q[k + 1] /\ k + 1 \in 1 .. Len(q)
          BY <1>3, <1>4, <5>1, <5>2
        <5> QED
          BY <1>4, <5>3
      <4>2. CASE ~(Len(q) >= MaxReceipts)
        BY <1>3, <4>2
      <4> QED
        BY <4>1, <4>2
    <3> HIDE DEF kept
    <3>2. new = Append(kept, receipt)
      BY <2>2
    <3> HIDE DEF new
    <3>3. /\ new \in Seq(Receipts) /\ Len(kept) \in Nat /\ DOMAIN kept = 1 .. Len(kept) /\ DOMAIN new = 1 .. Len(kept) + 1
          /\ \A k \in 1 .. Len(kept) + 1 : new[k] = IF k <= Len(kept) THEN kept[k] ELSE receipt
      BY <1>2, <3>1, <3>2
    <3>4. ASSUME NEW k \in DOMAIN new, k <= Len(kept) PROVE new[k].id # id /\ \E j \in DOMAIN q : new[k] = q[j]
      <4>1. k \in DOMAIN kept /\ new[k] = kept[k]
        BY <3>3, <3>4
      <4>2. PICK j \in DOMAIN q : new[k] = q[j]
        BY <3>1, <4>1
      <4> QED
        BY <2>2, <4>2
    <3>5. ASSUME NEW k \in DOMAIN new, ~(k <= Len(kept)) PROVE new[k] = receipt
      BY <3>3, <3>5
    <3> QED
      BY <3>3, <3>4, <3>5
  <2> QED
    BY <2>1, <2>2
<1> HIDE DEF new, h
<1>6. /\ h \in [suppressed : Ids \cup {NoOffer}, receipts : Seq(Receipts)] /\ h.suppressed = id
      /\ \A k \in DOMAIN h.receipts : \/ h.receipts[k].id = id /\ h.receipts[k].reply = reply /\ h.receipts[k].result = result
                                      \/ h.receipts[k].id # id /\ \E j \in DOMAIN hand.receipts : h.receipts[k] = hand.receipts[j]
  BY <1>1, <1>2, <1>5 DEF q
<1>7. RecordedShown(h, id, reply, result)
  BY <1>6 DEF RecordedShown
<1> QED
  BY <1>7 DEF h

\* What a reply that ends changes of what clients were told.
HandTold(c, outcome) ==
    [reply |-> c.reply, id |-> c.id, outcome |-> outcome,
     late |-> outcome = "superseded" /\ <<c.id, c.reply>> \in Range(bots.reached) /\ ReceiptsOf(c.id) # {}]
LEMMA TellIs ==
    ASSUME HandTyped, NEW c, NEW outcome
    PROVE  /\ BotFields \subseteq DOMAIN TellClient(c, outcome) /\ TellClient(c, outcome).offers = bots.offers
           /\ TellClient(c, outcome).reached = bots.reached /\ TellClient(c, outcome).told = bots.told \cup {HandTold(c, outcome)}
           /\ HandTold(c, outcome).reply = c.reply /\ HandTold(c, outcome).id = c.id /\ HandTold(c, outcome).outcome = outcome
           /\ HandTold(c, outcome).late =>
                outcome = "superseded" /\ ReceiptsOf(c.id) # {} /\ \E i \in DOMAIN bots.reached : bots.reached[i] = <<c.id, c.reply>>
  BY DEF HandTyped, TellClient, BotFields, Range, HandTold

-----------------------------------------------------------------------------
\* Calls begin, go on and end while the conversation and the receipts stay.
LEMMA HandCallsHold ==
    ASSUME HandIInv, UNCHANGED <<hand, talk>>, BotFields \subseteq DOMAIN bots', bots'.offers \subseteq Ids, bots'.reached = bots.reached,
           \A t \in bots'.told : t \in bots.told \/ (~t.late /\ GotThrough(t.id, t.reply, t.outcome)),
           \A c \in hcalls' : HandCallTyped(c) /\ (c \in hcalls \/ HandCallHolds(c)),
           \A c, d \in hcalls' : Locks(c) /\ Locks(d) => c = d
    PROVE  HandIInv'
<1>1. HandTyped'
  BY DEF HandIInv, HandTyped
<1>2. ReqsHold' /\ ReachedOnce'
  BY DEF HandIInv, ReqsHold, ReachedOnce
<1>3. ASSUME NEW i \in DOMAIN bots'.reached PROVE ReachedHolds(bots.reached[i])'
  BY DEF HandIInv, ReachedHolds, OfMessage
<1>4. ASSUME NEW c \in hcalls' PROVE HandCallHolds(c)'
  <2>1. HandCallHolds(c)
    BY DEF HandIInv
  <2> QED
    BY <2>1 DEF HandCallHolds, ViewHolds, LookHolds, FoundHolds, ReceiptsOf, OfMessage
<1>5. \A t \in bots'.told : ~t.late /\ GotThrough(t.id, t.reply, t.outcome)'
  BY DEF HandIInv, GotThrough
<1>6. \A k \in DOMAIN hand'.receipts : GotThrough(hand.receipts[k].id, hand.receipts[k].reply, hand.receipts[k].result)'
  BY DEF HandIInv, GotThrough
<1> QED
  BY <1>1, <1>2, <1>3, <1>4, <1>5, <1>6 DEF HandIInv

\* A call that begins sees the conversation as it is.
LEMMA BeginsSees ==
    ASSUME HandIInv
    PROVE  View.rev = talk.rev /\ View.msg = talk.msg /\ talk.rev \in Nat /\ talk.msg \in Nat
  BY DEF View, HandIInv, HandTyped

\* GET /handoff begins.
LEMMA HandoffGetHolds ==
    ASSUME HandIInv, HandoffGet
    PROVE  HandIInv'
<1> DEFINE c == [op |-> "get", reply |-> 0, id |-> NoOffer, step |-> "view", view |-> View, pending |-> NoOffer]
<1>1. /\ hcalls' = hcalls \cup {c} /\ UNCHANGED <<hand, talk>> /\ bots' = [bots EXCEPT !.gets = @ + 1]
  BY DEF HandoffGet
<1>2. BotFields \subseteq DOMAIN bots' /\ bots'.offers = bots.offers /\ bots'.reached = bots.reached /\ bots'.told = bots.told
  BY <1>1 DEF HandIInv, HandTyped, BotFields
<1>3. HandCallTyped(c) /\ ~Locks(c) /\ HandCallHolds(c)
  BY BeginsSees DEF HandCallTyped, HandCallFields, Locks, HandCallHolds
<1> HIDE DEF c
<1> QED
  BY <1>1, <1>2, <1>3, HandCallsHold DEF HandIInv, HandTyped

\* A call that takes the server's lock sees what was reached before.
LEMMA LockedSees ==
    ASSUME HandIInv, NEW c, c.view = View
    PROVE  ViewHolds(c) /\ (ReceiptsOf(c.id) = {} => LookHolds(c))
<1>1. ASSUME NEW i \in DOMAIN bots.reached, bots.reached[i][1][1] = talk.run
      PROVE  /\ bots.reached[i][1][2] <= talk.rev
             /\ bots.reached[i][1][2] = talk.rev => OfMessage(bots.reached[i][1], talk) /\ hand.suppressed = bots.reached[i][1]
  BY <1>1 DEF HandIInv, ReachedHolds
<1>2. ViewHolds(c)
  BY <1>1, BeginsSees DEF ViewHolds
<1>3. ReceiptsOf(c.id) = {} => LookHolds(c)
  BY <1>1, BeginsSees DEF LookHolds, OfMessage
<1> QED
  BY <1>2, <1>3

\* POST /message begins.
LEMMA MessagePostedHolds ==
    ASSUME HandIInv, MessagePosted
    PROVE  HandIInv'
<1> DEFINE c == [op |-> "post", reply |-> 0, id |-> NoOffer, step |-> "view", view |-> View, pending |-> NoOffer]
<1>1. /\ hcalls' = hcalls \cup {c} /\ UNCHANGED <<hand, talk>> /\ bots' = [bots EXCEPT !.posts = @ + 1] /\ ~Locked
  BY DEF MessagePosted
<1>2. BotFields \subseteq DOMAIN bots' /\ bots'.offers = bots.offers /\ bots'.reached = bots.reached /\ bots'.told = bots.told
  BY <1>1 DEF HandIInv, HandTyped, BotFields
<1>3. HandCallTyped(c) /\ c.view = View /\ c.op = "post"
  BY BeginsSees DEF HandCallTyped, HandCallFields
<1> HIDE DEF c
<1>4. HandCallHolds(c)
  BY <1>3, LockedSees DEF HandCallHolds
<1>5. \A d \in hcalls : ~Locks(d)
  BY <1>1 DEF Locked, Locks
<1> QED
  BY <1>1, <1>2, <1>3, <1>4, <1>5, HandCallsHold DEF HandIInv, HandTyped

\* A reply begins: it finds its receipt, or looks for what it names.
LEMMA HandoffReplyHolds ==
    ASSUME HandIInv, NEW reply \in Nat, NEW id \in bots.offers, HandoffReply(reply, id)
    PROVE  HandIInv'
<1> DEFINE c == [op |-> "reply", reply |-> reply, id |-> id, step |-> "view", view |-> View, pending |-> NoOffer]
<1>1. UNCHANGED <<hand, talk>> /\ ~Locked
  BY DEF HandoffReply
<1>2. id \in Ids
  BY DEF HandIInv, HandTyped
<1>3. HandCallTyped(c) /\ c.view = View /\ c.op = "reply" /\ c.id = id /\ c.step = "view" /\ c.reply = reply
  BY <1>2, BeginsSees DEF HandCallTyped, HandCallFields
<1>4. CASE ReceiptsOf(id) = {}
  <2>1. hcalls' = hcalls \cup {c} /\ bots' = [bots EXCEPT !.replies = @ + 1]
    BY <1>4 DEF HandoffReply
  <2>2. BotFields \subseteq DOMAIN bots' /\ bots'.offers = bots.offers /\ bots'.reached = bots.reached /\ bots'.told = bots.told
    BY <2>1 DEF HandIInv, HandTyped, BotFields
  <2> HIDE DEF c
  <2>3. HandCallHolds(c)
    BY <1>3, <1>4, LockedSees DEF HandCallHolds
  <2>4. \A d \in hcalls : ~Locks(d)
    BY <1>1 DEF Locked, Locks
  <2> QED
    BY <1>1, <1>3, <2>1, <2>2, <2>3, <2>4, HandCallsHold DEF HandIInv, HandTyped
<1>5. CASE ReceiptsOf(id) # {}
  <2> DEFINE k == CHOOSE i \in ReceiptsOf(id) : TRUE
             receipt == hand.receipts[k]
             outcome == IF receipt.reply = reply THEN receipt.result ELSE "superseded"
             t == HandTold(c, outcome)
  <2>1. hcalls' = hcalls /\ bots' = [TellClient(c, outcome) EXCEPT !.replies = @ + 1]
    BY <1>5 DEF HandoffReply
  <2>2. k \in DOMAIN hand.receipts /\ receipt.id = id
    BY <1>5 DEF ReceiptsOf
  <2> HIDE DEF c, k, outcome
  <2>3. /\ BotFields \subseteq DOMAIN TellClient(c, outcome) /\ TellClient(c, outcome).offers = bots.offers
        /\ TellClient(c, outcome).reached = bots.reached /\ TellClient(c, outcome).told = bots.told \cup {t}
        /\ t.reply = reply /\ t.id = id /\ t.outcome = outcome
        /\ t.late => outcome = "superseded" /\ \E i \in DOMAIN bots.reached : bots.reached[i] = <<id, reply>>
    BY <1>3, TellIs DEF HandIInv
  <2> HIDE DEF t
  <2>4. BotFields \subseteq DOMAIN bots' /\ bots'.offers = bots.offers /\ bots'.reached = bots.reached /\ bots'.told = bots.told \cup {t}
    BY <2>1, <2>3 DEF BotFields
  <2>5. GotThrough(id, reply, outcome)
    <3>1. GotThrough(receipt.id, receipt.reply, receipt.result)
      BY <2>2 DEF HandIInv
    <3> QED
      BY <2>2, <3>1 DEF GotThrough, outcome
  <2>6. ~t.late
    <3> SUFFICES ASSUME t.late PROVE FALSE
      OBVIOUS
    <3>1. PICK i \in DOMAIN bots.reached : bots.reached[i] = <<id, reply>>
      BY <2>3
    <3>2. bots.reached[i][1] = id /\ bots.reached[i][2] = reply
      BY <3>1
    <3>3. receipt.reply = reply /\ receipt.result # "superseded"
      BY <2>2, <3>2 DEF HandIInv, ReachedHolds
    <3> QED
      BY <2>3, <3>3 DEF outcome
  <2> QED
    BY <1>1, <2>1, <2>3, <2>4, <2>5, <2>6, HandCallsHold DEF HandIInv, HandTyped
<1> QED
  BY <1>4, <1>5

\* What is offered is of this run and of the revision the call saw, is not
\* what was answered, and is a request if there is one.
LEMMA PendingIs ==
    ASSUME HandTyped, ReqsHold, NEW c, HandCallTyped(c), PendingOffer(c.view) # NoOffer
    PROVE  LET id == PendingOffer(c.view)
           IN  /\ id \in Ids /\ id # hand.suppressed /\ id[1] = talk.run /\ id[2] = c.view.rev
               /\ talk.reqs = <<>> => OfMessage(id, c.view) /\ id[3] = "message" /\ id[4] = c.view.msg
               /\ talk.reqs # <<>> => id[3] = "request" /\ id[4] <= talk.asked
<1>1. talk.run \in Nat /\ c.view.rev \in Nat /\ c.view.msg \in Nat
  BY DEF HandTyped, HandCallTyped
<1>2. CASE talk.reqs = <<>>
  <2> DEFINE id == Offer(talk.run, c.view.rev, "message", c.view.msg)
  <2>1. PendingOffer(c.view) = id /\ id # hand.suppressed
    BY <1>2 DEF PendingOffer
  <2>2. id \in Ids /\ id[1] = talk.run /\ id[2] = c.view.rev /\ id[3] = "message" /\ id[4] = c.view.msg
    BY <1>1 DEF Ids, Offer
  <2>3. OfMessage(id, c.view)
    BY DEF OfMessage
  <2> HIDE DEF id
  <2> QED
    BY <1>2, <2>1, <2>2, <2>3
<1>3. CASE talk.reqs # <<>>
  <2> DEFINE n == OldestRequest
             id == Offer(talk.run, c.view.rev, "request", n)
  <2>1. PendingOffer(c.view) = id /\ id # hand.suppressed
    BY <1>3 DEF PendingOffer
  <2>2. n \in Nat /\ n <= talk.asked
    <3>1. talk.reqs \in Seq(Reqs) /\ 1 \in DOMAIN talk.reqs /\ n = talk.reqs[1].n
      BY <1>3 DEF HandTyped, OldestRequest
    <3>2. talk.reqs[1] \in Reqs
      BY <3>1
    <3> QED
      BY <3>1, <3>2 DEF Reqs, ReqsHold
  <2> HIDE DEF n
  <2>3. id \in Ids /\ id[1] = talk.run /\ id[2] = c.view.rev /\ id[3] = "request" /\ id[4] = n
    BY <1>1, <2>2 DEF Ids, Offer
  <2> HIDE DEF id
  <2> QED
    BY <1>3, <2>1, <2>2, <2>3
<1> QED
  BY <1>2, <1>3

\* What a reply finds offered was not reached, and what was reached is not of
\* the revision it saw.
LEMMA FindsUnreached ==
    ASSUME HandIInv, NEW c \in hcalls, c.op = "reply", c.step = "view", PendingOffer(c.view) = c.id, c.id # NoOffer,
           NEW i \in DOMAIN bots.reached
    PROVE  /\ bots.reached[i][1] # c.id
           /\ c.id[3] = "message" => ~(bots.reached[i][1][1] = talk.run /\ bots.reached[i][1][2] = talk.rev)
<1> DEFINE e == bots.reached[i][1]
<1>1. HandTyped /\ ReqsHold /\ HandCallTyped(c) /\ ViewHolds(c) /\ LookHolds(c) /\ ReachedHolds(bots.reached[i])
  BY DEF HandIInv, HandTyped, HandCallHolds, Locks
<1>2. /\ c.id \in Ids /\ c.id # hand.suppressed /\ c.id[1] = talk.run /\ c.id[2] = c.view.rev
      /\ talk.reqs = <<>> => OfMessage(c.id, c.view)
      /\ talk.reqs # <<>> => c.id[3] = "request"
  BY <1>1, PendingIs
<1>3. e[1] = talk.run /\ e[2] = c.view.rev => OfMessage(e, c.view) /\ hand.suppressed = e
  BY <1>1 DEF LookHolds
<1>4. e # c.id
  BY <1>2, <1>3
<1>5. ASSUME c.id[3] = "message", e[1] = talk.run, e[2] = talk.rev PROVE FALSE
  <2>1. c.view.rev = talk.rev
    <3>1. e[2] <= c.view.rev /\ c.view.rev <= talk.rev
      BY <1>1, <1>5 DEF ViewHolds
    <3> QED
      <4>1. c.view.rev \in Nat /\ talk.rev \in Nat
        BY <1>1 DEF HandTyped, HandCallTyped
      <4> QED
        BY <1>5, <3>1, <4>1
  <2>2. OfMessage(e, c.view) /\ OfMessage(c.id, c.view)
    BY <1>2, <1>3, <1>5, <2>1
  <2> QED
    BY <1>4, <2>2 DEF OfMessage
<1> QED
  BY <1>4, <1>5

\* What a call has recorded: the receipt it made, beside some of the old.
RecordingShown(id, reply, result) ==
    /\ hand' \in [suppressed : Ids \cup {NoOffer}, receipts : Seq(Receipts)]
    /\ \A k \in DOMAIN hand'.receipts : \/ hand'.receipts[k].id = id /\ hand'.receipts[k].reply = reply /\ hand'.receipts[k].result = result
                                        \/ \E j \in DOMAIN hand.receipts : hand'.receipts[k] = hand.receipts[j]
LEMMA RecordingIs ==
    ASSUME HandTyped, NEW id \in Ids, NEW reply \in Nat, NEW result \in Results, hand' = Recorded(hand, id, reply, result)
    PROVE  RecordingShown(id, reply, result)
<1>1. RecordedShown(hand', id, reply, result)
  BY RecordedIs
<1> QED
  BY <1>1 DEF RecordedShown, RecordingShown

\* The receipt of the offer is the one that was recorded.
LEMMA RecordedNew ==
    ASSUME HandTyped, NEW id \in Ids, NEW reply \in Nat, NEW result \in Results
    PROVE  \A k \in DOMAIN Recorded(hand, id, reply, result).receipts :
               Recorded(hand, id, reply, result).receipts[k].id = id =>
                   Recorded(hand, id, reply, result).receipts[k].reply = reply /\ Recorded(hand, id, reply, result).receipts[k].result = result
<1>1. PICK h : h = Recorded(hand, id, reply, result)
  OBVIOUS
<1>2. RecordedShown(h, id, reply, result)
  BY <1>1, RecordedIs
<1>3. \A k \in DOMAIN h.receipts : h.receipts[k].id = id => h.receipts[k].reply = reply /\ h.receipts[k].result = result
  BY <1>2 DEF RecordedShown
<1> QED
  BY <1>1, <1>3

\* What is recorded is not offered again.
LEMMA RecordedSuppresses ==
    ASSUME HandTyped, NEW id \in Ids, NEW reply \in Nat, NEW result \in Results
    PROVE  Recorded(hand, id, reply, result).suppressed = id
  BY DEF Recorded

\* The receipts that record leaves are the new one and some of the old.
LEMMA RecordedKeeps ==
    ASSUME HandTyped, NEW id \in Ids, NEW reply \in Nat, NEW result \in Results
    PROVE  \A k \in DOMAIN Recorded(hand, id, reply, result).receipts :
               \/ Recorded(hand, id, reply, result).receipts[k].id = id
               \/ \E j \in DOMAIN hand.receipts : Recorded(hand, id, reply, result).receipts[k] = hand.receipts[j]
<1>1. PICK h : h = Recorded(hand, id, reply, result)
  OBVIOUS
<1>2. RecordedShown(h, id, reply, result)
  BY <1>1, RecordedIs
<1>3. \A k \in DOMAIN h.receipts : h.receipts[k].id = id \/ \E j \in DOMAIN hand.receipts : h.receipts[k] = hand.receipts[j]
  BY <1>2 DEF RecordedShown
<1> QED
  BY <1>1, <1>3

\* A receipt that is recorded for a reply whose offer none reached is not of
\* what was reached.
LEMMA RecordKeepsReached ==
    ASSUME HandTyped, NEW id \in Ids, NEW reply \in Nat, NEW result \in Results, hand' = Recorded(hand, id, reply, result),
           NEW e \in Ids \X Nat, ReachedHolds(e), e[1] # id
    PROVE  \A k \in DOMAIN hand'.receipts : hand'.receipts[k].id = e[1] => hand'.receipts[k].reply = e[2] /\ hand'.receipts[k].result # "superseded"
<1>1. \A k \in DOMAIN hand'.receipts : hand'.receipts[k].id = id \/ \E j \in DOMAIN hand.receipts : hand'.receipts[k] = hand.receipts[j]
  BY RecordedKeeps
<1> QED
  BY <1>1 DEF ReachedHolds

\* pendingHandoff, for GET /handoff, a reply and a message.
LEMMA HandoffPendsHolds ==
    ASSUME HandIInv, NEW c \in hcalls, HandoffPends(c)
    PROVE  HandIInv'
<1> DEFINE pending == PendingOffer(c.view)
<1>0. PICK d : d = [c EXCEPT !.step = "send", !.pending = pending]
  OBVIOUS
<1>1. UNCHANGED talk /\ c.step = "view" /\ HandTyped /\ ReqsHold /\ HandCallTyped(c) /\ HandCallHolds(c)
  BY DEF HandoffPends, HandIInv, HandTyped
<1>2. pending # NoOffer =>
          /\ pending \in Ids /\ pending[1] = talk.run /\ pending[2] = c.view.rev
          /\ talk.reqs = <<>> => pending[3] = "message" /\ pending[4] = c.view.msg
          /\ talk.reqs # <<>> => pending[3] = "request" /\ pending[4] <= talk.asked
  BY <1>1, PendingIs
<1>3. /\ HandCallTyped(d) /\ Locks(d) = Locks(c) /\ d.op = c.op /\ d.step = "send" /\ d.id = c.id /\ d.view = c.view /\ d.pending = pending
      /\ d.reply = c.reply
  <2>1. HandCallFields \subseteq DOMAIN c
    BY <1>1 DEF HandCallTyped
  <2> HIDE DEF pending
  <2>2. /\ DOMAIN d = DOMAIN c /\ d.op = c.op /\ d.step = "send" /\ d.id = c.id /\ d.view = c.view /\ d.pending = pending /\ d.reply = c.reply
    BY <1>0, <2>1 DEF HandCallFields
  <2> QED
    BY <1>1, <1>2, <2>2 DEF HandCallTyped, Locks
<1>4. CASE c.op = "get"
  <2>1. hcalls' = hcalls \ {c} /\ UNCHANGED hand /\ bots' = IF pending = NoOffer THEN bots ELSE [bots EXCEPT !.offers = @ \cup {pending}]
    BY <1>4 DEF HandoffPends
  <2> HIDE DEF pending
  <2>2. /\ BotFields \subseteq DOMAIN bots' /\ bots'.offers \subseteq Ids /\ bots'.reached = bots.reached /\ bots'.told = bots.told
    BY <1>1, <1>2, <2>1 DEF HandTyped, BotFields
  <2> QED
    BY <1>1, <2>1, <2>2, HandCallsHold DEF HandIInv, HandTyped
<1>5. CASE c.op = "reply" /\ (pending = NoOffer \/ pending # c.id)
  <2>1. hcalls' = hcalls \ {c} /\ UNCHANGED hand /\ bots' = TellClient(c, "superseded")
    BY <1>5 DEF HandoffPends
  <2>2. ReceiptsOf(c.id) = {}
    BY <1>1, <1>5 DEF HandCallHolds, LookHolds
  <2> DEFINE t == HandTold(c, "superseded")
  <2>3. /\ BotFields \subseteq DOMAIN bots' /\ bots'.offers = bots.offers /\ bots'.reached = bots.reached /\ bots'.told = bots.told \cup {t}
        /\ t.outcome = "superseded" /\ ~t.late
    BY <1>1, <2>1, <2>2, TellIs
  <2> HIDE DEF t
  <2> QED
    BY <1>1, <2>1, <2>3, HandCallsHold DEF HandIInv, HandTyped, GotThrough
<1>6. CASE c.op = "reply" /\ pending # NoOffer /\ pending = c.id
  <2>1. /\ hcalls' = (hcalls \ {c}) \cup {d} /\ UNCHANGED bots
        /\ hand' = IF pending[3] = "message" THEN Recorded(hand, c.id, c.reply, "uncertain") ELSE hand
    BY <1>0, <1>6 DEF HandoffPends, CallGoes
  <2>2. \A i \in DOMAIN bots.reached : /\ bots.reached[i][1] # c.id
                                       /\ c.id[3] = "message" => ~(bots.reached[i][1][1] = talk.run /\ bots.reached[i][1][2] = talk.rev)
    BY <1>1, <1>6, FindsUnreached
  <2>3. FoundHolds(d) /\ ViewHolds(d)
    <3>1. ViewHolds(c)
      BY <1>1, <1>6 DEF HandCallHolds, Locks
    <3> QED
      BY <1>2, <1>3, <1>6, <2>2, <3>1 DEF FoundHolds, ViewHolds
  <2> HIDE DEF pending
  <2>4. HandCallHolds(d)
    BY <1>3, <1>6, <2>3 DEF HandCallHolds
  <2>5. Locks(c) /\ \A e \in hcalls' : e = d \/ (e \in hcalls /\ ~Locks(e))
    BY <1>6, <2>1 DEF Locks, HandIInv
  <2>6. CASE c.id[3] # "message"
    BY <1>1, <1>3, <1>6, <2>1, <2>4, <2>5, <2>6, HandCallsHold DEF HandIInv, HandTyped
  <2>7. CASE c.id[3] = "message"
    <3>1. hand' = Recorded(hand, c.id, c.reply, "uncertain") /\ c.id \in Ids /\ c.reply \in Nat /\ "uncertain" \in Results
      BY <1>1, <1>2, <1>6, <2>1, <2>7 DEF HandCallTyped, Results
    <3>2. /\ hand' \in [suppressed : Ids \cup {NoOffer}, receipts : Seq(Receipts)]
          /\ \A k \in DOMAIN hand'.receipts : hand'.receipts[k].result = "uncertain" \/ \E j \in DOMAIN hand.receipts : hand'.receipts[k] = hand.receipts[j]
      <4>1. RecordingShown(c.id, c.reply, "uncertain")
        BY <1>1, <3>1, RecordingIs
      <4> QED
        BY <4>1 DEF RecordingShown
    <3>3. HandTyped'
      BY <1>1, <1>3, <2>1, <3>2 DEF HandTyped
    <3>4. ReqsHold' /\ ReachedOnce'
      BY <1>1, <2>1 DEF HandIInv, ReqsHold, ReachedOnce
    <3>5. ASSUME NEW i \in DOMAIN bots.reached PROVE ReachedHolds(bots.reached[i])'
      <4> DEFINE e == bots.reached[i]
      <4>1. ReachedHolds(e) /\ e \in Ids \X Nat /\ e[1] # c.id /\ ~(e[1][1] = talk.run /\ e[1][2] = talk.rev)
        BY <1>1, <2>2, <2>7 DEF HandIInv, HandTyped
      <4>2. UNCHANGED e
        BY <2>1
      <4> HIDE DEF e
      <4>3. \A k \in DOMAIN hand'.receipts : hand'.receipts[k].id = e[1] => hand'.receipts[k].reply = e[2] /\ hand'.receipts[k].result # "superseded"
        BY <1>1, <3>1, <4>1, RecordKeepsReached
      <4>4. ReachedHolds(e)'
        BY <1>1, <4>1, <4>2, <4>3 DEF ReachedHolds
      <4> QED
        BY <4>4 DEF e
    <3>6. \A k \in DOMAIN hand'.receipts : GotThrough(hand.receipts[k].id, hand.receipts[k].reply, hand.receipts[k].result)'
      BY <2>1, <3>2 DEF HandIInv, GotThrough
    <3>7. \A x \in hcalls' : HandCallHolds(x)'
      <4>1. HandCallHolds(d)'
        BY <1>1, <1>3, <2>1, <2>3, <2>4 DEF HandCallHolds, ViewHolds, FoundHolds
      <4> QED
        BY <2>5, <4>1 DEF HandCallHolds, Locks
    <3>8. \A t \in bots'.told : ~t.late /\ GotThrough(t.id, t.reply, t.outcome)'
      BY <2>1 DEF HandIInv, GotThrough
    <3> QED
      BY <2>1, <2>5, <3>3, <3>4, <3>5, <3>6, <3>7, <3>8 DEF HandIInv
  <2> QED
    BY <2>6, <2>7
<1>7. CASE c.op = "post"
  <2>1. hcalls' = (hcalls \ {c}) \cup {d} /\ UNCHANGED <<hand, bots>>
    BY <1>0, <1>7 DEF HandoffPends, CallGoes
  <2>2. HandCallHolds(d)
    BY <1>1, <1>3, <1>7 DEF HandCallHolds, ViewHolds, Locks
  <2>3. Locks(c) /\ \A e \in hcalls' : e = d \/ (e \in hcalls /\ ~Locks(e))
    BY <1>7, <2>1 DEF Locks, HandIInv
  <2> QED
    BY <1>1, <1>3, <2>1, <2>2, <2>3, HandCallsHold DEF HandIInv, HandTyped
<1> QED
  BY <1>4, <1>5, <1>6, <1>7 DEF HandoffPends

-----------------------------------------------------------------------------
\* What a message that is sent changes of the conversation.
LEMMA SentGoes ==
    ASSUME HandTyped, ReqsHold, NEW how, talk' = MessageSent(how)
    PROVE  /\ TalkGoes /\ talk'.reqs = talk.reqs
           /\ how = "queued" => talk'.rev = talk.rev /\ talk'.msg = talk.msg
           /\ how # "queued" => talk.rev < talk'.rev
<1>1. /\ TalkFields \subseteq DOMAIN talk' /\ talk'.run = talk.run /\ talk'.asked = talk.asked /\ talk'.reqs = talk.reqs
      /\ talk'.msg \in {0, talk.msg}
      /\ how = "queued" => talk'.rev = talk.rev /\ talk'.msg = talk.msg
      /\ how # "queued" => talk'.rev = talk.rev + 1 \/ talk'.rev = talk.rev + 2
  <2>1. TalkFields \subseteq DOMAIN talk
    BY DEF HandTyped
  <2>2. CASE how = "queued"
    BY <2>1, <2>2 DEF MessageSent, TalkFields
  <2>3. CASE how = "refused"
    BY <2>1, <2>3 DEF MessageSent, TalkFields
  <2>4. CASE how # "queued" /\ how # "refused"
    BY <2>1, <2>4 DEF MessageSent, TalkFields
  <2> QED
    BY <2>2, <2>3, <2>4
<1>2. talk.rev \in Nat /\ talk.msg \in Nat /\ talk.asked \in Nat /\ talk.reqs \in Seq(Reqs)
  BY DEF HandTyped
<1>3. ReqsHold'
  BY <1>1 DEF ReqsHold
<1> QED
  BY <1>1, <1>2, <1>3 DEF TalkGoes

\* The reply of the call c is recorded, and reaches the agent or not, and the
\* conversation goes on.
HandAnswered(c, how, result) ==
    /\ hand' = Recorded(hand, c.id, c.reply, result) /\ result \in Results
    /\ BotFields \subseteq DOMAIN bots' /\ bots'.offers = bots.offers
    /\ bots'.told = bots.told \cup {HandTold(c, result)}
    /\ bots'.reached = IF how = "none" THEN bots.reached ELSE Append(bots.reached, <<c.id, c.reply>>)
    /\ hcalls' = hcalls \ {c}

\* Whatever it answers, what it recorded and told is so, if the reply that
\* reached the agent is the one of its offer.
LEMMA AnsweredHolds ==
    ASSUME HandIInv, NEW c \in hcalls, FoundHolds(c), c.op = "reply", NEW how, NEW result, HandAnswered(c, how, result), TalkGoes,
           result \in {"applied", "queued"} => how # "none",
           result = "superseded" => how = "none",
           \A i \in DOMAIN bots.reached : ~(bots.reached[i][1][1] = talk'.run /\ bots.reached[i][1][2] = talk'.rev),
           how # "none" => ReachedHolds(<<c.id, c.reply>>)' /\ \A i \in DOMAIN bots.reached :
                    bots.reached[i][1][3] = "request" /\ c.id[3] = "request" => <<bots.reached[i][1][1], bots.reached[i][1][4]>> # <<c.id[1], c.id[4]>>
    PROVE  HandIInv'
<1> DEFINE t == HandTold(c, result)
           e == <<c.id, c.reply>>
<1>1. HandTyped /\ HandCallTyped(c) /\ c.id \in Ids /\ c.reply \in Nat /\ result \in Results
  BY DEF HandIInv, HandTyped, HandCallTyped, FoundHolds, HandAnswered
<1>2. e \in Ids \X Nat /\ e[1] = c.id /\ e[2] = c.reply
  BY <1>1
<1>3. /\ hand' \in [suppressed : Ids \cup {NoOffer}, receipts : Seq(Receipts)]
      /\ \A k \in DOMAIN hand'.receipts : \/ hand'.receipts[k].id = c.id /\ hand'.receipts[k].reply = c.reply /\ hand'.receipts[k].result = result
                                          \/ \E j \in DOMAIN hand.receipts : hand'.receipts[k] = hand.receipts[j]
  <2>1. hand' = Recorded(hand, c.id, c.reply, result)
    BY DEF HandAnswered
  <2>2. RecordingShown(c.id, c.reply, result)
    BY <1>1, <2>1, RecordingIs
  <2> QED
    BY <2>2 DEF RecordingShown
<1>4. t.reply = c.reply /\ t.id = c.id /\ t.outcome = result /\ ~t.late
  <2>1. /\ t.reply = c.reply /\ t.id = c.id /\ t.outcome = result
        /\ t.late => \E i \in DOMAIN bots.reached : bots.reached[i] = e
    <3>1. HandTold(c, result).late => \E i \in DOMAIN bots.reached : bots.reached[i] = <<c.id, c.reply>>
      BY <1>1, TellIs
    <3>2. HandTold(c, result).reply = c.reply /\ HandTold(c, result).id = c.id /\ HandTold(c, result).outcome = result
      BY <1>1, TellIs
    <3> QED
      BY <3>1, <3>2
  <2>2. \A i \in DOMAIN bots.reached : bots.reached[i] # e
    BY <1>2 DEF FoundHolds
  <2> QED
    BY <2>1, <2>2
<1> HIDE DEF t
<1>5. bots.reached \in Seq(Ids \X Nat)
  BY <1>1 DEF HandTyped
<1>6. /\ bots'.reached \in Seq(Ids \X Nat) /\ DOMAIN bots.reached \subseteq DOMAIN bots'.reached
      /\ \A i \in DOMAIN bots.reached : bots'.reached[i] = bots.reached[i]
      /\ \A i \in DOMAIN bots'.reached : i \in DOMAIN bots.reached \/ (how # "none" /\ i = Len(bots.reached) + 1 /\ bots'.reached[i] = e)
      /\ how # "none" => \E i \in DOMAIN bots'.reached : bots'.reached[i] = e
  <2>1. CASE how = "none"
    BY <1>5, <2>1 DEF HandAnswered
  <2>2. CASE how # "none"
    <3>1. bots'.reached = Append(bots.reached, e)
      BY <2>2 DEF HandAnswered
    <3> HIDE DEF e
    <3>2. Len(bots.reached) \in Nat /\ DOMAIN bots.reached = 1 .. Len(bots.reached)
      BY <1>5
    <3>3. /\ bots'.reached \in Seq(Ids \X Nat) /\ DOMAIN bots'.reached = 1 .. Len(bots.reached) + 1
          /\ \A i \in 1 .. Len(bots.reached) + 1 : bots'.reached[i] = IF i <= Len(bots.reached) THEN bots.reached[i] ELSE e
      BY <1>2, <1>5, <3>1, <3>2
    <3>4. \A i \in DOMAIN bots'.reached : i \in DOMAIN bots.reached \/ (i = Len(bots.reached) + 1 /\ bots'.reached[i] = e)
      BY <3>2, <3>3
    <3>5. Len(bots.reached) + 1 \in DOMAIN bots'.reached /\ bots'.reached[Len(bots.reached) + 1] = e
      BY <3>2, <3>3
    <3>6. DOMAIN bots.reached \subseteq DOMAIN bots'.reached /\ \A i \in DOMAIN bots.reached : bots'.reached[i] = bots.reached[i]
      <4> SUFFICES ASSUME NEW i \in DOMAIN bots.reached PROVE i \in DOMAIN bots'.reached /\ bots'.reached[i] = bots.reached[i]
        OBVIOUS
      <4>1. i \in 1 .. Len(bots.reached) + 1 /\ i <= Len(bots.reached)
        BY <3>2
      <4> QED
        BY <3>3, <4>1
    <3> QED
      BY <2>2, <3>3, <3>4, <3>5, <3>6
  <2> QED
    BY <2>1, <2>2
<1> HIDE DEF e
<1>7. HandTyped'
  BY <1>1, <1>3, <1>6 DEF HandIInv, HandTyped, TalkGoes, HandAnswered
<1>8. ReqsHold'
  BY DEF TalkGoes
<1>9. ReachedOnce'
  <2> SUFFICES ASSUME NEW i \in DOMAIN bots'.reached, NEW j \in DOMAIN bots'.reached, i # j
               PROVE  Differ(bots'.reached[i], bots'.reached[j])
    BY DEF ReachedOnce, Differ
  <2>0. ASSUME NEW x \in DOMAIN bots.reached, how # "none" PROVE Differ(e, bots.reached[x]) /\ Differ(bots.reached[x], e)
    BY <1>2, <2>0 DEF FoundHolds, Differ
  <2>1. CASE i \in DOMAIN bots.reached /\ j \in DOMAIN bots.reached
    BY <1>6, <2>1 DEF HandIInv, ReachedOnce
  <2>2. CASE ~(i \in DOMAIN bots.reached) /\ j \in DOMAIN bots.reached
    BY <1>6, <2>0, <2>2
  <2>3. CASE i \in DOMAIN bots.reached /\ ~(j \in DOMAIN bots.reached)
    BY <1>6, <2>0, <2>3
  <2>4. CASE ~(i \in DOMAIN bots.reached) /\ ~(j \in DOMAIN bots.reached)
    BY <1>6, <2>4
  <2> QED
    BY <2>1, <2>2, <2>3, <2>4
<1>10. ASSUME NEW i \in DOMAIN bots'.reached PROVE ReachedHolds(bots.reached[i])'
  <2>1. CASE i \in DOMAIN bots.reached
    <3> DEFINE x == bots.reached[i]
    <3>1. ReachedHolds(x) /\ x \in Ids \X Nat /\ x[1] # c.id /\ ~(x[1][1] = talk'.run /\ x[1][2] = talk'.rev)
      BY <1>5, <2>1 DEF HandIInv, FoundHolds
    <3>2. bots'.reached[i] = x
      BY <1>6, <2>1
    <3> HIDE DEF x
    <3> SUFFICES ASSUME NEW y, y = x PROVE ReachedHolds(y)'
      BY <3>2
    <3>3. ReachedHolds(y) /\ y \in Ids \X Nat /\ y[1] # c.id /\ ~(y[1][1] = talk'.run /\ y[1][2] = talk'.rev)
      BY <3>1
    <3>4. \A k \in DOMAIN hand'.receipts : hand'.receipts[k].id = y[1] => hand'.receipts[k].reply = y[2] /\ hand'.receipts[k].result # "superseded"
      BY <1>3, <3>3 DEF ReachedHolds
    <3> QED
      BY <1>1, <3>3, <3>4, GoesOnReached
  <2>2. CASE ~(i \in DOMAIN bots.reached)
    <3>1. how # "none" /\ bots'.reached[i] = e
      BY <1>6, <2>2
    <3>2. ReachedHolds(e)'
      BY <3>1 DEF e
    <3> QED
      BY <3>1, <3>2 DEF ReachedHolds, OfMessage, e
  <2> QED
    BY <2>1, <2>2
<1>11. \A x \in hcalls' : x \in hcalls /\ HandCallHolds(x)'
  <2>1. Locks(c)
    BY DEF Locks
  <2>2. \A x \in hcalls' : x \in hcalls /\ ~Locks(x)
    BY <2>1 DEF HandIInv, HandAnswered
  <2> QED
    BY <2>2 DEF HandCallHolds, Locks
<1>12. result \in {"applied", "queued"} => e \in Range(bots'.reached)
  BY <1>6 DEF Range
<1>13. Range(bots.reached) \subseteq Range(bots'.reached)
  BY <1>6 DEF Range
<1>14. \A k \in DOMAIN hand'.receipts : GotThrough(hand.receipts[k].id, hand.receipts[k].reply, hand.receipts[k].result)'
  BY <1>3, <1>12, <1>13 DEF HandIInv, GotThrough, e
<1>15. \A x \in bots'.told : ~x.late /\ GotThrough(x.id, x.reply, x.outcome)'
  <2>1. \A x \in bots'.told : x \in bots.told \/ x = t
    BY DEF HandAnswered, t
  <2> QED
    BY <1>4, <1>12, <1>13, <2>1 DEF HandIInv, GotThrough, e
<1> QED
  BY <1>7, <1>8, <1>9, <1>10, <1>11, <1>14, <1>15 DEF HandIInv

\* What a reply found, while it sends it.
LEMMA SendsFound ==
    ASSUME HandIInv, NEW c \in hcalls, c.op = "reply", c.step = "send"
    PROVE  /\ HandTyped /\ ReqsHold /\ HandCallTyped(c) /\ FoundHolds(c) /\ c.pending = c.id /\ c.id \in Ids /\ c.id = Offer(c.id[1], c.id[2], c.id[3], c.id[4])
           /\ c.view.rev <= talk.rev /\ (c.view.rev = talk.rev => c.view.msg = talk.msg)
           /\ \A i \in DOMAIN bots.reached : bots.reached[i][1][1] = talk.run /\ bots.reached[i][1][2] = talk.rev => c.view.rev = talk.rev
           /\ talk.rev \in Nat /\ talk.run \in Nat /\ c.view.rev \in Nat
<1>1. HandTyped /\ ReqsHold /\ HandCallTyped(c) /\ FoundHolds(c) /\ ViewHolds(c)
  BY DEF HandIInv, HandTyped, HandCallHolds, Locks
<1>2. c.pending = c.id /\ c.id \in Ids
  BY <1>1 DEF FoundHolds, HandCallTyped
<1>3. talk.rev \in Nat /\ talk.run \in Nat /\ c.view.rev \in Nat
  BY <1>1 DEF HandTyped, HandCallTyped
<1>4. ASSUME NEW i \in DOMAIN bots.reached, bots.reached[i][1][1] = talk.run, bots.reached[i][1][2] = talk.rev PROVE c.view.rev = talk.rev
  BY <1>1, <1>3, <1>4 DEF ViewHolds
<1> QED
  BY <1>1, <1>2, <1>3, <1>4, IdIs DEF ViewHolds

\* What clients know once a reply ended.
LEMMA RepliesTell ==
    ASSUME HandIInv, NEW c \in hcalls, NEW how, NEW result, bots' = Reached(TellClient(c, result), c, how)
    PROVE  /\ BotFields \subseteq DOMAIN bots' /\ bots'.offers = bots.offers
           /\ bots'.told = bots.told \cup {HandTold(c, result)}
           /\ bots'.reached = IF how = "refused" THEN bots.reached ELSE Append(bots.reached, <<c.id, c.reply>>)
<1> DEFINE b == TellClient(c, result)
<1>1. BotFields \subseteq DOMAIN b /\ b.offers = bots.offers /\ b.reached = bots.reached /\ b.told = bots.told \cup {HandTold(c, result)}
  BY TellIs DEF HandIInv
<1>2. bots' = IF how = "refused" THEN b ELSE [b EXCEPT !.reached = Append(@, <<c.id, c.reply>>)]
  BY DEF Reached
<1> HIDE DEF b
<1>3. CASE how = "refused"
  BY <1>1, <1>2, <1>3
<1>4. CASE how # "refused"
  BY <1>1, <1>2, <1>4 DEF BotFields
<1> QED
  BY <1>3, <1>4

\* A reply to the message is sent.
LEMMA HandoffSendsHolds ==
    ASSUME HandIInv, NEW c \in hcalls, NEW how, HandoffSends(c, how)
    PROVE  HandIInv'
<1> DEFINE result == IF how \in {"queued", "applied"} THEN how ELSE "uncertain"
           reaches == IF how = "refused" THEN "none" ELSE how
<1>1. /\ talk' = MessageSent(how) /\ hand' = Recorded(hand, c.id, c.reply, result) /\ bots' = Reached(TellClient(c, result), c, how)
      /\ hcalls' = hcalls \ {c} /\ c.op = "reply" /\ c.step = "send" /\ c.pending[3] = "message" /\ how # "none"
  BY DEF HandoffSends, Outcomes
<1>2. /\ HandTyped /\ ReqsHold /\ HandCallTyped(c) /\ FoundHolds(c) /\ c.pending = c.id /\ c.id \in Ids
      /\ c.id = Offer(c.id[1], c.id[2], c.id[3], c.id[4])
      /\ c.view.rev <= talk.rev /\ (c.view.rev = talk.rev => c.view.msg = talk.msg)
      /\ \A i \in DOMAIN bots.reached : bots.reached[i][1][1] = talk.run /\ bots.reached[i][1][2] = talk.rev => c.view.rev = talk.rev
      /\ talk.rev \in Nat /\ talk.run \in Nat /\ c.view.rev \in Nat
  BY <1>1, SendsFound
<1>3. /\ TalkGoes /\ talk'.reqs = talk.reqs
      /\ how = "queued" => talk'.rev = talk.rev /\ talk'.msg = talk.msg
      /\ how # "queued" => talk.rev < talk'.rev
  BY <1>1, <1>2, SentGoes
<1>4. c.id[3] = "message" /\ c.id[1] = talk.run /\ c.id[2] = c.view.rev /\ c.id[4] = c.view.msg
  BY <1>1, <1>2 DEF FoundHolds
<1>9. c.reply \in Nat
  BY <1>2 DEF HandCallTyped
<1>5. result \in Results /\ (result \in {"applied", "queued"} => how # "refused") /\ result # "superseded"
  BY DEF Results
<1> HIDE DEF result
<1>6. HandAnswered(c, reaches, result)
  <2>1. /\ BotFields \subseteq DOMAIN bots' /\ bots'.offers = bots.offers
        /\ bots'.told = bots.told \cup {HandTold(c, result)}
        /\ bots'.reached = IF how = "refused" THEN bots.reached ELSE Append(bots.reached, <<c.id, c.reply>>)
    BY <1>1, RepliesTell
  <2> QED
    BY <1>1, <1>5, <2>1 DEF HandAnswered
<1>7. ASSUME NEW i \in DOMAIN bots.reached, bots.reached[i][1][1] = talk'.run, bots.reached[i][1][2] = talk'.rev PROVE FALSE
  <2> DEFINE e == bots.reached[i]
  <2>1. ReachedHolds(e) /\ e[1] \in Ids /\ e[1][2] \in Nat /\ e[1][1] = talk.run /\ e[1] # c.id
    BY <1>2, <1>3, <1>7, ReachedIs, IdIs DEF HandIInv, TalkGoes, FoundHolds
  <2>2. e[1][2] <= talk.rev
    BY <2>1 DEF ReachedHolds
  <2>3. how = "queued" /\ e[1][2] = talk.rev
    BY <1>2, <1>3, <1>7, <2>1, <2>2 DEF TalkGoes
  <2>4. OfMessage(e[1], talk)
    BY <2>1, <2>3 DEF ReachedHolds
  <2>5. c.view.rev = talk.rev /\ c.view.msg = talk.msg
    BY <1>2, <2>1, <2>3
  <2>6. c.id = Offer(talk.run, talk.rev, "message", talk.msg)
    BY <1>2, <1>4, <2>5
  <2> QED
    BY <2>1, <2>4, <2>6 DEF OfMessage
<1>8. reaches # "none" => ReachedHolds(<<c.id, c.reply>>)'
  <2> SUFFICES ASSUME NEW e, e = <<c.id, c.reply>> PROVE ReachedHolds(e)'
    BY DEF ReachedHolds, OfMessage
  <2>1. e[1] = c.id /\ e[2] = c.reply
    OBVIOUS
  <2>2. e[1][1] = talk'.run /\ talk'.run \in Nat /\ e[1][2] <= talk'.rev
    BY <1>2, <1>3, <1>4, <2>1 DEF TalkGoes
  <2>3. ASSUME e[1][2] = talk'.rev PROVE OfMessage(e[1], talk)' /\ hand'.suppressed = e[1] /\ talk'.reqs = <<>>
    <3>1. how = "queued" /\ c.view.rev = talk.rev
      BY <1>2, <1>3, <1>4, <2>1, <2>3 DEF TalkGoes
    <3>2. c.id = Offer(talk'.run, talk'.rev, "message", talk'.msg)
      BY <1>2, <1>3, <1>4, <3>1 DEF TalkGoes
    <3>3. talk.reqs = <<>>
      BY <1>2, <1>4, <3>1 DEF FoundHolds
    <3>4. hand'.suppressed = c.id
      BY <1>1, <1>2, <1>5, <1>9, RecordedSuppresses
    <3> QED
      BY <1>3, <2>1, <3>2, <3>3, <3>4 DEF OfMessage
  <2>4. \A k \in DOMAIN hand'.receipts : hand'.receipts[k].id = e[1] => hand'.receipts[k].reply = e[2] /\ hand'.receipts[k].result # "superseded"
    <3>1. \A k \in DOMAIN Recorded(hand, c.id, c.reply, result).receipts :
            Recorded(hand, c.id, c.reply, result).receipts[k].id = c.id =>
                Recorded(hand, c.id, c.reply, result).receipts[k].reply = c.reply /\ Recorded(hand, c.id, c.reply, result).receipts[k].result = result
      BY <1>2, <1>5, <1>9, RecordedNew
    <3> QED
      BY <1>1, <1>5, <2>1, <3>1
  <2> QED
    BY <1>4, <2>1, <2>2, <2>3, <2>4 DEF ReachedHolds
<1> QED
  BY <1>1, <1>2, <1>3, <1>4, <1>5, <1>6, <1>7, <1>8, AnsweredHolds

\* A message that is sent answers what was offered.
LEMMA MessageSendsHolds ==
    ASSUME HandIInv, NEW c \in hcalls, NEW how, MessageSends(c, how)
    PROVE  HandIInv'
<1>1. /\ talk' = MessageSent(how) /\ UNCHANGED bots /\ hcalls' = hcalls \ {c} /\ c.op = "post"
      /\ hand' = IF how = "applied" /\ c.pending # NoOffer THEN [hand EXCEPT !.suppressed = c.pending] ELSE hand
  BY DEF MessageSends
<1>2. HandTyped /\ ReqsHold /\ HandCallTyped(c)
  BY DEF HandIInv, HandTyped
<1>3. /\ TalkGoes /\ (how # "queued" => talk.rev < talk'.rev) /\ talk.rev \in Nat
  BY <1>1, <1>2, SentGoes DEF HandTyped
<1>4. hand' \in [suppressed : Ids \cup {NoOffer}, receipts : Seq(Receipts)] /\ hand'.receipts = hand.receipts
  BY <1>1, <1>2 DEF HandTyped, HandCallTyped
<1>5. HandTyped'
  BY <1>1, <1>2, <1>3, <1>4 DEF HandTyped, TalkGoes
<1>6. ASSUME NEW i \in DOMAIN bots.reached PROVE ReachedHolds(bots.reached[i])'
  <2>1. talk'.rev = talk.rev => hand'.suppressed = hand.suppressed
    BY <1>1, <1>3
  <2>2. bots.reached[i] \in Ids \X Nat /\ ReachedHolds(bots.reached[i])
    BY <1>2 DEF HandIInv, HandTyped
  <2> SUFFICES ASSUME NEW e, e = bots.reached[i] PROVE ReachedHolds(e)'
    BY <1>1
  <2> QED
    BY <1>2, <1>3, <1>4, <2>1, <2>2, TalkKeepsReached
<1>7. \A x \in hcalls' : HandCallHolds(x)'
  <2>1. \A x \in hcalls' : ~Locks(x)
    BY <1>1 DEF HandIInv, Locks
  <2> QED
    BY <2>1 DEF HandCallHolds, Locks
<1> QED
  BY <1>1, <1>3, <1>4, <1>5, <1>6, <1>7 DEF HandIInv, TalkGoes, ReachedOnce, GotThrough

\* An answer to a request that is open leaves the others as they are.
LEMMA RequestIsAnswered ==
    ASSUME HandTyped, ReqsHold, NEW n \in Nat, NEW how,
           LET at == {i \in DOMAIN talk.reqs : talk.reqs[i].n = n /\ Open(talk.reqs[i])}
           IN  talk' = [talk EXCEPT !.rev = @ + 1,
                                    !.reqs = IF how = "applied" THEN Closed(@, n)
                                             ELSE [i \in DOMAIN @ |-> IF i \in at /\ how = "unconfirmed" THEN [@[i] EXCEPT !.st = "unconfirmed"] ELSE @[i]]]
    PROVE  /\ TalkGoes /\ talk'.rev = talk.rev + 1
           /\ how \in {"applied", "unconfirmed"} => \A k \in DOMAIN talk'.reqs : talk'.reqs[k].n = n => ~Open(talk'.reqs[k])
<1> DEFINE q == talk.reqs
           at == {i \in DOMAIN q : q[i].n = n /\ Open(q[i])}
           marked == [i \in DOMAIN q |-> IF i \in at /\ how = "unconfirmed" THEN [q[i] EXCEPT !.st = "unconfirmed"] ELSE q[i]]
           new == IF how = "applied" THEN Closed(q, n) ELSE marked
<1>1. talk' = [talk EXCEPT !.rev = @ + 1, !.reqs = new]
  OBVIOUS
<1>2. q \in Seq(Reqs) /\ talk.rev \in Nat /\ talk.msg \in Nat /\ talk.asked \in Nat /\ talk.run \in Nat /\ ReqsHold
  BY DEF HandTyped
<1>3. /\ new \in Seq(Reqs)
      /\ \A k \in DOMAIN new : \E j \in DOMAIN q : q[j].n = new[k].n /\ (Open(new[k]) => Open(q[j]))
      /\ \A k, l \in DOMAIN new : k # l => new[k].n # new[l].n
      /\ how \in {"applied", "unconfirmed"} => \A k \in DOMAIN new : new[k].n = n => ~Open(new[k])
  <2>1. CASE how = "applied"
    BY <2>1, ClosedIs
  <2>2. CASE how # "applied"
    <3>1. DOMAIN q = 1 .. Len(q) /\ Len(q) \in Nat /\ \A i \in DOMAIN q : q[i] \in Reqs
      BY <1>2
    <3>2. ASSUME NEW i \in DOMAIN q
          PROVE  /\ marked[i] \in Reqs /\ marked[i].n = q[i].n /\ (Open(marked[i]) => Open(q[i]))
                 /\ how = "unconfirmed" /\ marked[i].n = n => ~Open(marked[i])
      <4>1. CASE i \in at /\ how = "unconfirmed"
        <5>1. marked[i] = [q[i] EXCEPT !.st = "unconfirmed"]
          BY <4>1
        <5> HIDE DEF marked
        <5>2. q[i] \in Reqs
          BY <3>1
        <5> QED
          BY <4>1, <5>1, <5>2 DEF Reqs, Open
      <4>2. CASE ~(i \in at /\ how = "unconfirmed")
        <5>1. marked[i] = q[i]
          BY <4>2
        <5> HIDE DEF marked
        <5> QED
          BY <3>1, <4>2, <5>1
      <4> QED
        BY <4>1, <4>2
    <3>3. DOMAIN marked = DOMAIN q
      OBVIOUS
    <3>4. marked = [i \in 1 .. Len(q) |-> marked[i]]
      BY <3>1
    <3>5. new = marked
      BY <2>2
    <3> HIDE DEF marked, new
    <3>6. marked \in Seq(Reqs)
      <4>1. marked \in [1 .. Len(q) -> Reqs]
        BY <3>1, <3>2, <3>4
      <4> QED
        BY <3>1, <4>1
    <3>7. \A k, l \in DOMAIN marked : k # l => marked[k].n # marked[l].n
      BY <3>2, <3>3 DEF ReqsHold
    <3>8. how \in {"applied", "unconfirmed"} => \A k \in DOMAIN marked : marked[k].n = n => ~Open(marked[k])
      BY <2>2, <3>2, <3>3
    <3>9. \A k \in DOMAIN marked : \E j \in DOMAIN q : q[j].n = marked[k].n /\ (Open(marked[k]) => Open(q[j]))
      BY <3>2, <3>3
    <3> QED
      BY <3>5, <3>6, <3>7, <3>8, <3>9
  <2> QED
    BY <2>1, <2>2
<1> HIDE DEF new
<1>4. /\ TalkFields \subseteq DOMAIN talk' /\ talk'.run = talk.run /\ talk'.asked = talk.asked /\ talk'.reqs = new
      /\ talk'.msg = talk.msg /\ talk'.rev = talk.rev + 1
  BY <1>1 DEF HandTyped, TalkFields
<1>5. ReqsHold'
  <2>1. ASSUME NEW k \in DOMAIN new PROVE new[k].n <= talk.asked
    BY <1>3 DEF ReqsHold
  <2> QED
    BY <1>3, <1>4, <2>1 DEF ReqsHold
<1>6. TalkGoes
  <2>1. \A k \in DOMAIN new : \E j \in DOMAIN talk.reqs : talk.reqs[j].n = new[k].n /\ (Open(new[k]) => Open(talk.reqs[j]))
    BY <1>3
  <2>2. talk'.rev \in Nat /\ talk.rev <= talk'.rev /\ talk'.rev # talk.rev /\ talk.asked <= talk.asked
    BY <1>2, <1>4
  <2>3. \A k \in DOMAIN talk'.reqs : \E j \in DOMAIN talk.reqs : talk.reqs[j].n = talk'.reqs[k].n /\ (Open(talk'.reqs[k]) => Open(talk.reqs[j]))
    BY <1>4, <2>1
  <2>4. talk'.msg \in Nat /\ talk'.asked \in Nat /\ talk.asked <= talk'.asked /\ talk'.reqs \in Seq(Reqs)
    BY <1>2, <1>3, <1>4, <2>2
  <2> QED
    BY <1>4, <1>5, <2>2, <2>3, <2>4 DEF TalkGoes
<1> QED
  BY <1>3, <1>4, <1>6

\* A reply to a request is sent.
LEMMA HandoffAnswersHolds ==
    ASSUME HandIInv, NEW c \in hcalls, NEW how, HandoffAnswers(c, how)
    PROVE  HandIInv'
<1> DEFINE n == c.pending[4]
           at == {i \in DOMAIN talk.reqs : talk.reqs[i].n = n /\ Open(talk.reqs[i])}
           result == IF at = {} THEN "superseded" ELSE IF how = "applied" THEN "applied" ELSE "uncertain"
           reaches == IF at = {} \/ how = "refused" THEN "none" ELSE how
<1>1. /\ hcalls' = hcalls \ {c} /\ c.op = "reply" /\ c.step = "send" /\ c.pending[3] = "request"
      /\ how \in {"applied", "unconfirmed", "refused", "invalid"}
  BY DEF HandoffAnswers
<1>2. /\ HandTyped /\ ReqsHold /\ HandCallTyped(c) /\ FoundHolds(c) /\ c.pending = c.id /\ c.id \in Ids
      /\ c.id = Offer(c.id[1], c.id[2], c.id[3], c.id[4])
      /\ c.view.rev <= talk.rev
      /\ \A i \in DOMAIN bots.reached : bots.reached[i][1][1] = talk.run /\ bots.reached[i][1][2] = talk.rev => c.view.rev = talk.rev
      /\ talk.rev \in Nat /\ talk.run \in Nat /\ c.view.rev \in Nat
  BY <1>1, SendsFound
<1>3. c.id[3] = "request" /\ c.id[1] = talk.run /\ c.id[2] = c.view.rev /\ c.id[4] = n /\ n \in Nat /\ n <= talk.asked /\ c.reply \in Nat
  BY <1>1, <1>2, IdIs DEF FoundHolds, HandCallTyped
<1>4. CASE how = "invalid"
  <2>1. UNCHANGED <<talk, hand>> /\ bots' = TellClient(c, "invalid")
    BY <1>4 DEF HandoffAnswers
  <2> DEFINE t == HandTold(c, "invalid")
  <2>2. /\ BotFields \subseteq DOMAIN bots' /\ bots'.offers = bots.offers /\ bots'.reached = bots.reached /\ bots'.told = bots.told \cup {t}
        /\ t.outcome = "invalid" /\ ~t.late
    BY <1>2, <2>1, TellIs
  <2> HIDE DEF t
  <2> QED
    BY <1>1, <1>2, <2>1, <2>2, HandCallsHold DEF HandIInv, HandTyped, GotThrough
<1>5. CASE how # "invalid" /\ at = {}
  <2>1. /\ UNCHANGED talk /\ hand' = Recorded(hand, c.id, c.reply, "superseded") /\ bots' = TellClient(c, "superseded")
    BY <1>5 DEF HandoffAnswers
  <2>2. HandAnswered(c, "none", "superseded")
    <3>1. "superseded" \in Results
      BY DEF Results
    <3> QED
      BY <1>1, <1>2, <2>1, <3>1, TellIs DEF HandAnswered
  <2>3. TalkGoes
    BY <1>2, <2>1 DEF TalkGoes, HandTyped, ReqsHold
  <2>4. ASSUME NEW i \in DOMAIN bots.reached, bots.reached[i][1][1] = talk'.run, bots.reached[i][1][2] = talk'.rev PROVE FALSE
    <3>1. ReachedHolds(bots.reached[i]) /\ c.view.rev = talk.rev
      BY <1>2, <2>1, <2>4 DEF HandIInv
    <3>2. talk.reqs = <<>> /\ talk.reqs # <<>>
      BY <1>2, <1>3, <2>1, <2>4, <3>1 DEF ReachedHolds, FoundHolds
    <3> QED
      BY <3>2
  <2> QED
    BY <1>1, <1>2, <2>2, <2>3, <2>4, AnsweredHolds
<1>6. CASE how # "invalid" /\ at # {}
  <2>1. /\ hand' = Recorded(hand, c.id, c.reply, result) /\ bots' = Reached(TellClient(c, result), c, how)
    BY <1>6 DEF HandoffAnswers
  <2>2. talk' = [talk EXCEPT !.rev = @ + 1,
                             !.reqs = IF how = "applied" THEN Closed(@, n)
                                      ELSE [i \in DOMAIN @ |-> IF i \in at /\ how = "unconfirmed" THEN [@[i] EXCEPT !.st = "unconfirmed"] ELSE @[i]]]
    BY <1>6 DEF HandoffAnswers
  <2> HIDE DEF n
  <2>3. /\ TalkGoes /\ talk'.rev = talk.rev + 1
        /\ how \in {"applied", "unconfirmed"} => \A k \in DOMAIN talk'.reqs : talk'.reqs[k].n = n => ~Open(talk'.reqs[k])
    BY <1>2, <1>3, <2>2, RequestIsAnswered
  <2>4. result \in Results /\ (result \in {"applied", "queued"} => how # "refused") /\ result # "superseded"
    BY <1>6 DEF Results
  <2>5. PICK r \in at : TRUE
    BY <1>6
  <2>6. r \in DOMAIN talk.reqs /\ talk.reqs[r].n = n /\ Open(talk.reqs[r])
    BY <2>5
  <2>7. reaches = "none" <=> how = "refused"
    BY <1>1, <1>6
  <2> HIDE DEF result, reaches, at
  <2>8. HandAnswered(c, reaches, result)
    <3>1. /\ BotFields \subseteq DOMAIN bots' /\ bots'.offers = bots.offers
          /\ bots'.told = bots.told \cup {HandTold(c, result)}
          /\ bots'.reached = IF how = "refused" THEN bots.reached ELSE Append(bots.reached, <<c.id, c.reply>>)
      BY <2>1, RepliesTell
    <3> QED
      BY <1>1, <2>1, <2>4, <2>7, <3>1 DEF HandAnswered
  <2>9. ASSUME NEW i \in DOMAIN bots.reached, bots.reached[i][1][1] = talk'.run, bots.reached[i][1][2] = talk'.rev PROVE FALSE
    <3>1. ReachedHolds(bots.reached[i]) /\ talk'.run = talk.run
      BY <2>3 DEF HandIInv, TalkGoes
    <3> QED
      BY <1>2, <2>3, <2>9, <3>1 DEF ReachedHolds
  <2>10. ASSUME NEW i \in DOMAIN bots.reached, bots.reached[i][1][3] = "request",
                <<bots.reached[i][1][1], bots.reached[i][1][4]>> = <<c.id[1], c.id[4]>>
         PROVE  FALSE
    BY <1>3, <2>6, <2>10 DEF HandIInv, ReachedHolds
  <2>11. reaches # "none" => ReachedHolds(<<c.id, c.reply>>)'
    <3> SUFFICES ASSUME reaches # "none", NEW e, e = <<c.id, c.reply>> PROVE ReachedHolds(e)'
      BY DEF ReachedHolds, OfMessage
    <3>1. e[1] = c.id /\ e[2] = c.reply
      OBVIOUS
    <3>2. e[1][1] = talk'.run /\ talk'.run \in Nat /\ e[1][2] <= talk'.rev /\ e[1][2] # talk'.rev /\ e[1][4] <= talk'.asked
      <4>1. talk.asked \in Nat /\ talk'.asked \in Nat /\ talk.asked <= talk'.asked /\ talk'.run = talk.run
        BY <1>2, <2>3 DEF TalkGoes, HandTyped
      <4> QED
        BY <1>2, <1>3, <2>3, <3>1, <4>1
    <3>3. \A k \in DOMAIN talk'.reqs : talk'.reqs[k].n = e[1][4] => ~Open(talk'.reqs[k])
      BY <1>1, <1>3, <1>6, <2>3, <2>7, <3>1
    <3>4. \A k \in DOMAIN hand'.receipts : hand'.receipts[k].id = e[1] => hand'.receipts[k].reply = e[2] /\ hand'.receipts[k].result # "superseded"
      <4>1. \A k \in DOMAIN Recorded(hand, c.id, c.reply, result).receipts :
              Recorded(hand, c.id, c.reply, result).receipts[k].id = c.id =>
                  Recorded(hand, c.id, c.reply, result).receipts[k].reply = c.reply /\ Recorded(hand, c.id, c.reply, result).receipts[k].result = result
        BY <1>2, <1>3, <2>4, RecordedNew
      <4> QED
        BY <2>1, <2>4, <3>1, <4>1
    <3> QED
      BY <3>2, <3>3, <3>4 DEF ReachedHolds
  <2> QED
    BY <1>1, <1>2, <2>3, <2>4, <2>7, <2>8, <2>9, <2>10, <2>11, AnsweredHolds
<1> QED
  BY <1>4, <1>5, <1>6

\* The server starts again, with a new ID.
LEMMA HandoffServerAgainHolds ==
    ASSUME HandIInv, HandoffServerAgain
    PROVE  HandIInv'
<1>1. hand' = NewHand /\ hcalls' = {} /\ UNCHANGED bots
  BY DEF HandoffServerAgain
<1>2. /\ TalkFields \subseteq DOMAIN talk' /\ talk'.run = talk.run + 1 /\ talk'.rev = 0 /\ talk'.reqs = <<>> /\ talk'.msg = talk.msg /\ talk'.asked = talk.asked
  BY DEF HandoffServerAgain, HandIInv, HandTyped, TalkFields
<1>3. HandTyped /\ talk.run \in Nat /\ talk.msg \in Nat /\ talk.asked \in Nat
  BY DEF HandIInv, HandTyped
<1>4. hand'.receipts = <<>> /\ hand' \in [suppressed : Ids \cup {NoOffer}, receipts : Seq(Receipts)] /\ DOMAIN hand'.receipts = {}
  BY <1>1 DEF NewHand
<1>5. HandTyped'
  BY <1>1, <1>2, <1>3, <1>4 DEF HandTyped
<1>6. ASSUME NEW i \in DOMAIN bots.reached PROVE ReachedHolds(bots.reached[i])'
  <2>1. ReachedHolds(bots.reached[i]) /\ bots.reached[i][1][1] \in Nat
    BY <1>3, ReachedIs, IdIs DEF HandIInv
  <2>2. bots.reached[i][1][1] <= talk.run
    BY <2>1 DEF ReachedHolds
  <2>3. bots.reached[i][1][1] <= talk'.run /\ bots.reached[i][1][1] # talk'.run
    BY <1>2, <1>3, <2>1, <2>2
  <2> QED
    BY <1>1, <1>4, <2>3 DEF ReachedHolds
<1>7. ReqsHold'
  BY <1>2 DEF ReqsHold
<1> QED
  BY <1>1, <1>4, <1>5, <1>6, <1>7 DEF HandIInv, ReachedOnce, GotThrough

\* Nothing is under way at first.
LEMMA HandoffInitHolds ==
    ASSUME HandoffInit
    PROVE  HandIInv
<1>1. /\ hand.receipts = <<>> /\ hand \in [suppressed : Ids \cup {NoOffer}, receipts : Seq(Receipts)] /\ DOMAIN hand.receipts = {}
      /\ hcalls = {} /\ TalkFields \subseteq DOMAIN talk /\ talk.run = 1 /\ talk.rev = 1 /\ talk.msg \in Nat /\ talk.asked = 0 /\ talk.reqs = <<>>
      /\ BotFields \subseteq DOMAIN bots /\ bots.offers = {} /\ bots.reached = <<>> /\ bots.told = {}
  BY DEF HandoffInit, NewHand, TalkFields, BotFields
<1> QED
  BY <1>1 DEF HandIInv, HandTyped, ReqsHold, ReachedOnce

\* A step that changes nothing of the replies.
LEMMA HandoffStutters ==
    ASSUME HandIInv, UNCHANGED handVars
    PROVE  HandIInv'
<1>1. HandTyped' /\ ReqsHold' /\ ReachedOnce'
  BY DEF HandIInv, handVars, HandTyped, ReqsHold, ReachedOnce
<1>2. \A i \in DOMAIN bots'.reached : ReachedHolds(bots.reached[i])'
  BY DEF HandIInv, handVars, ReachedHolds, OfMessage
<1>3. \A c \in hcalls' : HandCallHolds(c)'
  BY DEF HandIInv, handVars, HandCallHolds, ViewHolds, LookHolds, FoundHolds, ReceiptsOf, OfMessage
<1> QED
  BY <1>1, <1>2, <1>3 DEF HandIInv, handVars, GotThrough

\* The invariant shows that nothing is answered twice.
LEMMA HandIInvShows ==
    ASSUME HandIInv
    PROVE  RepliesGoOnce
<1>1. \A i, j \in DOMAIN bots.reached : i # j => Differ(bots.reached[i], bots.reached[j])
  BY DEF HandIInv, ReachedOnce
<1>2. \A t \in bots.told : ~t.late /\ GotThrough(t.id, t.reply, t.outcome)
  BY DEF HandIInv
<1> QED
  BY <1>1, <1>2 DEF RepliesGoOnce, Differ, GotThrough
=============================================================================
