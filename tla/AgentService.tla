---------------------------- MODULE AgentService ----------------------------
(***************************************************************************)
(* What a conversation promises about its agent, whatever its goroutines   *)
(* and its agents do meanwhile (Config.RestartDelays, Replacement,         *)
(* RetryLogin and the "Exits" of docs/architecture.md): one agent at a      *)
(* time, started again by itself a bounded number of times in a row, none  *)
(* once it gave up until it is replaced, and none at all once it stops.    *)
(***************************************************************************)
EXTENDS Integers

CONSTANT MaxRestarts    \* len(Config.RestartDelays)

VARIABLES
    agent,     \* starting, up, waiting (to start again), login, down, stopped
    attempts,  \* the starts after exits in a row
    asked      \* a caller waits for the agent's answer

svars == <<agent, attempts, asked>>

Init == agent = "starting" /\ attempts = 0 /\ asked = FALSE

\* The agent a caller asked for answers; if it exits before it accepts turns,
\* that is an exit like any other.
Answers ==
    /\ agent = "starting" /\ asked
    /\ asked' = FALSE
    /\ UNCHANGED <<agent, attempts>>

\* The agent accepts turns.
Starts ==
    /\ agent = "starting" /\ ~asked
    /\ agent' = "up"
    /\ UNCHANGED <<attempts, asked>>

\* A start finds no login, or the agent that lost its login exits, which may
\* be one that ran long enough to start the count over.
NeedsLogin ==
    /\ agent \in {"starting", "up"}
    /\ agent' = "login"
    /\ attempts' \in {0, attempts}
    /\ asked' = FALSE

\* The agent exits, or fails a start the conversation made by itself: the next
\* attempt, of which there are MaxRestarts.  One that ran long enough starts
\* the count over.
Fails ==
    /\ agent \in {"starting", "up"} /\ ~asked
    /\ \E n \in {0, attempts} :
          \/ n < MaxRestarts /\ agent' = "waiting" /\ attempts' = n + 1
          \/ n >= MaxRestarts /\ agent' = "down" /\ attempts' = n
    /\ UNCHANGED asked

\* A start a caller waits for fails: it isn't made again.
AskedStartFails ==
    /\ agent = "starting" /\ asked
    /\ agent' = "down" /\ asked' = FALSE
    /\ UNCHANGED attempts

\* The wait ends.
StartsAgain ==
    /\ agent \in {"waiting", "login"}
    /\ agent' = "starting"
    /\ UNCHANGED <<attempts, asked>>

\* A restart or a switch, which a caller waits for, or a check of the login of
\* a running agent, which none does.
Replace ==
    /\ agent # "stopped"
    /\ agent' = "starting" /\ attempts' = 0
    /\ \/ asked' = TRUE
       \/ agent = "up" /\ asked' = FALSE

\* AgentAPI stops.
Stops ==
    /\ agent' = "stopped"
    /\ attempts' = 0 /\ asked' = FALSE

Next ==
    \/ Answers \/ Starts \/ NeedsLogin \/ Fails \/ AskedStartFails \/ StartsAgain \/ Replace \/ Stops

Spec == Init /\ [][Next]_svars
=============================================================================
