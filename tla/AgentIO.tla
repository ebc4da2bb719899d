------------------------------ MODULE AgentIO ------------------------------
(***************************************************************************)
(* What the adapters of the agents share (lib/native/agentio), as values    *)
(* their read loops change: the throttle of the snapshots of a message that *)
(* streams, the wait for an interrupted turn to end, and how a write to the *)
(* agent's stdin and a call of the agent can end.                           *)
(*                                                                         *)
(* Messages are keys, their content is a count of the changes made to it    *)
(* (0: nothing to show yet), and a view is what the conversation was shown. *)
(***************************************************************************)
EXTENDS Integers, Sequences, FiniteSets, FiniteSetsExt, SequencesExt

(* Throttle: `recent' are the messages sent less than an interval ago,      *)
(* `held' those with a change held back.                                    *)
NewThrottle == [recent |-> {}, held |-> {}]

\* A message that is built: what it holds, what was shown of it last.
Blank(keys) == [content |-> [k \in keys |-> 0], shown |-> [k \in keys |-> 0], throttle |-> NewThrottle]

Grow(v, k) == [v EXCEPT !.content[k] = @ + 1]

\* Throttle.Send: interval or not, in place of a change held back.
Emit(v, k) ==
    IF v.content[k] = 0
    THEN [v EXCEPT !.throttle.held = @ \ {k}]
    ELSE [v EXCEPT !.shown[k] = v.content[k],
                   !.throttle = [recent |-> @.recent \union {k}, held |-> @.held \ {k}]]

\* Throttle.Changed: sent at once unless one was sent less than an interval ago.
Changed(v, k) ==
    IF k \in v.throttle.recent
    THEN [v EXCEPT !.throttle.held = @ \union {k}]
    ELSE Emit(v, k)

\* Throttle.Flush: the changes held back whose interval is over, or all.
Due(v, force) == IF force THEN v.throttle.held ELSE v.throttle.held \ v.throttle.recent
Flush(v, force) ==
    [v EXCEPT !.shown = [k \in DOMAIN @ |-> IF k \in Due(v, force) THEN v.content[k] ELSE @[k]],
              !.throttle = [recent |-> @.recent \union Due(v, force), held |-> @.held \ Due(v, force)]]

\* Throttle.Reset and Throttle.Forget, without the change held back.
ResetThrottle(v) == [v EXCEPT !.throttle = NewThrottle]
Forget(v, keys) == [v EXCEPT !.throttle = [recent |-> @.recent \ keys, held |-> @.held \ keys]]

\* The interval since message k was sent is over.
Elapse(v, k) == [v EXCEPT !.throttle.recent = @ \ {k}]

\* Everything shown is what the message holds, and nothing is held back.
Final(v) == v.shown = v.content /\ v.throttle.held = {}

(* How a write ends (Writer.Write): it went out; ctx ended before its turn   *)
(* came, so it never goes out; or ctx ended while it went out, so the agent  *)
(* may get it (native.ErrUnconfirmed).                                      *)
WriteEnds == {"written", "abandoned", "unconfirmed"}
GoesOut(end) == end # "abandoned"
=============================================================================
