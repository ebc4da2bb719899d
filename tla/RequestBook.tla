---------------------------- MODULE RequestBook ----------------------------
(***************************************************************************)
(* The requests of a conversation (lib/native/requests.go): what an agent   *)
(* asks the user (an approval, a plan, a question), the answer on its way   *)
(* to the agent, and what closes a request.                                 *)
(*                                                                         *)
(* Respond gives up Conversation.mu while the adapter delivers the answer;  *)
(* meanwhile the agent can withdraw the request, the turn can end and the   *)
(* agent can exit or be replaced.  A close that comes meanwhile is put off  *)
(* until the delivery ended (answer.closed).                                *)
(*                                                                         *)
(* Request IDs are numbered in the order the requests open: adapters never  *)
(* repeat one (types.go, Sink.RequestOpened).                               *)
(***************************************************************************)
EXTENDS Integers, FiniteSets

CONSTANTS
    MaxId,       \* bound: the requests the agents open
    MaxGen,      \* bound: the agents that run one after another
    MaxClosed,   \* MaxClosedRequests
    Questions    \* the requests of kind question; the others are approvals

Ids == 1 .. MaxId
Gens == 0 .. MaxGen

ASSUME RequestBookAssumption ==
    /\ MaxId \in Nat
    /\ MaxGen \in Nat
    /\ MaxClosed \in Nat
    /\ Questions \subseteq Ids

VARIABLES
    generation,   \* Conversation.generation
    adapterUp,    \* Conversation.adapter is set
    opened,       \* the requests opened so far are 1 .. opened
    owner,        \* the generation of the adapter that opened a request
    status,       \* RequestState.Status; "none" before and after it is kept
    capability,   \* RequestState.Capability
    closedAt,     \* RequestState.ClosedAt, a count of the closes so far
    clock,
    answering,    \* requestBook.answering: none, delivering or unconfirmed
    deferred,     \* answer.closed: the close put off
    delivery,     \* the Respond of a request: none, call, or the adapter's result
    reached       \* history: how often an answer may have reached the agent

book == <<opened, owner, status, capability, closedAt, clock, answering, deferred>>
vars == <<generation, adapterUp, book, delivery, reached>>

Closed == {"resolved", "withdrawn", "expired"}
NoClose == [status |-> "none", capability |-> "live"]
Closes == [status : {"none", "withdrawn", "expired"},
           capability : {"live", "message", "notResumable"}]

Init ==
    /\ generation = 0
    /\ adapterUp = FALSE
    /\ opened = 0
    /\ owner = [i \in Ids |-> 0]
    /\ status = [i \in Ids |-> "none"]
    /\ capability = [i \in Ids |-> "live"]
    /\ closedAt = [i \in Ids |-> 0]
    /\ clock = 0
    /\ answering = [i \in Ids |-> "none"]
    /\ deferred = [i \in Ids |-> NoClose]
    /\ delivery = [i \in Ids |-> "none"]
    /\ reached = [i \in Ids |-> 0]

\* requestBook.answerable.
Answerable(i) == status[i] = "pending" /\ answering[i] = "none"

\* Slip: the capability of a closed approval isn't filled in.
NoCapability(i) == IF i \in Questions THEN "message" ELSE ""

\* closedCapability: a question can still be answered with a message.
ClosedCapability(i) == IF i \in Questions THEN "message" ELSE "notResumable"

-----------------------------------------------------------------------------
(* close, expire and trim. *)

\* ExcessClosed sorts the closed requests by ClosedAt, those of one moment in
\* the order they opened: whether j closed after i.
ClosedLater(at, j, i) == at[j] > at[i] \/ (at[j] = at[i] /\ j > i)

\* trim, given the statuses st and the times at of the closes: the closed
\* requests that MaxClosed others closed after are dropped.
Trim(st, at) ==
    LET closed == {i \in Ids : st[i] \in Closed}
        excess == {i \in closed :
                     Cardinality({j \in closed : ClosedLater(at, j, i)}) >= MaxClosed}
    IN  [i \in Ids |-> IF i \in excess THEN "none" ELSE st[i]]

\* Whether close closes the request now.
ClosesNow(i) == status[i] = "pending" /\ answering[i] # "delivering"

\* close for the requests S, as their close how[i] says.  One whose answer is
\* being delivered keeps the first close asked for; one whose answer went out
\* unconfirmed closes now.
CloseAll(S, how) ==
    LET now  == {i \in S : ClosesNow(i)}
        late == {i \in S : status[i] = "pending" /\ answering[i] = "delivering"
                              /\ deferred[i] = NoClose}
        at   == [i \in Ids |-> IF i \in now THEN clock + 1 ELSE closedAt[i]]
    IN  /\ closedAt' = at
        /\ clock' = IF now = {} THEN clock ELSE clock + 1
        /\ status' = Trim([i \in Ids |-> IF i \in now THEN how[i].status ELSE status[i]], at)
        /\ capability' = [i \in Ids |-> IF i \in now THEN how[i].capability ELSE capability[i]]
        /\ answering' = [i \in Ids |-> IF i \in now THEN "none" ELSE answering[i]]
        /\ deferred' = [i \in Ids |-> IF i \in late THEN how[i] ELSE deferred[i]]

\* expire: only the turn ended, or the agent is gone.
Expire(agentGone) ==
    CloseAll(Ids, [i \in Ids |-> [status |-> "expired",
                                  capability |-> IF agentGone THEN "notResumable"
                                                 ELSE ClosedCapability(i)]])

-----------------------------------------------------------------------------
(* The agent. *)

\* launch sets the adapter.
AdapterStarts ==
    /\ ~adapterUp
    /\ adapterUp' = TRUE
    /\ UNCHANGED <<generation, book, delivery, reached>>

\* sink.RequestOpened, of the running adapter.
RequestOpened ==
    /\ adapterUp /\ opened < MaxId
    /\ opened' = opened + 1
    /\ owner' = [owner EXCEPT ![opened + 1] = generation]
    /\ status' = [status EXCEPT ![opened + 1] = "pending"]
    /\ UNCHANGED <<generation, adapterUp, capability, closedAt, clock, answering, deferred,
                   delivery, reached>>

\* sink.RequestClosed: the agent withdraws a request it opened.
RequestClosed(i) ==
    /\ adapterUp /\ i <= opened /\ owner[i] = generation
    /\ CloseAll({i}, [j \in Ids |-> [status |-> "withdrawn",
                                     capability |-> ClosedCapability(j)]])
    /\ UNCHANGED <<generation, adapterUp, opened, owner, delivery, reached>>

\* turnCompletedLocked's expireRequestsLocked(false).
TurnCompleted ==
    /\ adapterUp
    /\ Expire(FALSE)
    /\ UNCHANGED <<generation, adapterUp, opened, owner, delivery, reached>>

\* Slip: the requests outlive the agent.
DownWithoutExpire ==
    /\ generation < MaxGen
    /\ generation' = generation + 1
    /\ adapterUp' = FALSE
    /\ UNCHANGED <<book, delivery, reached>>

\* downLocked: the agent exited, failed to start or is replaced.
DownLocked ==
    /\ generation < MaxGen
    /\ generation' = generation + 1
    /\ adapterUp' = FALSE
    /\ Expire(TRUE)
    /\ UNCHANGED <<opened, owner, delivery, reached>>

-----------------------------------------------------------------------------
(* Respond. *)

\* Up to the adapter's call; every other answer is refused (ErrRequestNotFound,
\* ErrNotStarted) and changes nothing.
Respond(i) ==
    /\ Answerable(i) /\ adapterUp
    /\ answering' = [answering EXCEPT ![i] = "delivering"]
    /\ deferred' = [deferred EXCEPT ![i] = NoClose]
    /\ delivery' = [delivery EXCEPT ![i] = "call"]
    /\ UNCHANGED <<generation, adapterUp, opened, owner, status, capability, closedAt, clock,
                   reached>>

\* adapter.Respond, without the lock: the agent has the answer ("ok"), it has
\* not ("refused"), or it may have ("unconfirmed").
AdapterResponds(i, r) ==
    /\ delivery[i] = "call"
    /\ delivery' = [delivery EXCEPT ![i] = r]
    /\ reached' = [reached EXCEPT ![i] = IF r = "refused" THEN @ ELSE @ + 1]
    /\ UNCHANGED <<generation, adapterUp, book>>

\* Slips: an answer the agent refused counts; a close that came meanwhile
\* goes before the answer; such a close is forgotten if the agent runs on.
AlwaysResolved(i) == [status |-> "resolved", capability |-> capability[i]]
CloseForgotten(i) ==
    IF delivery[i] = "ok" THEN AlwaysResolved(i)
    ELSE IF owner[i] = generation THEN NoClose
    ELSE deferred[i]
CloseGoesFirst(i) == IF deferred[i] # NoClose THEN deferred[i] ELSE CloseForgotten(i)

\* How endAnswer closes the request: resolved if the answer arrived, otherwise
\* as the close that came meanwhile says, if one did.
EndAnswerClose(i) ==
    IF delivery[i] = "ok" THEN [status |-> "resolved", capability |-> capability[i]]
    ELSE deferred[i]

\* Slip: an unconfirmed answer leaves the request open to another.
NeverUnconfirmed(i) == "none"

\* Without a close, an unconfirmed answer keeps the request from another.
EndAnswerState(i) == IF delivery[i] = "unconfirmed" THEN "unconfirmed" ELSE "none"

\* Respond once the adapter returned: endAnswer.
EndAnswer(i) ==
    /\ delivery[i] \in {"ok", "refused", "unconfirmed"}
    /\ delivery' = [delivery EXCEPT ![i] = "none"]
    /\ deferred' = [deferred EXCEPT ![i] = NoClose]
    /\ LET how    == EndAnswerClose(i)
           closes == how # NoClose
           at     == [closedAt EXCEPT ![i] = IF closes THEN clock + 1 ELSE @]
       IN  /\ answering' = [answering EXCEPT ![i] = IF closes THEN "none" ELSE EndAnswerState(i)]
           /\ closedAt' = at
           /\ clock' = IF closes THEN clock + 1 ELSE clock
           /\ status' = IF closes THEN Trim([status EXCEPT ![i] = how.status], at) ELSE status
           /\ capability' = [capability EXCEPT ![i] = IF closes THEN how.capability ELSE @]
    /\ UNCHANGED <<generation, adapterUp, opened, owner, reached>>

-----------------------------------------------------------------------------
Next ==
    \/ AdapterStarts \/ RequestOpened \/ TurnCompleted \/ DownLocked
    \/ \E i \in Ids : RequestClosed(i) \/ Respond(i) \/ EndAnswer(i)
    \/ \E i \in Ids, r \in {"ok", "refused", "unconfirmed"} : AdapterResponds(i, r)

Spec == Init /\ [][Next]_vars

\* Deliveries end: a call of the adapter has a deadline.
FairSpec ==
    /\ Spec
    /\ \A i \in Ids : WF_vars(EndAnswer(i))
    /\ \A i \in Ids : WF_vars(\E r \in {"ok", "refused", "unconfirmed"} : AdapterResponds(i, r))

-----------------------------------------------------------------------------
(* Properties. *)

\* The types of the book's state (requestBook, Conversation).
TypeOK ==
    /\ generation \in Gens /\ adapterUp \in BOOLEAN
    /\ opened \in 0 .. MaxId
    /\ owner \in [Ids -> Gens]
    /\ status \in [Ids -> Closed \union {"none", "pending"}]
    /\ capability \in [Ids -> {"live", "message", "notResumable"}]
    /\ closedAt \in [Ids -> Nat] /\ clock \in Nat
    /\ answering \in [Ids -> {"none", "delivering", "unconfirmed"}]
    /\ deferred \in [Ids -> Closes]
    /\ delivery \in [Ids -> {"none", "call", "ok", "refused", "unconfirmed"}]
    /\ reached \in [Ids -> Nat]

\* No request is answered twice (Respond, endAnswer): once an answer may have
\* reached the agent, no other is sent, whatever was asked meanwhile.
AnsweredAtMostOnce == \A i \in Ids : reached[i] <= 1

\* A request takes an answer only while the agent that asked runs
\* (downLocked): no answer goes to an agent that didn't ask, and a request
\* that only waits for its agent to close it doesn't outlive the agent.
AnswerGoesToTheAsker ==
    \A i \in Ids : status[i] = "pending" /\ answering[i] # "delivering"
                      => owner[i] = generation

\* A request shown as resolved was answered, once, and no answer to it is under
\* way (endAnswer, close).
ResolvedIsAnswered ==
    \A i \in Ids : status[i] = "resolved" => reached[i] = 1 /\ answering[i] = "none"

\* A client that reconnects sees what became of a request: a closed one stays
\* as it closed until it is dropped (close), an answer the agent confirmed is
\* never shown as withdrawn or expired, in whatever order the close and the
\* answer came (endAnswer), and trim drops none that closed after one it keeps.
ClosedIsFinal ==
    [][\A i \in Ids :
        /\ status[i] \in Closed => status'[i] \in {status[i], "none"}
        /\ delivery[i] = "ok" /\ delivery'[i] = "none" => status'[i] \in {"resolved", "none"}
        /\ closedAt'[i] > 0 /\ status'[i] = "none" =>
              \A j \in Ids : status'[j] \in Closed => ~ (closedAt'[i] > closedAt'[j])]_vars

\* A close put off while an answer was delivered is not lost (answer.closed).
DeferredCloseApplies ==
    \A i \in Ids : (deferred[i] # NoClose) ~> (status[i] # "pending")

=============================================================================
