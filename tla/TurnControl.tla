---------------------------- MODULE TurnControl ----------------------------
(***************************************************************************)
(* The turns of native.Conversation (lib/native/conversation.go, sink.go,  *)
(* limit.go, retry.go): what begins a turn, what ends it, and what is      *)
(* scheduled after a turn that a usage limit or an upstream error stopped. *)
(*                                                                         *)
(* Conversation.mu is never held while the adapter is called, so every     *)
(* operation that calls the adapter is cut into the steps between which    *)
(* the lock is free.  Four kinds of thread meet here:                      *)
(*   - the server's caller, which holds Server.mu for a whole operation, so *)
(*     there is one at a time (`call');                                    *)
(*   - the launch of an agent, which sends the initial prompt (`prompts'); *)
(*   - POST /compact and POST /interrupt, which take no server lock        *)
(*     (`compactions', `noTurn');                                          *)
(*   - the adapter's read loop, which reports what the agent does (`phase' *)
(*     and `news').                                                        *)
(* How agents are started, exit and are replaced is AgentLifecycle's; here *)
(* it is the actions AdapterStarts, MarkStarted, AgentDown, BeginRestart   *)
(* and BeginSwitch, with their effect on the turns.                        *)
(***************************************************************************)
EXTENDS Integers

CONSTANTS
    MaxGen,         \* bound: the generations the model goes through
    MaxRetries,     \* len(Config.RetryDelays)
    AutoContinue,   \* Config.AutoContinue
    HasPrompt,      \* Config.InitialPrompt is set
    SelfStarts      \* the agent starts turns by itself (claude.turnActivity)

ASSUME TurnControlAssumption ==
    /\ MaxGen \in Nat
    /\ MaxRetries \in Nat
    /\ AutoContinue \in BOOLEAN
    /\ HasPrompt \in BOOLEAN
    /\ SelfStarts \in BOOLEAN

VARIABLES
    generation,       \* Conversation.generation
    adapterUp,        \* Conversation.adapter is set and its Start returned
    started,          \* Conversation.started
    promptSent,       \* Conversation.promptSent
    turnActive,       \* Conversation.turnActive
    unconfirmedTurn,  \* Conversation.unconfirmedTurn
    compacting,       \* Conversation.compacting
    limitStop,        \* Conversation.limitStop, its times relative to now
    retryWait,        \* Conversation.retryWait
    retrying,         \* Conversation.retrying
    continueAgain,    \* Conversation.continueAgain
    call,             \* the operation that holds Server.mu
    prompts,          \* per generation: the delivery of the initial prompt
    compactions,      \* generations with an adapter.Compact under way
    noTurn,           \* generations whose Interrupt got ErrNoActiveTurn
    phase,            \* the current adapter's turn (claude.turnState.phase)
    news,             \* per generation: the event the read loop will report
    owed              \* history: a continuation was promised, no turn since

conversation == <<generation, adapterUp, started, promptSent, turnActive,
                  unconfirmedTurn, compacting>>
stops == <<limitStop, retryWait, retrying, continueAgain>>
threads == <<call, prompts, compactions, noTurn>>
adapter == <<phase, news>>
vars == <<conversation, stops, threads, adapter, owed>>

Gens == 0 .. MaxGen

-----------------------------------------------------------------------------
(* Stops.  ResetsAt is unknown, ahead or past; ContinueAt is nil ("none"),  *)
(* ahead ("waiting") or reached ("due").                                    *)

NoStop == [resets |-> "unknown", cont |-> "noStop"]
Stop(resets, cont) == [resets |-> resets, cont |-> cont]

NoWait == [attempt |-> 0, due |-> FALSE]
Wait(attempt, due) == [attempt |-> attempt, due |-> due]

Scheduled(ls) == ls.cont \in {"waiting", "due"}

NoCall == [op |-> "none", step |-> "none", gen |-> 0, ls |-> NoStop, rw |-> NoWait,
           limitDue |-> FALSE, retryDue |-> FALSE]
Call(op) == [NoCall EXCEPT !.op = op, !.step = "begin"]

\* Conversation.Idle.
Idle == started /\ ~turnActive /\ ~compacting

\* Conversation.HoldsQueue at the present time.
HoldsQueue ==
    \/ retryWait # NoWait
    \/ /\ limitStop # NoStop
       /\ Scheduled(limitStop) \/ limitStop.resets \in {"unknown", "ahead"}

\* NewConversation: a stop or a wait can be one stored before AgentAPI
\* restarted (Config.LimitStop, Config.RetryWait).
Init ==
    /\ generation = 0
    /\ adapterUp = FALSE
    /\ started = FALSE
    /\ promptSent \in {FALSE, HasPrompt}    \* matters only with a prompt
    /\ turnActive = FALSE
    /\ unconfirmedTurn = FALSE
    /\ compacting = FALSE
    /\ limitStop \in {NoStop, Stop("unknown", "none"), Stop("ahead", "waiting")}
    /\ retryWait \in {NoWait} \union {Wait(a, FALSE) : a \in 1 .. MaxRetries}
    /\ retrying = 0
    /\ continueAgain = FALSE
    /\ call = NoCall
    /\ prompts = [g \in Gens |-> "none"]
    /\ compactions = {}
    /\ noTurn = {}
    /\ phase = "idle"
    /\ news = [g \in Gens |-> "none"]
    /\ owed = Scheduled(limitStop)

-----------------------------------------------------------------------------
(* beginTurnLocked and deliverTurn. *)

CanBegin == started /\ ~turnActive /\ ~compacting /\ adapterUp

BeginTurn ==
    /\ turnActive' = TRUE
    /\ unconfirmedTurn' = FALSE
    /\ limitStop' = NoStop
    /\ retryWait' = NoWait

\* adapter.StartTurn for a turn of generation g ends with result r.  A
\* retired adapter changes nothing here; one that works on a turn refuses;
\* an unconfirmed message reached the agent or it did not.
Send(g, r) ==
    \/ g # generation /\ r \in {"ok", "refused", "unconfirmed"} /\ UNCHANGED phase
    \/ g = generation /\ r = "refused" /\ UNCHANGED phase
    \/ g = generation /\ phase = "idle" /\ r = "ok" /\ phase' = "sent"
    \/ g = generation /\ phase = "idle" /\ r = "unconfirmed" /\ phase' \in {"idle", "sent"}

\* Slips for the mutation runs: an unconfirmed delivery that is forgotten,
\* and a refused turn that is not taken back.
DeliveryForgotten(g, r) ==
    /\ turnActive' = (turnActive /\ ~(g = generation /\ r = "refused"))
    /\ UNCHANGED unconfirmedTurn
DeliveryNotTakenBack(g, r) ==
    /\ UNCHANGED turnActive
    /\ unconfirmedTurn' = IF g = generation /\ r = "unconfirmed"
                          THEN turnActive ELSE unconfirmedTurn

\* deliverTurn once adapter.StartTurn returned the error r.
DeliveryFailed(g, r) ==
    /\ turnActive' = (turnActive /\ ~(g = generation /\ r = "refused"))
    /\ unconfirmedTurn' = IF g = generation /\ r = "unconfirmed"
                          THEN turnActive ELSE unconfirmedTurn

-----------------------------------------------------------------------------
(* The server's caller: POST /message and the queue's tick ("message"),     *)
(* POST /retry ("retryNow"), the tick's beforeQueue ("continueIfDue").      *)

\* A caller that takes Server.mu and calls StartTurn: POST /message, the
\* dispatch of a queued message, POST /limit/continue with at: now.
StartTurn ==
    /\ call = NoCall
    /\ call' = Call("message")
    /\ UNCHANGED <<conversation, stops, prompts, compactions, noTurn, adapter, owed>>

\* RetryNow up to its call of StartTurn.
RetryNow ==
    /\ call = NoCall
    /\ retryWait # NoWait
    /\ retrying' = retryWait.attempt
    /\ call' = Call("retryNow")
    /\ UNCHANGED <<conversation, limitStop, retryWait, continueAgain, prompts,
                   compactions, noTurn, adapter, owed>>

LimitDue == Idle /\ limitStop # NoStop /\ limitStop.cont = "due"
RetryDue == Idle /\ retryWait # NoWait /\ retryWait.due

\* Slip: the tick honours the hold that the continuation itself makes.
ContinueUnlessHeld ==
    /\ call = NoCall
    /\ LimitDue /\ ~HoldsQueue
    /\ continueAgain' = TRUE
    /\ call' = [Call("continueIfDue") EXCEPT !.limitDue = TRUE]
    /\ UNCHANGED <<conversation, limitStop, retryWait, retrying, prompts, compactions,
                   noTurn, adapter, owed>>

\* ContinueIfDue up to its call of StartTurn; it keeps what was due.
ContinueIfDue ==
    /\ call = NoCall
    /\ LimitDue \/ RetryDue
    /\ continueAgain' = (continueAgain \/ LimitDue)
    /\ retrying' = IF RetryDue THEN retryWait.attempt ELSE retrying
    /\ call' = [Call("continueIfDue") EXCEPT
                   !.limitDue = LimitDue, !.ls = IF LimitDue THEN limitStop ELSE NoStop,
                   !.retryDue = RetryDue, !.rw = IF RetryDue THEN retryWait ELSE NoWait]
    /\ UNCHANGED <<conversation, limitStop, retryWait, prompts, compactions,
                   noTurn, adapter, owed>>

\* What is left to do once StartTurn returned an error: RetryNow and
\* ContinueIfDue take back what they set, a message's caller is done.
AfterError == IF call.op = "message" THEN NoCall ELSE [call EXCEPT !.step = "failed"]

\* beginTurnLocked for the caller: the turn begins, or is refused as
\* ErrMessageValidationChanging.
CallBegins ==
    /\ call.step = "begin"
    /\ CanBegin
    /\ BeginTurn
    /\ call' = [call EXCEPT !.step = "send", !.gen = generation]
    /\ owed' = (owed /\ call.op = "continueIfDue" /\ call.limitDue)
    /\ UNCHANGED <<generation, adapterUp, started, promptSent, compacting, retrying,
                   continueAgain, prompts, compactions, noTurn, adapter>>

CallChanging ==
    /\ call.step = "begin"
    /\ ~CanBegin
    /\ call' = AfterError
    /\ UNCHANGED <<conversation, stops, prompts, compactions, noTurn, adapter, owed>>

\* deliverTurn's call of the adapter, without Conversation.mu.
CallSends(r) ==
    /\ call.step = "send"
    /\ Send(call.gen, r)
    /\ call' = IF r = "ok" THEN NoCall ELSE [call EXCEPT !.step = r]
    /\ owed' = (owed /\ r = "refused")
    /\ UNCHANGED <<conversation, stops, prompts, compactions, noTurn, news>>

\* deliverTurn after the adapter's error.
CallReturns ==
    /\ call.step \in {"refused", "unconfirmed"}
    /\ DeliveryFailed(call.gen, call.step)
    /\ call' = AfterError
    /\ UNCHANGED <<generation, adapterUp, started, promptSent, compacting, stops,
                   prompts, compactions, noTurn, adapter, owed>>

\* RetryNow after StartTurn's error.
RetryNowFailed ==
    /\ call.op = "retryNow" /\ call.step = "failed"
    /\ retrying' = 0
    /\ call' = NoCall
    /\ UNCHANGED <<conversation, limitStop, retryWait, continueAgain, prompts,
                   compactions, noTurn, adapter, owed>>

\* Slip: a continuation the agent refused is not put back.
StopNotAgain == FALSE

\* The stop whose continuation failed is put back: no turn runs, and none was
\* recorded since.
StopAgain == ~turnActive /\ call.limitDue /\ limitStop = NoStop

\* ContinueIfDue after StartTurn's error: what was due is due again later.
ContinueFailed ==
    /\ call.op = "continueIfDue" /\ call.step = "failed"
    /\ continueAgain' = FALSE
    /\ retrying' = 0
    /\ limitStop' = IF StopAgain THEN Stop(call.ls.resets, "waiting") ELSE limitStop
    /\ retryWait' = IF ~StopAgain /\ ~turnActive /\ call.retryDue /\ retryWait = NoWait
                    THEN Wait(call.rw.attempt, FALSE) ELSE retryWait
    /\ call' = NoCall
    /\ UNCHANGED <<conversation, prompts, compactions, noTurn, adapter, owed>>

\* POST /limit/continue with at: reset (ScheduleContinue): only with a reset
\* time.  DELETE /limit/continue cancels it, DELETE /limit forgets the stop.
ScheduleContinue ==
    /\ call = NoCall
    /\ limitStop # NoStop /\ limitStop.resets # "unknown"
    /\ limitStop' = [limitStop EXCEPT !.cont = "waiting"]
    /\ owed' = TRUE
    /\ UNCHANGED <<conversation, retryWait, retrying, continueAgain, threads, adapter>>

CancelContinue ==
    /\ call = NoCall
    /\ limitStop # NoStop
    /\ limitStop' = [limitStop EXCEPT !.cont = "none"]
    /\ owed' = FALSE
    /\ UNCHANGED <<conversation, retryWait, retrying, continueAgain, threads, adapter>>

DismissLimitStop ==
    /\ call = NoCall
    /\ limitStop # NoStop
    /\ limitStop' = NoStop
    /\ owed' = FALSE
    /\ UNCHANGED <<conversation, retryWait, retrying, continueAgain, threads, adapter>>

CancelRetry ==
    /\ call = NoCall
    /\ retryWait # NoWait
    /\ retryWait' = NoWait
    /\ UNCHANGED <<conversation, limitStop, retrying, continueAgain, threads, adapter, owed>>

-----------------------------------------------------------------------------
(* The adapter's read loop and the sink. *)

\* Slip: the sink takes the events of every adapter.
AnySink(g) == TRUE

\* sink.update: whether the adapter of generation g still counts.
CurrentSink(g) == g = generation

\* claude.turnActivity: the agent works on the message it was sent, or on
\* a turn of its own; the read loop is about to report it.
AgentActivity ==
    /\ adapterUp /\ news[generation] = "none"
    /\ phase = "sent" \/ (SelfStarts /\ phase = "idle")
    /\ phase' = "running"
    /\ news' = [news EXCEPT ![generation] = "started"]
    /\ UNCHANGED <<conversation, stops, threads, owed>>

\* claude.endTurn: the adapter is idle again before it reports the end.
AgentEndsTurn ==
    /\ adapterUp /\ news[generation] = "none"
    /\ phase \in {"sent", "running"}
    /\ phase' = "idle"
    /\ news' = [news EXCEPT ![generation] = "completed"]
    /\ UNCHANGED <<conversation, stops, threads, owed>>

\* sink.TurnStarted of the adapter of generation g, which sink.update drops
\* once the adapter was replaced.
TurnStarted(g) ==
    /\ news[g] = "started"
    /\ news' = [news EXCEPT ![g] = "none"]
    /\ turnActive' = (turnActive \/ CurrentSink(g))
    /\ unconfirmedTurn' = (unconfirmedTurn /\ ~CurrentSink(g))
    /\ owed' = (owed /\ ~CurrentSink(g))
    /\ UNCHANGED <<generation, adapterUp, started, promptSent, compacting, stops,
                   threads, phase>>

\* limitStoppedLocked: ContinueAt is the reset's, if the agent said when.
LimitStopped(resets) ==
    Stop(resets, IF (AutoContinue \/ continueAgain) /\ resets # "unknown"
                 THEN "waiting" ELSE "none")

\* A reset that is past already is one that LimitResets follows at once.
Results == {"done", "transient", "limitUnknown", "limitAhead"}
Limited(result) == result \in {"limitUnknown", "limitAhead"}
ResetsOf(result) == IF result = "limitUnknown" THEN "unknown" ELSE "ahead"

\* retryLocked: the wait for the attempt-th retry, if there is one.
RetryLocked(attempt) == IF attempt > MaxRetries THEN retryWait ELSE Wait(attempt, FALSE)

\* turnCompletedLocked.  "done" stands for every stop reason that schedules
\* nothing: the end of the turn, an interrupt, an error.
TurnCompletedLocked(result) ==
    /\ turnActive' = FALSE
    /\ unconfirmedTurn' = FALSE
    /\ retrying' = 0
    /\ continueAgain' = FALSE
    /\ limitStop' = IF Limited(result) THEN LimitStopped(ResetsOf(result)) ELSE limitStop
    /\ retryWait' = IF result = "transient" THEN RetryLocked(retrying + 1) ELSE retryWait
    /\ owed' = IF Limited(result) THEN Scheduled(limitStop') ELSE owed

\* sink.TurnCompleted of the adapter of generation g.
TurnCompleted(g, result) ==
    /\ news[g] = "completed"
    /\ news' = [news EXCEPT ![g] = "none"]
    /\ IF CurrentSink(g)
       THEN TurnCompletedLocked(result)
       ELSE UNCHANGED <<turnActive, unconfirmedTurn, stops, owed>>
    /\ UNCHANGED <<generation, adapterUp, started, promptSent, compacting, threads, phase>>

-----------------------------------------------------------------------------
(* POST /interrupt and POST /compact, which take no server lock. *)

\* Conversation.Interrupt whose adapter answers ErrNoActiveTurn.  An
\* interrupt the adapter takes ends the turn like any other (AgentEndsTurn).
Interrupt ==
    /\ adapterUp /\ turnActive
    /\ phase = "idle"
    /\ noTurn' = noTurn \union {generation}
    /\ UNCHANGED <<conversation, stops, call, prompts, compactions, adapter, owed>>

\* Conversation.endUnconfirmedTurn for an interrupt of generation g.
EndUnconfirmedTurn(g) ==
    /\ g \in noTurn
    /\ noTurn' = noTurn \ {g}
    /\ IF g = generation /\ unconfirmedTurn
       THEN TurnCompletedLocked("done")
       ELSE UNCHANGED <<turnActive, unconfirmedTurn, stops, owed>>
    /\ UNCHANGED <<generation, adapterUp, started, promptSent, compacting, call, prompts,
                   compactions, adapter>>

\* Conversation.Compact up to the adapter's call, and after it.
Compact ==
    /\ started /\ adapterUp
    /\ ~turnActive /\ ~compacting
    /\ compacting' = TRUE
    /\ compactions' = compactions \union {generation}
    /\ UNCHANGED <<generation, adapterUp, started, promptSent, turnActive, unconfirmedTurn,
                   stops, call, prompts, noTurn, adapter, owed>>

CompactDone(g) ==
    /\ g \in compactions
    /\ compactions' = compactions \ {g}
    /\ compacting' = (compacting /\ g # generation)
    /\ UNCHANGED <<generation, adapterUp, started, promptSent, turnActive, unconfirmedTurn,
                   stops, call, prompts, noTurn, adapter, owed>>

-----------------------------------------------------------------------------
(* Agents that start, exit and are replaced. *)

\* launch: the adapter is set and its Start returned.
AdapterStarts ==
    /\ ~adapterUp
    /\ adapterUp' = TRUE
    /\ UNCHANGED <<generation, started, promptSent, turnActive, unconfirmedTurn, compacting,
                   stops, threads, adapter, owed>>

\* markStartedLocked with beginInitialPromptLocked: without releasing the
\* lock, so no other message starts a turn first.
MarkStarted ==
    /\ adapterUp /\ ~started
    /\ started' = TRUE
    /\ promptSent' = (promptSent \/ HasPrompt)
    /\ IF HasPrompt /\ ~promptSent /\ ~turnActive /\ ~compacting
       THEN /\ BeginTurn
            /\ prompts' = [prompts EXCEPT ![generation] = "send"]
            /\ owed' = FALSE
       ELSE UNCHANGED <<turnActive, unconfirmedTurn, limitStop, retryWait, prompts, owed>>
    /\ UNCHANGED <<generation, adapterUp, compacting, retrying, continueAgain, call,
                   compactions, noTurn, adapter>>

\* sendInitialPrompt of the launch of generation g: deliverTurn's two steps.
PromptSends(g, r) ==
    /\ prompts[g] = "send"
    /\ Send(g, r)
    /\ prompts' = [prompts EXCEPT ![g] = IF r = "ok" THEN "none" ELSE r]
    /\ UNCHANGED <<conversation, stops, call, compactions, noTurn, news, owed>>

PromptReturns(g) ==
    /\ prompts[g] \in {"refused", "unconfirmed"}
    /\ DeliveryFailed(g, prompts[g])
    /\ prompts' = [prompts EXCEPT ![g] = "none"]
    /\ UNCHANGED <<generation, adapterUp, started, promptSent, compacting, stops, call,
                   compactions, noTurn, adapter, owed>>

\* downLocked: the next agent is one of a new generation.  An event the old
\* adapter was about to report stays under way.
DownLocked ==
    /\ generation < MaxGen
    /\ generation' = generation + 1
    /\ adapterUp' = FALSE
    /\ started' = FALSE
    /\ turnActive' = FALSE
    /\ unconfirmedTurn' = FALSE
    /\ compacting' = FALSE
    /\ phase' = "idle"
    /\ UNCHANGED <<threads, news>>

\* signalExit, failStart, RetryLogin and Close.
AgentDown ==
    /\ DownLocked
    /\ UNCHANGED <<promptSent, stops, owed>>

\* BeginRestart and BeginSwitch, under Server.mu.
Replaced ==
    /\ call = NoCall
    /\ DownLocked
    /\ limitStop' = NoStop
    /\ retryWait' = NoWait
    /\ retrying' = 0
    /\ owed' = FALSE
    /\ UNCHANGED continueAgain

BeginRestart ==
    /\ Replaced
    /\ promptSent' = FALSE

BeginSwitch ==
    /\ ~turnActive /\ ~compacting
    /\ Replaced
    /\ promptSent' = TRUE

-----------------------------------------------------------------------------
(* Time passes. *)

LimitResets ==
    /\ limitStop # NoStop /\ limitStop.resets = "ahead"
    /\ limitStop' = [limitStop EXCEPT !.resets = "past"]
    /\ UNCHANGED <<conversation, retryWait, retrying, continueAgain, threads, adapter, owed>>

\* continueMargin after the reset, or after the attempt that failed.
ContinuationDue ==
    /\ limitStop.cont = "waiting" /\ limitStop.resets = "past"
    /\ limitStop' = [limitStop EXCEPT !.cont = "due"]
    /\ UNCHANGED <<conversation, retryWait, retrying, continueAgain, threads, adapter, owed>>

RetryDelayPasses ==
    /\ retryWait # NoWait /\ ~retryWait.due
    /\ retryWait' = [retryWait EXCEPT !.due = TRUE]
    /\ UNCHANGED <<conversation, limitStop, retrying, continueAgain, threads, adapter, owed>>

-----------------------------------------------------------------------------
Deliveries ==
    \/ CallBegins \/ CallChanging \/ CallReturns
    \/ RetryNowFailed \/ ContinueFailed
    \/ \E r \in {"ok", "refused", "unconfirmed"} : CallSends(r)
    \/ \E g \in Gens, r \in {"ok", "refused", "unconfirmed"} : PromptSends(g, r)
    \/ \E g \in Gens : PromptReturns(g)

Events ==
    \/ \E g \in Gens : TurnStarted(g)
    \/ \E g \in Gens, result \in Results : TurnCompleted(g, result)

Next ==
    \/ StartTurn \/ RetryNow \/ ContinueIfDue
    \/ ScheduleContinue \/ CancelContinue \/ DismissLimitStop \/ CancelRetry
    \/ Deliveries \/ Events
    \/ AgentActivity \/ AgentEndsTurn
    \/ Interrupt \/ Compact
    \/ \E g \in Gens : EndUnconfirmedTurn(g) \/ CompactDone(g)
    \/ AdapterStarts \/ MarkStarted \/ AgentDown \/ BeginRestart \/ BeginSwitch
    \/ LimitResets \/ ContinuationDue \/ RetryDelayPasses

Spec == Init /\ [][Next]_vars

\* What the code's scheduling guarantees: calls of the adapter end (each has
\* a deadline), the read loop reports what it read, and the queue's ticker
\* calls ContinueIfDue.
Fairness ==
    /\ WF_vars(Deliveries)
    /\ WF_vars(Events)
    /\ WF_vars(ContinueIfDue)

FairSpec == Spec /\ Fairness

-----------------------------------------------------------------------------
(* Properties. *)

Stops == [resets : {"unknown", "ahead", "past"}, cont : {"noStop", "none", "waiting", "due"}]
Waits == [attempt : 0 .. MaxRetries, due : BOOLEAN]
Calls == [op : {"none", "message", "retryNow", "continueIfDue"},
          step : {"none", "begin", "send", "refused", "unconfirmed", "failed"},
          gen : Gens, ls : Stops, rw : Waits, limitDue : BOOLEAN, retryDue : BOOLEAN]

\* The types; a retry is one of Config.RetryDelays (retryLocked).
TypeOK ==
    /\ generation \in Gens
    /\ adapterUp \in BOOLEAN /\ started \in BOOLEAN /\ promptSent \in BOOLEAN
    /\ turnActive \in BOOLEAN /\ unconfirmedTurn \in BOOLEAN /\ compacting \in BOOLEAN
    /\ limitStop \in Stops /\ retryWait \in Waits /\ retrying \in 0 .. MaxRetries
    /\ continueAgain \in BOOLEAN
    /\ call \in Calls
    /\ prompts \in [Gens -> {"none", "send", "refused", "unconfirmed"}]
    /\ compactions \subseteq Gens /\ noTurn \subseteq Gens
    /\ phase \in {"idle", "sent", "running"}
    /\ news \in [Gens -> {"none", "started", "completed"}]
    /\ owed \in BOOLEAN

\* A delivery of a turn of the current generation is under way.
Delivering ==
    \/ call.step \in {"send", "refused", "unconfirmed"} /\ call.gen = generation
    \/ prompts[generation] # "none"

\* A turn is never left active with nothing to end it (beginTurnLocked,
\* deliverTurn, turnCompletedLocked): the agent works on it, an event or the
\* delivery of its message is under way, or it is unconfirmed, which an
\* interrupt ends.  Otherwise no message would ever go out again.
TurnHasAnEnd ==
    turnActive => \/ phase # "idle"
                  \/ news[generation] # "none"
                  \/ Delivering
                  \/ unconfirmedTurn

\* Only the running agent works (sink.update, deliverTurn and Compact check
\* the generation): without an adapter no turn, compaction or start is left
\* over from the one before.  compacting is cleared by whoever set it
\* (Conversation.Compact), so it is set only while a compaction of this
\* generation runs and never sticks.
DeadAgentIsQuiet ==
    /\ ~adapterUp => ~started /\ ~turnActive /\ ~compacting /\ ~unconfirmedTurn
    /\ compacting => generation \in compactions

\* A continuation that was promised (ContinueAt) goes out, unless a turn
\* starts or the user cancels it: a refused attempt, or an agent that exits
\* meanwhile, doesn't lose it (ContinueIfDue).
ContinuationKept ==
    owed => \/ Scheduled(limitStop)
            \/ call.op = "continueIfDue" /\ call.limitDue

\* While the agent is idle the conversation doesn't stay busy, unless with an
\* unconfirmed turn.
BusyOnlyWithAgent ==
    turnActive ~> (~turnActive \/ unconfirmedTurn \/ phase # "idle")

\* The queue's tick takes up a continuation or a retry that is due.
DueIsTakenUp ==
    (LimitDue \/ RetryDue) ~> ~(LimitDue \/ RetryDue)

-----------------------------------------------------------------------------
(* What comments of the code say of the turns, and the code does not keep.  *)

\* conversation.go says retrying is "the retry (from 1) the turn running is, 0
\* for a turn that isn't one", and of continueAgain "the turn running is a
\* scheduled continuation".  downLocked keeps both when the agent exits, and
\* BeginRestart and BeginSwitch keep continueAgain.
MarksAreTheRunningTurns ==
    /\ retrying # 0 => turnActive \/ call.op \in {"retryNow", "continueIfDue"}
    /\ continueAgain => turnActive \/ call.op = "continueIfDue"

\* TurnActive "reports whether the agent is working on a turn".  deliverTurn
\* takes back the turn an adapter refuses even if the agent started one of
\* its own meanwhile.
AgentWorkIsShown ==
    phase = "running" /\ news[generation] = "none" => turnActive
=============================================================================
