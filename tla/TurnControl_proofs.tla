------------------------- MODULE TurnControl_proofs -------------------------
(***************************************************************************)
(* Proofs that, for every number of generations, every length of           *)
(* Config.RetryDelays and every configuration, a turn never stays active   *)
(* with nothing to end it, no turn, start or compaction outlives its       *)
(* agent, and a continuation that was promised is not lost.                *)
(*                                                                         *)
(* The invariant adds what the adapter's read loop has in hand for the     *)
(* running agent, and where a call stands whose continuation is owed.      *)
(***************************************************************************)
EXTENDS TurnControl, TLAPS

\* The read loop reports for adapters that started; it has nothing yet for
\* the generations to come, and what it reports as started still runs.
NewsIsOfTheAgent ==
    /\ \A g \in Gens : g > generation => news[g] = "none"
    /\ news[generation] # "none" => adapterUp
    /\ news[generation] = "started" => phase = "running"

\* A continuation that is owed waits, or the call that makes it took the stop
\* away and can put it back: no stop came since, and no turn runs once the
\* call failed, or none but the call's own.
OwedIsScheduled ==
    owed => \/ Scheduled(limitStop)
            \/ /\ call.op = "continueIfDue" /\ call.limitDue
               /\ call.step \in {"send", "refused", "failed"}
               /\ limitStop = NoStop
               /\ turnActive => call.step # "failed" /\ call.gen = generation

\* The inductive invariant.
IInv == TypeOK /\ NewsIsOfTheAgent /\ DeadAgentIsQuiet /\ TurnHasAnEnd /\ OwedIsScheduled

-----------------------------------------------------------------------------
(* Facts about the stops, the waits and the calls. *)

\* The stops and the waits that the operations make.
LEMMA StopFacts ==
    /\ NoStop \in Stops /\ ~Scheduled(NoStop)
    /\ \A resets \in {"unknown", "ahead", "past"}, cont \in {"none", "waiting", "due"} :
            Stop(resets, cont) \in Stops /\ Stop(resets, cont) # NoStop
    /\ \A ls \in Stops : ls.resets \in {"unknown", "ahead", "past"}
    /\ \A ls \in Stops, cont \in {"none", "waiting", "due"} : [ls EXCEPT !.cont = cont] \in Stops
    /\ \A ls \in Stops : [ls EXCEPT !.resets = "past"] \in Stops
BY DEF Stops, Stop, NoStop, Scheduled

\* The waits to retry a step can leave.
LEMMA WaitFacts ==
    /\ NoWait \in Waits
    /\ \A attempt \in 0 .. MaxRetries, due \in BOOLEAN : Wait(attempt, due) \in Waits
    /\ \A rw \in Waits : rw.attempt \in 0 .. MaxRetries /\ [rw EXCEPT !.due = TRUE] \in Waits
    /\ 0 \in 0 .. MaxRetries
<1>1. 0 \in 0 .. MaxRetries
  BY TurnControlAssumption
<1>2. NoWait \in Waits
  BY <1>1 DEF Waits, NoWait
<1>3. \A attempt \in 0 .. MaxRetries, due \in BOOLEAN : Wait(attempt, due) \in Waits
  BY DEF Waits, Wait
<1>4. \A rw \in Waits : rw.attempt \in 0 .. MaxRetries /\ [rw EXCEPT !.due = TRUE] \in Waits
  BY DEF Waits
<1> QED
  BY <1>1, <1>2, <1>3, <1>4

\* The calls that they make: one that begins, and one step on.
LEMMA CallFacts ==
    /\ NoCall \in Calls /\ NoCall.op = "none" /\ NoCall.step = "none" /\ ~NoCall.limitDue
    /\ \A op \in {"message", "retryNow", "continueIfDue"} :
            Call(op) \in Calls /\ Call(op).op = op /\ Call(op).step = "begin"
    /\ \A c \in Calls, step \in {"refused", "unconfirmed", "failed"} : [c EXCEPT !.step = step] \in Calls
    /\ \A c \in Calls, g \in Gens : [c EXCEPT !.step = "send", !.gen = g] \in Calls
    /\ \A c \in Calls, ls \in Stops, rw \in Waits, l, r \in BOOLEAN :
            [c EXCEPT !.limitDue = l, !.ls = ls, !.retryDue = r, !.rw = rw] \in Calls
    /\ \A c \in Calls : c.ls \in Stops /\ c.rw \in Waits /\ c.gen \in Gens
<1> USE TurnControlAssumption
<1>1. 0 \in Gens /\ NoStop \in Stops /\ NoWait \in Waits
  BY StopFacts, WaitFacts DEF Gens
<1>2. /\ NoCall \in Calls /\ NoCall.op = "none" /\ NoCall.step = "none" /\ ~NoCall.limitDue
  BY <1>1 DEF NoCall, Calls
<1>3. ASSUME NEW op \in {"message", "retryNow", "continueIfDue"}
      PROVE  Call(op) \in Calls /\ Call(op).op = op /\ Call(op).step = "begin"
  BY <1>1 DEF Call, NoCall, Calls
<1> QED
  BY <1>2, <1>3 DEF Calls

\* The next generation is one.
LEMMA NextGen == ASSUME TypeOK, generation < MaxGen PROVE generation + 1 \in Gens
BY TurnControlAssumption DEF TypeOK, Gens

\* The end of a turn keeps the types of what it sets, and the retry it waits
\* for is one of Config.RetryDelays.
LEMMA CompletedType ==
    ASSUME TypeOK, NEW result \in Results, TurnCompletedLocked(result)
    PROVE  /\ turnActive' \in BOOLEAN /\ unconfirmedTurn' \in BOOLEAN /\ continueAgain' \in BOOLEAN
           /\ retrying' \in 0 .. MaxRetries /\ limitStop' \in Stops /\ retryWait' \in Waits
           /\ owed' \in BOOLEAN
<1>1. limitStop' \in Stops
  <2>1. LimitStopped(ResetsOf(result)) \in Stops
    BY StopFacts DEF LimitStopped, ResetsOf
  <2> QED
    BY <2>1 DEF TurnCompletedLocked, TypeOK
<1>2. retryWait' \in Waits
  <2>1. ASSUME ~(retrying + 1 > MaxRetries) PROVE retrying + 1 \in 0 .. MaxRetries
    BY <2>1, TurnControlAssumption DEF TypeOK
  <2>2. RetryLocked(retrying + 1) \in Waits
    BY <2>1, WaitFacts DEF RetryLocked, TypeOK
  <2> QED
    BY <2>2 DEF TurnCompletedLocked, TypeOK
<1>3. retrying' \in 0 .. MaxRetries
  BY WaitFacts DEF TurnCompletedLocked
<1>4. owed' \in BOOLEAN
  <2>1. Scheduled(limitStop') \in BOOLEAN
    BY SMT DEF Scheduled
  <2>2. CASE Limited(result)
    BY <2>1, <2>2 DEF TurnCompletedLocked
  <2>3. CASE ~Limited(result)
    BY <2>3 DEF TurnCompletedLocked, TypeOK
  <2> QED
    BY <2>2, <2>3
<1> QED
  BY <1>1, <1>2, <1>3, <1>4 DEF TurnCompletedLocked

-----------------------------------------------------------------------------
(* The steps. *)

\* Every step keeps the types.
LEMMA TypeStep == TypeOK /\ [Next]_vars => TypeOK'
<1> SUFFICES ASSUME TypeOK, [Next]_vars PROVE TypeOK'
  OBVIOUS
<1> USE TurnControlAssumption DEF conversation, stops, threads, adapter, TypeOK
<1>1. ASSUME StartTurn PROVE TypeOK'
  BY <1>1, CallFacts DEF StartTurn
<1>2. ASSUME RetryNow PROVE TypeOK'
  BY <1>2, CallFacts, WaitFacts DEF RetryNow
<1>3. ASSUME ContinueIfDue PROVE TypeOK'
  BY <1>3, CallFacts, StopFacts, WaitFacts DEF ContinueIfDue, LimitDue, RetryDue, Idle
<1>4. ASSUME ScheduleContinue PROVE TypeOK'
  BY <1>4, StopFacts DEF ScheduleContinue
<1>5. ASSUME CancelContinue PROVE TypeOK'
  BY <1>5, StopFacts DEF CancelContinue
<1>6. ASSUME DismissLimitStop PROVE TypeOK'
  BY <1>6, StopFacts DEF DismissLimitStop
<1>7. ASSUME CancelRetry PROVE TypeOK'
  BY <1>7, WaitFacts DEF CancelRetry
<1>8. ASSUME CallBegins PROVE TypeOK'
  BY <1>8, CallFacts, StopFacts, WaitFacts DEF CallBegins, BeginTurn, CanBegin
<1>9. ASSUME CallChanging PROVE TypeOK'
  BY <1>9, CallFacts DEF CallChanging, AfterError
<1>10. ASSUME CallReturns PROVE TypeOK'
  BY <1>10, CallFacts DEF CallReturns, DeliveryFailed, AfterError
<1>11. ASSUME RetryNowFailed PROVE TypeOK'
  BY <1>11, CallFacts, WaitFacts DEF RetryNowFailed
<1>12. ASSUME ContinueFailed PROVE TypeOK'
  <2>1. limitStop' \in Stops
    BY <1>12, CallFacts, StopFacts DEF ContinueFailed
  <2>2. retryWait' \in Waits
    BY <1>12, CallFacts, WaitFacts DEF ContinueFailed
  <2> QED
    BY <1>12, <2>1, <2>2, CallFacts, WaitFacts DEF ContinueFailed
<1>13. ASSUME AgentActivity PROVE TypeOK'
  BY <1>13 DEF AgentActivity
<1>14. ASSUME AgentEndsTurn PROVE TypeOK'
  BY <1>14 DEF AgentEndsTurn
<1>15. ASSUME Interrupt PROVE TypeOK'
  BY <1>15 DEF Interrupt
<1>16. ASSUME Compact PROVE TypeOK'
  BY <1>16 DEF Compact
<1>17. ASSUME AdapterStarts PROVE TypeOK'
  BY <1>17 DEF AdapterStarts
<1>18. ASSUME MarkStarted PROVE TypeOK'
  BY <1>18, StopFacts, WaitFacts DEF MarkStarted, BeginTurn
<1>19. ASSUME AgentDown PROVE TypeOK'
  BY <1>19, NextGen DEF AgentDown, DownLocked
<1>20. ASSUME BeginRestart PROVE TypeOK'
  BY <1>20, NextGen, StopFacts, WaitFacts DEF BeginRestart, DownLocked, Replaced
<1>21. ASSUME BeginSwitch PROVE TypeOK'
  BY <1>21, NextGen, StopFacts, WaitFacts DEF BeginSwitch, DownLocked, Replaced
<1>22. ASSUME LimitResets PROVE TypeOK'
  BY <1>22, StopFacts DEF LimitResets
<1>23. ASSUME ContinuationDue PROVE TypeOK'
  BY <1>23, StopFacts DEF ContinuationDue
<1>24. ASSUME RetryDelayPasses PROVE TypeOK'
  BY <1>24, WaitFacts DEF RetryDelayPasses
<1>25. ASSUME NEW r \in {"ok", "refused", "unconfirmed"}, CallSends(r) PROVE TypeOK'
  BY <1>25, CallFacts, ZenonT(60) DEF CallSends, Send
<1>26. ASSUME NEW g \in Gens, NEW r \in {"ok", "refused", "unconfirmed"}, PromptSends(g, r) PROVE TypeOK'
  BY <1>26 DEF PromptSends, Send
<1>27. ASSUME NEW g \in Gens, PromptReturns(g) PROVE TypeOK'
  BY <1>27 DEF PromptReturns, DeliveryFailed
<1>28. ASSUME NEW g \in Gens, TurnStarted(g) PROVE TypeOK'
  BY <1>28 DEF TurnStarted, CurrentSink
<1>29. ASSUME NEW g \in Gens, NEW result \in Results, TurnCompleted(g, result) PROVE TypeOK'
  BY <1>29, CompletedType DEF TurnCompleted
<1>30. ASSUME NEW g \in Gens, EndUnconfirmedTurn(g) PROVE TypeOK'
  BY <1>30, CompletedType DEF EndUnconfirmedTurn, Results
<1>31. ASSUME NEW g \in Gens, CompactDone(g) PROVE TypeOK'
  BY <1>31 DEF CompactDone
<1>32. CASE UNCHANGED vars
  BY <1>32 DEF vars
<1> QED
  BY <1>1, <1>2, <1>3, <1>4, <1>5, <1>6, <1>7, <1>8, <1>9, <1>10, <1>11, <1>12, <1>13, <1>14, <1>15, <1>16, <1>17, <1>18, <1>19, <1>20, <1>21, <1>22, <1>23, <1>24, <1>25, <1>26, <1>27, <1>28, <1>29, <1>30, <1>31, <1>32 DEF Next, Deliveries, Events

\* Every step keeps what is said of the read loop.
LEMMA NewsStep == TypeOK /\ NewsIsOfTheAgent /\ [Next]_vars => NewsIsOfTheAgent'
<1> SUFFICES ASSUME TypeOK, NewsIsOfTheAgent, [Next]_vars PROVE NewsIsOfTheAgent'
  OBVIOUS
<1> USE TurnControlAssumption DEF conversation, stops, threads, adapter, TypeOK, NewsIsOfTheAgent, Gens
<1>1. ASSUME StartTurn PROVE NewsIsOfTheAgent'
  BY <1>1 DEF StartTurn, Call
<1>2. ASSUME RetryNow PROVE NewsIsOfTheAgent'
  BY <1>2 DEF RetryNow, Call
<1>3. ASSUME ContinueIfDue PROVE NewsIsOfTheAgent'
  BY <1>3 DEF ContinueIfDue, Call, LimitDue, RetryDue, Idle
<1>4. ASSUME ScheduleContinue PROVE NewsIsOfTheAgent'
  BY <1>4 DEF ScheduleContinue
<1>5. ASSUME CancelContinue PROVE NewsIsOfTheAgent'
  BY <1>5 DEF CancelContinue
<1>6. ASSUME DismissLimitStop PROVE NewsIsOfTheAgent'
  BY <1>6 DEF DismissLimitStop
<1>7. ASSUME CancelRetry PROVE NewsIsOfTheAgent'
  BY <1>7 DEF CancelRetry
<1>8. ASSUME CallBegins PROVE NewsIsOfTheAgent'
  BY <1>8 DEF CallBegins, BeginTurn, CanBegin
<1>9. ASSUME CallChanging PROVE NewsIsOfTheAgent'
  BY <1>9 DEF CallChanging, AfterError
<1>10. ASSUME CallReturns PROVE NewsIsOfTheAgent'
  BY <1>10 DEF CallReturns, DeliveryFailed, AfterError
<1>11. ASSUME RetryNowFailed PROVE NewsIsOfTheAgent'
  BY <1>11 DEF RetryNowFailed
<1>12. ASSUME ContinueFailed PROVE NewsIsOfTheAgent'
  BY <1>12 DEF ContinueFailed, StopAgain, Stop, Wait
<1>13. ASSUME AgentActivity PROVE NewsIsOfTheAgent'
  BY <1>13 DEF AgentActivity
<1>14. ASSUME AgentEndsTurn PROVE NewsIsOfTheAgent'
  BY <1>14 DEF AgentEndsTurn
<1>15. ASSUME Interrupt PROVE NewsIsOfTheAgent'
  BY <1>15 DEF Interrupt
<1>16. ASSUME Compact PROVE NewsIsOfTheAgent'
  BY <1>16 DEF Compact
<1>17. ASSUME AdapterStarts PROVE NewsIsOfTheAgent'
  BY <1>17 DEF AdapterStarts
<1>18. ASSUME MarkStarted PROVE NewsIsOfTheAgent'
  BY <1>18 DEF MarkStarted, BeginTurn
<1>19. ASSUME AgentDown PROVE NewsIsOfTheAgent'
  BY <1>19 DEF AgentDown, DownLocked
<1>20. ASSUME BeginRestart PROVE NewsIsOfTheAgent'
  BY <1>20 DEF BeginRestart, DownLocked, Replaced
<1>21. ASSUME BeginSwitch PROVE NewsIsOfTheAgent'
  BY <1>21 DEF BeginSwitch, DownLocked, Replaced
<1>22. ASSUME LimitResets PROVE NewsIsOfTheAgent'
  BY <1>22 DEF LimitResets
<1>23. ASSUME ContinuationDue PROVE NewsIsOfTheAgent'
  BY <1>23 DEF ContinuationDue
<1>24. ASSUME RetryDelayPasses PROVE NewsIsOfTheAgent'
  BY <1>24 DEF RetryDelayPasses
<1>25. ASSUME NEW r \in {"ok", "refused", "unconfirmed"}, CallSends(r) PROVE NewsIsOfTheAgent'
  BY <1>25 DEF CallSends, Send
<1>26. ASSUME NEW g \in Gens, NEW r \in {"ok", "refused", "unconfirmed"}, PromptSends(g, r) PROVE NewsIsOfTheAgent'
  BY <1>26 DEF PromptSends, Send
<1>27. ASSUME NEW g \in Gens, PromptReturns(g) PROVE NewsIsOfTheAgent'
  BY <1>27 DEF PromptReturns, DeliveryFailed
<1>28. ASSUME NEW g \in Gens, TurnStarted(g) PROVE NewsIsOfTheAgent'
  BY <1>28 DEF TurnStarted, CurrentSink
<1>29. ASSUME NEW g \in Gens, NEW result \in Results, TurnCompleted(g, result) PROVE NewsIsOfTheAgent'
  BY <1>29 DEF TurnCompleted, CurrentSink, TurnCompletedLocked, LimitStopped, Limited, ResetsOf, RetryLocked, Results, Stop, Wait
<1>30. ASSUME NEW g \in Gens, EndUnconfirmedTurn(g) PROVE NewsIsOfTheAgent'
  BY <1>30 DEF EndUnconfirmedTurn, TurnCompletedLocked, LimitStopped, Limited, ResetsOf, RetryLocked, Stop, Wait
<1>31. ASSUME NEW g \in Gens, CompactDone(g) PROVE NewsIsOfTheAgent'
  BY <1>31 DEF CompactDone
<1>32. CASE UNCHANGED vars
  BY <1>32 DEF vars
<1> QED
  BY <1>1, <1>2, <1>3, <1>4, <1>5, <1>6, <1>7, <1>8, <1>9, <1>10, <1>11, <1>12, <1>13, <1>14, <1>15, <1>16, <1>17, <1>18, <1>19, <1>20, <1>21, <1>22, <1>23, <1>24, <1>25, <1>26, <1>27, <1>28, <1>29, <1>30, <1>31, <1>32 DEF Next, Deliveries, Events

\* Every step keeps what is said of an agent that is gone.
LEMMA DeadStep == TypeOK /\ NewsIsOfTheAgent /\ DeadAgentIsQuiet /\ [Next]_vars => DeadAgentIsQuiet'
<1> SUFFICES ASSUME TypeOK, NewsIsOfTheAgent, DeadAgentIsQuiet, [Next]_vars PROVE DeadAgentIsQuiet'
  OBVIOUS
<1> USE TurnControlAssumption DEF conversation, stops, threads, adapter, TypeOK, NewsIsOfTheAgent, DeadAgentIsQuiet, Gens
<1>1. ASSUME StartTurn PROVE DeadAgentIsQuiet'
  BY <1>1 DEF StartTurn, Call
<1>2. ASSUME RetryNow PROVE DeadAgentIsQuiet'
  BY <1>2 DEF RetryNow, Call
<1>3. ASSUME ContinueIfDue PROVE DeadAgentIsQuiet'
  BY <1>3 DEF ContinueIfDue, Call, LimitDue, RetryDue, Idle
<1>4. ASSUME ScheduleContinue PROVE DeadAgentIsQuiet'
  BY <1>4 DEF ScheduleContinue
<1>5. ASSUME CancelContinue PROVE DeadAgentIsQuiet'
  BY <1>5 DEF CancelContinue
<1>6. ASSUME DismissLimitStop PROVE DeadAgentIsQuiet'
  BY <1>6 DEF DismissLimitStop
<1>7. ASSUME CancelRetry PROVE DeadAgentIsQuiet'
  BY <1>7 DEF CancelRetry
<1>8. ASSUME CallBegins PROVE DeadAgentIsQuiet'
  BY <1>8 DEF CallBegins, BeginTurn, CanBegin
<1>9. ASSUME CallChanging PROVE DeadAgentIsQuiet'
  BY <1>9 DEF CallChanging, AfterError
<1>10. ASSUME CallReturns PROVE DeadAgentIsQuiet'
  BY <1>10 DEF CallReturns, DeliveryFailed, AfterError
<1>11. ASSUME RetryNowFailed PROVE DeadAgentIsQuiet'
  BY <1>11 DEF RetryNowFailed
<1>12. ASSUME ContinueFailed PROVE DeadAgentIsQuiet'
  BY <1>12 DEF ContinueFailed, StopAgain, Stop, Wait
<1>13. ASSUME AgentActivity PROVE DeadAgentIsQuiet'
  BY <1>13 DEF AgentActivity
<1>14. ASSUME AgentEndsTurn PROVE DeadAgentIsQuiet'
  BY <1>14 DEF AgentEndsTurn
<1>15. ASSUME Interrupt PROVE DeadAgentIsQuiet'
  BY <1>15 DEF Interrupt
<1>16. ASSUME Compact PROVE DeadAgentIsQuiet'
  BY <1>16 DEF Compact
<1>17. ASSUME AdapterStarts PROVE DeadAgentIsQuiet'
  BY <1>17 DEF AdapterStarts
<1>18. ASSUME MarkStarted PROVE DeadAgentIsQuiet'
  BY <1>18 DEF MarkStarted, BeginTurn
<1>19. ASSUME AgentDown PROVE DeadAgentIsQuiet'
  BY <1>19 DEF AgentDown, DownLocked
<1>20. ASSUME BeginRestart PROVE DeadAgentIsQuiet'
  BY <1>20 DEF BeginRestart, DownLocked, Replaced
<1>21. ASSUME BeginSwitch PROVE DeadAgentIsQuiet'
  BY <1>21 DEF BeginSwitch, DownLocked, Replaced
<1>22. ASSUME LimitResets PROVE DeadAgentIsQuiet'
  BY <1>22 DEF LimitResets
<1>23. ASSUME ContinuationDue PROVE DeadAgentIsQuiet'
  BY <1>23 DEF ContinuationDue
<1>24. ASSUME RetryDelayPasses PROVE DeadAgentIsQuiet'
  BY <1>24 DEF RetryDelayPasses
<1>25. ASSUME NEW r \in {"ok", "refused", "unconfirmed"}, CallSends(r) PROVE DeadAgentIsQuiet'
  BY <1>25 DEF CallSends, Send
<1>26. ASSUME NEW g \in Gens, NEW r \in {"ok", "refused", "unconfirmed"}, PromptSends(g, r) PROVE DeadAgentIsQuiet'
  BY <1>26 DEF PromptSends, Send
<1>27. ASSUME NEW g \in Gens, PromptReturns(g) PROVE DeadAgentIsQuiet'
  BY <1>27 DEF PromptReturns, DeliveryFailed
<1>28. ASSUME NEW g \in Gens, TurnStarted(g) PROVE DeadAgentIsQuiet'
  BY <1>28 DEF TurnStarted, CurrentSink
<1>29. ASSUME NEW g \in Gens, NEW result \in Results, TurnCompleted(g, result) PROVE DeadAgentIsQuiet'
  BY <1>29 DEF TurnCompleted, CurrentSink, TurnCompletedLocked, LimitStopped, Limited, ResetsOf, RetryLocked, Results, Stop, Wait
<1>30. ASSUME NEW g \in Gens, EndUnconfirmedTurn(g) PROVE DeadAgentIsQuiet'
  BY <1>30 DEF EndUnconfirmedTurn, TurnCompletedLocked, LimitStopped, Limited, ResetsOf, RetryLocked, Stop, Wait
<1>31. ASSUME NEW g \in Gens, CompactDone(g) PROVE DeadAgentIsQuiet'
  BY <1>31 DEF CompactDone
<1>32. CASE UNCHANGED vars
  BY <1>32 DEF vars
<1> QED
  BY <1>1, <1>2, <1>3, <1>4, <1>5, <1>6, <1>7, <1>8, <1>9, <1>10, <1>11, <1>12, <1>13, <1>14, <1>15, <1>16, <1>17, <1>18, <1>19, <1>20, <1>21, <1>22, <1>23, <1>24, <1>25, <1>26, <1>27, <1>28, <1>29, <1>30, <1>31, <1>32 DEF Next, Deliveries, Events

\* Every step keeps a turn ending.
LEMMA EndStep == TypeOK /\ NewsIsOfTheAgent /\ TurnHasAnEnd /\ [Next]_vars => TurnHasAnEnd'
<1> SUFFICES ASSUME TypeOK, NewsIsOfTheAgent, TurnHasAnEnd, [Next]_vars PROVE TurnHasAnEnd'
  OBVIOUS
<1> USE TurnControlAssumption DEF conversation, stops, threads, adapter, TypeOK, NewsIsOfTheAgent, TurnHasAnEnd, Delivering, Gens
<1>1. ASSUME StartTurn PROVE TurnHasAnEnd'
  BY <1>1, CallFacts DEF StartTurn
<1>2. ASSUME RetryNow PROVE TurnHasAnEnd'
  BY <1>2, CallFacts DEF RetryNow
<1>3. ASSUME ContinueIfDue PROVE TurnHasAnEnd'
  BY <1>3, CallFacts DEF ContinueIfDue, LimitDue, RetryDue, Idle
<1>4. ASSUME ScheduleContinue PROVE TurnHasAnEnd'
  BY <1>4 DEF ScheduleContinue
<1>5. ASSUME CancelContinue PROVE TurnHasAnEnd'
  BY <1>5 DEF CancelContinue
<1>6. ASSUME DismissLimitStop PROVE TurnHasAnEnd'
  BY <1>6 DEF DismissLimitStop
<1>7. ASSUME CancelRetry PROVE TurnHasAnEnd'
  BY <1>7 DEF CancelRetry
<1>8. ASSUME CallBegins PROVE TurnHasAnEnd'
  BY <1>8 DEF CallBegins, BeginTurn, CanBegin
<1>9. ASSUME CallChanging PROVE TurnHasAnEnd'
  BY <1>9 DEF CallChanging, AfterError
<1>10. ASSUME CallReturns PROVE TurnHasAnEnd'
  BY <1>10 DEF CallReturns, DeliveryFailed, AfterError
<1>11. ASSUME RetryNowFailed PROVE TurnHasAnEnd'
  BY <1>11 DEF RetryNowFailed
<1>12. ASSUME ContinueFailed PROVE TurnHasAnEnd'
  BY <1>12 DEF ContinueFailed, StopAgain, Stop, Wait
<1>13. ASSUME AgentActivity PROVE TurnHasAnEnd'
  BY <1>13 DEF AgentActivity
<1>14. ASSUME AgentEndsTurn PROVE TurnHasAnEnd'
  BY <1>14 DEF AgentEndsTurn
<1>15. ASSUME Interrupt PROVE TurnHasAnEnd'
  BY <1>15 DEF Interrupt
<1>16. ASSUME Compact PROVE TurnHasAnEnd'
  BY <1>16 DEF Compact
<1>17. ASSUME AdapterStarts PROVE TurnHasAnEnd'
  BY <1>17 DEF AdapterStarts
<1>18. ASSUME MarkStarted PROVE TurnHasAnEnd'
  BY <1>18 DEF MarkStarted, BeginTurn
<1>19. ASSUME AgentDown PROVE TurnHasAnEnd'
  BY <1>19 DEF AgentDown, DownLocked
<1>20. ASSUME BeginRestart PROVE TurnHasAnEnd'
  BY <1>20 DEF BeginRestart, DownLocked, Replaced
<1>21. ASSUME BeginSwitch PROVE TurnHasAnEnd'
  BY <1>21 DEF BeginSwitch, DownLocked, Replaced
<1>22. ASSUME LimitResets PROVE TurnHasAnEnd'
  BY <1>22 DEF LimitResets
<1>23. ASSUME ContinuationDue PROVE TurnHasAnEnd'
  BY <1>23 DEF ContinuationDue
<1>24. ASSUME RetryDelayPasses PROVE TurnHasAnEnd'
  BY <1>24 DEF RetryDelayPasses
<1>25. ASSUME NEW r \in {"ok", "refused", "unconfirmed"}, CallSends(r) PROVE TurnHasAnEnd'
  BY <1>25 DEF CallSends, Send
<1>26. ASSUME NEW g \in Gens, NEW r \in {"ok", "refused", "unconfirmed"}, PromptSends(g, r) PROVE TurnHasAnEnd'
  BY <1>26 DEF PromptSends, Send
<1>27. ASSUME NEW g \in Gens, PromptReturns(g) PROVE TurnHasAnEnd'
  BY <1>27 DEF PromptReturns, DeliveryFailed
<1>28. ASSUME NEW g \in Gens, TurnStarted(g) PROVE TurnHasAnEnd'
  BY <1>28 DEF TurnStarted, CurrentSink
<1>29. ASSUME NEW g \in Gens, NEW result \in Results, TurnCompleted(g, result) PROVE TurnHasAnEnd'
  BY <1>29 DEF TurnCompleted, CurrentSink, TurnCompletedLocked, LimitStopped, Limited, ResetsOf, RetryLocked, Results, Stop, Wait
<1>30. ASSUME NEW g \in Gens, EndUnconfirmedTurn(g) PROVE TurnHasAnEnd'
  BY <1>30 DEF EndUnconfirmedTurn, TurnCompletedLocked, LimitStopped, Limited, ResetsOf, RetryLocked, Stop, Wait
<1>31. ASSUME NEW g \in Gens, CompactDone(g) PROVE TurnHasAnEnd'
  BY <1>31 DEF CompactDone
<1>32. CASE UNCHANGED vars
  BY <1>32 DEF vars
<1> QED
  BY <1>1, <1>2, <1>3, <1>4, <1>5, <1>6, <1>7, <1>8, <1>9, <1>10, <1>11, <1>12, <1>13, <1>14, <1>15, <1>16, <1>17, <1>18, <1>19, <1>20, <1>21, <1>22, <1>23, <1>24, <1>25, <1>26, <1>27, <1>28, <1>29, <1>30, <1>31, <1>32 DEF Next, Deliveries, Events

\* Every step keeps an owed continuation.
LEMMA OwedStep == TypeOK /\ OwedIsScheduled /\ [Next]_vars => OwedIsScheduled'
<1> SUFFICES ASSUME TypeOK, OwedIsScheduled, [Next]_vars PROVE OwedIsScheduled'
  OBVIOUS
<1> USE TurnControlAssumption DEF conversation, stops, threads, adapter, TypeOK, OwedIsScheduled, Scheduled, NoStop, Gens
<1>1. ASSUME StartTurn PROVE OwedIsScheduled'
  BY <1>1, CallFacts DEF StartTurn
<1>2. ASSUME RetryNow PROVE OwedIsScheduled'
  BY <1>2, CallFacts DEF RetryNow
<1>3. ASSUME ContinueIfDue PROVE OwedIsScheduled'
  BY <1>3, CallFacts DEF ContinueIfDue, LimitDue, RetryDue, Idle
<1>4. ASSUME ScheduleContinue PROVE OwedIsScheduled'
  BY <1>4 DEF ScheduleContinue
<1>5. ASSUME CancelContinue PROVE OwedIsScheduled'
  BY <1>5 DEF CancelContinue
<1>6. ASSUME DismissLimitStop PROVE OwedIsScheduled'
  BY <1>6 DEF DismissLimitStop
<1>7. ASSUME CancelRetry PROVE OwedIsScheduled'
  BY <1>7 DEF CancelRetry
<1>8. ASSUME CallBegins PROVE OwedIsScheduled'
  BY <1>8 DEF CallBegins, BeginTurn, CanBegin
<1>9. ASSUME CallChanging PROVE OwedIsScheduled'
  BY <1>9 DEF CallChanging, AfterError
<1>10. ASSUME CallReturns PROVE OwedIsScheduled'
  BY <1>10, CallFacts DEF CallReturns, DeliveryFailed, AfterError, Calls
<1>11. ASSUME RetryNowFailed PROVE OwedIsScheduled'
  BY <1>11 DEF RetryNowFailed
<1>12. ASSUME ContinueFailed PROVE OwedIsScheduled'
  BY <1>12 DEF ContinueFailed, StopAgain, Stop, Wait
<1>13. ASSUME AgentActivity PROVE OwedIsScheduled'
  BY <1>13 DEF AgentActivity
<1>14. ASSUME AgentEndsTurn PROVE OwedIsScheduled'
  BY <1>14 DEF AgentEndsTurn
<1>15. ASSUME Interrupt PROVE OwedIsScheduled'
  BY <1>15 DEF Interrupt
<1>16. ASSUME Compact PROVE OwedIsScheduled'
  BY <1>16 DEF Compact
<1>17. ASSUME AdapterStarts PROVE OwedIsScheduled'
  BY <1>17 DEF AdapterStarts
<1>18. ASSUME MarkStarted PROVE OwedIsScheduled'
  BY <1>18 DEF MarkStarted, BeginTurn
<1>19. ASSUME AgentDown PROVE OwedIsScheduled'
  BY <1>19 DEF AgentDown, DownLocked
<1>20. ASSUME BeginRestart PROVE OwedIsScheduled'
  BY <1>20 DEF BeginRestart, DownLocked, Replaced
<1>21. ASSUME BeginSwitch PROVE OwedIsScheduled'
  BY <1>21 DEF BeginSwitch, DownLocked, Replaced
<1>22. ASSUME LimitResets PROVE OwedIsScheduled'
  BY <1>22 DEF LimitResets
<1>23. ASSUME ContinuationDue PROVE OwedIsScheduled'
  BY <1>23 DEF ContinuationDue
<1>24. ASSUME RetryDelayPasses PROVE OwedIsScheduled'
  BY <1>24 DEF RetryDelayPasses
<1>25. ASSUME NEW r \in {"ok", "refused", "unconfirmed"}, CallSends(r) PROVE OwedIsScheduled'
  BY <1>25, CallFacts DEF CallSends, Send, Calls
<1>26. ASSUME NEW g \in Gens, NEW r \in {"ok", "refused", "unconfirmed"}, PromptSends(g, r) PROVE OwedIsScheduled'
  BY <1>26 DEF PromptSends, Send
<1>27. ASSUME NEW g \in Gens, PromptReturns(g) PROVE OwedIsScheduled'
  BY <1>27 DEF PromptReturns, DeliveryFailed
<1>28. ASSUME NEW g \in Gens, TurnStarted(g) PROVE OwedIsScheduled'
  BY <1>28 DEF TurnStarted, CurrentSink
<1>29. ASSUME NEW g \in Gens, NEW result \in Results, TurnCompleted(g, result) PROVE OwedIsScheduled'
  BY <1>29 DEF TurnCompleted, CurrentSink, TurnCompletedLocked, LimitStopped, Limited, ResetsOf, RetryLocked, Results, Stop, Wait
<1>30. ASSUME NEW g \in Gens, EndUnconfirmedTurn(g) PROVE OwedIsScheduled'
  BY <1>30 DEF EndUnconfirmedTurn, TurnCompletedLocked, LimitStopped, Limited, ResetsOf, RetryLocked, Stop, Wait
<1>31. ASSUME NEW g \in Gens, CompactDone(g) PROVE OwedIsScheduled'
  BY <1>31 DEF CompactDone
<1>32. CASE UNCHANGED vars
  BY <1>32 DEF vars
<1> QED
  BY <1>1, <1>2, <1>3, <1>4, <1>5, <1>6, <1>7, <1>8, <1>9, <1>10, <1>11, <1>12, <1>13, <1>14, <1>15, <1>16, <1>17, <1>18, <1>19, <1>20, <1>21, <1>22, <1>23, <1>24, <1>25, <1>26, <1>27, <1>28, <1>29, <1>30, <1>31, <1>32 DEF Next, Deliveries, Events

-----------------------------------------------------------------------------
(* The theorems. *)

\* The first states satisfy the invariant.
LEMMA InitIInv == Init => IInv
<1> SUFFICES ASSUME Init PROVE IInv
  OBVIOUS
<1>1. limitStop \in Stops
  BY StopFacts DEF Init
<1>2. retryWait \in Waits
  <2>1. \A a \in 1 .. MaxRetries : Wait(a, FALSE) \in Waits
    <3>1. \A a \in 1 .. MaxRetries : a \in 0 .. MaxRetries
      BY TurnControlAssumption
    <3> QED
      BY <3>1, WaitFacts
  <2> QED
    BY <2>1, WaitFacts DEF Init
<1>3. TypeOK
  <2>1. owed \in BOOLEAN
    BY SMT DEF Init, Scheduled
  <2>2. promptSent \in BOOLEAN
    BY TurnControlAssumption DEF Init
  <2>3. generation \in Gens
    BY TurnControlAssumption DEF Init, Gens
  <2> QED
    BY <1>1, <1>2, <2>1, <2>2, <2>3, CallFacts, WaitFacts DEF Init, TypeOK
<1>4. NewsIsOfTheAgent
  BY TurnControlAssumption DEF Init, NewsIsOfTheAgent, Gens
<1>5. DeadAgentIsQuiet /\ TurnHasAnEnd /\ OwedIsScheduled
  BY DEF Init, DeadAgentIsQuiet, TurnHasAnEnd, OwedIsScheduled
<1> QED
  BY <1>3, <1>4, <1>5 DEF IInv

\* The invariant holds in every state.
LEMMA Invariance == Spec => []IInv
<1>1. IInv /\ [Next]_vars => IInv'
  BY TypeStep, NewsStep, DeadStep, EndStep, OwedStep DEF IInv
<1> QED
  BY InitIInv, <1>1, PTL DEF Spec

\* Every variable keeps its type; in particular no retry beyond
\* Config.RetryDelays is waited for (retryLocked).
THEOREM Types == Spec => []TypeOK
BY Invariance, PTL DEF IInv

\* A turn never stays active with nothing to end it, whatever the adapter
\* refuses, leaves unconfirmed or starts by itself and whichever agent exits
\* meanwhile (beginTurnLocked, deliverTurn, sink.TurnCompleted).
THEOREM TurnEnds == Spec => []TurnHasAnEnd
BY Invariance, PTL DEF IInv

\* Without an adapter there is no turn, start or compaction, and compacting
\* never sticks (downLocked, sink.update, Conversation.Compact).
THEOREM AgentDies == Spec => []DeadAgentIsQuiet
BY Invariance, PTL DEF IInv

\* A continuation that was promised is scheduled or on its way until a turn
\* starts or the user cancels it (ContinueIfDue, limitStoppedLocked).
THEOREM ContinuationIsKept == Spec => []ContinuationKept
<1>1. IInv => ContinuationKept
  BY DEF IInv, OwedIsScheduled, ContinuationKept
<1> QED
  BY <1>1, Invariance, PTL
=============================================================================
