------------------------- MODULE RequestBook_proofs -------------------------
(***************************************************************************)
(* Proofs that, for every number of requests and agents and every bound on *)
(* the closed requests, no request is answered twice, an answer goes only   *)
(* to the agent that asked, and a request shown as resolved was answered.   *)
(*                                                                         *)
(* None of the three is inductive.  The invariant below ties the stage of   *)
(* an answer (delivery, answering) to the request's status and to how often *)
(* an answer may have reached the agent.                                    *)
(***************************************************************************)
EXTENDS RequestBook, TLAPS

\* An answer is being delivered exactly while its Respond runs, and only a
\* pending request has an answer on its way or unconfirmed.
DeliveryMatchesBook ==
    \A i \in Ids : /\ delivery[i] # "none" <=> answering[i] = "delivering"
                   /\ answering[i] # "none" => status[i] = "pending"
                   /\ i > opened => status[i] = "none" /\ reached[i] = 0

\* How often an answer may have reached the agent, by stage.
ReachedByStage ==
    \A i \in Ids : /\ status[i] = "pending" /\ answering[i] = "none" => reached[i] = 0
                   /\ delivery[i] \in {"call", "refused"} => reached[i] = 0
                   /\ delivery[i] \in {"ok", "unconfirmed"} => reached[i] = 1
                   /\ answering[i] = "unconfirmed" => reached[i] = 1

\* An answer that outlives its agent found the request closed meanwhile.
LateAnswerIsClosed ==
    \A i \in Ids : answering[i] = "delivering" /\ owner[i] # generation
                      => deferred[i] # NoClose

\* The inductive invariant.
IInv ==
    /\ TypeOK
    /\ LateAnswerIsClosed
    /\ DeliveryMatchesBook
    /\ ReachedByStage
    /\ AnsweredAtMostOnce
    /\ AnswerGoesToTheAsker
    /\ ResolvedIsAnswered

-----------------------------------------------------------------------------
(* The operators. *)

\* trim only drops closed requests, and leaves the others as they are.
LEMMA TrimDropsOnlyClosed ==
    ASSUME NEW st \in [Ids -> Closed \union {"none", "pending"}],
           NEW at \in [Ids -> Nat]
    PROVE  /\ Trim(st, at) \in [Ids -> Closed \union {"none", "pending"}]
           /\ \A i \in Ids : Trim(st, at)[i] = st[i]
                                \/ (st[i] \in Closed /\ Trim(st, at)[i] = "none")
<1> DEFINE closed == {i \in Ids : st[i] \in Closed}
           excess == {i \in closed :
                        Cardinality({j \in closed : ClosedLater(at, j, i)}) >= MaxClosed}
<1>1. Trim(st, at) = [i \in Ids |-> IF i \in excess THEN "none" ELSE st[i]]
  BY DEF Trim
<1>2. \A i \in excess : st[i] \in Closed
  OBVIOUS
<1> HIDE DEF excess
<1> QED
  BY <1>1, <1>2

\* The invariant holds of an empty book.
LEMMA InitIInv == Init => IInv
<1> SUFFICES ASSUME Init PROVE IInv
  OBVIOUS
<1>1. NoClose \in Closes /\ 0 \in Gens /\ 0 \in 0 .. MaxId
  BY RequestBookAssumption DEF NoClose, Closes, Gens
<1>2. TypeOK
  BY <1>1 DEF Init, TypeOK
<1>3. DeliveryMatchesBook
  BY DEF Init, DeliveryMatchesBook
<1>4. ReachedByStage
  BY DEF Init, ReachedByStage
<1>5. AnsweredAtMostOnce /\ AnswerGoesToTheAsker /\ ResolvedIsAnswered
  BY DEF Init, AnsweredAtMostOnce, AnswerGoesToTheAsker, ResolvedIsAnswered
<1>6. LateAnswerIsClosed
  BY DEF Init, LateAnswerIsClosed
<1> QED
  BY <1>6, <1>2, <1>3, <1>4, <1>5 DEF IInv

\* What CloseAll does to one request: it stays as it is, takes the put-off
\* close, or closes; a closed one may be dropped.
CloseEffect(i, how) ==
    /\ \/ ClosesNow(i) /\ status'[i] \in {how[i].status, "none"} /\ answering'[i] = "none"
       \/ ~ClosesNow(i) /\ answering'[i] = answering[i]
             /\ (status'[i] = status[i] \/ (status[i] \in Closed /\ status'[i] = "none"))

\* CloseAll (close, closeAll, trim) keeps the types, forgets no put-off close,
\* and has the effect above on the requests it closes.
LEMMA CloseAllEffect ==
    ASSUME TypeOK, NEW S \in SUBSET Ids, NEW how,
           how \in [Ids -> Closes], \A i \in Ids : how[i].status \in Closed,
           CloseAll(S, how)
    PROVE  /\ status' \in [Ids -> Closed \union {"none", "pending"}]
           /\ capability' \in [Ids -> {"live", "message", "notResumable"}]
           /\ closedAt' \in [Ids -> Nat] /\ clock' \in Nat
           /\ answering' \in [Ids -> {"none", "delivering", "unconfirmed"}]
           /\ deferred' \in [Ids -> Closes]
           /\ \A i \in Ids : deferred[i] # NoClose => deferred'[i] # NoClose
           /\ \A i \in S : status[i] = "pending" /\ answering[i] = "delivering"
                               => deferred'[i] # NoClose
           /\ \A i \in S : CloseEffect(i, how)
           /\ \A i \in Ids \ S :
                 /\ answering'[i] = answering[i]
                 /\ status'[i] = status[i] \/ (status[i] \in Closed /\ status'[i] = "none")
<1> DEFINE now == {i \in S : ClosesNow(i)}
           at  == [i \in Ids |-> IF i \in now THEN clock + 1 ELSE closedAt[i]]
           st  == [i \in Ids |-> IF i \in now THEN how[i].status ELSE status[i]]
<1>1. at \in [Ids -> Nat]
  BY DEF TypeOK
<1>2. st \in [Ids -> Closed \union {"none", "pending"}]
  BY DEF TypeOK
<1>3. /\ status' = Trim(st, at) /\ closedAt' = at
      /\ answering' = [i \in Ids |-> IF i \in now THEN "none" ELSE answering[i]]
  BY DEF CloseAll
<1>4. /\ status' \in [Ids -> Closed \union {"none", "pending"}]
      /\ \A i \in Ids : status'[i] = st[i] \/ (st[i] \in Closed /\ status'[i] = "none")
  BY <1>1, <1>2, <1>3, TrimDropsOnlyClosed
<1>5. /\ capability' \in [Ids -> {"live", "message", "notResumable"}]
      /\ clock' \in Nat
      /\ answering' \in [Ids -> {"none", "delivering", "unconfirmed"}]
      /\ deferred' \in [Ids -> Closes]
  <2>1. \A i \in Ids : how[i].capability \in {"live", "message", "notResumable"}
    BY DEF Closes
  <2> QED
    BY <2>1 DEF CloseAll, TypeOK
<1>6. \A i \in Ids : i \in now <=> i \in S /\ ClosesNow(i)
  OBVIOUS
<1>7. \A i \in Ids : st[i] = IF i \in now THEN how[i].status ELSE status[i]
  OBVIOUS
<1>8. \A i \in Ids : answering'[i] = IF i \in now THEN "none" ELSE answering[i]
  BY <1>3
<1>9. closedAt' \in [Ids -> Nat]
  BY <1>1, <1>3
<1>10. \A i \in Ids : how[i] # NoClose
  BY DEF NoClose, Closed
<1>11. /\ \A i \in Ids : deferred[i] # NoClose => deferred'[i] # NoClose
       /\ \A i \in S : status[i] = "pending" /\ answering[i] = "delivering"
                           => deferred'[i] # NoClose
  BY <1>10 DEF CloseAll, TypeOK
<1> HIDE DEF now, at, st
<1> QED
  BY <1>4, <1>5, <1>6, <1>7, <1>8, <1>9, <1>11 DEF CloseEffect

-----------------------------------------------------------------------------
(* Every step keeps the invariant. *)

\* The closes that leave the agent running: a withdrawal and the end of a turn.
LEMMA CloseKeepsIInv ==
    ASSUME IInv, NEW S \in SUBSET Ids, NEW how,
           how \in [Ids -> Closes],
           \A i \in Ids : how[i].status \in {"withdrawn", "expired"},
           CloseAll(S, how),
           UNCHANGED <<generation, adapterUp, opened, owner, delivery, reached>>
    PROVE  IInv'
<1>1. \A i \in Ids : how[i].status \in Closed
  BY DEF Closed
<1>2. TypeOK
  BY DEF IInv
<1>3. /\ status' \in [Ids -> Closed \union {"none", "pending"}]
      /\ capability' \in [Ids -> {"live", "message", "notResumable"}]
      /\ closedAt' \in [Ids -> Nat] /\ clock' \in Nat
      /\ answering' \in [Ids -> {"none", "delivering", "unconfirmed"}]
      /\ deferred' \in [Ids -> Closes]
      /\ \A i \in S : CloseEffect(i, how)
      /\ \A i \in Ids \ S :
            /\ answering'[i] = answering[i]
            /\ status'[i] = status[i] \/ (status[i] \in Closed /\ status'[i] = "none")
  BY <1>1, <1>2, CloseAllEffect
<1>4. TypeOK'
  BY <1>2, <1>3 DEF TypeOK
<1>5. ASSUME NEW i \in Ids
      PROVE  \/ answering'[i] = answering[i]
                  /\ status'[i] = status[i]
             \/ answering'[i] = answering[i]
                  /\ status[i] \in Closed /\ status'[i] = "none"
             \/ answering'[i] = "none" /\ answering[i] # "delivering" /\ status[i] = "pending"
                  /\ status'[i] \in {"withdrawn", "expired", "none"}
  BY <1>3 DEF CloseEffect, ClosesNow
<1>6. DeliveryMatchesBook'
  BY <1>5 DEF IInv, DeliveryMatchesBook, Closed
<1>7. ReachedByStage'
  BY <1>5 DEF IInv, ReachedByStage, DeliveryMatchesBook, Closed
<1>8. AnsweredAtMostOnce'
  BY DEF IInv, AnsweredAtMostOnce
<1>9. AnswerGoesToTheAsker'
  BY <1>5 DEF IInv, AnswerGoesToTheAsker, Closed
<1>10. ResolvedIsAnswered'
  BY <1>5 DEF IInv, ResolvedIsAnswered, Closed
<1>11. \A i \in Ids : deferred[i] # NoClose => deferred'[i] # NoClose
  BY <1>1, <1>2, CloseAllEffect
<1>12. LateAnswerIsClosed'
  BY <1>5, <1>11 DEF IInv, LateAnswerIsClosed
<1> QED
  BY <1>12, <1>4, <1>6, <1>7, <1>8, <1>9, <1>10 DEF IInv

\* Every step of the book, its agents and the answers keeps the invariant.
LEMMA NextIInv == IInv /\ [Next]_vars => IInv'
<1> SUFFICES ASSUME IInv, [Next]_vars PROVE IInv'
  OBVIOUS
<1> USE DEF IInv
<1>1. CASE AdapterStarts
  BY <1>1 DEF AdapterStarts, book, TypeOK, LateAnswerIsClosed, DeliveryMatchesBook, ReachedByStage,
     AnsweredAtMostOnce, AnswerGoesToTheAsker, ResolvedIsAnswered
<1>2. CASE RequestOpened
  <2>1. opened + 1 \in Ids /\ opened \in Nat
    BY <1>2, RequestBookAssumption DEF RequestOpened, TypeOK, Ids
  <2>2. TypeOK'
    BY <1>2, <2>1, RequestBookAssumption DEF RequestOpened, TypeOK, Ids
  <2>3. status[opened + 1] = "none" /\ reached[opened + 1] = 0
    BY <2>1 DEF DeliveryMatchesBook
  <2>4. answering[opened + 1] = "none" /\ delivery[opened + 1] = "none"
    BY <2>1, <2>3 DEF DeliveryMatchesBook, TypeOK
  <2>5. DeliveryMatchesBook'
    BY <1>2, <2>1, <2>3, <2>4 DEF RequestOpened, DeliveryMatchesBook, TypeOK, Ids
  <2>6. ReachedByStage'
    BY <1>2, <2>1, <2>3, <2>4 DEF RequestOpened, ReachedByStage, TypeOK
  <2>7. AnsweredAtMostOnce'
    BY <1>2 DEF RequestOpened, AnsweredAtMostOnce
  <2>8. AnswerGoesToTheAsker'
    BY <1>2, <2>1 DEF RequestOpened, AnswerGoesToTheAsker, TypeOK
  <2>9. ResolvedIsAnswered'
    BY <1>2, <2>1 DEF RequestOpened, ResolvedIsAnswered, TypeOK
  <2>10. LateAnswerIsClosed'
    BY <1>2, <2>1 DEF RequestOpened, LateAnswerIsClosed, TypeOK
  <2> QED
    BY <2>10, <2>2, <2>5, <2>6, <2>7, <2>8, <2>9
<1>3. CASE TurnCompleted
  <2> DEFINE how == [i \in Ids |-> [status |-> "expired", capability |-> ClosedCapability(i)]]
  <2>1. /\ how \in [Ids -> Closes]
        /\ \A i \in Ids : how[i].status \in {"withdrawn", "expired"}
    BY DEF Closes, Closed, ClosedCapability
  <2>2. CloseAll(Ids, how)
    BY <1>3 DEF TurnCompleted, Expire
  <2>3. UNCHANGED <<generation, adapterUp, opened, owner, delivery, reached>>
    BY <1>3 DEF TurnCompleted
  <2> HIDE DEF how
  <2> QED
    BY <2>1, <2>2, <2>3, CloseKeepsIInv DEF IInv
<1>4. ASSUME NEW i \in Ids, RequestClosed(i) PROVE IInv'
  <2> DEFINE how == [j \in Ids |-> [status |-> "withdrawn", capability |-> ClosedCapability(j)]]
  <2>1. /\ how \in [Ids -> Closes]
        /\ \A j \in Ids : how[j].status \in {"withdrawn", "expired"}
    BY DEF Closes, Closed, ClosedCapability
  <2>2. CloseAll({i}, how)
    BY <1>4 DEF RequestClosed
  <2>3. UNCHANGED <<generation, adapterUp, opened, owner, delivery, reached>>
    BY <1>4 DEF RequestClosed
  <2>4. {i} \in SUBSET Ids
    OBVIOUS
  <2> HIDE DEF how
  <2> QED
    BY <2>1, <2>2, <2>3, <2>4, CloseKeepsIInv DEF IInv
<1>5. CASE DownLocked
  <2> DEFINE how == [i \in Ids |-> [status |-> "expired", capability |-> "notResumable"]]
  <2>1. /\ how \in [Ids -> Closes]
        /\ \A i \in Ids : how[i].status \in Closed /\ how[i].status = "expired"
    BY DEF Closes, Closed
  <2>2. CloseAll(Ids, how)
    BY <1>5 DEF DownLocked, Expire
  <2>3. /\ generation' = generation + 1 /\ generation < MaxGen /\ adapterUp' = FALSE
        /\ UNCHANGED <<opened, owner, delivery, reached>>
    BY <1>5 DEF DownLocked
  <2> HIDE DEF how
  <2>4. /\ status' \in [Ids -> Closed \union {"none", "pending"}]
        /\ capability' \in [Ids -> {"live", "message", "notResumable"}]
        /\ closedAt' \in [Ids -> Nat] /\ clock' \in Nat
        /\ answering' \in [Ids -> {"none", "delivering", "unconfirmed"}]
        /\ deferred' \in [Ids -> Closes]
        /\ \A i \in Ids : CloseEffect(i, how)
    BY <2>1, <2>2, CloseAllEffect
  <2>5. TypeOK'
    <3>1. generation' \in Gens
      BY <2>3, RequestBookAssumption DEF TypeOK, Gens
    <3> QED
      BY <2>3, <2>4, <3>1 DEF TypeOK
  <2>6. ASSUME NEW i \in Ids
        PROVE  \/ answering'[i] = "none" /\ answering[i] # "delivering"
                    /\ status[i] = "pending" /\ status'[i] \in {"expired", "none"}
               \/ answering'[i] = answering[i]
                    /\ (status[i] # "pending" \/ answering[i] = "delivering")
                    /\ (status'[i] = status[i] \/ (status[i] \in Closed /\ status'[i] = "none"))
    BY <2>1, <2>4 DEF CloseEffect, ClosesNow
  <2>7. DeliveryMatchesBook'
    BY <2>3, <2>6 DEF DeliveryMatchesBook, Closed
  <2>8. ReachedByStage'
    BY <2>3, <2>6 DEF ReachedByStage, DeliveryMatchesBook, Closed
  <2>9. AnsweredAtMostOnce'
    BY <2>3 DEF AnsweredAtMostOnce
  <2>10. AnswerGoesToTheAsker'
    BY <2>6 DEF AnswerGoesToTheAsker, Closed
  <2>11. ResolvedIsAnswered'
    BY <2>3, <2>6 DEF ResolvedIsAnswered, Closed
  <2>12. \A i \in Ids : status[i] = "pending" /\ answering[i] = "delivering"
                           => deferred'[i] # NoClose
    BY <2>1, <2>2, CloseAllEffect
  <2>13. LateAnswerIsClosed'
    BY <2>6, <2>12 DEF LateAnswerIsClosed, DeliveryMatchesBook
  <2> QED
    BY <2>13, <2>5, <2>7, <2>8, <2>9, <2>10, <2>11
<1>6. ASSUME NEW i \in Ids, Respond(i) PROVE IInv'
  <2>1. NoClose \in Closes
    BY DEF NoClose, Closes
  <2>2. TypeOK'
    BY <1>6, <2>1 DEF Respond, TypeOK
  <2>3. DeliveryMatchesBook'
    BY <1>6 DEF Respond, Answerable, DeliveryMatchesBook, TypeOK
  <2>4. ReachedByStage'
    BY <1>6 DEF Respond, Answerable, ReachedByStage, TypeOK
  <2>5. AnsweredAtMostOnce' /\ AnswerGoesToTheAsker' /\ ResolvedIsAnswered'
    BY <1>6 DEF Respond, Answerable, AnsweredAtMostOnce, AnswerGoesToTheAsker,
       ResolvedIsAnswered, TypeOK
  <2>6. LateAnswerIsClosed'
    BY <1>6 DEF Respond, Answerable, LateAnswerIsClosed, AnswerGoesToTheAsker, TypeOK
  <2> QED
    BY <2>2, <2>3, <2>4, <2>5, <2>6
<1>7. ASSUME NEW i \in Ids, NEW r \in {"ok", "refused", "unconfirmed"}, AdapterResponds(i, r)
      PROVE  IInv'
  <2>1. TypeOK'
    BY <1>7 DEF AdapterResponds, book, TypeOK
  <2>2. reached[i] = 0 /\ status[i] = "pending"
    BY <1>7 DEF AdapterResponds, ReachedByStage, DeliveryMatchesBook
  <2>3. DeliveryMatchesBook'
    BY <1>7, <2>2 DEF AdapterResponds, book, DeliveryMatchesBook, TypeOK
  <2>4. ReachedByStage'
    BY <1>7, <2>2 DEF AdapterResponds, book, ReachedByStage, DeliveryMatchesBook, TypeOK
  <2>5. AnsweredAtMostOnce' /\ AnswerGoesToTheAsker' /\ ResolvedIsAnswered'
    BY <1>7, <2>2 DEF AdapterResponds, book, AnsweredAtMostOnce, AnswerGoesToTheAsker,
       ResolvedIsAnswered, TypeOK
  <2>6. LateAnswerIsClosed'
    BY <1>7 DEF AdapterResponds, book, LateAnswerIsClosed
  <2> QED
    BY <2>1, <2>3, <2>4, <2>5, <2>6
<1>8. ASSUME NEW i \in Ids, EndAnswer(i) PROVE IInv'
  <2> DEFINE how    == EndAnswerClose(i)
             closes == how # NoClose
             at     == [closedAt EXCEPT ![i] = IF closes THEN clock + 1 ELSE @]
             st     == [status EXCEPT ![i] = how.status]
  <2>1. /\ how.status \in Closed \union {"none"}
        /\ how.capability \in {"live", "message", "notResumable"}
        /\ how.status = "resolved" => delivery[i] = "ok"
        /\ NoClose \in Closes
    BY DEF EndAnswerClose, TypeOK, Closes, NoClose, Closed
  <2>2. at \in [Ids -> Nat]
    BY DEF TypeOK
  <2>3. status[i] = "pending" /\ answering[i] = "delivering"
    BY <1>8 DEF EndAnswer, DeliveryMatchesBook
  <2>4. /\ status' \in [Ids -> Closed \union {"none", "pending"}]
        /\ \A j \in Ids \ {i} :
              status'[j] = status[j] \/ (status[j] \in Closed /\ status'[j] = "none")
        /\ closes => status'[i] \in {how.status, "none"}
        /\ ~closes => status'[i] = "pending"
    <3>1. CASE closes
      <4>1. st \in [Ids -> Closed \union {"none", "pending"}]
        BY <2>1 DEF TypeOK
      <4>2. status' = Trim(st, at)
        BY <1>8, <3>1 DEF EndAnswer
      <4>3. st[i] = how.status /\ \A j \in Ids \ {i} : st[j] = status[j]
        BY DEF TypeOK
      <4> HIDE DEF st, at, how, closes
      <4>4. /\ Trim(st, at) \in [Ids -> Closed \union {"none", "pending"}]
            /\ \A j \in Ids : Trim(st, at)[j] = st[j]
                                 \/ (st[j] \in Closed /\ Trim(st, at)[j] = "none")
        BY <2>2, <4>1, TrimDropsOnlyClosed
      <4> QED
        BY <3>1, <4>2, <4>3, <4>4
    <3>2. CASE ~closes
      BY <1>8, <2>3, <3>2 DEF EndAnswer, TypeOK
    <3> QED
      BY <3>1, <3>2
  <2>5. /\ answering' = [answering EXCEPT ![i] = IF closes THEN "none" ELSE EndAnswerState(i)]
        /\ closedAt' = at
        /\ clock' \in Nat
        /\ capability' = [capability EXCEPT ![i] = IF closes THEN how.capability ELSE @]
        /\ delivery' = [delivery EXCEPT ![i] = "none"]
        /\ deferred' = [deferred EXCEPT ![i] = NoClose]
        /\ UNCHANGED <<generation, adapterUp, opened, owner, reached>>
        /\ delivery[i] \in {"ok", "refused", "unconfirmed"}
    BY <1>8 DEF EndAnswer, TypeOK
  <2>6. delivery[i] = "ok" => how.status = "resolved" /\ closes
    BY DEF EndAnswerClose, NoClose
  <2>7. EndAnswerState(i) \in {"none", "unconfirmed"}
        /\ (EndAnswerState(i) = "none" => delivery[i] # "unconfirmed")
        /\ (EndAnswerState(i) = "unconfirmed" => delivery[i] = "unconfirmed")
    BY DEF EndAnswerState
  <2> HIDE DEF how, closes, at
  <2>8. TypeOK'
    BY <2>1, <2>2, <2>4, <2>5, <2>7 DEF TypeOK
  <2>9. DeliveryMatchesBook'
    BY <2>3, <2>4, <2>5, <2>7 DEF DeliveryMatchesBook, TypeOK, Closed
  <2>10. /\ delivery[i] \in {"ok", "unconfirmed"} => reached[i] = 1
         /\ delivery[i] = "refused" => reached[i] = 0
    BY DEF ReachedByStage
  <2>11. ReachedByStage'
    BY <2>1, <2>4, <2>5, <2>6, <2>7, <2>10 DEF ReachedByStage, TypeOK, Closed
  <2>12. AnsweredAtMostOnce'
    BY <2>5 DEF AnsweredAtMostOnce
  <2>13. ResolvedIsAnswered'
    BY <2>1, <2>4, <2>5, <2>10 DEF ResolvedIsAnswered, TypeOK, Closed
  <2>14. LateAnswerIsClosed'
    BY <2>5, <2>7 DEF LateAnswerIsClosed, TypeOK
  <2>15. ~closes => owner[i] = generation
    BY <2>3 DEF how, closes, EndAnswerClose, NoClose, LateAnswerIsClosed
  <2>16. AnswerGoesToTheAsker'
    BY <2>1, <2>4, <2>5, <2>15 DEF AnswerGoesToTheAsker, TypeOK, Closed
  <2> QED
    BY <2>8, <2>9, <2>11, <2>12, <2>13, <2>14, <2>16
<1>9. CASE UNCHANGED vars
  BY <1>9 DEF vars, book, TypeOK, LateAnswerIsClosed, DeliveryMatchesBook, ReachedByStage,
     AnsweredAtMostOnce, AnswerGoesToTheAsker, ResolvedIsAnswered
<1> QED
  BY <1>1, <1>2, <1>3, <1>4, <1>5, <1>6, <1>7, <1>8, <1>9 DEF Next

-----------------------------------------------------------------------------
(* The theorems. *)

\* The inductive invariant holds of every behaviour of the book.
THEOREM BookInvariant == Spec => []IInv
<1>1. Init => IInv
  BY InitIInv
<1>2. IInv /\ [Next]_vars => IInv'
  BY NextIInv
<1> QED
  BY <1>1, <1>2, PTL DEF Spec

\* The variables keep their types (requestBook).
THEOREM BookTypeCorrect == Spec => []TypeOK
<1>1. IInv => TypeOK
  BY DEF IInv
<1> QED
  BY <1>1, BookInvariant, PTL

\* No request is answered twice, for any number of requests and agents
\* (Respond, endAnswer).
THEOREM AnswerOnce == Spec => []AnsweredAtMostOnce
<1>1. IInv => AnsweredAtMostOnce
  BY DEF IInv
<1> QED
  BY <1>1, BookInvariant, PTL

\* An answer goes only to the agent that asked (downLocked, close, endAnswer).
THEOREM AnswerToTheAsker == Spec => []AnswerGoesToTheAsker
<1>1. IInv => AnswerGoesToTheAsker
  BY DEF IInv
<1> QED
  BY <1>1, BookInvariant, PTL

\* A request shown as resolved was answered (endAnswer).
THEOREM ResolvedWasAnswered == Spec => []ResolvedIsAnswered
<1>1. IInv => ResolvedIsAnswered
  BY DEF IInv
<1> QED
  BY <1>1, BookInvariant, PTL
=============================================================================
