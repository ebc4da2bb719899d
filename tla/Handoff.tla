------------------------------ MODULE Handoff ------------------------------
(***************************************************************************)
(* The human-reply API (lib/httpapi/handoff.go): what the agent waits on is  *)
(* offered under an ID, and a reply names the ID it answers.  Replies come   *)
(* twice, late, from several clients and while the agent goes on.            *)
(*                                                                         *)
(* `hand' is handoffState, `talk' what of the server and its conversation is  *)
(* read and changed here, `hcalls' the calls under way: a reply and a         *)
(* message hold Server.mu, GET /handoff does not.  An offer's ID is the run,  *)
(* the revision, the kind and what is offered (a hash of them in the code).   *)
(* `bots' is what the clients know and were told.                            *)
(***************************************************************************)
EXTENDS Naturals, Sequences, FiniteSets, SequencesExt

CONSTANTS MaxReceipts,      \* maxHandoffReceipts
          HandoffScopes     \* what happens in a behaviour: records of bounds

\* A receipt is kept; the oldest goes for it.
ASSUME HandoffAssumption == MaxReceipts \in Nat \ {0}

VARIABLES hand, talk, hcalls, bots, handScope

handVars == <<hand, talk, hcalls, bots, handScope>>

NoOffer == <<>>
Offer(run, rev, kind, what) == <<run, rev, kind, what>>
NewHand == [suppressed |-> NoOffer, receipts |-> <<>>]

ReceiptsOf(id) == {i \in DOMAIN hand.receipts : hand.receipts[i].id = id}
\* record: past the bound the oldest receipt alone goes.
Recorded(h, id, reply, result) ==
    LET receipt == [id |-> id, reply |-> reply, result |-> result]
        at == {i \in DOMAIN h.receipts : h.receipts[i].id = id}
        kept == IF Len(h.receipts) >= MaxReceipts THEN Tail(h.receipts) ELSE h.receipts
    IN  [suppressed |-> id,
         receipts |-> IF at # {} THEN [i \in DOMAIN h.receipts |-> IF i \in at THEN receipt ELSE h.receipts[i]] ELSE Append(kept, receipt)]

Open(r) == r.st = "open"
\* The requests without the one numbered n.
Closed(reqs, n) ==
    LET at == {i \in DOMAIN reqs : reqs[i].n = n}
        first == CHOOSE i \in at : TRUE
    IN  IF at = {} THEN reqs ELSE [j \in 1 .. Len(reqs) - 1 |-> IF j < first THEN reqs[j] ELSE reqs[j + 1]]
\* Conversation.Status: a turn that waits on the user only is stable.
Stable == ~talk.busy \/ \E i \in DOMAIN talk.reqs : Open(talk.reqs[i])
View == [rev |-> talk.rev, msg |-> talk.msg, ready |-> Stable /\ ~talk.restarting]

\* pendingNativeHandoff: an answer that is unconfirmed leaves its request
\* pending.
OldestRequest == Head(talk.reqs).n

\* The end of pendingHandoff: the oldest pending request, or the last message.
PendingOffer(view) ==
    LET id == IF talk.reqs # <<>> THEN Offer(talk.run, view.rev, "request", OldestRequest) ELSE Offer(talk.run, view.rev, "message", view.msg)
        none == \/ ~view.ready \/ ~Stable
                \/ talk.reqs = <<>> /\ (talk.queue > 0 \/ view.msg = 0)
                \/ id = hand.suppressed
    IN  IF none THEN NoOffer ELSE id

Locked == \E c \in hcalls : c.op \in {"reply", "post"}
CallGoes(c, d) == hcalls' = (hcalls \ {c}) \cup {d}
TellClient(c, outcome) ==
    [bots EXCEPT !.told = @ \cup {[reply |-> c.reply, id |-> c.id, outcome |-> outcome,
        late |-> outcome = "superseded" /\ <<c.id, c.reply>> \in Range(bots.reached) /\ ReceiptsOf(c.id) # {}]}]

\* GET /handoff, POST /handoff/reply and POST /message begin.  A reply finds
\* its receipt, or that another one was taken.
HandoffGet ==
    /\ bots.gets < handScope.gets /\ {c \in hcalls : c.op = "get"} = {}
    /\ hcalls' = hcalls \cup {[op |-> "get", reply |-> 0, id |-> NoOffer, step |-> "view", view |-> View, pending |-> NoOffer]}
    /\ bots' = [bots EXCEPT !.gets = @ + 1]
    /\ UNCHANGED <<hand, talk, handScope>>
HandoffReply(reply, id) ==
    LET c == [op |-> "reply", reply |-> reply, id |-> id, step |-> "view", view |-> View, pending |-> NoOffer]
    IN  /\ ~Locked /\ bots.replies < handScope.replies
        /\ IF ReceiptsOf(id) = {}
           THEN hcalls' = hcalls \cup {c} /\ bots' = [bots EXCEPT !.replies = @ + 1]
           ELSE LET receipt == hand.receipts[CHOOSE i \in ReceiptsOf(id) : TRUE]
                IN  /\ bots' = [TellClient(c, IF receipt.reply = reply THEN receipt.result ELSE "superseded") EXCEPT !.replies = @ + 1]
                    /\ UNCHANGED hcalls
        /\ UNCHANGED <<hand, talk, handScope>>
MessagePosted ==
    /\ ~Locked /\ bots.posts < handScope.posts
    /\ hcalls' = hcalls \cup {[op |-> "post", reply |-> 0, id |-> NoOffer, step |-> "view", view |-> View, pending |-> NoOffer]}
    /\ bots' = [bots EXCEPT !.posts = @ + 1]
    /\ UNCHANGED <<hand, talk, handScope>>

\* pendingHandoff: the emitter was read first, the conversation and the queue
\* now.  A reply that does not name what is offered is told so; one to a
\* message is recorded as uncertain before it is sent.
HandoffPends(c) ==
    LET pending == PendingOffer(c.view)
    IN  /\ c \in hcalls /\ c.step = "view"
        /\ \/ /\ c.op = "get"
              /\ hcalls' = hcalls \ {c}
              /\ bots' = IF pending = NoOffer THEN bots ELSE [bots EXCEPT !.offers = @ \cup {pending}]
              /\ UNCHANGED hand
           \/ /\ c.op = "reply" /\ (pending = NoOffer \/ pending # c.id)
              /\ hcalls' = hcalls \ {c} /\ bots' = TellClient(c, "superseded")
              /\ UNCHANGED hand
           \/ /\ c.op = "reply" /\ pending # NoOffer /\ pending = c.id
              /\ CallGoes(c, [c EXCEPT !.step = "send", !.pending = pending])
              /\ hand' = IF pending[3] = "message" THEN Recorded(hand, c.id, c.reply, "uncertain") ELSE hand
              /\ UNCHANGED bots
           \/ /\ c.op = "post"
              /\ CallGoes(c, [c EXCEPT !.step = "send", !.pending = pending])
              /\ UNCHANGED <<hand, bots>>
        /\ UNCHANGED <<talk, handScope>>

\* createNativeMessageLocked in the queue mode, and what it answers: queued,
\* taken by the agent, perhaps taken, or refused: a turn that was begun and
\* taken back.
Outcomes == IF talk.queue > 0 \/ talk.busy \/ talk.restarting THEN {"queued"} ELSE {"applied", "unconfirmed", "refused"}
MessageSent(how) ==
    CASE how = "queued" -> [talk EXCEPT !.queue = @ + 1]
      [] how = "refused" -> [talk EXCEPT !.rev = @ + 2]
      [] OTHER -> [talk EXCEPT !.busy = TRUE, !.msg = 0, !.rev = @ + 1]
Reached(b, c, how) == IF how = "refused" THEN b ELSE [b EXCEPT !.reached = Append(@, <<c.id, c.reply>>)]

HandoffSends(c, how) ==
    LET result == IF how \in {"queued", "applied"} THEN how ELSE "uncertain"
    IN  /\ c \in hcalls /\ c.step = "send" /\ c.op = "reply" /\ c.pending[3] = "message" /\ how \in Outcomes
        /\ talk' = MessageSent(how)
        /\ hand' = Recorded(hand, c.id, c.reply, result)
        /\ bots' = Reached(TellClient(c, result), c, how)
        /\ hcalls' = hcalls \ {c}
        /\ UNCHANGED handScope

\* answerHandoff: Respond takes an answer to a request that is open.
HandoffAnswers(c, how) ==
    LET n == c.pending[4]
        at == {i \in DOMAIN talk.reqs : talk.reqs[i].n = n /\ Open(talk.reqs[i])}
        result == IF at = {} THEN "superseded" ELSE IF how = "applied" THEN "applied" ELSE "uncertain"
    IN  /\ c \in hcalls /\ c.step = "send" /\ c.op = "reply" /\ c.pending[3] = "request" /\ how \in {"applied", "unconfirmed", "refused", "invalid"}
        /\ hcalls' = hcalls \ {c}
        /\ IF how = "invalid" THEN bots' = TellClient(c, "invalid") /\ UNCHANGED <<talk, hand>>
           ELSE /\ hand' = Recorded(hand, c.id, c.reply, result)
                /\ bots' = IF at = {} THEN TellClient(c, result) ELSE Reached(TellClient(c, result), c, how)
                /\ talk' = IF at = {} THEN talk
                           ELSE [talk EXCEPT !.rev = @ + 1,
                                             !.reqs = IF how = "applied" THEN Closed(@, n)
                                                      ELSE [i \in DOMAIN @ |-> IF i \in at /\ how = "unconfirmed" THEN [@[i] EXCEPT !.st = "unconfirmed"] ELSE @[i]]]
        /\ UNCHANGED handScope

\* createMessage: a message that was sent answers what was offered.
MessageSends(c, how) ==
    /\ c \in hcalls /\ c.step = "send" /\ c.op = "post" /\ how \in Outcomes
    /\ talk' = MessageSent(how)
    /\ hand' = IF how = "applied" /\ c.pending # NoOffer THEN [hand EXCEPT !.suppressed = c.pending] ELSE hand
    /\ hcalls' = hcalls \ {c}
    /\ UNCHANGED <<bots, handScope>>

-----------------------------------------------------------------------------
(* The agent, its users elsewhere and the server go on meanwhile.            *)

\* The turn ends with a message; a turn begins, by a queued message or by
\* itself; the agent asks; a request is answered elsewhere, or withdrawn.
AgentReplies ==
    /\ talk.busy
    /\ talk' = [talk EXCEPT !.busy = FALSE, !.reqs = <<>>, !.msg = 1, !.rev = @ + 1]
    /\ UNCHANGED <<hand, hcalls, bots, handScope>>
AgentWorks ==
    /\ ~talk.busy /\ ~talk.restarting /\ talk.turns < handScope.turns
    /\ (talk.queue > 0 => ~Locked)
    /\ talk' = [talk EXCEPT !.busy = TRUE, !.turns = @ + 1, !.rev = @ + 1, !.queue = IF @ > 0 THEN @ - 1 ELSE @]
    /\ UNCHANGED <<hand, hcalls, bots, handScope>>
AgentRequests ==
    /\ talk.busy /\ talk.asked < handScope.asks
    /\ talk' = [talk EXCEPT !.asked = @ + 1, !.reqs = Append(@, [n |-> talk.asked + 1, st |-> "open"]), !.rev = @ + 1]
    /\ UNCHANGED <<hand, hcalls, bots, handScope>>
RequestCloses(n) ==
    /\ talk' = [talk EXCEPT !.reqs = Closed(@, n), !.rev = @ + 1]
    /\ UNCHANGED <<hand, hcalls, bots, handScope>>
\* A queued message is taken back: no revision says so.
QueuedGoes ==
    /\ talk.queue > 0 /\ ~Locked
    /\ talk' = [talk EXCEPT !.queue = @ - 1]
    /\ UNCHANGED <<hand, hcalls, bots, handScope>>
\* The agent restarts, or the whole server does, with a new ID and an empty
\* handoffState.
HandoffAgentRestarts ==
    /\ ~Locked /\ talk.restarts < handScope.restarts
    /\ talk' = [talk EXCEPT !.restarting = TRUE, !.restarts = @ + 1, !.busy = FALSE, !.reqs = <<>>, !.queue = 0, !.msg = 0, !.rev = @ + 1]
    /\ UNCHANGED <<hand, hcalls, bots, handScope>>
HandoffAgentBack ==
    /\ talk.restarting
    /\ talk' = [talk EXCEPT !.restarting = FALSE, !.rev = @ + 1]
    /\ UNCHANGED <<hand, hcalls, bots, handScope>>
HandoffServerAgain ==
    /\ talk.restarts < handScope.restarts
    /\ talk' = [talk EXCEPT !.restarts = @ + 1, !.run = @ + 1, !.rev = 0, !.busy = FALSE, !.reqs = <<>>, !.restarting = FALSE]
    /\ hand' = NewHand /\ hcalls' = {}
    /\ UNCHANGED <<bots, handScope>>

HandoffInit ==
    /\ handScope \in HandoffScopes
    /\ hand = NewHand /\ hcalls = {}
    /\ talk = [run |-> 1, rev |-> 1, busy |-> handScope.busy, msg |-> IF handScope.busy THEN 0 ELSE 1, reqs |-> <<>>, queue |-> 0, restarting |-> FALSE, turns |-> 0, asked |-> 0, restarts |-> 0]
    /\ bots = [offers |-> {}, reached |-> <<>>, told |-> {}, gets |-> 0, replies |-> 0, posts |-> 0]

\* Nothing is answered twice: of the replies that name one offer at most one
\* may reach the agent, and a request gets one at most, whatever is sent
\* again; and what a client is told is so: a reply told applied or queued
\* got through, and one that got through is not told it was superseded while
\* its receipt is kept.
RepliesGoOnce ==
    /\ \A i, j \in DOMAIN bots.reached : i # j =>
            /\ bots.reached[i][1] # bots.reached[j][1]
            /\ bots.reached[i][1][3] = "request" =>
                    <<bots.reached[i][1][1], bots.reached[i][1][4]>> # <<bots.reached[j][1][1], bots.reached[j][1][4]>> \/ bots.reached[j][1][3] # "request"
    /\ \A t \in bots.told : ~t.late /\ (t.outcome \in {"applied", "queued"} => <<t.id, t.reply>> \in Range(bots.reached))
=============================================================================
