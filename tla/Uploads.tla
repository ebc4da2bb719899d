------------------------------ MODULE Uploads ------------------------------
(***************************************************************************)
(* The uploads (lib/httpapi/uploads.go, upload_store.go, upload_prune.go):   *)
(* files kept by the checksum of their content, which the conversation and   *)
(* a browser's drafts refer to by path, and the goroutine that removes those *)
(* nothing refers to.                                                       *)
(*                                                                         *)
(* `store' is the uploadStore and its directory, `saves' the calls of        *)
(* saveFrom under way, `prune' the goroutine of startUploadPruning, `refs'   *)
(* what refers to uploads: the conversation, restored by the next run, and    *)
(* the drafts.  Time is a clock; a file is kept for Grace without a           *)
(* reference.                                                               *)
(***************************************************************************)
EXTENDS Naturals, Sequences, FiniteSets

CONSTANTS Contents,        \* what is uploaded; a content has one checksum
          Names,           \* names of files
          UploadScopes     \* what happens in a behaviour: records of bounds

VARIABLES store, saves, prune, refs, upScope

upVars == <<store, saves, prune, refs, upScope>>

Grace == 1   \* uploadGrace; a time before the cutoff is older than that

NoDir == [made |-> FALSE, at |-> 0, files |-> {}]
NeverSaved == [c \in Contents |-> 0]   \* saved has no entry: times begin at 1
Idle == [st |-> "idle", cutoff |-> 0, candidates |-> {}, found |-> {}]

-----------------------------------------------------------------------------
(* saveFrom: the content goes to a temporary file; under mu it is put in      *)
(* place.  An upload becomes a draft, a tool result's image a message.        *)

SaveBegins(c, n, by) ==
    /\ store.up /\ refs.saves < upScope.saves
    /\ saves' = saves \cup {[c |-> c, n |-> n, by |-> by, at |-> refs.now, st |-> "temp"]}
    /\ refs' = [refs EXCEPT !.saves = @ + 1]
    /\ UNCHANGED <<store, prune, upScope>>

\* writeRootTemp failed, or there was more than the limit: the temporary
\* file is removed.
SaveFails(s) ==
    /\ s.st = "temp" /\ upScope.faults
    /\ saves' = saves \ {s}
    /\ UNCHANGED <<store, prune, refs, upScope>>

\* The directory is noted as saved to, and made; a file that is there is
\* this content.  A rename changes the directory's time, not the file's.
Placed(d, s) ==
    IF \E f \in d.files : f.n = s.n THEN d
    ELSE [made |-> TRUE, at |-> refs.now, files |-> d.files \cup {[n |-> s.n, at |-> s.at]}]
SavePlaces(s, ok) ==
    /\ s.st = "temp" /\ (~ok => upScope.faults)
    /\ store' = [store EXCEPT !.saved[s.c] = refs.now,
                              !.dirs[s.c] = IF ok THEN Placed(@, s) ELSE IF @.made THEN @ ELSE [NoDir EXCEPT !.made = TRUE, !.at = refs.now]]
    /\ saves' = IF ok THEN (saves \ {s}) \cup {[s EXCEPT !.st = "told", !.at = refs.now]} ELSE saves \ {s}
    /\ refs' = IF ok THEN [refs EXCEPT !.stale = @ \ {s.c}] ELSE refs
    /\ UNCHANGED <<prune, upScope>>

\* The path is answered: the browser keeps it with its draft, or the sink
\* shows the image in a message (storeRichImages).
SaveTold(s) ==
    /\ s.st = "told"
    /\ saves' = saves \ {s}
    /\ refs' = IF s.by = "user" THEN [refs EXCEPT !.drafts[s.c] = s.at] ELSE [refs EXCEPT !.said = @ \cup {s.c}]
    /\ UNCHANGED <<store, prune, upScope>>

-----------------------------------------------------------------------------
(* What refers to the files, changed under Server.mu.                        *)

Fresh(c) == refs.drafts[c] # 0 /\ refs.now <= refs.drafts[c] + Grace

\* The draft is sent, or waits in the queue.  One older than Grace may name
\* a file that is gone (stale).
SendDraft(c) ==
    /\ store.up /\ refs.drafts[c] # 0
    /\ refs' = [refs EXCEPT !.drafts[c] = 0, !.queue = @ \cup {c}, !.stale = IF Fresh(c) THEN @ ELSE @ \cup {c}]
    /\ UNCHANGED <<store, saves, prune, upScope>>
QueueSends(c) ==
    /\ store.up /\ c \in refs.queue
    /\ refs' = [refs EXCEPT !.queue = @ \ {c}, !.said = @ \cup {c}]
    /\ UNCHANGED <<store, saves, prune, upScope>>

\* forgetConversationLocked asks for a prune.
ForgetConversation ==
    /\ store.up /\ refs.forgets < upScope.forgets /\ refs.said \cup refs.queue # {}
    /\ refs' = [refs EXCEPT !.said = {}, !.queue = {}, !.forgets = @ + 1]
    /\ store' = [store EXCEPT !.asked = TRUE]
    /\ UNCHANGED <<saves, prune, upScope>>

\* No call takes longer than Grace to answer or show what it placed.
UploadTimePasses ==
    /\ refs.now < upScope.time /\ \A s \in saves : s.st = "told" => refs.now < s.at + Grace
    /\ refs' = [refs EXCEPT !.now = @ + 1]
    /\ UNCHANGED <<store, saves, prune, upScope>>

-----------------------------------------------------------------------------
(* startUploadPruning.                                                      *)

OlderThan(at, cutoff) == at < cutoff

\* unusedFilesLocked: nothing there is newer than the cutoff.
Unused(saved, c, cutoff) ==
    LET d == store.dirs[c]
    IN  /\ saved[c] = 0 \/ OlderThan(saved[c], cutoff)
        /\ d.made /\ OlderThan(d.at, cutoff) /\ \A f \in d.files : OlderThan(f.at, cutoff)

\* pruneCandidates, asked for or by the ticker.
PruneLooks(asked) ==
    /\ store.up /\ ~store.stopping /\ prune.st = "idle" /\ (asked => store.asked) /\ refs.now > Grace
    /\ LET cutoff == refs.now - Grace
           saved == [c \in Contents |-> IF OlderThan(store.saved[c], cutoff) THEN 0 ELSE store.saved[c]]
           candidates == {c \in Contents : Unused(saved, c, cutoff)}
       IN  /\ store' = [store EXCEPT !.saved = saved, !.asked = IF asked THEN FALSE ELSE @]
           /\ prune' = IF candidates = {} THEN Idle ELSE [Idle EXCEPT !.st = "scans", !.cutoff = cutoff, !.candidates = candidates]
    /\ UNCHANGED <<saves, refs, upScope>>

\* scanUploadRefs, under Server.mu; nothing is removed if it fails.
PruneScans(ok) ==
    /\ prune.st = "scans" /\ (~ok => upScope.faults)
    /\ prune' = IF ok THEN [prune EXCEPT !.st = "removes", !.found = prune.candidates \cap (refs.queue \cup refs.said)] ELSE Idle
    /\ UNCHANGED <<store, saves, refs, upScope>>

\* A slip: what was stored since the candidates were listed is not looked at.
RemovableUnchecked == prune.candidates \ prune.found
\* prune checks again under mu, as a file may have been stored since.
Removable == {c \in prune.candidates \ prune.found : Unused(store.saved, c, prune.cutoff)}

\* prune: files that cannot be removed stay, and their directory with them.
PruneRemoves(kept) ==
    /\ prune.st = "removes" /\ (kept # {} => upScope.faults)
    /\ store' = [store EXCEPT !.dirs = [c \in Contents |->
            LET left == {f \in store.dirs[c].files : <<c, f.n>> \in kept}
            IN  IF c \notin Removable THEN store.dirs[c]
                ELSE IF left = {} THEN NoDir
                ELSE [store.dirs[c] EXCEPT !.files = left, !.at = IF left = store.dirs[c].files THEN @ ELSE refs.now]]]
    /\ prune' = Idle
    /\ UNCHANGED <<saves, refs, upScope>>

-----------------------------------------------------------------------------
(* The server stops, or dies, and runs again with the conversation it kept;   *)
(* without a state database it keeps neither.                                *)

UploadsStop ==
    /\ store.up /\ ~store.stopping /\ refs.ends < upScope.ends
    /\ store' = [store EXCEPT !.stopping = TRUE]
    /\ refs' = [refs EXCEPT !.ends = @ + 1]
    /\ UNCHANGED <<saves, prune, upScope>>
\* Stop waited for the requests and for the prune; cleanupUploadDir.
UploadsStopped ==
    /\ store.stopping /\ saves = {} /\ prune.st = "idle"
    /\ store' = [store EXCEPT !.up = FALSE, !.stopping = FALSE, !.saved = NeverSaved,
                              !.dirs = IF upScope.keep THEN @ ELSE [c \in Contents |-> NoDir]]
    /\ refs' = IF upScope.keep THEN refs ELSE [refs EXCEPT !.said = {}, !.queue = {}, !.drafts = NeverSaved]
    /\ UNCHANGED <<saves, prune, upScope>>
UploadsDie ==
    /\ store.up /\ upScope.keep /\ refs.ends < upScope.ends
    /\ store' = [store EXCEPT !.up = FALSE, !.stopping = FALSE, !.saved = NeverSaved]
    /\ refs' = [refs EXCEPT !.ends = @ + 1]
    /\ saves' = {}
    /\ prune' = Idle
    /\ UNCHANGED upScope

\* A file that was there already before this run's upload is as old as it
\* was: only `saved' knew better, which the next run does not have (stale).
UploadsStart ==
    /\ ~store.up
    /\ store' = [store EXCEPT !.up = TRUE, !.asked = TRUE]
    /\ refs' = [refs EXCEPT !.stale = @ \cup {c \in Contents : refs.drafts[c] > store.dirs[c].at}]
    /\ UNCHANGED <<saves, prune, upScope>>

-----------------------------------------------------------------------------
UploadInit ==
    /\ upScope \in UploadScopes
    /\ store = [up |-> TRUE, stopping |-> FALSE, asked |-> TRUE, saved |-> NeverSaved, dirs |-> [c \in Contents |-> NoDir]]
    /\ saves = {}
    /\ prune = Idle
    /\ refs = [now |-> 1, drafts |-> NeverSaved, queue |-> {}, said |-> {}, stale |-> {}, saves |-> 0, forgets |-> 0, ends |-> 0]

\* What is referred to is there: the files of the conversation and its queue,
\* and of drafts no older than Grace, whatever is uploaded, sent, forgotten
\* and removed at the same time and across runs that keep the conversation,
\* but for older drafts, and drafts of an older file whose upload an ended
\* run forgot (stale).
UploadsAreThere ==
    \A c \in (Contents \ refs.stale) : (c \in refs.queue \cup refs.said \/ Fresh(c)) => store.dirs[c].files # {}
=============================================================================
