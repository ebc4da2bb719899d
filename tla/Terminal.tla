------------------------------ MODULE Terminal ------------------------------
(***************************************************************************)
(* The shared terminal (lib/shellterm) and its streams (GET /terminal).      *)
(*                                                                         *)
(* `term' is the Terminal with its scrollback, `shell' the process with the  *)
(* pseudo-terminal and the goroutines that read and wait for it, `streams'   *)
(* the connections that watch.  The output is bytes at offsets; a byte is    *)
(* its offset and whether it is a newline, so that one in a wrong place of   *)
(* the ring shows.  What a user types is left out: the shell writes what it  *)
(* likes.                                                                   *)
(***************************************************************************)
EXTENDS Integers, Sequences, FiniteSets, SequencesExt

CONSTANT TermScopes   \* what happens in a behaviour: records of bounds

\* The scrollback holds something; what the shell writes is bytes.
ASSUME TermAssumption == \A s \in TermScopes : s.size \in Nat \ {0} /\ s.chunks \subseteq Seq(BOOLEAN)

VARIABLES term, shell, streams, termScope

termVars == <<term, shell, streams, termScope>>

-----------------------------------------------------------------------------
(* scrollback: a ring of the last bytes.                                     *)

Size == termScope.size
NewRing == [buf |-> <<>>, start |-> 0, end |-> 0, noNewline |-> 0]

\* write: data at offset off.  A ring that is not full grows; else it wraps.
RingWrite(ring, off, data) ==
    IF off + Len(data) <= Size THEN ring.buf \o data
    ELSE [i \in 1 .. Size |->
            LET k == ((i - 1 - off) % Size) + 1
            IN  IF k <= Len(data) THEN data[k] ELSE IF i <= Len(ring.buf) THEN ring.buf[i] ELSE <<0, FALSE>>]

\* segments: what is kept from an offset on, the two slices in a row.
Segments(ring, from) ==
    LET i == from % Size
        j == IF ring.end % Size = 0 THEN Len(ring.buf) ELSE ring.end % Size
    IN  IF from >= ring.end THEN <<>>
        ELSE IF i < j THEN SubSeq(ring.buf, i + 1, j)
        ELSE SubSeq(ring.buf, i + 1, Len(ring.buf)) \o SubSeq(ring.buf, 1, j)

\* indexNewline, -1 without one.
IndexNewline(ring, from) ==
    LET kept == Segments(ring, from)
        hits == {i \in DOMAIN kept : kept[i][2]}
    IN  IF hits = {} THEN -1 ELSE from + (CHOOSE i \in hits : \A j \in hits : i <= j) - 1

\* add: the start moves past the first newline of what may stay.
RingAdd(ring, data) ==
    LET end == ring.end + Len(data)
        kept == IF Len(data) > Size THEN SubSeq(data, Len(data) - Size + 1, Len(data)) ELSE data
        added == [ring EXCEPT !.buf = RingWrite(ring, end - Len(kept), kept), !.end = end]
        start == end - Size
        i == IndexNewline(added, IF start > ring.noNewline THEN start ELSE ring.noNewline)
    IN  IF end - ring.start <= Size THEN added
        ELSE IF i >= 0 THEN [added EXCEPT !.start = i + 1, !.noNewline = i + 1]
        ELSE [added EXCEPT !.start = start, !.noNewline = end]

-----------------------------------------------------------------------------
(* The terminal.                                                            *)

NewShell == [alive |-> FALSE, pty |-> FALSE, unread |-> <<>>, reader |-> "none", waited |-> FALSE, cells |-> 0]
NoStream == [st |-> "off", ch |-> <<>>, at |-> 0]
Connected(c) == streams[c].st \in {"watches", "dropped"}
CloseCh(s) == [s EXCEPT !.st = "dropped"]

\* A chunk is an interval of offsets; the bytes are in the output so far.
Chunk == <<term.ring.end, term.ring.end + Len(shell.unread)>>
BytesOf(flags) == [i \in DOMAIN flags |-> <<term.ring.end + i - 1, flags[i]>>]

\* What the scrollback's comment says is kept, from all of the output: the
\* last bytes, from a line on once output was dropped.
KeptFrom(first, output) ==
    LET end == Len(output)
        last == end - Size
        hits == {o \in last .. end - 1 : output[o + 1]}
    IN  IF end - first <= Size THEN first
        ELSE IF hits = {} THEN last ELSE (CHOOSE o \in hits : \A p \in hits : o <= p) + 1

Record(flags) ==
    [term EXCEPT !.ring = RingAdd(@, BytesOf(flags)), !.output = @ \o flags, !.first = KeptFrom(@, term.output \o flags)]

\* broadcast: a watcher that fell too far behind is dropped.
Broadcast(s, chunk) ==
    IF s.st # "watches" THEN s
    ELSE IF Len(s.ch) < termScope.buffer THEN [s EXCEPT !.ch = Append(@, chunk)]
    ELSE CloseCh(s)

\* Watch, starting the shell if none runs; subscribeTerminal sends the
\* history first.
TermWatch(c) ==
    /\ ~Connected(c) /\ term.streams < termScope.streams /\ ~term.stopping
    /\ IF term.closed
       THEN UNCHANGED <<shell, streams>> /\ term' = [term EXCEPT !.streams = @ + 1]
       ELSE /\ shell' = IF shell.reader # "none" THEN shell
                        ELSE [NewShell EXCEPT !.alive = TRUE, !.pty = TRUE, !.reader = "reads", !.cells = term.cells]
            /\ shell.reader = "none" => term.shells < termScope.shells
            /\ term' = [term EXCEPT !.streams = @ + 1, !.shells = IF shell.reader = "none" THEN @ + 1 ELSE @]
            /\ streams' = [streams EXCEPT ![c] = [NoStream EXCEPT !.st = "watches", !.at = term.ring.end]]
    /\ UNCHANGED termScope

\* startLocked fails: the stream ends with the error.
TermStartFails ==
    /\ shell.reader = "none" /\ ~term.closed /\ term.streams < termScope.streams
    /\ term' = [term EXCEPT !.streams = @ + 1]
    /\ UNCHANGED <<shell, streams, termScope>>

\* The process writes, and exits: by itself, or as its terminal hung up.
ShellWrites(flags) ==
    /\ shell.alive /\ shell.pty /\ shell.unread = <<>> /\ Len(term.output) + Len(flags) <= termScope.output
    /\ shell' = [shell EXCEPT !.unread = flags]
    /\ UNCHANGED <<term, streams, termScope>>
ShellExits ==
    /\ shell.alive
    /\ shell' = [shell EXCEPT !.alive = FALSE]
    /\ UNCHANGED <<term, streams, termScope>>

\* cmd.Wait returned: the output ends with the shell, read or not.
ShellWaited ==
    /\ shell.reader # "none" /\ ~shell.alive /\ ~shell.waited
    /\ shell' = [shell EXCEPT !.waited = TRUE, !.pty = FALSE]
    /\ UNCHANGED <<term, streams, termScope>>

\* read: a chunk; the end of the output; the notice once the shell exited.
ShellRead ==
    /\ shell.reader = "reads" /\ shell.pty /\ shell.unread # <<>>
    /\ term' = Record(shell.unread)
    /\ streams' = [c \in DOMAIN streams |-> Broadcast(streams[c], Chunk)]
    /\ shell' = [shell EXCEPT !.unread = <<>>]
    /\ UNCHANGED termScope
ShellOutputEnds ==
    /\ shell.reader = "reads" /\ (~shell.pty \/ (~shell.alive /\ shell.unread = <<>>))
    /\ shell' = [shell EXCEPT !.reader = "ended", !.unread = <<>>]
    /\ UNCHANGED <<term, streams, termScope>>
Notice == <<TRUE, FALSE, TRUE>>
TellExit(s) ==
    IF s.st # "watches" THEN s
    ELSE CloseCh([s EXCEPT !.ch = IF Len(@) < termScope.buffer THEN Append(@, <<term.ring.end, term.ring.end + Len(Notice)>>) ELSE @])
ShellDone ==
    /\ shell.reader = "ended" /\ shell.waited
    /\ term' = Record(Notice)
    /\ streams' = [c \in DOMAIN streams |-> TellExit(streams[c])]
    /\ shell' = NewShell
    /\ UNCHANGED termScope

\* subscribeTerminal: passes a chunk on.  Once the channel is closed the
\* client is told to come back, or that the shell exited.
StreamSends(c) ==
    /\ streams[c].ch # <<>>
    /\ streams' = [streams EXCEPT ![c].ch = Tail(@), ![c].at = Head(streams[c].ch)[2]]
    /\ UNCHANGED <<term, shell, termScope>>
Running == shell.reader # "none" /\ ~term.closed
StreamEnds(c) ==
    /\ streams[c].st = "dropped" /\ streams[c].ch = <<>>
    /\ streams' = [streams EXCEPT ![c] = [NoStream EXCEPT !.st = IF Running THEN "again" ELSE "exited"]]
    /\ UNCHANGED <<term, shell, termScope>>
\* The client goes, or the server stops: stop takes the watcher out.
StreamStops(c) ==
    /\ Connected(c) /\ (term.stopping \/ term.leaves < termScope.leaves)
    /\ streams' = [streams EXCEPT ![c] = NoStream]
    /\ term' = IF term.stopping THEN term ELSE [term EXCEPT !.leaves = @ + 1]
    /\ UNCHANGED <<shell, termScope>>

\* Resize: for the shell that runs and the next; a pseudo-terminal that was
\* closed cannot take it.
TermResize(cells) ==
    /\ cells # term.cells /\ term.resizes < termScope.resizes
    /\ term' = [term EXCEPT !.cells = cells, !.resizes = @ + 1]
    /\ shell' = IF shell.pty THEN [shell EXCEPT !.cells = cells] ELSE shell
    /\ UNCHANGED <<streams, termScope>>

\* Close: the terminal hangs up; the process group is killed after a while.
\* Stop ended the streams before.
TermStop ==
    /\ termScope.close /\ ~term.stopping
    /\ term' = [term EXCEPT !.stopping = TRUE]
    /\ UNCHANGED <<shell, streams, termScope>>
TermClose ==
    /\ term.stopping /\ ~term.closed
    /\ term' = [term EXCEPT !.closed = TRUE, !.close = IF shell.reader = "none" THEN "done" ELSE "waits"]
    /\ shell' = [shell EXCEPT !.pty = FALSE]
    /\ UNCHANGED <<streams, termScope>>
TermKills ==
    /\ term.close = "waits" /\ shell.reader # "none" /\ shell.alive
    /\ shell' = [shell EXCEPT !.alive = FALSE]
    /\ UNCHANGED <<term, streams, termScope>>
TermClosed ==
    /\ term.close = "waits" /\ shell.reader = "none"
    /\ term' = [term EXCEPT !.close = "done"]
    /\ UNCHANGED <<shell, streams, termScope>>

-----------------------------------------------------------------------------
TermInit ==
    /\ termScope \in TermScopes
    /\ term = [ring |-> NewRing, output |-> <<>>, first |-> 0, cells |-> 1, closed |-> FALSE, close |-> "no", stopping |-> FALSE,
               shells |-> 0, streams |-> 0, leaves |-> 0, resizes |-> 0]
    /\ shell = NewShell
    /\ streams = [c \in termScope.clients |-> NoStream]

\* The scrollback holds exactly the end of the output that its comment says,
\* whatever the sizes of the chunks and wherever the ring wraps.  A client
\* sees the output from its start without a gap, and all of it unless it was
\* dropped; the shell has the terminal's size; once Close returned no shell
\* runs.
TerminalShowsAll ==
    /\ term.ring.start = term.first
    /\ Segments(term.ring, term.ring.start) =
            [i \in 1 .. Len(term.output) - term.first |-> <<term.first + i - 1, term.output[term.first + i]>>]
    /\ \A c \in DOMAIN streams : Connected(c) =>
            LET ends == <<<<0, streams[c].at>>>> \o streams[c].ch
            IN  /\ \A i \in 2 .. Len(ends) : ends[i][1] = ends[i - 1][2]
                /\ streams[c].st = "watches" => Last(ends)[2] = Len(term.output)
    /\ shell.pty => shell.cells = term.cells
    /\ term.close = "done" => ~shell.alive /\ \A c \in DOMAIN streams : streams[c].st # "watches"
=============================================================================
