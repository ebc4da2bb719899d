----------------------------- MODULE StateFile -----------------------------
(***************************************************************************)
(* The state database's writes (lib/statedb): operators on the writes that *)
(* are queued (DB.pending) and on the rows of the file.                    *)
(*                                                                         *)
(* A row is named by a key, <<table, which>>.  A write is a record: "put"  *)
(* and "del" are keyed, "truncate" and "reset" are not (barriers).         *)
(***************************************************************************)
EXTENDS Integers, Sequences, SequencesExt

LOCAL INSTANCE TLC  \* :> and @@

NoRows == << >>

Put(key, val) == [kind |-> "put", key |-> key, val |-> val]
Del(key) == [kind |-> "del", key |-> key]
ResetRows == [kind |-> "reset"]
Truncate(id) == [kind |-> "truncate", from |-> id]

IsBarrier(op) == op.kind \in {"truncate", "reset"}
Keyed(op, key) == ~IsBarrier(op) /\ op.key = key

\* Reset drops the pending writes of the conversation, whose rows it deletes.
ConversationTables == {"msg", "rich", "req", "task"}
KeptByReset(pending) ==
    SelectSeq(pending, LAMBDA op : ~IsBarrier(op) /\ op.key[1] \notin ConversationTables)

\* Mutant: a write replaces one from before a truncation.
EnqueueAnywhere(pending, op) ==
    LET same == {i \in DOMAIN pending : ~IsBarrier(op) /\ Keyed(pending[i], op.key)}
    IN  IF op.kind = "reset" THEN Append(KeptByReset(pending), op)
        ELSE IF same = {} THEN Append(pending, op)
        ELSE [pending EXCEPT ![CHOOSE i \in same : TRUE] = op]

\* enqueueLocked: a pending write with the same key is replaced where it is,
\* but never one from before a barrier.
Enqueue(pending, op) ==
    LET barrier == SelectLastInSeq(pending, IsBarrier)
        same == {i \in barrier + 1 .. Len(pending) : ~IsBarrier(op) /\ Keyed(pending[i], op.key)}
    IN  IF op.kind = "reset" THEN Append(KeptByReset(pending), op)
        ELSE IF same = {} THEN Append(pending, op)
        ELSE [pending EXCEPT ![CHOOSE i \in same : TRUE] = op]

EnqueueAll(pending, ops) == FoldLeft(Enqueue, pending, ops)

Without(rows, keys) == [k \in DOMAIN rows \ keys |-> rows[k]]

\* What a write does to the file.  A task goes with the message that
\* started it.
RunWrite(rows, op) ==
    CASE op.kind = "put" -> (op.key :> op.val) @@ rows
      [] op.kind = "del" -> Without(rows, {op.key})
      [] op.kind = "truncate" ->
            Without(rows, {k \in DOMAIN rows : k[1] \in {"msg", "task"} /\ k[2] >= op.from})
      [] op.kind = "reset" ->
            Without(rows, {k \in DOMAIN rows : k[1] \in ConversationTables \/ k = <<"meta", "name">>})

\* apply: one transaction.
ApplyWrites(rows, pending) == FoldLeft(RunWrite, rows, pending)

\* The keys of a table's rows.
RowsOf(rows, table) == {k \in DOMAIN rows : k[1] = table}
=============================================================================
