----------------------------- MODULE ChatStore -----------------------------
(***************************************************************************)
(* The table chat_messages of crates/chat and its two statements.  A row's *)
(* id is its place in the sequence, as ids are given out in ascending order*)
(* and no row is ever removed.                                             *)
(***************************************************************************)
EXTENDS Integers, Sequences, FiniteSetsExt, Functions

\* INSERT: the id comes from the table, sent_at from the caller's clock.
Inserted(table, row) == Append(table, row)

MessagesOf(table, p) == {id \in DOMAIN table : table[id].peer = p}

\* Slip: ORDER BY sent_at DESC without the id.
NewerStamp(table, i, j) ==
    \/ table[i].sent_at > table[j].sent_at
    \/ table[i].sent_at = table[j].sent_at /\ i < j

\* ORDER BY sent_at DESC, id DESC.
Newer(table, i, j) ==
    \/ table[i].sent_at > table[j].sent_at
    \/ table[i].sent_at = table[j].sent_at /\ i > j

\* How many rows the query has before a row.
Before(table, p, id) == Cardinality({j \in MessagesOf(table, p) : Newer(table, j, id)})

\* list_messages: the ids of the first `limit' rows, in reverse.
ListMessages(table, p, limit) ==
    LET rows == MessagesOf(table, p)
        n    == Min({limit, Cardinality(rows)})
    IN  [k \in 1..n |-> CHOOSE id \in rows : Before(table, p, id) = n - k]
=============================================================================
