----------------------------- MODULE SharedFile -----------------------------
(***************************************************************************)
(* A JSON file that several processes read and write without a lock.       *)
(* fs::write opens and truncates the file, then writes the text: between   *)
(* the two a reader finds an empty file, and another writer may have       *)
(* written its own text meanwhile, whose end then sticks out if it is the  *)
(* longer one.  A file that is removed while it is open takes the text of  *)
(* its writers with it.                                                    *)
(***************************************************************************)
CONSTANT Nobody   \* the body of a file that holds no JSON text

\* is: what a reader finds; body: the value, if it parses; open: its writers.
SharedFiles(Body, Writers) ==
    [is : {"absent", "empty", "torn"}, body : {Nobody}, open : SUBSET Writers]
    \cup [is : {"json"}, body : Body, open : SUBSET Writers]

Absent     == [is |-> "absent", body |-> Nobody, open |-> {}]
Holding(v) == [is |-> "json", body |-> v, open |-> {}]

Parses(f) == f.is = "json"
Exists(f) == f.is # "absent"

\* fs::write, first step: open with create and truncate.
Truncated(f, p) == [is |-> "empty", body |-> Nobody, open |-> f.open \cup {p}]

\* fs::write, second step: the possible outcomes of writing the text of v.
Written(f, p, v) ==
    LET rest == f.open \ {p}
        text == [is |-> "json", body |-> v, open |-> rest]
    IN  CASE p \notin f.open -> {f}
          [] f.is = "empty" /\ p \in f.open -> {text}
          [] OTHER -> {text, [is |-> "torn", body |-> Nobody, open |-> rest]}
=============================================================================
