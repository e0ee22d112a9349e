------------------------------- MODULE MCApp -------------------------------
(* An instance of App for TLC. *)
EXTENDS App, TLC

None == [k \in Calls \cup Events |-> 0]

\* What one behaviour may contain: the calls that share a file or a lock meet,
\* with the events that matter to them.
Mixes ==
    { [None EXCEPT !["discover"] = 3, !["fail"] = 1, !["crash"] = 1],
      [None EXCEPT !["pair"] = 3, !["fail"] = 1, !["crash"] = 1],
      [None EXCEPT !["send"] = 2, !["accept"] = 2, !["error"] = 2, !["fail"] = 1],
      [None EXCEPT !["chat"] = 4, !["tick"] = 2, !["setback"] = 1],
      [None EXCEPT !["discover"] = 1, !["pair"] = 1, !["chat"] = 1, !["list"] = 1,
                   !["error"] = 1, !["fail"] = 1] }

Symmetry == Permutations(Threads) \cup Permutations(Lan)
=============================================================================
