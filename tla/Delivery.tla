------------------------------ MODULE Delivery ------------------------------
(***************************************************************************)
(* What a resumable transfer promises, whatever it does chunk by chunk.    *)
(* A plan says which chunks are wanted.  While a call runs, the chunks     *)
(* present at the target only grow in number: nothing that arrived is lost *)
(* again, not by a failed attempt, nor by a crash, nor by a retry.  A call *)
(* answers "ok" only when everything wanted is present.                    *)
(***************************************************************************)
CONSTANT Chunk          \* every chunk a plan can ask for

VARIABLES wanted,       \* the chunks of the current plan
          present,      \* those of them that are at the target, intact
          phase

Phases == {"planning", "idle", "running", "ok", "failed", "dead"}

TypeOK ==
    /\ wanted \in SUBSET Chunk /\ present \in SUBSET Chunk
    /\ phase \in Phases

vars == <<wanted, present, phase>>

Init ==
    /\ wanted \in SUBSET Chunk /\ present \in SUBSET Chunk
    /\ phase = "planning"

\* A plan is made from the source as it is found, in as many steps as it takes.
Plan ==
    /\ phase = "planning"
    /\ wanted' \in SUBSET Chunk /\ present' \in SUBSET Chunk
    /\ phase' \in {"planning", "idle"}

Start ==
    /\ phase \in {"idle", "ok", "failed"}
    /\ phase' = "running"
    /\ UNCHANGED <<wanted, present>>

Progress ==
    /\ phase = "running"
    /\ present' \in SUBSET Chunk /\ present \subseteq present'
    /\ phase' \in {"running", "failed"}
    /\ UNCHANGED wanted

Succeed ==
    /\ phase = "running"
    /\ wanted \subseteq present
    /\ phase' = "ok"
    /\ UNCHANGED <<wanted, present>>

Die ==
    /\ phase = "running"
    /\ phase' = "dead"
    /\ UNCHANGED <<wanted, present>>

\* Back with the plan that was saved, or with none.
Return ==
    /\ phase = "dead"
    /\ phase' \in {"idle", "planning"}
    /\ UNCHANGED <<wanted, present>>

\* Between calls the target may be replaced by another one.
Replace ==
    /\ phase # "running"
    /\ present' \in SUBSET Chunk
    /\ phase' = IF phase = "ok" THEN "idle" ELSE phase
    /\ UNCHANGED wanted

Next == Plan \/ Start \/ Progress \/ Succeed \/ Die \/ Return \/ Replace

Spec == Init /\ [][Next]_vars
=============================================================================
