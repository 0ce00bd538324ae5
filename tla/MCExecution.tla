---------------------------- MODULE MCExecution ----------------------------
(* Instances of the execution core for TLC. *)
EXTENDS ExecutionInvariant, TLC

CONSTANTS q1, q2, r1, r2

OneRequirement == {q1}
TwoRequirements == {q1, q2}
TwoRuns == {r1, r2}
OneRun == {r1}

RankOne == [q \in {q1} |-> 1]
RankTwo == [q \in {q1, q2} |-> IF q = q1 THEN 1 ELSE 2]

\* Bounds: what happens to the second Requirement, a cancellation and a revocation
\* are explored without faults and without a further command; the second Requirement's
\* Run is followed to its end if there was no command and else to its start; a second
\* command only lifts the pause that was the first, and a fault comes with a pause of q1 alone.
Explored ==
    /\ \/ latest[q2] # None \/ reqPaused[q2]
       \/ \E q \in {q1, q2} : revoked[q] \/ reqState[q] = "Cancelled"
       => faults = 0 /\ commands <= 1
    /\ commands > 0 => \A r \in {r1, r2} : runReq[r] = q2 => ~writer[r]
    /\ faults > 0 => ~paused
    /\ commands = 2 => ~paused /\ ~reqPaused[q1]

RunSymmetry == Permutations({r1, r2})

============================================================================
