--------------------------- MODULE MCStorageLedger ---------------------------
(* Instances of StorageLedger for TLC. *)
EXTENDS StorageLedger

OneRequirement == [r \in AgentRuns |-> 1]
TwoRequirements == [r \in AgentRuns |-> IF r = "a" THEN 1 ELSE 2]
NoOld == [r \in AgentRuns |-> 0]
SomeOld == [r \in AgentRuns |-> IF r = "a" THEN 1 ELSE 0]

\* room for every reservation but one, a repaired Run, one retry
Tight == [requirement |-> OneRequirement, amount |-> 2, global |-> 9, runBytes |-> 6, requirementBytes |-> 7,
          validated |-> TRUE, retries |-> 1, excess |-> 1, over |-> 0, old |-> NoOld]
\* requirements that compete, with bytes from before the policy
Rival == [Tight EXCEPT !.requirement = TwoRequirements, !.global = 5, !.runBytes = 4, !.requirementBytes = 6,
          !.validated = FALSE, !.retries = 0, !.old = SomeOld]
MCCases == {Tight, Rival}
=============================================================================
