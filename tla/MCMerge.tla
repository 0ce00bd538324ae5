-------------------------------- MODULE MCMerge --------------------------------
(* Instances of the merge for TLC. *)
EXTENDS Merge

Case(testMerge, dispatching, moves, faults) ==
    [testMerge |-> testMerge, dispatching |-> dispatching, moves |-> moves, faults |-> faults]
MCCases == {Case(TRUE, FALSE, 2, 1), Case(FALSE, TRUE, 2, 1), Case(FALSE, FALSE, 3, 0)}
================================================================================
