----------------------------- MODULE MCValidation -----------------------------
(* Instances of the validation for TLC. *)
EXTENDS Validation

Case(steps, results, limit, supervised, runs, faults, moves) ==
    [steps |-> steps, results |-> results, limit |-> limit, supervised |-> supervised,
     runs |-> runs, faults |-> faults, moves |-> moves]
MCCases == {Case({"test"}, {"ok", "infrastructure"}, 1, TRUE, 1, 1, 1),
            Case({"test"}, {"ok", "code"}, 1, TRUE, 2, 1, 1),
            Case({"test"}, {"ok", "unknown"}, 1, TRUE, 2, 0, 1),
            Case({"test"}, {"ok", "code", "infrastructure"}, 2, TRUE, 3, 0, 0),
            Case({"test"}, {"ok", "code"}, 2, TRUE, 3, 1, 0),
            Case({"build", "test"}, {"ok", "code", "unknown"}, 2, FALSE, 3, 1, 0)}
================================================================================
