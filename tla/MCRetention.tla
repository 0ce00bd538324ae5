----------------------------- MODULE MCRetention -----------------------------
(* Instances of Retention for TLC. *)
EXTENDS Retention

Case(runs, made, packages, faults, groups, cacheGone, late) ==
    [runs |-> runs, made |-> made, packages |-> packages, faults |-> faults, groups |-> groups,
     cacheGone |-> cacheGone, late |-> late]
MCCases ==
    {Case(2, {"runtime"}, {"p1"}, 0, 0, {}, {FALSE}),         \* originals and their packages
     Case(1, {"runtime"}, {"p1", "p2"}, 1, 1, {}, {FALSE}),   \* failures while a package is made
     Case(1, {"work", "snapshot"}, {}, 1, 0, {}, BOOLEAN),    \* recovery materials
     Case(2, {"chunks"}, {"p1"}, 1, 0, {}, BOOLEAN),          \* the stream in the database
     Case(1, {"work", "cache"}, {}, 1, 1, {"replaced", "cut"}, {FALSE}),
     Case(1, {"runtime", "work"}, {"p1"}, 1, 0, {}, {FALSE})}
=============================================================================
