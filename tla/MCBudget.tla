------------------------------ MODULE MCBudget ------------------------------
(* Instances of the budget for TLC. *)
EXTENDS Budget, TLC

CONSTANTS a, b, a1, a2, b1

OwnerOfRuns == (a1 :> a @@ a2 :> a @@ b1 :> b)

Amount(t, n, s) == [d \in Dims |-> CASE d = "tokens" -> t [] d = "turns" -> n [] d = "seconds" -> s]
Worst  == Amount(2, 1, 2)
Grant  == Amount(2, 1, 2)

\* a group with the limits of its items added up, one with less than that,
\* and Requirements of their own
Review(each, items, whole) == [each |-> each, items |-> items, whole |-> whole]
MCReviews == {Review(Amount(3, 2, 3), {a, b}, Amount(6, 4, 6)),
              Review(Amount(5, 2, 5), {a, b}, Amount(5, 3, 5)),
              Review(Amount(3, 2, 3), {}, Amount(0, 0, 0))}

\* the last counters of a turn, its end without them, counters on the way and
\* counters that overran
Final    == [input |-> 2, seconds |-> 1, complete |-> TRUE]
Ended    == [input |-> Unknown, seconds |-> Unknown, complete |-> TRUE]
Overrun  == [input |-> 4, seconds |-> 2, complete |-> FALSE]
Streamed == [input |-> 1, seconds |-> 1, complete |-> FALSE]
LateEvents == {Final, Ended, Streamed, Overrun}

\* bound: the events of one turn come in any number and order, of the others there
\* are few
Explored == \A c \in AllCalls : Cardinality(archive[c]) <= (IF c[1] = a1 THEN 3 ELSE 1)
=============================================================================
