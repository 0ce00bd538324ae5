----------------------------- MODULE MCDelivery -----------------------------
(* Instances of the delivery outbox for TLC. *)
EXTENDS Delivery

Case(last, limit, retry, f, c, p, names) ==
    [last |-> last, limit |-> limit, retry |-> retry, faults |-> f, commands |-> c,
     people |-> p, names |-> names]

MCCases ==
    {Case(1, 3, 1, 1, 1, 1, {"cancel"}),                   \* a person interferes
     Case(1, 3, 1, 2, 1, 0, {"cancel"}),                   \* two faults and a cancel
     Case(1, 2, 2, 1, 1, 0, {"recheck", "pause", "cancel"}),
     Case(1, 2, 2, 0, 2, 1, {"pause", "resume", "recheck", "cancel"}),
     Case(2, 2, 1, 0, 1, 0, {"pause", "cancel"}),          \* a repair of the candidate
     Case(2, 2, 1, 1, 0, 0, {}),
     Case(2, 2, 1, 0, 0, 1, {})}
=============================================================================
