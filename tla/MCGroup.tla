------------------------------ MODULE MCGroup ------------------------------
(* Instances of the group for TLC: two code items of one repository or of    *)
(* two, and an integration that depends on the second one only or on both.   *)
EXTENDS Group

CONSTANTS ca, cb, cv
MCKind == [c \in Children |-> IF c = cv THEN "validation_only" ELSE "code_change"]
OneRepo == [c \in Children |-> 1]
TwoRepos == [c \in Children |-> IF c = cb THEN 2 ELSE 1]
Chain == [c \in Children |-> IF c = cb THEN {ca} ELSE IF c = cv THEN {cb} ELSE {}]
Loose == [c \in Children |-> {}]

D(oa, ob, ov, t) == [c \in Children |-> [order |-> IF c = ca THEN oa ELSE IF c = cb THEN ob ELSE ov,
                                         text |-> IF c \in t THEN 1 ELSE 0]]
Initial == D(1, 2, 3, {})
\* cb missing at first: differences add it, in front and at the end
Short == D(2, 0, 3, {})
\* changed texts, an order that moves too, ca removal and its reversal
Written == {D(1, 2, 3, {ca}), D(1, 2, 3, {cb}), D(1, 2, 3, {}), D(1, 0, 3, {}), D(1, 2, 3, {cv})}
Moving == {D(1, 2, 3, {cv}), D(2, 1, 3, {cb}), D(2, 1, 3, {cv}), D(2, 0, 3, {}), D(2, 1, 3, {})}

MCCases ==
    {[repo |-> TwoRepos, deps |-> Chain, first |-> Initial, docs |-> Written, fullChain |-> TRUE, more |-> 6,
      commands |-> {"draft", "review", "confirm", "policy", "propose", "approve", "reorder"}],
     [repo |-> OneRepo, deps |-> Loose, first |-> Short, docs |-> Moving, fullChain |-> FALSE, more |-> 6,
      commands |-> {"review", "confirm", "propose", "approve", "reorder", "cancel"}]}
============================================================================
