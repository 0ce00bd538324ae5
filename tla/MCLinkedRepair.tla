----------------------------- MODULE MCLinkedRepair -----------------------------
(* Instances of LinkedRepair for TLC. *)
EXTENDS LinkedRepair

\* a validation of two repositories, one of them local, with up to three failures
Versions == [repos |-> {1, 2}, local |-> {2}, kind |-> "validation_only", limit |-> 2, money |-> 2,
             fails |-> 3, more |-> 2, items |-> 1,
             outcomes |-> {"pass", "code", "scope", "infra"}, candidates |-> {"in", "out", "empty"},
             faults |-> {"pause", "cancel", "crash", "remote", "recheck", "rewrite", "revoke"}]
\* the same with post-merge failures of the repairs
PostMerge == [Versions EXCEPT !.fails = 2, !.more = 1, !.limit = 2, !.money = 2,
              !.outcomes = {"pass", "code", "infra", "postfail"}, !.candidates = {"in", "empty"}]
\* two code items after each other, whose PR is closed and replaced
Closed == [Versions EXCEPT !.repos = {1}, !.local = {}, !.kind = "code", !.fails = 2, !.items = 2,
           !.outcomes = {"pass", "postfail"}, !.candidates = {"in", "out", "again"},
           !.faults = {"pause", "cancel", "crash", "close", "reopen", "push", "grant", "remote"}]
MCCases == {Versions, PostMerge, Closed}
=============================================================================
