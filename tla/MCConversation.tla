--------------------------- MODULE MCConversation ---------------------------
(* Instances of the conversation for TLC. *)
EXTENDS Conversation, TLC

Case(runs, turns, rpcs, tools, crash, failure, command) ==
    [runs |-> runs, turns |-> turns, rpcs |-> rpcs, tools |-> tools,
     crash |-> crash, failure |-> failure, command |-> command]
\* tools of one Run; questions of two Runs; two turns that ask; answers that
\* need two successors
MCCases == {Case(1, 1, {1, 2}, {"commit", "completion", "blocker"}, 1, 1, 1),
            Case(2, 1, {1, 2}, {"ask"}, 1, 0, 0),
            Case(1, 2, {1, 2}, {"ask"}, 0, 1, 1),
            Case(3, 1, {1}, {"ask"}, 1, 0, 1),
            Case(3, 1, {1}, {"ask"}, 1, 1, 0)}
=============================================================================
