----------------------------- MODULE MCIntegration -----------------------------
(* Instances of Integration for TLC. *)
EXTENDS Integration

MCDelays == <<1, 2>>
\* any one disturbance; two of those that lose a process or the item
MCCases == {[results |-> AllResults, kinds |-> AllFaults, more |-> 1],
            [results |-> {"pass", "code", "infra"}, kinds |-> {"crash", "die", "cancel"}, more |-> 2]}
=============================================================================
