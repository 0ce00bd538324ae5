------------------------ MODULE ExecutionInvariant ------------------------
(***************************************************************************)
(* The inductive invariant of the execution core.  None of the safety      *)
(* properties of Execution is inductive: each leans on facts about files,  *)
(* program counters and earlier reads that are collected here, one named   *)
(* part per subject.  ExecutionProof proves that every step keeps it.      *)
(***************************************************************************)
EXTENDS Execution

\* Rows: a Run that was never reserved has no column set.
RowsI == \A r \in Runs :
    /\ Known(r) => runReq[r] \in Requirements
    /\ process[r] \/ quiescent[r] => Known(r)

\* The unresolved Run is alone, and its Requirement has the slot.
SlotI == SlotCoversUnresolved

\* How far a Run can have come, from the session over the directory to the
\* permission: each stage leaves the trace of the one before.
PathI == \A r \in Runs :
    /\ session[r] # "none" \/ files[r] # {} \/ sup[r] # "none" => Known(r)
    /\ session[r] = "none" => sup[r] = "none"
    /\ sup[r] # "none" => "dir" \in files[r]
    /\ "quiescent" \in files[r] => sup[r] \in {"exited", "refused"}
    /\ "start" \in files[r] => process[r]
    /\ writer[r] => sup[r] \in {"running", "lost"} /\ process[r]

\* A stop proof leaves no supervisor that could still start or own a writer.
StopI == \A r \in Runs : quiescent[r] => sup[r] \in {"none", "exited", "refused"}

\* The stop proof is a state of its own: Interrupted, and Succeeded after that.
FateI == \A r \in Runs :
    /\ quiescent[r] => runState[r] \in {"Interrupted", "Succeeded"}
    /\ runState[r] = "Succeeded" =>
          quiescent[r] /\ session[r] = "completion" /\ snapshot[r] = "candidate"

\* Preserved work is work of a stopped Run, and the last operation on it.
WorkI == \A r \in Runs :
    /\ op[r] # "none" => Known(r)
    /\ snapshot[r] # "none" => quiescent[r] /\ op[r] = "none"
    /\ snapshot[r] = "candidate" => candidate[r]

\* The runtime worker holds a Run of this incarnation; its program counter
\* stands for rows it wrote itself.
WorkerI ==
    /\ ~up => wpc = "idle"
    /\ wpc # "idle" => wrun \in Runs /\ Known(wrun) /\ runInc[wrun] = incarnation
    /\ wpc = "spawn" => session[wrun] = "open" /\ sup[wrun] = "none" /\ ~quiescent[wrun]
    /\ wpc \in {"probe", "grant", "run", "commit"} => process[wrun]
    /\ wpc = "commit" => op[wrun] = "pending"

\* The recovery task works on rows of its list, and a receipt once read stays.
CoordI ==
    /\ ~up => cpc = "idle"
    /\ \A r \in ctodo : Known(r) /\ runState[r] # "Succeeded"
    /\ cpc \in {"evidence", "attach", "confirm", "observe"} => crun \in ctodo
    /\ cseen => crun \in Runs /\ "quiescent" \in files[crun]
    /\ cpc \in {"preserve", "perform", "finalize", "settle", "barrier"} => ctodo = {}

\* One Broker operation at a time, and nothing unpreserved once recover_stopped
\* came to its end: only the same task records stop proofs.
BrokerI ==
    /\ cpc = "perform" =>
          crun \in Runs /\ op[crun] = "pending" /\ quiescent[crun] /\ wpc # "commit"
    /\ cpc \in {"finalize", "settle", "barrier"} => Unpreserved = {}

BarrierI == BarrierReconciled

\* A cancelled Requirement has no Run that was not asked to stop, and cleanup is
\* never undone by later work.
CancelI ==
    /\ \A r \in Runs :
          Known(r) /\ reqState[runReq[r]] = "Cancelled" => stop[r] \/ quiescent[r]
    /\ \A q \in Requirements : cleanup[q] =>
          /\ reqState[q] = "Cancelled"
          /\ \A r \in RunsOf(q) : quiescent[r] /\ snapshot[r] # "none"

\* The inductive invariant of the core.
IInv ==
    /\ TypeOK /\ RowsI /\ SlotI /\ PathI /\ StopI /\ FateI /\ WorkI
    /\ WorkerI /\ CoordI /\ BrokerI /\ BarrierI /\ CancelI
============================================================================
