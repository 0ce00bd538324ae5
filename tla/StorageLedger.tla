---------------------------- MODULE StorageLedger ----------------------------
(***************************************************************************)
(* Admission by storage (storage_store.rs, storage_service.rs, the         *)
(* accounting of storage_cleanup.rs, storage_measure.rs).  Work starts     *)
(* only with a reservation; a reservation is the worst case its producer   *)
(* may still write, settles when the producer is done, and counts for ever *)
(* against its Run and its requirement.  One requirement at a time holds   *)
(* the execution slot, but retention archives ended Runs meanwhile and     *)
(* competes for the same bytes.  The categories of a reservation are added *)
(* up; bytes are units.  Every action is one transaction under the lock of *)
(* starts and deliveries, except the producer's writes.                    *)
(***************************************************************************)
EXTENDS Naturals, FiniteSets, FiniteSetsExt

CONSTANTS
    AgentRuns,
    Control,     \* control_bytes of the policy
    LedgerCases  \* policies and Runs, each with its bounds, see policy

LedgerRecs ==
    [requirement : [AgentRuns -> Nat], old : [AgentRuns -> Nat], amount : Nat \ {0}, global : Nat,
     runBytes : Nat, requirementBytes : Nat, validated : BOOLEAN, retries : Nat, excess : Nat, over : {0}]

ASSUME LedgerAssumption ==
    /\ Control \in Nat /\ IsFiniteSet(AgentRuns)
    /\ LedgerCases \subseteq LedgerRecs /\ \A c \in LedgerCases : Control < c.global

VARIABLES
    phase,   \* of a Run: its producer and its validation
    alloc,   \* storage_allocation by request
    used,    \* bytes on disk attributed to a request
    stop,    \* agent_run.stop_requested
    retries,
    policy   \* the case; over counts the units written in excess, excess those that still may be
ledgerVars == <<phase, alloc, used, stop, retries, policy>>

Requirement == policy.requirement            \* the requirement of each Run
Amount == policy.amount                      \* what a reservation asks for
Global == policy.global                      \* global_bytes of the policy
RunBytes == policy.runBytes
RequirementBytes == policy.requirementBytes
Validated == policy.validated                \* whether Runs end with a candidate
Old == policy.old                            \* bytes a Run had before storage was configured

Requests == AgentRuns \X {"run", "validation", "cold"}
NoRow == [row |-> FALSE, allocated |-> 0, outstanding |-> 0, actual |-> 0, settled |-> FALSE]
Total(f) == MapThenSumSet(LAMBDA q : f[q], Requests)
SumOver(f, S) == Total([q \in Requests |-> IF q \in S THEN f[q] ELSE 0])
OfRun(r) == {q \in Requests : q[1] = r}
OfRequirement(r) == {q \in Requests : Requirement[q[1]] = Requirement[r]}
\* what was there before storage was configured
Before == [q \in Requests |-> IF q[2] = "run" THEN Old[q[1]] ELSE 0]
Allocated(a) == [q \in Requests |-> a[q].allocated]
Outstanding(a) == [q \in Requests |-> a[q].outstanding]

\* Who may write: the Run while it works, its checkout while it is validated,
\* retention while a package is not settled.
Producing(q) ==
    CASE q[2] = "run" -> phase[q[1]] = "working"
      [] q[2] = "validation" -> phase[q[1]] \in {"prepared", "validating"}
      [] q[2] = "cold" -> alloc[q].row /\ ~alloc[q].settled

\* protection(.., "rebuildable"): a process of the requirement that is not
\* quiescent, a candidate waiting for its result or its delivery, a Run that
\* is prepared but not inserted (unknown).  A candidate whose validation is not
\* inserted yet and a failed validation that waits for its retry are none.
Protection(p, r) ==
    \/ p[r] = "reserved"
    \/ \E o \in AgentRuns : Requirement[o] = Requirement[r]
                       /\ p[o] \in {"working", "validating", "delivering"}

OutstandingOf(row, actual, complete) ==
    IF complete \/ actual > row.allocated THEN 0 ELSE row.allocated - actual
\* store::reconcile: settled rows stay as they are, allocations only grow.
M_Reconciled(row, actual, complete) ==
    [row EXCEPT !.actual = actual, !.outstanding = 0, !.settled = complete,
                !.allocated = IF complete THEN actual ELSE @]
Reconciled(row, actual, complete) ==
    IF ~row.row \/ row.settled THEN row
    ELSE [row EXCEPT !.actual = actual,
                     !.outstanding = OutstandingOf(row, actual, complete),
                     !.settled = complete,
                     !.allocated = IF actual > @ THEN actual ELSE @]
\* Bytes without a row are adopted at their size before anything is compared.
Adopted(q) == IF alloc[q].row \/ used[q] = 0 THEN alloc[q]
              ELSE [NoRow EXCEPT !.row = TRUE, !.allocated = used[q]]
Ledger == [q \in Requests |-> IF q[2] = "cold" THEN alloc[q]
                              ELSE Reconciled(Adopted(q), used[q], ~Protection(phase, q[1]))]
\* A reservation exceeded stops its Run, nothing else.
Exceeded(r) == \E q \in OfRun(r) :
    Adopted(q).row /\ ~Adopted(q).settled /\ used[q] > Adopted(q).allocated
M_Stops == stop
Stops == [r \in AgentRuns |-> stop[r] \/ (Exceeded(r) /\ phase[r] = "working")]

\* capacity_in and task_capacity_in on the reconciled ledger.
M_Fits(a, amount) == Total(used) + amount + Control <= Global
Fits(a, amount) == Total(used) + Total(Outstanding(a)) + amount + Control <= Global
M_TaskFits(a, r, amount) == SumOver(Outstanding(a), OfRequirement(r)) + amount <= RequirementBytes
TaskFits(a, r, amount) ==
    /\ SumOver(Allocated(a), OfRun(r)) + amount <= RunBytes
    /\ SumOver(Allocated(a), OfRequirement(r)) + amount <= RequirementBytes
\* reserve(): a row of the same request answers for itself, whatever became
\* of it since.
Admitted(a, q) ==
    /\ Fits(a, 0) /\ TaskFits(a, q[1], 0)
    /\ a[q].row \/ (Fits(a, Amount) /\ TaskFits(a, q[1], Amount))
Reserve(a, q) ==
    IF a[q].row THEN a
    ELSE [a EXCEPT ![q] = [NoRow EXCEPT !.row = TRUE, !.allocated = Amount, !.outstanding = Amount]]

-----------------------------------------------------------------------------
\* A start: scan and capacity reconcile, then all categories or none.
Admit(q, from, to) ==
    LET r == q[1]
        a == Ledger IN
    /\ phase[r] = from
    /\ Admitted(a, q)
    /\ alloc' = Reserve(a, q)
    /\ phase' = [phase EXCEPT ![r] = to]
    /\ stop' = Stops
    /\ UNCHANGED <<used, retries, policy>>
AdmitRun(r) ==
    /\ \A o \in AgentRuns : phase[o] \in {"none", "ended"}
    /\ Admit(<<r, "run">>, "none", "reserved")
\* Then the checkout is restored and the hook runs before the validation row
\* is created.
AdmitValidation(r) == Admit(<<r, "validation">>, "candidate", "prepared")
Create(r) ==
    /\ phase[r] = "prepared"
    /\ phase' = [phase EXCEPT ![r] = "validating"]
    /\ UNCHANGED <<alloc, used, stop, retries, policy>>
\* The workspace is prepared and the Run inserted.
Start(r) ==
    /\ phase[r] = "reserved"
    /\ phase' = [phase EXCEPT ![r] = "working"]
    /\ UNCHANGED <<alloc, used, stop, retries, policy>>
EndWork(r) ==
    /\ phase[r] = "working"
    /\ \E next \in {"ended", "candidate"} :
          /\ next = "candidate" => Validated /\ ~stop[r]
          /\ phase' = [phase EXCEPT ![r] = next]
    /\ UNCHANGED <<alloc, used, stop, retries, policy>>
EndCheck(r) ==
    /\ phase[r] = "validating"
    /\ \E next \in {"ended", "delivering", "waiting"} :
          /\ next = "waiting" => retries[r] < policy.retries
          /\ phase' = [phase EXCEPT ![r] = next]
    /\ UNCHANGED <<alloc, used, stop, retries, policy>>
\* The retry row is appended when its wait is over, without a reservation.
Retry(r) ==
    /\ phase[r] = "waiting"
    /\ phase' = [phase EXCEPT ![r] = "validating"]
    /\ retries' = [retries EXCEPT ![r] = @ + 1]
    /\ UNCHANGED <<alloc, used, stop, policy>>
Deliver(r) ==
    /\ phase[r] = "delivering"
    /\ phase' = [phase EXCEPT ![r] = "ended"]
    /\ UNCHANGED <<alloc, used, stop, retries, policy>>

\* Every reservation lets its producer write that much and no more, unless the
\* process ignores it: nothing enforces the bytes.
WriteBytes(q) ==
    /\ Producing(q)
    /\ \/ used[q] < Amount /\ UNCHANGED policy
       \/ /\ used[q] >= Amount /\ q[2] # "cold" /\ policy.excess > 0
          /\ policy' = [policy EXCEPT !.excess = @ - 1, !.over = @ + 1]
    /\ used' = [used EXCEPT ![q] = @ + 1]
    /\ UNCHANGED <<phase, alloc, stop, retries>>
\* The scan at every phase end and every five minutes.
Reconcile ==
    /\ alloc' = Ledger /\ stop' = Stops
    /\ <<alloc, stop>>' # <<alloc, stop>>
    /\ UNCHANGED <<phase, used, retries, policy>>
\* Retention reserves room for a package, writes it outside the lock and
\* settles it at its size; no other scan touches the row meanwhile.
ArchiveRun(r) ==
    LET q == <<r, "cold">> IN
    /\ phase[r] = "ended" /\ ~Protection(phase, r)
    /\ used[<<r, "run">>] > 0 /\ ~alloc[q].row
    /\ Fits(alloc, Amount) /\ TaskFits(alloc, r, Amount)
    /\ alloc' = Reserve(alloc, q)
    /\ UNCHANGED <<phase, used, stop, retries, policy>>
Archived(r) ==
    LET q == <<r, "cold">> IN
    /\ Producing(q) /\ used[q] > 0
    /\ alloc' = [alloc EXCEPT ![q] = Reconciled(@, used[q], TRUE)]
    /\ UNCHANGED <<phase, used, stop, retries, policy>>
\* Retention (module Retention) removes what nothing needs.
Reclaim(q) ==
    /\ used[q] > 0 /\ ~Protection(phase, q[1]) /\ ~(q[2] = "cold" /\ Producing(q))
    /\ used' = [used EXCEPT ![q] = 0]
    /\ UNCHANGED <<phase, alloc, stop, retries, policy>>

LedgerInit ==
    /\ policy \in LedgerCases
    /\ phase = [r \in AgentRuns |-> IF Old[r] > 0 THEN "ended" ELSE "none"]
    /\ alloc = [q \in Requests |-> NoRow]
    /\ used = Before
    /\ stop = [r \in AgentRuns |-> FALSE]
    /\ retries = [r \in AgentRuns |-> 0]
LedgerNext ==
    \/ \E r \in AgentRuns : \/ AdmitRun(r) \/ AdmitValidation(r) \/ Create(r) \/ Start(r) \/ EndWork(r)
                       \/ EndCheck(r) \/ Retry(r) \/ Deliver(r)
                       \/ ArchiveRun(r) \/ Archived(r)
    \/ \E q \in Requests : WriteBytes(q) \/ Reclaim(q)
    \/ Reconcile
LedgerSpec == LedgerInit /\ [][LedgerNext]_ledgerVars
\* The maintenance worker scans again and again.
LedgerFair == LedgerSpec /\ WF_ledgerVars(Reconcile)

-----------------------------------------------------------------------------
LedgerTypes ==
    /\ phase \in [AgentRuns -> {"none", "reserved", "working", "candidate", "prepared", "validating",
                           "waiting", "delivering", "ended"}]
    /\ \A q \in Requests :
          /\ alloc[q].outstanding <= alloc[q].allocated
          /\ alloc[q].settled => alloc[q].row /\ alloc[q].outstanding = 0
          /\ Producing(q) => alloc[q].row
    /\ \A r \in AgentRuns : retries[r] <= policy.retries

\* The worst case fits: what every producer that was let in may still write,
\* on top of what is there and of the reserve for the control plane, stays
\* below the limit (docs/storage-lifecycle.md, "Capacity includes ...
\* outstanding background reservations and the control-plane reserve"), or
\* nothing was let in on top of what was there already.  Stated for Runs that
\* leave no candidate: while a candidate waits for its checkout or a failed
\* validation for its retry, a scan settles the reservation at what is there
\* (Protection), and the promise is gone.
WorstCase ==
    [q \in Requests |-> IF Producing(q) \/ (phase[q[1]] = "reserved" /\ q[2] = "run")
                        THEN IF used[q] > Amount THEN used[q] ELSE Amount ELSE used[q]]
Promised ==
    ~Validated => \/ Total(WorstCase) + Control <= Global + policy.over
                  \/ Total(WorstCase) <= Total(Before) + policy.over

\* Reclaiming and settling refund nothing: what a requirement was ever granted
\* stays within its limit, whatever was removed or measured since.
QuotaHolds ==
    \A r \in AgentRuns :
        SumOver(Allocated(alloc), OfRequirement(r))
            <= RequirementBytes + policy.over + SumOver(Before, OfRequirement(r))
NeverRefunded ==
    [][\A q \in Requests : alloc'[q].allocated >= alloc[q].allocated
                           /\ (alloc[q].settled => alloc'[q] = alloc[q])]_ledgerVars
\* A Run that wrote more than its reservation is stopped.
ExcessStops ==
    \A r \in AgentRuns : (phase[r] = "working" /\ used[<<r, "run">>] > Amount)
                    ~> (stop[r] \/ phase[r] # "working")

\* What was let in fits the disk and the quota of its requirement.
LedgerHolds == LedgerTypes /\ Promised /\ QuotaHolds

=============================================================================
