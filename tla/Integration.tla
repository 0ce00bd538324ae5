------------------------------ MODULE Integration ------------------------------
(***************************************************************************)
(* The validation of a validation_only item on an exact combination of     *)
(* versions: integration_claim, integration_worker, integration_process,   *)
(* integration_store, integration_retry and linked_integration.            *)
(*                                                                         *)
(* The item owns the execution slot.  Each attempt is a row of             *)
(* integration_validation and a directory; the work runs under the same    *)
(* supervisor process as a Run.  Three parties act on an attempt: the      *)
(* worker of the runtime service, the recovery of the coordinator (both    *)
(* die with the controller) and the supervisor, which survives it.  An     *)
(* attempt that fails on code leaves a linked failure, whose repair        *)
(* (module LinkedRepair) is here one record: where it stands and the       *)
(* version its merge produced.                                             *)
(*                                                                         *)
(* Data: a version combination is the number of repairs it contains; a     *)
(* result is one of five classes of outcome; time is coarse and Delays and *)
(* Deadline stand for 30 s, 120 s and ten minutes.  Everything             *)
(* integration_store::allowed reads that can be lifted again is `paused',  *)
(* everything that cannot is `revoked'.                                    *)
(***************************************************************************)
EXTENDS Naturals, Sequences, FiniteSets

CONSTANTS
    MaxAttempts,  \* bound: rows of integration_validation
    MaxVersion,   \* bound: merged repairs
    MaxInc,       \* bound: controller incarnations
    MaxNow,       \* bound: time
    Delays,       \* the two retry delays
    Deadline,     \* the phase deadline, from the first attempt
    IntegrationCases  \* the outcomes the work may have, the disturbances that may
                      \* happen and how many of them

\* "error": no evidence, a plan or a checkout that drifted or could not be read
AllResults == {"pass", "code", "infra", "other", "error"}
AllFaults == {"crash", "die", "drift", "pause", "revoke", "cancel", "excess"}

CaseRecords == [results : SUBSET AllResults, kinds : SUBSET AllFaults, more : Nat]

\* the bound on time lets the deadline pass
ASSUME IntegrationAssumption ==
    /\ MaxAttempts \in Nat /\ MaxVersion \in Nat /\ MaxInc \in Nat \ {0}
    /\ MaxNow \in Nat /\ Deadline \in 0..MaxNow
    /\ Delays \in [1..2 -> (Nat \ {0})]
    /\ IntegrationCases \subseteq CaseRecords

VARIABLES
    attempt, \* the attempts: one row of integration_validation each
    disk,    \* per attempt: its directory, its checkouts and its supervisor
    entry,   \* the owner row and what the controls say of the item
    ctl,     \* the controller: incarnation, recovery, the worker's next step
    repair,  \* the newest linked failure of the item: of which attempt, and the
             \* version that the repairs merged
    now,     \* the time since the first attempt was created
    case     \* the case, with the disturbances still to come

integrationVars == <<attempt, disk, entry, ctl, repair, now, case>>

Nil == "none"
NoTime == MaxNow + 1000
Attempts == DOMAIN attempt
Last == Len(attempt)

Row(i, version) ==
    [state |-> "prepared", inc |-> i, quiescent |-> FALSE, result |-> Nil, next |-> NoTime,
     excess |-> FALSE, version |-> version]
Directory ==
    [identity |-> FALSE, job |-> FALSE, start |-> FALSE, stop |-> FALSE, outcome |-> Nil,
     quiet |-> FALSE, drift |-> FALSE, sup |-> Nil]

Running == {"starting", "waiting", "running", "drained"}
LiveAttempt(a) == disk[a].sup \in Running

IntegrationTypes ==
    /\ attempt \in Seq([state: {"prepared", "executing", "unknown", "passed", "failed", "interrupted"},
                        inc: 1..MaxInc, quiescent: BOOLEAN, result: AllResults \cup {Nil},
                        next: 0..MaxNow + 1000, excess: BOOLEAN, version: 0..MaxVersion])
    /\ Last <= MaxAttempts
    /\ DOMAIN disk = Attempts
    /\ \A a \in Attempts :
         disk[a] \in [identity: BOOLEAN, job: BOOLEAN, start: BOOLEAN, stop: BOOLEAN,
                      outcome: AllResults \cup {Nil}, quiet: BOOLEAN, drift: BOOLEAN,
                      sup: Running \cup {Nil, "ended", "lost"}]
    /\ entry \in [owner: BOOLEAN, paused: BOOLEAN, revoked: BOOLEAN, cancelled: BOOLEAN, done: 0..MaxAttempts]
    /\ ctl \in [up: BOOLEAN, inc: 1..MaxInc, recovered: BOOLEAN, pc: {"idle", "spawn", "job", "renew"}]
    /\ repair \in [state: {Nil, "observed", "frozen", "reserved", "merged", "complete", "blocked", "cancelled"},
                   version: 0..MaxVersion, of: 0..MaxAttempts]
    /\ now \in 0..MaxNow

IntegrationInit ==
    /\ case \in IntegrationCases
    /\ attempt = <<>>
    /\ disk = <<>>
    /\ entry = [owner |-> FALSE, paused |-> FALSE, revoked |-> FALSE, cancelled |-> FALSE, done |-> 0]
    /\ ctl = [up |-> TRUE, inc |-> 1, recovered |-> TRUE, pc |-> "idle"]
    /\ repair = [state |-> Nil, version |-> 0, of |-> 0]
    /\ now = 0

-----------------------------------------------------------------------------
(* Admission. *)

Permitted == ctl.recovered /\ ~entry.paused /\ ~entry.revoked /\ ~entry.cancelled

Allowed ==
    /\ Permitted
    /\ entry.owner
    /\ \A a \in Attempts : ~attempt[a].excess

\* The coordinator lock: one transaction of a live controller, the worker idle.
WorkerIdle == ctl.up /\ ctl.pc = "idle"

Current(a) == entry.owner /\ a = Last /\ a > 0

\* integration_worker::tick leaves alone the attempt whose failure is repaired; a
\* later attempt is a new integration_id and has its own retries.
Repairing(a) ==
    /\ repair.of = a
    /\ repair.state \in {"frozen", "reserved", "merged", "complete"}

Tick(a) == WorkerIdle /\ Current(a) /\ ~Repairing(a)

Set(a, r) == attempt' = [attempt EXCEPT ![a] = r]
Put(a, d) == disk' = [disk EXCEPT ![a] = d]

\* A new attempt: row, owner and (by the caller) the checkouts, in one transaction.
M_PersistReuse(old, version) ==
    /\ Last < MaxAttempts
    /\ attempt' = Append(old, Row(ctl.inc, version))
    /\ UNCHANGED disk
Persist(old, version) ==
    /\ Last < MaxAttempts
    /\ attempt' = Append(old, Row(ctl.inc, version))
    /\ disk' = Append(disk, Directory)

\* The versions the review fixes or the completed dependencies delivered: no repair yet.
SelectedVersions == 0

\* integration_claim::claim: the item is the head of the queue and the slot is free.
ClaimSlot ==
    /\ WorkerIdle
    /\ Permitted
    /\ ~entry.owner
    /\ entry.done = 0
    /\ Persist(attempt, SelectedVersions)
    /\ entry' = [entry EXCEPT !.owner = TRUE]
    /\ UNCHANGED <<ctl, repair, now, case>>

-----------------------------------------------------------------------------
(* Start: the row says `executing' before the process exists. *)

RebindPrepared(a) ==
    /\ Tick(a)
    /\ attempt[a].state = "prepared"
    /\ attempt[a].inc # ctl.inc
    /\ Set(a, [attempt[a] EXCEPT !.inc = ctl.inc])
    /\ UNCHANGED <<disk, entry, ctl, repair, now, case>>

BeginStart(a) ==
    /\ Tick(a)
    /\ ~attempt[a].quiescent
    /\ attempt[a].state = "prepared"
    /\ attempt[a].inc = ctl.inc
    /\ Allowed
    /\ Set(a, [attempt[a] EXCEPT !.state = "executing"])
    /\ ctl' = [ctl EXCEPT !.pc = "spawn"]
    /\ UNCHANGED <<disk, entry, repair, now, case>>

\* The directory is created, then the supervisor started.
Spawn(a) ==
    /\ ctl.up
    /\ ctl.pc = "spawn"
    /\ a = Last
    /\ disk[a].sup = Nil
    /\ Put(a, [disk[a] EXCEPT !.sup = "starting"])
    /\ ctl' = [ctl EXCEPT !.pc = "job"]
    /\ UNCHANGED <<attempt, entry, repair, now, case>>

WriteJob(a) ==
    /\ ctl.up
    /\ ctl.pc = "job"
    /\ a = Last
    /\ Put(a, [disk[a] EXCEPT !.job = TRUE])
    /\ ctl' = [ctl EXCEPT !.pc = "idle"]
    /\ UNCHANGED <<attempt, entry, repair, now, case>>

-----------------------------------------------------------------------------
(* Observation, by the worker and (with `stopping' for an attempt of an   *)
(* earlier incarnation) by the coordinator's recovery.                     *)

Old(a) == attempt[a].inc # ctl.inc
Recovering(a) ==
    /\ ctl.up
    /\ Current(a)
    /\ ~attempt[a].quiescent
    /\ attempt[a].state # "prepared"
Observing(a) == (Tick(a) /\ ~attempt[a].quiescent) \/ Recovering(a)

Block(a) == Set(a, [attempt[a] EXCEPT !.state = "unknown", !.excess = FALSE])

\* No identity: a start that may have been lost, or a slow child.
ObserveMissing(a) ==
    /\ Observing(a)
    /\ ~disk[a].identity
    /\ attempt[a].state # "prepared"
    /\ Block(a)
    /\ UNCHANGED <<disk, entry, ctl, repair, now, case>>

\* The supervisor is gone and left no receipt.
ObserveGone(a) ==
    /\ Observing(a)
    /\ disk[a].identity
    /\ ~disk[a].quiet
    /\ disk[a].sup = "lost"
    /\ Block(a)
    /\ UNCHANGED <<disk, entry, ctl, repair, now, case>>

\* Only the receipt of the recorded process proves that nothing runs any more.
M_QuiescenceByIdentity(a) ==
    /\ Observing(a) /\ disk[a].identity
    /\ Set(a, [attempt[a] EXCEPT !.quiescent = TRUE])
    /\ UNCHANGED <<disk, entry, ctl, repair, now, case>>
Quiescence(a) ==
    /\ Observing(a)
    /\ disk[a].identity
    /\ disk[a].quiet
    /\ Set(a, [attempt[a] EXCEPT !.quiescent = TRUE])
    /\ UNCHANGED <<disk, entry, ctl, repair, now, case>>

\* A live supervisor: control_allowed in its transaction, the files after it.
ControlRenew(a) ==
    /\ Tick(a)
    /\ ~attempt[a].quiescent
    /\ disk[a].identity
    /\ ~disk[a].quiet
    /\ LiveAttempt(a)
    /\ Allowed
    /\ disk[a].job
    /\ ~disk[a].start
    /\ ctl' = [ctl EXCEPT !.pc = "renew"]
    /\ UNCHANGED <<attempt, disk, entry, repair, now, case>>

Renew(a) ==
    /\ ctl.up
    /\ ctl.pc = "renew"
    /\ a = Last
    /\ Put(a, [disk[a] EXCEPT !.start = disk[a].start \/ ~disk[a].stop])
    /\ ctl' = [ctl EXCEPT !.pc = "idle"]
    /\ UNCHANGED <<attempt, entry, repair, now, case>>

ControlStop(a) ==
    /\ \/ Recovering(a) /\ Old(a)
       \/ Observing(a) /\ ~Allowed
    /\ disk[a].identity
    /\ ~disk[a].quiet
    /\ LiveAttempt(a)
    /\ ~disk[a].stop
    /\ Put(a, [disk[a] EXCEPT !.stop = TRUE])
    /\ UNCHANGED <<attempt, entry, ctl, repair, now, case>>

\* integration_worker::recover lets recovery finish.
M_RecoverQuickly ==
    /\ ctl.up /\ ~ctl.recovered
    /\ entry.owner => attempt[Last].quiescent \/ attempt[Last].state = "prepared" \/ disk[Last].stop \/ ~Old(Last)
    /\ ctl' = [ctl EXCEPT !.recovered = TRUE]
    /\ UNCHANGED <<attempt, disk, entry, repair, now, case>>
Recover ==
    /\ ctl.up
    /\ ~ctl.recovered
    /\ entry.owner => attempt[Last].quiescent \/ attempt[Last].state = "prepared" \/ ~Old(Last)
    /\ ctl' = [ctl EXCEPT !.recovered = TRUE]
    /\ UNCHANGED <<attempt, disk, entry, repair, now, case>>

-----------------------------------------------------------------------------
(* The supervisor and the validation program under it. *)

Announce(a) ==
    /\ disk[a].sup = "starting"
    /\ Put(a, [disk[a] EXCEPT !.sup = "waiting", !.identity = TRUE])
    /\ UNCHANGED <<attempt, entry, ctl, repair, now, case>>

Begin(a) ==
    /\ disk[a].sup = "waiting"
    /\ disk[a].start
    /\ ~disk[a].stop
    /\ Put(a, [disk[a] EXCEPT !.sup = "running"])
    /\ UNCHANGED <<attempt, entry, ctl, repair, now, case>>

\* The checkouts and the plan are compared before and after the steps: a drift is
\* an outcome without evidence, and so may be a failure to run the steps at all.
\* What the trusted steps answer belongs to the version they ran on; the code
\* is only at fault until the repair of the last version is in.
Answers(version) == case.results \ (IF version = MaxVersion THEN {"code"} ELSE {})
Execute(a) == IF disk[a].drift THEN {"error"} ELSE Answers(attempt[a].version)
WorkEnds(a) ==
    /\ disk[a].sup = "running"
    /\ \E r \in Execute(a) : Put(a, [disk[a] EXCEPT !.sup = "drained", !.outcome = r])
    /\ UNCHANGED <<attempt, entry, ctl, repair, now, case>>

\* stop.json, or no heartbeat for 15 s because the controller is down.
Killed(a) ==
    /\ disk[a].sup \in {"waiting", "running"}
    /\ disk[a].stop \/ ~ctl.up
    /\ Put(a, [disk[a] EXCEPT !.sup = "drained"])
    /\ UNCHANGED <<attempt, entry, ctl, repair, now, case>>

WriteQuiet(a) ==
    /\ disk[a].sup = "drained"
    /\ Put(a, [disk[a] EXCEPT !.sup = "ended", !.quiet = TRUE])
    /\ UNCHANGED <<attempt, entry, ctl, repair, now, case>>

-----------------------------------------------------------------------------
(* The result. *)

\* integration_process::reconcile: evidence is replayed, on checkouts that did not
\* drift; an outcome without evidence is taken as it is.
Reconciled(a) == disk[a].outcome # Nil /\ (disk[a].outcome = "error" \/ ~disk[a].drift)

\* The result is saved whatever the controls say; what it means waits for them.
Reading(a) ==
    /\ Tick(a)
    /\ attempt[a].quiescent
    /\ Reconciled(a)

SaveResult(a) ==
    /\ Reading(a)
    /\ ~Allowed
    /\ attempt[a].result = Nil
    /\ Set(a, [attempt[a] EXCEPT !.result = disk[a].outcome])
    /\ UNCHANGED <<disk, entry, ctl, repair, now, case>>

FinishPassed(a) ==
    /\ Reading(a)
    /\ Allowed
    /\ disk[a].outcome = "pass"
    /\ Set(a, [attempt[a] EXCEPT !.result = "pass", !.state = "passed"])
    /\ entry' = [entry EXCEPT !.done = a, !.owner = FALSE]
    /\ repair' = IF repair.state = "merged" THEN [repair EXCEPT !.state = "complete"] ELSE repair
    /\ UNCHANGED <<disk, ctl, now, case>>

\* A failure of the code becomes a linked failure of this attempt, once.
FinishFailed(a) ==
    /\ Reading(a)
    /\ Allowed
    /\ disk[a].outcome # "pass"
    /\ attempt[a].state # "failed"
    /\ Set(a, [attempt[a] EXCEPT !.result = disk[a].outcome, !.state = "failed"])
    /\ repair' = IF disk[a].outcome = "code" THEN [repair EXCEPT !.state = "observed", !.of = a] ELSE repair
    /\ UNCHANGED <<disk, entry, ctl, now, case>>

-----------------------------------------------------------------------------
(* Bounded recovery of a stopped or infrastructure attempt. *)

M_RetryableEvidence(a) == attempt[a].result = "infra"
Retryable(a) ==
    IF attempt[a].result \in {Nil, "error"} THEN disk[a].stop ELSE attempt[a].result = "infra"

Resumable(a) ==
    /\ Tick(a)
    /\ attempt[a].quiescent
    /\ Reconciled(a) => attempt[a].result # Nil
    /\ disk[a].outcome # Nil => Reconciled(a)
    /\ Allowed
    /\ attempt[a].state \notin {"passed", "interrupted"}
    /\ Retryable(a)


NextRetry ==
    IF Last \in DOMAIN Delays /\ now + Delays[Last] <= Deadline THEN now + Delays[Last] ELSE NoTime

Schedule(a) ==
    /\ Resumable(a)
    /\ attempt[a].next = NoTime
    /\ NextRetry # NoTime
    /\ Set(a, [attempt[a] EXCEPT !.next = NextRetry])
    /\ UNCHANGED <<disk, entry, ctl, repair, now, case>>

Replace(a) ==
    /\ Resumable(a)
    /\ attempt[a].next <= now
    /\ Last <= 2
    /\ now <= Deadline
    /\ ~disk[a].drift
    /\ Persist([attempt EXCEPT ![a].state = "interrupted"], attempt[a].version)
    /\ UNCHANGED <<entry, ctl, repair, now, case>>

-----------------------------------------------------------------------------
(* The repair of a code failure, and the new attempt on what it merged. *)

RepairStep ==
    /\ ctl.up
    /\ Allowed
    /\ \/ repair.state = "observed" /\ repair' = [repair EXCEPT !.state = "frozen"]
       \/ repair.state = "frozen" /\ repair' = [repair EXCEPT !.state = "reserved"]
       \/ repair.state = "observed" /\ repair' = [repair EXCEPT !.state = "blocked"]
       \/ repair.state = "reserved" /\ repair' = [repair EXCEPT !.state = "blocked"]
       \/ /\ repair.state = "reserved"
          /\ repair.version < MaxVersion
          /\ repair' = [repair EXCEPT !.state = "merged", !.version = @ + 1]
    /\ UNCHANGED <<attempt, disk, entry, ctl, now, case>>

M_RevalidateSame(a) ==
    /\ WorkerIdle /\ Current(a) /\ repair.state = "merged" /\ attempt[a].version < repair.version
    /\ attempt[a].quiescent /\ attempt[a].state = "failed" /\ Allowed
    /\ Persist(attempt, attempt[a].version)
    /\ UNCHANGED <<entry, ctl, repair, now, case>>
Revalidate(a) ==
    /\ WorkerIdle
    /\ Current(a)
    /\ repair.state = "merged"
    /\ attempt[a].version < repair.version
    /\ attempt[a].quiescent
    /\ attempt[a].state = "failed"
    /\ Allowed
    /\ Persist(attempt, repair.version)
    /\ UNCHANGED <<entry, ctl, repair, now, case>>

-----------------------------------------------------------------------------
(* Controls. *)

\* A cancelled item keeps the slot while an attempt may still run.
M_SettleQuickly ==
    /\ ctl.up /\ ctl.recovered /\ entry.cancelled /\ entry.owner
    /\ \A a \in Attempts : attempt[a].quiescent \/ attempt[a].state \in {"prepared", "unknown"}
    /\ entry' = [entry EXCEPT !.owner = FALSE]
    /\ repair' = IF repair.state \in {Nil, "complete"} THEN repair ELSE [repair EXCEPT !.state = "cancelled"]
    /\ UNCHANGED <<attempt, disk, ctl, now, case>>
M_SettleQuiescent ==
    /\ ctl.up /\ entry.cancelled /\ entry.owner /\ \A a \in Attempts : attempt[a].quiescent
    /\ entry' = [entry EXCEPT !.owner = FALSE]
    /\ UNCHANGED <<attempt, disk, ctl, repair, now, case>>
Settle ==
    /\ ctl.up
    /\ entry.cancelled
    /\ entry.owner
    /\ \A a \in Attempts : attempt[a].quiescent \/ attempt[a].state = "prepared"
    /\ entry' = [entry EXCEPT !.owner = FALSE]
    /\ repair' = IF repair.state \in {Nil, "complete"} THEN repair ELSE [repair EXCEPT !.state = "cancelled"]
    /\ UNCHANGED <<attempt, disk, ctl, now, case>>

Lift ==
    /\ entry.paused
    /\ entry' = [entry EXCEPT !.paused = FALSE]
    /\ UNCHANGED <<attempt, disk, ctl, repair, now, case>>

Restart ==
    /\ ~ctl.up
    /\ ctl.inc < MaxInc
    /\ ctl' = [up |-> TRUE, inc |-> ctl.inc + 1, recovered |-> FALSE, pc |-> "idle"]
    /\ UNCHANGED <<attempt, disk, entry, repair, now, case>>

Fault(f) == f \in case.kinds /\ case.more > 0 /\ case' = [case EXCEPT !.more = @ - 1]

Crash ==
    /\ Fault("crash")
    /\ ctl.up
    /\ ctl.inc < MaxInc
    /\ ctl' = [ctl EXCEPT !.up = FALSE, !.pc = "idle"]
    /\ UNCHANGED <<attempt, disk, entry, repair, now>>

\* Somebody kills the supervisor: it leaves no receipt.
Die(a) ==
    /\ Fault("die")
    /\ disk[a].sup \in {"waiting", "running", "drained"}
    /\ Put(a, [disk[a] EXCEPT !.sup = "lost"])
    /\ UNCHANGED <<attempt, entry, ctl, repair, now>>

Drift(a) ==
    /\ Fault("drift")
    /\ a = Last
    /\ ~disk[a].drift
    /\ Put(a, [disk[a] EXCEPT !.drift = TRUE])
    /\ UNCHANGED <<attempt, entry, ctl, repair, now>>

\* A pause, a withdrawn authorization and a cancel; a cancel is not undone.
Control ==
    /\ \/ Fault("pause") /\ ~entry.paused /\ entry' = [entry EXCEPT !.paused = TRUE]
       \/ Fault("revoke") /\ ~entry.revoked /\ entry' = [entry EXCEPT !.revoked = TRUE]
       \/ Fault("cancel") /\ ~entry.cancelled /\ entry.done = 0 /\ entry' = [entry EXCEPT !.cancelled = TRUE]
    /\ UNCHANGED <<attempt, disk, ctl, repair, now>>

\* storage_cleanup: the attempt exceeded its allocation.
Excess(a) ==
    /\ Fault("excess")
    /\ ctl.up
    /\ a = Last
    /\ ~attempt[a].quiescent
    /\ Set(a, [attempt[a] EXCEPT !.state = "unknown", !.excess = TRUE])
    /\ UNCHANGED <<disk, entry, ctl, repair, now>>

Pass ==
    /\ Last > 0
    /\ now < MaxNow
    /\ now' = now + 1
    /\ UNCHANGED <<attempt, disk, entry, ctl, repair, case>>

-----------------------------------------------------------------------------
WorkerStep(a) ==
    \/ RebindPrepared(a) \/ BeginStart(a) \/ Spawn(a) \/ WriteJob(a)
    \/ Quiescence(a) \/ ControlRenew(a) \/ Renew(a) \/ ControlStop(a)
    \/ SaveResult(a) \/ FinishPassed(a) \/ FinishFailed(a)
    \/ Schedule(a) \/ Replace(a) \/ Revalidate(a)

SupervisorStep(a) == Announce(a) \/ Begin(a) \/ WorkEnds(a) \/ WriteQuiet(a)

IntegrationNext ==
    \/ ClaimSlot \/ Recover \/ Settle \/ RepairStep
    \/ \E a \in Attempts :
         \/ WorkerStep(a) \/ SupervisorStep(a)
         \/ ObserveMissing(a) \/ ObserveGone(a)
         \/ Killed(a) \/ Die(a) \/ Drift(a) \/ Excess(a)
    \/ Crash \/ Restart \/ Control \/ Lift \/ Pass

IntegrationSpec == IntegrationInit /\ [][IntegrationNext]_integrationVars

\* The two loops tick every 200 ms, the supervisor and the program go on, a
\* stopped controller is started again, pauses are lifted, repairs proceed, time
\* passes.
IntegrationFair ==
    /\ IntegrationSpec
    /\ \A a \in 1..MaxAttempts :
         /\ WF_integrationVars(a \in Attempts /\ WorkerStep(a))
         /\ WF_integrationVars(a \in Attempts /\ SupervisorStep(a))
         /\ WF_integrationVars(a \in Attempts /\ (ObserveMissing(a) \/ ObserveGone(a)))
         /\ WF_integrationVars(a \in Attempts /\ disk[a].stop /\ Killed(a))
    /\ WF_integrationVars(ClaimSlot) /\ WF_integrationVars(Recover)
    /\ WF_integrationVars(Settle) /\ WF_integrationVars(RepairStep)
    /\ WF_integrationVars(Restart) /\ WF_integrationVars(Lift) /\ WF_integrationVars(Pass)

-----------------------------------------------------------------------------
(* Properties. *)

\* Whatever crashes, restarts, retries and repairs do, at most one supervisor of
\* the item may still run anything, and it belongs to the latest attempt: a new
\* attempt exists only after the receipt of the previous one (integration_worker
\* 97-144, integration_retry 92-124).
OneSupervisor ==
    \A a \in Attempts : LiveAttempt(a) => a = Last

\* The coordinator reports recovery complete only when nothing of an earlier
\* controller can still run (integration_worker::recover; the coordinator lets
\* every other admission follow).  A supervisor that died unobserved is unknown,
\* not quiet, and keeps recovery open.
RecoveredIsQuiet ==
    ctl.recovered /\ entry.owner =>
        \A a \in Attempts : Old(a) => ~LiveAttempt(a) /\ (disk[a].sup = "lost" => disk[a].quiet)

\* While a supervisor of the item may run, the item holds the execution slot,
\* through passes, cancels and the release of the slot by delivery_control::settle.
OwnerCoversSupervisor ==
    \A a \in Attempts : LiveAttempt(a) => entry.owner

\* The item is accepted only by an attempt that ended, passed, and ran on the
\* versions every merged repair is part of: evidence of the old combination never
\* accepts the new one (docs/linked-repair.md, linked_integration 51-66).
AcceptedOnRequired ==
    entry.done > 0 =>
        /\ entry.done = Last
        /\ attempt[Last].state = "passed"
        /\ disk[Last].quiet
        /\ disk[Last].outcome = "pass"
        /\ attempt[Last].version = repair.version

\* A process whose start is unknown, or that died without a receipt.
Unknown(a) ==
    /\ ~disk[a].quiet
    /\ \/ disk[a].sup = "lost"
       \/ disk[a].sup = Nil /\ attempt[a].state \in {"executing", "unknown"}

\* The supervisor stopped its work by itself (no heartbeat), so nobody asked it to.
StoppedAlone(a) ==
    /\ attempt[a].quiescent
    /\ disk[a].outcome \in {Nil, "error"}
    /\ ~disk[a].stop

\* A cancelled item gives the slot back once its supervisor has stopped; only a
\* process nobody can account for keeps it (delivery_control 60-80).
CancelReleases ==
    entry.cancelled ~> ~entry.owner \/ (Last > 0 /\ Unknown(Last))

\* What is left to an operator, or to a decision of a reviewer.
Exhausted(a) == attempt[a].next = NoTime /\ NextRetry = NoTime
TooLate(a) == attempt[a].next # NoTime /\ (now > Deadline \/ Last > 2)
Parked ==
    \/ entry.revoked
    \/ Last > 0 /\ entry.owner /\
        \/ Unknown(Last)
        \/ attempt[Last].excess
        \/ disk[Last].drift
        \/ StoppedAlone(Last)
        \/ attempt[Last].quiescent /\ Retryable(Last) /\ (Exhausted(Last) \/ TooLate(Last))
        \/ attempt[Last].result = "other"
        \/ repair.state = "blocked"

\* An item that is claimed reaches an end somebody can see: accepted, cancelled,
\* or parked for one of the reasons above; no attempt waits for a step that
\* nothing takes.
Decided ==
    entry.owner ~> entry.done > 0 \/ (entry.cancelled /\ ~entry.owner) \/ Parked

\* One supervisor works at a time and under the slot, a recovered controller finds
\* no other, and acceptance is on the versions required now.
AttemptsHold ==
    /\ IntegrationTypes /\ OneSupervisor /\ RecoveredIsQuiet /\ OwnerCoversSupervisor
    /\ AcceptedOnRequired

\* A claimed item is decided, a cancelled one gives the slot back, or it is parked
\* for a named reason (integration_retry, integration_store::finish).
AttemptsEnd == CancelReleases /\ Decided

=============================================================================
