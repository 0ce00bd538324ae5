----------------------------- MODULE Execution -----------------------------
(***************************************************************************)
(* The execution core of the control plane: the single global Requirement  *)
(* slot and the Runs that work under it.  Three kinds of process act on    *)
(* two stores that survive them:                                           *)
(*                                                                         *)
(*   - the controller (one process, held unique by the instance lock) with *)
(*     two tasks: the runtime worker, which claims, launches and drives a  *)
(*     Run (variables w...), and the coordinator's recovery task (c...);   *)
(*   - one supervisor per Run, a Linux subreaper, with its descendants     *)
(*     (sup, writer), which outlives a crash of the controller;            *)
(*   - the operator, whose commands are transactions of the HTTP API;      *)
(*   - PostgreSQL (the control row, requirement, agent_run, workspace_*,   *)
(*     runtime_session, storage_guard rows) and the Run directory (files). *)
(*                                                                         *)
(* A transaction taken under run_store::lock is one step; an UPDATE outside*)
(* it is one step; everything else interleaves.  agent_run.blocker is not  *)
(* kept: every writer of it sets stop_requested in the same statement and  *)
(* nothing clears stop_requested, so no guard can tell them apart.         *)
(***************************************************************************)
EXTENDS Integers, FiniteSets

CONSTANTS
    Requirements,   \* reviewed Requirements in the execution queue
    Runs,           \* Run identities that may ever be allocated
    None,           \* SQL NULL
    Rank,           \* position of a Requirement in execution_queue
    MaxFaults,      \* bound: crashes, lost supervisors, failed I/O, latches
    Faults,         \* the faults an instance explores
    MaxCommands,    \* bound: operator commands
    Commands        \* the operator commands an instance explores

ASSUME ConstantsAssumption ==
    /\ None \notin Requirements /\ None \notin Runs
    /\ Rank \in [Requirements -> Nat]
    /\ \A p, q \in Requirements : Rank[p] = Rank[q] => p = q
    /\ MaxFaults \in Nat /\ MaxCommands \in Nat

VARIABLES
    \* execution_control and storage_guard rows, and the in-memory latch FAILED
    owner, paused, incarnation, recovered, blocked, failed,
    \* requirement rows; delivery is the outbox seen from here
    reqState, reqPaused, revoked, cleanup, delivery,
    \* agent_run rows (runState "None": no row) and the newest Run per requirement
    runReq, runInc, runState, process, stop, quiescent, userPaused,
    storageResume, latest,
    \* runtime_session, run_workspace.candidate_sha, workspace_operation, snapshot
    session, candidate, op, snapshot,
    \* the Run directory; beat: the storage heartbeat is younger than 15 s
    files, beat,
    \* the supervisor and its descendants
    sup, writer,
    \* the controller process and its two tasks
    up, wpc, wrun, wready, cpc, crun, cseen, ctodo, cstale, cknown, cfull,
    \* bounds
    faults, commands

control == <<owner, paused, incarnation, recovered>>
guard   == <<blocked, failed>>
reqs    == <<reqState, reqPaused, revoked, cleanup, delivery>>
rows    == <<runReq, runInc, runState, process, stop, quiescent, userPaused,
             storageResume, latest>>
work    == <<session, candidate, op, snapshot>>
fs      == <<files, beat>>
procs   == <<sup, writer>>
worker  == <<wpc, wrun, wready>>
coord   == <<cpc, crun, cseen, ctodo, cstale, cknown, cfull>>
bounds  == <<faults, commands>>

vars == <<control, guard, reqs, rows, work, fs, procs, up, worker, coord, bounds>>

----------------------------------------------------------------------------
(* State predicates the code evaluates. *)

Known(r) == runState[r] # "None"

RunsOf(q) == {r \in Runs : Known(r) /\ runReq[r] = q}

M_AllKnown == {r \in Runs : Known(r)}   \* mutant: lists stopped Runs too
Unresolved == {r \in Runs : Known(r) /\ ~quiescent[r]}

\* storage::allowed: neither the memory latch nor the persisted one is set.
StorageAllowed == ~failed /\ ~blocked

M_SkipPausedHead(q) ==   \* mutant: a paused head is passed over
    /\ reqState[q] = "Ready"
    /\ \A p \in Requirements :
          reqState[p] = "Ready" /\ ~reqPaused[p] => Rank[q] <= Rank[p]

\* group_queue_store::head: the first queued item, whatever its condition.
IsHead(q) ==
    /\ reqState[q] = "Ready"
    /\ \A p \in Requirements : reqState[p] = "Ready" => Rank[q] <= Rank[p]

M_ClaimOccupied == ~paused /\ ~blocked /\ recovered   \* mutant: slot not tested
ClaimAllowed == owner = None /\ ~paused /\ ~blocked /\ recovered

ActionsAllowed(r) ==
    /\ Known(r)
    /\ owner = runReq[r]
    /\ runInc[r] = incarnation /\ recovered
    /\ ~paused /\ ~reqPaused[runReq[r]] /\ ~blocked
    /\ ~stop[r] /\ ~quiescent[r]
    /\ runState[r] \in {"Created", "Running"}
    /\ ~revoked[runReq[r]]

\* runtime_store::allowed; an ended session and an unresolved runtime_blocker
\* of any Run of the Requirement both refuse.
RuntimeAllowed(r) ==
    /\ ActionsAllowed(r)
    /\ reqState[runReq[r]] = "Running"
    /\ session[r] \in {"none", "open"}
    /\ \A s \in RunsOf(runReq[r]) : session[s] # "blocker"

NoUnfinishedOpBut(r) == \A s \in Runs : s # r => op[s] = "none"

\* workspace_store::authorize, Operation::Preserve and Operation::Commit
PreserveAuthorized(r) ==
    /\ owner = runReq[r] /\ latest[runReq[r]] = r
    /\ quiescent[r]
    /\ NoUnfinishedOpBut(r)

CommitAuthorized(r) ==
    /\ owner = runReq[r] /\ latest[runReq[r]] = r
    /\ runInc[r] = incarnation /\ recovered
    /\ ~paused /\ ~reqPaused[runReq[r]]
    /\ ~stop[r] /\ ~quiescent[r]
    /\ ~revoked[runReq[r]]
    /\ runState[r] = "Running"
    /\ NoUnfinishedOpBut(r)

\* runtime_questions::resumable, for the two triggers of this module: a user
\* pause and an operator's storage recheck.
Resumable(s) ==
    LET q == runReq[s] IN
    /\ Known(s) /\ quiescent[s] /\ runState[s] # "Succeeded"
    /\ owner = q /\ latest[q] = s
    /\ reqState[q] = "Running" /\ ~reqPaused[q] /\ ~paused
    /\ recovered /\ ~blocked /\ ~revoked[q]
    /\ snapshot[s] # "none"
    /\ \A t \in RunsOf(q) : quiescent[t] /\ session[t] # "blocker"
    /\ userPaused[s] \/ storageResume[s]
    /\ \A t \in Runs : op[t] = "none"

----------------------------------------------------------------------------
Init ==
    /\ owner = None /\ paused = FALSE /\ incarnation = 1 /\ recovered = FALSE
    /\ blocked = FALSE /\ failed = FALSE
    /\ reqState = [q \in Requirements |-> "Ready"]
    /\ reqPaused = [q \in Requirements |-> FALSE]
    /\ revoked = [q \in Requirements |-> FALSE]
    /\ cleanup = [q \in Requirements |-> FALSE]
    /\ delivery = [q \in Requirements |-> "none"]
    /\ runReq = [r \in Runs |-> None]
    /\ runInc = [r \in Runs |-> 0]
    /\ runState = [r \in Runs |-> "None"]
    /\ process = [r \in Runs |-> FALSE]
    /\ stop = [r \in Runs |-> FALSE]
    /\ quiescent = [r \in Runs |-> FALSE]
    /\ userPaused = [r \in Runs |-> FALSE]
    /\ storageResume = [r \in Runs |-> FALSE]
    /\ latest = [q \in Requirements |-> None]
    /\ session = [r \in Runs |-> "none"]
    /\ candidate = [r \in Runs |-> FALSE]
    /\ op = [r \in Runs |-> "none"]
    /\ snapshot = [r \in Runs |-> "none"]
    /\ files = [r \in Runs |-> {}]
    /\ beat = [r \in Runs |-> FALSE]
    /\ sup = [r \in Runs |-> "none"]
    /\ writer = [r \in Runs |-> FALSE]
    /\ up = TRUE
    /\ wpc = "idle" /\ wrun = None /\ wready = FALSE
    /\ cpc = "idle" /\ crun = None /\ cseen = FALSE
    /\ ctodo = {} /\ cstale = {} /\ cknown = {} /\ cfull = FALSE
    /\ faults = 0 /\ commands = 0

Fault(kind) ==
    /\ kind \in Faults /\ faults < MaxFaults
    /\ faults' = faults + 1 /\ UNCHANGED commands

----------------------------------------------------------------------------
(* The runtime worker: claim or resume, then the launch handshake.         *)

\* run_store::insert_run with the state changes its two callers share.
InsertRun(q, r) ==
    /\ ~Known(r)
    /\ runReq' = [runReq EXCEPT ![r] = q]
    /\ runInc' = [runInc EXCEPT ![r] = incarnation]
    /\ runState' = [runState EXCEPT ![r] = "Created"]
    /\ latest' = [latest EXCEPT ![q] = r]
    /\ reqState' = [reqState EXCEPT ![q] = "Running"]
    /\ UNCHANGED <<process, stop, quiescent, userPaused, storageResume>>

\* One transaction: the head of the queue becomes the owner with its Run row.
Reserve(q, r) ==
    /\ up /\ wpc = "idle"
    /\ StorageAllowed
    /\ ClaimAllowed
    /\ IsHead(q) /\ ~reqPaused[q] /\ ~revoked[q]
    /\ InsertRun(q, r)
    /\ owner' = q
    /\ UNCHANGED <<paused, incarnation, recovered, guard, reqPaused, revoked,
                   cleanup, delivery, work, fs, procs, up, worker, coord, bounds>>

\* runtime_questions::reserve_resume: a new Run continues the newest stopped one.
ReserveResume(s, r) ==
    /\ up /\ wpc = "idle"
    /\ Resumable(s)
    /\ InsertRun(runReq[s], r)
    /\ UNCHANGED <<control, guard, reqPaused, revoked, cleanup, delivery, work,
                   fs, procs, up, worker, coord, bounds>>

AtWorker(pc, r) == up /\ wpc = pc /\ wrun = r
GoWorker(pc, r) == wpc' = pc /\ wrun' = r
WorkerIdle == wpc' = "idle" /\ wrun' = None /\ wready' = FALSE

\* runtime_service::reserved selects the Run, run_store::reserved_launch probes it.
LaunchCheck(r) ==
    /\ up /\ wpc = "idle"
    /\ Known(r) /\ runInc[r] = incarnation /\ runState[r] = "Created"
    /\ ~stop[r] /\ ~quiescent[r] /\ session[r] = "none" /\ ~process[r]
    /\ StorageAllowed /\ ActionsAllowed(r)
    /\ GoWorker("open", r) /\ UNCHANGED wready
    /\ UNCHANGED <<control, guard, reqs, rows, work, fs, procs, up, coord, bounds>>

\* runtime_store::open: the durable session precedes every spawn.
OpenSession(r) ==
    /\ AtWorker("open", r)
    /\ \/ /\ RuntimeAllowed(r) /\ session[r] = "none"
          /\ session' = [session EXCEPT ![r] = "open"]
          /\ GoWorker("spawn", r) /\ UNCHANGED wready
       \/ /\ ~(RuntimeAllowed(r) /\ session[r] = "none")
          /\ WorkerIdle /\ UNCHANGED session
    /\ UNCHANGED <<control, guard, reqs, rows, candidate, op, snapshot, fs, procs,
                   up, coord, bounds>>

\* process::spawn_with_transport: create_dir refuses an existing directory.
Spawn(r) ==
    /\ AtWorker("spawn", r)
    /\ \/ /\ "dir" \notin files[r]
          /\ files' = [files EXCEPT ![r] = {"dir"}]
          /\ beat' = [beat EXCEPT ![r] = TRUE]
          /\ sup' = [sup EXCEPT ![r] = "spawned"]
          /\ GoWorker("wait", r) /\ UNCHANGED wready
       \/ /\ "dir" \in files[r]
          /\ WorkerIdle /\ UNCHANGED <<files, beat, sup>>
    /\ UNCHANGED <<control, guard, reqs, rows, work, writer, up, coord, bounds>>

\* A durable write or the fork itself fails after the directory was created.
SpawnFails(r) ==
    /\ AtWorker("spawn", r) /\ "dir" \notin files[r]
    /\ Fault("spawn")
    /\ files' = [files EXCEPT ![r] = {"dir"}]
    /\ WorkerIdle
    /\ UNCHANGED <<control, guard, reqs, rows, work, beat, procs, up, coord>>

M_WaitIdentity(r) ==   \* mutant: permission before the identity is recorded
    /\ AtWorker("wait", r)
    /\ \/ "identity" \in files[r] /\ GoWorker("probe", r)
       \/ "identity" \notin files[r] /\ GoWorker("fail", r)
    /\ UNCHANGED <<control, guard, reqs, rows, work, fs, procs, up, wready, coord,
                   bounds>>

\* coordinator::wait_identity: the file appears, or 15 s pass without it.
WaitIdentity(r) ==
    /\ AtWorker("wait", r)
    /\ \/ "identity" \in files[r] /\ GoWorker("attach", r)
       \/ "identity" \notin files[r] /\ GoWorker("fail", r)
    /\ UNCHANGED <<control, guard, reqs, rows, work, fs, procs, up, wready, coord,
                   bounds>>

\* run_store::attach_process, an UPDATE outside the execution lock.
Attach(r) ==
    IF ~process[r] /\ ~quiescent[r]
    THEN /\ process' = [process EXCEPT ![r] = TRUE]
         /\ runState' = [runState EXCEPT ![r] = "Running"]
    ELSE UNCHANGED <<process, runState>>

\* coordinator::permit: the handshake must be the one that records the identity.
AttachIdentity(r) ==
    /\ AtWorker("attach", r)
    /\ Attach(r)
    /\ GoWorker(IF ~process[r] /\ ~quiescent[r] THEN "probe" ELSE "fail", r)
    /\ UNCHANGED <<control, guard, reqs, runReq, runInc, stop, quiescent,
                   userPaused, storageResume, latest, work, fs, procs, up, wready,
                   coord, bounds>>

\* grant_start, the probe before the lock.
GrantProbe(r) ==
    /\ AtWorker("probe", r)
    /\ wready' = (StorageAllowed /\ ActionsAllowed(r))
    /\ GoWorker("grant", r)
    /\ UNCHANGED <<control, guard, reqs, rows, work, fs, procs, up, coord, bounds>>

M_GrantReady(r) == wready   \* mutant: the probe's answer is trusted
GrantReady(r) == wready /\ ActionsAllowed(r)

\* grant_start under the lock: authority is evaluated again before start.json.
Grant(r) ==
    /\ AtWorker("grant", r)
    /\ IF GrantReady(r)
       THEN /\ files' = [files EXCEPT ![r] = @ \cup {"start"}]
            /\ beat' = [beat EXCEPT ![r] = TRUE]
       ELSE files' = [files EXCEPT ![r] = @ \cup {"stop"}] /\ UNCHANGED beat
    /\ GoWorker("run", r) /\ wready' = FALSE
    /\ UNCHANGED <<control, guard, reqs, rows, work, procs, up, coord, bounds>>

\* The lock cannot be taken, or the permission file cannot be written.
GrantFails(r) ==
    /\ AtWorker("grant", r)
    /\ Fault("grant")
    /\ GoWorker("fail", r) /\ wready' = FALSE
    /\ UNCHANGED <<control, guard, reqs, rows, work, fs, procs, up, coord>>

\* run_store::block
Block(r) == stop' = [stop EXCEPT ![r] = @ \/ ~quiescent[r]]

\* finish_launch on error, and runtime_client::execute once the client loop is
\* over for whatever reason (guard, timeout, protocol error): stop intent first.
WorkerStop(r) ==
    /\ AtWorker("fail", r) \/ AtWorker("run", r)
    /\ Block(r)
    /\ GoWorker("stopfile", r)
    /\ UNCHANGED <<control, guard, reqs, runReq, runInc, runState, process,
                   quiescent, userPaused, storageResume, latest, work, fs, procs,
                   up, wready, coord, bounds>>

WorkerStopFile(r) ==
    /\ AtWorker("stopfile", r)
    /\ files' = [files EXCEPT ![r] = @ \cup {"stop"}]
    /\ WorkerIdle
    /\ UNCHANGED <<control, guard, reqs, rows, work, beat, procs, up, coord, bounds>>

----------------------------------------------------------------------------
(* Requests of the running Agent, served by the client loop.               *)

\* The app-server ran, so its requests may still be in the pipe.
Started(r) == "start" \in files[r] /\ sup[r] \in {"running", "exited", "lost"}

\* workspace_store::intent for Commit
CommitIntent(r) ==
    /\ AtWorker("run", r)
    /\ Started(r) /\ RuntimeAllowed(r) /\ session[r] = "open"
    /\ CommitAuthorized(r) /\ op[r] = "none"
    /\ op' = [op EXCEPT ![r] = "pending"]
    /\ GoWorker("commit", r)
    /\ UNCHANGED <<control, guard, reqs, rows, session, candidate, snapshot, fs,
                   procs, up, wready, coord, bounds>>

\* workspace_store::execute when perform returns an error: a refusal, or a fault
\* of an authorized operation, leaves it partial and asks the Run to stop.
FailedOp(r, authorized) ==
    /\ IF authorized THEN Fault("operation") ELSE UNCHANGED bounds
    /\ op' = [op EXCEPT ![r] = "partial"]
    /\ stop' = [stop EXCEPT ![r] = TRUE]

\* workspace_store::perform for Commit, authorized a second time.
CommitPerform(r) ==
    /\ AtWorker("commit", r)
    /\ \/ /\ CommitAuthorized(r)
          /\ candidate' = [candidate EXCEPT ![r] = TRUE]
          /\ op' = [op EXCEPT ![r] = "none"]
          /\ UNCHANGED <<stop, bounds>>
       \/ /\ FailedOp(r, CommitAuthorized(r))
          /\ UNCHANGED candidate
    /\ GoWorker("run", r)
    /\ UNCHANGED <<control, guard, reqs, runReq, runInc, runState, process,
                   quiescent, userPaused, storageResume, latest, session, snapshot,
                   fs, procs, up, wready, coord>>

\* runtime_store::end: one ending declaration per session.
End(r, kind) ==
    /\ AtWorker("run", r)
    /\ Started(r) /\ RuntimeAllowed(r) /\ session[r] = "open"
    /\ op[r] = "none"
    /\ kind = "completion" => candidate[r]
    /\ session' = [session EXCEPT ![r] = kind]
    /\ stop' = [stop EXCEPT ![r] = TRUE]
    /\ UNCHANGED <<control, guard, reqs, runReq, runInc, runState, process,
                   quiescent, userPaused, storageResume, latest, candidate, op,
                   snapshot, fs, procs, up, worker, coord, bounds>>

----------------------------------------------------------------------------
(* The supervisor process and its descendants.                             *)

SupStep(r, from, to) == sup[r] = from /\ sup' = [sup EXCEPT ![r] = to]

\* process::prepare: the one-use claim, then identity.json.
SupPublish(r) ==
    /\ SupStep(r, "spawned", "parked")
    /\ files' = [files EXCEPT ![r] = @ \cup {"identity"}]
    /\ UNCHANGED <<control, guard, reqs, rows, work, beat, writer, up, worker,
                   coord, bounds>>

StopSignal(r) == ~beat[r] \/ "stop" \in files[r]

\* await_permission reads heartbeat and stop.json first, start.json afterwards.
SupCheck(r) ==
    /\ SupStep(r, "parked", "checked")
    /\ ~StopSignal(r)
    /\ UNCHANGED <<control, guard, reqs, rows, work, fs, writer, up, worker, coord,
                   bounds>>

SupRefuse(r) ==
    /\ SupStep(r, "parked", "refused")
    /\ StopSignal(r)
    /\ files' = [files EXCEPT ![r] = @ \cup {"quiescent"}]
    /\ UNCHANGED <<control, guard, reqs, rows, work, beat, writer, up, worker,
                   coord, bounds>>

SupStart(r) ==
    /\ IF "start" \in files[r]
       THEN SupStep(r, "checked", "running") /\ writer' = [writer EXCEPT ![r] = TRUE]
       ELSE SupStep(r, "checked", "parked") /\ UNCHANGED writer
    /\ UNCHANGED <<control, guard, reqs, rows, work, fs, up, worker, coord, bounds>>

\* drain: SIGKILL to the children while a stop signal stands.
SupKill(r) ==
    /\ sup[r] = "running" /\ StopSignal(r)
    /\ writer[r] /\ writer' = [writer EXCEPT ![r] = FALSE]
    /\ UNCHANGED <<control, guard, reqs, rows, work, fs, sup, up, worker, coord,
                   bounds>>

\* Every descendant ends by itself.
WriterExit(r) ==
    /\ writer[r] /\ writer' = [writer EXCEPT ![r] = FALSE]
    /\ UNCHANGED <<control, guard, reqs, rows, work, fs, sup, up, worker, coord,
                   bounds>>

M_PrimaryExited(r) == TRUE   \* mutant: the command ended, its orphans may not have
Drained(r) == ~writer[r]     \* waitpid(-1) answers ECHILD

\* ECHILD, then quiescent.json.
SupReceipt(r) ==
    /\ SupStep(r, "running", "exited")
    /\ Drained(r)
    /\ files' = [files EXCEPT ![r] = @ \cup {"quiescent"}]
    /\ UNCHANGED <<control, guard, reqs, rows, work, beat, writer, up, worker,
                   coord, bounds>>

\* The supervisor is killed or fails before its receipt; descendants live on.
SupLost(r) ==
    /\ sup[r] \in {"spawned", "parked", "checked", "running"}
    /\ Fault("supervisor")
    /\ sup' = [sup EXCEPT ![r] = "lost"]
    /\ UNCHANGED <<control, guard, reqs, rows, work, fs, writer, up, worker, coord>>

\* Nobody renewed the heartbeat for 15 s.
HeartbeatStale(r) ==
    /\ beat[r] /\ beat' = [beat EXCEPT ![r] = FALSE]
    /\ UNCHANGED <<control, guard, reqs, rows, work, files, procs, up, worker,
                   coord, bounds>>

----------------------------------------------------------------------------
(* The coordinator's recovery task: at most one in flight, every 200 ms.   *)

AtCoord(pc) == up /\ cpc = pc
CoordIdle ==
    /\ cpc' = "idle" /\ crun' = None /\ cseen' = FALSE
    /\ ctodo' = {} /\ cstale' = {} /\ cknown' = {} /\ cfull' = FALSE
GoCoord(pc, r, seen) == cpc' = pc /\ crun' = r /\ cseen' = seen
CoordNext(r) ==   \* the next Run of the list
    /\ GoCoord("runs", None, FALSE)
    /\ ctodo' = ctodo \ {r}
    /\ UNCHANGED <<cstale, cknown, cfull>>
CoordSame == UNCHANGED <<ctodo, cstale, cknown, cfull>>

\* runtime_unstarted::retire, one transaction: a reservation the persisted latch
\* caught before its session was opened and before its directory exists.
M_RetireOpened(r) ==   \* mutant: the session is not looked at
    /\ runState[r] = "Created" /\ ~quiescent[r] /\ ~process[r] /\ blocked
    /\ files[r] = {}
Retirable(r) ==
    /\ runState[r] = "Created" /\ ~quiescent[r] /\ ~process[r] /\ blocked
    /\ session[r] = "none" /\ files[r] = {}

CoTick ==
    /\ AtCoord("idle")
    /\ runState' = [r \in Runs |-> IF Retirable(r) THEN "Interrupted" ELSE runState[r]]
    /\ quiescent' = [r \in Runs |-> quiescent[r] \/ Retirable(r)]
    /\ stop' = [r \in Runs |-> stop[r] \/ Retirable(r)]
    /\ GoCoord("list", None, FALSE) /\ CoordSame
    /\ UNCHANGED <<control, guard, reqs, runReq, runInc, process, userPaused,
                   storageResume, latest, work, fs, procs, up, worker, bounds>>

\* recover up to the list of unresolved Runs.  With storage allowed, deadlines
\* (budget_store::expire_runs, runtime_questions::expire) first ask some Runs
\* with a session to stop; the rows are then read once and used afterwards.
CoList(late) ==
    /\ AtCoord("list")
    /\ late \subseteq {r \in Unresolved : StorageAllowed /\ session[r] # "none"}
    /\ stop' = [r \in Runs |-> stop[r] \/ r \in late]
    /\ GoCoord("runs", None, FALSE)
    /\ cfull' = StorageAllowed
    /\ ctodo' = Unresolved
    /\ cstale' = {r \in Unresolved : StorageAllowed /\ (stop'[r] \/ runInc[r] # incarnation)}
    /\ cknown' = {r \in Unresolved : process[r]}
    /\ UNCHANGED <<control, guard, reqs, runReq, runInc, runState, process,
                   quiescent, userPaused, storageResume, latest, work, fs, procs,
                   up, worker, bounds>>

\* recover_run: persist the stop intent ...
CoBlock(r) ==
    /\ AtCoord("runs") /\ r \in ctodo /\ r \in cstale
    /\ Block(r)
    /\ GoCoord("evidence", r, FALSE) /\ CoordSame
    /\ UNCHANGED <<control, guard, reqs, runReq, runInc, runState, process,
                   quiescent, userPaused, storageResume, latest, work, fs, procs,
                   up, worker, bounds>>

\* ... write stop.json (creating the directory), then read identity and receipt.
CoEvidence(r) ==
    /\ AtCoord("evidence") /\ crun = r
    /\ files' = [files EXCEPT ![r] = @ \cup {"dir", "stop"}]
    /\ IF "identity" \in files[r]
       THEN GoCoord("attach", r, "quiescent" \in files[r]) /\ CoordSame
       ELSE CoordNext(r)
    /\ UNCHANGED <<control, guard, reqs, rows, work, beat, procs, up, worker, bounds>>

M_NoBackfill(r) == UNCHANGED <<process, runState>>   \* mutant: no identity backfill
AttachMissing(r) == IF r \in cknown THEN UNCHANGED <<process, runState>> ELSE Attach(r)

\* ... record an identity the handshake did not get to record ...
CoAttach(r) ==
    /\ AtCoord("attach") /\ crun = r
    /\ AttachMissing(r)
    /\ GoCoord("confirm", r, cseen) /\ CoordSame
    /\ UNCHANGED <<control, guard, reqs, runReq, runInc, stop, quiescent,
                   userPaused, storageResume, latest, work, fs, procs, up, worker,
                   bounds>>

M_ConfirmUnknownState(r) ==   \* mutant: a state the CHECK of agent_run refuses
    /\ quiescent' = [quiescent EXCEPT ![r] = process[r]]
    /\ runState' = [runState EXCEPT ![r] = "Stopped"]

\* run_store::confirm_quiescent: the receipt's identity is the recorded one.
Confirm(r) ==
    IF process[r]
    THEN /\ quiescent' = [quiescent EXCEPT ![r] = TRUE]
         /\ runState' = [runState EXCEPT ![r] = "Interrupted"]
    ELSE UNCHANGED <<quiescent, runState>>

CoConfirm(r) ==
    /\ AtCoord("confirm") /\ crun = r
    /\ IF cseen THEN Confirm(r) ELSE UNCHANGED <<quiescent, runState>>
    /\ CoordNext(r)
    /\ UNCHANGED <<control, guard, reqs, runReq, runInc, process, stop, userPaused,
                   storageResume, latest, work, fs, procs, up, worker, bounds>>

\* reconcile_run of a healthy Run renews its heartbeat; observe reads the receipt.
CoRead(r) ==
    /\ AtCoord("runs") /\ r \in ctodo \ cstale
    /\ beat' = [beat EXCEPT ![r] =
                   @ \/ (cfull /\ StorageAllowed /\ "dir" \in files[r])]
    /\ GoCoord("observe", r, "quiescent" \in files[r]) /\ CoordSame
    /\ UNCHANGED <<control, guard, reqs, rows, work, files, procs, up, worker, bounds>>

\* observe: a receipt confirms a Run whose row already had an identity; without
\* one, a vanished supervisor leaves the Run blocked.
CoObserve(r) ==
    /\ AtCoord("observe") /\ crun = r
    /\ IF cseen /\ r \in cknown
       THEN Confirm(r) /\ UNCHANGED stop
       ELSE /\ UNCHANGED <<quiescent, runState>>
            /\ IF ~cseen /\ r \in cknown /\ sup[r] \in {"exited", "refused", "lost"}
               THEN Block(r) ELSE UNCHANGED stop
    /\ CoordNext(r)
    /\ UNCHANGED <<control, guard, reqs, runReq, runInc, process, userPaused,
                   storageResume, latest, work, fs, procs, up, worker, bounds>>

CoRunsDone ==
    /\ AtCoord("runs") /\ ctodo = {}
    /\ IF cfull THEN GoCoord("preserve", None, FALSE) /\ CoordSame ELSE CoordIdle
    /\ UNCHANGED <<control, guard, reqs, rows, work, fs, procs, up, worker, bounds>>

Unpreserved == {r \in Runs : Known(r) /\ quiescent[r] /\ snapshot[r] = "none"}

\* workspace_store::recover_stopped, the intent of Preserve for the next Run: an
\* unfinished operation or a refused authorization ends this tick.
CoPreserve ==
    /\ AtCoord("preserve")
    /\ \/ /\ Unpreserved = {}
          /\ GoCoord("finalize", None, FALSE) /\ CoordSame /\ UNCHANGED op
       \/ \E r \in Unpreserved :
            IF op[r] = "none" /\ PreserveAuthorized(r)
            THEN /\ op' = [op EXCEPT ![r] = "pending"]
                 /\ GoCoord("perform", r, FALSE) /\ CoordSame
            ELSE CoordIdle /\ UNCHANGED op
    /\ UNCHANGED <<control, guard, reqs, rows, session, candidate, snapshot, fs,
                   procs, up, worker, bounds>>

\* workspace_store::perform for Preserve.  The snapshot is a candidate when the
\* worktree's head is still the commit the Broker recorded.
CoPerform(r) ==
    /\ AtCoord("perform") /\ crun = r
    /\ \/ /\ PreserveAuthorized(r)
          /\ \E kind \in {"work"} \cup (IF candidate[r] THEN {"candidate"} ELSE {}) :
                snapshot' = [snapshot EXCEPT ![r] = kind]
          /\ op' = [op EXCEPT ![r] = "none"]
          /\ GoCoord("preserve", None, FALSE) /\ CoordSame
          /\ UNCHANGED <<stop, bounds>>
       \/ /\ FailedOp(r, PreserveAuthorized(r))
          /\ CoordIdle
          /\ UNCHANGED snapshot
    /\ UNCHANGED <<control, guard, reqs, runReq, runInc, runState, process,
                   quiescent, userPaused, storageResume, latest, session, candidate,
                   fs, procs, up, worker>>

M_FinishedAnyHead(r) ==   \* mutant: the preserved head is not compared
    /\ runState[r] = "Interrupted" /\ quiescent[r]
    /\ session[r] = "completion" /\ snapshot[r] # "none"
\* runtime_store::finalize
Finished(r) ==
    /\ runState[r] = "Interrupted" /\ quiescent[r]
    /\ session[r] = "completion" /\ snapshot[r] = "candidate"

CoFinalize ==
    /\ AtCoord("finalize")
    /\ runState' = [r \in Runs |-> IF Finished(r) THEN "Succeeded" ELSE runState[r]]
    /\ GoCoord("settle", None, FALSE) /\ CoordSame
    /\ UNCHANGED <<control, guard, reqs, runReq, runInc, process, stop, quiescent,
                   userPaused, storageResume, latest, work, fs, procs, up, worker,
                   bounds>>

M_CleanedDelivered(q) ==   \* mutant: cleanup asks for a delivery to be closed
    /\ reqState[q] = "Cancelled"
    /\ \A r \in RunsOf(q) : quiescent[r] /\ op[r] = "none" /\ snapshot[r] # "none"
    /\ delivery[q] \in {"released", "closed"}
\* delivery_control::settle, as far as it concerns the slot.
Cleaned(q) ==
    /\ reqState[q] = "Cancelled"
    /\ \A r \in RunsOf(q) : quiescent[r] /\ op[r] = "none" /\ snapshot[r] # "none"
    /\ delivery[q] # "open"

M_ReleaseOnCancel(q) ==   \* mutant: a cancelled Requirement leaves at once
    \/ reqState[q] = "Cancelled"
    \/ ~reqPaused[q] /\ ~paused /\ delivery[q] = "released"
Releasable(q) ==
    /\ \/ reqState[q] = "Cancelled" /\ cleanup'[q]
       \/ /\ reqState[q] # "Cancelled" /\ ~reqPaused[q] /\ ~paused
          /\ delivery[q] = "released"
    /\ \A r \in RunsOf(q) : quiescent[r]

CoSettle ==
    /\ AtCoord("settle")
    /\ cleanup' = [q \in Requirements |-> cleanup[q] \/ Cleaned(q)]
    /\ owner' = IF owner # None /\ Releasable(owner) THEN None ELSE owner
    /\ GoCoord("barrier", None, FALSE) /\ CoordSame
    /\ UNCHANGED <<paused, incarnation, recovered, guard, reqState, reqPaused,
                   revoked, delivery, rows, work, fs, procs, up, worker, bounds>>

M_ReconciledWork ==   \* mutant: Runs still to be stopped are not counted
    \A r \in Runs : op[r] = "none" /\ (quiescent[r] => snapshot[r] # "none")
\* run_store::finish_recovery
Reconciled ==
    /\ Unresolved = {}
    /\ \A r \in Runs : op[r] = "none" /\ (Known(r) => snapshot[r] # "none")

CoBarrier ==
    /\ AtCoord("barrier")
    /\ recovered' = (recovered \/ Reconciled)
    /\ CoordIdle
    /\ UNCHANGED <<owner, paused, incarnation, guard, reqs, rows, work, fs, procs, up,
                   worker, bounds>>

\* A query, a file or a hook check fails: this tick ends, the next one starts over.
CoError ==
    /\ up /\ cpc # "idle"
    /\ Fault("query")
    /\ CoordIdle
    /\ UNCHANGED <<control, guard, reqs, rows, work, fs, procs, up, worker>>

----------------------------------------------------------------------------
(* The operator.  Each command is one transaction under the lock.          *)

Command(name) ==
    /\ up /\ name \in Commands
    /\ commands < MaxCommands /\ commands' = commands + 1 /\ UNCHANGED faults

\* run_store::pause_in for one Requirement or, with q = None, for all.
Pause(q) ==
    /\ Command("pause")
    /\ IF q = None
       THEN paused' = TRUE /\ UNCHANGED reqPaused
       ELSE /\ ~reqPaused[q] /\ reqState[q] \in {"Ready", "Running"}
            /\ reqPaused' = [reqPaused EXCEPT ![q] = TRUE] /\ UNCHANGED paused
    /\ LET hit(r) == r \in Unresolved /\ (q = None \/ runReq[r] = q) IN
       /\ stop' = [r \in Runs |-> stop[r] \/ hit(r)]
       /\ userPaused' = [r \in Runs |-> userPaused[r] \/ hit(r)]
    /\ UNCHANGED <<owner, incarnation, recovered, guard, reqState, revoked, cleanup,
                   delivery, runReq, runInc, runState, process, quiescent,
                   storageResume, latest, work, fs, procs, up, worker, coord>>

\* delivery_control::resume_in
Resume(q) ==
    /\ Command("resume")
    /\ recovered /\ ~blocked
    /\ \A r \in Unresolved : ~stop[r]
    /\ \A r \in Runs : op[r] = "none"
    /\ IF q = None
       THEN paused' = FALSE /\ UNCHANGED reqPaused
       ELSE /\ reqPaused[q] /\ reqState[q] \in {"Ready", "Running"}
            /\ reqPaused' = [reqPaused EXCEPT ![q] = FALSE] /\ UNCHANGED paused
    /\ UNCHANGED <<owner, incarnation, recovered, guard, reqState, revoked, cleanup,
                   delivery, rows, work, fs, procs, up, worker, coord>>

\* delivery_control::cancel_in
Cancel(q) ==
    /\ Command("cancel")
    /\ reqState[q] \in {"Ready", "Running"}
    /\ reqState' = [reqState EXCEPT ![q] = "Cancelled"]
    /\ stop' = [r \in Runs |-> stop[r] \/ r \in Unresolved \cap RunsOf(q)]
    /\ UNCHANGED <<control, guard, reqPaused, revoked, cleanup, delivery, runReq,
                   runInc, runState, process, quiescent, userPaused, storageResume,
                   latest, work, fs, procs, up, worker, coord>>

\* business::save_repository with revoked = true, for the repository of q.
Revoke(q) ==
    /\ Command("revoke")
    /\ revoked' = [revoked EXCEPT ![q] = TRUE]
    /\ UNCHANGED <<control, guard, reqState, reqPaused, cleanup, delivery, rows, work,
                   fs, procs, up, worker, coord>>

M_NoneRunning == \A r \in Runs : runState[r] # "Running"   \* mutant: by state
NoneUnstopped == Unresolved = {}

\* operator_control::storage_recheck: storage::recover_in, then the resume intent.
StorageRecheck(q) ==
    /\ Command("storage")
    /\ NoneUnstopped
    /\ blocked' = FALSE /\ failed' = FALSE
    /\ storageResume' = [r \in Runs |-> storageResume[r] \/
          ( /\ r = latest[q] /\ reqState[q] = "Running"
            /\ runState[r] = "Interrupted" /\ quiescent[r] /\ stop[r]
            /\ session[r] \in {"none", "open"} )]
    /\ UNCHANGED <<control, reqs, runReq, runInc, runState, process, stop, quiescent,
                   userPaused, latest, work, fs, procs, up, worker, coord>>

----------------------------------------------------------------------------
(* Storage latch, crash and restart, and the delivery seen from the slot.  *)

\* storage::permit finds the shared capacity exhausted and latches: memory
\* first; the row may fail to be written within its two seconds.
Latch ==
    /\ up /\ Fault("latch")
    /\ failed' = TRUE
    /\ blocked' \in {blocked, TRUE}
    /\ UNCHANGED <<control, reqs, rows, work, fs, procs, up, worker, coord>>

\* storage_service::block: a confirmed outage also asks every Run to stop.
StorageBlock ==
    /\ up /\ Fault("storage")
    /\ blocked' = TRUE
    /\ stop' = [r \in Runs |-> stop[r] \/ r \in Unresolved]
    /\ UNCHANGED <<control, failed, reqs, runReq, runInc, runState, process,
                   quiescent, userPaused, storageResume, latest, work, fs, procs, up,
                   worker, coord>>

Crash ==
    /\ up /\ Fault("crash")
    /\ up' = FALSE /\ failed' = FALSE
    /\ WorkerIdle /\ CoordIdle
    /\ UNCHANGED <<control, blocked, reqs, rows, work, fs, procs>>

\* run_store::begin_incarnation, before any task of the new process runs.
Boot ==
    /\ ~up /\ up' = TRUE
    /\ incarnation' = incarnation + 1 /\ recovered' = FALSE
    /\ UNCHANGED <<owner, paused, guard, reqs, rows, work, fs, procs, worker, coord,
                   bounds>>

\* External to this module: validation and handoff of a Succeeded Run open a
\* delivery; the observer sees it merged, or a cancelled one closed.
DeliveryStep(q) ==
    /\ \/ /\ delivery[q] = "none" /\ reqState[q] = "Running"
          /\ \E r \in RunsOf(q) : runState[r] = "Succeeded"
          /\ delivery' = [delivery EXCEPT ![q] = "open"]
       \/ /\ delivery[q] = "open"
          /\ delivery' = [delivery EXCEPT ![q] = "released"]
       \/ /\ delivery[q] = "open" /\ reqState[q] = "Cancelled"
          /\ delivery' = [delivery EXCEPT ![q] = "closed"]
    /\ UNCHANGED <<control, guard, reqState, reqPaused, revoked, cleanup, rows, work,
                   fs, procs, up, worker, coord, bounds>>

----------------------------------------------------------------------------
WorkerStep(r) ==
    \/ LaunchCheck(r) \/ OpenSession(r) \/ Spawn(r) \/ WaitIdentity(r)
    \/ AttachIdentity(r) \/ GrantProbe(r) \/ Grant(r)
    \/ WorkerStop(r) \/ WorkerStopFile(r) \/ CommitPerform(r)

AgentStep(r) == CommitIntent(r) \/ \E kind \in {"completion", "blocker"} : End(r, kind)

SupervisorStep(r) ==
    SupPublish(r) \/ SupCheck(r) \/ SupRefuse(r) \/ SupStart(r) \/ SupKill(r)
    \/ SupReceipt(r)

CoordinatorStep ==
    \/ CoTick \/ CoRunsDone \/ CoPreserve \/ CoFinalize \/ CoSettle \/ CoBarrier
    \/ \E late \in SUBSET Runs : CoList(late)
    \/ \E r \in Runs : \/ CoBlock(r) \/ CoEvidence(r) \/ CoAttach(r) \/ CoConfirm(r)
                        \/ CoRead(r) \/ CoObserve(r) \/ CoPerform(r)

OperatorStep ==
    \/ \E q \in Requirements \cup {None} : Pause(q) \/ Resume(q)
    \/ \E q \in Requirements : Cancel(q) \/ Revoke(q) \/ StorageRecheck(q)

FaultStep ==
    \/ Crash \/ CoError \/ Latch \/ StorageBlock
    \/ \E r \in Runs : SpawnFails(r) \/ GrantFails(r) \/ SupLost(r)

Next ==
    \/ \E q \in Requirements, r \in Runs : Reserve(q, r)
    \/ \E s, r \in Runs : ReserveResume(s, r)
    \/ \E r \in Runs : \/ WorkerStep(r) \/ AgentStep(r) \/ SupervisorStep(r)
                        \/ WriterExit(r) \/ HeartbeatStale(r)
    \/ CoordinatorStep \/ OperatorStep \/ FaultStep \/ Boot
    \/ \E q \in Requirements : DeliveryStep(q)

Spec == Init /\ [][Next]_vars

\* The coordinator renews the heartbeat of such a Run on every tick.
Renewing(r) ==
    up /\ StorageAllowed /\ ~stop[r] /\ ~quiescent[r] /\ runInc[r] = incarnation

\* Ticks are periodic and the process is restarted; every step of the client loop
\* is bounded (at the latest by the 8 h deadline); the supervisor polls every
\* 20 ms; a heartbeat nobody renews ages.  Nothing is assumed of the Agent, the
\* operator or the delivery.
Fairness ==
    /\ WF_vars(CoordinatorStep) /\ WF_vars(Boot)
    /\ \A r \in Runs : /\ WF_vars(WorkerStep(r)) /\ WF_vars(SupervisorStep(r))
                        /\ WF_vars(HeartbeatStale(r) /\ ~Renewing(r))

FairSpec == Spec /\ Fairness

----------------------------------------------------------------------------
(* Properties *)

RunStates == {"None", "Created", "Running", "Interrupted", "Succeeded"}
FileNames == {"dir", "identity", "start", "stop", "quiescent"}

TypeControl ==
    /\ owner \in Requirements \cup {None}
    /\ paused \in BOOLEAN /\ incarnation \in Nat /\ recovered \in BOOLEAN
    /\ blocked \in BOOLEAN /\ failed \in BOOLEAN

TypeReqs ==
    /\ reqState \in [Requirements -> {"Ready", "Running", "Cancelled"}]
    /\ reqPaused \in [Requirements -> BOOLEAN]
    /\ revoked \in [Requirements -> BOOLEAN]
    /\ cleanup \in [Requirements -> BOOLEAN]
    /\ delivery \in [Requirements -> {"none", "open", "released", "closed"}]

TypeRows ==
    /\ runReq \in [Runs -> Requirements \cup {None}]
    /\ runInc \in [Runs -> Nat]
    /\ runState \in [Runs -> RunStates]
    /\ process \in [Runs -> BOOLEAN] /\ stop \in [Runs -> BOOLEAN]
    /\ quiescent \in [Runs -> BOOLEAN] /\ userPaused \in [Runs -> BOOLEAN]
    /\ storageResume \in [Runs -> BOOLEAN]
    /\ latest \in [Requirements -> Runs \cup {None}]

TypeWork ==
    /\ session \in [Runs -> {"none", "open", "completion", "blocker"}]
    /\ candidate \in [Runs -> BOOLEAN]
    /\ op \in [Runs -> {"none", "pending", "partial"}]
    /\ snapshot \in [Runs -> {"none", "work", "candidate"}]

TypeFs == files \in [Runs -> SUBSET FileNames] /\ beat \in [Runs -> BOOLEAN]

TypeProcs ==
    /\ sup \in [Runs -> {"none", "spawned", "parked", "checked", "running",
                         "exited", "refused", "lost"}]
    /\ writer \in [Runs -> BOOLEAN]

TypeWorker ==
    /\ up \in BOOLEAN
    /\ wpc \in {"idle", "open", "spawn", "wait", "attach", "probe", "grant", "run",
                "commit", "fail", "stopfile"}
    /\ wrun \in Runs \cup {None} /\ wready \in BOOLEAN

TypeCoord ==
    /\ cpc \in {"idle", "list", "runs", "evidence", "attach", "confirm", "observe",
                "preserve", "perform", "finalize", "settle", "barrier"}
    /\ crun \in Runs \cup {None} /\ cseen \in BOOLEAN
    /\ ctodo \subseteq Runs /\ cstale \subseteq Runs /\ cknown \subseteq Runs
    /\ cfull \in BOOLEAN

TypeBounds == faults \in Nat /\ commands \in Nat

\* Type invariant of every row, file, process and program counter.
TypeOK ==
    /\ TypeControl /\ TypeReqs /\ TypeRows /\ TypeWork /\ TypeFs /\ TypeProcs
    /\ TypeWorker /\ TypeCoord /\ TypeBounds

\* Processes of two Runs never work at the same time, through pauses, resumes,
\* crashes of the controller and lost supervisors (coordinator.rs, process.rs).
SingleWriter == \A r, s \in Runs : writer[r] /\ writer[s] => r = s

\* agent_run.quiescent is a stop proof: nothing of the Run lives or can start
\* any more (process.rs writes the receipt only after ECHILD; runtime_unstarted
\* retires only what cannot have been spawned).
QuiescentMeansStopped ==
    \A r \in Runs : quiescent[r] =>
        ~writer[r] /\ sup[r] \in {"none", "exited", "refused"}
        /\ ~(wrun = r /\ wpc = "spawn")

\* No writer works before its supervisor's identity is in PostgreSQL
\* (coordinator.rs: the parked handshake).
WriterHasIdentity == \A r \in Runs : writer[r] => process[r]

\* Whatever has not stopped belongs to the Requirement in the slot, and it is the
\* only Run of its kind (run_store::commit_claim, delivery_control::settle).
SlotCoversUnresolved ==
    \A r \in Unresolved : owner = runReq[r] /\ \A s \in Unresolved : s = r

\* With the barrier open every Run of an earlier incarnation has stopped, is
\* preserved and has no unfinished Broker operation (run_store::finish_recovery).
BarrierReconciled ==
    recovered => \A r \in Runs : Known(r) /\ runInc[r] # incarnation =>
        quiescent[r] /\ op[r] = "none" /\ snapshot[r] # "none"

\* Succeeded is never reached without its four facts: the declaration, the
\* candidate, the stop proof and the preserved work (runtime_store::finalize).
SuccessIsProven ==
    \A r \in Runs : runState[r] = "Succeeded" =>
        /\ session[r] = "completion" /\ candidate[r]
        /\ snapshot[r] = "candidate" /\ quiescent[r] /\ ~writer[r]

\* The slot is left only when every Run of its Requirement has stopped, with its
\* work preserved and no Broker operation open (delivery_control::settle: the
\* merged path does not look at snapshots itself).
ReleasePreservesWork ==
    [][\A q \in Requirements : owner = q /\ owner' # q =>
          \A r \in RunsOf(q) : ~writer[r] /\ quiescent[r] /\ op[r] = "none"
                               /\ snapshot[r] # "none"]_vars

\* A start permission appears only while the Run's authority holds: after a
\* committed pause, cancel, revocation or restart none is issued, although the
\* handshake tested its authority earlier (coordinator::grant_start).
GrantUnderAuthority ==
    [][\A r \in Runs : "start" \in files'[r] \ files[r] =>
          /\ ~paused /\ ~reqPaused[runReq[r]] /\ ~revoked[runReq[r]]
          /\ reqState[runReq[r]] # "Cancelled" /\ runInc[r] = incarnation
          /\ recovered /\ ~blocked /\ process[r]]_vars

\* A stop proof and a success are final, and no identity is attached after one
\* (run_store::confirm_quiescent carries no guard of its own against replays).
StopIsFinal ==
    [][\A r \in Runs :
          /\ quiescent[r] => quiescent'[r] /\ process'[r] = process[r]
                             /\ runState'[r] \in {"Interrupted", "Succeeded"}
          /\ runState[r] = "Succeeded" => runState'[r] = "Succeeded"]_vars

\* The storage latch opens only when nothing can write any more
\* (storage::recover_in).
LatchOpensWhenStill ==
    [][blocked /\ ~blocked' =>
          \A r \in Runs : ~writer[r] /\ sup[r] \notin {"spawned", "parked",
                                             "checked", "running", "lost"}]_vars

\* A Requirement enters the slot only from the head of the queue: a paused or a
\* revoked head is never skipped (run_store::queued).
HeadNeverSkipped ==
    [][\A q \in Requirements : owner # q /\ owner' = q =>
          \A p \in Requirements : Rank[p] < Rank[q] => reqState[p] # "Ready"]_vars

\* The slot changes hands in order: it is entered from the head of the queue and
\* left with everything stopped and preserved.
SlotChangesHands == HeadNeverSkipped /\ ReleasePreservesWork

\* What the code leaves to a person: storage latched, a Run without process
\* identity or without its supervisor, an unfinished Broker operation.
NeedsOperator ==
    \/ ~StorageAllowed
    \/ \E r \in Unresolved : sup[r] \in {"none", "lost"}
    \/ \E r \in Runs : op[r] # "none"

\* A stop intent ends in a stop proof, across restarts and deadlines, unless the
\* supervisor was lost or the latch closed before the identity was recorded.
StopIsProven ==
    \A r \in Runs :
        stop[r] /\ sup[r] \in {"spawned", "parked", "checked", "running"}
            ~> \/ quiescent[r] \/ sup[r] = "lost"
               \/ ~process[r] /\ ~StorageAllowed

\* After every restart the recovery barrier opens, or a person is needed
\* (coordinator::recover).
BarrierOpens == ~recovered ~> (recovered \/ NeedsOperator)

\* A cancelled owner gives the slot back, or a person or its delivery is waited
\* for (delivery_control::settle).
CancelFreesSlot ==
    \A q \in Requirements :
        owner = q /\ reqState[q] = "Cancelled"
            ~> (owner # q \/ NeedsOperator \/ delivery[q] = "open")

\* The rows tell the truth about the processes: a stop proof, a missing identity and
\* an open barrier each mean that nothing unknown can write.
RecordsAreTrue == QuiescentMeansStopped /\ WriterHasIdentity /\ BarrierReconciled

\* Recovery comes to an end: every stop is proved, the barrier opens and a cancelled
\* owner leaves, or a person is needed for a named reason (coordinator::recover).
RecoveryEnds == StopIsProven /\ BarrierOpens /\ CancelFreesSlot

----------------------------------------------------------------------------
(* The abstract slot this module implements. *)

Ended == {r \in Runs : /\ ~writer[r]
                       /\ quiescent[r] \/ sup[r] \in {"running", "exited", "refused", "lost"}}

Slot == INSTANCE WriterSlot WITH
    holder <- owner,
    opened <- {r \in Runs : Known(r)},
    active <- {r \in Runs : writer[r]},
    ended  <- Ended,
    proved <- {r \in Runs : quiescent[r]}

\* Every behaviour of the core is one of the abstract slot: Runs are opened one
\* after the other, start once and are proved stopped only after they ended.
ImplementsSlot == Slot!SlotSpec

============================================================================
