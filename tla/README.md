# TLA+ models of the CodexSymphony control plane

CodexSymphony turns reviewed Requirements into merged changes: it runs a coding
Agent in a supervised process, keeps every fact in PostgreSQL, validates the
candidate, publishes it on GitHub and observes what became of it.  The server
(`src/apps/server/src`, Rust) is a set of small state machines over shared rows;
each of its transactions is short, and what is hard lies between them.  This
directory models those state machines, checks them with TLC on small instances and proves
their safety properties with TLAPS for instances of any size.

## 1. The system

### Components

| component | state it keeps | operations | module |
|---|---|---|---|
| **Execution slot** `run_store` | `execution_control` (owner, paused, incarnation, recovery_complete), `agent_run` | begin_incarnation, reserve, attach_process, block, confirm_quiescent, pause, finish_recovery | `Execution` |
| **Coordinator** `coordinator` | none between ticks; one recovery task in flight, every 200 ms | permit (launch handshake), recover (stop, confirm, preserve, finalize, settle, barrier) | `Execution` |
| **Supervisor** `process` | Run directory: launch claim, identity, start, stop, heartbeat, quiescent | prepare, await_permission, drain, receipt | `Execution`, `Integration` |
| **Broker journal** `workspace_store`, `git_broker` | `workspace_operation`, `run_workspace`, `workspace_snapshot` | intent, perform, partial | `Execution` |
| **Storage latch** `storage` | `storage_guard`, in-memory FAILED | permit, latch, recover | `Execution` |
| **Runtime session, client** `runtime_store`, `runtime_client`, `runtime_tools` | `runtime_session`, `runtime_request` | open, turn, tool call, reply, end | `Conversation` (opening and end also in `Execution`) |
| **Questions, resume** `runtime_questions`, `runtime_resume` | `runtime_question`, `runtime_resume` jobs | ask, answer, expire, restore, reserve_resume, dispatch | `Conversation` |
| **Operator** `operator_control`, `delivery_control` | `business_request` | pause, resume, cancel, rechecks | in each module it disturbs |
| **Delivery outbox** `delivery_store`, `delivery_worker`, `delivery_remote` | `delivery`, `delivery_action`, `delivery_attempt` | enqueue, begin, receipt, failed, confirmed, withdraw, settle | `Delivery` |
| **Merge** `merge_*`, `automatic_merge`, `pre_merge_recovery` | `merge_operation`, `pre_merge_recovery` | prepare, validate, send, observe, dispatch, accept, recover | `Merge` |
| **Budget** `budget*`, `group_budget*` | `requirement_budget`, `model_call`, `model_usage_event`, `group_budget`, `group_accounted` | reserve, settle, expire, increase | `Budget` |
| **Group** `group_*`, `draft`, `model_review` | drafts, reviews, `group_queue`, `group_execution_item`, `group_edit`, `group_authorization`, `group_acceptance` | confirm, reorder, propose, approve, prepare, claim, complete, accept | `Group` |
| **Validation, bounded recovery** `validation*`, `recovery*` | `candidate_validation`, `validation_step`, `recovery_failure`, `recovery_retry`, `repair_reservation` | context, begin, run, record, classify, retry, reserve repair | `Validation` |
| **Integration** `integration*` | `integration_validation` and a directory per attempt | claim, prepare, execute, settle, retry, recover | `Integration` |
| **Linked repair** `linked_*` | `linked_failure`, `repair_reservation`, versions of the validation | observe, freeze a source, reserve, bind, accept, revalidate | `LinkedRepair` |
| **Storage lifecycle** `storage_*` | `storage_material`, packages, `storage_attempt`, `storage_allocation` | scan, archive, two-phase deletion; admit, reconcile | `Retention`, `StorageLedger` |
| Preparation, local delivery, hooks, GitHub observation, authentication, diagnostics, model selection, Python tools | see `PROJECT.json` | | not modelled, section 6 |

How they interact: one Requirement at a time holds the *execution slot*.  `Group`
says what enters it, `Execution` gives it to Runs one after the other, `Conversation`
is what happens inside a Run and between a Run and its successor, `Budget` and
`StorageLedger` admit its turns and its bytes, `Validation` takes the candidate a Run
leaves, `Delivery` publishes it, `Merge` merges it, `Integration` validates what
several Requirements merged, `LinkedRepair` repairs what is found broken after that,
and `Retention` removes what all of them leave behind.  Every module keeps the rows of
its own component in full and has the others as environment steps that may come at any
time: `DeliveryStep` of `Execution` is what `Delivery` describes, `work` of `Delivery` is
what `Execution` describes, `Quiesce` of `Conversation` is the coordinator of
`Execution`, `MergePR` of `LinkedRepair` is what `Merge` describes, and so on.

### What is hard

* *Crash windows.*  A launch is a row, a directory, a fork, an identity file, an
  UPDATE and a permission file, with a crash possible between any two; a delivery is
  an intent, a request and a receipt; a deletion is a manifest, a status and files.
* *Several tasks and people.*  The launch handshake, the recovery task, the pollers,
  the operator's transactions, GitHub and people interleave; facts are read before an
  `await` and used after it.
* *Files against rows.*  A supervisor sees only its directory, the controller only
  what was written; a heartbeat ages when nobody renews it.
* *Unknown results.*  A push, a merge or a dispatch whose answer was lost may still
  happen; a process without a receipt may still run.
* *Bounded repetition.*  Retries, repairs and attempts have limits and deadlines
  which restarts, rechecks and rebinding must neither reset nor charge twice.
* *Accounts.*  Budgets and bytes are reserved before and settled after the fact, by
  reports that come late, twice and out of order.
* *Something must happen.*  What fails must be retried, repaired or shown to an
  operator; no row may wait for a step that nothing takes.

`PROJECT.json` lists 40 hazards, each at its line, with the properties that would
catch it going wrong.

## 2. Modules

| module | models | kind |
|---|---|---|
| `Execution` | slot, coordinator, supervisor, Broker journal, session, operator, storage latch | detailed specification |
| `WriterSlot` | what the slot promises: Runs one after the other, each proved stopped before the next | abstract specification |
| `ExecutionInvariant` | the inductive invariant, one named part per subject | invariant |
| `ExecutionProof` | safety; `Execution` implements `WriterSlot` | proofs |
| `Delivery` | the outbox of one Requirement, its worker, the operator, GitHub and people | detailed specification |
| `PublicationPromise` | what the outbox promises: one pull request, opened under the slot, the slot given back with nothing left open | abstract specification |
| `DeliveryProof` | safety and steps of the outbox; `Delivery` implements `PublicationPromise` | proofs |
| `Merge` | the stages of the automatic merge of one delivery | specification |
| `MergeProof` | safety and final outcomes of the merge | proofs |
| `Budget` | accounts of Requirements and of one group | specification |
| `Conversation`, `ConversationProof` | the Runs of one Requirement, what they ask and are told | specification, proofs |
| `Validation`, `ValidationProof` | validations, retries and repairs of one Requirement | specification, proofs |
| `Group` | one reviewed group from the draft to the acceptance of its parent | specification |
| `Integration` | the attempts of one validation-only item | specification |
| `GroupProof` | what is authorized in a group; the attempts of its integration | proofs |
| `LinkedRepair`, `LinkedRepairProof` | failures after the merge and their repairs, item after item | specification, proofs |
| `Retention` | what the Runs of a Requirement leave, the scan and the consumers | specification |
| `StorageLedger` | reservations of bytes | specification |
| `ResourceProof` | what retention keeps; that the accounts of bytes and of model work are right | proofs |
| `MC*` | the cases TLC explores | model checking |

A transaction under `run_store::lock`, a single UPDATE outside it, a file operation or
a remote call is one action.  A program counter with its locals (`wpc`, `cpc`, `worker`,
`w`, `job`) keeps what the code reads before an `await` and uses after it.  A constant
`Cases` is a set of records that bound and select what an instance explores; `Init`
chooses one of them and it stays.  That way one run explores several instances that
stress different parts instead of one large instance that stresses none of them.

The modules `Group` and `Integration`, and `Retention`, `StorageLedger` and `Budget`, are proved
about together and therefore have no name in common (`IntegrationSpec`, `LedgerNext`,
`BudgetTypes`, ...): a proof module extends several of them.  The specifications do not read each other.

### Execution

State, by store: `owner .. recovered` are `execution_control`; `blocked` is the
`storage_guard` row and `failed` its in-memory latch; `reqState`, `reqPaused`,
`revoked`, `cleanup` are the `requirement` (and `repository`) columns; `runReq ..
latest` are `agent_run`; `session`, `candidate`, `op`, `snapshot` are
`runtime_session`, `run_workspace.candidate_sha`, `workspace_operation` and
`workspace_snapshot`; `files` is the Run directory and `beat` says its heartbeat is
fresh; `sup` and `writer` are the supervisor and its descendants; `wpc`, `wrun`,
`wready` are the runtime worker's program counter and locals, `cpc .. cfull` the
recovery task's.

* *Worker*: `Reserve` or `ReserveResume`, `LaunchCheck`, `OpenSession`, `Spawn`,
  `WaitIdentity`, `AttachIdentity`, `GrantProbe`, `Grant`, then the client loop
  (`CommitIntent`, `CommitPerform`, `End`) until `WorkerStop`, `WorkerStopFile`.
* *Supervisor*: `SupPublish`, `SupCheck`, `SupRefuse`, `SupStart`, `SupKill`,
  `SupReceipt`, with `WriterExit` for descendants that end by themselves.
* *Recovery task*: `CoTick` (retires a reservation never dispatched), `CoList`, per
  Run `CoBlock`, `CoEvidence`, `CoAttach`, `CoConfirm` or `CoRead`, `CoObserve`,
  then `CoPreserve`, `CoPerform`, `CoFinalize`, `CoSettle`, `CoBarrier`.
* *Operator*: `Pause`, `Resume`, `Cancel`, `Revoke`, `StorageRecheck`.
* *Faults*: `Crash` and `Boot`, `SupLost`, `SpawnFails`, `GrantFails`, `CoError`,
  `Latch`, `StorageBlock`, `HeartbeatStale`.
* *Outside*: `DeliveryStep` stands for validation, handoff and the observer.

Abstracted: candidates, commits and worktrees are flags and kinds; the app-server
protocol is what its requests do to the rows; deadlines (`budget_store::expire_runs`,
`runtime_questions::expire`) are the set `late` of `CoList`; `agent_run.blocker` is
left out, because every writer of it also sets `stop_requested`.  Identities and
tokens always match: a foreign receipt is rejected by the code and changes nothing.

### Delivery

State: `reqState`, `cancelled`, `paused`, `cleanup`, `slot` are the columns of
`requirement` and whether `execution_control` still names it; `delivery`, `action` and
`attempts` are the rows of `delivery`, `delivery_action` and `delivery_attempt`;
`barrier` and `authorized` are what `allowed` asks of recovery, storage and the
repository; `worker` is the program counter of the one sequential poll with what it
keeps from one read to the next; `mergedSeen` is what the observer recorded.  On the
other side, `branch` and `prs` are GitHub's and `wire` holds requests that were sent and
not yet applied.

* *Poll*: `SyncPrs`, `Settle` (one `SettleRows`), `Pick` (or `NothingDue`), then `Find`, `ReadHead`, and
  `Withdraw`, `ChooseWrite`, `UpdatePr` or `Confirm`.  A write is `Begin` (the intent,
  checked again under the lock) or `Refused`, then `Send`, an answer, `Receipt` and, for
  an error, `Failed`.  Every `await` lies between two actions, so the operator, a crash
  or GitHub may act there.
* *Coordinator*: `CoordinatorSettle`, the same settlement by the recovery task
  (`coordinator.rs:76`, every 200 ms), at any moment of the poll: it may take back the row the
  worker is reading for and give the slot away.
* *Operator*: `Pause`, `Resume`, `Cancel`, `Recheck`.
* *Faults*: `Crash`, `GateCloses`, `ReadFails`, `AdmissionFails`, `SendFails`.  `Timeout`
  and the loss of a request or of its answer need no fault of the budget.
* *GitHub* (external): `Apply` at any time after the request was sent, whoever still
  waits for the answer; `Reject`.  *People* (external): close, merge, push, open a pull
  request of their own.

An answer is what the code distinguishes: `ok`, `definite` (one of the five status codes
that `begin` takes for a refusal) or `unknown`.  Candidates are numbers and heads are the
numbers of their candidates.  `next_attempt_at` is left out: any due row may be next.
Left out as well: automatic merge, the hooks before a delivery and the environment
admission (a refusal before the intent), rebinding of a delivery to a new validation,
people who edit the marker or reopen a pull request; `PrFact::Unknown` is treated as
`Conflict`, as the worker does.

### Merge

The key of a `merge_operation` differs, for one delivery, only in the base, so there is
one row per base of the target branch.  One thread runs the stages *sync*, *settle*,
*pre* (validation of the test merge), *merge*, *accept*, *recover* and *close* over and
over (`w`); each reads GitHub first and commits a row later.  `pr` and `wire` are GitHub's:
strict protection decides in `Answer` whether a request is carried out, long after the
worker stopped waiting for it.  `CoordinatorSettle` is the settlement by the recovery task, at
any moment.  People move the base, close, reopen and merge; the
operator pauses, cancels and decides about a closed pull request (`Decision`).  `paused`
stands for every condition of `merge_store::allowed` that may lift again.  `Overdue` is
the deadline of post-merge checks that never appear.  `sent` and `runs` are histories.

### Budget

Operations are single transactions: start and end of Runs (`ClaimRun`, `StopRun`, `RunEnds`),
`AdmitTurn` or `Refuse` of a turn, `Settle` of a usage event about any turn that ever was, the
reservation of a repair that prepays its first turn, its transfer, and the two increases (one
Requirement; several items of a group at once).  `AuthorizedBalance` is what a repair is planned
and started on: what it prepaid may have filled the rows of its group exactly, at which
nothing else is admitted any more (`GroupAllows`).  `rows` are the rows of `group_budget`,
`WholeGroup` (the empty `item_id`) the one of the group itself, `accounted` what of each item
was booked on it.  `archive` keeps every event of a turn, `usage` what was merged of them.  A
review fixes the limits; it has passed `group_review`, so its budgets are positive and the group
has at most the sum of its items.  The counters `cached` and `output` enter the tokens as `input`
does and are left out.

### Conversation

Runs of one Requirement in order.  `worker` is the thread of `runtime_service`: it picks a
prepared Run, opens the session, sends the input with the answers, waits for the answer to
`turn/start` and handles one message after the other, with those that come meanwhile
deferred (`pending`, `wire`).  The Agent may send any request of this turn or an earlier
one, repeatedly.  Answers are delivered live, or after the Run is quiescent through a
resume job (*restoring*, *prepared*, *dispatched*) that links them to a successor.  Repair
Runs are left out; `MaxTurns` stands for the budget.

### Validation

A validation is named by the Run it validates and the retries that lead to it.  The
worker (`w`) creates it in its context, begins, spawns, waits, records each step, the
result and then, one transaction each, the failures; takes up failures with a retry or a
repair reservation; and completes.  A supervised validation survives the controller, one
of the legacy kind dies with it.  `frozen` are the validations whose context is frozen
(`hook_required`), `invalidated` those of them that a pause or a cancel of the operator has
interrupted since (the triggers of migration 0033); every later step of the worker asks for it
(`ContextRefused`, `Begin`, `RecordStep`, `Finish`, `FinishVoid`).  Other things that take the
authority away, such as recovery or storage, do not fire the triggers (`control` in `Control`).
`late` is the one bit of a retry's deadline.

### Group

Draft, review, confirmation, policy, pending difference and queue with their versions;
`seen` is what the user last read, and every command carries the versions of `seen`.
Items go through `Prepare` (which freezes their input: dependencies and earlier items of
the repository), `Claim`, `Submit`, completion, `Release`; a validation-only item through
`StartValidation`, `PassValidation`.  A child is an order and a text; a replay of a request
is answered from its row.  Budgets, pauses and linked repair are other modules.

### Integration

Per attempt a row, a directory and a supervisor, which three parties read and write: the
worker, the coordinator's recovery (`ObserveMissing`, `ObserveGone`, `Recover`) and the
supervisor, which outlives them.  A version combination is the number of repairs in it,
time is what passed since the first attempt (`Delays`, `Deadline` stand for 30 s, 120 s
and ten minutes).  `repair.of` is the attempt whose failure is repaired: that attempt is left
alone, the one on the repaired versions has its own retries.  An outcome without evidence
(`error`) is taken as it is, one with evidence is replayed on checkouts that did not drift.  `Drift` is a checkout somebody changed, `Excess` the storage limit.

### LinkedRepair

A commit is the set of changes in it, so that `Contains` is ancestry.  A failure (of a merge,
of an integration or of a pull request closed before its merge) waits for a source: the
branch is read, then fetched, then frozen under the lock; then a reservation, a Run, a
candidate, its delivery and acceptance.  The branch may be pushed or rewritten between any
two.  Delivery up to the merge, an integration attempt and a candidate's own repairs are
one step each; `NextItem` lets another item of the repositories follow.

### Retention and StorageLedger

`Retention` has a row and the files of each material (original of the Runtime, work tree
with a build cache, snapshot, stream in the database, packages) and the scan as a program:
measure everything, then per expired item archive, verify, mark, persist, remove.  Runs
that start, candidates that are validated and deliveries that end are its consumers, and
act between any two steps.  A Run that ended with a candidate is *waiting* until the worker
inserts the row of its validation (`Validate`), and again when the validation failed on
infrastructure, until the retry or `GiveUp`; then it is *rejected* and may be repaired
(`RequestRepair`).  The waits of a retry are left out, its three attempts and the
ten-minute limit (`late`) are there.  Left out as well: the comparisons of a cache directory's
device and inode beyond "the registered one" (`same`).

`StorageLedger` has the reservations of Runs, validations and archives, what is written
under each and the scan that measures, settles and stops.  Bytes are units and the
categories of a reservation are added up.

## 3. Runs

One run per component, two for the core; the cases are in the MC module.  A property of a run is often the
conjunction of parts of one subject, each part defined and explained in the module under
its own name; `PROJECT.json` lists for such a property several plausible bugs, most of them for a
part of their own.

| run | cases | what it shows |
|---|---|---|
| `execution` | 2 Requirements, 2 Runs, one fault of {failed operation, lost supervisor, crash}, up to 2 commands of {pause, resume, cancel, revoke} | one writer, success on proof, final stop proofs, the slot covers what runs, `SlotChangesHands` (left only when all is preserved, taken by the head of the queue), no permission without authority |
| `execution_faults` | 1 Requirement, 1 Run, one fault of every kind, a cancel or a storage recheck | `RecordsAreTrue` (a stop proof means stopped, a writer has an identity, the barrier opens over settled Runs), the inductive invariant, the latch, `WriterSlot`; `RecoveryEnds` (stops get proven, the barrier opens, a cancel frees the slot) |
| `delivery` | seven: one candidate with a person, with two faults, with each command; a candidate and its repair with a command, a fault, a person; the coordinator settles at any moment in all of them | `PublishesOnce` (one pull request, an exact ledger, closing only what is its own), `SlotIsHeld` (no write and nothing open without the slot), `DecisionsStand` (final but for one late read), `PublicationPromise`, `PublicationEnds` (what landed is confirmed, a cancel cleans up) |
| `merge` | a validated test merge, a dispatched check, a pull request closed before the merge | `MergeHolds` (one request, one dispatch, merged as validated, Done is accepted, a superseded delivery was never sent), `OutcomesStand`, `OperationsSettle` |
| `budget` | a group with the sum of the limits, a group with less, no group; two Runs of one account, one a repair, one Run of another; events on the way, at the end, without counters and beyond the reservation; one grant each; a repair that fills the group's row exactly occurs | `AccountsHold` (usage is its history, the group is the sum, reservations cover what is settled once, who overdraws stops), `AdmissionFits` |
| `conversation` | tools of one Run; questions of two; two turns that ask; three Runs with a pause or a failure; crashes | `ConversationHolds` (durable replies, every answer heard, only the newest asks, clean ends), `NoTurnWhileAsking`, `AnswerArrives` |
| `validation` | one step with a supervisor: infrastructure failures, code failures, and unknown results, each with one command and the first two with a fault; two repairs without and with a fault; two steps inside the controller | `ValidationHolds` (run once, success proven, bounded repairs that belong to a clear failure and the current Run), `DecidedStays` (nothing decided or interrupted is revived), `FailuresAreDecided` |
| `group` | two repositories, full-chain criterion, texts change; one repository, orders with a gap, moves and a cancel | `QueueIsReviewed` (what is authorized was on the screen, dependencies are never newer, pending changes touch nothing started), `StartedAndAccepted`, `GroupAccepted` |
| `integration` | any one disturbance of seven; two of {crash, death of the supervisor, cancel} | `AttemptsHold` (one supervisor, recovery finds quiet, acceptance on the required versions), `AttemptsEnd` |
| `linked_repair` | two repositories, one local, three failures; repairs whose merge fails; two code items whose pull request is closed | `RepairsHold` (serial, paid once, in scope, accepted on what was repaired), `FailureEnds` |
| `retention` | originals and packages of two Runs, their stream, failures while packing, recovery materials of one Run, a replaced cache, a Runtime with its work tree | `MaterialsStay` (the copy of what is or may become the current success is not taken; packages), `RemovalSafe` (nothing in use is removed), `CleanedUp` (what expired is removed or shown) |
| `storage_ledger` | two Runs of one requirement with validations and a retry; two requirements that compete | `LedgerHolds` (the worst case fits, quotas hold), `NeverRefunded`, `ExcessStops` |

*Bounds.*  Two Runs are enough for every property that relates Runs, since a third
can only be opened after the first two were proved stopped; a third appears where a
chain matters (answers that need two successors, repair of a repair).  Two Requirements
give one head and one behind it.  Faults are bounded by a budget per case; what two faults
at once do to the core is covered by the proofs, which know no bound.  Attempts, retries
and delays have the code's own limits unless the bound would be out of reach, and then
the limit is a parameter with a smaller value (`limit` of `Delivery`, `Deadline`).  In
`integration` four attempts are one more than retries and one repair can use.

In `execution` the constraint `Explored` cuts what is explored elsewhere: the second
Requirement, cancellation and revocation come without faults and with at most one
command, and a fault comes with a pause of the first Requirement only.  The Runs are
symmetric there (no liveness is checked).  In `budget` the constraint `Explored` lets the events of
one turn come in any number up to four and any order, and few of the other turns; with every
event of every turn the graph is too large, and turns of two Runs share no state but the sums.

`execution`, `execution_faults` and `delivery` check for deadlocks.  The other
configurations say `CHECK_DEADLOCK FALSE`: their systems stop when all is done, or when
the bound on Runs, turns, items, acts or reports is used up.

*Fairness.*  What the code drives is fair: the coordinator's tick and the pollers (200 ms),
the supervisor (20 ms), the worker threads, the maintenance worker, the restart of a
stopped process.  Work that has a timeout ends (`WorkerStep`, `Finishes`, `Results`), time
passes (`Late`, `Pass`, `Elapse`, `HeartbeatStale`), and where the worker waits for it a
pause is lifted; `Validation` assumes only that the operator leaves the Requirement alone
eventually (`<>[]Allowed`), as a hypothesis of the property.  Strong fairness appears twice:
`Pick` of a row of the outbox is possible once per poll only, and
`delivery_store::observed` sends a row that was looked at to the end, so that every due
row comes first again and again; `Overdue` of `Merge` is a comparison with a clock that
passes it whatever happens.  Nothing is assumed of the Agent or of people, and of GitHub
only in `Merge` that it answers and that checks end.  Where a person must act the
liveness properties name that end (`NeedsOperator`, `Held`, `Stranded`, `Parked`, `Stuck`,
`Taken`), so that a new way to hang would be found.

## 4. Proofs

The theorems hold for all values of the constants under each module's named assumption
(`ConstantsAssumption`, `DeliveryAssumption`, `MergeAssumption`, `ConversationAssumption`,
`ValidationAssumption`, `GroupAssumption`, `IntegrationAssumption`, `LinkedRepairAssumption`,
`RetentionAssumption`, `LedgerAssumption`, `BudgetAssumption`), which says only what
kind of thing a constant is and what the code has checked before: bounds are naturals, `None` is
no Run, a case is a record of the shape the module reads, a deadline lies within the time that is
modelled, a reviewed budget is positive, a turn reserves exactly one turn.  So they cover any
number of Runs, deliveries, bases, turns and questions, plans, attempts, repositories, items,
materials, usage events, failures, crashes and commands, where the runs of section 3 cover a few.
In every component the properties that matter are not inductive; each proof rests on an inductive
invariant (`IInv`, `AttemptInv`, `LedgerInv`, `BudgetInv`), which TLC checked on the component's
instances before it was proved.

Every safety property of section 3, the invariants and the properties of steps, is a theorem,
and so are the two refinements.

*The core (`ExecutionProof`).*

* `TypeCorrect`: one lemma per group of actions (worker, supervisor, coordinator,
  others), each action with one step per part of `TypeOK` it changes.
* `Inductive`: none of the safety properties is inductive.  `SingleWriter` leans on
  the unresolved Run being alone (`SlotI`), which leans on what a stop proof means
  (`StopI`), which leans on receipts being written only by supervisors that are
  through (`PathI`) and on the recovery task's locals being true of the rows they were
  read from (`CoordI`): a receipt once seen is still there and a listed Run is not
  Succeeded, although the step that uses them comes later.  `ReleasePreservesWork`
  needs `BrokerI`: `settle` does not look at snapshots on the merged path, but the
  same task found nothing unpreserved before, and only that task records stop proofs.
  `InvKept` says which variables each part depends on, so that a step shows only the
  parts it can disturb; `InvGrows` covers steps that only add proofs and snapshots.
* From it: `OneWriter`, `StopProofSound`, `WriterKnown`, `SlotCovers`, `BarrierSound`,
  `RecordsTrue`, `SuccessSound` for states; `ReleaseSound`, `HeadSound`, `LatchSound`,
  `GrantSound`, `FinalSound` for steps (the first two are `HandsSound`), each with a lemma that says which actions can
  change the variable it is about (`OwnerChanges`, `LatchChanges`, `StartChanges`,
  `FateChanges`).
* `Implements`: `Spec => ImplementsSlot`; the actions that move the abstract slot are
  `Reserve`, `ReserveResume`, `SupStart` (Start), the ways a writer or a supervisor
  ends (Finish), `CoTick`, `CoConfirm`, `CoObserve` (Prove) and `CoSettle` (Release).

*The outbox (`DeliveryProof`).*  `PublishesOnce` speaks of GitHub, where the code sees only
answers, so the invariant says how the two relate.  `Chain` numbers the deliveries without a gap
and `Linking` says what links a row to the one before it; `Single` says that of the attempts of one
delivery and operation only the newest is not refused for certain; `Decided` says what a confirmed, refused or withdrawn row claims of GitHub,
and that it is true and stays true; `UnderWay` and `Remote` say that a request on the wire
belongs to an open attempt and that a head on GitHub was pushed by an attempt that is spent, so
nothing pushes it twice; `Picked`, `Read` and `Writes` say what the worker's locals still
mean after the `await` they were read before.  `Quiet` is the slot.
* `StepRows` says which rows a step may write, `RowsMove` and `LinksMove` in which direction,
  `DoneStays` that a finished attempt is never reopened; the part lemmas (`SingleKept`,
  `UnderWayKept`, `RemoteKept`, `DecidedKept`, ...) use these instead of the actions.
* The coordinator settles at any moment of the poll, so the row `Picked` is
  `Workable`: still due, or taken back with nothing sent for it.  `Begin` asks again under the lock
  and refuses the second kind, and an attempt that is about to be sent or on the wire (`Pressing`)
  keeps its row from being decided and the slot from being given up.
* `ReleaseIsQuiet`: settle sees rows and the merges it was told of.  From a row that is released,
  closed or withdrawn it follows that its attempts are spent or refused for certain, so that
  nothing is under way that publishes and the platform's pull request is not open.
* From it: `PublishedOnce`, `SlotHeld` for states, `DecisionsKept` for steps, and
  `PromiseImplemented`: `Spec => ImplementsPromise`, where `PromiseStep` names for each action the
  abstract step it is (open, end, cancel, release) or shows that it is none.

*The automatic merge (`MergeProof`).*  `RemoteExplained` says that GitHub has seen only what a
begun operation sent; with `OneActive` and what the worker knows between its awaits
(`WorkerKnows`: before a send no request was ever sent) one merge and one dispatch follow
(`MergeSound`).  `RequirementKnows` carries what a cancel, a replacement and a completion look
at.  `OutcomesFinal` follows with one lemma for each variable that decides an outcome.

*The conversation (`ConversationProof`).*  The worker reads the rows in one transaction and acts on
what it read in a later one, while the user answers, a deadline expires or the operator pauses.
`WorkerKnows` says what of it is still so: at `dispatch` every answer of the Run was heard, at
`delivered` the answer is with the Agent, from `tool` to `result` the request is still the one that
was opened, and all of it is of the newest Run.  `Numbered` and `Stages` order Runs, sessions and
turns; `RowsAgree` binds replies to requests and operations.  Lemmas on rows (`RunMoves`,
`SessionMoves`, `QuestionMoves`, `TurnMoves`, `ToldStays`, `OperationMoves`) say in which direction
a step may move each, and the parts of the invariant follow from these.
* From it: `ConversationSound`, and for steps `TurnsWait`: no turn is sent past a question.

*Validation and repair (`ValidationProof`).*  A row is looked at one by one: `SoundRow` is what the
invariant says of a validation and its files, `ValMoves` that each step moves a row as the
supervisor does (`Ran`), as the worker does (`Worked`), or adds a new one, and both ways keep it
sound; so `StartedOnce`, `SucceededIsProven` and the step property `DecidedStays`.  `Hooks` says
that only what is frozen is interrupted; `HooksGrow` and `InterruptedStays` that an interruption is
never taken back and that what was pending then is blocked or stays pending.  Beyond the
properties the invariant needs `Charged`: failures that can be charged and repairs are of decided
validations (one that was interrupted late reports failures undecided, as blocked ones), and one
that has a repair has no failure that could be charged again.  From it a repair is reserved at most
once per validation, and the worker, which records failures of a validation that was undecided when
it began, finds no repair of it (`WorkerKnows`).  `RepairsPass` and `FailuresPass` say how a step
may move a repair and a failure; `ReserveAdds` what a reservation adds.
* From it: `ValidationSound` for states, `ResultsFinal` for steps.

*Linked repairs (`LinkedRepairProof`).*  `OneUnresolved` and `ReservationOfLast` make the repairs of
an item serial; `PaidOnce` bounds the account by the rows that were paid for, whatever a crash
repeats; `SourceCurrent` keeps what the controller froze true of its failure; `LaterContains` and
`RepairsBound` say that each merged repair is in every later version, or waits for its
revalidation behind failures of its own merge only.  `RepairsSound` gives all of `RepairsHold`.

*The group (`GroupProof`).*  A commit compares the versions the user sent with those in the rows,
and the property speaks of what was on the screen.  `Screens` says that what was read last is the
document and the policy of those versions or of older ones, `Bound` that the confirmation, as long
as its versions are the current ones, is of the current texts, and `Pending` that the difference
under review has the items it may touch (`edit.affected`, closed under what is built on them), of
which `Held` says that they are frozen or not there.  About the items: `InForce` (their texts are
those of the document), `Renewed` (no item has an older authorization than one it
depends on), `Builton` (what has started runs on inputs that are done, under the authorization they had
then).  `Materialize` and `Approve` rewrite all items at once, so the parts about items are stated
of any projection and proved of the new one as a whole; `Propose` needs that the least closed set
contains what it must and nothing that has started.
* From it: `QueueSound` for states; `EditsKeepStarted` for steps (what has started keeps its text,
  its authorization and its inputs; the parent is accepted once, with all its items done).

*Integration (`GroupProof`).*  `Receipts` (a row claims of its process only what the directory
bears out, and only the last attempt may still run), `SlotHeld`, `OldStopped` (nothing of an
earlier controller survives a recovery), `VersionsCurrent` (the last attempt runs on what the
merged repairs produced, or is the rejected one the repair is for); `AttemptsSound` follows.

*Retention (`ResourceProof`).*  The scan decides in one transaction and removes in later ones, while
Runs, validations and deliveries go on.  `Owned`, `Packed` and `Justified` say of each material what
was true when its removal was decided and still is: its Run is over, the package of an original is
bound to it, whole and present until the removal is complete, a work tree was clean and
published.  `Chosen` and `Stored` say the same of the item
the scan has in hand and of the package it is writing, which nobody else names (`Unbound`).
`QuietKeeps` covers all steps that remove nothing: Runs only advance, so what was over stays over
(`LastRun`, `PublisherFixed`).
  `OthersStay` says that only the decision and the removal take anything, `PersistTakes` that a
  decision takes no copy of a Run that works, is validated or is the current success, and
  `RemovalTakes` that a removal takes what was decided before; so `CopyStep`.
* From it: `KeptWhole` and `RemovesSafely`, both with a part for steps.

*The ledger (`ResourceProof`).*  A quota compares sums of what rows were granted, and a row is
granted more when it is reconciled with what was really written.  So `GrantedOnce` bounds not the
granted bytes but the `Potential`, what each row has been granted or will be once it is
reconciled, by the quota, what was there before storage was configured, and the excess
(`ExcessCounted`); only `Admit` and writing in excess of a reservation raise it, and a refusal,
a settlement and a scan do not.  `Booked` relates a row to the bytes under it, `Held` a Run to the
rows its phase needs, `Promised` is the global limit.
* From it: `LedgerIsKept` for states, `NothingRefunded` for steps.

*Budgets (`ResourceProof`).*  The rows of a group are only ever moved by differences, of an account
that is a sum over turns which changes with every late event.  `History` says that the counters of a
turn are the greatest of its events (a merge is monotone, commutative and idempotent, which is all
that order and repetition need); `Books` that what was booked of each item is its account now and
that the rows of the group have the sums of what was booked; `GroupLimits` that limits add up.  What
may be admitted needs more.  `ReservationsHold`: settling a turn may make room in an account, and
the room is given to others; it is covered again only because a settled turn can no longer change
its cost.  `Frozen`: while any item of the group is not exhausted nothing in the group is overdrawn,
because whoever overdraws stops all of them in the same transaction and a grant lifts it only if
everything fits; `OverdrawnStops` follows for the active Runs, and it needs `Positive` and `Begun` (a fresh
account is not spent, and only a Run that was claimed has turns).
* From it: `BooksAreRight` for states, `AdmissionSound` for steps.

*Sums.*  Sums over sets are folds, of which the provers know nothing, and the library's induction
cannot be instantiated.  `ResourceProof` proves what it needs of them without induction: the sum of natural
numbers over a finite set is the cardinality of a set of units (`SigmaUnits`), by taking a
smallest counterexample among the subsets (`Smallest`, from the well-foundedness of strict
inclusion).  From it `SigmaPlus`, `SigmaTake`, `SigmaChange`, `SigmaMono`, `SigmaMember`: sums do not
depend on the order, add up, and move by what one member moves.

*Only model-checked*: liveness, that is `RecoveryEnds`, `PublicationEnds`, `AnswerArrives`,
`OperationsSettle`, `FailuresAreDecided`, `GroupAccepted`, `AttemptsEnd`, `FailureEnds`, `CleanedUp`
and `ExcessStops`, which rest on fairness and ENABLED and are out of the prover's reach, and the
absence of deadlocks.

## 5. Observed

Where the models had to say more, or less, than a document or a comment of the
repository does.  Each is a behaviour of the code which the modules contain; the properties
are stated so that they hold of it, and name the case where it matters.

* *Execution.*  `coordinator.rs:56` says stop receipts are consumed under the storage latch
  too.  `recover` under the latch only calls `observe` (`:86`), which ignores a Run whose row
  has no identity: when the latch closes and the controller dies between the identity file
  and `attach_process`, the receipt is never consumed, and `storage.rs:136` waits for every
  Run to be quiescent.  `StopIsProven` names this state.
* *Delivery.*  `docs/delivery.md:17` says a conflict blocks the action.  `due` picks blocked rows
  and `failed` (`delivery_store.rs:252`) computes the state from the newer failure: after a read
  that fails for a transient reason the row is `unknown` again, and with it writable.
  Since the coordinator settles while the worker waits for GitHub (`coordinator.rs:76`), the row
  may be *withdrawn* by then and the slot given away: the failed read opens it again, until the
  next settlement takes it back.  Nothing comes of it, because only a cancelled Requirement's
  action that nothing was sent for is taken back so, and `begin` asks for the slot and for no
  cancel; `DecisionsStand` says exactly that.
  Also: `withdraw` asks for the exact head or for no attempt at all, so a cancelled
  Requirement whose push GitHub refused for certain waits for a person (`Held`).
* *Conversation.*  A pause between the two transactions of `runtime_resume::next` leaves the
  job *restoring* until the controller restarts (`Stuck`).  `runtime_blocker.resolved` has no
  setter: a Run that ended with a blocker ends the conversation.
* *Merge.*  The merge method is known only from the Broker's own answer; when the answer is lost
  and the merge observed, acceptance ends blocked.  A cancel while an interrupted acceptance has no
  result, or after an operation began and was blocked, is stranded (`Stranded`).  A transient
  error during the validation before the merge blocks the operation.
* *Budget.*  `budget.rs:56` allows the end of a turn before its final counters and `:107` keeps the
  reservation until reconciliation finishes, but `settled` asks only for counters and an end: a turn
  that ends after counters on the way is settled at those, what remained of its reservation may
  be given to others, and later counters of it, which the store accepts, may overdraw the account,
  which then stops.  `ReservationsHold` speaks of turns that were settled once.
  A group whose reviewed limit is below the sum of its items can never be increased.
  The claim of a Run does not look at `exhausted`; only the admission of a turn does.
* *Validation.*  Two steps of one validation that fail on infrastructure each have a retry row,
  but both name their first record alike (`recovery_retry.rs:71`), so the second is never made
  and expires.  A retry that fails has an event without a retry row of its own (`:21`), which
  no expiry blocks.  Result and failure events are separate transactions
  (`validation_service.rs:229`): a failure is lost in a crash between them.  A failure that
  cannot be taken up holds back all later ones (`Taken`).  A legacy validation that dies with
  the controller stays pending, which is why `CandidateDecided` speaks of supervised ones.
  `docs/validation-hooks.md:41` says that what a pause or a cancel interrupts is permanently
  invalidated.  What happens to its row depends on when: interrupted while it executes, it is
  *blocked* (`context::unknown`); interrupted after its evidence was read, between `check_current`
  and `finish`, it stays *pending* for ever, since `prepare` refuses it in every later tick and
  `load_evidence` does not find it, and its failing steps are recorded as blocked.  Such a
  retry is not completed but expires.  `CandidateDecided` names the interrupted ones.
* *Group.*  With a gap in the orders, a reorder can move an item in front of one that was prepared
  before (`group_edit_api.rs:85`), and an item that only moves may be claimed before the
  approval moves it (`group_edit_apply.rs:55`); `BoundStays` and `StartedIsFixed` speak of what was
  bound and of what an item runs on, not of its place.  Without a full-chain criterion the last
  child may pass before the others, and then nothing accepts the parent
  (`integration_store.rs:133`), hence `FullChain` in `GroupAccepted`.
* *Integration.*  A supervisor that stopped its work because the heartbeat ran out leaves no
  `stop.json`, and an attempt without a result is retried only with one
  (`integration_retry.rs:125`): it is parked (`StoppedAlone`), and the operator's inbox does not
  list it.
* *LinkedRepair.*  `pending_job` (`linked_repair_worker.rs:27`) takes the oldest reservation whatever
  became of its failure; an item cancelled between reservation and Run leaves one that no
  later repair gets past (`res.stale` in `FailureEnds`).  A repair of a failed merge can be
  left out again: when its revalidation fails on infrastructure, the older repair is
  revalidated next and puts its own version into the combination
  (`linked_integration.rs:25`; `Overtaken` in `AcceptedOnRepaired`).
* *Retention.*  A candidate that waits for the row of its validation, or for the retry of one that
  failed on infrastructure, has no consumer (`storage_consumers.rs:48`), though
  `docs/storage-lifecycle.md` protects current successes: its expired original may be archived and
  removed, and then its package, before it succeeds.  A removal that was decided in this window is
  also carried out after the success.  `SuccessKept` is therefore about steps: no
  decision takes the last copy while the Run works, is validated or is the current success.
  A registered cache that its Run re-creates, or that went with a half-removed work
  tree, fails `measure_materials` (`storage_cleanup.rs:615`) in every later scan and admission;
  the scan's retry ends and is shown (`scan.st` in `CleanedUp`), and a recheck fails again.  A
  reclaim proof that names an older delivery keeps its snapshot for ever.
* *StorageLedger.*  The scan settles the reservation of a validation that is admitted and not yet
  inserted (`storage_cleanup.rs:570`), and of one that waits for an infrastructure retry; from then
  on its bytes are not promised to it (`storage_store.rs:212` says otherwise).  `Promised` is stated
  for Runs without a candidate.  An archive interrupted by a crash keeps its reservation (not
  modelled).

## 6. Not modelled, and the plan

* *Preparation, local delivery, environment and hooks*: each has its own reservations and
  unknown results.  Elsewhere their refusal is a failure of the phase they guard.
* *GitHub observation*: the observer's facts are environment steps that may lag; its
  pagination, credentials and backoff are I/O.
* *Inside the modelled parts*: the hook variant of the supervisor and Prepare and Restore of the
  Broker (`Execution`), hooks and automatic rebinding of a delivery (`Delivery`), the remote rerun
  of GitHub checks (bounded recovery), the legacy repair policy and the revalidation an operator asks for
  (`extension_revalidation`; `Validation`), generation and validation of single documents (`Group`).
* *Authentication, diagnostics, model routes, the Python tools* carry no protocol state of
  interest, or only read.

Next: modules for preparation and for local delivery; then proofs about both.
