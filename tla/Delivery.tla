------------------------------ MODULE Delivery ------------------------------
(***************************************************************************)
(* The delivery outbox of one Requirement: how validated candidates become *)
(* a pull request, how the pull request is closed after a cancellation,    *)
(* and when the slot is given back.  The rows (delivery, delivery_action,  *)
(* delivery_attempt, requirement, execution_control) survive everything;   *)
(* one sequential worker (github_service::poll) works on them; the         *)
(* operator's commands are transactions of their own; GitHub applies a     *)
(* request some time after it was sent, or never, and its answer may be    *)
(* lost; people act on the repository too.                                 *)
(*                                                                         *)
(* Candidates are numbered 1, 2, ... in the order they were validated: the *)
(* first opens the pull request, a later one is the repair of the previous *)
(* one and updates the same pull request.  Candidate d and delivery d have *)
(* the same number; head d is its commit, head 0 the base of the branch.   *)
(* A transaction under run_store::lock is one step, so is one UPDATE.      *)
(* next_attempt_at is left out: any due row may be the next one.           *)
(***************************************************************************)
EXTENDS Integers, Sequences, FiniteSets

CONSTANTS
    Last,    \* candidates that are ever validated
    Cases    \* what an instance explores, see case

ASSUME DeliveryAssumption ==
    /\ Last \in Nat \ {0}
    /\ \A c \in Cases : /\ c.last \in 1..Last /\ c.limit \in Nat \ {0} /\ c.retry \in Nat
                       /\ c.faults \in Nat /\ c.commands \in Nat /\ c.people \in Nat

VARIABLES
    \* requirement and execution_control: reqState, cancel_requested, paused,
    \* cleanup_complete, and whether the Requirement still holds the slot
    reqState, cancelled, paused, cleanup, slot,
    \* the Run of the next candidate: "coding" (not quiescent), "candidate"
    \* (its validation is pending), "done"
    work,
    \* recovery_complete and storage open; authorization not revoked and fresh
    barrier, authorized,
    \* delivery and delivery_action rows; delivery_attempt rows, in id order
    delivery, action, attempts,
    \* the worker's program counter and locals
    worker,
    \* numbers of the pull requests the observer has seen merged
    mergedSeen,
    \* GitHub: head of the branch, its pull requests, requests under way
    branch, prs, wire,
    \* bounds: crashes, failed reads, refusals, obstructions; operator commands;
    \* what people do to the repository
    faults, commands, people,
    \* the case explored, constant: last, limit (delivery_action.attempt_limit when
    \* the row is made), retry (attempts one delivery_recheck adds), the commands
    \* given (names), and the bounds faults, commands, people
    case

requirement == <<reqState, cancelled, paused, cleanup, slot>>
gates       == <<barrier, authorized>>
ledger      == <<delivery, action, attempts>>
github      == <<branch, prs, wire>>
bounds      == <<faults, commands, people>>
moving == <<requirement, work, gates, ledger, worker, mergedSeen, github, bounds>>
vars   == <<moving, case>>

Deliveries == 1..Last
Foreign    == Last + 1      \* a head that somebody else pushed
Heads      == 0..Foreign
Kinds      == {"publish", "close"}
KindOf(op) == IF op = "close" THEN "close" ELSE "publish"

Codes    == {"transient", "denied", "conflict"}
\* a receipt: the result, or what the error says about the request
Receipts == {"ok", "definite", "unknown"}

Enqueued == {d \in Deliveries : action[d]["publish"].state # "none"}
Current  == {d \in Enqueued : delivery[d].superseded = 0}
NextCandidate    == Cardinality(Enqueued) + 1      \* the candidate worked on

NoAction == [state |-> "none", attempts |-> 0, limit |-> case.limit, error |-> "none"]
Pending  == [NoAction EXCEPT !.state = "pending"]
Idle     == [pc |-> "idle", job |-> 0, kind |-> "publish", number |-> 0,
             seen |-> 0, fact |-> "none", head |-> 0, op |-> "none",
             attempt |-> 0, outcome |-> "none", code |-> "none"]

Init ==
    /\ case \in Cases
    /\ reqState = "Running" /\ cancelled = FALSE /\ paused = FALSE
    /\ cleanup = FALSE /\ slot = TRUE
    /\ work = "candidate"
    /\ barrier = TRUE /\ authorized = TRUE
    /\ delivery = [d \in Deliveries |-> [original |-> 0, expected |-> 0, pr |-> 0,
                                         superseded |-> 0, released |-> FALSE]]
    /\ action = [d \in Deliveries |-> [k \in Kinds |-> NoAction]]
    /\ attempts = <<>>
    /\ worker = Idle
    /\ mergedSeen = {}
    /\ branch = 0 /\ prs = <<>> /\ wire = {}
    /\ faults = 0 /\ commands = 0 /\ people = 0

At(pc) == worker.pc = pc
Go(pc) == worker' = [worker EXCEPT !.pc = pc]
Fault  == faults < case.faults /\ faults' = faults + 1
Fail(code) == worker' = [worker EXCEPT !.pc = "failed", !.code = code]

(***************************************************************************)
(* Candidates: validation, enqueueing, repair.                             *)
(***************************************************************************)

\* delivery_store::enqueue_github: the newest published predecessor.
Predecessors(d) == {e \in 1..(d - 1) : delivery[e].pr # 0 /\ delivery[e].superseded = 0}

Root(d) == IF delivery[d].original = 0 THEN d ELSE delivery[d].original

\* validation_store::save_outcome with delivery_store::enqueue: the receipt of
\* the validation and the intent to publish commit together.
Enqueue ==
    /\ work = "candidate" /\ NextCandidate <= case.last
    /\ LET d == NextCandidate
           previous == Predecessors(d)
       IN  /\ action' = [action EXCEPT ![d]["publish"] = Pending]
           /\ \/ previous = {} /\ UNCHANGED delivery
              \/ \E e \in previous :
                    /\ \A f \in previous : f <= e
                    /\ delivery' = [delivery EXCEPT ![d].original = Root(e),
                                                    ![d].expected = e,
                                                    ![d].pr = delivery[e].pr]
    /\ work' = "done"
    /\ UNCHANGED <<requirement, gates, attempts, worker, mergedSeen, github, bounds>>

\* recovery_store::reserve: CI refused the published head; a repair may run.
StartRepair ==
    /\ work = "done" /\ NextCandidate <= case.last /\ Enqueued # {}
    /\ action[NextCandidate - 1]["publish"].state = "confirmed"
    /\ slot /\ ~cancelled /\ ~paused /\ barrier /\ authorized
    /\ reqState' = "Running"
    /\ work' = "coding"
    /\ UNCHANGED <<cancelled, paused, cleanup, slot, gates, ledger, worker, mergedSeen,
                   github, bounds>>

\* The Run stops, its work is preserved; Execution has the details.
CodingEnds ==
    /\ work = "coding"
    /\ work' = "candidate"
    /\ UNCHANGED <<requirement, gates, ledger, worker, mergedSeen, github, bounds>>

(***************************************************************************)
(* The worker's poll: observer, settlement, choice of a due action.        *)
(***************************************************************************)

Linked == {delivery[d].pr : d \in Enqueued} \ {0}
\* head of a pull request: it follows the branch until it is closed or merged
HeadOf(n) == IF prs[n].state = "open" THEN branch ELSE prs[n].head

\* github_service::sync_prs
SyncPrs ==
    /\ At("idle")
    /\ mergedSeen' = {n \in Linked : prs[n].state = "merged"}
    /\ mergedSeen' # mergedSeen
    /\ UNCHANGED <<requirement, work, gates, ledger, worker, github, bounds>>

Untouched(d) == \A i \in DOMAIN attempts : attempts[i].delivery # d

\* settle: a publish intent nobody acted on is taken back after a cancellation
Revocable(d) ==
    /\ cancelled /\ d \in Enqueued
    /\ delivery[d].pr = 0 \/ delivery[d].original # 0
    /\ Untouched(d)

Revoked ==
    [d \in Deliveries |->
        LET publish == IF Revocable(d) THEN "withdrawn" ELSE action[d]["publish"].state
            obsolete == /\ delivery[d].original # 0 /\ publish = "withdrawn"
                        /\ Untouched(d) /\ action[d]["close"].state # "none"
        IN  [action[d] EXCEPT !["publish"].state = publish,
                              !["close"].state = IF obsolete THEN "withdrawn" ELSE @]]

\* settle: fresh observations (less than 60 s old) of an exact merge
Released(fresh) ==
    [d \in Deliveries |->
        [delivery[d] EXCEPT !.released =
            \/ @
            \/ d \in Enqueued /\ delivery[d].pr \in fresh /\ prs[delivery[d].pr].head = d]]

\* Mutants: a close that is blocked, or a publish that has no pull request yet,
\* counts as cleaned up.
M_AccountedBlocked(d, rows, acts) ==
    \/ rows[d].superseded # 0 \/ rows[d].released
    \/ acts[d]["close"].state \in {"confirmed", "blocked"}
    \/ acts[d]["publish"].state = "withdrawn"
M_AccountedAbsent(d, rows, acts) ==
    \/ rows[d].superseded # 0 \/ rows[d].released
    \/ acts[d]["close"].state = "confirmed"
    \/ acts[d]["publish"].state = "withdrawn" \/ rows[d].pr = 0

\* settle: nothing of delivery d is left on GitHub, as far as rows can tell
Accounted(d, rows, acts) ==
    \/ rows[d].superseded # 0
    \/ rows[d].released
    \/ acts[d]["close"].state = "confirmed"
    \/ acts[d]["publish"].state = "withdrawn"

\* delivery_control::settle, one transaction; the repository is not merged
\* automatically.
SettleRows ==
    /\ action' = Revoked
    /\ \E fresh \in SUBSET mergedSeen : delivery' = Released(fresh)
    /\ cleanup' = \/ cleanup
                  \/ /\ cancelled /\ work # "coding"
                     /\ \A d \in Enqueued : Accounted(d, delivery', action')
    /\ slot' = /\ slot
               /\ \/ work = "coding"
                  \/ cancelled /\ ~cleanup'
                  \/ /\ ~cancelled
                     /\ \/ paused \/ work # "done" \/ Enqueued = {}
                        \/ \E d \in Current : ~delivery'[d].released
    /\ UNCHANGED <<reqState, cancelled, paused, work, gates, attempts, mergedSeen,
                   github, bounds>>

\* The worker's own settlement, at the head of its poll.
Settle == At("idle") /\ SettleRows /\ Go("due")

\* coordinator::recover settles too, every 200 ms and whatever the worker is
\* doing: while it waits for an answer the row it works on may be taken back and
\* the slot given up.
CoordinatorSettle == SettleRows /\ UNCHANGED worker

\* Mutants: blocked rows are no longer read; confirmed rows are read again.
M_DueWritable == {"pending", "unknown"}
M_DueConfirmed == {"pending", "unknown", "blocked", "confirmed"}

DueStates == {"pending", "unknown", "blocked"}

\* delivery_store::due and observed: blocked rows are read too, and a row that
\* was looked at waits a minute, so that the others have their turn.
Pick(d, k) ==
    /\ At("due")
    /\ action[d][k].state \in DueStates
    /\ worker' = [worker EXCEPT !.pc = "find", !.job = d, !.kind = k,
                                !.number = delivery[d].pr]
    /\ UNCHANGED <<requirement, work, gates, ledger, mergedSeen, github, bounds>>

NothingDue ==
    /\ At("due")
    /\ worker' = Idle
    /\ UNCHANGED <<requirement, work, gates, ledger, mergedSeen, github, bounds>>

(***************************************************************************)
(* Reconciliation: read before every write.                                *)
(***************************************************************************)

\* Mutant: the marker in the body is not compared.
M_FactByHead(d, n) == IF HeadOf(n) # d THEN "conflict" ELSE prs[n].state

\* delivery::pr_fact through Pending::fact: marker of the original action and
\* the exact head, else a conflict.
Fact(d, n) ==
    CASE prs[n].marker # Root(d) \/ HeadOf(n) # d -> "conflict"
      [] OTHER -> prs[n].state

\* delivery_worker::previous_head_open: a repair finds its predecessor's head
Behind(d, k, n) ==
    /\ k = "publish" /\ delivery[d].expected # 0
    /\ HeadOf(n) = delivery[d].expected
    /\ prs[n].marker = Root(d) /\ prs[n].state = "open"

Reading(d, k, n) == IF Behind(d, k, n) THEN "behind" ELSE Fact(d, n)

\* delivery_remote::unique_number: one pull request, and the one on record
Ambiguous == Len(prs) > 1 \/ (Len(prs) = 1 /\ worker.number \notin {0, 1})

\* delivery_worker::reconcile up to the answer of GitHub (Remote::find)
Find ==
    /\ At("find")
    /\ \/ Ambiguous /\ Fail("conflict")
       \/ /\ Len(prs) = 1 /\ ~Ambiguous
          /\ worker' = [worker EXCEPT !.pc = "found", !.seen = 1,
                                      !.fact = Reading(worker.job, worker.kind, 1)]
       \/ /\ prs = <<>>           \* missing_pr
          /\ IF worker.number # 0 \/ worker.kind = "close" THEN Fail("conflict")
                                                           ELSE Go("head")
    /\ UNCHANGED <<requirement, work, gates, ledger, mergedSeen, github, bounds>>

\* Remote::head
ReadHead ==
    /\ At("head")
    /\ worker' = [worker EXCEPT !.pc = "absent", !.head = branch]
    /\ UNCHANGED <<requirement, work, gates, ledger, mergedSeen, github, bounds>>

\* A read fails; or an admission error ends the poll without a trace.
ReadFails ==
    /\ worker.pc \in {"find", "head"}
    /\ Fault
    /\ \/ \E code \in {"transient", "denied"} : Fail(code)
       \/ worker' = Idle
    /\ UNCHANGED <<requirement, work, gates, ledger, mergedSeen, github, commands, people>>

Tried(d, ops) == \E i \in DOMAIN attempts : attempts[i].delivery = d /\ attempts[i].op \in ops

\* Mutant: a push that was attempted may be withdrawn as if it had not been.
M_WithdrawPushed(d, head) == ~Tried(d, {"create"})

\* delivery_store::withdraw: a late create cannot be disproved by an empty
\* list; a late push is resolved only by the exact head.
Withdrawable(d, head) ==
    /\ ~Tried(d, {"create"})
    /\ head = d \/ Untouched(d)

Submit(op) == worker' = [worker EXCEPT !.pc = "admit", !.op = op]

\* delivery_worker::reconcile_head: no pull request was found.
Withdraw ==
    /\ At("absent") /\ cancelled
    /\ action' = IF Withdrawable(worker.job, worker.head)
                 THEN [action EXCEPT ![worker.job]["publish"].state = "withdrawn",
                                     ![worker.job]["publish"].error = "none"]
                 ELSE action
    /\ worker' = Idle
    /\ UNCHANGED <<requirement, work, gates, delivery, attempts, mergedSeen, github, bounds>>

ChooseWrite ==
    /\ At("absent") /\ ~cancelled
    /\ \/ worker.head = worker.job /\ Submit("create")
       \/ worker.head = 0 /\ Submit("push")
       \/ worker.head \notin {0, worker.job} /\ Fail("conflict")
    /\ UNCHANGED <<requirement, work, gates, ledger, mergedSeen, github, bounds>>

\* delivery_worker::reconcile_pr, without the facts that confirm
UpdatePr ==
    /\ At("found")
    /\ \/ worker.fact = "behind" /\ Submit("push")
       \/ worker.fact = "conflict" /\ Fail("conflict")
    /\ UNCHANGED <<requirement, work, gates, ledger, mergedSeen, github, bounds>>

\* Mutant: the repair does not supersede what it repairs.
M_NoHandoff(d) == {}

\* delivery_store::handoff: the predecessor whose head this one replaced
Superseded(d) ==
    {e \in Enqueued \ {d} : e = delivery[d].expected /\ delivery[e].superseded = 0}

\* rows of delivery_action after link, handoff and terminal
Confirmed(d, fact) ==
    [e \in Deliveries |->
        [k \in Kinds |->
            CASE e = d /\ k = "publish" ->
                    [action[d][k] EXCEPT !.state = "confirmed", !.error = "none"]
              [] e = d /\ k = "close" /\ fact \in {"closed", "merged"} /\
                 (cancelled \/ action[d][k].state # "none") ->
                    [action[d][k] EXCEPT !.state = "confirmed", !.error = "none"]
              [] e = d /\ k = "close" /\ fact = "open" /\
                 cancelled /\ action[d][k].state = "none" -> Pending
              [] e # d /\ k = "close" /\ action[e][k].state # "none" /\
                 (e \in Superseded(d) \/ delivery[e].superseded = d) ->
                    [action[e][k] EXCEPT !.state = "withdrawn"]
              [] OTHER -> action[e][k]]]

\* delivery_store::confirmed, one transaction; then, for an open pull request
\* of a close action, delivery_worker::close.
Confirm ==
    /\ At("found") /\ worker.fact \in {"open", "closed", "merged"}
    /\ LET d == worker.job IN
       /\ delivery[d].pr \in {0, worker.seen}
       /\ action' = Confirmed(d, worker.fact)
       /\ delivery' = [e \in Deliveries |->
              IF e = d THEN [delivery[d] EXCEPT !.pr = worker.seen,
                                                !.released = @ \/ worker.fact = "merged"]
              ELSE IF e \in Superseded(d) THEN [delivery[e] EXCEPT !.superseded = d]
              ELSE delivery[e]]
       /\ reqState' = IF reqState = "Running" /\ ~cancelled THEN "Submitted" ELSE reqState
       /\ IF worker.kind = "close" /\ worker.fact = "open" /\ worker.number = worker.seen
          THEN Submit("close")
          ELSE worker' = Idle
    /\ UNCHANGED <<cancelled, paused, cleanup, slot, work, gates, attempts, mergedSeen,
                   github, bounds>>

(***************************************************************************)
(* One write: admission, intent, request, receipt.                         *)
(***************************************************************************)

\* Admission::admit or a hook refuses before the intent is recorded.
AdmissionFails ==
    /\ At("admit")
    /\ Fault
    /\ worker' = Idle
    /\ UNCHANGED <<requirement, work, gates, ledger, mergedSeen, github, commands, people>>

\* delivery_store::allowed
Allowed ==
    /\ slot /\ barrier /\ work # "coding"
    /\ \/ worker.kind = "close" /\ cancelled
       \/ worker.kind = "publish" /\ ~cancelled /\ ~paused /\ reqState = "Running" /\ authorized

\* Mutant: any receipt resolves an attempt, a lost answer too.
M_AnyReceipt ==
    \E i \in DOMAIN attempts :
        /\ attempts[i].delivery = worker.job /\ attempts[i].op = worker.op
        /\ attempts[i].result = "none"

\* A receipt with a definite HTTP status is the only proof that the request
\* had no effect.
Unresolved ==
    \E i \in DOMAIN attempts :
        /\ attempts[i].delivery = worker.job /\ attempts[i].op = worker.op
        /\ attempts[i].result # "definite"

Row == action[worker.job][worker.kind]

\* Mutant: off by one at the limit.
M_OneMore == Row.state \in {"pending", "unknown"} /\ Row.attempts <= Row.limit

CanWrite == Row.state \in {"pending", "unknown"} /\ Row.attempts < Row.limit

\* delivery_store::begin with write_attempt
Begin ==
    /\ At("admit")
    /\ Allowed /\ ~Unresolved /\ CanWrite
    /\ action' = [action EXCEPT ![worker.job][worker.kind].state = "unknown",
                                ![worker.job][worker.kind].attempts = @ + 1]
    /\ attempts' = Append(attempts, [delivery |-> worker.job, op |-> worker.op,
                                     number |-> worker.number, result |-> "none"])
    /\ worker' = [worker EXCEPT !.pc = "send", !.attempt = Len(attempts) + 1]
    /\ UNCHANGED <<requirement, work, gates, delivery, mergedSeen, github, bounds>>

Refused ==
    /\ At("admit")
    /\ \/ (~Allowed \/ Unresolved) /\ UNCHANGED action
       \/ /\ Allowed /\ ~Unresolved /\ ~CanWrite
          /\ action' = IF Row.state = "unknown"
                       THEN [action EXCEPT ![worker.job][worker.kind].state = "blocked",
                                           ![worker.job][worker.kind].error = "exhausted"]
                       ELSE action
    /\ worker' = Idle
    /\ UNCHANGED <<requirement, work, gates, delivery, attempts, mergedSeen, github, bounds>>

Answer(outcome, code) ==
    worker' = [worker EXCEPT !.pc = "receipt", !.outcome = outcome, !.code = code]

Base(d) == delivery[d].expected    \* head a push of candidate d replaces (0: base)

\* The read just before the write (Remote::push, create, close).
Moot ==
    \/ worker.op = "push" /\ branch = worker.job
    \/ worker.op = "close" /\ Fact(worker.job, worker.number) # "open"
Misplaced ==
    \/ worker.op = "push" /\ branch \notin {Base(worker.job), worker.job}
    \/ worker.op = "create" /\ branch # worker.job

Send ==
    /\ At("send")
    /\ \/ Moot /\ Answer("ok", "none") /\ UNCHANGED wire
       \/ Misplaced /\ Answer("unknown", "conflict") /\ UNCHANGED wire
       \/ ~Moot /\ ~Misplaced /\ Go("await") /\ wire' = wire \cup {worker.attempt}
    /\ UNCHANGED <<requirement, work, gates, ledger, mergedSeen, branch, prs, bounds>>

\* capability_check, or a read inside the adapter, fails before the write.
SendFails ==
    /\ At("send")
    /\ Fault
    /\ \E outcome \in {"definite", "unknown"}, code \in Codes :
          /\ code = "conflict" => outcome = "unknown"
          /\ Answer(outcome, code)
    /\ UNCHANGED <<requirement, work, gates, ledger, mergedSeen, github, commands, people>>

\* The answer does not come in time; the request may still be under way.
Timeout ==
    /\ At("await")
    /\ \E code \in {"transient", "denied"} : Answer("unknown", code)
    /\ UNCHANGED <<requirement, work, gates, ledger, mergedSeen, github, bounds>>

\* Mutant: the receipt keeps the code of the error and loses its status.
M_ReceiptCode ==
    /\ At("receipt")
    /\ attempts' = [attempts EXCEPT ![worker.attempt].result = worker.code]
    /\ IF worker.outcome = "ok" THEN worker' = Idle ELSE Go("failed")
    /\ UNCHANGED <<requirement, work, gates, delivery, action, mergedSeen, github, bounds>>

\* publication adapter: retain, first half
Receipt ==
    /\ At("receipt")
    /\ attempts' = [attempts EXCEPT ![worker.attempt].result = worker.outcome]
    /\ IF worker.outcome = "ok" THEN worker' = Idle ELSE Go("failed")
    /\ UNCHANGED <<requirement, work, gates, delivery, action, mergedSeen, github, bounds>>

\* delivery_store::failed: by key and kind, whatever the state is by now
Failed ==
    /\ At("failed")
    /\ action' = [action EXCEPT ![worker.job][worker.kind] =
                    [Row EXCEPT !.state = IF Row.attempts >= Row.limit \/ worker.code = "conflict"
                                          THEN "blocked" ELSE "unknown",
                                !.error = worker.code]]
    /\ worker' = Idle
    /\ UNCHANGED <<requirement, work, gates, delivery, attempts, mergedSeen, github, bounds>>

(***************************************************************************)
(* The operator: transactions of the HTTP API.                             *)
(***************************************************************************)

Command(name) ==
    /\ name \in case.names /\ commands < case.commands
    /\ commands' = commands + 1 /\ UNCHANGED <<faults, people>>

Pause ==
    /\ Command("pause")
    /\ ~paused /\ reqState \in {"Running", "Submitted"}
    /\ paused' = TRUE
    /\ UNCHANGED <<reqState, cancelled, cleanup, slot, work, gates, ledger, worker,
                   mergedSeen, github>>

\* delivery_control::resume_in
Resume ==
    /\ Command("resume")
    /\ paused /\ ~cancelled /\ barrier /\ work # "coding"
    /\ paused' = FALSE
    /\ UNCHANGED <<reqState, cancelled, cleanup, slot, work, gates, ledger, worker,
                   mergedSeen, github>>

\* Mutant: a cancellation plans no close for a pull request that was published.
M_NoClose == {}

Closable == {d \in Current : delivery[d].pr # 0}

\* delivery_control::cancel_in
Cancel ==
    /\ Command("cancel")
    /\ cancelled' = TRUE /\ reqState' = "Cancelled"
    /\ action' = [d \in Deliveries |->
                    IF d \in Closable /\ action[d]["close"].state = "none"
                    THEN [action[d] EXCEPT !["close"] = Pending] ELSE action[d]]
    /\ UNCHANGED <<paused, cleanup, slot, work, gates, delivery, attempts, worker,
                   mergedSeen, github>>

Exhausted(a) ==
    a.state = "blocked" /\ a.attempts >= a.limit /\ a.error \in {"exhausted", "transient"}

\* operator_control::delivery_recheck: it must change exactly one row.
Recheck ==
    /\ Command("recheck")
    /\ reqState = "Running" /\ ~cancelled
    /\ LET hit == {d \in Enqueued : ~delivery[d].released /\ Exhausted(action[d]["publish"])}
       IN  \E d \in hit :
              /\ hit = {d}
              /\ LET a == action[d]["publish"] IN
                 action' = [action EXCEPT ![d]["publish"] =
                              [a EXCEPT !.limit = a.attempts + case.retry,
                                        !.state = "unknown", !.error = "none"]]
    /\ UNCHANGED <<requirement, work, gates, delivery, attempts, worker, mergedSeen, github>>

(***************************************************************************)
(* Crash, recovery barrier, storage and authorization.                     *)
(***************************************************************************)

Crash ==
    /\ ~At("idle")
    /\ Fault
    /\ worker' = Idle /\ barrier' = FALSE
    /\ UNCHANGED <<requirement, work, authorized, ledger, mergedSeen, github, commands, people>>

\* Storage latches, a restart; the coordinator's barrier opens again.
GateCloses ==
    /\ Fault
    /\ \/ barrier /\ barrier' = FALSE /\ UNCHANGED authorized
       \/ authorized /\ authorized' = FALSE /\ UNCHANGED barrier
    /\ UNCHANGED <<requirement, work, ledger, worker, mergedSeen, github, commands, people>>

GateOpens ==
    /\ \/ ~barrier /\ barrier' = TRUE /\ UNCHANGED authorized
       \/ ~authorized /\ authorized' = TRUE /\ UNCHANGED barrier
    /\ UNCHANGED <<requirement, work, ledger, worker, mergedSeen, github, bounds>>

(***************************************************************************)
(* GitHub, as the code uses it, and the people who use it too.             *)
(***************************************************************************)

Awaited(i) == At("await") /\ worker.attempt = i

\* The answer reaches the worker that waits for it, or nobody.
Reply(i, outcome, code) == worker' = worker \/ (Awaited(i) /\ Answer(outcome, code))

\* git push of candidate d: fast forward of the base, or of the leased head
Accepts(d) == branch \in {Base(d), d}

ApplyPush(i) ==
    /\ attempts[i].op = "push"
    /\ IF Accepts(attempts[i].delivery)
       THEN branch' = attempts[i].delivery /\ Reply(i, "ok", "none")
       ELSE UNCHANGED branch /\ Reply(i, "unknown", "transient")
    /\ UNCHANGED prs

OpenPrs == {n \in DOMAIN prs : prs[n].state = "open"}

\* POST pulls: GitHub refuses a second open pull request of the same branch.
ApplyCreate(i) ==
    /\ attempts[i].op = "create"
    /\ IF branch # 0 /\ OpenPrs = {}
       THEN /\ prs' = Append(prs, [marker |-> attempts[i].delivery, state |-> "open", head |-> 0])
            /\ Reply(i, "ok", "none")
       ELSE UNCHANGED prs /\ Reply(i, "definite", "transient")
    /\ UNCHANGED branch

Ends(n, state) == prs' = [prs EXCEPT ![n].state = state, ![n].head = branch]

\* PATCH state=closed leaves a merged or closed pull request as it is.
ApplyClose(i) ==
    /\ attempts[i].op = "close"
    /\ IF attempts[i].number \in OpenPrs THEN Ends(attempts[i].number, "closed")
                                         ELSE UNCHANGED prs
    /\ Reply(i, "ok", "none")
    /\ UNCHANGED branch

Apply(i) ==
    /\ i \in wire /\ wire' = wire \ {i}
    /\ ApplyPush(i) \/ ApplyCreate(i) \/ ApplyClose(i)
    /\ UNCHANGED <<requirement, work, gates, ledger, mergedSeen, bounds>>

\* The request is lost, or refused by authorization: no effect, and in the
\* second case a definite answer.
Reject(i) ==
    /\ i \in wire /\ wire' = wire \ {i}
    /\ \/ worker' = worker
       \/ attempts[i].op # "push" /\ Reply(i, "definite", "denied")
    /\ UNCHANGED <<requirement, work, gates, ledger, mergedSeen, branch, prs, bounds>>

Person == people < case.people /\ people' = people + 1 /\ UNCHANGED <<faults, commands>>

PersonActs ==
    /\ Person
    /\ \/ \E n \in OpenPrs, state \in {"closed", "merged"} : Ends(n, state) /\ UNCHANGED branch
       \/ branch' = Foreign /\ UNCHANGED prs
       \/ /\ branch # 0 /\ OpenPrs = {} /\ UNCHANGED branch
          /\ prs' = Append(prs, [marker |-> 0, state |-> "open", head |-> 0])
    /\ UNCHANGED <<requirement, work, gates, ledger, worker, mergedSeen, wire>>

(***************************************************************************)

WorkerStep ==
    \/ SyncPrs \/ Settle \/ NothingDue \/ \E d \in Deliveries, k \in Kinds : Pick(d, k)
    \/ Find \/ ReadHead \/ ReadFails \/ Withdraw \/ ChooseWrite \/ UpdatePr \/ Confirm
    \/ AdmissionFails \/ Begin \/ Refused \/ Send \/ SendFails \/ Timeout
    \/ Receipt \/ Failed

OperatorStep == Pause \/ Resume \/ Cancel \/ Recheck

Next ==
    /\ \/ Enqueue \/ StartRepair \/ CodingEnds
       \/ WorkerStep \/ CoordinatorSettle \/ OperatorStep
       \/ Crash \/ GateCloses \/ GateOpens
       \/ \E i \in wire : Apply(i) \/ Reject(i)
       \/ PersonActs
    /\ UNCHANGED case

Spec == Init /\ [][Next]_vars

\* The poll is a loop: every step of it ends, and a row that was looked at waits
\* while the others come first, so every due row is picked again and again.  The
\* coordinator opens the barrier again and every Run ends.  Nothing is assumed of
\* GitHub, of the operator or of people.
Fairness ==
    /\ WF_moving(WorkerStep) /\ WF_moving(GateOpens) /\ WF_moving(CodingEnds)
    /\ \A d \in Deliveries, k \in Kinds : SF_moving(Pick(d, k))

FairSpec == Spec /\ Fairness

(***************************************************************************)
(* Properties                                                              *)
(***************************************************************************)

PublishStates == {"none", "pending", "unknown", "blocked", "confirmed", "withdrawn"}

TypeOK ==
    /\ reqState \in {"Running", "Submitted", "Cancelled"}
    /\ cancelled \in BOOLEAN /\ paused \in BOOLEAN /\ cleanup \in BOOLEAN /\ slot \in BOOLEAN
    /\ work \in {"coding", "candidate", "done"}
    /\ barrier \in BOOLEAN /\ authorized \in BOOLEAN
    /\ delivery \in [Deliveries -> [original : 0..Last, expected : 0..Last, pr : Nat,
                                     superseded : 0..Last, released : BOOLEAN]]
    /\ action \in [Deliveries -> [Kinds ->
            [state : PublishStates, attempts : Nat, limit : Nat,
             error : Codes \cup {"none", "exhausted"}]]]
    /\ attempts \in Seq([delivery : Deliveries, op : {"push", "create", "close"},
                          number : Nat, result : Receipts \cup {"none"}])
    /\ worker \in [pc : {"idle", "due", "find", "found", "head", "absent", "admit", "send",
                          "await", "receipt", "failed"},
                    job : 0..Last, kind : Kinds, number : Nat, seen : Nat,
                    fact : {"none", "open", "closed", "merged", "behind", "conflict"},
                    head : Heads, op : {"none", "push", "create", "close"}, attempt : Nat,
                    outcome : Receipts \cup {"none"}, code : Codes \cup {"none"}]
    /\ mergedSeen \subseteq Nat
    /\ branch \in Heads
    /\ prs \in Seq([marker : 0..Last, state : {"open", "closed", "merged"}, head : Heads])
    /\ wire \subseteq DOMAIN attempts
    /\ faults \in 0..case.faults /\ commands \in 0..case.commands
    /\ people \in 0..case.people

Ours == {n \in DOMAIN prs : prs[n].marker # 0}

\* Lost answers, crashes between intent and receipt, and retries never lead to a
\* second pull request (delivery_store::begin: a missing response does not
\* establish that a request was never applied).
OnePullRequest == Cardinality(Ours) <= 1

\* The slot is given back only when no request that publishes can still arrive
\* (delivery_control::settle: an unknown creation remains occupied even after a
\* negative read).
SlotCoversWrites == ~slot => \A i \in wire : attempts[i].op = "close"

\* A cancelled Requirement that gave the slot back has left no open pull request
\* behind, whatever was published late (docs: closing that fails keeps the slot).
NothingLeftOpen == ~slot /\ cancelled => OpenPrs \cap Ours = {}

\* Only the platform's own pull request is ever sent a close, and only after the
\* cancellation, even when people use the same branch (pr_fact, Pending::fact).
ClosesOnlyOwn ==
    \A i \in wire : attempts[i].op = "close" =>
        /\ cancelled
        /\ attempts[i].number \in Ours
        /\ prs[attempts[i].number].marker = Root(attempts[i].delivery)

\* The counter of an action is the number of its attempts, and stays within the
\* limit through crashes, refusals and rechecks (write_attempt, 0015).
AttemptsOf(d, k) ==
    {i \in DOMAIN attempts : attempts[i].delivery = d /\ KindOf(attempts[i].op) = k}
LedgerBounded ==
    \A d \in Deliveries, k \in Kinds :
        /\ Cardinality(AttemptsOf(d, k)) = action[d][k].attempts
        /\ action[d][k].attempts <= action[d][k].limit

\* Submitted means that the newest candidate is published: no repair waits, and
\* every older published candidate was superseded (delivery_store::handoff).
SubmittedIsCurrent ==
    reqState = "Submitted" =>
        \E d \in Current : /\ action[d]["publish"].state = "confirmed" /\ delivery[d].pr # 0
                           /\ \A e \in Enqueued : e # d => delivery[e].superseded # 0

\* A confirmed publication stays confirmed, although failed and withdraw update
\* their row whatever its state is by then.  One that was taken back stays so,
\* except that the worker's failed read may arrive after the coordinator's
\* settlement: then the row is open again, but only for a cancelled Requirement
\* and for an action nothing was ever sent for.
DecisionsStand ==
    [][\A d \in Deliveries :
          LET before == action[d]["publish"].state
              after  == action'[d]["publish"].state
          IN  /\ before = "confirmed" => after = "confirmed"
              /\ before = "withdrawn" =>
                    \/ after = "withdrawn"
                    \/ cancelled /\ Untouched(d) /\ after \in {"unknown", "blocked"}]_vars

\* A candidate that reached the pull request is confirmed in the end, also when
\* its answers were lost, the action is blocked or the Requirement is paused.
Landed(d) ==
    d \in Enqueued /\ Len(prs) = 1 /\ Reading(d, "close", 1) # "conflict"
LandedIsConfirmed ==
    \A d \in Deliveries : Landed(d) ~> (action[d]["publish"].state = "confirmed" \/ ~Landed(d))

\* A cancellation ends in cleanup, or something keeps the slot for a person to
\* look at: an action that is blocked, a write whose effect is not known, or a
\* pushed head that is no longer on the branch.
Held == \E d \in Current :
    \/ \E k \in Kinds : action[d][k].state = "blocked"
    \/ \E i \in DOMAIN attempts : attempts[i].delivery = d /\ attempts[i].result # "ok"
    \/ Tried(d, {"push"}) /\ branch # d
CancelCleansUp == cancelled ~> (cleanup \/ Held)

\* The outbox implements the promise; a person's pull request does not count.
Promise == INSTANCE PublicationPromise
    WITH pr <- IF Ours = {} THEN "absent" ELSE prs[CHOOSE n \in Ours : TRUE].state,
         held <- slot
ImplementsPromise == Promise!Spec

\* What reaches GitHub is one pull request, counted requests within the limit, and
\* no close of a pull request that is not the platform's (delivery_store::begin).
PublishesOnce == TypeOK /\ OnePullRequest /\ LedgerBounded /\ ClosesOnlyOwn

\* The Requirement moves on only when its publication is settled: no late write
\* without the slot, nothing left open after a cancel, the newest candidate published.
SlotIsHeld == SlotCoversWrites /\ NothingLeftOpen /\ SubmittedIsCurrent

\* Polling brings every publication to an end: what landed is confirmed, and a
\* cancel is cleaned up or held for a named reason.
PublicationEnds == LandedIsConfirmed /\ CancelCleansUp

=============================================================================
