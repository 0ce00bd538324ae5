------------------------------ MODULE LinkedRepair ------------------------------
(***************************************************************************)
(* Repair of an item whose merged or integrated result fails on code:      *)
(* linked_failure_store, linked_repair, linked_repair_source,              *)
(* linked_repair_worker, linked_repair_acceptance, linked_integration,     *)
(* local_repair, the operator's linked_source_recovery and                 *)
(* linked_budget_recovery, and pre_merge_recovery with its worker.         *)
(*                                                                         *)
(* One item keeps the execution slot.  Each failure is a row of            *)
(* linked_failure: observed, then frozen on a baseline of the target       *)
(* branch, reserved against the item's repair quota, repaired by a Run and *)
(* a delivery of its own, merged, and complete when the item is.  A code   *)
(* item is accepted by the post-merge acceptance of its last merge; a      *)
(* validation_only item by a new validation of the version combination.    *)
(*                                                                         *)
(* Data: a commit is the set of changes it contains (the original one, the *)
(* repairs, what others push); a failure blames the                        *)
(* repositories whose reviewed repair scope maps its failed checks; a Run  *)
(* ends with changes inside the authorized paths, outside, or none.        *)
(* Delivery up to the merge is module Merge, the validation of an attempt  *)
(* module Integration, a candidate's own repairs module Validation: here   *)
(* they are one step each.                                                 *)
(***************************************************************************)
EXTENDS Naturals, Sequences, FiniteSets, FiniteSetsExt

CONSTANTS
    MaxFails, MaxInc,    \* bounds: failures of an item, incarnations
    Cases                \* items and environments, each with its bounds

CaseRecords ==
    [repos : SUBSET (Nat \ {0}), local : SUBSET Nat, kind : {"code", "validation_only"},
     limit : Nat, money : Nat, fails : 0..MaxFails, more : Nat, items : Nat \ {0},
     outcomes : SUBSET {"pass", "code", "scope", "infra", "postfail"},
     candidates : SUBSET {"in", "out", "empty", "again"}, faults : SUBSET STRING]

ASSUME LinkedRepairAssumption ==
    /\ MaxFails \in Nat /\ MaxInc \in Nat \ {0}
    /\ Cases \subseteq CaseRecords
    /\ \A c \in Cases : c.repos # {} /\ IsFiniteSet(c.repos) /\ c.local \subseteq c.repos

VARIABLES
    item,     \* stage and controls of the item
    fails,    \* the rows of linked_failure
    res,      \* the open reservation and its Run; the one a cancelled item left
    account,  \* ordinals used, repairs that can still be paid, grants
    branch,   \* the head of each target branch
    binding,  \* the version combination of the latest validation
    src,      \* the freeze under way in the controller
    pm,       \* the pre-merge recovery of the initial delivery
    world     \* incarnation, number of the item, the case and how many
              \* disturbances it has left

vars == <<item, fails, res, account, branch, binding, src, pm, world>>

Repos == world.case.repos            \* repository ids: numbers, they order the repairs
Local == world.case.local            \* those delivered into a local repository
Kind == world.case.kind              \* "code" or "validation_only"
Outcomes == world.case.outcomes      \* what an acceptance or a validation may say
Candidates == world.case.candidates  \* what a repair Run may leave
Faults == world.case.faults          \* the disturbances that may happen

None == 0
Ids == DOMAIN fails
First == Min(Repos)
Commit(r) == branch[r]
Contains(new, old) == old \subseteq new
Pushed == MaxFails + 1
Nowhere == {MaxFails + 2}
Commits == (SUBSET (0..Pushed)) \cup {Nowhere}

Stages == {"open", "merged", "validating", "failed", "repairing"}
States == {"observed", "reserved", "merged", "complete", "blocked", "cancelled"}
Whys == {"", "scope", "tries", "branch", "budget", "candidate", "local"}

TypeOK ==
    /\ item \in [stage: Stages, pr: 0..MaxFails, sha: Commits, cand: Candidates \cup {"in"}, paused: BOOLEAN,
                 cancelled: BOOLEAN, revoked: BOOLEAN, done: BOOLEAN, owner: BOOLEAN]
    /\ fails \in Seq([state: States, kind: {"merge", "integration", "premerge"}, blame: SUBSET Repos,
                      affected: [Repos -> Commits], repo: Repos \cup {None}, base: Commits,
                      final: Commits, tries: 0..3, due: BOOLEAN, why: Whys, revalidated: BOOLEAN])
    /\ Len(fails) <= MaxFails
    /\ res \in [f: 0..MaxFails, inc: 0..MaxInc, status: {"none", "reserved", "started"}, stale: BOOLEAN]
    /\ account \in [used: Nat, left: Nat, grant: {"none", "given", "spent"}]
    /\ branch \in [Repos -> Commits] /\ binding \in [Repos -> Commits]
    /\ src \in [f: 0..MaxFails, repo: Repos \cup {None}, base: Commits]
    /\ pm \in [state: {"none", "pending", "ready", "blocked"}, base: Commits, tries: 0..3, due: BOOLEAN, closed: BOOLEAN]
    /\ world.inc \in 1..MaxInc /\ world.items \in 1..world.case.items

NoSource == [f |-> None, repo |-> None, base |-> Nowhere]
NoReservation == [f |-> None, inc |-> 0, status |-> "none", stale |-> FALSE]
Released == [NoReservation EXCEPT !.stale = res.stale]

NewItem == [stage |-> IF Kind = "code" THEN "open" ELSE "validating", pr |-> 0, sha |-> {}, cand |-> "in",
            paused |-> FALSE, cancelled |-> FALSE, revoked |-> FALSE, done |-> FALSE, owner |-> TRUE]
NewAccount == [used |-> 0, left |-> world.case.money, grant |-> "none"]
NoDecision == [state |-> "none", base |-> Nowhere, tries |-> 0, due |-> TRUE, closed |-> FALSE]

Init ==
    /\ \E c \in Cases : world = [inc |-> 1, items |-> 1, case |-> c]
    /\ item = NewItem
    /\ fails = <<>>
    /\ res = NoReservation
    /\ account = NewAccount
    /\ branch = [r \in Repos |-> {}]
    /\ binding = branch
    /\ src = NoSource
    /\ pm = NoDecision

-----------------------------------------------------------------------------
(* Controls as the coordinator lock sees them. *)

Permitted == item.owner /\ ~item.paused /\ ~item.cancelled
Authorized == Permitted /\ ~item.revoked

Open == {f \in Ids : fails[f].state \in {"observed", "reserved"}}

\* The repository whose branch a failure or a delivery concerns.
Target(f) == IF f = 0 THEN First ELSE fails[f].repo

SetFail(f, row) == fails' = [fails EXCEPT ![f] = row]
BlockRow(f, why) == [fails[f] EXCEPT !.state = "blocked", !.why = why]

Fault(f) ==
    /\ f \in Faults
    /\ world.case.more > 0
    /\ world' = [world EXCEPT !.case.more = @ - 1]

\* linked_failure_store::record, once per merge or attempt.
Failure(kind, blame) ==
    [state |-> "observed", kind |-> kind, blame |-> blame,
     affected |-> IF kind = "integration" THEN binding ELSE [r \in Repos |-> item.sha],
     repo |-> None, base |-> Nowhere, final |-> Nowhere, tries |-> 0, due |-> TRUE, why |-> "", revalidated |-> FALSE]

-----------------------------------------------------------------------------
(* Delivery and its acceptance. *)

\* The original delivery is observed closed and unmerged, still.
Admitted(f) == fails[f].kind = "premerge" => pm.state = "ready" /\ pm.closed

\* The PR of the item or of a repair is merged.
MergePR ==
    /\ item.stage = "open"
    /\ Authorized
    /\ item.pr > 0 => fails[item.pr].state = "reserved" /\ Admitted(item.pr)
    /\ LET r == Target(item.pr)
           head == {item.pr} \cup IF item.pr = 0 THEN {} ELSE fails[item.pr].base
       IN /\ branch' = [branch EXCEPT ![r] = @ \cup head]
          /\ item' = [item EXCEPT !.stage = "merged", !.sha = branch[r] \cup head]
    /\ res' = Released
    /\ UNCHANGED <<fails, account, binding, src, pm, world>>

Completed(rows) ==
    [f \in DOMAIN rows |-> IF rows[f].state \in {"merged", "reserved"} THEN [rows[f] EXCEPT !.state = "complete"] ELSE rows[f]]

Merged(f) == [fails[f] EXCEPT !.state = "merged", !.final = item.sha]

\* linked_repair_acceptance::finish, local_repair::accepted.
M_AcceptLeaves ==
    /\ item.stage = "merged" /\ Authorized /\ "pass" \in Outcomes
    /\ fails' = IF item.pr = 0 THEN fails ELSE [fails EXCEPT ![item.pr] = [Merged(item.pr) EXCEPT !.state = "complete"]]
    /\ item' = IF Kind = "code" THEN [item EXCEPT !.done = TRUE, !.owner = FALSE, !.stage = "failed"]
                                ELSE [item EXCEPT !.stage = "failed"]
    /\ UNCHANGED <<res, account, branch, binding, src, pm, world>>
AcceptMerge ==
    /\ item.stage = "merged"
    /\ Authorized
    /\ "pass" \in Outcomes
    /\ LET rows == IF item.pr = 0 THEN fails ELSE [fails EXCEPT ![item.pr] = Merged(item.pr)]
       IN IF Kind = "code"
          THEN /\ fails' = Completed(rows)
               /\ item' = [item EXCEPT !.done = TRUE, !.owner = FALSE, !.stage = "failed"]
          ELSE fails' = rows /\ item' = [item EXCEPT !.stage = "failed"]
    /\ UNCHANGED <<res, account, branch, binding, src, pm, world>>

\* linked_failure_store::post_merge, local_repair::failed: the merge stays a fact.
RejectMerge ==
    /\ item.stage = "merged"
    /\ Authorized
    /\ "postfail" \in Outcomes
    /\ Len(fails) < world.case.fails
    /\ LET rows == IF item.pr = 0 THEN fails ELSE [fails EXCEPT ![item.pr] = Merged(item.pr)]
       IN fails' = Append(rows, Failure("merge", {Target(item.pr)}))
    /\ item' = [item EXCEPT !.stage = "failed"]
    /\ UNCHANGED <<res, account, branch, binding, src, pm, world>>

-----------------------------------------------------------------------------
(* The validation of the version combination. *)

Accept ==
    /\ item.stage = "validating"
    /\ Authorized
    /\ "pass" \in Outcomes
    /\ fails' = [f \in Ids |-> IF fails[f].state = "merged" THEN [fails[f] EXCEPT !.state = "complete"] ELSE fails[f]]
    /\ item' = [item EXCEPT !.done = TRUE, !.owner = FALSE]
    /\ UNCHANGED <<res, account, branch, binding, src, pm, world>>

\* Failed checks that some repository's scope maps, or none.
Blames == (IF "code" \in Outcomes THEN (SUBSET Repos) \ {{}} ELSE {})
          \cup (IF "scope" \in Outcomes THEN {{}} ELSE {})
Reject ==
    /\ item.stage = "validating"
    /\ Authorized
    /\ Len(fails) < world.case.fails
    /\ \E blame \in Blames : fails' = Append(fails, Failure("integration", blame))
    /\ item' = [item EXCEPT !.stage = "failed"]
    /\ UNCHANGED <<res, account, branch, binding, src, pm, world>>

\* An infrastructure failure leaves no linked failure; the attempt is retried.
FailInfra ==
    /\ item.stage = "validating"
    /\ Authorized
    /\ "infra" \in Outcomes
    /\ item' = [item EXCEPT !.stage = "failed"]
    /\ UNCHANGED <<fails, res, account, branch, binding, src, pm, world>>

Revalidatable == {f \in Ids : fails[f].state = "merged" /\ ~fails[f].revalidated}

\* linked_integration::tick takes the latest merged repair that has no attempt yet.
M_RevalidateOldest ==
    /\ Kind = "validation_only" /\ item.stage = "failed" /\ Authorized /\ Revalidatable # {}
    /\ {f \in Ids : fails[f].state \in {"observed", "reserved", "blocked"}} = {}
    /\ LET f == Max(Revalidatable)
       IN /\ UNCHANGED binding
          /\ SetFail(f, [fails[f] EXCEPT !.revalidated = TRUE])
    /\ item' = [item EXCEPT !.stage = "validating"]
    /\ UNCHANGED <<res, account, branch, src, pm, world>>
Revalidate ==
    /\ Kind = "validation_only"
    /\ item.stage = "failed"
    /\ Authorized
    /\ Revalidatable # {}
    /\ {f \in Ids : fails[f].state \in {"observed", "reserved", "blocked"}} = {}
    /\ LET f == Max(Revalidatable)
       IN /\ binding' = [binding EXCEPT ![fails[f].repo] = fails[f].final]
          /\ SetFail(f, [fails[f] EXCEPT !.revalidated = TRUE])
    /\ item' = [item EXCEPT !.stage = "validating"]
    /\ UNCHANGED <<res, account, branch, src, pm, world>>

\* integration_retry: the same versions once more; linked_integration ticks first.
M_RetryInfraAny ==
    /\ Kind = "validation_only" /\ item.stage = "failed" /\ Authorized /\ Revalidatable = {}
    /\ item' = [item EXCEPT !.stage = "validating"]
    /\ UNCHANGED <<fails, res, account, branch, binding, src, pm, world>>
RetryInfra ==
    /\ Kind = "validation_only"
    /\ item.stage = "failed"
    /\ Authorized
    /\ Open = {}
    /\ Revalidatable = {}
    /\ \A f \in Ids : fails[f].state # "blocked"
    /\ item' = [item EXCEPT !.stage = "validating"]
    /\ UNCHANGED <<fails, res, account, branch, binding, src, pm, world>>

-----------------------------------------------------------------------------
(* Freezing the source of a repair. *)

Unfrozen(f) == fails[f].state = "observed" /\ fails[f].base = Nowhere

Repaired == {fails[f].repo : f \in {g \in Ids : fails[g].state \in {"merged", "complete"}}}

\* The reviewed order: repositories of this round not yet repaired first, then by id.
TargetOf(f) ==
    LET fresh == fails[f].blame \ Repaired
    IN IF fails[f].blame = {} THEN None
       ELSE IF fresh # {} THEN Min(fresh) ELSE Min(fails[f].blame)

Due(f) ==
    /\ src = NoSource
    /\ Permitted
    /\ Unfrozen(f)
    /\ f = Min({g \in Ids : Unfrozen(g)})
    /\ fails[f].due

OutOfScope(f) ==
    /\ Due(f)
    /\ TargetOf(f) = None
    /\ SetFail(f, BlockRow(f, "scope"))
    /\ UNCHANGED <<item, res, account, branch, binding, src, pm, world>>

M_SourceAttemptStops(f) ==
    /\ Due(f) /\ TargetOf(f) # None /\ fails[f].tries < 3
    /\ SetFail(f, [fails[f] EXCEPT !.tries = @ + 1, !.due = FALSE])
    /\ src' = [f |-> f, repo |-> TargetOf(f), base |-> Nowhere]
    /\ UNCHANGED <<item, res, account, branch, binding, pm, world>>
M_SourceAttemptOn(f) ==
    /\ Due(f) /\ TargetOf(f) # None
    /\ SetFail(f, [fails[f] EXCEPT !.tries = @ + 1, !.due = FALSE])
    /\ src' = [f |-> f, repo |-> TargetOf(f), base |-> Nowhere]
    /\ UNCHANGED <<item, res, account, branch, binding, pm, world>>
SourceAttempt(f) ==
    /\ Due(f)
    /\ TargetOf(f) # None
    /\ IF fails[f].tries < 3
       THEN /\ SetFail(f, [fails[f] EXCEPT !.tries = @ + 1, !.due = FALSE])
            /\ src' = [f |-> f, repo |-> TargetOf(f), base |-> Nowhere]
       ELSE SetFail(f, BlockRow(f, "tries")) /\ UNCHANGED src
    /\ UNCHANGED <<item, res, account, branch, binding, pm, world>>

\* The branch head is read, then fetched, outside any transaction.
ReadBranch ==
    /\ src # NoSource
    /\ src.base = Nowhere
    /\ src' = [src EXCEPT !.base = Commit(src.repo)]
    /\ UNCHANGED <<item, fails, res, account, branch, binding, pm, world>>

\* Remote errors wait for the next attempt, local ones block at once.
SourceError ==
    /\ "remote" \in Faults
    /\ src.f # None
    /\ src' = NoSource
    /\ fails' = IF src.repo \in Local /\ fails[src.f].state = "observed"
                THEN [fails EXCEPT ![src.f] = BlockRow(src.f, "local")] ELSE fails
    /\ UNCHANGED <<item, res, account, branch, binding, pm, world>>

M_FreezeAny ==
    /\ src.f # None /\ src.base # Nowhere
    /\ IF Authorized /\ Unfrozen(src.f)
       THEN SetFail(src.f, [fails[src.f] EXCEPT !.repo = src.repo, !.base = src.base])
       ELSE UNCHANGED fails
    /\ src' = NoSource
    /\ UNCHANGED <<item, res, account, branch, binding, pm, world>>
Freeze ==
    /\ src.f # None
    /\ src.base # Nowhere
    /\ IF ~Contains(src.base, fails[src.f].affected[src.repo])
       THEN fails' = IF fails[src.f].state = "observed" THEN [fails EXCEPT ![src.f] = BlockRow(src.f, "branch")] ELSE fails
       ELSE IF Authorized /\ Unfrozen(src.f)
       THEN SetFail(src.f, [fails[src.f] EXCEPT !.repo = src.repo, !.base = src.base])
       ELSE UNCHANGED fails
    /\ src' = NoSource
    /\ UNCHANGED <<item, res, account, branch, binding, pm, world>>

-----------------------------------------------------------------------------
(* Reservation, preparation, Run and candidate. *)

Frozen(f) == fails[f].state = "observed" /\ fails[f].base # Nowhere

\* linked_repair_worker::allowed
Allowed(f) ==
    /\ Authorized
    /\ fails[f].state \in {"observed", "reserved"}
    /\ item.stage = "failed"
    /\ res.status # "started"
    /\ res.f \in {None, f}
    /\ Admitted(f)

\* The ordinal is shared by candidate repairs and linked repairs of the item.
Quota == account.used < world.case.limit /\ account.left > 0
Reserved == [account EXCEPT !.used = @ + 1, !.left = @ - 1]

Reserve(f) ==
    /\ Frozen(f)
    /\ f = Min({g \in Ids : Frozen(g)})
    /\ Allowed(f)
    /\ IF Quota
       THEN /\ SetFail(f, [fails[f] EXCEPT !.state = "reserved"])
            /\ res' = [res EXCEPT !.f = f, !.inc = world.inc, !.status = "reserved"]
            /\ account' = Reserved
       ELSE /\ SetFail(f, BlockRow(f, "budget"))
            /\ UNCHANGED <<res, account>>
    /\ UNCHANGED <<item, branch, binding, src, pm, world>>

\* pending_job: the oldest reservation not started, whatever became of its item.
Pending == res.status = "reserved" /\ ~res.stale

\* After a restart the intent gets a new identity, not a second reservation.
M_RebindReserve ==
    /\ res.status = "reserved" /\ res.inc # world.inc /\ Allowed(res.f) /\ account.left > 0
    /\ res' = [res EXCEPT !.inc = world.inc]
    /\ account' = Reserved
    /\ UNCHANGED <<item, fails, branch, binding, src, pm, world>>
Rebind ==
    /\ Pending
    /\ res.inc # world.inc
    /\ Allowed(res.f)
    /\ res' = [res EXCEPT !.inc = world.inc]
    /\ UNCHANGED <<item, fails, account, branch, binding, src, pm, world>>

\* The environment is prepared and the Run bound, in one transaction at the end.
Bind ==
    /\ Pending
    /\ res.inc = world.inc
    /\ Allowed(res.f)
    /\ res' = [res EXCEPT !.status = "started"]
    /\ item' = [item EXCEPT !.stage = "repairing"]
    /\ UNCHANGED <<fails, account, branch, binding, src, pm, world>>

\* candidate_allowed, and the delivery of an allowed candidate.
Candidate(c) ==
    /\ res.status = "started"
    /\ item.stage = "repairing"
    /\ Authorized
    /\ c \in {"in", "out", "empty"}
    /\ IF c = "in"
       THEN item' = [item EXCEPT !.stage = "open", !.pr = res.f, !.cand = c] /\ UNCHANGED <<fails, res>>
       ELSE /\ SetFail(res.f, BlockRow(res.f, "candidate"))
            /\ item' = [item EXCEPT !.stage = "failed"]
            /\ res' = Released
    /\ UNCHANGED <<account, branch, binding, src, pm, world>>

\* The candidate fails its own validation and is repaired by another Run.
CandidateRepair ==
    /\ "again" \in Candidates
    /\ res.status = "started"
    /\ item.stage = "repairing"
    /\ Authorized
    /\ Quota
    /\ account' = Reserved
    /\ UNCHANGED <<item, fails, res, branch, binding, src, pm, world>>

-----------------------------------------------------------------------------
(* Pre-merge recovery: the initial PR was closed unmerged. *)

ClosePR ==
    /\ "close" \in Faults
    /\ item.stage = "open"
    /\ item.pr = 0
    /\ item' = [item EXCEPT !.stage = "failed"]
    /\ pm' = [pm EXCEPT !.closed = TRUE]
    /\ UNCHANGED <<fails, res, account, branch, binding, src, world>>

\* Somebody reopens it: nothing may replace it any more.
Reopen ==
    /\ pm.closed
    /\ Fault("reopen")
    /\ pm' = [pm EXCEPT !.closed = FALSE]
    /\ UNCHANGED <<item, fails, res, account, branch, binding, src>>

\* The operator names the exact head and the exact base, while paused.
Decide ==
    /\ item.paused
    /\ ~item.cancelled
    /\ ~item.revoked
    /\ pm.closed
    /\ fails = <<>>
    /\ pm.state \in {"none", "blocked"}
    /\ pm' = [pm EXCEPT !.state = "pending", !.base = Commit(First), !.tries = 0, !.due = TRUE]
    /\ UNCHANGED <<item, fails, res, account, branch, binding, src, world>>

PreMergeDue == pm.state = "pending" /\ pm.due /\ src = NoSource

ExpirePreMerge ==
    /\ PreMergeDue
    /\ pm.tries = 3
    /\ pm' = [pm EXCEPT !.state = "blocked"]
    /\ UNCHANGED <<item, fails, res, account, branch, binding, src, world>>

\* Claim of one attempt; the branch must still be at the decided base.
ClaimPreMerge ==
    /\ PreMergeDue
    /\ pm.tries < 3
    /\ Authorized
    /\ pm.closed
    /\ IF Commit(First) = pm.base
       THEN /\ pm' = [pm EXCEPT !.tries = @ + 1, !.due = FALSE]
            /\ src' = [f |-> None, repo |-> First, base |-> pm.base]
       ELSE /\ pm' = [pm EXCEPT !.tries = @ + 1, !.due = FALSE, !.state = IF pm.tries = 2 THEN "blocked" ELSE @]
            /\ UNCHANGED src
    /\ UNCHANGED <<item, fails, res, account, branch, binding, world>>

\* A failed fetch waits for the next attempt; the third one blocks.
PreMergeError ==
    /\ "remote" \in Faults
    /\ src # NoSource
    /\ src.f = None
    /\ src' = NoSource
    /\ pm' = [pm EXCEPT !.state = IF @ = "pending" /\ pm.tries = 3 THEN "blocked" ELSE @]
    /\ UNCHANGED <<item, fails, res, account, branch, binding, world>>

\* The lock is taken again after the fetch: authorized, closed and pending still.
FreezePreMerge ==
    /\ src # NoSource
    /\ src.f = None
    /\ IF Authorized /\ pm.closed /\ pm.state = "pending" /\ Len(fails) < world.case.fails
       THEN /\ fails' = Append(fails, [Failure("premerge", {First}) EXCEPT !.repo = First, !.base = src.base])
            /\ pm' = [pm EXCEPT !.state = "ready"]
       ELSE UNCHANGED <<fails, pm>>
    /\ src' = NoSource
    /\ UNCHANGED <<item, res, account, branch, binding, world>>

-----------------------------------------------------------------------------
(* The operator's rechecks of a blocked failure, and the accounts. *)

\* A new classifier blames a repository for the retained evidence of a failure
\* that was out of scope; nothing was ever reserved for the item.
SourceRecheck(f) ==
    /\ "recheck" \in Faults
    /\ item.paused
    /\ item.owner /\ ~item.cancelled /\ ~item.revoked
    /\ fails[f].kind = "integration"
    /\ fails[f].state = "blocked"
    /\ fails[f].why = "scope"
    /\ account.used = 0
    /\ \E blame \in (SUBSET Repos) \ {{}} :
         SetFail(f, [fails[f] EXCEPT !.state = "observed", !.why = "", !.blame = blame])
    /\ UNCHANGED <<item, res, account, branch, binding, src, pm, world>>

Grant ==
    /\ "grant" \in Faults
    /\ account.grant = "none"
    /\ \E f \in Ids : fails[f].state = "blocked"
    /\ account' = [account EXCEPT !.left = @ + 1, !.grant = "given"]
    /\ UNCHANGED <<item, fails, res, branch, binding, src, pm, world>>

\* A positive grant newer than the failure, used for it once.
BudgetRecheck(f) ==
    /\ item.paused
    /\ item.owner /\ ~item.cancelled /\ ~item.revoked
    /\ account.grant = "given"
    /\ fails[f].state = "blocked"
    /\ fails[f].why = "budget"
    /\ fails[f].base # Nowhere
    /\ SetFail(f, [fails[f] EXCEPT !.state = "observed", !.why = ""])
    /\ account' = [account EXCEPT !.grant = "spent"]
    /\ UNCHANGED <<item, res, branch, binding, src, pm, world>>

-----------------------------------------------------------------------------
(* Controls and disturbances. *)

Control ==
    /\ ~item.done
    /\ \/ Fault("pause") /\ ~item.paused /\ item' = [item EXCEPT !.paused = TRUE]
       \/ Fault("revoke") /\ ~item.revoked /\ item' = [item EXCEPT !.revoked = TRUE]
       \/ Fault("cancel") /\ ~item.cancelled /\ item' = [item EXCEPT !.cancelled = TRUE]
    /\ UNCHANGED <<fails, res, account, branch, binding, src, pm>>

Lift ==
    /\ item.paused
    /\ item' = [item EXCEPT !.paused = FALSE]
    /\ UNCHANGED <<fails, res, account, branch, binding, src, pm, world>>

\* Cleanup of a cancelled item, nothing of which runs or may still merge.
Settle ==
    /\ item.cancelled
    /\ item.owner
    /\ item.stage = "failed"
    /\ item' = [item EXCEPT !.owner = FALSE]
    /\ fails' = [f \in Ids |-> IF fails[f].state = "complete" THEN fails[f] ELSE [fails[f] EXCEPT !.state = "cancelled"]]
    /\ res' = [NoReservation EXCEPT !.stale = res.stale \/ res.status = "reserved"]
    /\ UNCHANGED <<account, branch, binding, src, pm, world>>

\* The slot is free: another item of the same repositories takes it.
NextItem ==
    /\ ~item.owner
    /\ src = NoSource
    /\ world.items < world.case.items
    /\ world' = [world EXCEPT !.items = @ + 1]
    /\ item' = NewItem
    /\ fails' = <<>>
    /\ account' = NewAccount
    /\ binding' = branch
    /\ pm' = NoDecision
    /\ UNCHANGED <<res, branch, src>>

\* What runs for a cancelled item stops (modules Execution, Merge, Integration).
Stop ==
    /\ item.cancelled
    /\ item.stage \in {"open", "merged", "validating", "repairing"}
    /\ item' = [item EXCEPT !.stage = "failed"]
    /\ res' = Released
    /\ UNCHANGED <<fails, account, branch, binding, src, pm, world>>

Crash ==
    /\ "crash" \in Faults
    /\ world.case.more > 0
    /\ world.inc < MaxInc
    /\ world' = [world EXCEPT !.inc = @ + 1, !.case.more = @ - 1]
    /\ src' = NoSource
    /\ UNCHANGED <<item, fails, res, account, branch, binding, pm>>

\* Others push to the target branch, or rewrite it.
Push(r) ==
    /\ \/ Fault("push") /\ branch' = [branch EXCEPT ![r] = @ \cup {Pushed}]
       \/ Fault("rewrite") /\ branch' = [branch EXCEPT ![r] = {}]
    /\ UNCHANGED <<item, fails, res, account, binding, src, pm>>

\* The delay after an attempt runs out.
Elapse ==
    /\ ~pm.due \/ \E f \in Ids : ~fails[f].due
    /\ fails' = [f \in Ids |-> [fails[f] EXCEPT !.due = TRUE]]
    /\ pm' = [pm EXCEPT !.due = TRUE]
    /\ UNCHANGED <<item, res, account, branch, binding, src, world>>

SourceStep(f) == OutOfScope(f) \/ SourceAttempt(f)
Results == AcceptMerge \/ RejectMerge \/ Accept \/ Reject \/ FailInfra
RunStep == CandidateRepair \/ \E c \in Candidates : Candidate(c)
PreMergeStep == ExpirePreMerge \/ ClaimPreMerge \/ FreezePreMerge
SourceReply == ReadBranch \/ Freeze

Next ==
    \/ MergePR \/ Results \/ Revalidate \/ RetryInfra
    \/ \E f \in Ids : SourceStep(f) \/ Reserve(f) \/ SourceRecheck(f) \/ BudgetRecheck(f)
    \/ SourceReply \/ SourceError \/ PreMergeError
    \/ Rebind \/ Bind \/ RunStep
    \/ ClosePR \/ Reopen \/ Decide \/ PreMergeStep
    \/ Grant \/ Control \/ Lift \/ Settle \/ NextItem \/ Stop \/ Crash
    \/ \E r \in Repos : Push(r)
    \/ Elapse

Spec == Init /\ [][Next]_vars

\* The worker and poll loops go on, remote reads answer or fail, Runs, merges,
\* acceptances and validations end, pauses are lifted, time passes.
FairSpec ==
    /\ Spec
    /\ WF_vars(MergePR) /\ WF_vars(Results) /\ WF_vars(Revalidate)
    /\ \A f \in 1..MaxFails :
         WF_vars(f \in Ids /\ SourceStep(f)) /\ WF_vars(f \in Ids /\ Reserve(f))
    /\ WF_vars(SourceReply) /\ WF_vars(Rebind) /\ WF_vars(Bind)
    /\ WF_vars(\E c \in Candidates : Candidate(c))
    /\ WF_vars(PreMergeStep) /\ WF_vars(Lift) /\ WF_vars(Settle) /\ WF_vars(Stop) /\ WF_vars(Elapse)

-----------------------------------------------------------------------------
(* Properties. *)

\* Repairs of an item are serial across repositories, restarts and operator
\* rechecks: one failure is open at a time and the reservation belongs to it.
OneOpenRepair ==
    /\ Cardinality(Open) <= 1
    /\ res.f # None => fails[res.f].state = "reserved"

\* The shared limit is never exceeded, and a failure whose intent is rebound or
\* rechecked is not paid for twice (linked_repair_worker 139-184, 263-295).
QuotaShared ==
    /\ account.used <= world.case.limit
    /\ "again" \notin Candidates => account.used <= Cardinality({f \in Ids : fails[f].repo # None})

\* A repair that is under delivery or merged changed only authorized paths of a
\* repository its failure blames, from a baseline with the version that failed.
ScopeKept ==
    item.pr > 0 /\ item.stage \in {"open", "merged"} =>
        LET f == fails[item.pr]
        IN item.cand = "in" /\ f.repo \in f.blame /\ Contains(f.base, f.affected[f.repo])

\* The item is done only when every failure it had was repaired and accepted.
AcceptedComplete ==
    item.done => \A f \in Ids : fails[f].state = "complete"

\* A validation_only item is accepted on versions that contain every merged repair
\* (docs/linked-repair.md: the evidence of an old SHA never accepts a new one).  Only
\* where the merge of an earlier repair failed its acceptance may a repair be left out:
\* that earlier one still waits for its revalidation and puts its version back
\* (linked_integration::tick, update_version).
Overtaken(f) == \E g \in 1..f : fails[g].kind = "merge" /\ fails[g].repo = fails[f].repo
AcceptedOnRepaired ==
    item.done /\ Kind = "validation_only" =>
        \A f \in Ids : fails[f].state = "complete" =>
            Contains(binding[fails[f].repo], fails[f].final) \/ Overtaken(f)

\* A failure never waits for a step that nothing takes: it is repaired, blocked for
\* an operator or cancelled, unless its authorization or its closed PR is gone, or the
\* reservation of an item cancelled before its Run stands in its way (pending_job).
FailureEnds ==
    \A f \in 1..MaxFails :
        (f \in Ids /\ fails[f].state \in {"observed", "reserved"})
            ~> (\/ f \in Ids /\ fails[f].state \in {"merged", "complete", "blocked", "cancelled"}
                \/ item.revoked \/ res.stale
                \/ f \in Ids /\ fails[f].kind = "premerge" /\ ~pm.closed)

\* Repairs are serial, paid for once from the shared limit and within their scope;
\* acceptance is on versions that contain all of them.
RepairsHold ==
    /\ TypeOK /\ OneOpenRepair /\ QuotaShared /\ ScopeKept /\ AcceptedComplete
    /\ AcceptedOnRepaired

=============================================================================
