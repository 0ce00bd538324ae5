-------------------------------- MODULE Budget --------------------------------
(***************************************************************************)
(* What model work may cost.  A Requirement has limits in three            *)
(* dimensions; before a turn is dispatched its worst case is reserved      *)
(* (model_call), afterwards cumulative usage events settle it, in any      *)
(* order, repeatedly and long after the Run has stopped.  A repair holds   *)
(* the reservation of its first turn from the moment it is planned         *)
(* (repair_reservation.resources).  The items of a group also share one    *)
(* account: a row per child and the row "" of the whole group.             *)
(*                                                                         *)
(* Every operation is one transaction under run_store::lock, so one step.  *)
(* Of the usage counters `cached' and `output' are left out: they enter    *)
(* the tokens the way `input' does.  The group of the model is the one     *)
(* draft whose items are Grouped, fixed when the behaviour begins.         *)
(***************************************************************************)
EXTENDS Integers, FiniteSets, FiniteSetsExt

CONSTANTS
    Requirements,
    RunIds,       \* Run identities
    OwnerOf,      \* the Requirement of each Run
    RepairRuns,   \* the Runs that are repairs
    Turns,        \* bound: turns of one Run
    Reviews,      \* what may have been reviewed: the limit of each Requirement,
                  \* the items of the one group and its limit, at most their sum
    Reservation,  \* Settings.reservation: the worst case of one turn
    Reports,      \* usage events an app-server may send about a turn
    Delta,        \* what one grant adds
    MaxGrants     \* bound: grants per Requirement

WholeGroup == ""                                 \* the item_id of the row of the group itself
Dims == {"tokens", "turns", "seconds"}
Amounts == [Dims -> Nat]
Unknown == -1                                   \* Option::None of a counter
Usages == [input : Nat \cup {Unknown}, seconds : Nat \cup {Unknown}, complete : BOOLEAN]

ASSUME BudgetAssumption ==
    /\ IsFiniteSet(Requirements) /\ WholeGroup \notin Requirements
    /\ IsFiniteSet(RunIds) /\ RepairRuns \subseteq RunIds
    /\ OwnerOf \in [RunIds -> Requirements]
    /\ Reviews \subseteq [each : Amounts, items : SUBSET Requirements, whole : Amounts]
    /\ \A v \in Reviews, d \in Dims :            \* group_review: positive budgets that fit
          /\ v.each[d] > 0 /\ (v.items # {} => v.whole[d] > 0)
          /\ v.whole[d] <= Cardinality(v.items) * v.each[d]
    /\ Delta \in Amounts
    /\ Reservation \in Amounts /\ Reservation["turns"] = 1 /\ \A d \in Dims : Reservation[d] > 0
    /\ Reports \subseteq Usages /\ Turns \in Nat \ {0} /\ MaxGrants \in Nat

VARIABLES
    limits, version, exhausted,  \* requirement_budget
    agent,                       \* agent_run: "none", "active", "stopping", "quiescent"
    called,                      \* model_call: the turns of a Run that were reserved, 1..n
    usage,                       \* model_call.usage
    archive,                     \* model_usage_event
    repair,                      \* repair_reservation of a repair Run, and of its linked_failure
    since,                       \* linked_failure: versions before it, or used by a recheck
    rows,                        \* group_budget: limits, used, reserved of WholeGroup and each child
    accounted                    \* group_accounted

account == <<limits, version, exhausted>>
calls   == <<called, usage, archive>>
group   == <<rows, accounted>>
Grouped == DOMAIN accounted                     \* the items of the one group
budgetVars == <<account, agent, calls, repair, since, group>>

(***************************************************************************)
(* Amounts and usage (budget.rs).                                          *)
(***************************************************************************)
Zero == [d \in Dims |-> 0]
Add(a, b) == [d \in Dims |-> a[d] + b[d]]
Subtract(a, b) == [d \in Dims |-> a[d] - b[d]]
Sum(S, f) == [d \in Dims |-> MapThenSumSet(LAMBDA x : f[x][d], S)]
Within(a, limit) == \A d \in Dims : a[d] <= limit[d]
Reached(a, limit) == \E d \in Dims : a[d] >= limit[d]
\* a reserved last turn may finish, streamed tokens and time may not go on
Spent(a, limit) ==
    a["tokens"] >= limit["tokens"] \/ a["turns"] > limit["turns"] \/ a["seconds"] >= limit["seconds"]

Silent == [input |-> Unknown, seconds |-> Unknown, complete |-> FALSE]

M_Latest(old, new) == new
Merge(old, new) ==
    [input |-> Max({old.input, new.input}), seconds |-> Max({old.seconds, new.seconds}),
     complete |-> old.complete \/ new.complete]

Settled(u) == u.complete /\ u.input # Unknown /\ u.seconds # Unknown

Known(n) == Max({n, 0})
Actual(u) ==
    [d \in Dims |-> CASE d = "tokens"  -> Known(u.input)
                      [] d = "turns"   -> IF u = Silent THEN 0 ELSE 1
                      [] d = "seconds" -> Known(u.seconds)]
M_ReserveOnly(u) == IF Settled(u) THEN Actual(u) ELSE Reservation
Exposed(u) ==
    IF Settled(u) THEN Actual(u)
    ELSE [d \in Dims |-> IF d = "turns" THEN 1 ELSE Max({Actual(u)[d], Reservation[d]})]

(***************************************************************************)
(* The account of a Requirement (budget_store.rs, recovery_store.rs).      *)
(***************************************************************************)
RunsOf(q)  == {r \in RunIds : OwnerOf[r] = q}
CallsOf(q) == UNION {{<<r, n>> : n \in 1..called[r]} : r \in RunsOf(q)}
AllCalls   == RunIds \X (1..Turns)

Resources(q) ==
    [d \in Dims |-> Reservation[d] * Cardinality({r \in RunsOf(q) \cap RepairRuns :
                                              repair[r] \in {"reserved", "started"}})]

Used(q) == Sum(CallsOf(q), [c \in CallsOf(q) |-> Actual(usage[c])])
Exposure(q) == Add(Sum(CallsOf(q), [c \in CallsOf(q) |-> Exposed(usage[c])]), Resources(q))

\* group_budget: the rows a Requirement draws from
RowsOf(q) == IF q \in Grouped THEN {WholeGroup, q} ELSE {}
RowExposure(k) == Add(rows[k].used, rows[k].reserved)

GroupAllows(q, amount) ==
    \A k \in RowsOf(q) :
        ~Reached(RowExposure(k), rows[k].limits) /\ Within(Add(RowExposure(k), amount), rows[k].limits)

PrepaidFits(q) == \A k \in RowsOf(q) : Within(RowExposure(k), rows[k].limits)

M_OwnAccount(q) == ~exhausted[q] /\ Within(Add(Exposure(q), Reservation), limits[q])
M_CheckedBefore(q) == ~exhausted[q] /\ Within(Exposure(q), limits[q]) /\ GroupAllows(q, Zero)
ReservationAllowed(q) ==
    ~exhausted[q] /\ Within(Add(Exposure(q), Reservation), limits[q]) /\ GroupAllows(q, Reservation)

\* group_budget::exhausted and the Requirement's own account
Overdrawn(q) ==
    \/ Spent(Used(q), limits[q]) \/ ~Within(Exposure(q), limits[q])
    \/ \E k \in RowsOf(q) : Spent(rows[k].used, rows[k].limits) \/ ~Within(RowExposure(k), rows[k].limits)

\* group_budget::sync: the rows move by what changed since the last time
M_SyncChild(q) ==
    LET used == Used(q)'
        held == Subtract(Exposure(q)', used)
    IN  /\ rows' = [k \in DOMAIN rows |->
              IF q \notin Grouped \/ k # q THEN rows[k]
              ELSE [rows[k] EXCEPT !.used = used, !.reserved = held]]
        /\ UNCHANGED accounted
Sync(q) ==
    LET used == Used(q)'
        held == Subtract(Exposure(q)', used)
    IN  /\ rows' = [k \in DOMAIN rows |->
              IF k \notin RowsOf(q) THEN rows[k]
              ELSE [rows[k] EXCEPT !.used = Add(@, Subtract(used, accounted[q].used)),
                                   !.reserved = Add(@, Subtract(held, accounted[q].reserved))]]
        /\ accounted' = IF q \notin Grouped THEN accounted
                        ELSE [accounted EXCEPT ![q] = [used |-> used, reserved |-> held]]

Stop(S) ==
    /\ exhausted' = [q \in Requirements |-> exhausted[q] \/ q \in S]
    /\ agent' = [r \in RunIds |-> IF OwnerOf[r] \in S /\ agent[r] = "active" THEN "stopping" ELSE agent[r]]

\* budget_store::freeze, group_store::save_budget
NewRow(l) == [limits |-> l, used |-> Zero, reserved |-> Zero]
BudgetInit ==
    /\ \E review \in Reviews :
          /\ limits = [q \in Requirements |-> review.each]
          /\ rows = [k \in review.items \cup {WholeGroup} |->
                       NewRow(IF k = WholeGroup THEN review.whole ELSE review.each)]
          /\ accounted = [q \in review.items |-> [used |-> Zero, reserved |-> Zero]]
    /\ version = [q \in Requirements |-> 1]
    /\ exhausted = [q \in Requirements |-> FALSE]
    /\ agent = [r \in RunIds |-> "none"]
    /\ called = [r \in RunIds |-> 0]
    /\ usage = [c \in AllCalls |-> Silent] /\ archive = [c \in AllCalls |-> {}]
    /\ repair = [r \in RepairRuns |-> "none"] /\ since = [r \in RepairRuns |-> 0]

(***************************************************************************)
(* Runs.  The details are in Execution; here a Run may call the model      *)
(* while it is active, and one Run at a time is not quiescent.             *)
(***************************************************************************)
Still == \A r \in RunIds : agent[r] \in {"none", "quiescent"}

\* runtime_questions::budget_available
Resumable(q) ==
    /\ ~exhausted[q]
    /\ IF \E r \in RunsOf(q) \cap RepairRuns : repair[r] = "started"
       THEN Within(Exposure(q), limits[q]) /\ PrepaidFits(q)
       ELSE ~Reached(Exposure(q), limits[q])

\* the claim of a queued Requirement (run_store::claim with
\* group_queue_store::claim_input_ready), or the resume of one that has run
ClaimRun(r) ==
    LET q == OwnerOf[r]
    IN  /\ r \notin RepairRuns /\ agent[r] = "none" /\ Still
        /\ IF \A s \in RunsOf(q) : agent[s] = "none" THEN GroupAllows(q, Zero) ELSE Resumable(q)
        /\ agent' = [agent EXCEPT ![r] = "active"]
        /\ UNCHANGED <<account, calls, repair, since, group>>

\* linked_repair_worker::authorized_balance: a repair that is reserved may have
\* filled the rows of its group exactly and is still allowed to start.
AuthorizedBalance(q) == ~exhausted[q] /\ Within(Exposure(q), limits[q]) /\ PrepaidFits(q)

\* linked_repair_worker::bind after allowed: the reserved repair becomes a Run
StartRepair(r) ==
    LET q == OwnerOf[r]
    IN  /\ r \in RepairRuns /\ repair[r] = "reserved" /\ Still
        /\ AuthorizedBalance(q)
        /\ repair' = [repair EXCEPT ![r] = "started"]
        /\ agent' = [agent EXCEPT ![r] = "active"]
        /\ UNCHANGED <<account, calls, since, group>>

\* expire_runs after eight hours, or any other reason to stop
StopRun(r) ==
    /\ agent[r] = "active"
    /\ agent' = [agent EXCEPT ![r] = "stopping"]
    /\ UNCHANGED <<account, calls, repair, since, group>>

RunEnds(r) ==
    /\ agent[r] = "stopping"
    /\ agent' = [agent EXCEPT ![r] = "quiescent"]
    /\ UNCHANGED <<account, calls, repair, since, group>>

(***************************************************************************)
(* Model calls.                                                            *)
(***************************************************************************)
\* recovery_store::transfer: the first turn of a repair is prepaid
Prepaid(r) == r \in RepairRuns /\ repair[r] = "started"

Admissible(r) ==
    LET q == OwnerOf[r]
    IN  /\ ~exhausted[q] /\ Within(Exposure(q), limits[q]) /\ PrepaidFits(q)
        /\ Prepaid(r) \/ ReservationAllowed(q)

\* reserve: Admission::Reserved
AdmitTurn(r) ==
    /\ agent[r] = "active" /\ called[r] < Turns /\ Admissible(r)
    /\ called' = [called EXCEPT ![r] = @ + 1]
    /\ repair' = IF Prepaid(r) THEN [repair EXCEPT ![r] = "transferred"] ELSE repair
    /\ UNCHANGED <<account, agent, usage, archive, since>>
    /\ Sync(OwnerOf[r])

\* reserve: Admission::Blocked by the budget
Refuse(r) ==
    /\ agent[r] = "active" /\ called[r] < Turns /\ ~Admissible(r)
    /\ Stop({OwnerOf[r]})
    /\ UNCHANGED <<limits, version, calls, repair, since, group>>

Peers(q) == IF q \in Grouped THEN Grouped ELSE {}
M_StopOwn(q) == IF Overdrawn(q)' THEN Stop({q}) ELSE UNCHANGED <<exhausted, agent>>
StopIfExhausted(q) ==
    IF Overdrawn(q)' THEN Stop({q} \cup Peers(q)) ELSE UNCHANGED <<exhausted, agent>>

\* settle: an event about turn n of a Run, whatever became of the Run
Settle(r, n, u) ==
    /\ n <= called[r]
    /\ archive' = [archive EXCEPT ![<<r, n>>] = @ \cup {u}]
    /\ usage' = [usage EXCEPT ![<<r, n>>] = Merge(@, u)]
    /\ UNCHANGED <<limits, version, called, repair, since>>
    /\ Sync(OwnerOf[r])
    /\ StopIfExhausted(OwnerOf[r])

(***************************************************************************)
(* Repairs.                                                                *)
(***************************************************************************)
\* linked_integration: a failure is recorded for a Requirement that has run
Observe(r) ==
    /\ r \in RepairRuns /\ repair[r] = "none"
    /\ \E s \in RunsOf(OwnerOf[r]) : agent[s] = "quiescent"
    /\ repair' = [repair EXCEPT ![r] = "observed"]
    /\ since' = [since EXCEPT ![r] = version[OwnerOf[r]]]
    /\ UNCHANGED <<account, agent, calls, group>>

Plannable(r) ==
    LET q == OwnerOf[r]
    IN  /\ r \in RepairRuns /\ repair[r] = "observed" /\ Still
        /\ AuthorizedBalance(q)

\* linked_repair_worker::quota and commit_reservation
ReserveRepair(r) ==
    /\ Plannable(r) /\ ReservationAllowed(OwnerOf[r])
    /\ repair' = [repair EXCEPT ![r] = "reserved"]
    /\ UNCHANGED <<account, agent, calls, since>>
    /\ Sync(OwnerOf[r])

BlockRepair(r) ==
    /\ Plannable(r) /\ ~ReservationAllowed(OwnerOf[r])
    /\ repair' = [repair EXCEPT ![r] = "blocked"]
    /\ UNCHANGED <<account, agent, calls, since, group>>

\* linked_budget_recovery::recheck of a paused Requirement after a newer grant
Recheck(r) ==
    LET q == OwnerOf[r]
    IN  /\ r \in RepairRuns /\ repair[r] = "blocked" /\ Still
        /\ version[q] > since[r]
        /\ repair' = [repair EXCEPT ![r] = "observed"]
        /\ since' = [since EXCEPT ![r] = version[q]]
        /\ UNCHANGED <<account, agent, calls, group>>

(***************************************************************************)
(* Grants.                                                                 *)
(***************************************************************************)
\* budget_store::increase, for a Requirement without a group
Increase(q) ==
    /\ q \notin Grouped /\ version[q] <= MaxGrants
    /\ limits' = [limits EXCEPT ![q] = Add(@, Delta)]
    /\ version' = [version EXCEPT ![q] = @ + 1]
    /\ exhausted' = [exhausted EXCEPT ![q] = FALSE]
    /\ UNCHANGED <<agent, calls, repair, since, group>>

\* the new limits of the rows when the children in S get Delta
Raised(S) ==
    [k \in DOMAIN rows |-> IF k = WholeGroup THEN Add(rows[k].limits, Sum(S, [q \in S |-> Delta]))
                           ELSE IF k \in S THEN Add(rows[k].limits, Delta) ELSE rows[k].limits]

M_ParentOnly(S) == [rows EXCEPT ![WholeGroup].limits = Raised(S)[WholeGroup]]
Rewritten(S) == [k \in DOMAIN rows |-> [rows[k] EXCEPT !.limits = Raised(S)[k]]]

\* group_budget_increase::increase: every child is named, some get nothing; the
\* exposure of every row has to fit its new limits, which have to add up
GroupIncrease(S) ==
    /\ S # {} /\ \A q \in Grouped : version[q] <= MaxGrants
    /\ \A k \in DOMAIN rows : Within(RowExposure(k), Raised(S)[k])
    /\ Sum(Grouped, Raised(S)) = Raised(S)[WholeGroup]
    /\ limits' = [q \in Requirements |-> IF q \in Grouped THEN Raised(S)[q] ELSE limits[q]]
    /\ version' = [q \in Requirements |-> IF q \in Grouped THEN version[q] + 1 ELSE version[q]]
    /\ exhausted' = [q \in Requirements |-> q \notin Grouped /\ exhausted[q]]
    /\ rows' = Rewritten(S)
    /\ UNCHANGED <<agent, calls, repair, since, accounted>>

BudgetNext ==
    \/ \E r \in RunIds : ClaimRun(r) \/ StartRepair(r) \/ StopRun(r) \/ RunEnds(r)
    \/ \E r \in RunIds : AdmitTurn(r) \/ Refuse(r)
    \/ \E r \in RunIds, n \in 1..Turns, u \in Reports : Settle(r, n, u)
    \/ \E r \in RunIds : Observe(r) \/ ReserveRepair(r) \/ BlockRepair(r) \/ Recheck(r)
    \/ \E q \in Requirements : Increase(q)
    \/ \E S \in SUBSET Grouped : GroupIncrease(S)

BudgetSpec == BudgetInit /\ [][BudgetNext]_budgetVars

(***************************************************************************)
(* Properties.                                                             *)
(***************************************************************************)
\* Type invariant; that every row stays in Nat is what group_budget::update
\* requires before it writes.
BudgetTypes ==
    /\ limits \in [Requirements -> Amounts] /\ exhausted \in [Requirements -> BOOLEAN]
    /\ version \in [Requirements -> 1..(MaxGrants + 1)]
    /\ agent \in [RunIds -> {"none", "active", "stopping", "quiescent"}]
    /\ called \in [RunIds -> 0..Turns]
    /\ usage \in [AllCalls -> Usages] /\ archive \in [AllCalls -> SUBSET Reports]
    /\ repair \in [RepairRuns -> {"none", "observed", "blocked", "reserved", "started", "transferred"}]
    /\ since \in [RepairRuns -> 0..(MaxGrants + 1)]
    /\ rows \in [Grouped \cup {WholeGroup} -> [limits : Amounts, used : Amounts, reserved : Amounts]]
    /\ accounted \in [Grouped -> [used : Amounts, reserved : Amounts]]

\* Late, repeated and reordered usage events do not change what a turn costs:
\* the counters of a call are the greatest ever reported.
Told(events) ==
    [input |-> Max({e.input : e \in events} \cup {Unknown}),
     seconds |-> Max({e.seconds : e \in events} \cup {Unknown}),
     complete |-> \E e \in events : e.complete]
UsageIsHistory == \A c \in AllCalls : usage[c] = Told(archive[c])

\* The group account is the sum of its children's accounts, although it is
\* only ever moved by differences, and a child's row is that child's account.
GroupIsSum ==
    /\ \A q \in Grouped : rows[q].used = Used(q) /\ RowExposure(q) = Exposure(q)
    /\ Grouped # {} => /\ rows[WholeGroup].used = Sum(Grouped, [q \in Grouped |-> Used(q)])
                       /\ RowExposure(WholeGroup) = Sum(Grouped, [q \in Grouped |-> Exposure(q)])

\* As long as no turn costs more than its reservation, or than what it was settled
\* at, nothing is overdrawn, neither a Requirement nor the group, in whatever order
\* the events come.  The second condition is needed: a turn that ends after counters
\* on the way is settled at those, and others may be given what it then still uses.
SettledOnce(c) ==
    \A events \in SUBSET archive[c] :
        Settled(Told(events)) => Actual(Told(events)) = Actual(usage[c])
WithinReservation(q) ==
    \A c \in CallsOf(q) : Within(Actual(usage[c]), Reservation) /\ SettledOnce(c)
ReservationsHold ==
    /\ \A q \in Requirements : WithinReservation(q) => Within(Exposure(q), limits[q])
    /\ (\A q \in Grouped : WithinReservation(q)) =>
          \A k \in DOMAIN rows : Within(RowExposure(k), rows[k].limits)

\* An account, or a group, that is spent or overdrawn has no Run that goes on.
OverdrawnStops ==
    \A q \in Requirements : Overdrawn(q) => \A r \in RunsOf(q) : agent[r] # "active"

\* A child's row has the limit of that child's account; after a grant the
\* group's limit is the sum of them, and it never grows beyond it, though a
\* grant names children one by one and a review may have set it lower.
LimitsAddUp ==
    /\ \A q \in Grouped : rows[q].limits = limits[q]
    /\ LET sum == Sum(Grouped, [q \in Grouped |-> limits[q]])
       IN  Grouped # {} => IF \E q \in Grouped : version[q] > 1
                           THEN rows[WholeGroup].limits = sum ELSE Within(rows[WholeGroup].limits, sum)

\* A turn is only added to an account that can pay for it in the worst case,
\* its own and the group's, whatever usage of earlier turns has been reported
\* since the turn, or the repair that prepaid it, was planned.
AdmittedFits ==
    [][\A r \in RunIds : called'[r] > called[r] =>
         /\ Within(Exposure(OwnerOf[r])', limits[OwnerOf[r]])
         /\ \A k \in RowsOf(OwnerOf[r]) : Within(RowExposure(k)', rows[k].limits)]_budgetVars

\* When one item of a group has overdrawn its account, no item of the group is
\* given another turn until a grant covers what was overdrawn.
OverdraftFreezesGroup ==
    [][\A r \in RunIds : called'[r] > called[r] /\ OwnerOf[r] \in Grouped =>
         \A q \in Grouped : Within(Exposure(q), limits[q])]_budgetVars

\* The books are right at any time: calls cost what was reported of them, rows and
\* limits are the sums of the accounts, reservations cover what is spent, and who
\* has overdrawn is stopped (budget_store::record, group_budget::update).
AccountsHold ==
    /\ BudgetTypes /\ UsageIsHistory /\ GroupIsSum /\ ReservationsHold /\ OverdrawnStops
    /\ LimitsAddUp

\* A turn is admitted only if its own account and every account of its group can
\* pay for it (budget_store::reserve).
AdmissionFits == AdmittedFits /\ OverdraftFreezesGroup

=============================================================================
