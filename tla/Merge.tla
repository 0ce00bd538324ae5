--------------------------------- MODULE Merge ---------------------------------
(***************************************************************************)
(* Automatic merge of a delivered pull request.  The rows of               *)
(* merge_operation are keyed by the hash of an intent, which for one       *)
(* delivery differs only in the base: the model has one row per base.  One *)
(* thread (github_service::deliver) runs the stages in order, over and     *)
(* over: read the PR, validate the test merge, merge, accept the merged    *)
(* checkout, recover a PR that was closed unmerged.  Each stage reads      *)
(* GitHub first and commits a row later, so every step below is one        *)
(* transaction or one remote call, and people, checks, the operator and    *)
(* the delivery worker move between any two of them.                       *)
(*                                                                         *)
(* `paused' stands for every condition of merge_store::allowed that may    *)
(* lift again: pause of the item or the controller, a live Run, blocked    *)
(* storage, an open recovery, the group authorization, the budget.         *)
(***************************************************************************)
EXTENDS Integers, Sequences

CONSTANTS
    MaxBase,        \* bound: the target branch has bases 0..MaxBase
    Cases           \* settings of the repository with the bounds of each

MaxAttempts == 3    \* pre_merge_recovery: preparations of one decision

ASSUME MergeAssumption ==
    /\ MaxBase \in Nat
    /\ Cases \subseteq [testMerge : BOOLEAN, dispatching : BOOLEAN, moves : Nat, faults : Nat]

Bases == 0..MaxBase

VARIABLES
    pr,       \* the pull request on GitHub and its checks
    wire,     \* merge requests GitHub has not answered yet, by base
    op,       \* merge_operation, by base
    req,      \* requirement and delivery
    rec,      \* pre_merge_recovery
    seen,     \* github_pr: the last saved observation
    w,        \* the worker: stage, step, operation, observation in hand
    sent, runs,      \* history: merge requests and dispatches ever sent
    left             \* the setting; how many acts of people and faults may come

remote == <<pr, wire, sent, runs>>
TestMerge == left.testMerge        \* the contract validates the test merge first
Dispatching == left.dispatching    \* the Broker dispatches the post-merge check
vars == <<remote, op, req, rec, seen, w, left>>

NoOp == [state |-> "none", started |-> FALSE, merged |-> FALSE, answered |-> FALSE, method |-> FALSE,
         dispatched |-> FALSE, pre |-> "none", acc |-> "none", file |-> "none"]
Idle(stage) == [at |-> stage, do |-> "start", b |-> 0, o |-> "none"]

Init ==
    /\ left \in Cases
    /\ pr = [base |-> 0, state |-> "open", by |-> "none", checks |-> "pending",
             post |-> IF Dispatching THEN "absent" ELSE "pending"]
    /\ wire = {} /\ sent = 0 /\ runs = 0
    /\ op = [b \in Bases |-> NoOp]
    /\ req = [state |-> "Submitted", paused |-> FALSE, cancelled |-> FALSE, superseded |-> FALSE,
              closed |-> FALSE, released |-> FALSE, cleaned |-> FALSE]
    /\ rec = [state |-> "none", attempts |-> 0, b |-> 0, base |-> 0]
    /\ seen = [pr |-> pr, fresh |-> TRUE]
    /\ w = Idle("sync")

(***************************************************************************)
(* Admission (automatic_merge.rs, merge_store.rs).                         *)
(***************************************************************************)
Eligible(o, b) == o.base = b /\ o.state = "open"
Admit(o, b) == Eligible(o, b) /\ o.checks = "ok"
Confirmed(o) == o.state = "merged"                     \* the base may have moved since
PrReady(o, b) == o.base = b /\ o.state = "open" /\ o.checks = "ok"

Allowed == req.state = "Submitted" /\ ~req.paused /\ ~req.cancelled /\ ~req.superseded

\* no operation of the delivery but invalidated ones
M_CandidateAfterBlock ==
    /\ req.state = "Submitted" /\ ~req.superseded
    /\ \A b \in Bases : op[b].state \in {"none", "invalidated", "blocked"}
Candidate ==
    /\ req.state = "Submitted" /\ ~req.superseded
    /\ \A b \in Bases : op[b].state \in {"none", "invalidated"}
Due == {b \in Bases : op[b].state \in {"prepared", "unknown"}}

\* github_service::tick and deliver, in this order
Stages == <<"sync", "settle", "pre", "merge", "accept", "recover", "close">>
After(stage) == LET i == CHOOSE i \in 1..7 : Stages[i] = stage IN Stages[(i % 7) + 1]
Leave == w' = Idle(After(w.at))
Go(step) == w' = [w EXCEPT !.do = step]
At(stage, step) == w.at = stage /\ w.do = step
Set(field, value) == op' = [op EXCEPT ![w.b][field] = value]

\* merge_store::block has no guard on the state
Block == Set("state", "blocked") /\ Leave

(***************************************************************************)
(* Observation of the PR (github_service::sync_prs).                       *)
(***************************************************************************)
Sync ==
    /\ w = Idle("sync")
    /\ seen' = [pr |-> pr, fresh |-> TRUE] /\ Leave
    /\ UNCHANGED <<remote, op, req, rec, left>>

\* an observation counts for a minute; settle follows it at once
Age ==
    /\ seen.fresh /\ w.at # "settle" /\ seen' = [seen EXCEPT !.fresh = FALSE]
    /\ UNCHANGED <<remote, op, req, rec, w, left>>

(***************************************************************************)
(* Validation of the test merge (merge_prevalidation.rs).                  *)
(***************************************************************************)
Unvalidated == {b \in Bases : op[b].state = "prepared" /\ op[b].pre # "saved" /\ TestMerge}

PreObserve ==
    /\ w = Idle("pre")
    /\ IF \E b \in Unvalidated : Eligible(pr, b)
       THEN \E b \in Unvalidated : w' = [at |-> "pre", do |-> "begin", b |-> b, o |-> pr]
       ELSE Leave
    /\ UNCHANGED <<remote, op, req, rec, seen, left>>

PreBegin ==
    /\ At("pre", "begin")
    /\ IF Allowed THEN Set("pre", "begun") /\ Go("run") ELSE Leave /\ UNCHANGED op
    /\ UNCHANGED <<remote, req, rec, seen, left>>

\* passed; or failed, stopped by a control, interrupted once before
PreRun ==
    /\ At("pre", "run")
    /\ \/ Set("pre", "saved") /\ Leave
       \/ Block
    /\ UNCHANGED <<remote, req, rec, seen, left>>

(***************************************************************************)
(* Merge (merge_worker.rs, github_merge_adapter.rs).                       *)
(***************************************************************************)
Observe ==
    /\ w = Idle("merge")
    /\ IF Due # {} THEN \E b \in Due : w' = [at |-> "merge", do |-> "decide", b |-> b, o |-> pr]
       ELSE IF Candidate THEN w' = [at |-> "merge", do |-> "admit", b |-> pr.base, o |-> pr]
       ELSE Leave
    /\ UNCHANGED <<remote, op, req, rec, seen, left>>

\* admit_candidate and prepare: a new row, or the same intent once more
Prepare ==
    /\ At("merge", "admit")
    /\ IF /\ Admit(w.o, w.b) \/ (TestMerge /\ Eligible(w.o, w.b))
          /\ Allowed /\ ~op[w.b].started
       THEN Set("state", "prepared") ELSE UNCHANGED op
    /\ Leave /\ UNCHANGED <<remote, req, rec, seen, left>>

\* merged: the method is known only from the answer to the Broker's own request
M_RecordPrepared ==
    /\ At("merge", "decide") /\ Confirmed(w.o) /\ op[w.b].state = "prepared"
    /\ op' = [op EXCEPT ![w.b].state = "merged", ![w.b].merged = TRUE, ![w.b].method = op[w.b].answered]
    /\ Leave /\ UNCHANGED <<remote, req, rec, seen, left>>
Record ==
    /\ At("merge", "decide") /\ Confirmed(w.o) /\ op[w.b].state \in {"prepared", "unknown"}
    /\ op' = [op EXCEPT ![w.b].state = "merged", ![w.b].merged = TRUE, ![w.b].method = op[w.b].answered]
    /\ Leave /\ UNCHANGED <<remote, req, rec, seen, left>>

\* a request that was sent is only observed
M_SendAgain ==
    /\ At("merge", "decide") /\ ~Confirmed(w.o) /\ op[w.b].state = "unknown"
    /\ IF PrReady(w.o, w.b) THEN Go("send") ELSE Leave
    /\ UNCHANGED <<remote, op, req, rec, seen, left>>
OnlyObserve ==
    /\ At("merge", "decide") /\ ~Confirmed(w.o) /\ op[w.b].state = "unknown"
    /\ Leave /\ UNCHANGED <<remote, op, req, rec, seen, left>>

M_NeedsPre(b) == FALSE
NeedsPre(b) == TestMerge /\ op[b].pre # "saved"

Decide ==
    /\ At("merge", "decide") /\ ~Confirmed(w.o) /\ op[w.b].state = "prepared"
    /\ seen' = [pr |-> w.o, fresh |-> TRUE]
    /\ IF Eligible(w.o, w.b) /\ NeedsPre(w.b) THEN Leave /\ UNCHANGED op
       ELSE IF Admit(w.o, w.b) THEN Go("ready") /\ UNCHANGED op
       ELSE Set("state", "invalidated") /\ Leave
    /\ UNCHANGED <<remote, req, rec, left>>

\* ready_to_merge reads the capability and the plan again, dispatch the PR
Ready ==
    /\ At("merge", "ready")
    /\ \/ Block
       \/ PrReady(pr, w.b) /\ Go("begin") /\ UNCHANGED op
       \/ ~PrReady(pr, w.b) /\ Leave /\ UNCHANGED op
    /\ UNCHANGED <<remote, req, rec, seen, left>>

\* begin: the row is unknown before anything is sent
Begin ==
    /\ At("merge", "begin")
    /\ IF Allowed /\ op[w.b].state = "prepared"
       THEN op' = [op EXCEPT ![w.b].state = "unknown", ![w.b].started = TRUE] /\ Go("recheck")
       ELSE Leave /\ UNCHANGED op
    /\ UNCHANGED <<remote, req, rec, seen, left>>

Recheck ==
    /\ At("merge", "recheck")
    /\ IF Eligible(pr, w.b) /\ PrReady(pr, w.b) THEN Go("send") ELSE Leave
    /\ UNCHANGED <<remote, op, req, rec, seen, left>>

Send ==
    /\ At("merge", "send")
    /\ wire' = wire \cup {w.b} /\ sent' = sent + 1 /\ Go("wait")
    /\ UNCHANGED <<pr, runs, op, req, rec, seen, left>>

\* GitHub: the head is compared, the strict protection compares the base
Answer(b) ==
    /\ b \in wire /\ wire' = wire \ {b}
    /\ pr' = IF PrReady(pr, b) THEN [pr EXCEPT !.state = "merged", !.by = "broker"] ELSE pr
    /\ IF At("merge", "wait") /\ w.b = b
       THEN Go(IF PrReady(pr, b) THEN "answered" ELSE "refused") ELSE UNCHANGED w
    /\ UNCHANGED <<sent, runs, op, req, rec, seen, left>>

Retain ==
    /\ At("merge", "answered") \/ At("merge", "refused")
    /\ Set("answered", w.do = "answered") /\ Leave
    /\ UNCHANGED <<remote, req, rec, seen, left>>

(***************************************************************************)
(* Acceptance of the merged checkout (merge_acceptance.rs,                 *)
(* merge_dispatch.rs, linked_failure_store.rs).                            *)
(***************************************************************************)
Merged == {b \in Bases : op[b].state = "merged"}
M_WithdrawnAccepted(o) == req.cancelled /\ o.state = "merged" /\ o.acc = "passed"
Withdrawn(o) == req.cancelled /\ o.state = "merged" /\ o.acc # "begun"

NextMerged ==
    /\ w = Idle("accept")
    /\ op' = [b \in Bases |-> IF Withdrawn(op[b]) THEN [op[b] EXCEPT !.state = "cancelled"] ELSE op[b]]
    /\ IF Allowed /\ Merged # {}
       THEN \E b \in Merged : w' = [at |-> "accept", do |-> "ready", b |-> b, o |-> pr]
       ELSE Leave
    /\ UNCHANGED <<remote, req, rec, seen, left>>

AcceptanceReady ==
    /\ At("accept", "ready")
    /\ \/ w.o.post = "bad" /\ Block
       \/ w.o.post = "ok" /\ Go("begin") /\ UNCHANGED op
       \/ /\ w.o.post \in {"absent", "pending"} /\ UNCHANGED op
          /\ IF Dispatching THEN Go("dispatch") ELSE Leave
    /\ UNCHANGED <<remote, req, rec, seen, left>>
\* the wait for the checks, counted from begin, is over
Overdue ==
    /\ At("accept", "ready") /\ w.o.post \in {"absent", "pending"} /\ Block
    /\ UNCHANGED <<remote, req, rec, seen, left>>

\* reserved before the request, so a crash in between loses it for good
M_ReserveLater ==
    /\ At("accept", "dispatch")
    /\ IF Allowed /\ ~op[w.b].dispatched /\ op[w.b].state = "merged"
       THEN Go("post") ELSE Leave
    /\ UNCHANGED <<remote, op, req, rec, seen, left>>
Reserve ==
    /\ At("accept", "dispatch")
    /\ \/ /\ Allowed /\ ~op[w.b].dispatched /\ op[w.b].state = "merged"
          /\ \/ Set("dispatched", TRUE) /\ Go("post")
             \/ Block                                          \* the branch moved on
       \/ /\ ~Allowed \/ op[w.b].dispatched
          /\ Leave /\ UNCHANGED op
    /\ UNCHANGED <<remote, req, rec, seen, left>>

Dispatch ==
    /\ At("accept", "post")
    /\ runs' = runs + 1
    /\ \/ pr' = [pr EXCEPT !.post = "pending"]
       \/ UNCHANGED pr
    /\ Leave /\ UNCHANGED <<wire, sent, op, req, rec, seen, left>>

BeginAcceptance ==
    /\ At("accept", "begin")
    /\ IF Allowed THEN Set("acc", "begun") /\ Go("collect") ELSE Leave /\ UNCHANGED op
    /\ UNCHANGED <<remote, req, rec, seen, left>>

\* validation_runner: a retained result is read, an interrupted one refused
M_CollectAnew ==
    /\ At("accept", "collect")
    /\ Set("file", "begun") /\ Go("run")
    /\ UNCHANGED <<remote, req, rec, seen, left>>
Collect ==
    /\ At("accept", "collect")
    /\ CASE op[w.b].file = "none"  -> Set("file", "begun") /\ Go("run")
         [] op[w.b].file = "begun" -> Block
         [] OTHER -> Go("judge") /\ UNCHANGED op
    /\ UNCHANGED <<remote, req, rec, seen, left>>

Run ==
    /\ At("accept", "run")
    /\ \/ \E result \in {"passed", "failed"} : Set("file", result) /\ Go("judge")
       \/ Block                                 \* stopped by a control, or the runner failed
    /\ UNCHANGED <<remote, req, rec, seen, left>>

\* linked_failure_store::post_merge: the repair of the same item
PostMergeFailure ==
    /\ At("accept", "judge") /\ op[w.b].file = "failed"
    /\ IF Allowed THEN op' = [op EXCEPT ![w.b].state = "blocked", ![w.b].acc = "failed"] ELSE UNCHANGED op
    /\ Leave /\ UNCHANGED <<remote, req, rec, seen, left>>

\* confirm_acceptance and finish_in: evidence is kept even if a control won
M_FinishAnyMethod ==
    /\ At("accept", "judge") /\ op[w.b].file = "passed"
    /\ IF Allowed THEN /\ op' = [op EXCEPT ![w.b].state = "complete", ![w.b].acc = "passed"]
                       /\ req' = [req EXCEPT !.state = "Done"]
       ELSE Set("acc", "passed") /\ UNCHANGED req
    /\ Leave /\ UNCHANGED <<remote, rec, seen, left>>
Finish ==
    /\ At("accept", "judge") /\ op[w.b].file = "passed"
    /\ \/ /\ ~Allowed /\ Set("acc", "passed") /\ UNCHANGED req
       \/ /\ Allowed /\ ~op[w.b].method /\ UNCHANGED req
          /\ op' = [op EXCEPT ![w.b].state = "blocked", ![w.b].acc = "passed"]
       \/ /\ Allowed /\ op[w.b].method
          /\ op' = [op EXCEPT ![w.b].state = "complete", ![w.b].acc = "passed"]
          /\ req' = [req EXCEPT !.state = "Done"]
    /\ Leave /\ seen' = [pr |-> pr, fresh |-> TRUE]
    /\ UNCHANGED <<remote, rec, left>>

(***************************************************************************)
(* Recovery of a PR closed before its merge (pre_merge_recovery.rs, its    *)
(* worker and API).                                                        *)
(***************************************************************************)
ClosedIdentity(b, base) ==
    /\ seen.fresh /\ seen.pr.state = "closed" /\ seen.pr.base = base
    /\ ~op[b].started /\ ~op[b].merged

Eligibles ==
    {b \in Bases : /\ op[b].state = "blocked" /\ op[b].pre = "none" /\ op[b].acc = "none"
                   /\ ClosedIdentity(b, seen.pr.base)}

Decision ==
    /\ req.state = "Submitted" /\ ~req.cancelled /\ req.paused /\ ~req.superseded
    /\ rec.state \in {"none", "blocked"} /\ left.moves > 0 /\ left' = [left EXCEPT !.moves = @ - 1]
    /\ \E b \in Eligibles :
          rec' = [state |-> "pending", attempts |-> 0, b |-> b, base |-> seen.pr.base]
    /\ UNCHANGED <<remote, op, req, seen, w>>

Exhausted == rec.state = "pending" /\ rec.attempts >= MaxAttempts
Claimable ==
    /\ rec.state = "pending" /\ rec.attempts < MaxAttempts /\ Allowed
    /\ op[rec.b].state = "blocked" /\ op[rec.b].pre = "none" /\ ClosedIdentity(rec.b, rec.base)

Claim ==
    /\ w = Idle("recover")
    /\ IF Exhausted THEN rec' = [rec EXCEPT !.state = "blocked"] /\ Leave
       ELSE IF Claimable THEN rec' = [rec EXCEPT !.attempts = @ + 1] /\ Go("prepare")
       ELSE Leave /\ UNCHANGED rec
    /\ UNCHANGED <<remote, op, req, seen, left>>

Failure ==
    /\ rec' = IF rec.attempts >= MaxAttempts /\ rec.state = "pending"
              THEN [rec EXCEPT !.state = "blocked"] ELSE rec
    /\ Leave

\* the target must still be where the operator saw it
Freeze ==
    /\ At("recover", "prepare")
    /\ IF pr.base # rec.base THEN Failure
       ELSE /\ rec' = IF rec.state = "pending" /\ Allowed /\ ClosedIdentity(rec.b, rec.base)
                      THEN [rec EXCEPT !.state = "ready"] ELSE rec
            /\ Leave
    /\ UNCHANGED <<remote, op, req, seen, left>>

\* the replacement was published; admitted is asked again before its merge
Supersede ==
    /\ rec.state = "ready" /\ ~req.superseded /\ ~op[rec.b].started /\ ~op[rec.b].merged
    /\ req' = [req EXCEPT !.superseded = TRUE]
    /\ UNCHANGED <<remote, op, rec, seen, w, left>>

(***************************************************************************)
(* Cancellation (delivery_store::due, delivery_control::settle).           *)
(***************************************************************************)
M_BusyUnsent(o) == o.state = "merged" \/ (o.state = "prepared" /\ o.pre = "begun")
Busy(o) ==
    \/ o.state \in {"unknown", "merged"}
    \/ o.state = "prepared" /\ o.pre = "begun"
    \/ o.state = "blocked" /\ (o.started \/ o.pre # "none") /\ ~(o.merged /\ o.acc = "failed")
Quiet == \A b \in Bases : ~Busy(op[b])

\* delivery_control::settle, one transaction
SettleRows ==
    /\ LET released == req.released \/ (seen.fresh /\ seen.pr.state = "merged")
       IN  req' = [req EXCEPT !.released = released,
                              !.cleaned = @ \/ (/\ req.cancelled /\ Quiet
                                                /\ req.closed \/ released \/ req.superseded)]
    /\ UNCHANGED <<remote, op, rec, seen, left>>

Settle == w = Idle("settle") /\ SettleRows /\ Leave

\* coordinator::recover settles too, whatever the worker is waiting for
CoordinatorSettle == SettleRows /\ UNCHANGED w

CloseOwn ==
    /\ w = Idle("close") /\ Leave
    /\ IF req.cancelled /\ Quiet /\ ~req.closed /\ ~req.superseded /\ pr.state # "merged"
       THEN pr' = [pr EXCEPT !.state = "closed"] /\ req' = [req EXCEPT !.closed = TRUE]
       ELSE UNCHANGED <<pr, req>>
    /\ UNCHANGED <<wire, sent, runs, op, rec, seen, left>>

(***************************************************************************)
(* People, checks, faults.                                                 *)
(***************************************************************************)
Move(newPr, newReq) ==
    /\ left.moves > 0 /\ left' = [left EXCEPT !.moves = @ - 1] /\ pr' = newPr /\ req' = newReq
    /\ UNCHANGED <<wire, sent, runs, op, rec, seen, w>>

MoveBase ==
    /\ pr.base < MaxBase /\ pr.state # "merged"
    /\ Move([pr EXCEPT !.base = @ + 1, !.checks = "pending"], req)
Close  == pr.state = "open" /\ Move([pr EXCEPT !.state = "closed"], req)
Reopen == pr.state = "closed" /\ Move([pr EXCEPT !.state = "open"], req)
PersonMerges ==
    /\ pr.state = "open" /\ pr.checks = "ok"
    /\ Move([pr EXCEPT !.state = "merged", !.by = "person"], req)
Pause  == ~req.paused /\ req.state = "Submitted" /\ Move(pr, [req EXCEPT !.paused = TRUE])
Cancel == ~req.cancelled /\ req.state = "Submitted" /\ Move(pr, [req EXCEPT !.cancelled = TRUE, !.state = "Cancelled"])
Resume ==
    /\ req.paused /\ req' = [req EXCEPT !.paused = FALSE]
    /\ UNCHANGED <<remote, op, rec, seen, w, left>>

ChecksFinish ==
    /\ pr.checks = "pending" /\ \E c \in {"ok", "bad"} : pr' = [pr EXCEPT !.checks = c]
    /\ UNCHANGED <<wire, sent, runs, op, req, rec, seen, w, left>>
PostFinish ==
    /\ pr.state = "merged" /\ pr.post = "pending"
    /\ \E c \in {"ok", "bad"} : pr' = [pr EXCEPT !.post = c]
    /\ UNCHANGED <<wire, sent, runs, op, req, rec, seen, w, left>>

Fault(newW) ==
    /\ left.faults > 0 /\ left' = [left EXCEPT !.faults = @ - 1] /\ w' = newW
    /\ UNCHANGED <<remote, req, seen>>
Crash == Fault(Idle("sync")) /\ UNCHANGED <<op, rec>>
\* a remote call fails; in validation that is an error of the operation,
\* in acceptance only after the wait for the checks is over
CallFails ==
    /\ w.do \notin {"start", "begin", "admit"} /\ Fault(Idle(After(w.at)))
    /\ \/ w.at \in {"merge", "accept"} /\ UNCHANGED <<op, rec>>
       \/ w.at \in {"pre", "accept"} /\ Set("state", "blocked") /\ UNCHANGED rec
       \/ /\ w.at = "recover" /\ UNCHANGED op
          /\ rec' = IF rec.attempts >= MaxAttempts THEN [rec EXCEPT !.state = "blocked"] ELSE rec

Worker ==
    \/ Sync \/ PreObserve \/ PreBegin \/ PreRun
    \/ Observe \/ Prepare \/ Record \/ OnlyObserve \/ Decide \/ Ready \/ Begin \/ Recheck \/ Send \/ Retain
    \/ NextMerged \/ AcceptanceReady \/ Overdue \/ Reserve \/ Dispatch \/ BeginAcceptance \/ Collect \/ Run
    \/ PostMergeFailure \/ Finish \/ Claim \/ Freeze \/ Settle \/ CloseOwn
Platform == (\E b \in Bases : Answer(b)) \/ ChecksFinish \/ PostFinish
People == MoveBase \/ Close \/ Reopen \/ PersonMerges \/ Pause \/ Resume \/ Cancel \/ Decision
Next == Worker \/ CoordinatorSettle \/ Platform \/ People \/ Supersede \/ Age \/ Crash \/ CallFails

Spec == Init /\ [][Next]_vars
\* the service ticks for ever, GitHub answers and checks end, a pause is
\* lifted, and the clock passes the deadline of checks that never appear;
\* nobody promises that a person does anything else
Fairness ==
    /\ WF_vars(Worker) /\ WF_vars(Resume) /\ SF_vars(Overdue)
    /\ WF_vars(ChecksFinish) /\ WF_vars(PostFinish) /\ \A b \in Bases : WF_vars(Answer(b))
FairSpec == Spec /\ Fairness

(***************************************************************************)
(* Properties.                                                             *)
(***************************************************************************)
Ops == [state : {"none", "prepared", "unknown", "merged", "complete", "blocked", "invalidated", "cancelled"},
        started : BOOLEAN, merged : BOOLEAN, answered : BOOLEAN, method : BOOLEAN, dispatched : BOOLEAN,
        pre : {"none", "begun", "saved"}, acc : {"none", "begun", "passed", "failed"},
        file : {"none", "begun", "passed", "failed"}]

\* The rows keep their types, and at most one operation of a delivery is not
\* invalidated (the unique index of merge_operation).
TypeOK ==
    /\ op \in [Bases -> Ops] /\ wire \subseteq Bases /\ rec.attempts \in 0..MaxAttempts
    /\ \A a, b \in Bases : a = b \/ {op[a].state, op[b].state} \cap {"none", "invalidated"} # {}

\* However answers are lost and the service restarts, one merge request is
\* sent for a delivery: an operation that began is only observed afterwards.
SentOnce == sent <= 1

\* GitHub merges for the Broker only at the base whose test merge the Broker
\* validated itself, though bases move between its reads.
MergedAsValidated ==
    pr.by = "broker" => op[pr.base].started /\ (TestMerge => op[pr.base].pre = "saved")

\* Done means merged, accepted on the merged checkout and by a known method,
\* never under a cancel that was recorded first.
DoneIsAccepted ==
    req.state = "Done" =>
       /\ pr.state = "merged" /\ ~req.cancelled
       /\ \E b \in Bases : /\ op[b].state = "complete" /\ op[b].method
                            /\ op[b].acc = "passed" /\ op[b].file = "passed"

\* A checkout whose trusted validation failed is never validated anew until
\* it passes: the failure stays and the operation does not complete.
FailureIsKept ==
    [][\A b \in Bases : op[b].file = "failed" => op'[b].file = "failed" /\ op'[b].state # "complete"]_vars

\* The post-merge workflow is dispatched once, whatever is lost in between.
DispatchedOnce == runs <= 1

\* A delivery that a replacement supersedes was never sent and never will be.
SupersededUnsent ==
    req.superseded => wire = {} /\ pr.by # "broker" /\ \A b \in Bases : ~op[b].started

\* Once a cancelled Requirement counts as cleaned up, no late merge request
\* of its own can still be carried out.
CleanIsQuiet == [][req.cleaned /\ pr.by # "broker" => pr'.by # "broker"]_vars

\* A merge whose answer was lost is found by observation alone.
SentIsRecorded ==
    \A b \in Bases : (op[b].state = "unknown" /\ pr.state = "merged") ~> (op[b].state # "unknown")

\* A merged operation is completed, blocked for its item or withdrawn;
\* except that a cancel while an interrupted acceptance has no result leaves
\* it, since only an operation without begun acceptance is withdrawn.
MergedSettles ==
    \A b \in Bases : (op[b].state = "merged") ~>
                     (op[b].state # "merged" \/ (req.cancelled /\ op[b].acc = "begun"))

\* A cancel ends with everything cleaned up, or the operation is one of those
\* only a person can settle: sent and not merged, blocked after it began, or
\* a validation that a restart or the cancel interrupted.
Stranded(o) == Busy(o) /\ (o.state # "merged" \/ o.acc = "begun")
CancelSettles ==
    req.cancelled ~> (req.cleaned \/ \E b \in Bases : Stranded(op[b]))

\* One request and one dispatch go out, for what was validated; Done is accepted and
\* a superseded delivery was never sent (merge_store, merge_dispatch).
MergeHolds ==
    /\ TypeOK /\ SentOnce /\ MergedAsValidated /\ DoneIsAccepted /\ DispatchedOnce
    /\ SupersededUnsent

\* An outcome is not revised: a failed acceptance is not tried until it passes, and
\* a cleaned-up cancel is not merged afterwards.
OutcomesStand == FailureIsKept /\ CleanIsQuiet

\* Lost answers are made up by observation, merged operations settle and cancels
\* end, or are stranded for a named reason.
OperationsSettle == SentIsRecorded /\ MergedSettles /\ CancelSettles

================================================================================
