------------------------------ MODULE Validation ------------------------------
(***************************************************************************)
(* Validation of completed candidates, the bounded retry of infrastructure *)
(* failures and the bounded repair of code failures, for one Requirement.  *)
(* One worker (runtime_service::continue_pipeline) runs every step in turn *)
(* and loses what it holds in a crash; the ledger rows and the files of an *)
(* invocation survive it.  A validation is named by the Run it validates   *)
(* and the retries that lead to it: <<r>> is `validation-r', and appending *)
(* n is appending `-infrastructure-n'.                                     *)
(*                                                                         *)
(* The time of a retry is one bit: `late' once its deadline has passed, or *)
(* the next attempt would come after it.  `paused' stands for everything   *)
(* liftable that recovery_store::allowed asks for.                         *)
(***************************************************************************)
EXTENDS Integers, Sequences, FiniteSets

CONSTANTS
    MaxRuns,      \* bound: Runs, the first one included
    Cases         \* plans with their controls, each with its bounds

\* bounded_recovery::native_failure of the output; "void": no output, or a changed one
Diagnoses == {"ok", "code", "infrastructure", "unknown", "void"}

\* the plan's steps are any finite set; the rest of a case bounds the instance
CaseRecs(c) ==
    [steps : {c.steps}, results : SUBSET Diagnoses, limit : Nat \ {0}, supervised : BOOLEAN,
     runs : 1..MaxRuns, faults : Nat, moves : Nat]

ASSUME ValidationAssumption ==
    /\ MaxRuns \in Nat \ {0}
    /\ \A c \in Cases : c \in CaseRecs(c) /\ IsFiniteSet(c.steps) /\ "ok" \in c.results

Retries == 2      \* bounded_recovery::next_retry

VARIABLES
    run,      \* agent_run, in order: state and candidate
    val,      \* candidate_validation with its steps and its directory, by name
    fail,     \* recovery_failure, in order of creation
    retry,    \* recovery_retry, by index of its failure
    res,      \* repair_reservation, by ordinal
    req,      \* the Requirement and the controls on it
    w,        \* the worker
    frozen,   \* validations with a frozen hook_context (hook_required)
    invalidated, \* hook_invalidated
    left      \* the case; crashes and broken invocations, pauses and cancels to come

Steps == left.steps            \* the steps of the approved plan
Results == left.results        \* what a step can end with
Limit == left.limit            \* repair_authorization.repair_limit
Supervised == left.supervised  \* the validation has an environment context and a supervisor
Spend(event) == left[event] > 0 /\ left' = [left EXCEPT ![event] = @ - 1]

data == <<val, fail, retry, res>>
hook == <<frozen, invalidated>>
vars == <<run, data, req, w, hook, left>>

Idle == [do |-> "idle", id |-> <<>>, e |-> 0, left |-> {}]
\* stored only while the validation has a result to come
NewVal == [stage |-> "declaration", result |-> "pending", file |-> "none", alive |-> FALSE,
           stop |-> FALSE, out |-> [s \in Steps |-> "none"], saved |-> {}, starts |-> 0]

Init ==
    /\ left \in Cases
    /\ run = <<[state |-> "done", cand |-> 1]>>
    /\ val = <<>> /\ fail = <<>> /\ retry = <<>> /\ res = <<>>
    /\ req = [state |-> "Running", paused |-> FALSE, cancelled |-> FALSE, inc |-> 1]
    /\ w = Idle /\ frozen = {} /\ invalidated = {}

Source(id) == id[1]
Cand(id) == run[Source(id)].cand
Live == \E r \in DOMAIN run : run[r].state = "live"
Allowed == ~req.paused /\ ~req.cancelled
SetVal(id, v) == val' = [val EXCEPT ![id] = v]
With(f, x, v) == [y \in DOMAIN f \cup {x} |-> IF y = x THEN v ELSE f[y]]
Active == {o \in DOMAIN res : res[o].status \in {"reserved", "started"}}
Go(do) == w' = [w EXCEPT !.do = do]
\* recovery_retry::local completes the attempt; validation_worker is done
Return == IF w.e = 0 THEN w' = Idle ELSE Go("complete")

(***************************************************************************)
(* Local infrastructure retries (recovery_retry.rs).                       *)
(***************************************************************************)
Open(e) == retry[e].state \in {"pending", "unknown"}

M_ExpireRowOnly ==
    \E e \in DOMAIN retry :
       /\ Open(e) /\ retry[e].late
       /\ retry' = [retry EXCEPT ![e].state = "blocked"]
       /\ UNCHANGED <<run, val, fail, res, req, w, left, hook>>
\* at the start of every local and of every remote round: also in mid validation
Expire ==
    \E e \in DOMAIN retry :
       /\ Open(e) /\ retry[e].late
       /\ retry' = [retry EXCEPT ![e].state = "blocked"]
       /\ fail' = [fail EXCEPT ![e].decision = IF @ = "infrastructure" THEN "blocked" ELSE @]
       /\ UNCHANGED <<run, val, res, req, w, left, hook>>

NextName(e) == Append(fail[e].id, retry[e].attempts + 1)

\* an insert of a name that exists fails, and the whole tick with it
Claim ==
    \E e \in DOMAIN retry :
       /\ w = Idle /\ Open(e) /\ ~retry[e].late /\ Allowed /\ ~Live
       /\ \/ /\ retry[e].state = "unknown"
             /\ w' = [do |-> "prepare", id |-> retry[e].id, e |-> e, left |-> {}]
             /\ UNCHANGED <<val, retry>>
          \/ /\ retry[e].state = "pending" /\ NextName(e) \notin DOMAIN val
             /\ val' = With(val, NextName(e), NewVal)
             /\ retry' = [retry EXCEPT ![e] = [state |-> "unknown", attempts |-> @.attempts + 1,
                                               id |-> NextName(e), late |-> FALSE]]
             /\ w' = [do |-> "prepare", id |-> NextName(e), e |-> e, left |-> {}]
       /\ UNCHANGED <<run, fail, res, req, left, hook>>

M_CompleteAgain ==
    \E inTime \in BOOLEAN :
    LET e == w.e
        passed == val[w.id].result = "succeeded"
        again == \E f \in DOMAIN fail : fail[f].id = w.id /\ fail[f].decision = "infrastructure"
        next == again /\ inTime
        decision == IF passed THEN "recovered" ELSE IF ~again THEN "reclassified"
                    ELSE IF next THEN "infrastructure" ELSE "blocked"
    IN /\ w.do = "complete"
       /\ retry' = [retry EXCEPT ![e].state = IF passed THEN "complete" ELSE IF next THEN "pending" ELSE "blocked"]
       /\ fail' = [f \in DOMAIN fail |->
                     IF fail[f].cand = fail[e].cand /\ fail[f].decision = "infrastructure"
                     THEN [fail[f] EXCEPT !.decision = decision] ELSE fail[f]]
       /\ w' = Idle
       /\ UNCHANGED <<run, val, res, req, left, hook>>
\* every infrastructure failure of the candidate takes the decision; whether the
\* next attempt would still be in time is judged by the time the attempt began
Complete ==
    \E inTime \in BOOLEAN :
    LET e == w.e
        passed == val[w.id].result = "succeeded"
        again == \E f \in DOMAIN fail : fail[f].id = w.id /\ fail[f].decision = "infrastructure"
        next == again /\ retry[e].attempts < Retries /\ inTime
        decision == IF passed THEN "recovered" ELSE IF ~again THEN "reclassified"
                    ELSE IF next THEN "infrastructure" ELSE "blocked"
    IN /\ w.do = "complete"
       /\ retry' = [retry EXCEPT ![e].state = IF passed THEN "complete" ELSE IF next THEN "pending" ELSE "blocked"]
       /\ fail' = [f \in DOMAIN fail |->
                     IF fail[f].cand = fail[e].cand /\ fail[f].decision = "infrastructure"
                     THEN [fail[f] EXCEPT !.decision = decision] ELSE fail[f]]
       /\ w' = Idle
       /\ UNCHANGED <<run, val, res, req, left, hook>>

(***************************************************************************)
(* The validation of a completed candidate (validation_worker.rs,          *)
(* validation_service.rs).                                                 *)
(***************************************************************************)
Repairs(r) == {o \in DOMAIN res : res[o].run = r}
Stuck(r) == \E o \in Repairs(r), f \in DOMAIN fail : fail[f].step = "no-progress" /\ fail[f].id = res[o].id
Pending(r) ==
    /\ run[r].state = "done" /\ req.state = "Running" /\ Allowed /\ ~Live /\ ~Stuck(r)
    /\ ~\E id \in DOMAIN val : Source(id) = r /\ val[id].result # "pending"
\* the repair Run produced the candidate it was to repair
Unchanged(r) == \E o \in Repairs(r) : run[r].cand = Cand(res[o].id)

Failure(id, s, class, decision) ==
    [id |-> id, step |-> s, class |-> class, cand |-> Cand(id), decision |-> decision]

NoProgress ==
    \E r \in DOMAIN run :
       /\ w = Idle /\ Pending(r) /\ Unchanged(r)
       /\ \E o \in Repairs(r) : fail' = Append(fail, Failure(res[o].id, "no-progress", "code", "blocked"))
       /\ res' = [o \in DOMAIN res |-> IF o \in Repairs(r) THEN [res[o] EXCEPT !.status = "failed"] ELSE res[o]]
       /\ UNCHANGED <<run, val, retry, req, w, left, hook>>

Create ==
    \E r \in DOMAIN run :
       /\ w = Idle /\ Pending(r) /\ ~Unchanged(r)
       /\ val' = IF <<r>> \in DOMAIN val THEN val ELSE With(val, <<r>>, NewVal)
       /\ w' = [do |-> "prepare", id |-> <<r>>, e |-> 0, left |-> {}]
       /\ UNCHANGED <<run, fail, retry, res, req, left, hook>>

\* validation_context: a context is frozen, and later used, under current
\* authority, and never again once a control has interrupted it
ContextRefused(id) == Supervised /\ (~Allowed \/ id \in invalidated)

M_PrepareDecided ==
    /\ w.do = "prepare"
    /\ \/ ContextRefused(w.id) /\ w' = Idle /\ UNCHANGED frozen
       \/ /\ ~ContextRefused(w.id)
          /\ frozen' = IF Supervised THEN frozen \cup {w.id} ELSE frozen
          /\ Go("begin")
    /\ UNCHANGED <<run, data, req, left, invalidated>>
\* the context comes first, so a result that is decided is not returned without it
Prepare ==
    /\ w.do = "prepare"
    /\ \/ ContextRefused(w.id) /\ w' = Idle /\ UNCHANGED frozen
       \/ /\ ~ContextRefused(w.id)
          /\ frozen' = IF Supervised THEN frozen \cup {w.id} ELSE frozen
          /\ IF val[w.id].result = "pending" THEN Go("begin") ELSE Return
    /\ UNCHANGED <<run, data, req, left, invalidated>>

\* context::unknown decides a supervised invocation; a legacy one stays pending
M_LoseSilent(v) == SetVal(w.id, v) /\ w' = Idle
Lose(v) ==
    /\ SetVal(w.id, IF Supervised THEN [v EXCEPT !.result = "blocked"] ELSE v)
    /\ w' = Idle

M_RetainedStopped(id) == val[id].file = "done" /\ ~val[id].alive
\* require_complete and check_current of a supervised invocation
Retained(id) ==
    val[id].file = "done" /\ ~val[id].alive /\ ~val[id].stop /\ ~ContextRefused(id)
Evidence == w' = [w EXCEPT !.do = "evaluate", !.left = Steps] /\ UNCHANGED val

M_BeginAgain ==
    LET v == val[w.id]
        claimed == v.file # "done" /\ Allowed /\ w.id \notin invalidated
    IN  /\ w.do = "begin"
        /\ \/ claimed /\ SetVal(w.id, [v EXCEPT !.stage = "validation"]) /\ Go("spawn")
           \/ ~claimed /\ Retained(w.id) /\ Evidence
           \/ /\ ~claimed /\ ~Retained(w.id)
              /\ Lose([v EXCEPT !.stop = @ \/ (Supervised /\ (v.file = "none" \/ v.alive))])
        /\ UNCHANGED <<run, fail, retry, res, req, left, hook>>
\* what is not claimed here is never run again, only what was retained counts
Begin ==
    LET v == val[w.id]
        claimed == v.stage = "declaration" /\ Allowed /\ w.id \notin invalidated
    IN  /\ w.do = "begin"
        /\ \/ claimed /\ SetVal(w.id, [v EXCEPT !.stage = "validation"]) /\ Go("spawn")
           \/ ~claimed /\ Retained(w.id) /\ Evidence
           \/ /\ ~claimed /\ ~Retained(w.id)
              /\ Lose([v EXCEPT !.stop = @ \/ (Supervised /\ (v.file = "none" \/ v.alive))])
        /\ UNCHANGED <<run, fail, retry, res, req, left, hook>>

Spawn ==
    /\ w.do = "spawn"
    /\ SetVal(w.id, [val[w.id] EXCEPT !.file = "begun", !.alive = TRUE, !.starts = @ + 1])
    /\ Go("wait")
    /\ UNCHANGED <<run, fail, retry, res, req, left, hook>>

\* all the steps ran; the supervisor was told to stop first; or the output limit
\* or a changed checkout broke the invocation off
Finishes ==
    \E id \in DOMAIN val :
       /\ val[id].alive
       /\ \/ /\ UNCHANGED left
             /\ \E out \in [Steps -> Results] : SetVal(id, [val[id] EXCEPT !.file = "done", !.alive = FALSE, !.out = out])
          \/ /\ val[id].stop /\ UNCHANGED left
             /\ SetVal(id, [val[id] EXCEPT !.alive = FALSE])
          \/ /\ Spend("faults")
             /\ SetVal(id, [val[id] EXCEPT !.alive = FALSE])
       /\ UNCHANGED <<run, fail, retry, res, req, w, hook>>

\* validation_supervisor::wait stops what is no longer allowed; 20 s later it gives up
Stops ==
    LET v == val[w.id] IN
    /\ w.do = "wait" /\ Supervised /\ v.alive
    /\ \/ ~Allowed /\ ~v.stop /\ SetVal(w.id, [v EXCEPT !.stop = TRUE]) /\ UNCHANGED w
       \/ v.stop /\ Lose(v)
    /\ UNCHANGED <<run, fail, retry, res, req, left, hook>>

Collect ==
    /\ w.do = "wait" /\ ~val[w.id].alive
    /\ IF Retained(w.id) THEN Evidence ELSE Lose(val[w.id])
    /\ UNCHANGED <<run, fail, retry, res, req, left, hook>>

\* context::record: the current context once more, before the ledger is written;
\* refused here, the row stays pending
Evaluate ==
    /\ w.do = "evaluate"
    /\ IF ContextRefused(w.id) THEN w' = Idle ELSE Go("record")
    /\ UNCHANGED <<run, data, req, left, hook>>

RecordStep ==
    LET s == CHOOSE x \in w.left : TRUE
    IN /\ w.do = "record" /\ w.left # {}
       /\ IF w.id \in invalidated THEN UNCHANGED val
          ELSE SetVal(w.id, [val[w.id] EXCEPT !.saved = @ \cup {s}])
       /\ w' = [w EXCEPT !.left = @ \ {s}]
       /\ UNCHANGED <<run, fail, retry, res, req, left, hook>>

Intact(v) == \A s \in Steps : v.out[s] # "void"
Outcome(v) ==
    IF ~Intact(v) THEN "blocked"
    ELSE IF \A s \in Steps : v.out[s] = "ok" THEN "succeeded" ELSE "gate_failed"
Failing(v) == {s \in Steps : v.out[s] # "ok"}

\* validation_store::save_outcome: the row, the reservation and the repaired failure
Settled(status, result) ==
    IF result = "succeeded" /\ status \in {"started", "failed"} THEN "succeeded"
    ELSE IF status = "started" THEN "failed" ELSE status
M_FinishReservedOnly ==
    LET v == val[w.id]
        result == Outcome(v)
    IN /\ w.do = "record" /\ w.left = {} /\ w.id \notin invalidated
       /\ SetVal(w.id, [v EXCEPT !.result = result, !.stage = IF result = "succeeded" THEN "handoff" ELSE @])
       /\ res' = [o \in DOMAIN res |->
                    IF o \in Repairs(Source(w.id)) /\ res[o].status = "started"
                    THEN [res[o] EXCEPT !.status = Settled(@, result)] ELSE res[o]]
       /\ fail' = [f \in DOMAIN fail |->
                     IF result = "succeeded" /\ \E o \in Repairs(Source(w.id)) : res[o].e = f
                     THEN [fail[f] EXCEPT !.decision = "repaired"] ELSE fail[f]]
       /\ IF result = "succeeded" THEN Return ELSE w' = [w EXCEPT !.do = "facts", !.left = Failing(v)]
       /\ UNCHANGED <<run, retry, req, left, hook>>
M_FinishRevived ==
    LET v == val[w.id]
        result == Outcome(v)
    IN /\ w.do = "record" /\ w.left = {}
       /\ SetVal(w.id, [v EXCEPT !.result = result, !.stage = IF result = "succeeded" THEN "handoff" ELSE @])
       /\ res' = [o \in DOMAIN res |->
                    IF o \in Repairs(Source(w.id))
                    THEN [res[o] EXCEPT !.status = Settled(@, result)] ELSE res[o]]
       /\ fail' = [f \in DOMAIN fail |->
                     IF result = "succeeded" /\ \E o \in Repairs(Source(w.id)) : res[o].e = f
                     THEN [fail[f] EXCEPT !.decision = "repaired"] ELSE fail[f]]
       /\ IF result = "succeeded" THEN Return ELSE w' = [w EXCEPT !.do = "facts", !.left = Failing(v)]
       /\ UNCHANGED <<run, retry, req, left, hook>>
Finish ==
    LET v == val[w.id]
        result == Outcome(v)
    IN /\ w.do = "record" /\ w.left = {} /\ w.id \notin invalidated
       /\ SetVal(w.id, [v EXCEPT !.result = result, !.stage = IF result = "succeeded" THEN "handoff" ELSE @])
       /\ res' = [o \in DOMAIN res |->
                    IF o \in Repairs(Source(w.id))
                    THEN [res[o] EXCEPT !.status = Settled(@, result)] ELSE res[o]]
       /\ fail' = [f \in DOMAIN fail |->
                     IF result = "succeeded" /\ \E o \in Repairs(Source(w.id)) : res[o].e = f
                     THEN [fail[f] EXCEPT !.decision = "repaired"] ELSE fail[f]]
       /\ IF result = "succeeded" THEN Return ELSE w' = [w EXCEPT !.do = "facts", !.left = Failing(v)]
       /\ UNCHANGED <<run, retry, req, left, hook>>
\* load_evidence finds no row when a control came in between: nothing is decided
\* and the failing steps are reported all the same
FinishVoid ==
    /\ w.do = "record" /\ w.left = {} /\ w.id \in invalidated
    /\ w' = [w EXCEPT !.do = "facts", !.left = Failing(val[w.id])]
    /\ UNCHANGED <<run, data, req, left, hook>>

(***************************************************************************)
(* Facts and decisions (recovery_store.rs, bounded_recovery.rs).           *)
(***************************************************************************)
Classify(id, s, class) ==
    LET repeated == \/ \E f \in DOMAIN fail : /\ fail[f].step = s /\ fail[f].cand = Cand(id) /\ fail[f].class = class
                                              /\ fail[f].decision \in {"reserved", "code"}
                    \/ \E o \in DOMAIN res : res[o].id = id
    IN IF val[id].result # "gate_failed" THEN "blocked"
       ELSE CASE class = "code" -> (IF repeated THEN "covered" ELSE "code")
              [] class = "infrastructure" -> "infrastructure"
              [] OTHER -> "blocked"

\* one retry row for a step of a candidate, whatever became of it
Scheduled(id, s) == \E e \in DOMAIN retry : fail[e].cand = Cand(id) /\ fail[e].step = s

RecordFailure ==
    LET s == CHOOSE x \in w.left : TRUE
        class == val[w.id].out[s]
        f == Failure(w.id, s, class, Classify(w.id, s, class))
        continued == {res[o].e : o \in {p \in Repairs(Source(w.id)) : res[p].status = "failed"}}
    IN /\ w.do = "facts" /\ w.left # {}
       /\ fail' = Append([g \in DOMAIN fail |->
                            IF g \in continued /\ fail[g].decision = "reserved"
                            THEN [fail[g] EXCEPT !.decision = "continued"] ELSE fail[g]], f)
       /\ retry' = IF f.decision = "infrastructure" /\ ~Scheduled(w.id, s)
                   THEN With(retry, Len(fail) + 1, [state |-> "pending", attempts |-> 0, id |-> <<>>, late |-> FALSE])
                   ELSE retry
       /\ w' = [w EXCEPT !.left = @ \ {s}]
       /\ UNCHANGED <<run, val, res, req, left, hook>>

Recorded ==
    /\ w.do = "facts" /\ w.left = {} /\ Return
    /\ UNCHANGED <<run, data, req, left, hook>>

(***************************************************************************)
(* Repair (recovery_worker.rs, recovery_store.rs, validation_repair.rs).   *)
(* The pipeline reaches it when no candidate waits for its validation.     *)
(***************************************************************************)
Turn == w = Idle /\ ~\E r \in DOMAIN run : Pending(r)
Unclear(id) == \E f \in DOMAIN fail : fail[f].id = id /\ fail[f].decision \in {"blocked", "infrastructure"}
Codes == {f \in DOMAIN fail : fail[f].decision = "code"}
FirstCode(f) == f \in Codes /\ \A g \in Codes : f <= g

\* the ordinal limit or the budget is exhausted
Exhaust(e) == fail' = [fail EXCEPT ![e].decision = "blocked"] /\ UNCHANGED <<res, req>>
M_ReserveUncovered(e) ==
    /\ fail' = [fail EXCEPT ![e].decision = "reserved"]
    /\ res' = Append(res, [e |-> e, id |-> fail[e].id, status |-> "reserved", inc |-> req.inc, run |-> 0])
    /\ req' = [req EXCEPT !.state = "Running"]
CommitReservation(e) ==
    /\ fail' = [f \in DOMAIN fail |->
                  IF fail[f].id = fail[e].id /\ fail[f].decision = "code"
                  THEN [fail[f] EXCEPT !.decision = IF f = e THEN "reserved" ELSE "covered"] ELSE fail[f]]
    /\ res' = Append(res, [e |-> e, id |-> fail[e].id, status |-> "reserved", inc |-> req.inc, run |-> 0])
    /\ req' = [req EXCEPT !.state = "Running"]

M_ReserveUnlimited ==
    \E e \in DOMAIN fail :
       /\ Turn /\ FirstCode(e) /\ Active = {} /\ Allowed /\ ~Live /\ ~Unclear(fail[e].id)
       /\ CommitReservation(e)
       /\ UNCHANGED <<run, val, retry, w, left, hook>>
M_ReserveUnclear ==
    \E e \in DOMAIN fail :
       /\ Turn /\ FirstCode(e) /\ Active = {} /\ Allowed /\ ~Live
       /\ \/ Len(res) < Limit /\ CommitReservation(e)
          \/ Exhaust(e)
       /\ UNCHANGED <<run, val, retry, w, left, hook>>
M_ReserveSilent ==
    \E e \in DOMAIN fail :
       /\ Turn /\ FirstCode(e) /\ Active = {} /\ Allowed /\ ~Live /\ ~Unclear(fail[e].id)
       /\ Len(res) < Limit /\ CommitReservation(e)
       /\ UNCHANGED <<run, val, retry, w, left, hook>>
Reserve ==
    \E e \in DOMAIN fail :
       /\ Turn /\ FirstCode(e) /\ Active = {} /\ Allowed /\ ~Live /\ ~Unclear(fail[e].id)
       /\ \/ Len(res) < Limit /\ CommitReservation(e)
          \/ Exhaust(e)
       /\ UNCHANGED <<run, val, retry, w, left, hook>>

\* a reservation of an older controller whose Run was never dispatched
Replace ==
    \E o \in DOMAIN res :
       /\ Turn /\ Allowed /\ ~Live /\ res[o].status = "reserved" /\ res[o].inc # req.inc
       /\ res' = [res EXCEPT ![o].inc = req.inc]
       /\ UNCHANGED <<run, val, fail, retry, req, w, left, hook>>

\* the failed candidate is restored and the Run starts from it
Bind ==
    \E o \in DOMAIN res :
       /\ Turn /\ Allowed /\ ~Live /\ req.state = "Running" /\ Len(run) < left.runs
       /\ res[o].status = "reserved" /\ res[o].inc = req.inc /\ ~Unclear(res[o].id)
       /\ run' = Append(run, [state |-> "live", cand |-> Cand(res[o].id)])
       /\ res' = [res EXCEPT ![o].run = Len(run) + 1, ![o].status = "started"]
       /\ UNCHANGED <<val, fail, retry, req, w, left, hook>>

\* the Run completes with a new candidate, with the old one, or fails
RunEnds ==
    \E r \in DOMAIN run, state \in {"done", "failed"}, new \in BOOLEAN :
       /\ run[r].state = "live"
       /\ run' = [run EXCEPT ![r] = [state |-> state, cand |-> IF new THEN r ELSE @.cand]]
       /\ UNCHANGED <<data, req, w, left, hook>>

\* a stopped Run goes on as its successor, under the same ordinal
M_ResumeUnlinked ==
    \E r \in DOMAIN run :
       /\ run[r].state = "live" /\ Len(run) < left.runs /\ Allowed
       /\ run' = Append([run EXCEPT ![r].state = "paused"], [state |-> "live", cand |-> run[r].cand])
       /\ UNCHANGED <<data, req, w, left, hook>>
Resume ==
    \E r \in DOMAIN run :
       /\ run[r].state = "live" /\ Len(run) < left.runs /\ Allowed
       /\ run' = Append([run EXCEPT ![r].state = "paused"], [state |-> "live", cand |-> run[r].cand])
       /\ res' = [o \in DOMAIN res |->
                    IF o \in Repairs(r) /\ res[o].status = "started"
                    THEN [res[o] EXCEPT !.run = Len(run) + 1] ELSE res[o]]
       /\ UNCHANGED <<val, fail, retry, req, w, left, hook>>

(***************************************************************************)
(* Time, the operator, the controller.                                     *)
(***************************************************************************)
Late ==
    \E e \in DOMAIN retry :
       /\ Open(e) /\ ~retry[e].late /\ retry' = [retry EXCEPT ![e].late = TRUE]
       /\ UNCHANGED <<run, val, fail, res, req, w, left, hook>>

\* the triggers of migration 0033; what else stops a Requirement (recovery,
\* storage) does not fire them
Interrupts(field, control) ==
    IF control THEN invalidated' = invalidated \cup frozen
    ELSE field = "paused" /\ UNCHANGED invalidated

Control ==
    /\ \/ /\ Spend("moves")
          /\ \E field \in {"paused", "cancelled"}, control \in BOOLEAN :
                /\ ~req[field] \/ (field = "paused" /\ control)
                /\ req' = [req EXCEPT ![field] = TRUE]
                /\ Interrupts(field, control)
       \/ req.paused /\ req' = [req EXCEPT !.paused = FALSE] /\ UNCHANGED <<left, invalidated>>
    /\ UNCHANGED <<run, data, w, frozen>>

\* the delivery of a validated candidate is published (delivery_store::reconcile)
Submit ==
    /\ req.state = "Running" /\ ~req.cancelled /\ \E id \in DOMAIN val : val[id].result = "succeeded"
    /\ req' = [req EXCEPT !.state = "Submitted"]
    /\ UNCHANGED <<run, data, w, left, hook>>

\* a legacy validation runs inside the controller and ends with it
Crash ==
    /\ Spend("faults")
    /\ w' = Idle /\ req' = [req EXCEPT !.inc = @ + 1]
    /\ val' = IF Supervised THEN val ELSE [id \in DOMAIN val |-> [val[id] EXCEPT !.alive = FALSE]]
    /\ UNCHANGED <<run, fail, retry, res, hook>>

Worker == \/ Expire \/ Claim \/ Complete \/ NoProgress \/ Create \/ Prepare \/ Begin \/ Spawn \/ Stops
          \/ Collect \/ Evaluate \/ RecordStep \/ Finish \/ FinishVoid \/ RecordFailure \/ Recorded \/ Reserve \/ Replace \/ Bind
Next == Worker \/ Finishes \/ RunEnds \/ Resume \/ Late \/ Control \/ Submit \/ Crash

Spec == Init /\ [][Next]_vars

\* the worker ticks, a validation ends (every step has a timeout), time passes
Fairness == WF_vars(Worker) /\ WF_vars(Expire) /\ WF_vars(Finishes) /\ WF_vars(Late)
FairSpec == Spec /\ Fairness

(***************************************************************************)
(* Properties.                                                             *)
(***************************************************************************)
Ids == DOMAIN val
Results_ == {"pending", "succeeded", "gate_failed", "blocked"}

\* types of the rows, of the files and of the worker
TypeOK ==
    /\ \A r \in DOMAIN run : run[r].state \in {"live", "paused", "done", "failed"} /\ run[r].cand \in DOMAIN run
    /\ \A id \in Ids : /\ val[id].result \in Results_ /\ val[id].stage \in {"declaration", "validation", "handoff"}
                       /\ val[id].file \in {"none", "begun", "done"} /\ val[id].saved \subseteq Steps
    /\ \A f \in DOMAIN fail : fail[f].id \in Ids /\ fail[f].decision \in
         {"code", "covered", "infrastructure", "blocked", "reserved", "continued", "repaired", "recovered", "reclassified"}
    /\ DOMAIN retry \subseteq DOMAIN fail
    /\ \A e \in DOMAIN retry : /\ retry[e].state \in {"pending", "unknown", "complete", "blocked"}
                              /\ retry[e].attempts \in 0..Retries
    /\ \A o \in DOMAIN res : res[o].status \in {"reserved", "started", "succeeded", "failed"} /\ res[o].run \in 0..Len(run)
    /\ w.do \in {"idle", "prepare", "begin", "spawn", "wait", "evaluate", "record", "facts", "complete"}
    /\ invalidated \subseteq frozen /\ frozen \subseteq Ids

\* "never rerun": however often the controller is restarted and the row picked
\* up again, the approved steps run at most once under one validation
StartedOnce == \A id \in Ids : val[id].starts <= 1

\* a validation that succeeded was one complete, unstopped execution in which
\* every required step passed, and every step of it is in the ledger
SucceededIsProven ==
    \A id \in Ids : val[id].result = "succeeded" =>
        /\ val[id].file = "done" /\ ~val[id].stop /\ val[id].starts = 1 /\ val[id].saved = Steps
        /\ \A s \in Steps : val[id].out[s] = "ok"

\* a result that is decided stays, through replays, retries and late steps, and a
\* validation that a pause or a cancel interrupted is not revived by the resume:
\* what is left of it may block it, never decide it (docs/validation-hooks.md)
DecidedStays ==
    [][\A id \in Ids :
          /\ val[id].result # "pending" => val'[id].result = val[id].result
          /\ val[id].result = "pending" /\ id \in invalidated =>
                id \in invalidated' /\ val'[id].result \in {"pending", "blocked"}]_vars

\* a repair has succeeded exactly when a validation of its current Run has,
\* the retry of an infrastructure failure included
RepairIsValidated ==
    \A o \in DOMAIN res : res[o].status = "succeeded"
        <=> \E id \in Ids : Source(id) = res[o].run /\ val[id].result = "succeeded"

\* the repairs of a Requirement stay within the authorized number, one at a time
RepairsBounded == Len(res) <= Limit /\ Cardinality(Active) <= 1

\* one failed validation is charged one repair
OneRepairPerFailure == \A o, p \in DOMAIN res : res[o].id = res[p].id => o = p

\* a started repair belongs to the newest Run, whatever was paused and resumed
StartedIsCurrent == \A o \in DOMAIN res : res[o].status = "started" => res[o].run = Len(run)

\* while a repair is reserved or runs, its failed validation has no failure that
\* waits for a retry or for the operator
ActiveIsClear == \A o \in Active : ~Unclear(res[o].id)

\* once the operator leaves the Requirement alone, a supervised validation that
\* was created is decided, whatever crash or stop it met; only one that a pause or
\* a cancel interrupted may stay open
CandidateDecided ==
    \A r \in 1..MaxRuns : Supervised /\ (<>[]Allowed) =>
        ((<<r>> \in Ids /\ val[<<r>>].result = "pending")
            ~> (<<r>> \in Ids /\ (val[<<r>>].result # "pending" \/ <<r>> \in invalidated)))

\* an infrastructure failure with a retry of its own is recovered, reclassified
\* or handed to the operator
FailureEnds ==
    \A f \in 1..(2 * MaxRuns) : (f \in DOMAIN retry /\ fail[f].decision = "infrastructure")
                            ~> (f \in DOMAIN retry /\ fail[f].decision # "infrastructure")

\* a code failure is taken up or blocked, unless another failure of its
\* validation, an older failure that cannot be taken up or a started repair that
\* never ends stands in its way
Taken(f) ==
    \/ f \in DOMAIN fail \ Codes
    \/ \E g \in Codes : g <= f /\ Unclear(fail[g].id)
    \/ \E o \in Active : res[o].status = "started" \/ Len(run) = left.runs
CodeFailureTaken == \A f \in 1..(2 * MaxRuns) : (<>[]Allowed) => ((f \in Codes) ~> Taken(f))

\* Validations run once and succeed on proof; repairs are bounded, belong to one
\* clear failure and to the current Run, and succeed with a validation.
ValidationHolds ==
    /\ TypeOK /\ StartedOnce /\ SucceededIsProven /\ RepairIsValidated
    /\ RepairsBounded /\ OneRepairPerFailure /\ StartedIsCurrent /\ ActiveIsClear

\* Every supervised candidate is decided and every failure taken up, retried or
\* blocked (validation_worker::tick, recovery_store::reserve).
FailuresAreDecided == CandidateDecided /\ FailureEnds /\ CodeFailureTaken

================================================================================
