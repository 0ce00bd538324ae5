---------------------------- MODULE ValidationProof ----------------------------
(***************************************************************************)
(* Theorems about the validation of candidates, for every plan, every      *)
(* number of Runs, failures, retries and repairs and every number of       *)
(* crashes, broken invocations, pauses and cancels.                        *)
(***************************************************************************)
EXTENDS Validation, FiniteSetTheorems, TLAPS

----------------------------------------------------------------------------
(* The inductive invariant. *)

Names == Seq(Nat) \ {<<>>}
Decisions == {"code", "covered", "infrastructure", "blocked", "reserved", "continued", "repaired",
              "recovered", "reclassified"}
RunRecs == [state : {"live", "paused", "done", "failed"}, cand : Nat]
ValRecs ==
    [stage : {"declaration", "validation", "handoff"}, result : Results_,
     file : {"none", "begun", "done"}, alive : BOOLEAN, stop : BOOLEAN,
     out : [Steps -> Diagnoses \cup {"none"}], saved : SUBSET Steps, starts : Nat]
FailRecs ==
    [id : Names, step : Steps \cup {"no-progress"}, class : Diagnoses \cup {"none"}, cand : Nat,
     decision : Decisions]
RetryRecs ==
    [state : {"pending", "unknown", "complete", "blocked"}, attempts : 0..Retries,
     id : Seq(Nat), late : BOOLEAN]
ResRecs ==
    [e : Nat, id : Names, status : {"reserved", "started", "succeeded", "failed"}, inc : Nat, run : Nat]
ReqRecs == [state : {"Running", "Submitted"}, paused : BOOLEAN, cancelled : BOOLEAN, inc : Nat]

TypeRun == run \in Seq(RunRecs)
TypeVal == \A id \in Ids : id \in Names /\ val[id] \in ValRecs
TypeFail == fail \in Seq(FailRecs)
TypeRetry == \A e \in DOMAIN retry : retry[e] \in RetryRecs
TypeRes == res \in Seq(ResRecs)
TypeWorker ==
    /\ w = [do |-> w.do, id |-> w.id, e |-> w.e, left |-> w.left]
    /\ w.do \in {"idle", "prepare", "begin", "spawn", "wait", "evaluate", "record", "facts", "complete"}
    /\ w.left \subseteq Steps
TypeRest == req \in ReqRecs /\ left \in CaseRecs(left)
Types ==
    /\ TypeRun /\ TypeVal /\ TypeFail /\ TypeRetry /\ TypeRes /\ TypeWorker /\ TypeRest

\* rows name rows that exist: a candidate its Run, a validation its Run, failures,
\* retries and repairs their validation, the worker what it works on
Linked ==
    /\ \A r \in DOMAIN run : run[r].cand \in DOMAIN run
    /\ \A id \in Ids : Source(id) \in DOMAIN run
    /\ \A f \in DOMAIN fail : fail[f].id \in Ids
    /\ DOMAIN retry \subseteq DOMAIN fail
    /\ \A e \in DOMAIN retry : retry[e].state = "unknown" => retry[e].id \in Ids
    /\ \A o \in DOMAIN res : res[o].id \in Ids /\ res[o].run \in 0..Len(run)
    /\ w.do # "idle" => w.id \in Ids /\ w.e \in DOMAIN retry \cup {0}
    /\ w.do = "complete" => w.e \in DOMAIN retry

\* one Run is live at most, the last; the steps of a validation run at most once,
\* and its file tells of that execution
LastIsLive == \A r \in DOMAIN run : run[r].state = "live" => r = Len(run)
Executions ==
    \A id \in Ids :
        /\ val[id].stage = "declaration" => val[id].starts = 0
        /\ val[id].starts = 0 => val[id].file = "none" /\ ~val[id].alive
        /\ val[id].starts <= 1
        /\ val[id].file = "done" => ~val[id].alive

\* a failure that can be charged and a repair are of a validation that was decided,
\* and a validation with a repair has no failure that could be charged again
Charged ==
    /\ \A f \in DOMAIN fail : fail[f].decision = "code" =>
          val[fail[f].id].result # "pending" /\ \A o \in DOMAIN res : res[o].id # fail[f].id
    /\ \A o \in DOMAIN res : val[res[o].id].result # "pending"
    /\ \A o \in DOMAIN res : res[o].status = "reserved" => res[o].run = 0
    /\ \A o, p \in Active : o = p
    /\ Len(res) <= Limit
RetriesLeft == \A e \in DOMAIN retry : retry[e].state = "pending" => retry[e].attempts < Retries

\* what the worker holds of the validation it works on
WorkerKnows ==
    /\ w.do \in {"begin", "spawn", "wait", "evaluate", "record"} => val[w.id].result = "pending"
    /\ w.do = "spawn" => val[w.id].starts = 0 /\ val[w.id].stage = "validation"
    /\ w.do = "wait" => val[w.id].stage = "validation"
    /\ w.do \in {"evaluate", "record"} => val[w.id].file = "done" /\ ~val[w.id].stop
    /\ w.do = "evaluate" => w.left = Steps
    /\ w.do = "record" /\ w.id \notin invalidated => Steps \subseteq val[w.id].saved \cup w.left
    /\ w.do = "facts" =>
          (val[w.id].result # "pending" \/ w.id \in invalidated) /\ \A o \in DOMAIN res : res[o].id # w.id

\* only a frozen context is interrupted
Hooks == frozen \subseteq Ids /\ invalidated \subseteq frozen

IInv ==
    /\ Types /\ Linked /\ LastIsLive /\ Executions /\ Charged /\ RetriesLeft /\ WorkerKnows /\ Hooks
    /\ SucceededIsProven /\ RepairIsValidated /\ OneRepairPerFailure /\ StartedIsCurrent /\ ActiveIsClear

----------------------------------------------------------------------------
(* Sequences, the case, and who writes what. *)

LEMMA ReplacedAt ==
  ASSUME NEW S, NEW s \in Seq(S), NEW a \in DOMAIN s, NEW r \in S
  PROVE  /\ [s EXCEPT ![a] = r] \in Seq(S)
         /\ Len([s EXCEPT ![a] = r]) = Len(s)
         /\ \A b \in DOMAIN s : [s EXCEPT ![a] = r][b] = IF b = a THEN r ELSE s[b]
  OBVIOUS

LEMMA AddedAt ==
  ASSUME NEW S, NEW s \in Seq(S), NEW r \in S
  PROVE  /\ Append(s, r) \in Seq(S)
         /\ Len(Append(s, r)) = Len(s) + 1
         /\ \A b \in DOMAIN s : Append(s, r)[b] = s[b]
         /\ Append(s, r)[Len(s) + 1] = r
  OBVIOUS

LEMMA MappedTo ==
  ASSUME NEW S, NEW s \in Seq(S), NEW g, g = [i \in DOMAIN s |-> g[i]], \A i \in DOMAIN s : g[i] \in S
  PROVE  g \in Seq(S) /\ Len(g) = Len(s) /\ DOMAIN g = DOMAIN s
  OBVIOUS

LEMMA DomainOf ==
  ASSUME NEW S, NEW s \in Seq(S)
  PROVE  DOMAIN s = 1..Len(s) /\ Len(s) \in Nat /\ \A i \in DOMAIN s : s[i] \in S
  OBVIOUS

LEMMA LeftWrites == ASSUME Next PROVE UNCHANGED left \/ Spend("faults") \/ Spend("moves")
  BY DEF Next, Worker, Expire, Claim, Complete, NoProgress, Create, Prepare, Begin, Spawn, Stops, Collect, Evaluate,
    RecordStep, Finish, FinishVoid, RecordFailure, Recorded, Reserve, Replace, Bind, Finishes, RunEnds, Resume,
    Late, Control, Submit, Crash, data

\* the plan and its limits stay what they are
LEMMA CaseStays ==
  ASSUME left \in CaseRecs(left), Next
  PROVE  /\ Steps' = Steps /\ Limit' = Limit /\ Supervised' = Supervised /\ Results' = Results
         /\ left'.runs = left.runs /\ left' \in CaseRecs(left')
  <1>1. CASE UNCHANGED left BY <1>1 DEF Steps, Limit, Supervised, Results, CaseRecs
  <1>2. CASE Spend("faults") BY <1>2 DEF Steps, Limit, Supervised, Results, CaseRecs, Spend
  <1>3. CASE Spend("moves") BY <1>3 DEF Steps, Limit, Supervised, Results, CaseRecs, Spend
  <1> QED BY <1>1, <1>2, <1>3, LeftWrites

LEMMA RunWrites == ASSUME Next PROVE UNCHANGED run \/ Bind \/ RunEnds \/ Resume
  BY DEF Next, Worker, Expire, Claim, Complete, NoProgress, Create, Prepare, Begin, Spawn, Stops, Collect, Evaluate,
    RecordStep, Finish, FinishVoid, RecordFailure, Recorded, Reserve, Replace, Finishes,
    Late, Control, Submit, Crash, data

LEMMA ValWrites == ASSUME Next
  PROVE  \/ UNCHANGED val
         \/ Claim \/ Create \/ Begin \/ Spawn \/ Stops \/ Collect \/ RecordStep \/ Finish \/ Finishes \/ Crash
  BY DEF Next, Worker, Expire, Complete, NoProgress, Prepare, Evaluate, FinishVoid,
    RecordFailure, Recorded, Reserve, Replace, Bind, RunEnds, Resume,
    Late, Control, Submit, data

LEMMA FailWrites == ASSUME Next
  PROVE  UNCHANGED fail \/ Expire \/ Complete \/ NoProgress \/ Finish \/ RecordFailure \/ Reserve
  BY DEF Next, Worker, Claim, Create, Prepare, Begin, Spawn, Stops, Collect, Evaluate,
    RecordStep, FinishVoid, Recorded, Replace, Bind, Finishes, RunEnds, Resume,
    Late, Control, Submit, Crash, data

LEMMA RetryWrites == ASSUME Next
  PROVE  UNCHANGED retry \/ Expire \/ Claim \/ Complete \/ RecordFailure \/ Late
  BY DEF Next, Worker, NoProgress, Create, Prepare, Begin, Spawn, Stops, Collect, Evaluate,
    RecordStep, Finish, FinishVoid, Recorded, Reserve, Replace, Bind, Finishes, RunEnds, Resume,
    Control, Submit, Crash, data

LEMMA ResWrites == ASSUME Next
  PROVE  UNCHANGED res \/ NoProgress \/ Finish \/ Reserve \/ Replace \/ Bind \/ Resume
  BY DEF Next, Worker, Expire, Claim, Complete, Create, Prepare, Begin, Spawn, Stops, Collect, Evaluate,
    RecordStep, FinishVoid, RecordFailure, Recorded, Finishes, RunEnds,
    Late, Control, Submit, Crash, data

LEMMA WorkerWrites == ASSUME Next
  PROVE  \/ UNCHANGED w
         \/ Claim \/ Complete \/ Create \/ Prepare \/ Begin \/ Spawn \/ Stops \/ Collect \/ Evaluate
         \/ RecordStep \/ Finish \/ FinishVoid \/ RecordFailure \/ Recorded \/ Crash
  BY DEF Next, Worker, Expire, NoProgress, Reserve, Replace, Bind, Finishes, RunEnds, Resume,
    Late, Control, Submit, data

LEMMA HookWrites == ASSUME Next PROVE UNCHANGED hook \/ Prepare \/ Control
  BY DEF Next, Worker, Expire, Claim, Complete, NoProgress, Create, Begin, Spawn, Stops, Collect, Evaluate,
    RecordStep, Finish, FinishVoid, RecordFailure, Recorded, Reserve, Replace, Bind, Finishes, RunEnds, Resume,
    Late, Submit, Crash

LEMMA ReqWrites == ASSUME Next PROVE UNCHANGED req \/ Reserve \/ Control \/ Submit \/ Crash
  BY DEF Next, Worker, Expire, Claim, Complete, NoProgress, Create, Prepare, Begin, Spawn, Stops, Collect, Evaluate,
    RecordStep, Finish, FinishVoid, RecordFailure, Recorded, Replace, Bind, Finishes, RunEnds, Resume, Late, data

----------------------------------------------------------------------------
(* A validation and its files: the rows one by one. *)

\* what the invariant says of one row
SoundRow(v) ==
    /\ v \in ValRecs
    /\ v.stage = "declaration" => v.starts = 0
    /\ v.starts = 0 => v.file = "none" /\ ~v.alive
    /\ v.starts <= 1
    /\ v.file = "done" => ~v.alive
    /\ v.result = "succeeded" =>
          /\ v.file = "done" /\ ~v.stop /\ v.starts = 1 /\ v.saved = Steps
          /\ \A s \in Steps : v.out[s] = "ok"

\* how the supervisor, or its end, moves the row v to u
Ran(v, u) ==
    \/ v.alive /\ \E out \in [Steps -> Results] : u = [v EXCEPT !.file = "done", !.alive = FALSE, !.out = out]
    \/ u = [v EXCEPT !.alive = FALSE]
\* how the worker moves it
Decided(v, u) ==
    /\ Finish /\ w.id \notin invalidated
    /\ u = [v EXCEPT !.result = Outcome(v), !.stage = IF Outcome(v) = "succeeded" THEN "handoff" ELSE @]
Worked(v, u) ==
    \/ w.do = "begin" /\ v.stage = "declaration" /\ u = [v EXCEPT !.stage = "validation"]
    \/ w.do \in {"begin", "wait"} /\ \E b \in BOOLEAN : u = [v EXCEPT !.stop = b]
    \/ w.do \in {"begin", "wait"} /\ \E b \in BOOLEAN : u = [v EXCEPT !.stop = b, !.result = "blocked"]
    \/ w.do = "spawn" /\ u = [v EXCEPT !.file = "begun", !.alive = TRUE, !.starts = @ + 1]
    \/ w.do = "record" /\ \E s \in w.left : u = [v EXCEPT !.saved = @ \cup {s}]
    \/ Decided(v, u)

LEMMA SoundIs == ASSUME TypeVal, Executions, SucceededIsProven
  PROVE  \A id \in Ids : id \in Names /\ SoundRow(val[id])
  BY DEF TypeVal, Executions, SucceededIsProven, SoundRow, Ids

LEMMA NewIsSound == SoundRow(NewVal) /\ NewVal.result = "pending"
  BY DEF SoundRow, NewVal, ValRecs, Results_

LEMMA RanIsSound ==
  ASSUME NEW v, NEW u, SoundRow(v), Ran(v, u), Results \subseteq Diagnoses
  PROVE  SoundRow(u) /\ u.result = v.result /\ u.starts = v.starts /\ u.stage = v.stage
         /\ (v.file = "done" => u.file = "done") /\ u.saved = v.saved /\ u.stop = v.stop
  <1>1. CASE u = [v EXCEPT !.alive = FALSE] BY <1>1 DEF SoundRow, ValRecs
  <1>2. ASSUME v.alive, NEW out \in [Steps -> Results],
               u = [v EXCEPT !.file = "done", !.alive = FALSE, !.out = out]
        PROVE  SoundRow(u) /\ u.result = v.result /\ u.starts = v.starts /\ u.stage = v.stage
               /\ (v.file = "done" => u.file = "done") /\ u.saved = v.saved /\ u.stop = v.stop
    <2>1. out \in [Steps -> Diagnoses \cup {"none"}] OBVIOUS
    <2>2. u \in ValRecs BY <1>2, <2>1 DEF SoundRow, ValRecs
    <2>3. v.result # "succeeded" BY <1>2 DEF SoundRow
    <2> QED BY <1>2, <2>2, <2>3 DEF SoundRow, ValRecs
  <1> QED BY <1>1, <1>2 DEF Ran

LEMMA WorkedIsSound ==
  ASSUME NEW v, NEW u, SoundRow(v), Worked(v, u), v.result = "pending", w.left \subseteq Steps,
         w.do = "spawn" => v.starts = 0 /\ v.stage = "validation",
         w.do = "record" => v.file = "done" /\ ~v.stop,
         w.do = "record" /\ w.id \notin invalidated => Steps \subseteq v.saved \cup w.left
  PROVE  SoundRow(u)
  <1>0. v \in ValRecs BY DEF SoundRow
  <1>1. CASE w.do = "begin" /\ v.stage = "declaration" /\ u = [v EXCEPT !.stage = "validation"]
    BY <1>1 DEF SoundRow, ValRecs
  <1>2. ASSUME NEW b \in BOOLEAN, u = [v EXCEPT !.stop = b] PROVE SoundRow(u)
    BY <1>2 DEF SoundRow, ValRecs
  <1>3. ASSUME NEW b \in BOOLEAN, u = [v EXCEPT !.stop = b, !.result = "blocked"] PROVE SoundRow(u)
    BY <1>3 DEF SoundRow, ValRecs, Results_
  <1>4. CASE w.do = "spawn" /\ u = [v EXCEPT !.file = "begun", !.alive = TRUE, !.starts = @ + 1]
    <2>1. v.starts = 0 /\ v.stage = "validation" /\ v.result = "pending" BY <1>4
    <2>2. v.starts + 1 = 1 BY <2>1
    <2>3. u = [v EXCEPT !.file = "begun", !.alive = TRUE, !.starts = 1] BY <1>4, <2>2
    <2>4. u \in ValRecs BY <1>0, <2>3 DEF ValRecs
    <2> QED BY <1>0, <2>3, <2>1, <2>4 DEF SoundRow, ValRecs
  <1>5. ASSUME w.do = "record", NEW s \in w.left, u = [v EXCEPT !.saved = @ \cup {s}] PROVE SoundRow(u)
    BY <1>5 DEF SoundRow, ValRecs
  <1>6. CASE Decided(v, u)
    <2>0. w.do = "record" /\ w.left = {} /\ w.id \notin invalidated BY <1>6 DEF Decided, Finish
    <2>1. /\ v.file = "done" /\ ~v.stop /\ v.saved = Steps /\ v.starts = 1
      BY <1>0, <2>0 DEF SoundRow, ValRecs
    <2>2. PICK r \in {"succeeded", "gate_failed", "blocked"} : Outcome(v) = r BY DEF Outcome
    <2>3. r = "succeeded" => \A s \in Steps : v.out[s] = "ok" BY <2>2 DEF Outcome
    <2>4. u = [v EXCEPT !.result = r, !.stage = IF r = "succeeded" THEN "handoff" ELSE @]
      BY <1>6, <2>2 DEF Decided
    <2>5. u \in ValRecs BY <1>0, <2>4 DEF ValRecs, Results_
    <2>6. v.stage # "declaration" BY <1>0, <2>1 DEF SoundRow
    <2> QED BY <1>0, <2>1, <2>3, <2>4, <2>5, <2>6 DEF SoundRow, ValRecs
  <1> QED BY <1>1, <1>2, <1>3, <1>4, <1>5, <1>6 DEF Worked

LEMMA Lost ==
  ASSUME NEW b \in BOOLEAN, w.id \in Ids, w.do \in {"begin", "wait"}, val[w.id].stop \in BOOLEAN,
         Lose([val[w.id] EXCEPT !.stop = b])
  PROVE  Ids' = Ids /\ \A id \in Ids : val'[id] = val[id] \/ (id = w.id /\ Worked(val[id], val'[id]))
  <1>1. CASE Supervised
    <2>1. val' = [val EXCEPT ![w.id] = [val[w.id] EXCEPT !.stop = b, !.result = "blocked"]]
      BY <1>1 DEF Lose, SetVal
    <2> QED BY <2>1 DEF Worked, Ids
  <1>2. CASE ~Supervised
    <2>1. val' = [val EXCEPT ![w.id] = [val[w.id] EXCEPT !.stop = b]] BY <1>2 DEF Lose, SetVal
    <2> QED BY <2>1 DEF Worked, Ids
  <1> QED BY <1>1, <1>2

LEMMA LostAsIs ==
  ASSUME w.id \in Ids, w.do \in {"begin", "wait"}, val[w.id] \in ValRecs, Lose(val[w.id])
  PROVE  Ids' = Ids /\ \A id \in Ids : val'[id] = val[id] \/ (id = w.id /\ Worked(val[id], val'[id]))
  <1>1. val[w.id].stop \in BOOLEAN /\ val[w.id] = [val[w.id] EXCEPT !.stop = val[w.id].stop] BY DEF ValRecs
  <1>2. PICK b \in BOOLEAN : b = val[w.id].stop BY <1>1
  <1>3. Lose([val[w.id] EXCEPT !.stop = b]) BY <1>1, <1>2, Zenon
  <1> QED BY <1>2, <1>3, Lost

\* every step moves a row as the worker or the supervisor does, or adds one
LEMMA ValMoves ==
  ASSUME IInv, Next
  PROVE  /\ Ids \subseteq Ids'
         /\ \A id \in Ids' \ Ids : /\ val'[id] = NewVal /\ id \in Names /\ Source(id) \in DOMAIN run
                                   /\ w = Idle /\ UNCHANGED <<run, res>>
         /\ \A id \in Ids : \/ val'[id] = val[id] \/ Ran(val[id], val'[id])
                            \/ id = w.id /\ val[id].result = "pending" /\ Worked(val[id], val'[id])
  <1>0. /\ TypeVal /\ TypeWorker /\ TypeFail /\ TypeRetry /\ WorkerKnows /\ Linked
        /\ w.do # "idle" => w.id \in Ids /\ val[w.id] \in ValRecs /\ val[w.id].stop \in BOOLEAN
    BY DEF IInv, Types, Linked, TypeVal, ValRecs
  <1>1. CASE UNCHANGED val BY <1>1 DEF Ids
  <1>2. CASE Claim
    <2>1. PICK e \in DOMAIN retry :
             /\ w = Idle /\ UNCHANGED <<run, res>>
             /\ UNCHANGED val \/ (val' = With(val, NextName(e), NewVal) /\ NextName(e) \notin DOMAIN val)
      BY <1>2 DEF Claim
    <2>2. CASE UNCHANGED val BY <2>2 DEF Ids
    <2>3. CASE val' = With(val, NextName(e), NewVal) /\ NextName(e) \notin DOMAIN val
      <3>1. /\ fail[e].id \in Ids /\ fail[e].id \in Names /\ retry[e].attempts \in Nat
            /\ Source(fail[e].id) \in DOMAIN run
        <4>1. fail[e].id \in Ids BY <1>0 DEF Linked
        <4>2. retry[e].attempts \in 0..2 BY <1>0 DEF TypeRetry, RetryRecs, Retries
        <4> QED BY <1>0, <4>1, <4>2 DEF Linked, TypeVal
      <3>2. NextName(e) \in Names /\ Source(NextName(e)) = Source(fail[e].id)
        BY <3>1 DEF NextName, Names, Source
      <3>3. Ids' = Ids \cup {NextName(e)} /\ val'[NextName(e)] = NewVal
            /\ \A id \in Ids : val'[id] = val[id]
        BY <2>3 DEF With, Ids
      <3> QED BY <2>1, <3>1, <3>2, <3>3
    <2> QED BY <2>1, <2>2, <2>3
  <1>3. CASE Create
    <2>1. PICK r \in DOMAIN run :
             /\ w = Idle /\ UNCHANGED <<run, res>>
             /\ UNCHANGED val \/ (val' = With(val, <<r>>, NewVal) /\ <<r>> \notin DOMAIN val)
      BY <1>3 DEF Create
    <2>2. CASE UNCHANGED val BY <2>2 DEF Ids
    <2>3. CASE val' = With(val, <<r>>, NewVal) /\ <<r>> \notin DOMAIN val
      <3>1. r \in Nat BY DomainOf DEF IInv, Types, TypeRun
      <3>2. <<r>> \in Names /\ Source(<<r>>) = r BY <3>1 DEF Names, Source
      <3>3. Ids' = Ids \cup {<<r>>} /\ val'[<<r>>] = NewVal
            /\ \A id \in Ids : val'[id] = val[id]
        BY <2>3 DEF With, Ids
      <3> QED BY <2>1, <3>1, <3>2, <3>3
    <2> QED BY <2>1, <2>2, <2>3
  <1>4. CASE Begin
    <2>1. w.do = "begin" /\ val[w.id].result = "pending" BY <1>0, <1>4 DEF Begin, WorkerKnows
    <2>2. CASE UNCHANGED val BY <2>2 DEF Ids
    <2>3. CASE /\ val[w.id].stage = "declaration"
               /\ SetVal(w.id, [val[w.id] EXCEPT !.stage = "validation"])
      BY <1>0, <2>1, <2>3 DEF SetVal, Ids, Worked
    <2>4. ASSUME NEW b \in BOOLEAN, Lose([val[w.id] EXCEPT !.stop = b])
          PROVE  Ids' = Ids /\ \A id \in Ids : \/ val'[id] = val[id]
                                               \/ id = w.id /\ val[id].result = "pending" /\ Worked(val[id], val'[id])
      BY <1>0, <2>1, <2>4, Lost
    <2>5. CASE Lose([val[w.id] EXCEPT !.stop = @ \/ (Supervised /\ (val[w.id].file = "none" \/ val[w.id].alive))])
      <3>1. PICK b \in BOOLEAN :
              b = (val[w.id].stop \/ (Supervised /\ (val[w.id].file = "none" \/ val[w.id].alive)))
        OBVIOUS
      <3>2. Lose([val[w.id] EXCEPT !.stop = b]) BY <2>5, <3>1, Zenon
      <3> QED BY <2>4, <3>2
    <2> QED BY <1>4, <2>2, <2>3, <2>4, <2>5 DEF Begin, Evidence
  <1>5. CASE Spawn BY <1>0, <1>5 DEF Spawn, SetVal, Worked, Ids, WorkerKnows
  <1>6. CASE Stops
    <2>1. w.do = "wait" /\ val[w.id].result = "pending" BY <1>0, <1>6 DEF Stops, WorkerKnows
    <2>2. CASE SetVal(w.id, [val[w.id] EXCEPT !.stop = TRUE])
      <3>1. val' = [val EXCEPT ![w.id] = [val[w.id] EXCEPT !.stop = TRUE]] BY <2>2 DEF SetVal
      <3>2. Worked(val[w.id], [val[w.id] EXCEPT !.stop = TRUE]) BY <2>1 DEF Worked
      <3> QED BY <1>0, <2>1, <3>1, <3>2 DEF Ids
    <2>3. CASE Lose(val[w.id]) BY <1>0, <2>1, <2>3, LostAsIs
    <2> QED BY <1>6, <2>2, <2>3 DEF Stops
  <1>7. CASE Collect
    <2>1. w.do = "wait" /\ val[w.id].result = "pending" BY <1>0, <1>7 DEF Collect, WorkerKnows
    <2>2. UNCHANGED val \/ Lose(val[w.id]) BY <1>7 DEF Collect, Evidence
    <2> QED BY <1>0, <1>1, <2>1, <2>2, LostAsIs
  <1>8. CASE RecordStep
    <2>1. PICK s \in w.left : UNCHANGED val \/ SetVal(w.id, [val[w.id] EXCEPT !.saved = @ \cup {s}])
      BY <1>8 DEF RecordStep
    <2>2. w.do = "record" /\ val[w.id].result = "pending" BY <1>0, <1>8 DEF RecordStep, WorkerKnows
    <2> QED BY <1>0, <1>1, <2>1, <2>2 DEF SetVal, Worked, Ids
  <1>9. CASE Finish
    <2>1. w.do = "record" /\ val[w.id].result = "pending" BY <1>0, <1>9 DEF Finish, WorkerKnows
    <2> QED BY <1>0, <1>9, <2>1 DEF Finish, SetVal, Worked, Decided, Ids
  <1>10. CASE Finishes
    <2>1. PICK id \in Ids :
             /\ val[id].alive
             /\ \/ \E out \in [Steps -> Results] : SetVal(id, [val[id] EXCEPT !.file = "done", !.alive = FALSE, !.out = out])
                \/ SetVal(id, [val[id] EXCEPT !.alive = FALSE])
      BY <1>10 DEF Finishes, Ids
    <2> QED BY <2>1 DEF SetVal, Ran, Ids
  <1>11. CASE Crash BY <1>11 DEF Crash, Ran, Ids
  <1> QED BY <1>1, <1>2, <1>3, <1>4, <1>5, <1>6, <1>7, <1>8, <1>9, <1>10, <1>11, ValWrites

\* and so every row stays sound, and what was decided stays decided
LEMMA RowsStaySound ==
  ASSUME IInv, Next
  PROVE  /\ \A id \in Ids' : id \in Names /\ SoundRow(val'[id])
         /\ \A id \in Ids : val[id].result # "pending" => val'[id].result = val[id].result
         /\ \A id \in Ids : val[id].result = "pending" /\ val'[id].result # "pending" =>
               id = w.id /\ Worked(val[id], val'[id])
  <1>0. /\ TypeVal /\ Executions /\ SucceededIsProven /\ TypeWorker /\ WorkerKnows
        /\ Results \subseteq Diagnoses
    BY DEF IInv, Types, TypeRest, CaseRecs, Results
  <1>1. \A id \in Ids : id \in Names /\ SoundRow(val[id]) BY <1>0, SoundIs
  <1>2. ASSUME NEW id \in Ids
        PROVE  /\ id \in Names /\ SoundRow(val'[id])
               /\ val[id].result # "pending" => val'[id].result = val[id].result
               /\ val[id].result = "pending" /\ val'[id].result # "pending" =>
                     id = w.id /\ Worked(val[id], val'[id])
    <2>1. CASE val'[id] = val[id] BY <1>1, <2>1
    <2>2. CASE Ran(val[id], val'[id]) BY <1>0, <1>1, <2>2, RanIsSound
    <2>3. CASE id = w.id /\ val[id].result = "pending" /\ Worked(val[id], val'[id])
      <3>1. /\ w.left \subseteq Steps
            /\ w.do = "spawn" => val[id].starts = 0 /\ val[id].stage = "validation"
            /\ w.do = "record" => val[id].file = "done" /\ ~val[id].stop
            /\ w.do = "record" /\ w.id \notin invalidated => Steps \subseteq val[id].saved \cup w.left
        BY <1>0, <2>3 DEF TypeWorker, WorkerKnows
      <3>2. SoundRow(val'[id]) BY <1>1, <2>3, <3>1, WorkedIsSound
      <3> QED BY <1>1, <2>3, <3>2
    <2> QED BY <2>1, <2>2, <2>3, ValMoves
  <1>3. ASSUME NEW id \in Ids' \ Ids PROVE id \in Names /\ SoundRow(val'[id])
    BY <1>3, ValMoves, NewIsSound
  <1> QED BY <1>2, <1>3

LEMMA RowParts ==
  ASSUME IInv, Next
  PROVE  TypeVal' /\ Executions' /\ SucceededIsProven'
  <1>1. Steps' = Steps BY CaseStays DEF IInv, Types, TypeRest
  <1>2. \A id \in Ids' : id \in Names /\ SoundRow(val'[id]) BY RowsStaySound
  <1>3. Ids' = DOMAIN val' BY DEF Ids
  <1>4. TypeVal' BY <1>1, <1>2, <1>3 DEF TypeVal, SoundRow, ValRecs, Ids
  <1>5. Executions' BY <1>1, <1>2, <1>3 DEF Executions, SoundRow, Ids
  <1>6. SucceededIsProven' BY <1>1, <1>2, <1>3 DEF SucceededIsProven, SoundRow, Ids
  <1> QED BY <1>4, <1>5, <1>6

\* an interruption is never taken back
LEMMA HooksGrow ==
  ASSUME IInv, Next
  PROVE  Hooks' /\ invalidated \subseteq invalidated'
  <1>0. Hooks /\ Ids \subseteq Ids' /\ (w.do # "idle" => w.id \in Ids) BY ValMoves DEF IInv, Linked
  <1>1. CASE UNCHANGED hook BY <1>0, <1>1 DEF hook, Hooks
  <1>2. CASE Prepare
    <2>1. /\ UNCHANGED invalidated /\ w.do = "prepare"
          /\ UNCHANGED frozen \/ frozen' = frozen \cup {w.id}
      BY <1>2 DEF Prepare
    <2> QED BY <1>0, <2>1 DEF Hooks
  <1>3. CASE Control
    <2>1. UNCHANGED frozen /\ (UNCHANGED invalidated \/ invalidated' = invalidated \cup frozen)
      BY <1>3 DEF Control, Interrupts
    <2> QED BY <1>0, <2>1 DEF Hooks
  <1> QED BY <1>1, <1>2, <1>3, HookWrites

\* what was interrupted while it was pending stays so, or is blocked
LEMMA InterruptedStays ==
  ASSUME IInv, Next, NEW id \in Ids, val[id].result = "pending", id \in invalidated
  PROVE  id \in invalidated' /\ val'[id].result \in {"pending", "blocked"}
  <1>1. id \in invalidated' BY HooksGrow
  <1>2. val[id] \in ValRecs BY DEF IInv, Types, TypeVal
  <1>3. CASE val'[id].result = "pending" BY <1>1, <1>3
  <1>4. CASE val'[id].result # "pending"
    <2>1. id = w.id /\ Worked(val[id], val'[id]) BY <1>4, RowsStaySound
    <2>2. ~Decided(val[id], val'[id]) BY <2>1 DEF Decided
    <2>3. val'[id].result = "blocked" BY <1>2, <1>4, <2>1, <2>2 DEF Worked, ValRecs
    <2> QED BY <1>1, <2>3
  <1> QED BY <1>3, <1>4

----------------------------------------------------------------------------
(* Runs. *)

LEMMA RunParts ==
  ASSUME IInv, Next
  PROVE  /\ TypeRun' /\ LastIsLive' /\ \A r \in DOMAIN run' : run'[r].cand \in DOMAIN run'
         /\ DOMAIN run \subseteq DOMAIN run' /\ Len(run') \in {Len(run), Len(run) + 1}
         /\ DOMAIN run' = 1..Len(run') /\ DOMAIN run = 1..Len(run) /\ Len(run) \in Nat
  <1>0. /\ run \in Seq(RunRecs) /\ DOMAIN run = 1..Len(run) /\ Len(run) \in Nat
        /\ \A r \in DOMAIN run : run[r].cand \in DOMAIN run /\ run[r] \in RunRecs
        /\ \A r \in DOMAIN run : run[r].state = "live" => r = Len(run)
    BY DomainOf DEF IInv, Types, TypeRun, Linked, LastIsLive
  <1>1. CASE UNCHANGED run BY <1>0, <1>1 DEF TypeRun, LastIsLive
  <1>2. ASSUME NEW o \in DOMAIN res, ~Live,
               run' = Append(run, [state |-> "live", cand |-> Cand(res[o].id)])
        PROVE  run' \in Seq(RunRecs) /\ LastIsLive' /\ (\A r \in DOMAIN run' : run'[r].cand \in DOMAIN run')
               /\ Len(run') = Len(run) + 1
    <2>1. Cand(res[o].id) \in DOMAIN run BY <1>0 DEF IInv, Linked, Cand
    <2>2. [state |-> "live", cand |-> Cand(res[o].id)] \in RunRecs BY <1>0, <2>1 DEF RunRecs
    <2>3. /\ run' \in Seq(RunRecs) /\ Len(run') = Len(run) + 1 /\ \A r \in DOMAIN run : run'[r] = run[r]
          /\ run'[Len(run) + 1] = [state |-> "live", cand |-> Cand(res[o].id)]
      BY <1>0, <1>2, <2>2, AddedAt
    <2>4. DOMAIN run' = 1..(Len(run) + 1) BY <2>3, DomainOf
    <2>5. LastIsLive' BY <1>0, <1>2, <2>3, <2>4 DEF LastIsLive, Live
    <2>6. \A r \in DOMAIN run' : run'[r].cand \in DOMAIN run' BY <1>0, <2>1, <2>3, <2>4
    <2> QED BY <2>3, <2>5, <2>6
  <1>3. ASSUME NEW r \in DOMAIN run, NEW s \in {"done", "failed", "paused"}, NEW c \in DOMAIN run,
               NEW new, new = [run EXCEPT ![r] = [state |-> s, cand |-> c]]
        PROVE  /\ new \in Seq(RunRecs) /\ Len(new) = Len(run)
               /\ \A q \in DOMAIN run : new[q].cand \in DOMAIN run
               /\ \A q \in DOMAIN run : new[q].state = "live" => run[q].state = "live" /\ q # r
    <2>1. [state |-> s, cand |-> c] \in RunRecs BY <1>0 DEF RunRecs
    <2>2. /\ new \in Seq(RunRecs) /\ Len(new) = Len(run)
          /\ \A q \in DOMAIN run : new[q] = IF q = r THEN [state |-> s, cand |-> c] ELSE run[q]
      BY <1>0, <1>3, <2>1, ReplacedAt
    <2> QED BY <1>0, <2>2
  <1>4. CASE RunEnds
    <2>1. PICK r \in DOMAIN run, s \in {"done", "failed"}, n \in BOOLEAN :
             run' = [run EXCEPT ![r] = [state |-> s, cand |-> IF n THEN r ELSE @.cand]]
      BY <1>4 DEF RunEnds
    <2>2. PICK c \in DOMAIN run : c = IF n THEN r ELSE run[r].cand BY <1>0
    <2>3. run' = [run EXCEPT ![r] = [state |-> s, cand |-> c]] BY <2>1, <2>2
    <2>4. /\ run' \in Seq(RunRecs) /\ Len(run') = Len(run) /\ DOMAIN run' = 1..Len(run)
          /\ \A q \in DOMAIN run : run'[q].cand \in DOMAIN run
          /\ \A q \in DOMAIN run : run'[q].state = "live" => run[q].state = "live"
      BY <1>0, <1>3, <2>3, DomainOf
    <2> QED BY <1>0, <2>4 DEF TypeRun, LastIsLive
  <1>5. CASE Resume
    <2>1. PICK r \in DOMAIN run :
             /\ run[r].state = "live"
             /\ run' = Append([run EXCEPT ![r].state = "paused"], [state |-> "live", cand |-> run[r].cand])
      BY <1>5 DEF Resume
    <2>2. PICK c \in DOMAIN run : c = run[r].cand BY <1>0
    <2>3. [run EXCEPT ![r].state = "paused"] = [run EXCEPT ![r] = [state |-> "paused", cand |-> c]]
      <3>1. [run[r] EXCEPT !.state = "paused"] = [state |-> "paused", cand |-> c]
        BY <1>0, <2>2 DEF RunRecs
      <3> QED BY <3>1
    <2>4. PICK old : old = [run EXCEPT ![r] = [state |-> "paused", cand |-> c]] OBVIOUS
    <2>5. /\ old \in Seq(RunRecs) /\ Len(old) = Len(run) /\ DOMAIN old = DOMAIN run
          /\ \A q \in DOMAIN run : old[q].cand \in DOMAIN run
          /\ \A q \in DOMAIN run : old[q].state # "live"
      BY <1>0, <1>3, <2>1, <2>4, DomainOf
    <2>6. [state |-> "live", cand |-> c] \in RunRecs BY <1>0 DEF RunRecs
    <2>7. /\ run' = Append(old, [state |-> "live", cand |-> c])
          /\ run' \in Seq(RunRecs) /\ Len(run') = Len(run) + 1 /\ \A q \in DOMAIN run : run'[q] = old[q]
          /\ run'[Len(run) + 1] = [state |-> "live", cand |-> c]
      BY <2>1, <2>2, <2>3, <2>4, <2>5, <2>6, AddedAt
    <2>8. DOMAIN run' = 1..(Len(run) + 1) BY <2>7, DomainOf
    <2>9. LastIsLive' BY <1>0, <2>5, <2>7, <2>8 DEF LastIsLive
    <2>10. \A q \in DOMAIN run' : run'[q].cand \in DOMAIN run' BY <1>0, <2>5, <2>7, <2>8
    <2>11. DOMAIN run \subseteq DOMAIN run' /\ Len(run') = Len(run) + 1 /\ DOMAIN run' = 1..Len(run')
      BY <1>0, <2>7, <2>8
    <2>12. TypeRun' BY <2>7 DEF TypeRun
    <2> QED BY <1>0, <2>9, <2>10, <2>11, <2>12
  <1>6. CASE Bind
    <2>1. PICK o \in DOMAIN res : ~Live /\ run' = Append(run, [state |-> "live", cand |-> Cand(res[o].id)])
      BY <1>6 DEF Bind
    <2>2. run' \in Seq(RunRecs) /\ DOMAIN run' = 1..(Len(run) + 1) /\ Len(run') = Len(run) + 1
      BY <1>0, <1>2, <2>1, DomainOf
    <2> QED BY <1>0, <1>2, <2>1, <2>2 DEF TypeRun
  <1> QED BY <1>1, <1>4, <1>5, <1>6, RunWrites

----------------------------------------------------------------------------
(* Repairs. *)

\* a repair is reserved for a clear code failure while none is active
Reserves(e) ==
    /\ e \in DOMAIN fail /\ fail[e].decision = "code" /\ ~Unclear(fail[e].id)
    /\ w = Idle /\ Active = {} /\ Len(res) < Limit /\ CommitReservation(e)
    /\ UNCHANGED <<run, val, retry, w, left, hook>>
\* how the row a becomes the row b
Passed(a, b) ==
    /\ b \in ResRecs /\ b.id = a.id /\ b.e = a.e /\ b.run \in 0..Len(run')
    /\ b.status \in {"reserved", "started"} => a.status \in {"reserved", "started"}
    /\ b.status = "reserved" => a.status = "reserved" /\ b.run = a.run

LEMMA SettledIs ==
  ASSUME NEW s \in {"reserved", "started", "succeeded", "failed"}, NEW result
  PROVE  /\ Settled(s, result) \in {"reserved", "succeeded", "failed"}
         /\ Settled(s, result) = "reserved" <=> s = "reserved"
         /\ Settled(s, result) = "succeeded" <=> s = "succeeded" \/ (result = "succeeded" /\ s # "reserved")
  BY DEF Settled

LEMMA PassedIs ==
  ASSUME NEW a \in ResRecs, Len(run') \in Nat, a.run \in 0..Len(run')
  PROVE  /\ Passed(a, a)
         /\ \A s \in {"succeeded", "failed"} : Passed(a, [a EXCEPT !.status = s])
         /\ \A n \in Nat : Passed(a, [a EXCEPT !.inc = n])
         /\ \A n \in 0..Len(run') : a.status = "started" => Passed(a, [a EXCEPT !.run = n])
         /\ \A n \in 0..Len(run') : a.status = "reserved" => Passed(a, [a EXCEPT !.run = n, !.status = "started"])
  <1>1. a.e \in Nat /\ a.id \in Names /\ a.inc \in Nat /\ a.run \in Nat
        /\ a.status \in {"reserved", "started", "succeeded", "failed"}
    BY DEF ResRecs
  <1>2. Passed(a, a) BY DEF Passed
  <1>3. ASSUME NEW s \in {"succeeded", "failed"} PROVE Passed(a, [a EXCEPT !.status = s])
    <2>1. [a EXCEPT !.status = s] \in ResRecs BY DEF ResRecs
    <2>2. PICK b : b = [a EXCEPT !.status = s] OBVIOUS
    <2>3. b.id = a.id /\ b.e = a.e /\ b.run = a.run /\ b.status = s BY <2>2 DEF ResRecs
    <2>4. Passed(a, b) BY <2>1, <2>2, <2>3 DEF Passed
    <2> QED BY <2>2, <2>4
  <1>4. ASSUME NEW n \in Nat PROVE Passed(a, [a EXCEPT !.inc = n])
    <2>1. [a EXCEPT !.inc = n] \in ResRecs BY DEF ResRecs
    <2>2. PICK b : b = [a EXCEPT !.inc = n] OBVIOUS
    <2>3. b.id = a.id /\ b.e = a.e /\ b.run = a.run /\ b.status = a.status BY <2>2 DEF ResRecs
    <2>4. Passed(a, b) BY <2>1, <2>2, <2>3 DEF Passed
    <2> QED BY <2>2, <2>4
  <1>5. ASSUME NEW n \in 0..Len(run'), a.status = "started" PROVE Passed(a, [a EXCEPT !.run = n])
    <2>1. [a EXCEPT !.run = n] \in ResRecs BY DEF ResRecs
    <2>2. PICK b : b = [a EXCEPT !.run = n] OBVIOUS
    <2>3. b.id = a.id /\ b.e = a.e /\ b.run = n /\ b.status = a.status BY <2>2 DEF ResRecs
    <2>4. Passed(a, b) BY <1>5, <2>1, <2>2, <2>3 DEF Passed
    <2> QED BY <2>2, <2>4
  <1>6. ASSUME NEW n \in 0..Len(run'), a.status = "reserved"
        PROVE  Passed(a, [a EXCEPT !.run = n, !.status = "started"])
    <2>1. [a EXCEPT !.run = n, !.status = "started"] \in ResRecs
      <3>1. PICK c : c = [a EXCEPT !.run = n] OBVIOUS
      <3>2. c \in ResRecs BY <3>1 DEF ResRecs
      <3>3. [c EXCEPT !.status = "started"] \in ResRecs BY <3>2 DEF ResRecs
      <3>4. [a EXCEPT !.run = n, !.status = "started"] = [c EXCEPT !.status = "started"] BY <3>1
      <3> QED BY <3>3, <3>4
    <2>2. PICK b : b = [a EXCEPT !.run = n, !.status = "started"] OBVIOUS
    <2>3. b.id = a.id /\ b.e = a.e /\ b.run = n /\ b.status = "started" BY <2>2 DEF ResRecs
    <2>4. Passed(a, b) BY <1>6, <2>1, <2>2, <2>3 DEF Passed
    <2> QED BY <2>2, <2>4
  <1> QED BY <1>2, <1>3, <1>4, <1>5, <1>6

LEMMA RepairsPass ==
  ASSUME IInv, Next
  PROVE  /\ TypeRes' /\ \A o \in DOMAIN res : o \in DOMAIN res' /\ Passed(res[o], res'[o])
         /\ \/ DOMAIN res' = DOMAIN res /\ Len(res') = Len(res)
            \/ \E e \in DOMAIN fail : Reserves(e)
  <1>0. /\ res \in Seq(ResRecs) /\ DOMAIN res = 1..Len(res) /\ Len(res) \in Nat
        /\ \A o \in DOMAIN res : res[o] \in ResRecs /\ res[o].run \in 0..Len(run)
    BY DomainOf DEF IInv, Types, TypeRes, Linked
  <1>1. Len(run) \in Nat /\ Len(run') \in {Len(run), Len(run) + 1} BY RunParts
  <1>2. \A o \in DOMAIN res : /\ Passed(res[o], res[o])
                              /\ \A s \in {"succeeded", "failed"} : Passed(res[o], [res[o] EXCEPT !.status = s])
    <2> SUFFICES ASSUME NEW o \in DOMAIN res
                 PROVE  /\ Passed(res[o], res[o])
                        /\ \A s \in {"succeeded", "failed"} : Passed(res[o], [res[o] EXCEPT !.status = s])
      OBVIOUS
    <2>1. res[o].run \in 0..Len(run') /\ res[o] \in ResRecs /\ Len(run') \in Nat BY <1>0, <1>1
    <2> QED BY <2>1, PassedIs
  <1>3. CASE UNCHANGED res BY <1>0, <1>2, <1>3 DEF TypeRes
  <1>4. ASSUME res' = [o \in DOMAIN res |-> res'[o]], \A o \in DOMAIN res : Passed(res[o], res'[o])
        PROVE  /\ TypeRes' /\ \A o \in DOMAIN res : o \in DOMAIN res' /\ Passed(res[o], res'[o])
               /\ DOMAIN res' = DOMAIN res /\ Len(res') = Len(res)
    <2>1. \A o \in DOMAIN res : res'[o] \in ResRecs BY <1>4 DEF Passed
    <2>2. res' \in Seq(ResRecs) /\ Len(res') = Len(res) /\ DOMAIN res' = DOMAIN res
      BY <1>0, <1>4, <2>1, MappedTo
    <2> QED BY <1>4, <2>2 DEF TypeRes
  <1>5. CASE NoProgress
    <2>1. PICK r \in DOMAIN run :
             res' = [o \in DOMAIN res |-> IF o \in Repairs(r) THEN [res[o] EXCEPT !.status = "failed"] ELSE res[o]]
      BY <1>5 DEF NoProgress
    <2>2. \A o \in DOMAIN res : res'[o] = res[o] \/ res'[o] = [res[o] EXCEPT !.status = "failed"] BY <2>1
    <2>3. res' = [o \in DOMAIN res |-> res'[o]] BY <2>1
    <2>4. \A o \in DOMAIN res : Passed(res[o], res'[o]) BY <1>2, <2>2
    <2> QED BY <1>4, <2>3, <2>4
  <1>6. CASE Finish
    <2>1. PICK result : res' = [o \in DOMAIN res |-> IF o \in Repairs(Source(w.id))
                                  THEN [res[o] EXCEPT !.status = Settled(@, result)] ELSE res[o]]
      BY <1>6 DEF Finish
    <2>2. res' = [o \in DOMAIN res |-> res'[o]] BY <2>1
    <2>3. ASSUME NEW o \in DOMAIN res PROVE Passed(res[o], res'[o])
      <3>1. CASE res'[o] = res[o] BY <1>2, <3>1
      <3>2. CASE res'[o] = [res[o] EXCEPT !.status = Settled(@, result)]
        <4>1. res[o].status \in {"reserved", "started", "succeeded", "failed"} /\ res[o] \in ResRecs
          BY <1>0 DEF ResRecs
        <4>2. PICK s \in {"reserved", "succeeded", "failed"} : s = Settled(res[o].status, result)
          BY <4>1, SettledIs
        <4>3. res'[o] = [res[o] EXCEPT !.status = s] BY <3>2, <4>2
        <4>4. CASE s = "reserved"
          <5>1. res[o].status = "reserved" BY <4>1, <4>2, <4>4, SettledIs
          <5>2. res'[o] = res[o] BY <4>1, <4>3, <4>4, <5>1 DEF ResRecs
          <5> QED BY <1>2, <5>2
        <4> QED BY <1>2, <4>3, <4>4
      <3> QED BY <2>1, <3>1, <3>2
    <2> QED BY <1>4, <2>2, <2>3
  <1>7. CASE Reserve
    <2>1. CASE UNCHANGED res BY <1>3, <2>1
    <2>2. ASSUME NEW e \in DOMAIN fail, Turn, FirstCode(e), Active = {}, ~Unclear(fail[e].id), Len(res) < Limit,
                 CommitReservation(e), UNCHANGED <<run, val, retry, w, left, hook>>
          PROVE  /\ TypeRes' /\ Reserves(e) /\ \A o \in DOMAIN res : o \in DOMAIN res' /\ res'[o] = res[o]
      <3>1. Reserves(e) BY <2>2 DEF Reserves, FirstCode, Codes, Turn
      <3>2. /\ fail[e].id \in Names /\ e \in Nat /\ req.inc \in Nat
        <4>1. fail[e] \in FailRecs /\ e \in Nat BY DomainOf DEF IInv, Types, TypeFail
        <4>2. req \in ReqRecs BY DEF IInv, Types, TypeRest
        <4> QED BY <4>1, <4>2 DEF FailRecs, ReqRecs
      <3>3. [e |-> e, id |-> fail[e].id, status |-> "reserved", inc |-> req.inc, run |-> 0] \in ResRecs
        BY <3>2 DEF ResRecs
      <3>4. res' \in Seq(ResRecs) /\ Len(res') = Len(res) + 1 /\ \A o \in DOMAIN res : res'[o] = res[o]
        BY <1>0, <2>2, <3>3, AddedAt DEF CommitReservation
      <3>5. DOMAIN res' = 1..(Len(res) + 1) BY <3>4, DomainOf
      <3> QED BY <1>0, <3>1, <3>4, <3>5 DEF TypeRes
    <2>3. UNCHANGED res \/ \E e \in DOMAIN fail :
             /\ Turn /\ FirstCode(e) /\ Active = {} /\ ~Unclear(fail[e].id) /\ Len(res) < Limit
             /\ CommitReservation(e) /\ UNCHANGED <<run, val, retry, w, left, hook>>
      BY <1>7 DEF Reserve, Exhaust
    <2> QED BY <1>2, <2>1, <2>2, <2>3
  <1>8. CASE Replace
    <2>1. PICK o \in DOMAIN res : res' = [res EXCEPT ![o].inc = req.inc] BY <1>8 DEF Replace
    <2>2. req.inc \in Nat BY DEF IInv, Types, TypeRest, ReqRecs
    <2>3. res' = [p \in DOMAIN res |-> res'[p]] BY <1>0, <2>1
    <2>4. \A p \in DOMAIN res : res'[p] = res[p] \/ res'[p] = [res[p] EXCEPT !.inc = req.inc] BY <2>1
    <2>5. \A p \in DOMAIN res : Passed(res[p], [res[p] EXCEPT !.inc = req.inc])
      <3> SUFFICES ASSUME NEW p \in DOMAIN res PROVE Passed(res[p], [res[p] EXCEPT !.inc = req.inc])
        OBVIOUS
      <3>1. res[p].run \in 0..Len(run') /\ res[p] \in ResRecs /\ Len(run') \in Nat BY <1>0, <1>1
      <3> QED BY <2>2, <3>1, PassedIs
    <2>6. \A p \in DOMAIN res : Passed(res[p], res'[p]) BY <1>2, <2>4, <2>5
    <2> QED BY <1>4, <2>3, <2>6
  <1>9. CASE Bind
    <2>1. PICK o \in DOMAIN res :
             /\ res[o].status = "reserved"
             /\ res' = [res EXCEPT ![o].run = Len(run) + 1, ![o].status = "started"]
      BY <1>9 DEF Bind
    <2>2. Len(run') = Len(run) + 1 BY DomainOf, <1>9 DEF Bind, IInv, Types, TypeRun
    <2>3. res' = [p \in DOMAIN res |-> res'[p]] BY <1>0, <2>1
    <2>4. \A p \in DOMAIN res : res'[p] = IF p = o THEN [res[p] EXCEPT !.run = Len(run) + 1, !.status = "started"] ELSE res[p]
      BY <2>1
    <2>5. Passed(res[o], [res[o] EXCEPT !.run = Len(run) + 1, !.status = "started"])
      <3>1. /\ res[o].run \in 0..Len(run') /\ Len(run) + 1 \in 0..Len(run') /\ Len(run') \in Nat
            /\ res[o] \in ResRecs
        BY <1>0, <1>1, <2>2
      <3> QED BY <2>1, <3>1, PassedIs
    <2>6. \A p \in DOMAIN res : Passed(res[p], res'[p]) BY <1>2, <2>4, <2>5
    <2> QED BY <1>4, <2>3, <2>6
  <1>10. CASE Resume
    <2>1. PICK r \in DOMAIN run :
             /\ res' = [o \in DOMAIN res |-> IF o \in Repairs(r) /\ res[o].status = "started"
                                             THEN [res[o] EXCEPT !.run = Len(run) + 1] ELSE res[o]]
             /\ run' = Append([run EXCEPT ![r].state = "paused"], [state |-> "live", cand |-> run[r].cand])
      BY <1>10 DEF Resume
    <2>2. Len(run') = Len(run) + 1 BY <2>1 DEF IInv, Types, TypeRun
    <2>3. res' = [p \in DOMAIN res |-> res'[p]] BY <2>1
    <2>4. \A p \in DOMAIN res : \/ res'[p] = res[p]
                                \/ res[p].status = "started" /\ res'[p] = [res[p] EXCEPT !.run = Len(run) + 1]
      BY <2>1
    <2>5. \A p \in DOMAIN res : res[p].status = "started" => Passed(res[p], [res[p] EXCEPT !.run = Len(run) + 1])
      <3> SUFFICES ASSUME NEW p \in DOMAIN res, res[p].status = "started"
                   PROVE  Passed(res[p], [res[p] EXCEPT !.run = Len(run) + 1])
        OBVIOUS
      <3>1. /\ res[p].run \in 0..Len(run') /\ Len(run) + 1 \in 0..Len(run') /\ Len(run') \in Nat
            /\ res[p] \in ResRecs
        BY <1>0, <1>1, <2>2
      <3> QED BY <3>1, PassedIs
    <2>6. \A p \in DOMAIN res : Passed(res[p], res'[p]) BY <1>2, <2>4, <2>5
    <2> QED BY <1>4, <2>3, <2>6
  <1> QED BY <1>3, <1>4, <1>5, <1>6, <1>7, <1>8, <1>9, <1>10, ResWrites

LEMMA ReserveAdds ==
  ASSUME IInv, NEW e \in DOMAIN fail, Reserves(e)
  PROVE  /\ Len(res) \in Nat /\ DOMAIN res = 1..Len(res) /\ DOMAIN res' = 1..(Len(res) + 1)
         /\ Len(res') = Len(res) + 1
         /\ \A o \in DOMAIN res : res'[o] = res[o]
         /\ res'[Len(res) + 1].id = fail[e].id /\ res'[Len(res) + 1].status = "reserved"
         /\ res'[Len(res) + 1].run = 0 /\ res'[Len(res) + 1].e = e
         /\ fail[e].id \in Ids /\ e \in Nat
  <1>0. /\ res \in Seq(ResRecs) /\ Len(res) \in Nat /\ DOMAIN res = 1..Len(res)
        /\ fail[e].id \in Ids /\ fail[e].id \in Names
    BY DomainOf DEF IInv, Types, TypeRes, Linked, TypeVal
  <1>1. e \in Nat /\ req.inc \in Nat
    <2>1. e \in Nat BY DomainOf DEF IInv, Types, TypeFail
    <2>2. req \in ReqRecs BY DEF IInv, Types, TypeRest
    <2> QED BY <2>1, <2>2 DEF ReqRecs
  <1>2. PICK row : row = [e |-> e, id |-> fail[e].id, status |-> "reserved", inc |-> req.inc, run |-> 0]
    OBVIOUS
  <1>3. row \in ResRecs BY <1>0, <1>1, <1>2 DEF ResRecs
  <1>4. res' = Append(res, row) BY <1>2 DEF Reserves, CommitReservation
  <1>5. /\ Len(res') = Len(res) + 1 /\ \A o \in DOMAIN res : res'[o] = res[o]
        /\ res'[Len(res) + 1] = row /\ res' \in Seq(ResRecs)
    BY <1>0, <1>3, <1>4, AddedAt
  <1>6. DOMAIN res' = 1..(Len(res) + 1) BY <1>5, DomainOf
  <1> QED BY <1>0, <1>1, <1>2, <1>5, <1>6

\* what Charged and Linked say of repairs
Repaired ==
    /\ \A o \in DOMAIN res : res[o].id \in Ids /\ res[o].run \in 0..Len(run)
    /\ \A o \in DOMAIN res : val[res[o].id].result # "pending"
    /\ \A o \in DOMAIN res : res[o].status = "reserved" => res[o].run = 0
    /\ \A o, p \in Active : o = p
    /\ Len(res) <= Limit

LEMMA RepairsKept == ASSUME IInv, Next PROVE Repaired' /\ OneRepairPerFailure' /\ Active' \cap DOMAIN res \subseteq Active
  <1>0. /\ Repaired /\ OneRepairPerFailure /\ Limit' = Limit
        /\ \A o \in DOMAIN res : res[o] \in ResRecs
    BY CaseStays, DomainOf DEF IInv, Linked, Charged, Repaired, Types, TypeRest, TypeRes
  <1>1. /\ \A o \in DOMAIN res : o \in DOMAIN res' /\ Passed(res[o], res'[o])
        /\ Ids \subseteq Ids' /\ \A id \in Ids : val[id].result # "pending" => val'[id].result = val[id].result
        /\ Len(run) \in Nat /\ Len(run') \in {Len(run), Len(run) + 1}
    BY RepairsPass, ValMoves, RowsStaySound, RunParts
  <1>2. \A o \in DOMAIN res :
          /\ res'[o].id = res[o].id /\ res'[o].id \in Ids' /\ res'[o].run \in 0..Len(run')
          /\ val'[res'[o].id].result # "pending"
          /\ res'[o].status = "reserved" => res'[o].run = 0
          /\ res'[o].status \in {"reserved", "started"} => res[o].status \in {"reserved", "started"}
    BY <1>0, <1>1 DEF Passed, Repaired
  <1>3. Active' \cap DOMAIN res \subseteq Active BY <1>2 DEF Active
  <1>4. CASE DOMAIN res' = DOMAIN res /\ Len(res') = Len(res)
    <2>1. Active' \subseteq Active BY <1>3, <1>4 DEF Active
    <2>2. Repaired' BY <1>0, <1>2, <1>4, <2>1 DEF Repaired
    <2>3. OneRepairPerFailure' BY <1>0, <1>2, <1>4 DEF OneRepairPerFailure
    <2> QED BY <1>3, <2>2, <2>3
  <1>5. ASSUME NEW e \in DOMAIN fail, Reserves(e) PROVE Repaired' /\ OneRepairPerFailure'
    <2>1. PICK k \in Nat : k = Len(res) + 1 BY <1>5, ReserveAdds
    <2>2. /\ DOMAIN res = 1..(k - 1) /\ DOMAIN res' = 1..k /\ Len(res') = k /\ \A o \in DOMAIN res : res'[o] = res[o]
          /\ res'[k].id = fail[e].id /\ res'[k].status = "reserved" /\ res'[k].run = 0 /\ fail[e].id \in Ids
      BY <1>5, <2>1, ReserveAdds
    <2>3. /\ Active = {} /\ Len(res) < Limit /\ UNCHANGED <<run, val>> /\ fail[e].decision = "code"
      BY <1>5 DEF Reserves
    <2>4. Active' \subseteq {k} BY <2>2, <2>3 DEF Active
    <2>5. /\ val[fail[e].id].result # "pending" /\ \A o \in DOMAIN res : res[o].id # fail[e].id
      BY <2>3 DEF IInv, Charged
    <2>6. \A o \in DOMAIN res' : o \in DOMAIN res \/ o = k BY <2>2
    <2>7. Limit \in Nat BY DEF IInv, Types, TypeRest, CaseRecs, Limit
    <2>8. Len(res') <= Limit' BY <1>0, <2>1, <2>2, <2>3, <2>7
    <2>9. \A o \in DOMAIN res' : /\ res'[o].id \in Ids' /\ res'[o].run \in 0..Len(run')
                                 /\ val'[res'[o].id].result # "pending"
                                 /\ res'[o].status = "reserved" => res'[o].run = 0
      <3> SUFFICES ASSUME NEW o \in DOMAIN res'
                   PROVE  /\ res'[o].id \in Ids' /\ res'[o].run \in 0..Len(run')
                          /\ val'[res'[o].id].result # "pending"
                          /\ res'[o].status = "reserved" => res'[o].run = 0
        OBVIOUS
      <3>1. CASE o \in DOMAIN res BY <1>2, <3>1
      <3>2. CASE o = k
        <4>1. 0 \in 0..Len(run') BY <1>1
        <4> QED BY <1>1, <2>2, <2>3, <2>5, <3>2, <4>1
      <3> QED BY <2>6, <3>1, <3>2
    <2>10. Repaired' BY <2>4, <2>8, <2>9 DEF Repaired
    <2>11. OneRepairPerFailure' BY <1>0, <2>2, <2>5, <2>6 DEF OneRepairPerFailure
    <2> QED BY <2>10, <2>11
  <1> QED BY <1>3, <1>4, <1>5, RepairsPass

\* a started repair stays with the newest Run
LEMMA CurrentKept == ASSUME IInv, Next PROVE StartedIsCurrent'
  <1>0. /\ StartedIsCurrent /\ \A o \in DOMAIN res : res[o] \in ResRecs
        /\ \A o, p \in Active : o = p
        /\ Len(run) \in Nat /\ DOMAIN res = 1..Len(res) /\ Len(res) \in Nat
        /\ LastIsLive
    BY DomainOf DEF IInv, Charged, Types, TypeRes, TypeRun
  <1>1. CASE UNCHANGED res
    <2>1. CASE UNCHANGED run BY <1>0, <1>1, <2>1 DEF StartedIsCurrent
    <2>2. CASE RunEnds
      <3>1. Len(run') = Len(run) BY <2>2 DEF RunEnds, IInv, Types, TypeRun
      <3> QED BY <1>0, <1>1, <3>1 DEF StartedIsCurrent
    <2>3. CASE Bind \/ Resume
      <3>1. \A o \in DOMAIN res : res[o].status # "started"
        <4>1. CASE Bind
          <5>1. PICK o \in DOMAIN res :
                  /\ res[o].status = "reserved"
                  /\ res' = [res EXCEPT ![o].run = Len(run) + 1, ![o].status = "started"]
            BY <4>1 DEF Bind
          <5>2. res'[o].status = "started" BY <1>0, <5>1 DEF ResRecs
          <5> QED BY <1>1, <5>1, <5>2
        <4>2. CASE Resume
          <5>1. PICK r \in DOMAIN run :
                  /\ run[r].state = "live"
                  /\ res' = [o \in DOMAIN res |-> IF o \in Repairs(r) /\ res[o].status = "started"
                                                  THEN [res[o] EXCEPT !.run = Len(run) + 1] ELSE res[o]]
            BY <4>2 DEF Resume
          <5>2. r = Len(run) BY <1>0, <5>1 DEF LastIsLive
          <5> SUFFICES ASSUME NEW o \in DOMAIN res, res[o].status = "started" PROVE FALSE
            OBVIOUS
          <5>3. o \in Repairs(r) BY <1>0, <5>2 DEF StartedIsCurrent, Repairs
          <5>4. res'[o].run = Len(run) + 1 BY <1>0, <5>1, <5>3 DEF ResRecs
          <5>5. res[o].run = Len(run) BY <1>0 DEF StartedIsCurrent
          <5> QED BY <1>0, <1>1, <5>4, <5>5
        <4> QED BY <2>3, <4>1, <4>2
      <3> QED BY <1>1, <3>1 DEF StartedIsCurrent
    <2> QED BY <2>1, <2>2, <2>3, RunWrites
  <1>2. CASE NoProgress
    <2>1. PICK r : res' = [o \in DOMAIN res |-> IF o \in Repairs(r) THEN [res[o] EXCEPT !.status = "failed"] ELSE res[o]]
      BY <1>2 DEF NoProgress
    <2>2. \A o \in DOMAIN res : res'[o].status = "started" => res'[o] = res[o] BY <1>0, <2>1 DEF ResRecs
    <2>3. DOMAIN res' = DOMAIN res /\ run' = run BY <1>2, <2>1 DEF NoProgress
    <2> QED BY <1>0, <2>2, <2>3 DEF StartedIsCurrent
  <1>3. CASE Finish
    <2>1. PICK result : res' = [o \in DOMAIN res |-> IF o \in Repairs(Source(w.id))
                                  THEN [res[o] EXCEPT !.status = Settled(@, result)] ELSE res[o]]
      BY <1>3 DEF Finish
    <2>2. ASSUME NEW o \in DOMAIN res, res'[o].status = "started" PROVE res'[o] = res[o]
      <3>1. res[o].status \in {"reserved", "started", "succeeded", "failed"} BY <1>0 DEF ResRecs
      <3>2. Settled(res[o].status, result) # "started" BY <3>1, SettledIs
      <3> QED BY <1>0, <2>1, <2>2, <3>2 DEF ResRecs
    <2>3. DOMAIN res' = DOMAIN res /\ run' = run BY <1>3, <2>1 DEF Finish
    <2> QED BY <1>0, <2>2, <2>3 DEF StartedIsCurrent
  <1>4. CASE Reserve
    <2>1. CASE DOMAIN res' = DOMAIN res /\ Len(res') = Len(res)
      <3>1. UNCHANGED res
        <4>1. UNCHANGED res \/ \E row : res' = Append(res, row) BY <1>4 DEF Reserve, Exhaust, CommitReservation
        <4>2. ASSUME NEW row, res' = Append(res, row) PROVE FALSE
          <5>1. Len(Append(res, row)) = Len(res) + 1 BY DEF IInv, Types, TypeRes
          <5>2. Len(res') = Len(Append(res, row)) BY <4>2, Zenon
          <5> QED BY <1>0, <2>1, <5>1, <5>2
        <4> QED BY <4>1, <4>2
      <3> QED BY <1>1, <3>1
    <2>2. ASSUME NEW e \in DOMAIN fail, Reserves(e) PROVE StartedIsCurrent'
      <3>1. run' = run BY <2>2 DEF Reserves
      <3> QED BY <1>0, <2>2, <3>1, ReserveAdds DEF StartedIsCurrent
    <2> QED BY <2>1, <2>2, RepairsPass
  <1>5. CASE Replace
    <2>1. PICK o \in DOMAIN res : res' = [res EXCEPT ![o].inc = req.inc] BY <1>5 DEF Replace
    <2>2. \A p \in DOMAIN res : res'[p].status = res[p].status /\ res'[p].run = res[p].run
      BY <1>0, <2>1 DEF ResRecs
    <2>3. DOMAIN res' = DOMAIN res /\ run' = run BY <1>5, <2>1 DEF Replace
    <2> QED BY <1>0, <2>2, <2>3 DEF StartedIsCurrent
  <1>6. CASE Bind
    <2>1. PICK o \in DOMAIN res :
            /\ res[o].status = "reserved"
            /\ res' = [res EXCEPT ![o].run = Len(run) + 1, ![o].status = "started"]
      BY <1>6 DEF Bind
    <2>2. Len(run') = Len(run) + 1 BY DomainOf, <1>6 DEF Bind, IInv, Types, TypeRun
    <2>3. res'[o].run = Len(run) + 1 BY <1>0, <2>1 DEF ResRecs
    <2>4. \A p \in DOMAIN res : p # o => res'[p] = res[p] /\ p \notin Active
      BY <1>0, <2>1 DEF Active
    <2>5. \A p \in DOMAIN res : p # o => res'[p].status # "started" BY <2>4 DEF Active
    <2>6. DOMAIN res' = DOMAIN res BY <2>1
    <2> QED BY <2>2, <2>3, <2>5, <2>6 DEF StartedIsCurrent
  <1>7. CASE Resume
    <2>1. PICK r \in DOMAIN run :
            /\ run[r].state = "live"
            /\ res' = [o \in DOMAIN res |-> IF o \in Repairs(r) /\ res[o].status = "started"
                                            THEN [res[o] EXCEPT !.run = Len(run) + 1] ELSE res[o]]
            /\ run' = Append([run EXCEPT ![r].state = "paused"], [state |-> "live", cand |-> run[r].cand])
      BY <1>7 DEF Resume
    <2>2. r = Len(run) BY <1>0, <2>1 DEF LastIsLive
    <2>3. Len(run') = Len(run) + 1 BY <2>1 DEF IInv, Types, TypeRun
    <2>4. ASSUME NEW o \in DOMAIN res, res'[o].status = "started" PROVE res'[o].run = Len(run) + 1
      <3>1. res[o].status = "started" BY <1>0, <2>1, <2>4 DEF ResRecs
      <3>2. o \in Repairs(r) BY <1>0, <2>2, <3>1 DEF StartedIsCurrent, Repairs
      <3> QED BY <1>0, <2>1, <3>1, <3>2 DEF ResRecs
    <2>5. DOMAIN res' = DOMAIN res BY <2>1
    <2> QED BY <2>3, <2>4, <2>5 DEF StartedIsCurrent
  <1> QED BY <1>1, <1>2, <1>3, <1>4, <1>5, <1>6, <1>7, ResWrites

----------------------------------------------------------------------------
(* Failures. *)

Unsettled == {"blocked", "infrastructure"}
\* how the row a becomes the row b
Judged(a, b) ==
    /\ b \in FailRecs /\ b.id = a.id
    /\ b.decision = "code" => a.decision = "code"
    /\ b.decision \in Unsettled => a.decision \in Unsettled \cup {"code"}
\* a row that a step adds: of a decided validation if it can be charged, and of one
\* without a repair unless it says that a repair made no progress
Found(f) ==
    /\ f \in FailRecs /\ f.id \in Ids
    /\ f.decision = "code" =>
          val[f.id].result # "pending" /\ UNCHANGED res /\ \A o \in DOMAIN res : res[o].id # f.id
    /\ \A o \in Active' : res'[o].id # f.id

LEMMA JudgedIs ==
  ASSUME NEW a \in FailRecs, NEW d \in Decisions,
         d = "code" => a.decision = "code", d \in Unsettled => a.decision \in Unsettled \cup {"code"}
  PROVE  Judged(a, a) /\ Judged(a, [a EXCEPT !.decision = d])
  <1>1. Judged(a, a) BY DEF Judged
  <1>2. PICK b : b = [a EXCEPT !.decision = d] OBVIOUS
  <1>3. b \in FailRecs BY <1>2 DEF FailRecs
  <1>4. b.id = a.id /\ b.decision = d BY <1>2 DEF FailRecs
  <1>5. Judged(a, b) BY <1>3, <1>4 DEF Judged
  <1> QED BY <1>1, <1>2, <1>5

LEMMA FailureIs ==
  ASSUME IInv, NEW id \in Ids, NEW s \in Steps \cup {"no-progress"}, NEW c \in Diagnoses \cup {"none"},
         NEW d \in Decisions
  PROVE  Failure(id, s, c, d) \in FailRecs /\ Failure(id, s, c, d).id = id
         /\ Failure(id, s, c, d).decision = d
  <1>1. /\ id \in Names /\ Cand(id) \in Nat
    <2>1. Source(id) \in DOMAIN run /\ id \in Names BY DEF IInv, Linked, Types, TypeVal
    <2>2. run[Source(id)].cand \in DOMAIN run /\ DOMAIN run = 1..Len(run)
      BY <2>1, DomainOf DEF IInv, Linked, Types, TypeRun
    <2> QED BY <2>1, <2>2 DEF Cand
  <1> QED BY <1>1 DEF Failure, FailRecs

LEMMA ClassifyIs == ASSUME NEW id, NEW s, NEW c
  PROVE  /\ Classify(id, s, c) \in {"blocked", "covered", "code", "infrastructure"}
         /\ Classify(id, s, c) = "code" =>
               val[id].result = "gate_failed" /\ \A o \in DOMAIN res : res[o].id # id
  <1>1. PICK b \in BOOLEAN : b = (\/ \E f \in DOMAIN fail : /\ fail[f].step = s /\ fail[f].cand = Cand(id) /\ fail[f].class = c
                                                            /\ fail[f].decision \in {"reserved", "code"}
                                  \/ \E o \in DOMAIN res : res[o].id = id)
    OBVIOUS
  <1>2. Classify(id, s, c) = IF val[id].result # "gate_failed" THEN "blocked"
            ELSE CASE c = "code" -> (IF b THEN "covered" ELSE "code")
                   [] c = "infrastructure" -> "infrastructure"
                   [] OTHER -> "blocked"
    BY <1>1 DEF Classify
  <1>3. CASE c = "code" BY <1>1, <1>2, <1>3
  <1>4. CASE c # "code"
    <2>1. (c = "infrastructure") \/ c # "infrastructure" OBVIOUS
    <2> QED BY <1>2, <1>4, <2>1
  <1> QED BY <1>3, <1>4

LEMMA FailuresPass ==
  ASSUME IInv, Next
  PROVE  /\ TypeFail' /\ Len(fail') \in {Len(fail), Len(fail) + 1} /\ Len(fail) \in Nat
         /\ \A f \in DOMAIN fail : f \in DOMAIN fail' /\ Judged(fail[f], fail'[f])
         /\ \A f \in DOMAIN fail' \ DOMAIN fail : Found(fail'[f])
         /\ \A e \in DOMAIN fail : Reserves(e) => Len(fail') = Len(fail)
  <1>0. /\ fail \in Seq(FailRecs) /\ DOMAIN fail = 1..Len(fail) /\ Len(fail) \in Nat
        /\ \A f \in DOMAIN fail : fail[f] \in FailRecs /\ fail[f].decision \in Decisions
        /\ Steps' = Steps
    <2>1. Steps' = Steps BY CaseStays DEF IInv, Types, TypeRest
    <2>2. fail \in Seq(FailRecs) BY DEF IInv, Types, TypeFail
    <2>3. \A r \in FailRecs : r.decision \in Decisions BY DEF FailRecs
    <2> QED BY <2>1, <2>2, <2>3, DomainOf
  <1>1. ASSUME fail' = [f \in DOMAIN fail |-> fail'[f]], \A f \in DOMAIN fail : Judged(fail[f], fail'[f])
        PROVE  /\ fail' \in Seq(FailRecs) /\ Len(fail') = Len(fail) /\ DOMAIN fail' = DOMAIN fail
               /\ \A f \in DOMAIN fail : f \in DOMAIN fail' /\ Judged(fail[f], fail'[f])
    <2>1. \A f \in DOMAIN fail : fail'[f] \in FailRecs BY <1>1 DEF Judged
    <2>2. fail' \in Seq(FailRecs) /\ Len(fail') = Len(fail) /\ DOMAIN fail' = DOMAIN fail
      BY <1>0, <1>1, <2>1, MappedTo
    <2> QED BY <1>1, <2>2
  <1>2. CASE UNCHANGED fail
    <2>1. \A f \in DOMAIN fail : Judged(fail[f], fail[f]) BY <1>0 DEF Judged
    <2>2. TypeFail' BY <1>0, <1>2 DEF TypeFail, FailRecs
    <2> QED BY <1>0, <1>2, <2>1, <2>2
  <1>3. CASE Expire
    <2>1. PICK e \in DOMAIN retry : fail' = [fail EXCEPT ![e].decision = IF @ = "infrastructure" THEN "blocked" ELSE @]
      BY <1>3 DEF Expire
    <2>2. fail' = [f \in DOMAIN fail |-> fail'[f]] BY <1>0, <2>1
    <2>3. ASSUME NEW f \in DOMAIN fail PROVE Judged(fail[f], fail'[f])
      <3>1. fail[f] \in FailRecs /\ fail[f].decision \in Decisions BY <1>0
      <3>2. PICK d \in Decisions : d = IF fail[f].decision = "infrastructure" THEN "blocked" ELSE fail[f].decision
        BY <3>1 DEF Decisions
      <3>3. fail'[f] = fail[f] \/ fail'[f] = [fail[f] EXCEPT !.decision = d] BY <2>1, <3>2
      <3>4. Judged(fail[f], fail[f]) /\ Judged(fail[f], [fail[f] EXCEPT !.decision = d])
        BY <3>1, <3>2, JudgedIs DEF Unsettled
      <3> QED BY <3>3, <3>4
    <2>4. /\ fail' \in Seq(FailRecs) /\ Len(fail') = Len(fail) /\ DOMAIN fail' = DOMAIN fail
          /\ \A f \in DOMAIN fail : f \in DOMAIN fail' /\ Judged(fail[f], fail'[f])
      BY <1>1, <2>2, <2>3
    <2> QED BY <1>0, <2>4 DEF TypeFail, FailRecs
  <1>4. CASE Complete
    <2>1. PICK d \in {"recovered", "reclassified", "infrastructure", "blocked"} :
             fail' = [f \in DOMAIN fail |-> IF fail[f].cand = fail[w.e].cand /\ fail[f].decision = "infrastructure"
                                            THEN [fail[f] EXCEPT !.decision = d] ELSE fail[f]]
      <3> DEFINE again == \E f \in DOMAIN fail : fail[f].id = w.id /\ fail[f].decision = "infrastructure"
                 verdict(t) == IF val[w.id].result = "succeeded" THEN "recovered"
                               ELSE IF ~again THEN "reclassified"
                               ELSE IF again /\ retry[w.e].attempts < Retries /\ t THEN "infrastructure" ELSE "blocked"
      <3>1. PICK t \in BOOLEAN :
               fail' = [f \in DOMAIN fail |->
                          IF fail[f].cand = fail[w.e].cand /\ fail[f].decision = "infrastructure"
                          THEN [fail[f] EXCEPT !.decision = verdict(t)] ELSE fail[f]]
        BY <1>4, Zenon DEF Complete
      <3>2. PICK d \in {"recovered", "reclassified", "infrastructure", "blocked"} : d = verdict(t) OBVIOUS
      <3> HIDE DEF verdict
      <3> QED BY <3>1, <3>2
    <2>2. fail' = [f \in DOMAIN fail |-> fail'[f]] BY <2>1
    <2>3. ASSUME NEW f \in DOMAIN fail PROVE Judged(fail[f], fail'[f])
      <3>1. fail[f] \in FailRecs /\ fail[f].decision \in Decisions BY <1>0
      <3>2. CASE fail'[f] = fail[f] BY <3>1, <3>2 DEF Judged
      <3>3. CASE fail[f].decision = "infrastructure" /\ fail'[f] = [fail[f] EXCEPT !.decision = d]
        BY <3>1, <3>3, JudgedIs, ZenonT(60) DEF Unsettled, Decisions
      <3> QED BY <2>1, <3>2, <3>3
    <2>4. /\ fail' \in Seq(FailRecs) /\ Len(fail') = Len(fail) /\ DOMAIN fail' = DOMAIN fail
          /\ \A f \in DOMAIN fail : f \in DOMAIN fail' /\ Judged(fail[f], fail'[f])
      BY <1>1, <2>2, <2>3
    <2> QED BY <1>0, <2>4 DEF TypeFail, FailRecs
  <1>5. CASE NoProgress
    <2>1. PICK r \in DOMAIN run, o \in DOMAIN res :
             /\ o \in Repairs(r)
             /\ fail' = Append(fail, Failure(res[o].id, "no-progress", "code", "blocked"))
             /\ res' = [p \in DOMAIN res |-> IF p \in Repairs(r) THEN [res[p] EXCEPT !.status = "failed"] ELSE res[p]]
      BY <1>5 DEF NoProgress, Repairs
    <2>2. o \in DOMAIN res /\ res[o].id \in Ids /\ res[o] \in ResRecs /\ val[res[o].id].result # "pending"
      BY <2>1, DomainOf DEF Repairs, IInv, Linked, Charged, Types, TypeRes
    <2>3. PICK row : row = Failure(res[o].id, "no-progress", "code", "blocked") OBVIOUS
    <2>4. row \in FailRecs /\ row.id = res[o].id /\ row.decision = "blocked"
      BY <2>2, <2>3, FailureIs DEF Diagnoses, Decisions
    <2>5. fail' = Append(fail, row) BY <2>1, <2>3, Zenon
    <2>6. /\ fail' \in Seq(FailRecs) /\ Len(fail') = Len(fail) + 1
          /\ \A f \in DOMAIN fail : fail'[f] = fail[f]
          /\ fail'[Len(fail) + 1] = row
      BY <1>0, <2>4, <2>5, AddedAt
    <2>7. DOMAIN fail' = 1..(Len(fail) + 1) BY <2>6, DomainOf
    <2>8. ASSUME NEW p \in Active' PROVE res'[p].id # row.id
      <3>1. /\ p \in DOMAIN res /\ res'[p].status \in {"reserved", "started"} BY <2>1 DEF Active
      <3>2. res[p] \in ResRecs BY <3>1, DomainOf DEF IInv, Types, TypeRes
      <3>3. CASE p \in Repairs(r)
        <4>1. res'[p].status = "failed" BY <2>1, <3>1, <3>2, <3>3 DEF ResRecs
        <4> QED BY <3>1, <4>1
      <3>4. CASE p \notin Repairs(r)
        <4>1. res'[p] = res[p] /\ p # o BY <2>1, <3>1, <3>4
        <4>2. res[p].id # res[o].id BY <2>2, <3>1, <4>1 DEF IInv, OneRepairPerFailure
        <4> QED BY <2>4, <4>1, <4>2
      <3> QED BY <3>3, <3>4
    <2>9. Found(row) BY <2>2, <2>4, <2>8 DEF Found
    <2>10. \A f \in DOMAIN fail : Judged(fail[f], fail'[f]) BY <1>0, <2>6 DEF Judged
    <2>11. \A f \in DOMAIN fail' \ DOMAIN fail : fail'[f] = row BY <1>0, <2>6, <2>7
    <2>12. TypeFail' BY <1>0, <2>6 DEF TypeFail, FailRecs
    <2>13. DOMAIN fail \subseteq DOMAIN fail' BY <1>0, <2>7
    <2>14. \A e \in DOMAIN fail : ~Reserves(e)
      <3> SUFFICES ASSUME NEW e \in DOMAIN fail, Reserves(e) PROVE FALSE
        OBVIOUS
      <3>1. /\ DOMAIN res' = 1..(Len(res) + 1) /\ DOMAIN res = 1..Len(res) /\ Len(res) \in Nat
        BY ReserveAdds
      <3>2. DOMAIN res' = DOMAIN res BY <2>1
      <3> QED BY <3>1, <3>2
    <2> QED BY <1>0, <2>6, <2>9, <2>10, <2>11, <2>12, <2>13, <2>14
  <1>6. CASE Finish
    <2>1. PICK T : fail' = [f \in DOMAIN fail |-> IF f \in T THEN [fail[f] EXCEPT !.decision = "repaired"] ELSE fail[f]]
      <3>1. PICK T \in SUBSET DOMAIN fail :
              T = {f \in DOMAIN fail : Outcome(val[w.id]) = "succeeded" /\ \E o \in Repairs(Source(w.id)) : res[o].e = f}
        OBVIOUS
      <3>2. fail' = [f \in DOMAIN fail |-> IF Outcome(val[w.id]) = "succeeded" /\ \E o \in Repairs(Source(w.id)) : res[o].e = f
                                           THEN [fail[f] EXCEPT !.decision = "repaired"] ELSE fail[f]]
        BY <1>6 DEF Finish
      <3>3. fail' = [f \in DOMAIN fail |-> IF f \in T THEN [fail[f] EXCEPT !.decision = "repaired"] ELSE fail[f]]
        BY <3>1, <3>2
      <3> QED BY <3>3
    <2>2. fail' = [f \in DOMAIN fail |-> fail'[f]] BY <2>1
    <2>3. ASSUME NEW f \in DOMAIN fail PROVE Judged(fail[f], fail'[f])
      <3>1. fail[f] \in FailRecs /\ fail[f].decision \in Decisions BY <1>0
      <3>2. fail'[f] = fail[f] \/ fail'[f] = [fail[f] EXCEPT !.decision = "repaired"] BY <2>1
      <3>3. Judged(fail[f], [fail[f] EXCEPT !.decision = "repaired"])
        BY <3>1, JudgedIs DEF Unsettled, Decisions
      <3> QED BY <3>1, <3>2, <3>3 DEF Judged
    <2>4. /\ fail' \in Seq(FailRecs) /\ Len(fail') = Len(fail) /\ DOMAIN fail' = DOMAIN fail
          /\ \A f \in DOMAIN fail : f \in DOMAIN fail' /\ Judged(fail[f], fail'[f])
      BY <1>1, <2>2, <2>3
    <2> QED BY <1>0, <2>4 DEF TypeFail, FailRecs
  <1>7. CASE RecordFailure
    <2>1. PICK s, T, d : /\ s = (CHOOSE x \in w.left : TRUE)
                         /\ d = Classify(w.id, s, val[w.id].out[s])
                         /\ T = {g \in DOMAIN fail : /\ g \in {res[o].e : o \in {p \in Repairs(Source(w.id)) : res[p].status = "failed"}}
                                                     /\ fail[g].decision = "reserved"}
      OBVIOUS
    <2>2. PICK row : row = Failure(w.id, s, val[w.id].out[s], d) OBVIOUS
    <2>3. PICK old : old = [g \in DOMAIN fail |-> IF g \in T THEN [fail[g] EXCEPT !.decision = "continued"] ELSE fail[g]]
      OBVIOUS
    <2>4. fail' = Append(old, row)
      <3>1. old = [g \in DOMAIN fail |->
                     IF g \in {res[o].e : o \in {p \in Repairs(Source(w.id)) : res[p].status = "failed"}} /\ fail[g].decision = "reserved"
                     THEN [fail[g] EXCEPT !.decision = "continued"] ELSE fail[g]]
        BY <2>1, <2>3
      <3> QED BY <1>7, <2>1, <2>2, <3>1 DEF RecordFailure
    <2>5. /\ w.do = "facts" /\ s \in w.left /\ s \in Steps /\ w.id \in Ids /\ val[w.id] \in ValRecs
          /\ UNCHANGED res /\ \A o \in DOMAIN res : res[o].id # w.id
      <3>1. w.do = "facts" /\ w.left # {} /\ UNCHANGED res BY <1>7 DEF RecordFailure
      <3>2. s \in w.left BY <2>1, <3>1
      <3> QED BY <3>1, <3>2 DEF IInv, Types, TypeWorker, TypeVal, Linked, WorkerKnows
    <2>6. val[w.id].out[s] \in Diagnoses \cup {"none"} BY <2>5 DEF ValRecs
    <2>7. d \in Decisions BY <2>1, ClassifyIs DEF Decisions
    <2>8. row \in FailRecs /\ row.id = w.id /\ row.decision = d BY <2>2, <2>5, <2>6, <2>7, FailureIs
    <2>9. ASSUME NEW f \in DOMAIN fail PROVE Judged(fail[f], old[f]) /\ old[f] \in FailRecs
      <3>1. fail[f] \in FailRecs /\ fail[f].decision \in Decisions BY <1>0
      <3>2. old[f] = fail[f] \/ old[f] = [fail[f] EXCEPT !.decision = "continued"] BY <2>3
      <3>3. Judged(fail[f], [fail[f] EXCEPT !.decision = "continued"])
        BY <3>1, JudgedIs DEF Unsettled, Decisions
      <3> QED BY <3>1, <3>2, <3>3 DEF Judged
    <2>10. old = [f \in DOMAIN fail |-> old[f]] BY <2>3
    <2>11. old \in Seq(FailRecs) /\ Len(old) = Len(fail) /\ DOMAIN old = DOMAIN fail
      BY <1>0, <2>9, <2>10, MappedTo
    <2>12. /\ fail' \in Seq(FailRecs) /\ Len(fail') = Len(fail) + 1
           /\ \A f \in DOMAIN fail : fail'[f] = old[f]
           /\ fail'[Len(fail) + 1] = row
      BY <2>4, <2>8, <2>11, AddedAt
    <2>13. DOMAIN fail' = 1..(Len(fail) + 1) BY <2>12, DomainOf
    <2>14. Found(row)
      <3>1. \A o \in Active' : res'[o].id # w.id BY <2>5 DEF Active
      <3>2. d = "code" => val[w.id].result = "gate_failed" BY <2>1, ClassifyIs
      <3> QED BY <2>5, <2>8, <3>1, <3>2 DEF Found
    <2>15. \A f \in DOMAIN fail : Judged(fail[f], fail'[f]) BY <2>9, <2>12
    <2>16. \A f \in DOMAIN fail' \ DOMAIN fail : fail'[f] = row BY <1>0, <2>12, <2>13
    <2>17. TypeFail' BY <1>0, <2>12 DEF TypeFail, FailRecs
    <2>18. DOMAIN fail \subseteq DOMAIN fail' BY <1>0, <2>13
    <2>19. \A e \in DOMAIN fail : ~Reserves(e) BY <2>5 DEF Reserves, Idle
    <2> QED BY <1>0, <2>12, <2>14, <2>15, <2>16, <2>17, <2>18, <2>19
  <1>8. CASE Reserve
    <2>1. PICK e \in DOMAIN fail : fail[e].decision = "code" /\ (CommitReservation(e) \/ Exhaust(e))
      BY <1>8 DEF Reserve, FirstCode, Codes
    <2>2. fail' = [f \in DOMAIN fail |-> fail'[f]] BY <1>0, <2>1 DEF CommitReservation, Exhaust
    <2>3. ASSUME NEW f \in DOMAIN fail PROVE Judged(fail[f], fail'[f])
      <3>1. fail[f] \in FailRecs /\ fail[f].decision \in Decisions BY <1>0
      <3>2. CASE fail'[f] = fail[f] BY <3>1, <3>2 DEF Judged
      <3>3. ASSUME NEW d \in {"reserved", "covered", "blocked"}, fail[f].decision = "code",
                   fail'[f] = [fail[f] EXCEPT !.decision = d]
            PROVE  Judged(fail[f], fail'[f])
        BY <3>1, <3>3, JudgedIs, ZenonT(60) DEF Unsettled, Decisions
      <3>4. CASE Exhaust(e) BY <2>1, <3>2, <3>3, <3>4 DEF Exhaust
      <3>5. CASE CommitReservation(e)
        <4>1. PICK d \in {"reserved", "covered"} : d = IF f = e THEN "reserved" ELSE "covered" OBVIOUS
        <4>2. \/ fail'[f] = fail[f]
              \/ fail[f].decision = "code" /\ fail'[f] = [fail[f] EXCEPT !.decision = d]
          BY <3>5, <4>1 DEF CommitReservation
        <4> QED BY <3>2, <3>3, <4>2
      <3> QED BY <2>1, <3>4, <3>5
    <2>4. /\ fail' \in Seq(FailRecs) /\ Len(fail') = Len(fail) /\ DOMAIN fail' = DOMAIN fail
          /\ \A f \in DOMAIN fail : f \in DOMAIN fail' /\ Judged(fail[f], fail'[f])
      BY <1>1, <2>2, <2>3
    <2> QED BY <1>0, <2>4 DEF TypeFail, FailRecs
  <1> QED BY <1>2, <1>3, <1>4, <1>5, <1>6, <1>7, <1>8, FailWrites

LEMMA ReservedRow ==
  ASSUME IInv, NEW e \in DOMAIN fail, Reserves(e), NEW f \in DOMAIN fail, fail[f].id = fail[e].id
  PROVE  fail'[f].decision # "code" /\ (fail'[f].decision \in Unsettled => fail[f].decision \in Unsettled)
  <1>1. fail[f] \in FailRecs BY DomainOf DEF IInv, Types, TypeFail
  <1>2. fail' = [g \in DOMAIN fail |->
                  IF fail[g].id = fail[e].id /\ fail[g].decision = "code"
                  THEN [fail[g] EXCEPT !.decision = IF g = e THEN "reserved" ELSE "covered"] ELSE fail[g]]
    BY DEF Reserves, CommitReservation
  <1>3. CASE fail[f].decision = "code"
    <2>1. fail'[f].decision \in {"reserved", "covered"} BY <1>1, <1>2, <1>3 DEF FailRecs
    <2> QED BY <2>1 DEF Unsettled
  <1>4. CASE fail[f].decision # "code"
    <2>1. fail'[f] = fail[f] BY <1>2, <1>4
    <2> QED BY <1>4, <2>1
  <1> QED BY <1>3, <1>4

\* what Charged and Linked say of failures
Failed ==
    /\ \A f \in DOMAIN fail : fail[f].id \in Ids
    /\ \A f \in DOMAIN fail : fail[f].decision = "code" =>
          val[fail[f].id].result # "pending" /\ \A o \in DOMAIN res : res[o].id # fail[f].id

LEMMA FailuresKept == ASSUME IInv, Next PROVE Failed' /\ ActiveIsClear'
  <1>0. /\ Failed /\ ActiveIsClear /\ DOMAIN res = 1..Len(res) /\ Len(res) \in Nat
        /\ Ids \subseteq Ids' /\ \A id \in Ids : val[id].result # "pending" => val'[id].result = val[id].result
        /\ Len(fail) \in Nat
    BY ValMoves, RowsStaySound, DomainOf, FailuresPass DEF IInv, Linked, Charged, Failed, Types, TypeRes
  <1>1. /\ \A f \in DOMAIN fail : f \in DOMAIN fail' /\ Judged(fail[f], fail'[f])
        /\ \A f \in DOMAIN fail' \ DOMAIN fail : Found(fail'[f])
    BY FailuresPass
  <1>2. /\ \A o \in DOMAIN res : o \in DOMAIN res' /\ res'[o].id = res[o].id
        /\ Active' \cap DOMAIN res \subseteq Active
    BY RepairsPass, RepairsKept DEF Passed
  <1>3. \A f \in DOMAIN fail' : /\ fail'[f].id \in Ids'
                                /\ fail'[f].decision = "code" => val'[fail'[f].id].result # "pending"
    BY <1>0, <1>1 DEF Failed, Judged, Found
  <1>4. ASSUME NEW e \in DOMAIN fail, Reserves(e)
        PROVE  /\ \A o \in DOMAIN res' \ DOMAIN res : res'[o].id = fail[e].id
               /\ DOMAIN fail' = DOMAIN fail
    <2>1. \A o \in DOMAIN res' \ DOMAIN res : o = Len(res) + 1 BY <1>0, <1>4, ReserveAdds
    <2>2. DOMAIN fail' = DOMAIN fail BY <1>4 DEF Reserves, CommitReservation
    <2> QED BY <1>4, <2>1, <2>2, ReserveAdds
  <1>5. ASSUME NEW o \in DOMAIN res' \ DOMAIN res, NEW f \in DOMAIN fail', res'[o].id = fail'[f].id
        PROVE  fail'[f].decision # "code" /\ fail'[f].decision \notin Unsettled
    <2>1. PICK e \in DOMAIN fail : Reserves(e) BY RepairsPass
    <2>2. f \in DOMAIN fail /\ fail[f].id = fail[e].id BY <1>1, <1>4, <1>5, <2>1 DEF Judged
    <2>3. ~Unclear(fail[e].id) BY <2>1 DEF Reserves
    <2>4. fail[f].decision \notin Unsettled BY <2>2, <2>3 DEF Unclear, Unsettled
    <2> QED BY <2>1, <2>2, <2>4, ReservedRow
  <1>6. ASSUME NEW f \in DOMAIN fail', fail'[f].decision = "code", NEW o \in DOMAIN res'
        PROVE  res'[o].id # fail'[f].id
    <2>1. CASE o \notin DOMAIN res BY <1>5, <1>6, <2>1
    <2>2. CASE o \in DOMAIN res /\ f \in DOMAIN fail
      <3>1. fail[f].decision = "code" /\ fail'[f].id = fail[f].id BY <1>1, <1>6, <2>2 DEF Judged
      <3> QED BY <1>0, <1>2, <2>2, <3>1 DEF Failed
    <2>3. CASE o \in DOMAIN res /\ f \notin DOMAIN fail
      <3>1. Found(fail'[f]) BY <1>1, <2>3
      <3> QED BY <1>2, <1>6, <2>3, <3>1 DEF Found
    <2> QED BY <2>1, <2>2, <2>3
  <1>7. ASSUME NEW o \in Active', NEW f \in DOMAIN fail', fail'[f].id = res'[o].id, fail'[f].decision \in Unsettled
        PROVE  FALSE
    <2>0. o \in DOMAIN res' BY DEF Active
    <2>1. CASE o \notin DOMAIN res BY <1>5, <1>7, <2>0, <2>1
    <2>2. CASE o \in DOMAIN res /\ f \in DOMAIN fail
      <3>1. fail[f].decision \in Unsettled \cup {"code"} /\ fail'[f].id = fail[f].id
        BY <1>1, <1>7, <2>2 DEF Judged
      <3>2. o \in Active /\ res[o].id = fail[f].id BY <1>2, <1>7, <2>2, <3>1
      <3>3. ~Unclear(res[o].id) BY <1>0, <3>2 DEF ActiveIsClear
      <3>4. fail[f].decision = "code" BY <2>2, <3>1, <3>2, <3>3 DEF Unclear, Unsettled
      <3> QED BY <1>0, <2>2, <3>2, <3>4 DEF Failed
    <2>3. CASE f \notin DOMAIN fail
      <3>1. Found(fail'[f]) BY <1>1, <2>3
      <3> QED BY <1>7, <3>1 DEF Found
    <2> QED BY <2>1, <2>2, <2>3
  <1>8. Failed'
    <2>1. ASSUME NEW f \in DOMAIN fail', fail'[f].decision = "code"
          PROVE  val'[fail'[f].id].result # "pending" /\ \A o \in DOMAIN res' : res'[o].id # fail'[f].id
      BY <1>3, <1>6, <2>1, Zenon
    <2> QED BY <1>3, <2>1, Zenon DEF Failed
  <1>9. ActiveIsClear' BY <1>7 DEF ActiveIsClear, Unclear, Unsettled
  <1> QED BY <1>8, <1>9

LEMMA RetriesKept ==
  ASSUME IInv, Next
  PROVE  /\ TypeRetry' /\ RetriesLeft' /\ DOMAIN retry' \subseteq DOMAIN fail' /\ DOMAIN retry \subseteq DOMAIN retry'
         /\ \A e \in DOMAIN retry' : retry'[e].state = "unknown" => retry'[e].id \in Ids'
  <1>0. /\ \A e \in DOMAIN retry : retry[e] \in RetryRecs
        /\ \A e \in DOMAIN retry : retry[e].state = "pending" => retry[e].attempts < Retries
        /\ DOMAIN retry \subseteq DOMAIN fail /\ DOMAIN fail \subseteq DOMAIN fail' /\ Ids \subseteq Ids'
        /\ \A e \in DOMAIN retry : retry[e].state = "unknown" => retry[e].id \in Ids
        /\ Retries = 2
    BY FailuresPass, ValMoves DEF IInv, Types, TypeRetry, RetriesLeft, Linked, Retries
  <1>1. CASE UNCHANGED retry BY <1>0, <1>1 DEF TypeRetry, RetriesLeft, RetryRecs
  <1>2. ASSUME NEW e \in DOMAIN retry, NEW s \in {"complete", "blocked", "pending"},
               s = "pending" => retry[e].attempts < Retries,
               retry' = [retry EXCEPT ![e].state = s]
        PROVE  /\ TypeRetry' /\ RetriesLeft' /\ DOMAIN retry' = DOMAIN retry
               /\ \A g \in DOMAIN retry' : retry'[g].state = "unknown" => retry'[g].id \in Ids'
    <2>1. \A g \in DOMAIN retry : g # e => retry'[g] = retry[g] BY <1>2
    <2>2. /\ retry'[e] \in RetryRecs /\ retry'[e].state = s /\ retry'[e].attempts = retry[e].attempts
      BY <1>0, <1>2 DEF RetryRecs
    <2>3. DOMAIN retry' = DOMAIN retry BY <1>2
    <2>4. \A g \in DOMAIN retry' : retry'[g] \in RetryRecs BY <1>0, <2>1, <2>2, <2>3
    <2>5. TypeRetry' BY <2>4 DEF TypeRetry, RetryRecs
    <2>6. RetriesLeft' BY <1>0, <1>2, <2>1, <2>2, <2>3 DEF RetriesLeft
    <2> QED BY <1>0, <2>1, <2>2, <2>3, <2>5, <2>6
  <1>3. CASE Expire
    <2>1. PICK e \in DOMAIN retry : retry' = [retry EXCEPT ![e].state = "blocked"] BY <1>3 DEF Expire
    <2> QED BY <1>0, <1>2, <2>1
  <1>4. CASE Claim
    <2>1. PICK e \in DOMAIN retry :
             \/ UNCHANGED retry
             \/ /\ retry[e].state = "pending" /\ val' = With(val, NextName(e), NewVal)
                /\ retry' = [retry EXCEPT ![e] = [state |-> "unknown", attempts |-> @.attempts + 1,
                                                  id |-> NextName(e), late |-> FALSE]]
      BY <1>4 DEF Claim
    <2>2. CASE UNCHANGED retry BY <1>1, <2>2
    <2>3. CASE /\ retry[e].state = "pending" /\ val' = With(val, NextName(e), NewVal)
               /\ retry' = [retry EXCEPT ![e] = [state |-> "unknown", attempts |-> @.attempts + 1,
                                                 id |-> NextName(e), late |-> FALSE]]
      <3>1. NextName(e) \in Ids' BY <2>3 DEF With, Ids
      <3>2. fail[e].id \in Ids /\ fail[e].id \in Names BY <1>0 DEF IInv, Linked, Types, TypeVal
      <3>3. retry[e].attempts \in 0..2 /\ retry[e].attempts < 2 BY <1>0, <2>3 DEF RetryRecs
      <3>4. retry[e].attempts + 1 \in 0..2 /\ retry[e].attempts + 1 \in Nat BY <3>3
      <3>5. NextName(e) \in Seq(Nat) BY <3>2, <3>4 DEF NextName, Names
      <3>6. PICK row : row = [state |-> "unknown", attempts |-> retry[e].attempts + 1,
                              id |-> NextName(e), late |-> FALSE] OBVIOUS
      <3>7. row \in RetryRecs /\ row.state = "unknown" /\ row.id = NextName(e)
        BY <1>0, <3>4, <3>5, <3>6 DEF RetryRecs
      <3>8. retry' = [retry EXCEPT ![e] = row] BY <2>3, <3>6
      <3>9. DOMAIN retry' = DOMAIN retry /\ \A g \in DOMAIN retry : retry'[g] = IF g = e THEN row ELSE retry[g]
        BY <3>8
      <3>10. \A g \in DOMAIN retry' : retry'[g] \in RetryRecs BY <1>0, <3>7, <3>9
      <3>11. TypeRetry' BY <3>10 DEF TypeRetry, RetryRecs
      <3>12. RetriesLeft' BY <1>0, <3>7, <3>9 DEF RetriesLeft
      <3> QED BY <1>0, <3>1, <3>7, <3>9, <3>11, <3>12
    <2> QED BY <2>1, <2>2, <2>3
  <1>5. CASE Complete
    <2>1. w.e \in DOMAIN retry BY <1>5 DEF Complete, IInv, Linked
    <2> DEFINE again == \E f \in DOMAIN fail : fail[f].id = w.id /\ fail[f].decision = "infrastructure"
               next(t) == again /\ retry[w.e].attempts < Retries /\ t
               state(t) == IF val[w.id].result = "succeeded" THEN "complete" ELSE IF next(t) THEN "pending" ELSE "blocked"
    <2>2. PICK t \in BOOLEAN : retry' = [retry EXCEPT ![w.e].state = state(t)]
      BY <1>5, Zenon DEF Complete
    <2>3. PICK s \in {"complete", "blocked", "pending"} : s = state(t) OBVIOUS
    <2>4. s = "pending" => retry[w.e].attempts < Retries BY <2>3
    <2> HIDE DEF state
    <2>5. retry' = [retry EXCEPT ![w.e].state = s] BY <2>2, <2>3
    <2> QED BY <1>0, <1>2, <2>1, <2>4, <2>5
  <1>6. CASE RecordFailure
    <2>1. PICK row : row = [state |-> "pending", attempts |-> 0, id |-> <<>>, late |-> FALSE] OBVIOUS
    <2>2. UNCHANGED retry \/ retry' = With(retry, Len(fail) + 1, row) BY <1>6, <2>1 DEF RecordFailure
    <2>3. row \in RetryRecs /\ row.state = "pending" /\ row.attempts = 0
      BY <1>0, <2>1 DEF RetryRecs
    <2>4. CASE retry' = With(retry, Len(fail) + 1, row)
      <3>1. PICK n \in Nat : n = Len(fail) + 1 BY FailuresPass
      <3>2. /\ DOMAIN retry' = DOMAIN retry \cup {n}
            /\ \A g \in DOMAIN retry' : retry'[g] = IF g = n THEN row ELSE retry[g]
        BY <2>4, <3>1 DEF With
      <3>3. n \in DOMAIN fail'
        <4>1. Len(fail') = Len(fail) + 1
          <5>1. PICK T, d : fail' = Append([g \in DOMAIN fail |-> IF g \in T /\ fail[g].decision = "reserved"
                                     THEN [fail[g] EXCEPT !.decision = "continued"] ELSE fail[g]], d)
            BY <1>6, Zenon DEF RecordFailure
          <5>2. PICK old : old = [g \in DOMAIN fail |-> IF g \in T /\ fail[g].decision = "reserved"
                                     THEN [fail[g] EXCEPT !.decision = "continued"] ELSE fail[g]]
            OBVIOUS
          <5>3. fail \in Seq(FailRecs) BY DEF IInv, Types, TypeFail
          <5>4. \A g \in DOMAIN fail : old[g] \in FailRecs
            <6> SUFFICES ASSUME NEW g \in DOMAIN fail PROVE old[g] \in FailRecs
              OBVIOUS
            <6>1. fail[g] \in FailRecs BY <5>3, DomainOf
            <6>2. old[g] = fail[g] \/ old[g] = [fail[g] EXCEPT !.decision = "continued"] BY <5>2
            <6> QED BY <6>1, <6>2 DEF FailRecs, Decisions
          <5>5. old = [g \in DOMAIN fail |-> old[g]] BY <5>2
          <5>6. Len(old) = Len(fail) /\ old \in Seq(FailRecs) BY <5>3, <5>4, <5>5, MappedTo
          <5>7. Len(Append(old, d)) = Len(old) + 1 BY <5>6
          <5>8. fail' = Append(old, d) BY <5>1, <5>2
          <5> QED BY <5>6, <5>7, <5>8
        <4>2. fail' \in Seq(FailRecs') BY FailuresPass DEF TypeFail
        <4>3. DOMAIN fail' = 1..Len(fail') BY <4>2, DomainOf
        <4> QED BY <3>1, <4>1, <4>3
      <3>4. \A g \in DOMAIN retry' : retry'[g] \in RetryRecs BY <1>0, <2>3, <3>2
      <3>5. TypeRetry' BY <3>4 DEF TypeRetry, RetryRecs
      <3>6. RetriesLeft' BY <1>0, <2>3, <3>2 DEF RetriesLeft
      <3> QED BY <1>0, <2>3, <3>2, <3>3, <3>5, <3>6
    <2> QED BY <1>1, <2>2, <2>4
  <1>7. CASE Late
    <2>1. PICK e \in DOMAIN retry : retry' = [retry EXCEPT ![e].late = TRUE] BY <1>7 DEF Late
    <2>2. DOMAIN retry' = DOMAIN retry BY <2>1
    <2>3. \A g \in DOMAIN retry : retry'[g] = IF g = e THEN [retry[g] EXCEPT !.late = TRUE] ELSE retry[g] BY <2>1
    <2>4. \A g \in DOMAIN retry : /\ retry'[g] \in RetryRecs /\ retry'[g].state = retry[g].state
                                  /\ retry'[g].attempts = retry[g].attempts /\ retry'[g].id = retry[g].id
      BY <1>0, <2>3, ZenonT(60) DEF RetryRecs
    <2>5. TypeRetry' BY <2>2, <2>4 DEF TypeRetry, RetryRecs
    <2>6. RetriesLeft' BY <1>0, <2>2, <2>4 DEF RetriesLeft
    <2> QED BY <1>0, <2>2, <2>4, <2>5, <2>6
  <1> QED BY <1>1, <1>3, <1>4, <1>5, <1>6, <1>7, RetryWrites

----------------------------------------------------------------------------
(* A repair succeeds with a validation. *)

Proven(r) == \E id \in Ids : Source(id) = r /\ val[id].result = "succeeded"

LEMMA ProvenKept ==
  ASSUME IInv, Next
  PROVE  RepairIsValidated'
  <1>0. /\ \A o \in DOMAIN res : res[o].status = "succeeded" <=> Proven(res[o].run)
        /\ \A o \in DOMAIN res : res[o] \in ResRecs
        /\ \A id \in Ids : Source(id) \in DOMAIN run
        /\ DOMAIN run = 1..Len(run) /\ Len(run) \in Nat
        /\ \A o \in DOMAIN res : res[o].status = "reserved" => res[o].run = 0
        /\ DOMAIN res = 1..Len(res) /\ Len(res) \in Nat
    BY DomainOf DEF IInv, RepairIsValidated, Proven, Linked, Charged, Types, TypeRes, TypeRun
  <1>1. \A r : Proven(r) => r \in DOMAIN run BY <1>0 DEF Proven
  <1>2. \A id \in Ids' \ Ids : val'[id].result = "pending" BY ValMoves, NewIsSound
  <1>3. \A r : Proven(r) => Proven(r)' BY ValMoves, RowsStaySound DEF Proven
  <1>4. SUFFICES \A o \in DOMAIN res' : res'[o].status = "succeeded"
                    <=> \E id \in Ids' : Source(id) = res'[o].run /\ val'[id].result = "succeeded"
    BY DEF RepairIsValidated, Source
  <1> DEFINE After(r) == \E id \in Ids' : Source(id) = r /\ val'[id].result = "succeeded"
  <1>5. CASE Finish
    <2>1. /\ w.do = "record" /\ w.id \in Ids /\ val[w.id].result = "pending" /\ val[w.id] \in ValRecs
          /\ Source(w.id) \in DOMAIN run
      BY <1>5 DEF Finish, IInv, Linked, WorkerKnows, Types, TypeVal
    <2>2. PICK result \in {"succeeded", "gate_failed", "blocked"} : result = Outcome(val[w.id]) BY DEF Outcome
    <2>3. /\ val' = [val EXCEPT ![w.id] = [val[w.id] EXCEPT !.result = result,
                                             !.stage = IF result = "succeeded" THEN "handoff" ELSE @]]
          /\ res' = [o \in DOMAIN res |-> IF o \in Repairs(Source(w.id))
                                          THEN [res[o] EXCEPT !.status = Settled(@, result)] ELSE res[o]]
      BY <1>5, <2>2 DEF Finish, SetVal
    <2>4. /\ Ids' = Ids /\ val'[w.id].result = result
          /\ \A id \in Ids : id # w.id => val'[id] = val[id]
      BY <2>1, <2>3 DEF Ids, ValRecs
    <2>5. \A r : After(r) <=> Proven(r) \/ (r = Source(w.id) /\ result = "succeeded")
      BY <2>1, <2>4 DEF Proven
    <2>6. ASSUME NEW o \in DOMAIN res PROVE res'[o].status = "succeeded" <=> After(res'[o].run)
      <3>1. /\ res[o].status \in {"reserved", "started", "succeeded", "failed"} /\ res[o] \in ResRecs
        BY <1>0 DEF ResRecs
      <3>2. CASE o \in Repairs(Source(w.id))
        <4>1. res[o].run = Source(w.id) BY <3>2 DEF Repairs
        <4>2. res[o].status # "reserved" BY <1>0, <2>1, <4>1
        <4>3. PICK s : s = Settled(res[o].status, result) OBVIOUS
        <4>4. res'[o] = [res[o] EXCEPT !.status = s] BY <2>3, <3>2, <4>3
        <4>5. res'[o].status = s /\ res'[o].run = res[o].run BY <3>1, <4>4 DEF ResRecs
        <4>6. s = "succeeded" <=> res[o].status = "succeeded" \/ result = "succeeded"
          BY <3>1, <4>2, <4>3, SettledIs
        <4> HIDE DEF After
        <4> QED BY <1>0, <2>5, <4>1, <4>5, <4>6
      <3>3. CASE o \notin Repairs(Source(w.id))
        <4>1. res'[o] = res[o] /\ res[o].run # Source(w.id) BY <2>3, <3>3 DEF Repairs
        <4> HIDE DEF After
        <4> QED BY <1>0, <2>5, <4>1
      <3> QED BY <3>2, <3>3
    <2>7. DOMAIN res' = DOMAIN res BY <2>3
    <2> QED BY <2>6, <2>7
  <1>6. CASE ~Finish
    <2>1. ASSUME NEW id \in Ids, val'[id].result = "succeeded" PROVE val[id].result = "succeeded"
      <3>1. CASE val[id].result # "pending" BY <2>1, <3>1, RowsStaySound
      <3>2. CASE val[id].result = "pending"
        <4>1. Worked(val[id], val'[id]) BY <2>1, <3>2, RowsStaySound
        <4>2. val[id] \in ValRecs BY DEF IInv, Types, TypeVal
        <4> QED BY <1>6, <2>1, <3>2, <4>1, <4>2 DEF Worked, Decided, ValRecs
      <3> QED BY <3>1, <3>2
    <2>2. \A r : After(r) <=> Proven(r) BY <1>2, <1>3, <2>1, ValMoves, RowsStaySound DEF Proven
    <2> HIDE DEF After
    <2> DEFINE Same == \A o \in DOMAIN res' :
                   \/ o \in DOMAIN res /\ res'[o].status = res[o].status /\ res'[o].run = res[o].run
                   \/ res'[o].status # "succeeded" /\ ~Proven(res'[o].run)
    <2>3. CASE Same
      <3>1. \A o \in DOMAIN res' : res'[o].status = "succeeded" <=> After(res'[o].run) BY <1>0, <2>2, <2>3
      <3> QED BY <3>1 DEF After
    <2>4. CASE UNCHANGED res
      <3>1. Same BY <2>4
      <3> QED BY <2>3, <3>1
    <2>5. CASE NoProgress
      <3>1. PICK r \in DOMAIN run :
              /\ Pending(r)
              /\ res' = [o \in DOMAIN res |-> IF o \in Repairs(r) THEN [res[o] EXCEPT !.status = "failed"] ELSE res[o]]
        BY <2>5 DEF NoProgress
      <3>2. ~Proven(r) BY <3>1 DEF Pending, Proven, Ids
      <3>3. ASSUME NEW o \in DOMAIN res
            PROVE  \/ res'[o].status = res[o].status /\ res'[o].run = res[o].run
                   \/ res'[o].status # "succeeded" /\ ~Proven(res'[o].run)
        <4>1. CASE o \in Repairs(r)
          <5>1. res'[o].status = "failed" /\ res'[o].run = r BY <1>0, <3>1, <4>1 DEF ResRecs, Repairs
          <5> QED BY <3>2, <5>1
        <4>2. CASE o \notin Repairs(r) BY <3>1, <4>2
        <4> QED BY <4>1, <4>2
      <3>4. DOMAIN res' = DOMAIN res BY <3>1
      <3>5. Same BY <3>3, <3>4
      <3> QED BY <2>3, <3>5
    <2>6. CASE Reserve
      <3>1. ASSUME NEW e \in DOMAIN fail, Reserves(e)
            PROVE  \A o \in DOMAIN res' : \/ o \in DOMAIN res /\ res'[o] = res[o]
                                          \/ res'[o].status # "succeeded" /\ ~Proven(res'[o].run)
        <4>1. /\ DOMAIN res' = 1..(Len(res) + 1) /\ \A o \in DOMAIN res : res'[o] = res[o]
              /\ res'[Len(res) + 1].status = "reserved" /\ res'[Len(res) + 1].run = 0
          BY <3>1, ReserveAdds
        <4>2. \A o \in DOMAIN res' : o \in DOMAIN res \/ o = Len(res) + 1 BY <1>0, <4>1
        <4>3. ~Proven(0) BY <1>0, <1>1
        <4> QED BY <4>1, <4>2, <4>3
      <3>2. CASE \E e \in DOMAIN fail : Reserves(e)
        <4>1. Same BY <3>1, <3>2
        <4> QED BY <2>3, <4>1
      <3>3. CASE ~\E e \in DOMAIN fail : Reserves(e)
        <4>1. UNCHANGED res BY <2>6, <3>3 DEF Reserve, Exhaust, Reserves, Turn, FirstCode, Codes
        <4> QED BY <2>4, <4>1
      <3> QED BY <3>2, <3>3
    <2>7. CASE Replace
      <3>1. PICK o \in DOMAIN res : res' = [res EXCEPT ![o].inc = req.inc] BY <2>7 DEF Replace
      <3>2. \A p \in DOMAIN res : res'[p].status = res[p].status /\ res'[p].run = res[p].run
        BY <1>0, <3>1 DEF ResRecs
      <3>3. DOMAIN res' = DOMAIN res BY <3>1
      <3>5. Same BY <3>2, <3>3
      <3> QED BY <2>3, <3>5
    <2>8. CASE Bind
      <3>1. PICK o \in DOMAIN res : res' = [res EXCEPT ![o].run = Len(run) + 1, ![o].status = "started"]
        BY <2>8 DEF Bind
      <3>2. res'[o].run = Len(run) + 1 /\ res'[o].status = "started" BY <1>0, <3>1 DEF ResRecs
      <3>3. \A p \in DOMAIN res : p # o => res'[p] = res[p] BY <3>1
      <3>4. ~Proven(Len(run) + 1) BY <1>0, <1>1
      <3>5. DOMAIN res' = DOMAIN res BY <3>1
      <3>6. Same BY <3>2, <3>3, <3>4, <3>5
      <3> QED BY <2>3, <3>6
    <2>9. CASE Resume
      <3>1. PICK r \in DOMAIN run :
              res' = [o \in DOMAIN res |-> IF o \in Repairs(r) /\ res[o].status = "started"
                                           THEN [res[o] EXCEPT !.run = Len(run) + 1] ELSE res[o]]
        BY <2>9 DEF Resume
      <3>2. ~Proven(Len(run) + 1) BY <1>0, <1>1
      <3>3. ASSUME NEW o \in DOMAIN res
            PROVE  \/ res'[o].status = res[o].status /\ res'[o].run = res[o].run
                   \/ res'[o].status # "succeeded" /\ ~Proven(res'[o].run)
        <4>1. CASE res'[o] = res[o] BY <4>1
        <4>2. CASE res[o].status = "started" /\ res'[o] = [res[o] EXCEPT !.run = Len(run) + 1]
          <5>1. res'[o].status = "started" /\ res'[o].run = Len(run) + 1 BY <1>0, <4>2 DEF ResRecs
          <5> QED BY <3>2, <5>1
        <4> QED BY <3>1, <4>1, <4>2
      <3>4. DOMAIN res' = DOMAIN res BY <3>1
      <3>5. Same BY <3>3, <3>4
      <3> QED BY <2>3, <3>5
    <2> QED BY <1>6, <2>4, <2>5, <2>6, <2>7, <2>8, <2>9, ResWrites
  <1> QED BY <1>5, <1>6

----------------------------------------------------------------------------
(* The worker. *)

\* what the invariant says of the worker, of what it holds and of the rows
WorkerPart ==
    /\ TypeWorker /\ WorkerKnows
    /\ w.do # "idle" => w.id \in Ids /\ w.e \in DOMAIN retry \cup {0}
    /\ w.do = "complete" => w.e \in DOMAIN retry

LEMMA IdleFits == ASSUME w' = Idle PROVE WorkerPart'
  <1>1. /\ w'.do = "idle" /\ w'.left = {} /\ w' = [do |-> "idle", id |-> <<>>, e |-> 0, left |-> {}]
        /\ w' = [do |-> w'.do, id |-> w'.id, e |-> w'.e, left |-> w'.left]
    BY DEF Idle
  <1>2. TypeWorker' BY <1>1 DEF TypeWorker
  <1>3. WorkerKnows' BY <1>1 DEF WorkerKnows
  <1> QED BY <1>1, <1>2, <1>3 DEF WorkerPart

\* the worker goes on with its validation
LEMMA GoesOn ==
  ASSUME TypeWorker, NEW do, NEW S, w' = [w EXCEPT !.do = do, !.left = S]
  PROVE  /\ w'.do = do /\ w'.left = S /\ w'.id = w.id /\ w'.e = w.e
         /\ w' = [do |-> w'.do, id |-> w'.id, e |-> w'.e, left |-> w'.left]
  BY DEF TypeWorker

LEMMA ReturnFits ==
  ASSUME IInv, Next, w.do # "idle", Return
  PROVE  WorkerPart'
  <1>1. CASE w' = Idle BY <1>1, IdleFits
  <1>2. CASE w.e # 0 /\ w' = [w EXCEPT !.do = "complete"]
    <2>0. TypeWorker /\ w.id \in Ids /\ w.e \in DOMAIN retry BY <1>2 DEF IInv, Types, Linked
    <2>1. w' = [w EXCEPT !.do = "complete", !.left = w.left] BY <1>2, <2>0 DEF TypeWorker
    <2>2. /\ w'.do = "complete" /\ w'.left = w.left /\ w'.id = w.id /\ w'.e = w.e
          /\ w' = [do |-> w'.do, id |-> w'.id, e |-> w'.e, left |-> w'.left]
      BY <2>0, <2>1, GoesOn
    <2>3. w.left \subseteq Steps' BY <2>0, CaseStays DEF TypeWorker, IInv, Types, TypeRest
    <2>4. TypeWorker' BY <2>2, <2>3 DEF TypeWorker
    <2>5. WorkerKnows' BY <2>2 DEF WorkerKnows
    <2>6. w'.id \in Ids' /\ w'.e \in DOMAIN retry' BY <2>0, <2>2, ValMoves, RetriesKept
    <2> QED BY <2>2, <2>4, <2>5, <2>6 DEF WorkerPart
  <1> QED BY <1>1, <1>2 DEF Return, Go

\* what the worker works on moves under its hands only as the supervisor moves it
LEMMA AwayMoves ==
  ASSUME IInv, Next, w' = w, w.do \in {"begin", "spawn", "wait", "evaluate", "record", "facts"}
  PROVE  LET v == val[w.id] u == val'[w.id] IN
         u = v \/ Ran(v, u) \/ (w.do = "wait" /\ u = [v EXCEPT !.stop = TRUE])
  <1>0. TypeWorker /\ w # Idle /\ Idle.do = "idle" /\ w.id \in Ids
    BY DEF IInv, Types, Idle, Linked
  <1>1. CASE UNCHANGED val BY <1>1
  <1>2. CASE Claim \/ Create BY <1>0, <1>2 DEF Claim, Create
  <1>3. CASE Begin
    <2>1. \/ w.do = "begin" /\ (w' = Idle \/ w' = [w EXCEPT !.do = "spawn"])
          \/ w.do = "begin" /\ w' = [w EXCEPT !.do = "evaluate", !.left = Steps]
      BY <1>3 DEF Begin, Lose, Evidence, Go
    <2>2. CASE w' = [w EXCEPT !.do = "spawn"]
      <3>1. w'.do = "spawn" BY <1>0, <2>2 DEF TypeWorker
      <3> QED BY <2>1, <3>1
    <2>3. CASE w' = [w EXCEPT !.do = "evaluate", !.left = Steps]
      <3>1. w'.do = "evaluate" BY <1>0, <2>3, GoesOn
      <3> QED BY <2>1, <3>1
    <2> QED BY <1>0, <2>1, <2>2, <2>3
  <1>4. CASE Spawn
    <2>1. w.do = "spawn" /\ w' = [w EXCEPT !.do = "wait"] BY <1>4 DEF Spawn, Go
    <2>2. w'.do = "wait" BY <1>0, <2>1 DEF TypeWorker
    <2> QED BY <2>1, <2>2
  <1>5. CASE Stops
    <2>1. w.do = "wait" /\ (SetVal(w.id, [val[w.id] EXCEPT !.stop = TRUE]) \/ w' = Idle)
      BY <1>5 DEF Stops, Lose
    <2>2. SetVal(w.id, [val[w.id] EXCEPT !.stop = TRUE]) BY <1>0, <2>1
    <2> QED BY <1>0, <2>1, <2>2 DEF SetVal, Ids
  <1>6. CASE Collect
    <2>1. w.do = "wait" /\ (w' = Idle \/ w' = [w EXCEPT !.do = "evaluate", !.left = Steps])
      BY <1>6 DEF Collect, Lose, Evidence
    <2>2. w' = [w EXCEPT !.do = "evaluate", !.left = Steps] BY <1>0, <2>1
    <2>3. w'.do = "evaluate" BY <1>0, <2>2, GoesOn
    <2> QED BY <2>1, <2>3
  <1>7. CASE RecordStep
    <2>1. w.left # {} /\ w' = [w EXCEPT !.left = w.left \ {CHOOSE x \in w.left : TRUE}]
      BY <1>7 DEF RecordStep
    <2>2. w'.left = w.left \ {CHOOSE x \in w.left : TRUE} BY <1>0, <2>1 DEF TypeWorker
    <2> QED BY <2>1, <2>2
  <1>8. CASE Finish
    <2>1. w.do = "record" /\ (Return \/ \E S : w' = [w EXCEPT !.do = "facts", !.left = S])
      BY <1>8 DEF Finish
    <2>2. CASE Return
      <3>1. w' = [w EXCEPT !.do = "complete"] BY <1>0, <2>2 DEF Return, Go
      <3>2. w'.do = "complete" BY <1>0, <3>1 DEF TypeWorker
      <3> QED BY <2>1, <3>2
    <2>3. ASSUME NEW S, w' = [w EXCEPT !.do = "facts", !.left = S] PROVE FALSE
      <3>1. w'.do = "facts" BY <1>0, <2>3, GoesOn
      <3> QED BY <2>1, <3>1
    <2> QED BY <2>1, <2>2, <2>3
  <1>9. CASE Finishes
    <2>1. PICK id \in Ids :
             /\ val[id].alive
             /\ \/ \E out \in [Steps -> Results] : SetVal(id, [val[id] EXCEPT !.file = "done", !.alive = FALSE, !.out = out])
                \/ SetVal(id, [val[id] EXCEPT !.alive = FALSE])
      BY <1>9 DEF Finishes, Ids
    <2> QED BY <1>0, <2>1 DEF SetVal, Ran, Ids
  <1>10. CASE Crash BY <1>0, <1>10 DEF Crash
  <1> QED BY <1>1, <1>2, <1>3, <1>4, <1>5, <1>6, <1>7, <1>8, <1>9, <1>10, ValWrites

LEMMA StaysFits == ASSUME IInv, Next, w' = w PROVE WorkerPart'
  <1>0. /\ TypeWorker /\ WorkerKnows /\ Steps' = Steps
        /\ w.do # "idle" => w.id \in Ids /\ w.e \in DOMAIN retry \cup {0}
        /\ w.do = "complete" => w.e \in DOMAIN retry
        /\ Ids \subseteq Ids' /\ DOMAIN retry \subseteq DOMAIN retry'
        /\ \A id \in Ids : val[id] \in ValRecs /\ SoundRow(val[id])
        /\ Results \subseteq Diagnoses
    <2>1. Steps' = Steps BY CaseStays DEF IInv, Types, TypeRest
    <2>2. \A id \in Ids : val[id] \in ValRecs /\ SoundRow(val[id]) BY SoundIs DEF IInv, Types, SoundRow
    <2>3. Results \subseteq Diagnoses BY DEF IInv, Types, TypeRest, CaseRecs, Results
    <2> QED BY <2>1, <2>2, <2>3, ValMoves, RetriesKept DEF IInv, Types, Linked
  <1>1. TypeWorker' BY <1>0 DEF TypeWorker
  <1>2. CASE w.do \in {"idle", "prepare", "complete"}
    <2>1. WorkerKnows' BY <1>2 DEF WorkerKnows
    <2> QED BY <1>0, <1>1, <2>1 DEF WorkerPart
  <1>3. CASE w.do \in {"begin", "spawn", "wait", "evaluate", "record", "facts"}
    <2>1. w.id \in Ids /\ val[w.id] \in ValRecs /\ SoundRow(val[w.id]) BY <1>0, <1>3
    <2>2. PICK v, u : v = val[w.id] /\ u = val'[w.id] OBVIOUS
    <2>3. u = v \/ Ran(v, u) \/ (w.do = "wait" /\ u = [v EXCEPT !.stop = TRUE]) BY <1>3, <2>2, AwayMoves
    <2>4. /\ u.result = v.result /\ u.starts = v.starts /\ u.stage = v.stage /\ u.saved = v.saved
          /\ v.file = "done" => u.file = "done"
          /\ w.do # "wait" => u.stop = v.stop
      <3>1. CASE Ran(v, u) BY <1>0, <2>1, <2>2, <3>1, RanIsSound
      <3>2. CASE w.do = "wait" /\ u = [v EXCEPT !.stop = TRUE] BY <2>1, <2>2, <3>2 DEF ValRecs
      <3> QED BY <2>3, <3>1, <3>2
    <2>5. \A o \in DOMAIN res' : w.do = "facts" => res'[o].id # w.id
      <3>1. ~\E e \in DOMAIN fail : Reserves(e) BY <1>3 DEF Reserves, Idle
      <3>2. DOMAIN res' = DOMAIN res /\ \A o \in DOMAIN res : res'[o].id = res[o].id
        BY <3>1, RepairsPass DEF Passed
      <3> QED BY <1>0, <3>2 DEF WorkerKnows
    <2>6. invalidated \subseteq invalidated' BY HooksGrow
    <2>7. WorkerKnows' BY <1>0, <1>3, <2>2, <2>4, <2>5, <2>6 DEF WorkerKnows
    <2> QED BY <1>0, <1>1, <1>3, <2>7 DEF WorkerPart
  <1> QED BY <1>0, <1>2, <1>3 DEF TypeWorker

LEMMA MovesFit ==
  ASSUME IInv, Next
  PROVE  WorkerPart'
  <1>0. /\ TypeWorker /\ WorkerKnows /\ Steps' = Steps /\ Charged
        /\ w.do # "idle" => w.id \in Ids /\ w.e \in DOMAIN retry \cup {0}
        /\ Ids \subseteq Ids' /\ DOMAIN retry \subseteq DOMAIN retry'
        /\ \A id \in Ids : val[id] \in ValRecs /\ SoundRow(val[id])
    <2>1. Steps' = Steps BY CaseStays DEF IInv, Types, TypeRest
    <2>2. \A id \in Ids : val[id] \in ValRecs /\ SoundRow(val[id]) BY SoundIs DEF IInv, Types, SoundRow
    <2> QED BY <2>1, <2>2, ValMoves, RetriesKept DEF IInv, Types, Linked
  <1>1. ASSUME w.do # "idle", NEW do \in {"begin", "spawn", "wait", "evaluate", "record", "facts"}, NEW S \in SUBSET Steps,
               w' = [w EXCEPT !.do = do, !.left = S], WorkerKnows'
        PROVE  WorkerPart'
    <2>1. /\ w'.do = do /\ w'.left = S /\ w'.id = w.id /\ w'.e = w.e
          /\ w' = [do |-> w'.do, id |-> w'.id, e |-> w'.e, left |-> w'.left]
      BY <1>0, <1>1, GoesOn
    <2>2. TypeWorker' BY <1>0, <2>1 DEF TypeWorker
    <2>3. w'.id \in Ids' /\ w'.e \in DOMAIN retry' \cup {0} BY <1>0, <1>1, <2>1
    <2> QED BY <1>1, <2>1, <2>2, <2>3 DEF WorkerPart
  <1>2. ASSUME NEW id \in Ids', NEW e \in DOMAIN retry' \cup {0},
               w' = [do |-> "prepare", id |-> id, e |-> e, left |-> {}]
        PROVE  WorkerPart'
    <2>1. w'.do = "prepare" /\ w'.id = id /\ w'.e = e /\ w'.left = {} BY <1>2
    <2>2. TypeWorker' BY <1>2, <2>1 DEF TypeWorker
    <2>3. WorkerKnows' BY <2>1 DEF WorkerKnows
    <2> QED BY <1>2, <2>1, <2>2, <2>3 DEF WorkerPart
  <1>3. ASSUME w.do \in {"begin", "wait"}, val[w.id].result = "pending", Retained(w.id), Evidence
        PROVE  WorkerPart'
    <2>0. UNCHANGED val /\ w' = [w EXCEPT !.do = "evaluate", !.left = Steps] BY <1>3 DEF Evidence
    <2>1. w'.do = "evaluate" /\ w'.left = Steps /\ w'.id = w.id BY <1>0, <2>0, GoesOn
    <2>2. WorkerKnows' BY <1>0, <1>3, <2>0, <2>1 DEF WorkerKnows, Retained
    <2> QED BY <1>1, <1>3, <2>0, <2>2
  <1>4. CASE w' = w BY <1>4, StaysFits
  <1>5. CASE Claim
    <2>1. PICK e \in DOMAIN retry :
             \/ retry[e].state = "unknown" /\ w' = [do |-> "prepare", id |-> retry[e].id, e |-> e, left |-> {}]
             \/ /\ val' = With(val, NextName(e), NewVal)
                /\ w' = [do |-> "prepare", id |-> NextName(e), e |-> e, left |-> {}]
      BY <1>5 DEF Claim
    <2>2. e \in DOMAIN retry' \cup {0} BY <1>0
    <2>3. CASE retry[e].state = "unknown" /\ w' = [do |-> "prepare", id |-> retry[e].id, e |-> e, left |-> {}]
      <3>1. retry[e].id \in Ids' BY <1>0, <2>3 DEF IInv, Linked
      <3> QED BY <1>2, <2>2, <2>3, <3>1
    <2>4. CASE /\ val' = With(val, NextName(e), NewVal)
               /\ w' = [do |-> "prepare", id |-> NextName(e), e |-> e, left |-> {}]
      <3>1. NextName(e) \in Ids' BY <2>4 DEF With, Ids
      <3> QED BY <1>2, <2>2, <2>4, <3>1
    <2> QED BY <2>1, <2>3, <2>4
  <1>6. CASE Complete \/ Crash
    <2>1. w' = Idle BY <1>6 DEF Complete, Crash
    <2> QED BY <2>1, IdleFits
  <1>7. CASE Create
    <2>1. PICK r \in DOMAIN run :
             /\ val' = IF <<r>> \in DOMAIN val THEN val ELSE With(val, <<r>>, NewVal)
             /\ w' = [do |-> "prepare", id |-> <<r>>, e |-> 0, left |-> {}]
      BY <1>7 DEF Create
    <2>2. <<r>> \in Ids' BY <2>1 DEF With, Ids
    <2> QED BY <1>2, <2>1, <2>2
  <1>8. CASE Begin
    <2>1. w.do = "begin" /\ w.id \in Ids /\ w.left \subseteq Steps /\ val[w.id].result = "pending"
      BY <1>0, <1>8 DEF Begin, TypeWorker, WorkerKnows
    <2>3. CASE w' = Idle BY <2>3, IdleFits
    <2>4. CASE /\ val[w.id].stage = "declaration"
               /\ SetVal(w.id, [val[w.id] EXCEPT !.stage = "validation"]) /\ Go("spawn")
      <3>1. w' = [w EXCEPT !.do = "spawn", !.left = w.left] BY <1>0, <2>4 DEF Go, TypeWorker
      <3>2. w'.do = "spawn" /\ w'.id = w.id BY <1>0, <3>1, GoesOn
      <3>3. val'[w.id] = [val[w.id] EXCEPT !.stage = "validation"] BY <2>1, <2>4 DEF SetVal, Ids
      <3>4. val[w.id].starts = 0 BY <1>0, <2>1, <2>4 DEF SoundRow
      <3>5. val'[w.id].starts = 0 /\ val'[w.id].stage = "validation" /\ val'[w.id].result = "pending"
        BY <1>0, <2>1, <2>4, <3>3, <3>4 DEF ValRecs
      <3>6. WorkerKnows' BY <3>2, <3>5 DEF WorkerKnows
      <3> QED BY <1>1, <2>1, <3>1, <3>6
    <2>5. CASE Retained(w.id) /\ Evidence BY <1>3, <2>1, <2>5
    <2> QED BY <1>8, <2>3, <2>4, <2>5 DEF Begin, Lose
  <1>9. CASE Spawn
    <2>1. w.do = "spawn" /\ w.id \in Ids /\ w.left \subseteq Steps /\ val[w.id] \in ValRecs
          /\ val[w.id].result = "pending" /\ val[w.id].stage = "validation"
      BY <1>0, <1>9 DEF Spawn, TypeWorker, WorkerKnows
    <2>2. w' = [w EXCEPT !.do = "wait", !.left = w.left] BY <1>0, <1>9 DEF Spawn, Go, TypeWorker
    <2>3. w'.do = "wait" /\ w'.id = w.id BY <1>0, <2>2, GoesOn
    <2>4. val'[w.id].result = "pending" /\ val'[w.id].stage = "validation"
      BY <1>9, <2>1 DEF Spawn, SetVal, Ids, ValRecs
    <2>5. WorkerKnows' BY <2>3, <2>4 DEF WorkerKnows
    <2> QED BY <1>1, <2>1, <2>2, <2>5
  <1>10. CASE Stops
    <2>1. w' = w \/ w' = Idle BY <1>10 DEF Stops, Lose
    <2> QED BY <1>4, <2>1, IdleFits
  <1>11. CASE Collect
    <2>1. w.do = "wait" /\ val[w.id].result = "pending" BY <1>0, <1>11 DEF Collect, WorkerKnows
    <2>2. CASE w' = Idle BY <2>2, IdleFits
    <2>3. CASE Retained(w.id) /\ Evidence BY <1>3, <2>1, <2>3
    <2> QED BY <1>11, <2>2, <2>3 DEF Collect, Lose
  <1>12. CASE RecordStep
    <2>1. PICK s : /\ s \in w.left /\ w' = [w EXCEPT !.left = w.left \ {s}]
                   /\ IF w.id \in invalidated THEN UNCHANGED val
                      ELSE SetVal(w.id, [val[w.id] EXCEPT !.saved = @ \cup {s}])
                   /\ UNCHANGED hook
      BY <1>12 DEF RecordStep
    <2>2. w.do = "record" /\ w.id \in Ids /\ w.left \subseteq Steps /\ val[w.id] \in ValRecs
          /\ val[w.id].result = "pending" /\ val[w.id].file = "done" /\ ~val[w.id].stop
      BY <1>0, <1>12 DEF RecordStep, TypeWorker, WorkerKnows
    <2>3. w' = [w EXCEPT !.do = "record", !.left = w.left \ {s}] BY <1>0, <2>1, <2>2 DEF TypeWorker
    <2>4. w'.do = "record" /\ w'.id = w.id /\ w'.left = w.left \ {s} BY <1>0, <2>3, GoesOn
    <2>5. invalidated' = invalidated BY <2>1 DEF hook
    <2>6. /\ val'[w.id].result = "pending" /\ val'[w.id].file = "done" /\ ~val'[w.id].stop
          /\ w.id \notin invalidated => Steps \subseteq val'[w.id].saved \cup w'.left
      <3>1. CASE w.id \in invalidated
        <4>1. val' = val BY <2>1, <3>1
        <4> QED BY <2>2, <3>1, <4>1
      <3>2. CASE w.id \notin invalidated
        <4>1. val'[w.id] = [val[w.id] EXCEPT !.saved = @ \cup {s}] BY <2>1, <2>2, <3>2 DEF SetVal, Ids
        <4>2. /\ val'[w.id].result = "pending" /\ val'[w.id].file = "done" /\ ~val'[w.id].stop
              /\ val'[w.id].saved = val[w.id].saved \cup {s}
          BY <2>2, <4>1 DEF ValRecs
        <4>3. Steps \subseteq val[w.id].saved \cup w.left BY <1>0, <2>2, <3>2 DEF WorkerKnows
        <4> QED BY <2>4, <4>2, <4>3
      <3> QED BY <3>1, <3>2
    <2>8. WorkerKnows' BY <1>0, <2>4, <2>5, <2>6 DEF WorkerKnows
    <2>9. w.left \ {s} \in SUBSET Steps BY <2>2
    <2> QED BY <1>1, <2>2, <2>3, <2>8, <2>9
  <1>13. CASE Finish
    <2>1. w.do = "record" /\ w.id \in Ids /\ val[w.id] \in ValRecs /\ val[w.id].result = "pending"
      BY <1>0, <1>13 DEF Finish, WorkerKnows
    <2>2. CASE Return BY <2>1, <2>2, ReturnFits
    <2>3. CASE w' = [w EXCEPT !.do = "facts", !.left = Failing(val[w.id])]
      <3>1. w'.do = "facts" /\ w'.id = w.id BY <1>0, <2>3, GoesOn
      <3>2. PICK result \in {"succeeded", "gate_failed", "blocked"} : result = Outcome(val[w.id]) BY DEF Outcome
      <3>3. val'[w.id].result = result
        BY <1>13, <2>1, <3>2 DEF Finish, SetVal, ValRecs, Ids
      <3>4. \A o \in DOMAIN res : res[o].id # w.id BY <1>0, <2>1 DEF Charged
      <3>5. ~\E e \in DOMAIN fail : Reserves(e) BY <2>1 DEF Reserves, Idle
      <3>6. DOMAIN res' = DOMAIN res /\ \A o \in DOMAIN res : res'[o].id = res[o].id
        BY <3>5, RepairsPass DEF Passed
      <3>7. WorkerKnows' BY <3>1, <3>3, <3>4, <3>6 DEF WorkerKnows
      <3>8. Failing(val[w.id]) \in SUBSET Steps BY DEF Failing
      <3> QED BY <1>1, <2>1, <2>3, <3>7, <3>8
    <2> QED BY <1>13, <2>2, <2>3 DEF Finish
  <1>14. CASE RecordFailure
    <2>1. PICK s : w.do = "facts" /\ w' = [w EXCEPT !.left = w.left \ {s}] /\ UNCHANGED <<val, res, invalidated>>
      BY <1>14 DEF RecordFailure, hook
    <2>2. w' = [w EXCEPT !.do = "facts", !.left = w.left \ {s}] BY <1>0, <2>1 DEF TypeWorker
    <2>3. w'.do = "facts" /\ w'.id = w.id BY <1>0, <2>2, GoesOn
    <2>4. WorkerKnows' BY <1>0, <2>1, <2>3 DEF WorkerKnows
    <2>5. w.left \ {s} \in SUBSET Steps BY <1>0 DEF TypeWorker
    <2> QED BY <1>1, <2>1, <2>2, <2>4, <2>5
  <1>15. CASE Recorded BY <1>15, ReturnFits DEF Recorded
  <1>16. CASE Prepare
    <2>1. /\ w.do = "prepare" /\ UNCHANGED val
          /\ w' = Idle \/ (val[w.id].result = "pending" /\ Go("begin")) \/ Return
      BY <1>16 DEF Prepare, data
    <2>2. CASE w' = Idle BY <2>2, IdleFits
    <2>3. CASE val[w.id].result = "pending" /\ Go("begin")
      <3>1. w' = [w EXCEPT !.do = "begin", !.left = w.left] BY <1>0, <2>3 DEF Go, TypeWorker
      <3>2. w'.do = "begin" /\ w'.id = w.id BY <1>0, <3>1, GoesOn
      <3>3. WorkerKnows' BY <2>1, <2>3, <3>2 DEF WorkerKnows
      <3>4. w.left \in SUBSET Steps BY <1>0 DEF TypeWorker
      <3> QED BY <1>1, <2>1, <3>1, <3>3, <3>4
    <2>4. CASE Return BY <2>1, <2>4, ReturnFits
    <2> QED BY <2>1, <2>2, <2>3, <2>4
  <1>17. CASE Evaluate
    <2>1. w.do = "evaluate" /\ UNCHANGED val /\ (w' = Idle \/ Go("record")) BY <1>17 DEF Evaluate, data
    <2>2. CASE w' = Idle BY <2>2, IdleFits
    <2>3. CASE Go("record")
      <3>1. w' = [w EXCEPT !.do = "record", !.left = w.left] BY <1>0, <2>3 DEF Go, TypeWorker
      <3>2. w'.do = "record" /\ w'.id = w.id /\ w'.left = Steps
        BY <1>0, <2>1, <3>1, GoesOn DEF WorkerKnows
      <3>3. WorkerKnows' BY <1>0, <2>1, <3>2 DEF WorkerKnows
      <3>4. w.left \in SUBSET Steps BY <1>0 DEF TypeWorker
      <3> QED BY <1>1, <2>1, <3>1, <3>3, <3>4
    <2> QED BY <2>1, <2>2, <2>3
  <1>18. CASE FinishVoid
    <2>1. /\ w.do = "record" /\ w.id \in invalidated /\ UNCHANGED <<val, res, invalidated>>
          /\ w' = [w EXCEPT !.do = "facts", !.left = Failing(val[w.id])]
      BY <1>18 DEF FinishVoid, data, hook
    <2>2. w'.do = "facts" /\ w'.id = w.id BY <1>0, <2>1, GoesOn
    <2>3. val[w.id].result = "pending" BY <1>0, <2>1 DEF WorkerKnows
    <2>4. \A o \in DOMAIN res : res[o].id # w.id BY <1>0, <2>3 DEF Charged
    <2>5. WorkerKnows' BY <2>1, <2>2, <2>4 DEF WorkerKnows
    <2>6. Failing(val[w.id]) \in SUBSET Steps BY DEF Failing
    <2> QED BY <1>1, <2>1, <2>5, <2>6
  <1> QED BY <1>4, <1>5, <1>6, <1>7, <1>8, <1>9, <1>10, <1>11, <1>12, <1>13, <1>14, <1>15,
             <1>16, <1>17, <1>18, WorkerWrites

LEMMA RestKept == ASSUME IInv, Next PROVE TypeRest'
  <1>1. left' \in CaseRecs(left') BY CaseStays DEF IInv, Types, TypeRest
  <1>2. req' \in ReqRecs
    <2>0. req \in ReqRecs BY DEF IInv, Types, TypeRest
    <2>1. CASE UNCHANGED req BY <2>0, <2>1
    <2>2. CASE Reserve
      <3>1. req' = req \/ req' = [req EXCEPT !.state = "Running"]
        BY <2>2 DEF Reserve, CommitReservation, Exhaust
      <3> QED BY <2>0, <3>1 DEF ReqRecs
    <2>3. CASE Control
      <3>1. \/ req' = [req EXCEPT !["paused"] = TRUE] \/ req' = [req EXCEPT !["cancelled"] = TRUE]
            \/ req' = [req EXCEPT !.paused = FALSE]
        BY <2>3 DEF Control
      <3> QED BY <2>0, <3>1 DEF ReqRecs
    <2>4. CASE Submit BY <2>0, <2>4 DEF Submit, ReqRecs
    <2>5. CASE Crash BY <2>0, <2>5 DEF Crash, ReqRecs
    <2> QED BY <2>1, <2>2, <2>3, <2>4, <2>5, ReqWrites
  <1> QED BY <1>1, <1>2 DEF TypeRest, ReqRecs

----------------------------------------------------------------------------
(* The invariant. *)

LEMMA InitInv == Init => IInv
  <1> SUFFICES ASSUME Init PROVE IInv
    OBVIOUS
  <1>1. left \in CaseRecs(left) BY ValidationAssumption DEF Init
  <1>2. /\ run = <<[state |-> "done", cand |-> 1]>> /\ Ids = {} /\ fail = <<>> /\ res = <<>>
        /\ DOMAIN retry = {} /\ w = Idle
        /\ req = [state |-> "Running", paused |-> FALSE, cancelled |-> FALSE, inc |-> 1]
    BY DEF Init, Ids
  <1>3. [state |-> "done", cand |-> 1] \in RunRecs BY DEF RunRecs
  <1>4. /\ run \in Seq(RunRecs) /\ Len(run) = 1 /\ DOMAIN run = {1} /\ run[1].state = "done" /\ run[1].cand = 1
    BY <1>2, <1>3
  <1>5. TypeRun BY <1>4 DEF TypeRun
  <1>6. TypeVal BY <1>2 DEF TypeVal
  <1>7. TypeFail BY <1>2 DEF TypeFail
  <1>8. TypeRetry BY <1>2 DEF TypeRetry
  <1>9. TypeRes BY <1>2 DEF TypeRes
  <1>10. TypeWorker BY <1>2 DEF TypeWorker, Idle
  <1>11. TypeRest BY <1>1, <1>2 DEF TypeRest, ReqRecs
  <1>12. DOMAIN fail = {} /\ DOMAIN res = {} /\ Len(res) = 0 /\ w.do = "idle" BY <1>2 DEF Idle
  <1>13. Linked BY <1>2, <1>4, <1>12 DEF Linked
  <1>14. LastIsLive BY <1>4 DEF LastIsLive
  <1>15. Executions BY <1>2 DEF Executions
  <1>16. Limit \in Nat BY <1>1 DEF CaseRecs, Limit
  <1>17. Charged BY <1>12, <1>16 DEF Charged, Active
  <1>18. RetriesLeft BY <1>2 DEF RetriesLeft
  <1>19. WorkerKnows BY <1>12 DEF WorkerKnows
  <1>20. SucceededIsProven BY <1>2 DEF SucceededIsProven
  <1>21. RepairIsValidated /\ OneRepairPerFailure /\ StartedIsCurrent
    BY <1>12 DEF RepairIsValidated, OneRepairPerFailure, StartedIsCurrent
  <1>22. ActiveIsClear BY <1>12 DEF ActiveIsClear, Active
  <1>23. Hooks BY <1>2 DEF Hooks, Init
  <1> QED BY <1>5, <1>6, <1>7, <1>8, <1>9, <1>10, <1>11, <1>13, <1>14, <1>15, <1>17, <1>18, <1>19,
             <1>20, <1>21, <1>22, <1>23 DEF IInv, Types

LEMMA NextInv == IInv /\ Next => IInv'
  <1> SUFFICES ASSUME IInv, Next PROVE IInv'
    OBVIOUS
  <1>1. TypeVal' /\ Executions' /\ SucceededIsProven' BY RowParts
  <1>2. /\ TypeRun' /\ LastIsLive' /\ \A r \in DOMAIN run' : run'[r].cand \in DOMAIN run'
        /\ DOMAIN run \subseteq DOMAIN run'
    BY RunParts
  <1>3. TypeRes' /\ TypeFail' BY RepairsPass, FailuresPass
  <1>4. Repaired' /\ OneRepairPerFailure' /\ Failed' /\ ActiveIsClear' BY RepairsKept, FailuresKept
  <1>5. /\ TypeRetry' /\ RetriesLeft' /\ DOMAIN retry' \subseteq DOMAIN fail'
        /\ \A e \in DOMAIN retry' : retry'[e].state = "unknown" => retry'[e].id \in Ids'
    BY RetriesKept
  <1>6. StartedIsCurrent' /\ RepairIsValidated' /\ WorkerPart' /\ TypeRest'
    BY CurrentKept, ProvenKept, MovesFit, RestKept
  <1>7. Types' BY <1>1, <1>2, <1>3, <1>5, <1>6 DEF Types, WorkerPart
  <1>8. \A id \in Ids' : Source(id) \in DOMAIN run'
    <2>1. \A id \in Ids : Source(id) \in DOMAIN run BY DEF IInv, Linked
    <2> QED BY <1>2, <2>1, ValMoves
  <1>9. Linked' BY <1>2, <1>4, <1>5, <1>6, <1>8 DEF Linked, Repaired, Failed, WorkerPart, Source
  <1>10. Charged' BY <1>4 DEF Charged, Repaired, Failed
  <1>11. WorkerKnows' /\ Hooks' BY <1>6, HooksGrow DEF WorkerPart
  <1> QED BY <1>1, <1>2, <1>4, <1>5, <1>6, <1>7, <1>9, <1>10, <1>11 DEF IInv

LEMMA InvStutters == IInv /\ UNCHANGED vars => IInv'
  <1> SUFFICES ASSUME IInv, UNCHANGED vars PROVE IInv'
    OBVIOUS
  <1>1. /\ run' = run /\ val' = val /\ fail' = fail /\ retry' = retry /\ res' = res
        /\ req' = req /\ w' = w /\ left' = left /\ frozen' = frozen /\ invalidated' = invalidated
    BY DEF vars, data, hook
  <1>2. Steps' = Steps /\ Ids' = Ids /\ Active' = Active /\ Limit' = Limit
    BY <1>1 DEF Steps, Ids, Active, Limit
  <1>3. Types'
    BY <1>1, <1>2 DEF IInv, Types, TypeRun, TypeVal, TypeFail, TypeRetry, TypeRes, TypeWorker, TypeRest,
      ValRecs, FailRecs, CaseRecs, Ids, Steps
  <1>4. Linked' /\ LastIsLive' /\ Executions' /\ Charged' /\ RetriesLeft'
    BY <1>1, <1>2 DEF IInv, Linked, LastIsLive, Executions, Charged, RetriesLeft, Source
  <1>5. WorkerKnows' /\ Hooks' BY <1>1, <1>2 DEF IInv, WorkerKnows, Hooks
  <1>6. SucceededIsProven' /\ RepairIsValidated' /\ OneRepairPerFailure' /\ StartedIsCurrent'
    BY <1>1, <1>2 DEF IInv, SucceededIsProven, RepairIsValidated, OneRepairPerFailure, StartedIsCurrent, Source
  <1>7. ActiveIsClear' BY <1>1, <1>2 DEF IInv, ActiveIsClear, Unclear
  <1> QED BY <1>3, <1>4, <1>5, <1>6, <1>7 DEF IInv

\* Rows, files, failures, repairs and the worker agree in every reachable state:
\* a crash, a resumed Run, a late retry or a command never makes a row claim
\* more than was executed.
THEOREM Inductive == Spec => []IInv
  <1>1. IInv /\ [Next]_vars => IInv' BY NextInv, InvStutters
  <1> QED BY InitInv, <1>1, PTL DEF Spec

LEMMA InvImplies == IInv => ValidationHolds
  <1> SUFFICES ASSUME IInv PROVE ValidationHolds
    OBVIOUS
  <1>1. StartedOnce BY DEF IInv, Executions, StartedOnce
  <1>2. RepairsBounded
    <2>1. Len(res) <= Limit /\ \A o, p \in Active : o = p BY DEF IInv, Charged
    <2>2. CASE Active = {}
      <3>1. Cardinality(Active) = 0 BY <2>2, FS_EmptySet
      <3> QED BY <2>1, <3>1 DEF RepairsBounded
    <2>3. CASE Active # {}
      <3>1. PICK o \in Active : TRUE BY <2>3
      <3>2. Active = {o} BY <2>1, <3>1
      <3>3. Cardinality(Active) = 1 BY <3>2, FS_Singleton
      <3> QED BY <2>1, <3>3 DEF RepairsBounded
    <2> QED BY <2>2, <2>3
  <1>3. TypeOK
    <2>1. \A r \in DOMAIN run : run[r].state \in {"live", "paused", "done", "failed"} /\ run[r].cand \in DOMAIN run
      <3>1. \A r \in DOMAIN run : run[r] \in RunRecs BY DomainOf DEF IInv, Types, TypeRun
      <3> QED BY <3>1 DEF IInv, Linked, RunRecs
    <2>2. \A id \in Ids : /\ val[id].result \in Results_ /\ val[id].stage \in {"declaration", "validation", "handoff"}
                          /\ val[id].file \in {"none", "begun", "done"} /\ val[id].saved \subseteq Steps
      <3>1. \A id \in Ids : val[id] \in ValRecs BY DEF IInv, Types, TypeVal
      <3> QED BY <3>1 DEF ValRecs
    <2>3. \A f \in DOMAIN fail : fail[f].id \in Ids /\ fail[f].decision \in Decisions
      <3>1. \A f \in DOMAIN fail : fail[f] \in FailRecs BY DomainOf DEF IInv, Types, TypeFail
      <3> QED BY <3>1 DEF IInv, Linked, FailRecs
    <2>4. /\ DOMAIN retry \subseteq DOMAIN fail
          /\ \A e \in DOMAIN retry : /\ retry[e].state \in {"pending", "unknown", "complete", "blocked"}
                                     /\ retry[e].attempts \in 0..Retries
      <3>1. \A e \in DOMAIN retry : retry[e] \in RetryRecs BY DEF IInv, Types, TypeRetry
      <3> QED BY <3>1 DEF IInv, Linked, RetryRecs
    <2>5. \A o \in DOMAIN res : res[o].status \in {"reserved", "started", "succeeded", "failed"} /\ res[o].run \in 0..Len(run)
      <3>1. \A o \in DOMAIN res : res[o] \in ResRecs BY DomainOf DEF IInv, Types, TypeRes
      <3> QED BY <3>1 DEF IInv, Linked, ResRecs
    <2>6. /\ w.do \in {"idle", "prepare", "begin", "spawn", "wait", "evaluate", "record", "facts", "complete"}
          /\ invalidated \subseteq frozen /\ frozen \subseteq Ids
      BY DEF IInv, Types, TypeWorker, Hooks
    <2> QED BY <2>1, <2>2, <2>3, <2>4, <2>5, <2>6 DEF TypeOK, Decisions
  <1> QED BY <1>1, <1>2, <1>3 DEF IInv, ValidationHolds

\* Validations run once and succeed on proof; repairs stay within the authorized
\* number, belong to one clear failure and to the newest Run, and succeed exactly
\* with a validation of it (validation_store, recovery_store, validation_repair).
THEOREM ValidationSound == Spec => []ValidationHolds
  BY Inductive, InvImplies, PTL

\* save_outcome decides once: no replay of the worker, no retry of the same
\* candidate and no late end of the invocation changes a decided result, and no
\* resume revives a validation that a pause or a cancel interrupted.
THEOREM ResultsFinal == Spec => DecidedStays
  <1>1. IInv /\ [Next]_vars =>
          [\A id \in Ids :
              /\ val[id].result # "pending" => val'[id].result = val[id].result
              /\ val[id].result = "pending" /\ id \in invalidated =>
                    id \in invalidated' /\ val'[id].result \in {"pending", "blocked"}]_vars
    BY RowsStaySound, InterruptedStays
  <1> QED BY <1>1, Inductive, PTL DEF Spec, DecidedStays

================================================================================
