------------------------------ MODULE MergeProof ------------------------------
(***************************************************************************)
(* Theorems about the automatic merge, for every number of bases, every    *)
(* set of settings and every bound on what people and faults do.           *)
(***************************************************************************)
EXTENDS Merge, TLAPS

----------------------------------------------------------------------------
(* The inductive invariant. *)

StageNames == {"sync", "settle", "pre", "merge", "accept", "recover", "close"}
Observations ==
    [base : Bases, state : {"open", "closed", "merged"}, by : {"none", "broker", "person"},
     checks : {"pending", "ok", "bad"}, post : {"absent", "pending", "ok", "bad"}]
Steps == {"start", "begin", "run", "decide", "admit", "ready", "recheck", "send", "wait",
          "answered", "refused", "dispatch", "post", "collect", "judge", "prepare"}

TypeRemote == pr \in Observations /\ wire \subseteq Bases /\ sent \in Nat /\ runs \in Nat
TypeOps == op \in [Bases -> Ops]
TypeReq ==
    req \in [state : {"Submitted", "Done", "Cancelled"}, paused : BOOLEAN, cancelled : BOOLEAN,
             superseded : BOOLEAN, closed : BOOLEAN, released : BOOLEAN, cleaned : BOOLEAN]
TypeRec ==
    rec \in [state : {"none", "pending", "ready", "blocked"}, attempts : 0..MaxAttempts,
             b : Bases, base : Bases]
TypeSeen == seen \in [pr : Observations, fresh : BOOLEAN]
TypeWorker ==
    /\ w = [at |-> w.at, do |-> w.do, b |-> w.b, o |-> w.o]
    /\ w.at \in StageNames /\ w.do \in Steps /\ w.b \in Bases
    /\ w.at \in {"pre", "merge", "accept"} /\ w.do # "start" => w.o \in Observations
TypeLeft == left \in [testMerge : BOOLEAN, dispatching : BOOLEAN, moves : Nat, faults : Nat]
Types == TypeRemote /\ TypeOps /\ TypeReq /\ TypeRec /\ TypeSeen /\ TypeWorker /\ TypeLeft

\* a row holds the unique index unless it is absent or invalidated
Active(o) == o.state \notin {"none", "invalidated"}
OneActive == \A a, b \in Bases : Active(op[a]) /\ Active(op[b]) => a = b

\* what a row has gone through, read off its columns; pr.state is final
\* once it is merged
RowsConsistent ==
    \A b \in Bases :
       /\ op[b].started => /\ op[b].state \in {"unknown", "merged", "complete", "blocked", "cancelled"}
                           /\ ~NeedsPre(b)
       /\ op[b].state \in {"merged", "complete", "cancelled"} => op[b].merged
       /\ op[b].merged => pr.state = "merged"
       /\ op[b].dispatched => op[b].state \in {"merged", "complete", "blocked", "cancelled"}
       /\ op[b].state = "complete" => op[b].method /\ op[b].acc = "passed" /\ op[b].file = "passed"

\* GitHub has seen only what a begun operation sent
RemoteExplained ==
    /\ sent <= 1 /\ runs <= 1
    /\ sent > 0 => \E b \in Bases : op[b].started
    /\ runs > 0 => \E b \in Bases : op[b].dispatched
    /\ \A b \in wire : op[b].started
    /\ pr.by = "broker" => op[pr.base].started
    /\ pr.by # "none" <=> pr.state = "merged"

\* what the worker read before its last await is still so
WorkerKnows ==
    /\ w.at = "pre" /\ w.do # "start" => op[w.b].state = "prepared"
    /\ w.at = "merge" =>
          /\ w.do = "admit" => \A b \in Bases : ~Active(op[b])
          /\ w.do \notin {"start", "admit"} => op[w.b].state \in {"prepared", "unknown"}
          /\ w.do \in {"ready", "begin"} => op[w.b].state = "prepared" /\ ~NeedsPre(w.b)
          /\ w.do \in {"recheck", "send"} => op[w.b].started /\ sent = 0
    /\ w.at = "accept" /\ w.do # "start" =>
          /\ op[w.b].state = "merged"
          /\ w.do = "run" => op[w.b].file = "begun"
          /\ w.do = "post" => op[w.b].dispatched /\ runs = 0
    /\ w.at \in {"pre", "merge", "accept"} /\ w.do # "start" /\ w.o.state = "merged" => pr.state = "merged"

\* what a cancel, a replacement and a completion rely on
RequirementKnows ==
    /\ IF rec.state = "none" THEN rec.attempts = 0 ELSE op[rec.b].state = "blocked"
    /\ req.superseded => \A b \in Bases : ~op[b].started
    /\ req.cleaned => req.cancelled /\ (pr.state = "merged" \/ \A b \in Bases : ~op[b].started)
    /\ req.state = "Done" => ~req.cancelled /\ \E b \in Bases : op[b].state = "complete"

IInv == Types /\ OneActive /\ RowsConsistent /\ RemoteExplained /\ WorkerKnows /\ RequirementKnows

----------------------------------------------------------------------------
(* Types.  Types is kept part by part: what a step leaves alone is kept by *)
(* TypeKept, the worker's record by WorkerKept.                            *)

LEMMA AfterStage == ASSUME NEW s \in StageNames PROVE After(s) \in StageNames
  <1>1. PICK i \in 1..7 : Stages[i] = s BY DEF StageNames, Stages
  <1>2. \A j \in 1..7 : Stages[(j % 7) + 1] \in StageNames BY DEF StageNames, Stages
  <1> QED BY <1>1, <1>2 DEF After

LEMMA TypeInit == Init => Types
  <1> SUFFICES ASSUME Init PROVE Types OBVIOUS
  <1>1. TypeRemote /\ TypeSeen BY MergeAssumption
    DEF Init, TypeRemote, TypeSeen, Observations, Bases, Dispatching
  <1>2. TypeOps BY DEF Init, TypeOps, Ops, NoOp
  <1>3. TypeReq /\ TypeRec BY MergeAssumption DEF Init, TypeReq, TypeRec, Bases, MaxAttempts
  <1>4. TypeWorker BY MergeAssumption DEF Init, TypeWorker, Idle, StageNames, Steps, Bases
  <1>5. TypeLeft BY MergeAssumption DEF Init, TypeLeft
  <1> QED BY <1>1, <1>2, <1>3, <1>4, <1>5 DEF Types

LEMMA TypeKept == Types =>
    /\ UNCHANGED remote => TypeRemote'
    /\ UNCHANGED op => TypeOps'
    /\ UNCHANGED req => TypeReq'
    /\ UNCHANGED rec => TypeRec'
    /\ UNCHANGED seen => TypeSeen'
    /\ UNCHANGED w => TypeWorker'
    /\ UNCHANGED left => TypeLeft'
  BY DEF Types, TypeRemote, TypeOps, TypeReq, TypeRec, TypeSeen, TypeWorker, TypeLeft, remote

\* The two ways in which the worker moves on.
LEMMA WorkerLeaves == ASSUME TypeWorker, Leave PROVE TypeWorker' /\ w'.do = "start"
  BY AfterStage, MergeAssumption DEF TypeWorker, Leave, Idle, Steps, Bases

LEMMA WorkerGoes ==
  ASSUME TypeWorker, NEW step \in Steps \ {"start"}, Go(step), w.at = "recover" \/ w.do # "start"
  PROVE  TypeWorker' /\ w'.do = step /\ w'.at = w.at /\ w'.b = w.b /\ w'.o = w.o
  BY DEF TypeWorker, Go, Steps

LEMMA TypeStep == Types /\ [Next]_vars => Types'
  <1> SUFFICES ASSUME Types, [Next]_vars PROVE Types' OBVIOUS
  <1> USE TypeKept DEF Types
  <1>1. CASE Sync
    <2>1. TypeSeen' BY <1>1 DEF Sync, TypeSeen, At, TypeWorker, TypeRemote
    <2>2. TypeWorker' BY <1>1, WorkerLeaves, WorkerGoes DEF Sync, TypeWorker, At,
        Idle, Steps
    <2> QED BY <1>1, <2>1, <2>2 DEF Sync
  <1>2. CASE PreObserve
    <2>1. TypeWorker' BY <1>2, WorkerLeaves, WorkerGoes DEF PreObserve,
        TypeWorker, At, Idle, Steps, TypeRemote, Observations, Unvalidated
    <2> QED BY <1>2, <2>1 DEF PreObserve
  <1>3. CASE PreBegin
    <2>1. TypeOps' BY <1>3 DEF PreBegin, Set, TypeOps, Ops, At, TypeWorker
    <2>2. TypeWorker' BY <1>3, WorkerLeaves, WorkerGoes DEF PreBegin, Set,
        TypeWorker, At, Idle, Steps
    <2> QED BY <1>3, <2>1, <2>2 DEF PreBegin
  <1>4. CASE PreRun
    <2>1. TypeOps' BY <1>4 DEF PreRun, Set, Block, TypeOps, Ops, At, TypeWorker
    <2>2. TypeWorker' BY <1>4, WorkerLeaves, WorkerGoes DEF PreRun, Set, Block,
        TypeWorker, At, Idle, Steps
    <2> QED BY <1>4, <2>1, <2>2 DEF PreRun
  <1>5. CASE Observe
    <2>1. TypeWorker' BY <1>5, WorkerLeaves, WorkerGoes DEF Observe, TypeWorker,
        At, Idle, Steps, TypeRemote, Observations, Due
    <2> QED BY <1>5, <2>1 DEF Observe
  <1>6. CASE Prepare
    <2>1. TypeOps' BY <1>6 DEF Prepare, Set, TypeOps, Ops, At, TypeWorker
    <2>2. TypeWorker' BY <1>6, WorkerLeaves, WorkerGoes DEF Prepare, Set,
        TypeWorker, At, Idle, Steps
    <2> QED BY <1>6, <2>1, <2>2 DEF Prepare
  <1>7. CASE Record
    <2>1. TypeOps' BY <1>7 DEF Record, TypeOps, Ops, At, TypeWorker
    <2>2. TypeWorker' BY <1>7, WorkerLeaves, WorkerGoes DEF Record, TypeWorker,
        At, Idle, Steps
    <2> QED BY <1>7, <2>1, <2>2 DEF Record
  <1>8. CASE OnlyObserve
    <2>1. TypeWorker' BY <1>8, WorkerLeaves, WorkerGoes DEF OnlyObserve,
        TypeWorker, At, Idle, Steps
    <2> QED BY <1>8, <2>1 DEF OnlyObserve
  <1>9. CASE Decide
    <2>1. TypeSeen' BY <1>9 DEF Decide, Set, TypeSeen, At, TypeWorker, TypeRemote
    <2>2. TypeOps' BY <1>9 DEF Decide, Set, TypeOps, Ops, At, TypeWorker
    <2>3. TypeWorker' BY <1>9, WorkerLeaves, WorkerGoes DEF Decide, Set,
        TypeWorker, At, Idle, Steps
    <2> QED BY <1>9, <2>1, <2>2, <2>3 DEF Decide
  <1>10. CASE Ready
    <2>1. TypeOps' BY <1>10 DEF Ready, Set, Block, TypeOps, Ops, At, TypeWorker
    <2>2. TypeWorker' BY <1>10, WorkerLeaves, WorkerGoes DEF Ready, Set, Block,
        TypeWorker, At, Idle, Steps
    <2> QED BY <1>10, <2>1, <2>2 DEF Ready
  <1>11. CASE Begin
    <2>1. TypeOps' BY <1>11 DEF Begin, TypeOps, Ops, At, TypeWorker
    <2>2. TypeWorker' BY <1>11, WorkerLeaves, WorkerGoes DEF Begin, TypeWorker,
        At, Idle, Steps
    <2> QED BY <1>11, <2>1, <2>2 DEF Begin
  <1>12. CASE Recheck
    <2>1. TypeWorker' BY <1>12, WorkerLeaves, WorkerGoes DEF Recheck, TypeWorker,
        At, Idle, Steps
    <2> QED BY <1>12, <2>1 DEF Recheck
  <1>13. CASE Send
    <2>1. TypeRemote' BY <1>13 DEF Send, TypeRemote, TypeWorker
    <2>2. TypeWorker' BY <1>13, WorkerLeaves, WorkerGoes DEF Send, TypeWorker, At,
        Idle, Steps
    <2> QED BY <1>13, <2>1, <2>2 DEF Send, remote
  <1>14. CASE Retain
    <2>1. TypeOps'
      <3>1. PICK v \in BOOLEAN : op' = [op EXCEPT ![w.b].answered = v]
        BY <1>14 DEF Retain, Set
      <3> QED BY <3>1 DEF TypeOps, Ops
    <2>2. TypeWorker' BY <1>14, WorkerLeaves, WorkerGoes DEF Retain, Set,
        TypeWorker, At, Idle, Steps
    <2> QED BY <1>14, <2>1, <2>2 DEF Retain
  <1>15. CASE NextMerged
    <2>1. TypeOps' BY <1>15 DEF NextMerged, Withdrawn, TypeOps, Ops, At,
        TypeWorker
    <2>2. TypeWorker' BY <1>15, WorkerLeaves, WorkerGoes DEF NextMerged,
        Withdrawn, TypeWorker, At, Idle, Steps, TypeRemote, Observations, Merged
    <2> QED BY <1>15, <2>1, <2>2 DEF NextMerged
  <1>16. CASE AcceptanceReady
    <2>1. TypeOps' BY <1>16 DEF AcceptanceReady, Block, Set, TypeOps, Ops, At,
        TypeWorker
    <2>2. TypeWorker' BY <1>16, WorkerLeaves, WorkerGoes DEF AcceptanceReady,
        Block, Set, TypeWorker, At, Idle, Steps
    <2> QED BY <1>16, <2>1, <2>2 DEF AcceptanceReady
  <1>17. CASE Overdue
    <2>1. TypeOps' BY <1>17 DEF Overdue, Block, Set, TypeOps, Ops, At, TypeWorker
    <2>2. TypeWorker' BY <1>17, WorkerLeaves, WorkerGoes DEF Overdue, Block, Set,
        TypeWorker, At, Idle, Steps
    <2> QED BY <1>17, <2>1, <2>2 DEF Overdue
  <1>18. CASE Reserve
    <2>1. TypeOps'
      <3>1. CASE Set("dispatched", TRUE)
        <4>1. PICK v \in BOOLEAN : op' = [op EXCEPT ![w.b].dispatched = v]
          BY <3>1 DEF Set
        <4> QED BY <4>1 DEF TypeOps, Ops
      <3>2. CASE Block BY <3>2 DEF Block, Set, TypeOps, Ops
      <3> QED BY <1>18, <3>1, <3>2 DEF Reserve
    <2>2. TypeWorker' BY <1>18, WorkerLeaves, WorkerGoes DEF Reserve, Set, Block,
        TypeWorker, At, Idle, Steps
    <2> QED BY <1>18, <2>1, <2>2 DEF Reserve
  <1>19. CASE Dispatch
    <2>1. TypeRemote' BY <1>19 DEF Dispatch, TypeRemote, Observations, At
    <2>2. TypeWorker' BY <1>19, WorkerLeaves, WorkerGoes DEF Dispatch, TypeWorker,
        At, Idle, Steps, TypeRemote
    <2> QED BY <1>19, <2>1, <2>2 DEF Dispatch, remote
  <1>20. CASE BeginAcceptance
    <2>1. TypeOps' BY <1>20 DEF BeginAcceptance, Set, TypeOps, Ops, At, TypeWorker
    <2>2. TypeWorker' BY <1>20, WorkerLeaves, WorkerGoes DEF BeginAcceptance, Set,
        TypeWorker, At, Idle, Steps
    <2> QED BY <1>20, <2>1, <2>2 DEF BeginAcceptance
  <1>21. CASE Collect
    <2>1. TypeOps'
      <3>1. CASE op[w.b].file = "none" BY <1>21, <3>1 DEF Collect, Set, TypeOps, Ops
      <3>2. CASE op[w.b].file = "begun"
        BY <1>21, <3>2 DEF Collect, Block, Set, TypeOps, Ops
      <3>3. CASE op[w.b].file \notin {"none", "begun"} BY <1>21, <3>3 DEF Collect
      <3> QED BY <3>1, <3>2, <3>3
    <2>2. TypeWorker' BY <1>21, WorkerLeaves, WorkerGoes DEF Collect, Set, Block,
        TypeWorker, At, Idle, Steps
    <2> QED BY <1>21, <2>1, <2>2 DEF Collect
  <1>22. CASE Run
    <2>1. TypeOps' BY <1>22 DEF Run, Set, Block, TypeOps, Ops, At, TypeWorker
    <2>2. TypeWorker' BY <1>22, WorkerLeaves, WorkerGoes DEF Run, Set, Block,
        TypeWorker, At, Idle, Steps
    <2> QED BY <1>22, <2>1, <2>2 DEF Run
  <1>23. CASE PostMergeFailure
    <2>1. TypeOps' BY <1>23 DEF PostMergeFailure, TypeOps, Ops, At, TypeWorker
    <2>2. TypeWorker' BY <1>23, WorkerLeaves, WorkerGoes DEF PostMergeFailure,
        TypeWorker, At, Idle, Steps
    <2> QED BY <1>23, <2>1, <2>2 DEF PostMergeFailure
  <1>24. CASE Finish
    <2>1. TypeOps' BY <1>24 DEF Finish, Set, TypeOps, Ops, At, TypeWorker
    <2>2. TypeReq' BY <1>24 DEF Finish, Set, TypeReq
    <2>3. TypeSeen' BY <1>24 DEF Finish, Set, TypeSeen, At, TypeWorker, TypeRemote
    <2>4. TypeWorker' BY <1>24, WorkerLeaves, WorkerGoes DEF Finish, Set,
        TypeWorker, At, Idle, Steps
    <2> QED BY <1>24, <2>1, <2>2, <2>3, <2>4 DEF Finish
  <1>25. CASE Claim
    <2>1. TypeRec' BY <1>25 DEF Claim, TypeRec, MaxAttempts, Exhausted, Claimable
    <2>2. TypeWorker' BY <1>25, WorkerLeaves, WorkerGoes DEF Claim, TypeWorker,
        At, Idle, Steps
    <2> QED BY <1>25, <2>1, <2>2 DEF Claim
  <1>26. CASE Freeze
    <2>1. TypeRec' BY <1>26 DEF Freeze, Failure, TypeRec, MaxAttempts
    <2>2. TypeWorker' BY <1>26, WorkerLeaves, WorkerGoes DEF Freeze, Failure,
        TypeWorker, At, Idle, Steps
    <2> QED BY <1>26, <2>1, <2>2 DEF Freeze
  <1>27. CASE Settle \/ CoordinatorSettle
    <2>1. TypeReq' BY <1>27 DEF Settle, CoordinatorSettle, SettleRows, TypeReq
    <2>2. TypeWorker' BY <1>27, WorkerLeaves, WorkerGoes DEF Settle, CoordinatorSettle, SettleRows, TypeWorker,
        At, Idle, Steps
    <2> QED BY <1>27, <2>1, <2>2 DEF Settle, CoordinatorSettle, SettleRows
  <1>28. CASE CloseOwn
    <2>1. TypeRemote' BY <1>28 DEF CloseOwn, TypeRemote, Observations, At
    <2>2. TypeReq' BY <1>28 DEF CloseOwn, TypeReq, At, TypeRemote
    <2>3. TypeWorker' BY <1>28, WorkerLeaves, WorkerGoes DEF CloseOwn, TypeWorker,
        At, Idle, Steps, TypeRemote
    <2> QED BY <1>28, <2>1, <2>2, <2>3 DEF CloseOwn, remote
  <1>29. CASE Age
    <2>1. TypeSeen' BY <1>29 DEF Age, TypeSeen, At, TypeWorker, TypeRemote
    <2> QED BY <1>29, <2>1 DEF Age
  <1>30. CASE Supersede
    <2>1. TypeReq' BY <1>30 DEF Supersede, TypeReq
    <2> QED BY <1>30, <2>1 DEF Supersede
  <1>31. CASE Crash
    <2>1. TypeLeft' BY <1>31 DEF Crash, Fault, TypeLeft
    <2>2. TypeWorker' BY <1>31, WorkerLeaves, WorkerGoes, AfterStage,
        MergeAssumption DEF Crash, Fault, TypeWorker, At, Idle, Steps, StageNames,
        Bases
    <2> QED BY <1>31, <2>1, <2>2 DEF Crash, Fault
  <1>32. CASE CallFails
    <2>1. TypeLeft' BY <1>32 DEF CallFails, Fault, Set, TypeLeft
    <2>2. TypeWorker' BY <1>32, WorkerLeaves, WorkerGoes, AfterStage,
        MergeAssumption DEF CallFails, Fault, Set, TypeWorker, At, Idle, Steps,
        StageNames, Bases
    <2>3. TypeOps' BY <1>32 DEF CallFails, Fault, Set, TypeOps, Ops, At,
        TypeWorker
    <2>4. TypeRec' BY <1>32 DEF CallFails, Fault, Set, TypeRec, MaxAttempts
    <2> QED BY <1>32, <2>1, <2>2, <2>3, <2>4 DEF CallFails, Fault
  <1>33. ASSUME NEW b \in Bases, Answer(b) PROVE Types'
    <2>1. TypeRemote' BY <1>33 DEF Answer, TypeRemote, Observations, At
    <2>2. TypeWorker' BY <1>33, WorkerLeaves, WorkerGoes DEF Answer, TypeWorker,
        At, Idle, Steps, TypeRemote
    <2> QED BY <1>33, <2>1, <2>2 DEF Answer, remote
  <1>34. CASE ChecksFinish
    <2>1. TypeRemote' BY <1>34 DEF ChecksFinish, TypeRemote, Observations, At
    <2> QED BY <1>34, <2>1 DEF ChecksFinish, remote
  <1>35. CASE PostFinish
    <2>1. TypeRemote' BY <1>35 DEF PostFinish, TypeRemote, Observations, At
    <2> QED BY <1>35, <2>1 DEF PostFinish, remote
  <1>36. CASE MoveBase
    <2>1. TypeLeft' BY <1>36, MergeAssumption DEF MoveBase, Move, TypeLeft, Bases
    <2>2. TypeRemote'
      <3>1. pr.base + 1 \in Bases BY <1>36, MergeAssumption DEF MoveBase, TypeRemote, Observations, Bases
      <3> QED BY <1>36, <3>1 DEF MoveBase, Move, TypeRemote, Observations
    <2>3. TypeReq' BY <1>36, MergeAssumption DEF MoveBase, Move, TypeReq, Bases
    <2> QED BY <1>36, <2>1, <2>2, <2>3 DEF MoveBase, remote, Move
  <1>37. CASE Close
    <2>1. TypeLeft' BY <1>37 DEF Close, Move, TypeLeft
    <2>2. TypeRemote' BY <1>37 DEF Close, Move, TypeRemote, Observations, At
    <2>3. TypeReq' BY <1>37 DEF Close, Move, TypeReq
    <2> QED BY <1>37, <2>1, <2>2, <2>3 DEF Close, remote, Move
  <1>38. CASE Reopen
    <2>1. TypeLeft' BY <1>38 DEF Reopen, Move, TypeLeft
    <2>2. TypeRemote' BY <1>38 DEF Reopen, Move, TypeRemote, Observations, At
    <2>3. TypeReq' BY <1>38 DEF Reopen, Move, TypeReq
    <2> QED BY <1>38, <2>1, <2>2, <2>3 DEF Reopen, remote, Move
  <1>39. CASE PersonMerges
    <2>1. TypeLeft' BY <1>39 DEF PersonMerges, Move, TypeLeft
    <2>2. TypeRemote' BY <1>39 DEF PersonMerges, Move, TypeRemote, Observations,
        At
    <2>3. TypeReq' BY <1>39 DEF PersonMerges, Move, TypeReq
    <2> QED BY <1>39, <2>1, <2>2, <2>3 DEF PersonMerges, remote, Move
  <1>40. CASE Pause
    <2>1. TypeLeft' BY <1>40 DEF Pause, Move, TypeLeft
    <2>2. TypeRemote' BY <1>40 DEF Pause, Move, TypeRemote, Observations, At
    <2>3. TypeReq' BY <1>40 DEF Pause, Move, TypeReq
    <2> QED BY <1>40, <2>1, <2>2, <2>3 DEF Pause, remote, Move
  <1>41. CASE Cancel
    <2>1. TypeLeft' BY <1>41 DEF Cancel, Move, TypeLeft
    <2>2. TypeRemote' BY <1>41 DEF Cancel, Move, TypeRemote, Observations, At
    <2>3. TypeReq' BY <1>41 DEF Cancel, Move, TypeReq
    <2> QED BY <1>41, <2>1, <2>2, <2>3 DEF Cancel, remote, Move
  <1>42. CASE Resume
    <2>1. TypeReq' BY <1>42 DEF Resume, TypeReq
    <2> QED BY <1>42, <2>1 DEF Resume
  <1>43. CASE Decision
    <2>1. TypeRec' BY <1>43 DEF Decision, TypeRec, MaxAttempts, Eligibles,
        TypeSeen, Observations
    <2>2. TypeLeft' BY <1>43 DEF Decision, TypeLeft, Eligibles, TypeSeen,
        Observations
    <2> QED BY <1>43, <2>1, <2>2 DEF Decision
  <1>44. CASE UNCHANGED vars BY <1>44 DEF vars
  <1> QED BY <1>1, <1>2, <1>3, <1>4, <1>5, <1>6, <1>7, <1>8, <1>9, <1>10, <1>11,
      <1>12, <1>13, <1>14, <1>15, <1>16, <1>17, <1>18, <1>19, <1>20, <1>21, <1>22,
      <1>23, <1>24, <1>25, <1>26, <1>27, <1>28, <1>29, <1>30, <1>31, <1>32, <1>33,
      <1>34, <1>35, <1>36, <1>37, <1>38, <1>39, <1>40, <1>41, <1>42, <1>43, <1>44
      DEF Next, Worker, Platform, People


----------------------------------------------------------------------------
(* The inductive step.  InvKept says what each part depends on.            *)

LEMMA InvInit == Init => IInv
  <1> SUFFICES ASSUME Init PROVE IInv OBVIOUS
  <1>1. Types BY TypeInit
  <1>2. OneActive BY DEF Init, OneActive, Active, NoOp
  <1>3. RowsConsistent BY DEF Init, RowsConsistent, NoOp
  <1>4. RemoteExplained BY DEF Init, RemoteExplained
  <1>5. WorkerKnows BY DEF Init, WorkerKnows, Idle
  <1>6. RequirementKnows BY DEF Init, RequirementKnows, NoOp
  <1> QED BY <1>1, <1>2, <1>3, <1>4, <1>5, <1>6 DEF IInv

\* What is merged stays merged, and the setting is never changed.
LEMMA MergedStays ==
  ASSUME Types, [Next]_vars
  PROVE  (pr.state = "merged" => pr'.state = "merged") /\ TestMerge' = TestMerge
  <1> USE DEF remote, TestMerge
  <1>1. CASE Sync BY <1>1 DEF Sync
  <1>2. CASE PreObserve BY <1>2 DEF PreObserve
  <1>3. CASE PreBegin BY <1>3 DEF PreBegin
  <1>4. CASE PreRun BY <1>4 DEF PreRun
  <1>5. CASE Observe BY <1>5 DEF Observe
  <1>6. CASE Prepare BY <1>6 DEF Prepare
  <1>7. CASE Record BY <1>7 DEF Record
  <1>8. CASE OnlyObserve BY <1>8 DEF OnlyObserve
  <1>9. CASE Decide BY <1>9 DEF Decide
  <1>10. CASE Ready BY <1>10 DEF Ready
  <1>11. CASE Begin BY <1>11 DEF Begin
  <1>12. CASE Recheck BY <1>12 DEF Recheck
  <1>13. CASE Send BY <1>13 DEF Send, TypeRemote, Observations, Types, TypeLeft
  <1>14. CASE Retain BY <1>14 DEF Retain
  <1>15. CASE NextMerged BY <1>15 DEF NextMerged
  <1>16. CASE AcceptanceReady BY <1>16 DEF AcceptanceReady
  <1>17. CASE Overdue BY <1>17 DEF Overdue
  <1>18. CASE Reserve BY <1>18 DEF Reserve
  <1>19. CASE Dispatch BY <1>19 DEF Dispatch, TypeRemote, Observations, Types,
      TypeLeft
  <1>20. CASE BeginAcceptance BY <1>20 DEF BeginAcceptance
  <1>21. CASE Collect BY <1>21 DEF Collect
  <1>22. CASE Run BY <1>22 DEF Run
  <1>23. CASE PostMergeFailure BY <1>23 DEF PostMergeFailure
  <1>24. CASE Finish BY <1>24 DEF Finish
  <1>25. CASE Claim BY <1>25 DEF Claim
  <1>26. CASE Freeze BY <1>26 DEF Freeze
  <1>27. CASE Settle \/ CoordinatorSettle BY <1>27 DEF Settle, CoordinatorSettle, SettleRows
  <1>28. CASE CloseOwn BY <1>28 DEF CloseOwn, TypeRemote, Observations, Types,
      TypeLeft
  <1>29. CASE Age BY <1>29 DEF Age
  <1>30. CASE Supersede BY <1>30 DEF Supersede
  <1>31. CASE Crash BY <1>31 DEF Crash, Fault, TypeRemote, Observations, Types,
      TypeLeft
  <1>32. CASE CallFails BY <1>32 DEF CallFails, Fault, TypeRemote, Observations,
      Types, TypeLeft
  <1>33. ASSUME NEW b \in Bases, Answer(b) PROVE (pr.state = "merged" => pr'.state
      = "merged") /\ TestMerge' = TestMerge BY <1>33 DEF Answer, TypeRemote,
      Observations, Types, TypeLeft, PrReady
  <1>34. CASE ChecksFinish BY <1>34 DEF ChecksFinish, TypeRemote, Observations,
      Types, TypeLeft
  <1>35. CASE PostFinish BY <1>35 DEF PostFinish, TypeRemote, Observations, Types,
      TypeLeft
  <1>36. CASE MoveBase BY <1>36 DEF MoveBase, Move, TypeRemote, Observations,
      Types, TypeLeft
  <1>37. CASE Close BY <1>37 DEF Close, Move, TypeRemote, Observations, Types,
      TypeLeft
  <1>38. CASE Reopen BY <1>38 DEF Reopen, Move, TypeRemote, Observations, Types,
      TypeLeft
  <1>39. CASE PersonMerges BY <1>39 DEF PersonMerges, Move, TypeRemote,
      Observations, Types, TypeLeft
  <1>40. CASE Pause BY <1>40 DEF Pause, Move, TypeRemote, Observations, Types,
      TypeLeft
  <1>41. CASE Cancel BY <1>41 DEF Cancel, Move, TypeRemote, Observations, Types,
      TypeLeft
  <1>42. CASE Resume BY <1>42 DEF Resume
  <1>43. CASE Decision BY <1>43 DEF Decision, TypeRemote, Observations, Types,
      TypeLeft
  <1>44. CASE UNCHANGED vars BY <1>44 DEF vars
  <1> QED BY <1>1, <1>2, <1>3, <1>4, <1>5, <1>6, <1>7, <1>8, <1>9, <1>10, <1>11,
      <1>12, <1>13, <1>14, <1>15, <1>16, <1>17, <1>18, <1>19, <1>20, <1>21, <1>22,
      <1>23, <1>24, <1>25, <1>26, <1>27, <1>28, <1>29, <1>30, <1>31, <1>32, <1>33,
      <1>34, <1>35, <1>36, <1>37, <1>38, <1>39, <1>40, <1>41, <1>42, <1>43, <1>44
      DEF Next, Worker, Platform, People

\* What was started or dispatched once stays so, only Begin starts, and a
\* blocked or complete row is final.
LEMMA RowsGrow ==
  ASSUME IInv, [Next]_vars, NEW b \in Bases
  PROVE  /\ op[b].started => op'[b].started
         /\ op[b].dispatched => op'[b].dispatched
         /\ ~Begin => (op'[b].started => op[b].started)
         /\ op[b].state \in {"blocked", "complete"} => op'[b].state = op[b].state
  <1> USE DEF IInv, Types, TypeOps, Ops, TypeWorker, At, WorkerKnows
  <1>1. CASE PreBegin BY <1>1 DEF PreBegin, Set
  <1>2. CASE PreRun BY <1>2 DEF PreRun, Set, Block
  <1>3. CASE Prepare BY <1>3 DEF Prepare, Set, Active
  <1>4. CASE Record
    <2>1. PICK v \in BOOLEAN :
        op' = [op EXCEPT ![w.b].state = "merged", ![w.b].merged = TRUE, ![w.b].method = v]
      BY <1>4 DEF Record
    <2> QED BY <1>4, <2>1 DEF Record
  <1>5. CASE Decide BY <1>5 DEF Decide, Set
  <1>6. CASE Ready BY <1>6 DEF Ready, Set, Block
  <1>7. CASE Begin BY <1>7 DEF Begin
  <1>8. CASE Retain
    <2>1. PICK v \in BOOLEAN : op' = [op EXCEPT ![w.b].answered = v] BY <1>8 DEF Retain, Set
    <2> QED BY <1>8, <2>1 DEF Retain
  <1>9. CASE NextMerged BY <1>9 DEF NextMerged, Withdrawn
  <1>10. CASE AcceptanceReady BY <1>10 DEF AcceptanceReady, Block, Set
  <1>11. CASE Overdue BY <1>11 DEF Overdue, Block, Set
  <1>12. CASE Reserve BY <1>12 DEF Reserve, Set, Block
  <1>13. CASE BeginAcceptance BY <1>13 DEF BeginAcceptance, Set
  <1>14. CASE Collect BY <1>14 DEF Collect, Set, Block
  <1>15. CASE Run BY <1>15 DEF Run, Set, Block
  <1>16. CASE PostMergeFailure BY <1>16 DEF PostMergeFailure
  <1>17. CASE Finish
    <2>0. op[w.b].state = "merged" /\ ~Begin BY <1>17 DEF Finish, Begin
    <2>1. CASE Set("acc", "passed") BY <2>0, <2>1 DEF Set
    <2>2. CASE op' = [op EXCEPT ![w.b].state = "blocked", ![w.b].acc = "passed"] BY <2>0, <2>2
    <2>3. CASE op' = [op EXCEPT ![w.b].state = "complete", ![w.b].acc = "passed"] BY <2>0, <2>3
    <2> QED BY <1>17, <2>1, <2>2, <2>3 DEF Finish
  <1>18. CASE CallFails BY <1>18 DEF CallFails, Fault, Set
  <1>19. CASE UNCHANGED op BY <1>19
  <1> QED BY <1>1, <1>2, <1>3, <1>4, <1>5, <1>6, <1>7, <1>8, <1>9, <1>10, <1>11,
      <1>12, <1>13, <1>14, <1>15, <1>16, <1>17, <1>18, <1>19 DEF Next, Worker,
      Platform, People, vars, Fault, Move, Sync, PreObserve, Observe, OnlyObserve,
      Recheck, Send, Dispatch, Claim, Freeze, Settle, CoordinatorSettle, SettleRows, CloseOwn, Age, Supersede,
      Crash, Answer, ChecksFinish, PostFinish, MoveBase, Close, Reopen,
      PersonMerges, Pause, Cancel, Resume, Decision

LEMMA InvKept ==
  ASSUME IInv, [Next]_vars, Types'
  PROVE  /\ UNCHANGED op => OneActive' /\ RowsConsistent'
         /\ UNCHANGED remote => RemoteExplained'
         /\ ~Begin /\ UNCHANGED <<rec, req>> => RequirementKnows'
         /\ UNCHANGED <<op, rec, req>> => RequirementKnows'
         /\ UNCHANGED <<w, op, sent, runs>> => WorkerKnows'
         /\ w'.do = "start" => WorkerKnows'
  <1> USE MergedStays DEF IInv
  <1>1. UNCHANGED op => OneActive' BY DEF OneActive, Active
  <1>2. UNCHANGED op => RowsConsistent' BY DEF RowsConsistent, NeedsPre
  <1>3. UNCHANGED remote => RemoteExplained'
    BY RowsGrow DEF RemoteExplained, remote, Types, TypeRemote, Observations
  <1>4. ~Begin /\ UNCHANGED <<rec, req>> => RequirementKnows'
    BY RowsGrow DEF RequirementKnows, Types, TypeRec
  <1>4a. UNCHANGED <<op, rec, req>> => RequirementKnows' BY DEF RequirementKnows
  <1>5. UNCHANGED <<w, op, sent, runs>> => WorkerKnows' BY DEF WorkerKnows, NeedsPre, Active
  <1>6. w'.do = "start" => WorkerKnows' BY DEF WorkerKnows
  <1> QED BY <1>1, <1>2, <1>3, <1>4, <1>4a, <1>5, <1>6

LEMMA RecordRow ==
  ASSUME Types, Record, NEW b \in Bases
  PROVE  IF b = w.b THEN op'[b].state = "merged" /\ op'[b].merged
                         /\ op'[b].started = op[b].started /\ op'[b].pre = op[b].pre
         ELSE op'[b] = op[b]
  <1>1. PICK u \in {TRUE}, v \in BOOLEAN :
          op' = [op EXCEPT ![w.b].state = "merged", ![w.b].merged = u, ![w.b].method = v]
    BY DEF Record, Types, TypeOps, Ops, TypeWorker
  <1> QED BY <1>1 DEF Types, TypeOps, Ops, TypeWorker

LEMMA InvStep == IInv /\ [Next]_vars => IInv'
  <1> SUFFICES ASSUME IInv, [Next]_vars PROVE IInv' OBVIOUS
  <1>0. Types' BY TypeStep DEF IInv
  <1> USE <1>0, InvKept, MergedStays DEF IInv
  <1>1. CASE Sync
    <2>1. WorkerKnows' BY <1>1, WorkerLeaves DEF Sync, At, Types, Idle
    <2> QED BY <1>1, <2>1 DEF Sync, remote, Begin, At, Idle
  <1>2. CASE PreObserve
    <2>1. WorkerKnows' BY <1>2, WorkerLeaves, WorkerGoes DEF PreObserve, At,
        Unvalidated, remote, WorkerKnows, Types, TypeOps, Ops, TypeWorker, Idle,
        Steps
    <2> QED BY <1>2, <2>1 DEF PreObserve, remote, Begin, At, Idle
  <1>3. CASE PreBegin
    <2>1. OneActive' BY <1>3 DEF PreBegin, Set, At, OneActive, Active,
        WorkerKnows, Types, TypeOps, Ops, TypeWorker
    <2>2. RowsConsistent' BY <1>3 DEF PreBegin, Set, At, RowsConsistent,
        WorkerKnows, NeedsPre, Types, TypeOps, Ops, TypeWorker
    <2>3. WorkerKnows' BY <1>3, WorkerLeaves, WorkerGoes DEF PreBegin, Set, At,
        WorkerKnows, Types, TypeOps, Ops, TypeWorker, Idle, Steps
    <2> QED BY <1>3, <2>1, <2>2, <2>3 DEF PreBegin, remote, Begin, At, Idle
  <1>4. CASE PreRun
    <2>1. OneActive' BY <1>4 DEF PreRun, Set, Block, At, OneActive, Active,
        WorkerKnows, Types, TypeOps, Ops, TypeWorker
    <2>2. RowsConsistent' BY <1>4 DEF PreRun, Set, Block, At, RowsConsistent,
        WorkerKnows, NeedsPre, Types, TypeOps, Ops, TypeWorker
    <2>3. WorkerKnows' BY <1>4, WorkerLeaves DEF PreRun, Set, Block, At, Types,
        Idle
    <2> QED BY <1>4, <2>1, <2>2, <2>3 DEF PreRun, remote, Begin, At, Idle
  <1>5. CASE Observe
    <2>1. WorkerKnows' BY <1>5, WorkerLeaves, WorkerGoes DEF Observe, At, Due,
        Candidate, Active, remote, WorkerKnows, Types, TypeOps, Ops, TypeWorker,
        Idle, Steps
    <2> QED BY <1>5, <2>1 DEF Observe, remote, Begin, At, Idle
  <1>6. CASE Prepare
    <2>1. OneActive' BY <1>6 DEF Prepare, Set, At, OneActive, Active, WorkerKnows,
        Types, TypeOps, Ops, TypeWorker
    <2>2. RowsConsistent' BY <1>6 DEF Prepare, Set, At, Active, RowsConsistent,
        WorkerKnows, NeedsPre, Types, TypeOps, Ops, TypeWorker
    <2>3. WorkerKnows' BY <1>6, WorkerLeaves DEF Prepare, Set, At, Types, Idle
    <2> QED BY <1>6, <2>1, <2>2, <2>3 DEF Prepare, remote, Begin, At, Idle
  <1>7. CASE Record
    <2>1. OneActive'
      <3>1. op[w.b].state \in {"prepared", "unknown"} /\ w.b \in Bases
        BY <1>7 DEF Record, Types, TypeWorker
      <3>2. \A b \in Bases : Active(op[b])' => Active(op[b]) BY <1>7, <3>1, RecordRow DEF Active
      <3> QED BY <3>2 DEF OneActive
    <2>2. RowsConsistent'
      <3>1. pr.state = "merged" /\ op[w.b].state \in {"prepared", "unknown"} /\ w.b \in Bases
        BY <1>7 DEF Record, At, Confirmed, WorkerKnows, Types, TypeWorker
      <3>2. pr'.state = "merged" /\ TestMerge' = TestMerge BY <3>1
      <3> QED BY <1>7, <3>1, <3>2, RecordRow DEF RowsConsistent, NeedsPre
    <2>3. WorkerKnows' BY <1>7, WorkerLeaves DEF Record, At, Types, Idle
    <2> QED BY <1>7, <2>1, <2>2, <2>3 DEF Record, remote, Begin, At, Idle
  <1>8. CASE OnlyObserve
    <2>1. WorkerKnows' BY <1>8, WorkerLeaves DEF OnlyObserve, At, Types, Idle
    <2> QED BY <1>8, <2>1 DEF OnlyObserve, remote, Begin, At, Idle
  <1>9. CASE Decide
    <2>1. OneActive' BY <1>9 DEF Decide, Set, At, OneActive, Active, WorkerKnows,
        Types, TypeOps, Ops, TypeWorker
    <2>2. RowsConsistent' BY <1>9 DEF Decide, Set, At, RowsConsistent,
        WorkerKnows, NeedsPre, Types, TypeOps, Ops, TypeWorker
    <2>3. WorkerKnows' BY <1>9, WorkerLeaves, WorkerGoes DEF Decide, Set, At,
        Admit, Eligible, NeedsPre, remote, WorkerKnows, Types, TypeOps, Ops,
        TypeWorker, Idle, Steps
    <2> QED BY <1>9, <2>1, <2>2, <2>3 DEF Decide, remote, Begin, At, Idle
  <1>10. CASE Ready
    <2>1. OneActive' BY <1>10 DEF Ready, Set, Block, At, OneActive, Active,
        WorkerKnows, Types, TypeOps, Ops, TypeWorker
    <2>2. RowsConsistent' BY <1>10 DEF Ready, Set, Block, At, RowsConsistent,
        WorkerKnows, NeedsPre, Types, TypeOps, Ops, TypeWorker
    <2>3. WorkerKnows' BY <1>10, WorkerLeaves, WorkerGoes DEF Ready, Set, Block,
        At, NeedsPre, remote, WorkerKnows, Types, TypeOps, Ops, TypeWorker, Idle,
        Steps
    <2> QED BY <1>10, <2>1, <2>2, <2>3 DEF Ready, remote, Begin, At, Idle
  <1>11. CASE Begin
    <2>1. OneActive' BY <1>11 DEF Begin, At, OneActive, Active, WorkerKnows,
        Types, TypeOps, Ops, TypeWorker
    <2>2. RowsConsistent' BY <1>11 DEF Begin, At, RowsConsistent, WorkerKnows,
        NeedsPre, Types, TypeOps, Ops, TypeWorker
    <2>3. WorkerKnows'
      <3>1. CASE Allowed /\ op[w.b].state = "prepared"
        <4>1. sent = 0
          BY <3>1 DEF Types, TypeWorker, TypeRemote, RemoteExplained, RowsConsistent, OneActive, Active
        <4>2. op'[w.b].started /\ op'[w.b].state = "unknown"
          <5>1. PICK v \in {TRUE} :
                  op' = [op EXCEPT ![w.b].state = "unknown", ![w.b].started = v]
            BY <3>1, <1>11 DEF Begin
          <5> QED BY <5>1 DEF Types, TypeOps, Ops, TypeWorker
        <4>3. w'.at = "merge" /\ w'.do = "recheck" /\ w'.b = w.b /\ w'.o = w.o
          BY <3>1, <1>11, WorkerGoes DEF Begin, At, Types, Steps
        <4> QED BY <1>11, <4>1, <4>2, <4>3 DEF Begin, At, WorkerKnows, remote
      <3>2. CASE ~(Allowed /\ op[w.b].state = "prepared")
        BY <1>11, <3>2, WorkerLeaves DEF Begin, Types
      <3> QED BY <3>1, <3>2
    <2>4. RequirementKnows'
      <3>1. CASE Allowed /\ op[w.b].state = "prepared"
        <4>1. \A b \in Bases : op[b].state \in {"blocked", "complete"} => op'[b].state = op[b].state
          BY RowsGrow
        <4> QED BY <1>11, <3>1, <4>1 DEF Begin, Allowed, RequirementKnows, Types, TypeRec
      <3>2. CASE ~(Allowed /\ op[w.b].state = "prepared")
        BY <1>11, <3>2 DEF Begin
      <3> QED BY <3>1, <3>2
    <2> QED BY <1>11, <2>1, <2>2, <2>3, <2>4 DEF Begin, remote
  <1>12. CASE Recheck
    <2>1. WorkerKnows' BY <1>12, WorkerLeaves, WorkerGoes DEF Recheck, At, remote,
        WorkerKnows, Types, TypeOps, Ops, TypeWorker, Idle, Steps
    <2> QED BY <1>12, <2>1 DEF Recheck, remote, Begin, At, Idle
  <1>13. CASE Send
    <2>1. RemoteExplained' BY <1>13 DEF Send, At, RemoteExplained, RowsConsistent,
        WorkerKnows, OneActive, Active, Types, TypeOps, Ops, TypeWorker,
        TypeRemote, Observations
    <2>2. WorkerKnows' BY <1>13, WorkerLeaves, WorkerGoes DEF Send, At,
        WorkerKnows, Types, TypeOps, Ops, TypeWorker, Idle, Steps
    <2> QED BY <1>13, <2>1, <2>2 DEF Send, remote, Begin, At, Idle
  <1>14. CASE Retain
    <2>1. OneActive' BY <1>14 DEF Retain, Set, At, OneActive, Active, WorkerKnows,
        Types, TypeOps, Ops, TypeWorker
    <2>2. RowsConsistent' BY <1>14, SMTT(90) DEF Retain, Set, At, RowsConsistent,
        WorkerKnows, NeedsPre, Types, TypeOps, Ops, TypeWorker
    <2>3. WorkerKnows' BY <1>14, WorkerLeaves DEF Retain, Set, At, Types, Idle
    <2> QED BY <1>14, <2>1, <2>2, <2>3 DEF Retain, remote, Begin, At, Idle
  <1>15. CASE NextMerged
    <2>1. OneActive' BY <1>15 DEF NextMerged, Withdrawn, At, OneActive, Active,
        WorkerKnows, Types, TypeOps, Ops, TypeWorker
    <2>2. RowsConsistent' BY <1>15, SMTT(90) DEF NextMerged, Withdrawn, At, RowsConsistent,
        WorkerKnows, NeedsPre, Types, TypeOps, Ops, TypeWorker
    <2>3. WorkerKnows'
      <3>1. CASE Leave BY <3>1, WorkerLeaves DEF Types
      <3>2. ASSUME NEW b \in Merged, Allowed, w' = [at |-> "accept", do |-> "ready", b |-> b, o |-> pr]
            PROVE  WorkerKnows'
        <4>1. op'[b].state = "merged" BY <1>15, <3>2 DEF NextMerged, Withdrawn, Allowed, Merged
        <4> QED BY <1>15, <3>2, <4>1 DEF NextMerged, WorkerKnows, remote
      <3> QED BY <1>15, <3>1, <3>2 DEF NextMerged
    <2> QED BY <1>15, <2>1, <2>2, <2>3 DEF NextMerged, remote, Begin, At, Idle
  <1>16. CASE AcceptanceReady
    <2>1. OneActive' BY <1>16 DEF AcceptanceReady, Block, Set, At, OneActive,
        Active, WorkerKnows, Types, TypeOps, Ops, TypeWorker
    <2>2. RowsConsistent' BY <1>16 DEF AcceptanceReady, Block, Set, At,
        RowsConsistent, WorkerKnows, NeedsPre, Types, TypeOps, Ops, TypeWorker
    <2>3. WorkerKnows' BY <1>16, WorkerLeaves, WorkerGoes DEF AcceptanceReady,
        Block, Set, At, WorkerKnows, Types, TypeOps, Ops, TypeWorker, Idle, Steps
    <2> QED BY <1>16, <2>1, <2>2, <2>3 DEF AcceptanceReady, remote, Begin, At,
        Idle
  <1>17. CASE Overdue
    <2>1. OneActive' BY <1>17 DEF Overdue, Block, Set, At, OneActive, Active,
        WorkerKnows, Types, TypeOps, Ops, TypeWorker
    <2>2. RowsConsistent' BY <1>17, SMTT(90) DEF Overdue, Block, Set, At, RowsConsistent,
        WorkerKnows, NeedsPre, Types, TypeOps, Ops, TypeWorker
    <2>3. WorkerKnows' BY <1>17, WorkerLeaves DEF Overdue, Block, Set, At, Types,
        Idle
    <2> QED BY <1>17, <2>1, <2>2, <2>3 DEF Overdue, remote, Begin, At, Idle
  <1>18. CASE Reserve
    <2>1. OneActive' BY <1>18 DEF Reserve, Set, Block, At, OneActive, Active,
        WorkerKnows, Types, TypeOps, Ops, TypeWorker
    <2>2. RowsConsistent' BY <1>18 DEF Reserve, Set, Block, At, RowsConsistent,
        WorkerKnows, NeedsPre, Types, TypeOps, Ops, TypeWorker
    <2>3. WorkerKnows'
      <3>1. CASE ~op[w.b].dispatched /\ Set("dispatched", TRUE) /\ Go("post")
        <4>1. op[w.b].state = "merged" BY <1>18 DEF Reserve, At, WorkerKnows
        <4>2. runs = 0
          BY <3>1, <4>1 DEF Types, TypeWorker, TypeRemote, RemoteExplained, RowsConsistent, OneActive, Active
        <4>3. op'[w.b].dispatched /\ op'[w.b].state = "merged"
          <5>1. PICK v \in {TRUE} : op' = [op EXCEPT ![w.b].dispatched = v] BY <3>1 DEF Set
          <5> QED BY <4>1, <5>1 DEF Types, TypeOps, Ops, TypeWorker
        <4>4. w'.at = "accept" /\ w'.do = "post" /\ w'.b = w.b /\ w'.o = w.o
          BY <3>1, <1>18, WorkerGoes DEF Reserve, At, Types, Steps
        <4> QED BY <1>18, <4>2, <4>3, <4>4 DEF Reserve, At, WorkerKnows, remote
      <3>2. CASE Leave BY <3>2, WorkerLeaves DEF Types
      <3> QED BY <1>18, <3>1, <3>2 DEF Reserve, Block
    <2> QED BY <1>18, <2>1, <2>2, <2>3 DEF Reserve, remote, Begin, At, Idle
  <1>19. CASE Dispatch
    <2>1. RemoteExplained' BY <1>19 DEF Dispatch, At, RemoteExplained,
        RowsConsistent, WorkerKnows, OneActive, Active, Types, TypeOps, Ops,
        TypeWorker, TypeRemote, Observations
    <2>2. WorkerKnows' BY <1>19, WorkerLeaves DEF Dispatch, At, Types, Idle
    <2> QED BY <1>19, <2>1, <2>2 DEF Dispatch, remote, Begin, At, Idle
  <1>20. CASE BeginAcceptance
    <2>1. OneActive' BY <1>20 DEF BeginAcceptance, Set, At, OneActive, Active,
        WorkerKnows, Types, TypeOps, Ops, TypeWorker
    <2>2. RowsConsistent' BY <1>20 DEF BeginAcceptance, Set, At, RowsConsistent,
        WorkerKnows, NeedsPre, Types, TypeOps, Ops, TypeWorker
    <2>3. WorkerKnows' BY <1>20, WorkerLeaves, WorkerGoes DEF BeginAcceptance,
        Set, At, WorkerKnows, Types, TypeOps, Ops, TypeWorker, Idle, Steps
    <2> QED BY <1>20, <2>1, <2>2, <2>3 DEF BeginAcceptance, remote, Begin, At,
        Idle
  <1>21. CASE Collect
    <2>1. OneActive' BY <1>21 DEF Collect, Set, Block, At, OneActive, Active,
        WorkerKnows, Types, TypeOps, Ops, TypeWorker
    <2>2. RowsConsistent' BY <1>21 DEF Collect, Set, Block, At, RowsConsistent,
        WorkerKnows, NeedsPre, Types, TypeOps, Ops, TypeWorker
    <2>3. WorkerKnows' BY <1>21, WorkerLeaves, WorkerGoes DEF Collect, Set, Block,
        At, WorkerKnows, Types, TypeOps, Ops, TypeWorker, Idle, Steps
    <2> QED BY <1>21, <2>1, <2>2, <2>3 DEF Collect, remote, Begin, At, Idle
  <1>22. CASE Run
    <2>1. OneActive' BY <1>22 DEF Run, Set, Block, At, OneActive, Active,
        WorkerKnows, Types, TypeOps, Ops, TypeWorker
    <2>2. RowsConsistent' BY <1>22 DEF Run, Set, Block, At, RowsConsistent,
        WorkerKnows, NeedsPre, Types, TypeOps, Ops, TypeWorker
    <2>3. WorkerKnows' BY <1>22, WorkerLeaves, WorkerGoes DEF Run, Set, Block, At,
        WorkerKnows, Types, TypeOps, Ops, TypeWorker, Idle, Steps
    <2> QED BY <1>22, <2>1, <2>2, <2>3 DEF Run, remote, Begin, At, Idle
  <1>23. CASE PostMergeFailure
    <2>1. OneActive' BY <1>23 DEF PostMergeFailure, At, OneActive, Active,
        WorkerKnows, Types, TypeOps, Ops, TypeWorker
    <2>2. RowsConsistent' BY <1>23 DEF PostMergeFailure, At, RowsConsistent,
        WorkerKnows, NeedsPre, Types, TypeOps, Ops, TypeWorker
    <2>3. WorkerKnows' BY <1>23, WorkerLeaves DEF PostMergeFailure, At, Types,
        Idle
    <2> QED BY <1>23, <2>1, <2>2, <2>3 DEF PostMergeFailure, remote, Begin, At,
        Idle
  <1>24. CASE Finish
    <2>1. OneActive' BY <1>24 DEF Finish, Set, At, OneActive, Active, WorkerKnows,
        Types, TypeOps, Ops, TypeWorker
    <2>2. RowsConsistent'
      <3>1. op[w.b].state = "merged" /\ op[w.b].file = "passed" BY <1>24 DEF Finish, At, WorkerKnows
      <3> USE <3>1 DEF RowsConsistent, NeedsPre, Types, TypeOps, Ops, TypeWorker
      <3>2. CASE Set("acc", "passed") BY <3>2, SMTT(30) DEF Set
      <3>3. CASE op' = [op EXCEPT ![w.b].state = "blocked", ![w.b].acc = "passed"] BY <3>3, SMTT(30)
      <3>4. CASE op[w.b].method /\ op' = [op EXCEPT ![w.b].state = "complete", ![w.b].acc = "passed"]
        BY <3>4, SMTT(30)
      <3> QED BY <1>24, <3>2, <3>3, <3>4 DEF Finish
    <2>3. WorkerKnows' BY <1>24, WorkerLeaves DEF Finish, Set, At, Types, Idle
    <2>4. RequirementKnows'
      <3>1. op[w.b].state = "merged" BY <1>24 DEF Finish, At, WorkerKnows
      <3> USE <3>1 DEF RequirementKnows, Types, TypeOps, Ops, TypeWorker, TypeReq, TypeRec
      <3>2. CASE Set("acc", "passed") /\ UNCHANGED req BY <1>24, <3>2 DEF Finish, Set
      <3>3. CASE op' = [op EXCEPT ![w.b].state = "blocked", ![w.b].acc = "passed"] /\ UNCHANGED req
        <4>1. \A b \in Bases : /\ op'[b].started = op[b].started
                               /\ op[b].state \in {"blocked", "complete"} => op'[b].state = op[b].state
          BY <3>3, SMTT(30)
        <4> QED BY <1>24, <3>3, <4>1, SMTT(30) DEF Finish
      <3>4. CASE Allowed /\ op' = [op EXCEPT ![w.b].state = "complete", ![w.b].acc = "passed"]
                         /\ req' = [req EXCEPT !.state = "Done"]
        BY <1>24, <3>4, SMTT(30) DEF Finish, Allowed
      <3> QED BY <1>24, <3>2, <3>3, <3>4 DEF Finish
    <2> QED BY <1>24, <2>1, <2>2, <2>3, <2>4 DEF Finish, remote
  <1>25. CASE Claim
    <2>1. WorkerKnows' BY <1>25, WorkerLeaves, WorkerGoes DEF Claim, At,
        WorkerKnows, Types, TypeOps, Ops, TypeWorker, Idle, Steps
    <2>2. RequirementKnows' BY <1>25 DEF Claim, At, Claimable, Exhausted, remote,
        RequirementKnows, OneActive, Active, RowsConsistent, WorkerKnows, Types,
        TypeOps, Ops, TypeWorker, TypeReq, TypeRec
    <2> QED BY <1>25, <2>1, <2>2 DEF Claim, remote
  <1>26. CASE Freeze
    <2>1. WorkerKnows' BY <1>26, WorkerLeaves, WorkerGoes DEF Freeze, Failure, At,
        WorkerKnows, Types, TypeOps, Ops, TypeWorker, Idle, Steps
    <2>2. RequirementKnows' BY <1>26 DEF Freeze, Failure, At, RequirementKnows,
        OneActive, Active, RowsConsistent, WorkerKnows, Types, TypeOps, Ops,
        TypeWorker, TypeReq, TypeRec
    <2> QED BY <1>26, <2>1, <2>2 DEF Freeze, remote
  <1>27. CASE Settle \/ CoordinatorSettle
    <2>1. WorkerKnows'
      <3>1. CASE Settle BY <3>1, WorkerLeaves DEF Settle, SettleRows, At, Types, Idle
      <3>2. CASE CoordinatorSettle BY <3>2 DEF CoordinatorSettle, SettleRows, WorkerKnows, remote, NeedsPre
      <3> QED BY <1>27, <3>1, <3>2
    <2>2. RequirementKnows'
      <3>1. Quiet => pr.state = "merged" \/ \A b \in Bases : ~op[b].started
        BY DEF Quiet, Busy, RowsConsistent
      <3>2. /\ UNCHANGED <<pr, op, rec>>
            /\ req'.cancelled = req.cancelled /\ req'.superseded = req.superseded /\ req'.state = req.state
            /\ req'.cleaned => req.cleaned \/ (req.cancelled /\ Quiet)
        BY <1>27 DEF Settle, CoordinatorSettle, SettleRows, remote, Types, TypeReq
      <3> QED BY <3>1, <3>2 DEF RequirementKnows
    <2> QED BY <1>27, <2>1, <2>2 DEF Settle, CoordinatorSettle, SettleRows, remote
  <1>28. CASE CloseOwn
    <2>1. RemoteExplained' BY <1>28 DEF CloseOwn, At, RemoteExplained,
        RowsConsistent, WorkerKnows, OneActive, Active, Types, TypeOps, Ops,
        TypeWorker, TypeRemote, Observations
    <2>2. WorkerKnows' BY <1>28, WorkerLeaves DEF CloseOwn, At, Types, Idle
    <2>3. RequirementKnows' BY <1>28 DEF CloseOwn, At, RequirementKnows,
        OneActive, Active, RowsConsistent, WorkerKnows, Types, TypeOps, Ops,
        TypeWorker, TypeReq, TypeRec
    <2> QED BY <1>28, <2>1, <2>2, <2>3 DEF CloseOwn, remote
  <1>29. CASE Age BY <1>29 DEF Age, remote
  <1>30. CASE Supersede
    <2>1. RequirementKnows' BY <1>30 DEF Supersede, At, RequirementKnows,
        OneActive, Active, RowsConsistent, WorkerKnows, Types, TypeOps, Ops,
        TypeWorker, TypeReq, TypeRec
    <2> QED BY <1>30, <2>1 DEF Supersede, remote
  <1>31. CASE Crash
    <2>1. WorkerKnows' BY <1>31, WorkerLeaves DEF Crash, Fault, At, Types, Idle
    <2> QED BY <1>31, <2>1 DEF Crash, remote, Begin, At, Idle, Fault
  <1>32. CASE CallFails
    <2>1. OneActive' BY <1>32 DEF CallFails, Fault, Set, At, OneActive, Active,
        WorkerKnows, Types, TypeOps, Ops, TypeWorker
    <2>2. RowsConsistent' BY <1>32 DEF CallFails, Fault, Set, At, RowsConsistent,
        WorkerKnows, NeedsPre, Types, TypeOps, Ops, TypeWorker
    <2>3. WorkerKnows' BY <1>32, WorkerLeaves DEF CallFails, Fault, Set, At,
        Types, Idle
    <2>4. RequirementKnows'
      <3>1. ~Begin /\ UNCHANGED req BY <1>32 DEF CallFails, Fault, Begin, At
      <3>2. CASE UNCHANGED rec BY <3>1, <3>2
      <3>3. CASE /\ UNCHANGED op /\ rec.attempts >= MaxAttempts
                 /\ rec' = [rec EXCEPT !.state = "blocked"]
        BY <3>1, <3>3 DEF RequirementKnows, Types, TypeRec, MaxAttempts
      <3> QED BY <1>32, <3>2, <3>3 DEF CallFails
    <2> QED BY <1>32, <2>1, <2>2, <2>3, <2>4 DEF CallFails, remote, Fault
  <1>33. ASSUME NEW b \in Bases, Answer(b) PROVE IInv'
    <2>1. RemoteExplained'
      <3>1. UNCHANGED <<sent, runs, op>> /\ wire' \subseteq wire BY <1>33 DEF Answer
      <3>2. CASE PrReady(pr, b)
        <4>1. /\ pr'.by = "broker" /\ pr'.state = "merged" /\ pr'.base = b
              /\ op[b].started
          BY <1>33, <3>2 DEF Answer, PrReady, RemoteExplained, Types, TypeRemote, Observations
        <4> QED BY <3>1, <4>1 DEF RemoteExplained
      <3>3. CASE ~PrReady(pr, b) BY <1>33, <3>1, <3>3 DEF Answer, RemoteExplained
      <3> QED BY <3>2, <3>3
    <2>2. WorkerKnows' BY <1>33, WorkerLeaves, WorkerGoes DEF Answer, At,
        WorkerKnows, Types, TypeOps, Ops, TypeWorker, Idle, Steps
    <2> QED BY <1>33, <2>1, <2>2 DEF Answer, remote, Begin, At, Idle
  <1>34. CASE ChecksFinish
    <2>1. RemoteExplained' BY <1>34 DEF ChecksFinish, At, RemoteExplained,
        RowsConsistent, WorkerKnows, OneActive, Active, Types, TypeOps, Ops,
        TypeWorker, TypeRemote, Observations
    <2>2. WorkerKnows' BY <1>34, WorkerLeaves, WorkerGoes DEF ChecksFinish, At,
        WorkerKnows, Types, TypeOps, Ops, TypeWorker, Idle, Steps
    <2> QED BY <1>34, <2>1, <2>2 DEF ChecksFinish, remote
  <1>35. CASE PostFinish
    <2>1. RemoteExplained' BY <1>35 DEF PostFinish, At, RemoteExplained,
        RowsConsistent, WorkerKnows, OneActive, Active, Types, TypeOps, Ops,
        TypeWorker, TypeRemote, Observations
    <2>2. WorkerKnows' BY <1>35, WorkerLeaves, WorkerGoes DEF PostFinish, At,
        WorkerKnows, Types, TypeOps, Ops, TypeWorker, Idle, Steps
    <2> QED BY <1>35, <2>1, <2>2 DEF PostFinish, remote
  <1>36. CASE MoveBase
    <2>1. RemoteExplained' BY <1>36 DEF MoveBase, Move, At, RemoteExplained,
        RowsConsistent, WorkerKnows, OneActive, Active, Types, TypeOps, Ops,
        TypeWorker, TypeRemote, Observations
    <2>2. WorkerKnows' BY <1>36, WorkerLeaves, WorkerGoes DEF MoveBase, Move, At,
        WorkerKnows, Types, TypeOps, Ops, TypeWorker, Idle, Steps
    <2>3. RequirementKnows' BY <1>36 DEF MoveBase, Move, At, RequirementKnows,
        OneActive, Active, RowsConsistent, WorkerKnows, Types, TypeOps, Ops,
        TypeWorker, TypeReq, TypeRec
    <2> QED BY <1>36, <2>1, <2>2, <2>3 DEF MoveBase, remote, Move
  <1>37. CASE Close
    <2>1. RemoteExplained' BY <1>37 DEF Close, Move, At, RemoteExplained,
        RowsConsistent, WorkerKnows, OneActive, Active, Types, TypeOps, Ops,
        TypeWorker, TypeRemote, Observations
    <2>2. WorkerKnows' BY <1>37, WorkerLeaves, WorkerGoes DEF Close, Move, At,
        WorkerKnows, Types, TypeOps, Ops, TypeWorker, Idle, Steps
    <2>3. RequirementKnows' BY <1>37 DEF Close, Move, At, RequirementKnows,
        OneActive, Active, RowsConsistent, WorkerKnows, Types, TypeOps, Ops,
        TypeWorker, TypeReq, TypeRec
    <2> QED BY <1>37, <2>1, <2>2, <2>3 DEF Close, remote, Move
  <1>38. CASE Reopen
    <2>1. RemoteExplained' BY <1>38 DEF Reopen, Move, At, RemoteExplained,
        RowsConsistent, WorkerKnows, OneActive, Active, Types, TypeOps, Ops,
        TypeWorker, TypeRemote, Observations
    <2>2. WorkerKnows' BY <1>38, WorkerLeaves, WorkerGoes DEF Reopen, Move, At,
        WorkerKnows, Types, TypeOps, Ops, TypeWorker, Idle, Steps
    <2>3. RequirementKnows' BY <1>38 DEF Reopen, Move, At, RequirementKnows,
        OneActive, Active, RowsConsistent, WorkerKnows, Types, TypeOps, Ops,
        TypeWorker, TypeReq, TypeRec
    <2> QED BY <1>38, <2>1, <2>2, <2>3 DEF Reopen, remote, Move
  <1>39. CASE PersonMerges
    <2>1. RemoteExplained' BY <1>39 DEF PersonMerges, Move, At, RemoteExplained,
        RowsConsistent, WorkerKnows, OneActive, Active, Types, TypeOps, Ops,
        TypeWorker, TypeRemote, Observations
    <2>2. WorkerKnows' BY <1>39, WorkerLeaves, WorkerGoes DEF PersonMerges, Move,
        At, WorkerKnows, Types, TypeOps, Ops, TypeWorker, Idle, Steps
    <2>3. RequirementKnows' BY <1>39 DEF PersonMerges, Move, At, RequirementKnows,
        OneActive, Active, RowsConsistent, WorkerKnows, Types, TypeOps, Ops,
        TypeWorker, TypeReq, TypeRec
    <2> QED BY <1>39, <2>1, <2>2, <2>3 DEF PersonMerges, remote, Move
  <1>40. CASE Pause
    <2>1. RemoteExplained' BY <1>40 DEF Pause, Move, At, RemoteExplained,
        RowsConsistent, WorkerKnows, OneActive, Active, Types, TypeOps, Ops,
        TypeWorker, TypeRemote, Observations
    <2>2. WorkerKnows' BY <1>40, WorkerLeaves, WorkerGoes DEF Pause, Move, At,
        WorkerKnows, Types, TypeOps, Ops, TypeWorker, Idle, Steps
    <2>3. RequirementKnows' BY <1>40 DEF Pause, Move, At, RequirementKnows,
        OneActive, Active, RowsConsistent, WorkerKnows, Types, TypeOps, Ops,
        TypeWorker, TypeReq, TypeRec
    <2> QED BY <1>40, <2>1, <2>2, <2>3 DEF Pause, remote, Move
  <1>41. CASE Cancel
    <2>1. RemoteExplained' BY <1>41 DEF Cancel, Move, At, RemoteExplained,
        RowsConsistent, WorkerKnows, OneActive, Active, Types, TypeOps, Ops,
        TypeWorker, TypeRemote, Observations
    <2>2. WorkerKnows' BY <1>41, WorkerLeaves, WorkerGoes DEF Cancel, Move, At,
        WorkerKnows, Types, TypeOps, Ops, TypeWorker, Idle, Steps
    <2>3. RequirementKnows' BY <1>41 DEF Cancel, Move, At, RequirementKnows,
        OneActive, Active, RowsConsistent, WorkerKnows, Types, TypeOps, Ops,
        TypeWorker, TypeReq, TypeRec
    <2> QED BY <1>41, <2>1, <2>2, <2>3 DEF Cancel, remote, Move
  <1>42. CASE Resume
    <2>1. RequirementKnows' BY <1>42 DEF Resume, At, RequirementKnows, OneActive,
        Active, RowsConsistent, WorkerKnows, Types, TypeOps, Ops, TypeWorker,
        TypeReq, TypeRec
    <2> QED BY <1>42, <2>1 DEF Resume, remote
  <1>43. CASE Decision
    <2>1. RequirementKnows' BY <1>43 DEF Decision, At, Eligibles, remote,
        RequirementKnows, OneActive, Active, RowsConsistent, WorkerKnows, Types,
        TypeOps, Ops, TypeWorker, TypeReq, TypeRec
    <2> QED BY <1>43, <2>1 DEF Decision, remote
  <1>44. CASE UNCHANGED vars BY <1>44 DEF vars, remote
  <1> QED BY <1>1, <1>2, <1>3, <1>4, <1>5, <1>6, <1>7, <1>8, <1>9, <1>10, <1>11,
      <1>12, <1>13, <1>14, <1>15, <1>16, <1>17, <1>18, <1>19, <1>20, <1>21, <1>22,
      <1>23, <1>24, <1>25, <1>26, <1>27, <1>28, <1>29, <1>30, <1>31, <1>32, <1>33,
      <1>34, <1>35, <1>36, <1>37, <1>38, <1>39, <1>40, <1>41, <1>42, <1>43, <1>44
      DEF Next, Worker, Platform, People


----------------------------------------------------------------------------
(* Theorems. *)

\* The inductive invariant: however answers are lost and the service restarts,
\* rows, history, the worker's knowledge and the Requirement stay consistent.
THEOREM Inductive == Spec => []IInv
  <1>1. Init => IInv BY InvInit
  <1>2. IInv /\ [Next]_vars => IInv' BY InvStep
  <1> QED BY <1>1, <1>2, PTL DEF Spec

\* Every step of the worker, of people and of GitHub keeps the types of rows and records.
THEOREM TypeCorrect == Spec => []Types
  <1>1. IInv => Types BY DEF IInv
  <1> QED BY <1>1, Inductive, PTL

LEMMA InvImplies == IInv => MergeHolds
  <1> SUFFICES ASSUME IInv PROVE MergeHolds OBVIOUS
  <1> USE DEF IInv
  <1>1. TypeOK
    <2>1. op \in [Bases -> Ops] /\ wire \subseteq Bases /\ rec.attempts \in 0..MaxAttempts
      BY DEF Types, TypeOps, TypeRemote, TypeRec
    <2>2. ASSUME NEW a \in Bases, NEW b \in Bases
          PROVE  a = b \/ {op[a].state, op[b].state} \cap {"none", "invalidated"} # {}
      <3>1. CASE op[a].state \in {"none", "invalidated"} BY <3>1
      <3>2. CASE op[b].state \in {"none", "invalidated"} BY <3>2
      <3> QED BY <3>1, <3>2 DEF OneActive, Active
    <2> QED BY <2>1, <2>2 DEF TypeOK
  <1>2. SentOnce /\ DispatchedOnce BY DEF RemoteExplained, SentOnce, DispatchedOnce
  <1>3. MergedAsValidated
    BY DEF MergedAsValidated, RemoteExplained, RowsConsistent, NeedsPre, Types, TypeRemote, Observations
  <1>4. DoneIsAccepted
    BY DEF DoneIsAccepted, RequirementKnows, RowsConsistent
  <1>5. SupersededUnsent
    BY DEF SupersededUnsent, RequirementKnows, RemoteExplained, Types, TypeRemote, Observations
  <1> QED BY <1>1, <1>2, <1>3, <1>4, <1>5 DEF MergeHolds

\* One merge request and one dispatch go out per delivery, for the base that was
\* validated; Done is accepted, and a superseded delivery was never sent.
THEOREM MergeSound == Spec => []MergeHolds
  BY Inductive, InvImplies, PTL

LEMMA FailureStays ==
  ASSUME IInv, [Next]_vars, NEW b \in Bases, op[b].file = "failed"
  PROVE  op'[b].file = "failed" /\ op'[b].state # "complete"
  <1> USE DEF IInv, Types, TypeOps, Ops, TypeWorker, At, WorkerKnows, RowsConsistent
  <1>1. CASE PreBegin BY <1>1 DEF PreBegin, Set
  <1>2. CASE PreRun BY <1>2 DEF PreRun, Set, Block
  <1>3. CASE Prepare BY <1>3 DEF Prepare, Set
  <1>4. CASE Record
    <2>1. PICK v \in BOOLEAN :
        op' = [op EXCEPT ![w.b].state = "merged", ![w.b].merged = TRUE, ![w.b].method = v]
      BY <1>4 DEF Record
    <2> QED BY <1>4, <2>1 DEF Record
  <1>5. CASE Decide BY <1>5 DEF Decide, Set
  <1>6. CASE Ready BY <1>6 DEF Ready, Set, Block
  <1>7. CASE Begin BY <1>7 DEF Begin
  <1>8. CASE Retain
    <2>1. PICK v \in BOOLEAN : op' = [op EXCEPT ![w.b].answered = v] BY <1>8 DEF Retain, Set
    <2> QED BY <1>8, <2>1 DEF Retain
  <1>9. CASE NextMerged BY <1>9 DEF NextMerged, Withdrawn
  <1>10. CASE AcceptanceReady BY <1>10 DEF AcceptanceReady, Block, Set
  <1>11. CASE Overdue BY <1>11 DEF Overdue, Block, Set
  <1>12. CASE Reserve BY <1>12 DEF Reserve, Set, Block
  <1>13. CASE BeginAcceptance BY <1>13 DEF BeginAcceptance, Set
  <1>14. CASE Collect BY <1>14 DEF Collect, Set, Block
  <1>15. CASE Run BY <1>15 DEF Run, Set, Block
  <1>16. CASE PostMergeFailure BY <1>16 DEF PostMergeFailure
  <1>17. CASE Finish
    <2>1. op[w.b].file = "passed" BY <1>17 DEF Finish
    <2>2. op'[b] = op[b] BY <1>17, <2>1 DEF Finish, Set
    <2> QED BY <2>1, <2>2
  <1>18. CASE CallFails BY <1>18 DEF CallFails, Fault, Set
  <1>19. CASE UNCHANGED op BY <1>19
  <1> QED BY <1>1, <1>2, <1>3, <1>4, <1>5, <1>6, <1>7, <1>8, <1>9, <1>10, <1>11,
      <1>12, <1>13, <1>14, <1>15, <1>16, <1>17, <1>18, <1>19 DEF Next, Worker,
      Platform, People, vars, Fault, Move, Sync, PreObserve, Observe, OnlyObserve,
      Recheck, Send, Dispatch, Claim, Freeze, Settle, CoordinatorSettle, SettleRows, CloseOwn, Age, Supersede,
      Crash, Answer, ChecksFinish, PostFinish, MoveBase, Close, Reopen,
      PersonMerges, Pause, Cancel, Resume, Decision

\* Only an answer of GitHub to an open pull request makes the Broker its merger.
LEMMA MergerChanges ==
  ASSUME Types, [Next]_vars, pr.by # "broker", pr'.by = "broker"
  PROVE  \E b \in wire : PrReady(pr, b)
  <1> USE DEF Types, TypeRemote, Observations
  <1>1. CASE Send BY <1>1 DEF Send
  <1>2. CASE Dispatch BY <1>2 DEF Dispatch
  <1>3. CASE CloseOwn BY <1>3 DEF CloseOwn
  <1>4. ASSUME NEW b \in Bases, Answer(b) PROVE \E c \in wire : PrReady(pr, c)
    BY <1>4 DEF Answer
  <1>5. CASE ChecksFinish BY <1>5 DEF ChecksFinish
  <1>6. CASE PostFinish BY <1>6 DEF PostFinish
  <1>7. CASE MoveBase BY <1>7 DEF MoveBase, Move
  <1>8. CASE Close BY <1>8 DEF Close, Move
  <1>9. CASE Reopen BY <1>9 DEF Reopen, Move
  <1>10. CASE PersonMerges BY <1>10 DEF PersonMerges, Move
  <1>11. CASE Pause BY <1>11 DEF Pause, Move
  <1>12. CASE Cancel BY <1>12 DEF Cancel, Move
  <1>13. CASE UNCHANGED pr BY <1>13
  <1> QED BY <1>1, <1>2, <1>3, <1>4, <1>5, <1>6, <1>7, <1>8, <1>9, <1>10, <1>11,
      <1>12, <1>13 DEF Next, Worker, Platform, People, vars, remote, Fault, Sync,
      PreObserve, PreBegin, PreRun, Observe, Prepare, Record, OnlyObserve, Decide,
      Ready, Begin, Recheck, Retain, NextMerged, AcceptanceReady, Overdue,
      Reserve, BeginAcceptance, Collect, Run, PostMergeFailure, Finish, Claim,
      Freeze, Settle, CoordinatorSettle, SettleRows, Age, Supersede, Crash, CallFails, Resume, Decision

LEMMA CleanStays ==
  ASSUME IInv, [Next]_vars, req.cleaned, pr.by # "broker"
  PROVE  pr'.by # "broker"
  <1> SUFFICES ASSUME pr'.by = "broker" PROVE FALSE OBVIOUS
  <1>1. PICK b \in wire : PrReady(pr, b) BY MergerChanges DEF IInv
  <1>2. pr.state # "merged" /\ b \in Bases /\ op[b].started
    BY <1>1 DEF IInv, PrReady, RemoteExplained, Types, TypeRemote
  <1> QED BY <1>2 DEF IInv, RequirementKnows

\* A failed acceptance is not tried until it passes, and what a cancel has cleaned
\* up is not merged afterwards.
THEOREM OutcomesFinal == Spec => OutcomesStand
  <1> DEFINE Kept == \A b \in Bases :
                       op[b].file = "failed" => op'[b].file = "failed" /\ op'[b].state # "complete"
             Quieted == req.cleaned /\ pr.by # "broker" => pr'.by # "broker"
  <1>1. IInv /\ [Next]_vars => [Kept]_vars /\ [Quieted]_vars BY FailureStays, CleanStays
  <1>2. Spec => [][Kept]_vars /\ [][Quieted]_vars BY <1>1, Inductive, PTL DEF Spec
  <1> QED BY <1>2 DEF OutcomesStand, FailureIsKept, CleanIsQuiet


================================================================================
