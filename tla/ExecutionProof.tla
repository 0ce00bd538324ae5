--------------------------- MODULE ExecutionProof ---------------------------
(***************************************************************************)
(* Theorems about the execution core, for every set of Requirements and    *)
(* Runs and every bound on faults and commands.                            *)
(***************************************************************************)
EXTENDS ExecutionInvariant, TLAPS

----------------------------------------------------------------------------
(* Type correctness.  A step is looked at part by part: the parts it leaves *)
(* alone follow from TypeKept.                                              *)

LEMMA TypeInit == Init => TypeOK
  <1> SUFFICES ASSUME Init PROVE TypeOK OBVIOUS
  <1>1. TypeControl /\ TypeReqs BY DEF Init, TypeControl, TypeReqs
  <1>2. TypeRows BY DEF Init, TypeRows, RunStates
  <1>3. TypeWork /\ TypeProcs BY DEF Init, TypeWork, TypeProcs
  <1>4. TypeFs BY DEF Init, TypeFs
  <1>5. TypeWorker /\ TypeCoord /\ TypeBounds
    BY DEF Init, TypeWorker, TypeCoord, TypeBounds
  <1> QED BY <1>1, <1>2, <1>3, <1>4, <1>5 DEF TypeOK

LEMMA TypeKept == TypeOK =>
    /\ UNCHANGED <<control, guard>> => TypeControl'
    /\ UNCHANGED reqs => TypeReqs'
    /\ UNCHANGED rows => TypeRows'
    /\ UNCHANGED work => TypeWork'
    /\ UNCHANGED fs => TypeFs'
    /\ UNCHANGED procs => TypeProcs'
    /\ UNCHANGED <<up, worker>> => TypeWorker'
    /\ UNCHANGED coord => TypeCoord'
    /\ UNCHANGED bounds => TypeBounds'
  BY DEF TypeOK, TypeControl, TypeReqs, TypeRows, TypeWork, TypeFs, TypeProcs,
         TypeWorker, TypeCoord, TypeBounds, control, guard, reqs, rows, work, fs,
         procs, worker, coord, bounds

\* The runtime worker and the Agent it serves.
LEMMA TypeWorkerStep ==
  ASSUME TypeOK, NEW r \in Runs,
         WorkerStep(r) \/ AgentStep(r) \/ SpawnFails(r) \/ GrantFails(r)
  PROVE  TypeOK'
  <1> USE TypeKept DEF TypeOK, AtWorker, GoWorker, WorkerIdle, Fault
  <1>1. CASE LaunchCheck(r)
    <2>1. TypeWorker' BY <1>1 DEF LaunchCheck, TypeWorker
    <2> QED BY <1>1, <2>1 DEF LaunchCheck
  <1>2. CASE OpenSession(r)
    <2>1. TypeWork' BY <1>2 DEF OpenSession, TypeWork
    <2>2. TypeWorker' BY <1>2 DEF OpenSession, TypeWorker
    <2> QED BY <1>2, <2>1, <2>2 DEF OpenSession
  <1>3. CASE Spawn(r)
    <2>1. TypeFs' BY <1>3 DEF Spawn, TypeFs, FileNames
    <2>2. TypeProcs' BY <1>3 DEF Spawn, TypeProcs
    <2>3. TypeWorker' BY <1>3 DEF Spawn, TypeWorker
    <2> QED BY <1>3, <2>1, <2>2, <2>3 DEF Spawn
  <1>4. CASE SpawnFails(r)
    <2>1. TypeFs' BY <1>4 DEF SpawnFails, TypeFs, FileNames
    <2>2. TypeWorker' BY <1>4 DEF SpawnFails, TypeWorker
    <2>3. TypeBounds' BY <1>4 DEF SpawnFails, TypeBounds
    <2> QED BY <1>4, <2>1, <2>2, <2>3 DEF SpawnFails
  <1>5. CASE WaitIdentity(r)
    <2>1. TypeWorker' BY <1>5 DEF WaitIdentity, TypeWorker
    <2> QED BY <1>5, <2>1 DEF WaitIdentity
  <1>6. CASE AttachIdentity(r)
    <2>1. TypeRows' BY <1>6 DEF AttachIdentity, TypeRows, Attach, RunStates
    <2>2. TypeWorker' BY <1>6 DEF AttachIdentity, TypeWorker
    <2> QED BY <1>6, <2>1, <2>2 DEF AttachIdentity
  <1>7. CASE GrantProbe(r)
    <2>1. TypeWorker' BY <1>7 DEF GrantProbe, TypeWorker, StorageAllowed,
        ActionsAllowed
    <2> QED BY <1>7, <2>1 DEF GrantProbe
  <1>8. CASE Grant(r)
    <2>1. TypeFs' BY <1>8 DEF Grant, TypeFs, FileNames
    <2>2. TypeWorker' BY <1>8 DEF Grant, TypeWorker
    <2> QED BY <1>8, <2>1, <2>2 DEF Grant
  <1>9. CASE GrantFails(r)
    <2>1. TypeWorker' BY <1>9 DEF GrantFails, TypeWorker
    <2>2. TypeBounds' BY <1>9 DEF GrantFails, TypeBounds
    <2> QED BY <1>9, <2>1, <2>2 DEF GrantFails
  <1>10. CASE WorkerStop(r)
    <2>1. TypeRows' BY <1>10 DEF WorkerStop, TypeRows, Block
    <2>2. TypeWorker' BY <1>10 DEF WorkerStop, TypeWorker
    <2> QED BY <1>10, <2>1, <2>2 DEF WorkerStop
  <1>11. CASE WorkerStopFile(r)
    <2>1. TypeFs' BY <1>11 DEF WorkerStopFile, TypeFs, FileNames
    <2>2. TypeWorker' BY <1>11 DEF WorkerStopFile, TypeWorker
    <2> QED BY <1>11, <2>1, <2>2 DEF WorkerStopFile
  <1>12. CASE CommitIntent(r)
    <2>1. TypeWork' BY <1>12 DEF CommitIntent, TypeWork
    <2>2. TypeWorker' BY <1>12 DEF CommitIntent, TypeWorker
    <2> QED BY <1>12, <2>1, <2>2 DEF CommitIntent
  <1>13. CASE CommitPerform(r)
    <2>1. TypeRows' BY <1>13 DEF CommitPerform, TypeRows, FailedOp
    <2>2. TypeWork' BY <1>13 DEF CommitPerform, TypeWork, FailedOp
    <2>3. TypeWorker' BY <1>13 DEF CommitPerform, TypeWorker
    <2>4. TypeBounds' BY <1>13 DEF CommitPerform, TypeBounds, FailedOp
    <2> QED BY <1>13, <2>1, <2>2, <2>3, <2>4 DEF CommitPerform
  <1>14. ASSUME NEW kind \in {"completion", "blocker"}, End(r, kind) PROVE
      TypeOK'
    <2>1. TypeRows' BY <1>14 DEF End, TypeRows
    <2>2. TypeWork' BY <1>14 DEF End, TypeWork
    <2> QED BY <1>14, <2>1, <2>2 DEF End
  <1> QED BY <1>1, <1>2, <1>3, <1>4, <1>5, <1>6, <1>7, <1>8, <1>9, <1>10, <1>11,
      <1>12, <1>13, <1>14 DEF WorkerStep, AgentStep

\* The supervisor, its descendants and the clock.
LEMMA TypeSupervisorStep ==
  ASSUME TypeOK, NEW r \in Runs,
         SupervisorStep(r) \/ WriterExit(r) \/ HeartbeatStale(r) \/ SupLost(r)
  PROVE  TypeOK'
  <1> USE TypeKept DEF TypeOK, Fault
  <1>1. CASE SupPublish(r)
    <2>1. TypeFs' BY <1>1 DEF SupPublish, TypeFs, FileNames
    <2>2. TypeProcs' BY <1>1 DEF SupPublish, TypeProcs, SupStep
    <2> QED BY <1>1, <2>1, <2>2 DEF SupPublish
  <1>2. CASE SupCheck(r)
    <2>1. TypeProcs' BY <1>2 DEF SupCheck, TypeProcs, SupStep
    <2> QED BY <1>2, <2>1 DEF SupCheck
  <1>3. CASE SupRefuse(r)
    <2>1. TypeFs' BY <1>3 DEF SupRefuse, TypeFs, FileNames
    <2>2. TypeProcs' BY <1>3 DEF SupRefuse, TypeProcs, SupStep
    <2> QED BY <1>3, <2>1, <2>2 DEF SupRefuse
  <1>4. CASE SupStart(r)
    <2>1. TypeProcs' BY <1>4 DEF SupStart, TypeProcs, SupStep
    <2> QED BY <1>4, <2>1 DEF SupStart
  <1>5. CASE SupKill(r)
    <2>1. TypeProcs' BY <1>5 DEF SupKill, TypeProcs
    <2> QED BY <1>5, <2>1 DEF SupKill
  <1>6. CASE SupReceipt(r)
    <2>1. TypeFs' BY <1>6 DEF SupReceipt, TypeFs, FileNames
    <2>2. TypeProcs' BY <1>6 DEF SupReceipt, TypeProcs, SupStep
    <2> QED BY <1>6, <2>1, <2>2 DEF SupReceipt
  <1>7. CASE SupLost(r)
    <2>1. TypeProcs' BY <1>7 DEF SupLost, TypeProcs
    <2>2. TypeBounds' BY <1>7 DEF SupLost, TypeBounds
    <2> QED BY <1>7, <2>1, <2>2 DEF SupLost
  <1>8. CASE WriterExit(r)
    <2>1. TypeProcs' BY <1>8 DEF WriterExit, TypeProcs
    <2> QED BY <1>8, <2>1 DEF WriterExit
  <1>9. CASE HeartbeatStale(r)
    <2>1. TypeFs' BY <1>9 DEF HeartbeatStale, TypeFs
    <2> QED BY <1>9, <2>1 DEF HeartbeatStale
  <1> QED BY <1>1, <1>2, <1>3, <1>4, <1>5, <1>6, <1>7, <1>8, <1>9 DEF
      SupervisorStep

\* The coordinator's recovery task.
LEMMA TypeCoordinatorStep ==
  ASSUME TypeOK, CoordinatorStep \/ CoError
  PROVE  TypeOK'
  <1> USE TypeKept DEF TypeOK, AtCoord, GoCoord, CoordIdle, CoordNext, CoordSame, Fault
  <1>1. CASE CoTick
    <2>1. TypeRows' BY <1>1 DEF CoTick, TypeRows, RunStates
    <2>2. TypeCoord' BY <1>1 DEF CoTick, TypeCoord
    <2> QED BY <1>1, <2>1, <2>2 DEF CoTick
  <1>2. ASSUME NEW late \in SUBSET Runs, CoList(late) PROVE TypeOK'
    <2>1. TypeRows' BY <1>2 DEF CoList, TypeRows
    <2>2. TypeCoord' BY <1>2 DEF CoList, TypeCoord, Unresolved, StorageAllowed
    <2> QED BY <1>2, <2>1, <2>2 DEF CoList
  <1>3. ASSUME NEW r \in Runs, CoBlock(r) PROVE TypeOK'
    <2>1. TypeRows' BY <1>3 DEF CoBlock, TypeRows, Block
    <2>2. TypeCoord' BY <1>3 DEF CoBlock, TypeCoord
    <2> QED BY <1>3, <2>1, <2>2 DEF CoBlock
  <1>4. ASSUME NEW r \in Runs, CoEvidence(r) PROVE TypeOK'
    <2>1. TypeFs' BY <1>4 DEF CoEvidence, TypeFs, FileNames
    <2>2. crun' \in Runs \cup {None} /\ cseen' \in BOOLEAN /\ cpc' \in {"attach", "runs"}
      <3>1. CASE "identity" \in files[r] BY <1>4, <3>1 DEF CoEvidence
      <3>2. CASE "identity" \notin files[r] BY <1>4, <3>2 DEF CoEvidence
      <3> QED BY <3>1, <3>2
    <2>3. ctodo' \subseteq Runs /\ UNCHANGED <<cstale, cknown, cfull>>
      BY <1>4 DEF CoEvidence, TypeCoord
    <2>4. TypeCoord' BY <2>2, <2>3 DEF TypeCoord
    <2> QED BY <1>4, <2>1, <2>4 DEF CoEvidence
  <1>5. ASSUME NEW r \in Runs, CoAttach(r) PROVE TypeOK'
    <2>1. TypeRows' BY <1>5 DEF CoAttach, TypeRows, AttachMissing, Attach,
        RunStates
    <2>2. TypeCoord' BY <1>5 DEF CoAttach, TypeCoord
    <2> QED BY <1>5, <2>1, <2>2 DEF CoAttach
  <1>6. ASSUME NEW r \in Runs, CoConfirm(r) PROVE TypeOK'
    <2>1. TypeRows' BY <1>6 DEF CoConfirm, TypeRows, Confirm, RunStates
    <2>2. TypeCoord' BY <1>6 DEF CoConfirm, TypeCoord
    <2> QED BY <1>6, <2>1, <2>2 DEF CoConfirm
  <1>7. ASSUME NEW r \in Runs, CoRead(r) PROVE TypeOK'
    <2>1. TypeFs' BY <1>7 DEF CoRead, TypeFs, StorageAllowed
    <2>2. TypeCoord' BY <1>7 DEF CoRead, TypeCoord
    <2> QED BY <1>7, <2>1, <2>2 DEF CoRead
  <1>8. ASSUME NEW r \in Runs, CoObserve(r) PROVE TypeOK'
    <2>1. TypeRows' BY <1>8 DEF CoObserve, TypeRows, Confirm, Block, RunStates
    <2>2. TypeCoord' BY <1>8 DEF CoObserve, TypeCoord
    <2> QED BY <1>8, <2>1, <2>2 DEF CoObserve
  <1>9. CASE CoRunsDone
    <2>1. TypeCoord' BY <1>9 DEF CoRunsDone, TypeCoord
    <2> QED BY <1>9, <2>1 DEF CoRunsDone
  <1>10. CASE CoPreserve
    <2>1. TypeWork' BY <1>10 DEF CoPreserve, TypeWork, Unpreserved
    <2>2. TypeCoord' BY <1>10 DEF CoPreserve, TypeCoord, Unpreserved
    <2> QED BY <1>10, <2>1, <2>2 DEF CoPreserve
  <1>11. ASSUME NEW r \in Runs, CoPerform(r) PROVE TypeOK'
    <2>1. TypeRows' BY <1>11 DEF CoPerform, TypeRows, FailedOp
    <2>2. TypeWork' BY <1>11 DEF CoPerform, TypeWork, FailedOp
    <2>3. TypeCoord' BY <1>11 DEF CoPerform, TypeCoord
    <2>4. TypeBounds' BY <1>11 DEF CoPerform, TypeBounds, FailedOp
    <2> QED BY <1>11, <2>1, <2>2, <2>3, <2>4 DEF CoPerform
  <1>12. CASE CoFinalize
    <2>1. TypeRows' BY <1>12 DEF CoFinalize, TypeRows, RunStates
    <2>2. TypeCoord' BY <1>12 DEF CoFinalize, TypeCoord
    <2> QED BY <1>12, <2>1, <2>2 DEF CoFinalize
  <1>13. CASE CoSettle
    <2>1. TypeControl' BY <1>13 DEF CoSettle, TypeControl, control, guard
    <2>2. TypeReqs' BY <1>13 DEF CoSettle, TypeReqs, Cleaned
    <2>3. TypeCoord' BY <1>13 DEF CoSettle, TypeCoord
    <2> QED BY <1>13, <2>1, <2>2, <2>3 DEF CoSettle
  <1>14. CASE CoBarrier
    <2>1. TypeControl' BY <1>14 DEF CoBarrier, TypeControl, Reconciled, control,
        guard
    <2>2. TypeCoord' BY <1>14 DEF CoBarrier, TypeCoord
    <2> QED BY <1>14, <2>1, <2>2 DEF CoBarrier
  <1>15. CASE CoError
    <2>1. TypeCoord' BY <1>15 DEF CoError, TypeCoord
    <2>2. TypeBounds' BY <1>15 DEF CoError, TypeBounds
    <2> QED BY <1>15, <2>1, <2>2 DEF CoError
  <1> QED BY <1>1, <1>2, <1>3, <1>4, <1>5, <1>6, <1>7, <1>8, <1>9, <1>10, <1>11,
      <1>12, <1>13, <1>14, <1>15 DEF CoordinatorStep

\* Claims, operator, storage, crash and restart, delivery.
LEMMA TypeOtherStep ==
  ASSUME TypeOK,
         \/ \E q \in Requirements, r \in Runs : Reserve(q, r)
         \/ \E s, r \in Runs : ReserveResume(s, r)
         \/ OperatorStep \/ Latch \/ StorageBlock \/ Crash \/ Boot
         \/ \E q \in Requirements : DeliveryStep(q)
  PROVE  TypeOK'
  <1> USE TypeKept DEF TypeOK, Command, Fault, WorkerIdle, CoordIdle
  <1>1. ASSUME NEW q \in Requirements, NEW r \in Runs, Reserve(q, r) PROVE
      TypeOK'
    <2>1. TypeControl' BY <1>1 DEF Reserve, TypeControl, control, guard
    <2>2. TypeReqs' BY <1>1 DEF Reserve, TypeReqs, InsertRun
    <2>3. TypeRows' BY <1>1 DEF Reserve, TypeRows, InsertRun, RunStates,
        TypeControl
    <2> QED BY <1>1, <2>1, <2>2, <2>3 DEF Reserve
  <1>2. ASSUME NEW s \in Runs, NEW r \in Runs, ReserveResume(s, r) PROVE TypeOK'
    <2>1. TypeReqs' BY <1>2 DEF ReserveResume, TypeReqs, InsertRun, Resumable
    <2>2. TypeRows' BY <1>2 DEF ReserveResume, TypeRows, InsertRun, Resumable,
        RunStates, TypeControl
    <2> QED BY <1>2, <2>1, <2>2 DEF ReserveResume
  <1>3. ASSUME NEW q \in Requirements \cup {None}, Pause(q) PROVE TypeOK'
    <2>1. TypeControl' BY <1>3 DEF Pause, TypeControl, control, guard
    <2>2. TypeReqs' BY <1>3 DEF Pause, TypeReqs
    <2>3. TypeRows' BY <1>3 DEF Pause, TypeRows, Unresolved
    <2>4. TypeBounds' BY <1>3 DEF Pause, TypeBounds
    <2> QED BY <1>3, <2>1, <2>2, <2>3, <2>4 DEF Pause
  <1>4. ASSUME NEW q \in Requirements \cup {None}, Resume(q) PROVE TypeOK'
    <2>1. TypeControl' BY <1>4 DEF Resume, TypeControl, control, guard
    <2>2. TypeReqs' BY <1>4 DEF Resume, TypeReqs
    <2>3. TypeBounds' BY <1>4 DEF Resume, TypeBounds
    <2> QED BY <1>4, <2>1, <2>2, <2>3 DEF Resume
  <1>5. ASSUME NEW q \in Requirements, Cancel(q) PROVE TypeOK'
    <2>1. TypeReqs' BY <1>5 DEF Cancel, TypeReqs
    <2>2. TypeRows' BY <1>5 DEF Cancel, TypeRows, Unresolved
    <2>3. TypeBounds' BY <1>5 DEF Cancel, TypeBounds
    <2> QED BY <1>5, <2>1, <2>2, <2>3 DEF Cancel
  <1>6. ASSUME NEW q \in Requirements, Revoke(q) PROVE TypeOK'
    <2>1. TypeReqs' BY <1>6 DEF Revoke, TypeReqs
    <2>2. TypeBounds' BY <1>6 DEF Revoke, TypeBounds
    <2> QED BY <1>6, <2>1, <2>2 DEF Revoke
  <1>7. ASSUME NEW q \in Requirements, StorageRecheck(q) PROVE TypeOK'
    <2>1. TypeControl' BY <1>7 DEF StorageRecheck, TypeControl, control, guard
    <2>2. TypeRows' BY <1>7 DEF StorageRecheck, TypeRows
    <2>3. TypeBounds' BY <1>7 DEF StorageRecheck, TypeBounds
    <2> QED BY <1>7, <2>1, <2>2, <2>3 DEF StorageRecheck
  <1>8. CASE Latch
    <2>1. TypeControl' BY <1>8 DEF Latch, TypeControl, control, guard
    <2>2. TypeBounds' BY <1>8 DEF Latch, TypeBounds
    <2> QED BY <1>8, <2>1, <2>2 DEF Latch
  <1>9. CASE StorageBlock
    <2>1. TypeControl' BY <1>9 DEF StorageBlock, TypeControl, control, guard
    <2>2. TypeRows' BY <1>9 DEF StorageBlock, TypeRows, Unresolved
    <2>3. TypeBounds' BY <1>9 DEF StorageBlock, TypeBounds
    <2> QED BY <1>9, <2>1, <2>2, <2>3 DEF StorageBlock
  <1>10. CASE Crash
    <2>1. TypeControl' BY <1>10 DEF Crash, TypeControl, control, guard
    <2>2. TypeWorker' BY <1>10 DEF Crash, TypeWorker, worker
    <2>3. TypeCoord' BY <1>10 DEF Crash, TypeCoord
    <2>4. TypeBounds' BY <1>10 DEF Crash, TypeBounds
    <2> QED BY <1>10, <2>1, <2>2, <2>3, <2>4 DEF Crash
  <1>11. CASE Boot
    <2>1. UNCHANGED <<owner, paused, blocked, failed>> BY <1>11 DEF Boot, guard
    <2>2. incarnation' = incarnation + 1 /\ recovered' = FALSE BY <1>11 DEF Boot
    <2>3. incarnation + 1 \in Nat
      <3>1. incarnation \in Nat BY DEF TypeControl
      <3> HIDE TypeKept DEF TypeOK
      <3> QED BY <3>1
    <2>4. TypeControl' BY <2>1, <2>2, <2>3 DEF TypeControl
    <2>5. TypeWorker' BY <1>11 DEF Boot, TypeWorker, worker
    <2> QED BY <1>11, <2>4, <2>5 DEF Boot
  <1>12. ASSUME NEW q \in Requirements, DeliveryStep(q) PROVE TypeOK'
    <2>1. TypeReqs' BY <1>12 DEF DeliveryStep, TypeReqs
    <2> QED BY <1>12, <2>1 DEF DeliveryStep
  <1> QED BY <1>1, <1>2, <1>3, <1>4, <1>5, <1>6, <1>7, <1>8, <1>9, <1>10, <1>11,
      <1>12 DEF OperatorStep

LEMMA TypeStep == TypeOK /\ [Next]_vars => TypeOK'
  <1> SUFFICES ASSUME TypeOK, [Next]_vars PROVE TypeOK' OBVIOUS
  <1>1. CASE UNCHANGED vars BY <1>1, TypeKept DEF vars, TypeOK
  <1>2. CASE Next
    BY <1>2, TypeWorkerStep, TypeSupervisorStep, TypeCoordinatorStep, TypeOtherStep
    DEF Next, FaultStep
  <1> QED BY <1>1, <1>2

\* Every row, file, process and program counter keeps its type.
THEOREM TypeCorrect == Spec => []TypeOK
  <1> QED BY TypeInit, TypeStep, PTL DEF Spec

----------------------------------------------------------------------------
(* The inductive invariant.  InvKept says on which state each part depends, *)
(* so that a step has to show only the parts it can disturb.                *)

InvParts ==
    /\ RowsI /\ SlotI /\ PathI /\ StopI /\ FateI /\ WorkI
    /\ WorkerI /\ CoordI /\ BrokerI /\ BarrierI /\ CancelI

SameKnown == \A r \in Runs : Known(r)' <=> Known(r)

LEMMA InvKept == IInv =>
    /\ UNCHANGED runState => SameKnown
    /\ SameKnown /\ UNCHANGED <<runReq, process, quiescent>> => RowsI'
    /\ SameKnown /\ UNCHANGED <<owner, runReq, quiescent>> => SlotI'
    /\ SameKnown /\ UNCHANGED <<process, session, files, sup, writer>> => PathI'
    /\ UNCHANGED <<quiescent, sup>> => StopI'
    /\ UNCHANGED <<runState, quiescent, session, snapshot>> => FateI'
    /\ SameKnown /\ UNCHANGED <<quiescent, op, snapshot, candidate>> => WorkI'
    /\ SameKnown /\ UNCHANGED <<up, wpc, wrun, runInc, incarnation, session, sup,
                                quiescent, process, op>> => WorkerI'
    /\ SameKnown /\ UNCHANGED <<up, cpc, crun, cseen, ctodo, runState, files>> => CoordI'
    /\ SameKnown /\ UNCHANGED <<cpc, crun, op, quiescent, wpc, snapshot>> => BrokerI'
    /\ SameKnown /\ UNCHANGED <<recovered, runInc, incarnation, quiescent, op,
                                snapshot>> => BarrierI'
    /\ SameKnown /\ UNCHANGED <<runReq, reqState, stop, quiescent, cleanup,
                                snapshot>> => CancelI'
  <1>1. UNCHANGED runState => SameKnown BY DEF SameKnown, Known
  <1>2. ASSUME IInv, SameKnown, UNCHANGED <<runReq, process, quiescent>> PROVE RowsI'
    BY <1>2 DEF IInv, RowsI, SameKnown
  <1>3. ASSUME IInv, SameKnown, UNCHANGED <<owner, runReq, quiescent>> PROVE SlotI'
    BY <1>3 DEF IInv, SlotI, SlotCoversUnresolved, Unresolved, SameKnown
  <1>4. ASSUME IInv, SameKnown, UNCHANGED <<process, session, files, sup, writer>>
        PROVE  PathI'
    BY <1>4 DEF IInv, PathI, SameKnown
  <1>5. ASSUME IInv, UNCHANGED <<quiescent, sup>> PROVE StopI'
    BY <1>5 DEF IInv, StopI
  <1>6. ASSUME IInv, UNCHANGED <<runState, quiescent, session, snapshot>> PROVE FateI'
    BY <1>6 DEF IInv, FateI
  <1>7. ASSUME IInv, SameKnown, UNCHANGED <<quiescent, op, snapshot, candidate>>
        PROVE  WorkI'
    BY <1>7 DEF IInv, WorkI, SameKnown
  <1>8. ASSUME IInv, SameKnown,
               UNCHANGED <<up, wpc, wrun, runInc, incarnation, session, sup,
                           quiescent, process, op>>
        PROVE  WorkerI'
    BY <1>8 DEF IInv, WorkerI, SameKnown
  <1>9. ASSUME IInv, SameKnown,
               UNCHANGED <<up, cpc, crun, cseen, ctodo, runState, files>>
        PROVE  CoordI'
    BY <1>9 DEF IInv, TypeOK, TypeCoord, CoordI, SameKnown
  <1>10. ASSUME IInv, SameKnown, UNCHANGED <<cpc, crun, op, quiescent, wpc, snapshot>>
         PROVE  BrokerI'
    BY <1>10 DEF IInv, BrokerI, Unpreserved, SameKnown
  <1>11. ASSUME IInv, SameKnown,
                UNCHANGED <<recovered, runInc, incarnation, quiescent, op, snapshot>>
         PROVE  BarrierI'
    BY <1>11 DEF IInv, BarrierI, BarrierReconciled, SameKnown
  <1>12. ASSUME IInv, SameKnown,
                UNCHANGED <<runReq, reqState, stop, quiescent, cleanup, snapshot>>
         PROVE  CancelI'
    BY <1>12 DEF IInv, CancelI, RunsOf, SameKnown
  <1> QED BY <1>1, <1>2, <1>3, <1>4, <1>5, <1>6, <1>7, <1>8, <1>9, <1>10, <1>11, <1>12

\* Stop proofs, stop intents and snapshots may be added freely.
LEMMA InvGrows ==
  ASSUME IInv, SameKnown, \A r \in Runs : quiescent[r] => quiescent'[r]
  PROVE  /\ UNCHANGED <<recovered, runInc, incarnation, op, snapshot>> => BarrierI'
         /\ /\ UNCHANGED <<runReq, reqState, cleanup>>
            /\ \A r \in Runs : stop[r] => stop'[r]
            /\ \A r \in Runs : snapshot[r] # "none" => snapshot'[r] # "none"
            => CancelI'
  <1>1. ASSUME UNCHANGED <<recovered, runInc, incarnation, op, snapshot>> PROVE BarrierI'
    BY <1>1 DEF IInv, BarrierI, BarrierReconciled, SameKnown
  <1>2. ASSUME UNCHANGED <<runReq, reqState, cleanup>>,
               \A r \in Runs : stop[r] => stop'[r],
               \A r \in Runs : snapshot[r] # "none" => snapshot'[r] # "none"
        PROVE  CancelI'
    <2>1. \A q \in Requirements : RunsOf(q)' = RunsOf(q) BY <1>2 DEF RunsOf, SameKnown
    <2>2. \A q \in Requirements : \A r \in RunsOf(q) : r \in Runs BY DEF RunsOf
    <2> QED BY <1>2, <2>1, <2>2 DEF IInv, CancelI, SameKnown
  <1> QED BY <1>1, <1>2

\* The runtime worker and the Agent it serves.
LEMMA InvWorkerStep ==
  ASSUME IInv, NEW r \in Runs,
         WorkerStep(r) \/ AgentStep(r) \/ SpawnFails(r) \/ GrantFails(r)
  PROVE  InvParts'
  <1> USE InvKept DEF IInv, TypeOK, AtWorker, GoWorker, WorkerIdle, Fault,
      control, guard, reqs, rows, work, fs, procs, worker, coord, bounds
  <1>1. CASE LaunchCheck(r)
    <2>1. WorkerI' BY <1>1 DEF LaunchCheck, WorkerI, TypeWorker, TypeRows,
        TypeWork, TypeProcs, Known
    <2>2. BrokerI' BY <1>1 DEF LaunchCheck, BrokerI, TypeCoord, TypeWork,
        TypeRows, Known, Unpreserved
    <2> QED BY <1>1, <2>1, <2>2 DEF LaunchCheck, InvParts
  <1>2. CASE OpenSession(r)
    <2>1. PathI' BY <1>2 DEF OpenSession, PathI, TypeFs, TypeProcs, TypeWork,
        TypeRows, Known, RuntimeAllowed, ActionsAllowed
    <2>2. FateI' BY <1>2 DEF OpenSession, FateI, TypeRows, TypeWork,
        RuntimeAllowed, ActionsAllowed, PathI
    <2>3. WorkerI' BY <1>2 DEF OpenSession, WorkerI, TypeWorker, TypeRows,
        TypeWork, TypeProcs, Known, RuntimeAllowed, ActionsAllowed, PathI
    <2>4. BrokerI' BY <1>2 DEF OpenSession, BrokerI, TypeCoord, TypeWork,
        TypeRows, Known, Unpreserved
    <2> QED BY <1>2, <2>1, <2>2, <2>3, <2>4 DEF OpenSession, InvParts
  <1>3. CASE Spawn(r)
    <2>1. PathI' BY <1>3 DEF Spawn, PathI, TypeFs, TypeProcs, TypeWork,
        TypeRows, Known, WorkerI
    <2>2. StopI' BY <1>3 DEF Spawn, StopI, TypeProcs, TypeRows, WorkerI
    <2>3. WorkerI' BY <1>3 DEF Spawn, WorkerI, TypeWorker, TypeRows, TypeWork,
        TypeProcs, Known
    <2>4. CoordI' BY <1>3 DEF Spawn, CoordI, TypeCoord, TypeRows, TypeFs, Known,
        PathI
    <2>5. BrokerI' BY <1>3 DEF Spawn, BrokerI, TypeCoord, TypeWork, TypeRows,
        Known, Unpreserved
    <2> QED BY <1>3, <2>1, <2>2, <2>3, <2>4, <2>5 DEF Spawn, InvParts
  <1>4. CASE SpawnFails(r)
    <2>1. PathI' BY <1>4 DEF SpawnFails, PathI, TypeFs, TypeProcs, TypeWork,
        TypeRows, Known, WorkerI
    <2>2. WorkerI' BY <1>4 DEF SpawnFails, WorkerI, TypeWorker, TypeRows,
        TypeWork, TypeProcs, Known
    <2>3. CoordI' BY <1>4 DEF SpawnFails, CoordI, TypeCoord, TypeRows, TypeFs,
        Known, PathI
    <2>4. BrokerI' BY <1>4 DEF SpawnFails, BrokerI, TypeCoord, TypeWork,
        TypeRows, Known, Unpreserved
    <2> QED BY <1>4, <2>1, <2>2, <2>3, <2>4 DEF SpawnFails, InvParts
  <1>5. CASE WaitIdentity(r)
    <2>1. WorkerI' BY <1>5 DEF WaitIdentity, WorkerI, TypeWorker, TypeRows,
        TypeWork, TypeProcs, Known
    <2>2. BrokerI' BY <1>5 DEF WaitIdentity, BrokerI, TypeCoord, TypeWork,
        TypeRows, Known, Unpreserved
    <2> QED BY <1>5, <2>1, <2>2 DEF WaitIdentity, InvParts
  <1>6. CASE AttachIdentity(r)
    <2>1. RowsI' BY <1>6 DEF AttachIdentity, RowsI, TypeRows, Known, Attach,
        WorkerI
    <2>2. PathI' BY <1>6 DEF AttachIdentity, PathI, TypeFs, TypeProcs, TypeWork,
        TypeRows, Known, Attach
    <2>3. FateI' BY <1>6 DEF AttachIdentity, FateI, TypeRows, TypeWork, Attach
    <2>4. WorkerI' BY <1>6 DEF AttachIdentity, WorkerI, TypeWorker, TypeRows,
        TypeWork, TypeProcs, Known, Attach
    <2>5. CoordI' BY <1>6 DEF AttachIdentity, CoordI, TypeCoord, TypeRows,
        TypeFs, Known, Attach
    <2>6. BrokerI' BY <1>6 DEF AttachIdentity, BrokerI, TypeCoord, TypeWork,
        TypeRows, Known, Unpreserved, Attach
    <2>7. SameKnown BY <1>6 DEF AttachIdentity, SameKnown, Known, TypeRows,
        Attach, WorkerI
    <2> QED BY <1>6, <2>1, <2>2, <2>3, <2>4, <2>5, <2>6, <2>7 DEF
        AttachIdentity, InvParts
  <1>7. CASE GrantProbe(r)
    <2>1. WorkerI' BY <1>7 DEF GrantProbe, WorkerI, TypeWorker, TypeRows,
        TypeWork, TypeProcs, Known
    <2>2. BrokerI' BY <1>7 DEF GrantProbe, BrokerI, TypeCoord, TypeWork,
        TypeRows, Known, Unpreserved
    <2> QED BY <1>7, <2>1, <2>2 DEF GrantProbe, InvParts
  <1>8. CASE Grant(r)
    <2>1. PathI' BY <1>8 DEF Grant, PathI, TypeFs, TypeProcs, TypeWork,
        TypeRows, Known, WorkerI
    <2>2. WorkerI' BY <1>8 DEF Grant, WorkerI, TypeWorker, TypeRows, TypeWork,
        TypeProcs, Known
    <2>3. CoordI' BY <1>8 DEF Grant, CoordI, TypeCoord, TypeRows, TypeFs, Known
    <2>4. BrokerI' BY <1>8 DEF Grant, BrokerI, TypeCoord, TypeWork, TypeRows,
        Known, Unpreserved
    <2> QED BY <1>8, <2>1, <2>2, <2>3, <2>4 DEF Grant, InvParts
  <1>9. CASE GrantFails(r)
    <2>1. WorkerI' BY <1>9 DEF GrantFails, WorkerI, TypeWorker, TypeRows,
        TypeWork, TypeProcs, Known
    <2>2. BrokerI' BY <1>9 DEF GrantFails, BrokerI, TypeCoord, TypeWork,
        TypeRows, Known, Unpreserved
    <2> QED BY <1>9, <2>1, <2>2 DEF GrantFails, InvParts
  <1>10. CASE WorkerStop(r)
    <2>1. WorkerI' BY <1>10 DEF WorkerStop, WorkerI, TypeWorker, TypeRows,
        TypeWork, TypeProcs, Known, Block
    <2>2. BrokerI' BY <1>10 DEF WorkerStop, BrokerI, TypeCoord, TypeWork,
        TypeRows, Known, Unpreserved, Block
    <2>3. CancelI' BY <1>10 DEF WorkerStop, CancelI, TypeReqs, TypeRows, RunsOf,
        Known, Block
    <2> QED BY <1>10, <2>1, <2>2, <2>3 DEF WorkerStop, InvParts
  <1>11. CASE WorkerStopFile(r)
    <2>1. PathI' BY <1>11 DEF WorkerStopFile, PathI, TypeFs, TypeProcs,
        TypeWork, TypeRows, Known, WorkerI
    <2>2. WorkerI' BY <1>11 DEF WorkerStopFile, WorkerI, TypeWorker, TypeRows,
        TypeWork, TypeProcs, Known
    <2>3. CoordI' BY <1>11 DEF WorkerStopFile, CoordI, TypeCoord, TypeRows,
        TypeFs, Known
    <2>4. BrokerI' BY <1>11 DEF WorkerStopFile, BrokerI, TypeCoord, TypeWork,
        TypeRows, Known, Unpreserved
    <2> QED BY <1>11, <2>1, <2>2, <2>3, <2>4 DEF WorkerStopFile, InvParts
  <1>12. CASE CommitIntent(r)
    <2>1. WorkI' BY <1>12 DEF CommitIntent, WorkI, TypeWork, TypeRows, Known,
        WorkerI, CommitAuthorized
    <2>2. WorkerI' BY <1>12 DEF CommitIntent, WorkerI, TypeWorker, TypeRows,
        TypeWork, TypeProcs, Known
    <2>3. BrokerI' BY <1>12 DEF CommitIntent, BrokerI, TypeCoord, TypeWork,
        TypeRows, Known, Unpreserved, CommitAuthorized, NoUnfinishedOpBut
    <2>4. BarrierI' BY <1>12 DEF CommitIntent, BarrierI, BarrierReconciled,
        TypeRows, TypeWork, Known, CommitAuthorized
    <2> QED BY <1>12, <2>1, <2>2, <2>3, <2>4 DEF CommitIntent, InvParts
  <1>13. CASE CommitPerform(r)
    <2>1. WorkI' BY <1>13 DEF CommitPerform, WorkI, TypeWork, TypeRows, Known,
        WorkerI, FailedOp
    <2>2. WorkerI' BY <1>13 DEF CommitPerform, WorkerI, TypeWorker, TypeRows,
        TypeWork, TypeProcs, Known, FailedOp
    <2>3. BrokerI' BY <1>13 DEF CommitPerform, BrokerI, TypeCoord, TypeWork,
        TypeRows, Known, Unpreserved, FailedOp
    <2>4. BarrierI' BY <1>13 DEF CommitPerform, BarrierI, BarrierReconciled,
        TypeRows, TypeWork, Known, WorkerI, FailedOp
    <2>5. CancelI' BY <1>13 DEF CommitPerform, CancelI, TypeReqs, TypeRows,
        RunsOf, Known, FailedOp
    <2> QED BY <1>13, <2>1, <2>2, <2>3, <2>4, <2>5 DEF CommitPerform, InvParts
  <1>14. ASSUME NEW kind \in {"completion", "blocker"}, End(r, kind) PROVE
      InvParts'
    <2>1. PathI' BY <1>14 DEF End, PathI, TypeFs, TypeProcs, TypeWork, TypeRows,
        Known
    <2>2. FateI' BY <1>14 DEF End, FateI, TypeRows, TypeWork
    <2>3. WorkerI' BY <1>14 DEF End, WorkerI, TypeWorker, TypeRows, TypeWork,
        TypeProcs, Known
    <2>4. CancelI' BY <1>14 DEF End, CancelI, TypeReqs, TypeRows, RunsOf, Known
    <2> QED BY <1>14, <2>1, <2>2, <2>3, <2>4 DEF End, InvParts
  <1> QED BY <1>1, <1>2, <1>3, <1>4, <1>5, <1>6, <1>7, <1>8, <1>9, <1>10, <1>11,
      <1>12, <1>13, <1>14 DEF WorkerStep, AgentStep

\* The supervisor, its descendants and the clock.
LEMMA InvSupervisorStep ==
  ASSUME IInv, NEW r \in Runs,
         SupervisorStep(r) \/ WriterExit(r) \/ HeartbeatStale(r) \/ SupLost(r)
  PROVE  InvParts'
  <1> USE InvKept DEF IInv, TypeOK, Fault, control, guard, reqs, rows, work, fs,
      procs, worker, coord, bounds
  <1>1. CASE SupPublish(r)
    <2>1. PathI' BY <1>1 DEF SupPublish, PathI, TypeFs, TypeProcs, TypeWork,
        TypeRows, Known, SupStep
    <2>2. StopI' BY <1>1 DEF SupPublish, StopI, TypeProcs, TypeRows, SupStep
    <2>3. WorkerI' BY <1>1 DEF SupPublish, WorkerI, TypeWorker, TypeRows,
        TypeWork, TypeProcs, Known, SupStep
    <2>4. CoordI' BY <1>1 DEF SupPublish, CoordI, TypeCoord, TypeRows, TypeFs,
        Known
    <2> QED BY <1>1, <2>1, <2>2, <2>3, <2>4 DEF SupPublish, InvParts
  <1>2. CASE SupCheck(r)
    <2>1. PathI' BY <1>2 DEF SupCheck, PathI, TypeFs, TypeProcs, TypeWork,
        TypeRows, Known, SupStep
    <2>2. StopI' BY <1>2 DEF SupCheck, StopI, TypeProcs, TypeRows, SupStep
    <2>3. WorkerI' BY <1>2 DEF SupCheck, WorkerI, TypeWorker, TypeRows,
        TypeWork, TypeProcs, Known, SupStep
    <2> QED BY <1>2, <2>1, <2>2, <2>3 DEF SupCheck, InvParts
  <1>3. CASE SupRefuse(r)
    <2>1. PathI' BY <1>3 DEF SupRefuse, PathI, TypeFs, TypeProcs, TypeWork,
        TypeRows, Known, SupStep
    <2>2. StopI' BY <1>3 DEF SupRefuse, StopI, TypeProcs, TypeRows, SupStep
    <2>3. WorkerI' BY <1>3 DEF SupRefuse, WorkerI, TypeWorker, TypeRows,
        TypeWork, TypeProcs, Known, SupStep
    <2>4. CoordI' BY <1>3 DEF SupRefuse, CoordI, TypeCoord, TypeRows, TypeFs,
        Known
    <2> QED BY <1>3, <2>1, <2>2, <2>3, <2>4 DEF SupRefuse, InvParts
  <1>4. CASE SupStart(r)
    <2>1. PathI' BY <1>4 DEF SupStart, PathI, TypeFs, TypeProcs, TypeWork,
        TypeRows, Known, SupStep
    <2>2. StopI' BY <1>4 DEF SupStart, StopI, TypeProcs, TypeRows, SupStep
    <2>3. WorkerI' BY <1>4 DEF SupStart, WorkerI, TypeWorker, TypeRows,
        TypeWork, TypeProcs, Known, SupStep
    <2> QED BY <1>4, <2>1, <2>2, <2>3 DEF SupStart, InvParts
  <1>5. CASE SupKill(r)
    <2>1. PathI' BY <1>5 DEF SupKill, PathI, TypeFs, TypeProcs, TypeWork,
        TypeRows, Known
    <2> QED BY <1>5, <2>1 DEF SupKill, InvParts
  <1>6. CASE SupReceipt(r)
    <2>1. PathI' BY <1>6 DEF SupReceipt, PathI, TypeFs, TypeProcs, TypeWork,
        TypeRows, Known, SupStep, Drained
    <2>2. StopI' BY <1>6 DEF SupReceipt, StopI, TypeProcs, TypeRows, SupStep
    <2>3. WorkerI' BY <1>6 DEF SupReceipt, WorkerI, TypeWorker, TypeRows,
        TypeWork, TypeProcs, Known, SupStep
    <2>4. CoordI' BY <1>6 DEF SupReceipt, CoordI, TypeCoord, TypeRows, TypeFs,
        Known
    <2> QED BY <1>6, <2>1, <2>2, <2>3, <2>4 DEF SupReceipt, InvParts
  <1>7. CASE SupLost(r)
    <2>1. PathI' BY <1>7 DEF SupLost, PathI, TypeFs, TypeProcs, TypeWork,
        TypeRows, Known
    <2>2. StopI' BY <1>7 DEF SupLost, StopI, TypeProcs, TypeRows
    <2>3. WorkerI' BY <1>7 DEF SupLost, WorkerI, TypeWorker, TypeRows, TypeWork,
        TypeProcs, Known
    <2> QED BY <1>7, <2>1, <2>2, <2>3 DEF SupLost, InvParts
  <1>8. CASE WriterExit(r)
    <2>1. PathI' BY <1>8 DEF WriterExit, PathI, TypeFs, TypeProcs, TypeWork,
        TypeRows, Known
    <2> QED BY <1>8, <2>1 DEF WriterExit, InvParts
  <1>9. CASE HeartbeatStale(r)
    <2> QED BY <1>9 DEF HeartbeatStale, InvParts
  <1> QED BY <1>1, <1>2, <1>3, <1>4, <1>5, <1>6, <1>7, <1>8, <1>9 DEF
      SupervisorStep

\* The coordinator's recovery task.
LEMMA InvCoordinatorStep ==
  ASSUME IInv, CoordinatorStep \/ CoError
  PROVE  InvParts'
  <1> USE InvKept DEF IInv, TypeOK, AtCoord, GoCoord, CoordIdle, CoordNext,
      CoordSame, Fault, control, guard, reqs, rows, work, fs, procs, worker,
      coord, bounds
  <1>1. CASE CoTick
    <2>1. RowsI' BY <1>1 DEF CoTick, RowsI, TypeRows, Known, Retirable
    <2>2. SlotI' BY <1>1 DEF CoTick, SlotI, SlotCoversUnresolved, Unresolved,
        TypeRows, Known, Retirable
    <2>3. StopI' BY <1>1 DEF CoTick, StopI, TypeProcs, TypeRows, Retirable,
        PathI
    <2>4. FateI' BY <1>1 DEF CoTick, FateI, TypeRows, TypeWork, Retirable
    <2>5. WorkI' BY <1>1 DEF CoTick, WorkI, TypeWork, TypeRows, Known, Retirable
    <2>6. WorkerI' BY <1>1 DEF CoTick, WorkerI, TypeWorker, TypeRows, TypeWork,
        TypeProcs, Known, Retirable
    <2>7. CoordI' BY <1>1 DEF CoTick, CoordI, TypeCoord, TypeRows, TypeFs,
        Known, Retirable
    <2>8. BrokerI' BY <1>1 DEF CoTick, BrokerI, TypeCoord, TypeWork, TypeRows,
        Known, Unpreserved, Retirable
    <2>9. BarrierI' BY <1>1 DEF CoTick, BarrierI, BarrierReconciled, TypeRows,
        TypeWork, Known, Retirable
    <2>10. CancelI' BY <1>1 DEF CoTick, CancelI, TypeReqs, TypeRows, RunsOf,
        Known, Retirable
    <2>11. SameKnown BY <1>1 DEF CoTick, SameKnown, Known, TypeRows, Retirable
    <2> QED BY <1>1, <2>1, <2>2, <2>3, <2>4, <2>5, <2>6, <2>7, <2>8, <2>9,
        <2>10, <2>11 DEF CoTick, InvParts
  <1>2. ASSUME NEW late \in SUBSET Runs, CoList(late) PROVE InvParts'
    <2>1. CoordI' BY <1>2 DEF CoList, CoordI, TypeCoord, TypeRows, TypeFs,
        Known, Unresolved, FateI
    <2>2. BrokerI' BY <1>2 DEF CoList, BrokerI, TypeCoord, TypeWork, TypeRows,
        Known, Unpreserved
    <2>3. CancelI' BY <1>2 DEF CoList, CancelI, TypeReqs, TypeRows, RunsOf,
        Known
    <2> QED BY <1>2, <2>1, <2>2, <2>3 DEF CoList, InvParts
  <1>3. ASSUME NEW r \in Runs, CoBlock(r) PROVE InvParts'
    <2>1. CoordI' BY <1>3 DEF CoBlock, CoordI, TypeCoord, TypeRows, TypeFs,
        Known, Block
    <2>2. BrokerI' BY <1>3 DEF CoBlock, BrokerI, TypeCoord, TypeWork, TypeRows,
        Known, Unpreserved, Block
    <2>3. CancelI' BY <1>3 DEF CoBlock, CancelI, TypeReqs, TypeRows, RunsOf,
        Known, Block
    <2> QED BY <1>3, <2>1, <2>2, <2>3 DEF CoBlock, InvParts
  <1>4. ASSUME NEW r \in Runs, CoEvidence(r) PROVE InvParts'
    <2>1. PathI' BY <1>4 DEF CoEvidence, PathI, TypeFs, TypeProcs, TypeWork,
        TypeRows, Known, CoordI
    <2>2. CoordI' BY <1>4 DEF CoEvidence, CoordI, TypeCoord, TypeRows, TypeFs,
        Known
    <2>3. BrokerI' BY <1>4 DEF CoEvidence, BrokerI, TypeCoord, TypeWork,
        TypeRows, Known, Unpreserved
    <2> QED BY <1>4, <2>1, <2>2, <2>3 DEF CoEvidence, InvParts
  <1>5. ASSUME NEW r \in Runs, CoAttach(r) PROVE InvParts'
    <2>1. RowsI' BY <1>5 DEF CoAttach, RowsI, TypeRows, Known, AttachMissing,
        Attach, CoordI
    <2>2. PathI' BY <1>5 DEF CoAttach, PathI, TypeFs, TypeProcs, TypeWork,
        TypeRows, Known, AttachMissing, Attach
    <2>3. FateI' BY <1>5 DEF CoAttach, FateI, TypeRows, TypeWork, AttachMissing,
        Attach
    <2>4. WorkerI' BY <1>5 DEF CoAttach, WorkerI, TypeWorker, TypeRows,
        TypeWork, TypeProcs, Known, AttachMissing, Attach
    <2>5. CoordI' BY <1>5 DEF CoAttach, CoordI, TypeCoord, TypeRows, TypeFs,
        Known, AttachMissing, Attach
    <2>6. BrokerI' BY <1>5 DEF CoAttach, BrokerI, TypeCoord, TypeWork, TypeRows,
        Known, Unpreserved, AttachMissing, Attach
    <2>7. SameKnown BY <1>5 DEF CoAttach, SameKnown, Known, TypeRows,
        AttachMissing, Attach, CoordI
    <2> QED BY <1>5, <2>1, <2>2, <2>3, <2>4, <2>5, <2>6, <2>7 DEF CoAttach,
        InvParts
  <1>6. ASSUME NEW r \in Runs, CoConfirm(r) PROVE InvParts'
    <2>1. RowsI' BY <1>6 DEF CoConfirm, RowsI, TypeRows, Known, Confirm
    <2>2. SlotI' BY <1>6 DEF CoConfirm, SlotI, SlotCoversUnresolved, Unresolved,
        TypeRows, Known, Confirm
    <2>3. StopI' BY <1>6 DEF CoConfirm, StopI, TypeProcs, TypeRows, Confirm,
        CoordI, PathI
    <2>4. FateI' BY <1>6 DEF CoConfirm, FateI, TypeRows, TypeWork, Confirm,
        CoordI
    <2>5. WorkI' BY <1>6 DEF CoConfirm, WorkI, TypeWork, TypeRows, Known,
        Confirm
    <2>6. WorkerI' BY <1>6 DEF CoConfirm, WorkerI, TypeWorker, TypeRows,
        TypeWork, TypeProcs, Known, Confirm, CoordI, PathI
    <2>7. CoordI' BY <1>6 DEF CoConfirm, CoordI, TypeCoord, TypeRows, TypeFs,
        Known, Confirm, FateI
    <2>8. BrokerI' BY <1>6 DEF CoConfirm, BrokerI, TypeCoord, TypeWork,
        TypeRows, Known, Unpreserved, Confirm
    <2>9. SameKnown BY <1>6 DEF CoConfirm, SameKnown, Known, TypeRows, Confirm, RowsI
    <2>10. \A s \in Runs : quiescent[s] => quiescent'[s]
      BY <1>6 DEF CoConfirm, Confirm, TypeRows
    <2>11. \A s \in Runs : stop[s] => stop'[s]
      BY <1>6 DEF CoConfirm, TypeRows
    <2>12. BarrierI'
      <3>1. UNCHANGED <<recovered, runInc, incarnation, op, snapshot>>
        BY <1>6 DEF CoConfirm
      <3> HIDE DEF IInv
      <3> QED BY <2>9, <2>10, <3>1, InvGrows
    <2>13. CancelI'
      <3>1. UNCHANGED <<runReq, reqState, cleanup, snapshot>> BY <1>6 DEF CoConfirm
      <3> HIDE DEF IInv
      <3> QED BY <2>9, <2>10, <2>11, <3>1, InvGrows
    <2> QED BY <1>6, <2>1, <2>2, <2>3, <2>4, <2>5, <2>6, <2>7, <2>8, <2>9,
        <2>10, <2>11, <2>12, <2>13 DEF CoConfirm, InvParts
  <1>7. ASSUME NEW r \in Runs, CoRead(r) PROVE InvParts'
    <2>1. CoordI' BY <1>7 DEF CoRead, CoordI, TypeCoord, TypeRows, TypeFs, Known
    <2>2. BrokerI' BY <1>7 DEF CoRead, BrokerI, TypeCoord, TypeWork, TypeRows,
        Known, Unpreserved
    <2> QED BY <1>7, <2>1, <2>2 DEF CoRead, InvParts
  <1>8. ASSUME NEW r \in Runs, CoObserve(r) PROVE InvParts'
    <2>1. RowsI' BY <1>8 DEF CoObserve, RowsI, TypeRows, Known, Confirm, Block
    <2>2. SlotI' BY <1>8 DEF CoObserve, SlotI, SlotCoversUnresolved, Unresolved,
        TypeRows, Known, Confirm, Block
    <2>3. StopI' BY <1>8 DEF CoObserve, StopI, TypeProcs, TypeRows, Confirm,
        Block, CoordI, PathI
    <2>4. FateI' BY <1>8 DEF CoObserve, FateI, TypeRows, TypeWork, Confirm,
        Block, CoordI
    <2>5. WorkI' BY <1>8 DEF CoObserve, WorkI, TypeWork, TypeRows, Known,
        Confirm, Block
    <2>6. WorkerI' BY <1>8 DEF CoObserve, WorkerI, TypeWorker, TypeRows,
        TypeWork, TypeProcs, Known, Confirm, Block, CoordI, PathI
    <2>7. CoordI' BY <1>8 DEF CoObserve, CoordI, TypeCoord, TypeRows, TypeFs,
        Known, Confirm, Block, FateI
    <2>8. BrokerI' BY <1>8 DEF CoObserve, BrokerI, TypeCoord, TypeWork,
        TypeRows, Known, Unpreserved, Confirm, Block
    <2>9. SameKnown BY <1>8 DEF CoObserve, SameKnown, Known, TypeRows, Confirm, RowsI
    <2>10. \A s \in Runs : quiescent[s] => quiescent'[s]
      BY <1>8 DEF CoObserve, Confirm, TypeRows
    <2>11. \A s \in Runs : stop[s] => stop'[s]
      BY <1>8 DEF CoObserve, TypeRows, Block
    <2>12. BarrierI'
      <3>1. UNCHANGED <<recovered, runInc, incarnation, op, snapshot>>
        BY <1>8 DEF CoObserve
      <3> HIDE DEF IInv
      <3> QED BY <2>9, <2>10, <3>1, InvGrows
    <2>13. CancelI'
      <3>1. UNCHANGED <<runReq, reqState, cleanup, snapshot>> BY <1>8 DEF CoObserve
      <3> HIDE DEF IInv
      <3> QED BY <2>9, <2>10, <2>11, <3>1, InvGrows
    <2> QED BY <1>8, <2>1, <2>2, <2>3, <2>4, <2>5, <2>6, <2>7, <2>8, <2>9,
        <2>10, <2>11, <2>12, <2>13 DEF CoObserve, InvParts
  <1>9. CASE CoRunsDone
    <2>1. CoordI' BY <1>9 DEF CoRunsDone, CoordI, TypeCoord, TypeRows, TypeFs,
        Known
    <2>2. BrokerI' BY <1>9 DEF CoRunsDone, BrokerI, TypeCoord, TypeWork,
        TypeRows, Known, Unpreserved
    <2> QED BY <1>9, <2>1, <2>2 DEF CoRunsDone, InvParts
  <1>10. CASE CoPreserve
    <2>1. WorkI' BY <1>10 DEF CoPreserve, WorkI, TypeWork, TypeRows, Known,
        Unpreserved
    <2>2. WorkerI' BY <1>10 DEF CoPreserve, WorkerI, TypeWorker, TypeRows,
        TypeWork, TypeProcs, Known, PreserveAuthorized, NoUnfinishedOpBut
    <2>3. CoordI' BY <1>10 DEF CoPreserve, CoordI, TypeCoord, TypeRows, TypeFs,
        Known
    <2>4. BrokerI' BY <1>10 DEF CoPreserve, BrokerI, TypeCoord, TypeWork,
        TypeRows, Known, Unpreserved, PreserveAuthorized, NoUnfinishedOpBut,
        WorkerI
    <2>5. BarrierI' BY <1>10 DEF CoPreserve, BarrierI, BarrierReconciled,
        TypeRows, TypeWork, Known, Unpreserved
    <2> QED BY <1>10, <2>1, <2>2, <2>3, <2>4, <2>5 DEF CoPreserve, InvParts
  <1>11. ASSUME NEW r \in Runs, CoPerform(r) PROVE InvParts'
    <2>1. FateI' BY <1>11 DEF CoPerform, FateI, TypeRows, TypeWork, WorkI,
        BrokerI, FailedOp
    <2>2. WorkI' BY <1>11 DEF CoPerform, WorkI, TypeWork, TypeRows, Known,
        BrokerI, FailedOp
    <2>3. WorkerI' BY <1>11 DEF CoPerform, WorkerI, TypeWorker, TypeRows,
        TypeWork, TypeProcs, Known, BrokerI, FailedOp
    <2>4. CoordI' BY <1>11 DEF CoPerform, CoordI, TypeCoord, TypeRows, TypeFs,
        Known, FailedOp
    <2>5. BrokerI' BY <1>11 DEF CoPerform, BrokerI, TypeCoord, TypeWork,
        TypeRows, Known, Unpreserved, FailedOp
    <2>6. BarrierI' BY <1>11 DEF CoPerform, BarrierI, BarrierReconciled,
        TypeRows, TypeWork, Known, BrokerI, FailedOp
    <2>7. CancelI'
      <3>1. \A s \in Runs : snapshot[s] # "none" => snapshot'[s] # "none"
        BY <1>11 DEF CoPerform, TypeWork
      <3>2. \A s \in Runs : stop[s] => stop'[s]
        BY <1>11 DEF CoPerform, FailedOp, TypeRows
      <3> QED BY <1>11, <3>1, <3>2, InvGrows DEF CoPerform
    <2> QED BY <1>11, <2>1, <2>2, <2>3, <2>4, <2>5, <2>6, <2>7 DEF CoPerform,
        InvParts
  <1>12. CASE CoFinalize
    <2>1. FateI' BY <1>12 DEF CoFinalize, FateI, TypeRows, TypeWork, Finished
    <2>2. CoordI' BY <1>12 DEF CoFinalize, CoordI, TypeCoord, TypeRows, TypeFs,
        Known, Finished
    <2>3. SameKnown BY <1>12 DEF CoFinalize, SameKnown, Known, TypeRows,
        Finished
    <2>4. BrokerI'
      <3>1. Unpreserved' = Unpreserved
        BY <1>12, <2>3 DEF CoFinalize, SameKnown, Unpreserved
      <3> QED BY <1>12, <3>1 DEF CoFinalize, GoCoord, BrokerI
    <2> QED BY <1>12, <2>1, <2>2, <2>3, <2>4 DEF CoFinalize, InvParts
  <1>13. CASE CoSettle
    <2>1. SlotI'
      <3>1. Unresolved' = Unresolved BY <1>13 DEF CoSettle, Unresolved, Known
      <3>2. CASE owner' = owner
        BY <1>13, <3>1, <3>2 DEF CoSettle, SlotI, SlotCoversUnresolved
      <3>3. CASE owner' # owner
        <4>1. Releasable(owner) BY <1>13, <3>3 DEF CoSettle
        <4>2. Unresolved = {}
          BY <4>1 DEF Releasable, RunsOf, Unresolved, SlotI, SlotCoversUnresolved
        <4> QED BY <3>1, <4>2 DEF SlotI, SlotCoversUnresolved
      <3> QED BY <3>2, <3>3
    <2>2. CoordI' BY <1>13 DEF CoSettle, CoordI, TypeCoord, TypeRows, TypeFs,
        Known
    <2>3. BrokerI' BY <1>13 DEF CoSettle, BrokerI, TypeCoord, TypeWork,
        TypeRows, Known, Unpreserved
    <2>4. CancelI' BY <1>13 DEF CoSettle, CancelI, TypeReqs, TypeRows, RunsOf,
        Known, Cleaned
    <2> QED BY <1>13, <2>1, <2>2, <2>3, <2>4 DEF CoSettle, InvParts
  <1>14. CASE CoBarrier
    <2>1. CoordI' BY <1>14 DEF CoBarrier, CoordI, TypeCoord, TypeRows, TypeFs,
        Known
    <2>2. BrokerI' BY <1>14 DEF CoBarrier, BrokerI, TypeCoord, TypeWork,
        TypeRows, Known, Unpreserved
    <2>3. BarrierI' BY <1>14 DEF CoBarrier, BarrierI, BarrierReconciled,
        TypeRows, TypeWork, Known, Reconciled, Unresolved
    <2> QED BY <1>14, <2>1, <2>2, <2>3 DEF CoBarrier, InvParts
  <1>15. CASE CoError
    <2>1. CoordI' BY <1>15 DEF CoError, CoordI, TypeCoord, TypeRows, TypeFs,
        Known
    <2>2. BrokerI' BY <1>15 DEF CoError, BrokerI, TypeCoord, TypeWork, TypeRows,
        Known, Unpreserved
    <2> QED BY <1>15, <2>1, <2>2 DEF CoError, InvParts
  <1> QED BY <1>1, <1>2, <1>3, <1>4, <1>5, <1>6, <1>7, <1>8, <1>9, <1>10, <1>11,
      <1>12, <1>13, <1>14, <1>15 DEF CoordinatorStep

\* Claims, operator, storage, crash and restart, delivery.
LEMMA InvOtherStep ==
  ASSUME IInv,
         \/ \E q \in Requirements, r \in Runs : Reserve(q, r)
         \/ \E s, r \in Runs : ReserveResume(s, r)
         \/ OperatorStep \/ Latch \/ StorageBlock \/ Crash \/ Boot
         \/ \E q \in Requirements : DeliveryStep(q)
  PROVE  InvParts'
  <1> USE InvKept DEF IInv, TypeOK, Command, Fault, WorkerIdle, CoordIdle,
      control, guard, reqs, rows, work, fs, procs, worker, coord, bounds
  <1>1. ASSUME NEW q \in Requirements, NEW r \in Runs, Reserve(q, r) PROVE
      InvParts'
    <2>1. RowsI' BY <1>1 DEF Reserve, RowsI, TypeRows, Known, InsertRun
    <2>2. SlotI' BY <1>1, ConstantsAssumption DEF Reserve, SlotI,
        SlotCoversUnresolved, Unresolved, TypeRows, Known, InsertRun,
        ClaimAllowed, RowsI
    <2>3. PathI' BY <1>1 DEF Reserve, PathI, TypeFs, TypeProcs, TypeWork,
        TypeRows, Known, InsertRun, RowsI
    <2>4. FateI' BY <1>1 DEF Reserve, FateI, TypeRows, TypeWork, InsertRun,
        RowsI
    <2>5. WorkI' BY <1>1 DEF Reserve, WorkI, TypeWork, TypeRows, Known,
        InsertRun, RowsI
    <2>6. WorkerI' BY <1>1 DEF Reserve, WorkerI, TypeWorker, TypeRows, TypeWork,
        TypeProcs, Known, InsertRun
    <2>7. CoordI' BY <1>1 DEF Reserve, CoordI, TypeCoord, TypeRows, TypeFs,
        Known, InsertRun
    <2>8. BrokerI' BY <1>1 DEF Reserve, BrokerI, TypeCoord, TypeWork, TypeRows,
        Known, Unpreserved, InsertRun, RowsI
    <2>9. BarrierI' BY <1>1 DEF Reserve, BarrierI, BarrierReconciled, TypeRows,
        TypeWork, Known, InsertRun
    <2>10. CancelI' BY <1>1 DEF Reserve, CancelI, TypeReqs, TypeRows, RunsOf,
        Known, InsertRun, RowsI, IsHead
    <2>11. StopI' BY <1>1 DEF Reserve, InsertRun, StopI
    <2> QED BY <2>1, <2>2, <2>3, <2>4, <2>5, <2>6, <2>7, <2>8, <2>9, <2>10, <2>11
        DEF InvParts
  <1>2. ASSUME NEW s \in Runs, NEW r \in Runs, ReserveResume(s, r) PROVE
      InvParts'
    <2>1. RowsI' BY <1>2 DEF ReserveResume, RowsI, TypeRows, Known, InsertRun,
        Resumable
    <2>2. SlotI'
      <3>1. Unresolved = {}
        BY <1>2 DEF ReserveResume, Resumable, RunsOf, Unresolved, SlotI,
                    SlotCoversUnresolved
      <3>2. Unresolved' \subseteq {r}
        BY <1>2, <3>1 DEF ReserveResume, InsertRun, Unresolved, Known, TypeRows
      <3>3. owner' = runReq'[r]
        BY <1>2 DEF ReserveResume, InsertRun, Resumable, TypeRows
      <3> QED BY <3>2, <3>3 DEF SlotI, SlotCoversUnresolved
    <2>3. PathI' BY <1>2 DEF ReserveResume, PathI, TypeFs, TypeProcs, TypeWork,
        TypeRows, Known, InsertRun, RowsI
    <2>4. FateI' BY <1>2 DEF ReserveResume, FateI, TypeRows, TypeWork,
        InsertRun, RowsI
    <2>5. WorkI' BY <1>2 DEF ReserveResume, WorkI, TypeWork, TypeRows, Known,
        InsertRun, RowsI
    <2>6. WorkerI' BY <1>2 DEF ReserveResume, WorkerI, TypeWorker, TypeRows,
        TypeWork, TypeProcs, Known, InsertRun
    <2>7. CoordI' BY <1>2 DEF ReserveResume, CoordI, TypeCoord, TypeRows,
        TypeFs, Known, InsertRun
    <2>8. BrokerI' BY <1>2 DEF ReserveResume, BrokerI, TypeCoord, TypeWork,
        TypeRows, Known, Unpreserved, InsertRun, RowsI
    <2>9. BarrierI' BY <1>2 DEF ReserveResume, BarrierI, BarrierReconciled,
        TypeRows, TypeWork, Known, InsertRun
    <2>10. CancelI' BY <1>2 DEF ReserveResume, CancelI, TypeReqs, TypeRows,
        RunsOf, Known, InsertRun, RowsI, Resumable
    <2>11. StopI' BY <1>2 DEF ReserveResume, InsertRun, StopI
    <2> QED BY <2>1, <2>2, <2>3, <2>4, <2>5, <2>6, <2>7, <2>8, <2>9, <2>10, <2>11
        DEF InvParts
  <1>3. ASSUME NEW q \in Requirements \cup {None}, Pause(q) PROVE InvParts'
    <2>1. CancelI' BY <1>3 DEF Pause, CancelI, TypeReqs, TypeRows, RunsOf,
        Known, Unresolved
    <2> QED BY <1>3, <2>1 DEF Pause, InvParts
  <1>4. ASSUME NEW q \in Requirements \cup {None}, Resume(q) PROVE InvParts'
    <2> QED BY <1>4 DEF Resume, InvParts
  <1>5. ASSUME NEW q \in Requirements, Cancel(q) PROVE InvParts'
    <2>1. CancelI'
      <3>1. \A s \in Runs : Known(s)' <=> Known(s) BY <1>5 DEF Cancel, Known
      <3>2. \A p \in Requirements : RunsOf(p)' = RunsOf(p)
        BY <1>5 DEF Cancel, Known, RunsOf
      <3>3. ASSUME NEW s \in Runs, Known(s), reqState'[runReq[s]] = "Cancelled"
            PROVE  stop'[s] \/ quiescent[s]
        <4>1. CASE runReq[s] = q BY <1>5, <3>3, <4>1 DEF Cancel, Unresolved, RunsOf
        <4>2. CASE runReq[s] # q
          BY <1>5, <3>3, <4>2 DEF Cancel, CancelI, RowsI, TypeReqs
        <4> QED BY <4>1, <4>2
      <3>4. \A p \in Requirements : reqState[p] = "Cancelled" => reqState'[p] = "Cancelled"
        BY <1>5 DEF Cancel, TypeReqs
      <3> QED BY <1>5, <3>1, <3>2, <3>3, <3>4 DEF Cancel, CancelI
    <2> QED BY <1>5, <2>1 DEF Cancel, InvParts
  <1>6. ASSUME NEW q \in Requirements, Revoke(q) PROVE InvParts'
    <2> QED BY <1>6 DEF Revoke, InvParts
  <1>7. ASSUME NEW q \in Requirements, StorageRecheck(q) PROVE InvParts'
    <2> QED BY <1>7 DEF StorageRecheck, InvParts
  <1>8. CASE Latch
    <2> QED BY <1>8 DEF Latch, InvParts
  <1>9. CASE StorageBlock
    <2>1. CancelI' BY <1>9 DEF StorageBlock, CancelI, TypeReqs, TypeRows,
        RunsOf, Known, Unresolved
    <2> QED BY <1>9, <2>1 DEF StorageBlock, InvParts
  <1>10. CASE Crash
    <2>1. WorkerI' BY <1>10 DEF Crash, WorkerI, TypeWorker, TypeRows, TypeWork,
        TypeProcs, Known
    <2>2. CoordI' BY <1>10 DEF Crash, CoordI, TypeCoord, TypeRows, TypeFs, Known
    <2>3. BrokerI' BY <1>10 DEF Crash, BrokerI, TypeCoord, TypeWork, TypeRows,
        Known, Unpreserved
    <2> QED BY <1>10, <2>1, <2>2, <2>3 DEF Crash, InvParts
  <1>11. CASE Boot
    <2>1. WorkerI' BY <1>11 DEF Boot, WorkerI, TypeWorker, TypeRows, TypeWork,
        TypeProcs, Known
    <2>2. CoordI' BY <1>11 DEF Boot, CoordI, TypeCoord, TypeRows, TypeFs, Known
    <2>3. BarrierI' BY <1>11 DEF Boot, BarrierI, BarrierReconciled, TypeRows,
        TypeWork, Known
    <2> QED BY <1>11, <2>1, <2>2, <2>3 DEF Boot, InvParts
  <1>12. ASSUME NEW q \in Requirements, DeliveryStep(q) PROVE InvParts'
    <2> QED BY <1>12 DEF DeliveryStep, InvParts
  <1> QED BY <1>1, <1>2, <1>3, <1>4, <1>5, <1>6, <1>7, <1>8, <1>9, <1>10, <1>11,
      <1>12 DEF OperatorStep

LEMMA InvInit == Init => InvParts
  BY DEF Init, InvParts, RowsI, SlotI, SlotCoversUnresolved, Unresolved, PathI, StopI,
         FateI, WorkI, WorkerI, CoordI, BrokerI, Unpreserved, BarrierI,
         BarrierReconciled, CancelI, RunsOf, Known

LEMMA InvStep == IInv /\ [Next]_vars => IInv'
  <1> SUFFICES ASSUME IInv, [Next]_vars PROVE IInv' OBVIOUS
  <1>1. TypeOK' BY TypeStep DEF IInv
  <1>2. InvParts'
    <2>1. CASE UNCHANGED vars
      BY <2>1, InvKept DEF vars, control, guard, reqs, rows, work, fs, procs, worker,
                           coord, bounds, InvParts
    <2>2. CASE Next
      BY <2>2, InvWorkerStep, InvSupervisorStep, InvCoordinatorStep, InvOtherStep
      DEF Next, FaultStep
    <2> QED BY <2>1, <2>2
  <1> QED BY <1>1, <1>2 DEF IInv, InvParts

\* The core keeps its inductive invariant: how far every Run has come, who works
\* on it and what is recorded of it stay consistent over every interleaving.
THEOREM Inductive == Spec => []IInv
  <1>1. Init => IInv BY TypeInit, InvInit DEF IInv, InvParts
  <1> QED BY <1>1, InvStep, PTL DEF Spec
----------------------------------------------------------------------------
(* The safety properties, each from the inductive invariant.               *)

LEMMA InvImplies == IInv =>
    /\ SlotCoversUnresolved /\ BarrierReconciled
    /\ SingleWriter /\ QuiescentMeansStopped /\ WriterHasIdentity /\ SuccessIsProven
  <1> SUFFICES ASSUME IInv
      PROVE /\ SlotCoversUnresolved /\ BarrierReconciled
            /\ SingleWriter /\ QuiescentMeansStopped /\ WriterHasIdentity
            /\ SuccessIsProven
      OBVIOUS
  <1> USE DEF IInv
  <1>1. SlotCoversUnresolved BY DEF SlotI
  <1>2. BarrierReconciled BY DEF BarrierI
  <1>3. \A r \in Runs : writer[r] => r \in Unresolved
    BY DEF PathI, StopI, Unresolved
  <1>4. SingleWriter BY <1>1, <1>3 DEF SingleWriter, SlotCoversUnresolved
  <1>5. QuiescentMeansStopped BY <1>3 DEF QuiescentMeansStopped, StopI, WorkerI, Unresolved
  <1>6. WriterHasIdentity BY DEF WriterHasIdentity, PathI
  <1>7. SuccessIsProven BY <1>3 DEF SuccessIsProven, FateI, WorkI, Unresolved
  <1> QED BY <1>1, <1>2, <1>4, <1>5, <1>6, <1>7

\* Whatever has not stopped is the one Run of the Requirement in the slot.
THEOREM SlotCovers == Spec => []SlotCoversUnresolved
  <1> QED BY Inductive, InvImplies, PTL

\* Processes of two Runs never work at the same time.
THEOREM OneWriter == Spec => []SingleWriter
  <1> QED BY Inductive, InvImplies, PTL

\* A recorded stop proof means that nothing of the Run lives or can start.
THEOREM StopProofSound == Spec => []QuiescentMeansStopped
  <1> QED BY Inductive, InvImplies, PTL

\* No writer works before its supervisor's identity is recorded.
THEOREM WriterKnown == Spec => []WriterHasIdentity
  <1> QED BY Inductive, InvImplies, PTL

\* With the barrier open, every Run of an earlier incarnation is reconciled.
THEOREM BarrierSound == Spec => []BarrierReconciled
  <1> QED BY Inductive, InvImplies, PTL

\* Succeeded is never reached without its four facts.
THEOREM SuccessSound == Spec => []SuccessIsProven
  <1> QED BY Inductive, InvImplies, PTL

\* The rows never tell less than the processes do: stop proofs, identities and the
\* barrier together.
THEOREM RecordsTrue == Spec => []RecordsAreTrue
  <1>1. IInv => RecordsAreTrue BY InvImplies DEF RecordsAreTrue
  <1> QED BY <1>1, Inductive, PTL

----------------------------------------------------------------------------
(* The action properties.  Each lemma says which steps can change the      *)
(* variable its property is about.                                         *)

LEMMA OwnerChanges ==
  ASSUME [Next]_vars
  PROVE  owner' = owner \/ CoSettle \/ \E q \in Requirements, r \in Runs : Reserve(q, r)
  <1> USE DEF control, guard, vars
  <1>1. ASSUME NEW r \in Runs, WorkerStep(r) \/ AgentStep(r) PROVE owner' = owner
    BY <1>1 DEF WorkerStep, AgentStep, LaunchCheck, OpenSession, Spawn, WaitIdentity,
       AttachIdentity, GrantProbe, Grant, WorkerStop, WorkerStopFile, CommitPerform,
       CommitIntent, End
  <1>2. ASSUME NEW r \in Runs, SupervisorStep(r) \/ WriterExit(r) \/ HeartbeatStale(r)
        PROVE  owner' = owner
    BY <1>2 DEF SupervisorStep, SupPublish, SupCheck, SupRefuse, SupStart, SupKill,
       SupReceipt, WriterExit, HeartbeatStale
  <1>3. CASE CoordinatorStep
    BY <1>3 DEF CoordinatorStep, CoTick, CoRunsDone, CoPreserve, CoFinalize, CoBarrier,
       CoList, CoBlock, CoEvidence, CoAttach, CoConfirm, CoRead, CoObserve, CoPerform
  <1>4. CASE OperatorStep
    BY <1>4 DEF OperatorStep, Pause, Resume, Cancel, Revoke, StorageRecheck
  <1>5. CASE FaultStep
    BY <1>5 DEF FaultStep, Crash, CoError, Latch, StorageBlock, SpawnFails, GrantFails,
       SupLost
  <1>6. CASE Boot BY <1>6 DEF Boot
  <1>7. ASSUME NEW q \in Requirements, DeliveryStep(q) PROVE owner' = owner
    BY <1>7 DEF DeliveryStep
  <1>8. ASSUME NEW s \in Runs, NEW r \in Runs, ReserveResume(s, r) PROVE owner' = owner
    BY <1>8 DEF ReserveResume
  <1> QED BY <1>1, <1>2, <1>3, <1>4, <1>5, <1>6, <1>7, <1>8 DEF Next

LEMMA LatchChanges ==
  ASSUME [Next]_vars
  PROVE  blocked' = blocked \/ blocked' = TRUE
         \/ \E q \in Requirements : StorageRecheck(q)
  <1> USE DEF guard, vars
  <1>1. ASSUME NEW r \in Runs, WorkerStep(r) \/ AgentStep(r) PROVE blocked' = blocked
    BY <1>1 DEF WorkerStep, AgentStep, LaunchCheck, OpenSession, Spawn, WaitIdentity,
       AttachIdentity, GrantProbe, Grant, WorkerStop, WorkerStopFile, CommitPerform,
       CommitIntent, End
  <1>2. ASSUME NEW r \in Runs, SupervisorStep(r) \/ WriterExit(r) \/ HeartbeatStale(r)
        PROVE  blocked' = blocked
    BY <1>2 DEF SupervisorStep, SupPublish, SupCheck, SupRefuse, SupStart, SupKill,
       SupReceipt, WriterExit, HeartbeatStale
  <1>3. CASE CoordinatorStep
    BY <1>3 DEF CoordinatorStep, CoTick, CoRunsDone, CoPreserve, CoFinalize, CoSettle,
       CoBarrier, CoList, CoBlock, CoEvidence, CoAttach, CoConfirm, CoRead, CoObserve,
       CoPerform
  <1>4. CASE OperatorStep
    BY <1>4 DEF OperatorStep, Pause, Resume, Cancel, Revoke
  <1>5. CASE FaultStep
    BY <1>5 DEF FaultStep, Crash, CoError, Latch, StorageBlock, SpawnFails, GrantFails,
       SupLost
  <1>6. CASE Boot BY <1>6 DEF Boot
  <1>7. ASSUME NEW q \in Requirements, DeliveryStep(q) PROVE blocked' = blocked
    BY <1>7 DEF DeliveryStep
  <1>8. ASSUME NEW s \in Runs, NEW r \in Runs, ReserveResume(s, r) PROVE blocked' = blocked
    BY <1>8 DEF ReserveResume
  <1>9. ASSUME NEW q \in Requirements, NEW r \in Runs, Reserve(q, r) PROVE blocked' = blocked
    BY <1>9 DEF Reserve
  <1> QED BY <1>1, <1>2, <1>3, <1>4, <1>5, <1>6, <1>7, <1>8, <1>9 DEF Next

LEMMA StartChanges ==
  ASSUME TypeFs, [Next]_vars, NEW s \in Runs, "start" \in files'[s] \ files[s]
  PROVE  Grant(s)
  <1> USE DEF TypeFs, fs, vars
  <1>1. ASSUME NEW r \in Runs, WorkerStep(r) \/ AgentStep(r) PROVE Grant(s)
    BY <1>1 DEF WorkerStep, AgentStep, LaunchCheck, OpenSession, Spawn, WaitIdentity,
       AttachIdentity, GrantProbe, Grant, WorkerStop, WorkerStopFile, CommitPerform,
       CommitIntent, End
  <1>2. ASSUME NEW r \in Runs, SupervisorStep(r) \/ WriterExit(r) \/ HeartbeatStale(r)
        PROVE  FALSE
    BY <1>2 DEF SupervisorStep, SupPublish, SupCheck, SupRefuse, SupStart, SupKill,
       SupReceipt, WriterExit, HeartbeatStale
  <1>3. CASE CoordinatorStep
    <2>1. ASSUME NEW r \in Runs, CoEvidence(r) PROVE FALSE BY <2>1 DEF CoEvidence
    <2>2. CASE UNCHANGED files BY <2>2
    <2>3. UNCHANGED files \/ \E r \in Runs : CoEvidence(r)
      BY <1>3 DEF CoordinatorStep, CoTick, CoRunsDone, CoPreserve, CoFinalize, CoSettle,
         CoBarrier, CoList, CoBlock, CoAttach, CoConfirm, CoRead, CoObserve, CoPerform
    <2> QED BY <2>1, <2>2, <2>3
  <1>4. CASE OperatorStep
    BY <1>4 DEF OperatorStep, Pause, Resume, Cancel, Revoke, StorageRecheck
  <1>5. CASE FaultStep
    <2>1. ASSUME NEW r \in Runs, SpawnFails(r) PROVE FALSE BY <2>1 DEF SpawnFails
    <2>2. CASE UNCHANGED files BY <2>2
    <2>3. UNCHANGED files \/ \E r \in Runs : SpawnFails(r)
      BY <1>5 DEF FaultStep, Crash, CoError, Latch, StorageBlock, GrantFails, SupLost
    <2> QED BY <2>1, <2>2, <2>3
  <1>6. CASE Boot BY <1>6 DEF Boot
  <1>7. ASSUME NEW q \in Requirements, DeliveryStep(q) PROVE FALSE
    BY <1>7 DEF DeliveryStep
  <1>8. ASSUME NEW t \in Runs, NEW r \in Runs, ReserveResume(t, r) PROVE FALSE
    BY <1>8 DEF ReserveResume
  <1>9. ASSUME NEW q \in Requirements, NEW r \in Runs, Reserve(q, r) PROVE FALSE
    BY <1>9 DEF Reserve
  <1> QED BY <1>1, <1>2, <1>3, <1>4, <1>5, <1>6, <1>7, <1>8, <1>9 DEF Next

\* The slot is left only when the work of its Requirement is stopped and preserved.
THEOREM ReleaseSound == Spec => ReleasePreservesWork
  <1>1. ASSUME IInv, [Next]_vars, NEW q \in Requirements, owner = q, owner' # q,
               NEW r \in RunsOf(q)
        PROVE  ~writer[r] /\ quiescent[r] /\ op[r] = "none" /\ snapshot[r] # "none"
    <2>1. CoSettle BY <1>1, OwnerChanges, ConstantsAssumption DEF Reserve, ClaimAllowed
    <2>2. r \in Runs /\ Known(r) BY DEF RunsOf
    <2>3. quiescent[r] BY <1>1, <2>1 DEF CoSettle, Releasable
    <2>4. snapshot[r] # "none"
      BY <1>1, <2>1, <2>2, <2>3 DEF CoSettle, AtCoord, IInv, BrokerI, Unpreserved
    <2>5. op[r] = "none" BY <1>1, <2>2, <2>4 DEF IInv, WorkI
    <2>6. ~writer[r] BY <1>1, <2>2, <2>3 DEF IInv, PathI, StopI
    <2> QED BY <2>3, <2>4, <2>5, <2>6
  <1>2. IInv /\ [Next]_vars =>
          [\A q \in Requirements : owner = q /\ owner' # q =>
              \A r \in RunsOf(q) : ~writer[r] /\ quiescent[r] /\ op[r] = "none"
                                   /\ snapshot[r] # "none"]_vars
    BY <1>1
  <1> QED BY <1>2, Inductive, PTL DEF Spec, ReleasePreservesWork

\* A Requirement enters the slot only from the head of the queue.
THEOREM HeadSound == Spec => HeadNeverSkipped
  <1>1. ASSUME IInv, [Next]_vars, NEW q \in Requirements, owner # q, owner' = q,
               NEW p \in Requirements, Rank[p] < Rank[q], reqState[p] = "Ready"
        PROVE  FALSE
    <2>1. PICK s \in Requirements, r \in Runs : Reserve(s, r)
      BY <1>1, OwnerChanges, ConstantsAssumption DEF CoSettle
    <2>2. s = q BY <1>1, <2>1 DEF Reserve
    <2>3. Rank[q] <= Rank[p] BY <1>1, <2>1, <2>2 DEF Reserve, IsHead
    <2> QED BY <1>1, <2>3, ConstantsAssumption
  <1>2. IInv /\ [Next]_vars =>
          [\A q \in Requirements : owner # q /\ owner' = q =>
              \A p \in Requirements : Rank[p] < Rank[q] => reqState[p] # "Ready"]_vars
    BY <1>1
  <1> QED BY <1>2, Inductive, PTL DEF Spec, HeadNeverSkipped

\* The slot is entered only from the head of the queue and left only with every Run
\* stopped and its work preserved (run_store::queued, delivery_control::settle).
THEOREM HandsSound == Spec => SlotChangesHands
  BY HeadSound, ReleaseSound DEF SlotChangesHands

\* The storage latch opens only when nothing can write any more.
THEOREM LatchSound == Spec => LatchOpensWhenStill
  <1>1. ASSUME IInv, [Next]_vars, blocked, ~blocked', NEW r \in Runs
        PROVE  ~writer[r] /\ sup[r] \notin {"spawned", "parked", "checked", "running",
                                            "lost"}
    <2>1. PICK q \in Requirements : StorageRecheck(q) BY <1>1, LatchChanges
    <2>2. Unresolved = {} BY <2>1 DEF StorageRecheck, NoneUnstopped
    <2>3. sup[r] # "none" => quiescent[r] BY <1>1, <2>2 DEF Unresolved, IInv, PathI
    <2> QED BY <1>1, <2>3 DEF IInv, StopI, PathI
  <1>2. IInv /\ [Next]_vars =>
          [blocked /\ ~blocked' =>
              \A r \in Runs : ~writer[r] /\ sup[r] \notin {"spawned", "parked",
                                                 "checked", "running", "lost"}]_vars
    BY <1>1
  <1> QED BY <1>2, Inductive, PTL DEF Spec, LatchOpensWhenStill

\* A start permission appears only while the Run's authority holds.
THEOREM GrantSound == Spec => GrantUnderAuthority
  <1>1. ASSUME IInv, [Next]_vars, NEW r \in Runs, "start" \in files'[r] \ files[r]
        PROVE  /\ ~paused /\ ~reqPaused[runReq[r]] /\ ~revoked[runReq[r]]
               /\ reqState[runReq[r]] # "Cancelled" /\ runInc[r] = incarnation
               /\ recovered /\ ~blocked /\ process[r]
    <2>1. Grant(r) BY <1>1, StartChanges DEF IInv, TypeOK
    <2>2. GrantReady(r) BY <1>1, <2>1 DEF Grant, IInv, TypeOK, TypeFs
    <2>3. ActionsAllowed(r) BY <2>2 DEF GrantReady
    <2>4. process[r] BY <1>1, <2>1 DEF Grant, AtWorker, IInv, WorkerI
    <2>5. reqState[runReq[r]] # "Cancelled" BY <1>1, <2>3 DEF ActionsAllowed, IInv, CancelI
    <2> QED BY <2>3, <2>4, <2>5 DEF ActionsAllowed
  <1>2. IInv /\ [Next]_vars =>
          [\A r \in Runs : "start" \in files'[r] \ files[r] =>
              /\ ~paused /\ ~reqPaused[runReq[r]] /\ ~revoked[runReq[r]]
              /\ reqState[runReq[r]] # "Cancelled" /\ runInc[r] = incarnation
              /\ recovered /\ ~blocked /\ process[r]]_vars
    BY <1>1
  <1> QED BY <1>2, Inductive, PTL DEF Spec, GrantUnderAuthority
Final(r) ==
    /\ quiescent[r] => quiescent'[r] /\ process'[r] = process[r]
                       /\ runState'[r] \in {"Interrupted", "Succeeded"}
    /\ runState[r] = "Succeeded" => runState'[r] = "Succeeded"

LEMMA FateChanges ==
  ASSUME [Next]_vars
  PROVE  \/ UNCHANGED <<process, quiescent, runState>>
         \/ \E q \in Requirements, r \in Runs : Reserve(q, r)
         \/ \E s, r \in Runs : ReserveResume(s, r)
         \/ \E r \in Runs : AttachIdentity(r)
         \/ CoTick \/ CoFinalize
         \/ \E r \in Runs : CoAttach(r) \/ CoConfirm(r) \/ CoObserve(r)
  <1> USE DEF rows, vars
  <1>1. ASSUME NEW r \in Runs, WorkerStep(r) \/ AgentStep(r)
        PROVE  AttachIdentity(r) \/ UNCHANGED <<process, quiescent, runState>>
    BY <1>1 DEF WorkerStep, AgentStep, LaunchCheck, OpenSession, Spawn, WaitIdentity,
       GrantProbe, Grant, WorkerStop, WorkerStopFile, CommitPerform, CommitIntent, End
  <1>2. ASSUME NEW r \in Runs, SupervisorStep(r) \/ WriterExit(r) \/ HeartbeatStale(r)
        PROVE  UNCHANGED <<process, quiescent, runState>>
    BY <1>2 DEF SupervisorStep, SupPublish, SupCheck, SupRefuse, SupStart, SupKill,
       SupReceipt, WriterExit, HeartbeatStale
  <1>3. CASE CoordinatorStep
    BY <1>3 DEF CoordinatorStep, CoRunsDone, CoPreserve, CoSettle, CoBarrier, CoList,
       CoBlock, CoEvidence, CoRead, CoPerform
  <1>4. CASE OperatorStep
    BY <1>4 DEF OperatorStep, Pause, Resume, Cancel, Revoke, StorageRecheck
  <1>5. CASE FaultStep
    BY <1>5 DEF FaultStep, Crash, CoError, Latch, StorageBlock, SpawnFails, GrantFails,
       SupLost
  <1>6. CASE Boot BY <1>6 DEF Boot
  <1>7. ASSUME NEW q \in Requirements, DeliveryStep(q)
        PROVE  UNCHANGED <<process, quiescent, runState>>
    BY <1>7 DEF DeliveryStep
  <1> QED BY <1>1, <1>2, <1>3, <1>4, <1>5, <1>6, <1>7 DEF Next

\* A stop proof and a success are final, and no identity is attached after one.
THEOREM FinalSound == Spec => StopIsFinal
  <1>1. ASSUME IInv, [Next]_vars, NEW t \in Runs PROVE Final(t)
    <2> USE DEF IInv, TypeOK, TypeRows
    <2>1. quiescent[t] => runState[t] \in {"Interrupted", "Succeeded"}
      BY <1>1 DEF FateI
    <2>2. runState[t] = "Succeeded" => quiescent[t] BY <1>1 DEF FateI
    <2>3. CASE UNCHANGED <<process, quiescent, runState>> BY <2>1, <2>3 DEF Final
    <2>4. ASSUME NEW q \in Requirements, NEW r \in Runs, InsertRun(q, r) PROVE Final(t)
      BY <1>1, <2>1, <2>4 DEF InsertRun, Known, Final
    <2>5. ASSUME NEW q \in Requirements, NEW r \in Runs, Reserve(q, r) PROVE Final(t)
      BY <2>4, <2>5 DEF Reserve
    <2>6. ASSUME NEW s \in Runs, NEW r \in Runs, ReserveResume(s, r) PROVE Final(t)
      <3>1. runReq[s] \in Requirements
        BY <1>1, <2>6 DEF ReserveResume, Resumable, RowsI
      <3> QED BY <2>4, <2>6, <3>1 DEF ReserveResume
    <2>7. ASSUME NEW r \in Runs, Attach(r), UNCHANGED quiescent PROVE Final(t)
      BY <1>1, <2>1, <2>2, <2>7 DEF Attach, Final
    <2>8. ASSUME NEW r \in Runs, AttachIdentity(r) PROVE Final(t)
      BY <2>7, <2>8 DEF AttachIdentity
    <2>9. ASSUME NEW r \in Runs, CoAttach(r) PROVE Final(t)
      BY <2>3, <2>7, <2>9 DEF CoAttach, AttachMissing, work
    <2>10. CASE CoTick BY <1>1, <2>1, <2>2, <2>10 DEF CoTick, Retirable, Final
    <2>11. CASE CoFinalize BY <1>1, <2>1, <2>2, <2>11 DEF CoFinalize, Finished, Final
    <2>12. ASSUME NEW r \in Runs, Confirm(r), UNCHANGED process, runState[r] # "Succeeded"
           PROVE  Final(t)
      BY <1>1, <2>1, <2>2, <2>12 DEF Confirm, Final
    <2>13. ASSUME NEW r \in Runs, CoConfirm(r) \/ CoObserve(r) PROVE Final(t)
      <3>1. runState[r] # "Succeeded"
        BY <1>1, <2>13 DEF CoConfirm, CoObserve, AtCoord, CoordI
      <3> QED BY <2>3, <2>12, <2>13, <3>1 DEF CoConfirm, CoObserve
    <2> QED BY <1>1, <2>3, <2>5, <2>6, <2>8, <2>9, <2>10, <2>11, <2>13, FateChanges
  <1>2. IInv /\ [Next]_vars => [\A r \in Runs : Final(r)]_vars BY <1>1
  <1> QED BY <1>2, Inductive, PTL DEF Spec, StopIsFinal, Final

----------------------------------------------------------------------------
(* The execution core implements the abstract slot of WriterSlot: under the *)
(* mapping of Execution!Slot every step is one abstract step or a stutter.  *)

Opened == {r \in Runs : Known(r)}
Active == {r \in Runs : writer[r]}
Proved == {r \in Runs : quiescent[r]}

SlotSame == SameKnown /\ UNCHANGED <<owner, quiescent, sup, writer>>

AbstractStep == Slot!SlotNext \/ UNCHANGED Slot!slot

LEMMA Stutter == SlotSame => AbstractStep
  BY DEF SlotSame, SameKnown, AbstractStep, Slot!slot, Ended

\* The steps that can move the abstract slot.
LEMMA SlotChanges ==
  ASSUME IInv, [Next]_vars
  PROVE  \/ SlotSame
         \/ \E q \in Requirements, r \in Runs : Reserve(q, r)
         \/ \E s, r \in Runs : ReserveResume(s, r)
         \/ \E r \in Runs : Spawn(r) \/ SupervisorStep(r) \/ SupLost(r) \/ WriterExit(r)
         \/ CoTick \/ CoSettle
         \/ \E r \in Runs : CoConfirm(r) \/ CoObserve(r)
  <1> USE DEF control, rows, procs, vars, SlotSame, SameKnown, Known
  <1>1. ASSUME NEW r \in Runs, WorkerStep(r) \/ AgentStep(r) PROVE Spawn(r) \/ SlotSame
    <2>1. ASSUME AttachIdentity(r) PROVE SlotSame
      BY <2>1 DEF AttachIdentity, Attach, AtWorker, IInv, TypeOK, TypeRows, WorkerI
    <2> QED
      BY <1>1, <2>1 DEF WorkerStep, AgentStep, LaunchCheck, OpenSession, WaitIdentity,
         GrantProbe, Grant, WorkerStop, WorkerStopFile, CommitPerform, CommitIntent, End
  <1>2. ASSUME NEW r \in Runs, HeartbeatStale(r) PROVE SlotSame
    BY <1>2 DEF HeartbeatStale
  <1>3. CASE CoordinatorStep
    <2>1. ASSUME NEW r \in Runs, CoAttach(r) PROVE SlotSame
      BY <2>1 DEF CoAttach, AttachMissing, Attach, AtCoord, IInv, TypeOK, TypeRows, CoordI
    <2>2. CASE CoFinalize
      BY <2>2 DEF CoFinalize, Finished, IInv, TypeOK, TypeRows
    <2> QED
      BY <1>3, <2>1, <2>2 DEF CoordinatorStep, CoRunsDone, CoPreserve, CoBarrier, CoList,
         CoBlock, CoEvidence, CoRead, CoPerform
  <1>4. CASE OperatorStep
    BY <1>4 DEF OperatorStep, Pause, Resume, Cancel, Revoke, StorageRecheck
  <1>5. CASE FaultStep
    BY <1>5 DEF FaultStep, Crash, CoError, Latch, StorageBlock, SpawnFails, GrantFails
  <1>6. CASE Boot BY <1>6 DEF Boot
  <1>7. ASSUME NEW q \in Requirements, DeliveryStep(q) PROVE SlotSame
    BY <1>7 DEF DeliveryStep
  <1> QED BY <1>1, <1>2, <1>3, <1>4, <1>5, <1>6, <1>7 DEF Next

LEMMA OpenStep ==
  ASSUME IInv, NEW q \in Requirements, NEW r \in Runs, InsertRun(q, r),
         UNCHANGED procs, Unresolved = {},
         owner' \in (IF owner = None THEN Requirements ELSE {owner})
  PROVE  AbstractStep
  <1> USE DEF IInv, TypeOK, TypeRows, InsertRun, Known, procs
  <1>1. Opened \subseteq Proved /\ r \notin Opened BY DEF Unresolved, Opened, Proved
  <1>2. Opened' = Opened \cup {r} BY DEF Opened
  <1>3. UNCHANGED <<Active, Ended, Proved>> BY DEF Active, Ended, Proved
  <1> QED BY <1>1, <1>2, <1>3
      DEF AbstractStep, Slot!SlotNext, Slot!Open, Slot!Quiet, Opened, Active, Proved

LEMMA FinishStep ==
  ASSUME NEW r \in Runs, Known(r), r \notin Ended, SameKnown, UNCHANGED <<owner, quiescent>>,
         Active' = Active \ {r}, Ended' = Ended \cup {r}
  PROVE  AbstractStep
  BY DEF AbstractStep, Slot!SlotNext, Slot!Finish, Active, SameKnown

LEMMA ProveStep ==
  ASSUME NEW r \in Runs, Known(r), ~writer[r], SameKnown, UNCHANGED <<owner, procs>>,
         Proved' = Proved \cup {r}
  PROVE  AbstractStep
  <1>1. Ended' = Ended \cup {r} BY DEF Ended, Proved, procs
  <1> QED BY <1>1 DEF AbstractStep, Slot!SlotNext, Slot!Prove, Active, Proved, SameKnown, procs

LEMMA SlotStep == ASSUME IInv, [Next]_vars PROVE AbstractStep
  <1> USE DEF IInv, TypeOK, TypeRows, TypeProcs
  <1>1. CASE SlotSame BY <1>1, Stutter
  <1>2. ASSUME NEW q \in Requirements, NEW r \in Runs, Reserve(q, r) PROVE AbstractStep
    <2>1. Unresolved = {}
      BY <1>2, ConstantsAssumption DEF Reserve, ClaimAllowed, SlotI, SlotCoversUnresolved,
                                      Unresolved, RowsI
    <2> QED BY <1>2, <2>1, OpenStep DEF Reserve, ClaimAllowed
  <1>3. ASSUME NEW s \in Runs, NEW r \in Runs, ReserveResume(s, r) PROVE AbstractStep
    <2>1. runReq[s] \in Requirements BY <1>3 DEF ReserveResume, Resumable, RowsI
    <2>2. Unresolved = {}
      BY <1>3 DEF ReserveResume, Resumable, RunsOf, Unresolved, SlotI, SlotCoversUnresolved
    <2> QED BY <1>3, <2>1, <2>2, OpenStep, ConstantsAssumption
        DEF ReserveResume, Resumable, control
  <1>4. ASSUME NEW r \in Runs, Spawn(r) PROVE AbstractStep
    <2>1. SameKnown /\ UNCHANGED <<owner, quiescent, writer>>
      BY <1>4, InvKept DEF Spawn, rows, control
    <2>2. Ended' = Ended
      BY <1>4, <2>1 DEF Spawn, AtWorker, WorkerI, Ended
    <2> QED BY <2>1, <2>2 DEF AbstractStep, Slot!slot, SameKnown
  <1>5. ASSUME NEW r \in Runs, SupervisorStep(r) \/ SupLost(r) \/ WriterExit(r)
        PROVE  AbstractStep
    <2>1. SameKnown /\ UNCHANGED <<owner, quiescent>>
      BY <1>5, InvKept DEF SupervisorStep, SupPublish, SupCheck, SupRefuse, SupStart,
         SupKill, SupReceipt, SupLost, WriterExit, rows, control
    <2>2. ASSUME SupStep(r, "spawned", "parked") \/ SupStep(r, "parked", "checked")
                 \/ SupStep(r, "checked", "parked") \/ SupStep(r, "running", "exited"),
                 UNCHANGED writer
          PROVE  AbstractStep
      <3>1. Ended' = Ended BY <2>1, <2>2 DEF SupStep, Ended
      <3> QED BY <2>1, <2>2, <3>1 DEF AbstractStep, Slot!slot, SameKnown
    <2>3. CASE SupRefuse(r) \/ SupLost(r)
      <3>1. UNCHANGED writer /\ sup[r] \in {"spawned", "parked", "checked", "running"}
        BY <2>3 DEF SupRefuse, SupLost, SupStep
      <3>2. sup' = [sup EXCEPT ![r] = "refused"] \/ sup' = [sup EXCEPT ![r] = "lost"]
        BY <2>3 DEF SupRefuse, SupLost, SupStep
      <3>3. Known(r) BY <3>1 DEF PathI
      <3>4. CASE writer[r] \/ r \in Ended
        <4>1. Ended' = Ended BY <2>1, <3>1, <3>2, <3>4 DEF Ended
        <4> QED BY <2>1, <3>1, <4>1 DEF AbstractStep, Slot!slot, SameKnown
      <3>5. CASE ~writer[r] /\ r \notin Ended
        <4>1. Ended' = Ended \cup {r} BY <2>1, <3>1, <3>2, <3>5 DEF Ended
        <4>2. Active' = Active \ {r} BY <3>1, <3>5 DEF Active
        <4> QED BY <2>1, <3>3, <3>5, <4>1, <4>2, FinishStep
      <3> QED BY <3>4, <3>5
    <2>4. CASE SupKill(r) \/ WriterExit(r)
      <3>1. writer[r] /\ writer' = [writer EXCEPT ![r] = FALSE] /\ UNCHANGED sup
        BY <2>4 DEF SupKill, WriterExit
      <3>2. sup[r] \in {"running", "lost"} /\ Known(r) BY <3>1 DEF PathI
      <3>3. Ended' = Ended \cup {r} BY <2>1, <3>1, <3>2 DEF Ended
      <3>4. Active' = Active \ {r} BY <3>1 DEF Active
      <3>5. r \notin Ended BY <3>1 DEF Ended
      <3> QED BY <2>1, <3>2, <3>3, <3>4, <3>5, FinishStep
    <2>5. CASE SupStart(r) /\ "start" \in files[r]
      <3>1. sup[r] = "checked" /\ sup' = [sup EXCEPT ![r] = "running"]
            /\ writer' = [writer EXCEPT ![r] = TRUE]
        BY <2>5 DEF SupStart, SupStep
      <3>2. Known(r) /\ ~quiescent[r] BY <3>1 DEF PathI, StopI
      <3>3. \A s \in Runs : writer[s] => s \in Unresolved BY DEF PathI, StopI, Unresolved
      <3>4. ~writer[r] BY <3>1 DEF PathI
      <3>5. Active = {} BY <3>2, <3>3, <3>4
        DEF Active, Unresolved, SlotI, SlotCoversUnresolved
      <3>6. Active' = {r} BY <3>1, <3>5 DEF Active
      <3>7. Ended' = Ended /\ r \notin Ended BY <2>1, <3>1, <3>2 DEF Ended
      <3> QED BY <2>1, <3>2, <3>5, <3>6, <3>7
          DEF AbstractStep, Slot!SlotNext, Slot!Start, Active, SameKnown
    <2> QED BY <1>5, <2>2, <2>3, <2>4, <2>5
        DEF SupervisorStep, SupPublish, SupCheck, SupStart, SupReceipt
  <1>6. CASE CoTick
    <2>1. SameKnown /\ UNCHANGED <<owner, procs>>
      BY <1>6 DEF CoTick, SameKnown, Known, Retirable, control
    <2>2. CASE \A r \in Runs : ~Retirable(r)
      BY <1>6, <2>1, <2>2, Stutter DEF CoTick, SlotSame, procs
    <2>3. ASSUME NEW r \in Runs, Retirable(r) PROVE AbstractStep
      <3>1. Known(r) /\ ~writer[r] BY <2>3 DEF Retirable, Known, PathI
      <3>2. \A s \in Runs : Retirable(s) => s = r
        BY <2>3 DEF Retirable, SlotI, SlotCoversUnresolved, Unresolved, Known
      <3>3. Proved' = Proved \cup {r} BY <1>6, <2>3, <3>2 DEF CoTick, Proved
      <3> QED BY <2>1, <3>1, <3>3, ProveStep
    <2> QED BY <2>2, <2>3
  <1>7. CASE CoSettle
    <2>1. SameKnown /\ UNCHANGED <<procs, quiescent>>
      BY <1>7, InvKept DEF CoSettle, rows
    <2>2. CASE owner' = owner BY <2>1, <2>2, Stutter DEF SlotSame, procs
    <2>3. CASE owner' # owner
      <3>1. owner # None /\ owner' = None /\ Releasable(owner)
        BY <1>7, <2>3 DEF CoSettle
      <3>2. Opened \subseteq Proved
        BY <3>1 DEF Releasable, RunsOf, SlotI, SlotCoversUnresolved, Unresolved, Opened,
                    Proved
      <3>3. UNCHANGED Ended BY <2>1 DEF Ended, procs
      <3> QED BY <2>1, <3>1, <3>2, <3>3
          DEF AbstractStep, Slot!SlotNext, Slot!Release, Slot!Quiet, Opened, Proved,
              SameKnown, procs
    <2> QED BY <2>2, <2>3
  <1>8. ASSUME NEW r \in Runs, CoConfirm(r) \/ CoObserve(r) PROVE AbstractStep
    <2>1. UNCHANGED <<owner, procs>> BY <1>8 DEF CoConfirm, CoObserve, control
    <2>2. CASE UNCHANGED <<quiescent, runState>>
      BY <2>1, <2>2, InvKept, Stutter DEF SlotSame, procs
    <2>3. CASE Confirm(r) /\ cseen /\ crun = r /\ process[r]
      <3>1. Known(r) BY <2>3 DEF RowsI
      <3>2. ~writer[r] BY <2>3 DEF CoordI, PathI
      <3>3. SameKnown BY <2>3, <3>1 DEF Confirm, SameKnown, Known
      <3>4. Proved' = Proved \cup {r} BY <2>3 DEF Confirm, Proved
      <3> QED BY <2>1, <3>1, <3>2, <3>3, <3>4, ProveStep
    <2> QED BY <1>8, <2>2, <2>3 DEF CoConfirm, CoObserve, Confirm
  <1> QED BY <1>1, <1>2, <1>3, <1>4, <1>5, <1>6, <1>7, <1>8, SlotChanges

LEMMA SlotStart == Init => Slot!SlotInit
  BY DEF Init, Slot!SlotInit, Known, Ended

\* The core implements the abstract slot, for every set of Requirements and Runs.
THEOREM Implements == Spec => ImplementsSlot
  <1>1. IInv /\ [Next]_vars => [Slot!SlotNext]_(Slot!slot) BY SlotStep DEF AbstractStep
  <1> QED BY <1>1, SlotStart, Inductive, PTL DEF Spec, ImplementsSlot, Slot!SlotSpec
============================================================================
