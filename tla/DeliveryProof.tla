---------------------------- MODULE DeliveryProof ----------------------------
(***************************************************************************)
(* Theorems about the delivery outbox, for every number of candidates and  *)
(* every case of limits, faults, commands and interference by people.      *)
(***************************************************************************)
EXTENDS Delivery, TLAPS, FiniteSetTheorems

----------------------------------------------------------------------------
(* The inductive invariant. *)

RowRecs ==
    [state : PublishStates, attempts : Nat, limit : Nat,
     error : Codes \cup {"none", "exhausted"}]
DeliveryRecs ==
    [original : 0..Last, expected : 0..Last, pr : Nat, superseded : 0..Last, released : BOOLEAN]
AttemptRecs ==
    [delivery : Deliveries, op : {"push", "create", "close"}, number : Nat,
     result : Receipts \cup {"none"}]
PrRecs == [marker : 0..Last, state : {"open", "closed", "merged"}, head : Heads]
Pcs == {"idle", "due", "find", "found", "head", "absent", "admit", "send", "await",
        "receipt", "failed"}
WorkerRecs ==
    [pc : Pcs, job : 0..Last, kind : Kinds, number : Nat, seen : Nat,
     fact : {"none", "open", "closed", "merged", "behind", "conflict"},
     head : Heads, op : {"none", "push", "create", "close"}, attempt : Nat,
     outcome : Receipts \cup {"none"}, code : Codes \cup {"none"}]

Types ==
    /\ case \in Cases
    /\ reqState \in {"Running", "Submitted", "Cancelled"}
    /\ cancelled \in BOOLEAN /\ paused \in BOOLEAN /\ cleanup \in BOOLEAN /\ slot \in BOOLEAN
    /\ work \in {"coding", "candidate", "done"}
    /\ barrier \in BOOLEAN /\ authorized \in BOOLEAN
    /\ delivery \in [Deliveries -> DeliveryRecs]
    /\ action \in [Deliveries -> [Kinds -> RowRecs]]
    /\ attempts \in Seq(AttemptRecs)
    /\ worker \in WorkerRecs
    /\ mergedSeen \subseteq Nat
    /\ branch \in Heads
    /\ prs \in Seq(PrRecs)
    /\ wire \subseteq DOMAIN attempts
    /\ faults \in 0..case.faults /\ commands \in 0..case.commands /\ people \in 0..case.people

Published(d) == action[d]["publish"].state = "confirmed"
Withdrawn(d) == action[d]["publish"].state = "withdrawn"

\* The attempt can no longer reach GitHub, and its receipt is not the proof that
\* it had no effect.
Spent(i) ==
    /\ i \notin wire
    /\ attempts[i].result # "definite"
    /\ worker.attempt = i =>
          /\ worker.pc # "send"
          /\ worker.pc = "receipt" => worker.outcome # "definite"

Done(d, op) ==
    \E i \in DOMAIN attempts : attempts[i].delivery = d /\ attempts[i].op = op /\ Spent(i)

\* deliveries are numbered without a gap; each but the first repairs the one
\* before it, which was published, and supersedes it when it is published itself
Chain == \E n \in 0..Last : Enqueued = 1..n
Linking ==
    \A d \in Deliveries :
        /\ d \notin Enqueued => /\ delivery[d].original = 0 /\ delivery[d].expected = 0
                               /\ delivery[d].pr = 0
                               /\ action[d]["publish"] = NoAction
        /\ action[d]["close"].state = "none" => action[d]["close"] = NoAction
        /\ d \in Enqueued /\ d = 1 =>
              delivery[d].original = 0 /\ delivery[d].expected = 0 /\ delivery[d].pr \in {0, 1}
        /\ d \in Enqueued /\ d > 1 =>
              /\ delivery[d].original = 1 /\ delivery[d].expected = d - 1 /\ delivery[d].pr = 1
              /\ Published(d - 1)
        /\ delivery[d].superseded = IF d < Last /\ Published(d + 1) THEN d + 1 ELSE 0

\* a candidate is worked on, or the Requirement submitted, only when all that was
\* enqueued is published
Phases ==
    /\ cancelled <=> reqState = "Cancelled"
    /\ work # "done" => \A d \in Enqueued : Published(d)
    /\ reqState = "Submitted" =>
          work = "done" /\ Enqueued # {} /\ \A d \in Enqueued : Published(d)
    /\ cleanup => ~slot

\* what a row says of GitHub was true once and is still
Decided ==
    \A d \in Deliveries :
        /\ Published(d) => delivery[d].pr = 1 /\ Done(d, "push")
        /\ Withdrawn(d) => /\ cancelled
                           /\ ~Tried(d, {"create"})
                           /\ d > 1 => ~Tried(d, {"push"})
                           /\ Tried(d, {"push"}) => Done(d, "push")
        /\ action[d]["close"].state # "none" => cancelled /\ delivery[d].pr = 1
        /\ action[d]["close"].state = "confirmed" => Published(d) /\ prs[1].state # "open"
        /\ delivery[d].released =>
              delivery[d].pr = 1 /\ prs[1].state = "merged" /\ Done(d, "push")

\* one attempt of a delivery and an operation is open, the newest
Single ==
    \A i, j \in DOMAIN attempts :
        /\ i < j
        /\ attempts[i].delivery = attempts[j].delivery
        /\ attempts[i].op = attempts[j].op
        => attempts[i].result = "definite"
Creates == \A i \in DOMAIN attempts : attempts[i].op = "create" => attempts[i].delivery = 1
UnderWay ==
    \A i \in wire :
        /\ attempts[i].result # "definite"
        /\ worker.attempt = i =>
              /\ worker.pc # "send"
              /\ worker.pc = "receipt" => worker.outcome # "definite"
        /\ attempts[i].op = "close" =>
              cancelled /\ attempts[i].number = 1 /\ delivery[attempts[i].delivery].pr = 1

\* a head that shows on GitHub was pushed, and the platform's pull request, which
\* is the first one once a delivery is linked to it, was created, each by an
\* attempt that is spent
Remote ==
    /\ \A m \in DOMAIN prs :
          /\ prs[m].marker \in {0, 1}
          /\ \A d \in Deliveries : prs[m].head = d => Done(d, "push")
    /\ \A m, o \in Ours : m = o
    /\ Ours # {} => Done(1, "create")
    /\ \A d \in Deliveries : branch = d => Done(d, "push")
    /\ \A d \in Deliveries : delivery[d].pr = 1 => 1 \in Ours
    /\ \A m \in mergedSeen : m \in DOMAIN prs /\ prs[m].state = "merged"

\* a publication that is worked on is due, or the coordinator took it back
\* meanwhile, which it does only to one that nothing was sent for
Workable(d) ==
    \/ action[d]["publish"].state \in DueStates
    \/ Withdrawn(d) /\ Untouched(d)

\* the worker's locals describe the row it works on and what it read
Busy == worker.pc \notin {"idle", "due"}
Picked ==
    Busy => /\ worker.job \in Enqueued
            /\ worker.number = delivery[worker.job].pr
            /\ worker.kind = "publish" => Workable(worker.job)
            /\ worker.kind = "close" => action[worker.job]["close"].state # "none"
Read ==
    /\ worker.pc \in {"head", "absent"} => worker.kind = "publish" /\ worker.number = 0
    /\ worker.pc = "absent" => \A d \in Deliveries : worker.head = d => Done(d, "push")
    /\ worker.pc = "found" =>
          /\ worker.seen = 1
          /\ worker.fact = "behind" => worker.kind = "publish"
          /\ worker.fact \in {"open", "closed", "merged"} =>
                1 \in Ours /\ \A d \in Deliveries : worker.job = d => Done(d, "push")
          /\ worker.fact \in {"closed", "merged"} => prs[1].state = worker.fact
Writes ==
    /\ worker.pc \in {"admit", "send", "await", "receipt"} =>
          /\ worker.op # "none" /\ KindOf(worker.op) = worker.kind
          /\ worker.op = "create" => worker.number = 0
    /\ worker.pc \in {"send", "await", "receipt"} =>
          /\ worker.attempt = Len(attempts) /\ worker.attempt # 0
          /\ attempts[worker.attempt].delivery = worker.job
          /\ attempts[worker.attempt].op = worker.op
          /\ attempts[worker.attempt].number = worker.number
          /\ attempts[worker.attempt].result = "none"

\* without the slot nothing that publishes is about to be sent or under way, and the
\* platform's pull request is not open
Quiet ==
    ~slot => /\ worker.pc = "send" => worker.op = "close"
             /\ \A i \in wire : attempts[i].op = "close"
             /\ OpenPrs \cap Ours = {}

IInv ==
    /\ Types
    /\ Chain /\ Linking /\ Phases /\ Decided
    /\ Single /\ Creates /\ UnderWay /\ Remote
    /\ Picked /\ Read /\ Writes /\ Quiet /\ LedgerBounded

----------------------------------------------------------------------------
(* Types: what each operation writes is of the type of the variable. *)

LEMMA CaseNumbers ==
    ASSUME DeliveryAssumption, case \in Cases
    PROVE  /\ Last \in Nat \ {0}
           /\ case.last \in 1..Last
           /\ case.limit \in Nat \ {0}
           /\ case.retry \in Nat /\ case.faults \in Nat /\ case.commands \in Nat
           /\ case.people \in Nat
BY DEF DeliveryAssumption

LEMMA TypesDeclared == ASSUME Types PROVE TypeOK
BY Zenon DEF Types, TypeOK, RowRecs, DeliveryRecs, AttemptRecs, WorkerRecs, PrRecs, Pcs

LEMMA IdleTyped == ASSUME DeliveryAssumption PROVE Idle \in WorkerRecs
BY DEF Idle, WorkerRecs, Pcs, Kinds, Heads, Foreign, DeliveryAssumption

LEMMA WorkerForms ==
    ASSUME NEW w \in WorkerRecs
    PROVE  /\ \A pc \in Pcs : [w EXCEPT !.pc = pc] \in WorkerRecs
           /\ \A pc \in Pcs, c \in Codes \cup {"none"} :
                 [w EXCEPT !.pc = pc, !.code = c] \in WorkerRecs
           /\ \A d \in 0..Last, k \in Kinds, n \in Nat :
                 [w EXCEPT !.pc = "find", !.job = d, !.kind = k, !.number = n] \in WorkerRecs
           /\ \A n \in Nat, f \in {"none", "open", "closed", "merged", "behind", "conflict"} :
                 [w EXCEPT !.pc = "found", !.seen = n, !.fact = f] \in WorkerRecs
           /\ \A h \in Heads : [w EXCEPT !.pc = "absent", !.head = h] \in WorkerRecs
           /\ \A o \in {"none", "push", "create", "close"} :
                 [w EXCEPT !.pc = "admit", !.op = o] \in WorkerRecs
           /\ \A n \in Nat : [w EXCEPT !.pc = "send", !.attempt = n] \in WorkerRecs
           /\ \A o \in Receipts, c \in Codes \cup {"none"} :
                 [w EXCEPT !.pc = "receipt", !.outcome = o, !.code = c] \in WorkerRecs
<1>1. \A pc \in Pcs : [w EXCEPT !.pc = pc] \in WorkerRecs
  BY DEF WorkerRecs
<1>2. \A pc \in Pcs, c \in Codes \cup {"none"} :
         [w EXCEPT !.pc = pc, !.code = c] \in WorkerRecs
  BY DEF WorkerRecs
<1>3. \A d \in 0..Last, k \in Kinds, n \in Nat :
         [w EXCEPT !.pc = "find", !.job = d, !.kind = k, !.number = n] \in WorkerRecs
  BY ZenonT(60) DEF WorkerRecs, Pcs
<1>4. \A n \in Nat, f \in {"none", "open", "closed", "merged", "behind", "conflict"} :
         [w EXCEPT !.pc = "found", !.seen = n, !.fact = f] \in WorkerRecs
  BY DEF WorkerRecs, Pcs
<1>5. \A h \in Heads : [w EXCEPT !.pc = "absent", !.head = h] \in WorkerRecs
  BY DEF WorkerRecs, Pcs
<1>6. \A o \in {"none", "push", "create", "close"} :
         [w EXCEPT !.pc = "admit", !.op = o] \in WorkerRecs
  BY DEF WorkerRecs, Pcs
<1>7. \A n \in Nat : [w EXCEPT !.pc = "send", !.attempt = n] \in WorkerRecs
  BY DEF WorkerRecs, Pcs
<1>8. \A o \in Receipts, c \in Codes \cup {"none"} :
         [w EXCEPT !.pc = "receipt", !.outcome = o, !.code = c] \in WorkerRecs
  BY DEF WorkerRecs, Pcs
<1>. QED BY <1>1, <1>2, <1>3, <1>4, <1>5, <1>6, <1>7, <1>8

----------------------------------------------------------------------------
(* Which operations write which variables. *)

Settles == Settle \/ CoordinatorSettle
RowStep ==
    Enqueue \/ Settles \/ Withdraw \/ Confirm \/ Begin \/ Refused \/ Failed \/ Cancel \/ Recheck
CallStep == Begin \/ Receipt
RemoteStep == PersonActs \/ \E i \in wire : Apply(i)

\* steps of the worker that touch neither an attempt nor its answer
Reads ==
    \/ Settle \/ NothingDue \/ \E d \in Deliveries, k \in Kinds : Pick(d, k)
    \/ Find \/ ReadHead \/ ReadFails \/ Withdraw \/ ChooseWrite \/ UpdatePr \/ Confirm
    \/ AdmissionFails \/ Refused \/ Failed \/ Crash
\* steps of others that leave the worker alone
Others ==
    \/ Enqueue \/ StartRepair \/ CodingEnds \/ SyncPrs \/ CoordinatorSettle \/ OperatorStep
    \/ GateCloses \/ GateOpens \/ PersonActs

LEMMA Kinded ==
    ASSUME Next
    PROVE  /\ case' = case
           /\ \/ Reads \/ Others \/ Begin \/ Send \/ SendFails \/ Timeout \/ Receipt
              \/ \E i \in wire : Apply(i) \/ Reject(i)
BY Zenon DEF Next, Reads, Others, WorkerStep

LEMMA ReadsFoot ==
    ASSUME Reads
    PROVE  /\ attempts' = attempts /\ wire' = wire /\ prs' = prs /\ branch' = branch
           /\ mergedSeen' = mergedSeen
           /\ RowStep \/ UNCHANGED <<action, delivery>>
           /\ Settle \/ Confirm \/ UNCHANGED requirement
           /\ cancelled' = cancelled /\ paused' = paused
           /\ UNCHANGED <<work, authorized, commands, people>>
<1>1. CASE Settle BY <1>1 DEF Settle, SettleRows, Settles, RowStep, gates, github, bounds
<1>2. CASE NothingDue BY <1>2 DEF NothingDue, requirement, gates, ledger, github, bounds
<1>3. CASE \E d \in Deliveries, k \in Kinds : Pick(d, k)
  BY <1>3 DEF Pick, requirement, gates, ledger, github, bounds
<1>4. CASE Find BY <1>4 DEF Find, requirement, gates, ledger, github, bounds
<1>5. CASE ReadHead BY <1>5 DEF ReadHead, requirement, gates, ledger, github, bounds
<1>6. CASE ReadFails BY <1>6 DEF ReadFails, requirement, gates, ledger, github, bounds
<1>7. CASE Withdraw BY <1>7 DEF Withdraw, RowStep, requirement, gates, ledger, github, bounds
<1>8. CASE ChooseWrite BY <1>8 DEF ChooseWrite, requirement, gates, ledger, github, bounds
<1>9. CASE UpdatePr BY <1>9 DEF UpdatePr, requirement, gates, ledger, github, bounds
<1>10. CASE Confirm BY <1>10 DEF Confirm, RowStep, requirement, gates, ledger, github, bounds
<1>11. CASE AdmissionFails
  BY <1>11 DEF AdmissionFails, requirement, gates, ledger, github, bounds
<1>12. CASE Refused BY <1>12 DEF Refused, RowStep, requirement, gates, ledger, github, bounds
<1>13. CASE Failed BY <1>13 DEF Failed, RowStep, requirement, gates, ledger, github, bounds
<1>14. CASE Crash BY <1>14 DEF Crash, requirement, gates, ledger, github, bounds
<1>. QED
  BY <1>1, <1>2, <1>3, <1>4, <1>5, <1>6, <1>7, <1>8, <1>9, <1>10, <1>11, <1>12, <1>13, <1>14
     DEF Reads

LEMMA OthersFoot ==
    ASSUME Others
    PROVE  /\ attempts' = attempts /\ wire' = wire /\ worker' = worker
           /\ PersonActs \/ (prs' = prs /\ branch' = branch)
           /\ SyncPrs \/ mergedSeen' = mergedSeen
           /\ RowStep \/ UNCHANGED <<action, delivery>>
           /\ CoordinatorSettle \/ (cleanup' = cleanup /\ slot' = slot)
           /\ Enqueue \/ Cancel \/ CoordinatorSettle \/ delivery' = delivery
           /\ Cancel \/ cancelled' = cancelled
           /\ StartRepair \/ Cancel \/ reqState' = reqState
           /\ Enqueue \/ StartRepair \/ CodingEnds \/ work' = work
<1>1. CASE Enqueue BY <1>1 DEF Enqueue, RowStep, requirement, gates, ledger, github, bounds
<1>2. CASE StartRepair BY <1>2 DEF StartRepair, requirement, gates, ledger, github, bounds
<1>3. CASE CodingEnds BY <1>3 DEF CodingEnds, requirement, gates, ledger, github, bounds
<1>4. CASE SyncPrs BY <1>4 DEF SyncPrs, requirement, gates, ledger, github, bounds
<1>5. CASE Pause BY <1>5 DEF Pause, requirement, gates, ledger, github, bounds
<1>6. CASE Resume BY <1>6 DEF Resume, requirement, gates, ledger, github, bounds
<1>7. CASE Cancel BY <1>7 DEF Cancel, RowStep, requirement, gates, ledger, github, bounds
<1>8. CASE Recheck BY <1>8 DEF Recheck, RowStep, requirement, gates, ledger, github, bounds
<1>9. CASE GateCloses BY <1>9 DEF GateCloses, requirement, gates, ledger, github, bounds
<1>10. CASE GateOpens BY <1>10 DEF GateOpens, requirement, gates, ledger, github, bounds
<1>11. CASE PersonActs BY <1>11 DEF PersonActs, requirement, gates, ledger, github, bounds
<1>12. CASE CoordinatorSettle
  BY <1>12 DEF CoordinatorSettle, SettleRows, Settles, RowStep, gates, github, bounds
<1>. QED
  BY <1>1, <1>2, <1>3, <1>4, <1>5, <1>6, <1>7, <1>8, <1>9, <1>10, <1>11, <1>12
     DEF Others, OperatorStep

LEMMA CallsFoot ==
    ASSUME Begin \/ Send \/ SendFails \/ Timeout \/ Receipt \/ \E i \in wire : Apply(i) \/ Reject(i)
    PROVE  /\ Begin \/ Receipt \/ attempts' = attempts
           /\ Begin \/ action' = action
           /\ delivery' = delivery /\ mergedSeen' = mergedSeen
           /\ UNCHANGED requirement /\ work' = work
           /\ (\E i \in wire : Apply(i)) \/ (prs' = prs /\ branch' = branch)
           /\ Send \/ (\E i \in wire : Apply(i) \/ Reject(i)) \/ wire' = wire
<1>1. CASE Begin BY <1>1 DEF Begin, requirement, gates, github, bounds
<1>2. CASE Send BY <1>2 DEF Send, requirement, gates, ledger, bounds
<1>3. CASE SendFails BY <1>3 DEF SendFails, requirement, gates, ledger, github, bounds
<1>4. CASE Timeout BY <1>4 DEF Timeout, requirement, gates, ledger, github, bounds
<1>5. CASE Receipt BY <1>5 DEF Receipt, requirement, gates, github, bounds
<1>6. ASSUME NEW i \in wire, Apply(i)
      PROVE  /\ UNCHANGED <<attempts, action, delivery, mergedSeen, requirement, work>>
  BY <1>6 DEF Apply, requirement, gates, ledger, bounds
<1>7. ASSUME NEW i \in wire, Reject(i)
      PROVE  /\ UNCHANGED <<attempts, action, delivery, mergedSeen, requirement, work, prs, branch>>
  BY <1>7 DEF Reject, requirement, gates, ledger, bounds
<1>. QED BY <1>1, <1>2, <1>3, <1>4, <1>5, <1>6, <1>7

----------------------------------------------------------------------------
(* Types are kept. *)

LEMMA PrFacts ==
    ASSUME DeliveryAssumption, Types, NEW n \in DOMAIN prs
    PROVE  /\ n \in 1..Len(prs) /\ prs[n] \in PrRecs
           /\ prs[n].marker \in 0..Last /\ prs[n].state \in {"open", "closed", "merged"}
           /\ prs[n].head \in Heads /\ HeadOf(n) \in Heads
<1>1. n \in 1..Len(prs) /\ prs[n] \in PrRecs
  BY DEF Types
<1>2. prs[n].head \in Heads /\ prs[n].state \in {"open", "closed", "merged"}
      /\ prs[n].marker \in 0..Last
  BY <1>1 DEF PrRecs
<1>. QED BY <1>1, <1>2 DEF HeadOf, Types

LEMMA ReadingFacts ==
    ASSUME DeliveryAssumption, Types, NEW n \in DOMAIN prs, NEW d \in Deliveries, NEW k \in Kinds
    PROVE  /\ Reading(d, k, n) \in {"open", "closed", "merged", "behind", "conflict"}
           /\ Reading(d, k, n) = "behind" => k = "publish"
           /\ Reading(d, k, n) \in {"open", "closed", "merged"} =>
                 prs[n].marker = Root(d) /\ HeadOf(n) = d /\ prs[n].state = Reading(d, k, n)
<1>1. prs[n].state \in {"open", "closed", "merged"}
  BY PrFacts
<1>. QED BY <1>1 DEF Reading, Behind, Fact

LEMMA WorkerTyped ==
    ASSUME DeliveryAssumption, Types, Picked, Next
    PROVE  worker' \in WorkerRecs
<1>1. worker \in WorkerRecs /\ Idle \in WorkerRecs
  BY IdleTyped DEF Types
<1>2. \A o \in Receipts, c \in Codes \cup {"none"} : Answer(o, c) => worker' \in WorkerRecs
  <2>1. \A o \in Receipts, c \in Codes \cup {"none"} :
           [worker EXCEPT !.pc = "receipt", !.outcome = o, !.code = c] \in WorkerRecs
    BY <1>1, WorkerForms
  <2>. QED BY <2>1, Zenon DEF Answer
<1>3. \A pc \in Pcs : Go(pc) => worker' \in WorkerRecs
  BY <1>1, WorkerForms, ZenonT(60) DEF Go
<1>4. \A c \in Codes : Fail(c) => worker' \in WorkerRecs
  <2>1. \A c \in Codes : [worker EXCEPT !.pc = "failed", !.code = c] \in WorkerRecs
    BY <1>1, WorkerForms DEF Pcs
  <2>. QED BY <2>1, Zenon DEF Fail
<1>5. \A o \in {"none", "push", "create", "close"} : Submit(o) => worker' \in WorkerRecs
  BY <1>1, WorkerForms, Zenon DEF Submit
<1>6. \A i \in wire, o \in Receipts, c \in Codes \cup {"none"} :
         Reply(i, o, c) => worker' \in WorkerRecs
  BY <1>1, <1>2, Zenon DEF Reply
<1>7. CASE Reads
  <2>1. CASE Settle BY <2>1, <1>3 DEF Settle, Pcs
  <2>2. CASE NothingDue BY <2>2, <1>1 DEF NothingDue
  <2>3. ASSUME NEW d \in Deliveries, NEW k \in Kinds, Pick(d, k) PROVE worker' \in WorkerRecs
    <3>1. d \in 0..Last /\ delivery[d].pr \in Nat
      BY DeliveryAssumption DEF Deliveries, Types, DeliveryRecs
    <3>. QED BY <3>1, <2>3, <1>1, WorkerForms, Zenon DEF Pick
  <2>4. CASE Find
    <3>1. CASE Fail("conflict") BY <3>1, <1>4 DEF Codes
    <3>2. CASE Go("head") BY <3>2, <1>3 DEF Pcs
    <3>3. CASE /\ Len(prs) = 1
               /\ worker' = [worker EXCEPT !.pc = "found", !.seen = 1,
                                           !.fact = Reading(worker.job, worker.kind, 1)]
      <4>1. worker.job \in Deliveries /\ worker.kind \in Kinds
        BY <2>4, <1>1 DEF Find, At, Picked, Busy, Enqueued, WorkerRecs
      <4>2. 1 \in DOMAIN prs
        BY <3>3 DEF Types
      <4>3. Reading(worker.job, worker.kind, 1)
               \in {"none", "open", "closed", "merged", "behind", "conflict"}
        BY <4>1, <4>2, ReadingFacts
      <4>. HIDE DEF Reading
      <4>. QED BY <4>3, <3>3, <1>1, WorkerForms
    <3>. QED BY <3>1, <3>2, <3>3, <2>4 DEF Find
  <2>5. CASE ReadHead BY <2>5, <1>1, WorkerForms, Zenon DEF ReadHead, Types
  <2>6. CASE ReadFails BY <2>6, <1>1, <1>4 DEF ReadFails, Codes
  <2>7. CASE Withdraw BY <2>7, <1>1 DEF Withdraw
  <2>8. CASE ChooseWrite BY <2>8, <1>4, <1>5 DEF ChooseWrite, Codes
  <2>9. CASE UpdatePr BY <2>9, <1>4, <1>5 DEF UpdatePr, Codes
  <2>10. CASE Confirm BY <2>10, <1>1, <1>5 DEF Confirm
  <2>11. CASE AdmissionFails BY <2>11, <1>1 DEF AdmissionFails
  <2>12. CASE Refused BY <2>12, <1>1 DEF Refused
  <2>13. CASE Failed BY <2>13, <1>1 DEF Failed
  <2>14. CASE Crash BY <2>14, <1>1 DEF Crash
  <2>. QED
    BY <1>7, <2>1, <2>2, <2>3, <2>4, <2>5, <2>6, <2>7, <2>8, <2>9, <2>10, <2>11, <2>12,
       <2>13, <2>14 DEF Reads
<1>8. CASE Others BY <1>8, <1>1, OthersFoot
<1>9. CASE Begin
  <2>1. Len(attempts) + 1 \in Nat BY DEF Types
  <2>. QED BY <2>1, <1>9, <1>1, WorkerForms, Zenon DEF Begin
<1>10. CASE Send BY <1>10, <1>2, <1>3 DEF Send, Pcs, Receipts, Codes
<1>11. CASE SendFails BY <1>11, <1>2 DEF SendFails, Receipts, Codes
<1>12. CASE Timeout BY <1>12, <1>2 DEF Timeout, Receipts, Codes
<1>13. CASE Receipt BY <1>13, <1>1, <1>3 DEF Receipt, Pcs
<1>14. ASSUME NEW i \in wire, Apply(i) PROVE worker' \in WorkerRecs
  BY <1>14, <1>6 DEF Apply, ApplyPush, ApplyCreate, ApplyClose, Receipts, Codes
<1>15. ASSUME NEW i \in wire, Reject(i) PROVE worker' \in WorkerRecs
  BY <1>15, <1>1, <1>6 DEF Reject, Receipts, Codes
<1>. QED
  BY Kinded, <1>7, <1>8, <1>9, <1>10, <1>11, <1>12, <1>13, <1>14, <1>15

----------------------------------------------------------------------------
(* The rows of delivery and delivery_action after a step. *)

LEMMA RowForms ==
    ASSUME NEW r \in RowRecs, NEW s \in PublishStates, NEW e \in Codes \cup {"none", "exhausted"},
           NEW n \in Nat
    PROVE  /\ [r EXCEPT !.state = s] \in RowRecs
           /\ [r EXCEPT !.state = s, !.error = e] \in RowRecs
           /\ [r EXCEPT !.state = s, !.attempts = n] \in RowRecs
           /\ [r EXCEPT !.limit = n, !.state = s, !.error = e] \in RowRecs
<1>1. [r EXCEPT !.state = s] \in RowRecs BY DEF RowRecs
<1>2. [r EXCEPT !.state = s, !.error = e] \in RowRecs BY DEF RowRecs
<1>3. [r EXCEPT !.state = s, !.attempts = n] \in RowRecs BY DEF RowRecs
<1>4. [r EXCEPT !.limit = n, !.state = s, !.error = e] \in RowRecs BY DEF RowRecs
<1>. QED BY <1>1, <1>2, <1>3, <1>4

LEMMA NewRows ==
    ASSUME DeliveryAssumption, Types
    PROVE  /\ NoAction \in RowRecs /\ Pending \in RowRecs
           /\ NoAction.state = "none" /\ NoAction.attempts = 0 /\ NoAction.limit = case.limit
           /\ Pending.state = "pending" /\ Pending.attempts = 0 /\ Pending.limit = case.limit
<1>1. case.limit \in Nat BY CaseNumbers DEF Types
<1>2. NoAction \in RowRecs BY <1>1 DEF NoAction, RowRecs, PublishStates
<1>3. Pending = [state |-> "pending", attempts |-> 0, limit |-> case.limit, error |-> "none"]
  BY DEF Pending, NoAction
<1>4. Pending \in RowRecs BY <1>1, <1>3 DEF RowRecs, PublishStates
<1>. QED BY <1>2, <1>3, <1>4 DEF NoAction

LEMMA RowTypes ==
    ASSUME Types, NEW d \in Deliveries, NEW k \in Kinds
    PROVE  /\ action[d] \in [Kinds -> RowRecs] /\ action[d][k] \in RowRecs
           /\ action[d][k].state \in PublishStates
           /\ action[d][k].attempts \in Nat /\ action[d][k].limit \in Nat
           /\ delivery[d] \in DeliveryRecs
           /\ delivery[d].original \in 0..Last /\ delivery[d].expected \in 0..Last
           /\ delivery[d].pr \in Nat /\ delivery[d].superseded \in 0..Last
           /\ delivery[d].released \in BOOLEAN
<1>1. action[d] \in [Kinds -> RowRecs] /\ delivery[d] \in DeliveryRecs BY DEF Types
<1>2. action[d][k] \in RowRecs BY <1>1
<1>. QED BY <1>1, <1>2 DEF RowRecs, DeliveryRecs

\* one row is written, and it does not return to "none"
OneRow(j, k, r) ==
    /\ j \in Enqueued /\ k \in Kinds /\ r \in RowRecs
    /\ action' = [action EXCEPT ![j][k] = r]
    /\ delivery' = delivery
    /\ \/ k = "publish" /\ action[j][k].state \in DueStates /\ r.state \in DueStates
       \/ k = "close" /\ action[j][k].state # "none" /\ r.state \in DueStates
       \/ /\ k = "publish" /\ r.state = "withdrawn"
          /\ action[j][k].state \in DueStates \/ Withdrawn(j)
          /\ Withdraw /\ j = worker.job /\ Withdrawable(j, worker.head)
       \/ /\ k = "publish" /\ Withdrawn(j) /\ Untouched(j)
          /\ r.state \in {"unknown", "blocked"}
          /\ Failed /\ j = worker.job
    /\ Begin \/ r.attempts = action[j][k].attempts
    /\ action[j][k].attempts <= action[j][k].limit => r.attempts <= r.limit

RowsStand == UNCHANGED <<action, delivery>>

LEMMA PickedRow ==
    ASSUME Types, Picked, Busy
    PROVE  /\ worker.job \in Enqueued /\ worker.job \in Deliveries /\ worker.kind \in Kinds
           /\ Row \in RowRecs /\ Row.attempts \in Nat /\ Row.limit \in Nat
           /\ worker.kind = "publish" => Workable(worker.job)
           /\ worker.kind = "close" => Row.state # "none"
           /\ worker.kind \in {"publish", "close"}
<1>1. worker.kind \in Kinds BY DEF Types, WorkerRecs
<1>2. worker.job \in Enqueued /\ worker.job \in Deliveries BY DEF Picked, Enqueued
<1>. QED BY <1>1, <1>2, RowTypes DEF Picked, Row, Kinds

LEMMA StepRows ==
    ASSUME DeliveryAssumption, Types, Picked, Read, Next
    PROVE  \/ RowsStand
           \/ \E j, k, r : OneRow(j, k, r)
           \/ Enqueue \/ Settles \/ Confirm \/ Cancel
<1>. DEFINE j == worker.job
            k == worker.kind
<1>1. CASE Withdraw
  <2>1. Busy /\ k = "publish" BY <1>1 DEF Withdraw, At, Busy, Read
  <2>2. CASE action' = action BY <1>1, <2>2 DEF Withdraw, RowsStand
  <2>3. CASE action' # action
    <3>. DEFINE r == [action[j]["publish"] EXCEPT !.state = "withdrawn", !.error = "none"]
    <3>1. j \in Enqueued /\ j \in Deliveries /\ action[j]["publish"] \in RowRecs
          /\ (action[j]["publish"].state \in DueStates \/ Withdrawn(j))
      BY <2>1, PickedRow DEF Row, Workable
    <3>2. r \in RowRecs BY <3>1, RowForms DEF PublishStates
    <3>3. r.state = "withdrawn" /\ r.attempts = action[j]["publish"].attempts
          /\ r.limit = action[j]["publish"].limit
      BY <3>1 DEF RowRecs
    <3>4. action' = [action EXCEPT ![j]["publish"] = r]
      <4>1. action' = [action EXCEPT ![j]["publish"].state = "withdrawn",
                                     ![j]["publish"].error = "none"]
        BY <1>1, <2>3 DEF Withdraw
      <4>. QED BY <4>1, <3>1 DEF Types, Kinds
    <3>5. delivery' = delivery BY <1>1 DEF Withdraw
    <3>. HIDE DEF r, j
    <3>6. Withdrawable(j, worker.head) BY <1>1, <2>3 DEF Withdraw, j
    <3>7. j = worker.job BY DEF j
    <3>8. OneRow(j, "publish", r)
      BY <1>1, <3>1, <3>2, <3>3, <3>4, <3>5, <3>6, <3>7 DEF OneRow, Kinds
    <3>. QED BY <3>8
  <2>. QED BY <2>2, <2>3
<1>2. CASE Begin
  <2>. DEFINE r == [Row EXCEPT !.state = "unknown", !.attempts = @ + 1]
  <2>1. Busy BY <1>2 DEF Begin, At, Busy
  <2>2. Row.attempts + 1 \in Nat BY <2>1, PickedRow
  <2>3. r \in RowRecs BY <2>1, <2>2, PickedRow, RowForms DEF PublishStates
  <2>4. r.state = "unknown" /\ r.attempts = Row.attempts + 1 /\ r.limit = Row.limit
    BY <2>1, PickedRow DEF RowRecs
  <2>5. action' = [action EXCEPT ![j][k] = r]
    <3>1. action' = [action EXCEPT ![j][k].state = "unknown", ![j][k].attempts = @ + 1]
      BY <1>2 DEF Begin
    <3>. QED BY <3>1, <2>1, PickedRow DEF Types, Row
  <2>6. r.attempts <= r.limit BY <1>2, <2>1, <2>4, PickedRow DEF Begin, CanWrite
  <2>7. delivery' = delivery BY <1>2 DEF Begin
  <2>. HIDE DEF r
  <2>8. OneRow(j, k, r)
    <3>1. Row.state \in {"pending", "unknown"} BY <1>2 DEF Begin, CanWrite
    <3>. QED BY <1>2, <2>1, <2>3, <2>4, <2>5, <2>6, <2>7, <3>1, PickedRow
      DEF OneRow, Kinds, Row, DueStates
  <2>. QED BY <2>8
<1>3. CASE Refused
  <2>1. Busy BY <1>3 DEF Refused, At, Busy
  <2>2. CASE action' = action BY <1>3, <2>2 DEF Refused, RowsStand
  <2>3. CASE action' # action
    <3>. DEFINE r == [Row EXCEPT !.state = "blocked", !.error = "exhausted"]
    <3>1. r \in RowRecs BY <2>1, PickedRow, RowForms DEF PublishStates
    <3>2. r.state = "blocked" /\ r.attempts = Row.attempts /\ r.limit = Row.limit
      BY <2>1, PickedRow DEF RowRecs
    <3>3. action' = [action EXCEPT ![j][k] = r]
      <4>1. action' = [action EXCEPT ![j][k].state = "blocked", ![j][k].error = "exhausted"]
        BY <1>3, <2>3 DEF Refused
      <4>. QED BY <4>1, <2>1, PickedRow DEF Types, Row
    <3>4. delivery' = delivery BY <1>3 DEF Refused
    <3>. HIDE DEF r
    <3>5. Row.state = "unknown" BY <1>3, <2>3 DEF Refused
    <3>6. OneRow(j, k, r)
      BY <2>1, <3>1, <3>2, <3>3, <3>4, <3>5, PickedRow DEF OneRow, Kinds, Row, DueStates
    <3>. QED BY <3>6
  <2>. QED BY <2>2, <2>3
<1>4. CASE Failed
  <2>. DEFINE s == IF Row.attempts >= Row.limit \/ worker.code = "conflict"
                   THEN "blocked" ELSE "unknown"
              r == [Row EXCEPT !.state = s, !.error = worker.code]
  <2>1. Busy BY <1>4 DEF Failed, At, Busy
  <2>2. s \in {"unknown", "blocked"} /\ s \in DueStates /\ s \in PublishStates
    BY DEF DueStates, PublishStates
  <2>3. action' = [action EXCEPT ![j][k] = r] BY <1>4 DEF Failed
  <2>. HIDE DEF s
  <2>4. worker.code \in Codes \cup {"none", "exhausted"} BY DEF Types, WorkerRecs
  <2>5. r \in RowRecs BY <2>1, <2>2, <2>4, PickedRow, RowForms
  <2>6. r.state = s /\ r.attempts = Row.attempts /\ r.limit = Row.limit
    BY <2>1, PickedRow DEF RowRecs
  <2>7. delivery' = delivery BY <1>4 DEF Failed
  <2>. HIDE DEF r
  <2>8. OneRow(j, k, r)
    <3>1. /\ j \in Enqueued /\ k \in Kinds /\ (k = "publish" \/ k = "close")
          /\ k = "publish" => action[j][k].state \in DueStates \/ (Withdrawn(j) /\ Untouched(j))
          /\ k = "close" => action[j][k].state # "none"
      BY <2>1, PickedRow DEF Workable, Row
    <3>. QED BY <1>4, <2>2, <2>3, <2>5, <2>6, <2>7, <3>1 DEF OneRow, Row
  <2>. QED BY <2>8
<1>5. CASE Recheck
  <2>1. PICK d \in Enqueued :
           /\ Exhausted(action[d]["publish"])
           /\ action' = [action EXCEPT ![d]["publish"] =
                           [action[d]["publish"] EXCEPT
                              !.limit = action[d]["publish"].attempts + case.retry,
                              !.state = "unknown", !.error = "none"]]
    BY <1>5, Zenon DEF Recheck
  <2>. DEFINE a == action[d]["publish"]
              n == a.attempts + case.retry
              r == [a EXCEPT !.limit = n, !.state = "unknown", !.error = "none"]
  <2>2. d \in Deliveries BY DEF Enqueued
  <2>3. a \in RowRecs /\ a.attempts \in Nat BY <2>2, RowTypes DEF Kinds
  <2>4. n \in Nat /\ a.attempts <= n BY <2>3, CaseNumbers, SMTT(30) DEF Types
  <2>. HIDE DEF n
  <2>5. r \in RowRecs BY <2>3, <2>4, RowForms DEF PublishStates
  <2>6. r.state = "unknown" /\ r.attempts = a.attempts /\ r.limit = n
    BY <2>3 DEF RowRecs
  <2>7. delivery' = delivery BY <1>5 DEF Recheck
  <2>8. a.state = "blocked" BY <2>1 DEF Exhausted
  <2>9. action' = [action EXCEPT ![d]["publish"] = r] BY <2>1 DEF n
  <2>. HIDE DEF r
  <2>10. OneRow(d, "publish", r)
    BY <2>4, <2>5, <2>6, <2>7, <2>8, <2>9 DEF OneRow, Kinds, DueStates
  <2>. QED BY <2>10
<1>. QED
  BY <1>1, <1>2, <1>3, <1>4, <1>5, Kinded, ReadsFoot, OthersFoot, CallsFoot DEF RowStep, RowsStand

LEMMA OneRowAfter ==
    ASSUME Types, NEW j, NEW k, NEW r, OneRow(j, k, r)
    PROVE  /\ action' \in [Deliveries -> [Kinds -> RowRecs]]
           /\ \A d \in Deliveries, l \in Kinds :
                 action'[d][l] = IF d = j /\ l = k THEN r ELSE action[d][l]
           /\ j \in Deliveries /\ action[j]["publish"].state # "none"
<1>1. j \in Deliveries /\ k \in Kinds /\ r \in RowRecs
      /\ action' = [action EXCEPT ![j][k] = r]
  BY DEF OneRow, Enqueued
<1>2. action \in [Deliveries -> [Kinds -> RowRecs]] BY DEF Types
<1>3. \A d \in Deliveries, l \in Kinds :
         action'[d][l] = IF d = j /\ l = k THEN r ELSE action[d][l]
  BY <1>1, <1>2
<1>4. action' \in [Deliveries -> [Kinds -> RowRecs]] BY <1>1, <1>2
<1>5. action[j]["publish"].state # "none" BY DEF OneRow, Enqueued
<1>. QED BY <1>1, <1>3, <1>4, <1>5

LEMMA NextNumber ==
    ASSUME DeliveryAssumption, NEW n \in 0..Last, Enqueued = 1..n
    PROVE  NextCandidate = n + 1
<1>1. Cardinality(1..n) = n
  BY FS_Interval, DeliveryAssumption
<1>. QED BY <1>1 DEF NextCandidate

RepairOf(r, n) == [r EXCEPT !.original = 1, !.expected = n, !.pr = 1]

LEMMA RepairRows ==
    ASSUME DeliveryAssumption, NEW r \in DeliveryRecs, NEW n \in 0..Last
    PROVE  /\ RepairOf(r, n) \in DeliveryRecs
           /\ RepairOf(r, n).original = 1 /\ RepairOf(r, n).expected = n /\ RepairOf(r, n).pr = 1
           /\ RepairOf(r, n).superseded = r.superseded /\ RepairOf(r, n).released = r.released
<1>1. Last \in Nat /\ 1 \in 0..Last
  BY DeliveryAssumption
<1>. QED BY <1>1 DEF RepairOf, DeliveryRecs

\* the next candidate repairs the last one, if there is one
LEMMA EnqueueWrites ==
    ASSUME DeliveryAssumption, Types, Chain, Linking, Phases, Decided, Enqueue
    PROVE  \E n \in 0..(Last - 1) :
              /\ Enqueued = 1..n /\ \A e \in 1..n : Published(e)
              /\ n + 1 \in Deliveries /\ n + 1 \notin Enqueued
              /\ action' = [action EXCEPT ![n + 1]["publish"] = Pending]
              /\ delivery' = IF n = 0 THEN delivery
                             ELSE [delivery EXCEPT ![n + 1] = RepairOf(delivery[n + 1], n)]
<1>1. PICK n \in 0..Last : Enqueued = 1..n
  BY DEF Chain
<1>2. NextCandidate = n + 1
  BY <1>1, NextNumber
<1>3. n + 1 <= case.last /\ case.last \in 1..Last /\ Last \in Nat \ {0}
  BY <1>2, CaseNumbers DEF Enqueue, Types
<1>4. n \in 0..(Last - 1) /\ n + 1 \in Deliveries /\ n + 1 \notin Enqueued
  BY <1>1, <1>3 DEF Deliveries
<1>5. \A e \in 1..n : Published(e) /\ e \in Deliveries
  BY <1>1, <1>4 DEF Enqueue, Phases, Enqueued
<1>6. action[n + 1]["publish"] = NoAction
  BY <1>4 DEF Linking
<1>7. action' = [action EXCEPT ![n + 1]["publish"] = Pending]
  BY <1>2 DEF Enqueue
<1>8. CASE n = 0
  <2>1. Predecessors(n + 1) = {}
    BY <1>8 DEF Predecessors
  <2>2. delivery' = delivery
    BY <1>2, <2>1 DEF Enqueue
  <2>. QED BY <2>2, <1>1, <1>4, <1>5, <1>7, <1>8
<1>9. CASE n # 0
  <2>1. \A e \in 1..n : delivery[e].pr = 1
                        /\ delivery[e].superseded = IF e < Last /\ Published(e + 1) THEN e + 1 ELSE 0
    BY <1>5 DEF Decided, Linking
  <2>2. ~Published(n + 1)
    BY <1>6, NewRows DEF Published
  <2>3. \A e \in 1..n : delivery[e].superseded = 0 <=> e = n
    <3>1. \A e \in 1..n : e # n => e + 1 \in 1..n /\ e < Last
      BY <1>4
    <3>. QED BY <2>1, <2>2, <3>1, <1>5, <1>4
  <2>4. Predecessors(n + 1) = {n}
    <3>1. (n + 1) - 1 = n BY <1>4
    <3>. QED BY <2>1, <2>3, <3>1, <1>4, <1>9 DEF Predecessors
  <2>5. delivery' = [delivery EXCEPT ![n + 1].original = Root(n), ![n + 1].expected = n,
                                     ![n + 1].pr = delivery[n].pr]
    BY <1>2, <2>4 DEF Enqueue
  <2>6. n \in Deliveries /\ n \in Enqueued
    BY <1>1, <1>4, <1>5, <1>9
  <2>7. Root(n) = 1 /\ delivery[n].pr = 1
    <3>1. n = 1 => delivery[n].original = 0
      BY <2>6 DEF Linking
    <3>2. n > 1 => delivery[n].original = 1
      BY <2>6 DEF Linking
    <3>. QED BY <3>1, <3>2, <1>4, <1>9, <2>1 DEF Root
  <2>8. delivery' = [delivery EXCEPT ![n + 1] = RepairOf(delivery[n + 1], n)]
    BY <2>5, <2>7, <1>4 DEF Types, RepairOf
  <2>. QED BY <2>8, <1>1, <1>4, <1>5, <1>7, <1>9
<1>. QED BY <1>8, <1>9

LEMMA EnqueueAfter ==
    ASSUME DeliveryAssumption, Types, Chain, Linking, Phases, Decided, Enqueue
    PROVE  \E n \in 0..(Last - 1) :
              /\ Enqueued = 1..n /\ \A e \in 1..n : Published(e)
              /\ n + 1 \in Deliveries /\ n + 1 \notin Enqueued
              /\ action' \in [Deliveries -> [Kinds -> RowRecs]]
              /\ \A d \in Deliveries, k \in Kinds :
                    action'[d][k] = IF d = n + 1 /\ k = "publish" THEN Pending ELSE action[d][k]
              /\ delivery' \in [Deliveries -> DeliveryRecs]
              /\ \A d \in Deliveries : d # n + 1 => delivery'[d] = delivery[d]
              /\ delivery'[n + 1].original = IF n = 0 THEN 0 ELSE 1
              /\ delivery'[n + 1].expected = n
              /\ delivery'[n + 1].pr = IF n = 0 THEN 0 ELSE 1
              /\ delivery'[n + 1].superseded = delivery[n + 1].superseded
              /\ delivery'[n + 1].released = delivery[n + 1].released
<1>1. PICK n \in 0..(Last - 1) :
              /\ Enqueued = 1..n /\ \A e \in 1..n : Published(e)
              /\ n + 1 \in Deliveries /\ n + 1 \notin Enqueued
              /\ action' = [action EXCEPT ![n + 1]["publish"] = Pending]
              /\ delivery' = IF n = 0 THEN delivery
                             ELSE [delivery EXCEPT ![n + 1] = RepairOf(delivery[n + 1], n)]
  BY EnqueueWrites
<1>2. Pending \in RowRecs /\ Last \in Nat /\ n \in 0..Last
  BY NewRows, DeliveryAssumption
<1>3. /\ action' \in [Deliveries -> [Kinds -> RowRecs]]
      /\ \A d \in Deliveries, k \in Kinds :
            action'[d][k] = IF d = n + 1 /\ k = "publish" THEN Pending ELSE action[d][k]
  <2>. HIDE DEF Pending
  <2>. QED BY <1>1, <1>2 DEF Types, Kinds
<1>4. CASE n = 0
  <2>1. delivery' = delivery BY <1>1, <1>4
  <2>2. delivery[n + 1].original = 0 /\ delivery[n + 1].expected = 0 /\ delivery[n + 1].pr = 0
    BY <1>1 DEF Linking
  <2>. QED BY <2>1, <2>2, <1>1, <1>3, <1>4 DEF Types
<1>5. CASE n # 0
  <2>. DEFINE r == delivery[n + 1]
              s == RepairOf(r, n)
  <2>1. r \in DeliveryRecs
    BY <1>1 DEF Types
  <2>2. /\ s \in DeliveryRecs
        /\ s.original = 1 /\ s.expected = n /\ s.pr = 1
        /\ s.superseded = r.superseded /\ s.released = r.released
    BY <2>1, <1>2, RepairRows
  <2>3. delivery' = [delivery EXCEPT ![n + 1] = s]
    BY <1>1, <1>5
  <2>. HIDE DEF s
  <2>4. delivery' \in [Deliveries -> DeliveryRecs] /\ delivery'[n + 1] = s
        /\ \A d \in Deliveries : d # n + 1 => delivery'[d] = delivery[d]
    BY <2>2, <2>3, <1>1 DEF Types
  <2>. QED BY <2>2, <2>4, <1>1, <1>3, <1>5
<1>. QED BY <1>4, <1>5

WithState(r, p) == [r EXCEPT !.state = p]
PutStates(rows, p, c) == [rows EXCEPT !["publish"].state = p, !["close"].state = c]

LEMMA StatesPut ==
    ASSUME NEW rows \in [Kinds -> RowRecs], NEW p \in PublishStates, NEW c \in PublishStates
    PROVE  /\ PutStates(rows, p, c) \in [Kinds -> RowRecs]
           /\ PutStates(rows, p, c)["publish"] = WithState(rows["publish"], p)
           /\ PutStates(rows, p, c)["close"] = WithState(rows["close"], c)
<1>1. rows["publish"] \in RowRecs /\ rows["close"] \in RowRecs BY DEF Kinds
<1>2. WithState(rows["publish"], p) \in RowRecs /\ WithState(rows["close"], c) \in RowRecs
  BY <1>1 DEF RowRecs, WithState
<1>. QED BY <1>1, <1>2 DEF Kinds, PutStates, WithState

\* what settle changes in the rows
LEMMA SettleAfter ==
    ASSUME Types, Settles
    PROVE  /\ action' \in [Deliveries -> [Kinds -> RowRecs]]
           /\ delivery' \in [Deliveries -> DeliveryRecs]
           /\ \A d \in Deliveries :
                 /\ action'[d]["publish"].state =
                        IF Revocable(d) THEN "withdrawn" ELSE action[d]["publish"].state
                 /\ ~Revocable(d) => action'[d]["publish"] = action[d]["publish"]
                 /\ \/ action'[d]["close"] = action[d]["close"]
                    \/ /\ action'[d]["close"].state = "withdrawn"
                       /\ action[d]["close"].state # "none"
                 /\ \A k \in Kinds : /\ action'[d][k].attempts = action[d][k].attempts
                                    /\ action'[d][k].limit = action[d][k].limit
                 /\ delivery'[d].original = delivery[d].original
                 /\ delivery'[d].expected = delivery[d].expected
                 /\ delivery'[d].pr = delivery[d].pr
                 /\ delivery'[d].superseded = delivery[d].superseded
                 /\ delivery[d].released => delivery'[d].released
                 /\ delivery'[d].released =>
                       \/ delivery[d].released
                       \/ /\ d \in Enqueued /\ delivery[d].pr \in mergedSeen
                          /\ prs[delivery[d].pr].head = d
<1>1. action' = Revoked
  BY DEF Settles, Settle, CoordinatorSettle, SettleRows
<1>2. PICK fresh \in SUBSET mergedSeen : delivery' = Released(fresh)
  BY DEF Settles, Settle, CoordinatorSettle, SettleRows
<1>3. ASSUME NEW r \in RowRecs, NEW p \in PublishStates
      PROVE  LET s == WithState(r, p)
             IN  /\ s.state = p /\ s.attempts = r.attempts /\ s.limit = r.limit
                 /\ p = r.state => s = r
  BY DEF RowRecs, WithState
<1>4. ASSUME NEW d \in Deliveries
      PROVE  \E p, c \in PublishStates :
                /\ p = IF Revocable(d) THEN "withdrawn" ELSE action[d]["publish"].state
                /\ c = action[d]["close"].state
                   \/ (c = "withdrawn" /\ action[d]["close"].state # "none")
                /\ action'[d] = [action[d] EXCEPT !["publish"].state = p, !["close"].state = c]
  <2>. DEFINE publish == IF Revocable(d) THEN "withdrawn" ELSE action[d]["publish"].state
              obsolete == /\ delivery[d].original # 0 /\ publish = "withdrawn"
                          /\ Untouched(d) /\ action[d]["close"].state # "none"
              close == IF obsolete THEN "withdrawn" ELSE action[d]["close"].state
  <2>1. action[d]["publish"].state \in PublishStates /\ action[d]["close"].state \in PublishStates
    BY RowTypes DEF Kinds
  <2>2. publish \in PublishStates /\ close \in PublishStates
    BY <2>1 DEF PublishStates
  <2>3. action'[d] = [action[d] EXCEPT !["publish"].state = publish,
                         !["close"].state = IF obsolete THEN "withdrawn" ELSE @]
    BY <1>1 DEF Revoked
  <2>. HIDE DEF publish, obsolete
  <2>4. action[d] \in [Kinds -> RowRecs] BY DEF Types
  <2>5. action'[d] = [action[d] EXCEPT !["publish"].state = publish, !["close"].state = close]
    BY <2>3, <2>4 DEF Kinds
  <2>. QED BY <2>2, <2>5 DEF publish, obsolete
<1>5. ASSUME NEW d \in Deliveries
      PROVE  /\ action'[d] \in [Kinds -> RowRecs]
             /\ action'[d]["publish"].state =
                    IF Revocable(d) THEN "withdrawn" ELSE action[d]["publish"].state
             /\ ~Revocable(d) => action'[d]["publish"] = action[d]["publish"]
             /\ \/ action'[d]["close"] = action[d]["close"]
                \/ /\ action'[d]["close"].state = "withdrawn"
                   /\ action[d]["close"].state # "none"
             /\ \A k \in Kinds : /\ action'[d][k].attempts = action[d][k].attempts
                                /\ action'[d][k].limit = action[d][k].limit
  <2>1. PICK p, c \in PublishStates :
                /\ p = IF Revocable(d) THEN "withdrawn" ELSE action[d]["publish"].state
                /\ c = action[d]["close"].state
                   \/ (c = "withdrawn" /\ action[d]["close"].state # "none")
                /\ action'[d] = [action[d] EXCEPT !["publish"].state = p, !["close"].state = c]
    BY <1>4
  <2>2. action[d] \in [Kinds -> RowRecs]
        /\ action[d]["publish"] \in RowRecs /\ action[d]["close"] \in RowRecs
    BY RowTypes DEF Kinds
  <2>3. /\ action'[d] \in [Kinds -> RowRecs]
        /\ action'[d]["publish"] = WithState(action[d]["publish"], p)
        /\ action'[d]["close"] = WithState(action[d]["close"], c)
    <3>1. action'[d] = PutStates(action[d], p, c)
      BY <2>1 DEF PutStates
    <3>2. p \in PublishStates /\ c \in PublishStates
      OBVIOUS
    <3>3. /\ PutStates(action[d], p, c) \in [Kinds -> RowRecs]
          /\ PutStates(action[d], p, c)["publish"] = WithState(action[d]["publish"], p)
          /\ PutStates(action[d], p, c)["close"] = WithState(action[d]["close"], c)
      BY ONLY <2>2, <3>2, StatesPut
    <3>. QED BY <3>1, <3>3
  <2>4. /\ action'[d]["publish"].state = p
        /\ action'[d]["publish"].attempts = action[d]["publish"].attempts
        /\ action'[d]["publish"].limit = action[d]["publish"].limit
        /\ p = action[d]["publish"].state => action'[d]["publish"] = action[d]["publish"]
    BY <2>2, <2>3, <1>3
  <2>5. /\ action'[d]["close"].state = c
        /\ action'[d]["close"].attempts = action[d]["close"].attempts
        /\ action'[d]["close"].limit = action[d]["close"].limit
        /\ c = action[d]["close"].state => action'[d]["close"] = action[d]["close"]
    BY <2>2, <2>3, <1>3
  <2>. QED BY <2>1, <2>3, <2>4, <2>5 DEF Kinds
<1>6. ASSUME NEW r \in DeliveryRecs, NEW b \in BOOLEAN
      PROVE  LET s == [r EXCEPT !.released = b]
             IN  /\ s \in DeliveryRecs
                 /\ s.original = r.original /\ s.expected = r.expected /\ s.pr = r.pr
                 /\ s.superseded = r.superseded /\ s.released = b
  BY DEF DeliveryRecs
<1>7. ASSUME NEW d \in Deliveries
      PROVE  /\ delivery'[d] \in DeliveryRecs
             /\ delivery'[d].original = delivery[d].original
             /\ delivery'[d].expected = delivery[d].expected
             /\ delivery'[d].pr = delivery[d].pr
             /\ delivery'[d].superseded = delivery[d].superseded
             /\ delivery[d].released => delivery'[d].released
             /\ delivery'[d].released =>
                    \/ delivery[d].released
                    \/ /\ d \in Enqueued /\ delivery[d].pr \in mergedSeen
                       /\ prs[delivery[d].pr].head = d
  <2>. DEFINE b == \/ delivery[d].released
                   \/ d \in Enqueued /\ delivery[d].pr \in fresh /\ prs[delivery[d].pr].head = d
  <2>1. b \in BOOLEAN OBVIOUS
  <2>2. delivery[d] \in DeliveryRecs BY RowTypes DEF Kinds
  <2>3. delivery'[d] = [delivery[d] EXCEPT !.released = b]
    BY <1>2 DEF Released
  <2>. HIDE DEF b
  <2>4. /\ delivery'[d] \in DeliveryRecs
        /\ delivery'[d].original = delivery[d].original
        /\ delivery'[d].expected = delivery[d].expected
        /\ delivery'[d].pr = delivery[d].pr
        /\ delivery'[d].superseded = delivery[d].superseded
        /\ delivery'[d].released = b
    BY <2>1, <2>2, <2>3, <1>6
  <2>. QED BY <2>4 DEF b
<1>8. action' \in [Deliveries -> [Kinds -> RowRecs]]
  BY <1>1, <1>5 DEF Revoked
<1>9. delivery' \in [Deliveries -> DeliveryRecs]
  BY <1>2, <1>7 DEF Released
<1>. QED BY <1>5, <1>7, <1>8, <1>9

LinkTo(r, b) == [r EXCEPT !.pr = 1, !.released = b]
WithResult(r, s) == [r EXCEPT !.state = s, !.error = "none"]

LEMMA ResultPut ==
    ASSUME NEW r \in RowRecs, NEW s \in PublishStates
    PROVE  /\ WithResult(r, s) \in RowRecs /\ WithState(r, s) \in RowRecs
           /\ WithResult(r, s).state = s /\ WithState(r, s).state = s
           /\ WithResult(r, s).attempts = r.attempts /\ WithState(r, s).attempts = r.attempts
           /\ WithResult(r, s).limit = r.limit /\ WithState(r, s).limit = r.limit
BY DEF RowRecs, WithResult, WithState

\* the rows a confirmation may supersede: the predecessor's, which it does at once
LEMMA Predecessor ==
    ASSUME DeliveryAssumption, Types, Linking, NEW d \in Enqueued
    PROVE  /\ \A e \in Deliveries : e \in Superseded(d) \/ delivery[e].superseded = d <=> e + 1 = d
           /\ \A e \in Superseded(d) : e + 1 = d
           /\ d \notin Superseded(d)
<1>1. d \in Deliveries /\ d \in Nat /\ d # 0 /\ d <= Last /\ Last \in Nat /\ \A e \in Deliveries : e \in Nat /\ e # 0
  BY DeliveryAssumption DEF Enqueued, Deliveries
<1>2. \A e \in Deliveries : delivery[e].superseded = d => e + 1 = d
  BY <1>1 DEF Linking
<1>3. \A e \in Superseded(d) : e + 1 = d /\ e \in Deliveries
  BY <1>1 DEF Linking, Superseded, Enqueued
<1>4. ASSUME NEW e \in Deliveries, e + 1 = d
      PROVE  e \in Superseded(d) \/ delivery[e].superseded = d
  <2>1. d > 1 /\ d - 1 = e /\ e # d BY <1>1, <1>4
  <2>2. delivery[d].expected = e /\ Published(e) BY <2>1, <1>1 DEF Linking
  <2>3. e \in Enqueued BY <2>2 DEF Published, Enqueued
  <2>4. delivery[e].superseded \in {0, d} BY <1>1, <1>4 DEF Linking
  <2>. QED BY <2>1, <2>2, <2>3, <2>4 DEF Superseded
<1>. QED BY <1>2, <1>3, <1>4 DEF Superseded

LEMMA ConfirmAfter ==
    ASSUME DeliveryAssumption, Types, Linking, Picked, Read, Confirm,
           NEW j \in Deliveries, j = worker.job
    PROVE  /\ j \in Enqueued /\ worker.fact \in {"open", "closed", "merged"}
           /\ action' \in [Deliveries -> [Kinds -> RowRecs]]
           /\ delivery' \in [Deliveries -> DeliveryRecs]
           /\ action'[j]["publish"].state = "confirmed"
           /\ \A e \in Deliveries : e # j => action'[e]["publish"] = action[e]["publish"]
           /\ \A e \in Deliveries :
                 \/ action'[e]["close"] = action[e]["close"]
                 \/ action'[e]["close"].state = "withdrawn" /\ action[e]["close"].state # "none"
                 \/ /\ e = j /\ worker.fact \in {"closed", "merged"}
                    /\ action'[e]["close"].state = "confirmed"
                    /\ cancelled \/ action[e]["close"].state # "none"
                 \/ e = j /\ cancelled /\ action'[e]["close"] = Pending
                    /\ action[e]["close"].state = "none"
           /\ \A e \in Deliveries, k \in Kinds :
                 \/ /\ action'[e][k].attempts = action[e][k].attempts
                    /\ action'[e][k].limit = action[e][k].limit
                 \/ action'[e][k] = Pending /\ action[e][k].state = "none" /\ k = "close"
           /\ \A e \in Deliveries :
                 /\ delivery'[e].original = delivery[e].original
                 /\ delivery'[e].expected = delivery[e].expected
                 /\ delivery'[e].pr = IF e = j THEN 1 ELSE delivery[e].pr
                 /\ delivery'[e].superseded = IF e + 1 = j THEN j ELSE delivery[e].superseded
                 /\ delivery[e].released => delivery'[e].released
                 /\ delivery'[e].released => delivery[e].released \/ (e = j /\ worker.fact = "merged")
<1>1. /\ worker.pc = "found" /\ worker.seen = 1 /\ j \in Enqueued
      /\ worker.fact \in {"open", "closed", "merged"}
  BY DEF Confirm, At, Read, Picked, Busy
<1>2. /\ action' = Confirmed(j, worker.fact)
      /\ delivery' = [e \in Deliveries |->
              IF e = j THEN [delivery[j] EXCEPT !.pr = worker.seen,
                                                !.released = @ \/ worker.fact = "merged"]
              ELSE IF e \in Superseded(j) THEN [delivery[e] EXCEPT !.superseded = j]
              ELSE delivery[e]]
  BY Zenon DEF Confirm
<1>3. \A e \in Deliveries :
         /\ action[e]["publish"] \in RowRecs /\ action[e]["close"] \in RowRecs
         /\ action[e]["publish"].state \in PublishStates /\ action[e]["close"].state \in PublishStates
         /\ delivery[e] \in DeliveryRecs
  BY RowTypes DEF Kinds
<1>4. /\ \A e \in Deliveries : e \in Superseded(j) \/ delivery[e].superseded = j <=> e + 1 = j
      /\ \A e \in Superseded(j) : e + 1 = j
      /\ j \notin Superseded(j)
  BY <1>1, Predecessor
<1>5. "confirmed" \in PublishStates /\ "withdrawn" \in PublishStates
  BY DEF PublishStates
<1>17. ASSUME NEW e \in Deliveries
       PROVE  /\ WithResult(action[e]["publish"], "confirmed") \in RowRecs
              /\ WithResult(action[e]["publish"], "confirmed").state = "confirmed"
              /\ WithResult(action[e]["publish"], "confirmed").attempts = action[e]["publish"].attempts
              /\ WithResult(action[e]["publish"], "confirmed").limit = action[e]["publish"].limit
              /\ WithResult(action[e]["close"], "confirmed") \in RowRecs
              /\ WithResult(action[e]["close"], "confirmed").state = "confirmed"
              /\ WithResult(action[e]["close"], "confirmed").attempts = action[e]["close"].attempts
              /\ WithResult(action[e]["close"], "confirmed").limit = action[e]["close"].limit
              /\ WithState(action[e]["close"], "withdrawn") \in RowRecs
              /\ WithState(action[e]["close"], "withdrawn").state = "withdrawn"
              /\ WithState(action[e]["close"], "withdrawn").attempts = action[e]["close"].attempts
              /\ WithState(action[e]["close"], "withdrawn").limit = action[e]["close"].limit
  <2>1. action[e]["publish"] \in RowRecs /\ action[e]["close"] \in RowRecs BY <1>3
  <2>. QED BY ONLY <2>1, <1>5, ResultPut
<1>6. \A e \in Deliveries :
         action'[e]["publish"] = IF e = j THEN WithResult(action[e]["publish"], "confirmed")
                                          ELSE action[e]["publish"]
  BY <1>2 DEF Confirmed, WithResult, Kinds
<1>7. ASSUME NEW e \in Deliveries
      PROVE  \/ action'[e]["close"] = action[e]["close"]
             \/ /\ e # j /\ action'[e]["close"] = WithState(action[e]["close"], "withdrawn")
                /\ action[e]["close"].state # "none"
             \/ /\ e = j /\ worker.fact \in {"closed", "merged"}
                /\ action'[e]["close"] = WithResult(action[e]["close"], "confirmed")
                /\ cancelled \/ action[e]["close"].state # "none"
             \/ e = j /\ cancelled /\ action'[e]["close"] = Pending
                /\ action[e]["close"].state = "none"
  <2>1. CASE e = j
    <3>. HIDE DEF Pending
    <3>. QED BY <2>1, <1>1, <1>2, <1>4 DEF Confirmed, WithResult, Kinds
  <2>2. CASE e # j
    <3>. HIDE DEF Pending
    <3>. QED BY <2>2, <1>2 DEF Confirmed, WithState, Kinds
  <2>. QED BY <2>1, <2>2
<1>8. \A e \in Deliveries : action'[e]["publish"] \in RowRecs /\ action'[e]["close"] \in RowRecs
  <2>1. Pending \in RowRecs BY NewRows
  <2>. QED BY ONLY <1>3, <1>17, <1>6, <1>7, <2>1
<1>9. action' \in [Deliveries -> [Kinds -> RowRecs]]
  <2>1. action' = [e \in Deliveries |-> [k \in Kinds |-> action'[e][k]]]
    BY <1>2 DEF Confirmed
  <2>. QED BY <2>1, <1>8 DEF Kinds
<1>10. \A e \in Deliveries, k \in Kinds :
          \/ /\ action'[e][k].attempts = action[e][k].attempts
             /\ action'[e][k].limit = action[e][k].limit
          \/ action'[e][k] = Pending /\ action[e][k].state = "none" /\ k = "close"
  BY ONLY <1>17, <1>6, <1>7 DEF Kinds
<1>11. ASSUME NEW r \in DeliveryRecs, NEW b \in BOOLEAN
       PROVE  /\ LinkTo(r, b) \in DeliveryRecs /\ LinkTo(r, b).original = r.original
              /\ LinkTo(r, b).expected = r.expected /\ LinkTo(r, b).pr = 1
              /\ LinkTo(r, b).superseded = r.superseded /\ LinkTo(r, b).released = b
  BY DEF DeliveryRecs, LinkTo
<1>12. ASSUME NEW r \in DeliveryRecs, NEW n \in 0..Last
       PROVE  LET s == [r EXCEPT !.superseded = n]
              IN  /\ s \in DeliveryRecs /\ s.original = r.original /\ s.expected = r.expected
                  /\ s.pr = r.pr /\ s.superseded = n /\ s.released = r.released
  BY DEF DeliveryRecs
<1>13. /\ delivery'[j] \in DeliveryRecs
       /\ delivery'[j].original = delivery[j].original
       /\ delivery'[j].expected = delivery[j].expected
       /\ delivery'[j].pr = 1 /\ delivery'[j].superseded = delivery[j].superseded
       /\ delivery[j].released => delivery'[j].released
       /\ delivery'[j].released => delivery[j].released \/ worker.fact = "merged"
  <2>. DEFINE b == delivery[j].released \/ worker.fact = "merged"
  <2>1. b \in BOOLEAN OBVIOUS
  <2>2. delivery'[j] = LinkTo(delivery[j], b)
    BY <1>1, <1>2 DEF LinkTo
  <2>3. delivery[j] \in DeliveryRecs BY <1>3
  <2>. HIDE DEF b
  <2>4. /\ delivery'[j] \in DeliveryRecs
        /\ delivery'[j].original = delivery[j].original
        /\ delivery'[j].expected = delivery[j].expected
        /\ delivery'[j].pr = 1 /\ delivery'[j].superseded = delivery[j].superseded
        /\ delivery'[j].released = b
    BY ONLY <2>1, <2>2, <2>3, <1>11
  <2>. QED BY <2>4 DEF b
<1>14. ASSUME NEW e \in Deliveries, e # j
       PROVE  /\ delivery'[e] \in DeliveryRecs
              /\ delivery'[e].original = delivery[e].original
              /\ delivery'[e].expected = delivery[e].expected
              /\ delivery'[e].pr = delivery[e].pr
              /\ delivery'[e].superseded = IF e + 1 = j THEN j ELSE delivery[e].superseded
              /\ delivery'[e].released = delivery[e].released
  <2>1. delivery[e] \in DeliveryRecs /\ j \in 0..Last
    BY <1>3, DeliveryAssumption DEF Deliveries
  <2>2. CASE e \in Superseded(j)
    <3>1. delivery'[e] = [delivery[e] EXCEPT !.superseded = j] BY <1>2, <1>14, <2>2
    <3>. QED BY <3>1, <2>1, <2>2, <1>4, <1>12
  <2>3. CASE e \notin Superseded(j)
    <3>1. delivery'[e] = delivery[e] BY <1>2, <1>14, <2>3
    <3>. QED BY <3>1, <2>1, <2>3, <1>4
  <2>. QED BY <2>2, <2>3
<1>15. delivery' \in [Deliveries -> DeliveryRecs]
  <2>1. delivery' = [e \in Deliveries |-> delivery'[e]] BY <1>2
  <2>. QED BY <2>1, <1>13, <1>14
<1>16. j + 1 # j BY DEF Deliveries
<1>. QED
  <2>1. action'[j]["publish"].state = "confirmed"
    BY ONLY <1>17, <1>6
  <2>2. \A e \in Deliveries : e # j => action'[e]["publish"] = action[e]["publish"]
    BY <1>6
  <2>3. \A e \in Deliveries :
                 \/ action'[e]["close"] = action[e]["close"]
                 \/ action'[e]["close"].state = "withdrawn" /\ action[e]["close"].state # "none"
                 \/ /\ e = j /\ worker.fact \in {"closed", "merged"}
                    /\ action'[e]["close"].state = "confirmed"
                    /\ cancelled \/ action[e]["close"].state # "none"
                 \/ e = j /\ cancelled /\ action'[e]["close"] = Pending
                    /\ action[e]["close"].state = "none"
    BY ONLY <1>17, <1>7
  <2>. QED BY <1>1, <1>9, <1>10, <1>13, <1>14, <1>15, <1>16, <2>1, <2>2, <2>3

LEMMA CancelAfter ==
    ASSUME DeliveryAssumption, Types, Cancel
    PROVE  /\ action' \in [Deliveries -> [Kinds -> RowRecs]]
           /\ delivery' = delivery
           /\ \A d \in Deliveries :
                 /\ action'[d]["publish"] = action[d]["publish"]
                 /\ \/ action'[d]["close"] = action[d]["close"]
                    \/ /\ action'[d]["close"] = Pending
                       /\ action[d]["close"].state = "none" /\ delivery[d].pr # 0
<1>1. action' = [d \in Deliveries |->
                    IF d \in Closable /\ action[d]["close"].state = "none"
                    THEN [action[d] EXCEPT !["close"] = Pending] ELSE action[d]]
      /\ delivery' = delivery
  BY DEF Cancel
<1>2. Pending \in RowRecs BY NewRows
<1>. HIDE DEF Pending
<1>3. \A d \in Deliveries : action'[d] \in [Kinds -> RowRecs]
                            /\ action'[d]["publish"] = action[d]["publish"]
  BY <1>1, <1>2 DEF Types, Kinds
<1>4. \A d \in Deliveries :
         \/ action'[d]["close"] = action[d]["close"]
         \/ /\ action'[d]["close"] = Pending
            /\ action[d]["close"].state = "none" /\ delivery[d].pr # 0
  BY <1>1, <1>2 DEF Types, Kinds, Closable
<1>. QED BY <1>1, <1>3, <1>4

----------------------------------------------------------------------------
(* What never changes in the rows, and what a change means. *)

LEMMA DoneTried ==
    ASSUME NEW d, NEW op, Done(d, op)
    PROVE  Tried(d, {op}) /\ ~Untouched(d)
BY DEF Done, Tried, Untouched

LEMMA FoundIsOurs ==
    ASSUME DeliveryAssumption, Decided, Remote, Picked, Read, Confirm
    PROVE  /\ worker.job \in Deliveries /\ worker.job \in Enqueued
           /\ ~Withdrawn(worker.job) /\ 1 \in Ours
           /\ \A d \in Deliveries : d = worker.job => Done(d, "push")
<1>1. /\ worker.job \in Enqueued /\ worker.pc = "found"
      /\ worker.fact \in {"open", "closed", "merged"}
  BY DEF Confirm, At, Picked, Busy
<1>2. 1 \in Ours /\ \A d \in Deliveries : worker.job = d => Done(d, "push")
  BY <1>1 DEF Read
<1>3. worker.job \in Deliveries
  BY <1>1 DEF Enqueued
<1>4. PICK d \in Deliveries : d = worker.job
  BY <1>3
<1>5. Done(d, "push") /\ Done(1, "create")
  BY <1>2, <1>4 DEF Remote
<1>6. Tried(d, {"push"}) /\ Tried(1, {"create"})
  BY <1>5, DoneTried
<1>7. ~Withdrawn(d)
  <2>1. CASE d = 1 BY <2>1, <1>6 DEF Decided
  <2>2. CASE d > 1 BY <2>2, <1>6 DEF Decided
  <2>. QED BY <2>1, <2>2 DEF Deliveries
<1>. QED BY <1>1, <1>2, <1>3, <1>4, <1>7

LEMMA NotRevocable ==
    ASSUME Decided, NEW d \in Deliveries, Published(d)
    PROVE  ~Revocable(d)
<1>1. Done(d, "push") /\ delivery[d].pr = 1 BY DEF Decided
<1>. QED BY <1>1, DoneTried DEF Revocable

RowMoves(d) ==
    /\ d \in Enqueued => d \in Enqueued'
    /\ d \in Enqueued' => d \in Enqueued \/ Enqueue
    /\ Published(d) => Published(d)'
    /\ Published(d)' => Published(d) \/ (Confirm /\ d = worker.job)
    /\ Withdrawn(d) => \/ Withdrawn(d)'
                       \/ /\ Failed /\ d = worker.job /\ Untouched(d)
                          /\ action'[d]["publish"].state \in {"unknown", "blocked"}
    /\ Withdrawn(d)' => \/ Withdrawn(d)
                        \/ Settles /\ Revocable(d)
                        \/ Withdraw /\ d = worker.job /\ Withdrawable(d, worker.head)
    /\ action[d]["close"].state # "none" => action'[d]["close"].state # "none"
    /\ action'[d]["close"].state = "confirmed" =>
          \/ action[d]["close"].state = "confirmed"
          \/ Confirm /\ d = worker.job /\ worker.fact \in {"closed", "merged"}
    /\ action'[d]["close"].state = "none" => action'[d]["close"] = action[d]["close"]
    /\ d \notin Enqueued' => action'[d]["publish"] = action[d]["publish"]

LEMMA RowsMove ==
    ASSUME DeliveryAssumption, IInv, Next, NEW d \in Deliveries
    PROVE  RowMoves(d)
<1>0. Types /\ Chain /\ Linking /\ Phases /\ Decided /\ Remote /\ Picked /\ Read
  BY DEF IInv
<1>1. CASE RowsStand
  BY <1>1 DEF RowMoves, RowsStand, Enqueued, Published, Withdrawn
<1>2. ASSUME NEW j, NEW k, NEW r, OneRow(j, k, r) PROVE RowMoves(d)
  <2>1. \A e \in Deliveries, l \in Kinds :
           action'[e][l] = IF e = j /\ l = k THEN r ELSE action[e][l]
    BY <1>0, <1>2, OneRowAfter
  <2>2. \/ k = "publish" /\ action[j][k].state \in DueStates /\ r.state \in DueStates
        \/ k = "close" /\ action[j][k].state # "none" /\ r.state \in DueStates
        \/ /\ k = "publish" /\ r.state = "withdrawn"
           /\ action[j][k].state \in DueStates \/ Withdrawn(j)
           /\ Withdraw /\ j = worker.job /\ Withdrawable(j, worker.head)
        \/ /\ k = "publish" /\ Withdrawn(j) /\ Untouched(j)
           /\ r.state \in {"unknown", "blocked"}
           /\ Failed /\ j = worker.job
    BY <1>2 DEF OneRow
  <2>. QED BY <2>1, <2>2 DEF RowMoves, Enqueued, Published, Withdrawn, DueStates, Kinds
<1>3. CASE Enqueue
  <2>1. PICK n \in 0..(Last - 1) :
           /\ n + 1 \in Deliveries /\ n + 1 \notin Enqueued
           /\ \A e \in Deliveries, k \in Kinds :
                 action'[e][k] = IF e = n + 1 /\ k = "publish" THEN Pending ELSE action[e][k]
    BY <1>0, <1>3, EnqueueAfter
  <2>2. Pending.state = "pending" /\ action[n + 1]["publish"].state = "none"
    BY <1>0, <2>1, NewRows DEF Enqueued
  <2>. HIDE DEF Pending
  <2>. QED BY <1>3, <2>1, <2>2 DEF RowMoves, Enqueued, Published, Withdrawn, Kinds
<1>4. CASE Settles
  <2>1. /\ action'[d]["publish"].state =
                IF Revocable(d) THEN "withdrawn" ELSE action[d]["publish"].state
        /\ ~Revocable(d) => action'[d]["publish"] = action[d]["publish"]
        /\ \/ action'[d]["close"] = action[d]["close"]
           \/ action'[d]["close"].state = "withdrawn" /\ action[d]["close"].state # "none"
    BY <1>0, <1>4, SettleAfter
  <2>2. Revocable(d) => ~Published(d) /\ d \in Enqueued
    BY <1>0, NotRevocable DEF Revocable
  <2>. QED BY <1>4, <2>1, <2>2 DEF RowMoves, Enqueued, Published, Withdrawn
<1>5. CASE Confirm
  <2>1. PICK j \in Deliveries : j = worker.job
    BY <1>0, <1>5, FoundIsOurs
  <2>2. /\ j \in Enqueued /\ action'[j]["publish"].state = "confirmed"
        /\ \A e \in Deliveries : e # j => action'[e]["publish"] = action[e]["publish"]
        /\ \A e \in Deliveries :
                 \/ action'[e]["close"] = action[e]["close"]
                 \/ action'[e]["close"].state = "withdrawn" /\ action[e]["close"].state # "none"
                 \/ /\ e = j /\ worker.fact \in {"closed", "merged"}
                    /\ action'[e]["close"].state = "confirmed"
                    /\ cancelled \/ action[e]["close"].state # "none"
                 \/ e = j /\ cancelled /\ action'[e]["close"] = Pending
                    /\ action[e]["close"].state = "none"
    BY <1>0, <1>5, <2>1, ConfirmAfter
  <2>3. ~Withdrawn(j)
    BY <1>0, <1>5, <2>1, FoundIsOurs DEF Withdrawn
  <2>4. Pending.state = "pending"
    BY <1>0, NewRows
  <2>. HIDE DEF Pending
  <2>. QED BY <1>5, <2>1, <2>2, <2>3, <2>4 DEF RowMoves, Enqueued, Published, Withdrawn
<1>6. CASE Cancel
  <2>1. /\ action'[d]["publish"] = action[d]["publish"]
        /\ \/ action'[d]["close"] = action[d]["close"]
           \/ action'[d]["close"] = Pending /\ action[d]["close"].state = "none"
    BY <1>0, <1>6, CancelAfter
  <2>2. Pending.state = "pending"
    BY <1>0, NewRows
  <2>. HIDE DEF Pending
  <2>. QED BY <2>1, <2>2 DEF RowMoves, Enqueued, Published, Withdrawn
<1>. QED BY <1>0, <1>1, <1>2, <1>3, <1>4, <1>5, <1>6, StepRows

\* what links a delivery stays
LinkMoves(d) ==
    /\ d \in Enqueued => /\ delivery'[d].original = delivery[d].original
                         /\ delivery'[d].expected = delivery[d].expected
    /\ d \notin Enqueued' => /\ delivery'[d].original = delivery[d].original
                            /\ delivery'[d].expected = delivery[d].expected
                            /\ delivery'[d].pr = delivery[d].pr
    /\ delivery'[d].pr \in {0, 1, delivery[d].pr}
    /\ Confirm \/ delivery'[d].superseded = delivery[d].superseded
    /\ delivery[d].pr = 1 => delivery'[d].pr = 1
    /\ delivery'[d].pr = 1 => delivery[d].pr = 1 \/ Confirm \/ delivery[1].pr = 1
    /\ delivery[d].released => delivery'[d].released
    /\ delivery'[d].released =>
          \/ delivery[d].released
          \/ Confirm /\ d = worker.job /\ worker.fact = "merged"
          \/ Settles /\ delivery[d].pr \in mergedSeen /\ prs[delivery[d].pr].head = d /\ d \in Enqueued

LEMMA LinksMove ==
    ASSUME DeliveryAssumption, IInv, Next, NEW d \in Deliveries
    PROVE  LinkMoves(d)
<1>0. Types /\ Chain /\ Linking /\ Phases /\ Decided /\ Remote /\ Picked /\ Read
  BY DEF IInv
<1>1. CASE delivery' = delivery
  BY <1>1 DEF LinkMoves
<1>3. CASE Enqueue
  <2>1. PICK n \in 0..(Last - 1) :
              /\ \A e \in 1..n : Published(e)
              /\ n + 1 \in Deliveries /\ n + 1 \notin Enqueued
              /\ \A e \in Deliveries : e # n + 1 => delivery'[e] = delivery[e]
              /\ delivery'[n + 1].pr = IF n = 0 THEN 0 ELSE 1
              /\ delivery'[n + 1].superseded = delivery[n + 1].superseded
              /\ delivery'[n + 1].released = delivery[n + 1].released
              /\ action'[n + 1]["publish"] = Pending
    BY <1>0, <1>3, EnqueueAfter DEF Kinds
  <2>2. delivery[n + 1].pr = 0
    BY <1>0, <2>1 DEF Linking
  <2>3. n # 0 => delivery[1].pr = 1
    <3>1. n # 0 => 1 \in 1..n /\ 1 \in Deliveries BY <2>1 DEF Deliveries
    <3>. QED BY <1>0, <2>1, <3>1 DEF Decided
  <2>4. n + 1 \in Enqueued'
    BY <1>0, <2>1, NewRows DEF Enqueued
  <2>. HIDE DEF Pending
  <2>. QED BY <1>3, <2>1, <2>2, <2>3, <2>4 DEF LinkMoves
<1>4. CASE Settles
  BY <1>0, <1>4, SettleAfter DEF LinkMoves
<1>5. CASE Confirm
  <2>1. PICK j \in Deliveries : j = worker.job
    BY <1>0, <1>5, FoundIsOurs
  <2>2. /\ delivery'[d].original = delivery[d].original
        /\ delivery'[d].expected = delivery[d].expected
        /\ delivery'[d].pr = IF d = j THEN 1 ELSE delivery[d].pr
        /\ delivery[d].released => delivery'[d].released
        /\ delivery'[d].released => delivery[d].released \/ (d = j /\ worker.fact = "merged")
    BY <1>0, <1>5, <2>1, ConfirmAfter
  <2>3. d = j => d \in Enqueued'
    BY <1>0, <1>5, <2>1, FoundIsOurs, RowsMove DEF RowMoves
  <2>. QED BY <1>5, <2>1, <2>2, <2>3 DEF LinkMoves
<1>6. CASE Cancel
  BY <1>0, <1>1, <1>6, CancelAfter
<1>7. \A j, k, r : OneRow(j, k, r) => delivery' = delivery
  BY DEF OneRow
<1>. QED BY <1>0, <1>1, <1>3, <1>4, <1>5, <1>6, <1>7, StepRows DEF RowsStand

----------------------------------------------------------------------------
(* The worker after a step, and attempts that are spent. *)

SameJob ==
    /\ worker'.job = worker.job /\ worker'.kind = worker.kind /\ worker'.number = worker.number
    /\ worker'.op = worker.op /\ worker'.attempt = worker.attempt
    /\ worker'.seen = worker.seen /\ worker'.fact = worker.fact

LEMMA WorkerFields ==
    ASSUME DeliveryAssumption, Types
    PROVE  /\ worker' = Idle => worker'.pc = "idle"
           /\ \A pc : Go(pc) => worker'.pc = pc /\ SameJob
           /\ \A c : Fail(c) => worker'.pc = "failed" /\ SameJob
           /\ \A op : Submit(op) =>
                 /\ worker'.pc = "admit" /\ worker'.op = op
                 /\ worker'.job = worker.job /\ worker'.kind = worker.kind
                 /\ worker'.number = worker.number
           /\ \A o, c : Answer(o, c) =>
                 worker'.pc = "receipt" /\ worker'.outcome = o /\ SameJob
<1>1. worker \in WorkerRecs BY DEF Types
<1>2. worker' = Idle => worker'.pc = "idle" BY DEF Idle
<1>3. \A pc : Go(pc) => worker'.pc = pc /\ SameJob
  BY <1>1 DEF Go, SameJob, WorkerRecs
<1>4. \A c : Fail(c) => worker'.pc = "failed" /\ SameJob
  BY <1>1 DEF Fail, SameJob, WorkerRecs
<1>5. \A op : Submit(op) =>
                 /\ worker'.pc = "admit" /\ worker'.op = op
                 /\ worker'.job = worker.job /\ worker'.kind = worker.kind
                 /\ worker'.number = worker.number
  BY <1>1 DEF Submit, WorkerRecs
<1>6. \A o, c : Answer(o, c) => worker'.pc = "receipt" /\ worker'.outcome = o /\ SameJob
  BY <1>1 DEF Answer, SameJob, WorkerRecs
<1>. QED BY <1>2, <1>3, <1>4, <1>5, <1>6

\* the worker after a step that neither sends nor answers
LEMMA ReadsWorker ==
    ASSUME DeliveryAssumption, Types, Reads
    PROVE  \/ worker'.pc = "idle"
           \/ worker'.pc \in {"due", "head", "failed"} /\ SameJob
           \/ \E d \in Deliveries, k \in Kinds : Pick(d, k) /\ worker'.pc = "find"
           \/ worker'.pc = "found" /\ Find
           \/ worker'.pc = "absent" /\ ReadHead
           \/ worker'.pc = "admit" /\ (ChooseWrite \/ UpdatePr \/ Confirm)
<1>1. worker \in WorkerRecs BY DEF Types
<1>2. CASE Settle BY <1>2, WorkerFields DEF Settle
<1>3. CASE NothingDue BY <1>3, WorkerFields DEF NothingDue
<1>4. ASSUME NEW d \in Deliveries, NEW k \in Kinds, Pick(d, k) PROVE worker'.pc = "find"
  BY <1>1, <1>4 DEF Pick, WorkerRecs
<1>5. CASE Find
  <2>1. Fail("conflict") => worker'.pc = "failed" /\ SameJob BY WorkerFields
  <2>2. Go("head") => worker'.pc = "head" /\ SameJob BY WorkerFields
  <2>3. worker' = [worker EXCEPT !.pc = "found", !.seen = 1,
                                 !.fact = Reading(worker.job, worker.kind, 1)]
           => worker'.pc = "found"
    <3>. HIDE DEF Reading
    <3>. QED BY <1>1 DEF WorkerRecs
  <2>. QED BY <1>5, <2>1, <2>2, <2>3, Zenon DEF Find
<1>6. CASE ReadHead BY <1>1, <1>6 DEF ReadHead, WorkerRecs
<1>7. CASE ReadFails BY <1>7, WorkerFields DEF ReadFails
<1>8. CASE Withdraw BY <1>8, WorkerFields DEF Withdraw
<1>9. CASE ChooseWrite BY <1>9, WorkerFields DEF ChooseWrite
<1>10. CASE UpdatePr BY <1>10, WorkerFields DEF UpdatePr
<1>11. CASE Confirm BY <1>11, WorkerFields DEF Confirm
<1>12. CASE AdmissionFails BY <1>12, WorkerFields DEF AdmissionFails
<1>13. CASE Refused BY <1>13, WorkerFields DEF Refused
<1>14. CASE Failed BY <1>14, WorkerFields DEF Failed
<1>15. CASE Crash BY <1>15, WorkerFields DEF Crash
<1>. QED
  BY <1>2, <1>3, <1>4, <1>5, <1>6, <1>7, <1>8, <1>9, <1>10, <1>11, <1>12, <1>13, <1>14, <1>15
     DEF Reads

\* the worker after an answer, or none, to the request of attempt i
LEMMA ReplyWorker ==
    ASSUME DeliveryAssumption, Types, NEW i, Apply(i) \/ Reject(i)
    PROVE  /\ i \in wire /\ wire' = wire \ {i} /\ attempts' = attempts
           /\ \/ worker' = worker
              \/ /\ worker.pc = "await" /\ worker.attempt = i
                 /\ worker'.pc = "receipt" /\ SameJob
                 /\ \/ worker'.outcome # "definite"
                    \/ attempts[i].op # "push" /\ prs' = prs /\ branch' = branch
<1>1. \A o, c : Reply(i, o, c) =>
         \/ worker' = worker
         \/ /\ worker.pc = "await" /\ worker.attempt = i
            /\ worker'.pc = "receipt" /\ SameJob /\ worker'.outcome = o
  BY WorkerFields DEF Reply, Awaited, At
<1>2. CASE Apply(i)
  <2>1. i \in wire /\ wire' = wire \ {i} /\ attempts' = attempts
    BY <1>2 DEF Apply, ledger
  <2>2. \/ Reply(i, "ok", "none") \/ Reply(i, "unknown", "transient")
        \/ /\ Reply(i, "definite", "transient") /\ attempts[i].op = "create"
           /\ prs' = prs /\ branch' = branch
    BY <1>2 DEF Apply, ApplyPush, ApplyCreate, ApplyClose
  <2>. QED BY <1>1, <2>1, <2>2
<1>3. CASE Reject(i)
  BY <1>1, <1>3 DEF Reject, ledger
<1>. QED BY <1>2, <1>3

LEMMA BeginFields ==
    ASSUME Types, Begin
    PROVE  /\ worker.pc = "admit" /\ worker'.pc = "send" /\ worker'.attempt = Len(attempts) + 1
           /\ worker'.job = worker.job /\ worker'.kind = worker.kind
           /\ worker'.number = worker.number /\ worker'.op = worker.op
           /\ wire' = wire
           /\ Len(attempts) \in Nat /\ DOMAIN attempts = 1..Len(attempts)
           /\ DOMAIN attempts' = 1..(Len(attempts) + 1) /\ Len(attempts') = Len(attempts) + 1
           /\ \A i \in DOMAIN attempts : attempts'[i] = attempts[i]
           /\ attempts'[Len(attempts) + 1].delivery = worker.job
           /\ attempts'[Len(attempts) + 1].op = worker.op
           /\ attempts'[Len(attempts) + 1].number = worker.number
           /\ attempts'[Len(attempts) + 1].result = "none"
<1>1. worker \in WorkerRecs /\ attempts \in Seq(AttemptRecs) BY DEF Types
<1>2. attempts' = Append(attempts, [delivery |-> worker.job, op |-> worker.op,
                                    number |-> worker.number, result |-> "none"])
      /\ wire' = wire /\ worker.pc = "admit"
  BY DEF Begin, At, github
<1>3. worker' = [worker EXCEPT !.pc = "send", !.attempt = Len(attempts) + 1]
  BY DEF Begin
<1>4. /\ worker'.pc = "send" /\ worker'.attempt = Len(attempts) + 1
      /\ worker'.job = worker.job /\ worker'.kind = worker.kind
      /\ worker'.number = worker.number /\ worker'.op = worker.op
  BY <1>1, <1>3 DEF WorkerRecs
<1>5. /\ Len(attempts) \in Nat /\ DOMAIN attempts = 1..Len(attempts)
      /\ DOMAIN attempts' = 1..(Len(attempts) + 1) /\ Len(attempts') = Len(attempts) + 1
      /\ \A i \in DOMAIN attempts : attempts'[i] = attempts[i]
      /\ attempts'[Len(attempts) + 1] = [delivery |-> worker.job, op |-> worker.op,
                                         number |-> worker.number, result |-> "none"]
  BY <1>1, <1>2
<1>. QED BY <1>2, <1>4, <1>5

\* a settlement is none of the worker's steps that write
LEMMA SettlesApart ==
    ASSUME DeliveryAssumption, Types, Settles
    PROVE  ~Confirm /\ ~Withdraw /\ ~Begin /\ ~Failed
<1>1. CASE Settle BY <1>1 DEF Settle, Confirm, Withdraw, Begin, Failed, At
<1>2. CASE CoordinatorSettle
  <2>1. worker' = worker BY <1>2 DEF CoordinatorSettle
  <2>2. Withdraw => worker.pc = "absent" /\ worker'.pc = "idle"
    BY WorkerFields DEF Withdraw, At
  <2>3. Confirm => worker.pc = "found" /\ worker'.pc \in {"idle", "admit"}
    BY WorkerFields DEF Confirm, At
  <2>4. Begin => worker.pc = "admit" /\ worker'.pc = "send" BY BeginFields
  <2>5. Failed => worker.pc = "failed" /\ worker'.pc = "idle"
    BY WorkerFields DEF Failed, At
  <2>. QED BY <2>1, <2>2, <2>3, <2>4, <2>5
<1>. QED BY <1>1, <1>2 DEF Settles

WithAnswer(s, a, o) == [s EXCEPT ![a].result = o]

LEMMA AnswerPut ==
    ASSUME NEW s \in Seq(AttemptRecs), NEW a \in DOMAIN s, NEW o \in Receipts \cup {"none"}
    PROVE  /\ WithAnswer(s, a, o) \in Seq(AttemptRecs)
           /\ Len(WithAnswer(s, a, o)) = Len(s) /\ DOMAIN WithAnswer(s, a, o) = DOMAIN s
           /\ \A i \in DOMAIN s :
                 /\ WithAnswer(s, a, o)[i].delivery = s[i].delivery
                 /\ WithAnswer(s, a, o)[i].op = s[i].op
                 /\ WithAnswer(s, a, o)[i].number = s[i].number
                 /\ WithAnswer(s, a, o)[i].result = IF i = a THEN o ELSE s[i].result
<1>. DEFINE r == [s[a] EXCEPT !.result = o]
            t == [s EXCEPT ![a] = r]
<1>1. s[a] \in AttemptRecs OBVIOUS
<1>2. /\ r \in AttemptRecs /\ r.delivery = s[a].delivery
      /\ r.op = s[a].op /\ r.number = s[a].number /\ r.result = o
  BY <1>1 DEF AttemptRecs
<1>. HIDE DEF r
<1>3. t \in Seq(AttemptRecs) /\ Len(t) = Len(s) /\ DOMAIN t = DOMAIN s
      /\ \A i \in DOMAIN s : t[i] = IF i = a THEN r ELSE s[i]
  BY <1>2
<1>4. WithAnswer(s, a, o) = t BY DEF r, WithAnswer
<1>. HIDE DEF t
<1>. QED BY <1>2, <1>3, <1>4

LEMMA ReceiptFields ==
    ASSUME DeliveryAssumption, Types, Writes, Receipt
    PROVE  /\ worker.pc = "receipt" /\ worker'.pc \in {"idle", "failed"} /\ wire' = wire
           /\ worker'.pc = "failed" => SameJob
           /\ worker.attempt \in DOMAIN attempts
           /\ Len(attempts') = Len(attempts) /\ DOMAIN attempts' = DOMAIN attempts
           /\ attempts' \in Seq(AttemptRecs)
           /\ \A i \in DOMAIN attempts :
                 /\ attempts'[i].delivery = attempts[i].delivery
                 /\ attempts'[i].op = attempts[i].op /\ attempts'[i].number = attempts[i].number
                 /\ attempts'[i].result = IF i = worker.attempt THEN worker.outcome
                                                                ELSE attempts[i].result
<1>1. worker \in WorkerRecs /\ attempts \in Seq(AttemptRecs) BY DEF Types
<1>2. worker.pc = "receipt" /\ wire' = wire
      /\ attempts' = [attempts EXCEPT ![worker.attempt].result = worker.outcome]
  BY DEF Receipt, At, github
<1>3. worker.attempt \in DOMAIN attempts /\ worker.attempt = Len(attempts)
  BY <1>1, <1>2 DEF Writes, WorkerRecs
<1>4. worker'.pc \in {"idle", "failed"} /\ (worker'.pc = "failed" => SameJob)
  BY WorkerFields DEF Receipt
<1>5. worker.outcome \in Receipts \cup {"none"} BY <1>1 DEF WorkerRecs
<1>. DEFINE t == WithAnswer(attempts, worker.attempt, worker.outcome)
<1>6. /\ t \in Seq(AttemptRecs) /\ Len(t) = Len(attempts) /\ DOMAIN t = DOMAIN attempts
      /\ \A i \in DOMAIN attempts :
            /\ t[i].delivery = attempts[i].delivery
            /\ t[i].op = attempts[i].op /\ t[i].number = attempts[i].number
            /\ t[i].result = IF i = worker.attempt THEN worker.outcome ELSE attempts[i].result
  BY ONLY <1>1, <1>3, <1>5, AnswerPut
<1>7. attempts' = t
  BY <1>2 DEF WithAnswer
<1>. HIDE DEF t
<1>. QED BY <1>1, <1>2, <1>3, <1>4, <1>6, <1>7

\* a spent attempt stays spent
LEMMA DoneStays ==
    ASSUME DeliveryAssumption, IInv, Next, NEW d, NEW op, Done(d, op)
    PROVE  Done(d, op)'
<1>0. Types /\ Writes /\ UnderWay BY DEF IInv
<1>1. PICK i \in DOMAIN attempts : attempts[i].delivery = d /\ attempts[i].op = op /\ Spent(i)
  BY DEF Done
<1>2. /\ i \notin wire /\ attempts[i].result # "definite"
      /\ worker.attempt = i =>
            /\ worker.pc # "send"
            /\ worker.pc = "receipt" => worker.outcome # "definite"
  BY <1>1 DEF Spent
<1>3. SUFFICES /\ i \in DOMAIN attempts' /\ attempts'[i].delivery = d /\ attempts'[i].op = op
               /\ i \notin wire' /\ attempts'[i].result # "definite"
               /\ worker'.attempt = i =>
                     /\ worker'.pc # "send"
                     /\ worker'.pc = "receipt" => worker'.outcome # "definite"
  BY <1>3 DEF Done, Spent
<1>4. CASE Reads
  <2>1. attempts' = attempts /\ wire' = wire BY <1>4, ReadsFoot
  <2>2. worker'.pc \notin {"send", "receipt"} BY <1>0, <1>4, ReadsWorker
  <2>. QED BY <1>1, <1>2, <2>1, <2>2
<1>5. CASE Others BY <1>1, <1>2, <1>5, OthersFoot
<1>6. CASE Begin BY <1>0, <1>1, <1>2, <1>6, BeginFields
<1>7. CASE Send
  <2>1. worker.pc = "send" /\ attempts' = attempts
    BY <1>7 DEF Send, At, ledger
  <2>2. wire' \subseteq wire \cup {worker.attempt}
    BY <1>7 DEF Send
  <2>3. worker'.attempt = worker.attempt
    BY <1>0, <1>7, WorkerFields DEF Send, SameJob
  <2>. QED BY <1>1, <1>2, <2>1, <2>2, <2>3
<1>8. CASE SendFails
  <2>1. worker.pc = "send" /\ attempts' = attempts /\ wire' = wire
    BY <1>8 DEF SendFails, At, ledger, github
  <2>2. worker'.attempt = worker.attempt
    BY <1>0, <1>8, WorkerFields DEF SendFails, SameJob
  <2>. QED BY <1>1, <1>2, <2>1, <2>2
<1>9. CASE Timeout
  <2>1. attempts' = attempts /\ wire' = wire
    BY <1>9 DEF Timeout, ledger, github
  <2>2. worker'.pc = "receipt" /\ worker'.outcome = "unknown"
    BY <1>0, <1>9, WorkerFields DEF Timeout
  <2>. QED BY <1>1, <1>2, <2>1, <2>2
<1>10. CASE Receipt
  <2>1. /\ worker.pc = "receipt" /\ worker'.pc \in {"idle", "failed"} /\ wire' = wire
        /\ i \in DOMAIN attempts'
        /\ attempts'[i].delivery = attempts[i].delivery /\ attempts'[i].op = attempts[i].op
        /\ attempts'[i].result = IF i = worker.attempt THEN worker.outcome ELSE attempts[i].result
    BY <1>0, <1>1, <1>10, ReceiptFields
  <2>. QED BY <1>1, <1>2, <2>1
<1>11. ASSUME NEW a \in wire, Apply(a) \/ Reject(a)
       PROVE  /\ i \in DOMAIN attempts' /\ attempts'[i].delivery = d /\ attempts'[i].op = op
              /\ i \notin wire' /\ attempts'[i].result # "definite"
              /\ worker'.attempt = i =>
                     /\ worker'.pc # "send"
                     /\ worker'.pc = "receipt" => worker'.outcome # "definite"
  <2>1. /\ wire' = wire \ {a} /\ attempts' = attempts
        /\ \/ worker' = worker
           \/ worker.attempt = a /\ SameJob
    BY <1>0, <1>11, ReplyWorker
  <2>. QED BY <1>1, <1>2, <2>1 DEF SameJob
<1>. QED BY Kinded, <1>4, <1>5, <1>6, <1>7, <1>8, <1>9, <1>10, <1>11

----------------------------------------------------------------------------
(* Attempts. *)

LEMMA CallsStay ==
    ASSUME DOMAIN attempts' = DOMAIN attempts,
           \A i \in DOMAIN attempts :
              /\ attempts'[i].delivery = attempts[i].delivery
              /\ attempts'[i].op = attempts[i].op
              /\ attempts[i].result = "definite" => attempts'[i].result = "definite",
           Single, Creates
    PROVE  Single' /\ Creates'
BY DEF Single, Creates

LEMMA SingleKept ==
    ASSUME DeliveryAssumption, IInv, Next
    PROVE  Single' /\ Creates'
<1>0. Types /\ Writes /\ Single /\ Creates /\ Picked /\ Linking BY DEF IInv
<1>1. CASE attempts' = attempts BY <1>0, <1>1 DEF Single, Creates
<1>2. CASE Begin
  <2>1. /\ worker.pc = "admit"
        /\ Len(attempts) \in Nat /\ DOMAIN attempts = 1..Len(attempts)
        /\ DOMAIN attempts' = 1..(Len(attempts) + 1)
        /\ \A i \in DOMAIN attempts : attempts'[i] = attempts[i]
        /\ attempts'[Len(attempts) + 1].delivery = worker.job
        /\ attempts'[Len(attempts) + 1].op = worker.op
    BY <1>0, <1>2, BeginFields
  <2>2. \A i \in DOMAIN attempts :
           attempts[i].delivery = worker.job /\ attempts[i].op = worker.op
              => attempts[i].result = "definite"
    BY <1>2 DEF Begin, Unresolved
  <2>3. worker.op = "create" => worker.job = 1
    <3>1. worker.op = "create" => worker.number = 0
      BY <1>0, <2>1 DEF Writes
    <3>2. worker.job \in Enqueued /\ worker.job \in Deliveries
          /\ worker.number = delivery[worker.job].pr
      BY <2>1 , <1>0 DEF Picked, Busy, Enqueued
    <3>3. worker.job > 1 => delivery[worker.job].pr = 1
      BY <1>0, <3>2 DEF Linking
    <3>. QED BY <3>1, <3>2, <3>3 DEF Deliveries
  <2>4. \A i \in DOMAIN attempts' : i = Len(attempts) + 1 \/ i \in DOMAIN attempts
    BY <2>1
  <2>5. \A i, j \in DOMAIN attempts' : i < j => i \in DOMAIN attempts
    BY <2>1
  <2>6. Single'
    <3>. SUFFICES ASSUME NEW i \in DOMAIN attempts', NEW j \in DOMAIN attempts', i < j,
                         attempts'[i].delivery = attempts'[j].delivery,
                         attempts'[i].op = attempts'[j].op
                  PROVE  attempts'[i].result = "definite"
      BY DEF Single
    <3>1. i \in DOMAIN attempts /\ attempts'[i] = attempts[i]
      BY <2>1, <2>5
    <3>2. CASE j \in DOMAIN attempts
      BY <1>0, <2>1, <3>1, <3>2 DEF Single
    <3>3. CASE j = Len(attempts) + 1
      BY <2>1, <2>2, <3>1, <3>3
    <3>. QED BY <2>4, <3>2, <3>3
  <2>7. Creates'
    BY <1>0, <2>1, <2>3, <2>4 DEF Creates
  <2>. QED BY <2>6, <2>7
<1>3. CASE Receipt
  <2>1. /\ DOMAIN attempts' = DOMAIN attempts /\ worker.pc = "receipt"
        /\ \A i \in DOMAIN attempts :
                 /\ attempts'[i].delivery = attempts[i].delivery
                 /\ attempts'[i].op = attempts[i].op
                 /\ attempts'[i].result = IF i = worker.attempt THEN worker.outcome
                                                                ELSE attempts[i].result
    BY <1>0, <1>3, ReceiptFields
  <2>2. attempts[worker.attempt].result = "none"
    BY <1>0, <2>1 DEF Writes
  <2>. QED BY <1>0, <2>1, <2>2, CallsStay
<1>. QED BY <1>1, <1>2, <1>3, Kinded, ReadsFoot, OthersFoot, CallsFoot

LEMMA CancelledStays ==
    ASSUME DeliveryAssumption, IInv, Next, cancelled
    PROVE  cancelled'
<1>1. CASE Reads BY <1>1, ReadsFoot
<1>2. CASE Others BY <1>2, OthersFoot DEF Cancel
<1>3. CASE Begin \/ Send \/ SendFails \/ Timeout \/ Receipt \/ \E i \in wire : Apply(i) \/ Reject(i)
  BY <1>3, CallsFoot DEF requirement
<1>. QED BY <1>1, <1>2, <1>3, Kinded

LEMMA UnderWayKept ==
    ASSUME DeliveryAssumption, IInv, Next
    PROVE  UnderWay'
<1>0. Types /\ Writes /\ UnderWay /\ Picked /\ Linking /\ Decided /\ Remote /\ Read BY DEF IInv
<1>1. \A d \in Deliveries : delivery[d].pr = 1 => delivery'[d].pr = 1
  BY LinksMove DEF LinkMoves
<1>2. cancelled => cancelled'
  BY CancelledStays
<1>3. SUFFICES ASSUME NEW i \in wire'
               PROVE  /\ i \in DOMAIN attempts' /\ attempts'[i].result # "definite"
                      /\ worker'.attempt = i =>
                            /\ worker'.pc # "send"
                            /\ worker'.pc = "receipt" => worker'.outcome # "definite"
                      /\ attempts'[i].op = "close" =>
                            /\ cancelled' /\ attempts'[i].number = 1
                            /\ delivery'[attempts'[i].delivery].pr = 1
  BY DEF UnderWay
<1>4. i \in wire => /\ i \in DOMAIN attempts /\ attempts[i].delivery \in Deliveries
                    /\ attempts[i].result # "definite"
                    /\ worker.attempt = i =>
                          /\ worker.pc # "send"
                          /\ worker.pc = "receipt" => worker.outcome # "definite"
                    /\ attempts[i].op = "close" =>
                          /\ cancelled /\ attempts[i].number = 1
                          /\ delivery[attempts[i].delivery].pr = 1
  <2>1. i \in wire => i \in DOMAIN attempts /\ attempts[i] \in AttemptRecs
    BY <1>0 DEF Types
  <2>. QED BY <1>0, <2>1 DEF UnderWay, AttemptRecs
<1>5. CASE Reads
  <2>1. attempts' = attempts /\ wire' = wire BY <1>5, ReadsFoot
  <2>2. worker'.pc \notin {"send", "receipt"} BY <1>0, <1>5, ReadsWorker
  <2>. QED BY <1>1, <1>2, <1>4, <2>1, <2>2
<1>6. CASE Others
  BY <1>1, <1>2, <1>4, <1>6, OthersFoot
<1>7. CASE Begin
  <2>1. /\ wire' = wire /\ DOMAIN attempts = 1..Len(attempts) /\ Len(attempts) \in Nat
        /\ DOMAIN attempts' = 1..(Len(attempts) + 1)
        /\ \A a \in DOMAIN attempts : attempts'[a] = attempts[a]
        /\ worker'.attempt = Len(attempts) + 1
    BY <1>0, <1>7, BeginFields
  <2>. QED BY <1>1, <1>2, <1>4, <2>1
<1>8. CASE Send
  <2>1. worker.pc = "send" /\ attempts' = attempts /\ delivery' = delivery /\ cancelled' = cancelled
    BY <1>8 DEF Send, At, ledger, requirement
  <2>2. /\ worker.attempt \in DOMAIN attempts /\ attempts[worker.attempt].result = "none"
        /\ attempts[worker.attempt].op = worker.op
        /\ attempts[worker.attempt].number = worker.number
        /\ attempts[worker.attempt].delivery = worker.job
    BY <1>0, <2>1 DEF Writes, Types, WorkerRecs
  <2>3. worker'.attempt = worker.attempt
        /\ \/ worker'.pc = "await"
           \/ worker'.pc = "receipt" /\ worker'.outcome \in {"ok", "unknown"}
    BY <1>0, <1>8, WorkerFields DEF Send, SameJob
  <2>4. worker.op = "close" => /\ cancelled /\ worker.number = 1
                               /\ delivery[worker.job].pr = 1
    <3>1. /\ worker.job \in Deliveries /\ worker.job \in Enqueued
          /\ worker.number = delivery[worker.job].pr
          /\ worker.kind = "close" => action[worker.job]["close"].state # "none"
      BY <1>0, <2>1 DEF Picked, Busy, Enqueued
    <3>2. worker.op = "close" => worker.kind = "close"
      BY <1>0, <2>1 DEF Writes, KindOf
    <3>3. \A d \in Deliveries :
             action[d]["close"].state # "none" => cancelled /\ delivery[d].pr = 1
      BY <1>0 DEF Decided
    <3>. QED BY ONLY <3>1, <3>2, <3>3
  <2>5. i \in wire \/ i = worker.attempt
    BY <1>8 DEF Send
  <2>6. CASE i \in wire
    BY <1>4, <2>1, <2>3, <2>6
  <2>7. CASE i = worker.attempt
    BY <2>1, <2>2, <2>3, <2>4, <2>7
  <2>. QED BY <2>5, <2>6, <2>7
<1>9. CASE SendFails
  <2>1. /\ worker.pc = "send" /\ attempts' = attempts /\ wire' = wire
        /\ delivery' = delivery /\ cancelled' = cancelled
    BY <1>9 DEF SendFails, At, ledger, github, requirement
  <2>2. worker'.attempt = worker.attempt
    BY <1>0, <1>9, WorkerFields DEF SendFails, SameJob
  <2>. QED BY <1>4, <2>1, <2>2
<1>10. CASE Timeout
  <2>1. attempts' = attempts /\ wire' = wire /\ delivery' = delivery /\ cancelled' = cancelled
    BY <1>10 DEF Timeout, ledger, github, requirement
  <2>2. worker'.pc = "receipt" /\ worker'.outcome = "unknown"
    BY <1>0, <1>10, WorkerFields DEF Timeout
  <2>. QED BY <1>4, <2>1, <2>2
<1>11. CASE Receipt
  <2>1. /\ worker.pc = "receipt" /\ worker'.pc \in {"idle", "failed"} /\ wire' = wire
        /\ DOMAIN attempts' = DOMAIN attempts
        /\ \A a \in DOMAIN attempts :
                 /\ attempts'[a].delivery = attempts[a].delivery
                 /\ attempts'[a].op = attempts[a].op /\ attempts'[a].number = attempts[a].number
                 /\ attempts'[a].result = IF a = worker.attempt THEN worker.outcome
                                                                ELSE attempts[a].result
    BY <1>0, <1>11, ReceiptFields
  <2>. QED BY <1>1, <1>2, <1>4, <2>1
<1>12. ASSUME NEW a \in wire, Apply(a) \/ Reject(a)
       PROVE  /\ i \in DOMAIN attempts' /\ attempts'[i].result # "definite"
              /\ worker'.attempt = i =>
                    /\ worker'.pc # "send"
                    /\ worker'.pc = "receipt" => worker'.outcome # "definite"
              /\ attempts'[i].op = "close" =>
                    /\ cancelled' /\ attempts'[i].number = 1
                    /\ delivery'[attempts'[i].delivery].pr = 1
  <2>1. /\ wire' = wire \ {a} /\ attempts' = attempts
        /\ \/ worker' = worker
           \/ worker.attempt = a /\ SameJob
    BY <1>0, <1>12, ReplyWorker
  <2>. QED BY <1>1, <1>2, <1>4, <2>1 DEF SameJob
<1>. QED BY Kinded, <1>5, <1>6, <1>7, <1>8, <1>9, <1>10, <1>11, <1>12

----------------------------------------------------------------------------
(* GitHub. *)

NewPr(m) == [marker |-> m, state |-> "open", head |-> 0]

RemoteSame    == prs' = prs /\ branch' = branch
RemoteEnds    == branch' = branch /\ \E n \in OpenPrs, s \in {"closed", "merged"} : Ends(n, s)
RemoteForeign == prs' = prs /\ branch' = Foreign
RemotePushed  == prs' = prs /\ \E d \in Deliveries : branch' = d /\ Done(d, "push")'
RemoteOthers  == branch' = branch /\ prs' = Append(prs, NewPr(0))
RemoteCreated ==
    /\ branch' = branch /\ Ours = {} /\ prs' = Append(prs, NewPr(1))
    /\ slot /\ UNCHANGED requirement /\ Done(1, "create")'

LEMMA NowSpent ==
    ASSUME DeliveryAssumption, Types, UnderWay, NEW i, Apply(i), ~RemoteSame
    PROVE  i \in DOMAIN attempts /\ i \in DOMAIN attempts' /\ Spent(i)'
           /\ attempts'[i] = attempts[i] /\ attempts[i] \in AttemptRecs
<1>1. /\ i \in wire /\ wire' = wire \ {i} /\ attempts' = attempts
      /\ \/ worker' = worker
         \/ /\ worker'.pc = "receipt"
            /\ worker'.outcome # "definite" \/ (prs' = prs /\ branch' = branch)
  BY ReplyWorker
<1>2. i \in DOMAIN attempts /\ attempts[i] \in AttemptRecs
  BY <1>1 DEF Types
<1>3. /\ attempts[i].result # "definite"
      /\ worker.attempt = i =>
            /\ worker.pc # "send"
            /\ worker.pc = "receipt" => worker.outcome # "definite"
  BY <1>1 DEF UnderWay
<1>. QED BY <1>1, <1>2, <1>3 DEF Spent, RemoteSame

LEMMA OursOnce ==
    ASSUME Single, Creates, UnderWay, Remote, wire \subseteq DOMAIN attempts,
           DOMAIN attempts \subseteq Nat,
           NEW i \in wire, attempts[i].op = "create"
    PROVE  Ours = {}
<1>. SUFFICES ASSUME Ours # {} PROVE FALSE
  OBVIOUS
<1>1. PICK j \in DOMAIN attempts :
         attempts[j].delivery = 1 /\ attempts[j].op = "create" /\ Spent(j)
  BY DEF Remote, Done
<1>2. attempts[i].delivery = 1 /\ attempts[i].result # "definite" /\ i \in DOMAIN attempts
  BY DEF Creates, UnderWay
<1>3. j # i /\ attempts[j].result # "definite"
  BY <1>1 DEF Spent
<1>4. i < j \/ j < i
  BY <1>1, <1>2, <1>3
<1>. QED BY <1>1, <1>2, <1>3, <1>4 DEF Single

LEMMA RemoteAfter ==
    ASSUME DeliveryAssumption, IInv, Next
    PROVE  \/ RemoteSame \/ RemoteEnds \/ RemoteForeign
           \/ RemotePushed \/ RemoteOthers \/ RemoteCreated
<1>0. Types /\ Single /\ Creates /\ UnderWay /\ Remote /\ Quiet BY DEF IInv
<1>1. CASE PersonActs
  BY <1>1 DEF PersonActs, RemoteEnds, RemoteForeign, RemoteOthers, NewPr
<1>2. ASSUME NEW i \in wire, Apply(i)
      PROVE  RemoteSame \/ RemoteEnds \/ RemotePushed \/ RemoteCreated
  <2>1. CASE RemoteSame BY <2>1
  <2>2. CASE ~RemoteSame
    <3>1. /\ i \in DOMAIN attempts /\ i \in DOMAIN attempts' /\ Spent(i)'
          /\ attempts'[i] = attempts[i] /\ attempts[i] \in AttemptRecs
      BY <1>0, <1>2, <2>2, NowSpent
    <3>2. attempts[i].delivery \in Deliveries
      BY <3>1 DEF AttemptRecs
    <3>3. PICK d \in Deliveries : d = attempts[i].delivery
      BY <3>2
    <3>4. CASE ApplyPush(i)
      <4>1. attempts[i].op = "push" /\ prs' = prs /\ branch' = d
        BY <3>3, <3>4, <2>2 DEF ApplyPush, RemoteSame
      <4>2. Done(d, "push")'
        BY <3>1, <3>3, <4>1 DEF Done
      <4>. QED BY <4>1, <4>2 DEF RemotePushed
    <3>5. CASE ApplyCreate(i)
      <4>1. attempts[i].op = "create" /\ branch' = branch
        BY <3>5 DEF ApplyCreate
      <4>2. d = 1
        BY <1>0, <3>1, <3>3, <4>1 DEF Creates
      <4>3. prs' = Append(prs, NewPr(1))
        BY <3>3, <3>5, <4>1, <4>2, <2>2 DEF ApplyCreate, RemoteSame, NewPr
      <4>4. Done(1, "create")'
        BY <3>1, <3>3, <4>1, <4>2 DEF Done
      <4>5. Ours = {}
        BY <1>0, <4>1, OursOnce DEF Types
      <4>6. slot
        BY <1>0, <4>1 DEF Quiet, Types
      <4>7. UNCHANGED requirement
        BY <1>2 DEF Apply
      <4>. QED BY <4>1, <4>3, <4>4, <4>5, <4>6, <4>7 DEF RemoteCreated
    <3>6. CASE ApplyClose(i)
      BY <3>6, <2>2 DEF ApplyClose, RemoteSame, RemoteEnds
    <3>. QED BY <1>2, <3>4, <3>5, <3>6 DEF Apply
  <2>. QED BY <2>1, <2>2
<1>. QED BY <1>1, <1>2, Kinded, ReadsFoot, OthersFoot, CallsFoot DEF RemoteSame

EndOf(s, n, st, h) == [s EXCEPT ![n].state = st, ![n].head = h]

LEMMA EndPut ==
    ASSUME NEW s \in Seq(PrRecs), NEW n \in DOMAIN s, NEW st \in {"open", "closed", "merged"},
           NEW h \in Heads
    PROVE  /\ EndOf(s, n, st, h) \in Seq(PrRecs) /\ DOMAIN EndOf(s, n, st, h) = DOMAIN s
           /\ Len(EndOf(s, n, st, h)) = Len(s)
           /\ \A m \in DOMAIN s : m # n => EndOf(s, n, st, h)[m] = s[m]
           /\ EndOf(s, n, st, h)[n].marker = s[n].marker
           /\ EndOf(s, n, st, h)[n].state = st
           /\ EndOf(s, n, st, h)[n].head = h
<1>. DEFINE r == [s[n] EXCEPT !.state = st, !.head = h]
            t == [s EXCEPT ![n] = r]
<1>1. s[n] \in PrRecs OBVIOUS
<1>2. r \in PrRecs /\ r.marker = s[n].marker /\ r.state = st /\ r.head = h
  BY <1>1 DEF PrRecs
<1>. HIDE DEF r
<1>3. t \in Seq(PrRecs) /\ Len(t) = Len(s) /\ DOMAIN t = DOMAIN s
      /\ \A m \in DOMAIN s : t[m] = IF m = n THEN r ELSE s[m]
  BY <1>2
<1>4. EndOf(s, n, st, h) = t BY DEF r, EndOf
<1>. HIDE DEF t
<1>. QED BY <1>2, <1>3, <1>4

\* pull requests are never taken away; their marker stays, and so does an end
PrStays(m) ==
    /\ m \in DOMAIN prs'
    /\ prs'[m].marker = prs[m].marker
    /\ prs[m].state # "open" => prs'[m].state = prs[m].state /\ prs'[m].head = prs[m].head

LEMMA NewPrTyped ==
    ASSUME DeliveryAssumption, NEW m \in {0, 1}
    PROVE  /\ NewPr(m) \in PrRecs /\ NewPr(m).marker = m /\ NewPr(m).state = "open"
           /\ NewPr(m).head = 0
BY DEF NewPr, PrRecs, Heads, Foreign, DeliveryAssumption

LEMMA PrsAfter ==
    ASSUME DeliveryAssumption, IInv, Next
    PROVE  /\ prs' \in Seq(PrRecs) /\ branch' \in Heads
           /\ \A m \in DOMAIN prs : PrStays(m)
           /\ \A m \in DOMAIN prs, d \in Deliveries :
                 prs'[m].head = d => prs[m].head = d \/ branch = d
           /\ \A m \in DOMAIN prs' :
                 \/ m \in DOMAIN prs
                 \/ /\ m = Len(prs) + 1 /\ prs'[m].state = "open" /\ prs'[m].head = 0
                    /\ \/ RemoteOthers /\ prs'[m].marker = 0
                       \/ RemoteCreated /\ prs'[m].marker = 1
           /\ \A d \in Deliveries : branch' = d => branch = d \/ Done(d, "push")'
<1>0. Types BY DEF IInv
<1>1. prs \in Seq(PrRecs) /\ branch \in Heads /\ OpenPrs \subseteq DOMAIN prs
  BY <1>0 DEF Types, OpenPrs
<1>2. Foreign \in Heads /\ Deliveries \subseteq Heads /\ Foreign \notin Deliveries
  BY DeliveryAssumption DEF Foreign, Heads, Deliveries
<1>3. CASE prs' = prs
  <2>1. branch' \in Heads /\ \A d \in Deliveries : branch' = d => branch = d \/ Done(d, "push")'
    <3>1. CASE RemoteSame BY <1>1, <3>1 DEF RemoteSame
    <3>2. CASE RemoteForeign BY <1>2, <3>2 DEF RemoteForeign
    <3>3. CASE RemotePushed BY <1>2, <3>3 DEF RemotePushed
    <3>4. CASE branch' = branch BY <1>1, <3>4
    <3>. QED
      BY <3>1, <3>2, <3>3, <3>4, RemoteAfter DEF RemoteEnds, RemoteOthers, RemoteCreated
  <2>. QED BY <1>1, <1>3, <2>1 DEF PrStays
<1>4. CASE RemoteEnds
  <2>1. PICK n \in OpenPrs, s \in {"closed", "merged"} : Ends(n, s)
    BY <1>4 DEF RemoteEnds
  <2>2. n \in DOMAIN prs /\ prs[n].state = "open" /\ prs' = EndOf(prs, n, s, branch)
    BY <2>1 DEF OpenPrs, Ends, EndOf
  <2>3. s \in {"open", "closed", "merged"}
    OBVIOUS
  <2>4. /\ prs' \in Seq(PrRecs) /\ DOMAIN prs' = DOMAIN prs
        /\ \A m \in DOMAIN prs : m # n => prs'[m] = prs[m]
        /\ prs'[n].marker = prs[n].marker
        /\ prs'[n].state = s
        /\ prs'[n].head = branch
    BY ONLY <1>1, <2>2, <2>3, EndPut
  <2>. QED BY <1>1, <1>4, <2>2, <2>4 DEF PrStays, RemoteEnds
<1>5. ASSUME NEW k \in {0, 1}, prs' = Append(prs, NewPr(k))
      PROVE  /\ prs' \in Seq(PrRecs)
             /\ \A m \in DOMAIN prs : m \in DOMAIN prs' /\ prs'[m] = prs[m]
             /\ \A m \in DOMAIN prs' : m \in DOMAIN prs \/ m = Len(prs) + 1
             /\ prs'[Len(prs) + 1].state = "open" /\ prs'[Len(prs) + 1].head = 0
             /\ prs'[Len(prs) + 1].marker = k
  <2>1. NewPr(k) \in PrRecs /\ NewPr(k).marker = k /\ NewPr(k).state = "open" /\ NewPr(k).head = 0
    BY NewPrTyped
  <2>. HIDE DEF NewPr
  <2>2. /\ prs' \in Seq(PrRecs)
        /\ \A m \in DOMAIN prs : m \in DOMAIN prs' /\ prs'[m] = prs[m]
        /\ \A m \in DOMAIN prs' : m \in DOMAIN prs \/ m = Len(prs) + 1
        /\ prs'[Len(prs) + 1] = NewPr(k)
    BY ONLY <1>1, <1>5, <2>1
  <2>. QED BY <2>1, <2>2
<1>6. CASE RemoteOthers
  <2>1. prs' = Append(prs, NewPr(0)) /\ branch' = branch BY <1>6 DEF RemoteOthers
  <2>. QED BY <1>1, <1>5, <1>6, <2>1 DEF PrStays
<1>7. CASE RemoteCreated
  <2>1. prs' = Append(prs, NewPr(1)) /\ branch' = branch BY <1>7 DEF RemoteCreated
  <2>. QED BY <1>1, <1>5, <1>7, <2>1 DEF PrStays
<1>. QED BY RemoteAfter, <1>3, <1>4, <1>6, <1>7 DEF RemoteSame, RemoteForeign, RemotePushed

LEMMA OursStay ==
    ASSUME DeliveryAssumption, IInv, Next
    PROVE  /\ Ours \subseteq Ours'
           /\ \A m \in Ours' : m \in Ours \/ (RemoteCreated /\ m = Len(prs) + 1)
           /\ \A m, o \in Ours' : m = o
<1>1. /\ \A m \in DOMAIN prs : m \in DOMAIN prs' /\ prs'[m].marker = prs[m].marker
      /\ \A m \in DOMAIN prs' :
            \/ m \in DOMAIN prs
            \/ m = Len(prs) + 1 /\ (prs'[m].marker = 0 \/ RemoteCreated)
  BY PrsAfter DEF PrStays
<1>2. Ours \subseteq Ours'
  BY <1>1 DEF Ours
<1>3. \A m \in Ours' : m \in Ours \/ (RemoteCreated /\ m = Len(prs) + 1)
  BY <1>1 DEF Ours
<1>4. RemoteCreated => Ours = {}
  BY DEF RemoteCreated
<1>5. \A m, o \in Ours : m = o
  BY DEF IInv, Remote
<1>. QED BY <1>2, <1>3, <1>4, <1>5

LEMMA RemoteKept ==
    ASSUME DeliveryAssumption, IInv, Next
    PROVE  Remote'
<1>0. /\ Types /\ Linking /\ Decided /\ Remote /\ Picked /\ Read
      /\ \A d, op : Done(d, op) => Done(d, op)'
  BY DoneStays DEF IInv
<1>1. \A m \in DOMAIN prs' :
         /\ prs'[m].marker \in {0, 1}
         /\ \A d \in Deliveries : prs'[m].head = d => Done(d, "push")'
  <2>1. \A m \in DOMAIN prs :
           /\ prs[m].marker \in {0, 1} /\ prs'[m].marker = prs[m].marker
           /\ \A d \in Deliveries : prs'[m].head = d => prs[m].head = d \/ branch = d
    BY <1>0, PrsAfter DEF Remote, PrStays
  <2>2. \A m \in DOMAIN prs' :
           m \in DOMAIN prs \/ (prs'[m].head = 0 /\ prs'[m].marker \in {0, 1})
    BY PrsAfter
  <2>3. \A m \in DOMAIN prs, d \in Deliveries :
           prs[m].head = d \/ branch = d => Done(d, "push")'
    BY <1>0 DEF Remote
  <2>4. 0 \notin Deliveries BY DEF Deliveries
  <2>. QED BY <2>1, <2>2, <2>3, <2>4
<1>2. \A m, o \in Ours' : m = o
  BY OursStay
<1>3. Ours' # {} => Done(1, "create")'
  <2>1. Ours # {} => Done(1, "create")'
    BY <1>0 DEF Remote
  <2>2. RemoteCreated => Done(1, "create")'
    BY DEF RemoteCreated
  <2>. QED BY <2>1, <2>2, OursStay
<1>4. \A d \in Deliveries : branch' = d => Done(d, "push")'
  BY <1>0, PrsAfter DEF Remote
<1>5. \A d \in Deliveries : delivery'[d].pr = 1 => 1 \in Ours'
  <2>1. 1 \in Deliveries BY DeliveryAssumption DEF Deliveries
  <2>2. \A d \in Deliveries : delivery[d].pr = 1 => 1 \in Ours
    BY <1>0 DEF Remote
  <2>3. Confirm => 1 \in Ours
    BY <1>0, FoundIsOurs
  <2>4. \A d \in Deliveries :
           delivery'[d].pr = 1 => delivery[d].pr = 1 \/ Confirm \/ delivery[1].pr = 1
    BY LinksMove DEF LinkMoves
  <2>5. Ours \subseteq Ours'
    BY OursStay
  <2>. QED BY <2>1, <2>2, <2>3, <2>4, <2>5
<1>6. \A m \in mergedSeen' : m \in DOMAIN prs' /\ prs'[m].state = "merged"
  <2>1. \A m \in mergedSeen' : m \in DOMAIN prs /\ prs[m].state = "merged"
    <3>1. CASE mergedSeen' = mergedSeen
      BY <1>0, <3>1 DEF Remote
    <3>2. CASE SyncPrs
      <4>1. mergedSeen' = {n \in Linked : prs[n].state = "merged"}
        BY <3>2 DEF SyncPrs
      <4>2. \A d \in Deliveries : delivery[d].pr \in {0, 1}
        BY <1>0 DEF Linking, Deliveries
      <4>3. \A n \in Linked : n \in DOMAIN prs
        BY <1>0, <4>2 DEF Linked, Enqueued, Remote, Ours
      <4>. QED BY <4>1, <4>3
    <3>. QED BY <3>1, <3>2, Kinded, ReadsFoot, OthersFoot, CallsFoot
  <2>2. \A m \in DOMAIN prs : m \in DOMAIN prs' /\ (prs[m].state # "open" => prs'[m].state = prs[m].state)
    BY PrsAfter DEF PrStays
  <2>. QED BY <2>1, <2>2
<1>. QED BY <1>1, <1>2, <1>3, <1>4, <1>5, <1>6 DEF Remote

Scalars ==
    /\ reqState \in {"Running", "Submitted", "Cancelled"}
    /\ cancelled \in BOOLEAN /\ paused \in BOOLEAN /\ cleanup \in BOOLEAN /\ slot \in BOOLEAN
    /\ work \in {"coding", "candidate", "done"}
    /\ barrier \in BOOLEAN /\ authorized \in BOOLEAN
    /\ faults \in 0..case.faults /\ commands \in 0..case.commands /\ people \in 0..case.people

LEMMA ScalarsKept ==
    ASSUME DeliveryAssumption, Types, Next
    PROVE  Scalars'
<1>1. /\ Scalars /\ case' = case
      /\ case.faults \in Nat /\ case.commands \in Nat /\ case.people \in Nat
  BY CaseNumbers, Kinded DEF Types, Scalars
<1>2. Fault => faults' \in 0..case.faults
  BY <1>1 DEF Fault, Scalars
<1>3. UNCHANGED bounds => faults' = faults /\ commands' = commands /\ people' = people
  BY DEF bounds
<1>4. UNCHANGED gates => barrier' = barrier /\ authorized' = authorized
  BY DEF gates
<1>5. UNCHANGED requirement =>
         /\ reqState' = reqState /\ cancelled' = cancelled /\ paused' = paused
         /\ cleanup' = cleanup /\ slot' = slot
  BY DEF requirement
<1>6. CASE Reads
  <2>1. CASE Settle
    <3>1. cleanup' \in BOOLEAN /\ slot' \in BOOLEAN
      BY <2>1, <1>1 DEF Settle, SettleRows, Scalars
    <3>. QED BY <2>1, <1>1, <1>3, <1>4, <3>1 DEF Settle, SettleRows, Scalars
  <2>2. CASE NothingDue BY <2>2, <1>1, <1>3, <1>4, <1>5 DEF NothingDue, Scalars
  <2>3. CASE \E d \in Deliveries, k \in Kinds : Pick(d, k)
    BY <2>3, <1>1, <1>3, <1>4, <1>5 DEF Pick, Scalars
  <2>4. CASE Find BY <2>4, <1>1, <1>3, <1>4, <1>5 DEF Find, Scalars
  <2>5. CASE ReadHead BY <2>5, <1>1, <1>3, <1>4, <1>5 DEF ReadHead, Scalars
  <2>6. CASE ReadFails BY <2>6, <1>1, <1>2, <1>4, <1>5 DEF ReadFails, Scalars
  <2>7. CASE Withdraw BY <2>7, <1>1, <1>3, <1>4, <1>5 DEF Withdraw, Scalars
  <2>8. CASE ChooseWrite BY <2>8, <1>1, <1>3, <1>4, <1>5 DEF ChooseWrite, Scalars
  <2>9. CASE UpdatePr BY <2>9, <1>1, <1>3, <1>4, <1>5 DEF UpdatePr, Scalars
  <2>10. CASE Confirm BY <2>10, <1>1, <1>3, <1>4 DEF Confirm, Scalars
  <2>11. CASE AdmissionFails BY <2>11, <1>1, <1>2, <1>4, <1>5 DEF AdmissionFails, Scalars
  <2>12. CASE Refused BY <2>12, <1>1, <1>3, <1>4, <1>5 DEF Refused, Scalars
  <2>13. CASE Failed BY <2>13, <1>1, <1>3, <1>4, <1>5 DEF Failed, Scalars
  <2>14. CASE Crash BY <2>14, <1>1, <1>2, <1>5 DEF Crash, Scalars
  <2>. QED
    BY <1>6, <2>1, <2>2, <2>3, <2>4, <2>5, <2>6, <2>7, <2>8, <2>9, <2>10, <2>11, <2>12,
       <2>13, <2>14 DEF Reads
<1>7. CASE Others
  <2>0. \A name : Command(name) => /\ commands' \in 0..case.commands
                                   /\ faults' = faults /\ people' = people
    BY <1>1 DEF Command, Scalars
  <2>1. CASE Enqueue BY <2>1, <1>1, <1>3, <1>4, <1>5 DEF Enqueue, Scalars
  <2>2. CASE StartRepair BY <2>2, <1>1, <1>3, <1>4 DEF StartRepair, Scalars
  <2>3. CASE CodingEnds BY <2>3, <1>1, <1>3, <1>4, <1>5 DEF CodingEnds, Scalars
  <2>4. CASE SyncPrs BY <2>4, <1>1, <1>3, <1>4, <1>5 DEF SyncPrs, Scalars
  <2>5. CASE Pause BY <2>5, <1>1, <2>0, <1>4 DEF Pause, Scalars
  <2>6. CASE Resume BY <2>6, <1>1, <2>0, <1>4 DEF Resume, Scalars
  <2>7. CASE Cancel BY <2>7, <1>1, <2>0, <1>4 DEF Cancel, Scalars
  <2>8. CASE Recheck BY <2>8, <1>1, <2>0, <1>4, <1>5 DEF Recheck, Scalars
  <2>9. CASE GateCloses BY <2>9, <1>1, <1>2, <1>5 DEF GateCloses, Scalars
  <2>10. CASE GateOpens BY <2>10, <1>1, <1>3, <1>5 DEF GateOpens, Scalars
  <2>11. CASE PersonActs
    <3>1. people' \in 0..case.people /\ faults' = faults /\ commands' = commands
      BY <2>11, <1>1 DEF PersonActs, Person, Scalars
    <3>. QED BY <2>11, <3>1, <1>1, <1>4, <1>5 DEF PersonActs, Scalars
  <2>12. CASE CoordinatorSettle
    <3>1. cleanup' \in BOOLEAN /\ slot' \in BOOLEAN
      BY <2>12, <1>1 DEF CoordinatorSettle, SettleRows, Scalars
    <3>. QED BY <2>12, <1>1, <1>3, <1>4, <3>1 DEF CoordinatorSettle, SettleRows, Scalars
  <2>. QED
    BY <1>7, <2>1, <2>2, <2>3, <2>4, <2>5, <2>6, <2>7, <2>8, <2>9, <2>10, <2>11, <2>12
       DEF Others, OperatorStep
<1>8. CASE Begin BY <1>8, <1>1, <1>3, <1>4, <1>5 DEF Begin, Scalars
<1>9. CASE Send BY <1>9, <1>1, <1>3, <1>4, <1>5 DEF Send, Scalars
<1>10. CASE SendFails BY <1>10, <1>1, <1>2, <1>4, <1>5 DEF SendFails, Scalars
<1>11. CASE Timeout BY <1>11, <1>1, <1>3, <1>4, <1>5 DEF Timeout, Scalars
<1>12. CASE Receipt BY <1>12, <1>1, <1>3, <1>4, <1>5 DEF Receipt, Scalars
<1>13. ASSUME NEW i \in wire, Apply(i) \/ Reject(i) PROVE Scalars'
  <2>1. UNCHANGED requirement /\ UNCHANGED gates /\ UNCHANGED bounds /\ work' = work
    BY <1>13 DEF Apply, Reject
  <2>. QED BY <2>1, <1>1, <1>3, <1>4, <1>5 DEF Scalars
<1>. QED BY Kinded, <1>6, <1>7, <1>8, <1>9, <1>10, <1>11, <1>12, <1>13

LEMMA RowsTyped ==
    ASSUME DeliveryAssumption, IInv, Next
    PROVE  /\ delivery' \in [Deliveries -> DeliveryRecs]
           /\ action' \in [Deliveries -> [Kinds -> RowRecs]]
<1>0. Types /\ Chain /\ Linking /\ Phases /\ Decided /\ Remote /\ Picked /\ Read
  BY DEF IInv
<1>1. CASE RowsStand BY <1>0, <1>1 DEF RowsStand, Types
<1>2. ASSUME NEW j, NEW k, NEW r, OneRow(j, k, r)
      PROVE  /\ delivery' \in [Deliveries -> DeliveryRecs]
             /\ action' \in [Deliveries -> [Kinds -> RowRecs]]
  <2>1. action' \in [Deliveries -> [Kinds -> RowRecs]] BY <1>0, <1>2, OneRowAfter
  <2>2. delivery' = delivery BY <1>2 DEF OneRow
  <2>. QED BY <1>0, <2>1, <2>2 DEF Types
<1>3. CASE Enqueue BY <1>0, <1>3, EnqueueAfter
<1>4. CASE Settles BY <1>0, <1>4, SettleAfter
<1>5. CASE Confirm
  <2>1. PICK j \in Deliveries : j = worker.job BY <1>0, <1>5, FoundIsOurs
  <2>. QED BY <1>0, <1>5, <2>1, ConfirmAfter
<1>6. CASE Cancel BY <1>0, <1>6, CancelAfter DEF Types
<1>. QED BY <1>0, <1>1, <1>2, <1>3, <1>4, <1>5, <1>6, StepRows

LEMMA AttemptsTyped ==
    ASSUME DeliveryAssumption, IInv, Next
    PROVE  attempts' \in Seq(AttemptRecs) /\ wire' \subseteq DOMAIN attempts'
<1>0. Types /\ Writes /\ Picked /\ attempts \in Seq(AttemptRecs) /\ wire \subseteq DOMAIN attempts
  BY DEF IInv, Types
<1>1. CASE attempts' = attempts /\ wire' = wire BY <1>0, <1>1
<1>2. CASE Begin
  <2>1. worker.job \in Deliveries /\ worker.number \in Nat
        /\ worker.op \in {"push", "create", "close"}
    BY <1>0, <1>2, BeginFields DEF Picked, Busy, Enqueued, Writes, Types, WorkerRecs
  <2>. DEFINE r == [delivery |-> worker.job, op |-> worker.op,
                    number |-> worker.number, result |-> "none"]
  <2>2. r \in AttemptRecs BY <2>1 DEF AttemptRecs
  <2>3. attempts' = Append(attempts, r) BY <1>2 DEF Begin
  <2>. HIDE DEF r
  <2>4. attempts' \in Seq(AttemptRecs) BY <1>0, <2>2, <2>3
  <2>. QED BY <1>0, <1>2, <2>4, BeginFields
<1>3. CASE Receipt BY <1>0, <1>3, ReceiptFields
<1>4. CASE Send
  <2>1. worker.pc = "send" /\ attempts' = attempts /\ wire' \subseteq wire \cup {worker.attempt}
    BY <1>4 DEF Send, At, ledger
  <2>2. worker.attempt \in DOMAIN attempts
    BY <1>0, <2>1 DEF Writes, Types, WorkerRecs
  <2>. QED BY <1>0, <2>1, <2>2
<1>5. ASSUME NEW i \in wire, Apply(i) \/ Reject(i)
      PROVE  attempts' \in Seq(AttemptRecs) /\ wire' \subseteq DOMAIN attempts'
  BY <1>0, <1>5, ReplyWorker
<1>. QED BY Kinded, ReadsFoot, OthersFoot, CallsFoot, <1>1, <1>2, <1>3, <1>4, <1>5

LEMMA TypesKept ==
    ASSUME DeliveryAssumption, IInv, Next
    PROVE  Types'
<1>1. case' = case /\ case \in Cases /\ Types /\ Picked
  BY Kinded DEF IInv, Types
<1>2. mergedSeen' \subseteq Nat
  <2>1. \A m \in mergedSeen' : m \in DOMAIN prs' BY RemoteKept DEF Remote
  <2>2. prs' \in Seq(PrRecs) BY PrsAfter
  <2>. QED BY <2>1, <2>2
<1>3. Scalars' BY <1>1, ScalarsKept
<1>4. worker' \in WorkerRecs BY <1>1, WorkerTyped
<1>. QED
  BY <1>1, <1>2, <1>3, <1>4, RowsTyped, AttemptsTyped, PrsAfter DEF Types, Scalars

----------------------------------------------------------------------------
(* The chain of deliveries and the state of the Requirement. *)

LEMMA RequirementMoves ==
    ASSUME DeliveryAssumption, Next
    PROVE  /\ Settles \/ (cleanup' = cleanup /\ slot' = slot)
           /\ \/ reqState' = reqState /\ cancelled' = cancelled
              \/ StartRepair /\ reqState' = "Running" /\ cancelled' = cancelled /\ ~cancelled
              \/ Cancel /\ reqState' = "Cancelled" /\ cancelled' = TRUE
              \/ /\ Confirm /\ cancelled' = cancelled /\ reqState = "Running" /\ ~cancelled
                 /\ reqState' = "Submitted"
           /\ Enqueue \/ StartRepair \/ CodingEnds \/ work' = work
<1>1. CASE Settles
  BY <1>1 DEF Settles, Settle, CoordinatorSettle, SettleRows
<1>2. CASE Confirm
  BY <1>2 DEF Confirm
<1>3. CASE Reads /\ ~Settles /\ ~Confirm
  BY <1>3, ReadsFoot DEF requirement, Settles
<1>4. CASE Others /\ ~Settles
  BY <1>4, OthersFoot DEF StartRepair, Cancel, Settles
<1>5. CASE Begin \/ Send \/ SendFails \/ Timeout \/ Receipt \/ \E i \in wire : Apply(i) \/ Reject(i)
  BY <1>5, CallsFoot DEF requirement
<1>. QED BY <1>1, <1>2, <1>3, <1>4, <1>5, Kinded

LEMMA EnqueuedMoves ==
    ASSUME DeliveryAssumption, IInv, Next
    PROVE  Enqueued \subseteq Enqueued' /\ (~Enqueue => Enqueued' = Enqueued)
<1>1. Enqueued' \subseteq Deliveries /\ Enqueued \subseteq Deliveries BY DEF Enqueued
<1>. QED BY <1>1, RowsMove DEF RowMoves

LEMMA ChainKept ==
    ASSUME DeliveryAssumption, IInv, Next
    PROVE  Chain'
<1>0. Types /\ Chain /\ Linking /\ Phases /\ Decided BY DEF IInv
<1>1. CASE ~Enqueue BY <1>0, <1>1, EnqueuedMoves DEF Chain
<1>2. CASE Enqueue
  <2>1. PICK n \in 0..(Last - 1) :
              /\ Enqueued = 1..n
              /\ n + 1 \in Deliveries /\ n + 1 \notin Enqueued
              /\ \A d \in Deliveries, k \in Kinds :
                    action'[d][k] = IF d = n + 1 /\ k = "publish" THEN Pending ELSE action[d][k]
    BY <1>0, <1>2, EnqueueAfter
  <2>2. Pending.state = "pending" BY <1>0, NewRows
  <2>. HIDE DEF Pending
  <2>3. Enqueued' = Enqueued \cup {n + 1}
    BY <2>1, <2>2 DEF Enqueued, Kinds
  <2>4. Last \in Nat /\ n + 1 \in 0..Last BY DeliveryAssumption
  <2>5. 1..n \cup {n + 1} = 1..(n + 1) BY <2>4
  <2>. QED BY <2>1, <2>3, <2>4, <2>5 DEF Chain
<1>. QED BY <1>1, <1>2

LEMMA LinkingKept ==
    ASSUME DeliveryAssumption, IInv, Next
    PROVE  Linking'
<1>0. /\ Types /\ Chain /\ Linking /\ Phases /\ Decided /\ Remote /\ Picked /\ Read
      /\ Last \in Nat /\ case' = case
  BY DeliveryAssumption, Kinded DEF IInv
<1>1. NoAction' = NoAction BY <1>0 DEF NoAction
<1>2. SUFFICES ASSUME NEW d \in Deliveries
               PROVE  /\ d \notin Enqueued' => /\ delivery'[d].original = 0
                                               /\ delivery'[d].expected = 0
                                               /\ delivery'[d].pr = 0
                                               /\ action'[d]["publish"] = NoAction
                      /\ action'[d]["close"].state = "none" => action'[d]["close"] = NoAction
                      /\ d \in Enqueued' /\ d = 1 =>
                            /\ delivery'[d].original = 0 /\ delivery'[d].expected = 0
                            /\ delivery'[d].pr \in {0, 1}
                      /\ d \in Enqueued' /\ d > 1 =>
                            /\ delivery'[d].original = 1 /\ delivery'[d].expected = d - 1
                            /\ delivery'[d].pr = 1
                            /\ Published(d - 1)'
                      /\ delivery'[d].superseded =
                            IF d < Last /\ Published(d + 1)' THEN d + 1 ELSE 0
  BY <1>1 DEF Linking
<1>3. RowMoves(d) /\ LinkMoves(d) BY RowsMove, LinksMove
<1>4. /\ d \notin Enqueued => /\ delivery[d].original = 0 /\ delivery[d].expected = 0
                              /\ delivery[d].pr = 0
                              /\ action[d]["publish"] = NoAction
      /\ action[d]["close"].state = "none" => action[d]["close"] = NoAction
      /\ d \in Enqueued /\ d = 1 =>
            /\ delivery[d].original = 0 /\ delivery[d].expected = 0 /\ delivery[d].pr \in {0, 1}
      /\ d \in Enqueued /\ d > 1 =>
            /\ delivery[d].original = 1 /\ delivery[d].expected = d - 1 /\ delivery[d].pr = 1
            /\ Published(d - 1)
      /\ delivery[d].superseded = IF d < Last /\ Published(d + 1) THEN d + 1 ELSE 0
  BY <1>0 DEF Linking
<1>5. /\ d \notin Enqueued' => /\ delivery'[d].original = 0
                               /\ delivery'[d].expected = 0
                               /\ delivery'[d].pr = 0
                               /\ action'[d]["publish"] = NoAction
      /\ action'[d]["close"].state = "none" => action'[d]["close"] = NoAction
  BY <1>3, <1>4 DEF RowMoves, LinkMoves
<1>6. \A e \in Deliveries : Published(e) => Published(e)'
  BY RowsMove DEF RowMoves
<1>7. d > 1 => d - 1 \in Deliveries
  BY <1>0 DEF Deliveries
<1>8. delivery'[d].superseded = IF d < Last /\ Published(d + 1)' THEN d + 1 ELSE 0
  <2>1. d < Last => d + 1 \in Deliveries BY <1>0 DEF Deliveries
  <2>2. CASE ~Confirm
    <3>1. d < Last => (Published(d + 1)' <=> Published(d + 1))
      BY <2>1, <2>2, RowsMove DEF RowMoves
    <3>. QED BY <1>3, <1>4, <2>2, <3>1 DEF LinkMoves
  <2>3. CASE Confirm
    <3>1. PICK j \in Deliveries : j = worker.job BY <1>0, <2>3, FoundIsOurs
    <3>2. /\ delivery'[d].superseded = IF d + 1 = j THEN j ELSE delivery[d].superseded
          /\ action'[j]["publish"].state = "confirmed"
          /\ \A e \in Deliveries : e # j => action'[e]["publish"] = action[e]["publish"]
      BY <1>0, <2>3, <3>1, ConfirmAfter
    <3>3. d + 1 = j => d < Last BY <1>0 DEF Deliveries
    <3>4. d < Last => (Published(d + 1)' <=> d + 1 = j \/ Published(d + 1))
      BY <2>1, <3>2 DEF Published
    <3>. QED BY <1>4, <3>2, <3>3, <3>4
  <2>. QED BY <2>2, <2>3
<1>9. CASE d \in Enqueued
  <2>1. /\ d = 1 => /\ delivery'[d].original = 0 /\ delivery'[d].expected = 0
                    /\ delivery'[d].pr \in {0, 1}
        /\ d > 1 => /\ delivery'[d].original = 1 /\ delivery'[d].expected = d - 1
                    /\ delivery'[d].pr = 1
                    /\ Published(d - 1)'
    BY <1>3, <1>4, <1>6, <1>7, <1>9 DEF LinkMoves
  <2>. QED BY ONLY <2>1, <1>5, <1>9, <1>8
<1>10. CASE d \notin Enqueued /\ d \in Enqueued'
  <2>1. Enqueue BY <1>3, <1>10 DEF RowMoves
  <2>2. PICK n \in 0..(Last - 1) :
              /\ Enqueued = 1..n /\ \A e \in 1..n : Published(e)
              /\ n + 1 \in Deliveries /\ n + 1 \notin Enqueued
              /\ \A e \in Deliveries, k \in Kinds :
                    action'[e][k] = IF e = n + 1 /\ k = "publish" THEN Pending ELSE action[e][k]
              /\ delivery'[n + 1].original = IF n = 0 THEN 0 ELSE 1
              /\ delivery'[n + 1].expected = n
              /\ delivery'[n + 1].pr = IF n = 0 THEN 0 ELSE 1
    BY <1>0, <2>1, EnqueueAfter
  <2>3. d = n + 1
    <3>. HIDE DEF Pending
    <3>. QED BY <1>10, <2>2 DEF Enqueued, Kinds
  <2>4. d > 1 => n # 0 /\ d - 1 = n /\ n \in 1..n BY <2>2, <2>3
  <2>5. d > 1 => Published(d - 1)'
    BY <1>6, <1>7, <2>2, <2>4
  <2>6. /\ d = 1 => /\ delivery'[d].original = 0 /\ delivery'[d].expected = 0
                    /\ delivery'[d].pr \in {0, 1}
        /\ d > 1 => /\ delivery'[d].original = 1 /\ delivery'[d].expected = d - 1
                    /\ delivery'[d].pr = 1
    BY <2>2, <2>3, <2>4
  <2>. QED BY ONLY <1>5, <1>10, <1>8, <2>5, <2>6
<1>. QED BY <1>5, <1>8, <1>9, <1>10

LEMMA PublishedBefore ==
    ASSUME DeliveryAssumption, Chain, Linking, NEW d \in Enqueued, NEW e \in Enqueued, e < d
    PROVE  Published(e)
<1>1. PICK n \in 0..Last : Enqueued = 1..n BY DEF Chain
<1>2. e + 1 \in Enqueued /\ e + 1 > 1 /\ (e + 1) - 1 = e
  BY <1>1, DeliveryAssumption
<1>3. e + 1 \in Deliveries BY <1>2 DEF Enqueued
<1>. QED BY <1>2, <1>3 DEF Linking

LEMMA PhasesKept ==
    ASSUME DeliveryAssumption, IInv, Next
    PROVE  Phases'
<1>0. Types /\ Chain /\ Linking /\ Phases /\ Decided /\ Remote /\ Picked /\ Read
  BY DEF IInv
<1>1. cancelled' <=> reqState' = "Cancelled"
  <2>1. cancelled \in BOOLEAN BY <1>0 DEF Types
  <2>2. cancelled => reqState = "Cancelled" BY <1>0 DEF Phases
  <2>3. ~cancelled => reqState # "Cancelled" BY <1>0 DEF Phases
  <2>4. CASE reqState' = reqState /\ cancelled' = cancelled BY <2>1, <2>2, <2>3, <2>4
  <2>5. CASE StartRepair /\ reqState' = "Running" /\ cancelled' = cancelled /\ ~cancelled
    BY <2>5
  <2>6. CASE Cancel /\ reqState' = "Cancelled" /\ cancelled' = TRUE BY <2>6
  <2>7. CASE Confirm /\ cancelled' = cancelled /\ ~cancelled /\ reqState' = "Submitted"
    BY <2>7
  <2>. QED BY <2>4, <2>5, <2>6, <2>7, RequirementMoves
<1>2. \A d \in Deliveries : Published(d) => Published(d)'
  BY RowsMove DEF RowMoves
<1>3. Enqueued \subseteq Deliveries BY DEF Enqueued
<1>4. ~Enqueue /\ (\A d \in Enqueued : Published(d)) => \A d \in Enqueued' : Published(d)'
  BY <1>2, <1>3, EnqueuedMoves
<1>5. work' # "done" => \A d \in Enqueued' : Published(d)'
  <2>1. CASE Enqueue BY <2>1 DEF Enqueue
  <2>2. CASE StartRepair
    <3>1. PICK n \in 0..Last : Enqueued = 1..n BY <1>0 DEF Chain
    <3>2. NextCandidate = n + 1 BY <3>1, NextNumber
    <3>3. n \in Enqueued /\ Published(n)
      <4>1. n # 0 BY <2>2, <3>1 DEF StartRepair
      <4>2. (n + 1) - 1 = n BY <3>1
      <4>. QED BY <2>2, <3>1, <3>2, <4>1, <4>2, DeliveryAssumption DEF StartRepair, Published
    <3>4. \A d \in Enqueued : d = n \/ d < n BY <3>1, DeliveryAssumption
    <3>5. \A d \in Enqueued : Published(d) BY <1>0, <3>3, <3>4, PublishedBefore
    <3>6. ~Enqueue BY <2>2 DEF StartRepair, Enqueue
    <3>. QED BY <1>4, <3>5, <3>6
  <2>3. CASE CodingEnds
    <3>1. ~Enqueue /\ work # "done" BY <2>3 DEF CodingEnds, Enqueue
    <3>. QED BY <1>0, <1>4, <3>1 DEF Phases
  <2>4. CASE work' = work /\ ~Enqueue BY <1>0, <1>4, <2>4 DEF Phases
  <2>. QED BY <2>1, <2>2, <2>3, <2>4, RequirementMoves
<1>6. reqState' = "Submitted" =>
         work' = "done" /\ Enqueued' # {} /\ \A d \in Enqueued' : Published(d)'
  <2>1. CASE reqState' = reqState /\ reqState = "Submitted"
    <3>1. work = "done" /\ Enqueued # {} /\ \A d \in Enqueued : Published(d)
      BY <1>0, <2>1 DEF Phases
    <3>2. ~Enqueue /\ ~CodingEnds BY <3>1 DEF Enqueue, CodingEnds
    <3>3. StartRepair => reqState' = "Running" BY DEF StartRepair
    <3>. QED BY <1>4, <2>1, <3>1, <3>2, <3>3, EnqueuedMoves, RequirementMoves
  <2>2. CASE Confirm /\ ~cancelled
    <3>1. PICK j \in Deliveries : j = worker.job BY <1>0, <2>2, FoundIsOurs
    <3>2. j \in Enqueued /\ action'[j]["publish"].state = "confirmed"
      BY <1>0, <2>2, <3>1, ConfirmAfter
    <3>3. worker.kind \in {"publish", "close"} BY <1>0 DEF Types, WorkerRecs, Kinds
    <3>4. action[j]["publish"].state \in DueStates
      <4>1. Busy BY <2>2 DEF Confirm, At, Busy
      <4>2. /\ worker.kind = "publish" => Workable(j)
            /\ worker.kind = "close" => action[j]["close"].state # "none"
        BY <1>0, <3>1, <4>1 DEF Picked
      <4>3. action[j]["close"].state # "none" => cancelled
        BY <1>0 DEF Decided
      <4>4. Withdrawn(j) => cancelled BY <1>0 DEF Decided
      <4>. QED BY <2>2, <3>3, <4>2, <4>3, <4>4 DEF Workable
    <3>5. ~Published(j) BY <3>4 DEF Published, DueStates
    <3>6. work' = work /\ work = "done"
      BY <1>0, <2>2, <3>2, <3>5 DEF Phases, Confirm
    <3>7. \A d \in Enqueued : d = j \/ d < j
      <4>1. \A d \in Enqueued : d \in Nat /\ j \in Nat
        BY DEF Enqueued, Deliveries
      <4>2. \A d \in Enqueued : ~(j < d)
        BY <1>0, <3>2, <3>5, PublishedBefore
      <4>. QED BY <4>1, <4>2
    <3>8. \A d \in Enqueued : d # j => Published(d)
      BY <1>0, <3>2, <3>7, PublishedBefore
    <3>9. \A d \in Enqueued : Published(d)'
      BY <1>2, <1>3, <3>2, <3>8 DEF Published
    <3>10. ~Enqueue BY <3>6 DEF Enqueue
    <3>. QED BY <3>2, <3>6, <3>9, <3>10, EnqueuedMoves
  <2>. QED BY <2>1, <2>2, RequirementMoves
<1>7. cleanup' => ~slot'
  <2>1. CASE Settles
    BY <1>0, <2>1 DEF Settles, Settle, CoordinatorSettle, SettleRows, Phases
  <2>2. CASE cleanup' = cleanup /\ slot' = slot BY <1>0, <2>2 DEF Phases
  <2>. QED BY <2>1, <2>2, RequirementMoves
<1>. QED BY <1>1, <1>5, <1>6, <1>7 DEF Phases

----------------------------------------------------------------------------
(* The attempts and their counters. *)

LEMMA CallsAfter ==
    ASSUME DeliveryAssumption, IInv, Next
    PROVE  \/ Begin
           \/ /\ DOMAIN attempts' = DOMAIN attempts
              /\ \A i \in DOMAIN attempts : /\ attempts'[i].delivery = attempts[i].delivery
                                           /\ attempts'[i].op = attempts[i].op
                                           /\ attempts'[i].number = attempts[i].number
<1>0. Types /\ Writes BY DEF IInv
<1>1. CASE Receipt BY <1>0, <1>1, ReceiptFields
<1>2. CASE attempts' = attempts BY <1>2
<1>. QED BY <1>1, <1>2, Kinded, ReadsFoot, OthersFoot, CallsFoot

LEMMA TriedAfter ==
    ASSUME DeliveryAssumption, IInv, Next, NEW d \in Deliveries
    PROVE  /\ \A ops : Tried(d, ops)' => \/ Tried(d, ops)
                                         \/ Begin /\ worker.job = d /\ worker.op \in ops
           /\ Untouched(d)' => Untouched(d)
<1>0. Types BY DEF IInv
<1>1. CASE Begin
  <2>1. /\ Len(attempts) \in Nat /\ DOMAIN attempts = 1..Len(attempts)
        /\ DOMAIN attempts' = 1..(Len(attempts) + 1)
        /\ \A i \in DOMAIN attempts : attempts'[i] = attempts[i]
        /\ attempts'[Len(attempts) + 1].delivery = worker.job
        /\ attempts'[Len(attempts) + 1].op = worker.op
    BY <1>0, <1>1, BeginFields
  <2>2. \A i \in DOMAIN attempts' : i \in DOMAIN attempts \/ i = Len(attempts) + 1
    BY <2>1
  <2>3. \A i \in DOMAIN attempts : i \in DOMAIN attempts'
    BY <2>1
  <2>. QED BY <1>1, <2>1, <2>2, <2>3 DEF Tried, Untouched
<1>2. CASE /\ DOMAIN attempts' = DOMAIN attempts
           /\ \A i \in DOMAIN attempts : /\ attempts'[i].delivery = attempts[i].delivery
                                        /\ attempts'[i].op = attempts[i].op
  BY <1>2 DEF Tried, Untouched
<1>. QED BY <1>1, <1>2, CallsAfter

LEMMA BeginRow ==
    ASSUME Types, Picked, Begin
    PROVE  \A d \in Deliveries, k \in Kinds :
              action'[d][k].attempts = IF d = worker.job /\ k = worker.kind
                                       THEN action[d][k].attempts + 1 ELSE action[d][k].attempts
<1>. DEFINE r == [Row EXCEPT !.state = "unknown", !.attempts = @ + 1]
<1>1. Busy BY DEF Begin, At, Busy
<1>2. /\ Row \in RowRecs /\ Row = action[worker.job][worker.kind]
      /\ worker.job \in Deliveries /\ worker.kind \in Kinds
  BY <1>1, PickedRow DEF Row
<1>3. r.attempts = Row.attempts + 1 BY <1>2 DEF RowRecs
<1>4. action' = [action EXCEPT ![worker.job][worker.kind] = r]
  <2>1. action' = [action EXCEPT ![worker.job][worker.kind].state = "unknown",
                                 ![worker.job][worker.kind].attempts = @ + 1]
    BY DEF Begin
  <2>. QED BY <2>1, <1>2 DEF Types, Row
<1>. HIDE DEF r
<1>5. action \in [Deliveries -> [Kinds -> RowRecs]] BY DEF Types
<1>. QED BY ONLY <1>2, <1>3, <1>4, <1>5

LEMMA CountersAfter ==
    ASSUME DeliveryAssumption, IInv, Next, NEW d \in Deliveries, NEW k \in Kinds
    PROVE  /\ action'[d][k].attempts <= action'[d][k].limit
           /\ Begin \/ action'[d][k].attempts = action[d][k].attempts
<1>0. /\ Types /\ Chain /\ Linking /\ Phases /\ Decided /\ Remote /\ Picked /\ Read
      /\ action[d][k].attempts <= action[d][k].limit
  BY DEF IInv, LedgerBounded
<1>. DEFINE New == action'[d][k] = Pending
<1>1. /\ Pending.attempts = 0 /\ Pending.limit = case.limit /\ case.limit \in Nat
      /\ NoAction.attempts = 0 /\ NoAction.limit = case.limit
  BY <1>0, NewRows, CaseNumbers DEF Types
<1>2. CASE New /\ action[d][k] = NoAction
  BY <1>1, <1>2
<1>3. CASE action'[d][k].attempts = action[d][k].attempts /\ action'[d][k].limit = action[d][k].limit
  BY <1>0, <1>3
<1>4. d \notin Enqueued /\ k = "publish" => action[d][k] = NoAction
  BY <1>0 DEF Linking
<1>5. k = "close" /\ action[d][k].state = "none" => action[d][k] = NoAction
  BY <1>0 DEF Linking
<1>6. ASSUME NEW j, NEW l, NEW r, OneRow(j, l, r)
      PROVE  /\ action'[d][k].attempts <= action'[d][k].limit
             /\ Begin \/ action'[d][k].attempts = action[d][k].attempts
  <2>1. action'[d][k] = IF d = j /\ k = l THEN r ELSE action[d][k]
    BY <1>0, <1>6, OneRowAfter
  <2>2. /\ Begin \/ r.attempts = action[j][l].attempts
        /\ action[j][l].attempts <= action[j][l].limit => r.attempts <= r.limit
    BY <1>6 DEF OneRow
  <2>. QED BY <1>0, <2>1, <2>2
<1>7. CASE Enqueue
  <2>1. PICK n \in 0..(Last - 1) :
              /\ n + 1 \notin Enqueued
              /\ \A e \in Deliveries, l \in Kinds :
                    action'[e][l] = IF e = n + 1 /\ l = "publish" THEN Pending ELSE action[e][l]
    BY <1>0, <1>7, EnqueueAfter
  <2>. HIDE DEF Pending
  <2>. QED BY <2>1, <1>2, <1>3, <1>4
<1>8. CASE Settles BY <1>0, <1>3, <1>8, SettleAfter
<1>9. CASE Confirm
  <2>1. PICK j \in Deliveries : j = worker.job BY <1>0, <1>9, FoundIsOurs
  <2>2. \/ /\ action'[d][k].attempts = action[d][k].attempts
           /\ action'[d][k].limit = action[d][k].limit
        \/ action'[d][k] = Pending /\ action[d][k].state = "none" /\ k = "close"
    BY <1>0, <1>9, <2>1, ConfirmAfter
  <2>. QED BY <2>2, <1>2, <1>3, <1>5
<1>10. CASE Cancel
  <2>1. /\ action'[d]["publish"] = action[d]["publish"]
        /\ \/ action'[d]["close"] = action[d]["close"]
           \/ action'[d]["close"] = Pending /\ action[d]["close"].state = "none"
    BY <1>0, <1>10, CancelAfter
  <2>2. k = "publish" \/ k = "close" BY DEF Kinds
  <2>. HIDE DEF Pending
  <2>. QED BY <2>1, <2>2, <1>2, <1>3, <1>5
<1>11. CASE RowsStand BY <1>3, <1>11 DEF RowsStand
<1>. QED BY <1>0, <1>6, <1>7, <1>8, <1>9, <1>10, <1>11, StepRows

LEMMA LedgerKept ==
    ASSUME DeliveryAssumption, IInv, Next
    PROVE  LedgerBounded'
<1>0. Types /\ Writes /\ Picked BY DEF IInv
<1>. SUFFICES ASSUME NEW d \in Deliveries, NEW k \in Kinds
              PROVE  Cardinality(AttemptsOf(d, k)') = action'[d][k].attempts
  BY CountersAfter DEF LedgerBounded
<1>1. Cardinality(AttemptsOf(d, k)) = action[d][k].attempts BY DEF IInv, LedgerBounded
<1>2. CASE ~Begin
  <2>1. AttemptsOf(d, k)' = AttemptsOf(d, k)
    <3>1. /\ DOMAIN attempts' = DOMAIN attempts
          /\ \A i \in DOMAIN attempts : /\ attempts'[i].delivery = attempts[i].delivery
                                       /\ attempts'[i].op = attempts[i].op
      BY <1>2, CallsAfter
    <3>. QED BY <3>1 DEF AttemptsOf
  <2>2. action'[d][k].attempts = action[d][k].attempts BY <1>2, CountersAfter
  <2>. QED BY <1>1, <2>1, <2>2
<1>3. CASE Begin
  <2>. DEFINE n == Len(attempts) + 1
  <2>1. /\ Len(attempts) \in Nat /\ DOMAIN attempts = 1..Len(attempts)
        /\ DOMAIN attempts' = 1..n
        /\ \A i \in DOMAIN attempts : attempts'[i] = attempts[i]
        /\ attempts'[n].delivery = worker.job
        /\ attempts'[n].op = worker.op
    BY <1>0, <1>3, BeginFields
  <2>2. KindOf(worker.op) = worker.kind
    BY <1>0, <1>3 DEF Begin, At, Writes
  <2>3. action'[d][k].attempts = IF d = worker.job /\ k = worker.kind
                                 THEN action[d][k].attempts + 1 ELSE action[d][k].attempts
    BY <1>0, <1>3, BeginRow
  <2>4. /\ n \notin DOMAIN attempts /\ n \in DOMAIN attempts'
        /\ \A i \in DOMAIN attempts' : i = n \/ i \in DOMAIN attempts
        /\ \A i \in DOMAIN attempts : i \in DOMAIN attempts'
    BY <2>1
  <2>5. IsFiniteSet(AttemptsOf(d, k))
    <3>1. IsFiniteSet(1..Len(attempts))
      <4>1. Len(attempts) \in Int BY <2>1
      <4>. QED BY ONLY <4>1, FS_Interval
    <3>2. AttemptsOf(d, k) \subseteq 1..Len(attempts) BY <2>1 DEF AttemptsOf
    <3>. QED BY <3>1, <3>2, FS_Subset
  <2>. HIDE DEF n
  <2>6. CASE d = worker.job /\ k = worker.kind
    <3>1. AttemptsOf(d, k)' = AttemptsOf(d, k) \cup {n}
      BY <2>1, <2>2, <2>4, <2>6 DEF AttemptsOf
    <3>2. n \notin AttemptsOf(d, k) BY <2>4 DEF AttemptsOf
    <3>. QED BY <1>1, <2>3, <2>5, <2>6, <3>1, <3>2, FS_AddElement, ZenonT(60)
  <2>7. CASE ~(d = worker.job /\ k = worker.kind)
    <3>1. AttemptsOf(d, k)' = AttemptsOf(d, k)
      BY <2>1, <2>2, <2>4, <2>7 DEF AttemptsOf
    <3>. QED BY <1>1, <2>3, <2>7, <3>1
  <2>. QED BY <2>6, <2>7
<1>. QED BY <1>2, <1>3

----------------------------------------------------------------------------
(* What the rows say of GitHub stays true. *)

LEMMA CloseMoves ==
    ASSUME DeliveryAssumption, IInv, Next, NEW d \in Deliveries, action'[d]["close"].state # "none"
    PROVE  \/ action[d]["close"].state # "none"
           \/ Confirm /\ d = worker.job /\ cancelled
           \/ Cancel /\ delivery[d].pr = 1
<1>0. Types /\ Chain /\ Linking /\ Phases /\ Decided /\ Remote /\ Picked /\ Read
  BY DEF IInv
<1>1. CASE RowsStand BY <1>1 DEF RowsStand
<1>2. ASSUME NEW j, NEW k, NEW r, OneRow(j, k, r)
      PROVE  action[d]["close"].state # "none"
  <2>1. action'[d]["close"] = IF d = j /\ "close" = k THEN r ELSE action[d]["close"]
    BY <1>0, <1>2, OneRowAfter DEF Kinds
  <2>2. k = "close" => action[j][k].state # "none" BY <1>2 DEF OneRow
  <2>. QED BY <2>1, <2>2
<1>3. CASE Enqueue
  <2>1. action'[d]["close"] = action[d]["close"]
    BY <1>0, <1>3, EnqueueAfter DEF Kinds
  <2>. QED BY <2>1
<1>4. CASE Settles BY <1>0, <1>4, SettleAfter
<1>5. CASE Confirm
  <2>1. PICK j \in Deliveries : j = worker.job BY <1>0, <1>5, FoundIsOurs
  <2>2. \/ action'[d]["close"] = action[d]["close"]
        \/ action[d]["close"].state # "none"
        \/ d = j /\ (cancelled \/ action[d]["close"].state # "none")
    BY <1>0, <1>5, <2>1, ConfirmAfter
  <2>. QED BY <1>5, <2>1, <2>2
<1>6. CASE Cancel
  <2>1. \/ action'[d]["close"] = action[d]["close"]
        \/ action[d]["close"].state = "none" /\ delivery[d].pr # 0
    BY <1>0, <1>6, CancelAfter
  <2>2. delivery[d].pr \in {0, 1} BY <1>0 DEF Linking, Deliveries
  <2>. QED BY <1>6, <2>1, <2>2
<1>. QED BY <1>0, <1>1, <1>2, <1>3, <1>4, <1>5, <1>6, StepRows

LEMMA WithdrawnKept ==
    ASSUME DeliveryAssumption, IInv, Next, NEW d \in Deliveries, Withdrawn(d)'
    PROVE  /\ cancelled'
           /\ ~Tried(d, {"create"})'
           /\ d > 1 => ~Tried(d, {"push"})'
           /\ Tried(d, {"push"})' => Done(d, "push")'
<1>0. Types /\ Linking /\ Decided /\ Picked /\ Read /\ Writes
  BY DEF IInv
<1>1. \A ops : Tried(d, ops)' => Tried(d, ops) \/ (Begin /\ worker.job = d /\ worker.op \in ops)
  BY TriedAfter
<1>2. Done(d, "push") => Done(d, "push")' BY DoneStays
<1>3. CASE Withdrawn(d)
  <2>1. /\ cancelled /\ ~Tried(d, {"create"})
        /\ d > 1 => ~Tried(d, {"push"})
        /\ Tried(d, {"push"}) => Done(d, "push")
    BY <1>0, <1>3 DEF Decided
  <2>2. Begin => worker.op \notin {"push"} /\ worker.op \notin {"create"}
    BY <1>0, <2>1 DEF Begin, Allowed, At, Writes, KindOf
  <2>. QED BY <1>1, <1>2, <2>1, <2>2, CancelledStays
<1>4. CASE Settles /\ Revocable(d)
  <2>1. cancelled /\ Untouched(d) BY <1>4 DEF Revocable
  <2>2. ~Begin BY <1>0, <1>4, SettlesApart
  <2>3. \A ops : ~Tried(d, ops) BY <2>1 DEF Untouched, Tried
  <2>. QED BY <1>1, <2>1, <2>2, <2>3, CancelledStays
<1>5. CASE Withdraw /\ d = worker.job /\ Withdrawable(d, worker.head)
  <2>1. /\ worker.pc = "absent" /\ cancelled /\ ~Begin
    BY <1>5 DEF Withdraw, At, Begin
  <2>2. d \in Enqueued /\ delivery[d].pr = 0
    BY <1>0, <1>5, <2>1 DEF Picked, Busy, Read
  <2>3. ~(d > 1) BY <1>0, <2>2 DEF Linking
  <2>4. ~Tried(d, {"create"}) /\ (worker.head = d \/ Untouched(d))
    BY <1>5 DEF Withdrawable
  <2>5. worker.head = d => Done(d, "push") BY <1>0, <2>1 DEF Read
  <2>6. Untouched(d) => ~Tried(d, {"push"}) BY DEF Untouched, Tried
  <2>. QED BY <1>1, <1>2, <2>1, <2>3, <2>4, <2>5, <2>6, CancelledStays
<1>. QED BY <1>3, <1>4, <1>5, RowsMove DEF RowMoves

LEMMA DecidedKept ==
    ASSUME DeliveryAssumption, IInv, Next
    PROVE  Decided'
<1>0. /\ Types /\ Chain /\ Linking /\ Phases /\ Decided /\ Remote /\ Picked /\ Read
  BY DEF IInv
<1>. SUFFICES ASSUME NEW d \in Deliveries
              PROVE  /\ Published(d)' => delivery'[d].pr = 1 /\ Done(d, "push")'
                     /\ action'[d]["close"].state # "none" => cancelled' /\ delivery'[d].pr = 1
                     /\ action'[d]["close"].state = "confirmed" =>
                           Published(d)' /\ prs'[1].state # "open"
                     /\ delivery'[d].released =>
                           /\ delivery'[d].pr = 1 /\ prs'[1].state = "merged"
                           /\ Done(d, "push")'
  BY WithdrawnKept DEF Decided
<1>1. RowMoves(d) /\ LinkMoves(d) BY RowsMove, LinksMove
<1>2. Done(d, "push") => Done(d, "push")' BY DoneStays
<1>3. 1 \in Ours /\ prs[1].state # "open" => prs'[1].state = prs[1].state
  BY PrsAfter DEF PrStays, Ours
<1>4. delivery[d].pr = 1 => 1 \in Ours BY <1>0 DEF Remote
<1>5. Confirm /\ d = worker.job =>
         /\ 1 \in Ours /\ Done(d, "push") /\ delivery'[d].pr = 1 /\ Published(d)'
         /\ worker.fact \in {"closed", "merged"} => prs[1].state = worker.fact
  <2>. SUFFICES ASSUME Confirm, d = worker.job
                PROVE  /\ 1 \in Ours /\ Done(d, "push") /\ delivery'[d].pr = 1 /\ Published(d)'
                       /\ worker.fact \in {"closed", "merged"} => prs[1].state = worker.fact
    OBVIOUS
  <2>1. 1 \in Ours /\ Done(d, "push") BY <1>0, FoundIsOurs
  <2>2. delivery'[d].pr = 1 /\ action'[d]["publish"].state = "confirmed"
    BY <1>0, ConfirmAfter
  <2>3. worker.pc = "found" BY DEF Confirm, At
  <2>. QED BY <1>0, <2>1, <2>2, <2>3 DEF Read, Published
<1>6. Published(d)' => delivery'[d].pr = 1 /\ Done(d, "push")'
  <2>1. Published(d) => delivery[d].pr = 1 /\ Done(d, "push") BY <1>0 DEF Decided
  <2>. QED BY <1>1, <1>2, <1>5, <2>1 DEF RowMoves, LinkMoves
<1>7. action'[d]["close"].state # "none" => cancelled' /\ delivery'[d].pr = 1
  <2>1. action[d]["close"].state # "none" => cancelled /\ delivery[d].pr = 1
    BY <1>0 DEF Decided
  <2>2. Cancel => cancelled' BY DEF Cancel
  <2>3. delivery[d].pr = 1 => delivery'[d].pr = 1 BY <1>1 DEF LinkMoves
  <2>. QED BY <1>5, <2>1, <2>2, <2>3, CancelledStays, CloseMoves
<1>8. action'[d]["close"].state = "confirmed" => Published(d)' /\ prs'[1].state # "open"
  <2>1. action[d]["close"].state = "confirmed" =>
           Published(d) /\ prs[1].state # "open" /\ delivery[d].pr = 1
    BY <1>0 DEF Decided
  <2>. QED BY <1>1, <1>3, <1>4, <1>5, <2>1 DEF RowMoves
<1>9. delivery'[d].released => /\ delivery'[d].pr = 1 /\ prs'[1].state = "merged"
                               /\ Done(d, "push")'
  <2>1. delivery[d].released =>
           delivery[d].pr = 1 /\ prs[1].state = "merged" /\ Done(d, "push")
    BY <1>0 DEF Decided
  <2>2. Settles /\ delivery[d].pr \in mergedSeen /\ prs[delivery[d].pr].head = d =>
           delivery[d].pr = 1 /\ prs[1].state = "merged" /\ Done(d, "push")
    <3>1. delivery[d].pr \in {0, 1} BY <1>0 DEF Linking, Deliveries
    <3>2. 0 \notin DOMAIN prs BY <1>0 DEF Types
    <3>. QED BY <1>0, <3>1, <3>2 DEF Remote
  <2>. QED BY <1>1, <1>2, <1>3, <1>4, <1>5, <2>1, <2>2 DEF LinkMoves
<1>. QED BY <1>6, <1>7, <1>8, <1>9

----------------------------------------------------------------------------
(* The worker's locals. *)

LEMMA WorkerMoves ==
    ASSUME DeliveryAssumption, Types, Writes, Next, Busy'
    PROVE  \/ \E d \in Deliveries, k \in Kinds : Pick(d, k) /\ worker'.pc = "find"
           \/ /\ Busy /\ worker'.job = worker.job /\ worker'.kind = worker.kind
              /\ worker'.number = worker.number
<1>1. CASE Reads
  <2>1. ~(worker'.pc = "idle") /\ ~(worker'.pc = "due") BY DEF Busy
  <2>2. CASE Settle BY <2>2, <2>1, WorkerFields DEF Settle
  <2>3. CASE NothingDue \/ Crash BY <2>3, <2>1, WorkerFields DEF NothingDue, Crash
  <2>4. CASE \E d \in Deliveries, k \in Kinds : Pick(d, k)
    <3>1. worker'.pc = "find" BY <2>4 DEF Pick, Types, WorkerRecs
    <3>. QED BY <2>4, <3>1
  <2>5. CASE Find
    <3>1. worker.pc = "find" BY <2>5 DEF Find, At
    <3>2. worker'.job = worker.job /\ worker'.kind = worker.kind /\ worker'.number = worker.number
      <4>. HIDE DEF Reading
      <4>1. worker' = [worker EXCEPT !.pc = "found", !.seen = 1,
                                     !.fact = Reading(worker.job, worker.kind, 1)]
            => worker'.job = worker.job /\ worker'.kind = worker.kind
               /\ worker'.number = worker.number
        BY DEF Types, WorkerRecs
      <4>. QED BY <2>5, <4>1, WorkerFields DEF Find, SameJob
    <3>. QED BY <3>1, <3>2 DEF Busy
  <2>6. CASE ReadHead
    <3>1. worker.pc = "head" BY <2>6 DEF ReadHead, At
    <3>2. worker'.job = worker.job /\ worker'.kind = worker.kind /\ worker'.number = worker.number
      BY <2>6 DEF ReadHead, Types, WorkerRecs
    <3>. QED BY <3>1, <3>2 DEF Busy
  <2>7. CASE ReadFails BY <2>7, <2>1, WorkerFields DEF ReadFails, SameJob, Busy
  <2>8. CASE Withdraw \/ AdmissionFails \/ Refused \/ Failed
    BY <2>8, <2>1, WorkerFields DEF Withdraw, AdmissionFails, Refused, Failed
  <2>9. CASE ChooseWrite BY <2>9, WorkerFields DEF ChooseWrite, At, SameJob, Busy
  <2>10. CASE UpdatePr BY <2>10, WorkerFields DEF UpdatePr, At, SameJob, Busy
  <2>11. CASE Confirm
    <3>1. worker.pc = "found" /\ (Submit("close") \/ worker' = Idle)
      BY <2>11 DEF Confirm, At
    <3>. QED BY <3>1, <2>1, WorkerFields DEF Busy
  <2>. QED
    BY <1>1, <2>2, <2>3, <2>4, <2>5, <2>6, <2>7, <2>8, <2>9, <2>10, <2>11 DEF Reads
<1>2. CASE Others BY <1>2, OthersFoot DEF Busy
<1>3. CASE Begin BY <1>3, BeginFields DEF Busy
<1>4. CASE Send BY <1>4, WorkerFields DEF Send, At, SameJob, Busy
<1>5. CASE SendFails BY <1>5, WorkerFields DEF SendFails, At, SameJob, Busy
<1>6. CASE Timeout BY <1>6, WorkerFields DEF Timeout, At, SameJob, Busy
<1>7. CASE Receipt BY <1>7, ReceiptFields DEF SameJob, Busy
<1>8. CASE \E i \in wire : Apply(i) \/ Reject(i) BY <1>8, ReplyWorker DEF SameJob, Busy
<1>. QED BY Kinded, <1>1, <1>2, <1>3, <1>4, <1>5, <1>6, <1>7, <1>8

LEMMA PickedKept ==
    ASSUME DeliveryAssumption, IInv, Next
    PROVE  Picked'
<1>0. /\ Types /\ Chain /\ Linking /\ Phases /\ Decided /\ Remote /\ Picked /\ Read /\ Writes
  BY DEF IInv
<1>. SUFFICES ASSUME Busy' PROVE Picked' BY DEF Picked
<1>1. CASE \E d \in Deliveries, k \in Kinds : Pick(d, k) /\ worker'.pc = "find"
  <2>1. PICK d \in Deliveries, k \in Kinds : Pick(d, k) BY <1>1
  <2>2. /\ worker'.job = d /\ worker'.kind = k /\ worker'.number = delivery[d].pr
        /\ action' = action /\ delivery' = delivery /\ action[d][k].state \in DueStates
    BY <1>0, <2>1 DEF Pick, ledger, Types, WorkerRecs
  <2>3. d \in Enqueued
    <3>1. k = "publish" \/ k = "close" BY DEF Kinds
    <3>2. action[d]["publish"].state # "none" => d \in Enqueued BY DEF Enqueued
    <3>3. action[d]["close"].state # "none" => delivery[d].pr = 1 BY <1>0 DEF Decided
    <3>4. d \notin Enqueued => delivery[d].pr = 0 BY <1>0 DEF Linking
    <3>. QED BY <2>2, <3>1, <3>2, <3>3, <3>4 DEF DueStates
  <2>4. Enqueued' = Enqueued BY <2>2 DEF Enqueued
  <2>5. k = "publish" => Workable(d)' BY <2>2 DEF Workable, Withdrawn
  <2>. QED BY <2>2, <2>3, <2>4, <2>5 DEF Picked, DueStates
<1>2. CASE /\ Busy /\ worker'.job = worker.job /\ worker'.kind = worker.kind
           /\ worker'.number = worker.number
  <2>1. PICK j \in Deliveries : j = worker.job
    BY <1>0, <1>2 DEF Picked, Enqueued
  <2>2. /\ j \in Enqueued /\ worker.number = delivery[j].pr
        /\ worker.kind = "publish" => Workable(j)
        /\ worker.kind = "close" => action[j]["close"].state # "none"
    BY <1>0, <1>2, <2>1 DEF Picked
  <2>3. RowMoves(j) BY RowsMove
  <2>4. ~Withdraw
    BY <1>0, <1>2, WorkerFields DEF Withdraw, At, Busy
  <2>5. Confirm => worker.kind = "close"
    BY <1>0, WorkerFields DEF Confirm, Busy
  <2>6. delivery'[j].pr = delivery[j].pr
    <3>1. CASE Confirm
      <4>1. delivery[j].pr = 1 BY <1>0, <2>2, <2>5, <3>1 DEF Decided
      <4>. QED BY <4>1, LinksMove DEF LinkMoves
    <3>2. CASE Enqueue
      <4>1. PICK n \in 0..(Last - 1) :
                  /\ n + 1 \notin Enqueued
                  /\ \A e \in Deliveries : e # n + 1 => delivery'[e] = delivery[e]
        BY <1>0, <3>2, EnqueueAfter
      <4>. QED BY <2>2, <4>1
    <3>3. CASE Cancel BY <1>0, <3>3, CancelAfter
    <3>4. \A i, k, r : OneRow(i, k, r) => delivery' = delivery BY DEF OneRow
    <3>5. CASE Settles BY <1>0, <3>5, SettleAfter
    <3>. QED BY <1>0, <3>1, <3>2, <3>3, <3>4, <3>5, StepRows DEF RowsStand
  <2>7. j \in Enqueued' BY <2>2, <2>3 DEF RowMoves
  <2>8. worker.kind = "publish" => Workable(j)'
    <3>. SUFFICES ASSUME worker.kind = "publish" PROVE Workable(j)'
      OBVIOUS
    <3>1. ~Published(j)'
      <4>1. ~Published(j) BY <2>2 DEF Workable, Published, Withdrawn, DueStates
      <4>. QED BY <2>3, <2>5, <4>1 DEF RowMoves
    <3>2. Withdrawn(j)' => Untouched(j)'
      <4>. SUFFICES ASSUME Withdrawn(j)' PROVE Untouched(j)'
        OBVIOUS
      <4>1. Untouched(j)
        BY <2>2, <2>3, <2>4 DEF Workable, RowMoves, Revocable, Withdrawn, DueStates
      <4>2. ~Begin
        <5>1. CASE Withdrawn(j)
          <6>1. cancelled BY <1>0, <5>1 DEF Decided
          <6>. QED BY <6>1 DEF Begin, Allowed
        <5>2. CASE Settles BY <1>0, <5>2, SettlesApart
        <5>. QED BY <2>3, <2>4, <5>1, <5>2 DEF RowMoves
      <4>. QED BY <4>1, <4>2, CallsAfter DEF Untouched
    <3>3. action'[j]["publish"].state \in PublishStates
      <4>1. action'[j]["publish"] \in RowRecs
        BY TypesKept DEF Types, Kinds
      <4>. QED BY <4>1 DEF RowRecs
    <3>. QED BY <2>7, <3>1, <3>2, <3>3
      DEF Workable, PublishStates, DueStates, Enqueued, Published, Withdrawn
  <2>9. worker.kind = "close" => action'[j]["close"].state # "none"
    BY <2>2, <2>3 DEF RowMoves
  <2>. QED BY <1>2, <2>1, <2>2, <2>6, <2>7, <2>8, <2>9 DEF Picked
<1>. QED BY <1>0, <1>1, <1>2, WorkerMoves

LEMMA ReadKept ==
    ASSUME DeliveryAssumption, IInv, Next
    PROVE  Read'
<1>0. /\ Types /\ Linking /\ Remote /\ Picked /\ Read /\ Writes
      /\ \A d \in Deliveries : Done(d, "push") => Done(d, "push")'
      /\ 1 \in Ours => 1 \in Ours'
      /\ 1 \in Ours /\ prs[1].state # "open" => prs'[1].state = prs[1].state
  BY DoneStays, OursStay, PrsAfter DEF IInv, PrStays, Ours
<1>1. CASE worker' = worker
  <2>1. worker'.pc = worker.pc /\ worker'.kind = worker.kind /\ worker'.number = worker.number
        /\ worker'.head = worker.head /\ worker'.seen = worker.seen
        /\ worker'.fact = worker.fact /\ worker'.job = worker.job
    BY <1>1
  <2>. QED BY <1>0, <2>1 DEF Read
<1>2. CASE worker'.pc \notin {"head", "absent", "found"}
  BY <1>2 DEF Read
<1>3. CASE Reads
  <2>1. CASE Find /\ worker'.pc = "head"
    <3>1. worker.kind \in {"publish", "close"} BY <1>0 DEF Types, WorkerRecs, Kinds
    <3>2. /\ worker.number = 0 /\ worker.kind = "publish"
          /\ worker'.number = worker.number /\ worker'.kind = worker.kind
      <4>1. Fail("conflict") => worker'.pc = "failed" BY <1>0, WorkerFields
      <4>. HIDE DEF Reading
      <4>2. worker' = [worker EXCEPT !.pc = "found", !.seen = 1,
                                     !.fact = Reading(worker.job, worker.kind, 1)]
            => worker'.pc = "found"
        BY <1>0 DEF Types, WorkerRecs
      <4>3. Go("head") /\ worker.number = 0 /\ worker.kind # "close"
        BY <2>1, <4>1, <4>2 DEF Find
      <4>. QED BY <1>0, <3>1, <4>3, WorkerFields DEF SameJob
    <3>. QED BY <2>1, <3>2 DEF Read
  <2>2. CASE ReadHead
    <3>1. /\ worker'.pc = "absent" /\ worker'.head = branch
          /\ worker'.kind = worker.kind /\ worker'.number = worker.number
          /\ worker.pc = "head"
      BY <1>0, <2>2 DEF ReadHead, At, Types, WorkerRecs
    <3>2. \A d \in Deliveries : branch = d => Done(d, "push")'
      BY <1>0 DEF Remote
    <3>. QED BY <1>0, <3>1, <3>2 DEF Read
  <2>3. CASE Find /\ worker'.pc = "found"
    <3>1. PICK d \in Deliveries : d = worker.job
      BY <1>0, <2>3 DEF Find, At, Picked, Busy, Enqueued
    <3>2. d \in Enqueued BY <1>0, <2>3, <3>1 DEF Find, At, Picked, Busy
    <3>3. worker.kind \in Kinds BY <1>0 DEF Types, WorkerRecs
    <3>. DEFINE f == Reading(d, worker.kind, 1)
    <3>4. /\ Len(prs) = 1
          /\ worker' = [worker EXCEPT !.pc = "found", !.seen = 1, !.fact = f]
      <4>1. Fail("conflict") => worker'.pc = "failed" BY <1>0, WorkerFields
      <4>2. Go("head") => worker'.pc = "head" BY <1>0, WorkerFields
      <4>. HIDE DEF f
      <4>3. f = Reading(worker.job, worker.kind, 1) BY <3>1 DEF f
      <4>. HIDE DEF Reading
      <4>. QED BY <2>3, <4>1, <4>2, <4>3 DEF Find
    <3>5. 1 \in DOMAIN prs BY <1>0, <3>4 DEF Types
    <3>6. /\ f = "behind" => worker.kind = "publish"
          /\ f \in {"open", "closed", "merged"} =>
                prs[1].marker = Root(d) /\ HeadOf(1) = d /\ prs[1].state = f
      BY <1>0, <3>3, <3>5, ReadingFacts
    <3>. HIDE DEF f
    <3>7. /\ worker'.seen = 1 /\ worker'.fact = f /\ worker'.job = d
          /\ worker'.kind = worker.kind
      BY <1>0, <3>1, <3>4 DEF Types, WorkerRecs
    <3>8. Root(d) # 0
      BY <1>0, <3>2 DEF Root, Linking, Deliveries
    <3>9. f \in {"open", "closed", "merged"} => 1 \in Ours /\ Done(d, "push")
      <4>1. prs[1].marker = Root(d) => 1 \in Ours BY <3>5, <3>8 DEF Ours
      <4>2. HeadOf(1) = d => Done(d, "push")
        BY <1>0, <3>5 DEF HeadOf, Remote
      <4>. QED BY <3>6, <4>1, <4>2
    <3>10. f \in {"closed", "merged"} => prs'[1].state = f
      BY <1>0, <3>6, <3>9
    <3>. QED BY ONLY <1>0, <2>3, <3>6, <3>7, <3>9, <3>10 DEF Read
  <2>4. CASE ~Find /\ ~ReadHead
    <3>1. worker'.pc \in {"idle", "due", "failed", "find", "admit"}
      <4>1. CASE Settle BY <1>0, <4>1, WorkerFields DEF Settle
      <4>2. CASE NothingDue \/ Crash \/ Withdraw \/ AdmissionFails \/ Refused \/ Failed
        BY <1>0, <4>2, WorkerFields DEF NothingDue, Crash, Withdraw, AdmissionFails, Refused, Failed
      <4>3. CASE \E d \in Deliveries, k \in Kinds : Pick(d, k)
        BY <1>0, <4>3 DEF Pick, Types, WorkerRecs
      <4>4. CASE ReadFails BY <1>0, <4>4, WorkerFields DEF ReadFails
      <4>5. CASE ChooseWrite BY <1>0, <4>5, WorkerFields DEF ChooseWrite
      <4>6. CASE UpdatePr BY <1>0, <4>6, WorkerFields DEF UpdatePr
      <4>7. CASE Confirm
        <5>1. Submit("close") \/ worker' = Idle BY <4>7 DEF Confirm
        <5>. QED BY <1>0, <5>1, WorkerFields
      <4>. QED BY <1>3, <2>4, <4>1, <4>2, <4>3, <4>4, <4>5, <4>6, <4>7 DEF Reads
    <3>. QED BY <1>2, <3>1
  <2>5. Find => worker'.pc \in {"head", "found", "failed"}
    <3>. HIDE DEF Reading
    <3>1. worker' = [worker EXCEPT !.pc = "found", !.seen = 1,
                                   !.fact = Reading(worker.job, worker.kind, 1)]
          => worker'.pc = "found"
      BY <1>0 DEF Types, WorkerRecs
    <3>. QED BY <1>0, <3>1, WorkerFields DEF Find
  <2>. QED BY <1>2, <2>1, <2>2, <2>3, <2>4, <2>5
<1>4. CASE Others BY <1>1, <1>4, OthersFoot
<1>5. CASE Begin BY <1>0, <1>2, <1>5, BeginFields
<1>6. CASE Send BY <1>0, <1>2, <1>6, WorkerFields DEF Send
<1>7. CASE SendFails BY <1>0, <1>2, <1>7, WorkerFields DEF SendFails
<1>8. CASE Timeout BY <1>0, <1>2, <1>8, WorkerFields DEF Timeout
<1>9. CASE Receipt BY <1>0, <1>2, <1>9, ReceiptFields
<1>10. CASE \E i \in wire : Apply(i) \/ Reject(i) BY <1>0, <1>1, <1>2, <1>10, ReplyWorker
<1>. QED BY Kinded, <1>3, <1>4, <1>5, <1>6, <1>7, <1>8, <1>9, <1>10

\* the attempt the worker has begun is the newest, and no answer is recorded yet
Begun ==
    /\ worker.attempt = Len(attempts) /\ worker.attempt # 0
    /\ attempts[worker.attempt].delivery = worker.job
    /\ attempts[worker.attempt].op = worker.op
    /\ attempts[worker.attempt].number = worker.number
    /\ attempts[worker.attempt].result = "none"
Chosen ==
    /\ worker.op # "none" /\ KindOf(worker.op) = worker.kind
    /\ worker.op = "create" => worker.number = 0

LEMMA WritesKept ==
    ASSUME DeliveryAssumption, IInv, Next
    PROVE  Writes'
<1>0. /\ Types /\ Linking /\ Remote /\ Picked /\ Read /\ Writes
  BY DEF IInv
<1>1. Writes <=> /\ worker.pc \in {"admit", "send", "await", "receipt"} => Chosen
                 /\ worker.pc \in {"send", "await", "receipt"} => Begun
  BY DEF Writes, Chosen, Begun
<1>2. SUFFICES /\ worker'.pc \in {"admit", "send", "await", "receipt"} => Chosen'
               /\ worker'.pc \in {"send", "await", "receipt"} => Begun'
  BY DEF Writes, Chosen, Begun
<1>3. CASE worker'.pc \notin {"admit", "send", "await", "receipt"} BY <1>3
<1>4. SameJob => (Chosen => Chosen') BY DEF SameJob, Chosen
<1>5. SameJob /\ attempts' = attempts => (Begun => Begun')
  BY DEF SameJob, Begun
<1>6. CASE worker' = worker /\ attempts' = attempts
  <2>1. SameJob /\ worker'.pc = worker.pc BY <1>6 DEF SameJob
  <2>. QED BY <1>0, <1>1, <1>4, <1>5, <1>6, <2>1
<1>7. CASE /\ SameJob /\ attempts' = attempts
           /\ worker.pc \in {"send", "await", "receipt"}
  BY <1>0, <1>1, <1>4, <1>5, <1>7
<1>8. CASE Reads
  <2>1. CASE ChooseWrite
    <3>1. worker.pc = "absent" /\ worker.kind = "publish" /\ worker.number = 0
      BY <1>0, <2>1 DEF ChooseWrite, At, Read
    <3>2. CASE Submit("create")
      <4>1. worker'.pc = "admit" /\ worker'.op = "create" /\ worker'.kind = "publish"
            /\ worker'.number = 0
        BY <1>0, <3>1, <3>2, WorkerFields
      <4>. QED BY <4>1 DEF Chosen, KindOf
    <3>3. CASE Submit("push")
      <4>1. worker'.pc = "admit" /\ worker'.op = "push" /\ worker'.kind = "publish"
        BY <1>0, <3>1, <3>3, WorkerFields
      <4>. QED BY <4>1 DEF Chosen, KindOf
    <3>4. CASE Fail("conflict") BY <1>0, <1>3, <3>4, WorkerFields
    <3>. QED BY <2>1, <3>2, <3>3, <3>4 DEF ChooseWrite
  <2>2. CASE UpdatePr
    <3>1. CASE worker.fact = "behind" /\ Submit("push")
      <4>1. worker.kind = "publish" BY <1>0, <2>2, <3>1 DEF UpdatePr, At, Read
      <4>2. worker'.pc = "admit" /\ worker'.op = "push" /\ worker'.kind = "publish"
        BY <1>0, <3>1, <4>1, WorkerFields
      <4>. QED BY <4>2 DEF Chosen, KindOf
    <3>2. CASE Fail("conflict") BY <1>0, <1>3, <3>2, WorkerFields
    <3>. QED BY <2>2, <3>1, <3>2 DEF UpdatePr
  <2>3. CASE Confirm
    <3>1. CASE worker.kind = "close" /\ Submit("close")
      <4>1. worker'.pc = "admit" /\ worker'.op = "close" /\ worker'.kind = "close"
        BY <1>0, <3>1, WorkerFields
      <4>. QED BY <4>1 DEF Chosen, KindOf
    <3>2. CASE worker' = Idle BY <1>0, <1>3, <3>2, WorkerFields
    <3>. QED BY <2>3, <3>1, <3>2 DEF Confirm
  <2>. QED BY <1>0, <1>3, <1>8, <2>1, <2>2, <2>3, ReadsWorker
<1>9. CASE Others BY <1>6, <1>9, OthersFoot
<1>10. CASE Begin
  <2>1. /\ worker.pc = "admit" /\ worker'.pc = "send" /\ worker'.attempt = Len(attempts) + 1
        /\ worker'.job = worker.job /\ worker'.kind = worker.kind
        /\ worker'.number = worker.number /\ worker'.op = worker.op
        /\ Len(attempts) \in Nat /\ Len(attempts') = Len(attempts) + 1
        /\ attempts'[Len(attempts) + 1].delivery = worker.job
        /\ attempts'[Len(attempts) + 1].op = worker.op
        /\ attempts'[Len(attempts) + 1].number = worker.number
        /\ attempts'[Len(attempts) + 1].result = "none"
    BY <1>0, <1>10, BeginFields
  <2>2. Begun' BY <2>1 DEF Begun
  <2>3. Chosen' BY <1>0, <1>1, <2>1 DEF Chosen
  <2>. QED BY <2>2, <2>3
<1>11. CASE Send
  <2>1. worker.pc = "send" /\ SameJob /\ attempts' = attempts
    BY <1>0, <1>11, WorkerFields DEF Send, At, ledger
  <2>. QED BY <1>7, <2>1
<1>12. CASE SendFails
  <2>1. worker.pc = "send" /\ SameJob /\ attempts' = attempts
    BY <1>0, <1>12, WorkerFields DEF SendFails, At, ledger
  <2>. QED BY <1>7, <2>1
<1>13. CASE Timeout
  <2>1. worker.pc = "await" /\ SameJob /\ attempts' = attempts
    BY <1>0, <1>13, WorkerFields DEF Timeout, At, ledger
  <2>. QED BY <1>7, <2>1
<1>14. CASE Receipt BY <1>0, <1>3, <1>14, ReceiptFields
<1>15. CASE \E i \in wire : Apply(i) \/ Reject(i)
  BY <1>0, <1>6, <1>7, <1>15, ReplyWorker
<1>. QED BY Kinded, <1>8, <1>9, <1>10, <1>11, <1>12, <1>13, <1>14, <1>15

----------------------------------------------------------------------------
(* The slot is given back with nothing under way. *)

\* an attempt that publishes belongs to a delivery that was enqueued
LEMMA AttemptEnqueued ==
    ASSUME DeliveryAssumption, Types, Linking, LedgerBounded,
           NEW i \in DOMAIN attempts, attempts[i].op # "close"
    PROVE  attempts[i].delivery \in Enqueued
<1>1. attempts[i] \in AttemptRecs BY DEF Types
<1>2. PICK d \in Deliveries : d = attempts[i].delivery BY <1>1 DEF AttemptRecs
<1>. SUFFICES ASSUME d \notin Enqueued PROVE FALSE BY <1>2
<1>3. action[d]["publish"].attempts = 0
  BY NewRows DEF Linking
<1>4. Cardinality(AttemptsOf(d, "publish")) = 0
  BY <1>3 DEF LedgerBounded, Kinds
<1>5. IsFiniteSet(AttemptsOf(d, "publish"))
  <2>1. Len(attempts) \in Int /\ DOMAIN attempts = 1..Len(attempts) BY DEF Types
  <2>2. IsFiniteSet(1..Len(attempts)) BY ONLY <2>1, FS_Interval
  <2>3. AttemptsOf(d, "publish") \subseteq 1..Len(attempts) BY <2>1 DEF AttemptsOf
  <2>. QED BY <2>2, <2>3, FS_Subset
<1>6. AttemptsOf(d, "publish") = {} BY <1>4, <1>5, FS_EmptySet
<1>7. i \in AttemptsOf(d, "publish") BY <1>2 DEF AttemptsOf, KindOf
<1>. QED BY <1>6, <1>7

\* a request that is under way, or is just about to be
Pressing(i) == i \in wire \/ (worker.pc = "send" /\ i = worker.attempt)

\* once an attempt of an operation is spent, no other one is under way
LEMMA DoneNotPressing ==
    ASSUME Types, Single, UnderWay, Writes, NEW d, NEW op, Done(d, op),
           NEW i \in DOMAIN attempts, Pressing(i)
    PROVE  ~(attempts[i].delivery = d /\ attempts[i].op = op)
<1>1. PICK j \in DOMAIN attempts :
         attempts[j].delivery = d /\ attempts[j].op = op /\ Spent(j)
  BY DEF Done
<1>2. attempts[i].result # "definite"
  BY DEF Pressing, Writes, UnderWay
<1>3. i # j /\ attempts[j].result # "definite" BY <1>1 DEF Spent, Pressing
<1>4. i \in Nat /\ j \in Nat BY <1>1 DEF Types
<1>5. i < j \/ j < i BY <1>3, <1>4
<1>. QED BY <1>1, <1>2, <1>3, <1>5 DEF Single

LEMMA NothingPublishes ==
    ASSUME DeliveryAssumption, IInv, NEW n \in Enqueued,
           \A e \in Enqueued : e <= n,
           Done(n, "push") \/ ~Tried(n, {"push"}),
           1 \in Ours \/ ~Tried(1, {"create"})
    PROVE  \A i \in DOMAIN attempts : Pressing(i) => attempts[i].op = "close"
<1>0. /\ Types /\ Chain /\ Linking /\ Decided /\ Single /\ Creates /\ UnderWay /\ Remote
      /\ Writes /\ LedgerBounded
  BY DEF IInv
<1>. SUFFICES ASSUME NEW i \in DOMAIN attempts, Pressing(i), attempts[i].op # "close"
              PROVE  FALSE
  OBVIOUS
<1>1. i \in DOMAIN attempts /\ attempts[i] \in AttemptRecs BY <1>0 DEF Types
<1>2. attempts[i].op = "push" \/ attempts[i].op = "create" BY <1>1 DEF AttemptRecs
<1>3. PICK d \in Deliveries : d = attempts[i].delivery BY <1>1 DEF AttemptRecs
<1>4. d \in Enqueued BY <1>0, <1>1, <1>3, AttemptEnqueued
<1>5. CASE attempts[i].op = "push"
  <2>1. d = n \/ d < n BY <1>3, <1>4 DEF Enqueued, Deliveries
  <2>2. d < n => Published(d) BY <1>0, <1>4, PublishedBefore
  <2>3. d < n => Done(d, "push") BY <1>0, <2>2 DEF Decided
  <2>4. Tried(d, {"push"}) BY <1>1, <1>3, <1>5 DEF Tried
  <2>5. Done(d, "push") BY <2>1, <2>3, <2>4
  <2>. QED BY <1>0, <1>3, <1>5, <2>5, DoneNotPressing
<1>6. CASE attempts[i].op = "create"
  <2>1. d = 1 BY <1>0, <1>1, <1>3, <1>6 DEF Creates
  <2>2. Tried(1, {"create"}) BY <1>1, <1>3, <1>6, <2>1 DEF Tried
  <2>3. Done(1, "create") BY <1>0, <2>2 DEF Remote
  <2>. QED BY <1>0, <1>3, <1>6, <2>1, <2>3, DoneNotPressing
<1>. QED BY <1>2, <1>5, <1>6

LEMMA NotOpen ==
    ASSUME Remote, 1 \in Ours, prs[1].state # "open"
    PROVE  OpenPrs \cap Ours = {}
BY DEF Remote, OpenPrs

LEMMA ReleasedFacts ==
    ASSUME DeliveryAssumption, IInv, Settles, NEW d \in Deliveries, delivery'[d].released
    PROVE  delivery[d].pr = 1 /\ prs[1].state = "merged" /\ Done(d, "push") /\ 1 \in Ours
<1>0. Types /\ Linking /\ Decided /\ Remote BY DEF IInv
<1>1. \/ delivery[d].released
      \/ delivery[d].pr \in mergedSeen /\ prs[delivery[d].pr].head = d
  BY <1>0, SettleAfter
<1>2. delivery[d].pr \in {0, 1} BY <1>0 DEF Linking, Deliveries
<1>3. 0 \notin DOMAIN prs BY <1>0 DEF Types
<1>4. delivery[d].pr = 1 /\ prs[1].state = "merged" /\ Done(d, "push")
  BY <1>0, <1>1, <1>2, <1>3 DEF Decided, Remote
<1>. QED BY <1>0, <1>4 DEF Remote

\* what settle accounts for
LEMMA AccountedFacts ==
    ASSUME DeliveryAssumption, IInv, Next, Settles, NEW d \in Enqueued,
           Accounted(d, delivery', action'), delivery[d].superseded = 0
    PROVE  \/ prs[1].state # "open" /\ 1 \in Ours /\ Done(d, "push")
           \/ /\ ~Published(d) /\ ~Tried(d, {"create"})
              /\ Done(d, "push") \/ ~Tried(d, {"push"})
<1>0. Types /\ Linking /\ Decided /\ Remote /\ d \in Deliveries BY DEF IInv, Enqueued
<1>1. delivery'[d].superseded = 0 BY <1>0, SettleAfter
<1>2. ~Confirm /\ ~Withdraw BY <1>0, SettlesApart
<1>3. CASE delivery'[d].released BY <1>0, <1>3, ReleasedFacts
<1>4. CASE action'[d]["close"].state = "confirmed"
  <2>1. action[d]["close"].state = "confirmed"
    BY <1>0, <1>2, <1>4, RowsMove DEF RowMoves
  <2>2. Published(d) /\ prs[1].state # "open" BY <1>0, <2>1 DEF Decided
  <2>3. delivery[d].pr = 1 /\ Done(d, "push") BY <1>0, <2>2 DEF Decided
  <2>. QED BY <1>0, <2>2, <2>3 DEF Remote
<1>5. CASE action'[d]["publish"].state = "withdrawn"
  <2>1. Withdrawn(d) \/ Revocable(d)
    BY <1>0, <1>2, <1>5, RowsMove DEF RowMoves, Withdrawn
  <2>2. CASE Withdrawn(d)
    <3>1. ~Published(d) BY <2>2 DEF Withdrawn, Published
    <3>. QED BY <1>0, <2>2, <3>1 DEF Decided
  <2>3. CASE Revocable(d)
    <3>1. Untouched(d) BY <2>3 DEF Revocable
    <3>2. ~Tried(d, {"create"}) /\ ~Tried(d, {"push"}) BY <3>1 DEF Untouched, Tried
    <3>3. ~Published(d) BY <1>0, <2>3, NotRevocable
    <3>. QED BY <3>2, <3>3
  <2>. QED BY <2>1, <2>2, <2>3
<1>. QED BY <1>1, <1>3, <1>4, <1>5 DEF Accounted

LEMMA ReleaseIsQuiet ==
    ASSUME DeliveryAssumption, IInv, Next, Settles, slot, ~slot'
    PROVE  /\ \A i \in DOMAIN attempts : Pressing(i) => attempts[i].op = "close"
           /\ OpenPrs \cap Ours = {}
           /\ \/ ~cancelled /\ 1 \in Ours /\ prs[1].state = "merged"
              \/ cancelled
<1>0. /\ Types /\ Chain /\ Linking /\ Phases /\ Decided /\ Single /\ Creates /\ UnderWay
      /\ Remote /\ LedgerBounded /\ Last \in Nat
  BY DeliveryAssumption DEF IInv
<1>1. PICK n \in 0..Last : Enqueued = 1..n BY <1>0 DEF Chain
<1>2. /\ ~(cancelled /\ ~cleanup')
      /\ ~cancelled => work = "done" /\ Enqueued # {} /\ \A d \in Current : delivery'[d].released
      /\ cleanup' = \/ cleanup
                    \/ /\ cancelled /\ work # "coding"
                       /\ \A d \in Enqueued : Accounted(d, delivery', action')
  BY <1>0 DEF Settles, Settle, CoordinatorSettle, SettleRows, Types
<1>3. ~cleanup BY <1>0 DEF Phases
<1>4. n # 0 =>
         /\ n \in Enqueued /\ n \in Deliveries /\ \A e \in Enqueued : e <= n
         /\ delivery[n].superseded = 0
  <2>. SUFFICES ASSUME n # 0
                PROVE  /\ n \in Enqueued /\ n \in Deliveries /\ \A e \in Enqueued : e <= n
                       /\ delivery[n].superseded = 0
    OBVIOUS
  <2>1. n \in Enqueued /\ n \in Deliveries /\ \A e \in Enqueued : e <= n
    BY <1>0, <1>1 DEF Deliveries
  <2>2. n + 1 \notin Enqueued BY <1>1
  <2>3. n < Last => n + 1 \in Deliveries BY <1>0, <1>1 DEF Deliveries
  <2>4. n < Last => ~Published(n + 1) BY <2>2, <2>3 DEF Enqueued, Published
  <2>. QED BY <1>0, <2>1, <2>4 DEF Linking
<1>5. CASE ~cancelled
  <2>1. n # 0 BY <1>1, <1>2, <1>5
  <2>2. delivery'[n].released BY <1>2, <1>4, <1>5, <2>1 DEF Current
  <2>3. prs[1].state = "merged" /\ Done(n, "push") /\ 1 \in Ours
    BY <1>4, <2>1, <2>2, ReleasedFacts
  <2>4. \A i \in DOMAIN attempts : Pressing(i) => attempts[i].op = "close"
    BY <1>4, <2>1, <2>3, NothingPublishes
  <2>5. OpenPrs \cap Ours = {} BY <1>0, <2>3, NotOpen
  <2>. QED BY <1>5, <2>3, <2>4, <2>5
<1>6. CASE cancelled
  <2>1. \A d \in Enqueued : Accounted(d, delivery', action') BY <1>2, <1>3, <1>6
  <2>2. CASE n = 0
    <3>1. Enqueued = {} BY <1>1, <2>2
    <3>2. \A i \in DOMAIN attempts : attempts[i].op = "close"
      BY <1>0, <3>1, AttemptEnqueued
    <3>3. Ours = {}
      <4>1. Done(1, "create") => FALSE BY <3>2 DEF Done
      <4>. QED BY <1>0, <4>1 DEF Remote
    <3>. QED BY <1>0, <1>6, <3>2, <3>3 DEF Types
  <2>3. CASE n # 0
    <3>1. \/ prs[1].state # "open" /\ 1 \in Ours /\ Done(n, "push")
          \/ /\ ~Published(n) /\ ~Tried(n, {"create"})
             /\ Done(n, "push") \/ ~Tried(n, {"push"})
      BY <1>4, <2>1, <2>3, AccountedFacts
    <3>2. CASE prs[1].state # "open" /\ 1 \in Ours /\ Done(n, "push")
      <4>1. \A i \in DOMAIN attempts : Pressing(i) => attempts[i].op = "close"
        BY <1>4, <2>3, <3>2, NothingPublishes
      <4>2. OpenPrs \cap Ours = {} BY <1>0, <3>2, NotOpen
      <4>. QED BY <1>6, <4>1, <4>2
    <3>3. CASE /\ ~Published(n) /\ ~Tried(n, {"create"})
               /\ Done(n, "push") \/ ~Tried(n, {"push"})
      <4>1. CASE n = 1
        <5>1. Ours = {}
          <6>1. Done(1, "create") => FALSE BY <3>3, <4>1, DoneTried
          <6>. QED BY <1>0, <6>1 DEF Remote
        <5>2. \A i \in DOMAIN attempts : Pressing(i) => attempts[i].op = "close"
          BY <1>4, <2>3, <3>3, <4>1, NothingPublishes
        <5>. QED BY <1>6, <5>1, <5>2
      <4>2. CASE n # 1
        <5>1. n - 1 \in Enqueued /\ n - 1 \in Deliveries /\ n - 1 < n /\ (n - 1) + 1 = n
          BY <1>0, <1>1, <2>3, <4>2 DEF Deliveries
        <5>2. Published(n - 1) BY <1>0, <1>4, <2>3, <5>1, PublishedBefore
        <5>3. delivery[n - 1].superseded = 0
          BY <1>0, <3>3, <5>1 DEF Linking
        <5>4. prs[1].state # "open" /\ 1 \in Ours
          BY <2>1, <5>1, <5>2, <5>3, AccountedFacts
        <5>5. \A i \in DOMAIN attempts : Pressing(i) => attempts[i].op = "close"
          BY <1>4, <2>3, <3>3, <5>4, NothingPublishes
        <5>6. OpenPrs \cap Ours = {} BY <1>0, <5>4, NotOpen
        <5>. QED BY <1>6, <5>5, <5>6
      <4>. QED BY <4>1, <4>2
    <3>. QED BY <3>1, <3>2, <3>3
  <2>. QED BY <2>2, <2>3
<1>. QED BY <1>5, <1>6

LEMMA QuietKept ==
    ASSUME DeliveryAssumption, IInv, Next
    PROVE  Quiet'
<1>0. Types /\ Quiet /\ Writes /\ Remote BY DEF IInv
<1>. SUFFICES ASSUME ~slot'
              PROVE  /\ worker'.pc = "send" => worker'.op = "close"
                     /\ \A i \in wire' : attempts'[i].op = "close"
                     /\ \A m \in DOMAIN prs' : prs'[m].state = "open" => prs'[m].marker = 0
  BY DEF Quiet, OpenPrs, Ours
<1>1. (OpenPrs \cap Ours = {}) <=> \A m \in DOMAIN prs : prs[m].state = "open" => prs[m].marker = 0
  BY DEF OpenPrs, Ours
<1>2. CASE slot
  <2>1. Settles BY <1>2, RequirementMoves
  <2>2. /\ \A i \in DOMAIN attempts : Pressing(i) => attempts[i].op = "close"
        /\ OpenPrs \cap Ours = {}
    BY <1>2, <2>1, ReleaseIsQuiet
  <2>3. wire' = wire /\ attempts' = attempts /\ prs' = prs
    BY <2>1 DEF Settles, Settle, CoordinatorSettle, SettleRows, github
  <2>4. worker'.pc = "due" \/ worker' = worker
    BY <1>0, <2>1, WorkerFields DEF Settles, Settle, CoordinatorSettle
  <2>5. worker.pc = "send" => worker.op = "close"
    <3>1. worker.pc = "send" => /\ worker.attempt \in DOMAIN attempts
                               /\ attempts[worker.attempt].op = worker.op
      BY <1>0 DEF Writes, Types, WorkerRecs
    <3>. QED BY <2>2, <3>1 DEF Pressing
  <2>6. \A i \in wire : attempts[i].op = "close" BY <1>0, <2>2 DEF Pressing, Types
  <2>. QED BY <1>1, <2>2, <2>3, <2>4, <2>5, <2>6
<1>3. CASE ~slot
  <2>1. /\ worker.pc = "send" => worker.op = "close"
        /\ \A i \in wire : attempts[i].op = "close"
        /\ \A m \in DOMAIN prs : prs[m].state = "open" => prs[m].marker = 0
    BY <1>0, <1>1, <1>3 DEF Quiet
  <2>2. ~Begin BY <1>3 DEF Begin, Allowed
  <2>3. Send => attempts[worker.attempt].op = "close" /\ wire' \subseteq wire \cup {worker.attempt}
    BY <1>0, <2>1 DEF Send, At, Writes
  <2>4. worker'.pc = "send" => worker' = worker
    <3>1. CASE Reads BY <1>0, <3>1, ReadsWorker
    <3>2. CASE Others BY <3>2, OthersFoot
    <3>3. CASE SendFails BY <1>0, <3>3, WorkerFields DEF SendFails
    <3>4. CASE Timeout BY <1>0, <3>4, WorkerFields DEF Timeout
    <3>5. CASE Receipt BY <1>0, <3>5, ReceiptFields
    <3>6. CASE \E i \in wire : Apply(i) \/ Reject(i) BY <1>0, <3>6, ReplyWorker
    <3>7. CASE Send BY <1>0, <3>7, WorkerFields DEF Send
    <3>. QED BY Kinded, <2>2, <3>1, <3>2, <3>3, <3>4, <3>5, <3>6, <3>7
  <2>5. wire' \subseteq wire \/ (Send /\ wire' \subseteq wire \cup {worker.attempt})
    <3>1. \A i \in wire : Apply(i) \/ Reject(i) => wire' \subseteq wire
      BY <1>0, ReplyWorker
    <3>2. CASE SendFails \/ Timeout \/ Receipt
      BY <3>2 DEF SendFails, Timeout, Receipt, github
    <3>. QED BY Kinded, ReadsFoot, OthersFoot, <2>2, <2>3, <3>1, <3>2
  <2>6. \A i \in wire' : attempts'[i].op = "close"
    <3>1. wire \subseteq DOMAIN attempts BY <1>0 DEF Types
    <3>2. Send => worker.attempt \in DOMAIN attempts
      BY <1>0 DEF Send, At, Writes, Types, WorkerRecs
    <3>. QED BY <2>1, <2>2, <2>3, <2>5, <3>1, <3>2, CallsAfter
  <2>7. \A m \in DOMAIN prs' : prs'[m].state = "open" => prs'[m].marker = 0
    <3>1. ~RemoteCreated BY <1>3 DEF RemoteCreated
    <3>2. \A m \in DOMAIN prs : PrStays(m) BY PrsAfter
    <3>3. \A m \in DOMAIN prs' : m \in DOMAIN prs \/ prs'[m].marker = 0
      BY <3>1, PrsAfter
    <3>4. \A m \in DOMAIN prs : prs'[m].state = "open" => prs[m].state = "open"
      BY <3>2 DEF PrStays
    <3>. QED BY <2>1, <3>2, <3>3, <3>4 DEF PrStays
  <2>. QED BY <2>1, <2>4, <2>6, <2>7
<1>. QED BY <1>2, <1>3

----------------------------------------------------------------------------
(* The inductive invariant. *)

LEMMA InitInv ==
    ASSUME DeliveryAssumption, Init
    PROVE  IInv
<1>1. /\ case \in Cases /\ case.limit \in Nat /\ Last \in Nat \ {0}
      /\ case.faults \in Nat /\ case.commands \in Nat /\ case.people \in Nat
  BY CaseNumbers DEF Init
<1>2. /\ \A d \in Deliveries : /\ delivery[d].original = 0 /\ delivery[d].expected = 0
                              /\ delivery[d].pr = 0 /\ delivery[d].superseded = 0
                              /\ delivery[d].released = FALSE
      /\ \A d \in Deliveries, k \in Kinds : action[d][k] = NoAction
      /\ attempts = <<>> /\ DOMAIN attempts = {} /\ prs = <<>> /\ DOMAIN prs = {}
      /\ wire = {} /\ branch = 0 /\ mergedSeen = {} /\ worker.pc = "idle"
      /\ ~cancelled /\ slot /\ ~cleanup /\ reqState = "Running" /\ work = "candidate"
  BY DEF Init, Idle
<1>3. NoAction.state = "none" /\ NoAction.attempts = 0 /\ NoAction.limit = case.limit
      /\ NoAction \in RowRecs
  BY <1>1 DEF NoAction, RowRecs, PublishStates
<1>4. Enqueued = {} BY <1>2, <1>3 DEF Enqueued, Kinds
<1>5. Types
  <2>1. worker \in WorkerRecs BY IdleTyped DEF Init
  <2>2. action \in [Deliveries -> [Kinds -> RowRecs]] BY <1>3 DEF Init
  <2>3. delivery \in [Deliveries -> DeliveryRecs]
    BY <1>1 DEF Init, DeliveryRecs
  <2>4. branch \in Heads BY <1>1, <1>2 DEF Heads, Foreign
  <2>5. attempts \in Seq(AttemptRecs) /\ prs \in Seq(PrRecs) BY <1>2
  <2>6. /\ reqState \in {"Running", "Submitted", "Cancelled"}
        /\ cancelled \in BOOLEAN /\ paused \in BOOLEAN /\ cleanup \in BOOLEAN /\ slot \in BOOLEAN
        /\ work \in {"coding", "candidate", "done"}
        /\ barrier \in BOOLEAN /\ authorized \in BOOLEAN
    BY DEF Init
  <2>7. mergedSeen \subseteq Nat /\ wire \subseteq DOMAIN attempts
    BY <1>2
  <2>8. /\ faults \in 0..case.faults /\ commands \in 0..case.commands
        /\ people \in 0..case.people
    <3>1. faults = 0 /\ commands = 0 /\ people = 0 BY DEF Init
    <3>. QED BY ONLY <1>1, <3>1
  <2>. QED BY <1>1, <2>1, <2>2, <2>3, <2>4, <2>5, <2>6, <2>7, <2>8 DEF Types
<1>6. Chain
  <2>1. 1..0 = {} /\ 0 \in 0..Last BY <1>1
  <2>. QED BY <1>4, <2>1 DEF Chain
<1>7. \A d \in Deliveries : ~Published(d) /\ ~Withdrawn(d)
  BY <1>2, <1>3 DEF Published, Withdrawn, Kinds
<1>8. Linking
  <2>1. \A d \in Deliveries : d < Last => d + 1 \in Deliveries BY <1>1 DEF Deliveries
  <2>2. \A d \in Deliveries : action[d]["publish"] = NoAction /\ action[d]["close"] = NoAction
    BY <1>2 DEF Kinds
  <2>. QED BY ONLY <1>2, <1>4, <1>7, <2>1, <2>2 DEF Linking
<1>9. Phases BY <1>2, <1>4 DEF Phases
<1>10. Decided
  <2>1. \A d \in Deliveries : action[d]["close"].state = "none" BY <1>2, <1>3 DEF Kinds
  <2>. QED BY <1>2, <1>7, <2>1 DEF Decided
<1>11. Single /\ Creates /\ UnderWay
  BY <1>2 DEF Single, Creates, UnderWay
<1>12. Ours = {} /\ OpenPrs = {} BY <1>2 DEF Ours, OpenPrs
<1>13. Remote
  <2>1. 0 \notin Deliveries BY DEF Deliveries
  <2>. QED BY <1>2, <1>12, <2>1 DEF Remote
<1>14. Picked /\ Read /\ Writes /\ Quiet
  BY <1>2 DEF Picked, Busy, Read, Writes, Quiet
<1>15. LedgerBounded
  <2>1. \A d \in Deliveries, k \in Kinds : AttemptsOf(d, k) = {}
    BY <1>2 DEF AttemptsOf
  <2>2. Cardinality({}) = 0 BY FS_EmptySet
  <2>3. \A d \in Deliveries, k \in Kinds :
           action[d][k].attempts = 0 /\ action[d][k].limit = case.limit
    <3>. HIDE DEF NoAction
    <3>. QED BY <1>2, <1>3
  <2>4. ASSUME NEW d \in Deliveries, NEW k \in Kinds
        PROVE  /\ Cardinality(AttemptsOf(d, k)) = action[d][k].attempts
               /\ action[d][k].attempts <= action[d][k].limit
    <3>1. AttemptsOf(d, k) = {} BY <2>1
    <3>2. Cardinality(AttemptsOf(d, k)) = 0 BY ONLY <3>1, <2>2
    <3>. QED BY <1>1, <2>3, <3>2
  <2>. QED BY ONLY <2>4 DEF LedgerBounded
<1>. QED
  BY <1>5, <1>6, <1>8, <1>9, <1>10, <1>11, <1>13, <1>14, <1>15 DEF IInv

LEMMA StutterInv ==
    ASSUME IInv, UNCHANGED vars
    PROVE  IInv'
<1>1. /\ reqState' = reqState /\ cancelled' = cancelled /\ paused' = paused
      /\ cleanup' = cleanup /\ slot' = slot /\ work' = work
      /\ barrier' = barrier /\ authorized' = authorized
      /\ delivery' = delivery /\ action' = action /\ attempts' = attempts
      /\ worker' = worker /\ mergedSeen' = mergedSeen
      /\ branch' = branch /\ prs' = prs /\ wire' = wire
      /\ faults' = faults /\ commands' = commands /\ people' = people /\ case' = case
  BY DEF vars, moving, requirement, gates, ledger, github, bounds
<1>2. Enqueued' = Enqueued /\ Ours' = Ours /\ OpenPrs' = OpenPrs /\ NoAction' = NoAction
  BY <1>1 DEF Enqueued, Ours, OpenPrs, NoAction
<1>3. Types' BY <1>1 DEF IInv, Types
<1>4. Chain' BY <1>2 DEF IInv, Chain
<1>5. Linking' BY <1>1, <1>2 DEF IInv, Linking, Published
<1>6. Phases' BY <1>1, <1>2 DEF IInv, Phases, Published
<1>7. Decided' BY <1>1 DEF IInv, Decided, Published, Withdrawn, Done, Spent, Tried
<1>8. Single' /\ Creates' /\ UnderWay' BY <1>1 DEF IInv, Single, Creates, UnderWay
<1>9. Remote' BY <1>1, <1>2 DEF IInv, Remote, Done, Spent
<1>10. Picked'
  <2>1. \A d \in Enqueued : Workable(d)' = Workable(d)
    BY <1>1 DEF Workable, Withdrawn, Untouched
  <2>. QED BY <1>1, <1>2, <2>1 DEF IInv, Picked, Busy
<1>11. Read' BY <1>1, <1>2 DEF IInv, Read, Done, Spent
<1>12. Writes' /\ Quiet' BY <1>1, <1>2 DEF IInv, Writes, Quiet
<1>13. LedgerBounded' BY <1>1 DEF IInv, LedgerBounded, AttemptsOf
<1>. QED
  BY <1>3, <1>4, <1>5, <1>6, <1>7, <1>8, <1>9, <1>10, <1>11, <1>12, <1>13 DEF IInv

\* The inductive invariant holds in every reachable state: the chain of
\* deliveries, what a decided row knows of GitHub, one open attempt for each
\* delivery and operation, the slot that covers the requests under way.
THEOREM Inductive == Spec => []IInv
<1>1. Init => IInv BY InitInv, DeliveryAssumption
<1>2. IInv /\ [Next]_vars => IInv'
  <2>1. ASSUME IInv, Next PROVE IInv'
    BY <2>1, DeliveryAssumption, TypesKept, ChainKept, LinkingKept, PhasesKept, DecidedKept,
       SingleKept, UnderWayKept, RemoteKept, PickedKept, ReadKept, WritesKept, QuietKept,
       LedgerKept DEF IInv
  <2>. QED BY <2>1, StutterInv
<1>. QED BY <1>1, <1>2, PTL DEF Spec

----------------------------------------------------------------------------
(* The properties. *)

LEMMA RootOfLinked ==
    ASSUME DeliveryAssumption, Types, Linking, NEW d \in Deliveries, delivery[d].pr = 1
    PROVE  Root(d) = 1
<1>1. d \in Enqueued BY DEF Linking
<1>. QED BY <1>1 DEF Linking, Root, Deliveries

\* Retries, lost answers and crashes never open a second pull request, send more
\* requests than the limit allows, or close what is not the platform's.
THEOREM PublishedOnce == Spec => []PublishesOnce
<1>1. IInv => PublishesOnce
  <2>. SUFFICES ASSUME IInv PROVE PublishesOnce OBVIOUS
  <2>0. /\ Types /\ Linking /\ UnderWay /\ Remote /\ LedgerBounded BY DEF IInv
  <2>1. TypeOK BY <2>0, TypesDeclared
  <2>2. OnePullRequest
    <3>1. CASE Ours = {}
      <4>1. Cardinality({}) = 0 BY FS_EmptySet
      <4>. QED BY ONLY <3>1, <4>1 DEF OnePullRequest
    <3>2. CASE Ours # {}
      <4>1. PICK m \in Ours : TRUE BY <3>2
      <4>2. Ours = {m} BY <2>0, <4>1 DEF Remote
      <4>3. Cardinality({m}) = 1 BY FS_Singleton
      <4>. QED BY ONLY <4>2, <4>3 DEF OnePullRequest
    <3>. QED BY <3>1, <3>2
  <2>3. ClosesOnlyOwn
    <3>. SUFFICES ASSUME NEW i \in wire, attempts[i].op = "close"
                  PROVE  /\ cancelled /\ attempts[i].number \in Ours
                         /\ prs[attempts[i].number].marker = Root(attempts[i].delivery)
      BY DEF ClosesOnlyOwn
    <3>1. attempts[i] \in AttemptRecs BY <2>0 DEF Types
    <3>2. PICK d \in Deliveries : d = attempts[i].delivery BY <3>1 DEF AttemptRecs
    <3>3. cancelled /\ attempts[i].number = 1 /\ delivery[d].pr = 1
      BY <2>0, <3>2 DEF UnderWay
    <3>4. 1 \in Ours BY <2>0, <3>3 DEF Remote
    <3>5. prs[1].marker = 1 BY <2>0, <3>4 DEF Remote, Ours
    <3>6. Root(d) = 1 BY <2>0, <3>3, RootOfLinked, DeliveryAssumption
    <3>. QED BY <3>2, <3>3, <3>4, <3>5, <3>6
  <2>. QED BY <2>0, <2>1, <2>2, <2>3 DEF PublishesOnce
<1>. QED BY <1>1, Inductive, PTL

\* The slot is given back only when nothing that publishes can still arrive, a
\* cancelled Requirement leaves nothing open, and Submitted means that the newest
\* candidate is published and has superseded all others.
THEOREM SlotHeld == Spec => []SlotIsHeld
<1>1. IInv => SlotIsHeld
  <2>. SUFFICES ASSUME IInv PROVE SlotIsHeld OBVIOUS
  <2>0. /\ Types /\ Chain /\ Linking /\ Phases /\ Decided /\ Quiet /\ Last \in Nat
    BY DeliveryAssumption DEF IInv
  <2>1. SlotCoversWrites BY <2>0 DEF Quiet, SlotCoversWrites
  <2>2. NothingLeftOpen BY <2>0 DEF Quiet, NothingLeftOpen
  <2>3. SubmittedIsCurrent
    <3>. SUFFICES ASSUME reqState = "Submitted"
                  PROVE  \E d \in Current :
                            /\ action[d]["publish"].state = "confirmed" /\ delivery[d].pr # 0
                            /\ \A e \in Enqueued : e # d => delivery[e].superseded # 0
      BY DEF SubmittedIsCurrent
    <3>1. Enqueued # {} /\ \A d \in Enqueued : Published(d) BY <2>0 DEF Phases
    <3>2. PICK n \in 0..Last : Enqueued = 1..n BY <2>0 DEF Chain
    <3>3. n # 0 /\ n \in Enqueued /\ n \in Deliveries /\ n + 1 \notin Enqueued
      BY <2>0, <3>1, <3>2 DEF Deliveries
    <3>4. n < Last => n + 1 \in Deliveries BY <2>0, <3>2 DEF Deliveries
    <3>5. n < Last => ~Published(n + 1) BY <3>3, <3>4 DEF Enqueued, Published
    <3>6. delivery[n].superseded = 0 BY <2>0, <3>3, <3>5 DEF Linking
    <3>7. delivery[n].pr = 1 BY <2>0, <3>1, <3>3 DEF Decided
    <3>8. ASSUME NEW e \in Enqueued, e # n PROVE delivery[e].superseded # 0
      <4>1. e \in Deliveries /\ e < Last /\ e + 1 \in Enqueued /\ e + 1 # 0
        BY <2>0, <3>2, <3>8 DEF Deliveries
      <4>2. Published(e + 1) BY <3>1, <4>1
      <4>. QED BY <2>0, <4>1, <4>2 DEF Linking
    <3>9. n \in Current BY <3>3, <3>6 DEF Current
    <3>. QED BY <3>1, <3>3, <3>7, <3>8, <3>9 DEF Published
  <2>. QED BY <2>1, <2>2, <2>3 DEF SlotIsHeld
<1>. QED BY <1>1, Inductive, PTL

\* Whatever the worker still does with a row, a confirmed publication stays
\* confirmed, and one that was taken back is opened again by nothing but a read
\* that failed after the coordinator's settlement, for an action of a cancelled
\* Requirement that nothing was ever sent for.
THEOREM DecisionsKept == Spec => DecisionsStand
<1>. DEFINE Stands(d) ==
               LET before == action[d]["publish"].state
                   after  == action'[d]["publish"].state
               IN  /\ before = "confirmed" => after = "confirmed"
                   /\ before = "withdrawn" =>
                         \/ after = "withdrawn"
                         \/ cancelled /\ Untouched(d) /\ after \in {"unknown", "blocked"}
<1>1. IInv /\ [Next]_vars => \/ UNCHANGED vars
                            \/ \A d \in Deliveries : Stands(d)
  <2>. SUFFICES ASSUME IInv, Next, NEW d \in Deliveries PROVE Stands(d)
    OBVIOUS
  <2>1. RowMoves(d) BY RowsMove, DeliveryAssumption
  <2>2. Withdrawn(d) => cancelled BY DEF IInv, Decided
  <2>. QED BY <2>1, <2>2 DEF RowMoves, Published, Withdrawn
<1>. QED BY <1>1, Inductive, PTL DEF Spec, DecisionsStand

----------------------------------------------------------------------------
(* The outbox implements the promise. *)

\* the state of the platform's pull request
Shown == IF Ours = {} THEN "absent" ELSE prs[CHOOSE n \in Ours : TRUE].state

LEMMA ShownIs ==
    ASSUME Remote
    PROVE  /\ Ours = {} => Shown = "absent"
           /\ \A m \in Ours : Shown = prs[m].state
<1>1. ASSUME NEW m \in Ours PROVE (CHOOSE n \in Ours : TRUE) = m
  <2>1. (CHOOSE n \in Ours : TRUE) \in Ours BY Zenon
  <2>. QED BY <2>1 DEF Remote
<1>. QED BY <1>1 DEF Shown

LEMMA ShownAfter ==
    ASSUME DeliveryAssumption, IInv, Next
    PROVE  /\ Ours' = {} => Shown' = "absent"
           /\ \A m \in Ours' : Shown' = prs'[m].state
<1>1. ASSUME NEW m \in Ours' PROVE (CHOOSE n \in Ours' : TRUE) = m
  <2>1. (CHOOSE n \in Ours' : TRUE) \in Ours' BY Zenon
  <2>. QED BY <2>1, OursStay
<1>. QED BY <1>1 DEF Shown

LEMMA RequirementOrRemote ==
    ASSUME Next
    PROVE  prs' = prs \/ (cancelled' = cancelled /\ slot' = slot)
<1>1. PersonActs => cancelled' = cancelled /\ slot' = slot
  BY DEF PersonActs, requirement
<1>. QED BY <1>1, Kinded, ReadsFoot, OthersFoot, CallsFoot DEF requirement

LEMMA PromiseStep ==
    ASSUME DeliveryAssumption, IInv, Next
    PROVE  \/ Shown' = Shown /\ cancelled' = cancelled /\ slot' = slot
           \/ /\ Shown = "absent" /\ slot /\ Shown' = "open"
              /\ cancelled' = cancelled /\ slot' = slot
           \/ /\ Shown = "open" /\ Shown' \in {"closed", "merged"}
              /\ cancelled' = cancelled /\ slot' = slot
           \/ cancelled' = TRUE /\ Shown' = Shown /\ slot' = slot
           \/ /\ slot /\ slot' = FALSE
              /\ Shown = "merged" \/ (cancelled /\ Shown # "open")
              /\ Shown' = Shown /\ cancelled' = cancelled
<1>0. Types /\ Remote /\ slot \in BOOLEAN BY DEF IInv, Types
<1>1. CASE prs' = prs
  <2>1. Shown' = Shown BY <1>1 DEF Shown, Ours
  <2>2. CASE Settles
    <3>1. cancelled' = cancelled /\ slot' \in BOOLEAN /\ (slot' => slot)
      BY <1>0, <2>2 DEF Settles, Settle, CoordinatorSettle, SettleRows
    <3>2. slot' \in BOOLEAN /\ (slot' => slot) BY <3>1
    <3>3. CASE slot /\ ~slot'
      <4>1. /\ OpenPrs \cap Ours = {}
            /\ \/ 1 \in Ours /\ prs[1].state = "merged"
               \/ cancelled
        BY <2>2, <3>3, ReleaseIsQuiet
      <4>2. Shown # "open"
        <5>1. \A m \in Ours : prs[m].state # "open" BY <4>1 DEF OpenPrs, Ours
        <5>. QED BY <1>0, <5>1, ShownIs
      <4>. QED BY <1>0, <2>1, <3>1, <3>2, <3>3, <4>1, <4>2, ShownIs
    <3>4. CASE slot' = slot BY <2>1, <3>1, <3>4
    <3>5. slot' = slot \/ (slot /\ ~slot')
      <4>. HIDE DEF Shown
      <4>. QED BY ONLY <1>0, <3>2
    <3>. QED BY <3>3, <3>4, <3>5
  <2>3. CASE ~Settles BY <2>1, <2>3, RequirementMoves
  <2>. QED BY <2>2, <2>3
<1>2. CASE prs' # prs
  <2>1. cancelled' = cancelled /\ slot' = slot BY <1>2, RequirementOrRemote
  <2>2. CASE RemoteCreated
    <3>1. Ours = {} /\ slot BY <2>2 DEF RemoteCreated
    <3>2. PICK m \in DOMAIN prs' : prs'[m].state = "open" /\ prs'[m].marker = 1
      <4>1. Len(prs) + 1 \in DOMAIN prs' /\ prs'[Len(prs) + 1] = NewPr(1)
        BY <1>0, <2>2 DEF RemoteCreated, Types
      <4>. HIDE DEF NewPr
      <4>. QED BY <4>1, NewPrTyped
    <3>3. m \in Ours' BY <3>2 DEF Ours
    <3>. QED BY <1>0, <2>1, <3>1, <3>2, <3>3, ShownIs, ShownAfter
  <2>3. CASE ~RemoteCreated
    <3>1. Ours' = Ours BY <2>3, OursStay
    <3>2. CASE Ours = {} BY <1>0, <2>1, <3>1, <3>2, ShownIs, ShownAfter
    <3>3. CASE Ours # {}
      <4>1. PICK m \in Ours : TRUE BY <3>3
      <4>2. Shown = prs[m].state /\ Shown' = prs'[m].state
        BY <1>0, <3>1, <4>1, ShownIs, ShownAfter
      <4>3. /\ m \in DOMAIN prs /\ prs[m].state \in {"open", "closed", "merged"}
            /\ m \in DOMAIN prs' /\ prs' \in Seq(PrRecs)
        BY <1>0, <4>1, PrFacts, PrsAfter DEF Ours, PrStays
      <4>4. prs'[m].state \in {"open", "closed", "merged"}
        <5>1. prs'[m] \in PrRecs BY <4>3
        <5>. QED BY <5>1 DEF PrRecs
      <4>5. prs[m].state # "open" => prs'[m].state = prs[m].state
        BY <4>3, PrsAfter DEF PrStays
      <4>. QED BY <2>1, <4>2, <4>3, <4>4, <4>5
    <3>. QED BY <3>2, <3>3
  <2>. QED BY <2>2, <2>3
<1>. QED BY <1>1, <1>2

\* The outbox does what the promise says: one pull request is opened while the
\* slot is held, it ends once, and the slot is given back only when it is merged
\* or, after a cancellation, not open.
THEOREM PromiseImplemented == Spec => ImplementsPromise
<1>1. Init => Promise!Init
  <2>1. Init => Ours = {} BY DEF Init, Ours
  <2>. QED BY <2>1 DEF Init, Promise!Init
<1>2. IInv /\ [Next]_vars => [Promise!Next]_Promise!vars
  <2>1. ASSUME IInv, Next PROVE [Promise!Next]_Promise!vars
    BY <2>1, PromiseStep, DeliveryAssumption
       DEF Shown, Promise!Next, Promise!Open, Promise!End, Promise!Cancel, Promise!Release,
           Promise!vars
  <2>2. ASSUME UNCHANGED vars PROVE UNCHANGED Promise!vars
    BY <2>2 DEF vars, moving, requirement, github, Promise!vars, Ours
  <2>. QED BY <2>1, <2>2
<1>. QED BY <1>1, <1>2, Inductive, PTL DEF Spec, ImplementsPromise, Promise!Spec

=============================================================================
