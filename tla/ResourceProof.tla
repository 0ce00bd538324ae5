---------------------------- MODULE ResourceProof -----------------------------
(***************************************************************************)
(* Theorems about what is finite: what the storage worker removes          *)
(* (Retention), the bytes work may write (StorageLedger) and what it may   *)
(* spend on the model (Budget).  They hold for any number of Runs,         *)
(* materials, requirements, events, failures, crashes and commands: what   *)
(* must be kept is kept whole, and accounts that are only ever moved by    *)
(* differences stay the sums they stand for.                               *)
(***************************************************************************)
EXTENDS Retention, StorageLedger, Budget, FiniteSetTheorems, WellFoundedInduction, TLAPS

----------------------------------------------------------------------------
(* The inductive invariant.                                                 *)

Phases == {"none", "running", "failed", "waiting", "validating", "rejected", "delivering", "done"}
Over == Phases \ {"none", "running"}
RunRecs == [phase : Phases, linked : BOOLEAN, clean : BOOLEAN, repair : BOOLEAN, resolved : {0} \cup Runs]
Retries == [n : 0..3, st : {"new", "active", "ready", "todo", "shelved"}]
Files == {"own", "more", "cache", "foreign"}
Cellar == {0} \X Packages
MatRecs ==
    [run : {0} \cup Runs, status : {"absent", "present", "deleting", "deleted"}, due : BOOLEAN,
     has : SUBSET Files, man : SUBSET Files, arch : {None} \cup Cellar, partial : BOOLEAN,
     same : BOOLEAN, retry : Retries]
Steps == {"idle", "catalog", "next", "attempt", "inventory", "archive", "write", "finish", "persist",
          "hook", "delete"}

TypeLeft == left \in CaseRecs /\ ("cache" \in left.made => "work" \in left.made)
TypeRun == run \in [Runs -> RunRecs]
TypeMat == mat \in [Ids -> MatRecs]
TypeProof == proof \in [Runs -> {0} \cup Runs]
TypeJob ==
    /\ job \in [step : Steps, queue : SUBSET Ids, id : {None} \cup Ids, files : SUBSET Files,
                pkg : {None} \cup Cellar]
    /\ At("idle") => job = Idle
TypeScan == scan \in Retries
Types == TypeLeft /\ TypeRun /\ TypeMat /\ TypeProof /\ TypeJob /\ TypeScan

\* whose a material is, and that its Run is over before anything of it goes
Owned(id) ==
    /\ ~Cold(id) => mat[id].run = id[1]
    /\ mat[id].status # "absent" => mat[id].run \in Runs /\ run[mat[id].run].phase # "none"
    /\ mat[id].status \in {"deleting", "deleted"} => run[mat[id].run].phase \in Over
    /\ mat[id].status = "deleting" => mat[id].due /\ id[2] # "chunks"

\* the package of an original: bound when its removal is decided, whole and present
\* until it is complete
Packed(id) ==
    /\ mat[id].status \in {"absent", "present"} => mat[id].arch = None
    /\ Cold(id) => mat[id].arch = None
    /\ mat[id].arch # None => mat[mat[id].arch].status # "absent"
    /\ mat[id].status = "deleting" /\ mat[id].arch # None =>
          mat[mat[id].arch].status = "present" /\ mat[id].man \subseteq mat[mat[id].arch].has
    /\ Hot(id) =>
          /\ mat[id].status \in {"absent", "present"} => Parts("runtime") \subseteq mat[id].has
          /\ mat[id].status = "deleting" =>
                /\ mat[id].arch # None /\ mat[mat[id].arch].run = id[1]
                /\ Parts("runtime") \subseteq mat[id].man

\* what was looked at before the removal was decided stays so
Justified(id) ==
    /\ Cold(id) /\ mat[id].status = "absent" => mat[id].has = {}
    /\ id[2] = "cache" => "foreign" \notin mat[id].has
    /\ Recovery(id) /\ mat[id].status = "deleting" => "foreign" \notin mat[id].man
    /\ id[2] = "work" /\ mat[id].status = "deleting" =>
          run[id[1]].clean /\ run[Publisher(id[1])].phase = "done"

Materials == \A id \in Ids : Owned(id) /\ Packed(id) /\ Justified(id)

\* the item of the scan, its files and the package made of it
Working == {"inventory", "archive", "write", "finish", "persist", "hook", "delete"}
Unbound(p) == \A m \in Ids : mat[m].arch # p
Queued == \A id \in job.queue : mat[id].due /\ mat[id].status \in {"present", "deleting", "deleted"}
Chosen ==
    /\ job.step = "attempt" \/ job.step \in Working => job.id \in Ids /\ mat[job.id].due
    /\ job.step \in Working =>
          mat[job.id].status \in {"present", "deleting"} /\ (Cold(job.id) => ~Referenced(job.id))
    /\ job.step \in {"archive", "write", "finish", "persist"} =>
          /\ mat[job.id].status = "present" /\ job.files \subseteq mat[job.id].has
          /\ Hot(job.id) => Parts("runtime") \subseteq job.files
    /\ job.step \in {"archive", "write", "finish"} => job.id[2] \in {"runtime", "chunks"}
    /\ job.step \in {"persist", "hook", "delete"} => job.id[2] # "chunks"
    /\ job.step \in {"hook", "delete"} => mat[job.id].status = "deleting"
Stored ==
    /\ job.step \notin {"write", "finish", "persist", "hook", "delete"} => job.pkg = None
    /\ job.step = "write" => mat[job.pkg].has = {}
    /\ job.step = "finish" => mat[job.pkg].has = job.files
    /\ job.step = "persist" => (Hot(job.id) <=> job.pkg # None)
    /\ job.step \in {"write", "finish"} => job.pkg # None
    /\ job.step \in {"write", "finish"} \/ (job.step = "persist" /\ job.pkg # None) =>
          /\ mat[job.pkg].status = "present" /\ mat[job.pkg].run = mat[job.id].run
          /\ job.files \subseteq mat[job.pkg].has \/ job.step = "write"
          /\ Unbound(job.pkg)
Item == Queued /\ Chosen /\ Stored

IInv == Types /\ Materials /\ Item

----------------------------------------------------------------------------
(* The case never changes but for its bounds, and steps that remove nothing *)
(* keep what is known of the materials.                                     *)

LEMMA IdFacts ==
  ASSUME TypeLeft
  PROVE  /\ \A id \in Ids : Cold(id) <=> id \in Cellar
         /\ \A id \in Ids : Cold(id) => id[2] \notin Names /\ ~Hot(id) /\ ~Recovery(id)
         /\ \A id \in Ids : ~Cold(id) => id[1] \in Runs /\ id[2] \in Made /\ Made \subseteq Names
         /\ \A r \in Runs, n \in Made : <<r, n>> \in Ids /\ ~Cold(<<r, n>>)
         /\ None \notin Ids /\ None \notin Cellar /\ Cellar \subseteq Ids
         /\ \A r \in Runs : r > 0 /\ r \in Nat
  <1>1. Packages \subseteq Rooms /\ Made \subseteq Names /\ left.runs \in Nat
    BY RetentionAssumption DEF TypeLeft, CaseRecs, Packages, Made, RetentionAssumption
  <1>2. Runs \subseteq Nat \ {0} BY <1>1 DEF Runs
  <1>3. Packages \cap Names = {} /\ "none" \notin Packages BY <1>1, RetentionAssumption DEF RetentionAssumption
  <1>4. ASSUME NEW id \in Ids
        PROVE  \/ id \in Cellar /\ id[1] = 0 /\ id[2] \in Packages /\ id = <<0, id[2]>>
               \/ id[1] \in Runs /\ id[2] \in Made /\ id \notin Cellar
    BY <1>2 DEF Ids, Cellar
  <1>5. \A id \in Ids : Cold(id) <=> id \in Cellar BY <1>2, <1>4 DEF Cold
  <1>6. \A id \in Ids : Cold(id) => id[2] \notin Names /\ ~Hot(id) /\ ~Recovery(id)
    BY <1>2, <1>3, <1>4 DEF Cold, Hot, Recovery, Names
  <1>7. \A id \in Ids : ~Cold(id) => id[1] \in Runs /\ id[2] \in Made /\ Made \subseteq Names
    BY <1>1, <1>4, <1>5
  <1>8. \A r \in Runs, n \in Made : <<r, n>> \in Ids /\ ~Cold(<<r, n>>) BY <1>2 DEF Ids, Cold
  <1>9. None \notin Cellar BY <1>3 DEF Cellar, None
  <1>10. None \notin Ids BY <1>2, <1>3, <1>4, <1>9 DEF None
  <1>11. Cellar \subseteq Ids BY DEF Ids, Cellar
  <1> QED BY <1>2, <1>5, <1>6, <1>7, <1>8, <1>9, <1>10, <1>11

QuietCase ==
    /\ left' \in CaseRecs
    /\ left'.runs = left.runs /\ left'.made = left.made /\ left'.packages = left.packages
QuietRun ==
    /\ run' \in [Runs -> RunRecs]
    /\ \A r \in Runs :
          /\ run[r].phase \in Over => run'[r].phase \in Over /\ run'[r].clean = run[r].clean
          /\ run[r].phase = "done" => run'[r].phase = "done"
          /\ run[r].phase # "none" => run'[r].phase # "none"
          /\ run[r].resolved # 0 => run'[r].resolved = run[r].resolved
          /\ run[r].resolved = 0 /\ run'[r].resolved # 0 => run'[run'[r].resolved].phase = "done"
QuietMat ==
    /\ mat' \in [Ids -> MatRecs]
    /\ \A m \in Ids :
          /\ mat'[m].man = mat[m].man /\ mat'[m].arch = mat[m].arch
          /\ mat[m].due => mat'[m].due
          /\ mat[m].has \subseteq mat'[m].has
          /\ m[2] = "cache" \/ mat[m].status = "absent" => mat'[m].has = mat[m].has
          /\ \/ mat'[m].status = mat[m].status /\ mat'[m].run = mat[m].run
             \/ /\ mat[m].status = "absent" /\ mat'[m].status = "present"
                /\ mat'[m].run \in Runs /\ run'[mat'[m].run].phase # "none"
                /\ ~Cold(m) => mat'[m].run = mat[m].run

LEMMA CaseSame ==
  ASSUME QuietCase, TypeLeft
  PROVE  /\ TypeLeft' /\ Runs' = Runs /\ Made' = Made /\ Packages' = Packages /\ Ids' = Ids
         /\ Cellar' = Cellar /\ RunRecs' = RunRecs /\ MatRecs' = MatRecs
         /\ \A n : Parts(n)' = Parts(n)
  <1>1. Runs' = Runs /\ Made' = Made /\ Packages' = Packages BY DEF QuietCase, Runs, Made, Packages
  <1>2. Ids' = Ids /\ Cellar' = Cellar BY <1>1 DEF Ids, Cellar
  <1>3. RunRecs' = RunRecs BY <1>1 DEF RunRecs
  <1>4. MatRecs' = MatRecs BY <1>1, <1>2 DEF MatRecs
  <1>5. \A n : Parts(n)' = Parts(n) BY <1>1 DEF Parts
  <1>6. TypeLeft' BY DEF QuietCase, TypeLeft
  <1> QED BY <1>1, <1>2, <1>3, <1>4, <1>5, <1>6

\* a step either leaves the case alone or uses up one of its bounds
LEMMA CaseQuiet ==
  ASSUME TypeLeft, Next PROVE QuietCase
  <1>1. left \in CaseRecs BY DEF TypeLeft
  <1>2. \/ UNCHANGED left
        \/ left.faults > 0 /\ left' = [left EXCEPT !.faults = @ - 1]
        \/ left.groups > 0 /\ left' = [left EXCEPT !.groups = @ - 1]
    BY DEF Next, Worker, Others, StartScan, Catalog, NextItem, EndScan, Attempt, Inventory, Archive,
      Write, Finish, Finalize, Persist, BeforeRemove, Delete, StartRun, EndRun, Validate, EndValidation,
      GiveUp, RequestRepair, Release, ReplaceCache, Expire, Appear, Crash, Authorize, Fault
  <1>3. CASE UNCHANGED left BY <1>1, <1>3 DEF QuietCase
  <1>4. CASE left.faults > 0 /\ left' = [left EXCEPT !.faults = @ - 1]
    <2>1. left.faults - 1 \in Nat /\ left' = [left EXCEPT !.faults = left.faults - 1]
      BY <1>1, <1>4 DEF CaseRecs
    <2> QED BY <1>1, <2>1 DEF QuietCase, CaseRecs
  <1>5. CASE left.groups > 0 /\ left' = [left EXCEPT !.groups = @ - 1]
    <2>1. left.groups - 1 \in Nat /\ left' = [left EXCEPT !.groups = left.groups - 1]
      BY <1>1, <1>5 DEF CaseRecs
    <2> QED BY <1>1, <2>1 DEF QuietCase, CaseRecs
  <1> QED BY <1>2, <1>3, <1>4, <1>5

LEMMA LateBool == ASSUME TypeLeft PROVE Late \subseteq BOOLEAN
  BY DEF TypeLeft, CaseRecs, Late

LEMMA PublisherFixed ==
  ASSUME QuietRun, TypeRun, NEW r \in Runs, run[Publisher(r)].phase = "done"
  PROVE  run'[Publisher(r)'].phase = "done"
  <1>1. run[r].resolved \in {0} \cup Runs BY DEF TypeRun, RunRecs
  <1>2. CASE run[r].resolved # 0
    <2>1. Publisher(r)' = Publisher(r) /\ Publisher(r) \in Runs BY <1>1, <1>2 DEF Publisher, QuietRun
    <2> QED BY <2>1 DEF QuietRun
  <1>3. CASE run[r].resolved = 0
    <2>1. Publisher(r) = r BY <1>3 DEF Publisher
    <2>2. run'[r].phase = "done" BY <2>1 DEF QuietRun
    <2> QED BY <1>3, <2>2 DEF QuietRun, Publisher
  <1> QED BY <1>2, <1>3

LEMMA QuietKeeps ==
  ASSUME IInv, QuietCase, QuietRun, QuietMat
  PROVE  TypeRun' /\ TypeMat' /\ Materials'
  <1>1. TypeLeft /\ TypeRun /\ TypeMat /\ Materials BY DEF IInv, Types
  <1>2. /\ Runs' = Runs /\ Ids' = Ids /\ RunRecs' = RunRecs /\ MatRecs' = MatRecs
        /\ \A n : Parts(n)' = Parts(n)
    BY <1>1, CaseSame
  <1>3. TypeRun' /\ TypeMat' BY <1>2 DEF TypeRun, TypeMat, QuietRun, QuietMat
  <1> SUFFICES ASSUME NEW id \in Ids PROVE (Owned(id) /\ Packed(id) /\ Justified(id))'
    BY <1>2, <1>3 DEF Materials
  <1>4. Owned(id) /\ Packed(id) /\ Justified(id) /\ mat[id] \in MatRecs BY <1>1 DEF Materials, TypeMat
  <1>5. \A m \in Ids : mat'[m].status \in {"deleting", "deleted"} =>
                          mat'[m].status = mat[m].status /\ mat'[m].run = mat[m].run
    BY DEF QuietMat
  <1>6. Owned(id)'
    <2>1. /\ ~Cold(id) => mat'[id].run = id[1]
          /\ mat'[id].status # "absent" => mat'[id].run \in Runs /\ run'[mat'[id].run].phase # "none"
      BY <1>4 DEF QuietMat, QuietRun, Owned
    <2>2. mat'[id].status \in {"deleting", "deleted"} => run'[mat'[id].run].phase \in Over
      BY <1>4, <1>5 DEF QuietRun, Owned
    <2>3. mat'[id].status = "deleting" => mat'[id].due /\ id[2] # "chunks"
      BY <1>4, <1>5 DEF QuietMat, Owned
    <2> QED BY <1>2, <2>1, <2>2, <2>3 DEF Owned
  <1>7. Packed(id)'
    <2>1. mat'[id].arch = mat[id].arch /\ mat'[id].man = mat[id].man BY DEF QuietMat
    <2>2. mat'[id].status \in {"absent", "present"} => mat[id].status \in {"absent", "present"}
      BY DEF QuietMat
    <2>3. ASSUME mat[id].arch # None, mat[mat[id].arch].status = "present"
          PROVE  /\ mat'[mat[id].arch].status = "present" /\ mat'[mat[id].arch].run = mat[mat[id].arch].run
                 /\ mat[mat[id].arch].has \subseteq mat'[mat[id].arch].has
      <3>1. mat[id].arch \in Ids BY <1>1, <1>4, <2>3, IdFacts DEF MatRecs
      <3> QED BY <2>3, <3>1 DEF QuietMat
    <2>4. mat'[id].status = "deleting" /\ mat'[id].arch # None =>
            mat'[mat'[id].arch].status = "present" /\ mat'[id].man \subseteq mat'[mat'[id].arch].has
      BY <1>4, <1>5, <2>1, <2>3 DEF Packed
    <2>5. ASSUME Hot(id)
          PROVE  /\ mat'[id].status \in {"absent", "present"} => Parts("runtime") \subseteq mat'[id].has
                 /\ mat'[id].status = "deleting" =>
                       /\ mat'[id].arch # None /\ mat'[mat'[id].arch].run = id[1]
                       /\ Parts("runtime") \subseteq mat'[id].man
      <3>1. mat[id].has \subseteq mat'[id].has BY DEF QuietMat
      <3> QED BY <1>4, <1>5, <2>1, <2>2, <2>3, <2>5, <3>1 DEF Packed
    <2>7. Cold(id) => mat'[id].arch = None BY <1>4, <2>1 DEF Packed
    <2>8. mat'[id].status \in {"absent", "present"} => mat'[id].arch = None BY <1>4, <2>1, <2>2 DEF Packed
    <2>9. ASSUME mat[id].arch # None PROVE mat'[mat[id].arch].status # "absent"
      <3>1. mat[id].arch \in Ids BY <1>1, <1>4, <2>9, IdFacts DEF MatRecs
      <3>2. mat[mat[id].arch].status # "absent" BY <1>4, <2>9 DEF Packed
      <3> QED BY <3>1, <3>2 DEF QuietMat
    <2> QED BY <1>2, <2>1, <2>4, <2>5, <2>7, <2>8, <2>9 DEF Packed
  <1>8. Justified(id)'
    <2>1. /\ Cold(id) /\ mat'[id].status = "absent" => mat'[id].has = {}
          /\ id[2] = "cache" => "foreign" \notin mat'[id].has
          /\ Recovery(id) /\ mat'[id].status = "deleting" => "foreign" \notin mat'[id].man
      BY <1>4, <1>5 DEF Justified, QuietMat
    <2>3. ASSUME id[2] = "work", mat'[id].status = "deleting"
          PROVE  run'[id[1]].clean /\ run'[Publisher(id[1])'].phase = "done"
      <3>1. ~Cold(id) /\ id[1] \in Runs BY <1>1, <2>3, IdFacts DEF Names, Recovery
      <3>2. mat[id].status = "deleting" BY <1>5, <2>3
      <3>3. run[id[1]].clean /\ run[Publisher(id[1])].phase = "done" BY <1>4, <2>3, <3>2 DEF Justified
      <3>4. run[id[1]].phase \in Over BY <1>4, <3>1, <3>2 DEF Owned
      <3>5. run'[Publisher(id[1])'].phase = "done" BY <1>1, <3>1, <3>3, PublisherFixed
      <3>6. run'[id[1]].clean = run[id[1]].clean BY <3>1, <3>4 DEF QuietRun
      <3> QED BY <3>3, <3>5, <3>6
    <2> QED BY <2>1, <2>3 DEF Justified
  <1> QED BY <1>6, <1>7, <1>8

----------------------------------------------------------------------------
(* The item of the scan.                                                    *)

\* a step that changes only the bookkeeping of the materials
Touched ==
    /\ mat' \in [Ids -> MatRecs]
    /\ \A m \in Ids :
          /\ mat'[m].status = mat[m].status /\ mat'[m].run = mat[m].run /\ mat'[m].has = mat[m].has
          /\ mat'[m].man = mat[m].man /\ mat'[m].arch = mat[m].arch
          /\ mat[m].due => mat'[m].due
Rested == run' = run
NoItem == {"idle", "catalog", "next"}

LEMMA RetryTyped ==
  ASSUME NEW r \in Retries, NEW late \in BOOLEAN
  PROVE  /\ Fail(r, late) \in Retries /\ Begin(r, late) \in Retries /\ Transition(r, late) \in Retries
         /\ Granted(r) \in Retries
         /\ [r EXCEPT !.st = "ready"] \in Retries
  BY DEF Retries, Fail, Begin, Transition, Granted, Due

LEMMA RetryOnly ==
  ASSUME TypeMat, NEW id \in Ids, NEW x \in Retries, mat' = [mat EXCEPT ![id].retry = x]
  PROVE  Touched
  <1>1. mat \in [Ids -> MatRecs] BY DEF TypeMat
  <1>2. mat[id] \in MatRecs BY <1>1
  <1>3. [mat[id] EXCEPT !.retry = x] \in MatRecs BY <1>2 DEF MatRecs
  <1>4. mat' = [mat EXCEPT ![id] = [mat[id] EXCEPT !.retry = x]] OBVIOUS
  <1>5. mat' \in [Ids -> MatRecs] BY <1>1, <1>3, <1>4
  <1>6. \A m \in Ids : m # id => mat'[m] = mat[m] BY <1>1, <1>4
  <1>7. mat'[id] = [mat[id] EXCEPT !.retry = x] BY <1>1, <1>4
  <1>8. /\ mat'[id].status = mat[id].status /\ mat'[id].run = mat[id].run /\ mat'[id].has = mat[id].has
        /\ mat'[id].man = mat[id].man /\ mat'[id].arch = mat[id].arch /\ mat'[id].due = mat[id].due
    BY <1>2, <1>7 DEF MatRecs
  <1> QED BY <1>5, <1>6, <1>8 DEF Touched

LEMMA TouchedQuiet ==
  ASSUME TypeRun, Touched, Rested
  PROVE  QuietMat /\ QuietRun
  <1>1. QuietMat BY DEF Touched, QuietMat
  <1>2. QuietRun BY DEF Rested, QuietRun, TypeRun
  <1> QED BY <1>1, <1>2

LEMMA RestedQuiet ==
  ASSUME TypeRun, Rested PROVE QuietRun
  BY DEF Rested, QuietRun, TypeRun

\* the scan is between two items
LEMMA DropItem ==
  ASSUME Item, job'.step \in NoItem, job'.queue \subseteq job.queue, job'.pkg = None,
         \A m \in job.queue : mat'[m].due /\ mat'[m].status \in {"present", "deleting", "deleted"}
  PROVE  Item'
  BY DEF Item, Queued, Chosen, Stored, NoItem, Working

LEMMA QueueKept ==
  ASSUME TypeJob, Item, QuietMat
  PROVE  \A m \in job.queue : mat'[m].due /\ mat'[m].status \in {"present", "deleting", "deleted"}
  <1>1. job.queue \subseteq Ids BY DEF TypeJob
  <1> QED BY <1>1 DEF Item, Queued, QuietMat

LEMMA DropTyped ==
  ASSUME TypeLeft, TypeJob, QuietCase, job' = Drop \/ job' = Idle
  PROVE  /\ TypeJob' /\ job'.step \in NoItem /\ job'.queue \subseteq job.queue /\ job'.pkg = None
  <1>1. Ids' = Ids /\ Cellar' = Cellar BY CaseSame
  <1>2. CASE job' = Idle BY <1>1, <1>2 DEF TypeJob, Idle, Steps, At, NoItem
  <1>3. CASE job' = Drop
    <2>1. /\ job'.step = "next" /\ job'.queue = job.queue /\ job'.id = None /\ job'.files = {}
          /\ job'.pkg = None
          /\ job' \in [step : Steps, queue : SUBSET Ids, id : {None} \cup Ids, files : SUBSET Files,
                       pkg : {None} \cup Cellar]
      BY <1>3 DEF TypeJob, Drop, Steps
    <2> QED BY <1>1, <2>1 DEF TypeJob, At, NoItem
  <1> QED BY <1>2, <1>3

\* the conditions of Item on everything but the queue, under any step
LEMMA SameItem ==
  ASSUME IInv, QuietCase, QuietMat, UNCHANGED job,
         \A m \in Ids : /\ mat'[m].status = mat[m].status /\ mat'[m].run = mat[m].run
                        /\ Cold(m) => mat'[m].has = mat[m].has
  PROVE  Item'
  <1>1. TypeLeft /\ TypeMat /\ TypeJob /\ Item BY DEF IInv, Types
  <1>2. Ids' = Ids /\ \A n : Parts(n)' = Parts(n) BY <1>1, CaseSame
  <1>3. job.queue \subseteq Ids /\ job.pkg \in {None} \cup Cellar BY <1>1 DEF TypeJob
  <1>4. \A m \in Ids : mat'[m].arch = mat[m].arch /\ mat[m].has \subseteq mat'[m].has /\ (mat[m].due => mat'[m].due)
    BY DEF QuietMat
  <1>5. \A p : Unbound(p) => Unbound(p)' BY <1>2, <1>4 DEF Unbound
  <1>6. \A p : Referenced(p)' => Referenced(p) BY <1>2, <1>4 DEF Referenced
  <1>7. job.pkg # None => /\ job.pkg \in Ids /\ mat'[job.pkg].has = mat[job.pkg].has
                          /\ mat'[job.pkg].status = mat[job.pkg].status /\ mat'[job.pkg].run = mat[job.pkg].run
    BY <1>1, <1>3, IdFacts
  <1>8. \A m \in job.queue : mat'[m].due /\ mat'[m].status \in {"present", "deleting", "deleted"}
    BY <1>1, QueueKept
  <1>9. job.step = "attempt" \/ job.step \in Working =>
          /\ job.id \in Ids /\ mat'[job.id].due /\ mat'[job.id].status = mat[job.id].status
          /\ mat'[job.id].run = mat[job.id].run /\ mat[job.id].has \subseteq mat'[job.id].has
    BY <1>1, <1>4 DEF Item, Chosen
  <1> USE DEF Item, Chosen, Stored
  <1>10. job.step \in Working =>
           mat'[job.id].status \in {"present", "deleting"} /\ (Cold(job.id) => ~Referenced(job.id)')
    BY <1>1, <1>6, <1>9
  <1>11. job.step \in {"archive", "write", "finish", "persist"} =>
          /\ mat'[job.id].status = "present" /\ job.files \subseteq mat'[job.id].has
          /\ Hot(job.id) => Parts("runtime")' \subseteq job.files
    BY <1>1, <1>2, <1>9 DEF Working
  <1>12. job.step \in {"hook", "delete"} => mat'[job.id].status = "deleting"
    BY <1>1, <1>9 DEF Working
  <1>13. /\ job.step = "write" => mat'[job.pkg].has = {}
         /\ job.step = "finish" => mat'[job.pkg].has = job.files
    BY <1>1, <1>7
  <1>14. job.step \in {"write", "finish"} \/ (job.step = "persist" /\ job.pkg # None) =>
          /\ mat'[job.pkg].status = "present" /\ mat'[job.pkg].run = mat'[job.id].run
          /\ job.files \subseteq mat'[job.pkg].has \/ job.step = "write"
          /\ Unbound(job.pkg)'
    BY <1>1, <1>5, <1>7, <1>9 DEF Working
  <1>15. /\ job.step \in {"archive", "write", "finish"} => job.id[2] \in {"runtime", "chunks"}
         /\ job.step \in {"persist", "hook", "delete"} => job.id[2] # "chunks"
         /\ job.step = "persist" => (Hot(job.id) <=> job.pkg # None)
         /\ job.step \in {"write", "finish"} => job.pkg # None
         /\ job.step \notin {"write", "finish", "persist", "hook", "delete"} => job.pkg = None
    BY <1>1
  <1> HIDE DEF Item, Chosen, Stored
  <1>16. Queued' BY <1>8 DEF Queued
  <1>17. Chosen'
    <2>1. Working' = Working BY DEF Working
    <2>2. job' = job OBVIOUS
    <2>3. (job.step = "attempt" \/ job.step \in Working => job.id \in Ids /\ mat[job.id].due)'
      BY <1>2, <1>9, <2>1, <2>2
    <2>4. (job.step \in Working =>
             mat[job.id].status \in {"present", "deleting"} /\ (Cold(job.id) => ~Referenced(job.id)))'
      BY <1>10, <2>1, <2>2 DEF Cold
    <2>5. (/\ job.step \in {"archive", "write", "finish", "persist"} =>
                /\ mat[job.id].status = "present" /\ job.files \subseteq mat[job.id].has
                /\ Hot(job.id) => Parts("runtime") \subseteq job.files
           /\ job.step \in {"archive", "write", "finish"} => job.id[2] \in {"runtime", "chunks"}
           /\ job.step \in {"persist", "hook", "delete"} => job.id[2] # "chunks"
           /\ job.step \in {"hook", "delete"} => mat[job.id].status = "deleting")'
      BY <1>11, <1>12, <1>15, <2>2 DEF Hot
    <2> QED BY <2>3, <2>4, <2>5 DEF Chosen
  <1>18. Stored' BY <1>13, <1>14, <1>15 DEF Stored, Hot
  <1> QED BY <1>16, <1>17, <1>18 DEF Item

----------------------------------------------------------------------------
(* The steps that remove nothing and decide no removal.                     *)

\* a set of Runs with a member has a last one
LEMMA LastRun ==
  ASSUME NEW n \in Nat, NEW S \in SUBSET (1..n), S # {}
  PROVE  \E q \in S : \A s \in S : s <= q
  <1> DEFINE Up(s) == {q \in 1..n : q > s}
             T == {Up(s) : s \in S}
             R == StrictSubsetOrdering(1..n)
  <1>1. IsFiniteSet(1..n) BY FS_Interval
  <1>2. FiniteSubsetsOf(1..n) = SUBSET (1..n) BY <1>1, FS_FiniteSubsetsOfFinite
  <1>3. T \subseteq FiniteSubsetsOf(1..n) /\ T # {}
    <2>1. \A s \in S : Up(s) \in SUBSET (1..n) OBVIOUS
    <2> HIDE DEF Up
    <2>2. T \subseteq SUBSET (1..n) BY <2>1
    <2>3. PICK s \in S : TRUE OBVIOUS
    <2>4. Up(s) \in T BY <2>3
    <2> QED BY <1>2, <2>2, <2>4
  <1>4. IsWellFoundedOn(R, FiniteSubsetsOf(1..n)) BY FS_StrictSubsetOrderingWellFounded
  <1> HIDE DEF T, R
  <1>5. PICK x \in T : \A y \in T : ~ (<<y, x>> \in R) BY <1>3, <1>4, WFMin
  <1> USE DEF T, R
  <1>6. PICK q \in S : x = Up(q) BY <1>5
  <1>7. ASSUME NEW s \in S, ~(s <= q) PROVE FALSE
    <2>1. s \in 1..n /\ q \in 1..n /\ s > q BY <1>7
    <2>2. Up(s) \subseteq Up(q) /\ Up(s) # Up(q)
      <3>1. Up(s) \subseteq Up(q) BY <2>1
      <3>2. s \in Up(q) /\ s \notin Up(s) BY <2>1
      <3> QED BY <3>1, <3>2
    <2>3. Up(s) \in SUBSET (1..n) /\ Up(q) \in SUBSET (1..n) OBVIOUS
    <2> HIDE DEF Up
    <2>5. Up(s) \in T BY <1>7
    <2> HIDE DEF T
    <2>4. <<Up(s), Up(q)>> \in R BY <2>2, <2>3 DEF StrictSubsetOrdering
    <2> QED BY <1>5, <1>6, <2>4, <2>5
  <1> QED BY <1>6, <1>7

LEMMA ResolvedFact ==
  ASSUME TypeLeft, TypeRun, NEW r \in Runs
  PROVE  /\ Resolved(r) \in {0} \cup Runs
         /\ run[r].resolved # 0 => Resolved(r) = run[r].resolved
         /\ run[r].resolved = 0 /\ Resolved(r) # 0 => run[Resolved(r)].phase = "done"
  <1> DEFINE later == {q \in Runs : q > r /\ run[q].phase = "done" /\ \A s \in (r + 1)..q : run[s].linked}
  <1>1. run[r].resolved \in {0} \cup Runs BY DEF TypeRun, RunRecs
  <1>2. CASE run[r].resolved # 0 BY <1>1, <1>2 DEF Resolved
  <1>3. CASE run[r].resolved = 0 /\ later = {} BY <1>3 DEF Resolved
  <1>4. CASE run[r].resolved = 0 /\ later # {}
    <2>1. left.runs \in Nat BY RetentionAssumption DEF TypeLeft, CaseRecs, RetentionAssumption
    <2>2. later \in SUBSET (1..left.runs) BY DEF Runs
    <2> HIDE DEF later
    <2>3. \E q \in later : \A s \in later : s <= q BY <1>4, <2>1, <2>2, LastRun
    <2>4. (CHOOSE q \in later : \A s \in later : s <= q) \in later BY <2>3
    <2>5. Resolved(r) = CHOOSE q \in later : \A s \in later : s <= q BY <1>4 DEF Resolved, later
    <2>6. Resolved(r) \in later BY <2>4, <2>5
    <2>7. Resolved(r) \in Runs /\ run[Resolved(r)].phase = "done" BY <2>6 DEF later
    <2> QED BY <1>4, <2>7
  <1> QED BY <1>2, <1>3, <1>4

LEMMA StepKeeps ==
  ASSUME IInv, QuietCase, QuietRun, QuietMat, TypeProof', TypeJob', TypeScan', Item'
  PROVE  IInv'
  BY QuietKeeps, CaseSame DEF IInv, Types

LEMMA ProofSame ==
  ASSUME TypeLeft, TypeProof, QuietCase, UNCHANGED proof PROVE TypeProof'
  BY CaseSame DEF TypeProof

LEMMA ScanSame ==
  ASSUME TypeScan, UNCHANGED scan PROVE TypeScan'
  BY DEF TypeScan

LEMMA JobSame ==
  ASSUME TypeLeft, TypeJob, QuietCase, UNCHANGED job PROVE TypeJob'
  BY CaseSame DEF TypeJob, At

\* the item is put away
LEMMA DropStep ==
  ASSUME IInv, QuietCase, QuietRun, QuietMat, job' = Drop \/ job' = Idle, TypeProof', TypeScan'
  PROVE  IInv'
  <1>1. TypeLeft /\ TypeJob /\ Item BY DEF IInv, Types
  <1>2. TypeJob' /\ job'.step \in NoItem /\ job'.queue \subseteq job.queue /\ job'.pkg = None
    BY <1>1, DropTyped
  <1>3. \A m \in job.queue : mat'[m].due /\ mat'[m].status \in {"present", "deleting", "deleted"}
    BY <1>1, QueueKept
  <1>4. Item' BY <1>1, <1>2, <1>3, DropItem
  <1> QED BY <1>2, <1>4, StepKeeps

LEMMA FailedStep ==
  ASSUME IInv, QuietCase, Rested, NEW id \in Ids, Failed(mat, id), UNCHANGED <<proof, scan>>
  PROVE  IInv'
  <1>1. TypeLeft /\ TypeRun /\ TypeMat /\ TypeProof /\ TypeScan BY DEF IInv, Types
  <1>2. mat[id].retry \in Retries BY <1>1 DEF TypeMat, MatRecs
  <1>3. PICK late \in BOOLEAN : mat' = [mat EXCEPT ![id].retry = Fail(@, late)]
    BY <1>1, LateBool DEF Failed
  <1>4. mat' = [mat EXCEPT ![id].retry = Fail(mat[id].retry, late)] BY <1>1, <1>3 DEF TypeMat
  <1>5. Touched BY <1>1, <1>2, <1>4, RetryTyped, RetryOnly
  <1>6. QuietMat /\ QuietRun BY <1>1, <1>5, TouchedQuiet
  <1>7. TypeProof' /\ TypeScan' BY <1>1, ProofSame, ScanSame
  <1>8. job' = Drop BY DEF Failed
  <1> QED BY <1>6, <1>7, <1>8, DropStep

LEMMA UntouchedFact ==
  ASSUME TypeMat, UNCHANGED mat PROVE Touched
  BY DEF TypeMat, Touched

\* a step of the rest of the program
LEMMA OtherStep ==
  ASSUME IInv, QuietCase, QuietRun, QuietMat, UNCHANGED <<proof, job>>, TypeScan',
         \A m \in Ids : /\ mat'[m].status = mat[m].status /\ mat'[m].run = mat[m].run
                        /\ Cold(m) => mat'[m].has = mat[m].has
  PROVE  IInv'
  <1>1. TypeLeft /\ TypeProof /\ TypeJob BY DEF IInv, Types
  <1>2. TypeProof' /\ TypeJob' BY <1>1, ProofSame, JobSame
  <1>3. Item' BY SameItem
  <1> QED BY <1>2, <1>3, StepKeeps

LEMMA RunStep ==
  ASSUME IInv, QuietCase, QuietRun, UNCHANGED <<mat, proof, job, scan>>
  PROVE  IInv'
  <1>1. TypeMat /\ TypeScan BY DEF IInv, Types
  <1>2. Touched /\ TypeScan' BY <1>1, UntouchedFact, ScanSame
  <1>3. QuietMat BY <1>2 DEF Touched, QuietMat
  <1> QED BY <1>2, <1>3, OtherStep

\* the scan goes on with no item at hand
LEMMA BetweenStep ==
  ASSUME IInv, QuietCase, QuietRun, QuietMat, TypeProof', TypeScan', TypeJob',
         job'.step \in NoItem, job'.pkg = None,
         \A m \in job'.queue : mat'[m].due /\ mat'[m].status \in {"present", "deleting", "deleted"}
  PROVE  IInv'
  <1>1. Item' BY DEF Item, Queued, Chosen, Stored, NoItem, Working
  <1> QED BY <1>1, StepKeeps

LEMMA GoTyped ==
  ASSUME TypeLeft, TypeJob, QuietCase, NEW step \in Steps \ {"idle"}, job' = Go(step)
  PROVE  /\ TypeJob' /\ job'.step = step /\ job'.queue = job.queue /\ job'.id = job.id
         /\ job'.files = job.files /\ job'.pkg = job.pkg
  BY CaseSame DEF TypeJob, Go, At

LEMMA StartScanKeeps ==
  ASSUME IInv, QuietCase, StartScan PROVE IInv'
  <1>1. TypeLeft /\ TypeRun /\ TypeMat /\ TypeProof /\ TypeJob /\ TypeScan /\ Item BY DEF IInv, Types
  <1>2. Rested /\ Touched /\ TypeProof' BY <1>1, UntouchedFact, ProofSame DEF StartScan, Rested
  <1>3. QuietRun /\ QuietMat BY <1>1, <1>2, TouchedQuiet
  <1>4. TypeScan'
    <2>1. [n |-> 1, st |-> "active"] \in Retries BY DEF Retries
    <2> QED BY <1>1, <2>1, LateBool, RetryTyped DEF StartScan, TypeScan
  <1>5. job' = job \/ job' = Go("catalog") BY DEF StartScan
  <1>6. job.pkg = None /\ job.step = "idle" /\ job.queue \subseteq job.queue
    BY <1>1 DEF StartScan, At, Item, Stored
  <1>7. TypeJob' /\ job'.step \in NoItem /\ job'.pkg = None /\ job'.queue = job.queue
    <2>1. CASE job' = job BY <1>1, <1>6, <2>1, JobSame DEF NoItem
    <2>2. CASE job' = Go("catalog") BY <1>1, <1>6, <2>2, GoTyped DEF NoItem, Steps
    <2> QED BY <1>5, <2>1, <2>2
  <1>8. \A m \in job'.queue : mat'[m].due /\ mat'[m].status \in {"present", "deleting", "deleted"}
    BY <1>1, <1>3, <1>7, QueueKept
  <1> QED BY <1>2, <1>3, <1>4, <1>7, <1>8, BetweenStep

LEMMA DiscoverFact ==
  ASSUME TypeLeft, TypeMat, Materials, NEW id \in Ids
  PROVE  /\ Discover[id] \in MatRecs
         /\ \/ Discover[id] = mat[id]
            \/ /\ mat[id].status = "absent" /\ ~Cold(id) /\ run[id[1]].phase # "none"
               /\ Discover[id].status = "present" /\ Discover[id].run = id[1]
               /\ Discover[id].has = mat[id].has /\ Discover[id].man = mat[id].man
               /\ Discover[id].arch = mat[id].arch /\ Discover[id].due = mat[id].due
               /\ mat[id].run = id[1] /\ id[1] \in Runs
  <1>1. mat[id] \in MatRecs BY DEF TypeMat
  <1>2. CASE mat[id].status = "absent" /\ ~Cold(id) /\ run[id[1]].phase # "none"
    <2>1. Discover[id] = [mat[id] EXCEPT !.status = "present"] BY <1>2 DEF Discover
    <2>2. mat[id].run = id[1] /\ id[1] \in Runs BY <1>2, IdFacts DEF Materials, Owned
    <2> QED BY <1>1, <1>2, <2>1, <2>2 DEF MatRecs
  <1>3. CASE ~(mat[id].status = "absent" /\ ~Cold(id) /\ run[id[1]].phase # "none")
    <2>1. Discover[id] = mat[id] BY <1>3 DEF Discover
    <2> QED BY <1>1, <2>1
  <1> QED BY <1>2, <1>3

LEMMA CatalogKeeps ==
  ASSUME IInv, QuietCase, Catalog PROVE IInv'
  <1>1. TypeLeft /\ TypeRun /\ TypeMat /\ TypeProof /\ TypeJob /\ TypeScan /\ Item /\ Materials
    BY DEF IInv, Types
  <1>2. TypeProof' /\ left' = left BY <1>1, ProofSame DEF Catalog
  <1>3. CASE Measurable
    <2>1. /\ mat' = Discover /\ scan' = scan
          /\ run' = [r \in Runs |-> [run[r] EXCEPT !.resolved = Resolved(r)]]
          /\ job' = [Idle EXCEPT !.step = "next",
                          !.queue = {id \in Ids : mat[id].due /\ mat[id].status \in {"present", "deleting"}}]
      BY <1>3 DEF Catalog
    <2>2. \A r \in Runs : /\ run'[r] \in RunRecs /\ run'[r].phase = run[r].phase
                          /\ run'[r].clean = run[r].clean /\ run'[r].resolved = Resolved(r)
      <3> SUFFICES ASSUME NEW r \in Runs
                   PROVE  /\ run'[r] \in RunRecs /\ run'[r].phase = run[r].phase
                          /\ run'[r].clean = run[r].clean /\ run'[r].resolved = Resolved(r)
        OBVIOUS
      <3>1. run'[r] = [run[r] EXCEPT !.resolved = Resolved(r)] BY <2>1
      <3>2. run[r] \in RunRecs /\ Resolved(r) \in {0} \cup Runs BY <1>1, ResolvedFact DEF TypeRun
      <3> QED BY <3>1, <3>2 DEF RunRecs
    <2>3. run' \in [Runs -> RunRecs]
      <3>1. DOMAIN run' = Runs /\ run' = [r \in Runs |-> run'[r]] BY <2>1
      <3> QED BY <2>2, <3>1
    <2>4. \A r \in Runs : /\ run[r].resolved # 0 => run'[r].resolved = run[r].resolved
                          /\ run[r].resolved = 0 /\ run'[r].resolved # 0 =>
                                run'[r].resolved \in Runs /\ run[run'[r].resolved].phase = "done"
      BY <1>1, <2>2, ResolvedFact
    <2>5. QuietRun BY <2>2, <2>3, <2>4 DEF QuietRun
    <2>6. mat' \in [Ids -> MatRecs]
      <3>1. \A m \in Ids : mat'[m] \in MatRecs BY <1>1, <2>1, DiscoverFact
      <3>2. mat' = [m \in Ids |-> mat'[m]] BY <2>1 DEF Discover
      <3> QED BY <3>1, <3>2
    <2>7. \A m \in Ids : \/ mat'[m] = mat[m]
                         \/ /\ mat[m].status = "absent" /\ ~Cold(m) /\ run'[m[1]].phase # "none"
                            /\ mat'[m].status = "present" /\ mat'[m].run = m[1]
                            /\ mat'[m].has = mat[m].has /\ mat'[m].man = mat[m].man
                            /\ mat'[m].arch = mat[m].arch /\ mat'[m].due = mat[m].due
                            /\ mat[m].run = m[1] /\ m[1] \in Runs
      BY <1>1, <2>1, <2>2, DiscoverFact
    <2>8. QuietMat BY <2>6, <2>7 DEF QuietMat
    <2> DEFINE Q == {id \in Ids : mat[id].due /\ mat[id].status \in {"present", "deleting"}}
    <2>9. job'.step = "next" /\ job'.queue = Q /\ job'.id = None /\ job'.files = {} /\ job'.pkg = None
          /\ job' = [step |-> "next", queue |-> Q, id |-> None, files |-> {}, pkg |-> None]
      BY <2>1 DEF Idle
    <2>10. TypeJob'
      <3>1. Q \in SUBSET Ids' BY <1>1, CaseSame
      <3> HIDE DEF Q
      <3> QED BY <2>9, <3>1 DEF TypeJob, At, Steps
    <2>11. \A m \in job'.queue : mat'[m].due /\ mat'[m].status \in {"present", "deleting", "deleted"}
      BY <2>7, <2>9
    <2>12. TypeScan' BY <1>1, <2>1, ScanSame
    <2> QED BY <1>2, <2>5, <2>8, <2>9, <2>10, <2>11, <2>12, BetweenStep DEF NoItem
  <1>4. CASE ~Measurable
    <2>1. Rested /\ UNCHANGED mat /\ job' = Idle /\ \E late \in BOOLEAN : scan' = Fail(scan, late)
      BY <1>1, <1>4, LateBool DEF Catalog, Rested
    <2>2. Touched BY <1>1, <2>1, UntouchedFact
    <2>3. QuietRun /\ QuietMat BY <1>1, <2>1, <2>2, TouchedQuiet
    <2>4. TypeScan' BY <1>1, <2>1, RetryTyped DEF TypeScan
    <2> QED BY <1>2, <2>1, <2>3, <2>4, DropStep
  <1> QED BY <1>3, <1>4

LEMMA NextItemKeeps ==
  ASSUME IInv, QuietCase, NextItem PROVE IInv'
  <1>1. TypeLeft /\ TypeRun /\ TypeMat /\ TypeProof /\ TypeJob /\ TypeScan /\ Item BY DEF IInv, Types
  <1>2. Rested /\ Touched /\ TypeProof' /\ TypeScan'
    BY <1>1, UntouchedFact, ProofSame, ScanSame DEF NextItem, Rested, Unchanged
  <1>3. QuietRun /\ QuietMat BY <1>1, <1>2, TouchedQuiet
  <1>4. PICK id \in job.queue : job' = [job EXCEPT !.queue = @ \ {id}, !.id = id, !.step = "attempt"]
    BY DEF NextItem
  <1>5. id \in Ids /\ job.queue \subseteq Ids BY <1>1 DEF TypeJob
  <1>6. /\ job'.step = "attempt" /\ job'.queue = job.queue \ {id} /\ job'.id = id /\ job'.pkg = job.pkg
        /\ job' \in [step : Steps, queue : SUBSET Ids, id : {None} \cup Ids, files : SUBSET Files,
                     pkg : {None} \cup Cellar]
    BY <1>1, <1>4, <1>5 DEF TypeJob, Steps
  <1>7. TypeJob' BY <1>1, <1>6, CaseSame DEF TypeJob, At
  <1>8. job.pkg = None BY <1>1 DEF NextItem, At, Item, Stored
  <1>9. mat' = mat BY DEF NextItem
  <1>10. Ids' = Ids BY <1>1, CaseSame
  <1>11. Queued' BY <1>1, <1>6, <1>9 DEF Item, Queued
  <1>12. Chosen' BY <1>1, <1>5, <1>6, <1>9, <1>10 DEF Item, Queued, Chosen, Working
  <1>13. Stored' BY <1>6, <1>8 DEF Stored
  <1>14. Item' BY <1>11, <1>12, <1>13 DEF Item
  <1> QED BY <1>2, <1>3, <1>7, <1>14, StepKeeps

LEMMA EndScanKeeps ==
  ASSUME IInv, QuietCase, EndScan PROVE IInv'
  <1>1. TypeLeft /\ TypeRun /\ TypeMat /\ TypeProof BY DEF IInv, Types
  <1>2. Rested /\ Touched /\ TypeProof' BY <1>1, UntouchedFact, ProofSame DEF EndScan, Rested
  <1>3. QuietRun /\ QuietMat BY <1>1, <1>2, TouchedQuiet
  <1>4. TypeScan' BY DEF EndScan, New, TypeScan, Retries
  <1>5. job' = Idle BY DEF EndScan
  <1> QED BY <1>2, <1>3, <1>4, <1>5, DropStep

\* what is known of the item at hand
LEMMA AtHand ==
  ASSUME IInv, job.step = "attempt" \/ job.step \in Working
  PROVE  job.id \in Ids /\ mat[job.id] \in MatRecs /\ mat[job.id].due
  BY DEF IInv, Types, Item, Chosen, TypeMat

\* the scan goes on with the same item, in another step
LEMMA GoStep ==
  ASSUME IInv, QuietCase, Rested, Touched, UNCHANGED scan, TypeProof',
         job.step = "attempt" \/ job.step \in Working,
         NEW step \in {"inventory", "persist", "hook", "delete"}, job' = Go(step),
         job.step = "attempt" => step = "inventory",
         step = "inventory" => /\ job.step = "attempt" /\ mat[job.id].status \in {"present", "deleting"}
                               /\ Cold(job.id) => ~Referenced(job.id),
         step = "persist" => job.step = "finish" /\ Hot(job.id),
         step \in {"hook", "delete"} => mat[job.id].status = "deleting"
  PROVE  IInv'
  <1>1. TypeLeft /\ TypeRun /\ TypeMat /\ TypeProof /\ TypeJob /\ TypeScan /\ Queued /\ Chosen /\ Stored
        /\ Materials
    BY DEF IInv, Types, Item
  <1>2. QuietRun /\ QuietMat /\ TypeScan' BY <1>1, TouchedQuiet, ScanSame
  <1>3. TypeJob' /\ job'.step = step /\ job'.queue = job.queue /\ job'.id = job.id
        /\ job'.files = job.files /\ job'.pkg = job.pkg
    BY <1>1, GoTyped DEF Steps
  <1>4. job.id \in Ids /\ mat[job.id] \in MatRecs /\ mat[job.id].due BY AtHand
  <1>5. Queued'
    <2>1. \A m \in job.queue : mat'[m].due /\ mat'[m].status \in {"present", "deleting", "deleted"}
      BY <1>1, <1>2, QueueKept DEF IInv
    <2> QED BY <1>3, <2>1 DEF Queued
  <1>6. Ids' = Ids /\ \A n : Parts(n)' = Parts(n) BY <1>1, CaseSame
  <1>7. /\ mat'[job.id].due /\ mat'[job.id].status = mat[job.id].status
        /\ mat'[job.id].run = mat[job.id].run /\ mat'[job.id].has = mat[job.id].has
    BY <1>4 DEF Touched
  <1>8. Referenced(job.id)' => Referenced(job.id)
    <2>1. \A p : (\E m \in Ids : mat'[m].status # "deleted" /\ mat'[m].arch = p) => Referenced(p)
      BY DEF Referenced, Touched
    <2> QED BY <1>3, <1>6, <2>1 DEF Referenced
  <1>9. job.pkg # None /\ Unbound(job.pkg) => \A m \in Ids : mat'[m].arch # job.pkg
    BY DEF Unbound, Touched
  <1>10. job.pkg # None => /\ mat'[job.pkg].has = mat[job.pkg].has /\ mat'[job.pkg].run = mat[job.pkg].run
                           /\ mat'[job.pkg].status = mat[job.pkg].status
    <2>1. job.pkg # None => job.pkg \in Ids BY <1>1, IdFacts DEF TypeJob
    <2> QED BY <2>1 DEF Touched
  <1>11. mat[job.id].status = "deleting" => job.id[2] # "chunks" BY <1>1, <1>4 DEF Materials, Owned
  <1>12. CASE step = "inventory"
    <2>1. Chosen' BY <1>3, <1>4, <1>6, <1>7, <1>8, <1>12 DEF Chosen, Working, Cold
    <2>2. Stored' BY <1>1, <1>3, <1>12 DEF Stored
    <2> QED BY <1>2, <1>3, <1>5, <2>1, <2>2, StepKeeps DEF Item
  <1>13. CASE step \in {"hook", "delete"}
    <2>1. mat'[job.id].status = "deleting" BY <1>7, <1>13
    <2>2. Cold(job.id) => ~Referenced(job.id)'
      BY <1>1, <1>8, <1>13 DEF Chosen
    <2>3. Chosen' BY <1>3, <1>4, <1>6, <1>7, <1>11, <1>13, <2>1, <2>2 DEF Chosen, Working, Cold
    <2>4. Stored' BY <1>3, <1>13 DEF Stored
    <2> QED BY <1>2, <1>3, <1>5, <2>3, <2>4, StepKeeps DEF Item
  <1>14. CASE step = "persist"
    <2>1. job.step = "finish" /\ Hot(job.id) BY <1>14
    <2>2. mat[job.id].status = "present" /\ job.files \subseteq mat[job.id].has
          /\ Parts("runtime") \subseteq job.files /\ job.id[2] # "chunks" /\ ~Cold(job.id)
      BY <1>1, <1>4, <2>1, IdFacts DEF Chosen, Hot
    <2>3. /\ job.pkg # None /\ mat[job.pkg].has = job.files /\ mat[job.pkg].status = "present"
          /\ mat[job.pkg].run = mat[job.id].run /\ Unbound(job.pkg)
      BY <1>1, <2>1 DEF Stored
    <2>4. Chosen' BY <1>3, <1>4, <1>6, <1>7, <1>14, <2>2 DEF Chosen, Working, Cold, Hot
    <2>5. Unbound(job.pkg)' BY <1>3, <1>6, <1>9, <2>3 DEF Unbound
    <2>6. Stored' BY <1>3, <1>7, <1>10, <1>14, <2>1, <2>3, <2>5 DEF Stored, Hot
    <2> QED BY <1>2, <1>3, <1>5, <2>4, <2>6, StepKeeps DEF Item
  <1> QED BY <1>12, <1>13, <1>14

LEMMA AttemptKeeps ==
  ASSUME IInv, QuietCase, Attempt PROVE IInv'
  <1>1. TypeLeft /\ TypeRun /\ TypeMat /\ TypeProof /\ TypeJob /\ TypeScan /\ Item /\ Materials
    BY DEF IInv, Types
  <1>2. job.step = "attempt" /\ job.id \in Ids /\ mat[job.id] \in MatRecs
    BY AtHand DEF Attempt, At
  <1>3. Rested /\ UNCHANGED scan BY DEF Attempt, Rested
  <1> DEFINE live == mat[job.id].status \in {"present", "deleting"}
             r == mat[job.id].run
  <1>4. \/ Failed(mat, job.id) /\ UNCHANGED proof
        \/ job' = Drop /\ UNCHANGED <<mat, proof>>
        \/ /\ live /\ ~Kept(job.id)
           /\ \E late \in BOOLEAN :
                /\ mat' = [mat EXCEPT ![job.id].retry = Transition(mat[job.id].retry, late)]
                /\ job' = Go("inventory") \/ job' = Drop
           /\ proof' = [proof EXCEPT ![r] = Publisher(r)] \/ UNCHANGED proof
    BY <1>1, LateBool DEF Attempt
  <1>5. CASE Failed(mat, job.id) /\ UNCHANGED proof BY <1>2, <1>3, <1>5, FailedStep
  <1>6. CASE job' = Drop /\ UNCHANGED <<mat, proof>>
    <2>1. Touched /\ TypeProof' /\ TypeScan' BY <1>1, <1>3, <1>6, UntouchedFact, ProofSame, ScanSame
    <2>2. QuietMat /\ QuietRun BY <1>1, <1>3, <2>1, TouchedQuiet
    <2> QED BY <1>6, <2>1, <2>2, DropStep
  <1>7. CASE /\ live /\ ~Kept(job.id)
             /\ \E late \in BOOLEAN :
                  /\ mat' = [mat EXCEPT ![job.id].retry = Transition(mat[job.id].retry, late)]
                  /\ job' = Go("inventory") \/ job' = Drop
             /\ proof' = [proof EXCEPT ![r] = Publisher(r)] \/ UNCHANGED proof
    <2>1. PICK late \in BOOLEAN : /\ mat' = [mat EXCEPT ![job.id].retry = Transition(mat[job.id].retry, late)]
                                  /\ job' = Go("inventory") \/ job' = Drop
      BY <1>7
    <2>2. mat[job.id].retry \in Retries BY <1>2 DEF MatRecs
    <2>3. Touched BY <1>1, <1>2, <2>1, <2>2, RetryTyped, RetryOnly
    <2>4. TypeProof'
      <3>1. r \in Runs BY <1>1, <1>2, <1>7 DEF Materials, Owned
      <3>2. Publisher(r) \in Runs BY <1>1, <3>1 DEF Publisher, TypeRun, RunRecs
      <3>3. proof' \in [Runs -> {0} \cup Runs] BY <1>1, <1>7, <3>1, <3>2 DEF TypeProof
      <3> QED BY <1>1, <3>3, CaseSame DEF TypeProof
    <2>5. CASE job' = Drop
      <3>1. QuietMat /\ QuietRun /\ TypeScan' BY <1>1, <1>3, <2>3, TouchedQuiet, ScanSame
      <3> QED BY <2>4, <2>5, <3>1, DropStep
    <2>6. CASE job' = Go("inventory")
      <3>1. Cold(job.id) => ~Referenced(job.id)
        <4>1. Cold(job.id) => job.id[2] # "chunks" BY <1>1, <1>2, IdFacts DEF Names
        <4> QED BY <1>7, <4>1 DEF Kept, MaterialProtected
      <3> QED BY <1>2, <1>3, <1>7, <2>3, <2>4, <2>6, <3>1, GoStep
    <2> QED BY <2>1, <2>5, <2>6
  <1> QED BY <1>4, <1>5, <1>6, <1>7

LEMMA InventoryKeeps ==
  ASSUME IInv, QuietCase, Inventory PROVE IInv'
  <1>1. TypeLeft /\ TypeRun /\ TypeMat /\ TypeProof /\ TypeJob /\ TypeScan /\ Queued /\ Chosen /\ Stored
        /\ Materials /\ Item
    BY DEF IInv, Types, Item
  <1>2. job.step = "inventory" /\ job.id \in Ids /\ mat[job.id] \in MatRecs /\ mat[job.id].due
    BY AtHand DEF Inventory, At, Working
  <1>3. Rested /\ UNCHANGED <<scan, mat, proof>> BY DEF Inventory, Unchanged, Rested
  <1>4. Touched /\ TypeProof' /\ TypeScan' BY <1>1, <1>3, UntouchedFact, ProofSame, ScanSame
  <1>5. QuietMat /\ QuietRun BY <1>1, <1>3, <1>4, TouchedQuiet
  <1>6. CASE mat[job.id].status = "deleting"
    <2>1. job' = Go("hook") BY <1>6 DEF Inventory
    <2> QED BY <1>2, <1>3, <1>4, <1>6, <2>1, GoStep DEF Working
  <1>7. CASE mat[job.id].status # "deleting"
    <2> DEFINE step == IF job.id[2] \in {"runtime", "chunks"} THEN "archive" ELSE "persist"
    <2>1. job' = [job EXCEPT !.files = mat[job.id].has, !.step = step] BY <1>7 DEF Inventory
    <2>2. mat[job.id].has \in SUBSET Files BY <1>2 DEF MatRecs
    <2>3. step \in Steps BY DEF Steps
    <2>4. /\ job'.step = step /\ job'.queue = job.queue /\ job'.id = job.id
          /\ job'.files = mat[job.id].has /\ job'.pkg = job.pkg
          /\ job' \in [step : Steps, queue : SUBSET Ids, id : {None} \cup Ids, files : SUBSET Files,
                       pkg : {None} \cup Cellar]
      BY <1>1, <2>1, <2>2, <2>3 DEF TypeJob
    <2>5. TypeJob' BY <1>1, <2>4, CaseSame DEF TypeJob, At
    <2>6. job.pkg = None BY <1>1, <1>2 DEF Stored
    <2>7. mat[job.id].status = "present" /\ (Cold(job.id) => ~Referenced(job.id))
      BY <1>1, <1>2, <1>7 DEF Chosen, Working
    <2>8. Hot(job.id) => Parts("runtime") \subseteq mat[job.id].has
      BY <1>1, <1>2, <2>7 DEF Materials, Packed
    <2>9. Ids' = Ids /\ (\A n : Parts(n)' = Parts(n)) /\ mat' = mat BY <1>1, <1>3, CaseSame
    <2>10. Queued' BY <1>1, <2>4, <2>9 DEF Queued
    <2>11. Referenced(job.id)' => Referenced(job.id) BY <2>4, <2>9 DEF Referenced
    <2>12. Chosen'
      BY <1>2, <2>4, <2>7, <2>8, <2>9, <2>11 DEF Chosen, Working, Hot, Cold
    <2>13. Stored' BY <2>4, <2>6 DEF Stored, Hot
    <2> QED BY <1>4, <1>5, <2>5, <2>10, <2>12, <2>13, StepKeeps DEF Item
  <1> QED BY <1>6, <1>7

\* a package that nothing is bound to yet and that is empty
LEMMA RoomFact ==
  ASSUME IInv, NEW p \in Cellar, mat[p].status = "absent"
  PROVE  Unbound(p) /\ mat[p].has = {} /\ p \in Ids /\ Cold(p) /\ p[2] # "cache" /\ p # None
  <1>1. TypeLeft /\ TypeMat /\ Materials BY DEF IInv, Types
  <1>2. p \in Ids /\ Cold(p) /\ p # None /\ p[2] \notin Names BY <1>1, IdFacts
  <1>3. Unbound(p) BY <1>1, <1>2 DEF Materials, Packed, Unbound
  <1>4. mat[p].has = {} BY <1>1, <1>2 DEF Materials, Justified
  <1> QED BY <1>2, <1>3, <1>4 DEF Names

\* a package of the item at hand is not the item
LEMMA PackageApart ==
  ASSUME IInv, job.step \in {"write", "finish"}
  PROVE  /\ job.pkg \in Ids /\ Cold(job.pkg) /\ job.pkg # job.id /\ mat[job.pkg] \in MatRecs
         /\ job.pkg \in Cellar /\ job.pkg[2] # "cache"
         /\ job.id \in Ids /\ ~Cold(job.id) /\ mat[job.id] \in MatRecs
  <1>1. TypeLeft /\ TypeMat /\ TypeJob /\ Chosen /\ Stored BY DEF IInv, Types, Item
  <1>2. job.pkg \in Cellar BY <1>1 DEF TypeJob, Stored
  <1>3. job.pkg \in Ids /\ Cold(job.pkg) /\ job.pkg[2] \notin Names BY <1>1, <1>2, IdFacts
  <1>4. job.id \in Ids /\ job.id[2] \in Names BY <1>1 DEF Chosen, Working, Names
  <1>5. ~Cold(job.id) BY <1>1, <1>4, IdFacts
  <1> QED BY <1>1, <1>2, <1>3, <1>4, <1>5 DEF TypeMat, Names

LEMMA ArchiveKeeps ==
  ASSUME IInv, QuietCase, Archive PROVE IInv'
  <1>1. TypeLeft /\ TypeRun /\ TypeMat /\ TypeProof /\ TypeJob /\ TypeScan /\ Queued /\ Chosen /\ Stored
        /\ Materials /\ Item
    BY DEF IInv, Types, Item
  <1>2. job.step = "archive" /\ job.id \in Ids /\ mat[job.id] \in MatRecs /\ mat[job.id].due
    BY AtHand DEF Archive, At, Working
  <1>3. Rested /\ UNCHANGED <<scan, proof>> BY DEF Archive, Unchanged, Rested
  <1>4. TypeProof' /\ TypeScan' /\ QuietRun BY <1>1, <1>3, ProofSame, ScanSame, RestedQuiet
  <1> DEFINE room == {p \in {0} \X Packages : mat[p].status = "absent"}
  <1>5. \/ mat' = [mat EXCEPT ![job.id].retry.st = "ready"] /\ job' = Drop
        \/ Failed(mat, job.id)
        \/ /\ room # {}
           /\ mat' = [mat EXCEPT ![CHOOSE q \in room : TRUE] =
                        [@ EXCEPT !.status = "present", !.partial = TRUE, !.run = mat[job.id].run]]
           /\ job' = [job EXCEPT !.pkg = CHOOSE q \in room : TRUE, !.step = "write"]
    BY DEF Archive
  <1>6. CASE mat' = [mat EXCEPT ![job.id].retry.st = "ready"] /\ job' = Drop
    <2> DEFINE x == [mat[job.id].retry EXCEPT !.st = "ready"]
    <2>1. x \in Retries BY <1>2, RetryTyped DEF MatRecs
    <2>2. mat' = [mat EXCEPT ![job.id].retry = x] BY <1>1, <1>2, <1>6 DEF TypeMat
    <2>3. Touched BY <1>1, <1>2, <2>1, <2>2, RetryOnly
    <2>4. QuietMat BY <1>1, <1>3, <2>3, TouchedQuiet
    <2> QED BY <1>4, <1>6, <2>4, DropStep
  <1>7. CASE Failed(mat, job.id) BY <1>2, <1>3, <1>7, FailedStep
  <1>8. CASE /\ room # {}
             /\ mat' = [mat EXCEPT ![CHOOSE q \in room : TRUE] =
                          [@ EXCEPT !.status = "present", !.partial = TRUE, !.run = mat[job.id].run]]
             /\ job' = [job EXCEPT !.pkg = CHOOSE q \in room : TRUE, !.step = "write"]
    <2>1. PICK p \in room :
             /\ mat' = [mat EXCEPT ![p] = [@ EXCEPT !.status = "present", !.partial = TRUE, !.run = mat[job.id].run]]
             /\ job' = [job EXCEPT !.pkg = p, !.step = "write"]
      BY <1>8
    <2>2. p \in Cellar /\ mat[p].status = "absent" BY DEF Cellar
    <2>3. Unbound(p) /\ mat[p].has = {} /\ p \in Ids /\ Cold(p) /\ p[2] # "cache" /\ p # None
      BY <2>2, RoomFact
    <2>4. mat[job.id].status = "present" /\ job.id[2] \in Names /\ job.files \subseteq mat[job.id].has
          /\ (Hot(job.id) => Parts("runtime") \subseteq job.files) /\ job.id[2] \in {"runtime", "chunks"}
      BY <1>1, <1>2 DEF Chosen, Names
    <2>5. ~Cold(job.id) /\ job.id # p BY <1>1, <1>2, <2>3, <2>4, IdFacts
    <2>6. mat[job.id].run \in Runs /\ run[mat[job.id].run].phase # "none"
      BY <1>1, <1>2, <2>4 DEF Materials, Owned
    <2>7. mat[p] \in MatRecs BY <1>1, <2>3 DEF TypeMat
    <2> DEFINE x == [mat[p] EXCEPT !.status = "present", !.partial = TRUE, !.run = mat[job.id].run]
    <2>8. /\ x \in MatRecs /\ x.status = "present" /\ x.run = mat[job.id].run /\ x.has = mat[p].has
          /\ x.man = mat[p].man /\ x.arch = mat[p].arch /\ x.due = mat[p].due
      BY <2>6, <2>7 DEF MatRecs
    <2> HIDE DEF x
    <2>9. mat' = [mat EXCEPT ![p] = x] BY <1>1, <2>1, <2>3 DEF TypeMat, x
    <2>10. mat' \in [Ids -> MatRecs] /\ mat'[p] = x /\ \A m \in Ids : m # p => mat'[m] = mat[m]
      BY <1>1, <2>3, <2>8, <2>9 DEF TypeMat
    <2>11. QuietMat BY <1>3, <2>2, <2>3, <2>6, <2>8, <2>10 DEF QuietMat, Rested
    <2>12. /\ job'.step = "write" /\ job'.queue = job.queue /\ job'.id = job.id
           /\ job'.files = job.files /\ job'.pkg = p
           /\ job' \in [step : Steps, queue : SUBSET Ids, id : {None} \cup Ids, files : SUBSET Files,
                        pkg : {None} \cup Cellar]
      BY <1>1, <2>1, <2>2 DEF TypeJob, Steps
    <2>13. TypeJob' BY <1>1, <2>12, CaseSame DEF TypeJob, At
    <2>14. Ids' = Ids /\ \A n : Parts(n)' = Parts(n) BY <1>1, CaseSame
    <2>15. mat'[job.id] = mat[job.id] BY <1>2, <2>5, <2>10
    <2>16. Queued'
      <3>1. \A m \in job.queue : mat'[m].due /\ mat'[m].status \in {"present", "deleting", "deleted"}
        BY <1>1, <2>11, QueueKept
      <3> QED BY <2>12, <3>1 DEF Queued
    <2>17. Chosen' BY <1>2, <2>4, <2>5, <2>12, <2>14, <2>15 DEF Chosen, Working, Hot, Cold
    <2>18. Unbound(p)' BY <2>3, <2>8, <2>10, <2>14 DEF Unbound
    <2>19. Stored' BY <2>3, <2>8, <2>10, <2>12, <2>15, <2>18 DEF Stored
    <2> QED BY <1>4, <2>11, <2>13, <2>16, <2>17, <2>19, StepKeeps DEF Item
  <1> QED BY <1>5, <1>6, <1>7, <1>8

\* the bytes of a package arrive while it is still partial
Copy(m0, files) ==
    /\ m0 \in [Ids -> MatRecs] /\ m0[job.pkg].has = files
    /\ m0[job.pkg].status = mat[job.pkg].status /\ m0[job.pkg].run = mat[job.pkg].run
    /\ \A m \in Ids : /\ m0[m].status = mat[m].status /\ m0[m].run = mat[m].run
                      /\ m0[m].man = mat[m].man /\ m0[m].arch = mat[m].arch
                      /\ m0[m].due = mat[m].due /\ m0[m].retry = mat[m].retry
                      /\ mat[m].has \subseteq m0[m].has
                      /\ m # job.pkg => m0[m] = mat[m]
                      /\ m[2] = "cache" \/ mat[m].status = "absent" => m0[m].has = mat[m].has

LEMMA CopyFact ==
  ASSUME IInv, job.step = "write", NEW files \in SUBSET Files
  PROVE  Copy([mat EXCEPT ![job.pkg].has = files], files)
  <1> DEFINE m0 == [mat EXCEPT ![job.pkg].has = files]
  <1>1. TypeMat BY DEF IInv, Types
  <1>2. job.pkg \in Ids /\ mat[job.pkg] \in MatRecs /\ job.pkg[2] # "cache" BY PackageApart
  <1>3. mat[job.pkg].has = {} /\ mat[job.pkg].status = "present" BY DEF IInv, Item, Stored
  <1> DEFINE x == [mat[job.pkg] EXCEPT !.has = files]
  <1>4. /\ x \in MatRecs /\ x.has = files /\ x.status = mat[job.pkg].status /\ x.run = mat[job.pkg].run
        /\ x.man = mat[job.pkg].man /\ x.arch = mat[job.pkg].arch /\ x.due = mat[job.pkg].due
        /\ x.retry = mat[job.pkg].retry
    BY <1>2 DEF MatRecs
  <1>5. m0 = [mat EXCEPT ![job.pkg] = x] OBVIOUS
  <1> HIDE DEF x
  <1>6. m0 \in [Ids -> MatRecs] /\ m0[job.pkg] = x /\ \A m \in Ids : m # job.pkg => m0[m] = mat[m]
    BY <1>1, <1>2, <1>4, <1>5 DEF TypeMat
  <1> HIDE DEF m0
  <1>7. Copy(m0, files) BY <1>2, <1>3, <1>4, <1>6 DEF Copy
  <1> QED BY <1>7 DEF m0

LEMMA WriteKeeps ==
  ASSUME IInv, QuietCase, Write PROVE IInv'
  <1>1. TypeLeft /\ TypeRun /\ TypeMat /\ TypeProof /\ TypeJob /\ TypeScan /\ Queued /\ Chosen /\ Stored
        /\ Materials /\ Item
    BY DEF IInv, Types, Item
  <1>2. job.step = "write" BY DEF Write, At
  <1>3. Rested /\ UNCHANGED <<scan, proof>> BY DEF Write, Unchanged, Rested
  <1>4. TypeProof' /\ TypeScan' /\ QuietRun BY <1>1, <1>3, ProofSame, ScanSame, RestedQuiet
  <1>5. /\ job.pkg \in Ids /\ Cold(job.pkg) /\ job.pkg # job.id /\ mat[job.pkg] \in MatRecs
        /\ job.pkg \in Cellar /\ job.pkg[2] # "cache"
        /\ job.id \in Ids /\ ~Cold(job.id) /\ mat[job.id] \in MatRecs /\ job.files \in SUBSET Files
    BY <1>1, <1>2, PackageApart DEF TypeJob
  <1>6. CASE mat' = Copied(job.pkg, job.files) /\ job' = Go("finish")
    <2> DEFINE m0 == [mat EXCEPT ![job.pkg].has = job.files]
    <2>1. mat' = m0 BY <1>6 DEF Copied
    <2> HIDE DEF m0
    <2>2. /\ mat' \in [Ids -> MatRecs] /\ mat'[job.pkg].has = job.files
          /\ mat'[job.pkg].status = mat[job.pkg].status /\ mat'[job.pkg].run = mat[job.pkg].run
          /\ \A m \in Ids : /\ mat'[m].status = mat[m].status /\ mat'[m].run = mat[m].run
                            /\ mat'[m].man = mat[m].man /\ mat'[m].arch = mat[m].arch
                            /\ mat'[m].due = mat[m].due /\ mat'[m].retry = mat[m].retry
                            /\ mat[m].has \subseteq mat'[m].has
                            /\ m # job.pkg => mat'[m] = mat[m]
                            /\ m[2] = "cache" \/ mat[m].status = "absent" => mat'[m].has = mat[m].has
      <3>1. Copy(m0, job.files) BY <1>2, <1>5, CopyFact DEF m0
      <3> QED BY <2>1, <3>1 DEF Copy
    <2>3. QuietMat BY <2>2 DEF QuietMat
    <2>4. TypeJob' /\ job'.step = "finish" /\ job'.queue = job.queue /\ job'.id = job.id
          /\ job'.files = job.files /\ job'.pkg = job.pkg
      BY <1>1, <1>6, GoTyped DEF Steps
    <2>5. Ids' = Ids /\ \A n : Parts(n)' = Parts(n) BY <1>1, CaseSame
    <2>6. Queued'
      <3>1. \A m \in job.queue : mat'[m].due /\ mat'[m].status \in {"present", "deleting", "deleted"}
        BY <1>1, <2>3, QueueKept
      <3> QED BY <2>4, <3>1 DEF Queued
    <2>7. mat'[job.id] = mat[job.id] BY <1>5, <2>2
    <2>8. Chosen' BY <1>1, <1>2, <1>5, <2>4, <2>5, <2>7 DEF Chosen, Working, Hot, Cold
    <2>9. Unbound(job.pkg)'
      <3>1. Unbound(job.pkg) BY <1>1, <1>2 DEF Stored
      <3> QED BY <2>2, <2>4, <2>5, <3>1 DEF Unbound
    <2>10. Stored' BY <1>1, <1>2, <2>2, <2>4, <2>7, <2>9 DEF Stored
    <2> QED BY <1>4, <2>3, <2>4, <2>6, <2>8, <2>10, StepKeeps DEF Item
  <1>7. CASE Failed(mat, job.id) BY <1>3, <1>5, <1>7, FailedStep
  <1>8. CASE \E some \in SUBSET job.files : Failed([mat EXCEPT ![job.pkg].has = some], job.id)
    <2>1. PICK some \in SUBSET job.files : Failed([mat EXCEPT ![job.pkg].has = some], job.id) BY <1>8
    <2> DEFINE m0 == [mat EXCEPT ![job.pkg].has = some]
    <2>2. PICK late \in BOOLEAN : mat' = [m0 EXCEPT ![job.id].retry = Fail(@, late)] /\ job' = Drop
      BY <1>1, <2>1, LateBool DEF Failed
    <2>3. some \in SUBSET Files BY <1>5
    <2> HIDE DEF m0
    <2>4. /\ m0 \in [Ids -> MatRecs] /\ m0[job.pkg].has = some
          /\ m0[job.pkg].status = mat[job.pkg].status /\ m0[job.pkg].run = mat[job.pkg].run
          /\ \A m \in Ids : /\ m0[m].status = mat[m].status /\ m0[m].run = mat[m].run
                            /\ m0[m].man = mat[m].man /\ m0[m].arch = mat[m].arch
                            /\ m0[m].due = mat[m].due /\ m0[m].retry = mat[m].retry
                            /\ mat[m].has \subseteq m0[m].has
                            /\ m # job.pkg => m0[m] = mat[m]
                            /\ m[2] = "cache" \/ mat[m].status = "absent" => m0[m].has = mat[m].has
      <3>1. Copy(m0, some) BY <1>2, <2>3, CopyFact DEF m0
      <3> QED BY <3>1 DEF Copy
    <2> DEFINE x == [m0[job.id] EXCEPT !.retry = Fail(m0[job.id].retry, late)]
    <2>5. m0[job.id] \in MatRecs BY <1>5, <2>4
    <2>6. Fail(m0[job.id].retry, late) \in Retries
      <3>1. m0[job.id].retry \in Retries BY <2>5 DEF MatRecs
      <3> QED BY <3>1, RetryTyped
    <2>7. /\ x \in MatRecs /\ x.status = m0[job.id].status /\ x.run = m0[job.id].run /\ x.has = m0[job.id].has
          /\ x.man = m0[job.id].man /\ x.arch = m0[job.id].arch /\ x.due = m0[job.id].due
      BY <2>5, <2>6 DEF MatRecs
    <2>8. mat' = [m0 EXCEPT ![job.id] = x] BY <2>2, <2>4
    <2> HIDE DEF x
    <2>9. mat' \in [Ids -> MatRecs] /\ mat'[job.id] = x /\ \A m \in Ids : m # job.id => mat'[m] = m0[m]
      BY <1>5, <2>4, <2>7, <2>8
    <2>10. QuietMat BY <2>4, <2>7, <2>9 DEF QuietMat
    <2> QED BY <1>4, <2>2, <2>10, DropStep
  <1> QED BY <1>6, <1>7, <1>8 DEF Write

LEMMA FinishKeeps ==
  ASSUME IInv, QuietCase, Finish PROVE IInv'
  <1>1. TypeLeft /\ TypeMat /\ TypeProof BY DEF IInv, Types
  <1>2. job.step = "finish" /\ Hot(job.id) /\ job' = Go("persist")
        /\ mat' = [mat EXCEPT ![job.pkg].partial = FALSE]
    BY DEF Finish, At
  <1>3. Rested /\ UNCHANGED <<scan, proof>> BY DEF Finish, Unchanged, Rested
  <1>4. job.pkg \in Ids /\ mat[job.pkg] \in MatRecs BY <1>2, PackageApart
  <1>5. Touched
    <2> DEFINE x == [mat[job.pkg] EXCEPT !.partial = FALSE]
    <2>1. /\ x \in MatRecs /\ x.status = mat[job.pkg].status /\ x.run = mat[job.pkg].run
          /\ x.has = mat[job.pkg].has /\ x.man = mat[job.pkg].man /\ x.arch = mat[job.pkg].arch
          /\ x.due = mat[job.pkg].due
      BY <1>4 DEF MatRecs
    <2>2. mat' = [mat EXCEPT ![job.pkg] = x] BY <1>2
    <2> HIDE DEF x
    <2>3. mat' \in [Ids -> MatRecs] /\ mat'[job.pkg] = x /\ \A m \in Ids : m # job.pkg => mat'[m] = mat[m]
      BY <1>1, <1>4, <2>1, <2>2 DEF TypeMat
    <2> QED BY <2>1, <2>3 DEF Touched
  <1>6. TypeProof' BY <1>1, <1>3, ProofSame
  <1> QED BY <1>2, <1>3, <1>5, <1>6, GoStep DEF Working

LEMMA BeforeRemoveKeeps ==
  ASSUME IInv, QuietCase, BeforeRemove PROVE IInv'
  <1>1. TypeLeft /\ TypeMat /\ TypeProof /\ Chosen BY DEF IInv, Types, Item
  <1>2. job.step = "hook" /\ job.id \in Ids BY AtHand DEF BeforeRemove, At, Working
  <1>3. Rested /\ UNCHANGED <<scan, proof>> BY DEF BeforeRemove, Unchanged, Rested
  <1>4. CASE Failed(mat, job.id) BY <1>2, <1>3, <1>4, FailedStep
  <1>5. CASE job' = Go("delete") /\ UNCHANGED mat
    <2>1. Touched /\ TypeProof' BY <1>1, <1>3, <1>5, UntouchedFact, ProofSame
    <2>2. mat[job.id].status = "deleting" BY <1>1, <1>2 DEF Chosen
    <2> QED BY <1>2, <1>3, <1>5, <2>1, <2>2, GoStep DEF Working
  <1> QED BY <1>4, <1>5 DEF BeforeRemove

\* the phases a Run may take, and what it keeps once it is over
LEMMA RunGoes ==
  ASSUME TypeRun, NEW r \in Runs, run' \in [Runs -> RunRecs],
         \A q \in Runs : /\ run'[q].resolved = run[q].resolved
                         /\ q # r => run'[q].phase = run[q].phase /\ run'[q].clean = run[q].clean,
         \/ run[r].phase \notin Over /\ run'[r].phase # "none"
         \/ run[r].phase # "done" /\ run'[r].phase \in Over /\ run'[r].clean = run[r].clean
  PROVE  QuietRun
  BY DEF QuietRun, Over, Phases

\* one Run changes
LEMMA RunSet ==
  ASSUME TypeRun, NEW r \in Runs, NEW x \in RunRecs, x.resolved = run[r].resolved,
         \/ run[r].phase \notin Over /\ x.phase # "none"
         \/ run[r].phase # "done" /\ x.phase \in Over /\ x.clean = run[r].clean,
         run' = [run EXCEPT ![r] = x]
  PROVE  QuietRun
  <1>1. run' \in [Runs -> RunRecs] /\ run'[r] = x /\ \A q \in Runs : q # r => run'[q] = run[q]
    BY DEF TypeRun
  <1> QED BY <1>1, RunGoes

LEMMA JudgedQuiet ==
  ASSUME TypeRun, NEW r \in Runs, NEW next \in Over, run[r].phase \in Over \ {"done"},
         run' = Judged(r, next)
  PROVE  QuietRun
  <1>1. ASSUME NEW q \in Runs
        PROVE  /\ run'[q] \in RunRecs /\ run'[q].resolved = run[q].resolved
               /\ run'[q].clean = run[q].clean
               /\ run'[q].phase = IF q = r THEN next ELSE run[q].phase
    <2>1. run[q] \in RunRecs /\ next \in Phases BY DEF TypeRun, Over
    <2>2. \/ run'[q] = [run[q] EXCEPT !.phase = next] /\ q = r
          \/ run'[q] = [run[q] EXCEPT !.repair = FALSE] /\ q # r
          \/ run'[q] = run[q] /\ q # r
      BY DEF Judged
    <2> QED BY <2>1, <2>2 DEF RunRecs
  <1>2. run' \in [Runs -> RunRecs]
    <2>1. run' = [q \in Runs |-> run'[q]] BY DEF Judged
    <2> QED BY <1>1, <2>1
  <1> QED BY <1>1, <1>2, RunGoes

LEMMA RunKeeps ==
  ASSUME IInv, QuietCase, NEW r \in Runs,
         \/ StartRun(r) \/ EndRun(r) \/ Validate(r) \/ EndValidation(r) \/ GiveUp(r)
         \/ RequestRepair(r) \/ Release(r)
  PROVE  IInv'
  <1>1. TypeRun /\ run[r] \in RunRecs BY DEF IInv, Types, TypeRun
  <1>2. UNCHANGED <<mat, proof, job, scan>>
    BY DEF StartRun, EndRun, Validate, EndValidation, GiveUp, RequestRepair, Release
  <1> SUFFICES QuietRun BY <1>2, RunStep
  <1>3. ASSUME NEW next \in Over, run[r].phase \in Over \ {"done"}, run' = [run EXCEPT ![r].phase = next]
        PROVE  QuietRun
    <2> DEFINE x == [run[r] EXCEPT !.phase = next]
    <2>1. run' = [run EXCEPT ![r] = x] BY <1>1, <1>3 DEF TypeRun
    <2>2. x \in RunRecs /\ x.resolved = run[r].resolved /\ x.phase = next /\ x.clean = run[r].clean
      BY <1>1 DEF RunRecs, Over
    <2> HIDE DEF x
    <2> QED BY <1>1, <1>3, <2>1, <2>2, RunSet
  <1>4. CASE StartRun(r)
    <2>1. PICK linked \in BOOLEAN : run' = [run EXCEPT ![r].phase = "running", ![r].linked = linked /\ r > 1]
      BY <1>4 DEF StartRun
    <2> DEFINE b == linked /\ r > 1
               x == [run[r] EXCEPT !.phase = "running", !.linked = b]
    <2>2. b \in BOOLEAN OBVIOUS
    <2>3. run' = [run EXCEPT ![r] = x] BY <1>1, <2>1 DEF TypeRun
    <2> HIDE DEF b
    <2>4. x \in RunRecs /\ x.resolved = run[r].resolved /\ x.phase = "running"
      BY <1>1, <2>2 DEF RunRecs, Phases
    <2> HIDE DEF x
    <2>5. run[r].phase \notin Over BY <1>4 DEF StartRun, Over
    <2> QED BY <1>1, <2>3, <2>4, <2>5, RunSet
  <1>5. CASE EndRun(r)
    <2>1. PICK next \in {"waiting", "failed"}, clean \in BOOLEAN :
             run' = [run EXCEPT ![r].phase = next, ![r].clean = clean]
      BY <1>5 DEF EndRun
    <2> DEFINE x == [run[r] EXCEPT !.phase = next, !.clean = clean]
    <2>2. run' = [run EXCEPT ![r] = x] BY <1>1, <2>1 DEF TypeRun
    <2>4. x \in RunRecs /\ x.resolved = run[r].resolved /\ x.phase # "none"
      BY <1>1 DEF RunRecs, Phases
    <2> HIDE DEF x
    <2>5. run[r].phase \notin Over BY <1>5 DEF EndRun, Over
    <2> QED BY <1>1, <2>2, <2>4, <2>5, RunSet
  <1>6. CASE Validate(r) BY <1>3, <1>6 DEF Validate, Over, Phases
  <1>7. CASE EndValidation(r)
    <2>1. \E next \in Over : run' = Judged(r, next) BY <1>7 DEF EndValidation, Over, Phases
    <2>2. run[r].phase \in Over \ {"done"} BY <1>7 DEF EndValidation, Over, Phases
    <2> QED BY <1>1, <2>1, <2>2, JudgedQuiet
  <1>8. CASE GiveUp(r)
    <2>1. "rejected" \in Over /\ run' = Judged(r, "rejected") /\ run[r].phase \in Over \ {"done"}
      BY <1>8 DEF GiveUp, Over, Phases
    <2> QED BY <1>1, <2>1, JudgedQuiet
  <1>9. CASE RequestRepair(r)
    <2> DEFINE x == [run[r] EXCEPT !.repair = TRUE]
    <2>1. run' = [run EXCEPT ![r] = x] BY <1>9 DEF RequestRepair
    <2>2. x \in RunRecs /\ x.resolved = run[r].resolved /\ x.phase = run[r].phase /\ x.clean = run[r].clean
      BY <1>1 DEF RunRecs
    <2> HIDE DEF x
    <2>3. run[r].phase \in Over \ {"done"} BY <1>9 DEF RequestRepair, Over, Phases
    <2> QED BY <1>1, <2>1, <2>2, <2>3, RunSet
  <1>10. CASE Release(r) BY <1>3, <1>10 DEF Release, Over, Phases
  <1> QED BY <1>4, <1>5, <1>6, <1>7, <1>8, <1>9, <1>10

\* one material changes in what the scan does not look at, or grows by a file
LEMMA MaterialStep ==
  ASSUME IInv, QuietCase, Rested, UNCHANGED <<proof, job, scan>>, NEW id \in Ids, NEW x \in MatRecs,
         mat' = [mat EXCEPT ![id] = x], x.status = mat[id].status, x.run = mat[id].run,
         x.man = mat[id].man, x.arch = mat[id].arch, mat[id].due => x.due, mat[id].has \subseteq x.has,
         Cold(id) \/ id[2] = "cache" \/ mat[id].status = "absent" => x.has = mat[id].has
  PROVE  IInv'
  <1>1. TypeRun /\ TypeMat /\ TypeScan BY DEF IInv, Types
  <1>2. mat' \in [Ids -> MatRecs] /\ mat'[id] = x /\ \A m \in Ids : m # id => mat'[m] = mat[m]
    BY <1>1 DEF TypeMat
  <1>3. QuietMat BY <1>2 DEF QuietMat
  <1>4. QuietRun /\ TypeScan' BY <1>1, RestedQuiet, ScanSame
  <1>5. \A m \in Ids : /\ mat'[m].status = mat[m].status /\ mat'[m].run = mat[m].run
                       /\ Cold(m) => mat'[m].has = mat[m].has
    BY <1>2
  <1> QED BY <1>3, <1>4, <1>5, OtherStep

LEMMA ExpireKeeps ==
  ASSUME IInv, QuietCase, NEW id \in Ids, Expire(id) PROVE IInv'
  <1>1. mat[id] \in MatRecs BY DEF IInv, Types, TypeMat
  <1> DEFINE x == [mat[id] EXCEPT !.due = TRUE]
  <1>2. mat' = [mat EXCEPT ![id] = x] BY DEF Expire
  <1>3. /\ x \in MatRecs /\ x.status = mat[id].status /\ x.run = mat[id].run /\ x.man = mat[id].man
        /\ x.arch = mat[id].arch /\ x.due /\ x.has = mat[id].has
    BY <1>1 DEF MatRecs
  <1> HIDE DEF x
  <1>4. Rested /\ UNCHANGED <<proof, job, scan>> BY DEF Expire, Rested
  <1> QED BY <1>2, <1>3, <1>4, MaterialStep

LEMMA AppearKeeps ==
  ASSUME IInv, QuietCase, NEW id \in Ids, Appear(id) PROVE IInv'
  <1>1. mat[id] \in MatRecs BY DEF IInv, Types, TypeMat
  <1> DEFINE files == mat[id].has \cup {"foreign"}
             x == [mat[id] EXCEPT !.has = files]
  <1>2. mat' = [mat EXCEPT ![id] = x] BY DEF Appear
  <1>3. files \in SUBSET Files /\ mat[id].has \subseteq files BY <1>1 DEF MatRecs, Files
  <1> HIDE DEF files
  <1>4. /\ x \in MatRecs /\ x.status = mat[id].status /\ x.run = mat[id].run /\ x.man = mat[id].man
        /\ x.arch = mat[id].arch /\ x.due = mat[id].due /\ x.has = files
    BY <1>1, <1>3 DEF MatRecs
  <1> HIDE DEF x
  <1>5. Rested /\ UNCHANGED <<proof, job, scan>> BY DEF Appear, Rested
  <1>6. ~Cold(id) /\ id[2] # "cache" /\ mat[id].status # "absent" BY DEF Appear
  <1> QED BY <1>2, <1>3, <1>4, <1>5, <1>6, MaterialStep

LEMMA ReplaceCacheKeeps ==
  ASSUME IInv, QuietCase, NEW r \in Runs, ReplaceCache(r) PROVE IInv'
  <1> DEFINE id == <<r, "cache">>
  <1>1. id \in Ids BY IdFacts DEF IInv, Types, ReplaceCache
  <1>2. mat[id] \in MatRecs BY <1>1 DEF IInv, Types, TypeMat
  <1> DEFINE x == [mat[id] EXCEPT !.same = FALSE]
  <1>3. mat' = [mat EXCEPT ![id] = x] BY DEF ReplaceCache
  <1>4. Rested /\ UNCHANGED <<proof, job, scan>> BY DEF ReplaceCache, Rested
  <1> HIDE DEF id
  <1>5. /\ x \in MatRecs /\ x.status = mat[id].status /\ x.run = mat[id].run /\ x.man = mat[id].man
        /\ x.arch = mat[id].arch /\ x.due = mat[id].due /\ x.has = mat[id].has
    BY <1>2 DEF MatRecs
  <1> HIDE DEF x
  <1> QED BY <1>1, <1>3, <1>4, <1>5, MaterialStep

LEMMA CrashKeeps ==
  ASSUME IInv, QuietCase, Crash PROVE IInv'
  <1>1. TypeLeft /\ TypeRun /\ TypeMat /\ TypeProof /\ TypeScan BY DEF IInv, Types
  <1>2. Rested /\ Touched /\ TypeProof' /\ TypeScan' /\ job' = Idle
    BY <1>1, UntouchedFact, ProofSame, ScanSame DEF Crash, Rested
  <1>3. QuietMat /\ QuietRun BY <1>1, <1>2, TouchedQuiet
  <1> QED BY <1>2, <1>3, DropStep

LEMMA AuthorizeKeeps ==
  ASSUME IInv, QuietCase, Authorize PROVE IInv'
  <1>1. TypeRun /\ TypeMat BY DEF IInv, Types
  <1>2. Rested /\ UNCHANGED <<proof, job>> BY DEF Authorize, Rested
  <1>3. TypeScan' BY DEF Authorize, TypeScan, Retries
  <1>4. mat' = [id \in Ids |-> IF mat[id].retry.st \in {"todo", "shelved"}
                               THEN [mat[id] EXCEPT !.retry = Granted(@)] ELSE mat[id]]
    BY DEF Authorize
  <1>5. ASSUME NEW id \in Ids
        PROVE  /\ mat'[id] \in MatRecs /\ mat'[id].status = mat[id].status /\ mat'[id].run = mat[id].run
               /\ mat'[id].man = mat[id].man /\ mat'[id].arch = mat[id].arch
               /\ mat'[id].due = mat[id].due /\ mat'[id].has = mat[id].has
    <2>1. mat[id] \in MatRecs BY <1>1 DEF TypeMat
    <2>2. Granted(mat[id].retry) \in Retries
      <3>1. mat[id].retry \in Retries BY <2>1 DEF MatRecs
      <3> QED BY <3>1, RetryTyped
    <2>3. mat'[id] = mat[id] \/ mat'[id] = [mat[id] EXCEPT !.retry = Granted(mat[id].retry)] BY <1>4
    <2> QED BY <2>1, <2>2, <2>3 DEF MatRecs
  <1>6. mat' \in [Ids -> MatRecs]
    <2>1. mat' = [m \in Ids |-> mat'[m]] BY <1>4
    <2> QED BY <1>5, <2>1
  <1>7. Touched BY <1>5, <1>6 DEF Touched
  <1>8. QuietMat /\ QuietRun BY <1>1, <1>2, <1>7, TouchedQuiet
  <1>9. \A m \in Ids : /\ mat'[m].status = mat[m].status /\ mat'[m].run = mat[m].run
                       /\ Cold(m) => mat'[m].has = mat[m].has
    BY <1>5
  <1> QED BY <1>2, <1>3, <1>8, <1>9, OtherStep

----------------------------------------------------------------------------
(* The steps that decide a removal or carry it out.                         *)

LEMMA PairFact ==
  ASSUME NEW id \in Ids PROVE id = <<id[1], id[2]>>
  BY DEF Ids

\* with no Run active every Run that was started is over
LEMMA QuietRequirement ==
  ASSUME TypeRun, NEW r \in Runs, ~Active, run[r].phase # "none"
  PROVE  run[r].phase \in Over
  BY DEF TypeRun, RunRecs, Active, Over

LEMMA ArchFact ==
  ASSUME TypeLeft, TypeMat, Materials, NEW m \in Ids, mat[m].arch # None
  PROVE  mat[m].arch \in Ids /\ Cold(mat[m].arch) /\ ~Cold(m) /\ mat[m].arch # m
  <1>1. mat[m].arch \in Cellar BY DEF TypeMat, MatRecs
  <1>2. mat[m].arch \in Ids /\ Cold(mat[m].arch) BY <1>1, IdFacts
  <1>3. ~Cold(m) BY DEF Materials, Packed
  <1> QED BY <1>2, <1>3

\* nothing that a repeated deletion relies on is a package that is being removed
LEMMA UnreferencedFact ==
  ASSUME NEW id, ~Referenced(id), NEW m \in Ids, mat[m].arch = id
  PROVE  mat[m].status = "deleted"
  BY DEF Referenced

LEMMA PersistKeeps ==
  ASSUME IInv, QuietCase, Persist PROVE IInv'
  <1>1. TypeLeft /\ TypeRun /\ TypeMat /\ TypeProof /\ TypeJob /\ TypeScan /\ Queued /\ Chosen /\ Stored
        /\ Materials /\ Item
    BY DEF IInv, Types, Item
  <1>2. job.step = "persist" /\ job.id \in Ids /\ mat[job.id] \in MatRecs /\ mat[job.id].due
    BY AtHand DEF Persist, At, Working
  <1>3. Rested /\ UNCHANGED <<scan, proof>> BY DEF Persist, Unchanged, Rested
  <1>4. TypeProof' /\ TypeScan' /\ QuietRun BY <1>1, <1>3, ProofSame, ScanSame, RestedQuiet
  <1>5. CASE Failed(mat, job.id) BY <1>2, <1>3, <1>5, FailedStep
  <1>6. CASE /\ ~Protected(mat[job.id].run, Recovery(job.id), Cold(job.id))
             /\ mat' = [mat EXCEPT ![job.id].status = "deleting", ![job.id].man = job.files,
                                   ![job.id].arch = job.pkg]
             /\ job' = Go("hook")
    <2> DEFINE id == job.id
               x == [mat[job.id] EXCEPT !.status = "deleting", !.man = job.files, !.arch = job.pkg]
    <2>1. mat' = [mat EXCEPT ![job.id] = x] BY <1>1, <1>2, <1>6 DEF TypeMat
    <2>2. job.files \in SUBSET Files /\ job.pkg \in {None} \cup Cellar BY <1>1 DEF TypeJob
    <2>3. /\ x \in MatRecs /\ x.status = "deleting" /\ x.run = mat[id].run /\ x.man = job.files
          /\ x.arch = job.pkg /\ x.due = mat[id].due /\ x.has = mat[id].has
      BY <1>2, <2>2 DEF MatRecs
    <2> HIDE DEF x
    <2>4. mat' \in [Ids -> MatRecs] /\ mat'[id] = x /\ \A m \in Ids : m # id => mat'[m] = mat[m]
      BY <1>1, <1>2, <2>1, <2>3 DEF TypeMat
    <2>5. /\ mat[id].status = "present" /\ job.files \subseteq mat[id].has /\ id[2] # "chunks"
          /\ Hot(id) => Parts("runtime") \subseteq job.files
          /\ Cold(id) => ~Referenced(id)
      BY <1>1, <1>2 DEF Chosen, Working
    <2>6. /\ Hot(id) <=> job.pkg # None
          /\ job.pkg # None => /\ mat[job.pkg].status = "present" /\ mat[job.pkg].run = mat[id].run
                               /\ job.files \subseteq mat[job.pkg].has /\ Unbound(job.pkg)
      BY <1>1, <1>2 DEF Stored
    <2>7. ~Active /\ (Recovery(id) => Rebuildable(mat[id].run))
      BY <1>6 DEF Protected
    <2>8. mat[id].run \in Runs /\ run[mat[id].run].phase \in Over /\ (~Cold(id) => mat[id].run = id[1])
      BY <1>1, <1>2, <2>5, <2>7, QuietRequirement DEF Materials, Owned
    <2>9. Cold(id) => ~Hot(id) /\ ~Recovery(id) BY <1>1, <1>2, IdFacts
    <2>10. job.pkg # None => job.pkg \in Ids /\ Cold(job.pkg) /\ job.pkg # id /\ mat'[job.pkg] = mat[job.pkg]
      BY <1>1, <2>2, <2>4, <2>6, <2>9, IdFacts
    <2>11. /\ Ids' = Ids /\ (\A n : Parts(n)' = Parts(n)) /\ Runs' = Runs /\ RunRecs' = RunRecs
           /\ MatRecs' = MatRecs
      BY <1>1, CaseSame
    <2>12. run' = run BY <1>3 DEF Rested
    <2>13. Recovery(id) => "foreign" \notin job.files
      <3>1. ASSUME id[2] = "work" PROVE "foreign" \notin job.files
        <4>1. Recovery(id) /\ ~Cold(id) /\ id = <<mat[id].run, "work">>
          BY <1>2, <2>8, <2>9, <3>1, PairFact DEF Recovery
        <4>2. ~Gone(mat[id].run, "work") BY <2>5, <4>1 DEF Gone
        <4> QED BY <2>5, <2>7, <4>1, <4>2 DEF Rebuildable, SourcePushed
      <3>2. ASSUME id[2] = "snapshot" PROVE "foreign" \notin job.files
        <4>1. Recovery(id) /\ ~Cold(id) /\ id = <<mat[id].run, "snapshot">>
          BY <1>2, <2>8, <2>9, <3>2, PairFact DEF Recovery
        <4>2. "snapshot" \in Made BY <1>1, <1>2, <3>2, <4>1, IdFacts
        <4>3. ~Gone(mat[id].run, "snapshot") BY <2>5, <4>1 DEF Gone
        <4> QED BY <2>5, <2>7, <4>1, <4>2, <4>3 DEF Rebuildable, SnapshotIntact
      <3> QED BY <3>1, <3>2 DEF Recovery
    <2>14. id[2] = "work" => run[id[1]].clean /\ run[Publisher(id[1])].phase = "done"
      <3> SUFFICES ASSUME id[2] = "work" PROVE run[id[1]].clean /\ run[Publisher(id[1])].phase = "done"
        OBVIOUS
      <3>1. Recovery(id) /\ ~Cold(id) /\ id = <<mat[id].run, "work">> /\ mat[id].run = id[1]
        BY <1>2, <2>8, <2>9, PairFact DEF Recovery
      <3>2. ~Gone(mat[id].run, "work") BY <2>5, <3>1 DEF Gone
      <3> QED BY <2>7, <3>1, <3>2 DEF Rebuildable, SourcePushed
    <2>15. Materials'
      <3> SUFFICES ASSUME NEW m \in Ids PROVE (Owned(m) /\ Packed(m) /\ Justified(m))'
        BY <2>11 DEF Materials
      <3>1. Owned(m) /\ Packed(m) /\ Justified(m) BY <1>1 DEF Materials
      <3>2. CASE m = id
        <4>1. Owned(m)' BY <1>2, <2>3, <2>4, <2>5, <2>8, <2>11, <2>12, <3>2 DEF Owned, Over, Phases, Cold
        <4>2. Packed(m)' BY <2>3, <2>4, <2>5, <2>6, <2>8, <2>9, <2>10, <2>11, <3>2 DEF Packed
        <4>3. Justified(m)'
          BY <2>3, <2>4, <2>12, <2>13, <2>14, <3>1, <3>2 DEF Justified, Publisher
        <4> QED BY <4>1, <4>2, <4>3
      <3>3. CASE m # id
        <4>1. mat'[m] = mat[m] BY <2>4, <3>3
        <4>2. Owned(m)' BY <2>11, <2>12, <3>1, <4>1 DEF Owned
        <4>3. Justified(m)'
          BY <2>12, <3>1, <4>1 DEF Justified, Publisher
        <4>4. CASE mat[m].arch = None BY <2>11, <3>1, <4>1, <4>2, <4>3, <4>4 DEF Packed
        <4>5. CASE mat[m].arch # None /\ mat[m].arch # id
          <5>1. mat'[mat[m].arch] = mat[mat[m].arch] BY <1>1, <2>4, <4>5, ArchFact
          <5> QED BY <2>11, <3>1, <4>1, <4>2, <4>3, <5>1 DEF Packed
        <4>6. CASE mat[m].arch = id
          <5>1. Cold(id) /\ mat[m].arch # None BY <1>1, <1>2, <4>6, ArchFact, IdFacts
          <5>2. mat[m].status = "deleted" BY <2>5, <4>6, <5>1, UnreferencedFact
          <5>3. Packed(m)' BY <2>3, <2>4, <3>1, <4>1, <4>6, <5>2 DEF Packed
          <5> QED BY <4>2, <4>3, <5>3
        <4> QED BY <4>4, <4>5, <4>6
      <3> QED BY <3>2, <3>3
    <2>16. TypeMat' /\ TypeRun' BY <1>1, <2>4, <2>11, <2>12 DEF TypeMat, TypeRun
    <2>17. TypeJob' /\ job'.step = "hook" /\ job'.queue = job.queue /\ job'.id = job.id
           /\ job'.files = job.files /\ job'.pkg = job.pkg
      BY <1>1, <1>6, GoTyped DEF Steps
    <2>18. Queued'
      <3>1. job.queue \subseteq Ids BY <1>1 DEF TypeJob
      <3>2. \A m \in job.queue : mat'[m].due /\ mat'[m].status \in {"present", "deleting", "deleted"}
        BY <1>1, <2>3, <2>4, <3>1 DEF Queued
      <3> QED BY <2>17, <3>2 DEF Queued
    <2>19. Cold(id) => ~Referenced(id)'
      <3> SUFFICES ASSUME Cold(id) PROVE ~\E m \in Ids : mat'[m].status # "deleted" /\ mat'[m].arch = id
        BY <2>11, <2>17 DEF Referenced
      <3>1. job.pkg # id BY <1>1, <1>2, <2>10, IdFacts
      <3> QED BY <2>3, <2>4, <2>5, <3>1 DEF Referenced
    <2>20. Chosen' BY <1>2, <2>3, <2>4, <2>5, <2>11, <2>17, <2>19 DEF Chosen, Working, Cold
    <2>21. Stored' BY <2>17 DEF Stored
    <2>22. TypeLeft' BY <1>1, CaseSame
    <2> QED BY <1>4, <2>15, <2>16, <2>17, <2>18, <2>20, <2>21, <2>22 DEF IInv, Types, Item
  <1> QED BY <1>5, <1>6 DEF Persist

LEMMA FinalizeKeeps ==
  ASSUME IInv, QuietCase, Finalize PROVE IInv'
  <1>1. TypeLeft /\ TypeRun /\ TypeMat /\ TypeProof /\ TypeJob /\ TypeScan /\ Queued /\ Chosen /\ Stored
        /\ Materials /\ Item
    BY DEF IInv, Types, Item
  <1>2. job.step = "finish" /\ job.id[2] = "chunks" BY DEF Finalize, At
  <1>3. Rested /\ UNCHANGED <<scan, proof>> BY DEF Finalize, Unchanged, Rested
  <1>4. TypeProof' /\ TypeScan' /\ QuietRun BY <1>1, <1>3, ProofSame, ScanSame, RestedQuiet
  <1>5. /\ job.pkg \in Ids /\ Cold(job.pkg) /\ job.pkg # job.id /\ mat[job.pkg] \in MatRecs
        /\ job.pkg \in Cellar /\ job.id \in Ids /\ ~Cold(job.id) /\ mat[job.id] \in MatRecs
    BY <1>2, PackageApart
  <1> DEFINE id == job.id
  <1>6. CASE mat' = [mat EXCEPT ![id].retry.st = "ready"] /\ job' = Drop
    <2> DEFINE x == [mat[id].retry EXCEPT !.st = "ready"]
    <2>1. x \in Retries BY <1>5, RetryTyped DEF MatRecs
    <2>2. mat' = [mat EXCEPT ![id].retry = x] BY <1>1, <1>5, <1>6 DEF TypeMat
    <2>3. Touched BY <1>1, <1>5, <2>1, <2>2, RetryOnly
    <2>4. QuietMat BY <1>1, <1>3, <2>3, TouchedQuiet
    <2> QED BY <1>4, <1>6, <2>4, DropStep
  <1>7. CASE Failed(mat, id) BY <1>3, <1>5, <1>7, FailedStep
  <1>8. CASE /\ ~Protected(id[1], FALSE, TRUE)
             /\ mat' = [mat EXCEPT ![id].status = "deleted", ![id].has = {},
                                   ![id].arch = job.pkg, ![job.pkg].partial = FALSE]
             /\ job' = Drop
    <2> DEFINE x == [mat[id] EXCEPT !.status = "deleted", !.has = {}, !.arch = job.pkg]
               y == [mat[job.pkg] EXCEPT !.partial = FALSE]
    <2>1. /\ x \in MatRecs /\ x.status = "deleted" /\ x.run = mat[id].run /\ x.man = mat[id].man
          /\ x.arch = job.pkg /\ x.due = mat[id].due /\ x.has = {}
      BY <1>5 DEF MatRecs
    <2>2. /\ y \in MatRecs /\ y.status = mat[job.pkg].status /\ y.run = mat[job.pkg].run
          /\ y.man = mat[job.pkg].man /\ y.arch = mat[job.pkg].arch /\ y.due = mat[job.pkg].due
          /\ y.has = mat[job.pkg].has
      BY <1>5 DEF MatRecs
    <2>3. mat' = [mat EXCEPT ![id] = x, ![job.pkg] = y] BY <1>1, <1>5, <1>8 DEF TypeMat
    <2> HIDE DEF x, y
    <2>4. /\ mat' \in [Ids -> MatRecs] /\ mat'[id] = x /\ mat'[job.pkg] = y
          /\ \A m \in Ids : m # id /\ m # job.pkg => mat'[m] = mat[m]
      BY <1>1, <1>5, <2>1, <2>2, <2>3 DEF TypeMat
    <2>5. \A m \in Ids : m # id =>
            /\ mat'[m].status = mat[m].status /\ mat'[m].run = mat[m].run /\ mat'[m].has = mat[m].has
            /\ mat'[m].man = mat[m].man /\ mat'[m].arch = mat[m].arch /\ mat'[m].due = mat[m].due
      BY <1>5, <2>2, <2>4
    <2>6. mat[id].status = "present" BY <1>1, <1>2 DEF Chosen
    <2>7. mat[id].run = id[1] /\ id[1] \in Runs /\ run[id[1]].phase \in Over
      <3>1. mat[id].run = id[1] /\ id[1] \in Runs /\ run[id[1]].phase # "none"
        BY <1>1, <1>5, <2>6 DEF Materials, Owned
      <3>2. ~Active BY <1>8 DEF Protected
      <3> QED BY <1>1, <3>1, <3>2, QuietRequirement
    <2>8. job.pkg # None /\ mat[job.pkg].status = "present" BY <1>1, <1>2 DEF Stored
    <2>9. /\ Ids' = Ids /\ (\A n : Parts(n)' = Parts(n)) /\ Runs' = Runs /\ RunRecs' = RunRecs
          /\ MatRecs' = MatRecs
      BY <1>1, CaseSame
    <2>10. run' = run BY <1>3 DEF Rested
    <2>11. Materials'
      <3> SUFFICES ASSUME NEW m \in Ids PROVE (Owned(m) /\ Packed(m) /\ Justified(m))'
        BY <2>9 DEF Materials
      <3>1. Owned(m) /\ Packed(m) /\ Justified(m) BY <1>1 DEF Materials
      <3>2. CASE m = id
        <4>1. Owned(m)'
          <5>1. /\ mat'[m].run = m[1] /\ mat'[m].status = "deleted" /\ m[1] \in Runs
                /\ run'[m[1]].phase \in Over
            BY <2>1, <2>4, <2>7, <2>10, <3>2
          <5>2. run'[m[1]].phase # "none" BY <5>1 DEF Over, Phases
          <5> QED BY <2>9, <5>1, <5>2 DEF Owned
        <4>2. mat'[job.pkg].status = "present" BY <2>2, <2>4, <2>8
        <4>3. ~Hot(m) /\ ~Recovery(m) /\ m[2] # "work" /\ m[2] # "cache" /\ ~Cold(m)
          BY <1>2, <1>5, <3>2 DEF Hot, Recovery
        <4>4. Packed(m)' BY <2>1, <2>4, <3>2, <4>2, <4>3 DEF Packed, Hot, Cold
        <4>5. Justified(m)' BY <4>3 DEF Justified, Cold, Recovery
        <4> QED BY <4>1, <4>4, <4>5
      <3>3. CASE m # id
        <4>1. Owned(m)' BY <2>5, <2>9, <2>10, <3>1, <3>3 DEF Owned
        <4>2. Justified(m)'
          BY <2>5, <2>10, <3>1, <3>3 DEF Justified, Publisher
        <4>3. CASE mat[m].arch = None
          BY <2>5, <2>9, <3>1, <3>3, <4>1, <4>2, <4>3 DEF Packed
        <4>4. CASE mat[m].arch # None
          <5>1. mat[m].arch \in Ids /\ mat[m].arch # id BY <1>1, <1>5, <4>4, ArchFact
          <5>2. /\ mat'[mat[m].arch].status = mat[mat[m].arch].status
                /\ mat'[mat[m].arch].run = mat[mat[m].arch].run
                /\ mat'[mat[m].arch].has = mat[mat[m].arch].has
            BY <2>5, <5>1
          <5> QED BY <2>5, <2>9, <3>1, <3>3, <4>1, <4>2, <5>2 DEF Packed
        <4> QED BY <4>3, <4>4
      <3> QED BY <3>2, <3>3
    <2>12. TypeMat' /\ TypeRun' BY <1>1, <2>4, <2>9, <2>10 DEF TypeMat, TypeRun
    <2>13. TypeJob' /\ job'.step \in NoItem /\ job'.queue \subseteq job.queue /\ job'.pkg = None
      BY <1>1, <1>8, DropTyped
    <2>14. \A m \in job.queue : mat'[m].due /\ mat'[m].status \in {"present", "deleting", "deleted"}
      <3>1. job.queue \subseteq Ids BY <1>1 DEF TypeJob
      <3> QED BY <1>1, <2>1, <2>4, <2>5, <3>1 DEF Queued
    <2>15. Item' BY <1>1, <2>13, <2>14, DropItem
    <2>16. TypeLeft' BY <1>1, CaseSame
    <2> QED BY <1>4, <2>11, <2>12, <2>13, <2>15, <2>16 DEF IInv, Types
  <1> QED BY <1>6, <1>7, <1>8 DEF Finalize

\* what a removal takes is the item that is being deleted and the cache inside it
Shrinking(id) ==
    /\ mat' \in [Ids -> MatRecs]
    /\ \A m \in Ids :
          /\ mat'[m].run = mat[m].run /\ mat'[m].man = mat[m].man /\ mat'[m].arch = mat[m].arch
          /\ mat'[m].due = mat[m].due /\ mat'[m].has \subseteq mat[m].has
          /\ m # id /\ m \notin Inside(id) => mat'[m].status = mat[m].status /\ mat'[m].has = mat[m].has
          /\ m = id => mat'[m].status \in {"deleting", "deleted"}
          /\ m \in Inside(id) => \/ mat'[m].status = mat[m].status
                                 \/ mat[m].status # "absent" /\ mat'[m].status = "deleted"

LEMMA InsideFact ==
  ASSUME TypeLeft, NEW id \in Ids, NEW m \in Inside(id)
  PROVE  /\ m \in Ids /\ m[1] = id[1] /\ m[2] = "cache" /\ id[2] = "work" /\ ~Cold(m) /\ ~Cold(id)
         /\ m # id
  <1>1. m = <<id[1], "cache">> /\ id[2] = "work" /\ "cache" \in Made BY DEF Inside
  <1>2. ~Cold(id) /\ id[1] \in Runs BY <1>1, IdFacts DEF Names, Recovery
  <1>3. m \in Ids /\ ~Cold(m) BY <1>1, <1>2, IdFacts
  <1> QED BY <1>1, <1>2, <1>3

LEMMA ShrinkKeeps ==
  ASSUME IInv, QuietCase, Rested, NEW id \in Ids, mat[id].status = "deleting", ~Referenced(id), Shrinking(id)
  PROVE  /\ Materials' /\ TypeMat' /\ TypeRun'
         /\ \A m \in job.queue : mat'[m].due /\ mat'[m].status \in {"present", "deleting", "deleted"}
  <1>1. TypeLeft /\ TypeRun /\ TypeMat /\ TypeJob /\ Queued /\ Materials BY DEF IInv, Types, Item
  <1>2. /\ Ids' = Ids /\ (\A n : Parts(n)' = Parts(n)) /\ Runs' = Runs /\ RunRecs' = RunRecs
        /\ MatRecs' = MatRecs
    BY <1>1, CaseSame
  <1>3. run' = run BY DEF Rested
  <1>4. TypeMat' /\ TypeRun' BY <1>1, <1>2, <1>3 DEF TypeMat, TypeRun, Shrinking
  <1>5. \A m \in job.queue : mat'[m].due /\ mat'[m].status \in {"present", "deleting", "deleted"}
    <2>1. job.queue \subseteq Ids BY <1>1 DEF TypeJob
    <2> QED BY <1>1, <2>1 DEF Queued, Shrinking
  <1>7. \A m \in Inside(id) : m \in Ids /\ m[1] = id[1] /\ m[2] = "cache" /\ id[2] = "work" /\ ~Cold(m)
                              /\ ~Cold(id) /\ m # id
    BY <1>1, InsideFact
  <1>8. Owned(id) /\ Packed(id) /\ Justified(id) BY <1>1 DEF Materials
  <1>9. ASSUME NEW m \in Ids PROVE (Owned(m) /\ Packed(m) /\ Justified(m))'
    <2>1. Owned(m) /\ Packed(m) /\ Justified(m) BY <1>1 DEF Materials
    <2>2. /\ mat'[m].run = mat[m].run /\ mat'[m].man = mat[m].man /\ mat'[m].arch = mat[m].arch
          /\ mat'[m].due = mat[m].due /\ mat'[m].has \subseteq mat[m].has
      BY DEF Shrinking
    <2>3. ASSUME mat[m].arch # None
          PROVE  /\ mat'[mat[m].arch].status # "absent" /\ mat'[mat[m].arch].run = mat[mat[m].arch].run
                 /\ mat[m].arch # id => /\ mat'[mat[m].arch].status = mat[mat[m].arch].status
                                        /\ mat'[mat[m].arch].has = mat[mat[m].arch].has
      <3>1. mat[m].arch \in Ids /\ Cold(mat[m].arch) BY <1>1, <2>3, ArchFact
      <3>2. mat[m].arch \notin Inside(id) BY <1>7, <3>1
      <3>3. mat[mat[m].arch].status # "absent" BY <2>1, <2>3 DEF Packed
      <3> QED BY <3>1, <3>2, <3>3 DEF Shrinking
    <2>4. mat[m].arch = id => mat[m].status = "deleted" BY UnreferencedFact
    <2>5. CASE m = id
      <3>1. mat'[m].status \in {"deleting", "deleted"} BY <2>5 DEF Shrinking
      <3>2. Owned(m)' BY <1>2, <1>3, <2>1, <2>2, <2>5, <3>1 DEF Owned
      <3>3. Justified(m)'
        BY <1>3, <2>1, <2>2, <2>5, <3>1 DEF Justified, Publisher
      <3>4. CASE mat[m].arch = None
        <4>1. ~Hot(m) BY <2>1, <2>5, <3>4 DEF Packed
        <4> QED BY <2>2, <3>1, <3>2, <3>3, <3>4, <4>1 DEF Packed, Hot, Cold
      <3>5. CASE mat[m].arch # None
        <4>1. mat[m].arch # id BY <1>1, <2>5, <3>5, ArchFact
        <4>2. /\ mat[mat[m].arch].status = "present" /\ mat[m].man \subseteq mat[mat[m].arch].has
              /\ Hot(m) => mat[mat[m].arch].run = m[1] /\ Parts("runtime") \subseteq mat[m].man
              /\ ~Cold(m)
          BY <1>8, <2>5, <3>5 DEF Packed
        <4>3. Packed(m)' BY <1>2, <2>2, <2>3, <3>1, <3>5, <4>1, <4>2 DEF Packed, Hot, Cold
        <4> QED BY <3>2, <3>3, <4>3
      <3> QED BY <3>4, <3>5
    <2>6. CASE m \in Inside(id)
      <3>1. /\ m[1] = id[1] /\ m[2] = "cache" /\ id[2] = "work" /\ ~Cold(m) /\ ~Cold(id) BY <1>7, <2>6
      <3>2. ~Hot(m) /\ ~Recovery(m) BY <3>1 DEF Hot, Recovery
      <3>3. \/ mat'[m].status = mat[m].status
            \/ mat[m].status # "absent" /\ mat'[m].status = "deleted"
        BY <2>6 DEF Shrinking
      <3>4. mat[m].run = mat[id].run /\ run[mat[id].run].phase \in Over BY <1>8, <2>1, <3>1 DEF Owned
      <3>5. Owned(m)' BY <1>2, <1>3, <2>1, <2>2, <3>3, <3>4 DEF Owned
      <3>6. Packed(m)'
        <4>1. ~(mat'[m].status = "deleting" /\ mat[m].arch = id) BY <2>4, <3>3
        <4> QED BY <2>1, <2>2, <2>3, <3>1, <3>2, <3>3, <4>1 DEF Packed, Hot, Cold
      <3>7. Justified(m)' BY <2>1, <2>2, <3>1, <3>2 DEF Justified, Recovery, Cold
      <3> QED BY <3>5, <3>6, <3>7
    <2>7. CASE m # id /\ m \notin Inside(id)
      <3>1. mat'[m].status = mat[m].status /\ mat'[m].has = mat[m].has BY <2>7 DEF Shrinking
      <3>2. Owned(m)' BY <1>2, <1>3, <2>1, <2>2, <3>1 DEF Owned
      <3>3. Justified(m)'
        BY <1>3, <2>1, <2>2, <3>1 DEF Justified, Publisher
      <3>4. Packed(m)' BY <1>2, <2>1, <2>2, <2>3, <2>4, <3>1 DEF Packed, Hot, Cold
      <3> QED BY <3>2, <3>3, <3>4
    <2> QED BY <2>5, <2>6, <2>7
  <1>10. Materials' BY <1>2, <1>9 DEF Materials
  <1> QED BY <1>4, <1>5, <1>10

\* the records a removal leaves
LEMMA RemovedRec ==
  ASSUME NEW x \in MatRecs
  PROVE  LET y == [x EXCEPT !.status = "deleted", !.has = {}] IN
         /\ y \in MatRecs /\ y.run = x.run /\ y.man = x.man /\ y.arch = x.arch /\ y.due = x.due
         /\ y.has = {} /\ y.status = "deleted"
  BY DEF MatRecs

LEMMA StaleRec ==
  ASSUME NEW x \in MatRecs
  PROVE  LET y == [x EXCEPT !.same = FALSE, !.has = {}] IN
         /\ y \in MatRecs /\ y.run = x.run /\ y.man = x.man /\ y.arch = x.arch /\ y.due = x.due
         /\ y.has = {} /\ y.status = x.status
  BY DEF MatRecs

PartOf(x, y, h, retry) == y = [x EXCEPT !.has = h, !.retry = retry]

LEMMA PartRec ==
  ASSUME NEW x \in MatRecs, NEW h \in SUBSET Files, NEW retry \in Retries,
         NEW y, PartOf(x, y, h, retry)
  PROVE  /\ y \in MatRecs /\ y.run = x.run /\ y.man = x.man /\ y.arch = x.arch /\ y.due = x.due
         /\ y.has = h /\ y.status = x.status
  BY DEF MatRecs, PartOf

LEMMA RemovedFact ==
  ASSUME IInv, NEW id \in Ids, mat' = Removed(id)
  PROVE  Shrinking(id)
  <1>1. TypeLeft /\ TypeMat BY DEF IInv, Types
  <1>2. ASSUME NEW m \in Ids
        PROVE  /\ mat'[m] \in MatRecs
               /\ mat'[m].run = mat[m].run /\ mat'[m].man = mat[m].man /\ mat'[m].arch = mat[m].arch
               /\ mat'[m].due = mat[m].due /\ mat'[m].has \subseteq mat[m].has
               /\ m # id /\ m \notin Inside(id) => mat'[m].status = mat[m].status /\ mat'[m].has = mat[m].has
               /\ m = id => mat'[m].status \in {"deleting", "deleted"}
               /\ m \in Inside(id) => \/ mat'[m].status = mat[m].status
                                      \/ mat[m].status # "absent" /\ mat'[m].status = "deleted"
    <2>1. mat[m] \in MatRecs BY <1>1 DEF TypeMat
    <2> DEFINE same == mat'[m] = mat[m] /\ m # id
               gone == /\ mat'[m] = [mat[m] EXCEPT !.status = "deleted", !.has = {}]
                       /\ m = id \/ (m \in Inside(id) /\ mat[m].status # "absent")
    <2>2. same \/ gone BY DEF Removed
    <2>3. CASE same BY <2>1, <2>3
    <2>4. CASE gone
      <3>1. /\ mat'[m] \in MatRecs /\ mat'[m].run = mat[m].run /\ mat'[m].man = mat[m].man
            /\ mat'[m].arch = mat[m].arch /\ mat'[m].due = mat[m].due
            /\ mat'[m].has = {} /\ mat'[m].status = "deleted"
        BY <2>1, <2>4, RemovedRec
      <3>2. m = id \/ (m \in Inside(id) /\ mat[m].status # "absent") BY <2>4
      <3>3. m \in Inside(id) => m # id BY <1>1, InsideFact
      <3> HIDE DEF gone
      <3> QED BY <3>1, <3>2, <3>3
    <2> HIDE DEF same, gone
    <2> QED BY <2>2, <2>3, <2>4
  <1>3. mat' = [m \in Ids |-> mat'[m]] BY DEF Removed
  <1>4. mat' \in [Ids -> MatRecs] BY <1>2, <1>3
  <1> QED BY <1>2, <1>4 DEF Shrinking

\* what an interrupted removal leaves, with the retry of its row as it was or not
LEMMA PartFact ==
  ASSUME IInv, NEW id \in Ids, mat[id].status = "deleting", NEW some, NEW retry \in Retries,
         mat' = [RemovedPart(id, some) EXCEPT ![id].retry = retry]
  PROVE  Shrinking(id)
  <1>1. TypeLeft /\ TypeMat BY DEF IInv, Types
  <1>2. \A m \in Inside(id) : m # id BY <1>1, InsideFact
  <1> DEFINE next == mat'
  <1>0. next = [RemovedPart(id, some) EXCEPT ![id].retry = retry] OBVIOUS
  <1> HIDE DEF next
  <1>3. ASSUME NEW m \in Ids
        PROVE  /\ next[m] \in MatRecs
               /\ next[m].run = mat[m].run /\ next[m].man = mat[m].man /\ next[m].arch = mat[m].arch
               /\ next[m].due = mat[m].due /\ next[m].has \subseteq mat[m].has
               /\ m # id /\ m \notin Inside(id) => next[m].has = mat[m].has
               /\ next[m].status = mat[m].status
    <2>1. mat[m] \in MatRecs BY <1>1 DEF TypeMat
    <2>2. CASE m = id
      <3> DEFINE rest == mat[m].has \ some
      <3>1. RemovedPart(id, some)[m] = [mat[m] EXCEPT !.has = rest] BY <2>2 DEF RemovedPart
      <3>2. m \in DOMAIN RemovedPart(id, some) BY DEF RemovedPart
      <3>3. next[m] = [RemovedPart(id, some)[m] EXCEPT !.retry = retry] BY <1>0, <2>2, <3>2
      <3>4. rest \in SUBSET Files /\ rest \subseteq mat[m].has BY <2>1 DEF MatRecs
      <3> HIDE DEF rest
      <3>5. PartOf(mat[m], next[m], rest, retry) BY <2>1, <3>1, <3>3 DEF MatRecs, PartOf
      <3>6. /\ next[m] \in MatRecs /\ next[m].run = mat[m].run /\ next[m].man = mat[m].man
            /\ next[m].arch = mat[m].arch /\ next[m].due = mat[m].due
            /\ next[m].has = rest /\ next[m].status = mat[m].status
        BY <2>1, <3>4, <3>5, PartRec
      <3> QED BY <2>2, <3>4, <3>6
    <2>3. CASE m # id
      <3>1. next[m] = RemovedPart(id, some)[m] BY <1>0, <2>3 DEF RemovedPart
      <3>2. \/ next[m] = mat[m]
            \/ m \in Inside(id) /\ next[m] = [mat[m] EXCEPT !.same = FALSE, !.has = {}]
        BY <2>3, <3>1 DEF RemovedPart
      <3>3. CASE next[m] = mat[m] BY <2>1, <3>3
      <3>4. CASE m \in Inside(id) /\ next[m] = [mat[m] EXCEPT !.same = FALSE, !.has = {}]
        <4>1. /\ next[m] \in MatRecs /\ next[m].run = mat[m].run /\ next[m].man = mat[m].man
              /\ next[m].arch = mat[m].arch /\ next[m].due = mat[m].due
              /\ next[m].has = {} /\ next[m].status = mat[m].status
          BY <2>1, <3>4, StaleRec
        <4> QED BY <3>4, <4>1
      <3> QED BY <3>2, <3>3, <3>4
    <2> QED BY <2>2, <2>3
  <1>4. next = [m \in Ids |-> next[m]] BY <1>0 DEF RemovedPart
  <1>5. next \in [Ids -> MatRecs] BY <1>3, <1>4
  <1> QED BY <1>3, <1>5 DEF Shrinking, next

\* what Delete does: fail with nothing removed, or remove all or a part of the item
LEMMA DeleteFact ==
  ASSUME IInv, Delete
  PROVE  /\ job.step = "delete" /\ job.id \in Ids /\ mat[job.id].status = "deleting"
         /\ Rested /\ UNCHANGED <<scan, proof>>
         /\ \/ Failed(mat, job.id)
            \/ /\ ~MaterialProtected(job.id) /\ Removable(job.id) /\ Shrinking(job.id)
               /\ job' = Drop \/ job' = Idle
  <1>1. job.step = "delete" /\ job.id \in Ids /\ mat[job.id] \in MatRecs BY AtHand DEF Delete, At, Working
  <1>2. mat[job.id].status = "deleting" BY <1>1 DEF IInv, Item, Chosen
  <1>3. Rested /\ UNCHANGED <<scan, proof>> BY DEF Delete, Unchanged, Rested
  <1> DEFINE id == job.id
  <1>4. CASE MaterialProtected(id) \/ ~Removable(id) BY <1>1, <1>2, <1>3, <1>4 DEF Delete
  <1>5. CASE ~MaterialProtected(id) /\ Removable(id)
    <2>1. \/ mat' = Removed(id) /\ job' = Drop
          \/ \E some : Failed(RemovedPart(id, some), id)
          \/ \E some : mat' = RemovedPart(id, some) /\ job' = Idle
      BY <1>5 DEF Delete
    <2>2. mat[id].retry \in Retries BY <1>1 DEF MatRecs
    <2>3. ASSUME NEW some, Failed(RemovedPart(id, some), id) PROVE Shrinking(id) /\ job' = Drop
      <3>1. PICK late \in BOOLEAN :
               mat' = [RemovedPart(id, some) EXCEPT ![id].retry = Fail(@, late)] /\ job' = Drop
        BY <2>3, LateBool DEF Failed, IInv, Types
      <3>2. RemovedPart(id, some)[id].retry = mat[id].retry
        <4>1. RemovedPart(id, some)[id] = [mat[id] EXCEPT !.has = mat[id].has \ some] BY <1>1 DEF RemovedPart
        <4> QED BY <1>1, <4>1 DEF MatRecs
      <3>3. mat' = [RemovedPart(id, some) EXCEPT ![id].retry = Fail(mat[id].retry, late)]
        BY <1>1, <3>1, <3>2 DEF RemovedPart
      <3>4. Fail(mat[id].retry, late) \in Retries BY <2>2, RetryTyped
      <3> QED BY <1>1, <1>2, <3>1, <3>3, <3>4, PartFact
    <2>4. ASSUME NEW some, mat' = RemovedPart(id, some) PROVE Shrinking(id)
      <3>1. RemovedPart(id, some)[id] = [mat[id] EXCEPT !.has = mat[id].has \ some] BY <1>1 DEF RemovedPart
      <3>2. [RemovedPart(id, some)[id] EXCEPT !.retry = mat[id].retry] = RemovedPart(id, some)[id]
        BY <1>1, <3>1 DEF MatRecs
      <3>3. RemovedPart(id, some) = [m \in Ids |-> RemovedPart(id, some)[m]] BY DEF RemovedPart
      <3>4. [RemovedPart(id, some) EXCEPT ![id].retry = mat[id].retry] = RemovedPart(id, some)
        BY <1>1, <3>2, <3>3
      <3> QED BY <1>1, <1>2, <2>2, <2>4, <3>4, PartFact
    <2>5. mat' = Removed(id) => Shrinking(id) BY <1>1, RemovedFact
    <2> QED BY <1>1, <1>2, <1>3, <1>5, <2>1, <2>3, <2>4, <2>5
  <1> QED BY <1>4, <1>5

LEMMA DeleteKeeps ==
  ASSUME IInv, QuietCase, Delete PROVE IInv'
  <1>1. TypeLeft /\ TypeProof /\ TypeScan /\ TypeJob /\ Item BY DEF IInv, Types
  <1>2. /\ job.id \in Ids /\ mat[job.id].status = "deleting" /\ Rested /\ UNCHANGED <<scan, proof>>
        /\ \/ Failed(mat, job.id)
           \/ /\ ~MaterialProtected(job.id) /\ Shrinking(job.id)
              /\ job' = Drop \/ job' = Idle
    BY DeleteFact
  <1>3. CASE Failed(mat, job.id) BY <1>2, <1>3, FailedStep
  <1>4. CASE /\ ~MaterialProtected(job.id) /\ Shrinking(job.id)
             /\ job' = Drop \/ job' = Idle
    <2>1. ~Referenced(job.id) BY <1>4 DEF MaterialProtected
    <2>2. /\ Materials' /\ TypeMat' /\ TypeRun'
          /\ \A m \in job.queue : mat'[m].due /\ mat'[m].status \in {"present", "deleting", "deleted"}
      BY <1>2, <1>4, <2>1, ShrinkKeeps
    <2>3. TypeJob' /\ job'.step \in NoItem /\ job'.queue \subseteq job.queue /\ job'.pkg = None
      BY <1>1, <1>4, DropTyped
    <2>4. Item' BY <1>1, <2>2, <2>3, DropItem
    <2>5. TypeLeft' /\ TypeProof' /\ TypeScan' BY <1>1, <1>2, CaseSame, ProofSame, ScanSame
    <2> QED BY <2>2, <2>3, <2>4, <2>5 DEF IInv, Types
  <1> QED BY <1>2, <1>3, <1>4

----------------------------------------------------------------------------
(* The theorems.                                                            *)

LEMMA InitInv == Init => IInv
  <1> SUFFICES ASSUME Init PROVE IInv OBVIOUS
  <1>1. TypeLeft BY RetentionAssumption DEF Init, TypeLeft, RetentionAssumption
  <1>2. TypeRun BY DEF Init, TypeRun, RunRecs, Phases
  <1>3. New \in Retries BY DEF New, Retries
  <1>4. \A id \in Ids : id[1] \in {0} \cup Runs BY DEF Ids
  <1>5. \A id \in Ids :
          /\ mat[id].run = id[1] /\ mat[id].status = "absent" /\ mat[id].man = {} /\ mat[id].arch = None
          /\ mat[id].has = (IF Cold(id) THEN {} ELSE Parts(id[2]))
          /\ mat[id] \in MatRecs
    <2> SUFFICES ASSUME NEW id \in Ids
                 PROVE  /\ mat[id].run = id[1] /\ mat[id].status = "absent" /\ mat[id].man = {}
                        /\ mat[id].arch = None
                        /\ mat[id].has = (IF Cold(id) THEN {} ELSE Parts(id[2]))
                        /\ mat[id] \in MatRecs
      OBVIOUS
    <2> DEFINE h == IF Cold(id) THEN {} ELSE Parts(id[2])
    <2>1. mat[id] = [run |-> id[1], status |-> "absent", due |-> FALSE, has |-> h, man |-> {},
                     arch |-> None, partial |-> FALSE, same |-> TRUE, retry |-> New]
      BY DEF Init
    <2>2. h \in SUBSET Files BY DEF Parts, Files
    <2> HIDE DEF h
    <2>3. mat[id].has = h BY <2>1
    <2>4. mat[id] \in MatRecs BY <1>3, <1>4, <2>1, <2>2 DEF MatRecs
    <2> QED BY <2>1, <2>3, <2>4 DEF h
  <1>6. TypeMat
    <2>1. mat = [id \in Ids |-> mat[id]] BY DEF Init
    <2> QED BY <1>5, <2>1 DEF TypeMat
  <1>7. TypeProof /\ TypeScan BY <1>3 DEF Init, TypeProof, TypeScan
  <1>8. TypeJob BY DEF Init, TypeJob, Idle, Steps, At
  <1>9. Materials
    <2> SUFFICES ASSUME NEW id \in Ids PROVE Owned(id) /\ Packed(id) /\ Justified(id) BY DEF Materials
    <2>1. Owned(id) BY <1>5 DEF Owned
    <2>2. Hot(id) => Parts("runtime") \subseteq mat[id].has
      <3>1. Hot(id) => ~Cold(id) BY <1>1, IdFacts
      <3> QED BY <1>5, <3>1 DEF Hot
    <2>3. Packed(id) BY <1>5, <2>2 DEF Packed
    <2>4. id[2] = "cache" => "foreign" \notin mat[id].has
      <3>1. id[2] = "cache" => "foreign" \notin Parts(id[2]) BY DEF Parts
      <3> QED BY <1>5, <3>1
    <2>5. Justified(id) BY <1>5, <2>4 DEF Justified
    <2> QED BY <2>1, <2>3, <2>5
  <1>10. Item BY DEF Init, Idle, Item, Queued, Chosen, Stored, Working
  <1> QED BY <1>1, <1>2, <1>6, <1>7, <1>8, <1>9, <1>10 DEF IInv, Types

LEMMA StepInv == ASSUME IInv, [Next]_vars PROVE IInv'
  <1>1. CASE Next
    <2>1. TypeLeft BY DEF IInv, Types
    <2>2. QuietCase BY <1>1, <2>1, CaseQuiet
    <2>3. CASE Worker
      BY <2>2, <2>3, StartScanKeeps, CatalogKeeps, NextItemKeeps, EndScanKeeps, AttemptKeeps,
         InventoryKeeps, ArchiveKeeps, WriteKeeps, FinishKeeps, FinalizeKeeps, PersistKeeps,
         BeforeRemoveKeeps, DeleteKeeps
      DEF Worker
    <2>4. CASE Others
      BY <2>2, <2>4, RunKeeps, ReplaceCacheKeeps, ExpireKeeps, AppearKeeps, CrashKeeps, AuthorizeKeeps
      DEF Others
    <2> QED BY <1>1, <2>3, <2>4 DEF Next
  <1>2. CASE UNCHANGED vars
    <2>1. UNCHANGED run /\ UNCHANGED mat /\ UNCHANGED proof /\ UNCHANGED job /\ UNCHANGED scan
          /\ UNCHANGED left
      BY <1>2 DEF vars
    <2>2. QuietCase /\ TypeRun /\ TypeMat /\ TypeScan BY <2>1 DEF IInv, Types, TypeLeft, QuietCase
    <2>3. QuietRun BY <2>1, <2>2, RestedQuiet DEF Rested
    <2> QED BY <2>1, <2>2, <2>3, RunStep
  <1> QED BY <1>1, <1>2

\* The inductive invariant.
THEOREM Inductive == Spec => []IInv
  <1> QED BY InitInv, StepInv, PTL DEF Spec

LEMMA StayFromInv == ASSUME IInv PROVE TypeOK /\ PackageStays
  <1>1. TypeLeft /\ TypeRun /\ TypeMat /\ TypeJob /\ TypeScan /\ Materials BY DEF IInv, Types
  <1>2. TypeOK
    <2>1. ASSUME NEW id \in Ids
          PROVE  /\ mat[id].status \in {"absent", "present", "deleting", "deleted"}
                 /\ mat[id].arch \in {None} \cup ({0} \X Packages)
                 /\ mat[id].retry.n \in 0..3
                 /\ mat[id].status = "deleting" => mat[id].due /\ (Hot(id) => mat[id].arch # None)
      <3>1. mat[id] \in MatRecs /\ Owned(id) /\ Packed(id) BY <1>1 DEF TypeMat, Materials
      <3>2. mat[id].retry \in Retries BY <3>1 DEF MatRecs
      <3> QED BY <3>1, <3>2 DEF MatRecs, Cellar, Retries, Owned, Packed
    <2>2. scan.n \in 0..3 BY <1>1 DEF TypeScan, Retries
    <2>3. run \in [Runs -> [phase : {"none", "running", "failed", "waiting", "validating", "rejected",
                                     "delivering", "done"},
                            linked : BOOLEAN, clean : BOOLEAN, repair : BOOLEAN, resolved : {0} \cup Runs]]
      BY <1>1 DEF TypeRun, RunRecs, Phases
    <2>4. At("idle") => job = Idle BY <1>1 DEF TypeJob
    <2> QED BY <2>1, <2>2, <2>3, <2>4 DEF TypeOK
  <1>3. PackageStays BY <1>1 DEF PackageStays, Materials, Packed
  <1> QED BY <1>2, <1>3

Shrinks(id) ==
    Shrunk(id) # {} =>
        /\ ~Active /\ ~Consumer(mat[id].run)
        /\ "foreign" \in Shrunk(id) => id[2] \in {"runtime", "chunks"} \/ Cold(id)
        /\ id[2] \in {"runtime", "chunks"} => Shrunk(id) \subseteq mat'[mat'[id].arch].has
        /\ id[2] = "work" => run[id[1]].clean /\ run[Publisher(id[1])].phase = "done"

\* what a step writes into one material without touching its files
LEMMA SameHas ==
  ASSUME TypeMat, NEW m \in Ids, NEW id \in Ids, NEW x,
         mat' = [mat EXCEPT ![m] = x], x.has = mat[m].has
  PROVE  mat'[id].has = mat[id].has
  BY DEF TypeMat

LEMMA RetryHas ==
  ASSUME TypeMat, NEW m \in Ids, NEW id \in Ids, NEW x, mat' = [mat EXCEPT ![m].retry = x]
  PROVE  mat'[id].has = mat[id].has
  <1> DEFINE y == [mat[m] EXCEPT !.retry = x]
  <1>1. mat' = [mat EXCEPT ![m] = y] BY DEF TypeMat
  <1>2. mat[m] \in MatRecs BY DEF TypeMat
  <1>3. y.has = mat[m].has BY <1>2 DEF MatRecs
  <1> HIDE DEF y
  <1> QED BY <1>1, <1>3, SameHas

LEMMA ReadyHas ==
  ASSUME TypeMat, NEW m \in Ids, NEW id \in Ids, mat' = [mat EXCEPT ![m].retry.st = "ready"]
  PROVE  mat'[id].has = mat[id].has
  <1> DEFINE x == [mat[m].retry EXCEPT !.st = "ready"]
  <1>1. mat' = [mat EXCEPT ![m].retry = x] BY DEF TypeMat
  <1> HIDE DEF x
  <1> QED BY <1>1, RetryHas

LEMMA FailedHas ==
  ASSUME TypeMat, NEW m \in Ids, NEW id \in Ids, Failed(mat, m)
  PROVE  mat'[id].has = mat[id].has
  <1>1. PICK late : mat' = [mat EXCEPT ![m].retry = Fail(@, late)] BY DEF Failed
  <1> DEFINE x == Fail(mat[m].retry, late)
  <1>2. mat' = [mat EXCEPT ![m].retry = x] BY <1>1
  <1> HIDE DEF x
  <1> QED BY <1>2, RetryHas

LEMMA PackageHas ==
  ASSUME TypeMat, NEW p \in Ids, NEW id \in Ids, NEW r,
         mat' = [mat EXCEPT ![p] = [@ EXCEPT !.status = "present", !.partial = TRUE, !.run = r]]
  PROVE  mat'[id].has = mat[id].has
  <1> DEFINE y == [mat[p] EXCEPT !.status = "present", !.partial = TRUE, !.run = r]
  <1>1. mat' = [mat EXCEPT ![p] = y] BY DEF TypeMat
  <1>2. mat[p] \in MatRecs BY DEF TypeMat
  <1>3. y.has = mat[p].has BY <1>2 DEF MatRecs
  <1> HIDE DEF y
  <1> QED BY <1>1, <1>3, SameHas

LEMMA CopyHas ==
  ASSUME TypeMat, NEW p \in Ids, NEW id \in Ids, NEW some, mat[p].has = {},
         mat' = [mat EXCEPT ![p].has = some]
  PROVE  mat[id].has \subseteq mat'[id].has
  BY DEF TypeMat, MatRecs

LEMMA TornHas ==
  ASSUME TypeMat, NEW m \in Ids, NEW p \in Ids, m # p, NEW id \in Ids, NEW some, mat[p].has = {},
         Failed([mat EXCEPT ![p].has = some], m)
  PROVE  mat[id].has \subseteq mat'[id].has
  <1>1. PICK late :
           mat' = [[mat EXCEPT ![p].has = some] EXCEPT ![m].retry = Fail(@, late)]
    BY DEF Failed
  <1> DEFINE n == [mat EXCEPT ![p].has = some]
             x == Fail(n[m].retry, late)
             y == [mat[m] EXCEPT !.retry = x]
  <1>2. DOMAIN mat = Ids /\ mat[m] \in MatRecs BY DEF TypeMat
  <1>3. n[m] = mat[m] /\ DOMAIN n = Ids BY <1>2
  <1>4. mat' = [n EXCEPT ![m] = y] BY <1>1, <1>3
  <1>5. y.has = mat[m].has BY <1>2 DEF MatRecs
  <1> HIDE DEF x, y
  <1>6. CASE id = m BY <1>3, <1>4, <1>5, <1>6
  <1>7. CASE id # m
    <2>1. mat'[id] = n[id] BY <1>3, <1>4, <1>7
    <2>2. id # p => n[id] = mat[id] BY <1>2
    <2> QED BY <2>1, <2>2
  <1> QED BY <1>6, <1>7

\* every step but the two that remove leaves the files of every material
LEMMA OthersGrow ==
  ASSUME IInv, Next, ~Finalize, ~Delete, NEW id \in Ids
  PROVE  mat[id].has \subseteq mat'[id].has
  <1>1. TypeLeft /\ TypeMat /\ Materials BY DEF IInv, Types
  <1>2. mat[id] \in MatRecs /\ mat \in [Ids -> MatRecs] BY <1>1 DEF TypeMat
  <1>3. ASSUME NEW m \in Ids, Failed(mat, m) PROVE mat[id].has \subseteq mat'[id].has
    BY <1>1, <1>3, FailedHas
  <1>4. CASE UNCHANGED mat BY <1>4
  <1>5. CASE Catalog
    <2>1. mat' = mat \/ mat' = Discover BY <1>5 DEF Catalog
    <2> QED BY <1>1, <2>1, DiscoverFact
  <1>6. CASE Attempt
    <2>1. job.id \in Ids BY <1>6, AtHand DEF Attempt, At
    <2>2. \/ Failed(mat, job.id) \/ UNCHANGED mat
          \/ \E x : mat' = [mat EXCEPT ![job.id].retry = x]
      BY <1>6 DEF Attempt
    <2> QED BY <1>1, <1>3, <2>1, <2>2, RetryHas, ZenonT(60)
  <1>7. CASE Archive
    <2>1. job.id \in Ids BY <1>7, AtHand DEF Archive, At, Working
    <2> DEFINE room == {p \in {0} \X Packages : mat[p].status = "absent"}
               p == CHOOSE q \in room : TRUE
    <2>2. CASE Failed(mat, job.id) BY <1>3, <2>1, <2>2
    <2>3. CASE mat' = [mat EXCEPT ![job.id].retry.st = "ready"] BY <1>1, <2>1, <2>3, ReadyHas
    <2>4. CASE /\ room # {}
               /\ mat' = [mat EXCEPT ![p] = [@ EXCEPT !.status = "present", !.partial = TRUE,
                                                     !.run = mat[job.id].run]]
      <3>1. p \in room BY <2>4
      <3>2. p \in Ids BY <3>1, RoomFact DEF Cellar
      <3> HIDE DEF p
      <3> QED BY <1>1, <2>4, <3>2, PackageHas
    <2> QED BY <1>7, <2>2, <2>3, <2>4 DEF Archive
  <1>8. CASE Write
    <2>1. job.step = "write" BY <1>8 DEF Write, At
    <2>2. job.id \in Ids /\ job.pkg \in Ids /\ job.id # job.pkg BY <2>1, PackageApart
    <2>3. mat[job.pkg].has = {} BY <2>1 DEF IInv, Item, Stored
    <2>4. \/ Failed(mat, job.id)
          \/ \E some : mat' = [mat EXCEPT ![job.pkg].has = some]
          \/ \E some : Failed([mat EXCEPT ![job.pkg].has = some], job.id)
      BY <1>8 DEF Write, Copied
    <2> QED BY <1>1, <1>3, <2>2, <2>3, <2>4, CopyHas, TornHas
  <1>9. CASE Finish BY <1>2, <1>9 DEF Finish, MatRecs
  <1>10. CASE Persist
    <2>1. job.id \in Ids BY <1>10, AtHand DEF Persist, At, Working
    <2>2. \/ Failed(mat, job.id)
          \/ mat' = [mat EXCEPT ![job.id].status = "deleting", ![job.id].man = job.files,
                                ![job.id].arch = job.pkg]
      BY <1>10 DEF Persist
    <2> QED BY <1>2, <1>3, <2>1, <2>2 DEF MatRecs
  <1>11. CASE BeforeRemove
    <2>1. job.id \in Ids BY <1>11, AtHand DEF BeforeRemove, At, Working
    <2> QED BY <1>3, <1>11, <2>1 DEF BeforeRemove
  <1>12. CASE Worker
    BY <1>4, <1>5, <1>6, <1>7, <1>8, <1>9, <1>10, <1>11, <1>12
    DEF Worker, StartScan, NextItem, EndScan, Inventory
  <1>13. CASE Authorize
    <2>1. mat'[id] = mat[id] \/ mat'[id] = [mat[id] EXCEPT !.retry = Granted(@)] BY <1>13 DEF Authorize
    <2> QED BY <1>2, <2>1 DEF MatRecs
  <1>14. ASSUME NEW m \in Ids, Expire(m) \/ Appear(m) PROVE mat[id].has \subseteq mat'[id].has
    BY <1>2, <1>14 DEF Expire, Appear, MatRecs
  <1>15. ASSUME NEW r \in Runs, ReplaceCache(r) PROVE mat[id].has \subseteq mat'[id].has
    BY <1>2, <1>15 DEF ReplaceCache, MatRecs
  <1>16. CASE Others
    BY <1>4, <1>13, <1>14, <1>15, <1>16
    DEF Others, StartRun, EndRun, Validate, EndValidation, GiveUp, RequestRepair, Release, Crash
  <1> QED BY <1>12, <1>16 DEF Next

LEMMA FinalizeSafe ==
  ASSUME IInv, Finalize, NEW id \in Ids
  PROVE  Shrinks(id)
  <1>1. TypeLeft /\ TypeMat /\ Chosen /\ Stored /\ Materials BY DEF IInv, Types, Item
  <1>2. job.step = "finish" /\ job.id[2] = "chunks" BY DEF Finalize, At
  <1>3. /\ job.pkg \in Ids /\ job.pkg # job.id /\ job.id \in Ids /\ ~Cold(job.id)
        /\ \A m \in Ids : mat[m] \in MatRecs
    BY <1>1, <1>2, PackageApart DEF TypeMat
  <1>4. mat[job.pkg].has = job.files BY <1>1, <1>2 DEF Stored
  <1>5. mat[job.id].run = job.id[1] BY <1>1, <1>3 DEF Materials, Owned
  <1>6. mat \in [Ids -> MatRecs] BY <1>1 DEF TypeMat
  <1>7. CASE mat' = [mat EXCEPT ![job.id].retry.st = "ready"] \/ Failed(mat, job.id)
    <2>1. mat'[id].has = mat[id].has BY <1>1, <1>3, <1>7, FailedHas, ReadyHas
    <2> QED BY <2>1 DEF Shrinks, Shrunk
  <1>8. CASE /\ ~Protected(job.id[1], FALSE, TRUE) /\ mat[job.id].has = job.files
             /\ mat' = [mat EXCEPT ![job.id].status = "deleted", ![job.id].has = {},
                                   ![job.id].arch = job.pkg, ![job.pkg].partial = FALSE]
    <2>1. ~Active /\ ~Consumer(job.id[1]) BY <1>8 DEF Protected
    <2>2. id # job.id => mat'[id].has = mat[id].has BY <1>3, <1>6, <1>8 DEF MatRecs
    <2>3. mat'[job.id].arch = job.pkg /\ mat'[job.pkg].has = mat[job.pkg].has
      BY <1>3, <1>6, <1>8, SMTT(30) DEF MatRecs
    <2>4. CASE id # job.id BY <2>2, <2>4 DEF Shrinks, Shrunk
    <2>5. CASE id = job.id
      <3>1. Shrunk(id) \subseteq job.files BY <1>8, <2>5 DEF Shrunk
      <3> QED BY <1>2, <1>4, <1>5, <2>1, <2>3, <2>5, <3>1 DEF Shrinks
    <2> QED BY <2>4, <2>5
  <1> QED BY <1>7, <1>8 DEF Finalize

LEMMA DeleteSafe ==
  ASSUME IInv, Delete, NEW id \in Ids
  PROVE  Shrinks(id)
  <1>1. TypeLeft /\ TypeMat /\ Chosen /\ Materials BY DEF IInv, Types, Item
  <1> DEFINE d == job.id
  <1>2. /\ job.step = "delete" /\ d \in Ids /\ mat[d].status = "deleting"
        /\ \/ Failed(mat, d)
           \/ ~MaterialProtected(d) /\ Removable(d) /\ Shrinking(d)
    BY DeleteFact
  <1>3. mat \in [Ids -> MatRecs] /\ mat[id] \in MatRecs BY <1>1 DEF TypeMat
  <1>4. CASE Failed(mat, d)
    <2>1. mat'[id].has = mat[id].has BY <1>1, <1>2, <1>4, FailedHas
    <2> QED BY <2>1 DEF Shrinks, Shrunk
  <1>5. CASE ~MaterialProtected(d) /\ Removable(d) /\ Shrinking(d)
    <2>1. ~Active /\ ~Consumer(mat[d].run) BY <1>5 DEF MaterialProtected, Protected
    <2>2. Owned(d) /\ Packed(d) /\ Justified(d) BY <1>1, <1>2 DEF Materials
    <2>3. mat[d].has \subseteq mat[d].man BY <1>5 DEF Removable
    <2>4. CASE id # d /\ id \notin Inside(d) BY <1>5, <2>4 DEF Shrinking, Shrinks, Shrunk
    <2>5. CASE id \in Inside(d)
      <3>1. id[1] = d[1] /\ id[2] = "cache" /\ ~Cold(id) /\ ~Cold(d) BY <1>1, <1>2, <2>5, InsideFact
      <3>2. mat[id].run = mat[d].run /\ "foreign" \notin mat[id].has
        BY <1>1, <2>2, <3>1 DEF Materials, Owned, Justified
      <3>3. "foreign" \notin Shrunk(id) BY <3>2 DEF Shrunk
      <3> QED BY <2>1, <3>1, <3>2, <3>3 DEF Shrinks
    <2>6. CASE id = d
      <3>1. Shrunk(id) \subseteq mat[id].man BY <2>3, <2>6 DEF Shrunk
      <3>2. "foreign" \in Shrunk(id) => id[2] \in {"runtime", "chunks"} \/ Cold(id)
        <4>1. Recovery(id) => "foreign" \notin Shrunk(id) BY <1>2, <2>2, <2>6, <3>1 DEF Justified
        <4>2. id[2] = "cache" => "foreign" \notin Shrunk(id) BY <2>2, <2>6 DEF Justified, Shrunk
        <4>3. Cold(id) \/ id[2] \in Names BY <1>1, IdFacts
        <4> QED BY <4>1, <4>2, <4>3 DEF Recovery, Names
      <3>3. id[2] \in {"runtime", "chunks"} => Shrunk(id) \subseteq mat'[mat'[id].arch].has
        <4> SUFFICES ASSUME id[2] \in {"runtime", "chunks"}
                     PROVE  Shrunk(id) \subseteq mat'[mat'[id].arch].has
          OBVIOUS
        <4>1. id[2] # "chunks" BY <1>2, <2>2, <2>6 DEF Owned
        <4>2. Hot(id) BY <4>1 DEF Hot
        <4>3. mat[id].arch # None BY <1>2, <2>2, <2>6, <4>2 DEF Packed
        <4>4. mat[id].man \subseteq mat[mat[id].arch].has BY <1>2, <2>2, <2>6, <4>3 DEF Packed
        <4>5. mat[id].arch \in Ids /\ Cold(mat[id].arch) /\ mat[id].arch # id BY <1>1, <4>3, ArchFact
        <4>6. mat[id].arch \notin Inside(d) BY <1>1, <1>2, <4>5, InsideFact
        <4>7. mat'[id].arch = mat[id].arch /\ mat'[mat[id].arch].has = mat[mat[id].arch].has
          BY <1>5, <2>6, <4>5, <4>6 DEF Shrinking
        <4> QED BY <3>1, <4>4, <4>7
      <3>4. id[2] = "work" => run[id[1]].clean /\ run[Publisher(id[1])].phase = "done"
        BY <1>2, <2>2, <2>6 DEF Justified
      <3> QED BY <2>1, <2>6, <3>2, <3>3, <3>4 DEF Shrinks
    <2> QED BY <2>4, <2>5, <2>6
  <1> QED BY <1>2, <1>4, <1>5

\* a material that is there stays there with its files
Stays(m) ==
    mat[m].status \in {"absent", "present"} =>
        /\ mat'[m].status \in {"absent", "present"}
        /\ mat[m].status = "present" => mat'[m].status = "present" /\ mat'[m].run = mat[m].run

\* what a step writes into one material without deciding its removal
LEMMA SameStays ==
  ASSUME TypeMat, NEW m \in Ids, NEW id \in Ids, NEW x, mat' = [mat EXCEPT ![m] = x],
         x.status = mat[m].status, x.run = mat[m].run
  PROVE  Stays(id)
  BY DEF TypeMat, Stays

LEMMA RetryStays ==
  ASSUME TypeMat, NEW m \in Ids, NEW id \in Ids, NEW x, mat' = [mat EXCEPT ![m].retry = x]
  PROVE  Stays(id)
  <1> DEFINE y == [mat[m] EXCEPT !.retry = x]
  <1>1. mat' = [mat EXCEPT ![m] = y] BY DEF TypeMat
  <1>2. mat[m] \in MatRecs BY DEF TypeMat
  <1>3. y.status = mat[m].status /\ y.run = mat[m].run BY <1>2 DEF MatRecs
  <1> HIDE DEF y
  <1> QED BY <1>1, <1>3, SameStays

LEMMA FailedStays ==
  ASSUME TypeMat, NEW m \in Ids, NEW id \in Ids, Failed(mat, m)
  PROVE  Stays(id)
  <1>1. PICK late : mat' = [mat EXCEPT ![m].retry = Fail(@, late)] BY DEF Failed
  <1> DEFINE x == Fail(mat[m].retry, late)
  <1>2. mat' = [mat EXCEPT ![m].retry = x] BY <1>1
  <1> HIDE DEF x
  <1> QED BY <1>2, RetryStays

\* every step but the decision of a removal and the removal leaves every material there
LEMMA OthersStay ==
  ASSUME IInv, Next, ~Persist, ~Finalize, ~Delete, NEW id \in Ids
  PROVE  Stays(id)
  <1>1. TypeLeft /\ TypeMat /\ Materials BY DEF IInv, Types
  <1>2. mat[id] \in MatRecs /\ mat \in [Ids -> MatRecs] BY <1>1 DEF TypeMat
  <1>3. ASSUME NEW m \in Ids, Failed(mat, m) PROVE Stays(id) BY <1>1, <1>3, FailedStays
  <1>4. CASE UNCHANGED mat BY <1>4 DEF Stays
  <1>5. CASE Catalog
    <2>1. mat' = mat \/ mat' = Discover BY <1>5 DEF Catalog
    <2> QED BY <1>1, <2>1, DiscoverFact DEF Stays
  <1>6. CASE Attempt
    <2>1. job.id \in Ids BY <1>6, AtHand DEF Attempt, At
    <2>2. \/ Failed(mat, job.id) \/ UNCHANGED mat
          \/ \E x : mat' = [mat EXCEPT ![job.id].retry = x]
      BY <1>6 DEF Attempt
    <2> QED BY <1>1, <1>3, <1>4, <2>1, <2>2, RetryStays, ZenonT(60)
  <1>7. CASE Archive
    <2>1. job.id \in Ids BY <1>7, AtHand DEF Archive, At, Working
    <2> DEFINE room == {p \in {0} \X Packages : mat[p].status = "absent"}
               p == CHOOSE q \in room : TRUE
    <2>2. CASE Failed(mat, job.id) BY <1>3, <2>1, <2>2
    <2>3. CASE mat' = [mat EXCEPT ![job.id].retry.st = "ready"]
      <3> DEFINE x == [mat[job.id].retry EXCEPT !.st = "ready"]
      <3>1. mat' = [mat EXCEPT ![job.id].retry = x] BY <1>2, <2>1, <2>3
      <3> HIDE DEF x
      <3> QED BY <1>1, <2>1, <3>1, RetryStays
    <2>4. CASE /\ room # {}
               /\ mat' = [mat EXCEPT ![p] = [@ EXCEPT !.status = "present", !.partial = TRUE,
                                                     !.run = mat[job.id].run]]
      <3>1. p \in room BY <2>4
      <3>2. p \in Ids /\ mat[p].status = "absent" BY <3>1, RoomFact DEF Cellar
      <3> HIDE DEF p
      <3>3. mat[p] \in MatRecs BY <1>2, <3>2
      <3>4. id # p => mat'[id] = mat[id] BY <1>2, <2>4
      <3>5. mat'[p].status = "present" BY <1>2, <2>4, <3>2, <3>3 DEF MatRecs
      <3> QED BY <3>2, <3>4, <3>5 DEF Stays
    <2> QED BY <1>7, <2>2, <2>3, <2>4 DEF Archive
  <1>8. CASE Write
    <2>1. job.step = "write" BY <1>8 DEF Write, At
    <2>2. job.id \in Ids /\ job.pkg \in Ids /\ job.id # job.pkg BY <2>1, PackageApart
    <2>3. ASSUME NEW some PROVE /\ [mat EXCEPT ![job.pkg].has = some][id].status = mat[id].status
                                /\ [mat EXCEPT ![job.pkg].has = some][id].run = mat[id].run
      BY <1>2, <2>2 DEF MatRecs
    <2>4. CASE Failed(mat, job.id) BY <1>3, <2>2, <2>4
    <2>5. ASSUME NEW some, mat' = [mat EXCEPT ![job.pkg].has = some] PROVE Stays(id)
      BY <2>3, <2>5 DEF Stays
    <2>6. ASSUME NEW some, Failed([mat EXCEPT ![job.pkg].has = some], job.id) PROVE Stays(id)
      <3> DEFINE n == [mat EXCEPT ![job.pkg].has = some]
      <3>1. n[id].status = mat[id].status /\ n[id].run = mat[id].run BY <2>3
      <3>2. PICK late : mat' = [n EXCEPT ![job.id].retry = Fail(@, late)] BY <2>6 DEF Failed
      <3>3. DOMAIN n = Ids /\ n[job.id] = mat[job.id] /\ mat[job.id] \in MatRecs BY <1>2, <2>2
      <3> HIDE DEF n
      <3> DEFINE x == Fail(n[job.id].retry, late)
      <3>4. mat' = [n EXCEPT ![job.id].retry = x] BY <3>2
      <3> HIDE DEF x
      <3>5. mat'[id] = n[id] \/ (id = job.id /\ mat'[id] = [mat[id] EXCEPT !.retry = x]) BY <3>3, <3>4
      <3>6. mat'[id].status = mat[id].status /\ mat'[id].run = mat[id].run
        BY <1>2, <3>1, <3>5 DEF MatRecs
      <3> QED BY <3>6 DEF Stays
    <2> QED BY <1>8, <2>4, <2>5, <2>6 DEF Write, Copied
  <1>9. CASE Finish BY <1>2, <1>9 DEF Finish, MatRecs, Stays
  <1>10. CASE BeforeRemove
    <2>1. job.id \in Ids BY <1>10, AtHand DEF BeforeRemove, At, Working
    <2> QED BY <1>3, <1>4, <1>10, <2>1 DEF BeforeRemove
  <1>11. CASE Worker
    BY <1>4, <1>5, <1>6, <1>7, <1>8, <1>9, <1>10, <1>11
    DEF Worker, StartScan, NextItem, EndScan, Inventory
  <1>12. CASE Authorize
    <2>1. mat'[id] = mat[id] \/ mat'[id] = [mat[id] EXCEPT !.retry = Granted(@)] BY <1>12 DEF Authorize
    <2> QED BY <1>2, <2>1 DEF MatRecs, Stays
  <1>13. ASSUME NEW m \in Ids, Expire(m) \/ Appear(m) PROVE Stays(id)
    BY <1>2, <1>13 DEF Expire, Appear, MatRecs, Stays
  <1>14. ASSUME NEW r \in Runs, ReplaceCache(r) PROVE Stays(id)
    BY <1>2, <1>14 DEF ReplaceCache, MatRecs, Stays
  <1>15. CASE Others
    BY <1>4, <1>12, <1>13, <1>14, <1>15
    DEF Others, StartRun, EndRun, Validate, EndValidation, GiveUp, RequestRepair, Release, Crash
  <1> QED BY <1>11, <1>15 DEF Next

\* the decision of a removal takes one material, and a package of the current success or
\* of a Run in work is not that one
LEMMA PersistTakes ==
  ASSUME IInv, Persist
  PROVE  \/ Failed(mat, job.id) /\ job.id \in Ids
         \/ /\ job.step = "persist" /\ job.id \in Ids /\ mat[job.id].status = "present"
            /\ ~Protected(mat[job.id].run, Recovery(job.id), Cold(job.id))
            /\ \A m \in Ids : m # job.id => mat'[m] = mat[m]
  <1>1. TypeMat /\ Chosen BY DEF IInv, Types, Item
  <1>2. job.step = "persist" /\ job.id \in Ids BY AtHand DEF Persist, At, Working
  <1>3. mat[job.id].status = "present" BY <1>1, <1>2 DEF Chosen
  <1>4. CASE Failed(mat, job.id) BY <1>2, <1>4
  <1>5. CASE /\ ~Protected(mat[job.id].run, Recovery(job.id), Cold(job.id))
             /\ mat' = [mat EXCEPT ![job.id].status = "deleting", ![job.id].man = job.files,
                                   ![job.id].arch = job.pkg]
    <2>1. \A m \in Ids : m # job.id => mat'[m] = mat[m] BY <1>1, <1>5 DEF TypeMat
    <2> QED BY <1>2, <1>3, <1>5, <2>1
  <1> QED BY <1>4, <1>5 DEF Persist

\* what Finalize takes are raw chunks; what Delete takes has been decided before, or is a
\* cache
LEMMA RemovalTakes ==
  ASSUME IInv, Finalize \/ Delete, NEW id \in Ids, id[2] \notin {"chunks", "cache"}
  PROVE  Stays(id)
  <1>1. TypeLeft /\ TypeMat BY DEF IInv, Types
  <1>2. mat[id] \in MatRecs /\ mat \in [Ids -> MatRecs] BY <1>1 DEF TypeMat
  <1>3. CASE Finalize
    <2>1. job.step = "finish" /\ job.id[2] = "chunks" /\ job.id # id BY <1>3 DEF Finalize, At
    <2>2. job.id \in Ids /\ job.pkg \in Ids /\ job.pkg # job.id BY <2>1, PackageApart
    <2>3. CASE Failed(mat, job.id) BY <1>1, <2>2, <2>3, FailedStays
    <2>4. CASE mat' = [mat EXCEPT ![job.id].retry.st = "ready"] BY <1>2, <2>1, <2>2, <2>4 DEF Stays
    <2>5. CASE mat' = [mat EXCEPT ![job.id].status = "deleted", ![job.id].has = {},
                                  ![job.id].arch = job.pkg, ![job.pkg].partial = FALSE]
      BY <1>2, <2>1, <2>2, <2>5 DEF MatRecs, Stays
    <2> QED BY <1>3, <2>3, <2>4, <2>5 DEF Finalize
  <1>4. CASE Delete
    <2>1. /\ job.id \in Ids /\ mat[job.id].status = "deleting"
          /\ Failed(mat, job.id) \/ Shrinking(job.id)
      BY <1>4, DeleteFact
    <2>2. CASE Failed(mat, job.id) BY <1>1, <2>1, <2>2, FailedStays
    <2>3. CASE Shrinking(job.id)
      <3>1. id \notin Inside(job.id) BY <1>1, <2>1, InsideFact
      <3> QED BY <2>1, <2>3, <3>1 DEF Shrinking, Stays
    <2> QED BY <2>1, <2>2, <2>3
  <1> QED BY <1>3, <1>4

\* the retrospective of the current success, or of a Run in work, keeps a copy
CopyStays(r) ==
    /\ "runtime" \in Made
    /\ run[r].phase \in {"running", "validating"} \/ CurrentSuccess(r)
    /\ CopyHeld(r)
    => CopyHeld(r)'

\* an original that is there is whole
LEMMA OriginalHeld ==
  ASSUME TypeLeft, Materials, NEW r \in Runs, "runtime" \in Made,
         mat[<<r, "runtime">>].status \in {"absent", "present"}
  PROVE  CopyHeld(r)
  <1> DEFINE id == <<r, "runtime">>
  <1>1. id \in Ids /\ Hot(id) /\ id[2] = "runtime" BY IdFacts DEF Hot
  <1> HIDE DEF id
  <1>2. Packed(id) /\ mat[id].status \in {"absent", "present"} BY <1>1 DEF Materials, id
  <1>3. Whole(id) BY <1>1, <1>2 DEF Packed, Whole
  <1> QED BY <1>2, <1>3 DEF CopyHeld, id

LEMMA CopyStep ==
  ASSUME IInv, Next, NEW r \in Runs PROVE CopyStays(r)
  <1> SUFFICES ASSUME "runtime" \in Made, run[r].phase \in {"running", "validating"} \/ CurrentSuccess(r),
                      CopyHeld(r)
               PROVE  CopyHeld(r)'
    BY DEF CopyStays
  <1>1. TypeLeft /\ TypeMat /\ TypeJob /\ Materials /\ Chosen /\ Stored BY DEF IInv, Types, Item
  <1>2. QuietCase BY <1>1, CaseQuiet
  <1>3. /\ Runs' = Runs /\ Made' = Made /\ Packages' = Packages /\ Ids' = Ids /\ TypeLeft'
        /\ \A n : Parts(n)' = Parts(n)
    BY <1>1, <1>2, CaseSame
  <1>4. IInv' BY StepInv
  <1>5. Materials' BY <1>4 DEF IInv
  <1> DEFINE id == <<r, "runtime">>
  <1>6. id \in Ids /\ ~Cold(id) /\ Hot(id) /\ id[1] = r /\ id[2] = "runtime" BY <1>1, IdFacts DEF Hot
  <1>7. mat'[id].status \in {"absent", "present"} => CopyHeld(r)'
    <2>1. r \in Runs' /\ "runtime" \in Made' BY <1>3
    <2>2. (TypeLeft /\ Materials /\ r \in Runs /\ "runtime" \in Made
           /\ mat[<<r, "runtime">>].status \in {"absent", "present"} => CopyHeld(r))'
      BY OriginalHeld, PTL
    <2> QED BY <1>3, <1>5, <2>1, <2>2
  <1>8. ASSUME NEW p \in {0} \X Packages, mat'[p].run = r, mat'[p].status = "present",
               Parts("runtime") \subseteq mat'[p].has
        PROVE  CopyHeld(r)'
    BY <1>3, <1>8 DEF CopyHeld, PackageOf
  <1>9. CASE mat[id].status \in {"absent", "present"}
    <2>1. CASE Stays(id) BY <1>7, <1>9, <2>1 DEF Stays
    <2>2. CASE Persist
      <3>1. CASE Failed(mat, job.id) /\ job.id \in Ids
        <4>1. Stays(id) BY <1>1, <1>6, <3>1, FailedStays
        <4> QED BY <2>1, <4>1
      <3>2. CASE job.id # id /\ mat'[id] = mat[id] BY <1>7, <1>9, <3>2
      <3>3. CASE job.step = "persist" /\ job.id = id /\ \A m \in Ids : m # job.id => mat'[m] = mat[m]
        <4>1. job.pkg # None /\ Parts("runtime") \subseteq job.files
          BY <1>1, <1>6, <3>3 DEF Stored, Chosen
        <4>2. /\ mat[job.pkg].status = "present" /\ mat[job.pkg].run = mat[id].run
              /\ job.files \subseteq mat[job.pkg].has
          BY <1>1, <3>3, <4>1 DEF Stored
        <4>3. job.pkg \in Cellar /\ job.pkg \in Ids /\ job.pkg # id
          BY <1>1, <1>6, <4>1, IdFacts DEF TypeJob
        <4>4. mat[id].run = r BY <1>1, <1>6 DEF Materials, Owned
        <4>5. mat'[job.pkg] = mat[job.pkg] BY <3>3, <4>3
        <4> QED BY <1>8, <4>1, <4>2, <4>3, <4>4, <4>5 DEF Cellar
      <3> QED BY <1>6, <2>2, <3>1, <3>2, <3>3, PersistTakes
    <2>3. CASE Finalize \/ Delete
      <3>1. Stays(id) BY <1>6, <2>3, RemovalTakes
      <3> QED BY <2>1, <3>1
    <2> QED BY <1>6, <2>1, <2>2, <2>3, OthersStay
  <1>10. ASSUME NEW p \in {0} \X Packages, PackageOf(r, "runtime", p)
         PROVE  CopyHeld(r)'
    <2>1. p \in Cellar /\ p \in Ids /\ Cold(p) /\ p[2] \notin {"chunks", "cache"}
      BY <1>1, IdFacts DEF Cellar, Names
    <2>2. mat[p].run = r /\ mat[p].status = "present" /\ Parts("runtime") \subseteq mat[p].has
      BY <1>10 DEF PackageOf
    <2>3. CASE Stays(p) /\ mat[p].has \subseteq mat'[p].has BY <1>8, <2>2, <2>3 DEF Stays
    <2>4. CASE Persist
      <3>1. CASE Failed(mat, job.id) /\ job.id \in Ids
        <4>1. Stays(p) /\ mat'[p].has = mat[p].has BY <1>1, <2>1, <3>1, FailedStays, FailedHas
        <4> QED BY <2>3, <4>1
      <3>2. CASE /\ ~Protected(mat[job.id].run, Recovery(job.id), Cold(job.id))
                 /\ \A m \in Ids : m # job.id => mat'[m] = mat[m]
        <4>1. CASE p = job.id
          <5>1. ~Active /\ ~Consumer(r) /\ ~CurrentSuccess(r) BY <2>1, <2>2, <3>2, <4>1 DEF Protected
          <5> QED BY <5>1 DEF Active, Consumer
        <4>2. CASE p # job.id
          <5>1. mat'[p] = mat[p] BY <2>1, <3>2, <4>2
          <5> QED BY <1>8, <2>2, <5>1
        <4> QED BY <4>1, <4>2
      <3> QED BY <2>4, <3>1, <3>2, PersistTakes
    <2>5. CASE Finalize \/ Delete
      <3>1. Stays(p) BY <2>1, <2>5, RemovalTakes
      <3>2. mat[p].has \subseteq mat'[p].has
        <4>1. CASE Finalize
          <5>1. job.step = "finish" /\ job.id[2] = "chunks" /\ job.id # p BY <2>1, <4>1 DEF Finalize, At
          <5>2. job.id \in Ids /\ job.pkg \in Ids /\ job.pkg # job.id BY <5>1, PackageApart
          <5>3. CASE mat' = [mat EXCEPT ![job.id].retry.st = "ready"] \/ Failed(mat, job.id)
            BY <1>1, <2>1, <5>2, <5>3, FailedHas, ReadyHas
          <5>4. CASE mat' = [mat EXCEPT ![job.id].status = "deleted", ![job.id].has = {},
                                        ![job.id].arch = job.pkg, ![job.pkg].partial = FALSE]
            BY <1>1, <2>1, <5>1, <5>2, <5>4 DEF TypeMat, MatRecs
          <5> QED BY <4>1, <5>3, <5>4 DEF Finalize
        <4>2. CASE Delete
          <5>1. /\ job.id \in Ids /\ mat[job.id].status = "deleting"
                /\ Failed(mat, job.id) \/ Shrinking(job.id)
            BY <4>2, DeleteFact
          <5>2. CASE Failed(mat, job.id) BY <1>1, <2>1, <5>1, <5>2, FailedHas
          <5>3. CASE Shrinking(job.id)
            <6>1. p \notin Inside(job.id) /\ p # job.id BY <1>1, <2>1, <2>2, <5>1, InsideFact
            <6> QED BY <2>1, <5>3, <6>1 DEF Shrinking
          <5> QED BY <5>1, <5>2, <5>3
        <4> QED BY <2>5, <4>1, <4>2
      <3> QED BY <2>3, <3>1, <3>2
    <2> QED BY <2>1, <2>3, <2>4, <2>5, OthersStay, OthersGrow
  <1> QED BY <1>9, <1>10 DEF CopyHeld

\* What must be kept is kept whole: a copy of the retrospective of the current success, or of
\* a Run that works or is validated, stays in the original or in a package, and so does every
\* package that a repeated deletion verifies.
THEOREM KeptWhole == Spec => MaterialsStay
  <1>1. ASSUME IInv, [Next]_vars PROVE [\A r \in Runs : CopyStays(r)]_vars
    <2>1. CASE Next BY <1>1, <2>1, CopyStep
    <2>2. CASE UNCHANGED vars BY <2>2
    <2> QED BY <1>1, <2>1, <2>2
  <1>2. Spec => [][\A r \in Runs : CopyStays(r)]_vars BY <1>1, Inductive, PTL DEF Spec
  <1>3. Spec => SuccessKept BY <1>2 DEF SuccessKept, CopyStays
  <1>4. Spec => [](TypeOK /\ PackageStays) BY Inductive, StayFromInv, PTL
  <1> QED BY <1>3, <1>4 DEF MaterialsStay

\* Nothing is unlinked while a Run of the requirement is active or a consumer needs it,
\* nothing that nobody inventoried, no original without a verified package of it, no work
\* that is not published, whatever fails or appears between two steps of the scan.
THEOREM RemovesSafely == Spec => RemovalSafe
  <1>1. ASSUME IInv, [Next]_vars
        PROVE  [\A id \in Ids : Shrinks(id)]_vars
    <2>1. CASE Next
      <3>1. ASSUME NEW id \in Ids, ~Finalize, ~Delete PROVE Shrinks(id)
        <4>1. mat[id].has \subseteq mat'[id].has BY <1>1, <2>1, <3>1, OthersGrow
        <4> QED BY <4>1 DEF Shrinks, Shrunk
      <3>2. ASSUME NEW id \in Ids PROVE Shrinks(id) BY <1>1, <3>1, FinalizeSafe, DeleteSafe
      <3> QED BY <3>2
    <2>2. CASE UNCHANGED vars BY <2>2
    <2> QED BY <1>1, <2>1, <2>2
  <1>2. Spec => [][\A id \in Ids : Shrinks(id)]_vars BY <1>1, Inductive, PTL DEF Spec
  <1> QED BY <1>2 DEF RemovalSafe, Shrinks

Sigma(f, S) == MapThenSumSet(LAMBDA x : f[x], S)

----------------------------------------------------------------------------
(* Sums.  The sum of natural numbers over a finite set counts the units of  *)
(* its members, so it does not matter in which order they are taken.        *)

\* of subsets of a finite set, one that has a property while none of its subsets with
\* a member less has it
LEMMA Smallest ==
  ASSUME NEW S, IsFiniteSet(S), NEW B \in SUBSET SUBSET S, B # {}
  PROVE  \E s \in B : \A x \in s : s \ {x} \notin B
  <1>1. B \subseteq FiniteSubsetsOf(S) BY FS_FiniteSubsetsOfFinite
  <1>2. IsWellFoundedOn(StrictSubsetOrdering(S), FiniteSubsetsOf(S)) BY FS_StrictSubsetOrderingWellFounded
  <1>3. PICK s \in B : \A t \in B : <<t, s>> \notin StrictSubsetOrdering(S) BY <1>1, <1>2, WFMin
  <1>4. ASSUME NEW x \in s PROVE s \ {x} \notin B
    <2>1. s \ {x} \in SUBSET S /\ s \in SUBSET S /\ s \ {x} \subseteq s /\ s \ {x} # s OBVIOUS
    <2>2. <<s \ {x}, s>> \in StrictSubsetOrdering(S) BY <2>1 DEF StrictSubsetOrdering
    <2> QED BY <1>3, <2>2
  <1> QED BY <1>4

Natural(f, S) == IsFiniteSet(S) /\ \A x \in S : f[x] \in Nat
Units(f, S) == UNION {{x} \X (1..f[x]) : x \in S}
Iterates(h, f, S) ==
    h = [s \in SUBSET S |-> IF s = {} THEN 0
                            ELSE f[CHOOSE x \in s : TRUE] + h[s \ {CHOOSE x \in s : TRUE}]]

LEMMA UnitsFinite ==
  ASSUME NEW f, NEW S, Natural(f, S)
  PROVE  IsFiniteSet(Units(f, S)) /\ Cardinality(Units(f, S)) \in Nat
  <1> DEFINE F == {{x} \X (1..f[x]) : x \in S}
  <1>1. IsFiniteSet(F)
    <2> DEFINE g == [x \in S |-> {x} \X (1..f[x])]
    <2>1. g \in Surjection(S, F) BY DEF Surjection
    <2> QED BY <2>1, FS_Surjection DEF Natural
  <1>2. \A T \in F : IsFiniteSet(T)
    <2> SUFFICES ASSUME NEW x \in S PROVE IsFiniteSet({x} \X (1..f[x])) OBVIOUS
    <2>1. IsFiniteSet({x}) BY FS_Singleton
    <2>2. IsFiniteSet(1..f[x]) BY FS_Interval DEF Natural
    <2> QED BY <2>1, <2>2, FS_Product
  <1>3. IsFiniteSet(Units(f, S)) BY <1>1, <1>2, FS_UNION DEF Units
  <1> QED BY <1>3, FS_CardinalityType

LEMMA UnitsTake ==
  ASSUME NEW f, NEW S, Natural(f, S), NEW x \in S
  PROVE  Cardinality(Units(f, S)) = f[x] + Cardinality(Units(f, S \ {x}))
  <1>1. Natural(f, S \ {x}) BY FS_Subset DEF Natural
  <1>2. IsFiniteSet(Units(f, S \ {x})) /\ Cardinality(Units(f, S \ {x})) \in Nat BY <1>1, UnitsFinite
  <1>3. IsFiniteSet({x} \X (1..f[x])) /\ Cardinality({x} \X (1..f[x])) = f[x]
    <2>1. IsFiniteSet({x}) /\ Cardinality({x}) = 1 BY FS_Singleton
    <2>2. f[x] \in Nat BY DEF Natural
    <2>3. IsFiniteSet(1..f[x]) /\ Cardinality(1..f[x]) = f[x] BY <2>2, FS_Interval, SMTT(30)
    <2>4. IsFiniteSet({x} \X (1..f[x]))
          /\ Cardinality({x} \X (1..f[x])) = Cardinality({x}) * Cardinality(1..f[x])
      BY <2>1, <2>3, FS_Product
    <2>5. 1 * f[x] = f[x] BY <2>2
    <2> QED BY <2>1, <2>3, <2>4, <2>5
  <1>4. Units(f, S) = ({x} \X (1..f[x])) \cup Units(f, S \ {x})
    <2>1. S = {x} \cup (S \ {x}) OBVIOUS
    <2> QED BY <2>1 DEF Units
  <1>5. ({x} \X (1..f[x])) \cap Units(f, S \ {x}) = {} BY DEF Units
  <1>6. Cardinality({}) = 0 BY FS_EmptySet
  <1>7. Cardinality(({x} \X (1..f[x])) \cup Units(f, S \ {x})) =
          Cardinality({x} \X (1..f[x])) + Cardinality(Units(f, S \ {x}))
          - Cardinality(({x} \X (1..f[x])) \cap Units(f, S \ {x}))
    BY <1>2, <1>3, FS_Union
  <1>8. f[x] \in Nat BY DEF Natural
  <1> DEFINE U == ({x} \X (1..f[x])) \cup Units(f, S \ {x})
  <1>9. Cardinality(U) = f[x] + Cardinality(Units(f, S \ {x})) - 0 BY <1>3, <1>5, <1>6, <1>7
  <1>10. Units(f, S) = U BY <1>4
  <1> HIDE DEF U
  <1> QED BY <1>2, <1>8, <1>9, <1>10

LEMMA SigmaUnits ==
  ASSUME NEW f, NEW S, Natural(f, S)
  PROVE  Sigma(f, S) = Cardinality(Units(f, S))
  <1>1. Sigma(f, S) = (CHOOSE h : Iterates(h, f, S))[S]
    BY DEF Sigma, MapThenSumSet, MapThenFoldSet, Iterates
  <1>2. \A s \in SUBSET S : Natural(f, s) BY FS_Subset DEF Natural
  <1> DEFINE c == [s \in SUBSET S |-> Cardinality(Units(f, s))]
             first(s) == CHOOSE x \in s : TRUE
  <1>3. Cardinality(Units(f, {})) = 0
    <2>1. Units(f, {}) = {} BY DEF Units
    <2> QED BY <2>1, FS_EmptySet
  <1>4. \A s \in SUBSET S : s # {} => first(s) \in s OBVIOUS
  <1>5. \A s \in SUBSET S : c[s] = IF s = {} THEN 0 ELSE f[first(s)] + c[s \ {first(s)}]
    <2> SUFFICES ASSUME NEW s \in SUBSET S
                 PROVE  c[s] = IF s = {} THEN 0 ELSE f[first(s)] + c[s \ {first(s)}]
      OBVIOUS
    <2>1. CASE s = {} BY <1>3, <2>1
    <2>2. CASE s # {}
      <3> DEFINE x == first(s)
      <3>1. x \in s BY <1>4, <2>2
      <3> HIDE DEF x
      <3>2. Cardinality(Units(f, s)) = f[x] + Cardinality(Units(f, s \ {x})) BY <1>2, <3>1, UnitsTake
      <3>3. c[s] = f[x] + c[s \ {x}] BY <3>2
      <3> QED BY <2>2, <3>3 DEF x
    <2> QED BY <2>1, <2>2
  <1> HIDE DEF first
  <1>6. c = [s \in SUBSET S |-> IF s = {} THEN 0 ELSE f[first(s)] + c[s \ {first(s)}]]
    <2>1. c = [s \in SUBSET S |-> c[s]] OBVIOUS
    <2> HIDE DEF c
    <2> QED BY <1>5, <2>1
  <1>7. Iterates(c, f, S) BY <1>6 DEF Iterates, first
  <1> DEFINE h == CHOOSE k : Iterates(k, f, S)
  <1>8. Iterates(h, f, S) BY <1>7
  <1> HIDE DEF h
  <1>9. \A s \in SUBSET S : h[s] = IF s = {} THEN 0 ELSE f[first(s)] + h[s \ {first(s)}]
    BY <1>8 DEF Iterates, first
  <1> DEFINE B == {s \in SUBSET S : h[s] # c[s]}
  <1> HIDE DEF c
  <1>10. B = {}
    <2> SUFFICES ASSUME B # {} PROVE FALSE OBVIOUS
    <2>1. B \in SUBSET SUBSET S OBVIOUS
    <2> HIDE DEF B
    <2>2. PICK s \in B : \A x \in s : s \ {x} \notin B BY <2>1, Smallest DEF Natural
    <2> USE DEF B
    <2>3. s \in SUBSET S /\ h[s] # c[s] BY <2>2
    <2>4. s # {} BY <1>5, <1>9, <2>3
    <2>5. first(s) \in s BY <1>4, <2>3, <2>4
    <2>6. h[s \ {first(s)}] = c[s \ {first(s)}] BY <2>2, <2>3, <2>5
    <2> QED BY <1>5, <1>9, <2>3, <2>4, <2>6
  <1>11. h[S] = c[S] BY <1>10
  <1> QED BY <1>1, <1>11 DEF c, h

LEMMA SigmaNat ==
  ASSUME NEW f, NEW S, Natural(f, S)
  PROVE  Sigma(f, S) \in Nat
  BY SigmaUnits, UnitsFinite

LEMMA SigmaEmpty ==
  ASSUME NEW f PROVE Sigma(f, {}) = 0
  <1>1. Natural(f, {}) BY FS_EmptySet DEF Natural
  <1>2. Units(f, {}) = {} BY DEF Units
  <1> QED BY <1>1, <1>2, SigmaUnits, FS_EmptySet

LEMMA NaturalPart ==
  ASSUME NEW f, NEW S, Natural(f, S), NEW T \in SUBSET S PROVE Natural(f, T)
  BY FS_Subset DEF Natural

LEMMA SigmaTake ==
  ASSUME NEW f, NEW S, Natural(f, S), NEW x \in S
  PROVE  Sigma(f, S) = f[x] + Sigma(f, S \ {x}) /\ Sigma(f, S \ {x}) \in Nat
  <1>1. Natural(f, S \ {x}) BY NaturalPart
  <1> QED BY <1>1, SigmaUnits, UnitsTake, SigmaNat

\* the sum of sums; sums of equal and of smaller members follow from it
LEMMA SigmaPlus ==
  ASSUME NEW f, NEW g, NEW h, NEW S, Natural(f, S), Natural(g, S), \A x \in S : h[x] = f[x] + g[x]
  PROVE  Natural(h, S) /\ Sigma(h, S) = Sigma(f, S) + Sigma(g, S)
  <1>1. Natural(h, S) BY DEF Natural
  <1> DEFINE B == {s \in SUBSET S : Sigma(h, s) # Sigma(f, s) + Sigma(g, s)}
  <1>2. B = {}
    <2> SUFFICES ASSUME B # {} PROVE FALSE OBVIOUS
    <2>1. B \in SUBSET SUBSET S OBVIOUS
    <2> HIDE DEF B
    <2>2. PICK s \in B : \A x \in s : s \ {x} \notin B BY <2>1, Smallest DEF Natural
    <2> USE DEF B
    <2>3. s \in SUBSET S /\ Sigma(h, s) # Sigma(f, s) + Sigma(g, s) BY <2>2
    <2>4. s # {} BY <2>3, SigmaEmpty
    <2>5. PICK x \in s : TRUE BY <2>4
    <2>6. Natural(f, s) /\ Natural(g, s) /\ Natural(h, s) BY <1>1, <2>3, NaturalPart
    <2>7. Sigma(h, s \ {x}) = Sigma(f, s \ {x}) + Sigma(g, s \ {x}) BY <2>2, <2>3
    <2> HIDE DEF B
    <2>8. Sigma(h, s) = h[x] + Sigma(h, s \ {x}) /\ Sigma(h, s \ {x}) \in Nat
      BY <2>5, <2>6, SigmaTake
    <2>9. Sigma(f, s) = f[x] + Sigma(f, s \ {x}) /\ Sigma(f, s \ {x}) \in Nat
      BY <2>5, <2>6, SigmaTake
    <2>10. Sigma(g, s) = g[x] + Sigma(g, s \ {x}) /\ Sigma(g, s \ {x}) \in Nat
      BY <2>5, <2>6, SigmaTake
    <2>11. h[x] = f[x] + g[x] /\ f[x] \in Nat /\ g[x] \in Nat BY <2>3, <2>5, <2>6 DEF Natural
    <2> QED BY <2>3, <2>7, <2>8, <2>9, <2>10, <2>11
  <1>3. S \notin B BY <1>2
  <1> QED BY <1>1, <1>3

LEMMA SigmaZero ==
  ASSUME NEW f, NEW S, IsFiniteSet(S), \A x \in S : f[x] = 0
  PROVE  Sigma(f, S) = 0
  <1>1. Natural(f, S) BY DEF Natural
  <1>2. Sigma(f, S) = Sigma(f, S) + Sigma(f, S) BY <1>1, SigmaPlus
  <1> QED BY <1>1, <1>2, SigmaNat

LEMMA SigmaMono ==
  ASSUME NEW f, NEW g, NEW S, Natural(f, S), Natural(g, S), \A x \in S : f[x] <= g[x]
  PROVE  Sigma(f, S) <= Sigma(g, S)
  <1> DEFINE d == [x \in S |-> g[x] - f[x]]
  <1>1. Natural(d, S) /\ \A x \in S : g[x] = f[x] + d[x] BY DEF Natural
  <1> HIDE DEF d
  <1>2. Sigma(g, S) = Sigma(f, S) + Sigma(d, S) BY <1>1, SigmaPlus
  <1> QED BY <1>1, <1>2, SigmaNat

LEMMA SigmaEqual ==
  ASSUME NEW f, NEW g, NEW S, Natural(f, S), \A x \in S : g[x] = f[x]
  PROVE  Natural(g, S) /\ Sigma(g, S) = Sigma(f, S)
  <1>1. Natural(g, S) BY DEF Natural
  <1>2. Sigma(f, S) <= Sigma(g, S) /\ Sigma(g, S) <= Sigma(f, S)
    <2>1. \A x \in S : f[x] <= g[x] /\ g[x] <= f[x] BY DEF Natural
    <2> QED BY <1>1, <2>1, SigmaMono
  <1> QED BY <1>1, <1>2, SigmaNat

\* one member changes
LEMMA SigmaChange ==
  ASSUME NEW f, NEW g, NEW S, Natural(f, S), NEW x \in S, g[x] \in Nat, \A y \in S : y # x => g[y] = f[y]
  PROVE  Natural(g, S) /\ Sigma(g, S) + f[x] = Sigma(f, S) + g[x]
  <1>1. Natural(g, S) BY DEF Natural
  <1>2. Natural(f, S \ {x}) /\ \A y \in S \ {x} : g[y] = f[y] BY NaturalPart
  <1>3. Sigma(g, S \ {x}) = Sigma(f, S \ {x}) BY <1>2, SigmaEqual
  <1>4. /\ Sigma(f, S) = f[x] + Sigma(f, S \ {x}) /\ Sigma(f, S \ {x}) \in Nat
        /\ Sigma(g, S) = g[x] + Sigma(g, S \ {x}) /\ Sigma(g, S \ {x}) \in Nat
    BY <1>1, SigmaTake
  <1> QED BY <1>1, <1>3, <1>4 DEF Natural

LEMMA SigmaMember ==
  ASSUME NEW f, NEW S, Natural(f, S), NEW x \in S PROVE f[x] <= Sigma(f, S)
  <1>1. f[x] \in Nat BY DEF Natural
  <1>2. Sigma(f, S) = f[x] + Sigma(f, S \ {x}) /\ Sigma(f, S \ {x}) \in Nat BY SigmaTake
  <1> QED BY <1>1, <1>2

----------------------------------------------------------------------------
(* Storage admission.  The inductive invariant.                             *)

LedgerPhases == {"none", "reserved", "working", "candidate", "prepared", "validating", "waiting",
                 "delivering", "ended"}
RowRecs == [row : BOOLEAN, allocated : Nat, outstanding : Nat, actual : Nat, settled : BOOLEAN]
PolicyRecs ==
    [requirement : [AgentRuns -> Nat], old : [AgentRuns -> Nat], amount : Nat \ {0}, global : Nat,
     runBytes : Nat, requirementBytes : Nat, validated : BOOLEAN, retries : Nat, excess : Nat, over : Nat]
LedgerTyped ==
    /\ phase \in [AgentRuns -> LedgerPhases] /\ alloc \in [Requests -> RowRecs]
    /\ used \in [Requests -> Nat] /\ stop \in [AgentRuns -> BOOLEAN]
    /\ retries \in [AgentRuns -> Nat] /\ policy \in PolicyRecs

\* a row belongs to a reservation, or to the bytes of a Run from before storage was configured
Earlier(q) == q[2] = "run" /\ Old[q[1]] > 0
BookedRow(q, row, bytes) ==
    /\ row.outstanding <= row.allocated
    /\ row.settled => row.row /\ row.outstanding = 0
    /\ ~row.row => row = NoRow /\ (~Earlier(q) => bytes = 0)
    /\ row.row /\ ~Earlier(q) => row.allocated >= Amount
    /\ Earlier(q) => bytes <= Old[q[1]]
    /\ q[2] = "cold" => bytes <= Amount /\ (row.row /\ ~row.settled => row.outstanding = Amount)
Booked(q) == BookedRow(q, alloc[q], used[q])

\* what the phase of a Run says about its rows
Held(r) ==
    /\ Old[r] > 0 => phase[r] = "ended"
    /\ phase[r] = "none" => \A k \in {"run", "validation", "cold"} :
                               alloc[<<r, k>>] = NoRow /\ used[<<r, k>>] = 0
    /\ phase[r] \in {"reserved", "working"} =>
          /\ alloc[<<r, "run">>].row /\ ~alloc[<<r, "run">>].settled
          /\ used[<<r, "run">>] + alloc[<<r, "run">>].outstanding >= Amount
    /\ phase[r] \in {"prepared", "validating", "waiting"} => alloc[<<r, "validation">>].row
    /\ ~Validated => phase[r] \in {"none", "reserved", "working", "ended"}
    /\ retries[r] <= policy.retries /\ (phase[r] = "waiting" => retries[r] < policy.retries)

\* what a row has been granted, or will be once it is reconciled; and what was
\* written in excess of a reservation
PotentialOf(row, bytes) ==
    IF ~row.row THEN bytes
    ELSE IF row.settled \/ bytes <= row.allocated THEN row.allocated ELSE bytes
Potential == [q \in Requests |-> PotentialOf(alloc[q], used[q])]
Excess == [q \in Requests |-> IF ~Earlier(q) /\ used[q] > Amount THEN used[q] - Amount ELSE 0]
GrantedAt(r) ==
    SumOver(Potential, OfRequirement(r))
        <= RequirementBytes + policy.over + SumOver(Before, OfRequirement(r))
GrantedOnce == \A r \in AgentRuns : GrantedAt(r)
ExcessCounted == Total(Excess) <= policy.over

LedgerInv ==
    /\ LedgerTyped
    /\ \A q \in Requests : Booked(q)
    /\ \A r \in AgentRuns : Held(r)
    /\ GrantedOnce /\ ExcessCounted /\ Promised

----------------------------------------------------------------------------
(* Sums over the requests.                                                  *)

Mine(f, req, r) == [q \in Requests |-> IF req[q[1]] = req[r] THEN f[q] ELSE 0]
Only(q, n) == [p \in Requests |-> IF p = q THEN n ELSE 0]

LEMMA RequestsFinite == IsFiniteSet(Requests)
  <1>1. IsFiniteSet({"run", "validation", "cold"})
    <2>1. IsFiniteSet({"run"}) /\ IsFiniteSet({"validation"}) /\ IsFiniteSet({"cold"}) BY FS_Singleton
    <2>2. IsFiniteSet({"run"} \cup {"validation"}) BY <2>1, FS_Union
    <2>3. IsFiniteSet(({"run"} \cup {"validation"}) \cup {"cold"}) BY <2>1, <2>2, FS_Union
    <2>4. ({"run"} \cup {"validation"}) \cup {"cold"} = {"run", "validation", "cold"} OBVIOUS
    <2> QED BY <2>3, <2>4
  <1> QED BY <1>1, LedgerAssumption, FS_Product DEF LedgerAssumption, Requests

LEMMA Summable ==
  ASSUME NEW f, \A q \in Requests : f[q] \in Nat
  PROVE  Natural(f, Requests)
  BY RequestsFinite DEF Natural

LEMMA MineSummable ==
  ASSUME NEW f, \A q \in Requests : f[q] \in Nat, NEW req, NEW r
  PROVE  Natural(Mine(f, req, r), Requests)
  <1>1. \A q \in Requests : Mine(f, req, r)[q] \in Nat BY DEF Mine
  <1> QED BY <1>1, Summable

LEMMA SumsAre ==
  ASSUME NEW f, NEW req, NEW r
  PROVE  /\ Total(f) = Sigma(f, Requests)
         /\ SumOver(f, {q \in Requests : req[q[1]] = req[r]}) = Sigma(Mine(f, req, r), Requests)
  <1>1. Total(f) = Sigma(f, Requests) BY DEF Total, Sigma
  <1> DEFINE S == {q \in Requests : req[q[1]] = req[r]}
  <1>2. SumOver(f, S) = Sigma([q \in Requests |-> IF q \in S THEN f[q] ELSE 0], Requests)
    BY DEF SumOver, Total, Sigma
  <1>3. [q \in Requests |-> IF q \in S THEN f[q] ELSE 0] = Mine(f, req, r) BY DEF Mine
  <1> QED BY <1>1, <1>2, <1>3

LEMMA OnlySum ==
  ASSUME NEW q \in Requests, NEW n \in Nat
  PROVE  /\ \A p \in Requests : Only(q, n)[p] \in Nat
         /\ Sigma(Only(q, n), Requests) = n
  <1> DEFINE o == Only(q, n)
  <1>1. \A p \in Requests : o[p] \in Nat BY DEF Only
  <1>2. o[q] = n /\ \A p \in Requests \ {q} : o[p] = 0 BY DEF Only
  <1> HIDE DEF o
  <1>3. Natural(o, Requests) BY <1>1, Summable
  <1>4. Sigma(o, Requests) = o[q] + Sigma(o, Requests \ {q}) BY <1>3, SigmaTake
  <1>5. IsFiniteSet(Requests \ {q}) BY RequestsFinite, FS_Subset
  <1>6. Sigma(o, Requests \ {q}) = 0 BY <1>2, <1>5, SigmaZero
  <1> QED BY <1>1, <1>2, <1>4, <1>6 DEF o

\* what is at most f, one request excepted
LEMMA SumStep ==
  ASSUME NEW f, NEW g, \A q \in Requests : f[q] \in Nat /\ g[q] \in Nat,
         NEW q \in Requests, NEW n \in Nat,
         \A p \in Requests : g[p] <= f[p] + Only(q, n)[p]
  PROVE  /\ Sigma(f, Requests) \in Nat /\ Sigma(g, Requests) \in Nat
         /\ Sigma(g, Requests) <= Sigma(f, Requests) + n
  <1>1. Natural(f, Requests) /\ Natural(g, Requests) BY Summable
  <1>2. Natural(Only(q, n), Requests) /\ Sigma(Only(q, n), Requests) = n BY OnlySum, Summable
  <1> DEFINE h == [p \in Requests |-> f[p] + Only(q, n)[p]]
  <1>3. \A p \in Requests : h[p] = f[p] + Only(q, n)[p] OBVIOUS
  <1>4. Natural(h, Requests) /\ Sigma(h, Requests) = Sigma(f, Requests) + Sigma(Only(q, n), Requests)
    BY <1>1, <1>2, <1>3, SigmaPlus
  <1>5. \A p \in Requests : g[p] <= h[p] BY <1>3
  <1> HIDE DEF h
  <1>6. Sigma(g, Requests) <= Sigma(h, Requests) BY <1>1, <1>4, <1>5, SigmaMono
  <1>7. Sigma(f, Requests) \in Nat /\ Sigma(g, Requests) \in Nat BY <1>1, SigmaNat
  <1> QED BY <1>2, <1>4, <1>6, <1>7

LEMMA MineStep ==
  ASSUME NEW f, NEW g, \A q \in Requests : f[q] \in Nat /\ g[q] \in Nat,
         NEW q \in Requests, NEW n \in Nat, NEW req, NEW r,
         \A p \in Requests : req[p[1]] = req[r] => g[p] <= f[p] + Only(q, n)[p]
  PROVE  /\ Sigma(Mine(f, req, r), Requests) \in Nat /\ Sigma(Mine(g, req, r), Requests) \in Nat
         /\ Sigma(Mine(g, req, r), Requests) <= Sigma(Mine(f, req, r), Requests) + n
  <1>1. \A p \in Requests : Mine(f, req, r)[p] \in Nat /\ Mine(g, req, r)[p] \in Nat BY DEF Mine
  <1>2. \A p \in Requests : Only(q, n)[p] \in Nat BY OnlySum
  <1>3. \A p \in Requests : Mine(g, req, r)[p] <= Mine(f, req, r)[p] + Only(q, n)[p] BY <1>2 DEF Mine
  <1> QED BY <1>1, <1>3, SumStep

\* the part of a sum that belongs to one requirement
LEMMA MinePart ==
  ASSUME NEW f, \A q \in Requests : f[q] \in Nat, NEW req, NEW r
  PROVE  Sigma(Mine(f, req, r), Requests) <= Sigma(f, Requests)
  <1>1. Natural(f, Requests) /\ Natural(Mine(f, req, r), Requests) BY Summable, MineSummable
  <1>2. \A q \in Requests : Mine(f, req, r)[q] <= f[q] BY DEF Mine
  <1> QED BY <1>1, <1>2, SigmaMono

\* what is at most a sum of two
LEMMA SumOfTwo ==
  ASSUME NEW f, NEW g, NEW h, \A q \in Requests : f[q] \in Nat /\ g[q] \in Nat /\ h[q] \in Nat,
         \A q \in Requests : h[q] <= f[q] + g[q]
  PROVE  /\ Sigma(f, Requests) \in Nat /\ Sigma(g, Requests) \in Nat /\ Sigma(h, Requests) \in Nat
         /\ Sigma(h, Requests) <= Sigma(f, Requests) + Sigma(g, Requests)
  <1>1. Natural(f, Requests) /\ Natural(g, Requests) /\ Natural(h, Requests) BY Summable
  <1> DEFINE s == [q \in Requests |-> f[q] + g[q]]
  <1>2. \A q \in Requests : s[q] = f[q] + g[q] OBVIOUS
  <1>5. \A q \in Requests : h[q] <= s[q] OBVIOUS
  <1> HIDE DEF s
  <1>3. Natural(s, Requests) /\ Sigma(s, Requests) = Sigma(f, Requests) + Sigma(g, Requests)
    BY <1>1, <1>2, SigmaPlus
  <1>4. Sigma(h, Requests) <= Sigma(s, Requests) BY <1>1, <1>3, <1>5, SigmaMono
  <1> QED BY <1>1, <1>3, <1>4, SigmaNat

----------------------------------------------------------------------------
(* Rows.                                                                    *)

LEMMA NoRowFact ==
  /\ NoRow \in RowRecs /\ ~NoRow.row /\ ~NoRow.settled /\ NoRow.allocated = 0 /\ NoRow.outstanding = 0
  /\ NoRow.actual = 0
  BY DEF NoRow, RowRecs

FreshRow(n, out) == [row |-> TRUE, allocated |-> n, outstanding |-> out, actual |-> 0, settled |-> FALSE]

LEMMA NewRowFact ==
  ASSUME NEW n \in Nat, NEW out \in Nat
  PROVE  /\ FreshRow(n, out) \in RowRecs /\ FreshRow(n, out).row /\ ~FreshRow(n, out).settled
         /\ FreshRow(n, out).allocated = n /\ FreshRow(n, out).outstanding = out
  BY DEF FreshRow, RowRecs

LEMMA ReconciledFact ==
  ASSUME NEW row \in RowRecs, row.row, ~row.settled, NEW bytes \in Nat, NEW complete \in BOOLEAN
  PROVE  LET new == Reconciled(row, bytes, complete) IN
         /\ new \in RowRecs /\ new.row /\ (new.settled <=> complete)
         /\ new.allocated = (IF bytes > row.allocated THEN bytes ELSE row.allocated)
         /\ new.outstanding = (IF complete \/ bytes > row.allocated THEN 0 ELSE row.allocated - bytes)
  <1> DEFINE a == IF bytes > row.allocated THEN bytes ELSE row.allocated
             o == IF complete \/ bytes > row.allocated THEN 0 ELSE row.allocated - bytes
  <1>1. row.allocated \in Nat /\ row.row \in BOOLEAN BY DEF RowRecs
  <1>2. a \in Nat /\ o \in Nat BY <1>1
  <1>3. Reconciled(row, bytes, complete) =
          [row EXCEPT !.actual = bytes, !.outstanding = o, !.settled = complete, !.allocated = a]
    BY DEF Reconciled, OutstandingOf
  <1> HIDE DEF a, o
  <1>4. Reconciled(row, bytes, complete) =
          [row |-> row.row, allocated |-> a, outstanding |-> o, actual |-> bytes, settled |-> complete]
    BY <1>3 DEF RowRecs
  <1> DEFINE new == Reconciled(row, bytes, complete)
  <1>5. new.row = row.row /\ new.settled = complete /\ new.allocated = a /\ new.outstanding = o BY <1>4
  <1>6. new \in RowRecs BY <1>1, <1>2, <1>4 DEF RowRecs
  <1> HIDE DEF new
  <1> QED BY <1>5, <1>6 DEF new, a, o

LEMMA ReconciledSame ==
  ASSUME NEW row \in RowRecs, ~row.row \/ row.settled, NEW bytes, NEW complete
  PROVE  Reconciled(row, bytes, complete) = row
  BY DEF Reconciled

\* the row the scan leaves for a request
LEMMA LedgerRow ==
  ASSUME LedgerTyped, NEW q \in Requests, Booked(q)
  PROVE  /\ Ledger[q] \in RowRecs /\ BookedRow(q, Ledger[q], used[q])
         /\ Ledger[q].allocated = PotentialOf(alloc[q], used[q])
         /\ PotentialOf(Ledger[q], used[q]) = PotentialOf(alloc[q], used[q])
         /\ q[2] = "cold" => Ledger[q] = alloc[q]
         /\ alloc[q] = NoRow /\ used[q] = 0 => Ledger[q] = NoRow
         /\ alloc[q].row => Ledger[q].row
         /\ alloc[q].settled => Ledger[q] = alloc[q]
         /\ Ledger[q].allocated >= alloc[q].allocated
         /\ q[2] # "cold" /\ Protection(phase, q[1]) /\ alloc[q].row /\ ~alloc[q].settled =>
              ~Ledger[q].settled /\ used[q] + Ledger[q].outstanding = Ledger[q].allocated
  <1>1. alloc[q] \in RowRecs /\ used[q] \in Nat /\ Amount \in Nat
    BY DEF LedgerTyped, PolicyRecs, Amount
  <1>2. /\ alloc[q].allocated \in Nat /\ alloc[q].outstanding \in Nat /\ alloc[q].row \in BOOLEAN
        /\ alloc[q].settled \in BOOLEAN
    BY <1>1 DEF RowRecs
  <1>3. BookedRow(q, alloc[q], used[q]) BY DEF Booked
  <1>4. CASE q[2] = "cold"
    <2>1. Ledger[q] = alloc[q] BY <1>4 DEF Ledger
    <2>2. alloc[q].allocated = PotentialOf(alloc[q], used[q])
      <3>1. ~Earlier(q) BY <1>4 DEF Earlier
      <3> QED BY <1>1, <1>2, <1>3, <1>4, <3>1, NoRowFact DEF BookedRow, PotentialOf
    <2> QED BY <1>1, <1>2, <1>3, <1>4, <2>1, <2>2
  <1>5. CASE q[2] # "cold"
    <2> DEFINE done == ~Protection(phase, q[1])
    <2>1. Ledger[q] = Reconciled(Adopted(q), used[q], done) BY <1>5 DEF Ledger
    <2>2. done \in BOOLEAN BY DEF Protection
    <2>3. CASE alloc[q].settled \/ (~alloc[q].row /\ used[q] = 0)
      <3>1. Adopted(q) = alloc[q] BY <1>3, <2>3 DEF Adopted, BookedRow
      <3>2. Ledger[q] = alloc[q] BY <1>1, <2>1, <2>3, <3>1, ReconciledSame
      <3>3. alloc[q].allocated = PotentialOf(alloc[q], used[q])
        BY <1>1, <1>2, <1>3, <2>3, NoRowFact DEF BookedRow, PotentialOf
      <3> QED BY <1>1, <1>2, <1>3, <1>5, <2>3, <3>2, <3>3
    <2>4. CASE alloc[q].row /\ ~alloc[q].settled
      <3>1. Adopted(q) = alloc[q] BY <2>4 DEF Adopted
      <3> DEFINE new == Reconciled(alloc[q], used[q], done)
      <3>2. /\ new \in RowRecs /\ new.row /\ (new.settled <=> done)
            /\ new.allocated = (IF used[q] > alloc[q].allocated THEN used[q] ELSE alloc[q].allocated)
            /\ new.outstanding = (IF done \/ used[q] > alloc[q].allocated THEN 0
                                  ELSE alloc[q].allocated - used[q])
        BY <1>1, <2>2, <2>4, ReconciledFact
      <3>3. Ledger[q] = new BY <2>1, <3>1
      <3> HIDE DEF new, done
      <3>4. BookedRow(q, new, used[q])
        BY <1>1, <1>2, <1>3, <1>5, <2>4, <3>2 DEF BookedRow
      <3>5. new.allocated = PotentialOf(alloc[q], used[q]) /\ PotentialOf(new, used[q]) = new.allocated
        BY <1>1, <1>2, <2>4, <3>2 DEF PotentialOf
      <3> QED BY <1>1, <1>2, <1>5, <2>4, <3>2, <3>3, <3>4, <3>5, NoRowFact DEF done
    <2>5. CASE ~alloc[q].row /\ used[q] # 0
      <3>1. alloc[q] = NoRow /\ Earlier(q) BY <1>3, <2>5 DEF BookedRow
      <3>2. Adopted(q) = FreshRow(used[q], 0) BY <2>5 DEF Adopted, FreshRow, NoRow
      <3> DEFINE row == FreshRow(used[q], 0)
                 new == Reconciled(row, used[q], done)
      <3>3. row \in RowRecs /\ row.row /\ ~row.settled /\ row.allocated = used[q] BY <1>1, NewRowFact
      <3> HIDE DEF row
      <3>4. /\ new \in RowRecs /\ new.row /\ (new.settled <=> done)
            /\ new.allocated = (IF used[q] > row.allocated THEN used[q] ELSE row.allocated)
            /\ new.outstanding = (IF done \/ used[q] > row.allocated THEN 0 ELSE row.allocated - used[q])
        BY <1>1, <2>2, <3>3, ReconciledFact
      <3>5. new.allocated = used[q] /\ new.outstanding = 0 BY <1>1, <3>3, <3>4
      <3>6. Ledger[q] = new BY <2>1, <3>2 DEF row
      <3> HIDE DEF new, done
      <3>7. BookedRow(q, new, used[q]) BY <1>1, <1>3, <1>5, <3>1, <3>4, <3>5 DEF BookedRow
      <3>8. new.allocated = PotentialOf(alloc[q], used[q]) /\ PotentialOf(new, used[q]) = new.allocated
        BY <1>1, <2>5, <3>4, <3>5 DEF PotentialOf
      <3> QED BY <1>1, <1>2, <1>5, <2>5, <3>1, <3>4, <3>5, <3>6, <3>7, <3>8, NoRowFact
    <2> QED BY <1>2, <2>3, <2>4, <2>5
  <1> QED BY <1>4, <1>5

----------------------------------------------------------------------------
(* What a step does to the sums.                                            *)

SameCase ==
    /\ policy'.requirement = policy.requirement /\ policy'.old = policy.old
    /\ policy'.amount = policy.amount /\ policy'.global = policy.global
    /\ policy'.runBytes = policy.runBytes /\ policy'.requirementBytes = policy.requirementBytes
    /\ policy'.validated = policy.validated /\ policy'.retries = policy.retries

LEMMA PolicyFact ==
  ASSUME LedgerTyped
  PROVE  /\ Requirement \in [AgentRuns -> Nat] /\ Old \in [AgentRuns -> Nat] /\ Amount \in Nat \ {0}
         /\ Global \in Nat /\ RunBytes \in Nat /\ RequirementBytes \in Nat /\ Validated \in BOOLEAN
         /\ policy.retries \in Nat /\ policy.excess \in Nat /\ policy.over \in Nat
  BY DEF LedgerTyped, PolicyRecs, Requirement, Old, Amount, Global, RunBytes, RequirementBytes, Validated

LEMMA SameCaseFact ==
  ASSUME SameCase
  PROVE  /\ Requirement' = Requirement /\ Old' = Old /\ Amount' = Amount /\ Global' = Global
         /\ RunBytes' = RunBytes /\ RequirementBytes' = RequirementBytes /\ Validated' = Validated
         /\ Before' = Before
         /\ \A q \in Requests : Earlier(q)' = Earlier(q)
         /\ \A r : OfRequirement(r)' = OfRequirement(r)
  BY DEF SameCase, Requirement, Old, Amount, Global, RunBytes, RequirementBytes, Validated, Before, Earlier,
         OfRequirement

LEMMA RequestFact ==
  ASSUME NEW q \in Requests
  PROVE  q[1] \in AgentRuns /\ q[2] \in {"run", "validation", "cold"} /\ q = <<q[1], q[2]>>
  BY DEF Requests

LEMMA SumTypes ==
  ASSUME LedgerTyped, NEW q \in Requests
  PROVE  /\ Potential[q] \in Nat /\ Excess[q] \in Nat /\ WorstCase[q] \in Nat /\ Before[q] \in Nat
         /\ used[q] \in Nat /\ Allocated(alloc)[q] \in Nat /\ Outstanding(alloc)[q] \in Nat
  <1>1. alloc[q] \in RowRecs /\ used[q] \in Nat BY DEF LedgerTyped
  <1>2. alloc[q].allocated \in Nat /\ alloc[q].outstanding \in Nat BY <1>1 DEF RowRecs
  <1>3. Amount \in Nat /\ q[1] \in AgentRuns /\ Old[q[1]] \in Nat BY PolicyFact, RequestFact
  <1>4. Potential[q] \in Nat BY <1>1, <1>2 DEF Potential, PotentialOf
  <1>5. Excess[q] \in Nat BY <1>1, <1>3 DEF Excess
  <1>6. WorstCase[q] \in Nat BY <1>1, <1>3 DEF WorstCase
  <1>7. Before[q] \in Nat BY <1>3 DEF Before
  <1> QED BY <1>1, <1>2, <1>4, <1>5, <1>6, <1>7 DEF Allocated, Outstanding

\* a step that lets the potential of one request grow by what it counts as excess
LEMMA GrantedKept ==
  ASSUME LedgerTyped, LedgerTyped', SameCase, GrantedOnce, NEW q \in Requests, NEW n \in Nat,
         policy'.over = policy.over + n,
         \A p \in Requests : Potential'[p] <= Potential[p] + Only(q, n)[p]
  PROVE  GrantedOnce'
  <1> SUFFICES ASSUME NEW r \in AgentRuns
               PROVE  SumOver(Potential', OfRequirement(r)')
                        <= RequirementBytes' + policy'.over + SumOver(Before', OfRequirement(r)')
    BY DEF GrantedOnce, GrantedAt
  <1>1. SumOver(Potential, OfRequirement(r))
          <= RequirementBytes + policy.over + SumOver(Before, OfRequirement(r))
    BY DEF GrantedOnce, GrantedAt
  <1>2. OfRequirement(r)' = OfRequirement(r) /\ Before' = Before /\ RequirementBytes' = RequirementBytes
    BY SameCaseFact
  <1>3. OfRequirement(r) = {p \in Requests : Requirement[p[1]] = Requirement[r]} BY DEF OfRequirement
  <1>4. \A p \in Requests : Potential[p] \in Nat /\ Before[p] \in Nat BY SumTypes
  <1>5. \A p \in Requests : Potential'[p] \in Nat
    <2>1. \A p \in Requests : alloc'[p] \in RowRecs /\ used'[p] \in Nat BY DEF LedgerTyped
    <2>2. \A p \in Requests : alloc'[p].allocated \in Nat BY <2>1 DEF RowRecs
    <2> QED BY <2>1, <2>2 DEF Potential, PotentialOf
  <1> DEFINE a == Sigma(Mine(Potential, Requirement, r), Requests)
             b == Sigma(Mine(Potential', Requirement, r), Requests)
             c == Sigma(Mine(Before, Requirement, r), Requests)
  <1>6. a \in Nat /\ b \in Nat /\ b <= a + n BY <1>4, <1>5, MineStep
  <1>7. c \in Nat BY <1>4, MineSummable, SigmaNat
  <1>8. /\ SumOver(Potential, OfRequirement(r)) = a /\ SumOver(Potential', OfRequirement(r)) = b
        /\ SumOver(Before, OfRequirement(r)) = c
    BY <1>3, SumsAre
  <1>9. RequirementBytes \in Nat /\ policy.over \in Nat BY PolicyFact
  <1> HIDE DEF a, b, c
  <1> QED BY <1>1, <1>2, <1>6, <1>7, <1>8, <1>9

LEMMA ExcessKept ==
  ASSUME LedgerTyped, LedgerTyped', ExcessCounted, NEW q \in Requests, NEW n \in Nat,
         policy'.over = policy.over + n,
         \A p \in Requests : Excess'[p] <= Excess[p] + Only(q, n)[p]
  PROVE  ExcessCounted'
  <1>1. \A p \in Requests : Excess[p] \in Nat BY SumTypes
  <1>2. \A p \in Requests : Excess'[p] \in Nat
    <2>1. \A p \in Requests : used'[p] \in Nat BY DEF LedgerTyped
    <2>2. Amount' \in Nat BY DEF LedgerTyped, PolicyRecs, Amount
    <2> QED BY <2>1, <2>2 DEF Excess
  <1> DEFINE a == Sigma(Excess, Requests)
             b == Sigma(Excess', Requests)
  <1>3. a \in Nat /\ b \in Nat /\ b <= a + n BY <1>1, <1>2, SumStep
  <1>4. Total(Excess) = a /\ Total(Excess') = b BY SumsAre
  <1>5. policy.over \in Nat BY PolicyFact
  <1>6. a <= policy.over BY <1>4 DEF ExcessCounted
  <1> HIDE DEF a, b
  <1>7. b <= policy'.over BY <1>3, <1>5, <1>6
  <1>8. Total(Excess') <= policy'.over BY <1>4, <1>7
  <1> QED BY <1>8 DEF ExcessCounted

LEMMA WorstTyped ==
  ASSUME LedgerTyped' PROVE \A p \in Requests : WorstCase'[p] \in Nat
  <1>1. \A p \in Requests : used'[p] \in Nat BY DEF LedgerTyped
  <1>2. Amount' \in Nat BY DEF LedgerTyped, PolicyRecs, Amount
  <1> QED BY <1>1, <1>2 DEF WorstCase

LEMMA PromiseKept ==
  ASSUME LedgerTyped, LedgerTyped', SameCase, Promised, NEW q \in Requests, NEW n \in Nat,
         policy'.over = policy.over + n,
         ~Validated => \A p \in Requests : WorstCase'[p] <= WorstCase[p] + Only(q, n)[p]
  PROVE  Promised'
  <1> SUFFICES ASSUME ~Validated'
               PROVE  \/ Total(WorstCase') + Control <= Global' + policy'.over
                      \/ Total(WorstCase') <= Total(Before') + policy'.over
    BY DEF Promised
  <1>1. ~Validated /\ Global' = Global /\ Before' = Before BY SameCaseFact
  <1>2. \A p \in Requests : WorstCase[p] \in Nat /\ Before[p] \in Nat BY SumTypes
  <1>3. \A p \in Requests : WorstCase'[p] \in Nat BY WorstTyped
  <1> DEFINE a == Sigma(WorstCase, Requests)
             b == Sigma(WorstCase', Requests)
             c == Sigma(Before, Requests)
  <1>4. a \in Nat /\ b \in Nat /\ b <= a + n BY <1>1, <1>2, <1>3, SumStep
  <1>5. c \in Nat BY <1>2, Summable, SigmaNat
  <1>6. Total(WorstCase) = a /\ Total(WorstCase') = b /\ Total(Before) = c BY SumsAre
  <1>7. Global \in Nat /\ policy.over \in Nat BY PolicyFact
  <1>8. Control \in Nat BY LedgerAssumption DEF LedgerAssumption
  <1>9. a + Control <= Global + policy.over \/ a <= c + policy.over BY <1>1, <1>6 DEF Promised
  <1> HIDE DEF a, b, c
  <1> QED BY <1>1, <1>4, <1>5, <1>6, <1>7, <1>8, <1>9

LEMMA QuietSums ==
  ASSUME LedgerInv, LedgerTyped', policy' = policy, NEW q \in Requests,
         \A p \in Requests : Potential'[p] <= Potential[p],
         \A p \in Requests : Excess'[p] <= Excess[p],
         ~Validated => \A p \in Requests : WorstCase'[p] <= WorstCase[p]
  PROVE  GrantedOnce' /\ ExcessCounted' /\ Promised'
  <1>1. LedgerTyped /\ GrantedOnce /\ ExcessCounted /\ Promised BY DEF LedgerInv
  <1>2. SameCase BY DEF SameCase
  <1>3. policy.over \in Nat BY <1>1, PolicyFact
  <1>4. policy'.over = policy.over + 0 BY <1>3
  <1>5. \A p \in Requests : Only(q, 0)[p] = 0 BY DEF Only
  <1>6. \A p \in Requests : Potential[p] \in Nat /\ Excess[p] \in Nat /\ WorstCase[p] \in Nat BY <1>1, SumTypes
  <1>7. \A p \in Requests : Potential'[p] <= Potential[p] + Only(q, 0)[p] BY <1>5, <1>6
  <1>8. \A p \in Requests : Excess'[p] <= Excess[p] + Only(q, 0)[p] BY <1>5, <1>6
  <1>9. ~Validated => \A p \in Requests : WorstCase'[p] <= WorstCase[p] + Only(q, 0)[p] BY <1>5, <1>6
  <1>10. GrantedOnce' BY <1>1, <1>2, <1>4, <1>7, GrantedKept
  <1>11. ExcessCounted' BY <1>1, <1>4, <1>8, ExcessKept
  <1>12. Promised' BY <1>1, <1>2, <1>4, <1>9, PromiseKept
  <1> QED BY <1>10, <1>11, <1>12

\* what the invariant says of one request and of its Run
LEMMA RequestInv ==
  ASSUME LedgerInv, NEW q \in Requests
  PROVE  /\ Booked(q) /\ Held(q[1]) /\ alloc[q] \in RowRecs /\ used[q] \in Nat
         /\ alloc[q].allocated \in Nat /\ alloc[q].outstanding \in Nat
         /\ alloc[q].row \in BOOLEAN /\ alloc[q].settled \in BOOLEAN
  <1>1. LedgerTyped /\ Booked(q) /\ Held(q[1]) BY RequestFact DEF LedgerInv
  <1>2. alloc[q] \in RowRecs /\ used[q] \in Nat BY <1>1 DEF LedgerTyped
  <1> QED BY <1>1, <1>2 DEF RowRecs

LEMMA ProducerFact ==
  ASSUME LedgerInv, NEW q \in Requests, Producing(q)
  PROVE  alloc[q].row /\ ~Earlier(q) /\ phase[q[1]] # "none" /\ alloc[q].allocated >= Amount
  <1>1. /\ Booked(q) /\ Held(q[1]) /\ alloc[q] \in RowRecs /\ used[q] \in Nat /\ alloc[q].allocated \in Nat
    BY RequestInv
  <1>2. q[1] \in AgentRuns /\ q[2] \in {"run", "validation", "cold"} /\ q = <<q[1], q[2]>> BY RequestFact
  <1>3. alloc[q].row
    <2>1. CASE q[2] = "run" BY <1>1, <1>2, <2>1 DEF Producing, Held
    <2>2. CASE q[2] = "validation" BY <1>1, <1>2, <2>2 DEF Producing, Held
    <2>3. CASE q[2] = "cold" BY <2>3 DEF Producing
    <2> QED BY <1>2, <2>1, <2>2, <2>3
  <1>4. ~Earlier(q)
    <2>1. CASE q[2] = "run"
      <3>1. phase[q[1]] = "working" BY <2>1 DEF Producing
      <3> QED BY <1>1, <3>1 DEF Held, Earlier
    <2>2. CASE q[2] # "run" BY <2>2 DEF Earlier
    <2> QED BY <2>1, <2>2
  <1>5. phase[q[1]] # "none"
    <2> SUFFICES ASSUME phase[q[1]] = "none" PROVE FALSE OBVIOUS
    <2>1. alloc[<<q[1], q[2]>>] = NoRow BY <1>1, <1>2 DEF Held
    <2> QED BY <1>2, <1>3, <2>1, NoRowFact
  <1> QED BY <1>1, <1>3, <1>4, <1>5 DEF Booked, BookedRow

\* steps that only move a phase
LEMMA PhaseStep ==
  ASSUME LedgerInv, NEW r \in AgentRuns, NEW x \in LedgerPhases, phase' = [phase EXCEPT ![r] = x],
         UNCHANGED <<alloc, used, stop, policy>>, retries' \in [AgentRuns -> Nat],
         \A o \in AgentRuns : o # r => retries'[o] = retries[o],
         Held(r)', x # "reserved", x = "working" => phase[r] = "reserved"
  PROVE  LedgerInv'
  <1>1. LedgerTyped /\ (\A o \in AgentRuns : Held(o)) /\ (\A q \in Requests : Booked(q)) BY DEF LedgerInv
  <1>2. LedgerTyped' BY <1>1 DEF LedgerTyped
  <1>3. phase'[r] = x /\ \A o \in AgentRuns : o # r => phase'[o] = phase[o] BY <1>1 DEF LedgerTyped
  <1>4. SameCase BY DEF SameCase
  <1>5. /\ Old' = Old /\ Amount' = Amount /\ Validated' = Validated
        /\ \A q \in Requests : Earlier(q)' = Earlier(q)
    BY <1>4, SameCaseFact
  <1>6. \A q \in Requests : Booked(q)' BY <1>1, <1>5 DEF Booked, BookedRow
  <1>7. \A o \in AgentRuns : Held(o)'
    <2> SUFFICES ASSUME NEW o \in AgentRuns, o # r PROVE Held(o)' OBVIOUS
    <2>1. Held(o) /\ phase'[o] = phase[o] /\ retries'[o] = retries[o] BY <1>1, <1>3
    <2> QED BY <1>5, <2>1 DEF Held
  <1> DEFINE q == <<r, "run">>
  <1>8. q \in Requests BY DEF Requests
  <1> HIDE DEF q
  <1>9. \A p \in Requests : Potential'[p] <= Potential[p]
    <2>1. Potential' = Potential BY DEF Potential
    <2> QED BY <1>1, <2>1, SumTypes
  <1>10. \A p \in Requests : Excess'[p] <= Excess[p]
    <2>1. Excess' = Excess BY <1>5 DEF Excess
    <2> QED BY <1>1, <2>1, SumTypes
  <1>11. ASSUME ~Validated, NEW p \in Requests PROVE WorstCase'[p] <= WorstCase[p]
    <2>1. p[1] \in AgentRuns /\ p[2] \in {"run", "validation", "cold"} BY RequestFact
    <2>2. phase'[p[1]] \in {"none", "reserved", "working", "ended"}
      <3>1. Held(p[1])' BY <1>7, <2>1
      <3> QED BY <1>5, <1>11, <3>1 DEF Held
    <2>3. /\ phase'[p[1]] = "reserved" => phase[p[1]] = "reserved"
          /\ phase'[p[1]] = "working" => phase[p[1]] \in {"reserved", "working"}
      BY <1>3, <2>1
    <2>4. Producing(p)' \/ (phase'[p[1]] = "reserved" /\ p[2] = "run")
          => Producing(p) \/ (phase[p[1]] = "reserved" /\ p[2] = "run")
      BY <2>1, <2>2, <2>3 DEF Producing
    <2>5. used[p] \in Nat /\ Amount \in Nat BY <1>1, PolicyFact DEF LedgerTyped
    <2> QED BY <1>5, <2>4, <2>5 DEF WorstCase
  <1>12. GrantedOnce' /\ ExcessCounted' /\ Promised' BY <1>2, <1>8, <1>9, <1>10, <1>11, QuietSums
  <1>13. \A o \in AgentRuns : Held(o)' BY <1>7
  <1> QED BY <1>2, <1>6, <1>12, <1>13 DEF LedgerInv

LEMMA PhasesKeep ==
  ASSUME LedgerInv, NEW r \in AgentRuns,
         Create(r) \/ Start(r) \/ EndWork(r) \/ EndCheck(r) \/ Retry(r) \/ Deliver(r)
  PROVE  LedgerInv'
  <1>1. LedgerTyped /\ Held(r) BY DEF LedgerInv
  <1>2. phase \in [AgentRuns -> LedgerPhases] /\ retries \in [AgentRuns -> Nat] /\ policy.retries \in Nat
    BY <1>1, PolicyFact DEF LedgerTyped
  <1> DEFINE Moved(x) == phase' = [phase EXCEPT ![r] = x] /\ UNCHANGED <<alloc, used, stop, policy>>
  <1>3. ASSUME NEW x \in LedgerPhases, Moved(x), SameCase PROVE
             /\ phase'[r] = x /\ Old' = Old /\ Amount' = Amount /\ Validated' = Validated
             /\ policy' = policy /\ alloc' = alloc /\ used' = used
    BY <1>2, <1>3, SameCaseFact
  <1>4. ASSUME NEW x, Moved(x) PROVE SameCase BY <1>4 DEF SameCase
  <1>5. CASE Create(r)
    <2>1. Moved("validating") /\ retries' = retries /\ phase[r] = "prepared" BY <1>5 DEF Create
    <2>2. "validating" \in LedgerPhases BY DEF LedgerPhases
    <2>3. Held(r)' BY <1>1, <1>3, <1>4, <2>1, <2>2 DEF Held
    <2> QED BY <1>2, <2>1, <2>2, <2>3, PhaseStep
  <1>6. CASE Start(r)
    <2>1. Moved("working") /\ retries' = retries /\ phase[r] = "reserved" BY <1>6 DEF Start
    <2>2. "working" \in LedgerPhases BY DEF LedgerPhases
    <2>3. Held(r)' BY <1>1, <1>3, <1>4, <2>1, <2>2 DEF Held
    <2> QED BY <1>2, <2>1, <2>2, <2>3, PhaseStep
  <1>7. CASE EndWork(r)
    <2>1. PICK x \in {"ended", "candidate"} : Moved(x) /\ (x = "candidate" => Validated)
      BY <1>7 DEF EndWork
    <2>2. x \in LedgerPhases /\ retries' = retries /\ phase[r] = "working" BY <1>7 DEF LedgerPhases, EndWork
    <2>3. Held(r)' BY <1>1, <1>3, <1>4, <2>1, <2>2 DEF Held
    <2> QED BY <1>2, <2>1, <2>2, <2>3, PhaseStep
  <1>8. CASE EndCheck(r)
    <2>1. PICK x \in {"ended", "delivering", "waiting"} :
             Moved(x) /\ (x = "waiting" => retries[r] < policy.retries)
      BY <1>8 DEF EndCheck
    <2>2. x \in LedgerPhases /\ retries' = retries /\ phase[r] = "validating" BY <1>8 DEF LedgerPhases, EndCheck
    <2>3. Held(r)' BY <1>1, <1>3, <1>4, <2>1, <2>2 DEF Held
    <2> QED BY <1>2, <2>1, <2>2, <2>3, PhaseStep
  <1>9. CASE Retry(r)
    <2>1. Moved("validating") /\ retries' = [retries EXCEPT ![r] = @ + 1] /\ phase[r] = "waiting"
      BY <1>9 DEF Retry
    <2>2. "validating" \in LedgerPhases BY DEF LedgerPhases
    <2>3. /\ retries' \in [AgentRuns -> Nat] /\ retries'[r] = retries[r] + 1
          /\ \A o \in AgentRuns : o # r => retries'[o] = retries[o]
      BY <1>2, <2>1
    <2>4. retries[r] < policy.retries /\ alloc[<<r, "validation">>].row /\ ~(Old[r] > 0) /\ Validated
      BY <1>1, <2>1 DEF Held
    <2>5. retries'[r] <= policy'.retries BY <1>2, <1>3, <1>4, <2>1, <2>2, <2>3, <2>4
    <2>6. Held(r)' BY <1>3, <1>4, <2>1, <2>2, <2>4, <2>5 DEF Held
    <2> QED BY <2>1, <2>2, <2>3, <2>6, PhaseStep
  <1>10. CASE Deliver(r)
    <2>1. Moved("ended") /\ retries' = retries /\ phase[r] = "delivering" BY <1>10 DEF Deliver
    <2>2. "ended" \in LedgerPhases BY DEF LedgerPhases
    <2>3. Held(r)' BY <1>1, <1>3, <1>4, <2>1, <2>2 DEF Held
    <2> QED BY <1>2, <2>1, <2>2, <2>3, PhaseStep
  <1> QED BY <1>5, <1>6, <1>7, <1>8, <1>9, <1>10

LEMMA LedgerKept ==
  ASSUME LedgerInv
  PROVE  /\ Ledger \in [Requests -> RowRecs]
         /\ Stops \in [AgentRuns -> BOOLEAN]
  <1>1. LedgerTyped /\ (\A q \in Requests : Booked(q)) BY DEF LedgerInv
  <1>2. Ledger \in [Requests -> RowRecs]
    <2>1. \A q \in Requests : Ledger[q] \in RowRecs BY <1>1, LedgerRow
    <2>2. Ledger = [q \in Requests |-> Ledger[q]] BY DEF Ledger
    <2> QED BY <2>1, <2>2
  <1>3. Stops \in [AgentRuns -> BOOLEAN]
    <2>1. \A r \in AgentRuns : (stop[r] \/ (Exceeded(r) /\ phase[r] = "working")) \in BOOLEAN OBVIOUS
    <2> QED BY <2>1 DEF Stops
  <1> QED BY <1>2, <1>3

\* what a scan leaves of what a Run holds
LEMMA LedgerHeld ==
  ASSUME LedgerInv, NEW r \in AgentRuns
  PROVE  /\ phase[r] = "none" => \A k \in {"run", "validation", "cold"} :
                                    Ledger[<<r, k>>] = NoRow /\ used[<<r, k>>] = 0
         /\ phase[r] \in {"reserved", "working"} =>
               /\ Ledger[<<r, "run">>].row /\ ~Ledger[<<r, "run">>].settled
               /\ used[<<r, "run">>] + Ledger[<<r, "run">>].outstanding >= Amount
         /\ phase[r] \in {"prepared", "validating", "waiting"} => Ledger[<<r, "validation">>].row
  <1>1. LedgerTyped /\ Held(r) /\ (\A q \in Requests : Booked(q)) BY DEF LedgerInv
  <1>2. \A k \in {"run", "validation", "cold"} : <<r, k>> \in Requests BY DEF Requests
  <1>3. ASSUME phase[r] = "none", NEW k \in {"run", "validation", "cold"}
        PROVE  Ledger[<<r, k>>] = NoRow /\ used[<<r, k>>] = 0
    <2>1. alloc[<<r, k>>] = NoRow /\ used[<<r, k>>] = 0 BY <1>1, <1>3 DEF Held
    <2> QED BY <1>1, <1>2, <2>1, LedgerRow
  <1>4. ASSUME phase[r] \in {"reserved", "working"}
        PROVE  /\ Ledger[<<r, "run">>].row /\ ~Ledger[<<r, "run">>].settled
               /\ used[<<r, "run">>] + Ledger[<<r, "run">>].outstanding >= Amount
    <2> DEFINE q == <<r, "run">>
    <2>1. q \in Requests /\ q[1] = r /\ q[2] = "run" BY <1>2
    <2>2. alloc[q].row /\ ~alloc[q].settled /\ ~(Old[r] > 0) BY <1>1, <1>4 DEF Held
    <2>3. Protection(phase, r) BY <1>4 DEF Protection
    <2> HIDE DEF q
    <2>4. Booked(q) BY <1>1, <2>1
    <2>5. Ledger[q].row /\ BookedRow(q, Ledger[q], used[q]) BY <1>1, <2>1, <2>2, <2>4, LedgerRow
    <2>6. ~Ledger[q].settled /\ used[q] + Ledger[q].outstanding = Ledger[q].allocated
      BY <1>1, <2>1, <2>2, <2>3, <2>4, LedgerRow
    <2>7. ~Earlier(q) BY <2>1, <2>2 DEF Earlier
    <2>8. Ledger[q].allocated >= Amount BY <2>5, <2>7 DEF BookedRow
    <2> QED BY <2>5, <2>6, <2>8 DEF q
  <1>5. ASSUME phase[r] \in {"prepared", "validating", "waiting"} PROVE Ledger[<<r, "validation">>].row
    <2>1. alloc[<<r, "validation">>].row BY <1>1, <1>5 DEF Held
    <2> QED BY <1>1, <1>2, <2>1, LedgerRow
  <1> QED BY <1>3, <1>4, <1>5

LEMMA ReconcileKeeps ==
  ASSUME LedgerInv, Reconcile PROVE LedgerInv'
  <1>1. LedgerTyped /\ (\A o \in AgentRuns : Held(o)) /\ (\A q \in Requests : Booked(q))
        /\ GrantedOnce /\ ExcessCounted /\ Promised
    BY DEF LedgerInv
  <1>2. alloc' = Ledger /\ stop' = Stops /\ UNCHANGED <<phase, used, retries, policy>> BY DEF Reconcile
  <1>3. LedgerTyped' BY <1>1, <1>2, LedgerKept DEF LedgerTyped
  <1>4. SameCase BY <1>2 DEF SameCase
  <1>5. /\ Old' = Old /\ Amount' = Amount /\ Validated' = Validated /\ Requirement' = Requirement
        /\ RequirementBytes' = RequirementBytes /\ Global' = Global /\ Before' = Before
        /\ (\A q \in Requests : Earlier(q)' = Earlier(q)) /\ \A r : OfRequirement(r)' = OfRequirement(r)
    BY <1>4, SameCaseFact
  <1>6. ASSUME NEW q \in Requests PROVE Booked(q)'
    <2>1. BookedRow(q, Ledger[q], used[q]) BY <1>1, LedgerRow
    <2>2. Earlier(q)' = Earlier(q) BY <1>5
    <2> QED BY <1>2, <1>5, <2>1, <2>2 DEF Booked, BookedRow
  <1>7. ASSUME NEW o \in AgentRuns PROVE Held(o)'
    <2>1. Held(o) BY <1>1
    <2>2. /\ phase[o] = "none" => \A k \in {"run", "validation", "cold"} :
                                    Ledger[<<o, k>>] = NoRow /\ used[<<o, k>>] = 0
          /\ phase[o] \in {"reserved", "working"} =>
               /\ Ledger[<<o, "run">>].row /\ ~Ledger[<<o, "run">>].settled
               /\ used[<<o, "run">>] + Ledger[<<o, "run">>].outstanding >= Amount
          /\ phase[o] \in {"prepared", "validating", "waiting"} => Ledger[<<o, "validation">>].row
      BY LedgerHeld
    <2> QED BY <1>2, <1>5, <2>1, <2>2 DEF Held
  <1>8. Potential' = Potential
    <2>1. \A q \in Requests : PotentialOf(Ledger[q], used[q]) = PotentialOf(alloc[q], used[q])
      BY <1>1, LedgerRow
    <2> QED BY <1>2, <2>1 DEF Potential
  <1>9. Excess' = Excess BY <1>2, <1>5 DEF Excess
  <1>10. WorstCase' = WorstCase
    <2>1. \A q \in Requests : q[2] = "cold" => Ledger[q] = alloc[q] BY DEF Ledger
    <2>2. \A q \in Requests : Producing(q)' = Producing(q) BY <1>2, <2>1, RequestFact DEF Producing
    <2> QED BY <1>2, <1>5, <2>2 DEF WorstCase
  <1>11. policy' = policy BY <1>2
  <1>12. GrantedOnce' BY <1>1, <1>5, <1>8, <1>11 DEF GrantedOnce, GrantedAt
  <1>13. ExcessCounted' BY <1>1, <1>9, <1>11 DEF ExcessCounted
  <1>14. Promised' BY <1>1, <1>5, <1>10, <1>11 DEF Promised
  <1> QED BY <1>3, <1>6, <1>7, <1>12, <1>13, <1>14 DEF LedgerInv

LEMMA ReclaimKeeps ==
  ASSUME LedgerInv, NEW q \in Requests, Reclaim(q) PROVE LedgerInv'
  <1>1. LedgerTyped /\ (\A o \in AgentRuns : Held(o)) /\ (\A p \in Requests : Booked(p)) BY DEF LedgerInv
  <1>2. used' = [used EXCEPT ![q] = 0] /\ UNCHANGED <<phase, alloc, stop, retries, policy>>
        /\ ~Protection(phase, q[1])
    BY DEF Reclaim
  <1>3. LedgerTyped' BY <1>1, <1>2 DEF LedgerTyped
  <1>4. used'[q] = 0 /\ (\A p \in Requests : p # q => used'[p] = used[p])
        /\ \A p \in Requests : used[p] \in Nat
    BY <1>1, <1>2 DEF LedgerTyped
  <1>5. SameCase BY <1>2 DEF SameCase
  <1>6. /\ Old' = Old /\ Amount' = Amount /\ Validated' = Validated
        /\ \A p \in Requests : Earlier(p)' = Earlier(p)
    BY <1>5, SameCaseFact
  <1>7. ASSUME NEW p \in Requests PROVE Booked(p)'
    <2>1. BookedRow(p, alloc[p], used[p]) BY <1>1 DEF Booked
    <2>2. Amount \in Nat /\ Old[p[1]] \in Nat BY <1>1, PolicyFact, RequestFact
    <2>3. Earlier(p)' = Earlier(p) /\ (used'[p] = 0 \/ used'[p] = used[p]) BY <1>4, <1>6
    <2>4. alloc' = alloc BY <1>2
    <2> QED BY <1>6, <2>1, <2>2, <2>3, <2>4 DEF Booked, BookedRow
  <1>8. ASSUME NEW o \in AgentRuns PROVE Held(o)'
    <2>1. Held(o) BY <1>1
    <2>2. UNCHANGED <<phase, alloc, stop, retries, policy>> BY <1>2
    <2>3. \A k \in {"run", "validation", "cold"} : <<o, k>> \in Requests BY DEF Requests
    <2>4. \A k \in {"run", "validation", "cold"} : used[<<o, k>>] = 0 => used'[<<o, k>>] = 0 BY <1>4, <2>3
    <2>5. phase[o] \in {"reserved", "working"} => used'[<<o, "run">>] = used[<<o, "run">>]
      <3> SUFFICES ASSUME phase[o] \in {"reserved", "working"} PROVE used'[<<o, "run">>] = used[<<o, "run">>]
        OBVIOUS
      <3>1. Protection(phase, o) BY DEF Protection
      <3>2. <<o, "run">> # q BY <1>2, <3>1
      <3> QED BY <1>4, <2>3, <3>2
    <2> QED BY <1>6, <2>1, <2>2, <2>4, <2>5 DEF Held
  <1>9. ASSUME NEW p \in Requests PROVE Potential'[p] <= Potential[p]
    <2>1. alloc' = alloc /\ alloc[p].allocated \in Nat /\ used[p] \in Nat BY <1>2, RequestInv
    <2>2. used'[p] = 0 \/ used'[p] = used[p] BY <1>4
    <2> QED BY <2>1, <2>2 DEF Potential, PotentialOf
  <1>10. ASSUME NEW p \in Requests PROVE Excess'[p] <= Excess[p]
    <2>1. Amount \in Nat /\ used[p] \in Nat BY <1>1, <1>4, PolicyFact
    <2>2. used'[p] = 0 \/ used'[p] = used[p] BY <1>4
    <2> QED BY <1>6, <2>1, <2>2 DEF Excess
  <1>11. ASSUME NEW p \in Requests PROVE WorstCase'[p] <= WorstCase[p]
    <2>1. Amount \in Nat /\ used[p] \in Nat BY <1>1, <1>4, PolicyFact
    <2>2. used'[p] = 0 \/ used'[p] = used[p] BY <1>4
    <2>3. phase' = phase /\ alloc' = alloc BY <1>2
    <2>4. Producing(p)' = Producing(p) BY <2>3, RequestFact DEF Producing
    <2> QED BY <1>6, <2>1, <2>2, <2>3, <2>4 DEF WorstCase
  <1>12. policy' = policy BY <1>2
  <1>13. GrantedOnce' /\ ExcessCounted' /\ Promised' BY <1>3, <1>9, <1>10, <1>11, <1>12, QuietSums
  <1> QED BY <1>3, <1>7, <1>8, <1>13 DEF LedgerInv

LEMMA ArchivedKeeps ==
  ASSUME LedgerInv, NEW r \in AgentRuns, Archived(r) PROVE LedgerInv'
  <1> DEFINE q == <<r, "cold">>
             new == Reconciled(alloc[q], used[q], TRUE)
  <1>1. LedgerTyped /\ (\A o \in AgentRuns : Held(o)) /\ (\A p \in Requests : Booked(p)) BY DEF LedgerInv
  <1>2. q \in Requests /\ q[1] = r /\ q[2] = "cold" BY DEF Requests
  <1>3. /\ alloc' = [alloc EXCEPT ![q] = new] /\ UNCHANGED <<phase, used, stop, retries, policy>>
        /\ alloc[q].row /\ ~alloc[q].settled
    BY DEF Archived, Producing
  <1> HIDE DEF q
  <1>4. /\ Booked(q) /\ alloc[q] \in RowRecs /\ used[q] \in Nat /\ alloc[q].allocated \in Nat
        /\ alloc[q].outstanding \in Nat /\ Amount \in Nat /\ ~Earlier(q)
    BY <1>1, <1>2, RequestInv, PolicyFact DEF Earlier
  <1>5. /\ new \in RowRecs /\ new.row /\ new.settled /\ new.outstanding = 0
        /\ new.allocated = (IF used[q] > alloc[q].allocated THEN used[q] ELSE alloc[q].allocated)
    BY <1>3, <1>4, ReconciledFact
  <1> HIDE DEF new
  <1>6. alloc' \in [Requests -> RowRecs] /\ alloc'[q] = new /\ \A p \in Requests : p # q => alloc'[p] = alloc[p]
    BY <1>1, <1>2, <1>3, <1>5 DEF LedgerTyped
  <1>7. LedgerTyped' BY <1>1, <1>3, <1>6 DEF LedgerTyped
  <1>8. SameCase BY <1>3 DEF SameCase
  <1>9. /\ Old' = Old /\ Amount' = Amount /\ Validated' = Validated
        /\ \A p \in Requests : Earlier(p)' = Earlier(p)
    BY <1>8, SameCaseFact
  <1>10. BookedRow(q, alloc[q], used[q]) /\ alloc[q].allocated >= Amount /\ used[q] <= Amount
    BY <1>2, <1>3, <1>4 DEF Booked, BookedRow
  <1>11. ASSUME NEW p \in Requests PROVE Booked(p)'
    <2>1. CASE p = q
      <3>1. BookedRow(q, new, used[q]) BY <1>2, <1>4, <1>5, <1>10 DEF BookedRow
      <3> QED BY <1>2, <1>3, <1>6, <1>9, <2>1, <3>1 DEF Booked, BookedRow
    <2>2. CASE p # q
      <3>1. BookedRow(p, alloc[p], used[p]) BY <1>1 DEF Booked
      <3> QED BY <1>3, <1>6, <1>9, <2>2, <3>1 DEF Booked, BookedRow
    <2> QED BY <2>1, <2>2
  <1>12. phase[r] # "none" BY <1>2, <1>3, <1>4, ProducerFact DEF Producing
  <1>13. ASSUME NEW o \in AgentRuns PROVE Held(o)'
    <2>1. Held(o) BY <1>1
    <2>2. \A k \in {"run", "validation", "cold"} : <<o, k>> \in Requests BY DEF Requests
    <2>3. <<o, "run">> # q /\ <<o, "validation">> # q /\ (<<o, "cold">> = q => o = r) BY <1>2
    <2>4. /\ alloc'[<<o, "run">>] = alloc[<<o, "run">>] /\ alloc'[<<o, "validation">>] = alloc[<<o, "validation">>]
          /\ o # r => alloc'[<<o, "cold">>] = alloc[<<o, "cold">>]
      BY <1>6, <2>2, <2>3
    <2>5. UNCHANGED <<phase, used, stop, retries, policy>> BY <1>3
    <2> QED BY <1>9, <1>12, <2>1, <2>4, <2>5 DEF Held
  <1>14. ASSUME NEW p \in Requests PROVE Potential'[p] <= Potential[p]
    <2>1. used' = used /\ Potential[p] \in Nat BY <1>1, <1>3, SumTypes
    <2>2. CASE p # q BY <1>6, <2>1, <2>2 DEF Potential, PotentialOf
    <2>3. CASE p = q BY <1>3, <1>4, <1>5, <1>6, <2>1, <2>3 DEF Potential, PotentialOf
    <2> QED BY <2>2, <2>3
  <1>15. ASSUME NEW p \in Requests PROVE Excess'[p] <= Excess[p]
    <2>1. used' = used /\ Excess[p] \in Nat BY <1>1, <1>3, SumTypes
    <2> QED BY <1>9, <2>1 DEF Excess
  <1>16. ASSUME NEW p \in Requests PROVE WorstCase'[p] <= WorstCase[p]
    <2>1. Amount \in Nat /\ used[p] \in Nat BY <1>1, PolicyFact DEF LedgerTyped
    <2>2. phase' = phase /\ used' = used BY <1>3
    <2>3. Producing(p)' => Producing(p)
      <3>1. CASE p # q BY <1>6, <2>2, <3>1, RequestFact DEF Producing
      <3>2. CASE p = q BY <1>2, <1>3, <3>2 DEF Producing
      <3> QED BY <3>1, <3>2
    <2> QED BY <1>9, <2>1, <2>2, <2>3 DEF WorstCase
  <1>17. policy' = policy BY <1>3
  <1>18. GrantedOnce' /\ ExcessCounted' /\ Promised' BY <1>2, <1>7, <1>14, <1>15, <1>16, <1>17, QuietSums
  <1> QED BY <1>7, <1>11, <1>13, <1>18 DEF LedgerInv

\* the producer writes a unit, in excess of its reservation or not
LEMMA WriteKeepsLedger ==
  ASSUME LedgerInv, NEW q \in Requests, WriteBytes(q) PROVE LedgerInv'
  <1>1. LedgerTyped /\ (\A o \in AgentRuns : Held(o)) /\ (\A p \in Requests : Booked(p))
        /\ GrantedOnce /\ ExcessCounted /\ Promised
    BY DEF LedgerInv
  <1>2. /\ Producing(q) /\ used' = [used EXCEPT ![q] = @ + 1]
        /\ UNCHANGED <<phase, alloc, stop, retries>>
    BY DEF WriteBytes
  <1>3. /\ Requirement \in [AgentRuns -> Nat] /\ Old \in [AgentRuns -> Nat] /\ Amount \in Nat \ {0}
        /\ policy.excess \in Nat /\ policy.over \in Nat /\ policy \in PolicyRecs
    BY <1>1, PolicyFact DEF LedgerTyped
  <1> DEFINE n == IF used[q] < Amount THEN 0 ELSE 1
  <1>4. used[q] \in Nat /\ alloc[q].allocated \in Nat /\ alloc[q].row /\ ~Earlier(q)
        /\ phase[q[1]] # "none" /\ alloc[q].allocated >= Amount
    BY <1>2, RequestInv, ProducerFact
  <1>5. n \in Nat OBVIOUS
  <1>6. /\ policy' \in PolicyRecs /\ SameCase /\ policy'.over = policy.over + n
        /\ n = 1 => used[q] >= Amount /\ q[2] # "cold"
        /\ n = 0 => used[q] < Amount
    <2>1. CASE used[q] < Amount /\ UNCHANGED policy BY <1>3, <2>1 DEF SameCase
    <2>2. CASE /\ used[q] >= Amount /\ q[2] # "cold" /\ policy.excess > 0
               /\ policy' = [policy EXCEPT !.excess = @ - 1, !.over = @ + 1]
      <3> DEFINE e == policy.excess - 1
                 v == policy.over + 1
      <3>1. e \in Nat /\ v \in Nat BY <1>3, <2>2
      <3>2. policy' = [policy EXCEPT !.excess = e, !.over = v] BY <2>2
      <3> HIDE DEF e, v
      <3>3. policy' = [requirement |-> policy.requirement, old |-> policy.old, amount |-> policy.amount,
                       global |-> policy.global, runBytes |-> policy.runBytes,
                       requirementBytes |-> policy.requirementBytes, validated |-> policy.validated,
                       retries |-> policy.retries, excess |-> e, over |-> v]
        BY <1>3, <3>2 DEF PolicyRecs
      <3>4. SameCase /\ policy'.over = v BY <3>3 DEF SameCase
      <3>5. policy' \in PolicyRecs BY <1>3, <3>1, <3>3 DEF PolicyRecs
      <3>6. n = 1 BY <1>3, <1>4, <2>2
      <3> QED BY <2>2, <3>4, <3>5, <3>6 DEF v
    <2> QED BY <2>1, <2>2 DEF WriteBytes
  <1> HIDE DEF n
  <1>7. n = 0 \/ n = 1 BY DEF n
  <1>8. LedgerTyped'
    <2>1. used' \in [Requests -> Nat] BY <1>1, <1>2 DEF LedgerTyped
    <2> QED BY <1>1, <1>2, <1>6, <2>1 DEF LedgerTyped
  <1>9. used'[q] = used[q] + 1 /\ (\A p \in Requests : p # q => used'[p] = used[p])
        /\ \A p \in Requests : used[p] \in Nat
    BY <1>1, <1>2 DEF LedgerTyped
  <1>10. /\ Old' = Old /\ Amount' = Amount /\ Validated' = Validated
         /\ \A p \in Requests : Earlier(p)' = Earlier(p)
    BY <1>6, SameCaseFact
  <1>11. Only(q, n)[q] = n /\ \A p \in Requests : p # q => Only(q, n)[p] = 0 BY DEF Only
  <1>12. ASSUME NEW p \in Requests PROVE Booked(p)'
    <2>1. BookedRow(p, alloc[p], used[p]) BY <1>1 DEF Booked
    <2>2. CASE p # q BY <1>2, <1>9, <1>10, <2>1, <2>2 DEF Booked, BookedRow
    <2>3. CASE p = q
      <3>1. p[2] = "cold" => used'[p] <= Amount BY <1>3, <1>4, <1>6, <1>7, <1>9, <2>3
      <3> QED BY <1>2, <1>4, <1>10, <2>1, <2>3, <3>1 DEF Booked, BookedRow
    <2> QED BY <2>2, <2>3
  <1>13. ASSUME NEW o \in AgentRuns PROVE Held(o)'
    <2>1. Held(o) BY <1>1
    <2>2. UNCHANGED <<phase, alloc, stop, retries>> BY <1>2
    <2>3. \A k \in {"run", "validation", "cold"} : <<o, k>> \in Requests BY DEF Requests
    <2>4. phase[o] = "none" => \A k \in {"run", "validation", "cold"} : used'[<<o, k>>] = used[<<o, k>>]
      <3>1. \A k \in {"run", "validation", "cold"} : <<o, k>>[1] = o OBVIOUS
      <3>2. phase[o] = "none" => \A k \in {"run", "validation", "cold"} : <<o, k>> # q BY <1>4, <3>1
      <3> QED BY <1>9, <2>3, <3>2
    <2>5. used'[<<o, "run">>] >= used[<<o, "run">>] /\ used[<<o, "run">>] \in Nat
          /\ used'[<<o, "run">>] \in Nat /\ alloc[<<o, "run">>].outstanding \in Nat
      <3>1. <<o, "run">> \in Requests BY <2>3
      <3>2. alloc[<<o, "run">>].outstanding \in Nat BY <3>1, RequestInv
      <3>3. <<o, "run">> = q \/ <<o, "run">> # q OBVIOUS
      <3> QED BY <1>4, <1>9, <3>1, <3>2, <3>3
    <2>6. policy'.retries = policy.retries BY <1>6 DEF SameCase
    <2>7. phase[o] \in {"reserved", "working"} =>
            used'[<<o, "run">>] + alloc[<<o, "run">>].outstanding >= Amount
      BY <1>3, <2>1, <2>5 DEF Held
    <2> QED BY <1>10, <2>1, <2>2, <2>4, <2>6, <2>7 DEF Held
  <1>14. ASSUME NEW p \in Requests PROVE Potential'[p] <= Potential[p] + Only(q, n)[p]
    <2>1. alloc' = alloc /\ Potential[p] \in Nat BY <1>1, <1>2, SumTypes
    <2>2. CASE p # q
      <3>1. Potential'[p] = Potential[p] BY <1>9, <2>1, <2>2 DEF Potential
      <3> QED BY <1>11, <2>1, <2>2, <3>1
    <2>3. CASE p = q BY <1>3, <1>4, <1>6, <1>7, <1>9, <1>11, <2>1, <2>3 DEF Potential, PotentialOf
    <2> QED BY <2>2, <2>3
  <1>15. ASSUME NEW p \in Requests PROVE Excess'[p] <= Excess[p] + Only(q, n)[p]
    <2>1. Excess[p] \in Nat BY <1>1, SumTypes
    <2>2. CASE p # q
      <3>1. Excess'[p] = Excess[p] BY <1>9, <1>10, <2>2 DEF Excess
      <3> QED BY <1>11, <2>1, <2>2, <3>1
    <2>3. CASE p = q BY <1>3, <1>4, <1>6, <1>7, <1>9, <1>10, <1>11, <2>1, <2>3 DEF Excess
    <2> QED BY <2>2, <2>3
  <1>16. ASSUME NEW p \in Requests PROVE WorstCase'[p] <= WorstCase[p] + Only(q, n)[p]
    <2>1. WorstCase[p] \in Nat BY <1>1, SumTypes
    <2>2. phase' = phase /\ alloc' = alloc BY <1>2
    <2>3. Producing(p)' = Producing(p) BY <2>2, RequestFact DEF Producing
    <2>4. CASE p # q
      <3>1. WorstCase'[p] = WorstCase[p] BY <1>9, <1>10, <2>2, <2>3, <2>4 DEF WorstCase
      <3> QED BY <1>11, <2>1, <2>4, <3>1
    <2>5. CASE p = q
      <3>1. WorstCase[p] = IF used[p] > Amount THEN used[p] ELSE Amount BY <1>2, <2>5 DEF WorstCase
      <3>2. WorstCase'[p] = IF used'[p] > Amount THEN used'[p] ELSE Amount
        BY <1>2, <1>10, <2>3, <2>5 DEF WorstCase
      <3> QED BY <1>3, <1>4, <1>6, <1>7, <1>9, <1>11, <2>5, <3>1, <3>2
    <2> QED BY <2>4, <2>5
  <1>17. GrantedOnce' BY <1>1, <1>5, <1>6, <1>8, <1>14, GrantedKept
  <1>18. ExcessCounted' BY <1>1, <1>5, <1>6, <1>8, <1>15, ExcessKept
  <1>19. Promised' BY <1>1, <1>5, <1>6, <1>8, <1>16, PromiseKept
  <1> QED BY <1>8, <1>12, <1>13, <1>17, <1>18, <1>19 DEF LedgerInv

\* a reservation that fits, on top of what is there and outstanding
LEMMA PromiseGiven ==
  ASSUME LedgerTyped, LedgerTyped', policy' = policy, NEW q \in Requests, NEW table \in [Requests -> RowRecs],
         Fits(table, Amount),
         \A p \in Requests : WorstCase'[p] <= used[p] + Outstanding(table)[p] + Only(q, Amount)[p]
  PROVE  Promised'
  <1>1. \A p \in Requests : table[p].outstanding \in Nat
    <2>1. \A p \in Requests : table[p] \in RowRecs OBVIOUS
    <2> QED BY <2>1 DEF RowRecs
  <1> DEFINE out == Outstanding(table)
             s == [p \in Requests |-> used[p] + out[p]]
  <1>2. \A p \in Requests : used[p] \in Nat /\ out[p] \in Nat BY <1>1 DEF Outstanding, LedgerTyped
  <1> HIDE DEF out
  <1>3. \A p \in Requests : s[p] = used[p] + out[p] OBVIOUS
  <1>4. \A p \in Requests : s[p] \in Nat BY <1>2, <1>3
  <1> HIDE DEF s
  <1>5. \A p \in Requests : WorstCase'[p] \in Nat BY WorstTyped
  <1>6. \A p \in Requests : WorstCase'[p] <= s[p] + Only(q, Amount)[p] BY <1>3 DEF out
  <1>7. Amount \in Nat /\ Global \in Nat /\ policy.over \in Nat BY PolicyFact
  <1>8. Control \in Nat BY LedgerAssumption DEF LedgerAssumption
  <1> DEFINE a == Sigma(s, Requests)
             b == Sigma(WorstCase', Requests)
             u == Sigma(used, Requests)
             o == Sigma(out, Requests)
  <1>9. a \in Nat /\ b \in Nat /\ b <= a + Amount BY <1>4, <1>5, <1>6, <1>7, SumStep
  <1>10. \A p \in Requests : s[p] <= used[p] + out[p] BY <1>2, <1>3
  <1>11. \A p \in Requests : used[p] \in Nat /\ out[p] \in Nat /\ s[p] \in Nat BY <1>2, <1>4
  <1>12. u \in Nat /\ o \in Nat /\ a <= u + o BY <1>10, <1>11, SumOfTwo
  <1>13. Total(used) = u /\ Total(out) = o /\ Total(WorstCase') = b BY SumsAre
  <1>14. u + o + Amount + Control <= Global BY <1>13 DEF Fits, out
  <1> HIDE DEF a, b, u, o
  <1>15. b + Control <= Global + policy.over BY <1>7, <1>8, <1>9, <1>12, <1>14
  <1>16. Global' = Global BY DEF Global
  <1> QED BY <1>13, <1>15, <1>16 DEF Promised

\* a requirement whose requests gain nothing
LEMMA GrantedElse ==
  ASSUME LedgerTyped, LedgerTyped', policy' = policy, NEW r \in AgentRuns, GrantedAt(r),
         \A p \in Requests : Requirement[p[1]] = Requirement[r] => Potential'[p] <= Potential[p]
  PROVE  GrantedAt(r)'
  <1>1. SumOver(Potential, OfRequirement(r))
          <= RequirementBytes + policy.over + SumOver(Before, OfRequirement(r))
    BY DEF GrantedAt
  <1>2. SameCase BY DEF SameCase
  <1>3. OfRequirement(r)' = OfRequirement(r) /\ Before' = Before /\ RequirementBytes' = RequirementBytes
    BY <1>2, SameCaseFact
  <1>4. OfRequirement(r) = {p \in Requests : Requirement[p[1]] = Requirement[r]} BY DEF OfRequirement
  <1>5. \A p \in Requests : Potential[p] \in Nat /\ Before[p] \in Nat BY SumTypes
  <1>6. \A p \in Requests : Potential'[p] \in Nat
    <2>1. \A p \in Requests : alloc'[p] \in RowRecs /\ used'[p] \in Nat BY DEF LedgerTyped
    <2>2. \A p \in Requests : alloc'[p].allocated \in Nat BY <2>1 DEF RowRecs
    <2> QED BY <2>1, <2>2 DEF Potential, PotentialOf
  <1> DEFINE a == Mine(Potential, Requirement, r)
             b == Mine(Potential', Requirement, r)
  <1>7. \A p \in Requests : a[p] \in Nat /\ b[p] \in Nat /\ b[p] <= a[p] BY <1>5, <1>6 DEF Mine
  <1>8. SumOver(Potential, OfRequirement(r)) = Sigma(a, Requests)
        /\ SumOver(Potential', OfRequirement(r)) = Sigma(b, Requests)
        /\ SumOver(Before, OfRequirement(r)) = Sigma(Mine(Before, Requirement, r), Requests)
    BY <1>4, SumsAre
  <1> HIDE DEF a, b
  <1>9. Natural(a, Requests) /\ Natural(b, Requests) BY <1>7, Summable
  <1>10. Sigma(a, Requests) \in Nat /\ Sigma(b, Requests) \in Nat BY <1>9, SigmaNat
  <1>11. \A p \in Requests : b[p] <= a[p] BY <1>7
  <1>12. Sigma(b, Requests) <= Sigma(a, Requests) BY <1>9, <1>11, SigmaMono
  <1>13. RequirementBytes \in Nat /\ policy.over \in Nat BY PolicyFact
  <1>14. Sigma(Mine(Before, Requirement, r), Requests) \in Nat BY <1>5, MineSummable, SigmaNat
  <1>15. SumOver(Potential', OfRequirement(r))
           <= RequirementBytes + policy.over + SumOver(Before, OfRequirement(r))
    BY <1>1, <1>8, <1>10, <1>12, <1>13, <1>14
  <1> QED BY <1>3, <1>15 DEF GrantedAt

\* the potential is what the rows have been granted, and what was written in excess or was
\* there before storage was configured
LEMMA PotentialFact ==
  ASSUME LedgerInv, NEW p \in Requests
  PROVE  Potential[p] <= Allocated(alloc)[p] + (Excess[p] + Before[p])
  <1>1. LedgerTyped /\ Booked(p) /\ used[p] \in Nat /\ alloc[p].allocated \in Nat BY RequestInv DEF LedgerInv
  <1>2. Amount \in Nat /\ Old[p[1]] \in Nat BY <1>1, PolicyFact, RequestFact
  <1>3. BookedRow(p, alloc[p], used[p]) BY <1>1 DEF Booked
  <1>4. Excess[p] \in Nat /\ Before[p] \in Nat BY <1>1, SumTypes
  <1>5. CASE Earlier(p)
    <2>1. Before[p] = Old[p[1]] /\ used[p] <= Old[p[1]] BY <1>3, <1>5 DEF Before, Earlier, BookedRow
    <2> QED BY <1>1, <1>2, <1>4, <2>1 DEF Potential, PotentialOf, Allocated
  <1>6. CASE ~Earlier(p)
    <2>1. ~alloc[p].row => used[p] = 0 BY <1>3, <1>6 DEF BookedRow
    <2>2. alloc[p].row => alloc[p].allocated >= Amount BY <1>3, <1>6 DEF BookedRow
    <2>3. Excess[p] = IF used[p] > Amount THEN used[p] - Amount ELSE 0 BY <1>6 DEF Excess
    <2> QED BY <1>1, <1>2, <1>4, <2>1, <2>2, <2>3 DEF Potential, PotentialOf, Allocated
  <1> QED BY <1>5, <1>6

\* retention reserves room for a package on the rows as they are
LEMMA ArchiveGranted ==
  ASSUME LedgerInv, LedgerTyped', policy' = policy, NEW q \in Requests, NEW r \in AgentRuns, NEW z \in AgentRuns,
         Requirement[r] = Requirement[z], TaskFits(alloc, z, Amount),
         \A p \in Requests : Potential'[p] <= Potential[p] + Only(q, Amount)[p]
  PROVE  GrantedAt(r)'
  <1>1. LedgerTyped /\ ExcessCounted BY DEF LedgerInv
  <1>2. SameCase BY DEF SameCase
  <1>3. OfRequirement(r)' = OfRequirement(r) /\ Before' = Before /\ RequirementBytes' = RequirementBytes
    BY <1>2, SameCaseFact
  <1>4. OfRequirement(r) = {p \in Requests : Requirement[p[1]] = Requirement[r]} BY DEF OfRequirement
  <1>5. OfRequirement(z) = OfRequirement(r) BY DEF OfRequirement
  <1> DEFINE all == Allocated(alloc)
             x == [p \in Requests |-> Excess[p] + Before[p]]
             t == [p \in Requests |-> all[p] + x[p]]
  <1>6. \A p \in Requests : Excess[p] \in Nat /\ Before[p] \in Nat /\ all[p] \in Nat /\ Potential[p] \in Nat
    BY <1>1, SumTypes
  <1>7. \A p \in Requests : Potential'[p] \in Nat
    <2>1. \A p \in Requests : alloc'[p] \in RowRecs /\ used'[p] \in Nat BY DEF LedgerTyped
    <2>2. \A p \in Requests : alloc'[p].allocated \in Nat BY <2>1 DEF RowRecs
    <2> QED BY <2>1, <2>2 DEF Potential, PotentialOf
  <1>8. \A p \in Requests : Potential[p] <= all[p] + (Excess[p] + Before[p]) BY PotentialFact
  <1> HIDE DEF all
  <1>9. \A p \in Requests : x[p] = Excess[p] + Before[p] /\ x[p] \in Nat BY <1>6
  <1>10. \A p \in Requests : t[p] = all[p] + x[p] /\ t[p] \in Nat BY <1>6, <1>9
  <1> HIDE DEF x, t
  <1>11. Amount \in Nat /\ RequirementBytes \in Nat /\ policy.over \in Nat BY <1>1, PolicyFact
  <1>12. \A p \in Requests : Only(q, Amount)[p] \in Nat BY <1>11, OnlySum
  <1>13. \A p \in Requests : Potential'[p] <= t[p] + Only(q, Amount)[p]
    BY <1>6, <1>7, <1>8, <1>9, <1>10, <1>12
  <1> DEFINE req == Requirement
             P == Sigma(Mine(Potential', req, r), Requests)
             T == Sigma(Mine(t, req, r), Requests)
             A == Sigma(Mine(all, req, r), Requests)
             X == Sigma(Mine(x, req, r), Requests)
             E == Sigma(Mine(Excess, req, r), Requests)
             B == Sigma(Mine(Before, req, r), Requests)
  <1>14. T \in Nat /\ P \in Nat /\ P <= T + Amount
    <2>1. \A p \in Requests : t[p] \in Nat /\ Potential'[p] \in Nat BY <1>7, <1>10
    <2>2. \A p \in Requests : req[p[1]] = req[r] => Potential'[p] <= t[p] + Only(q, Amount)[p] BY <1>13
    <2> QED BY <1>11, <2>1, <2>2, MineStep
  <1>15. A \in Nat /\ X \in Nat /\ T <= A + X
    <2> DEFINE f == Mine(all, req, r)
               g == Mine(x, req, r)
               h == Mine(t, req, r)
    <2>1. \A p \in Requests : f[p] \in Nat /\ g[p] \in Nat /\ h[p] \in Nat BY <1>6, <1>9, <1>10 DEF Mine
    <2>2. \A p \in Requests : h[p] <= f[p] + g[p] BY <1>6, <1>9, <1>10 DEF Mine
    <2> HIDE DEF f, g, h
    <2>3. /\ Sigma(f, Requests) \in Nat /\ Sigma(g, Requests) \in Nat
          /\ Sigma(h, Requests) <= Sigma(f, Requests) + Sigma(g, Requests)
      BY <2>1, <2>2, SumOfTwo
    <2> QED BY <2>3 DEF f, g, h
  <1>16. E \in Nat /\ B \in Nat /\ X <= E + B
    <2> DEFINE f == Mine(Excess, req, r)
               g == Mine(Before, req, r)
               h == Mine(x, req, r)
    <2>1. \A p \in Requests : f[p] \in Nat /\ g[p] \in Nat /\ h[p] \in Nat BY <1>6, <1>9 DEF Mine
    <2>2. \A p \in Requests : h[p] <= f[p] + g[p] BY <1>6, <1>9 DEF Mine
    <2> HIDE DEF f, g, h
    <2>3. /\ Sigma(f, Requests) \in Nat /\ Sigma(g, Requests) \in Nat
          /\ Sigma(h, Requests) <= Sigma(f, Requests) + Sigma(g, Requests)
      BY <2>1, <2>2, SumOfTwo
    <2> QED BY <2>3 DEF f, g, h
  <1>17. E <= policy.over
    <2>1. E <= Sigma(Excess, Requests) BY <1>6, MinePart
    <2>2. Total(Excess) = Sigma(Excess, Requests) BY SumsAre
    <2>3. Total(Excess) <= policy.over BY <1>1 DEF ExcessCounted
    <2>4. Natural(Excess, Requests) BY <1>6, Summable
    <2>5. Sigma(Excess, Requests) \in Nat BY <2>4, SigmaNat
    <2> QED BY <1>11, <1>16, <2>1, <2>2, <2>3, <2>5
  <1>18. SumOver(all, OfRequirement(r)) = A /\ SumOver(Potential', OfRequirement(r)) = P
         /\ SumOver(Before, OfRequirement(r)) = B
    BY <1>4, SumsAre
  <1>19. A + Amount <= RequirementBytes BY <1>5, <1>18 DEF TaskFits, all
  <1> HIDE DEF P, T, A, X, E, B, req
  <1>20. P <= RequirementBytes + policy.over + B BY <1>11, <1>14, <1>15, <1>16, <1>17, <1>19
  <1> QED BY <1>3, <1>18, <1>20 DEF GrantedAt

LEMMA NewRowIs ==
  ASSUME NEW n \in Nat
  PROVE  [NoRow EXCEPT !.row = TRUE, !.allocated = n, !.outstanding = n] = FreshRow(n, n)
  <1> DEFINE x == [NoRow EXCEPT !.row = TRUE, !.allocated = n, !.outstanding = n]
            y == [row |-> TRUE, allocated |-> n, outstanding |-> n, actual |-> 0, settled |-> FALSE]
  <1>1. DOMAIN x = DOMAIN y BY DEF NoRow
  <1>2. \A f \in DOMAIN y : x[f] = y[f]
    <2>1. x.row = TRUE BY Zenon DEF NoRow
    <2>2. x.allocated = n BY DEF NoRow
    <2>3. x.outstanding = n BY DEF NoRow
    <2>4. x.actual = 0 BY DEF NoRow
    <2>5. x.settled = FALSE BY DEF NoRow
    <2>6. y.row = TRUE /\ y.allocated = n /\ y.outstanding = n /\ y.actual = 0 /\ y.settled = FALSE OBVIOUS
    <2>7. DOMAIN y = {"row", "allocated", "outstanding", "actual", "settled"} OBVIOUS
    <2> HIDE DEF x, y
    <2> QED BY <2>1, <2>2, <2>3, <2>4, <2>5, <2>6, <2>7
  <1>3. x = [f \in DOMAIN x |-> x[f]] BY DEF NoRow
  <1>4. y = [f \in DOMAIN y |-> y[f]] OBVIOUS
  <1> HIDE DEF x, y
  <1>5. x = y BY <1>1, <1>2, <1>3, <1>4
  <1> QED BY <1>5 DEF x, y, FreshRow

\* a new reservation
LEMMA ReserveFact ==
  ASSUME NEW table \in [Requests -> RowRecs], NEW q \in Requests, Amount \in Nat
  PROVE  /\ table[q].row => Reserve(table, q) = table
         /\ ~table[q].row => Reserve(table, q) = [table EXCEPT ![q] = FreshRow(Amount, Amount)]
         /\ Reserve(table, q) \in [Requests -> RowRecs]
         /\ Reserve(table, q)[q] = (IF table[q].row THEN table[q] ELSE FreshRow(Amount, Amount))
         /\ \A p \in Requests : p # q => Reserve(table, q)[p] = table[p]
  <1>1. [NoRow EXCEPT !.row = TRUE, !.allocated = Amount, !.outstanding = Amount] = FreshRow(Amount, Amount)
    BY NewRowIs
  <1>2. FreshRow(Amount, Amount) \in RowRecs BY NewRowFact
  <1>3. CASE table[q].row BY <1>3 DEF Reserve
  <1>4. CASE ~table[q].row
    <2>1. Reserve(table, q) = [table EXCEPT ![q] = FreshRow(Amount, Amount)] BY <1>1, <1>4 DEF Reserve
    <2> QED BY <1>2, <1>4, <2>1
  <1> QED BY <1>3, <1>4

LEMMA ArchiveRunKeeps ==
  ASSUME LedgerInv, NEW z \in AgentRuns, ArchiveRun(z) PROVE LedgerInv'
  <1> DEFINE q == <<z, "cold">>
             new == FreshRow(Amount, Amount)
  <1>1. LedgerTyped /\ (\A o \in AgentRuns : Held(o)) /\ (\A p \in Requests : Booked(p))
        /\ GrantedOnce /\ ExcessCounted
    BY DEF LedgerInv
  <1>2. q \in Requests /\ q[1] = z /\ q[2] = "cold" BY DEF Requests
  <1>3. /\ alloc' = Reserve(alloc, q) /\ UNCHANGED <<phase, used, stop, retries, policy>>
        /\ ~alloc[q].row /\ phase[z] = "ended" /\ Fits(alloc, Amount) /\ TaskFits(alloc, z, Amount)
    BY DEF ArchiveRun
  <1> HIDE DEF q
  <1>4. Amount \in Nat BY <1>1, PolicyFact
  <1>5. /\ new \in RowRecs /\ new.row /\ ~new.settled /\ new.allocated = Amount /\ new.outstanding = Amount
    BY <1>4, NewRowFact
  <1>6. alloc \in [Requests -> RowRecs] BY <1>1 DEF LedgerTyped
  <1>7. alloc' \in [Requests -> RowRecs] /\ alloc'[q] = new /\ \A p \in Requests : p # q => alloc'[p] = alloc[p]
    BY <1>2, <1>3, <1>4, <1>6, ReserveFact
  <1> HIDE DEF new
  <1>8. LedgerTyped' BY <1>1, <1>3, <1>7 DEF LedgerTyped
  <1>9. SameCase BY <1>3 DEF SameCase
  <1>10. /\ Old' = Old /\ Amount' = Amount /\ Validated' = Validated
         /\ \A p \in Requests : Earlier(p)' = Earlier(p)
    BY <1>9, SameCaseFact
  <1>11. BookedRow(q, alloc[q], used[q]) /\ ~Earlier(q) /\ used[q] = 0 /\ alloc[q].allocated = 0
    <2>1. BookedRow(q, alloc[q], used[q]) BY <1>1, <1>2 DEF Booked
    <2>2. ~Earlier(q) BY <1>2 DEF Earlier
    <2> QED BY <1>3, <2>1, <2>2, NoRowFact DEF BookedRow
  <1>12. ASSUME NEW p \in Requests PROVE Booked(p)'
    <2>1. CASE p = q
      <3>1. BookedRow(q, new, used[q]) BY <1>2, <1>4, <1>5, <1>11 DEF BookedRow
      <3> QED BY <1>2, <1>3, <1>7, <1>10, <2>1, <3>1 DEF Booked, BookedRow
    <2>2. CASE p # q
      <3>1. BookedRow(p, alloc[p], used[p]) BY <1>1 DEF Booked
      <3> QED BY <1>3, <1>7, <1>10, <2>2, <3>1 DEF Booked, BookedRow
    <2> QED BY <2>1, <2>2
  <1>13. ASSUME NEW o \in AgentRuns PROVE Held(o)'
    <2>1. Held(o) BY <1>1
    <2>2. \A k \in {"run", "validation", "cold"} : <<o, k>> \in Requests BY DEF Requests
    <2>3. <<o, "run">> # q /\ <<o, "validation">> # q /\ (<<o, "cold">> = q => o = z) BY <1>2
    <2>4. /\ alloc'[<<o, "run">>] = alloc[<<o, "run">>] /\ alloc'[<<o, "validation">>] = alloc[<<o, "validation">>]
          /\ o # z => alloc'[<<o, "cold">>] = alloc[<<o, "cold">>]
      BY <1>7, <2>2, <2>3
    <2>5. UNCHANGED <<phase, used, stop, retries, policy>> BY <1>3
    <2> QED BY <1>3, <1>10, <2>1, <2>4, <2>5 DEF Held
  <1>14. Only(q, Amount)[q] = Amount /\ \A p \in Requests : p # q => Only(q, Amount)[p] = 0
    BY <1>2 DEF Only
  <1>15. ASSUME NEW p \in Requests
         PROVE  /\ p # q => Potential'[p] = Potential[p]
                /\ Potential'[p] <= Potential[p] + Only(q, Amount)[p]
    <2>1. used' = used /\ Potential[p] \in Nat BY <1>1, <1>3, SumTypes
    <2>2. CASE p # q
      <3>1. Potential'[p] = Potential[p] BY <1>7, <2>1, <2>2 DEF Potential
      <3> QED BY <1>14, <2>1, <2>2, <3>1
    <2>3. CASE p = q
      <3>1. Potential'[p] = Amount BY <1>4, <1>5, <1>7, <1>11, <2>1, <2>3 DEF Potential, PotentialOf
      <3> QED BY <1>4, <1>14, <2>1, <2>3, <3>1
    <2> QED BY <2>2, <2>3
  <1>16. policy' = policy BY <1>3
  <1>17. ASSUME NEW r \in AgentRuns PROVE GrantedAt(r)'
    <2>1. CASE Requirement[r] = Requirement[z]
      BY <1>2, <1>3, <1>8, <1>15, <1>16, <2>1, ArchiveGranted
    <2>2. CASE Requirement[r] # Requirement[z]
      <3>1. ASSUME NEW p \in Requests, Requirement[p[1]] = Requirement[r] PROVE Potential'[p] <= Potential[p]
        <4>1. p # q BY <1>2, <2>2, <3>1
        <4>2. Potential[p] \in Nat BY <1>1, SumTypes
        <4> QED BY <1>15, <4>1, <4>2
      <3>2. GrantedAt(r) BY <1>1 DEF GrantedOnce
      <3> QED BY <1>1, <1>8, <1>16, <3>1, <3>2, GrantedElse
    <2> QED BY <2>1, <2>2
  <1>18. ExcessCounted'
    <2>1. Excess' = Excess BY <1>3, <1>10 DEF Excess
    <2> QED BY <1>1, <1>16, <2>1 DEF ExcessCounted
  <1>19. Promised'
    <2> SUFFICES ASSUME ~Validated PROVE Promised' BY <1>10 DEF Promised
    <2>1. ASSUME NEW p \in Requests
          PROVE  WorstCase'[p] <= used[p] + Outstanding(alloc)[p] + Only(q, Amount)[p]
      <3>1. /\ used[p] \in Nat /\ alloc[p].outstanding \in Nat /\ alloc[p].settled \in BOOLEAN
            /\ Booked(p) /\ Held(p[1]) /\ p[1] \in AgentRuns /\ p[2] \in {"run", "validation", "cold"}
            /\ p = <<p[1], p[2]>>
        BY RequestInv, RequestFact
      <3>2. Outstanding(alloc)[p] = alloc[p].outstanding BY DEF Outstanding
      <3>3. used' = used /\ phase' = phase BY <1>3
      <3>4. CASE p = q
        <4>1. WorstCase'[p] <= Amount BY <1>4, <1>10, <1>11, <3>3, <3>4 DEF WorstCase
        <4> QED BY <1>4, <1>11, <1>14, <3>1, <3>2, <3>4, <4>1, WorstTyped, <1>8
      <3>5. CASE p # q
        <4>1. alloc'[p] = alloc[p] /\ Only(q, Amount)[p] = 0 BY <1>7, <1>14, <3>5
        <4>2. Producing(p) \/ (phase[p[1]] = "reserved" /\ p[2] = "run")
              => used[p] + alloc[p].outstanding >= Amount
          <5>1. CASE p[2] = "run" BY <3>1, <5>1 DEF Producing, Held
          <5>2. CASE p[2] = "validation"
            <6>1. ~Producing(p) BY <3>1, <5>2 DEF Producing, Held
            <6> QED BY <5>2, <6>1
          <5>3. CASE p[2] = "cold" BY <1>4, <3>1, <5>3 DEF Producing, Booked, BookedRow
          <5> QED BY <3>1, <5>1, <5>2, <5>3
        <4>3. Producing(p)' = Producing(p) BY <3>1, <3>3, <4>1 DEF Producing
        <4> QED BY <1>4, <1>10, <3>1, <3>2, <3>3, <4>1, <4>2, <4>3 DEF WorstCase
      <3> QED BY <3>4, <3>5
    <2> QED BY <1>1, <1>2, <1>3, <1>6, <1>8, <1>16, <2>1, PromiseGiven
  <1>20. GrantedOnce' BY <1>17 DEF GrantedOnce
  <1> QED BY <1>8, <1>12, <1>13, <1>18, <1>19, <1>20 DEF LedgerInv

\* a start is granted what its requirement has left
LEMMA AdmitGranted ==
  ASSUME LedgerTyped, LedgerTyped', policy' = policy, NEW table \in [Requests -> RowRecs],
         NEW q \in Requests, NEW n \in Nat, NEW r \in AgentRuns, NEW z \in AgentRuns,
         Requirement[r] = Requirement[z], TaskFits(table, z, n),
         \A p \in Requests : Potential'[p] <= Allocated(table)[p] + Only(q, n)[p]
  PROVE  GrantedAt(r)'
  <1>1. SameCase BY DEF SameCase
  <1>2. OfRequirement(r)' = OfRequirement(r) /\ Before' = Before /\ RequirementBytes' = RequirementBytes
    BY <1>1, SameCaseFact
  <1>3. OfRequirement(r) = {p \in Requests : Requirement[p[1]] = Requirement[r]} BY DEF OfRequirement
  <1>4. OfRequirement(z) = OfRequirement(r) BY DEF OfRequirement
  <1>5. \A p \in Requests : Potential'[p] \in Nat
    <2>1. \A p \in Requests : alloc'[p] \in RowRecs /\ used'[p] \in Nat BY DEF LedgerTyped
    <2>2. \A p \in Requests : alloc'[p].allocated \in Nat BY <2>1 DEF RowRecs
    <2> QED BY <2>1, <2>2 DEF Potential, PotentialOf
  <1> DEFINE all == Allocated(table)
  <1>6. \A p \in Requests : all[p] \in Nat
    <2>1. \A p \in Requests : table[p] \in RowRecs OBVIOUS
    <2>2. \A p \in Requests : table[p].allocated \in Nat BY <2>1 DEF RowRecs
    <2> QED BY <2>2 DEF Allocated
  <1>7. \A p \in Requests : Before[p] \in Nat BY SumTypes
  <1>8. \A p \in Requests : Potential'[p] <= all[p] + Only(q, n)[p] OBVIOUS
  <1> HIDE DEF all
  <1> DEFINE req == Requirement
             P == Sigma(Mine(Potential', req, r), Requests)
             A == Sigma(Mine(all, req, r), Requests)
             B == Sigma(Mine(Before, req, r), Requests)
  <1>9. A \in Nat /\ P \in Nat /\ P <= A + n
    <2>1. \A p \in Requests : all[p] \in Nat /\ Potential'[p] \in Nat BY <1>5, <1>6
    <2>2. \A p \in Requests : req[p[1]] = req[r] => Potential'[p] <= all[p] + Only(q, n)[p] BY <1>8
    <2> QED BY <2>1, <2>2, MineStep
  <1>10. B \in Nat BY <1>7, MineSummable, SigmaNat
  <1>11. SumOver(all, OfRequirement(r)) = A /\ SumOver(Potential', OfRequirement(r)) = P
         /\ SumOver(Before, OfRequirement(r)) = B
    BY <1>3, SumsAre
  <1>12. A + n <= RequirementBytes BY <1>4, <1>11 DEF TaskFits, all
  <1>13. RequirementBytes \in Nat /\ policy.over \in Nat BY PolicyFact
  <1> HIDE DEF P, A, B, req
  <1>14. P <= RequirementBytes + policy.over + B BY <1>9, <1>10, <1>12, <1>13
  <1> QED BY <1>2, <1>11, <1>14 DEF GrantedAt

\* the two starts that need a reservation
Starts(q, from, to) ==
    \/ /\ q[2] = "run" /\ from = "none" /\ to = "reserved"
       /\ \A o \in AgentRuns : phase[o] \in {"none", "ended"}
    \/ q[2] = "validation" /\ from = "candidate" /\ to = "prepared"

LEMMA AdmitKeeps ==
  ASSUME LedgerInv, NEW q \in Requests, NEW from, NEW to, Starts(q, from, to), Admit(q, from, to)
  PROVE  LedgerInv'
  <1> DEFINE r == q[1]
             fresh == ~Ledger[q].row
             n == IF fresh THEN Amount ELSE 0
             new == IF fresh THEN FreshRow(Amount, Amount) ELSE Ledger[q]
  <1>1. LedgerTyped /\ (\A o \in AgentRuns : Held(o)) /\ (\A p \in Requests : Booked(p))
        /\ GrantedOnce /\ ExcessCounted
    BY DEF LedgerInv
  <1>2. r \in AgentRuns /\ q[2] \in {"run", "validation"} /\ q = <<r, q[2]>> BY RequestFact DEF Starts
  <1>3. /\ phase[r] = from /\ alloc' = Reserve(Ledger, q) /\ phase' = [phase EXCEPT ![r] = to]
        /\ stop' = Stops /\ UNCHANGED <<used, retries, policy>>
        /\ Fits(Ledger, 0) /\ TaskFits(Ledger, r, 0)
        /\ fresh => Fits(Ledger, Amount) /\ TaskFits(Ledger, r, Amount)
    BY DEF Admit, Admitted
  <1> HIDE DEF r
  <1>4. from \in {"none", "candidate"} /\ to \in {"reserved", "prepared"} BY DEF Starts
  <1>5. Amount \in Nat /\ Old[r] \in Nat BY <1>1, <1>2, PolicyFact
  <1>6. n \in Nat /\ Ledger \in [Requests -> RowRecs] BY <1>5, LedgerKept
  <1>7. ~Earlier(q)
    <2>1. Held(r) BY <1>1, <1>2
    <2> QED BY <1>3, <1>4, <2>1 DEF Held, Earlier, r
  <1>8. BookedRow(q, Ledger[q], used[q]) /\ used[q] \in Nat /\ (fresh => Ledger[q] = NoRow /\ used[q] = 0)
    <2>1. BookedRow(q, Ledger[q], used[q]) BY <1>1, LedgerRow
    <2> QED BY <1>1, <1>7, <2>1 DEF BookedRow, LedgerTyped
  <1>9. /\ FreshRow(Amount, Amount) \in RowRecs /\ FreshRow(Amount, Amount).row
        /\ ~FreshRow(Amount, Amount).settled /\ FreshRow(Amount, Amount).allocated = Amount
        /\ FreshRow(Amount, Amount).outstanding = Amount
    BY <1>5, NewRowFact
  <1>10. /\ alloc' \in [Requests -> RowRecs] /\ alloc'[q] = new
         /\ \A p \in Requests : p # q => alloc'[p] = Ledger[p]
    BY <1>3, <1>5, <1>6, ReserveFact
  <1>11. new.row /\ (fresh => new = FreshRow(Amount, Amount)) /\ (~fresh => new = Ledger[q] /\ n = 0)
         /\ (fresh => n = Amount)
    BY <1>9
  <1> HIDE DEF fresh, n, new
  <1>12. phase' \in [AgentRuns -> LedgerPhases] /\ phase'[r] = to /\ \A o \in AgentRuns : o # r => phase'[o] = phase[o]
    BY <1>1, <1>2, <1>3, <1>4 DEF LedgerTyped, LedgerPhases
  <1>13. LedgerTyped' BY <1>1, <1>3, <1>10, <1>12, LedgerKept DEF LedgerTyped
  <1>14. SameCase BY <1>3 DEF SameCase
  <1>15. /\ Old' = Old /\ Amount' = Amount /\ Validated' = Validated
         /\ \A p \in Requests : Earlier(p)' = Earlier(p)
    BY <1>14, SameCaseFact
  <1>16. used' = used /\ policy' = policy /\ retries' = retries BY <1>3
  <1>17. ASSUME NEW p \in Requests PROVE Booked(p)'
    <2>1. BookedRow(p, Ledger[p], used[p]) BY <1>1, LedgerRow
    <2>2. Earlier(p)' = Earlier(p) BY <1>15
    <2>3. BookedRow(p, alloc'[p], used[p])
      <3>1. CASE p # q BY <1>10, <2>1, <3>1
      <3>2. CASE p = q /\ ~fresh BY <1>10, <1>11, <2>1, <3>2
      <3>3. CASE p = q /\ fresh
        <4>1. BookedRow(q, FreshRow(Amount, Amount), used[q])
          BY <1>2, <1>5, <1>7, <1>8, <1>9, <3>3 DEF BookedRow
        <4> QED BY <1>10, <1>11, <3>3, <4>1
      <3> QED BY <3>1, <3>2, <3>3
    <2> QED BY <1>15, <1>16, <2>2, <2>3 DEF Booked, BookedRow
  <1>18. ASSUME NEW o \in AgentRuns PROVE Held(o)'
    <2>1. Held(o) BY <1>1
    <2>2. \A k \in {"run", "validation", "cold"} : <<o, k>> \in Requests BY DEF Requests
    <2>3. CASE o # r
      <3>1. \A k \in {"run", "validation", "cold"} : <<o, k>> # q BY <1>2, <2>3
      <3>2. \A k \in {"run", "validation", "cold"} : alloc'[<<o, k>>] = Ledger[<<o, k>>] BY <1>10, <2>2, <3>1
      <3>3. /\ phase[o] = "none" => \A k \in {"run", "validation", "cold"} :
                                    Ledger[<<o, k>>] = NoRow /\ used[<<o, k>>] = 0
            /\ phase[o] \in {"reserved", "working"} =>
               /\ Ledger[<<o, "run">>].row /\ ~Ledger[<<o, "run">>].settled
               /\ used[<<o, "run">>] + Ledger[<<o, "run">>].outstanding >= Amount
            /\ phase[o] \in {"prepared", "validating", "waiting"} => Ledger[<<o, "validation">>].row
        BY LedgerHeld
      <3>4. phase'[o] = phase[o] BY <1>12, <2>3
      <3> QED BY <1>15, <1>16, <2>1, <3>2, <3>3, <3>4 DEF Held
    <2>4. CASE o = r /\ q[2] = "run"
      <3>1. phase[r] = "none" /\ phase'[r] = "reserved" BY <1>3, <1>12, <2>4 DEF Starts
      <3>2. Ledger[<<r, "run">>] = NoRow /\ used[<<r, "run">>] = 0 BY <1>2, <3>1, LedgerHeld
      <3>3. q = <<r, "run">> /\ fresh BY <1>2, <2>4, <3>2, NoRowFact DEF fresh
      <3>4. alloc'[<<r, "run">>] = FreshRow(Amount, Amount) BY <1>10, <1>11, <3>3
      <3> QED BY <1>5, <1>9, <1>15, <1>16, <2>1, <2>4, <3>1, <3>2, <3>4 DEF Held
    <2>5. CASE o = r /\ q[2] = "validation"
      <3>1. phase[r] = "candidate" /\ phase'[r] = "prepared" BY <1>3, <1>12, <2>5 DEF Starts
      <3>2. q = <<r, "validation">> BY <1>2, <2>5
      <3>3. alloc'[<<r, "validation">>].row BY <1>10, <1>11, <3>2
      <3> QED BY <1>15, <1>16, <2>1, <2>5, <3>1, <3>3 DEF Held
    <2> QED BY <1>2, <2>3, <2>4, <2>5
  <1>19. Only(q, n)[q] = n /\ \A p \in Requests : p # q => Only(q, n)[p] = 0 BY DEF Only
  <1>20. ASSUME NEW p \in Requests
         PROVE  /\ p # q => Potential'[p] <= Potential[p]
                /\ Potential'[p] <= Allocated(Ledger)[p] + Only(q, n)[p]
    <2>1. /\ Ledger[p].allocated = PotentialOf(alloc[p], used[p])
          /\ PotentialOf(Ledger[p], used[p]) = PotentialOf(alloc[p], used[p])
      BY <1>1, LedgerRow
    <2>2. Potential[p] \in Nat /\ Potential[p] = PotentialOf(alloc[p], used[p])
      BY <1>1, SumTypes DEF Potential
    <2>3. Potential'[p] = PotentialOf(alloc'[p], used[p]) BY <1>16 DEF Potential
    <2>4. Allocated(Ledger)[p] = Potential[p] BY <2>1, <2>2 DEF Allocated
    <2>5. CASE p # q
      <3>1. Potential'[p] = Potential[p] BY <1>10, <2>1, <2>2, <2>3, <2>5
      <3> QED BY <1>19, <2>2, <2>4, <2>5, <3>1
    <2>6. CASE p = q /\ ~fresh
      <3>1. Potential'[p] = Potential[p] BY <1>10, <1>11, <2>1, <2>2, <2>3, <2>6
      <3> QED BY <1>6, <1>19, <2>2, <2>4, <2>6, <3>1
    <2>7. CASE p = q /\ fresh
      <3>1. alloc'[p] = FreshRow(Amount, Amount) /\ used[p] = 0 BY <1>8, <1>10, <1>11, <2>7
      <3>2. Potential'[p] = Amount BY <1>5, <1>9, <2>3, <3>1 DEF PotentialOf
      <3> QED BY <1>5, <1>11, <1>19, <2>2, <2>4, <2>7, <3>2
    <2> QED BY <2>5, <2>6, <2>7
  <1>21. TaskFits(Ledger, r, n) BY <1>3, <1>11
  <1>22. ASSUME NEW z \in AgentRuns PROVE GrantedAt(z)'
    <2>1. CASE Requirement[z] = Requirement[r]
      <3>1. \A p \in Requests : Potential'[p] <= Allocated(Ledger)[p] + Only(q, n)[p] BY <1>20
      <3> QED BY <1>1, <1>2, <1>6, <1>13, <1>16, <1>21, <2>1, <3>1, AdmitGranted
    <2>2. CASE Requirement[z] # Requirement[r]
      <3>1. ASSUME NEW p \in Requests, Requirement[p[1]] = Requirement[z] PROVE Potential'[p] <= Potential[p]
        <4>1. p # q BY <2>2, <3>1 DEF r
        <4> QED BY <1>20, <4>1
      <3>2. GrantedAt(z) BY <1>1 DEF GrantedOnce
      <3> QED BY <1>1, <1>13, <1>16, <3>1, <3>2, GrantedElse
    <2> QED BY <2>1, <2>2
  <1>23. ExcessCounted'
    <2>1. Excess' = Excess BY <1>15, <1>16 DEF Excess
    <2> QED BY <1>1, <1>16, <2>1 DEF ExcessCounted
  <1>24. Promised'
    <2> SUFFICES ASSUME ~Validated PROVE Promised' BY <1>15 DEF Promised
    <2>1. /\ from = "none" /\ q[2] = "run" /\ to = "reserved"
          /\ \A o \in AgentRuns : phase[o] \in {"none", "ended"}
      <3>1. Held(r) BY <1>1, <1>2
      <3>2. phase[r] # "candidate" BY <3>1 DEF Held
      <3> QED BY <1>3, <3>2 DEF Starts
    <2>2. Ledger[<<r, "run">>] = NoRow BY <1>2, <1>3, <2>1, LedgerHeld
    <2>3. fresh /\ n = Amount BY <1>2, <1>11, <2>1, <2>2, NoRowFact DEF fresh
    <2>4. ASSUME NEW p \in Requests
          PROVE  WorstCase'[p] <= used[p] + Outstanding(Ledger)[p] + Only(q, Amount)[p]
      <3>1. /\ used[p] \in Nat /\ Ledger[p] \in RowRecs /\ BookedRow(p, Ledger[p], used[p])
            /\ p[1] \in AgentRuns /\ p[2] \in {"run", "validation", "cold"} /\ p = <<p[1], p[2]>>
        BY <1>1, RequestInv, RequestFact, LedgerRow
      <3>2. Outstanding(Ledger)[p] = Ledger[p].outstanding /\ Ledger[p].outstanding \in Nat
            /\ Ledger[p].settled \in BOOLEAN
        BY <3>1 DEF Outstanding, RowRecs
      <3>3. CASE p = q
        <4>1. WorstCase'[p] <= Amount BY <1>5, <1>8, <1>15, <1>16, <2>3, <3>3 DEF WorstCase
        <4>2. WorstCase'[p] \in Nat BY <1>13, WorstTyped
        <4> QED BY <1>5, <1>8, <1>19, <2>3, <3>1, <3>2, <3>3, <4>1, <4>2
      <3>4. CASE p # q
        <4>1. alloc'[p] = Ledger[p] /\ Only(q, Amount)[p] = 0 BY <1>10, <1>19, <2>3, <3>4
        <4>2. phase'[p[1]] \in {"none", "ended", "reserved"} BY <1>12, <2>1, <3>1
        <4>3. ~(phase'[p[1]] = "reserved" /\ p[2] = "run") BY <1>2, <1>12, <2>1, <3>1, <3>4
        <4>4. p[2] # "cold" => ~Producing(p)' BY <3>1, <4>2 DEF Producing
        <4>5. p[2] = "cold" /\ Producing(p)' => Ledger[p].outstanding = Amount
          <5>1. p[2] = "cold" /\ Producing(p)' => Ledger[p].row /\ ~Ledger[p].settled
            BY <4>1 DEF Producing
          <5> QED BY <3>1, <5>1 DEF BookedRow
        <4> QED BY <1>5, <1>15, <1>16, <3>1, <3>2, <4>1, <4>3, <4>4, <4>5 DEF WorstCase
      <3> QED BY <3>3, <3>4
    <2>5. Fits(Ledger, Amount) BY <1>3, <2>3
    <2> QED BY <1>1, <1>6, <1>13, <1>16, <2>4, <2>5, PromiseGiven
  <1>25. GrantedOnce' BY <1>22 DEF GrantedOnce
  <1> QED BY <1>13, <1>17, <1>18, <1>23, <1>24, <1>25 DEF LedgerInv

----------------------------------------------------------------------------
(* The ledger.                                                              *)

LEMMA LedgerStarts == LedgerInit => LedgerInv
  <1> SUFFICES ASSUME LedgerInit PROVE LedgerInv OBVIOUS
  <1>1. /\ phase = [r \in AgentRuns |-> IF Old[r] > 0 THEN "ended" ELSE "none"]
        /\ alloc = [q \in Requests |-> NoRow] /\ used = Before
        /\ stop = [r \in AgentRuns |-> FALSE] /\ retries = [r \in AgentRuns |-> 0]
    BY DEF LedgerInit
  <1>2. policy \in PolicyRecs /\ policy.over = 0 BY LedgerAssumption DEF LedgerInit, LedgerAssumption, LedgerRecs, PolicyRecs
  <1>3. Old \in [AgentRuns -> Nat] /\ Amount \in Nat /\ RequirementBytes \in Nat /\ policy.retries \in Nat
    BY <1>2 DEF PolicyRecs, Old, Amount, RequirementBytes
  <1>4. \A q \in Requests : Before[q] \in Nat /\ (~Earlier(q) => Before[q] = 0) /\ Before[q] <= Old[q[1]]
    <2> SUFFICES ASSUME NEW q \in Requests
                 PROVE  Before[q] \in Nat /\ (~Earlier(q) => Before[q] = 0) /\ Before[q] <= Old[q[1]]
      OBVIOUS
    <2>1. Old[q[1]] \in Nat BY <1>3, RequestFact
    <2> QED BY <2>1 DEF Before, Earlier
  <1>5. LedgerTyped
    <2>1. phase \in [AgentRuns -> LedgerPhases] BY <1>1 DEF LedgerPhases
    <2>2. alloc \in [Requests -> RowRecs] BY <1>1, NoRowFact
    <2>3. used \in [Requests -> Nat]
      <3>1. used = [q \in Requests |-> Before[q]] BY <1>1 DEF Before
      <3> QED BY <1>4, <3>1
    <2>4. stop \in [AgentRuns -> BOOLEAN] /\ retries \in [AgentRuns -> Nat] BY <1>1
    <2> QED BY <1>2, <2>1, <2>2, <2>3, <2>4 DEF LedgerTyped
  <1>6. \A q \in Requests : alloc[q] = NoRow /\ used[q] = Before[q] BY <1>1
  <1>7. ASSUME NEW q \in Requests PROVE Booked(q)
    <2>1. q[2] = "cold" => Before[q] = 0 BY DEF Before
    <2> QED BY <1>3, <1>4, <1>6, <2>1, NoRowFact DEF Booked, BookedRow
  <1>8. ASSUME NEW r \in AgentRuns PROVE Held(r)
    <2>1. \A k \in {"run", "validation", "cold"} : <<r, k>> \in Requests BY DEF Requests
    <2>2. Old[r] \in Nat /\ phase[r] = (IF Old[r] > 0 THEN "ended" ELSE "none") /\ retries[r] = 0 BY <1>1, <1>3
    <2>3. Old[r] = 0 => \A k \in {"run", "validation", "cold"} : used[<<r, k>>] = 0 BY <1>6, <2>1 DEF Before
    <2> QED BY <1>3, <1>6, <2>1, <2>2, <2>3 DEF Held
  <1>9. Potential = Before
    <2>1. \A q \in Requests : PotentialOf(alloc[q], used[q]) = Before[q] BY <1>6, NoRowFact DEF PotentialOf
    <2>2. Potential = [q \in Requests |-> Before[q]] BY <2>1 DEF Potential
    <2> QED BY <2>2 DEF Before
  <1>10. ASSUME NEW r \in AgentRuns PROVE GrantedAt(r)
    <2>1. SumOver(Before, OfRequirement(r)) = Sigma(Mine(Before, Requirement, r), Requests)
      BY SumsAre DEF OfRequirement
    <2>2. Sigma(Mine(Before, Requirement, r), Requests) \in Nat BY <1>4, MineSummable, SigmaNat
    <2> QED BY <1>2, <1>3, <1>9, <2>1, <2>2 DEF GrantedAt
  <1>11. ExcessCounted
    <2>1. \A q \in Requests : Excess[q] = 0 BY <1>3, <1>4, <1>6 DEF Excess
    <2>2. Sigma(Excess, Requests) = 0 BY <2>1, RequestsFinite, SigmaZero
    <2>3. Total(Excess) = 0 BY <2>2, SumsAre
    <2> QED BY <1>2, <2>3 DEF ExcessCounted
  <1>12. Promised
    <2>1. ASSUME NEW q \in Requests PROVE WorstCase[q] = Before[q]
      <3>1. phase[q[1]] \in {"none", "ended"} BY <1>1, RequestFact
      <3>2. ~alloc[q].row BY <1>6, NoRowFact
      <3>3. ~Producing(q) BY <3>1, <3>2, RequestFact DEF Producing
      <3> QED BY <1>6, <3>1, <3>3 DEF WorstCase
    <2>2. WorstCase = [q \in Requests |-> Before[q]] BY <2>1 DEF WorstCase
    <2>3. WorstCase = Before BY <2>2 DEF Before
    <2>4. Total(Before) \in Nat BY <1>4, Summable, SigmaNat, SumsAre
    <2> QED BY <1>2, <2>3, <2>4 DEF Promised
  <1> QED BY <1>5, <1>7, <1>8, <1>10, <1>11, <1>12 DEF LedgerInv, GrantedOnce

LEMMA LedgerSteps == LedgerInv /\ [LedgerNext]_ledgerVars => LedgerInv'
  <1> SUFFICES ASSUME LedgerInv, [LedgerNext]_ledgerVars PROVE LedgerInv' OBVIOUS
  <1>1. CASE UNCHANGED ledgerVars
    <2>1. UNCHANGED <<phase, alloc, used, stop, retries, policy>> BY <1>1 DEF ledgerVars
    <2>2. SameCase BY <2>1 DEF SameCase
    <2>3. /\ Old' = Old /\ Amount' = Amount /\ Validated' = Validated /\ Requirement' = Requirement
          /\ RequirementBytes' = RequirementBytes /\ Global' = Global /\ Before' = Before
          /\ (\A q \in Requests : Earlier(q)' = Earlier(q)) /\ \A r : OfRequirement(r)' = OfRequirement(r)
      BY <2>2, SameCaseFact
    <2>4. Potential' = Potential /\ Excess' = Excess BY <2>1, <2>3 DEF Potential, Excess
    <2>5. \A q \in Requests : Producing(q)' = Producing(q) BY <2>1 DEF Producing
    <2>6. WorstCase' = WorstCase BY <2>1, <2>3, <2>5 DEF WorstCase
    <2>7. LedgerTyped' BY <2>1 DEF LedgerInv, LedgerTyped
    <2>8. \A q \in Requests : Booked(q)' BY <2>1, <2>3 DEF LedgerInv, Booked, BookedRow
    <2>9. \A r \in AgentRuns : Held(r)' BY <2>1, <2>3 DEF LedgerInv, Held
    <2>10. GrantedOnce' BY <2>1, <2>3, <2>4 DEF LedgerInv, GrantedOnce, GrantedAt
    <2>11. ExcessCounted' BY <2>1, <2>4 DEF LedgerInv, ExcessCounted
    <2>12. Promised' BY <2>1, <2>3, <2>6 DEF LedgerInv, Promised
    <2> QED BY <2>7, <2>8, <2>9, <2>10, <2>11, <2>12 DEF LedgerInv
  <1>2. ASSUME NEW r \in AgentRuns, AdmitRun(r) PROVE LedgerInv'
    <2> DEFINE q == <<r, "run">>
    <2>1. q \in Requests /\ q[2] = "run" BY DEF Requests
    <2>2. Admit(q, "none", "reserved") /\ \A o \in AgentRuns : phase[o] \in {"none", "ended"} BY <1>2 DEF AdmitRun
    <2> HIDE DEF q
    <2>3. Starts(q, "none", "reserved") BY <2>1, <2>2 DEF Starts
    <2> QED BY <2>1, <2>2, <2>3, AdmitKeeps
  <1>3. ASSUME NEW r \in AgentRuns, AdmitValidation(r) PROVE LedgerInv'
    <2> DEFINE q == <<r, "validation">>
    <2>1. q \in Requests /\ q[2] = "validation" BY DEF Requests
    <2>2. Admit(q, "candidate", "prepared") BY <1>3 DEF AdmitValidation
    <2> HIDE DEF q
    <2>3. Starts(q, "candidate", "prepared") BY <2>1 DEF Starts
    <2> QED BY <2>1, <2>2, <2>3, AdmitKeeps
  <1>4. ASSUME NEW r \in AgentRuns,
               Create(r) \/ Start(r) \/ EndWork(r) \/ EndCheck(r) \/ Retry(r) \/ Deliver(r)
        PROVE  LedgerInv'
    BY <1>4, PhasesKeep
  <1>5. ASSUME NEW r \in AgentRuns, ArchiveRun(r) \/ Archived(r) PROVE LedgerInv'
    BY <1>5, ArchiveRunKeeps, ArchivedKeeps
  <1>6. ASSUME NEW q \in Requests, WriteBytes(q) \/ Reclaim(q) PROVE LedgerInv'
    BY <1>6, WriteKeepsLedger, ReclaimKeeps
  <1>7. CASE Reconcile BY <1>7, ReconcileKeeps
  <1> QED BY <1>1, <1>2, <1>3, <1>4, <1>5, <1>6, <1>7 DEF LedgerNext

\* The invariant of the ledger: rows are booked, Runs hold what their phase
\* says, no requirement is granted more than its quota, the worst case fits.
THEOREM LedgerInductive == LedgerSpec => []LedgerInv
  <1> QED BY LedgerStarts, LedgerSteps, PTL DEF LedgerSpec

LEMMA LedgerImplies == LedgerInv => LedgerHolds
  <1> SUFFICES ASSUME LedgerInv PROVE LedgerHolds OBVIOUS
  <1>1. LedgerTyped /\ GrantedOnce /\ Promised BY DEF LedgerInv
  <1>2. LedgerTypes
    <2>1. \A q \in Requests : /\ alloc[q].outstanding <= alloc[q].allocated
                              /\ alloc[q].settled => alloc[q].row /\ alloc[q].outstanding = 0
                              /\ Producing(q) => alloc[q].row
      BY RequestInv, ProducerFact DEF Booked, BookedRow
    <2>2. \A r \in AgentRuns : retries[r] <= policy.retries BY DEF LedgerInv, Held
    <2> QED BY <1>1, <2>1, <2>2 DEF LedgerTypes, LedgerTyped, LedgerPhases
  <1>3. ASSUME NEW r \in AgentRuns
        PROVE  SumOver(Allocated(alloc), OfRequirement(r))
                 <= RequirementBytes + policy.over + SumOver(Before, OfRequirement(r))
    <2> DEFINE a == Mine(Allocated(alloc), Requirement, r)
               b == Mine(Potential, Requirement, r)
    <2>1. OfRequirement(r) = {q \in Requests : Requirement[q[1]] = Requirement[r]} BY DEF OfRequirement
    <2>2. \A q \in Requests : a[q] \in Nat /\ b[q] \in Nat /\ a[q] <= b[q]
      <3> SUFFICES ASSUME NEW q \in Requests PROVE a[q] \in Nat /\ b[q] \in Nat /\ a[q] <= b[q] OBVIOUS
      <3>1. /\ Potential[q] \in Nat /\ Allocated(alloc)[q] \in Nat BY <1>1, SumTypes
      <3>2. Booked(q) /\ used[q] \in Nat /\ alloc[q].allocated \in Nat BY RequestInv
      <3>3. Allocated(alloc)[q] = alloc[q].allocated BY DEF Allocated
      <3>4. ~alloc[q].row => alloc[q].allocated = 0 BY <3>2, NoRowFact DEF Booked, BookedRow
      <3>5. Allocated(alloc)[q] <= Potential[q] BY <3>2, <3>3, <3>4 DEF Potential, PotentialOf
      <3> QED BY <3>1, <3>5 DEF Mine
    <2>3. SumOver(Allocated(alloc), OfRequirement(r)) = Sigma(a, Requests)
          /\ SumOver(Potential, OfRequirement(r)) = Sigma(b, Requests)
          /\ SumOver(Before, OfRequirement(r)) = Sigma(Mine(Before, Requirement, r), Requests)
      BY <2>1, SumsAre
    <2> HIDE DEF a, b
    <2>4. Natural(a, Requests) /\ Natural(b, Requests) BY <2>2, Summable
    <2>5. Sigma(a, Requests) \in Nat /\ Sigma(b, Requests) \in Nat BY <2>4, SigmaNat
    <2>6. \A q \in Requests : a[q] <= b[q] BY <2>2
    <2>7. Sigma(a, Requests) <= Sigma(b, Requests) BY <2>4, <2>6, SigmaMono
    <2>8. GrantedAt(r) BY <1>1 DEF GrantedOnce
    <2>9. \A q \in Requests : Before[q] \in Nat BY <1>1, SumTypes
    <2>10. Sigma(Mine(Before, Requirement, r), Requests) \in Nat BY <2>9, MineSummable, SigmaNat
    <2>11. RequirementBytes \in Nat /\ policy.over \in Nat BY <1>1, PolicyFact
    <2> QED BY <2>3, <2>5, <2>7, <2>8, <2>10, <2>11 DEF GrantedAt
  <1>4. QuotaHolds BY <1>3 DEF QuotaHolds
  <1> QED BY <1>1, <1>2, <1>4 DEF LedgerHolds

\* What was let in fits the disk and the quota of its requirement, for any
\* number of Runs and any policy: a start is admitted by the reconciled ledger
\* (storage_store.rs reserve), a package by the rows retention finds.
THEOREM LedgerIsKept == LedgerSpec => []LedgerHolds
  BY LedgerInductive, LedgerImplies, PTL

\* a row of a step that keeps or raises what was granted
NotRefunded(old, new) == new.allocated >= old.allocated /\ (old.settled => new = old)

LEMMA ScanSpends ==
  ASSUME LedgerInv, NEW q \in Requests
  PROVE  Ledger \in [Requests -> RowRecs] /\ NotRefunded(alloc[q], Ledger[q])
         /\ (alloc[q].row => Ledger[q].row) /\ (~alloc[q].row => alloc[q].allocated = 0)
  <1>1. LedgerTyped /\ Booked(q) BY DEF LedgerInv
  <1>2. ~alloc[q].row => alloc[q].allocated = 0 BY <1>1, NoRowFact DEF Booked, BookedRow
  <1> QED BY <1>1, <1>2, LedgerRow, LedgerKept DEF NotRefunded

LEMMA ReserveSpends ==
  ASSUME LedgerInv, NEW table \in [Requests -> RowRecs], NEW z \in Requests,
         \A q \in Requests : NotRefunded(alloc[q], table[q]) /\ (alloc[q].row => table[q].row)
  PROVE  \A q \in Requests : NotRefunded(alloc[q], Reserve(table, z)[q])
  <1> SUFFICES ASSUME NEW q \in Requests PROVE NotRefunded(alloc[q], Reserve(table, z)[q]) OBVIOUS
  <1>1. Amount \in Nat BY PolicyFact DEF LedgerInv
  <1>2. Reserve(table, z)[z] = (IF table[z].row THEN table[z] ELSE FreshRow(Amount, Amount))
        /\ \A p \in Requests : p # z => Reserve(table, z)[p] = table[p]
    BY <1>1, ReserveFact
  <1>3. CASE q # z \/ table[z].row BY <1>2, <1>3
  <1>4. CASE q = z /\ ~table[z].row
    <2>1. ~alloc[q].row BY <1>4
    <2>2. alloc[q].allocated = 0 /\ ~alloc[q].settled
      BY <2>1, RequestInv, NoRowFact DEF Booked, BookedRow
    <2>3. Reserve(table, z)[q].allocated = Amount BY <1>1, <1>2, <1>4, NewRowFact
    <2> QED BY <1>1, <2>2, <2>3 DEF NotRefunded
  <1> QED BY <1>3, <1>4

LEMMA Unspent ==
  ASSUME LedgerInv, alloc' = alloc PROVE \A q \in Requests : NotRefunded(alloc[q], alloc'[q])
  BY RequestInv DEF NotRefunded

LEMMA StepSpends ==
  ASSUME LedgerInv, LedgerNext PROVE \A q \in Requests : NotRefunded(alloc[q], alloc'[q])
  <1>1. ASSUME NEW z \in Requests, alloc' = Reserve(Ledger, z)
        PROVE  \A q \in Requests : NotRefunded(alloc[q], alloc'[q])
    BY <1>1, ScanSpends, ReserveSpends
  <1>2. ASSUME NEW r \in AgentRuns, AdmitRun(r) \/ AdmitValidation(r)
        PROVE  \A q \in Requests : NotRefunded(alloc[q], alloc'[q])
    <2>1. PICK k \in {"run", "validation"} : alloc' = Reserve(Ledger, <<r, k>>)
      BY <1>2 DEF AdmitRun, AdmitValidation, Admit
    <2>2. <<r, k>> \in Requests BY DEF Requests
    <2> QED BY <1>1, <2>1, <2>2
  <1>3. ASSUME NEW r \in AgentRuns, ArchiveRun(r) PROVE \A q \in Requests : NotRefunded(alloc[q], alloc'[q])
    <2>1. alloc' = Reserve(alloc, <<r, "cold">>) BY <1>3 DEF ArchiveRun
    <2>2. <<r, "cold">> \in Requests BY DEF Requests
    <2>3. alloc \in [Requests -> RowRecs] BY DEF LedgerInv, LedgerTyped
    <2>4. \A q \in Requests : NotRefunded(alloc[q], alloc[q]) BY RequestInv DEF NotRefunded
    <2>5. \A q \in Requests : NotRefunded(alloc[q], alloc[q]) /\ (alloc[q].row => alloc[q].row) BY <2>4
    <2> QED BY <2>1, <2>2, <2>3, <2>5, ReserveSpends
  <1>4. ASSUME NEW r \in AgentRuns, Archived(r) PROVE \A q \in Requests : NotRefunded(alloc[q], alloc'[q])
    <2> DEFINE z == <<r, "cold">>
               new == Reconciled(alloc[z], used[z], TRUE)
    <2>1. z \in Requests /\ z[2] = "cold" BY DEF Requests
    <2>2. alloc' = [alloc EXCEPT ![z] = new] /\ Producing(z) BY <1>4 DEF Archived
    <2> HIDE DEF z
    <2>3. /\ alloc[z] \in RowRecs /\ used[z] \in Nat /\ alloc[z].allocated \in Nat
          /\ alloc[z].row /\ ~alloc[z].settled
      BY <2>1, <2>2, RequestInv DEF Producing
    <2>4. new.allocated = (IF used[z] > alloc[z].allocated THEN used[z] ELSE alloc[z].allocated)
      BY <2>3, ReconciledFact
    <2> HIDE DEF new
    <2>5. NotRefunded(alloc[z], new) BY <2>3, <2>4 DEF NotRefunded
    <2>6. alloc \in [Requests -> RowRecs] BY DEF LedgerInv, LedgerTyped
    <2>7. alloc'[z] = new /\ \A q \in Requests : q # z => alloc'[q] = alloc[q] BY <2>1, <2>2, <2>6
    <2>8. \A q \in Requests : NotRefunded(alloc[q], alloc[q]) BY RequestInv DEF NotRefunded
    <2> QED BY <2>5, <2>7, <2>8
  <1>5. CASE Reconcile BY <1>5, ScanSpends DEF Reconcile
  <1>6. ASSUME NEW r \in AgentRuns,
               Create(r) \/ Start(r) \/ EndWork(r) \/ EndCheck(r) \/ Retry(r) \/ Deliver(r)
        PROVE  alloc' = alloc
    BY <1>6 DEF Create, Start, EndWork, EndCheck, Retry, Deliver
  <1>7. ASSUME NEW q \in Requests, WriteBytes(q) \/ Reclaim(q) PROVE alloc' = alloc
    BY <1>7 DEF WriteBytes, Reclaim
  <1> QED BY <1>2, <1>3, <1>4, <1>5, <1>6, <1>7, Unspent DEF LedgerNext

\* What was granted is spent for good: no scan, settlement or reclaim lowers
\* an allocation, and a settled row is never written again.
THEOREM NothingRefunded == LedgerSpec => NeverRefunded
  <1>1. LedgerInv /\ [LedgerNext]_ledgerVars
          => [\A q \in Requests : alloc'[q].allocated >= alloc[q].allocated
                                  /\ (alloc[q].settled => alloc'[q] = alloc[q])]_ledgerVars
    BY StepSpends DEF NotRefunded
  <1> QED BY <1>1, LedgerInductive, PTL DEF LedgerSpec, NeverRefunded

----------------------------------------------------------------------------
(* Budgets.  Usage, and the sums an account is made of.                     *)

LEMMA MaxTwo ==
  ASSUME NEW a \in Int, NEW b \in Int
  PROVE  Max({a, b}) = IF a >= b THEN a ELSE b
  <1> DEFINE m == IF a >= b THEN a ELSE b
  <1>1. m \in {a, b} /\ \A y \in {a, b} : m >= y OBVIOUS
  <1>2. \A x \in {a, b} : (\A y \in {a, b} : x >= y) => x = m OBVIOUS
  <1> HIDE DEF m
  <1>3. Max({a, b}) = m BY <1>1, <1>2 DEF Max
  <1> QED BY <1>3 DEF m

Greatest(m, S) == m \in S /\ \A x \in S : x <= m

LEMMA MaxIs ==
  ASSUME NEW S, S \subseteq Int, NEW m, Greatest(m, S)
  PROVE  Max(S) = m
  <1>1. \A x \in S : (\A y \in S : x >= y) => x = m BY DEF Greatest
  <1>2. m \in S /\ \A y \in S : m >= y BY DEF Greatest
  <1> QED BY <1>1, <1>2 DEF Max

\* a finite set of counters has a greatest one
LEMMA GreatestExists ==
  ASSUME NEW S, S \subseteq Int, IsFiniteSet(S), S # {}
  PROVE  \E m \in S : Greatest(m, S)
  <1> DEFINE B == {s \in SUBSET S : s # {} /\ \A m \in s : ~Greatest(m, s)}
  <1>1. B = {}
    <2> SUFFICES ASSUME B # {} PROVE FALSE OBVIOUS
    <2>1. B \in SUBSET SUBSET S OBVIOUS
    <2> HIDE DEF B
    <2>2. PICK s \in B : \A x \in s : s \ {x} \notin B BY <2>1, Smallest
    <2> USE DEF B
    <2>3. s \subseteq S /\ s # {} /\ \A m \in s : ~Greatest(m, s) BY <2>2
    <2>4. PICK x \in s : TRUE BY <2>3
    <2>5. s \ {x} \notin B BY <2>2
    <2>6. CASE s \ {x} = {}
      <3>1. s = {x} /\ x \in Int BY <2>3, <2>6
      <3>2. Greatest(x, s) BY <3>1 DEF Greatest
      <3> QED BY <2>3, <3>2
    <2>7. CASE s \ {x} # {}
      <3>1. PICK m \in s \ {x} : Greatest(m, s \ {x}) BY <2>3, <2>5, <2>7
      <3>2. m \in Int /\ x \in Int BY <2>3, <3>1
      <3>3. CASE x <= m
        <4>1. Greatest(m, s) BY <3>1, <3>2, <3>3 DEF Greatest
        <4> QED BY <2>3, <3>1, <4>1
      <3>4. CASE ~(x <= m)
        <4>1. \A y \in s : y <= x
          <5>1. ASSUME NEW y \in s, y # x PROVE y <= x
            <6>1. y \in Int /\ y <= m BY <2>3, <3>1, <5>1 DEF Greatest
            <6> QED BY <3>2, <3>4, <6>1
          <5> QED BY <3>2, <5>1
        <4>2. Greatest(x, s) BY <2>4, <4>1 DEF Greatest
        <4> QED BY <2>3, <4>2
      <3> QED BY <3>3, <3>4
    <2> QED BY <2>6, <2>7
  <1> QED BY <1>1

\* the amounts a turn costs and is held at
LEMMA UsageFact ==
  ASSUME NEW u \in Usages
  PROVE  /\ Actual(u) \in Amounts /\ Exposed(u) \in Amounts
         /\ \A d \in Dims : Actual(u)[d] <= Exposed(u)[d]
         /\ u = Silent => Actual(u) = Zero /\ Exposed(u) = Reservation
         /\ Settled(u) => Exposed(u) = Actual(u)
         /\ ~Settled(u) => \A d \in Dims : Reservation[d] <= Exposed(u)[d]
         /\ ~Settled(u) /\ Within(Actual(u), Reservation) => Exposed(u) = Reservation
  <1>1. u.input \in Int /\ u.seconds \in Int BY DEF Usages, Unknown
  <1>2. Known(u.input) \in Nat /\ Known(u.seconds) \in Nat
    <2>1. Known(u.input) = (IF u.input >= 0 THEN u.input ELSE 0) BY <1>1, MaxTwo DEF Known
    <2>2. Known(u.seconds) = (IF u.seconds >= 0 THEN u.seconds ELSE 0) BY <1>1, MaxTwo DEF Known
    <2> QED BY <1>1, <2>1, <2>2
  <1>3. Actual(u) = [d \in Dims |-> Actual(u)[d]]
    <2> DEFINE part(d) == CASE d = "tokens"  -> Known(u.input)
                            [] d = "turns"   -> IF u = Silent THEN 0 ELSE 1
                            [] d = "seconds" -> Known(u.seconds)
    <2>1. Actual(u) = [d \in Dims |-> part(d)] BY Zenon DEF Actual
    <2> HIDE DEF part
    <2> QED BY <2>1
  <1>4. /\ Actual(u)["tokens"] = Known(u.input) /\ Actual(u)["seconds"] = Known(u.seconds)
        /\ Actual(u)["turns"] = IF u = Silent THEN 0 ELSE 1
    BY DEF Actual, Dims
  <1>5. \A d \in Dims : Actual(u)[d] \in Nat BY <1>2, <1>4 DEF Dims
  <1>6. Actual(u) \in Amounts BY <1>3, <1>5 DEF Amounts
  <1>7. \A d \in Dims : Reservation[d] \in Nat /\ Reservation[d] > 0 BY BudgetAssumption DEF Amounts
  <1>8. Reservation["turns"] = 1 /\ Reservation = [d \in Dims |-> Reservation[d]]
    BY BudgetAssumption DEF Amounts
  <1>9. Actual(u)["turns"] <= 1 BY <1>4
  <1>10. \A d \in Dims : Max({Actual(u)[d], Reservation[d]}) =
                          IF Actual(u)[d] >= Reservation[d] THEN Actual(u)[d] ELSE Reservation[d]
    BY <1>5, <1>7, MaxTwo
  <1>11. CASE Settled(u)
    <2>1. Exposed(u) = Actual(u) BY <1>11 DEF Exposed
    <2>2. u # Silent BY <1>11 DEF Settled, Silent
    <2> QED BY <1>5, <1>6, <1>11, <2>1, <2>2
  <1>12. CASE ~Settled(u)
    <2> DEFINE e == [d \in Dims |-> IF d = "turns" THEN 1 ELSE Max({Actual(u)[d], Reservation[d]})]
    <2>1. Exposed(u) = e BY <1>12 DEF Exposed
    <2>2. \A d \in Dims : e[d] = IF d = "turns" THEN 1
             ELSE IF Actual(u)[d] >= Reservation[d] THEN Actual(u)[d] ELSE Reservation[d]
      BY <1>10
    <2>3. e = [d \in Dims |-> e[d]] OBVIOUS
    <2> HIDE DEF e
    <2>4. \A d \in Dims : e[d] \in Nat /\ Actual(u)[d] <= e[d] /\ Reservation[d] <= e[d]
      BY <1>5, <1>7, <1>8, <1>9, <2>2
    <2>5. e \in Amounts BY <2>3, <2>4 DEF Amounts
    <2>6. ASSUME Within(Actual(u), Reservation) PROVE e = Reservation
      <3>1. \A d \in Dims : e[d] = Reservation[d] BY <1>5, <1>7, <1>8, <2>2, <2>6 DEF Within
      <3> QED BY <1>8, <2>3, <3>1
    <2>7. ASSUME u = Silent PROVE Actual(u) = Zero /\ Within(Actual(u), Reservation)
      <3>1. u.input = -1 /\ u.seconds = -1 BY <2>7 DEF Silent, Unknown
      <3>2. Known(-1) = 0 BY MaxTwo DEF Known
      <3>3. \A d \in Dims : Actual(u)[d] = 0 BY <1>4, <2>7, <3>1, <3>2 DEF Dims
      <3>4. Actual(u) = Zero BY <1>3, <3>3 DEF Zero
      <3> QED BY <1>7, <3>3, <3>4 DEF Within
    <2> QED BY <1>6, <1>12, <2>1, <2>4, <2>5, <2>6, <2>7
  <1> QED BY <1>11, <1>12

\* what a further event may change
LEMMA MergeFact ==
  ASSUME NEW u \in Usages, NEW e \in Usages
  PROVE  /\ Merge(u, e) \in Usages
         /\ Settled(u) => Settled(Merge(u, e))
         /\ \A d \in Dims : Actual(u)[d] <= Actual(Merge(u, e))[d]
         /\ Merge(u, e).input = (IF u.input >= e.input THEN u.input ELSE e.input)
         /\ Merge(u, e).seconds = (IF u.seconds >= e.seconds THEN u.seconds ELSE e.seconds)
         /\ Merge(u, e).complete <=> u.complete \/ e.complete
  <1> DEFINE w == Merge(u, e)
  <1>1. /\ u.input \in Int /\ u.seconds \in Int /\ e.input \in Int /\ e.seconds \in Int
        /\ u.complete \in BOOLEAN /\ e.complete \in BOOLEAN
        /\ u.input >= -1 /\ u.seconds >= -1 /\ e.input >= -1 /\ e.seconds >= -1
    BY DEF Usages, Unknown
  <1>2. /\ w.input = (IF u.input >= e.input THEN u.input ELSE e.input)
        /\ w.seconds = (IF u.seconds >= e.seconds THEN u.seconds ELSE e.seconds)
    <2>1. Max({u.input, e.input}) = (IF u.input >= e.input THEN u.input ELSE e.input)
      BY <1>1, MaxTwo
    <2>2. Max({u.seconds, e.seconds}) = (IF u.seconds >= e.seconds THEN u.seconds ELSE e.seconds)
      BY <1>1, MaxTwo
    <2> QED BY <2>1, <2>2 DEF Merge
  <1>3. w.complete <=> u.complete \/ e.complete BY <1>1, Zenon DEF Merge
  <1>4. w \in Usages
    <2>1. w.input \in Nat \cup {-1} /\ w.seconds \in Nat \cup {-1} BY <1>1, <1>2
    <2>2. w = [input |-> w.input, seconds |-> w.seconds, complete |-> u.complete \/ e.complete]
      BY DEF Merge
    <2>3. (u.complete \/ e.complete) \in BOOLEAN OBVIOUS
    <2> HIDE DEF w
    <2> QED BY <2>1, <2>2, <2>3 DEF Usages, Unknown
  <1>5. \A n \in Int : Known(n) = IF n >= 0 THEN n ELSE 0 BY MaxTwo DEF Known
  <1>6. /\ Known(u.input) <= Known(w.input) /\ Known(u.seconds) <= Known(w.seconds)
    <2>1. w.input \in Int /\ w.seconds \in Int BY <1>4 DEF Usages, Unknown
    <2> HIDE DEF w
    <2>2. Known(u.input) <= Known(w.input) BY <1>1, <1>2, <1>5, <2>1
    <2>3. Known(u.seconds) <= Known(w.seconds) BY <1>1, <1>2, <1>5, <2>1
    <2> QED BY <2>2, <2>3
  <1>7. w = Silent => u = Silent
    <2> SUFFICES ASSUME w = Silent PROVE u = Silent OBVIOUS
    <2>1. w.input = -1 /\ w.seconds = -1 /\ ~w.complete BY DEF Silent, Unknown
    <2> HIDE DEF w
    <2>2. u.input = -1 /\ u.seconds = -1 BY <1>1, <1>2, <2>1
    <2>3. ~u.complete BY <1>3, <2>1
    <2>4. u.complete = FALSE BY <1>1, <2>3
    <2>5. u = [input |-> u.input, seconds |-> u.seconds, complete |-> u.complete] BY DEF Usages
    <2> QED BY <2>2, <2>4, <2>5 DEF Silent, Unknown
  <1>8. Settled(u) => Settled(w)
    <2> SUFFICES ASSUME Settled(u) PROVE Settled(w) OBVIOUS
    <2>1. w.complete BY <1>3 DEF Settled
    <2>2. u.input # -1 /\ u.seconds # -1 BY DEF Settled, Unknown
    <2> HIDE DEF w
    <2>3. w.input # -1 /\ w.seconds # -1 BY <1>1, <1>2, <2>2
    <2> QED BY <2>1, <2>3 DEF Settled, Unknown
  <1> HIDE DEF w
  <1>9. \A d \in Dims : Actual(u)[d] <= Actual(w)[d]
    <2>1. /\ Actual(u)["tokens"] = Known(u.input) /\ Actual(u)["seconds"] = Known(u.seconds)
          /\ Actual(u)["turns"] = IF u = Silent THEN 0 ELSE 1
      BY DEF Actual, Dims
    <2>2. /\ Actual(w)["tokens"] = Known(w.input) /\ Actual(w)["seconds"] = Known(w.seconds)
          /\ Actual(w)["turns"] = IF w = Silent THEN 0 ELSE 1
      BY DEF Actual, Dims
    <2> QED BY <1>6, <1>7, <2>1, <2>2 DEF Dims
  <1> QED BY <1>2, <1>3, <1>4, <1>8, <1>9 DEF w

\* a turn that stays within its reservation, and is not settled twice, is never held
\* at more than before
LEMMA ExposedFalls ==
  ASSUME NEW u \in Usages, NEW w \in Usages, Within(Actual(w), Reservation),
         Settled(u) => Settled(w) /\ Actual(w) = Actual(u)
  PROVE  \A d \in Dims : Exposed(w)[d] <= Exposed(u)[d]
  <1>1. \A d \in Dims : Exposed(u)[d] \in Nat /\ Reservation[d] \in Nat /\ Actual(w)[d] \in Nat
    BY UsageFact, BudgetAssumption DEF Amounts
  <1>2. CASE Settled(u)
    <2>1. Exposed(w) = Exposed(u) BY <1>2, UsageFact
    <2> QED BY <1>1, <2>1
  <1>3. CASE ~Settled(u)
    <2>1. \A d \in Dims : Reservation[d] <= Exposed(u)[d] BY <1>3, UsageFact
    <2>2. \A d \in Dims : Exposed(w)[d] <= Reservation[d]
      <3>1. CASE Settled(w) BY <3>1, UsageFact DEF Within
      <3>2. CASE ~Settled(w)
        <4>1. Exposed(w) = Reservation BY <3>2, UsageFact
        <4> QED BY <1>1, <4>1
      <3> QED BY <3>1, <3>2
    <2>3. \A d \in Dims : Exposed(w)[d] \in Nat BY UsageFact DEF Amounts
    <2> QED BY <1>1, <2>1, <2>2, <2>3
  <1> QED BY <1>2, <1>3

\* a sum of amounts is a sum in each dimension
LEMMA SumIs ==
  ASSUME NEW S, NEW f, NEW d \in Dims, IsFiniteSet(S), \A x \in S : f[x][d] \in Nat
  PROVE  /\ Natural([x \in S |-> f[x][d]], S)
         /\ Sum(S, f)[d] = Sigma([x \in S |-> f[x][d]], S)
  <1> DEFINE g == [x \in S |-> f[x][d]]
             first(s) == CHOOSE x \in s : TRUE
             Folds(h) == h = [s \in SUBSET S |-> IF s = {} THEN 0
                                                 ELSE f[first(s)][d] + h[s \ {first(s)}]]
             c == [s \in SUBSET S |-> Sigma(g, s)]
  <1>1. Natural(g, S) BY DEF Natural
  <1>2. Sum(S, f)[d] = (CHOOSE h : Folds(h))[S] BY DEF Sum, MapThenSumSet, MapThenFoldSet
  <1>3. \A s \in SUBSET S : s # {} => first(s) \in s OBVIOUS
  <1>4. \A x \in S : g[x] = f[x][d] OBVIOUS
  <1> HIDE DEF g
  <1>5. \A s \in SUBSET S : c[s] = IF s = {} THEN 0 ELSE f[first(s)][d] + c[s \ {first(s)}]
    <2> SUFFICES ASSUME NEW s \in SUBSET S
                 PROVE  c[s] = IF s = {} THEN 0 ELSE f[first(s)][d] + c[s \ {first(s)}]
      OBVIOUS
    <2>1. CASE s = {} BY <2>1, SigmaEmpty
    <2>2. CASE s # {}
      <3> DEFINE x == first(s)
      <3>1. x \in s BY <1>3, <2>2
      <3> HIDE DEF x
      <3>2. Natural(g, s) BY <1>1, NaturalPart
      <3>3. Sigma(g, s) = g[x] + Sigma(g, s \ {x}) BY <3>1, <3>2, SigmaTake
      <3>4. c[s] = f[x][d] + c[s \ {x}] BY <1>4, <3>1, <3>3
      <3> QED BY <2>2, <3>4 DEF x
    <2> QED BY <2>1, <2>2
  <1> HIDE DEF first
  <1>6. Folds(c)
    <2>1. c = [s \in SUBSET S |-> c[s]] OBVIOUS
    <2> HIDE DEF c
    <2> QED BY <1>5, <2>1
  <1> DEFINE h == CHOOSE k : Folds(k)
  <1>7. Folds(h) BY <1>6
  <1> HIDE DEF h
  <1>8. \A s \in SUBSET S : h[s] = IF s = {} THEN 0 ELSE f[first(s)][d] + h[s \ {first(s)}]
    BY <1>7
  <1> HIDE DEF c
  <1> DEFINE B == {s \in SUBSET S : h[s] # c[s]}
  <1>9. B = {}
    <2> SUFFICES ASSUME B # {} PROVE FALSE OBVIOUS
    <2>1. B \in SUBSET SUBSET S OBVIOUS
    <2> HIDE DEF B
    <2>2. PICK s \in B : \A x \in s : s \ {x} \notin B BY <2>1, Smallest
    <2> USE DEF B
    <2>3. s \in SUBSET S /\ h[s] # c[s] BY <2>2
    <2>4. s # {} BY <1>5, <1>8, <2>3
    <2>5. first(s) \in s BY <2>4 DEF first
    <2>6. h[s \ {first(s)}] = c[s \ {first(s)}] BY <2>2, <2>3, <2>5
    <2> QED BY <1>5, <1>8, <2>3, <2>4, <2>6
  <1>10. h[S] = c[S] BY <1>9
  <1>11. c[S] = Sigma(g, S) BY DEF c
  <1> QED BY <1>1, <1>2, <1>10, <1>11 DEF g, h

LEMMA SigmaAdd ==
  ASSUME NEW f, NEW S, Natural(f, S), NEW x, x \notin S, f[x] \in Nat
  PROVE  Natural(f, S \cup {x}) /\ Sigma(f, S \cup {x}) = f[x] + Sigma(f, S)
  <1>1. Natural(f, S \cup {x})
    <2>1. IsFiniteSet({x}) BY FS_Singleton
    <2>2. IsFiniteSet(S \cup {x}) BY <2>1, FS_Union DEF Natural
    <2> QED BY <2>2 DEF Natural
  <1>2. (S \cup {x}) \ {x} = S OBVIOUS
  <1>3. x \in S \cup {x} OBVIOUS
  <1> QED BY <1>1, <1>2, <1>3, SigmaTake

----------------------------------------------------------------------------
(* The account of a Requirement, from the turns n, their usage u and the    *)
(* state p of the repairs.                                                  *)

Counts == [RunIds -> 0..Turns]
UsageMaps == [AllCalls -> Usages]
RepairStates == {"none", "observed", "blocked", "reserved", "started", "transferred"}
RepairMaps == [RepairRuns -> RepairStates]
TurnsOf(n, q) == UNION {{<<r, i>> : i \in 1..n[r]} : r \in RunsOf(q)}
HeldFor(p, q) == {r \in RunsOf(q) \cap RepairRuns : p[r] \in {"reserved", "started"}}
Costs(u, d) == [c \in AllCalls |-> Actual(u[c])[d]]
Claims(u, d) == [c \in AllCalls |-> Exposed(u[c])[d]]

UsedOf(n, u, q) == Sum(TurnsOf(n, q), [c \in TurnsOf(n, q) |-> Actual(u[c])])
ExposureOf(n, u, p, q) ==
    Add(Sum(TurnsOf(n, q), [c \in TurnsOf(n, q) |-> Exposed(u[c])]),
        [d \in Dims |-> Reservation[d] * Cardinality(HeldFor(p, q))])

LEMMA AccountIs ==
  ASSUME NEW q
  PROVE  /\ Used(q) = UsedOf(called, usage, q) /\ Exposure(q) = ExposureOf(called, usage, repair, q)
         /\ Used(q)' = UsedOf(called', usage', q)
         /\ Exposure(q)' = ExposureOf(called', usage', repair', q)
         /\ CallsOf(q) = TurnsOf(called, q) /\ CallsOf(q)' = TurnsOf(called', q)
  BY DEF Used, Exposure, UsedOf, ExposureOf, CallsOf, TurnsOf, Resources, HeldFor

LEMMA TurnsFact == Turns \in Nat /\ Turns > 0
  <1>1. Turns \in Nat \ {0} BY BudgetAssumption, Zenon
  <1> QED BY <1>1

LEMMA ConstantFact ==
  /\ IsFiniteSet(Requirements) /\ WholeGroup \notin Requirements
  /\ IsFiniteSet(RunIds) /\ RepairRuns \subseteq RunIds
  /\ OwnerOf \in [RunIds -> Requirements]
  /\ Delta \in Amounts /\ Reports \subseteq Usages
  /\ MaxGrants \in Nat
  BY BudgetAssumption, Zenon

LEMMA ReservationFact ==
  /\ \A d \in Dims : Reservation[d] \in Nat /\ Reservation[d] > 0
  /\ Reservation["turns"] = 1 /\ Reservation = [d \in Dims |-> Reservation[d]]
  BY BudgetAssumption DEF Amounts

LEMMA TurnsFinite ==
  ASSUME NEW n \in Counts, NEW q
  PROVE  IsFiniteSet(TurnsOf(n, q)) /\ TurnsOf(n, q) \subseteq AllCalls
  <1>1. \A r \in RunIds : n[r] \in Nat /\ n[r] <= Turns BY TurnsFact DEF Counts
  <1>2. TurnsOf(n, q) \subseteq AllCalls
    <2>1. \A r \in RunIds : \A i \in 1..n[r] : i \in 1..Turns BY <1>1, TurnsFact
    <2> QED BY <2>1 DEF TurnsOf, AllCalls, RunsOf
  <1>3. IsFiniteSet(AllCalls)
    <2>1. IsFiniteSet(1..Turns) BY TurnsFact, FS_Interval
    <2> QED BY <2>1, ConstantFact, FS_Product DEF AllCalls
  <1> QED BY <1>2, <1>3, FS_Subset

LEMMA HeldFinite ==
  ASSUME NEW p, NEW q
  PROVE  IsFiniteSet(HeldFor(p, q)) /\ Cardinality(HeldFor(p, q)) \in Nat
  <1>1. HeldFor(p, q) \subseteq RunIds BY DEF HeldFor, RunsOf
  <1>2. IsFiniteSet(HeldFor(p, q)) BY <1>1, BudgetAssumption, FS_Subset
  <1> QED BY <1>2, FS_CardinalityType

LEMMA AccountSums ==
  ASSUME NEW n \in Counts, NEW u \in UsageMaps, NEW p, NEW q, NEW d \in Dims
  PROVE  /\ Natural(Costs(u, d), TurnsOf(n, q)) /\ Natural(Claims(u, d), TurnsOf(n, q))
         /\ UsedOf(n, u, q)[d] = Sigma(Costs(u, d), TurnsOf(n, q))
         /\ ExposureOf(n, u, p, q)[d] = Sigma(Claims(u, d), TurnsOf(n, q))
                                        + Reservation[d] * Cardinality(HeldFor(p, q))
         /\ UsedOf(n, u, q) = [e \in Dims |-> UsedOf(n, u, q)[e]]
         /\ ExposureOf(n, u, p, q) = [e \in Dims |-> ExposureOf(n, u, p, q)[e]]
  <1> DEFINE S == TurnsOf(n, q)
  <1>1. IsFiniteSet(S) /\ S \subseteq AllCalls BY TurnsFinite
  <1>2. \A c \in S : u[c] \in Usages BY <1>1 DEF UsageMaps
  <1>3. \A c \in S : Actual(u[c])[d] \in Nat /\ Exposed(u[c])[d] \in Nat
    BY <1>2, UsageFact DEF Amounts
  <1>4. \A c \in S : Costs(u, d)[c] = Actual(u[c])[d] /\ Claims(u, d)[c] = Exposed(u[c])[d]
    BY <1>1 DEF Costs, Claims
  <1>5. Natural(Costs(u, d), S) /\ Natural(Claims(u, d), S) BY <1>1, <1>3, <1>4 DEF Natural
  <1> DEFINE f == [c \in S |-> Actual(u[c])]
             g == [c \in S |-> Exposed(u[c])]
  <1>6. \A c \in S : f[c][d] = Costs(u, d)[c] /\ g[c][d] = Claims(u, d)[c] BY <1>4
  <1>7. UsedOf(n, u, q) = Sum(S, f) /\
        ExposureOf(n, u, p, q) = Add(Sum(S, g), [e \in Dims |-> Reservation[e] * Cardinality(HeldFor(p, q))])
    BY DEF UsedOf, ExposureOf
  <1> HIDE DEF S, f, g
  <1>8. \A c \in S : f[c][d] \in Nat /\ g[c][d] \in Nat BY <1>5, <1>6 DEF Natural
  <1>9. Sum(S, f)[d] = Sigma([c \in S |-> f[c][d]], S) BY <1>1, <1>8, SumIs
  <1>10. Sum(S, g)[d] = Sigma([c \in S |-> g[c][d]], S) BY <1>1, <1>8, SumIs
  <1>11. Sigma([c \in S |-> f[c][d]], S) = Sigma(Costs(u, d), S) BY <1>5, <1>6, SigmaEqual
  <1>12. Sigma([c \in S |-> g[c][d]], S) = Sigma(Claims(u, d), S) BY <1>5, <1>6, SigmaEqual
  <1>13. UsedOf(n, u, q)[d] = Sigma(Costs(u, d), S) BY <1>7, <1>9, <1>11
  <1>14. ExposureOf(n, u, p, q)[d] = Sum(S, g)[d] + Reservation[d] * Cardinality(HeldFor(p, q))
    BY <1>7 DEF Add
  <1>15. UsedOf(n, u, q) = [e \in Dims |-> UsedOf(n, u, q)[e]]
         /\ ExposureOf(n, u, p, q) = [e \in Dims |-> ExposureOf(n, u, p, q)[e]]
    BY <1>7 DEF Sum, Add
  <1> QED BY <1>5, <1>10, <1>12, <1>13, <1>14, <1>15 DEF S

LEMMA UsedSum ==
  ASSUME NEW n \in Counts, NEW u \in UsageMaps, NEW q, NEW d \in Dims
  PROVE  UsedOf(n, u, q)[d] = Sigma(Costs(u, d), TurnsOf(n, q))
  <1> DEFINE p == [r \in RepairRuns |-> "none"]
  <1> HIDE DEF p
  <1> QED BY AccountSums, ReservationFact

LEMMA TimesNat ==
  ASSUME NEW a \in Nat, NEW b \in Nat
  PROVE  a * b \in Nat /\ (b > 0 => a <= a * b) /\ a * (b + 1) = a * b + a
  OBVIOUS

\* an account is counted in natural numbers, and what is used of it is exposed
LEMMA AccountFact ==
  ASSUME NEW n \in Counts, NEW u \in UsageMaps, NEW p, NEW q
  PROVE  /\ UsedOf(n, u, q) \in Amounts /\ ExposureOf(n, u, p, q) \in Amounts
         /\ \A d \in Dims : UsedOf(n, u, q)[d] <= ExposureOf(n, u, p, q)[d]
         /\ HeldFor(p, q) # {} =>
               \A d \in Dims : UsedOf(n, u, q)[d] + Reservation[d] <= ExposureOf(n, u, p, q)[d]
  <1>1. ASSUME NEW d \in Dims
        PROVE  /\ UsedOf(n, u, q)[d] \in Nat /\ ExposureOf(n, u, p, q)[d] \in Nat
               /\ UsedOf(n, u, q)[d] <= ExposureOf(n, u, p, q)[d]
               /\ HeldFor(p, q) # {} => UsedOf(n, u, q)[d] + Reservation[d] <= ExposureOf(n, u, p, q)[d]
    <2> DEFINE S == TurnsOf(n, q)
               x == Sigma(Costs(u, d), S)
               y == Sigma(Claims(u, d), S)
               k == Cardinality(HeldFor(p, q))
               z == Reservation[d] * k
    <2>1. Natural(Costs(u, d), S) /\ Natural(Claims(u, d), S) BY AccountSums
    <2>2. x \in Nat /\ y \in Nat BY <2>1, SigmaNat
    <2>3. \A c \in S : Costs(u, d)[c] <= Claims(u, d)[c]
      <3>1. S \subseteq AllCalls BY TurnsFinite
      <3> QED BY <3>1, UsageFact DEF Costs, Claims, UsageMaps
    <2> HIDE DEF S
    <2>4. x <= y BY <2>1, <2>3, SigmaMono
    <2>5. UsedOf(n, u, q)[d] = x /\ ExposureOf(n, u, p, q)[d] = y + z BY AccountSums DEF S
    <2>6. k \in Nat /\ (HeldFor(p, q) # {} => k > 0)
      <3>1. IsFiniteSet(HeldFor(p, q)) /\ k \in Nat BY HeldFinite
      <3>2. HeldFor(p, q) # {} => k # 0 BY <3>1, FS_EmptySet
      <3> QED BY <3>1, <3>2
    <2>7. Reservation[d] \in Nat BY ReservationFact
    <2> HIDE DEF k
    <2>8. z \in Nat /\ (k > 0 => Reservation[d] <= z) BY <2>6, <2>7, TimesNat
    <2> HIDE DEF x, y, z
    <2> QED BY <2>2, <2>4, <2>5, <2>6, <2>7, <2>8
  <1>2. /\ UsedOf(n, u, q) = [e \in Dims |-> UsedOf(n, u, q)[e]]
        /\ ExposureOf(n, u, p, q) = [e \in Dims |-> ExposureOf(n, u, p, q)[e]]
    <2>1. "turns" \in Dims BY DEF Dims
    <2> QED BY <2>1, AccountSums
  <1> QED BY <1>1, <1>2 DEF Amounts

\* what a step does to an account: nothing, another turn, another prepaid repair, or
\* a turn that costs less than was held for it
LEMMA AccountSame ==
  ASSUME NEW n, NEW m, NEW u, NEW w, NEW p, NEW t, NEW q,
         \A r \in RunsOf(q) : m[r] = n[r], \A c \in TurnsOf(n, q) : w[c] = u[c]
  PROVE  /\ TurnsOf(m, q) = TurnsOf(n, q) /\ UsedOf(m, w, q) = UsedOf(n, u, q)
         /\ HeldFor(t, q) = HeldFor(p, q) => ExposureOf(m, w, t, q) = ExposureOf(n, u, p, q)
  <1>1. TurnsOf(m, q) = TurnsOf(n, q) BY DEF TurnsOf
  <1>2. [c \in TurnsOf(m, q) |-> Actual(w[c])] = [c \in TurnsOf(n, q) |-> Actual(u[c])] BY <1>1
  <1>3. [c \in TurnsOf(m, q) |-> Exposed(w[c])] = [c \in TurnsOf(n, q) |-> Exposed(u[c])] BY <1>1
  <1> QED BY <1>1, <1>2, <1>3 DEF UsedOf, ExposureOf

LEMMA AmountsEqual ==
  ASSUME NEW f, NEW g, f = [d \in Dims |-> f[d]], g = [d \in Dims |-> g[d]],
         \A d \in Dims : f[d] = g[d]
  PROVE  f = g
  OBVIOUS

LEMMA AddAmounts ==
  ASSUME NEW f, NEW g
  PROVE  /\ Add(f, g) = [d \in Dims |-> Add(f, g)[d]]
         /\ \A d \in Dims : Add(f, g)[d] = f[d] + g[d]
         /\ f \in Amounts /\ g \in Amounts => Add(f, g) \in Amounts
  BY DEF Add, Amounts

LEMMA AccountAlike ==
  ASSUME NEW n \in Counts, NEW u \in UsageMaps, NEW p, NEW q
  PROVE  /\ UsedOf(n, u, q) = [e \in Dims |-> UsedOf(n, u, q)[e]]
         /\ ExposureOf(n, u, p, q) = [e \in Dims |-> ExposureOf(n, u, p, q)[e]]
  <1>1. "turns" \in Dims BY DEF Dims
  <1> QED BY <1>1, AccountSums

TurnAdded(n, m, u, r, q) ==
    /\ q = OwnerOf[r] /\ n[r] < Turns /\ m = [n EXCEPT ![r] = n[r] + 1]
    /\ u[<<r, n[r] + 1>>] = Silent

LEMMA AccountTurn ==
  ASSUME NEW n \in Counts, NEW u \in UsageMaps, NEW p, NEW t, NEW r \in RunIds, NEW m, NEW q,
         TurnAdded(n, m, u, r, q)
  PROVE  /\ m \in Counts /\ UsedOf(m, u, q) = UsedOf(n, u, q)
         /\ HeldFor(t, q) = HeldFor(p, q) =>
               ExposureOf(m, u, t, q) = Add(ExposureOf(n, u, p, q), Reservation)
         /\ r \in HeldFor(p, q) /\ HeldFor(t, q) = HeldFor(p, q) \ {r} =>
               ExposureOf(m, u, t, q) = ExposureOf(n, u, p, q)
  <1> DEFINE c == <<r, n[r] + 1>>
             S == TurnsOf(n, q)
  <1>1. n[r] \in Nat /\ n[r] + 1 \in 0..Turns BY TurnsFact DEF Counts, TurnAdded
  <1>2. m \in Counts BY <1>1 DEF Counts, TurnAdded
  <1>3. m[r] = n[r] + 1 /\ \A s \in RunIds : s # r => m[s] = n[s] BY DEF Counts, TurnAdded
  <1>4. TurnsOf(m, q) = S \cup {c}
    <2>1. 1..m[r] = (1..n[r]) \cup {n[r] + 1} BY <1>1, <1>3
    <2>2. r \in RunsOf(q) BY DEF RunsOf, TurnAdded
    <2>3. \A s \in RunsOf(q) : s # r => m[s] = n[s] BY <1>3 DEF RunsOf
    <2> QED BY <2>1, <2>2, <2>3 DEF TurnsOf
  <1>5. c \notin S
    <2>1. n[r] + 1 \notin 1..n[r] BY <1>1
    <2> QED BY <2>1 DEF TurnsOf
  <1>6. c \in AllCalls
    <2>1. n[r] + 1 \in 1..Turns BY <1>1, TurnsFact
    <2> QED BY <2>1 DEF AllCalls
  <1>7. Silent \in Usages BY DEF Silent, Usages
  <1>8. Actual(Silent) = Zero /\ Exposed(Silent) = Reservation BY <1>7, UsageFact
  <1> HIDE DEF c, S
  <1>9. ASSUME NEW d \in Dims
        PROVE  /\ UsedOf(m, u, q)[d] = UsedOf(n, u, q)[d]
               /\ HeldFor(t, q) = HeldFor(p, q) =>
                     ExposureOf(m, u, t, q)[d] = ExposureOf(n, u, p, q)[d] + Reservation[d]
               /\ r \in HeldFor(p, q) /\ HeldFor(t, q) = HeldFor(p, q) \ {r} =>
                     ExposureOf(m, u, t, q)[d] = ExposureOf(n, u, p, q)[d]
    <2> DEFINE x == Sigma(Costs(u, d), S)
               y == Sigma(Claims(u, d), S)
               k == Cardinality(HeldFor(p, q))
               e == ExposureOf(n, u, p, q)[d]
               w == ExposureOf(m, u, t, q)[d]
    <2>1. Natural(Costs(u, d), S) /\ Natural(Claims(u, d), S) BY AccountSums DEF S
    <2>2. u[c] = Silent BY DEF c, TurnAdded
    <2>3. Costs(u, d)[c] = 0 /\ Claims(u, d)[c] = Reservation[d]
      BY <1>6, <1>8, <2>2 DEF Costs, Claims, Zero
    <2>4. Reservation[d] \in Nat BY ReservationFact
    <2>5. Sigma(Costs(u, d), S \cup {c}) = 0 + x BY <1>5, <2>1, <2>3, SigmaAdd
    <2>6. Sigma(Claims(u, d), S \cup {c}) = Reservation[d] + y BY <1>5, <2>1, <2>3, <2>4, SigmaAdd
    <2>7. x \in Nat /\ y \in Nat BY <2>1, SigmaNat
    <2>8. UsedOf(n, u, q)[d] = x BY UsedSum DEF S
    <2>9. UsedOf(m, u, q)[d] = x
      <3>1. UsedOf(m, u, q)[d] = Sigma(Costs(u, d), TurnsOf(m, q)) BY <1>2, UsedSum
      <3> QED BY <1>4, <2>5, <2>7, <3>1
    <2>10. e = y + Reservation[d] * k BY AccountSums DEF S
    <2>11. w = Reservation[d] + y + Reservation[d] * Cardinality(HeldFor(t, q))
      <3>1. w = Sigma(Claims(u, d), TurnsOf(m, q)) + Reservation[d] * Cardinality(HeldFor(t, q))
        BY <1>2, AccountSums
      <3> QED BY <1>4, <2>6, <3>1
    <2>12. k \in Nat /\ IsFiniteSet(HeldFor(p, q)) BY HeldFinite
    <2>13. HeldFor(t, q) = HeldFor(p, q) => w = e + Reservation[d]
      <3> SUFFICES ASSUME HeldFor(t, q) = HeldFor(p, q) PROVE w = e + Reservation[d] OBVIOUS
      <3>1. w = Reservation[d] + y + Reservation[d] * k BY <2>11
      <3> DEFINE z == Reservation[d] * k
      <3>2. z \in Nat BY <2>4, <2>12, TimesNat
      <3>3. e = y + z /\ w = Reservation[d] + y + z BY <2>10, <3>1
      <3> HIDE DEF e, w, z, y
      <3> QED BY <2>4, <2>7, <3>2, <3>3
    <2>14. r \in HeldFor(p, q) /\ HeldFor(t, q) = HeldFor(p, q) \ {r} => w = e
      <3> SUFFICES ASSUME r \in HeldFor(p, q), HeldFor(t, q) = HeldFor(p, q) \ {r} PROVE w = e OBVIOUS
      <3> DEFINE j == Cardinality(HeldFor(t, q))
      <3>1. j = k - 1 BY <2>12, FS_RemoveElement, ZenonT(60)
      <3>2. j \in Nat BY HeldFinite
      <3> DEFINE z == Reservation[d] * j
      <3>3. Reservation[d] * k = z + Reservation[d]
        <4>1. k = j + 1 BY <2>12, <3>1, <3>2
        <4> HIDE DEF j, k
        <4>2. Reservation[d] * (j + 1) = Reservation[d] * j + Reservation[d] BY <2>4, <3>2, TimesNat
        <4> QED BY <4>1, <4>2
      <3>4. z \in Nat BY <2>4, <3>2, TimesNat
      <3>5. e = y + (z + Reservation[d]) /\ w = Reservation[d] + y + z BY <2>10, <2>11, <3>3
      <3> HIDE DEF e, w, z, y
      <3> QED BY <2>4, <2>7, <3>4, <3>5
    <2> QED BY <2>8, <2>9, <2>13, <2>14
  <1>10. UsedOf(m, u, q) = UsedOf(n, u, q) BY <1>2, <1>9, AccountAlike, AmountsEqual
  <1>11. ASSUME HeldFor(t, q) = HeldFor(p, q)
         PROVE  ExposureOf(m, u, t, q) = Add(ExposureOf(n, u, p, q), Reservation)
    BY <1>2, <1>9, <1>11, AccountAlike, AddAmounts, AmountsEqual
  <1>12. ASSUME r \in HeldFor(p, q), HeldFor(t, q) = HeldFor(p, q) \ {r}
         PROVE  ExposureOf(m, u, t, q) = ExposureOf(n, u, p, q)
    BY <1>2, <1>9, <1>12, AccountAlike, AmountsEqual
  <1> QED BY <1>2, <1>10, <1>11, <1>12

Splits(n, u, p, q, d) ==
    ExposureOf(n, u, p, q)[d] = Sigma(Claims(u, d), TurnsOf(n, q)) + Reservation[d] * Cardinality(HeldFor(p, q))
LEMMA ExposureSplits ==
  ASSUME NEW n \in Counts, NEW u \in UsageMaps, NEW p, NEW q, NEW d \in Dims
  PROVE  Splits(n, u, p, q, d)
  BY AccountSums DEF Splits

LEMMA AccountHold ==
  ASSUME NEW n \in Counts, NEW u \in UsageMaps, NEW p, NEW t, NEW q, NEW r,
         r \notin HeldFor(p, q), HeldFor(t, q) = HeldFor(p, q) \cup {r}
  PROVE  ExposureOf(n, u, t, q) = Add(ExposureOf(n, u, p, q), Reservation)
  <1>1. ASSUME NEW d \in Dims
        PROVE  ExposureOf(n, u, t, q)[d] = ExposureOf(n, u, p, q)[d] + Reservation[d]
    <2> DEFINE y == Sigma(Claims(u, d), TurnsOf(n, q))
               k == Cardinality(HeldFor(p, q))
               j == Cardinality(HeldFor(t, q))
               e == ExposureOf(n, u, p, q)[d]
               w == ExposureOf(n, u, t, q)[d]
               z == Reservation[d] * k
               i == Reservation[d] * j
    <2>1. y \in Nat BY AccountSums, SigmaNat
    <2>2. k \in Nat /\ IsFiniteSet(HeldFor(p, q)) BY HeldFinite
    <2>3. j = k + 1 BY <2>2, FS_AddElement
    <2>4. Reservation[d] \in Nat BY ReservationFact
    <2>5. e = y + z BY AccountSums
    <2>6. w = y + i
      <3>1. Splits(n, u, t, q, d) BY ExposureSplits
      <3> QED BY <3>1 DEF Splits
    <2> HIDE DEF k, j, y
    <2>7. i = z + Reservation[d] BY <2>2, <2>3, <2>4, TimesNat
    <2>8. z \in Nat BY <2>2, <2>4, TimesNat
    <2>9. w = y + (z + Reservation[d]) BY <2>6, <2>7
    <2> HIDE DEF e, w, z, i
    <2> QED BY <2>1, <2>4, <2>5, <2>8, <2>9 DEF e, w
  <1> QED BY <1>1, AccountAlike, AddAmounts, AmountsEqual

LEMMA AccountFalls ==
  ASSUME NEW n \in Counts, NEW u \in UsageMaps, NEW w \in UsageMaps, NEW p, NEW q,
         \A c \in TurnsOf(n, q) : \A d \in Dims : Exposed(w[c])[d] <= Exposed(u[c])[d]
  PROVE  \A d \in Dims : ExposureOf(n, w, p, q)[d] <= ExposureOf(n, u, p, q)[d]
  <1> SUFFICES ASSUME NEW d \in Dims PROVE ExposureOf(n, w, p, q)[d] <= ExposureOf(n, u, p, q)[d]
    OBVIOUS
  <1> DEFINE S == TurnsOf(n, q)
             x == Sigma(Claims(w, d), S)
             y == Sigma(Claims(u, d), S)
             z == Reservation[d] * Cardinality(HeldFor(p, q))
  <1>1. Natural(Claims(w, d), S) /\ Natural(Claims(u, d), S) BY AccountSums
  <1>2. \A c \in S : Claims(w, d)[c] <= Claims(u, d)[c]
    <2>1. S \subseteq AllCalls BY TurnsFinite
    <2> QED BY <2>1 DEF Claims
  <1> HIDE DEF S
  <1>3. x <= y /\ x \in Nat /\ y \in Nat BY <1>1, <1>2, SigmaMono, SigmaNat
  <1>4. z \in Nat BY ReservationFact, HeldFinite, TimesNat
  <1>5. ExposureOf(n, w, p, q)[d] = x + z /\ ExposureOf(n, u, p, q)[d] = y + z BY AccountSums DEF S
  <1> HIDE DEF x, y, z
  <1> QED BY <1>3, <1>4, <1>5

----------------------------------------------------------------------------
(* The inductive invariant of the accounts.                                 *)

\* the counters of each turn are the greatest of its events, and a turn that was not
\* admitted has none
Recorded(u, events) ==
    /\ Greatest(u.input, {e.input : e \in events} \cup {Unknown})
    /\ Greatest(u.seconds, {e.seconds : e \in events} \cup {Unknown})
    /\ u.complete <=> \E e \in events : e.complete
RecordedAt(u, a, n) == \A r \in RunIds, i \in 1..Turns :
    /\ Recorded(u[<<r, i>>], a[<<r, i>>]) /\ IsFiniteSet(a[<<r, i>>])
    /\ i > n[r] => a[<<r, i>>] = {}
History == RecordedAt(usage, archive, called)

\* a Requirement has turns and repairs only after its first Run was claimed
BegunAt(n, g, p) ==
    /\ \A r \in RunIds : n[r] > 0 => g[r] # "none"
    /\ \A r \in RepairRuns : p[r] # "none" => \E s \in RunsOf(OwnerOf[r]) : g[s] # "none"
Begun == BegunAt(called, agent, repair)

\* what was booked for a child is its account, and the row Whole has the sums
UsedColumn(a, d) == [q \in DOMAIN a |-> a[q].used[d]]
HeldColumn(a, d) == [q \in DOMAIN a |-> a[q].reserved[d]]
LimitColumn(l, G, d) == [q \in G |-> l[q][d]]
Books ==
    /\ Grouped \subseteq Requirements
    /\ \A q \in Grouped :
          /\ accounted[q].used = Used(q)
          /\ \A d \in Dims : accounted[q].reserved[d] = Exposure(q)[d] - Used(q)[d]
          /\ rows[q].used = accounted[q].used /\ rows[q].reserved = accounted[q].reserved
    /\ \A d \in Dims : /\ rows[WholeGroup].used[d] = Sigma(UsedColumn(accounted, d), Grouped)
                       /\ rows[WholeGroup].reserved[d] = Sigma(HeldColumn(accounted, d), Grouped)

GroupLimits ==
    /\ \A q \in Grouped : rows[q].limits = limits[q]
    /\ \A d \in Dims :
          LET sum == Sigma(LimitColumn(limits, Grouped, d), Grouped)
          IN  /\ Grouped # {} => rows[WholeGroup].limits[d] <= sum
              /\ (\E q \in Grouped : version[q] > 1) => rows[WholeGroup].limits[d] = sum

\* while an item of the group may go on, no account of the group is overdrawn; the
\* group is spent only when a grant has just covered every item to the last unit
Open == \E q \in Grouped : ~exhausted[q]
Frozen ==
    Open => /\ \A k \in Grouped \cup {WholeGroup} : Within(RowExposure(k), rows[k].limits)
            /\ Spent(rows[WholeGroup].used, rows[WholeGroup].limits) =>
                  \A d \in Dims : rows[WholeGroup].limits[d] = Sigma(LimitColumn(limits, Grouped, d), Grouped)

Positive == \A q \in Requirements, d \in Dims : limits[q][d] > 0

BudgetInv ==
    /\ BudgetTypes /\ Positive /\ History /\ Begun /\ Books /\ GroupLimits /\ Frozen
    /\ OverdrawnStops /\ ReservationsHold

RowRecords == [limits : Amounts, used : Amounts, reserved : Amounts]
BookRecords == [used : Amounts, reserved : Amounts]
RowTypes ==
    /\ rows \in [Grouped \cup {WholeGroup} -> RowRecords] /\ accounted \in [Grouped -> BookRecords]

\* everything in BudgetTypes that is not a row
CoreTypes ==
    /\ limits \in [Requirements -> Amounts] /\ exhausted \in [Requirements -> BOOLEAN]
    /\ version \in [Requirements -> 1..(MaxGrants + 1)]
    /\ agent \in [RunIds -> {"none", "active", "stopping", "quiescent"}]
    /\ called \in Counts /\ usage \in UsageMaps /\ archive \in [AllCalls -> SUBSET Reports]
    /\ repair \in RepairMaps /\ since \in [RepairRuns -> 0..(MaxGrants + 1)]

LEMMA TypesAre ==
  /\ BudgetTypes <=> CoreTypes /\ RowTypes
  /\ BudgetTypes' <=> CoreTypes' /\ RowTypes'
  BY DEF BudgetTypes, CoreTypes, RowTypes, Counts, UsageMaps, RepairMaps, RepairStates, RowRecords,
         BookRecords

LEMMA AccountTypes ==
  ASSUME CoreTypes, NEW q
  PROVE  /\ Used(q) \in Amounts /\ Exposure(q) \in Amounts
         /\ \A d \in Dims : Used(q)[d] <= Exposure(q)[d]
         /\ HeldFor(repair, q) # {} => \A d \in Dims : Used(q)[d] + Reservation[d] <= Exposure(q)[d]
  BY AccountIs, AccountFact DEF CoreTypes

LEMMA AccountTypesNext ==
  ASSUME CoreTypes', NEW q
  PROVE  /\ Used(q)' \in Amounts /\ Exposure(q)' \in Amounts
         /\ \A d \in Dims : Used(q)'[d] <= Exposure(q)'[d]
  BY AccountIs, AccountFact DEF CoreTypes

LEMMA AmountIs ==
  ASSUME NEW f \in Amounts
  PROVE  f = [d \in Dims |-> f[d]] /\ \A d \in Dims : f[d] \in Nat
  BY DEF Amounts

\* the columns of the group are finite sums of natural numbers
LEMMA ColumnFact ==
  ASSUME NEW a, NEW G, G \subseteq Requirements, a \in [G -> BookRecords], NEW d \in Dims
  PROVE  Natural(UsedColumn(a, d), G) /\ Natural(HeldColumn(a, d), G)
  <1>1. IsFiniteSet(G) BY ConstantFact, FS_Subset
  <1>2. DOMAIN a = G OBVIOUS
  <1>3. \A q \in G : a[q].used \in Amounts /\ a[q].reserved \in Amounts BY DEF BookRecords
  <1>4. \A q \in G : UsedColumn(a, d)[q] \in Nat /\ HeldColumn(a, d)[q] \in Nat
    BY <1>2, <1>3 DEF UsedColumn, HeldColumn, Amounts
  <1> QED BY <1>1, <1>4 DEF Natural

\* the exposure of a row, and of the group
LEMMA RowFact ==
  ASSUME BudgetTypes, Books
  PROVE  /\ \A k \in Grouped \cup {WholeGroup} :
               /\ rows[k].limits \in Amounts /\ rows[k].used \in Amounts /\ rows[k].reserved \in Amounts
               /\ RowExposure(k) \in Amounts
               /\ \A d \in Dims : RowExposure(k)[d] = rows[k].used[d] + rows[k].reserved[d]
         /\ \A q \in Grouped : rows[q].used = Used(q) /\ RowExposure(q) = Exposure(q)
         /\ WholeGroup \notin Grouped /\ IsFiniteSet(Grouped) /\ DOMAIN rows = Grouped \cup {WholeGroup}
  <1>1. rows \in [Grouped \cup {WholeGroup} -> RowRecords] BY TypesAre DEF RowTypes
  <1>2. ASSUME NEW k \in Grouped \cup {WholeGroup}
        PROVE  /\ rows[k].limits \in Amounts /\ rows[k].used \in Amounts /\ rows[k].reserved \in Amounts
               /\ RowExposure(k) \in Amounts
               /\ \A d \in Dims : RowExposure(k)[d] = rows[k].used[d] + rows[k].reserved[d]
    <2>1. rows[k] \in RowRecords BY <1>1
    <2>2. rows[k].limits \in Amounts /\ rows[k].used \in Amounts /\ rows[k].reserved \in Amounts
      BY <2>1 DEF RowRecords
    <2>3. RowExposure(k) = Add(rows[k].used, rows[k].reserved) BY DEF RowExposure
    <2> DEFINE f == rows[k].used
               g == rows[k].reserved
    <2>4. f \in Amounts /\ g \in Amounts /\ RowExposure(k) = Add(f, g) BY <2>2, <2>3
    <2> HIDE DEF f, g
    <2>5. Add(f, g) \in Amounts /\ \A d \in Dims : Add(f, g)[d] = f[d] + g[d] BY <2>4, AddAmounts
    <2>6. RowExposure(k) \in Amounts /\ \A d \in Dims : RowExposure(k)[d] = f[d] + g[d]
      BY <2>4, <2>5, Zenon
    <2> QED BY <2>2, <2>6 DEF f, g
  <1>3. ASSUME NEW q \in Grouped PROVE rows[q].used = Used(q) /\ RowExposure(q) = Exposure(q)
    <2>1. rows[q].used = Used(q) BY DEF Books
    <2>2. Used(q) \in Amounts /\ Exposure(q) \in Amounts BY TypesAre, AccountTypes
    <2>3. \A d \in Dims : rows[q].reserved[d] = Exposure(q)[d] - Used(q)[d] BY DEF Books
    <2>4. ASSUME NEW d \in Dims PROVE RowExposure(q)[d] = Exposure(q)[d]
      <3>1. Used(q)[d] \in Nat /\ Exposure(q)[d] \in Nat BY <2>2 DEF Amounts
      <3>2. RowExposure(q)[d] = rows[q].used[d] + rows[q].reserved[d] BY <1>2
      <3>3. RowExposure(q)[d] = Used(q)[d] + (Exposure(q)[d] - Used(q)[d]) BY <2>1, <2>3, <3>2
      <3> QED BY <3>1, <3>3
    <2>5. RowExposure(q) \in Amounts BY <1>2
    <2> QED BY <2>1, <2>2, <2>4, <2>5, AmountIs, AmountsEqual
  <1>4. WholeGroup \notin Grouped /\ IsFiniteSet(Grouped)
    <2>1. Grouped \subseteq Requirements BY DEF Books
    <2> QED BY <2>1, ConstantFact, FS_Subset
  <1> QED BY <1>1, <1>2, <1>3, <1>4

----------------------------------------------------------------------------
(* Booking: group_budget::sync moves the rows by what changed.              *)

RowsMove(q) ==
    /\ Grouped' = Grouped
    /\ \A k \in Grouped \cup {WholeGroup} :
          /\ rows'[k].limits = rows[k].limits
          /\ k \notin RowsOf(q) => rows'[k] = rows[k]
          /\ k \in RowsOf(q) => \A d \in Dims :
                /\ rows'[k].used[d] = rows[k].used[d] + (Used(q)'[d] - Used(q)[d])
                /\ RowExposure(k)'[d] = RowExposure(k)[d] + (Exposure(q)'[d] - Exposure(q)[d])

LEMMA SubtractAmounts ==
  ASSUME NEW f, NEW g
  PROVE  /\ Subtract(f, g) = [d \in Dims |-> Subtract(f, g)[d]]
         /\ \A d \in Dims : Subtract(f, g)[d] = f[d] - g[d]
  BY DEF Subtract

LEMMA BookedKept ==
  ASSUME BudgetTypes, Books, CoreTypes', accounted' = accounted, rows' = rows,
         \A p \in Grouped : Used(p)' = Used(p) /\ Exposure(p)' = Exposure(p)
  PROVE  RowTypes' /\ Books' /\ Grouped' = Grouped
  <1>1. Grouped' = Grouped BY DEF Grouped
  <1>2. RowTypes' BY <1>1, TypesAre DEF RowTypes
  <1>3. Books' BY <1>1 DEF Books
  <1> QED BY <1>1, <1>2, <1>3

MovesBy(x, y, U, V, E, F, H, d) ==
    /\ x.used[d] \in Nat /\ x.reserved[d] \in Nat
    /\ U[d] \in Nat /\ V[d] \in Nat /\ E[d] \in Nat /\ F[d] \in Nat /\ H[d] = F[d] - V[d]
    /\ y.used[d] = x.used[d] + (V[d] - U[d])
    /\ y.reserved[d] = x.reserved[d] + (H[d] - (E[d] - U[d]))

LEMMA MovedSum ==
  ASSUME NEW x, NEW y, NEW U, NEW V, NEW E, NEW F, NEW H, NEW d,
         d \in Dims /\ MovesBy(x, y, U, V, E, F, H, d)
  PROVE  Add(y.used, y.reserved)[d] = Add(x.used, x.reserved)[d] + (F[d] - E[d])
  <1> DEFINE f == x.used
             g == x.reserved
             i == y.used
             j == y.reserved
             fd == f[d]
             gd == g[d]
             ud == U[d]
             vd == V[d]
             ed == E[d]
             hd == F[d]
  <1>1. /\ fd \in Nat /\ gd \in Nat /\ ud \in Nat /\ vd \in Nat /\ ed \in Nat /\ hd \in Nat
    BY DEF MovesBy
  <1>2. i[d] = fd + (vd - ud) /\ j[d] = gd + ((hd - vd) - (ed - ud)) BY Zenon DEF MovesBy
  <1> HIDE DEF f, g, i, j
  <1>3. Add(f, g)[d] = fd + gd /\ Add(i, j)[d] = i[d] + j[d] BY DEF Add
  <1>4. Add(i, j)[d] = (fd + (vd - ud)) + (gd + ((hd - vd) - (ed - ud))) BY <1>2, <1>3, Zenon
  <1> HIDE DEF fd, gd, ud, vd, ed, hd
  <1>5. (fd + (vd - ud)) + (gd + ((hd - vd) - (ed - ud))) = (fd + gd) + (hd - ed) BY <1>1
  <1>6. Add(i, j)[d] = Add(f, g)[d] + (hd - ed) BY <1>3, <1>4, <1>5, Zenon
  <1> QED BY <1>6, Zenon DEF ed, hd, f, g, i, j

LEMMA MovedRow ==
  ASSUME NEW x \in RowRecords, NEW y, NEW f, NEW g,
         y = [x EXCEPT !.used = f, !.reserved = g]
  PROVE  /\ y.limits = x.limits /\ y.used = f /\ y.reserved = g
         /\ f \in Amounts /\ g \in Amounts => y \in RowRecords
  BY DEF RowRecords

LEMMA SyncFact ==
  ASSUME BudgetTypes, Books, CoreTypes', NEW q \in Requirements, Sync(q),
         \A p \in Requirements : p # q => Used(p)' = Used(p) /\ Exposure(p)' = Exposure(p)
  PROVE  RowTypes' /\ Books' /\ RowsMove(q)
  <1> DEFINE U == Used(q)
             V == Used(q)'
             E == Exposure(q)
             F == Exposure(q)'
             H == Subtract(F, V)
             a == accounted
             b == accounted'
             G == Grouped
  <1>1. G \subseteq Requirements /\ WholeGroup \notin G /\ IsFiniteSet(G) /\ DOMAIN rows = G \cup {WholeGroup}
    BY RowFact DEF Books
  <1>2. U \in Amounts /\ E \in Amounts /\ V \in Amounts /\ F \in Amounts
        /\ \A d \in Dims : U[d] <= E[d] /\ V[d] <= F[d]
    BY TypesAre, AccountTypes, AccountTypesNext
  <1>3. rows \in [G \cup {WholeGroup} -> RowRecords] /\ a \in [G -> BookRecords] BY TypesAre DEF RowTypes
  <1>4. CASE q \notin G
    <2>1. RowsOf(q) = {} BY <1>4 DEF RowsOf
    <2>2. rows' = [k \in DOMAIN rows |-> rows[k]] /\ accounted' = accounted
      BY <1>4, <2>1 DEF Sync
    <2>3. rows' = rows BY <1>3, <2>2
    <2>4. \A p \in Grouped : Used(p)' = Used(p) /\ Exposure(p)' = Exposure(p) BY <1>1, <1>4
    <2>5. RowTypes' /\ Books' /\ Grouped' = Grouped BY <2>2, <2>3, <2>4, BookedKept
    <2> QED BY <2>1, <2>3, <2>5 DEF RowsMove
  <1>5. CASE q \in G
    <2>1. RowsOf(q) = {WholeGroup, q} BY <1>5 DEF RowsOf
    <2>2. b = [a EXCEPT ![q] = [used |-> V, reserved |-> H]] BY <1>5 DEF Sync
    <2>3. G' = G BY <1>3, <2>2 DEF Grouped
    <2>4. b[q].used = V /\ b[q].reserved = H /\ \A p \in G : p # q => b[p] = a[p]
      BY <1>3, <1>5, <2>2
    <2>5. H \in Amounts /\ \A d \in Dims : H[d] = F[d] - V[d]
      <3>1. H = [d \in Dims |-> H[d]] /\ \A d \in Dims : H[d] = F[d] - V[d] BY SubtractAmounts
      <3>2. \A d \in Dims : H[d] \in Nat BY <1>2, <3>1 DEF Amounts
      <3> HIDE DEF H
      <3> QED BY <3>1, <3>2 DEF Amounts
    <2>6. b \in [G -> BookRecords]
      <3>1. [used |-> V, reserved |-> H] \in BookRecords BY <1>2, <2>5 DEF BookRecords
      <3> QED BY <1>3, <2>2, <3>1
    <2> DEFINE moved(k) == [rows[k] EXCEPT !.used = Add(rows[k].used, Subtract(V, a[q].used)),
                                           !.reserved = Add(rows[k].reserved, Subtract(H, a[q].reserved))]
    <2>7. rows' = [k \in DOMAIN rows |-> IF k \notin RowsOf(q) THEN rows[k] ELSE moved(k)]
      BY DEF Sync
    <2>8. rows' = [k \in G \cup {WholeGroup} |-> IF k \notin {WholeGroup, q} THEN rows[k] ELSE moved(k)]
      BY <1>1, <2>1, <2>7
    <2>9. \A k \in G : k # q => rows'[k] = rows[k]
      <3> HIDE DEF moved
      <3> QED BY <1>1, <2>8
    <2>10. \A k \in {WholeGroup, q} : rows'[k] = moved(k)
      <3> HIDE DEF moved
      <3> QED BY <1>1, <1>5, <2>8
    <2>11. a[q].used = U /\ \A d \in Dims : a[q].reserved[d] = E[d] - U[d] BY <1>5 DEF Books
    <2>12. ASSUME NEW k \in {WholeGroup, q}
           PROVE  /\ rows'[k].limits = rows[k].limits
                  /\ rows'[k].used = Add(rows[k].used, Subtract(V, a[q].used))
                  /\ rows'[k].reserved = Add(rows[k].reserved, Subtract(H, a[q].reserved))
                  /\ rows'[k].used \in Amounts /\ rows'[k].reserved \in Amounts => rows'[k] \in RowRecords
      <3>1. rows[k] \in RowRecords BY <1>3, <1>5, <2>12
      <3>2. rows'[k] = moved(k) BY <2>10
      <3> DEFINE f == Add(rows[k].used, Subtract(V, a[q].used))
                 g == Add(rows[k].reserved, Subtract(H, a[q].reserved))
      <3>3. rows'[k] = [rows[k] EXCEPT !.used = f, !.reserved = g] BY <3>2
      <3> HIDE DEF f, g, moved
      <3>4. /\ rows'[k].limits = rows[k].limits /\ rows'[k].used = f /\ rows'[k].reserved = g
            /\ f \in Amounts /\ g \in Amounts => rows'[k] \in RowRecords
        BY <3>1, <3>3, MovedRow
      <3> QED BY <3>4 DEF f, g
    <2>13. ASSUME NEW k \in {WholeGroup, q}, NEW d \in Dims
           PROVE  /\ rows'[k].used[d] = rows[k].used[d] + (V[d] - U[d])
                  /\ rows'[k].reserved[d] = rows[k].reserved[d] + (H[d] - (E[d] - U[d]))
      <3> DEFINE au == a[q].used
                 ah == a[q].reserved
                 f == rows[k].used
                 g == rows[k].reserved
      <3>1. /\ rows'[k].used = Add(f, Subtract(V, au)) /\ rows'[k].reserved = Add(g, Subtract(H, ah))
            /\ au = U /\ ah[d] = E[d] - U[d]
        BY <2>11, <2>12
      <3> HIDE DEF au, ah, f, g, V, H, U, E
      <3>2. Add(f, Subtract(V, au))[d] = f[d] + (V[d] - au[d]) BY DEF Add, Subtract
      <3>3. Add(g, Subtract(H, ah))[d] = g[d] + (H[d] - ah[d]) BY DEF Add, Subtract
      <3> QED BY <3>1, <3>2, <3>3 DEF f, g
    <2>14. ASSUME NEW d \in Dims
           PROVE  /\ U[d] \in Nat /\ V[d] \in Nat /\ E[d] \in Nat /\ F[d] \in Nat /\ H[d] = F[d] - V[d]
                  /\ \A k \in {WholeGroup, q} : rows[k].used[d] \in Nat /\ rows[k].reserved[d] \in Nat
      <3>1. /\ U[d] \in Nat /\ V[d] \in Nat /\ E[d] \in Nat /\ F[d] \in Nat /\ H[d] = F[d] - V[d]
        <4> HIDE DEF U, V, E, F, H
        <4> QED BY <1>2, <2>5 DEF Amounts
      <3>2. ASSUME NEW k \in {WholeGroup, q} PROVE rows[k].used[d] \in Nat /\ rows[k].reserved[d] \in Nat
        <4> DEFINE f == rows[k].used
                   g == rows[k].reserved
        <4>1. f \in Amounts /\ g \in Amounts BY <1>5, <3>2, RowFact
        <4> HIDE DEF f, g
        <4>2. f[d] \in Nat /\ g[d] \in Nat BY <4>1 DEF Amounts
        <4> QED BY <4>2 DEF f, g
      <3> QED BY <3>1, <3>2
    <2> HIDE DEF moved, U, V, E, F, H
    <2>15. ASSUME NEW d \in Dims
           PROVE  rows'[q].used[d] = V[d] /\ rows'[q].reserved[d] = H[d]
      <3>1. rows[q].used[d] = U[d] /\ rows[q].reserved[d] = E[d] - U[d]
        BY <1>5, <2>11 DEF Books
      <3>2. /\ rows'[q].used[d] = rows[q].used[d] + (V[d] - U[d])
            /\ rows'[q].reserved[d] = rows[q].reserved[d] + (H[d] - (E[d] - U[d]))
        BY <2>13
      <3>3. rows'[q].used[d] = U[d] + (V[d] - U[d]) BY <3>1, <3>2, Zenon
      <3>4. rows'[q].reserved[d] = (E[d] - U[d]) + ((F[d] - V[d]) - (E[d] - U[d]))
        BY <2>14, <3>1, <3>2, Zenon
      <3> DEFINE ud == U[d]
                 vd == V[d]
                 ed == E[d]
                 hd == F[d]
      <3>5. /\ ud \in Nat /\ vd \in Nat /\ ed \in Nat /\ hd \in Nat /\ H[d] = hd - vd BY <2>14
      <3> HIDE DEF ud, vd, ed, hd
      <3>6. ud + (vd - ud) = vd /\ (ed - ud) + ((hd - vd) - (ed - ud)) = hd - vd BY <3>5
      <3>7. rows'[q].used[d] = vd BY <3>3, <3>6, Zenon DEF ud, vd
      <3>8. rows'[q].reserved[d] = hd - vd BY <3>4, <3>6, Zenon DEF ud, vd, ed, hd
      <3> QED BY <3>5, <3>7, <3>8, Zenon DEF vd
    <2>16. ASSUME NEW d \in Dims
           PROVE  /\ rows'[WholeGroup].used[d] = Sigma(UsedColumn(b, d), G)
                  /\ rows'[WholeGroup].reserved[d] = Sigma(HeldColumn(b, d), G)
                  /\ Sigma(UsedColumn(b, d), G) \in Nat /\ Sigma(HeldColumn(b, d), G) \in Nat
      <3> DEFINE f == UsedColumn(a, d)
                 g == UsedColumn(b, d)
                 h == HeldColumn(a, d)
                 i == HeldColumn(b, d)
      <3>1. Natural(f, G) /\ Natural(g, G) /\ Natural(h, G) /\ Natural(i, G)
        BY <1>1, <1>3, <2>6, ColumnFact
      <3>2. DOMAIN a = G /\ DOMAIN b = G BY <1>3, <2>6
      <3>3. /\ f[q] = U[d] /\ g[q] = V[d] /\ h[q] = E[d] - U[d] /\ i[q] = H[d]
            /\ \A p \in G : p # q => g[p] = f[p] /\ i[p] = h[p]
        BY <1>5, <2>4, <2>11, <3>2 DEF UsedColumn, HeldColumn
      <3> HIDE DEF f, g, h, i
      <3>4. g[q] \in Nat /\ i[q] \in Nat BY <1>5, <3>1 DEF Natural
      <3>5. Sigma(g, G) + f[q] = Sigma(f, G) + g[q] BY <1>5, <3>1, <3>3, <3>4, SigmaChange
      <3>6. Sigma(i, G) + h[q] = Sigma(h, G) + i[q] BY <1>5, <3>1, <3>3, <3>4, SigmaChange
      <3>7. /\ Sigma(f, G) \in Nat /\ Sigma(g, G) \in Nat /\ Sigma(h, G) \in Nat /\ Sigma(i, G) \in Nat
        BY <3>1, SigmaNat
      <3>8. rows[WholeGroup].used[d] = Sigma(f, G) /\ rows[WholeGroup].reserved[d] = Sigma(h, G)
        BY DEF Books, f, h
      <3> DEFINE x == rows'[WholeGroup].used[d]
                 y == rows'[WholeGroup].reserved[d]
                 sf == Sigma(f, G)
                 sg == Sigma(g, G)
                 sh == Sigma(h, G)
                 si == Sigma(i, G)
      <3>9. x = sf + (V[d] - U[d]) /\ y = sh + (H[d] - (E[d] - U[d])) BY <2>13, <3>8
      <3>10. /\ U[d] \in Nat /\ V[d] \in Nat /\ E[d] \in Nat /\ F[d] \in Nat /\ H[d] = F[d] - V[d]
        BY <2>14
      <3>11. /\ sg + U[d] = sf + V[d] /\ si + (E[d] - U[d]) = sh + H[d]
             /\ sf \in Nat /\ sg \in Nat /\ sh \in Nat /\ si \in Nat
        BY <3>3, <3>5, <3>6, <3>7
      <3> HIDE DEF x, y, sf, sg, sh, si
      <3>12. x = sg /\ y = si BY <3>9, <3>10, <3>11
      <3> QED BY <3>7, <3>12 DEF g, i, x, y, sg, si
    <2>17. \A k \in {WholeGroup, q} : rows'[k].used \in Amounts /\ rows'[k].reserved \in Amounts
      <3> SUFFICES ASSUME NEW k \in {WholeGroup, q}
                   PROVE  rows'[k].used \in Amounts /\ rows'[k].reserved \in Amounts
        OBVIOUS
      <3>1. \A d \in Dims : rows'[k].used[d] \in Nat /\ rows'[k].reserved[d] \in Nat
        BY <2>5, <2>14, <2>15, <2>16 DEF Amounts
      <3> DEFINE f == rows[k].used
                 g == rows[k].reserved
                 i == Subtract(V, a[q].used)
                 j == Subtract(H, a[q].reserved)
      <3>2. rows'[k].used = Add(f, i) /\ rows'[k].reserved = Add(g, j) BY <2>12
      <3> HIDE DEF f, g, i, j
      <3>3. Add(f, i) = [d \in Dims |-> Add(f, i)[d]] /\ Add(g, j) = [d \in Dims |-> Add(g, j)[d]]
        BY AddAmounts
      <3>4. \A d \in Dims : Add(f, i)[d] \in Nat /\ Add(g, j)[d] \in Nat BY <3>1, <3>2
      <3>5. Add(f, i) \in Amounts /\ Add(g, j) \in Amounts BY <3>3, <3>4 DEF Amounts
      <3> QED BY <3>2, <3>5
    <2>18. rows' \in [G \cup {WholeGroup} -> RowRecords]
      <3>1. \A k \in {WholeGroup, q} : rows'[k] \in RowRecords BY <2>12, <2>17
      <3>2. \A k \in G \cup {WholeGroup} : rows'[k] \in RowRecords BY <1>3, <2>9, <3>1
      <3>3. rows' = [k \in G \cup {WholeGroup} |-> rows'[k]] BY <2>8
      <3> QED BY <3>2, <3>3
    <2>19. RowTypes' BY <2>3, <2>6, <2>18 DEF RowTypes
    <2>20. rows'[q].used = V /\ rows'[q].reserved = H
      <3>1. V = [d \in Dims |-> V[d]] BY <1>2, AmountIs DEF V
      <3>2. H = [d \in Dims |-> H[d]] BY <2>5, AmountIs
      <3>3. /\ rows'[q].used = [d \in Dims |-> rows'[q].used[d]]
            /\ rows'[q].reserved = [d \in Dims |-> rows'[q].reserved[d]]
        BY <2>17, AmountIs
      <3> QED BY <2>15, <3>1, <3>2, <3>3, AmountsEqual
    <2>21. Books'
      <3>1. (G \subseteq Requirements)' BY <1>1, <2>3
      <3>2. ASSUME NEW p \in G
            PROVE  /\ accounted'[p].used = Used(p)'
                   /\ \A d \in Dims : accounted'[p].reserved[d] = Exposure(p)'[d] - Used(p)'[d]
                   /\ rows'[p].used = accounted'[p].used /\ rows'[p].reserved = accounted'[p].reserved
        <4>1. CASE p = q BY <2>4, <2>5, <2>20, <4>1 DEF V, F
        <4>2. CASE p # q
          <5>1. Used(p)' = Used(p) /\ Exposure(p)' = Exposure(p) BY <1>1, <4>2
          <5> QED BY <2>4, <2>9, <4>2, <5>1 DEF Books
        <4> QED BY <4>1, <4>2
      <3> QED BY <2>3, <2>16, <3>1, <3>2 DEF Books
    <2>22. RowsMove(q)
      <3>1. \A k \in G \cup {WholeGroup} : rows'[k].limits = rows[k].limits BY <2>9, <2>12
      <3>2. \A k \in G \cup {WholeGroup} : k \notin RowsOf(q) => rows'[k] = rows[k] BY <2>1, <2>9
      <3>3. ASSUME NEW k \in RowsOf(q), NEW d \in Dims
            PROVE  RowExposure(k)'[d] = RowExposure(k)[d] + (F[d] - E[d])
        <4>1. /\ rows[k].used[d] \in Nat /\ rows[k].reserved[d] \in Nat
              /\ U[d] \in Nat /\ V[d] \in Nat /\ E[d] \in Nat /\ F[d] \in Nat /\ H[d] = F[d] - V[d]
          BY <2>1, <2>14
        <4>2. /\ rows'[k].used[d] = rows[k].used[d] + (V[d] - U[d])
              /\ rows'[k].reserved[d] = rows[k].reserved[d] + (H[d] - (E[d] - U[d]))
          BY <2>1, <2>13
        <4>3. /\ RowExposure(k) = Add(rows[k].used, rows[k].reserved)
              /\ RowExposure(k)' = Add(rows'[k].used, rows'[k].reserved)
          BY DEF RowExposure
        <4>4. d \in Dims /\ MovesBy(rows[k], rows'[k], U, V, E, F, H, d)
          BY <4>1, <4>2, Zenon DEF MovesBy
        <4>5. Add(rows'[k].used, rows'[k].reserved)[d] =
                 Add(rows[k].used, rows[k].reserved)[d] + (F[d] - E[d])
          BY <4>4, MovedSum, SMT
        <4> QED BY <4>3, <4>5, Zenon
      <3> QED BY <2>1, <2>3, <2>13, <3>1, <3>2, <3>3 DEF RowsMove, U, V, E, F
    <2> QED BY <2>19, <2>21, <2>22
  <1> QED BY <1>4, <1>5

----------------------------------------------------------------------------
(* Comparing amounts.                                                       *)

LEMMA WithinLess ==
  ASSUME NEW a \in Amounts, NEW b \in Amounts, NEW l \in Amounts, \A d \in Dims : a[d] <= b[d],
         Within(b, l)
  PROVE  Within(a, l)
  <1> SUFFICES ASSUME NEW d \in Dims PROVE a[d] <= l[d] BY DEF Within
  <1>1. a[d] \in Nat /\ b[d] \in Nat /\ l[d] \in Nat BY DEF Amounts
  <1>2. a[d] <= b[d] /\ b[d] <= l[d] BY DEF Within
  <1> QED BY <1>1, <1>2

\* less is spent of a greater limit
LEMMA LimitGrows ==
  ASSUME NEW a \in Amounts, NEW l \in Amounts, NEW m \in Amounts, \A d \in Dims : l[d] <= m[d]
  PROVE  (Within(a, l) => Within(a, m)) /\ (Spent(a, m) => Spent(a, l))
  <1>1. \A d \in Dims : a[d] \in Nat /\ l[d] \in Nat /\ m[d] \in Nat BY DEF Amounts
  <1>2. Within(a, l) => Within(a, m) BY <1>1 DEF Within
  <1>3. Spent(a, m) => Spent(a, l) BY <1>1 DEF Spent, Dims
  <1> QED BY <1>2, <1>3

LEMMA NotSpent ==
  ASSUME NEW a \in Amounts, NEW b \in Amounts, NEW l \in Amounts, \A d \in Dims : a[d] < b[d],
         Within(b, l)
  PROVE  ~Spent(a, l)
  <1>1. \A d \in Dims : a[d] \in Nat /\ b[d] \in Nat /\ l[d] \in Nat BY DEF Amounts
  <1>2. \A d \in Dims : a[d] < l[d] BY <1>1 DEF Within
  <1> QED BY <1>1, <1>2 DEF Spent, Dims

LEMMA NotReached ==
  ASSUME NEW a \in Amounts, NEW b \in Amounts, NEW l \in Amounts, \A d \in Dims : a[d] <= b[d],
         ~Reached(b, l)
  PROVE  ~Spent(a, l) /\ Within(b, l) /\ \A d \in Dims : a[d] < l[d]
  <1>1. \A d \in Dims : a[d] \in Nat /\ b[d] \in Nat /\ l[d] \in Nat BY DEF Amounts
  <1>2. \A d \in Dims : b[d] < l[d] BY <1>1 DEF Reached
  <1>3. \A d \in Dims : a[d] < l[d] BY <1>1, <1>2
  <1>4. Within(b, l) BY <1>1, <1>2 DEF Within
  <1> QED BY <1>1, <1>3, <1>4 DEF Spent, Dims

LEMMA WithinAdd ==
  ASSUME NEW a \in Amounts, NEW b \in Amounts, NEW l \in Amounts, Within(Add(a, b), l)
  PROVE  Within(a, l)
  <1> SUFFICES ASSUME NEW d \in Dims PROVE a[d] <= l[d] BY DEF Within
  <1>1. a[d] \in Nat /\ b[d] \in Nat /\ l[d] \in Nat BY DEF Amounts
  <1>2. a[d] + b[d] <= l[d] BY AddAmounts DEF Within
  <1> QED BY <1>1, <1>2

----------------------------------------------------------------------------
(* Steps that charge nothing.                                               *)

LEMMA SameAccounts ==
  ASSUME CoreTypes, called' = called, usage' = usage, NEW q, HeldFor(repair', q) = HeldFor(repair, q)
  PROVE  Used(q)' = Used(q) /\ Exposure(q)' = Exposure(q) /\ CallsOf(q)' = CallsOf(q)
  <1>1. /\ TurnsOf(called', q) = TurnsOf(called, q) /\ UsedOf(called', usage', q) = UsedOf(called, usage, q)
        /\ ExposureOf(called', usage', repair', q) = ExposureOf(called, usage, repair, q)
    BY AccountSame
  <1> QED BY <1>1, AccountIs

LEMMA SameRows ==
  ASSUME rows' = rows, accounted' = accounted
  PROVE  /\ Grouped' = Grouped /\ \A q : RowsOf(q)' = RowsOf(q)
         /\ \A k : RowExposure(k)' = RowExposure(k)
  BY DEF Grouped, RowsOf, RowExposure

LEMMA QuietBudget ==
  ASSUME BudgetInv, CoreTypes', Begun', UNCHANGED <<limits, version, calls, group>>,
         \A q \in Requirements : HeldFor(repair', q) = HeldFor(repair, q),
         \A q \in Requirements : exhausted[q] => exhausted'[q],
         \A q \in Requirements : Overdrawn(q) => \A r \in RunsOf(q) : agent'[r] # "active"
  PROVE  BudgetInv'
  <1>1. /\ limits' = limits /\ version' = version /\ called' = called /\ usage' = usage
        /\ archive' = archive /\ rows' = rows /\ accounted' = accounted
    BY DEF calls, group
  <1>2. CoreTypes /\ RowTypes BY TypesAre DEF BudgetInv
  <1>3. Grouped \subseteq Requirements BY DEF BudgetInv, Books
  <1>4. \A q \in Requirements : Used(q)' = Used(q) /\ Exposure(q)' = Exposure(q) /\ CallsOf(q)' = CallsOf(q)
    BY <1>1, <1>2, SameAccounts
  <1>5. RowTypes' /\ Books' /\ Grouped' = Grouped
    <2>1. \A q \in Grouped : Used(q)' = Used(q) /\ Exposure(q)' = Exposure(q) BY <1>3, <1>4
    <2> QED BY <1>1, <2>1, BookedKept DEF BudgetInv
  <1>6. /\ \A q : RowsOf(q)' = RowsOf(q)
        /\ \A k : RowExposure(k)' = RowExposure(k)
    BY <1>1, SameRows
  <1>7. \A q \in Requirements : Overdrawn(q)' => Overdrawn(q) BY <1>1, <1>4, <1>6 DEF Overdrawn
  <1>8. BudgetTypes' BY <1>5, TypesAre
  <1>9. Positive' BY <1>1 DEF BudgetInv, Positive
  <1>10. History' BY <1>1 DEF BudgetInv, History
  <1>11. GroupLimits' BY <1>1, <1>5 DEF BudgetInv, GroupLimits
  <1>12. Frozen'
    <2>1. Open' => Open BY <1>3, <1>5 DEF Open
    <2> QED BY <1>1, <1>5, <1>6, <2>1 DEF BudgetInv, Frozen
  <1>13. OverdrawnStops' BY <1>7 DEF OverdrawnStops
  <1>14. ReservationsHold'
    <2>1. \A q \in Requirements : WithinReservation(q)' => WithinReservation(q)
      BY <1>1, <1>4 DEF WithinReservation, SettledOnce
    <2> QED BY <1>1, <1>3, <1>4, <1>5, <1>6, <2>1 DEF BudgetInv, ReservationsHold
  <1> QED BY <1>5, <1>8, <1>9, <1>10, <1>11, <1>12, <1>13, <1>14 DEF BudgetInv

LEMMA HeldSame ==
  ASSUME NEW p, NEW t, NEW q,
         \A r \in RepairRuns : t[r] = p[r] \/ (p[r] \in {"reserved", "started"} /\ t[r] \in {"reserved", "started"})
                          \/ (p[r] \notin {"reserved", "started"} /\ t[r] \notin {"reserved", "started"})
  PROVE  HeldFor(t, q) = HeldFor(p, q)
  BY DEF HeldFor

LEMMA BegunKept ==
  ASSUME BudgetInv, called' = called,
         \A r \in RunIds : agent[r] # "none" => agent'[r] # "none",
         \A r \in RepairRuns : repair'[r] # "none" => repair[r] # "none"
  PROVE  Begun'
  <1>1. \A q : RunsOf(q) \subseteq RunIds BY DEF RunsOf
  <1> QED BY <1>1 DEF BudgetInv, Begun, BegunAt

LEMMA StopRunKeeps ==
  ASSUME BudgetInv, NEW r \in RunIds, StopRun(r) \/ RunEnds(r) PROVE BudgetInv'
  <1>1. CoreTypes BY TypesAre DEF BudgetInv
  <1>2. PICK s \in {"stopping", "quiescent"} : agent' = [agent EXCEPT ![r] = s] /\ agent[r] # "none"
    BY DEF StopRun, RunEnds
  <1>3. UNCHANGED <<account, calls, repair, since, group>> BY DEF StopRun, RunEnds
  <1>4. CoreTypes' BY <1>1, <1>2, <1>3 DEF CoreTypes, account, calls, group
  <1>5. \A x \in RunIds : (agent[x] # "none" => agent'[x] # "none") /\ (agent'[x] = "active" => agent[x] = "active")
    BY <1>1, <1>2 DEF CoreTypes
  <1>6. Begun' BY <1>3, <1>5, BegunKept DEF calls
  <1>7. \A q \in Requirements : Overdrawn(q) => \A x \in RunsOf(q) : agent'[x] # "active"
    BY <1>5 DEF BudgetInv, OverdrawnStops, RunsOf
  <1> QED BY <1>3, <1>4, <1>6, <1>7, QuietBudget, HeldSame DEF account, calls, group

LEMMA RefuseKeeps ==
  ASSUME BudgetInv, NEW r \in RunIds, Refuse(r) PROVE BudgetInv'
  <1> DEFINE q == OwnerOf[r]
  <1>1. CoreTypes BY TypesAre DEF BudgetInv
  <1>2. /\ exhausted' = [p \in Requirements |-> exhausted[p] \/ p \in {q}]
        /\ agent' = [x \in RunIds |-> IF OwnerOf[x] \in {q} /\ agent[x] = "active" THEN "stopping" ELSE agent[x]]
    BY DEF Refuse, Stop
  <1>3. UNCHANGED <<limits, version, calls, repair, since, group>> BY DEF Refuse
  <1>4. \A x \in RunIds : /\ agent[x] # "none" => agent'[x] # "none"
                          /\ agent'[x] = "active" => agent[x] = "active"
                          /\ agent'[x] \in {"none", "active", "stopping", "quiescent"}
    BY <1>1, <1>2 DEF CoreTypes
  <1>5. agent' \in [RunIds -> {"none", "active", "stopping", "quiescent"}] BY <1>2, <1>4
  <1>6. exhausted' \in [Requirements -> BOOLEAN] /\ \A p \in Requirements : exhausted[p] => exhausted'[p]
    BY <1>1, <1>2, Zenon DEF CoreTypes
  <1>7. CoreTypes' BY <1>1, <1>3, <1>5, <1>6 DEF CoreTypes, calls, group
  <1>8. Begun' BY <1>3, <1>4, BegunKept DEF calls
  <1>9. \A p \in Requirements : Overdrawn(p) => \A x \in RunsOf(p) : agent'[x] # "active"
    BY <1>4 DEF BudgetInv, OverdrawnStops, RunsOf
  <1> QED BY <1>3, <1>6, <1>7, <1>8, <1>9, QuietBudget, HeldSame DEF calls, group

LEMMA FailureKeeps ==
  ASSUME BudgetInv, NEW r \in RunIds, Observe(r) \/ BlockRepair(r) \/ Recheck(r) PROVE BudgetInv'
  <1>1. CoreTypes BY TypesAre DEF BudgetInv
  <1>2. r \in RepairRuns /\ OwnerOf[r] \in Requirements
    BY ConstantFact DEF Observe, BlockRepair, Recheck, Plannable
  <1>3. PICK outcome \in {"observed", "blocked"} :
           repair' = [repair EXCEPT ![r] = outcome] /\ repair[r] \notin {"reserved", "started"}
    BY <1>1, <1>2 DEF CoreTypes, RepairMaps, RepairStates, Observe, BlockRepair, Recheck, Plannable
  <1>4. UNCHANGED <<account, agent, calls, group>> BY DEF Observe, BlockRepair, Recheck
  <1>5. since' \in [RepairRuns -> 0..(MaxGrants + 1)]
    <2>1. version[OwnerOf[r]] \in 0..(MaxGrants + 1)
      <3>1. version[OwnerOf[r]] \in 1..(MaxGrants + 1) BY <1>1, <1>2 DEF CoreTypes
      <3>2. 1..(MaxGrants + 1) \subseteq 0..(MaxGrants + 1)
        <4>1. MaxGrants \in Nat BY ConstantFact
        <4> QED BY <4>1
      <3> QED BY <3>1, <3>2
    <2>2. since' = since \/ since' = [since EXCEPT ![r] = version[OwnerOf[r]]]
      BY DEF Observe, BlockRepair, Recheck
    <2> QED BY <1>1, <2>1, <2>2 DEF CoreTypes
  <1>6. repair' \in RepairMaps BY <1>1, <1>3 DEF CoreTypes, RepairMaps, RepairStates
  <1>7. CoreTypes' BY <1>1, <1>4, <1>5, <1>6 DEF CoreTypes, account, calls, group
  <1>8. \A x \in RepairRuns : x # r => repair'[x] = repair[x]
    BY <1>1, <1>3 DEF CoreTypes, RepairMaps
  <1>9. repair'[r] \in {"observed", "blocked"} BY <1>1, <1>2, <1>3 DEF CoreTypes, RepairMaps
  <1>10. \A q \in Requirements : HeldFor(repair', q) = HeldFor(repair, q)
    <2>1. \A x \in RepairRuns : repair'[x] = repair[x]
             \/ (repair[x] \notin {"reserved", "started"} /\ repair'[x] \notin {"reserved", "started"})
      BY <1>3, <1>8, <1>9
    <2> QED BY <2>1, HeldSame
  <1>11. Begun'
    <2>1. agent' = agent /\ called' = called BY <1>4 DEF calls
    <2>2. Begun BY DEF BudgetInv
    <2>3. \A x \in RepairRuns : repair'[x] # "none" => \E s \in RunsOf(OwnerOf[x]) : agent[s] # "none"
      <3> SUFFICES ASSUME NEW x \in RepairRuns, repair'[x] # "none"
                   PROVE  \E s \in RunsOf(OwnerOf[x]) : agent[s] # "none"
        OBVIOUS
      <3>1. CASE x # r BY <1>8, <2>2, <3>1 DEF Begun, BegunAt
      <3>2. CASE x = r /\ Observe(r)
        <4>1. \E s \in RunsOf(OwnerOf[r]) : agent[s] = "quiescent" BY <3>2 DEF Observe
        <4> QED BY <3>2, <4>1
      <3>3. CASE x = r /\ ~Observe(r)
        <4>1. repair[r] # "none" BY <3>3 DEF BlockRepair, Recheck, Plannable
        <4> QED BY <2>2, <3>3, <4>1 DEF Begun, BegunAt
      <3> QED BY <3>1, <3>2, <3>3
    <2> QED BY <2>1, <2>2, <2>3 DEF Begun, BegunAt
  <1>12. \A q \in Requirements : Overdrawn(q) => \A x \in RunsOf(q) : agent'[x] # "active"
    BY <1>4 DEF BudgetInv, OverdrawnStops
  <1> QED BY <1>4, <1>7, <1>10, <1>11, <1>12, QuietBudget DEF account, calls, group

----------------------------------------------------------------------------
(* A Run goes on only when no account it draws from is overdrawn.           *)

LEMMA RowsOfFact ==
  ASSUME BudgetTypes, Books, NEW q \in Requirements
  PROVE  /\ q \in Grouped => RowsOf(q) = {WholeGroup, q}
         /\ q \notin Grouped => RowsOf(q) = {}
         /\ RowsOf(q) \subseteq Grouped \cup {WholeGroup}
         /\ Used(q) \in Amounts /\ Exposure(q) \in Amounts /\ limits[q] \in Amounts
         /\ \A d \in Dims : Used(q)[d] <= Exposure(q)[d]
  <1>1. CoreTypes BY TypesAre
  <1>2. limits[q] \in Amounts BY <1>1 DEF CoreTypes
  <1> QED BY <1>1, <1>2, AccountTypes DEF RowsOf

\* a row that is not reached has room, and one that fits and holds a reservation is
\* not spent
LEMMA RowRoom ==
  ASSUME BudgetTypes, Books, NEW k \in Grouped \cup {WholeGroup},
         \/ ~Reached(RowExposure(k), rows[k].limits)
         \/ /\ Within(RowExposure(k), rows[k].limits)
            /\ \A d \in Dims : rows[k].used[d] < RowExposure(k)[d]
  PROVE  ~Spent(rows[k].used, rows[k].limits) /\ Within(RowExposure(k), rows[k].limits)
  <1> DEFINE a == rows[k].used
             b == RowExposure(k)
             h == rows[k].reserved
             l == rows[k].limits
  <1>1. a \in Amounts /\ b \in Amounts /\ h \in Amounts /\ l \in Amounts BY RowFact
  <1>2. \A d \in Dims : b[d] = a[d] + h[d] BY RowFact
  <1>3. ~Reached(b, l) \/ (Within(b, l) /\ \A d \in Dims : a[d] < b[d]) OBVIOUS
  <1> HIDE DEF a, b, h, l
  <1>4. \A d \in Dims : a[d] <= b[d]
    <2> SUFFICES ASSUME NEW d \in Dims PROVE a[d] <= b[d] OBVIOUS
    <2>1. a[d] \in Nat /\ h[d] \in Nat BY <1>1 DEF Amounts
    <2> QED BY <1>2, <2>1
  <1>5. ~Spent(a, l) /\ Within(b, l) BY <1>1, <1>3, <1>4, NotSpent, NotReached
  <1> QED BY <1>5 DEF a, b, l

LEMMA GoesOn ==
  ASSUME BudgetTypes, Books, NEW q \in Requirements,
         ~Spent(Used(q), limits[q]), Within(Exposure(q), limits[q]),
         \A k \in RowsOf(q) : ~Spent(rows[k].used, rows[k].limits) /\ Within(RowExposure(k), rows[k].limits)
  PROVE  ~Overdrawn(q)
  BY DEF Overdrawn

\* an account that holds the reservation of a repair is not spent while it fits
LEMMA HeldGoesOn ==
  ASSUME BudgetTypes, Books, NEW q \in Requirements, HeldFor(repair, q) # {},
         Within(Exposure(q), limits[q]), PrepaidFits(q)
  PROVE  ~Overdrawn(q)
  <1>1. CoreTypes BY TypesAre
  <1>2. \A d \in Dims : Used(q)[d] + Reservation[d] <= Exposure(q)[d] BY <1>1, AccountTypes
  <1>3. Used(q) \in Amounts /\ Exposure(q) \in Amounts /\ limits[q] \in Amounts BY RowsOfFact
  <1>4. ASSUME NEW d \in Dims
        PROVE  Used(q)[d] \in Nat /\ Exposure(q)[d] \in Nat /\ Reservation[d] \in Nat /\ Reservation[d] > 0
    BY <1>3, ReservationFact DEF Amounts
  <1>5. \A d \in Dims : Used(q)[d] < Exposure(q)[d] BY <1>2, <1>4
  <1>6. ~Spent(Used(q), limits[q]) BY <1>3, <1>5, NotSpent
  <1>7. ASSUME NEW k \in RowsOf(q), NEW d \in Dims PROVE rows[k].used[d] < RowExposure(k)[d]
    <2>1. q \in Grouped /\ k \in {WholeGroup, q} BY <1>7, RowsOfFact
    <2>2. CASE k = q BY <1>5, <2>1, <2>2, RowFact
    <2>3. CASE k = WholeGroup
      <3> DEFINE f == HeldColumn(accounted, d)
                 G == Grouped
                 x == rows[WholeGroup].used[d]
                 y == rows[WholeGroup].reserved[d]
      <3>1. accounted \in [G -> BookRecords] /\ G \subseteq Requirements BY TypesAre DEF RowTypes, Books
      <3>2. Natural(f, G) BY <3>1, ColumnFact
      <3>3. y = Sigma(f, G) BY DEF Books
      <3>4. f[q] = Exposure(q)[d] - Used(q)[d] BY <2>1, <3>1 DEF Books, HeldColumn
      <3>5. x \in Nat /\ RowExposure(WholeGroup)[d] = x + y BY RowFact DEF Amounts
      <3> HIDE DEF f, x, y
      <3>6. f[q] <= Sigma(f, G) /\ Sigma(f, G) \in Nat BY <2>1, <3>2, SigmaMember, SigmaNat
      <3>7. f[q] \in Nat /\ f[q] > 0 BY <1>4, <1>5, <3>4
      <3>8. y \in Nat /\ y > 0 BY <3>3, <3>6, <3>7
      <3>9. x < x + y BY <3>5, <3>8
      <3> QED BY <2>3, <3>5, <3>9, Zenon DEF x
    <2> QED BY <2>1, <2>2, <2>3
  <1>8. \A k \in RowsOf(q) : ~Spent(rows[k].used, rows[k].limits) /\ Within(RowExposure(k), rows[k].limits)
    <2> SUFFICES ASSUME NEW k \in RowsOf(q)
                 PROVE  ~Spent(rows[k].used, rows[k].limits) /\ Within(RowExposure(k), rows[k].limits)
      OBVIOUS
    <2>1. k \in Grouped \cup {WholeGroup} BY RowsOfFact
    <2>2. Within(RowExposure(k), rows[k].limits) BY DEF PrepaidFits
    <2> QED BY <1>7, <2>1, <2>2, RowRoom
  <1> QED BY <1>6, <1>8, GoesOn

\* the row of the group is not spent while one of its items, all of which fit, has
\* used less than its limit
LEMMA GroupNotSpent ==
  ASSUME BudgetTypes, Books, GroupLimits, Frozen, NEW q \in Grouped, ~exhausted[q],
         \A d \in Dims : Used(q)[d] < limits[q][d]
  PROVE  ~Spent(rows[WholeGroup].used, rows[WholeGroup].limits)
  <1> DEFINE G == Grouped
  <1>1. /\ \A k \in G \cup {WholeGroup} : Within(RowExposure(k), rows[k].limits)
        /\ Spent(rows[WholeGroup].used, rows[WholeGroup].limits) =>
              \A d \in Dims : rows[WholeGroup].limits[d] = Sigma(LimitColumn(limits, G, d), G)
    BY DEF Frozen, Open
  <1> SUFFICES ASSUME Spent(rows[WholeGroup].used, rows[WholeGroup].limits) PROVE FALSE OBVIOUS
  <1>2. G \subseteq Requirements /\ accounted \in [G -> BookRecords] /\ IsFiniteSet(G)
    BY TypesAre, RowFact DEF RowTypes, Books
  <1>3. limits \in [Requirements -> Amounts] BY TypesAre DEF CoreTypes
  <1>4. ASSUME NEW d \in Dims PROVE rows[WholeGroup].used[d] < rows[WholeGroup].limits[d]
    <2> DEFINE f == UsedColumn(accounted, d)
               g == LimitColumn(limits, G, d)
    <2>1. Natural(f, G) BY <1>2, ColumnFact
    <2>2. \A p \in G : g[p] = limits[p][d] /\ f[p] = Used(p)[d]
      BY <1>2 DEF LimitColumn, UsedColumn, Books
    <2>3. \A p \in G : limits[p] \in Amounts /\ Used(p) \in Amounts /\ Exposure(p) \in Amounts
                       /\ Used(p)[d] <= Exposure(p)[d] /\ Exposure(p)[d] <= limits[p][d]
      <3> SUFFICES ASSUME NEW p \in G
                   PROVE  /\ limits[p] \in Amounts /\ Used(p) \in Amounts /\ Exposure(p) \in Amounts
                          /\ Used(p)[d] <= Exposure(p)[d] /\ Exposure(p)[d] <= limits[p][d]
        OBVIOUS
      <3>1. Within(RowExposure(p), rows[p].limits) BY <1>1
      <3>2. RowExposure(p) = Exposure(p) /\ rows[p].limits = limits[p] BY RowFact DEF GroupLimits
      <3>3. Exposure(p)[d] <= limits[p][d] BY <3>1, <3>2 DEF Within
      <3> QED BY <1>2, <3>3, RowsOfFact
    <2>4. \A p \in G : limits[p][d] \in Nat /\ Used(p)[d] \in Nat /\ Exposure(p)[d] \in Nat
      BY <2>3 DEF Amounts
    <2> HIDE DEF f, g
    <2>5. Natural(g, G) BY <1>2, <2>2, <2>4 DEF Natural
    <2>6. \A p \in G : f[p] <= g[p]
      <3> SUFFICES ASSUME NEW p \in G PROVE f[p] <= g[p] OBVIOUS
      <3>1. f[p] = Used(p)[d] /\ g[p] = limits[p][d] BY <2>2
      <3>2. Used(p)[d] <= Exposure(p)[d] /\ Exposure(p)[d] <= limits[p][d] BY <2>3
      <3>3. limits[p][d] \in Nat /\ Used(p)[d] \in Nat /\ Exposure(p)[d] \in Nat BY <2>4
      <3> QED BY <3>1, <3>2, <3>3
    <2>7. f[q] < g[q] /\ f[q] \in Nat /\ g[q] \in Nat BY <2>2, <2>4
    <2>8. /\ Sigma(f, G) = f[q] + Sigma(f, G \ {q}) /\ Sigma(f, G \ {q}) \in Nat
          /\ Sigma(g, G) = g[q] + Sigma(g, G \ {q}) /\ Sigma(g, G \ {q}) \in Nat
      <3>1. Sigma(f, G) = f[q] + Sigma(f, G \ {q}) /\ Sigma(f, G \ {q}) \in Nat
        BY <2>1, SigmaTake
      <3>2. Sigma(g, G) = g[q] + Sigma(g, G \ {q}) /\ Sigma(g, G \ {q}) \in Nat
        BY <2>5, SigmaTake
      <3> QED BY <3>1, <3>2
    <2>9. Sigma(f, G \ {q}) <= Sigma(g, G \ {q})
      <3>1. Natural(f, G \ {q}) /\ Natural(g, G \ {q}) BY <2>1, <2>5, NaturalPart
      <3>2. \A p \in G \ {q} : f[p] <= g[p] BY <2>6
      <3> QED BY <3>1, <3>2, SigmaMono
    <2>10. Sigma(f, G) < Sigma(g, G) BY <2>7, <2>8, <2>9
    <2>11. rows[WholeGroup].used[d] = Sigma(f, G) BY DEF Books, f
    <2>12. rows[WholeGroup].limits[d] = Sigma(g, G) BY <1>1 DEF g
    <2> QED BY <2>10, <2>11, <2>12
  <1>5. rows[WholeGroup].used \in Amounts /\ rows[WholeGroup].limits \in Amounts BY RowFact
  <1>6. \A d \in Dims : rows[WholeGroup].used[d] \in Nat /\ rows[WholeGroup].limits[d] \in Nat BY <1>5 DEF Amounts
  <1> DEFINE a == rows[WholeGroup].used
             l == rows[WholeGroup].limits
  <1>7. Spent(a, l) /\ \A d \in Dims : a[d] < l[d] /\ a[d] \in Nat /\ l[d] \in Nat BY <1>4, <1>6
  <1> HIDE DEF a, l
  <1> QED BY <1>7 DEF Spent, Dims

\* the claim of a Run
LEMMA Fresh ==
  ASSUME BudgetInv, NEW q \in Requirements, \A s \in RunsOf(q) : agent[s] = "none"
  PROVE  \A d \in Dims : Used(q)[d] = 0 /\ Exposure(q)[d] = 0
  <1>1. CoreTypes /\ Begun BY TypesAre DEF BudgetInv
  <1>2. RunsOf(q) \subseteq RunIds BY DEF RunsOf
  <1>3. TurnsOf(called, q) = {}
    <2>1. \A r \in RunsOf(q) : called[r] \in Nat /\ ~(called[r] > 0)
      BY <1>1, <1>2, TurnsFact DEF Begun, BegunAt, CoreTypes, Counts
    <2>2. \A r \in RunsOf(q) : 1..called[r] = {} BY <2>1
    <2> QED BY <2>2 DEF TurnsOf
  <1>4. HeldFor(repair, q) = {}
    <2>1. \A r \in RunsOf(q) \cap RepairRuns : repair[r] = "none"
      BY <1>1 DEF Begun, BegunAt, RunsOf
    <2> QED BY <2>1 DEF HeldFor
  <1> SUFFICES ASSUME NEW d \in Dims PROVE Used(q)[d] = 0 /\ Exposure(q)[d] = 0 OBVIOUS
  <1>5. called \in Counts /\ usage \in UsageMaps BY <1>1 DEF CoreTypes
  <1>6. /\ UsedOf(called, usage, q)[d] = Sigma(Costs(usage, d), {})
        /\ ExposureOf(called, usage, repair, q)[d] = Sigma(Claims(usage, d), {}) + Reservation[d] * Cardinality({})
    <2>1. UsedOf(called, usage, q)[d] = Sigma(Costs(usage, d), TurnsOf(called, q)) BY <1>5, UsedSum
    <2>2. ExposureOf(called, usage, repair, q)[d] =
             Sigma(Claims(usage, d), TurnsOf(called, q)) + Reservation[d] * Cardinality(HeldFor(repair, q))
      BY <1>5, AccountSums
    <2> QED BY <1>3, <1>4, <2>1, <2>2, Zenon
  <1>7. Reservation[d] * Cardinality({}) = 0
    <2>1. Cardinality({}) = 0 BY FS_EmptySet
    <2>2. Reservation[d] \in Nat BY ReservationFact
    <2> QED BY <2>1, <2>2
  <1>8. Sigma(Costs(usage, d), {}) = 0 /\ Sigma(Claims(usage, d), {}) = 0 BY SigmaEmpty
  <1> QED BY <1>6, <1>7, <1>8, AccountIs

LEMMA ZeroAdd ==
  ASSUME NEW a \in Amounts PROVE Add(a, Zero) = a /\ Zero \in Amounts
  <1>1. Zero \in Amounts /\ \A d \in Dims : Zero[d] = 0 BY DEF Zero, Amounts
  <1>2. \A d \in Dims : a[d] \in Nat BY DEF Amounts
  <1>3. \A d \in Dims : Add(a, Zero)[d] = a[d] BY <1>1, <1>2, AddAmounts
  <1>4. a = [d \in Dims |-> a[d]] /\ Add(a, Zero) = [d \in Dims |-> Add(a, Zero)[d]]
    BY AmountIs, AddAmounts
  <1> QED BY <1>1, <1>3, <1>4, AmountsEqual

\* what the guards of a claim exclude
LEMMA ClaimGoesOn ==
  ASSUME BudgetInv, NEW q \in Requirements,
         IF \A s \in RunsOf(q) : agent[s] = "none" THEN GroupAllows(q, Zero) ELSE Resumable(q)
  PROVE  ~Overdrawn(q)
  <1> USE DEF BudgetInv
  <1>1. Used(q) \in Amounts /\ Exposure(q) \in Amounts /\ limits[q] \in Amounts
        /\ \A d \in Dims : Used(q)[d] <= Exposure(q)[d]
    BY RowsOfFact
  <1>2. \A k \in RowsOf(q) : k \in Grouped \cup {WholeGroup} BY RowsOfFact
  <1>3. CASE \A s \in RunsOf(q) : agent[s] = "none"
    <2>1. \A d \in Dims : Used(q)[d] = 0 /\ Exposure(q)[d] = 0 BY <1>3, Fresh
    <2>2. \A d \in Dims : limits[q][d] \in Nat /\ limits[q][d] > 0 BY <1>1 DEF Amounts, Positive
    <2>3. ~Reached(Exposure(q), limits[q]) BY <2>1, <2>2 DEF Reached
    <2>4. ~Spent(Used(q), limits[q]) /\ Within(Exposure(q), limits[q]) BY <1>1, <2>3, NotReached
    <2>5. \A k \in RowsOf(q) : ~Reached(RowExposure(k), rows[k].limits) BY <1>3 DEF GroupAllows
    <2>6. \A k \in RowsOf(q) : ~Spent(rows[k].used, rows[k].limits) /\ Within(RowExposure(k), rows[k].limits)
      BY <1>2, <2>5, RowRoom
    <2> QED BY <2>4, <2>6, GoesOn
  <1>4. CASE ~(\A s \in RunsOf(q) : agent[s] = "none")
    <2>1. Resumable(q) BY <1>4
    <2>2. ~exhausted[q] BY <2>1 DEF Resumable
    <2>3. CASE \E r \in RunsOf(q) \cap RepairRuns : repair[r] = "started"
      <3>1. Within(Exposure(q), limits[q]) /\ PrepaidFits(q) BY <2>1, <2>3 DEF Resumable
      <3>2. HeldFor(repair, q) # {} BY <2>3 DEF HeldFor
      <3> QED BY <3>1, <3>2, HeldGoesOn
    <2>4. CASE ~\E r \in RunsOf(q) \cap RepairRuns : repair[r] = "started"
      <3>1. ~Reached(Exposure(q), limits[q]) BY <2>1, <2>4 DEF Resumable
      <3>2. /\ ~Spent(Used(q), limits[q]) /\ Within(Exposure(q), limits[q])
            /\ \A d \in Dims : Used(q)[d] < limits[q][d]
        BY <1>1, <3>1, NotReached
      <3>3. CASE q \notin Grouped BY <3>2, <3>3, RowsOfFact, GoesOn
      <3>4. CASE q \in Grouped
        <4>1. \A k \in Grouped \cup {WholeGroup} : Within(RowExposure(k), rows[k].limits)
          BY <2>2, <3>4 DEF Frozen, Open
        <4>2. ~Spent(rows[WholeGroup].used, rows[WholeGroup].limits) BY <2>2, <3>2, <3>4, GroupNotSpent
        <4>3. ~Spent(rows[q].used, rows[q].limits) BY <3>2, <3>4, RowFact DEF GroupLimits
        <4>4. RowsOf(q) = {WholeGroup, q} BY <3>4, RowsOfFact
        <4>5. \A k \in RowsOf(q) : ~Spent(rows[k].used, rows[k].limits) /\ Within(RowExposure(k), rows[k].limits)
          BY <3>4, <4>1, <4>2, <4>3, <4>4
        <4> QED BY <3>2, <4>5, GoesOn
      <3> QED BY <3>3, <3>4
    <2> QED BY <2>3, <2>4
  <1> QED BY <1>3, <1>4

LEMMA ClaimKeeps ==
  ASSUME BudgetInv, NEW r \in RunIds, ClaimRun(r) PROVE BudgetInv'
  <1> DEFINE q == OwnerOf[r]
  <1>1. CoreTypes /\ q \in Requirements BY TypesAre, ConstantFact DEF BudgetInv
  <1>2. ~Overdrawn(q) BY <1>1, ClaimGoesOn DEF ClaimRun
  <1>3. agent' = [agent EXCEPT ![r] = "active"] /\ UNCHANGED <<account, calls, repair, since, group>>
    BY DEF ClaimRun
  <1>4. CoreTypes' BY <1>1, <1>3 DEF CoreTypes, account, calls, group
  <1>5. \A x \in RunIds : (agent[x] # "none" => agent'[x] # "none") /\ (x # r => agent'[x] = agent[x])
    BY <1>1, <1>3 DEF CoreTypes
  <1>6. Begun' BY <1>3, <1>5, BegunKept DEF calls
  <1>7. \A p \in Requirements : Overdrawn(p) => \A x \in RunsOf(p) : agent'[x] # "active"
    <2> SUFFICES ASSUME NEW p \in Requirements, Overdrawn(p), NEW x \in RunsOf(p)
                 PROVE  agent'[x] # "active"
      OBVIOUS
    <2>1. agent[x] # "active" /\ x \in RunIds /\ OwnerOf[x] = p
      BY DEF BudgetInv, OverdrawnStops, RunsOf
    <2>2. x # r BY <1>2, <2>1
    <2> QED BY <1>5, <2>1, <2>2
  <1> QED BY <1>3, <1>4, <1>6, <1>7, QuietBudget, HeldSame DEF account, calls, group

LEMMA StartKeeps ==
  ASSUME BudgetInv, NEW r \in RunIds, StartRepair(r) PROVE BudgetInv'
  <1> DEFINE q == OwnerOf[r]
  <1>1. CoreTypes /\ q \in Requirements BY TypesAre, ConstantFact DEF BudgetInv
  <1>2. r \in RepairRuns /\ repair[r] = "reserved" BY DEF StartRepair
  <1>3. ~Overdrawn(q)
    <2>1. Within(Exposure(q), limits[q]) /\ PrepaidFits(q) BY DEF StartRepair, AuthorizedBalance
    <2>2. HeldFor(repair, q) # {} BY <1>2 DEF HeldFor, RunsOf
    <2> QED BY <1>1, <2>1, <2>2, HeldGoesOn DEF BudgetInv
  <1>4. /\ agent' = [agent EXCEPT ![r] = "active"] /\ repair' = [repair EXCEPT ![r] = "started"]
        /\ UNCHANGED <<account, calls, since, group>>
    BY DEF StartRepair
  <1>5. CoreTypes' BY <1>1, <1>4 DEF CoreTypes, RepairMaps, RepairStates, account, calls, group
  <1>6. /\ \A x \in RunIds : (agent[x] # "none" => agent'[x] # "none") /\ (x # r => agent'[x] = agent[x])
        /\ \A x \in RepairRuns : x # r => repair'[x] = repair[x]
        /\ repair'[r] = "started"
    BY <1>1, <1>2, <1>4 DEF CoreTypes, RepairMaps
  <1>7. Begun' BY <1>2, <1>4, <1>6, BegunKept DEF calls
  <1>8. \A p \in Requirements : Overdrawn(p) => \A x \in RunsOf(p) : agent'[x] # "active"
    <2> SUFFICES ASSUME NEW p \in Requirements, Overdrawn(p), NEW x \in RunsOf(p)
                 PROVE  agent'[x] # "active"
      OBVIOUS
    <2>1. agent[x] # "active" /\ x \in RunIds /\ OwnerOf[x] = p
      BY DEF BudgetInv, OverdrawnStops, RunsOf
    <2>2. x # r BY <1>3, <2>1
    <2> QED BY <1>6, <2>1, <2>2
  <1>9. \A p \in Requirements : HeldFor(repair', p) = HeldFor(repair, p) BY <1>2, <1>6, HeldSame
  <1> QED BY <1>4, <1>5, <1>7, <1>8, <1>9, QuietBudget DEF account, calls, group

----------------------------------------------------------------------------
(* A turn, or the repair that prepays one, is paid for.                     *)

\* what the step leaves of the account of Requirement q, and of its group
PaidBy(q) ==
    /\ Within(Exposure(q)', limits[q])
    /\ \A k \in RowsOf(q) : Within(RowExposure(k)', rows[k].limits)

\* when the exposure of q stays, or grows by a reservation that fits, all of it fits
LEMMA PaidFits ==
  ASSUME BudgetTypes, Books, NEW q \in Requirements, RowsMove(q), CoreTypes',
         \/ Exposure(q)' = Exposure(q) /\ Within(Exposure(q), limits[q]) /\ PrepaidFits(q)
         \/ Exposure(q)' = Add(Exposure(q), Reservation) /\ ReservationAllowed(q)
  PROVE  PaidBy(q)
  <1>1. Exposure(q) \in Amounts /\ RowsOf(q) \subseteq Grouped \cup {WholeGroup} BY RowsOfFact
  <1>2. Within(Exposure(q)', limits[q]) BY DEF ReservationAllowed
  <1>3. ASSUME NEW k \in RowsOf(q) PROVE Within(RowExposure(k)', rows[k].limits)
    <2> DEFINE x == RowExposure(k)
               y == RowExposure(k)'
               e == Exposure(q)
               f == Exposure(q)'
               l == rows[k].limits
    <2>1. x \in Amounts /\ e \in Amounts /\ l \in Amounts BY <1>1, RowFact
    <2>2. \A d \in Dims : y[d] = x[d] + (f[d] - e[d]) BY <1>1 DEF RowsMove
    <2>3. (f = e /\ Within(x, l)) \/ (f = Add(e, Reservation) /\ Within(Add(x, Reservation), l))
      BY DEF PrepaidFits, ReservationAllowed, GroupAllows
    <2> HIDE DEF x, y, e, f, l
    <2> SUFFICES ASSUME NEW d \in Dims PROVE y[d] <= l[d] BY DEF Within, y, l
    <2>4. x[d] \in Nat /\ e[d] \in Nat /\ l[d] \in Nat /\ Reservation[d] \in Nat
      BY <2>1, ReservationFact DEF Amounts
    <2>5. CASE f = e /\ Within(x, l)
      <3>1. y[d] = x[d] + (e[d] - e[d]) /\ x[d] <= l[d] BY <2>2, <2>5 DEF Within
      <3> QED BY <2>4, <3>1
    <2>6. CASE f = Add(e, Reservation) /\ Within(Add(x, Reservation), l)
      <3>1. f[d] = e[d] + Reservation[d] /\ Add(x, Reservation)[d] = x[d] + Reservation[d]
        BY <2>6, AddAmounts
      <3>2. Add(x, Reservation)[d] <= l[d] BY <2>6 DEF Within
      <3>3. y[d] = x[d] + ((e[d] + Reservation[d]) - e[d]) BY <2>2, <3>1
      <3> QED BY <2>4, <3>1, <3>2, <3>3
    <2> QED BY <2>3, <2>5, <2>6
  <1> QED BY <1>2, <1>3 DEF PaidBy

\* the account of another Requirement
LEMMA OthersMove ==
  ASSUME BudgetTypes, Books, NEW q \in Requirements, RowsMove(q), limits' = limits,
         NEW p \in Requirements, p # q, Used(p)' = Used(p), Exposure(p)' = Exposure(p),
         \A k \in RowsOf(q) : ~Spent(rows'[k].used, rows[k].limits)
                              /\ Within(RowExposure(k)', rows[k].limits)
  PROVE  Overdrawn(p)' => Overdrawn(p)
  <1> SUFFICES ASSUME Overdrawn(p)', ~Overdrawn(p) PROVE FALSE OBVIOUS
  <1>1. Grouped' = Grouped BY DEF RowsMove
  <1>2. RowsOf(p)' = RowsOf(p) BY <1>1 DEF RowsOf
  <1>3. ~Spent(Used(p)', limits'[p]) /\ Within(Exposure(p)', limits'[p]) BY DEF Overdrawn
  <1>4. ASSUME NEW k \in RowsOf(p)
        PROVE  ~Spent(rows'[k].used, rows'[k].limits) /\ Within(RowExposure(k)', rows'[k].limits)
    <2>1. k \in Grouped \cup {WholeGroup} BY <1>4, RowsOfFact
    <2>2. rows'[k].limits = rows[k].limits BY <2>1 DEF RowsMove
    <2>3. CASE k \in RowsOf(q) BY <2>2, <2>3
    <2>4. CASE k \notin RowsOf(q)
      <3>1. rows'[k] = rows[k] BY <2>1, <2>4 DEF RowsMove
      <3>2. RowExposure(k)' = RowExposure(k) BY <3>1 DEF RowExposure
      <3>3. ~Spent(rows[k].used, rows[k].limits) /\ Within(RowExposure(k), rows[k].limits)
        BY <1>4 DEF Overdrawn
      <3> QED BY <3>1, <3>2, <3>3
    <2> QED BY <2>3, <2>4
  <1> QED BY <1>2, <1>3, <1>4 DEF Overdrawn

\* what was used of the rows stays
LEMMA FitsRows ==
  ASSUME BudgetTypes, Books, NEW q \in Requirements, RowsMove(q), Used(q)' = Used(q), NEW k \in RowsOf(q),
         RowTypes'
  PROVE  rows'[k].used = rows[k].used /\ rows'[k].limits = rows[k].limits
  <1>1. k \in Grouped \cup {WholeGroup} /\ Used(q) \in Amounts BY RowsOfFact
  <1>2. rows[k].used \in Amounts BY <1>1, RowFact
  <1>3. \A d \in Dims : rows'[k].used[d] = rows[k].used[d]
    <2> SUFFICES ASSUME NEW d \in Dims PROVE rows'[k].used[d] = rows[k].used[d] OBVIOUS
    <2>1. rows'[k].used[d] = rows[k].used[d] + (Used(q)[d] - Used(q)[d]) BY <1>1 DEF RowsMove
    <2> DEFINE x == rows[k].used[d]
               u == Used(q)[d]
    <2>2. x \in Nat /\ u \in Nat BY <1>1, <1>2 DEF Amounts
    <2>3. rows'[k].used[d] = x + (u - u) BY <2>1
    <2> HIDE DEF x, u
    <2>4. x + (u - u) = x BY <2>2
    <2> QED BY <2>3, <2>4, Zenon DEF x
  <1>4. rows'[k].used \in Amounts
    <2>1. rows'[k] \in RowRecords BY <1>1 DEF RowTypes, RowsMove
    <2> QED BY <2>1 DEF RowRecords
  <1> DEFINE f == rows'[k].used
             g == rows[k].used
  <1>5. f \in Amounts /\ g \in Amounts /\ \A d \in Dims : f[d] = g[d] BY <1>2, <1>3, <1>4
  <1> HIDE DEF f, g
  <1>6. f = g BY <1>5, AmountIs, AmountsEqual
  <1> QED BY <1>1, <1>6 DEF RowsMove, f, g

LEMMA PayKeeps ==
  ASSUME BudgetInv, NEW q \in Requirements, Sync(q), CoreTypes', Begun', History',
         UNCHANGED <<limits, version, exhausted, usage, archive, agent>>,
         \A p \in Requirements : p # q => HeldFor(repair', p) = HeldFor(repair, p),
         \A r \in RunIds : called[r] <= called'[r] /\ (OwnerOf[r] # q => called'[r] = called[r]),
         Used(q)' = Used(q),
         \/ Exposure(q)' = Exposure(q) /\ Within(Exposure(q), limits[q]) /\ PrepaidFits(q)
         \/ Exposure(q)' = Add(Exposure(q), Reservation) /\ ReservationAllowed(q)
  PROVE  BudgetInv' /\ PaidBy(q)
  <1> USE DEF BudgetInv
  <1>1. ASSUME NEW p \in Requirements, p # q
        PROVE  Used(p)' = Used(p) /\ Exposure(p)' = Exposure(p) /\ CallsOf(p)' = CallsOf(p)
    <2>1. \A r \in RunsOf(p) : called'[r] = called[r] BY <1>1 DEF RunsOf
    <2>2. HeldFor(repair', p) = HeldFor(repair, p) BY <1>1
    <2>3. /\ TurnsOf(called', p) = TurnsOf(called, p) /\ UsedOf(called', usage', p) = UsedOf(called, usage, p)
          /\ ExposureOf(called', usage', repair', p) = ExposureOf(called, usage, repair, p)
      BY <2>1, <2>2, AccountSame
    <2> QED BY <2>3, AccountIs
  <1>2. RowTypes' /\ Books' /\ RowsMove(q) BY <1>1, SyncFact
  <1>3. PaidBy(q) BY <1>2, PaidFits
  <1>4. /\ Grouped' = Grouped /\ Grouped \subseteq Requirements /\ RowsOf(q) \subseteq Grouped \cup {WholeGroup}
        /\ \A k \in Grouped \cup {WholeGroup} : rows'[k].limits = rows[k].limits
        /\ \A k \in Grouped \cup {WholeGroup} : k \notin RowsOf(q) =>
              rows'[k] = rows[k] /\ RowExposure(k)' = RowExposure(k)
        /\ \A p : RowsOf(p)' = RowsOf(p)
    <2>1. Grouped' = Grouped BY <1>2 DEF RowsMove
    <2> QED BY <1>2, <2>1, RowsOfFact DEF RowsMove, RowExposure, Books, RowsOf
  <1>5. \A k \in RowsOf(q) : rows'[k].used = rows[k].used BY <1>2, FitsRows
  <1>6. ASSUME NEW p \in Requirements, Overdrawn(p)' PROVE Overdrawn(p)
    <2>1. CASE p = q
      <3> SUFFICES ASSUME ~Overdrawn(q) PROVE FALSE BY <2>1
      <3>1. \/ Spent(Used(q)', limits[q]) \/ ~Within(Exposure(q)', limits[q])
            \/ \E k \in RowsOf(q) : Spent(rows'[k].used, rows'[k].limits) \/ ~Within(RowExposure(k)', rows'[k].limits)
        BY <1>4, <1>6, <2>1 DEF Overdrawn
      <3>2. \A k \in RowsOf(q) : rows'[k].limits = rows[k].limits BY <1>4
      <3>3. \E k \in RowsOf(q) : Spent(rows[k].used, rows[k].limits)
        BY <1>3, <1>5, <3>1, <3>2 DEF PaidBy, Overdrawn
      <3> QED BY <3>3 DEF Overdrawn
    <2>2. CASE p # q
      <3> SUFFICES ASSUME ~Overdrawn(p) PROVE FALSE OBVIOUS
      <3>1. CASE RowsOf(p) \cap RowsOf(q) = {}
        <4>1. \A k \in RowsOf(p) : rows'[k] = rows[k] /\ RowExposure(k)' = RowExposure(k)
          BY <1>4, <3>1, RowsOfFact
        <4> QED BY <1>1, <1>4, <1>6, <2>2, <4>1 DEF Overdrawn
      <3>2. CASE RowsOf(p) \cap RowsOf(q) # {}
        <4>1. p \in Grouped /\ q \in Grouped BY <3>2, RowsOfFact
        <4>2. \A k \in RowsOf(p) : k \in RowsOf(q) => k = WholeGroup BY <2>2, <4>1, RowsOfFact
        <4>3. WholeGroup \in RowsOf(p) /\ WholeGroup \in RowsOf(q) BY <4>1, RowsOfFact
        <4>4. ASSUME NEW k \in RowsOf(p)
              PROVE  ~Spent(rows'[k].used, rows'[k].limits) /\ Within(RowExposure(k)', rows'[k].limits)
          <5>1. ~Spent(rows[k].used, rows[k].limits) BY DEF Overdrawn
          <5>2. k \in Grouped \cup {WholeGroup} BY RowsOfFact
          <5>3. CASE k = WholeGroup BY <1>3, <1>4, <1>5, <4>3, <5>1, <5>2, <5>3 DEF PaidBy
          <5>4. CASE k # WholeGroup
            <6>1. rows'[k] = rows[k] /\ RowExposure(k)' = RowExposure(k) BY <1>4, <4>2, <5>2, <5>4
            <6> QED BY <5>1, <6>1 DEF Overdrawn
          <5> QED BY <5>3, <5>4
        <4> QED BY <1>1, <1>4, <1>6, <2>2, <4>4 DEF Overdrawn
      <3> QED BY <3>1, <3>2
    <2> QED BY <2>1, <2>2
  <1>7. BudgetTypes' /\ Positive' BY <1>2, TypesAre DEF Positive
  <1>8. GroupLimits'
    <2>1. \A k \in Grouped \cup {WholeGroup} : rows'[k].limits = rows[k].limits BY <1>4
    <2> QED BY <1>4, <2>1 DEF GroupLimits
  <1>9. Frozen'
    <2> SUFFICES ASSUME Open'
                 PROVE  /\ \A k \in Grouped \cup {WholeGroup} : Within(RowExposure(k)', rows'[k].limits)
                        /\ Spent(rows'[WholeGroup].used, rows'[WholeGroup].limits) =>
                              \A d \in Dims : rows'[WholeGroup].limits[d] = Sigma(LimitColumn(limits', Grouped, d), Grouped)
      BY <1>4 DEF Frozen
    <2>1. Open BY <1>4 DEF Open
    <2>2. \A k \in Grouped \cup {WholeGroup} : Within(RowExposure(k)', rows'[k].limits)
      <3> SUFFICES ASSUME NEW k \in Grouped \cup {WholeGroup} PROVE Within(RowExposure(k)', rows'[k].limits)
        OBVIOUS
      <3>1. CASE k \in RowsOf(q) BY <1>3, <1>4, <3>1 DEF PaidBy
      <3>2. CASE k \notin RowsOf(q)
        <4>1. Within(RowExposure(k), rows[k].limits) BY <2>1 DEF Frozen
        <4> QED BY <1>4, <3>2, <4>1
      <3> QED BY <3>1, <3>2
    <2>3. rows'[WholeGroup].used = rows[WholeGroup].used /\ rows'[WholeGroup].limits = rows[WholeGroup].limits
      BY <1>4, <1>5
    <2> QED BY <2>1, <2>2, <2>3 DEF Frozen
  <1>10. OverdrawnStops' BY <1>6 DEF OverdrawnStops
  <1>11. \A p \in Requirements : WithinReservation(p)' => WithinReservation(p)
    <2>1. \A p \in Requirements : CallsOf(p) \subseteq CallsOf(p)'
      <3>1. \A r \in RunIds : 1..called[r] \subseteq 1..called'[r]
        <4>1. \A r \in RunIds : called[r] \in Nat /\ called'[r] \in Nat
          <5>1. called \in Counts /\ called' \in Counts BY TypesAre DEF CoreTypes
          <5> QED BY <5>1, TurnsFact DEF Counts
        <4> QED BY <4>1
      <3> QED BY <3>1 DEF CallsOf, RunsOf
    <2> QED BY <2>1 DEF WithinReservation, SettledOnce
  <1>12. ReservationsHold'
    <2>1. ASSUME NEW p \in Requirements, WithinReservation(p)' PROVE Within(Exposure(p)', limits'[p])
      <3>1. CASE p = q BY <1>3, <3>1 DEF PaidBy
      <3>2. CASE p # q
        <4>1. Within(Exposure(p), limits[p]) BY <1>11, <2>1 DEF ReservationsHold
        <4> QED BY <1>1, <3>2, <4>1
      <3> QED BY <3>1, <3>2
    <2>2. ASSUME \A p \in Grouped : WithinReservation(p)', NEW k \in Grouped \cup {WholeGroup}
          PROVE  Within(RowExposure(k)', rows'[k].limits)
      <3>1. CASE k \in RowsOf(q) BY <1>3, <1>4, <3>1 DEF PaidBy
      <3>2. CASE k \notin RowsOf(q)
        <4>1. \A p \in Grouped : WithinReservation(p) BY <1>4, <1>11, <2>2
        <4>2. k \in DOMAIN rows BY RowFact
        <4>3. Within(RowExposure(k), rows[k].limits) BY <4>1, <4>2 DEF ReservationsHold
        <4> QED BY <1>4, <3>2, <4>3
      <3> QED BY <3>1, <3>2
    <2>3. (DOMAIN rows)' = Grouped \cup {WholeGroup} BY <1>2, <1>4 DEF RowTypes
    <2> QED BY <1>4, <2>1, <2>2, <2>3 DEF ReservationsHold
  <1> QED BY <1>2, <1>3, <1>7, <1>8, <1>9, <1>10, <1>12

LEMMA HistoryRest ==
  ASSUME BudgetInv, NEW r \in RunIds, called[r] < Turns
  PROVE  usage[<<r, called[r] + 1>>] = Silent
  <1> DEFINE i == called[r] + 1
             u == usage[<<r, i>>]
  <1>1. CoreTypes BY TypesAre DEF BudgetInv
  <1>2. called[r] \in Nat /\ i \in 1..Turns /\ i > called[r] BY <1>1, TurnsFact DEF CoreTypes, Counts
  <1>3. Recorded(usage[<<r, i>>], archive[<<r, i>>]) /\ archive[<<r, i>>] = {}
    BY <1>2 DEF BudgetInv, History, RecordedAt
  <1>4. u \in Usages
    <2>1. <<r, i>> \in AllCalls BY <1>2 DEF AllCalls
    <2> QED BY <1>1, <2>1 DEF CoreTypes, UsageMaps
  <1> HIDE DEF i, u
  <1>5. Recorded(u, {}) BY <1>3 DEF u
  <1>6. u.input = Unknown /\ u.seconds = Unknown BY <1>5 DEF Recorded, Greatest
  <1>7. ~u.complete BY <1>5, Zenon DEF Recorded
  <1>8. u.complete = FALSE
    <2>1. u.complete \in BOOLEAN BY <1>4 DEF Usages
    <2> QED BY <1>7, <2>1, Zenon
  <1>9. u = [input |-> u.input, seconds |-> u.seconds, complete |-> u.complete] BY <1>4 DEF Usages
  <1>10. u = Silent BY <1>6, <1>8, <1>9, Zenon DEF Silent
  <1> QED BY <1>10 DEF u, i

LEMMA AdmitTurnKeeps ==
  ASSUME BudgetInv, NEW r \in RunIds, AdmitTurn(r) PROVE BudgetInv' /\ PaidBy(OwnerOf[r])
  <1> DEFINE q == OwnerOf[r]
  <1>1. CoreTypes /\ q \in Requirements BY TypesAre, ConstantFact DEF BudgetInv
  <1>2. /\ agent[r] = "active" /\ called[r] < Turns /\ Admissible(r)
        /\ called' = [called EXCEPT ![r] = called[r] + 1]
        /\ repair' = IF Prepaid(r) THEN [repair EXCEPT ![r] = "transferred"] ELSE repair
        /\ UNCHANGED <<limits, version, exhausted, agent, usage, archive, since>>
        /\ Sync(q)
    BY DEF AdmitTurn, account
  <1>3. called \in Counts /\ usage \in UsageMaps /\ repair \in RepairMaps BY <1>1 DEF CoreTypes
  <1>4. usage[<<r, called[r] + 1>>] = Silent BY <1>2, HistoryRest
  <1>5. /\ called' \in Counts /\ UsedOf(called', usage, q) = UsedOf(called, usage, q)
        /\ HeldFor(repair', q) = HeldFor(repair, q) =>
              ExposureOf(called', usage, repair', q) = Add(ExposureOf(called, usage, repair, q), Reservation)
        /\ r \in HeldFor(repair, q) /\ HeldFor(repair', q) = HeldFor(repair, q) \ {r} =>
              ExposureOf(called', usage, repair', q) = ExposureOf(called, usage, repair, q)
    <2>1. TurnAdded(called, called', usage, r, q) BY <1>2, <1>4 DEF TurnAdded
    <2> QED BY <1>3, <2>1, AccountTurn
  <1>6. /\ repair' \in RepairMaps
        /\ \A x \in RepairRuns : x # r => repair'[x] = repair[x]
        /\ Prepaid(r) => repair'[r] = "transferred"
    <2>1. CASE Prepaid(r)
      <3>1. r \in RepairRuns /\ repair' = [repair EXCEPT ![r] = "transferred"] BY <1>2, <2>1 DEF Prepaid
      <3> QED BY <1>3, <3>1 DEF RepairMaps, RepairStates
    <2>2. CASE ~Prepaid(r) BY <1>2, <1>3, <2>2
    <2> QED BY <2>1, <2>2
  <1>7. CoreTypes' BY <1>1, <1>2, <1>5, <1>6 DEF CoreTypes
  <1>8. \A x \in RunIds : called[x] \in Nat /\ called'[x] \in Nat /\ called[x] <= called'[x]
                          /\ (x # r => called'[x] = called[x])
    <2>1. \A x \in RunIds : called[x] \in Nat BY <1>3, TurnsFact DEF Counts
    <2>2. called'[r] = called[r] + 1 /\ \A x \in RunIds : x # r => called'[x] = called[x]
      BY <1>2, <1>3 DEF Counts
    <2> QED BY <2>1, <2>2
  <1>9. Begun'
    <2>1. Begun /\ agent' = agent BY <1>2 DEF BudgetInv
    <2>2. \A x \in RunIds : called'[x] > 0 => agent[x] # "none"
      <3>1. \A x \in RunIds : x # r => (called'[x] > 0 => agent[x] # "none") BY <1>8, <2>1 DEF Begun, BegunAt
      <3> QED BY <1>2, <3>1
    <2>3. \A x \in RepairRuns : repair'[x] # "none" => repair[x] # "none"
      <3>1. \A x \in RepairRuns : repair'[x] = repair[x] \/ (x = r /\ Prepaid(r)) BY <1>2, <1>6
      <3> QED BY <3>1 DEF Prepaid
    <2> QED BY <2>1, <2>2, <2>3 DEF Begun, BegunAt
  <1>10. History'
    <2>1. \A x \in RunIds, i \in 1..Turns : i > called'[x] => i > called[x]
      <3>1. \A x \in RunIds : called[x] \in Nat /\ called'[x] \in Nat /\ called[x] <= called'[x] BY <1>8
      <3> QED BY <3>1, TurnsFact
    <2>2. RecordedAt(usage, archive, called) BY DEF BudgetInv, History
    <2>3. RecordedAt(usage, archive, called') BY <2>1, <2>2 DEF RecordedAt
    <2> QED BY <1>2, <2>3 DEF History
  <1>11. \A p \in Requirements : p # q => HeldFor(repair', p) = HeldFor(repair, p)
    <2>1. \A p : \A x \in RunsOf(p) : p # q => x # r BY DEF RunsOf
    <2> QED BY <1>6, <2>1 DEF HeldFor
  <1>12. Used(q)' = Used(q) BY <1>2, <1>5, AccountIs
  <1>13. \/ Exposure(q)' = Exposure(q) /\ Within(Exposure(q), limits[q]) /\ PrepaidFits(q)
         \/ Exposure(q)' = Add(Exposure(q), Reservation) /\ ReservationAllowed(q)
    <2>1. CASE Prepaid(r)
      <3>1. r \in HeldFor(repair, q) BY <2>1 DEF Prepaid, HeldFor, RunsOf
      <3>2. HeldFor(repair', q) = HeldFor(repair, q) \ {r} BY <1>6, <2>1 DEF HeldFor
      <3>3. Exposure(q)' = Exposure(q) BY <1>2, <1>5, <3>1, <3>2, AccountIs
      <3> QED BY <1>2, <3>3 DEF Admissible
    <2>2. CASE ~Prepaid(r)
      <3>1. HeldFor(repair', q) = HeldFor(repair, q) BY <1>2, <2>2
      <3>2. Exposure(q)' = Add(Exposure(q), Reservation) BY <1>2, <1>5, <3>1, AccountIs
      <3> QED BY <1>2, <2>2, <3>2 DEF Admissible
    <2> QED BY <2>1, <2>2
  <1>14. \A x \in RunIds : called[x] <= called'[x] /\ (OwnerOf[x] # q => called'[x] = called[x])
    BY <1>8
  <1> QED BY <1>1, <1>2, <1>7, <1>9, <1>10, <1>11, <1>12, <1>13, <1>14, PayKeeps

LEMMA ReserveKeeps ==
  ASSUME BudgetInv, NEW r \in RunIds, ReserveRepair(r) PROVE BudgetInv'
  <1> DEFINE q == OwnerOf[r]
  <1>1. CoreTypes /\ q \in Requirements BY TypesAre, ConstantFact DEF BudgetInv
  <1>2. /\ r \in RepairRuns /\ repair[r] = "observed" /\ ReservationAllowed(q)
        /\ repair' = [repair EXCEPT ![r] = "reserved"]
        /\ UNCHANGED <<limits, version, exhausted, agent, called, usage, archive, since>>
        /\ Sync(q)
    BY DEF ReserveRepair, Plannable, account, calls
  <1>3. called \in Counts /\ usage \in UsageMaps /\ repair \in RepairMaps BY <1>1 DEF CoreTypes
  <1>4. /\ repair' \in RepairMaps /\ repair'[r] = "reserved"
        /\ \A x \in RepairRuns : x # r => repair'[x] = repair[x]
    BY <1>2, <1>3 DEF RepairMaps, RepairStates
  <1>5. CoreTypes' BY <1>1, <1>2, <1>4 DEF CoreTypes
  <1>6. Begun' BY <1>2, <1>4, BegunKept
  <1>7. History' BY <1>2 DEF BudgetInv, History
  <1>8. \A p \in Requirements : p # q => HeldFor(repair', p) = HeldFor(repair, p)
    <2>1. \A p : \A x \in RunsOf(p) : p # q => x # r BY DEF RunsOf
    <2> QED BY <1>4, <2>1 DEF HeldFor
  <1>9. Used(q)' = Used(q)
    <2>1. Used(q)' = UsedOf(called', usage', q) BY AccountIs
    <2> QED BY <1>2, <2>1, AccountIs
  <1>10. Exposure(q)' = Add(Exposure(q), Reservation)
    <2>1. r \notin HeldFor(repair, q) BY <1>2 DEF HeldFor
    <2>2. HeldFor(repair', q) = HeldFor(repair, q) \cup {r} BY <1>2, <1>4 DEF HeldFor, RunsOf
    <2>3. ExposureOf(called, usage, repair', q) = Add(ExposureOf(called, usage, repair, q), Reservation)
      BY <1>3, <2>1, <2>2, AccountHold
    <2> QED BY <1>2, <2>3, AccountIs
  <1>11. \A x \in RunIds : called[x] <= called'[x] /\ (OwnerOf[x] # q => called'[x] = called[x])
    <2>1. \A x \in RunIds : called[x] \in Nat BY <1>3, TurnsFact DEF Counts
    <2> QED BY <1>2, <2>1
  <1> QED BY <1>1, <1>2, <1>5, <1>6, <1>7, <1>8, <1>9, <1>10, <1>11, PayKeeps

----------------------------------------------------------------------------
(* A usage event.                                                           *)

LEMMA CountersFinite ==
  ASSUME NEW a \in SUBSET Reports, IsFiniteSet(a)
  PROVE  LET i == {e.input : e \in a} \cup {Unknown}
             s == {e.seconds : e \in a} \cup {Unknown}
         IN  /\ i \subseteq Int /\ s \subseteq Int /\ IsFiniteSet(i) /\ IsFiniteSet(s)
             /\ \E m \in i : Greatest(m, i) /\ Max(i) = m
             /\ \E m \in s : Greatest(m, s) /\ Max(s) = m
  <1> DEFINE i == {e.input : e \in a} \cup {Unknown}
             s == {e.seconds : e \in a} \cup {Unknown}
  <1>1. i \subseteq Int /\ s \subseteq Int
    <2>1. \A e \in a : e.input \in Int /\ e.seconds \in Int BY ConstantFact DEF Usages, Unknown
    <2>2. Unknown \in Int BY DEF Unknown
    <2> QED BY <2>1, <2>2
  <1>2. IsFiniteSet({e.input : e \in a}) /\ IsFiniteSet({e.seconds : e \in a})
    <2> DEFINE f == [e \in a |-> e.input]
               g == [e \in a |-> e.seconds]
    <2>1. f \in Surjection(a, {e.input : e \in a}) BY DEF Surjection
    <2>2. g \in Surjection(a, {e.seconds : e \in a}) BY DEF Surjection
    <2> QED BY <2>1, <2>2, FS_Surjection
  <1>3. IsFiniteSet(i) /\ IsFiniteSet(s) BY <1>2, FS_Singleton, FS_Union
  <1>4. i # {} /\ s # {} OBVIOUS
  <1> HIDE DEF i, s
  <1>5. \E m \in i : Greatest(m, i) BY <1>1, <1>3, <1>4, GreatestExists
  <1>6. \E m \in s : Greatest(m, s) BY <1>1, <1>3, <1>4, GreatestExists
  <1>7. \A m : Greatest(m, i) => Max(i) = m BY <1>1, MaxIs
  <1>8. \A m : Greatest(m, s) => Max(s) = m BY <1>1, MaxIs
  <1>9. (\E m \in i : Greatest(m, i) /\ Max(i) = m) /\ (\E m \in s : Greatest(m, s) /\ Max(s) = m)
    BY <1>5, <1>6, <1>7, <1>8
  <1> QED BY <1>1, <1>3, <1>9 DEF i, s

LEMMA ToldIs ==
  ASSUME NEW a \in SUBSET Reports, IsFiniteSet(a), NEW u \in Usages, Recorded(u, a)
  PROVE  u = Told(a)
  <1> DEFINE i == {e.input : e \in a} \cup {Unknown}
             s == {e.seconds : e \in a} \cup {Unknown}
  <1>1. i \subseteq Int /\ s \subseteq Int BY CountersFinite
  <1>2. Greatest(u.input, i) /\ Greatest(u.seconds, s) BY DEF Recorded
  <1> HIDE DEF i, s
  <1>3. Max(i) = u.input /\ Max(s) = u.seconds BY <1>1, <1>2, MaxIs
  <1>4. Told(a).input = u.input /\ Told(a).seconds = u.seconds BY <1>3 DEF Told, i, s
  <1> DEFINE b == \E e \in a : e.complete
  <1>5. u.complete = b
    <2>1. u.complete <=> b BY Zenon DEF Recorded
    <2>2. u.complete \in BOOLEAN BY DEF Usages
    <2> HIDE DEF b
    <2>3. b \in BOOLEAN BY Zenon DEF b
    <2> QED BY <2>1, <2>2, <2>3, Zenon
  <1>6. Told(a) = [input |-> Max(i), seconds |-> Max(s), complete |-> b] BY Zenon DEF Told, i, s
  <1> HIDE DEF b
  <1>7. u = [input |-> u.input, seconds |-> u.seconds, complete |-> u.complete] BY DEF Usages
  <1> QED BY <1>3, <1>5, <1>6, <1>7, Zenon

\* what some of the events settle, all of them do
LEMMA SettledTold ==
  ASSUME NEW a \in SUBSET Reports, IsFiniteSet(a), NEW u \in Usages, Recorded(u, a), NEW b \in SUBSET a,
         Settled(Told(b))
  PROVE  Settled(u)
  <1> DEFINE i(S) == {e.input : e \in S} \cup {Unknown}
             s(S) == {e.seconds : e \in S} \cup {Unknown}
  <1>1. IsFiniteSet(b) /\ b \in SUBSET Reports BY FS_Subset
  <1>2. i(a) \subseteq Int /\ s(a) \subseteq Int BY CountersFinite
  <1>3. PICK m \in i(b) : Max(i(b)) = m BY <1>1, CountersFinite
  <1>4. PICK n \in s(b) : Max(s(b)) = n BY <1>1, CountersFinite
  <1>5. i(b) \subseteq i(a) /\ s(b) \subseteq s(a) OBVIOUS
  <1>6. /\ Told(b).input = m /\ Told(b).seconds = n
        /\ Told(b).complete <=> \E e \in b : e.complete
    <2>1. Told(b).input = m /\ Told(b).seconds = n BY <1>3, <1>4, Zenon DEF Told
    <2>2. Told(b).complete <=> \E e \in b : e.complete BY Zenon DEF Told
    <2> QED BY <2>1, <2>2
  <1>7. m # Unknown /\ n # Unknown /\ \E e \in b : e.complete BY <1>6, Zenon DEF Settled
  <1>8. u.complete BY <1>7, Zenon DEF Recorded
  <1>9. Greatest(u.input, i(a)) /\ Greatest(u.seconds, s(a)) BY DEF Recorded
  <1>10. \A e \in a : e.input >= -1 /\ e.seconds >= -1 BY ConstantFact DEF Usages, Unknown
  <1>11. m >= -1 /\ n >= -1 /\ m \in Int /\ n \in Int
    <2>1. \A x \in i(b) : x >= -1 BY <1>10 DEF Unknown
    <2>2. \A x \in s(b) : x >= -1 BY <1>10 DEF Unknown
    <2> QED BY <1>2, <1>3, <1>4, <1>5, <2>1, <2>2
  <1>12. m <= u.input /\ n <= u.seconds
    <2>1. m \in i(a) /\ n \in s(a) BY <1>3, <1>4, <1>5
    <2> HIDE DEF i, s
    <2> QED BY <1>9, <2>1 DEF Greatest
  <1>13. u.input \in Int /\ u.seconds \in Int BY DEF Usages, Unknown
  <1>14. u.input # Unknown /\ u.seconds # Unknown
    <2>1. m # -1 /\ n # -1 BY <1>7 DEF Unknown
    <2> HIDE DEF i, s
    <2>2. u.input > -1 /\ u.seconds > -1 BY <1>11, <1>12, <1>13, <2>1
    <2> QED BY <1>13, <2>2 DEF Unknown
  <1> QED BY <1>8, <1>14, Zenon DEF Settled

LEMMA RecordedMerge ==
  ASSUME NEW a \in SUBSET Reports, NEW u \in Usages, Recorded(u, a), NEW e \in Reports
  PROVE  Recorded(Merge(u, e), a \cup {e})
  <1> DEFINE w == Merge(u, e)
             b == a \cup {e}
  <1>1. e \in Usages BY ConstantFact
  <1>2. /\ w.input = (IF u.input >= e.input THEN u.input ELSE e.input)
        /\ w.seconds = (IF u.seconds >= e.seconds THEN u.seconds ELSE e.seconds)
        /\ w.complete <=> u.complete \/ e.complete
    BY <1>1, MergeFact
  <1>3. \A x \in a \cup {e} : x.input \in Int /\ x.seconds \in Int BY ConstantFact DEF Usages, Unknown
  <1>4. u.input \in Int /\ u.seconds \in Int BY DEF Usages, Unknown
  <1> HIDE DEF w
  <1>5. Greatest(w.input, {x.input : x \in b} \cup {Unknown})
    <2> DEFINE S == {x.input : x \in a} \cup {Unknown}
               T == {x.input : x \in b} \cup {Unknown}
               m == u.input
               n == e.input
    <2>1. T = S \cup {n} BY Zenon
    <2>2. Greatest(m, S) BY DEF Recorded
    <2>3. S \subseteq Int /\ m \in Int /\ n \in Int BY <1>3, <1>4 DEF Unknown
    <2>4. w.input = (IF m >= n THEN m ELSE n) BY <1>2
    <2> HIDE DEF S, T, m, n
    <2>5. Greatest(w.input, S \cup {n})
      <3>1. CASE m >= n BY <2>2, <2>3, <2>4, <3>1 DEF Greatest
      <3>2. CASE ~(m >= n)
        <4>1. \A x \in S : x <= n
          <5> SUFFICES ASSUME NEW x \in S PROVE x <= n OBVIOUS
          <5>1. x \in Int /\ x <= m BY <2>2, <2>3 DEF Greatest
          <5> QED BY <2>3, <3>2, <5>1
        <4> QED BY <2>3, <2>4, <3>2, <4>1 DEF Greatest
      <3> QED BY <3>1, <3>2
    <2> QED BY <2>1, <2>5 DEF T
  <1>6. Greatest(w.seconds, {x.seconds : x \in b} \cup {Unknown})
    <2> DEFINE S == {x.seconds : x \in a} \cup {Unknown}
               T == {x.seconds : x \in b} \cup {Unknown}
               m == u.seconds
               n == e.seconds
    <2>1. T = S \cup {n} BY Zenon
    <2>2. Greatest(m, S) BY DEF Recorded
    <2>3. S \subseteq Int /\ m \in Int /\ n \in Int BY <1>3, <1>4 DEF Unknown
    <2>4. w.seconds = (IF m >= n THEN m ELSE n) BY <1>2
    <2> HIDE DEF S, T, m, n
    <2>5. Greatest(w.seconds, S \cup {n})
      <3>1. CASE m >= n BY <2>2, <2>3, <2>4, <3>1 DEF Greatest
      <3>2. CASE ~(m >= n)
        <4>1. \A x \in S : x <= n
          <5> SUFFICES ASSUME NEW x \in S PROVE x <= n OBVIOUS
          <5>1. x \in Int /\ x <= m BY <2>2, <2>3 DEF Greatest
          <5> QED BY <2>3, <3>2, <5>1
        <4> QED BY <2>3, <2>4, <3>2, <4>1 DEF Greatest
      <3> QED BY <3>1, <3>2
    <2> QED BY <2>1, <2>5 DEF T
  <1>7. w.complete <=> \E x \in b : x.complete
    <2>1. u.complete <=> \E x \in a : x.complete BY Zenon DEF Recorded
    <2> QED BY <1>2, <2>1, Zenon
  <1> QED BY <1>5, <1>6, <1>7, Zenon DEF Recorded, w

Once(u, a) == \A events \in SUBSET a : Settled(Told(events)) => Actual(Told(events)) = Actual(u)

\* if the turn is settled once with the event, it was before, and at the same amounts
LEMMA OnceBefore ==
  ASSUME NEW a \in SUBSET Reports, IsFiniteSet(a), NEW u \in Usages, Recorded(u, a), NEW e \in Reports,
         Once(Merge(u, e), a \cup {e})
  PROVE  /\ Once(u, a)
         /\ Settled(u) => Settled(Merge(u, e)) /\ Actual(Merge(u, e)) = Actual(u)
  <1> DEFINE w == Merge(u, e)
  <1>1. e \in Usages BY ConstantFact
  <1>2. Settled(u) => Settled(w) BY <1>1, MergeFact
  <1> HIDE DEF w
  <1>3. \A b \in SUBSET a : Settled(Told(b)) => Actual(Told(b)) = Actual(w)
    <2>1. \A b \in SUBSET a : b \in SUBSET (a \cup {e}) OBVIOUS
    <2> QED BY <2>1 DEF Once, w
  <1>4. u = Told(a) BY ToldIs
  <1>5. Settled(u) => Actual(w) = Actual(u)
    <2>1. a \in SUBSET a OBVIOUS
    <2>2. Settled(Told(a)) => Actual(Told(a)) = Actual(w) BY <1>3, <2>1
    <2> QED BY <1>4, <2>2, Zenon
  <1>6. Once(u, a)
    <2> SUFFICES ASSUME NEW b \in SUBSET a, Settled(Told(b)) PROVE Actual(Told(b)) = Actual(u)
      BY DEF Once
    <2>1. Settled(u) BY SettledTold
    <2>2. Actual(Told(b)) = Actual(w) BY <1>3
    <2> QED BY <1>5, <2>1, <2>2
  <1> QED BY <1>2, <1>5, <1>6 DEF w

LEMMA StopFact ==
  ASSUME CoreTypes, NEW S, Stop(S)
  PROVE  /\ exhausted' \in [Requirements -> BOOLEAN]
         /\ agent' \in [RunIds -> {"none", "active", "stopping", "quiescent"}]
         /\ \A p \in Requirements : /\ exhausted[p] \/ p \in S => exhausted'[p]
                                    /\ p \notin S => (exhausted'[p] <=> exhausted[p])
         /\ \A x \in RunIds : /\ agent[x] # "none" => agent'[x] # "none"
                              /\ agent'[x] = "active" => agent[x] = "active" /\ OwnerOf[x] \notin S
  <1>1. /\ exhausted' = [p \in Requirements |-> exhausted[p] \/ p \in S]
        /\ agent' = [x \in RunIds |-> IF OwnerOf[x] \in S /\ agent[x] = "active" THEN "stopping" ELSE agent[x]]
    BY DEF Stop
  <1>2. exhausted \in [Requirements -> BOOLEAN] BY DEF CoreTypes
  <1>3. agent \in [RunIds -> {"none", "active", "stopping", "quiescent"}] BY DEF CoreTypes
  <1>4. \A p \in Requirements : exhausted'[p] <=> (exhausted[p] \/ p \in S) BY <1>1, Zenon
  <1>5. exhausted' \in [Requirements -> BOOLEAN] BY <1>1, <1>2, Zenon
  <1>6. \A x \in RunIds : agent'[x] \in {"none", "active", "stopping", "quiescent"}
          /\ (agent[x] # "none" => agent'[x] # "none")
          /\ (agent'[x] = "active" => agent[x] = "active" /\ OwnerOf[x] \notin S)
    BY <1>1, <1>3
  <1>7. agent' \in [RunIds -> {"none", "active", "stopping", "quiescent"}] BY <1>1, <1>6
  <1> QED BY <1>4, <1>5, <1>6, <1>7, Zenon

LEMMA SettleAccounts ==
  ASSUME BudgetInv, NEW r \in RunIds, NEW n \in 1..Turns, NEW e \in Reports, Settle(r, n, e)
  PROVE  /\ CoreTypes' /\ Begun' /\ History'
         /\ \A p \in Requirements : p # OwnerOf[r] =>
               /\ Used(p)' = Used(p) /\ Exposure(p)' = Exposure(p)
               /\ WithinReservation(p)' => WithinReservation(p)
         /\ WithinReservation(OwnerOf[r])' =>
               /\ WithinReservation(OwnerOf[r])
               /\ \A d \in Dims : Exposure(OwnerOf[r])'[d] <= Exposure(OwnerOf[r])[d]
  <1> DEFINE q == OwnerOf[r]
             c == <<r, n>>
             w == Merge(usage[c], e)
  <1>1. CoreTypes /\ History /\ q \in Requirements BY TypesAre, ConstantFact DEF BudgetInv
  <1>2. /\ n <= called[r] /\ archive' = [archive EXCEPT ![c] = archive[c] \cup {e}]
        /\ usage' = [usage EXCEPT ![c] = w]
        /\ limits' = limits /\ version' = version /\ called' = called /\ repair' = repair /\ since' = since
        /\ StopIfExhausted(q)
    BY DEF Settle
  <1>3. /\ called \in Counts /\ usage \in UsageMaps /\ archive \in [AllCalls -> SUBSET Reports]
        /\ c \in AllCalls /\ e \in Usages
    BY <1>1, ConstantFact DEF CoreTypes, AllCalls
  <1>4. usage[c] \in Usages /\ archive[c] \in SUBSET Reports BY <1>3 DEF UsageMaps
  <1>5. w \in Usages /\ \A d \in Dims : Actual(usage[c])[d] <= Actual(w)[d] BY <1>3, <1>4, MergeFact
  <1>6. /\ IsFiniteSet(archive[c]) /\ Recorded(usage[c], archive[c])
        /\ Recorded(w, archive[c] \cup {e})
    <2>1. IsFiniteSet(archive[c]) /\ Recorded(usage[c], archive[c]) BY <1>1 DEF History, RecordedAt
    <2>2. Recorded(w, archive[c] \cup {e}) BY <1>4, <2>1, RecordedMerge
    <2> QED BY <2>1, <2>2
  <1> HIDE DEF w
  <1>7. /\ usage' \in UsageMaps /\ archive' \in [AllCalls -> SUBSET Reports]
        /\ usage'[c] = w /\ archive'[c] = archive[c] \cup {e}
        /\ \A x \in AllCalls : x # c => usage'[x] = usage[x] /\ archive'[x] = archive[x]
    BY <1>2, <1>3, <1>4, <1>5 DEF UsageMaps
  <1>8. /\ exhausted' \in [Requirements -> BOOLEAN]
        /\ agent' \in [RunIds -> {"none", "active", "stopping", "quiescent"}]
        /\ \A x \in RunIds : agent[x] # "none" => agent'[x] # "none"
    <2>1. CASE UNCHANGED <<exhausted, agent>> BY <1>1, <2>1 DEF CoreTypes
    <2>2. CASE Stop({q} \cup Peers(q)) BY <1>1, <2>2, StopFact
    <2> QED BY <1>2, <2>1, <2>2 DEF StopIfExhausted
  <1>9. CoreTypes' BY <1>1, <1>2, <1>7, <1>8 DEF CoreTypes
  <1>10. Begun' BY <1>2, <1>8, BegunKept
  <1>11. History'
    <2> SUFFICES ASSUME NEW x \in RunIds, NEW i \in 1..Turns
                 PROVE  /\ Recorded(usage'[<<x, i>>], archive'[<<x, i>>]) /\ IsFiniteSet(archive'[<<x, i>>])
                        /\ i > called[x] => archive'[<<x, i>>] = {}
      BY <1>2 DEF History, RecordedAt
    <2>1. CASE <<x, i>> = c
      <3>1. IsFiniteSet(archive[c] \cup {e}) BY <1>6, FS_Singleton, FS_Union
      <3>2. ~(i > called[x])
        <4>1. called[r] \in Nat BY <1>3, TurnsFact DEF Counts
        <4> QED BY <1>2, <2>1, <4>1
      <3> QED BY <1>6, <1>7, <2>1, <3>1, <3>2
    <2>2. CASE <<x, i>> # c
      <3>1. <<x, i>> \in AllCalls BY DEF AllCalls
      <3> QED BY <1>1, <1>7, <2>2, <3>1 DEF History, RecordedAt
    <2> QED BY <2>1, <2>2
  <1>12. CallsOf(q) = TurnsOf(called, q) /\ \A p : CallsOf(p)' = CallsOf(p)
    BY <1>2, AccountIs DEF CallsOf
  <1>13. \A p : CallsOf(p) \subseteq AllCalls BY <1>3, AccountIs, TurnsFinite
  <1>14. ASSUME NEW p \in Requirements, p # q
         PROVE  /\ Used(p)' = Used(p) /\ Exposure(p)' = Exposure(p)
                /\ WithinReservation(p)' => WithinReservation(p)
    <2>1. \A x \in CallsOf(p) : usage'[x] = usage[x] /\ archive'[x] = archive[x]
      <3>1. c \notin CallsOf(p) BY <1>14 DEF CallsOf, RunsOf
      <3> QED BY <1>7, <1>13, <3>1
    <2>2. /\ UsedOf(called', usage', p) = UsedOf(called, usage, p)
          /\ ExposureOf(called', usage', repair', p) = ExposureOf(called, usage, repair, p)
      <3>1. CallsOf(p) = TurnsOf(called, p) BY AccountIs
      <3>2. \A x \in TurnsOf(called, p) : usage'[x] = usage[x] BY <2>1, <3>1
      <3>3. /\ UsedOf(called, usage', p) = UsedOf(called, usage, p)
            /\ ExposureOf(called, usage', repair, p) = ExposureOf(called, usage, repair, p)
        BY <3>2, AccountSame
      <3> QED BY <1>2, <3>3
    <2>3. WithinReservation(p)' => WithinReservation(p)
      BY <1>12, <2>1 DEF WithinReservation, SettledOnce
    <2> QED BY <2>2, <2>3, AccountIs
  <1>15. ASSUME WithinReservation(q)'
         PROVE  WithinReservation(q) /\ \A d \in Dims : Exposure(q)'[d] <= Exposure(q)[d]
    <2>1. \A x \in CallsOf(q) : Within(Actual(usage'[x]), Reservation) /\ Once(usage'[x], archive'[x])
      BY <1>12, <1>15 DEF WithinReservation, SettledOnce, Once
    <2>2. c \in CallsOf(q)
      <3>1. n \in 1..called[r]
        <4>1. called[r] \in Nat BY <1>3, TurnsFact DEF Counts
        <4> QED BY <1>2, <4>1
      <3> QED BY <3>1 DEF CallsOf, RunsOf
    <2>3. Within(Actual(w), Reservation) /\ Once(w, archive[c] \cup {e}) BY <1>7, <2>1, <2>2
    <2>4. /\ Once(usage[c], archive[c])
          /\ Settled(usage[c]) => Settled(w) /\ Actual(w) = Actual(usage[c])
      BY <1>4, <1>6, <2>3, OnceBefore DEF w
    <2>5. Within(Actual(usage[c]), Reservation)
      <3>1. Actual(usage[c]) \in Amounts /\ Actual(w) \in Amounts /\ Reservation \in Amounts
        BY <1>4, <1>5, UsageFact, BudgetAssumption
      <3> QED BY <1>5, <2>3, <3>1, WithinLess
    <2>6. \A x \in CallsOf(q) : Within(Actual(usage[x]), Reservation) /\ Once(usage[x], archive[x])
      <3> SUFFICES ASSUME NEW x \in CallsOf(q)
                   PROVE  Within(Actual(usage[x]), Reservation) /\ Once(usage[x], archive[x])
        OBVIOUS
      <3>1. CASE x = c BY <2>4, <2>5, <3>1
      <3>2. CASE x # c
        <4>1. usage'[x] = usage[x] /\ archive'[x] = archive[x] BY <1>7, <1>13, <3>2
        <4>2. Within(Actual(usage'[x]), Reservation) /\ Once(usage'[x], archive'[x]) BY <2>1
        <4> QED BY <4>1, <4>2
      <3> QED BY <3>1, <3>2
    <2>7. WithinReservation(q) BY <2>6 DEF WithinReservation, SettledOnce, Once
    <2>8. \A x \in TurnsOf(called, q) : \A d \in Dims : Exposed(usage'[x])[d] <= Exposed(usage[x])[d]
      <3> SUFFICES ASSUME NEW x \in TurnsOf(called, q), NEW d \in Dims
                   PROVE  Exposed(usage'[x])[d] <= Exposed(usage[x])[d]
        OBVIOUS
      <3>1. x \in AllCalls BY <1>12, <1>13
      <3>2. CASE x = c
        <4>1. \A f \in Dims : Exposed(w)[f] <= Exposed(usage[c])[f]
          BY <1>4, <1>5, <2>3, <2>4, ExposedFalls
        <4> QED BY <1>7, <3>2, <4>1
      <3>3. CASE x # c
        <4>1. usage'[x] = usage[x] BY <1>7, <3>1, <3>3
        <4>2. Exposed(usage[x])[d] \in Nat
          <5>1. usage[x] \in Usages BY <1>3, <3>1 DEF UsageMaps
          <5> QED BY <5>1, UsageFact DEF Amounts
        <4> QED BY <4>1, <4>2
      <3> QED BY <3>2, <3>3
    <2>9. \A d \in Dims : ExposureOf(called, usage', repair, q)[d] <= ExposureOf(called, usage, repair, q)[d]
      BY <1>3, <1>7, <2>8, AccountFalls
    <2> QED BY <1>2, <2>7, <2>9, AccountIs
  <1> QED BY <1>9, <1>10, <1>11, <1>14, <1>15

\* an account that is not overdrawn after the event leaves its rows in order
LEMMA SettleKeeps ==
  ASSUME BudgetInv, NEW r \in RunIds, NEW n \in 1..Turns, NEW e \in Reports, Settle(r, n, e)
  PROVE  BudgetInv'
  <1> DEFINE q == OwnerOf[r]
  <1> USE DEF BudgetInv
  <1>1. CoreTypes /\ q \in Requirements BY TypesAre, ConstantFact
  <1>2. /\ limits' = limits /\ version' = version /\ Sync(q)
        /\ IF Overdrawn(q)' THEN Stop({q} \cup Peers(q)) ELSE UNCHANGED <<exhausted, agent>>
    BY DEF Settle, StopIfExhausted
  <1>3. /\ CoreTypes' /\ Begun' /\ History'
        /\ \A p \in Requirements : p # q =>
              /\ Used(p)' = Used(p) /\ Exposure(p)' = Exposure(p)
              /\ WithinReservation(p)' => WithinReservation(p)
        /\ WithinReservation(q)' =>
              WithinReservation(q) /\ \A d \in Dims : Exposure(q)'[d] <= Exposure(q)[d]
    BY SettleAccounts
  <1>4. RowTypes' /\ Books' /\ RowsMove(q) BY <1>1, <1>2, <1>3, SyncFact
  <1>5. BudgetTypes' /\ Positive' BY <1>2, <1>3, <1>4, TypesAre DEF Positive
  <1>6. /\ Grouped' = Grouped /\ Grouped \subseteq Requirements /\ RowsOf(q) \subseteq Grouped \cup {WholeGroup}
        /\ \A k \in Grouped \cup {WholeGroup} : rows'[k].limits = rows[k].limits
        /\ \A k \in Grouped \cup {WholeGroup} : k \notin RowsOf(q) =>
              rows'[k] = rows[k] /\ RowExposure(k)' = RowExposure(k)
        /\ \A p : RowsOf(p)' = RowsOf(p)
    <2>1. Grouped' = Grouped BY <1>4 DEF RowsMove
    <2> QED BY <1>1, <1>4, <2>1, RowsOfFact DEF RowsMove, RowExposure, Books, RowsOf
  <1>7. GroupLimits'
    <2>1. \A k \in Grouped \cup {WholeGroup} : rows'[k].limits = rows[k].limits BY <1>6
    <2> QED BY <1>2, <1>6, <2>1 DEF GroupLimits
  <1>8. ~Overdrawn(q)' =>
           \A k \in RowsOf(q) : ~Spent(rows'[k].used, rows[k].limits) /\ Within(RowExposure(k)', rows[k].limits)
    BY <1>6 DEF Overdrawn
  <1>9. Frozen'
    <2> SUFFICES ASSUME Open'
                 PROVE  /\ \A k \in Grouped \cup {WholeGroup} : Within(RowExposure(k)', rows'[k].limits)
                        /\ Spent(rows'[WholeGroup].used, rows'[WholeGroup].limits) =>
                              \A d \in Dims : rows'[WholeGroup].limits[d] = Sigma(LimitColumn(limits', Grouped, d), Grouped)
      BY <1>6 DEF Frozen
    <2>1. PICK g \in Grouped : ~exhausted'[g] BY <1>6 DEF Open
    <2>2. CASE Overdrawn(q)'
      <3>1. Stop({q} \cup Peers(q)) BY <1>2, <2>2
      <3>2. g \in Requirements /\ g \notin {q} \cup Peers(q) BY <1>1, <1>6, <2>1, <3>1, StopFact
      <3>3. q \notin Grouped /\ ~exhausted[g]
        <4>1. q \notin Grouped BY <2>1, <3>2 DEF Peers
        <4>2. ~exhausted[g] BY <1>1, <2>1, <3>1, <3>2, StopFact
        <4> QED BY <4>1, <4>2
      <3>4. RowsOf(q) = {} BY <1>1, <3>3, RowsOfFact
      <3>5. \A k \in Grouped \cup {WholeGroup} : rows'[k] = rows[k] /\ RowExposure(k)' = RowExposure(k)
        BY <1>6, <3>4
      <3>6. Open BY <3>3 DEF Open
      <3> QED BY <1>2, <3>5, <3>6 DEF Frozen
    <2>3. CASE ~Overdrawn(q)'
      <3>1. exhausted' = exhausted BY <1>2, <2>3
      <3>2. Open BY <2>1, <3>1 DEF Open
      <3>3. \A k \in Grouped \cup {WholeGroup} : Within(RowExposure(k)', rows'[k].limits)
        <4> SUFFICES ASSUME NEW k \in Grouped \cup {WholeGroup} PROVE Within(RowExposure(k)', rows'[k].limits)
          OBVIOUS
        <4>1. CASE k \in RowsOf(q) BY <1>6, <1>8, <2>3, <4>1
        <4>2. CASE k \notin RowsOf(q)
          <5>1. Within(RowExposure(k), rows[k].limits) BY <3>2 DEF Frozen
          <5> QED BY <1>6, <4>2, <5>1
        <4> QED BY <4>1, <4>2
      <3>4. CASE q \in Grouped
        <4>1. WholeGroup \in RowsOf(q) BY <1>1, <3>4, RowsOfFact
        <4>2. ~Spent(rows'[WholeGroup].used, rows'[WholeGroup].limits) BY <1>6, <1>8, <2>3, <4>1
        <4> QED BY <3>3, <4>2
      <3>5. CASE q \notin Grouped
        <4>1. RowsOf(q) = {} BY <1>1, <3>5, RowsOfFact
        <4>2. rows'[WholeGroup] = rows[WholeGroup] BY <1>6, <4>1
        <4> QED BY <1>2, <3>2, <3>3, <4>2 DEF Frozen
      <3> QED BY <3>4, <3>5
    <2> QED BY <2>2, <2>3
  <1>10. OverdrawnStops'
    <2> SUFFICES ASSUME NEW p \in Requirements, Overdrawn(p)', NEW x \in RunsOf(p) PROVE agent'[x] # "active"
      BY DEF OverdrawnStops, RunsOf
    <2>1. x \in RunIds /\ OwnerOf[x] = p BY DEF RunsOf
    <2>2. Overdrawn(p) => agent[x] # "active" BY DEF OverdrawnStops
    <2>3. CASE Overdrawn(q)'
      <3>1. Stop({q} \cup Peers(q)) BY <1>2, <2>3
      <3>2. CASE p \in {q} \cup Peers(q) BY <1>1, <2>1, <3>1, <3>2, StopFact
      <3>3. CASE p \notin {q} \cup Peers(q)
        <4>1. p # q /\ ~(p \in Grouped /\ q \in Grouped) BY <3>3 DEF Peers
        <4>2. \A k \in RowsOf(p) : k \in Grouped \cup {WholeGroup} /\ k \notin RowsOf(q)
          BY <1>1, <4>1, RowsOfFact
        <4>3. \A k \in RowsOf(p) : rows'[k] = rows[k] /\ RowExposure(k)' = RowExposure(k) BY <1>6, <4>2
        <4>4. Overdrawn(p) BY <1>2, <1>3, <1>6, <4>1, <4>3 DEF Overdrawn
        <4>5. agent'[x] = "active" => agent[x] = "active" BY <1>1, <2>1, <3>1, StopFact
        <4> QED BY <2>2, <4>4, <4>5
      <3> QED BY <3>2, <3>3
    <2>4. CASE ~Overdrawn(q)'
      <3>1. p # q /\ agent' = agent BY <1>2, <2>4
      <3>2. Overdrawn(p) BY <1>1, <1>2, <1>3, <1>4, <1>8, <2>4, <3>1, OthersMove
      <3> QED BY <2>2, <3>1, <3>2
    <2> QED BY <2>3, <2>4
  <1>11. \A p \in Requirements : WithinReservation(p)' => WithinReservation(p) BY <1>3
  <1>12. ReservationsHold'
    <2>1. Exposure(q) \in Amounts /\ limits[q] \in Amounts BY <1>1, RowsOfFact
    <2>2. Exposure(q)' \in Amounts BY <1>3, AccountTypesNext
    <2>3. ASSUME NEW p \in Requirements, WithinReservation(p)' PROVE Within(Exposure(p)', limits'[p])
      <3>1. Within(Exposure(p), limits[p]) BY <1>11, <2>3 DEF ReservationsHold
      <3>2. CASE p = q
        <4>1. \A d \in Dims : Exposure(q)'[d] <= Exposure(q)[d] BY <1>3, <2>3, <3>2
        <4> QED BY <1>2, <2>1, <2>2, <3>1, <3>2, <4>1, WithinLess
      <3>3. CASE p # q BY <1>2, <1>3, <3>1, <3>3
      <3> QED BY <3>2, <3>3
    <2>4. ASSUME \A p \in Grouped : WithinReservation(p)', NEW k \in Grouped \cup {WholeGroup}
          PROVE  Within(RowExposure(k)', rows'[k].limits)
      <3>1. Within(RowExposure(k), rows[k].limits)
        <4>1. \A p \in Grouped : WithinReservation(p) BY <1>6, <1>11, <2>4
        <4>2. k \in DOMAIN rows BY RowFact
        <4> QED BY <4>1, <4>2 DEF ReservationsHold
      <3>2. CASE k \notin RowsOf(q) BY <1>6, <3>1, <3>2
      <3>3. CASE k \in RowsOf(q)
        <4>1. q \in Grouped BY <1>1, <3>3, RowsOfFact
        <4>2. \A d \in Dims : Exposure(q)'[d] <= Exposure(q)[d] BY <1>3, <2>4, <4>1
        <4>3. ASSUME NEW d \in Dims PROVE RowExposure(k)'[d] <= rows[k].limits[d]
          <5> DEFINE x == RowExposure(k)[d]
                     y == RowExposure(k)'[d]
                     f == Exposure(q)'[d]
                     g == Exposure(q)[d]
                     l == rows[k].limits[d]
          <5>1. x \in Nat /\ f \in Nat /\ g \in Nat /\ l \in Nat BY <2>1, <2>2, RowFact DEF Amounts
          <5>2. y = x + (f - g) BY <1>4, <3>3 DEF RowsMove
          <5>3. f <= g BY <4>2
          <5>4. x <= l BY <3>1 DEF Within
          <5> HIDE DEF x, y, f, g, l
          <5>5. y <= l BY <5>1, <5>2, <5>3, <5>4
          <5> QED BY <5>5 DEF y, l
        <4> QED BY <1>6, <4>3 DEF Within
      <3> QED BY <3>2, <3>3
    <2>5. (DOMAIN rows)' = Grouped \cup {WholeGroup} BY <1>4, <1>6 DEF RowTypes
    <2> QED BY <1>6, <2>3, <2>4, <2>5 DEF ReservationsHold
  <1> QED BY <1>3, <1>4, <1>5, <1>7, <1>9, <1>10, <1>12

----------------------------------------------------------------------------
(* A grant.                                                                 *)

LEMMA GrantKeeps ==
  ASSUME BudgetInv, UNCHANGED <<agent, called, usage, archive, repair, accounted>>,
         CoreTypes', RowTypes', GroupLimits', Frozen',
         \A q \in Requirements, d \in Dims : limits[q][d] <= limits'[q][d],
         \A k \in Grouped \cup {WholeGroup} :
            /\ rows'[k].used = rows[k].used /\ rows'[k].reserved = rows[k].reserved
            /\ \A d \in Dims : rows[k].limits[d] <= rows'[k].limits[d]
  PROVE  BudgetInv'
  <1> USE DEF BudgetInv
  <1>1. CoreTypes /\ Grouped' = Grouped /\ Grouped \subseteq Requirements BY TypesAre DEF Grouped, Books
  <1>2. \A q \in Requirements : Used(q)' = Used(q) /\ Exposure(q)' = Exposure(q) /\ CallsOf(q)' = CallsOf(q)
    BY <1>1, SameAccounts
  <1>3. /\ \A p : RowsOf(p)' = RowsOf(p)
        /\ \A k \in Grouped \cup {WholeGroup} : RowExposure(k)' = RowExposure(k)
    BY <1>1 DEF RowsOf, RowExposure
  <1>4. \A q \in Requirements : limits[q] \in Amounts /\ limits'[q] \in Amounts BY <1>1 DEF CoreTypes
  <1>5. \A k \in Grouped \cup {WholeGroup} : rows[k].limits \in Amounts /\ rows'[k].limits \in Amounts
                                        /\ RowExposure(k) \in Amounts /\ rows[k].used \in Amounts
    BY <1>1, RowFact DEF RowTypes, RowRecords
  <1>6. BudgetTypes' BY TypesAre
  <1>7. Positive'
    <2> SUFFICES ASSUME NEW q \in Requirements, NEW d \in Dims PROVE limits'[q][d] > 0 BY DEF Positive
    <2>1. limits[q][d] \in Nat /\ limits'[q][d] \in Nat /\ limits[q][d] > 0 BY <1>4 DEF Amounts, Positive
    <2>2. limits[q][d] <= limits'[q][d] OBVIOUS
    <2> QED BY <2>1, <2>2
  <1>8. History' BY DEF History
  <1>9. Begun' BY DEF Begun
  <1>10. Books'
    <2>1. rows'[WholeGroup].used = rows[WholeGroup].used /\ rows'[WholeGroup].reserved = rows[WholeGroup].reserved OBVIOUS
    <2>2. \A q \in Grouped : rows'[q].used = rows[q].used /\ rows'[q].reserved = rows[q].reserved OBVIOUS
    <2> QED BY <1>1, <1>2, <2>1, <2>2 DEF Books
  <1>11. ASSUME NEW p \in Requirements, Overdrawn(p)' PROVE Overdrawn(p)
    <2> SUFFICES ASSUME ~Overdrawn(p) PROVE FALSE OBVIOUS
    <2>1. /\ Used(p) \in Amounts /\ Exposure(p) \in Amounts
          /\ RowsOf(p) \subseteq Grouped \cup {WholeGroup}
      BY RowsOfFact
    <2>2. ~Spent(Used(p), limits'[p]) /\ Within(Exposure(p), limits'[p])
      <3>1. ~Spent(Used(p), limits[p]) /\ Within(Exposure(p), limits[p]) BY DEF Overdrawn
      <3> QED BY <1>4, <2>1, <3>1, LimitGrows
    <2>3. ASSUME NEW k \in RowsOf(p)
          PROVE  ~Spent(rows[k].used, rows'[k].limits) /\ Within(RowExposure(k), rows'[k].limits)
      <3> DEFINE a == rows[k].used
                 b == RowExposure(k)
                 l == rows[k].limits
                 m == rows'[k].limits
      <3>1. ~Spent(a, l) /\ Within(b, l) BY DEF Overdrawn
      <3>2. a \in Amounts /\ b \in Amounts /\ l \in Amounts /\ m \in Amounts BY <1>5, <2>1
      <3>3. \A d \in Dims : l[d] <= m[d] BY <2>1
      <3> HIDE DEF a, b, l, m
      <3>4. ~Spent(a, m) /\ Within(b, m) BY <3>1, <3>2, <3>3, LimitGrows
      <3> QED BY <3>4 DEF a, b, m
    <2>4. \A k \in RowsOf(p) : ~Spent(rows'[k].used, rows'[k].limits) /\ Within(RowExposure(k)', rows'[k].limits)
      BY <1>3, <2>1, <2>3
    <2> QED BY <1>2, <1>3, <1>11, <2>2, <2>4 DEF Overdrawn
  <1>12. OverdrawnStops' BY <1>11 DEF OverdrawnStops
  <1>13. ReservationsHold'
    <2>1. \A p \in Requirements : WithinReservation(p)' => WithinReservation(p)
      BY <1>2 DEF WithinReservation, SettledOnce
    <2>2. ASSUME NEW p \in Requirements, WithinReservation(p)' PROVE Within(Exposure(p)', limits'[p])
      <3>1. Within(Exposure(p), limits[p]) BY <2>1, <2>2 DEF ReservationsHold
      <3>2. Exposure(p) \in Amounts BY RowsOfFact
      <3>3. Within(Exposure(p), limits'[p]) BY <1>4, <3>1, <3>2, LimitGrows
      <3> QED BY <1>2, <3>3
    <2>3. ASSUME \A p \in Grouped : WithinReservation(p)', NEW k \in Grouped \cup {WholeGroup}
          PROVE  Within(RowExposure(k)', rows'[k].limits)
      <3>1. Within(RowExposure(k), rows[k].limits)
        <4>1. \A p \in Grouped : WithinReservation(p) BY <1>1, <2>1, <2>3
        <4>2. k \in DOMAIN rows BY RowFact
        <4> QED BY <4>1, <4>2 DEF ReservationsHold
      <3> DEFINE b == RowExposure(k)
                 l == rows[k].limits
                 m == rows'[k].limits
      <3>2. b \in Amounts /\ l \in Amounts /\ m \in Amounts /\ Within(b, l) BY <1>5, <3>1
      <3>3. \A d \in Dims : l[d] <= m[d] OBVIOUS
      <3> HIDE DEF b, l, m
      <3>4. Within(b, m) BY <3>2, <3>3, LimitGrows
      <3> QED BY <1>3, <3>4 DEF b, m
    <2>4. (DOMAIN rows)' = Grouped \cup {WholeGroup} BY <1>1 DEF RowTypes
    <2> QED BY <1>1, <2>2, <2>3, <2>4 DEF ReservationsHold
  <1> QED BY <1>6, <1>7, <1>8, <1>9, <1>10, <1>12, <1>13

LEMMA AddGrows ==
  ASSUME NEW a \in Amounts, NEW b \in Amounts
  PROVE  Add(a, b) \in Amounts /\ \A d \in Dims : a[d] <= Add(a, b)[d]
  <1>1. \A d \in Dims : a[d] \in Nat /\ b[d] \in Nat BY DEF Amounts
  <1>2. \A d \in Dims : Add(a, b)[d] = a[d] + b[d] BY AddAmounts
  <1> QED BY <1>1, <1>2, AddAmounts

LEMMA IncreaseKeeps ==
  ASSUME BudgetInv, NEW q \in Requirements, Increase(q) PROVE BudgetInv'
  <1>1. CoreTypes /\ RowTypes /\ Grouped \subseteq Requirements BY TypesAre DEF BudgetInv, Books
  <1>2. /\ q \notin Grouped /\ version[q] <= MaxGrants
        /\ limits' = [limits EXCEPT ![q] = Add(limits[q], Delta)]
        /\ version' = [version EXCEPT ![q] = version[q] + 1]
        /\ exhausted' = [exhausted EXCEPT ![q] = FALSE]
        /\ UNCHANGED <<agent, called, usage, archive, repair, since, rows, accounted>>
    BY DEF Increase, calls, group
  <1>3. /\ limits \in [Requirements -> Amounts] /\ version \in [Requirements -> 1..(MaxGrants + 1)]
        /\ exhausted \in [Requirements -> BOOLEAN]
    BY <1>1 DEF CoreTypes
  <1>4. limits[q] \in Amounts BY <1>3
  <1>5. Add(limits[q], Delta) \in Amounts /\ \A d \in Dims : limits[q][d] <= Add(limits[q], Delta)[d]
    BY <1>4, ConstantFact, AddGrows
  <1>6. limits' \in [Requirements -> Amounts] BY <1>2, <1>3, <1>5
  <1>7. /\ limits'[q] = Add(limits[q], Delta)
        /\ \A p \in Requirements : p # q =>
              limits'[p] = limits[p] /\ version'[p] = version[p] /\ exhausted'[p] = exhausted[p]
    BY <1>2, <1>3
  <1>8. version' \in [Requirements -> 1..(MaxGrants + 1)]
    <2>1. version[q] \in 1..(MaxGrants + 1) /\ MaxGrants \in Nat BY <1>3, ConstantFact
    <2>2. version[q] + 1 \in 1..(MaxGrants + 1) BY <1>2, <2>1
    <2> QED BY <1>2, <1>3, <2>2
  <1>9. exhausted' \in [Requirements -> BOOLEAN] BY <1>2, <1>3
  <1>10. CoreTypes' BY <1>1, <1>2, <1>6, <1>8, <1>9 DEF CoreTypes
  <1>11. Grouped' = Grouped BY <1>2 DEF Grouped
  <1>12. RowTypes' BY <1>1, <1>2, <1>11 DEF RowTypes
  <1>13. \A p \in Grouped : limits'[p] = limits[p] /\ version'[p] = version[p] /\ exhausted'[p] = exhausted[p]
    BY <1>1, <1>2, <1>7
  <1>14. \A d \in Dims : LimitColumn(limits', Grouped, d) = LimitColumn(limits, Grouped, d)
    BY <1>13 DEF LimitColumn
  <1>15. GroupLimits' BY <1>2, <1>11, <1>13, <1>14 DEF BudgetInv, GroupLimits
  <1>16. Frozen'
    <2>1. Open' => Open BY <1>11, <1>13 DEF Open
    <2>2. \A k : RowExposure(k)' = RowExposure(k) BY <1>2 DEF RowExposure
    <2> QED BY <1>2, <1>11, <1>14, <2>1, <2>2 DEF BudgetInv, Frozen
  <1>17. \A p \in Requirements, d \in Dims : limits[p][d] <= limits'[p][d]
    <2> SUFFICES ASSUME NEW p \in Requirements, NEW d \in Dims PROVE limits[p][d] <= limits'[p][d] OBVIOUS
    <2>1. CASE p = q BY <1>5, <1>7, <2>1
    <2>2. CASE p # q
      <3>1. limits[p][d] \in Nat BY <1>3 DEF Amounts
      <3> QED BY <1>7, <2>2, <3>1
    <2> QED BY <2>1, <2>2
  <1>18. \A k \in Grouped \cup {WholeGroup} :
            /\ rows'[k].used = rows[k].used /\ rows'[k].reserved = rows[k].reserved
            /\ \A d \in Dims : rows[k].limits[d] <= rows'[k].limits[d]
    <2>1. \A k \in Grouped \cup {WholeGroup} : rows[k].limits \in Amounts BY RowFact DEF BudgetInv
    <2>2. \A k \in Grouped \cup {WholeGroup}, d \in Dims : rows[k].limits[d] <= rows[k].limits[d]
      <3> SUFFICES ASSUME NEW k \in Grouped \cup {WholeGroup}, NEW d \in Dims
                   PROVE  rows[k].limits[d] <= rows[k].limits[d]
        OBVIOUS
      <3>1. rows[k].limits[d] \in Nat BY <2>1 DEF Amounts
      <3> QED BY <3>1
    <2> QED BY <1>2, <2>2
  <1> QED BY <1>2, <1>10, <1>12, <1>15, <1>16, <1>17, <1>18, GrantKeeps

LEMMA RaisedFact ==
  ASSUME BudgetTypes, Books, NEW S \in SUBSET Grouped
  PROVE  /\ \A k \in Grouped \cup {WholeGroup} :
               Raised(S)[k] \in Amounts /\ \A d \in Dims : rows[k].limits[d] <= Raised(S)[k][d]
         /\ DOMAIN Raised(S) = Grouped \cup {WholeGroup}
  <1> DEFINE f == [q \in S |-> Delta]
             s == Sum(S, f)
             big(k) == Add(rows[k].limits, s)
             more(k) == Add(rows[k].limits, Delta)
  <1>1. DOMAIN rows = Grouped \cup {WholeGroup} /\ IsFiniteSet(S) BY RowFact, FS_Subset
  <1>2. Delta \in Amounts BY ConstantFact
  <1>3. s \in Amounts
    <2>1. s = [d \in Dims |-> s[d]] BY DEF Sum
    <2>2. ASSUME NEW d \in Dims PROVE s[d] \in Nat
      <3>1. \A x \in S : f[x][d] \in Nat BY <1>2 DEF Amounts
      <3> HIDE DEF f
      <3>2. Natural([x \in S |-> f[x][d]], S) /\ s[d] = Sigma([x \in S |-> f[x][d]], S)
        BY <1>1, <3>1, SumIs
      <3> DEFINE g == [x \in S |-> f[x][d]]
      <3> HIDE DEF g, s
      <3>3. Sigma(g, S) \in Nat BY <3>2, SigmaNat DEF g
      <3> QED BY <3>2, <3>3 DEF g
    <2> HIDE DEF s
    <2> QED BY <2>1, <2>2 DEF Amounts
  <1>4. Raised(S) = [k \in Grouped \cup {WholeGroup} |->
                        IF k = WholeGroup THEN big(k) ELSE IF k \in S THEN more(k) ELSE rows[k].limits]
    BY <1>1 DEF Raised
  <1>5. ASSUME NEW k \in Grouped \cup {WholeGroup}
        PROVE  /\ big(k) \in Amounts /\ more(k) \in Amounts /\ rows[k].limits \in Amounts
               /\ \A d \in Dims : /\ rows[k].limits[d] <= big(k)[d] /\ rows[k].limits[d] <= more(k)[d]
                                  /\ rows[k].limits[d] <= rows[k].limits[d]
    <2> DEFINE l == rows[k].limits
    <2>1. l \in Amounts BY RowFact
    <2>2. big(k) = Add(l, s) /\ more(k) = Add(l, Delta) OBVIOUS
    <2> HIDE DEF l, s, big, more
    <2>3. \A d \in Dims : l[d] \in Nat BY <2>1 DEF Amounts
    <2>4. Add(l, s) \in Amounts /\ \A d \in Dims : l[d] <= Add(l, s)[d] BY <1>3, <2>1, AddGrows
    <2>5. Add(l, Delta) \in Amounts /\ \A d \in Dims : l[d] <= Add(l, Delta)[d] BY <1>2, <2>1, AddGrows
    <2>6. \A d \in Dims : l[d] <= l[d] BY <2>3
    <2>7. /\ big(k) \in Amounts /\ more(k) \in Amounts /\ l \in Amounts
          /\ \A d \in Dims : l[d] <= big(k)[d] /\ l[d] <= more(k)[d] /\ l[d] <= l[d]
      BY <2>1, <2>2, <2>4, <2>5, <2>6, Zenon
    <2> QED BY <2>7, Zenon DEF l
  <1> HIDE DEF big, more
  <1>6. \A k \in Grouped \cup {WholeGroup} : Raised(S)[k] \in {big(k), more(k), rows[k].limits} BY <1>4
  <1>7. DOMAIN Raised(S) = Grouped \cup {WholeGroup} BY <1>4
  <1>8. ASSUME NEW k \in Grouped \cup {WholeGroup}
        PROVE  Raised(S)[k] \in Amounts /\ \A d \in Dims : rows[k].limits[d] <= Raised(S)[k][d]
    <2>1. CASE Raised(S)[k] = big(k) BY <1>5, <2>1
    <2>2. CASE Raised(S)[k] = more(k) BY <1>5, <2>2
    <2>3. CASE Raised(S)[k] = rows[k].limits BY <1>5, <2>3
    <2> QED BY <1>6, <2>1, <2>2, <2>3
  <1> QED BY <1>7, <1>8

LEMMA GroupIncreaseKeeps ==
  ASSUME BudgetInv, NEW S \in SUBSET Grouped, GroupIncrease(S) PROVE BudgetInv'
  <1> DEFINE G == Grouped
             R == Raised(S)
  <1>1. CoreTypes /\ RowTypes /\ G \subseteq Requirements /\ IsFiniteSet(G) /\ WholeGroup \notin G
        /\ DOMAIN rows = G \cup {WholeGroup}
    BY TypesAre, RowFact DEF BudgetInv, Books
  <1>2. /\ \A q \in G : version[q] <= MaxGrants
        /\ \A k \in G \cup {WholeGroup} : Within(RowExposure(k), R[k])
        /\ Sum(G, R) = R[WholeGroup]
        /\ limits' = [q \in Requirements |-> IF q \in G THEN R[q] ELSE limits[q]]
        /\ version' = [q \in Requirements |-> IF q \in G THEN version[q] + 1 ELSE version[q]]
        /\ exhausted' = [q \in Requirements |-> q \notin G /\ exhausted[q]]
        /\ rows' = [k \in G \cup {WholeGroup} |-> [rows[k] EXCEPT !.limits = R[k]]]
        /\ UNCHANGED <<agent, called, usage, archive, repair, since, accounted>>
    BY <1>1 DEF GroupIncrease, Rewritten, calls
  <1>3. \A k \in G \cup {WholeGroup} : R[k] \in Amounts /\ \A d \in Dims : rows[k].limits[d] <= R[k][d]
    BY RaisedFact DEF BudgetInv
  <1>4. /\ limits \in [Requirements -> Amounts] /\ version \in [Requirements -> 1..(MaxGrants + 1)]
        /\ rows \in [G \cup {WholeGroup} -> RowRecords]
    BY <1>1 DEF CoreTypes, RowTypes
  <1> HIDE DEF R
  <1>5. Grouped' = G BY <1>2 DEF Grouped
  <1>6. limits' \in [Requirements -> Amounts] BY <1>2, <1>3, <1>4
  <1>7. version' \in [Requirements -> 1..(MaxGrants + 1)]
    <2>1. \A q \in Requirements : version[q] \in 1..(MaxGrants + 1) /\ MaxGrants \in Nat
      BY <1>4, ConstantFact
    <2>2. \A q \in Requirements : (IF q \in G THEN version[q] + 1 ELSE version[q]) \in 1..(MaxGrants + 1)
      BY <1>2, <2>1
    <2> QED BY <1>2, <2>2
  <1>8. exhausted' \in [Requirements -> BOOLEAN] BY <1>2, Zenon
  <1>9. CoreTypes' BY <1>1, <1>2, <1>6, <1>7, <1>8 DEF CoreTypes
  <1>10. ASSUME NEW k \in G \cup {WholeGroup}
         PROVE  /\ rows'[k].used = rows[k].used /\ rows'[k].reserved = rows[k].reserved
                /\ rows'[k].limits = R[k] /\ rows'[k] \in RowRecords
    <2>1. rows'[k] = [rows[k] EXCEPT !.limits = R[k]] BY <1>2
    <2>2. rows[k] \in RowRecords /\ R[k] \in Amounts BY <1>3, <1>4
    <2> QED BY <2>1, <2>2 DEF RowRecords
  <1>11. RowTypes'
    <2>1. rows' = [k \in G \cup {WholeGroup} |-> rows'[k]] BY <1>2
    <2>2. rows' \in [G \cup {WholeGroup} -> RowRecords] BY <1>10, <2>1
    <2> QED BY <1>1, <1>2, <1>5, <2>2 DEF RowTypes
  <1>12. \A q \in G : limits'[q] = R[q] BY <1>1, <1>2
  <1>13. ASSUME NEW d \in Dims
         PROVE  /\ rows'[WholeGroup].limits[d] = Sigma(LimitColumn(limits', G, d), G)
                /\ rows'[WholeGroup].limits[d] \in Nat
    <2>1. \A q \in G : R[q][d] \in Nat BY <1>3 DEF Amounts
    <2>2. Sum(G, R)[d] = Sigma([q \in G |-> R[q][d]], G) BY <1>1, <2>1, SumIs
    <2>3. LimitColumn(limits', G, d) = [q \in G |-> R[q][d]] BY <1>12 DEF LimitColumn
    <2>4. rows'[WholeGroup].limits[d] = R[WholeGroup][d] BY <1>10
    <2>5. R[WholeGroup][d] \in Nat BY <1>3 DEF Amounts
    <2> QED BY <1>2, <2>2, <2>3, <2>4, <2>5
  <1>14. GroupLimits'
    <2>1. \A q \in G : rows'[q].limits = limits'[q] BY <1>10, <1>12
    <2>2. \A d \in Dims : rows'[WholeGroup].limits[d] <= Sigma(LimitColumn(limits', G, d), G)
      <3> SUFFICES ASSUME NEW d \in Dims
                   PROVE  rows'[WholeGroup].limits[d] <= Sigma(LimitColumn(limits', G, d), G)
        OBVIOUS
      <3> DEFINE x == rows'[WholeGroup].limits[d]
      <3>1. x = Sigma(LimitColumn(limits', G, d), G) /\ x \in Nat BY <1>13
      <3> HIDE DEF x
      <3>2. x <= x BY <3>1
      <3> QED BY <3>1, <3>2 DEF x
    <2> QED BY <1>5, <1>13, <2>1, <2>2 DEF GroupLimits
  <1>15. Frozen'
    <2>1. ASSUME NEW k \in G \cup {WholeGroup} PROVE Within(RowExposure(k)', rows'[k].limits)
      <3>1. RowExposure(k)' = RowExposure(k) BY <1>10 DEF RowExposure
      <3> QED BY <1>2, <1>10, <3>1
    <2> QED BY <1>5, <1>13, <2>1 DEF Frozen
  <1>16. \A q \in Requirements, d \in Dims : limits[q][d] <= limits'[q][d]
    <2> SUFFICES ASSUME NEW q \in Requirements, NEW d \in Dims PROVE limits[q][d] <= limits'[q][d] OBVIOUS
    <2>1. CASE q \in G
      <3>1. rows[q].limits = limits[q] BY <2>1 DEF BudgetInv, GroupLimits
      <3> QED BY <1>3, <1>12, <2>1, <3>1
    <2>2. CASE q \notin G
      <3>1. limits[q][d] \in Nat BY <1>4 DEF Amounts
      <3>2. limits'[q] = limits[q] BY <1>2, <2>2
      <3> QED BY <3>1, <3>2
    <2> QED BY <2>1, <2>2
  <1>17. \A k \in Grouped \cup {WholeGroup} :
            /\ rows'[k].used = rows[k].used /\ rows'[k].reserved = rows[k].reserved
            /\ \A d \in Dims : rows[k].limits[d] <= rows'[k].limits[d]
    BY <1>3, <1>10
  <1> QED BY <1>2, <1>9, <1>11, <1>14, <1>15, <1>16, <1>17, GrantKeeps

----------------------------------------------------------------------------
(* The invariant holds at first and is kept.                                *)

LEMMA SigmaConstant ==
  ASSUME NEW f, NEW S, IsFiniteSet(S), NEW c \in Nat, \A x \in S : f[x] = c
  PROVE  Natural(f, S) /\ Sigma(f, S) = Cardinality(S) * c
  <1>1. Natural(f, S) BY DEF Natural
  <1> DEFINE B == {s \in SUBSET S : Sigma(f, s) # Cardinality(s) * c}
  <1>2. B = {}
    <2> SUFFICES ASSUME B # {} PROVE FALSE OBVIOUS
    <2>1. B \in SUBSET SUBSET S OBVIOUS
    <2> HIDE DEF B
    <2>2. PICK s \in B : \A x \in s : s \ {x} \notin B BY <2>1, Smallest
    <2>3. s \in SUBSET S /\ Sigma(f, s) # Cardinality(s) * c BY <2>2 DEF B
    <2>4. s # {}
      <3>1. Cardinality({}) * c = 0
        <4>1. Cardinality({}) = 0 BY FS_EmptySet
        <4> QED BY <4>1
      <3> QED BY <2>3, <3>1, SigmaEmpty
    <2>5. PICK x \in s : TRUE BY <2>4
    <2>6. IsFiniteSet(s) /\ Natural(f, s) BY <1>1, <2>3, NaturalPart, FS_Subset
    <2>7. Cardinality(s \ {x}) = Cardinality(s) - 1 /\ Cardinality(s) \in Nat /\ IsFiniteSet(s \ {x})
      BY <2>5, <2>6, FS_RemoveElement, FS_CardinalityType
    <2>8. Sigma(f, s \ {x}) = Cardinality(s \ {x}) * c
      <3>1. s \ {x} \in SUBSET S /\ s \ {x} \notin B BY <2>2, <2>3, <2>5
      <3> QED BY <3>1 DEF B
    <2>9. Sigma(f, s) = c + Sigma(f, s \ {x}) BY <2>3, <2>5, <2>6, SigmaTake
    <2>10. Cardinality(s \ {x}) \in Nat BY <2>7, FS_CardinalityType
    <2> DEFINE k == Cardinality(s \ {x})
               j == Cardinality(s)
    <2>11. k \in Nat /\ j = k + 1 BY <2>7, <2>10
    <2> HIDE DEF k, j
    <2>12. c * (k + 1) = c * k + c /\ c * k \in Nat BY <2>11, TimesNat
    <2>13. j * c = k * c + c
      <3>1. j * c = c * j /\ k * c = c * k BY <2>11
      <3> QED BY <2>11, <2>12, <3>1
    <2>14. Sigma(f, s) = c + k * c BY <2>8, <2>9 DEF k
    <2>15. k * c \in Nat BY <2>11
    <2>16. Sigma(f, s) = j * c BY <2>13, <2>14, <2>15
    <2> QED BY <2>3, <2>16 DEF j
  <1>3. S \notin B BY <1>2
  <1> QED BY <1>1, <1>3

LEMMA InitKeeps == BudgetInit => BudgetInv
  <1> SUFFICES ASSUME BudgetInit PROVE BudgetInv OBVIOUS
  <1>1. PICK v \in Reviews :
          /\ limits = [q \in Requirements |-> v.each]
          /\ rows = [k \in v.items \cup {WholeGroup} |-> NewRow(IF k = WholeGroup THEN v.whole ELSE v.each)]
          /\ accounted = [q \in v.items |-> [used |-> Zero, reserved |-> Zero]]
    BY DEF BudgetInit
  <1>2. /\ version = [q \in Requirements |-> 1] /\ exhausted = [q \in Requirements |-> FALSE]
        /\ agent = [r \in RunIds |-> "none"] /\ called = [r \in RunIds |-> 0]
        /\ usage = [c \in AllCalls |-> Silent] /\ archive = [c \in AllCalls |-> {}]
        /\ repair = [r \in RepairRuns |-> "none"] /\ since = [r \in RepairRuns |-> 0]
    BY DEF BudgetInit
  <1> DEFINE G == v.items
             e == v.each
             t == v.whole
  <1>3. /\ G \subseteq Requirements /\ e \in Amounts /\ t \in Amounts
        /\ \A d \in Dims : e[d] > 0 /\ (G # {} => t[d] > 0) /\ t[d] <= Cardinality(G) * e[d]
    <2>1. /\ Reviews \subseteq [each : Amounts, items : SUBSET Requirements, whole : Amounts]
          /\ \A x \in Reviews, d \in Dims :
                /\ x.each[d] > 0 /\ (x.items # {} => x.whole[d] > 0)
                /\ x.whole[d] <= Cardinality(x.items) * x.each[d]
      BY BudgetAssumption, Zenon
    <2>2. v \in [each : Amounts, items : SUBSET Requirements, whole : Amounts] BY <2>1
    <2>3. G \subseteq Requirements /\ e \in Amounts /\ t \in Amounts BY <2>2
    <2>4. \A d \in Dims : e[d] > 0 /\ (G # {} => t[d] > 0) /\ t[d] <= Cardinality(G) * e[d]
      BY <2>1, Zenon
    <2> QED BY <2>3, <2>4
  <1> HIDE DEF G, e, t
  <1>4. /\ limits = [q \in Requirements |-> e]
        /\ rows = [k \in G \cup {WholeGroup} |-> NewRow(IF k = WholeGroup THEN t ELSE e)]
        /\ accounted = [q \in G |-> [used |-> Zero, reserved |-> Zero]]
    BY <1>1 DEF G, e, t
  <1>5. Grouped = G BY <1>4 DEF Grouped
  <1>6. IsFiniteSet(G) /\ WholeGroup \notin G BY <1>3, ConstantFact, FS_Subset
  <1>7. Zero \in Amounts /\ \A d \in Dims : Zero[d] = 0 BY DEF Zero, Amounts
  <1>8. CoreTypes
    <2>1. Silent \in Usages BY DEF Silent, Usages, Unknown
    <2>2. called \in Counts /\ usage \in UsageMaps /\ repair \in RepairMaps
      BY <1>2, <2>1, TurnsFact DEF Counts, UsageMaps, RepairMaps, RepairStates
    <2>3. version \in [Requirements -> 1..(MaxGrants + 1)] /\ since \in [RepairRuns -> 0..(MaxGrants + 1)]
      <3>1. MaxGrants \in Nat BY ConstantFact
      <3>2. 1 \in 1..(MaxGrants + 1) /\ 0 \in 0..(MaxGrants + 1) BY <3>1
      <3> QED BY <1>2, <3>2
    <2>4. /\ limits \in [Requirements -> Amounts] /\ exhausted \in [Requirements -> BOOLEAN]
          /\ agent \in [RunIds -> {"none", "active", "stopping", "quiescent"}]
          /\ archive \in [AllCalls -> SUBSET Reports]
      BY <1>2, <1>3, <1>4
    <2> QED BY <2>2, <2>3, <2>4 DEF CoreTypes
  <1>9. \A k \in G \cup {WholeGroup} :
           /\ rows[k].used = Zero /\ rows[k].reserved = Zero /\ rows[k] \in RowRecords
           /\ rows[k].limits = IF k = WholeGroup THEN t ELSE e
    BY <1>3, <1>4, <1>7 DEF NewRow, RowRecords
  <1>10. RowTypes
    <2>1. rows \in [G \cup {WholeGroup} -> RowRecords] BY <1>4, <1>9
    <2>2. accounted \in [G -> BookRecords] BY <1>4, <1>7 DEF BookRecords
    <2> QED BY <1>5, <2>1, <2>2 DEF RowTypes
  <1>11. BudgetTypes BY <1>8, <1>10, TypesAre
  <1>12. Positive BY <1>3, <1>4 DEF Positive
  <1>13. History
    <2> SUFFICES ASSUME NEW r \in RunIds, NEW i \in 1..Turns
                 PROVE  Recorded(usage[<<r, i>>], archive[<<r, i>>]) /\ IsFiniteSet(archive[<<r, i>>])
                        /\ archive[<<r, i>>] = {}
      BY DEF History, RecordedAt
    <2>1. <<r, i>> \in AllCalls BY DEF AllCalls
    <2>2. usage[<<r, i>>] = Silent /\ archive[<<r, i>>] = {} BY <1>2, <2>1
    <2>3. Greatest(-1, {-1}) BY DEF Greatest
    <2>4. Recorded(Silent, {})
      <3>1. Silent.input = -1 /\ Silent.seconds = -1 BY DEF Silent, Unknown
      <3>2. ~Silent.complete BY Zenon DEF Silent
      <3>3. {x.input : x \in {}} \cup {Unknown} = {-1} /\ {x.seconds : x \in {}} \cup {Unknown} = {-1}
        BY DEF Unknown
      <3>4. ~\E x \in {} : x.complete OBVIOUS
      <3> QED BY <2>3, <3>1, <3>2, <3>3, <3>4, Zenon DEF Recorded
    <2> QED BY <2>2, <2>4, FS_EmptySet
  <1>14. Begun BY <1>2 DEF Begun, BegunAt
  <1>15. ASSUME NEW q \in Requirements
         PROVE  Used(q) = Zero /\ Exposure(q) = Zero
    <2>1. TurnsOf(called, q) = {} /\ HeldFor(repair, q) = {}
      <3>1. \A r \in RunsOf(q) : called[r] = 0 BY <1>2 DEF RunsOf
      <3>2. TurnsOf(called, q) = {} BY <3>1 DEF TurnsOf
      <3> QED BY <1>2, <3>2 DEF HeldFor
    <2>2. called \in Counts /\ usage \in UsageMaps BY <1>8 DEF CoreTypes
    <2>3. ASSUME NEW d \in Dims PROVE Used(q)[d] = 0 /\ Exposure(q)[d] = 0
      <3>1. UsedOf(called, usage, q)[d] = Sigma(Costs(usage, d), TurnsOf(called, q)) BY <2>2, UsedSum
      <3>2. ExposureOf(called, usage, repair, q)[d] =
              Sigma(Claims(usage, d), TurnsOf(called, q)) + Reservation[d] * Cardinality(HeldFor(repair, q))
        BY <2>2, AccountSums
      <3>3. Reservation[d] * Cardinality({}) = 0
        <4>1. Cardinality({}) = 0 /\ Reservation[d] \in Nat BY FS_EmptySet, ReservationFact
        <4> QED BY <4>1
      <3>4. Sigma(Costs(usage, d), {}) = 0 /\ Sigma(Claims(usage, d), {}) = 0 BY SigmaEmpty
      <3> QED BY <2>1, <3>1, <3>2, <3>3, <3>4, AccountIs
    <2>4. Used(q) \in Amounts /\ Exposure(q) \in Amounts BY <1>8, AccountTypes
    <2> QED BY <1>7, <2>3, <2>4, AmountIs, AmountsEqual
  <1>16. \A q \in G : accounted[q].used = Zero /\ accounted[q].reserved = Zero BY <1>4
  <1>17. Books
    <2>1. ASSUME NEW q \in G
          PROVE  /\ accounted[q].used = Used(q)
                 /\ \A d \in Dims : accounted[q].reserved[d] = Exposure(q)[d] - Used(q)[d]
                 /\ rows[q].used = accounted[q].used /\ rows[q].reserved = accounted[q].reserved
      <3>1. Used(q) = Zero /\ Exposure(q) = Zero BY <1>3, <1>15
      <3> QED BY <1>7, <1>9, <1>16, <3>1
    <2>2. ASSUME NEW d \in Dims
          PROVE  /\ rows[WholeGroup].used[d] = Sigma(UsedColumn(accounted, d), G)
                 /\ rows[WholeGroup].reserved[d] = Sigma(HeldColumn(accounted, d), G)
      <3>1. DOMAIN accounted = G BY <1>4
      <3>2. \A q \in G : UsedColumn(accounted, d)[q] = 0 /\ HeldColumn(accounted, d)[q] = 0
        BY <1>7, <1>16, <3>1 DEF UsedColumn, HeldColumn
      <3>3. Sigma(UsedColumn(accounted, d), G) = 0 /\ Sigma(HeldColumn(accounted, d), G) = 0
        BY <1>6, <3>2, SigmaZero
      <3> QED BY <1>7, <1>9, <3>3
    <2> QED BY <1>3, <1>5, <2>1, <2>2 DEF Books
  <1>18. GroupLimits
    <2>1. \A q \in G : rows[q].limits = limits[q] BY <1>3, <1>4, <1>6, <1>9
    <2>2. ASSUME NEW d \in Dims PROVE rows[WholeGroup].limits[d] <= Sigma(LimitColumn(limits, G, d), G)
      <3>1. \A q \in G : LimitColumn(limits, G, d)[q] = e[d] BY <1>3, <1>4 DEF LimitColumn
      <3>2. e[d] \in Nat BY <1>3 DEF Amounts
      <3>3. Sigma(LimitColumn(limits, G, d), G) = Cardinality(G) * e[d] BY <1>6, <3>1, <3>2, SigmaConstant
      <3>4. rows[WholeGroup].limits[d] = t[d] BY <1>9
      <3> QED BY <1>3, <3>3, <3>4
    <2>3. ~\E q \in G : version[q] > 1
      <3>1. \A q \in G : version[q] = 1 BY <1>2, <1>3
      <3> QED BY <3>1
    <2> QED BY <1>5, <2>1, <2>2, <2>3 DEF GroupLimits
  <1>19. \A q \in Requirements : limits[q] \in Amounts /\ ~Reached(Zero, limits[q])
    <2>1. \A d \in Dims : e[d] \in Nat BY <1>3 DEF Amounts
    <2>2. ~Reached(Zero, e) BY <1>3, <1>7, <2>1 DEF Reached
    <2> QED BY <1>3, <1>4, <2>2
  <1>20. \A q \in Requirements : Within(Exposure(q), limits[q])
    BY <1>7, <1>15, <1>19, NotReached
  <1>21. \A k \in G \cup {WholeGroup} : RowExposure(k) = Zero
    <2> SUFFICES ASSUME NEW k \in G \cup {WholeGroup} PROVE RowExposure(k) = Zero OBVIOUS
    <2>1. RowExposure(k) = Add(Zero, Zero) BY <1>9 DEF RowExposure
    <2> QED BY <1>7, <2>1, ZeroAdd
  <1>22. \A k \in G \cup {WholeGroup} : Within(RowExposure(k), rows[k].limits)
    <2> SUFFICES ASSUME NEW k \in G \cup {WholeGroup} PROVE Within(Zero, rows[k].limits) BY <1>21
    <2> DEFINE l == rows[k].limits
    <2>1. l \in Amounts BY <1>3, <1>9
    <2> HIDE DEF l
    <2>2. \A d \in Dims : l[d] \in Nat BY <2>1 DEF Amounts
    <2>3. Within(Zero, l) BY <1>7, <2>2 DEF Within
    <2> QED BY <2>3 DEF l
  <1>23. Frozen
    <2> SUFFICES ASSUME Open PROVE ~Spent(Zero, t) BY <1>5, <1>9, <1>22 DEF Frozen
    <2>1. G # {} BY <1>5 DEF Open
    <2>2. \A d \in Dims : t[d] \in Nat BY <1>3 DEF Amounts
    <2>3. ~Reached(Zero, t) BY <1>3, <1>7, <2>1, <2>2 DEF Reached
    <2> QED BY <1>3, <1>7, <2>3, NotReached
  <1>24. OverdrawnStops
    <2>1. \A r \in RunIds : agent[r] # "active" BY <1>2
    <2> QED BY <2>1 DEF OverdrawnStops, RunsOf
  <1>25. ReservationsHold
    <2>1. DOMAIN rows = G \cup {WholeGroup} BY <1>4
    <2> QED BY <1>20, <1>22, <2>1 DEF ReservationsHold
  <1> QED BY <1>11, <1>12, <1>13, <1>14, <1>17, <1>18, <1>23, <1>24, <1>25 DEF BudgetInv

LEMMA NextKeeps == BudgetInv /\ [BudgetNext]_budgetVars => BudgetInv'
  <1> SUFFICES ASSUME BudgetInv, [BudgetNext]_budgetVars PROVE BudgetInv' OBVIOUS
  <1>1. CASE UNCHANGED budgetVars
    <2>1. /\ UNCHANGED <<limits, version, exhausted, agent, called, usage, archive, repair, since>>
          /\ UNCHANGED <<rows, accounted>>
      BY <1>1 DEF budgetVars, account, calls, group
    <2>2. CoreTypes' BY <2>1, TypesAre DEF CoreTypes, BudgetInv
    <2>3. Begun' BY <2>1 DEF Begun, BudgetInv
    <2>4. \A q \in Requirements : HeldFor(repair', q) = HeldFor(repair, q) BY <2>1
    <2>5. \A q \in Requirements : Overdrawn(q) => \A r \in RunsOf(q) : agent'[r] # "active"
      BY <2>1 DEF BudgetInv, OverdrawnStops
    <2> QED BY <2>1, <2>2, <2>3, <2>4, <2>5, QuietBudget DEF calls, group
  <1>2. ASSUME NEW r \in RunIds, ClaimRun(r) \/ StartRepair(r) \/ StopRun(r) \/ RunEnds(r) PROVE BudgetInv'
    BY <1>2, ClaimKeeps, StartKeeps, StopRunKeeps
  <1>3. ASSUME NEW r \in RunIds, AdmitTurn(r) \/ Refuse(r) PROVE BudgetInv'
    BY <1>3, AdmitTurnKeeps, RefuseKeeps
  <1>4. ASSUME NEW r \in RunIds, NEW n \in 1..Turns, NEW u \in Reports, Settle(r, n, u) PROVE BudgetInv'
    BY <1>4, SettleKeeps
  <1>5. ASSUME NEW r \in RunIds, Observe(r) \/ ReserveRepair(r) \/ BlockRepair(r) \/ Recheck(r)
        PROVE  BudgetInv'
    BY <1>5, FailureKeeps, ReserveKeeps
  <1>6. ASSUME NEW q \in Requirements, Increase(q) PROVE BudgetInv' BY <1>6, IncreaseKeeps
  <1>7. ASSUME NEW S \in SUBSET Grouped, GroupIncrease(S) PROVE BudgetInv' BY <1>7, GroupIncreaseKeeps
  <1> QED BY <1>1, <1>2, <1>3, <1>4, <1>5, <1>6, <1>7 DEF BudgetNext

\* The accounts of Requirements and groups keep their invariant whatever events arrive
\* and whoever is granted more (budget_store, group_budget).
THEOREM BudgetInductive == BudgetSpec => []BudgetInv
  BY InitKeeps, NextKeeps, PTL DEF BudgetSpec

LEMMA HistoryIs == BudgetInv => UsageIsHistory
  <1> SUFFICES ASSUME BudgetInv, NEW c \in AllCalls PROVE usage[c] = Told(archive[c]) BY DEF UsageIsHistory
  <1>1. CoreTypes BY TypesAre DEF BudgetInv
  <1>2. PICK r \in RunIds, i \in 1..Turns : c = <<r, i>> BY DEF AllCalls
  <1>3. Recorded(usage[c], archive[c]) /\ IsFiniteSet(archive[c])
    BY <1>2 DEF BudgetInv, History, RecordedAt
  <1>4. usage[c] \in Usages /\ archive[c] \in SUBSET Reports BY <1>1 DEF CoreTypes, UsageMaps
  <1> QED BY <1>3, <1>4, ToldIs

LEMMA GroupSums == BudgetInv => GroupIsSum
  <1> SUFFICES ASSUME BudgetInv PROVE GroupIsSum OBVIOUS
  <1> USE DEF BudgetInv
  <1> DEFINE G == Grouped
             f == [q \in G |-> Used(q)]
             g == [q \in G |-> Exposure(q)]
  <1>1. /\ \A q \in G : rows[q].used = Used(q) /\ RowExposure(q) = Exposure(q)
        /\ IsFiniteSet(G) /\ G \subseteq Requirements /\ accounted \in [G -> BookRecords]
        /\ rows[WholeGroup].used \in Amounts /\ RowExposure(WholeGroup) \in Amounts
    BY RowFact, TypesAre DEF RowTypes, Books
  <1>2. \A q \in G : Used(q) \in Amounts /\ Exposure(q) \in Amounts BY <1>1, RowsOfFact
  <1>3. ASSUME NEW d \in Dims
        PROVE  rows[WholeGroup].used[d] = Sum(G, f)[d] /\ RowExposure(WholeGroup)[d] = Sum(G, g)[d]
    <2> DEFINE u == UsedColumn(accounted, d)
               h == HeldColumn(accounted, d)
               x == [q \in G |-> f[q][d]]
               y == [q \in G |-> g[q][d]]
    <2>1. Natural(u, G) /\ Natural(h, G) BY <1>1, ColumnFact
    <2>2. \A q \in G : f[q][d] \in Nat /\ g[q][d] \in Nat BY <1>2 DEF Amounts
    <2>3. \A q \in G : /\ u[q] = Used(q)[d] /\ h[q] = Exposure(q)[d] - Used(q)[d]
                       /\ x[q] = Used(q)[d] /\ y[q] = Exposure(q)[d]
                       /\ Used(q)[d] \in Nat /\ Exposure(q)[d] \in Nat
      <3>1. DOMAIN accounted = G BY <1>1
      <3>2. \A q \in G : accounted[q].used = Used(q)
               /\ accounted[q].reserved[d] = Exposure(q)[d] - Used(q)[d]
        BY DEF Books
      <3> QED BY <1>2, <3>1, <3>2 DEF UsedColumn, HeldColumn, Amounts
    <2> HIDE DEF f, g
    <2>4. Sum(G, f)[d] = Sigma(x, G) /\ Sum(G, g)[d] = Sigma(y, G) BY <1>1, <2>2, SumIs
    <2> HIDE DEF u, h, x, y
    <2>5. Sigma(x, G) = Sigma(u, G) BY <2>1, <2>3, SigmaEqual
    <2>6. Sigma(y, G) = Sigma(u, G) + Sigma(h, G)
      <3>1. \A q \in G : y[q] = u[q] + h[q]
        <4> SUFFICES ASSUME NEW q \in G PROVE y[q] = u[q] + h[q] OBVIOUS
        <4> DEFINE a == Used(q)[d]
                   b == Exposure(q)[d]
        <4>1. u[q] = a /\ h[q] = b - a /\ y[q] = b /\ a \in Nat /\ b \in Nat BY <2>3
        <4> HIDE DEF a, b
        <4> QED BY <4>1
      <3> QED BY <2>1, <3>1, SigmaPlus
    <2>7. rows[WholeGroup].used[d] = Sigma(u, G) /\ rows[WholeGroup].reserved[d] = Sigma(h, G) BY DEF Books, u, h
    <2>8. RowExposure(WholeGroup)[d] = rows[WholeGroup].used[d] + rows[WholeGroup].reserved[d] BY RowFact
    <2> QED BY <2>4, <2>5, <2>6, <2>7, <2>8
  <1>4. Sum(G, f) = [d \in Dims |-> Sum(G, f)[d]] /\ Sum(G, g) = [d \in Dims |-> Sum(G, g)[d]] BY DEF Sum
  <1>5. rows[WholeGroup].used = Sum(G, f)
    <2> DEFINE a == rows[WholeGroup].used
               b == Sum(G, f)
    <2>1. a \in Amounts /\ b = [d \in Dims |-> b[d]] /\ \A d \in Dims : a[d] = b[d] BY <1>1, <1>3, <1>4
    <2> HIDE DEF a, b
    <2>2. a = b BY <2>1, AmountIs, AmountsEqual
    <2> QED BY <2>2 DEF a, b
  <1>6. RowExposure(WholeGroup) = Sum(G, g)
    <2> DEFINE a == RowExposure(WholeGroup)
               b == Sum(G, g)
    <2>1. a \in Amounts /\ b = [d \in Dims |-> b[d]] /\ \A d \in Dims : a[d] = b[d] BY <1>1, <1>3, <1>4
    <2> HIDE DEF a, b
    <2>2. a = b BY <2>1, AmountIs, AmountsEqual
    <2> QED BY <2>2 DEF a, b
  <1> QED BY <1>1, <1>5, <1>6 DEF GroupIsSum

LEMMA LimitsAre == BudgetInv => LimitsAddUp
  <1> SUFFICES ASSUME BudgetInv PROVE LimitsAddUp OBVIOUS
  <1> USE DEF BudgetInv
  <1> DEFINE G == Grouped
             f == [q \in G |-> limits[q]]
             s == Sum(G, f)
             l == rows[WholeGroup].limits
  <1>1. IsFiniteSet(G) /\ G \subseteq Requirements /\ l \in Amounts
        /\ \A q \in G : limits[q] \in Amounts
    BY RowFact, RowsOfFact DEF Books
  <1>2. ASSUME NEW d \in Dims
        PROVE  s[d] = Sigma(LimitColumn(limits, G, d), G)
    <2>1. \A q \in G : f[q][d] \in Nat BY <1>1 DEF Amounts
    <2>2. LimitColumn(limits, G, d) = [q \in G |-> f[q][d]] BY DEF LimitColumn
    <2> HIDE DEF f
    <2>3. s[d] = Sigma([q \in G |-> f[q][d]], G) BY <1>1, <2>1, SumIs
    <2> QED BY <2>2, <2>3
  <1>3. s = [d \in Dims |-> s[d]] BY DEF Sum
  <1>4. \A q \in G : rows[q].limits = limits[q] BY DEF GroupLimits
  <1>5. /\ G # {} => \A d \in Dims : l[d] <= Sigma(LimitColumn(limits, G, d), G)
        /\ (\E q \in G : version[q] > 1) => \A d \in Dims : l[d] = Sigma(LimitColumn(limits, G, d), G)
    BY DEF GroupLimits
  <1> HIDE DEF s, l
  <1>6. G # {} => Within(l, s) BY <1>2, <1>5 DEF Within
  <1>7. (\E q \in G : version[q] > 1) => l = s
    <2> SUFFICES ASSUME \E q \in G : version[q] > 1 PROVE l = s OBVIOUS
    <2>1. \A d \in Dims : l[d] = s[d] BY <1>2, <1>5
    <2> QED BY <1>1, <1>3, <2>1, AmountIs, AmountsEqual
  <1> QED BY <1>4, <1>6, <1>7 DEF LimitsAddUp, s, l

\* The books are right at any time: a turn costs what was ever reported of it, a group
\* is the sum of its items, reservations cover what is spent, and who has overdrawn is
\* stopped (budget_store::record, group_budget::update).
THEOREM BooksAreRight == BudgetSpec => []AccountsHold
  <1>1. BudgetInv => AccountsHold
    BY HistoryIs, GroupSums, LimitsAre DEF BudgetInv, AccountsHold
  <1> QED BY <1>1, BudgetInductive, PTL

TurnsFit == \A r \in RunIds : called'[r] > called[r] =>
    /\ Within(Exposure(OwnerOf[r])', limits[OwnerOf[r]])
    /\ \A k \in RowsOf(OwnerOf[r]) : Within(RowExposure(k)', rows[k].limits)
Covered == \A r \in RunIds : called'[r] > called[r] /\ OwnerOf[r] \in Grouped =>
    \A q \in Grouped : Within(Exposure(q), limits[q])

LEMMA AdmissionStep == BudgetInv /\ [BudgetNext]_budgetVars => [TurnsFit /\ Covered]_budgetVars
  <1> SUFFICES ASSUME BudgetInv, BudgetNext PROVE TurnsFit /\ Covered BY DEF budgetVars
  <1>1. \A x \in RunIds : called[x] \in Nat
    <2>1. called \in Counts BY TypesAre DEF BudgetInv, CoreTypes
    <2> QED BY <2>1, TurnsFact DEF Counts
  <1>2. CASE called' = called
    <2>1. \A x \in RunIds : ~(called'[x] > called[x]) BY <1>1, <1>2
    <2> QED BY <2>1 DEF TurnsFit, Covered
  <1>3. ASSUME NEW s \in RunIds, AdmitTurn(s) PROVE TurnsFit /\ Covered
    <2> DEFINE q == OwnerOf[s]
    <2>1. called' = [called EXCEPT ![s] = called[s] + 1] /\ ~exhausted[q]
      BY <1>3 DEF AdmitTurn, Admissible
    <2>2. \A x \in RunIds : called'[x] > called[x] => x = s
      <3>1. \A x \in RunIds : x # s => called'[x] = called[x]
        <4>1. called \in Counts BY TypesAre DEF BudgetInv, CoreTypes
        <4> QED BY <2>1, <4>1 DEF Counts
      <3> QED BY <1>1, <3>1
    <2>3. PaidBy(q) BY <1>3, AdmitTurnKeeps
    <2>4. TurnsFit BY <2>2, <2>3 DEF TurnsFit, PaidBy
    <2>5. ASSUME q \in Grouped, NEW p \in Grouped PROVE Within(Exposure(p), limits[p])
      <3>1. Open BY <2>1, <2>5 DEF Open
      <3>2. Within(RowExposure(p), rows[p].limits) BY <3>1 DEF BudgetInv, Frozen
      <3>3. RowExposure(p) = Exposure(p) /\ rows[p].limits = limits[p]
        BY RowFact DEF BudgetInv, GroupLimits
      <3> QED BY <3>2, <3>3
    <2>6. Covered BY <2>2, <2>5 DEF Covered
    <2> QED BY <2>4, <2>6
  <1>4. called' = called \/ \E s \in RunIds : AdmitTurn(s)
    BY DEF BudgetNext, ClaimRun, StartRepair, StopRun, RunEnds, Refuse, Settle, Observe, ReserveRepair,
           BlockRepair, Recheck, Increase, GroupIncrease, calls
  <1> QED BY <1>2, <1>3, <1>4

\* A turn is only admitted when its account and every account of its group can pay for
\* it, and an overdraft of one item freezes all of the group (budget_store::reserve,
\* group_budget::allows).
THEOREM AdmissionSound == BudgetSpec => AdmissionFits
  <1>1. BudgetSpec => [][TurnsFit /\ Covered]_budgetVars
    BY AdmissionStep, BudgetInductive, PTL DEF BudgetSpec
  <1>2. [][TurnsFit /\ Covered]_budgetVars => AdmittedFits /\ OverdraftFreezesGroup
    BY PTL DEF TurnsFit, Covered, AdmittedFits, OverdraftFreezesGroup
  <1> QED BY <1>1, <1>2 DEF AdmissionFits

=============================================================================
