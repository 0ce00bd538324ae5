------------------------------ MODULE Retention ------------------------------
(***************************************************************************)
(* What the storage worker may remove, and when (storage_cleanup.rs,       *)
(* storage_consumers.rs, storage_archive.rs, storage_db.rs, removal in     *)
(* storage_files.rs).  The Runs of one requirement leave materials: the    *)
(* hot original of the Runtime ("runtime"), the work tree with a build     *)
(* cache inside ("work", "cache"), the recovery "snapshot" and the raw     *)
(* "chunks" of the Runtime stream in the database.  A scan removes what    *)
(* has expired and no consumer holds; a hot original and raw chunks only   *)
(* after a compressed package of them is written and verified.  The scan   *)
(* is a sequence of transactions and file operations; Runs, validations    *)
(* and deliveries of the requirement go on between them, and the           *)
(* controller may die between any two.                                     *)
(***************************************************************************)
EXTENDS Naturals, FiniteSets

CONSTANTS
    MaxRuns,    \* bound: Runs of the requirement
    Rooms,      \* the packages the cold root may have room for
    Cases       \* what the Runs leave and what may go wrong, see left

Names == {"runtime", "work", "cache", "snapshot", "chunks"}

CaseRecs ==
    [runs : 1..MaxRuns, made : SUBSET Names, packages : SUBSET Rooms, faults : Nat, groups : Nat,
     cacheGone : SUBSET {"replaced", "cut"}, late : {{FALSE}, BOOLEAN}]

\* a package has a name of its own
ASSUME RetentionAssumption ==
    /\ MaxRuns \in Nat \ {0} /\ Rooms \cap (Names \cup {"none"}) = {}
    /\ \A c \in Cases : c \in CaseRecs /\ ("cache" \in c.made => "work" \in c.made)

VARIABLES
    run,     \* per Run: its phase and what its work tree and identity are
    mat,     \* storage_material and runtime_evidence, per material
    proof,   \* storage_attempt.reclaim_proof, the delivery it names
    job,     \* the scan in progress
    scan,    \* storage_guard.scan_retry
    left     \* the case; failed operations, crashes, foreign files and the
             \* operator's rechecks still to come
vars == <<run, mat, proof, job, scan, left>>

Runs == 1..left.runs            \* a later Run repairs or resumes the one before it
Made == left.made               \* names of the materials a Run leaves
Packages == left.packages       \* the packages the cold root has room for
CacheGone == left.cacheGone     \* how the cache may go under its row: "replaced" by
                                \* its Run, "cut" with a half removed work tree
Late == left.late               \* whether a group may pass its ten minutes
Ids == (Runs \X Made) \cup ({0} \X Packages)
Hot(id) == id[2] = "runtime"
Recovery(id) == id[2] \in {"work", "snapshot"}
Cold(id) == id[1] = 0
None == <<0, "none">>

\* "own" and "more" are the files of a material, "cache" the cache directory
\* in the work tree, "foreign" a file nobody inventoried.
Parts(name) == {"own"} \cup (IF name = "work" /\ "cache" \in Made THEN {"cache"}
                             ELSE IF name = "runtime" THEN {"more"} ELSE {})

-----------------------------------------------------------------------------
(* The bounded retry every cleanup uses: "new" before the first attempt,   *)
(* "shelved" a failure before it.  The waits of 30 and 120 seconds are     *)
(* left out; late is the ten-minute limit of a group.                      *)

New == [n |-> 0, st |-> "new"]
Due(r) == r.st \in {"new", "ready", "shelved"}
Begin(r, late) ==
    IF r.st \in {"new", "shelved"} THEN [n |-> 1, st |-> "active"]
    ELSE IF r.n >= 3 \/ late THEN [r EXCEPT !.st = "todo"]
    ELSE [n |-> r.n + 1, st |-> "active"]
Fail(r, late) ==
    [r EXCEPT !.st = IF r.st \in {"new", "shelved"} THEN "shelved"
                     ELSE IF r.n >= 3 \/ late THEN "todo" ELSE "ready"]
Granted(r) == [n |-> 0, st |-> IF r.st = "shelved" THEN "new" ELSE "ready"]

-----------------------------------------------------------------------------
(* Facts about consumers, read under the lock of starts and deliveries.    *)

Succeeded(r) == run[r].phase \in {"delivering", "done"}
Active == \E r \in Runs : run[r].phase = "running"
\* A pending validation or an open delivery of the requirement; a reserved or
\* started repair of this Run.  A candidate that waits for the row of its
\* validation, or for the retry of one, has no consumer.
Consumer(r) ==
    \/ \E q \in Runs : run[q].phase \in {"validating", "delivering"}
    \/ run[r].repair
CurrentSuccess(r) == Succeeded(r) /\ run[r].resolved = 0

\* The delivery whose published head makes the work tree of r redundant.
Publisher(r) == IF run[r].resolved # 0 THEN run[r].resolved ELSE r
Gone(r, name) == name \in Made /\ mat[<<r, name>>].status = "deleted"
HalfRemoved(r) == /\ "work" \in Made
                  /\ mat[<<r, "work">>].status = "deleting"
                  /\ "own" \notin mat[<<r, "work">>].has
\* git finds the work tree committed, clean and contained in the pushed head.
SourcePushed(r) == run[r].clean /\ "foreign" \notin mat[<<r, "work">>].has
SnapshotIntact(r) == "snapshot" \in Made => "foreign" \notin mat[<<r, "snapshot">>].has
\* Before anything of the pair is removed the check looks at both and leaves
\* a proof; afterwards the proof stands for what is gone.
BothThere(r) == ~Gone(r, "work") /\ ~Gone(r, "snapshot")
M_Rebuildable(r) == run[Publisher(r)].phase = "done"
Rebuildable(r) ==
    /\ run[Publisher(r)].phase = "done"
    /\ BothThere(r) \/ proof[r] = Publisher(r)
    /\ Gone(r, "work") \/ SourcePushed(r)
    /\ Gone(r, "snapshot") \/ SnapshotIntact(r)

\* protection(): the kind decides whether uniqueness and success count.
M_Protected(r, recovery, retrospective) ==
    Active \/ Consumer(r) \/ (recovery /\ ~Rebuildable(r))
Protected(r, recovery, retrospective) ==
    \/ Active
    \/ Consumer(r)
    \/ recovery /\ ~Rebuildable(r)
    \/ retrospective /\ CurrentSuccess(r)

M_Referenced(id) == FALSE
Referenced(id) == \E m \in Ids : mat[m].status # "deleted" /\ mat[m].arch = id
M_MaterialProtected(id) ==
    \/ mat[id].partial \/ Referenced(id)
    \/ mat[id].status = "present" /\ Protected(mat[id].run, Recovery(id), Cold(id))
\* Everything that holds a material back; the intent to delete settles
\* uniqueness and success.
MaterialProtected(id) ==
    LET deleting == mat[id].status = "deleting" IN
    \/ Protected(mat[id].run, Recovery(id) /\ ~deleting, Cold(id) /\ ~deleting)
    \/ mat[id].partial
    \/ Referenced(id)
\* Raw chunks go only after an explicit resolution.
ChunksKept(r) == run[r].resolved = 0 \/ Protected(r, FALSE, TRUE)
Kept(id) == IF id[2] = "chunks" THEN ChunksKept(id[1]) ELSE MaterialProtected(id)

-----------------------------------------------------------------------------
Idle == [step |-> "idle", queue |-> {}, id |-> None, files |-> {}, pkg |-> None]
At(step) == job.step = step
Go(step) == [job EXCEPT !.step = step]
Drop == [job EXCEPT !.step = "next", !.id = None, !.files = {}, !.pkg = None]
Fault == left.faults > 0 /\ left' = [left EXCEPT !.faults = @ - 1]
\* failed(): the item keeps its original and the attempt is used up.
Failed(m, id) ==
    \E late \in Late :
        /\ mat' = [m EXCEPT ![id].retry = Fail(@, late)]
        /\ job' = Drop
Unchanged == UNCHANGED <<run, proof, scan>>

-----------------------------------------------------------------------------
(* The scan.  Accounting opens every registered directory by path and      *)
(* identity; one that is missing or another one fails the whole scan.      *)

Measurable == \A id \in Ids : mat[id].status \in {"present", "deleting"} => mat[id].same

StartScan ==
    /\ At("idle") /\ scan.st # "todo"
    /\ \E late \in Late :
         IF scan.st = "active"
         THEN scan' = Fail(scan, late) /\ UNCHANGED job
         ELSE /\ scan' = IF scan.st = "new" THEN [n |-> 1, st |-> "active"] ELSE Begin(scan, late)
              /\ job' = IF scan'.st = "active" THEN Go("catalog") ELSE job
    /\ UNCHANGED <<run, mat, proof, left>>

\* resolve(): only a recorded successor with the same identity, accepted and
\* published, resolves an earlier Run.
Resolved(r) ==
    IF run[r].resolved # 0 THEN run[r].resolved
    ELSE LET later == {q \in Runs : /\ q > r /\ run[q].phase = "done"
                                    /\ \A s \in (r + 1)..q : run[s].linked}
         IN IF later = {} THEN 0 ELSE CHOOSE q \in later : \A s \in later : s <= q
Discover ==
    [id \in Ids |->
        IF mat[id].status = "absent" /\ ~Cold(id) /\ run[id[1]].phase # "none"
        THEN [mat[id] EXCEPT !.status = "present"] ELSE mat[id]]
Catalog ==
    /\ At("catalog")
    /\ IF Measurable
       THEN /\ mat' = Discover
            /\ run' = [r \in Runs |-> [run[r] EXCEPT !.resolved = Resolved(r)]]
            /\ job' = [Idle EXCEPT !.step = "next",
                          !.queue = {id \in Ids : mat[id].due /\ mat[id].status \in {"present", "deleting"}}]
            /\ UNCHANGED scan
       ELSE /\ \E late \in Late : scan' = Fail(scan, late)
            /\ job' = Idle /\ UNCHANGED <<run, mat>>
    /\ UNCHANGED <<proof, left>>

NextItem ==
    /\ At("next")
    /\ \E id \in job.queue : job' = [job EXCEPT !.queue = @ \ {id}, !.id = id, !.step = "attempt"]
    /\ UNCHANGED <<mat, left>> /\ Unchanged
EndScan ==
    /\ At("next") /\ job.queue = {}
    /\ job' = Idle /\ scan' = New
    /\ UNCHANGED <<run, mat, proof, left>>

-----------------------------------------------------------------------------
(* One item.  The attempt is persisted before any work, so that a crash    *)
(* uses it up.                                                             *)

M_Transition(r, late) == IF Due(r) THEN Begin(r, late) ELSE r
Transition(r, late) == IF r.st = "active" THEN Fail(r, late)
                       ELSE IF Due(r) THEN Begin(r, late) ELSE r
Attempt ==
    LET id == job.id
        r == mat[id].run
        live == mat[id].status \in {"present", "deleting"}
        checks == Recovery(id) /\ mat[id].status = "present"
    IN
    /\ At("attempt")
    /\ IF live /\ checks /\ HalfRemoved(r) /\ run[Publisher(r)].phase = "done"
       THEN Failed(mat, id) /\ UNCHANGED proof     \* git cannot read the work tree
       ELSE IF ~live \/ Kept(id)
       THEN job' = Drop /\ UNCHANGED <<mat, proof>>
       ELSE \E late \in Late :
              LET after == Transition(mat[id].retry, late) IN
              /\ mat' = [mat EXCEPT ![id].retry = after]
              /\ job' = IF after.st = "active" /\ mat[id].retry.st # "active"
                        THEN Go("inventory") ELSE Drop
              /\ proof' = IF checks /\ BothThere(r) THEN [proof EXCEPT ![r] = Publisher(r)] ELSE proof
    /\ UNCHANGED <<run, scan, left>>

M_Inventory ==
    /\ At("inventory")
    /\ job' = IF mat[job.id].status = "deleting" THEN Go("hook")
              ELSE [job EXCEPT !.files = mat[job.id].has, !.step = "persist"]
    /\ UNCHANGED <<mat, left>> /\ Unchanged
Inventory ==
    LET id == job.id IN
    /\ At("inventory")
    /\ job' = IF mat[id].status = "deleting" THEN Go("hook")
              ELSE [job EXCEPT !.files = mat[id].has,
                        !.step = IF id[2] \in {"runtime", "chunks"} THEN "archive" ELSE "persist"]
    /\ UNCHANGED <<mat, left>> /\ Unchanged

\* Room is reserved and the package registered as partial before a byte of it
\* is written.
Archive ==
    LET id == job.id
        room == {p \in {0} \X Packages : mat[p].status = "absent"} IN
    /\ At("archive")
    /\ IF id[2] = "chunks" /\ Protected(id[1], FALSE, TRUE)
       THEN mat' = [mat EXCEPT ![id].retry.st = "ready"] /\ job' = Drop
       ELSE IF room = {} THEN Failed(mat, id)
       ELSE LET p == CHOOSE q \in room : TRUE IN
            /\ mat' = [mat EXCEPT ![p] = [@ EXCEPT !.status = "present", !.partial = TRUE,
                                                   !.run = mat[id].run]]
            /\ job' = [job EXCEPT !.pkg = p, !.step = "write"]
    /\ UNCHANGED left /\ Unchanged

Copied(p, files) == [mat EXCEPT ![p].has = files]
\* Every file is compressed, read back and compared; then the source must
\* still be what was inventoried.
Write ==
    /\ At("write")
    /\ \/ /\ mat[job.id].has = job.files
          /\ mat' = Copied(job.pkg, job.files)
          /\ job' = Go("finish")
          /\ UNCHANGED left
       \/ /\ mat[job.id].has # job.files
          /\ Failed(mat, job.id)
          /\ UNCHANGED left
       \/ \E some \in SUBSET job.files :
             Fault /\ Failed([mat EXCEPT ![job.pkg].has = some], job.id)
    /\ Unchanged

Finish ==
    /\ At("finish") /\ Hot(job.id)
    /\ mat' = [mat EXCEPT ![job.pkg].partial = FALSE]
    /\ job' = Go("persist")
    /\ UNCHANGED left /\ Unchanged

Verified(p, files) == mat[p].status # "deleted" /\ files = mat[p].has
M_Finalize ==
    /\ At("finish") /\ job.id[2] = "chunks"
    /\ job' = Drop
    /\ mat' = [mat EXCEPT ![job.id].status = "deleted", ![job.id].has = {},
                          ![job.id].arch = job.pkg, ![job.pkg].partial = FALSE]
    /\ UNCHANGED left /\ Unchanged
\* The chunks are deleted in the transaction that re-reads them, so that what
\* arrived since stays; a consumer that came meanwhile keeps them.
Finalize ==
    LET id == job.id IN
    /\ At("finish") /\ id[2] = "chunks"
    /\ IF Protected(id[1], FALSE, TRUE)
       THEN /\ mat' = [mat EXCEPT ![id].retry.st = "ready"]
            /\ job' = Drop
       ELSE IF mat[id].has # job.files \/ ~Verified(job.pkg, job.files)
       THEN Failed(mat, id)
       ELSE /\ mat' = [mat EXCEPT ![id].status = "deleted", ![id].has = {},
                                  ![id].arch = job.pkg, ![job.pkg].partial = FALSE]
            /\ job' = Drop
    /\ UNCHANGED left /\ Unchanged

\* The intent to delete, with the manifest and the package, is committed only
\* if no consumer came since the attempt began.
Persist ==
    LET id == job.id IN
    /\ At("persist")
    /\ \/ /\ ~Protected(mat[id].run, Recovery(id), Cold(id))
          /\ mat' = [mat EXCEPT ![id].status = "deleting", ![id].man = job.files,
                                ![id].arch = job.pkg]
          /\ job' = Go("hook")
          /\ UNCHANGED left
       \/ /\ Protected(mat[id].run, Recovery(id), Cold(id))
          /\ Failed(mat, id)
          /\ UNCHANGED left
       \/ Fault /\ Failed(mat, id)     \* the decision record is full
    /\ Unchanged

BeforeRemove ==
    /\ At("hook")
    /\ \/ job' = Go("delete") /\ UNCHANGED <<mat, left>>
       \/ Fault /\ Failed(mat, job.id)
    /\ Unchanged

\* remove(): every entry still there must be in the manifest.
M_Removable(id) == TRUE
Removable(id) ==
    /\ mat[id].arch = None \/ Verified(mat[id].arch, mat[id].man)
    /\ mat[id].has \subseteq mat[id].man
Inside(id) == IF id[2] = "work" /\ "cache" \in Made THEN {<<id[1], "cache">>} ELSE {}
Removed(id) ==
    [m \in Ids |->
        IF m = id THEN [mat[m] EXCEPT !.status = "deleted", !.has = {}]
        ELSE IF m \in Inside(id) /\ mat[m].status # "absent"
        THEN [mat[m] EXCEPT !.status = "deleted", !.has = {}] ELSE mat[m]]
\* Files unlinked before an interruption; the row still says "deleting".
RemovedPart(id, some) ==
    [m \in Ids |->
        IF m = id THEN [mat[m] EXCEPT !.has = @ \ some]
        ELSE IF m \in Inside(id) /\ "cache" \in some
        THEN [mat[m] EXCEPT !.same = FALSE, !.has = {}] ELSE mat[m]]
Delete ==
    LET id == job.id IN
    /\ At("delete")
    /\ IF MaterialProtected(id) \/ ~Removable(id)
       THEN Failed(mat, id) /\ UNCHANGED left
       ELSE \/ mat' = Removed(id) /\ job' = Drop /\ UNCHANGED left
            \/ \E some \in (SUBSET mat[id].has) \ {{}} :
                 /\ "cut" \in CacheGone \/ "cache" \notin some
                 /\ Fault /\ Failed(RemovedPart(id, some), id)
            \/ \E some \in (SUBSET mat[id].has) \ {{}} :
                 /\ "cut" \in CacheGone \/ "cache" \notin some
                 /\ Fault /\ mat' = RemovedPart(id, some) /\ job' = Idle
    /\ Unchanged

-----------------------------------------------------------------------------
(* The rest of the program, the operator, time and faults.                 *)

\* A Run starts; a later one as the repair or the resume of the one before.
StartRun(r) ==
    /\ run[r].phase = "none"
    /\ r > 1 => run[r - 1].phase \in {"failed", "rejected", "done"}
    /\ \E linked \in BOOLEAN :
          run' = [run EXCEPT ![r].phase = "running", ![r].linked = linked /\ r > 1]
    /\ UNCHANGED <<mat, proof, job, scan, left>>
\* It ends with a candidate, which waits for its validation, or without one; its
\* work tree, if there is one, is committed or not.
EndRun(r) ==
    /\ run[r].phase = "running"
    /\ \E next \in {"waiting", "failed"}, clean \in IF "work" \in Made THEN BOOLEAN ELSE {FALSE} :
          run' = [run EXCEPT ![r].phase = next, ![r].clean = clean]
    /\ UNCHANGED <<mat, proof, job, scan, left>>
\* validation_worker, or recovery_retry for a failed one, creates the row.
Validate(r) ==
    /\ run[r].phase = "waiting" /\ ~Active
    /\ run' = [run EXCEPT ![r].phase = "validating"]
    /\ UNCHANGED <<mat, proof, job, scan, left>>
\* The repair that r belongs to is over with the result of r.
Judged(r, next) ==
    [q \in Runs |-> IF q = r THEN [run[q] EXCEPT !.phase = next]
                    ELSE IF q < r THEN [run[q] EXCEPT !.repair = FALSE] ELSE run[q]]
\* Passed; failed for good; or failed on infrastructure, to be validated again.
EndValidation(r) ==
    /\ run[r].phase = "validating"
    /\ \/ \E next \in {"delivering", "rejected"} : run' = Judged(r, next) /\ UNCHANGED left
       \/ Fault /\ run' = Judged(r, "waiting")
    /\ UNCHANGED <<mat, proof, job, scan>>
\* The retry of a validation is exhausted, or the repair made no progress.
GiveUp(r) ==
    /\ run[r].phase = "waiting"
    /\ run' = Judged(r, "rejected")
    /\ UNCHANGED <<mat, proof, job, scan, left>>
\* recovery_store::reserve: a repair of the rejected candidate, by the next Run.
RequestRepair(r) ==
    /\ run[r].phase = "rejected" /\ ~run[r].repair
    /\ r + 1 \in Runs /\ \A q \in Runs : q > r => run[q].phase = "none"
    /\ run' = [run EXCEPT ![r].repair = TRUE]
    /\ UNCHANGED <<mat, proof, job, scan, left>>
Release(r) ==
    /\ run[r].phase = "delivering"
    /\ run' = [run EXCEPT ![r].phase = "done"]
    /\ UNCHANGED <<mat, proof, job, scan, left>>

\* Expiry counts from registration, so a Run that still works is not due.
Expire(id) ==
    /\ mat[id].status = "present" /\ ~mat[id].due
    /\ mat' = [mat EXCEPT ![id].due = TRUE]
    /\ UNCHANGED <<run, proof, job, scan, left>>
\* A file nobody inventoried, in a directory or in the stream.
Appear(id) ==
    /\ mat[id].status \in {"present", "deleting"} /\ ~Cold(id) /\ id[2] # "cache"
    /\ Fault /\ mat' = [mat EXCEPT ![id].has = @ \cup {"foreign"}]
    /\ UNCHANGED <<run, proof, job, scan>>
\* npm ci, cargo clean: the Run replaces the cache in its work tree.
ReplaceCache(r) ==
    /\ "replaced" \in CacheGone /\ "cache" \in Made /\ run[r].phase = "running"
    /\ mat[<<r, "cache">>].status = "present"
    /\ mat' = [mat EXCEPT ![<<r, "cache">>].same = FALSE]
    /\ UNCHANGED <<run, proof, job, scan, left>>
Crash ==
    /\ ~At("idle") /\ Fault /\ job' = Idle
    /\ UNCHANGED <<run, mat, proof, scan>>
\* storage_recheck by the operator: a new group for everything shelved.
Authorize ==
    /\ left.groups > 0
    /\ scan.st = "todo" \/ \E id \in Ids : mat[id].retry.st \in {"todo", "shelved"}
    /\ left' = [left EXCEPT !.groups = @ - 1]
    /\ scan' = [n |-> 0, st |-> "ready"]
    /\ mat' = [id \in Ids |-> IF mat[id].retry.st \in {"todo", "shelved"}
                              THEN [mat[id] EXCEPT !.retry = Granted(@)] ELSE mat[id]]
    /\ UNCHANGED <<run, proof, job>>

Init ==
    /\ left \in Cases
    /\ run = [r \in Runs |-> [phase |-> "none", linked |-> FALSE, clean |-> FALSE,
                              repair |-> FALSE, resolved |-> 0]]
    /\ mat = [id \in Ids |-> [run |-> id[1], status |-> "absent", due |-> FALSE,
                              has |-> IF Cold(id) THEN {} ELSE Parts(id[2]),
                              man |-> {}, arch |-> None, partial |-> FALSE,
                              same |-> TRUE, retry |-> New]]
    /\ proof = [r \in Runs |-> 0]
    /\ job = Idle /\ scan = New

Worker == \/ StartScan \/ Catalog \/ NextItem \/ EndScan \/ Attempt \/ Inventory \/ Archive
          \/ Write \/ Finish \/ Finalize \/ Persist \/ BeforeRemove \/ Delete
Others == \/ \E r \in Runs : \/ StartRun(r) \/ EndRun(r) \/ Validate(r) \/ EndValidation(r)
                             \/ GiveUp(r) \/ RequestRepair(r) \/ Release(r) \/ ReplaceCache(r)
          \/ \E id \in Ids : Expire(id) \/ Appear(id)
          \/ Crash \/ Authorize
Next == Worker \/ Others
Spec == Init /\ [][Next]_vars
\* The maintenance worker wakes every five minutes and at every phase end.
FairSpec == Spec /\ WF_vars(Worker)

-----------------------------------------------------------------------------
TypeOK ==
    /\ run \in [Runs -> [phase : {"none", "running", "failed", "waiting", "validating", "rejected",
                                  "delivering", "done"},
                         linked : BOOLEAN, clean : BOOLEAN, repair : BOOLEAN, resolved : {0} \cup Runs]]
    /\ \A id \in Ids :
          /\ mat[id].status \in {"absent", "present", "deleting", "deleted"}
          /\ mat[id].arch \in {None} \cup ({0} \X Packages)
          /\ mat[id].retry.n \in 0..3
          /\ mat[id].status = "deleting" =>
                mat[id].due /\ (Hot(id) => mat[id].arch # None)
    /\ scan.n \in 0..3
    /\ At("idle") => job = Idle

Whole(id) == mat[id].status # "absent" => Parts(id[2]) \subseteq mat[id].has
PackageOf(r, name, p) ==
    mat[p].run = r /\ mat[p].status = "present" /\ Parts(name) \subseteq mat[p].has
\* a copy of the retrospective of r that nothing is about to remove
CopyHeld(r) ==
    \/ mat[<<r, "runtime">>].status \in {"absent", "present"} /\ Whole(<<r, "runtime">>)
    \/ \E p \in {0} \X Packages : PackageOf(r, "runtime", p)

\* The retrospective of the current successful Run is never lost: a whole original
\* or a whole package that is there while the Run works, is validated or is the
\* current success stays (docs/storage-lifecycle.md, "Current successful
\* retrospectives remain protected").  While its candidate waits for a validation
\* it may go, and then it is gone before the success.
SuccessKept ==
    [][\A r \in Runs : /\ "runtime" \in Made
                       /\ run[r].phase \in {"running", "validating"} \/ CurrentSuccess(r)
                       /\ CopyHeld(r)
                       => CopyHeld(r)']_vars

\* While a deletion may still have to be repeated, the package its retry will
\* verify is neither removed nor damaged.
PackageStays ==
    \A id \in Ids : mat[id].status = "deleting" /\ mat[id].arch # None =>
        /\ mat[mat[id].arch].status = "present"
        /\ mat[id].man \subseteq mat[mat[id].arch].has

Shrunk(id) == mat[id].has \ mat'[id].has
\* Nothing is unlinked while a Run of the requirement is active or a consumer
\* needs it, nothing that nobody inventoried, no original without a verified
\* package, no work that is not published.
RemovalSafe ==
    [][\A id \in Ids : Shrunk(id) # {} =>
          /\ ~Active /\ ~Consumer(mat[id].run)
          /\ "foreign" \in Shrunk(id) => id[2] \in {"runtime", "chunks"} \/ Cold(id)
          /\ id[2] \in {"runtime", "chunks"} =>
                Shrunk(id) \subseteq mat'[mat'[id].arch].has
          /\ id[2] = "work" =>
                run[id[1]].clean /\ run[Publisher(id[1])].phase = "done"]_vars

\* What has expired and nothing holds is removed or shown to the operator,
\* whatever failed on the way.
CleanedUp ==
    \A id \in ((1..MaxRuns) \X Names) \cup ({0} \X Rooms) :
        (id \in Ids /\ mat[id].due /\ mat[id].status \in {"present", "deleting"} /\ ~Kept(id))
        ~> (id \in Ids => \/ mat[id].status \in {"absent", "deleted"} \/ Kept(id)
                          \/ mat[id].retry.st \in {"todo", "shelved"} \/ scan.st = "todo")

\* What must be kept is kept whole: the retrospective of the current success, and
\* the package a repeated deletion will verify.
MaterialsStay == [](TypeOK /\ PackageStays) /\ SuccessKept

=============================================================================
