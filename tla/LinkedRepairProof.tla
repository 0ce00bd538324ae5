--------------------------- MODULE LinkedRepairProof ---------------------------
(***************************************************************************)
(* Theorems about the linked repairs of an item, for every set of          *)
(* repositories, every limit and every number of failures, incarnations    *)
(* and disturbances.                                                       *)
(***************************************************************************)
EXTENDS LinkedRepair, FiniteSetTheorems, TLAPS

----------------------------------------------------------------------------
(* The inductive invariant. *)

Rows ==
    [state: States, kind: {"merge", "integration", "premerge"}, blame: SUBSET Repos,
     affected: [Repos -> Commits], repo: Repos \cup {None}, base: Commits,
     final: Commits, tries: 0..3, due: BOOLEAN, why: Whys, revalidated: BOOLEAN]

TypeWorld ==
    /\ world \in [inc : 1..MaxInc, items : Nat \ {0}, case : CaseRecords]
    /\ world.items <= world.case.items /\ Repos # {}
TypeItem ==
    item \in [stage: Stages, pr: 0..MaxFails, sha: SUBSET (0..Pushed), cand: Candidates \cup {"in"},
              paused: BOOLEAN, cancelled: BOOLEAN, revoked: BOOLEAN, done: BOOLEAN, owner: BOOLEAN]
TypeFails == fails \in Seq(Rows) /\ Len(fails) <= MaxFails
TypeRes ==
    res \in [f: 0..MaxFails, inc: 0..MaxInc, status: {"none", "reserved", "started"}, stale: BOOLEAN]
TypeAccount == account \in [used: Nat, left: Nat, grant: {"none", "given", "spent"}]
TypeBranch == branch \in [Repos -> SUBSET (0..Pushed)]
TypeBinding == binding \in [Repos -> SUBSET (0..Pushed)]
TypeSrc == src \in [f: 0..MaxFails, repo: Repos \cup {None}, base: Commits]
TypePm ==
    pm \in [state: {"none", "pending", "ready", "blocked"}, base: Commits, tries: 0..3,
            due: BOOLEAN, closed: BOOLEAN]
Types ==
    /\ TypeWorld /\ TypeItem /\ TypeFails /\ TypeRes /\ TypeAccount /\ TypeBranch /\ TypeBinding
    /\ TypeSrc /\ TypePm

\* a repair was merged
Fixed(f) == fails[f].state \in {"merged", "complete"}

\* what the columns of a row say of each other
RowConsistent(f) ==
    /\ fails[f].repo = None <=> fails[f].base = Nowhere
    /\ fails[f].repo # None =>
          fails[f].repo \in fails[f].blame /\ Contains(fails[f].base, fails[f].affected[fails[f].repo])
    /\ fails[f].state \in {"reserved", "merged", "complete"} \/ fails[f].why = "candidate"
          => fails[f].repo # None
    /\ fails[f].why = "scope" => fails[f].repo = None
    /\ fails[f].state \notin {"blocked", "cancelled"} => fails[f].why = ""
    /\ Fixed(f) => fails[f].final # Nowhere /\ Contains(fails[f].final, fails[f].base)
    /\ fails[f].state \in {"observed", "reserved", "blocked"} => ~fails[f].revalidated
    /\ fails[f].kind = "merge" => \E r \in Repos : fails[f].blame = {r}
    /\ fails[f].kind = "premerge" => f = 1
RowsConsistent == \A f \in Ids : RowConsistent(f)

\* only the last failure is unresolved, and the stage says how far its repair is
OneUnresolved ==
    /\ \A f \in Ids : f # Len(fails) => fails[f].state \in {"merged", "complete", "cancelled"}
    /\ item.stage = "validating" => \A f \in Ids : fails[f].state \in {"merged", "complete", "cancelled"}
    /\ item.stage \in {"open", "merged"} =>
          /\ item.pr = Len(fails)
          /\ item.pr > 0 => fails[item.pr].state = "reserved" /\ item.cand = "in"
          /\ item.pr = 0 => Kind = "code" /\ pm.state = "none"
          /\ item.stage = "open" /\ item.pr = 0 => item.sha = {}
          /\ item.stage = "merged" /\ item.pr > 0 => Contains(item.sha, fails[item.pr].base)
    /\ Kind = "code" => item.stage # "validating"

ReservationOfLast ==
    /\ res.f # None <=> res.status # "none"
    /\ res.f # None => res.f = Len(fails) /\ fails[res.f].state = "reserved" /\ item.owner
    /\ item.stage = "merged" => res.f = None
    /\ item.stage = "repairing" => res.status = "started"

\* what the controller freezes still concerns the failure it was read for
ReadCurrent ==
    /\ src.f # None => /\ src.f \in Ids /\ src.repo \in fails[src.f].blame
                       /\ fails[src.f].why # "scope"
                       /\ src.base = Nowhere \/ src.base \in SUBSET (0..Pushed)
    /\ src.f = None /\ src # NoSource => src.repo = First /\ src.base \in SUBSET (0..Pushed)

\* a decision on a closed delivery replaces one of which nothing was merged
DecisionCurrent ==
    /\ pm.state # "none" \/ pm.closed =>
          Kind = "code" /\ (fails = <<>> => item.stage = "failed" /\ item.sha = {})
    /\ pm.state = "pending" => fails = <<>>
    /\ pm.state \in {"pending", "blocked"} => pm.base \in SUBSET (0..Pushed)
SourceCurrent == ReadCurrent /\ DecisionCurrent

Paid(f) == fails[f].state \in {"reserved", "merged", "complete"} \/ (fails[f].state = "blocked" /\ fails[f].why = "candidate")
PaidOnce ==
    /\ account.used <= world.case.limit
    /\ "again" \notin Candidates =>
          /\ account.used <= Cardinality({f \in Ids : fails[f].repo # None})
          /\ item.owner => account.used <= Cardinality({f \in Ids : Paid(f)})

\* a later failure of the repository was observed on a version with the repair
LaterContains ==
    \A f, g \in Ids :
       /\ f < g /\ Fixed(f) /\ ~Overtaken(f)
       /\ fails[g].kind = "integration" \/ fails[g].blame = {fails[f].repo}
       => Contains(fails[g].affected[fails[f].repo], fails[f].final)

\* a repair is in the validated combination, or it waits for its revalidation
\* behind nothing but failures of its own merge
WaitsAtEnd(f) ==
    /\ ~fails[f].revalidated /\ item.stage # "validating"
    /\ \A g \in Ids : g > f => /\ fails[g].kind = "merge" /\ fails[g].blame = {fails[f].repo}
                               /\ ~fails[g].revalidated
Bound(f) == Contains(binding[fails[f].repo], fails[f].final)
RepairsBound ==
    Kind = "validation_only" =>
       /\ \A f \in Ids : Fixed(f) /\ ~Overtaken(f) => Bound(f) \/ WaitsAtEnd(f)
       /\ \A f \in Ids : Fixed(f) /\ ~fails[f].revalidated =>
             f = Len(fails) \/ (fails[f + 1].kind = "merge" /\ fails[f + 1].blame = {fails[f].repo})
       /\ item.stage = "validating" /\ fails # <<>> => fails[Len(fails)].revalidated

Acceptance ==
    /\ item.done => ~item.owner /\ \A f \in Ids : fails[f].state = "complete"
    /\ item.owner => \A f \in Ids : fails[f].state \notin {"complete", "cancelled"}
    /\ item.done /\ Kind = "validation_only" => \A f \in Ids : ~Overtaken(f) => Bound(f)

IInv ==
    /\ Types /\ RowsConsistent /\ OneUnresolved /\ ReservationOfLast /\ SourceCurrent /\ PaidOnce
    /\ item.owner => LaterContains /\ RepairsBound
    /\ Acceptance

LEMMA MinIs ==
  ASSUME NEW S \in SUBSET Nat, S # {}
  PROVE  Min(S) \in S /\ \A y \in S : Min(S) <= y
  <1>1. PICK x \in S : \A y \in S : ~(<<y, x>> \in OpToRel(<, Nat))
    BY WFMin, NatLessThanWellFounded, Zenon
  <1>2. \A y \in S : y \in Nat /\ x \in Nat => ~(y < x) BY <1>1, Zenon DEF OpToRel
  <1>3. \A y \in S : x <= y BY <1>2
  <1> QED BY <1>3 DEF Min

LEMMA MaxIs ==
  ASSUME NEW n \in Nat, NEW S \in SUBSET (1..n), S # {}
  PROVE  Max(S) \in S /\ \A y \in S : y <= Max(S)
  <1> DEFINE T == {n - y : y \in S}
  <1>1. Min(T) \in T /\ \A z \in T : Min(T) <= z
    <2>1. \A y \in S : n - y \in Nat OBVIOUS
    <2>2. T \in SUBSET Nat /\ T # {} BY <2>1
    <2> HIDE DEF T
    <2> QED BY <2>2, MinIs
  <1>2. PICK x \in S : Min(T) = n - x BY <1>1
  <1>3. \A y \in S : n - y \in T OBVIOUS
  <1> HIDE DEF T
  <1>4. \A y \in S : x >= y BY <1>1, <1>2, <1>3
  <1> QED BY <1>4 DEF Max

LEMMA SeqOfMap ==
  ASSUME NEW S, NEW n \in Nat, NEW s \in [1..n -> S]
  PROVE  s \in Seq(S) /\ Len(s) = n
  OBVIOUS

LEMMA RowSet ==
  ASSUME NEW S, NEW s \in Seq(S), NEW f \in DOMAIN s, NEW row \in S, NEW t, t = [s EXCEPT ![f] = row]
  PROVE  /\ t \in Seq(S) /\ Len(t) = Len(s) /\ DOMAIN t = DOMAIN s
         /\ t[f] = row /\ \A g \in DOMAIN s : g # f => t[g] = s[g]
  OBVIOUS
LEMMA RowAdd ==
  ASSUME NEW S, NEW s \in Seq(S), NEW row \in S, NEW t, t = Append(s, row)
  PROVE  /\ t \in Seq(S) /\ Len(t) = Len(s) + 1 /\ DOMAIN t = DOMAIN s \cup {Len(t)}
         /\ t[Len(t)] = row /\ \A g \in DOMAIN s : t[g] = s[g]
  OBVIOUS

\* Nothing but the number of remaining disturbances changes in the case of a run.
LEMMA CaseKept ==
  ASSUME TypeWorld, [Next]_vars
  PROVE  /\ TypeWorld' /\ Repos' = Repos /\ Kind' = Kind /\ Local' = Local /\ First' = First
         /\ Candidates' = Candidates /\ world'.case.limit = world.case.limit /\ Rows' = Rows
  <1> DEFINE Same == \E m \in Nat :
                        /\ world' \in [inc : 1..MaxInc, items : Nat \ {0}, case : {[world.case EXCEPT !.more = m]}]
                        /\ world'.items <= world.case.items
  <1>1. CASE UNCHANGED world
    BY <1>1 DEF TypeWorld, Repos, Kind, Local, First, Candidates, Rows
  <1>2. CASE Same
    <2>1. PICK m \in Nat :
             /\ world' \in [inc : 1..MaxInc, items : Nat \ {0}, case : {[world.case EXCEPT !.more = m]}]
             /\ world'.items <= world.case.items
      BY <1>2
    <2>2. /\ world.case \in CaseRecords /\ world'.case = [world.case EXCEPT !.more = m]
          /\ world'.case \in CaseRecords
      BY <2>1 DEF TypeWorld, CaseRecords
    <2>3. /\ world'.case.repos = world.case.repos /\ world'.case.kind = world.case.kind
          /\ world'.case.local = world.case.local /\ world'.case.candidates = world.case.candidates
          /\ world'.case.limit = world.case.limit /\ world'.case.items = world.case.items
      BY <2>2 DEF CaseRecords
    <2>4. TypeWorld' BY <2>1, <2>2, <2>3 DEF TypeWorld, Repos
    <2> QED BY <2>3, <2>4 DEF Repos, Kind, Local, First, Candidates, Rows
  <1> SUFFICES ASSUME Next, world' # world PROVE Same BY <1>1, <1>2 DEF vars
  <1>3. /\ world \in [inc : 1..MaxInc, items : Nat \ {0}, case : CaseRecords]
        /\ world.items <= world.case.items /\ world.case.items \in Nat /\ world.case.more \in Nat
        /\ world.case = [world.case EXCEPT !.more = world.case.more]
    BY DEF TypeWorld, CaseRecords
  <1>4. ASSUME NEW x, Fault(x) PROVE Same
    <2>1. world.case.more - 1 \in Nat BY <1>3, <1>4 DEF Fault
    <2>2. world' = [world EXCEPT !.case = [world.case EXCEPT !.more = world.case.more - 1]]
      BY <1>4 DEF Fault
    <2> HIDE DEF CaseRecords
    <2>3. world' \in [inc : 1..MaxInc, items : Nat \ {0}, case : {[world.case EXCEPT !.more = world.case.more - 1]}]
      BY <1>3, <2>2
    <2>4. world'.items = world.items BY <1>3, <2>2
    <2> QED BY <1>3, <2>1, <2>3, <2>4
  <1>5. CASE Crash
    <2>1. world.case.more - 1 \in Nat /\ world.inc + 1 \in 1..MaxInc
      BY <1>3, <1>5, LinkedRepairAssumption DEF Crash
    <2>2. world' = [world EXCEPT !.inc = world.inc + 1, !.case = [world.case EXCEPT !.more = world.case.more - 1]]
      BY <1>5 DEF Crash
    <2>3. world' \in [inc : 1..MaxInc, items : Nat \ {0}, case : {[world.case EXCEPT !.more = world.case.more - 1]}]
      BY <1>3, <2>1, <2>2
    <2>4. world'.items = world.items BY <1>3, <2>2
    <2> QED BY <1>3, <2>1, <2>3, <2>4
  <1>6. CASE NextItem
    <2>1. world' = [world EXCEPT !.items = world.items + 1] /\ world.items < world.case.items
      BY <1>6 DEF NextItem
    <2>2. world' \in [inc : 1..MaxInc, items : Nat \ {0}, case : {[world.case EXCEPT !.more = world.case.more]}]
      BY <1>3, <2>1
    <2>3. world'.items = world.items + 1 BY <1>3, <2>1
    <2> QED BY <1>3, <2>1, <2>2, <2>3
  <1> HIDE DEF Same
  <1>7. CASE Reopen BY <1>7, <1>4 DEF Reopen
  <1>8. CASE Control BY <1>8, <1>4 DEF Control
  <1>9. ASSUME NEW r \in Repos, Push(r) PROVE Same BY <1>9, <1>4 DEF Push
  <1> QED BY <1>5, <1>6, <1>7, <1>8, <1>9 DEF Next, Results, SourceStep,
      SourceReply, RunStep, PreMergeStep, MergePR, AcceptMerge, RejectMerge, Accept,
      Reject, FailInfra, Revalidate, RetryInfra, OutOfScope, SourceAttempt, Reserve,
      SourceRecheck, BudgetRecheck, ReadBranch, Freeze, SourceError, PreMergeError,
      Rebind, Bind, CandidateRepair, Candidate, ClosePR, Decide, ExpirePreMerge,
      ClaimPreMerge, FreezePreMerge, Grant, Lift, Settle, Stop, Elapse

LEMMA FirstIn == TypeWorld => First \in Repos /\ Repos \subseteq Nat /\ None \notin Repos
  <1> SUFFICES ASSUME TypeWorld PROVE First \in Repos /\ Repos \subseteq Nat /\ None \notin Repos
    OBVIOUS
  <1>1. Repos \subseteq Nat /\ Repos # {} /\ 0 \notin Repos BY DEF TypeWorld, Repos, CaseRecords
  <1> QED BY <1>1, MinIs DEF First, None

LEMMA RowAt == TypeFails => \A f \in Ids : fails[f] \in Rows /\ f \in 1..MaxFails /\ f \in 1..Len(fails)
  <1> SUFFICES ASSUME TypeFails, NEW f \in Ids
               PROVE fails[f] \in Rows /\ f \in 1..MaxFails /\ f \in 1..Len(fails)
    OBVIOUS
  <1> HIDE DEF Rows
  <1> QED BY LinkedRepairAssumption DEF TypeFails, Ids

\* A repair goes to a repository that its failure blames.
LEMMA TargetIn ==
  ASSUME TypeWorld, TypeFails, NEW f \in Ids, TargetOf(f) # None
  PROVE  TargetOf(f) \in fails[f].blame /\ fails[f].blame # {}
  <1> DEFINE fresh == fails[f].blame \ Repaired
  <1>1. fails[f].blame \subseteq Repos BY RowAt DEF Rows
  <1>2. fails[f].blame \in SUBSET Nat /\ fresh \in SUBSET Nat BY <1>1, FirstIn
  <1>3. fails[f].blame # {} => Min(fails[f].blame) \in fails[f].blame BY <1>2, MinIs
  <1>4. fresh # {} => Min(fresh) \in fresh BY <1>2, MinIs
  <1> QED BY <1>3, <1>4 DEF TargetOf

\* How a row changes.
LEMMA RowTypes ==
  ASSUME NEW row \in Rows
  PROVE  /\ \A s \in States, why \in Whys : [row EXCEPT !.state = s, !.why = why] \in Rows
         /\ \A s \in States : [row EXCEPT !.state = s] \in Rows
         /\ \A n \in 0..3 : [row EXCEPT !.tries = n, !.due = FALSE] \in Rows
         /\ [row EXCEPT !.due = TRUE] \in Rows /\ [row EXCEPT !.revalidated = TRUE] \in Rows
         /\ \A r \in Repos, b \in Commits : [row EXCEPT !.repo = r, !.base = b] \in Rows
         /\ \A b \in Commits : [row EXCEPT !.state = "merged", !.final = b] \in Rows
         /\ \A bl \in SUBSET Repos : [row EXCEPT !.state = "observed", !.why = "", !.blame = bl] \in Rows
  <1> USE DEF Rows
  <1>1. ASSUME NEW s \in States, NEW why \in Whys PROVE [row EXCEPT !.state = s, !.why = why] \in Rows
    OBVIOUS
  <1>2. ASSUME NEW s \in States PROVE [row EXCEPT !.state = s] \in Rows OBVIOUS
  <1>3. ASSUME NEW n \in 0..3, NEW v \in BOOLEAN PROVE [row EXCEPT !.tries = n, !.due = v] \in Rows
    OBVIOUS
  <1>4. ASSUME NEW v \in BOOLEAN PROVE [row EXCEPT !.due = v] \in Rows /\ [row EXCEPT !.revalidated = v] \in Rows
    OBVIOUS
  <1>5. ASSUME NEW r \in Repos, NEW b \in Commits PROVE [row EXCEPT !.repo = r, !.base = b] \in Rows
    OBVIOUS
  <1>6. ASSUME NEW b \in Commits PROVE [row EXCEPT !.state = "merged", !.final = b] \in Rows
    BY DEF States
  <1>7. ASSUME NEW bl \in SUBSET Repos
        PROVE  [row EXCEPT !.state = "observed", !.why = "", !.blame = bl] \in Rows
    BY DEF States, Whys
  <1>8. \A n \in 0..3 : [row EXCEPT !.tries = n, !.due = FALSE] \in Rows BY ONLY <1>3, Zenon
  <1>9. [row EXCEPT !.due = TRUE] \in Rows /\ [row EXCEPT !.revalidated = TRUE] \in Rows
    BY ONLY <1>4, Zenon
  <1> HIDE DEF Rows
  <1> QED BY <1>1, <1>2, <1>8, <1>9, <1>5, <1>6, <1>7

\* What the columns of a changed row are.
Alike(t, row) ==
    /\ t.kind = row.kind /\ t.affected = row.affected /\ t.repo = row.repo /\ t.base = row.base
    /\ t.blame = row.blame /\ t.final = row.final /\ t.revalidated = row.revalidated

\* The row that a failure leaves.
LEMMA RowNew ==
  ASSUME Types, NEW kind \in {"merge", "integration", "premerge"}, NEW blame \in SUBSET Repos
  PROVE  /\ Failure(kind, blame) \in Rows
         /\ Failure(kind, blame).state = "observed" /\ Failure(kind, blame).kind = kind
         /\ Failure(kind, blame).blame = blame /\ Failure(kind, blame).repo = None
         /\ Failure(kind, blame).base = Nowhere /\ Failure(kind, blame).why = ""
         /\ ~Failure(kind, blame).revalidated
         /\ kind = "integration" => Failure(kind, blame).affected = binding
         /\ kind # "integration" => \A r \in Repos : Failure(kind, blame).affected[r] = item.sha
  <1>1. item.sha \in Commits /\ binding \in [Repos -> Commits]
    BY DEF Types, TypeItem, TypeBinding, Commits
  <1>2. [r \in Repos |-> item.sha] \in [Repos -> Commits] BY <1>1
  <1>3. Nowhere \in Commits BY DEF Commits
  <1> DEFINE fill(a, v, u) == [state |-> "observed", kind |-> kind, blame |-> blame, affected |-> a, repo |-> None,
                            base |-> Nowhere, final |-> Nowhere, tries |-> 0, due |-> v, why |-> "", revalidated |-> u]
  <1>4. ASSUME NEW a \in [Repos -> Commits], NEW v \in BOOLEAN, NEW u \in BOOLEAN PROVE fill(a, v, u) \in Rows
    BY <1>3 DEF Rows, States, Whys
  <1> HIDE DEF Rows
  <1>5. Failure(kind, blame) = IF kind = "integration" THEN fill(binding, TRUE, FALSE)
                               ELSE fill([r \in Repos |-> item.sha], TRUE, FALSE)
    BY DEF Failure
  <1>6. Failure(kind, blame) \in Rows
    <2> HIDE DEF fill
    <2> QED BY ONLY <1>1, <1>2, <1>4, <1>5, Zenon
  <1> QED BY <1>6 DEF Failure

LEMMA ShaIs == TypeItem => item.sha # Nowhere
  BY LinkedRepairAssumption DEF TypeItem, Nowhere, Pushed

LEMMA MergeRow ==
  ASSUME Types, NEW r \in Repos
  PROVE  LET row == Failure("merge", {r})
         IN /\ row \in Rows /\ row.state = "observed" /\ row.kind = "merge" /\ row.blame = {r}
            /\ row.repo = None /\ row.base = Nowhere /\ row.why = "" /\ ~row.revalidated
            /\ \A q \in Repos : row.affected[q] = item.sha
  <1>1. {r} \in SUBSET Repos /\ "merge" \in {"merge", "integration", "premerge"} /\ "merge" # "integration"
    OBVIOUS
  <1>2. Failure("merge", {r}) \in Rows BY ONLY Types, <1>1, RowNew, Zenon
  <1> QED BY <1>1, <1>2 DEF Failure

LEMMA VersionRow ==
  ASSUME Types, NEW blame \in SUBSET Repos
  PROVE  LET row == Failure("integration", blame)
         IN /\ row \in Rows /\ row.state = "observed" /\ row.kind = "integration" /\ row.blame = blame
            /\ row.repo = None /\ row.base = Nowhere /\ row.why = "" /\ ~row.revalidated
            /\ row.affected = binding
  <1>1. "integration" \in {"merge", "integration", "premerge"} OBVIOUS
  <1>2. Failure("integration", blame) \in Rows BY ONLY Types, <1>1, RowNew, Zenon
  <1> QED BY <1>1, <1>2 DEF Failure

LEMMA States6 == TypeFails => \A f \in Ids : fails[f].state \in {"observed", "reserved", "merged", "complete", "blocked", "cancelled"}
  <1> SUFFICES ASSUME TypeFails, NEW f \in Ids PROVE fails[f].state \in States BY DEF States
  <1> QED BY RowAt DEF Rows

----------------------------------------------------------------------------
(* What a step does to the rows, row by row.                               *)

SameLength == TypeFails' /\ Len(fails') = Len(fails) /\ Ids' = Ids
Replaces(f, row) ==
    /\ SameLength
    /\ row \in Rows /\ fails'[f] = row
    /\ \A g \in Ids : g # f => fails'[g] = fails[g]
Adds(row) ==
    /\ TypeFails' /\ Len(fails') = Len(fails) + 1 /\ Ids' = Ids \cup {Len(fails')}
    /\ row \in Rows /\ fails'[Len(fails')] = row

LEMMA FailSet ==
  ASSUME TypeFails, Rows' = Rows, NEW f \in Ids, NEW row \in Rows, SetFail(f, row)
  PROVE  Replaces(f, row)
  <1> HIDE DEF Rows
  <1> DEFINE t == fails'
  <1>1. t = [fails EXCEPT ![f] = row] /\ fails \in Seq(Rows) /\ f \in DOMAIN fails
    BY DEF SetFail, TypeFails, Ids
  <1>2. /\ t \in Seq(Rows) /\ Len(t) = Len(fails) /\ DOMAIN t = DOMAIN fails
        /\ t[f] = row /\ \A g \in DOMAIN fails : g # f => t[g] = fails[g]
    <2> HIDE DEF t
    <2> QED BY <1>1, RowSet
  <1> QED BY <1>2 DEF Replaces, SameLength, TypeFails, Ids

LEMMA FailAdd ==
  ASSUME TypeFails, Rows' = Rows, NEW rows \in Seq(Rows), Len(rows) = Len(fails), Len(fails) < MaxFails,
         NEW row \in Rows, fails' = Append(rows, row)
  PROVE  Adds(row) /\ \A g \in Ids : fails'[g] = rows[g]
  <1> HIDE DEF Rows
  <1> DEFINE t == fails'
  <1>1. DOMAIN rows = DOMAIN fails /\ fails \in Seq(Rows) BY DEF TypeFails
  <1>2. /\ t \in Seq(Rows) /\ Len(t) = Len(rows) + 1 /\ DOMAIN t = DOMAIN rows \cup {Len(t)}
        /\ t[Len(t)] = row /\ \A g \in DOMAIN rows : t[g] = rows[g]
    <2>1. t = Append(rows, row) OBVIOUS
    <2> HIDE DEF t
    <2> QED BY <2>1, RowAdd
  <1>3. Len(t) <= MaxFails BY <1>1, <1>2, LinkedRepairAssumption DEF TypeFails
  <1> QED BY <1>1, <1>2, <1>3 DEF Adds, TypeFails, Ids

LEMMA FailMap ==
  ASSUME TypeFails, Rows' = Rows, NEW rows \in [Ids -> Rows], fails' = rows
  PROVE  SameLength /\ \A g \in Ids : fails'[g] = rows[g]
  <1> HIDE DEF Rows
  <1>1. Ids = 1..Len(fails) /\ Len(fails) \in Nat BY DEF TypeFails, Ids
  <1>2. rows \in Seq(Rows) /\ Len(rows) = Len(fails) BY <1>1, SeqOfMap
  <1> QED BY <1>1, <1>2 DEF SameLength, TypeFails, Ids

\* The repository of a delivery.
LEMMA TargetRepo ==
  ASSUME IInv, item.stage \in {"open", "merged"}
  PROVE  /\ Target(item.pr) \in Repos
         /\ item.pr # 0 => item.pr \in Ids /\ fails[item.pr].base \in SUBSET (0..Pushed)
  <1>1. CASE item.pr = 0 BY <1>1, FirstIn DEF IInv, Types, Target
  <1>2. CASE item.pr # 0
    <2>1. item.pr \in Ids /\ fails[item.pr].state = "reserved"
      BY <1>2 DEF IInv, Types, TypeFails, TypeItem, OneUnresolved, Ids
    <2>2. fails[item.pr].repo # None /\ fails[item.pr].base # Nowhere
      BY <2>1 DEF IInv, RowsConsistent, RowConsistent
    <2> QED BY <1>2, <2>1, <2>2, RowAt DEF IInv, Types, Rows, Commits, Target
  <1> QED BY <1>1, <1>2

LEMMA MergedType ==
  ASSUME Types, NEW f \in Ids
  PROVE  LET row == Merged(f)
         IN /\ row \in Rows
            /\ row.kind = fails[f].kind /\ row.affected = fails[f].affected /\ row.repo = fails[f].repo
            /\ row.base = fails[f].base /\ row.blame = fails[f].blame /\ row.why = fails[f].why
            /\ row.revalidated = fails[f].revalidated /\ row.state = "merged" /\ row.final = item.sha
  <1>1. item.sha \in Commits /\ fails[f] \in Rows BY RowAt DEF Types, TypeItem, Commits
  <1>2. Merged(f) \in Rows BY <1>1, RowTypes DEF Merged
  <1>3. Merged(f) = [fails[f] EXCEPT !.state = "merged", !.final = item.sha] BY DEF Merged
  <1> QED BY ONLY <1>1, <1>2, <1>3 DEF Rows

LEMMA Effects ==
  ASSUME IInv, Rows' = Rows
  PROVE  /\ AcceptMerge => SameLength /\ \A g \in Ids : fails'[g] =
               LET row == IF g = item.pr THEN Merged(g) ELSE fails[g]
               IN IF Kind = "code" /\ row.state \in {"merged", "reserved"} THEN [row EXCEPT !.state = "complete"] ELSE row
         /\ RejectMerge => /\ Adds(Failure("merge", {Target(item.pr)}))
                           /\ \A g \in Ids : fails'[g] = IF g = item.pr THEN Merged(g) ELSE fails[g]
         /\ Accept => SameLength /\ \A g \in Ids : fails'[g] =
               IF fails[g].state = "merged" THEN [fails[g] EXCEPT !.state = "complete"] ELSE fails[g]
         /\ Reject => \E blame \in SUBSET Repos : /\ Adds(Failure("integration", blame))
                                                  /\ \A g \in Ids : fails'[g] = fails[g]
         /\ Revalidate => LET f == Max(Revalidatable)
                          IN /\ f \in Revalidatable /\ \A g \in Revalidatable : g <= f
                             /\ Replaces(f, [fails[f] EXCEPT !.revalidated = TRUE])
         /\ \A f \in Ids :
              /\ OutOfScope(f) => Replaces(f, BlockRow(f, "scope"))
              /\ SourceAttempt(f) => IF fails[f].tries < 3
                    THEN Replaces(f, [fails[f] EXCEPT !.tries = @ + 1, !.due = FALSE])
                    ELSE Replaces(f, BlockRow(f, "tries"))
              /\ Reserve(f) => IF Quota THEN Replaces(f, [fails[f] EXCEPT !.state = "reserved"])
                                        ELSE Replaces(f, BlockRow(f, "budget"))
              /\ SourceRecheck(f) => \E blame \in SUBSET Repos :
                    Replaces(f, [fails[f] EXCEPT !.state = "observed", !.why = "", !.blame = blame])
              /\ BudgetRecheck(f) => Replaces(f, [fails[f] EXCEPT !.state = "observed", !.why = ""])
         /\ Freeze => IF ~Contains(src.base, fails[src.f].affected[src.repo])
               THEN IF fails[src.f].state = "observed" THEN Replaces(src.f, BlockRow(src.f, "branch")) ELSE UNCHANGED fails
               ELSE IF Authorized /\ Unfrozen(src.f)
               THEN Replaces(src.f, [fails[src.f] EXCEPT !.repo = src.repo, !.base = src.base])
               ELSE UNCHANGED fails
         /\ SourceError => IF src.repo \in Local /\ fails[src.f].state = "observed"
               THEN Replaces(src.f, BlockRow(src.f, "local")) ELSE UNCHANGED fails
         /\ \A c \in Candidates : Candidate(c) =>
               IF c = "in" THEN UNCHANGED fails ELSE res.f \in Ids /\ Replaces(res.f, BlockRow(res.f, "candidate"))
         /\ FreezePreMerge => \/ UNCHANGED <<fails, pm>>
                              \/ /\ Authorized /\ pm.closed /\ pm.state = "pending" /\ fails = <<>>
                                 /\ pm' = [pm EXCEPT !.state = "ready"]
                                 /\ Adds([Failure("premerge", {First}) EXCEPT !.repo = First, !.base = src.base])
         /\ Settle => SameLength /\ \A g \in Ids : fails'[g] =
               IF fails[g].state = "complete" THEN fails[g] ELSE [fails[g] EXCEPT !.state = "cancelled"]
         /\ Elapse => SameLength /\ \A g \in Ids : fails'[g] = [fails[g] EXCEPT !.due = TRUE]
  <1>0. TypeFails /\ TypeWorld /\ Types /\ Rows' = Rows /\ \A f \in Ids : fails[f] \in Rows
    BY RowAt DEF IInv, Types
  <1>1. {"observed", "reserved", "merged", "complete", "blocked", "cancelled"} \subseteq States BY DEF States
  <1>2. {"", "scope", "tries", "branch", "budget", "candidate", "local"} \subseteq Whys BY DEF Whys
  <1>3. ASSUME NEW f \in Ids, NEW why \in Whys PROVE BlockRow(f, why) \in Rows
    BY <1>0, <1>1, RowTypes DEF BlockRow
  <1>4. ASSUME NEW f \in Ids PROVE Merged(f) \in Rows BY <1>0, MergedType
  <1>5. world.case.fails <= MaxFails /\ world.case.fails \in Nat /\ MaxFails \in Nat /\ Len(fails) \in Nat
    BY <1>0, LinkedRepairAssumption DEF TypeWorld, CaseRecords, TypeFails
  <1>6. src.f # None => src.f \in Ids /\ src.repo \in Repos
    <2>1. src.f # None => src.f \in Ids /\ src.repo \in fails[src.f].blame BY DEF IInv, SourceCurrent, ReadCurrent, DecisionCurrent
    <2> QED BY <2>1, <1>0 DEF Rows
  <1>7. src # NoSource => src.base \in Commits BY <1>0 DEF Types, TypeSrc
  <1> HIDE DEF Rows
  <1>a. Ids = 1..Len(fails) /\ fails \in Seq(Rows) /\ fails \in [Ids -> Rows] /\ DOMAIN fails = Ids
    BY <1>0 DEF TypeFails, Ids
  <1>b. item.pr # 0 /\ item.stage \in {"open", "merged"} => item.pr \in Ids BY TargetRepo
  <1> USE FailSet, <1>0, <1>1, <1>2, <1>3
  <1>8. ASSUME AcceptMerge
        PROVE  SameLength /\ \A g \in Ids : fails'[g] =
               LET row == IF g = item.pr THEN Merged(g) ELSE fails[g]
               IN IF Kind = "code" /\ row.state \in {"merged", "reserved"} THEN [row EXCEPT !.state = "complete"] ELSE row
    <2> DEFINE rows == IF item.pr = 0 THEN fails ELSE [fails EXCEPT ![item.pr] = Merged(item.pr)]
    <2>1. rows \in [Ids -> Rows] /\ \A g \in Ids : rows[g] = IF g = item.pr THEN Merged(g) ELSE fails[g]
      BY ONLY <1>8, <1>4, <1>a, <1>b DEF AcceptMerge
    <2>2. fails' = IF Kind = "code" THEN Completed(rows) ELSE rows BY <1>8 DEF AcceptMerge
    <2> HIDE DEF rows
    <2>3. DOMAIN rows = Ids BY <2>1
    <2>4. CASE Kind = "code"
      <3> DEFINE all == [g \in Ids |-> IF rows[g].state \in {"merged", "reserved"} THEN [rows[g] EXCEPT !.state = "complete"] ELSE rows[g]]
      <3>1. fails' = all BY <2>2, <2>3, <2>4 DEF Completed
      <3>2. all \in [Ids -> Rows] BY ONLY <1>1, <2>1, RowTypes
      <3> HIDE DEF all
      <3>3. SameLength /\ \A g \in Ids : fails'[g] = all[g] BY <3>1, <3>2, FailMap
      <3> QED BY <2>1, <2>4, <3>3 DEF all
    <2>5. CASE Kind # "code" BY <2>1, <2>2, <2>5, FailMap
    <2> QED BY <2>4, <2>5
  <1>9. ASSUME RejectMerge
        PROVE  /\ Adds(Failure("merge", {Target(item.pr)}))
               /\ \A g \in Ids : fails'[g] = IF g = item.pr THEN Merged(g) ELSE fails[g]
    <2> DEFINE rows == IF item.pr = 0 THEN fails ELSE [fails EXCEPT ![item.pr] = Merged(item.pr)]
    <2>1. /\ rows \in Seq(Rows) /\ Len(rows) = Len(fails)
          /\ \A g \in Ids : rows[g] = IF g = item.pr THEN Merged(g) ELSE fails[g]
      <3>1. CASE item.pr = 0 BY ONLY <1>a, <3>1
      <3>2. CASE item.pr # 0
        <4>1. item.pr \in DOMAIN fails /\ Merged(item.pr) \in Rows /\ fails \in Seq(Rows)
          BY <1>9, <1>4, <3>2, TargetRepo DEF RejectMerge, Ids, TypeFails
        <4>2. rows = [fails EXCEPT ![item.pr] = Merged(item.pr)] BY <3>2
        <4> HIDE DEF rows
        <4>3. /\ rows \in Seq(Rows) /\ Len(rows) = Len(fails)
              /\ rows[item.pr] = Merged(item.pr) /\ \A g \in DOMAIN fails : g # item.pr => rows[g] = fails[g]
          BY ONLY <4>1, <4>2, RowSet
        <4> QED BY <4>3 DEF Ids
      <3> QED BY <3>1, <3>2
    <2>2. fails' = Append(rows, Failure("merge", {Target(item.pr)})) /\ Len(fails) < MaxFails
      BY ONLY <1>9, <1>5 DEF RejectMerge
    <2>3. Failure("merge", {Target(item.pr)}) \in Rows
      <3>1. Target(item.pr) \in Repos BY <1>9, TargetRepo DEF RejectMerge
      <3> QED BY ONLY <1>0, <3>1, MergeRow
    <2> HIDE DEF rows
    <2>4. Adds(Failure("merge", {Target(item.pr)})) /\ \A g \in Ids : fails'[g] = rows[g]
      BY <2>1, <2>2, <2>3, FailAdd
    <2> QED BY <2>1, <2>4
  <1>10. ASSUME Accept
         PROVE  SameLength /\ \A g \in Ids : fails'[g] =
               IF fails[g].state = "merged" THEN [fails[g] EXCEPT !.state = "complete"] ELSE fails[g]
    <2> DEFINE all == [g \in Ids |-> IF fails[g].state = "merged" THEN [fails[g] EXCEPT !.state = "complete"] ELSE fails[g]]
    <2>1. fails' = all BY <1>10 DEF Accept
    <2>2. all \in [Ids -> Rows] BY ONLY <1>0, <1>1, RowTypes
    <2> HIDE DEF all
    <2>3. SameLength /\ \A g \in Ids : fails'[g] = all[g] BY <2>1, <2>2, FailMap
    <2> QED BY <2>3 DEF all
  <1>11. ASSUME Reject
         PROVE  \E blame \in SUBSET Repos : /\ Adds(Failure("integration", blame))
                                            /\ \A g \in Ids : fails'[g] = fails[g]
    <2>1. PICK blame \in Blames : fails' = Append(fails, Failure("integration", blame))
      BY ONLY <1>11 DEF Reject
    <2>2. blame \in SUBSET Repos BY DEF Blames
    <2>3. Failure("integration", blame) \in Rows BY <2>2, RowNew
    <2>4. fails \in Seq(Rows) /\ Len(fails) < MaxFails BY ONLY <1>11, <1>5, <1>a DEF Reject
    <2> QED BY <2>1, <2>2, <2>3, <2>4, FailAdd
  <1>12. ASSUME Revalidate
         PROVE  LET f == Max(Revalidatable)
                IN /\ f \in Revalidatable /\ \A g \in Revalidatable : g <= f
                   /\ Replaces(f, [fails[f] EXCEPT !.revalidated = TRUE])
    <2> DEFINE f == Max(Revalidatable)
    <2>1. Revalidatable # {} /\ SetFail(f, [fails[f] EXCEPT !.revalidated = TRUE]) BY <1>12 DEF Revalidate
    <2>2. Revalidatable \in SUBSET (1..Len(fails)) BY ONLY <1>a DEF Revalidatable
    <2>3. f \in Revalidatable /\ \A g \in Revalidatable : g <= f BY <1>5, <2>1, <2>2, MaxIs
    <2> HIDE DEF f
    <2>4. f \in Ids BY <2>3 DEF Revalidatable
    <2>5. Replaces(f, [fails[f] EXCEPT !.revalidated = TRUE]) BY <2>1, <2>4, RowTypes
    <2> QED BY <2>3, <2>5 DEF f
  <1>13. ASSUME NEW f \in Ids, OutOfScope(f) PROVE Replaces(f, BlockRow(f, "scope"))
    BY <1>13 DEF OutOfScope
  <1>14. ASSUME NEW f \in Ids, SourceAttempt(f)
         PROVE  IF fails[f].tries < 3 THEN Replaces(f, [fails[f] EXCEPT !.tries = @ + 1, !.due = FALSE])
                                      ELSE Replaces(f, BlockRow(f, "tries"))
    <2>1. fails[f].tries < 3 => fails[f].tries + 1 \in 0..3
      <3>1. fails[f].tries \in 0..3 BY DEF Rows
      <3> QED BY ONLY <3>1
    <2> QED BY <1>14, <2>1, RowTypes DEF SourceAttempt
  <1>15. ASSUME NEW f \in Ids, Reserve(f)
         PROVE  IF Quota THEN Replaces(f, [fails[f] EXCEPT !.state = "reserved"])
                         ELSE Replaces(f, BlockRow(f, "budget"))
    BY <1>15, RowTypes DEF Reserve
  <1>16. ASSUME NEW f \in Ids, SourceRecheck(f)
         PROVE  \E blame \in SUBSET Repos :
                    Replaces(f, [fails[f] EXCEPT !.state = "observed", !.why = "", !.blame = blame])
    BY <1>16, RowTypes DEF SourceRecheck
  <1>17. ASSUME NEW f \in Ids, BudgetRecheck(f)
         PROVE  Replaces(f, [fails[f] EXCEPT !.state = "observed", !.why = ""])
    BY <1>17, RowTypes DEF BudgetRecheck
  <1>18. ASSUME Freeze
         PROVE  IF ~Contains(src.base, fails[src.f].affected[src.repo])
               THEN IF fails[src.f].state = "observed" THEN Replaces(src.f, BlockRow(src.f, "branch")) ELSE UNCHANGED fails
               ELSE IF Authorized /\ Unfrozen(src.f)
               THEN Replaces(src.f, [fails[src.f] EXCEPT !.repo = src.repo, !.base = src.base])
               ELSE UNCHANGED fails
    <2>1. src.f \in Ids /\ src.repo \in Repos /\ src.base \in Commits 
      BY ONLY <1>18, <1>6, <1>7 DEF Freeze, NoSource
    <2>2. [fails[src.f] EXCEPT !.repo = src.repo, !.base = src.base] \in Rows BY <2>1, RowTypes
    <2> QED BY <1>18, <2>1, <2>2 DEF Freeze, SetFail
  <1>19. ASSUME SourceError
         PROVE  IF src.repo \in Local /\ fails[src.f].state = "observed"
               THEN Replaces(src.f, BlockRow(src.f, "local")) ELSE UNCHANGED fails
    BY <1>19, <1>6 DEF SourceError, SetFail
  <1>20. ASSUME NEW c \in Candidates, Candidate(c)
         PROVE  IF c = "in" THEN UNCHANGED fails ELSE res.f \in Ids /\ Replaces(res.f, BlockRow(res.f, "candidate"))
    <2>1. res.f \in Ids 
      <3>1. res.f # 0 /\ res.f = Len(fails) /\ res.f \in 0..MaxFails
        BY <1>20 DEF Candidate, IInv, ReservationOfLast, Types, TypeRes, None
      <3> QED BY ONLY <3>1, <1>a, <1>5
    <2> QED BY <1>20, <2>1 DEF Candidate
  <1>21. ASSUME FreezePreMerge
         PROVE  \/ UNCHANGED <<fails, pm>>
                \/ /\ Authorized /\ pm.closed /\ pm.state = "pending" /\ fails = <<>>
                   /\ pm' = [pm EXCEPT !.state = "ready"]
                   /\ Adds([Failure("premerge", {First}) EXCEPT !.repo = First, !.base = src.base])
    <2>0. SUFFICES ASSUME Authorized, pm.closed, pm.state = "pending", Len(fails) < world.case.fails
                 PROVE  /\ fails = <<>> /\ pm' = [pm EXCEPT !.state = "ready"]
                        /\ Adds([Failure("premerge", {First}) EXCEPT !.repo = First, !.base = src.base])
      BY <1>21 DEF FreezePreMerge
    <2>1. fails = <<>> BY <2>0 DEF IInv, SourceCurrent, ReadCurrent, DecisionCurrent
    <2>2. First \in Repos /\ Failure("premerge", {First}) \in Rows 
      <3>1. First \in Repos /\ {First} \in SUBSET Repos BY FirstIn
      <3> QED BY ONLY <1>0, <3>1, RowNew
    <2>3. [Failure("premerge", {First}) EXCEPT !.repo = First, !.base = src.base] \in Rows
      BY <1>21, <1>7, <2>2, RowTypes DEF FreezePreMerge
    <2>4. fails \in Seq(Rows) /\ Len(fails) < MaxFails BY ONLY <1>5, <1>a, <2>0
    <2>5. /\ fails' = Append(fails, [Failure("premerge", {First}) EXCEPT !.repo = First, !.base = src.base])
          /\ pm' = [pm EXCEPT !.state = "ready"]
      BY ONLY <1>21, <2>0 DEF FreezePreMerge
    <2> QED BY ONLY <1>0, <2>1, <2>3, <2>4, <2>5, FailAdd
  <1>22. ASSUME Settle
         PROVE  SameLength /\ \A g \in Ids : fails'[g] =
               IF fails[g].state = "complete" THEN fails[g] ELSE [fails[g] EXCEPT !.state = "cancelled"]
    <2> DEFINE all == [g \in Ids |-> IF fails[g].state = "complete" THEN fails[g] ELSE [fails[g] EXCEPT !.state = "cancelled"]]
    <2>1. fails' = all BY <1>22 DEF Settle
    <2>2. all \in [Ids -> Rows] BY ONLY <1>0, <1>1, RowTypes
    <2> HIDE DEF all
    <2>3. SameLength /\ \A g \in Ids : fails'[g] = all[g] BY <2>1, <2>2, FailMap
    <2> QED BY <2>3 DEF all
  <1>23. ASSUME Elapse PROVE SameLength /\ \A g \in Ids : fails'[g] = [fails[g] EXCEPT !.due = TRUE]
    <2> DEFINE all == [g \in Ids |-> [fails[g] EXCEPT !.due = TRUE]]
    <2>1. fails' = all BY <1>23 DEF Elapse
    <2>2. all \in [Ids -> Rows] BY ONLY <1>0, <1>1, RowTypes
    <2> HIDE DEF all
    <2>3. SameLength /\ \A g \in Ids : fails'[g] = all[g] BY <2>1, <2>2, FailMap
    <2> QED BY <2>3 DEF all
  <1> QED BY ONLY <1>8, <1>9, <1>10, <1>11, <1>12, <1>13, <1>14, <1>15, <1>16, <1>17, <1>18, <1>19, <1>20,
             <1>21, <1>22, <1>23

LEMMA NewItemType ==
  NewItem \in [stage: Stages, pr: 0..MaxFails, sha: SUBSET (0..Pushed), cand: Candidates \cup {"in"},
              paused: BOOLEAN, cancelled: BOOLEAN, revoked: BOOLEAN, done: BOOLEAN, owner: BOOLEAN]
  <1> DEFINE fill(t, u) == [stage |-> IF Kind = "code" THEN "open" ELSE "validating", pr |-> 0, sha |-> {}, cand |-> "in",
                            paused |-> u, cancelled |-> u, revoked |-> u, done |-> u, owner |-> t]
             Items == [stage: Stages, pr: 0..MaxFails, sha: SUBSET (0..Pushed), cand: Candidates \cup {"in"},
                       paused: BOOLEAN, cancelled: BOOLEAN, revoked: BOOLEAN, done: BOOLEAN, owner: BOOLEAN]
  <1>1. ASSUME NEW t \in BOOLEAN, NEW u \in BOOLEAN PROVE fill(t, u) \in Items
    BY LinkedRepairAssumption DEF Stages
  <1>2. NewItem = fill(TRUE, FALSE) BY DEF NewItem
  <1> HIDE DEF fill, Items
  <1>3. NewItem \in Items BY ONLY <1>1, <1>2, Zenon
  <1> QED BY <1>3 DEF Items

LEMMA TypeInit == Init => Types
  <1> SUFFICES ASSUME Init PROVE Types OBVIOUS
  <1>1. PICK c \in Cases : world = [inc |-> 1, items |-> 1, case |-> c] BY DEF Init
  <1>2. c \in CaseRecords /\ c.repos # {} /\ 1 \in 1..MaxInc /\ 1 \in Nat \ {0} BY LinkedRepairAssumption
  <1>3. c.items \in Nat \ {0} /\ c.money \in Nat BY <1>2 DEF CaseRecords
  <1>4. TypeWorld
    <2> HIDE DEF CaseRecords
    <2> QED BY <1>1, <1>2, <1>3 DEF TypeWorld, Repos
  <1>5. Nowhere \in Commits /\ {} \in SUBSET (0..Pushed) /\ MaxFails \in Nat
    BY LinkedRepairAssumption DEF Commits
  <1> USE <1>5
  <1>6. TypeItem BY NewItemType DEF Init, TypeItem
  <1>7. TypeFails BY DEF Init, TypeFails
  <1>8. TypeRes BY LinkedRepairAssumption DEF Init, TypeRes, NoReservation, None
  <1>9. TypeAccount BY <1>1, <1>3 DEF Init, TypeAccount, NewAccount
  <1>10. TypeBranch /\ TypeBinding BY DEF Init, TypeBranch, TypeBinding
  <1>11. TypeSrc BY DEF Init, TypeSrc, NoSource, None
  <1>12. TypePm BY DEF Init, TypePm, NoDecision
  <1> QED BY <1>4, <1>6, <1>7, <1>8, <1>9, <1>10, <1>11, <1>12 DEF Types

\* What a step leaves alone keeps its type.
LEMMA TypeKept == Types /\ TypeWorld' /\ Repos' = Repos /\ Candidates' = Candidates /\ Rows' = Rows =>
    /\ UNCHANGED item => TypeItem'
    /\ UNCHANGED fails => TypeFails'
    /\ UNCHANGED res => TypeRes'
    /\ UNCHANGED account => TypeAccount'
    /\ UNCHANGED branch => TypeBranch'
    /\ UNCHANGED binding => TypeBinding'
    /\ UNCHANGED src => TypeSrc'
    /\ UNCHANGED pm => TypePm'
  BY DEF Types, TypeItem, TypeFails, TypeRes, TypeAccount, TypeBranch, TypeBinding, TypeSrc, TypePm

LEMMA FreeRes == TypeRes => \A v \in BOOLEAN :
    [NoReservation EXCEPT !.stale = v] \in
        [f: 0..MaxFails, inc: 0..MaxInc, status: {"none", "reserved", "started"}, stale: BOOLEAN]
  <1> SUFFICES ASSUME NEW v \in BOOLEAN
               PROVE  [NoReservation EXCEPT !.stale = v] \in
                         [f: 0..MaxFails, inc: 0..MaxInc, status: {"none", "reserved", "started"}, stale: BOOLEAN]
    OBVIOUS
  <1>1. 0 \in 0..MaxFails /\ 0 \in 0..MaxInc BY LinkedRepairAssumption
  <1> QED BY <1>1 DEF NoReservation, None

\* A repair that was merged has its repository, its baseline and its result.
LEMMA FixedType ==
  ASSUME IInv, NEW f \in Ids, Fixed(f)
  PROVE  /\ fails[f].repo \in Repos /\ fails[f].base \in SUBSET (0..Pushed)
         /\ fails[f].final \in SUBSET (0..Pushed)
  <1>1. /\ fails[f].repo # None /\ fails[f].base # Nowhere
        /\ fails[f].final # Nowhere
    BY DEF IInv, RowsConsistent, RowConsistent, Fixed
  <1>2. fails[f] \in Rows BY RowAt DEF IInv, Types
  <1> QED BY <1>1, <1>2 DEF Rows, Commits

\* What is being frozen has a repository.
LEMMA SrcRepo == ASSUME IInv, src # NoSource PROVE src.repo \in Repos
  <1>1. CASE src.f # None
    <2>1. src.f \in Ids /\ src.repo \in fails[src.f].blame BY <1>1 DEF IInv, SourceCurrent, ReadCurrent, DecisionCurrent
    <2>2. fails[src.f] \in Rows BY <2>1, RowAt DEF IInv, Types
    <2> QED BY <2>1, <2>2 DEF Rows
  <1>2. CASE src.f = None BY <1>2, FirstIn DEF IInv, SourceCurrent, ReadCurrent, DecisionCurrent, Types
  <1> QED BY <1>1, <1>2

LEMMA TypeStep == IInv /\ [Next]_vars => Types'
  <1> SUFFICES ASSUME IInv, [Next]_vars PROVE Types' OBVIOUS
  <1>0. /\ Types /\ TypeWorld /\ TypeItem /\ TypeFails /\ TypeRes /\ TypeAccount /\ TypeBranch
        /\ TypeBinding /\ TypeSrc /\ TypePm
        /\ TypeWorld' /\ Repos' = Repos /\ Kind' = Kind /\ Local' = Local /\ First' = First
        /\ Candidates' = Candidates /\ world'.case.limit = world.case.limit /\ Rows' = Rows
        /\ MaxFails \in Nat /\ Nowhere \in Commits /\ SUBSET (0..Pushed) \subseteq Commits /\ 0 \in 0..MaxFails
    BY CaseKept, LinkedRepairAssumption DEF IInv, Types, Commits
  <1> USE DEF Types
  <1>1. CASE MergePR
    <2>1. TypeBranch'
      <3> DEFINE head == {item.pr} \cup IF item.pr = 0 THEN {} ELSE fails[item.pr].base
      <3>1. Target(item.pr) \in Repos /\ (item.pr # 0 => fails[item.pr].base \in SUBSET (0..Pushed))
        BY <1>1, TargetRepo DEF MergePR
      <3>2. item.pr \in 0..Pushed BY <1>0 DEF TypeItem, Pushed
      <3>3. head \in SUBSET (0..Pushed) BY <3>1, <3>2
      <3>4. branch' = [branch EXCEPT ![Target(item.pr)] = @ \cup head] BY <1>1 DEF MergePR
      <3> HIDE DEF head
      <3> QED BY <1>0, <3>1, <3>3, <3>4 DEF TypeBranch
    <2>2. TypeItem'
      <3> DEFINE head == {item.pr} \cup IF item.pr = 0 THEN {} ELSE fails[item.pr].base
      <3>1. Target(item.pr) \in Repos /\ (item.pr # 0 => fails[item.pr].base \in SUBSET (0..Pushed))
        BY <1>1, TargetRepo DEF MergePR
      <3>2. item.pr \in 0..Pushed BY <1>0 DEF TypeItem, Pushed
      <3>3. head \in SUBSET (0..Pushed) BY <3>1, <3>2
      <3>4. item' = [item EXCEPT !.stage = "merged", !.sha = branch[Target(item.pr)] \cup head]
        BY <1>1 DEF MergePR
      <3>5. branch[Target(item.pr)] \cup head \in SUBSET (0..Pushed)
        <4> HIDE DEF head
        <4> QED BY <1>0, <3>1, <3>3 DEF TypeBranch
      <3> HIDE DEF head
      <3> QED BY <1>0, <3>4, <3>5 DEF TypeItem, Stages
    <2>3. TypeRes'
      <3>1. Released \in [f: 0..MaxFails, inc: 0..MaxInc, status: {"none", "reserved", "started"}, stale: BOOLEAN]
        BY <1>0, FreeRes DEF Released, TypeRes
      <3> QED BY <1>0, <1>1, <3>1 DEF MergePR, TypeRes
    <2> QED BY <1>0, <1>1, <2>1, <2>2, <2>3, TypeKept DEF MergePR
  <1>2. CASE AcceptMerge
    <2>1. TypeFails' BY <1>0, <1>2, Effects DEF Replaces, Adds, SameLength,
        TypeFails
    <2>2. TypeItem' BY <1>0, <1>2, ZenonT(60) DEF AcceptMerge, TypeItem, Stages
    <2> QED BY <1>0, <1>2, <2>1, <2>2, TypeKept DEF AcceptMerge
  <1>3. CASE RejectMerge
    <2>1. TypeFails' BY <1>0, <1>3, Effects DEF Replaces, Adds, SameLength,
        TypeFails
    <2>2. TypeItem' BY <1>0, <1>3 DEF RejectMerge, TypeItem, Stages
    <2> QED BY <1>0, <1>3, <2>1, <2>2, TypeKept DEF RejectMerge
  <1>4. CASE Accept
    <2>1. TypeFails' BY <1>0, <1>4, Effects DEF Replaces, Adds, SameLength,
        TypeFails
    <2>2. TypeItem' BY <1>0, <1>4 DEF Accept, TypeItem, Stages
    <2> QED BY <1>0, <1>4, <2>1, <2>2, TypeKept DEF Accept
  <1>5. CASE Reject
    <2>1. TypeFails' BY <1>0, <1>5, Effects DEF Replaces, Adds, SameLength,
        TypeFails
    <2>2. TypeItem' BY <1>0, <1>5 DEF Reject, TypeItem, Stages
    <2> QED BY <1>0, <1>5, <2>1, <2>2, TypeKept DEF Reject
  <1>6. CASE FailInfra
    <2>1. TypeItem' BY <1>0, <1>6 DEF FailInfra, TypeItem, Stages
    <2> QED BY <1>0, <1>6, <2>1, TypeKept DEF FailInfra
  <1>7. CASE Revalidate
    <2>1. TypeBinding'
      <3> DEFINE f == Max(Revalidatable)
      <3>1. f \in Ids /\ Fixed(f) BY <1>0, <1>7, Effects DEF Revalidatable, Fixed
      <3>2. binding' = [binding EXCEPT ![fails[f].repo] = fails[f].final] BY <1>7 DEF Revalidate
      <3> HIDE DEF f
      <3>3. fails[f].repo \in Repos /\ fails[f].final \in SUBSET (0..Pushed) BY <3>1, FixedType
      <3> QED BY <1>0, <3>2, <3>3 DEF TypeBinding
    <2>2. TypeFails' BY <1>0, <1>7, Effects DEF Replaces, Adds, SameLength,
        TypeFails
    <2>3. TypeItem' BY <1>0, <1>7 DEF Revalidate, TypeItem, Stages
    <2> QED BY <1>0, <1>7, <2>1, <2>2, <2>3, TypeKept DEF Revalidate
  <1>8. CASE RetryInfra
    <2>1. TypeItem' BY <1>0, <1>8 DEF RetryInfra, TypeItem, Stages
    <2> QED BY <1>0, <1>8, <2>1, TypeKept DEF RetryInfra
  <1>9. ASSUME NEW f \in Ids, OutOfScope(f) PROVE Types'
    <2>1. TypeFails' BY <1>0, <1>9, Effects DEF Replaces, Adds, SameLength,
        TypeFails
    <2> QED BY <1>0, <1>9, <2>1, TypeKept DEF OutOfScope
  <1>10. ASSUME NEW f \in Ids, SourceAttempt(f) PROVE Types'
    <2>1. TypeFails' BY <1>0, <1>10, Effects DEF Replaces, Adds, SameLength,
        TypeFails
    <2>2. TypeSrc'
      <3>1. TargetOf(f) \in Repos /\ f \in 0..MaxFails
        <4>1. TargetOf(f) \in fails[f].blame BY <1>0, <1>10, TargetIn DEF SourceAttempt
        <4> QED BY <1>0, <4>1, RowAt DEF Rows
      <3>2. CASE src' = [f |-> f, repo |-> TargetOf(f), base |-> Nowhere] BY <1>0, <3>1, <3>2 DEF TypeSrc
      <3> QED BY <1>0, <1>10, <3>2, TypeKept DEF SourceAttempt
    <2> QED BY <1>0, <1>10, <2>1, <2>2, TypeKept DEF SourceAttempt
  <1>11. ASSUME NEW f \in Ids, Reserve(f) PROVE Types'
    <2>1. TypeFails' BY <1>0, <1>11, Effects DEF Replaces, Adds, SameLength,
        TypeFails
    <2>2. TypeRes'
      <3>1. f \in 0..MaxFails /\ world.inc \in 0..MaxInc BY <1>0, RowAt DEF TypeWorld
      <3> QED BY <1>0, <1>11, <3>1 DEF Reserve, TypeRes
    <2>3. TypeAccount'
      <3>1. CASE Quota /\ account' = Reserved
        <4>1. account.left - 1 \in Nat /\ account.used + 1 \in Nat BY <1>0, <3>1 DEF Quota, TypeAccount
        <4>2. account' = [account EXCEPT !.used = account.used + 1, !.left = account.left - 1]
          BY <3>1 DEF Reserved
        <4> QED BY <1>0, <4>1, <4>2 DEF TypeAccount
      <3> QED BY <1>0, <1>11, <3>1, TypeKept DEF Reserve
    <2> QED BY <1>0, <1>11, <2>1, <2>2, <2>3, TypeKept DEF Reserve
  <1>12. ASSUME NEW f \in Ids, SourceRecheck(f) PROVE Types'
    <2>1. TypeFails' BY <1>0, <1>12, Effects DEF Replaces, Adds, SameLength,
        TypeFails
    <2> QED BY <1>0, <1>12, <2>1, TypeKept DEF SourceRecheck
  <1>13. ASSUME NEW f \in Ids, BudgetRecheck(f) PROVE Types'
    <2>1. TypeFails' BY <1>0, <1>13, Effects DEF Replaces, Adds, SameLength,
        TypeFails
    <2>2. TypeAccount' BY <1>0, <1>13 DEF BudgetRecheck, TypeAccount
    <2> QED BY <1>0, <1>13, <2>1, <2>2, TypeKept DEF BudgetRecheck
  <1>14. CASE ReadBranch
    <2>1. TypeSrc'
      <3>1. src.repo \in Repos BY <1>14, SrcRepo DEF ReadBranch
      <3>2. branch[src.repo] \in Commits BY <1>0, <3>1 DEF TypeBranch
      <3> QED BY <1>0, <1>14, <3>2 DEF ReadBranch, Commit, TypeSrc
    <2> QED BY <1>0, <1>14, <2>1, TypeKept DEF ReadBranch
  <1>15. CASE Freeze
    <2>1. TypeFails' BY <1>0, <1>15, Effects DEF Replaces, Adds, SameLength,
        TypeFails
    <2>2. TypeSrc' BY <1>0, <1>15 DEF Freeze, NoSource, TypeSrc, None, TypeBranch,
        TypePm
    <2> QED BY <1>0, <1>15, <2>1, <2>2, TypeKept DEF Freeze
  <1>16. CASE SourceError
    <2>1. TypeFails' BY <1>0, <1>16, Effects DEF Replaces, Adds, SameLength,
        TypeFails
    <2>2. TypeSrc' BY <1>0, <1>16 DEF SourceError, NoSource, TypeSrc, None,
        TypeBranch, TypePm
    <2> QED BY <1>0, <1>16, <2>1, <2>2, TypeKept DEF SourceError
  <1>17. CASE PreMergeError
    <2>1. TypeSrc' BY <1>0, <1>17 DEF PreMergeError, NoSource, TypeSrc, None,
        TypeBranch, TypePm
    <2>2. TypePm' BY <1>0, <1>17 DEF PreMergeError, TypePm
    <2> QED BY <1>0, <1>17, <2>1, <2>2, TypeKept DEF PreMergeError
  <1>18. CASE Rebind
    <2>1. TypeRes' BY <1>0, <1>18 DEF Rebind, TypeRes, NoReservation, None,
        TypeWorld
    <2> QED BY <1>0, <1>18, <2>1, TypeKept DEF Rebind
  <1>19. CASE Bind
    <2>1. TypeItem' BY <1>0, <1>19 DEF Bind, TypeItem, Stages
    <2>2. TypeRes' BY <1>0, <1>19 DEF Bind, TypeRes, NoReservation, None, TypeWorld
    <2> QED BY <1>0, <1>19, <2>1, <2>2, TypeKept DEF Bind
  <1>20. CASE CandidateRepair
    <2>1. TypeAccount'
      <3>1. CASE Quota /\ account' = Reserved
        <4>1. account.left - 1 \in Nat /\ account.used + 1 \in Nat BY <1>0, <3>1 DEF Quota, TypeAccount
        <4>2. account' = [account EXCEPT !.used = account.used + 1, !.left = account.left - 1]
          BY <3>1 DEF Reserved
        <4> QED BY <1>0, <4>1, <4>2 DEF TypeAccount
      <3> QED BY <1>0, <1>20, <3>1, TypeKept DEF CandidateRepair
    <2> QED BY <1>0, <1>20, <2>1, TypeKept DEF CandidateRepair
  <1>21. ASSUME NEW c \in Candidates, Candidate(c) PROVE Types'
    <2>1. TypeFails' BY <1>0, <1>21, Effects DEF Replaces, Adds, SameLength,
        TypeFails
    <2>2. TypeItem'
      <3>1. c = "in" => res.f \in 0..MaxFails BY <1>0 DEF TypeRes
      <3> QED BY <1>0, <1>21, <3>1, ZenonT(60) DEF Candidate, TypeItem, Stages
    <2>3. TypeRes'
      <3>1. Released \in [f: 0..MaxFails, inc: 0..MaxInc, status: {"none", "reserved", "started"}, stale: BOOLEAN]
        BY <1>0, FreeRes DEF Released, TypeRes
      <3> QED BY <1>0, <1>21, <3>1 DEF Candidate, TypeRes
    <2> QED BY <1>0, <1>21, <2>1, <2>2, <2>3, TypeKept DEF Candidate
  <1>22. CASE ClosePR
    <2>1. TypeItem' BY <1>0, <1>22 DEF ClosePR, TypeItem, Stages
    <2>2. TypePm'
      <3>1. PICK v \in BOOLEAN : pm' = [pm EXCEPT !.closed = v] BY <1>22 DEF ClosePR
      <3> QED BY <1>0, <3>1 DEF TypePm
    <2> QED BY <1>0, <1>22, <2>1, <2>2, TypeKept DEF ClosePR
  <1>23. CASE Reopen
    <2>1. TypePm'
      <3>1. PICK v \in BOOLEAN : pm' = [pm EXCEPT !.closed = v] BY <1>23 DEF Reopen
      <3> QED BY <1>0, <3>1 DEF TypePm
    <2> QED BY <1>0, <1>23, <2>1, TypeKept DEF Reopen, Fault
  <1>24. CASE Decide
    <2>1. TypePm'
      <3>1. Commit(First) \in Commits /\ 0 \in 0..3 BY <1>0, FirstIn DEF Commit, TypeBranch
      <3>2. ASSUME NEW v \in BOOLEAN, NEW b \in Commits, NEW n \in 0..3,
                   pm' = [pm EXCEPT !.state = "pending", !.base = b, !.tries = n, !.due = v]
            PROVE  TypePm'
        BY <1>0, <3>2 DEF TypePm
      <3>3. pm' = [pm EXCEPT !.state = "pending", !.base = Commit(First), !.tries = 0, !.due = TRUE]
        BY <1>24 DEF Decide
      <3> QED BY ONLY <3>1, <3>2, <3>3, Zenon
    <2> QED BY <1>0, <1>24, <2>1, TypeKept DEF Decide
  <1>25. CASE ExpirePreMerge
    <2>1. TypePm' BY <1>0, <1>25 DEF ExpirePreMerge, PreMergeDue, TypePm
    <2> QED BY <1>0, <1>25, <2>1, TypeKept DEF ExpirePreMerge
  <1>26. CASE ClaimPreMerge
    <2>1. TypeSrc' BY <1>0, <1>26, FirstIn DEF ClaimPreMerge, TypeSrc, TypePm, None
    <2>2. TypePm'
      <3>1. pm.tries + 1 \in 0..3 BY <1>0, <1>26 DEF ClaimPreMerge, TypePm
      <3>2. PICK s \in {"none", "pending", "ready", "blocked"}, v \in {FALSE} :
              pm' = [pm EXCEPT !.tries = pm.tries + 1, !.due = v, !.state = s]
        BY <1>0, <1>26 DEF ClaimPreMerge, TypePm
      <3> QED BY <1>0, <3>1, <3>2 DEF TypePm
    <2> QED BY <1>0, <1>26, <2>1, <2>2, TypeKept DEF ClaimPreMerge
  <1>27. CASE FreezePreMerge
    <2>1. TypeFails' BY <1>0, <1>27, Effects DEF Replaces, Adds, SameLength,
        TypeFails
    <2>2. TypeSrc' BY <1>0, <1>27 DEF FreezePreMerge, NoSource, TypeSrc, None,
        TypeBranch, TypePm
    <2>3. TypePm' BY <1>0, <1>27 DEF FreezePreMerge, TypePm
    <2> QED BY <1>0, <1>27, <2>1, <2>2, <2>3, TypeKept DEF FreezePreMerge
  <1>28. CASE Grant
    <2>1. TypeAccount' 
      <3>1. account.left + 1 \in Nat /\ account' = [account EXCEPT !.left = account.left + 1, !.grant = "given"]
        BY <1>0, <1>28 DEF Grant, TypeAccount
      <3> QED BY <1>0, <3>1 DEF TypeAccount
    <2> QED BY <1>0, <1>28, <2>1, TypeKept DEF Grant
  <1>29. CASE Control
    <2>1. TypeItem' BY <1>0, <1>29 DEF Control, Fault, TypeItem, Stages
    <2> QED BY <1>0, <1>29, <2>1, TypeKept DEF Control, Fault
  <1>30. CASE Lift
    <2>1. TypeItem' BY <1>0, <1>30 DEF Lift, TypeItem, Stages
    <2> QED BY <1>0, <1>30, <2>1, TypeKept DEF Lift
  <1>31. CASE Settle
    <2>1. TypeFails' BY <1>0, <1>31, Effects DEF Replaces, Adds, SameLength,
        TypeFails
    <2>2. TypeItem' BY <1>0, <1>31 DEF Settle, NoReservation, TypeItem, Stages
    <2>3. TypeRes'
      <3>1. PICK v \in BOOLEAN : res' = [NoReservation EXCEPT !.stale = v] BY <1>31 DEF Settle
      <3>2. res' \in [f: 0..MaxFails, inc: 0..MaxInc, status: {"none", "reserved", "started"}, stale: BOOLEAN]
        BY <1>0, <3>1, FreeRes
      <3> QED BY <3>2 DEF TypeRes
    <2> QED BY <1>0, <1>31, <2>1, <2>2, <2>3, TypeKept DEF Settle
  <1>32. CASE NextItem
    <2>1. TypeItem' BY <1>0, <1>32, NewItemType DEF NextItem, TypeItem
    <2>2. TypeFails' BY <1>0, <1>32 DEF NextItem, TypeFails
    <2>3. TypeAccount'
      <3>1. account' = [used |-> 0, left |-> world.case.money, grant |-> "none"] BY <1>32 DEF NextItem, NewAccount
      <3>2. world.case.money \in Nat BY <1>0 DEF TypeWorld, CaseRecords
      <3> QED BY <3>1, <3>2 DEF TypeAccount
    <2>4. TypeBinding' BY <1>0, <1>32 DEF NextItem, TypeBinding, TypeBranch
    <2>5. TypePm' BY <1>0, <1>32 DEF NextItem, NoDecision, TypePm
    <2> QED BY <1>0, <1>32, <2>1, <2>2, <2>3, <2>4, <2>5, TypeKept DEF NextItem
  <1>33. CASE Stop
    <2>1. TypeItem' BY <1>0, <1>33 DEF Stop, Released, NoReservation, TypeItem,
        Stages
    <2>2. TypeRes'
      <3>1. Released \in [f: 0..MaxFails, inc: 0..MaxInc, status: {"none", "reserved", "started"}, stale: BOOLEAN]
        BY <1>0, FreeRes DEF Released, TypeRes
      <3> QED BY <1>0, <1>33, <3>1 DEF Stop, TypeRes
    <2> QED BY <1>0, <1>33, <2>1, <2>2, TypeKept DEF Stop
  <1>34. CASE Crash
    <2>1. TypeSrc' BY <1>0, <1>34 DEF Crash, NoSource, TypeSrc, None, TypeBranch,
        TypePm
    <2> QED BY <1>0, <1>34, <2>1, TypeKept DEF Crash
  <1>35. ASSUME NEW r \in Repos, Push(r) PROVE Types'
    <2>1. TypeBranch'
      <3>1. Pushed \in 0..Pushed BY <1>0 DEF Pushed
      <3> QED BY <1>0, <1>35, <3>1 DEF Push, TypeBranch
    <2> QED BY <1>0, <1>35, <2>1, TypeKept DEF Push, Fault
  <1>36. CASE Elapse
    <2>1. TypeFails' BY <1>0, <1>36, Effects DEF Replaces, Adds, SameLength,
        TypeFails
    <2>2. TypePm'
      <3>1. PICK v \in {TRUE} : pm' = [pm EXCEPT !.due = v] BY <1>36 DEF Elapse
      <3> QED BY <1>0, <3>1 DEF TypePm
    <2> QED BY <1>0, <1>36, <2>1, <2>2, TypeKept DEF Elapse
  <1>37. CASE UNCHANGED vars BY <1>0, <1>37, TypeKept DEF vars
  <1> QED BY <1>1, <1>2, <1>3, <1>4, <1>5, <1>6, <1>7, <1>8, <1>9, <1>10, <1>11,
      <1>12, <1>13, <1>14, <1>15, <1>16, <1>17, <1>18, <1>19, <1>20, <1>21, <1>22,
      <1>23, <1>24, <1>25, <1>26, <1>27, <1>28, <1>29, <1>30, <1>31, <1>32, <1>33,
      <1>34, <1>35, <1>36, <1>37 DEF Next, Results, SourceStep, SourceReply,
      RunStep, PreMergeStep

----------------------------------------------------------------------------
(* The inductive step, one lemma for each part of the invariant.  InvKept  *)
(* says what each part depends on.                                         *)

\* The steps that change rows.
LEMMA FailsChange ==
  ASSUME [Next]_vars
  PROVE  \/ UNCHANGED fails
         \/ AcceptMerge \/ RejectMerge \/ Accept \/ Reject \/ Revalidate \/ Freeze \/ SourceError
         \/ FreezePreMerge \/ Settle \/ NextItem \/ Elapse
         \/ \E f \in Ids : OutOfScope(f) \/ SourceAttempt(f) \/ Reserve(f) \/ SourceRecheck(f) \/ BudgetRecheck(f)
         \/ \E c \in Candidates : Candidate(c)
  BY DEF Next, Results, SourceStep, SourceReply, RunStep, PreMergeStep, vars,
    MergePR, FailInfra, RetryInfra, ReadBranch, PreMergeError, Rebind, Bind,
    CandidateRepair, ClosePR, Reopen, Decide, ExpirePreMerge, ClaimPreMerge, Grant,
    Control, Lift, Stop, Crash, Push

LEMMA InvKept ==
  ASSUME IInv, [Next]_vars
  PROVE  /\ UNCHANGED fails => RowsConsistent'
         /\ UNCHANGED <<fails, pm>> /\ item'.stage = item.stage /\ item'.pr = item.pr /\ item'.cand = item.cand
            /\ item'.sha = item.sha => OneUnresolved'
         /\ UNCHANGED <<res, fails>> /\ item'.stage = item.stage /\ item'.owner = item.owner => ReservationOfLast'
         /\ UNCHANGED <<src, pm, fails>> /\ item'.stage = item.stage /\ item'.sha = item.sha => SourceCurrent'
         /\ UNCHANGED <<account, fails>> /\ (item'.owner => item.owner) => PaidOnce'
         /\ UNCHANGED <<fails, binding>> /\ item'.stage = item.stage /\ (item'.owner => item.owner)
               => (item'.owner => LaterContains' /\ RepairsBound')
         /\ UNCHANGED <<fails, binding>> /\ item'.owner = item.owner /\ item'.done = item.done => Acceptance'
  <1>0. /\ Repos' = Repos /\ Kind' = Kind /\ First' = First /\ Candidates' = Candidates
        /\ world'.case.limit = world.case.limit
    BY CaseKept DEF IInv, Types
  <1>1. ASSUME UNCHANGED fails PROVE RowsConsistent'
    BY <1>0, <1>1 DEF IInv, RowsConsistent, RowConsistent, Ids, Fixed
  <1>2. ASSUME UNCHANGED <<fails, pm>>, item'.stage = item.stage, item'.pr = item.pr, item'.cand = item.cand,
               item'.sha = item.sha
        PROVE  OneUnresolved'
    BY <1>0, <1>2 DEF IInv, OneUnresolved, Ids
  <1>3. ASSUME UNCHANGED <<res, fails>>, item'.stage = item.stage, item'.owner = item.owner
        PROVE  ReservationOfLast'
    BY <1>3 DEF IInv, ReservationOfLast
  <1>4. ASSUME UNCHANGED <<src, pm, fails>>, item'.stage = item.stage, item'.sha = item.sha PROVE SourceCurrent'
    BY <1>0, <1>4 DEF IInv, SourceCurrent, ReadCurrent, DecisionCurrent, Ids, NoSource
  <1>5. ASSUME UNCHANGED <<account, fails>>, item'.owner => item.owner PROVE PaidOnce'
    BY <1>0, <1>5 DEF IInv, PaidOnce, Paid, Ids
  <1>6. ASSUME UNCHANGED <<fails, binding>>, item'.stage = item.stage, item'.owner => item.owner, item'.owner
        PROVE  LaterContains' /\ RepairsBound'
    BY <1>0, <1>6 DEF IInv, LaterContains, RepairsBound, Fixed, Overtaken, Bound, WaitsAtEnd, Ids
  <1>7. ASSUME UNCHANGED <<fails, binding>>, item'.owner = item.owner, item'.done = item.done PROVE Acceptance'
    BY <1>0, <1>7 DEF IInv, Acceptance, Overtaken, Bound, Ids
  <1> QED BY <1>1, <1>2, <1>3, <1>4, <1>5, <1>6, <1>7

\* What each of these lemmas knows before a step and of its types.
LEMMA Basics ==
  ASSUME IInv, [Next]_vars
  PROVE  /\ Repos' = Repos /\ Kind' = Kind /\ First' = First /\ Candidates' = Candidates /\ Rows' = Rows
         /\ world'.case.limit = world.case.limit
         /\ Types /\ Types' /\ MaxFails \in Nat
         /\ Ids = 1..Len(fails) /\ Len(fails) \in 0..MaxFails /\ Ids' = 1..Len(fails') /\ Len(fails') \in 0..MaxFails
         /\ \A f \in Ids : fails[f] \in Rows
         /\ item.sha # Nowhere /\ item.pr \in 0..MaxFails
         /\ First \in Repos /\ None \notin Repos
  <1>1. /\ Repos' = Repos /\ Kind' = Kind /\ First' = First /\ Candidates' = Candidates /\ Rows' = Rows
        /\ world'.case.limit = world.case.limit /\ Types /\ Types' /\ MaxFails \in Nat
    BY CaseKept, TypeStep, LinkedRepairAssumption DEF IInv, Types
  <1>2. Ids = 1..Len(fails) /\ Len(fails) \in 0..MaxFails /\ Ids' = 1..Len(fails') /\ Len(fails') \in 0..MaxFails
    BY <1>1 DEF Types, TypeFails, Ids
  <1>3. /\ \A f \in Ids : fails[f] \in Rows
        /\ item.sha # Nowhere /\ First \in Repos /\ None \notin Repos
    BY <1>1, RowAt, ShaIs, FirstIn DEF Types
  <1>4. item.pr \in 0..MaxFails BY <1>1 DEF Types, TypeItem
  <1> QED BY <1>1, <1>2, <1>3, <1>4

LEMMA RowsStep == IInv /\ [Next]_vars => RowsConsistent'
  <1> SUFFICES ASSUME IInv, [Next]_vars PROVE RowsConsistent' OBVIOUS
  <1>0. /\ Repos' = Repos /\ Rows' = Rows /\ RowsConsistent /\ OneUnresolved /\ SourceCurrent /\ Types
        /\ Ids = 1..Len(fails) /\ Len(fails) \in 0..MaxFails /\ \A f \in Ids : fails[f] \in Rows
        /\ item.sha # Nowhere /\ First \in Repos /\ None \notin Repos /\ item.pr \in 0..MaxFails
    BY Basics DEF IInv
  <1>a. ASSUME NEW f \in Ids, NEW row, Replaces(f, row),
               RowConsistent(f) => RowConsistent(f)'
        PROVE  RowsConsistent'
    <2> SUFFICES ASSUME NEW g \in Ids' PROVE RowConsistent(g)' BY DEF RowsConsistent
    <2>1. g \in Ids /\ RowConsistent(g) BY <1>0, <1>a DEF Replaces, SameLength, RowsConsistent
    <2>2. CASE g = f BY <1>a, <2>1, <2>2
    <2>3. CASE g # f
      <3>1. fails'[g] = fails[g] BY <1>a, <2>1, <2>3 DEF Replaces
      <3> QED BY <1>0, <2>1, <3>1 DEF RowConsistent, Fixed
    <2> QED BY <2>2, <2>3
  <1>1. CASE AcceptMerge
    <2>1. item.pr \in Ids => /\ item.sha # Nowhere /\ Contains(item.sha, fails[item.pr].base)
                             /\ fails[item.pr].state = "reserved"
      BY <1>0, <1>1 DEF AcceptMerge, OneUnresolved
    <2> SUFFICES ASSUME NEW g \in Ids' PROVE RowConsistent(g)' BY DEF RowsConsistent
    <2>2. SameLength /\ fails'[g] =
               LET row == IF g = item.pr THEN Merged(g) ELSE fails[g]
               IN IF Kind = "code" /\ row.state \in {"merged", "reserved"} THEN [row EXCEPT !.state = "complete"] ELSE row
      BY <1>0, <1>1, Effects DEF SameLength
    <2>3. g \in Ids /\ RowConsistent(g) /\ fails[g] \in Rows BY <1>0, <2>2 DEF SameLength, RowsConsistent
    <2> DEFINE row == IF g = item.pr THEN Merged(g) ELSE fails[g]
    <2>4. /\ row.kind = fails[g].kind /\ row.affected = fails[g].affected /\ row.repo = fails[g].repo
          /\ row.base = fails[g].base /\ row.blame = fails[g].blame /\ row.why = fails[g].why
          /\ row.revalidated = fails[g].revalidated /\ row \in Rows
          /\ IF g = item.pr THEN row.state = "merged" /\ row.final = item.sha
                            ELSE row.state = fails[g].state /\ row.final = fails[g].final
      BY <1>0, <2>3, MergedType
    <2> HIDE DEF row
    <2>5. /\ Alike(fails'[g], row) /\ fails'[g].why = row.why
          /\ fails'[g].state = IF Kind = "code" /\ row.state \in {"merged", "reserved"} THEN "complete" ELSE row.state
      <3>1. fails'[g] = IF Kind = "code" /\ row.state \in {"merged", "reserved"} THEN [row EXCEPT !.state = "complete"] ELSE row
        BY <2>2 DEF row
      <3> QED BY <2>4, <3>1 DEF Rows, Alike
    <2>6. fails'[g].state = "observed" => fails[g].state = "observed" /\ g # item.pr BY ONLY <2>4, <2>5
    <2>7. CASE g = item.pr
      <3>1. /\ fails'[g].state \in {"merged", "complete"} /\ fails'[g].final = item.sha /\ fails[g].state = "reserved"
            /\ item.sha # Nowhere /\ Contains(item.sha, fails[g].base)
        BY ONLY <2>1, <2>3, <2>4, <2>5, <2>7 DEF Alike
      <3> QED BY ONLY <1>0, <2>3, <2>4, <2>5, <3>1 DEF RowConsistent, Fixed, Alike
    <2>8. CASE g # item.pr
      <3>1. /\ fails'[g].final = fails[g].final /\ fails'[g].why = fails[g].why
            /\ \/ fails'[g].state = fails[g].state
               \/ fails'[g].state = "complete" /\ fails[g].state \in {"merged", "reserved"}
        BY ONLY <2>4, <2>5, <2>8 DEF Alike
      <3>2. fails'[g].state = "complete" /\ fails[g].state = "reserved" => FALSE
        BY ONLY <1>0, <1>1, <2>3, <2>5, <2>8, <3>1 DEF OneUnresolved, AcceptMerge
      <3> QED BY ONLY <1>0, <2>3, <2>4, <2>5, <3>1, <3>2 DEF RowConsistent, Fixed, Alike
    <2> QED BY <2>7, <2>8
  <1>2. CASE RejectMerge
    <2>1. item.pr \in Ids => /\ item.sha # Nowhere /\ Contains(item.sha, fails[item.pr].base)
                             /\ fails[item.pr].state = "reserved"
      BY <1>0, <1>2 DEF RejectMerge, OneUnresolved
    <2> SUFFICES ASSUME NEW g \in Ids' PROVE RowConsistent(g)' BY DEF RowsConsistent
    <2>2. /\ Adds(Failure("merge", {Target(item.pr)}))
          /\ \A f \in Ids : fails'[f] = IF f = item.pr THEN Merged(f) ELSE fails[f]
      BY <1>0, <1>2, Effects
    <2>3. CASE g \in Ids
      <3>1. RowConsistent(g) /\ fails'[g] = IF g = item.pr THEN Merged(g) ELSE fails[g]
        BY <1>0, <2>2, <2>3 DEF RowsConsistent
      <3>2. /\ fails'[g].kind = fails[g].kind /\ fails'[g].affected = fails[g].affected /\ fails'[g].repo = fails[g].repo
            /\ fails'[g].base = fails[g].base /\ fails'[g].blame = fails[g].blame /\ fails'[g].why = fails[g].why
            /\ fails'[g].revalidated = fails[g].revalidated
            /\ IF g = item.pr THEN fails'[g].state = "merged" /\ fails'[g].final = item.sha
                              ELSE fails'[g].state = fails[g].state /\ fails'[g].final = fails[g].final
        BY <1>0, <2>3, <3>1, MergedType
      <3> QED BY <1>0, <2>1, <2>3, <3>1, <3>2 DEF RowConsistent, Fixed
    <2>4. CASE g \notin Ids
      <3>1. g = Len(fails') /\ fails'[g] = Failure("merge", {Target(item.pr)}) BY <2>2, <2>4 DEF Adds
      <3>2. Target(item.pr) \in Repos BY <1>2, TargetRepo DEF RejectMerge
      <3>4. /\ fails'[g].state = "observed" /\ fails'[g].kind = "merge" /\ fails'[g].blame = {Target(item.pr)}
            /\ fails'[g].repo = None /\ fails'[g].base = Nowhere /\ fails'[g].why = "" /\ ~fails'[g].revalidated
        BY ONLY <1>0, <3>1, <3>2, MergeRow
      <3> QED BY ONLY <1>0, <3>2, <3>4 DEF RowConsistent, Fixed
    <2> QED BY <2>3, <2>4
  <1>r. \A f \in Ids : fails[f] \in Rows BY <1>0
  <1>b. ASSUME SameLength,
               \A g \in Ids : /\ Alike(fails'[g], fails[g]) /\ fails'[g].why = fails[g].why
                              /\ \/ fails'[g].state = fails[g].state
                                 \/ fails'[g].state = "complete" /\ fails[g].state = "merged"
                                 \/ fails'[g].state = "cancelled"
        PROVE  RowsConsistent'
    <2> SUFFICES ASSUME NEW g \in Ids' PROVE RowConsistent(g)' BY DEF RowsConsistent
    <2>1. g \in Ids /\ RowConsistent(g) BY <1>0, <1>b DEF SameLength, RowsConsistent
    <2> QED BY <1>0, <1>b, <2>1 DEF RowConsistent, Fixed, Alike
  <1>c. ASSUME NEW row, Adds(row), \A g \in Ids : fails'[g] = fails[g], RowConsistent(Len(fails))'
        PROVE  RowsConsistent'
    <2> SUFFICES ASSUME NEW g \in Ids' PROVE RowConsistent(g)' BY DEF RowsConsistent
    <2>1. CASE g \in Ids
      <3>1. fails'[g] = fails[g] /\ RowConsistent(g) BY <1>0, <1>c, <2>1 DEF RowsConsistent
      <3> QED BY <1>0, <3>1 DEF RowConsistent, Fixed
    <2>2. CASE g = Len(fails') BY <1>c, <2>2
    <2> QED BY <1>c, <2>1, <2>2 DEF Adds
  <1>3. CASE Accept
    <2>1. SameLength /\ \A g \in Ids : fails'[g] =
               IF fails[g].state = "merged" THEN [fails[g] EXCEPT !.state = "complete"] ELSE fails[g]
      BY <1>0, <1>3, Effects
    <2>2. ASSUME NEW g \in Ids
          PROVE  /\ Alike(fails'[g], fails[g]) /\ fails'[g].why = fails[g].why
                 /\ \/ fails'[g].state = fails[g].state
                    \/ fails'[g].state = "complete" /\ fails[g].state = "merged"
      BY ONLY <1>r, <2>1, <2>2 DEF Rows, Alike
    <2> QED BY <1>b, <2>1, <2>2
  <1>4. CASE Reject
    <2>1. PICK blame \in SUBSET Repos : Adds(Failure("integration", blame)) /\ \A g \in Ids : fails'[g] = fails[g]
      BY <1>0, <1>4, Effects
    <2> DEFINE row == Failure("integration", blame)
    <2>2. row.state = "observed" /\ row.kind = "integration" /\ row.repo = None /\ row.base = Nowhere /\ row.why = ""
          /\ ~row.revalidated
      BY <1>0, VersionRow
    <2> HIDE DEF row
    <2>3. fails'[Len(fails')] = row BY <2>1 DEF Adds, row
    <2>4. RowConsistent(Len(fails))' BY <1>0, <2>2, <2>3 DEF RowConsistent, Fixed
    <2> QED BY <1>c, <2>1, <2>4
  <1>5. CASE Revalidate
    <2>1. PICK f \in Revalidatable : Replaces(f, [fails[f] EXCEPT !.revalidated = TRUE]) BY <1>0, <1>5, Effects
    <2>2. f \in Ids /\ fails[f].state = "merged" /\ fails'[f] = [fails[f] EXCEPT !.revalidated = TRUE]
      BY <2>1 DEF Revalidatable, Replaces
    <2>3. LET t == fails'[f]
          IN /\ t.kind = fails[f].kind /\ t.affected = fails[f].affected /\ t.repo = fails[f].repo
             /\ t.base = fails[f].base /\ t.blame = fails[f].blame /\ t.final = fails[f].final
             /\ t.state = fails[f].state /\ t.why = fails[f].why
      BY ONLY <1>r, <2>2 DEF Rows
    <2>4. RowConsistent(f) => RowConsistent(f)' BY ONLY <1>0, <2>2, <2>3 DEF RowConsistent, Fixed
    <2> QED BY <1>a, <2>1, <2>2, <2>4
  <1>d. ASSUME NEW f \in Ids, NEW why, Replaces(f, BlockRow(f, why)), fails[f].state \in {"observed", "reserved"},
               why = "scope" => fails[f].base = Nowhere, why = "candidate" => fails[f].repo # None
        PROVE  RowsConsistent'
    <2>1. /\ Alike(fails'[f], fails[f]) /\ fails'[f].state = "blocked" /\ fails'[f].why = why
      <3>1. fails'[f] = BlockRow(f, why) BY <1>d DEF Replaces
      <3> QED BY ONLY <1>r, <1>d, <3>1 DEF Rows, BlockRow, Alike
    <2>2. RowConsistent(f) => RowConsistent(f)'
      BY ONLY <1>0, <1>d, <2>1 DEF RowConsistent, Fixed, Alike
    <2> QED BY <1>a, <1>d, <2>2
  <1>6. ASSUME NEW f \in Ids, OutOfScope(f) PROVE RowsConsistent'
    <2>1. Replaces(f, BlockRow(f, "scope")) BY <1>0, <1>6, Effects
    <2> QED BY <1>6, <1>d, <2>1 DEF OutOfScope, Due, Unfrozen
  <1>7. ASSUME NEW f \in Ids, SourceAttempt(f) PROVE RowsConsistent'
    <2>1. IF fails[f].tries < 3 THEN Replaces(f, [fails[f] EXCEPT !.tries = @ + 1, !.due = FALSE])
                                ELSE Replaces(f, BlockRow(f, "tries"))
      BY <1>0, <1>7, Effects
    <2>2. CASE fails[f].tries < 3
      <3>1. fails'[f] = [fails[f] EXCEPT !.tries = fails[f].tries + 1, !.due = FALSE] /\ SameLength
            /\ \A g \in Ids : g # f => fails'[g] = fails[g]
        BY <2>1, <2>2 DEF Replaces
      <3>2. \A g \in Ids : Alike(fails'[g], fails[g]) /\ fails'[g].why = fails[g].why /\ fails'[g].state = fails[g].state
        <4>1. Alike(fails'[f], fails[f]) /\ fails'[f].why = fails[f].why /\ fails'[f].state = fails[f].state
          BY ONLY <1>r, <3>1 DEF Rows, Alike
        <4> QED BY ONLY <3>1, <4>1 DEF Alike
      <3> QED BY <1>b, <3>1, <3>2
    <2>3. CASE ~(fails[f].tries < 3) BY <1>7, <1>d, <2>1, <2>3 DEF SourceAttempt, Due, Unfrozen
    <2> QED BY <2>2, <2>3
  <1>8. ASSUME NEW f \in Ids, Reserve(f) PROVE RowsConsistent'
    <2>1. IF Quota THEN Replaces(f, [fails[f] EXCEPT !.state = "reserved"]) ELSE Replaces(f, BlockRow(f, "budget"))
      BY <1>0, <1>8, Effects
    <2>2. CASE Quota
      <3>1. /\ Alike(fails'[f], fails[f]) /\ fails'[f].state = "reserved" /\ fails'[f].why = fails[f].why
        <4>1. fails'[f] = [fails[f] EXCEPT !.state = "reserved"] BY <2>1, <2>2 DEF Replaces
        <4> QED BY ONLY <1>r, <1>8, <4>1 DEF Rows, Alike
      <3>2. fails[f].state = "observed" /\ fails[f].base # Nowhere BY <1>8 DEF Reserve, Frozen
      <3>3. RowConsistent(f) => RowConsistent(f)'
        BY ONLY <1>0, <3>1, <3>2 DEF RowConsistent, Fixed, Alike
      <3> QED BY <1>a, <2>1, <2>2, <3>3
    <2>3. CASE ~Quota BY <1>8, <1>d, <2>1, <2>3 DEF Reserve, Frozen
    <2> QED BY <2>2, <2>3
  <1>9. ASSUME NEW f \in Ids, SourceRecheck(f) PROVE RowsConsistent'
    <2>1. PICK blame \in SUBSET Repos :
            Replaces(f, [fails[f] EXCEPT !.state = "observed", !.why = "", !.blame = blame])
      BY <1>0, <1>9, Effects
    <2>2. fails'[f] = [fails[f] EXCEPT !.state = "observed", !.why = "", !.blame = blame] BY <2>1 DEF Replaces
    <2>3. fails[f].kind = "integration" /\ fails[f].state = "blocked" /\ fails[f].why = "scope"
      BY <1>9 DEF SourceRecheck
    <2>4. RowConsistent(f) => RowConsistent(f)'
      <3>1. fails[f] \in Rows BY <1>r
      <3> QED BY ONLY <1>9, <2>2, <2>3, <3>1 DEF Rows, RowConsistent, Fixed
    <2> QED BY <1>a, <2>1, <2>4
  <1>10. ASSUME NEW f \in Ids, BudgetRecheck(f) PROVE RowsConsistent'
    <2>1. Replaces(f, [fails[f] EXCEPT !.state = "observed", !.why = ""]) BY <1>0, <1>10, Effects
    <2>2. /\ Alike(fails'[f], fails[f]) /\ fails'[f].state = "observed" /\ fails'[f].why = ""
      <3>1. fails'[f] = [fails[f] EXCEPT !.state = "observed", !.why = ""] BY <2>1 DEF Replaces
      <3> QED BY ONLY <1>r, <1>10, <3>1 DEF Rows, Alike
    <2>3. fails[f].state = "blocked" BY <1>10 DEF BudgetRecheck
    <2>4. RowConsistent(f) => RowConsistent(f)' BY ONLY <1>0, <2>2, <2>3 DEF RowConsistent, Fixed, Alike
    <2> QED BY <1>a, <2>1, <2>4
  <1>11. CASE Freeze
    <2>1. PICK f \in Ids : f = src.f /\ src.repo \in fails[f].blame /\ src.repo # None /\ src.base # Nowhere
      <3>1. src.f \in Ids /\ src.repo \in fails[src.f].blame /\ src.base # Nowhere
        BY <1>0, <1>11 DEF Freeze, SourceCurrent, ReadCurrent, DecisionCurrent
      <3>2. fails[src.f].blame \in SUBSET Repos BY ONLY <1>r, <3>1 DEF Rows
      <3> QED BY <1>0, <3>1, <3>2
    <2>2. CASE fails[f].state = "observed" /\ Replaces(f, BlockRow(f, "branch")) BY <1>d, <2>1, <2>2
    <2>3. CASE /\ Contains(src.base, fails[f].affected[src.repo]) /\ Unfrozen(f)
               /\ Replaces(f, [fails[f] EXCEPT !.repo = src.repo, !.base = src.base])
      <3>1. fails'[f] = [fails[f] EXCEPT !.repo = src.repo, !.base = src.base] BY <2>3 DEF Replaces
      <3>2. RowConsistent(f) => RowConsistent(f)'
        <4>1. LET t == fails'[f]
              IN /\ t.kind = fails[f].kind /\ t.affected = fails[f].affected /\ t.repo = src.repo
                 /\ t.base = src.base /\ t.blame = fails[f].blame /\ t.final = fails[f].final
                 /\ t.state = fails[f].state /\ t.why = fails[f].why
                 /\ t.revalidated = fails[f].revalidated
          BY ONLY <1>r, <2>1, <3>1 DEF Rows
        <4> QED BY <1>0, <2>1, <2>3, <4>1 DEF RowConsistent, Fixed, Unfrozen
      <3> QED BY <1>a, <2>1, <2>3, <3>2
    <2>4. CASE UNCHANGED fails BY <2>4, InvKept
    <2> QED BY <1>0, <1>11, <2>1, <2>2, <2>3, <2>4, Effects
  <1>12. CASE SourceError
    <2>1. PICK f \in Ids : f = src.f BY <1>0, <1>12 DEF SourceError, SourceCurrent, ReadCurrent, DecisionCurrent
    <2>2. CASE fails[f].state = "observed" /\ Replaces(f, BlockRow(f, "local")) BY <1>d, <2>1, <2>2
    <2>3. CASE UNCHANGED fails BY <2>3, InvKept
    <2> QED BY <1>0, <1>12, <2>1, <2>2, <2>3, Effects
  <1>13. ASSUME NEW c \in Candidates, Candidate(c) PROVE RowsConsistent'
    <2>1. ASSUME NEW f \in Ids, f = res.f, Replaces(f, BlockRow(f, "candidate")) PROVE RowsConsistent'
      <3>1. fails[f].state = "reserved" BY <1>13, <2>1 DEF Candidate, IInv, ReservationOfLast
      <3>2. RowConsistent(f) BY <1>0 DEF RowsConsistent
      <3> QED BY <1>d, <2>1, <3>1, <3>2 DEF RowConsistent
    <2>2. CASE UNCHANGED fails BY <2>2, InvKept
    <2> QED BY <1>0, <1>13, <2>1, <2>2, Effects
  <1>14. CASE FreezePreMerge
    <2>1. CASE UNCHANGED fails BY <2>1, InvKept
    <2>2. CASE ~UNCHANGED fails
      <3> DEFINE row == [Failure("premerge", {First}) EXCEPT !.repo = First, !.base = src.base]
      <3>1. pm.state = "pending" /\ fails = <<>> /\ Adds(row) BY <1>0, <1>14, <2>2, Effects
      <3>2. item.sha = {} /\ src.base # Nowhere
        BY <1>0, <1>14, <3>1, LinkedRepairAssumption DEF FreezePreMerge, SourceCurrent, ReadCurrent, DecisionCurrent, Nowhere, Pushed
      <3>3. /\ row.state = "observed" /\ row.kind = "premerge" /\ row.blame = {First} /\ row.repo = First
            /\ row.base = src.base /\ row.why = "" /\ ~row.revalidated /\ row.affected[First] = item.sha
        BY ONLY <1>0 DEF Failure
      <3> HIDE DEF row
      <3>4. Len(fails') = 1 /\ fails'[1] = row BY <3>1 DEF Adds
      <3>5. RowConsistent(1)' BY <1>0, <3>2, <3>3, <3>4 DEF RowConsistent, Fixed, Contains
      <3>6. \A g \in Ids : fails'[g] = fails[g] BY <1>0, <3>1
      <3> QED BY <1>c, <3>1, <3>4, <3>5, <3>6
    <2> QED BY <2>1, <2>2
  <1>15. CASE Settle
    <2>1. SameLength /\ \A g \in Ids : fails'[g] =
               IF fails[g].state = "complete" THEN fails[g] ELSE [fails[g] EXCEPT !.state = "cancelled"]
      BY <1>0, <1>15, Effects
    <2>2. ASSUME NEW g \in Ids
          PROVE  /\ Alike(fails'[g], fails[g]) /\ fails'[g].why = fails[g].why
                 /\ \/ fails'[g].state = fails[g].state \/ fails'[g].state = "cancelled"
      BY ONLY <1>r, <2>1, <2>2, ZenonT(60) DEF Rows, Alike
    <2> QED BY <1>b, <2>1, <2>2
  <1>16. CASE NextItem BY <1>16 DEF NextItem, RowsConsistent, Ids
  <1>17. CASE Elapse
    <2>1. SameLength /\ \A g \in Ids : fails'[g] = [fails[g] EXCEPT !.due = TRUE] BY <1>0, <1>17, Effects
    <2>2. ASSUME NEW g \in Ids
          PROVE  Alike(fails'[g], fails[g]) /\ fails'[g].why = fails[g].why /\ fails'[g].state = fails[g].state
      BY ONLY <1>r, <2>1, <2>2, ZenonT(60) DEF Rows, Alike
    <2> QED BY <1>b, <2>1, <2>2
  <1>18. CASE UNCHANGED fails BY <1>18, InvKept
  <1> QED BY <1>1, <1>2, <1>3, <1>4, <1>5, <1>6, <1>7, <1>8, <1>9, <1>10, <1>11, <1>12, <1>13, <1>14, <1>15,
             <1>16, <1>17, <1>18, FailsChange

\* Effects once more, column by column.
Moved(f) ==
    /\ SameLength
    /\ \A g \in Ids : /\ Alike(fails'[g], fails[g])
                      /\ g # f => fails'[g].state = fails[g].state /\ fails'[g].why = fails[g].why

LEMMA Moves ==
  ASSUME IInv, [Next]_vars, NEW f \in Ids
  PROVE  /\ \A why : Replaces(f, BlockRow(f, why)) =>
               Moved(f) /\ fails'[f].state = "blocked" /\ fails'[f].why = why
         /\ \A n : Replaces(f, [fails[f] EXCEPT !.tries = n, !.due = FALSE]) =>
               Moved(f) /\ fails'[f].state = fails[f].state /\ fails'[f].why = fails[f].why
         /\ Replaces(f, [fails[f] EXCEPT !.state = "reserved"]) =>
               Moved(f) /\ fails'[f].state = "reserved" /\ fails'[f].why = fails[f].why
         /\ Replaces(f, [fails[f] EXCEPT !.state = "observed", !.why = ""]) =>
               Moved(f) /\ fails'[f].state = "observed" /\ fails'[f].why = ""
  <1>1. fails[f] \in Rows BY Basics
  <1>2. ASSUME NEW row, Replaces(f, row), Alike(row, fails[f])
        PROVE  Moved(f) /\ fails'[f] = row
    BY <1>2 DEF Moved, Replaces, Alike
  <1>3. ASSUME NEW why, Replaces(f, BlockRow(f, why))
        PROVE  Moved(f) /\ fails'[f].state = "blocked" /\ fails'[f].why = why
    <2> DEFINE row == BlockRow(f, why)
    <2>1. Alike(row, fails[f]) /\ row.state = "blocked" /\ row.why = why
      BY ONLY <1>1 DEF Rows, Alike, BlockRow
    <2> HIDE DEF row
    <2>2. Replaces(f, row) BY <1>3 DEF row
    <2> QED BY ONLY <1>2, <2>1, <2>2
  <1>4. ASSUME NEW n, Replaces(f, [fails[f] EXCEPT !.tries = n, !.due = FALSE])
        PROVE  Moved(f) /\ fails'[f].state = fails[f].state /\ fails'[f].why = fails[f].why
    <2> DEFINE row == [fails[f] EXCEPT !.tries = n, !.due = FALSE]
    <2>1. Alike(row, fails[f]) /\ row.state = fails[f].state /\ row.why = fails[f].why
      BY ONLY <1>1 DEF Rows, Alike
    <2> HIDE DEF row
    <2>2. Replaces(f, row) BY <1>4 DEF row
    <2> QED BY ONLY <1>2, <2>1, <2>2
  <1>5. ASSUME Replaces(f, [fails[f] EXCEPT !.state = "reserved"])
        PROVE  Moved(f) /\ fails'[f].state = "reserved" /\ fails'[f].why = fails[f].why
    <2> DEFINE row == [fails[f] EXCEPT !.state = "reserved"]
    <2>1. Alike(row, fails[f]) /\ row.state = "reserved" /\ row.why = fails[f].why
      BY ONLY <1>1 DEF Rows, Alike
    <2> HIDE DEF row
    <2>2. Replaces(f, row) BY <1>5 DEF row
    <2> QED BY ONLY <1>2, <2>1, <2>2
  <1>6. ASSUME Replaces(f, [fails[f] EXCEPT !.state = "observed", !.why = ""])
        PROVE  Moved(f) /\ fails'[f].state = "observed" /\ fails'[f].why = ""
    <2> DEFINE row == [fails[f] EXCEPT !.state = "observed", !.why = ""]
    <2>1. Alike(row, fails[f]) /\ row.state = "observed" /\ row.why = ""
      BY ONLY <1>1 DEF Rows, Alike
    <2> HIDE DEF row
    <2>2. Replaces(f, row) BY <1>6 DEF row
    <2> QED BY ONLY <1>2, <2>1, <2>2
  <1> QED BY <1>3, <1>4, <1>5, <1>6

\* The steps of a failure that is observed, reserved or blocked.
LEMMA RowSteps ==
  ASSUME IInv, [Next]_vars, NEW f \in Ids
  PROVE  /\ OutOfScope(f) => /\ Moved(f) /\ fails[f].state = "observed" /\ fails[f].repo = None
                             /\ fails'[f].state = "blocked" /\ fails'[f].why = "scope"
         /\ SourceAttempt(f) => /\ Moved(f) /\ fails[f].state = "observed" /\ fails[f].repo = None
                                /\ \/ fails'[f].state = "observed" /\ fails'[f].why = fails[f].why
                                   \/ fails'[f].state = "blocked" /\ fails'[f].why = "tries" /\ UNCHANGED src
         /\ Reserve(f) => /\ Moved(f) /\ fails[f].state = "observed" /\ fails[f].repo # None
                          /\ IF Quota THEN fails'[f].state = "reserved"
                                      ELSE fails'[f].state = "blocked" /\ fails'[f].why = "budget"
         /\ BudgetRecheck(f) => /\ Moved(f) /\ fails[f].state = "blocked" /\ fails[f].why = "budget"
                                /\ fails'[f].state = "observed" /\ fails'[f].why = ""
         /\ SourceRecheck(f) =>
               /\ SameLength /\ fails[f].state = "blocked" /\ fails[f].why = "scope" /\ fails[f].kind = "integration"
               /\ fails'[f].state = "observed" /\ fails'[f].why = ""
               /\ fails'[f].kind = fails[f].kind /\ fails'[f].affected = fails[f].affected
               /\ fails'[f].repo = fails[f].repo /\ fails'[f].base = fails[f].base
               /\ fails'[f].final = fails[f].final /\ fails'[f].revalidated = fails[f].revalidated
               /\ \A g \in Ids : g # f => fails'[g] = fails[g]
  <1>0. /\ Rows' = Rows /\ fails[f] \in Rows /\ IInv
        /\ fails[f].base = Nowhere <=> fails[f].repo = None
    BY Basics DEF IInv, RowsConsistent, RowConsistent
  <1>1. ASSUME OutOfScope(f)
        PROVE  /\ Moved(f) /\ fails[f].state = "observed" /\ fails[f].repo = None
               /\ fails'[f].state = "blocked" /\ fails'[f].why = "scope"
    <2>1. Replaces(f, BlockRow(f, "scope")) BY <1>0, <1>1, Effects
    <2> QED BY <1>0, <1>1, <2>1, Moves DEF OutOfScope, Due, Unfrozen
  <1>2. ASSUME SourceAttempt(f)
        PROVE  /\ Moved(f) /\ fails[f].state = "observed" /\ fails[f].repo = None
               /\ \/ fails'[f].state = "observed" /\ fails'[f].why = fails[f].why
                  \/ fails'[f].state = "blocked" /\ fails'[f].why = "tries" /\ UNCHANGED src
    <2>1. IF fails[f].tries < 3 THEN Replaces(f, [fails[f] EXCEPT !.tries = @ + 1, !.due = FALSE])
                                ELSE Replaces(f, BlockRow(f, "tries"))
      BY <1>0, <1>2, Effects
    <2>2. fails[f].state = "observed" /\ fails[f].repo = None BY <1>0, <1>2 DEF SourceAttempt, Due, Unfrozen
    <2>3. fails[f].tries < 3 \/ UNCHANGED src BY <1>2 DEF SourceAttempt
    <2> QED BY <2>1, <2>2, <2>3, Moves
  <1>3. ASSUME Reserve(f)
        PROVE  /\ Moved(f) /\ fails[f].state = "observed" /\ fails[f].repo # None
               /\ IF Quota THEN fails'[f].state = "reserved"
                           ELSE fails'[f].state = "blocked" /\ fails'[f].why = "budget"
    <2>1. IF Quota THEN Replaces(f, [fails[f] EXCEPT !.state = "reserved"]) ELSE Replaces(f, BlockRow(f, "budget"))
      BY <1>0, <1>3, Effects
    <2> QED BY <1>0, <1>3, <2>1, Moves DEF Reserve, Frozen
  <1>4. ASSUME BudgetRecheck(f)
        PROVE  /\ Moved(f) /\ fails[f].state = "blocked" /\ fails[f].why = "budget"
               /\ fails'[f].state = "observed" /\ fails'[f].why = ""
    <2>1. Replaces(f, [fails[f] EXCEPT !.state = "observed", !.why = ""]) BY <1>0, <1>4, Effects
    <2> QED BY <1>0, <1>4, <2>1, Moves DEF BudgetRecheck
  <1>5. ASSUME SourceRecheck(f)
        PROVE  /\ SameLength /\ fails[f].state = "blocked" /\ fails[f].why = "scope" /\ fails[f].kind = "integration"
               /\ fails'[f].state = "observed" /\ fails'[f].why = ""
               /\ fails'[f].kind = fails[f].kind /\ fails'[f].affected = fails[f].affected
               /\ fails'[f].repo = fails[f].repo /\ fails'[f].base = fails[f].base
               /\ fails'[f].final = fails[f].final /\ fails'[f].revalidated = fails[f].revalidated
               /\ \A g \in Ids : g # f => fails'[g] = fails[g]
    <2>1. PICK blame \in SUBSET Repos :
            Replaces(f, [fails[f] EXCEPT !.state = "observed", !.why = "", !.blame = blame])
      BY <1>0, <1>5, Effects
    <2>2. fails'[f] = [fails[f] EXCEPT !.state = "observed", !.why = "", !.blame = blame] BY <2>1 DEF Replaces
    <2>3. LET t == fails'[f]
          IN /\ t.state = "observed" /\ t.why = "" /\ t.kind = fails[f].kind /\ t.affected = fails[f].affected
             /\ t.repo = fails[f].repo /\ t.base = fails[f].base
             /\ t.final = fails[f].final /\ t.revalidated = fails[f].revalidated
      <3>1. fails[f] \in Rows BY <1>0
      <3> QED BY ONLY <2>2, <3>1 DEF Rows
    <2> QED BY <1>5, <2>1, <2>3 DEF SourceRecheck, Replaces
  <1> QED BY <1>1, <1>2, <1>3, <1>4, <1>5

\* The steps of the controller and of the Run.
LEMMA SourceSteps ==
  ASSUME IInv, [Next]_vars
  PROVE  /\ Freeze => \/ UNCHANGED fails
                      \/ \E f \in Ids : /\ f = src.f /\ fails[f].state = "observed"
                            /\ \/ Moved(f) /\ fails'[f].state = "blocked" /\ fails'[f].why = "branch"
                               \/ /\ SameLength /\ fails[f].repo = None
                                  /\ \A g \in Ids : g # f => fails'[g] = fails[g]
                                  /\ fails'[f].kind = fails[f].kind /\ fails'[f].affected = fails[f].affected
                                  /\ fails'[f].repo \in Repos /\ fails'[f].blame = fails[f].blame
                                  /\ fails'[f].final = fails[f].final /\ fails'[f].state = fails[f].state
                                  /\ fails'[f].why = fails[f].why /\ fails'[f].revalidated = fails[f].revalidated
         /\ SourceError => \/ UNCHANGED fails
                           \/ \E f \in Ids : /\ f = src.f /\ fails[f].state = "observed" /\ Moved(f)
                                             /\ fails'[f].state = "blocked" /\ fails'[f].why = "local"
         /\ \A c \in Candidates : Candidate(c) =>
               \/ c = "in" /\ UNCHANGED fails
               \/ c # "in" /\ \E f \in Ids : /\ f = res.f /\ fails[f].state = "reserved" /\ Moved(f)
                                             /\ fails'[f].state = "blocked" /\ fails'[f].why = "candidate"
  <1>0. /\ Rows' = Rows /\ \A f \in Ids : fails[f] \in Rows
        /\ \A f \in Ids : fails[f].base = Nowhere <=> fails[f].repo = None
    BY Basics DEF IInv, RowsConsistent, RowConsistent
  <1>1. ASSUME Freeze, ~UNCHANGED fails
        PROVE  \E f \in Ids : /\ f = src.f /\ fails[f].state = "observed"
                  /\ \/ Moved(f) /\ fails'[f].state = "blocked" /\ fails'[f].why = "branch"
                     \/ /\ SameLength /\ fails[f].repo = None
                        /\ \A g \in Ids : g # f => fails'[g] = fails[g]
                        /\ fails'[f].kind = fails[f].kind /\ fails'[f].affected = fails[f].affected
                        /\ fails'[f].repo \in Repos /\ fails'[f].blame = fails[f].blame
                        /\ fails'[f].final = fails[f].final /\ fails'[f].state = fails[f].state
                        /\ fails'[f].why = fails[f].why /\ fails'[f].revalidated = fails[f].revalidated
    <2>1. PICK f \in Ids : f = src.f BY <1>1 DEF Freeze, IInv, SourceCurrent, ReadCurrent, DecisionCurrent
    <2>2. \/ fails[f].state = "observed" /\ Replaces(f, BlockRow(f, "branch"))
          \/ Unfrozen(f) /\ Replaces(f, [fails[f] EXCEPT !.repo = src.repo, !.base = src.base])
      BY <1>0, <1>1, <2>1, Effects
    <2>3. CASE Unfrozen(f) /\ Replaces(f, [fails[f] EXCEPT !.repo = src.repo, !.base = src.base])
      <3>1. src.repo \in Repos BY <1>1, SrcRepo DEF Freeze, NoSource
      <3>2. fails'[f] = [fails[f] EXCEPT !.repo = src.repo, !.base = src.base] BY <2>3 DEF Replaces
      <3>3. LET t == fails'[f]
            IN /\ t.state = fails[f].state /\ t.why = fails[f].why /\ t.kind = fails[f].kind
               /\ t.affected = fails[f].affected /\ t.repo = src.repo /\ t.blame = fails[f].blame
               /\ t.final = fails[f].final /\ t.revalidated = fails[f].revalidated
        <4>1. fails[f] \in Rows BY <1>0
        <4> QED BY ONLY <3>2, <4>1 DEF Rows
      <3> QED BY <1>0, <2>1, <2>3, <3>1, <3>3 DEF Unfrozen, Replaces
    <2> QED BY <2>1, <2>2, <2>3, Moves
  <1>2. ASSUME SourceError, ~UNCHANGED fails
        PROVE  \E f \in Ids : /\ f = src.f /\ fails[f].state = "observed" /\ Moved(f)
                              /\ fails'[f].state = "blocked" /\ fails'[f].why = "local"
    <2>1. PICK f \in Ids : f = src.f BY <1>2 DEF SourceError, IInv, SourceCurrent, ReadCurrent, DecisionCurrent
    <2>2. fails[f].state = "observed" /\ Replaces(f, BlockRow(f, "local")) BY <1>0, <1>2, <2>1, Effects
    <2> QED BY <2>1, <2>2, Moves
  <1>3. ASSUME NEW c \in Candidates, Candidate(c), c # "in"
        PROVE  \E f \in Ids : /\ f = res.f /\ fails[f].state = "reserved" /\ Moved(f)
                              /\ fails'[f].state = "blocked" /\ fails'[f].why = "candidate"
    <2>1. res.f \in Ids /\ Replaces(res.f, BlockRow(res.f, "candidate")) BY <1>0, <1>3, Effects
    <2>2. PICK f \in Ids : f = res.f /\ Replaces(f, BlockRow(f, "candidate")) BY <2>1
    <2>3. fails[f].state = "reserved" BY <1>3, <2>2 DEF Candidate, IInv, ReservationOfLast
    <2> QED BY <2>2, <2>3, Moves
  <1>4. ASSUME NEW c \in Candidates, Candidate(c), c = "in" PROVE UNCHANGED fails BY <1>4 DEF Candidate
  <1> QED BY <1>1, <1>2, <1>3, <1>4

\* The steps of all rows at once, and of a new one.
LEMMA TableSteps ==
  ASSUME IInv, [Next]_vars
  PROVE  /\ AcceptMerge => SameLength /\ \A g \in Ids :
               /\ fails'[g].kind = fails[g].kind /\ fails'[g].affected = fails[g].affected
               /\ fails'[g].repo = fails[g].repo /\ fails'[g].base = fails[g].base
               /\ fails'[g].blame = fails[g].blame /\ fails'[g].why = fails[g].why
               /\ fails'[g].revalidated = fails[g].revalidated
               /\ fails'[g].final = IF g = item.pr THEN item.sha ELSE fails[g].final
               /\ fails'[g].state = IF Kind = "code" /\ (g = item.pr \/ fails[g].state \in {"merged", "reserved"})
                                    THEN "complete" ELSE IF g = item.pr THEN "merged" ELSE fails[g].state
         /\ RejectMerge =>
               /\ Adds(Failure("merge", {Target(item.pr)}))
               /\ \A g \in Ids :
                     /\ fails'[g].kind = fails[g].kind /\ fails'[g].affected = fails[g].affected
                     /\ fails'[g].repo = fails[g].repo /\ fails'[g].base = fails[g].base
                     /\ fails'[g].blame = fails[g].blame /\ fails'[g].why = fails[g].why
                     /\ fails'[g].revalidated = fails[g].revalidated
                     /\ fails'[g].final = IF g = item.pr THEN item.sha ELSE fails[g].final
                     /\ fails'[g].state = IF g = item.pr THEN "merged" ELSE fails[g].state
         /\ Accept => SameLength /\ \A g \in Ids :
               /\ Alike(fails'[g], fails[g]) /\ fails'[g].why = fails[g].why
               /\ fails'[g].state = IF fails[g].state = "merged" THEN "complete" ELSE fails[g].state
         /\ Settle => SameLength /\ \A g \in Ids :
               /\ Alike(fails'[g], fails[g]) /\ fails'[g].why = fails[g].why
               /\ fails'[g].state = IF fails[g].state = "complete" THEN "complete" ELSE "cancelled"
         /\ Elapse => SameLength /\ \A g \in Ids :
               /\ Alike(fails'[g], fails[g]) /\ fails'[g].why = fails[g].why
               /\ fails'[g].state = fails[g].state
         /\ Revalidate => \E f \in Ids :
               /\ f = Max(Revalidatable) /\ fails[f].state = "merged" /\ ~fails[f].revalidated
               /\ \A g \in Ids : fails[g].state = "merged" /\ ~fails[g].revalidated => g <= f
               /\ SameLength /\ \A g \in Ids : g # f => fails'[g] = fails[g]
               /\ fails'[f].kind = fails[f].kind /\ fails'[f].affected = fails[f].affected
               /\ fails'[f].repo = fails[f].repo /\ fails'[f].base = fails[f].base
               /\ fails'[f].blame = fails[f].blame /\ fails'[f].why = fails[f].why
               /\ fails'[f].final = fails[f].final /\ fails'[f].state = "merged" /\ fails'[f].revalidated
  <1>0. Rows' = Rows /\ Types BY Basics
  <1>r. \A f \in Ids : fails[f] \in Rows BY Basics
  <1>1. ASSUME AcceptMerge
        PROVE  SameLength /\ \A g \in Ids :
               /\ fails'[g].kind = fails[g].kind /\ fails'[g].affected = fails[g].affected
               /\ fails'[g].repo = fails[g].repo /\ fails'[g].base = fails[g].base
               /\ fails'[g].blame = fails[g].blame /\ fails'[g].why = fails[g].why
               /\ fails'[g].revalidated = fails[g].revalidated
               /\ fails'[g].final = IF g = item.pr THEN item.sha ELSE fails[g].final
               /\ fails'[g].state = IF Kind = "code" /\ (g = item.pr \/ fails[g].state \in {"merged", "reserved"})
                                    THEN "complete" ELSE IF g = item.pr THEN "merged" ELSE fails[g].state
    <2>1. SameLength /\ \A g \in Ids : fails'[g] =
               LET row == IF g = item.pr THEN Merged(g) ELSE fails[g]
               IN IF Kind = "code" /\ row.state \in {"merged", "reserved"} THEN [row EXCEPT !.state = "complete"] ELSE row
      BY <1>0, <1>1, Effects
    <2>2. ASSUME NEW g \in Ids
          PROVE
               /\ fails'[g].kind = fails[g].kind /\ fails'[g].affected = fails[g].affected
               /\ fails'[g].repo = fails[g].repo /\ fails'[g].base = fails[g].base
               /\ fails'[g].blame = fails[g].blame /\ fails'[g].why = fails[g].why
               /\ fails'[g].revalidated = fails[g].revalidated
               /\ fails'[g].final = IF g = item.pr THEN item.sha ELSE fails[g].final
               /\ fails'[g].state = IF Kind = "code" /\ (g = item.pr \/ fails[g].state \in {"merged", "reserved"})
                                    THEN "complete" ELSE IF g = item.pr THEN "merged" ELSE fails[g].state
      <3> DEFINE row == IF g = item.pr THEN Merged(g) ELSE fails[g]
      <3>1. /\ row.kind = fails[g].kind /\ row.affected = fails[g].affected /\ row.repo = fails[g].repo
            /\ row.base = fails[g].base /\ row.blame = fails[g].blame /\ row.why = fails[g].why
            /\ row.revalidated = fails[g].revalidated /\ row \in Rows
            /\ IF g = item.pr THEN row.state = "merged" /\ row.final = item.sha
                              ELSE row.state = fails[g].state /\ row.final = fails[g].final
        BY <1>0, <1>r, MergedType
      <3>2. fails'[g] = IF Kind = "code" /\ row.state \in {"merged", "reserved"} THEN [row EXCEPT !.state = "complete"] ELSE row
        BY <2>1
      <3> HIDE DEF row
      <3>3. /\ Alike(fails'[g], row) /\ fails'[g].why = row.why
            /\ fails'[g].state = IF Kind = "code" /\ row.state \in {"merged", "reserved"} THEN "complete" ELSE row.state
        BY ONLY <3>1, <3>2 DEF Rows, Alike
      <3>4. /\ fails'[g].kind = fails[g].kind /\ fails'[g].affected = fails[g].affected
            /\ fails'[g].repo = fails[g].repo /\ fails'[g].base = fails[g].base
            /\ fails'[g].blame = fails[g].blame /\ fails'[g].why = fails[g].why
            /\ fails'[g].revalidated = fails[g].revalidated /\ fails'[g].final = row.final
        BY ONLY <3>1, <3>3 DEF Alike
      <3>5. fails'[g].final = IF g = item.pr THEN item.sha ELSE fails[g].final BY ONLY <3>1, <3>4
      <3>6. fails'[g].state = IF Kind = "code" /\ (g = item.pr \/ fails[g].state \in {"merged", "reserved"})
                              THEN "complete" ELSE IF g = item.pr THEN "merged" ELSE fails[g].state
        BY ONLY <3>1, <3>3
      <3> QED BY ONLY <3>4, <3>5, <3>6
    <2>3. SameLength BY <2>1
    <2> QED BY ONLY <2>2, <2>3
  <1>2. ASSUME RejectMerge
        PROVE  /\ Adds(Failure("merge", {Target(item.pr)}))
               /\ \A g \in Ids :
                     /\ fails'[g].kind = fails[g].kind /\ fails'[g].affected = fails[g].affected
                     /\ fails'[g].repo = fails[g].repo /\ fails'[g].base = fails[g].base
                     /\ fails'[g].blame = fails[g].blame /\ fails'[g].why = fails[g].why
                     /\ fails'[g].revalidated = fails[g].revalidated
                     /\ fails'[g].final = IF g = item.pr THEN item.sha ELSE fails[g].final
                     /\ fails'[g].state = IF g = item.pr THEN "merged" ELSE fails[g].state
    <2>1. /\ Adds(Failure("merge", {Target(item.pr)}))
          /\ \A f \in Ids : fails'[f] = IF f = item.pr THEN Merged(f) ELSE fails[f]
      BY <1>0, <1>2, Effects
    <2> QED BY <1>0, <1>r, <2>1, MergedType
  <1>3. ASSUME Accept
        PROVE  SameLength /\ \A g \in Ids :
               /\ Alike(fails'[g], fails[g]) /\ fails'[g].why = fails[g].why
               /\ fails'[g].state = IF fails[g].state = "merged" THEN "complete" ELSE fails[g].state
    <2>1. SameLength /\ \A g \in Ids : fails'[g] =
               IF fails[g].state = "merged" THEN [fails[g] EXCEPT !.state = "complete"] ELSE fails[g]
      BY <1>0, <1>3, Effects
    <2> QED BY ONLY <1>r, <2>1 DEF Rows, Alike
  <1>4. ASSUME Settle
        PROVE  SameLength /\ \A g \in Ids :
               /\ Alike(fails'[g], fails[g]) /\ fails'[g].why = fails[g].why
               /\ fails'[g].state = IF fails[g].state = "complete" THEN "complete" ELSE "cancelled"
    <2>1. SameLength /\ \A g \in Ids : fails'[g] =
               IF fails[g].state = "complete" THEN fails[g] ELSE [fails[g] EXCEPT !.state = "cancelled"]
      BY <1>0, <1>4, Effects
    <2> QED BY ONLY <1>r, <2>1, ZenonT(60) DEF Rows, Alike
  <1>5. ASSUME Elapse
        PROVE  SameLength /\ \A g \in Ids :
               /\ Alike(fails'[g], fails[g]) /\ fails'[g].why = fails[g].why
               /\ fails'[g].state = fails[g].state
    <2>1. SameLength /\ \A g \in Ids : fails'[g] = [fails[g] EXCEPT !.due = TRUE] BY <1>0, <1>5, Effects
    <2>2. ASSUME NEW g \in Ids
          PROVE  /\ Alike(fails'[g], fails[g]) /\ fails'[g].why = fails[g].why /\ fails'[g].state = fails[g].state
      BY ONLY <1>r, <2>1, <2>2, ZenonT(60) DEF Rows, Alike
    <2> QED BY <2>1, <2>2
  <1>6. ASSUME Revalidate
        PROVE  \E f \in Ids :
               /\ f = Max(Revalidatable) /\ fails[f].state = "merged" /\ ~fails[f].revalidated
               /\ \A g \in Ids : fails[g].state = "merged" /\ ~fails[g].revalidated => g <= f
               /\ SameLength /\ \A g \in Ids : g # f => fails'[g] = fails[g]
               /\ fails'[f].kind = fails[f].kind /\ fails'[f].affected = fails[f].affected
               /\ fails'[f].repo = fails[f].repo /\ fails'[f].base = fails[f].base
               /\ fails'[f].blame = fails[f].blame /\ fails'[f].why = fails[f].why
               /\ fails'[f].final = fails[f].final /\ fails'[f].state = "merged" /\ fails'[f].revalidated
    <2>1. PICK f : /\ f = Max(Revalidatable) /\ f \in Revalidatable /\ \A g \in Revalidatable : g <= f
                   /\ Replaces(f, [fails[f] EXCEPT !.revalidated = TRUE])
      BY <1>0, <1>6, Effects
    <2>2. f \in Ids /\ fails[f].state = "merged" /\ ~fails[f].revalidated BY <2>1 DEF Revalidatable
    <2>3. fails'[f] = [fails[f] EXCEPT !.revalidated = TRUE] BY <2>1 DEF Replaces
    <2>4. /\ fails'[f].kind = fails[f].kind /\ fails'[f].affected = fails[f].affected
          /\ fails'[f].repo = fails[f].repo /\ fails'[f].base = fails[f].base
          /\ fails'[f].blame = fails[f].blame /\ fails'[f].why = fails[f].why
          /\ fails'[f].final = fails[f].final /\ fails'[f].state = fails[f].state /\ fails'[f].revalidated
      BY ONLY <1>r, <2>2, <2>3 DEF Rows
    <2> QED BY <2>1, <2>2, <2>4 DEF Revalidatable, Replaces
  <1> QED BY ONLY <1>1, <1>2, <1>3, <1>4, <1>5, <1>6

\* A failure that is observed, reserved or blocked is the last one, and nothing of
\* the item is delivered or validated meanwhile but its own repair.
LEMMA LastOne ==
  ASSUME IInv, [Next]_vars, NEW f \in Ids, fails[f].state \in {"observed", "reserved", "blocked"}
  PROVE  /\ f = Len(fails) /\ f # 0 /\ item.stage # "validating"
         /\ fails[f].state # "reserved" => item.stage \notin {"open", "merged"}
         /\ \A g \in Ids : g # f => fails[g].state \in {"merged", "complete", "cancelled"}
  <1>1. Ids = 1..Len(fails) /\ Len(fails) \in 0..MaxFails BY Basics
  <1> QED BY <1>1 DEF IInv, OneUnresolved

LEMMA UnresolvedStep == IInv /\ [Next]_vars => OneUnresolved'
  <1> SUFFICES ASSUME IInv, [Next]_vars PROVE OneUnresolved' OBVIOUS
  <1>0. /\ Kind' = Kind /\ OneUnresolved /\ SourceCurrent /\ ReservationOfLast
        /\ Ids = 1..Len(fails) /\ Len(fails) \in 0..MaxFails /\ MaxFails \in Nat /\ item.pr \in 0..MaxFails
        /\ Ids' = 1..Len(fails') /\ Len(fails') \in 0..MaxFails
        /\ item \in [stage: Stages, pr: 0..MaxFails, sha: SUBSET (0..Pushed), cand: Candidates \cup {"in"},
                     paused: BOOLEAN, cancelled: BOOLEAN, revoked: BOOLEAN, done: BOOLEAN, owner: BOOLEAN]
    BY Basics DEF IInv, Types, TypeItem
  <1>a. ASSUME NEW f \in Ids, SameLength, \A g \in Ids : g # f => fails'[g].state = fails[g].state,
               fails[f].state \in {"observed", "reserved", "blocked"},
               item'.stage \in {"failed", "repairing"} \/ (item'.stage = item.stage /\ fails[f].state # "reserved")
        PROVE  OneUnresolved'
    <2>1. /\ f = Len(fails) /\ f # 0 /\ item.stage # "validating"
          /\ fails[f].state # "reserved" => item.stage \notin {"open", "merged"}
          /\ \A g \in Ids : g # f => fails[g].state \in {"merged", "complete", "cancelled"}
      BY <1>a, LastOne
    <2>2. item'.stage \notin {"open", "merged", "validating"} BY <1>a, <2>1
    <2> QED BY ONLY <1>0, <1>a, <2>1, <2>2 DEF OneUnresolved, SameLength
  <1>b. ASSUME NEW f \in Ids, Moved(f), UNCHANGED item, fails[f].state \in {"observed", "blocked"}
        PROVE  OneUnresolved'
    BY <1>a, <1>b DEF Moved
  <1>c. ASSUME UNCHANGED fails, item'.stage \in {"failed", "repairing"} PROVE OneUnresolved'
    BY ONLY <1>0, <1>c DEF OneUnresolved
  <1>1. CASE MergePR
    <2>1. /\ item.stage = "open" /\ UNCHANGED <<fails, pm>>
          /\ item' = [item EXCEPT !.stage = "merged",
                        !.sha = branch[Target(item.pr)] \cup ({item.pr} \cup IF item.pr = 0 THEN {} ELSE fails[item.pr].base)]
      BY <1>1 DEF MergePR
    <2>2. /\ item'.stage = "merged" /\ item'.pr = item.pr /\ item'.cand = item.cand
          /\ item.pr # 0 => Contains(item'.sha, fails[item.pr].base)
      BY ONLY <1>0, <2>1 DEF Contains
    <2> QED BY ONLY <1>0, <2>1, <2>2 DEF OneUnresolved
  <1>2. CASE AcceptMerge
    <2>1. SameLength /\ \A g \in Ids :
             fails'[g].state = IF Kind = "code" /\ (g = item.pr \/ fails[g].state \in {"merged", "reserved"})
                                    THEN "complete" ELSE IF g = item.pr THEN "merged" ELSE fails[g].state
      BY <1>2, TableSteps
    <2>2. item'.stage = "failed" /\ item.stage = "merged" BY <1>0, <1>2 DEF AcceptMerge
    <2> QED BY ONLY <1>0, <2>1, <2>2 DEF OneUnresolved, SameLength
  <1>3. CASE RejectMerge
    <2>1. /\ Len(fails') = Len(fails) + 1 /\ Ids' = Ids \cup {Len(fails')}
          /\ \A g \in Ids : fails'[g].state = IF g = item.pr THEN "merged" ELSE fails[g].state
      BY <1>3, TableSteps DEF Adds
    <2>2. item'.stage = "failed" /\ item.stage = "merged" BY <1>0, <1>3 DEF RejectMerge
    <2> QED BY ONLY <1>0, <2>1, <2>2 DEF OneUnresolved
  <1>4. CASE Accept
    <2>1. SameLength /\ \A g \in Ids : fails'[g].state = IF fails[g].state = "merged" THEN "complete" ELSE fails[g].state
      BY <1>4, TableSteps
    <2>2. item'.stage = "validating" /\ item.stage = "validating" BY <1>0, <1>4 DEF Accept
    <2> QED BY ONLY <1>0, <2>1, <2>2 DEF OneUnresolved, SameLength
  <1>5. CASE Reject
    <2>1. /\ Len(fails') = Len(fails) + 1 /\ Ids' = Ids \cup {Len(fails')} /\ \A g \in Ids : fails'[g] = fails[g]
      BY <1>5, Basics, Effects DEF Adds
    <2>2. item'.stage = "failed" /\ item.stage = "validating" BY <1>0, <1>5 DEF Reject
    <2> QED BY ONLY <1>0, <2>1, <2>2 DEF OneUnresolved
  <1>6. CASE FailInfra BY <1>0, <1>6, <1>c DEF FailInfra
  <1>7. CASE Revalidate
    <2>1. SameLength /\ \A g \in Ids : fails'[g].state = fails[g].state BY <1>7, TableSteps
    <2>2. item'.stage = "validating" /\ Kind = "validation_only" BY <1>0, <1>7 DEF Revalidate
    <2>3. \A g \in Ids : fails[g].state \in {"merged", "complete", "cancelled"}
      <3>1. \A g \in Ids : fails[g].state \notin {"observed", "reserved", "blocked"} BY <1>7 DEF Revalidate
      <3> QED BY <3>1, States6, Basics DEF Types
    <2> QED BY ONLY <1>0, <2>1, <2>2, <2>3 DEF OneUnresolved, SameLength
  <1>8. CASE RetryInfra
    <2>1. item'.stage = "validating" /\ Kind = "validation_only" /\ UNCHANGED fails BY <1>0, <1>8 DEF RetryInfra
    <2>2. \A g \in Ids : fails[g].state \in {"merged", "complete", "cancelled"}
      <3>1. \A g \in Ids : fails[g].state \notin {"observed", "reserved", "blocked"} BY <1>8 DEF RetryInfra, Open
      <3> QED BY <3>1, States6, Basics DEF Types
    <2> QED BY ONLY <1>0, <2>1, <2>2 DEF OneUnresolved
  <1>9. ASSUME NEW f \in Ids, OutOfScope(f) PROVE OneUnresolved' BY <1>9, <1>b, RowSteps DEF OutOfScope
  <1>10. ASSUME NEW f \in Ids, SourceAttempt(f) PROVE OneUnresolved' BY <1>10, <1>b, RowSteps DEF SourceAttempt
  <1>11. ASSUME NEW f \in Ids, Reserve(f) PROVE OneUnresolved' BY <1>11, <1>b, RowSteps DEF Reserve
  <1>12. ASSUME NEW f \in Ids, BudgetRecheck(f) PROVE OneUnresolved' BY <1>12, <1>b, RowSteps DEF BudgetRecheck
  <1>13. ASSUME NEW f \in Ids, SourceRecheck(f) PROVE OneUnresolved'
    <2>1. SameLength /\ fails[f].state = "blocked" /\ \A g \in Ids : g # f => fails'[g].state = fails[g].state
      BY <1>13, RowSteps
    <2>2. UNCHANGED item BY <1>13 DEF SourceRecheck
    <2> QED BY <1>a, <2>1, <2>2
  <1>14. CASE UNCHANGED <<fails, item, pm>> BY <1>14, InvKept
  <1>15. CASE Freeze
    <2>1. UNCHANGED <<item, pm>> BY <1>15 DEF Freeze
    <2>2. CASE UNCHANGED fails BY <1>14, <2>1, <2>2
    <2>3. CASE ~UNCHANGED fails
      <3>1. PICK f \in Ids : /\ fails[f].state = "observed" /\ SameLength
                             /\ \A g \in Ids : g # f => fails'[g].state = fails[g].state
        BY <1>15, <2>3, SourceSteps DEF Moved
      <3> QED BY <1>a, <2>1, <3>1
    <2> QED BY <2>2, <2>3
  <1>16. CASE SourceError
    <2>1. UNCHANGED <<item, pm>> BY <1>16 DEF SourceError
    <2> QED BY <1>14, <1>16, <1>b, <2>1, SourceSteps
  <1>17. ASSUME NEW c \in Candidates, Candidate(c) PROVE OneUnresolved'
    <2>1. CASE c = "in"
      <3>1. /\ item' = [item EXCEPT !.stage = "open", !.pr = res.f, !.cand = c] /\ UNCHANGED fails
            /\ res.status = "started"
        BY <1>17, <2>1 DEF Candidate
      <3>2. res.f = Len(fails) /\ res.f # 0 /\ fails[res.f].state = "reserved"
        BY <1>0, <3>1 DEF ReservationOfLast, None
      <3>3. item'.stage = "open" /\ item'.pr = res.f /\ item'.cand = "in" BY ONLY <1>0, <2>1, <3>1
      <3>4. res.f \in Ids BY <1>0, <3>2
      <3> QED BY ONLY <1>0, <3>1, <3>2, <3>3, <3>4 DEF OneUnresolved
    <2>2. CASE c # "in"
      <3>1. PICK f \in Ids : fails[f].state = "reserved" /\ Moved(f) BY <1>17, <2>2, SourceSteps
      <3>2. item'.stage = "failed" BY <1>0, <1>17, <2>2 DEF Candidate
      <3> QED BY <1>a, <3>1, <3>2 DEF Moved
    <2> QED BY <2>1, <2>2
  <1>18. CASE Bind BY <1>0, <1>18, <1>c DEF Bind
  <1>19. CASE ClosePR BY <1>0, <1>19, <1>c DEF ClosePR
  <1>20. CASE Stop BY <1>0, <1>20, <1>c DEF Stop
  <1>21. CASE UNCHANGED <<item, fails>> /\ (pm.closed \/ pm.state = "pending")
    <2>1. Kind = "code" /\ (fails = <<>> => item.stage = "failed") BY <1>0, <1>21 DEF SourceCurrent, ReadCurrent, DecisionCurrent
    <2>2. item.stage \in {"open", "merged"} => item.pr # 0 BY ONLY <1>0, <2>1 DEF OneUnresolved
    <2> QED BY ONLY <1>0, <1>21, <2>1, <2>2 DEF OneUnresolved
  <1>22. CASE Decide BY <1>21, <1>22 DEF Decide
  <1>23. CASE ExpirePreMerge BY <1>21, <1>23 DEF ExpirePreMerge, PreMergeDue
  <1>24. CASE ClaimPreMerge BY <1>21, <1>24 DEF ClaimPreMerge, PreMergeDue
  <1>25. CASE PreMergeError
    <2>1. CASE pm.state = "pending" BY <1>21, <1>25, <2>1 DEF PreMergeError
    <2>2. CASE pm.state # "pending"
      <3>1. pm' = pm BY <1>25, <2>2, Basics DEF PreMergeError, Types, TypePm
      <3> QED BY <1>14, <1>25, <3>1 DEF PreMergeError
    <2> QED BY <2>1, <2>2
  <1>26. CASE FreezePreMerge
    <2>1. CASE UNCHANGED <<fails, pm>> BY <1>14, <1>26, <2>1 DEF FreezePreMerge
    <2>2. CASE ~UNCHANGED <<fails, pm>>
      <3>1. /\ pm.state = "pending" /\ fails = <<>>
            /\ Adds([Failure("premerge", {First}) EXCEPT !.repo = First, !.base = src.base])
        BY <1>26, <2>2, Basics, Effects
      <3>2. item.stage = "failed" /\ UNCHANGED item BY <1>0, <1>26, <3>1 DEF SourceCurrent, ReadCurrent, DecisionCurrent, FreezePreMerge
      <3>3. Len(fails') = 1 BY <3>1 DEF Adds
      <3> QED BY ONLY <1>0, <3>2, <3>3 DEF OneUnresolved
    <2> QED BY <2>1, <2>2
  <1>27. CASE Settle
    <2>1. SameLength /\ \A g \in Ids : fails'[g].state \in {"complete", "cancelled"} BY <1>27, TableSteps
    <2>2. item'.stage = "failed" BY <1>0, <1>27 DEF Settle
    <2> QED BY ONLY <1>0, <2>1, <2>2 DEF OneUnresolved, SameLength
  <1>28. CASE NextItem
    <2>1. /\ fails' = <<>> /\ item'.stage = (IF Kind = "code" THEN "open" ELSE "validating") /\ item'.pr = 0 /\ item'.sha = {}
          /\ pm'.state = "none"
      BY <1>28 DEF NextItem, NewItem, NoDecision
    <2>2. Kind \in {"code", "validation_only"} BY Basics DEF Types, TypeWorld, CaseRecords, Kind
    <2> QED BY ONLY <1>0, <2>1, <2>2 DEF OneUnresolved
  <1>29. CASE Elapse
    <2>1. SameLength /\ \A g \in Ids : fails'[g].state = fails[g].state /\ fails'[g].base = fails[g].base
      BY <1>29, TableSteps DEF Alike
    <2>2. UNCHANGED item /\ pm'.state = pm.state BY <1>29, Basics DEF Elapse, Types, TypePm
    <2> QED BY ONLY <1>0, <2>1, <2>2 DEF OneUnresolved, SameLength
  <1>30. CASE Control \/ Lift BY <1>0, <1>30, InvKept DEF Control, Lift
  <1>31. CASE Reopen
    <2>1. pm'.state = pm.state /\ UNCHANGED <<item, fails>> BY <1>31, Basics DEF Reopen, Types, TypePm
    <2> QED BY ONLY <1>0, <2>1 DEF OneUnresolved
  <1> QED BY <1>1, <1>2, <1>3, <1>4, <1>5, <1>6, <1>7, <1>8, <1>9, <1>10, <1>11,
    <1>12, <1>13, <1>14, <1>15, <1>16, <1>17, <1>18, <1>19, <1>20, <1>21, <1>22,
    <1>23, <1>24, <1>25, <1>26, <1>27, <1>28, <1>29, <1>30, <1>31 DEF Next, Results,
    SourceStep, SourceReply, RunStep, PreMergeStep, vars, ReadBranch, Rebind,
    CandidateRepair, Grant, Crash, Push

LEMMA ReservationStep == IInv /\ [Next]_vars => ReservationOfLast'
  <1> SUFFICES ASSUME IInv, [Next]_vars PROVE ReservationOfLast' OBVIOUS
  <1>0. /\ OneUnresolved /\ ReservationOfLast
        /\ Ids = 1..Len(fails) /\ Len(fails) \in 0..MaxFails /\ MaxFails \in Nat /\ item.pr \in 0..MaxFails
        /\ Ids' = 1..Len(fails') /\ Len(fails') \in 0..MaxFails /\ None = 0
        /\ item \in [stage: Stages, pr: 0..MaxFails, sha: SUBSET (0..Pushed), cand: Candidates \cup {"in"},
                     paused: BOOLEAN, cancelled: BOOLEAN, revoked: BOOLEAN, done: BOOLEAN, owner: BOOLEAN]
        /\ res \in [f: 0..MaxFails, inc: 0..MaxInc, status: {"none", "reserved", "started"}, stale: BOOLEAN]
    BY Basics DEF IInv, Types, TypeItem, TypeRes, None
  <1>1. CASE UNCHANGED <<res, fails>> /\ item'.stage = item.stage /\ item'.owner = item.owner BY <1>1, InvKept
  \* nothing is reserved
  <1>a. ASSUME res'.f = 0, res'.status = "none", item'.stage # "repairing" PROVE ReservationOfLast'
    BY ONLY <1>0, <1>a DEF ReservationOfLast
  <1>b. Released.f = 0 /\ Released.status = "none" BY DEF Released, NoReservation, None
  <1>c. \A f \in Ids : res.f = f => f = Len(fails) /\ fails[f].state = "reserved" BY <1>0 DEF ReservationOfLast
  \* a row that is not reserved changes
  <1>d. ASSUME NEW f \in Ids, fails[f].state # "reserved", SameLength, \A g \in Ids : g # f => fails'[g].state = fails[g].state,
               UNCHANGED <<item, res>>
        PROVE  ReservationOfLast'
    <2>1. res.f # f BY <1>c, <1>d
    <2>2. res.f # 0 => res.f \in Ids BY <1>0 DEF ReservationOfLast
    <2> QED BY ONLY <1>0, <1>d, <2>1, <2>2 DEF ReservationOfLast, SameLength
  <1>2. CASE MergePR
    <2>1. res' = Released /\ item'.stage = "merged" BY <1>0, <1>2 DEF MergePR
    <2> QED BY <1>a, <1>b, <2>1
  <1>e. ASSUME item.stage \in {"merged", "validating"}, item'.stage # "repairing", UNCHANGED res PROVE ReservationOfLast'
    <2>1. res.f = 0
      <3>1. res.f # 0 => res.f \in Ids /\ fails[res.f].state = "reserved" BY <1>0 DEF ReservationOfLast
      <3>2. CASE item.stage = "merged" BY <1>0, <3>2 DEF ReservationOfLast
      <3>3. CASE item.stage = "validating" BY <1>0, <3>1, <3>3 DEF OneUnresolved
      <3> QED BY <1>e, <3>2, <3>3
    <2> QED BY ONLY <1>0, <1>e, <2>1 DEF ReservationOfLast
  <1>3. CASE AcceptMerge BY <1>0, <1>3, <1>e DEF AcceptMerge
  <1>4. CASE RejectMerge BY <1>0, <1>4, <1>e DEF RejectMerge
  <1>5. CASE Accept BY <1>0, <1>5, <1>e DEF Accept
  <1>6. CASE Reject BY <1>0, <1>6, <1>e DEF Reject
  <1>7. CASE FailInfra BY <1>0, <1>7, <1>e DEF FailInfra
  <1>8. CASE Revalidate
    <2>1. res.f = 0
      <3>1. res.f # 0 => res.f \in Ids /\ fails[res.f].state = "reserved" BY <1>0 DEF ReservationOfLast
      <3> QED BY <1>8, <3>1 DEF Revalidate
    <2>2. UNCHANGED res /\ item'.stage = "validating" BY <1>0, <1>8 DEF Revalidate
    <2> QED BY ONLY <1>0, <2>1, <2>2 DEF ReservationOfLast
  <1>9. CASE RetryInfra
    <2>1. res.f = 0
      <3>1. res.f # 0 => res.f \in Ids /\ fails[res.f].state = "reserved" BY <1>0 DEF ReservationOfLast
      <3> QED BY <1>9, <3>1 DEF RetryInfra, Open
    <2>2. UNCHANGED res /\ item'.stage = "validating" BY <1>0, <1>9 DEF RetryInfra
    <2> QED BY ONLY <1>0, <2>1, <2>2 DEF ReservationOfLast
  <1>10. ASSUME NEW f \in Ids, OutOfScope(f) PROVE ReservationOfLast' BY <1>10, <1>d, RowSteps DEF OutOfScope, Moved
  <1>11. ASSUME NEW f \in Ids, SourceAttempt(f) PROVE ReservationOfLast' BY <1>11, <1>d, RowSteps DEF SourceAttempt, Moved
  <1>12. ASSUME NEW f \in Ids, BudgetRecheck(f) PROVE ReservationOfLast' BY <1>12, <1>d, RowSteps DEF BudgetRecheck, Moved
  <1>13. ASSUME NEW f \in Ids, SourceRecheck(f) PROVE ReservationOfLast' BY <1>13, <1>d, RowSteps DEF SourceRecheck
  <1>14. ASSUME NEW f \in Ids, Reserve(f) PROVE ReservationOfLast'
    <2>1. Moved(f) /\ fails[f].state = "observed" /\ (Quota => fails'[f].state = "reserved") BY <1>14, RowSteps
    <2>2. CASE ~Quota BY <1>14, <1>d, <2>1, <2>2 DEF Reserve, Moved
    <2>3. CASE Quota
      <3>1. res'.f = f /\ res'.status = "reserved" /\ UNCHANGED item
        BY ONLY <1>0, <1>14, <2>3 DEF Reserve
      <3>2. item.owner /\ item.stage = "failed" BY <1>14 DEF Reserve, Allowed, Authorized, Permitted
      <3>3. f = Len(fails) /\ f # 0 BY <2>1, LastOne
      <3> QED BY ONLY <1>0, <2>1, <2>3, <3>1, <3>2, <3>3 DEF ReservationOfLast, Moved, SameLength
    <2> QED BY <2>2, <2>3
  <1>15. CASE Freeze
    <2>1. UNCHANGED <<item, res>> BY <1>15 DEF Freeze
    <2>2. CASE UNCHANGED fails BY <1>1, <2>1, <2>2
    <2>3. CASE ~UNCHANGED fails
      <3>1. PICK f \in Ids : /\ fails[f].state = "observed" /\ SameLength
                             /\ \A g \in Ids : g # f => fails'[g].state = fails[g].state
        BY <1>15, <2>3, SourceSteps DEF Moved
      <3> QED BY <1>d, <2>1, <3>1
    <2> QED BY <2>2, <2>3
  <1>16. CASE SourceError
    <2>1. UNCHANGED <<item, res>> BY <1>16 DEF SourceError
    <2> QED BY <1>1, <1>16, <1>d, <2>1, SourceSteps DEF Moved
  <1>17. ASSUME NEW c \in Candidates, Candidate(c) PROVE ReservationOfLast'
    <2>1. CASE c = "in"
      <3>1. item' = [item EXCEPT !.stage = "open", !.pr = res.f, !.cand = c] /\ UNCHANGED <<fails, res>>
        BY <1>17, <2>1 DEF Candidate
      <3>2. item'.stage = "open" /\ item'.owner = item.owner BY <1>0, <3>1
      <3> QED BY ONLY <1>0, <3>1, <3>2 DEF ReservationOfLast
    <2>2. CASE c # "in"
      <3>1. res' = Released /\ item'.stage = "failed" BY <1>0, <1>17, <2>2 DEF Candidate
      <3> QED BY <1>a, <1>b, <3>1
    <2> QED BY <2>1, <2>2
  <1>18. CASE Bind
    <2>1. res'.status = "started" /\ res'.f = res.f /\ item'.stage = "repairing" /\ item'.owner = item.owner /\ UNCHANGED fails
      BY ONLY <1>0, <1>18 DEF Bind
    <2>2. res.status = "reserved" BY <1>18 DEF Bind, Pending
    <2> QED BY ONLY <1>0, <2>1, <2>2 DEF ReservationOfLast
  <1>19. CASE Rebind
    <2>1. res'.status = res.status /\ res'.f = res.f /\ UNCHANGED <<item, fails>> BY ONLY <1>0, <1>19 DEF Rebind
    <2> QED BY ONLY <1>0, <2>1 DEF ReservationOfLast
  <1>20. CASE Stop
    <2>1. res' = Released /\ item'.stage = "failed" BY <1>0, <1>20 DEF Stop
    <2> QED BY <1>a, <1>b, <2>1
  <1>21. CASE Settle
    <2>1. res'.f = 0 /\ res'.status = "none" /\ item'.stage = "failed"
      BY <1>0, <1>21 DEF Settle, NoReservation, None
    <2> QED BY <1>a, <2>1
  <1>22. CASE NextItem
    <2>1. res.f = 0 /\ UNCHANGED res BY <1>0, <1>22 DEF NextItem, ReservationOfLast
    <2>2. item'.stage \in {"open", "validating"} BY <1>22 DEF NextItem, NewItem
    <2> QED BY ONLY <1>0, <2>1, <2>2 DEF ReservationOfLast
  <1>23. CASE Elapse
    <2>1. SameLength /\ \A g \in Ids : fails'[g].state = fails[g].state BY <1>23, TableSteps
    <2>2. UNCHANGED <<item, res>> BY <1>23 DEF Elapse
    <2>3. res.f # 0 => res.f \in Ids BY <1>0 DEF ReservationOfLast
    <2> QED BY ONLY <1>0, <2>1, <2>2, <2>3 DEF ReservationOfLast, SameLength
  <1>24. CASE ClosePR
    <2>1. item.stage = "open" /\ item.pr = 0 /\ item'.stage = "failed" /\ item'.owner = item.owner /\ UNCHANGED <<res, fails>>
      BY ONLY <1>0, <1>24 DEF ClosePR
    <2>2. res.f = 0 BY ONLY <1>0, <2>1 DEF ReservationOfLast, OneUnresolved
    <2> QED BY ONLY <1>0, <2>1, <2>2 DEF ReservationOfLast
  <1>25. CASE FreezePreMerge
    <2>1. CASE UNCHANGED fails BY <1>1, <1>25, <2>1 DEF FreezePreMerge
    <2>2. CASE ~UNCHANGED fails
      <3>1. /\ fails = <<>> /\ UNCHANGED <<item, res>>
            /\ Adds([Failure("premerge", {First}) EXCEPT !.repo = First, !.base = src.base])
        BY <1>25, <2>2, Basics, Effects DEF FreezePreMerge
      <3>2. res.f = 0 BY ONLY <1>0, <3>1 DEF ReservationOfLast
      <3> QED BY ONLY <1>0, <3>1, <3>2 DEF ReservationOfLast
    <2> QED BY <2>1, <2>2
  <1>26. CASE Control \/ Lift BY <1>0, <1>26, <1>1 DEF Control, Lift
  <1> QED BY <1>1, <1>2, <1>3, <1>4, <1>5, <1>6, <1>7, <1>8, <1>9, <1>10, <1>11,
    <1>12, <1>13, <1>14, <1>15, <1>16, <1>17, <1>18, <1>19, <1>20, <1>21, <1>22,
    <1>23, <1>24, <1>25, <1>26 DEF Next, Results, SourceStep, SourceReply, RunStep,
    PreMergeStep, vars, ReadBranch, PreMergeError, CandidateRepair, Reopen, Decide,
    ExpirePreMerge, ClaimPreMerge, Grant, Crash, Push

LEMMA ReadStep == IInv /\ [Next]_vars => ReadCurrent'
  <1> SUFFICES ASSUME IInv, [Next]_vars PROVE ReadCurrent' OBVIOUS
  <1>0. /\ ReadCurrent /\ RowsConsistent /\ First' = First /\ First \in Repos /\ None \notin Repos
        /\ Ids = 1..Len(fails) /\ Len(fails) \in 0..MaxFails /\ MaxFails \in Nat
        /\ None = 0 /\ TypeWorld /\ TypeFails
        /\ branch \in [Repos -> SUBSET (0..Pushed)]
        /\ src \in [f: 0..MaxFails, repo: Repos \cup {None}, base: Commits]
        /\ pm \in [state: {"none", "pending", "ready", "blocked"}, base: Commits, tries: 0..3,
                   due: BOOLEAN, closed: BOOLEAN]
    BY Basics DEF IInv, Types, SourceCurrent, TypeBranch, TypeSrc, TypePm, None
  <1>n. NoSource.f = None BY DEF NoSource
  \* nothing is read any more, or not yet
  <1>a. ASSUME src' = NoSource PROVE ReadCurrent' BY <1>n, <1>a DEF ReadCurrent, NoSource
  \* what is read stays, and its row is not rechecked
  <1>b. ASSUME UNCHANGED src,
               src.f \in Ids => src.f \in Ids' /\ fails'[src.f].blame = fails[src.f].blame /\ fails'[src.f].why # "scope"
        PROVE  ReadCurrent'
    BY ONLY <1>0, <1>n, <1>b DEF ReadCurrent
  <1>c. ASSUME UNCHANGED <<src, fails>> PROVE ReadCurrent'
    BY ONLY <1>0, <1>n, <1>c DEF ReadCurrent, Ids
  <1>d. ASSUME UNCHANGED src, SameLength, \A g \in Ids : fails'[g].blame = fails[g].blame /\ fails'[g].why = fails[g].why
        PROVE  ReadCurrent'
    <2>1. src.f \in Ids => src.f # None /\ fails[src.f].why # "scope" BY <1>0 DEF ReadCurrent
    <2> QED BY <1>b, <1>d, <2>1 DEF SameLength
  <1>e. ASSUME UNCHANGED src, \A g \in Ids : fails'[g] = fails[g], Ids \subseteq Ids'
        PROVE  ReadCurrent'
    <2>1. src.f \in Ids => src.f # None /\ fails[src.f].why # "scope" BY <1>0 DEF ReadCurrent
    <2> QED BY <1>b, <1>e, <2>1
  <1>f. ASSUME UNCHANGED src, NEW f \in Ids, Moved(f), fails'[f].why # "scope" PROVE ReadCurrent'
    <2>1. src.f \in Ids => src.f # None /\ fails[src.f].why # "scope" BY <1>0 DEF ReadCurrent
    <2> QED BY <1>b, <1>f, <2>1 DEF Moved, SameLength, Alike
  <1>1. CASE UNCHANGED <<src, fails>> BY <1>1, <1>c
  <1>2. CASE AcceptMerge BY <1>2, <1>d, TableSteps DEF AcceptMerge
  <1>3. CASE RejectMerge
    <2>1. /\ Ids \subseteq Ids'
          /\ \A g \in Ids : fails'[g].blame = fails[g].blame /\ fails'[g].why = fails[g].why
      BY <1>3, TableSteps DEF Adds
    <2>2. src.f \in Ids => src.f # None /\ fails[src.f].why # "scope" BY <1>0 DEF ReadCurrent
    <2> QED BY <1>3, <1>b, <2>1, <2>2 DEF RejectMerge
  <1>4. CASE Accept BY <1>4, <1>d, TableSteps DEF Accept, Alike
  <1>5. CASE Reject
    <2>1. Ids \subseteq Ids' /\ \A g \in Ids : fails'[g] = fails[g] BY <1>5, Basics, Effects DEF Adds
    <2> QED BY <1>5, <1>e, <2>1 DEF Reject
  <1>6. CASE Revalidate
    <2>1. SameLength /\ \A g \in Ids : fails'[g].blame = fails[g].blame /\ fails'[g].why = fails[g].why
      BY <1>6, TableSteps
    <2> QED BY <1>6, <1>d, <2>1 DEF Revalidate
  <1>7. ASSUME NEW f \in Ids, OutOfScope(f) PROVE ReadCurrent' BY <1>7, <1>a DEF OutOfScope, Due
  <1>8. ASSUME NEW f \in Ids, SourceAttempt(f) PROVE ReadCurrent'
    <2>1. Moved(f) /\ fails[f].state = "observed" /\ fails[f].why = ""
      BY <1>0, <1>8, RowSteps DEF RowsConsistent, RowConsistent
    <2>2. CASE UNCHANGED src BY <1>8, <1>a, <2>2 DEF SourceAttempt, Due
    <2>3. CASE ~UNCHANGED src
      <3>1. src' = [f |-> f, repo |-> TargetOf(f), base |-> Nowhere] BY <1>8, <2>3 DEF SourceAttempt
      <3>2. TargetOf(f) \in fails[f].blame BY <1>0, <1>8, TargetIn DEF SourceAttempt
      <3>3. fails'[f].why = "" /\ fails'[f].blame = fails[f].blame
        BY <1>8, <2>1, <2>3, RowSteps DEF Moved, Alike
      <3>4. f \in Ids' BY ONLY <2>1 DEF Moved, SameLength
      <3>5. src'.f = f /\ src'.repo = TargetOf(f) /\ src'.base = Nowhere /\ f # None BY ONLY <1>0, <3>1
      <3>6. PICK g \in Ids' : g = src'.f BY ONLY <3>4, <3>5
      <3>7. g = f /\ fails'[g].why # "scope" /\ src'.repo \in fails'[g].blame
        BY ONLY <3>2, <3>3, <3>5, <3>6
      <3> QED BY ONLY <3>5, <3>6, <3>7 DEF ReadCurrent
    <2> QED BY <2>2, <2>3
  <1>9. ASSUME NEW f \in Ids, Reserve(f) PROVE ReadCurrent'
    <2>1. Moved(f) /\ fails[f].state = "observed" /\ fails[f].why = ""
      BY <1>0, <1>9, RowSteps DEF RowsConsistent, RowConsistent
    <2>2. fails'[f].why # "scope"
      <3>1. fails'[f].state = "blocked" => fails'[f].why = "budget" BY <1>9, RowSteps
      <3>2. f \in Ids' BY <2>1 DEF Moved, SameLength
      <3>3. RowConsistent(f)' BY <3>2, RowsStep DEF RowsConsistent
      <3>4. fails'[f].state = "reserved" => fails'[f].why = "" BY ONLY <3>3 DEF RowConsistent
      <3> QED BY <1>9, <3>1, <3>4, RowSteps
    <2> QED BY <1>9, <1>f, <2>1, <2>2 DEF Reserve
  <1>10. ASSUME NEW f \in Ids, BudgetRecheck(f) PROVE ReadCurrent' BY <1>10, <1>f, RowSteps DEF BudgetRecheck
  <1>11. ASSUME NEW f \in Ids, SourceRecheck(f) PROVE ReadCurrent'
    <2>1. /\ SameLength /\ fails[f].why = "scope" /\ \A g \in Ids : g # f => fails'[g] = fails[g] /\ UNCHANGED src
      BY <1>11, RowSteps DEF SourceRecheck
    <2>2. src.f \in Ids => src.f # None /\ fails[src.f].why # "scope" BY <1>0 DEF ReadCurrent
    <2> QED BY <1>11, <1>b, <2>1, <2>2 DEF SameLength, SourceRecheck
  <1>12. CASE Freeze BY <1>12, <1>a DEF Freeze
  <1>13. CASE SourceError BY <1>13, <1>a DEF SourceError
  <1>14. ASSUME NEW c \in Candidates, Candidate(c) PROVE ReadCurrent'
    <2>1. UNCHANGED src BY <1>14 DEF Candidate
    <2> QED BY <1>14, <1>c, <1>f, <2>1, SourceSteps
  <1>15. CASE FreezePreMerge BY <1>15, <1>a DEF FreezePreMerge
  <1>16. CASE Settle BY <1>16, <1>d, TableSteps DEF Settle, Alike
  <1>17. CASE NextItem BY <1>17, <1>a DEF NextItem
  <1>18. CASE Elapse BY <1>18, <1>d, TableSteps DEF Elapse, Alike
  <1>19. CASE PreMergeError \/ Crash BY <1>19, <1>a DEF PreMergeError, Crash
  <1>20. CASE ReadBranch
    <2>1. src.repo \in Repos /\ UNCHANGED fails BY <1>20, SrcRepo DEF ReadBranch
    <2>2. src' = [src EXCEPT !.base = branch[src.repo]] /\ branch[src.repo] \in SUBSET (0..Pushed)
      BY <1>0, <1>20, <2>1 DEF ReadBranch, Commit
    <2>3. src'.f = src.f /\ src'.repo = src.repo /\ src'.base \in SUBSET (0..Pushed) BY ONLY <1>0, <2>2
    <2>4. src # NoSource BY <1>20 DEF ReadBranch
    <2> QED BY ONLY <1>0, <1>n, <2>1, <2>3, <2>4 DEF ReadCurrent, Ids
  <1>21. CASE ClaimPreMerge
    <2>1. UNCHANGED fails BY <1>21 DEF ClaimPreMerge
    <2>2. CASE UNCHANGED src BY <1>c, <2>1, <2>2
    <2>3. CASE src' = [f |-> None, repo |-> First, base |-> pm.base]
      <3>1. pm.base \in SUBSET (0..Pushed)
        BY <1>21 DEF IInv, SourceCurrent, DecisionCurrent, ClaimPreMerge, PreMergeDue
      <3> QED BY ONLY <1>0, <2>3, <3>1 DEF ReadCurrent
    <2> QED BY <1>21, <2>2, <2>3 DEF ClaimPreMerge
  <1> QED BY <1>1, <1>2, <1>3, <1>4, <1>5, <1>6, <1>7, <1>8, <1>9, <1>10, <1>11,
    <1>12, <1>13, <1>14, <1>15, <1>16, <1>17, <1>18, <1>19, <1>20, <1>21 DEF Next,
    Results, SourceStep, SourceReply, RunStep, PreMergeStep, vars, MergePR,
    FailInfra, RetryInfra, Rebind, Bind, CandidateRepair, ClosePR, Reopen, Decide,
    ExpirePreMerge, Grant, Control, Lift, Stop, Push

LEMMA DecisionStep == IInv /\ [Next]_vars => DecisionCurrent'
  <1> SUFFICES ASSUME IInv, [Next]_vars PROVE DecisionCurrent' OBVIOUS
  <1>0. /\ DecisionCurrent /\ OneUnresolved /\ ReservationOfLast /\ Kind' = Kind /\ First \in Repos
        /\ Ids = 1..Len(fails) /\ Len(fails) \in 0..MaxFails /\ MaxFails \in Nat /\ item.pr \in 0..MaxFails
        /\ None = 0 /\ fails \in Seq(Rows) /\ fails' \in Seq(Rows)
        /\ branch \in [Repos -> SUBSET (0..Pushed)]
        /\ item \in [stage: Stages, pr: 0..MaxFails, sha: SUBSET (0..Pushed), cand: Candidates \cup {"in"},
                     paused: BOOLEAN, cancelled: BOOLEAN, revoked: BOOLEAN, done: BOOLEAN, owner: BOOLEAN]
        /\ pm \in [state: {"none", "pending", "ready", "blocked"}, base: Commits, tries: 0..3,
                   due: BOOLEAN, closed: BOOLEAN]
    BY Basics DEF IInv, Types, SourceCurrent, TypeBranch, TypePm, TypeFails, TypeItem, None
  <1> HIDE DEF Rows
  \* the item has no failure, and no decision is open
  <1>e. item.stage # "failed" => (pm.state = "none" /\ ~pm.closed) \/ fails # <<>> BY <1>0 DEF DecisionCurrent
  <1>l. fails # <<>> <=> Len(fails) # 0
    <2> HIDE DEF Ids
    <2> QED BY <1>0
  <1>m. fails' # <<>> <=> Len(fails') # 0 BY <1>0
  <1>a. ASSUME UNCHANGED pm, Len(fails') = Len(fails), item'.stage = item.stage \/ item'.stage = "failed" \/ fails # <<>>,
               item'.sha = item.sha \/ fails # <<>>, item'.sha = {} \/ item'.sha = item.sha
                    \/ fails # <<>>
        PROVE  DecisionCurrent'
    BY ONLY <1>0, <1>a, <1>l, <1>m DEF DecisionCurrent
  <1>b. ASSUME SameLength, UNCHANGED <<pm, item>> PROVE DecisionCurrent' BY <1>a, <1>b DEF SameLength
  <1>c. ASSUME UNCHANGED pm, pm.state = "none", ~pm.closed PROVE DecisionCurrent' BY <1>0, <1>c DEF DecisionCurrent
  <1>1. CASE UNCHANGED <<pm, fails, item>> BY <1>1, <1>a
  <1>2. CASE MergePR
    <2>1. item.stage = "open" /\ UNCHANGED <<pm, fails>> /\ item'.stage = "merged" BY <1>0, <1>2 DEF MergePR
    <2>2. CASE fails = <<>> BY <1>0, <1>c, <1>e, <2>1, <2>2
    <2>3. CASE fails # <<>> BY <1>a, <2>1, <2>3
    <2> QED BY <2>2, <2>3
  <1>3. CASE AcceptMerge
    <2>1. Len(fails') = Len(fails) /\ UNCHANGED pm /\ item'.stage = "failed" /\ item'.sha = item.sha
      BY <1>0, <1>3, TableSteps DEF SameLength, AcceptMerge
    <2> QED BY <1>a, <2>1
  <1>d. ASSUME UNCHANGED pm, Len(fails') = Len(fails) + 1, pm.state # "pending" PROVE DecisionCurrent'
    BY ONLY <1>0, <1>d, <1>m DEF DecisionCurrent
  <1>4. CASE RejectMerge
    <2>1. UNCHANGED pm /\ Len(fails') = Len(fails) + 1 /\ item.stage = "merged"
      BY <1>4, TableSteps DEF Adds, RejectMerge
    <2>2. pm.state # "pending" BY <1>0, <2>1 DEF DecisionCurrent
    <2> QED BY <1>d, <2>1, <2>2
  <1>5. CASE Accept
    <2>1. Len(fails') = Len(fails) /\ UNCHANGED pm /\ item'.stage = item.stage /\ item'.sha = item.sha
      BY <1>0, <1>5, TableSteps DEF SameLength, Accept
    <2> QED BY <1>a, <2>1
  <1>6. CASE Reject
    <2>1. UNCHANGED pm /\ Len(fails') = Len(fails) + 1 /\ item.stage = "validating"
      BY <1>6, Basics, Effects DEF Adds, Reject
    <2>2. pm.state # "pending" BY <1>0, <2>1 DEF DecisionCurrent
    <2> QED BY <1>d, <2>1, <2>2
  <1>7. CASE FailInfra
    <2>1. UNCHANGED <<fails, pm>> /\ item'.stage = "failed" /\ item'.sha = item.sha BY <1>0, <1>7 DEF FailInfra
    <2> QED BY <1>a, <2>1
  <1>8. CASE Revalidate
    <2>1. /\ Kind # "code" /\ UNCHANGED pm /\ Len(fails') = Len(fails)
      BY <1>8, TableSteps DEF Revalidate, SameLength
    <2> QED BY ONLY <1>0, <2>1, <1>l, <1>m DEF DecisionCurrent
  <1>9. CASE RetryInfra
    <2>1. Kind # "code" /\ UNCHANGED <<pm, fails>> BY <1>9 DEF RetryInfra
    <2> QED BY ONLY <1>0, <2>1 DEF DecisionCurrent
  <1>10. ASSUME NEW f \in Ids, OutOfScope(f) PROVE DecisionCurrent' BY <1>10, <1>b, RowSteps DEF OutOfScope, Moved
  <1>11. ASSUME NEW f \in Ids, SourceAttempt(f) PROVE DecisionCurrent' BY <1>11, <1>b, RowSteps DEF SourceAttempt, Moved
  <1>12. ASSUME NEW f \in Ids, Reserve(f) PROVE DecisionCurrent' BY <1>12, <1>b, RowSteps DEF Reserve, Moved
  <1>13. ASSUME NEW f \in Ids, BudgetRecheck(f) PROVE DecisionCurrent' BY <1>13, <1>b, RowSteps DEF BudgetRecheck, Moved
  <1>14. ASSUME NEW f \in Ids, SourceRecheck(f) PROVE DecisionCurrent' BY <1>14, <1>b, RowSteps DEF SourceRecheck
  <1>15. CASE Freeze
    <2>1. UNCHANGED <<item, pm>> BY <1>15 DEF Freeze
    <2> QED BY <1>1, <1>15, <1>b, <2>1, SourceSteps DEF Moved
  <1>16. CASE SourceError
    <2>1. UNCHANGED <<item, pm>> BY <1>16 DEF SourceError
    <2> QED BY <1>1, <1>16, <1>b, <2>1, SourceSteps DEF Moved
  <1>17. ASSUME NEW c \in Candidates, Candidate(c) PROVE DecisionCurrent'
    <2>1. UNCHANGED pm /\ item'.sha = item.sha BY <1>0, <1>17 DEF Candidate
    <2>2. fails # <<>> BY <1>0, <1>17 DEF Candidate, ReservationOfLast
    <2>3. Len(fails') = Len(fails) BY <1>17, SourceSteps DEF Moved, SameLength
    <2> QED BY <1>a, <2>1, <2>2, <2>3
  <1>18. CASE Bind
    <2>1. UNCHANGED <<pm, fails>> /\ item'.sha = item.sha BY <1>0, <1>18 DEF Bind
    <2>2. fails # <<>> BY <1>0, <1>18 DEF Bind, Pending, ReservationOfLast
    <2> QED BY <1>a, <2>1, <2>2
  <1>19. CASE ClosePR
    <2>1. /\ item.stage = "open" /\ item.pr = 0 /\ UNCHANGED fails /\ item'.stage = "failed" /\ item'.sha = item.sha
          /\ pm'.state = pm.state
      BY ONLY <1>0, <1>19 DEF ClosePR
    <2>2. Len(fails) = 0 /\ Kind = "code" /\ pm.state = "none" /\ item.sha = {} BY ONLY <1>0, <2>1 DEF OneUnresolved
    <2> QED BY ONLY <1>0, <2>1, <2>2 DEF DecisionCurrent
  <1>20. CASE Reopen
    <2>1. pm'.state = pm.state /\ pm'.base = pm.base /\ pm.closed /\ UNCHANGED <<item, fails>>
      BY ONLY <1>0, <1>20 DEF Reopen
    <2> QED BY ONLY <1>0, <2>1 DEF DecisionCurrent
  <1>21. CASE Decide
    <2>1. /\ pm'.state = "pending" /\ pm'.base = branch[First] /\ pm.closed /\ fails = <<>> /\ UNCHANGED <<item, fails>>
      BY ONLY <1>0, <1>21 DEF Decide, Commit
    <2>2. branch[First] \in SUBSET (0..Pushed) BY ONLY <1>0
    <2> QED BY ONLY <1>0, <2>1, <2>2 DEF DecisionCurrent
  <1>f. ASSUME pm'.state \in {"pending", "blocked"}, pm'.base = pm.base, pm.state = "pending", UNCHANGED <<item, fails>>
        PROVE  DecisionCurrent'
    BY ONLY <1>0, <1>f DEF DecisionCurrent
  <1>22. CASE ExpirePreMerge
    <2>1. pm'.state = "blocked" /\ pm'.base = pm.base /\ pm.state = "pending" /\ UNCHANGED <<item, fails>>
      BY ONLY <1>0, <1>22 DEF ExpirePreMerge, PreMergeDue
    <2> QED BY <1>f, <2>1
  <1>23. CASE ClaimPreMerge
    <2>1. /\ pm'.state \in {"pending", "blocked"} /\ pm'.base = pm.base /\ pm.state = "pending" /\ UNCHANGED <<item, fails>>
      BY ONLY <1>0, <1>23 DEF ClaimPreMerge, PreMergeDue
    <2> QED BY <1>f, <2>1
  <1>24. CASE PreMergeError
    <2>1. /\ pm'.base = pm.base /\ UNCHANGED <<item, fails>>
          /\ IF pm.state = "pending" THEN pm'.state \in {"pending", "blocked"} ELSE pm' = pm
      BY ONLY <1>0, <1>24 DEF PreMergeError
    <2> QED BY <1>1, <1>f, <2>1
  <1>25. CASE FreezePreMerge
    <2>1. CASE UNCHANGED <<fails, pm>> BY <1>1, <1>25, <2>1 DEF FreezePreMerge
    <2>2. CASE ~UNCHANGED <<fails, pm>>
      <3>1. /\ pm' = [pm EXCEPT !.state = "ready"] /\ pm.state = "pending"
            /\ Adds([Failure("premerge", {First}) EXCEPT !.repo = First, !.base = src.base])
        BY <1>25, <2>2, Basics, Effects
      <3>2. Len(fails') # 0 /\ pm'.state = "ready" BY <1>0, <3>1 DEF Adds
      <3> QED BY ONLY <1>0, <1>m, <3>1, <3>2 DEF DecisionCurrent
    <2> QED BY <2>1, <2>2
  <1>26. CASE Control \/ Lift
    <2>1. UNCHANGED <<pm, fails>> /\ item'.stage = item.stage /\ item'.sha = item.sha
      BY ONLY <1>0, <1>26 DEF Control, Lift
    <2> QED BY <1>a, <2>1
  <1>27. CASE Settle
    <2>1. UNCHANGED pm /\ Len(fails') = Len(fails) /\ item'.stage = item.stage /\ item'.sha = item.sha
      BY <1>0, <1>27, TableSteps DEF Settle, SameLength
    <2> QED BY <1>a, <2>1
  <1>28. CASE NextItem BY <1>28 DEF NextItem, NoDecision, DecisionCurrent
  <1>29. CASE Stop
    <2>1. UNCHANGED <<pm, fails>> /\ item'.stage = "failed" /\ item'.sha = item.sha BY <1>0, <1>29 DEF Stop
    <2> QED BY <1>a, <2>1
  <1>30. CASE Elapse
    <2>1. /\ pm'.state = pm.state /\ pm'.base = pm.base /\ pm'.closed = pm.closed /\ UNCHANGED item
      BY ONLY <1>0, <1>30 DEF Elapse
    <2>2. Len(fails') = Len(fails) BY <1>30, TableSteps DEF SameLength
    <2> QED BY ONLY <1>0, <1>l, <1>m, <2>1, <2>2 DEF DecisionCurrent
  <1> QED BY <1>1, <1>2, <1>3, <1>4, <1>5, <1>6, <1>7, <1>8, <1>9, <1>10, <1>11,
    <1>12, <1>13, <1>14, <1>15, <1>16, <1>17, <1>18, <1>19, <1>20, <1>21, <1>22,
    <1>23, <1>24, <1>25, <1>26, <1>27, <1>28, <1>29, <1>30 DEF Next, Results,
    SourceStep, SourceReply, RunStep, PreMergeStep, vars, ReadBranch, Rebind,
    CandidateRepair, Grant, Crash, Push

\* What was paid for stays paid for: the quota never pays for a failure twice.
Keeps ==
    /\ Ids \subseteq Ids'
    /\ \A g \in Ids : /\ item'.owner /\ Paid(g) => Paid(g)'
                      /\ fails[g].repo # None => fails'[g].repo # None

LEMMA PaidStep == IInv /\ [Next]_vars => PaidOnce'
  <1> SUFFICES ASSUME IInv, [Next]_vars PROVE PaidOnce' OBVIOUS
  <1> DEFINE P == {f \in Ids : Paid(f)}
             T == {f \in Ids : fails[f].repo # None}
  <1>0. /\ PaidOnce /\ Candidates' = Candidates /\ world'.case.limit = world.case.limit
        /\ world.case.limit \in Nat /\ TypeFails
        /\ Ids' = 1..Len(fails') /\ Len(fails') \in 0..MaxFails /\ MaxFails \in Nat
        /\ account \in [used: Nat, left: Nat, grant: {"none", "given", "spent"}] /\ account'.used \in Nat
    BY Basics DEF IInv, Types, TypeAccount, TypeWorld, CaseRecords
  <1>r. \A g \in Ids' : RowConsistent(g)' BY RowsStep DEF RowsConsistent
  <1>1. IsFiniteSet(P') /\ IsFiniteSet(T')
    <2>1. IsFiniteSet(Ids') BY <1>0, FS_Interval
    <2>2. P' \subseteq Ids' /\ T' \subseteq Ids' OBVIOUS
    <2> QED BY ONLY <2>1, <2>2, FS_Subset
  <1>a. ASSUME account'.used = account.used, Keeps, item'.owner => item.owner PROVE PaidOnce'
    <2>1. T \subseteq T' /\ (item'.owner => P \subseteq P') BY ONLY <1>a DEF Keeps
    <2>2. IsFiniteSet(T) /\ Cardinality(T) \in Nat /\ Cardinality(T) <= Cardinality(T') /\ Cardinality(T') \in Nat
      BY ONLY <1>1, <2>1, FS_Subset, FS_CardinalityType
    <2>3. item'.owner => /\ Cardinality(P) \in Nat /\ Cardinality(P) <= Cardinality(P') /\ Cardinality(P') \in Nat
      BY ONLY <1>1, <2>1, FS_Subset, FS_CardinalityType
    <2>4. account.used \in Nat BY ONLY <1>0
    <2>5. /\ account.used <= world.case.limit
          /\ "again" \notin Candidates => account.used <= Cardinality(T) /\ (item.owner => account.used <= Cardinality(P))
      BY <1>0 DEF PaidOnce
    <2>6. /\ account'.used <= world'.case.limit
          /\ "again" \notin Candidates' => account'.used <= Cardinality(T') /\ (item'.owner => account'.used <= Cardinality(P'))
      <3> HIDE DEF P, T
      <3> QED BY ONLY <1>0, <1>a, <2>2, <2>3, <2>4, <2>5
    <2> QED BY <2>6 DEF PaidOnce
  <1>b. ASSUME UNCHANGED <<account, fails>>, item'.owner => item.owner PROVE PaidOnce' BY <1>b, InvKept
  <1>c. ASSUME NEW f \in Ids, Moved(f), fails[f].state \in {"observed", "blocked"}, fails[f].why # "candidate"
        PROVE  Keeps
    BY ONLY <1>c DEF Keeps, Moved, SameLength, Alike, Paid
  <1>e. \A f \in Ids : fails[f].state = "observed" => fails[f].why = ""
    BY DEF IInv, RowsConsistent, RowConsistent
  <1>2. CASE AcceptMerge
    <2>1. Keeps BY ONLY IInv, [Next]_vars, <1>2, TableSteps DEF Keeps, SameLength, Paid
    <2>2. UNCHANGED account /\ (item'.owner => item.owner) BY <1>2, Basics DEF AcceptMerge, Types, TypeItem
    <2> QED BY <1>a, <2>1, <2>2
  <1>3. CASE RejectMerge
    <2>1. Keeps BY ONLY IInv, [Next]_vars, <1>3, TableSteps DEF Keeps, Adds, Paid
    <2>2. UNCHANGED account /\ item'.owner = item.owner BY <1>3, Basics DEF RejectMerge, Types, TypeItem
    <2> QED BY <1>a, <2>1, <2>2
  <1>4. CASE Accept
    <2>1. Keeps BY ONLY IInv, [Next]_vars, <1>4, TableSteps DEF Keeps, SameLength, Alike, Paid
    <2>2. UNCHANGED account /\ (item'.owner => item.owner) BY <1>4, Basics DEF Accept, Types, TypeItem
    <2> QED BY <1>a, <2>1, <2>2
  <1>5. CASE Reject
    <2>1. Ids \subseteq Ids' /\ \A g \in Ids : fails'[g] = fails[g] BY <1>5, Basics, Effects DEF Adds
    <2>2. Keeps BY ONLY <2>1 DEF Keeps, Paid
    <2>3. UNCHANGED account /\ item'.owner = item.owner BY <1>5, Basics DEF Reject, Types, TypeItem
    <2> QED BY <1>a, <2>2, <2>3
  <1>6. CASE FailInfra \/ RetryInfra \/ MergePR \/ Bind \/ Rebind \/ ClosePR \/ Reopen \/ Control \/ Lift \/ Stop
    BY <1>6, <1>b, Basics DEF FailInfra, RetryInfra, MergePR, Bind, Rebind, ClosePR, Reopen, Control, Lift, Stop,
       Types, TypeItem
  <1>7. CASE Revalidate
    <2>1. PICK f \in Ids :
               /\ SameLength /\ \A g \in Ids : g # f => fails'[g] = fails[g]
               /\ fails'[f].repo = fails[f].repo /\ fails'[f].state = "merged"
      BY <1>7, TableSteps
    <2>2. Keeps BY ONLY <2>1 DEF Keeps, SameLength, Paid
    <2>3. UNCHANGED account /\ item'.owner = item.owner BY <1>7, Basics DEF Revalidate, Types, TypeItem
    <2> QED BY <1>a, <2>2, <2>3
  <1>8. ASSUME NEW f \in Ids, OutOfScope(f) PROVE PaidOnce'
    <2>1. Keeps BY <1>8, <1>c, <1>e, RowSteps
    <2> QED BY <1>8, <1>a, <2>1 DEF OutOfScope
  <1>9. ASSUME NEW f \in Ids, SourceAttempt(f) PROVE PaidOnce'
    <2>1. Keeps BY <1>9, <1>c, <1>e, RowSteps
    <2> QED BY <1>9, <1>a, <2>1 DEF SourceAttempt
  <1>10. ASSUME NEW f \in Ids, BudgetRecheck(f) PROVE PaidOnce'
    <2>1. Keeps BY <1>10, <1>c, RowSteps
    <2>2. account'.used = account.used /\ UNCHANGED item BY ONLY <1>0, <1>10 DEF BudgetRecheck
    <2> QED BY <1>a, <2>1, <2>2
  <1>11. ASSUME NEW f \in Ids, SourceRecheck(f) PROVE PaidOnce'
    <2>1. /\ SameLength /\ fails[f].state = "blocked" /\ fails[f].why = "scope"
          /\ fails'[f].repo = fails[f].repo /\ \A g \in Ids : g # f => fails'[g] = fails[g]
      BY <1>11, RowSteps
    <2>2. Keeps BY ONLY <2>1 DEF Keeps, SameLength, Paid
    <2> QED BY <1>11, <1>a, <2>2 DEF SourceRecheck
  <1>12. ASSUME NEW f \in Ids, Reserve(f) PROVE PaidOnce'
    <2>1. /\ Moved(f) /\ fails[f].state = "observed" /\ UNCHANGED item /\ item.owner
          /\ IF Quota THEN fails'[f].state = "reserved" ELSE UNCHANGED account
      BY <1>12, RowSteps DEF Reserve, Allowed, Authorized, Permitted
    <2>2. Keeps BY <1>c, <1>e, <2>1
    <2>3. CASE ~Quota BY <1>a, <2>1, <2>2, <2>3
    <2>4. CASE Quota
      <3>1. account'.used = account.used + 1 /\ account.used < world.case.limit
        BY ONLY <1>0, <1>12, <2>4 DEF Reserve, Reserved, Quota
      <3>2. f \notin P /\ f \in P' /\ P \subseteq P' BY ONLY <2>1, <2>2, <2>4 DEF Paid, Keeps, Moved, SameLength
      <3>3. P' \subseteq T' BY <1>r DEF RowConsistent, Paid
      <3> HIDE DEF P, T
      <3>4. IsFiniteSet(P) /\ Cardinality(P \cup {f}) = Cardinality(P) + 1 /\ P \cup {f} \subseteq P'
        BY ONLY <1>1, <3>2, FS_Subset, FS_AddElement
      <3>5. /\ Cardinality(P) + 1 <= Cardinality(P') /\ Cardinality(P') <= Cardinality(T')
            /\ Cardinality(P) \in Nat /\ Cardinality(P') \in Nat /\ Cardinality(T') \in Nat
        BY ONLY <1>1, <3>3, <3>4, FS_Subset, FS_CardinalityType
      <3>6. "again" \notin Candidates => account.used <= Cardinality(P) BY <1>0, <2>1 DEF PaidOnce, P
      <3>7. /\ account'.used <= world'.case.limit
            /\ "again" \notin Candidates' => account'.used <= Cardinality(T') /\ account'.used <= Cardinality(P')
        BY ONLY <1>0, <3>1, <3>5, <3>6
      <3> QED BY <3>7 DEF PaidOnce, P, T
    <2> QED BY <2>3, <2>4
  <1>13. CASE Freeze
    <2>1. UNCHANGED <<item, account>> BY <1>13 DEF Freeze
    <2>2. CASE ~UNCHANGED fails
      <3>1. PICK f \in Ids :
                  /\ fails[f].state = "observed"
                  /\ \/ Moved(f)
                     \/ /\ SameLength /\ fails[f].repo = None /\ \A g \in Ids : g # f => fails'[g] = fails[g]
        BY <1>13, <2>2, SourceSteps
      <3>2. Keeps
        <4>1. CASE Moved(f) BY <1>c, <1>e, <3>1, <4>1
        <4>2. CASE ~Moved(f) BY ONLY <3>1, <4>2 DEF Keeps, SameLength, Paid
        <4> QED BY <4>1, <4>2
      <3> QED BY <1>a, <2>1, <3>2
    <2> QED BY <1>b, <2>1, <2>2
  <1>14. CASE SourceError
    <2>1. UNCHANGED <<item, account>> BY <1>14 DEF SourceError
    <2>2. CASE ~UNCHANGED fails
      <3>1. PICK f \in Ids : fails[f].state = "observed" /\ Moved(f) BY <1>14, <2>2, SourceSteps
      <3>2. Keeps BY <1>c, <1>e, <3>1
      <3> QED BY <1>a, <2>1, <3>2
    <2> QED BY <1>b, <2>1, <2>2
  <1>15. ASSUME NEW c \in Candidates, Candidate(c) PROVE PaidOnce'
    <2>1. UNCHANGED account /\ item'.owner = item.owner BY <1>15, Basics DEF Candidate, Types, TypeItem
    <2>2. CASE ~UNCHANGED fails
      <3>1. PICK f \in Ids : fails[f].state = "reserved" /\ Moved(f) /\ fails'[f].state = "blocked" /\ fails'[f].why = "candidate"
        BY <1>15, <2>2, SourceSteps
      <3>2. Keeps BY ONLY <3>1 DEF Keeps, Moved, SameLength, Alike, Paid
      <3> QED BY <1>a, <2>1, <3>2
    <2> QED BY <1>b, <2>1, <2>2
  <1>16. CASE CandidateRepair
    <2>1. account'.used = account.used + 1 /\ account.used < world.case.limit /\ "again" \in Candidates
      BY ONLY <1>0, <1>16 DEF CandidateRepair, Reserved, Quota
    <2> QED BY ONLY <1>0, <2>1 DEF PaidOnce
  <1>17. CASE FreezePreMerge
    <2>1. UNCHANGED <<item, account>> BY <1>17 DEF FreezePreMerge
    <2>2. CASE ~UNCHANGED fails
      <3>1. /\ fails = <<>> /\ Adds([Failure("premerge", {First}) EXCEPT !.repo = First, !.base = src.base])
        BY <1>17, <2>2, Basics, Effects
      <3>2. Ids = {} BY ONLY <3>1 DEF Ids
      <3>3. Keeps BY ONLY <3>2 DEF Keeps
      <3> QED BY <1>a, <2>1, <3>3
    <2> QED BY <1>b, <2>1, <2>2
  <1>18. CASE Settle
    <2>1. Keeps
      <3>1. ~item'.owner BY <1>18, Basics DEF Settle, Types, TypeItem
      <3>2. SameLength /\ \A g \in Ids : Alike(fails'[g], fails[g]) BY <1>18, TableSteps
      <3> QED BY ONLY <3>1, <3>2 DEF Keeps, SameLength, Alike
    <2>2. UNCHANGED account /\ item.owner BY <1>18 DEF Settle
    <2> QED BY <1>a, <2>1, <2>2
  <1>19. CASE NextItem
    <2>1. account'.used = 0 BY <1>19 DEF NextItem, NewAccount
    <2>2. Cardinality(P') \in Nat /\ Cardinality(T') \in Nat BY ONLY <1>1, FS_CardinalityType
    <2>3. 0 <= world'.case.limit /\ 0 <= Cardinality(P') /\ 0 <= Cardinality(T')
      <3> HIDE DEF P, T
      <3> QED BY ONLY <1>0, <2>2
    <2> QED BY ONLY <2>1, <2>3 DEF PaidOnce
  <1>20. CASE Elapse
    <2>1. SameLength /\ \A g \in Ids : Alike(fails'[g], fails[g]) /\ fails'[g].why = fails[g].why /\ fails'[g].state = fails[g].state
      BY <1>20, TableSteps
    <2>2. Keeps BY ONLY <2>1 DEF Keeps, SameLength, Alike, Paid
    <2> QED BY <1>20, <1>a, <2>2 DEF Elapse
  <1>21. CASE Grant
    <2>1. account'.used = account.used /\ UNCHANGED <<fails, item>> BY ONLY <1>0, <1>21 DEF Grant
    <2>2. Keeps BY ONLY <2>1 DEF Keeps, Ids, Paid
    <2> QED BY <1>a, <2>1, <2>2
  <1>22. CASE UNCHANGED <<account, fails, item>> BY <1>22, <1>b
  <1> QED BY <1>2, <1>3, <1>4, <1>5, <1>6, <1>7, <1>8, <1>9, <1>10, <1>11,
    <1>12, <1>13, <1>14, <1>15, <1>16, <1>17, <1>18, <1>19, <1>20, <1>21, <1>22
    DEF Next, Results, SourceStep, SourceReply, RunStep, PreMergeStep, vars, ReadBranch,
    PreMergeError, Decide, ExpirePreMerge, ClaimPreMerge, Crash, Push

----------------------------------------------------------------------------
(* The versions that are validated.                                        *)

\* A step that repairs nothing and starts no validation.
Quiet ==
    /\ SameLength /\ UNCHANGED binding
    /\ item'.owner => item.owner
    /\ item'.stage = "validating" => item.stage = "validating"
    /\ \A g \in Ids :
         /\ fails'[g].kind = fails[g].kind /\ fails'[g].affected = fails[g].affected
         /\ fails'[g].final = fails[g].final /\ fails'[g].revalidated = fails[g].revalidated
         /\ Fixed(g)' <=> Fixed(g)
         /\ Fixed(g) \/ g # Len(fails) => fails'[g].repo = fails[g].repo
         /\ fails[g].kind # "integration" => fails'[g].blame = fails[g].blame

LEMMA QuietStep ==
  ASSUME IInv, [Next]_vars, Quiet, item'.owner
  PROVE  LaterContains' /\ RepairsBound'
  <1>0. /\ LaterContains /\ RepairsBound /\ Kind' = Kind
        /\ Ids = 1..Len(fails) /\ Len(fails) \in Nat /\ Ids' = Ids /\ Len(fails') = Len(fails)
        /\ binding' = binding
        /\ fails' # <<>> => fails # <<>>
    <2>1. fails' # <<>> => fails # <<>> BY Basics DEF Quiet, SameLength, Ids
    <2> QED BY <2>1, Basics DEF Quiet, SameLength, IInv
  <1>1. \A g \in Ids : Fixed(g)' <=> Fixed(g) BY DEF Quiet
  <1>2. ASSUME NEW f \in Ids, Fixed(f) PROVE Overtaken(f)' <=> Overtaken(f)
    <2>1. \A h \in 1..f : h \in Ids /\ (h = f \/ h # Len(fails)) BY ONLY <1>0, <1>2
    <2>2. \A h \in 1..f : fails'[h].kind = fails[h].kind /\ fails'[h].repo = fails[h].repo
      BY ONLY Quiet, <1>2, <2>1 DEF Quiet
    <2>3. fails'[f].repo = fails[f].repo BY ONLY Quiet, <1>2 DEF Quiet
    <2> QED BY ONLY <2>2, <2>3 DEF Overtaken
  <1>3. \A f \in Ids : Fixed(f) => fails'[f].repo = fails[f].repo /\ (Bound(f)' <=> Bound(f))
    BY ONLY Quiet, <1>0 DEF Quiet, Bound, Contains
  <1>4. LaterContains'
    <2> SUFFICES ASSUME NEW f \in Ids, NEW g \in Ids, f < g, Fixed(f)', ~Overtaken(f)',
                        fails'[g].kind = "integration" \/ fails'[g].blame = {fails'[f].repo}
                 PROVE  Contains(fails'[g].affected[fails'[f].repo], fails'[f].final)
      BY <1>0 DEF LaterContains
    <2>1. Fixed(f) /\ ~Overtaken(f) /\ fails'[f].repo = fails[f].repo BY <1>1, <1>2, <1>3
    <2>2. fails[g].kind = "integration" \/ fails[g].blame = {fails[f].repo} BY <2>1 DEF Quiet
    <2>3. Contains(fails[g].affected[fails[f].repo], fails[f].final) BY ONLY <1>0, <2>1, <2>2, f < g DEF LaterContains
    <2> QED BY ONLY Quiet, <2>1, <2>3 DEF Quiet
  <1>5. RepairsBound'
    <2> SUFFICES ASSUME Kind = "validation_only" PROVE RepairsBound' BY <1>0 DEF RepairsBound
    <2>1. ASSUME NEW f \in Ids, Fixed(f)', ~Overtaken(f)' PROVE Bound(f)' \/ WaitsAtEnd(f)'
      <3>1. Fixed(f) /\ ~Overtaken(f) BY <1>1, <1>2, <2>1
      <3>2. CASE Bound(f) BY <1>3, <3>1, <3>2
      <3>3. CASE WaitsAtEnd(f)
        <4>1. fails'[f].repo = fails[f].repo BY <1>3, <3>1
        <4> QED BY ONLY <1>0, <3>3, <4>1, Quiet DEF Quiet, WaitsAtEnd
      <3> QED BY <1>0, <3>1, <3>2, <3>3 DEF RepairsBound
    <2>2. ASSUME NEW f \in Ids, Fixed(f)', ~fails'[f].revalidated, f # Len(fails)
          PROVE  fails'[f + 1].kind = "merge" /\ fails'[f + 1].blame = {fails'[f].repo}
      <3>1. Fixed(f) /\ fails'[f].repo = fails[f].repo /\ ~fails[f].revalidated BY <1>1, <1>3, <2>2 DEF Quiet
      <3>2. fails[f + 1].kind = "merge" /\ fails[f + 1].blame = {fails[f].repo} /\ f + 1 \in Ids
        BY ONLY <1>0, <2>2, <3>1, Kind = "validation_only" DEF RepairsBound
      <3> QED BY ONLY <3>1, <3>2, Quiet DEF Quiet
    <2>3. item'.stage = "validating" /\ fails' # <<>> => fails'[Len(fails)].revalidated
      <3> SUFFICES ASSUME item'.stage = "validating", fails' # <<>> PROVE fails'[Len(fails)].revalidated OBVIOUS
      <3>1. item.stage = "validating" /\ fails # <<>> BY <1>0 DEF Quiet
      <3>2. fails[Len(fails)].revalidated /\ Len(fails) \in Ids
        <4>1. Len(fails) # 0 BY <3>1, Basics DEF Types, TypeFails
        <4> QED BY ONLY <1>0, <3>1, <4>1, Kind = "validation_only" DEF RepairsBound
      <3> QED BY ONLY <3>2, Quiet DEF Quiet
    <2> QED BY ONLY <1>0, <2>1, <2>2, <2>3 DEF RepairsBound
  <1> QED BY <1>4, <1>5

\* The steps that change a row of a failure no repair of which was merged.
LEMMA QuietRow ==
  ASSUME IInv, [Next]_vars, NEW f \in Ids, Moved(f), ~Fixed(f), ~Fixed(f)',
         UNCHANGED binding, item'.owner => item.owner, item'.stage = "validating" => item.stage = "validating"
  PROVE  Quiet
  <1>1. \A g \in Ids : g # f => (Fixed(g)' <=> Fixed(g)) BY DEF Moved, Fixed
  <1> QED BY <1>1 DEF Quiet, Moved, Alike

\* A failure that was merged concerns the result of every earlier repair of the repository.
LEMMA LaterMerged ==
  ASSUME IInv, LaterContains, NEW f \in Ids, NEW g \in Ids, f < g, Fixed(f), ~Overtaken(f),
         fails[g].repo = fails[f].repo
  PROVE  Contains(fails[g].base, fails[f].final)
  <1>1. fails[f].repo # None /\ RowConsistent(g) BY DEF IInv, RowsConsistent, RowConsistent, Fixed
  <1>2. f # 0 /\ f \in Nat /\ g \in Nat BY DEF IInv, Types, TypeFails, Ids
  <1>3. fails[g].kind \in {"merge", "integration", "premerge"}
    <2>1. fails[g] \in Rows BY RowAt DEF IInv, Types
    <2> QED BY ONLY <2>1 DEF Rows
  <1>4. fails[g].kind = "integration" \/ fails[g].blame = {fails[f].repo}
    <2>1. fails[g].kind # "premerge"
      <3>1. fails[g].kind = "premerge" => g = 1 BY ONLY <1>1 DEF RowConsistent
      <3> QED BY ONLY <1>2, <3>1, f < g
    <2>2. fails[g].repo \in fails[g].blame BY ONLY <1>1, fails[g].repo = fails[f].repo DEF RowConsistent
    <2>3. CASE fails[g].kind = "merge"
      <3>1. PICK r \in Repos : fails[g].blame = {r} BY ONLY <1>1, <2>3 DEF RowConsistent
      <3> QED BY ONLY <2>2, <3>1, fails[g].repo = fails[f].repo
    <2> QED BY ONLY <1>3, <2>1, <2>3
  <1>5. Contains(fails[g].affected[fails[f].repo], fails[f].final) BY <1>4 DEF LaterContains
  <1>6. Contains(fails[g].base, fails[g].affected[fails[f].repo]) BY ONLY <1>1, fails[g].repo = fails[f].repo DEF RowConsistent
  <1> QED BY ONLY <1>5, <1>6 DEF Contains

LEMMA SameOvertaken ==
  ASSUME NEW n \in Nat, Ids = 1..n,
         \A g \in Ids : fails'[g].kind = fails[g].kind /\ fails'[g].repo = fails[g].repo
  PROVE  \A f \in Ids : Overtaken(f)' <=> Overtaken(f)
  <1> SUFFICES ASSUME NEW f \in Ids PROVE Overtaken(f)' <=> Overtaken(f) OBVIOUS
  <1>1. \A g \in 1..f : g \in Ids OBVIOUS
  <1>2. fails'[f].repo = fails[f].repo OBVIOUS
  <1>3. \A g \in 1..f : fails'[g].kind = fails[g].kind /\ fails'[g].repo = fails[g].repo BY <1>1
  <1> QED BY ONLY <1>2, <1>3 DEF Overtaken

LEMMA BoundStep == IInv /\ [Next]_vars => (item'.owner => LaterContains' /\ RepairsBound')
  <1> SUFFICES ASSUME IInv, [Next]_vars, item'.owner PROVE LaterContains' /\ RepairsBound' OBVIOUS
  <1>0. /\ Kind' = Kind /\ Kind \in {"code", "validation_only"} /\ OneUnresolved
        /\ Ids = 1..Len(fails) /\ Len(fails) \in 0..MaxFails /\ MaxFails \in Nat /\ item.pr \in 0..MaxFails
        /\ Ids' = 1..Len(fails') /\ Len(fails') \in 0..MaxFails
        /\ item \in [stage: Stages, pr: 0..MaxFails, sha: SUBSET (0..Pushed), cand: Candidates \cup {"in"},
                     paused: BOOLEAN, cancelled: BOOLEAN, revoked: BOOLEAN, done: BOOLEAN, owner: BOOLEAN]
        /\ fails \in Seq(Rows) /\ fails' \in Seq(Rows) /\ binding \in [Repos -> SUBSET (0..Pushed)]
    BY Basics DEF IInv, Types, TypeItem, TypeFails, TypeBinding, TypeWorld, CaseRecords, Kind
  <1> HIDE DEF Rows
  <1>i. item.owner => LaterContains /\ RepairsBound BY DEF IInv
  <1>r. \A f \in Ids : RowConsistent(f) BY DEF IInv, RowsConsistent
  <1>t. \A f \in Ids : fails[f].kind \in {"merge", "integration", "premerge"}
    <2>1. \A f \in Ids : fails[f] \in Rows BY Basics
    <2> QED BY ONLY <2>1 DEF Rows
  <1>a. ASSUME NEW f \in Ids, Moved(f), ~Fixed(f), ~Fixed(f)', UNCHANGED <<item, binding>>
        PROVE  LaterContains' /\ RepairsBound'
    BY <1>a, QuietRow, QuietStep
  <1>b. ASSUME UNCHANGED <<fails, binding>>, item'.owner = item.owner, item'.stage # "validating"
        PROVE  LaterContains' /\ RepairsBound'
    <2>1. SameLength BY <1>b, Basics DEF SameLength, Ids, Types
    <2>2. Quiet BY ONLY <1>b, <2>1 DEF Quiet, Fixed
    <2> QED BY <2>2, QuietStep
  <1>1. CASE UNCHANGED <<fails, binding>> /\ item'.stage = item.stage /\ item'.owner = item.owner
    BY <1>1, InvKept
  \* the repair of the last failure is merged and accepted
  <1>2. CASE AcceptMerge
    <2>0. PICK p \in 0..MaxFails : p = item.pr BY <1>0
    <2>1. /\ SameLength /\ UNCHANGED binding /\ item'.stage = "failed" /\ item.stage = "merged"
          /\ Kind # "code" /\ item.owner
      BY <1>0, <1>2, TableSteps DEF AcceptMerge, Authorized, Permitted
    <2>2. \A g \in Ids :
               /\ fails'[g].kind = fails[g].kind /\ fails'[g].affected = fails[g].affected
               /\ fails'[g].repo = fails[g].repo /\ fails'[g].blame = fails[g].blame
               /\ fails'[g].revalidated = fails[g].revalidated
               /\ g # p => fails'[g].final = fails[g].final /\ fails'[g].state = fails[g].state
      BY <1>2, <2>0, <2>1, TableSteps
    <2>3. p = Len(fails) /\ p # 0 BY ONLY <1>0, <2>0, <2>1 DEF OneUnresolved
    <2>4. p \in Ids /\ fails[p].state = "reserved" /\ ~fails[p].revalidated
      <3>1. p \in Ids BY ONLY <1>0, <2>3
      <3>2. fails[p].state = "reserved" BY ONLY <1>0, <2>0, <2>1, <2>3 DEF OneUnresolved
      <3>3. RowConsistent(p) BY <1>r, <3>1
      <3> QED BY ONLY <3>1, <3>2, <3>3 DEF RowConsistent
    <2>5. LaterContains /\ RepairsBound BY <1>i, <2>1
    <2>6. \A g \in Ids : (Overtaken(g)' <=> Overtaken(g)) /\ (g # p => (Fixed(g)' <=> Fixed(g)))
      <3>1. \A g \in Ids : fails'[g].kind = fails[g].kind /\ fails'[g].repo = fails[g].repo BY ONLY <2>2
      <3>2. \A g \in Ids : Overtaken(g)' <=> Overtaken(g) BY <1>0, <3>1, SameOvertaken
      <3> QED BY ONLY <2>2, <3>2 DEF Fixed
    <2>7. LaterContains'
      <3>1. \A f, g \in Ids : f < g => f # p BY ONLY <1>0, <2>3
      <3> QED BY ONLY <2>1, <2>2, <2>5, <2>6, <3>1 DEF LaterContains, SameLength
    <2>8. \A f \in Ids : Fixed(f)' /\ ~Overtaken(f)' => Bound(f)' \/ WaitsAtEnd(f)'
      <3>1. ASSUME NEW f \in Ids, f # p, Fixed(f)', ~Overtaken(f)' PROVE Bound(f)' \/ WaitsAtEnd(f)'
        <4>1. Bound(f) \/ WaitsAtEnd(f) BY ONLY <1>0, <2>1, <2>5, <2>6, <3>1 DEF RepairsBound
        <4>2. Bound(f) => Bound(f)' BY ONLY <2>1, <2>2, <3>1 DEF Bound, Contains
        <4>3. WaitsAtEnd(f) => WaitsAtEnd(f)' BY ONLY <2>1, <2>2, <3>1 DEF WaitsAtEnd, SameLength
        <4> QED BY ONLY <4>1, <4>2, <4>3
      <3>2. WaitsAtEnd(p)' BY ONLY <1>0, <2>1, <2>2, <2>3, <2>4 DEF WaitsAtEnd, SameLength
      <3> QED BY ONLY <3>1, <3>2
    <2>9. ASSUME NEW f \in Ids, Fixed(f)', ~fails'[f].revalidated, f # Len(fails)
          PROVE  fails'[f + 1].kind = "merge" /\ fails'[f + 1].blame = {fails'[f].repo}
      <3>1. Fixed(f) /\ ~fails[f].revalidated /\ f + 1 \in Ids BY ONLY <1>0, <2>2, <2>3, <2>6, <2>9
      <3>2. fails[f + 1].kind = "merge" /\ fails[f + 1].blame = {fails[f].repo}
        BY ONLY <1>0, <2>1, <2>5, <2>9, <3>1 DEF RepairsBound
      <3> QED BY ONLY <2>2, <2>9, <3>1, <3>2
    <2>10. RepairsBound' BY ONLY <1>0, <2>1, <2>8, <2>9 DEF RepairsBound, SameLength
    <2> QED BY <2>7, <2>10
  \* the repair of the last failure is merged and fails its acceptance
  <1>3. CASE RejectMerge
    <2>0. PICK p \in 0..MaxFails, n \in 0..MaxFails : p = item.pr /\ n = Len(fails) BY <1>0
    <2>1. /\ Adds(Failure("merge", {Target(p)})) /\ UNCHANGED binding
          /\ item'.stage = "failed" /\ item.stage = "merged" /\ item.owner
      BY <1>0, <1>3, <2>0, TableSteps DEF RejectMerge, Authorized, Permitted
    <2>2. \A g \in Ids :
               /\ fails'[g].kind = fails[g].kind /\ fails'[g].affected = fails[g].affected
               /\ fails'[g].repo = fails[g].repo /\ fails'[g].blame = fails[g].blame
               /\ fails'[g].revalidated = fails[g].revalidated
               /\ fails'[g].final = (IF g = p THEN item.sha ELSE fails[g].final)
               /\ g # p => fails'[g].state = fails[g].state
      BY <1>3, <2>0, TableSteps
    <2>3. p = n /\ n \in 0..MaxFails /\ Len(fails') = n + 1 /\ Ids' = Ids \cup {n + 1} /\ n + 1 \notin Ids
      BY <1>0, <2>0, <2>1 DEF OneUnresolved, Adds
    <2>4. Target(p) \in Repos BY <2>0, <2>1, TargetRepo
    <2>5. LET row == fails'[n + 1]
          IN /\ row.kind = "merge" /\ row.blame = {Target(p)} /\ ~row.revalidated /\ row.state = "observed"
             /\ \A q \in Repos : row.affected[q] = item.sha
      <3>1. fails'[n + 1] = Failure("merge", {Target(p)}) BY <2>1, <2>3 DEF Adds
      <3>2. PICK r \in Repos : r = Target(p) BY <2>4
      <3>3. LET row == Failure("merge", {r})
            IN /\ row.kind = "merge" /\ row.blame = {r} /\ ~row.revalidated /\ row.state = "observed"
               /\ \A q \in Repos : row.affected[q] = item.sha
        BY MergeRow, Basics
      <3> QED BY ONLY <3>1, <3>2, <3>3
    <2>6. LaterContains /\ RepairsBound BY <1>i, <2>1
    <2>7. ASSUME p # 0
          PROVE  /\ p \in Ids /\ fails[p].state = "reserved" /\ ~fails[p].revalidated /\ fails[p].repo # None
                 /\ fails[p].repo = Target(p) /\ Contains(item.sha, fails[p].base)
      <3>1. p \in Ids BY ONLY <1>0, <2>0, <2>3, <2>7
      <3>2. fails[p].state = "reserved" /\ Contains(item.sha, fails[p].base)
        BY ONLY <1>0, <2>0, <2>1, <2>7 DEF OneUnresolved
      <3> QED BY <1>r, <2>7, <3>1, <3>2 DEF RowConsistent, Target
    <2>8. \A g \in Ids : (Overtaken(g)' <=> Overtaken(g)) /\ (g # p => (Fixed(g)' <=> Fixed(g)))
      <3>1. \A g \in Ids : fails'[g].kind = fails[g].kind /\ fails'[g].repo = fails[g].repo BY ONLY <2>2
      <3>2. \A g \in Ids : Overtaken(g)' <=> Overtaken(g) BY <1>0, <3>1, SameOvertaken
      <3> QED BY ONLY <2>2, <3>2 DEF Fixed
    <2>9. ~Fixed(n + 1)' BY ONLY <2>5 DEF Fixed
    <2>a. \A f \in Ids : Fixed(f)' => p # 0 /\ f <= p /\ f # 0 /\ (f # p => f < p) BY ONLY <1>0, <2>0, <2>3
    <2>10. LaterContains'
      <3> SUFFICES ASSUME NEW f \in Ids, NEW g \in Ids \cup {n + 1}, f < g, Fixed(f)', ~Overtaken(f)',
                          fails'[g].kind = "integration" \/ fails'[g].blame = {fails'[f].repo}
                   PROVE  Contains(fails'[g].affected[fails'[f].repo], fails'[f].final)
        <4>1. \A f, g \in Ids \cup {n + 1} : f < g => f \in Ids BY ONLY <1>0, <2>0, <2>3
        <4> QED BY <2>3, <4>1 DEF LaterContains
      <3>1. CASE g \in Ids
        <4>1. f # p BY ONLY <1>0, <2>0, <2>3, <3>1, f < g
        <4>2. Fixed(f) /\ ~Overtaken(f) BY <2>8, <4>1
        <4> QED BY ONLY <2>2, <2>6, <3>1, <4>1, <4>2, f < g,
                   fails'[g].kind = "integration" \/ fails'[g].blame = {fails'[f].repo}
               DEF LaterContains
      <3>2. CASE g = n + 1
        <4>1. fails[f].repo = Target(p) /\ fails'[f].repo = Target(p) BY <2>2, <2>5, <3>2
        <4>2. fails'[g].affected[fails'[f].repo] = item.sha BY <2>4, <2>5, <3>2, <4>1
        <4>3. CASE f = p BY ONLY <2>2, <4>2, <4>3 DEF Contains
        <4>4. CASE f # p
          <5>1. p # 0 /\ f < p /\ Fixed(f) /\ ~Overtaken(f) BY <2>8, <2>a, <4>4
          <5>2. Contains(fails[p].base, fails[f].final) BY <2>6, <2>7, <4>1, <5>1, LaterMerged
          <5>3. Contains(item.sha, fails[p].base) BY <2>7, <5>1
          <5> QED BY ONLY <2>2, <4>2, <4>4, <5>2, <5>3 DEF Contains
        <4> QED BY <4>3, <4>4
      <3> QED BY <3>1, <3>2
    <2>11. ASSUME Kind = "validation_only", NEW f \in Ids, Fixed(f)', ~Overtaken(f)'
           PROVE  Bound(f)' \/ WaitsAtEnd(f)'
      <3>1. p # 0 /\ p \in Ids /\ f <= p BY <2>a, <2>7, <2>11
      <3>2. CASE f = p
        <4>1. ~\E g \in Ids : g > p BY ONLY <1>0, <2>0, <2>3
        <4>2. ~fails'[p].revalidated /\ fails'[p].repo = Target(p) BY <2>2, <2>7, <3>1
        <4>3. WaitsAtEnd(p)' BY ONLY <2>1, <2>3, <2>5, <4>1, <4>2 DEF WaitsAtEnd
        <4> QED BY <3>2, <4>3
      <3>3. CASE f # p
        <4>1. Bound(f) \/ WaitsAtEnd(f) BY ONLY <2>6, <2>8, <2>11, <3>3 DEF RepairsBound
        <4>2. Bound(f) => Bound(f)' BY ONLY <2>1, <2>2, <3>3, <2>11 DEF Bound, Contains
        <4>3. ASSUME WaitsAtEnd(f) PROVE WaitsAtEnd(f)'
          <5>1. f < p BY <2>a, <2>11, <3>3
          <5>2. fails[p].blame = {fails[f].repo} BY ONLY <3>1, <4>3, <5>1 DEF WaitsAtEnd
          <5>3. fails[p].repo \in fails[p].blame BY <1>r, <2>7, <3>1 DEF RowConsistent
          <5>4. fails[f].repo = Target(p) BY <2>7, <3>1, <5>2, <5>3
          <5> QED BY ONLY <2>1, <2>2, <2>3, <2>5, <2>11, <4>3, <5>4 DEF WaitsAtEnd
        <4> QED BY <4>1, <4>2, <4>3
      <3> QED BY <3>2, <3>3
    <2>12. ASSUME Kind = "validation_only", NEW f \in Ids, Fixed(f)', ~fails'[f].revalidated
           PROVE  fails'[f + 1].kind = "merge" /\ fails'[f + 1].blame = {fails'[f].repo}
      <3>1. p # 0 /\ p \in Ids BY <2>a, <2>7, <2>12
      <3>2. CASE f = p
        <4>1. f + 1 = n + 1 BY <2>3, <3>2
        <4> QED BY <2>2, <2>5, <2>7, <3>1, <3>2, <4>1
      <3>3. CASE f # p
        <4>1. f # Len(fails) /\ f + 1 \in Ids /\ f \in Ids BY ONLY <1>0, <2>3, <2>0, <2>12, <3>3
        <4>2. Fixed(f) /\ ~fails[f].revalidated BY <2>2, <2>8, <2>12, <3>3
        <4>3. fails[f + 1].kind = "merge" /\ fails[f + 1].blame = {fails[f].repo}
          BY ONLY <2>6, <2>12, <4>1, <4>2 DEF RepairsBound
        <4> QED BY ONLY <2>2, <4>1, <4>3
      <3> QED BY <3>2, <3>3
    <2>13. RepairsBound' BY ONLY <1>0, <2>0, <2>1, <2>3, <2>9, <2>11, <2>12 DEF RepairsBound
    <2> QED BY <2>10, <2>13
  <1>d. item.owner => \A f \in Ids : fails[f].state \notin {"complete", "cancelled"} BY DEF IInv, Acceptance
  <1>4. CASE Reject
    <2>0. PICK n \in 0..MaxFails : n = Len(fails) BY <1>0
    <2>1. /\ item'.stage = "failed" /\ item.stage = "validating" /\ item.owner /\ UNCHANGED binding
      BY <1>0, <1>4 DEF Reject, Authorized, Permitted
    <2>2. PICK blame \in SUBSET Repos : /\ Adds(Failure("integration", blame))
                                        /\ \A g \in Ids : fails'[g] = fails[g]
      BY <1>4, Basics, Effects
    <2>3. /\ n \in 0..MaxFails /\ Len(fails') = n + 1 /\ Ids' = Ids \cup {n + 1} /\ n + 1 \notin Ids
          /\ Ids = 1..n
      BY <1>0, <2>0, <2>2 DEF Adds
    <2>4. fails'[n + 1].state = "observed" /\ fails'[n + 1].affected = binding
      <3>1. fails'[n + 1] = Failure("integration", blame) BY <2>2, <2>3 DEF Adds
      <3>2. LET row == Failure("integration", blame) IN row.state = "observed" /\ row.affected = binding
        BY VersionRow, Basics
      <3> QED BY ONLY <3>1, <3>2
    <2>5. LaterContains /\ RepairsBound /\ Kind = "validation_only"
      BY <1>0, <1>i, <2>1 DEF OneUnresolved
    <2>6. \A g \in Ids : (Overtaken(g)' <=> Overtaken(g)) /\ (Fixed(g)' <=> Fixed(g))
      BY ONLY <2>2, <2>3 DEF Overtaken, Fixed
    <2>7. ~Fixed(n + 1)' BY ONLY <2>4 DEF Fixed
    <2>8. \A f \in Ids : Fixed(f) /\ ~Overtaken(f) => Bound(f)
      BY ONLY <2>1, <2>5 DEF RepairsBound, WaitsAtEnd
    <2>9. LaterContains'
      <3> SUFFICES ASSUME NEW f \in Ids, NEW g \in Ids \cup {n + 1}, f < g, Fixed(f)', ~Overtaken(f)',
                          fails'[g].kind = "integration" \/ fails'[g].blame = {fails'[f].repo}
                   PROVE  Contains(fails'[g].affected[fails'[f].repo], fails'[f].final)
        <4>1. \A f, g \in Ids \cup {n + 1} : f < g => f \in Ids BY ONLY <2>3
        <4> QED BY <2>3, <4>1 DEF LaterContains
      <3>1. Fixed(f) /\ ~Overtaken(f) BY <2>6
      <3>2. CASE g \in Ids
        BY ONLY <2>2, <2>5, <3>1, <3>2, f < g, fails'[g].kind = "integration" \/ fails'[g].blame = {fails'[f].repo}
           DEF LaterContains
      <3>3. CASE g = n + 1
        BY ONLY <2>2, <2>4, <2>8, <3>1, <3>3 DEF Bound
      <3> QED BY <3>2, <3>3
    <2>10. \A f \in Ids : Fixed(f)' /\ ~Overtaken(f)' => Bound(f)'
      BY ONLY <2>1, <2>2, <2>6, <2>8 DEF Bound
    <2>11. ASSUME NEW f \in Ids, Fixed(f)', ~fails'[f].revalidated
           PROVE  fails'[f + 1].kind = "merge" /\ fails'[f + 1].blame = {fails'[f].repo}
      <3>1. Fixed(f) /\ ~fails[f].revalidated BY <2>2, <2>6, <2>11
      <3>2. fails # <<>> => fails[n].revalidated BY ONLY <2>1, <2>0, <2>5 DEF RepairsBound
      <3>3. f # n /\ f + 1 \in Ids
        <4>1. fails # <<>> BY <1>0, <2>11
        <4> QED BY ONLY <2>3, <2>11, <3>1, <3>2, <4>1
      <3>4. fails[f + 1].kind = "merge" /\ fails[f + 1].blame = {fails[f].repo}
        BY ONLY <2>5, <2>11, <3>1, <3>3, <2>0 DEF RepairsBound
      <3> QED BY ONLY <2>2, <3>3, <3>4
    <2>12. RepairsBound' BY ONLY <2>1, <2>3, <2>7, <2>10, <2>11, <2>0 DEF RepairsBound
    <2> QED BY <2>9, <2>12
  \* the latest repair that no validation has seen is put into the combination
  <1>5. CASE Revalidate
    <2>1. Kind = "validation_only" /\ item.owner /\ item'.stage = "validating"
      BY <1>0, <1>5 DEF Revalidate, Authorized, Permitted
    <2>2. PICK m \in Ids :
               /\ m = Max(Revalidatable) /\ fails[m].state = "merged" /\ ~fails[m].revalidated
               /\ \A g \in Ids : fails[g].state = "merged" /\ ~fails[g].revalidated => g <= m
               /\ SameLength /\ \A g \in Ids : g # m => fails'[g] = fails[g]
               /\ fails'[m].kind = fails[m].kind /\ fails'[m].affected = fails[m].affected
               /\ fails'[m].repo = fails[m].repo /\ fails'[m].base = fails[m].base
               /\ fails'[m].blame = fails[m].blame /\ fails'[m].why = fails[m].why
               /\ fails'[m].final = fails[m].final /\ fails'[m].state = "merged" /\ fails'[m].revalidated
      BY <1>5, TableSteps
    <2>3. \A g \in Ids : fails[g].state = "merged"
      <3>1. \A g \in Ids : fails[g].state \notin {"observed", "reserved", "blocked"} BY <1>5 DEF Revalidate
      <3> QED BY <1>d, <2>1, <3>1, States6, Basics DEF Types
    <2>4. fails[m].repo \in Repos /\ Fixed(m) /\ fails[m].repo # None /\ RowConsistent(m)
      BY <1>r, <2>2, FixedType DEF Fixed, RowConsistent
    <2>5. binding' = [binding EXCEPT ![fails[m].repo] = fails[m].final] BY <1>5, <2>2 DEF Revalidate
    <2>6. LaterContains /\ RepairsBound BY <1>i, <2>1
    <2>7. \A g \in Ids : /\ fails'[g].kind = fails[g].kind /\ fails'[g].affected = fails[g].affected
                         /\ fails'[g].repo = fails[g].repo /\ fails'[g].blame = fails[g].blame
                         /\ fails'[g].final = fails[g].final /\ fails'[g].state = fails[g].state
                         /\ (fails[g].revalidated => fails'[g].revalidated) /\ (~fails'[g].revalidated => ~fails[g].revalidated)
      BY ONLY <2>2
    <2>8. \A g \in Ids : (Overtaken(g)' <=> Overtaken(g)) /\ (Fixed(g)' <=> Fixed(g))
      BY ONLY <1>0, <2>7, SMTT(30) DEF Overtaken, Fixed
    <2>9. \A g \in Ids : fails[g].repo \in Repos /\ fails[g].repo # None /\ fails[g].repo \in fails[g].blame
      BY <1>r, <2>3, FixedType DEF Fixed, RowConsistent
    <2>10. LaterContains' BY ONLY <2>2, <2>6, <2>7, <2>8 DEF LaterContains, SameLength
    <2>11. ASSUME NEW f \in Ids, ~Overtaken(f) PROVE Bound(f)'
      <3>0. Fixed(f) BY <2>3 DEF Fixed
      <3>1. CASE f = m BY ONLY <1>0, <2>4, <2>5, <2>7, <3>1 DEF Bound, Contains
      <3>2. CASE f # m /\ fails[f].repo = fails[m].repo
        <4>1. ~(f > m)
          <5> SUFFICES ASSUME f > m PROVE FALSE OBVIOUS
          <5>1. m # Len(fails) /\ m + 1 \in Ids /\ m + 1 \in 1..f BY ONLY <1>0, <2>2, <2>11, f > m
          <5>2. fails[m + 1].kind = "merge" /\ fails[m + 1].blame = {fails[m].repo}
            BY ONLY <2>1, <2>2, <2>4, <2>6, <5>1 DEF RepairsBound
          <5>3. fails[m + 1].repo = fails[m].repo BY <2>9, <5>1, <5>2
          <5> QED BY ONLY <2>11, <3>2, <5>1, <5>2, <5>3 DEF Overtaken
        <4>2. f < m BY ONLY <1>0, <2>2, <2>11, <3>2, <4>1
        <4>3. Contains(fails[m].base, fails[f].final) BY <2>4, <2>6, <2>11, <3>0, <3>2, <4>2, LaterMerged
        <4>4. Contains(fails[m].final, fails[m].base) BY <2>4 DEF RowConsistent
        <4>5. binding'[fails[m].repo] = fails[m].final BY ONLY <1>0, <2>4, <2>5
        <4> QED BY ONLY <2>7, <2>11, <3>2, <4>3, <4>4, <4>5 DEF Bound, Contains
      <3>3. CASE fails[f].repo # fails[m].repo
        <4>1. Bound(f)
          <5>1. Bound(f) \/ WaitsAtEnd(f) BY ONLY <2>1, <2>6, <2>11, <3>0 DEF RepairsBound
          <5>2. ~WaitsAtEnd(f)
            <6> SUFFICES ASSUME WaitsAtEnd(f) PROVE FALSE OBVIOUS
            <6>1. f <= m BY <2>2, <2>3, <2>11 DEF WaitsAtEnd
            <6>2. m > f BY ONLY <1>0, <2>2, <2>11, <3>3, <6>1
            <6>3. fails[m].blame = {fails[f].repo} BY ONLY <2>2, <6>2, WaitsAtEnd(f) DEF WaitsAtEnd
            <6> QED BY <2>2, <2>9, <3>3, <6>3
          <5> QED BY <5>1, <5>2
        <4>2. binding'[fails[f].repo] = binding[fails[f].repo] BY ONLY <1>0, <2>5, <3>3
        <4> QED BY ONLY <2>7, <2>11, <4>1, <4>2 DEF Bound
      <3> QED BY <3>1, <3>2, <3>3
    <2>12. ASSUME NEW f \in Ids, Fixed(f)', ~fails'[f].revalidated, f # Len(fails)
           PROVE  fails'[f + 1].kind = "merge" /\ fails'[f + 1].blame = {fails'[f].repo}
      <3>1. Fixed(f) /\ ~fails[f].revalidated /\ f + 1 \in Ids BY ONLY <1>0, <2>7, <2>8, <2>12
      <3>2. fails[f + 1].kind = "merge" /\ fails[f + 1].blame = {fails[f].repo}
        BY ONLY <2>1, <2>6, <2>12, <3>1 DEF RepairsBound
      <3> QED BY ONLY <2>7, <2>12, <3>1, <3>2
    <2>13. fails'[Len(fails)].revalidated
      <3>1. Len(fails) \in Ids /\ m <= Len(fails) BY ONLY <1>0, <2>2
      <3>2. CASE m = Len(fails) BY <2>2, <3>2
      <3>3. CASE m # Len(fails)
        <4>1. ~(Len(fails) <= m) BY ONLY <1>0, <2>2, <3>1, <3>3
        <4>2. fails[Len(fails)].revalidated BY <2>2, <2>3, <3>1, <4>1
        <4> QED BY <2>7, <3>1, <4>2
      <3> QED BY <3>2, <3>3
    <2>14. RepairsBound'
      BY ONLY <2>1, <2>2, <2>8, <2>11, <2>12, <2>13 DEF RepairsBound, SameLength
    <2> QED BY <2>10, <2>14
  <1>6. CASE RetryInfra
    <2>1. Kind = "validation_only" /\ item.owner /\ UNCHANGED <<fails, binding>>
      BY <1>6 DEF RetryInfra, Authorized, Permitted
    <2>2. \A g \in Ids : fails[g].state = "merged"
      <3>1. \A g \in Ids : fails[g].state \notin {"observed", "reserved", "blocked"} BY <1>6 DEF RetryInfra, Open
      <3> QED BY <1>d, <2>1, <3>1, States6, Basics DEF Types
    <2>3. \A g \in Ids : fails[g].revalidated BY <1>6, <2>2 DEF RetryInfra, Revalidatable
    <2>4. LaterContains /\ RepairsBound BY <1>i, <2>1
    <2>5. LaterContains' BY ONLY <2>1, <2>4 DEF LaterContains, Ids, Fixed, Overtaken
    <2>6. \A f \in Ids : ~Overtaken(f) => Bound(f)
      BY ONLY <2>1, <2>2, <2>3, <2>4 DEF RepairsBound, WaitsAtEnd, Fixed
    <2>7. fails # <<>> => Len(fails) \in Ids BY <1>0
    <2>8. RepairsBound'
      BY ONLY <2>1, <2>2, <2>3, <2>6, <2>7 DEF RepairsBound, Ids, Fixed, Overtaken, Bound
    <2> QED BY <2>5, <2>8
  <1>7. CASE FreezePreMerge
    <2>1. CASE UNCHANGED <<fails, pm>> BY <1>1, <1>7, <2>1 DEF FreezePreMerge
    <2>2. CASE ~UNCHANGED <<fails, pm>>
      <3>1. /\ pm.state = "pending" /\ fails = <<>>
            /\ Adds([Failure("premerge", {First}) EXCEPT !.repo = First, !.base = src.base])
        BY <1>7, <2>2, Basics, Effects
      <3>2. Kind = "code" BY <3>1 DEF IInv, SourceCurrent, DecisionCurrent
      <3>3. Ids' = {1} BY <1>0, <3>1 DEF Adds
      <3> QED BY ONLY <1>0, <3>2, <3>3 DEF LaterContains, RepairsBound
    <2> QED BY <2>1, <2>2
  <1>8. CASE NextItem
    <2>1. fails' = <<>> BY <1>8 DEF NextItem
    <2>2. Ids' = {} BY <1>0, <2>1
    <2> QED BY ONLY <2>1, <2>2 DEF LaterContains, RepairsBound
  <1>9. CASE Accept \/ Settle
    <2>1. item'.owner = FALSE BY ONLY <1>0, <1>9 DEF Accept, Settle
    <2> QED BY <2>1
  <1>10. CASE MergePR BY <1>0, <1>10, <1>b DEF MergePR
  <1>11. CASE FailInfra BY <1>0, <1>11, <1>b DEF FailInfra
  <1>12. CASE Bind BY <1>0, <1>12, <1>b DEF Bind
  <1>13. CASE ClosePR BY <1>0, <1>13, <1>b DEF ClosePR
  <1>14. CASE Stop BY <1>0, <1>14, <1>b DEF Stop
  <1>15. CASE Control \/ Lift BY <1>0, <1>15, <1>1 DEF Control, Lift
  <1>16. ASSUME NEW f \in Ids, OutOfScope(f) PROVE LaterContains' /\ RepairsBound'
    BY <1>16, <1>a, RowSteps DEF OutOfScope, Fixed
  <1>17. ASSUME NEW f \in Ids, SourceAttempt(f) PROVE LaterContains' /\ RepairsBound'
    BY <1>17, <1>a, RowSteps DEF SourceAttempt, Fixed
  <1>18. ASSUME NEW f \in Ids, Reserve(f) PROVE LaterContains' /\ RepairsBound'
    <2>1. Moved(f) /\ ~Fixed(f) /\ ~Fixed(f)' BY <1>18, RowSteps DEF Fixed
    <2> QED BY <1>18, <1>a, <2>1 DEF Reserve
  <1>19. ASSUME NEW f \in Ids, BudgetRecheck(f) PROVE LaterContains' /\ RepairsBound'
    BY <1>19, <1>a, RowSteps DEF BudgetRecheck, Fixed
  \* the last row, which is not merged, gets its repository or another one
  <1>e. ASSUME NEW f \in Ids, SameLength, fails[f].state \in {"observed", "blocked"}, ~Fixed(f)',
               UNCHANGED <<item, binding>>, \A g \in Ids : g # f => fails'[g] = fails[g],
               fails'[f].kind = fails[f].kind, fails'[f].affected = fails[f].affected,
               fails'[f].final = fails[f].final, fails'[f].revalidated = fails[f].revalidated,
               fails[f].kind = "integration" \/ fails'[f].blame = fails[f].blame
        PROVE  LaterContains' /\ RepairsBound'
    <2>1. f = Len(fails) /\ ~Fixed(f) BY <1>e, LastOne DEF Fixed
    <2>2. Quiet BY ONLY <1>e, <2>1 DEF Quiet, Fixed
    <2> QED BY <2>2, QuietStep
  <1>20. ASSUME NEW f \in Ids, SourceRecheck(f) PROVE LaterContains' /\ RepairsBound'
    <2>1. UNCHANGED <<item, binding>> BY <1>20 DEF SourceRecheck
    <2>2. /\ SameLength /\ fails[f].state = "blocked" /\ fails[f].kind = "integration" /\ fails'[f].state = "observed"
          /\ fails'[f].kind = fails[f].kind /\ fails'[f].affected = fails[f].affected
          /\ fails'[f].final = fails[f].final /\ fails'[f].revalidated = fails[f].revalidated
          /\ \A g \in Ids : g # f => fails'[g] = fails[g]
      BY <1>20, RowSteps
    <2> QED BY <1>e, <2>1, <2>2 DEF Fixed
  <1>21. CASE Freeze
    <2>1. UNCHANGED <<item, binding>> BY <1>21 DEF Freeze
    <2>2. CASE ~UNCHANGED fails
      <3>1. PICK f \in Ids :
               /\ f = src.f /\ fails[f].state = "observed"
               /\ \/ Moved(f) /\ fails'[f].state = "blocked" /\ fails'[f].why = "branch"
                  \/ /\ SameLength /\ fails[f].repo = None
                     /\ \A g \in Ids : g # f => fails'[g] = fails[g]
                     /\ fails'[f].kind = fails[f].kind /\ fails'[f].affected = fails[f].affected
                     /\ fails'[f].repo \in Repos /\ fails'[f].blame = fails[f].blame
                     /\ fails'[f].final = fails[f].final /\ fails'[f].state = fails[f].state
                     /\ fails'[f].why = fails[f].why /\ fails'[f].revalidated = fails[f].revalidated
        BY <1>21, <2>2, SourceSteps
      <3>2. ~Fixed(f) /\ ~Fixed(f)' BY <3>1 DEF Fixed
      <3>3. CASE Moved(f) BY <1>a, <2>1, <3>2, <3>3
      <3>4. CASE ~Moved(f) BY <1>e, <2>1, <3>1, <3>2, <3>4
      <3> QED BY <3>3, <3>4
    <2> QED BY <1>1, <2>1, <2>2
  <1>22. CASE SourceError
    <2>1. UNCHANGED <<item, binding>> BY <1>22 DEF SourceError
    <2>2. CASE ~UNCHANGED fails
      <3>1. PICK f \in Ids : fails[f].state = "observed" /\ Moved(f) /\ fails'[f].state = "blocked"
        BY <1>22, <2>2, SourceSteps
      <3> QED BY <1>a, <2>1, <3>1 DEF Fixed
    <2> QED BY <1>1, <2>1, <2>2
  <1>23. ASSUME NEW c \in Candidates, Candidate(c) PROVE LaterContains' /\ RepairsBound'
    <2>1. UNCHANGED binding /\ item'.owner = item.owner /\ item'.stage \in {"open", "failed"}
      BY <1>0, <1>23 DEF Candidate
    <2>2. CASE UNCHANGED fails BY <1>b, <2>1, <2>2
    <2>3. CASE ~UNCHANGED fails
      <3>1. PICK f \in Ids : fails[f].state = "reserved" /\ Moved(f) /\ fails'[f].state = "blocked"
        BY <1>23, <2>3, SourceSteps
      <3>2. Quiet BY <2>1, <3>1, QuietRow DEF Fixed
      <3> QED BY <3>2, QuietStep
    <2> QED BY <2>2, <2>3
  <1>24. CASE Elapse
    <2>1. UNCHANGED <<item, binding>> BY <1>24 DEF Elapse
    <2>2. SameLength /\ \A g \in Ids : Alike(fails'[g], fails[g]) /\ fails'[g].state = fails[g].state
      BY <1>24, TableSteps
    <2>3. Quiet BY ONLY <2>1, <2>2 DEF Quiet, Alike, Fixed
    <2> QED BY <2>3, QuietStep
  <1> QED BY <1>1, <1>2, <1>3, <1>4, <1>5, <1>6, <1>7, <1>8, <1>9, <1>10, <1>11,
    <1>12, <1>13, <1>14, <1>15, <1>16, <1>17, <1>18, <1>19, <1>20, <1>21, <1>22, <1>23, <1>24
    DEF Next, Results, SourceStep, SourceReply, RunStep, PreMergeStep, vars, ReadBranch, Rebind,
    PreMergeError, Reopen, Decide, ExpirePreMerge, ClaimPreMerge, CandidateRepair, Grant, Crash, Push

\* The item is done at the end of its repairs, and nothing repairs it afterwards.
LEMMA AcceptanceStep == IInv /\ [Next]_vars => Acceptance'
  <1> SUFFICES ASSUME IInv, [Next]_vars PROVE Acceptance' OBVIOUS
  <1>0. /\ Acceptance /\ OneUnresolved /\ Kind' = Kind /\ Kind \in {"code", "validation_only"}
        /\ Ids = 1..Len(fails) /\ Len(fails) \in 0..MaxFails /\ MaxFails \in Nat
        /\ Ids' = 1..Len(fails') /\ Len(fails') \in 0..MaxFails
        /\ item \in [stage: Stages, pr: 0..MaxFails, sha: SUBSET (0..Pushed), cand: Candidates \cup {"in"},
                     paused: BOOLEAN, cancelled: BOOLEAN, revoked: BOOLEAN, done: BOOLEAN, owner: BOOLEAN]
    BY Basics DEF IInv, Types, TypeItem, TypeWorld, CaseRecords, Kind
  <1>o. Authorized => item.owner BY DEF Authorized, Permitted
  <1>1. CASE UNCHANGED <<fails, binding>> /\ item'.owner = item.owner /\ item'.done = item.done BY <1>1, InvKept
  <1>a. ASSUME ~item.done \/ item.owner, item'.done = item.done, item'.owner => item.owner,
               item'.owner => \A g \in Ids' : fails'[g].state \notin {"complete", "cancelled"}
        PROVE  Acceptance'
    BY <1>0, <1>a DEF Acceptance
  <1>b. ASSUME NEW f \in Ids, SameLength, fails[f].state \notin {"complete"}, fails'[f].state \notin {"complete", "cancelled"},
               \A g \in Ids : g # f => fails'[g].state = fails[g].state, item'.done = item.done, item'.owner = item.owner
        PROVE  Acceptance'
    <2>1. ~item.done BY <1>0, <1>b DEF Acceptance
    <2>2. item'.owner => \A g \in Ids' : fails'[g].state \notin {"complete", "cancelled"}
      BY ONLY <1>0, <1>b DEF Acceptance, SameLength
    <2> QED BY <1>a, <1>b, <2>1, <2>2
  <1>2. CASE AcceptMerge
    <2>1. item.owner /\ item.stage = "merged" BY <1>2, <1>o DEF AcceptMerge
    <2>2. \A g \in Ids : fails[g].state \notin {"complete", "cancelled"} BY ONLY <1>0, <2>1 DEF Acceptance
    <2>3. SameLength /\ \A g \in Ids :
             fails'[g].state = IF Kind = "code" /\ (g = item.pr \/ fails[g].state \in {"merged", "reserved"})
                                    THEN "complete" ELSE IF g = item.pr THEN "merged" ELSE fails[g].state
      BY <1>2, TableSteps
    <2>4. CASE Kind = "code"
      <3>1. \A g \in Ids : fails'[g].state = "complete" BY ONLY <1>0, <2>1, <2>2, <2>3, <2>4 DEF OneUnresolved
      <3>2. item'.done = TRUE /\ item'.owner = FALSE BY ONLY <1>0, <1>2, <2>4 DEF AcceptMerge
      <3> QED BY ONLY <1>0, <2>3, <2>4, <3>1, <3>2 DEF Acceptance, SameLength
    <2>5. CASE Kind # "code"
      <3>1. item'.done = item.done /\ item'.owner = item.owner BY ONLY <1>0, <1>2, <2>5 DEF AcceptMerge
      <3>2. \A g \in Ids' : fails'[g].state \notin {"complete", "cancelled"}
        BY ONLY <2>2, <2>3, <2>5 DEF SameLength
      <3> QED BY <1>a, <2>1, <3>1, <3>2
    <2> QED BY <2>4, <2>5
  <1>3. CASE RejectMerge
    <2>1. item.owner BY <1>3, <1>o DEF RejectMerge
    <2>2. \A g \in Ids : fails[g].state \notin {"complete", "cancelled"} BY ONLY <1>0, <2>1 DEF Acceptance
    <2>3. /\ Adds(Failure("merge", {Target(item.pr)}))
          /\ \A g \in Ids : fails'[g].state = IF g = item.pr THEN "merged" ELSE fails[g].state
      BY <1>3, TableSteps
    <2>4. fails'[Len(fails')].state = "observed"
      <3>1. Target(item.pr) \in Repos BY <1>3, TargetRepo DEF RejectMerge
      <3> QED BY <2>3, <3>1, MergeRow, Basics DEF Adds
    <2>5. \A g \in Ids' : fails'[g].state \notin {"complete", "cancelled"} BY ONLY <2>2, <2>3, <2>4 DEF Adds
    <2>6. item'.done = item.done /\ item'.owner = item.owner BY ONLY <1>0, <1>3 DEF RejectMerge
    <2> QED BY <1>a, <2>1, <2>5, <2>6
  <1>4. CASE Accept
    <2>1. item.owner /\ item.stage = "validating" BY <1>4, <1>o DEF Accept
    <2>2. \A g \in Ids : fails[g].state = "merged" BY ONLY <1>0, <2>1 DEF Acceptance, OneUnresolved
    <2>3. SameLength /\ \A g \in Ids : Alike(fails'[g], fails[g]) /\ fails'[g].state = "complete"
      BY <1>4, <2>2, TableSteps
    <2>4. item'.done = TRUE /\ item'.owner = FALSE /\ UNCHANGED binding BY ONLY <1>0, <1>4 DEF Accept
    <2>5. Kind = "validation_only" BY ONLY <1>0, <2>1 DEF OneUnresolved
    <2>6. RepairsBound BY <2>1 DEF IInv
    <2>7. \A g \in Ids : ~Overtaken(g) => Bound(g)
      BY ONLY <2>1, <2>2, <2>5, <2>6 DEF RepairsBound, WaitsAtEnd, Fixed
    <2>8. \A g \in Ids : (Overtaken(g)' <=> Overtaken(g)) /\ (Bound(g) => Bound(g)')
      <3>1. \A g \in Ids : /\ fails'[g].kind = fails[g].kind /\ fails'[g].repo = fails[g].repo
                           /\ fails'[g].final = fails[g].final
        BY ONLY <2>3 DEF Alike
      <3> QED BY ONLY <1>0, <2>4, <3>1 DEF Overtaken, Bound
    <2> QED BY ONLY <1>0, <2>3, <2>4, <2>7, <2>8 DEF Acceptance, SameLength
  <1>5. CASE Reject
    <2>1. item.owner BY <1>5, <1>o DEF Reject
    <2>2. \A g \in Ids : fails[g].state \notin {"complete", "cancelled"} BY ONLY <1>0, <2>1 DEF Acceptance
    <2>3. PICK blame \in SUBSET Repos : /\ Adds(Failure("integration", blame))
                                        /\ \A g \in Ids : fails'[g] = fails[g]
      BY <1>5, Basics, Effects
    <2>4. fails'[Len(fails')].state = "observed" BY <2>3, VersionRow, Basics DEF Adds
    <2>5. \A g \in Ids' : fails'[g].state \notin {"complete", "cancelled"} BY ONLY <2>2, <2>3, <2>4 DEF Adds
    <2>6. item'.done = item.done /\ item'.owner = item.owner BY ONLY <1>0, <1>5 DEF Reject
    <2> QED BY <1>a, <2>1, <2>5, <2>6
  <1>6. CASE Revalidate
    <2>1. item.owner BY <1>6, <1>o DEF Revalidate
    <2>2. \A g \in Ids : fails[g].state \notin {"complete", "cancelled"} BY ONLY <1>0, <2>1 DEF Acceptance
    <2>3. PICK m \in Ids : /\ SameLength /\ \A g \in Ids : g # m => fails'[g] = fails[g]
                           /\ fails'[m].state = "merged"
      BY <1>6, TableSteps
    <2>4. \A g \in Ids' : fails'[g].state \notin {"complete", "cancelled"} BY ONLY <2>2, <2>3 DEF SameLength
    <2>5. item'.done = item.done /\ item'.owner = item.owner BY ONLY <1>0, <1>6 DEF Revalidate
    <2> QED BY <1>a, <2>1, <2>4, <2>5
  <1>7. CASE FailInfra \/ RetryInfra \/ MergePR \/ Bind \/ ClosePR \/ Stop \/ Control \/ Lift
    BY <1>0, <1>1, <1>7 DEF FailInfra, RetryInfra, MergePR, Bind, ClosePR, Stop, Control, Lift
  <1>8. ASSUME NEW f \in Ids, OutOfScope(f) PROVE Acceptance' BY <1>8, <1>b, RowSteps DEF OutOfScope, Moved
  <1>9. ASSUME NEW f \in Ids, SourceAttempt(f) PROVE Acceptance' BY <1>9, <1>b, RowSteps DEF SourceAttempt, Moved
  <1>10. ASSUME NEW f \in Ids, Reserve(f) PROVE Acceptance'
    <2>1. /\ Moved(f) /\ fails[f].state = "observed" /\ fails'[f].state \in {"reserved", "blocked"}
      BY <1>10, RowSteps
    <2> QED BY <1>10, <1>b, <2>1 DEF Reserve, Moved
  <1>11. ASSUME NEW f \in Ids, BudgetRecheck(f) PROVE Acceptance' BY <1>11, <1>b, RowSteps DEF BudgetRecheck, Moved
  <1>12. ASSUME NEW f \in Ids, SourceRecheck(f) PROVE Acceptance'
    <2>1. /\ SameLength /\ fails[f].state = "blocked" /\ fails'[f].state = "observed"
          /\ \A g \in Ids : g # f => fails'[g].state = fails[g].state
      BY <1>12, RowSteps
    <2> QED BY <1>12, <1>b, <2>1 DEF SourceRecheck
  <1>13. CASE Freeze
    <2>1. UNCHANGED <<item, binding>> BY <1>13 DEF Freeze
    <2>2. CASE ~UNCHANGED fails
      <3>1. PICK f \in Ids : /\ SameLength /\ fails[f].state = "observed" /\ fails'[f].state \in {"observed", "blocked"}
                             /\ \A g \in Ids : g # f => fails'[g].state = fails[g].state
        BY <1>13, <2>2, SourceSteps DEF Moved
      <3> QED BY <1>b, <2>1, <3>1
    <2> QED BY <1>1, <2>1, <2>2
  <1>14. CASE SourceError
    <2>1. UNCHANGED <<item, binding>> BY <1>14 DEF SourceError
    <2>2. CASE ~UNCHANGED fails
      <3>1. PICK f \in Ids : Moved(f) /\ fails[f].state = "observed" /\ fails'[f].state = "blocked"
        BY <1>14, <2>2, SourceSteps
      <3> QED BY <1>b, <2>1, <3>1 DEF Moved
    <2> QED BY <1>1, <2>1, <2>2
  <1>15. ASSUME NEW c \in Candidates, Candidate(c) PROVE Acceptance'
    <2>1. UNCHANGED binding /\ item'.owner = item.owner /\ item'.done = item.done BY <1>0, <1>15 DEF Candidate
    <2>2. CASE ~UNCHANGED fails
      <3>1. PICK f \in Ids : fails[f].state = "reserved" /\ Moved(f) /\ fails'[f].state = "blocked"
        BY <1>15, <2>2, SourceSteps
      <3> QED BY <1>b, <2>1, <3>1 DEF Moved
    <2> QED BY <1>1, <2>1, <2>2
  <1>16. CASE FreezePreMerge
    <2>1. UNCHANGED <<item, binding>> BY <1>16 DEF FreezePreMerge
    <2>2. CASE ~UNCHANGED <<fails, pm>>
      <3> DEFINE row == [Failure("premerge", {First}) EXCEPT !.repo = First, !.base = src.base]
      <3>1. Authorized /\ fails = <<>> /\ Adds(row) BY <1>16, <2>2, Basics, Effects
      <3>2. row.state = "observed" BY ONLY TRUE DEF Failure
      <3> HIDE DEF row
      <3>3. \A g \in Ids' : fails'[g].state = "observed"
        <4>1. Ids' = {1} /\ Len(fails') = 1 BY <1>0, <3>1 DEF Adds
        <4> QED BY <3>1, <3>2, <4>1 DEF Adds
      <3> QED BY <1>a, <1>o, <2>1, <3>1, <3>3
    <2> QED BY <1>1, <2>1, <2>2
  <1>17. CASE Settle
    <2>1. item.owner /\ item'.owner = FALSE /\ item'.done = item.done BY ONLY <1>0, <1>17 DEF Settle
    <2> QED BY <1>a, <2>1
  <1>18. CASE NextItem
    <2>1. fails' = <<>> /\ item'.done = FALSE BY <1>18 DEF NextItem, NewItem
    <2>2. Ids' = {} BY <1>0, <2>1
    <2> QED BY ONLY <2>1, <2>2 DEF Acceptance
  <1>19. CASE Elapse
    <2>1. UNCHANGED <<item, binding>> BY <1>19 DEF Elapse
    <2>2. SameLength /\ \A g \in Ids : Alike(fails'[g], fails[g]) /\ fails'[g].state = fails[g].state
      BY <1>19, TableSteps
    <2>3. \A g \in Ids : (Overtaken(g)' <=> Overtaken(g)) /\ (Bound(g)' <=> Bound(g))
      BY ONLY <1>0, <2>1, <2>2, SMTT(30) DEF Overtaken, Bound, Alike
    <2> QED BY ONLY <1>0, <2>1, <2>2, <2>3 DEF Acceptance, SameLength
  <1> QED BY <1>1, <1>2, <1>3, <1>4, <1>5, <1>6, <1>7, <1>8, <1>9, <1>10, <1>11,
    <1>12, <1>13, <1>14, <1>15, <1>16, <1>17, <1>18, <1>19
    DEF Next, Results, SourceStep, SourceReply, RunStep, PreMergeStep, vars, ReadBranch, Rebind,
    PreMergeError, Reopen, Decide, ExpirePreMerge, ClaimPreMerge, CandidateRepair, Grant, Crash, Push

----------------------------------------------------------------------------
(* The theorems.                                                           *)

LEMMA InvInit == Init => IInv
  <1> SUFFICES ASSUME Init PROVE IInv OBVIOUS
  <1>1. Types BY TypeInit
  <1>2. /\ fails = <<>> /\ Ids = {} /\ res = NoReservation /\ src = NoSource /\ pm = NoDecision
        /\ item = NewItem /\ account = NewAccount
    BY DEF Init, Ids
  <1>3. /\ item.stage = (IF Kind = "code" THEN "open" ELSE "validating") /\ item.pr = 0 /\ item.sha = {}
        /\ res.f = None /\ res.status = "none" /\ src.f = None /\ pm.state = "none" /\ account.used = 0
    BY <1>2 DEF NewItem, NoReservation, NoSource, NoDecision, NewAccount
  <1>4. item.done = FALSE BY <1>2 DEF NewItem
  <1>5. pm.closed = FALSE BY <1>2 DEF NoDecision
  <1>6. Kind \in {"code", "validation_only"} /\ world.case.limit \in Nat
    BY <1>1 DEF Types, TypeWorld, CaseRecords, Kind
  <1>7. RowsConsistent BY <1>2 DEF RowsConsistent
  <1>8. OneUnresolved
    <2>1. Len(fails) = 0 BY <1>2
    <2> QED BY ONLY <1>2, <1>3, <1>6, <2>1 DEF OneUnresolved
  <1>9. ReservationOfLast BY ONLY <1>3, <1>6 DEF ReservationOfLast
  <1>10. SourceCurrent
    <2>1. ReadCurrent BY ONLY <1>2, <1>3 DEF ReadCurrent
    <2>2. DecisionCurrent BY ONLY <1>3, <1>5 DEF DecisionCurrent
    <2> QED BY <2>1, <2>2 DEF SourceCurrent
  <1>11. PaidOnce
    <2> DEFINE T == {f \in Ids : fails[f].repo # None}
               P == {f \in Ids : Paid(f)}
    <2>1. T = {} /\ P = {} BY ONLY <1>2
    <2>2. Cardinality(T) = 0 /\ Cardinality(P) = 0 BY <2>1, FS_EmptySet
    <2> HIDE DEF T, P
    <2>3. account.used <= world.case.limit /\ account.used <= Cardinality(T) /\ account.used <= Cardinality(P)
      BY ONLY <1>3, <1>6, <2>2
    <2> QED BY ONLY <2>3 DEF PaidOnce, T, P
  <1>12. LaterContains /\ RepairsBound BY ONLY <1>2 DEF LaterContains, RepairsBound
  <1>13. Acceptance BY ONLY <1>2, <1>4 DEF Acceptance
  <1> QED BY <1>1, <1>7, <1>8, <1>9, <1>10, <1>11, <1>12, <1>13 DEF IInv

LEMMA InvStep == IInv /\ [Next]_vars => IInv'
  <1> SUFFICES ASSUME IInv, [Next]_vars PROVE IInv' OBVIOUS
  <1>1. Types' /\ RowsConsistent' BY TypeStep, RowsStep
  <1>2. OneUnresolved' /\ ReservationOfLast' BY UnresolvedStep, ReservationStep
  <1>3. SourceCurrent' BY ReadStep, DecisionStep DEF SourceCurrent
  <1>4. PaidOnce' /\ Acceptance' BY PaidStep, AcceptanceStep
  <1>5. item'.owner => LaterContains' /\ RepairsBound' BY BoundStep
  <1> QED BY <1>1, <1>2, <1>3, <1>4, <1>5 DEF IInv

LEMMA InvImplies == IInv => RepairsHold
  <1> SUFFICES ASSUME IInv PROVE RepairsHold OBVIOUS
  <1>0. /\ Types /\ RowsConsistent /\ OneUnresolved /\ ReservationOfLast /\ PaidOnce /\ Acceptance
        /\ Ids = 1..Len(fails) /\ Len(fails) \in Nat /\ item.pr \in 0..MaxFails
    BY DEF IInv, Types, TypeFails, TypeItem, Ids
  <1>1. TypeOK
    <2>1. SUBSET (0..Pushed) \subseteq Commits BY DEF Commits
    <2>2. /\ world.inc \in 1..MaxInc /\ world.items \in Nat \ {0} /\ world.items <= world.case.items
          /\ world.case.items \in Nat
      BY <1>0 DEF Types, TypeWorld, CaseRecords
    <2>3. world.items \in 1..world.case.items BY ONLY <2>2
    <2>4. item \in [stage: Stages, pr: 0..MaxFails, sha: Commits, cand: Candidates \cup {"in"}, paused: BOOLEAN,
                    cancelled: BOOLEAN, revoked: BOOLEAN, done: BOOLEAN, owner: BOOLEAN]
      BY <1>0, <2>1 DEF Types, TypeItem
    <2>5. branch \in [Repos -> Commits] /\ binding \in [Repos -> Commits]
      BY <1>0, <2>1 DEF Types, TypeBranch, TypeBinding
    <2> QED BY <1>0, <2>2, <2>3, <2>4, <2>5 DEF Types, TypeFails, TypeRes, TypeAccount, TypeSrc, TypePm, TypeOK, Rows
  <1>2. OneOpenRepair
    <2>1. Open \subseteq {Len(fails)} BY <1>0 DEF Open, OneUnresolved
    <2>2. IsFiniteSet({Len(fails)}) /\ Cardinality({Len(fails)}) = 1 BY FS_Singleton
    <2>3. Cardinality(Open) <= 1 BY ONLY <2>1, <2>2, FS_Subset
    <2> QED BY <1>0, <2>3 DEF OneOpenRepair, ReservationOfLast
  <1>3. QuotaShared BY <1>0 DEF QuotaShared, PaidOnce
  <1>4. ScopeKept
    <2> SUFFICES ASSUME item.pr > 0, item.stage \in {"open", "merged"}
                 PROVE  LET f == fails[item.pr]
                        IN item.cand = "in" /\ f.repo \in f.blame /\ Contains(f.base, f.affected[f.repo])
      BY DEF ScopeKept
    <2>1. item.pr \in Ids /\ fails[item.pr].state = "reserved" /\ item.cand = "in"
      BY <1>0 DEF OneUnresolved
    <2>2. RowConsistent(item.pr) BY <1>0, <2>1 DEF RowsConsistent
    <2> QED BY <2>1, <2>2 DEF RowConsistent
  <1>5. AcceptedComplete /\ AcceptedOnRepaired
    BY ONLY <1>0 DEF AcceptedComplete, AcceptedOnRepaired, Acceptance, Bound
  <1> QED BY <1>1, <1>2, <1>3, <1>4, <1>5 DEF RepairsHold

\* In every reachable state the rows, the reservation, the quota, the read in the
\* controller and the validated versions agree as IInv says: linked_repair,
\* linked_repair_source, linked_repair_worker and linked_integration between them.
THEOREM Inductive == Spec => []IInv
  <1>1. Init => IInv BY InvInit
  <1>2. IInv /\ [Next]_vars => IInv' BY InvStep
  <1> QED BY <1>1, <1>2, PTL DEF Spec

\* Repairs are serial across repositories and restarts, paid for once from the shared
\* limit, within the scope their failure blames, and the item is accepted only on
\* versions with every repair that was not overtaken (linked_repair::reserve,
\* candidate_allowed, linked_integration::tick, linked_repair_acceptance::finish).
THEOREM RepairsSound == Spec => []RepairsHold
  <1>1. Spec => []IInv BY Inductive
  <1>2. IInv => RepairsHold BY InvImplies
  <1> QED BY <1>1, <1>2, PTL
================================================================================
