------------------------------ MODULE GroupProof ------------------------------
(***************************************************************************)
(* Theorems about a group, for any finite set of children, any             *)
(* repositories, dependencies and documents, and any number of commands:   *)
(* what runs is what was reviewed, what has started is not edited, and     *)
(* what is accepted is complete.                                           *)
(***************************************************************************)
EXTENDS Group, Integration, FiniteSetTheorems, TLAPS

----------------------------------------------------------------------------
(* The inductive invariant.  The parts about items are of any projection    *)
(* `it' of them, since an edit first makes items of the authorized document *)
(* when there are none yet (Projected), and then changes those.             *)

States == {"none", "Ready", "Running", "Submitted", "Done", "Cancelled", "Cleaned"}
AuthRecs == [doc : Docs, draft : Nat, review : Nat, saw : Docs \cup {<<>>}]
ItemRecs ==
    [req : States, text : Texts \cup {0}, order : Nat, auth : Nat, frozen : BOOLEAN, removed : BOOLEAN,
     draft : Nat, review : Nat, begun : BOOLEAN, input : SUBSET (Children \X Nat), done : Nat]

QueueRecs == [state : {"none", "needs_review", "waiting_scheduler"}, ver : Nat, auth : Nat]

TypeDraft == draft \in [ver : Nat \ {0}, doc : Docs] /\ In(draft.doc) # {} /\ policy \in Nat
TypeReview == review \in [ver : Nat, draft : Nat, policy : Nat]
TypeQueue == queue \in QueueRecs /\ queue.auth \in 0..Len(auths)
TypeAuths == auths \in Seq(AuthRecs)
TypeEdit ==
    edit \in [ver : Nat, doc : Docs \cup {<<>>}, policy : Nat, parent : Nat, affected : SUBSET Children]
TypeSeen ==
    seen \in [draft : Nat, review : Nat, queue : Nat, edit : Nat, doc : Docs, after : Docs \cup {<<>>}]
TypeLeft == left \in CaseRecs(left) /\ \A doc \in left.docs : In(doc) # {}
Types ==
    TypeDraft /\ TypeReview /\ TypeQueue /\ TypeAuths /\ TypeEdit /\ TypeSeen /\ TypeLeft

\* versions only grow, so a screen with the current version shows the current document
\* or difference, and the next review has not been authorized yet
Screens ==
    /\ seen.draft <= draft.ver /\ (seen.draft = draft.ver => seen.doc = draft.doc)
    /\ seen.edit <= queue.ver /\ edit.ver <= queue.ver
    /\ edit.ver > 0 /\ seen.edit = edit.ver => seen.after = edit.doc
    /\ \A a \in DOMAIN auths : auths[a].review <= review.ver

\* the authorization of a queue that waits for the scheduler is of the current rows
Bound ==
    /\ queue.ver = 0 => queue.state = "none"
    /\ queue.state = "waiting_scheduler" =>
          /\ queue.auth \in DOMAIN auths
          /\ auths[queue.auth].doc = draft.doc
          /\ auths[queue.auth].draft = draft.ver /\ auths[queue.auth].review = review.ver
          /\ ValidOrder(draft.doc)

\* a pending difference is of the document in force, and reaches whatever builds on
\* what it changes
Pending ==
    IF edit.ver = 0 THEN edit.affected = {}
    ELSE /\ Materialized /\ edit.parent = draft.ver + 1
         /\ edit.doc \in Docs /\ In(edit.doc) # {} /\ ValidOrder(edit.doc)
         /\ Changed(draft.doc, edit.doc) \subseteq edit.affected
         /\ edit.affected \subseteq In(draft.doc) \cup In(edit.doc)
         /\ \A c \in In(edit.doc) : Builds(edit.doc, c, edit.affected) => c \in edit.affected

Live(i) == i.req # "none" /\ ~i.removed
Out(i) == i.req \in {"Cancelled", "Cleaned"}
Begun(i) == Live(i) /\ (i.begun \/ i.req \in {"Running", "Submitted", "Done"})
Made(it) == \E c \in Children : it[c].req # "none"

\* an item has an authorization and the revisions in force; frozen or removed, it has
\* not started
SoundItem(i) ==
    /\ i.auth \in 0..Len(auths) /\ i.done \in {0, i.auth}
    /\ i.req # "none" => i.auth > 0 /\ i.draft = draft.ver /\ i.review = review.ver
    /\ i.begun => i.req # "none"
    /\ i.frozen \/ i.removed => ~i.begun /\ i.req \in {"none", "Ready", "Cancelled", "Cleaned"}
    /\ Live(i) => i.order > 0

Itemized(it) == it \in [Children -> ItemRecs] /\ \A c \in Children : SoundItem(it[c])
InForce(it) ==
    /\ Made(it) => queue.state = "waiting_scheduler" /\ \A c \in In(draft.doc) : Live(it[c])
    /\ \A c \in Children : Live(it[c]) => c \in In(draft.doc) /\ it[c].text = draft.doc[c].text
Renewed(it) == \A c \in Children : \A d \in Deps[c] : Live(it[c]) => it[d].auth <= it[c].auth
Builton(it) ==
    \A c \in Children : Begun(it[c]) /\ ~Out(it[c]) =>
       \A p \in it[c].input : p[2] > 0 /\ (it[p[1]].done = p[2] \/ Out(it[p[1]]))
Items(it) == Itemized(it) /\ InForce(it) /\ Renewed(it) /\ Builton(it)

Held == \A c \in edit.affected : item[c].req = "none" \/ item[c].frozen
Owned ==
    /\ owner \in Children \cup {None}
    /\ owner # None => item[owner].req \notin {"none", "Ready"}

IInv ==
    /\ Types /\ Screens /\ Bound /\ Pending /\ Items(item) /\ Held /\ Owned
    /\ AuthorizedIsSeen /\ AuthorizedOnce

----------------------------------------------------------------------------
(* Sequences, the case, screens, and who writes what.                       *)

LEMMA AddedAt ==
  ASSUME NEW S, NEW s \in Seq(S), NEW r \in S
  PROVE  /\ Append(s, r) \in Seq(S)
         /\ Len(Append(s, r)) = Len(s) + 1 /\ Len(s) \in Nat
         /\ DOMAIN s = 1..Len(s) /\ DOMAIN Append(s, r) = 1..(Len(s) + 1)
         /\ \A b \in DOMAIN s : Append(s, r)[b] = s[b]
         /\ Append(s, r)[Len(s) + 1] = r
  OBVIOUS

LEMMA LeftWrites ==
  ASSUME Next
  PROVE  UNCHANGED left \/ (left.more > 0 /\ left' = [left EXCEPT !.more = @ - 1])
  BY DEF Next, Read, SaveDraft, SaveReview, Confirm, Reorder, Propose, Approve, Cancel, ChangePolicy,
    Materialize, Prepare, Claim, Submit, CompleteItem, Release, Cleanup, StartValidation,
    PassValidation, QueueEdit, Command, Worker

LEMMA LeftKept ==
  ASSUME TypeLeft, UNCHANGED left \/ (left.more > 0 /\ left' = [left EXCEPT !.more = @ - 1])
  PROVE  TypeLeft' /\ Deps' = Deps /\ Repo' = Repo /\ left'.docs = left.docs /\ FullChain' = FullChain
  <1>1. CASE UNCHANGED left BY <1>1 DEF TypeLeft, Deps, Repo, FullChain
  <1>2. CASE left.more > 0 /\ left' = [left EXCEPT !.more = @ - 1]
    <2>1. left \in CaseRecs(left) BY DEF TypeLeft
    <2>2. left.more - 1 \in Nat BY <1>2, <2>1 DEF CaseRecs
    <2>3. /\ left'.docs = left.docs /\ left'.deps = left.deps /\ left'.repo = left.repo
          /\ left'.fullChain = left.fullChain /\ left'.commands = left.commands
      BY <1>2, <2>1 DEF CaseRecs
    <2>4. left' \in CaseRecs(left)
      <3>1. left' = [left EXCEPT !.more = left.more - 1] BY <1>2
      <3> QED BY <2>1, <2>2, <3>1 DEF CaseRecs
    <2>5. CaseRecs(left)' = CaseRecs(left) BY <2>3 DEF CaseRecs
    <2> QED BY <2>3, <2>4, <2>5 DEF TypeLeft, Deps, Repo, FullChain
  <1> QED BY <1>1, <1>2

\* what every step keeps of the case
LEMMA CaseStands ==
  ASSUME IInv, Next
  PROVE  TypeLeft' /\ Deps' = Deps /\ Repo' = Repo
  BY LeftWrites, LeftKept DEF IInv, Types

LEMMA ScreenWrites == ASSUME Next PROVE Read \/ UNCHANGED seen
  BY DEF Next, SaveDraft, SaveReview, Confirm, Reorder, Propose, Approve, Cancel, ChangePolicy,
    Materialize, Prepare, Claim, Submit, CompleteItem, Release, Cleanup, StartValidation,
    PassValidation, QueueEdit, Command, Worker

\* nothing is projected while the draft may be edited
LEMMA Unprojected ==
  ASSUME IInv, ~Materialized
  PROVE  /\ \A c \in Children : item[c].req = "none"
         /\ edit.ver = 0 /\ edit.affected = {} /\ owner = None
  BY DEF IInv, Materialized, Pending, Owned

\* items that are not there say nothing of the rows
LEMMA ItemsAbsent ==
  ASSUME Items(item), \A c \in Children : item[c].req = "none", UNCHANGED item,
         Len(auths) \in Nat, Len(auths)' \in Nat, Len(auths) <= Len(auths)', Deps' = Deps
  PROVE  Items(item)' /\ ~Made(item)'
  <1>1. \A c \in Children : item'[c] = item[c] /\ ~Live(item'[c]) /\ ~Begun(item'[c])
    BY DEF Live, Begun
  <1>2. ASSUME NEW c \in Children PROVE SoundItem(item[c])'
    <2>1. SoundItem(item[c]) /\ item[c].req = "none" BY DEF Items, Itemized
    <2>2. item[c].auth \in 0..Len(auths)' BY <2>1 DEF SoundItem
    <2> QED BY <1>1, <2>1, <2>2 DEF SoundItem
  <1> QED BY <1>1, <1>2 DEF Items, Itemized, InForce, Renewed, Builton, Made, Live, Begun

LEMMA AuthsAt == ASSUME TypeAuths, NEW a \in DOMAIN auths PROVE auths[a] \in AuthRecs
  BY DEF TypeAuths

LEMMA QueueRec ==
  \A v, a \in Nat : [state |-> "needs_review", ver |-> v, auth |-> a] \in QueueRecs
  BY DEF QueueRecs

LEMMA Invalidated ==
  ASSUME TypeQueue, Bound,
         queue' = IF queue.ver = 0 THEN queue ELSE [queue EXCEPT !.state = "needs_review", !.ver = @ + 1]
  PROVE  /\ queue' \in QueueRecs
         /\ queue'.auth = queue.auth /\ queue'.ver >= queue.ver
         /\ queue'.state # "waiting_scheduler" /\ (queue'.ver = 0 => queue'.state = "none")
  <1>1. CASE queue.ver = 0 BY <1>1 DEF TypeQueue, QueueRecs, Bound
  <1>2. CASE queue.ver # 0
    <2>1. queue' = [queue EXCEPT !.state = "needs_review", !.ver = queue.ver + 1] BY <1>2
    <2>2. queue.ver \in Nat /\ queue.ver + 1 \in Nat /\ queue.auth \in Nat BY DEF TypeQueue, QueueRecs
    <2>3. queue' = [state |-> "needs_review", ver |-> queue.ver + 1, auth |-> queue.auth]
      BY <2>1 DEF TypeQueue, QueueRecs
    <2>4. queue'.auth = queue.auth /\ queue'.ver = queue.ver + 1 /\ queue'.state = "needs_review"
      BY <2>3
    <2>5. queue' \in QueueRecs BY <2>2, <2>3, QueueRec
    <2>6. queue'.ver # 0 /\ queue'.ver >= queue.ver BY <2>2, <2>4
    <2> QED BY <2>4, <2>5, <2>6
  <1> QED BY <1>1, <1>2

----------------------------------------------------------------------------
(* Users, before anything is projected.                                     *)

LEMMA ReadInv == ASSUME IInv, Read PROVE IInv'
  <1> USE DEF IInv, Types
  <1>1. TypeSeen'
    BY DEF Read, TypeSeen, TypeDraft, TypeReview, TypeQueue, QueueRecs, TypeEdit
  <1>2. Screens' BY DEF Read, rows, Screens, TypeDraft, TypeQueue, QueueRecs, TypeEdit
  <1>3. UNCHANGED <<rows, item, owner, policy, left>> BY DEF Read
  <1> USE DEF rows
  <1>4. TypeDraft' /\ TypeReview' /\ TypeQueue' /\ TypeAuths' /\ TypeEdit' /\ TypeLeft'
    BY <1>3 DEF TypeDraft, TypeReview, TypeQueue, QueueRecs, TypeAuths, TypeEdit, TypeLeft
  <1>5. Bound' BY <1>3 DEF Bound, ValidOrder, Deps
  <1>6. Pending' BY <1>3 DEF Pending, Materialized, ValidOrder, Deps, Changed, Builds, Repo
  <1>7. Items(item)'
    BY <1>3 DEF Items, Itemized, InForce, Renewed, Builton, SoundItem, Made, Deps
  <1>8. Held' /\ Owned' /\ AuthorizedIsSeen' /\ AuthorizedOnce'
    BY <1>3 DEF Held, Owned, AuthorizedIsSeen, AuthorizedOnce
  <1> QED BY <1>1, <1>2, <1>4, <1>5, <1>6, <1>7, <1>8

LEMMA SaveDraftInv == ASSUME IInv, SaveDraft PROVE IInv'
  <1> USE DEF IInv, Types
  <1>0. TypeLeft' /\ Deps' = Deps /\ Repo' = Repo BY CaseStands DEF Next
  <1>1. PICK doc \in left.docs :
          /\ ~Materialized /\ draft' = [ver |-> draft.ver + 1, doc |-> doc]
          /\ queue' = IF queue.ver = 0 THEN queue
                      ELSE [queue EXCEPT !.state = "needs_review", !.ver = @ + 1]
          /\ UNCHANGED <<review, auths, edit, item, owner, policy, seen>>
    BY DEF SaveDraft, Invalidate
  <1>2. doc \in Docs /\ In(doc) # {} BY DEF TypeLeft, CaseRecs
  <1>3. /\ \A c \in Children : item[c].req = "none"
        /\ edit.ver = 0 /\ edit.affected = {} /\ owner = None
    BY <1>1, Unprojected
  <1>4. /\ queue' \in QueueRecs
        /\ queue'.auth = queue.auth /\ queue'.ver >= queue.ver
        /\ queue'.state # "waiting_scheduler" /\ (queue'.ver = 0 => queue'.state = "none")
    BY <1>1, Invalidated
  <1>5. draft'.ver = draft.ver + 1 /\ draft'.doc = doc BY <1>1
  <1>6. TypeDraft' /\ TypeReview' /\ TypeQueue' /\ TypeAuths' /\ TypeEdit' /\ TypeSeen'
    <2>1. TypeDraft'
      <3>1. draft.ver \in Nat \ {0} /\ policy' = policy /\ policy \in Nat BY <1>1 DEF TypeDraft
      <3>2. draft.ver + 1 \in Nat \ {0} BY <3>1
      <3>3. In(draft'.doc) # {} BY <1>2, <1>5
      <3>4. draft' \in [ver : Nat \ {0}, doc : Docs] BY <1>1, <1>2, <3>2
      <3> QED BY <3>1, <3>3, <3>4 DEF TypeDraft
    <2>2. TypeQueue' BY <1>1, <1>4 DEF TypeQueue
    <2>3. TypeReview' /\ TypeAuths' /\ TypeEdit' /\ TypeSeen'
      BY <1>1 DEF TypeReview, TypeAuths, TypeEdit, TypeSeen
    <2> QED BY <2>1, <2>2, <2>3
  <1>7. Screens'
    BY <1>1, <1>3, <1>4, <1>5, SMTT(30) DEF Screens, TypeDraft, TypeQueue, QueueRecs, TypeSeen, TypeEdit
  <1>8. Bound' BY <1>4 DEF Bound
  <1>9. Pending' BY <1>1, <1>3 DEF Pending
  <1>10. Items(item)' BY <1>0, <1>1, <1>3, ItemsAbsent DEF TypeAuths
  <1>11. Held' /\ Owned' /\ AuthorizedIsSeen' /\ AuthorizedOnce'
    BY <1>1, <1>3 DEF Held, Owned, AuthorizedIsSeen, AuthorizedOnce
  <1> QED BY <1>0, <1>6, <1>7, <1>8, <1>9, <1>10, <1>11

LEMMA SaveReviewInv == ASSUME IInv, SaveReview PROVE IInv'
  <1> USE DEF IInv, Types
  <1>0. TypeLeft' /\ Deps' = Deps /\ Repo' = Repo BY CaseStands DEF Next
  <1>1. /\ ~Materialized /\ review' = [ver |-> review.ver + 1, draft |-> draft.ver, policy |-> policy]
        /\ queue' = IF queue.ver = 0 THEN queue
                    ELSE [queue EXCEPT !.state = "needs_review", !.ver = @ + 1]
        /\ UNCHANGED <<draft, auths, edit, item, owner, policy, seen>>
    BY DEF SaveReview, Invalidate
  <1>3. /\ \A c \in Children : item[c].req = "none"
        /\ edit.ver = 0 /\ edit.affected = {} /\ owner = None
    BY <1>1, Unprojected
  <1>4. /\ queue' \in QueueRecs
        /\ queue'.auth = queue.auth /\ queue'.ver >= queue.ver
        /\ queue'.state # "waiting_scheduler" /\ (queue'.ver = 0 => queue'.state = "none")
    BY <1>1, Invalidated
  <1>5. review'.ver = review.ver + 1 /\ review.ver \in Nat BY <1>1 DEF TypeReview
  <1>6. TypeDraft' /\ TypeReview' /\ TypeQueue' /\ TypeAuths' /\ TypeEdit' /\ TypeSeen'
    <2>1. TypeDraft' BY <1>1 DEF TypeDraft, In
    <2>2. TypeReview' BY <1>1, <1>5 DEF TypeReview, TypeDraft
    <2>3. TypeQueue' BY <1>1, <1>4 DEF TypeQueue
    <2>4. TypeAuths' /\ TypeEdit' /\ TypeSeen' BY <1>1 DEF TypeAuths, TypeEdit, TypeSeen
    <2> QED BY <2>1, <2>2, <2>3, <2>4
  <1>7. Screens'
    <2>1. \A a \in DOMAIN auths : auths[a].review \in Nat BY AuthsAt DEF AuthRecs
    <2> QED BY <1>1, <1>3, <1>4, <1>5, <2>1, SMTT(30) DEF Screens, TypeQueue, QueueRecs, TypeSeen, TypeEdit
  <1>8. Bound' BY <1>4 DEF Bound
  <1>9. Pending' BY <1>1, <1>3 DEF Pending
  <1>10. Items(item)' BY <1>0, <1>1, <1>3, ItemsAbsent DEF TypeAuths
  <1>11. Held' /\ Owned' /\ AuthorizedIsSeen' /\ AuthorizedOnce'
    BY <1>1, <1>3 DEF Held, Owned, AuthorizedIsSeen, AuthorizedOnce
  <1> QED BY <1>0, <1>6, <1>7, <1>8, <1>9, <1>10, <1>11

LEMMA ConfirmInv == ASSUME IInv, Confirm PROVE IInv'
  <1> USE DEF IInv, Types
  <1> DEFINE a == Len(auths) + 1
             new == NewAuth(draft.doc, draft.ver, review.ver, seen.doc)
  <1>0. TypeLeft' /\ Deps' = Deps /\ Repo' = Repo BY CaseStands DEF Next
  <1>1. /\ seen.draft = draft.ver /\ review.ver > 0
        /\ \A b \in DOMAIN auths : auths[b].review # review.ver
        /\ ValidOrder(draft.doc)
        /\ auths' = Append(auths, new)
        /\ queue' = [state |-> "waiting_scheduler", ver |-> queue.ver + 1, auth |-> a]
        /\ UNCHANGED <<draft, review, edit, item, owner, policy, seen>>
    BY DEF Confirm, CheckVersions, Valid
  <1>2. ~Materialized
    <2>1. Made(item) => queue.state = "waiting_scheduler" BY DEF Items, InForce
    <2> QED BY <1>1, <2>1 DEF Bound, Made, Materialized
  <1>3. /\ \A c \in Children : item[c].req = "none"
        /\ edit.ver = 0 /\ edit.affected = {} /\ owner = None
    BY <1>2, Unprojected
  <1>4. new \in AuthRecs /\ new.doc = draft.doc /\ new.draft = draft.ver /\ new.review = review.ver
        /\ new.saw = new.doc
    BY <1>1 DEF NewAuth, AuthRecs, TypeDraft, TypeReview, TypeSeen, Screens
  <1> HIDE DEF new
  <1>5. /\ auths' \in Seq(AuthRecs) /\ Len(auths') = a /\ Len(auths) \in Nat
        /\ DOMAIN auths = 1..Len(auths) /\ DOMAIN auths' = 1..a
        /\ \A b \in DOMAIN auths : auths'[b] = auths[b]
        /\ auths'[a] = new
    BY <1>1, <1>4, AddedAt DEF TypeAuths
  <1>6. TypeDraft' /\ TypeReview' /\ TypeQueue' /\ TypeAuths' /\ TypeEdit' /\ TypeSeen'
    BY <1>1, <1>5 DEF TypeDraft, TypeReview, TypeQueue, QueueRecs, TypeAuths, TypeEdit, TypeSeen, In
  <1>7. Screens'
    <2>1. \A b \in DOMAIN auths' : b \in DOMAIN auths \/ b = a BY <1>5
    <2>2. \A b \in DOMAIN auths' : auths'[b].review <= review.ver
      BY <1>4, <1>5, <2>1 DEF Screens, TypeReview
    <2> QED BY <1>1, <1>3, <2>2 DEF Screens, TypeQueue, QueueRecs, TypeSeen, TypeEdit
  <1>8. Bound'
    <2>1. ValidOrder(draft.doc)' BY <1>0, <1>1 DEF ValidOrder, In
    <2> QED BY <1>1, <1>4, <1>5, <2>1 DEF Bound, TypeQueue, QueueRecs
  <1>9. Pending' BY <1>1, <1>3 DEF Pending
  <1>10. Items(item)' BY <1>0, <1>1, <1>3, <1>5, ItemsAbsent
  <1>11. AuthorizedIsSeen' /\ AuthorizedOnce'
    <2>1. \A b \in DOMAIN auths' : b \in DOMAIN auths \/ b = a BY <1>5
    <2> QED BY <1>1, <1>4, <1>5, <2>1 DEF AuthorizedIsSeen, AuthorizedOnce
  <1>12. Held' /\ Owned' BY <1>1, <1>3 DEF Held, Owned
  <1> QED BY <1>0, <1>6, <1>7, <1>8, <1>9, <1>10, <1>11, <1>12

LEMMA ChangePolicyInv == ASSUME IInv, ChangePolicy PROVE IInv'
  <1> USE DEF IInv, Types
  <1>0. TypeLeft' /\ Deps' = Deps /\ Repo' = Repo BY CaseStands DEF Next
  <1>1. policy' = policy + 1 /\ UNCHANGED <<draft, review, queue, auths, edit, item, owner, seen>>
    BY DEF ChangePolicy, rows
  <1>2. TypeDraft' /\ TypeReview' /\ TypeQueue' /\ TypeAuths' /\ TypeEdit' /\ TypeSeen'
    BY <1>1 DEF TypeDraft, TypeReview, TypeQueue, QueueRecs, TypeAuths, TypeEdit, TypeSeen, In
  <1>3. Screens' BY <1>1 DEF Screens
  <1>4. Bound' BY <1>0, <1>1 DEF Bound, ValidOrder, In
  <1>5. Pending' BY <1>0, <1>1 DEF Pending, Materialized, ValidOrder, Changed, Builds, In
  <1>6. Items(item)'
    BY <1>0, <1>1 DEF Items, Itemized, InForce, Renewed, Builton, SoundItem, Made
  <1>7. Held' /\ Owned' /\ AuthorizedIsSeen' /\ AuthorizedOnce'
    BY <1>1 DEF Held, Owned, AuthorizedIsSeen, AuthorizedOnce
  <1> QED BY <1>0, <1>2, <1>3, <1>4, <1>5, <1>6, <1>7

----------------------------------------------------------------------------
(* What is affected is closed under what builds on it.                      *)

LEMMA AffectedCloses ==
  ASSUME NEW old, NEW new
  PROVE  /\ Changed(old, new) \subseteq Affected(old, new)
         /\ Affected(old, new) \subseteq In(old) \cup In(new)
         /\ \A c \in In(new) : Builds(new, c, Affected(old, new)) => c \in Affected(old, new)
  <1> DEFINE A == Affected(old, new)
             All == In(old) \cup In(new)
  <1>1. Changed(old, new) \subseteq A
    <2>1. Changed(old, new) \subseteq Children BY DEF Changed, In
    <2> QED BY <2>1 DEF Affected, Closed
  <1>2. A \subseteq All
    <2>1. All \in SUBSET Children BY DEF In
    <2>2. Closed(old, new, All) BY DEF Closed, Changed
    <2> QED BY <2>1, <2>2 DEF Affected
  <1>3. ASSUME NEW c \in In(new), Builds(new, c, A) PROVE c \in A
    <2>1. c \in Children BY DEF In
    <2>2. ASSUME NEW C \in SUBSET Children, Closed(old, new, C) PROVE c \in C
      <3>1. A \subseteq C BY <2>2 DEF Affected
      <3>2. Builds(new, c, C) BY <1>3, <3>1 DEF Builds
      <3> QED BY <2>2, <3>2 DEF Closed
    <2> QED BY <2>1, <2>2 DEF Affected
  <1> QED BY <1>1, <1>2, <1>3

----------------------------------------------------------------------------
(* Items that are renamed nowhere but in their order and their freeze.       *)

LEMMA Relabelled ==
  ASSUME NEW it, NEW jt \in [Children -> ItemRecs], Items(it), Deps \in [Children -> SUBSET Children],
         \A c \in Children :
            /\ jt[c].req = it[c].req /\ jt[c].text = it[c].text /\ jt[c].auth = it[c].auth
            /\ jt[c].removed = it[c].removed /\ jt[c].draft = it[c].draft
            /\ jt[c].review = it[c].review /\ jt[c].begun = it[c].begun
            /\ jt[c].input = it[c].input /\ jt[c].done = it[c].done
            /\ Live(it[c]) => jt[c].order > 0
            /\ jt[c].frozen => it[c].frozen \/ (~it[c].begun /\ it[c].req \in {"none", "Ready"})
  PROVE  Items(jt) /\ (Made(it) <=> Made(jt))
  <1>1. \A c \in Children : /\ Live(jt[c]) <=> Live(it[c])
                            /\ Begun(jt[c]) <=> Begun(it[c])
                            /\ Out(jt[c]) <=> Out(it[c])
    BY DEF Live, Begun, Out
  <1>2. Made(it) <=> Made(jt) BY DEF Made
  <1>3. ASSUME NEW c \in Children PROVE SoundItem(jt[c])
    <2>1. SoundItem(it[c]) BY DEF Items, Itemized
    <2>2. /\ jt[c].auth \in 0..Len(auths) /\ jt[c].done \in {0, jt[c].auth}
          /\ jt[c].req # "none" => jt[c].auth > 0 /\ jt[c].draft = draft.ver /\ jt[c].review = review.ver
      BY <2>1 DEF SoundItem
    <2>3. jt[c].begun => jt[c].req # "none" BY <2>1, Zenon DEF SoundItem
    <2>4. jt[c].frozen \/ jt[c].removed =>
            ~jt[c].begun /\ jt[c].req \in {"none", "Ready", "Cancelled", "Cleaned"}
      BY <2>1, Zenon DEF SoundItem
    <2>5. Live(jt[c]) => jt[c].order > 0 BY <1>1
    <2> QED BY <2>2, <2>3, <2>4, <2>5, Zenon DEF SoundItem
  <1>4. Itemized(jt) BY <1>3 DEF Itemized
  <1>5. InForce(jt)
    <2>1. Made(jt) => queue.state = "waiting_scheduler" /\ \A c \in In(draft.doc) : Live(jt[c])
      BY <1>1, <1>2 DEF Items, InForce, In
    <2>2. \A c \in Children : Live(jt[c]) => c \in In(draft.doc) /\ jt[c].text = draft.doc[c].text
      BY <1>1 DEF Items, InForce
    <2> QED BY <2>1, <2>2 DEF InForce
  <1>6. Renewed(jt)
    <2> SUFFICES ASSUME NEW c \in Children, NEW d \in Deps[c], Live(jt[c])
                 PROVE  jt[d].auth <= jt[c].auth
      BY DEF Renewed
    <2>1. d \in Children OBVIOUS
    <2> QED BY <1>1, <2>1 DEF Items, Renewed
  <1>7. Builton(jt)
    <2> SUFFICES ASSUME NEW c \in Children, Begun(jt[c]), ~Out(jt[c]), NEW p \in jt[c].input
                 PROVE  p[2] > 0 /\ (jt[p[1]].done = p[2] \/ Out(jt[p[1]]))
      BY DEF Builton
    <2>1. p[1] \in Children BY DEF ItemRecs
    <2> QED BY <1>1, <2>1 DEF Items, Builton
  <1> QED BY <1>2, <1>4, <1>5, <1>6, <1>7 DEF Items

LEMMA DepsTyped == TypeLeft => Deps \in [Children -> SUBSET Children]
  BY DEF TypeLeft, CaseRecs, Deps

\* what the scheduler, or the first edit, makes of the authorization
LEMMA ProjectedItems ==
  ASSUME IInv, queue.state = "waiting_scheduler"
  PROVE  /\ Items(Projected) /\ Made(Projected)
         /\ Materialized => Projected = item
         /\ ~Materialized => \A c \in Children : item[c].req = "none"
  <1> USE DEF IInv, Types
  <1> DEFINE a == auths[queue.auth]
             it == Projected
  <1>1. CASE Materialized
    <2>1. it = item BY <1>1 DEF Projected
    <2> QED BY <1>1, <2>1 DEF Materialized, Made
  <1>2. CASE ~Materialized
    <2>0. /\ a.doc = draft.doc /\ a.draft = draft.ver /\ a.review = review.ver
          /\ queue.auth \in 1..Len(auths) /\ queue.auth \in Nat /\ Len(auths) \in Nat
      BY DEF Bound, TypeQueue, QueueRecs, TypeAuths
    <2>00. draft.doc \in Docs /\ draft.ver \in Nat /\ review.ver \in Nat
      BY DEF TypeDraft, TypeReview
    <2>1. it = [c \in Children |->
                 IF c \notin In(draft.doc) THEN NoItem
                 ELSE [NoItem EXCEPT !.req = "Ready", !.text = draft.doc[c].text, !.order = draft.doc[c].order,
                                     !.auth = queue.auth, !.draft = draft.ver, !.review = review.ver]]
      BY <1>2, <2>0 DEF Projected
    <2>2. \A c \in Children \ In(draft.doc) : it[c] = NoItem BY <2>1
    <2>3. ASSUME NEW c \in In(draft.doc)
          PROVE  it[c] = [req |-> "Ready", text |-> draft.doc[c].text, order |-> draft.doc[c].order,
                          auth |-> queue.auth, frozen |-> FALSE, removed |-> FALSE, draft |-> draft.ver,
                          review |-> review.ver, begun |-> FALSE, input |-> {}, done |-> 0]
      BY <2>1 DEF In, NoItem
    <2>4. NoItem \in ItemRecs /\ ~Live(NoItem) /\ ~Begun(NoItem) /\ NoItem.req = "none"
      BY DEF NoItem, ItemRecs, States, Live, Begun
    <2>5. ASSUME NEW c \in In(draft.doc)
          PROVE  /\ it[c] \in ItemRecs /\ Live(it[c]) /\ ~Begun(it[c]) /\ it[c].text = draft.doc[c].text
                 /\ it[c].auth = queue.auth /\ it[c].order = draft.doc[c].order /\ it[c].req = "Ready"
                 /\ it[c].draft = draft.ver /\ it[c].review = review.ver
                 /\ ~it[c].begun /\ ~it[c].frozen /\ ~it[c].removed /\ it[c].done = 0
      <3>1. draft.doc[c].text \in Texts /\ draft.doc[c].order \in Nat BY <2>00 DEF Docs, In
      <3>2. it[c] = [req |-> "Ready", text |-> draft.doc[c].text, order |-> draft.doc[c].order,
                     auth |-> queue.auth, frozen |-> FALSE, removed |-> FALSE, draft |-> draft.ver,
                     review |-> review.ver, begun |-> FALSE, input |-> {}, done |-> 0]
        BY <2>3
      <3> HIDE DEF it
      <3>3. it[c] \in ItemRecs BY <2>0, <2>00, <3>1, <3>2 DEF ItemRecs, States
      <3>4. /\ it[c].text = draft.doc[c].text /\ it[c].auth = queue.auth
            /\ it[c].order = draft.doc[c].order /\ it[c].req = "Ready"
            /\ it[c].draft = draft.ver /\ it[c].review = review.ver
            /\ it[c].begun = FALSE /\ it[c].frozen = FALSE /\ it[c].removed = FALSE /\ it[c].done = 0
        BY <3>2
      <3> QED BY <3>3, <3>4, Zenon DEF Live, Begun
    <2>6. it \in [Children -> ItemRecs] BY <2>1, <2>2, <2>4, <2>5
    <2>7. ASSUME NEW c \in Children PROVE SoundItem(it[c])
      <3>1. CASE c \in In(draft.doc)
        <4>1. draft.doc[c].order > 0 BY <3>1 DEF In
        <4> QED BY <2>0, <2>5, <3>1, <4>1 DEF SoundItem
      <3>2. CASE c \notin In(draft.doc)
        BY <2>0, <2>2, <3>2 DEF SoundItem, NoItem, Live
      <3> QED BY <3>1, <3>2
    <2>8. InForce(it) BY <2>2, <2>4, <2>5 DEF InForce
    <2>9. Renewed(it)
      <3>1. \A c \in Children : it[c].auth <= queue.auth
        BY <2>0, <2>2, <2>5 DEF NoItem
      <3>2. \A c \in Children : Live(it[c]) => it[c].auth = queue.auth BY <2>2, <2>4, <2>5
      <3>3. Deps \in [Children -> SUBSET Children] BY DepsTyped
      <3> QED BY <3>1, <3>2, <3>3 DEF Renewed
    <2>10. Builton(it) BY <2>2, <2>4, <2>5 DEF Builton
    <2>11. Made(it)
      <3>1. PICK c \in In(draft.doc) : TRUE BY DEF TypeDraft
      <3> QED BY <2>5, <3>1 DEF Made, In
    <2> QED BY <1>2, <2>6, <2>7, <2>8, <2>9, <2>10, <2>11 DEF Items, Itemized, Materialized
  <1> QED BY <1>1, <1>2

LEMMA OrderedDoc ==
  ASSUME IInv, NEW it, Items(it)
  PROVE  /\ Ordered(it, draft.doc) \in Docs
         /\ In(Ordered(it, draft.doc)) = In(draft.doc)
         /\ \A c \in Children : Ordered(it, draft.doc)[c].text = draft.doc[c].text
  <1> DEFINE doc == draft.doc
             old == Ordered(it, doc)
  <1>1. doc \in Docs BY DEF IInv, Types, TypeDraft
  <1>2. ASSUME NEW c \in Children
        PROVE  /\ old[c] \in [order : Nat, text : Texts] /\ old[c].text = doc[c].text
               /\ old[c].order > 0 <=> doc[c].order > 0
    <2>1. it[c] \in ItemRecs /\ SoundItem(it[c]) BY DEF Items, Itemized
    <2>2. old[c] = IF it[c].req # "none" /\ ~it[c].removed /\ doc[c].order > 0
                   THEN [doc[c] EXCEPT !.order = it[c].order] ELSE doc[c]
      BY DEF Ordered
    <2>3. doc[c] \in [order : Nat, text : Texts] BY <1>1 DEF Docs
    <2>4. CASE it[c].req # "none" /\ ~it[c].removed /\ doc[c].order > 0
      <3>1. old[c] = [doc[c] EXCEPT !.order = it[c].order] BY <2>2, <2>4
      <3>2. it[c].order > 0 /\ it[c].order \in Nat BY <2>1, <2>4 DEF SoundItem, Live, ItemRecs
      <3> QED BY <2>3, <2>4, <3>1, <3>2
    <2>5. CASE ~(it[c].req # "none" /\ ~it[c].removed /\ doc[c].order > 0)
      BY <2>2, <2>3, <2>5
    <2> QED BY <2>4, <2>5
  <1>3. old \in Docs BY <1>2 DEF Docs, Ordered
  <1>4. In(old) = In(doc) BY <1>2 DEF In
  <1> QED BY <1>2, <1>3, <1>4

----------------------------------------------------------------------------
(* Edits of the queue.                                                      *)

\* rows that name the same authorization, draft and review say the same of items
LEMMA ItemsStand ==
  ASSUME NEW it, Items(it), item' = it, UNCHANGED <<draft, review, auths>>, Deps' = Deps,
         queue'.state = queue.state
  PROVE  Items(item)'
  BY DEF Items, Itemized, InForce, Renewed, Builton, SoundItem, Made, In

LEMMA QueueEdited ==
  ASSUME TypeQueue, NEW name, NEW auth \in Nat, QueueEdit(name, auth)
  PROVE  /\ queue.state = "waiting_scheduler" /\ queue'.state = "waiting_scheduler"
         /\ queue'.ver = queue.ver + 1 /\ queue'.auth = auth /\ queue.ver \in Nat
         /\ queue' \in QueueRecs
  <1>1. queue' = [queue EXCEPT !.ver = queue.ver + 1, !.auth = auth] /\ queue.state = "waiting_scheduler"
    BY DEF QueueEdit
  <1>2. queue.ver \in Nat /\ queue.ver + 1 \in Nat /\ queue \in QueueRecs BY DEF TypeQueue, QueueRecs
  <1> QED BY <1>1, <1>2 DEF QueueRecs

LEMMA SetOrderKeeps ==
  ASSUME NEW it, Items(it), NEW doc \in Docs, Deps \in [Children -> SUBSET Children]
  PROVE  /\ Items(SetOrder(it, doc)) /\ (Made(it) <=> Made(SetOrder(it, doc)))
         /\ \A c \in Children : LET j == SetOrder(it, doc)[c] IN
               /\ j.req = it[c].req /\ j.text = it[c].text /\ j.auth = it[c].auth
               /\ j.removed = it[c].removed /\ j.begun = it[c].begun
  <1> DEFINE jt == SetOrder(it, doc)
  <1>1. ASSUME NEW c \in Children
        PROVE  /\ jt[c] \in ItemRecs
               /\ jt[c].req = it[c].req /\ jt[c].text = it[c].text /\ jt[c].auth = it[c].auth
               /\ jt[c].removed = it[c].removed /\ jt[c].draft = it[c].draft
               /\ jt[c].review = it[c].review /\ jt[c].begun = it[c].begun
               /\ jt[c].input = it[c].input /\ jt[c].done = it[c].done
               /\ Live(it[c]) => jt[c].order > 0
               /\ jt[c].frozen = it[c].frozen
    <2>1. jt[c] = IF doc[c].order > 0 THEN [it[c] EXCEPT !.order = doc[c].order] ELSE it[c]
      BY DEF SetOrder
    <2>2. it[c] \in ItemRecs /\ SoundItem(it[c]) BY DEF Items, Itemized
    <2>3. doc[c].order \in Nat BY DEF Docs
    <2>4. Live(it[c]) => it[c].order > 0 BY <2>2 DEF SoundItem
    <2>5. CASE doc[c].order > 0
      <3>1. jt[c] = [it[c] EXCEPT !.order = doc[c].order] BY <2>1, <2>5
      <3> HIDE DEF jt
      <3> QED BY <2>2, <2>3, <2>5, <3>1 DEF ItemRecs
    <2>6. CASE ~(doc[c].order > 0)
      <3>1. jt[c] = it[c] BY <2>1, <2>6
      <3> QED BY <2>2, <2>4, <3>1
    <2> QED BY <2>5, <2>6
  <1>2. jt \in [Children -> ItemRecs] BY <1>1 DEF SetOrder
  <1> HIDE DEF jt
  <1>3. Items(jt) /\ (Made(it) <=> Made(jt)) BY <1>1, <1>2, Relabelled
  <1> QED BY <1>1, <1>3 DEF jt

LEMMA FrozenKeeps ==
  ASSUME NEW it, Items(it), NEW C \in SUBSET Children, Unstarted(it, C),
         Deps \in [Children -> SUBSET Children]
  PROVE  /\ Items(Frozen(it, C)) /\ (Made(it) <=> Made(Frozen(it, C)))
         /\ \A c \in Children : LET j == Frozen(it, C)[c] IN
               /\ j.req = it[c].req /\ j.text = it[c].text /\ j.auth = it[c].auth
               /\ j.removed = it[c].removed /\ j.begun = it[c].begun
         /\ \A c \in C : Frozen(it, C)[c].req = "none" \/ Frozen(it, C)[c].frozen
  <1> DEFINE jt == Frozen(it, C)
  <1>1. ASSUME NEW c \in Children
        PROVE  /\ jt[c] \in ItemRecs
               /\ jt[c].req = it[c].req /\ jt[c].text = it[c].text /\ jt[c].auth = it[c].auth
               /\ jt[c].removed = it[c].removed /\ jt[c].draft = it[c].draft
               /\ jt[c].review = it[c].review /\ jt[c].begun = it[c].begun
               /\ jt[c].input = it[c].input /\ jt[c].done = it[c].done
               /\ Live(it[c]) => jt[c].order > 0
               /\ jt[c].frozen => it[c].frozen \/ c \in C
               /\ c \in C => jt[c].req = "none" \/ jt[c].frozen
    <2>1. jt[c] = IF it[c].req = "none" THEN it[c] ELSE [it[c] EXCEPT !.frozen = c \in C]
      BY DEF Frozen
    <2>2. it[c] \in ItemRecs /\ SoundItem(it[c]) BY DEF Items, Itemized
    <2>3. Live(it[c]) => it[c].order > 0 BY <2>2 DEF SoundItem
    <2>4. CASE it[c].req = "none"
      <3>1. jt[c] = it[c] BY <2>1, <2>4
      <3> QED BY <2>2, <2>3, <2>4, <3>1
    <2>5. CASE it[c].req # "none"
      <3>1. PICK b \in BOOLEAN : (b <=> c \in C) /\ jt[c] = [it[c] EXCEPT !.frozen = b]
        <4>1. CASE c \in C
          <5>1. jt[c] = [it[c] EXCEPT !.frozen = TRUE] BY <2>1, <2>5, <4>1
          <5> QED BY <4>1, <5>1
        <4>2. CASE c \notin C
          <5>0. (c \in C) = FALSE BY <4>2
          <5>1. jt[c] = [it[c] EXCEPT !.frozen = FALSE] BY <2>1, <2>5, <5>0, Zenon
          <5> QED BY <4>2, <5>1
        <4> QED BY <4>1, <4>2
      <3> HIDE DEF jt
      <3>2. /\ jt[c] \in ItemRecs /\ jt[c].order = it[c].order /\ jt[c].frozen = b
            /\ jt[c].req = it[c].req /\ jt[c].text = it[c].text /\ jt[c].auth = it[c].auth
            /\ jt[c].removed = it[c].removed /\ jt[c].draft = it[c].draft
            /\ jt[c].review = it[c].review /\ jt[c].begun = it[c].begun
            /\ jt[c].input = it[c].input /\ jt[c].done = it[c].done
        BY <2>2, <3>1 DEF ItemRecs
      <3> QED BY <2>3, <3>1, <3>2
    <2> QED BY <2>4, <2>5
  <1>2. jt \in [Children -> ItemRecs] BY <1>1 DEF Frozen
  <1>3. \A c \in C : ~it[c].begun /\ it[c].req \in {"none", "Ready"} BY DEF Unstarted
  <1> HIDE DEF jt
  <1>4. \A c \in Children : jt[c].frozen => it[c].frozen \/ (~it[c].begun /\ it[c].req \in {"none", "Ready"})
    BY <1>1, <1>3
  <1>5. Items(jt) /\ (Made(it) <=> Made(jt)) BY <1>1, <1>2, <1>4, Relabelled
  <1> QED BY <1>1, <1>5 DEF jt

\* an edit that leaves draft, review and authorizations alone
LEMMA EditKeeps ==
  ASSUME IInv, Next, UNCHANGED <<draft, review, auths, owner, policy, seen>>,
         queue'.state = queue.state, queue'.auth = queue.auth, queue' \in QueueRecs,
         queue'.ver >= queue.ver, queue.ver > 0 \/ queue'.ver > 0,
         Items(item'), owner # None => item'[owner].req = item[owner].req
  PROVE  /\ TypeDraft' /\ TypeReview' /\ TypeQueue' /\ TypeAuths' /\ TypeSeen' /\ TypeLeft'
         /\ Bound' /\ Items(item)' /\ Owned' /\ AuthorizedIsSeen' /\ AuthorizedOnce'
  <1> USE DEF IInv, Types
  <1>0. TypeLeft' /\ Deps' = Deps /\ Repo' = Repo BY CaseStands
  <1>1. TypeDraft' /\ TypeReview' /\ TypeQueue' /\ TypeAuths' /\ TypeSeen'
    BY DEF TypeDraft, TypeReview, TypeQueue, TypeAuths, TypeSeen, In
  <1>2. Bound'
    <2>1. ValidOrder(draft.doc)' <=> ValidOrder(draft.doc) BY <1>0 DEF ValidOrder, In
    <2>2. queue.ver \in Nat /\ queue'.ver \in Nat BY DEF TypeQueue, QueueRecs
    <2>3. queue'.ver # 0 BY <2>2
    <2> QED BY <2>1, <2>3 DEF Bound
  <1>3. Items(item)' BY <1>0, ItemsStand
  <1>4. Owned' BY DEF Owned
  <1>5. AuthorizedIsSeen' /\ AuthorizedOnce' BY DEF AuthorizedIsSeen, AuthorizedOnce
  <1> QED BY <1>0, <1>1, <1>2, <1>3, <1>4, <1>5

\* until something is projected no child has the slot
LEMMA OwnerProjected ==
  ASSUME IInv, queue.state = "waiting_scheduler", owner # None
  PROVE  Projected = item
  BY ProjectedItems, Unprojected

LEMMA MaterializeInv == ASSUME IInv, Materialize PROVE IInv'
  <1> USE DEF IInv, Types
  <1>1. /\ queue.state = "waiting_scheduler" /\ ~Materialized /\ item' = Projected
        /\ UNCHANGED <<draft, review, queue, auths, edit, owner, policy, seen>>
    BY DEF Materialize, Worker, rows
  <1>2. Items(item') /\ edit.ver = 0 /\ edit.affected = {} BY <1>1, ProjectedItems, Unprojected
  <1>3. queue.ver > 0 BY <1>1 DEF Bound, TypeQueue, QueueRecs
  <1>4. owner # None => item'[owner].req = item[owner].req BY <1>1, OwnerProjected
  <1>5. queue'.state = queue.state /\ queue'.auth = queue.auth /\ queue' \in QueueRecs /\ queue'.ver >= queue.ver
    BY <1>1 DEF TypeQueue, QueueRecs
  <1>6. /\ TypeDraft' /\ TypeReview' /\ TypeQueue' /\ TypeAuths' /\ TypeSeen' /\ TypeLeft'
        /\ Bound' /\ Items(item)' /\ Owned' /\ AuthorizedIsSeen' /\ AuthorizedOnce'
    BY <1>1, <1>2, <1>3, <1>4, <1>5, EditKeeps DEF Next
  <1>7. TypeEdit' /\ Screens' /\ Pending' /\ Held'
    BY <1>1, <1>2 DEF TypeEdit, Screens, Pending, Held
  <1> QED BY <1>6, <1>7

LEMMA ReorderInv == ASSUME IInv, Reorder PROVE IInv'
  <1> USE DEF IInv, Types
  <1> DEFINE it == Projected
             old == Ordered(it, draft.doc)
  <1>1. PICK p \in Permutations(In(old)) :
          LET doc == [c \in Children |-> IF c \in In(old) THEN [old[c] EXCEPT !.order = p[c]] ELSE old[c]] IN
          /\ QueueEdit("reorder", queue.auth) /\ edit.ver = 0
          /\ item' = SetOrder(it, doc)
          /\ UNCHANGED <<draft, review, auths, edit, owner, policy, seen>>
    BY DEF Reorder
  <1> DEFINE doc == [c \in Children |-> IF c \in In(old) THEN [old[c] EXCEPT !.order = p[c]] ELSE old[c]]
  <1>2. /\ queue.state = "waiting_scheduler" /\ queue'.state = "waiting_scheduler"
        /\ queue'.ver = queue.ver + 1 /\ queue'.auth = queue.auth /\ queue.ver \in Nat
        /\ queue' \in QueueRecs
    BY <1>1, QueueEdited DEF TypeQueue, QueueRecs
  <1>3. Items(it) BY <1>2, ProjectedItems
  <1>4. old \in Docs /\ In(old) \in SUBSET Children BY <1>3, OrderedDoc DEF In
  <1>5. doc \in Docs
    <2>1. Cardinality(In(old)) \in Nat
      BY <1>4, FS_Subset, FS_CardinalityType, GroupAssumption DEF GroupAssumption
    <2>2. \A c \in In(old) : p[c] \in Nat BY <2>1 DEF Permutations
    <2>3. ASSUME NEW c \in Children PROVE doc[c] \in [order : Nat, text : Texts]
      <3>1. old[c] \in [order : Nat, text : Texts] BY <1>4 DEF Docs
      <3> HIDE DEF old
      <3> QED BY <2>2, <3>1
    <2> HIDE DEF old
    <2> QED BY <2>3 DEF Docs
  <1>6. item' = SetOrder(it, doc) BY <1>1
  <1> HIDE DEF doc, it, old
  <1>7. Items(item') /\ \A c \in Children : item'[c].req = it[c].req
    BY <1>3, <1>5, <1>6, SetOrderKeeps, DepsTyped
  <1>8. owner # None => item'[owner].req = item[owner].req
    BY <1>2, <1>7, OwnerProjected DEF it, Owned
  <1>9. /\ TypeDraft' /\ TypeReview' /\ TypeQueue' /\ TypeAuths' /\ TypeSeen' /\ TypeLeft'
        /\ Bound' /\ Items(item)' /\ Owned' /\ AuthorizedIsSeen' /\ AuthorizedOnce'
    BY <1>1, <1>2, <1>7, <1>8, EditKeeps DEF Next
  <1>10. edit.affected = {} BY <1>1 DEF Pending
  <1>11. TypeEdit' /\ Screens' /\ Pending' /\ Held'
    BY <1>1, <1>2, <1>10 DEF TypeEdit, Screens, Pending, Held, TypeSeen
  <1> QED BY <1>9, <1>11

LEMMA ProposeInv == ASSUME IInv, Propose PROVE IInv'
  <1> USE DEF IInv, Types
  <1> DEFINE it == Projected
             old == Ordered(it, draft.doc)
  <1>1. PICK doc \in left.docs :
          /\ QueueEdit("propose", queue.auth)
          /\ In(doc) # {} /\ ValidOrder(doc)
          /\ Unstarted(it, Affected(old, doc) \cup Moved(old, doc))
          /\ edit' = [ver |-> queue'.ver, doc |-> doc, policy |-> policy, parent |-> draft.ver + 1,
                      affected |-> Affected(old, doc)]
          /\ item' = Frozen(it, Affected(old, doc))
          /\ UNCHANGED <<draft, review, auths, owner, policy, seen>>
    BY DEF Propose
  <1> DEFINE A == Affected(old, doc)
  <1>2. /\ queue.state = "waiting_scheduler" /\ queue'.state = "waiting_scheduler"
        /\ queue'.ver = queue.ver + 1 /\ queue'.auth = queue.auth /\ queue.ver \in Nat
        /\ queue' \in QueueRecs
    BY <1>1, QueueEdited DEF TypeQueue, QueueRecs
  <1>3. Items(it) /\ Made(it) BY <1>2, ProjectedItems
  <1>4. doc \in Docs BY DEF TypeLeft, CaseRecs
  <1>5. In(old) = In(draft.doc) /\ \A c \in Children : old[c].text = draft.doc[c].text
    BY <1>3, OrderedDoc
  <1> HIDE DEF it, old
  <1>6. /\ Changed(draft.doc, doc) \subseteq A
        /\ A \subseteq In(draft.doc) \cup In(doc) /\ A \subseteq Children
        /\ \A c \in In(doc) : Builds(doc, c, A) => c \in A
    <2>1. Changed(old, doc) = Changed(draft.doc, doc) BY <1>5 DEF Changed, In
    <2> QED BY <1>5, <2>1, AffectedCloses DEF In
  <1>7. edit' = [ver |-> queue.ver + 1, doc |-> doc, policy |-> policy, parent |-> draft.ver + 1, affected |-> A]
        /\ item' = Frozen(it, A) /\ Unstarted(it, A)
    BY <1>1, <1>2 DEF Unstarted
  <1> HIDE DEF A
  <1>8. /\ Items(item') /\ Made(item')
        /\ \A c \in Children : item'[c].req = it[c].req
        /\ \A c \in A : item'[c].req = "none" \/ item'[c].frozen
    BY <1>3, <1>6, <1>7, FrozenKeeps, DepsTyped
  <1>9. owner # None => item'[owner].req = item[owner].req
    BY <1>2, <1>8, OwnerProjected DEF it, Owned
  <1>10. /\ TypeDraft' /\ TypeReview' /\ TypeQueue' /\ TypeAuths' /\ TypeSeen' /\ TypeLeft'
         /\ Bound' /\ Items(item)' /\ Owned' /\ AuthorizedIsSeen' /\ AuthorizedOnce'
    BY <1>1, <1>2, <1>8, <1>9, EditKeeps DEF Next
  <1>11. /\ edit'.ver = queue.ver + 1 /\ edit'.doc = doc /\ edit'.parent = draft.ver + 1 /\ edit'.affected = A
         /\ edit' \in [ver : Nat, doc : Docs \cup {<<>>}, policy : Nat, parent : Nat, affected : SUBSET Children]
    BY <1>2, <1>4, <1>6, <1>7 DEF TypeDraft
  <1>12. Screens'
    BY <1>1, <1>2, <1>11 DEF Screens, TypeSeen
  <1>13. Pending'
    <2>1. Materialized' BY <1>8 DEF Made, Materialized
    <2>2. Deps' = Deps /\ Repo' = Repo BY CaseStands DEF Next
    <2>3. ValidOrder(doc)' BY <1>1, <2>2 DEF ValidOrder, In
    <2>4. edit'.doc \in Docs /\ In(edit'.doc) # {} /\ edit'.ver # 0 /\ edit'.parent = draft'.ver + 1
      BY <1>1, <1>2, <1>4, <1>11 DEF In
    <2>5. Changed(draft.doc, edit.doc)' \subseteq edit'.affected
      <3>1. Changed(draft.doc, edit.doc)' = Changed(draft.doc, doc) BY <1>1, <1>11 DEF Changed, In
      <3> QED BY <1>6, <1>11, <3>1
    <2>6. edit'.affected \subseteq In(draft'.doc) \cup In(edit'.doc) BY <1>1, <1>6, <1>11
    <2>7. ASSUME NEW c \in In(edit'.doc), Builds(edit.doc, c, edit.affected)' PROVE c \in edit'.affected
      <3>1. Builds(doc, c, A) BY <1>11, <2>2, <2>7 DEF Builds, In
      <3> QED BY <1>6, <1>11, <2>7, <3>1
    <2>8. ValidOrder(edit.doc)' BY <1>11, <2>2, <2>3 DEF ValidOrder, In
    <2> QED BY <2>1, <2>4, <2>5, <2>6, <2>7, <2>8 DEF Pending, In
  <1>14. Held' BY <1>8, <1>11 DEF Held
  <1> QED BY <1>10, <1>11, <1>12, <1>13, <1>14 DEF TypeEdit

----------------------------------------------------------------------------
(* The approval of a difference.                                            *)

LEMMA RemovedRow ==
  ASSUME NEW i \in ItemRecs PROVE [i EXCEPT !.removed = TRUE, !.frozen = TRUE] \in ItemRecs
  BY DEF ItemRecs

LEMMA ReorderedRow ==
  ASSUME NEW s \in [Children -> ItemRecs], NEW doc \in Docs, NEW c \in Children
  PROVE  LET t == SetOrder(s, doc)[c] IN
         /\ t \in ItemRecs
         /\ t.req = s[c].req /\ t.text = s[c].text /\ t.auth = s[c].auth /\ t.frozen = s[c].frozen
         /\ t.removed = s[c].removed /\ t.draft = s[c].draft /\ t.review = s[c].review
         /\ t.begun = s[c].begun /\ t.input = s[c].input /\ t.done = s[c].done
         /\ t.order = IF doc[c].order > 0 THEN doc[c].order ELSE s[c].order
  <1> DEFINE t == SetOrder(s, doc)[c]
  <1>1. t = IF doc[c].order > 0 THEN [s[c] EXCEPT !.order = doc[c].order] ELSE s[c] BY DEF SetOrder
  <1>2. doc[c].order \in Nat /\ s[c] \in ItemRecs BY DEF Docs
  <1>3. CASE doc[c].order > 0
    <2>1. t = [s[c] EXCEPT !.order = doc[c].order] BY <1>1, <1>3
    <2> HIDE DEF t
    <2> QED BY <1>2, <1>3, <2>1 DEF t, ItemRecs
  <1>4. CASE ~(doc[c].order > 0)
    <2>1. t = s[c] BY <1>1, <1>4
    <2> QED BY <1>2, <1>4, <2>1
  <1> QED BY <1>3, <1>4

LEMMA RenewedRow ==
  ASSUME NEW s \in [Children -> ItemRecs], NEW v \in Nat, NEW r \in Nat, NEW c \in Children
  PROVE  LET t == Reauthorize(s, v, r)[c] IN
         /\ t \in ItemRecs
         /\ t.req = s[c].req /\ t.text = s[c].text /\ t.auth = s[c].auth /\ t.frozen = s[c].frozen
         /\ t.removed = s[c].removed /\ t.begun = s[c].begun /\ t.input = s[c].input /\ t.done = s[c].done
         /\ t.order = s[c].order
         /\ s[c].req # "none" => t.draft = v /\ t.review = r
  <1> DEFINE t == Reauthorize(s, v, r)[c]
  <1>1. t = IF s[c].req = "none" THEN s[c] ELSE [s[c] EXCEPT !.draft = v, !.review = r] BY DEF Reauthorize
  <1>2. s[c] \in ItemRecs OBVIOUS
  <1>3. CASE s[c].req = "none"
    <2>1. t = s[c] BY <1>1, <1>3
    <2> QED BY <1>2, <1>3, <2>1
  <1>4. CASE s[c].req # "none"
    <2>1. t = [s[c] EXCEPT !.draft = v, !.review = r] BY <1>1, <1>4
    <2> HIDE DEF t
    <2> QED BY <1>2, <2>1 DEF t, ItemRecs
  <1> QED BY <1>3, <1>4

\* what an approval makes of each item: those the difference does not reach are as they
\* were, but for their order and the revisions they are authorized under
LEMMA ApprovedItems ==
  ASSUME IInv, Approve
  PROVE  /\ item' \in [Children -> ItemRecs]
         /\ \A c \in Children : LET i == item[c]  j == item'[c] IN
               /\ i.req # "none" => j.draft = edit.parent /\ j.review = review.ver + 1
               /\ j.begun = i.begun /\ j.input = i.input /\ j.done = i.done
               /\ j.order = IF edit.doc[c].order > 0 THEN edit.doc[c].order ELSE i.order
               /\ c \notin edit.affected =>
                     /\ j.req = i.req /\ j.text = i.text /\ j.auth = i.auth
                     /\ j.frozen = i.frozen /\ j.removed = i.removed
               /\ c \in edit.affected \ In(edit.doc) =>
                     j.req = i.req /\ j.auth = i.auth /\ j.frozen /\ j.removed
               /\ c \in edit.affected \cap In(edit.doc) =>
                     /\ j.req = "Ready" /\ j.text = edit.doc[c].text /\ j.auth = Len(auths) + 1
                     /\ ~j.frozen /\ ~j.removed
                     /\ j.draft = edit.parent /\ j.review = review.ver + 1
  <1> USE DEF IInv, Types
  <1>2. edit.doc \in Docs /\ edit.parent \in Nat /\ review.ver + 1 \in Nat /\ Len(auths) + 1 \in Nat
    <2>1. edit.ver > 0 /\ edit.ver \in Nat BY DEF Approve, TypeEdit
    <2>2. edit.doc \in Docs BY <2>1 DEF Pending
    <2>3. edit.parent \in Nat BY DEF TypeEdit
    <2>4. review.ver + 1 \in Nat BY DEF TypeReview
    <2>5. Len(auths) + 1 \in Nat BY DEF TypeAuths
    <2> QED BY <2>2, <2>3, <2>4, <2>5
  <1> DEFINE a == Len(auths) + 1
             s == [c \in Children |->
                     IF c \notin edit.affected THEN item[c]
                     ELSE IF c \notin In(edit.doc) THEN [item[c] EXCEPT !.removed = TRUE, !.frozen = TRUE]
                     ELSE [item[c] EXCEPT !.req = "Ready", !.text = edit.doc[c].text, !.auth = a,
                                          !.frozen = FALSE, !.removed = FALSE]]
             t == SetOrder(s, edit.doc)
  <1>1. item' = Reauthorize(t, edit.parent, review.ver + 1) BY DEF Approve, Applied
  <1>3. \A c \in Children : item[c] \in ItemRecs BY DEF Items, Itemized
  <1> HIDE DEF IInv, Types
  <1>4. ASSUME NEW c \in Children
        PROVE  /\ s[c] \in ItemRecs
               /\ s[c].begun = item[c].begun /\ s[c].input = item[c].input /\ s[c].done = item[c].done
               /\ s[c].order = item[c].order
               /\ c \notin edit.affected => s[c] = item[c]
               /\ c \in edit.affected \ In(edit.doc) =>
                     /\ s[c].req = item[c].req /\ s[c].auth = item[c].auth
                     /\ s[c].frozen = TRUE /\ s[c].removed = TRUE
               /\ c \in edit.affected \cap In(edit.doc) =>
                     /\ s[c].req = "Ready" /\ s[c].text = edit.doc[c].text /\ s[c].auth = a
                     /\ s[c].frozen = FALSE /\ s[c].removed = FALSE
    <2>1. CASE c \notin edit.affected
      <3>1. s[c] = item[c] BY <2>1
      <3> HIDE DEF s
      <3> QED BY <1>3, <2>1, <3>1
    <2>2. CASE c \in edit.affected \ In(edit.doc)
      <3>1. s[c] = [item[c] EXCEPT !.removed = TRUE, !.frozen = TRUE] BY <2>2
      <3>2. item[c] \in ItemRecs BY <1>3
      <3> HIDE DEF s
      <3>3. s[c] \in ItemRecs BY <3>1, <3>2, RemovedRow
      <3> QED BY <2>2, <3>1, <3>2, <3>3 DEF ItemRecs
    <2>3. CASE c \in edit.affected \cap In(edit.doc)
      <3>1. s[c] = [item[c] EXCEPT !.req = "Ready", !.text = edit.doc[c].text, !.auth = a,
                                   !.frozen = FALSE, !.removed = FALSE]
        BY <2>3
      <3>2. item[c] \in ItemRecs /\ edit.doc[c].text \in Texts BY <1>2, <1>3 DEF Docs
      <3>3. a \in Nat BY <1>2
      <3> HIDE DEF s, a
      <3>4. s[c] \in ItemRecs BY <3>1, <3>2, <3>3 DEF ItemRecs, States
      <3> QED BY <2>3, <3>1, <3>2, <3>4 DEF ItemRecs
    <2> QED BY <2>1, <2>2, <2>3
  <1>5. s \in [Children -> ItemRecs] BY <1>4
  <1> HIDE DEF s, a
  <1>6. t \in [Children -> ItemRecs] BY <1>2, <1>5, ReorderedRow DEF SetOrder
  <1> HIDE DEF t
  <1>7. item' \in [Children -> ItemRecs] BY <1>1, <1>2, <1>6, RenewedRow, ZenonT(60) DEF Reauthorize
  <1>8. ASSUME NEW c \in Children
        PROVE  /\ item'[c].req = s[c].req /\ item'[c].text = s[c].text /\ item'[c].auth = s[c].auth
               /\ item'[c].frozen = s[c].frozen /\ item'[c].removed = s[c].removed
               /\ item'[c].begun = s[c].begun /\ item'[c].input = s[c].input /\ item'[c].done = s[c].done
               /\ item'[c].order = IF edit.doc[c].order > 0 THEN edit.doc[c].order ELSE s[c].order
               /\ s[c].req # "none" => item'[c].draft = edit.parent /\ item'[c].review = review.ver + 1
    <2>1. LET j == item'[c] IN
          /\ j.req = t[c].req /\ j.text = t[c].text /\ j.auth = t[c].auth /\ j.frozen = t[c].frozen
          /\ j.removed = t[c].removed /\ j.begun = t[c].begun /\ j.input = t[c].input /\ j.done = t[c].done
          /\ j.order = t[c].order
          /\ t[c].req # "none" => j.draft = edit.parent /\ j.review = review.ver + 1
      BY <1>1, <1>2, <1>6, RenewedRow
    <2>2. /\ t[c].req = s[c].req /\ t[c].text = s[c].text /\ t[c].auth = s[c].auth
          /\ t[c].frozen = s[c].frozen /\ t[c].removed = s[c].removed
          /\ t[c].begun = s[c].begun /\ t[c].input = s[c].input /\ t[c].done = s[c].done
          /\ t[c].order = IF edit.doc[c].order > 0 THEN edit.doc[c].order ELSE s[c].order
      BY <1>2, <1>5, ReorderedRow DEF t
    <2> QED BY <2>1, <2>2
  <1> SUFFICES ASSUME NEW c \in Children
      PROVE  LET i == item[c]  j == item'[c] IN
               /\ i.req # "none" => j.draft = edit.parent /\ j.review = review.ver + 1
               /\ j.begun = i.begun /\ j.input = i.input /\ j.done = i.done
               /\ j.order = IF edit.doc[c].order > 0 THEN edit.doc[c].order ELSE i.order
               /\ c \notin edit.affected =>
                     /\ j.req = i.req /\ j.text = i.text /\ j.auth = i.auth
                     /\ j.frozen = i.frozen /\ j.removed = i.removed
               /\ c \in edit.affected \ In(edit.doc) =>
                     j.req = i.req /\ j.auth = i.auth /\ j.frozen /\ j.removed
               /\ c \in edit.affected \cap In(edit.doc) =>
                     /\ j.req = "Ready" /\ j.text = edit.doc[c].text /\ j.auth = a
                     /\ ~j.frozen /\ ~j.removed
                     /\ j.draft = edit.parent /\ j.review = review.ver + 1
    BY <1>7 DEF a
  <1>9. CASE c \notin edit.affected
    <2>1. s[c] = item[c] BY <1>4, <1>9
    <2>2. /\ item'[c].begun = item[c].begun
          /\ item'[c].frozen = item[c].frozen /\ item'[c].removed = item[c].removed
      BY <1>8, <2>1, Zenon
    <2> QED BY <1>8, <1>9, <2>1, <2>2
  <1>10. CASE c \in edit.affected \ In(edit.doc) BY <1>4, <1>8, <1>10, ZenonT(60)
  <1>11. CASE c \in edit.affected \cap In(edit.doc) BY <1>4, <1>8, <1>11, ZenonT(60)
  <1> QED BY <1>9, <1>10, <1>11

LEMMA ApproveItems ==
  ASSUME IInv, Approve, Len(auths') = Len(auths) + 1, Deps' = Deps
  PROVE  Items(item)' /\ (owner # None => item'[owner].req = item[owner].req)
  <1> USE DEF IInv, Types
  <1> DEFINE C == edit.affected
             new == edit.doc
             a == Len(auths) + 1
  <1>1. /\ queue.state = "waiting_scheduler" /\ queue'.state = "waiting_scheduler" /\ edit.ver > 0
        /\ Unstarted(item, C)
        /\ draft' = [ver |-> edit.parent, doc |-> new]
        /\ review' = [ver |-> review.ver + 1, draft |-> edit.parent, policy |-> edit.policy]
    <2>1. Len(auths) + 1 \in Nat BY DEF TypeAuths
    <2> QED BY <2>1, QueueEdited DEF Approve
  <1>2. /\ draft'.ver = edit.parent /\ draft'.doc = new /\ review'.ver = review.ver + 1
    BY <1>1
  <1>3. /\ Materialized /\ new \in Docs
        /\ Changed(draft.doc, new) \subseteq C /\ C \subseteq In(draft.doc) \cup In(new)
        /\ \A c \in In(new) : Builds(new, c, C) => c \in C
        /\ C \subseteq Children
    BY <1>1 DEF Pending, TypeEdit
  <1>4. /\ \A c \in Children : item[c] \in ItemRecs /\ SoundItem(item[c])
        /\ \A c \in In(draft.doc) : Live(item[c])
        /\ \A c \in Children : Live(item[c]) => c \in In(draft.doc) /\ item[c].text = draft.doc[c].text
    BY <1>3 DEF Items, Itemized, InForce, Materialized, Made
  <1>5. \A c \in C : item[c].req \in {"none", "Ready"} /\ ~item[c].begun /\ item[c].done = 0
    BY <1>1 DEF Unstarted
  <1>6. ASSUME NEW c \in Children \ C
        PROVE  /\ c \in In(draft.doc) <=> c \in In(new)
               /\ c \in In(new) => draft.doc[c].text = new[c].text
    BY <1>3 DEF Changed
  <1>7. Len(auths) \in Nat BY DEF TypeAuths
  <1>8. /\ item' \in [Children -> ItemRecs]
        /\ \A c \in Children :
               /\ item[c].req # "none" => item'[c].draft = draft'.ver /\ item'[c].review = review'.ver
               /\ item'[c].begun = item[c].begun /\ item'[c].input = item[c].input /\ item'[c].done = item[c].done
               /\ item'[c].order = IF new[c].order > 0 THEN new[c].order ELSE item[c].order
        /\ \A c \in Children \ C :
               /\ item'[c].req = item[c].req /\ item'[c].text = item[c].text /\ item'[c].auth = item[c].auth
               /\ item'[c].frozen = item[c].frozen /\ item'[c].removed = item[c].removed
        /\ \A c \in C \ In(new) :
               item'[c].req = item[c].req /\ item'[c].auth = item[c].auth /\ item'[c].frozen /\ item'[c].removed
        /\ \A c \in C \cap In(new) :
               /\ item'[c].req = "Ready" /\ item'[c].text = new[c].text /\ item'[c].auth = a
               /\ ~item'[c].frozen /\ ~item'[c].removed
               /\ item'[c].draft = draft'.ver /\ item'[c].review = review'.ver
    BY <1>2, <1>3, ApprovedItems
  <1> HIDE DEF IInv, Types
  <1>9. \A c \in Children : Live(item'[c]) <=> (c \in In(new) /\ (c \in C \/ Live(item[c])))
    <2> SUFFICES ASSUME NEW c \in Children
                 PROVE  Live(item'[c]) <=> (c \in In(new) /\ (c \in C \/ Live(item[c])))
      OBVIOUS
    <2>1. CASE c \in C \cap In(new) BY <1>8, <2>1 DEF Live
    <2>2. CASE c \in C \ In(new) BY <1>8, <2>2 DEF Live
    <2>3. CASE c \notin C
      <3>1. Live(item'[c]) <=> Live(item[c]) BY <1>8, <2>3 DEF Live
      <3> QED BY <1>4, <1>6, <2>3, <3>1
    <2> QED BY <2>1, <2>2, <2>3
  <1>10. ASSUME NEW c \in Children PROVE SoundItem(item[c])'
    <2>1. SoundItem(item[c]) BY <1>4
    <2>2. Live(item'[c]) => item'[c].order > 0
      BY <1>8, <1>9 DEF In
    <2>3. CASE c \in C \cap In(new)
      BY <1>5, <1>7, <1>8, <2>2, <2>3 DEF SoundItem
    <2>4. CASE c \in C \ In(new)
      <3>1. c \in In(draft.doc) BY <1>3, <2>4
      <3>2. item[c].req # "none" BY <1>4, <3>1 DEF Live
      <3>3. /\ item'[c].auth \in 0..Len(auths') /\ item'[c].done \in {0, item'[c].auth}
            /\ item'[c].req # "none" => item'[c].auth > 0 /\ item'[c].draft = draft'.ver /\ item'[c].review = review'.ver
        BY <1>5, <1>7, <1>8, <2>1, <2>4, <3>2 DEF SoundItem
      <3>4. ~item'[c].begun /\ item'[c].req \in {"none", "Ready", "Cancelled", "Cleaned"}
        <4>1. item[c].req \in {"none", "Ready"} /\ ~item[c].begun BY <1>5, <2>4
        <4>2. item'[c].req = item[c].req /\ item'[c].begun = item[c].begun BY <1>8, <2>4
        <4> QED BY <4>1, <4>2
      <3> QED BY <2>2, <3>3, <3>4 DEF SoundItem
    <2>5. CASE c \notin C
      <3>1. /\ item'[c].auth \in 0..Len(auths') /\ item'[c].done \in {0, item'[c].auth}
            /\ item'[c].req # "none" => item'[c].auth > 0 /\ item'[c].draft = draft'.ver /\ item'[c].review = review'.ver
        BY <1>7, <1>8, <2>1, <2>5 DEF SoundItem
      <3>2. /\ item'[c].req = item[c].req /\ item'[c].begun = item[c].begun
            /\ item'[c].frozen = item[c].frozen /\ item'[c].removed = item[c].removed
        BY <1>8, <2>5
      <3>3. /\ item'[c].begun => item'[c].req # "none"
            /\ item'[c].frozen \/ item'[c].removed =>
                  ~item'[c].begun /\ item'[c].req \in {"none", "Ready", "Cancelled", "Cleaned"}
        BY <2>1, <3>2, Zenon DEF SoundItem
      <3> QED BY <2>2, <3>1, <3>3 DEF SoundItem
    <2> QED BY <2>3, <2>4, <2>5
  <1>11. InForce(item)'
    <2>1. \A c \in In(new) : Live(item'[c])
      <3> SUFFICES ASSUME NEW c \in In(new) PROVE Live(item'[c]) OBVIOUS
      <3>1. c \in Children BY DEF In
      <3> QED BY <1>4, <1>6, <1>9, <3>1
    <2>2. ASSUME NEW c \in Children, Live(item'[c]) PROVE c \in In(new) /\ item'[c].text = new[c].text
      <3>1. c \in In(new) /\ (c \in C \/ Live(item[c])) BY <1>9, <2>2
      <3>2. CASE c \in C BY <1>8, <3>1, <3>2
      <3>3. CASE c \notin C
        <4>1. item[c].text = draft.doc[c].text /\ draft.doc[c].text = new[c].text
          BY <1>4, <1>6, <3>1, <3>3
        <4> QED BY <1>8, <3>1, <3>3, <4>1
      <3> QED BY <3>2, <3>3
    <2> QED BY <1>1, <1>2, <2>1, <2>2 DEF InForce, In
  <1>12. Deps \in [Children -> SUBSET Children] BY DepsTyped DEF IInv, Types
  <1>13. Renewed(item)'
    <2> SUFFICES ASSUME NEW c \in Children, NEW d \in Deps[c], Live(item'[c])
                 PROVE  item'[d].auth <= item'[c].auth
      BY DEF Renewed
    <2>1. d \in Children BY <1>12
    <2>2. c \in In(new) /\ (c \in C \/ Live(item[c])) BY <1>9
    <2>3. CASE c \in C
      <3>1. item'[c].auth = a BY <1>8, <2>2, <2>3
      <3>2. SoundItem(item[d])' BY <1>10, <2>1
      <3> QED BY <1>7, <3>1, <3>2 DEF SoundItem
    <2>4. CASE c \notin C
      <3>1. d \notin C BY <1>3, <2>2, <2>4 DEF Builds
      <3>2. item[d].auth <= item[c].auth BY <2>2, <2>4 DEF IInv, Items, Renewed
      <3> QED BY <1>8, <2>1, <2>4, <3>1, <3>2
    <2> QED BY <2>3, <2>4
  <1>14. Builton(item)'
    <2> SUFFICES ASSUME NEW c \in Children, Begun(item'[c]), ~Out(item'[c]), NEW p \in item'[c].input
                 PROVE  p[2] > 0 /\ (item'[p[1]].done = p[2] \/ Out(item'[p[1]]))
      BY DEF Builton
    <2>1. Live(item'[c]) BY DEF Begun
    <2>2. c \in In(new) /\ (c \in C \/ Live(item[c])) BY <1>9, <2>1
    <2>3. c \notin C
      <3> SUFFICES ASSUME c \in C PROVE FALSE OBVIOUS
      <3>1. item'[c].req = "Ready" BY <1>8, <2>2
      <3>2. item'[c].begun = item[c].begun /\ ~item[c].begun BY <1>5, <1>8
      <3> QED BY <3>1, <3>2 DEF Begun
    <2>4. Begun(item[c]) /\ ~Out(item[c]) /\ p \in item[c].input
      <3>1. Live(item[c]) BY <2>2, <2>3
      <3>2. item'[c].req = item[c].req /\ item'[c].begun = item[c].begun /\ item'[c].input = item[c].input
        BY <1>8, <2>3
      <3> QED BY <3>1, <3>2 DEF Begun, Out
    <2>5. p[1] \in Children /\ p[2] \in Nat BY <1>4, <2>4 DEF ItemRecs
    <2>6. p[2] > 0 /\ (item[p[1]].done = p[2] \/ Out(item[p[1]])) BY <2>4 DEF IInv, Items, Builton
    <2>7. p[1] \notin C BY <1>5, <2>5, <2>6 DEF Out
    <2> QED BY <1>8, <2>5, <2>6, <2>7 DEF Out
  <1>15. owner # None => item'[owner].req = item[owner].req
    <2> SUFFICES ASSUME owner # None PROVE item'[owner].req = item[owner].req OBVIOUS
    <2>1. owner \in Children /\ item[owner].req \notin {"none", "Ready"} BY DEF IInv, Owned
    <2> QED BY <1>5, <1>8, <2>1
  <1>16. Itemized(item)' BY <1>8, <1>10 DEF Itemized
  <1> QED BY <1>11, <1>13, <1>14, <1>15, <1>16 DEF Items

LEMMA ApproveInv == ASSUME IInv, Approve PROVE IInv'
  <1> USE DEF IInv, Types
  <1> DEFINE a == Len(auths) + 1
             new == NewAuth(edit.doc, edit.parent, review.ver + 1, seen.after)
  <1>0. TypeLeft' /\ Deps' = Deps /\ Repo' = Repo BY CaseStands DEF Next
  <1>1. /\ edit.ver > 0 /\ seen.edit = edit.ver /\ ValidOrder(edit.doc)
        /\ draft' = [ver |-> edit.parent, doc |-> edit.doc]
        /\ review' = [ver |-> review.ver + 1, draft |-> edit.parent, policy |-> edit.policy]
        /\ auths' = Append(auths, new) /\ edit' = NoEdit
        /\ UNCHANGED <<owner, policy, seen>>
    BY DEF Approve, Valid
  <1>2. /\ queue'.state = "waiting_scheduler" /\ queue'.ver = queue.ver + 1 /\ queue'.auth = a
        /\ queue.ver \in Nat /\ queue' \in QueueRecs
    <2>1. a \in Nat BY DEF TypeAuths
    <2> QED BY <2>1, QueueEdited DEF Approve
  <1>3. /\ edit.parent = draft.ver + 1 /\ edit.doc \in Docs /\ In(edit.doc) # {}
        /\ draft.ver \in Nat /\ review.ver \in Nat /\ edit.policy \in Nat
    BY <1>1 DEF Pending, TypeDraft, TypeReview, TypeEdit
  <1>4. seen.after = edit.doc BY <1>1 DEF Screens
  <1>5. new \in AuthRecs /\ new.doc = edit.doc /\ new.draft = edit.parent /\ new.review = review.ver + 1
        /\ new.saw = new.doc
    BY <1>3, <1>4 DEF NewAuth, AuthRecs
  <1> HIDE DEF new
  <1>6. /\ auths' \in Seq(AuthRecs) /\ Len(auths') = a /\ Len(auths) \in Nat
        /\ DOMAIN auths = 1..Len(auths) /\ DOMAIN auths' = 1..a
        /\ \A b \in DOMAIN auths : auths'[b] = auths[b]
        /\ auths'[a] = new
    BY <1>1, <1>5, AddedAt DEF TypeAuths
  <1>7. draft'.ver = draft.ver + 1 /\ draft'.doc = edit.doc /\ review'.ver = review.ver + 1 BY <1>1, <1>3
  <1>8. TypeDraft' /\ TypeReview' /\ TypeQueue' /\ TypeAuths'
    <2>1. TypeDraft' BY <1>1, <1>3, <1>7 DEF TypeDraft, In
    <2>2. TypeReview' BY <1>1, <1>3 DEF TypeReview
    <2>3. TypeQueue' BY <1>2, <1>6 DEF TypeQueue
    <2> QED BY <1>6, <2>1, <2>2, <2>3 DEF TypeAuths
  <1>9. TypeEdit' /\ edit'.ver = 0 /\ edit'.affected = {} BY <1>1 DEF NoEdit, TypeEdit
  <1>10. TypeSeen' BY <1>1 DEF TypeSeen
  <1>11. \A b \in DOMAIN auths : auths[b].review \in Nat /\ auths[b].review <= review.ver
    BY AuthsAt DEF AuthRecs, Screens
  <1>12. \A b \in DOMAIN auths' : b \in DOMAIN auths \/ b = a BY <1>6
  <1>13. Screens'
    <2>1. \A b \in DOMAIN auths' : auths'[b].review <= review'.ver
      BY <1>3, <1>5, <1>6, <1>7, <1>11, <1>12
    <2>2. seen.draft \in Nat /\ seen.edit \in Nat /\ seen.draft <= draft.ver /\ seen.edit <= queue.ver
      BY DEF Screens, TypeSeen
    <2>3. /\ seen'.draft <= draft'.ver /\ (seen'.draft = draft'.ver => seen'.doc = draft'.doc)
          /\ seen'.edit <= queue'.ver /\ edit'.ver <= queue'.ver /\ ~(edit'.ver > 0)
      BY <1>1, <1>2, <1>3, <1>7, <1>9, <2>2
    <2> QED BY <2>1, <2>3 DEF Screens
  <1>14. Bound'
    <2>1. ValidOrder(draft.doc)' BY <1>0, <1>1, <1>7 DEF ValidOrder, In
    <2> QED BY <1>2, <1>3, <1>5, <1>6, <1>7, <2>1 DEF Bound
  <1>15. Pending' /\ Held' BY <1>9 DEF Pending, Held
  <1>16. Items(item)' /\ Owned'
    <2>1. Items(item)' /\ (owner # None => item'[owner].req = item[owner].req) BY <1>0, <1>6, ApproveItems
    <2> QED BY <1>1, <2>1 DEF Owned
  <1>17. AuthorizedIsSeen' BY <1>5, <1>6, <1>12 DEF AuthorizedIsSeen
  <1>18. AuthorizedOnce' BY <1>3, <1>5, <1>6, <1>11, <1>12 DEF AuthorizedOnce
  <1> QED BY <1>0, <1>8, <1>9, <1>10, <1>13, <1>14, <1>15, <1>16, <1>17, <1>18
----------------------------------------------------------------------------
(* Steps of one item.                                                       *)

\* a step that moves one item on, and leaves the rows and the other items alone
LEMMA OneItem ==
  ASSUME IInv, Next, UNCHANGED <<draft, review, queue, auths, edit, policy, seen>>, NEW c \in Children,
         item' \in [Children -> ItemRecs], \A d \in Children \ {c} : item'[d] = item[d],
         item'[c].text = item[c].text, item'[c].auth = item[c].auth, item'[c].order = item[c].order,
         item'[c].frozen = item[c].frozen, item'[c].removed = item[c].removed,
         item'[c].draft = item[c].draft, item'[c].review = item[c].review,
         item[c].req # "none", item'[c].req # "none",
         item[c].frozen \/ item[c].removed =>
            item'[c].begun = item[c].begun /\ item'[c].req \in {"none", "Ready", "Cancelled", "Cleaned"},
         item'[c].done \in {item[c].done, item[c].auth},
         Out(item[c]) => Out(item'[c]),
         Begun(item'[c]) /\ ~Out(item'[c]) =>
            \A p \in item'[c].input : p[2] > 0 /\ (item[p[1]].done = p[2] \/ Out(item[p[1]])),
         Owned'
  PROVE  IInv'
  <1> USE DEF IInv, Types
  <1>0. TypeLeft' /\ Deps' = Deps /\ Repo' = Repo BY CaseStands
  <1>1. /\ \A d \in Children : item[d] \in ItemRecs /\ SoundItem(item[d])
        /\ Deps \in [Children -> SUBSET Children]
    BY DepsTyped DEF Items, Itemized
  <1>2. TypeDraft' /\ TypeReview' /\ TypeQueue' /\ TypeAuths' /\ TypeEdit' /\ TypeSeen' /\ Screens'
    BY DEF TypeDraft, TypeReview, TypeQueue, QueueRecs, TypeAuths, TypeEdit, TypeSeen, In, Screens
  <1>3. Bound' BY <1>0 DEF Bound, ValidOrder, In
  <1>4. \A d \in Children : item'[d].req # "none" <=> item[d].req # "none" OBVIOUS
  <1>5. Pending' BY <1>0, <1>4 DEF Pending, Materialized, ValidOrder, Changed, Builds, In
  <1>6. Held'
    <2>1. edit.affected \subseteq Children BY DEF TypeEdit
    <2>2. \A d \in Children : item'[d].frozen = item[d].frozen OBVIOUS
    <2> QED BY <1>4, <2>1, <2>2, Zenon DEF Held
  <1>7. AuthorizedIsSeen' /\ AuthorizedOnce' BY DEF AuthorizedIsSeen, AuthorizedOnce
  <1>8. \A d \in Children : /\ item'[d].auth = item[d].auth /\ item'[d].text = item[d].text
                            /\ Out(item[d]) => Out(item'[d])
                            /\ item'[d].done \in {item[d].done, item[d].auth}
    BY <1>1 DEF ItemRecs
  <1>9. \A d \in Children : Live(item'[d]) <=> Live(item[d])
    <2>1. \A d \in Children : item'[d].removed = item[d].removed OBVIOUS
    <2> QED BY <1>4, <2>1, Zenon DEF Live
  <1> HIDE DEF IInv, Types
  <1>10. ASSUME NEW d \in Children PROVE SoundItem(item[d])'
    <2>1. SoundItem(item[d]) /\ item[d].auth \in Nat /\ item[d].done \in Nat BY <1>1 DEF ItemRecs
    <2>2. /\ item'[d].auth \in 0..Len(auths') /\ item'[d].done \in {0, item'[d].auth}
          /\ item'[d].req # "none" => item'[d].auth > 0 /\ item'[d].draft = draft'.ver /\ item'[d].review = review'.ver
      BY <1>4, <1>8, <2>1 DEF SoundItem
    <2>3. Live(item'[d]) => item'[d].order > 0
      <3>1. item'[d].order = item[d].order OBVIOUS
      <3> QED BY <1>9, <2>1, <3>1 DEF SoundItem
    <2>4. CASE d = c
      <3>1. item'[d].begun => item'[d].req # "none" BY <2>4
      <3>2. item'[d].frozen \/ item'[d].removed =>
              ~item'[d].begun /\ item'[d].req \in {"none", "Ready", "Cancelled", "Cleaned"}
        BY <2>1, <2>4, Zenon DEF SoundItem
      <3> QED BY <2>2, <2>3, <3>1, <3>2 DEF SoundItem
    <2>5. CASE d # c
      <3>1. item'[d] = item[d] BY <2>5
      <3> QED BY <2>1, <3>1 DEF SoundItem
    <2> QED BY <2>4, <2>5
  <1>11. InForce(item)'
    BY <1>4, <1>8, <1>9 DEF IInv, Items, InForce, Made, In
  <1>12. Renewed(item)'
    BY <1>0, <1>1, <1>8, <1>9 DEF IInv, Items, Renewed
  <1>13. Builton(item)'
    <2> SUFFICES ASSUME NEW d \in Children, Begun(item'[d]), ~Out(item'[d]), NEW p \in item'[d].input
                 PROVE  p[2] > 0 /\ (item'[p[1]].done = p[2] \/ Out(item'[p[1]]))
      BY DEF Builton
    <2>1. p[1] \in Children /\ p[2] \in Nat BY DEF ItemRecs
    <2>2. p[2] > 0 /\ (item[p[1]].done = p[2] \/ Out(item[p[1]]))
      <3>1. CASE d = c BY <3>1
      <3>2. CASE d # c
        <4>1. item'[d] = item[d] BY <3>2
        <4> QED BY <4>1 DEF IInv, Items, Builton
      <3> QED BY <3>1, <3>2
    <2>3. SoundItem(item[p[1]]) /\ item[p[1]].auth \in Nat BY <1>1, <2>1 DEF ItemRecs
    <2> QED BY <1>8, <2>1, <2>2, <2>3 DEF SoundItem
  <1>14. Items(item)' BY <1>10, <1>11, <1>12, <1>13 DEF Items, Itemized
  <1> QED BY <1>0, <1>2, <1>3, <1>5, <1>6, <1>7, <1>14 DEF IInv, Types

\* the new row of an item that is moved on
LEMMA MovedOn ==
  ASSUME NEW it \in [Children -> ItemRecs], NEW c \in Children, NEW r \in ItemRecs,
         NEW jt, jt = [it EXCEPT ![c] = r]
  PROVE  /\ jt \in [Children -> ItemRecs] /\ jt[c] = r /\ \A d \in Children \ {c} : jt[d] = it[d]
  OBVIOUS

\* what is known of an item that is there
LEMMA ItemHere ==
  ASSUME IInv, NEW c \in Children
  PROVE  /\ item \in [Children -> ItemRecs] /\ item[c] \in ItemRecs /\ SoundItem(item[c])
         /\ Begun(item[c]) /\ ~Out(item[c]) =>
               \A p \in item[c].input : p[2] > 0 /\ (item[p[1]].done = p[2] \/ Out(item[p[1]]))
  BY DEF IInv, Items, Itemized, Builton

\* an item whose Requirement alone changes
LEMMA ReqMoves ==
  ASSUME IInv, NEW c \in Children, NEW s \in States, item' = [item EXCEPT ![c].req = s]
  PROVE  /\ item' \in [Children -> ItemRecs] /\ \A d \in Children \ {c} : item'[d] = item[d]
         /\ item'[c].req = s
         /\ item'[c].text = item[c].text /\ item'[c].auth = item[c].auth /\ item'[c].order = item[c].order
         /\ item'[c].frozen = item[c].frozen /\ item'[c].removed = item[c].removed
         /\ item'[c].draft = item[c].draft /\ item'[c].review = item[c].review
         /\ item'[c].begun = item[c].begun /\ item'[c].input = item[c].input /\ item'[c].done = item[c].done
  <1>1. item \in [Children -> ItemRecs] /\ item[c] \in ItemRecs BY ItemHere
  <1>2. item'[c] = [item[c] EXCEPT !.req = s] /\ \A d \in Children \ {c} : item'[d] = item[d]
        /\ item' \in [Children -> ItemRecs]
    <2>1. [item[c] EXCEPT !.req = s] \in ItemRecs BY <1>1 DEF ItemRecs
    <2> QED BY <1>1, <2>1
  <1> QED BY <1>1, <1>2 DEF ItemRecs

LEMMA CancelInv == ASSUME IInv, Cancel PROVE IInv'
  <1>1. PICK c \in Children :
          /\ item[c].req \in {"Ready", "Running", "Submitted"} /\ item' = [item EXCEPT ![c].req = "Cancelled"]
          /\ UNCHANGED <<draft, review, queue, auths, edit, owner, policy, seen>>
    BY DEF Cancel, rows
  <1>2. "Cancelled" \in States BY DEF States
  <1>3. Owned' BY <1>1, <1>2, ReqMoves DEF IInv, Owned
  <1>4. Out(item'[c]) BY <1>1, <1>2, ReqMoves DEF Out
  <1>5. item[c].req # "none" /\ item'[c].req # "none" BY <1>1, <1>2, ReqMoves
  <1>6. item[c].frozen \/ item[c].removed =>
          item'[c].begun = item[c].begun /\ item'[c].req \in {"none", "Ready", "Cancelled", "Cleaned"}
    BY <1>1, <1>2, ReqMoves
  <1>7. Next BY DEF Next
  <1>8. item'[c].done \in {item[c].done, item[c].auth} BY <1>1, <1>2, ReqMoves
  <1>9. /\ item' \in [Children -> ItemRecs] /\ \A d \in Children \ {c} : item'[d] = item[d]
        /\ item'[c].text = item[c].text /\ item'[c].auth = item[c].auth /\ item'[c].order = item[c].order
        /\ item'[c].frozen = item[c].frozen /\ item'[c].removed = item[c].removed
        /\ item'[c].draft = item[c].draft /\ item'[c].review = item[c].review
    BY <1>1, <1>2, ReqMoves
  <1> QED BY <1>1, <1>3, <1>4, <1>5, <1>6, <1>7, <1>8, <1>9, OneItem

LEMMA SubmitInv == ASSUME IInv, NEW c \in Children, Submit(c) PROVE IInv'
  <1>1. /\ item[c].req = "Running" /\ item' = [item EXCEPT ![c].req = "Submitted"]
        /\ UNCHANGED <<draft, review, queue, auths, edit, owner, policy, seen>>
    BY DEF Submit, Worker, rows
  <1>2. "Submitted" \in States BY DEF States
  <1>3. Owned' BY <1>1, <1>2, ReqMoves DEF IInv, Owned
  <1>4. ~item[c].frozen /\ ~item[c].removed
    BY <1>1, ItemHere DEF SoundItem
  <1>5. /\ item' \in [Children -> ItemRecs] /\ \A d \in Children \ {c} : item'[d] = item[d]
        /\ item'[c].req = "Submitted" /\ item'[c].input = item[c].input /\ item'[c].done = item[c].done
        /\ item'[c].text = item[c].text /\ item'[c].auth = item[c].auth /\ item'[c].order = item[c].order
        /\ item'[c].frozen = item[c].frozen /\ item'[c].removed = item[c].removed
        /\ item'[c].draft = item[c].draft /\ item'[c].review = item[c].review
    BY <1>1, <1>2, ReqMoves
  <1>6. Begun(item[c]) /\ ~Out(item[c]) BY <1>1, <1>4 DEF Begun, Live, Out
  <1>7. \A p \in item'[c].input : p[2] > 0 /\ (item[p[1]].done = p[2] \/ Out(item[p[1]]))
    BY <1>5, <1>6, ItemHere
  <1>8. Next BY DEF Next
  <1> QED BY <1>1, <1>3, <1>4, <1>5, <1>6, <1>7, <1>8, OneItem

LEMMA CleanupInv == ASSUME IInv, NEW c \in Children, Cleanup(c) PROVE IInv'
  <1>1. /\ item[c].req = "Cancelled" /\ item' = [item EXCEPT ![c].req = "Cleaned"]
        /\ UNCHANGED <<draft, review, queue, auths, edit, owner, policy, seen>>
    BY DEF Cleanup, Worker, rows
  <1>2. "Cleaned" \in States BY DEF States
  <1>3. Owned' BY <1>1, <1>2, ReqMoves DEF IInv, Owned
  <1>4. /\ item' \in [Children -> ItemRecs] /\ \A d \in Children \ {c} : item'[d] = item[d]
        /\ item'[c].req = "Cleaned" /\ item'[c].done = item[c].done /\ item'[c].begun = item[c].begun
        /\ item'[c].text = item[c].text /\ item'[c].auth = item[c].auth /\ item'[c].order = item[c].order
        /\ item'[c].frozen = item[c].frozen /\ item'[c].removed = item[c].removed
        /\ item'[c].draft = item[c].draft /\ item'[c].review = item[c].review
    BY <1>1, <1>2, ReqMoves
  <1>5. Out(item'[c]) BY <1>4 DEF Out
  <1>6. Next BY DEF Next
  <1> QED BY <1>1, <1>3, <1>4, <1>5, <1>6, OneItem

\* what an item that may run on a baseline is known to be
LEMMA EligibleItem ==
  ASSUME IInv, NEW c \in Children, IsHead(c), ~Paused(c)
  PROVE  item[c].req = "Ready" /\ ~item[c].frozen /\ ~item[c].removed /\ ~Out(item[c])
  BY DEF IsHead, Queued, On, Paused, Out

\* complete items are bound with the authorization they are complete under
LEMMA BoundInput ==
  ASSUME IInv, NEW D \in SUBSET Children,
         \A d \in D : item[d].done = item[d].auth /\ item[d].req # "none"
  PROVE  LET X == {<<d, item[d].done>> : d \in D} IN
         /\ X \in SUBSET (Children \X Nat)
         /\ \A p \in X : p[2] > 0 /\ item[p[1]].done = p[2]
  <1>1. \A d \in D : item[d] \in ItemRecs /\ SoundItem(item[d]) BY ItemHere
  <1>2. \A d \in D : item[d].done \in Nat /\ item[d].done > 0 BY <1>1 DEF ItemRecs, SoundItem
  <1> QED BY <1>2

LEMMA PrepareInv == ASSUME IInv, NEW c \in Children, Prepare(c) PROVE IInv'
  <1> DEFINE X == {<<d, item[d].done>> : d \in Needed(c)}
  <1>1. /\ IsHead(c) /\ ~Paused(c) /\ Dependencies(c)
        /\ item' = [item EXCEPT ![c].begun = TRUE, ![c].input = X]
        /\ UNCHANGED <<draft, review, queue, auths, edit, owner, policy, seen>>
    BY DEF Prepare, Eligible, Worker, rows
  <1>2. Needed(c) \in SUBSET Children
    BY DepsTyped DEF Needed, Earlier, IInv, Types
  <1>3. \A d \in Needed(c) : item[d].done = item[d].auth /\ item[d].req # "none"
    BY <1>1 DEF Dependencies, Complete
  <1>4. X \in SUBSET (Children \X Nat) /\ \A p \in X : p[2] > 0 /\ item[p[1]].done = p[2]
    BY <1>2, <1>3, BoundInput
  <1> HIDE DEF X
  <1>5. item[c].req = "Ready" /\ ~item[c].frozen /\ ~item[c].removed /\ ~Out(item[c])
    BY <1>1, EligibleItem
  <1>6. item \in [Children -> ItemRecs] /\ item[c] \in ItemRecs /\ SoundItem(item[c]) BY ItemHere
  <1>7. /\ item'[c] = [item[c] EXCEPT !.begun = TRUE, !.input = X]
        /\ \A d \in Children \ {c} : item'[d] = item[d] /\ DOMAIN item' = Children
    BY <1>1, <1>6
  <1>8. /\ item'[c] \in ItemRecs /\ item'[c].req = item[c].req /\ item'[c].done = item[c].done
        /\ item'[c].input = X
        /\ item'[c].text = item[c].text /\ item'[c].auth = item[c].auth /\ item'[c].order = item[c].order
        /\ item'[c].frozen = item[c].frozen /\ item'[c].removed = item[c].removed
        /\ item'[c].draft = item[c].draft /\ item'[c].review = item[c].review
    BY <1>4, <1>6, <1>7 DEF ItemRecs
  <1>9. item' \in [Children -> ItemRecs] BY <1>1, <1>6, <1>7, <1>8
  <1>10. Owned' BY <1>1, <1>7, <1>8, ZenonT(60) DEF IInv, Owned
  <1>11. Next BY DEF Next
  <1>12. item[c].req # "none" /\ item'[c].req # "none" /\ ~Out(item[c]) BY <1>5, <1>8
  <1> QED BY <1>1, <1>4, <1>5, <1>7, <1>8, <1>9, <1>10, <1>11, <1>12, OneItem, ZenonT(60)

LEMMA ClaimInv == ASSUME IInv, NEW c \in Children, Claim(c) PROVE IInv'
  <1>1. /\ IsHead(c) /\ ~Paused(c) /\ item[c].begun /\ owner' = c
        /\ item' = [item EXCEPT ![c].req = "Running"]
        /\ UNCHANGED <<draft, review, queue, auths, edit, policy, seen>>
    BY DEF Claim, Eligible, Worker, rows
  <1>2. "Running" \in States BY DEF States
  <1>3. item[c].req = "Ready" /\ ~item[c].frozen /\ ~item[c].removed /\ ~Out(item[c])
    BY <1>1, EligibleItem
  <1>4. /\ item' \in [Children -> ItemRecs] /\ \A d \in Children \ {c} : item'[d] = item[d]
        /\ item'[c].req = "Running" /\ item'[c].input = item[c].input /\ item'[c].done = item[c].done
        /\ item'[c].text = item[c].text /\ item'[c].auth = item[c].auth /\ item'[c].order = item[c].order
        /\ item'[c].frozen = item[c].frozen /\ item'[c].removed = item[c].removed
        /\ item'[c].draft = item[c].draft /\ item'[c].review = item[c].review
    BY <1>1, <1>2, ReqMoves
  <1>5. Owned' BY <1>1, <1>4 DEF Owned
  <1>6. Begun(item[c]) BY <1>1, <1>3, Zenon DEF Begun, Live
  <1>7. \A p \in item'[c].input : p[2] > 0 /\ (item[p[1]].done = p[2] \/ Out(item[p[1]]))
    BY <1>3, <1>4, <1>6, ItemHere
  <1>8. Next BY DEF Next
  <1> QED BY <1>1, <1>3, <1>4, <1>5, <1>7, <1>8, OneItem

LEMMA StartValidationInv == ASSUME IInv, NEW c \in Children, StartValidation(c) PROVE IInv'
  <1> DEFINE X == {<<d, item[d].done>> : d \in Earlier(c)}
  <1>1. /\ IsHead(c) /\ ~Paused(c) /\ \A d \in Earlier(c) : item[d].done = item[d].auth
        /\ item' = [item EXCEPT ![c].req = "Running", ![c].input = X] /\ owner' = c
        /\ UNCHANGED <<draft, review, queue, auths, edit, policy, seen>>
    BY DEF StartValidation, Worker, rows
  <1>2. Earlier(c) \in SUBSET Children /\ \A d \in Earlier(c) : item[d].req # "none" BY DEF Earlier, On
  <1>3. X \in SUBSET (Children \X Nat) /\ \A p \in X : p[2] > 0 /\ item[p[1]].done = p[2]
    BY <1>1, <1>2, BoundInput
  <1> HIDE DEF X
  <1>4. item[c].req = "Ready" /\ ~item[c].frozen /\ ~item[c].removed /\ ~Out(item[c])
    BY <1>1, EligibleItem
  <1>5. item \in [Children -> ItemRecs] /\ item[c] \in ItemRecs BY ItemHere
  <1>6. /\ item'[c] = [item[c] EXCEPT !.req = "Running", !.input = X]
        /\ \A d \in Children \ {c} : item'[d] = item[d]
    BY <1>1, <1>5
  <1>7. /\ item'[c] \in ItemRecs /\ item'[c].req = "Running" /\ item'[c].done = item[c].done
        /\ item'[c].input = X
        /\ item'[c].text = item[c].text /\ item'[c].auth = item[c].auth /\ item'[c].order = item[c].order
        /\ item'[c].frozen = item[c].frozen /\ item'[c].removed = item[c].removed
        /\ item'[c].draft = item[c].draft /\ item'[c].review = item[c].review
    BY <1>3, <1>5, <1>6 DEF ItemRecs, States
  <1>8. item' \in [Children -> ItemRecs] BY <1>1, <1>5, <1>6, <1>7
  <1>9. Owned' BY <1>1, <1>7 DEF Owned
  <1>10. Next BY DEF Next
  <1> QED BY <1>1, <1>3, <1>4, <1>6, <1>7, <1>8, <1>9, <1>10, OneItem

\* the item that completes, be it merged or a passed integration
LEMMA Completed ==
  ASSUME IInv, NEW c \in Children, NEW s \in {"Submitted", "Done"}, Next,
         UNCHANGED <<draft, review, queue, auths, edit, policy, seen>>,
         item[c].req \in {"Running", "Submitted"},
         item' = [item EXCEPT ![c].done = item[c].auth, ![c].req = s], owner' \in {owner, None}
  PROVE  IInv'
  <1>1. item \in [Children -> ItemRecs] /\ item[c] \in ItemRecs /\ SoundItem(item[c]) BY ItemHere
  <1>2. ~item[c].frozen /\ ~item[c].removed BY <1>1 DEF SoundItem
  <1>3. /\ item'[c] = [item[c] EXCEPT !.done = item[c].auth, !.req = s]
        /\ \A d \in Children \ {c} : item'[d] = item[d]
    BY <1>1
  <1>4. /\ item'[c] \in ItemRecs /\ item'[c].req = s /\ item'[c].done = item[c].auth
        /\ item'[c].input = item[c].input
        /\ item'[c].text = item[c].text /\ item'[c].auth = item[c].auth /\ item'[c].order = item[c].order
        /\ item'[c].frozen = item[c].frozen /\ item'[c].removed = item[c].removed
        /\ item'[c].draft = item[c].draft /\ item'[c].review = item[c].review
    BY <1>1, <1>3 DEF ItemRecs, States
  <1>5. item' \in [Children -> ItemRecs] BY <1>1, <1>3, <1>4
  <1>6. Owned' BY <1>3, <1>4 DEF IInv, Owned
  <1>7. Begun(item[c]) /\ ~Out(item[c]) BY <1>2 DEF Begun, Live, Out
  <1>8. \A p \in item'[c].input : p[2] > 0 /\ (item[p[1]].done = p[2] \/ Out(item[p[1]]))
    BY <1>4, <1>7, ItemHere
  <1> QED BY <1>2, <1>3, <1>4, <1>5, <1>6, <1>7, <1>8, OneItem

LEMMA CompleteItemInv == ASSUME IInv, NEW c \in Children, CompleteItem(c) PROVE IInv'
  <1>1. PICK s \in {"Submitted", "Done"} :
          /\ item[c].req = "Submitted" /\ item' = [item EXCEPT ![c].done = item[c].auth, ![c].req = s]
          /\ UNCHANGED <<draft, review, queue, auths, edit, policy, seen, owner>>
    BY DEF CompleteItem, Worker, rows
  <1>2. Next BY DEF Next
  <1> QED BY <1>1, <1>2, Completed

LEMMA PassValidationInv == ASSUME IInv, NEW c \in Children, PassValidation(c) PROVE IInv'
  <1>1. /\ item[c].req = "Running" /\ item' = [item EXCEPT ![c].done = item[c].auth, ![c].req = "Done"]
        /\ owner' = None /\ UNCHANGED <<draft, review, queue, auths, edit, policy, seen>>
    BY DEF PassValidation, Worker, rows
  <1>2. Next BY DEF Next
  <1> QED BY <1>1, <1>2, Completed

LEMMA ReleaseInv == ASSUME IInv, NEW c \in Children, Release(c) PROVE IInv'
  <1> USE DEF IInv, Types
  <1>1. owner' = None /\ UNCHANGED <<draft, review, queue, auths, edit, policy, seen, item, left>>
    BY DEF Release, Worker, rows
  <1>2. TypeDraft' /\ TypeReview' /\ TypeQueue' /\ TypeAuths' /\ TypeEdit' /\ TypeSeen' /\ TypeLeft' /\ Screens'
    BY <1>1
    DEF TypeDraft, TypeReview, TypeQueue, QueueRecs, TypeAuths, TypeEdit, TypeSeen, TypeLeft, In, Screens
  <1>3. Deps' = Deps /\ Repo' = Repo BY <1>1 DEF Deps, Repo
  <1>4. Bound' BY <1>1, <1>3 DEF Bound, ValidOrder, In
  <1>5. Pending' BY <1>1, <1>3 DEF Pending, Materialized, ValidOrder, Changed, Builds, In
  <1>6. Items(item)' BY <1>1, <1>3, ItemsStand
  <1>7. Held' /\ Owned' /\ AuthorizedIsSeen' /\ AuthorizedOnce'
    BY <1>1 DEF Held, Owned, AuthorizedIsSeen, AuthorizedOnce
  <1> QED BY <1>2, <1>4, <1>5, <1>6, <1>7

----------------------------------------------------------------------------
(* The theorems.                                                            *)

LEMMA InitInv == Init => IInv
  <1> SUFFICES ASSUME Init PROVE IInv OBVIOUS
  <1>1. left \in CaseRecs(left) /\ \A doc \in left.docs \cup {left.first} : In(doc) # {}
    BY GroupAssumption DEF Init, GroupAssumption
  <1>2. left.first \in Docs BY <1>1 DEF CaseRecs
  <1>3. draft.doc = left.first /\ draft.ver = 1 /\ edit = NoEdit /\ auths = <<>> /\ policy = 1
    BY DEF Init
  <1>4. Types
    <2>1. TypeDraft BY <1>1, <1>2 DEF Init, TypeDraft
    <2>2. TypeReview /\ TypeQueue /\ TypeAuths BY DEF Init, TypeReview, TypeQueue, QueueRecs, TypeAuths
    <2>3. TypeEdit BY DEF Init, TypeEdit, NoEdit
    <2>4. TypeSeen BY <1>2 DEF Init, TypeSeen
    <2> QED BY <1>1, <2>1, <2>2, <2>3, <2>4 DEF Types, TypeLeft
  <1>5. \A c \in Children : item[c] = NoItem BY DEF Init
  <1>6. NoItem \in ItemRecs /\ ~Live(NoItem) /\ ~Begun(NoItem) /\ SoundItem(NoItem) /\ NoItem.req = "none"
    BY <1>3 DEF NoItem, ItemRecs, States, Live, Begun, SoundItem
  <1>7. item \in [Children -> ItemRecs] BY <1>6 DEF Init
  <1>8. Items(item)
    BY <1>5, <1>6, <1>7 DEF Items, Itemized, InForce, Renewed, Builton, Made
  <1>9. Screens BY <1>3 DEF Init, Screens, NoEdit
  <1>10. Bound BY DEF Init, Bound
  <1>11. Pending /\ Held BY <1>3 DEF Pending, Held, NoEdit
  <1>12. Owned /\ AuthorizedIsSeen /\ AuthorizedOnce
    BY <1>3 DEF Init, Owned, AuthorizedIsSeen, AuthorizedOnce
  <1> QED BY <1>4, <1>8, <1>9, <1>10, <1>11, <1>12 DEF IInv

LEMMA StutterInv == ASSUME IInv, UNCHANGED vars PROVE IInv'
  <1> USE DEF IInv, Types
  <1>1. UNCHANGED <<draft, review, queue, auths, edit, policy, seen, item, left, owner>> BY DEF vars, rows
  <1>2. TypeDraft' /\ TypeReview' /\ TypeQueue' /\ TypeAuths' /\ TypeEdit' /\ TypeSeen' /\ TypeLeft' /\ Screens'
    BY <1>1
    DEF TypeDraft, TypeReview, TypeQueue, QueueRecs, TypeAuths, TypeEdit, TypeSeen, TypeLeft, In, Screens
  <1>3. Deps' = Deps /\ Repo' = Repo BY <1>1 DEF Deps, Repo
  <1>4. Bound' BY <1>1, <1>3 DEF Bound, ValidOrder, In
  <1>5. Pending' BY <1>1, <1>3 DEF Pending, Materialized, ValidOrder, Changed, Builds, In
  <1>6. Items(item)' BY <1>1, <1>3, ItemsStand
  <1>7. Held' /\ Owned' /\ AuthorizedIsSeen' /\ AuthorizedOnce'
    BY <1>1 DEF Held, Owned, AuthorizedIsSeen, AuthorizedOnce
  <1> QED BY <1>2, <1>4, <1>5, <1>6, <1>7

LEMMA NextInv == IInv /\ [Next]_vars => IInv'
  <1> SUFFICES ASSUME IInv, [Next]_vars PROVE IInv' OBVIOUS
  <1>1. CASE Read BY <1>1, ReadInv
  <1>2. CASE SaveDraft BY <1>2, SaveDraftInv
  <1>3. CASE SaveReview BY <1>3, SaveReviewInv
  <1>4. CASE Confirm BY <1>4, ConfirmInv
  <1>5. CASE Reorder BY <1>5, ReorderInv
  <1>6. CASE Propose BY <1>6, ProposeInv
  <1>7. CASE Approve BY <1>7, ApproveInv
  <1>8. CASE Cancel BY <1>8, CancelInv
  <1>9. CASE ChangePolicy BY <1>9, ChangePolicyInv
  <1>10. CASE Materialize BY <1>10, MaterializeInv
  <1>11. ASSUME NEW c \in Children, Prepare(c) PROVE IInv' BY <1>11, PrepareInv
  <1>12. ASSUME NEW c \in Children, Claim(c) PROVE IInv' BY <1>12, ClaimInv
  <1>13. ASSUME NEW c \in Children, Submit(c) PROVE IInv' BY <1>13, SubmitInv
  <1>14. ASSUME NEW c \in Children, CompleteItem(c) PROVE IInv' BY <1>14, CompleteItemInv
  <1>15. ASSUME NEW c \in Children, Release(c) PROVE IInv' BY <1>15, ReleaseInv
  <1>16. ASSUME NEW c \in Children, Cleanup(c) PROVE IInv' BY <1>16, CleanupInv
  <1>17. ASSUME NEW c \in Children, StartValidation(c) PROVE IInv' BY <1>17, StartValidationInv
  <1>18. ASSUME NEW c \in Children, PassValidation(c) PROVE IInv' BY <1>18, PassValidationInv
  <1>19. CASE UNCHANGED vars BY <1>19, StutterInv
  <1> QED BY <1>1, <1>2, <1>3, <1>4, <1>5, <1>6, <1>7, <1>8, <1>9, <1>10, <1>11, <1>12, <1>13, <1>14,
            <1>15, <1>16, <1>17, <1>18, <1>19 DEF Next

\* The inductive invariant: no step of a user or of the worker leaves it, whatever was
\* read before and however steps interleave (group_edit_store.rs, execution_queue.rs).
THEOREM Inductive == Spec => []IInv
  BY InitInv, NextInv, PTL DEF Spec

LEMMA StartedItem ==
  ASSUME IInv, NEW c \in Children, Started(c)
  PROVE  /\ Live(item[c]) /\ ~item[c].frozen /\ ~item[c].removed
         /\ c \notin edit.affected /\ Materialized
  <1>1. SoundItem(item[c]) /\ Begun(item[c]) BY ItemHere DEF Started, On, Begun, Live
  <1>2. item[c].begun \/ item[c].req \in {"Running", "Submitted", "Done"} BY <1>1 DEF Begun
  <1>3. ~item[c].frozen /\ ~item[c].removed BY <1>1, <1>2 DEF SoundItem
  <1>4. item[c].req # "none" BY <1>1 DEF Begun, Live
  <1> QED BY <1>1, <1>3, <1>4 DEF Begun, IInv, Held, Materialized

\* The queue stands for one review its users saw: what was authorized is what was on the
\* screen, each review once; items in force carry the reviewed text, stay authorized once
\* started, are no older than what they depend on, and keep what they were bound to; a
\* pending difference touches nothing that started (group_review.rs check_versions,
\* group_edit.rs affected, group_edit_store.rs unstarted and approve).
THEOREM QueueSound == Spec => []QueueIsReviewed
  <1>1. IInv => QueueIsReviewed
    <2> SUFFICES ASSUME IInv PROVE QueueIsReviewed OBVIOUS
    <2>1. TypeOK
      <3>1. /\ In(draft.doc) # {} /\ {draft.ver, review.ver, queue.ver, edit.ver, policy} \subseteq Nat
            /\ queue.state \in {"none", "needs_review", "waiting_scheduler"} /\ queue.auth \in 0..Len(auths)
            /\ edit.affected \subseteq Children
        BY DEF IInv, Types, TypeDraft, TypeReview, TypeQueue, QueueRecs, TypeEdit
      <3>2. ASSUME NEW c \in Children
            PROVE  /\ item[c].req \in {"none", "Ready", "Running", "Submitted", "Done", "Cancelled", "Cleaned"}
                   /\ item[c].auth \in 0..Len(auths) /\ item[c].done \in {0, item[c].auth}
                   /\ item[c].begun => item[c].req # "none"
        BY ItemHere DEF ItemRecs, States, SoundItem
      <3> QED BY <3>1, <3>2 DEF TypeOK, IInv, Owned
    <2>2. StartedStaysAuthorized
      <3> SUFFICES ASSUME NEW c \in Children, Started(c) PROVE Authorized(c)
        BY DEF StartedStaysAuthorized
      <3>1. Live(item[c]) /\ ~item[c].frozen /\ ~item[c].removed /\ Materialized BY StartedItem
      <3>2. item[c].draft = draft.ver /\ item[c].review = review.ver BY <3>1, ItemHere DEF SoundItem, Live
      <3>3. queue.state = "waiting_scheduler" BY <3>1 DEF IInv, Items, InForce, Made, Materialized
      <3> QED BY <3>1, <3>2, <3>3 DEF Authorized
    <2>3. ItemsAreReviewed
      BY DEF ItemsAreReviewed, IInv, Items, InForce, Made, Materialized, Live, On, In
    <2>4. NotOlderThanDependencies
      BY DEF NotOlderThanDependencies, IInv, Items, Renewed, Live, On
    <2>5. PendingIsUnstarted
      <3>1. edit.affected \subseteq Children BY DEF IInv, Types, TypeEdit
      <3> QED BY <3>1, StartedItem DEF PendingIsUnstarted
    <2>6. BoundStays
      <3> SUFFICES ASSUME NEW c \in Children, Started(c), ~Cancelled(c), NEW p \in item[c].input
                   PROVE  p[2] > 0 /\ (item[p[1]].done = p[2] \/ Cancelled(p[1]))
        BY DEF BoundStays
      <3>1. Begun(item[c]) /\ ~Out(item[c]) BY DEF Started, On, Begun, Live, Cancelled, Out
      <3> QED BY <3>1, ItemHere DEF Out, Cancelled
    <2> QED BY <2>1, <2>2, <2>3, <2>4, <2>5, <2>6 DEF QueueIsReviewed, IInv
  <1> QED BY <1>1, Inductive, PTL

LEMMA StartedKeeps ==
  ASSUME IInv, [Next]_vars, NEW c \in Children, Started(c)
  PROVE  /\ item'[c].text = item[c].text /\ item'[c].auth = item[c].auth
         /\ ~item'[c].removed /\ (item[c].begun => item'[c].begun)
  <1>0. /\ Live(item[c]) /\ ~item[c].frozen /\ ~item[c].removed
        /\ c \notin edit.affected /\ Materialized
    BY StartedItem
  <1>1. item \in [Children -> ItemRecs] /\ item[c] \in ItemRecs BY ItemHere
  <1>2. CASE UNCHANGED item BY <1>0, <1>2
  <1>3. CASE Reorder
    <2>1. queue.state = "waiting_scheduler" /\ Items(item) /\ Projected = item
      BY <1>0, <1>3, ProjectedItems DEF Reorder, QueueEdit, IInv
    <2>2. PICK p \in Permutations(In(Ordered(item, draft.doc))) :
            item' = SetOrder(item, [d \in Children |-> IF d \in In(Ordered(item, draft.doc))
                                                       THEN [Ordered(item, draft.doc)[d] EXCEPT !.order = p[d]]
                                                       ELSE Ordered(item, draft.doc)[d]])
      BY <1>3, <2>1 DEF Reorder
    <2> DEFINE doc == [d \in Children |-> IF d \in In(Ordered(item, draft.doc))
                                          THEN [Ordered(item, draft.doc)[d] EXCEPT !.order = p[d]]
                                          ELSE Ordered(item, draft.doc)[d]]
    <2>3. item'[c] = IF doc[c].order > 0 THEN [item[c] EXCEPT !.order = doc[c].order] ELSE item[c]
      BY <2>2 DEF SetOrder
    <2> HIDE DEF doc
    <2>4. CASE doc[c].order > 0
      <3>1. item'[c] = [item[c] EXCEPT !.order = doc[c].order] BY <2>3, <2>4
      <3> QED BY <1>0, <1>1, <3>1 DEF ItemRecs
    <2>5. CASE ~(doc[c].order > 0)
      <3>1. item'[c] = item[c] BY <2>3, <2>5
      <3> QED BY <1>0, <3>1
    <2> QED BY <2>4, <2>5
  <1>4. CASE Propose
    <2>1. queue.state = "waiting_scheduler" /\ Projected = item
      BY <1>0, <1>4, ProjectedItems DEF Propose, QueueEdit
    <2>2. PICK C : item' = Frozen(item, C) BY <1>4, <2>1 DEF Propose
    <2>3. item'[c] = [item[c] EXCEPT !.frozen = c \in C] BY <1>0, <2>2 DEF Frozen, Live
    <2> QED BY <1>0, <1>1, <2>3 DEF ItemRecs
  <1>5. CASE Approve
    <2>1. /\ item'[c].text = item[c].text /\ item'[c].auth = item[c].auth
          /\ item'[c].removed = item[c].removed /\ item'[c].begun = item[c].begun
      BY <1>0, <1>5, ApprovedItems
    <2> QED BY <1>0, <2>1
  <1>6. ASSUME NEW d \in Children, NEW r \in ItemRecs, item' = [item EXCEPT ![d] = r],
               r.text = item[d].text, r.auth = item[d].auth, r.removed = item[d].removed,
               item[d].begun => r.begun
        PROVE  /\ item'[c].text = item[c].text /\ item'[c].auth = item[c].auth
               /\ ~item'[c].removed /\ (item[c].begun => item'[c].begun)
    BY <1>0, <1>1, <1>6
  <1>7. ASSUME NEW d \in Children, NEW s \in States, item' = [item EXCEPT ![d].req = s]
        PROVE  /\ item'[c].text = item[c].text /\ item'[c].auth = item[c].auth
               /\ ~item'[c].removed /\ (item[c].begun => item'[c].begun)
    <2>1. CASE d = c
      <3>1. /\ item'[c].text = item[c].text /\ item'[c].auth = item[c].auth
            /\ item'[c].removed = item[c].removed /\ item'[c].begun = item[c].begun
        BY <1>7, <2>1, ReqMoves
      <3> QED BY <1>0, <3>1
    <2>2. CASE d # c
      <3>1. item'[c] = item[c] BY <1>7, <2>2, ReqMoves
      <3> QED BY <1>0, <3>1
    <2> QED BY <2>1, <2>2
  <1>8. ASSUME NEW d \in Children, CompleteItem(d) \/ PassValidation(d)
        PROVE  /\ item'[c].text = item[c].text /\ item'[c].auth = item[c].auth
               /\ ~item'[c].removed /\ (item[c].begun => item'[c].begun)
    <2>1. PICK s \in States : item' = [item EXCEPT ![d].done = item[d].auth, ![d].req = s]
      BY <1>8 DEF CompleteItem, PassValidation, States
    <2>2. item'[d] = [item[d] EXCEPT !.done = item[d].auth, !.req = s] /\ (d # c => item'[c] = item[c])
      BY <1>1, <2>1
    <2>3. item[d] \in ItemRecs BY <1>1
    <2>4. /\ item'[d].text = item[d].text /\ item'[d].auth = item[d].auth
          /\ item'[d].removed = item[d].removed /\ item'[d].begun = item[d].begun
      BY <2>2, <2>3 DEF ItemRecs
    <2> QED BY <1>0, <2>2, <2>4
  <1>9. ASSUME NEW d \in Children, Prepare(d) \/ StartValidation(d)
        PROVE  /\ item'[c].text = item[c].text /\ item'[c].auth = item[c].auth
               /\ ~item'[c].removed /\ (item[c].begun => item'[c].begun)
    <2>0. item[d] \in ItemRecs BY <1>1
    <2>1. CASE Prepare(d)
      <3>1. PICK X : item' = [item EXCEPT ![d].begun = TRUE, ![d].input = X] BY <2>1 DEF Prepare
      <3>2. item'[d] = [item[d] EXCEPT !.begun = TRUE, !.input = X] /\ (d # c => item'[c] = item[c])
        BY <1>1, <3>1
      <3>3. /\ item'[d].text = item[d].text /\ item'[d].auth = item[d].auth
            /\ item'[d].removed = item[d].removed /\ item'[d].begun
        BY <2>0, <3>2 DEF ItemRecs
      <3> QED BY <1>0, <3>2, <3>3
    <2>2. CASE StartValidation(d)
      <3>1. PICK X : item' = [item EXCEPT ![d].req = "Running", ![d].input = X] BY <2>2 DEF StartValidation
      <3>2. item'[d] = [item[d] EXCEPT !.req = "Running", !.input = X] /\ (d # c => item'[c] = item[c])
        BY <1>1, <3>1
      <3>3. /\ item'[d].text = item[d].text /\ item'[d].auth = item[d].auth
            /\ item'[d].removed = item[d].removed /\ item'[d].begun = item[d].begun
        BY <2>0, <3>2 DEF ItemRecs
      <3> QED BY <1>0, <3>2, <3>3
    <2> QED BY <1>9, <2>1, <2>2
  <1>10. CASE Cancel
    <2>1. PICK d \in Children : item' = [item EXCEPT ![d].req = "Cancelled"] BY <1>10 DEF Cancel
    <2> QED BY <1>7, <2>1 DEF States
  <1>11. ASSUME NEW d \in Children, Claim(d) \/ Submit(d) \/ Cleanup(d)
         PROVE  /\ item'[c].text = item[c].text /\ item'[c].auth = item[c].auth
                /\ ~item'[c].removed /\ (item[c].begun => item'[c].begun)
    <2>1. PICK s \in States : item' = [item EXCEPT ![d].req = s]
      BY <1>11 DEF Claim, Submit, Cleanup, States
    <2> QED BY <1>7, <2>1
  <1>12. Read \/ SaveDraft \/ SaveReview \/ Confirm \/ ChangePolicy \/ (\E d \in Children : Release(d))
         => UNCHANGED item
    BY DEF Read, SaveDraft, SaveReview, Confirm, ChangePolicy, Release
  <1>13. ~Materialize BY <1>0 DEF Materialize
  <1>14. UNCHANGED vars => UNCHANGED item BY DEF vars
  <1> QED BY <1>2, <1>3, <1>4, <1>5, <1>8, <1>9, <1>10, <1>11, <1>12, <1>13, <1>14 DEF Next

LEMMA AcceptedOnlyComplete ==
  ASSUME IInv, [Next]_vars, accepted' # accepted
  PROVE  edit.ver = 0 /\ \A c \in In(draft.doc) : item'[c].done > 0 /\ ~Cancelled(c)
  <1>1. PICK f \in Children : PassValidation(f)
    BY DEF Next, vars, Read, SaveDraft, SaveReview, Confirm, Reorder, Propose, Approve, Cancel, ChangePolicy,
      Materialize, Prepare, Claim, Submit, CompleteItem, Release, Cleanup, StartValidation
  <1>2. /\ item[f].req = "Running" /\ ~Unfinished(item')
        /\ item' = [item EXCEPT ![f].done = item[f].auth, ![f].req = "Done"]
    BY <1>1 DEF PassValidation
  <1>3. edit.ver = 0 BY <1>2 DEF Unfinished, IInv, Types, TypeEdit
  <1>4. ASSUME NEW c \in In(draft.doc) PROVE item'[c].done > 0 /\ ~Cancelled(c)
    <2>1. c \in Children /\ Live(item[c])
      <3>1. Made(item) BY <1>2 DEF Made
      <3> QED BY <3>1 DEF IInv, Items, InForce, In
    <2>2. item \in [Children -> ItemRecs] /\ SoundItem(item[c]) /\ item[c].auth > 0
      BY <2>1, ItemHere DEF SoundItem, Live
    <2>3. /\ c # f => item'[c] = item[c]
          /\ item'[f] = [item[f] EXCEPT !.done = item[f].auth, !.req = "Done"]
      BY <1>2, <2>1, <2>2
    <2>4. CASE c = f
      <3>1. item'[f].done = item[f].auth BY <2>2, <2>3 DEF ItemRecs
      <3> QED BY <1>2, <2>2, <2>4, <3>1 DEF Cancelled
    <2>5. CASE c # f
      <3>1. item'[c] = item[c] BY <2>3, <2>5
      <3>2. Live(item'[c]) BY <2>1, <3>1
      <3>3. item'[c].req \notin {"Cancelled", "Cleaned"} /\ item'[c].done = item'[c].auth
        BY <1>2, <2>1, <3>2 DEF Unfinished, Live
      <3> QED BY <2>2, <3>1, <3>3 DEF Cancelled
    <2> QED BY <2>4, <2>5
  <1> QED BY <1>3, <1>4

\* No step of anyone changes the text, the authorization or the start of an item that has
\* started, nor removes it; and the parent is accepted only by the pass of its final
\* integration, with every item in force complete and no difference pending
\* (group_edit_store.rs unstarted, group_completion.rs).
THEOREM EditsKeepStarted == Spec => StartedAndAccepted
  <1>1. IInv /\ [Next]_vars =>
          [\A c \in Children : Started(c) => /\ item'[c].text = item[c].text /\ item'[c].auth = item[c].auth
                                            /\ ~item'[c].removed /\ (item[c].begun => item'[c].begun)]_vars
    BY StartedKeeps
  <1>2. IInv /\ [Next]_vars =>
          [accepted' # accepted => /\ edit.ver = 0
                                   /\ \A c \in In(draft.doc) : item'[c].done > 0 /\ ~Cancelled(c)]_vars
    BY AcceptedOnlyComplete
  <1> QED BY <1>1, <1>2, Inductive, PTL DEF Spec, StartedAndAccepted, StartedIsFixed, AcceptedIsComplete

----------------------------------------------------------------------------
(* The inductive invariant. *)

RowRecs ==
    [state: {"prepared", "executing", "unknown", "passed", "failed", "interrupted"},
     inc: 1..MaxInc, quiescent: BOOLEAN, result: AllResults \cup {Nil},
     next: 0..MaxNow + 1000, excess: BOOLEAN, version: 0..MaxVersion]
DiskRecs ==
    [identity: BOOLEAN, job: BOOLEAN, start: BOOLEAN, stop: BOOLEAN,
     outcome: AllResults \cup {Nil}, quiet: BOOLEAN, drift: BOOLEAN,
     sup: Running \cup {Nil, "ended", "lost"}]

AttemptTypes ==
    /\ IntegrationTypes
    /\ disk \in Seq(DiskRecs)
    /\ case \in CaseRecords

\* what a row claims of its process is borne out by the directory, and only the
\* last attempt is not known to have ended
Receipts ==
    \A a \in Attempts :
        /\ attempt[a].quiescent => disk[a].quiet
        /\ disk[a].quiet <=> disk[a].sup = "ended"
        /\ attempt[a].state = "prepared" => disk[a].sup = Nil
        /\ a < Last => attempt[a].quiescent

\* the item holds the slot while a supervisor works or is about to be started;
\* what gave it back is final
SlotHeld ==
    /\ \A a \in Attempts : LiveAttempt(a) => entry.owner
    /\ entry.owner => Last > 0
    /\ Last > 0 /\ ~entry.owner => entry.cancelled \/ entry.done > 0
    /\ ctl.pc = "spawn" =>
          /\ entry.owner
          /\ disk[Last].sup = Nil
          /\ attempt[Last].state # "prepared"
          /\ attempt[Last].inc = ctl.inc

\* after recovery nothing of an earlier controller has a process left
OldStopped ==
    ctl.recovered /\ entry.owner =>
        \A a \in Attempts : Old(a) => disk[a].sup \in {Nil, "ended"}

\* the code was at fault: the attempt ended, and no step but a revalidation leaves it
Rejected(a) ==
    /\ attempt[a].quiescent
    /\ attempt[a].state = "failed"
    /\ attempt[a].result = "code"
    /\ disk[a].outcome = "code"

\* the last attempt runs on what the merged repairs produced, or is the rejected
\* one the repair is for
VersionsCurrent ==
    /\ Last = 0 => repair = [state |-> Nil, version |-> 0, of |-> 0] /\ entry.done = 0
    /\ entry.owner /\ repair.state \in {"observed", "frozen", "reserved", "blocked"} => Rejected(Last)
    /\ entry.owner =>
          \/ attempt[Last].version = repair.version
          \/ repair.state = "merged" /\ Rejected(Last)

Accepted ==
    entry.done > 0 =>
        /\ ~entry.owner
        /\ attempt[Last].quiescent
        /\ AcceptedOnRequired

AttemptInv == AttemptTypes /\ Receipts /\ SlotHeld /\ OldStopped /\ VersionsCurrent /\ Accepted

\* The invariant gives what the run checks.
LEMMA InvImplies == ASSUME AttemptInv PROVE AttemptsHold
  <1>1. IntegrationTypes BY DEF AttemptInv, AttemptTypes
  <1>2. OneSupervisor
    <2> SUFFICES ASSUME NEW a \in Attempts, LiveAttempt(a) PROVE a = Last
      BY DEF OneSupervisor
    <2>1. attempt \in Seq(RowRecs) BY DEF AttemptInv, AttemptTypes, IntegrationTypes, RowRecs
    <2>2. ~disk[a].quiet BY DEF AttemptInv, Receipts, LiveAttempt, Running
    <2>3. ~(a < Last) BY <2>2 DEF AttemptInv, Receipts
    <2> QED BY <2>1, <2>3 DEF Attempts, Last
  <1>3. RecoveredIsQuiet
    BY DEF AttemptInv, OldStopped, RecoveredIsQuiet, LiveAttempt, Running, Nil
  <1>4. OwnerCoversSupervisor BY DEF AttemptInv, SlotHeld, OwnerCoversSupervisor
  <1>5. AcceptedOnRequired BY DEF AttemptInv, Accepted, AcceptedOnRequired
  <1> QED BY <1>1, <1>2, <1>3, <1>4, <1>5 DEF AttemptsHold

----------------------------------------------------------------------------
(* Steps on a row, on a directory, and of a new attempt. *)

\* Everything the invariant says of the parts other than rows and directories.
TypedRest ==
    /\ entry \in [owner: BOOLEAN, paused: BOOLEAN, revoked: BOOLEAN, cancelled: BOOLEAN, done: 0..MaxAttempts]
    /\ ctl \in [up: BOOLEAN, inc: 1..MaxInc, recovered: BOOLEAN, pc: {"idle", "spawn", "job", "renew"}]
    /\ repair \in [state: {Nil, "observed", "frozen", "reserved", "merged", "complete", "blocked", "cancelled"},
                   version: 0..MaxVersion, of: 0..MaxAttempts]
    /\ now \in 0..MaxNow
    /\ case \in CaseRecords

Shaped ==
    /\ attempt \in Seq(RowRecs) /\ disk \in Seq(DiskRecs)
    /\ Last <= MaxAttempts /\ Len(disk) = Last /\ TypedRest

\* The types, part by part.
LEMMA TypesSplit == AttemptTypes <=> Shaped
  <1>1. ASSUME AttemptTypes
        PROVE /\ attempt \in Seq(RowRecs) /\ disk \in Seq(DiskRecs)
              /\ Last <= MaxAttempts /\ Len(disk) = Last /\ TypedRest
    <2>1. /\ attempt \in Seq(RowRecs) /\ disk \in Seq(DiskRecs)
          /\ Last <= MaxAttempts /\ TypedRest /\ DOMAIN disk = DOMAIN attempt
      BY <1>1 DEF AttemptTypes, IntegrationTypes, RowRecs, TypedRest, Attempts
    <2>2. Len(disk) = Len(attempt)
      <3>1. /\ Len(disk) \in Nat /\ Len(attempt) \in Nat
            /\ DOMAIN disk = 1..Len(disk) /\ DOMAIN attempt = 1..Len(attempt)
        BY <2>1
      <3>2. \A i \in Nat : i \in 1..Len(disk) <=> i \in 1..Len(attempt) BY <3>1, <2>1
      <3>3. \A m, n \in Nat : (\A i \in Nat : i \in 1..m <=> i \in 1..n) => m <= n
        <4> TAKE m, n \in Nat
        <4> HAVE \A i \in Nat : i \in 1..m <=> i \in 1..n
        <4>1. m \in 1..m <=> m \in 1..n OBVIOUS
        <4> QED BY <4>1
      <3>4. Len(disk) <= Len(attempt) /\ Len(attempt) <= Len(disk) BY ONLY <3>1, <3>2, <3>3
      <3>5. \A m, n \in Nat : m <= n /\ n <= m => m = n OBVIOUS
      <3> QED BY ONLY <3>1, <3>4, <3>5, Zenon
    <2> QED BY <2>1, <2>2 DEF Last
  <1>2. ASSUME attempt \in Seq(RowRecs), disk \in Seq(DiskRecs),
               Last <= MaxAttempts, Len(disk) = Last, TypedRest
        PROVE AttemptTypes
    <2>1. DOMAIN disk = DOMAIN attempt BY <1>2 DEF Last
    <2>2. \A a \in DOMAIN attempt : disk[a] \in DiskRecs BY <1>2, <2>1
    <2> QED BY <1>2, <2>1, <2>2 DEF AttemptTypes, IntegrationTypes, RowRecs, DiskRecs, TypedRest, Attempts
  <1> QED BY <1>1, <1>2 DEF Shaped

\* A sequence with one element replaced, and one longer.
LEMMA ReplacedAt ==
  ASSUME NEW S, NEW s \in Seq(S), NEW a \in 1..Len(s), NEW r \in S
  PROVE  /\ [s EXCEPT ![a] = r] \in Seq(S)
         /\ Len([s EXCEPT ![a] = r]) = Len(s)
         /\ \A b \in 1..Len(s) : [s EXCEPT ![a] = r][b] = IF b = a THEN r ELSE s[b]
  OBVIOUS

LEMMA AppendedAt ==
  ASSUME NEW S, NEW s \in Seq(S), NEW r \in S
  PROVE  /\ Append(s, r) \in Seq(S)
         /\ Len(Append(s, r)) = Len(s) + 1
         /\ \A b \in 1..Len(s) : Append(s, r)[b] = s[b]
         /\ Append(s, r)[Len(s) + 1] = r
  OBVIOUS


\* A step on the row of the last attempt.
LEMMA RowStep ==
  ASSUME AttemptInv, Last > 0, NEW r \in RowRecs, attempt' = [attempt EXCEPT ![Last] = r],
         UNCHANGED <<disk, entry, repair>>, TypedRest',
         ctl'.inc = ctl.inc, ctl'.recovered = ctl.recovered, entry.done = 0,
         r.quiescent => disk[Last].quiet,
         r.state = "prepared" => attempt[Last].state = "prepared",
         r.version = attempt[Last].version,
         r.inc \in {attempt[Last].inc, ctl.inc},
         Rejected(Last) => r.quiescent /\ r.state = "failed" /\ r.result = "code",
         ctl'.pc = "spawn" =>
            entry.owner /\ disk[Last].sup = Nil /\ r.state # "prepared" /\ r.inc = ctl.inc
  PROVE  AttemptInv'
  <1>1. /\ attempt \in Seq(RowRecs) /\ disk \in Seq(DiskRecs)
        /\ Last <= MaxAttempts /\ Len(disk) = Last /\ Last \in Nat
    BY TypesSplit DEF AttemptInv, Shaped, Last
  <1>2. /\ attempt' \in Seq(RowRecs) /\ Len(attempt') = Len(attempt)
        /\ \A b \in 1..Last : attempt'[b] = IF b = Last THEN r ELSE attempt[b]
    BY <1>1, ReplacedAt, Last \in 1..Len(attempt) DEF Last
  <1>3. /\ Last' = Last /\ Attempts = 1..Last /\ Attempts' = 1..Last
        /\ disk' = disk /\ entry' = entry /\ repair' = repair
    BY <1>1, <1>2 DEF Last, Attempts
  <1>4. AttemptTypes'
    <2>1. Shaped' BY <1>1, <1>2, <1>3 DEF Shaped
    <2> QED BY <2>1, TypesSplit, PTL
  <1>5. Receipts'
    BY <1>1, <1>2, <1>3 DEF AttemptInv, Receipts
  <1>6. SlotHeld'
    BY <1>1, <1>2, <1>3 DEF AttemptInv, SlotHeld, LiveAttempt
  <1>7. OldStopped'
    BY <1>1, <1>2, <1>3 DEF AttemptInv, OldStopped, Old
  <1>8. VersionsCurrent'
    BY <1>1, <1>2, <1>3 DEF AttemptInv, VersionsCurrent, Rejected
  <1>9. Accepted'
    BY <1>3 DEF AttemptInv, Accepted, AttemptTypes, IntegrationTypes
  <1> QED BY <1>4, <1>5, <1>6, <1>7, <1>8, <1>9 DEF AttemptInv

\* A step on the directory of an attempt.
LEMMA DirectoryStep ==
  ASSUME AttemptInv, NEW a \in Attempts, NEW d \in DiskRecs, disk' = [disk EXCEPT ![a] = d],
         UNCHANGED <<attempt, entry, repair>>, TypedRest',
         ctl'.inc = ctl.inc, ctl'.recovered = ctl.recovered,
         d.quiet <=> d.sup = "ended",
         disk[a].quiet => d.quiet /\ d.outcome = disk[a].outcome,
         \/ d.sup = Nil <=> disk[a].sup = Nil
         \/ a = Last /\ ctl.pc = "spawn",
         d.sup \in Running => LiveAttempt(a) \/ (a = Last /\ ctl.pc = "spawn"),
         d.sup = "lost" => LiveAttempt(a) \/ disk[a].sup = "lost",
         ctl'.pc = "spawn" => ctl.pc = "spawn" /\ (a = Last => d.sup = Nil)
  PROVE  AttemptInv'
  <1>1. /\ attempt \in Seq(RowRecs) /\ disk \in Seq(DiskRecs)
        /\ Last <= MaxAttempts /\ Len(disk) = Last /\ Last \in Nat
    BY TypesSplit DEF AttemptInv, Shaped, Last
  <1>0. Attempts = 1..Last BY <1>1 DEF Last, Attempts
  <1>2. /\ disk' \in Seq(DiskRecs) /\ Len(disk') = Len(disk)
        /\ \A b \in 1..Last : disk'[b] = IF b = a THEN d ELSE disk[b]
    BY <1>0, <1>1, ReplacedAt, a \in 1..Len(disk) DEF Last
  <1>3. /\ Last' = Last /\ Attempts' = 1..Last
        /\ attempt' = attempt /\ entry' = entry /\ repair' = repair
    BY <1>1, <1>2 DEF Last, Attempts
  <1>4. AttemptTypes'
    <2>1. Shaped' BY <1>1, <1>2, <1>3 DEF Shaped
    <2> QED BY <2>1, TypesSplit, PTL
  <1>5. Receipts'
    BY <1>0, <1>1, <1>2, <1>3 DEF AttemptInv, Receipts, SlotHeld
  <1>6. SlotHeld'
    BY <1>0, <1>1, <1>2, <1>3 DEF AttemptInv, SlotHeld, LiveAttempt
  <1>7. OldStopped'
    <2>1. d.sup \in Running \cup {Nil, "ended", "lost"} BY DEF DiskRecs
    <2>2. ASSUME ctl.recovered, entry.owner, Old(a) PROVE d.sup \in {Nil, "ended"}
      <3>1. disk[a].sup \in {Nil, "ended"} BY <2>2 DEF AttemptInv, OldStopped
      <3>2. ~LiveAttempt(a) /\ disk[a].sup # "lost" BY <3>1 DEF LiveAttempt, Running, Nil
      <3>3. ~(a = Last /\ ctl.pc = "spawn") BY <2>2 DEF AttemptInv, SlotHeld, Old
      <3> QED BY <2>1, <3>2, <3>3
    <2> QED BY <2>2, <1>0, <1>2, <1>3 DEF AttemptInv, OldStopped, Old
  <1>8. VersionsCurrent'
    BY <1>0, <1>1, <1>2, <1>3 DEF AttemptInv, VersionsCurrent, Rejected, Receipts
  <1>9. Accepted'
    BY <1>0, <1>1, <1>2, <1>3 DEF AttemptInv, Accepted, AcceptedOnRequired
  <1> QED BY <1>4, <1>5, <1>6, <1>7, <1>8, <1>9 DEF AttemptInv

\* the row and the directory of a new attempt
LEMMA NewTyped ==
  /\ \A i \in 1..MaxInc, version \in 0..MaxVersion : Row(i, version) \in RowRecs
  /\ Directory \in DiskRecs
  <1>1. ASSUME NEW i \in 1..MaxInc, NEW version \in 0..MaxVersion PROVE Row(i, version) \in RowRecs
    <2>1. NoTime \in 0..MaxNow + 1000 BY IntegrationAssumption DEF NoTime
    <2> QED BY <2>1 DEF Row, RowRecs, Nil
  <1>2. Directory \in DiskRecs BY DEF Directory, DiskRecs, Nil
  <1> QED BY <1>1, <1>2

\* A new attempt, with the state of the previous one possibly overwritten.
LEMMA AttemptStep ==
  ASSUME AttemptInv, ctl.pc = "idle", Last < MaxAttempts, entry'.owner, entry.done = 0, entry'.done = 0,
         NEW old \in Seq(RowRecs), Len(old) = Last, NEW version \in 0..MaxVersion,
         attempt' = Append(old, Row(ctl.inc, version)), disk' = Append(disk, Directory),
         UNCHANGED repair, TypedRest', ctl' = ctl,
         Last > 0 => entry.owner /\ attempt[Last].quiescent,
         \A b \in Attempts : /\ old[b].quiescent = attempt[b].quiescent
                             /\ old[b].inc = attempt[b].inc
                             /\ old[b].state # "prepared" \/ old[b].state = attempt[b].state,
         version = repair.version,
         repair.state \notin {"observed", "frozen", "reserved", "blocked"}
  PROVE  AttemptInv'
  <1>1. /\ attempt \in Seq(RowRecs) /\ disk \in Seq(DiskRecs)
        /\ Last <= MaxAttempts /\ Len(disk) = Last /\ Last \in Nat
        /\ MaxAttempts \in Nat
    BY TypesSplit, IntegrationAssumption DEF AttemptInv, Shaped, Last
  <1>2. ctl.inc \in 1..MaxInc /\ ctl'.inc = ctl.inc /\ ctl'.recovered = ctl.recovered /\ ctl'.pc # "spawn"
    BY TypesSplit DEF AttemptInv, Shaped, TypedRest
  <1>3. Row(ctl.inc, version) \in RowRecs BY <1>2, NewTyped
  <1>4. Directory \in DiskRecs BY NewTyped
  <1>5. /\ attempt' \in Seq(RowRecs) /\ Len(attempt') = Last + 1
        /\ \A b \in 1..Last : attempt'[b] = old[b]
        /\ attempt'[Last + 1] = Row(ctl.inc, version)
    BY <1>3, AppendedAt
  <1>6. /\ disk' \in Seq(DiskRecs) /\ Len(disk') = Last + 1
        /\ \A b \in 1..Last : disk'[b] = disk[b]
        /\ disk'[Last + 1] = Directory
    BY <1>1, <1>4, AppendedAt
  <1>7. /\ Attempts = 1..Last /\ Attempts' = 1..(Last + 1) /\ Last' = Last + 1
    BY <1>1, <1>5, <1>6 DEF Attempts, Last
  <1>8. AttemptTypes'
    <2>1. Shaped' BY <1>1, <1>5, <1>6, <1>7 DEF Shaped
    <2> QED BY <2>1, TypesSplit, PTL
  <1>9. \A b \in 1..Last : attempt[b].quiescent /\ disk[b].quiet /\ disk[b].sup = "ended" /\ attempt[b].state # "prepared"
    <2> SUFFICES ASSUME NEW b \in 1..Last
                 PROVE  attempt[b].quiescent /\ disk[b].quiet /\ disk[b].sup = "ended" /\ attempt[b].state # "prepared"
      OBVIOUS
    <2>1. attempt[b].quiescent BY <1>1, <1>7 DEF AttemptInv, Receipts
    <2> QED BY <1>7, <2>1 DEF AttemptInv, Receipts, Nil
  <1>10. Receipts'
    <2>1. ASSUME NEW b \in 1..(Last + 1)
          PROVE  /\ attempt'[b].quiescent => disk'[b].quiet
                 /\ disk'[b].quiet <=> disk'[b].sup = "ended"
                 /\ attempt'[b].state = "prepared" => disk'[b].sup = Nil
                 /\ b < Last + 1 => attempt'[b].quiescent
      <3>1. CASE b = Last + 1
        BY <1>1, <1>5, <1>6, <3>1 DEF Row, Directory, Nil
      <3>2. CASE b # Last + 1
        <4>1. b \in 1..Last BY <1>1, <3>2
        <4>2. attempt'[b] = old[b] /\ disk'[b] = disk[b] BY <1>5, <1>6, <4>1
        <4> QED BY <1>7, <1>9, <4>1, <4>2, ZenonT(60)
      <3> QED BY <3>1, <3>2
    <2> QED BY <2>1, <1>7 DEF Receipts
  <1>11. SlotHeld'
    BY <1>1, <1>2, <1>7 DEF SlotHeld
  <1>12. OldStopped'
    BY <1>1, <1>2, <1>5, <1>6, <1>7, <1>9 DEF OldStopped, Old, Row, Directory
  <1>13. VersionsCurrent'
    BY <1>1, <1>5, <1>7 DEF VersionsCurrent, Row
  <1>14. Accepted'
    BY DEF Accepted
  <1> QED BY <1>8, <1>10, <1>11, <1>12, <1>13, <1>14 DEF AttemptInv

\* A step of the controls, of the repair or of the controller.
LEMMA OtherStep ==
  ASSUME AttemptInv, UNCHANGED <<attempt, disk>>, TypedRest',
         \* the slot
         entry'.owner => entry.owner,
         entry.owner /\ ~entry'.owner => entry'.cancelled /\ \A a \in Attempts : ~LiveAttempt(a),
         entry.cancelled => entry'.cancelled, entry'.done = entry.done,
         \* the controller
         ctl'.pc = "spawn" => ctl.pc = "spawn" /\ ctl'.inc = ctl.inc /\ entry'.owner,
         ctl'.recovered /\ entry.owner =>
            IF ctl.recovered THEN ctl'.inc = ctl.inc
            ELSE ctl'.inc = ctl.inc /\ \A a \in Attempts : Old(a) => disk[a].sup \in {Nil, "ended"},
         \* the repair
         \/ repair' = repair
         \/ ~entry'.owner /\ Last > 0 /\ repair'.version = repair.version
         \/ /\ entry.owner /\ repair.state \in {"observed", "frozen", "reserved"}
            /\ repair'.version = repair.version \/ repair'.state = "merged"
  PROVE  AttemptInv'
  <1>1. /\ attempt \in Seq(RowRecs) /\ disk \in Seq(DiskRecs)
        /\ Last <= MaxAttempts /\ Len(disk) = Last /\ Last \in Nat
    BY TypesSplit DEF AttemptInv, Shaped, Last
  <1>2. attempt' = attempt /\ disk' = disk /\ Last' = Last /\ Attempts' = Attempts /\ Attempts = 1..Last
    BY <1>1 DEF Last, Attempts
  <1>3. AttemptTypes'
    <2>1. Shaped' BY <1>1, <1>2 DEF Shaped
    <2> QED BY <2>1, TypesSplit, PTL
  <1>4. Receipts'
    BY <1>2 DEF AttemptInv, Receipts
  <1>5. SlotHeld'
    BY <1>2 DEF AttemptInv, SlotHeld, LiveAttempt
  <1>6. OldStopped'
    BY <1>2 DEF AttemptInv, OldStopped, Old
  <1>7. VersionsCurrent'
    BY <1>1, <1>2 DEF AttemptInv, VersionsCurrent, Rejected, SlotHeld
  <1>8. Accepted'
    BY <1>2 DEF AttemptInv, Accepted, AcceptedOnRequired
  <1> QED BY <1>3, <1>4, <1>5, <1>6, <1>7, <1>8 DEF AttemptInv

----------------------------------------------------------------------------
(* The steps. *)

\* A disturbance uses up one of the case.
LEMMA FaultTyped ==
  ASSUME TypedRest, case.more > 0, case' = [case EXCEPT !.more = @ - 1]
  PROVE  case' \in CaseRecords
  BY DEF TypedRest, CaseRecords

\* What the steps on rows and directories leave of the rest.
LEMMA RestStep ==
  ASSUME AttemptInv, UNCHANGED <<entry, repair, now>>,
         ctl' = ctl \/ \E p \in {"idle", "spawn", "job", "renew"} : ctl' = [ctl EXCEPT !.pc = p],
         case' = case \/ \E f \in AllFaults : Fault(f)
  PROVE  /\ TypedRest' /\ ctl'.inc = ctl.inc /\ ctl'.recovered = ctl.recovered
         /\ ctl' = ctl => ctl'.pc = ctl.pc
  <1>1. TypedRest BY TypesSplit DEF AttemptInv, Shaped
  <1>2. case' \in CaseRecords
    <2>1. CASE case' = case BY <2>1, <1>1 DEF TypedRest
    <2>2. CASE \E f \in AllFaults : Fault(f)
      <3>1. case.more > 0 /\ case' = [case EXCEPT !.more = @ - 1] BY <2>2 DEF Fault
      <3> QED BY <3>1, <1>1, FaultTyped
    <2> QED BY <2>1, <2>2
  <1>3. /\ ctl' \in [up: BOOLEAN, inc: 1..MaxInc, recovered: BOOLEAN, pc: {"idle", "spawn", "job", "renew"}]
        /\ ctl'.inc = ctl.inc /\ ctl'.recovered = ctl.recovered
    BY <1>1 DEF TypedRest
  <1> QED BY <1>1, <1>2, <1>3 DEF TypedRest

\* An item that holds the slot is not accepted yet; the last row and directory are typed.
LEMMA LastRow ==
  ASSUME AttemptInv
  PROVE  /\ Last \in Nat /\ Attempts = 1..Last
         /\ \A a \in Attempts : attempt[a] \in RowRecs /\ disk[a] \in DiskRecs
         /\ entry.owner => entry.done = 0 /\ Last > 0
         /\ \A a \in Attempts : ~attempt[a].quiescent => a = Last
         /\ Last > 0 /\ ~attempt[Last].quiescent => entry.done = 0
  <1>1. /\ attempt \in Seq(RowRecs) /\ disk \in Seq(DiskRecs) /\ Len(disk) = Last /\ TypedRest
    BY TypesSplit DEF AttemptInv, Shaped
  <1>2. Last \in Nat /\ Attempts = 1..Last BY <1>1 DEF Last, Attempts
  <1>3. \A a \in Attempts : attempt[a] \in RowRecs /\ disk[a] \in DiskRecs
    BY <1>1, <1>2 DEF Attempts, Last
  <1>4. entry.owner => entry.done = 0 /\ Last > 0
    BY <1>1 DEF AttemptInv, Accepted, SlotHeld, TypedRest
  <1>5. \A a \in Attempts : ~attempt[a].quiescent => a = Last
    BY <1>2 DEF AttemptInv, Receipts
  <1>6. Last > 0 /\ ~attempt[Last].quiescent => entry.done = 0
    BY <1>1 DEF AttemptInv, Accepted, TypedRest
  <1> QED BY <1>2, <1>3, <1>4, <1>5, <1>6

\* Rows stay typed.
LEMMA RowEdits ==
  ASSUME NEW r \in RowRecs, NEW x \in BOOLEAN
  PROVE  /\ [r EXCEPT !.quiescent = x] \in RowRecs
         /\ [r EXCEPT !.state = "unknown", !.excess = x] \in RowRecs
  <1>1. [r EXCEPT !.quiescent = x] \in RowRecs BY DEF RowRecs
  <1>2. [r EXCEPT !.state = "unknown", !.excess = x] \in RowRecs
    <2>1. [r EXCEPT !.excess = x] \in RowRecs BY DEF RowRecs
    <2>2. ASSUME NEW y \in RowRecs PROVE [y EXCEPT !.state = "unknown"] \in RowRecs BY DEF RowRecs
    <2>3. [r EXCEPT !.state = "unknown", !.excess = x] = [[r EXCEPT !.excess = x] EXCEPT !.state = "unknown"]
      BY ZenonT(60) DEF RowRecs
    <2> QED BY <2>1, <2>2, <2>3
  <1> QED BY <1>1, <1>2

\* Observation, start and scheduling change the row of the last attempt only.
LEMMA RowActions ==
  ASSUME AttemptInv, NEW a \in Attempts,
         RebindPrepared(a) \/ BeginStart(a) \/ ObserveMissing(a) \/ ObserveGone(a) \/ Quiescence(a)
         \/ SaveResult(a) \/ Schedule(a) \/ Excess(a)
  PROVE  AttemptInv'
  <1>1. /\ a = Last /\ Last > 0 /\ entry.done = 0 /\ attempt[Last] \in RowRecs /\ disk[Last] \in DiskRecs
        /\ UNCHANGED <<disk, entry, repair, now>>
    BY LastRow DEF RebindPrepared, BeginStart, ObserveMissing, ObserveGone, Quiescence, SaveResult,
         Schedule, Excess, Reading, Resumable, Observing, Tick, Recovering, Current
  <1>2. /\ attempt[Last].quiescent => disk[Last].quiet
        /\ disk[Last].quiet => disk[Last].sup = "ended"
    BY <1>1 DEF AttemptInv, Receipts
  <1>3. ctl.pc = "spawn" =>
           entry.owner /\ disk[Last].sup = Nil /\ attempt[Last].state # "prepared" /\ attempt[Last].inc = ctl.inc
    BY DEF AttemptInv, SlotHeld
  <1>4. ctl.inc \in 1..MaxInc BY TypesSplit DEF AttemptInv, Shaped, TypedRest
  <1>11. /\ TypedRest' /\ ctl'.inc = ctl.inc /\ ctl'.recovered = ctl.recovered
         /\ ctl' = ctl => ctl'.pc = ctl.pc
    <2>1. /\ ctl' = ctl \/ ctl' = [ctl EXCEPT !.pc = "spawn"]
          /\ case' = case \/ Fault("excess")
      BY DEF RebindPrepared, BeginStart, ObserveMissing, ObserveGone, Quiescence, SaveResult,
           Schedule, Excess
    <2> QED BY <1>1, <2>1, RestStep DEF AllFaults
  <1>5. CASE RebindPrepared(a)
    <2> DEFINE r == [attempt[Last] EXCEPT !.inc = ctl.inc]
    <2>1. attempt' = [attempt EXCEPT ![Last] = r] /\ ctl' = ctl /\ case' = case /\ attempt[Last].state = "prepared"
      BY <1>1, <1>5 DEF RebindPrepared, Set
    <2>2. r \in RowRecs BY <1>1, <1>4 DEF RowRecs
    <2>8. /\ r.quiescent = attempt[Last].quiescent /\ r.state = attempt[Last].state /\ r.result = attempt[Last].result
          /\ r.version = attempt[Last].version /\ r.inc = ctl.inc
      BY <1>1 DEF RowRecs
    <2> HIDE DEF r
    <2> QED BY <1>1, <1>2, <1>3, <1>11, <2>1, <2>2, <2>8, RowStep DEF Rejected
  <1>6. CASE BeginStart(a)
    <2> DEFINE r == [attempt[Last] EXCEPT !.state = "executing"]
    <2>1. /\ attempt' = [attempt EXCEPT ![Last] = r] /\ ctl' = [ctl EXCEPT !.pc = "spawn"] /\ case' = case
          /\ ~attempt[Last].quiescent /\ attempt[Last].state = "prepared" /\ attempt[Last].inc = ctl.inc
          /\ entry.owner
      BY <1>1, <1>6 DEF BeginStart, Set, Tick, Current
    <2>2. r \in RowRecs BY <1>1 DEF RowRecs
    <2>3. disk[Last].sup = Nil BY <1>1, <2>1 DEF AttemptInv, Receipts
    <2>8. /\ r.quiescent = attempt[Last].quiescent /\ r.state = "executing"
          /\ r.version = attempt[Last].version /\ r.inc = attempt[Last].inc
      BY <1>1 DEF RowRecs
    <2> HIDE DEF r
    <2> QED BY <1>1, <1>2, <1>3, <1>11, <2>1, <2>2, <2>3, <2>8, RowStep DEF Rejected
  <1>7. CASE ObserveMissing(a) \/ ObserveGone(a) \/ Excess(a)
    <2>1. PICK x \in BOOLEAN : attempt' = [attempt EXCEPT ![Last] = [attempt[Last] EXCEPT !.state = "unknown", !.excess = x]]
      BY <1>1, <1>7 DEF ObserveMissing, ObserveGone, Excess, Set, Block
    <2> DEFINE r == [attempt[Last] EXCEPT !.state = "unknown", !.excess = x]
    <2>2. /\ ctl' = ctl
          /\ ~attempt[Last].quiescent
      BY <1>1, <1>2, <1>7 DEF ObserveMissing, ObserveGone, Excess, Observing, Tick, Recovering, AllFaults
    <2>3. r \in RowRecs
      <3>1. attempt[Last] \in RowRecs /\ x \in BOOLEAN BY <1>1
      <3> QED BY <3>1, RowEdits
    <2>8. /\ r.quiescent = attempt[Last].quiescent /\ r.state = "unknown"
          /\ r.version = attempt[Last].version /\ r.inc = attempt[Last].inc
      BY <1>1 DEF RowRecs
    <2>9. attempt' = [attempt EXCEPT ![Last] = r] BY <2>1
    <2>10. ~Rejected(Last) BY <2>2 DEF Rejected
    <2> HIDE DEF r
    <2> QED BY <1>1, <1>2, <1>3, <1>11, <2>2, <2>3, <2>8, <2>9, <2>10, RowStep
  <1>8. CASE Quiescence(a)
    <2> DEFINE r == [attempt[Last] EXCEPT !.quiescent = TRUE]
    <2>1. /\ attempt' = [attempt EXCEPT ![Last] = r] /\ ctl' = ctl /\ case' = case
          /\ disk[Last].quiet
      BY <1>1, <1>8 DEF Quiescence, Set
    <2>2. r \in RowRecs
      <3>1. attempt[Last] \in RowRecs BY <1>1
      <3> QED BY <3>1, RowEdits
    <2>8. /\ r.quiescent /\ r.state = attempt[Last].state /\ r.result = attempt[Last].result
          /\ r.version = attempt[Last].version /\ r.inc = attempt[Last].inc
      BY <1>1 DEF RowRecs
    <2> HIDE DEF r
    <2> QED BY <1>1, <1>2, <1>3, <1>11, <2>1, <2>2, <2>8, RowStep DEF Rejected
  <1>9. CASE SaveResult(a)
    <2> DEFINE r == [attempt[Last] EXCEPT !.result = disk[Last].outcome]
    <2>1. /\ attempt' = [attempt EXCEPT ![Last] = r] /\ ctl' = ctl /\ case' = case
          /\ attempt[Last].result = Nil
      BY <1>1, <1>9 DEF SaveResult, Set
    <2>2. r \in RowRecs BY <1>1 DEF RowRecs, DiskRecs
    <2>8. /\ r.quiescent = attempt[Last].quiescent /\ r.state = attempt[Last].state
          /\ r.version = attempt[Last].version /\ r.inc = attempt[Last].inc
      BY <1>1 DEF RowRecs
    <2> HIDE DEF r
    <2> QED BY <1>1, <1>2, <1>3, <1>11, <2>1, <2>2, <2>8, RowStep DEF Rejected, Nil
  <1>10. CASE Schedule(a)
    <2> DEFINE r == [attempt[Last] EXCEPT !.next = NextRetry]
    <2>1. /\ attempt' = [attempt EXCEPT ![Last] = r] /\ ctl' = ctl /\ case' = case
      BY <1>1, <1>10 DEF Schedule, Set
    <2>2. NextRetry \in 0..MaxNow + 1000
      <3>1. now \in Nat BY TypesSplit, IntegrationAssumption DEF AttemptInv, Shaped, TypedRest
      <3>2. CASE Last \in DOMAIN Delays /\ now + Delays[Last] <= Deadline
        <4>1. Delays[Last] \in Nat BY <3>2, IntegrationAssumption
        <4> QED BY <3>1, <3>2, <4>1, IntegrationAssumption DEF NextRetry
      <3>3. CASE ~(Last \in DOMAIN Delays /\ now + Delays[Last] <= Deadline)
        BY <3>3, IntegrationAssumption DEF NextRetry, NoTime
      <3> QED BY <3>2, <3>3
    <2>3. r \in RowRecs BY <1>1, <2>2 DEF RowRecs
    <2>8. /\ r.quiescent = attempt[Last].quiescent /\ r.state = attempt[Last].state /\ r.result = attempt[Last].result
          /\ r.version = attempt[Last].version /\ r.inc = attempt[Last].inc
      BY <1>1 DEF RowRecs
    <2> HIDE DEF r
    <2> QED BY <1>1, <1>2, <1>3, <1>11, <2>1, <2>3, <2>8, RowStep DEF Rejected
  <1> QED BY <1>5, <1>6, <1>7, <1>8, <1>9, <1>10

\* A result is accepted, or recorded as a failure.
LEMMA FinishActions ==
  ASSUME AttemptInv, NEW a \in Attempts, FinishPassed(a) \/ FinishFailed(a)
  PROVE  AttemptInv'
  <1>1. /\ a = Last /\ Last > 0 /\ entry.owner /\ entry.done = 0 /\ attempt[Last].quiescent
        /\ attempt[Last] \in RowRecs /\ disk[Last] \in DiskRecs
        /\ disk' = disk /\ ctl' = ctl /\ now' = now /\ case' = case
        /\ ctl.pc = "idle" /\ Last \in Nat /\ Attempts = 1..Last
    BY LastRow DEF FinishPassed, FinishFailed, Reading, Tick, WorkerIdle, Current
  <1>2. /\ attempt \in Seq(RowRecs) /\ disk \in Seq(DiskRecs) /\ Len(disk) = Last
        /\ Last <= MaxAttempts /\ MaxAttempts \in Nat /\ TypedRest
    BY TypesSplit, IntegrationAssumption DEF AttemptInv, Shaped
  <1>3. /\ disk[Last].quiet /\ disk[Last].sup = "ended" /\ attempt[Last].state # "prepared"
        /\ \A b \in 1..Last : /\ disk[b].sup = "ended" /\ disk[b].quiet
                              /\ attempt[b].quiescent /\ attempt[b].state # "prepared"
    <2> SUFFICES ASSUME NEW b \in 1..Last
                 PROVE  /\ disk[b].sup = "ended" /\ disk[b].quiet
                        /\ attempt[b].quiescent /\ attempt[b].state # "prepared"
      BY <1>1
    <2>1. attempt[b].quiescent BY <1>1 DEF AttemptInv, Receipts
    <2>2. disk[b].quiet BY <1>1, <2>1 DEF AttemptInv, Receipts
    <2>3. disk[b].sup = "ended" BY <1>1, <2>2 DEF AttemptInv, Receipts
    <2> QED BY <1>1, <2>1, <2>2, <2>3 DEF AttemptInv, Receipts, Nil
  <1>4. PICK s \in {"passed", "failed"}, e \in AllResults \cup {Nil} :
           /\ attempt' = [attempt EXCEPT ![Last] = [attempt[Last] EXCEPT !.result = e, !.state = s]]
           /\ e = disk[Last].outcome
           /\ s = "passed" => /\ FinishPassed(a) /\ e = "pass"
           /\ s = "failed" => /\ FinishFailed(a) /\ e # "pass" /\ attempt[Last].state # "failed"
    BY <1>1 DEF FinishPassed, FinishFailed, Set, DiskRecs, AllResults
  <1> DEFINE r == [attempt[Last] EXCEPT !.result = e, !.state = s]
  <1>5. /\ r \in RowRecs /\ r.quiescent = attempt[Last].quiescent /\ r.state = s /\ r.result = e
        /\ r.version = attempt[Last].version /\ r.inc = attempt[Last].inc
    <2>1. attempt[Last] \in RowRecs /\ s \in {"passed", "failed"} /\ e \in AllResults \cup {Nil}
      BY <1>1
    <2>2. r.quiescent = attempt[Last].quiescent /\ r.state = s /\ r.result = e
          /\ r.version = attempt[Last].version /\ r.inc = attempt[Last].inc
      BY ONLY <2>1 DEF RowRecs
    <2>3. r \in RowRecs
      <3>1. [attempt[Last] EXCEPT !.result = e] \in RowRecs BY ONLY <2>1 DEF RowRecs
      <3>2. ASSUME NEW y \in RowRecs PROVE [y EXCEPT !.state = s] \in RowRecs BY ONLY <2>1, <3>2 DEF RowRecs
      <3>3. r = [[attempt[Last] EXCEPT !.result = e] EXCEPT !.state = s] BY ONLY <2>1 DEF RowRecs
      <3> QED BY <3>1, <3>2, <3>3
    <2> QED BY <2>2, <2>3
  <1>6. attempt' = [attempt EXCEPT ![Last] = r] BY <1>4
  <1> HIDE DEF r
  <1>7. /\ attempt' \in Seq(RowRecs) /\ Len(attempt') = Last
        /\ \A b \in 1..Last : attempt'[b] = IF b = Last THEN r ELSE attempt[b]
    BY <1>1, <1>2, <1>5, <1>6, ReplacedAt, Last \in 1..Len(attempt) DEF Last
  <1>8. Last' = Last /\ Attempts' = 1..Last
    BY <1>1, <1>7 DEF Last, Attempts
  <1>9. /\ entry' = IF s = "passed" THEN [entry EXCEPT !.done = Last, !.owner = FALSE] ELSE entry
        /\ repair'.version = repair.version
        /\ repair' = IF s = "passed"
                     THEN IF repair.state = "merged" THEN [repair EXCEPT !.state = "complete"] ELSE repair
                     ELSE IF e = "code" THEN [repair EXCEPT !.state = "observed", !.of = Last]
                     ELSE repair
    BY <1>1, <1>2, <1>4 DEF FinishPassed, FinishFailed, TypedRest
  <1>10. TypedRest' /\ entry'.done = (IF s = "passed" THEN Last ELSE 0)
         /\ entry'.owner = (s # "passed") /\ entry'.cancelled = entry.cancelled
    <2>1. CASE s = "passed"
      <3>1. Last \in 0..MaxAttempts BY <1>1, <1>2
      <3> QED BY <1>1, <1>2, <1>9, <2>1, <3>1 DEF TypedRest
    <2>2. CASE s # "passed"
      <3>1. repair' = [repair EXCEPT !.state = "observed", !.of = Last] \/ repair' = repair
        BY <1>9, <2>2
      <3>2. Last \in 0..MaxAttempts BY <1>1, <1>2
      <3> QED BY <1>1, <1>2, <1>9, <2>2, <3>1, <3>2 DEF TypedRest
    <2> QED BY <2>1, <2>2
  <1>11. AttemptTypes'
    <2>1. Shaped' BY <1>1, <1>2, <1>7, <1>8, <1>10 DEF Shaped
    <2> QED BY <2>1, TypesSplit, PTL
  <1>12. Receipts'
    BY <1>1, <1>3, <1>4, <1>5, <1>7, <1>8 DEF Receipts
  <1>13. SlotHeld'
    BY <1>1, <1>3, <1>7, <1>8, <1>10 DEF SlotHeld, LiveAttempt, Running
  <1>14. OldStopped'
    BY <1>1, <1>3, <1>7, <1>8 DEF OldStopped
  <1>15. ~Rejected(Last) /\ repair.state \notin {"observed", "frozen", "reserved", "blocked"}
         /\ attempt[Last].version = repair.version
    <2>1. ~Rejected(Last) BY <1>4 DEF Rejected
    <2> QED BY <1>1, <2>1 DEF AttemptInv, VersionsCurrent
  <1>16. VersionsCurrent'
    BY <1>1, <1>2, <1>4, <1>5, <1>7, <1>8, <1>9, <1>10, <1>15 DEF VersionsCurrent, Rejected, TypedRest
  <1>17. Accepted'
    BY <1>1, <1>3, <1>4, <1>5, <1>7, <1>8, <1>9, <1>10, <1>15 DEF Accepted, AcceptedOnRequired
  <1> QED BY <1>11, <1>12, <1>13, <1>14, <1>16, <1>17 DEF AttemptInv

\* The starts and controls of the worker, and what supervisor and faults do.
LEMMA DirectoryActions ==
  ASSUME AttemptInv, NEW a \in Attempts,
         Spawn(a) \/ WriteJob(a) \/ Renew(a) \/ ControlStop(a) \/ Announce(a) \/ Begin(a)
         \/ WorkEnds(a) \/ Killed(a) \/ WriteQuiet(a) \/ Die(a) \/ Drift(a)
  PROVE  AttemptInv'
  <1>1. /\ disk[a] \in DiskRecs /\ UNCHANGED <<attempt, entry, repair, now>> /\ a \in Attempts
    BY LastRow DEF Spawn, WriteJob, Renew, ControlStop, Announce, Begin, WorkEnds, Killed, WriteQuiet, Die, Drift
  <1>2. /\ TypedRest' /\ ctl'.inc = ctl.inc /\ ctl'.recovered = ctl.recovered
        /\ ctl'.pc = "spawn" => ctl' = ctl
    <2>1. /\ ctl' = ctl \/ \E p \in {"idle", "job"} : ctl' = [ctl EXCEPT !.pc = p]
          /\ case' = case \/ Fault("die") \/ Fault("drift")
      BY DEF Spawn, WriteJob, Renew, ControlStop, Announce, Begin, WorkEnds, Killed, WriteQuiet, Die, Drift
    <2>2. TypedRest BY TypesSplit DEF AttemptInv, Shaped
    <2>3. ctl'.pc = "spawn" => ctl' = ctl BY <2>1, <2>2 DEF TypedRest
    <2> QED BY <1>1, <2>1, <2>3, RestStep DEF AllFaults
  <1>3. /\ disk[a].quiet <=> disk[a].sup = "ended"
        /\ ctl.pc = "spawn" => disk[Last].sup = Nil
    BY DEF AttemptInv, Receipts, SlotHeld
  <1>4. ASSUME NEW d \in DiskRecs, disk' = [disk EXCEPT ![a] = d],
               d.sup = disk[a].sup, d.quiet = disk[a].quiet, d.outcome = disk[a].outcome
        PROVE  AttemptInv'
    BY <1>1, <1>2, <1>3, <1>4, DirectoryStep DEF LiveAttempt, Running
  <1>5. ASSUME NEW d \in DiskRecs, disk' = [disk EXCEPT ![a] = d],
               LiveAttempt(a), d.sup \in Running \cup {"ended", "lost"}, d.quiet <=> d.sup = "ended"
        PROVE  AttemptInv'
    <2>1. ~disk[a].quiet /\ disk[a].sup # Nil /\ d.sup # Nil
      BY <1>3, <1>5 DEF LiveAttempt, Running, Nil
    <2>2. ctl'.pc = "spawn" => ctl.pc = "spawn" /\ (a = Last => d.sup = Nil)
      BY <1>2, <1>3, <2>1
    <2> QED BY <1>1, <1>2, <1>5, <2>1, <2>2, DirectoryStep
  <1>6. CASE Spawn(a)
    <2> DEFINE d == [disk[a] EXCEPT !.sup = "starting"]
    <2>1. disk' = [disk EXCEPT ![a] = d] /\ ctl.pc = "spawn" /\ a = Last /\ disk[a].sup = Nil
          /\ ctl' = [ctl EXCEPT !.pc = "job"]
      BY <1>6 DEF Spawn, Put
    <2>2. d \in DiskRecs /\ d.sup = "starting" /\ d.quiet = disk[a].quiet
      BY <1>1 DEF DiskRecs, Running
    <2>3. ctl'.pc # "spawn" /\ ~disk[a].quiet
      BY <1>2, <1>3, <2>1 DEF Nil
    <2> HIDE DEF d
    <2> QED BY <1>1, <1>2, <1>3, <2>1, <2>2, <2>3, DirectoryStep
  <1>7. CASE WriteJob(a)
    <2> DEFINE d == [disk[a] EXCEPT !.job = TRUE]
    <2>1. d \in DiskRecs /\ d.sup = disk[a].sup /\ d.quiet = disk[a].quiet /\ d.outcome = disk[a].outcome
      BY <1>1 DEF DiskRecs
    <2> QED BY <1>4, <1>7, <2>1 DEF WriteJob, Put
  <1>8. CASE Renew(a)
    <2> DEFINE v == disk[a].start \/ ~disk[a].stop
               d == [disk[a] EXCEPT !.start = v]
    <2>1. d \in DiskRecs /\ d.sup = disk[a].sup /\ d.quiet = disk[a].quiet /\ d.outcome = disk[a].outcome
      <3>1. v \in BOOLEAN OBVIOUS
      <3> HIDE DEF v
      <3> QED BY <1>1, <3>1 DEF DiskRecs
    <2> QED BY <1>4, <1>8, <2>1 DEF Renew, Put
  <1>9. CASE ControlStop(a)
    <2> DEFINE d == [disk[a] EXCEPT !.stop = TRUE]
    <2>1. d \in DiskRecs /\ d.sup = disk[a].sup /\ d.quiet = disk[a].quiet /\ d.outcome = disk[a].outcome
      BY <1>1 DEF DiskRecs
    <2> QED BY <1>4, <1>9, <2>1 DEF ControlStop, Put
  <1>10. CASE Drift(a)
    <2> DEFINE d == [disk[a] EXCEPT !.drift = TRUE]
    <2>1. d \in DiskRecs /\ d.sup = disk[a].sup /\ d.quiet = disk[a].quiet /\ d.outcome = disk[a].outcome
      BY <1>1 DEF DiskRecs
    <2> QED BY <1>4, <1>10, <2>1 DEF Drift, Put
  <1>11. CASE Announce(a)
    <2> DEFINE d == [disk[a] EXCEPT !.sup = "waiting", !.identity = TRUE]
    <2>1. d \in DiskRecs /\ d.sup = "waiting" /\ d.quiet = disk[a].quiet
      BY <1>1 DEF DiskRecs, Running
    <2>2. disk' = [disk EXCEPT ![a] = d] /\ LiveAttempt(a) /\ ~disk[a].quiet
      BY <1>3, <1>11 DEF Announce, Put, LiveAttempt, Running
    <2> HIDE DEF d
    <2> QED BY <1>5, <2>1, <2>2 DEF Running
  <1>12. CASE Begin(a)
    <2> DEFINE d == [disk[a] EXCEPT !.sup = "running"]
    <2>1. d \in DiskRecs /\ d.sup = "running" /\ d.quiet = disk[a].quiet
      BY <1>1 DEF DiskRecs, Running
    <2>2. disk' = [disk EXCEPT ![a] = d] /\ LiveAttempt(a) /\ ~disk[a].quiet
      BY <1>3, <1>12 DEF Begin, Put, LiveAttempt, Running
    <2> HIDE DEF d
    <2> QED BY <1>5, <2>1, <2>2 DEF Running
  <1>13. CASE WorkEnds(a)
    <2>1. PICK r \in Execute(a) : disk' = [disk EXCEPT ![a] = [disk[a] EXCEPT !.sup = "drained", !.outcome = r]]
      BY <1>13 DEF WorkEnds, Put
    <2>2. r \in AllResults \cup {Nil}
      <3>1. case.results \subseteq AllResults
        BY TypesSplit DEF AttemptInv, Shaped, TypedRest, CaseRecords
      <3>2. r \in case.results \/ r = "error" BY <2>1 DEF Execute, Answers
      <3> QED BY <3>1, <3>2 DEF AllResults
    <2> DEFINE d == [disk[a] EXCEPT !.sup = "drained", !.outcome = r]
    <2>3. d \in DiskRecs /\ d.sup = "drained" /\ d.quiet = disk[a].quiet
      BY <1>1, <2>2 DEF DiskRecs, Running
    <2>4. disk' = [disk EXCEPT ![a] = d] /\ LiveAttempt(a) /\ ~disk[a].quiet
      BY <1>3, <1>13, <2>1 DEF WorkEnds, LiveAttempt, Running
    <2> HIDE DEF d
    <2> QED BY <1>5, <2>3, <2>4 DEF Running
  <1>14. CASE Killed(a)
    <2> DEFINE d == [disk[a] EXCEPT !.sup = "drained"]
    <2>1. d \in DiskRecs /\ d.sup = "drained" /\ d.quiet = disk[a].quiet
      BY <1>1 DEF DiskRecs, Running
    <2>2. disk' = [disk EXCEPT ![a] = d] /\ LiveAttempt(a) /\ ~disk[a].quiet
      BY <1>3, <1>14 DEF Killed, Put, LiveAttempt, Running
    <2> HIDE DEF d
    <2> QED BY <1>5, <2>1, <2>2 DEF Running
  <1>15. CASE WriteQuiet(a)
    <2> DEFINE d == [disk[a] EXCEPT !.sup = "ended", !.quiet = TRUE]
    <2>1. d \in DiskRecs /\ d.sup = "ended" /\ d.quiet
      BY <1>1 DEF DiskRecs
    <2>2. disk' = [disk EXCEPT ![a] = d] /\ LiveAttempt(a)
      BY <1>15 DEF WriteQuiet, Put, LiveAttempt, Running
    <2> HIDE DEF d
    <2> QED BY <1>5, <2>1, <2>2
  <1>16. CASE Die(a)
    <2> DEFINE d == [disk[a] EXCEPT !.sup = "lost"]
    <2>1. d \in DiskRecs /\ d.sup = "lost" /\ d.quiet = disk[a].quiet
      BY <1>1 DEF DiskRecs
    <2>2. disk' = [disk EXCEPT ![a] = d] /\ LiveAttempt(a) /\ ~disk[a].quiet
      BY <1>3, <1>16 DEF Die, Put, LiveAttempt, Running
    <2> HIDE DEF d
    <2> QED BY <1>5, <2>1, <2>2
  <1> QED BY <1>6, <1>7, <1>8, <1>9, <1>10, <1>11, <1>12, <1>13, <1>14, <1>15, <1>16

\* A new attempt exists only after the one before has ended, and runs on the versions
\* required now.
LEMMA AttemptActions ==
  ASSUME AttemptInv, ClaimSlot \/ \E a \in Attempts : Replace(a) \/ Revalidate(a)
  PROVE  AttemptInv'
  <1>1. /\ attempt \in Seq(RowRecs) /\ disk \in Seq(DiskRecs) /\ Len(disk) = Last
        /\ Last <= MaxAttempts /\ TypedRest /\ Last \in Nat
    BY TypesSplit, LastRow DEF AttemptInv, Shaped
  <1>2. /\ ctl' = ctl /\ UNCHANGED <<repair, now, case>> /\ ctl.pc = "idle" /\ Last < MaxAttempts
        /\ entry.done = 0
    BY LastRow DEF ClaimSlot, Replace, Revalidate, Persist, WorkerIdle, Resumable, Tick, Current
  <1>3. ASSUME NEW a \in Attempts, Current(a), attempt[a].quiescent
        PROVE  /\ a = Last /\ Last > 0 /\ entry.owner
               /\ repair.state \notin {"observed", "frozen", "reserved", "blocked"} \/ Rejected(Last)
    BY <1>3, LastRow DEF Current, AttemptInv, VersionsCurrent
  <1>4. CASE ClaimSlot
    <2>1. /\ entry' = [entry EXCEPT !.owner = TRUE]
          /\ attempt' = Append(attempt, Row(ctl.inc, 0)) /\ disk' = Append(disk, Directory)
          /\ ~entry.owner /\ ~entry.cancelled
      BY <1>4 DEF ClaimSlot, Persist, Permitted, SelectedVersions
    <2>2. Last = 0 BY <1>1, <1>2, <2>1 DEF AttemptInv, SlotHeld
    <2>3. repair.version = 0 /\ repair.state = Nil BY <2>2 DEF AttemptInv, VersionsCurrent
    <2>4. TypedRest' /\ entry'.owner /\ entry'.done = 0 BY <1>1, <1>2, <2>1 DEF TypedRest
    <2>5. \A b \in Attempts : /\ attempt[b].quiescent = attempt[b].quiescent
                              /\ attempt[b].inc = attempt[b].inc
                              /\ attempt[b].state # "prepared" \/ attempt[b].state = attempt[b].state
      OBVIOUS
    <2>6. 0 \in 0..MaxVersion BY IntegrationAssumption
    <2>7. Len(attempt) = Last BY DEF Last
    <2>8. /\ attempt' = Append(attempt, Row(ctl.inc, repair.version))
          /\ repair.version \in 0..MaxVersion /\ UNCHANGED repair
          /\ repair.state \notin {"observed", "frozen", "reserved", "blocked"}
      BY <1>2, <2>1, <2>3, <2>6 DEF Nil
    <2>9. disk' = Append(disk, Directory) /\ (Last > 0 => entry.owner /\ attempt[Last].quiescent)
      BY <2>1, <2>2
    <2> QED BY <1>1, <1>2, <2>4, <2>5, <2>7, <2>8, <2>9, AttemptStep
  <1>6. ASSUME NEW a \in Attempts, Replace(a) PROVE AttemptInv'
    <2>1. /\ a = Last /\ Last > 0 /\ entry.owner /\ attempt[Last].quiescent /\ entry' = entry
          /\ repair.state \notin {"observed", "frozen", "reserved", "blocked"} \/ Rejected(Last)
          /\ ~Repairing(Last) /\ Retryable(Last)
      BY <1>3, <1>6 DEF Replace, Resumable, Tick
    <2>2. ~Rejected(Last)
      BY <2>1 DEF Rejected, Retryable, Nil
    <2>3. attempt[Last].version = repair.version BY <2>1, <2>2 DEF AttemptInv, VersionsCurrent
    <2> DEFINE r == [attempt[Last] EXCEPT !.state = "interrupted"]
               old == [attempt EXCEPT ![Last] = r]
    <2>4. attempt[Last] \in RowRecs BY <2>1, LastRow
    <2>5. /\ r \in RowRecs /\ r.quiescent = attempt[Last].quiescent /\ r.inc = attempt[Last].inc
          /\ r.state = "interrupted"
      BY ONLY <2>4 DEF RowRecs
    <2>6. old = [attempt EXCEPT ![Last].state = "interrupted"] OBVIOUS
    <2> HIDE DEF r
    <2>7. /\ old \in Seq(RowRecs) /\ Len(old) = Last
          /\ \A b \in 1..Last : old[b] = IF b = Last THEN r ELSE attempt[b]
      BY <1>1, <2>1, <2>5, ReplacedAt, Last \in 1..Len(attempt) DEF Last
    <2>8. /\ attempt' = Append(old, Row(ctl.inc, repair.version)) /\ disk' = Append(disk, Directory)
      BY <1>6, <2>1, <2>3, <2>6 DEF Replace, Persist
    <2> HIDE DEF old
    <2>9. \A b \in Attempts : /\ old[b].quiescent = attempt[b].quiescent
                              /\ old[b].inc = attempt[b].inc
                              /\ old[b].state # "prepared" \/ old[b].state = attempt[b].state
      BY <2>5, <2>7, LastRow
    <2>10. TypedRest' /\ repair.version \in 0..MaxVersion
      BY <1>1, <1>2, <2>1 DEF TypedRest
    <2> QED BY <1>1, <1>2, <2>1, <2>2, <2>7, <2>8, <2>9, <2>10, AttemptStep
  <1>7. ASSUME NEW a \in Attempts, Revalidate(a) PROVE AttemptInv'
    <2>1. /\ a = Last /\ Last > 0 /\ entry.owner /\ attempt[Last].quiescent /\ entry' = entry
          /\ repair.state = "merged"
          /\ attempt' = Append(attempt, Row(ctl.inc, repair.version)) /\ disk' = Append(disk, Directory)
      BY <1>3, <1>7 DEF Revalidate, Persist
    <2>2. TypedRest' /\ repair.version \in 0..MaxVersion
      BY <1>1, <1>2, <2>1 DEF TypedRest
    <2>3. Len(attempt) = Last BY DEF Last
    <2> QED BY <1>1, <1>2, <2>1, <2>2, <2>3, AttemptStep
  <1> QED BY <1>4, <1>6, <1>7

\* Recovery, release, repair, controls and time.
LEMMA OtherActions ==
  ASSUME AttemptInv,
         \/ Recover \/ Settle \/ RepairStep \/ Crash \/ Restart \/ Control \/ Lift \/ Pass
         \/ \E a \in Attempts : ControlRenew(a)
  PROVE  AttemptInv'
  <1>1. /\ attempt \in Seq(RowRecs) /\ disk \in Seq(DiskRecs) /\ Len(disk) = Last
        /\ Last <= MaxAttempts /\ TypedRest /\ Last \in Nat /\ Attempts = 1..Last
        /\ entry.owner => entry.done = 0 /\ Last > 0
    BY TypesSplit, LastRow DEF AttemptInv, Shaped
  <1>2. UNCHANGED <<attempt, disk>>
    BY DEF Recover, Settle, RepairStep, Crash, Restart, Control, Lift, Pass, ControlRenew
  <1>3. CASE Recover
    <2>1. /\ ctl' = [ctl EXCEPT !.recovered = TRUE] /\ UNCHANGED <<entry, repair, now, case>>
          /\ entry.owner => attempt[Last].quiescent \/ attempt[Last].state = "prepared" \/ ~Old(Last)
          /\ ~ctl.recovered
      BY <1>3 DEF Recover
    <2>2. TypedRest' /\ ctl'.inc = ctl.inc /\ ctl'.pc = ctl.pc BY <1>1, <2>1 DEF TypedRest
    <2>3. ASSUME entry.owner, NEW a \in Attempts, Old(a) PROVE disk[a].sup \in {Nil, "ended"}
      <3>1. a < Last => attempt[a].quiescent BY DEF AttemptInv, Receipts
      <3>2. attempt[a].quiescent \/ attempt[a].state = "prepared"
        BY <1>1, <2>1, <2>3, <3>1
      <3> QED BY <3>2 DEF AttemptInv, Receipts
    <2>4. ctl.pc = "spawn" => entry.owner BY DEF AttemptInv, SlotHeld
    <2> QED BY <1>2, <2>1, <2>2, <2>3, <2>4, OtherStep
  <1>4. CASE Settle
    <2>1. /\ entry' = [entry EXCEPT !.owner = FALSE] /\ UNCHANGED <<ctl, now, case>>
          /\ entry.cancelled /\ entry.owner
          /\ \A a \in Attempts : attempt[a].quiescent \/ attempt[a].state = "prepared"
          /\ \/ repair' = repair
             \/ repair' = [repair EXCEPT !.state = "cancelled"]
      BY <1>4 DEF Settle
    <2>2. /\ TypedRest' /\ ~entry'.owner /\ entry'.cancelled /\ entry'.done = entry.done
          /\ repair'.version = repair.version
      BY <1>1, <2>1 DEF TypedRest
    <2>3. \A a \in Attempts : disk[a].sup \in {Nil, "ended"}
      BY <2>1 DEF AttemptInv, Receipts
    <2>4. \A a \in Attempts : ~LiveAttempt(a) BY <2>3 DEF LiveAttempt, Running, Nil
    <2>5. ctl.pc # "spawn"
      <3>1. Last \in Attempts BY <1>1, <2>1
      <3>2. ctl.pc = "spawn" => attempt[Last].quiescent BY <2>1, <3>1 DEF AttemptInv, SlotHeld
      <3>3. ctl.pc = "spawn" => disk[Last].sup = "ended" BY <3>1, <3>2 DEF AttemptInv, Receipts
      <3> QED BY <3>3 DEF AttemptInv, SlotHeld, Nil
    <2>6. ctl'.recovered => ctl.recovered BY <2>1
    <2> QED BY <1>1, <1>2, <2>1, <2>2, <2>4, <2>5, <2>6, OtherStep
  <1>5. CASE RepairStep
    <2>1. /\ UNCHANGED <<entry, ctl, now, case>> /\ entry.owner
      BY <1>5 DEF RepairStep, Allowed
    <2>2. /\ repair.state \in {"observed", "frozen", "reserved"}
          /\ repair'.version = repair.version \/ repair'.state = "merged"
          /\ TypedRest'
      <3>1. CASE \E s \in {"frozen", "reserved", "blocked"} : repair' = [repair EXCEPT !.state = s]
        BY <1>1, <1>5, <2>1, <3>1 DEF RepairStep, TypedRest
      <3>2. CASE /\ repair.state = "reserved" /\ repair.version < MaxVersion
                 /\ repair' = [repair EXCEPT !.state = "merged", !.version = @ + 1]
        <4>1. repair.version \in 0..MaxVersion BY <1>1 DEF TypedRest
        <4>2. repair.version + 1 \in 0..MaxVersion BY ONLY <4>1, <3>2, IntegrationAssumption
        <4> QED BY <1>1, <2>1, <3>2, <4>2 DEF TypedRest
      <3> QED BY <1>5, <3>1, <3>2 DEF RepairStep
    <2>3. ctl.pc = "spawn" => entry.owner BY <2>1
    <2> QED BY <1>2, <2>1, <2>2, <2>3, OtherStep
  <1>6. CASE Crash
    <2>1. /\ ctl' = [ctl EXCEPT !.up = FALSE, !.pc = "idle"] /\ UNCHANGED <<entry, repair, now>>
          /\ case.more > 0 /\ case' = [case EXCEPT !.more = @ - 1]
      BY <1>6 DEF Crash, Fault
    <2>2. TypedRest' /\ ctl'.inc = ctl.inc /\ ctl'.pc # "spawn" /\ ctl'.recovered = ctl.recovered
      <3>1. case' \in CaseRecords BY <1>1, <2>1, FaultTyped
      <3> QED BY <1>1, <2>1, <3>1 DEF TypedRest
    <2> QED BY <1>2, <2>1, <2>2, OtherStep
  <1>7. CASE Restart
    <2>1. /\ ctl' = [up |-> TRUE, inc |-> ctl.inc + 1, recovered |-> FALSE, pc |-> "idle"]
          /\ ctl.inc < MaxInc /\ UNCHANGED <<entry, repair, now, case>>
      BY <1>7 DEF Restart
    <2>2. TypedRest' /\ ~ctl'.recovered /\ ctl'.pc # "spawn"
      BY <1>1, <2>1, IntegrationAssumption DEF TypedRest
    <2> QED BY <1>2, <2>1, <2>2, OtherStep
  <1>8. CASE Control \/ Lift
    <2>1. /\ UNCHANGED <<ctl, repair, now>>
          /\ \/ entry' = [entry EXCEPT !.paused = TRUE]
             \/ entry' = [entry EXCEPT !.revoked = TRUE]
             \/ entry' = [entry EXCEPT !.cancelled = TRUE]
             \/ entry' = [entry EXCEPT !.paused = FALSE]
          /\ \/ case' = case
             \/ case.more > 0 /\ case' = [case EXCEPT !.more = @ - 1]
      BY <1>8 DEF Control, Lift, Fault
    <2>2. case' \in CaseRecords
      <3>1. CASE case' = case BY <1>1, <3>1 DEF TypedRest
      <3>2. CASE case.more > 0 /\ case' = [case EXCEPT !.more = @ - 1] BY <1>1, <3>2, FaultTyped
      <3> QED BY <2>1, <3>1, <3>2
    <2>3. TypedRest' /\ entry'.owner = entry.owner /\ entry'.done = entry.done
          /\ (entry.cancelled => entry'.cancelled)
      BY <1>1, <2>1, <2>2, ZenonT(60) DEF TypedRest
    <2>4. ctl.pc = "spawn" => entry.owner BY DEF AttemptInv, SlotHeld
    <2> QED BY <1>2, <2>1, <2>3, <2>4, OtherStep
  <1>9. CASE Pass
    <2>1. /\ UNCHANGED <<entry, ctl, repair, case>> /\ now' = now + 1 /\ now < MaxNow
      BY <1>9 DEF Pass
    <2>2. TypedRest' BY <1>1, <2>1, IntegrationAssumption DEF TypedRest
    <2>3. ctl.pc = "spawn" => entry.owner BY DEF AttemptInv, SlotHeld
    <2> QED BY <1>2, <2>1, <2>2, <2>3, OtherStep
  <1>10. CASE \E a \in Attempts : ControlRenew(a)
    <2>1. /\ ctl' = [ctl EXCEPT !.pc = "renew"] /\ UNCHANGED <<entry, repair, now, case>>
      BY <1>10 DEF ControlRenew
    <2>2. TypedRest' /\ ctl'.inc = ctl.inc /\ ctl'.pc # "spawn" /\ ctl'.recovered = ctl.recovered
      BY <1>1, <2>1 DEF TypedRest
    <2> QED BY <1>2, <2>1, <2>2, OtherStep
  <1> QED BY <1>3, <1>4, <1>5, <1>6, <1>7, <1>8, <1>9, <1>10

----------------------------------------------------------------------------
(* The theorems. *)

\* Nothing was claimed yet.
LEMMA InvInit == IntegrationInit => AttemptInv
  <1> SUFFICES ASSUME IntegrationInit PROVE AttemptInv
    OBVIOUS
  <1>1. /\ attempt = <<>> /\ disk = <<>> /\ Len(attempt) = 0 /\ Len(disk) = 0
        /\ attempt \in Seq(RowRecs) /\ disk \in Seq(DiskRecs) /\ DOMAIN attempt = {}
    BY DEF IntegrationInit
  <1>2. Last = 0 /\ Attempts = {} BY <1>1 DEF Last, Attempts
  <1>3. TypedRest BY IntegrationAssumption DEF IntegrationInit, TypedRest, Nil
  <1>4. AttemptTypes
    <2>1. Shaped BY <1>1, <1>2, <1>3, IntegrationAssumption DEF Shaped
    <2> QED BY <2>1, TypesSplit
  <1>5. Receipts BY <1>2 DEF Receipts
  <1>6. SlotHeld BY <1>2 DEF IntegrationInit, SlotHeld
  <1>7. OldStopped BY DEF IntegrationInit, OldStopped
  <1>8. VersionsCurrent BY DEF IntegrationInit, VersionsCurrent
  <1>9. Accepted BY DEF IntegrationInit, Accepted
  <1> QED BY <1>4, <1>5, <1>6, <1>7, <1>8, <1>9 DEF AttemptInv

\* Every step of the system keeps the invariant.
LEMMA InvStep == AttemptInv /\ [IntegrationNext]_integrationVars => AttemptInv'
  <1> SUFFICES ASSUME AttemptInv, [IntegrationNext]_integrationVars PROVE AttemptInv'
    OBVIOUS
  <1>1. CASE UNCHANGED integrationVars
    BY <1>1 DEF integrationVars, AttemptInv, AttemptTypes, IntegrationTypes, Receipts, SlotHeld, OldStopped, VersionsCurrent, Accepted,
         AcceptedOnRequired, Rejected, Old, LiveAttempt, Attempts, Last
  <1>2. CASE IntegrationNext
    <2>1. ASSUME NEW a \in Attempts,
                 WorkerStep(a) \/ SupervisorStep(a) \/ ObserveMissing(a) \/ ObserveGone(a)
                 \/ Killed(a) \/ Die(a) \/ Drift(a) \/ Excess(a)
          PROVE  AttemptInv'
      BY <2>1, RowActions, FinishActions, DirectoryActions, AttemptActions, OtherActions
         DEF WorkerStep, SupervisorStep
    <2> QED BY <1>2, <2>1, AttemptActions, OtherActions DEF IntegrationNext
  <1> QED BY <1>1, <1>2

\* What rows, directories, slot, recovery and repairs say of each other is
\* inductive: every step of the worker, the recovery, the supervisor and every
\* disturbance keeps it.
THEOREM AttemptsInductive == IntegrationSpec => []AttemptInv
  BY InvInit, InvStep, PTL DEF IntegrationSpec

\* One supervisor works at a time and under the slot, recovery leaves none of an
\* earlier controller behind, and only an ended attempt that passed on the
\* versions every merged repair is part of accepts the item (integration_worker,
\* integration_retry, integration_store, linked_integration).
THEOREM AttemptsSound == IntegrationSpec => []AttemptsHold
  BY AttemptsInductive, InvImplies, PTL

==============================================================================
