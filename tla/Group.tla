------------------------------- MODULE Group -------------------------------
(***************************************************************************)
(* One group: an imported draft, its review, its authorization and its     *)
(* queue of items, edited by users while the worker executes it.  Every    *)
(* operation is one transaction under advisory lock 13002, so one step.    *)
(* The user who confirms works from what was last read (`seen'), which may *)
(* be outdated; a draft, a review or a difference saved from an outdated   *)
(* screen is refused, so those are saved by users whose screen is current. *)
(*                                                                         *)
(* A child of the document is its order (0: not in the document) and its   *)
(* text, which stands for everything reviewed about it: content, criteria, *)
(* verification, budget and coverage.  Kind, repository and dependencies   *)
(* of a child are constants; every validation_only child is authorized as  *)
(* an integration.  Amounts are Budget's, Runs are Execution's, the rounds *)
(* of an integration are Integration's.                                    *)
(***************************************************************************)
EXTENDS Integers, Sequences, FiniteSets, FiniteSetsExt

CONSTANTS
    Children,
    Kind,         \* Child.kind
    Texts,        \* versions of a child's reviewed content
    Cases         \* the groups and what users do with them, see left

None == "none"
In(doc) == {c \in Children : doc[c].order > 0}
Docs == [Children -> [order : Nat, text : Texts]]

\* a repository is a number; what a case lets users write is any set of documents
CaseRecs(c) ==
    [repo : [Children -> Nat], deps : [Children -> SUBSET Children], first : Docs, docs : SUBSET Docs,
     fullChain : BOOLEAN, commands : {c.commands}, more : Nat]

\* a document has children (draft::validate), and no child is named like the free slot
ASSUME GroupAssumption ==
    /\ IsFiniteSet(Children) /\ Kind \in [Children -> {"code_change", "validation_only"}]
    /\ None \notin Children
    /\ \A c \in Cases : c \in CaseRecs(c) /\ \A doc \in c.docs \cup {c.first} : In(doc) # {}

VARIABLES
    draft,     \* imported_draft: version and document
    review,    \* group_review: version, draft revision, repository version; 0: none
    queue,     \* group_queue: state, version, authorization
    auths,     \* group_authorization by id; `saw' is what its user had on the screen
    edit,      \* group_edit: the pending difference; version 0: none
    item,      \* group_execution_item with its Requirement, claim input and completion
    owner,     \* execution_control.requirement_id
    accepted,  \* group_acceptance
    policy,    \* version of the repositories
    seen,      \* what the user read last
    left       \* the case: repo, deps, fullChain, the first document and those users
               \* write, the commands they give, and how many more succeed

Repo == left.repo              \* Child.repository_id
Deps == left.deps              \* Child.depends_on
FullChain == left.fullChain    \* Review.full_chain_acs is not empty

rows == <<draft, review, queue, auths, edit>>
vars == <<rows, item, owner, accepted, policy, seen, left>>

NoItem == [req |-> "none", text |-> 0, order |-> 0, auth |-> 0, frozen |-> FALSE, removed |-> FALSE,
           draft |-> 0, review |-> 0, begun |-> FALSE, input |-> {}, done |-> 0]
NoEdit == [ver |-> 0, doc |-> <<>>, policy |-> 0, parent |-> 0, affected |-> {}]

(***************************************************************************)
(* What a review must satisfy (group_review.rs, draft.rs).                 *)
(***************************************************************************)
ValidOrder(doc) ==
    \A c \in In(doc) :
       /\ \A d \in In(doc) \ {c} : doc[d].order # doc[c].order
       /\ \A d \in Deps[c] : d \in In(doc) /\ doc[d].order < doc[c].order

\* the children c transitively depends on, itself included
Reaches(doc, c) ==
    LET near[n \in Nat] ==
          IF n = 0 THEN {c}
          ELSE LET last == near[n - 1] IN last \cup UNION {Deps[d] : d \in last \cap In(doc)}
    IN near[Cardinality(Children)]

Final(doc) == CHOOSE c \in In(doc) : \A d \in In(doc) : doc[d].order <= doc[c].order

ValidIntegration(doc) ==
    FullChain => /\ Kind[Final(doc)] = "validation_only"
                 /\ \A c \in In(doc) : Kind[c] = "code_change" => c \in Reaches(doc, Final(doc))

\* an authorized integration lists the repository of every earlier code child:
\* the repositories of Integration are all of them, so only the versions can be wrong
Valid(doc, parent, revision, version) ==
    /\ parent = revision /\ version = policy
    /\ In(doc) # {} /\ ValidOrder(doc) /\ ValidIntegration(doc)

(***************************************************************************)
(* Items.                                                                  *)
(***************************************************************************)
On(c) == item[c].req # "none" /\ ~item[c].removed
Cancelled(c) == item[c].req \in {"Cancelled", "Cleaned"}
Materialized == \E c \in Children : item[c].req # "none"

M_UnstartedAny(items, C) == TRUE
M_UnstartedReady(items, C) ==
    \A c \in C : items[c].req \in {"none", "Ready"} /\ items[c].done = 0
\* group_edit_store::unstarted
Unstarted(items, C) ==
    \A c \in C : items[c].req \in {"none", "Ready"} /\ ~items[c].begun /\ items[c].done = 0

\* what materialize makes of the authorized document
Projected ==
    IF Materialized \/ queue.state # "waiting_scheduler" THEN item
    ELSE LET a == auths[queue.auth] IN
         [c \in Children |->
            IF c \notin In(a.doc) THEN NoItem
            ELSE [NoItem EXCEPT !.req = "Ready", !.text = a.doc[c].text, !.order = a.doc[c].order,
                                !.auth = queue.auth, !.draft = a.draft, !.review = a.review]]

Authorized(c) ==
    /\ queue.state = "waiting_scheduler"
    /\ ~item[c].frozen /\ ~item[c].removed
    /\ item[c].draft = draft.ver /\ item[c].review = review.ver

\* execution_queue: cancelled and cleaned items left it, completed ones too
Queued == {c \in Children : On(c) /\ item[c].req # "Cleaned" /\ item[c].done # item[c].auth}
IsHead(c) == c \in Queued /\ \A d \in Queued : item[c].order <= item[d].order
Paused(c) == item[c].req # "Ready" \/ item[c].frozen

Complete(c) == item[c].done = item[c].auth /\ item[c].req \in {"Submitted", "Done"}
Earlier(c) == {d \in Children : On(d) /\ item[d].order < item[c].order}
Needed(c) == Deps[c] \cup {d \in Earlier(c) : Repo[d] = Repo[c]}
Dependencies(c) == \A d \in Needed(c) : Complete(d)

Init ==
    /\ left \in Cases
    /\ draft = [ver |-> 1, doc |-> left.first]
    /\ review = [ver |-> 0, draft |-> 0, policy |-> 0]
    /\ queue = [state |-> "none", ver |-> 0, auth |-> 0]
    /\ auths = <<>> /\ edit = NoEdit
    /\ item = [c \in Children |-> NoItem]
    /\ owner = None /\ accepted = {} /\ policy = 1
    /\ seen = [draft |-> 0, review |-> 0, queue |-> 0, edit |-> 0, doc |-> left.first, after |-> <<>>]

(***************************************************************************)
(* Users.                                                                  *)
(***************************************************************************)
Command(name) ==
    /\ name \in left.commands /\ left.more > 0
    /\ left' = [left EXCEPT !.more = @ - 1]

Read ==
    \* a screen that is up to date is not read again
    /\ seen' = [draft |-> draft.ver, review |-> review.ver, queue |-> queue.ver, edit |-> edit.ver,
                doc |-> draft.doc, after |-> edit.doc]
    /\ UNCHANGED <<rows, item, owner, accepted, policy, left>>

M_InvalidateBound ==
    /\ queue' = IF queue.ver = 0 THEN queue
                ELSE [queue EXCEPT !.state = "needs_review", !.ver = @ + 1]
Invalidate ==
    /\ ~Materialized
    /\ queue' = IF queue.ver = 0 THEN queue
                ELSE [queue EXCEPT !.state = "needs_review", !.ver = @ + 1]

SaveDraft ==
    \E doc \in left.docs :
       /\ Command("draft")
       /\ doc # draft.doc
       /\ Invalidate
       /\ draft' = [ver |-> draft.ver + 1, doc |-> doc]
       /\ UNCHANGED <<review, auths, edit, item, owner, accepted, policy, seen>>

SaveReview ==
    /\ Command("review")
    /\ Invalidate
    /\ review' = [ver |-> review.ver + 1, draft |-> draft.ver, policy |-> policy]
    /\ UNCHANGED <<draft, auths, edit, item, owner, accepted, policy, seen>>

CheckVersions == seen.draft = draft.ver /\ seen.review = review.ver
NewAuth(doc, ver, rev, saw) ==
    [doc |-> doc, draft |-> ver, review |-> rev, saw |-> saw]

M_ConfirmLatest ==
    /\ Command("confirm")
    /\ review.ver > 0 /\ \A a \in DOMAIN auths : auths[a].review # review.ver
    /\ Valid(draft.doc, review.draft, draft.ver, review.policy)
    /\ auths' = Append(auths, NewAuth(draft.doc, draft.ver, review.ver, seen.doc))
    /\ queue' = [state |-> "waiting_scheduler", ver |-> queue.ver + 1, auth |-> Len(auths) + 1]
    /\ UNCHANGED <<draft, review, edit, item, owner, accepted, policy, seen>>
M_ConfirmAgain ==
    /\ Command("confirm") /\ CheckVersions
    /\ review.ver > 0
    /\ Valid(draft.doc, review.draft, draft.ver, review.policy)
    /\ auths' = Append(auths, NewAuth(draft.doc, draft.ver, review.ver, seen.doc))
    /\ queue' = [state |-> "waiting_scheduler", ver |-> queue.ver + 1, auth |-> Len(auths) + 1]
    /\ UNCHANGED <<draft, review, edit, item, owner, accepted, policy, seen>>
\* a repeated request id is answered from its row and changes nothing
Confirm ==
    /\ Command("confirm") /\ CheckVersions
    /\ review.ver > 0 /\ \A a \in DOMAIN auths : auths[a].review # review.ver
    /\ Valid(draft.doc, review.draft, draft.ver, review.policy)
    /\ auths' = Append(auths, NewAuth(draft.doc, draft.ver, review.ver, seen.doc))
    /\ queue' = [state |-> "waiting_scheduler", ver |-> queue.ver + 1, auth |-> Len(auths) + 1]
    /\ UNCHANGED <<draft, review, edit, item, owner, accepted, policy, seen>>

\* a queue edit: CAS on the queue, then the projection if it is still due
QueueEdit(name, auth) ==
    /\ Command(name)
    /\ queue.state = "waiting_scheduler"
    /\ queue' = [queue EXCEPT !.ver = @ + 1, !.auth = auth]

\* the document with the orders of the queue
Ordered(items, doc) ==
    [c \in Children |-> IF items[c].req # "none" /\ ~items[c].removed /\ doc[c].order > 0
                        THEN [doc[c] EXCEPT !.order = items[c].order] ELSE doc[c]]
SetOrder(items, doc) ==
    [c \in Children |-> IF doc[c].order > 0 THEN [items[c] EXCEPT !.order = doc[c].order] ELSE items[c]]

Permutations(C) == {p \in [C -> 1..Cardinality(C)] : \A c, d \in C : p[c] = p[d] => c = d}
Moved(old, doc) == {c \in In(old) \cap In(doc) : old[c].order # doc[c].order}

Reorder ==
    LET old == Ordered(Projected, draft.doc) IN
    \E p \in Permutations(In(old)) :
    LET doc == [c \in Children |-> IF c \in In(old) THEN [old[c] EXCEPT !.order = p[c]] ELSE old[c]] IN
       /\ QueueEdit("reorder", queue.auth) /\ edit.ver = 0
       /\ ValidOrder(doc) /\ Unstarted(Projected, Moved(old, doc))
       /\ item' = SetOrder(Projected, doc)
       /\ UNCHANGED <<draft, review, auths, edit, owner, accepted, policy, seen>>

Changed(old, new) ==
    {c \in In(old) \cup In(new) : (c \in In(old)) # (c \in In(new)) \/ old[c].text # new[c].text}
Builds(doc, c, C) ==
    \/ Deps[c] \cap C # {}
    \/ \E d \in C \cap In(doc) : Repo[d] = Repo[c] /\ doc[d].order < doc[c].order

M_AffectedChanged(old, new) == Changed(old, new)
\* what changed, and what builds on it before or after: the loop adds to the changed
\* children until it finds nothing more, and so ends with the least set it cannot leave
Closed(old, new, C) ==
    /\ Changed(old, new) \subseteq C
    /\ \A c \in In(old) : Builds(old, c, C) => c \in C
    /\ \A c \in In(new) : Builds(new, c, C) => c \in C
Affected(old, new) == {c \in Children : \A C \in SUBSET Children : Closed(old, new, C) => c \in C}

M_FrozenNone(items, C) == items
Frozen(items, C) ==
    [c \in Children |-> IF items[c].req = "none" THEN items[c] ELSE [items[c] EXCEPT !.frozen = c \in C]]

Propose ==
    \E doc \in left.docs :
    LET old == Ordered(Projected, draft.doc)
        affected == Affected(old, doc)
    IN /\ QueueEdit("propose", queue.auth)
       /\ In(doc) # {} /\ ValidOrder(doc) /\ affected # {}
       /\ Unstarted(Projected, affected \cup Moved(old, doc))
       /\ edit' = [ver |-> queue'.ver, doc |-> doc, policy |-> policy, parent |-> draft.ver + 1, affected |-> affected]
       /\ item' = Frozen(Projected, affected)
       /\ UNCHANGED <<draft, review, auths, owner, accepted, policy, seen>>

M_AppliedFrozen(a) ==
    SetOrder([c \in Children |->
                IF c \notin edit.affected THEN item[c]
                ELSE IF c \notin In(edit.doc) THEN [item[c] EXCEPT !.removed = TRUE, !.frozen = TRUE]
                ELSE [item[c] EXCEPT !.req = "Ready", !.text = edit.doc[c].text, !.auth = a, !.removed = FALSE]], edit.doc)
\* removed items stay with their Requirement; every other affected one is revised or new
Applied(a) ==
    SetOrder([c \in Children |->
                IF c \notin edit.affected THEN item[c]
                ELSE IF c \notin In(edit.doc) THEN [item[c] EXCEPT !.removed = TRUE, !.frozen = TRUE]
                ELSE [item[c] EXCEPT !.req = "Ready", !.text = edit.doc[c].text, !.auth = a,
                                     !.frozen = FALSE, !.removed = FALSE]], edit.doc)

M_ReauthorizeAffected(items, ver, rev) ==
    [c \in Children |-> IF c \notin edit.affected THEN items[c]
                        ELSE [items[c] EXCEPT !.draft = ver, !.review = rev]]
\* the unchanged items too are authorized under the new revisions
Reauthorize(items, ver, rev) ==
    [c \in Children |-> IF items[c].req = "none" THEN items[c]
                        ELSE [items[c] EXCEPT !.draft = ver, !.review = rev]]

Approve ==
    /\ QueueEdit("approve", Len(auths) + 1)
    /\ edit.ver > 0 /\ seen.queue = queue.ver /\ seen.edit = edit.ver
    /\ Unstarted(item, edit.affected)
    /\ edit.policy = policy /\ Valid(edit.doc, edit.parent, edit.parent, edit.policy)
    /\ draft' = [ver |-> edit.parent, doc |-> edit.doc]
    /\ review' = [ver |-> review.ver + 1, draft |-> edit.parent, policy |-> edit.policy]
    /\ auths' = Append(auths, NewAuth(edit.doc, edit.parent, review.ver + 1, seen.after))
    /\ item' = Reauthorize(Applied(Len(auths) + 1), edit.parent, review.ver + 1)
    /\ edit' = NoEdit
    /\ UNCHANGED <<owner, accepted, policy, seen>>

Cancel ==
    \E c \in Children :
       /\ Command("cancel") /\ item[c].req \in {"Ready", "Running", "Submitted"}
       /\ item' = [item EXCEPT ![c].req = "Cancelled"]
       /\ UNCHANGED <<rows, owner, accepted, policy, seen>>

ChangePolicy ==
    /\ Command("policy")
    /\ policy' = policy + 1
    /\ UNCHANGED <<rows, item, owner, accepted, seen>>

(***************************************************************************)
(* The worker.  `owner = None' stands for run_store::claim_allowed.        *)
(***************************************************************************)
Worker == UNCHANGED <<rows, policy, seen, left>>

Materialize ==
    /\ queue.state = "waiting_scheduler" /\ ~Materialized
    /\ item' = Projected
    /\ Worker /\ UNCHANGED <<owner, accepted>>

\* run_store::queued for a code item
Eligible(c) ==
    /\ owner = None /\ Kind[c] = "code_change"
    /\ IsHead(c) /\ ~Paused(c) /\ Authorized(c)

M_PrepareAnytime(c) ==
    /\ Eligible(c) /\ ~item[c].begun
    /\ item' = [item EXCEPT ![c].begun = TRUE, ![c].input = {<<d, item[d].done>> : d \in Needed(c)}]
    /\ Worker /\ UNCHANGED <<owner, accepted>>
\* the baseline contains what the item needs, or the tick ends without a Run
Prepare(c) ==
    /\ Eligible(c) /\ Dependencies(c) /\ ~item[c].begun
    /\ item' = [item EXCEPT ![c].begun = TRUE, ![c].input = {<<d, item[d].done>> : d \in Needed(c)}]
    /\ Worker /\ UNCHANGED <<owner, accepted>>

Claim(c) ==
    /\ Eligible(c) /\ Dependencies(c) /\ item[c].begun
    /\ item' = [item EXCEPT ![c].req = "Running"]
    /\ owner' = c
    /\ Worker /\ UNCHANGED accepted

Submit(c) ==
    /\ item[c].req = "Running" /\ Kind[c] = "code_change"
    /\ item' = [item EXCEPT ![c].req = "Submitted"]
    /\ Worker /\ UNCHANGED <<owner, accepted>>

\* merged and accepted; the Requirement is Done once the actual merge method is known
CompleteItem(c) ==
    \E s \in {"Submitted", "Done"} :
       /\ item[c].req = "Submitted" /\ item[c].done = 0
       /\ item' = [item EXCEPT ![c].done = item[c].auth, ![c].req = s]
       /\ Worker /\ UNCHANGED <<owner, accepted>>

Release(c) ==
    /\ owner = c
    /\ \/ item[c].req \in {"Submitted", "Done"} /\ item[c].done > 0
       \/ item[c].req = "Cleaned"
    /\ owner' = None
    /\ Worker /\ UNCHANGED <<item, accepted>>

Cleanup(c) ==
    /\ item[c].req = "Cancelled"
    /\ item' = [item EXCEPT ![c].req = "Cleaned"]
    /\ Worker /\ UNCHANGED <<owner, accepted>>

\* integration_claim::admission: everything earlier in the queue is complete
StartValidation(c) ==
    /\ owner = None /\ Kind[c] = "validation_only"
    /\ IsHead(c) /\ ~Paused(c) /\ Authorized(c) /\ Dependencies(c)
    /\ \A d \in Earlier(c) : ~Cancelled(d) /\ item[d].done = item[d].auth
    /\ item' = [item EXCEPT ![c].req = "Running", ![c].input = {<<d, item[d].done>> : d \in Earlier(c)}]
    /\ owner' = c
    /\ Worker /\ UNCHANGED accepted

M_Unfinished(items) == FALSE
Unfinished(items) ==
    \/ edit.ver > 0
    \/ \E d \in Children : /\ items[d].req # "none" /\ ~items[d].removed
                           /\ \/ items[d].frozen \/ items[d].req \in {"Cancelled", "Cleaned"}
                              \/ items[d].done # items[d].auth

\* a passed integration completes its item and, as the final child, the parent;
\* the review must still be valid then, or the transaction fails
PassValidation(c) ==
    LET items == [item EXCEPT ![c].done = item[c].auth, ![c].req = "Done"] IN
    /\ owner = c /\ item[c].req = "Running" /\ Kind[c] = "validation_only" /\ Authorized(c)
    /\ item' = items /\ owner' = None
    /\ \/ /\ Unfinished(items) \/ Final(draft.doc) # c
          /\ accepted' = accepted
       \/ /\ ~Unfinished(items) /\ Final(draft.doc) = c
          /\ accepted' = accepted \cup {[auth |-> queue.auth, draft |-> draft.ver, review |-> review.ver]}
    /\ ~Unfinished(items) => Valid(draft.doc, review.draft, draft.ver, review.policy)
    /\ Worker

Next ==
    \/ Read \/ SaveDraft \/ SaveReview \/ Confirm \/ Reorder \/ Propose \/ Approve \/ Cancel \/ ChangePolicy
    \/ Materialize
    \/ \E c \in Children : \/ Prepare(c) \/ Claim(c) \/ Submit(c) \/ CompleteItem(c) \/ Release(c)
                           \/ Cleanup(c) \/ StartValidation(c) \/ PassValidation(c)

Spec == Init /\ [][Next]_vars

Work == Materialize \/ \E c \in Children : \/ Prepare(c) \/ Claim(c) \/ Submit(c) \/ CompleteItem(c) \/ Release(c)
                                         \/ Cleanup(c) \/ StartValidation(c) \/ PassValidation(c)
\* the worker ticks, Runs and integrations end well
FairSpec == Spec /\ WF_vars(Work)

(***************************************************************************)
(* Properties.                                                             *)
(***************************************************************************)
Started(c) == On(c) /\ (item[c].begun \/ item[c].req \in {"Running", "Submitted", "Done"})

TypeOK ==
    /\ In(draft.doc) # {} /\ {draft.ver, review.ver, queue.ver, edit.ver, policy} \subseteq Nat
    /\ queue.state \in {"none", "needs_review", "waiting_scheduler"} /\ queue.auth \in 0..Len(auths)
    /\ edit.affected \subseteq Children
    /\ \A c \in Children : /\ item[c].req \in {"none", "Ready", "Running", "Submitted", "Done", "Cancelled", "Cleaned"}
                           /\ item[c].auth \in 0..Len(auths) /\ item[c].done \in {0, item[c].auth}
                           /\ item[c].begun => item[c].req # "none"
    /\ owner \in Children \cup {None}
    /\ owner # None => item[owner].req \notin {"none", "Ready"}

\* What was authorized is what the user who confirmed it had on the screen, whoever
\* saved a draft, a review or another difference in between (check_versions, the
\* queue version and edit_version).
AuthorizedIsSeen == \A a \in DOMAIN auths : auths[a].doc = auths[a].saw

\* A review version is authorized once, be it by a confirmation or by a difference:
\* the queue is never put under an authorization its items do not have.
AuthorizedOnce == \A a, b \in DOMAIN auths : auths[a].review = auths[b].review => a = b

\* An item under way stays authorized while others are edited and reviewed: every
\* later step of it (dispatch, repair, delivery, merge) asks authorized() again.
StartedStaysAuthorized == \A c \in Children : Started(c) /\ ~Cancelled(c) => Authorized(c)

\* What an item runs on is what was reviewed: its input is the child of the document
\* in force, and every child of that document has its item.
ItemsAreReviewed ==
    /\ Materialized => \A c \in In(draft.doc) : On(c)
    /\ \A c \in Children : On(c) => c \in In(draft.doc) /\ item[c].text = draft.doc[c].text

\* Nothing runs under an older authorization than what it depends on: a change of a
\* child renews everything that builds on it (affected).
NotOlderThanDependencies ==
    \A c \in Children : \A d \in Deps[c] : On(c) => item[d].auth <= item[c].auth

\* While a difference waits for its approval nothing it touches starts.
PendingIsUnstarted == \A c \in edit.affected : ~Started(c)

\* What was bound at the start of an item stays what the item builds on: complete under
\* the bound authorization, unless it is cancelled later.
BoundStays ==
    \A c \in Children : Started(c) /\ ~Cancelled(c) =>
       \A p \in item[c].input : p[2] > 0 /\ (item[p[1]].done = p[2] \/ Cancelled(p[1]))

\* A step of a user never changes what an item that started runs on, nor its authorization.
StartedIsFixed ==
    [][\A c \in Children : Started(c) => /\ item'[c].text = item[c].text /\ item'[c].auth = item[c].auth
                                        /\ ~item'[c].removed /\ (item[c].begun => item'[c].begun)]_vars

\* The parent is accepted only when every item in force is complete and no difference
\* is pending.
AcceptedIsComplete ==
    [][accepted' # accepted => /\ edit.ver = 0
                               /\ \A c \in In(draft.doc) : item'[c].done > 0 /\ ~Cancelled(c)]_vars

\* A group with a full-chain criterion that is authorized and left alone is accepted.
\* Without one the final child may pass before the others are complete, be it by its
\* dependencies or by a reorder, and then nothing accepts the parent.
Undisturbed ==
    /\ FullChain
    /\ queue.state = "waiting_scheduler" /\ edit.ver = 0 /\ policy = review.policy
    /\ \A c \in Children : ~Cancelled(c)
GroupAccepted ==
    (<>[]Undisturbed) => <>(accepted # {} /\ owner = None)

\* The queue stands for one review the user saw: items, their authorizations, their
\* dependencies and what started ones are bound to agree with it.
QueueIsReviewed ==
    /\ TypeOK /\ AuthorizedIsSeen /\ AuthorizedOnce /\ StartedStaysAuthorized
    /\ ItemsAreReviewed /\ NotOlderThanDependencies /\ PendingIsUnstarted
    /\ BoundStays

\* No step changes an item that has started, and the parent is accepted only when
\* everything in force is complete.
StartedAndAccepted == StartedIsFixed /\ AcceptedIsComplete

============================================================================
