--------------------------- MODULE ReviewLifecycle ---------------------------
(***************************************************************************)
(* The review of one artifact (area, slug): the handlers of                *)
(* server/src/services/review.ts that write its versions, explicit         *)
(* outcomes, approvals and review requests, and the two site-admin         *)
(* handlers that reach into those rows.  Each action is one whole RPC, run *)
(* alone; ReviewTransactions has the same handlers statement by statement. *)
(*                                                                         *)
(* Tables are sets of rows.  An RPC that is refused, or that writes        *)
(* nothing, is a stuttering step and has no action.                        *)
(***************************************************************************)
EXTENDS Naturals, FiniteSets, Functions, DeriveState

CONSTANTS
    User,         \* people who have signed in
    SiteAdmin,    \* those Neon Auth marks as site admins
    Tombstone,    \* the shared identity eraseUser leaves behind
    Hash,         \* content hashes the build registers
    Frontmatter,  \* the statuses they carry
    RequestId,    \* ids of review_request rows: their number bounds the rows
    MaxClock      \* bound: transactions that stamp a row

ASSUME PeopleAssumption == SiteAdmin \subseteq User /\ Tombstone \notin User
ASSUME FrontmatterAssumption == Frontmatter \subseteq StatusSet \ {"none"}
ASSUME ClockAssumption == MaxClock \in Nat

Reviewer == User \cup {Tombstone}

RoleSet == {"anonymous", "reviewer", "maintainer"}

Version == [hash : Hash, status : Frontmatter, at : Nat]
Outcome == [state : OutcomeSet, at : Nat]
Approval == [approver : Reviewer, at : Nat]
Request ==
    [ id          : RequestId,
      reviewer    : Reviewer,
      by          : User,
      requirement : {"optional", "required"},
      status      : {"open", "satisfied", "cancelled"},
      satisfiedAt : Nat ]

VARIABLES
    clock,        \* now() of the next transaction
    registered,   \* ids with a user_identity row
    role,         \* reviewer_allowlist, "anonymous" for no row
    versions,     \* content_version
    outcome,      \* the latest review_state row
    approvals,    \* content_approval, the rows not dismissed
    requests,     \* review_request, in every status
    logged        \* content_event rows the last transaction wrote

vars == <<clock, registered, role, versions, outcome, approvals, requests, logged>>

NoOutcome == [state |-> "none", at |-> Null]

(***************************************************************************)
(* What the handlers read                                                  *)
(***************************************************************************)

(* A site admin is admitted as a maintainer whatever the allowlist says. *)
ViewerRole(u) == IF u \in SiteAdmin THEN "maintainer" ELSE role[u]
Allowlisted(u) == ViewerRole(u) # "anonymous"
Maintainer(u) == ViewerRole(u) = "maintainer"

(* The allowlist alone, as requestReview looks a target up. *)
LookupRole(u) == IF u \in User THEN role[u] ELSE "anonymous"

Latest == CHOOSE v \in versions : \A w \in versions : w.at <= v.at
Status == IF versions = {} THEN "none" ELSE Latest.status

OpenRequests == {r \in requests : r.status = "open"}
HasOpenRequest(u) == \E r \in OpenRequests : r.reviewer = u
HasApproval(u) == \E a \in approvals : a.approver = u

MaxStamp(S) == IF S = {} THEN Null ELSE CHOOSE t \in S : \A s \in S : s <= t

DerivedInput ==
    [ status          |-> Status,
      outcome         |-> outcome.state,
      outcomeAt       |-> outcome.at,
      approvers       |-> {a.approver : a \in approvals},
      latestApproval  |-> MaxStamp({a.at : a \in approvals}),
      openRequired    |-> {r.reviewer : r \in {q \in OpenRequests :
                                                  q.requirement = "required"}},
      hasRequired     |-> \E r \in requests : r.requirement = "required",
      hasOpen         |-> OpenRequests # {},
      latestSatisfied |-> MaxStamp({r.satisfiedAt : r \in requests}) ]

ReviewState == DeriveReviewState(DerivedInput)

(***************************************************************************)
(* Initial state: people have signed in and the allowlist was seeded by    *)
(* hand; nothing is known of the artifact.                                 *)
(***************************************************************************)
Init ==
    /\ clock = 1
    /\ registered = User
    /\ role \in [User -> RoleSet]
    /\ versions = {}
    /\ outcome = NoOutcome
    /\ approvals = {}
    /\ requests = {}
    /\ logged = {}

(* The stamp every row of this transaction carries is the current clock. *)
Tick == clock <= MaxClock /\ clock' = clock + 1

(***************************************************************************)
(* registerVersion: the content hash is the key, so registering a hash     *)
(* again rewrites its row but keeps the row's created_at.                  *)
(***************************************************************************)
ReadinessEvent(hash, status) ==
    IF (Status = "ready") = (status = "ready") THEN {}
    ELSE {<<IF status = "ready" THEN "released" ELSE "unreleased", hash>>}

RegisterVersion(hash, status) ==
    /\ \/ /\ \A v \in versions : v.hash # hash
          /\ versions' = versions \cup
                {[hash |-> hash, status |-> status, at |-> clock]}
          /\ Tick
       \/ /\ \E v \in versions : v.hash = hash
          /\ versions' = {IF v.hash = hash THEN [v EXCEPT !.status = status] ELSE v :
                             v \in versions}
          /\ UNCHANGED clock
    /\ logged' = ReadinessEvent(hash, status)
    /\ UNCHANGED <<registered, role, outcome, approvals, requests>>

(***************************************************************************)
(* transitionReview: the stored outcomes                                   *)
(***************************************************************************)
AllowedTransitions(from) ==
    CASE from \in {"none", "needs-review"} -> {"changes-requested", "approved"}
      [] from = "changes-requested"        -> {"approved"}
      [] from \in {"approved", "released"} -> {"changes-requested"}

TransitionReview(u, to) ==
    /\ Allowlisted(u)
    /\ to = "approved" => Maintainer(u) /\ Status # "private"
    /\ to \in AllowedTransitions(ReviewState)
    /\ outcome' = [state |-> to, at |-> clock]
    /\ logged' = {<<"state", to>>}
    /\ Tick
    /\ UNCHANGED <<registered, role, versions, approvals, requests>>

(***************************************************************************)
(* Sign-off: recordApproval, markReviewed, dismissApproval                 *)
(***************************************************************************)

(* Mutant: only required requests are closed. *)
SatisfyRequiredRequests(u) ==
    requests' = {IF r.status = "open" /\ r.reviewer = u /\ r.requirement = "required"
                 THEN [r EXCEPT !.status = "satisfied", !.satisfiedAt = clock]
                 ELSE r : r \in requests}

(* Close a reviewer's own open requests, of either requirement. *)
SatisfyOpenRequests(u) ==
    requests' = {IF r.status = "open" /\ r.reviewer = u
                 THEN [r EXCEPT !.status = "satisfied", !.satisfiedAt = clock]
                 ELSE r : r \in requests}

SatisfiedEvents(u) == {<<"request-satisfied", r.id>> :
                          r \in {q \in OpenRequests : q.reviewer = u}}

(* Approving again keeps the first row and its stamp. The statement that    *)
(* revives a dismissed row never applies: the insert before it has left an  *)
(* active one.                                                              *)
InsertApproval(u) ==
    approvals' = IF HasApproval(u) THEN approvals
                 ELSE approvals \cup {[approver |-> u, at |-> clock]}

RecordApproval(u) ==
    /\ Allowlisted(u)
    /\ Status # "private"
    /\ InsertApproval(u)
    /\ SatisfyOpenRequests(u)
    /\ logged' = SatisfiedEvents(u) \cup {<<"approved-by", u>>}
    /\ Tick
    /\ UNCHANGED <<registered, role, versions, outcome>>

MarkReviewed(u) ==
    /\ Allowlisted(u)
    /\ Status = "private"
    /\ HasOpenRequest(u)
    /\ SatisfyOpenRequests(u)
    /\ logged' = SatisfiedEvents(u)
    /\ Tick
    /\ UNCHANGED <<registered, role, versions, outcome, approvals>>

(* The request the approval had satisfied stays satisfied. *)
DismissApproval(u, target) ==
    /\ Allowlisted(u)
    /\ target = u \/ Maintainer(u)
    /\ HasApproval(target)
    /\ approvals' = {a \in approvals : a.approver # target}
    /\ logged' = {<<"approval-dismissed", target>>}
    /\ UNCHANGED <<clock, registered, role, versions, outcome, requests>>

(***************************************************************************)
(* requestReview and cancelReviewRequest                                   *)
(***************************************************************************)

(* Mutant: the requirement asked for is taken as it comes. *)
RequirementAsAsked(target, requirement) == requirement

(* An invitee who is not on the allowlist is never a required reviewer. *)
EffectiveRequirement(target, requirement) ==
    IF LookupRole(target) = "anonymous" THEN "optional" ELSE requirement

(* An open request is only ever upgraded, from optional to required. *)
Upgrades(r, requirement) ==
    /\ r.status = "open"
    /\ r.requirement = "optional"
    /\ EffectiveRequirement(r.reviewer, requirement) = "required"

NewRequest(id, u, target, requirement) ==
    [ id          |-> id,
      reviewer    |-> target,
      by          |-> u,
      requirement |-> EffectiveRequirement(target, requirement),
      status      |-> "open",
      satisfiedAt |-> Null ]

UnusedIds == RequestId \ {r.id : r \in requests}

(* Mutant: an approval is withdrawn by an upgrade only. *)
WithdrawnByUpgrade(newcomers, upgraded) ==
    {a \in approvals : \E r \in upgraded : r.reviewer = a.approver}

(* Whoever is asked anew loses the approval they had given. *)
Withdrawn(newcomers, upgraded) ==
    {a \in approvals : \/ a.approver \in newcomers
                       \/ \E r \in upgraded : r.reviewer = a.approver}

(* One transaction for the batch: an open request is upgraded or left as it *)
(* is, anybody else gets a new one.                                         *)
RequestReview(u, targets, requirement) ==
    LET upgraded == {r \in requests : r.reviewer \in targets /\ Upgrades(r, requirement)}
        newcomers == {t \in targets : ~HasOpenRequest(t)}
        withdrawn == Withdrawn(newcomers, upgraded)
    IN  /\ Allowlisted(u)
        /\ targets \subseteq registered
        /\ upgraded # {} \/ newcomers # {}
        /\ \E ids \in Injection(newcomers, UnusedIds) :
              LET inserted == {NewRequest(ids[t], u, t, requirement) : t \in newcomers}
              IN  /\ requests' = (requests \ upgraded)
                                  \cup {[r EXCEPT !.requirement = "required"] : r \in upgraded}
                                  \cup inserted
                  /\ logged' = {<<"review-requested", r.id>> : r \in upgraded \cup inserted}
                                \cup {<<"approval-dismissed", a.approver>> : a \in withdrawn}
        /\ approvals' = approvals \ withdrawn
        /\ UNCHANGED <<clock, registered, role, versions, outcome>>

(* Mutant: a closed request can be cancelled as well. *)
CancelAnyRequest(u, r) ==
    /\ Allowlisted(u)
    /\ Maintainer(u) \/ r.by = u
    /\ requests' = (requests \ {r}) \cup {[r EXCEPT !.status = "cancelled"]}
    /\ logged' = {<<"request-cancelled", r.id>>}
    /\ UNCHANGED <<clock, registered, role, versions, outcome, approvals>>

CancelReviewRequest(u, r) ==
    /\ Allowlisted(u)
    /\ r.status = "open"
    /\ Maintainer(u) \/ r.by = u
    /\ requests' = (requests \ {r}) \cup {[r EXCEPT !.status = "cancelled"]}
    /\ logged' = {<<"request-cancelled", r.id>>}
    /\ UNCHANGED <<clock, registered, role, versions, outcome, approvals>>

(***************************************************************************)
(* deleteContent, manageAllowlist and eraseUser                            *)
(***************************************************************************)
DeleteContent(u) ==
    /\ Maintainer(u)
    /\ versions # {} \/ outcome # NoOutcome \/ approvals # {} \/ requests # {}
    /\ versions' = {}
    /\ outcome' = NoOutcome
    /\ approvals' = {}
    /\ requests' = {}
    /\ logged' = {}
    /\ UNCHANGED <<clock, registered, role>>

RemovesLastMaintainer(target, newRole) ==
    /\ role[target] = "maintainer"
    /\ newRole # "maintainer"
    /\ Cardinality({u \in User : role[u] = "maintainer"}) <= 1

(* ADD with a role, or REMOVE (newRole = "anonymous"), by a site admin. *)
ManageAllowlist(target, newRole) ==
    /\ SiteAdmin # {}
    /\ newRole # role[target]
    /\ ~RemovesLastMaintainer(target, newRole)
    /\ role' = [role EXCEPT ![target] = newRole]
    /\ logged' = {}
    /\ UNCHANGED <<clock, registered, versions, outcome, approvals, requests>>

(* Mutant: the reference is blanked, which a NOT NULL column cannot hold. *)
Blanked(u, id) == IF id = u THEN Null ELSE id

Anonymised(u, id) == IF id = u THEN Tombstone ELSE id

(* Mutant: the approvals are deleted with their author. *)
DeletedApprovals(u) == {a \in approvals : a.approver # u}

ErasedApprovals(u) ==
    {[a EXCEPT !.approver = Anonymised(u, a.approver)] : a \in approvals}

(* Mutant: the requests of an erased person stay open. *)
HandedOverRequests(u) ==
    {[r EXCEPT !.reviewer = Anonymised(u, r.reviewer)] : r \in requests}

ErasedRequests(u) ==
    {[r EXCEPT !.reviewer = Anonymised(u, r.reviewer),
               !.status = IF r.status = "open" /\ r.reviewer = u
                          THEN "cancelled" ELSE r.status] : r \in requests}

(* Approvals and closed requests are handed to the tombstone, open requests *)
(* cancelled without an event.  Two active tombstone approvals would break  *)
(* the unique index, and the erasure then rolls back.                       *)
EraseUser(u) ==
    /\ SiteAdmin # {}
    /\ ~(HasApproval(u) /\ HasApproval(Tombstone))
    /\ registered' = registered \cup {Tombstone}
    /\ approvals' = ErasedApprovals(u)
    /\ requests' = ErasedRequests(u)
    /\ logged' = {}
    /\ UNCHANGED <<clock, role, versions, outcome>>

(***************************************************************************)
(* Specification                                                           *)
(***************************************************************************)
Next ==
    \/ \E h \in Hash, s \in Frontmatter : RegisterVersion(h, s)
    \/ \E u \in User, to \in {"changes-requested", "approved"} : TransitionReview(u, to)
    \/ \E u \in User : RecordApproval(u)
    \/ \E u \in User : MarkReviewed(u)
    \/ \E u \in User, t \in Reviewer : DismissApproval(u, t)
    \/ \E u \in User, ts \in SUBSET Reviewer, q \in {"optional", "required"} :
          RequestReview(u, ts, q)
    \/ \E u \in User, r \in requests : CancelReviewRequest(u, r)
    \/ \E u \in User : DeleteContent(u)
    \/ \E u \in User, newRole \in RoleSet : ManageAllowlist(u, newRole)
    \/ \E u \in User : EraseUser(u)

Spec == Init /\ [][Next]_vars

(***************************************************************************)
(* State properties                                                        *)
(***************************************************************************)
EventKind == {"released", "unreleased", "state", "request-satisfied", "approved-by",
              "approval-dismissed", "review-requested", "request-cancelled"}
Event == EventKind \X (Reviewer \cup RequestId \cup Hash \cup OutcomeSet)

(* Every table holds rows of its type, and the log entries are events. *)
TypeOK ==
    /\ clock \in Nat \ {Null}
    /\ registered \subseteq Reviewer
    /\ role \in [User -> RoleSet]
    /\ versions \subseteq Version
    /\ outcome \in Outcome
    /\ approvals \subseteq Approval
    /\ requests \subseteq Request
    /\ logged \subseteq Event

(* Run alone, the handlers never lean on the partial unique indexes: no     *)
(* identity, the shared tombstone included, has two open requests or two    *)
(* active approvals on the artifact.                                        *)
UniqueActiveRows ==
    /\ \A r1, r2 \in requests : r1.id = r2.id => r1 = r2
    /\ \A r1, r2 \in OpenRequests : r1.reviewer = r2.reviewer => r1 = r2
    /\ \A a1, a2 \in approvals : a1.approver = a2.approver => a1 = a2

(* A reviewer is either asked or signed off, never both: requestReview      *)
(* withdraws the approval of whoever it asks anew, recordApproval closes    *)
(* the requests of whoever approves.                                        *)
AskedOrSignedOff ==
    \A u \in User : ~(HasOpenRequest(u) /\ HasApproval(u))

(* An approval that counts is at least as recent as every request its       *)
(* reviewer has answered, so nobody is counted on a sign-off given before   *)
(* they were last asked.                                                    *)
SignOffAnswersLatestRequest ==
    \A a \in approvals, r \in requests :
        a.approver \in User /\ r.reviewer = a.approver => r.satisfiedAt <= a.at

(* Answers were given before now.  With the two invariants above it makes   *)
(* SignOffAnswersLatestRequest inductive: an approval given now is stamped  *)
(* later than every answer there is.                                        *)
AnsweredInThePast == \A r \in requests : r.satisfiedAt < clock

(***************************************************************************)
(* The promise                                                             *)
(***************************************************************************)
Asked == {u \in User : HasOpenRequest(u)}
SignedOff == {u \in User : HasApproval(u)}

Promise == INSTANCE SignOffPromise WITH Person <- User, asked <- Asked, signed <- SignedOff

(* The handlers implement SignOffPromise: whatever a transaction does to    *)
(* rows, requirements and stamps, it asks people and voids what they had    *)
(* signed, takes one sign-off, or lets go of one person or of everybody.    *)
KeepsPromise == Promise!Spec

(***************************************************************************)
(* Action properties                                                       *)
(***************************************************************************)
(* What became of request r in this step. *)
Becomes(r, status) == \E q \in requests' : q.id = r.id /\ q.status = status
Raised(q) == \A r \in requests : r.id = q.id => r.requirement # q.requirement

(* An event says a request was asked for, or upgraded, just when it was. *)
RaisesLogged ==
    \A q \in requests' : q.status = "open" =>
        (<<"review-requested", q.id>> \in logged' <=> Raised(q))

(* The same of a request that was closed, and only an open one is. *)
ClosuresLogged ==
    \A r \in requests :
        /\ <<"request-satisfied", r.id>> \in logged' <=>
               r.status = "open" /\ Becomes(r, "satisfied")
        /\ <<"request-cancelled", r.id>> \in logged' <=>
               r.status = "open" /\ Becomes(r, "cancelled")

(* The same of an approval that was withdrawn or dismissed. *)
DismissalsLogged ==
    \A u \in Reviewer :
        <<"approval-dismissed", u>> \in logged' <=> HasApproval(u) /\ ~HasApproval(u)'

(* Each review-request and approval event names a change its transaction    *)
(* made to that row, and each such change has its event: the timeline       *)
(* accounts for the rows. In particular only an open request is ever        *)
(* satisfied or cancelled. (An erasure and a deletion leave no events.)     *)
TimelineMatchesRows ==
    [][\/ \E u \in User : EraseUser(u) \/ DeleteContent(u)
       \/ RaisesLogged /\ ClosuresLogged /\ DismissalsLogged]_vars

Holding == ReviewState = "changes-requested"
PrivacyFlips == (Status = "private") # (Status = "private")'

(* A change request starts to hold when someone asks for changes or a       *)
(* sign-off that outdated it is withdrawn.                                  *)
HoldStarts ==
    ~Holding /\ Holding' =>
        \/ <<"state", "changes-requested">> \in logged'
        \/ \E u \in Reviewer : <<"approval-dismissed", u>> \in logged'
        \/ PrivacyFlips

(* It stops for a maintainer override, a fresh approval, a private page     *)
(* marked reviewed, or the deletion of the artifact.                        *)
HoldStops ==
    Holding /\ ~Holding' =>
        \/ <<"state", "approved">> \in logged'
        \/ \E a \in approvals' \ approvals : <<"approved-by", a.approver>> \in logged'
        \/ Status = "private" /\ \E i \in RequestId : <<"request-satisfied", i>> \in logged'
        \/ PrivacyFlips
        \/ outcome' = NoOutcome

(* A change request starts and stops holding for these reasons alone.       *)
(* Nothing else a person does moves it; git can only by moving the page     *)
(* into or out of `private`.                                                *)
ChangeRequestHonoured == [][HoldStarts /\ HoldStops]_vars

(* Only somebody on the allowlist is ever made a required reviewer, so an   *)
(* external invitation cannot hold an artifact back. (Removing them from    *)
(* the allowlist afterwards can: their open request stays required.)        *)
RequiredOnlyForAllowlisted ==
    [][\A r \in requests' \ requests :
          r.status = "open" /\ r.requirement = "required" =>
              LookupRole(r.reviewer) # "anonymous"]_vars

(* Erasing a person anonymises what they signed and closes what was asked   *)
(* of them; it never takes back a sign-off, and it never lifts or revives a *)
(* change request.                                                          *)
EraseKeepsSignOff ==
    [][(\E u \in User : EraseUser(u)) =>
          \/ ReviewState' = ReviewState
          \/ ReviewState = "needs-review" /\ ReviewState' \in {"none", "approved"}]_vars

(***************************************************************************)
(* What the documentation says and the code does not do                    *)
(***************************************************************************)

(* A release event says what became of the artifact: after "released" its   *)
(* latest version is `ready`, after "unreleased" it is not.                 *)
ReleaseEventsAreTrue ==
    \A h \in Hash :
        /\ <<"released", h>> \in logged => Status = "ready"
        /\ <<"unreleased", h>> \in logged => Status # "ready"

=============================================================================
