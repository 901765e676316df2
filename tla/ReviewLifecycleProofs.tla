------------------------ MODULE ReviewLifecycleProofs ------------------------
(***************************************************************************)
(* What holds of ReviewLifecycle for any people, site admins, content      *)
(* hashes, statuses and number of requests.                                *)
(*                                                                         *)
(* The safety invariants are not inductive one by one.  SignOffAnswers-    *)
(* LatestRequest survives an approval only because whoever has an open     *)
(* request has no approval yet (AskedOrSignedOff), and because the answers *)
(* on record are older than the clock (AnsweredInThePast); IInv is their   *)
(* conjunction with the type invariant.                                    *)
(***************************************************************************)
EXTENDS ReviewLifecycle, TLAPS

SafeRows ==
    /\ AnsweredInThePast
    /\ UniqueActiveRows
    /\ AskedOrSignedOff
    /\ SignOffAnswersLatestRequest

IInv == TypeOK /\ SafeRows

(***************************************************************************)
(* Type correctness                                                        *)
(***************************************************************************)

(* The rows a person's answer leaves behind are still request rows.         *)
LEMMA SatisfiedRowsTyped ==
    ASSUME TypeOK, NEW u \in User, SatisfyOpenRequests(u)
    PROVE  requests' \subseteq Request
BY DEF SatisfyOpenRequests, TypeOK, Request

(* The events a person's answer is logged with are events of known kinds.   *)
LEMMA SatisfiedEventsTyped ==
    ASSUME TypeOK, NEW u \in User
    PROVE  SatisfiedEvents(u) \subseteq Event
BY DEF SatisfiedEvents, OpenRequests, TypeOK, Request, Event, EventKind

(* The tables hold nothing of a wrong type at the start. *)
LEMMA InitTypeOK == Init => TypeOK
BY DEF Init, TypeOK, NoOutcome, Outcome, OutcomeSet, Null, Reviewer, RoleSet

(* registerVersion writes a version row of the right type and at most one   *)
(* release event.                                                           *)
LEMMA RegisterVersionType ==
    ASSUME TypeOK, NEW h \in Hash, NEW s \in Frontmatter, RegisterVersion(h, s)
    PROVE  TypeOK'
<1>1. versions' \subseteq Version
  <2>1. CASE /\ \A v \in versions : v.hash # h
             /\ versions' = versions \cup {[hash |-> h, status |-> s, at |-> clock]}
    BY <2>1 DEF TypeOK, Version
  <2>2. CASE versions' = {IF v.hash = h THEN [v EXCEPT !.status = s] ELSE v : v \in versions}
    BY <2>2 DEF TypeOK, Version
  <2> QED BY <2>1, <2>2 DEF RegisterVersion
<1>2. clock' \in Nat \ {Null}
  BY DEF RegisterVersion, Tick, TypeOK, Null
<1>3. logged' \subseteq Event
  BY DEF RegisterVersion, ReadinessEvent, Event, EventKind
<1> QED BY <1>1, <1>2, <1>3 DEF RegisterVersion, TypeOK

(* transitionReview stores an outcome. *)
LEMMA TransitionReviewType ==
    ASSUME TypeOK, NEW u \in User, NEW to \in {"changes-requested", "approved"},
           TransitionReview(u, to)
    PROVE  TypeOK'
BY DEF TransitionReview, Tick, TypeOK, Outcome, OutcomeSet, Event, EventKind, Null

(* recordApproval writes one approval and closes requests. *)
LEMMA RecordApprovalType ==
    ASSUME TypeOK, NEW u \in User, RecordApproval(u)
    PROVE  TypeOK'
<1>1. approvals' \subseteq Approval
  BY DEF RecordApproval, InsertApproval, TypeOK, Approval, Reviewer
<1>2. requests' \subseteq Request
  BY SatisfiedRowsTyped DEF RecordApproval
<1>3. logged' \subseteq Event
  BY SatisfiedEventsTyped DEF RecordApproval, Event, EventKind, Reviewer
<1> QED BY <1>1, <1>2, <1>3 DEF RecordApproval, Tick, TypeOK, Null

(* markReviewed closes requests and nothing else. *)
LEMMA MarkReviewedType ==
    ASSUME TypeOK, NEW u \in User, MarkReviewed(u)
    PROVE  TypeOK'
<1>1. requests' \subseteq Request
  BY SatisfiedRowsTyped DEF MarkReviewed
<1>2. logged' \subseteq Event
  BY SatisfiedEventsTyped DEF MarkReviewed
<1> QED BY <1>1, <1>2 DEF MarkReviewed, Tick, TypeOK, Null

(* dismissApproval drops one approval. *)
LEMMA DismissApprovalType ==
    ASSUME TypeOK, NEW u \in User, NEW t \in Reviewer, DismissApproval(u, t)
    PROVE  TypeOK'
BY DEF DismissApproval, TypeOK, Event, EventKind

(* requestReview inserts requests with unused ids and upgrades open ones. *)
LEMMA RequestReviewType ==
    ASSUME TypeOK, NEW u \in User, NEW ts \in SUBSET Reviewer,
           NEW q \in {"optional", "required"}, RequestReview(u, ts, q)
    PROVE  TypeOK'
<1> DEFINE upgraded == {r \in requests : r.reviewer \in ts /\ Upgrades(r, q)}
           newcomers == {t \in ts : ~HasOpenRequest(t)}
           withdrawn == Withdrawn(newcomers, upgraded)
<1>1. PICK ids \in Injection(newcomers, UnusedIds) :
        /\ requests' = (requests \ upgraded)
                         \cup {[r EXCEPT !.requirement = "required"] : r \in upgraded}
                         \cup {NewRequest(ids[t], u, t, q) : t \in newcomers}
        /\ logged' = {<<"review-requested", r.id>> :
                         r \in upgraded \cup {NewRequest(ids[t], u, t, q) : t \in newcomers}}
                       \cup {<<"approval-dismissed", a.approver>> : a \in withdrawn}
  BY DEF RequestReview
<1>2. \A t \in newcomers : NewRequest(ids[t], u, t, q) \in Request
  <2>1. \A t \in newcomers : ids[t] \in RequestId
    BY DEF Injection, UnusedIds
  <2> QED BY <2>1 DEF NewRequest, EffectiveRequirement, Request, Null
<1>3. requests' \subseteq Request
  BY <1>1, <1>2 DEF TypeOK, Request
<1>4. logged' \subseteq Event
  BY <1>1, <1>2 DEF Withdrawn, TypeOK, Request, Approval, Event, EventKind
<1> QED BY <1>3, <1>4 DEF RequestReview, Withdrawn, TypeOK

(* cancelReviewRequest closes one request. *)
LEMMA CancelReviewRequestType ==
    ASSUME TypeOK, NEW u \in User, NEW r \in requests, CancelReviewRequest(u, r)
    PROVE  TypeOK'
BY DEF CancelReviewRequest, TypeOK, Request, Event, EventKind

(* eraseUser puts the tombstone, itself a reviewer, where the person was. *)
LEMMA EraseUserType ==
    ASSUME TypeOK, NEW u \in User, EraseUser(u)
    PROVE  TypeOK'
<1>1. approvals' \subseteq Approval
  BY DEF EraseUser, ErasedApprovals, Anonymised, TypeOK, Approval, Reviewer
<1>2. requests' \subseteq Request
  BY DEF EraseUser, ErasedRequests, Anonymised, TypeOK, Request, Reviewer
<1>3. registered' \subseteq Reviewer
  BY DEF EraseUser, TypeOK, Reviewer
<1> QED BY <1>1, <1>2, <1>3 DEF EraseUser, TypeOK

(* No handler puts anything into a table that does not belong there. *)
LEMMA NextTypeOK == TypeOK /\ [Next]_vars => TypeOK'
<1> SUFFICES ASSUME TypeOK, [Next]_vars PROVE TypeOK'
  OBVIOUS
<1>1. ASSUME NEW h \in Hash, NEW s \in Frontmatter, RegisterVersion(h, s) PROVE TypeOK'
  BY <1>1, RegisterVersionType
<1>2. ASSUME NEW u \in User, NEW to \in {"changes-requested", "approved"},
             TransitionReview(u, to)
      PROVE  TypeOK'
  BY <1>2, TransitionReviewType
<1>3. ASSUME NEW u \in User, RecordApproval(u) PROVE TypeOK'
  BY <1>3, RecordApprovalType
<1>4. ASSUME NEW u \in User, MarkReviewed(u) PROVE TypeOK'
  BY <1>4, MarkReviewedType
<1>5. ASSUME NEW u \in User, NEW t \in Reviewer, DismissApproval(u, t) PROVE TypeOK'
  BY <1>5, DismissApprovalType
<1>6. ASSUME NEW u \in User, NEW ts \in SUBSET Reviewer,
             NEW q \in {"optional", "required"}, RequestReview(u, ts, q)
      PROVE  TypeOK'
  BY <1>6, RequestReviewType
<1>7. ASSUME NEW u \in User, NEW r \in requests, CancelReviewRequest(u, r) PROVE TypeOK'
  BY <1>7, CancelReviewRequestType
<1>8. ASSUME NEW u \in User, DeleteContent(u) PROVE TypeOK'
  BY <1>8 DEF DeleteContent, TypeOK, NoOutcome, Outcome, OutcomeSet, Null
<1>9. ASSUME NEW u \in User, NEW newRole \in RoleSet, ManageAllowlist(u, newRole)
      PROVE  TypeOK'
  BY <1>9 DEF ManageAllowlist, TypeOK
<1>10. ASSUME NEW u \in User, EraseUser(u) PROVE TypeOK'
  BY <1>10, EraseUserType
<1>11. CASE UNCHANGED vars
  BY <1>11 DEF vars, TypeOK
<1> QED
  BY <1>1, <1>2, <1>3, <1>4, <1>5, <1>6, <1>7, <1>8, <1>9, <1>10, <1>11 DEF Next

(* The tables hold rows of their types after any sequence of requests. *)
THEOREM TypeCorrect == Spec => []TypeOK
BY InitTypeOK, NextTypeOK, PTL DEF Spec

(***************************************************************************)
(* The rows of requests and approvals                                      *)
(***************************************************************************)

(* Nothing is asked or signed at the start. *)
LEMMA InitSafeRows == Init => SafeRows
BY DEF Init, SafeRows, AnsweredInThePast, UniqueActiveRows, OpenRequests,
       AskedOrSignedOff, SignOffAnswersLatestRequest, HasOpenRequest, HasApproval

(* A handler that leaves requests and approvals alone keeps SafeRows, even  *)
(* when it stamps another row.                                              *)
LEMMA RowsUntouched ==
    ASSUME IInv, clock' >= clock, clock' \in Nat, UNCHANGED <<approvals, requests>>
    PROVE  SafeRows'
<1>1. AnsweredInThePast'
  BY DEF IInv, SafeRows, AnsweredInThePast, TypeOK, Request
<1> QED
  BY <1>1 DEF IInv, SafeRows, UniqueActiveRows, OpenRequests, AskedOrSignedOff,
              SignOffAnswersLatestRequest, HasOpenRequest, HasApproval

(* What satisfying a person's open requests makes of the rows: each row     *)
(* keeps its id and reviewer, and is either left as it was or, when it was  *)
(* an open one of theirs, closed with the current stamp.                    *)
LEMMA SatisfiedRows ==
    ASSUME TypeOK, NEW u \in User, SatisfyOpenRequests(u)
    PROVE  \A q \in requests' : \E r \in requests :
              /\ q.id = r.id
              /\ q.reviewer = r.reviewer
              /\ \/ q = r /\ ~(r.status = "open" /\ r.reviewer = u)
                 \/ /\ r.status = "open"
                    /\ r.reviewer = u
                    /\ q = [r EXCEPT !.status = "satisfied", !.satisfiedAt = clock]
                    /\ q.status = "satisfied"
                    /\ q.satisfiedAt = clock
BY DEF SatisfyOpenRequests, TypeOK, Request

(* An answer, recordApproval's or markReviewed's, keeps SafeRows as long as *)
(* it leaves the other people's approvals alone and gives the one who       *)
(* answers at most the approval they had or one stamped now.                *)
LEMMA AnswerKeepsRows ==
    ASSUME IInv, NEW u \in User, SatisfyOpenRequests(u),
           clock' = clock + 1,
           \/ approvals' = approvals
           \/ ~HasApproval(u) /\ approvals' = approvals \cup {[approver |-> u, at |-> clock]}
    PROVE  SafeRows'
<1> USE DEF IInv, SafeRows
<1>1. \A q \in requests' : \E r \in requests :
         /\ q.id = r.id
         /\ q.reviewer = r.reviewer
         /\ \/ q = r /\ ~(r.status = "open" /\ r.reviewer = u)
            \/ /\ r.status = "open"
               /\ r.reviewer = u
               /\ q = [r EXCEPT !.status = "satisfied", !.satisfiedAt = clock]
               /\ q.status = "satisfied"
               /\ q.satisfiedAt = clock
  BY SatisfiedRows
<1>2. clock \in Nat /\ \A r \in requests : r.satisfiedAt \in Nat
  BY DEF TypeOK, Request
<1>3. \A a \in approvals : a.at \in Nat
  BY DEF TypeOK, Approval
<1>4. \A a \in approvals' : a \in approvals \/ (~HasApproval(u) /\ a.approver = u /\ a.at = clock)
  OBVIOUS
<1>5. AnsweredInThePast'
  <2> SUFFICES ASSUME NEW q \in requests' PROVE q.satisfiedAt < clock + 1
    BY DEF AnsweredInThePast
  <2>1. PICK r \in requests : q.satisfiedAt = r.satisfiedAt \/ q.satisfiedAt = clock
    BY <1>1
  <2> QED BY <2>1, <1>2 DEF AnsweredInThePast
<1>6. UniqueActiveRows'
  <2>1. ASSUME NEW q1 \in requests', NEW q2 \in requests', q1.id = q2.id PROVE q1 = q2
    <3> DEFINE closed(r) == [r EXCEPT !.status = "satisfied", !.satisfiedAt = clock]
               mine(r) == r.status = "open" /\ r.reviewer = u
    <3>1. PICK r1 \in requests : /\ q1.id = r1.id
                                 /\ q1 = IF mine(r1) THEN closed(r1) ELSE r1
      BY <1>1
    <3>2. PICK r2 \in requests : /\ q2.id = r2.id
                                 /\ q2 = IF mine(r2) THEN closed(r2) ELSE r2
      BY <1>1
    <3>3. r1 = r2
      BY <3>1, <3>2, <2>1 DEF UniqueActiveRows
    <3> QED BY <3>1, <3>2, <3>3
  <2>2. ASSUME NEW q1 \in OpenRequests', NEW q2 \in OpenRequests', q1.reviewer = q2.reviewer
        PROVE  q1 = q2
    <3>1. OpenRequests' \subseteq OpenRequests
      <4> SUFFICES ASSUME NEW q \in requests', q.status = "open" PROVE q \in OpenRequests
        BY DEF OpenRequests
      <4>1. PICK r \in requests : q = r \/ q.status = "satisfied"
        BY <1>1
      <4> QED BY <4>1 DEF OpenRequests
    <3> QED BY <3>1, <2>2 DEF UniqueActiveRows
  <2>3. ASSUME NEW a1 \in approvals', NEW a2 \in approvals', a1.approver = a2.approver
        PROVE  a1 = a2
    BY <2>3 DEF UniqueActiveRows, HasApproval
  <2> QED BY <2>1, <2>2, <2>3 DEF UniqueActiveRows
<1>7. AskedOrSignedOff'
  BY <1>1, <1>4 DEF AskedOrSignedOff, HasOpenRequest, HasApproval, OpenRequests
<1>8. SignOffAnswersLatestRequest'
  <2> SUFFICES ASSUME NEW a \in approvals', NEW q \in requests',
                      a.approver \in User, q.reviewer = a.approver
               PROVE  q.satisfiedAt <= a.at
    BY DEF SignOffAnswersLatestRequest
  <2>1. PICK r \in requests :
          /\ q.reviewer = r.reviewer
          /\ \/ q = r
             \/ r.status = "open" /\ r.reviewer = u /\ q.satisfiedAt = clock
    BY <1>1
  <2>2. CASE a \notin approvals
    BY <2>1, <2>2, <1>2, <1>4 DEF AnsweredInThePast
  <2>3. CASE a \in approvals /\ q = r
    BY <2>3 DEF SignOffAnswersLatestRequest
  <2>4. CASE a \in approvals /\ r.status = "open" /\ r.reviewer = u
    BY <2>1, <2>4 DEF AskedOrSignedOff, HasOpenRequest, HasApproval, OpenRequests
  <2> QED BY <2>1, <2>2, <2>3, <2>4
<1> QED BY <1>5, <1>6, <1>7, <1>8

(* Dropping approvals, as dismissApproval does, keeps SafeRows. *)
LEMMA DismissKeepsRows ==
    ASSUME IInv, approvals' \subseteq approvals, requests' = requests, clock' = clock
    PROVE  SafeRows'
<1>1. AnsweredInThePast' /\ AskedOrSignedOff'
  BY DEF IInv, SafeRows, AnsweredInThePast, AskedOrSignedOff, HasOpenRequest,
         HasApproval, OpenRequests
<1>2. UniqueActiveRows' /\ SignOffAnswersLatestRequest'
  BY DEF IInv, SafeRows, UniqueActiveRows, OpenRequests, SignOffAnswersLatestRequest
<1> QED BY <1>1, <1>2 DEF SafeRows

(* Cancelling an open request keeps SafeRows. *)
LEMMA CancelKeepsRows ==
    ASSUME IInv, NEW u \in User, NEW r \in requests, CancelReviewRequest(u, r)
    PROVE  SafeRows'
<1> DEFINE c == [r EXCEPT !.status = "cancelled"]
<1> USE DEF IInv, SafeRows
<1>1. /\ requests' = (requests \ {r}) \cup {c}
      /\ approvals' = approvals /\ clock' = clock
  BY DEF CancelReviewRequest
<1>2. /\ c.id = r.id /\ c.reviewer = r.reviewer /\ c.satisfiedAt = r.satisfiedAt
      /\ c.status = "cancelled"
  BY DEF TypeOK, Request
<1> HIDE DEF c
<1>3. AnsweredInThePast'
  BY <1>1, <1>2 DEF AnsweredInThePast
<1>4. UniqueActiveRows'
  BY <1>1, <1>2 DEF UniqueActiveRows, OpenRequests
<1>5. AskedOrSignedOff'
  BY <1>1, <1>2 DEF AskedOrSignedOff, HasOpenRequest, HasApproval, OpenRequests
<1>6. SignOffAnswersLatestRequest'
  BY <1>1, <1>2 DEF SignOffAnswersLatestRequest
<1> QED BY <1>3, <1>4, <1>5, <1>6

(* A batch of requests keeps SafeRows: it opens a request only for those    *)
(* who have none, under ids nobody uses, and takes from each of them the    *)
(* approval they had; an upgrade changes the requirement alone.             *)
LEMMA RequestKeepsRows ==
    ASSUME IInv, NEW u \in User, NEW ts \in SUBSET Reviewer,
           NEW q \in {"optional", "required"}, RequestReview(u, ts, q)
    PROVE  SafeRows'
<1> DEFINE upgraded == {r \in requests : r.reviewer \in ts /\ Upgrades(r, q)}
           newcomers == {t \in ts : ~HasOpenRequest(t)}
           raised(r) == [r EXCEPT !.requirement = "required"]
<1> USE DEF IInv, SafeRows
<1>1. PICK ids \in Injection(newcomers, UnusedIds) :
        requests' = (requests \ upgraded) \cup {raised(r) : r \in upgraded}
                      \cup {NewRequest(ids[t], u, t, q) : t \in newcomers}
  BY DEF RequestReview
<1>2. /\ approvals' \subseteq approvals
      /\ \A a \in approvals' : a.approver \notin newcomers
      /\ clock' = clock
  BY DEF RequestReview, Withdrawn
<1>3. \A r \in upgraded : /\ raised(r).id = r.id
                          /\ raised(r).reviewer = r.reviewer
                          /\ raised(r).status = "open" /\ r.status = "open"
                          /\ raised(r).satisfiedAt = r.satisfiedAt
  BY DEF Upgrades, TypeOK, Request
<1>4. \A t \in newcomers : /\ NewRequest(ids[t], u, t, q).id = ids[t]
                           /\ NewRequest(ids[t], u, t, q).reviewer = t
                           /\ NewRequest(ids[t], u, t, q).satisfiedAt = Null
                           /\ ids[t] \in UnusedIds
  BY DEF NewRequest, Injection
<1>5. \A t1, t2 \in newcomers : ids[t1] = ids[t2] => t1 = t2
  BY DEF Injection, IsInjective
<1>6. /\ clock \in Nat \ {Null}
      /\ \A r \in requests : r.satisfiedAt \in Nat
      /\ \A a \in approvals : a.at \in Nat
  BY DEF TypeOK, Request, Approval
<1> DEFINE old(x, r) == IF r \in upgraded THEN x = raised(r) ELSE x = r
           new(x, t) == x = NewRequest(ids[t], u, t, q)
<1>7. \A x \in requests' : \/ \E r \in requests : old(x, r)
                           \/ \E t \in newcomers : new(x, t)
  BY <1>1
<1>8. \A x, r : r \in requests /\ old(x, r) =>
          /\ x.id = r.id /\ x.reviewer = r.reviewer
          /\ x.status = r.status /\ x.satisfiedAt = r.satisfiedAt
  BY <1>3
<1> HIDE DEF upgraded, raised
<1>9. \A x, y, r, t : r \in requests /\ t \in newcomers /\ old(x, r) /\ new(y, t) =>
          /\ x.id # y.id
          /\ x.status = "open" => x.reviewer # y.reviewer
  BY <1>4, <1>8 DEF UnusedIds, HasOpenRequest, OpenRequests
<1> HIDE DEF newcomers, old, new
<1>10. AnsweredInThePast'
  <2> SUFFICES ASSUME NEW x \in requests' PROVE x.satisfiedAt < clock
    BY <1>2 DEF AnsweredInThePast
  <2>1. CASE \E r \in requests : old(x, r)
    BY <2>1, <1>8 DEF AnsweredInThePast
  <2>2. CASE \E t \in newcomers : new(x, t)
    BY <2>2, <1>4, <1>6 DEF new, Null
  <2> QED BY <2>1, <2>2, <1>7
<1>11. UniqueActiveRows'
  <2>1. ASSUME NEW x \in requests', NEW y \in requests',
               x.id = y.id \/ (x.status = "open" /\ y.status = "open" /\ x.reviewer = y.reviewer)
        PROVE  x = y
    <3>1. ASSUME NEW r1 \in requests, NEW r2 \in requests, old(x, r1), old(y, r2)
          PROVE  x = y
      <4>1. r1 = r2
        BY <2>1, <3>1, <1>8 DEF UniqueActiveRows, OpenRequests
      <4> QED BY <3>1, <4>1 DEF old
    <3>2. ASSUME NEW t1 \in newcomers, NEW t2 \in newcomers, new(x, t1), new(y, t2)
          PROVE  x = y
      <4>1. t1 = t2
        BY <2>1, <3>2, <1>4, <1>5 DEF new
      <4> QED BY <3>2, <4>1 DEF new
    <3> QED BY <2>1, <3>1, <3>2, <1>7, <1>9
  <2>2. \A a1, a2 \in approvals' : a1.approver = a2.approver => a1 = a2
    BY <1>2 DEF UniqueActiveRows
  <2> QED BY <2>1, <2>2 DEF UniqueActiveRows, OpenRequests
<1>12. AskedOrSignedOff'
  <2> SUFFICES ASSUME NEW v \in User, NEW a \in approvals', a.approver = v,
                      NEW x \in requests', x.status = "open", x.reviewer = v
               PROVE  FALSE
    BY DEF AskedOrSignedOff, HasOpenRequest, HasApproval, OpenRequests
  <2>1. CASE \E r \in requests : old(x, r)
    BY <2>1, <1>2, <1>8 DEF AskedOrSignedOff, HasOpenRequest, HasApproval, OpenRequests
  <2>2. CASE \E t \in newcomers : new(x, t)
    BY <2>2, <1>2, <1>4 DEF new
  <2> QED BY <2>1, <2>2, <1>7
<1>13. SignOffAnswersLatestRequest'
  <2> SUFFICES ASSUME NEW a \in approvals', NEW x \in requests',
                      a.approver \in User, x.reviewer = a.approver
               PROVE  x.satisfiedAt <= a.at
    BY DEF SignOffAnswersLatestRequest
  <2>1. CASE \E r \in requests : old(x, r)
    BY <2>1, <1>2, <1>8 DEF SignOffAnswersLatestRequest
  <2>2. CASE \E t \in newcomers : new(x, t)
    BY <2>2, <1>2, <1>4 DEF new
  <2> QED BY <2>1, <2>2, <1>7
<1> QED BY <1>10, <1>11, <1>12, <1>13

(* An erasure keeps SafeRows: nothing is handed to a person, the requests   *)
(* it hands to the tombstone are closed, and it aborts rather than give the *)
(* tombstone a second approval.                                             *)
LEMMA EraseKeepsRows ==
    ASSUME IInv, NEW u \in User, EraseUser(u)
    PROVE  SafeRows'
<1> DEFINE closed(r) == [r EXCEPT !.reviewer = Anonymised(u, r.reviewer),
                                  !.status = IF r.status = "open" /\ r.reviewer = u
                                             THEN "cancelled" ELSE r.status]
           signed(a) == [a EXCEPT !.approver = Anonymised(u, a.approver)]
<1> USE DEF IInv, SafeRows
<1>1. /\ requests' = {closed(r) : r \in requests}
      /\ approvals' = {signed(a) : a \in approvals}
      /\ clock' = clock
  BY DEF EraseUser, ErasedRequests, ErasedApprovals
<1>2. Tombstone \notin User
  BY PeopleAssumption
<1>3. \A r \in requests :
         /\ closed(r).id = r.id
         /\ closed(r).satisfiedAt = r.satisfiedAt
         /\ closed(r).reviewer = IF r.reviewer = u THEN Tombstone ELSE r.reviewer
         /\ closed(r).status = "open" => r.status = "open" /\ r.reviewer # u
  BY DEF TypeOK, Request, Anonymised
<1>4. \A a \in approvals :
         /\ signed(a).at = a.at
         /\ signed(a).approver = IF a.approver = u THEN Tombstone ELSE a.approver
  BY DEF TypeOK, Approval, Anonymised
<1> HIDE DEF closed, signed
<1>5. AnsweredInThePast'
  BY <1>1, <1>3 DEF AnsweredInThePast
<1>6. UniqueActiveRows'
  <2>1. ASSUME NEW r1 \in requests, NEW r2 \in requests, closed(r1).id = closed(r2).id
        PROVE  closed(r1) = closed(r2)
    BY <2>1, <1>3 DEF UniqueActiveRows
  <2>2. ASSUME NEW r1 \in requests, NEW r2 \in requests,
               closed(r1).status = "open", closed(r2).status = "open",
               closed(r1).reviewer = closed(r2).reviewer
        PROVE  closed(r1) = closed(r2)
    BY <2>2, <1>3 DEF UniqueActiveRows, OpenRequests
  <2>3. ASSUME NEW a1 \in approvals, NEW a2 \in approvals,
               signed(a1).approver = signed(a2).approver
        PROVE  signed(a1) = signed(a2)
    <3>1. ~((\E a \in approvals : a.approver = u)
            /\ (\E a \in approvals : a.approver = Tombstone))
      BY DEF EraseUser, HasApproval
    <3>2. a1.approver = a2.approver
      BY <2>3, <3>1, <1>4
    <3> QED BY <3>2 DEF UniqueActiveRows
  <2> QED BY <2>1, <2>2, <2>3, <1>1 DEF UniqueActiveRows, OpenRequests
<1>7. AskedOrSignedOff'
  <2> SUFFICES ASSUME NEW v \in User, NEW a \in approvals, signed(a).approver = v,
                      NEW r \in requests, closed(r).status = "open", closed(r).reviewer = v
               PROVE  FALSE
    BY <1>1 DEF AskedOrSignedOff, HasOpenRequest, HasApproval, OpenRequests
  <2> QED
    BY <1>2, <1>3, <1>4 DEF AskedOrSignedOff, HasOpenRequest, HasApproval, OpenRequests
<1>8. SignOffAnswersLatestRequest'
  <2> SUFFICES ASSUME NEW a \in approvals, NEW r \in requests, signed(a).approver \in User,
                      closed(r).reviewer = signed(a).approver
               PROVE  closed(r).satisfiedAt <= signed(a).at
    BY <1>1 DEF SignOffAnswersLatestRequest
  <2> QED BY <1>2, <1>3, <1>4 DEF SignOffAnswersLatestRequest
<1> QED BY <1>5, <1>6, <1>7, <1>8

(* No handler breaks the rows of requests and approvals. *)
LEMMA NextSafeRows == IInv /\ [Next]_vars => SafeRows'
<1> SUFFICES ASSUME IInv, [Next]_vars PROVE SafeRows'
  OBVIOUS
<1>0. clock \in Nat
  BY DEF IInv, TypeOK
<1>1. ASSUME NEW h \in Hash, NEW s \in Frontmatter, RegisterVersion(h, s) PROVE SafeRows'
  BY <1>0, <1>1, RowsUntouched DEF RegisterVersion, Tick
<1>2. ASSUME NEW u \in User, NEW to \in {"changes-requested", "approved"},
             TransitionReview(u, to)
      PROVE  SafeRows'
  BY <1>0, <1>2, RowsUntouched DEF TransitionReview, Tick
<1>3. ASSUME NEW u \in User, RecordApproval(u) PROVE SafeRows'
  BY <1>3, AnswerKeepsRows DEF RecordApproval, InsertApproval, Tick
<1>4. ASSUME NEW u \in User, MarkReviewed(u) PROVE SafeRows'
  BY <1>4, AnswerKeepsRows DEF MarkReviewed, Tick
<1>5. ASSUME NEW u \in User, NEW t \in Reviewer, DismissApproval(u, t) PROVE SafeRows'
  BY <1>5, DismissKeepsRows DEF DismissApproval
<1>6. ASSUME NEW u \in User, NEW ts \in SUBSET Reviewer,
             NEW q \in {"optional", "required"}, RequestReview(u, ts, q)
      PROVE  SafeRows'
  BY <1>6, RequestKeepsRows
<1>7. ASSUME NEW u \in User, NEW r \in requests, CancelReviewRequest(u, r) PROVE SafeRows'
  BY <1>7, CancelKeepsRows
<1>8. ASSUME NEW u \in User, DeleteContent(u) PROVE SafeRows'
  BY <1>8 DEF DeleteContent, SafeRows, AnsweredInThePast, UniqueActiveRows, OpenRequests,
              AskedOrSignedOff, SignOffAnswersLatestRequest, HasOpenRequest, HasApproval
<1>9. ASSUME NEW u \in User, NEW newRole \in RoleSet, ManageAllowlist(u, newRole)
      PROVE  SafeRows'
  BY <1>0, <1>9, RowsUntouched DEF ManageAllowlist
<1>10. ASSUME NEW u \in User, EraseUser(u) PROVE SafeRows'
  BY <1>10, EraseKeepsRows
<1>11. CASE UNCHANGED vars
  BY <1>0, <1>11, RowsUntouched DEF vars
<1> QED
  BY <1>1, <1>2, <1>3, <1>4, <1>5, <1>6, <1>7, <1>8, <1>9, <1>10, <1>11 DEF Next

(* The inductive invariant holds in every reachable state. *)
THEOREM Inductive == Spec => []IInv
<1>1. Init => IInv
  BY InitTypeOK, InitSafeRows DEF IInv
<1>2. IInv /\ [Next]_vars => IInv'
  BY NextTypeOK, NextSafeRows DEF IInv
<1> QED BY <1>1, <1>2, PTL DEF Spec

(* Run alone, the handlers never give one identity two open requests or two *)
(* active approvals: the unique indexes guard races only.                   *)
THEOREM RowsUnique == Spec => []UniqueActiveRows
<1>1. IInv => UniqueActiveRows
  BY DEF IInv, SafeRows
<1> QED BY <1>1, Inductive, PTL

(* Nobody is at once asked for a review and counted as having given it. *)
THEOREM NeverAskedAndSignedOff == Spec => []AskedOrSignedOff
<1>1. IInv => AskedOrSignedOff
  BY DEF IInv, SafeRows
<1> QED BY <1>1, Inductive, PTL

(* A sign-off that counts is never older than an answer its reviewer gave.  *)
THEOREM SignOffsAreCurrent == Spec => []SignOffAnswersLatestRequest
<1>1. IInv => SignOffAnswersLatestRequest
  BY DEF IInv, SafeRows
<1> QED BY <1>1, Inductive, PTL

(***************************************************************************)
(* Steps                                                                   *)
(***************************************************************************)

(* The only handler that makes an open required request, or raises one, is  *)
(* requestReview, and it asks an allowlisted person.                        *)
LEMMA RequiredStep == TypeOK /\ [Next]_vars =>
    \A r \in requests' \ requests :
        r.status = "open" /\ r.requirement = "required" =>
            LookupRole(r.reviewer) # "anonymous"
<1> DEFINE Goal == \A r \in requests' \ requests :
                      r.status = "open" /\ r.requirement = "required" =>
                          LookupRole(r.reviewer) # "anonymous"
<1> SUFFICES ASSUME TypeOK, [Next]_vars PROVE Goal
  OBVIOUS
<1>1. ASSUME NEW u \in User, SatisfyOpenRequests(u) PROVE Goal
  BY <1>1 DEF SatisfyOpenRequests, TypeOK, Request
<1>2. ASSUME NEW u \in User, NEW ts \in SUBSET Reviewer,
             NEW q \in {"optional", "required"}, RequestReview(u, ts, q)
      PROVE  Goal
  <2> DEFINE upgraded == {r \in requests : r.reviewer \in ts /\ Upgrades(r, q)}
             newcomers == {t \in ts : ~HasOpenRequest(t)}
             raised(r) == [r EXCEPT !.requirement = "required"]
  <2>1. PICK ids \in Injection(newcomers, UnusedIds) :
          requests' = (requests \ upgraded) \cup {raised(r) : r \in upgraded}
                        \cup {NewRequest(ids[t], u, t, q) : t \in newcomers}
    BY <1>2 DEF RequestReview
  <2>2. \A r \in upgraded : /\ raised(r).reviewer = r.reviewer
                            /\ LookupRole(r.reviewer) # "anonymous"
    BY DEF Upgrades, EffectiveRequirement, TypeOK, Request
  <2>3. \A t \in newcomers :
           /\ NewRequest(ids[t], u, t, q).reviewer = t
           /\ NewRequest(ids[t], u, t, q).requirement = "required" =>
                  LookupRole(t) # "anonymous"
    BY DEF NewRequest, EffectiveRequirement
  <2> HIDE DEF upgraded, newcomers, raised
  <2> QED BY <2>1, <2>2, <2>3
<1>3. ASSUME NEW u \in User, NEW r \in requests, CancelReviewRequest(u, r) PROVE Goal
  BY <1>3 DEF CancelReviewRequest, TypeOK, Request
<1>4. ASSUME NEW u \in User, EraseUser(u) PROVE Goal
  <2> DEFINE closed(r) == [r EXCEPT !.reviewer = Anonymised(u, r.reviewer),
                                    !.status = IF r.status = "open" /\ r.reviewer = u
                                               THEN "cancelled" ELSE r.status]
  <2>1. \A r \in requests : closed(r).status = "open" => closed(r) = r
    <3> SUFFICES ASSUME NEW r \in requests, closed(r).status = "open" PROVE closed(r) = r
      OBVIOUS
    <3>1. r.status = "open" /\ r.reviewer # u
      BY DEF TypeOK, Request
    <3> QED BY <3>1 DEF Anonymised, TypeOK, Request
  <2>2. requests' = {closed(r) : r \in requests}
    BY <1>4 DEF EraseUser, ErasedRequests
  <2> HIDE DEF closed
  <2> QED BY <2>1, <2>2
<1>5. CASE requests' = requests \/ requests' = {}
  BY <1>5
<1> QED
  BY <1>1, <1>2, <1>3, <1>4, <1>5
  DEF Next, vars, RegisterVersion, TransitionReview, RecordApproval, MarkReviewed,
      DismissApproval, DeleteContent, ManageAllowlist

(* Nobody outside the allowlist is ever made a required reviewer. *)
THEOREM RequiredAreAllowlisted == Spec => RequiredOnlyForAllowlisted
BY TypeCorrect, RequiredStep, PTL DEF Spec, RequiredOnlyForAllowlisted

(***************************************************************************)
(* The timeline accounts for the rows                                      *)
(***************************************************************************)

(* The events that say nothing of requests and withdrawn approvals. *)
Silent == {"released", "unreleased", "state", "approved-by"}

(* Requests no step touches have no event to account for. *)
LEMMA SameRequestsLogged ==
    ASSUME IInv, requests' = requests,
           \A e \in logged' : e[1] \in Silent \cup {"approval-dismissed"}
    PROVE  RaisesLogged /\ ClosuresLogged
<1>1. \A x : /\ <<"review-requested", x>> \notin logged'
             /\ <<"request-satisfied", x>> \notin logged'
             /\ <<"request-cancelled", x>> \notin logged'
  BY DEF Silent
<1>2. RaisesLogged
  BY <1>1 DEF RaisesLogged, Raised
<1>3. ASSUME NEW r \in requests, r.status = "open", NEW q \in requests', q.id = r.id
      PROVE  q.status = "open"
  BY <1>3 DEF IInv, SafeRows, UniqueActiveRows
<1>4. ClosuresLogged
  BY <1>1, <1>3 DEF ClosuresLogged, Becomes
<1> QED BY <1>2, <1>4

(* Nor have approvals no step takes away. *)
LEMMA KeptApprovalsLogged ==
    ASSUME approvals \subseteq approvals', \A e \in logged' : e[1] # "approval-dismissed"
    PROVE  DismissalsLogged
<1>1. \A x : <<"approval-dismissed", x>> \notin logged'
  OBVIOUS
<1>2. \A v : HasApproval(v) => HasApproval(v)'
  BY DEF HasApproval
<1> QED BY <1>1, <1>2 DEF DismissalsLogged

(* An answer closes the open requests it logs and no other. *)
LEMMA AnswerLogged ==
    ASSUME IInv, NEW u \in User, SatisfyOpenRequests(u),
           \/ logged' = SatisfiedEvents(u)
           \/ logged' = SatisfiedEvents(u) \cup {<<"approved-by", u>>},
           approvals \subseteq approvals'
    PROVE  RaisesLogged /\ ClosuresLogged /\ DismissalsLogged
<1> DEFINE mine(r) == r.status = "open" /\ r.reviewer = u
           closed(r) == [r EXCEPT !.status = "satisfied", !.satisfiedAt = clock]
           after(r) == IF mine(r) THEN closed(r) ELSE r
<1>1. requests' = {after(r) : r \in requests}
  BY DEF SatisfyOpenRequests
<1>2. \A r \in requests :
         /\ after(r).id = r.id
         /\ after(r).requirement = r.requirement
         /\ after(r).status = IF mine(r) THEN "satisfied" ELSE r.status
  BY DEF IInv, TypeOK, Request
<1>3. \A x : <<"request-satisfied", x>> \in logged' <=> \E r \in requests : mine(r) /\ r.id = x
  BY DEF SatisfiedEvents, OpenRequests
<1>4. \A e \in logged' : e[1] \in {"request-satisfied", "approved-by"}
  BY DEF SatisfiedEvents
<1> HIDE DEF after
<1>5. RaisesLogged
  <2>1. ASSUME NEW q \in requests' PROVE ~Raised(q)
    BY <1>1, <1>2 DEF Raised
  <2>2. \A x : <<"review-requested", x>> \notin logged'
    BY <1>4
  <2> QED BY <2>1, <2>2 DEF RaisesLogged
<1>6. ClosuresLogged
  <2> SUFFICES ASSUME NEW r \in requests
               PROVE  /\ <<"request-satisfied", r.id>> \in logged' <=>
                             r.status = "open" /\ Becomes(r, "satisfied")
                      /\ <<"request-cancelled", r.id>> \in logged' <=>
                             r.status = "open" /\ Becomes(r, "cancelled")
    BY DEF ClosuresLogged
  <2>1. \A s \in requests : s.id = r.id => s = r
    BY DEF IInv, SafeRows, UniqueActiveRows
  <2>2. \A x : Becomes(r, x) <=> after(r).status = x
    BY <1>1, <1>2, <2>1 DEF Becomes
  <2>3. <<"request-satisfied", r.id>> \in logged' <=> mine(r)
    BY <1>3, <2>1
  <2>4. <<"request-cancelled", r.id>> \notin logged'
    BY <1>4
  <2> QED BY <1>2, <2>2, <2>3, <2>4
<1>7. DismissalsLogged
  BY <1>4, KeptApprovalsLogged
<1> QED BY <1>5, <1>6, <1>7

(* A dismissal logs the approval it takes. *)
LEMMA DismissLogged ==
    ASSUME IInv, NEW u \in User, NEW t \in Reviewer, DismissApproval(u, t)
    PROVE  RaisesLogged /\ ClosuresLogged /\ DismissalsLogged
<1>1. RaisesLogged /\ ClosuresLogged
  BY SameRequestsLogged DEF DismissApproval
<1>2. DismissalsLogged
  <2>1. \A v : <<"approval-dismissed", v>> \in logged' <=> v = t
    BY DEF DismissApproval
  <2>2. \A v : HasApproval(v)' <=> HasApproval(v) /\ v # t
    BY DEF DismissApproval, HasApproval
  <2>3. HasApproval(t)
    BY DEF DismissApproval
  <2> QED BY <2>1, <2>2, <2>3 DEF DismissalsLogged
<1> QED BY <1>1, <1>2

(* A cancellation logs the request it closes. *)
LEMMA CancelLogged ==
    ASSUME IInv, NEW u \in User, NEW c \in requests, CancelReviewRequest(u, c)
    PROVE  RaisesLogged /\ ClosuresLogged /\ DismissalsLogged
<1> DEFINE ended == [c EXCEPT !.status = "cancelled"]
<1>1. /\ requests' = (requests \ {c}) \cup {ended}
      /\ approvals' = approvals
      /\ logged' = {<<"request-cancelled", c.id>>}
      /\ c.status = "open"
  BY DEF CancelReviewRequest
<1>2. ended.id = c.id /\ ended.requirement = c.requirement /\ ended.status = "cancelled"
  BY DEF IInv, TypeOK, Request
<1>3. \A r, s \in requests : r.id = s.id => r = s
  BY DEF IInv, SafeRows, UniqueActiveRows
<1> HIDE DEF ended
<1>4. RaisesLogged
  <2>1. ASSUME NEW q \in requests' PROVE ~Raised(q)
    BY <1>1, <1>2 DEF Raised
  <2> QED BY <1>1, <2>1 DEF RaisesLogged
<1>5. ClosuresLogged
  <2> SUFFICES ASSUME NEW r \in requests
               PROVE  /\ <<"request-satisfied", r.id>> \in logged' <=>
                             r.status = "open" /\ Becomes(r, "satisfied")
                      /\ <<"request-cancelled", r.id>> \in logged' <=>
                             r.status = "open" /\ Becomes(r, "cancelled")
    BY DEF ClosuresLogged
  <2>1. CASE r = c
    <3>1. \A x : Becomes(r, x) <=> x = "cancelled"
      BY <1>1, <1>2, <1>3, <2>1 DEF Becomes
    <3> QED BY <1>1, <2>1, <3>1
  <2>2. CASE r # c
    <3>1. \A x : Becomes(r, x) <=> x = r.status
      BY <1>1, <1>2, <1>3, <2>2 DEF Becomes
    <3> QED BY <1>1, <1>3, <2>2, <3>1
  <2> QED BY <2>1, <2>2
<1>6. DismissalsLogged
  BY <1>1, KeptApprovalsLogged
<1> QED BY <1>4, <1>5, <1>6

(* A batch of requests logs each request it opens or upgrades and each      *)
(* approval it withdraws, and closes nothing.                               *)
LEMMA RequestLogged ==
    ASSUME IInv, NEW u \in User, NEW ts \in SUBSET Reviewer,
           NEW q \in {"optional", "required"}, RequestReview(u, ts, q)
    PROVE  RaisesLogged /\ ClosuresLogged /\ DismissalsLogged
<1> DEFINE upgraded == {r \in requests : r.reviewer \in ts /\ Upgrades(r, q)}
           newcomers == {t \in ts : ~HasOpenRequest(t)}
           withdrawn == Withdrawn(newcomers, upgraded)
           raised(r) == [r EXCEPT !.requirement = "required"]
<1>1. PICK ids \in Injection(newcomers, UnusedIds) :
        /\ requests' = (requests \ upgraded) \cup {raised(r) : r \in upgraded}
                         \cup {NewRequest(ids[t], u, t, q) : t \in newcomers}
        /\ logged' = {<<"review-requested", r.id>> :
                         r \in upgraded \cup {NewRequest(ids[t], u, t, q) : t \in newcomers}}
                       \cup {<<"approval-dismissed", a.approver>> : a \in withdrawn}
  BY DEF RequestReview
<1> DEFINE fresh(t) == NewRequest(ids[t], u, t, q)
<1>2. \A r \in upgraded : /\ raised(r).id = r.id
                          /\ raised(r).status = "open" /\ r.status = "open"
                          /\ raised(r).requirement = "required"
                          /\ r.requirement = "optional"
  BY DEF Upgrades, IInv, TypeOK, Request
<1>3. \A t \in newcomers : /\ fresh(t).id = ids[t]
                           /\ fresh(t).status = "open"
                           /\ \A r \in requests : r.id # fresh(t).id
  BY DEF NewRequest, Injection, UnusedIds
<1>4. approvals' = approvals \ withdrawn /\ withdrawn \subseteq approvals
  BY DEF RequestReview, Withdrawn
<1>5. \A r, s \in requests : r.id = s.id => r = s
  BY DEF IInv, SafeRows, UniqueActiveRows
<1>6. \A a, b \in approvals : a.approver = b.approver => a = b
  BY DEF IInv, SafeRows, UniqueActiveRows
<1>7. \A x : <<"review-requested", x>> \in logged' <=>
                \/ \E r \in upgraded : r.id = x
                \/ \E t \in newcomers : fresh(t).id = x
  BY <1>1
<1>8. \A x : <<"approval-dismissed", x>> \in logged' <=> \E a \in withdrawn : a.approver = x
  BY <1>1
<1>9. \A x : <<"request-satisfied", x>> \notin logged' /\ <<"request-cancelled", x>> \notin logged'
  BY <1>1
<1>10. requests' = (requests \ upgraded) \cup {raised(r) : r \in upgraded}
                     \cup {fresh(t) : t \in newcomers}
  BY <1>1
<1>11. upgraded \subseteq requests
  OBVIOUS
<1> HIDE DEF upgraded, newcomers, withdrawn, raised, fresh
<1>12. RaisesLogged
  <2> SUFFICES ASSUME NEW x \in requests'
               PROVE  <<"review-requested", x.id>> \in logged' <=> Raised(x)
    BY DEF RaisesLogged
  <2>1. CASE x \in requests \ upgraded
    BY <1>3, <1>5, <1>7, <1>11, <2>1 DEF Raised
  <2>2. CASE \E r \in upgraded : x = raised(r)
    BY <1>2, <1>5, <1>7, <1>11, <2>2 DEF Raised
  <2>3. CASE \E t \in newcomers : x = fresh(t)
    BY <1>3, <1>7, <2>3 DEF Raised
  <2> QED BY <1>10, <2>1, <2>2, <2>3
<1>13. ClosuresLogged
  <2>1. ASSUME NEW r \in requests, r.status = "open", NEW x \in requests', x.id = r.id
        PROVE  x.status = "open"
    BY <1>2, <1>3, <1>5, <1>10, <1>11, <2>1
  <2> QED BY <1>9, <2>1 DEF ClosuresLogged, Becomes
<1>14. DismissalsLogged
  BY <1>4, <1>6, <1>8 DEF DismissalsLogged, HasApproval
<1> QED BY <1>12, <1>13, <1>14

(* Every request, dismissal and answer is accounted for. *)
LEMMA NextLogged ==
    IInv /\ Next =>
        \/ \E u \in User : EraseUser(u) \/ DeleteContent(u)
        \/ RaisesLogged /\ ClosuresLogged /\ DismissalsLogged
<1> SUFFICES ASSUME IInv, Next, ~\E u \in User : EraseUser(u) \/ DeleteContent(u)
             PROVE  RaisesLogged /\ ClosuresLogged /\ DismissalsLogged
  OBVIOUS
<1>1. ASSUME NEW h \in Hash, NEW s \in Frontmatter, RegisterVersion(h, s)
      PROVE  RaisesLogged /\ ClosuresLogged /\ DismissalsLogged
  <2>1. \A e \in logged' : e[1] \in Silent
    BY <1>1 DEF RegisterVersion, ReadinessEvent, Silent
  <2>2. requests' = requests /\ approvals \subseteq approvals'
    BY <1>1 DEF RegisterVersion
  <2> QED BY <2>1, <2>2, SameRequestsLogged, KeptApprovalsLogged DEF Silent
<1>2. ASSUME NEW u \in User, NEW to \in {"changes-requested", "approved"},
             TransitionReview(u, to)
      PROVE  RaisesLogged /\ ClosuresLogged /\ DismissalsLogged
  <2>1. \A e \in logged' : e[1] \in Silent
    BY <1>2 DEF TransitionReview, Silent
  <2>2. requests' = requests /\ approvals \subseteq approvals'
    BY <1>2 DEF TransitionReview
  <2> QED BY <2>1, <2>2, SameRequestsLogged, KeptApprovalsLogged DEF Silent
<1>3. ASSUME NEW u \in User, RecordApproval(u)
      PROVE  RaisesLogged /\ ClosuresLogged /\ DismissalsLogged
  BY <1>3, AnswerLogged DEF RecordApproval, InsertApproval
<1>4. ASSUME NEW u \in User, MarkReviewed(u)
      PROVE  RaisesLogged /\ ClosuresLogged /\ DismissalsLogged
  BY <1>4, AnswerLogged DEF MarkReviewed
<1>5. ASSUME NEW u \in User, NEW t \in Reviewer, DismissApproval(u, t)
      PROVE  RaisesLogged /\ ClosuresLogged /\ DismissalsLogged
  BY <1>5, DismissLogged
<1>6. ASSUME NEW u \in User, NEW ts \in SUBSET Reviewer,
             NEW q \in {"optional", "required"}, RequestReview(u, ts, q)
      PROVE  RaisesLogged /\ ClosuresLogged /\ DismissalsLogged
  BY <1>6, RequestLogged
<1>7. ASSUME NEW u \in User, NEW r \in requests, CancelReviewRequest(u, r)
      PROVE  RaisesLogged /\ ClosuresLogged /\ DismissalsLogged
  BY <1>7, CancelLogged
<1>8. ASSUME NEW u \in User, NEW newRole \in RoleSet, ManageAllowlist(u, newRole)
      PROVE  RaisesLogged /\ ClosuresLogged /\ DismissalsLogged
  BY <1>8, SameRequestsLogged, KeptApprovalsLogged DEF ManageAllowlist
<1> QED BY <1>1, <1>2, <1>3, <1>4, <1>5, <1>6, <1>7, <1>8 DEF Next

(* Outside erasures and deletions, the events of a transaction are exactly  *)
(* what it did to requests and approvals.                                   *)
THEOREM TimelineAccountsForRows == Spec => TimelineMatchesRows
<1>1. IInv /\ [Next]_vars =>
        [\/ \E u \in User : EraseUser(u) \/ DeleteContent(u)
         \/ RaisesLogged /\ ClosuresLogged /\ DismissalsLogged]_vars
  BY NextLogged
<1> QED BY <1>1, Inductive, PTL DEF Spec, TimelineMatchesRows

(***************************************************************************)
(* The derivation, for every combination of rows                           *)
(***************************************************************************)

(* Private content is outside the approval flow: whatever rows it has, and  *)
(* overrides from before it became private, it is neither approved nor      *)
(* released.                                                                *)
THEOREM PrivateIsNeverApproved ==
    ASSUME NEW in \in DeriveInput(Reviewer), in.status = "private"
    PROVE  DeriveReviewState(in) \in {"none", "needs-review", "changes-requested"}
BY DEF DeriveReviewState, IsPrivate

(* An artifact nobody overrode is approved only with an approval, with no   *)
(* required request open, and with no change request that the latest        *)
(* approval does not supersede.                                             *)
THEOREM ApprovedMeansSignedOff ==
    ASSUME NEW in \in DeriveInput(Reviewer),
           in.outcome # "approved",
           DeriveReviewState(in) = "approved"
    PROVE  /\ in.approvers # {}
           /\ in.hasRequired => in.openRequired = {}
           /\ in.outcome = "changes-requested" => in.outcomeAt < in.latestApproval
BY DEF DeriveReviewState, ChangesRequestedHold, IsApproved, SignedOffAt, IsPrivate, DeriveInput, Null

(* One more approval, given now, never turns an approved or released        *)
(* artifact into anything less, and ends every change request on one that   *)
(* is not private.                                                          *)
THEOREM FreshApprovalOnlyHelps ==
    ASSUME NEW in \in DeriveInput(Reviewer), NEW u \in Reviewer, NEW now \in Nat,
           in.status # "private", in.outcomeAt < now, in.latestApproval < now
    PROVE  LET then == [in EXCEPT !.approvers = @ \cup {u}, !.latestApproval = now]
           IN  /\ DeriveReviewState(then) # "changes-requested"
               /\ DeriveReviewState(in) \in {"approved", "released"} =>
                      DeriveReviewState(then) = DeriveReviewState(in)
<1> DEFINE then == [in EXCEPT !.approvers = @ \cup {u}, !.latestApproval = now]
<1>1. /\ then.status = in.status /\ then.outcome = in.outcome
      /\ then.outcomeAt = in.outcomeAt /\ then.outcomeAt \in Nat
      /\ then.latestApproval = now /\ then.approvers = in.approvers \cup {u}
      /\ then.openRequired = in.openRequired /\ then.hasRequired = in.hasRequired
      /\ then.hasOpen = in.hasOpen
  BY DEF DeriveInput
<1>2. ~ChangesRequestedHold(then)
  BY <1>1 DEF ChangesRequestedHold, SignedOffAt, IsPrivate, Null
<1>3. IsApproved(in) => IsApproved(then)
  BY <1>1 DEF IsApproved
<1>4. DeriveReviewState(then) # "changes-requested"
  BY <1>2 DEF DeriveReviewState
<1>5. ASSUME DeriveReviewState(in) = "released" PROVE DeriveReviewState(then) = "released"
  BY <1>1, <1>2, <1>5 DEF DeriveReviewState, IsPrivate
<1>6. ASSUME DeriveReviewState(in) = "approved" PROVE DeriveReviewState(then) = "approved"
  BY <1>1, <1>2, <1>3, <1>6 DEF DeriveReviewState, IsPrivate
<1> QED BY <1>4, <1>5, <1>6


(***************************************************************************)
(* The promise                                                             *)
(*                                                                         *)
(* ReviewLifecycle implements SignOffPromise: every handler is, for the    *)
(* people asked and signed off, one step of the promise or none.  The      *)
(* inductive invariant is needed where a row goes: a cancelled or answered *)
(* request was its reviewer's only open one, and they had not signed off.  *)
(***************************************************************************)


(* A handler that leaves both tables alone is no step of the promise. *)
LEMMA UntouchedKeepsPromise ==
    ASSUME UNCHANGED <<approvals, requests>>
    PROVE  UNCHANGED <<Asked, SignedOff>>
BY DEF Asked, SignedOff, HasOpenRequest, HasApproval, OpenRequests

(* Closing a person's open requests takes them, and nobody else, from those *)
(* who are asked.                                                           *)
LEMMA AnswerEndsTheRequest ==
    ASSUME TypeOK, NEW u \in User, SatisfyOpenRequests(u)
    PROVE  Asked' = Asked \ {u}
<1>1. ASSUME NEW v \in User PROVE HasOpenRequest(v)' <=> HasOpenRequest(v) /\ v # u
  BY DEF SatisfyOpenRequests, HasOpenRequest, OpenRequests, TypeOK, Request
<1> QED BY <1>1 DEF Asked

(* recordApproval is a sign-off. *)
LEMMA ApprovalSignsOff ==
    ASSUME TypeOK, NEW u \in User, RecordApproval(u)
    PROVE  Promise!SignOff(u)
<1>1. Asked' = Asked \ {u}
  BY AnswerEndsTheRequest DEF RecordApproval
<1>2. ASSUME NEW v \in User PROVE HasApproval(v)' <=> HasApproval(v) \/ v = u
  <2>1. CASE HasApproval(u)
    BY <2>1 DEF RecordApproval, InsertApproval, HasApproval
  <2>2. CASE ~HasApproval(u)
    <3> DEFINE given == [approver |-> u, at |-> clock]
    <3>1. approvals' = approvals \cup {given}
      BY <2>2 DEF RecordApproval, InsertApproval
    <3>2. given.approver = u
      OBVIOUS
    <3> HIDE DEF given
    <3> QED BY <3>1, <3>2 DEF HasApproval
  <2> QED BY <2>1, <2>2
<1>3. SignedOff' = SignedOff \cup {u}
  BY <1>2 DEF SignedOff
<1> QED BY <1>1, <1>3 DEF Promise!SignOff

(* markReviewed lets go of its caller, who was asked and had not signed.    *)
LEMMA ReviewedLetsGo ==
    ASSUME IInv, NEW u \in User, MarkReviewed(u)
    PROVE  Promise!LetGo(u)
<1>1. Asked' = Asked \ {u}
  BY AnswerEndsTheRequest DEF IInv, MarkReviewed
<1>2. SignedOff' = SignedOff \ {u}
  BY DEF MarkReviewed, IInv, SafeRows, AskedOrSignedOff, SignedOff, HasApproval
<1> QED BY <1>1, <1>2 DEF Promise!LetGo

(* dismissApproval lets go of the one whose approval it was, who was not    *)
(* asked; the tombstone's is nobody's.                                      *)
LEMMA DismissalLetsGo ==
    ASSUME IInv, NEW u \in User, NEW t \in Reviewer, DismissApproval(u, t)
    PROVE  Promise!LetGo(t)
<1>1. Asked' = Asked \ {t}
  BY DEF DismissApproval, IInv, SafeRows, AskedOrSignedOff, Asked, HasOpenRequest, OpenRequests
<1>2. SignedOff' = SignedOff \ {t}
  BY DEF DismissApproval, SignedOff, HasApproval
<1> QED BY <1>1, <1>2 DEF Promise!LetGo

(* cancelReviewRequest lets go of the one the request was for: it was the   *)
(* only one open, and they had not signed.                                  *)
LEMMA CancelLetsGo ==
    ASSUME IInv, NEW u \in User, NEW r \in requests, CancelReviewRequest(u, r)
    PROVE  Promise!LetGo(r.reviewer)
<1>1. r.status = "open" /\ requests' = (requests \ {r}) \cup {[r EXCEPT !.status = "cancelled"]}
  BY DEF CancelReviewRequest
<1>2. [r EXCEPT !.status = "cancelled"].status = "cancelled"
  BY DEF IInv, TypeOK, Request
<1>3. ASSUME NEW v \in User PROVE HasOpenRequest(v)' <=> HasOpenRequest(v) /\ v # r.reviewer
  BY <1>1, <1>2 DEF HasOpenRequest, OpenRequests, IInv, SafeRows, UniqueActiveRows
<1>4. Asked' = Asked \ {r.reviewer}
  BY <1>3 DEF Asked
<1>5. SignedOff' = SignedOff \ {r.reviewer}
  BY <1>1 DEF CancelReviewRequest, IInv, SafeRows, AskedOrSignedOff, SignedOff, HasApproval,
              HasOpenRequest, OpenRequests
<1> QED BY <1>4, <1>5 DEF Promise!LetGo

(* requestReview asks the people among its targets, and voids what they had *)
(* signed. (The tombstone, and whoever is asked already, change nothing.)   *)
LEMMA RequestAsks ==
    ASSUME IInv, NEW u \in User, NEW ts \in SUBSET Reviewer,
           NEW q \in {"optional", "required"}, RequestReview(u, ts, q)
    PROVE  Promise!Ask(ts \cap User)
<1> DEFINE upgraded == {r \in requests : r.reviewer \in ts /\ Upgrades(r, q)}
           newcomers == {t \in ts : ~HasOpenRequest(t)}
           raised(r) == [r EXCEPT !.requirement = "required"]
<1>1. PICK ids \in Injection(newcomers, UnusedIds) :
        requests' = (requests \ upgraded) \cup {raised(r) : r \in upgraded}
                      \cup {NewRequest(ids[t], u, t, q) : t \in newcomers}
  BY DEF RequestReview
<1>2. approvals' = approvals \ Withdrawn(newcomers, upgraded)
  BY DEF RequestReview
<1>3. \A r \in upgraded : /\ raised(r).reviewer = r.reviewer /\ r.reviewer \in ts
                          /\ raised(r).status = "open" /\ r.status = "open"
  BY DEF Upgrades, IInv, TypeOK, Request
<1>4. \A t \in newcomers : /\ NewRequest(ids[t], u, t, q).reviewer = t
                           /\ NewRequest(ids[t], u, t, q).status = "open"
  BY DEF NewRequest
<1>5. ASSUME NEW v \in User PROVE HasOpenRequest(v)' <=> HasOpenRequest(v) \/ v \in ts
  <2>1. ASSUME HasOpenRequest(v)' PROVE HasOpenRequest(v) \/ v \in ts
    <3>1. PICK x \in requests' : x.status = "open" /\ x.reviewer = v
      BY <2>1 DEF HasOpenRequest, OpenRequests
    <3> HIDE DEF upgraded, raised
    <3>2. CASE x \in requests
      BY <3>1, <3>2 DEF HasOpenRequest, OpenRequests
    <3>3. CASE \E r \in upgraded : x = raised(r)
      BY <3>1, <3>3, <1>3
    <3>4. CASE \E t \in newcomers : x = NewRequest(ids[t], u, t, q)
      BY <3>1, <3>4, <1>4
    <3> QED BY <1>1, <3>2, <3>3, <3>4
  <2>2. ASSUME HasOpenRequest(v) PROVE HasOpenRequest(v)'
    <3>1. PICK r \in requests : r.status = "open" /\ r.reviewer = v
      BY <2>2 DEF HasOpenRequest, OpenRequests
    <3> DEFINE x == IF r \in upgraded THEN raised(r) ELSE r
    <3>2. x \in requests'
      BY <1>1
    <3>3. x.status = "open" /\ x.reviewer = v
      BY <3>1, <1>3
    <3> QED BY <3>2, <3>3 DEF HasOpenRequest, OpenRequests
  <2>3. ASSUME v \in ts, ~HasOpenRequest(v) PROVE HasOpenRequest(v)'
    <3>1. v \in newcomers
      BY <2>3
    <3>2. NewRequest(ids[v], u, v, q) \in requests'
      BY <1>1, <3>1
    <3> QED BY <3>1, <3>2, <1>4 DEF HasOpenRequest, OpenRequests
  <2> QED BY <2>1, <2>2, <2>3
<1>6. ASSUME NEW v \in User PROVE HasApproval(v)' <=> HasApproval(v) /\ v \notin ts
  <2>1. ASSUME NEW a \in approvals, a.approver = v
        PROVE  a \in Withdrawn(newcomers, upgraded) <=> v \in ts
    <3>1. ~HasOpenRequest(v)
      BY <2>1 DEF IInv, SafeRows, AskedOrSignedOff, HasApproval
    <3> QED BY <2>1, <3>1 DEF Withdrawn
  <2> QED BY <1>2, <2>1 DEF HasApproval
<1>7. Asked' = Asked \cup (ts \cap User)
  BY <1>5 DEF Asked
<1>8. SignedOff' = SignedOff \ (ts \cap User)
  BY <1>6 DEF SignedOff
<1> QED BY <1>7, <1>8 DEF Promise!Ask

(* eraseUser lets go of the erased: what is handed to the tombstone is      *)
(* nobody's any more.                                                       *)
LEMMA ErasureLetsGo ==
    ASSUME IInv, NEW u \in User, EraseUser(u)
    PROVE  Promise!LetGo(u)
<1> DEFINE closed(r) == [r EXCEPT !.reviewer = Anonymised(u, r.reviewer),
                                  !.status = IF r.status = "open" /\ r.reviewer = u
                                             THEN "cancelled" ELSE r.status]
           signed(a) == [a EXCEPT !.approver = Anonymised(u, a.approver)]
<1>1. requests' = {closed(r) : r \in requests} /\ approvals' = {signed(a) : a \in approvals}
  BY DEF EraseUser, ErasedRequests, ErasedApprovals
<1>2. \A r \in requests : /\ closed(r).reviewer = IF r.reviewer = u THEN Tombstone ELSE r.reviewer
                          /\ closed(r).status = "open" <=> r.status = "open" /\ r.reviewer # u
  BY DEF IInv, TypeOK, Request, Anonymised
<1>3. \A a \in approvals : signed(a).approver = IF a.approver = u THEN Tombstone ELSE a.approver
  BY DEF IInv, TypeOK, Approval, Anonymised
<1>4. Tombstone \notin User
  BY PeopleAssumption
<1> HIDE DEF closed, signed
<1>5. Asked' = Asked \ {u}
  BY <1>1, <1>2, <1>4 DEF Asked, HasOpenRequest, OpenRequests
<1>6. SignedOff' = SignedOff \ {u}
  BY <1>1, <1>3, <1>4 DEF SignedOff, HasApproval
<1> QED BY <1>5, <1>6 DEF Promise!LetGo

(* Letting go of somebody who is neither asked nor signed off is no step.   *)
LEMMA TombstoneIsNobody ==
    ASSUME NEW t \in Reviewer, Promise!LetGo(t)
    PROVE  [Promise!Next]_<<Asked, SignedOff>>
<1>1. CASE t \in User
  BY <1>1 DEF Promise!Next
<1>2. CASE t \notin User
  BY <1>2 DEF Promise!LetGo, Asked, SignedOff
<1> QED BY <1>1, <1>2

(* Every step of the handlers is a step of the promise, or none. *)
LEMMA StepKeepsPromise == IInv /\ [Next]_vars => [Promise!Next]_<<Asked, SignedOff>>
<1> SUFFICES ASSUME IInv, [Next]_vars PROVE [Promise!Next]_<<Asked, SignedOff>>
  OBVIOUS
<1>0. TypeOK
  BY DEF IInv
<1>1. ASSUME UNCHANGED <<approvals, requests>> PROVE [Promise!Next]_<<Asked, SignedOff>>
  BY <1>1, UntouchedKeepsPromise
<1>2. ASSUME NEW u \in User, RecordApproval(u) PROVE [Promise!Next]_<<Asked, SignedOff>>
  BY <1>0, <1>2, ApprovalSignsOff DEF Promise!Next
<1>3. ASSUME NEW u \in User, MarkReviewed(u) PROVE [Promise!Next]_<<Asked, SignedOff>>
  BY <1>3, ReviewedLetsGo DEF Promise!Next
<1>4. ASSUME NEW u \in User, NEW t \in Reviewer, DismissApproval(u, t)
      PROVE  [Promise!Next]_<<Asked, SignedOff>>
  BY <1>4, DismissalLetsGo, TombstoneIsNobody
<1>5. ASSUME NEW u \in User, NEW ts \in SUBSET Reviewer,
             NEW q \in {"optional", "required"}, RequestReview(u, ts, q)
      PROVE  [Promise!Next]_<<Asked, SignedOff>>
  <2>1. Promise!Ask(ts \cap User)
    BY <1>5, RequestAsks
  <2>2. ts \cap User \in SUBSET User
    OBVIOUS
  <2> QED BY <2>1, <2>2 DEF Promise!Next
<1>6. ASSUME NEW u \in User, NEW r \in requests, CancelReviewRequest(u, r)
      PROVE  [Promise!Next]_<<Asked, SignedOff>>
  <2>1. r.reviewer \in Reviewer
    BY <1>0 DEF TypeOK, Request
  <2> QED BY <1>6, <2>1, CancelLetsGo, TombstoneIsNobody
<1>7. ASSUME NEW u \in User, DeleteContent(u) PROVE [Promise!Next]_<<Asked, SignedOff>>
  BY <1>7 DEF DeleteContent, Asked, SignedOff, HasOpenRequest, HasApproval, OpenRequests,
              Promise!Next, Promise!Forget
<1>8. ASSUME NEW u \in User, EraseUser(u) PROVE [Promise!Next]_<<Asked, SignedOff>>
  BY <1>8, ErasureLetsGo DEF Promise!Next
<1> QED
  BY <1>1, <1>2, <1>3, <1>4, <1>5, <1>6, <1>7, <1>8
  DEF Next, vars, RegisterVersion, TransitionReview, ManageAllowlist

(* The handlers implement the promise. *)
THEOREM ImplementsPromise == Spec => KeepsPromise
<1>1. Init => Promise!Init
  BY DEF Init, Promise!Init, Asked, SignedOff, HasOpenRequest, HasApproval, OpenRequests
<1> QED BY <1>1, StepKeepsPromise, Inductive, PTL DEF Spec, KeepsPromise, Promise!Spec
=============================================================================
