-------------------------- MODULE ReviewStateProofs --------------------------
(***************************************************************************)
(* When the derived state of an artifact may change, for any people,       *)
(* hashes, statuses and number of requests.                                *)
(*                                                                         *)
(* The derivation compares the stamp of the last explicit outcome with the *)
(* last sign-off on record.  What carries the proofs is that every stamp   *)
(* is older than the clock (StampedInThePast): then a set of stamps has a  *)
(* last one (MaxStampOf), and an answer given now is later than all.       *)
(***************************************************************************)
EXTENDS ReviewLifecycleProofs, WellFoundedInduction

ApprovalStamps == {a.at : a \in approvals}
AnswerStamps == {r.satisfiedAt : r \in requests}

StampedInThePast ==
    /\ outcome.at < clock
    /\ \A a \in approvals : a.at < clock

Inv == IInv /\ StampedInThePast

(***************************************************************************)
(* The last stamp                                                          *)
(***************************************************************************)

(* Nat is well-ordered. *)
LEMMA LeastOf ==
    ASSUME NEW S \in SUBSET Nat, S # {}
    PROVE  \E i \in S : \A j \in S : i <= j
<1> DEFINE Less == {pair \in Nat \X Nat : pair[1] < pair[2]}
<1>1. IsWellFoundedOn(Less, Nat)
  BY NatLessThanWellFounded, Zenon DEF OpToRel
<1>2. \A i, j \in Nat : <<j, i>> \in Less <=> j < i
  OBVIOUS
<1> HIDE DEF Less
<1>3. PICK i \in S : \A j \in S : <<j, i>> \notin Less
  BY <1>1, WFMin
<1>4. \A j \in S : ~(j < i)
  BY <1>2, <1>3
<1>5. \A j \in S : i <= j
  BY <1>4
<1> QED BY <1>5

(* A set of stamps given before some time has a last one. *)
LEMMA MaxStampOf ==
    ASSUME NEW S \in SUBSET Nat, S # {}, NEW c \in Nat, \A s \in S : s < c
    PROVE  /\ MaxStamp(S) \in S
           /\ \A s \in S : s <= MaxStamp(S)
<1> DEFINE Above == {n \in Nat : \A s \in S : s <= n}
<1>1. c \in Above
  OBVIOUS
<1>2. PICK m \in Above : \A n \in Above : m <= n
  BY <1>1, LeastOf
<1>3. m \in S
  <2> SUFFICES ASSUME m \notin S PROVE FALSE
    OBVIOUS
  <2>1. \A s \in S : s <= m - 1
    BY <1>2
  <2>2. PICK s \in S : TRUE
    OBVIOUS
  <2>3. m - 1 \in Nat
    BY <1>2, <2>1, <2>2
  <2>4. m - 1 \in Above
    BY <2>1, <2>3
  <2> QED BY <1>2, <2>4
<1>4. \E t \in S : \A s \in S : s <= t
  BY <1>2, <1>3
<1> QED BY <1>4 DEF MaxStamp

(* A stamp that is later than all others is the last one. *)
LEMMA MaxStampIs ==
    ASSUME NEW S \in SUBSET Nat, NEW t \in S, \A s \in S : s <= t
    PROVE  MaxStamp(S) = t
<1>1. MaxStamp(S) \in S /\ \A s \in S : s <= MaxStamp(S)
  BY DEF MaxStamp
<1>2. MaxStamp(S) \in Nat /\ t \in Nat /\ MaxStamp(S) <= t /\ t <= MaxStamp(S)
  BY <1>1
<1> QED BY <1>2

(* No rows, and a row without an answer, count alike. *)
LEMMA MaxStampOfMore ==
    ASSUME NEW S \in SUBSET Nat, NEW c \in Nat, \A s \in S : s < c
    PROVE  MaxStamp(S \cup {Null}) = MaxStamp(S)
<1>1. CASE S = {}
  BY <1>1, MaxStampIs DEF MaxStamp, Null
<1>2. CASE S # {}
  <2>1. MaxStamp(S) \in S /\ \A s \in S : s <= MaxStamp(S)
    BY <1>2, MaxStampOf
  <2>2. PICK t : t = MaxStamp(S)
    OBVIOUS
  <2> DEFINE more == S \cup {Null}
  <2>3. t \in more /\ more \in SUBSET Nat
    BY <2>1, <2>2 DEF Null
  <2>4. \A s \in more : s <= t
    BY <2>1, <2>2, <2>3 DEF Null
  <2>5. MaxStamp(more) = t
    <3> HIDE DEF more
    <3> QED BY <2>3, <2>4, MaxStampIs
  <2> QED BY <2>2, <2>5
<1> QED BY <1>1, <1>2

(* Fewer stamps have no later last one. *)
LEMMA MaxStampOfFewer ==
    ASSUME NEW S \in SUBSET Nat, NEW T \in SUBSET S, NEW c \in Nat, \A s \in S : s < c
    PROVE  MaxStamp(T) \in Nat /\ MaxStamp(S) \in Nat /\ MaxStamp(T) <= MaxStamp(S)
<1>1. CASE S = {}
  BY <1>1 DEF MaxStamp, Null
<1>2. CASE T = {} /\ S # {}
  <2>1. MaxStamp(T) = 0
    BY <1>2 DEF MaxStamp, Null
  <2>2. MaxStamp(S) \in S
    BY <1>2, MaxStampOf
  <2>3. MaxStamp(S) \in Nat
    BY <2>2
  <2>4. PICK m \in Nat : m = MaxStamp(S)
    BY <2>3
  <2> QED BY <2>1, <2>4
<1>3. CASE T # {}
  BY <1>3, MaxStampOf
<1> QED BY <1>1, <1>2, <1>3

(***************************************************************************)
(* Every stamp is in the past                                              *)
(***************************************************************************)
LEMMA InitStamped == Init => StampedInThePast
BY DEF Init, StampedInThePast, NoOutcome, Null

LEMMA NextStamped == TypeOK /\ StampedInThePast /\ [Next]_vars => StampedInThePast'
<1> SUFFICES ASSUME TypeOK, StampedInThePast, [Next]_vars PROVE StampedInThePast'
  OBVIOUS
<1>1. /\ clock \in Nat /\ clock # Null /\ outcome.at \in Nat
      /\ \A a \in approvals : a.at \in Nat
  BY DEF TypeOK, Outcome, Approval
<1>2. clock' = clock \/ clock' = clock + 1
  BY DEF Next, vars, RegisterVersion, TransitionReview, RecordApproval, MarkReviewed,
         DismissApproval, RequestReview, CancelReviewRequest, DeleteContent,
         ManageAllowlist, EraseUser, Tick
<1>3. ASSUME NEW u \in User, NEW to \in {"changes-requested", "approved"},
             TransitionReview(u, to)
      PROVE  StampedInThePast'
  BY <1>1, <1>3 DEF TransitionReview, Tick, StampedInThePast
<1>4. ASSUME NEW u \in User, RecordApproval(u) PROVE StampedInThePast'
  BY <1>1, <1>4 DEF RecordApproval, InsertApproval, Tick, StampedInThePast
<1>5. ASSUME NEW u \in User, EraseUser(u) PROVE StampedInThePast'
  <2>1. \A a \in approvals' : \E b \in approvals : a.at = b.at
    BY <1>5 DEF EraseUser, ErasedApprovals, TypeOK, Approval
  <2> QED BY <1>5, <2>1 DEF EraseUser, StampedInThePast
<1>6. ASSUME NEW u \in User, DeleteContent(u) PROVE StampedInThePast'
  BY <1>1, <1>6 DEF DeleteContent, NoOutcome, Null, StampedInThePast
<1>7. CASE outcome' = outcome /\ approvals' \subseteq approvals
  BY <1>1, <1>2, <1>7 DEF StampedInThePast
<1> QED
  BY <1>3, <1>4, <1>5, <1>6, <1>7
  DEF Next, vars, RegisterVersion, MarkReviewed, DismissApproval, RequestReview,
      CancelReviewRequest, ManageAllowlist

(* IInv and the stamps together are inductive. *)
THEOREM Stamped == Spec => []Inv
<1>1. Init => StampedInThePast
  BY InitStamped
<1>2. IInv => TypeOK
  BY DEF IInv
<1>3. TypeOK /\ StampedInThePast /\ [Next]_vars => StampedInThePast'
  BY NextStamped
<1> QED BY <1>1, <1>2, <1>3, Inductive, PTL DEF Spec, Inv

(***************************************************************************)
(* Erasing a person                                                        *)
(***************************************************************************)

(* What an erasure leaves the derivation to read. *)
LEMMA EraseReads ==
    ASSUME IInv, NEW u \in User, EraseUser(u)
    PROVE  /\ Status' = Status /\ outcome' = outcome
           /\ ApprovalStamps' = ApprovalStamps /\ AnswerStamps' = AnswerStamps
           /\ DerivedInput.approvers = {} <=> DerivedInput'.approvers = {}
           /\ DerivedInput'.openRequired \subseteq DerivedInput.openRequired
           /\ DerivedInput'.hasRequired = DerivedInput.hasRequired
           /\ DerivedInput'.hasOpen => DerivedInput.hasOpen
<1> DEFINE closed(r) == [r EXCEPT !.reviewer = Anonymised(u, r.reviewer),
                                  !.status = IF r.status = "open" /\ r.reviewer = u
                                             THEN "cancelled" ELSE r.status]
           signed(a) == [a EXCEPT !.approver = Anonymised(u, a.approver)]
<1>1. /\ requests' = {closed(r) : r \in requests}
      /\ approvals' = {signed(a) : a \in approvals}
      /\ versions' = versions /\ outcome' = outcome
  BY DEF EraseUser, ErasedRequests, ErasedApprovals
<1>2. \A r \in requests :
         /\ closed(r).satisfiedAt = r.satisfiedAt
         /\ closed(r).requirement = r.requirement
         /\ closed(r).status = "open" => r.status = "open" /\ closed(r).reviewer = r.reviewer
  BY DEF IInv, TypeOK, Request, Anonymised
<1>3. \A a \in approvals : signed(a).at = a.at
  BY DEF IInv, TypeOK, Approval
<1> HIDE DEF closed, signed
<1>4. Status' = Status
  BY <1>1 DEF Status, Latest
<1>5. ApprovalStamps' = ApprovalStamps
  BY <1>1, <1>3 DEF ApprovalStamps
<1>6. AnswerStamps' = AnswerStamps
  BY <1>1, <1>2 DEF AnswerStamps
<1>7. DerivedInput.approvers = {} <=> DerivedInput'.approvers = {}
  <2>1. approvals = {} <=> approvals' = {}
    BY <1>1
  <2>2. DerivedInput.approvers = {} <=> approvals = {}
    BY DEF DerivedInput
  <2>3. DerivedInput'.approvers = {} <=> approvals' = {}
    BY DEF DerivedInput
  <2> QED BY <2>1, <2>2, <2>3
<1>8. DerivedInput'.openRequired \subseteq DerivedInput.openRequired
  BY <1>1, <1>2 DEF DerivedInput, OpenRequests
<1>9. DerivedInput'.hasRequired = DerivedInput.hasRequired
  BY <1>1, <1>2 DEF DerivedInput
<1>10. DerivedInput'.hasOpen => DerivedInput.hasOpen
  BY <1>1, <1>2 DEF DerivedInput, OpenRequests
<1> QED BY <1>1, <1>4, <1>5, <1>6, <1>7, <1>8, <1>9, <1>10

(* What the derivation makes of two inputs related like that. *)
LEMMA EraseDerives ==
    ASSUME NEW was, NEW now,
           now.status = was.status, now.outcome = was.outcome,
           now.outcomeAt = was.outcomeAt, now.latestApproval = was.latestApproval,
           now.latestSatisfied = was.latestSatisfied,
           was.approvers = {} <=> now.approvers = {},
           now.openRequired \subseteq was.openRequired,
           now.hasRequired = was.hasRequired,
           was.openRequired # {} => was.hasOpen,
           was.hasOpen \in BOOLEAN, now.hasOpen => was.hasOpen
    PROVE  \/ DeriveReviewState(now) = DeriveReviewState(was)
           \/ /\ DeriveReviewState(was) = "needs-review"
              /\ DeriveReviewState(now) \in {"none", "approved"}
<1>1. IsPrivate(now) <=> IsPrivate(was)
  BY DEF IsPrivate
<1>2. ChangesRequestedHold(now) <=> ChangesRequestedHold(was)
  BY <1>1 DEF ChangesRequestedHold, SignedOffAt
<1>3. IsApproved(was) => IsApproved(now)
  BY DEF IsApproved
<1>4. IsApproved(now) => IsApproved(was) \/ was.hasOpen
  BY DEF IsApproved
<1> QED BY <1>1, <1>2, <1>3, <1>4 DEF DeriveReviewState

(* An erasure never moves the state, unless the request it closes was what  *)
(* kept the artifact in review.                                             *)
THEOREM ErasureKeepsSignOffs == Spec => EraseKeepsSignOff
<1>1. IInv /\ [Next]_vars =>
        [(\E u \in User : EraseUser(u)) =>
            \/ ReviewState' = ReviewState
            \/ ReviewState = "needs-review" /\ ReviewState' \in {"none", "approved"}]_vars
  <2> SUFFICES ASSUME IInv, NEW u \in User, EraseUser(u)
               PROVE  \/ ReviewState' = ReviewState
                      \/ ReviewState = "needs-review" /\ ReviewState' \in {"none", "approved"}
    OBVIOUS
  <2>1. PICK was, now : was = DerivedInput /\ now = DerivedInput'
    OBVIOUS
  <2>2. /\ Status' = Status /\ outcome' = outcome
        /\ ApprovalStamps' = ApprovalStamps /\ AnswerStamps' = AnswerStamps
        /\ was.approvers = {} <=> now.approvers = {}
        /\ now.openRequired \subseteq was.openRequired
        /\ now.hasRequired = was.hasRequired
        /\ now.hasOpen => was.hasOpen
    BY <2>1, EraseReads
  <2>3. /\ now.status = was.status /\ now.outcome = was.outcome
        /\ now.outcomeAt = was.outcomeAt /\ now.latestApproval = was.latestApproval
        /\ now.latestSatisfied = was.latestSatisfied
        /\ was.hasOpen \in BOOLEAN
        /\ was.openRequired # {} => was.hasOpen
    BY <2>1, <2>2 DEF DerivedInput, ApprovalStamps, AnswerStamps
  <2>4. \/ DeriveReviewState(now) = DeriveReviewState(was)
        \/ /\ DeriveReviewState(was) = "needs-review"
           /\ DeriveReviewState(now) \in {"none", "approved"}
    BY <2>2, <2>3, EraseDerives
  <2>5. ReviewState = DeriveReviewState(was) /\ ReviewState' = DeriveReviewState(now)
    BY <2>1 DEF ReviewState
  <2> QED BY <2>4, <2>5
<1> QED BY <1>1, Inductive, PTL DEF Spec, EraseKeepsSignOff

(***************************************************************************)
(* Change requests                                                         *)
(***************************************************************************)

(* The last sign-off of the kind the artifact has. *)
Answered == IF Status = "private" THEN MaxStamp(AnswerStamps) ELSE MaxStamp(ApprovalStamps)

LEMMA HoldingMeans ==
    /\ Holding <=> /\ outcome.state = "changes-requested"
                   /\ Answered = Null \/ outcome.at >= Answered
    /\ Holding' <=> /\ outcome'.state = "changes-requested"
                    /\ Answered' = Null \/ outcome'.at >= Answered'
<1>1. PICK was, now : was = DerivedInput /\ now = DerivedInput'
  OBVIOUS
<1>2. /\ was.outcome = outcome.state /\ was.outcomeAt = outcome.at
      /\ SignedOffAt(was) = Answered
  BY <1>1 DEF DerivedInput, SignedOffAt, IsPrivate, Answered, ApprovalStamps, AnswerStamps
<1>3. /\ now.outcome = outcome'.state /\ now.outcomeAt = outcome'.at
      /\ SignedOffAt(now) = Answered'
  BY <1>1 DEF DerivedInput, SignedOffAt, IsPrivate, Answered, ApprovalStamps, AnswerStamps
<1>4. \A in : DeriveReviewState(in) = "changes-requested" <=> ChangesRequestedHold(in)
  BY DEF DeriveReviewState
<1>5. /\ Holding <=> DeriveReviewState(was) = "changes-requested"
      /\ Holding' <=> DeriveReviewState(now) = "changes-requested"
  BY <1>1 DEF Holding, ReviewState
<1> QED BY <1>2, <1>3, <1>4, <1>5 DEF ChangesRequestedHold

(* The same outcome, answered by the same sign-off, holds as it did.        *)
LEMMA SameHolding ==
    ASSUME outcome' = outcome, Answered' = Answered
    PROVE  Holding' <=> Holding
BY HoldingMeans

(* The stamps of a state the handlers reach. *)
LEMMA StampsBounded ==
    ASSUME Inv
    PROVE  /\ clock \in Nat /\ clock # Null
           /\ outcome.at \in Nat /\ outcome.at < clock
           /\ ApprovalStamps \in SUBSET Nat /\ \A s \in ApprovalStamps : s < clock
           /\ AnswerStamps \in SUBSET Nat /\ \A s \in AnswerStamps : s < clock
BY DEF Inv, IInv, SafeRows, AnsweredInThePast, StampedInThePast, TypeOK, Outcome,
       Approval, Request, ApprovalStamps, AnswerStamps

(* registerVersion changes what holds only by changing the kind of sign-off *)
(* that counts.                                                             *)
LEMMA RegisterHonours ==
    ASSUME NEW h \in Hash, NEW s \in Frontmatter, RegisterVersion(h, s)
    PROVE  HoldStarts /\ HoldStops
<1>1. outcome' = outcome /\ ApprovalStamps' = ApprovalStamps /\ AnswerStamps' = AnswerStamps
  BY DEF RegisterVersion, ApprovalStamps, AnswerStamps
<1>2. ~PrivacyFlips => Answered' = Answered
  BY <1>1 DEF PrivacyFlips, Answered
<1> QED BY <1>1, <1>2, SameHolding DEF HoldStarts, HoldStops

(* transitionReview asks for changes, or overrides. *)
LEMMA TransitionHonours ==
    ASSUME NEW u \in User, NEW to \in {"changes-requested", "approved"}, TransitionReview(u, to)
    PROVE  HoldStarts /\ HoldStops
<1>1. logged' = {<<"state", to>>} /\ outcome'.state = to
  BY DEF TransitionReview
<1>2. CASE to = "approved"
  <2>1. ~Holding'
    BY <1>1, <1>2, HoldingMeans
  <2> QED BY <1>1, <1>2, <2>1 DEF HoldStarts, HoldStops
<1>3. CASE to = "changes-requested"
  <2>1. ~Holding
    BY <1>3 DEF TransitionReview, AllowedTransitions, Holding
  <2> QED BY <1>1, <1>3, <2>1 DEF HoldStarts, HoldStops
<1> QED BY <1>2, <1>3

(* An approval ends a change request, being later than it. *)
LEMMA ApprovalHonours ==
    ASSUME Inv, NEW u \in User, RecordApproval(u)
    PROVE  HoldStarts /\ HoldStops
<1>1. Status' = Status /\ Status # "private" /\ outcome' = outcome
  BY DEF RecordApproval, Status, Latest
<1>2. CASE HasApproval(u)
  <2>1. Answered' = Answered
    BY <1>1, <1>2 DEF RecordApproval, InsertApproval, Answered, ApprovalStamps
  <2> QED BY <1>1, <2>1, SameHolding DEF HoldStarts, HoldStops
<1>3. CASE ~HasApproval(u)
  <2>1. approvals' = approvals \cup {[approver |-> u, at |-> clock]}
    BY <1>3 DEF RecordApproval, InsertApproval
  <2> DEFINE stamps == ApprovalStamps \cup {clock}
  <2>2. ApprovalStamps' = stamps
    <3>1. [approver |-> u, at |-> clock].at = clock
      OBVIOUS
    <3>2. PICK row : row.at = clock /\ approvals' = approvals \cup {row}
      BY <2>1, <3>1
    <3> QED BY <3>2 DEF ApprovalStamps
  <2>3. stamps \in SUBSET Nat /\ clock \in stamps /\ \A s \in stamps : s <= clock
    BY StampsBounded
  <2> HIDE DEF stamps
  <2>4. MaxStamp(stamps) = clock
    BY <2>3, MaxStampIs
  <2>5. Answered' = clock
    BY <1>1, <2>2, <2>4 DEF Answered
  <2>6. ~Holding'
    <3>1. clock # Null /\ ~(outcome'.at >= clock)
      BY <1>1, StampsBounded
    <3> QED BY <2>5, <3>1, HoldingMeans
  <2>7. [approver |-> u, at |-> clock] \in approvals' \ approvals
    BY <1>3, <2>1 DEF HasApproval
  <2>8. <<"approved-by", u>> \in logged'
    BY DEF RecordApproval
  <2> QED BY <2>6, <2>7, <2>8 DEF HoldStarts, HoldStops
<1> QED BY <1>2, <1>3

(* So does marking a private page reviewed. *)
LEMMA ReviewedHonours ==
    ASSUME Inv, NEW u \in User, MarkReviewed(u)
    PROVE  HoldStarts /\ HoldStops
<1>1. Status' = Status /\ Status = "private" /\ outcome' = outcome
  BY DEF MarkReviewed, Status, Latest
<1>2. PICK r \in requests : r.status = "open" /\ r.reviewer = u
  BY DEF MarkReviewed, HasOpenRequest, OpenRequests
<1>3. <<"request-satisfied", r.id>> \in logged' /\ r.id \in RequestId
  BY <1>2 DEF MarkReviewed, SatisfiedEvents, OpenRequests, Inv, IInv, TypeOK, Request
<1> DEFINE closed == [r EXCEPT !.status = "satisfied", !.satisfiedAt = clock]
<1>4. closed \in requests' /\ closed.satisfiedAt = clock
  BY <1>2 DEF MarkReviewed, SatisfyOpenRequests, Inv, IInv, TypeOK, Request
<1>5. clock \in AnswerStamps'
  BY <1>4 DEF AnswerStamps
<1>6. AnswerStamps' \subseteq AnswerStamps \cup {clock}
  <2> SUFFICES ASSUME NEW q \in requests'
               PROVE  q.satisfiedAt \in AnswerStamps \cup {clock}
    BY DEF AnswerStamps
  <2>1. SatisfyOpenRequests(u) /\ TypeOK
    BY DEF MarkReviewed, Inv, IInv
  <2>2. \A x \in requests' : \E y \in requests :
           /\ x.id = y.id
           /\ x.reviewer = y.reviewer
           /\ \/ x = y /\ ~(y.status = "open" /\ y.reviewer = u)
              \/ /\ y.status = "open"
                 /\ y.reviewer = u
                 /\ x = [y EXCEPT !.status = "satisfied", !.satisfiedAt = clock]
                 /\ x.status = "satisfied"
                 /\ x.satisfiedAt = clock
    BY <2>1, SatisfiedRows
  <2>3. q \in requests \/ q.satisfiedAt = clock
    BY <2>2
  <2> QED BY <2>3 DEF AnswerStamps
<1>7. MaxStamp(AnswerStamps') = clock
  <2>1. PICK stamps : stamps = AnswerStamps'
    OBVIOUS
  <2>2. stamps \in SUBSET Nat /\ clock \in stamps /\ \A s \in stamps : s <= clock
    BY <1>5, <1>6, <2>1, StampsBounded
  <2> QED BY <2>1, <2>2, MaxStampIs
<1>8. Answered' = clock
  BY <1>1, <1>7 DEF Answered
<1>9. ~Holding'
  <2>1. clock # Null /\ ~(outcome'.at >= clock)
    BY <1>1, StampsBounded
  <2> QED BY <1>8, <2>1, HoldingMeans
<1> QED BY <1>1, <1>3, <1>9 DEF HoldStarts, HoldStops

(* Withdrawing approvals may bring a change request back and never ends     *)
(* one; asking for a review answers nothing.                                *)
LEMMA WithdrawalHonours ==
    ASSUME Inv, versions' = versions, outcome' = outcome, approvals' \subseteq approvals,
           \/ approvals' = approvals
           \/ \E u \in Reviewer : <<"approval-dismissed", u>> \in logged',
           AnswerStamps' = AnswerStamps \/ AnswerStamps' = AnswerStamps \cup {Null}
    PROVE  HoldStarts /\ HoldStops
<1>1. Status' = Status
  BY DEF Status, Latest
<1>2. MaxStamp(AnswerStamps') = MaxStamp(AnswerStamps)
  BY StampsBounded, MaxStampOfMore
<1>3. CASE Status = "private" \/ approvals' = approvals
  <2>1. Answered' = Answered
    BY <1>1, <1>2, <1>3 DEF Answered, ApprovalStamps
  <2> QED BY <2>1, SameHolding DEF HoldStarts, HoldStops
<1>4. CASE Status # "private" /\ approvals' # approvals
  <2>1. HoldStarts
    BY <1>4 DEF HoldStarts
  <2>2. ApprovalStamps' \in SUBSET ApprovalStamps
    BY DEF ApprovalStamps
  <2>3. Answered = MaxStamp(ApprovalStamps) /\ Answered' = MaxStamp(ApprovalStamps')
    BY <1>1, <1>4 DEF Answered
  <2>4. Answered' \in Nat /\ Answered \in Nat /\ Answered' <= Answered
    BY <2>2, <2>3, StampsBounded, MaxStampOfFewer
  <2>5. Holding => Holding'
    <3>1. outcome.at \in Nat
      BY StampsBounded
    <3> QED BY <2>4, <3>1, HoldingMeans DEF Null
  <2> QED BY <2>1, <2>5 DEF HoldStops
<1> QED BY <1>3, <1>4

(* requestReview opens requests nobody has answered yet. *)
LEMMA RequestHonours ==
    ASSUME Inv, NEW u \in User, NEW ts \in SUBSET Reviewer,
           NEW q \in {"optional", "required"}, RequestReview(u, ts, q)
    PROVE  HoldStarts /\ HoldStops
<1> DEFINE upgraded == {r \in requests : r.reviewer \in ts /\ Upgrades(r, q)}
           newcomers == {t \in ts : ~HasOpenRequest(t)}
           withdrawn == Withdrawn(newcomers, upgraded)
           raised(r) == [r EXCEPT !.requirement = "required"]
<1>1. PICK ids \in Injection(newcomers, UnusedIds) :
        /\ requests' = (requests \ upgraded) \cup {raised(r) : r \in upgraded}
                         \cup {NewRequest(ids[t], u, t, q) : t \in newcomers}
        /\ {<<"approval-dismissed", a.approver>> : a \in withdrawn} \subseteq logged'
  BY DEF RequestReview
<1>2. approvals' = approvals \ withdrawn /\ versions' = versions /\ outcome' = outcome
  BY DEF RequestReview
<1>3. \A r \in upgraded : r \in requests /\ raised(r).satisfiedAt = r.satisfiedAt
  BY DEF Inv, IInv, TypeOK, Request
<1>4. \A t \in newcomers : NewRequest(ids[t], u, t, q).satisfiedAt = Null
  BY DEF NewRequest
<1>5. \A a \in withdrawn : a.approver \in Reviewer
  BY DEF Withdrawn, Inv, IInv, TypeOK, Approval
<1> HIDE DEF upgraded, newcomers, withdrawn, raised
<1>6. \/ approvals' = approvals
      \/ \E v \in Reviewer : <<"approval-dismissed", v>> \in logged'
  BY <1>1, <1>2, <1>5
<1>7. AnswerStamps' = AnswerStamps \/ AnswerStamps' = AnswerStamps \cup {Null}
  <2>1. AnswerStamps \subseteq AnswerStamps'
    BY <1>1, <1>3 DEF AnswerStamps
  <2>2. AnswerStamps' \subseteq AnswerStamps \cup {Null}
    BY <1>1, <1>3, <1>4 DEF AnswerStamps
  <2> QED BY <2>1, <2>2
<1> QED BY <1>2, <1>6, <1>7, WithdrawalHonours

(* A change request starts and stops holding for the reasons given, in      *)
(* every behaviour of the handlers.                                         *)
THEOREM ChangeRequestsHold == Spec => ChangeRequestHonoured
<1>1. Inv /\ [Next]_vars => [HoldStarts /\ HoldStops]_vars
  <2> SUFFICES ASSUME Inv, Next PROVE HoldStarts /\ HoldStops
    OBVIOUS
  <2>1. ASSUME NEW h \in Hash, NEW s \in Frontmatter, RegisterVersion(h, s)
        PROVE  HoldStarts /\ HoldStops
    BY <2>1, RegisterHonours
  <2>2. ASSUME NEW u \in User, NEW to \in {"changes-requested", "approved"},
               TransitionReview(u, to)
        PROVE  HoldStarts /\ HoldStops
    BY <2>2, TransitionHonours
  <2>3. ASSUME NEW u \in User, RecordApproval(u) PROVE HoldStarts /\ HoldStops
    BY <2>3, ApprovalHonours
  <2>4. ASSUME NEW u \in User, MarkReviewed(u) PROVE HoldStarts /\ HoldStops
    BY <2>4, ReviewedHonours
  <2>5. ASSUME NEW u \in User, NEW t \in Reviewer, DismissApproval(u, t)
        PROVE  HoldStarts /\ HoldStops
    BY <2>5, WithdrawalHonours DEF DismissApproval, AnswerStamps
  <2>6. ASSUME NEW u \in User, NEW ts \in SUBSET Reviewer,
               NEW q \in {"optional", "required"}, RequestReview(u, ts, q)
        PROVE  HoldStarts /\ HoldStops
    BY <2>6, RequestHonours
  <2>7. ASSUME NEW u \in User, NEW r \in requests, CancelReviewRequest(u, r)
        PROVE  HoldStarts /\ HoldStops
    <3>1. AnswerStamps' = AnswerStamps
      <4> DEFINE c == [r EXCEPT !.status = "cancelled"]
      <4>1. requests' = (requests \ {r}) \cup {c}
        BY <2>7 DEF CancelReviewRequest
      <4>2. c.satisfiedAt = r.satisfiedAt
        BY DEF Inv, IInv, TypeOK, Request
      <4> HIDE DEF c
      <4> QED BY <4>1, <4>2 DEF AnswerStamps
    <3> QED BY <2>7, <3>1, WithdrawalHonours DEF CancelReviewRequest
  <2>8. ASSUME NEW u \in User, DeleteContent(u) PROVE HoldStarts /\ HoldStops
    <3>1. outcome' = NoOutcome
      BY <2>8 DEF DeleteContent
    <3>2. ~Holding'
      BY <3>1, HoldingMeans DEF NoOutcome
    <3> QED BY <3>1, <3>2 DEF HoldStarts, HoldStops
  <2>9. ASSUME NEW u \in User, NEW newRole \in RoleSet, ManageAllowlist(u, newRole)
        PROVE  HoldStarts /\ HoldStops
    BY <2>9, WithdrawalHonours DEF ManageAllowlist, AnswerStamps
  <2>10. ASSUME NEW u \in User, EraseUser(u) PROVE HoldStarts /\ HoldStops
    <3>1. /\ Status' = Status /\ outcome' = outcome
          /\ ApprovalStamps' = ApprovalStamps /\ AnswerStamps' = AnswerStamps
      BY <2>10, EraseReads DEF Inv
    <3>2. Answered' = Answered
      BY <3>1 DEF Answered
    <3> QED BY <3>1, <3>2, SameHolding DEF HoldStarts, HoldStops
  <2> QED
    BY <2>1, <2>2, <2>3, <2>4, <2>5, <2>6, <2>7, <2>8, <2>9, <2>10 DEF Next
<1> QED BY <1>1, Stamped, PTL DEF Spec, ChangeRequestHonoured

=============================================================================
