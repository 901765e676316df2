----------------------------- MODULE DeriveState -----------------------------
(***************************************************************************)
(* The effective review state of one artifact, as deriveReviewState        *)
(* (server/src/services/review.ts) computes it on every read.  Nothing     *)
(* here is stored: the input is what loadDerivedState gathers from the     *)
(* version, review_state, content_approval and review_request rows.        *)
(*                                                                         *)
(* A timestamp is a natural number and Null stands for an absent one; rows *)
(* are stamped from 1, so Null is older than every stamp.                  *)
(***************************************************************************)
EXTENDS Naturals

Null == 0

(* Frontmatter statuses; "none" is an unregistered or status-less artifact. *)
StatusSet == {"none", "idea", "draft", "ready", "private"}

(* The storable outcomes, with "none" for an artifact that has none. *)
OutcomeSet == {"none", "changes-requested", "approved"}

StateSet == {"none", "needs-review", "changes-requested", "approved", "released"}

DeriveInput(People) ==
    [ status          : StatusSet,
      outcome         : OutcomeSet,
      outcomeAt       : Nat,
      approvers       : SUBSET People,
      latestApproval  : Nat,
      openRequired    : SUBSET People,
      hasRequired     : BOOLEAN,
      hasOpen         : BOOLEAN,
      latestSatisfied : Nat ]

IsPrivate(in) == in.status = "private"

(* What supersedes a change request: the last approval or, for private      *)
(* content, which has no approvals, the last request marked reviewed.       *)
SignedOffAt(in) ==
    IF IsPrivate(in) THEN in.latestSatisfied ELSE in.latestApproval

ChangesRequestedHold(in) ==
    /\ in.outcome = "changes-requested"
    /\ \/ SignedOffAt(in) = Null
       \/ in.outcomeAt >= SignedOffAt(in)

(* A maintainer override, or approvals with no required reviewer pending. *)
IsApproved(in) ==
    \/ in.outcome = "approved"
    \/ /\ in.approvers # {}
       /\ in.hasRequired => in.openRequired = {}

(* Mutant: `ready` outranks a change request. *)
ReadyOutranksChanges(in) ==
    IF ~IsPrivate(in) /\ in.status = "ready" THEN "released"
    ELSE IF ChangesRequestedHold(in) THEN "changes-requested"
    ELSE IF ~IsPrivate(in) /\ IsApproved(in) THEN "approved"
    ELSE IF in.hasOpen THEN "needs-review"
    ELSE "none"

DeriveReviewState(in) ==
    IF ChangesRequestedHold(in) THEN "changes-requested"
    ELSE IF ~IsPrivate(in) /\ in.status = "ready" THEN "released"
    ELSE IF ~IsPrivate(in) /\ IsApproved(in) THEN "approved"
    ELSE IF in.hasOpen THEN "needs-review"
    ELSE "none"

=============================================================================
