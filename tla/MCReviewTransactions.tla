------------------------ MODULE MCReviewTransactions ------------------------
(* Two reviewers, and calls that meet on their rows in every way the          *)
(* handlers can: two batches over the same reviewers in opposite orders, one  *)
(* that upgrades and one that does not, and the calls about one of them.      *)
EXTENDS ReviewTransactions

CONSTANTS ann, bob, p1, p2, p3, old

TwoCalls == {p1, p2}
ThreeCalls == {p1, p2, p3}
Reviewers == {ann, bob}
OneReviewer == {ann}
AnnOnce == {<<old, ann>>}

Request(targets, requirement) ==
    [op |-> "request", targets |-> targets, requirement |-> requirement]
Record(u) == [op |-> "record", who |-> u]
Dismiss(u) == [op |-> "dismiss", who |-> u]
Cancel(author, u) == [op |-> "cancel", row |-> <<author, u>>]

MixedCalls ==
    { Request(<<ann, bob>>, "required"), Request(<<bob, ann>>, "required"),
      Request(<<ann>>, "optional"),
      Record(ann), Dismiss(ann), Cancel(old, ann), Cancel(p1, ann) }

CallsAboutAnn ==
    { Request(<<ann>>, "required"), Request(<<ann>>, "optional"),
      Record(ann), Dismiss(ann), Cancel(old, ann), Cancel(p1, ann) }
=============================================================================
