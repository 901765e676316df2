------------------------------- MODULE MCReviewPage -------------------------------
EXTENDS ReviewPage

(* Two pages that share a slug: architecture "docs" and a post of that name. *)
MCThisPage == [area |-> "docs", slug |-> "overview"]
MCSameSlug == [area |-> "blogs", slug |-> "overview"]
=============================================================================
