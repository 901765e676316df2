-------------------------- MODULE MCReviewLifecycle --------------------------
(* Two people; who administers and what the build registers is left to the   *)
(* configurations, which give those CONSTANTS one of the sets below.          *)
EXTENDS ReviewLifecycle, TLC

CONSTANTS ann, bob, deletedUser, h1, h2, r1, r2

People == {ann, bob}
NoAdmin == {}
AnnIsAdmin == {ann}
OneHash == {h1}
TwoHashes == {h1, h2}
TwoRequests == {r1, r2}
DraftOnly == {"draft"}
DraftReady == {"draft", "ready"}
DraftReadyPrivate == {"draft", "ready", "private"}
DraftPrivate == {"draft", "private"}

(* logged is written by every action and read by none, and the properties   *)
(* read it only where it was just written: two states that differ in it     *)
(* alone have the same future.                                              *)
WithoutLog == <<clock, registered, role, versions, outcome, approvals, requests>>

Symmetry == Permutations(TwoHashes) \cup Permutations(TwoRequests)
=============================================================================
