--------------------------------- MODULE MCRatings ---------------------------------
EXTENDS Ratings, TLC

(* Calls and past rows are alike but for their names, and so are the raters. *)
Symmetry == Permutations(Process) \cup Permutations(Rater) \cup Permutations(PastRow)
=============================================================================
