------------------------------ MODULE SignOffPromise ------------------------------
(***************************************************************************)
(* What the review of an artifact promises each person: they have been     *)
(* asked, or they have signed off, or neither.  ReviewLifecycle, with its  *)
(* rows, roles and stamps, implements it.                                  *)
(***************************************************************************)
CONSTANT Person

VARIABLES
    asked,    \* whose review is awaited
    signed    \* whose sign-off counts

Init == asked = {} /\ signed = {}

(* Several people are asked at once, and a sign-off given before is void.   *)
Ask(people) ==
    /\ asked' = asked \cup people
    /\ signed' = signed \ people

SignOff(p) ==
    /\ asked' = asked \ {p}
    /\ signed' = signed \cup {p}

(* An answer that is no sign-off, a cancellation, a withdrawn sign-off, or  *)
(* an erasure: it is about one person.                                      *)
LetGo(p) ==
    /\ asked' = asked \ {p}
    /\ signed' = signed \ {p}

Forget == asked' = {} /\ signed' = {}

Next ==
    \/ \E people \in SUBSET Person : Ask(people)
    \/ \E p \in Person : SignOff(p) \/ LetGo(p)
    \/ Forget

Spec == Init /\ [][Next]_<<asked, signed>>
=============================================================================
