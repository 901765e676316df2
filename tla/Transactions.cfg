SPECIFICATION Spec
CONSTANTS
    ann = ann
    bob = bob
    p1 = p1
    p2 = p2
    p3 = p3
    old = old
    Process <- ThreeCalls
    Reviewer <- Reviewers
    Call <- MixedCalls
    PastRow <- AnnOnce
CHECK_DEADLOCK FALSE
INVARIANTS
    TypeOK
    SkewOnlyFromOverlap
    TimelineAgrees
    DuplicatesOnlyFromOverlap
PROPERTIES
    ClosedRequestsKeepTheirTerms
    CallsEnd
