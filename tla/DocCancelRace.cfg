SPECIFICATION Spec
CONSTANTS
    ann = ann
    bob = bob
    p1 = p1
    p2 = p2
    p3 = p3
    old = old
    Process <- TwoCalls
    Reviewer <- OneReviewer
    Call <- CallsAboutAnn
    PastRow <- AnnOnce
CHECK_DEADLOCK FALSE
PROPERTIES
    AnsweredStaysAnswered
