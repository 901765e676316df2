SPECIFICATION Spec
CONSTANTS
    ann = ann
    bob = bob
    deletedUser = deletedUser
    h1 = h1
    h2 = h2
    r1 = r1
    r2 = r2
    User <- People
    SiteAdmin <- NoAdmin
    Tombstone = deletedUser
    Hash <- OneHash
    Frontmatter <- DraftReadyPrivate
    RequestId <- TwoRequests
    MaxClock = 4
VIEW WithoutLog
SYMMETRY Symmetry
CHECK_DEADLOCK FALSE
INVARIANTS
    AskedOrSignedOff
    SignOffAnswersLatestRequest
PROPERTIES
    TimelineMatchesRows
    ChangeRequestHonoured
    KeepsPromise
