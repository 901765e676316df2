SPECIFICATION Spec
CONSTANTS
    ann = ann
    bob = bob
    deletedUser = deletedUser
    h1 = h1
    h2 = h2
    r1 = r1
    r2 = r2
    User <- People
    Tombstone = deletedUser
    RequestId <- TwoRequests
    SiteAdmin <- NoAdmin
    Hash <- TwoHashes
    Frontmatter <- DraftReady
    MaxClock = 3
CHECK_DEADLOCK FALSE
INVARIANTS
    ReleaseEventsAreTrue
