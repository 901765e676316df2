SPECIFICATION Spec
CONSTANTS
    ann = ann
    bob = bob
    deletedUser = deletedUser
    h1 = h1
    h2 = h2
    r1 = r1
    r2 = r2
    User <- People
    SiteAdmin <- AnnIsAdmin
    Tombstone = deletedUser
    Hash <- OneHash
    Frontmatter <- DraftOnly
    RequestId <- TwoRequests
    MaxClock = 3
VIEW WithoutLog
SYMMETRY Symmetry
CHECK_DEADLOCK FALSE
INVARIANTS
    TypeOK
    UniqueActiveRows
PROPERTIES
    RequiredOnlyForAllowlisted
    EraseKeepsSignOff
