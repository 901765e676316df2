SPECIFICATION Spec
CONSTANTS
    setup = setup
    usage = usage
    install = install
    preamble = preamble
    fenced = fenced
    noPage = noPage
    q = q
    noQuote = noQuote
    top = top
    noVersion = noVersion
    original = original
    again = again
    reworded = reworded
    edited = edited
    other = other
    t1 = t1
    region = region
    l1 = l1
    l2 = l2
    Preamble = preamble
    Fenced = fenced
    NoPage = noPage
    NoQuote = noQuote
    NoVersion = noVersion
    Top = top
    Quote <- Quotes
    HasContext <- MCHasContext
    Fit <- MCFit
    ShowsEdit <- MCShowsEdit
    Build <- Builds
    RootId <- OneRoot
    MaxVersions = 4
    MaxRegistrations = 5
    Draft <- Drafts
CHECK_DEADLOCK FALSE
INVARIANTS
    TypeOK
PROPERTIES
    AnchorsResolve
    CodeThreadsOnTheirLine
    FastPathLosesNothing
    AppliedStaysHome
    ChangesAreExplained
