CONSTANTS
  Viewers = {ana, bo}
  Readers = {ana}
  ana = ana
  bo = bo
  Threads = {t1, t2}
  t1 = t1
  t2 = t2
  ThisPage <- MCThisPage
  SameSlug <- MCSameSlug
  Sse = TRUE
  NoData = NoData
  NoFetch = NoFetch
  Unread = Unread
  NoMark = NoMark
  MaxPosts = 2
  MaxMarks = 2
  MaxFailures = 2
SPECIFICATION Spec
CHECK_DEADLOCK FALSE
INVARIANTS
  TypeOK
  WrongIsUnderRepair
  ReadIsShownSoon
PROPERTIES
  PagesConverge
