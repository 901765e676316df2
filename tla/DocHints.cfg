CONSTANTS
  Viewers = {ana, bo}
  Readers = {ana, bo}
  ana = ana
  bo = bo
  Threads = {t1}
  t1 = t1
  t2 = t2
  ThisPage <- MCThisPage
  SameSlug <- MCSameSlug
  Sse = TRUE
  NoData = NoData
  NoFetch = NoFetch
  Unread = Unread
  NoMark = NoMark
  MaxPosts = 1
  MaxMarks = 1
  MaxFailures = 0
SPECIFICATION Spec
CHECK_DEADLOCK FALSE
PROPERTIES
  HintsRefetch
