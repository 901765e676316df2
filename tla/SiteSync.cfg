CONSTANTS
  a = a
  b = b
  c = c
  NoPage = NoPage
  NoManifest = NoManifest
  Idle = Idle
  Torn = Torn
  Edited = Edited
  NoRun = NoRun
  NoBranch = NoBranch
  PageOrder <- MCPageOrder
  Source <- MCSource
  FirstSource <- Both
  MaxEmits = 4
  MaxCrashes = 2
  MaxEdits = 1
  MaxPushes = 3
  MaxMerges = 2
  MaxFailures = 1
SPECIFICATION Spec
CHECK_DEADLOCK FALSE
INVARIANTS
  TypeOK
  ReportAccounts
  UpstreamIsOneSite
PROPERTIES
  EmitRepairsSite
  EventuallyDelivered
