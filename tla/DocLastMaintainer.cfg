CONSTANTS
  m = m
  n = n
  e = e
  nobody = nobody
  page = page
  other = other
  t1 = t1
  s1 = s1
  r1 = r1
  c1 = c1
  c2 = c2
  c3 = c3
  c4 = c4
  NoToken = NoToken
  Person <- MCPerson
  Registered <- MCRegistered
  Suggestion <- MCSuggestion
  Admin <- MCAdmin
  FirstRole <- MCFirstRole
  Artifact <- MCArtifact
  Token <- MCToken
  Call <- MCCall
  Request <- MCRequest
  Asked <- MCAsked
  Op <- MCOp
  MaxInFlight = 2
SYMMETRY Symmetry
SPECIFICATION Spec
CHECK_DEADLOCK FALSE
INVARIANT MaintainerRemains
