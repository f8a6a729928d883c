CONSTANTS
  r1 = r1  r2 = r2  h1 = h1  h2 = h2  h3 = h3  o1 = o1  o2 = o2  o3 = o3
  j1 = j1  j2 = j2  j3 = j3  s1 = s1  a1 = a1  a2 = a2  v1 = v1
  t1 = t1  t2 = t2  controller = controller  child = child
  c1 = c1  w1 = w1  w2 = w2
  None = None
  Id <- MCIds
  Actor = {controller, child}
  Candidate = {c1}
  Work = {w1, w2}
  ItemBytes = 1
  StateMax = 21
  ArtifactMax = 2
  ResultMax = 1
  Radix = 2
  Commands <- MCCommands
SPECIFICATION MCSpec
CHECK_DEADLOCK FALSE
INVARIANTS
  TypeOK
  NoBadNewsWithoutGoodNews
  ScopeNeverWidens
  FullLedgerStillCloses
  NothingOpenIsSkipped
PROPERTIES
  BadNewsNeedsAnAnswer
  PendingNeedsAJudgment
  OpenIsPresented
