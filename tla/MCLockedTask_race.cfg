CONSTANTS
  r1 = r1  h1 = h1  o1 = o1  j1 = j1  s1 = s1
  lead = lead  second = second  child = child  c1 = c1  w1 = w1
  None = None
  Id <- MCIds
  Actor = {second, child}
  Candidate = {c1}
  Work = {w1}
  ItemBytes = 0
  StateMax = 7
  ArtifactMax = 1
  ResultMax = 1
  Radix = 5
  Process = {lead, second, child}
  Commands <- MCCommands
  CommandsOf <- MCCommandsOf
SPECIFICATION FairSpec
INVARIANTS
  NoLostUpdate
  RevisionNamesContent
PROPERTIES
  StrictCAS
  EveryCommandEnds
  ImplementsTaskLedger
