CONSTANTS
  doc = doc  index = index  nested = nested  identity = identity
  original = original  revised = revised  map = map  back = back
  damaged = damaged
  Doc = {doc}
  Index = {index, nested}
  Root = {index}
  History = {identity}
  Content <- MCContent
  Links <- MCLinks
  Unreadable = {damaged}
  Template = original
  Absent = Absent
  None = None
  Process = {p1, p2}
  Starts <- MCStarts
  Asked <- MCAsked
  MaxBackups = 2
  MaxEdits = 1
SPECIFICATION MCSpec
INVARIANTS
  NewestBackupApplies
  LinksLead
  CheckIsExact
PROPERTIES
  ReplacedIsKept
  ReplacesWhatItMeant
  FailureRestores
  RollbackRestores
  HistoryIsNotReplayed
SYMMETRY MCSymmetry
