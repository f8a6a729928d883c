CONSTANTS
  Text = {t1, t2}
  Challenge = {c1, c2}
  Process = {p1, p2}
  Absent = Absent
  None = None
  MaxVersions = 3
  MaxStart = 2
  MaxAsks = 2
  MaxEdits = 1
SPECIFICATION Spec
SYMMETRY MCSymmetry
INVARIANTS
  ChainStaysReadable
  SideRecordsAgree
  ReadersAreNotAlarmed
PROPERTIES
  HistoryIsKept
  ResolutionIsFinal
  ReplacesWhatItNamed
