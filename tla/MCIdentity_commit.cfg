CONSTANTS
  Text = {t1, t2}
  Challenge = {c1}
  Process = {p1}
  Absent = Absent
  None = None
  MaxVersions = 3
  MaxStart = 2
  MaxAsks = 1
  MaxEdits = 0
SPECIFICATION Spec
INVARIANTS
  InterruptedIsRecoverable
