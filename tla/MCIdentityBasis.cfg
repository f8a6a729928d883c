CONSTANTS
  p1 = p1  p2 = p2  w1 = w1  w2 = w2
  Process = {p1, p2}
  Worktree = {w1, w2}
  Of <- MCOf
  None = None
  Absent = Absent
  Damaged = Damaged
  MaxNote = 2
  MaxVersion = 1
  MaxChanges = 1
  MaxEdits = 1
SPECIFICATION Spec
INVARIANTS
  NewIdIsFresh
PROPERTIES
  OfferedAtMostOnce
  WithdrawnStaysWithdrawn
