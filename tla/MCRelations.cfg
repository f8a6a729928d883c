CONSTANTS
  Edge = {e1, e2}
  Id = {i1, i2, i3, i4}
  Process = {p1, p2}
  Absent = Absent
  None = None
  MaxBatch = 2
  MaxRelations = 3
  MaxAsks = 3
SPECIFICATION Spec
SYMMETRY MCSymmetry
CHECK_DEADLOCK FALSE
INVARIANTS
  AtMostOneRelation
  StaysWritable
PROPERTIES
  EdgeStaysRegistered
