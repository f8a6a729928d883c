CONSTANTS
  Generated = {"INDEX.md", "config.json"}
  Process = {p1, p2}
  Absent = Absent
SPECIFICATION Spec
INVARIANTS
  InitCompletes
PROPERTIES
  UserContentSurvives
