CONSTANTS
  Generated = {"INDEX.md", "config.json"}
  Process = {p1}
  Absent = Absent
SPECIFICATION Spec
PROPERTIES
  UninstallValidatesFirst
