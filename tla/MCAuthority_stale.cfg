CONSTANTS
  lead = lead  second = second  ledger = ledger  config = config
  Process = {lead, second}
  OpsOf <- MCWriters
  Locked = {}
  Protected = {config}
  Ledger = ledger
  Modes = {"delegated", "single-agent"}
  None = None
  Absent = Absent
  MaxWrites = 4
  MaxTampers = 0
  MaxLog = 1
SPECIFICATION Spec
PROPERTIES
  StaleWriteRefused
