CONSTANTS
  lead = lead  second = second  ledger = ledger  config = config
  Process = {lead, second}
  OpsOf <- MCOpsOf
  Locked = {second}
  Protected = {config}
  Ledger = ledger
  Modes = {"delegated", "single-agent"}
  None = None
  Absent = Absent
  MaxWrites = 3
  MaxTampers = 1
  MaxLog = 2
SPECIFICATION Spec
INVARIANTS
  AnchorIsRestorable
PROPERTIES
  RetiredStaysRetired
  AnchorFollowsLedger
  SwitchIsCurrent
  RecoveryArchives
