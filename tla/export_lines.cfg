CONSTANTS
  SizeModulus = 12
  IndexModulus = 4
  Inputs <- MCExportInputs
  Options <- MCExportOptions
  Policies <- MCPolicies
SPECIFICATION ExporterSpec
INVARIANTS
  EveryRecordHasItsOwnLine
CHECK_DEADLOCK FALSE
