CONSTANTS
  SizeModulus = 12
  IndexModulus = 4
  Inputs <- MCExportInputs
  Options <- MCExportOptions
  Policies <- MCPolicies
SPECIFICATION ExporterSpec
INVARIANTS
  OutputFollowsReference
  ResultMatchesOutput
  DelaysGrowWithinLimit
PROPERTIES
  ExportReturns
CHECK_DEADLOCK FALSE
