CONSTANTS
  Descriptors = {3, 4}
  Addresses = {1, 2}
  Sources <- MCSources
  SizeModulus = 16
  IndexModulus = 2
  RecordLists <- MCRecordLists
  Options <- MCAbiOptions
SPECIFICATION MCSpec
INVARIANTS
  ActiveInputIsUtf8
