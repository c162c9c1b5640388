CONSTANTS
  SizeModulus = 12
  IndexModulus = 4
  Inputs <- MCInputs
  Options <- MCOptions
SPECIFICATION BufferSpec
INVARIANTS
  StreamTypeOK
  DeliveredFollowsReference
  EndMeansEverythingDelivered
PROPERTIES
  CancellationIsFinal
  BufferImplementsContract
  BufferCallReturns
