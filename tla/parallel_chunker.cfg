CONSTANTS
  SizeModulus = 14
  IndexModulus = 4
  Inputs <- MCParallelInputs
  Options <- MCParallelOptions
  ThreadCounts = {0, 2, 3, 5}
  MaxWindows = 7
SPECIFICATION ParallelSpec
INVARIANTS
  SlicesPartitionWindows
  NoWorkerOutlivesTheCall
PROPERTIES
  ParallelImplementsContract
  ParallelCallReturns
