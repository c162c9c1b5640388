CONSTANTS
  Directories <- MCDirectories
  WorkerCounts = {1, 2}
  FileLimits = {1, 3}
SPECIFICATION PipelineSpec
INVARIANTS
  ThreadsStayInTheCall
  DocumentsFollowPaths
  ExportIsPrefix
PROPERTIES
  SetTokenStopsEverything
  PipelineReturns
CHECK_DEADLOCK FALSE
