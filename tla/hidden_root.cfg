CONSTANTS
  Directories <- MCDirectories
  WorkerCounts = {1, 2}
  FileLimits = {1, 3}
SPECIFICATION PipelineSpec
INVARIANTS
  VisibleFilesAreProcessed
CHECK_DEADLOCK FALSE
