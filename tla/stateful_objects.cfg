CONSTANTS
  SizeModulus = 16
  IndexModulus = 4
  Options <- MCStreamOptions
  Blocks <- MCBlocks
  MaxBytes = 5
  Threads = {1, 2}
  Inputs <- MCInputs
SPECIFICATION MCSpec
INVARIANTS
  NoWordByteIsLost
  CallsFollowTheStream
  HeldBackIsShortOrBlank
  EachWindowOnce
  OnlyWarnedChunksAreOvertaken
PROPERTIES
  EndIsTheEndForAll
