CONSTANTS
  Starts <- MCStarts
  Below <- MCBelow
  Deeper <- MCDeeper
  Hidden <- MCHidden
  NumberOf <- MCNumberOf
  Dashed <- MCDashed
SPECIFICATION CommandLineSpec
INVARIANTS
  OnlyAcceptedRunsWrite
  EffectiveSettings
  SuccessIsTheWholeOutput
