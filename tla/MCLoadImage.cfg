SPECIFICATION Spec
CONSTANTS
  Files <- MCFiles
  Modulus = 512
  MegaSize = 64
  MAX_PROGRAM_MEGAPAGES = 4
  Occupied = {448}
INVARIANTS TypeOK AcceptedIsInside TableIsExact ImageIsReference CopyStaysInFrame PassesAgree LoadsWhatItCan
PROPERTIES LoadEnds
\* The load is over once it is done or has panicked.
CHECK_DEADLOCK FALSE
