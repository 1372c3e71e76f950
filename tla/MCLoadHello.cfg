SPECIFICATION Spec
CONSTANTS
  Files <- HelloFiles
  Modulus = 1024
  MegaSize = 64
  MAX_PROGRAM_MEGAPAGES = 8
  Occupied = {448}
INVARIANTS OneFramePerSegment
\* The load is over once it is done or has panicked.
CHECK_DEADLOCK FALSE
