SPECIFICATION Spec
CONSTANTS
  WordModulus <- Word
  Blobs <- AllBlobs
INVARIANTS GeneralMemoryIsTheTrees CutNeverMisleads RegionIsInTheBlock
PROPERTIES WalkEnds
\* The reader returns.
CHECK_DEADLOCK FALSE
