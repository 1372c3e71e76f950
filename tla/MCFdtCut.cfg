SPECIFICATION Spec
CONSTANTS
  WordModulus <- Word
  Blobs <- CutBlobs
INVARIANTS MalformedIsAnError
CHECK_DEADLOCK FALSE
