SPECIFICATION Spec
CONSTANTS
  Nobody = Nobody
  Threads <- DemoThreads
  Endpoints <- DemoEndpoints
  MaxRefused = 0
INVARIANTS MintLinesAreMints
CHECK_DEADLOCK FALSE
