SPECIFICATION Spec
CONSTANTS
  Nobody = Nobody
  Threads <- DemoThreads
  Endpoints <- DemoEndpoints
  MaxRefused = 19
INVARIANTS NarrationIsFaithful SuccessIsEarned
PROPERTIES VerdictComes
\* The programs spin at the end.
CHECK_DEADLOCK FALSE
