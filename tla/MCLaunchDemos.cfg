SPECIFICATION Spec
CONSTANTS
  Demos <- ShippedDemos
  RamEnds <- MCRamEnds
  MaxFrames = 28
  MaxCNodes = 7
  MaxVSpaces = 6
  MaxFrameMappings = 2
  CNodeSlots = 72
  UntypedBudget = 1000
INVARIANTS DocumentedUse ArenaWindowFree NarrationUnambiguous BadgesUnforgeable FirstCallerIsMeant
PROPERTIES ImplementsPromise EntersUserMode
\* The launcher is done once it has entered the first thread.
CHECK_DEADLOCK FALSE
