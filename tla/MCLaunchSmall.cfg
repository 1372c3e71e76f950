SPECIFICATION Spec
CONSTANTS
  Demos <- MCDemos
  RamEnds <- MCRamEnds
  MaxFrames = 9
  MaxCNodes = 3
  MaxVSpaces = 3
  MaxFrameMappings = 2
  CNodeSlots = 22
  UntypedBudget = 18
INVARIANTS TypeOK MemoryDisjoint VisibleMemoryIsCleared SharingIsDeclared FrameCustody RunQueueSound PanicsOnlyWhenItMust
PROPERTIES ImplementsPromise
\* The launcher is done once it has entered the first thread.
CHECK_DEADLOCK FALSE
