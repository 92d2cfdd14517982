SPECIFICATION Spec
CONSTANTS
  NoBlock = NoBlock
  None = NoBlock
  Blocks <- MCBlocks
  Triggers <- MCTriggers
  StartPtr <- MCStart
  ReorgDepth = 2
  ReorgThreshold = 2
  AncestorCount = 2
  CloseToHead = 2
  BufferSize = 2
  MaxFaults = 1
PROPERTIES
  UnfailsOnceAdvanced
CHECK_DEADLOCK FALSE
