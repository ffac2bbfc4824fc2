\* One station on a machine that keeps program order.
CONSTANTS
  RingSize = 2
  MaxEvents = 5
  MemoryModel = "TSO"
SPECIFICATION FairSpec
INVARIANT TypeOK
INVARIANT Untorn
INVARIANT LogInOrder
PROPERTY ImplementsTraceLog
PROPERTY QuietSlotHarvested
