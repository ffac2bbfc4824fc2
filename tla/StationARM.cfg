\* One station on a machine that may reorder plain accesses.
CONSTANTS
  RingSize = 2
  MaxEvents = 3
  MemoryModel = "ARM"
SPECIFICATION Spec
INVARIANT Untorn
