SPECIFICATION Spec
CONSTANTS
  Bytes = {0, 1}
  Zero = 0
  kCheapPrepend = 2
  kInitialSize = 2
  ExtraSize = 2
  MaxReadable = 3
INVARIANTS
  TypeOK
  BoundedGrowth
PROPERTIES
  PrependRoomKept
  ImplementsByteQueue
