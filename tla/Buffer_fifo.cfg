SPECIFICATION Spec
CONSTANTS
  Byte = {zero, a}
  Zero = zero
  Size = 3
  TempLen = 2
  MaxChunk = 3
  MaxCapacity = 6
  ReallocFails = FALSE
  CopyOrders = {"up"}
INVARIANT TypeOK
PROPERTIES ImplementsByteQueue
