SPECIFICATION BuildsSpec
CONSTANTS
  batch_capacity = 2
  batch_siz = 3
  OutOfOrder = FALSE
  OUT_OF_ORDER_RECYCLE_T_INIT = 25
  SlowRetry = TRUE
  MaxOps = 4
  MaxFaults = 1
  Sizes = {2, 64}
INVARIANTS
  TypeOK
  BatchesPartitioned
  NothingRunsTwice
  InOnePlace
  RedistributeInv
PROPERTIES
  DeviceMemoryUntouched
  OnlyFinishedLeave
  ImplementsService
