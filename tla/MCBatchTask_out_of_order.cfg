SPECIFICATION FairSpec
CONSTANTS
  batch_capacity = 3
  batch_siz = 1
  OutOfOrder = TRUE
  OUT_OF_ORDER_RECYCLE_T_INIT = 2
  SlowRetry = TRUE
  MaxOps = 5
  MaxFaults = 1
INVARIANTS
  RingInv
  OpInv
  NoOpDropped
PROPERTIES
  EveryCallReturns
