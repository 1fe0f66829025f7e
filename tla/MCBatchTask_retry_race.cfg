SPECIFICATION Spec
CONSTANTS
  batch_capacity = 2
  batch_siz = 1
  OutOfOrder = FALSE
  OUT_OF_ORDER_RECYCLE_T_INIT = 25
  SlowRetry = FALSE
  MaxOps = 3
  MaxFaults = 1
INVARIANTS
  DoneMeansDone
