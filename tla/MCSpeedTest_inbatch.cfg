SPECIFICATION TestSpec
CONSTANTS
  BIG_LEN = 3
  SMALL_LEN = 1
  COPY_LEN = 2
  bsiz = 4
  array_len = 12
  INT_RANGE = 12
  Ring = 2
  wq_cnt = 2
  Repeats = 1
  Tests <- MCTests
INVARIANT InsideArrays
CHECK_DEADLOCK FALSE
