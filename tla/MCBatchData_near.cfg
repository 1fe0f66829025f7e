SPECIFICATION Spec
CONSTANTS
  batch_siz = 2
  WORD = 4
  LINE = 8
  PAGE = 8
  DESCS_ADDRESS_ALIGNMENT = TRUE
  INTERLEAVED_PAGEFAULT_ENABLE = TRUE
  SHORT = 3
  DSA_PAGE_FAULT_TOUCH_LEN = 16
  DSA_PF_LEN_LIMIT = 32
  Mem <- MCMem
  Memory <- MCMemory
  Requests <- Near
  MaxOps = 2
  MaxFaults = 2
INVARIANTS
  TouchesOwn
