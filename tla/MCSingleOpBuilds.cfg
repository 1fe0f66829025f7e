SPECIFICATION BuildsSpec
CONSTANTS
  WORD = 4
  LINE = 8
  PAGE = 8
  DESCS_ADDRESS_ALIGNMENT = FALSE
  INTERLEAVED_PAGEFAULT_ENABLE = FALSE
  SHORT = 0
  TOUCH_LEN = 8
  DSA_PF_LEN_LIMIT = 32
  LEN_MOD = 64
  Mem <- MCMem
  Memories <- MCMemories
  Requests <- MCRequests
  MaxOps = 2
  MaxFaults = 2
INVARIANTS
  ResultAsPromised
  OnlyDestChanges
  CompareInStep
  MemInv
  PollInv
PROPERTIES
  DescriptorUntouched
  EveryCallReturns
