SPECIFICATION PartsSpec
CONSTANTS
  batch_siz = 2
  WORD = 4
  LINE = 8
  PAGE = 8
  DESCS_ADDRESS_ALIGNMENT = TRUE
  INTERLEAVED_PAGEFAULT_ENABLE = TRUE
  SHORT = 3
  DSA_PAGE_FAULT_TOUCH_LEN = 16
  DSA_PF_LEN_LIMIT = 32
  Mem <- MCMem
  Memory <- MCMemory
  Requests <- Far
  MaxOps = 3
  MaxFaults = 2
  pool_size = 16
  UNIT = 2
  Sizes = {0, 2, 3, 6}
  Alignments = {2, 4}
  MaxCalls = 6
  Unwritten <- MCUnwritten
  Threads = {1, 2}
  Main = 1
  Machines <- MCMachines
  MaxUses = 4
  Regions = {2, 3, 29}
  Lengths = {0, 1, 3, 4, 7, 9, 16, 22, 25}
  Memories <- MCMemories
  Patterns <- MCPatterns
INVARIANTS
  MemoryAsExpected
  TouchesOwn
  BlocksDisjoint
  RootKnowsLongest
  QueuesDealtRight
  CpuDoesTheSame
PROPERTIES
  AnswerRight
CHECK_DEADLOCK FALSE
