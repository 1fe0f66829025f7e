SPECIFICATION ProgramsSpec
CONSTANTS
  thread_cnt = 2
  str_per_thread = 2
  REPEAT = 2
  Strings <- MCStrings
  Tasks = {0, 1}
  batch_siz = 3
  MaxOps = 10
  TestSize = 5
  MaxRepeats = 2
  MaxFaults = 2
  extend_size = 3
  Lengths = {1, 2, 4}
  SourceSize = 10
  Stride = 2
  expand_step = 3
  cpu_cap = 4
  MaxPushes = 12
  Capacities = {4, 8, 16}
  HUGE = 3
  SPLIT = 2
  EVERY = 2
  PoolPages = {0, 1}
  Mixes <- MCMixes
  BIG_LEN = 3
  SMALL_LEN = 1
  COPY_LEN = 2
  bsiz = 4
  array_len = 12
  INT_RANGE = 12
  Ring = 2
  wq_cnt = 2
  Repeats = 2
  Tests <- MCTests
  coro = 2
  group = 2
  element_per_co = 3
  buffer_size = 2
  Hashes <- MCHashes
  Inputs <- MCInputs
  NUM_ENGINES = 2
  NUM_WQS = 3
  max_work_queues_size = 7
  MaxRuns = 4
  array_pages = 5
  task_pages = 2
  HUGE_PAGE = 4
  Options <- MCOptions
INVARIANTS
  ThreadShuffleRight
  PureBatchRight
  OooRoundsRight
  MergeSortRight
  CoroShuffleRight
  PmemFileRight
  SetupRight
  FaultsAsStated
  WholeListTimed
  ListsRight
  VectorKept
  Migrated
CHECK_DEADLOCK FALSE
