SPECIFICATION AllocSpec
CONSTANTS
  pool_size = 8
  UNIT = 2
  Sizes = {0, 2, 3, 4, 6}
  Alignments = {2, 4}
  MaxCalls = 5
  Unwritten <- MCUnwritten
INVARIANTS
  NodesInArray
