CONSTANTS
  AddrBits = 6
  Addrs = {0, 1, 2, 62, 63}
  Lens = {1, 2}
  MaxSegs = 3
SPECIFICATION Spec
INVARIANT TypeOK
INVARIANT ContigSizeCorrect
CHECK_DEADLOCK FALSE
