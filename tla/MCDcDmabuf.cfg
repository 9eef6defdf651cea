CONSTANTS
  p1 = p1
  p2 = p2
  TO_DEVICE = TO_DEVICE
  FROM_DEVICE = FROM_DEVICE
  NoSgt = NoSgt
  Slots <- MCSlots
  Dirs <- MCDirs
  AddrBits = 2
  DbufSizes = {1, 2}
  Sizes = {1, 2}
  MapAddrs = {1, 2}
  Lens = {1, 2}
  MaxSegs = 2
  MaxCount = 2
SPECIFICATION Spec
SYMMETRY MCSymmetry
INVARIANT ExporterRefsBalanced
