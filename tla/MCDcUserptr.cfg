CONSTANTS
  p1 = p1
  p2 = p2
  TO_DEVICE = TO_DEVICE
  FROM_DEVICE = FROM_DEVICE
  NoSgt = NoSgt
  Slots <- MCSlots
  Dirs <- MCDirs
  AddrBits = 3
  PageSize = 4
  DmaAlign = 2
  Vaddrs = {0, 2, 3}
  Sizes = {0, 2, 3, 4}
  MapAddrs = {0, 2, 4, 7}
  Pfns = {0, 1, 3}
SPECIFICATION Spec
SYMMETRY MCSymmetry
INVARIANT RollbackComplete
INVARIANT AcceptedContiguous
