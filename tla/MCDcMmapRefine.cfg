CONSTANTS
  b1 = b1  b2 = b2  d1 = d1  d2 = d2  a1 = a1  a2 = a2  t1 = t1  t2 = t2
  TO_DEVICE = TO_DEVICE  FROM_DEVICE = FROM_DEVICE
  NONE = NONE  NoBuf = NoBuf  NoDb = NoDb
  Bufs <- MCBufs
  DBufs <- MCDBufs
  Atts <- MCAtts
  Threads <- MCThreads
  Dirs <- MCDirs
  Sizes = {1}
  MaxVmas = 2
SPECIFICATION Spec
SYMMETRY MCSymmetry
PROPERTY LifecycleRefined
