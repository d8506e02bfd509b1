SPECIFICATION Spec
SYMMETRY Symmetry
CONSTANTS
  Jobs = {j1, j2, j3}
  Fixups = {f1}
  Digests = {d1, d2}
  Tag = Tag
  None = None
  MaxRunning = 3
INVARIANT NothingLost SuccessIsProposed TruthfulWhenSerial
