SPECIFICATION Spec
CONSTANTS
  Nodes = {n1, n2}
  Timeout = 2
  NoLock = NoLock
  Nobody = Nobody
SYMMETRY NodeSymmetry
INVARIANT MutualExclusion
