SPECIFICATION FairSpec
CONSTANTS
  Nodes = {n1, n2}
  Timeout = 2
  NoLock = NoLock
  Nobody = Nobody
INVARIANTS TypeOK NoMutualApproval HolderKeepsLock OwnLockOnly
PROPERTIES ImplementsLease AttemptEnds StaleLockYields
