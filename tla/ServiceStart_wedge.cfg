SPECIFICATION FairSpec
CONSTANTS
  Start = start
  Status = {status}
  Readers = {reader}
  Lockers = {locker}
  Loops = {loop}
  Grace = 1
  Past = 2
  Horizon = 2
  Never = Never
  Nobody = Nobody
PROPERTY StatusServed
CHECK_DEADLOCK FALSE
