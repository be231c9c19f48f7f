SPECIFICATION Spec
CONSTANTS
  Resolvers = {r1, r2}
  Addresses = {a1, a2}
  TTL = 2
  Slow = 1
  NoEntry = NoEntry
  Name = Name
INVARIANTS TypeOK BoundedStaleness
