SPECIFICATION Spec
CONSTANTS
  MaxRetries = 2
  Cooldown = 2
  MaxEnds = 2
  Savers = {handler, ticker, signal}
  Handler = handler
  Absent = absent
  Torn = torn
INVARIANTS TypeOK LimitUnlessLost
PROPERTIES SpacedUnlessForgotten LimitIsFinal
