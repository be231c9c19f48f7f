SPECIFICATION Spec
CONSTANTS
  Savers = {ticker, handler, signal}
  Ticker = ticker
  Signal = signal
  MaxVersion = 1
  Absent = absent
  Empty = empty
  Broken = broken
INVARIANT FileComplete
