SPECIFICATION FairSpec
CONSTANTS
  Sites = {s1}
  Retries = {r1}
  MaxRetries = 1
  Cooldown = 1
  RetryDelay = 1
  Dedup = 1
  Stale = 1
  Free = Free
PROPERTY RestartLoopEnds
