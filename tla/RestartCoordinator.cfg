SPECIFICATION FairSpec
CONSTANTS
  Sites = {s1, s2}
  Retries = {r1, r2}
  MaxRetries = 2
  Cooldown = 2
  RetryDelay = 2
  Dedup = 1
  Stale = 1
  Free = Free
INVARIANTS TypeOK OneRestart FlagBacked RetriesSpaced
PROPERTIES CooldownRespected ImplementsPolicy OutageHandled HandlerReturns
