SPECIFICATION FairSpec
CONSTANTS
  s1 = s1
  s2 = s2
  s3 = s3
  Sites <- MCSites
  Config <- MCConfig
  Priority <- MCPriority
  Primary <- MCPrimary
INVARIANTS TypeOK NoNeedlessRestart VerdictsRight HalfRespond
PROPERTIES OutageFound
