SPECIFICATION FairSpec
CONSTANTS
  MaxFailures = 3
  ResetTimeout = 1
  HalfOpenSuccesses = 2
  LoginTries = 2
  TokenTries = 3
INVARIANTS TypeOK OpenIsSilent BreakerPrompt
PROPERTIES BreakerEarned 
