SPECIFICATION FairSpec
CONSTANTS
  Keys = {k1}
  Foreign = k2
  Requests = {r1, r2}
  Errors = {"ConflictException", "P2002", "TypeError"}
  FetchTimeout = 1
  Cooldown = 2
  CacheMaxAge = 3
  None = None
INVARIANTS TypeOK LogTellsTheAnswer
PROPERTIES WithdrawnKeysExpire GoodTokensRefusedOnlyIfNew EveryRequestEnds
