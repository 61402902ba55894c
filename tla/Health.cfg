SPECIFICATION FairSpec
CONSTANTS
  Handlers = {h1, h2}
  TTL = 2
  CheckTime = 1
  Retries = 3
  Delay = 2
  Period = 1
  MaxChanges = 2
  MaxKills = 1
  Unknown = Unknown
INVARIANTS AnswerIsRecent FailureIsRepeated
PROPERTY FileSettles
