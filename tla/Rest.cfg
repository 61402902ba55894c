SPECIFICATION FairSpec
CONSTANTS
  Clients <- MCClients
  Bot = "bot"
  Renewed <- MCRenewed
  Callers <- MCCallers
  ClientOf <- MCClientOf
  Plan <- MCPlan
  Capacity = 2
  MaxFaults = 1
  None = None
INVARIANTS OutcomeIsTrue NonceFailureIsExplained BurstIsBounded
PROPERTY EveryCallEnds
