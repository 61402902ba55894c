SPECIFICATION Spec
CONSTANTS
  btc = btc
  eth = eth
  Pairs <- MCPairs
  Prices <- MCPrices
  Seeds <- MCSeeds
  Agendas <- MCAgendas
  Hour = 2
  TrendLen = 6
  MakerWait = 2
  DriftPct = 10
  Margin = 2
  NoEntry = NoEntry
  NoTick = NoTick
  Lot = 1
  StopLossPct = 10
  FeePct = 1
  BuyTrigger = 11
  SellTrigger = 15
  Spread = 1
  FastPeriod = 1
  SlowPeriod = 3
  AtrPeriod = 2
  AtrMinPct = 5
  BollPeriod = 3
  StdDevs = 1
  MinWidthPct = 4
  BollTrend = 2
  PullTrend = 1
  PullPeriod = 3
INVARIANTS PaperBelief CrossedAfterSilence CandlesAreTheTicks ReplayReproduces
CHECK_DEADLOCK FALSE
