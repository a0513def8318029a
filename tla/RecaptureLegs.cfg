SPECIFICATION MCSpec
CONSTANTS
  q = q  s = s  x = x  a = a  b = b  p = p  i = i  o = o  NoOne = NoOne
  Currencies = {q}
  Quote = q
  PoolCurrencies = {q}
  Accounts = {a}
  ProtocolRecipient = p
  Integrator = p
  RoyaltyTo = p
  LiquidityOwner = p
  Bps = 4
  ProtocolBps = 0
  PartnerBps = 0
  TraderBps = 0
  PotBps = 0
  RoyaltyBps = 0
  IntegratorBps = 0
  ReleaseBlocks = 4
  PerSecond = 2
  Period = 2
  MaxPrizeBps = 1
  PotReleaseBps = 2
  FullRelease = 3
  MinBuy = 1
  MaxPart = 20
  FlushMayFail = FALSE
  HasSiblings = TRUE
  Watched = TRUE
  Buyers = {a}
  Pushed = {q}
  Amounts = {3}
  Spends = {1}
  Fees = {}
  Settlements <-FreeSwaps
  MaxOwed = 6
  MaxBlock = 4
  MaxSecond = 3
  Focuses = {"donation"}
INVARIANTS
  EveryStayEarnsItsBlocks
CHECK_DEADLOCK FALSE
