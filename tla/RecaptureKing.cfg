SPECIFICATION MCSpec
CONSTANTS
  q = q  s = s  x = x  a = a  b = b  p = p  i = i  o = o  NoOne = NoOne
  Currencies = {q,s,x}
  Quote = q
  PoolCurrencies = {q,s}
  Accounts = {a,b}
  ProtocolRecipient = p
  Integrator = a
  RoyaltyTo = a
  LiquidityOwner = p
  Bps = 4
  ProtocolBps = 1
  PartnerBps = 0
  TraderBps = 2
  PotBps = 2
  RoyaltyBps = 2
  IntegratorBps = 2
  ReleaseBlocks = 4
  PerSecond = 2
  Period = 2
  MaxPrizeBps = 2
  PotReleaseBps = 2
  FullRelease = 3
  MinBuy = 1
  MaxPart = 2
  FlushMayFail = TRUE
  HasSiblings = FALSE
  Watched = FALSE
  Buyers = {a,b}
  Pushed = {q,s,x}
  Amounts = {4,8}
  Spends = {2,3}
  Fees = {1}
  Settlements <-SomeFees
  MaxOwed = 16
  MaxBlock = 3
  MaxSecond = 5
  Focuses = {"crown","ledger"}
INVARIANTS
  Accounted
  LeadsAreEarned
CHECK_DEADLOCK FALSE
