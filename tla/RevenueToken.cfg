SPECIFICATION MCSpec
CONSTANTS
  x = x  y = y  pm = pm  eth = eth  usd = usd  mem = mem
  Accounts = {x,y,pm}
  Excluded = {pm}
  ShareSupply = 4
  MaxBlock = 7
  Currencies = {eth,mem}
  Rebasing = {mem}
  MaxDrops = 6
  MaxHeld = 6
  Assets = {eth,usd}
  Eth = eth
  Slashable = {usd}
  Scale = 2
  StreamSeconds = 3
  TipBps = 1
  BridgeBps = 1
  Bps = 2
  MinTipPull = 2
  MaxReceived = 6
  MaxCash = 6
  MaxNow = 4
  Allocations <- Mints
  Parts = {2,4}
  Amounts = {1,3}
  Focuses = {"history","drops","box","income","slashing"}
INVARIANTS
  SnapshotsAnswer
  BoxOwesWhatDropsHold
  IncomeAccounted
PROPERTIES
  DropSharesSpec
  DropTermsStand
  OnlyTimeEarns
  ArrivalsBarelyStretch
CHECK_DEADLOCK FALSE
