SPECIFICATION MCSpec
CONSTANTS
  one = one  two = two  three = three
  x = x  y = y  r = r  eth = eth  usd = usd  pool = pool  king = king
  Campaigns = {one,two,three}
  Terms <- MCTerms
  Policies <- MCPolicies
  Eth = eth
  Rebasing = {usd}
  Crowned = {king}
  Referrals <- MCReferrals
  Proposals <- MCProposals
  Day = 1
  ProposalWindow = 2
  VetoGrace = 1
  Bps = 10
  MaxStackedBps = 9
  MaxKingStackedBps = 5
  MaxTime = 6
  MaxVersion = 2
  Balances = {2,4}
  Focuses = {"review","stack","cash"}
INVARIANTS
  CashAccounted
  CreditsFindTheirBudget
  PayoutsBelowFees
PROPERTIES
  ShortfallShared
  CreditsWereReviewed
  DaysSettle
CHECK_DEADLOCK FALSE
