SPECIFICATION MCSpec
CONSTANTS
  o = o  a = a  l1 = l1  w1 = w1  w2 = w2  s1 = s1  t1 = t1  NoOne = NoOne
  Accounts = {o,a}
  Deployer = o
  Delay = 1
  Grace = 0
  MaxTime = 3
  MaxEpoch = 1
  Lists = {l1}
  Wallets = {w1,w2}
  Tiers = {t1}
  Sources = {s1}
  MaxTtl = 1
  Agenda <- AgendaOfFocuses
  BindableTerms <- TermsOfFocuses
  Focuses = {"exits"}
PROPERTIES
  NoRoleFreezesExits
CHECK_DEADLOCK FALSE
