SPECIFICATION MCSpec
CONSTANTS
  o = o  g = g  n = n  l1 = l1  r1 = r1  r2 = r2  p1 = p1  w1 = w1  f1 = f1  h1 = h1
  a1 = a1  a2 = a2  c1 = c1  c2 = c2  e1 = e1  m1 = m1  m2 = m2  m3 = m3  b1 = b1  NoOne = NoOne
  Accounts = {o}
  Deployer = o
  Delay = 1
  Grace = 1
  MaxTime = 4
  Launchers = {l1}
  CuratedRoots = {r1}
  PairRoots = {p1}
  OwnedRoots = {}
  Factories = {f1}
  Hooks = {r1,p1}
  Assets = {a1}
  Classes = {c1}
  ClassOf <- MCClassOf
  Currencies = {NoOne,a1,a2}
  MaxSettlement = 2
  Executors = {}
  MinGas = 1
  MaxGas = 1
  Modules = {}
  Kinds = {}
  TrustedRoot <- MCTrustedRoot
  Bonds = {}
  MaxCopies = 1
  Agenda <- AgendaOfFocuses
  Focuses = {"markets","roots","factories","quotes","classes","indexes"}
INVARIANTS
  UntimedBrakesHold
  IndexesAgree
PROPERTIES
  BrakesImplementSwitches
CHECK_DEADLOCK FALSE
