SPECIFICATION MCSpec
CONSTANTS
  o = o  g = g  n = n  l1 = l1  r1 = r1  r2 = r2  p1 = p1  w1 = w1  f1 = f1  h1 = h1
  a1 = a1  a2 = a2  c1 = c1  c2 = c2  e1 = e1  m1 = m1  m2 = m2  m3 = m3  b1 = b1  NoOne = NoOne
  Accounts = {o,g}
  Deployer = o
  Delay = 1
  Grace = 1
  MaxTime = 4
  Launchers = {}
  CuratedRoots = {r1}
  PairRoots = {}
  OwnedRoots = {w1}
  Factories = {f1}
  Hooks = {}
  Assets = {}
  Classes = {}
  ClassOf <- MCClassOf
  Currencies = {}
  MaxSettlement = 1
  Executors = {e1}
  MinGas = 1
  MaxGas = 2
  Modules = {m1,m2,m3}
  Kinds <- AllKinds
  TrustedRoot <- MCTrustedRoot
  Bonds = {b1}
  MaxCopies = 1
  Agenda <- AgendaOfFocuses
  Focuses = {"lanes","ownedLane","admissions","owned","roles"}
INVARIANTS
  TypeOK
PROPERTIES
  AdmissionLifecycle
  FreezeSeals
  LaneBrakesHold
  GuardianOnlyRestricts
CHECK_DEADLOCK FALSE
